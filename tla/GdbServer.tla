----------------------------- MODULE GdbServer ------------------------------
(***************************************************************************)
(* The remote protocol server of gdbserver.c and a debugger that talks to  *)
(* it over a connection.  The server is one thread: it reads and parses a   *)
(* packet, and the packets that continue run the core inside the parser, in *)
(* a loop that polls the connection after every step with the same parser.  *)
(*                                                                         *)
(* A packet is abstracted to what its handler does with the server; the     *)
(* acknowledgements of the server are left out.  The core is any core: a    *)
(* step hits a breakpoint or not.                                           *)
(***************************************************************************)
EXTENDS Naturals, Sequences, SequencesExt

CONSTANTS
    Debuggers,    \* the debuggers that may connect: the packets each sends and
                  \* its habits, a subset of Habits
    MaxSent,      \* bound on what is on its way to the server and back
    Signals       \* TRUE if the user hits ^C where the simulator runs

VARIABLES
    debugger,     \* the debugger of this run
    phase,        \* where the server is
    loops,        \* the gdb_continue calls in progress, each "c" or "s"
    is_running,
    blocking,     \* the connection's mode
    block_on,     \* the mode gdb_pre_parse_packet believes it has
    quit,         \* global_server_quit
    sigint,       \* global_got_sigint
    conn,         \* the connection: none, open, or closed by the debugger
    to_server, to_client,
    last_reply,
    told,         \* history: the debugger was told of a stop since the last
                  \* time the program was started
    request,      \* the debugger waits for the answer to this packet
    interrupted   \* the debugger waits for the answer to a ^C

server_vars == <<phase, loops, is_running, blocking, block_on, quit, sigint, last_reply, told>>
client_vars == <<debugger, request, interrupted>>
vars == <<server_vars, conn, to_server, to_client, client_vars>>

(* A debugger may send a packet again that the server has not read yet,     *)
(* answer a reply with '-', kill a program that runs, and go away without a *)
(* word.                                                                    *)
Habits == {"retries", "naks", "kills running", "closes"}

(* 'c' and 's', the 'C' that raises an interrupt and continues, a 'c' with  *)
(* an address; 'C01', which resets; 'k' and 'D'; any packet that answers    *)
(* once and does nothing else here; and a packet with a bad checksum.       *)
RunPackets == {"c", "s", "raise"}
AllPackets == RunPackets \cup {"c_addr", "reset", "k", "query", "bad"}

(* T05 and T02 report a stop of a run.  garbled is the copy of a string that *)
(* was freed before.                                                        *)
Stops   == {"T05", "T02"}
Replies == Stops \cup {"S05", "S02", "OK", "data", "", "garbled"}

Answers == [p \in AllPackets \cup {"none"} |->
    CASE p \in RunPackets -> Stops
      [] p = "reset"      -> {"S05"}
      [] p = "k"          -> {"OK"}
      [] p = "query"      -> {"data"}
      [] OTHER            -> {}]

GdbServerAssumption ==
    /\ Debuggers \subseteq [packets : SUBSET AllPackets, habits : SUBSET Habits]
    /\ MaxSent \in Nat \ {0}
    /\ Signals \in BOOLEAN

ASSUME GdbServerAssumed == GdbServerAssumption

Init ==
    /\ debugger \in Debuggers
    /\ phase = "accept" /\ loops = <<>> /\ is_running = FALSE
    /\ blocking = TRUE /\ block_on = TRUE
    /\ quit = FALSE /\ sigint = FALSE
    /\ conn = "none" /\ to_server = <<>> /\ to_client = <<>>
    /\ last_reply = "none" /\ told = FALSE
    /\ request = "none" /\ interrupted = FALSE

----------------------------------------------------------------------------
(* Replies and the ends of loops *)

(* gdb_send_reply *)
Send(r) ==
    /\ to_client' = Append(to_client, r)
    /\ last_reply' = r
    /\ told' = (told \/ r \in Stops \cup {"S05", "S02"})

NoReply == UNCHANGED <<to_client, last_reply, told>>

(* Stop without the return from gdb_continue. *)
Stop_KeepsLoop(r) ==
    /\ Send(r)
    /\ is_running' = FALSE
    /\ phase' = IF Len(loops) = 1 THEN "main" ELSE "polled"
    /\ UNCHANGED loops

(* The end of gdb_continue: a reply, and back to the parser, which the main *)
(* loop called, or the poll of another gdb_continue.                        *)
Stop(r) ==
    /\ Send(r)
    /\ loops' = Front(loops)
    /\ is_running' = FALSE
    /\ phase' = IF Len(loops) = 1 THEN "main" ELSE "polled"

(* avr_error *)
Exit ==
    /\ phase' = "exit"
    /\ NoReply
    /\ UNCHANGED <<loops, is_running, quit, sigint>>

(* The main loop returned to gdb_interact: the core is reset and the        *)
(* connection closed, and the server waits for another one unless a SIGINT  *)
(* occurred.                                                                *)
EndSession ==
    /\ sigint' = FALSE
    /\ phase' = IF sigint \/ quit THEN "quit" ELSE "accept"
    /\ conn' = "none"
    /\ to_server' = <<>> /\ to_client' = <<>>
    /\ request' = "none" /\ interrupted' = FALSE
    /\ last_reply' = "OK" /\ told' = FALSE
    /\ UNCHANGED <<debugger, loops, is_running, quit>>

----------------------------------------------------------------------------
(* gdb_pre_parse_packet *)

(* ModeFor with a mode that is never changed. *)
ModeFor_NoChange(mode) == blocking

(* The mode of the connection for a read with the mode asked for. *)
ModeFor(mode) == IF block_on # mode THEN mode ELSE blocking

Input == to_server # <<>>

(* The first byte is read, in the mode asked for; after a '$' the           *)
(* connection blocks until the packet is complete, and is left so.          *)
ReadByte(mode) ==
    /\ Input
    /\ to_server' = Tail(to_server)
    /\ block_on' = mode
    /\ blocking' = (Head(to_server) \in AllPackets \/ ModeFor(mode))

(* Back to the caller with GDB_RET_OK. *)
ReturnsOk == phase' = IF phase = "main" THEN "main" ELSE "polled"

(* Continue without the test that the core runs already. *)
Continue_Reentrant(p) ==
    IF p = "c_addr" THEN Exit
    ELSE /\ loops' = Append(loops, IF p = "s" THEN "s" ELSE "c")
         /\ is_running' = TRUE
         /\ phase' = "run"
         /\ told' = FALSE
         /\ UNCHANGED <<to_client, last_reply, quit, sigint>>

(* gdb_continue, or gdb_continue_with_signal up to its call of it.          *)
Continue(p) ==
    IF is_running
    THEN ReturnsOk /\ NoReply /\ UNCHANGED <<loops, is_running, quit, sigint>>
    ELSE IF p = "c_addr" THEN Exit
    ELSE /\ loops' = Append(loops, IF p = "s" THEN "s" ELSE "c")
         /\ is_running' = TRUE
         /\ phase' = "run"
         /\ told' = FALSE
         /\ UNCHANGED <<to_client, last_reply, quit, sigint>>

(* A packet with one answer. *)
Answer(r) ==
    /\ Send(r)
    /\ ReturnsOk
    /\ UNCHANGED <<loops, is_running, quit, sigint>>

(* A '-': gdb_send_reply is called with the saved copy of the last reply,   *)
(* which gdb_last_reply frees before it copies it.                          *)
Nak ==
    /\ Head(to_server) = "-"
    /\ \E r \in IF last_reply = "none" THEN {""} ELSE {last_reply, "garbled"} :
          to_client' = Append(to_client, r) /\ last_reply' = r
    /\ ReturnsOk
    /\ UNCHANGED <<loops, is_running, quit, sigint, told>>

(* A '+' or a byte that means nothing. *)
Ignored ==
    /\ Head(to_server) \in {"+", "noise"}
    /\ ReturnsOk /\ NoReply
    /\ UNCHANGED <<loops, is_running, quit, sigint>>

(* What is neither 'k', 'D' nor a ^C: those the callers tell apart. *)
Parse ==
    LET p == Head(to_server) IN
    \/ p \in RunPackets \cup {"c_addr"} /\ Continue(p)
    \/ p = "query" /\ Answer("data")
    \/ p = "reset" /\ Answer("S05")
    \/ p = "bad" /\ Exit
    \/ Nak
    \/ Ignored

(* The debugger closed the connection and all of it was read: the reads      *)
(* return no byte, and gdb_read_byte gives up after MAX_READ_RETRY of them. *)
EndOfInput ==
    /\ conn = "closed" /\ ~Input
    /\ Exit
    /\ UNCHANGED <<blocking, block_on, to_server>>

----------------------------------------------------------------------------
(* The server *)

Untouched == UNCHANGED <<conn, client_vars>>

(* accept: the new connection blocks. *)
Accept ==
    /\ phase = "accept"
    /\ phase' = "main"
    /\ conn' = "open"
    /\ blocking' = TRUE
    /\ UNCHANGED <<loops, is_running, block_on, quit, sigint, last_reply, told,
                   to_server, to_client, client_vars>>

(* gdb_main_loop *)
MainParse == phase = "main" /\ ReadByte(TRUE) /\ Parse /\ Untouched

(* MainKill as in a running program: answered, and forgotten. *)
MainKill_Forgotten ==
    /\ phase = "main"
    /\ ReadByte(TRUE)
    /\ Head(to_server) = "k"
    /\ Answer("OK")
    /\ Untouched

MainKill ==
    /\ phase = "main"
    /\ Input /\ Head(to_server) = "k"
    /\ EndSession
    /\ block_on' = TRUE /\ blocking' = TRUE

(* MainInterrupt with the reply of a run. *)
MainInterrupt_AsRun ==
    /\ phase = "main"
    /\ ReadByte(TRUE)
    /\ Head(to_server) = "^C"
    /\ Answer("T02")
    /\ Untouched

MainInterrupt ==
    /\ phase = "main"
    /\ ReadByte(TRUE)
    /\ Head(to_server) = "^C"
    /\ Answer("S02")
    /\ Untouched

MainEnd == phase = "main" /\ EndOfInput /\ Untouched

(* The loop of gdb_continue *)
RunSigint ==
    /\ phase = "run"
    /\ sigint
    /\ sigint' = FALSE
    /\ quit' = TRUE
    /\ Stop("T05")
    /\ UNCHANGED <<blocking, block_on, to_server>> /\ Untouched

RunStep ==
    /\ phase = "run"
    /\ ~sigint
    /\ phase' = "poll"
    /\ NoReply
    /\ UNCHANGED <<loops, is_running, blocking, block_on, quit, sigint, to_server>>
    /\ Untouched

RunBreak ==
    /\ phase = "run"
    /\ ~sigint
    /\ Stop("T05")
    /\ UNCHANGED <<blocking, block_on, quit, sigint, to_server>> /\ Untouched

PollParse == phase = "poll" /\ ReadByte(FALSE) /\ Parse /\ Untouched

(* Nothing to read, and the connection does not block. *)
PollNothing ==
    /\ phase = "poll"
    /\ ~Input /\ conn = "open"
    /\ ~ModeFor(FALSE)
    /\ block_on' = FALSE /\ blocking' = FALSE
    /\ phase' = "polled"
    /\ NoReply
    /\ UNCHANGED <<loops, is_running, quit, sigint, to_server>> /\ Untouched

(* PollInterrupt without the case of a ^C. *)
PollInterrupt_Ignored ==
    /\ phase = "poll"
    /\ ReadByte(FALSE)
    /\ Head(to_server) = "^C"
    /\ ReturnsOk /\ NoReply
    /\ UNCHANGED <<loops, is_running, quit, sigint>> /\ Untouched

PollInterrupt ==
    /\ phase = "poll"
    /\ ReadByte(FALSE)
    /\ Head(to_server) = "^C"
    /\ Stop("T02")
    /\ UNCHANGED <<quit, sigint>> /\ Untouched

(* 'k' or 'D' while the program runs: "OK", then the reply of the stop, and *)
(* the main loop never hears of it.                                         *)
PollKill ==
    /\ phase = "poll"
    /\ ReadByte(FALSE)
    /\ Head(to_server) = "k"
    /\ to_client' = to_client \o <<"OK", "T05">>
    /\ last_reply' = "T05" /\ told' = TRUE
    /\ loops' = Front(loops)
    /\ is_running' = FALSE
    /\ phase' = IF Len(loops) = 1 THEN "main" ELSE "polled"
    /\ UNCHANGED <<quit, sigint>> /\ Untouched

PollEnd == phase = "poll" /\ EndOfInput /\ Untouched

(* After the poll: a single step is over. *)
Polled ==
    /\ phase = "polled"
    /\ \/ Last(loops) = "s" /\ Stop("T05")
       \/ /\ Last(loops) = "c"
          /\ phase' = "run"
          /\ NoReply /\ UNCHANGED <<loops, is_running>>
    /\ UNCHANGED <<blocking, block_on, quit, sigint, to_server>> /\ Untouched

Server ==
    \/ MainParse \/ MainKill \/ MainInterrupt \/ MainEnd
    \/ RunSigint \/ RunStep \/ RunBreak
    \/ PollParse \/ PollNothing \/ PollInterrupt \/ PollKill \/ PollEnd
    \/ Polled

----------------------------------------------------------------------------
(* The debugger *)

Has(habit) == habit \in debugger.habits

Sends(m) == to_server' = Append(to_server, m)
(* MaxSent bounds what is on its way in either direction.                   *)
MaySend  == conn = "open" /\ Len(to_server) < MaxSent /\ Len(to_client) < MaxSent

ClientSend ==
    /\ MaySend
    /\ request = "none"
    /\ \E p \in debugger.packets : Sends(p) /\ request' = p
    /\ UNCHANGED <<server_vars, conn, to_client, debugger, interrupted>>

(* Bytes between the packets that mean nothing to the server. *)
ClientNoise ==
    /\ MaySend
    /\ request = "none"
    /\ Sends("noise")
    /\ UNCHANGED <<server_vars, conn, to_client, client_vars>>

ClientInterrupt ==
    /\ MaySend
    /\ request \in RunPackets
    /\ ~interrupted
    /\ Sends("^C")
    /\ interrupted' = TRUE
    /\ UNCHANGED <<server_vars, conn, to_client, debugger, request>>

(* A reply is acknowledged.  S02 answers a ^C that came after the stop.     *)
ClientReceive ==
    /\ to_client # <<>>
    /\ conn = "open"
    /\ Len(to_server) <= MaxSent
    /\ to_client' = Tail(to_client)
    /\ \/ /\ Sends("+")
          /\ request' = IF Head(to_client) = "S02" THEN request ELSE "none"
          /\ interrupted' = (interrupted /\ Head(to_client) \notin {"S02", "T02"})
          /\ UNCHANGED debugger
       \/ /\ Has("naks") /\ Len(to_server) < MaxSent
          /\ Sends("-")
          /\ UNCHANGED client_vars
    /\ UNCHANGED <<server_vars, conn>>

ClientRetry ==
    /\ Has("retries")
    /\ MaySend
    /\ request \in ToSet(to_server)
    /\ Sends(request)
    /\ UNCHANGED <<server_vars, conn, to_client, client_vars>>

ClientKill ==
    /\ Has("kills running")
    /\ MaySend
    /\ request \in RunPackets
    /\ Sends("k")
    /\ request' = "k"
    /\ UNCHANGED <<server_vars, conn, to_client, debugger, interrupted>>

ClientClose ==
    /\ Has("closes")
    /\ conn = "open"
    /\ conn' = "closed"
    /\ UNCHANGED <<server_vars, to_server, to_client, client_vars>>

Client ==
    \/ ClientSend \/ ClientNoise \/ ClientInterrupt \/ ClientReceive
    \/ ClientRetry \/ ClientKill \/ ClientClose

(* SIGINT: the handler sets a flag.  A read that is waiting fails with an   *)
(* error the server does not expect; accept fails and the server quits.     *)
BlockedInRead ==
    /\ conn = "open" /\ ~Input
    /\ \/ phase = "main" /\ ModeFor(TRUE)
       \/ phase = "poll" /\ ModeFor(FALSE)

Sigint ==
    /\ Signals
    /\ phase \notin {"quit", "exit"}
    /\ \/ sigint' = TRUE /\ UNCHANGED phase
       \/ BlockedInRead /\ sigint' = TRUE /\ phase' = "exit"
       \/ phase = "accept" /\ sigint' = FALSE /\ phase' = "quit"
    /\ UNCHANGED <<loops, is_running, blocking, block_on, quit, last_reply, told,
                   conn, to_server, to_client, client_vars>>

Finished == phase \in {"quit", "exit"} /\ UNCHANGED vars

Next ==
    \/ Accept \/ Server
    \/ phase \notin {"quit", "exit"} /\ Client
    \/ Sigint
    \/ Finished

Spec == Init /\ [][Next]_vars

(* The server's thread runs, steps of the core come back, and the debugger  *)
(* reads what it is sent.                                                   *)
FairSpec == Spec /\ WF_vars(Server) /\ WF_vars(ClientReceive)

----------------------------------------------------------------------------
(* Properties *)

TypeOK ==
    /\ debugger \in Debuggers
    /\ phase \in {"accept", "main", "run", "poll", "polled", "quit", "exit"}
    /\ loops \in Seq({"c", "s"})
    /\ Len(loops) <= 1
    /\ {is_running, blocking, block_on, quit, sigint, told, interrupted} \subseteq BOOLEAN
    /\ conn \in {"none", "open", "closed"}
    /\ to_server \in Seq(AllPackets \cup {"+", "-", "^C", "noise"})
    /\ to_client \in Seq(Replies)
    /\ last_reply \in Replies \cup {"none"}
    /\ request \in AllPackets \cup {"none"}

(* It sends each packet once, takes each reply, and stops a program before   *)
(* it kills it.                                                             *)
Orderly == debugger.habits \subseteq {"closes"}

(* An orderly debugger, which waits for the answer before it sends the next  *)
(* packet and expects S02 for a ^C the stop overtook, never takes one reply *)
(* for another: what is on its way answers the request it waits for, once,  *)
(* or the ^C.                                                               *)
RepliesMatch ==
    Orderly =>
        \A i \in DOMAIN to_client :
            IF to_client[i] = "S02" THEN interrupted
            ELSE /\ to_client[i] \in Answers[request]
                 /\ \A j \in DOMAIN to_client : to_client[j] # "S02" => j = i

(* gdbserver.c:1281 "fd is non-blocking and no data to read": a poll of the *)
(* running program never waits for the debugger, although the mode is set   *)
(* in two places and remembered in a third.                                 *)
PollsDoNotBlock == phase = "poll" => ~ModeFor(FALSE)

(* It does so with an orderly debugger, whose only message to a running     *)
(* program is a ^C.                                                         *)
OrderlyPollsDoNotBlock == Orderly => PollsDoNotBlock

(* After the debugger was told of a stop the program does not run on, also  *)
(* when packets that start it were sent again and arrive while it runs; but *)
(* for 'C01', which resets a running program and lets it go on.             *)
StopIsFinal ==
    [][phase = "run" /\ phase' = "poll" /\ (Orderly \/ "reset" \notin debugger.packets) => ~told]_vars

(* doc/simulavr.texi:363 "Hitting CTRL-c in gdb can be used to interrupt    *)
(* the simulator while it is processing instructions and return control     *)
(* back to gdb": an orderly debugger's ^C is answered.                      *)
InterruptStops == Orderly /\ interrupted ~> ~interrupted \/ phase \in {"quit", "exit"}

(* gdbserver.c:1148 "Reset the simulator since there may be another         *)
(* connection before the simulator stops running": a session that is killed *)
(* while the program stands ends (or the simulator does).                   *)
KillEndsSession == Orderly /\ request = "k" ~> phase \in {"accept", "quit", "exit"}
=============================================================================
