-------------------------- MODULE GdbServerProofs --------------------------
(***************************************************************************)
(* What the server owes any debugger, and an orderly one, whatever packets *)
(* it sends and however many messages are under way: types, replies that   *)
(* match the requests, polls that do not block, and stops that are final.  *)
(* The session is a dance of two: most of the invariant says who holds the *)
(* turn, which is in exactly one place: in a packet on its way, in the     *)
(* run, or in the reply on its way back.                                   *)
(***************************************************************************)
EXTENDS GdbServer, TLAPS

Running == phase \in {"run", "poll", "polled"}

(* A run is the one call of gdb_continue. *)
OneRun == /\ Running => is_running /\ Len(loops) = 1
          /\ ~Running /\ phase # "exit" => ~is_running /\ loops = <<>>

(* The packets on their way are among those the debugger sends.  A ^C and   *)
(* what is not a packet are no one's turn.                                  *)
SentByDebugger ==
    \A i \in DOMAIN to_server :
        to_server[i] \in AllPackets => to_server[i] \in debugger.packets \cup {"k"}

NotTold == Running /\ (Orderly \/ "reset" \notin debugger.packets) => ~told

(* The turn is in a packet ... *)
PacketTurn(i) ==
    /\ to_server[i] = request
    /\ ~Running
    /\ \A j \in DOMAIN to_server : to_server[j] \in AllPackets => j = i
    /\ \A j \in DOMAIN to_client : to_client[j] = "S02"

(* ... or in a reply. *)
ReplyTurn(i) ==
    /\ to_client[i] \in Answers[request]
    /\ ~Running
    /\ \A j \in DOMAIN to_client : to_client[j] # "S02" => j = i

(* So is that of a ^C, in the ^C or in its answer. *)
InterruptTurn(i) ==
    /\ interrupted
    /\ \A j \in DOMAIN to_server : to_server[j] = "^C" => j = i
    /\ \A j \in DOMAIN to_client : to_client[j] \notin {"S02", "T02"}

AnswerTurn(i) ==
    /\ interrupted
    /\ \A j \in DOMAIN to_client : to_client[j] \in {"S02", "T02"} => j = i

Turns ==
    /\ Running => request \in RunPackets
    /\ \A i \in DOMAIN to_server : to_server[i] # "-"
    /\ \A i \in DOMAIN to_server : to_server[i] \in AllPackets => PacketTurn(i)
    /\ \A i \in DOMAIN to_client : to_client[i] # "S02" => ReplyTurn(i)
    /\ \A i \in DOMAIN to_server : to_server[i] = "^C" => InterruptTurn(i)
    /\ \A i \in DOMAIN to_client : to_client[i] \in {"S02", "T02"} => AnswerTurn(i)

(* During a run of an orderly debugger, the mode remembered is the mode set. *)
ModeKnown == Running => (block_on \/ ~blocking)

ServerInv == TypeOK /\ OneRun /\ SentByDebugger /\ NotTold /\ (Orderly => Turns /\ ModeKnown)

----------------------------------------------------------------------------
(* Sequences *)

(* What is left when the first message was taken. *)
LEMMA TailSeq ==
    ASSUME NEW S, NEW s \in Seq(S), s # <<>>
    PROVE  /\ Tail(s) \in Seq(S)
           /\ 1 \in DOMAIN s /\ Head(s) = s[1] /\ Head(s) \in S
           /\ \A i \in DOMAIN Tail(s) : i + 1 \in DOMAIN s /\ Tail(s)[i] = s[i + 1]
  OBVIOUS

(* What is there after a message was sent. *)
LEMMA AppendSeq ==
    ASSUME NEW S, NEW s \in Seq(S), NEW e \in S
    PROVE  /\ Append(s, e) \in Seq(S)
           /\ DOMAIN Append(s, e) = DOMAIN s \cup {Len(s) + 1}
           /\ \A i \in DOMAIN s : Append(s, e)[i] = s[i]
           /\ Append(s, e)[Len(s) + 1] = e
  OBVIOUS

(* No message is a sequence of messages of any kind. *)
LEMMA EmptySeq == ASSUME NEW S PROVE <<>> \in Seq(S)
  OBVIOUS

(* The end of the only gdb_continue leaves none. *)
LEMMA FrontSeq ==
    ASSUME NEW S, NEW s \in Seq(S), Len(s) = 1
    PROVE  Front(s) = <<>>
  BY DEF Front

----------------------------------------------------------------------------
(* The types *)

ToServer == AllPackets \cup {"+", "-", "^C", "noise"}

(* What a run in progress is made of, and its end. *)
LEMMA RunShape ==
    TypeOK /\ OneRun /\ Running => Front(loops) = <<>> /\ Len(loops) = 1
  BY FrontSeq DEF TypeOK, OneRun

(* The messages and the flags, by the names used below. *)
LEMMA TypesFacts ==
    TypeOK => /\ to_server \in Seq(ToServer)
              /\ to_client \in Seq(Replies)
              /\ {blocking, block_on, told, interrupted} \subseteq BOOLEAN
  BY DEF TypeOK, ToServer

(* gdb_pre_parse_packet takes a message and sets both modes. *)
LEMMA ReadTypes ==
    ASSUME TypeOK, NEW mode \in BOOLEAN, ReadByte(mode)
    PROVE  /\ to_server' \in Seq(ToServer)
           /\ {blocking, block_on}' \subseteq BOOLEAN
           /\ Head(to_server) \in ToServer
  BY TypesFacts, TailSeq DEF ReadByte, Input, ModeFor

(* gdb_send_reply sends a reply and keeps it. *)
LEMMA SendTypes ==
    ASSUME TypeOK, NEW r \in Replies, Send(r)
    PROVE  to_client' \in Seq(Replies) /\ last_reply' \in Replies /\ told' \in BOOLEAN
  BY TypesFacts, AppendSeq DEF Send

(* The replies the handlers send. *)
LEMMA AllReplies == Stops \subseteq Replies /\ {"S05", "S02", "OK", "data", "", "garbled"} \subseteq Replies
  BY DEF Replies

(* What the reply and the run are after a packet was parsed. *)
AfterParse ==
    /\ phase' \in {"main", "polled", "run", "exit"}
    /\ loops' \in Seq({"c", "s"}) /\ Len(loops') <= 1
    /\ {is_running, quit, sigint, told}' \subseteq BOOLEAN
    /\ to_client' \in Seq(Replies)
    /\ last_reply' \in Replies \cup {"none"}
    /\ OneRun'

(* gdb_parse_packet, from the main loop and from a poll: a run never nests. *)
LEMMA ParseTypes ==
    ASSUME TypeOK, OneRun, phase \in {"main", "poll"}, Parse
    PROVE  AfterParse
  <1> USE DEF AfterParse, OneRun, Running
  <1>1. ASSUME Exit PROVE AfterParse
    BY <1>1 DEF Exit, NoReply, TypeOK
  <1>2. ASSUME ReturnsOk, UNCHANGED <<loops, is_running, quit, sigint>>,
               to_client' \in Seq(Replies), last_reply' \in Replies \cup {"none"}, told' \in BOOLEAN
        PROVE  AfterParse
    BY <1>2 DEF ReturnsOk, TypeOK
  <1>3. ASSUME NEW p \in ToServer, Continue(p) PROVE AfterParse
    <2>1. CASE is_running
      BY <1>2, <1>3, <2>1 DEF Continue, NoReply, TypeOK
    <2>2. CASE ~is_running /\ p = "c_addr"
      BY <1>1, <1>3, <2>2 DEF Continue
    <2>3. CASE ~is_running /\ p # "c_addr"
      <3> DEFINE l == IF p = "s" THEN "s" ELSE "c"
      <3>1. loops' = <<l>>
        BY <1>3, <2>3 DEF Continue
      <3>2. loops' \in Seq({"c", "s"}) /\ Len(loops') = 1
        BY <3>1
      <3>3. is_running' = TRUE /\ phase' = "run" /\ told' = FALSE
            /\ UNCHANGED <<to_client, last_reply, quit, sigint>>
        BY <1>3, <2>3 DEF Continue
      <3>4. OneRun'
        BY <3>2, <3>3
      <3>5. {is_running, quit, sigint, told}' \subseteq BOOLEAN
        BY <3>3 DEF TypeOK
      <3>6. to_client' \in Seq(Replies) /\ last_reply' \in Replies \cup {"none"}
        BY <3>3 DEF TypeOK
      <3> QED BY <3>2, <3>3, <3>4, <3>5, <3>6
    <2> QED BY <2>1, <2>2, <2>3
  <1>4. ASSUME NEW r \in Replies, Answer(r) PROVE AfterParse
    BY <1>2, <1>4, SendTypes DEF Answer
  <1>5. ASSUME Nak PROVE AfterParse
    <2>1. PICK r \in Replies : to_client' = Append(to_client, r) /\ last_reply' = r
      BY <1>5, AllReplies DEF Nak, TypeOK
    <2>2. to_client' \in Seq(Replies)
      BY <2>1, TypesFacts, AppendSeq
    <2> QED BY <1>2, <1>5, <2>1, <2>2 DEF Nak, TypeOK
  <1>6. ASSUME Ignored PROVE AfterParse
    BY <1>2, <1>6 DEF Ignored, NoReply, TypeOK
  <1>7. \A p \in RunPackets \cup {"c_addr"} : p \in ToServer
    BY DEF ToServer, AllPackets
  <1> QED BY <1>1, <1>3, <1>4, <1>5, <1>6, <1>7, AllReplies DEF Parse

(* The end of gdb_continue returns to the main loop. *)
LEMMA StopTypes ==
    ASSUME TypeOK, OneRun, Running, NEW r \in Replies, Stop(r)
    PROVE  /\ phase' = "main" /\ loops' = <<>> /\ is_running' = FALSE
           /\ loops' \in Seq({"c", "s"}) /\ Len(loops') <= 1
           /\ OneRun'
           /\ to_client' \in Seq(Replies) /\ last_reply' \in Replies /\ told' \in BOOLEAN
  <1>1. phase' = "main" /\ loops' = <<>> /\ is_running' = FALSE
    BY RunShape DEF Stop
  <1>2. loops' \in Seq({"c", "s"}) /\ Len(loops') <= 1
    BY <1>1, EmptySeq
  <1>3. to_client' \in Seq(Replies) /\ last_reply' \in Replies /\ told' \in BOOLEAN
    BY SendTypes DEF Stop
  <1> QED BY <1>1, <1>2, <1>3 DEF OneRun, Running

(* The types, and that no run is started from within a run, step by step. *)
LEMMA TypesStep ==
    TypeOK /\ OneRun /\ GdbServerAssumption /\ [Next]_vars => TypeOK' /\ OneRun'
  <1> SUFFICES ASSUME TypeOK, OneRun, GdbServerAssumption, [Next]_vars
               PROVE  TypeOK' /\ OneRun'
    OBVIOUS
  <1>a. \A m \in {"+", "-", "^C", "noise"} \cup AllPackets : m \in ToServer
    BY DEF ToServer
  <1>b. ASSUME to_server' \in Seq(ToServer) PROVE to_server' \in Seq(AllPackets \cup {"+", "-", "^C", "noise"})
    BY <1>b DEF ToServer
  <1>c. \A p \in debugger.packets : p \in AllPackets
    BY DEF TypeOK, GdbServerAssumption
  <1> USE DEF OneRun, Running
  <1>d. ASSUME UNCHANGED <<server_vars, conn, debugger>>,
               to_server' \in Seq(AllPackets \cup {"+", "-", "^C", "noise"}),
               to_client' \in Seq(Replies), request' \in AllPackets \cup {"none"},
               interrupted' \in BOOLEAN
        PROVE  TypeOK' /\ OneRun'
    BY <1>d DEF server_vars, TypeOK
  <1>1. CASE Accept
    BY <1>1 DEF Accept, client_vars, TypeOK
  <1>2. CASE MainParse \/ PollParse
    <2>1. PICK mode \in BOOLEAN : ReadByte(mode)
      BY <1>2 DEF MainParse, PollParse
    <2>2. AfterParse /\ Untouched
      BY <1>2, ParseTypes DEF MainParse, PollParse
    <2> QED BY <2>1, <2>2, <1>b, ReadTypes DEF AfterParse, Untouched, client_vars, TypeOK
  <1>3. CASE MainKill
    <2>1. /\ phase' \in {"accept", "quit"} /\ phase = "main"
          /\ to_server' = <<>> /\ to_client' = <<>>
          /\ request' = "none" /\ conn' = "none" /\ last_reply' = "OK"
          /\ sigint' = FALSE /\ interrupted' = FALSE /\ told' = FALSE
          /\ block_on' = TRUE /\ blocking' = TRUE
          /\ UNCHANGED <<debugger, loops, is_running, quit>>
      BY <1>3 DEF MainKill, EndSession
    <2>2. OneRun'
      BY <2>1
    <2>3. {is_running, blocking, block_on, quit, sigint, told, interrupted}' \subseteq BOOLEAN
      BY <2>1 DEF TypeOK
    <2>4. to_server' \in Seq(ToServer) /\ to_client' \in Seq(Replies) /\ last_reply' \in Replies
      BY <2>1, AllReplies, EmptySeq, Zenon
    <2>5. loops' \in Seq({"c", "s"}) /\ Len(loops') <= 1 /\ debugger' \in Debuggers
      BY <2>1 DEF TypeOK
    <2> QED BY <2>1, <2>2, <2>3, <2>4, <2>5, <1>b DEF TypeOK
  <1>4. CASE MainInterrupt
    <2>1. ReadByte(TRUE) /\ Send("S02") /\ "S02" \in Replies
      BY <1>4, AllReplies DEF MainInterrupt, Answer
    <2> QED BY <1>4, <2>1, <1>b, ReadTypes, SendTypes
            DEF MainInterrupt, Answer, ReturnsOk, Untouched, client_vars, TypeOK
  <1>5. CASE MainEnd \/ PollEnd
    BY <1>5 DEF MainEnd, PollEnd, EndOfInput, Exit, NoReply, Untouched, client_vars, TypeOK
  <1>6. CASE RunSigint \/ RunBreak
    BY <1>6, StopTypes, AllReplies DEF RunSigint, RunBreak, Untouched, client_vars, TypeOK, Stops
  <1>7. CASE RunStep
    BY <1>7 DEF RunStep, NoReply, Untouched, client_vars, TypeOK
  <1>8. CASE PollNothing
    BY <1>8 DEF PollNothing, NoReply, Untouched, client_vars, TypeOK
  <1>9. CASE PollInterrupt
    <2>1. ReadByte(FALSE) /\ Stop("T02") /\ "T02" \in Replies
      BY <1>9, AllReplies DEF PollInterrupt, Stops
    <2> QED BY <1>9, <2>1, <1>b, ReadTypes, StopTypes
            DEF PollInterrupt, Untouched, client_vars, TypeOK
  <1>10. CASE PollKill
    <2>1. to_client \o <<"OK", "T05">> \in Seq(Replies)
      <3>1. <<"OK", "T05">> \in Seq(Replies)
        BY DEF Replies, Stops
      <3> QED BY <3>1, TypesFacts
    <2>2. ReadByte(FALSE)
      BY <1>10 DEF PollKill
    <2>3. /\ phase' = "main" /\ loops' = <<>> /\ is_running' = FALSE
          /\ to_client' = to_client \o <<"OK", "T05">> /\ last_reply' = "T05" /\ told' = TRUE
          /\ UNCHANGED <<quit, sigint, conn, debugger, request, interrupted>>
      BY <1>10, RunShape DEF PollKill, Untouched, client_vars
    <2>4. loops' \in Seq({"c", "s"}) /\ Len(loops') <= 1
      BY <2>3, EmptySeq
    <2>5. "T05" \in Replies
      BY DEF Replies, Stops
    <2> QED BY <2>1, <2>2, <2>3, <2>4, <2>5, <1>b, ReadTypes DEF TypeOK
  <1>11. CASE Polled
    BY <1>11, StopTypes, AllReplies DEF Polled, NoReply, Untouched, client_vars, TypeOK, Stops
  <1>12. ASSUME NEW m \in ToServer, Sends(m)
         PROVE  to_server' \in Seq(AllPackets \cup {"+", "-", "^C", "noise"})
    BY <1>12, <1>b, TypesFacts, AppendSeq DEF Sends
  <1>13. CASE ClientSend \/ ClientKill
    <2>1. PICK m \in AllPackets : Sends(m) /\ request' = m
      BY <1>13, <1>c DEF ClientSend, ClientKill, AllPackets
    <2> QED BY <1>13, <2>1, <1>12, <1>a, <1>d, TypesFacts DEF ClientSend, ClientKill, TypeOK
  <1>14. CASE ClientNoise \/ ClientInterrupt \/ ClientRetry
    <2>1. PICK m \in ToServer : Sends(m)
      BY <1>14, <1>a, TypesFacts DEF ClientNoise, ClientInterrupt, ClientRetry, ToSet
    <2>2. UNCHANGED <<server_vars, conn, debugger, to_client, request>>
      BY <1>14 DEF ClientNoise, ClientInterrupt, ClientRetry, client_vars
    <2>3. interrupted' \in BOOLEAN
      BY <1>14, TypesFacts DEF ClientNoise, ClientInterrupt, ClientRetry, client_vars
    <2>4. request' \in AllPackets \cup {"none"} /\ to_client' \in Seq(Replies)
      BY <2>2 DEF TypeOK
    <2> QED BY <2>1, <2>2, <2>3, <2>4, <1>12, <1>d
  <1>15. CASE ClientReceive
    <2>1. to_client' \in Seq(Replies)
      BY <1>15, TypesFacts, TailSeq DEF ClientReceive
    <2>2. to_server' \in Seq(AllPackets \cup {"+", "-", "^C", "noise"})
      BY <1>15, <1>12, <1>a DEF ClientReceive
    <2> QED BY <1>15, <2>1, <2>2 DEF ClientReceive, server_vars, client_vars, TypeOK
  <1>16. CASE ClientClose
    BY <1>16 DEF ClientClose, server_vars, client_vars, TypeOK
  <1>17. CASE Sigint
    BY <1>17 DEF Sigint, BlockedInRead, client_vars, TypeOK
  <1>18. CASE UNCHANGED vars
    BY <1>18 DEF vars, server_vars, client_vars, TypeOK
  <1> QED
    BY <1>1, <1>2, <1>3, <1>4, <1>5, <1>6, <1>7, <1>8, <1>9, <1>10, <1>11, <1>13, <1>14,
       <1>15, <1>16, <1>17, <1>18
    DEF Next, Server, Client, Finished

----------------------------------------------------------------------------
(* The turns *)

(* The debugger of a run keeps its habits. *)
LEMMA DebuggerKept == [Next]_vars => debugger' = debugger
  BY DEF Next, Server, Client, vars, server_vars, client_vars, Accept, MainParse, MainKill,
         MainInterrupt, MainEnd, RunSigint, RunStep, RunBreak, PollParse, PollNothing,
         PollInterrupt, PollKill, PollEnd, Polled, Untouched, EndSession, ClientSend,
         ClientNoise, ClientInterrupt, ClientReceive, ClientRetry, ClientKill, ClientClose,
         Sigint, Finished

(* What a message that is read or sent does to the messages on their way.   *)
LEMMA TakenMessages ==
    ASSUME TypeOK, NEW mode \in BOOLEAN, ReadByte(mode)
    PROVE  /\ 1 \in DOMAIN to_server /\ Head(to_server) = to_server[1]
           /\ \A i \in DOMAIN to_server' : /\ i + 1 \in DOMAIN to_server
                                          /\ to_server'[i] = to_server[i + 1]
                                          /\ i \in Nat /\ i # 0
  <1>1. /\ 1 \in DOMAIN to_server /\ Head(to_server) = to_server[1]
        /\ \A i \in DOMAIN to_server' :
              i + 1 \in DOMAIN to_server /\ to_server'[i] = to_server[i + 1]
    BY TypesFacts, TailSeq DEF ReadByte, Input
  <1>2. to_server' \in Seq(ToServer)
    BY ReadTypes
  <1>3. \A i \in DOMAIN to_server' : i \in Nat /\ i # 0
    BY <1>2
  <1> QED BY <1>1, <1>3

(* A message the debugger sends comes last. *)
LEMMA SentMessages ==
    ASSUME TypeOK, NEW m \in ToServer, Sends(m)
    PROVE  /\ DOMAIN to_server' = DOMAIN to_server \cup {Len(to_server) + 1}
           /\ Len(to_server) + 1 \notin DOMAIN to_server
           /\ \A i \in DOMAIN to_server : to_server'[i] = to_server[i]
           /\ to_server'[Len(to_server) + 1] = m
  BY TypesFacts, AppendSeq DEF Sends

(* So does a reply the server sends. *)
LEMMA SentReplies ==
    ASSUME TypeOK, NEW r \in Replies, Send(r)
    PROVE  /\ DOMAIN to_client' = DOMAIN to_client \cup {Len(to_client) + 1}
           /\ Len(to_client) + 1 \notin DOMAIN to_client
           /\ \A i \in DOMAIN to_client : to_client'[i] = to_client[i]
           /\ to_client'[Len(to_client) + 1] = r
  BY TypesFacts, AppendSeq DEF Send

(* All a packet may do to an orderly debugger's turn. *)
LEMMA ParseTurns ==
    ASSUME TypeOK, OneRun, Orderly, Turns, ModeKnown, debugger' = debugger,
           MainParse \/ PollParse
    PROVE  Turns' /\ ModeKnown'
  <1> DEFINE p == Head(to_server)
  <1>1. PICK mode \in BOOLEAN : ReadByte(mode) /\ mode = (phase = "main")
    BY DEF MainParse, PollParse
  <1>2. /\ 1 \in DOMAIN to_server /\ p = to_server[1]
        /\ \A i \in DOMAIN to_server' :
              i + 1 \in DOMAIN to_server /\ to_server'[i] = to_server[i + 1] /\ i \in Nat /\ i # 0
    BY <1>1, TakenMessages
  <1>3. UNCHANGED <<request, interrupted>> /\ phase \in {"main", "poll"} /\ Parse
    BY DEF MainParse, PollParse, Untouched, client_vars
  <1>4. p \in AllPackets => /\ p = request /\ phase = "main"
                            /\ \A i \in DOMAIN to_server' : to_server'[i] \notin AllPackets
                            /\ \A i \in DOMAIN to_client : to_client[i] = "S02"
    BY <1>2, <1>3 DEF Turns, PacketTurn, Running
  <1>5. CASE p \in RunPackets \cup {"c_addr"} /\ Continue(p)
    <2>1. phase = "main" /\ p = request
      BY <1>4, <1>5 DEF AllPackets
    <2>2. UNCHANGED to_client /\ phase' \in {"run", "exit"} /\ (phase' = "run" => p \in RunPackets)
      BY <2>1, <1>5 DEF Continue, OneRun, Running, Exit, NoReply
    <2>3. block_on' = TRUE
      BY <1>1, <2>1 DEF ReadByte
    <2> QED BY <1>2, <1>3, <1>4, <1>5, <2>1, <2>2, <2>3
            DEF Turns, ModeKnown, PacketTurn, ReplyTurn, InterruptTurn, AnswerTurn, Running, AllPackets
  <1>6. ASSUME NEW r \in {"data", "S05"}, p = IF r = "data" THEN "query" ELSE "reset", Answer(r)
        PROVE  Turns' /\ ModeKnown'
    <2>1. phase = "main" /\ p = request /\ r \in Answers[request]
      BY <1>4, <1>6 DEF AllPackets, Answers, RunPackets
    <2>2. phase' = "main"
      BY <2>1, <1>6 DEF Answer, ReturnsOk
    <2>3. r \in Replies /\ Send(r)
      BY <1>6, AllReplies DEF Answer
    <2>4. p \in AllPackets
      BY <1>6 DEF AllPackets
    <2> QED BY <1>2, <1>3, <1>4, <2>1, <2>2, <2>3, <2>4, SentReplies
            DEF Turns, ModeKnown, PacketTurn, ReplyTurn, InterruptTurn, AnswerTurn, Running
  <1>7. CASE Exit
    <2>1. phase' = "exit" /\ UNCHANGED to_client
      BY <1>7 DEF Exit, NoReply
    <2> QED BY <1>2, <1>3, <2>1
            DEF Turns, ModeKnown, PacketTurn, ReplyTurn, InterruptTurn, AnswerTurn, Running
  <1>8. CASE Nak
    BY <1>2, <1>8 DEF Nak, Turns
  <1>9. CASE Ignored
    <2>1. UNCHANGED to_client /\ phase' = IF phase = "main" THEN "main" ELSE "polled"
      BY <1>9 DEF Ignored, NoReply, ReturnsOk
    <2>2. p \notin AllPackets
      BY <1>9 DEF Ignored, AllPackets, RunPackets
    <2>3. ModeKnown'
      BY <1>1, <2>1, <2>2, <1>3 DEF ModeKnown, Running, ReadByte, ModeFor
    <2> QED BY <1>2, <1>3, <2>1, <2>3
            DEF Turns, PacketTurn, ReplyTurn, InterruptTurn, AnswerTurn, Running
  <1> QED BY <1>3, <1>5, <1>6, <1>7, <1>8, <1>9 DEF Parse

(* The end of a run gives the turn to the reply. *)
LEMMA StopTurns ==
    ASSUME TypeOK, OneRun, Orderly, Turns, Running, debugger' = debugger,
           NEW r \in {"T05", "T02"}, Stop(r), UNCHANGED request,
           \/ r = "T05" /\ UNCHANGED <<to_server, interrupted>>
           \/ r = "T02" /\ ReadByte(FALSE) /\ to_server[1] = "^C" /\ UNCHANGED interrupted
    PROVE  Turns' /\ ModeKnown'
  <1>1. r \in Replies /\ Send(r) /\ phase' = "main"
    BY AllReplies, StopTypes DEF Stop, Stops
  <1>2. request \in RunPackets /\ r \in Answers[request] /\ "^C" \notin AllPackets
    BY DEF Turns, Answers, RunPackets, Stops, AllPackets
  <1>3. /\ \A i \in DOMAIN to_server : to_server[i] \notin AllPackets
        /\ \A i \in DOMAIN to_client : to_client[i] = "S02"
    BY DEF Turns, PacketTurn, ReplyTurn
  <1>4. CASE r = "T05" /\ UNCHANGED <<to_server, interrupted>>
    BY <1>1, <1>2, <1>3, <1>4, SentReplies
    DEF Turns, ModeKnown, PacketTurn, ReplyTurn, InterruptTurn, AnswerTurn, Running
  <1>5. CASE r = "T02" /\ ReadByte(FALSE) /\ to_server[1] = "^C" /\ UNCHANGED interrupted
    <2>1. /\ 1 \in DOMAIN to_server
          /\ \A i \in DOMAIN to_server' :
                i + 1 \in DOMAIN to_server /\ to_server'[i] = to_server[i + 1] /\ i \in Nat /\ i # 0
      BY <1>5, TakenMessages
    <2> QED BY <1>1, <1>2, <1>3, <1>5, <2>1, SentReplies
            DEF Turns, ModeKnown, PacketTurn, ReplyTurn, InterruptTurn, AnswerTurn, Running
  <1> QED BY <1>4, <1>5

(* The rest of the server. *)
LEMMA ServerTurns ==
    ASSUME TypeOK, OneRun, Orderly, Turns, ModeKnown, debugger' = debugger, Server
    PROVE  Turns' /\ ModeKnown'
  <1> USE DEF Running
  <1>1. CASE MainParse \/ PollParse
    BY <1>1, ParseTurns
  <1>2. CASE MainKill
    <2>1. to_server' = <<>> /\ to_client' = <<>> /\ phase' \in {"accept", "quit"}
      BY <1>2 DEF MainKill, EndSession
    <2> QED BY <2>1 DEF Turns, ModeKnown
  <1>3. CASE MainInterrupt
    <2>1. /\ 1 \in DOMAIN to_server /\ to_server[1] = "^C"
          /\ \A i \in DOMAIN to_server' :
                i + 1 \in DOMAIN to_server /\ to_server'[i] = to_server[i + 1] /\ i \in Nat /\ i # 0
      BY <1>3, TakenMessages DEF MainInterrupt
    <2>2. /\ "S02" \in Replies /\ Send("S02") /\ phase' = "main" /\ phase = "main"
          /\ UNCHANGED <<request, interrupted>>
      BY <1>3, AllReplies DEF MainInterrupt, Answer, ReturnsOk, Untouched, client_vars
    <2> QED BY <2>1, <2>2, SentReplies
            DEF Turns, ModeKnown, PacketTurn, ReplyTurn, InterruptTurn, AnswerTurn
  <1>4. CASE MainEnd \/ PollEnd
    <2>1. phase' = "exit" /\ UNCHANGED <<to_server, to_client, request, interrupted>>
      BY <1>4 DEF MainEnd, PollEnd, EndOfInput, Exit, NoReply, Untouched, client_vars
    <2> QED BY <2>1 DEF Turns, ModeKnown, PacketTurn, ReplyTurn, InterruptTurn, AnswerTurn
  <1>5. CASE RunSigint \/ RunBreak
    BY <1>5, StopTurns DEF RunSigint, RunBreak, Untouched, client_vars
  <1>6. CASE RunStep \/ PollNothing
    <2>1. /\ phase \in {"run", "poll"} /\ phase' \in {"poll", "polled"}
          /\ UNCHANGED <<to_server, to_client, request, interrupted>>
      BY <1>6 DEF RunStep, PollNothing, NoReply, Untouched, client_vars
    <2>2. ModeKnown'
      BY <1>6, <2>1 DEF ModeKnown, RunStep, PollNothing
    <2> QED BY <2>1, <2>2 DEF Turns, PacketTurn, ReplyTurn, InterruptTurn, AnswerTurn
  <1>7. CASE PollInterrupt
    <2>1. to_server[1] = "^C"
      BY <1>7, TakenMessages DEF PollInterrupt
    <2> QED BY <1>7, <2>1, StopTurns DEF PollInterrupt, Untouched, client_vars
  <1>8. CASE PollKill
    <2>1. 1 \in DOMAIN to_server /\ to_server[1] = "k" /\ phase = "poll"
      BY <1>8, TakenMessages DEF PollKill
    <2> QED BY <2>1 DEF Turns, PacketTurn, AllPackets
  <1>9. CASE Polled
    <2>1. CASE Stop("T05")
      BY <1>9, <2>1, StopTurns DEF Polled, Untouched, client_vars
    <2>2. CASE phase' = "run" /\ NoReply
      <3>1. UNCHANGED <<to_server, to_client, request, interrupted, blocking, block_on>> /\ phase = "polled"
        BY <1>9, <2>2 DEF Polled, NoReply, Untouched, client_vars
      <3> QED BY <2>2, <3>1
              DEF Turns, ModeKnown, PacketTurn, ReplyTurn, InterruptTurn, AnswerTurn
    <2> QED BY <1>9, <2>1, <2>2 DEF Polled
  <1> QED BY <1>1, <1>2, <1>3, <1>4, <1>5, <1>6, <1>7, <1>8, <1>9 DEF Server

(* An orderly debugger sends a packet when the turn is its own. *)
LEMMA ClientTurns ==
    ASSUME TypeOK, GdbServerAssumption, Orderly, Turns, ModeKnown, Client
    PROVE  Turns' /\ ModeKnown'
  <1>1. /\ ModeKnown' /\ UNCHANGED phase
    <2>1. UNCHANGED server_vars
      BY Zenon DEF Client, ClientSend, ClientNoise, ClientInterrupt, ClientReceive,
                   ClientRetry, ClientKill, ClientClose
    <2> QED BY <2>1 DEF server_vars, ModeKnown, Running
  <1>2. ~ClientRetry /\ ~ClientKill /\ ~Has("naks")
    BY DEF ClientRetry, ClientKill, Has, Orderly
  <1>3. \A p \in debugger.packets : p \in AllPackets
    BY DEF TypeOK, GdbServerAssumption
  <1>4. "none" \notin AllPackets /\ "^C" \notin AllPackets /\ "+" \notin AllPackets
        /\ "noise" \notin AllPackets /\ "-" \notin AllPackets
    BY DEF AllPackets, RunPackets
  <1>5. {"noise", "^C", "+"} \cup AllPackets \subseteq ToServer
    BY DEF ToServer
  <1> USE DEF Running
  <1>6. CASE ClientSend
    <2>1. PICK p \in AllPackets : Sends(p) /\ request' = p
      BY <1>3, <1>6 DEF ClientSend
    <2>2. request = "none" /\ UNCHANGED <<to_client, interrupted>>
      BY <1>6 DEF ClientSend
    <2>3. request \notin RunPackets /\ Answers[request] = {}
      BY <2>2 DEF RunPackets, Answers
    <2>4. \A i \in DOMAIN to_server : to_server[i] \notin AllPackets
      BY <1>4, <2>2 DEF Turns, PacketTurn
    <2>5. \A i \in DOMAIN to_client : to_client[i] = "S02"
      BY <2>3 DEF Turns, ReplyTurn
    <2> QED BY <1>1, <1>4, <1>5, <2>1, <2>2, <2>3, <2>4, <2>5, SentMessages
            DEF Turns, PacketTurn, ReplyTurn, InterruptTurn, AnswerTurn
  <1>7. CASE ClientNoise
    <2>1. Sends("noise") /\ UNCHANGED <<to_client, request, interrupted>>
      BY <1>7 DEF ClientNoise, client_vars
    <2> QED BY <1>1, <1>4, <1>5, <2>1, SentMessages
            DEF Turns, PacketTurn, ReplyTurn, InterruptTurn, AnswerTurn
  <1>8. CASE ClientInterrupt
    <2>1. Sends("^C") /\ ~interrupted /\ interrupted' = TRUE /\ UNCHANGED <<to_client, request>>
      BY <1>8 DEF ClientInterrupt
    <2>2. /\ \A i \in DOMAIN to_server : to_server[i] # "^C"
          /\ \A i \in DOMAIN to_client : to_client[i] \notin {"S02", "T02"}
      BY <2>1 DEF Turns, InterruptTurn, AnswerTurn
    <2> QED BY <1>1, <1>4, <1>5, <2>1, <2>2, SentMessages
            DEF Turns, PacketTurn, ReplyTurn, InterruptTurn, AnswerTurn
  <1>9. CASE ClientReceive
    <2> DEFINE r == to_client[1]
    <2>1. /\ Sends("+")
          /\ request' = IF r = "S02" THEN request ELSE "none"
          /\ interrupted' = (interrupted /\ r \notin {"S02", "T02"})
          /\ to_client' = Tail(to_client) /\ to_client # <<>>
      BY <1>2, <1>9, TypesFacts, TailSeq DEF ClientReceive
    <2>2. /\ 1 \in DOMAIN to_client
          /\ \A i \in DOMAIN to_client' : i + 1 \in DOMAIN to_client /\ to_client'[i] = to_client[i + 1]
      BY <2>1, TypesFacts, TailSeq
    <2>3. to_client' \in Seq(Replies)
      BY <2>1, TypesFacts, TailSeq
    <2>4. \A i \in DOMAIN to_client' : i \in Nat /\ i # 0
      BY <2>3
    <2>5. r # "S02" => /\ ~Running
                       /\ \A i \in DOMAIN to_server : to_server[i] \notin AllPackets
                       /\ \A i \in DOMAIN to_client' : to_client'[i] = "S02"
      BY <2>2, <2>4 DEF Turns, ReplyTurn, PacketTurn
    <2>6. r \in {"S02", "T02"} =>
             /\ \A i \in DOMAIN to_server : to_server[i] # "^C"
             /\ \A i \in DOMAIN to_client' : to_client'[i] \notin {"S02", "T02"}
      BY <2>2, <2>4 DEF Turns, AnswerTurn, InterruptTurn
    <2>7. /\ DOMAIN to_server' = DOMAIN to_server \cup {Len(to_server) + 1}
          /\ \A i \in DOMAIN to_server : to_server'[i] = to_server[i]
          /\ to_server'[Len(to_server) + 1] = "+"
      BY <1>5, <2>1, SentMessages
    <2>8. (Running => request \in RunPackets)' /\ \A i \in DOMAIN to_server' : to_server'[i] # "-"
      BY <1>1, <2>1, <2>5, <2>7 DEF Turns
    <2>9. \A i \in DOMAIN to_server' : to_server'[i] \in AllPackets => PacketTurn(i)'
      BY <1>1, <1>4, <2>1, <2>2, <2>5, <2>7 DEF Turns, PacketTurn
    <2>10. \A i \in DOMAIN to_client' : to_client'[i] # "S02" => ReplyTurn(i)'
      BY <1>1, <2>1, <2>2, <2>4, <2>5 DEF Turns, ReplyTurn
    <2>11. \A i \in DOMAIN to_server' : to_server'[i] = "^C" => InterruptTurn(i)'
      BY <2>1, <2>2, <2>6, <2>7 DEF Turns, InterruptTurn
    <2>12. \A i \in DOMAIN to_client' : to_client'[i] \in {"S02", "T02"} => AnswerTurn(i)'
      <3> SUFFICES ASSUME NEW i \in DOMAIN to_client', to_client'[i] \in {"S02", "T02"}
                   PROVE  /\ interrupted'
                          /\ \A j \in DOMAIN to_client' :
                                to_client'[j] \in {"S02", "T02"} => j = i
        BY DEF AnswerTurn
      <3>1. AnswerTurn(i + 1)
        BY <2>2 DEF Turns
      <3>2. r \notin {"S02", "T02"}
        BY <2>6
      <3>3. interrupted'
        BY <2>1, <3>1, <3>2, Zenon DEF AnswerTurn
      <3>4. \A j \in DOMAIN to_client' : to_client'[j] \in {"S02", "T02"} => j = i
        BY <2>2, <2>4, <3>1 DEF AnswerTurn
      <3> QED BY <3>3, <3>4
    <2> QED BY <1>1, <2>8, <2>9, <2>10, <2>11, <2>12 DEF Turns
  <1>10. CASE ClientClose
    BY <1>1, <1>10 DEF ClientClose, client_vars, Turns, PacketTurn, ReplyTurn, InterruptTurn, AnswerTurn
  <1> QED BY <1>2, <1>6, <1>7, <1>8, <1>9, <1>10 DEF Client

(* The turns of every step. *)
LEMMA TurnsStep ==
    ASSUME TypeOK, OneRun, GdbServerAssumption, Orderly, Turns, ModeKnown, [Next]_vars
    PROVE  Turns' /\ ModeKnown'
  <1>1. CASE Server
    BY <1>1, ServerTurns, DebuggerKept
  <1>2. CASE Client
    BY <1>2, ClientTurns
  <1>3. CASE Accept
    <2>1. phase' = "main" /\ UNCHANGED <<to_server, to_client, request, interrupted>>
      BY <1>3 DEF Accept, client_vars
    <2> QED BY <2>1 DEF Turns, ModeKnown, PacketTurn, ReplyTurn, InterruptTurn, AnswerTurn, Running
  <1>4. CASE Sigint
    <2>1. /\ phase' \in {phase, "exit", "quit"}
          /\ UNCHANGED <<to_server, to_client, request, interrupted, blocking, block_on>>
      BY <1>4 DEF Sigint, client_vars
    <2> QED BY <2>1 DEF Turns, ModeKnown, PacketTurn, ReplyTurn, InterruptTurn, AnswerTurn, Running
  <1>5. CASE UNCHANGED vars
    BY <1>5 DEF vars, server_vars, client_vars, Turns, ModeKnown, PacketTurn, ReplyTurn,
                InterruptTurn, AnswerTurn, Running
  <1> QED BY <1>1, <1>2, <1>3, <1>4, <1>5 DEF Next, Finished

----------------------------------------------------------------------------
(* The other two parts *)

(* What is on its way to the server is what the debugger may send. *)
LEMMA SentStep ==
    ASSUME TypeOK, GdbServerAssumption, SentByDebugger, [Next]_vars
    PROVE  SentByDebugger'
  <1>1. debugger' = debugger
    BY DebuggerKept
  <1>2. ASSUME UNCHANGED to_server PROVE SentByDebugger'
    BY <1>1, <1>2 DEF SentByDebugger
  <1>3. ASSUME NEW mode \in BOOLEAN, ReadByte(mode) PROVE SentByDebugger'
    BY <1>1, <1>3, TakenMessages DEF SentByDebugger
  <1>4. ASSUME to_server' = <<>> PROVE SentByDebugger'
    BY <1>4 DEF SentByDebugger
  <1>5. ASSUME NEW m \in ToServer, Sends(m),
               m \in AllPackets => m \in debugger.packets \cup {"k"}
        PROVE  SentByDebugger'
    BY <1>1, <1>5, SentMessages DEF SentByDebugger
  <1>6. /\ AllPackets \subseteq ToServer /\ {"+", "-", "^C", "noise"} \subseteq ToServer
        /\ AllPackets \cap {"+", "-", "^C", "noise"} = {}
    BY DEF ToServer, AllPackets, RunPackets
  <1>7. CASE Server
    <2>1. CASE MainParse \/ PollParse \/ MainInterrupt \/ PollInterrupt \/ PollKill
      BY <2>1, <1>3 DEF MainParse, PollParse, MainInterrupt, PollInterrupt, PollKill
    <2>2. CASE MainKill
      BY <2>2, <1>4 DEF MainKill, EndSession
    <2>3. CASE MainEnd \/ PollEnd \/ RunSigint \/ RunStep \/ RunBreak \/ PollNothing \/ Polled
      BY <2>3, <1>2 DEF MainEnd, PollEnd, EndOfInput, RunSigint, RunStep, RunBreak,
                        PollNothing, Polled
    <2> QED BY <1>7, <2>1, <2>2, <2>3 DEF Server
  <1>8. CASE Client
    <2>1. CASE ClientSend
      <3>1. PICK p \in debugger.packets : Sends(p)
        BY <2>1 DEF ClientSend
      <3>2. p \in AllPackets
        BY DEF TypeOK, GdbServerAssumption
      <3> QED BY <1>5, <1>6, <3>1, <3>2
    <2>2. CASE ClientRetry
      <3>1. /\ Sends(request) /\ request \in ToServer
            /\ \E i \in DOMAIN to_server : request = to_server[i]
        BY <2>2, TypesFacts DEF ClientRetry, ToSet
      <3> QED BY <1>5, <3>1 DEF SentByDebugger
    <2>3. CASE ClientNoise \/ ClientInterrupt \/ ClientReceive \/ ClientKill
      <3>1. PICK m \in {"noise", "^C", "+", "-", "k"} : Sends(m)
        BY <2>3 DEF ClientNoise, ClientInterrupt, ClientReceive, ClientKill
      <3>2. "k" \in AllPackets
        BY DEF AllPackets
      <3> QED BY <1>5, <1>6, <3>1, <3>2
    <2>4. CASE ClientClose
      BY <2>4, <1>2 DEF ClientClose
    <2> QED BY <1>8, <2>1, <2>2, <2>3, <2>4 DEF Client
  <1>9. CASE Accept \/ Sigint \/ UNCHANGED vars
    BY <1>9, <1>2 DEF Accept, Sigint, vars
  <1> QED BY <1>7, <1>8, <1>9 DEF Next, Finished

(* Only 'C01' answers with a stop a program that goes on, and no orderly    *)
(* debugger has it on its way while the program runs.                       *)
LEMMA NotToldStep ==
    ASSUME TypeOK, OneRun, SentByDebugger, NotTold, Orderly => Turns, [Next]_vars
    PROVE  NotTold'
  <1> SUFFICES ASSUME Running', Orderly \/ "reset" \notin debugger.packets
               PROVE  ~told'
    BY DebuggerKept DEF NotTold, Orderly
  <1> USE DEF Running
  <1>1. ASSUME Running, told' = told PROVE ~told'
    BY <1>1 DEF NotTold
  <1>2. CASE MainParse \/ PollParse
    <2>1. PICK mode \in BOOLEAN : ReadByte(mode)
      BY <1>2 DEF MainParse, PollParse
    <2>2. Parse /\ phase \in {"main", "poll"}
      BY <1>2 DEF MainParse, PollParse
    <2>3. 1 \in DOMAIN to_server /\ Head(to_server) = to_server[1]
      BY <2>1, TakenMessages
    <2>4. ASSUME ReturnsOk PROVE phase = "poll"
      BY <2>2, <2>4 DEF ReturnsOk
    <2>5. ASSUME NEW p \in ToServer, Continue(p) PROVE ~told'
      BY <2>2, <2>4, <2>5, <1>1 DEF Continue, NoReply, Exit
    <2>6. ASSUME Answer("data") PROVE ~told'
      <3>1. told' = told
        BY <2>6, TypesFacts DEF Answer, Send, Stops
      <3> QED BY <2>4, <2>6, <3>1, <1>1 DEF Answer
    <2>7. ASSUME Head(to_server) = "reset", Answer("S05") PROVE FALSE
      <3>1. phase = "poll" /\ to_server[1] = "reset" /\ "reset" \in AllPackets
        BY <2>3, <2>4, <2>7 DEF Answer, AllPackets
      <3>2. CASE Orderly
        BY <2>3, <3>1, <3>2 DEF Turns, PacketTurn
      <3>3. CASE "reset" \notin debugger.packets
        BY <2>3, <3>1, <3>3 DEF SentByDebugger
      <3> QED BY <3>2, <3>3
    <2>8. ASSUME Exit PROVE FALSE
      BY <2>8 DEF Exit
    <2>9. CASE Nak \/ Ignored
      BY <2>4, <2>9, <1>1 DEF Nak, Ignored, NoReply
    <2>10. \A p \in RunPackets \cup {"c_addr"} : p \in ToServer
      BY DEF ToServer, AllPackets
    <2> QED BY <2>2, <2>5, <2>6, <2>7, <2>8, <2>9, <2>10 DEF Parse
  <1>3. CASE RunSigint \/ RunBreak \/ PollInterrupt
    BY <1>3, StopTypes, AllReplies DEF RunSigint, RunBreak, PollInterrupt, Stops
  <1>4. CASE Polled
    <2>1. phase = "polled" /\ (Stop("T05") \/ NoReply)
      BY <1>4 DEF Polled
    <2> QED BY <2>1, <1>1, StopTypes, AllReplies DEF NoReply, Stops
  <1>5. CASE RunStep \/ PollNothing
    BY <1>5, <1>1 DEF RunStep, PollNothing, NoReply
  <1>6. CASE PollKill
    BY <1>6, RunShape DEF PollKill
  <1>7. CASE MainKill \/ MainInterrupt \/ MainEnd \/ PollEnd \/ Accept
    BY <1>7 DEF MainKill, EndSession, MainInterrupt, Answer, ReturnsOk, MainEnd, PollEnd,
                EndOfInput, Exit, Accept
  <1>8. CASE Client
    <2>1. UNCHANGED server_vars
      BY <1>8, Zenon DEF Client, ClientSend, ClientNoise, ClientInterrupt, ClientReceive,
                         ClientRetry, ClientKill, ClientClose
    <2> QED BY <2>1, <1>1 DEF server_vars
  <1>9. CASE Sigint \/ UNCHANGED vars
    BY <1>9, <1>1 DEF Sigint, vars, server_vars
  <1> QED BY <1>2, <1>3, <1>4, <1>5, <1>6, <1>7, <1>8, <1>9 DEF Next, Server, Finished

(* The server waits for a connection, and nothing is on its way. *)
LEMMA ServerInvInit == GdbServerAssumption /\ Init => ServerInv
  <1> SUFFICES ASSUME GdbServerAssumption, Init PROVE ServerInv
    OBVIOUS
  <1>1. TypeOK
    <2>1. /\ loops \in Seq({"c", "s"}) /\ Len(loops) <= 1
          /\ to_server \in Seq(AllPackets \cup {"+", "-", "^C", "noise"})
          /\ to_client \in Seq(Replies)
      BY EmptySeq DEF Init
    <2>2. {is_running, blocking, block_on, quit, sigint, told, interrupted} \subseteq BOOLEAN
      BY DEF Init
    <2> QED BY <2>1, <2>2 DEF Init, TypeOK
  <1>2. OneRun /\ SentByDebugger /\ NotTold /\ Turns /\ ModeKnown
    BY DEF Init, OneRun, Running, SentByDebugger, NotTold, Turns, ModeKnown
  <1> QED BY <1>1, <1>2 DEF ServerInv

(* Every step of the server, the debugger and the user keeps the invariant. *)
LEMMA ServerInvStep == GdbServerAssumption /\ ServerInv /\ [Next]_vars => ServerInv'
  <1> SUFFICES ASSUME GdbServerAssumption, ServerInv, [Next]_vars PROVE ServerInv'
    OBVIOUS
  <1>1. TypeOK' /\ OneRun'
    BY TypesStep DEF ServerInv
  <1>2. SentByDebugger' /\ NotTold'
    BY SentStep, NotToldStep DEF ServerInv
  <1>3. Orderly' = Orderly
    BY DebuggerKept DEF Orderly
  <1>4. Orderly => Turns' /\ ModeKnown'
    BY TurnsStep DEF ServerInv
  <1> QED BY <1>1, <1>2, <1>3, <1>4 DEF ServerInv

----------------------------------------------------------------------------
(* The theorems *)

(* The invariant of a session: the turn is in one place. *)
THEOREM ServerInvariant == Spec => []ServerInv
  <1>1. GdbServerAssumption
    BY GdbServerAssumed
  <1> QED BY <1>1, ServerInvInit, ServerInvStep, PTL DEF Spec

(* The parser is never entered again from a run it started: at most one     *)
(* gdb_continue is in progress, with any debugger.                          *)
THEOREM ServerTypes == Spec => []TypeOK
  <1>1. ServerInv => TypeOK
    BY DEF ServerInv
  <1> QED BY <1>1, ServerInvariant, PTL

(* The server never sends an orderly debugger a reply it can take for       *)
(* another: the answer to another packet, a second one, or an S02 without a *)
(* ^C.                                                                      *)
THEOREM ServerReplies == Spec => []RepliesMatch
  <1>1. ServerInv => RepliesMatch
    BY DEF ServerInv, Turns, ReplyTurn, AnswerTurn, RepliesMatch
  <1> QED BY <1>1, ServerInvariant, PTL

(* The polls of a run gdb_continue makes do not wait for an orderly         *)
(* debugger, wherever the mode of the connection was set last.              *)
THEOREM ServerPolls == Spec => []OrderlyPollsDoNotBlock
  <1>1. ServerInv => OrderlyPollsDoNotBlock
    BY DEF ServerInv, ModeKnown, Running, OrderlyPollsDoNotBlock, PollsDoNotBlock, ModeFor, TypeOK
  <1> QED BY <1>1, ServerInvariant, PTL

(* A program the debugger was told of does not run on: with a debugger      *)
(* without 'C01' whatever it sends again, and with an orderly one.          *)
THEOREM ServerStops == Spec => StopIsFinal
  <1>1. ServerInv /\ [Next]_vars =>
           [phase = "run" /\ phase' = "poll" /\ (Orderly \/ "reset" \notin debugger.packets) => ~told]_vars
    BY DEF ServerInv, NotTold, Running
  <1> QED BY <1>1, ServerInvariant, PTL DEF Spec, StopIsFinal
=============================================================================
