------------------------------ MODULE Devices ------------------------------
(***************************************************************************)
(* The device tables of defn/, the vector tables of intvects.c and the     *)
(* loop of devsupp.c that builds a core from them: one register after      *)
(* another is attached to a new device or to the device of an earlier one. *)
(*                                                                         *)
(* A register's name is its stem and its number: FCAR2 is <<"FCAR", 2>>.   *)
(* The letter of a port and rows that only name an address are left out,   *)
(* and so are the masks, which hide no bit the models of the devices use.  *)
(***************************************************************************)
EXTENDS Naturals, Sequences, SequencesExt, FiniteSets, Functions, TLC

None == 0

----------------------------------------------------------------------------
(* Rows of struct io_reg_defn: one that creates a device, and one for each *)
(* further register of the device at address ref.                          *)

NumberedRow(create, name, n, addr, related) ==
    << [create |-> create, name |-> name, n |-> n, addr |-> addr,
        ref |-> None, related |-> related] >>

New(create, name, addr, related) == NumberedRow(create, name, 0, addr, related)

RefRow(ref, name, n, addr) ==
    << [create |-> "none", name |-> name, n |-> n, addr |-> addr,
        ref |-> ref, related |-> None] >>

Refs(ref, first, names) ==
    [i \in DOMAIN names |->
        [create |-> "none", name |-> names[i], n |-> 0, addr |-> first + i - 1,
         ref |-> ref, related |-> None]]

(* PINx, DDRx and PORTx. *)
Port(pin) == New("port", "PIN", pin, None) \o Refs(pin, pin + 1, <<"DDR", "PORT">>)
PortF     == New("port", "PIN", \h20, None)
PortFHigh == Refs(\h20, \h61, <<"DDR", "PORT">>)

RampzRow   == New("rampz", "RAMPZ", \h5b, None)
SregRow    == New("sreg", "SREG", \h5f, None)
StackRows  == New("sp", "SPL", \h5d, None) \o Refs(\h5d, \h5e, <<"SPH">>)
Timer0Rows ==
    New("timer0", "TCNT", \h52, \h58) \o Refs(\h52, \h53, <<"TCCR">>)
      \o New("timer_int", "TIFR", \h58, None) \o Refs(\h58, \h59, <<"TIMSK">>)
Timer1Rows ==
    New("ocreg16", "OCRBL", \h48, \h4c) \o Refs(\h48, \h49, <<"OCRBH">>)
      \o New("ocreg16", "OCRAL", \h4a, \h4c) \o Refs(\h4a, \h4b, <<"OCRAH">>)
      \o New("timer16", "TCNTL", \h4c, \h58)
      \o Refs(\h4c, \h4d, <<"TCNTH", "TCCRB", "TCCRA">>)
SpiRows ==
    New("spii", "SPCR", \h2d, None) \o Refs(\h2d, \h2e, <<"SPSR">>)
      \o New("spi", "SPDR", \h2f, \h2d)
AdcRows(related) ==
    New("adc", "ADCL", \h22, related) \o Refs(\h22, \h23, <<"ADCH">>)
AdcIntRows ==
    New("adc_int", "ADCSR", \h27, \h22) \o Refs(\h27, \h28, <<"ADMUX">>)
UartRows ==
    New("uart_int", "UBRR", \h29, None) \o Refs(\h29, \h2a, <<"UCR", "USR">>)
      \o New("uart", "UDR", \h2c, \h29)

(* The registers of the endpoints 0..e, of which FCARe creates the device; *)
(* those of the hub's ports and endpoint; and of the USB interrupts.        *)
UsbRef(e, name, n, addr) == RefRow(\h1fa5 - e, name, n, addr)
UsbRefs(e, name, n, from, to) ==      \* register n at n + from .. to
    FlattenSeq([i \in 1..(to + 1 - n) |-> UsbRef(e, name, n + i - 1, from + n + i - 1)])
EndpointRows(e, name, n, last) ==     \* endpoints 0..n at last, last - 1, ...
    FlattenSeq([i \in 1..(n + 1) |-> UsbRef(e, name, i - 1, last + 1 - i)])
UsbRows(e) ==
    NumberedRow("usb", "FCAR", e, \h1fa5 - e, None)
      \o EndpointRows(e, "FCAR", e - 1, \h1fa5) \o EndpointRows(e, "FBYTE_CNT", e, \h1fcd)
      \o EndpointRows(e, "FDR", e, \h1fd5) \o EndpointRows(e, "FCSR", e, \h1fdd)
      \o EndpointRows(e, "FENDP_CNTR", e, \h1fe5) \o UsbRef(e, "FADDR", 0, \h1fee)
HubRows(e, port, ports) ==
    UsbRef(e, "HCAR", 0, \h1fa7) \o UsbRefs(e, "PSTATE", port, \h1fa7, ports)
      \o UsbRefs(e, "HPSCR", 1, \h1faf, 3) \o UsbRefs(e, "HPSTAT", 1, \h1fb7, ports)
      \o UsbRef(e, "HPCON", 0, \h1fc5) \o UsbRef(e, "HSTR", 0, \h1fc7)
      \o UsbRef(e, "HBYTE_CNT", 0, \h1fcf) \o UsbRef(e, "HDR", 0, \h1fd7)
      \o UsbRef(e, "HCSR", 0, \h1fdf) \o UsbRef(e, "HENDP_CNTR", 0, \h1fe7)
      \o UsbRef(e, "HADDR", 0, \h1fef) \o UsbRef(e, "UOVCER", 0, \h1ff2)
UsbIntRows ==
    New("usbi", "UIER", \h1ff3, None)
      \o Refs(\h1ff3, \h1ff5, <<"UIAR", "UIMSK", "UISR", "SPRSMSK", "SPRSIE",
                                "SPRSR", "GLB_STATE", "FRM_NUM_L", "FRM_NUM_H">>)

----------------------------------------------------------------------------
(* The tables *)

at90s1200 == Port(\h30) \o Port(\h36) \o SregRow
at90s2313 == Port(\h30) \o Port(\h36) \o New("sp", "SPL", \h5d, None) \o SregRow
at90s4414 == Port(\h30) \o Port(\h33) \o Port(\h36) \o Port(\h39) \o StackRows
               \o SregRow
at90s8515 == at90s4414
atmega8   == Port(\h30) \o Port(\h33) \o Port(\h36) \o StackRows \o SregRow
atmega16  == Port(\h30) \o Port(\h33) \o Port(\h36) \o Port(\h39) \o StackRows
               \o SregRow
atmega103 == PortF \o Port(\h21) \o Port(\h30) \o Port(\h33) \o Port(\h36)
               \o Port(\h39) \o RampzRow \o StackRows \o SregRow
atmega128 == atmega103 \o PortFHigh \o Port(\h63)
OsEID128  == PortF \o Port(\h21) \o Port(\h30) \o Port(\h33) \o Port(\h36)
               \o Port(\h39)
               \o New("ee", "EECR", \h3c, None)
               \o Refs(\h3c, \h3d, <<"EEDR", "EEARL", "EEARH">>)
               \o RampzRow \o StackRows \o SregRow \o PortFHigh \o Port(\h63)
               \o New("spm", "SPMCSR", \h68, None)
               \o New("oseid", "FIFO", \hfe, None) \o Refs(\hfe, \hff, <<"FIFOCTRL">>)

at43usb351_io == AdcRows(None) \o AdcIntRows \o SpiRows
                   \o Port(\h30) \o Port(\h36) \o Port(\h39)
                   \o Timer1Rows \o Timer0Rows \o StackRows \o SregRow
at43usb353_io == AdcRows(None) \o AdcIntRows \o Port(\h30) \o Port(\h39)
                   \o Timer1Rows \o Timer0Rows \o StackRows \o SregRow
at43usb355_io == AdcRows(\h27) \o Port(\h24) \o AdcIntRows \o SpiRows
                   \o Port(\h30) \o Port(\h36) \o Port(\h39)
                   \o Timer1Rows \o Timer0Rows \o StackRows \o SregRow
at43usb320_io == UartRows \o SpiRows
                   \o Port(\h30) \o Port(\h33) \o Port(\h36) \o Port(\h39)
                   \o Timer1Rows \o Timer0Rows \o StackRows \o SregRow
at43usb325_io == Port(\h21) \o Port(\h24)
                   \o Port(\h30) \o Port(\h33) \o Port(\h36) \o Port(\h39)
                   \o Timer1Rows \o Timer0Rows \o StackRows \o SregRow
at43usb326_io == Port(\h21) \o Port(\h30) \o Port(\h33) \o Port(\h36) \o Port(\h39)
                   \o Timer0Rows \o StackRows \o SregRow

at43usb351_usb == UsbRows(3) \o UsbIntRows
at43usb353_usb == UsbRows(3) \o HubRows(3, 2, 3) \o UsbRef(3, "HENDP_CNTR", 1, \h1fe6)
                    \o UsbIntRows
at43usb355_usb == at43usb353_usb
at43usb320_usb == UsbRows(2) \o HubRows(2, 1, 5) \o UsbRef(2, "HPSCR", 4, \h1fb2)
                    \o RefRow(\h1fa4, "HPSCR", 5, \h1fb2) \o UsbIntRows
at43usb325_usb == UsbRows(3) \o HubRows(3, 2, 5) \o RefRow(\h1fa3, "HPSCR", 4, \h1fb2)
                    \o RefRow(\h1fa4, "HPSCR", 5, \h1fb2)
                    \o UsbRef(3, "ISCR", 0, \h1ff1) \o UsbIntRows
at43usb326_usb == UsbRows(2) \o HubRows(2, 2, 3) \o UsbIntRows

----------------------------------------------------------------------------
(* intvects.c: the interrupts a vector table names, RESET at 0 and the      *)
(* others at multiples of step, in this order.  "-" is a gap.  The          *)
(* definition _AsOf355 is a mistaken copy of a table.                       *)

Vtab(step, names) ==
    [q \in ToSet(names) \ {"-"} |->
        step * ((CHOOSE i \in DOMAIN names : names[i] = q) - 1)]

vtab_at90s1200 == Vtab(1, <<"RESET", "INT0", "TIMER0_OVF", "ANA_COMP">>)
vtab_at90s2313 ==
    Vtab(1, <<"RESET", "INT0", "INT1", "TIMER1_CAPT", "TIMER1_COMPA", "TIMER1_OVF",
              "TIMER0_OVF", "UART_RX", "UART_UDRE", "UART_TX", "ANA_COMP">>)
vtab_at90s4414 ==
    Vtab(1, <<"RESET", "INT0", "INT1", "TIMER1_CAPT", "TIMER1_COMPA", "TIMER1_COMPB",
              "TIMER1_OVF", "TIMER0_OVF", "SPI_STC", "UART_RX", "UART_UDRE",
              "UART_TX", "ANA_COMP">>)

Atmega8Vectors ==
    <<"RESET", "INT0", "INT1", "TIMER2_COMP", "TIMER2_OVF", "TIMER1_CAPT",
      "TIMER1_COMPA", "TIMER1_COMPB", "TIMER1_OVF", "TIMER0_OVF", "SPI_STC",
      "UART_RX", "UART_UDRE", "UART_TX", "ADC", "EE_READY", "ANA_COMP", "TWI">>
vtab_atmega8  == Vtab(1, Atmega8Vectors \o <<"SPM_READY">>)
vtab_atmega16 == Vtab(2, Atmega8Vectors \o <<"INT2", "TIMER0_COMP", "SPM_READY">>)

(* The megas 103 and 128 differ in the names of their UARTs. *)
Atmega103Vectors(rx, udre, tx) ==
    <<"RESET", "INT0", "INT1", "INT2", "INT3", "INT4", "INT5", "INT6", "INT7",
      "TIMER2_COMP", "TIMER2_OVF", "TIMER1_CAPT", "TIMER1_COMPA", "TIMER1_COMPB",
      "TIMER1_OVF", "TIMER0_COMP", "TIMER0_OVF", "SPI_STC", rx, udre, tx,
      "ADC", "EE_READY", "ANA_COMP">>
vtab_atmega103 == Vtab(2, Atmega103Vectors("UART_RX", "UART_UDRE", "UART_TX"))
vtab_atmega128 ==
    Vtab(2, Atmega103Vectors("USART0_RX", "USART0_UDRE", "USART0_TX")
              \o <<"TIMER1_COMPC", "TIMER3_CAPT", "TIMER3_COMPA", "TIMER3_COMPB",
                   "TIMER3_COMPC", "TIMER3_OVF", "USART1_RX", "USART1_UDRE",
                   "USART1_TX", "TWI", "SPM_READY">>)

At43Vectors == <<"RESET", "INT0", "INT1", "TIMER1_CAPT", "TIMER1_COMPA",
                 "TIMER1_COMPB", "TIMER1_OVF", "TIMER0_OVF">>
vtab_at43usb355 == Vtab(2, At43Vectors \o <<"SPI_STC", "-", "-", "ADC", "USB_HW">>)
vtab_at43usb320_AsOf355 == vtab_at43usb355
vtab_at43usb320 ==
    Vtab(2, At43Vectors \o <<"SPI_STC", "UART_RX", "UART_UDRE", "UART_TX", "USB_HW">>)
vtab_at43usb325 == Vtab(2, At43Vectors \o <<"-", "-", "-", "-", "USB_HW">>)
vtab_at43usb326 == Vtab(2, <<"RESET", "INT0", "-", "-", "-", "-", "-", "TIMER0_OVF",
                             "-", "-", "-", "-", "USB_HW">>)

----------------------------------------------------------------------------
(* What a struct DevSuppDefn holds beside them: whether the stack is a      *)
(* hardware one, the end of the I/O registers, the bytes of SRAM, and the   *)
(* interrupts its timer mask leaves to the timers.                          *)

Defn(io_reg, vtab, hardware_stack, io_reg_end, sram, timers) ==
    [io_reg |-> io_reg, vtab |-> vtab, hardware_stack |-> hardware_stack,
     io_reg_end |-> io_reg_end, sram |-> sram, timers |-> timers]

BothTimers == {"TIMER0_OVF", "TIMER1_CAPT", "TIMER1_COMPA", "TIMER1_COMPB",
               "TIMER1_OVF"}

devices_supported ==
    [at90s1200  |-> Defn(at90s1200, vtab_at90s1200, TRUE, \h5f, 0, {}),
     at90s2313  |-> Defn(at90s2313, vtab_at90s2313, FALSE, \h5f, 128, {}),
     at90s4414  |-> Defn(at90s4414, vtab_at90s4414, FALSE, \h5f, 256, {}),
     at90s8515  |-> Defn(at90s8515, vtab_at90s4414, FALSE, \h5f, 512, {}),
     atmega8    |-> Defn(atmega8, vtab_atmega8, FALSE, \h5f, 1024, {}),
     atmega16   |-> Defn(atmega16, vtab_atmega16, FALSE, \h5f, 1024, {}),
     atmega103  |-> Defn(atmega103, vtab_atmega103, FALSE, \h5f, 4000, {}),
     atmega128  |-> Defn(atmega128, vtab_atmega128, FALSE, \hff, 4096, {}),
     OsEID128   |-> Defn(OsEID128, vtab_atmega128, FALSE, \hff, 16384, {}),
     at43usb351 |-> Defn(at43usb351_io \o at43usb351_usb, vtab_at43usb355,
                         FALSE, \h5f, 1024, BothTimers),
     at43usb353 |-> Defn(at43usb353_io \o at43usb353_usb, vtab_at43usb355,
                         FALSE, \h5f, 1024, BothTimers),
     at43usb355 |-> Defn(at43usb355_io \o at43usb355_usb, vtab_at43usb355,
                         FALSE, \h5f, 1024, BothTimers),
     at43usb320 |-> Defn(at43usb320_io \o at43usb320_usb, vtab_at43usb320,
                         FALSE, \h5f, 512, BothTimers),
     at43usb325 |-> Defn(at43usb325_io \o at43usb325_usb, vtab_at43usb325,
                         FALSE, \h5f, 512, BothTimers),
     at43usb326 |-> Defn(at43usb326_io \o at43usb326_usb, vtab_at43usb326,
                         FALSE, \h5f, 512, {"TIMER0_OVF"})]

----------------------------------------------------------------------------
(* The construction of a core *)

(* The names the add_addr function of a class of devices takes; the others  *)
(* take any.                                                                *)
AddAddrNames(class) ==
    CASE class = "port"      -> {"PIN", "DDR", "PORT"}
      [] class = "sp"        -> {"SPL", "SPH"}
      [] class = "timer0"    -> {"TCNT", "TCCR"}
      [] class = "timer16"   -> {"TCNTL", "TCNTH", "TCCRA", "TCCRB", "TCCRC"}
      [] class = "ocreg16"   -> {"OCRAL", "OCRAH", "OCRBL", "OCRBH", "OCRCL", "OCRCH"}
      [] class = "timer_int" -> {"TIFR", "TIMSK"}
      [] class = "spii"      -> {"SPCR", "SPSR"}
      [] class = "spi"       -> {"SPDR"}
      [] class = "adc"       -> {"ADCL", "ADCH"}
      [] class = "adc_int"   -> {"ADCSR", "ADMUX"}
      [] class = "uart_int"  -> {"UBRR", "UBRRH", "USR", "UCR"}
      [] class = "uart"      -> {"UDR"}
      [] class = "oseid"     -> {"FIFO", "FIFOCTRL"}
      [] class = "ee"        -> {"EECR", "EEDR", "EEARL", "EEARH"}
      [] class = "usbi"      -> {"UIER", "UIAR", "UIMSK", "UISR", "SPRSMSK", "SPRSIE",
                                 "SPRSR", "GLB_STATE", "FRM_NUM_L", "FRM_NUM_H"}
      [] OTHER               -> {}

(* The number of a USB register, which is part of its name there. *)
UsbNames ==
    ({"FCAR", "FBYTE_CNT", "FDR", "FCSR", "FENDP_CNTR"} \X (0..5))
      \cup ({"PSTATE", "HPSCR", "HPSTAT"} \X (1..8))
      \cup ({"HCAR", "HPCON", "HSTR", "HBYTE_CNT", "HDR", "HCSR", "HENDP_CNTR",
             "FADDR", "HADDR", "ISCR", "UOVCER"} \X {0})
      \cup {<<"HENDP_CNTR", 1>>}

AddAddrTakes(class, r) ==
    \/ class \in {"sreg", "rampz", "spm"}
    \/ class = "usb" /\ <<r.name, r.n>> \in UsbNames
    \/ r.name \in AddAddrNames(class)

(* One turn of the loop of dev_supp_attach_io_regs and the mem_attach it    *)
(* ends in.  A device is known by its class and the address it was created  *)
(* at; core.cell says which device an address belongs to.  avr_error exits. *)
XramEnd == \hffff
AttachRow(core, r) ==
    LET refers  == r.ref # None
        refable == r.ref >= \h20 /\ r.ref \in DOMAIN core.cell
        device  == IF refers THEN core.cell[r.ref]
                   ELSE [class |-> r.create, at |-> r.addr]
    IN  IF core.avr_error \/ (refers /\ ~refable) \/ r.addr >= XramEnd
        THEN [core EXCEPT !.avr_error = TRUE]
        ELSE IF ~AddAddrTakes(device.class, r)
        THEN [core EXCEPT !.avr_error = TRUE]
        ELSE [core EXCEPT !.cell = (r.addr :> device) @@ @]

(* Attached[c]: the core after the loop, for the device called c. *)
Attached ==
    [c \in DOMAIN devices_supported |->
        FoldLeft(AttachRow, [cell |-> [a \in {} |-> None], avr_error |-> FALSE],
                 devices_supported[c].io_reg)]

ClassAt(c, a) == IF a \in DOMAIN Attached[c].cell THEN Attached[c].cell[a].class
                 ELSE "none"
Classes(c) == {Attached[c].cell[a].class : a \in DOMAIN Attached[c].cell}

(* The cells avr_core_construct gives to the internal SRAM, afterwards.     *)
SramCells(c) ==
    LET base == devices_supported[c].io_reg_end + 1
    IN  base..(base + devices_supported[c].sram - 1)

(* The vectors the devices of a class raise. *)
VectorsRaised(c, class) ==
    CASE class = "spii"      -> {"SPI_STC"}
      [] class = "uart_int"  -> {"UART_RX", "UART_TX", "UART_UDRE"}
      [] class = "adc_int"   -> {"ADC"}
      [] class = "timer_int" -> devices_supported[c].timers
      [] OTHER               -> {}

----------------------------------------------------------------------------
(* Properties of the tables *)

(* Every table builds a core: no row makes an add_addr function, the search *)
(* for a referenced device or mem_attach call avr_error, the registers that *)
(* avr_core_construct takes for granted are where it looks for them, and    *)
(* the SRAM it attaches afterwards takes no register's cell.                *)
TableBuilds(c) ==
    /\ ~Attached[c].avr_error
    /\ ClassAt(c, \h5f) = "sreg"
    /\ ClassAt(c, \h5b) \in {"rampz", "none"}
    /\ devices_supported[c].hardware_stack \/ ClassAt(c, \h5d) = "sp"
    /\ SramCells(c) \cap DOMAIN Attached[c].cell = {}

(* A device finds its partner through a related address, cast to the type   *)
(* it expects: wherever the SPI, the UART, the timers and ADCSR look, the   *)
(* partner is there.  (ADCL of the at43usb351 and at43usb353 names none.)   *)
RelatedFound(c) ==
    \A i \in DOMAIN devices_supported[c].io_reg :
       LET r == devices_supported[c].io_reg[i] IN
       /\ r.create = "spi"     => ClassAt(c, r.related) = "spii"
       /\ r.create = "uart"    => ClassAt(c, r.related) = "uart_int"
       /\ r.create = "timer0"  => ClassAt(c, r.related) = "timer_int"
       /\ r.create = "timer16" => ClassAt(c, r.related) = "timer_int"
       /\ r.create = "adc_int" => ClassAt(c, r.related) = "adc"

(* An interrupt raised without an entry in the vector table would make      *)
(* avr_core_check_interrupts exit, and one that shares its address with     *)
(* another would be dropped as a duplicate of it.                           *)
VectorsServe(c) ==
    LET vtab == devices_supported[c].vtab IN
    /\ UNION {VectorsRaised(c, class) : class \in Classes(c)} \subseteq DOMAIN vtab
    /\ IsInjective(vtab)
=============================================================================
