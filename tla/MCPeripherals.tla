--------------------------- MODULE MCPeripherals ---------------------------
(* Instances of Peripherals for TLC. *)
EXTENDS Peripherals

Sits(c, uses, debugger) == [chip |-> c, uses |-> uses, debugger |-> debugger]

(* Every chip with its devices idle, and each device in use with a debugger *)
(* attached.                                                                *)
MCSessions ==
    {Sits(c, {}, FALSE) : c \in DOMAIN devices_supported} \cup
    {Sits("at43usb355", {"spi"}, TRUE),
     Sits("at43usb355", {"adc"}, TRUE),
     Sits("at43usb320", {"uart"}, TRUE),
     Sits("at43usb320", {"usb"}, TRUE),
     Sits("OsEID128", {"oseid"}, TRUE),
     Sits("OsEID128", {"ee"}, TRUE)}

MCUcrInputs == {{}, {"TXEN", "TXCIE"}, {"UDRIE"}}
MCAdcsrInputs == {{"ADEN", "ADIE"}, {"ADEN", "ADIE", "ADSC"}, {"ADEN", "ADIE", "ADFR", "ADSC"}}
MCLines == {<<>>, <<1, 0>>, <<1, 1, 0, 1>>}
=============================================================================
