-------------------------------- MODULE Usb --------------------------------
(***************************************************************************)
(* The USB registers of usb.c: the endpoints' control, status, data and    *)
(* count registers, and those of the interrupt unit.  The status registers *)
(* are not kept by the simulator: a read asks a person for their value.    *)
(* There is no callback and no interrupt is ever raised.                   *)
(***************************************************************************)
EXTENDS Bus

CONSTANTS
    Endpoints,         \* the function's endpoints "0" to "5", and the hub's "H"
    UsbRegisters,      \* among UOVCER, HADDR, FADDR, HSTR, HPCON
    KeptRegisters,     \* among FENDP_CNTR, UIER, UIMSK, UIAR, GLB_STATE,
                       \*   SPRSMSK, SPRSIE, FRM_NUM_L, FRM_NUM_H
    FetchedRegisters,  \* among UISR, SPRSR
    SetupBytes,        \* the bytes of a SETUP packet: 10
    CountModulus       \* a byte count is a uint8_t: 256

ASSUME UsbAssumed == CountModulus \in Nat \ {0} /\ SetupBytes \in 0..(CountModulus - 1)

VARIABLE usb

UsbFlags       == {"RX_SETUP", "TX_COMPLETE"}
SetupEndpoints == {"0", "H"}
AllRegisters   == UsbRegisters \cup KeptRegisters \cup FetchedRegisters

UsbType == [fcsr : [Endpoints -> SUBSET UsbFlags],
            byte_cnt : [Endpoints -> 0..(CountModulus - 1)],
            reg : [AllRegisters -> BOOLEAN]]

(* The constructors end with a reset; what that does not clear is whatever  *)
(* malloc left.                                                             *)
UsbInits == {u \in UsbType : \A r \in AllRegisters \ KeptRegisters : ~u.reg[r]}

(* FCSRn or HCSR0 read.  A SETUP packet is known to have ten bytes. *)
UsbReadFcsr ==
    /\ \E e \in Endpoints, v \in SUBSET UsbFlags :
          usb' = [usb EXCEPT
             !.fcsr[e] = v,
             !.byte_cnt[e] = IF "RX_SETUP" \in v /\ e \in SetupEndpoints THEN SetupBytes
                             ELSE @]
    /\ UNCHANGED lists

(* UISR or SPRSR read. *)
UsbFetch ==
    /\ \E r \in FetchedRegisters, v \in BOOLEAN : usb' = [usb EXCEPT !.reg[r] = v]
    /\ UNCHANGED lists

(* FCARn or HCAR0 written: acknowledges flags and starts the count anew. *)
UsbWriteFcar(e, v) ==
    /\ usb' = [usb EXCEPT !.fcsr[e] = @ \ v, !.byte_cnt[e] = 0]
    /\ UNCHANGED lists

(* FDRn or HDR0 written. *)
UsbWriteFdr(e) ==
    /\ usb' = [usb EXCEPT !.byte_cnt[e] = (@ + 1) % CountModulus]
    /\ UNCHANGED lists

UsbWriteRegister ==
    /\ \E r \in UsbRegisters \cup KeptRegisters, v \in BOOLEAN :
          usb' = [usb EXCEPT !.reg[r] = v]
    /\ UNCHANGED lists

(* usb_reset and usb_intr_reset. *)
UsbReset ==
    [usb EXCEPT !.reg = [r \in DOMAIN usb.reg |-> usb.reg[r] /\ r \in KeptRegisters]]
=============================================================================
