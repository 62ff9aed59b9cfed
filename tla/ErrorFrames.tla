---------------------------- MODULE ErrorFrames ----------------------------
(***************************************************************************)
(* The report lines of the adapter (e, E and s), the error frame that      *)
(* slcan-core.c makes of one, and what canerr prints of that frame.        *)
(*                                                                         *)
(* A report is the record the adapter sends; how many characters of its    *)
(* line arrive is a number of its own.  An error frame is a record of the  *)
(* sets of flags in can_id, data[1] (ctrl) and data[2] (prot), of the      *)
(* place in data[3] and of the two counters.  Its numeric values are those *)
(* of linux/can/error.h, which are left out.                               *)
(***************************************************************************)
EXTENDS Naturals, Sequences

Levels == <<"active", "warning", "passive", "busoff">>
States == {Levels[i] : i \in 1..4}

Codes == {"a", "b", "B", "c", "f", "o", "O", "s"}

---------------------------------------------------------------------------
(* The lengths of commands after the prefix, and the gate in slcan_unesc:   *)
(* a line with its prefix must be longer than 4 characters.                 *)
CmdLen(r) == CASE r.cmd = "e" -> 2 + Len(r.codes) [] r.cmd = "E" -> 9 [] r.cmd = "s" -> 8

LongEnoughPdu(prefix, n) == prefix + n > 4

(* slcan_bump_err wants the codes its digit promises, and no digit 9;       *)
(* slcan_bump_err_new and slcan_bump_state want a fixed length.             *)
WholeCmd(r, n) == n >= CmdLen(r) /\ (r.cmd = "e" => Len(r.codes) < 9)

---------------------------------------------------------------------------
(* alloc_can_err_skb: an error frame with nothing in it. *)
NoError == [id |-> {}, ctrl |-> {}, prot |-> {}, loc |-> "none", tx |-> 0, rx |-> 0]
BusError == [NoError EXCEPT !.id = {"PROT", "BUSERROR"}]

ProtFlag == [c \in {"b", "B", "c", "f", "s"} |->
    CASE c = "b" -> "BIT0" [] c = "B" -> "BIT1" [] c = "c" -> "BIT"
      [] c = "f" -> "FORM" [] c = "s" -> "STUFF"]

(* One turn of the loop of slcan_bump_err over the codes of an e line:      *)
(* data[1] and data[3] are assigned, data[2] is or-ed.                      *)
AddCode(f, c) ==
    CASE c = "a" -> [f EXCEPT !.id = @ \cup {"ACK"}, !.loc = "ack"]
      [] c = "c" -> [f EXCEPT !.prot = @ \cup {"BIT"}, !.loc = "crc"]
      [] c = "o" -> [f EXCEPT !.id = @ \cup {"CRTL"}, !.ctrl = {"RX_OVERFLOW"}]
      [] c = "O" -> [f EXCEPT !.id = @ \cup {"CRTL"}, !.ctrl = {"TX_OVERFLOW"}]
      [] OTHER -> [f EXCEPT !.prot = @ \cup {ProtFlag[c]}]

(* The E line: cmd[2] names one protocol error, cmd[3..4] hold the bits of  *)
(* the firmware (1: receive failed, 4: transmit fifo full, 8: USB overflow). *)
Swapped == <<"s", "f", "a", "b", "B">>        \* mutant: the two bit errors exchanged
Protocol == <<"s", "f", "a", "B", "b">>
ProtocolError(f, last) ==
    CASE last \in 1..5 -> AddCode(f, Protocol[last])
      [] last = 6 -> [f EXCEPT !.loc = "crc"]
      [] OTHER -> f

FirmwareErrors(f, fw) ==
    [f EXCEPT
        !.id = @ \cup (IF fw \cap {1, 4, 8} # {} THEN {"CRTL"} ELSE {}),
        !.ctrl = @ \cup (IF fw \cap {1, 8} # {} THEN {"RX_OVERFLOW"} ELSE {})
                   \cup (IF 4 \in fw THEN {"TX_OVERFLOW"} ELSE {})]

BumpErrNew(r) ==
    [FirmwareErrors(ProtocolError(BusError, r.last), r.fw) EXCEPT
        !.id = @ \cup {"CNT"}, !.tx = r.tx, !.rx = r.rx]

(* The s line: can_change_state of the kernel takes the larger of the two   *)
(* sides' states and marks the side, or both, whose counter is the larger.  *)
TxFlag == [active |-> "ACTIVE", warning |-> "TX_WARNING", passive |-> "TX_PASSIVE"]
RxFlag == [active |-> "ACTIVE", warning |-> "RX_WARNING", passive |-> "RX_PASSIVE"]

ChangeState(r) ==
    IF r.state = "busoff" THEN [NoError EXCEPT !.id = {"BUSOFF"}]
    ELSE [NoError EXCEPT
            !.id = {"CRTL"},
            !.ctrl = (IF r.tx >= r.rx THEN {TxFlag[r.state]} ELSE {})
                     \cup (IF r.tx <= r.rx THEN {RxFlag[r.state]} ELSE {})]

(* Three decimal digits go into a byte of the frame. *)
BumpState(r) ==
    IF r.state = "busoff" THEN ChangeState(r)
    ELSE [ChangeState(r) EXCEPT !.id = @ \cup {"CNT"}, !.tx = r.tx % 256, !.rx = r.rx % 256]

(* slcan_unesc and slcan_bump: the error frame for the first n characters   *)
(* of a report, if there is one, before the loop over the codes of an e     *)
(* line; an s line that repeats the driver's state makes none.              *)
NoFrame == [id |-> {"NONE"}]
Refused(r, n, state) == ~WholeCmd(r, n) \/ (r.cmd = "s" /\ r.state = state)

Bump(prefix, r, n, state) ==
    IF ~LongEnoughPdu(prefix, n) \/ Refused(r, n, state) THEN NoFrame
    ELSE CASE r.cmd = "e" -> BusError
           [] r.cmd = "E" -> BumpErrNew(r)
           [] r.cmd = "s" -> BumpState(r)

---------------------------------------------------------------------------
(* canerr: what is printed of an error frame that has arrived. *)

PrintedCtrl == [RX_OVERFLOW |-> "RxOverflow", TX_OVERFLOW |-> "TxOverflow",
                RX_PASSIVE |-> "RxPassive", TX_PASSIVE |-> "TxPassive"]
PrintedProt == [BIT |-> "BitError", FORM |-> "FormatError", STUFF |-> "StuffError",
                BIT0 |-> "Bit0Error", BIT1 |-> "Bit1Error"]

Under(flag, f, set) == IF flag \in f.id THEN set ELSE {}
Printed(f) ==
    Under("BUSOFF", f, {"BusOff"})
    \cup Under("CRTL", f, {PrintedCtrl[c] : c \in f.ctrl \cap DOMAIN PrintedCtrl})
    \cup Under("PROT", f, {PrintedProt[p] : p \in f.prot \cap DOMAIN PrintedProt})
    \cup Under("PROT", f, Under("ACK", f, {"AckError"}))
    \cup Under("PROT", f, CASE f.loc = "crc" -> {"InCRC"} [] f.loc = "ack" -> {"InAckSlot"}
                            [] OTHER -> {})

Counters(f) == IF "CNT" \in f.id THEN <<f.tx, f.rx>> ELSE <<>>

(* canerr's socket: err_mask lets every error frame through, and frames     *)
(* without CAN_ERR_FLAG are not decoded.                                    *)
CanErr(f) == [told |-> Printed(f), counters |-> Counters(f)]

=============================================================================
