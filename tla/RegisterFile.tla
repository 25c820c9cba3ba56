------------------------------ MODULE RegisterFile ------------------------------
(***************************************************************************)
(* What the ROACH client promises those who write registers and those who  *)
(* are shown them, whatever becomes of the connection: as if there were    *)
(* one copy of the registers, that a write which succeeds sets at once,    *)
(* and that is shown a register at a time, as it stands.                   *)
(***************************************************************************)
EXTENDS Integers

CONSTANT Regs   \* the registers

VARIABLES
  written,   \* the write that each register was last set by, 0 if none
  shown      \* what the handlers were last passed of each

vars == <<written, shown>>

Init ==
  /\ written = [r \in Regs |-> 0]
  /\ shown = [r \in Regs |-> 0]

(* A write comes after every earlier one, to whichever register.           *)
Write(r) ==
  /\ \A q \in Regs : written'[r] > written[q]
  /\ written' = [written EXCEPT ![r] = written'[r]]
  /\ UNCHANGED shown

Show(r) ==
  /\ shown' = [shown EXCEPT ![r] = written[r]]
  /\ UNCHANGED written

Next == \E r \in Regs : Write(r) \/ Show(r)

Spec == Init /\ [][Next]_vars
=============================================================================
