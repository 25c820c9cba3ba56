---------------------------- MODULE MCFileWriter ----------------------------
(* Small instances of FileWriter: one tick is the unit in which two frame  *)
(* intervals may differ by rounding.                                       *)
EXTENDS FileWriter

(* A clock that is set back once it has run a while, again and again.      *)
CycleTimes == {0, 2, 4, 6}
CycleSteps == {2, -6}

(* A clock that only runs forward, with rounding and one longer gap.       *)
ForwardTimes == 0..9
ForwardSteps == 1..4
=============================================================================
