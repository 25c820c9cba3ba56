---------------------------- MODULE MCInitialValues ----------------------------
(* A small instance of InitialValues: one sensor of each of three kinds.   *)
EXTENDS InitialValues

(* One kept without a time, an ordinary one, and one that is not kept.     *)
MixedStation == {"beamwidth"}
MixedRoach == {"accumulationLength", "attenuation0"}
=============================================================================
