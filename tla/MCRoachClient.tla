---------------------------- MODULE MCRoachClient ----------------------------
(* A small instance of RoachClient: the second register is one of those    *)
(* read without looking for a disconnect.                                  *)
EXTENDS RoachClient

LastUnchecked == {Registers}
=============================================================================
