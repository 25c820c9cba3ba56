----------------------------- MODULE SensorMirror -----------------------------
(***************************************************************************)
(* What the station client promises the file writer and the KATCP server,  *)
(* whatever becomes of the connection: a callback is given a value that    *)
(* its sensor has or had, and never an older one than before.  It may skip *)
(* values, and it may fall behind the sensor and the other callbacks.      *)
(***************************************************************************)
EXTENDS Integers

CONSTANTS
  Sensors,     \* sensors of the station controller
  Callbacks,   \* callbacks of the handlers
  SensorOf,    \* the sensor of each callback
  Handlers     \* who is told

VARIABLES
  value,       \* how often each sensor's value was set
  held         \* what each callback of each handler was last given, 0 if nothing

vars == <<value, held>>

Init ==
  /\ value = [s \in Sensors |-> 1]
  /\ held = [h \in Handlers |-> [c \in Callbacks |-> 0]]

Change(s) ==
  /\ value' = [value EXCEPT ![s] = @ + 1]
  /\ UNCHANGED held

Tell(h, c) ==
  /\ \E v \in held[h][c]..value[SensorOf[c]] :
       held' = [held EXCEPT ![h][c] = v]
  /\ UNCHANGED value

Next ==
  \/ \E s \in Sensors : Change(s)
  \/ \E h \in Handlers, c \in Callbacks : Tell(h, c)

Spec == Init /\ [][Next]_vars
=============================================================================
