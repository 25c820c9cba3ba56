------------------------------- MODULE Recorder -------------------------------
(***************************************************************************)
(* What the recorder promises its operator, whatever threads carry it out: *)
(* while it is busy with one request it writes any number of files, one at *)
(* a time; a file only grows, by whole frames of the stream it was made    *)
(* for, and not before the requested time; nothing is open when it is not  *)
(* busy, and the request does not change while it is.                      *)
(***************************************************************************)
EXTENDS Integers

CONSTANTS
  Times,        \* timestamps of frames
  FrameSizes,   \* lengths of a frame
  Digitisers,   \* digitiser types
  Requests,     \* what ?startRecording may ask for
  NoFile        \* no file is open

VARIABLES
  busy,       \* isRecordingEnabled
  request,    \* the request being served, or proposed
  file        \* the open file

vars == <<busy, request, file>>

Init ==
  /\ busy = FALSE
  /\ request \in Requests
  /\ file = NoFile

Propose ==
  /\ ~busy
  /\ request' \in Requests
  /\ UNCHANGED <<busy, file>>

Begin ==
  /\ ~busy
  /\ busy' = TRUE
  /\ UNCHANGED <<request, file>>

Open ==
  /\ busy
  /\ file = NoFile
  /\ \E t \in Times, s \in FrameSizes, d \in Digitisers :
       /\ t >= request.start
       /\ file' = [start |-> t, size |-> s, digitiser |-> d,
                   request |-> request, frames |-> 0, last |-> t]
  /\ UNCHANGED <<busy, request>>

Write ==
  /\ busy
  /\ file # NoFile
  /\ \E t \in Times :
       file' = [file EXCEPT !.frames = @ + 1, !.last = t]
  /\ UNCHANGED <<busy, request>>

Close ==
  /\ busy
  /\ file # NoFile
  /\ file' = NoFile
  /\ UNCHANGED <<busy, request>>

End ==
  /\ busy
  /\ file = NoFile
  /\ busy' = FALSE
  /\ UNCHANGED <<request, file>>

Next == Propose \/ Begin \/ Open \/ Write \/ Close \/ End

Spec == Init /\ [][Next]_vars
=============================================================================
