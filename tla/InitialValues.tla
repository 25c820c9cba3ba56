----------------------------- MODULE InitialValues -----------------------------
(***************************************************************************)
(* The initial value set of cHDF5FileWriter (HDF5FileWriter.cpp).          *)
(*                                                                         *)
(* Sensor values arrive on the threads of two KATCP clients.  A callback   *)
(* keeps the newest value of its sensor in m_oInitialValueSet and, while a *)
(* recording is on, adds it to the file.  A new file is first given the    *)
(* values kept, so that it holds the sensors that do not change while it   *)
(* is written.  The callback takes m_oMutex to store a value; the data     *)
(* thread does not take it to read one.                                    *)
(*                                                                         *)
(* What a report carries is abstracted to the time at which it was made:   *)
(* the entry for s holds the timestamp kept, stamp[s], and which report    *)
(* the value kept comes from, from[s]; 0 is the constructor's.             *)
(***************************************************************************)
EXTENDS Integers

CONSTANTS
  Station,   \* sensors of the station controller
  Roach,     \* sensors of the ROACH
  Times      \* timestamps of reports

ASSUME ReportsAssumption ==
  /\ Station \cap Roach = {}
  /\ "none" \notin Station \cup Roach
  /\ Times \subseteq Nat \ {0}

VARIABLES
  stamp,      \* m_oInitialValueSet.m_i64TS<sensor>_us
  from,       \* m_oInitialValueSet.m_dV<sensor>
  recording,  \* getState() = RECORDING
  filePc,     \* "closed", "replay" while values are added, "open"
  held,       \* the entries of each sensor in the file
  pending,    \* sensors whose kept value the data thread has not looked at
  reading,    \* the entry being read, one of its halves before the other
  call,       \* the callback each client thread is in
  crashed,    \* a null m_pHDF5File was dereferenced
  atOpen,     \* history: stamp when the file was made
  touched     \* history: sensors whose entry changed while values were added

kept == <<stamp, from>>
vars == <<kept, recording, filePc, held, pending, reading, call, crashed,
          atOpen, touched>>

Sensors == Station \cup Roach
Threads == {"station", "roach"}
SensorsOf(th) == IF th = "station" THEN Station ELSE Roach

(* Sensors whose callback keeps nothing, and those kept without a time.    *)
Uncached == {"antennaStatus", "frequencyFs", "attenuation0", "attenuation1"}
Unstamped == {"pointingModel", "beamwidth", "antennaInfo"}

(* The timestamp a callback compares with, and the one it then assigns.    *)
GuardOf(s) == IF s = "dspGain" THEN "relativeHumidity" ELSE s
StampOf(s) == IF s = "shiftMask" THEN "channelSelect" ELSE s

(* A sensor comes with those whose timestamps its callback uses.           *)
ASSUME PairsAssumption ==
  \A s \in Sensors : {GuardOf(s), StampOf(s)} \subseteq Sensors

Nothing == [sensor |-> "none", half |-> "none", seen |-> 0]
Idle == [at |-> "idle", sensor |-> "none", time |-> 0]

Uninitialised == -1    \* faulty: the constructor misses the timestamp

NoTime == 0

Init ==
  /\ stamp = [s \in Sensors |-> NoTime]
  /\ from = [s \in Sensors |-> 0]
  /\ recording = FALSE
  /\ filePc = "closed"
  /\ held = [s \in Sensors |-> {}]
  /\ pending = {}
  /\ reading = Nothing
  /\ call = [th \in Threads |-> Idle]
  /\ crashed = FALSE
  /\ atOpen = stamp
  /\ touched = {}

-----------------------------------------------------------------------------
(* The data thread.                                                        *)

OpenFile ==
  /\ filePc = "closed"
  /\ filePc' = "replay"
  /\ pending' = Sensors
  /\ atOpen' = stamp
  /\ UNCHANGED <<kept, recording, held, reading, call, crashed, touched>>

ReplayForgets(s) ==    \* faulty: one sensor is left out
  s # "accumulationLength" /\ stamp[s] # 0

(* Whether a kept value is worth adding.  The pointing model always is.    *)
ReplayDue(s) ==
  \/ s = "pointingModel"
  \/ s \in Unstamped /\ from[s] # 0
  \/ stamp[s] # 0

(* The entry is read in two halves, in the order the compiler chose, and   *)
(* the station or ROACH thread may store a new one in between.             *)
ReadHalf(s) ==
  /\ filePc = "replay"
  /\ reading = Nothing
  /\ s \in pending
  /\ pending' = pending \ {s}
  /\ IF ReplayDue(s)
     THEN \/ reading' = [sensor |-> s, half |-> "stamp", seen |-> stamp[s]]
          \/ reading' = [sensor |-> s, half |-> "value", seen |-> from[s]]
     ELSE UNCHANGED reading
  /\ UNCHANGED <<kept, recording, filePc, held, call, crashed, atOpen, touched>>

(* Channel 1's attenuation is added as channel 0's.                        *)
AddedAs(s) == IF s = "attenuation1" THEN "attenuation0" ELSE s

AddInitial ==
  LET s == reading.sensor
      t == IF reading.half = "stamp" THEN reading.seen ELSE stamp[s]
      v == IF reading.half = "value" THEN reading.seen ELSE from[s]
  IN  /\ reading # Nothing
      /\ reading' = Nothing
      /\ held' = [held EXCEPT ![AddedAs(s)] = @ \cup {[stamp |-> t, from |-> v]}]
      /\ UNCHANGED <<kept, recording, filePc, pending, call, crashed, atOpen,
                     touched>>

EnterRecording ==
  /\ filePc = "replay"
  /\ pending = {}
  /\ reading = Nothing
  /\ filePc' = "open"
  /\ recording' = TRUE
  /\ UNCHANGED <<kept, held, pending, reading, call, crashed, atOpen, touched>>

(* A stop, a full file or a changed stream: the state is left first.       *)
LeaveRecording ==
  /\ recording
  /\ recording' = FALSE
  /\ UNCHANGED <<kept, filePc, held, pending, reading, call, crashed, atOpen,
                 touched>>

CloseFile ==
  /\ filePc = "open"
  /\ ~recording
  /\ filePc' = "closed"
  /\ held' = [s \in Sensors |-> {}]
  /\ atOpen' = [s \in Sensors |-> 0]
  /\ touched' = {}
  /\ UNCHANGED <<kept, recording, pending, reading, call, crashed>>

File ==
  \/ OpenFile \/ (\E s \in Sensors : ReadHalf(s)) \/ AddInitial
  \/ EnterRecording \/ LeaveRecording \/ CloseFile

-----------------------------------------------------------------------------
(* A sensor callback.                                                      *)

Move(th, c) == call' = [call EXCEPT ![th] = c]

Newer(s, t) == s \in Unstamped \/ t > stamp[GuardOf(s)]

(* The kept timestamp is compared with before the lock is taken.           *)
Report(th, s, t) ==
  /\ call[th] = Idle
  /\ s \in SensorsOf(th)
  /\ Move(th, [at |-> IF s \notin Uncached /\ Newer(s, t)
                      THEN "store" ELSE "check",
               sensor |-> s, time |-> t])
  /\ UNCHANGED <<kept, recording, filePc, held, pending, reading, crashed,
                 atOpen, touched>>

StoreTime(th) ==    \* faulty: the value is not assigned
  LET s == call[th].sensor
  IN  /\ call[th].at = "store"
      /\ stamp' = IF s \in Unstamped THEN stamp
                  ELSE [stamp EXCEPT ![StampOf(s)] = call[th].time]
      /\ touched' = IF filePc = "replay" THEN touched \cup {s, StampOf(s)}
                    ELSE touched
      /\ Move(th, [call[th] EXCEPT !.at = "check"])
      /\ UNCHANGED <<from, recording, filePc, held, pending, reading, crashed,
                     atOpen>>

Store(th) ==
  LET s == call[th].sensor
      t == call[th].time
  IN  /\ call[th].at = "store"
      /\ stamp' = IF s \in Unstamped THEN stamp
                  ELSE [stamp EXCEPT ![StampOf(s)] = t]
      /\ from' = [from EXCEPT ![s] = t]
      /\ touched' = IF filePc = "replay" THEN touched \cup {s, StampOf(s)}
                    ELSE touched
      /\ Move(th, [call[th] EXCEPT !.at = "check"])
      /\ UNCHANGED <<recording, filePc, held, pending, reading, crashed, atOpen>>

Check(th) ==
  /\ call[th].at = "check"
  /\ Move(th, IF recording THEN [call[th] EXCEPT !.at = "add"] ELSE Idle)
  /\ UNCHANGED <<kept, recording, filePc, held, pending, reading, crashed,
                 atOpen, touched>>

(* By now the file may have been closed, or the next one be in the making. *)
Add(th) ==
  LET s == call[th].sensor
      t == call[th].time
      e == [stamp |-> IF s \in Unstamped THEN 0 ELSE t, from |-> t]
  IN  /\ call[th].at = "add"
      /\ Move(th, Idle)
      /\ IF filePc = "closed"
         THEN crashed' = TRUE /\ UNCHANGED held
         ELSE held' = [held EXCEPT ![s] = @ \cup {e}] /\ UNCHANGED crashed
      /\ UNCHANGED <<kept, recording, filePc, pending, reading, atOpen, touched>>

Callback(th) ==
  \/ \E s \in SensorsOf(th), t \in Times : Report(th, s, t)
  \/ Store(th) \/ Check(th) \/ Add(th)

-----------------------------------------------------------------------------
Next == ~crashed /\ (File \/ \E th \in Threads : Callback(th))

Spec == Init /\ [][Next]_vars
-----------------------------------------------------------------------------
(* Properties.                                                             *)

Entries == [stamp : Times \cup {0}, from : Times \cup {0}]

(* Every variable keeps the kind of value the code gives it.               *)
TypeOK ==
  /\ stamp \in [Sensors -> Times \cup {0}]
  /\ from \in [Sensors -> Times \cup {0}]
  /\ recording \in BOOLEAN
  /\ filePc \in {"closed", "replay", "open"}
  /\ held \in [Sensors -> SUBSET Entries]
  /\ pending \subseteq Sensors
  /\ reading \in {Nothing} \cup [sensor : Sensors, half : {"stamp", "value"},
                                 seen : Times \cup {0}]
  /\ call \in [Threads -> {Idle} \cup [at : {"store", "check", "add"},
                                      sensor : Sensors, time : Times]]
  /\ \A th \in Threads : call[th] # Idle => call[th].sensor \in SensorsOf(th)
  /\ crashed \in BOOLEAN
  /\ atOpen \in [Sensors -> Times \cup {0}]
  /\ touched \subseteq Sensors

(* Sensors whose callback uses their own timestamp throughout.             *)
Sound == Sensors \ (Uncached \cup Unstamped
                      \cup {"dspGain", "channelSelect", "shiftMask"})

(* A recording holds, for every sensor that had a value when its file was  *)
(* made, an entry that is not older, even if the callback replaced the     *)
(* value while it was being read (377-573).                                *)
HoldsInitial ==
  recording =>
    \A s \in Sound :
      atOpen[s] # 0 => \E e \in held[s] : e.stamp >= atOpen[s]

Busy(s) == \E th \in Threads : call[th].sensor = s

Latest(s) ==
  IF s \in Unstamped THEN [stamp |-> 0, from |-> from[s]]
  ELSE [stamp |-> stamp[s], from |-> stamp[s]]

(* While recording, the newest value of a sensor is in the file under its  *)
(* own time: from the initial values, or from the callback, which stores a *)
(* value before it looks at the state.  Only a value stored while the      *)
(* initial ones are being added may be missing or mixed with an older one. *)
NewestIsHeld ==
  recording =>
    \A s \in Sound \cup (Sensors \cap Unstamped) :
      ~Busy(s) /\ s \notin touched /\ Latest(s).from # 0
        => Latest(s) \in held[s]
=============================================================================
