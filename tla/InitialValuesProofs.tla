-------------------------- MODULE InitialValuesProofs --------------------------
(***************************************************************************)
(* Proofs about InitialValues, for any sensors and timestamps: whatever    *)
(* the callbacks store while a file is being made, the file holds what was *)
(* known when it was made, and while recording what is newest.             *)
(***************************************************************************)
EXTENDS InitialValues, TLAPS

-----------------------------------------------------------------------------
(* The inductive invariant.                                                *)

(* Where the data thread is. *)
FileInv ==
  /\ recording => filePc = "open"
  /\ filePc = "open" => pending = {}
  /\ filePc # "replay" => reading = Nothing

(* What is kept: a value and its time are of one report, and only newer    *)
(* ones replace them, since a sensor has only one thread. *)
KeptInv ==
  /\ \A s \in Sensors \cap Unstamped : stamp[s] = 0
  /\ \A s \in Sound :
       /\ from[s] = stamp[s]
       /\ filePc # "closed" => stamp[s] >= atOpen[s]
  /\ \A th \in Threads :
       call[th].at = "store" /\ call[th].sensor \in Sound =>
         call[th].time > stamp[call[th].sensor]

(* A value there was when the file was made is yet to be looked at, being  *)
(* read, or in the file. *)
InitialFollowed(s) ==
  \/ s \in pending
  \/ reading.sensor = s /\ (reading.half = "stamp" => reading.seen >= atOpen[s])
  \/ \E e \in held[s] : e.stamp >= atOpen[s]

InitialInv ==
  \A s \in Sound : filePc # "closed" /\ atOpen[s] # 0 => InitialFollowed(s)

(* The newest value is yet to be looked at, being read, in the file, or on *)
(* its way into the file. *)
Replayed(s) ==
  \/ s \in pending
  \/ /\ reading.sensor = s
     /\ reading.half = "stamp" => reading.seen = stamp[s]
     /\ reading.half = "value" => reading.seen = from[s]
  \/ Latest(s) \in held[s]

Recorded(s) ==
  \/ Latest(s) \in held[s]
  \/ \E th \in Threads :
       /\ call[th].sensor = s
       /\ call[th].at \in {"check", "add"}
       /\ call[th].time = Latest(s).from

Followed == Sound \cup (Sensors \cap Unstamped)

NewestInv ==
  \A s \in Followed :
    s \notin touched /\ Latest(s).from # 0 =>
      /\ filePc = "replay" => Replayed(s)
      /\ recording => Recorded(s)

ValuesInv == TypeOK /\ FileInv /\ KeptInv /\ InitialInv /\ NewestInv

-----------------------------------------------------------------------------
(* Names and threads.                                                      *)

(* A sensor followed is compared, stamped and added under its own name,    *)
(* and no other sensor is stamped or added under it. *)
LEMMA OwnNames ==
  ASSUME NEW s \in Followed
  PROVE  /\ s \in Sensors
         /\ s \notin Uncached
         /\ s \in Sound <=> s \notin Unstamped
         /\ GuardOf(s) = s /\ StampOf(s) = s /\ AddedAs(s) = s
         /\ \A r \in Sensors : StampOf(r) = s \/ AddedAs(r) = s => r = s
         /\ s # "none"
  BY ReportsAssumption
     DEF Followed, Sound, Sensors, Uncached, Unstamped, GuardOf, StampOf, AddedAs

(* Two callbacks that are under way are of different sensors, since the *)
(* threads of the two clients share none. *)
LEMMA OwnThread ==
  ASSUME TypeOK, NEW th \in Threads, NEW tj \in Threads, th # tj,
         call[th].at # "idle", call[tj].at # "idle"
  PROVE  call[th].sensor # call[tj].sensor
<1>1. call[th] # Idle /\ call[tj] # Idle
  BY DEF Idle
<1>2. call[th].sensor \in SensorsOf(th) /\ call[tj].sensor \in SensorsOf(tj)
  BY <1>1 DEF TypeOK
<1> QED
  BY <1>2, ReportsAssumption DEF SensorsOf, Threads

(* A step keeps the type of every variable. *)
LEMMA TypeStep == TypeOK /\ [Next]_vars => TypeOK'
<1> SUFFICES ASSUME TypeOK, [Next]_vars PROVE TypeOK'
  OBVIOUS
<1> USE DEF TypeOK, Entries, kept
<1>1. CASE OpenFile
  BY <1>1 DEF OpenFile
<1>2. ASSUME NEW s \in Sensors, ReadHalf(s) PROVE TypeOK'
  <2>1. reading' \in {Nothing} \cup [sensor : Sensors, half : {"stamp", "value"},
                                     seen : Times \cup {0}]
    BY <1>2 DEF ReadHalf
  <2> QED
    BY <1>2, <2>1 DEF ReadHalf
<1>3. CASE AddInitial
  <2> DEFINE s == reading.sensor
             t == IF reading.half = "stamp" THEN reading.seen ELSE stamp[s]
             v == IF reading.half = "value" THEN reading.seen ELSE from[s]
  <2>1. s \in Sensors /\ t \in Times \cup {0} /\ v \in Times \cup {0}
    BY <1>3 DEF AddInitial
  <2>2. held' = [held EXCEPT ![AddedAs(s)] = @ \cup {[stamp |-> t, from |-> v]}]
    BY <1>3 DEF AddInitial
  <2> HIDE DEF s, t, v
  <2> DEFINE e == [stamp |-> t, from |-> v]
  <2>3. e \in Entries
    BY <2>1
  <2> HIDE DEF e
  <2>4. held' \in [Sensors -> SUBSET Entries]
    BY <2>2, <2>3 DEF e
  <2> QED
    BY <1>3, <2>4 DEF AddInitial
<1>4. CASE EnterRecording
  BY <1>4 DEF EnterRecording
<1>5. CASE LeaveRecording
  <2>1. recording' \in BOOLEAN
    BY <1>5, Zenon DEF LeaveRecording
  <2> QED
    BY <1>5, <2>1 DEF LeaveRecording
<1>6. CASE CloseFile
  BY <1>6 DEF CloseFile
<1>7. ASSUME NEW th \in Threads, NEW s \in SensorsOf(th), NEW t \in Times, Report(th, s, t)
      PROVE  TypeOK'
  <2>1. s \in Sensors
    BY DEF SensorsOf, Sensors
  <2> QED
    BY <1>7, <2>1 DEF Report, Move, Idle
<1>8. ASSUME NEW th \in Threads, Store(th) PROVE TypeOK'
  <2>1. call[th] # Idle /\ call[th].sensor \in Sensors /\ call[th].time \in Times
        /\ call[th].sensor \in SensorsOf(th)
    BY <1>8 DEF Store, Idle
  <2>2. stamp' \in [Sensors -> Times \cup {0}] /\ from' \in [Sensors -> Times \cup {0}]
    BY <1>8, <2>1, PairsAssumption DEF Store
  <2>3. touched' \subseteq Sensors
    BY <1>8, <2>1, PairsAssumption DEF Store
  <2>4. call' = [call EXCEPT ![th] = [call[th] EXCEPT !.at = "check"]]
    BY <1>8 DEF Store, Move
  <2> QED
    BY <1>8, <2>1, <2>2, <2>3, <2>4 DEF Store, Idle
<1>9. ASSUME NEW th \in Threads, Check(th) PROVE TypeOK'
  BY <1>9 DEF Check, Move, Idle
<1>10. ASSUME NEW th \in Threads, Add(th) PROVE TypeOK'
  <2> DEFINE s == call[th].sensor
             e == [stamp |-> IF s \in Unstamped THEN 0 ELSE call[th].time,
                   from |-> call[th].time]
  <2>1. e \in Entries
    BY <1>10 DEF Add, Idle
  <2>2. held' = [held EXCEPT ![s] = @ \cup {e}] \/ UNCHANGED held
    BY <1>10 DEF Add
  <2> HIDE DEF e
  <2>3. held' \in [Sensors -> SUBSET Entries]
    BY <2>1, <2>2
  <2>4. crashed' \in BOOLEAN
    BY <1>10 DEF Add
  <2> QED
    BY <1>10, <2>3, <2>4 DEF Add, Move, Idle
<1>11. CASE UNCHANGED vars
  BY <1>11 DEF vars
<1> QED
  BY <1>1, <1>2, <1>3, <1>4, <1>5, <1>6, <1>7, <1>8, <1>9, <1>10, <1>11
     DEF Next, File, Callback

(* A step keeps the place of the data thread. *)
LEMMA FileStep == TypeOK /\ FileInv /\ [Next]_vars => FileInv'
<1> SUFFICES ASSUME TypeOK, FileInv, [Next]_vars PROVE FileInv'
  OBVIOUS
<1>1. CASE OpenFile
  BY <1>1 DEF FileInv, OpenFile
<1>2. ASSUME NEW s \in Sensors, ReadHalf(s) PROVE FileInv'
  BY <1>2 DEF FileInv, ReadHalf
<1>3. CASE AddInitial
  BY <1>3 DEF FileInv, AddInitial
<1>4. CASE EnterRecording
  BY <1>4 DEF FileInv, EnterRecording
<1>5. CASE LeaveRecording
  BY <1>5 DEF FileInv, LeaveRecording
<1>6. CASE CloseFile
  BY <1>6 DEF FileInv, CloseFile
<1>7. ASSUME NEW th \in Threads, Callback(th) PROVE FileInv'
  <2>1. UNCHANGED <<recording, filePc, pending, reading>>
    <3>1. ASSUME NEW s \in SensorsOf(th), NEW t \in Times, Report(th, s, t)
          PROVE  UNCHANGED <<recording, filePc, pending, reading>>
      BY <3>1 DEF Report
    <3>2. ASSUME Store(th) \/ Check(th) \/ Add(th)
          PROVE  UNCHANGED <<recording, filePc, pending, reading>>
      BY <3>2 DEF Store, Check, Add
    <3> QED
      BY <1>7, <3>1, <3>2 DEF Callback
  <2> QED
    BY <2>1 DEF FileInv
<1>8. CASE UNCHANGED vars
  BY <1>8 DEF FileInv, vars
<1> QED
  BY <1>1, <1>2, <1>3, <1>4, <1>5, <1>6, <1>7, <1>8 DEF Next, File

(* A callback that is under way has a sensor and a report. *)
LEMMA CallTypes ==
  ASSUME TypeOK, NEW th \in Threads, call[th].at # "idle"
  PROVE  /\ call[th].sensor \in Sensors
         /\ call[th].time \in Nat \ {0}
         /\ call[th].time \in Times
<1>1. call[th] # Idle
  BY DEF Idle
<1> QED
  BY <1>1, ReportsAssumption DEF TypeOK

(* Timestamps that are kept are naturals. *)
LEMMA NatStamps ==
  TypeOK => /\ stamp \in [Sensors -> Nat]
            /\ from \in [Sensors -> Nat]
            /\ atOpen \in [Sensors -> Nat]
<1>1. Times \cup {0} \subseteq Nat
  BY ReportsAssumption
<1> QED
  BY <1>1 DEF TypeOK

(* The sensors the two properties are about. *)
LEMMA SoundFollowed ==
  Sound \subseteq Followed /\ Sensors \cap Unstamped \subseteq Followed
  BY DEF Followed

(* A step keeps what is kept of one report, and only a newer one replaces *)
(* it. *)
LEMMA KeptStep == TypeOK /\ FileInv /\ KeptInv /\ [Next]_vars => KeptInv'
<1> SUFFICES ASSUME TypeOK, FileInv, KeptInv, [Next]_vars PROVE KeptInv'
  OBVIOUS
<1>n. /\ stamp \in [Sensors -> Nat]
      /\ from \in [Sensors -> Nat]
      /\ atOpen \in [Sensors -> Nat]
  BY NatStamps
<1>0. ASSUME UNCHANGED <<stamp, from, call>>,
             \/ UNCHANGED atOpen /\ (filePc' # "closed" => filePc # "closed")
             \/ atOpen' = stamp
             \/ filePc' = "closed"
      PROVE  KeptInv'
  <2>1. \A s \in Sound : s \in Sensors
    BY SoundFollowed, OwnNames
  <2> QED
    BY <1>0, <1>n, <2>1 DEF KeptInv
<1>1. CASE OpenFile
  BY <1>0, <1>1 DEF OpenFile, kept
<1>2. ASSUME NEW s \in Sensors, ReadHalf(s) PROVE KeptInv'
  BY <1>0, <1>2 DEF ReadHalf, kept
<1>3. CASE AddInitial
  BY <1>0, <1>3 DEF AddInitial, kept
<1>4. CASE EnterRecording
  BY <1>0, <1>4 DEF EnterRecording, kept
<1>5. CASE LeaveRecording
  BY <1>0, <1>5 DEF LeaveRecording, kept
<1>6. CASE CloseFile
  BY <1>0, <1>6 DEF CloseFile, kept
<1>7. ASSUME NEW th \in Threads, NEW s \in SensorsOf(th), NEW t \in Times, Report(th, s, t)
      PROVE  KeptInv'
  <2>1. \A r \in Sound : r \notin Unstamped /\ GuardOf(r) = r
    BY SoundFollowed, OwnNames
  <2>2. call' = [call EXCEPT ![th] = [at |-> IF s \notin Uncached /\ Newer(s, t)
                                             THEN "store" ELSE "check",
                                      sensor |-> s, time |-> t]]
    BY <1>7 DEF Report, Move
  <2>3. call \in [Threads -> {Idle} \cup [at : {"store", "check", "add"},
                                      sensor : Sensors, time : Times]]
    BY DEF TypeOK
  <2>4. ASSUME NEW tj \in Threads, call'[tj].at = "store", call'[tj].sensor \in Sound
        PROVE  call'[tj].time > stamp[call'[tj].sensor]
    <3>1. CASE tj = th
      BY <2>1, <2>2, <2>3, <2>4, <3>1 DEF Newer
    <3>2. CASE tj # th
      BY <2>2, <2>3, <2>4, <3>2 DEF KeptInv
    <3> QED
      BY <3>1, <3>2
  <2> QED
    BY <1>7, <2>4 DEF KeptInv, Report, kept
<1>8. ASSUME NEW th \in Threads, Store(th) PROVE KeptInv'
  <2> DEFINE r == call[th].sensor
             t == call[th].time
  <2>1. r \in Sensors /\ t \in Nat \ {0} /\ call[th].at = "store"
    BY <1>8, CallTypes DEF Store
  <2>2. /\ stamp' = IF r \in Unstamped THEN stamp ELSE [stamp EXCEPT ![StampOf(r)] = t]
        /\ from' = [from EXCEPT ![r] = t]
        /\ call' = [call EXCEPT ![th] = [call[th] EXCEPT !.at = "check"]]
        /\ UNCHANGED <<filePc, atOpen>>
    BY <1>8 DEF Store, Move
  <2>3. call \in [Threads -> {Idle} \cup [at : {"store", "check", "add"},
                                      sensor : Sensors, time : Times]]
    BY DEF TypeOK
  <2>4. r \in Sound => t > stamp[r]
    BY <2>1 DEF KeptInv
  <2>5. ASSUME NEW s \in Sensors \cap Unstamped PROVE stamp'[s] = 0
    <3>1. stamp[s] = 0
      BY DEF KeptInv
    <3>2. CASE r \in Unstamped
      BY <2>2, <3>1, <3>2
    <3>3. CASE r \notin Unstamped
      <4>1. StampOf(r) # s
        BY <2>1, <3>3, SoundFollowed, OwnNames
      <4> QED
        BY <1>n, <2>2, <3>1, <3>3, <4>1
    <3> QED
      BY <3>2, <3>3
  <2>6. ASSUME NEW s \in Sound, s # r
        PROVE  s \in Sensors /\ stamp'[s] = stamp[s] /\ from'[s] = from[s]
    <3>1. StampOf(r) # s /\ s \in Sensors
      BY <2>1, <2>6, SoundFollowed, OwnNames
    <3> QED
      BY <1>n, <2>2, <2>6, <3>1
  <2>7. r \in Sound => stamp'[r] = t /\ from'[r] = t
    <3>1. r \in Sound => r \notin Unstamped /\ StampOf(r) = r
      BY SoundFollowed, OwnNames
    <3> QED
      BY <1>n, <2>1, <2>2, <3>1
  <2>8. ASSUME NEW s \in Sound
        PROVE  from'[s] = stamp'[s] /\ (filePc' # "closed" => stamp'[s] >= atOpen'[s])
    <3>1. s \in Sensors /\ from[s] = stamp[s] /\ (filePc # "closed" => stamp[s] >= atOpen[s])
      BY SoundFollowed, OwnNames DEF KeptInv
    <3>2. CASE s = r
      BY <1>n, <2>1, <2>2, <2>4, <2>7, <3>1, <3>2
    <3>3. CASE s # r
      BY <1>n, <2>2, <2>6, <3>1, <3>3
    <3> QED
      BY <3>2, <3>3
  <2>9. ASSUME NEW tj \in Threads, call'[tj].at = "store", call'[tj].sensor \in Sound
        PROVE  call'[tj].time > stamp'[call'[tj].sensor]
    <3>1. tj # th
      BY <1>8, <2>1, <2>2, <2>3, <2>9 DEF Idle
    <3>2. call'[tj] = call[tj]
      BY <2>2, <2>3, <3>1
    <3>3. call[tj].sensor # r
      BY <2>1, <2>9, <3>1, <3>2, OwnThread
    <3> QED
      BY <2>6, <2>9, <3>2, <3>3 DEF KeptInv
  <2> QED
    BY <2>5, <2>8, <2>9 DEF KeptInv
<1>9. ASSUME NEW th \in Threads, Check(th) \/ Add(th) PROVE KeptInv'
  <2>1. call \in [Threads -> {Idle} \cup [at : {"store", "check", "add"},
                                      sensor : Sensors, time : Times]]
    BY DEF TypeOK
  <2>2. \A tj \in Threads : call'[tj].at = "store" => call'[tj] = call[tj]
    BY <1>9, <2>1 DEF Check, Add, Move, Idle
  <2>3. UNCHANGED <<stamp, from, filePc, atOpen>>
    BY <1>9 DEF Check, Add, kept
  <2> QED
    BY <2>2, <2>3 DEF KeptInv
<1>10. CASE UNCHANGED vars
  BY <1>0, <1>10 DEF vars, kept
<1> QED
  BY <1>1, <1>2, <1>3, <1>4, <1>5, <1>6, <1>7, <1>8, <1>9, <1>10
     DEF Next, File, Callback

-----------------------------------------------------------------------------
(* What is added to the file.                                              *)

(* What was read of an initial value is added to the entries of its sensor. *)
LEMMA AddInitialAdds ==
  ASSUME TypeOK, AddInitial
  PROVE  LET s == reading.sensor
             e == [stamp |-> IF reading.half = "stamp" THEN reading.seen ELSE stamp[s],
                   from |-> IF reading.half = "value" THEN reading.seen ELSE from[s]]
         IN  /\ s \in Sensors
             /\ reading.half \in {"stamp", "value"}
             /\ \A r \in Sensors : held[r] \subseteq held'[r]
             /\ AddedAs(s) = s => e \in held'[s]
<1> DEFINE s == reading.sensor
           e == [stamp |-> IF reading.half = "stamp" THEN reading.seen ELSE stamp[s],
                 from |-> IF reading.half = "value" THEN reading.seen ELSE from[s]]
<1>1. s \in Sensors /\ reading.half \in {"stamp", "value"}
  BY DEF AddInitial, TypeOK
<1>2. held' = [held EXCEPT ![AddedAs(s)] = @ \cup {e}]
  BY DEF AddInitial
<1>3. held \in [Sensors -> SUBSET Entries]
  BY DEF TypeOK
<1> HIDE DEF e, s
<1>4. \A r \in Sensors : held[r] \subseteq held'[r]
  BY <1>2, <1>3
<1>5. AddedAs(s) = s => e \in held'[s]
  BY <1>1, <1>2, <1>3
<1> QED
  BY <1>1, <1>4, <1>5 DEF e, s

(* A callback adds its own report to the entries of its sensor. *)
LEMMA AddAdds ==
  ASSUME TypeOK, NEW th \in Threads, Add(th)
  PROVE  LET s == call[th].sensor
             e == [stamp |-> IF s \in Unstamped THEN 0 ELSE call[th].time,
                   from |-> call[th].time]
         IN  /\ \A r \in Sensors : held[r] \subseteq held'[r]
             /\ filePc # "closed" => e \in held'[s]
<1> DEFINE s == call[th].sensor
           e == [stamp |-> IF s \in Unstamped THEN 0 ELSE call[th].time,
                 from |-> call[th].time]
<1>1. s \in Sensors
  BY CallTypes DEF Add
<1>2. IF filePc = "closed" THEN held' = held ELSE held' = [held EXCEPT ![s] = @ \cup {e}]
  BY DEF Add
<1>3. held \in [Sensors -> SUBSET Entries]
  BY DEF TypeOK
<1> HIDE DEF e, s
<1>4. \A r \in Sensors : held[r] \subseteq held'[r]
  BY <1>2, <1>3
<1>5. filePc # "closed" => e \in held'[s]
  BY <1>1, <1>2, <1>3
<1> QED
  BY <1>4, <1>5 DEF e, s

(* A step loses no value there was when the file was made. *)
LEMMA InitialStep ==
  TypeOK /\ FileInv /\ KeptInv /\ InitialInv /\ [Next]_vars => InitialInv'
<1> SUFFICES ASSUME TypeOK, FileInv, KeptInv, InitialInv, [Next]_vars,
                    NEW s \in Sound, (filePc # "closed" /\ atOpen[s] # 0)'
             PROVE  InitialFollowed(s)'
  BY DEF InitialInv
<1> USE DEF InitialFollowed
<1>n. /\ s \in Sensors /\ s # "none" /\ AddedAs(s) = s /\ s \notin Unstamped
      /\ stamp[s] \in Nat /\ atOpen[s] \in Nat
      /\ filePc # "closed" => stamp[s] >= atOpen[s]
  BY NatStamps, SoundFollowed, OwnNames DEF KeptInv
<1>h. filePc # "closed" /\ atOpen[s] # 0 => InitialFollowed(s)
  BY DEF InitialInv
<1>0. ASSUME UNCHANGED <<filePc, pending, reading, atOpen>>, held[s] \subseteq held'[s]
      PROVE  InitialFollowed(s)'
  BY <1>0, <1>h
<1>1. CASE OpenFile
  BY <1>1, <1>n DEF OpenFile
<1>2. ASSUME NEW r \in Sensors, ReadHalf(r)
      PROVE  InitialFollowed(s)'
  <2>1. UNCHANGED <<filePc, held, atOpen>> /\ filePc = "replay" /\ reading = Nothing
        /\ pending' = pending \ {r}
    BY <1>2 DEF ReadHalf
  <2>2. CASE r # s
    BY <2>1, <2>2, <1>h, <1>n DEF Nothing
  <2>3. CASE r = s
    <3>1. stamp[s] # 0
      BY <2>1, <1>n
    <3>2. \/ reading' = [sensor |-> s, half |-> "stamp", seen |-> stamp[s]]
          \/ reading' = [sensor |-> s, half |-> "value", seen |-> from[s]]
      BY <1>2, <2>3, <3>1 DEF ReadHalf, ReplayDue
    <3> QED
      BY <2>1, <3>2, <1>n
  <2> QED
    BY <2>2, <2>3
<1>3. CASE AddInitial
  <2>1. UNCHANGED <<filePc, pending, atOpen>> /\ reading' = Nothing
    BY <1>3 DEF AddInitial
  <2>2. held[s] \subseteq held'[s]
    BY <1>3, <1>n, AddInitialAdds
  <2>3. ASSUME reading.sensor = s, reading.half = "stamp" => reading.seen >= atOpen[s]
        PROVE  \E e \in held'[s] : e.stamp >= atOpen[s]
    BY <1>3, <1>n, <2>1, <2>3, AddInitialAdds
  <2> QED
    BY <1>h, <2>1, <2>2, <2>3
<1>4. CASE EnterRecording
  BY <1>4, <1>h, <1>n DEF EnterRecording
<1>5. CASE LeaveRecording
  BY <1>0, <1>5 DEF LeaveRecording
<1>6. CASE CloseFile
  BY <1>6 DEF CloseFile
<1>7. ASSUME NEW th \in Threads, NEW r \in SensorsOf(th), NEW t \in Times, Report(th, r, t)
      PROVE  InitialFollowed(s)'
  BY <1>0, <1>7 DEF Report
<1>8. ASSUME NEW th \in Threads, Store(th) \/ Check(th)
      PROVE  InitialFollowed(s)'
  BY <1>0, <1>8 DEF Store, Check
<1>9. ASSUME NEW th \in Threads, Add(th)
      PROVE  InitialFollowed(s)'
  <2>1. UNCHANGED <<filePc, pending, reading, atOpen>>
    BY <1>9 DEF Add
  <2> QED
    BY <1>0, <1>9, <1>n, <2>1, AddAdds
<1>10. CASE UNCHANGED vars
  BY <1>0, <1>10 DEF vars
<1> QED
  BY <1>1, <1>2, <1>3, <1>4, <1>5, <1>6, <1>7, <1>8, <1>9, <1>10
     DEF Next, File, Callback

(* Only a store of the sensor changes what is newest. *)
LEMMA StoreStores ==
  ASSUME TypeOK, NEW th \in Threads, Store(th), NEW s \in Followed
  PROVE  /\ s # call[th].sensor => Latest(s)' = Latest(s)
         /\ s # call[th].sensor => stamp'[s] = stamp[s] /\ from'[s] = from[s]
         /\ s = call[th].sensor => Latest(s).from' = call[th].time
<1> DEFINE r == call[th].sensor
           t == call[th].time
<1>1. /\ r \in Sensors /\ t \in Nat \ {0} /\ s \in Sensors
      /\ stamp \in [Sensors -> Nat] /\ from \in [Sensors -> Nat]
  BY CallTypes, OwnNames, NatStamps DEF Store
<1>2. /\ stamp' = IF r \in Unstamped THEN stamp ELSE [stamp EXCEPT ![StampOf(r)] = t]
      /\ from' = [from EXCEPT ![r] = t]
  BY DEF Store
<1>3. StampOf(s) = s /\ (s # r => StampOf(r) # s)
  BY <1>1, OwnNames
<1>4. s # r => stamp'[s] = stamp[s] /\ from'[s] = from[s]
  BY <1>1, <1>2, <1>3
<1>5. s # r => Latest(s)' = Latest(s)
  BY <1>4 DEF Latest
<1>6. s = r => Latest(s).from' = t
  BY <1>1, <1>2, <1>3 DEF Latest
<1> QED
  BY <1>4, <1>5, <1>6

(* A step loses no newest value. *)
LEMMA NewestStep ==
  TypeOK /\ FileInv /\ KeptInv /\ NewestInv /\ [Next]_vars => NewestInv'
<1> SUFFICES ASSUME TypeOK, FileInv, KeptInv, NewestInv, [Next]_vars,
                    NEW s \in Followed, s \notin touched', Latest(s).from' # 0
             PROVE  (filePc = "replay" => Replayed(s))' /\ (recording => Recorded(s))'
  BY DEF NewestInv
<1> DEFINE Goal == (filePc = "replay" => Replayed(s))' /\ (recording => Recorded(s))'
<1>n. /\ s \in Sensors /\ s # "none" /\ AddedAs(s) = s
      /\ s \in Sound <=> s \notin Unstamped
  BY OwnNames
<1>k. IF s \in Unstamped THEN stamp[s] = 0 ELSE from[s] = stamp[s]
  BY <1>n DEF KeptInv
<1>h. s \notin touched /\ Latest(s).from # 0 =>
        (filePc = "replay" => Replayed(s)) /\ (recording => Recorded(s))
  BY DEF NewestInv
<1>l. UNCHANGED kept => Latest(s)' = Latest(s)
  BY DEF kept, Latest
<1>1. CASE OpenFile
  BY <1>1, <1>n DEF OpenFile, FileInv, Replayed
<1>2. ASSUME NEW r \in Sensors, ReadHalf(r) PROVE Goal
  <2>1. /\ UNCHANGED <<kept, filePc, held, recording, touched>>
        /\ filePc = "replay" /\ reading = Nothing /\ pending' = pending \ {r} /\ ~recording
    BY <1>2 DEF ReadHalf, FileInv
  <2>2. CASE r # s
    BY <2>1, <2>2, <1>h, <1>l, <1>n DEF Nothing, Replayed
  <2>3. CASE r = s
    <3>1. ReplayDue(s)
      BY <2>1, <1>k, <1>l DEF ReplayDue, Latest
    <3>2. \/ reading' = [sensor |-> s, half |-> "stamp", seen |-> stamp[s]]
          \/ reading' = [sensor |-> s, half |-> "value", seen |-> from[s]]
      BY <1>2, <2>3, <3>1 DEF ReadHalf
    <3> QED
      BY <2>1, <3>2, <1>n DEF Replayed, kept
  <2> QED
    BY <2>2, <2>3
<1>3. CASE AddInitial
  <2>1. UNCHANGED <<kept, filePc, recording, pending, touched>> /\ reading # Nothing
    BY <1>3 DEF AddInitial
  <2>2. filePc = "replay" /\ ~recording
    BY <2>1 DEF FileInv
  <2>3. held[s] \subseteq held'[s]
    BY <1>3, <1>n, AddInitialAdds
  <2>4. ASSUME reading.sensor = s,
               reading.half = "stamp" => reading.seen = stamp[s],
               reading.half = "value" => reading.seen = from[s]
        PROVE  Latest(s) \in held'[s]
    <3>1. [stamp |-> stamp[s], from |-> from[s]] \in held'[s]
      BY <1>3, <1>n, <2>4, AddInitialAdds
    <3>2. Latest(s) = [stamp |-> stamp[s], from |-> from[s]]
      BY <1>k DEF Latest
    <3> QED
      BY <3>1, <3>2
  <2>5. (Latest(s) \in held[s])' <=> Latest(s) \in held'[s]
    BY <1>l, <2>1
  <2> QED
    BY <1>h, <1>l, <2>1, <2>2, <2>3, <2>4, <2>5 DEF Replayed
<1>4. CASE EnterRecording
  BY <1>4, <1>h, <1>l, <1>n DEF EnterRecording, Replayed, Recorded, Nothing
<1>5. CASE LeaveRecording
  BY <1>5 DEF LeaveRecording, FileInv
<1>6. CASE CloseFile
  BY <1>6 DEF CloseFile
<1>7. ASSUME NEW th \in Threads, NEW r \in SensorsOf(th), NEW t \in Times, Report(th, r, t)
      PROVE  Goal
  <2>1. UNCHANGED <<kept, filePc, recording, held, pending, reading, touched>>
    BY <1>7 DEF Report
  <2>2. \A tj \in Threads : call[tj].at \in {"check", "add"} => call'[tj] = call[tj]
    BY <1>7 DEF Report, Move, Idle, TypeOK
  <2> QED
    BY <1>h, <1>l, <2>1, <2>2 DEF Replayed, Recorded, kept
<1>8. ASSUME NEW th \in Threads, Store(th) PROVE Goal
  <2>1. UNCHANGED <<filePc, recording, held, pending, reading>>
    BY <1>8 DEF Store
  <2>2. /\ call[th].at = "store" /\ touched \subseteq touched'
        /\ filePc = "replay" => call[th].sensor \in touched'
        /\ call' = [call EXCEPT ![th] = [call[th] EXCEPT !.at = "check"]]
        /\ call \in [Threads -> {Idle} \cup [at : {"store", "check", "add"},
                                             sensor : Sensors, time : Times]]
    BY <1>8 DEF Store, Move, TypeOK
  <2>3. CASE s = call[th].sensor
    <3>1. filePc # "replay"
      BY <2>2, <2>3
    <3>2. /\ call'[th].sensor = s
          /\ call'[th].at = "check"
          /\ call'[th].time = Latest(s).from'
      BY <1>8, <2>2, <2>3, StoreStores DEF Idle
    <3> QED
      BY <2>1, <3>1, <3>2 DEF Recorded
  <2>4. CASE s # call[th].sensor
    <3>1. Latest(s)' = Latest(s) /\ stamp'[s] = stamp[s] /\ from'[s] = from[s]
      BY <1>8, <2>4, StoreStores
    <3>2. \A tj \in Threads : call[tj].at \in {"check", "add"} => call'[tj] = call[tj]
      BY <2>2
    <3>3. s \notin touched /\ Latest(s).from # 0
      BY <2>2, <3>1
    <3> QED
      BY <1>h, <2>1, <3>1, <3>2, <3>3 DEF Replayed, Recorded
  <2> QED
    BY <2>3, <2>4
<1>9. ASSUME NEW th \in Threads, Check(th) PROVE Goal
  <2>1. UNCHANGED <<kept, filePc, recording, held, pending, reading, touched>>
    BY <1>9 DEF Check
  <2>2. recording =>
          \A tj \in Threads : call[tj].at \in {"check", "add"} =>
            /\ call'[tj].at \in {"check", "add"}
            /\ call'[tj].sensor = call[tj].sensor /\ call'[tj].time = call[tj].time
    BY <1>9 DEF Check, Move, TypeOK, Idle
  <2> QED
    BY <1>h, <1>l, <2>1, <2>2 DEF Replayed, Recorded, kept
<1>10. ASSUME NEW th \in Threads, Add(th) PROVE Goal
  <2>1. UNCHANGED <<kept, filePc, recording, pending, reading, touched>>
    BY <1>10 DEF Add
  <2>2. held[s] \subseteq held'[s]
    BY <1>10, <1>n, AddAdds
  <2>3. \A tj \in Threads : tj # th => call'[tj] = call[tj]
    BY <1>10 DEF Add, Move, TypeOK
  <2>4. ASSUME recording, call[th].sensor = s, call[th].time = Latest(s).from
        PROVE  Latest(s) \in held'[s]
    <3>1. filePc # "closed"
      BY <2>4 DEF FileInv
    <3>2. [stamp |-> IF s \in Unstamped THEN 0 ELSE call[th].time,
           from |-> call[th].time] \in held'[s]
      BY <1>10, <2>4, <3>1, AddAdds
    <3>3. Latest(s) = [stamp |-> IF s \in Unstamped THEN 0 ELSE call[th].time,
                       from |-> call[th].time]
      BY <2>4 DEF Latest
    <3> QED
      BY <3>2, <3>3
  <2>5. (Latest(s) \in held[s])' <=> Latest(s) \in held'[s]
    BY <1>l, <2>1
  <2>6. (filePc = "replay" => Replayed(s))'
    BY <1>h, <1>l, <2>1, <2>2, <2>5 DEF Replayed, kept
  <2>7. (recording => Recorded(s))'
    BY <1>h, <1>l, <2>1, <2>2, <2>3, <2>4, <2>5 DEF Recorded
  <2> QED
    BY <2>6, <2>7
<1>11. CASE UNCHANGED vars
  BY <1>11, <1>h, <1>l DEF vars, kept, Replayed, Recorded
<1> QED
  BY <1>1, <1>2, <1>3, <1>4, <1>5, <1>6, <1>7, <1>8, <1>9, <1>10, <1>11
     DEF Next, File, Callback

(* The constructor establishes the invariant. *)
LEMMA InitInv == Init => ValuesInv
<1> SUFFICES ASSUME Init PROVE ValuesInv
  OBVIOUS
<1> USE DEF Init, NoTime
<1>1. TypeOK
  BY DEF TypeOK, Entries
<1>2. FileInv
  BY DEF FileInv
<1>3. KeptInv
  <2>1. \A th \in Threads : call[th].at # "store"
    BY DEF Idle
  <2>2. \A s \in Sound : s \in Sensors
    BY SoundFollowed, OwnNames
  <2> QED
    BY <2>1, <2>2 DEF KeptInv
<1>4. InitialInv
  BY DEF InitialInv
<1>5. NewestInv
  BY DEF NewestInv
<1> QED
  BY <1>1, <1>2, <1>3, <1>4, <1>5 DEF ValuesInv

(* What ValuesInv says holds of every state, for any sensors and times.    *)
THEOREM ValuesInvariant == Spec => []ValuesInv
<1>1. ValuesInv /\ [Next]_vars => ValuesInv'
  BY TypeStep, FileStep, KeptStep, InitialStep, NewestStep DEF ValuesInv
<1> QED
  BY <1>1, InitInv, PTL DEF Spec

(* Every variable keeps the kind of value the code gives it. *)
THEOREM ValuesTypes == Spec => []TypeOK
<1>1. ValuesInv => TypeOK
  BY DEF ValuesInv
<1> QED
  BY <1>1, ValuesInvariant, PTL

(* A recording holds, for every sensor that had a value when its file was  *)
(* made, an entry that is not older (377-573).                             *)
THEOREM ValuesHoldInitial == Spec => []HoldsInitial
<1>1. ValuesInv => HoldsInitial
  <2> SUFFICES ASSUME ValuesInv, recording, NEW s \in Sound, atOpen[s] # 0
               PROVE  \E e \in held[s] : e.stamp >= atOpen[s]
    BY DEF HoldsInitial
  <2>1. pending = {} /\ reading = Nothing /\ filePc = "open"
    BY DEF ValuesInv, FileInv
  <2>2. s # "none"
    BY SoundFollowed, OwnNames
  <2>3. InitialFollowed(s)
    BY <2>1 DEF ValuesInv, InitialInv
  <2> QED
    BY <2>1, <2>2, <2>3 DEF InitialFollowed, Nothing
<1> QED
  BY <1>1, ValuesInvariant, PTL

(* While recording, the newest value of a sensor is in the file unless its *)
(* callback is under way, or stored it while the initial values were being *)
(* added (377-573).                                                        *)
THEOREM ValuesHoldNewest == Spec => []NewestIsHeld
<1>1. ValuesInv => NewestIsHeld
  <2> SUFFICES ASSUME ValuesInv, recording, NEW s \in Followed,
                      ~Busy(s), s \notin touched, Latest(s).from # 0
               PROVE  Latest(s) \in held[s]
    BY DEF NewestIsHeld, Followed
  <2>1. Recorded(s)
    BY DEF ValuesInv, NewestInv
  <2> QED
    BY <2>1 DEF Recorded, Busy
<1> QED
  BY <1>1, ValuesInvariant, PTL
=============================================================================
