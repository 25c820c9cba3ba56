--------------------------- MODULE FileWriterProofs ---------------------------
(***************************************************************************)
(* Proofs about FileWriter, for any clock, streams, requests, limits and   *)
(* number of sensor threads.                                               *)
(*                                                                         *)
(* Between two frames the state alone says whether a file is open.  Inside *)
(* a frame it does not: another thread may set REQUEST_STOP at any moment, *)
(* and REQUEST_START over a REQUEST_STOP it did not expect.  The invariant *)
(* below therefore says, for each place the data thread can be in, which   *)
(* states are possible there, and rests on one fact: a start half made     *)
(* found the writer idle, and until it is committed no file can be opened. *)
(***************************************************************************)
EXTENDS FileWriter, TLAPS

(* Where the data thread has a file, and which states it can meet there.   *)
FileAt(pc) ==
  /\ pc = "open"   => file = NoFile /\ state \in {"REQUEST_START", "REQUEST_STOP"}
  /\ pc = "opened" => file # NoFile /\ state \in {"REQUEST_START", "REQUEST_STOP"}
  /\ pc \in {"record", "size", "full", "duration"}
       => file # NoFile /\ state \in {"RECORDING", "REQUEST_STOP"}
  /\ pc = "reset"  => file # NoFile /\ state \in {"REQUEST_START", "REQUEST_STOP"}
  /\ pc = "close"  => \/ state = "REQUEST_STOP"
                      \/ state = "REQUEST_START" /\ file = NoFile
  /\ pc = "closed" => file = NoFile /\ state \in {"REQUEST_START", "REQUEST_STOP"}
  /\ pc = "notify" => file = NoFile /\ state # "RECORDING"
  /\ pc = "wait"   => /\ state = "RECORDING" => file # NoFile
                      /\ state \in {"IDLE", "REQUEST_START"} => file = NoFile

(* The start time reported is that of the open file.                       *)
TimeReported ==
  /\ dataPc \in {"opened", "record", "size", "full", "duration"}
       => fileTime = file.start
  /\ dataPc = "wait" /\ state = "RECORDING" => fileTime = file.start

(* A start that has been checked but not committed.                        *)
StartPending ==
  serverPc = "start" =>
    /\ file = NoFile
    /\ state \in {"IDLE", "REQUEST_STOP"}
    /\ dataPc \in {"wait", "close", "closed", "notify"}

(* Only the data thread enters IDLE, with the file closed.                 *)
IdleAt == state = "IDLE" => file = NoFile /\ dataPc \in {"wait", "notify"}

(* A file is opened for the request being served, at or after its start.   *)
StartReached == dataPc = "open" => lastTimestamp >= request.start

(* What the open file has in common with the stream.                       *)
FileFollows ==
  /\ dataPc = "opened" =>
       file.frames = 0 /\ file.size = frameSize /\ file.digitiser = digitiser
  /\ dataPc \in {"size", "full", "duration"} =>
       file.last = lastTimestamp /\ file.size = frameSize /\ file.digitiser = digitiser
  /\ dataPc = "wait" /\ state = "RECORDING" =>
       /\ file.last = lastTimestamp
       /\ file.size = frameSize
       /\ file.digitiser = digitiser
       /\ file.last < stopTime

(* The stop time is that of the open file, which is not past it while      *)
(* another frame may come.                                                 *)
StopFixed ==
  /\ file # NoFile => stopTime = IF file.request.duration # 0
                                 THEN file.start + file.request.duration ELSE Forever
  /\ Writing /\ file.frames > 0 => file.last < stopTime

IInv ==
  /\ TypeOK
  /\ FileAt(dataPc)
  /\ TimeReported
  /\ StartPending
  /\ IdleAt
  /\ StartReached
  /\ FileFollows
  /\ RequestHonoured
  /\ UniformFile
  /\ StopFixed
  /\ IdleIsTold

-----------------------------------------------------------------------------
(* A frame added to a file leaves a file, of the same stream and request.  *)
LEMMA FrameAdded ==
  ASSUME NEW f \in Files, NEW t \in Times
  PROVE  LET g == [f EXCEPT !.frames = @ + 1, !.last = t]
         IN  /\ g \in Files
             /\ g # NoFile
             /\ g.start = f.start
             /\ g.size = f.size
             /\ g.digitiser = f.digitiser
             /\ g.request = f.request
             /\ g.last = t
<1> DEFINE g == [f EXCEPT !.frames = @ + 1, !.last = t]
<1>1. f.frames + 1 \in Nat
  BY DEF Files
<1>2. g \in Files
  BY <1>1 DEF Files
<1>3. QED
  BY <1>2, NoFileAssumption DEF Files

(* With no change noticed the next frame follows at the old interval.      *)
LEMMA SteadyInterval ==
  ASSUME NEW delta \in Int, frameInterval \in Int, ~IntervalChanged(delta)
  PROVE  Abs(frameInterval - delta) <= 1
BY DEF IntervalChanged, Abs

LEMMA InitIInv == Init => IInv
<1> SUFFICES ASSUME Init PROVE IInv
  OBVIOUS
<1> USE TimesAssumption DEF Init
<1>1. TypeOK
  <2>1. \A t, u \in Times : t - u \in Int
    OBVIOUS
  <2>2. stopTime \in Int /\ frameInterval \in Int
    BY <2>1
  <2>3. state \in States /\ file \in Files \cup {NoFile} /\ told = "nothing"
    BY DEF States
  <2>4. readerPc \in [Readers -> {"ready", "use"}]
    OBVIOUS
  <2>5. fileTime \in Int /\ lastPrint \in Int
    OBVIOUS
  <2>6. /\ request \in Requests /\ lastTimestamp \in Times
        /\ frameSize \in FrameSizes /\ digitiser \in Digitisers
    OBVIOUS
  <2>7. /\ dataPc = "wait" /\ serverPc = "ready" /\ mainPc = "run"
        /\ streamChanged \in BOOLEAN /\ crashed \in BOOLEAN
    OBVIOUS
  <2>8. QED
    BY <2>2, <2>3, <2>4, <2>5, <2>6, <2>7 DEF TypeOK
<1>2. QED
  BY <1>1 DEF IInv, FileAt, TimeReported, StartPending, IdleAt, StartReached,
    FileFollows, RequestHonoured, UniformFile, StopFixed, Writing, IdleIsTold

LEMMA StepIInv == IInv /\ [Next]_vars => IInv'
<1> SUFFICES ASSUME IInv, [Next]_vars PROVE IInv'
  OBVIOUS
<1> USE TimesAssumption, LimitsAssumption, NoFileAssumption
<1> USE DEF IInv, TypeOK, States, FileAt, TimeReported, StartPending, IdleAt, StartReached,
    FileFollows, RequestHonoured, UniformFile, StopFixed, Writing, IdleIsTold,
    DataStep, ServerStep, MainStep, SensorStep, SetState, shared, data, stream
<1>1. CASE Receive
  <2> PICK ts \in Times, size \in FrameSizes, dig \in Digitisers : GetFrame(ts, size, dig)
    BY <1>1 DEF Receive
  <2> DEFINE delta == ts - lastTimestamp
  <2>1. delta \in Int /\ delta = ts - lastTimestamp
    OBVIOUS
  <2> HIDE DEF delta
  <2>2. /\ ~crashed
        /\ dataPc = "wait"
        /\ dataPc' = Branch(ts)
        /\ frameInterval' = IF IntervalChanged(delta) THEN delta ELSE frameInterval
        /\ streamChanged' = (IntervalChanged(delta) \/ FormatChanged(size, dig))
        /\ frameSize' = size
        /\ digitiser' = dig
        /\ lastTimestamp' = ts
        /\ lastPrint' \in Int
        /\ UNCHANGED <<state, fileTime, told, file, stopTime, request, serverPc,
                       mainPc, readerPc, crashed>>
    BY <2>1 DEF GetFrame
  <2>3. TypeOK'
    BY <2>1, <2>2 DEF Branch
  <2>4. FileAt(dataPc)' /\ TimeReported' /\ StartPending' /\ IdleAt'
    BY <2>2 DEF Branch, TooEarly
  <2>5. StartReached'
    <3>1. ts \in Int /\ request.start \in Int
      BY DEF Requests
    <3>2. dataPc' = "open" => ~TooEarly(ts) /\ state = "REQUEST_START"
      BY <2>2 DEF Branch
    <3>3. QED
      BY <2>2, <3>1, <3>2 DEF TooEarly
  <2>6. FileFollows' /\ RequestHonoured' /\ IdleIsTold'
    BY <2>2 DEF Branch, TooEarly
  <2>7. ASSUME Writing' PROVE /\ file' = file
                             /\ file.size = frameSize' /\ file.digitiser = digitiser'
                             /\ file.last = lastTimestamp /\ file.last < stopTime
                             /\ ~IntervalChanged(delta) /\ frameInterval' = frameInterval
    BY <2>2, <2>7 DEF Branch, TooEarly, FormatChanged
  <2>8. UniformFile' /\ StopFixed'
    BY <2>1, <2>2, <2>7, SteadyInterval
  <2> QED
    BY <2>3, <2>4, <2>5, <2>6, <2>8
<1>2. CASE OpenFile
  BY <1>2 DEF OpenFile, Files, Requests
<1>3. CASE EnterRecording
  <2>1. TypeOK'
    BY <1>3 DEF EnterRecording
  <2>2. FileAt(dataPc)' /\ TimeReported' /\ StartPending' /\ IdleAt' /\ StartReached'
    BY <1>3 DEF EnterRecording
  <2>3. FileFollows' /\ StopFixed' /\ IdleIsTold'
    BY <1>3 DEF EnterRecording
  <2>4. RequestHonoured'
    BY <1>3 DEF EnterRecording
  <2>5. UniformFile'
    BY <1>3 DEF EnterRecording
  <2> QED
    BY <2>1, <2>2, <2>3, <2>4, <2>5
<1>4. CASE RollOnChange
  BY <1>4 DEF RollOnChange
<1>5. CASE AddFrame
  <2>1. file \in Files /\ lastTimestamp \in Times
    BY <1>5 DEF AddFrame
  <2>2. file' = [file EXCEPT !.frames = @ + 1, !.last = lastTimestamp]
    BY <1>5 DEF AddFrame
  <2>3. /\ file' \in Files
        /\ file' # NoFile
        /\ file'.start = file.start
        /\ file'.size = file.size
        /\ file'.digitiser = file.digitiser
        /\ file'.request = file.request
        /\ file'.last = lastTimestamp
    BY <2>1, <2>2, FrameAdded
  <2>4. TypeOK'
    BY <1>5, <2>3 DEF AddFrame
  <2>5. FileAt(dataPc)' /\ TimeReported' /\ StartPending' /\ IdleAt' /\ StartReached'
    BY <1>5, <2>3 DEF AddFrame
  <2>6. FileFollows' /\ RequestHonoured' /\ UniformFile' /\ StopFixed' /\ IdleIsTold'
    BY <1>5, <2>3 DEF AddFrame
  <2> QED
    BY <2>4, <2>5, <2>6
<1>6. CASE CheckSize
  BY <1>6 DEF CheckSize, TooLarge
<1>7. CASE RollOnSize
  BY <1>7 DEF RollOnSize
<1>8. CASE ResetFile
  BY <1>8 DEF ResetFile
<1>9. CASE CheckDuration
  BY <1>9 DEF CheckDuration, StopDue
<1>10. CASE CloseFile
  BY <1>10 DEF CloseFile
<1>11. CASE EnterIdle
  BY <1>11 DEF EnterIdle
<1>12. CASE NotifyStopped
  BY <1>12 DEF NotifyStopped
<1>13. ASSUME NEW r \in Requests, StartCheck(r) PROVE IInv'
  BY <1>13 DEF StartCheck, MayStart
<1>14. CASE StartCommit
  BY <1>14 DEF StartCommit
<1>15. CASE StopCheck
  BY <1>15 DEF StopCheck
<1>16. CASE StopCommit
  BY <1>16 DEF StopCommit
<1>17. CASE SizeCheck
  BY <1>17 DEF SizeCheck
<1>18. CASE SizeUse
  BY <1>18 DEF SizeUse
<1>19. CASE Shutdown
  BY <1>19 DEF Shutdown
<1>20. CASE ShutdownStop
  BY <1>20 DEF ShutdownStop
<1>21. CASE FileClosed
  BY <1>21 DEF FileClosed
<1>22. ASSUME NEW r \in Readers, SensorCheck(r) PROVE IInv'
  BY <1>22 DEF SensorCheck
<1>23. ASSUME NEW r \in Readers, SensorUse(r) PROVE IInv'
  BY <1>23 DEF SensorUse
<1>24. CASE UNCHANGED vars
  BY <1>24 DEF vars
<1>25. QED
  BY <1>1, <1>2, <1>3, <1>4, <1>5, <1>6, <1>7, <1>8, <1>9, <1>10, <1>11, <1>12, <1>13, <1>14, <1>15, <1>16, <1>17, <1>18, <1>19, <1>20, <1>21, <1>22, <1>23, <1>24 DEF Next, Process, Server, Main, Sensors

-----------------------------------------------------------------------------
(* The invariant holds in every reachable state.                           *)
THEOREM WriterInvariant == Spec => []IInv
BY InitIInv, StepIInv, PTL DEF Spec

(* Every variable keeps its type.                                          *)
THEOREM WriterTypes == Spec => []TypeOK
<1>1. IInv => TypeOK
  BY DEF IInv
<1>2. QED
  BY <1>1, WriterInvariant, PTL

(* The data thread always has the file it is about to use, and between two *)
(* frames the state says whether one is open.                              *)
THEOREM WriterFileMatchesState == Spec => []FileMatchesState
<1>1. IInv => FileMatchesState
  BY DEF IInv, FileAt, TimeReported, FileMatchesState
<1>2. QED
  BY <1>1, WriterInvariant, PTL

(* A file is made for the request being served, not before its start.      *)
THEOREM WriterHonoursRequest == Spec => []RequestHonoured
<1>1. IInv => RequestHonoured
  BY DEF IInv
<1>2. QED
  BY <1>1, WriterInvariant, PTL

(* The frames of a file share its size and digitiser, one interval apart.  *)
THEOREM WriterFilesUniform == Spec => []UniformFile
<1>1. IInv => UniformFile
  BY DEF IInv
<1>2. QED
  BY <1>1, WriterInvariant, PTL

(* No frame follows, in a file, one that reached the file's stop time.     *)
THEOREM WriterStopsFile == Spec => []NoFrameAfterStop
<1>1. IInv => NoFrameAfterStop
  BY DEF IInv, FileAt, StopFixed, RequestHonoured, Writing, NoFrameAfterStop
<1>2. QED
  BY <1>1, WriterInvariant, PTL

(* A writer settled in IDLE has told its clients so.                       *)
THEOREM WriterTellsIdle == Spec => []IdleIsTold
<1>1. IInv => IdleIsTold
  BY DEF IInv
<1>2. QED
  BY <1>1, WriterInvariant, PTL

-----------------------------------------------------------------------------
(* No step takes a stop in force back.                                     *)
LEMMA StopStep ==
  ASSUME IInv, [Next]_vars, StopInForce
  PROVE  StopInForce' \/ (state' = "IDLE" /\ file' = NoFile)
<1> USE DEF StopInForce, DataStep, ServerStep, MainStep, SensorStep, SetState, shared, data
<1>1. CASE Receive
  <2>1. \A ts : Branch(ts) = "close"
    BY DEF Branch, TooEarly
  <2> QED
    BY <1>1, <2>1 DEF Receive, GetFrame
<1>2. CASE Process
  <2>1. CASE CloseFile
    BY <2>1 DEF CloseFile
  <2>2. CASE EnterIdle
    BY <2>2 DEF EnterIdle, IInv, FileAt
  <2> QED
    BY <1>2, <2>1, <2>2 DEF Process, OpenFile, EnterRecording, RollOnChange, AddFrame,
       CheckSize, RollOnSize, ResetFile, CheckDuration, NotifyStopped
<1>3. CASE Server
  BY <1>3 DEF Server, StartCheck, MayStart, StartCommit, StopCheck, StopCommit, SizeCheck,
     SizeUse
<1>4. CASE Main
  BY <1>4 DEF Main, Shutdown, ShutdownStop, FileClosed
<1>5. CASE Sensors
  BY <1>5 DEF Sensors, SensorCheck, SensorUse
<1>6. CASE UNCHANGED vars
  BY <1>6 DEF vars
<1> QED
  BY <1>1, <1>2, <1>3, <1>4, <1>5, <1>6 DEF Next

(* A stop in force is not undone before the file is closed.                *)
THEOREM WriterStopPrevails == Spec => StopPrevails
<1>1. IInv /\ [Next]_vars =>
        [StopInForce => StopInForce' \/ (state' = "IDLE" /\ file' = NoFile)]_vars
  BY StopStep
<1>2. QED
  BY <1>1, WriterInvariant, PTL DEF Spec, StopPrevails

-----------------------------------------------------------------------------
(* Every step of the writer is a step of a Recorder, or leaves it alone.   *)
LEMMA StepRefines ==
  ASSUME IInv, [Next]_vars
  PROVE  [Promise!Next]_(Promise!vars)
<1> USE DEF Promise!vars, DataStep, ServerStep, MainStep, SensorStep, SetState,
    shared, data, IInv, FileAt
<1>1. CASE OpenFile
  <2>1. /\ state # "IDLE" /\ file = NoFile
        /\ lastTimestamp \in Times /\ frameSize \in FrameSizes
        /\ digitiser \in Digitisers /\ lastTimestamp >= request.start
        /\ UNCHANGED <<state, request>>
    BY <1>1 DEF OpenFile, TypeOK, StartReached
  <2>2. file' = [start |-> lastTimestamp, size |-> frameSize,
                 digitiser |-> digitiser, request |-> request,
                 frames |-> 0, last |-> lastTimestamp]
    BY <1>1 DEF OpenFile
  <2>3. Promise!Open
    BY <2>1, <2>2 DEF Promise!Open
  <2>4. QED
    BY <2>3 DEF Promise!Next
<1>2. CASE AddFrame
  <2>1. Promise!Write
    BY <1>2 DEF AddFrame, TypeOK, Promise!Write
  <2>2. QED
    BY <2>1 DEF Promise!Next
<1>3. CASE ResetFile
  BY <1>3 DEF ResetFile, Promise!Next, Promise!Close
<1>4. CASE CloseFile
  BY <1>4 DEF CloseFile, Promise!Next, Promise!Close
<1>5. CASE EnterIdle
  BY <1>5 DEF EnterIdle, Promise!Next, Promise!End
<1>6. ASSUME NEW r \in Requests, StartCheck(r)
      PROVE  Promise!Propose
  BY <1>6 DEF StartCheck, MayStart, Promise!Propose
<1>7. CASE StartCommit
  BY <1>7 DEF StartCommit, Promise!Next, Promise!Begin
<1>8. CASE StopCommit
  BY <1>8 DEF StopCommit, Promise!Next, Promise!Begin
<1>9. CASE ShutdownStop
  BY <1>9 DEF ShutdownStop, Promise!Next, Promise!Begin
<1>10. CASE EnterRecording \/ RollOnChange \/ RollOnSize \/ CheckDuration
  BY <1>10 DEF EnterRecording, RollOnChange, RollOnSize, CheckDuration
<1>11. CASE Receive \/ CheckSize \/ NotifyStopped
  BY <1>11 DEF Receive, GetFrame, CheckSize, NotifyStopped
<1>12. CASE StopCheck \/ SizeCheck \/ SizeUse \/ Shutdown \/ FileClosed
  BY <1>12 DEF StopCheck, SizeCheck, SizeUse, Shutdown, FileClosed
<1>13. CASE Sensors
  BY <1>13 DEF Sensors, SensorCheck, SensorUse
<1>14. CASE UNCHANGED vars
  BY <1>14 DEF vars
<1>15. CASE \E r \in Requests : StartCheck(r)
  BY <1>6, <1>15 DEF Promise!Next
<1>16. QED
  BY <1>1, <1>2, <1>3, <1>4, <1>5, <1>7, <1>8, <1>9, <1>10, <1>11, <1>12,
     <1>13, <1>14, <1>15 DEF Next, Process, Server, Main

(* The threads together implement the Recorder.                            *)
THEOREM WriterImplementsRecorder == Spec => ImplementsRecorder
<1>1. Init => Promise!Init
  BY DEF Init, Promise!Init
<1>2. Spec => Promise!Spec
  BY <1>1, StepRefines, WriterInvariant, PTL DEF Spec, Promise!Spec
<1>3. QED
  BY <1>2 DEF ImplementsRecorder

-----------------------------------------------------------------------------
(* The size is bounded by what fits between two looks at it.  A look comes *)
(* with the first frame more than PrintInterval after the last one, so the *)
(* frames written since fit into that time, the shortest step each.  This  *)
(* needs a clock that only runs forward, from an epoch at or before which  *)
(* the constructor's 0 lies; that steps of whole units have a shortest one *)
(* is a hypothesis because it would take an induction to derive.           *)
ForwardClock ==
  /\ Times \subseteq Nat
  /\ Steps \subseteq Nat \ {0}
  /\ \E d \in Steps : \A e \in Steps : d <= e

(* The shortest step of the clock.                                         *)
Least == CHOOSE d \in Steps : \A e \in Steps : d <= e

(* So many frames follow one another in so much time. *)
Fit(frames, time) == frames * Least <= time

(* What is written but not yet looked at, at each place of the data thread *)
(* that leads to another frame in the same file.                           *)
SizeInv ==
  /\ lastPrint <= lastTimestamp
  /\ file # NoFile /\ SizeLimit # 0 =>
       /\ file.frames <= SizeLimit + PrintInterval \div Least + 1
       /\ dataPc = "record" =>
            /\ file.frames <= SizeLimit + PrintInterval \div Least
            /\ Fit(file.frames + 1 - SizeLimit, lastTimestamp - lastPrint)
       /\ dataPc \in {"duration", "wait"} /\ state = "RECORDING" =>
            /\ Fit(file.frames - SizeLimit, lastTimestamp - lastPrint)
            /\ ~PrintDue

(* The shortest step is a positive number, and no step is shorter.         *)
LEMMA LeastStep ==
  ASSUME ForwardClock
  PROVE  Least \in Nat \ {0} /\ \A e \in Steps : Least <= e
<1>1. Least \in Steps /\ \A e \in Steps : Least <= e
  BY DEF ForwardClock, Least
<1> QED
  BY <1>1 DEF ForwardClock

(* A frame that comes a step later still fits.                             *)
LEMMA OneMore ==
  ASSUME ForwardClock, NEW n \in Int, NEW time \in Int, NEW d \in Int, Least <= d, Fit(n, time)
  PROVE  Fit(n + 1, time + d)
<1>1. Least \in Int
  BY LeastStep
<1>2. (n + 1) * Least = n * Least + Least
  BY <1>1
<1>3. n * Least \in Int
  BY <1>1
<1> QED
  BY <1>1, <1>2, <1>3 DEF Fit

(* No frames fit into any time.                                            *)
LEMMA NoneAtAll ==
  ASSUME ForwardClock, NEW n \in Int, n <= 0, NEW time \in Nat
  PROVE  Fit(n, time)
<1>1. Least \in Nat
  BY LeastStep
<1>2. n * Least <= 0
  BY <1>1
<1>3. n * Least \in Int
  BY <1>1
<1> QED
  BY <1>2, <1>3 DEF Fit

(* Frames that fit into the print interval are no more than its quotient.  *)
LEMMA AtMost ==
  ASSUME ForwardClock, NEW n \in Int, NEW time \in Int, time <= PrintInterval, Fit(n, time)
  PROVE  n <= PrintInterval \div Least /\ PrintInterval \div Least \in Nat
<1>1. Least \in Nat \ {0} /\ PrintInterval \in Nat
  BY LeastStep, LimitsAssumption
<1> DEFINE q == PrintInterval \div Least
<1>2. q \in Int /\ PrintInterval < (q + 1) * Least /\ q >= 0
  BY <1>1
<1>3. n * Least < (q + 1) * Least
  <2>1. n * Least \in Int /\ (q + 1) * Least \in Int
    BY <1>1, <1>2
  <2> QED
    BY <1>1, <1>2, <2>1 DEF Fit
<1>4. ASSUME n >= q + 1 PROVE FALSE
  <2> DEFINE k == n - (q + 1)
  <2>1. k \in Nat /\ n = q + 1 + k
    BY <1>2, <1>4
  <2> HIDE DEF k
  <2>2. n * Least = (q + 1) * Least + k * Least
    BY <1>1, <1>2, <2>1
  <2>3. k * Least \in Nat /\ (q + 1) * Least \in Int
    BY <1>1, <1>2, <2>1
  <2> QED
    BY <1>3, <2>2, <2>3
<1> QED
  BY <1>2, <1>4

(* Every step keeps the size invariant, given the writer's own.            *)
LEMMA SizeStep ==
  ASSUME ForwardClock, IInv, SizeInv, [Next]_vars
  PROVE  SizeInv'
<1> DEFINE Slack == PrintInterval \div Least
<1>c. Least \in Nat \ {0} /\ Slack \in Nat /\ SizeLimit \in Nat /\ PrintInterval \in Nat
  <2>1. Least \in Nat \ {0} /\ SizeLimit \in Nat /\ PrintInterval \in Nat
    BY LeastStep, LimitsAssumption
  <2>2. Fit(0, 0)
    BY NoneAtAll
  <2> QED
    BY <2>1, <2>2, AtMost
<1> HIDE DEF Slack
<1>t. /\ lastTimestamp \in Nat /\ lastPrint \in Int
      /\ file # NoFile => file \in Files /\ file.frames \in Nat
      /\ stopTime \in Int
  BY DEF ForwardClock, IInv, TypeOK, Files
<1>i. /\ lastPrint <= lastTimestamp
      /\ file # NoFile /\ SizeLimit # 0 =>
           /\ file.frames <= SizeLimit + Slack + 1
           /\ dataPc = "record" =>
                /\ file.frames <= SizeLimit + Slack
                /\ Fit(file.frames + 1 - SizeLimit, lastTimestamp - lastPrint)
           /\ dataPc \in {"duration", "wait"} /\ state = "RECORDING" =>
                /\ Fit(file.frames - SizeLimit, lastTimestamp - lastPrint)
                /\ ~PrintDue
  BY DEF SizeInv, Slack
<1>s. /\ (lastPrint <= lastTimestamp)'
      /\ (file # NoFile /\ SizeLimit # 0 =>
            /\ file.frames <= SizeLimit + Slack + 1
            /\ dataPc = "record" =>
                 /\ file.frames <= SizeLimit + Slack
                 /\ Fit(file.frames + 1 - SizeLimit, lastTimestamp - lastPrint)
            /\ dataPc \in {"duration", "wait"} /\ state = "RECORDING" =>
                 /\ Fit(file.frames - SizeLimit, lastTimestamp - lastPrint)
                 /\ ~PrintDue)'
      => SizeInv'
  BY DEF SizeInv, Slack
(* Steps that touch neither the file nor the two times, and do not put the *)
(* data thread where more would be asked of them.                          *)
<1>u. ASSUME UNCHANGED <<file, lastTimestamp, lastPrint>>,
             \/ dataPc' = dataPc
             \/ dataPc' \notin {"record", "duration", "wait"}
             \/ dataPc = "duration" /\ dataPc' = "wait",
             state' = state \/ state' # "RECORDING"
      PROVE  SizeInv'
  BY <1>i, <1>s, <1>u DEF PrintDue, Fit
<1>n. ASSUME file' = NoFile, UNCHANGED <<lastTimestamp, lastPrint>>
      PROVE  SizeInv'
  BY <1>i, <1>s, <1>n
<1> USE DEF DataStep, ServerStep, MainStep, SensorStep, SetState, shared, data, stream
<1>1. CASE Receive
  <2> PICK ts \in Times, size \in FrameSizes, dig \in Digitisers :
             ts - lastTimestamp \in Steps /\ GetFrame(ts, size, dig)
    BY <1>1 DEF Receive
  <2> DEFINE d == ts - lastTimestamp
  <2>1. ts \in Nat /\ d \in Int /\ Least <= d /\ ts = lastTimestamp + d /\ d > 0
    BY <1>c, <1>t, LeastStep DEF ForwardClock
  <2> HIDE DEF d
  <2>2. /\ dataPc = "wait"
        /\ dataPc' = Branch(ts)
        /\ lastTimestamp' = ts
        /\ lastPrint' = IF TooEarly(ts) /\ ts - lastPrint > PrintInterval
                        THEN ts ELSE lastPrint
        /\ UNCHANGED <<state, file>>
    BY DEF GetFrame
  <2>3. (lastPrint <= lastTimestamp)' /\ lastPrint' \in Int
    BY <1>t, <1>i, <2>1, <2>2
  <2>4. ASSUME dataPc' # "record" PROVE SizeInv'
    <3>1. dataPc' \in {"duration", "wait"} => state' # "RECORDING"
      BY <2>2, <2>4 DEF Branch, TooEarly
    <3> QED
      BY <1>i, <1>s, <2>2, <2>3, <2>4, <3>1
  <2>5. ASSUME dataPc' = "record", file # NoFile, SizeLimit # 0
        PROVE  /\ file.frames <= SizeLimit + Slack
               /\ Fit(file.frames + 1 - SizeLimit, ts - lastPrint)
               /\ lastPrint' = lastPrint
    <3>1. state = "RECORDING" /\ lastPrint' = lastPrint
      BY <2>2, <2>5 DEF Branch, TooEarly
    <3>2. Fit(file.frames - SizeLimit, lastTimestamp - lastPrint) /\ ~PrintDue
      BY <1>i, <2>2, <2>5, <3>1
    <3> DEFINE n == file.frames - SizeLimit
               time == lastTimestamp - lastPrint
    <3>3. n \in Int /\ time \in Int /\ time <= PrintInterval
      BY <1>c, <1>t, <2>5, <3>2 DEF PrintDue
    <3>4. n + 1 = file.frames + 1 - SizeLimit /\ time + d = ts - lastPrint
      BY <1>c, <1>t, <2>1, <2>5
    <3>5. Fit(n, time)
      BY <3>2
    <3> HIDE DEF n, time
    <3>6. n <= Slack
      BY <3>3, <3>5, AtMost DEF Slack
    <3>7. Fit(n + 1, time + d)
      BY <2>1, <3>3, <3>5, OneMore
    <3>8. file.frames <= SizeLimit + Slack
      BY <1>c, <1>t, <2>5, <3>6 DEF n
    <3> QED
      BY <3>1, <3>4, <3>7, <3>8
  <2>6. ASSUME dataPc' = "record" PROVE SizeInv'
    BY <1>i, <1>s, <2>2, <2>3, <2>5, <2>6
  <2> QED
    BY <2>4, <2>6
<1>2. CASE OpenFile
  BY <1>2, <1>c, <1>i, <1>s DEF OpenFile
<1>3. CASE EnterRecording
  <2>1. file # NoFile /\ file.frames = 0
    BY <1>3 DEF EnterRecording, IInv, FileAt, FileFollows
  <2>2. ASSUME SizeLimit # 0
        PROVE  Fit(1 - SizeLimit, lastTimestamp - lastPrint)
    <3>1. 1 - SizeLimit \in Int /\ 1 - SizeLimit <= 0 /\ lastTimestamp - lastPrint \in Nat
      BY <1>c, <1>t, <1>i, <2>2
    <3> QED
      BY <3>1, NoneAtAll
  <2> QED
    BY <1>3, <1>c, <1>i, <1>s, <2>1, <2>2 DEF EnterRecording
<1>4. CASE RollOnChange
  BY <1>4, <1>u DEF RollOnChange
<1>5. CASE AddFrame
  <2>1. dataPc = "record" /\ file # NoFile /\ file \in Files
    BY <1>5 DEF AddFrame, IInv, FileAt, TypeOK
  <2>2. /\ file' = [file EXCEPT !.frames = @ + 1, !.last = lastTimestamp]
        /\ dataPc' = IF PrintDue THEN "size" ELSE "duration"
        /\ UNCHANGED <<lastTimestamp, lastPrint>>
    BY <1>5 DEF AddFrame
  <2>3. file'.frames = file.frames + 1
    BY <2>1, <2>2 DEF Files
  <2> QED
    BY <1>c, <1>t, <1>i, <1>s, <2>1, <2>2, <2>3 DEF PrintDue, Fit
<1>6. CASE CheckSize
  <2>1. /\ dataPc = "size" /\ file # NoFile
        /\ dataPc' = IF TooLarge THEN "full" ELSE "duration"
        /\ lastPrint' = lastTimestamp
        /\ UNCHANGED <<state, file, lastTimestamp>>
    BY <1>6 DEF CheckSize, IInv, FileAt
  <2>2. lastTimestamp - lastTimestamp = 0 /\ ~PrintDue'
    BY <1>c, <1>t, <2>1 DEF PrintDue
  <2>3. ASSUME SizeLimit # 0, dataPc' = "duration", state' = "RECORDING"
        PROVE  Fit(file.frames - SizeLimit, 0)
    <3>1. file.frames - SizeLimit \in Int /\ file.frames - SizeLimit <= 0
      BY <1>c, <1>t, <2>1, <2>3 DEF TooLarge
    <3> QED
      BY <3>1, NoneAtAll
  <2>4. (lastTimestamp - lastPrint)' = 0 /\ (lastPrint <= lastTimestamp)'
    BY <1>t, <2>1
  <2> QED
    BY <1>i, <1>s, <2>1, <2>2, <2>3, <2>4
<1>7. CASE RollOnSize
  BY <1>7, <1>u DEF RollOnSize
<1>8. CASE ResetFile
  BY <1>8, <1>n DEF ResetFile
<1>9. CASE CheckDuration
  BY <1>9, <1>u DEF CheckDuration
<1>10. CASE CloseFile
  BY <1>10, <1>n DEF CloseFile
<1>11. CASE EnterIdle
  BY <1>11, <1>u DEF EnterIdle
<1>12. CASE NotifyStopped
  <2>1. file = NoFile
    BY <1>12 DEF NotifyStopped, IInv, FileAt
  <2> QED
    BY <1>12, <1>n, <2>1 DEF NotifyStopped
<1>13. CASE Server
  BY <1>13, <1>u DEF Server, StartCheck, StartCommit, StopCheck, StopCommit, SizeCheck, SizeUse
<1>14. CASE Main
  BY <1>14, <1>u DEF Main, Shutdown, ShutdownStop, FileClosed
<1>15. CASE Sensors
  BY <1>15, <1>u DEF Sensors, SensorCheck, SensorUse
<1>16. CASE UNCHANGED vars
  BY <1>16, <1>u DEF vars
<1> QED
  BY <1>1, <1>2, <1>3, <1>4, <1>5, <1>6, <1>7, <1>8, <1>9, <1>10, <1>11, <1>12,
     <1>13, <1>14, <1>15, <1>16 DEF Next, Process

LEMMA InitSize == ForwardClock /\ Init => SizeInv
BY DEF ForwardClock, Init, SizeInv

(* With the limit on and a clock that only runs forward, a file holds at   *)
(* most the limit, the frames of one print interval, and one more.         *)
THEOREM WriterSizeBounded == ForwardClock => (Spec => []SizeBounded)
<1>1. SizeInv => SizeBounded
  BY DEF SizeInv, SizeBounded, Least
<1>2. ASSUME ForwardClock PROVE Init => SizeInv
  BY <1>2, InitSize
<1>3. ASSUME ForwardClock PROVE IInv /\ SizeInv /\ [Next]_vars => SizeInv'
  BY <1>3, SizeStep
<1>4. SUFFICES ASSUME ForwardClock PROVE Spec => []SizeBounded
  OBVIOUS
<1> QED
  BY <1>1, <1>2, <1>3, <1>4, WriterInvariant, PTL DEF Spec
=============================================================================
