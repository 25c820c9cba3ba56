------------------------------ MODULE FileWriter ------------------------------
(***************************************************************************)
(* The recording state machine of cHDF5FileWriter and the threads that     *)
(* drive it (HDF5FileWriter.cpp).                                          *)
(*                                                                         *)
(*   data    the UDP offload thread: getNextFrame_callback                 *)
(*   server  the KATCP server thread: ?startRecording, ?stopRecording and  *)
(*           the file size sensor                                          *)
(*   main    the main thread: cRoachAcquisitionServer::shutdown            *)
(*   Readers the KATCP client threads, whose sensor callbacks write to the *)
(*           open file                                                     *)
(*                                                                         *)
(* m_oMutex is only ever held inside setState and getState, so a step of   *)
(* this module runs from one acquisition of it, or one access to the       *)
(* shared file pointer, to the next.                                       *)
(***************************************************************************)
EXTENDS Integers

CONSTANTS
  Times,          \* timestamps (us) a spectrometer header may carry
  Steps,          \* differences that occur between successive timestamps
  FrameSizes,     \* lengths of a frame
  Digitisers,     \* digitiser types
  Starts,         \* requested start times, 0 for "at once"
  Durations,      \* requested durations, 0 for "until stopped"
  Forever,        \* LLONG_MAX
  PrintInterval,  \* the 500000 us between two progress lines
  SizeLimit,      \* m_u32FileSizeLimit_MB in frames, 0 for no limit
  Readers,        \* sensor threads
  NoFile          \* the null m_pHDF5File

Requests == [start : Starts, duration : Durations]

Files == [start : Times, size : FrameSizes, digitiser : Digitisers,
          request : Requests, frames : Nat, last : Times]

ASSUME TimesAssumption ==
  /\ Times \subseteq Int
  /\ Steps \subseteq Int
  /\ Starts \subseteq Int
  /\ Durations \subseteq Int
  /\ Forever \in Int
  /\ \A t \in Times : t < Forever

ASSUME LimitsAssumption == PrintInterval \in Nat /\ SizeLimit \in Nat

ASSUME NoFileAssumption == NoFile \notin Files

VARIABLES
  state,          \* m_eState
  file,           \* m_pHDF5File and what the file holds
  fileTime,       \* m_i64ActualStartTime_us and the name made from it, 0 if none
  request,        \* m_i64RequestedStartTime_us, m_i64Duration_us, the suffix
  stopTime,       \* m_i64StopTime_us
  lastTimestamp,  \* m_i64LastTimestamp_us
  frameInterval,  \* m_i64FrameInterval_us
  frameSize,      \* m_u32FrameSize_nVal
  digitiser,      \* m_eLastDigitiserType
  streamChanged,  \* m_bStreamChanged
  lastPrint,      \* m_i64LastPrintTime_us
  told,           \* the last notification broadcast to KATCP clients
  dataPc,         \* where the data thread is
  serverPc,       \* where the KATCP server thread is
  mainPc,         \* where the main thread is
  readerPc,       \* where each sensor thread is
  crashed         \* a null m_pHDF5File was dereferenced

stream == <<lastTimestamp, frameInterval, frameSize, digitiser>>
shared == <<state, fileTime, told>>                \* what setState assigns
data   == <<file, stopTime, stream, streamChanged, lastPrint, dataPc>>
vars   == <<shared, data, request, serverPc, mainPc, readerPc, crashed>>

States == {"IDLE", "REQUEST_START", "RECORDING", "REQUEST_STOP"}

Abs(n) == IF n < 0 THEN -n ELSE n

(* Members the constructor leaves uninitialised may hold anything.         *)
Init ==
  /\ state = "IDLE"
  /\ file = NoFile
  /\ fileTime = 0
  /\ request \in Requests
  /\ stopTime \in Times
  /\ lastTimestamp \in Times
  /\ frameInterval \in {t - u : t, u \in Times}
  /\ frameSize \in FrameSizes
  /\ digitiser \in Digitisers
  /\ streamChanged = FALSE
  /\ lastPrint = 0
  /\ told = "nothing"
  /\ dataPc = "wait"
  /\ serverPc = "ready"
  /\ mainPc = "run"
  /\ readerPc = [r \in Readers |-> "ready"]
  /\ crashed = FALSE

-----------------------------------------------------------------------------
(* setState: entering REQUEST_START also clears the name and start time of *)
(* the last file and broadcasts, all under the one lock.                   *)
SetState(s) ==
  /\ state' = s
  /\ fileTime' = IF s = "REQUEST_START" THEN 0 ELSE fileTime
  /\ told' = IF s = "REQUEST_START" THEN "started" ELSE told

DataStep(from, to) ==
  /\ ~crashed
  /\ dataPc = from
  /\ dataPc' = to
  /\ UNCHANGED <<request, serverPc, mainPc, readerPc, crashed>>

-----------------------------------------------------------------------------
(* The data thread: getNextFrame_callback.                                 *)

IntervalChanged(delta) == Abs(frameInterval - delta) > 1

DigitiserChanged(size, dig) == dig # digitiser    \* faulty: size not compared

FormatChanged(size, dig) == size # frameSize \/ dig # digitiser

TooEarly(ts) == state = "REQUEST_START" /\ request.start > ts

MissStop(ts) ==    \* faulty: no case for REQUEST_STOP
  IF state \in {"IDLE", "REQUEST_STOP"} \/ TooEarly(ts) THEN "wait"
  ELSE IF state = "RECORDING" THEN "record"
  ELSE "open"

(* The switch on the state.                                                *)
Branch(ts) ==
  IF state = "IDLE" \/ TooEarly(ts) THEN "wait"
  ELSE IF state = "REQUEST_STOP" THEN "close"
  ELSE IF state = "RECORDING" THEN "record"
  ELSE "open"

(* A frame is handed over: the stream parameters are brought up to date,   *)
(* then the state read at the switch decides what becomes of it.           *)
GetFrame(ts, size, dig) ==
  LET delta == ts - lastTimestamp
  IN  /\ DataStep("wait", Branch(ts))
      /\ frameInterval' = IF IntervalChanged(delta) THEN delta ELSE frameInterval
      /\ frameSize' = size
      /\ digitiser' = dig
      /\ streamChanged' = (IntervalChanged(delta) \/ FormatChanged(size, dig))
      /\ lastTimestamp' = ts
      /\ lastPrint' = IF TooEarly(ts) /\ ts - lastPrint > PrintInterval
                      THEN ts ELSE lastPrint
      /\ UNCHANGED <<shared, file, stopTime>>

(* The UDP receiver delivers frames until shutdown resets it.              *)
Receive ==
  /\ mainPc # "done"
  /\ \E ts \in Times, size \in FrameSizes, dig \in Digitisers :
       /\ ts - lastTimestamp \in Steps
       /\ GetFrame(ts, size, dig)

(* REQUEST_START: make the file and fix the time at which it stops.        *)
OpenFile ==
  /\ DataStep("open", "opened")
  /\ fileTime' = lastTimestamp
  /\ file' = [start |-> lastTimestamp, size |-> frameSize,
              digitiser |-> digitiser, request |-> request,
              frames |-> 0, last |-> lastTimestamp]
  /\ stopTime' = IF request.duration # 0
                 THEN lastTimestamp + request.duration ELSE Forever
  /\ UNCHANGED <<state, told, stream, streamChanged, lastPrint>>

EnterRecording ==
  /\ DataStep("opened", "record")
  /\ SetState("RECORDING")
  /\ streamChanged' = FALSE
  /\ UNCHANGED <<file, stopTime, stream, lastPrint>>

(* RECORDING, the stream changed: a new start is requested, the file is    *)
(* closed and this frame is dropped.                                       *)
RollOnChange ==
  /\ streamChanged
  /\ DataStep("record", "reset")
  /\ SetState("REQUEST_START")
  /\ UNCHANGED <<file, stopTime, stream, streamChanged, lastPrint>>

PrintDue == lastTimestamp - lastPrint > PrintInterval

(* RECORDING, same stream: write the frame.                                *)
AddFrame ==
  /\ ~streamChanged
  /\ DataStep("record", IF PrintDue THEN "size" ELSE "duration")
  /\ file' = [file EXCEPT !.frames = @ + 1, !.last = lastTimestamp]
  /\ UNCHANGED <<shared, stopTime, stream, streamChanged, lastPrint>>

TooLargeUnflushed ==    \* faulty: the frame just written is not counted
  SizeLimit # 0 /\ state = "RECORDING" /\ file.frames - 1 > SizeLimit

(* getCurrentFileSize_B answers 0 unless the state is still RECORDING.     *)
TooLarge ==
  /\ SizeLimit # 0
  /\ state = "RECORDING"
  /\ file.frames > SizeLimit

CheckSize ==
  /\ DataStep("size", IF TooLarge THEN "full" ELSE "duration")
  /\ lastPrint' = lastTimestamp
  /\ UNCHANGED <<shared, file, stopTime, stream, streamChanged>>

(* The file is full: as for a changed stream, but this frame is kept and   *)
(* the check of the duration is skipped.                                   *)
RollOnSize ==
  /\ DataStep("full", "reset")
  /\ SetState("REQUEST_START")
  /\ UNCHANGED <<file, stopTime, stream, streamChanged, lastPrint>>

KeepFile ==    \* faulty: m_pHDF5File is not reset
  /\ DataStep("reset", "wait")
  /\ UNCHANGED <<shared, file, stopTime, stream, streamChanged, lastPrint>>

ResetFile ==
  /\ DataStep("reset", "wait")
  /\ file' = NoFile
  /\ UNCHANGED <<shared, stopTime, stream, streamChanged, lastPrint>>

StopPassed == lastTimestamp > stopTime    \* faulty: off by one

StopDue == lastTimestamp >= stopTime

CheckDuration ==
  /\ DataStep("duration", "wait")
  /\ IF StopDue THEN SetState("REQUEST_STOP") ELSE UNCHANGED shared
  /\ UNCHANGED <<file, stopTime, stream, streamChanged, lastPrint>>

CloseUnderOld ==    \* faulty: goes on with a file still open
  /\ DataStep("close", "closed")
  /\ UNCHANGED <<shared, file, stopTime, stream, streamChanged, lastPrint>>

(* REQUEST_STOP: close the file, go idle, then tell the clients.           *)
CloseFile ==
  /\ DataStep("close", "closed")
  /\ file' = NoFile
  /\ UNCHANGED <<shared, stopTime, stream, streamChanged, lastPrint>>

EnterIdle ==
  /\ DataStep("closed", "notify")
  /\ SetState("IDLE")
  /\ UNCHANGED <<file, stopTime, stream, streamChanged, lastPrint>>

NotifyState ==    \* faulty: broadcasts the state instead of the event
  /\ DataStep("notify", "wait")
  /\ told' = state
  /\ UNCHANGED <<state, fileTime, file, stopTime, stream, streamChanged, lastPrint>>

NotifyNobody ==    \* faulty: the broadcast is missing
  /\ DataStep("notify", "wait")
  /\ UNCHANGED <<shared, file, stopTime, stream, streamChanged, lastPrint>>

NotifyStopped ==
  /\ DataStep("notify", "wait")
  /\ told' = "stopped"
  /\ UNCHANGED <<state, fileTime, file, stopTime, stream, streamChanged, lastPrint>>

Process ==
  \/ OpenFile \/ EnterRecording \/ RollOnChange \/ AddFrame \/ CheckSize
  \/ RollOnSize \/ ResetFile \/ CheckDuration \/ CloseFile \/ EnterIdle
  \/ NotifyStopped

-----------------------------------------------------------------------------
(* The KATCP server thread.                                                *)

ServerStep(from, to) ==
  /\ ~crashed
  /\ serverPc = from
  /\ serverPc' = to
  /\ UNCHANGED <<data, mainPc, readerPc>>

MayStartOver == state # "REQUEST_STOP"    \* faulty: restarts a recording

MayStartStopping == state \in {"IDLE", "REQUEST_STOP"}    \* faulty: cuts a stop short

MayStart == state = "IDLE"

(* ?startRecording: outside IDLE the request is dropped without effect.    *)
StartCheck(r) ==
  /\ MayStart
  /\ ServerStep("ready", "start")
  /\ request' = r
  /\ UNCHANGED <<shared, crashed>>

StartCommit ==
  /\ ServerStep("start", "ready")
  /\ SetState("REQUEST_START")
  /\ UNCHANGED <<request, crashed>>

(* ?stopRecording: isRecordingEnabled and stopRecording both look first.   *)
StopCheck ==
  /\ state # "IDLE"
  /\ ServerStep("ready", "stop")
  /\ UNCHANGED <<shared, request, crashed>>

StopCommit ==
  /\ ServerStep("stop", "ready")
  /\ SetState("REQUEST_STOP")
  /\ UNCHANGED <<request, crashed>>

(* The file size sensor: the file is used after the lock is released.      *)
SizeCheck ==
  /\ state = "RECORDING"
  /\ ServerStep("ready", "size")
  /\ UNCHANGED <<shared, request, crashed>>

SizeUse ==
  /\ ServerStep("size", "ready")
  /\ crashed' = (file = NoFile)
  /\ UNCHANGED <<shared, request>>

Server ==
  \/ \E r \in Requests : StartCheck(r)
  \/ StartCommit \/ StopCheck \/ StopCommit \/ SizeCheck \/ SizeUse

-----------------------------------------------------------------------------
(* The main thread in shutdown: stopRecording, waitForFileClosed, and then *)
(* the UDP receiver is reset.                                              *)

MainStep(from, to) ==
  /\ ~crashed
  /\ mainPc = from
  /\ mainPc' = to
  /\ UNCHANGED <<data, request, serverPc, readerPc, crashed>>

Shutdown ==
  /\ MainStep("run", IF state = "IDLE" THEN "closing" ELSE "stop")
  /\ UNCHANGED shared

ShutdownStop ==
  /\ MainStep("stop", "closing")
  /\ SetState("REQUEST_STOP")

FileClosed ==
  /\ state = "IDLE"
  /\ MainStep("closing", "done")
  /\ UNCHANGED shared

Main == Shutdown \/ ShutdownStop \/ FileClosed

-----------------------------------------------------------------------------
(* A sensor callback of a KATCP client: the state is read, then the file   *)
(* is written to.                                                          *)

SensorStep(r, from, to) ==
  /\ ~crashed
  /\ readerPc[r] = from
  /\ readerPc' = [readerPc EXCEPT ![r] = to]
  /\ UNCHANGED <<shared, data, request, serverPc, mainPc>>

SensorCheck(r) ==
  /\ state = "RECORDING"
  /\ SensorStep(r, "ready", "use")
  /\ UNCHANGED crashed

SensorUse(r) ==
  /\ SensorStep(r, "use", "ready")
  /\ crashed' = (file = NoFile)

Sensors == \E r \in Readers : SensorCheck(r) \/ SensorUse(r)

-----------------------------------------------------------------------------
Next == Receive \/ Process \/ Server \/ Main \/ Sensors

Spec == Init /\ [][Next]_vars

(* Frames keep arriving, a thread inside a call is scheduled again, and    *)
(* the polling loop of waitForFileClosed keeps looking.  Requests, sensor  *)
(* updates and the shutdown may never come.                                *)
Fairness ==
  /\ WF_vars(Receive \/ Process)
  /\ WF_vars(StartCommit \/ StopCommit \/ SizeUse)
  /\ WF_vars(ShutdownStop \/ FileClosed)

FairSpec == Spec /\ Fairness
-----------------------------------------------------------------------------
(* Properties.                                                             *)

(* Every variable keeps the kind of value the code gives it.               *)
TypeOK ==
  /\ state \in States
  /\ file \in Files \cup {NoFile}
  /\ fileTime \in Int
  /\ request \in Requests
  /\ stopTime \in Int
  /\ lastTimestamp \in Times
  /\ frameInterval \in Int
  /\ frameSize \in FrameSizes
  /\ digitiser \in Digitisers
  /\ streamChanged \in BOOLEAN
  /\ lastPrint \in Int
  /\ told \in {"nothing", "started", "stopped"}
  /\ dataPc \in {"wait", "open", "opened", "record", "size", "full", "reset",
                 "duration", "close", "closed", "notify"}
  /\ serverPc \in {"ready", "start", "stop", "size"}
  /\ mainPc \in {"run", "stop", "closing", "done"}
  /\ readerPc \in [Readers -> {"ready", "use"}]
  /\ crashed \in BOOLEAN

(* The data thread never uses m_pHDF5File without a file behind it, never  *)
(* opens one over another, and between two frames RECORDING means that a   *)
(* file is open and is the one reported, IDLE and REQUEST_START that none  *)
(* is, whatever starts and stops the other threads slipped in between      *)
(* (575, 603, 642, 667).                                                   *)
FileMatchesState ==
  /\ dataPc \in {"opened", "record", "size", "full", "reset", "duration"}
       => file # NoFile
  /\ dataPc \in {"open", "closed", "notify"} => file = NoFile
  /\ dataPc = "wait" =>
       /\ state = "RECORDING" => file # NoFile /\ fileTime = file.start
       /\ state \in {"IDLE", "REQUEST_START"} => file = NoFile

(* The parameters of a request, written without the lock (244-246), are    *)
(* not disturbed while a file made for it is open, and the file does not   *)
(* begin before the requested time.                                        *)
RequestHonoured ==
  file # NoFile => file.request = request /\ file.start >= request.start

Writing == dataPc = "record" /\ ~streamChanged

(* A frame is only ever added to a file of its own size and digitiser, and *)
(* follows the file's last frame at the interval of the stream (293-323).  *)
UniformFile ==
  Writing =>
    /\ file.size = frameSize
    /\ file.digitiser = digitiser
    /\ file.frames > 0 => Abs(frameInterval - (lastTimestamp - file.last)) <= 1

(* At most one frame of a file lies at or past the end of the duration     *)
(* requested, counted from the file's own start: none is added after the   *)
(* one that reached it, even when a start or a stop raced it (366-372,     *)
(* 653).                                                                   *)
NoFrameAfterStop ==
  Writing /\ file.frames > 0 /\ request.duration # 0
    => file.last < file.start + request.duration

(* Once the writer has settled in IDLE the clients' last news is not that  *)
(* a recording started, even when a start raced a closing (259-273, 671).  *)
IdleIsTold == state = "IDLE" /\ dataPc = "wait" => told # "started"

(* While the limit is on, a file never holds more frames than the limit    *)
(* and those that arrive between two checks of the size (615, 639); for a  *)
(* stream whose timestamps only grow, by at least MinStep.                 *)
SizeBounded ==
  LET MinStep == CHOOSE d \in Steps : \A e \in Steps : d <= e
  IN  file # NoFile /\ SizeLimit # 0
        => file.frames <= SizeLimit + PrintInterval \div MinStep + 1

(* No thread dereferences a null m_pHDF5File: a size query or a sensor     *)
(* callback that saw RECORDING still finds a file (759-766).               *)
AccessorsSafe ==
  /\ serverPc = "size" => file # NoFile
  /\ \A r \in Readers : readerPc[r] = "use" => file # NoFile

(* The writer is a Recorder that is busy whenever it is not in IDLE.       *)
Promise == INSTANCE Recorder WITH busy <- state # "IDLE"

(* Every step of the threads is a step of that recorder, or none: no file  *)
(* is open outside a recording, no file is opened over another, and no     *)
(* request replaces the one being served.                                  *)
ImplementsRecorder == Promise!Spec

(* A stop that the data thread will see, or has seen, with no start half   *)
(* made.                                                                   *)
StopInForce ==
  /\ state = "REQUEST_STOP"
  /\ dataPc \in {"wait", "close", "closed"}
  /\ serverPc # "start"

(* Nothing undoes such a stop until the writer is idle, with the file      *)
(* closed: no request, no frame that changes the stream or finds the file  *)
(* full, no shutdown (236-266, 575, 603, 642, 662-676).                    *)
StopPrevails ==
  [][StopInForce => StopInForce' \/ (state' = "IDLE" /\ file' = NoFile)]_vars

(* A stop that is in force between two frames, with no start half made,    *)
(* closes the file (662-676).                                              *)
StopIsServed ==
  (StopInForce /\ dataPc = "wait")
    ~> (state = "IDLE" \/ mainPc = "done" \/ crashed)

(* The file ends before its stop time, or without a look at it: the stream *)
(* changed, or it is full.  The next one is given the whole duration again.*)
CutShort == dataPc = "full" \/ (dataPc = "reset" /\ file.last < stopTime)

(* A file of a recording with a duration is the last one of it, unless it  *)
(* is cut short: once frames reach its stop time the recording ends, with  *)
(* no stop asked for (366-372, 599-606, 638-645, 653-657).                 *)
TimedFileEndsRecording ==
  (state = "RECORDING" /\ request.duration # 0)
    ~> (state = "IDLE" \/ CutShort \/ mainPc = "done" \/ crashed)

(* "Unix time at which the current recording is scheduled to stop"         *)
(* (KATCPServer.cpp:109): a recording with a duration ends, whatever       *)
(* becomes of its files (366-372, 603, 642).                               *)
TimedRecordingEnds ==
  (state = "RECORDING" /\ request.duration # 0)
    ~> (state = "IDLE" \/ mainPc = "done" \/ crashed)

(* A shutdown gets past waitForFileClosed.                                 *)
ShutdownCompletes == mainPc = "closing" ~> (mainPc = "done" \/ crashed)
=============================================================================
