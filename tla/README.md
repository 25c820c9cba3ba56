# A verification development for RoachAcquisitionServer

RoachAcquisitionServer records the data of a ROACH radio-astronomy backend. UDP
frames from the ROACH are interpreted and written to HDF5 files, together with
the sensor values of the telescope's station controller and of the ROACH itself;
operators start and stop recordings over KATCP. The program is C++ with Boost
threads, and most of what can go wrong in it lies between the threads.

This directory holds TLA+ modules of its components, the TLC configurations that
check them on small instances, and TLAPS proofs.

    tlc -config FileWriterSafety.cfg MCFileWriter.tla
    tlapm FileWriterProofs.tla

## 1. The system

| Component | State | Operations | Talks to |
|---|---|---|---|
| `cHDF5FileWriter`, state machine | `m_eState`, `m_pHDF5File`, the request, stop time, stream parameters | `getNextFrame_callback`, `startRecording`, `stopRecording`, `waitForFileClosed`, file size | called by the data, KATCP server and main threads; broadcasts to KATCP clients |
| `cHDF5FileWriter`, sensor callbacks | `m_oInitialValueSet` | one callback per sensor; filling of a new file | called by both KATCP clients' threads |
| `cRoachKATCPClient` | socket, `m_oKATCPMutex`, position in the poll | poll thread, `writeRoachRegister` | ROACH's TCPBorph server; handlers in file writer and KATCP server |
| `cStationControllerKATCPClient` | subscriptions | subscribe, dispatch of messages | station controller; handlers in file writer and KATCP server |
| `cKATCPServer` | cached sensor values, static pointers to the others | requests, sensors, broadcasts | KATCP clients of the operator |
| `cRoachAcquisitionServer`, `main` | owns the components | start, connect, shutdown | all of them |
| `cTCPForwardingServer` | none of its own | constructor | UDP receiver |
| `SCTestBed` | simulated sensors | | stands in for the station controller in development |

The socket classes, the base class of the KATCP clients, the stream interpreter
and the HDF5 file class are git submodules whose content is not in the
repository, and libkatcp is a library: they are external.

**Threads.** The UDP receiver's offload thread ("data") runs
`getNextFrame_callback`. The KATCP server has one thread for all its clients.
Each KATCP client has a read thread that runs the sensor callbacks. The main
thread sleeps until Control-C and then shuts down.

**What is hard.** `m_oMutex` of the file writer is held only inside `setState`
and `getState` (and while a callback stores a value); everything the threads do
with what they read happens outside it. So a state is read and acted on later,
the file pointer is used after the state that vouches for it was released, and
the state is overwritten by threads that did not look at it again. Only the
broadcast of a start runs with that mutex held; the broadcast of a stop does not,
so the two may meet on two threads, over a table of clients that a third party
changes. The pointers to the KATCP clients are static members of the server,
read by its requests without a reference of their own. The ROACH connection
carries unlabelled replies to two threads. A shutdown waits for a
state that only other threads bring about. `PROJECT.json` lists each such
hazard at its line.

**What makes each component correct.**

- State machine: the data thread has a file where it uses one; between frames
  the state says whether a file is open; one request is served at a time and not
  disturbed; files are uniform, start and stop on time and stay near the size
  limit; stops, timed ends and shutdowns are served; clients are told.
- Initial values: a new file holds what was known; the newest value is in it.
- ROACH client: replies go to their owner; nothing older than a confirmed write
  is reported; a disconnect ends the thread; a write is answered.
- Station client: after a (re)connection every sensor is subscribed; each
  message reaches its callback; a start of the controller's interface is noticed.
- KATCP server: a sensor shows the last value reported; a broadcast reaches the
  clients that are connected, also while clients come and go.
- Acquisition server: no component is used after it was destroyed, and a
  shutdown ends.

## 2. The modules

| Module | Models |
|---|---|
| `Recorder` | the abstract recorder: busy or not, one request, at most one file that only grows |
| `FileWriter` | the recording state machine and the threads that drive it |
| `MCFileWriter` | clocks for small instances of it |
| `FileWriterProofs` | the proofs about `FileWriter` |
| `InitialValues`, `MCInitialValues` | sensor callbacks, the values kept, filling of a new file |
| `InitialValuesProofs` | the proofs about `InitialValues` |
| `RegisterFile` | the abstract registers: one copy, set by writes that succeed and shown as it stands |
| `RoachClient`, `MCRoachClient` | polling and writing of ROACH registers over one connection |
| `RoachClientProofs` | the proofs about `RoachClient` |
| `SensorMirror` | the abstract mirror of the controller's sensors: a callback is given values that its sensor had and that never run backwards |
| `StationClient`, `MCStationClient` | subscription to the station controller's sensors and what becomes of its messages |
| `StationClientProofs` | the proofs about `StationClient` |
| `KatcpServer` | the KATCP server's thread, requests, table of clients and broadcasts |
| `AcquisitionServer` | the whole program: `KatcpServer` composed with the main thread, the recording thread and the clients' read threads |
| `AcquisitionServerProofs` | the proofs about `AcquisitionServer` and `KatcpServer` |

Definitions marked `faulty:` are not part of any specification. Each is a
plausible bug in the definition that follows it, kept to show that a property
notices it (`PROJECT.json`, "mutants").

### FileWriter

A step runs from one acquisition of `m_oMutex`, or one access to the shared file
pointer, to the next. For each thread a `pc` says where it is.

- The data thread: `GetFrame` is lines 288-356, up to the switch. `OpenFile`,
  `EnterRecording`, `RollOnChange`, `AddFrame`, `CheckSize`, `RollOnSize`,
  `CheckDuration`, `CloseFile`, `EnterIdle` and `NotifyStopped` are the parts of
  the switch in the order of the code, and `ResetFile` the two places that reset
  the file after a rollover. The fall through from REQUEST_START to RECORDING is
  the step from `opened` to `record`.
- The KATCP server thread: `StartCheck`/`StartCommit` and
  `StopCheck`/`StopCommit` are the unlocked check and the later assignment of
  `startRecording` and `stopRecording`; `SizeCheck`/`SizeUse` are
  `getCurrentFileSize_B`, called there and by the data thread (`TooLarge`).
- The main thread: `Shutdown`, `ShutdownStop`, `FileClosed`, after which the UDP
  receiver is destroyed and frames stop.
- A sensor thread: `SensorCheck` and `SensorUse`, the form of every callback.

A file is a record of what the properties need: its start, frame size,
digitiser, the request it was made for, the number of frames and the time of the
last. A frame's payload, names, directories, printing and the durations kept for
display (`m_i64RecordedDuration_us`) are left out. Integers are unbounded; a
start time plus a duration past 2^63 is not modelled. Members the constructor
does not initialise may hold any value. A use of a null file pointer sets
`crashed`, after which nothing happens.

### InitialValues

What a report carries is abstracted to its time, so an entry is a timestamp and
the time of the report its value came from; an entry whose two differ is one
read half before and half after a store. `Report`, `Store`, `Check` and `Add`
are the four parts of a callback: compare with the kept timestamp, store under
the lock, read the state, add to the file. The callbacks that depart from the
usual form are there by name: `coarseFFTShiftMask` (`StampOf`), `dspGain` (`GuardOf`),
those that keep nothing (`Uncached`) and those kept without a time
(`Unstamped`). The values kept are read in any order, a superset of the code's.
The callbacks are mapped to the lines of the first one; the others have its form.

### RoachClient

`PollHeader` is the loop that skips the text sent on connection, without the
mutex. `PollCheck`, `PollLock`, `PollSend`, the reply and `PollReport` are one
block of `readAllRegisters` with `readRoachRegister` inside; the registers are
numbered. `WriteCall` is any of the server's register requests, and the rest is
`writeRoachRegister`. A send may fail; a connection may be lost at any time, and
is not made again (the ROACH client is not told to reconnect). A write whose send
fails returns at once, and nothing is taken to have been sent then: the socket is
external, and had the request gone out all the same, its reply would be taken for
that of the next write. The ROACH serves
requests in order, may refuse one, and may send other lines. A value is the
number of the write that set it, and `SensorValue` what the KATCP server shows
of a register after the handlers ran (`Cache`).

`ImplementsRegisters` reads this as a `RegisterFile`: a write takes place when
its ok is read, though the ROACH was set before, and a register is shown when it
is reported, though it was read before. That no write comes between is what
the mutex is for.

### StationClient

`Subscribe` is one turn of the loop of `subscribeSensorData`, which runs in the
thread that connects (`OnConnected`), in the read thread (`InterfaceChanged`) and
in the KATCP server's thread, which calls it at the end of every
?startRecording (`StartRecording`), possibly in all three at once. `Ignore` is every line that
changes nothing, refusals and lines that are too short included. `Deliver` takes a
sensor's message apart; `calls` are then the callbacks it leads to (`CallsOf`,
several for a noise diode), which `Call` makes one at a time, one handler after
the other in the order of the code (`Calls`), before the next line is read. So the
handlers' other threads may see a message that has reached some callbacks only,
and the connection may be lost in the middle. Names, words and units are not
modelled; a value
is how often it changed. The controller forgets what was sampled when the
connection or the sensor's component goes, and refuses requests for a component
that is down, which is how the comment at 208-210 describes it. The base class
connects again whenever it is disconnected.

`SensorMirror` is what the handlers may rely on (`ImplementsMirror`): a value may
be skipped or late, but it is one the sensor had and no older than the last. That
the callbacks of a sensor, in the file writer and in the KATCP server, agree
again once a message has been passed on is `CallbacksAgree`.

### KatcpServer and AcquisitionServer

The two modules are one specification. `KatcpServer` holds the server's state and
operations; `AcquisitionServer` adds the main thread, which calls the operations
`startServer`, `setFileWriter`, `setKATCPClient` and the parts of `stopServer` in
the order of `RoachAcquisitionServer.cpp` and `Main.cpp`, and the read threads of
the clients.

- The table `clients` is libkatcp's `s_clients` up to `s_used`. A client that
  leaves is replaced by others, so what remains may be in any order (`Without`).
  The broadcasts walk the table by index and look at its length before each
  client (`Sending`, `Tell`, `Finish`); a send and its flush are one step.
- The file writer is `busy` or not; `lock` is its `m_oMutex` where a thread keeps
  it over a broadcast, which `setState(REQUEST_START)` does (`StartCommit` to
  `StartDone`, and `RollOver` on the recording thread). `EnterIdle` lets it go
  before `recordingStopped` is broadcast. `StartCheck`/`StartCommit` and
  `StopCheck`/`StopCommit` are apart as in `FileWriter`.
- `Startup` may fail to create the dispatch, and then the server's thread, which
  only looks at the pointer after the registrations, ends at once or dies of it
  (`ListenInVain`), as it ends when it cannot listen; main goes on without a
  server in both cases.
- `Connect` starts a client's thread, or not: the result of `connect` is ignored,
  so the ROACH client may be left without a connection for good (`thread` is
  "none"), and the station client keeps trying ("try", until `Connected`), while
  main hands out both and serves.
- `WriteRegister` and `Resubscribe` read a static pointer, and `Return` is the
  end of the call. What the call may die of is `Harm`: the object was destroyed,
  or never had a connection. `fault` keeps the cause. The stop methods put a client that never
  connects in place of the old one ("stub") and drop the pointer they hold. The
  last pointer that goes destroys the client, whose base class joins the read
  thread (`Reset`, `Join`, `Ended`).
- `Poke` is the temporary socket `stopServer` opens so that the server looks at
  its exit flag.

Operators connect, leave and make requests at any time between start-up and the
end of the server thread. `skipped` records who was moved, by another's
departure, to a place that a broadcast had already passed.

## 3. The runs

| Run | Question | Answer |
|---|---|---|
| `writer_safety` | do state, file and request agree, does a stop in force prevail, and is the writer a `Recorder`, in every interleaving? | yes |
| `writer_liveness` | is a stop in force served, does a timed recording end unless its files are cut short? | yes |
| `timed_recording_rolls` | does a timed recording end? | no: each file that is cut short is followed by one with the whole duration again |
| `writer_forward` | is the size limit kept, for a clock that runs forward? | yes, up to what arrives between two checks |
| `accessor_on_closed_file` | are the "thread safe accessors" safe? | no: state checked, lock released, file closed, null pointer used |
| `shutdown_blocked` | does Control-C get past `waitForFileClosed`? | no: the stop is overwritten, or a new start follows it |
| `initial_values` | does a new file hold what was known, and the newest value of each sensor? | yes, but for values stored while it is being filled |
| `roach_client` | do replies, values and disconnects survive the sharing of the connection, and is it a `RegisterFile`? | yes |
| `roach_reply_stolen` | does every write get its reply? | no: the header is read without the mutex and may swallow it |
| `station_client` | is no sensor forgotten and no message dropped, after connections and components were lost, do the callbacks of a sensor agree, and are the handlers a `SensorMirror`? | yes |
| `acquisition_server` | from start-up to shutdown: do broadcasts reach the operators and find the server, does everything go in the order in which its users end, does the shutdown of the threads end? | yes, but for operators who are moved under a broadcast; the file writer may be used unset during start-up, a client destroyed during shutdown, and one without a connection at any time |
| `call_outlives_client` | is a client destroyed only when nobody uses it? | no: a register request may still be inside the ROACH client |

`TimedRecordingEnds` is what the sensors SDB.recordingStopTime and
SDB.recordingRemainingTime tell the operators (KATCPServer.cpp:107-117): a
recording has a stop time. The code sets that time anew for every file, so a
stream that keeps changing, or a size limit that is reached sooner than the
duration, postpones it for ever. What does hold, in the same instance, is
`TimedFileEndsRecording`: the recording ends, or its file is cut short.

More things the models show, though nothing in the repository promises
otherwise. A ?stopRecording may be lost: the data thread's own `setState`
overwrites one that arrives while it makes or rolls a file, which is why
`StopIsServed` speaks of a stop in force between two frames (a stop of the
shutdown that is lost in this way is what `shutdown_blocked` finds). A start that
is accepted between `EnterIdle` and `NotifyStopped` is announced before the end
of the recording before it, so the operators' last news is that nothing is
recorded. And the shift mask is stored under the channel selection's timestamp
(HDF5FileWriter.cpp:1546), so it is never among the initial values of a file, and
the channel selection may be there under a wrong time: `StampOf` models it, and
`Sound` leaves the two out.

**Bounds.** `writer_safety` uses four timestamps that run forward and are then
set back (`CycleTimes`, `CycleSteps`), so that intervals stay equal, change, and
time repeats without end; two frame sizes, starts that are at once or delayed,
recordings with and without a duration, a size limit of one frame and one sensor
thread. Every branch of the switch, both rollovers and every race of two threads
occur. `writer_liveness` and `timed_recording_rolls` share their bounds but for
the durations: the same cycle of timestamps, which changes the interval again and
again, a size limit of one frame, and durations that are reached before
the stream changes, with the frame that is the last before a change, and not
before it. One digitiser is enough in `writer_safety` because its comparison has the form of the
frame size's, and the proofs hold for any number. `writer_forward` needs
distinct frame intervals and time for several progress checks: ten timestamps,
steps of 1 to 4, and steps that differ by 1 are the rounding the code tolerates.
`initial_values` has one sensor of each form and two report times (so an old and
a new value), and files without number. `roach_client` has a register that looks
for a disconnect and one that does not, two writes (`MaxWrites`: one confirmed
and a later one) and one unasked line (`MaxLines`: enough to be skipped in each
loop). `station_client` has a sensor of each sampling strategy in two
components, one with two callbacks, two handlers, one change of each value, and two events
(`MaxEvents`: components that go down or come up, connections lost, recordings
started): enough for a subscription to be refused, cut off and repeated by any of
the three threads. `Capacity` is how many lines are on their way
before periodic reports wait, as a full socket makes them.

`acquisition_server` has two operators and two connections (`MaxConnects`): two
in the table, one who leaves under a broadcast and moves the other, or one who
leaves and comes back; all choices of wanted clients, connected at once, later or
never; and every place at which Control-C, or a failure to start or to listen, may
come. The number of recordings, rollovers
and requests is not bounded.

**Deadlock** is not checked where a thread may crash (after which nothing
moves), nor for the ROACH client, which stops for good after a disconnect, nor for
the station client, whose bounded environment runs out of things to do. The
whole program stops when its shutdown is done, or when it has crashed.

**Fairness.** Frames keep arriving (the ROACH streams without being asked) and
the data thread handles them; a thread inside a call goes on; the poll of
`waitForFileClosed` keeps looking. Nothing is assumed of requests, sensor
updates or Control-C. In `RoachClient` the ROACH answers what reaches it, and
each thread gets the mutex in the end: it is free for 10 ms between two
registers and for a network round trip between two requests, so this is strong
fairness of the two lock steps, not of anything else. In `StationClient` the
threads run and the controller answers and keeps its periods. A connection is
never assumed to stay, or to be made: the properties say what holds when it
lasts. In `AcquisitionServer` the threads go on wherever they are not blocked.
Strong fairness is used in three places: `ReceiverReset` joins a thread that
looks at its exit flag each time it waits for a frame; the server's loop, once
`Poke` woke it, gets to look at its own flag; and the read thread of a client
that is being destroyed looks at its flag between messages, which for the ROACH
client's needs its mutex, or between attempts to connect. A write to a client that
is there may wait for its reply for ever, and nothing is assumed of operators,
Control-C or a connection that is tried.
`ShutdownEnds` starts once the writer is idle and the receiver is
about to go, or counts a crash as an end; that a shutdown may wait before
that is what `shutdown_blocked` shows.

## 4. What is proved

`FileWriterProofs` proves, for every clock, stream, request, size limit and
number of sensor threads, from the assumptions named in `FileWriter` (times are
integers below `Forever`, a file differs from no file):

- `WriterTypes`, `WriterFileMatchesState`, `WriterHonoursRequest`,
  `WriterFilesUniform`, `WriterStopsFile`, `WriterTellsIdle`: the invariants of
  `writer_safety`;
- `WriterStopPrevails`: once a stop is in force between two frames, no request,
  rollover or change of the stream takes it back before the file is closed;
- `WriterImplementsRecorder`: every step of `FileWriter` is a step of `Recorder`
  or leaves it unchanged, with `busy` read as "the state is not IDLE";
- `WriterSizeBounded`: the invariant of `writer_forward`.

The invariants are not inductive by themselves: inside a frame the state alone
does not say whether a file is open, since other threads may assign it. `IInv`
adds, for each place of the data thread, which states it can meet there
(`FileAt`), that the start time reported is the open file's (`TimeReported`),
what a start that was checked but not yet committed implies (`StartPending`: no
file, and none can be opened before it is committed), that only the data thread
enters IDLE (`IdleAt`), that a file is opened for the request being served
(`StartReached`), what it has in common with the stream (`FileFollows`), and that
the stop time is that of the file, which has not passed it while another frame
may come (`StopFixed`).
`StepIInv` goes through the actions one by one; `StepRefines` maps each to an
action of `Recorder`. TLC agrees that `IInv` is an invariant of the small
instance. `StartPending` is also why a stop prevails: a start looks at the state
before it is committed, so one that could undo the stop is half made, and then
the stop does not count as in force.

`WriterSizeBounded` has a hypothesis, `ForwardClock`: times are natural numbers
and advance by steps of at least some positive least one. It is the clock of the
run, and the code needs it: it measures the interval between two looks at the
size with the stream's own timestamps, so a clock that is set back defers the
next look for as long as it was set back. That steps which are positive integers have a
least one is part of the hypothesis because deriving it takes an induction.
`SizeInv` counts frames against time: those added since the last look, at the
shortest step each, fit into the time since then (`Fit`); before a frame is added
that time is within the print interval or a look is due, so at most
`PrintInterval \div Least` frames and the one that triggers the look exceed the
limit (`OneMore`, `AtMost`).

`AcquisitionServerProofs` proves, for any operators, number of connections
(`MaxConnectsAssumption`) and wanted clients, `ServerTypes`,
`ServerTellsOperators`, `ServerBroadcastsSafely`, `ServerThreadsEnd` and
`ServerServesSafely`: the invariants of `acquisition_server`. `ThreadsEndFirst`
is about threads: no client, server or dispatch goes before the threads that run
in it have ended. Requests of the server's thread are not among them, and
`call_outlives_client` shows one inside a client that is destroyed.
`SafeWhileServing` says when each fault can come about, not that none can: until
the clients are stopped only the file writer's pointer before `setFileWriter` and
a client without a connection are in the way of a request. The inductive
invariant `ServerInv` has four parts besides the types. `LifeInv` ties the
dispatch to the threads that may broadcast: freed only after the server thread
and the recording thread ended. `MainInv` says what the main thread has done to
the clients and pointers at each of its steps. `UseInv` says that until the
clients are stopped a request finds its object, connected or not. `ToldInv` says that
while the writer is idle an operator last told of a start is yet to be reached
by the broadcast under way or was moved; it is inductive only because the start
is broadcast with the lock held. Each part has a lemma with one step per action.

`RoachClientProofs` proves, for any registers, writes and unasked lines
(`BoundsAssumption`), `ClientTypes`, `ClientRepliesBelong`,
`ClientReportsFollowWrites`, `ClientKeepsAnswers` (once the header is over, an
answer to a write leaves the connection only into its caller's hands) and
`ClientImplementsRegisters`. `ClientInv` adds to the reply invariant, which is
nearly inductive, who holds the mutex at which step (`MutexInv`) and the exact
relation of the ROACH's registers to the writes confirmed (`ExactInv`): they
are the same, but for a write whose ok is on its way or was lost with the
connection, and so is every value on its way to the poll. The refinement needs
that exactness; that values are not too old would not be enough.

`StationClientProofs` proves, for any sensors, samplings, components, callbacks
and events (`SensorsAssumption`), `StationTypes`, `StationForgetsNone`,
`StationLatestUnderWay`, `StationCallbacksAgree` and `StationImplementsMirror`. `NoneForgotten` and
`LatestUnderWay` are the hard ones: what they promise is spread over the
controller, the connection and up to three threads that subscribe at once. They
become inductive with three more parts. `WireInv` says that nothing outlives a
connection, so what a new one delivers belongs to it. `Together` says that the
calls still to be made are of one message, whose value the callbacks of its sensor
already have when their turn is over, and that those of other sensors agree.
`Ordered` says that the values of a sensor do not run backwards from its
callbacks, over the calls to be made and along the lines, to the sensor itself,
however many subscriptions answer at the same time; it is what makes the last
status on the way the latest value, and each call a step of `SensorMirror`. The lemmas on sequences (`Joined`, `Taken`, `Appended`) say
where the lines are after one is read or several are sent.

`InitialValuesProofs` proves, for any sensors and times (`ReportsAssumption`:
the two clients share no sensor, times are positive; `PairsAssumption`: a sensor
comes with the ones whose timestamps its callback uses), `ValuesTypes`,
`ValuesHoldInitial` and `ValuesHoldNewest`. Both properties speak only of a file
that is open, while the race is in its making, so the invariant follows a value:
yet to be looked at, one half read, in the file, or with a callback on its way
there (`InitialInv`, `NewestInv`). They need that what is kept is of one report
and only ever replaced by a newer one (`KeptInv`), and that is where the sensors
excluded from `Sound` fail.

Only model-checked is liveness, since the proof system reasons neither about
fairness nor about ENABLED: `StopIsServed`, `TimedFileEndsRecording`,
`DisconnectObeyed`, `LaterWriteGetsReply`, `SampledAgain`, `LatestIsHeld` and
`ShutdownEnds`. For five of them a safety property with a proof says that no step
undoes what was gained: `StopPrevails` for the first, `NoFrameAfterStop` for
the second, `AnswerNotLost` for the fourth, `NoneForgotten` and `LatestUnderWay` for
the two of the station client.

## 5. What is not modelled, and why

- The connection flags of the KATCP server: written by three threads, they feed
  two sensors and decide nothing.
- The list of gateware files and the request that programs one: a directory is
  read, and a script is run to its end on the server's thread, whose result is
  not looked at.
- The arguments and texts of requests, sensor formats, the command line.
- What becomes of a connection that is lost, in `AcquisitionServer`: `RoachClient`
  and `StationClient` have it. That the base class's attempts of the station
  client run on a thread of their own is an assumption about the library.
- Registration of handlers while a recording is announced: it happens during
  start-up and shutdown only, where `AcquisitionServer` has it as one step.
- The recording directory, the content of the HDF5 files and the durations kept
  for display.
- The forwarding server, a constructor over an external class; the test bed, a
  simulator that is not part of the program; the libraries beyond their use;
  calibration tables, build and deployment files.

What could be added next: `FileWriter` in place of the reduced writer in
`AcquisitionServer`. The product of their states is out of TLC's reach as a
whole, so it would take an abstraction of the writer that both modules are shown
to implement.
