----------------------------- MODULE StationClient -----------------------------
(***************************************************************************)
(* cStationControllerKATCPClient: it subscribes to the sensors of the      *)
(* station controller, again whenever the controller says that its         *)
(* interface changed or a recording is started, and passes what the        *)
(* controller sends on to the callback handlers                            *)
(* (StationControllerKATCPClient.cpp).                                     *)
(*                                                                         *)
(* The controller, its components, the connection and cKATCPClientBase,    *)
(* which connects and reads lines, are external.  A sensor's value is      *)
(* abstracted to how often it changed.                                     *)
(***************************************************************************)
EXTENDS Integers, Sequences, Functions

CONSTANTS
  Sampling,        \* m_vstrSensorSampling: the sensors, in the code's order
  Periodic,        \* those sampled at intervals; the others on every change
  Components,      \* what the controller's sensors belong to
  ComponentOf,     \* the component of each sensor
  Callbacks,       \* callbacks of the handlers
  SensorOf,        \* the sensor whose messages reach a callback
  Handlers,        \* the file writer and the KATCP server
  Calls,           \* callbacks of handlers, in the order the code makes them:
                   \* one handler after the other
  MaxValue,        \* bound on the versions of a sensor's value, from 1
  MaxEvents,       \* bound on the components that go down or come up, the
                   \* connections lost and the recordings started, together
  Capacity         \* lines on their way before the controller holds back

Sensors == Range(Sampling)

ASSUME SensorsAssumption ==
  /\ Sampling \in Seq(Sensors) /\ Sampling # <<>>
  /\ IsInjective(Sampling)
  /\ Periodic \subseteq Sensors
  /\ ComponentOf \in [Sensors -> Components]
  /\ SensorOf \in [Callbacks -> Sensors]
  /\ Calls \in Seq(Handlers \X Callbacks) /\ Range(Calls) = Handlers \X Callbacks
  /\ {MaxValue, MaxEvents, Capacity} \subseteq Nat /\ MaxValue # 0

VARIABLES
  connected,   \* the connection is alive
  next,        \* per thread that subscribes: the sensor it is at, 0 for none
  requests,    \* ?sensor-sampling requests on their way
  lines,       \* lines on their way to the client
  calls,       \* of the message being passed on: the calls still to be made,
               \* places in Calls, with the value each passes
  held,        \* what each callback of each handler was last given, 0 if nothing
  up,          \* the components that are up
  sampled,     \* the sensors the controller samples for this connection
  value,       \* the sensors' values
  events       \* how many of the events bounded by MaxEvents there were

controller == <<up, sampled, value>>
handlers   == <<calls, held>>
vars       == <<connected, next, requests, lines, handlers, controller, events>>

Threads == {"connecting", "reading", "serving"}

Event == events < MaxEvents /\ events' = events + 1

Status(s) == [kind |-> "status", sensor |-> s, value |-> value[s]]
Plain(kind) == [kind |-> kind, sensor |-> Sampling[1], value |-> 0]

Init ==
  /\ connected = FALSE
  /\ next = [t \in Threads |-> 0]
  /\ requests = <<>>
  /\ lines = <<>>
  /\ calls = {}
  /\ held = [h \in Handlers |-> [c \in Callbacks |-> 0]]
  /\ up \in SUBSET Components
  /\ sampled = {}
  /\ value = [s \in Sensors |-> 1]
  /\ events = 0

-----------------------------------------------------------------------------
(* The client.                                                             *)

NextUnchecked(i) == i + 1    \* faulty: runs past the list

NextSkipping(i) ==    \* faulty: the last sensor is left out
  IF i >= Len(Sampling) - 1 THEN 0 ELSE i + 1

NextSensor(i) == IF i = Len(Sampling) THEN 0 ELSE i + 1

(* subscribeSensorData, a request at a time.  Whether it could be sent is  *)
(* not looked at.                                                          *)
Subscribe(t) ==
  /\ next[t] # 0
  /\ next' = [next EXCEPT ![t] = NextSensor(@)]
  /\ requests' = IF connected THEN Append(requests, Sampling[next[t]]) ELSE requests
  /\ UNCHANGED <<connected, lines, handlers, controller, events>>

(* ?startRecording on the KATCP server's thread ends with a subscription,  *)
(* whether or not the client is connected.                                 *)
StartRecording ==
  /\ next["serving"] = 0
  /\ Event
  /\ next' = [next EXCEPT !["serving"] = 1]
  /\ UNCHANGED <<connected, requests, lines, handlers, controller>>

(* The base class connects, again and again, and calls onConnected.        *)
OnConnected ==
  /\ ~connected
  /\ next["connecting"] = 0
  /\ connected' = TRUE
  /\ next' = [next EXCEPT !["connecting"] = 1]
  /\ lines' = <<Plain("ignored")>>
  /\ UNCHANGED <<requests, handlers, controller, events>>

(* The read thread takes a line when it is done with the one before it.    *)
ReadLine(kind) ==
  /\ next["reading"] = 0
  /\ calls = {}
  /\ lines # <<>>
  /\ Head(lines).kind = kind
  /\ lines' = Tail(lines)
  /\ UNCHANGED <<connected, requests, held, controller, events>>

(* Versions, logs, other clients, replies to requests, failed ones too,    *)
(* and lines shorter than a sensor's: at most something is printed.        *)
Ignore == ReadLine("ignored") /\ UNCHANGED <<next, calls>>

InterfaceIgnored ==    \* faulty: taken for one more line to ignore
  ReadLine("changed") /\ UNCHANGED <<next, calls>>

(* #interface-changed: subscribe to everything again.                      *)
InterfaceChanged ==
  /\ ReadLine("changed")
  /\ next' = [next EXCEPT !["reading"] = 1]
  /\ UNCHANGED calls

FirstCall(s) ==    \* faulty: one callback where a sensor has several
  {CHOOSE i \in DOMAIN Calls : SensorOf[Calls[i][2]] = s}

AnyCall(s) == DOMAIN Calls    \* faulty: the sensor is not looked at

FirstHandler(s) ==    \* faulty: the handlers held by another pointer are left out
  {i \in DOMAIN Calls : SensorOf[Calls[i][2]] = s /\ Calls[i][1] = Calls[1][1]}

(* The calls a message of a sensor leads to: in every handler one, or the  *)
(* four of a noise diode, which is one word for the controller.            *)
CallsOf(s) == {i \in DOMAIN Calls : SensorOf[Calls[i][2]] = s}

(* A sensor's message is taken apart, and is to be passed on.              *)
Deliver ==
  /\ ReadLine("status")
  /\ LET m == Head(lines)
     IN  calls' = {[at |-> i, value |-> m.value] : i \in CallsOf(m.sensor)}
  /\ UNCHANGED next

(* The next callback of a handler is called.  The message is not dropped   *)
(* when the connection is lost meanwhile.                                  *)
Call ==
  \E c \in calls :
    /\ \A d \in calls : c.at <= d.at
    /\ calls' = calls \ {c}
    /\ LET h == Calls[c.at][1]
           b == Calls[c.at][2]
       IN  held' = [held EXCEPT ![h][b] = c.value]
    /\ UNCHANGED <<connected, next, requests, lines, controller, events>>

ProcessMessage == Ignore \/ InterfaceChanged \/ Deliver \/ Call

-----------------------------------------------------------------------------
(* The station controller and the connection.                              *)

Send(new) == lines' = lines \o new

(* ?sensor-sampling: answered with the value, refused while the component  *)
(* is down.                                                                *)
Sample ==
  /\ requests # <<>>
  /\ LET s == Head(requests)
     IN  IF ComponentOf[s] \in up
         THEN sampled' = sampled \cup {s} /\ Send(<<Plain("ignored"), Status(s)>>)
         ELSE UNCHANGED sampled /\ Send(<<Plain("ignored")>>)
  /\ requests' = Tail(requests)
  /\ UNCHANGED <<connected, next, handlers, up, value, events>>

(* A value changes; a sensor sampled on every change is reported at once.  *)
Change(s) ==
  /\ ComponentOf[s] \in up
  /\ value[s] < MaxValue
  /\ value' = [value EXCEPT ![s] = @ + 1]
  /\ Send(IF s \in sampled \ Periodic THEN <<Status(s)'>> ELSE <<>>)
  /\ UNCHANGED <<connected, next, requests, handlers, up, sampled, events>>

(* A period has passed.                                                    *)
Report(s) ==
  /\ s \in sampled \cap Periodic
  /\ Len(lines) < Capacity
  /\ Send(<<Status(s)>>)
  /\ UNCHANGED <<connected, next, requests, handlers, controller, events>>

(* A component goes down, and its sensors are no longer sampled, or comes  *)
(* up: the interface changed.                                              *)
Component(c) ==
  /\ Event
  /\ up' = IF c \in up THEN up \ {c} ELSE up \cup {c}
  /\ sampled' = {s \in sampled : ComponentOf[s] # c}
  /\ Send(IF connected THEN <<Plain("changed")>> ELSE <<>>)
  /\ UNCHANGED <<connected, next, requests, handlers, value>>

Lose ==
  /\ connected
  /\ Event
  /\ connected' = FALSE
  /\ requests' = <<>>
  /\ lines' = <<>>
  /\ sampled' = {}
  /\ UNCHANGED <<next, handlers, up, value>>

Environment ==
  \/ Sample \/ Lose
  \/ \E s \in Sensors : Change(s) \/ Report(s)
  \/ \E c \in Components : Component(c)

-----------------------------------------------------------------------------
Next ==
  \/ OnConnected \/ StartRecording \/ ProcessMessage
  \/ \E t \in Threads : Subscribe(t)
  \/ Environment

Spec == Init /\ [][Next]_vars

(* The threads run, and the controller answers and keeps its periods.  *)
(* That a connection is made, or stays, is not assumed.                    *)
Fairness ==
  /\ WF_vars(ProcessMessage)
  /\ \A t \in Threads : WF_vars(Subscribe(t))
  /\ WF_vars(Sample)
  /\ \A s \in Sensors : WF_vars(Report(s))

FairSpec == Spec /\ Fairness
-----------------------------------------------------------------------------
(* Properties.                                                             *)

(* Every variable keeps the kind of value the code gives it.               *)
TypeOK ==
  /\ connected \in BOOLEAN
  /\ next \in [Threads -> 0..Len(Sampling)]
  /\ requests \in Seq(Sensors)
  /\ lines \in Seq([kind : {"ignored", "changed", "status"}, sensor : Sensors,
                    value : 0..MaxValue])
  /\ calls \subseteq [at : DOMAIN Calls, value : 0..MaxValue]
  /\ held \in [Handlers -> [Callbacks -> 0..MaxValue]]
  /\ up \subseteq Components
  /\ sampled \subseteq {s \in Sensors : ComponentOf[s] \in up}
  /\ value \in [Sensors -> 1..MaxValue]
  /\ events \in 0..MaxEvents

Reachable(s) == connected /\ ComponentOf[s] \in up

(* While a component is up, each of its sensors is sampled, or is yet to   *)
(* be: its request is on its way, a thread that subscribes has not come to *)
(* it, or has yet to read that the interface changed.  No loss, refusal or *)
(* second subscription at the same time makes the client forget one        *)
(* (106-120, 138-142, 208-216).                                            *)
NoneForgotten ==
  \A k \in DOMAIN Sampling :
    Reachable(Sampling[k]) /\ Sampling[k] \notin sampled =>
      \/ \E i \in DOMAIN requests : requests[i] = Sampling[k]
      \/ \E t \in Threads : next[t] \in 1..k
      \/ \E i \in DOMAIN lines : lines[i].kind = "changed"

(* A callback of a handler has the value, or is about to be given it.      *)
Receives(h, c, v) ==
  held[h][c] = v \/ \E d \in calls : Calls[d.at] = <<h, c>> /\ d.value = v

(* A sensor sampled on every change has its latest value in every callback *)
(* of every handler, or on its way there: no message is dropped or stays   *)
(* with one of the handlers (144-153, 233-618, 1032-1112).                 *)
LatestUnderWay ==
  \A s \in sampled \ Periodic :
    \/ \E i \in DOMAIN lines : lines[i] = Status(s)
    \/ \A h \in Handlers, c \in Callbacks :
         SensorOf[c] = s => Receives(h, c, value[s])

(* Between two messages the callbacks of a sensor agree, the four of a     *)
(* noise diode and those of the two handlers: none was left out of a       *)
(* message, and none was given a part of another one (233-618, 1070-1112). *)
CallbacksAgree ==
  calls = {} =>
    \A h, g \in Handlers, c, d \in Callbacks :
      SensorOf[c] = SensorOf[d] => held[h][c] = held[g][d]

Promise == INSTANCE SensorMirror

(* The handlers are a mirror of the controller's sensors: a callback is    *)
(* given no value that is made up and none older than it had, over         *)
(* connections that were lost and answers to several subscriptions         *)
(* (106-120, 233-618).                                                     *)
ImplementsMirror == Promise!Spec

(* "Any time the KATCP interface changes, we re-subscribe to all the       *)
(* sensors" (208-210): when the connection and a component last, the       *)
(* component's sensors are sampled for good, whatever failed, restarted or *)
(* was refused before.                                                     *)
SampledAgain ==
  \A s \in Sensors : <>[]Reachable(s) => <>[](s \in sampled)

(* Every callback of every handler ends up with its sensor's value once    *)
(* that no longer changes, over lost connections and restarts (233-618).   *)
LatestIsHeld ==
  \A h \in Handlers, c \in Callbacks, v \in 1..MaxValue :
    <>[](Reachable(SensorOf[c]) /\ value[SensorOf[c]] = v) => <>[](held[h][c] = v)
=============================================================================
