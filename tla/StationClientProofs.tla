-------------------------- MODULE StationClientProofs --------------------------
(***************************************************************************)
(* Proofs about StationClient, for any sensors, components, callbacks and  *)
(* handlers and any number of lost connections and restarts: no sensor is  *)
(* forgotten, no message is dropped, the callbacks of a sensor agree, and  *)
(* the handlers mirror the sensors.                                        *)
(***************************************************************************)
EXTENDS StationClient, TLAPS

-----------------------------------------------------------------------------
(* The inductive invariant.                                                *)

(* Nothing outlives a connection.                                          *)
WireInv == ~connected => requests = <<>> /\ lines = <<>> /\ sampled = {}

(* The values of a sensor that are on their way.                           *)
Reports == {i \in DOMAIN lines : lines[i].kind = "status"}

(* Who a call is made to, and the sensor whose value it passes.            *)
Handler(x) == Calls[x.at][1]
Callback(x) == Calls[x.at][2]
Subject(x) == SensorOf[Callback(x)]

(* A call to the callback of the handler is still to be made.              *)
Due(h, c) == \E x \in calls : Calls[x.at] = <<h, c>>

(* The calls come from one message, and the callbacks of its sensor whose  *)
(* turn is over have its value, as those of other sensors have one value.  *)
Together ==
  /\ \A x, y \in calls : x.value = y.value
  /\ \A h \in Handlers, c \in Callbacks : ~Due(h, c) =>
       /\ \A x \in calls : Subject(x) = SensorOf[c] => held[h][c] = x.value
       /\ \A g \in Handlers, d \in Callbacks :
            ~Due(g, d) /\ SensorOf[c] = SensorOf[d] => held[h][c] = held[g][d]

(* A sensor's values never run backwards from its callbacks, over the      *)
(* calls to be made and along the lines, to the sensor.                    *)
Ordered ==
  /\ \A i \in Reports : lines[i].value \in 1..value[lines[i].sensor]
  /\ \A i, j \in Reports :
       i < j /\ lines[i].sensor = lines[j].sensor => lines[i].value <= lines[j].value
  /\ \A h \in Handlers, c \in Callbacks :
       /\ held[h][c] <= value[SensorOf[c]]
       /\ \A i \in Reports : SensorOf[c] = lines[i].sensor => held[h][c] <= lines[i].value
       /\ \A x \in calls : SensorOf[c] = Subject(x) => held[h][c] <= x.value
  /\ \A x \in calls :
       /\ x.value \in 1..value[Subject(x)]
       /\ \A i \in Reports : Subject(x) = lines[i].sensor => x.value <= lines[i].value

ClientInv ==
  /\ TypeOK /\ WireInv /\ Ordered /\ Together /\ NoneForgotten /\ LatestUnderWay

(* The lines of TypeOK.                                                    *)
LineSet == [kind : {"ignored", "changed", "status"}, sensor : Sensors, value : 0..MaxValue]

-----------------------------------------------------------------------------
(* Sequences.                                                              *)

(* The places of a concatenation are those of its two parts.               *)
LEMMA Joined ==
  ASSUME NEW S, NEW s \in Seq(S), NEW t \in Seq(S)
  PROVE  /\ s \o t \in Seq(S)
         /\ \A i \in DOMAIN (s \o t) :
              \/ i \in DOMAIN s /\ (s \o t)[i] = s[i]
              \/ /\ i - Len(s) \in DOMAIN t /\ (s \o t)[i] = t[i - Len(s)]
                 /\ \A j \in DOMAIN s : j < i
         /\ \A i \in DOMAIN s : i \in DOMAIN (s \o t) /\ (s \o t)[i] = s[i]
         /\ \A i \in DOMAIN t :
              Len(s) + i \in DOMAIN (s \o t) /\ (s \o t)[Len(s) + i] = t[i]
  OBVIOUS

(* Those of a tail are those after the first.                              *)
LEMMA Taken ==
  ASSUME NEW S, NEW s \in Seq(S), s # <<>>
  PROVE  /\ Tail(s) \in Seq(S) /\ Head(s) = s[1] /\ 1 \in DOMAIN s /\ Head(s) \in S
         /\ \A i \in DOMAIN Tail(s) :
              i \in Nat \ {0} /\ i + 1 \in DOMAIN s /\ Tail(s)[i] = s[i + 1]
         /\ \A i \in DOMAIN s \ {1} : i - 1 \in DOMAIN Tail(s) /\ Tail(s)[i - 1] = s[i]
  OBVIOUS

LEMMA Appended ==
  ASSUME NEW S, NEW s \in Seq(S), NEW e \in S
  PROVE  /\ Append(s, e) \in Seq(S)
         /\ \A i \in DOMAIN s : i \in DOMAIN Append(s, e) /\ Append(s, e)[i] = s[i]
         /\ Len(s) + 1 \in DOMAIN Append(s, e) /\ Append(s, e)[Len(s) + 1] = e
  OBVIOUS

(* Short sequences, as the controller sends them.                          *)
LEMMA Short ==
  ASSUME NEW S, NEW d \in S, NEW e \in S
  PROVE  /\ <<>> \in Seq(S) /\ DOMAIN <<>> = {}
         /\ <<d>> \in Seq(S) /\ DOMAIN <<d>> = {1} /\ <<d>>[1] = d
         /\ <<d, e>> \in Seq(S) /\ DOMAIN <<d, e>> = {1, 2}
         /\ <<d, e>>[1] = d /\ <<d, e>>[2] = e
  OBVIOUS

(* The list of sensors.                                                    *)
LEMMA SensorList ==
  /\ \A k \in DOMAIN Sampling : k \in 1..Len(Sampling) /\ Sampling[k] \in Sensors
  /\ 1..Len(Sampling) = DOMAIN Sampling
  /\ Len(Sampling) \in Nat \ {0}
  /\ 1 \in DOMAIN Sampling
BY SensorsAssumption

LEMMA Limits == MaxValue \in Nat \ {0} /\ MaxEvents \in Nat /\ Capacity \in Nat
BY SensorsAssumption

(* What the controller sends.                                              *)
LEMMA LineTypes ==
  ASSUME TypeOK
  PROVE  /\ lines \in Seq(LineSet) /\ requests \in Seq(Sensors)
         /\ \A kind \in {"ignored", "changed"} : Plain(kind) \in LineSet
         /\ \A s \in Sensors : Status(s) \in LineSet
<1>1. lines \in Seq(LineSet) /\ requests \in Seq(Sensors)
  BY DEF TypeOK, LineSet
<1>2. \A kind \in {"ignored", "changed"} : Plain(kind) \in LineSet
  BY SensorList, Limits DEF Plain, LineSet
<1>3. \A s \in Sensors : Status(s) \in LineSet
  BY Limits DEF TypeOK, Status, LineSet
<1> QED
  BY <1>1, <1>2, <1>3

(* Who the calls are made to.                                              *)
LEMMA CallTypes ==
  ASSUME TypeOK, NEW x \in calls
  PROVE  /\ x \in [at : DOMAIN Calls, value : 0..MaxValue]
         /\ x.at \in DOMAIN Calls /\ x.value \in 0..MaxValue /\ x.value \in Nat
         /\ Handler(x) \in Handlers /\ Callback(x) \in Callbacks
         /\ Subject(x) \in Sensors
         /\ Calls[x.at] = <<Handler(x), Callback(x)>>
<1>1. x \in [at : DOMAIN Calls, value : 0..MaxValue]
  BY DEF TypeOK
<1>2. x.at \in DOMAIN Calls /\ x.value \in 0..MaxValue /\ x.value \in Nat
  BY <1>1, Limits
<1>3. Calls[x.at] \in Handlers \X Callbacks
  BY <1>2, SensorsAssumption
<1> QED
  BY <1>1, <1>2, <1>3, SensorsAssumption DEF Handler, Callback, Subject

(* A call changes what one callback of one handler has.                    *)
LEMMA CallMade ==
  ASSUME TypeOK, Call
  PROVE  /\ UNCHANGED <<connected, next, requests, lines, controller, events>>
         /\ \E x \in calls :
              /\ calls' = calls \ {x}
              /\ held' \in [Handlers -> [Callbacks -> 0..MaxValue]]
              /\ \A h \in Handlers, c \in Callbacks :
                   held'[h][c] = IF h = Handler(x) /\ c = Callback(x)
                                 THEN x.value ELSE held[h][c]
<1>1. PICK x \in calls :
        /\ calls' = calls \ {x}
        /\ held' = [held EXCEPT ![Handler(x)][Callback(x)] = x.value]
        /\ UNCHANGED <<connected, next, requests, lines, controller, events>>
  BY DEF Call, Handler, Callback
<1>2. /\ Handler(x) \in Handlers /\ Callback(x) \in Callbacks
      /\ x.value \in 0..MaxValue
  BY CallTypes
<1>3. held \in [Handlers -> [Callbacks -> 0..MaxValue]]
  BY DEF TypeOK
<1>4. held' \in [Handlers -> [Callbacks -> 0..MaxValue]]
  BY <1>1, <1>2, <1>3
<1>5. ASSUME NEW h \in Handlers, NEW c \in Callbacks
      PROVE  held'[h][c] = IF h = Handler(x) /\ c = Callback(x)
                           THEN x.value ELSE held[h][c]
  BY <1>1, <1>2, <1>3
<1> QED
  BY <1>1, <1>4, <1>5

(* A message that is taken up leads to a call for every callback of its    *)
(* sensor in every handler, and to no other.                               *)
LEMMA TakenUp ==
  ASSUME TypeOK, Deliver
  PROVE  /\ calls = {} /\ UNCHANGED held
         /\ \A x \in calls' :
              /\ x \in [at : DOMAIN Calls, value : {Head(lines).value}]
              /\ Subject(x) = Head(lines).sensor /\ x.value = Head(lines).value
         /\ \A h \in Handlers, c \in Callbacks :
              SensorOf[c] = Head(lines).sensor => Due(h, c)'
<1> DEFINE m == Head(lines)
<1> HIDE DEF m
<1>1. /\ calls = {} /\ UNCHANGED held
      /\ calls' = {[at |-> i, value |-> m.value] : i \in CallsOf(m.sensor)}
  BY DEF Deliver, ReadLine, m
<1>2. ASSUME NEW x \in calls'
      PROVE  /\ x \in [at : DOMAIN Calls, value : {m.value}]
             /\ Subject(x) = m.sensor /\ x.value = m.value
  BY <1>1 DEF CallsOf, Subject, Callback
<1>3. ASSUME NEW h \in Handlers, NEW c \in Callbacks, SensorOf[c] = m.sensor
      PROVE  \E x \in calls' : Calls[x.at] = <<h, c>>
  <2>1. <<h, c>> \in Range(Calls)
    BY SensorsAssumption
  <2>2. PICK i \in DOMAIN Calls : Calls[i] = <<h, c>>
    BY <2>1 DEF Range
  <2>3. i \in CallsOf(m.sensor)
    BY <1>3, <2>2 DEF CallsOf
  <2>4. [at |-> i, value |-> m.value] \in calls'
    BY <1>1, <2>3
  <2> QED
    BY <2>2, <2>4
<1> QED
  BY <1>1, <1>2, <1>3 DEF m, Due

-----------------------------------------------------------------------------
(* Every step keeps each part.                                             *)

(* Types: what is sent and taken is of its kind, and a sensor is sampled   *)
(* only while its component is up. *)
LEMMA TypeStep == TypeOK /\ [Next]_vars => TypeOK'
<1> SUFFICES ASSUME TypeOK, [Next]_vars PROVE TypeOK'
  OBVIOUS
<1>a. lines \in Seq(LineSet) /\ requests \in Seq(Sensors)
  BY LineTypes
<1>b. ASSUME NEW t \in Seq(LineSet), Send(t) PROVE lines' \in Seq(LineSet)
  BY <1>a, <1>b, Joined DEF Send
<1>c. ASSUME NEW kind, ReadLine(kind) PROVE lines' \in Seq(LineSet)
  BY <1>a, <1>c, Taken DEF ReadLine
<1>d. ASSUME NEW t PROVE [next EXCEPT ![t] = 1] \in [Threads -> 0..Len(Sampling)]
  <2>1. 1 \in 0..Len(Sampling)
    BY SensorList
  <2> QED
    BY <2>1 DEF TypeOK
<1> USE Limits, SensorList DEF TypeOK, controller, handlers, LineSet
<1>1. ASSUME NEW t \in Threads, Subscribe(t) PROVE TypeOK'
  <2>1. next[t] \in DOMAIN Sampling /\ NextSensor(next[t]) \in 0..Len(Sampling)
    BY <1>1 DEF Subscribe, NextSensor
  <2>2. Append(requests, Sampling[next[t]]) \in Seq(Sensors)
    BY <1>a, <2>1, Appended
  <2>3. next' \in [Threads -> 0..Len(Sampling)] /\ requests' \in Seq(Sensors)
    BY <1>1, <2>1, <2>2 DEF Subscribe
  <2> QED
    BY <1>1, <2>3 DEF Subscribe
<1>2. CASE StartRecording
  <2>1. next' \in [Threads -> 0..Len(Sampling)] /\ events' \in 0..MaxEvents
    BY <1>2, <1>d DEF StartRecording, Event
  <2> QED
    BY <1>2, <2>1 DEF StartRecording
<1>3. CASE OnConnected
  <2>1. next' \in [Threads -> 0..Len(Sampling)]
    BY <1>3, <1>d DEF OnConnected
  <2>2. lines' \in Seq(LineSet)
    BY <1>3, LineTypes, Short DEF OnConnected
  <2>3. connected' \in BOOLEAN
    BY <1>3, Zenon DEF OnConnected
  <2> QED
    BY <1>3, <2>1, <2>2, <2>3 DEF OnConnected
<1>4. CASE Ignore
  BY <1>4, <1>c DEF Ignore, ReadLine
<1>5. CASE InterfaceChanged
  <2>1. next' \in [Threads -> 0..Len(Sampling)]
    BY <1>5, <1>d DEF InterfaceChanged
  <2> QED
    BY <1>5, <1>c, <2>1 DEF InterfaceChanged, ReadLine
<1>6. CASE Deliver
  <2>1. Head(lines) \in LineSet
    BY <1>a, <1>6, Taken DEF Deliver, ReadLine
  <2>2. Head(lines).value \in 0..MaxValue
    BY <2>1
  <2>3. calls' \subseteq [at : DOMAIN Calls, value : 0..MaxValue]
    BY <1>6, <2>2, TakenUp
  <2> QED
    BY <1>6, <1>c, <2>3 DEF Deliver, ReadLine
<1>13. CASE Call
  <2>1. calls' \subseteq calls /\ held' \in [Handlers -> [Callbacks -> 0..MaxValue]]
    BY <1>13, CallMade
  <2>2. UNCHANGED <<connected, next, requests, lines, controller, events>>
    BY <1>13, CallMade
  <2> QED
    BY <2>1, <2>2
<1>7. CASE Sample
  <2>1. Head(requests) \in Sensors /\ requests' \in Seq(Sensors)
    BY <1>a, <1>7, Taken DEF Sample
  <2>2. lines' \in Seq(LineSet)
    <3>1. /\ <<Plain("ignored"), Status(Head(requests))>> \in Seq(LineSet)
          /\ <<Plain("ignored")>> \in Seq(LineSet)
      BY <2>1, LineTypes, Short
    <3> QED
      BY <1>7, <1>b, <3>1 DEF Sample
  <2>3. sampled' \subseteq {s \in Sensors : ComponentOf[s] \in up}
    BY <1>7, <2>1 DEF Sample
  <2> QED
    BY <1>7, <2>1, <2>2, <2>3 DEF Sample
<1>8. ASSUME NEW s \in Sensors, Change(s) PROVE TypeOK'
  <2>1. value' \in [Sensors -> 1..MaxValue]
    BY <1>8 DEF Change
  <2>2. lines' \in Seq(LineSet)
    <3>1. Status(s)' \in LineSet
      BY <2>1 DEF Status
    <3>2. <<Status(s)'>> \in Seq(LineSet) /\ <<>> \in Seq(LineSet)
      BY <3>1, Short
    <3> QED
      BY <1>8, <1>b, <3>2 DEF Change
  <2> QED
    BY <1>8, <2>1, <2>2 DEF Change
<1>9. ASSUME NEW s \in Sensors, Report(s) PROVE TypeOK'
  <2>1. <<Status(s)>> \in Seq(LineSet)
    BY LineTypes, Short
  <2>2. lines' \in Seq(LineSet)
    BY <1>9, <1>b, <2>1 DEF Report
  <2> QED
    BY <1>9, <2>2 DEF Report
<1>10. ASSUME NEW c \in Components, Component(c) PROVE TypeOK'
  <2>1. <<Plain("changed")>> \in Seq(LineSet) /\ <<>> \in Seq(LineSet)
    BY LineTypes, Short
  <2>2. lines' \in Seq(LineSet)
    BY <1>10, <1>b, <2>1 DEF Component
  <2>3. up' \subseteq Components /\ events' \in 0..MaxEvents
    BY <1>10 DEF Component, Event
  <2>4. sampled' \subseteq {s \in Sensors : ComponentOf[s] \in up'}
    BY <1>10 DEF Component
  <2> QED
    BY <1>10, <2>2, <2>3, <2>4 DEF Component
<1>11. CASE Lose
  <2>1. connected' \in BOOLEAN /\ events' \in 0..MaxEvents
    <3>1. connected' \in BOOLEAN
      BY <1>11, Zenon DEF Lose
    <3> QED
      BY <1>11, <3>1 DEF Lose, Event
  <2>2. requests' \in Seq(Sensors) /\ lines' \in Seq(LineSet)
    BY <1>11 DEF Lose
  <2> QED
    BY <1>11, <2>1, <2>2 DEF Lose
<1>12. CASE UNCHANGED vars
  BY <1>12 DEF vars
<1> QED
  BY <1>1, <1>2, <1>3, <1>4, <1>5, <1>6, <1>7, <1>8, <1>9, <1>10, <1>11, <1>12, <1>13
     DEF Next, ProcessMessage, Environment

(* What the controller does without a connection leaves no trace.          *)
LEMMA WireStep == TypeOK /\ WireInv /\ [Next]_vars => WireInv'
<1> SUFFICES ASSUME TypeOK, WireInv, [Next]_vars PROVE WireInv'
  OBVIOUS
<1>a. lines \in Seq(LineSet) /\ lines \o <<>> = lines
  BY LineTypes
<1> USE DEF WireInv, controller, handlers
<1>1. CASE ProcessMessage
  BY <1>1 DEF ProcessMessage, Ignore, InterfaceChanged, Deliver, Call, ReadLine
<1>2. ASSUME NEW t \in Threads, Subscribe(t) PROVE WireInv'
  BY <1>2 DEF Subscribe
<1>3. CASE StartRecording \/ OnConnected
  BY <1>3 DEF StartRecording, OnConnected
<1>4. CASE Environment
  BY <1>4, <1>a DEF Environment, Sample, Lose, Change, Report, Component, Send
<1>5. CASE UNCHANGED vars
  BY <1>5 DEF vars
<1> QED
  BY <1>1, <1>2, <1>3, <1>4, <1>5 DEF Next

(* Nothing is sent but sensors' present values, which are the newest.      *)
LEMMA OrderedWhenSent ==
  ASSUME TypeOK, TypeOK', Ordered, NEW t \in Seq(LineSet), Send(t), UNCHANGED handlers,
         \A s \in Sensors : value[s] <= value'[s],
         \A i \in DOMAIN t : t[i].kind = "status" => t[i].value = value'[t[i].sensor]
  PROVE  Ordered'
<1>a. lines \in Seq(LineSet) /\ lines' = lines \o t
  BY LineTypes DEF Send
<1>b. \A s \in Sensors : value[s] \in Nat /\ value'[s] \in Nat /\ value'[s] >= 1
  BY Limits DEF TypeOK
<1>c. \A h \in Handlers, c \in Callbacks : held[h][c] \in Nat /\ SensorOf[c] \in Sensors
  BY Limits, SensorsAssumption DEF TypeOK
<1>d. \A l \in LineSet : l.sensor \in Sensors /\ l.value \in Nat
  BY Limits DEF LineSet
<1>e. \A i \in Reports : lines[i] \in LineSet /\ i \in Nat
  BY <1>a DEF Reports
<1>1. ASSUME NEW i \in Reports'
      PROVE  /\ \/ i \in Reports /\ lines'[i] = lines[i]
                \/ /\ lines'[i].value = value'[lines'[i].sensor]
                   /\ \A j \in Reports : j < i
             /\ lines'[i].sensor \in Sensors
             /\ i \in Nat
  <2>1. CASE i \in DOMAIN lines /\ lines'[i] = lines[i]
    <3>1. i \in Reports
      BY <1>1, <2>1 DEF Reports
    <3> QED
      BY <1>d, <1>e, <2>1, <3>1
  <2>2. CASE /\ i - Len(lines) \in DOMAIN t /\ lines'[i] = t[i - Len(lines)]
             /\ \A j \in DOMAIN lines : j < i
    <3>1. t[i - Len(lines)] \in LineSet
      BY <2>2
    <3>2. i \in Nat
      BY <1>1, <1>a DEF Reports
    <3> QED
      BY <1>1, <1>d, <2>2, <3>1, <3>2 DEF Reports
  <2> QED
    BY <1>1, <1>a, <2>1, <2>2, Joined DEF Reports
<1>2. \A i \in Reports' : lines'[i].value \in 1..value'[lines'[i].sensor]
  BY <1>1, <1>b, <1>d, <1>e DEF Ordered
<1>3. ASSUME NEW i \in Reports', NEW j \in Reports', i < j,
             lines'[i].sensor = lines'[j].sensor
      PROVE  lines'[i].value <= lines'[j].value
  <2>1. CASE j \in Reports /\ lines'[j] = lines[j]
    <3>1. i \in Reports /\ lines'[i] = lines[i]
      BY <1>1, <1>3, <2>1
    <3> QED
      BY <1>3, <2>1, <3>1 DEF Ordered
  <2>2. CASE lines'[j].value = value'[lines'[j].sensor]
    BY <1>2, <1>3, <2>2, <1>1, <1>b
  <2> QED
    BY <1>1, <2>1, <2>2
<1>f. \A x \in calls : x.value \in Nat /\ Subject(x) \in Sensors
  BY CallTypes
<1>g. calls' = calls /\ held' = held
  BY DEF handlers
<1>4. ASSUME NEW h \in Handlers, NEW c \in Callbacks
      PROVE  /\ held'[h][c] <= value'[SensorOf[c]]
             /\ \A i \in Reports' :
                  SensorOf[c] = lines'[i].sensor => held'[h][c] <= lines'[i].value
             /\ \A x \in calls' : SensorOf[c] = Subject(x) => held'[h][c] <= x.value
  <2>1. held'[h][c] = held[h][c] /\ held[h][c] <= value'[SensorOf[c]]
    BY <1>b, <1>c, <1>g DEF Ordered
  <2> QED
    BY <1>1, <1>g, <2>1 DEF Ordered
<1>5. ASSUME NEW x \in calls'
      PROVE  /\ x.value \in 1..value'[Subject(x)]
             /\ \A i \in Reports' : Subject(x) = lines'[i].sensor => x.value <= lines'[i].value
  <2>1. x.value \in 1..value[Subject(x)] /\ x.value \in 1..value'[Subject(x)]
    BY <1>b, <1>f, <1>g DEF Ordered
  <2> QED
    BY <1>1, <1>g, <2>1 DEF Ordered
<1> QED
  BY <1>2, <1>3, <1>4, <1>5 DEF Ordered

(* The lines that are left are those there were.                           *)
LEMMA ReadReports ==
  ASSUME TypeOK, NEW kind, ReadLine(kind)
  PROVE  /\ \A i \in Reports' :
              i \in Nat \ {0} /\ i + 1 \in Reports /\ lines'[i] = lines[i + 1]
         /\ Head(lines) = lines[1] /\ 1 \in DOMAIN lines /\ lines[1] \in LineSet
<1> lines \in Seq(LineSet) /\ lines # <<>> /\ lines' = Tail(lines)
  BY LineTypes DEF ReadLine
<1> QED
  BY Taken DEF Reports

(* A message reaches all the callbacks of its sensor before the next one   *)
(* is taken up.                                                            *)
LEMMA TogetherStep == TypeOK /\ Together /\ [Next]_vars => Together'
<1> SUFFICES ASSUME TypeOK, Together, [Next]_vars PROVE Together'
  OBVIOUS
<1>a. ASSUME UNCHANGED handlers PROVE Together'
  <2>1. calls' = calls /\ held' = held
    BY <1>a DEF handlers
  <2>2. \A h \in Handlers, c \in Callbacks : Due(h, c)' <=> Due(h, c)
    BY <2>1 DEF Due
  <2> QED
    BY <2>1, <2>2 DEF Together
<1>1. CASE Deliver
  <2> DEFINE m == Head(lines)
  <2>1. /\ calls = {} /\ held' = held
        /\ \A x \in calls' : Subject(x) = m.sensor /\ x.value = m.value
        /\ \A h \in Handlers, c \in Callbacks : SensorOf[c] = m.sensor => Due(h, c)'
    BY <1>1, TakenUp
  <2> HIDE DEF m
  <2>2. \A h \in Handlers, c \in Callbacks : ~Due(h, c)
    BY <2>1 DEF Due
  <2>3. \A x, y \in calls' : x.value = y.value
    BY <2>1
  <2>4. ASSUME NEW h \in Handlers, NEW c \in Callbacks, ~Due(h, c)'
        PROVE  /\ \A x \in calls' : Subject(x) = SensorOf[c] => held'[h][c] = x.value
               /\ \A g \in Handlers, d \in Callbacks :
                    ~Due(g, d)' /\ SensorOf[c] = SensorOf[d] => held'[h][c] = held'[g][d]
    BY <2>1, <2>2, <2>4 DEF Together
  <2> QED
    BY <2>3, <2>4 DEF Together
<1>2. CASE Call
  <2>1. PICK x \in calls :
          /\ calls' = calls \ {x}
          /\ \A h \in Handlers, c \in Callbacks :
               held'[h][c] = IF h = Handler(x) /\ c = Callback(x)
                             THEN x.value ELSE held[h][c]
    BY <1>2, CallMade
  <2> DEFINE Made(h, c) == h = Handler(x) /\ c = Callback(x)
  <2>2. Calls[x.at] = <<Handler(x), Callback(x)>>
    BY CallTypes
  <2>3. ASSUME NEW h \in Handlers, NEW c \in Callbacks, ~Due(h, c)'
        PROVE  \/ Made(h, c) /\ held'[h][c] = x.value /\ SensorOf[c] = Subject(x)
               \/ ~Due(h, c) /\ held'[h][c] = held[h][c]
    <3>1. CASE Made(h, c)
      BY <2>1, <3>1 DEF Subject
    <3>2. CASE ~Made(h, c)
      <4>1. \A y \in calls : Calls[y.at] = <<h, c>> => y # x
        BY <2>2, <3>2
      <4>2. ~Due(h, c)
        BY <2>1, <2>3, <4>1 DEF Due
      <4> QED
        BY <2>1, <3>2, <4>2
    <3> QED
      BY <3>1, <3>2
  <2> HIDE DEF Made
  <2>4. \A y \in calls' : y \in calls /\ y.value = x.value
    BY <2>1 DEF Together
  <2>5. ASSUME NEW h \in Handlers, NEW c \in Callbacks, ~Due(h, c)'
        PROVE  /\ \A y \in calls' : Subject(y) = SensorOf[c] => held'[h][c] = y.value
               /\ SensorOf[c] = Subject(x) => held'[h][c] = x.value
    BY <2>3, <2>4, <2>5 DEF Together
  <2>6. ASSUME NEW h \in Handlers, NEW c \in Callbacks, ~Due(h, c)',
               NEW g \in Handlers, NEW d \in Callbacks, ~Due(g, d)',
               SensorOf[c] = SensorOf[d]
        PROVE  held'[h][c] = held'[g][d]
    <3>1. CASE SensorOf[c] = Subject(x)
      BY <2>5, <2>6, <3>1
    <3>2. CASE SensorOf[c] # Subject(x)
      BY <2>3, <2>6, <3>2 DEF Together
    <3> QED
      BY <3>1, <3>2
  <2> QED
    BY <2>4, <2>5, <2>6 DEF Together
<1> USE DEF handlers
<1>3. CASE Ignore \/ InterfaceChanged \/ UNCHANGED vars
  BY <1>3, <1>a DEF Ignore, InterfaceChanged, ReadLine, vars
<1>4. CASE OnConnected \/ StartRecording \/ \E t \in Threads : Subscribe(t)
  BY <1>4, <1>a DEF OnConnected, StartRecording, Subscribe
<1>5. CASE Environment
  BY <1>5, <1>a DEF Environment, Sample, Lose, Change, Report, Component
<1> QED
  BY <1>1, <1>2, <1>3, <1>4, <1>5 DEF Next, ProcessMessage

(* The callbacks and the lines stay in order.                              *)
LEMMA OrderStep == TypeOK /\ Together /\ Ordered /\ [Next]_vars => Ordered'
<1> SUFFICES ASSUME TypeOK, Together, Ordered, [Next]_vars PROVE Ordered'
  OBVIOUS
<1>a. TypeOK'
  BY TypeStep
<1>b. \A s \in Sensors : value[s] \in 1..MaxValue /\ MaxValue \in Nat
  BY Limits DEF TypeOK
<1>c. UNCHANGED <<lines, handlers, value>> => Ordered'
  BY DEF Ordered, Reports, handlers
<1>d. UNCHANGED <<handlers, value>> /\ Reports' = {} => Ordered'
  BY DEF Ordered, handlers
<1> USE DEF controller
<1>1. ASSUME NEW t \in Threads, Subscribe(t) PROVE Ordered'
  BY <1>1, <1>c DEF Subscribe
<1>2. CASE StartRecording \/ UNCHANGED vars
  BY <1>2, <1>c DEF StartRecording, vars
<1>3. CASE OnConnected
  <2>1. Reports' = {}
    <3>1. \A i \in DOMAIN lines' : lines'[i] = Plain("ignored")
      BY <1>3 DEF OnConnected
    <3> QED
      BY <3>1 DEF Reports, Plain
  <2> QED
    BY <1>3, <1>d, <2>1 DEF OnConnected
<1>4. CASE Ignore \/ InterfaceChanged
  <2>1. PICK kind \in {"ignored", "changed"} : ReadLine(kind) /\ UNCHANGED calls
    BY <1>4 DEF Ignore, InterfaceChanged
  <2>2. UNCHANGED <<held, value>>
    BY <2>1 DEF ReadLine
  <2>3. \A i \in Reports' : i \in Nat /\ i + 1 \in Reports /\ lines'[i] = lines[i + 1]
    BY <2>1, ReadReports
  <2> QED
    BY <2>1, <2>2, <2>3 DEF Ordered
<1>5. CASE Deliver
  <2>1. ReadLine("status") /\ UNCHANGED value /\ lines[1].kind = "status"
    BY <1>5, ReadReports DEF Deliver, ReadLine
  <2> DEFINE m == lines[1]
  <2>2. \A i \in Reports' : i \in Nat \ {0} /\ i + 1 \in Reports /\ lines'[i] = lines[i + 1]
    BY <2>1, ReadReports
  <2>3. Head(lines) = m /\ 1 \in Reports
    BY <2>1, ReadReports DEF Reports
  <2>4. m.value \in 1..value[m.sensor]
    BY <2>3 DEF Ordered
  <2>5. \A i \in Reports' : lines'[i].sensor = m.sensor => m.value <= lines'[i].value
    <3>1. \A i \in Reports' : 1 < i + 1
      BY <2>2
    <3> QED
      BY <2>2, <2>3, <3>1 DEF Ordered
  <2>6. /\ calls = {} /\ UNCHANGED held
        /\ \A x \in calls' : Subject(x) = m.sensor /\ x.value = m.value
    BY <1>5, <2>3, TakenUp
  <2>7. \A h \in Handlers, c \in Callbacks :
          SensorOf[c] = m.sensor => held[h][c] <= m.value
    BY <2>3 DEF Ordered
  <2> HIDE DEF m
  <2>8. ASSUME NEW h \in Handlers, NEW c \in Callbacks
        PROVE  /\ held'[h][c] <= value'[SensorOf[c]]
               /\ \A i \in Reports' :
                    SensorOf[c] = lines'[i].sensor => held'[h][c] <= lines'[i].value
               /\ \A x \in calls' : SensorOf[c] = Subject(x) => held'[h][c] <= x.value
    BY <2>1, <2>2, <2>6, <2>7 DEF Ordered
  <2>9. ASSUME NEW x \in calls'
        PROVE  /\ x.value \in 1..value'[Subject(x)]
               /\ \A i \in Reports' :
                    Subject(x) = lines'[i].sensor => x.value <= lines'[i].value
    BY <2>1, <2>4, <2>5, <2>6
  <2>10. \A i \in Reports' : lines'[i].value \in 1..value'[lines'[i].sensor]
    BY <2>1, <2>2 DEF Ordered
  <2>11. ASSUME NEW i \in Reports', NEW j \in Reports', i < j,
                lines'[i].sensor = lines'[j].sensor
         PROVE  lines'[i].value <= lines'[j].value
    BY <2>2, <2>11 DEF Ordered
  <2> QED
    BY <2>8, <2>9, <2>10, <2>11 DEF Ordered
<1>11. CASE Call
  <2>1. /\ UNCHANGED <<lines, value>>
        /\ \E x \in calls :
             /\ calls' = calls \ {x}
             /\ \A h \in Handlers, c \in Callbacks :
                  held'[h][c] = IF h = Handler(x) /\ c = Callback(x)
                                THEN x.value ELSE held[h][c]
    BY <1>11, CallMade
  <2>2. PICK x \in calls :
          /\ calls' = calls \ {x}
          /\ \A h \in Handlers, c \in Callbacks :
               held'[h][c] = IF h = Handler(x) /\ c = Callback(x)
                             THEN x.value ELSE held[h][c]
    BY <2>1
  <2>3. Reports' = Reports
    BY <2>1 DEF Reports
  <2>4. ASSUME NEW h \in Handlers, NEW c \in Callbacks
        PROVE  /\ held'[h][c] <= value'[SensorOf[c]]
               /\ \A i \in Reports' :
                    SensorOf[c] = lines'[i].sensor => held'[h][c] <= lines'[i].value
               /\ \A y \in calls' : SensorOf[c] = Subject(y) => held'[h][c] <= y.value
    <3>1. CASE h = Handler(x) /\ c = Callback(x)
      <4>1. held'[h][c] = x.value /\ SensorOf[c] = Subject(x)
        BY <2>2, <3>1 DEF Subject
      <4>2. \A y \in calls' : y.value = x.value
        BY <2>2 DEF Together
      <4>3. x.value \in 1..value[Subject(x)] /\ x.value \in Nat /\ value[Subject(x)] \in Nat
        BY <1>b, CallTypes DEF Ordered
      <4> QED
        BY <2>1, <2>3, <4>1, <4>2, <4>3 DEF Ordered
    <3>2. CASE ~(h = Handler(x) /\ c = Callback(x))
      <4>1. held'[h][c] = held[h][c]
        BY <2>2, <3>2
      <4> QED
        BY <2>1, <2>2, <2>3, <4>1 DEF Ordered
    <3> QED
      BY <3>1, <3>2
  <2>5. ASSUME NEW y \in calls'
        PROVE  /\ y.value \in 1..value'[Subject(y)]
               /\ \A i \in Reports' :
                    Subject(y) = lines'[i].sensor => y.value <= lines'[i].value
    BY <2>1, <2>2, <2>3 DEF Ordered
  <2> QED
    BY <2>1, <2>3, <2>4, <2>5 DEF Ordered
<1>6. CASE Sample
  <2>1. Head(requests) \in Sensors
    BY <1>6, LineTypes, Taken DEF Sample
  <2> DEFINE p == Plain("ignored")
             q == Status(Head(requests))
  <2>2. p \in LineSet /\ q \in LineSet
    BY <2>1, LineTypes
  <2>3. p.kind # "status" /\ q.value = value[q.sensor]
    BY DEF Plain, Status
  <2>4. (Send(<<p, q>>) \/ Send(<<p>>)) /\ UNCHANGED <<handlers, value>>
    BY <1>6 DEF Sample
  <2>5. \A s \in Sensors : value[s] <= value'[s]
    BY <1>b, <2>4
  <2> HIDE DEF p, q
  <2>6. CASE Send(<<p, q>>)
    <3>1. /\ <<p, q>> \in Seq(LineSet)
          /\ \A i \in DOMAIN <<p, q>> :
               <<p, q>>[i].kind = "status" => <<p, q>>[i].value = value'[<<p, q>>[i].sensor]
      BY <2>2, <2>3, <2>4, Short
    <3> QED
      BY <1>a, <2>4, <2>5, <2>6, <3>1, OrderedWhenSent
  <2>7. CASE Send(<<p>>)
    <3>1. /\ <<p>> \in Seq(LineSet)
          /\ \A i \in DOMAIN <<p>> :
               <<p>>[i].kind = "status" => <<p>>[i].value = value'[<<p>>[i].sensor]
      BY <2>2, <2>3, Short
    <3> QED
      BY <1>a, <2>4, <2>5, <2>7, <3>1, OrderedWhenSent
  <2> QED
    BY <2>4, <2>6, <2>7
<1>7. ASSUME NEW s \in Sensors, Change(s) PROVE Ordered'
  <2>1. \A r \in Sensors : value[r] <= value'[r]
    BY <1>7, <1>b DEF Change, TypeOK
  <2> DEFINE q == Status(s)'
  <2>2. q \in LineSet
    BY <1>a, Limits DEF TypeOK, Status, LineSet
  <2>3. q.value = value'[q.sensor]
    BY DEF Status
  <2>4. (Send(<<q>>) \/ Send(<<>>)) /\ UNCHANGED handlers
    BY <1>7 DEF Change
  <2> HIDE DEF q
  <2>5. CASE Send(<<q>>)
    <3>1. /\ <<q>> \in Seq(LineSet)
          /\ \A i \in DOMAIN <<q>> :
               <<q>>[i].kind = "status" => <<q>>[i].value = value'[<<q>>[i].sensor]
      BY <2>2, <2>3, Short
    <3> QED
      BY <1>a, <2>1, <2>4, <2>5, <3>1, OrderedWhenSent
  <2>6. CASE Send(<<>>)
    BY <1>a, <2>1, <2>2, <2>4, <2>6, Short, OrderedWhenSent
  <2> QED
    BY <2>4, <2>5, <2>6
<1>8. ASSUME NEW s \in Sensors, Report(s) PROVE Ordered'
  <2> DEFINE q == Status(s)
  <2>1. q \in LineSet
    BY LineTypes
  <2>2. q.value = value[q.sensor]
    BY DEF Status
  <2>3. Send(<<q>>) /\ UNCHANGED <<handlers, value>>
    BY <1>8 DEF Report
  <2>4. \A r \in Sensors : value[r] <= value'[r]
    BY <1>b, <2>3
  <2> HIDE DEF q
  <2>5. /\ <<q>> \in Seq(LineSet)
        /\ \A i \in DOMAIN <<q>> :
             <<q>>[i].kind = "status" => <<q>>[i].value = value'[<<q>>[i].sensor]
    BY <2>1, <2>2, <2>3, Short
  <2> QED
    BY <1>a, <2>3, <2>4, <2>5, OrderedWhenSent
<1>9. ASSUME NEW c \in Components, Component(c) PROVE Ordered'
  <2> DEFINE p == Plain("changed")
  <2>1. p \in LineSet
    BY LineTypes
  <2>2. p.kind # "status"
    BY DEF Plain
  <2>3. (Send(<<p>>) \/ Send(<<>>)) /\ UNCHANGED <<handlers, value>>
    BY <1>9 DEF Component
  <2>4. \A r \in Sensors : value[r] <= value'[r]
    BY <1>b, <2>3
  <2> HIDE DEF p
  <2>5. CASE Send(<<p>>)
    <3>1. /\ <<p>> \in Seq(LineSet)
          /\ \A i \in DOMAIN <<p>> :
               <<p>>[i].kind = "status" => <<p>>[i].value = value'[<<p>>[i].sensor]
      BY <2>1, <2>2, Short
    <3> QED
      BY <1>a, <2>3, <2>4, <2>5, <3>1, OrderedWhenSent
  <2>6. CASE Send(<<>>)
    BY <1>a, <2>1, <2>3, <2>4, <2>6, Short, OrderedWhenSent
  <2> QED
    BY <2>3, <2>5, <2>6
<1>10. CASE Lose
  <2>1. Reports' = {}
    BY <1>10 DEF Lose, Reports
  <2> QED
    BY <1>10, <1>d, <2>1 DEF Lose
<1> QED
  BY <1>1, <1>2, <1>3, <1>4, <1>5, <1>6, <1>7, <1>8, <1>9, <1>10, <1>11
     DEF Next, ProcessMessage, Environment

(* A sensor's latest value is on its way, or has arrived everywhere.       *)
Latest(s) ==
  \/ \E i \in DOMAIN lines : lines[i] = Status(s)
  \/ \A h \in Handlers, c \in Callbacks :
       SensorOf[c] = s => Receives(h, c, value[s])

LEMMA LatestMeans == LatestUnderWay <=> \A s \in sampled \ Periodic : Latest(s)
BY DEF LatestUnderWay, Latest

(* What is sent pushes no line off the connection.                         *)
LEMMA LatestWhenSent ==
  ASSUME TypeOK, NEW t \in Seq(LineSet), Send(t), UNCHANGED handlers,
         NEW s \in Sensors, value'[s] = value[s], Latest(s)
  PROVE  Latest(s)'
<1>1. lines \in Seq(LineSet) /\ lines' = lines \o t
  BY LineTypes DEF Send
<1>2. \A i \in DOMAIN lines : i \in DOMAIN lines' /\ lines'[i] = lines[i]
  BY <1>1, Joined
<1> QED
  BY <1>2 DEF Latest, Status, Receives, handlers

(* What is sent is on its way.                                             *)
LEMMA LatestSent ==
  ASSUME TypeOK, NEW t \in Seq(LineSet), Send(t), NEW s \in Sensors,
         NEW i \in DOMAIN t, t[i] = Status(s)'
  PROVE  Latest(s)'
<1>1. lines \in Seq(LineSet) /\ lines' = lines \o t
  BY LineTypes DEF Send
<1>2. Len(lines) + i \in DOMAIN lines' /\ lines'[Len(lines) + i] = t[i]
  BY <1>1, Joined
<1> QED
  BY <1>2 DEF Latest

(* The lines after the first are still on their way.                       *)
LEMMA LatestWhenRead ==
  ASSUME TypeOK, NEW kind, ReadLine(kind), NEW s \in Sensors,
         NEW i \in DOMAIN lines, i # 1, lines[i] = Status(s)
  PROVE  Latest(s)'
<1>1. lines \in Seq(LineSet) /\ lines # <<>> /\ lines' = Tail(lines) /\ UNCHANGED value
  BY LineTypes DEF ReadLine, controller
<1>2. i - 1 \in DOMAIN lines' /\ lines'[i - 1] = lines[i]
  BY <1>1, Taken
<1> QED
  BY <1>1, <1>2 DEF Latest, Status

LEMMA LatestStep ==
  TypeOK /\ WireInv /\ Ordered /\ LatestUnderWay /\ [Next]_vars => LatestUnderWay'
<1> SUFFICES ASSUME TypeOK, WireInv, Ordered, LatestUnderWay, [Next]_vars,
                    NEW s \in sampled' \ Periodic
             PROVE  Latest(s)'
  BY LatestMeans DEF Latest, LatestUnderWay, Status
<1>a. TypeOK'
  BY TypeStep
<1>b. s \in Sensors /\ sampled \subseteq Sensors
  BY <1>a DEF TypeOK
<1>c. s \in sampled => Latest(s)
  BY LatestMeans
<1>d. Latest(s) /\ UNCHANGED <<lines, handlers, value>> => Latest(s)'
  BY DEF Latest, Status, Receives, handlers
<1> USE DEF controller
<1>1. ASSUME NEW t \in Threads, Subscribe(t) PROVE Latest(s)'
  BY <1>1, <1>c, <1>d DEF Subscribe
<1>2. CASE StartRecording \/ UNCHANGED vars
  BY <1>2, <1>c, <1>d DEF StartRecording, vars
<1>3. CASE OnConnected \/ Lose
  BY <1>3 DEF OnConnected, Lose, WireInv
<1>4. CASE Ignore \/ InterfaceChanged
  <2>1. PICK kind \in {"ignored", "changed"} : ReadLine(kind) /\ UNCHANGED handlers
    BY <1>4 DEF Ignore, InterfaceChanged, ReadLine, handlers
  <2>2. lines[1].kind # "status" /\ UNCHANGED value /\ Latest(s)
    BY <1>c, <2>1, ReadReports DEF ReadLine
  <2>3. CASE \E i \in DOMAIN lines : lines[i] = Status(s)
    <3>1. PICK i \in DOMAIN lines : lines[i] = Status(s)
      BY <2>3
    <3>2. i # 1
      BY <2>2, <3>1 DEF Status
    <3> QED
      BY <1>b, <2>1, <3>1, <3>2, LatestWhenRead
  <2>4. CASE \A h \in Handlers, c \in Callbacks :
               SensorOf[c] = s => Receives(h, c, value[s])
    BY <2>1, <2>2, <2>4 DEF Latest, Receives, handlers
  <2> QED
    BY <2>2, <2>3, <2>4 DEF Latest
<1>5. CASE Deliver
  <2> DEFINE m == Head(lines)
  <2>1. ReadLine("status") /\ UNCHANGED value /\ m = lines[1] /\ Latest(s)
    BY <1>5, <1>c, ReadReports DEF Deliver, ReadLine
  <2>2. /\ calls = {} /\ held' = held
        /\ \A x \in calls' : x.value = m.value
        /\ \A h \in Handlers, c \in Callbacks : SensorOf[c] = m.sensor => Due(h, c)'
    BY <1>5, TakenUp
  <2> HIDE DEF m
  <2>3. CASE m = Status(s)
    <3>1. m.sensor = s /\ m.value = value'[s]
      BY <2>1, <2>3 DEF Status
    <3> QED
      BY <2>2, <3>1 DEF Latest, Receives, Due
  <2>4. CASE \E i \in DOMAIN lines : i # 1 /\ lines[i] = Status(s)
    BY <1>b, <2>1, <2>4, LatestWhenRead
  <2>5. CASE \A h \in Handlers, c \in Callbacks :
               SensorOf[c] = s => Receives(h, c, value[s])
    BY <2>1, <2>2, <2>5 DEF Latest, Receives
  <2> QED
    BY <2>1, <2>3, <2>4, <2>5 DEF Latest
<1>10. CASE Call
  <2>1. /\ UNCHANGED <<lines, sampled, value>>
        /\ \E x \in calls :
             /\ calls' = calls \ {x}
             /\ \A h \in Handlers, c \in Callbacks :
                  held'[h][c] = IF h = Handler(x) /\ c = Callback(x)
                                THEN x.value ELSE held[h][c]
    BY <1>10, CallMade
  <2>2. PICK x \in calls :
          /\ calls' = calls \ {x}
          /\ \A h \in Handlers, c \in Callbacks :
               held'[h][c] = IF h = Handler(x) /\ c = Callback(x)
                             THEN x.value ELSE held[h][c]
    BY <2>1
  <2>3. Latest(s)
    BY <1>c, <2>1
  <2>4. CASE \E i \in DOMAIN lines : lines[i] = Status(s)
    BY <2>1, <2>4 DEF Latest, Status
  <2>5. CASE \A h \in Handlers, c \in Callbacks :
               SensorOf[c] = s => Receives(h, c, value[s])
    <3>1. ASSUME NEW h \in Handlers, NEW c \in Callbacks, SensorOf[c] = s
          PROVE  Receives(h, c, value[s])'
      <4>1. Receives(h, c, value[s])
        BY <2>5, <3>1
      <4>2. /\ Calls[x.at] = <<Handler(x), Callback(x)>> /\ x.value \in Nat
            /\ value[s] \in Nat
            /\ held[h][c] \in Nat
        <5>1. value[s] \in 1..MaxValue /\ held[h][c] \in 0..MaxValue
          BY <1>b DEF TypeOK
        <5> QED
          BY <5>1, CallTypes, Limits
      <4>3. CASE \E d \in calls : d # x /\ Calls[d.at] = <<h, c>> /\ d.value = value[s]
        BY <2>1, <2>2, <4>3 DEF Receives
      <4>4. CASE Calls[x.at] = <<h, c>> /\ x.value = value[s]
        BY <2>1, <2>2, <4>2, <4>4 DEF Receives
      <4>5. CASE held[h][c] = value[s]
        <5>1. CASE h = Handler(x) /\ c = Callback(x)
          <6>1. /\ SensorOf[c] = Subject(x)
                /\ held[h][c] <= x.value /\ x.value <= value[s]
            BY <3>1, <5>1, <4>2 DEF Subject, Ordered
          <6>2. x.value = value[s]
            BY <4>2, <4>5, <6>1
          <6> QED
            BY <2>1, <2>2, <5>1, <6>2 DEF Receives
        <5>2. CASE ~(h = Handler(x) /\ c = Callback(x))
          BY <2>1, <2>2, <4>5, <5>2 DEF Receives
        <5> QED
          BY <5>1, <5>2
      <4> QED
        BY <4>1, <4>3, <4>4, <4>5 DEF Receives
    <3> QED
      BY <2>1, <3>1 DEF Latest
  <2> QED
    BY <2>3, <2>4, <2>5 DEF Latest
<1>6. CASE Sample
  <2>1. Head(requests) \in Sensors
    BY <1>6, LineTypes, Taken DEF Sample
  <2> DEFINE p == Plain("ignored")
             q == Status(Head(requests))
  <2>2. p \in LineSet /\ q \in LineSet
    BY <2>1, LineTypes
  <2>3. /\ UNCHANGED <<handlers, value>>
        /\ \/ Send(<<p, q>>) /\ sampled' = sampled \cup {Head(requests)}
           \/ Send(<<p>>) /\ sampled' = sampled
    BY <1>6 DEF Sample
  <2>4. s = Head(requests) => q = Status(s)'
    BY <2>3 DEF Status
  <2>5. value'[s] = value[s]
    BY <2>3
  <2> HIDE DEF p, q
  <2>6. <<p, q>> \in Seq(LineSet) /\ <<p>> \in Seq(LineSet)
        /\ 2 \in DOMAIN <<p, q>> /\ <<p, q>>[2] = q
    BY <2>2, Short
  <2>7. CASE s \in sampled
    BY <1>b, <1>c, <2>3, <2>5, <2>6, <2>7, LatestWhenSent
  <2>8. CASE s \notin sampled
    <3>1. s = Head(requests) /\ Send(<<p, q>>)
      BY <2>3, <2>8
    <3> QED
      BY <1>b, <2>4, <2>6, <3>1, LatestSent
  <2> QED
    BY <2>7, <2>8
<1>7. ASSUME NEW r \in Sensors, Change(r) PROVE Latest(s)'
  <2>1. s \in sampled /\ Latest(s) /\ UNCHANGED handlers
    BY <1>7, <1>c DEF Change
  <2>2. Status(r)' \in LineSet
    BY <1>a, Limits DEF TypeOK, Status, LineSet
  <2> DEFINE q == Status(r)'
  <2> HIDE DEF q
  <2>3. <<q>> \in Seq(LineSet) /\ <<>> \in Seq(LineSet)
        /\ 1 \in DOMAIN <<q>> /\ <<q>>[1] = q
    BY <2>2, Short DEF q
  <2>4. Send(<<q>>) \/ Send(<<>>)
    BY <1>7 DEF Change, q
  <2>5. CASE s # r
    <3>1. value'[s] = value[s]
      BY <1>7, <1>b, <2>5 DEF Change, TypeOK
    <3> QED
      BY <1>b, <2>1, <2>3, <2>4, <3>1, LatestWhenSent
  <2>6. CASE s = r
    <3>1. Send(<<q>>) /\ q = Status(s)'
      BY <1>7, <2>1, <2>6 DEF Change, q
    <3> QED
      BY <1>b, <2>3, <3>1, LatestSent
  <2> QED
    BY <2>5, <2>6
<1>8. ASSUME NEW r \in Sensors, Report(r) PROVE Latest(s)'
  <2> DEFINE q == Status(r)
  <2>1. <<q>> \in Seq(LineSet)
    BY LineTypes, Short
  <2>2. Send(<<q>>) /\ UNCHANGED <<handlers, value>> /\ Latest(s)
    BY <1>8, <1>c DEF Report
  <2> HIDE DEF q
  <2> QED
    BY <1>b, <2>1, <2>2, LatestWhenSent
<1>9. ASSUME NEW c \in Components, Component(c) PROVE Latest(s)'
  <2> DEFINE p == Plain("changed")
  <2>1. <<p>> \in Seq(LineSet) /\ <<>> \in Seq(LineSet)
    BY LineTypes, Short
  <2>2. (Send(<<p>>) \/ Send(<<>>)) /\ UNCHANGED <<handlers, value>> /\ Latest(s)
    BY <1>9, <1>c DEF Component
  <2> HIDE DEF p
  <2> QED
    BY <1>b, <2>1, <2>2, LatestWhenSent
<1> QED
  BY <1>1, <1>2, <1>3, <1>4, <1>5, <1>6, <1>7, <1>8, <1>9, <1>10
     DEF Next, ProcessMessage, Environment

(* A sensor of the list is sampled, or on its way to being sampled.        *)
Remembered(k) ==
  Reachable(Sampling[k]) /\ Sampling[k] \notin sampled =>
    \/ \E i \in DOMAIN requests : requests[i] = Sampling[k]
    \/ \E t \in Threads : next[t] \in 1..k
    \/ \E i \in DOMAIN lines : lines[i].kind = "changed"

(* What is sent pushes no news of a change off the connection.             *)
LEMMA ChangeStillSent ==
  ASSUME TypeOK, NEW t \in Seq(LineSet), Send(t),
         \E i \in DOMAIN lines : lines[i].kind = "changed"
  PROVE  \E i \in DOMAIN lines' : lines'[i].kind = "changed"
<1>1. lines \in Seq(LineSet) /\ lines' = lines \o t
  BY LineTypes DEF Send
<1> QED
  BY <1>1, Joined

(* The news of a change waits behind a line that is none.                  *)
LEMMA ChangeStillRead ==
  ASSUME TypeOK, NEW kind, kind # "changed", ReadLine(kind),
         \E i \in DOMAIN lines : lines[i].kind = "changed"
  PROVE  \E i \in DOMAIN lines' : lines'[i].kind = "changed"
<1>1. /\ lines \in Seq(LineSet) /\ lines # <<>> /\ lines' = Tail(lines)
      /\ Head(lines).kind # "changed"
  BY LineTypes DEF ReadLine
<1>2. PICK i \in DOMAIN lines : lines[i].kind = "changed"
  OBVIOUS
<1>3. i # 1
  BY <1>1, <1>2, Taken
<1>4. i - 1 \in DOMAIN lines' /\ lines'[i - 1] = lines[i]
  BY <1>1, <1>3, Taken
<1> QED
  BY <1>2, <1>4

LEMMA NoneForgottenStep == TypeOK /\ NoneForgotten /\ [Next]_vars => NoneForgotten'
<1> SUFFICES ASSUME TypeOK, NoneForgotten, [Next]_vars, NEW k \in DOMAIN Sampling
             PROVE  Remembered(k)'
  BY DEF NoneForgotten, Remembered, Reachable
<1>a. Remembered(k) /\ k \in 1..Len(Sampling) /\ Sampling[k] \in Sensors
  BY SensorList DEF NoneForgotten, Remembered
<1>b. 1 \in 1..k
  BY <1>a
<1>c. /\ UNCHANGED <<connected, up, next, requests>>
      /\ sampled \subseteq sampled'
      /\ (\E i \in DOMAIN lines : lines[i].kind = "changed")
           => \E i \in DOMAIN lines' : lines'[i].kind = "changed"
      => Remembered(k)'
  BY <1>a DEF Remembered, Reachable
<1> USE DEF controller
<1>1. ASSUME NEW t \in Threads, Subscribe(t) PROVE Remembered(k)'
  <2>1. next[t] \in DOMAIN Sampling /\ next \in [Threads -> 0..Len(Sampling)]
    BY <1>1, SensorList DEF Subscribe, TypeOK
  <2>2. requests \in Seq(Sensors) /\ Sampling[next[t]] \in Sensors
    BY <2>1, LineTypes, SensorList
  <2>3. SUFFICES ASSUME Reachable(Sampling[k])', (Sampling[k] \notin sampled)'
                 PROVE  \/ \E i \in DOMAIN requests' : requests'[i] = Sampling[k]
                        \/ \E u \in Threads : next'[u] \in 1..k
                        \/ \E i \in DOMAIN lines' : lines'[i].kind = "changed"
    BY DEF Remembered
  <2>4. /\ connected /\ UNCHANGED <<connected, up, sampled, lines>>
        /\ Reachable(Sampling[k]) /\ Sampling[k] \notin sampled
        /\ requests' = Append(requests, Sampling[next[t]])
        /\ next' = [next EXCEPT ![t] = NextSensor(next[t])]
    BY <1>1, <2>3 DEF Subscribe, Reachable
  <2>5. CASE \E i \in DOMAIN requests : requests[i] = Sampling[k]
    BY <2>2, <2>4, <2>5, Appended
  <2>6. CASE \E i \in DOMAIN lines : lines[i].kind = "changed"
    BY <2>4, <2>6
  <2>7. CASE \E u \in Threads : next[u] \in 1..k
    <3>1. PICK u \in Threads : next[u] \in 1..k
      BY <2>7
    <3>2. CASE u # t
      BY <2>1, <2>4, <3>1, <3>2
    <3>3. CASE u = t /\ next[t] = k
      BY <2>2, <2>4, <3>3, Appended
    <3>4. CASE u = t /\ next[t] # k
      <4>1. NextSensor(next[t]) \in 1..k
        BY <1>a, <2>1, <3>1, <3>4, SensorList DEF NextSensor
      <4> QED
        BY <2>1, <2>4, <3>4, <4>1
    <3> QED
      BY <3>2, <3>3, <3>4
  <2> QED
    BY <1>a, <2>4, <2>5, <2>6, <2>7 DEF Remembered
<1>2. CASE StartRecording \/ OnConnected \/ InterfaceChanged
  <2>1. \E t \in Threads : next' = [next EXCEPT ![t] = 1]
    BY <1>2 DEF StartRecording, OnConnected, InterfaceChanged, Threads
  <2>2. \E t \in Threads : next'[t] \in 1..k
    BY <1>b, <2>1 DEF TypeOK
  <2> QED
    BY <2>2 DEF Remembered
<1>3. CASE Ignore \/ Deliver
  <2>1. PICK kind \in {"ignored", "status"} : ReadLine(kind) /\ UNCHANGED next
    BY <1>3 DEF Ignore, Deliver
  <2>2. kind # "changed"
    BY <2>1
  <2> QED
    BY <1>c, <2>1, <2>2, ChangeStillRead DEF ReadLine
<1>10. CASE Call
  BY <1>10, <1>c, CallMade
<1>4. CASE Sample
  <2>1. /\ requests \in Seq(Sensors) /\ requests # <<>> /\ requests' = Tail(requests)
        /\ Head(requests) \in Sensors /\ Head(requests) = requests[1]
    BY <1>4, LineTypes, Taken DEF Sample
  <2>2. /\ <<Plain("ignored"), Status(Head(requests))>> \in Seq(LineSet)
        /\ <<Plain("ignored")>> \in Seq(LineSet)
    BY <2>1, LineTypes, Short
  <2>3. (\E i \in DOMAIN lines : lines[i].kind = "changed")
          => \E i \in DOMAIN lines' : lines'[i].kind = "changed"
    BY <1>4, <2>2, ChangeStillSent DEF Sample
  <2>4. SUFFICES ASSUME Reachable(Sampling[k])', (Sampling[k] \notin sampled)'
                 PROVE  \/ \E i \in DOMAIN requests' : requests'[i] = Sampling[k]
                        \/ \E t \in Threads : next'[t] \in 1..k
                        \/ \E i \in DOMAIN lines' : lines'[i].kind = "changed"
    BY DEF Remembered
  <2>5. /\ Reachable(Sampling[k]) /\ Sampling[k] \notin sampled
        /\ requests[1] # Sampling[k] /\ UNCHANGED next
    BY <1>4, <2>1, <2>4 DEF Sample, Reachable
  <2>6. CASE \E i \in DOMAIN requests : requests[i] = Sampling[k]
    <3>1. PICK i \in DOMAIN requests : requests[i] = Sampling[k]
      BY <2>6
    <3>2. i - 1 \in DOMAIN requests' /\ requests'[i - 1] = requests[i]
      BY <2>1, <2>5, <3>1, Taken
    <3> QED
      BY <3>1, <3>2
  <2> QED
    BY <1>a, <2>3, <2>5, <2>6 DEF Remembered
<1>5. ASSUME NEW s \in Sensors, Change(s) PROVE Remembered(k)'
  <2>1. Status(s)' \in LineSet
    <3>1. TypeOK'
      BY TypeStep
    <3> QED
      BY <3>1, Limits DEF TypeOK, Status, LineSet
  <2>2. <<Status(s)'>> \in Seq(LineSet) /\ <<>> \in Seq(LineSet)
    BY <2>1, Short
  <2> QED
    BY <1>5, <1>c, <2>2, ChangeStillSent DEF Change
<1>6. ASSUME NEW s \in Sensors, Report(s) PROVE Remembered(k)'
  <2>1. <<Status(s)>> \in Seq(LineSet)
    BY LineTypes, Short
  <2> QED
    BY <1>6, <1>c, <2>1, ChangeStillSent DEF Report
<1>7. ASSUME NEW c \in Components, Component(c) PROVE Remembered(k)'
  <2>1. CASE connected
    <3>1. lines \in Seq(LineSet) /\ lines' = lines \o <<Plain("changed")>>
      BY <1>7, <2>1, LineTypes DEF Component, Send
    <3>2. <<Plain("changed")>> \in Seq(LineSet) /\ DOMAIN <<Plain("changed")>> = {1}
          /\ <<Plain("changed")>>[1].kind = "changed"
      BY LineTypes, Short DEF Plain
    <3> QED
      BY <3>1, <3>2, Joined DEF Remembered
  <2>2. CASE ~connected
    BY <1>7, <2>2 DEF Component, Remembered, Reachable
  <2> QED
    BY <2>1, <2>2
<1>8. CASE Lose
  <2>1. ~connected'
    BY <1>8, Zenon DEF Lose
  <2> QED
    BY <2>1 DEF Remembered, Reachable
<1>9. CASE UNCHANGED vars
  BY <1>9, <1>c DEF vars
<1> QED
  BY <1>1, <1>2, <1>3, <1>4, <1>5, <1>6, <1>7, <1>8, <1>9, <1>10
     DEF Next, ProcessMessage, Environment

-----------------------------------------------------------------------------
(* It holds before the first connection.                                   *)
LEMMA InitInv == Init => ClientInv
<1> SUFFICES ASSUME Init PROVE ClientInv
  OBVIOUS
<1>1. TypeOK
  <2>1. connected \in BOOLEAN
    BY Zenon DEF Init
  <2>2. next \in [Threads -> 0..Len(Sampling)]
    BY SensorList DEF Init
  <2>3. requests \in Seq(Sensors) /\ lines \in Seq(LineSet)
    BY DEF Init
  <2>4. held \in [Handlers -> [Callbacks -> 0..MaxValue]]
    BY Limits DEF Init
  <2>5. value \in [Sensors -> 1..MaxValue] /\ events \in 0..MaxEvents
    BY Limits DEF Init
  <2>6. up \subseteq Components /\ sampled \subseteq {s \in Sensors : ComponentOf[s] \in up}
    BY DEF Init
  <2>7. calls = {}
    BY DEF Init
  <2> QED
    BY <2>1, <2>2, <2>3, <2>4, <2>5, <2>6, <2>7 DEF TypeOK, LineSet
<1>2. WireInv /\ NoneForgotten /\ LatestUnderWay
  BY DEF Init, WireInv, NoneForgotten, Reachable, LatestUnderWay
<1>3. Ordered
  <2>1. Reports = {}
    BY DEF Init, Reports
  <2>2. \A h \in Handlers, c \in Callbacks : held[h][c] = 0 /\ value[SensorOf[c]] = 1
    BY SensorsAssumption DEF Init
  <2>3. calls = {}
    BY DEF Init
  <2> QED
    BY <2>1, <2>2, <2>3 DEF Ordered
<1>4. Together
  <2>1. calls = {} /\ \A h \in Handlers, c \in Callbacks : held[h][c] = 0
    BY DEF Init
  <2> QED
    BY <2>1 DEF Together
<1> QED
  BY <1>1, <1>2, <1>3, <1>4 DEF ClientInv

(* The inductive invariant holds in every state, whatever the sensors, the *)
(* values and the losses.                                                  *)
THEOREM StationInvariant == Spec => []ClientInv
<1>1. ClientInv /\ [Next]_vars => ClientInv'
  BY TypeStep, WireStep, TogetherStep, OrderStep, LatestStep, NoneForgottenStep DEF ClientInv
<1> QED
  BY InitInv, <1>1, PTL DEF Spec

(* Type correctness of the client, the connection and the controller.      *)
THEOREM StationTypes == Spec => []TypeOK
<1>1. ClientInv => TypeOK
  BY DEF ClientInv
<1> QED
  BY StationInvariant, <1>1, PTL

(* No sensor is forgotten (StationControllerKATCPClient.cpp:106-120,       *)
(* 138-142, 208-216).                                                      *)
THEOREM StationForgetsNone == Spec => []NoneForgotten
<1>1. ClientInv => NoneForgotten
  BY DEF ClientInv
<1> QED
  BY StationInvariant, <1>1, PTL

(* The latest value of a sensor sampled on every change reaches all its    *)
(* callbacks, or is on its way (StationControllerKATCPClient.cpp:233-618,  *)
(* 1032-1112).                                                             *)
THEOREM StationLatestUnderWay == Spec => []LatestUnderWay
<1>1. ClientInv => LatestUnderWay
  BY DEF ClientInv
<1> QED
  BY StationInvariant, <1>1, PTL

(* Between two messages the callbacks of a sensor agree, in every handler  *)
(* (StationControllerKATCPClient.cpp:233-618, 1070-1112).                  *)
THEOREM StationCallbacksAgree == Spec => []CallbacksAgree
<1>1. ClientInv => CallbacksAgree
  BY DEF ClientInv, Together, Due, CallbacksAgree
<1> QED
  BY StationInvariant, <1>1, PTL

-----------------------------------------------------------------------------
(* A call is a step of the mirror.                                         *)
LEMMA CallTells ==
  ASSUME ClientInv, Call
  PROVE  \E h \in Handlers, c \in Callbacks : Promise!Tell(h, c)
<1>1. TypeOK /\ Ordered /\ UNCHANGED value
  BY CallMade DEF ClientInv, controller
<1>2. PICK x \in calls :
        held' = [held EXCEPT ![Handler(x)][Callback(x)] = x.value]
  BY DEF Call, Handler, Callback
<1>3. Handler(x) \in Handlers /\ Callback(x) \in Callbacks /\ Subject(x) \in Sensors
  BY <1>1, CallTypes
<1>4. x.value \in held[Handler(x)][Callback(x)]..value[SensorOf[Callback(x)]]
  <2>1. x.value \in 1..value[Subject(x)]
    BY <1>1 DEF Ordered
  <2>2. held[Handler(x)][Callback(x)] <= x.value
    BY <1>1, <1>3 DEF Ordered, Subject
  <2>3. held[Handler(x)][Callback(x)] \in Nat /\ value[Subject(x)] \in Nat
    BY <1>1, <1>3, Limits DEF TypeOK
  <2> QED
    BY <2>1, <2>2, <2>3 DEF Subject
<1>5. Promise!Tell(Handler(x), Callback(x))
  BY <1>1, <1>2, <1>4 DEF Promise!Tell
<1> QED
  BY <1>3, <1>5

(* Every other step leaves it alone, or changes a sensor.                  *)
LEMMA StepMirrors ==
  ASSUME ClientInv, [Next]_vars
  PROVE  [Promise!Next]_(Promise!vars)
<1> USE DEF Promise!vars, controller, handlers
<1>1. CASE Call
  BY <1>1, CallTells DEF Promise!Next
<1>2. ASSUME NEW s \in Sensors, Change(s) PROVE Promise!Next
  BY <1>2 DEF Change, Promise!Next, Promise!Change
<1>3. CASE OnConnected \/ StartRecording \/ Ignore \/ InterfaceChanged \/ Deliver
  BY <1>3 DEF OnConnected, StartRecording, Ignore, InterfaceChanged, Deliver, ReadLine
<1>4. ASSUME NEW t \in Threads, Subscribe(t) PROVE UNCHANGED Promise!vars
  BY <1>4 DEF Subscribe
<1>5. CASE Sample \/ Lose
  BY <1>5 DEF Sample, Lose
<1>6. ASSUME NEW s \in Sensors, Report(s) PROVE UNCHANGED Promise!vars
  BY <1>6 DEF Report
<1>7. ASSUME NEW c \in Components, Component(c) PROVE UNCHANGED Promise!vars
  BY <1>7 DEF Component
<1>8. CASE UNCHANGED vars
  BY <1>8 DEF vars
<1> QED
  BY <1>1, <1>2, <1>3, <1>4, <1>5, <1>6, <1>7, <1>8
     DEF Next, ProcessMessage, Environment

(* The handlers are a mirror of the controller's sensors.                  *)
THEOREM StationImplementsMirror == Spec => ImplementsMirror
<1>1. Init => Promise!Init
  BY DEF Init, Promise!Init
<1>2. Spec => Promise!Spec
  BY <1>1, StepMirrors, StationInvariant, PTL DEF Spec, Promise!Spec
<1> QED
  BY <1>2 DEF ImplementsMirror
=============================================================================
