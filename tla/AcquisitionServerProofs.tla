------------------------ MODULE AcquisitionServerProofs ------------------------
(***************************************************************************)
(* Proofs about AcquisitionServer, for any operators, connections and      *)
(* clients: whatever the order in which the threads go on, start-up and    *)
(* shutdown keep what the threads use.                                     *)
(***************************************************************************)
EXTENDS AcquisitionServer, TLAPS

-----------------------------------------------------------------------------
(* The inductive invariant.                                                *)

(* Where the server thread may use its dispatch. *)
Serving == {"serve", "start", "announce", "resubscribe",
            "subscribe", "stop", "write"}

(* The dispatch is there while any thread may broadcast: the server's own  *)
(* until it is joined, and the one that records until the receiver is.     *)
LifeInv ==
  /\ mainPc = "launch" => serverPc = "none"
  /\ serverPc \in {"none", "launched"} => dispatch = "none"
  /\ serverPc \in Serving => dispatch = "up"
  /\ mainPc \in {"free", "deregister", "done"} => serverPc = "ended"
  /\ dispatch = "freed" => mainPc \in {"deregister", "done"}
  /\ mainPc \in StoppingSteps => dataPc = "ended"
  /\ dispatch = "none" => ~busy /\ dataPc \in {"wait", "ended"} /\ mainPc # "stop"

(* What main has done so far to the clients and the server's pointers.     *)
MainInv ==
  /\ mainPc \notin {"launch", "writer"} => writer
  /\ mainPc \in {"run", "stop", "close", "receiver"} => peer = "roach"
  /\ mainPc \in {"set", "connect"} => peer \in held
  /\ mainPc = "connect" => pointer[peer] = "client"
  /\ mainPc \in {"reset", "join"} => pointer[peer] = "stub"
  /\ mainPc = "join" => peer \notin held
  /\ \A p \in Peers :
       /\ pointer[p] = "client" => p \in held
       /\ thread[p] \in {"try", "run", "deliver"} => p \in held \/ (mainPc = "join" /\ peer = p)
       /\ Past(p) => p \notin held /\ thread[p] \in {"none", "ended"}

(* Until main stops the clients, who uses one finds it, connected or not.  *)
UseInv ==
  /\ serverPc \in {"write", "subscribe"} => using # "nothing"
  /\ using = "stub" => \E p \in Peers : pointer[p] = "stub"
  /\ mainPc \notin StoppingSteps =>
       /\ using # "stub"
       /\ serverPc = "write" => pointer["roach"] = "client"
       /\ serverPc = "subscribe" => pointer["station"] = "client"
       /\ \A p \in Peers :
            /\ pointer[p] # "stub"
            /\ thread[p] # "none" => pointer[p] = "client"

(* While the writer is idle, an operator last told of a start was moved or *)
(* is yet to be reached by the broadcast that is under way.                *)
ToldInv ==
  /\ lock # "free" => busy
  /\ \A t \in Broadcasters : at[t] # 0 => handler
  /\ \A o \in Operators : news[o] = "started" => handler \/ mainPc = "done"
  /\ ~busy =>
       \A i \in DOMAIN clients :
         news[clients[i]] = "started" =>
           \/ clients[i] \in skipped
           \/ dataPc = "notify" /\ at["data"] # 0 /\ at["data"] <= i

-----------------------------------------------------------------------------
(* Every step keeps each part.                                             *)

(* The dispatch: which threads there are decides, not what they do. *)
LEMMA LifeStep == LifeInv /\ [Next]_vars => LifeInv'
<1> SUFFICES ASSUME LifeInv, [Next]_vars PROVE LifeInv'
  OBVIOUS
<1> USE DEF LifeInv, Serving, StoppingSteps, table, statics, recording, broadcast,
            server, life, main, katcpVars
<1>1. CASE KatcpStep /\ Data
  BY <1>1 DEF KatcpStep, Data, RollOver, EnterIdle, DataTell, DataTold, DataStep
<1>2. CASE KatcpStep /\ Serve
  BY <1>2 DEF KatcpStep, Serve, Startup, Listen, ListenInVain, Leave, Starting, StartCommit,
       ServerTell, StartDone, Resubscribe, Requests, StartCheck, StartIgnored,
       StopCheck, StopCommit, QueryUnset, WriteRegister, Accept, Drop, Request,
       ServerStep
<1>3. CASE WriteReturns \/ SubscribeReturns
  BY <1>3 DEF WriteReturns, SubscribeReturns, Return, ServerStep
<1>4. CASE StartUp
  BY <1>4 DEF StartUp, Launch, Writer, Register, Make, Set, Skip, Connect, Only,
       MainStep, Started, katcpSame, startServer, setFileWriter, registerHandler,
       setKATCPClient
<1>5. CASE Shutdown
  BY <1>5 DEF Shutdown, Interrupt, ShutdownStop, FileClosed, ReceiverReset,
       Stopping, Replace, NotStarted, Reset, Join, Terminate, Poke, JoinServer,
       Free, Deregister, Only, MainStep, Stopped, katcpSame, setKATCPClient,
       terminate, joinServer, freeDispatch, deregisterHandler
<1>6. ASSUME NEW p \in Peers, Reader(p) PROVE LifeInv'
  <2>1. CASE Deliver(p)
    BY <2>1 DEF Deliver
  <2>2. CASE Delivered(p)
    BY <2>2 DEF Delivered
  <2>3. CASE Ended(p)
    BY <2>3 DEF Ended
  <2>4. CASE Connected(p)
    BY <2>4 DEF Connected
  <2> QED
    BY <1>6, <2>1, <2>2, <2>3, <2>4 DEF Reader
<1>7. CASE UNCHANGED vars
  BY <1>7 DEF vars
<1> QED
  BY <1>1, <1>2, <1>3, <1>4, <1>5, <1>6, <1>7 DEF Next, KatcpStep

(* The table of clients stays a sequence without repetition, whoever comes *)
(* and goes, in whatever order the others are left. *)
LEMMA AcceptKeepsTable ==
  ASSUME NEW o \in Operators, TableOK, o \notin Range(clients),
         clients' = Append(clients, o)
  PROVE  TableOK'
<1>1. clients' \in Seq(Operators) /\ Len(clients') = Len(clients) + 1
  BY DEF TableOK
<1>2. \A i \in 1..Len(clients) : clients'[i] = clients[i] /\ clients[i] # o
  BY DEF TableOK, Range
<1>3. clients'[Len(clients) + 1] = o
  BY DEF TableOK
<1>4. DOMAIN clients = 1..Len(clients) /\ DOMAIN clients' = 1..(Len(clients) + 1)
      /\ Len(clients) \in Nat
  BY <1>1 DEF TableOK
<1>5. ASSUME NEW i \in DOMAIN clients', NEW j \in DOMAIN clients',
             clients'[i] = clients'[j]
      PROVE  i = j
  <2>1. CASE i \in 1..Len(clients) /\ j \in 1..Len(clients)
    BY <1>2, <1>4, <1>5, <2>1 DEF TableOK, IsInjective
  <2>2. CASE i = Len(clients) + 1 \/ j = Len(clients) + 1
    BY <1>2, <1>3, <1>4, <1>5, <2>2
  <2> QED
    BY <1>4, <2>1, <2>2
<1> QED
  BY <1>1, <1>5 DEF TableOK, IsInjective

(* A table without the client that went is one too. *)
LEMMA DropKeepsTable ==
  ASSUME NEW o \in Operators, TableOK, o \in Range(clients),
         clients' \in Without(o)
  PROVE  TableOK'
<1>1. Len(clients) \in Nat \ {0} /\ Range(clients) \subseteq Operators
  BY DEF TableOK, Range
<1>2. clients' \in [1..(Len(clients) - 1) -> Operators] /\ IsInjective(clients)'
  BY <1>1 DEF Without
<1> QED
  BY <1>1, <1>2 DEF TableOK

(* No other step touches the table. *)
LEMMA TableStep == TypeOK /\ [Next]_vars => TableOK'
<1> SUFFICES ASSUME TypeOK, [Next]_vars PROVE TableOK'
  OBVIOUS
<1> USE DEF TypeOK, table, statics, recording, broadcast, server, life, main, katcpVars
<1>1. ASSUME NEW o \in Operators, Accept(o) PROVE TableOK'
  BY <1>1, AcceptKeepsTable DEF Accept
<1>2. ASSUME NEW o \in Operators, Drop(o) PROVE TableOK'
  BY <1>2, DropKeepsTable DEF Drop
<1>3. CASE clients' = clients
  BY <1>3 DEF TableOK
<1>4. CASE KatcpStep
  BY <1>1, <1>2, <1>3, <1>4 DEF KatcpStep, Data, RollOver, EnterIdle, DataTell,
       DataTold, DataStep, Serve, Startup, Listen, ListenInVain, Leave, Starting, StartCommit,
       ServerTell, StartDone, Resubscribe, Requests, StartCheck, StartIgnored,
       StopCheck, StopCommit, QueryUnset, WriteRegister, Request
<1>5. CASE WriteReturns \/ SubscribeReturns \/ StartUp
  BY <1>3, <1>5 DEF WriteReturns, SubscribeReturns, Return, StartUp, Launch, Writer,
       Register, Make, Set, Skip, Connect, katcpSame, startServer, setFileWriter,
       registerHandler, setKATCPClient
<1>6. CASE Shutdown
  BY <1>3, <1>6 DEF Shutdown, Interrupt, ShutdownStop, FileClosed, ReceiverReset,
       Stopping, Replace, NotStarted, Reset, Join, Terminate, Poke, JoinServer,
       Free, Deregister, katcpSame, setKATCPClient, terminate, joinServer,
       freeDispatch, deregisterHandler
<1>7. ASSUME NEW p \in Peers, Reader(p) PROVE TableOK'
  BY <1>3, <1>7 DEF Reader, Connected, Deliver, Delivered, Ended
<1>8. CASE UNCHANGED vars
  BY <1>3, <1>8 DEF vars
<1> QED
  BY <1>4, <1>5, <1>6, <1>7, <1>8 DEF Next

(* The types of the rest. *)
LEMMA TypeStep == TypeOK /\ LifeInv /\ [Next]_vars => TypeOK'
<1> SUFFICES ASSUME TypeOK, LifeInv, [Next]_vars PROVE TypeOK'
  OBVIOUS
<1> TableOK'
  BY TableStep
<1> USE DEF TypeOK, StoppingSteps, StartUpSteps, Peers, Broadcasters, table, statics,
            recording, broadcast, server, life, main, katcpVars
<1>1. CASE KatcpStep /\ Data
  <2>1. CASE RollOver
    BY <1>1, <2>1 DEF KatcpStep, RollOver, DataStep, Begin
  <2>4. CASE EnterIdle
    <3>1. at' \in [Broadcasters -> Nat] /\ at'["server"] = at["server"]
      BY <2>4 DEF EnterIdle, Begin
    <3>2. busy' \in BOOLEAN
      BY <2>4, Zenon DEF EnterIdle
    <3> QED
      BY <1>1, <2>4, <3>1, <3>2 DEF KatcpStep, EnterIdle, DataStep
  <2>2. CASE DataTell
    BY <1>1, <2>2 DEF KatcpStep, DataTell, Tell, Sending, DataStep
  <2>3. CASE DataTold
    BY <1>1, <2>3 DEF KatcpStep, DataTold, Finish, DataStep
  <2> QED
    BY <1>1, <2>1, <2>2, <2>3, <2>4 DEF Data
<1>2. CASE KatcpStep /\ Serve
  <2>1. CASE Startup \/ Listen \/ Leave
    BY <1>2, <2>1 DEF KatcpStep, Startup, Listen, Leave, ServerStep
  <2>11. CASE ListenInVain
    BY <1>2, <2>11 DEF KatcpStep, ListenInVain, ServerStep, Faults
  <2>2. CASE StartCommit
    BY <1>2, <2>2 DEF KatcpStep, StartCommit, Begin, ServerStep
  <2>3. CASE ServerTell
    <3>1. at' \in [Broadcasters -> Nat] /\ at'["data"] = at["data"]
      BY <2>3 DEF ServerTell, Tell
    <3>2. clients[at["server"]] \in Operators
      BY <2>3 DEF ServerTell, Tell, Sending, TableOK
    <3> QED
      BY <1>2, <2>3, <3>1, <3>2 DEF KatcpStep, ServerTell, Tell, ServerStep
  <2>4. CASE StartDone \/ Resubscribe
    BY <1>2, <2>4 DEF KatcpStep, StartDone, Resubscribe, Finish, ServerStep
  <2>5. CASE StartCheck \/ StopCheck
    BY <1>2, <2>5 DEF KatcpStep, StartCheck, StopCheck, Request, ServerStep
  <2>8. CASE StartIgnored \/ WriteRegister
    BY <1>2, <2>8 DEF KatcpStep, StartIgnored, WriteRegister, Request, ServerStep
  <2>9. CASE StopCommit
    BY <1>2, <2>9 DEF KatcpStep, StopCommit, ServerStep
  <2>10. CASE QueryUnset
    BY <1>2, <2>10 DEF KatcpStep, QueryUnset, Request, ServerStep, Faults
  <2>6. ASSUME NEW o \in Operators, Accept(o) PROVE TypeOK'
    BY <1>2, <2>6, MaxConnectsAssumption DEF KatcpStep, Accept
  <2>7. ASSUME NEW o \in Operators, Drop(o) PROVE TypeOK'
    <3>1. skipped' \subseteq Operators
      BY <2>7 DEF Drop, Passed, TableOK
    <3> QED
      BY <1>2, <2>7, <3>1 DEF KatcpStep, Drop
  <2> QED
    BY <1>2, <2>1, <2>2, <2>3, <2>4, <2>5, <2>6, <2>7, <2>8, <2>9, <2>10, <2>11
       DEF Serve, Starting, Requests
<1>3. CASE WriteReturns \/ SubscribeReturns
  <2>1. fault' \in Faults
    BY <1>3 DEF WriteReturns, SubscribeReturns, Return, Harm, Faults
  <2>2. CASE WriteReturns
    BY <2>1, <2>2 DEF WriteReturns, Return, ServerStep
  <2>3. CASE SubscribeReturns
    BY <2>1, <2>3 DEF SubscribeReturns, Return, ServerStep
  <2> QED
    BY <1>3, <2>2, <2>3
<1>4. CASE StartUp
  <2>1. CASE Launch
    BY <2>1 DEF LifeInv, Launch, Only, MainStep, startServer
  <2>2. CASE Writer
    BY <2>2 DEF Writer, Only, MainStep, setFileWriter
  <2>3. CASE Register
    BY <2>3 DEF Register, Only, MainStep, registerHandler
  <2>4. CASE Make
    BY <2>4 DEF Make, MainStep, katcpSame
  <2>5. CASE Skip
    BY <2>5 DEF Skip, MainStep, Started, katcpSame
  <2>6. CASE Set
    BY <2>6 DEF Set, Only, MainStep, setKATCPClient
  <2>7. CASE Connect
    BY <2>7 DEF Connect, Started
  <2> QED
    BY <1>4, <2>1, <2>2, <2>3, <2>4, <2>5, <2>6, <2>7
       DEF StartUp
<1>5. CASE Shutdown
  <2>1. CASE Interrupt
    BY <2>1 DEF Interrupt, Only, MainStep, katcpSame
  <2>2. CASE FileClosed
    BY <2>2 DEF FileClosed, Only, MainStep, katcpSame
  <2>3. CASE ShutdownStop
    BY <2>3 DEF ShutdownStop, Only, MainStep
  <2>4. CASE ReceiverReset
    BY <2>4 DEF ReceiverReset, Only, MainStep
  <2>5. CASE Replace
    BY <2>5 DEF Replace, Only, MainStep, setKATCPClient
  <2>6. CASE NotStarted
    BY <2>6 DEF NotStarted, MainStep, Stopped, katcpSame
  <2>7. CASE Reset
    BY <2>7 DEF Reset, MainStep, Stopped, katcpSame
  <2>8. CASE Join
    BY <2>8 DEF Join, MainStep, Stopped, katcpSame
  <2>9. CASE Terminate
    BY <2>9 DEF Terminate, Only, MainStep, terminate
  <2>10. CASE Poke
    BY <2>10 DEF Poke, MainStep, katcpSame
  <2>11. CASE JoinServer
    BY <2>11 DEF JoinServer, Only, MainStep, joinServer
  <2>12. CASE Free
    BY <2>12 DEF Free, Only, MainStep, freeDispatch
  <2>13. CASE Deregister
    <3>1. handler' \in BOOLEAN
      BY <2>13, Zenon DEF Deregister, deregisterHandler
    <3> QED
      BY <2>13, <3>1 DEF Deregister, Only, MainStep, deregisterHandler
  <2> QED
    BY <1>5, <2>1, <2>2, <2>3, <2>4, <2>5, <2>6, <2>7, <2>8, <2>9, <2>10, <2>11, <2>12, <2>13
       DEF Shutdown, Stopping
<1>6. ASSUME NEW p \in Peers, Reader(p) PROVE TypeOK'
  <2>1. CASE Deliver(p)
    BY <2>1 DEF Deliver
  <2>2. CASE Delivered(p)
    <3>1. fault' \in Faults
      BY <2>2 DEF Delivered, Faults
    <3> QED
      BY <2>2, <3>1 DEF Delivered
  <2>3. CASE Ended(p)
    BY <2>3 DEF Ended
  <2>4. CASE Connected(p)
    BY <2>4 DEF Connected
  <2> QED
    BY <1>6, <2>1, <2>2, <2>3, <2>4 DEF Reader
<1>7. CASE UNCHANGED vars
  BY <1>7 DEF vars
<1> QED
  BY <1>1, <1>2, <1>3, <1>4, <1>5, <1>6, <1>7 DEF Next, KatcpStep

(* The clients and pointers of main: a step per part of start-up and shutdown. *)
LEMMA HeldStep == TypeOK /\ MainInv /\ [Next]_vars => MainInv'
<1> SUFFICES ASSUME TypeOK, MainInv, [Next]_vars PROVE MainInv'
  OBVIOUS
<1> held \subseteq Peers /\ peer \in Peers
    /\ pointer \in [Peers -> {"none", "client", "stub"}]
    /\ thread \in [Peers -> {"none", "try", "run", "deliver", "ended"}]
  BY DEF TypeOK
<1> USE DEF MainInv, Past, StoppingSteps, Peers, table, statics, recording, broadcast,
            server, life, main, katcpVars
<1>1. CASE UNCHANGED <<writer, pointer, main, thread>>
  BY <1>1
<1>2. CASE KatcpStep
  BY <1>1, <1>2 DEF KatcpStep, Data, RollOver, EnterIdle, DataTell, DataTold,
       DataStep, Serve, Startup, Listen, ListenInVain, Leave, Starting, StartCommit, ServerTell,
       StartDone, Resubscribe, Requests, StartCheck, StartIgnored, StopCheck,
       StopCommit, QueryUnset, WriteRegister, Accept, Drop, Request, ServerStep
<1>3. CASE WriteReturns \/ SubscribeReturns
  BY <1>1, <1>3 DEF WriteReturns, SubscribeReturns, Return, ServerStep
<1>4. CASE StartUp
  <2>1. CASE Launch
    BY <2>1 DEF Launch, Only, MainStep, startServer
  <2>2. CASE Writer
    BY <2>2 DEF Writer, Only, MainStep, setFileWriter
  <2>3. CASE Register
    BY <2>3 DEF Register, Only, MainStep, registerHandler
  <2>4. CASE Make
    BY <2>4 DEF Make, MainStep, katcpSame
  <2>5. CASE Skip
    BY <2>5 DEF Skip, MainStep, Started, katcpSame
  <2>6. CASE Set
    BY <2>6 DEF Set, Only, MainStep, setKATCPClient
  <2>7. CASE Connect
    BY <2>7 DEF Connect, Started
  <2> QED
    BY <1>4, <2>1, <2>2, <2>3, <2>4, <2>5, <2>6, <2>7 DEF StartUp
<1>5. CASE Shutdown
  <2>1. CASE Interrupt \/ ShutdownStop \/ FileClosed \/ ReceiverReset
    BY <2>1 DEF Interrupt, ShutdownStop, FileClosed, ReceiverReset, Only, MainStep,
         katcpSame
  <2>2. CASE Replace
    BY <2>2 DEF Replace, Only, MainStep, setKATCPClient
  <2>3. CASE NotStarted
    BY <2>3 DEF NotStarted, MainStep, Stopped, katcpSame
  <2>4. CASE Reset
    BY <2>4 DEF Reset, MainStep, katcpSame
  <2>5. CASE Join
    BY <2>5 DEF Join, MainStep, Stopped, katcpSame
  <2>6. CASE Terminate \/ Poke \/ JoinServer \/ Free \/ Deregister
    BY <2>6 DEF Terminate, Poke, JoinServer, Free, Deregister, Only, MainStep,
         katcpSame, terminate, joinServer, freeDispatch, deregisterHandler
  <2> QED
    BY <1>5, <2>1, <2>2, <2>3, <2>4, <2>5, <2>6 DEF Shutdown, Stopping
<1>6. ASSUME NEW p \in Peers, Reader(p) PROVE MainInv'
  <2>1. CASE Deliver(p)
    BY <2>1 DEF Deliver
  <2>2. CASE Delivered(p)
    BY <2>2 DEF Delivered
  <2>3. CASE Ended(p)
    BY <2>3 DEF Ended
  <2>4. CASE Connected(p)
    BY <2>4 DEF Connected
  <2> QED
    BY <1>6, <2>1, <2>2, <2>3, <2>4 DEF Reader
<1>7. CASE UNCHANGED vars
  BY <1>1, <1>7 DEF vars
<1> QED
  BY <1>2, <1>3, <1>4, <1>5, <1>6, <1>7 DEF Next

(* The calls into clients: only main's steps matter to what they find. *)
LEMMA UseStep == TypeOK /\ MainInv /\ UseInv /\ [Next]_vars => UseInv'
<1> SUFFICES ASSUME TypeOK, MainInv, UseInv, [Next]_vars PROVE UseInv'
  OBVIOUS
<1> peer \in Peers
    /\ pointer \in [Peers -> {"none", "client", "stub"}]
    /\ thread \in [Peers -> {"none", "try", "run", "deliver", "ended"}]
  BY DEF TypeOK
<1> USE DEF UseInv, StoppingSteps, Peers, table, statics, recording, broadcast,
            server, life, main, katcpVars
<1>1. CASE UNCHANGED <<server, pointer, main, thread>>
  BY <1>1
<1>2. CASE KatcpStep /\ (Data \/ Startup \/ Listen \/ ListenInVain \/ Leave \/ StartCommit
                            \/ ServerTell \/ StartDone)
  BY <1>1, <1>2 DEF KatcpStep, Data, RollOver, EnterIdle, DataTell, DataTold,
       DataStep, Startup, Listen, ListenInVain, Leave, StartCommit, ServerTell, StartDone,
       ServerStep
<1>3. CASE KatcpStep /\ Resubscribe
  BY <1>3 DEF KatcpStep, Resubscribe, ServerStep
<1>4. CASE KatcpStep /\ Requests
  BY <1>4 DEF KatcpStep, Requests, StartCheck, StartIgnored, StopCheck,
       StopCommit, QueryUnset, WriteRegister, Request, ServerStep
<1>5. ASSUME NEW o \in Operators, KatcpStep, Accept(o) \/ Drop(o) PROVE UseInv'
  BY <1>1, <1>5 DEF KatcpStep, Accept, Drop
<1>6. CASE WriteReturns \/ SubscribeReturns
  BY <1>6 DEF WriteReturns, SubscribeReturns, Return, ServerStep
<1>7. CASE StartUp
  <2> USE DEF MainInv
  <2>1. CASE Launch \/ Writer \/ Register
    BY <2>1 DEF Launch, Writer, Register, Only, MainStep, startServer,
         setFileWriter, registerHandler
  <2>2. CASE Make \/ Skip
    BY <2>2 DEF Make, Skip, MainStep, Started, katcpSame
  <2>3. CASE Set
    BY <2>3 DEF Set, Only, MainStep, setKATCPClient
  <2>4. CASE Connect
    BY <2>4 DEF Connect, Started
  <2> QED
    BY <1>7, <2>1, <2>2, <2>3, <2>4 DEF StartUp
<1>8. CASE Shutdown
  BY <1>8 DEF Shutdown, Interrupt, ShutdownStop, FileClosed, ReceiverReset,
       Stopping, Replace, NotStarted, Reset, Join, Terminate, Poke, JoinServer,
       Free, Deregister, Only, MainStep, Stopped, katcpSame, setKATCPClient,
       terminate, joinServer, freeDispatch, deregisterHandler
<1>9. ASSUME NEW p \in Peers, Reader(p) PROVE UseInv'
  <2>1. CASE Deliver(p)
    BY <2>1 DEF Deliver
  <2>2. CASE Delivered(p)
    BY <2>2 DEF Delivered
  <2>3. CASE Ended(p)
    BY <2>3 DEF Ended
  <2>4. CASE Connected(p)
    BY <2>4 DEF Connected
  <2> QED
    BY <1>9, <2>1, <2>2, <2>3, <2>4 DEF Reader
<1>10. CASE UNCHANGED vars
  BY <1>1, <1>10 DEF vars
<1> QED
  BY <1>2, <1>3, <1>4, <1>5, <1>6, <1>7, <1>8, <1>9, <1>10
     DEF Next, KatcpStep, Serve, Starting

(* A broadcast of a stop that is done with a client ... *)
LEMMA ToldByData ==
  ASSUME TypeOK, ToldInv, KatcpStep, DataTell PROVE ToldInv'
<1> USE DEF ToldInv, TypeOK, Peers, Broadcasters, table, statics, recording, broadcast,
            server, life, main, katcpVars
<1> DEFINE o == clients[at["data"]]
<1>1. at["data"] \in DOMAIN clients /\ o \in Operators /\ at["data"] \in Nat \ {0}
  BY DEF DataTell, Tell, Sending, TableOK
<1>2. CASE dataPc = "announce"
  BY <1>1, <1>2 DEF KatcpStep, DataTell, DataStep, Tell
<1>3. CASE dataPc = "notify"
  <2>1. news' = [news EXCEPT ![o] = "stopped"] /\ skipped' = skipped \ {o}
        /\ at' = [at EXCEPT !["data"] = @ + 1]
    BY <1>3 DEF DataTell, DataStep, Tell
  <2>2. UNCHANGED <<clients, busy, lock, dataPc, handler, mainPc>>
    BY <1>3 DEF KatcpStep, DataTell, DataStep
  <2>3. ASSUME ~busy', NEW i \in DOMAIN clients', news'[clients'[i]] = "started"
        PROVE  \/ clients'[i] \in skipped'
               \/ dataPc' = "notify" /\ at'["data"] # 0 /\ at'["data"] <= i
    <3>1. clients[i] # o /\ clients[i] \in Operators /\ i \in DOMAIN clients /\ i \in Nat
      BY <1>1, <2>1, <2>2, <2>3 DEF TableOK
    <3>2. i # at["data"]
      BY <3>1
    <3> QED
      BY <1>1, <1>3, <2>1, <2>2, <2>3, <3>1, <3>2
  <2>4. \A t \in Broadcasters : at'[t] # 0 => handler'
    BY <1>1, <2>1, <2>2
  <2>5. \A p \in Operators : news'[p] = "started" => handler' \/ mainPc' = "done"
    BY <1>1, <2>1, <2>2
  <2> QED
    BY <2>2, <2>3, <2>4, <2>5
<1> QED
  BY <1>2, <1>3 DEF DataTell, DataStep

(* ... and a client that goes, which moves others. *)
LEMMA ToldOverDrop ==
  ASSUME TypeOK, ToldInv, KatcpStep, NEW o \in Operators, Drop(o) PROVE ToldInv'
<1> USE DEF ToldInv, TypeOK, Peers, Broadcasters, table, statics, recording, broadcast,
            server, life, main, katcpVars
<1>1. UNCHANGED <<busy, lock, dataPc, handler, at, news, mainPc>>
  BY DEF KatcpStep, Drop
<1>2. PICK s \in Without(o) : clients' = s /\ skipped' = (skipped \ {o}) \cup Passed(s)
  BY DEF Drop
<1>3. Len(clients) \in Nat /\ DOMAIN clients = 1..Len(clients)
  BY DEF TableOK
<1>4. s \in [1..(Len(clients) - 1) -> Range(clients) \ {o}]
  BY <1>2 DEF Without
<1>5. ASSUME ~busy, NEW i \in DOMAIN s, news[s[i]] = "started"
      PROVE  \/ s[i] \in skipped'
             \/ dataPc = "notify" /\ at["data"] # 0 /\ at["data"] <= i
  <2>0. s[i] \in Range(clients)
    BY <1>4, <1>5
  <2>1. PICK j \in DOMAIN clients : s[i] = clients[j]
    BY <2>0 DEF Range
  <2>2. s[i] # o /\ i \in Nat /\ j \in Nat
    BY <1>3, <1>4
  <2>3. CASE s[i] \in skipped
    BY <1>2, <2>2, <2>3
  <2>4. CASE dataPc = "notify" /\ at["data"] # 0 /\ at["data"] <= j
    <3>1. CASE i < at["data"]
      <4>1. s[i] \in Passed(s)
        BY <2>1, <2>2, <2>4, <3>1 DEF Passed
      <4> QED
        BY <1>2, <4>1
    <3>2. CASE at["data"] <= i
      BY <2>4, <3>2
    <3> QED
      BY <2>2, <3>1, <3>2
  <2> QED
    BY <1>5, <2>1, <2>3, <2>4
<1> QED
  BY <1>1, <1>2, <1>5

(* Every other step leaves who was told, or was told of a start, as it is. *)
LEMMA ToldStep == TypeOK /\ LifeInv /\ ToldInv /\ [Next]_vars => ToldInv'
<1> SUFFICES ASSUME TypeOK, LifeInv, ToldInv, [Next]_vars PROVE ToldInv'
  OBVIOUS
<1> USE DEF Peers, Broadcasters, table, statics, recording, broadcast,
            server, life, main, katcpVars
<1>0. CASE UNCHANGED <<busy, lock, dataPc, handler, at, news, skipped, clients, mainPc>>
  BY <1>0 DEF ToldInv
<1>1. CASE KatcpStep /\ Data
  <2>1. CASE RollOver
    BY <1>1, <2>1 DEF TypeOK, ToldInv, KatcpStep, RollOver, DataStep, Begin
  <2>2. CASE EnterIdle
    BY <1>1, <2>2 DEF TypeOK, TableOK, LifeInv, ToldInv, StoppingSteps, KatcpStep,
         EnterIdle, DataStep, Begin
  <2>3. CASE DataTell
    BY <1>1, <2>3, ToldByData
  <2>4. CASE DataTold
    BY <1>1, <2>4 DEF TypeOK, TableOK, ToldInv, KatcpStep, DataTold, DataStep,
         Finish, Sending
  <2> QED
    BY <1>1, <2>1, <2>2, <2>3, <2>4 DEF Data
<1>2. CASE KatcpStep /\ (Startup \/ Listen \/ ListenInVain \/ Leave \/ Resubscribe)
  BY <1>0, <1>2 DEF KatcpStep, Startup, Listen, ListenInVain, Leave, Resubscribe, ServerStep
<1>3. CASE KatcpStep /\ (StartCommit \/ ServerTell \/ StartDone)
  <2> USE DEF TypeOK, ToldInv
  <2>1. CASE StartCommit
    BY <1>3, <2>1 DEF KatcpStep, StartCommit, Begin, ServerStep
  <2>2. CASE ServerTell
    BY <1>3, <2>2 DEF KatcpStep, ServerTell, Tell, Sending, TableOK, ServerStep
  <2>3. CASE StartDone
    BY <1>3, <2>3 DEF KatcpStep, StartDone, Finish, ServerStep
  <2> QED
    BY <1>3, <2>1, <2>2, <2>3
<1>4. CASE KatcpStep /\ Requests
  <2>1. CASE StopCommit
    BY <1>4, <2>1 DEF ToldInv, KatcpStep, StopCommit, ServerStep
  <2> QED
    BY <1>0, <1>4, <2>1 DEF KatcpStep, Requests, StartCheck, StartIgnored, StopCheck,
         QueryUnset, WriteRegister, Request, ServerStep
<1>5. ASSUME NEW o \in Operators, KatcpStep, Accept(o) PROVE ToldInv'
  BY <1>5 DEF TypeOK, TableOK, ToldInv, KatcpStep, Accept
<1>6. ASSUME NEW o \in Operators, KatcpStep, Drop(o) PROVE ToldInv'
  BY <1>6, ToldOverDrop
<1>7. CASE WriteReturns \/ SubscribeReturns
  BY <1>0, <1>7 DEF WriteReturns, SubscribeReturns, Return, ServerStep
<1>8. CASE StartUp
  <2> USE DEF ToldInv
  <2>1. CASE Launch \/ Writer \/ Set
    BY <2>1 DEF Launch, Writer, Set, Only, MainStep, startServer, setFileWriter,
         setKATCPClient
  <2>2. CASE Register
    BY <2>2 DEF Register, Only, MainStep, registerHandler
  <2>3. CASE Make \/ Skip \/ Connect
    BY <2>3 DEF Make, Skip, Connect, MainStep, Started, katcpSame
  <2> QED
    BY <1>8, <2>1, <2>2, <2>3 DEF StartUp
<1>9. CASE Shutdown
  <2> USE DEF ToldInv
  <2>1. CASE Interrupt \/ FileClosed \/ NotStarted \/ Reset \/ Join \/ Poke
    BY <2>1 DEF Interrupt, FileClosed, NotStarted, Reset, Join, Poke, Only, MainStep,
         Stopped, katcpSame
  <2>2. CASE ShutdownStop
    BY <2>2 DEF ShutdownStop, Only, MainStep
  <2>3. CASE ReceiverReset
    BY <2>3 DEF ReceiverReset, Only, MainStep
  <2>4. CASE Replace \/ Terminate \/ JoinServer \/ Free
    BY <2>4 DEF Replace, Terminate, JoinServer, Free, Only, MainStep, setKATCPClient,
         terminate, joinServer, freeDispatch
  <2>5. CASE Deregister
    BY <2>5 DEF TypeOK, LifeInv, StoppingSteps, Deregister, Only, MainStep,
         deregisterHandler
  <2> QED
    BY <1>9, <2>1, <2>2, <2>3, <2>4, <2>5 DEF Shutdown, Stopping
<1>10. ASSUME NEW p \in Peers, Reader(p) PROVE ToldInv'
  BY <1>0, <1>10 DEF Reader, Connected, Deliver, Delivered, Ended
<1>11. CASE UNCHANGED vars
  BY <1>0, <1>11 DEF vars
<1> QED
  BY <1>1, <1>2, <1>3, <1>4, <1>5, <1>6, <1>7, <1>8, <1>9, <1>10, <1>11
     DEF Next, KatcpStep, Serve, Starting

(* Only a step that uses something gone sets fault, and then all stop.      *)
LEMMA SafeStep ==
  TypeOK /\ LifeInv /\ MainInv /\ UseInv /\ SafeWhileServing /\ [Next]_vars
    => SafeWhileServing'
<1> SUFFICES ASSUME TypeOK, LifeInv, MainInv, UseInv, SafeWhileServing, [Next]_vars
             PROVE  SafeWhileServing'
  OBVIOUS
<1> USE DEF SafeWhileServing, StoppingSteps, Peers, Up
<1>1. CASE fault' = "none"
  BY <1>1
<1>2. CASE KatcpStep /\ (QueryUnset \/ ListenInVain)
  <2>1. CASE QueryUnset
    <3>1. mainPc = "writer" /\ mainPc' = mainPc
      BY <1>2, <2>1 DEF LifeInv, MainInv, TypeOK, KatcpStep, QueryUnset, Request,
           ServerStep, main
    <3> QED
      BY <2>1, <3>1 DEF QueryUnset
  <2>2. CASE ListenInVain
    BY <2>2 DEF ListenInVain
  <2> QED
    BY <1>2, <2>1, <2>2
<1>3. CASE KatcpStep /\ ~(QueryUnset \/ ListenInVain)
  BY <1>1, <1>3 DEF KatcpStep, Data, RollOver, EnterIdle, DataTell, DataTold,
       DataStep, Serve, Startup, Listen, Leave, Starting, StartCommit, ServerTell,
       StartDone, Resubscribe, Requests, StartCheck, StartIgnored, StopCheck,
       StopCommit, WriteRegister, Accept, Drop, Request, ServerStep
<1>4. ASSUME NEW p \in Peers, NEW from, Return(from, Harm(p)), UNCHANGED <<main, thread>>,
             from = (IF p = "roach" THEN "write" ELSE "subscribe")
      PROVE  SafeWhileServing'
  <2>1. UNCHANGED <<mainPc, thread, pointer>> /\ serverPc = from
    BY <1>4 DEF Return, ServerStep, statics, main
  <2>2. CASE using = "client" /\ ~Alive(p)
    <3>1. mainPc \in StoppingSteps
      BY <1>4, <2>1, <2>2 DEF UseInv, Alive
    <3> QED
      BY <1>4, <2>1, <2>2, <3>1 DEF Return, Harm
  <2>3. CASE using = "stub" \/ Unconnected(p)
    <3>1. \E q \in Peers : Unconnected(q)' \/ pointer'[q] = "stub"
      BY <2>1, <2>3 DEF UseInv, Unconnected
    <3> QED
      BY <1>4, <2>2, <2>3, <3>1 DEF Return, Harm
  <2>4. CASE ~(using = "client" /\ ~Alive(p)) /\ ~(using = "stub" \/ Unconnected(p))
    BY <1>4, <2>4 DEF Return, Harm
  <2> QED
    BY <2>2, <2>3, <2>4
<1>5. CASE WriteReturns \/ SubscribeReturns
  BY <1>4, <1>5 DEF WriteReturns, SubscribeReturns
<1>6. CASE StartUp
  BY <1>1, <1>6 DEF StartUp, Launch, Writer, Register, Make, Set, Skip, Connect, Only,
       MainStep, katcpVars
<1>7. CASE Shutdown
  BY <1>1, <1>7 DEF Shutdown, Interrupt, ShutdownStop, FileClosed, ReceiverReset,
       Stopping, Replace, NotStarted, Reset, Join, Terminate, Poke, JoinServer,
       Free, Deregister, Only, MainStep
<1>8. ASSUME NEW p \in Peers, Reader(p) PROVE SafeWhileServing'
  <2>1. CASE Delivered(p)
    BY <2>1 DEF UseInv, Delivered, Alive, main
  <2> QED
    BY <1>1, <1>8, <2>1 DEF Reader, Connected, Deliver, Ended, katcpVars
<1>9. CASE UNCHANGED vars
  BY <1>9 DEF vars, katcpVars, statics, main, Unconnected
<1> QED
  BY <1>2, <1>3, <1>5, <1>6, <1>7, <1>8, <1>9 DEF Next

-----------------------------------------------------------------------------
(* All of it. *)
ServerInv == TypeOK /\ LifeInv /\ MainInv /\ UseInv /\ ToldInv /\ SafeWhileServing

(* It holds when the constructor has run. *)
LEMMA InitInv == Init => ServerInv
<1> SUFFICES ASSUME Init PROVE ServerInv
  OBVIOUS
<1> USE DEF Init, KatcpInit, Up, Faults, Peers, Broadcasters, StoppingSteps, StartUpSteps
<1>1. TypeOK
  <2>1. TableOK
    BY DEF TableOK, IsInjective
  <2>2. {exiting, writer, handler, busy, poked} \subseteq BOOLEAN
    BY Zenon
  <2> QED
    BY <2>1, <2>2, MaxConnectsAssumption DEF TypeOK
<1>2. LifeInv /\ MainInv /\ UseInv
  BY DEF LifeInv, Serving, MainInv, Past, UseInv
<1>3. ToldInv /\ SafeWhileServing
  BY DEF ToldInv, SafeWhileServing
<1> QED
  BY <1>1, <1>2, <1>3 DEF ServerInv

(* The inductive invariant holds in every state, whatever the operators,   *)
(* the number of their connections and the clients that are wanted.        *)
THEOREM ServerInvariant == Spec => []ServerInv
<1>1. ServerInv /\ [Next]_vars => ServerInv'
  BY LifeStep, TypeStep, HeldStep, UseStep, ToldStep, SafeStep DEF ServerInv
<1> QED
  BY InitInv, <1>1, PTL DEF Spec

(* Type correctness of the program's threads and of what they share.       *)
THEOREM ServerTypes == Spec => []TypeOK
<1>1. ServerInv => TypeOK
  BY DEF ServerInv
<1> QED
  BY ServerInvariant, <1>1, PTL

(* An idle writer has told everyone who was not moved that the recording   *)
(* stopped, however the two threads' broadcasts met                        *)
(* (HDF5FileWriter.cpp:259-273, KATCPServer.cpp:1133-1169).                *)
THEOREM ServerTellsOperators == Spec => []OperatorsAreTold
<1>1. ServerInv => OperatorsAreTold
  BY DEF ServerInv, ToldInv, OperatorsAreTold, TypeOK, TableOK, Range
<1> QED
  BY ServerInvariant, <1>1, PTL

(* A broadcast always finds the dispatch that shutdown frees               *)
(* (RoachAcquisitionServer.cpp:59-67, KATCPServer.cpp:364-383).            *)
THEOREM ServerBroadcastsSafely == Spec => []BroadcastsFindServer
<1>1. ServerInv => BroadcastsFindServer
  BY DEF ServerInv, TypeOK, LifeInv, Serving, StoppingSteps, Broadcasters,
         BroadcastsFindServer
<1> QED
  BY ServerInvariant, <1>1, PTL

(* The thread that records has ended before a client is stopped, a         *)
(* client's thread before what comes after it is, and every broadcaster    *)
(* before the dispatch is freed (RoachAcquisitionServer.cpp:55-73,         *)
(* KATCPServer.cpp:364-383).  That no request is inside a client that is   *)
(* destroyed it does not say, and CallsEndFirst shows otherwise.           *)
THEOREM ServerThreadsEnd == Spec => []ThreadsEndFirst
<1>1. ServerInv => ThreadsEndFirst
  BY DEF ServerInv, TypeOK, LifeInv, MainInv, Past, StoppingSteps, Peers, Alive,
         ThreadsEndFirst
<1> QED
  BY ServerInvariant, <1>1, PTL

(* The file writer is used unset only between startServer and              *)
(* setFileWriter, a destroyed client only while the clients are stopped,   *)
(* and one without a connection only where there is one                    *)
(* (KATCPServer.cpp:385-417, 476-480, 520, 745).                           *)
THEOREM ServerServesSafely == Spec => []SafeWhileServing
<1>1. ServerInv => SafeWhileServing
  BY DEF ServerInv
<1> QED
  BY ServerInvariant, <1>1, PTL
=============================================================================
