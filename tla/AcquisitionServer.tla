--------------------------- MODULE AcquisitionServer ---------------------------
(***************************************************************************)
(* cRoachAcquisitionServer and main: the components are started one after  *)
(* the other, run until Control-C, and are then destroyed, while the       *)
(* threads of those that are still there go on (RoachAcquisitionServer.cpp *)
(* and Main.cpp).                                                          *)
(*                                                                         *)
(* This composes the main thread with the KATCP server, the thread that    *)
(* records and the read threads of the two KATCP clients.  The clients'    *)
(* base class is external: connect starts the read thread, or a thread     *)
(* that keeps trying until there is a connection to read from; the         *)
(* destructor, which runs after that of the derived class, asks it to end  *)
(* and joins it.  A connection once made may be lost (RoachClient and      *)
(* StationClient say what becomes of it), but the object is as good as     *)
(* before to those who call it.                                            *)
(***************************************************************************)
EXTENDS KatcpServer

VARIABLES
  mainPc,    \* where the main thread is
  peer,      \* the client it is starting or stopping
  wanted,    \* the clients whose addresses were given on the command line
  held,      \* the clients cRoachAcquisitionServer holds a pointer to
  thread,    \* each client's thread: "none", it tries to connect, or reads
  poked      \* the server was woken to look at its exit flag

main == <<mainPc, peer, wanted, held, poked>>
vars == <<katcpVars, main, thread>>

(* The constructor has run: data are being received.                       *)
Init ==
  /\ KatcpInit
  /\ mainPc = "launch"
  /\ peer = "station"
  /\ wanted \in SUBSET Peers
  /\ held = {}
  /\ thread = [p \in Peers |-> "none"]
  /\ poked = FALSE

Alive(p) == p \in held \/ pointer[p] = "client"

-----------------------------------------------------------------------------
(* The clients' threads.                                                   *)

(* An attempt to connect succeeds.                                         *)
Connected(p) ==
  /\ Up
  /\ thread[p] = "try"
  /\ thread' = [thread EXCEPT ![p] = "run"]
  /\ UNCHANGED <<katcpVars, main>>

(* A value was read, or a message came: into the callbacks and out again.  *)
Deliver(p) ==
  /\ Up
  /\ thread[p] = "run"
  /\ thread' = [thread EXCEPT ![p] = "deliver"]
  /\ UNCHANGED <<katcpVars, main>>

(* The station client's processKATCPMessage and what it uses belong to the *)
(* derived class, of which nothing is left once the destructor runs.       *)
Delivered(p) ==
  /\ Up
  /\ thread[p] = "deliver"
  /\ thread' = [thread EXCEPT ![p] = "run"]
  /\ fault' \in {"none"} \cup IF Alive(p) \/ p = "roach" THEN {} ELSE {"destroyed"}
  /\ UNCHANGED <<table, statics, recording, broadcast, server, life, main>>

(* The base class's destructor ends the thread, between two messages or    *)
(* two attempts.                                                           *)
Ended(p) ==
  /\ Up
  /\ mainPc = "join" /\ peer = p
  /\ thread[p] \in {"try", "run"}
  /\ thread' = [thread EXCEPT ![p] = "ended"]
  /\ UNCHANGED <<katcpVars, main>>

Reader(p) == Connected(p) \/ Deliver(p) \/ Delivered(p) \/ Ended(p)

-----------------------------------------------------------------------------
(* The requests that use a client.                                         *)

Unconnected(p) == thread[p] \in {"none", "try"}

(* What a call into an object may die of: a client that was destroyed, or  *)
(* one, like that put in its place, that never had a connection.  The      *)
(* requests look at nothing but the pointer.                               *)
Harm(p) ==
  IF using = "client" /\ ~Alive(p) THEN {"destroyed"}
  ELSE IF using = "stub" \/ Unconnected(p) THEN {"unconnected"}
  ELSE {}

(* writeRoachRegister returns with its reply, which may never come, or     *)
(* because the client is not, or no longer, connected.                     *)
WriteReturns == Return("write", Harm("roach")) /\ UNCHANGED <<main, thread>>

SubscribeReturns == Return("subscribe", Harm("station")) /\ UNCHANGED <<main, thread>>

-----------------------------------------------------------------------------
(* The main thread.                                                        *)

MainStep(from, to) ==
  /\ Up
  /\ mainPc = from
  /\ mainPc' = to
  /\ UNCHANGED <<wanted, thread, fault>>

Only(from, to) == MainStep(from, to) /\ UNCHANGED <<peer, held, poked>>

katcpSame == <<table, statics, recording, broadcast, server, life>>

Launch   == Only("launch", "writer") /\ startServer
Writer   == Only("writer", "handler") /\ setFileWriter
Register == Only("handler", "make") /\ registerHandler

(* startStationControllerKATCPClient, then startRoachKATCPClient: make the *)
(* client, hand it to the server, and then connect it.                     *)
Make ==
  /\ peer \in wanted
  /\ MainStep("make", "set")
  /\ held' = held \cup {peer}
  /\ UNCHANGED <<katcpSame, peer, poked>>

Set == Only("set", "connect") /\ setKATCPClient(peer, "client")

Started(p) == IF p = "station" THEN "make" ELSE "run"

Skip ==
  /\ peer \notin wanted
  /\ MainStep("make", Started(peer))
  /\ peer' = "roach"
  /\ UNCHANGED <<katcpSame, held, poked>>

(* The ROACH's connection is tried once and its failure ignored; the       *)
(* station controller's is tried again and again, while main goes on.      *)
Connect ==
  /\ Up
  /\ mainPc = "connect"
  /\ mainPc' = Started(peer)
  /\ peer' = "roach"
  /\ \E to \in {"run", IF peer = "roach" THEN "none" ELSE "try"} :
       thread' = [thread EXCEPT ![peer] = to]
  /\ UNCHANGED <<katcpVars, wanted, held, poked>>

StartUp == Launch \/ Writer \/ Register \/ Make \/ Set \/ Skip \/ Connect

(* Control-C: the recording is stopped and its end waited for.             *)
Interrupt ==
  /\ lock = "free"
  /\ Only("run", IF busy THEN "stop" ELSE "close")
  /\ UNCHANGED katcpSame

ShutdownStop ==
  /\ Only("stop", "close")
  /\ lock = "free"
  /\ busy' = TRUE
  /\ UNCHANGED <<table, statics, lock, dataPc, broadcast, server, life>>

FileClosed ==
  /\ Only("close", "receiver")
  /\ ~busy /\ lock = "free"
  /\ UNCHANGED katcpSame

ReceiverLeft ==    \* faulty: the receiver is not destroyed here
  Only("receiver", "replace") /\ UNCHANGED katcpSame

(* m_pUDPReceiver.reset() joins the thread that records.                   *)
ReceiverReset ==
  /\ Only("receiver", "replace")
  /\ dataPc = "wait"
  /\ dataPc' = "ended"
  /\ UNCHANGED <<table, statics, busy, lock, broadcast, server, life>>

Stopped(p) == IF p = "roach" THEN "replace" ELSE "terminate"

ReplaceLeft ==    \* faulty: the server keeps its pointer
  /\ peer \in held
  /\ Only("replace", "reset")
  /\ UNCHANGED katcpSame

(* stopRoachKATCPClient, then stopStationControllerKATCPClient: the server *)
(* is given a new client, and the pointer to the old one dropped.          *)
Replace ==
  /\ peer \in held
  /\ Only("replace", "reset")
  /\ setKATCPClient(peer, "stub")

NotStarted ==
  /\ peer \notin held
  /\ MainStep("replace", Stopped(peer))
  /\ peer' = "station"
  /\ UNCHANGED <<katcpSame, held, poked>>

(* The last pointer takes the client with it.                              *)
Reset ==
  /\ MainStep("reset", IF pointer[peer] = "client" THEN Stopped(peer) ELSE "join")
  /\ held' = held \ {peer}
  /\ peer' = IF pointer[peer] = "client" THEN "station" ELSE peer
  /\ UNCHANGED <<katcpSame, poked>>

Join ==
  /\ thread[peer] \in {"none", "ended"}
  /\ MainStep("join", Stopped(peer))
  /\ peer' = "station"
  /\ UNCHANGED <<katcpSame, held, poked>>

Terminate == Only("terminate", "poke") /\ terminate

(* A connection from a temporary socket makes the server look.             *)
Poke ==
  /\ MainStep("poke", "joinServer")
  /\ poked' = (serverPc \notin {"launched", "registering", "ended"})
  /\ UNCHANGED <<katcpSame, peer, held>>

JoinServer == Only("joinServer", "free") /\ joinServer
Free       == Only("free", "deregister") /\ freeDispatch
Deregister == Only("deregister", "done") /\ deregisterHandler

Stopping ==
  \/ Replace \/ NotStarted \/ Reset \/ Join \/ Terminate \/ Poke \/ JoinServer
  \/ Free \/ Deregister

Shutdown == Interrupt \/ ShutdownStop \/ FileClosed \/ ReceiverReset \/ Stopping

-----------------------------------------------------------------------------
KatcpStep == (Serve \/ Data) /\ UNCHANGED <<main, thread>>

Next ==
  \/ KatcpStep
  \/ WriteReturns \/ SubscribeReturns
  \/ StartUp \/ Shutdown
  \/ \E p \in Peers : Reader(p)

Spec == Init /\ [][Next]_vars

(* The mutex of the ROACH client that a write holds to its end.            *)
MutexFree(p) == p = "roach" => ~(serverPc = "write" /\ using = "client")

(* Threads that are not blocked go on.  A write to a client that is there  *)
(* may wait for ever; the server looks at its exit flag when it is woken;  *)
(* connections, requests and Control-C may never come.                     *)
Fairness ==
  /\ WF_vars(StartUp)
  /\ WF_vars(ShutdownStop \/ FileClosed \/ Stopping)
  /\ SF_vars(ReceiverReset)
  /\ WF_vars((DataTell \/ DataTold) /\ UNCHANGED <<main, thread>>)
  /\ WF_vars((Startup \/ Listen \/ ListenInVain \/ Starting \/ StopCommit) /\ UNCHANGED <<main, thread>>)
  /\ SF_vars(poked /\ Leave /\ UNCHANGED <<main, thread>>)
  /\ WF_vars(Harm("roach") # {} /\ WriteReturns)
  /\ WF_vars(SubscribeReturns)
  /\ \A p \in Peers :
       /\ WF_vars(Delivered(p))
       /\ SF_vars(MutexFree(p) /\ Ended(p))

FairSpec == Spec /\ Fairness
-----------------------------------------------------------------------------
(* Properties.                                                             *)

StartUpSteps == {"launch", "writer", "handler", "make", "set", "connect"}

StoppingSteps == {"replace", "reset", "join", "terminate", "poke",
                  "joinServer", "free", "deregister", "done"}

(* What a thread may find missing. *)
Faults == {"none", "unset", "dispatch", "unconnected", "destroyed"}

(* Main is past the stopping of client p. *)
Past(p) ==
  \/ mainPc \in {"terminate", "poke", "joinServer", "free", "deregister", "done"}
  \/ mainPc \in StoppingSteps /\ p = "roach" /\ peer = "station"

(* The server's table of clients. *)
TableOK == clients \in Seq(Operators) /\ IsInjective(clients)

(* Every variable keeps the kind of value the code gives it, and a thread  *)
(* holds a place in the table, or the lock, only where it broadcasts.      *)
TypeOK ==
  /\ serverPc \in {"none", "launched", "registering", "serve", "start", "announce",
                   "resubscribe", "subscribe", "stop", "write", "ended"}
  /\ dispatch \in {"none", "up", "freed"}
  /\ exiting \in BOOLEAN
  /\ TableOK
  /\ connects \in 0..MaxConnects
  /\ writer \in BOOLEAN /\ handler \in BOOLEAN
  /\ pointer \in [Peers -> {"none", "client", "stub"}]
  /\ using \in {"nothing", "client", "stub"}
  /\ busy \in BOOLEAN
  /\ lock \in {"free"} \cup Broadcasters
  /\ dataPc \in {"wait", "announce", "notify", "ended"}
  /\ at \in [Broadcasters -> Nat]
  /\ at["data"] # 0 => dataPc \in {"announce", "notify"}
  /\ at["server"] # 0 => serverPc = "announce"
  /\ lock = "data" <=> dataPc = "announce"
  /\ lock = "server" <=> serverPc = "announce"
  /\ news \in [Operators -> {"nothing", "started", "stopped"}]
  /\ skipped \subseteq Operators
  /\ fault \in Faults
  /\ mainPc \in StartUpSteps \cup {"run", "stop", "close", "receiver"} \cup StoppingSteps
  /\ peer \in Peers
  /\ wanted \subseteq Peers
  /\ held \subseteq wanted
  /\ thread \in [Peers -> {"none", "try", "run", "deliver", "ended"}]
  /\ poked \in BOOLEAN

(* Once the writer has settled in IDLE, no operator that is connected was  *)
(* last told that a recording started, however the broadcasts of two       *)
(* threads, one of them without the lock, met each other and the table of  *)
(* clients (HDF5FileWriter.cpp:259-273, 671-673, KATCPServer.cpp:1141,     *)
(* 1160).  An operator who is moved to a place already passed is missed.   *)
OperatorsAreTold ==
  ~busy /\ dataPc \in {"wait", "ended"} =>
    \A o \in Range(clients) \ skipped : news[o] # "started"

(* A broadcast always finds the server's dispatch: shutdown waits for the  *)
(* writer to be idle, which it is before it has told everyone, and only    *)
(* the join of the thread that records keeps the dispatch alive that long  *)
(* (RoachAcquisitionServer.cpp:59-67, KATCPServer.cpp:364-383).            *)
BroadcastsFindServer ==
  \A t \in Broadcasters : at[t] # 0 => dispatch = "up"

(* Shutdown takes things away in the order in which their users end: the   *)
(* thread that records before a client is stopped, a client's thread       *)
(* before the next is stopped or the server told to end, and everyone who  *)
(* broadcasts before the dispatch is freed.  No client is left in a static *)
(* pointer, to be destroyed after main has returned                        *)
(* (RoachAcquisitionServer.cpp:55-73, 134-147, KATCPServer.cpp:364-383).   *)
ThreadsEndFirst ==
  /\ mainPc \in StoppingSteps => dataPc = "ended"
  /\ \A p \in Peers : Past(p) => thread[p] \in {"none", "ended"} /\ ~Alive(p)
  /\ dispatch = "freed" \/ mainPc = "done" => serverPc = "ended" /\ dataPc = "ended"

(* What is used without being there has its time: the file writer's unset  *)
(* pointer between startServer and setFileWriter, and a client that was    *)
(* destroyed once the clients are being stopped, never while the program   *)
(* serves.  A client that has no connection, or not yet, may be used at    *)
(* any time: none was made, or it was put in the place of another          *)
(* (KATCPServer.cpp:385-417, 476-480, 520, 745,                            *)
(* RoachAcquisitionServer.cpp:128-131, 177-181).                           *)
SafeWhileServing ==
  /\ fault = "unset" => mainPc = "writer"
  /\ fault = "destroyed" => mainPc \in StoppingSteps
  /\ fault = "unconnected" => \E p \in Peers : Unconnected(p) \/ pointer[p] = "stub"

(* From the join of the thread that records on, the shutdown of a server   *)
(* that got as far as to listen ends: the temporary socket and the         *)
(* disconnects get every thread out of what it waits for                   *)
(* (RoachAcquisitionServer.cpp:61-68, KATCPServer.cpp:364-383).            *)
ShutdownEnds ==
  (mainPc = "receiver" /\ serverPc \notin {"launched", "registering"})
    ~> (mainPc = "done" \/ ~Up)

(* "Control-C during program operation for clean shutdown" (Main.cpp:92):  *)
(* a client is not destroyed under a request that is using it.             *)
CallsEndFirst ==
  /\ serverPc = "write" /\ using = "client" => Alive("roach")
  /\ serverPc = "subscribe" /\ using = "client" => Alive("station")
=============================================================================
