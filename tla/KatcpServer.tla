------------------------------ MODULE KatcpServer ------------------------------
(***************************************************************************)
(* cKATCPServer: the thread that serves the operators' requests, and the   *)
(* broadcasts of the file writer's events to them, which are made on       *)
(* whichever thread changes the writer's state (KATCPServer.cpp).          *)
(*                                                                         *)
(* The file writer is reduced to what the broadcasts depend on: whether it *)
(* is busy, who holds its m_oMutex, and the thread that records.  libkatcp *)
(* and its table of clients are external.  The operations the main thread  *)
(* calls are given here and sequenced in AcquisitionServer.                *)
(***************************************************************************)
EXTENDS Integers, Sequences, Functions

CONSTANTS
  Operators,    \* KATCP clients of this server
  MaxConnects   \* bound on the connections they make

ASSUME MaxConnectsAssumption == MaxConnects \in Nat

Peers == {"roach", "station"}       \* what the KATCP clients connect to
Broadcasters == {"server", "data"}  \* the threads that broadcast

VARIABLES
  serverPc,   \* where the KATCP server thread is
  dispatch,   \* m_pKATCPDispatch
  exiting,    \* terminate_katcp has been called on it
  clients,    \* its s_clients, up to s_used
  connects,   \* how often an operator connected
  writer,     \* m_pFileWriter is set
  handler,    \* the server's callback handler is registered with the writer
  pointer,    \* m_pRoachKATCPClient, m_pStationControllerKATCPClient
  using,      \* the object a request called, by raw reference
  busy,       \* the writer is not IDLE
  lock,       \* the thread that broadcasts with the writer's m_oMutex held
  dataPc,     \* where the thread that records is
  at,         \* per thread, the place in clients its broadcast is at, 0 if none
  news,       \* the event each operator was last sent
  skipped,    \* operators moved to a place their broadcast had passed
  fault       \* what was used that is not there, and ended the process

table     == <<clients, connects, skipped>>
statics   == <<writer, handler, pointer>>
recording == <<busy, lock, dataPc>>
broadcast == <<at, news>>
server    == <<serverPc, using>>
life      == <<dispatch, exiting>>
katcpVars == <<table, statics, recording, broadcast, server, life, fault>>

(* The process has not crashed. *)
Up == fault = "none"

KatcpInit ==
  /\ serverPc = "none"
  /\ dispatch = "none"
  /\ exiting = FALSE
  /\ clients = <<>>
  /\ connects = 0
  /\ writer = FALSE
  /\ handler = FALSE
  /\ pointer = [p \in Peers |-> "none"]
  /\ using = "nothing"
  /\ busy = FALSE
  /\ lock = "free"
  /\ dataPc = "wait"
  /\ at = [t \in Broadcasters |-> 0]
  /\ news = [o \in Operators |-> "nothing"]
  /\ skipped = {}
  /\ fault = "none"

-----------------------------------------------------------------------------
(* recordingStarted_callback and recordingStopped_callback: the loop over  *)
(* the table, which looks at its length again before each client.          *)

Begin(t) == at' = [at EXCEPT ![t] = IF handler THEN 1 ELSE 0]

Sending(t) == at[t] \in 1..Len(clients)

Tell(t, event) ==
  /\ Sending(t)
  /\ LET o == clients[at[t]]
     IN  /\ news' = [news EXCEPT ![o] = event]
         /\ skipped' = IF event = "stopped" THEN skipped \ {o} ELSE skipped
  /\ at' = [at EXCEPT ![t] = @ + 1]

FinishLeft(t) ==    \* faulty: the place is kept
  ~Sending(t) /\ UNCHANGED at

Finish(t) ==
  /\ ~Sending(t)
  /\ at' = [at EXCEPT ![t] = 0]

-----------------------------------------------------------------------------
(* The thread that records.                                                *)

DataStep(from, to) ==
  /\ Up
  /\ dataPc = from
  /\ dataPc' = to
  /\ UNCHANGED <<clients, connects, statics, server, life, fault>>

(* A rollover requests a start, and announces it under the lock.           *)
RollOver ==
  /\ DataStep("wait", "announce")
  /\ busy
  /\ lock = "free"
  /\ lock' = "data"
  /\ Begin("data")
  /\ UNCHANGED <<busy, news, skipped>>

(* The writer goes idle.  The lock is free again before anyone is told.    *)
EnterIdle ==
  /\ DataStep("wait", "notify")
  /\ busy
  /\ lock = "free"
  /\ busy' = FALSE
  /\ Begin("data")
  /\ UNCHANGED <<lock, news, skipped>>

DataTell ==
  \/ DataStep("announce", "announce") /\ Tell("data", "started") /\ UNCHANGED <<busy, lock>>
  \/ DataStep("notify", "notify") /\ Tell("data", "stopped") /\ UNCHANGED <<busy, lock>>

DataTold ==
  /\ \/ DataStep("announce", "wait") /\ lock' = "free"
     \/ DataStep("notify", "wait") /\ UNCHANGED lock
  /\ Finish("data")
  /\ UNCHANGED <<busy, news, skipped>>

Data == RollOver \/ EnterIdle \/ DataTell \/ DataTold

-----------------------------------------------------------------------------
(* The server thread: serverThreadFunction.                                *)

ServerStep(from, to) ==
  /\ Up
  /\ serverPc = from
  /\ serverPc' = to
  /\ UNCHANGED <<connects, statics, dataPc>>

(* startup_katcp may run out of memory, which is printed and then ignored. *)
Startup ==
  /\ ServerStep("launched", "registering")
  /\ dispatch' \in {"up", "none"}
  /\ UNCHANGED <<clients, skipped, using, exiting, busy, lock, broadcast, fault>>

(* run_multi_server_katcp may fail to listen, and the thread then ends.    *)
Listen ==
  /\ dispatch = "up"
  /\ \E to \in {"serve", "ended"} : ServerStep("registering", to)
  /\ UNCHANGED <<clients, skipped, using, life, busy, lock, broadcast, fault>>

(* What the library makes of a dispatch that is not there is its affair.   *)
ListenInVain ==
  /\ dispatch = "none"
  /\ ServerStep("registering", "ended")
  /\ fault' \in {"none", "dispatch"}
  /\ UNCHANGED <<clients, skipped, using, life, busy, lock, broadcast>>

Accept(o) ==
  /\ Up
  /\ serverPc = "serve"
  /\ connects < MaxConnects
  /\ o \notin Range(clients)
  /\ clients' = Append(clients, o)
  /\ connects' = connects + 1
  /\ news' = [news EXCEPT ![o] = "nothing"]
  /\ UNCHANGED <<statics, recording, at, skipped, server, life, fault>>

(* The tables that are left when o has gone: without a gap, in any order.  *)
Without(o) ==
  {s \in [1..(Len(clients) - 1) -> Range(clients) \ {o}] : IsInjective(s)}

(* Those a running broadcast has yet to reach in clients but not in s.     *)
Passed(s) ==
  IF dataPc = "notify"
  THEN {s[i] : i \in {j \in DOMAIN s : j < at["data"]}}
         \cap {clients[i] : i \in {j \in DOMAIN clients : j >= at["data"]}}
  ELSE {}

Drop(o) ==
  /\ Up
  /\ serverPc = "serve"
  /\ o \in Range(clients)
  /\ \E s \in Without(o) :
       /\ clients' = s
       /\ skipped' = (skipped \ {o}) \cup Passed(s)
  /\ UNCHANGED <<connects, statics, recording, broadcast, server, life, fault>>

Leave ==
  /\ ServerStep("serve", "ended")
  /\ exiting
  /\ UNCHANGED <<clients, skipped, using, life, busy, lock, broadcast, fault>>

-----------------------------------------------------------------------------
(* The requests of an operator, on the server thread.                      *)

Request(to) ==
  /\ ServerStep("serve", to)
  /\ clients # <<>>
  /\ UNCHANGED <<clients, life, broadcast, skipped>>

(* ?startRecording, over the check of the state ...                        *)
StartCheck ==
  /\ Request("start")
  /\ writer
  /\ ~busy /\ lock = "free"
  /\ UNCHANGED <<using, busy, lock, fault>>

StartUnlocked ==    \* faulty: the lock is not held for the broadcast
  /\ ServerStep("start", "announce")
  /\ lock = "free"
  /\ busy' = TRUE
  /\ Begin("server")
  /\ UNCHANGED <<clients, life, lock, news, skipped, using, fault>>

(* ... the assignment, which announces the start before it lets go ...     *)
StartCommit ==
  /\ ServerStep("start", "announce")
  /\ lock = "free"
  /\ busy' = TRUE
  /\ lock' = "server"
  /\ Begin("server")
  /\ UNCHANGED <<clients, life, news, skipped, using, fault>>

ServerTell ==
  /\ ServerStep("announce", "announce")
  /\ Tell("server", "started")
  /\ UNCHANGED <<clients, life, busy, lock, using, fault>>

StartDone ==
  /\ ServerStep("announce", "resubscribe")
  /\ Finish("server")
  /\ lock' = "free"
  /\ UNCHANGED <<clients, life, busy, news, skipped, using, fault>>

(* ... or over nothing but the check, while the writer is busy.            *)
StartIgnored ==
  /\ Request("resubscribe")
  /\ writer
  /\ busy /\ lock = "free"
  /\ UNCHANGED <<using, busy, lock, fault>>

(* Either way it ends with the station client's subscribeSensorData, if    *)
(* there is such a client.                                                 *)
Resubscribe ==
  /\ ServerStep("resubscribe", IF pointer["station"] = "none" THEN "serve" ELSE "subscribe")
  /\ using' = IF pointer["station"] = "none" THEN "nothing" ELSE pointer["station"]
  /\ UNCHANGED <<clients, life, busy, lock, broadcast, skipped, fault>>

(* ?stopRecording.                                                         *)
StopCheck ==
  /\ Request("stop")
  /\ writer
  /\ busy /\ lock = "free"
  /\ UNCHANGED <<using, busy, lock, fault>>

StopCommit ==
  /\ ServerStep("stop", "serve")
  /\ lock = "free"
  /\ busy' = TRUE
  /\ UNCHANGED <<clients, life, lock, broadcast, skipped, using, fault>>

(* The status, file name and information requests and the recording        *)
(* sensors call the file writer without a look at the pointer.             *)
QueryUnset ==
  /\ Request("serve")
  /\ ~writer
  /\ fault' = "unset"
  /\ UNCHANGED <<using, busy, lock>>

(* Each of the requests that write a register of the ROACH.                *)
WriteRegister ==
  /\ Request("write")
  /\ pointer["roach"] # "none"
  /\ using' = pointer["roach"]
  /\ UNCHANGED <<busy, lock, fault>>

(* The call returns from the object, or does not survive what is wrong     *)
(* with it.                                                                *)
Return(from, harm) ==
  /\ ServerStep(from, "serve")
  /\ using' = "nothing"
  /\ fault' \in {"none"} \cup harm
  /\ UNCHANGED <<clients, life, busy, lock, broadcast, skipped>>

Starting == StartCommit \/ ServerTell \/ StartDone \/ Resubscribe

Requests ==
  \/ StartCheck \/ StartIgnored \/ StopCheck \/ StopCommit \/ QueryUnset
  \/ WriteRegister

Serve ==
  \/ Startup \/ Listen \/ ListenInVain \/ Leave \/ Starting \/ Requests
  \/ \E o \in Operators : Accept(o) \/ Drop(o)

-----------------------------------------------------------------------------
(* What the main thread calls.                                             *)

startServer ==
  /\ serverPc' = "launched"
  /\ UNCHANGED <<table, statics, recording, broadcast, using, life>>

setFileWriterUnset ==    \* faulty: the handler is all that is set up
  UNCHANGED <<table, statics, recording, broadcast, server, life>>

(* setFileWriter sets the pointer, which requests already use, and then    *)
(* registers.                                                              *)
setFileWriter ==
  /\ writer' = TRUE
  /\ UNCHANGED <<table, handler, pointer, recording, broadcast, server, life>>

registerHandler ==
  /\ handler' = TRUE
  /\ UNCHANGED <<table, writer, pointer, recording, broadcast, server, life>>

(* setRoachKATCPClient, setStationControllerKATCPClient.                   *)
setKATCPClient(p, object) ==
  /\ pointer' = [pointer EXCEPT ![p] = object]
  /\ UNCHANGED <<table, writer, handler, recording, broadcast, server, life>>

terminateLost ==    \* faulty: the server is not told
  UNCHANGED <<table, statics, recording, broadcast, server, life>>

(* stopServer: tell the server, if it got as far as to have a dispatch ... *)
terminate ==
  /\ exiting' = (dispatch = "up")
  /\ UNCHANGED <<table, statics, recording, broadcast, server, dispatch>>

(* ... join its thread ...                                                 *)
joinServer ==
  /\ serverPc = "ended"
  /\ UNCHANGED <<table, statics, recording, broadcast, server, life>>

(* ... free the dispatch; the destructor then deregisters.                 *)
freeDispatch ==
  /\ dispatch' = "freed"
  /\ UNCHANGED <<table, statics, recording, broadcast, server, exiting>>

deregisterHandler ==
  /\ handler' = FALSE
  /\ UNCHANGED <<table, writer, pointer, recording, broadcast, server, life>>
=============================================================================
