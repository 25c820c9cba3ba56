------------------------------ MODULE RoachClient ------------------------------
(***************************************************************************)
(* cRoachKATCPClient: one thread polls the ROACH's registers over a KATCP  *)
(* connection while the KATCP server thread writes registers over the same *)
(* one (RoachKATCPClient.cpp).                                             *)
(*                                                                         *)
(* Replies carry no identifier: only m_oKATCPMutex, held from a request    *)
(* until its reply has been dealt with, tells whose reply is whose.  The   *)
(* ROACH answers requests in order and may send other lines in between;    *)
(* it is external, and so are the socket and cKATCPClientBase.             *)
(*                                                                         *)
(* The value of a register is abstracted to the number of the write that   *)
(* set it.                                                                 *)
(***************************************************************************)
EXTENDS Integers, Sequences

CONSTANTS
  Registers,   \* how many registers are polled, in the order of the code
  Unchecked,   \* registers read without looking at disconnectRequested first
  MaxWrites,   \* bound on the writes requested
  MaxLines     \* bound on the lines the ROACH sends unasked

ASSUME BoundsAssumption ==
  /\ Registers \in Nat \ {0}
  /\ Unchecked \subseteq 2..Registers
  /\ MaxWrites \in Nat /\ MaxLines \in Nat

VARIABLES
  mutex,        \* who holds m_oKATCPMutex
  pollPc,       \* where the read thread is
  reg,          \* the register it is at
  value,        \* u32Value
  writePc,      \* where the KATCP server thread is in writeRoachRegister
  target,       \* the register it writes
  writes,       \* how many writes were asked for; the last one's number
  requests,     \* requests on their way to the ROACH
  lines,        \* lines on their way to the client
  registers,    \* the ROACH's registers
  shown,        \* the values last passed to the callback handlers
  unasked,      \* how many lines the ROACH sent unasked
  connected,    \* the connection is alive
  disconnect,   \* disconnectRequested()
  confirmed     \* history: the last write of each register answered ok

roach == <<registers, unasked>>
wire  == <<requests, lines, connected>>
poll  == <<pollPc, reg, value, shown>>
write == <<writePc, target, writes, confirmed>>
vars  == <<mutex, poll, write, wire, roach, disconnect>>

Regs == 1..Registers

Init ==
  /\ mutex = "nobody"
  /\ pollPc = "header"
  /\ reg = 1
  /\ value = 0
  /\ writePc = "idle"
  /\ target = 1
  /\ writes = 0
  /\ requests = <<>>
  /\ lines = <<>>
  /\ registers = [r \in Regs |-> 0]
  /\ shown = [r \in Regs |-> 0]
  /\ unasked = 0
  /\ connected = TRUE
  /\ disconnect = FALSE
  /\ confirmed = [r \in Regs |-> 0]

-----------------------------------------------------------------------------
(* The mutex and the connection.                                           *)

AlwaysFree(who) == mutex # who    \* faulty: the lock excludes nobody

Free(who) == mutex = "nobody"

(* readNextKATCPMessage: a line, or nothing when none came for a second,   *)
(* which only matters once a disconnect was requested.                     *)
HasLine == lines # <<>>
TakeLine == lines' = IF HasLine THEN Tail(lines) ELSE lines
IsReply(kind) == HasLine /\ Head(lines).kind = kind

NeverGiveUp == FALSE    \* faulty: the loop over lines misses a disconnect

(* The loops over lines look for a disconnect after every one.             *)
GiveUp == disconnect

(* write: what could not be sent within a second is not sent.              *)
Sent(kind, r) ==
  /\ connected
  /\ requests' = Append(requests, [kind |-> kind, reg |-> r, number |-> writes])

-----------------------------------------------------------------------------
(* threadReadFunction and readAllRegisters.                                *)

PollStep(from) ==
  /\ pollPc = from
  /\ UNCHANGED <<write, roach, connected, disconnect>>

NextUnwrapped(r) == r + 1    \* faulty: never starts over

NextRegister(r) == IF r = Registers THEN 1 ELSE r + 1

(* The text sent on connection is skipped, until a second passes silently. *)
PollHeader ==
  /\ PollStep("header")
  /\ pollPc' = IF HasLine /\ ~disconnect THEN "header" ELSE "check"
  /\ TakeLine
  /\ UNCHANGED <<mutex, reg, value, shown, requests>>

PollCheck ==
  /\ PollStep("check")
  /\ pollPc' = IF disconnect /\ reg \notin Unchecked THEN "done" ELSE "lock"
  /\ UNCHANGED <<mutex, reg, value, shown, requests, lines>>

PollLock ==
  /\ PollStep("lock")
  /\ Free("poll")
  /\ mutex' = "poll"
  /\ pollPc' = "send"
  /\ UNCHANGED <<reg, value, shown, requests, lines>>

(* readRoachRegister goes on to wait whether or not the request was sent.  *)
PollSend ==
  /\ PollStep("send")
  /\ pollPc' = "wait"
  /\ Sent("read", reg) \/ UNCHANGED requests
  /\ UNCHANGED <<mutex, reg, value, shown, lines>>

PollRegardless ==    \* faulty: the result of readRoachRegister is not looked at
  /\ PollStep("wait")
  /\ GiveUp \/ (IsReply("read") /\ ~Head(lines).ok)
  /\ TakeLine
  /\ pollPc' = "report"
  /\ UNCHANGED <<mutex, reg, value, shown, requests>>

(* The read failed or was given up: on to the next register.               *)
PollAbandon ==
  /\ PollStep("wait")
  /\ GiveUp \/ (IsReply("read") /\ ~Head(lines).ok)
  /\ TakeLine
  /\ mutex' = "nobody"
  /\ pollPc' = "check"
  /\ reg' = NextRegister(reg)
  /\ UNCHANGED <<value, shown, requests>>

(* Any other line is dropped.                                              *)
PollSkip ==
  /\ PollStep("wait")
  /\ ~GiveUp
  /\ HasLine /\ ~IsReply("read")
  /\ TakeLine
  /\ UNCHANGED <<mutex, pollPc, reg, value, shown, requests>>

PollUnlocked ==    \* faulty: the callbacks run after the lock is released
  /\ PollStep("wait")
  /\ ~GiveUp
  /\ IsReply("read") /\ Head(lines).ok
  /\ TakeLine
  /\ value' = Head(lines).number
  /\ mutex' = "nobody"
  /\ pollPc' = "report"
  /\ UNCHANGED <<reg, shown, requests>>

PollReply ==
  /\ PollStep("wait")
  /\ ~GiveUp
  /\ IsReply("read") /\ Head(lines).ok
  /\ TakeLine
  /\ value' = Head(lines).number
  /\ pollPc' = "report"
  /\ UNCHANGED <<mutex, reg, shown, requests>>

(* What the KATCP server, one of the handlers, keeps of each register ...  *)
Cache(r, v) == [shown EXCEPT ![r] = v]

(* ... and answers an operator who asks for it.                            *)
SensorValue(r) == shown[r]

(* The handlers are called with the mutex still held.                      *)
PollReport ==
  /\ PollStep("report")
  /\ shown' = Cache(reg, value)
  /\ mutex' = "nobody"
  /\ pollPc' = "check"
  /\ reg' = NextRegister(reg)
  /\ UNCHANGED <<value, requests, lines>>

Poll ==
  \/ PollHeader \/ PollCheck \/ PollLock \/ PollSend \/ PollAbandon
  \/ PollSkip \/ PollReply \/ PollReport

-----------------------------------------------------------------------------
(* writeRoachRegister, called by the KATCP server for ?setRoach...         *)

WriteStep(from) ==
  /\ writePc = from
  /\ UNCHANGED <<poll, roach, connected, disconnect>>

WriteCall(r) ==
  /\ WriteStep("idle")
  /\ writes < MaxWrites
  /\ writes' = writes + 1
  /\ target' = r
  /\ writePc' = "lock"
  /\ UNCHANGED <<mutex, confirmed, requests, lines>>

WriteLock ==
  /\ WriteStep("lock")
  /\ Free("write")
  /\ mutex' = "write"
  /\ writePc' = "send"
  /\ UNCHANGED <<target, writes, confirmed, requests, lines>>

(* A write that fails or takes too long returns at once and unlocks; the   *)
(* socket, which is external, is assumed to have sent nothing then, as the *)
(* caller takes it.                                                        *)
WriteSend ==
  /\ WriteStep("send")
  /\ \/ /\ Sent("write", target)
        /\ writePc' = "wait"
        /\ UNCHANGED mutex
     \/ /\ UNCHANGED requests
        /\ writePc' = "idle"
        /\ mutex' = "nobody"
  /\ UNCHANGED <<target, writes, confirmed, lines>>

Accepted == Head(lines).ok    \* faulty: waits on when the reply is not ok

Answered == TRUE

(* The reply is in, or the wait is given up.                               *)
WriteReturn ==
  /\ WriteStep("wait")
  /\ GiveUp \/ (IsReply("write") /\ Answered)
  /\ TakeLine
  /\ confirmed' = IF ~GiveUp /\ Head(lines).ok
                  THEN [confirmed EXCEPT ![target] = writes] ELSE confirmed
  /\ mutex' = "nobody"
  /\ writePc' = "idle"
  /\ UNCHANGED <<target, writes, requests>>

WriteSkip ==
  /\ WriteStep("wait")
  /\ ~GiveUp
  /\ HasLine /\ ~(IsReply("write") /\ Answered)
  /\ TakeLine
  /\ UNCHANGED <<mutex, writePc, target, writes, confirmed, requests>>

Write ==
  \/ \E r \in Regs : WriteCall(r)
  \/ WriteLock \/ WriteSend \/ WriteReturn \/ WriteSkip

-----------------------------------------------------------------------------
(* The ROACH's KATCP server, the connection, and the main thread.          *)

Line(kind, r, ok, n) == [kind |-> kind, reg |-> r, ok |-> ok, number |-> n]

(* A request is carried out, or refused.                                   *)
Serve ==
  /\ requests # <<>>
  /\ LET q == Head(requests)
     IN  \E ok \in BOOLEAN :
           /\ registers' = IF ok /\ q.kind = "write"
                           THEN [registers EXCEPT ![q.reg] = q.number]
                           ELSE registers
           /\ lines' = Append(lines, Line(q.kind, q.reg, ok, registers'[q.reg]))
  /\ requests' = Tail(requests)
  /\ UNCHANGED <<mutex, poll, write, connected, unasked, disconnect>>

(* A line of the header, of a log, or of another client's doing.           *)
Inform ==
  /\ connected
  /\ unasked < MaxLines
  /\ unasked' = unasked + 1
  /\ lines' = Append(lines, Line("inform", 1, TRUE, 0))
  /\ UNCHANGED <<mutex, poll, write, requests, connected, registers, disconnect>>

Lose ==
  /\ connected
  /\ connected' = FALSE
  /\ requests' = <<>>
  /\ lines' = <<>>
  /\ UNCHANGED <<mutex, poll, write, roach, disconnect>>

(* stopRoachKATCPClient destroys the client.                               *)
Disconnect ==
  /\ ~disconnect
  /\ disconnect' = TRUE
  /\ UNCHANGED <<mutex, poll, write, wire, roach>>

Environment == Serve \/ Inform \/ Lose \/ Disconnect

-----------------------------------------------------------------------------
Next == Poll \/ Write \/ Environment

Spec == Init /\ [][Next]_vars

(* Both threads run, and the ROACH answers.  A lock is not handed over in  *)
(* turn, but it is free for the 10 ms between two registers and for the    *)
(* round trip between two requests of a client, so neither thread misses   *)
(* it for ever.                                                            *)
Fairness ==
  /\ WF_vars(Poll)
  /\ SF_vars(PollLock)
  /\ WF_vars(WriteLock \/ WriteSend \/ WriteReturn \/ WriteSkip)
  /\ SF_vars(WriteLock)
  /\ WF_vars(Serve)

FairSpec == Spec /\ Fairness
-----------------------------------------------------------------------------
(* Properties.                                                             *)

Kinds == {"read", "write"}

(* Every variable keeps the kind of value the code gives it.               *)
TypeOK ==
  /\ mutex \in {"nobody", "poll", "write"}
  /\ pollPc \in {"header", "check", "lock", "send", "wait", "report", "done"}
  /\ reg \in Regs
  /\ value \in 0..MaxWrites
  /\ writePc \in {"idle", "lock", "send", "wait"}
  /\ target \in Regs
  /\ writes \in 0..MaxWrites
  /\ requests \in Seq([kind : Kinds, reg : Regs, number : 0..MaxWrites])
  /\ lines \in Seq([kind : Kinds \cup {"inform"}, reg : Regs, ok : BOOLEAN,
                    number : 0..MaxWrites])
  /\ registers \in [Regs -> 0..MaxWrites]
  /\ shown \in [Regs -> 0..MaxWrites]
  /\ unasked \in 0..MaxLines
  /\ connected \in BOOLEAN
  /\ disconnect \in BOOLEAN
  /\ confirmed \in [Regs -> 0..MaxWrites]

Answers == {i \in DOMAIN lines : lines[i].kind \in Kinds}

Waiting(q) ==
  \/ q.kind = "read" /\ pollPc = "wait" /\ mutex = "poll" /\ q.reg = reg
  \/ q.kind = "write" /\ writePc = "wait" /\ mutex = "write" /\ q.reg = target

(* Until a disconnect is requested at most one request is under way, and   *)
(* it is that of the thread that holds the mutex: no reply is ever taken   *)
(* for another's (98, 216).                                                *)
RepliesBelong ==
  ~disconnect =>
    /\ \A i \in DOMAIN requests : i = 1 /\ Answers = {} /\ Waiting(requests[i])
    /\ \A i, j \in Answers : i = j /\ Waiting(lines[i])

(* Once a write has been answered ok, no handler is passed a value of its  *)
(* register from before that write, since the handlers run under the mutex *)
(* (216-219): the server's sensor never changes to an older one.           *)
ReportsFollowWrites ==
  [][\A r \in Regs : SensorValue(r)' # SensorValue(r) =>
                        SensorValue(r)' >= confirmed[r]]_vars

Promise == INSTANCE RegisterFile WITH written <- confirmed

(* Together the two threads look like one register file: a handler is only *)
(* passed what the last write of the register that was answered ok has     *)
(* set, never the value of a write still under way, refused or given up    *)
(* (97-135, 215-219).                                                      *)
ImplementsRegisters == Promise!Spec

(* Where the answer to a write is, if it is to come. *)
AnswerUnderWay ==
  \/ \E i \in DOMAIN requests : requests[i].kind = "write"
  \/ \E i \in Answers : lines[i].kind = "write"

(* Once the text of the header has been read, an answer to a write is only *)
(* taken off the connection by the thread that waits for it, which then    *)
(* returns it to the operator, whatever the read thread skips and gives up *)
(* meanwhile (88-135, 151-153, 216-226).                                   *)
AnswerNotLost ==
  [][pollPc # "header" /\ ~disconnect /\ AnswerUnderWay
       => AnswerUnderWay' \/ writePc' = "idle" \/ ~connected']_vars

(* The read thread ends after a disconnect is requested, wherever it was   *)
(* and whatever the ROACH still sends (56, 149, 169).                      *)
DisconnectObeyed == disconnect ~> pollPc = "done"

(* A write sent once the text of the header has been read is answered to   *)
(* the KATCP client (103-135).                                             *)
LaterWriteGetsReply ==
  (writePc = "send" /\ pollPc # "header") ~> (writePc = "idle" \/ ~connected)

(* "The KATCP mutex is locked before each read to allow safe multiplexing  *)
(* with write operations" (189): a write that was sent gets its reply.     *)
WriteGetsReply == writePc = "wait" ~> (writePc = "idle" \/ ~connected)
=============================================================================
