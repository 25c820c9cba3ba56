--------------------------- MODULE RoachClientProofs ---------------------------
(***************************************************************************)
(* Proofs about RoachClient, for any number of registers, writes and lines *)
(* sent unasked: the mutex gives every thread its own reply, no answer to  *)
(* a write is lost while the connection lasts, and the two threads look    *)
(* like one register file.                                                 *)
(***************************************************************************)
EXTENDS RoachClient, TLAPS

-----------------------------------------------------------------------------
(* The inductive invariant.                                                *)

(* The mutex is held from the request to the end of its reply.             *)
MutexInv ==
  /\ mutex = "poll" <=> pollPc \in {"send", "wait", "report"}
  /\ mutex = "write" <=> writePc \in {"send", "wait"}

(* The ROACH's registers are as the answered writes left them, but for a   *)
(* write whose ok is on its way or was lost with the connection, and so is *)
(* what is read of them, on the way and where it is reported.              *)
ExactInv ==
  /\ pollPc = "report" => value = confirmed[reg]
  /\ \A r \in Regs : confirmed[r] <= writes /\ (writePc # "idle" => confirmed[r] < writes)
  /\ ~disconnect =>
       /\ writePc # "wait" => registers = confirmed
       /\ \A i \in DOMAIN requests :
            requests[i].kind = "write" => registers = confirmed /\ requests[i].number = writes
       /\ \A i \in DOMAIN lines :
            /\ lines[i].kind = "read" => lines[i].number = registers[lines[i].reg]
            /\ lines[i].kind = "write" =>
                 registers = IF lines[i].ok THEN [confirmed EXCEPT ![lines[i].reg] = writes]
                             ELSE confirmed

ClientInv == TypeOK /\ MutexInv /\ RepliesBelong /\ ExactInv

-----------------------------------------------------------------------------
(* Sequences.                                                              *)

(* What appending and taking do to the places of a sequence. *)
LEMMA Appended ==
  ASSUME NEW S, NEW s \in Seq(S), NEW e \in S
  PROVE  /\ Append(s, e) \in Seq(S)
         /\ \A i \in DOMAIN Append(s, e) :
              \/ i \in DOMAIN s /\ Append(s, e)[i] = s[i]
              \/ i = Len(s) + 1 /\ Append(s, e)[i] = e
  OBVIOUS

LEMMA Taken ==
  ASSUME NEW S, NEW s \in Seq(S), s # <<>>
  PROVE  /\ Tail(s) \in Seq(S) /\ Head(s) = s[1] /\ 1 \in DOMAIN s
         /\ \A i \in DOMAIN Tail(s) :
              i \in Nat \ {0} /\ i + 1 \in DOMAIN s /\ Tail(s)[i] = s[i + 1]
  OBVIOUS

(* What was there before is still there. *)
LEMMA KeptByAppending ==
  ASSUME NEW S, NEW s \in Seq(S), NEW e \in S
  PROVE  /\ \A i \in DOMAIN s : i \in DOMAIN Append(s, e) /\ Append(s, e)[i] = s[i]
         /\ Len(s) + 1 \in DOMAIN Append(s, e) /\ Append(s, e)[Len(s) + 1] = e
  OBVIOUS

LEMMA KeptByTaking ==
  ASSUME NEW S, NEW s \in Seq(S), s # <<>>
  PROVE  \A i \in DOMAIN s \ {1} : i - 1 \in DOMAIN Tail(s) /\ Tail(s)[i - 1] = s[i]
  OBVIOUS

(* What travels on the wire. *)
RequestSet == [kind : Kinds, reg : Regs, number : 0..MaxWrites]
LineSet == [kind : Kinds \cup {"inform"}, reg : Regs, ok : BOOLEAN, number : 0..MaxWrites]

(* Taking a line, which both threads do. *)
LEMMA LineTaken ==
  ASSUME TypeOK, TakeLine
  PROVE  /\ lines' \in Seq(LineSet)
         /\ \A i \in DOMAIN lines' :
              i \in Nat \ {0} /\ i + 1 \in DOMAIN lines /\ lines'[i] = lines[i + 1]
<1> lines \in Seq(LineSet)
  BY DEF TypeOK, LineSet
<1>1. CASE HasLine
  BY <1>1, Taken DEF TakeLine, HasLine
<1>2. CASE ~HasLine
  BY <1>2 DEF TakeLine, HasLine
<1> QED
  BY <1>1, <1>2

(* Sending a request, which both threads do. *)
LEMMA RequestSent ==
  ASSUME TypeOK, NEW kind \in Kinds, NEW r \in Regs, Sent(kind, r)
  PROVE  /\ requests' \in Seq(RequestSet)
         /\ \A i \in DOMAIN requests' :
              \/ i \in DOMAIN requests /\ requests'[i] = requests[i]
              \/ /\ i = Len(requests) + 1
                 /\ requests'[i] = [kind |-> kind, reg |-> r, number |-> writes]
<1> DEFINE q == [kind |-> kind, reg |-> r, number |-> writes]
<1>1. requests \in Seq(RequestSet) /\ q \in RequestSet
  BY DEF TypeOK, RequestSet
<1>2. requests' = Append(requests, q)
  BY DEF Sent
<1> HIDE DEF q
<1>3. /\ requests' \in Seq(RequestSet)
      /\ \A i \in DOMAIN requests' :
           \/ i \in DOMAIN requests /\ requests'[i] = requests[i]
           \/ i = Len(requests) + 1 /\ requests'[i] = q
  BY <1>1, <1>2, Appended
<1> QED
  BY <1>3 DEF q

-----------------------------------------------------------------------------
(* Every step keeps each part.                                             *)

(* Types: what is appended to the wire or taken from it is of its kind. *)
LEMMA TypeStep == TypeOK /\ [Next]_vars => TypeOK'
<1> SUFFICES ASSUME TypeOK, [Next]_vars PROVE TypeOK'
  OBVIOUS
<1>0. lines \in Seq(LineSet) /\ requests \in Seq(RequestSet)
  BY DEF TypeOK, LineSet, RequestSet
<1>a. requests # <<>> => Head(requests) \in RequestSet /\ Tail(requests) \in Seq(RequestSet)
  BY <1>0, Taken
<1>b. lines # <<>> => Head(lines) \in LineSet
  BY <1>0, Taken
<1>c. NextRegister(reg) \in Regs
  BY BoundsAssumption DEF TypeOK, NextRegister, Regs
<1> USE BoundsAssumption DEF TypeOK, wire, roach, poll, write, RequestSet, LineSet
<1>1. CASE PollHeader
  BY <1>1, LineTaken DEF PollHeader, PollStep
<1>2. CASE PollCheck \/ PollLock
  BY <1>2 DEF PollCheck, PollLock, PollStep
<1>3. CASE PollSend
  BY <1>3, RequestSent DEF PollSend, PollStep, Kinds
<1>4. CASE PollAbandon
  BY <1>c, <1>4, LineTaken DEF PollAbandon, PollStep
<1>5. CASE PollSkip
  BY <1>5, LineTaken DEF PollSkip, PollStep
<1>6. CASE PollReply
  <2>1. Head(lines).number \in 0..MaxWrites
    BY <1>b, <1>6 DEF PollReply, IsReply, HasLine
  <2> QED
    BY <1>6, <2>1, LineTaken DEF PollReply, PollStep
<1>7. CASE PollReport
  BY <1>c, <1>7 DEF PollReport, PollStep, Cache
<1>8. ASSUME NEW r \in Regs, WriteCall(r) PROVE TypeOK'
  BY <1>8 DEF WriteCall, WriteStep
<1>9. CASE WriteLock
  BY <1>9 DEF WriteLock, WriteStep
<1>10. CASE WriteSend
  BY <1>10, RequestSent DEF WriteSend, WriteStep, Kinds
<1>11. CASE WriteReturn
  BY <1>11, LineTaken DEF WriteReturn, WriteStep
<1>12. CASE WriteSkip
  BY <1>12, LineTaken DEF WriteSkip, WriteStep
<1>13. CASE Serve
  <2>1. requests # <<>> /\ requests' = Tail(requests)
    BY <1>13 DEF Serve
  <2>2. requests' \in Seq(RequestSet) /\ Head(requests) \in RequestSet
    BY <1>a, <2>1
  <2>3. PICK ok \in BOOLEAN :
          /\ registers' = IF ok /\ Head(requests).kind = "write"
                          THEN [registers EXCEPT ![Head(requests).reg] = Head(requests).number]
                          ELSE registers
          /\ lines' = Append(lines, Line(Head(requests).kind, Head(requests).reg, ok,
                                        registers'[Head(requests).reg]))
    BY <1>13 DEF Serve
  <2>4. registers' \in [Regs -> 0..MaxWrites]
    BY <2>2, <2>3
  <2>5. Line(Head(requests).kind, Head(requests).reg, ok, registers'[Head(requests).reg])
          \in LineSet
    BY <2>2, <2>4 DEF Line, Kinds
  <2>6. lines' \in Seq(LineSet)
    BY <1>0, <2>3, <2>5, Appended
  <2> QED
    BY <1>13, <2>2, <2>4, <2>6 DEF Serve
<1>14. CASE Inform
  <2>1. Line("inform", 1, TRUE, 0) \in LineSet
    BY DEF Line, Regs
  <2>2. lines' \in Seq(LineSet)
    BY <1>0, <1>14, <2>1, Appended DEF Inform
  <2>3. unasked' \in 0..MaxLines
    BY <1>14 DEF Inform
  <2> QED
    BY <1>14, <2>2, <2>3 DEF Inform
<1>15. CASE Lose
  <2>1. connected' \in BOOLEAN
    BY <1>15, Zenon DEF Lose
  <2> QED
    BY <1>15, <2>1 DEF Lose
<1>16. CASE Disconnect
  BY <1>16 DEF Disconnect
<1>17. CASE UNCHANGED vars
  BY <1>17 DEF vars
<1> QED
  BY <1>1, <1>2, <1>3, <1>4, <1>5, <1>6, <1>7, <1>8, <1>9, <1>10, <1>11, <1>12,
     <1>13, <1>14, <1>15, <1>16, <1>17 DEF Next, Poll, Write, Environment

(* The mutex is held for what the invariant says, one thread at a time. *)
LEMMA MutexStep == TypeOK /\ MutexInv /\ [Next]_vars => MutexInv'
<1> SUFFICES ASSUME TypeOK, MutexInv, [Next]_vars PROVE MutexInv'
  OBVIOUS
<1> USE DEF TypeOK, MutexInv, wire, roach, poll, write
<1>1. CASE Poll
  BY <1>1 DEF Poll, PollHeader, PollCheck, PollLock, PollSend, PollAbandon, PollSkip,
       PollReply, PollReport, PollStep, Free
<1>2. CASE Write
  BY <1>2 DEF Write, WriteCall, WriteLock, WriteSend, WriteReturn, WriteSkip, WriteStep,
       Free
<1>3. CASE Environment
  BY <1>3 DEF Environment, Serve, Inform, Lose, Disconnect
<1>4. CASE UNCHANGED vars
  BY <1>4 DEF vars
<1> QED
  BY <1>1, <1>2, <1>3, <1>4 DEF Next

(* Nothing is on the way to the ROACH or back but lines nobody asked for. *)
Quiet == requests = <<>> /\ Answers = {}

(* It is quiet where no thread waits ... *)
LEMMA QuietUnlessWaiting ==
  ASSUME TypeOK, MutexInv, RepliesBelong, ~disconnect,
         pollPc # "wait", writePc # "wait" \/ mutex # "write"
  PROVE  Quiet
<1>1. \A q \in RequestSet \cup LineSet : ~Waiting(q)
  BY DEF Waiting
<1>2. lines \in Seq(LineSet) /\ requests \in Seq(RequestSet)
  BY DEF TypeOK, LineSet, RequestSet
<1>3. Answers = {}
  BY <1>1, <1>2 DEF RepliesBelong, Answers
<1>4. DOMAIN requests = {}
  BY <1>1, <1>2 DEF RepliesBelong
<1> QED
  BY <1>2, <1>3, <1>4 DEF Quiet

(* ... and once a reply has been taken. *)
LEMMA QuietAfterReply ==
  ASSUME TypeOK, RepliesBelong, ~disconnect, TakeLine, UNCHANGED requests,
         HasLine, Head(lines).kind \in Kinds
  PROVE  Quiet'
<1>1. lines \in Seq(LineSet) /\ requests \in Seq(RequestSet)
  BY DEF TypeOK, LineSet, RequestSet
<1>2. 1 \in Answers
  BY <1>1, Taken DEF Answers, HasLine
<1>3. DOMAIN requests = {}
  BY <1>2 DEF RepliesBelong
<1>4. \A i \in Answers' : i \in Nat \ {0} /\ i + 1 \in Answers
  BY LineTaken DEF Answers
<1>5. Answers' = {}
  BY <1>2, <1>4 DEF RepliesBelong
<1> QED
  BY <1>1, <1>3, <1>5 DEF Quiet

(* A line taken or not, the request that is under way stays the waiting    *)
(* thread's while that thread waits on. *)
LEMMA StillWaiting ==
  ASSUME TypeOK, RepliesBelong, ~disconnect, UNCHANGED <<requests, disconnect>>,
         TakeLine \/ UNCHANGED lines,
         \A q \in RequestSet \cup LineSet : Waiting(q) => Waiting(q)'
  PROVE  RepliesBelong'
<1>1. lines \in Seq(LineSet) /\ requests \in Seq(RequestSet)
  BY DEF TypeOK, LineSet, RequestSet
<1>2. CASE UNCHANGED lines
  BY <1>1, <1>2 DEF RepliesBelong, Answers
<1>3. CASE TakeLine
  <2>1. \A i \in Answers' : i \in Nat \ {0} /\ i + 1 \in Answers /\ lines'[i] = lines[i + 1]
                             /\ lines'[i] \in LineSet
    BY <1>1, <1>3, LineTaken DEF Answers
  <2>2. \A i \in DOMAIN requests' : i = 1 /\ Answers' = {} /\ Waiting(requests[i])'
    BY <1>1, <2>1 DEF RepliesBelong, Waiting
  <2>3. \A i, j \in Answers' : i = j /\ Waiting(lines[i])'
    BY <1>1, <2>1 DEF RepliesBelong, Waiting
  <2> QED
    BY <2>2, <2>3 DEF RepliesBelong, Waiting
<1> QED
  BY <1>2, <1>3

(* Nothing on the way is nothing misplaced. *)
LEMMA QuietBelongsNext == Quiet' => RepliesBelong'
  BY DEF Quiet, RepliesBelong

(* Every step leaves each reply to the thread that waits for it. *)
LEMMA BelongStep == TypeOK /\ MutexInv /\ RepliesBelong /\ [Next]_vars => RepliesBelong'
<1> SUFFICES ASSUME TypeOK, MutexInv, RepliesBelong, [Next]_vars, ~disconnect'
             PROVE  RepliesBelong'
  BY DEF RepliesBelong
<1>a. /\ lines \in Seq(LineSet) /\ requests \in Seq(RequestSet)
      /\ reg \in Regs /\ target \in Regs
  BY DEF TypeOK, LineSet, RequestSet
<1>b. ~disconnect
  BY DEF Next, Poll, PollHeader, PollCheck, PollLock, PollSend, PollAbandon, PollSkip,
     PollReply, PollReport, PollStep, Write, WriteCall, WriteLock, WriteSend, WriteReturn,
     WriteSkip, WriteStep, Environment, Serve, Inform, Lose, Disconnect, vars
<1>c. UNCHANGED disconnect
  BY <1>b DEF TypeOK, Next, Poll, PollHeader, PollCheck, PollLock, PollSend, PollAbandon,
     PollSkip, PollReply, PollReport, PollStep, Write, WriteCall, WriteLock, WriteSend,
     WriteReturn, WriteSkip, WriteStep, Environment, Serve, Inform, Lose, Disconnect, vars
<1> USE <1>b, <1>c DEF wire, roach, poll, write
<1>1. CASE PollHeader \/ PollCheck \/ PollSkip
  BY <1>1, StillWaiting DEF PollHeader, PollCheck, PollSkip, PollStep, Waiting
<1>2. CASE PollLock \/ WriteLock
  <2>1. Quiet
    BY <1>2, QuietUnlessWaiting DEF PollLock, WriteLock, Free, PollStep, WriteStep,
         MutexInv, TypeOK
  <2>2. Quiet'
    BY <1>2, <2>1 DEF PollLock, WriteLock, PollStep, WriteStep, Quiet, Answers
  <2> QED
    BY <2>2, QuietBelongsNext
<1>3. CASE PollAbandon \/ PollReply \/ WriteReturn
  <2>1. Quiet'
    BY <1>3, QuietAfterReply DEF PollAbandon, PollReply, WriteReturn, GiveUp, IsReply, Kinds
  <2> QED
    BY <2>1, QuietBelongsNext
<1>4. CASE PollReport
  <2>1. Quiet
    BY <1>4, QuietUnlessWaiting DEF PollReport, PollStep, MutexInv
  <2>2. Quiet'
    BY <1>4, <2>1 DEF PollReport, PollStep, Quiet, Answers
  <2> QED
    BY <2>2, QuietBelongsNext
<1>5. CASE PollSend
  <2>1. Quiet
    BY <1>5, QuietUnlessWaiting DEF PollSend, PollStep, MutexInv
  <2>2. Answers' = {} /\ pollPc' = "wait" /\ UNCHANGED <<mutex, reg, lines>> /\ mutex = "poll"
    BY <1>5, <2>1 DEF PollSend, PollStep, Quiet, Answers, MutexInv
  <2>3. CASE UNCHANGED requests
    BY <2>1, <2>2, <2>3, QuietBelongsNext DEF Quiet
  <2>4. CASE Sent("read", reg)
    <3>1. \A i \in DOMAIN requests' :
            i = 1 /\ requests'[i].kind = "read" /\ requests'[i].reg = reg
      BY <1>a, <2>1, <2>4, RequestSent DEF Quiet, Kinds
    <3> QED
      BY <2>2, <3>1 DEF RepliesBelong, Waiting
  <2> QED
    BY <1>5, <2>3, <2>4 DEF PollSend
<1>6. CASE WriteSend
  <2>1. Quiet
    BY <1>6, QuietUnlessWaiting DEF WriteSend, WriteStep, MutexInv
  <2>2. Answers' = {} /\ UNCHANGED <<target, lines>> /\ mutex = "write"
    BY <1>6, <2>1 DEF WriteSend, WriteStep, Quiet, Answers, MutexInv
  <2>3. CASE UNCHANGED requests
    BY <2>1, <2>2, <2>3, QuietBelongsNext DEF Quiet
  <2>4. CASE Sent("write", target) /\ writePc' = "wait" /\ UNCHANGED mutex
    <3>1. \A i \in DOMAIN requests' :
            i = 1 /\ requests'[i].kind = "write" /\ requests'[i].reg = target
      BY <1>a, <2>1, <2>4, RequestSent DEF Quiet, Kinds
    <3> QED
      BY <2>2, <2>4, <3>1 DEF RepliesBelong, Waiting
  <2> QED
    BY <1>6, <2>3, <2>4 DEF WriteSend
<1>7. ASSUME NEW r \in Regs, WriteCall(r) PROVE RepliesBelong'
  BY <1>7, StillWaiting DEF WriteCall, WriteStep, Waiting
<1>8. CASE WriteSkip
  BY <1>8, StillWaiting DEF WriteSkip, WriteStep, Waiting
<1>9. CASE Serve
  <2>1. requests # <<>> /\ requests' = Tail(requests) /\ UNCHANGED <<mutex, poll, write>>
    BY <1>9 DEF Serve
  <2> DEFINE q == requests[1]
  <2>2. Head(requests) = q /\ 1 \in DOMAIN requests
    BY <1>a, <2>1, Taken
  <2>3. Answers = {} /\ Waiting(q) /\ q \in RequestSet
    BY <1>a, <2>2 DEF RepliesBelong
  <2>4. PICK l \in LineSet : lines' = Append(lines, l) /\ l.kind = q.kind /\ l.reg = q.reg
    <3>1. PICK ok \in BOOLEAN : lines' = Append(lines, Line(q.kind, q.reg, ok, registers'[q.reg]))
      BY <1>9, <2>2 DEF Serve
    <3>2. registers' \in [Regs -> 0..MaxWrites]
      BY TypeStep DEF TypeOK
    <3>3. Line(q.kind, q.reg, ok, registers'[q.reg]) \in LineSet
      BY <2>3, <3>2 DEF Line, LineSet, RequestSet, Kinds
    <3> QED
      BY <3>1, <3>3 DEF Line
  <2>5. DOMAIN requests' = {}
    BY <1>a, <2>1, Taken DEF RepliesBelong
  <2>6. \A i \in Answers' : i = Len(lines) + 1 /\ lines'[i] = l
    BY <1>a, <2>3, <2>4, Appended DEF Answers
  <2> QED
    BY <2>1, <2>3, <2>4, <2>5, <2>6 DEF RepliesBelong, Waiting
<1>10. CASE Inform
  <2>1. PICK l \in LineSet : lines' = Append(lines, l) /\ l.kind = "inform"
    <3>1. Line("inform", 1, TRUE, 0) \in LineSet
      BY BoundsAssumption DEF Line, LineSet, Regs, Kinds
    <3> QED
      BY <1>10, <3>1 DEF Inform, Line
  <2>2. \A i \in Answers' : i \in Answers /\ lines'[i] = lines[i]
    BY <1>a, <2>1, Appended DEF Answers, Kinds
  <2> QED
    BY <1>10, <2>2 DEF Inform, RepliesBelong, Waiting
<1>11. CASE Lose
  BY <1>11 DEF Lose, RepliesBelong, Answers
<1>12. CASE Disconnect
  BY <1>12 DEF Disconnect
<1>13. CASE UNCHANGED vars
  BY <1>13, StillWaiting DEF vars, Waiting
<1> QED
  BY <1>1, <1>2, <1>3, <1>4, <1>5, <1>6, <1>7, <1>8, <1>9, <1>10, <1>11, <1>12, <1>13
     DEF Next, Poll, Write, Environment

(* Where nothing is confirmed, written or asked for, what is on the way is *)
(* still exact. *)
LEMMA ExactKept ==
  ASSUME TypeOK, ExactInv, UNCHANGED <<confirmed, registers, writes, disconnect, requests>>,
         TakeLine \/ UNCHANGED lines,
         writePc' = writePc \/ (writePc = "lock" /\ writePc' = "send"),
         pollPc' = "report" => value' = confirmed[reg']
  PROVE  ExactInv'
<1>1. ASSUME NEW i \in DOMAIN lines' PROVE \E j \in DOMAIN lines : lines'[i] = lines[j]
  BY <1>1, LineTaken
<1> QED
  BY <1>1 DEF ExactInv

(* A write is only confirmed when nothing older is on the way. *)
LEMMA ExactStep ==
  TypeOK /\ MutexInv /\ RepliesBelong /\ ExactInv /\ [Next]_vars => ExactInv'
<1> SUFFICES ASSUME TypeOK, MutexInv, RepliesBelong, ExactInv, [Next]_vars
             PROVE  ExactInv'
  OBVIOUS
<1>a. /\ lines \in Seq(LineSet) /\ requests \in Seq(RequestSet)
      /\ reg \in Regs /\ target \in Regs /\ writes \in 0..MaxWrites
      /\ confirmed \in [Regs -> 0..MaxWrites] /\ registers \in [Regs -> 0..MaxWrites]
      /\ MaxWrites \in Nat
  BY BoundsAssumption DEF TypeOK, LineSet, RequestSet
<1> USE DEF wire, roach, poll, write
<1>1. CASE PollHeader \/ PollCheck \/ PollLock \/ PollAbandon \/ PollSkip \/ PollReport
  BY <1>1, ExactKept DEF PollHeader, PollCheck, PollLock, PollAbandon, PollSkip,
       PollReport, PollStep
<1>2. CASE PollReply
  <2>1. Head(lines) = lines[1] /\ 1 \in DOMAIN lines
    BY <1>a, <1>2, Taken DEF PollReply, IsReply, HasLine
  <2>2. lines[1].kind = "read" /\ lines[1].reg = reg
    BY <1>2, <2>1 DEF PollReply, IsReply, GiveUp, RepliesBelong, Answers, Waiting, Kinds
  <2>3. lines[1].number = registers[reg] /\ registers = confirmed
    BY <1>2, <2>1, <2>2 DEF PollReply, PollStep, GiveUp, ExactInv, MutexInv
  <2> QED
    BY <1>2, <2>1, <2>3, ExactKept DEF PollReply, PollStep
<1>3. CASE PollSend
  <2>1. ASSUME NEW i \in DOMAIN requests'
        PROVE  \/ i \in DOMAIN requests /\ requests'[i] = requests[i]
               \/ requests'[i].kind = "read"
    BY <1>a, <1>3, <2>1, RequestSent DEF PollSend, Kinds
  <2> QED
    BY <1>3, <2>1 DEF PollSend, PollStep, ExactInv
<1>4. ASSUME NEW r \in Regs, WriteCall(r) PROVE ExactInv'
  <2>1. ~disconnect =>
          /\ \A i \in DOMAIN requests : requests[i].kind # "write"
          /\ \A i \in DOMAIN lines : lines[i].kind # "write"
    BY <1>4 DEF WriteCall, WriteStep, RepliesBelong, Answers, Waiting, Kinds
  <2> QED
    BY <1>a, <1>4, <2>1 DEF WriteCall, WriteStep, ExactInv
<1>5. CASE WriteLock \/ WriteSkip
  BY <1>5, ExactKept DEF WriteLock, WriteSkip, WriteStep, ExactInv
<1>6. CASE WriteSend
  <2>1. ASSUME NEW i \in DOMAIN requests'
        PROVE  \/ i \in DOMAIN requests /\ requests'[i] = requests[i]
               \/ requests'[i] = [kind |-> "write", reg |-> target, number |-> writes]
    BY <1>a, <1>6, <2>1, RequestSent DEF WriteSend, Kinds
  <2> QED
    BY <1>a, <1>6, <2>1 DEF WriteSend, WriteStep, ExactInv
<1>7. CASE WriteReturn
  <2>1. mutex = "write" /\ pollPc # "report" /\ UNCHANGED pollPc
    BY <1>7 DEF WriteReturn, WriteStep, MutexInv
  <2>2. \A r \in Regs : confirmed'[r] <= writes'
    BY <1>a, <1>7 DEF WriteReturn, ExactInv
  <2>3. CASE disconnect
    BY <1>7, <2>1, <2>2, <2>3 DEF WriteReturn, WriteStep, ExactInv
  <2>4. CASE ~disconnect
    <3>1. HasLine /\ Head(lines).kind = "write" /\ Head(lines) = lines[1] /\ 1 \in DOMAIN lines
      BY <1>a, <1>7, <2>4, Taken DEF WriteReturn, GiveUp, IsReply, HasLine
    <3>2. lines[1].reg = target
      BY <2>4, <3>1 DEF RepliesBelong, Answers, Waiting, Kinds
    <3>3. registers = confirmed'
      BY <1>7, <2>4, <3>1, <3>2 DEF WriteReturn, GiveUp, ExactInv
    <3>4. Quiet'
      BY <1>7, <2>4, <3>1, QuietAfterReply DEF WriteReturn, Kinds
    <3> QED
      BY <1>7, <2>1, <2>2, <3>3, <3>4 DEF WriteReturn, WriteStep, ExactInv, Quiet, Answers,
         Kinds
  <2> QED
    BY <2>3, <2>4 DEF TypeOK
<1>8. CASE Serve
  <2> DEFINE q == requests[1]
  <2>1. requests # <<>> /\ requests' = Tail(requests)
        /\ UNCHANGED <<poll, write, disconnect>>
    BY <1>8 DEF Serve
  <2>2. Head(requests) = q /\ 1 \in DOMAIN requests /\ q \in RequestSet
    BY <1>a, <2>1, Taken
  <2>3. PICK ok \in BOOLEAN :
          /\ registers' = IF ok /\ q.kind = "write"
                          THEN [registers EXCEPT ![q.reg] = q.number] ELSE registers
          /\ lines' = Append(lines, Line(q.kind, q.reg, ok, registers'[q.reg]))
    BY <1>8, <2>2 DEF Serve
  <2> DEFINE l == Line(q.kind, q.reg, ok, registers'[q.reg])
  <2>4. /\ q.reg \in Regs /\ q.kind \in Kinds /\ registers' \in [Regs -> 0..MaxWrites]
        /\ q.number \in 0..MaxWrites
    BY <1>a, <2>2, <2>3 DEF RequestSet
  <2>5. l \in LineSet /\ l.kind = q.kind /\ l.reg = q.reg /\ l.ok = ok
        /\ l.number = registers'[q.reg]
    BY <2>4 DEF Line, LineSet, Kinds
  <2> HIDE DEF l
  <2>6. SUFFICES ASSUME ~disconnect
                 PROVE  /\ writePc # "wait" => registers' = confirmed
                        /\ DOMAIN requests' = {}
                        /\ \A i \in DOMAIN lines' :
                             /\ lines'[i].kind = "read" =>
                                  lines'[i].number = registers'[lines'[i].reg]
                             /\ lines'[i].kind = "write" =>
                                  registers' = IF lines'[i].ok
                                               THEN [confirmed EXCEPT ![lines'[i].reg] = writes]
                                               ELSE confirmed
    BY <2>1 DEF ExactInv
  <2>7. Answers = {} /\ Waiting(q) /\ DOMAIN requests' = {}
    BY <1>a, <2>1, <2>2, <2>6, Taken DEF RepliesBelong
  <2>8. q.kind = "write" =>
          /\ writePc = "wait"
          /\ registers' = IF ok THEN [confirmed EXCEPT ![q.reg] = writes] ELSE confirmed
    BY <2>2, <2>3, <2>6, <2>7 DEF ExactInv, Waiting
  <2>9. q.kind = "read" => registers' = registers
    BY <2>3
  <2>10. writePc # "wait" => registers' = confirmed
    BY <2>4, <2>6, <2>8, <2>9 DEF ExactInv, Kinds
  <2>11. \A i \in DOMAIN lines' : lines'[i].kind \in Kinds => lines'[i] = l
    BY <1>a, <2>3, <2>5, <2>7, Appended DEF Answers, l
  <2> QED
    BY <2>5, <2>7, <2>8, <2>10, <2>11 DEF Kinds
<1>9. CASE Inform
  <2>1. PICK l \in LineSet : lines' = Append(lines, l) /\ l.kind = "inform"
    <3>1. Line("inform", 1, TRUE, 0) \in LineSet
      BY BoundsAssumption DEF Line, LineSet, Regs, Kinds
    <3> QED
      BY <1>9, <3>1 DEF Inform, Line
  <2>2. \A i \in DOMAIN lines' :
          \/ i \in DOMAIN lines /\ lines'[i] = lines[i]
          \/ lines'[i].kind = "inform"
    BY <1>a, <2>1, Appended
  <2> QED
    BY <1>9, <2>2 DEF Inform, ExactInv
<1>10. CASE Lose
  BY <1>10 DEF Lose, ExactInv
<1>11. CASE Disconnect
  BY <1>11 DEF Disconnect, ExactInv
<1>12. CASE UNCHANGED vars
  BY <1>12, ExactKept DEF vars, ExactInv
<1> QED
  BY <1>1, <1>2, <1>3, <1>4, <1>5, <1>6, <1>7, <1>8, <1>9, <1>10, <1>11, <1>12
     DEF Next, Poll, Write, Environment

-----------------------------------------------------------------------------
(* It holds when the client has just connected. *)
LEMMA InitInv == Init => ClientInv
<1> SUFFICES ASSUME Init PROVE ClientInv
  OBVIOUS
<1>1. TypeOK
  <2>1. {connected, disconnect} \subseteq BOOLEAN
    BY Zenon DEF Init
  <2> QED
    BY <2>1, BoundsAssumption DEF Init, TypeOK, Regs
<1>2. MutexInv /\ RepliesBelong /\ ExactInv
  BY DEF Init, MutexInv, RepliesBelong, Answers, ExactInv, Regs
<1> QED
  BY <1>1, <1>2 DEF ClientInv

(* The inductive invariant holds in every state, whatever the registers,   *)
(* the writes and the lines the ROACH sends unasked.                       *)
THEOREM ClientInvariant == Spec => []ClientInv
<1>1. ClientInv /\ [Next]_vars => ClientInv'
  BY TypeStep, MutexStep, BelongStep, ExactStep DEF ClientInv
<1> QED
  BY InitInv, <1>1, PTL DEF Spec

(* Type correctness of the client, the connection and the ROACH.           *)
THEOREM ClientTypes == Spec => []TypeOK
<1>1. ClientInv => TypeOK
  BY DEF ClientInv
<1> QED
  BY ClientInvariant, <1>1, PTL

(* No reply is taken for another's (RoachKATCPClient.cpp:98, 216).         *)
THEOREM ClientRepliesBelong == Spec => []RepliesBelong
<1>1. ClientInv => RepliesBelong
  BY DEF ClientInv
<1> QED
  BY ClientInvariant, <1>1, PTL

(* No handler is passed a value from before a confirmed write of its       *)
(* register (RoachKATCPClient.cpp:216-219).                                *)
THEOREM ClientReportsFollowWrites == Spec => ReportsFollowWrites
<1>1. ASSUME ClientInv, [Next]_vars, NEW r \in Regs, SensorValue(r)' # SensorValue(r)
      PROVE  SensorValue(r)' >= confirmed[r]
  <2> USE DEF SensorValue, wire, roach, poll, write
  <2>1. PollReport
    BY <1>1 DEF Next, Poll, PollHeader, PollCheck, PollLock, PollSend, PollAbandon,
       PollSkip, PollReply, PollStep, Write, WriteCall, WriteLock, WriteSend, WriteReturn,
       WriteSkip, WriteStep, Environment, Serve, Inform, Lose, Disconnect, vars
  <2>2. r = reg /\ shown'[r] = value
    BY <1>1, <2>1 DEF PollReport, Cache, ClientInv, TypeOK
  <2>3. value = confirmed[reg] /\ confirmed[reg] \in Nat
    BY <1>1, <2>1 DEF PollReport, PollStep, ClientInv, ExactInv, TypeOK
  <2> QED
    BY <2>2, <2>3
<1>2. ClientInv /\ [Next]_vars =>
        [\A r \in Regs : SensorValue(r)' # SensorValue(r) => SensorValue(r)' >= confirmed[r]]_vars
  BY <1>1
<1> QED
  BY ClientInvariant, <1>2, PTL DEF Spec, ReportsFollowWrites

(* A write that is confirmed and a value that is reported are steps of the *)
(* register file, and all others leave it alone.                           *)
LEMMA StepRefines ==
  ASSUME ClientInv, [Next]_vars
  PROVE  [Promise!Next]_(Promise!vars)
<1>a. /\ reg \in Regs /\ target \in Regs /\ writes \in Nat
      /\ confirmed \in [Regs -> 0..MaxWrites]
  BY BoundsAssumption DEF ClientInv, TypeOK
<1> USE DEF Promise!vars, wire, roach, poll, write
<1>1. CASE PollReport
  <2>1. value = confirmed[reg]
    BY <1>1 DEF PollReport, PollStep, ClientInv, ExactInv
  <2>2. Promise!Show(reg)
    BY <1>1, <2>1 DEF PollReport, PollStep, Cache, Promise!Show
  <2> QED
    BY <1>a, <2>2 DEF Promise!Next
<1>2. CASE WriteReturn
  <2>1. UNCHANGED shown
    BY <1>2 DEF WriteReturn, WriteStep
  <2>2. CASE UNCHANGED confirmed
    BY <2>1, <2>2
  <2>3. CASE confirmed' = [confirmed EXCEPT ![target] = writes]
    <3>1. confirmed'[target] = writes
      BY <1>a, <2>3
    <3>2. \A q \in Regs : confirmed'[target] > confirmed[q]
      <4>1. \A q \in Regs : confirmed[q] < writes /\ confirmed[q] \in Nat
        BY <1>a, <1>2, BoundsAssumption DEF WriteReturn, WriteStep, ClientInv, ExactInv
      <4> QED
        BY <1>a, <3>1, <4>1
    <3>3. Promise!Write(target)
      BY <2>1, <2>3, <3>1, <3>2 DEF Promise!Write
    <3> QED
      BY <1>a, <3>3 DEF Promise!Next
  <2> QED
    BY <1>2, <2>2, <2>3 DEF WriteReturn
<1>3. CASE PollHeader \/ PollCheck \/ PollLock \/ PollSend \/ PollAbandon \/ PollSkip \/ PollReply
  BY <1>3 DEF PollHeader, PollCheck, PollLock, PollSend, PollAbandon, PollSkip, PollReply,
       PollStep
<1>4. CASE (\E r \in Regs : WriteCall(r)) \/ WriteLock \/ WriteSend \/ WriteSkip
  BY <1>4 DEF WriteCall, WriteLock, WriteSend, WriteSkip, WriteStep
<1>5. CASE Environment
  BY <1>5 DEF Environment, Serve, Inform, Lose, Disconnect
<1>6. CASE UNCHANGED vars
  BY <1>6 DEF vars
<1> QED
  BY <1>1, <1>2, <1>3, <1>4, <1>5, <1>6 DEF Next, Poll, Write

(* The two threads, the connection and the ROACH look like one register    *)
(* file (RoachKATCPClient.cpp:97-135, 215-219).                            *)
THEOREM ClientImplementsRegisters == Spec => ImplementsRegisters
<1>1. Init => Promise!Init
  BY DEF Init, Promise!Init
<1>2. Spec => Promise!Spec
  BY <1>1, StepRefines, ClientInvariant, PTL DEF Spec, Promise!Spec
<1> QED
  BY <1>2 DEF ImplementsRegisters

(* An answer to a write is under way only while its thread waits for it. *)
LEMMA AnswerAwaited ==
  ASSUME ClientInv, ~disconnect, AnswerUnderWay
  PROVE  writePc = "wait" /\ mutex = "write"
BY DEF ClientInv, AnswerUnderWay, RepliesBelong, Waiting, Answers

(* A step takes the answer off the connection only into the operator's hands. *)
LEMMA AnswerStep ==
  ASSUME ClientInv, [Next]_vars, pollPc # "header", ~disconnect, AnswerUnderWay
  PROVE  AnswerUnderWay' \/ writePc' = "idle" \/ ~connected'
<1>a. lines \in Seq(LineSet) /\ requests \in Seq(RequestSet)
  BY DEF ClientInv, TypeOK, LineSet, RequestSet
<1>b. writePc = "wait" /\ mutex = "write" /\ pollPc \notin {"send", "wait", "report"}
  BY AnswerAwaited DEF ClientInv, MutexInv
<1>c. UNCHANGED <<requests, lines>> => AnswerUnderWay'
  BY DEF AnswerUnderWay, Answers
<1> USE <1>b DEF wire, roach, poll, write
<1>1. CASE Poll
  BY <1>1, <1>c DEF Poll, PollHeader, PollCheck, PollLock, PollSend, PollAbandon, PollSkip,
       PollReply, PollReport, PollStep
<1>2. CASE WriteReturn
  BY <1>2 DEF WriteReturn
<1>3. CASE WriteSkip
  <2>1. lines # <<>> /\ lines' = Tail(lines) /\ Head(lines).kind # "write" /\ UNCHANGED requests
    BY <1>3 DEF WriteSkip, HasLine, TakeLine, IsReply, Answered
  <2>2. CASE \E i \in DOMAIN requests : requests[i].kind = "write"
    BY <2>1, <2>2 DEF AnswerUnderWay
  <2>3. CASE \E i \in Answers : lines[i].kind = "write"
    <3>1. PICK i \in DOMAIN lines : lines[i].kind = "write"
      BY <2>3 DEF Answers
    <3>2. i # 1
      BY <1>a, <2>1, <3>1, Taken
    <3>3. i - 1 \in DOMAIN lines' /\ lines'[i - 1].kind = "write"
      BY <1>a, <2>1, <3>1, <3>2, KeptByTaking
    <3> QED
      BY <3>3 DEF AnswerUnderWay, Answers, Kinds
  <2> QED
    BY <2>2, <2>3 DEF AnswerUnderWay
<1>4. CASE Serve
  <2>1. requests # <<>> /\ 1 \in DOMAIN requests /\ Head(requests) = requests[1]
    BY <1>a, <1>4, Taken DEF Serve
  <2>2. requests[1].kind = "write"
    BY <2>1 DEF ClientInv, RepliesBelong, AnswerUnderWay
  <2>3. PICK l \in LineSet : lines' = Append(lines, l) /\ l.kind = "write"
    <3>1. PICK ok \in BOOLEAN :
            lines' = Append(lines, Line("write", requests[1].reg, ok, registers'[requests[1].reg]))
      BY <1>4, <2>1, <2>2 DEF Serve
    <3>2. registers' \in [Regs -> 0..MaxWrites] /\ requests[1].reg \in Regs
      <4>1. TypeOK'
        BY TypeStep DEF ClientInv
      <4>2. requests[1] \in RequestSet
        BY <1>a, <2>1
      <4> QED
        BY <4>1, <4>2 DEF TypeOK, RequestSet
    <3>3. Line("write", requests[1].reg, ok, registers'[requests[1].reg]) \in LineSet
      BY <3>2 DEF Line, LineSet, Kinds
    <3> QED
      BY <3>1, <3>3 DEF Line
  <2>4. Len(lines) + 1 \in DOMAIN lines' /\ lines'[Len(lines) + 1] = l
    BY <1>a, <2>3, KeptByAppending
  <2> QED
    BY <2>3, <2>4 DEF AnswerUnderWay, Answers, Kinds
<1>5. CASE Inform
  <2>1. PICK l \in LineSet : lines' = Append(lines, l)
    <3>1. Line("inform", 1, TRUE, 0) \in LineSet
      BY BoundsAssumption DEF Line, LineSet, Regs, Kinds
    <3> QED
      BY <1>5, <3>1 DEF Inform
  <2>2. \A i \in DOMAIN lines : i \in DOMAIN lines' /\ lines'[i] = lines[i]
    BY <1>a, <2>1, KeptByAppending
  <2> QED
    BY <1>5, <2>2 DEF Inform, AnswerUnderWay, Answers
<1>6. CASE Lose
  BY <1>6, Zenon DEF Lose
<1>7. CASE Disconnect
  BY <1>7, <1>c DEF Disconnect
<1>8. CASE UNCHANGED vars
  BY <1>8, <1>c DEF vars
<1>9. CASE (\E r \in Regs : WriteCall(r)) \/ WriteLock \/ WriteSend
  BY <1>9 DEF WriteCall, WriteLock, WriteSend, WriteStep
<1> QED
  BY <1>1, <1>2, <1>3, <1>4, <1>5, <1>6, <1>7, <1>8, <1>9 DEF Next, Write, Environment

(* The answer to a write reaches the operator unless the connection is     *)
(* lost or given up (RoachKATCPClient.cpp:88-135, 216-226).                *)
THEOREM ClientKeepsAnswers == Spec => AnswerNotLost
<1>1. ClientInv /\ [Next]_vars =>
        [pollPc # "header" /\ ~disconnect /\ AnswerUnderWay
           => AnswerUnderWay' \/ writePc' = "idle" \/ ~connected']_vars
  BY AnswerStep
<1> QED
  BY ClientInvariant, <1>1, PTL DEF Spec, AnswerNotLost
=============================================================================
