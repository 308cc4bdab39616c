------------------------ MODULE ModbusMaster_proofs -------------------------
(***************************************************************************)
(* Proofs about ModbusMaster, for any callers, slaves, number of calls and *)
(* set of faults.                                                          *)
(***************************************************************************)
EXTENDS ModbusMaster, TLAPS

\* A spoilt reply is still a reply.
LEMMA GarbageIsReply ==
    ASSUME NEW f \in Reply
    PROVE  Garbage(f) \in Reply
BY MaxCallsAssumption DEF Garbage, Reply

\* Whatever comes back for a request is a set of replies.
LEMMA RepliesAreReplies ==
    ASSUME NEW n \in 0 .. MaxCalls, NEW a \in Slaves
    PROVE  \A fs \in Replies(n, a) : fs \subseteq Reply
<1> DEFINE answer == [kind |-> "data", re |-> n, addr |-> a]
<1>1. answer \in Reply
  BY DEF Reply
<1>2. Garbage(answer) \in Reply
  BY <1>1, GarbageIsReply
<1>3. [answer EXCEPT !.kind = "exception"] \in Reply
  BY DEF Reply
<1>4. \A b \in Slaves : [answer EXCEPT !.addr = b] \in Reply
  BY DEF Reply
<1> HIDE DEF answer
<1>5. \A fs \in Replies(n, a) :
         \/ fs = {} \/ fs = {answer} \/ fs = {Garbage(answer)}
         \/ fs = {[answer EXCEPT !.kind = "exception"]}
         \/ \E b \in Slaves : fs = {[answer EXCEPT !.addr = b]}
  BY DEF Replies, answer
<1>6. QED
  BY <1>1, <1>2, <1>3, <1>4, <1>5

\* The parser stores a value only if it succeeds, and at most one.
LEMMA ParseOutcome ==
    ASSUME NEW p \in Pdu
    PROVE  \A r \in ParseResult(p) :
             /\ r.ret \in {"NOERR", "RPINVAL"}
             /\ r.values \in {0, 1}
             /\ r.ret # "NOERR" => r.values = 0
BY DEF Pdu, ParseResult

\* The master's state stays well typed (modbus.c:52-69).
THEOREM TypeCorrect == Spec => []TypeOK
<1>1. Init => TypeOK
  <2> SUFFICES ASSUME Init PROVE TypeOK
    OBVIOUS
  <2>1. 0 \in 0 .. MaxCalls
    BY MaxCallsAssumption
  <2>2. PICK a \in Slaves :
          /\ req = [c \in Callers |-> [id |-> 0, addr |-> a]]
          /\ ucMBAddress = a
          /\ rcv = [addr |-> a, status |-> "MB_ENOERR"]
          /\ ucRTUReBuf = [kind |-> "garbage", re |-> 0, addr |-> a]
    BY DEF Init
  <2>3. req \in [Callers -> Request] /\ ucRTUReBuf \in Reply
    BY <2>1, <2>2 DEF Request, Reply
  <2>4. got \in [Callers -> [len : Nat, re : 0 .. MaxCalls]]
    BY <2>1 DEF Init
  <2>5. pc \in [Callers -> CallerPc] /\ ret \in [Callers -> SendRet]
    BY DEF Init, CallerPc, SendRet
  <2>6. pucMBFrame \in Pdu /\ line \subseteq Reply
    BY <2>1 DEF Init, Pdu
  <2>7. QED
    BY <2>1, <2>2, <2>3, <2>4, <2>5, <2>6
    DEF Init, TypeOK, MasterState, Event, TaskletPc
<1>2. TypeOK /\ [Next]_vars => TypeOK'
  <2> SUFFICES ASSUME TypeOK, [Next]_vars
               PROVE  TypeOK'
    OBVIOUS
  <2> USE DEF TypeOK, CallerPc, Goto, appVars, callerVars, slotVars, pollVars,
              linkVars
  <2>1. ASSUME NEW c \in Callers, Call(c)
        PROVE  TypeOK'
    <3>1. calls + 1 \in 0 .. MaxCalls
      BY <2>1, MaxCallsAssumption DEF Call
    <3>2. req' \in [Callers -> Request]
      BY <2>1, <3>1 DEF Call, Request
    <3>3. ret' \in [Callers -> SendRet]
      BY <2>1 DEF Call, SendRet
    <3>4. QED
      BY <2>1, <3>1, <3>2, <3>3 DEF Call
  <2>2. ASSUME NEW c \in Callers, Lock(c)
        PROVE  TypeOK'
    BY <2>2 DEF Lock
  <2>3. ASSUME NEW c \in Callers, Build(c)
        PROVE  TypeOK'
    <3>1. req[c].id \in 0 .. MaxCalls /\ 0 \in 0 .. MaxCalls
      BY MaxCallsAssumption DEF Request
    <3>2. ret' \in [Callers -> SendRet]
      BY <2>3 DEF Build, SendRet
    <3>3. QED
      BY <2>3, <3>1, <3>2 DEF Build
  <2>4. ASSUME NEW c \in Callers, Prepare(c)
        PROVE  TypeOK'
    BY <2>4 DEF Prepare, Request
  <2>5. ASSUME NEW c \in Callers, PostFlag(c) \/ PostEvent(c)
        PROVE  TypeOK'
    BY <2>5 DEF PostFlag, PostEvent, Event
  <2>6. ASSUME NEW c \in Callers, Check(c) \/ Wake(c)
        PROVE  TypeOK'
    BY <2>6 DEF Check, Wake
  <2>7. ASSUME NEW c \in Callers, Timeout(c)
        PROVE  TypeOK'
    BY <2>7 DEF Timeout, SendRet
  <2>8. ASSUME NEW c \in Callers, Parse(c)
        PROVE  TypeOK'
    <3>1. \A r \in ParseResult(pucMBFrame) :
            r.ret \in SendRet /\ r.values \in Nat
      BY ParseOutcome DEF SendRet
    <3>2. ret' \in [Callers -> SendRet]
      BY <2>8, <3>1 DEF Parse
    <3>3. usRspone' \in 0 .. MaxCalls /\ ubRspLength' \in Nat
      BY <2>8, <3>1 DEF Parse, Pdu
    <3>4. QED
      BY <2>8, <3>2, <3>3 DEF Parse
  <2>9. ASSUME NEW c \in Callers, Out(c)
        PROVE  TypeOK'
    BY <2>9 DEF Out, MasterState
  <2>10. ASSUME NEW c \in Callers, ModbusReceive(c)
         PROVE  TypeOK'
    <3>1. got' \in [Callers -> [len : Nat, re : 0 .. MaxCalls]]
      BY <2>10, MaxCallsAssumption DEF ModbusReceive
    <3>2. QED
      BY <2>10, <3>1 DEF ModbusReceive
  <2>11. CASE Timer
    BY <2>11 DEF Timer, T35PostFlag, T35PostEvent, Event
  <2>12. CASE Worker
    <3>1. PICK f \in line : ReceiveFrame(f)
      BY <2>12 DEF Worker
    <3>2. f \in Reply /\ Garbage(f) \in Reply
      BY <3>1, GarbageIsReply
    <3>3. QED
      BY <3>1, <3>2 DEF ReceiveFrame
  <2>13. CASE TaskletGet \/ TaskletClear
    BY <2>13 DEF TaskletGet, TaskletClear, TaskletPc
  <2>14. CASE PollSend
    <3>1. \A fs \in Replies(request, ucMBAddress) : fs \subseteq Reply
      BY RepliesAreReplies
    <3>2. line' \subseteq Reply
      BY <2>14, <3>1 DEF PollSend
    <3>3. QED
      BY <2>14, <3>2 DEF PollSend, TaskletPc
  <2>15. CASE PollReady \/ PollSent \/ PollFrame \/ WakeUp
    BY <2>15 DEF PollReady, PollSent, PollFrame, WakeUp, TaskletPc, MasterState
  <2>16. CASE CheckCrc
    <3>1. rcv' \in [addr : Slaves, status : {"MB_ENOERR", "MB_EIO"}]
      BY <2>16 DEF CheckCrc, Reply
    <3>2. QED
      BY <2>16, <3>1 DEF CheckCrc, TaskletPc
  <2>17. CASE CopyFrame
    BY <2>17 DEF CopyFrame, TaskletPc, Pdu, Reply
  <2>18. CASE AcceptFrame
    BY <2>18 DEF AcceptFrame, AfterReceive, TaskletPc, MasterState
  <2>19. CASE UNCHANGED vars
    BY <2>19 DEF vars
  <2>20. QED
    BY <2>1, <2>2, <2>3, <2>4, <2>5, <2>6, <2>7, <2>8, <2>9, <2>10, <2>11,
       <2>12, <2>13, <2>14, <2>15, <2>16, <2>17, <2>18, <2>19
    DEF Next, CallerStep, Tasklet
<1>3. QED
  BY <1>1, <1>2, PTL DEF Spec

(***************************************************************************)
(* A transaction belongs to the holder of the mutex.  HolderOwnsRequest    *)
(* says nothing of the step in which the PDU is built and the address not  *)
(* yet set, which the induction needs.                                     *)
(***************************************************************************)
HolderInv ==
    \A c \in Callers :
      /\ pc[c] \in Critical => master_lock = c
      /\ pc[c] \in Pending \cup {"prepare"} => request = req[c].id
      /\ pc[c] \in Pending => ucMBAddress = req[c].addr

LEMMA HolderInvInvariant == Spec => []HolderInv
<1>1. Init => HolderInv
  BY DEF Init, HolderInv, Critical, Pending
<1>2. TypeOK /\ HolderInv /\ [Next]_vars => HolderInv'
  <2> SUFFICES ASSUME TypeOK, HolderInv, [Next]_vars,
                      NEW d \in Callers
               PROVE  /\ pc'[d] \in Critical => master_lock' = d
                      /\ pc'[d] \in Pending \cup {"prepare"}
                           => request' = req'[d].id
                      /\ pc'[d] \in Pending => ucMBAddress' = req'[d].addr
    BY DEF HolderInv
  <2>1. /\ pc \in [Callers -> CallerPc] /\ req \in [Callers -> Request]
        /\ NoCaller \notin Callers
    BY CallersAssumption DEF TypeOK
  <2> USE DEF HolderInv, Critical, Pending, Goto, appVars, callerVars
  <2>2. ASSUME NEW c \in Callers, Call(c)
        PROVE  /\ d # c => pc'[d] = pc[d] /\ req'[d] = req[d]
               /\ pc'[c] = "lock" /\ UNCHANGED appVars
    BY <2>1, <2>2 DEF Call
  <2>3. ASSUME NEW c \in Callers, Lock(c)
        PROVE  /\ pc'[d] \in Critical => master_lock' = d
               /\ pc'[d] \notin Pending \cup {"prepare"}
    BY <2>1, <2>3 DEF Lock
  <2>4. CASE \E c \in Callers : Call(c) \/ Lock(c)
    BY <2>2, <2>3, <2>4
  <2>5. CASE \E c \in Callers : Build(c)
    BY <2>1, <2>5 DEF Build
  <2>6. CASE \E c \in Callers : Prepare(c)
    BY <2>1, <2>6 DEF Prepare
  <2>7. CASE \E c \in Callers : PostFlag(c) \/ PostEvent(c) \/ Check(c)
    BY <2>1, <2>7 DEF PostFlag, PostEvent, Check
  <2>8. CASE \E c \in Callers : Wake(c) \/ Timeout(c) \/ Parse(c)
    BY <2>1, <2>8 DEF Wake, Timeout, Parse
  <2>9. CASE \E c \in Callers : Out(c) \/ ModbusReceive(c)
    BY <2>1, <2>9 DEF Out, ModbusReceive
  <2>10. CASE Timer \/ Tasklet \/ Worker \/ UNCHANGED vars
    BY <2>10
    DEF Timer, T35PostFlag, T35PostEvent, Worker, ReceiveFrame, Tasklet,
        TaskletGet, TaskletClear, PollReady, PollSend, PollSent, PollFrame,
        CheckCrc, CopyFrame, AcceptFrame, WakeUp, vars
  <2>11. QED
    BY <2>4, <2>5, <2>6, <2>7, <2>8, <2>9, <2>10 DEF Next, CallerStep
<1>3. QED
  BY <1>1, <1>2, TypeCorrect, PTL DEF Spec

\* The PDU and the address that the tasklet sends and the parser compares
\* with are those of the caller whose transaction it is (modbus.c:322-356).
THEOREM TransactionIsOwned == Spec => []HolderOwnsRequest
<1>1. HolderInv => HolderOwnsRequest
  BY DEF HolderInv, HolderOwnsRequest
<1>2. QED
  BY <1>1, HolderInvInvariant, PTL

\* The order prepare, post, check loses no wake-up, for any interleaving of
\* the callers with the tasklet (modbus.c:125-143).
THEOREM WakeupIsNeverLost == Spec => []NoLostWakeup
<1>1. Init => NoLostWakeup
  BY DEF Init, NoLostWakeup
<1>2. TypeOK /\ NoLostWakeup /\ [Next]_vars => NoLostWakeup'
  <2> SUFFICES ASSUME TypeOK, NoLostWakeup, [Next]_vars, NEW d \in Callers,
                      pc'[d] = "sleep", d \in waiters',
                      master_state' \in {"EM_PR", "EM_PER"}
               PROVE  tasklet' = "wake"
    BY DEF NoLostWakeup
  <2>1. pc \in [Callers -> CallerPc]
    BY DEF TypeOK
  <2> USE DEF NoLostWakeup, Goto, callerVars, pollVars
  <2>2. CASE \E c \in Callers : Call(c) \/ Lock(c) \/ Build(c) \/ Prepare(c)
                                \/ PostFlag(c) \/ PostEvent(c)
    BY <2>1, <2>2 DEF Call, Lock, Build, Prepare, PostFlag, PostEvent
  <2>3. CASE \E c \in Callers : Check(c)
    BY <2>1, <2>3 DEF Check
  <2>4. CASE \E c \in Callers : Wake(c) \/ Timeout(c) \/ Parse(c)
                                \/ ModbusReceive(c)
    BY <2>1, <2>4 DEF Wake, Timeout, Parse, ModbusReceive
  <2>5. CASE \E c \in Callers : Out(c)
    BY <2>5 DEF Out
  <2>6. CASE Timer \/ Worker \/ UNCHANGED vars
    BY <2>6 DEF Timer, T35PostFlag, T35PostEvent, Worker, ReceiveFrame, vars
  <2>7. CASE Tasklet
    BY <2>7
    DEF Tasklet, TaskletGet, TaskletClear, PollReady, PollSend, PollSent,
        PollFrame, CheckCrc, CopyFrame, AcceptFrame, WakeUp
  <2>8. QED
    BY <2>2, <2>3, <2>4, <2>5, <2>6, <2>7 DEF Next, CallerStep
<1>3. QED
  BY <1>1, <1>2, TypeCorrect, PTL DEF Spec

(***************************************************************************)
(* The response buffer is empty from the moment a caller has reset it      *)
(* until the one parse of its transaction.                                 *)
(***************************************************************************)
BufferInv ==
    /\ ubRspLength <= 1
    /\ \A c \in Callers :
         /\ pc[c] \in Critical \ {"out"} => ubRspLength = 0
         /\ pc[c] = "out" /\ ret[c] # "NOERR" => ubRspLength = 0

LEMMA BufferInvInvariant == Spec => []BufferInv
<1>1. Init => BufferInv
  BY DEF Init, BufferInv, Critical
<1>2. TypeOK /\ HolderInv /\ BufferInv /\ [Next]_vars => BufferInv'
  <2> SUFFICES ASSUME TypeOK, HolderInv, BufferInv, [Next]_vars
               PROVE  BufferInv'
    OBVIOUS
  <2>1. /\ pc \in [Callers -> CallerPc] /\ ret \in [Callers -> SendRet]
        /\ NoCaller \notin Callers /\ ubRspLength \in Nat
    BY CallersAssumption DEF TypeOK
  <2>2. \A c \in Callers : pc[c] \in Critical => master_lock = c
    BY DEF HolderInv
  <2> USE DEF BufferInv, Critical, Goto, appVars, callerVars
  <2>3. ASSUME NEW c \in Callers, Call(c) \/ Lock(c)
        PROVE  BufferInv'
    <3>1. CASE Call(c)
      BY <2>1, <3>1 DEF Call
    <3>2. CASE Lock(c)
      BY <2>1, <3>2 DEF Lock
    <3>3. QED
      BY <2>3, <3>1, <3>2
  <2>4. CASE \E c \in Callers : Build(c) \/ Prepare(c)
    BY <2>1, <2>2, <2>4 DEF Build, Prepare
  <2>5. CASE \E c \in Callers : PostFlag(c) \/ PostEvent(c) \/ Check(c)
    BY <2>1, <2>5 DEF PostFlag, PostEvent, Check
  <2>6. CASE \E c \in Callers : Wake(c) \/ Timeout(c)
    BY <2>1, <2>2, <2>6 DEF Wake, Timeout
  <2>7. ASSUME NEW c \in Callers, Parse(c)
        PROVE  BufferInv'
    <3>1. PICK r \in ParseResult(pucMBFrame) :
            /\ ret' = [ret EXCEPT ![c] = r.ret]
            /\ ubRspLength' = ubRspLength + r.values
      BY <2>7 DEF Parse
    <3>2. r.values \in {0, 1} /\ (r.ret # "NOERR" => r.values = 0)
      BY <3>1, ParseOutcome DEF TypeOK
    <3>3. pc[c] = "parse" /\ pc' = [pc EXCEPT ![c] = "out"]
      BY <2>7 DEF Parse
    <3>4. \A d \in Callers \ {c} : pc'[d] \notin Critical
      BY <2>1, <2>2, <3>3
    <3>5. ubRspLength' = r.values
      BY <2>1, <3>1, <3>2, <3>3
    <3>6. pc'[c] = "out" /\ ret'[c] = r.ret
      BY <2>1, <3>1, <3>3
    <3>7. ubRspLength' <= 1
      BY <3>2, <3>5
    <3>8. ASSUME NEW d \in Callers
          PROVE  /\ pc'[d] \notin Critical \ {"out"}
                 /\ pc'[d] = "out" /\ ret'[d] # "NOERR" => ubRspLength' = 0
      <4>1. CASE d = c
        BY <4>1, <3>2, <3>5, <3>6
      <4>2. CASE d # c
        BY <4>2, <3>4
      <4>3. QED
        BY <4>1, <4>2
    <3>9. QED
      BY <3>7, <3>8
  <2>8. CASE \E c \in Callers : Out(c) \/ ModbusReceive(c)
    BY <2>1, <2>8 DEF Out, ModbusReceive
  <2>9. CASE Timer \/ Tasklet \/ Worker \/ UNCHANGED vars
    <3>1. UNCHANGED <<pc, ret, ubRspLength>>
      BY <2>9
      DEF Timer, T35PostFlag, T35PostEvent, Worker, ReceiveFrame, Tasklet,
          TaskletGet, TaskletClear, PollReady, PollSend, PollSent, PollFrame,
          CheckCrc, CopyFrame, AcceptFrame, WakeUp, vars
    <3>2. QED
      BY <3>1
  <2>10. QED
    BY <2>3, <2>4, <2>5, <2>6, <2>7, <2>8, <2>9 DEF Next, CallerStep
<1>3. QED
  BY <1>1, <1>2, TypeCorrect, HolderInvInvariant, PTL DEF Spec

\* A failing call hands nothing to ModbusReceive, and no number of calls
\* overruns usRspone (modbus.c:323, 96).
THEOREM FailureIsSilent == Spec => []FailurePublishesNothing
<1>1. BufferInv => FailurePublishesNothing
  BY DEF BufferInv, FailurePublishesNothing
<1>2. QED
  BY <1>1, BufferInvInvariant, PTL

(***************************************************************************)
(* The orderly regime: a caller's 1000 ms outlast the reply, the caller is *)
(* asleep when the reply comes, no signal interrupts it and no reply is    *)
(* damaged.  Replies may still be lost, be exceptions, carry another       *)
(* slave's address or overtake the tasklet, calls may come before the bus  *)
(* is ready, and memory may run out.                                       *)
(***************************************************************************)
Orderly == Faults \cap {"late", "preempt", "signal", "corrupt"} = {}

Queued(e) == scheduled /\ eQueuedEvent = e
Handling(e) == tasklet \in {"clear", "poll"} /\ eEvent = e

\* The stages a transaction goes through between PostEvent and WakeUp.
RequestQueued == Queued("EV_MASTER_SEND_REQUEST")
RequestHandled == Handling("EV_MASTER_SEND_REQUEST")
ReplyOnLine == line # {}
ReplyBuffered == eRcvState = "RCV"
FrameQueued == Queued("EV_FRAME_RECEIVED")
FrameHandled ==
    \/ Handling("EV_FRAME_RECEIVED")
    \/ tasklet \in {"crc", "copy", "accept", "wake"}

\* Nothing of a transaction is left in the link layer or the tasklet.
Calm ==
    /\ ~RequestQueued /\ ~RequestHandled /\ tasklet # "sent" /\ ~ReplyOnLine
    /\ ~ReplyBuffered /\ ~FrameQueued /\ ~FrameHandled

Asleep(c) == pc[c] = "sleep" /\ c \in waiters
Waiting(c) == pc[c] = "check" \/ Asleep(c)
Served(c) == pc[c] = "parse" \/ (pc[c] = "sleep" /\ c \notin waiters)

\* Frame or PDU f answers the current request.
Answers(f) == f.kind \in {"data", "exception"} /\ f.re = request

\* A transaction is in one stage at a time; only "sent", in which the tasklet
\* has transmitted and not yet noted it, may overlap the reply's stages.
OneStage ==
    /\ RequestQueued =>
         ~(RequestHandled \/ tasklet = "sent" \/ ReplyOnLine \/ ReplyBuffered
           \/ FrameHandled)
    /\ RequestHandled => ~(ReplyOnLine \/ ReplyBuffered \/ FrameQueued)
    /\ ReplyOnLine => ~(ReplyBuffered \/ FrameQueued \/ FrameHandled)
    /\ ReplyBuffered => ~(FrameQueued \/ FrameHandled)
    /\ FrameQueued => ~FrameHandled
    /\ \A f, g \in line : f = g
    /\ t35 = "posting" => eRcvState # "IDLE"

\* What travels towards the caller answers the request that is in the master.
ReplyIsCurrent ==
    /\ \A f \in line : Answers(f)
    /\ ReplyBuffered \/ FrameQueued \/ Handling("EV_FRAME_RECEIVED")
       \/ tasklet \in {"crc", "copy"} => Answers(ucRTUReBuf)
    /\ tasklet \in {"accept", "wake"} => Answers(pucMBFrame)
    /\ \A c \in Callers : Served(c) => Answers(pucMBFrame)

\* The master awaits the reply while it travels, and no state of a finished
\* transaction is left for the next caller to take for its own.
MasterWaits ==
    /\ (ReplyOnLine \/ ReplyBuffered \/ FrameQueued \/ FrameHandled)
       /\ tasklet \notin {"sent", "wake"} => master_state = "EM_WFR"
    /\ master_lock = NoCaller => master_state = "EM_IDLE"
    /\ \A c \in Callers :
         pc[c] \in {"build", "prepare", "post", "posting", "check"}
           => master_state \notin {"EM_PR", "EM_PER"}

\* A transaction is under way only while a caller waits for it, and from the
\* reply's arrival on that caller is asleep.
CallerWaits ==
    /\ Calm \/ \E c \in Callers : Waiting(c)
    /\ ReplyBuffered \/ FrameQueued \/ FrameHandled
         => \E c \in Callers : Asleep(c)
    /\ \A c \in Callers : pc[c] \in {"post", "posting", "check"} => c \in waiters

OrderlyInv == OneStage /\ ReplyIsCurrent /\ MasterWaits /\ CallerWaits

\* In the orderly regime what comes back for a request, if anything, is one
\* frame that answers it.
LEMMA OrderlyReplies ==
    ASSUME Orderly, NEW n \in 0 .. MaxCalls, NEW a \in Slaves,
           NEW fs \in Replies(n, a)
    PROVE  /\ \A f \in fs : f.kind \in {"data", "exception"} /\ f.re = n
           /\ \A f, g \in fs : f = g
<1> DEFINE answer == [kind |-> "data", re |-> n, addr |-> a]
           refusal == [answer EXCEPT !.kind = "exception"]
           stray(b) == [answer EXCEPT !.addr = b]
<1>1. answer.kind = "data" /\ answer.re = n
  OBVIOUS
<1>2. refusal.kind = "exception" /\ refusal.re = n
  OBVIOUS
<1>3. \A b : stray(b).kind = "data" /\ stray(b).re = n
  OBVIOUS
<1>4. \/ fs = {} \/ fs = {answer} \/ fs = {refusal}
      \/ \E b \in Slaves : fs = {stray(b)}
  BY DEF Replies, Orderly
<1> HIDE DEF answer, refusal, stray
<1>5. QED
  BY <1>1, <1>2, <1>3, <1>4

LEMMA OrderlyInvInductive ==
    ASSUME Orderly, TypeOK, HolderInv, OrderlyInv, [Next]_vars
    PROVE  OrderlyInv'
<1>1. /\ pc \in [Callers -> CallerPc] /\ NoCaller \notin Callers
      /\ waiters \subseteq Callers /\ tasklet \in TaskletPc
      /\ eRcvState \in {"INIT", "IDLE", "RCV"} /\ t35 \in {"off", "posting"}
  BY CallersAssumption DEF TypeOK
<1>2. \A c, d \in Callers : pc[c] \in Critical /\ pc[d] \in Critical => c = d
  BY DEF HolderInv
<1>3. \A c \in Callers : pc[c] \in Critical => master_lock # NoCaller
  BY <1>1 DEF HolderInv
<1> USE DEF OrderlyInv, OneStage, ReplyIsCurrent, MasterWaits, CallerWaits,
            Calm, RequestQueued, RequestHandled, ReplyOnLine, ReplyBuffered,
            FrameQueued, FrameHandled, Queued, Handling, Asleep, Waiting, Served,
            Critical, Goto, appVars, callerVars, slotVars, pollVars, linkVars, Answers
<1>4. ASSUME NEW c \in Callers, Call(c)
      PROVE  OrderlyInv'
  BY <1>1, <1>2, <1>3, <1>4 DEF Call
<1>5. ASSUME NEW c \in Callers, Lock(c)
      PROVE  OrderlyInv'
  BY <1>1, <1>2, <1>3, <1>5 DEF Lock
<1>6. ASSUME NEW c \in Callers, Build(c)
      PROVE  OrderlyInv'
  BY <1>1, <1>2, <1>3, <1>6 DEF Build
<1>7. ASSUME NEW c \in Callers, Prepare(c)
      PROVE  OrderlyInv'
  BY <1>1, <1>2, <1>3, <1>7 DEF Prepare
<1>8. ASSUME NEW c \in Callers, PostFlag(c)
      PROVE  OrderlyInv'
  BY <1>1, <1>2, <1>3, <1>8 DEF PostFlag
<1>9. ASSUME NEW c \in Callers, PostEvent(c)
      PROVE  OrderlyInv'
  BY <1>1, <1>2, <1>3, <1>9 DEF PostEvent
<1>10. ASSUME NEW c \in Callers, Check(c)
       PROVE  OrderlyInv'
  BY <1>1, <1>2, <1>3, <1>10 DEF Check
<1>11. ASSUME NEW c \in Callers, Wake(c)
       PROVE  OrderlyInv'
  BY <1>1, <1>2, <1>3, <1>11 DEF Wake, Orderly
<1>12. ASSUME NEW c \in Callers, Timeout(c)
       PROVE  OrderlyInv'
  BY <1>1, <1>2, <1>3, <1>12 DEF Timeout, Orderly, Quiet, InterruptsDone
<1>13. ASSUME NEW c \in Callers, Parse(c)
       PROVE  OrderlyInv'
  BY <1>1, <1>2, <1>3, <1>13 DEF Parse
<1>14. ASSUME NEW c \in Callers, Out(c)
       PROVE  OrderlyInv'
  BY <1>1, <1>2, <1>3, <1>14 DEF Out
<1>15. ASSUME NEW c \in Callers, ModbusReceive(c)
       PROVE  OrderlyInv'
  BY <1>1, <1>2, <1>3, <1>15 DEF ModbusReceive
<1>16. CASE T35PostFlag
  BY <1>1, <1>2, <1>3, <1>16 DEF T35PostFlag
<1>17. CASE T35PostEvent
  BY <1>1, <1>2, <1>3, <1>17 DEF T35PostEvent
<1>18. ASSUME NEW f \in line, ReceiveFrame(f)
       PROVE  OrderlyInv'
  BY <1>1, <1>2, <1>3, <1>18 DEF ReceiveFrame, Orderly
<1>19. CASE TaskletGet
  BY <1>1, <1>2, <1>3, <1>19 DEF TaskletGet
<1>20. CASE TaskletClear
  BY <1>1, <1>2, <1>3, <1>20 DEF TaskletClear
<1>21. CASE PollReady
  BY <1>1, <1>2, <1>3, <1>21 DEF PollReady
<1>22. CASE PollSend
  BY <1>1, <1>2, <1>3, <1>22, OrderlyReplies DEF PollSend, TypeOK
<1>23. CASE PollSent
  BY <1>1, <1>2, <1>3, <1>23 DEF PollSent
<1>24. CASE PollFrame
  BY <1>1, <1>2, <1>3, <1>24 DEF PollFrame
<1>25. CASE CheckCrc
  BY <1>1, <1>2, <1>3, <1>25 DEF CheckCrc
<1>26. CASE CopyFrame
  BY <1>1, <1>2, <1>3, <1>26 DEF CopyFrame
<1>27. CASE AcceptFrame
  BY <1>1, <1>2, <1>3, <1>27 DEF AcceptFrame, AfterReceive
<1>28. CASE WakeUp
  BY <1>1, <1>2, <1>3, <1>28 DEF WakeUp
<1>29. CASE UNCHANGED vars
  BY <1>29 DEF vars
<1>30. QED
  BY <1>4, <1>5, <1>6, <1>7, <1>8, <1>9, <1>10, <1>11, <1>12, <1>13, <1>14,
     <1>15, <1>16, <1>17, <1>18, <1>19, <1>20, <1>21, <1>22, <1>23, <1>24,
     <1>25, <1>26, <1>27, <1>28, <1>29
  DEF Next, CallerStep, Timer, Tasklet, Worker

\* In the orderly regime, the conditions above hold in every state.
LEMMA OrderlyInvInvariant == ASSUME Orderly PROVE Spec => []OrderlyInv
<1>1. Init => OrderlyInv
  BY DEF Init, OrderlyInv, OneStage, ReplyIsCurrent, MasterWaits, CallerWaits,
         Calm, RequestQueued, RequestHandled, ReplyOnLine, ReplyBuffered,
         FrameQueued, FrameHandled, Queued, Handling, Served
<1>2. TypeOK /\ HolderInv /\ OrderlyInv /\ [Next]_vars => OrderlyInv'
  BY OrderlyInvInductive
<1>3. QED
  BY <1>1, <1>2, TypeCorrect, HolderInvInvariant, PTL DEF Spec

\* In the orderly regime the value that a successful call leaves in usRspone
\* answers that call's request, whoever called before (modbus.c:351-368).
THEOREM AnswerIsRight == ASSUME Orderly PROVE Spec => []RightAnswer
<1>1. Init => RightAnswer
  BY DEF Init, RightAnswer
<1>2. TypeOK /\ HolderInv /\ BufferInv /\ OrderlyInv /\ RightAnswer
        /\ [Next]_vars => RightAnswer'
  <2> SUFFICES ASSUME TypeOK, HolderInv, BufferInv, OrderlyInv, RightAnswer,
                      [Next]_vars, NEW d \in Callers,
                      pc'[d] = "out", ret'[d] = "NOERR", ubRspLength' > 0
               PROVE  usRspone' = req'[d].id
    BY DEF RightAnswer
  <2>1. /\ pc \in [Callers -> CallerPc] /\ ret \in [Callers -> SendRet]
        /\ ubRspLength \in Nat /\ NoCaller \notin Callers
        /\ req \in [Callers -> Request]
    BY CallersAssumption DEF TypeOK
  <2>2. \A c \in Callers : pc[c] \in Critical => master_lock = c
    BY DEF HolderInv
  <2> USE DEF RightAnswer, Critical, Goto, appVars, callerVars
  <2>3. ASSUME NEW c \in Callers, Parse(c)
        PROVE  usRspone' = req'[d].id
    <3>1. PICK r \in ParseResult(pucMBFrame) :
            /\ usRspone' = IF r.values = 0 THEN usRspone ELSE pucMBFrame.re
            /\ ubRspLength' = ubRspLength + r.values
      BY <2>3 DEF Parse
    <3>2. c = d /\ pc[c] = "parse" /\ req' = req
      BY <2>1, <2>2, <2>3 DEF Parse
    <3>3. r.values \in {0, 1} /\ ubRspLength = 0
      BY <3>1, <3>2, ParseOutcome DEF TypeOK, BufferInv
    <3>4. r.values # 0
      BY <3>1, <3>3
    <3>5. pucMBFrame.re = request /\ request = req[c].id
      BY <3>2 DEF OrderlyInv, ReplyIsCurrent, Served, Answers, HolderInv, Pending
    <3>6. QED
      BY <3>1, <3>2, <3>4, <3>5
  <2>4. CASE \E c \in Callers : Call(c) \/ Lock(c)
    BY <2>1, <2>2, <2>4 DEF Call, Lock
  <2>5. CASE \E c \in Callers : Build(c) \/ Prepare(c) \/ PostFlag(c)
                                \/ PostEvent(c) \/ Check(c)
    BY <2>1, <2>5 DEF Build, Prepare, PostFlag, PostEvent, Check
  <2>6. CASE \E c \in Callers : Wake(c) \/ Timeout(c) \/ Out(c)
                                \/ ModbusReceive(c)
    BY <2>1, <2>6 DEF Wake, Timeout, Out, ModbusReceive
  <2>7. CASE Timer \/ Tasklet \/ Worker \/ UNCHANGED vars
    <3>1. UNCHANGED <<pc, req, ret, ubRspLength, usRspone>>
      BY <2>7
      DEF Timer, T35PostFlag, T35PostEvent, Worker, ReceiveFrame, Tasklet,
          TaskletGet, TaskletClear, PollReady, PollSend, PollSent, PollFrame,
          CheckCrc, CopyFrame, AcceptFrame, WakeUp, vars
    <3>2. QED
      BY <3>1
  <2>8. QED
    BY <2>3, <2>4, <2>5, <2>6, <2>7 DEF Next, CallerStep
<1>3. QED
  BY <1>1, <1>2, TypeCorrect, HolderInvInvariant, BufferInvInvariant,
     OrderlyInvInvariant, PTL DEF Spec

\* In the orderly regime a frame is judged only while a reply is awaited, as
\* the comment at modbus.c:223 has it.
THEOREM AcceptsWhileWaiting == ASSUME Orderly PROVE Spec => AcceptOnlyWhenWaiting
<1>1. TypeOK /\ OrderlyInv /\ [Next]_vars =>
        [master_state' \in {"EM_PR", "EM_PER"} /\ master_state' # master_state
           => master_state = "EM_WFR"]_vars
  <2> SUFFICES ASSUME OrderlyInv, [Next]_vars,
                      master_state' \in {"EM_PR", "EM_PER"},
                      master_state' # master_state
               PROVE  master_state = "EM_WFR"
    OBVIOUS
  <2>1. AcceptFrame
    BY DEF Next, CallerStep, Call, Lock, Build, Prepare, PostFlag, PostEvent,
           Check, Wake, Timeout, Parse, Out, ModbusReceive, Timer, T35PostFlag,
           T35PostEvent, Worker, ReceiveFrame, Tasklet, TaskletGet,
           TaskletClear, PollReady, PollSend, PollSent, PollFrame, CheckCrc,
           CopyFrame, WakeUp, vars
  <2>2. tasklet = "accept"
    BY <2>1 DEF AcceptFrame
  <2>3. QED
    BY <2>2 DEF OrderlyInv, MasterWaits, FrameHandled
<1>2. QED
  BY <1>1, TypeCorrect, OrderlyInvInvariant, PTL DEF Spec, AcceptOnlyWhenWaiting

(***************************************************************************)
(* Where a caller stands decides whether it has the turn and whether its   *)
(* call has an outcome.                                                    *)
(***************************************************************************)
TurnInv ==
    \A c \in Callers :
      /\ master_lock = c => pc[c] \in Critical
      /\ pc[c] \in {"lock"} \cup (Critical \ {"out"}) => ret[c] = "none"
      /\ pc[c] = "out" => ret[c] # "none"

LEMMA TurnInvInvariant == Spec => []TurnInv
<1>1. Init => TurnInv
  BY CallersAssumption DEF Init, TurnInv, Critical
<1>2. TypeOK /\ HolderInv /\ TurnInv /\ [Next]_vars => TurnInv'
  <2> SUFFICES ASSUME TypeOK, HolderInv, TurnInv, [Next]_vars
               PROVE  TurnInv'
    OBVIOUS
  <2>1. /\ pc \in [Callers -> CallerPc] /\ ret \in [Callers -> SendRet]
        /\ NoCaller \notin Callers
    BY CallersAssumption DEF TypeOK
  <2>2. \A c \in Callers : pc[c] \in Critical => master_lock = c
    BY DEF HolderInv
  <2> USE DEF TurnInv, Critical, Goto, appVars, callerVars
  <2>3. ASSUME NEW c \in Callers, Parse(c)
        PROVE  TurnInv'
    <3>1. PICK r \in ParseResult(pucMBFrame) : ret' = [ret EXCEPT ![c] = r.ret]
      BY <2>3 DEF Parse
    <3>2. r.ret # "none"
      BY <3>1, ParseOutcome DEF TypeOK
    <3>3. QED
      BY <2>1, <2>2, <2>3, <3>1, <3>2 DEF Parse
  <2>4. CASE \E c \in Callers : Call(c) \/ Lock(c)
    BY <2>1, <2>2, <2>4 DEF Call, Lock
  <2>5. CASE \E c \in Callers : Build(c) \/ Prepare(c)
    BY <2>1, <2>5 DEF Build, Prepare
  <2>6. CASE \E c \in Callers : PostFlag(c) \/ PostEvent(c) \/ Check(c)
    BY <2>1, <2>6 DEF PostFlag, PostEvent, Check
  <2>7. CASE \E c \in Callers : Wake(c) \/ Timeout(c)
    BY <2>1, <2>7 DEF Wake, Timeout
  <2>8. CASE \E c \in Callers : Out(c) \/ ModbusReceive(c)
    BY <2>1, <2>2, <2>8 DEF Out, ModbusReceive
  <2>9. CASE Timer \/ Tasklet \/ Worker \/ UNCHANGED vars
    <3>1. UNCHANGED <<pc, ret, master_lock>>
      BY <2>9
      DEF Timer, T35PostFlag, T35PostEvent, Worker, ReceiveFrame, Tasklet,
          TaskletGet, TaskletClear, PollReady, PollSend, PollSent, PollFrame,
          CheckCrc, CopyFrame, AcceptFrame, WakeUp, vars
    <3>2. QED
      BY <3>1
  <2>10. QED
    BY <2>3, <2>4, <2>5, <2>6, <2>7, <2>8, <2>9 DEF Next, CallerStep
<1>3. QED
  BY <1>1, <1>2, TypeCorrect, HolderInvInvariant, PTL DEF Spec

\* In the orderly regime ModbusSend, tasklet, timer and receiver implement
\* turn-taking on a serial bus (modbus.c:318-376).
THEOREM MasterImplementsSerialBus ==
    ASSUME Orderly PROVE Spec => ImplementsSerialBus
<1>1. Init => Bus!Init
  BY CallersAssumption DEF Init, Bus!Init
<1>2. TypeOK /\ HolderInv /\ BufferInv /\ OrderlyInv /\ TurnInv /\ [Next]_vars
        => [Bus!Next]_(Bus!vars)
  <2> SUFFICES ASSUME TypeOK, HolderInv, BufferInv, OrderlyInv, TurnInv,
                      [Next]_vars
               PROVE  Bus!Next \/ UNCHANGED Bus!vars
    OBVIOUS
  <2>1. /\ pc \in [Callers -> CallerPc] /\ ret \in [Callers -> SendRet]
        /\ NoCaller \notin Callers /\ ubRspLength \in Nat
        /\ req \in [Callers -> Request] /\ calls \in 0 .. MaxCalls
    BY CallersAssumption DEF TypeOK
  <2> USE DEF Goto, appVars, callerVars
  <2>2. ASSUME NEW c \in Callers, Call(c)
        PROVE  Bus!Next
    <3>1. PICK q \in CallId : q = calls + 1
      BY <2>1, <2>2, MaxCallsAssumption DEF Call, CallId
    <3>2. PICK a \in Slaves : req' = [req EXCEPT ![c] = [id |-> q, addr |-> a]]
      BY <2>2, <3>1 DEF Call
    <3>3. master_lock # c
      BY <2>2 DEF Call, TurnInv, Critical
    <3>4. [d \in Callers |-> req'[d].id]
            = [[d \in Callers |-> req[d].id] EXCEPT ![c] = q]
      BY <2>1, <3>2
    <3>5. Bus!Ask(c, q)
      BY <2>2, <3>3, <3>4 DEF Call, Bus!Ask
    <3>6. QED
      BY <3>5 DEF Bus!Next
  <2>3. ASSUME NEW c \in Callers, Lock(c)
        PROVE  Bus!Next
    <3>1. Bus!Take(c)
      BY <2>3 DEF Lock, Bus!Take, TurnInv
    <3>2. QED
      BY <3>1 DEF Bus!Next
  <2>4. ASSUME NEW c \in Callers, Build(c), ret' = ret
        PROVE  UNCHANGED Bus!vars
    BY <2>4 DEF Build, Bus!vars
  <2>5. ASSUME NEW c \in Callers, Build(c), ret' # ret
        PROVE  Bus!Next
    <3>1. Bus!Fail(c)
      BY <2>5 DEF Build, Bus!Fail, TurnInv, HolderInv, Critical
    <3>2. QED
      BY <3>1 DEF Bus!Next
  <2>6. ASSUME NEW c \in Callers,
               Prepare(c) \/ PostFlag(c) \/ PostEvent(c) \/ Check(c) \/ Wake(c)
               \/ ModbusReceive(c)
        PROVE  UNCHANGED Bus!vars
    BY <2>6 DEF Prepare, PostFlag, PostEvent, Check, Wake, ModbusReceive, Bus!vars
  <2>7. ASSUME NEW c \in Callers, Timeout(c)
        PROVE  Bus!Next
    <3>1. Bus!Fail(c)
      BY <2>7 DEF Timeout, Bus!Fail, TurnInv, HolderInv, Critical
    <3>2. QED
      BY <3>1 DEF Bus!Next
  <2>8. ASSUME NEW c \in Callers, Parse(c)
        PROVE  Bus!Next
    <3>1. PICK r \in ParseResult(pucMBFrame) :
            /\ ret' = [ret EXCEPT ![c] = r.ret]
            /\ usRspone' = IF r.values = 0 THEN usRspone ELSE pucMBFrame.re
            /\ ubRspLength' = ubRspLength + r.values
      BY <2>8 DEF Parse
    <3>2. pc[c] = "parse" /\ UNCHANGED <<req, master_lock>>
      BY <2>8 DEF Parse
    <3>3. master_lock = c /\ ret[c] = "none" /\ ubRspLength = 0
      BY <3>2 DEF HolderInv, TurnInv, BufferInv, Critical
    <3>4. pucMBFrame.re = req[c].id /\ pucMBFrame.kind \in {"data", "exception"}
      BY <3>2 DEF OrderlyInv, ReplyIsCurrent, Served, Answers, HolderInv, Pending
    <3>5. r.ret = "NOERR" /\ r.values \in {0, 1}
      BY <3>4 DEF ParseResult
    <3>6. Bus!Succeed(c)
      BY <3>1, <3>2, <3>3, <3>4, <3>5 DEF Bus!Succeed
    <3>7. QED
      BY <3>6 DEF Bus!Next
  <2>9. ASSUME NEW c \in Callers, Out(c)
        PROVE  Bus!Next
    <3>1. Bus!Leave(c)
      BY <2>9 DEF Out, Bus!Leave, TurnInv, HolderInv, Critical
    <3>2. QED
      BY <3>1 DEF Bus!Next
  <2>10. CASE Timer \/ Tasklet \/ Worker \/ UNCHANGED vars
    <3>1. UNCHANGED <<req, ret, master_lock, ubRspLength, usRspone>>
      BY <2>10
      DEF Timer, T35PostFlag, T35PostEvent, Worker, ReceiveFrame, Tasklet,
          TaskletGet, TaskletClear, PollReady, PollSend, PollSent, PollFrame,
          CheckCrc, CopyFrame, AcceptFrame, WakeUp, vars
    <3>2. QED
      BY <3>1 DEF Bus!vars
  <2>11. QED
    BY <2>2, <2>3, <2>4, <2>5, <2>6, <2>7, <2>8, <2>9, <2>10
    DEF Next, CallerStep
<1>3. QED
  BY <1>1, <1>2, TypeCorrect, HolderInvInvariant, BufferInvInvariant,
     OrderlyInvInvariant, TurnInvInvariant, PTL
  DEF Spec, ImplementsSerialBus, Bus!Spec
=============================================================================
