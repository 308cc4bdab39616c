---------------------------- MODULE ModbusMaster ----------------------------
(***************************************************************************)
(* The Modbus RTU master of 17_modbus_rtu: the application layer           *)
(* modbus.c, the one-slot event queue port_event.c, and the frame-level    *)
(* behaviour of mbrtu.c, run by four kinds of concurrent actors:           *)
(*                                                                         *)
(*   - Callers, processes inside ModbusSend and then ModbusReceive;        *)
(*   - the tasklet (soft interrupt) that runs eMBMasterPoll;               *)
(*   - the T3.5 timer interrupt that runs xMBRTUTimerT35Expired;           *)
(*   - the serdev worker that hands received bytes to xMBRTUReceiveFSM.    *)
(*                                                                         *)
(* A step is a stretch of code between two accesses to memory that another *)
(* actor writes.  The line is modelled a frame at a time (the module       *)
(* RtuReceiver goes down to chunks of bytes), and what a value is does not *)
(* matter, only which request it answers: the n-th call of ModbusSend      *)
(* builds request n and a slave's reply to it carries the number n.        *)
(***************************************************************************)
EXTENDS Naturals, FiniteSets

CONSTANTS
    Callers,    \* processes that call ModbusSend
    NoCaller,   \* "master_lock is free"
    Slaves,     \* slave addresses on the line
    MaxCalls,   \* bound on the calls of ModbusSend in a behaviour
    Faults      \* what the environment may do, a subset of AllFaults

(***************************************************************************)
(* The faults an instance may allow.                                       *)
(*   lost       a request or its reply never arrives                       *)
(*   corrupt    a reply arrives with a bad CRC                             *)
(*   foreign    a valid reply arrives with another slave's address         *)
(*   exception  the slave answers with an exception frame                  *)
(*   late       the timeout may fire with work still in flight; without it *)
(*              the 1000 ms of a caller outlast every reply and interrupt  *)
(*   slow       a frame may arrive before the tasklet is done with the     *)
(*              last one; without it the tasklet is faster than the gap    *)
(*              of 3.5 characters between two frames                       *)
(*   early      calls may start before the bus's startup silence is over   *)
(*   preempt    a caller may lose the CPU between posting its request and   *)
(*              going to sleep for as long as its reply takes              *)
(*   signal     a signal may interrupt a sleeping caller                   *)
(*   nomem      krealloc of the request buffer may fail                    *)
(***************************************************************************)
AllFaults == {"lost", "corrupt", "foreign", "exception", "late", "slow",
              "early", "preempt", "signal", "nomem"}

ASSUME CallersAssumption == NoCaller \notin Callers
ASSUME SlavesAssumption == Slaves # {}
ASSUME MaxCallsAssumption == MaxCalls \in Nat
ASSUME FaultsAssumption == Faults \subseteq AllFaults

VARIABLES
    pc,             \* pc[c]: where caller c stands in ModbusSend/ModbusReceive
    req,            \* req[c]: the arguments of c's last call
    ret,            \* ret[c]: ret_val of c's last call
    got,            \* got[c]: what ModbusReceive copied for c's last call
    calls,          \* number of calls so far, numbers the requests
    master_lock,    \* holder of the mutex
    request,        \* master.request: number of the PDU it holds, 0 if none
    ucMBAddress,    \* slave address of the current transaction
    ubRspLength,    \* number of values in usRspone
    usRspone,       \* usRspone[0]: number of the request that value answers
    master_state,   \* eMasterType
    pucMBFrame,     \* PDU last copied up from the link layer
    waiters,        \* tasks asleep, or about to be, in send_wait_queue
    xEventInQueue,  \* the event slot is full
    eQueuedEvent,   \* the event in the slot
    scheduled,      \* TASKLET_STATE_SCHED of mb_tasklet
    tasklet,        \* where the tasklet stands in eMBMasterPoll
    eEvent,         \* event being handled by the tasklet
    rcv,            \* results of eMBRTUReceive: address and status
    eRcvState,      \* state of the receiver FSM (frame level)
    ucRTUReBuf,     \* frame in the receive buffer
    t35,            \* the T3.5 interrupt handler: "off" or "posting"
    line            \* replies on their way to the master

callerVars == <<pc, req, ret, got, calls>>
appVars == <<master_lock, request, ucMBAddress, ubRspLength, usRspone>>
slotVars == <<xEventInQueue, eQueuedEvent, scheduled>>
pollVars == <<tasklet, eEvent, rcv>>
linkVars == <<eRcvState, ucRTUReBuf, t35>>
vars == <<callerVars, appVars, master_state, pucMBFrame, waiters, slotVars,
          pollVars, linkVars, line>>

-----------------------------------------------------------------------------
(* Values *)

CallId == 1 .. MaxCalls
Request == [id : 0 .. MaxCalls, addr : Slaves]

\* A reply on the line or in ucRTUReBuf.  "garbage" fails the CRC check.
Reply == [kind : {"data", "exception", "garbage"}, re : 0 .. MaxCalls,
          addr : Slaves]

\* A PDU in pucMBFrame.  "none": zeroed memory, usLength = 0.
Pdu == [kind : {"none", "data", "exception", "garbage"}, re : 0 .. MaxCalls]

SendRet == {"none", "NOERR", "RQINVAL", "RPINVAL", "TIMEOUT"}
MasterState == {"EM_IDLE", "EM_WFR", "EM_PR", "EM_PER"}
Event == {"EV_READY", "EV_FRAME_RECEIVED", "EV_MASTER_SEND_REQUEST"}
CallerPc == {"idle", "lock", "build", "prepare", "post", "posting", "check",
             "sleep", "parse", "out", "receive"}
TaskletPc == {"off", "clear", "poll", "sent", "crc", "copy", "accept", "wake"}

Garbage(f) == [kind |-> "garbage", re |-> 0, addr |-> f.addr]

TypeOK ==
    /\ pc \in [Callers -> CallerPc]
    /\ req \in [Callers -> Request]
    /\ ret \in [Callers -> SendRet]
    /\ got \in [Callers -> [len : Nat, re : 0 .. MaxCalls]]
    /\ calls \in 0 .. MaxCalls
    /\ master_lock \in Callers \cup {NoCaller}
    /\ request \in 0 .. MaxCalls
    /\ ucMBAddress \in Slaves
    /\ ubRspLength \in Nat
    /\ usRspone \in 0 .. MaxCalls
    /\ master_state \in MasterState
    /\ pucMBFrame \in Pdu
    /\ waiters \in SUBSET Callers
    /\ xEventInQueue \in BOOLEAN
    /\ eQueuedEvent \in Event
    /\ scheduled \in BOOLEAN
    /\ tasklet \in TaskletPc
    /\ eEvent \in Event
    /\ rcv \in [addr : Slaves, status : {"MB_ENOERR", "MB_EIO"}]
    /\ eRcvState \in {"INIT", "IDLE", "RCV"}
    /\ ucRTUReBuf \in Reply
    /\ t35 \in {"off", "posting"}
    /\ line \subseteq Reply

\* After probe: eMBRTUStart has armed the T3.5 timer and nothing was received.
Init ==
    /\ pc = [c \in Callers |-> "idle"]
    /\ \E a \in Slaves :
         /\ req = [c \in Callers |-> [id |-> 0, addr |-> a]]
         /\ ucMBAddress = a
         /\ rcv = [addr |-> a, status |-> "MB_ENOERR"]
         /\ ucRTUReBuf = [kind |-> "garbage", re |-> 0, addr |-> a]
    /\ ret = [c \in Callers |-> "none"]
    /\ got = [c \in Callers |-> [len |-> 0, re |-> 0]]
    /\ calls = 0
    /\ master_lock = NoCaller
    /\ request = 0
    /\ ubRspLength = 0
    /\ usRspone = 0
    /\ master_state = "EM_IDLE"
    /\ pucMBFrame = [kind |-> "none", re |-> 0]
    /\ waiters = {}
    /\ xEventInQueue = FALSE
    /\ eQueuedEvent = "EV_READY"
    /\ scheduled = FALSE
    /\ tasklet = "off"
    /\ eEvent = "EV_READY"
    /\ eRcvState = "INIT"
    /\ t35 = "off"
    /\ line = {}

\* No interrupt, tasklet or frame is pending: only a timeout can wake a sleeper.
InterruptsDone == ~scheduled /\ tasklet = "off" /\ t35 = "off"
Quiet == InterruptsDone /\ eRcvState = "IDLE" /\ line = {}

Goto(c, label) == pc' = [pc EXCEPT ![c] = label]

-----------------------------------------------------------------------------
(* A caller in ModbusSend, then in ModbusReceive *)

\* c calls ModbusSend(a, 3, reg, 1, 1000).
Call(c) ==
    /\ pc[c] = "idle"
    /\ calls < MaxCalls
    /\ "early" \in Faults \/ (eRcvState # "INIT" /\ InterruptsDone)
    /\ calls' = calls + 1
    /\ \E a \in Slaves : req' = [req EXCEPT ![c] = [id |-> calls + 1, addr |-> a]]
    /\ ret' = [ret EXCEPT ![c] = "none"]
    /\ Goto(c, "lock")
    /\ UNCHANGED <<got, appVars, master_state, pucMBFrame, waiters, slotVars,
                   pollVars, linkVars, line>>

\* Mutant of Lock: the mutex is not taken.
LockNoMutex(c) ==
    /\ pc[c] = "lock"
    /\ master_lock' = c
    /\ ubRspLength' = 0
    /\ Goto(c, "build")
    /\ UNCHANGED <<req, ret, got, calls, request, ucMBAddress, usRspone,
                   master_state, pucMBFrame, waiters, slotVars, pollVars,
                   linkVars, line>>

\* Mutant of Lock: ubRspLength is not reset.
LockNoReset(c) ==
    /\ pc[c] = "lock"
    /\ master_lock = NoCaller
    /\ master_lock' = c
    /\ Goto(c, "build")
    /\ UNCHANGED <<req, ret, got, calls, request, ucMBAddress, ubRspLength,
                   usRspone, master_state, pucMBFrame, waiters, slotVars,
                   pollVars, linkVars, line>>

\* mutex_lock; ubRspLength = 0.
Lock(c) ==
    /\ pc[c] = "lock"
    /\ master_lock = NoCaller
    /\ master_lock' = c
    /\ ubRspLength' = 0
    /\ Goto(c, "build")
    /\ UNCHANGED <<req, ret, got, calls, request, ucMBAddress, usRspone,
                   master_state, pucMBFrame, waiters, slotVars, pollVars,
                   linkVars, line>>

\* Mutant of Build: the failure path returns without going through out.
BuildReturns(c) ==
    /\ pc[c] = "build"
    /\ \/ /\ request' = req[c].id
          /\ Goto(c, "prepare")
          /\ UNCHANGED ret
       \/ /\ "nomem" \in Faults
          /\ request' = 0
          /\ ret' = [ret EXCEPT ![c] = "RQINVAL"]
          /\ Goto(c, "idle")
    /\ UNCHANGED <<req, got, calls, master_lock, ucMBAddress, ubRspLength,
                   usRspone, master_state, pucMBFrame, waiters, slotVars,
                   pollVars, linkVars, line>>

\* buildreq.  A failing krealloc frees the old PDU and leaves none.
Build(c) ==
    /\ pc[c] = "build"
    /\ \/ /\ request' = req[c].id
          /\ Goto(c, "prepare")
          /\ UNCHANGED ret
       \/ /\ "nomem" \in Faults
          /\ request' = 0
          /\ ret' = [ret EXCEPT ![c] = "RQINVAL"]
          /\ Goto(c, "out")
    /\ UNCHANGED <<req, got, calls, master_lock, ucMBAddress, ubRspLength,
                   usRspone, master_state, pucMBFrame, waiters, slotVars,
                   pollVars, linkVars, line>>

\* ucMBAddress = Address; prepare_to_wait.
Prepare(c) ==
    /\ pc[c] = "prepare"
    /\ ucMBAddress' = req[c].addr
    /\ waiters' = waiters \cup {c}
    /\ Goto(c, "post")
    /\ UNCHANGED <<req, ret, got, calls, master_lock, request, ubRspLength,
                   usRspone, master_state, pucMBFrame, slotVars, pollVars,
                   linkVars, line>>

\* xMBPortEventPost(EV_MASTER_SEND_REQUEST): first the flag ...
PostFlag(c) ==
    /\ pc[c] = "post"
    /\ xEventInQueue' = TRUE
    /\ Goto(c, "posting")
    /\ UNCHANGED <<req, ret, got, calls, appVars, master_state, pucMBFrame,
                   waiters, eQueuedEvent, scheduled, pollVars, linkVars, line>>

\* ... then the event, over whatever the slot held, and tasklet_schedule.
PostEvent(c) ==
    /\ pc[c] = "posting"
    /\ eQueuedEvent' = "EV_MASTER_SEND_REQUEST"
    /\ scheduled' = TRUE
    /\ Goto(c, "check")
    /\ UNCHANGED <<req, ret, got, calls, appVars, master_state, pucMBFrame,
                   waiters, xEventInQueue, pollVars, linkVars, line>>

\* Sleep unless the reply has been processed already.
Check(c) ==
    /\ pc[c] = "check"
    /\ IF master_state \in {"EM_PR", "EM_PER"}
       THEN Goto(c, "parse") /\ waiters' = waiters \ {c}
       ELSE Goto(c, "sleep") /\ UNCHANGED waiters
    /\ UNCHANGED <<req, ret, got, calls, appVars, master_state, pucMBFrame,
                   slotVars, pollVars, linkVars, line>>

\* schedule_timeout returns with time left: the task was woken, or has a signal.
Wake(c) ==
    /\ pc[c] = "sleep"
    /\ c \notin waiters \/ "signal" \in Faults
    /\ waiters' = waiters \ {c}
    /\ Goto(c, "parse")
    /\ UNCHANGED <<req, ret, got, calls, appVars, master_state, pucMBFrame,
                   slotVars, pollVars, linkVars, line>>

\* schedule_timeout returns 0.
Timeout(c) ==
    /\ pc[c] = "sleep"
    /\ "late" \in Faults \/ (Quiet /\ c \in waiters)
    /\ waiters' = waiters \ {c}
    /\ ret' = [ret EXCEPT ![c] = "TIMEOUT"]
    /\ Goto(c, "out")
    /\ UNCHANGED <<req, got, calls, appVars, master_state, pucMBFrame,
                   slotVars, pollVars, linkVars, line>>

\* What modbusParseResponsePDU makes of PDU p for a one-register request: the
\* return value, and how many values dataCallback stores.  Neither the address
\* nor the register is compared, and an exception frame is no error.
ParseResult(p) ==
    LET Invalid == [ret |-> "RPINVAL", values |-> 0]
        Empty   == [ret |-> "NOERR",   values |-> 0]
        Value   == [ret |-> "NOERR",   values |-> 1]
    IN  CASE p.kind = "none"      -> {Invalid}
          [] p.kind = "data"      -> {Value}
          [] p.kind = "exception" -> {Empty}
          [] p.kind = "garbage"   -> {Invalid, Empty, Value}

\* modbusParseResponsePDU on whatever pucMBFrame holds now, with dataCallback.
Parse(c) ==
    /\ pc[c] = "parse"
    /\ \E r \in ParseResult(pucMBFrame) :
         /\ ret' = [ret EXCEPT ![c] = r.ret]
         /\ usRspone' = IF r.values = 0 THEN usRspone ELSE pucMBFrame.re
         /\ ubRspLength' = ubRspLength + r.values
    /\ Goto(c, "out")
    /\ UNCHANGED <<req, got, calls, master_lock, request, ucMBAddress,
                   master_state, pucMBFrame, waiters, slotVars, pollVars,
                   linkVars, line>>

\* Mutant of Out: the state of the finished transaction stays behind.
OutKeepsState(c) ==
    /\ pc[c] = "out"
    /\ master_lock' = NoCaller
    /\ Goto(c, IF ret[c] = "NOERR" THEN "receive" ELSE "idle")
    /\ UNCHANGED <<req, ret, got, calls, request, ucMBAddress, ubRspLength,
                   usRspone, master_state, pucMBFrame, waiters, slotVars,
                   pollVars, linkVars, line>>

\* out: master_state = EM_IDLE; mutex_unlock.  A caller whose call succeeded
\* goes on to ModbusReceive, any other returns.
Out(c) ==
    /\ pc[c] = "out"
    /\ master_state' = "EM_IDLE"
    /\ master_lock' = NoCaller
    /\ Goto(c, IF ret[c] = "NOERR" THEN "receive" ELSE "idle")
    /\ UNCHANGED <<req, ret, got, calls, request, ucMBAddress, ubRspLength,
                   usRspone, pucMBFrame, waiters, slotVars, pollVars,
                   linkVars, line>>

\* ModbusReceive: copies ubRspLength values out of usRspone, without the lock.
ModbusReceive(c) ==
    /\ pc[c] = "receive"
    /\ got' = [got EXCEPT ![c] = [len |-> ubRspLength,
                                  re |-> IF ubRspLength = 0 THEN 0 ELSE usRspone]]
    /\ Goto(c, "idle")
    /\ UNCHANGED <<req, ret, calls, appVars, master_state, pucMBFrame, waiters,
                   slotVars, pollVars, linkVars, line>>

-----------------------------------------------------------------------------
(* The serdev worker and the T3.5 timer interrupt *)

\* A frame arrives.  In INIT it is drained and dropped and the timer restarts;
\* behind a frame not yet taken by the timer it is appended, which no CRC fits.
ReceiveFrame(f) ==
    /\ f \in line
    /\ "slow" \in Faults \/ InterruptsDone
    /\ "preempt" \in Faults \/ \A c \in Callers : pc[c] \notin {"posting", "check"}
    /\ line' = line \ {f}
    /\ CASE eRcvState = "INIT" -> UNCHANGED <<eRcvState, ucRTUReBuf>>
         [] eRcvState = "IDLE" -> /\ ucRTUReBuf' = f
                                  /\ eRcvState' = "RCV"
         [] eRcvState = "RCV"  -> /\ ucRTUReBuf' = Garbage(f)
                                  /\ UNCHANGED eRcvState
    /\ UNCHANGED <<callerVars, appVars, master_state, pucMBFrame, waiters,
                   slotVars, pollVars, t35>>

\* T3.5 expires: xMBPortEventPost sets the flag first ...
T35PostFlag ==
    /\ t35 = "off"
    /\ eRcvState \in {"INIT", "RCV"}
    /\ xEventInQueue' = TRUE
    /\ t35' = "posting"
    /\ UNCHANGED <<callerVars, appVars, master_state, pucMBFrame, waiters,
                   eQueuedEvent, scheduled, pollVars, eRcvState, ucRTUReBuf,
                   line>>

\* ... then the event; the receiver goes back to IDLE.
T35PostEvent ==
    /\ t35 = "posting"
    /\ eQueuedEvent' = IF eRcvState = "INIT" THEN "EV_READY"
                                             ELSE "EV_FRAME_RECEIVED"
    /\ scheduled' = TRUE
    /\ eRcvState' = "IDLE"
    /\ t35' = "off"
    /\ UNCHANGED <<callerVars, appVars, master_state, pucMBFrame, waiters,
                   xEventInQueue, pollVars, ucRTUReBuf, line>>

-----------------------------------------------------------------------------
(* The tasklet in eMBMasterPoll; it never runs on two CPUs at once *)

\* The tasklet starts; xMBPortEventGet copies the event if the slot is full ...
TaskletGet ==
    /\ scheduled
    /\ tasklet = "off"
    /\ scheduled' = FALSE
    /\ IF xEventInQueue
       THEN eEvent' = eQueuedEvent /\ tasklet' = "clear"
       ELSE UNCHANGED <<eEvent, tasklet>>
    /\ UNCHANGED <<callerVars, appVars, master_state, pucMBFrame, waiters,
                   xEventInQueue, eQueuedEvent, rcv, linkVars, line>>

\* ... and then clears the flag.
TaskletClear ==
    /\ tasklet = "clear"
    /\ xEventInQueue' = FALSE
    /\ tasklet' = "poll"
    /\ UNCHANGED <<callerVars, appVars, master_state, pucMBFrame, waiters,
                   eQueuedEvent, scheduled, eEvent, rcv, linkVars, line>>

\* EV_READY: nothing to do.
PollReady ==
    /\ tasklet = "poll"
    /\ eEvent = "EV_READY"
    /\ tasklet' = "off"
    /\ UNCHANGED <<callerVars, appVars, master_state, pucMBFrame, waiters,
                   slotVars, eEvent, rcv, linkVars, line>>

\* What may come back for request n at address a.
Replies(n, a) ==
    LET answer == [kind |-> "data", re |-> n, addr |-> a]
    IN  IF n = 0 THEN {{}}
        ELSE {{answer}}
             \cup (IF "lost" \in Faults THEN {{}} ELSE {})
             \cup (IF "corrupt" \in Faults THEN {{Garbage(answer)}} ELSE {})
             \cup (IF "exception" \in Faults
                   THEN {{[answer EXCEPT !.kind = "exception"]}} ELSE {})
             \cup (IF "foreign" \in Faults
                   THEN {{[answer EXCEPT !.addr = b]} : b \in Slaves \ {a}}
                   ELSE {})

\* EV_MASTER_SEND_REQUEST: eMBRTUSend puts the request on the bus if IDLE ...
PollSend ==
    /\ tasklet = "poll"
    /\ eEvent = "EV_MASTER_SEND_REQUEST"
    /\ IF master_state = "EM_IDLE"
       THEN /\ \E fs \in Replies(request, ucMBAddress) : line' = line \cup fs
            /\ tasklet' = "sent"
       ELSE tasklet' = "off" /\ UNCHANGED line
    /\ UNCHANGED <<callerVars, appVars, master_state, pucMBFrame, waiters,
                   slotVars, eEvent, rcv, linkVars>>

\* Mutant of PollSent: the master does not start to wait for the reply.
PollSentNoState ==
    /\ tasklet = "sent"
    /\ tasklet' = "off"
    /\ UNCHANGED <<callerVars, appVars, master_state, pucMBFrame, waiters,
                   slotVars, eEvent, rcv, linkVars, line>>

\* ... and then the master waits for the reply.
PollSent ==
    /\ tasklet = "sent"
    /\ master_state' = "EM_WFR"
    /\ tasklet' = "off"
    /\ UNCHANGED <<callerVars, appVars, pucMBFrame, waiters, slotVars, eEvent,
                   rcv, linkVars, line>>

\* EV_FRAME_RECEIVED: the frame is looked at only when a reply is awaited.
PollFrame ==
    /\ tasklet = "poll"
    /\ eEvent = "EV_FRAME_RECEIVED"
    /\ tasklet' = IF master_state = "EM_WFR" THEN "crc" ELSE "wake"
    /\ UNCHANGED <<callerVars, appVars, master_state, pucMBFrame, waiters,
                   slotVars, eEvent, rcv, linkVars, line>>

\* eMBRTUReceive checks the CRC.  When it fails, ucRcvAddress is never written:
\* the caller compares an uninitialised variable, here any address.
CheckCrc ==
    /\ tasklet = "crc"
    /\ IF ucRTUReBuf.kind # "garbage"
       THEN /\ rcv' = [addr |-> ucRTUReBuf.addr, status |-> "MB_ENOERR"]
            /\ tasklet' = "copy"
       ELSE /\ \E a \in Slaves : rcv' = [addr |-> a, status |-> "MB_EIO"]
            /\ tasklet' = "accept"
    /\ UNCHANGED <<callerVars, appVars, master_state, pucMBFrame, waiters,
                   slotVars, eEvent, linkVars, line>>

\* eMBRTUReceive copies the PDU, before anyone compares the address.
CopyFrame ==
    /\ tasklet = "copy"
    /\ pucMBFrame' = [kind |-> ucRTUReBuf.kind, re |-> ucRTUReBuf.re]
    /\ tasklet' = "accept"
    /\ UNCHANGED <<callerVars, appVars, master_state, waiters, slotVars,
                   eEvent, rcv, linkVars, line>>

\* The master state after eMBRTUReceive.
AfterReceive ==
    IF rcv.addr # ucMBAddress THEN "EM_PER"
    ELSE IF rcv.status = "MB_ENOERR" THEN "EM_PR" ELSE master_state

\* Mutant of AcceptFrame: only a good reply wakes the caller.
AcceptFrameWakesOnPr ==
    /\ tasklet = "accept"
    /\ master_state' = AfterReceive
    /\ tasklet' = IF master_state' = "EM_PR" THEN "wake" ELSE "off"
    /\ UNCHANGED <<callerVars, appVars, pucMBFrame, waiters, slotVars, eEvent,
                   rcv, linkVars, line>>

AcceptFrame ==
    /\ tasklet = "accept"
    /\ master_state' = AfterReceive
    /\ tasklet' = "wake"
    /\ UNCHANGED <<callerVars, appVars, pucMBFrame, waiters, slotVars, eEvent,
                   rcv, linkVars, line>>

\* wake_up_interruptible, after every EV_FRAME_RECEIVED.
WakeUp ==
    /\ tasklet = "wake"
    /\ waiters' = {}
    /\ tasklet' = "off"
    /\ UNCHANGED <<callerVars, appVars, master_state, pucMBFrame, slotVars,
                   eEvent, rcv, linkVars, line>>

-----------------------------------------------------------------------------
CallerStep(c) ==
    \/ Lock(c) \/ Build(c) \/ Prepare(c) \/ PostFlag(c) \/ PostEvent(c)
    \/ Check(c) \/ Wake(c) \/ Timeout(c) \/ Parse(c) \/ Out(c)
    \/ ModbusReceive(c)

Timer == T35PostFlag \/ T35PostEvent

Tasklet == TaskletGet \/ TaskletClear \/ PollReady \/ PollSend \/ PollSent
           \/ PollFrame \/ CheckCrc \/ CopyFrame \/ AcceptFrame \/ WakeUp

Worker == \E f \in line : ReceiveFrame(f)

Next ==
    \/ \E c \in Callers : Call(c) \/ CallerStep(c)
    \/ Timer
    \/ Tasklet
    \/ Worker

Spec == Init /\ [][Next]_vars

(***************************************************************************)
(* Fairness: the kernel keeps running a runnable process, an expired timer *)
(* and a scheduled tasklet; bytes on the line arrive; a mutex is handed to *)
(* its waiters in turn, so no caller waits for it for ever.  Nothing makes *)
(* a process call ModbusSend.                                              *)
(***************************************************************************)
Fairness ==
    /\ \A c \in Callers : WF_vars(CallerStep(c)) /\ SF_vars(Lock(c))
    /\ WF_vars(Timer)
    /\ WF_vars(Tasklet)
    /\ WF_vars(Worker)

FairSpec == Spec /\ Fairness

-----------------------------------------------------------------------------
(* Safety, whatever the environment does *)

\* Where a caller holds master_lock, and where its transaction is under way.
Critical == {"build", "prepare", "post", "posting", "check", "sleep", "parse",
             "out"}
Pending == {"post", "posting", "check", "sleep", "parse"}

\* While a caller's transaction is under way, from prepare_to_wait to the
\* parsing of the reply, the PDU in master.request and the address in
\* ucMBAddress, which the tasklet and the parser read without the lock, are
\* those of that caller (modbus.c:322-356).
HolderOwnsRequest ==
    \A c \in Callers :
      /\ pc[c] \in Critical => master_lock = c
      /\ pc[c] \in Pending => request = req[c].id /\ ucMBAddress = req[c].addr

\* A caller asleep in the wait queue while its reply has been processed is
\* about to be woken: preparing to wait before posting the event, and testing
\* the state after it, loses no wake-up (modbus.c:125-143).
NoLostWakeup ==
    \A c \in Callers :
      pc[c] = "sleep" /\ c \in waiters /\ master_state \in {"EM_PR", "EM_PER"}
        => tasklet = "wake"

\* usRspone is never overrun by the values of several transactions, and a call
\* that fails leaves no value for ModbusReceive to hand out (modbus.c:323, 96).
FailurePublishesNothing ==
    /\ ubRspLength <= 1
    /\ \A c \in Callers :
         pc[c] = "out" /\ ret[c] # "NOERR" => ubRspLength = 0

(* Safety with a tasklet and a timeout that keep up with the line *)

\* A value in usRspone when a call succeeds answers that call's request, not
\* an earlier one's (modbus.c:351-368).
RightAnswer ==
    \A c \in Callers :
      pc[c] = "out" /\ ret[c] = "NOERR" /\ ubRspLength > 0
        => usRspone = req[c].id

\* The value a caller takes from ModbusReceive after a successful call answers
\* its own request (modbus.c:379-384; USERGUIDE.txt:53-55).
ReceivesOwnAnswer ==
    \A c \in Callers :
      pc[c] = "idle" /\ ret[c] = "NOERR" => got[c] = [len |-> 1, re |-> req[c].id]

\* The master implements turn-taking on a serial bus (SerialBus): the response
\* buffer changes only in a caller's turn, to the answer to its question.
Bus == INSTANCE SerialBus
         WITH Questions <- CallId,
              NoAnswer <- 0,
              Failure <- {"RQINVAL", "RPINVAL", "TIMEOUT"},
              turn <- master_lock,
              asked <- [c \in Callers |-> req[c].id],
              answer <- IF ubRspLength = 0 THEN 0 ELSE usRspone,
              outcome <- ret
ImplementsSerialBus == Bus!Spec

(* Liveness *)

\* Every call of ModbusSend returns, whatever is lost, refused or not sent at
\* all (modbus.c:118-149, 318-376).
CallsReturn == \A c \in Callers : pc[c] = "lock" ~> pc[c] = "idle"

\* A reply that reaches an idle receiver in time makes the call succeed that it
\* answers: no event of it is overwritten in the one-slot queue, and no wake-up
\* goes astray (port_event.c:49-74; modbus.c:222-251).
AnsweredCallsSucceed ==
    \A c \in Callers, n \in CallId :
      (/\ pc[c] = "sleep" /\ req[c].id = n
       /\ eRcvState = "IDLE" /\ \E f \in line : f.re = n)
      ~> (pc[c] = "out" /\ req[c].id = n /\ ret[c] = "NOERR")

(* What the documentation and comments say and the code does not do *)

\* USERGUIDE.txt:304-306: a reply with an invalid CRC or another slave's
\* address is an error (EPROTO).  eMBRTUReceive's failure and the address test
\* only select a state that ModbusSend does not look at again.
BadReplyIsError ==
    \A c \in Callers :
      pc[c] = "out" /\ ret[c] = "NOERR" => rcv.status = "MB_ENOERR" /\ rcv.addr = ucMBAddress

\* modbus.c:223: "Only accept frames when waiting for a reply".
AcceptOnlyWhenWaiting ==
    [][master_state' \in {"EM_PR", "EM_PER"} /\ master_state' # master_state
         => master_state = "EM_WFR"]_vars

=============================================================================
