---------------------------- MODULE RtuReceiver -----------------------------
(***************************************************************************)
(* The receiving half of the RTU link layer, a character at a time:        *)
(* modbus_controller_recv and modbus_controller_read, the receiver FSM     *)
(* xMBRTUReceiveFSM and the T3.5 timer with xMBRTUTimerT35Expired.         *)
(*                                                                         *)
(* Time is discrete: one tick is the time of one character on the line.    *)
(* The UART (not part of the repository) collects characters and hands     *)
(* them to the serdev worker as one chunk when Trigger characters are      *)
(* waiting, or when the line has been idle for RxTimeout ticks.            *)
(*                                                                         *)
(* A character is a pair <<frame number, index>>, so that the buffer tells *)
(* which characters of which frames it holds.                              *)
(***************************************************************************)
EXTENDS Naturals, Sequences

CONSTANTS
    Cap,        \* 256: MB_SER_PDU_SIZE_MAX, MAX_LENGTH_BUFF, and 2^8 for the
                \* uint8_t length of receive_buff
    T35,        \* active_interval of the hrtimer, in ticks
    Trigger,    \* fill level at which the UART hands over its characters
    RxTimeout,  \* ticks of idle line after which it hands over what it has
    Gap,        \* least idle time between two frames, in ticks
    FrameLens,  \* lengths of the frames on the line
    MaxFrames,  \* bound on the number of frames
    Kernels     \* how the kernel may treat the worker and the interrupt

ASSUME CapAssumption == Cap \in Nat \ {0}
ASSUME TimingAssumption == T35 \in Nat \ {0} /\ Trigger \in Nat \ {0}
                           /\ RxTimeout \in Nat \ {0} /\ Gap \in Nat
ASSUME FramesAssumption == FrameLens \subseteq Nat \ {0} /\ MaxFrames \in Nat
ASSUME KernelsAssumption == Kernels \subseteq {"prompt", "preempting"}

VARIABLES
    kernel,     \* "prompt": the worker and the timer interrupt run at once and
                \* never at the same time, and the line is silent at startup;
                \* "preempting": they may be delayed and may overlap
    frames,     \* number of frames begun on the line
    left,       \* characters of the current frame still to come
    idle,       \* ticks since the last character, at most Gap + RxTimeout
    fifo,       \* characters in the UART
    worker,     \* where the serdev worker stands
    chunk,      \* ucRTUTmpBuf[0 .. usRTUReceiveCount)
    eRcvState,  \* eMBRcvState
    buf,        \* ucRTUReBuf[0 .. usRcvBufferPos)
    timer,      \* ticks until the hrtimer expires, 0 if it is not running
    t35,        \* the expiry handler: "off", "fire" or "posted"
    delivered   \* the buffer at each EV_FRAME_RECEIVED

lineVars == <<kernel, frames, left, idle, fifo>>
vars == <<lineVars, worker, chunk, eRcvState, buf, timer, t35, delivered>>

Char == Nat \X Nat
RcvState == {"INIT", "IDLE", "RCV", "ERROR"}
WorkerPc == {"off", "fsm", "first", "arm", "more", "error"}

Orderly == kernel = "prompt"

TypeOK ==
    /\ kernel \in Kernels
    /\ frames \in Nat /\ left \in Nat /\ idle \in Nat
    /\ fifo \in Seq(Char)
    /\ worker \in WorkerPc
    /\ chunk \in Seq(Char)
    /\ eRcvState \in RcvState
    /\ buf \in Seq(Char)
    /\ timer \in 0 .. T35
    /\ t35 \in {"off", "fire", "posted"}
    /\ delivered \in Seq(Seq(Char))

\* eMBRTUStart: the timer runs and the receiver waits for a silent line.
Init ==
    /\ kernel \in Kernels
    /\ frames = 0
    /\ left = 0
    /\ idle \in (IF Orderly THEN {0} ELSE {0, Gap})
    /\ fifo = <<>>
    /\ worker = "off"
    /\ chunk = <<>>
    /\ eRcvState = "INIT"
    /\ buf = <<>>
    /\ timer = T35
    /\ t35 = "off"
    /\ delivered = <<>>

usRcvBufferPos == Len(buf)

-----------------------------------------------------------------------------
(* The line and the UART *)

Due == Len(fifo) >= Trigger \/ (fifo # <<>> /\ idle >= RxTimeout)

\* A tick of the clock: a running timer counts down and fires at 0.
Clock ==
    /\ t35 = "off"
    /\ Orderly => worker = "off" /\ ~Due
    /\ timer' = IF timer = 0 THEN 0 ELSE timer - 1
    /\ t35' = IF timer = 1 THEN "fire" ELSE "off"

\* The next character of a frame arrives, the first of a new one after a gap.
CharArrives ==
    /\ Clock
    /\ \/ /\ left > 0
          /\ left' = left - 1
          /\ UNCHANGED frames
       \/ /\ left = 0
          /\ idle >= Gap
          /\ frames < MaxFrames
          /\ frames' = frames + 1
          /\ \E n \in FrameLens : left' = n - 1
    /\ fifo' = Append(fifo, <<frames', left'>>)
    /\ idle' = 0
    /\ UNCHANGED <<kernel, worker, chunk, eRcvState, buf, delivered>>

Silence ==
    /\ Clock
    /\ left = 0
    /\ idle' = IF idle < Gap + RxTimeout THEN idle + 1 ELSE idle
    /\ UNCHANGED <<kernel, frames, left, fifo, worker, chunk, eRcvState, buf,
                   delivered>>

-----------------------------------------------------------------------------
(* The serdev worker *)

\* What modbus_controller_read returns after modbus_controller_recv stored the
\* characters s: length is a uint8_t, so the test length < 256 never fails, the
\* index wraps, and only the characters after the last wrap are left.
Stored(s) == SubSeq(s, Len(s) - (Len(s) % Cap) + 1, Len(s))

\* The UART hands over its characters: modbus_controller_recv calls the FSM,
\* which first drains receive_buff.
Recv ==
    /\ worker = "off"
    /\ Due
    /\ Orderly => t35 = "off"
    /\ chunk' = Stored(fifo)
    /\ fifo' = <<>>
    /\ worker' = "fsm"
    /\ UNCHANGED <<kernel, frames, left, idle, eRcvState, buf, timer, t35,
                   delivered>>

\* STATE_RX_INIT, STATE_RX_ERROR: the characters are dropped, the timer starts
\* again.
FsmRestart ==
    /\ worker = "fsm"
    /\ eRcvState \in {"INIT", "ERROR"}
    /\ timer' = T35
    /\ worker' = "off"
    /\ UNCHANGED <<lineVars, chunk, eRcvState, buf, t35, delivered>>

\* Mutant of FsmFirst: usRcvBufferPos is not reset.
FsmFirstAppends ==
    /\ worker = "fsm"
    /\ eRcvState = "IDLE"
    /\ buf' = buf \o chunk
    /\ worker' = "first"
    /\ UNCHANGED <<lineVars, chunk, eRcvState, timer, t35, delivered>>

\* STATE_RX_IDLE: a new frame begins ...
FsmFirst ==
    /\ worker = "fsm"
    /\ eRcvState = "IDLE"
    /\ buf' = chunk
    /\ worker' = "first"
    /\ UNCHANGED <<lineVars, chunk, eRcvState, timer, t35, delivered>>

EnterRcv ==
    /\ worker = "first"
    /\ eRcvState' = "RCV"
    /\ worker' = "arm"
    /\ UNCHANGED <<lineVars, chunk, buf, timer, t35, delivered>>

\* ... and the timer starts.
StartTimer ==
    /\ worker = "arm"
    /\ timer' = T35
    /\ worker' = "off"
    /\ UNCHANGED <<lineVars, chunk, eRcvState, buf, t35, delivered>>

\* Mutant of FsmMore: the buffer may become full.
FsmMoreFull ==
    /\ worker = "fsm"
    /\ eRcvState = "RCV"
    /\ IF usRcvBufferPos + Len(chunk) <= Cap
       THEN buf' = buf \o chunk /\ worker' = "more"
       ELSE worker' = "error" /\ UNCHANGED buf
    /\ UNCHANGED <<lineVars, chunk, eRcvState, timer, t35, delivered>>

\* STATE_RX_RCV: the characters are appended if they fit.
FsmMore ==
    /\ worker = "fsm"
    /\ eRcvState = "RCV"
    /\ IF usRcvBufferPos + Len(chunk) < Cap
       THEN buf' = buf \o chunk /\ worker' = "more"
       ELSE worker' = "error" /\ UNCHANGED buf
    /\ UNCHANGED <<lineVars, chunk, eRcvState, timer, t35, delivered>>

\* Neither branch of STATE_RX_RCV starts the timer.
EndMore ==
    /\ worker \in {"more", "error"}
    /\ eRcvState' = IF worker = "more" THEN "RCV" ELSE "ERROR"
    /\ worker' = "off"
    /\ UNCHANGED <<lineVars, chunk, buf, timer, t35, delivered>>

-----------------------------------------------------------------------------
(* The T3.5 interrupt: xMBRTUTimerT35Expired *)

\* Posts EV_FRAME_RECEIVED in RCV (EV_READY in INIT, nothing otherwise) ...
Expire ==
    /\ t35 = "fire"
    /\ Orderly => worker = "off"
    /\ delivered' = IF eRcvState = "RCV" THEN Append(delivered, buf)
                                         ELSE delivered
    /\ t35' = "posted"
    /\ UNCHANGED <<lineVars, worker, chunk, eRcvState, buf, timer>>

\* Mutant of EnterIdle: the state is left as it was.
EnterIdleNot ==
    /\ t35 = "posted"
    /\ t35' = "off"
    /\ UNCHANGED <<lineVars, worker, chunk, eRcvState, buf, timer, delivered>>

\* ... and always ends in IDLE.
EnterIdle ==
    /\ t35 = "posted"
    /\ eRcvState' = "IDLE"
    /\ t35' = "off"
    /\ UNCHANGED <<lineVars, worker, chunk, buf, timer, delivered>>

-----------------------------------------------------------------------------
Worker == Recv \/ FsmRestart \/ FsmFirst \/ EnterRcv \/ StartTimer
          \/ FsmMore \/ EndMore

Interrupt == Expire \/ EnterIdle

Next == CharArrives \/ Silence \/ Worker \/ Interrupt

Spec == Init /\ [][Next]_vars

\* Time passes, the kernel runs its workers and interrupts, and a frame that
\* has begun goes on.
FairSpec == /\ Spec
            /\ WF_vars(CharArrives \/ Silence)
            /\ WF_vars(Worker)
            /\ WF_vars(Interrupt)

-----------------------------------------------------------------------------
(* Properties *)

\* The characters of frame f in buffer b, if b is exactly that frame.
IsWholeFrame(b) ==
    /\ b # <<>>
    /\ \A i \in 1 .. Len(b) : b[i] = <<b[1][1], Len(b) - i>>

\* The receive buffer is never overrun: the position stays below 256 at every
\* interleaving of worker and interrupt (mbrtu.c:238-267).
BufferBound == usRcvBufferPos < Cap /\ Len(chunk) < Cap

\* What an orderly kernel tells the master to look at is one frame, whole and
\* alone (mbrtu.c:291-295).
OnlyWholeFrames ==
    Orderly => \A i \in 1 .. Len(delivered) : IsWholeFrame(delivered[i])

\* In STATE_RX_RCV the timer that ends the frame is running or has fired:
\* without it the receiver would wait for ever (mbrtu.c:234-247).
RcvIsTimed ==
    Orderly /\ eRcvState = "RCV" /\ worker = "off" => timer > 0 \/ t35 # "off"

\* Every frame that begins on the line is reported to the master.
EveryFrameReported ==
    \A n \in 1 .. MaxFrames : Orderly /\ frames = n ~> Len(delivered) = n

=============================================================================
