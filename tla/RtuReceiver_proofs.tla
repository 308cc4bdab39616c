------------------------- MODULE RtuReceiver_proofs -------------------------
(***************************************************************************)
(* Proofs about RtuReceiver, for every size, timing and length of frames;  *)
(* that it reports whole frames only, for those that the timing fits.      *)
(***************************************************************************)
EXTENDS RtuReceiver, SequenceTheorems, TLAPS

(***************************************************************************)
(* What survives in receive_buff after characters s went through the       *)
(* wrapping 8-bit index (modbuscontroller.c:126-138) are characters of s,  *)
(* and fewer than Cap of them.                                             *)
(***************************************************************************)
LEMMA StoredLemma ==
    ASSUME NEW s \in Seq(Char)
    PROVE  Stored(s) \in Seq(Char) /\ Len(Stored(s)) < Cap
<1> DEFINE n == Len(s)
           r == n % Cap
<1>1. Cap \in Nat /\ Cap > 0
  BY CapAssumption
<1>2. n \in Nat
  OBVIOUS
<1>3. r \in Nat /\ r < Cap /\ r <= n
  BY <1>1, <1>2
<1>4. Stored(s) = SubSeq(s, n - r + 1, n)
  BY DEF Stored
<1> HIDE DEF n, r
<1>5. n - r + 1 \in 1 .. n + 1
  BY <1>2, <1>3
<1>6. SubSeq(s, n - r + 1, n) \in Seq(Char)
  BY <1>2, <1>5 DEF n
<1>7. Len(SubSeq(s, n - r + 1, n)) = r
  BY <1>2, <1>3, <1>5 DEF n
<1>8. QED
  BY <1>3, <1>4, <1>6, <1>7

\* The receiver's state stays well typed (mbrtu.c:51-75).
THEOREM TypeCorrect == Spec => []TypeOK
<1>1. Init => TypeOK
  BY TimingAssumption DEF Init, TypeOK, RcvState, WorkerPc
<1>2. TypeOK /\ [Next]_vars => TypeOK'
  <2> SUFFICES ASSUME TypeOK, [Next]_vars
               PROVE  TypeOK'
    OBVIOUS
  <2> USE DEF TypeOK, RcvState, WorkerPc, lineVars
  <2>1. CASE CharArrives
    <3>1. timer' \in 0 .. T35 /\ t35' \in {"off", "fire", "posted"}
      BY <2>1, TimingAssumption DEF CharArrives, Clock
    <3>2. frames' \in Nat /\ left' \in Nat
      BY <2>1, FramesAssumption DEF CharArrives
    <3>3. fifo' \in Seq(Char)
      BY <2>1, <3>2 DEF CharArrives, Char
    <3>4. QED
      BY <2>1, <3>1, <3>2, <3>3 DEF CharArrives
  <2>2. CASE Silence
    BY <2>2, TimingAssumption DEF Silence, Clock
  <2>3. CASE Recv
    BY <2>3, StoredLemma DEF Recv
  <2>4. CASE FsmRestart
    BY <2>4, TimingAssumption DEF FsmRestart
  <2>5. CASE FsmFirst
    BY <2>5 DEF FsmFirst
  <2>6. CASE EnterRcv
    BY <2>6 DEF EnterRcv
  <2>7. CASE StartTimer
    BY <2>7, TimingAssumption DEF StartTimer
  <2>8. CASE FsmMore
    <3>1. buf \o chunk \in Seq(Char)
      OBVIOUS
    <3>2. buf' \in Seq(Char) /\ worker' \in WorkerPc
      BY <2>8, <3>1 DEF FsmMore
    <3>3. QED
      BY <2>8, <3>2 DEF FsmMore
  <2>9. CASE EndMore
    BY <2>9 DEF EndMore
  <2>10. CASE Expire
    BY <2>10 DEF Expire
  <2>11. CASE EnterIdle
    BY <2>11 DEF EnterIdle
  <2>12. CASE UNCHANGED vars
    BY <2>12 DEF vars
  <2>13. QED
    BY <2>1, <2>2, <2>3, <2>4, <2>5, <2>6, <2>7, <2>8, <2>9, <2>10, <2>11,
       <2>12 DEF Next, Worker, Interrupt
<1>3. QED
  BY <1>1, <1>2, PTL DEF Spec

\* No interleaving of the worker and the timer interrupt moves the write
\* position past the 256 bytes of the buffer, although the interrupt changes
\* eRcvState in the middle of the worker's step (mbrtu.c:238-267).
THEOREM ReceiverNeverOverruns == Spec => []BufferBound
<1>1. Init => BufferBound
  BY CapAssumption DEF Init, BufferBound, usRcvBufferPos
<1>2. TypeOK /\ BufferBound /\ [Next]_vars => BufferBound'
  <2> SUFFICES ASSUME TypeOK, BufferBound, [Next]_vars
               PROVE  BufferBound'
    OBVIOUS
  <2> USE DEF BufferBound, usRcvBufferPos
  <2>1. CASE Recv
    <3>1. fifo \in Seq(Char)
      BY DEF TypeOK
    <3>2. Len(Stored(fifo)) < Cap
      BY <3>1, StoredLemma
    <3>3. QED
      BY <2>1, <3>2 DEF Recv
  <2>2. CASE FsmFirst
    BY <2>2 DEF FsmFirst
  <2>3. CASE FsmMore
    <3>1. Len(buf \o chunk) = Len(buf) + Len(chunk)
      BY DEF TypeOK
    <3>2. QED
      BY <2>3, <3>1 DEF FsmMore
  <2>4. CASE UNCHANGED <<buf, chunk>>
    BY <2>4
  <2>5. QED
    BY <2>1, <2>2, <2>3, <2>4
    DEF Next, Worker, Interrupt, CharArrives, Silence, FsmRestart, EnterRcv,
        StartTimer, EndMore, Expire, EnterIdle, vars
<1>3. QED
  BY <1>1, <1>2, TypeCorrect, PTL DEF Spec

(***************************************************************************)
(* When worker and interrupt do not overlap, a receiver in STATE_RX_RCV    *)
(* always has its timer running or expired.  The property alone is not     *)
(* inductive: in the middle of the worker's step it holds because the      *)
(* interrupt cannot be active then, and because the worker appends only    *)
(* to a frame whose timer is running.                                      *)
(***************************************************************************)
TimedInv ==
    Orderly =>
      /\ worker # "off" => t35 = "off"
      /\ worker = "more" => timer > 0
      /\ eRcvState = "RCV" /\ worker \in {"off", "fsm"}
           => timer > 0 \/ t35 # "off"

\* A frame that has begun is ended by the timer (mbrtu.c:234-268).
THEOREM OrderlyReceiverIsTimed == Spec => []RcvIsTimed
<1>1. Init => TimedInv
  BY DEF Init, TimedInv
<1>2. TypeOK /\ TimedInv /\ [Next]_vars => TimedInv'
  <2> SUFFICES ASSUME TypeOK, TimedInv, [Next]_vars, Orderly'
               PROVE  /\ worker' # "off" => t35' = "off"
                      /\ worker' = "more" => timer' > 0
                      /\ eRcvState' = "RCV" /\ worker' \in {"off", "fsm"}
                           => timer' > 0 \/ t35' # "off"
    BY DEF TimedInv
  <2>1. timer \in Nat /\ T35 \in Nat /\ T35 > 0
    BY TimingAssumption DEF TypeOK
  <2>0. Orderly
    BY DEF Orderly, Next, Worker, Interrupt, CharArrives, Silence, Recv,
           FsmRestart, FsmFirst, EnterRcv, StartTimer, FsmMore, EndMore, Expire,
           EnterIdle, lineVars, vars
  <2> USE DEF TimedInv
  <2>2. CASE CharArrives \/ Silence
    BY <2>0, <2>1, <2>2 DEF CharArrives, Silence, Clock
  <2>3. CASE Recv
    BY <2>0, <2>3 DEF Recv
  <2>4. CASE FsmRestart \/ FsmFirst \/ EnterRcv \/ StartTimer
    BY <2>0, <2>1, <2>4 DEF FsmRestart, FsmFirst, EnterRcv, StartTimer
  <2>5. CASE FsmMore \/ EndMore
    BY <2>0, <2>1, <2>5 DEF FsmMore, EndMore
  <2>6. CASE Expire \/ EnterIdle
    BY <2>0, <2>6 DEF Expire, EnterIdle
  <2>7. CASE UNCHANGED vars
    BY <2>0, <2>7 DEF vars
  <2>8. QED
    BY <2>2, <2>3, <2>4, <2>5, <2>6, <2>7 DEF Next, Worker, Interrupt
<1>3. TimedInv => RcvIsTimed
  BY DEF TimedInv, RcvIsTimed
<1>4. QED
  BY <1>1, <1>2, <1>3, TypeCorrect, PTL DEF Spec

---------------------------------------------------------------------------
(***************************************************************************)
(* When an orderly receiver reports whole frames only.  The timer starts   *)
(* with the first characters of a frame that are handed over, and not      *)
(* again (neither branch of STATE_RX_RCV does), so that                    *)
(*   - a frame that is handed over in parts must be over, the idle time    *)
(*     after its last character included, before that timer expires, and   *)
(*   - the timer of a frame handed over as late as that must expire no     *)
(*     later than the next frame's first character comes.                  *)
(***************************************************************************)
FramesFit ==
    \A n \in FrameLens :
        n < Cap /\ (n <= Trigger \/ n - Trigger + RxTimeout < T35)

GapsSuffice == T35 + RxTimeout <= Gap + 1

(* The characters s are those of the current frame before the last k.      *)
Piece(s, k) == \A i \in 1 .. Len(s) : s[i] = <<frames, k + Len(s) - i>>

(* n characters of the current frame have come, or it has none.            *)
Begun(n) == n > 0 /\ left + n \in FrameLens
Coming(s) == Piece(s, left) /\ (Begun(Len(s)) \/ (s = <<>> /\ left = 0))

(* What is handed over first: a full FIFO at once, or all of a short frame *)
(* once the line is idle.                                                  *)
HandedOver(n) ==
    \/ n = Trigger /\ idle = 0
    \/ n < Trigger /\ left = 0 /\ idle = RxTimeout

(* The time since then, when n characters have come.                       *)
Timed(n) ==
    \/ n >= Trigger /\ n + idle + timer = Trigger + T35
    \/ n < Trigger /\ left = 0 /\ idle + timer = RxTimeout + T35

FifoIsFresh ==
    /\ left > 0 => idle = 0
    /\ fifo # <<>> => idle <= RxTimeout
    /\ Len(fifo) <= Trigger
    /\ Len(fifo) = Trigger => idle = 0

TimerIsOff ==
    /\ t35 # "off" => timer = 0 /\ worker = "off" /\ eRcvState \in {"INIT", "RCV"}
    /\ eRcvState = "IDLE" => timer = 0 /\ worker \in {"off", "fsm", "first"}
    /\ eRcvState # "IDLE" /\ t35 = "off" /\ worker # "arm" => timer > 0
    /\ worker # "off" => fifo = <<>>

(* Before the first frame: the line has to be silent for T3.5.             *)
StartIsSilent ==
    eRcvState = "INIT" =>
        /\ worker = "off" /\ left = 0 /\ fifo = <<>>
        /\ t35 = "off" => idle + timer = T35

(* Between frames the FIFO takes the next one; its characters pass to the  *)
(* worker and into the buffer.                                             *)
IdleTakesFrame ==
    eRcvState = "IDLE" =>
        /\ worker = "off" => Coming(fifo)
        /\ worker = "fsm" =>
             Piece(chunk, left) /\ Begun(Len(chunk)) /\ HandedOver(Len(chunk))
        /\ worker = "first" =>
             Piece(buf, left) /\ Begun(Len(buf)) /\ HandedOver(Len(buf))

(* In RCV the buffer and what is still to be appended make up the frame.   *)
FrameIsTimed(rest) ==
    /\ Piece(rest, left) /\ Piece(buf, left + Len(rest))
    /\ Begun(Len(buf) + Len(rest)) /\ Timed(Len(buf) + Len(rest))
    /\ Len(buf) > 0 /\ (Len(buf) < Trigger => rest = <<>>)

RcvKeepsFrame ==
    eRcvState = "RCV" =>
        /\ worker = "arm" =>
             Piece(buf, left) /\ Begun(Len(buf)) /\ HandedOver(Len(buf))
        /\ worker = "off" /\ t35 = "off" => FrameIsTimed(fifo)
        /\ worker = "fsm" => FrameIsTimed(chunk)
        /\ worker = "more" => FrameIsTimed(<<>>)
        /\ t35 = "fire" => IsWholeFrame(buf)
        /\ t35 # "off" => Coming(fifo)

NothingIsLost ==
    /\ eRcvState # "ERROR"
    /\ worker \in {"off", "fsm", "first", "arm", "more"}
    /\ worker = "first" => eRcvState = "IDLE"
    /\ worker = "arm" => eRcvState = "RCV"
    /\ worker = "more" => eRcvState = "RCV"

FrameInv ==
    Orderly =>
        /\ FifoIsFresh /\ TimerIsOff /\ StartIsSilent /\ IdleTakesFrame
        /\ RcvKeepsFrame /\ NothingIsLost
        /\ \A i \in 1 .. Len(delivered) : IsWholeFrame(delivered[i])

LEMMA Sizes ==
    /\ Cap \in Nat /\ T35 \in Nat /\ Trigger \in Nat /\ RxTimeout \in Nat /\ Gap \in Nat
    /\ Cap > 0 /\ T35 > 0 /\ Trigger > 0 /\ RxTimeout > 0
    /\ \A n \in FrameLens : n \in Nat /\ n > 0
BY CapAssumption, TimingAssumption, FramesAssumption

LEMMA Types ==
    ASSUME TypeOK
    PROVE  /\ frames \in Nat /\ left \in Nat /\ idle \in Nat /\ timer \in Nat
           /\ fifo \in Seq(Char) /\ Len(fifo) \in Nat
           /\ chunk \in Seq(Char) /\ Len(chunk) \in Nat
           /\ buf \in Seq(Char) /\ Len(buf) \in Nat
           /\ fifo # <<>> <=> Len(fifo) > 0
           /\ Len(<<>>) = 0
<1>1. /\ frames \in Nat /\ left \in Nat /\ idle \in Nat /\ timer \in Nat
      /\ fifo \in Seq(Char) /\ chunk \in Seq(Char) /\ buf \in Seq(Char)
  BY Sizes DEF TypeOK
<1>2. /\ Len(fifo) \in Nat /\ Len(chunk) \in Nat /\ Len(buf) \in Nat
      /\ fifo # <<>> <=> Len(fifo) > 0
      /\ Len(<<>>) = 0
  BY <1>1
<1> QED
  BY <1>1, <1>2

\* Fewer than Cap characters survive the wrapping index as they are.
LEMMA StoredKeepsFew ==
    ASSUME NEW s \in Seq(Char), Len(s) < Cap
    PROVE  Stored(s) = s
<1>1. Len(s) \in Nat /\ Cap \in Nat
  BY Sizes
<1>2. Len(s) % Cap = Len(s)
  BY <1>1
<1>3. Stored(s) = SubSeq(s, 1, Len(s))
  BY <1>1, <1>2 DEF Stored
<1> QED
  BY <1>3

LEMMA PieceConcat ==
    ASSUME TypeOK, NEW s \in Seq(Char), NEW t \in Seq(Char),
           Piece(s, left + Len(t)), Piece(t, left)
    PROVE  Piece(s \o t, left) /\ Len(s \o t) = Len(s) + Len(t)
<1>1. /\ Len(s) \in Nat /\ Len(t) \in Nat /\ left \in Nat
      /\ Len(s \o t) = Len(s) + Len(t)
      /\ \A i \in 1 .. Len(s) + Len(t) :
           (s \o t)[i] = IF i <= Len(s) THEN s[i] ELSE t[i - Len(s)]
  BY ConcatProperties DEF TypeOK
<1>2. ASSUME NEW i \in 1 .. Len(s) + Len(t)
      PROVE  (s \o t)[i] = <<frames, left + (Len(s) + Len(t)) - i>>
  <2>1. CASE i <= Len(s)
    <3>1. s[i] = <<frames, (left + Len(t)) + Len(s) - i>>
      BY <1>1, <2>1 DEF Piece
    <3>2. (left + Len(t)) + Len(s) - i = left + (Len(s) + Len(t)) - i
      BY <1>1
    <3> QED
      BY <1>1, <2>1, <3>1, <3>2
  <2>2. CASE i > Len(s)
    <3>1. i - Len(s) \in 1 .. Len(t)
      BY <1>1, <2>2
    <3>2. t[i - Len(s)] = <<frames, left + Len(t) - (i - Len(s))>>
      BY <3>1 DEF Piece
    <3>3. left + Len(t) - (i - Len(s)) = left + (Len(s) + Len(t)) - i
      BY <1>1
    <3>4. ~(i <= Len(s))
      BY <1>1, <2>2
    <3> QED
      BY <1>1, <3>2, <3>3, <3>4
  <2> QED
    BY <1>1, <2>1, <2>2
<1> QED
  BY <1>1, <1>2 DEF Piece

\* A frame whose characters are all in the buffer is whole.
LEMMA WholeIfAllCame ==
    ASSUME TypeOK, Piece(buf, left + 0), left = 0, Len(buf) > 0
    PROVE  IsWholeFrame(buf)
<1>1. \A i \in 1 .. Len(buf) : buf[i] = <<frames, Len(buf) - i>>
  BY Types DEF Piece
<1>2. buf # <<>> /\ 1 \in 1 .. Len(buf)
  BY Types
<1>3. buf[1][1] = frames
  BY <1>1, <1>2
<1> QED
  BY <1>1, <1>2, <1>3 DEF IsWholeFrame

\* When the timer expires in RCV the frame has come and is in the buffer.
LEMMA ExpiresWhenWhole ==
    ASSUME TypeOK, FramesFit, FifoIsFresh, ~Due, FrameIsTimed(fifo), timer = 1
    PROVE  left = 0 /\ fifo = <<>> /\ IsWholeFrame(buf)
<1> DEFINE n == Len(buf) + Len(fifo)
<1>a. left \in Nat /\ idle \in Nat /\ n \in Nat
  BY Types
<1>b. left + n \in FrameLens
  BY DEF FrameIsTimed, Begun
<1>1. /\ n \in Nat /\ left \in Nat /\ idle \in Nat
      /\ left + n \in FrameLens /\ left + n \in Nat
  BY <1>a, <1>b
<1>2. left + n <= Trigger \/ (left + n) - Trigger + RxTimeout < T35
  <2> DEFINE whole == left + n
  <2>1. whole \in FrameLens
    BY <1>1
  <2> HIDE DEF whole, n
  <2>2. whole <= Trigger \/ whole - Trigger + RxTimeout < T35
    BY <2>1 DEF FramesFit
  <2> QED
    BY ONLY <2>2 DEF whole, n
<1>3. \/ n >= Trigger /\ n + idle + 1 = Trigger + T35
      \/ n < Trigger /\ left = 0
  BY DEF FrameIsTimed, Timed
<1>4. /\ left > 0 => idle = 0
      /\ Len(fifo) > 0 => idle < RxTimeout /\ Len(buf) >= Trigger
  BY Types, Sizes DEF FifoIsFresh, Due, FrameIsTimed
<1>5. left = 0 /\ Len(fifo) = 0
  <2> HIDE DEF n
  <2>1. left = 0
    BY <1>1, <1>2, <1>3, <1>4, Sizes
  <2>2. ASSUME Len(fifo) > 0
        PROVE  FALSE
    <3>1. n > Trigger
      BY <1>4, <2>2, Types, Sizes DEF n
    <3> QED
      BY <1>1, <1>2, <1>3, <1>4, <2>1, <2>2, <3>1, Sizes
  <2> QED
    BY <2>1, <2>2, Types
<1>6. fifo = <<>>
  BY <1>5, Types
<1>7. Piece(buf, left + 0) /\ Len(buf) > 0
  BY <1>5 DEF FrameIsTimed
<1> QED
  BY <1>5, <1>6, <1>7, WholeIfAllCame

\* The next character of a frame joins those in the FIFO.
LEMMA PieceGrows ==
    ASSUME TypeOK, left > 0, left' = left - 1, frames' = frames,
           fifo' = Append(fifo, <<frames', left'>>), Piece(fifo, left)
    PROVE  /\ Piece(fifo, left)' /\ Len(fifo') = Len(fifo) + 1
           /\ left' + Len(fifo') = left + Len(fifo)
<1>1. /\ fifo \in Seq(Char) /\ Len(fifo) \in Nat /\ left \in Nat /\ left' \in Nat
      /\ <<frames', left'>> \in Char
  BY Types DEF Char
<1>2. /\ Len(fifo') = Len(fifo) + 1
      /\ \A i \in 1 .. Len(fifo) : fifo'[i] = fifo[i]
      /\ fifo'[Len(fifo) + 1] = <<frames', left'>>
  BY <1>1
<1>3. ASSUME NEW i \in 1 .. Len(fifo')
      PROVE  fifo'[i] = <<frames', left' + Len(fifo') - i>>
  <2>1. CASE i \in 1 .. Len(fifo)
    <3>1. fifo[i] = <<frames, left + Len(fifo) - i>>
      BY <2>1 DEF Piece
    <3>2. left + Len(fifo) - i = left' + Len(fifo') - i
      BY <1>1, <1>2
    <3> QED
      BY <1>2, <2>1, <3>1, <3>2
  <2>2. CASE i = Len(fifo) + 1
    <3>1. left' + Len(fifo') - i = left'
      BY <1>1, <1>2, <2>2
    <3> QED
      BY <1>2, <2>2, <3>1
  <2> QED
    BY <1>1, <1>2, <2>1, <2>2
<1>4. left' + Len(fifo') = left + Len(fifo)
  BY <1>1, <1>2
<1> QED
  BY <1>2, <1>3, <1>4 DEF Piece

\* What holds of a receiver that waits with its FIFO when the clock ticks.
LEMMA TickFinds ==
    ASSUME TypeOK, FramesFit, GapsSuffice, Orderly, FrameInv, Clock
    PROVE  /\ worker = "off" /\ t35 = "off" /\ Len(fifo) < Trigger
           /\ fifo # <<>> => idle < RxTimeout
           /\ FifoIsFresh /\ timer \in Nat
           /\ timer' = (IF timer = 0 THEN 0 ELSE timer - 1)
           /\ t35' = (IF timer = 1 THEN "fire" ELSE "off")
           /\ \/ /\ eRcvState = "INIT" /\ left = 0 /\ fifo = <<>>
                 /\ timer > 0 /\ idle + timer = T35 /\ idle < Gap
              \/ eRcvState = "IDLE" /\ timer = 0 /\ Coming(fifo)
              \/ eRcvState = "RCV" /\ timer > 0 /\ FrameIsTimed(fifo)
<1>1. /\ worker = "off" /\ t35 = "off" /\ ~Due
      /\ timer' = (IF timer = 0 THEN 0 ELSE timer - 1)
      /\ t35' = (IF timer = 1 THEN "fire" ELSE "off")
  BY DEF Clock
<1>2. /\ FifoIsFresh /\ TimerIsOff /\ StartIsSilent /\ IdleTakesFrame
      /\ RcvKeepsFrame /\ NothingIsLost
  BY DEF FrameInv
<1>3. Len(fifo) < Trigger /\ (fifo # <<>> => idle < RxTimeout)
  BY <1>1, Types, Sizes DEF Due
<1>4. CASE eRcvState = "INIT"
  <2>1. left = 0 /\ fifo = <<>> /\ timer > 0 /\ idle + timer = T35
    BY <1>1, <1>2, <1>4 DEF StartIsSilent, TimerIsOff
  <2>2. idle < Gap
    BY <2>1, Types, Sizes DEF GapsSuffice
  <2> QED
    BY <1>1, <1>2, <1>3, <1>4, <2>1, <2>2, Types
<1>5. CASE eRcvState = "IDLE"
  BY <1>1, <1>2, <1>3, <1>5, Types DEF TimerIsOff, IdleTakesFrame
<1>6. CASE eRcvState = "RCV"
  BY <1>1, <1>2, <1>3, <1>6, Types DEF TimerIsOff, RcvKeepsFrame
<1> QED
  BY <1>2, <1>4, <1>5, <1>6 DEF NothingIsLost, TypeOK, RcvState

LEMMA SilenceKeepsFrames ==
    ASSUME TypeOK, TypeOK', FramesFit, GapsSuffice, Orderly, FrameInv, Silence
    PROVE  FrameInv'
<1>1. Clock /\ left = 0 /\ UNCHANGED <<kernel, frames, left, fifo, worker, chunk,
                                       eRcvState, buf, delivered>>
  BY DEF Silence
<1>2. /\ worker = "off" /\ t35 = "off" /\ Len(fifo) < Trigger
      /\ fifo # <<>> => idle < RxTimeout
      /\ FifoIsFresh /\ timer \in Nat
      /\ timer' = (IF timer = 0 THEN 0 ELSE timer - 1)
      /\ t35' = (IF timer = 1 THEN "fire" ELSE "off")
      /\ \/ /\ eRcvState = "INIT" /\ left = 0 /\ fifo = <<>>
            /\ timer > 0 /\ idle + timer = T35 /\ idle < Gap
         \/ eRcvState = "IDLE" /\ timer = 0 /\ Coming(fifo)
         \/ eRcvState = "RCV" /\ timer > 0 /\ FrameIsTimed(fifo)
  BY <1>1, TickFinds
<1>3. idle \in Nat /\ idle' = IF idle < Gap + RxTimeout THEN idle + 1 ELSE idle
  BY Types DEF Silence
<1>4. FifoIsFresh'
  BY <1>1, <1>2, <1>3, Types, Sizes DEF FifoIsFresh
<1>5. \A i \in 1 .. Len(delivered') : IsWholeFrame(delivered[i])'
  BY <1>1 DEF FrameInv, IsWholeFrame
<1>6. CASE eRcvState = "INIT"
  <2>1. idle' = idle + 1 /\ timer' = timer - 1
    BY <1>2, <1>3, <1>6, Sizes
  <2>2. idle' + timer' = T35 /\ (t35' = "off" => timer' > 0) /\ (t35' # "off" => timer' = 0)
    BY <1>2, <1>3, <1>6, <2>1
  <2>3. eRcvState' = "INIT" /\ worker' = "off" /\ left' = 0 /\ fifo' = <<>>
    BY <1>1, <1>2, <1>6
  <2> QED
    BY <1>4, <1>5, <2>2, <2>3 DEF FrameInv, TimerIsOff, NothingIsLost, StartIsSilent,
                                  IdleTakesFrame, RcvKeepsFrame
<1>7. CASE eRcvState = "IDLE"
  <2>1. Coming(fifo)'
    BY <1>1, <1>2, <1>7 DEF Coming, Piece, Begun
  <2>2. eRcvState' = "IDLE" /\ worker' = "off" /\ timer' = 0 /\ t35' = "off"
    BY <1>1, <1>2, <1>7
  <2> QED
    BY <1>4, <1>5, <2>1, <2>2 DEF FrameInv, TimerIsOff, NothingIsLost, StartIsSilent,
                                  IdleTakesFrame, RcvKeepsFrame
<1>8. CASE eRcvState = "RCV"
  <2>0. eRcvState' = "RCV" /\ worker' = "off" /\ FrameIsTimed(fifo) /\ timer > 0
    BY <1>1, <1>2, <1>8
  <2> DEFINE n == Len(buf) + Len(fifo)
  <2>1. CASE timer = 1
    <3>1. left = 0 /\ fifo = <<>> /\ IsWholeFrame(buf)
      BY <1>1, <1>2, <2>0, <2>1, ExpiresWhenWhole DEF Clock
    <3>2. IsWholeFrame(buf)' /\ Coming(fifo)'
      BY <1>1, <3>1, Types DEF IsWholeFrame, Coming, Piece
    <3>3. t35' = "fire" /\ timer' = 0
      BY <1>2, <2>1
    <3> QED
      BY <1>4, <1>5, <2>0, <3>2, <3>3
      DEF FrameInv, TimerIsOff, NothingIsLost, StartIsSilent, IdleTakesFrame,
          RcvKeepsFrame
  <2>2. CASE timer # 1
    <3>1. n \in Nat /\ Timed(n) /\ Begun(n)
      BY <2>0, Types DEF FrameIsTimed
    <3> HIDE DEF n
    <3>2. idle < Gap + RxTimeout
      BY <1>2, <1>3, <2>0, <2>2, <3>1, Sizes DEF Timed, GapsSuffice
    <3>3. idle' = idle + 1 /\ timer' = timer - 1 /\ timer' > 0 /\ t35' = "off"
      BY <1>2, <1>3, <2>0, <2>2, <3>2
    <3>4. Timed(n)'
      BY <1>1, <1>2, <1>3, <3>1, <3>3, Sizes DEF Timed, n
    <3>5. FrameIsTimed(fifo)'
      BY <1>1, <2>0, <3>4 DEF FrameIsTimed, Piece, Begun, n
    <3> QED
      BY <1>4, <1>5, <2>0, <3>3, <3>5
      DEF FrameInv, TimerIsOff, NothingIsLost, StartIsSilent, IdleTakesFrame,
          RcvKeepsFrame
  <2> QED
    BY <2>1, <2>2
<1> QED
  BY <1>2, <1>6, <1>7, <1>8

LEMMA CharKeepsFrames ==
    ASSUME TypeOK, TypeOK', FramesFit, GapsSuffice, Orderly, FrameInv, CharArrives
    PROVE  FrameInv'
<1>1. /\ Clock /\ idle' = 0 /\ fifo' = Append(fifo, <<frames', left'>>)
      /\ UNCHANGED <<kernel, worker, chunk, eRcvState, buf, delivered>>
  BY DEF CharArrives
<1>2. /\ worker = "off" /\ t35 = "off" /\ Len(fifo) < Trigger
      /\ fifo # <<>> => idle < RxTimeout
      /\ FifoIsFresh /\ timer \in Nat
      /\ timer' = (IF timer = 0 THEN 0 ELSE timer - 1)
      /\ t35' = (IF timer = 1 THEN "fire" ELSE "off")
      /\ \/ /\ eRcvState = "INIT" /\ left = 0 /\ fifo = <<>>
            /\ timer > 0 /\ idle + timer = T35 /\ idle < Gap
         \/ eRcvState = "IDLE" /\ timer = 0 /\ Coming(fifo)
         \/ eRcvState = "RCV" /\ timer > 0 /\ FrameIsTimed(fifo)
  BY <1>1, TickFinds
<1>3. /\ fifo \in Seq(Char) /\ fifo' \in Seq(Char) /\ Len(fifo') = Len(fifo) + 1
      /\ left \in Nat /\ left' \in Nat /\ Len(fifo) \in Nat /\ idle \in Nat
  <2>1. <<frames', left'>> \in Char
    BY DEF TypeOK, Char
  <2>2. fifo \in Seq(Char) /\ fifo' \in Seq(Char)
    BY DEF TypeOK
  <2>3. Len(fifo') = Len(fifo) + 1
    BY <1>1, <2>1, <2>2
  <2> QED
    BY <2>2, <2>3, Types DEF TypeOK
<1>4. FifoIsFresh'
  BY <1>1, <1>2, <1>3, Sizes DEF FifoIsFresh
<1>5. \A i \in 1 .. Len(delivered') : IsWholeFrame(delivered[i])'
  BY <1>1 DEF FrameInv, IsWholeFrame
<1>6. CASE left > 0
  <2>1. left' = left - 1 /\ frames' = frames
    BY <1>6 DEF CharArrives
  <2>2. eRcvState # "INIT" /\ Piece(fifo, left)
    BY <1>2, <1>6 DEF Coming, FrameIsTimed
  <2>3. Piece(fifo, left)' /\ left' + Len(fifo') = left + Len(fifo)
    BY <1>1, <1>6, <2>1, <2>2, PieceGrows
  <2>4. CASE eRcvState = "IDLE"
    <3>1. Begun(Len(fifo))
      BY <1>2, <1>6, <2>4 DEF Coming
    <3>2. Coming(fifo)'
      BY <1>3, <2>3, <3>1 DEF Coming, Begun
    <3>3. eRcvState' = "IDLE" /\ worker' = "off" /\ timer' = 0 /\ t35' = "off"
      BY <1>1, <1>2, <2>4
    <3> QED
      BY <1>4, <1>5, <3>2, <3>3 DEF FrameInv, TimerIsOff, NothingIsLost, StartIsSilent,
                                    IdleTakesFrame, RcvKeepsFrame
  <2>5. CASE eRcvState = "RCV"
    <3> DEFINE n == Len(buf) + Len(fifo)
    <3>0. eRcvState' = "RCV" /\ worker' = "off" /\ FrameIsTimed(fifo) /\ timer > 0
      BY <1>1, <1>2, <2>5
    <3>1. timer # 1
      BY <1>1, <1>2, <1>6, <3>0, ExpiresWhenWhole DEF Clock
    <3>2. timer' = timer - 1 /\ timer' > 0 /\ t35' = "off"
      BY <1>2, <3>0, <3>1
    <3>3. Len(buf) \in Nat /\ buf' = buf /\ Len(buf') + Len(fifo') = n + 1
      BY <1>1, <1>3, Types
    <3>4. n \in Nat /\ n >= Trigger /\ n + 0 + timer = Trigger + T35 /\ idle = 0
      BY <1>2, <1>3, <1>6, <3>0, <3>3, Sizes DEF FrameIsTimed, Timed, FifoIsFresh
    <3>5. Timed(Len(buf) + Len(fifo))'
      <4>1. n + 1 >= Trigger /\ (n + 1) + 0 + timer' = Trigger + T35
        BY <1>2, <3>2, <3>4, Sizes
      <4> QED
        BY <1>1, <3>3, <4>1 DEF Timed
    <3>6. Begun(Len(buf) + Len(fifo))'
      <4>1. left + n \in FrameLens
        BY <3>0 DEF FrameIsTimed, Begun
      <4>2. left' + (n + 1) = left + n /\ n + 1 > 0
        BY <1>3, <2>1, <3>4
      <4> QED
        BY <3>3, <4>1, <4>2 DEF Begun
    <3>7. Piece(buf, left + Len(fifo))'
      BY <2>1, <2>3, <3>0, <3>3 DEF FrameIsTimed, Piece
    <3>8. Len(buf') > 0 /\ ~(Len(buf') < Trigger)
      <4>1. Len(buf) < Trigger => FALSE
        <5> SUFFICES ASSUME Len(buf) < Trigger PROVE FALSE
          OBVIOUS
        <5>1. fifo = <<>>
          BY <3>0 DEF FrameIsTimed
        <5>2. n = Len(buf)
          BY <3>3, <5>1, Types
        <5> QED
          BY <3>3, <3>4, <5>2, Sizes
      <4> QED
        BY <3>0, <3>3, <4>1, Sizes DEF FrameIsTimed
    <3>9. FrameIsTimed(fifo)'
      BY <2>3, <3>5, <3>6, <3>7, <3>8 DEF FrameIsTimed
    <3> QED
      BY <1>4, <1>5, <3>0, <3>2, <3>9
      DEF FrameInv, TimerIsOff, NothingIsLost, StartIsSilent, IdleTakesFrame,
          RcvKeepsFrame
  <2> QED
    BY <1>2, <2>2, <2>4, <2>5
<1>7. CASE left = 0
  <2>1. idle >= Gap /\ frames' = frames + 1 /\ \E n \in FrameLens : left' = n - 1
    BY <1>7 DEF CharArrives
  <2>2. fifo = <<>>
    BY <1>2, <1>3, <2>1, Sizes DEF GapsSuffice
  <2>3. fifo' = <<(<<frames', left'>>)>> /\ Len(fifo') = 1
    BY <1>1, <1>3, <2>2, Types
  <2>4. Coming(fifo)'
    <3>1. left' + 1 \in FrameLens
      BY <2>1, Sizes
    <3>2. fifo'[1] = <<frames', left' + 1 - 1>>
      BY <1>3, <2>3
    <3> QED
      BY <2>3, <3>1, <3>2 DEF Coming, Piece, Begun
  <2>5. eRcvState # "INIT"
    BY <1>2, <1>3, <2>1, Sizes
  <2>6. CASE eRcvState = "IDLE"
    <3>1. eRcvState' = "IDLE" /\ worker' = "off" /\ timer' = 0 /\ t35' = "off"
      BY <1>1, <1>2, <2>6
    <3> QED
      BY <1>4, <1>5, <2>4, <3>1 DEF FrameInv, TimerIsOff, NothingIsLost, StartIsSilent,
                                    IdleTakesFrame, RcvKeepsFrame
  <2>7. CASE eRcvState = "RCV"
    <3> DEFINE n == Len(buf) + Len(fifo)
    <3>1. FrameIsTimed(fifo) /\ timer > 0 /\ n \in Nat
      BY <1>2, <2>7, Types
    <3>2. timer = 1
      <4>1. Timed(n)
        BY <3>1 DEF FrameIsTimed
      <4> HIDE DEF n
      <4> QED
        BY <1>2, <1>3, <2>1, <3>1, <4>1, Sizes DEF Timed, GapsSuffice
    <3>3. IsWholeFrame(buf)
      BY <1>1, <1>2, <3>1, <3>2, ExpiresWhenWhole DEF Clock
    <3>4. IsWholeFrame(buf)'
      BY <1>1, <3>3 DEF IsWholeFrame
    <3>5. eRcvState' = "RCV" /\ worker' = "off" /\ t35' = "fire" /\ timer' = 0
      BY <1>1, <1>2, <2>7, <3>2
    <3> QED
      BY <1>4, <1>5, <2>4, <3>4, <3>5
      DEF FrameInv, TimerIsOff, NothingIsLost, StartIsSilent, IdleTakesFrame,
          RcvKeepsFrame
  <2> QED
    BY <1>2, <2>5, <2>6, <2>7
<1> QED
  BY <1>3, <1>6, <1>7

LEMMA WorkerKeepsFrames ==
    ASSUME TypeOK, TypeOK', FramesFit, Orderly, FrameInv, Worker
    PROVE  FrameInv'
<1>0. /\ FifoIsFresh /\ TimerIsOff /\ StartIsSilent /\ IdleTakesFrame
      /\ RcvKeepsFrame /\ NothingIsLost
  BY DEF FrameInv
<1>a. delivered' = delivered /\ UNCHANGED <<kernel, frames, left, idle, t35>>
  BY DEF Worker, Recv, FsmRestart, FsmFirst, EnterRcv, StartTimer, FsmMore, EndMore,
         lineVars
<1>b. \A i \in 1 .. Len(delivered') : IsWholeFrame(delivered[i])'
  BY <1>a DEF FrameInv, IsWholeFrame
<1>c. eRcvState \in {"INIT", "IDLE", "RCV"}
  BY <1>0 DEF NothingIsLost, TypeOK, RcvState
<1>d. t35 = "off"
  BY <1>0 DEF Worker, Recv, FsmRestart, FsmFirst, EnterRcv, StartTimer, FsmMore,
              EndMore, TimerIsOff
<1>1. CASE Recv
  <2>1. /\ worker = "off" /\ Due /\ chunk' = Stored(fifo) /\ fifo' = <<>>
        /\ worker' = "fsm" /\ UNCHANGED <<eRcvState, buf, timer>>
    BY <1>1 DEF Recv
  <2>2. fifo # <<>> /\ Len(fifo) > 0
    BY <2>1, Types, Sizes DEF Due
  <2>3. eRcvState # "INIT"
    BY <1>0, <2>2 DEF StartIsSilent
  <2>4. Len(fifo) < Cap
    <3>1. CASE eRcvState = "IDLE"
      <4>1. left + Len(fifo) \in FrameLens
        BY <1>0, <2>1, <2>2, <3>1 DEF IdleTakesFrame, Coming, Begun
      <4> QED
        BY <4>1, Types, Sizes DEF FramesFit
    <3>2. CASE eRcvState = "RCV"
      <4>1. left + (Len(buf) + Len(fifo)) \in FrameLens
        BY <1>0, <1>d, <2>1, <3>2 DEF RcvKeepsFrame, FrameIsTimed, Begun
      <4> QED
        BY <4>1, Types, Sizes DEF FramesFit
    <3> QED
      BY <1>c, <2>3, <3>1, <3>2
  <2>5. chunk' = fifo
    BY <2>1, <2>4, StoredKeepsFew, Types
  <2>6. FifoIsFresh'
    BY <1>0, <1>a, <2>1, Types, Sizes DEF FifoIsFresh
  <2>7. TimerIsOff' /\ NothingIsLost' /\ StartIsSilent'
    BY <1>0, <1>a, <1>c, <1>d, <2>1, <2>3 DEF TimerIsOff, NothingIsLost, StartIsSilent
  <2>8. IdleTakesFrame'
    <3> SUFFICES ASSUME eRcvState = "IDLE"
                 PROVE  (Piece(chunk, left) /\ Begun(Len(chunk)) /\ HandedOver(Len(chunk)))'
      BY <2>1 DEF IdleTakesFrame
    <3>1. Piece(fifo, left) /\ Begun(Len(fifo))
      BY <1>0, <2>1, <2>2 DEF IdleTakesFrame, Coming
    <3>2. HandedOver(Len(fifo))
      BY <1>0, <2>1, <2>2, Types, Sizes DEF Due, FifoIsFresh, HandedOver
    <3> QED
      BY <1>a, <2>5, <3>1, <3>2 DEF Piece, Begun, HandedOver
  <2>9. RcvKeepsFrame'
    <3> SUFFICES ASSUME eRcvState = "RCV"
                 PROVE  FrameIsTimed(chunk)'
      BY <1>a, <1>d, <2>1 DEF RcvKeepsFrame
    <3>1. FrameIsTimed(fifo)
      BY <1>0, <1>d, <2>1 DEF RcvKeepsFrame
    <3> QED
      BY <1>a, <2>1, <2>5, <3>1 DEF FrameIsTimed, Piece, Begun, Timed
  <2> QED
    BY <1>b, <2>6, <2>7, <2>8, <2>9 DEF FrameInv
<1>2. CASE FsmRestart
  BY <1>0, <1>2 DEF FsmRestart, StartIsSilent, NothingIsLost
<1>3. CASE FsmFirst
  <2>1. /\ worker = "fsm" /\ eRcvState = "IDLE" /\ buf' = chunk /\ worker' = "first"
        /\ UNCHANGED <<fifo, eRcvState, timer>>
    BY <1>3 DEF FsmFirst, lineVars
  <2>2. (Piece(buf, left) /\ Begun(Len(buf)) /\ HandedOver(Len(buf)))'
    BY <1>0, <1>a, <2>1 DEF IdleTakesFrame, Piece, Begun, HandedOver
  <2>3. FifoIsFresh' /\ TimerIsOff' /\ NothingIsLost'
    BY <1>0, <1>a, <1>d, <2>1 DEF FifoIsFresh, TimerIsOff, NothingIsLost
  <2> QED
    BY <1>b, <2>1, <2>2, <2>3 DEF FrameInv, StartIsSilent, IdleTakesFrame, RcvKeepsFrame
<1>4. CASE EnterRcv
  <2>1. /\ worker = "first" /\ eRcvState' = "RCV" /\ worker' = "arm"
        /\ UNCHANGED <<fifo, buf, timer>>
    BY <1>4 DEF EnterRcv, lineVars
  <2>2. eRcvState = "IDLE"
    BY <1>0, <2>1 DEF NothingIsLost
  <2>3. (Piece(buf, left) /\ Begun(Len(buf)) /\ HandedOver(Len(buf)))'
    BY <1>0, <1>a, <2>1, <2>2 DEF IdleTakesFrame, Piece, Begun, HandedOver
  <2>4. FifoIsFresh' /\ TimerIsOff' /\ NothingIsLost'
    BY <1>0, <1>a, <1>d, <2>1 DEF FifoIsFresh, TimerIsOff, NothingIsLost
  <2> QED
    BY <1>a, <1>b, <1>d, <2>1, <2>3, <2>4
    DEF FrameInv, StartIsSilent, IdleTakesFrame, RcvKeepsFrame
<1>5. CASE StartTimer
  <2>1. /\ worker = "arm" /\ timer' = T35 /\ worker' = "off" /\ eRcvState = "RCV"
        /\ UNCHANGED <<fifo, buf, eRcvState>> /\ fifo = <<>>
    BY <1>0, <1>5 DEF StartTimer, lineVars, NothingIsLost, TimerIsOff
  <2>2. Piece(buf, left) /\ Begun(Len(buf)) /\ HandedOver(Len(buf))
    BY <1>0, <2>1 DEF RcvKeepsFrame
  <2>3. Len(fifo') = 0 /\ left + Len(fifo') = left /\ Len(buf) + Len(fifo') = Len(buf)
    BY <2>1, Types
  <2>4. Timed(Len(buf) + Len(fifo))'
    <3>1. Timed(Len(buf))'
      BY <1>a, <2>1, <2>2, Types, Sizes DEF HandedOver, Timed
    <3> QED
      BY <2>1, <2>3, <3>1 DEF Timed
  <2>5. FrameIsTimed(fifo)'
    <3>1. Piece(fifo, left)'
      BY <2>3 DEF Piece
    <3>2. Piece(buf, left + Len(fifo))' /\ Begun(Len(buf) + Len(fifo))'
      BY <1>a, <2>1, <2>2, <2>3 DEF Piece, Begun
    <3>3. Len(buf') > 0
      BY <2>1, <2>2 DEF Begun
    <3> QED
      BY <2>1, <2>4, <3>1, <3>2, <3>3 DEF FrameIsTimed
  <2>6. FifoIsFresh' /\ TimerIsOff' /\ NothingIsLost'
    BY <1>0, <1>a, <1>d, <2>1, Sizes DEF FifoIsFresh, TimerIsOff, NothingIsLost
  <2> QED
    BY <1>a, <1>b, <1>d, <2>1, <2>5, <2>6
    DEF FrameInv, StartIsSilent, IdleTakesFrame, RcvKeepsFrame
<1>6. CASE FsmMore
  <2>1. worker = "fsm" /\ eRcvState = "RCV" /\ UNCHANGED <<fifo, eRcvState, timer, chunk>>
    BY <1>6 DEF FsmMore, lineVars
  <2>2. FrameIsTimed(chunk) /\ fifo = <<>> /\ timer > 0
    BY <1>0, <1>d, <2>1 DEF RcvKeepsFrame, TimerIsOff
  <2>3. Len(buf) + Len(chunk) < Cap
    <3>1. left + (Len(buf) + Len(chunk)) \in FrameLens
      BY <2>2 DEF FrameIsTimed, Begun
    <3> QED
      BY <3>1, Types, Sizes DEF FramesFit
  <2>4. buf' = buf \o chunk /\ worker' = "more"
    BY <1>6, <2>3 DEF FsmMore, usRcvBufferPos
  <2>5. Piece(buf \o chunk, left) /\ Len(buf \o chunk) = Len(buf) + Len(chunk)
    BY <2>2, PieceConcat, Types DEF FrameIsTimed
  <2>6. FrameIsTimed(<<>>)'
    <3>1. /\ Len(<<>>) = 0 /\ left + Len(<<>>) = left
          /\ Len(buf') + Len(<<>>) = Len(buf) + Len(chunk)
      BY <2>4, <2>5, Types
    <3>2. Piece(<<>>, left)'
      BY <3>1 DEF Piece
    <3>3. Piece(buf, left + Len(<<>>))'
      BY <1>a, <2>4, <2>5, <3>1 DEF Piece
    <3>4. (Begun(Len(buf) + Len(<<>>)) /\ Timed(Len(buf) + Len(<<>>)))'
      BY <1>a, <2>1, <2>2, <3>1 DEF FrameIsTimed, Begun, Timed
    <3>5. Len(buf') > 0
      BY <2>2, <2>4, <2>5, Types DEF FrameIsTimed
    <3> QED
      BY <3>2, <3>3, <3>4, <3>5 DEF FrameIsTimed
  <2>7. FifoIsFresh' /\ TimerIsOff' /\ NothingIsLost'
    BY <1>0, <1>a, <1>d, <2>1, <2>2, <2>4 DEF FifoIsFresh, TimerIsOff, NothingIsLost
  <2> QED
    BY <1>a, <1>b, <1>d, <2>1, <2>4, <2>6, <2>7
    DEF FrameInv, StartIsSilent, IdleTakesFrame, RcvKeepsFrame
<1>7. CASE EndMore
  <2>1. worker = "more" /\ eRcvState = "RCV"
    BY <1>0, <1>7 DEF EndMore, NothingIsLost
  <2>2. /\ worker' = "off" /\ eRcvState' = "RCV" /\ UNCHANGED <<fifo, buf, timer>>
        /\ FrameIsTimed(<<>>) /\ fifo = <<>> /\ timer > 0
    BY <1>0, <1>7, <1>d, <2>1 DEF EndMore, lineVars, RcvKeepsFrame, TimerIsOff
  <2>3. FrameIsTimed(fifo)'
    BY <1>a, <2>2 DEF FrameIsTimed, Piece, Begun, Timed
  <2>4. FifoIsFresh' /\ TimerIsOff' /\ NothingIsLost'
    BY <1>0, <1>a, <1>d, <2>2 DEF FifoIsFresh, TimerIsOff, NothingIsLost
  <2> QED
    BY <1>a, <1>b, <1>d, <2>2, <2>3, <2>4
    DEF FrameInv, StartIsSilent, IdleTakesFrame, RcvKeepsFrame
<1> QED
  BY <1>1, <1>2, <1>3, <1>4, <1>5, <1>6, <1>7 DEF Worker

LEMMA InterruptKeepsFrames ==
    ASSUME TypeOK, TypeOK', Orderly, FrameInv, Interrupt
    PROVE  FrameInv'
<1>0. /\ FifoIsFresh /\ TimerIsOff /\ StartIsSilent /\ IdleTakesFrame
      /\ RcvKeepsFrame /\ NothingIsLost
      /\ \A i \in 1 .. Len(delivered) : IsWholeFrame(delivered[i])
  BY DEF FrameInv
<1>a. /\ UNCHANGED <<frames, left, idle, fifo, worker, buf, timer>>
      /\ worker = "off" /\ timer = 0 /\ eRcvState \in {"INIT", "RCV"}
  BY <1>0 DEF Interrupt, Expire, EnterIdle, lineVars, TimerIsOff
<1>b. FifoIsFresh' /\ (Coming(fifo) => Coming(fifo)')
  BY <1>0, <1>a DEF FifoIsFresh, Coming, Piece, Begun
<1>1. CASE Expire
  <2>1. /\ t35 = "fire" /\ t35' = "posted" /\ eRcvState' = eRcvState
        /\ delivered' = IF eRcvState = "RCV" THEN Append(delivered, buf) ELSE delivered
    BY <1>1 DEF Expire
  <2>2. \A i \in 1 .. Len(delivered') : IsWholeFrame(delivered'[i])
    <3>1. eRcvState = "RCV" => IsWholeFrame(buf)
      BY <1>0, <2>1 DEF RcvKeepsFrame
    <3>2. delivered \in Seq(Seq(Char)) /\ buf \in Seq(Char)
      BY DEF TypeOK
    <3> QED
      BY <1>0, <2>1, <3>1, <3>2
  <2>3. \A i \in 1 .. Len(delivered') : IsWholeFrame(delivered[i])'
    BY <2>2 DEF IsWholeFrame
  <2>4. TimerIsOff' /\ NothingIsLost' /\ StartIsSilent' /\ IdleTakesFrame'
    BY <1>0, <1>a, <2>1 DEF TimerIsOff, NothingIsLost, StartIsSilent, IdleTakesFrame
  <2>5. RcvKeepsFrame'
    BY <1>0, <1>a, <1>b, <2>1 DEF RcvKeepsFrame
  <2> QED
    BY <1>b, <2>3, <2>4, <2>5 DEF FrameInv
<1>2. CASE EnterIdle
  <2>1. t35 = "posted" /\ t35' = "off" /\ eRcvState' = "IDLE" /\ delivered' = delivered
    BY <1>2 DEF EnterIdle
  <2>2. Coming(fifo)
    <3>1. CASE eRcvState = "INIT"
      BY <1>0, <3>1, Types DEF StartIsSilent, Coming, Piece
    <3>2. CASE eRcvState = "RCV"
      BY <1>0, <2>1, <3>2 DEF RcvKeepsFrame
    <3> QED
      BY <1>a, <3>1, <3>2
  <2>3. \A i \in 1 .. Len(delivered') : IsWholeFrame(delivered[i])'
    BY <1>0, <2>1 DEF IsWholeFrame
  <2> QED
    BY <1>a, <1>b, <2>1, <2>2, <2>3
    DEF FrameInv, TimerIsOff, NothingIsLost, StartIsSilent, IdleTakesFrame, RcvKeepsFrame
<1> QED
  BY <1>1, <1>2 DEF Interrupt

\* What an orderly kernel reports is one frame, whole and alone, whenever frames
\* fit their timer and gaps suffice (mbrtu.c:291-295), however many parts the UART
\* makes of them.
THEOREM ReportsWholeFrames ==
    ASSUME FramesFit, GapsSuffice
    PROVE  Spec => []OnlyWholeFrames
<1>1. Init => FrameInv
  <2> SUFFICES ASSUME Init, Orderly
               PROVE  FrameInv
    BY DEF FrameInv
  <2>1. FifoIsFresh /\ TimerIsOff /\ NothingIsLost
    BY Sizes DEF Init, FifoIsFresh, TimerIsOff, NothingIsLost
  <2>2. StartIsSilent /\ IdleTakesFrame /\ RcvKeepsFrame
    BY Sizes DEF Init, StartIsSilent, IdleTakesFrame, RcvKeepsFrame
  <2>3. \A i \in 1 .. Len(delivered) : IsWholeFrame(delivered[i])
    BY DEF Init
  <2> QED
    BY <2>1, <2>2, <2>3 DEF FrameInv
<1>2. TypeOK /\ TypeOK' /\ FrameInv /\ [Next]_vars => FrameInv'
  <2> SUFFICES ASSUME TypeOK, TypeOK', FrameInv, [Next]_vars, Orderly
               PROVE  FrameInv'
    <3>1. [Next]_vars => (Orderly' => Orderly)
      BY DEF Orderly, Next, Worker, Interrupt, CharArrives, Silence, Recv,
             FsmRestart, FsmFirst, EnterRcv, StartTimer, FsmMore, EndMore, Expire,
             EnterIdle, lineVars, vars
    <3> QED
      BY <3>1 DEF FrameInv
  <2>1. CASE CharArrives
    BY <2>1, CharKeepsFrames
  <2>2. CASE Silence
    BY <2>2, SilenceKeepsFrames
  <2>3. CASE Worker
    BY <2>3, WorkerKeepsFrames
  <2>4. CASE Interrupt
    BY <2>4, InterruptKeepsFrames
  <2>5. CASE UNCHANGED vars
    BY <2>5
    DEF vars, lineVars, FrameInv, FifoIsFresh, TimerIsOff, StartIsSilent,
        IdleTakesFrame, RcvKeepsFrame, NothingIsLost, Orderly, Coming, Piece, Begun,
        HandedOver, Timed, FrameIsTimed, IsWholeFrame
  <2> QED
    BY <2>1, <2>2, <2>3, <2>4, <2>5 DEF Next
<1>3. FrameInv => OnlyWholeFrames
  BY DEF FrameInv, OnlyWholeFrames
<1> QED
  BY <1>1, <1>2, <1>3, TypeCorrect, PTL DEF Spec
=============================================================================
