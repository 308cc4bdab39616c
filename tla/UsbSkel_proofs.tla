--------------------------- MODULE UsbSkel_proofs ---------------------------
(***************************************************************************)
(* Proofs about UsbSkel, for any processes, sizes and number of writes in  *)
(* flight.                                                                 *)
(***************************************************************************)
EXTENDS UsbSkel, FiniteSetTheorems, TLAPS

-----------------------------------------------------------------------------
(* The inductive invariant *)

ProcPc == WriterPc \cup ReaderPc \cup DrawDownPc \cup {"idle", "f_lock", "f_report"}

\* A process that is in a call has its file open; a reader wants something.
LabelInv ==
    /\ \A p \in Procs :
         /\ pc[p] \in ProcPc /\ back[p] = "f_report"
         /\ pc[p] # "idle" => p \in files
         /\ pc[p] \in ReaderPc => count[p] > 0
    /\ pc[Core] \in CorePc \cup DrawDownPc
    /\ back[Core] \in {"post_reset", "bound"}

Locked == {"w_submit", "r_enter", "r_loop", "r_wait", "r_errors", "r_clear", "r_data",
           "r_io", "r_submit", "f_report", "post_reset", "d_set"}

\* Where an actor has io_mutex: suspending draws down without it.
HoldsLock(a) == pc[a] \in Locked \/ (pc[a] \in DrawDownPc /\ back[a] # "bound")

\* io_mutex is held where the code has taken it, and nowhere else.
LockInv ==
    /\ \A a \in Actors : HoldsLock(a) => io_mutex = a
    /\ io_mutex # Nobody => HoldsLock(io_mutex)

CoreDone == pc[Core] \in {"absent", "gone"}

\* One reference for each open file and one for the hub thread.
RefInv ==
    /\ kref = Cardinality(files) + (IF CoreDone THEN 0 ELSE 1)
    /\ freed <=> files = {} /\ pc[Core] = "gone"

Unborn == {"absent", "p_alloc", "p_register", "p_error"}
Killed == {"d_writes", "d_put", "gone"}
Lost == {"d_read", "d_writes", "d_put"}

\* Before it is registered and after it is disconnected nothing is submitted.
DisconnectInv ==
    /\ pc[Core] \in Unborn =>
         files = {} /\ submitted = 0 /\ reading = 0 /\ ~registered /\ ~disconnected
    /\ pc[Core] \in Lost \cup {"gone", "d_lock", "d_set"} => ~registered
    /\ pc[Core] \in Lost => disconnected
    /\ pc[Core] = "gone" => disconnected \/ files = {}
    /\ pc[Core] \in Killed => reading = 0
    /\ pc[Core] \in {"d_put", "gone"} => submitted = 0
    /\ disconnected => \A p \in Procs :
         pc[p] \notin {"r_loop", "r_wait", "r_errors", "r_clear", "r_data", "r_io",
                       "r_submit"}

\* bulk_in_urb is marked as under way from before its submission to its
\* completion, the buffer is empty meanwhile, and readers look at the buffer only
\* when it is not.
ReadInv ==
    /\ reading > 0 => ongoing_read
    /\ ongoing_read =>
         /\ bulk_in_filled = 0 /\ bulk_in_copied = 0
         /\ reading > 0 \/ \E p \in Procs : pc[p] = "r_submit"
    /\ \A p \in Procs :
         /\ pc[p] \in {"r_errors", "r_clear", "r_data", "r_io"} => ~ongoing_read
         /\ pc[p] = "r_io" => bulk_in_filled = bulk_in_copied
         /\ pc[p] = "r_submit" => ongoing_read /\ reading = 0

\* Whoever has drawn down with io_mutex held finds no write in flight.
DrawDownInv ==
    \A a \in Actors :
      /\ pc[a] = "kill_read" /\ back[a] # "bound" => submitted = 0
      /\ pc[a] \in {"f_report", "post_reset"} =>
           submitted = 0 /\ reading = 0 /\ ~ongoing_read

IInv ==
    /\ TypeOK
    /\ LabelInv
    /\ LockInv
    /\ RefInv
    /\ DisconnectInv
    /\ ReadInv
    /\ DrawDownInv
    /\ PermitsConserved
    /\ BytesOnce

-----------------------------------------------------------------------------
(* Every actor is where its own code is *)

LEMMA LabelsStep ==
    ASSUME TypeOK, LabelInv, Next
    PROVE  LabelInv'
<1> USE ActorsAssumption, SizesAssumption
    DEF TypeOK, Actors, LabelInv, ProcPc, CorePc, WriterPc, ReaderPc, DrawDownPc, Step, Goto,
        coreVars, refVars, writeVars, readVars, bufferVars, callVars
<1>1. ASSUME NEW p \in Procs, Open(p) \/ Release(p)
      PROVE  LabelInv'
  BY <1>1 DEF Open, Release
<1>2. ASSUME NEW p \in Procs, BeginWrite(p) \/ BeginFlush(p)
      PROVE  LabelInv'
  BY <1>2 DEF BeginWrite, BeginFlush, Call
<1>3. ASSUME NEW p \in Procs, BeginRead(p)
      PROVE  LabelInv'
  BY <1>3 DEF BeginRead, Call
<1>4. ASSUME NEW p \in Procs, WriteStep(p)
      PROVE  LabelInv'
  BY <1>4
  DEF WriteStep, TakePermit, RefuseWrite, CheckErrors, ClearErrors, Allocate, LockWrite,
      Submit, Unanchor, GiveBack
<1>5. ASSUME NEW p \in Procs, ReadData(p)
      PROVE  LabelInv'
  BY <1>5 DEF ReadData, Least, Available, LeaveRead
<1>6. ASSUME NEW p \in Procs, ReadStep(p), ~ReadData(p)
      PROVE  LabelInv'
  BY <1>6
  DEF ReadStep, LockRead, EnterRead, LoopRead, WaitRead, ReadErrors, ReadClears, StartRead,
      SubmitRead, LeaveRead
<1>7. ASSUME NEW p \in Procs, FlushStep(p) \/ DrawDown(p) \/ Signal(p)
      PROVE  LabelInv'
  BY <1>7
  DEF FlushStep, LockFlush, ReportFlush, DrawDown, Drain, KillWrites, KillRead, Signal,
      LeaveRead
<1>8. CASE ProbeStep
  BY <1>8 DEF ProbeStep, ProbeBegins, ProbeAllocates, ProbeRegisters, ProbeFails
<1>9. CASE Suspend \/ ResetBegins \/ DisconnectBegins
  BY <1>9 DEF Suspend, ResetBegins, DisconnectBegins
<1>10. CASE CoreStep
  BY <1>10
  DEF CoreStep, PreReset, PostReset, Deregister, LockDisconnect, SetDisconnected,
      DisconnectKills, DisconnectEnds, DrawDown, Drain, KillWrites, KillRead
<1>11. CASE Complete
  BY <1>11 DEF Complete, CompleteWrite, CompleteRead
<1>12. QED
  BY <1>1, <1>2, <1>3, <1>4, <1>5, <1>6, <1>7, <1>8, <1>9, <1>10, <1>11
  DEF Next, Begin, ProcStep

-----------------------------------------------------------------------------
(* io_mutex is held where the code has taken it *)

LEMMA LockStep ==
    ASSUME TypeOK, LabelInv, LockInv, Next
    PROVE  LockInv'
<1> USE ActorsAssumption
    DEF TypeOK, Actors, LabelInv, ProcPc, CorePc, WriterPc, ReaderPc, DrawDownPc, Step, Goto,
        LockInv, Locked, HoldsLock, Acquire, Unlock, LeaveRead
<1>1. ASSUME NEW p \in Procs, Open(p) \/ Release(p)
      PROVE  LockInv'
  BY <1>1 DEF Open, Release, callVars
<1>2. ASSUME NEW p \in Procs, BeginWrite(p) \/ BeginFlush(p) \/ BeginRead(p)
      PROVE  LockInv'
  BY <1>2 DEF BeginWrite, BeginFlush, BeginRead, Call
<1>3. ASSUME NEW p \in Procs, WriteStep(p)
      PROVE  LockInv'
  BY <1>3
  DEF WriteStep, TakePermit, RefuseWrite, CheckErrors, ClearErrors, Allocate, LockWrite,
      Submit, Unanchor, GiveBack, callVars
<1>4. ASSUME NEW p \in Procs, ReadStep(p)
      PROVE  LockInv'
  BY <1>4
  DEF ReadStep, LockRead, EnterRead, LoopRead, WaitRead, ReadErrors, ReadClears, ReadData,
      StartRead, SubmitRead, callVars
<1>5. ASSUME NEW p \in Procs, FlushStep(p) \/ DrawDown(p) \/ Signal(p)
      PROVE  LockInv'
  BY <1>5
  DEF FlushStep, LockFlush, ReportFlush, DrawDown, Drain, KillWrites, KillRead, Signal,
      callVars
<1>6. CASE ProbeStep \/ Suspend \/ ResetBegins \/ DisconnectBegins
  BY <1>6
  DEF ProbeStep, ProbeBegins, ProbeAllocates, ProbeRegisters, ProbeFails, Suspend,
      ResetBegins, DisconnectBegins, callVars
<1>7. CASE CoreStep
  BY <1>7
  DEF CoreStep, PreReset, PostReset, Deregister, LockDisconnect, SetDisconnected,
      DisconnectKills, DisconnectEnds, DrawDown, Drain, KillWrites, KillRead, callVars
<1>8. CASE Complete
  BY <1>8 DEF Complete, CompleteWrite, CompleteRead, callVars
<1>9. QED
  BY <1>1, <1>2, <1>3, <1>4, <1>5, <1>6, <1>7, <1>8 DEF Next, Begin, ProcStep

-----------------------------------------------------------------------------
(* The reference count *)

LEMMA FilesAreFinite ==
    ASSUME TypeOK
    PROVE  IsFiniteSet(files) /\ Cardinality(files) \in Nat
<1>1. files \in SUBSET Procs
  BY DEF TypeOK
<1>2. IsFiniteSet(files)
  BY <1>1, FS_Subset, ActorsAssumption
<1>3. QED
  BY <1>2, FS_CardinalityType

LEMMA ReferencesStep ==
    ASSUME TypeOK, LabelInv, RefInv, DisconnectInv, Next
    PROVE  RefInv' /\ kref' \in Nat
<1> USE ActorsAssumption DEF RefInv, CoreDone, Put
<1>1. IsFiniteSet(files) /\ Cardinality(files) \in Nat
  BY FilesAreFinite
<1>2. Cardinality(files) = 0 <=> files = {}
  BY <1>1, FS_EmptySet
<1>3. ASSUME NEW p \in Procs, Open(p)
      PROVE  RefInv' /\ kref' \in Nat
  <2>1. Cardinality(files') = Cardinality(files) + 1
    BY <1>3, <1>1, FS_AddElement DEF Open
  <2>2. ~CoreDone
    BY <1>3 DEF Open, Openable, DisconnectInv, Unborn, Lost
  <2>3. QED
    BY <1>3, <1>1, <2>1, <2>2 DEF Open
<1>4. ASSUME NEW p \in Procs, Release(p)
      PROVE  RefInv' /\ kref' \in Nat
  <2>1. /\ Cardinality(files') = Cardinality(files) - 1
        /\ IsFiniteSet(files')
    BY <1>4, <1>1, FS_RemoveElement DEF Release
  <2>2. Cardinality(files') = 0 <=> files' = {}
    BY <2>1, FS_EmptySet
  <2>3. Cardinality(files') \in Nat
    BY <2>1, FS_CardinalityType
  <2>4. pc[Core] # "absent"
    BY <1>4 DEF Release, DisconnectInv, Unborn
  <2>5. pc' = pc /\ kref' = kref - 1
    BY <1>4 DEF Release
  <2>6. freed' <=> kref' = 0
    BY <1>4 DEF Release
  <2>7. kref' = Cardinality(files') + (IF CoreDone' THEN 0 ELSE 1)
    BY <1>1, <2>1, <2>3, <2>5
  <2>8. kref' = 0 <=> files' = {} /\ pc'[Core] = "gone"
    BY <2>2, <2>3, <2>4, <2>5, <2>7
  <2>9. QED
    BY <2>3, <2>6, <2>7, <2>8
<1> USE <1>1, <1>2 DEF TypeOK, Actors, LabelInv, ProcPc, Step, Goto, LeaveRead, refVars
<1>5. ASSUME NEW p \in Procs, BeginWrite(p) \/ BeginFlush(p) \/ BeginRead(p)
      PROVE  RefInv' /\ kref' \in Nat
  BY <1>5 DEF BeginWrite, BeginFlush, BeginRead, Call
<1>6. ASSUME NEW p \in Procs, WriteStep(p)
      PROVE  RefInv' /\ kref' \in Nat
  BY <1>6
  DEF WriteStep, TakePermit, RefuseWrite, CheckErrors, ClearErrors, Allocate, LockWrite,
      Submit, Unanchor, GiveBack
<1>7. ASSUME NEW p \in Procs, ReadStep(p)
      PROVE  RefInv' /\ kref' \in Nat
  BY <1>7
  DEF ReadStep, LockRead, EnterRead, LoopRead, WaitRead, ReadErrors, ReadClears, ReadData,
      StartRead, SubmitRead
<1>8. ASSUME NEW p \in Procs, FlushStep(p) \/ DrawDown(p) \/ Signal(p)
      PROVE  RefInv' /\ kref' \in Nat
  BY <1>8
  DEF FlushStep, LockFlush, ReportFlush, DrawDown, Drain, KillWrites, KillRead, Signal
<1>9. CASE ProbeBegins \/ ProbeAllocates \/ ProbeRegisters
  BY <1>9 DEF ProbeBegins, ProbeAllocates, ProbeRegisters, DisconnectInv, Unborn
<1>10. CASE ProbeFails
  <2>1. files' = {} /\ files = {} /\ ~CoreDone
    BY <1>10 DEF ProbeFails, DisconnectInv, Unborn
  <2>2. kref' = 0 /\ pc'[Core] = "gone"
    BY <1>10, <2>1 DEF ProbeFails
  <2>3. freed' <=> kref' = 0
    BY <1>10 DEF ProbeFails
  <2>4. QED
    BY <2>1, <2>2, <2>3
<1>11. CASE Suspend \/ ResetBegins \/ DisconnectBegins
  BY <1>11 DEF Suspend, ResetBegins, DisconnectBegins
<1>12. CASE DisconnectEnds
  <2>1. files' = files /\ kref' = kref - 1 /\ pc'[Core] = "gone" /\ ~CoreDone
    BY <1>12 DEF DisconnectEnds
  <2>2. kref' = Cardinality(files)
    BY <2>1
  <2>3. freed' <=> kref' = 0
    BY <1>12 DEF DisconnectEnds
  <2>4. QED
    BY <2>1, <2>2, <2>3
<1>13. CASE CoreStep /\ ~DisconnectEnds
  BY <1>13
  DEF CoreStep, PreReset, PostReset, Deregister, LockDisconnect, SetDisconnected,
      DisconnectKills, DrawDown, Drain, KillWrites, KillRead
<1>14. CASE Complete
  BY <1>14 DEF Complete, CompleteWrite, CompleteRead
<1>15. QED
  BY <1>3, <1>4, <1>5, <1>6, <1>7, <1>8, <1>9, <1>10, <1>11, <1>12, <1>13, <1>14
  DEF Next, Begin, ProcStep, ProbeStep

-----------------------------------------------------------------------------
(* The permits *)

Holders == {p \in Procs : pc[p] \in Permitted}

One(b) == IF b THEN 1 ELSE 0

\* A process that moves takes or gives up at most its own permit.
LEMMA HoldersMove ==
    ASSUME TypeOK, NEW p \in Procs, NEW there, Goto(p, there)
    PROVE  /\ Cardinality(Holders) \in Nat /\ Cardinality(Holders') \in Nat
           /\ Cardinality(Holders')
                = Cardinality(Holders) + One(there \in Permitted) - One(pc[p] \in Permitted)
           /\ pc[p] \in Permitted => Cardinality(Holders) > 0
<1>1. Holders \in SUBSET Procs
  BY DEF Holders
<1>2. IsFiniteSet(Holders) /\ Cardinality(Holders) \in Nat
  BY <1>1, ActorsAssumption, FS_Subset, FS_CardinalityType
<1>3. /\ pc'[p] = there
      /\ \A q \in Procs : q # p => pc'[q] = pc[q]
  BY DEF TypeOK, Goto, Actors
<1>4. CASE there \in Permitted
  <2>1. Holders' = Holders \cup {p}
    BY <1>3, <1>4 DEF Holders
  <2>2. Cardinality(Holders') = IF p \in Holders THEN Cardinality(Holders)
                                ELSE Cardinality(Holders) + 1
    BY <1>2, <2>1, FS_AddElement
  <2>3. p \in Holders <=> pc[p] \in Permitted
    BY DEF Holders
  <2>4. p \in Holders => Cardinality(Holders) # 0
    BY <1>2, FS_EmptySet
  <2>5. QED
    BY <1>2, <1>4, <2>2, <2>3, <2>4 DEF One
<1>5. CASE there \notin Permitted
  <2>1. Holders' = Holders \ {p}
    BY <1>3, <1>5 DEF Holders
  <2>2. Cardinality(Holders') = IF p \in Holders THEN Cardinality(Holders) - 1
                                ELSE Cardinality(Holders)
    BY <1>2, <2>1, FS_RemoveElement
  <2>3. p \in Holders <=> pc[p] \in Permitted
    BY DEF Holders
  <2>4. p \in Holders => Cardinality(Holders) # 0
    BY <1>2, FS_EmptySet
  <2>5. QED
    BY <1>2, <1>5, <2>2, <2>3, <2>4 DEF One
<1>6. QED
  BY <1>4, <1>5

\* The hub thread has no permit.
LEMMA HoldersStay ==
    ASSUME TypeOK, \A p \in Procs : pc'[p] = pc[p]
    PROVE  Holders' = Holders /\ Cardinality(Holders) \in Nat
<1>1. Holders' = Holders
  BY DEF Holders
<1>2. Holders \in SUBSET Procs
  BY DEF Holders
<1>3. Cardinality(Holders) \in Nat
  BY <1>2, ActorsAssumption, FS_Subset, FS_CardinalityType
<1>4. QED
  BY <1>1, <1>3

PermitsTyped == limit_sem \in 0 .. WRITES_IN_FLIGHT /\ submitted \in 0 .. WRITES_IN_FLIGHT

LEMMA PermitsStep ==
    ASSUME TypeOK, LabelInv, PermitsConserved, Next
    PROVE  PermitsConserved' /\ PermitsTyped'
<1> DEFINE Goal == PermitsConserved' /\ PermitsTyped'
<1> USE ActorsAssumption, LimitAssumption
    DEF PermitsConserved, PermitsTyped, Permitted, One, writeVars, readVars, callVars
<1>1. limit_sem \in Nat /\ submitted \in Nat
  BY DEF TypeOK
<1>2. limit_sem + submitted + Cardinality(Holders) = WRITES_IN_FLIGHT
  BY DEF Holders
<1>3. limit_sem' + submitted' + Cardinality(Holders') = WRITES_IN_FLIGHT
        => PermitsConserved'
  BY DEF Holders
<1> USE <1>1, <1>2, <1>3
<1>4. ASSUME NEW p \in Procs, Open(p) \/ Release(p)
      PROVE  Goal
  <2>1. \A q \in Procs : pc'[q] = pc[q]
    BY <1>4 DEF Open, Release
  <2>2. limit_sem' = limit_sem /\ submitted' = submitted
    BY <1>4 DEF Open, Release
  <2>3. QED
    BY <2>1, <2>2, HoldersStay
<1>5. ASSUME NEW p \in Procs, BeginWrite(p) \/ BeginFlush(p) \/ BeginRead(p)
      PROVE  Goal
  <2>1. /\ \E there \in {"w_down", "f_lock", "r_lock"} : Goto(p, there)
        /\ pc[p] = "idle" /\ limit_sem' = limit_sem /\ submitted' = submitted
    BY <1>5 DEF BeginWrite, BeginFlush, BeginRead, Call, Step
  <2>2. QED
    BY <2>1, HoldersMove
<1>6. ASSUME NEW p \in Procs, WriteStep(p)
      PROVE  Goal
  <2>1. CASE TakePermit(p)
    <3>1. /\ Goto(p, "w_errors") /\ pc[p] = "w_down"
          /\ limit_sem > 0 /\ limit_sem' = limit_sem - 1 /\ submitted' = submitted
      BY <2>1 DEF TakePermit, Step
    <3>2. QED
      BY <3>1, HoldersMove
  <2>2. CASE RefuseWrite(p)
    <3>1. /\ Goto(p, "idle") /\ pc[p] = "w_down"
          /\ limit_sem' = limit_sem /\ submitted' = submitted
      BY <2>2 DEF RefuseWrite, Step
    <3>2. QED
      BY <3>1, HoldersMove
  <2>3. CASE CheckErrors(p) \/ ClearErrors(p) \/ Allocate(p) \/ LockWrite(p) \/ Unanchor(p)
    <3>1. /\ \E there \in Permitted : Goto(p, there)
          /\ pc[p] \in Permitted /\ limit_sem' = limit_sem /\ submitted' = submitted
      BY <2>3 DEF CheckErrors, ClearErrors, Allocate, LockWrite, Unanchor, Step
    <3>2. QED
      BY <3>1, HoldersMove
  <2>4. CASE Submit(p)
    <3>1. /\ limit_sem' = limit_sem /\ pc[p] = "w_submit"
          /\ \/ Goto(p, "idle") /\ submitted' = submitted + 1
             \/ \E there \in {"w_up", "w_unanchor"} :
                  Goto(p, there) /\ submitted' = submitted
      BY <2>4 DEF Submit, Step
    <3>2. CASE Goto(p, "idle") /\ submitted' = submitted + 1
      BY <3>1, <3>2, HoldersMove
    <3>3. CASE \E there \in {"w_up", "w_unanchor"} : Goto(p, there) /\ submitted' = submitted
      BY <3>1, <3>3, HoldersMove
    <3>4. QED
      BY <3>1, <3>2, <3>3
  <2>5. CASE GiveBack(p)
    <3>1. /\ Goto(p, "idle") /\ pc[p] = "w_up"
          /\ limit_sem' = limit_sem + 1 /\ submitted' = submitted
      BY <2>5 DEF GiveBack, Step
    <3>2. QED
      BY <3>1, HoldersMove
  <2>6. QED
    BY <1>6, <2>1, <2>2, <2>3, <2>4, <2>5 DEF WriteStep
<1>7. ASSUME NEW p \in Procs, ReadStep(p) \/ FlushStep(p) \/ DrawDown(p) \/ Signal(p)
      PROVE  Goal
  <2>1. /\ \E there \in Pc \ Permitted : Goto(p, there)
        /\ pc[p] \notin Permitted /\ limit_sem' = limit_sem /\ submitted' = submitted
    BY <1>7
    DEF LabelInv, ReadStep, LockRead, EnterRead, LoopRead, WaitRead, ReadErrors, ReadClears,
        ReadData, StartRead, SubmitRead, LeaveRead, FlushStep, LockFlush, ReportFlush,
        DrawDown, Drain, KillWrites, KillRead, Signal, Step, Pc, ReaderPc, WriterPc,
        DrawDownPc
  <2>2. QED
    BY <2>1, HoldersMove
<1>8. ASSUME ProbeStep \/ Suspend \/ ResetBegins \/ DisconnectBegins \/ CoreStep
      PROVE  Goal
  <2>1. (\E there : Goto(Core, there)) /\ limit_sem' = limit_sem /\ submitted' = submitted
    BY <1>8
    DEF ProbeStep, ProbeBegins, ProbeAllocates, ProbeRegisters, ProbeFails, Suspend,
        ResetBegins, DisconnectBegins, CoreStep, PreReset, PostReset, Deregister,
        LockDisconnect, SetDisconnected, DisconnectKills, DisconnectEnds, DrawDown, Drain,
        KillWrites, KillRead, Step
  <2>2. \A q \in Procs : pc'[q] = pc[q]
    BY <2>1 DEF Goto, TypeOK
  <2>3. QED
    BY <2>1, <2>2, HoldersStay
<1>9. CASE CompleteWrite
  <2>1. /\ \A q \in Procs : pc'[q] = pc[q]
        /\ submitted > 0 /\ submitted' = submitted - 1 /\ limit_sem' = limit_sem + 1
    BY <1>9 DEF CompleteWrite
  <2>2. QED
    BY <2>1, HoldersStay
<1>10. CASE CompleteRead
  <2>1. /\ \A q \in Procs : pc'[q] = pc[q]
        /\ limit_sem' = limit_sem /\ submitted' = submitted
    BY <1>10 DEF CompleteRead
  <2>2. QED
    BY <2>1, HoldersStay
<1>11. QED
  BY <1>4, <1>5, <1>6, <1>7, <1>8, <1>9, <1>10 DEF Next, Begin, ProcStep, Complete

-----------------------------------------------------------------------------
(* Nothing is submitted before registration and after disconnection *)

LEMMA DisconnectStep ==
    ASSUME TypeOK, LabelInv, LockInv, DisconnectInv, Next
    PROVE  DisconnectInv'
<1> USE ActorsAssumption
    DEF TypeOK, Actors, LabelInv, ProcPc, CorePc, WriterPc, ReaderPc, DrawDownPc, Step, Goto,
        Acquire, Unlock, LeaveRead, DisconnectInv, Unborn, Killed, Lost, coreVars, refVars,
        writeVars, readVars, bufferVars, callVars
<1>1. ASSUME NEW p \in Procs, Open(p) \/ Release(p)
      PROVE  DisconnectInv'
  BY <1>1 DEF Open, Openable, Release
<1>2. ASSUME NEW p \in Procs, BeginWrite(p) \/ BeginFlush(p) \/ BeginRead(p)
      PROVE  DisconnectInv'
  BY <1>2 DEF BeginWrite, BeginFlush, BeginRead, Call
<1>3. ASSUME NEW p \in Procs, WriteStep(p)
      PROVE  DisconnectInv'
  BY <1>3
  DEF WriteStep, TakePermit, RefuseWrite, CheckErrors, ClearErrors, Allocate, LockWrite,
      Submit, Unanchor, GiveBack
<1>4. ASSUME NEW p \in Procs, ReadStep(p)
      PROVE  DisconnectInv'
  BY <1>4
  DEF ReadStep, LockRead, EnterRead, LoopRead, WaitRead, ReadErrors, ReadClears, ReadData,
      StartRead, SubmitRead
<1>5. ASSUME NEW p \in Procs, FlushStep(p) \/ DrawDown(p) \/ Signal(p)
      PROVE  DisconnectInv'
  BY <1>5
  DEF FlushStep, LockFlush, ReportFlush, DrawDown, Drain, KillWrites, KillRead, Signal
<1>6. CASE ProbeStep \/ Suspend \/ ResetBegins \/ DisconnectBegins
  BY <1>6
  DEF ProbeStep, ProbeBegins, ProbeAllocates, ProbeRegisters, ProbeFails, Suspend,
      ResetBegins, DisconnectBegins
<1>7. CASE SetDisconnected
  BY <1>7 DEF SetDisconnected, LockInv, HoldsLock, Locked
<1>8. CASE DisconnectKills
  BY <1>8 DEF DisconnectKills, Anchored
<1>9. CASE CoreStep /\ ~SetDisconnected /\ ~DisconnectKills
  BY <1>9
  DEF CoreStep, PreReset, PostReset, Deregister, LockDisconnect, DisconnectEnds, DrawDown,
      Drain, KillWrites, KillRead
<1>10. CASE Complete
  BY <1>10 DEF Complete, CompleteWrite, CompleteRead
<1>11. QED
  BY <1>1, <1>2, <1>3, <1>4, <1>5, <1>6, <1>7, <1>8, <1>9, <1>10
  DEF Next, Begin, ProcStep

-----------------------------------------------------------------------------
(* The read URB, its mark and its buffer *)

ReadTyped == reading \in 0 .. BulkInSize /\ ongoing_read \in BOOLEAN

LEMMA ReadInvStep ==
    ASSUME TypeOK, LabelInv, LockInv, ReadInv, BytesOnce, Next
    PROVE  ReadInv' /\ ReadTyped'
<1> DEFINE Goal == ReadInv' /\ ReadTyped'
<1> USE ActorsAssumption, SizesAssumption
    DEF TypeOK, Actors, LabelInv, ProcPc, WriterPc, ReaderPc, DrawDownPc, Step, Goto,
        Unlock, LeaveRead, LockInv, HoldsLock, Locked, ReadInv, ReadTyped, coreVars, refVars,
        writeVars, readVars, bufferVars, callVars
<1>1. ASSUME NEW p \in Procs, Open(p) \/ Release(p)
      PROVE  Goal
  BY <1>1 DEF Open, Release
<1>2. ASSUME NEW p \in Procs, BeginWrite(p) \/ BeginFlush(p) \/ BeginRead(p)
      PROVE  Goal
  BY <1>2 DEF BeginWrite, BeginFlush, BeginRead, Call
<1>3. ASSUME NEW p \in Procs, WriteStep(p)
      PROVE  Goal
  BY <1>3
  DEF WriteStep, TakePermit, RefuseWrite, CheckErrors, ClearErrors, Allocate, LockWrite,
      Submit, Unanchor, GiveBack
<1>4. ASSUME NEW p \in Procs,
             \/ LockRead(p) \/ EnterRead(p) \/ LoopRead(p) \/ WaitRead(p)
             \/ ReadErrors(p) \/ ReadClears(p)
      PROVE  Goal
  BY <1>4 DEF LockRead, EnterRead, LoopRead, WaitRead, ReadErrors, ReadClears
<1>5. ASSUME NEW p \in Procs, ReadData(p)
      PROVE  Goal
  BY <1>5 DEF ReadData, Available, Least, BytesOnce
<1>6. ASSUME NEW p \in Procs, StartRead(p)
      PROVE  Goal
  BY <1>6 DEF StartRead
<1>7. ASSUME NEW p \in Procs, SubmitRead(p)
      PROVE  Goal
  <2>1. /\ pc[p] = "r_submit" /\ ongoing_read /\ reading = 0
        /\ count[p] \in Nat /\ count[p] > 0
    BY <1>7 DEF SubmitRead
  <2>2. \A q \in Procs : q # p => pc'[q] = pc[q] /\ pc[q] \notin Locked
    BY <1>7, <2>1 DEF SubmitRead
  <2>3. UNCHANGED bufferVars
    BY <1>7 DEF SubmitRead
  <2>4. CASE reading' = Least(BulkInSize, count[p]) /\ ongoing_read' = ongoing_read
    <3>1. reading' \in 1 .. BulkInSize
      BY <2>1, <2>4 DEF Least
    <3>2. pc'[p] \in {"idle", "r_loop"}
      BY <1>7, <2>1, <2>4, <3>1 DEF SubmitRead
    <3>3. QED
      BY <2>1, <2>2, <2>3, <2>4, <3>1, <3>2
  <2>5. CASE ongoing_read' = FALSE /\ reading' = reading
    <3>1. pc'[p] \in {"idle", "r_loop"}
      BY <1>7, <2>1, <2>5 DEF SubmitRead
    <3>2. ~ongoing_read' /\ reading' = 0
      BY <2>1, <2>5
    <3>3. \A q \in Procs : pc'[q] \notin {"r_io", "r_submit"}
      BY <2>2, <3>1
    <3>4. ReadInv'
      BY <3>2, <3>3
    <3>5. ReadTyped'
      BY <2>5, <3>2
    <3>6. QED
      BY <3>4, <3>5
  <2>6. QED
    BY <1>7, <2>4, <2>5 DEF SubmitRead
<1>8. ASSUME NEW p \in Procs, FlushStep(p) \/ DrawDown(p) \/ Signal(p)
      PROVE  Goal
  BY <1>8
  DEF FlushStep, LockFlush, ReportFlush, DrawDown, Drain, KillWrites, KillRead, Signal
<1>9. CASE ProbeStep \/ Suspend \/ ResetBegins \/ DisconnectBegins
  BY <1>9
  DEF ProbeStep, ProbeBegins, ProbeAllocates, ProbeRegisters, ProbeFails, Suspend,
      ResetBegins, DisconnectBegins
<1>10. CASE CoreStep
  BY <1>10
  DEF CoreStep, PreReset, PostReset, Deregister, LockDisconnect, SetDisconnected,
      DisconnectKills, DisconnectEnds, DrawDown, Drain, KillWrites, KillRead
<1>11. CASE CompleteWrite
  BY <1>11 DEF CompleteWrite
<1>12. CASE CompleteRead
  <2>1. /\ reading > 0 /\ reading' = 0 /\ ongoing_read' = FALSE /\ pc' = pc
        /\ bulk_in_copied' = bulk_in_copied
    BY <1>12 DEF CompleteRead
  <2>2. \A p \in Procs : pc'[p] \notin {"r_io", "r_submit"}
    BY <2>1
  <2>3. ~ongoing_read'
    BY <2>1
  <2>4. ReadInv'
    BY <2>1, <2>2, <2>3
  <2>5. ReadTyped'
    BY <2>1
  <2>6. QED
    BY <2>4, <2>5
<1>13. QED
  BY <1>1, <1>2, <1>3, <1>4, <1>5, <1>6, <1>7, <1>8, <1>9, <1>10, <1>11, <1>12
  DEF Next, Begin, ProcStep, ReadStep, Complete

LEMMA BytesStep ==
    ASSUME TypeOK, LabelInv, ReadInv, BytesOnce, Next
    PROVE  /\ BytesOnce'
           /\ bulk_in_filled' \in 0 .. BulkInSize /\ bulk_in_copied' \in 0 .. BulkInSize
           /\ given' \in Nat /\ shown' \in Nat
<1> DEFINE Goal ==
      /\ BytesOnce'
      /\ bulk_in_filled' \in 0 .. BulkInSize /\ bulk_in_copied' \in 0 .. BulkInSize
      /\ given' \in Nat /\ shown' \in Nat
<1> USE SizesAssumption DEF TypeOK, BytesOnce, Available
<1>1. ASSUME NEW p \in Procs, ReadData(p)
      PROVE  Goal
  <2>1. count[p] \in Nat
    OBVIOUS
  <2>2. Least(Available, count[p]) \in 0 .. Available
    BY <2>1 DEF Least
  <2>3. QED
    BY <1>1, <2>2 DEF ReadData
<1>2. ASSUME NEW p \in Procs, StartRead(p)
      PROVE  Goal
  BY <1>2 DEF StartRead, ReadInv, Step
<1>3. CASE CompleteRead
  BY <1>3 DEF CompleteRead, ReadInv
<1>4. UNCHANGED bufferVars => Goal
  BY DEF bufferVars
<1> USE DEF readVars
<1>5. ASSUME NEW p \in Procs, Begin(p) \/ WriteStep(p)
      PROVE  UNCHANGED bufferVars
  BY <1>5
  DEF Begin, Open, Release, BeginWrite, BeginFlush, BeginRead, Call, WriteStep, TakePermit,
      RefuseWrite, CheckErrors, ClearErrors, Allocate, LockWrite, Submit, Unanchor, GiveBack
<1>6. ASSUME NEW p \in Procs, ReadStep(p), ~ReadData(p), ~StartRead(p)
      PROVE  UNCHANGED bufferVars
  BY <1>6
  DEF ReadStep, LockRead, EnterRead, LoopRead, WaitRead, ReadErrors, ReadClears, SubmitRead
<1>7. ASSUME NEW p \in Procs, FlushStep(p) \/ DrawDown(p) \/ Signal(p)
      PROVE  UNCHANGED bufferVars
  BY <1>7
  DEF FlushStep, LockFlush, ReportFlush, DrawDown, Drain, KillWrites, KillRead, Signal
<1>8. ASSUME ProbeStep \/ Suspend \/ ResetBegins \/ DisconnectBegins \/ CoreStep
      PROVE  UNCHANGED bufferVars
  BY <1>8
  DEF ProbeStep, ProbeBegins, ProbeAllocates, ProbeRegisters, ProbeFails, Suspend,
      ResetBegins, DisconnectBegins, CoreStep, PreReset, PostReset, Deregister,
      LockDisconnect, SetDisconnected, DisconnectKills, DisconnectEnds, DrawDown, Drain,
      KillWrites, KillRead
<1>9. CompleteWrite => UNCHANGED bufferVars
  BY DEF CompleteWrite
<1>10. QED
  BY <1>1, <1>2, <1>3, <1>4, <1>5, <1>6, <1>7, <1>8, <1>9 DEF Next, ProcStep, Complete

-----------------------------------------------------------------------------
(* Drawing down *)

LEMMA DrawDownStep ==
    ASSUME TypeOK, LabelInv, LockInv, ReadInv, DrawDownInv, Next
    PROVE  DrawDownInv'
<1> USE ActorsAssumption
    DEF TypeOK, Actors, LabelInv, ProcPc, CorePc, WriterPc, ReaderPc, DrawDownPc, Step, Goto,
        Acquire, Unlock, LeaveRead, LockInv, HoldsLock, Locked, DrawDownInv, coreVars,
        refVars, writeVars, readVars, bufferVars, callVars
<1>1. ASSUME NEW p \in Procs, Open(p) \/ Release(p)
      PROVE  DrawDownInv'
  BY <1>1 DEF Open, Release
<1>2. ASSUME NEW p \in Procs, BeginWrite(p) \/ BeginFlush(p) \/ BeginRead(p)
      PROVE  DrawDownInv'
  BY <1>2 DEF BeginWrite, BeginFlush, BeginRead, Call
<1>3. ASSUME NEW p \in Procs, WriteStep(p)
      PROVE  DrawDownInv'
  BY <1>3
  DEF WriteStep, TakePermit, RefuseWrite, CheckErrors, ClearErrors, Allocate, LockWrite,
      Submit, Unanchor, GiveBack
<1>4. ASSUME NEW p \in Procs, ReadStep(p)
      PROVE  DrawDownInv'
  BY <1>4
  DEF ReadStep, LockRead, EnterRead, LoopRead, WaitRead, ReadErrors, ReadClears, ReadData,
      StartRead, SubmitRead
<1>5. ASSUME NEW a \in Actors, DrawDown(a)
      PROVE  DrawDownInv'
  <2>1. CASE Drain(a) \/ KillWrites(a)
    BY <2>1 DEF Drain, KillWrites, Anchored
  <2>2. CASE KillRead(a)
    <3>1. pc[a] = "kill_read" /\ reading = 0 /\ back[a] # "bound" => ~ongoing_read
      BY <2>2 DEF KillRead, ReadInv
    <3>2. QED
      BY <2>2, <3>1 DEF KillRead
  <2>3. QED
    BY <1>5, <2>1, <2>2 DEF DrawDown
<1>6. ASSUME NEW p \in Procs, FlushStep(p) \/ Signal(p)
      PROVE  DrawDownInv'
  BY <1>6 DEF FlushStep, LockFlush, ReportFlush, Signal
<1>7. CASE ProbeStep \/ Suspend \/ ResetBegins \/ DisconnectBegins
  BY <1>7
  DEF ProbeStep, ProbeBegins, ProbeAllocates, ProbeRegisters, ProbeFails, Suspend,
      ResetBegins, DisconnectBegins
<1>8. CASE CoreStep /\ ~DrawDown(Core)
  BY <1>8
  DEF CoreStep, PreReset, PostReset, Deregister, LockDisconnect, SetDisconnected,
      DisconnectKills, DisconnectEnds
<1>9. CASE Complete
  BY <1>9 DEF Complete, CompleteWrite, CompleteRead, ReadInv
<1>10. QED
  BY <1>1, <1>2, <1>3, <1>4, <1>5, <1>6, <1>7, <1>8, <1>9
  DEF Next, Begin, ProcStep, CoreStep

-----------------------------------------------------------------------------
(* Types *)

\* What is left of TypeOK when references, permits and buffer are accounted for.
Typed ==
    /\ pc \in [Actors -> Pc]
    /\ back \in [Actors -> {"f_report", "post_reset", "bound"}]
    /\ io_mutex \in Actors \cup {Nobody}
    /\ attached \in BOOLEAN /\ registered \in BOOLEAN
    /\ disconnected \in BOOLEAN /\ freed \in BOOLEAN
    /\ errors \in Statuses \cup {"none"}
    /\ count \in [Procs -> Nat]
    /\ served \in [Procs -> BOOLEAN]
    /\ files \subseteq Procs
    /\ calls \in 0 .. MaxCalls

LEMMA TypedStep ==
    ASSUME TypeOK, LabelInv, BytesOnce, Next
    PROVE  Typed'
<1> USE ActorsAssumption, SizesAssumption
    DEF TypeOK, Typed, Actors, Pc, CorePc, WriterPc, ReaderPc, DrawDownPc, Statuses, Step,
        Goto, Acquire, Unlock, LeaveRead, coreVars, refVars, writeVars, readVars, bufferVars,
        callVars
<1>1. ASSUME NEW p \in Procs, Open(p) \/ Release(p)
      PROVE  Typed'
  <2>1. CASE Open(p)
    BY <2>1 DEF Open
  <2>2. CASE Release(p)
    <3>1. freed' \in BOOLEAN
      BY <2>2 DEF Release, Put
    <3>2. QED
      BY <2>2, <3>1 DEF Release
  <2>3. QED
    BY <1>1, <2>1, <2>2
<1>2. ASSUME NEW p \in Procs, BeginWrite(p) \/ BeginFlush(p) \/ BeginRead(p)
      PROVE  Typed'
  <2>1. /\ pc' \in [Actors -> Pc] /\ calls' \in 0 .. MaxCalls
        /\ UNCHANGED <<io_mutex, errors, coreVars, refVars, back>>
    BY <1>2 DEF BeginWrite, BeginFlush, BeginRead, Call
  <2>2. count' \in [Procs -> Nat] /\ served' \in [Procs -> BOOLEAN]
    BY <1>2 DEF BeginWrite, BeginFlush, BeginRead
  <2>3. QED
    BY <2>1, <2>2
<1>3. ASSUME NEW p \in Procs, WriteStep(p)
      PROVE  Typed'
  BY <1>3
  DEF WriteStep, TakePermit, RefuseWrite, CheckErrors, ClearErrors, Allocate, LockWrite,
      Submit, Unanchor, GiveBack
<1>4. ASSUME NEW p \in Procs, ReadData(p)
      PROVE  Typed'
  <2>1. count[p] \in Nat /\ Available \in Nat
    BY DEF Available, BytesOnce
  <2>2. /\ Least(Available, count[p]) \in Nat
        /\ count[p] - Least(Available, count[p]) \in Nat
    BY <2>1 DEF Least
  <2>3. count' \in [Procs -> Nat]
    BY <1>4, <2>2 DEF ReadData
  <2>4. served' \in [Procs -> BOOLEAN]
    BY <1>4, Zenon DEF ReadData
  <2>5. /\ pc' \in [Actors -> Pc] /\ io_mutex' \in Actors \cup {Nobody}
        /\ UNCHANGED <<errors, coreVars, refVars, back, calls>>
    BY <1>4 DEF ReadData
  <2>6. QED
    BY <2>3, <2>4, <2>5
<1>5. ASSUME NEW p \in Procs, ReadStep(p), ~ReadData(p)
      PROVE  Typed'
  BY <1>5
  DEF ReadStep, LockRead, EnterRead, LoopRead, WaitRead, ReadErrors, ReadClears, StartRead,
      SubmitRead
<1>6. ASSUME NEW a \in Actors, DrawDown(a)
      PROVE  Typed'
  BY <1>6 DEF DrawDown, Drain, KillWrites, KillRead
<1>7. ASSUME NEW p \in Procs, FlushStep(p) \/ Signal(p)
      PROVE  Typed'
  BY <1>7 DEF FlushStep, LockFlush, ReportFlush, Signal
<1>8. CASE ProbeFails \/ DisconnectEnds
  <2>1. freed' \in BOOLEAN
    BY <1>8 DEF ProbeFails, DisconnectEnds, Put
  <2>2. /\ pc' \in [Actors -> Pc]
        /\ attached' \in BOOLEAN /\ registered' \in BOOLEAN /\ disconnected' \in BOOLEAN
        /\ UNCHANGED <<io_mutex, errors, files, callVars>>
    BY <1>8 DEF ProbeFails, DisconnectEnds
  <2>3. QED
    BY <2>1, <2>2
<1>9. CASE ProbeBegins \/ ProbeAllocates \/ ProbeRegisters
  <2>1. pc' \in [Actors -> Pc]
    BY <1>9 DEF ProbeBegins, ProbeAllocates, ProbeRegisters
  <2>2. /\ registered' \in BOOLEAN
        /\ UNCHANGED <<io_mutex, errors, attached, disconnected, freed, files, callVars>>
    BY <1>9 DEF ProbeBegins, ProbeAllocates, ProbeRegisters
  <2>3. QED
    BY <2>1, <2>2
<1>10. CASE Suspend \/ ResetBegins \/ DisconnectBegins
  <2>1. /\ pc' \in [Actors -> Pc]
        /\ back' \in [Actors -> {"f_report", "post_reset", "bound"}]
    BY <1>10 DEF Suspend, ResetBegins, DisconnectBegins
  <2>2. /\ attached' \in BOOLEAN
        /\ UNCHANGED <<io_mutex, errors, registered, disconnected, refVars, count, served,
                       calls>>
    BY <1>10 DEF Suspend, ResetBegins, DisconnectBegins
  <2>3. QED
    BY <2>1, <2>2
<1>11. CASE PreReset \/ PostReset \/ LockDisconnect
  <2>1. /\ pc' \in [Actors -> Pc]
        /\ back' \in [Actors -> {"f_report", "post_reset", "bound"}]
    BY <1>11 DEF PreReset, PostReset, LockDisconnect
  <2>2. /\ io_mutex' \in Actors \cup {Nobody} /\ errors' \in Statuses \cup {"none"}
        /\ UNCHANGED <<coreVars, refVars, count, served, calls>>
    BY <1>11 DEF PreReset, PostReset, LockDisconnect
  <2>3. QED
    BY <2>1, <2>2
<1>12. CASE Deregister \/ SetDisconnected \/ DisconnectKills
  <2>1. pc' \in [Actors -> Pc]
    BY <1>12 DEF Deregister, SetDisconnected, DisconnectKills
  <2>2. /\ io_mutex' \in Actors \cup {Nobody}
        /\ registered' \in BOOLEAN /\ disconnected' \in BOOLEAN
        /\ UNCHANGED <<errors, attached, refVars, callVars>>
    BY <1>12 DEF Deregister, SetDisconnected, DisconnectKills
  <2>3. QED
    BY <2>1, <2>2
<1>13. CASE Complete
  BY <1>13 DEF Complete, CompleteWrite, CompleteRead
<1>14. QED
  BY <1>1, <1>2, <1>3, <1>4, <1>5, <1>6, <1>7, <1>8, <1>9, <1>10, <1>11, <1>12, <1>13
  DEF Next, Begin, ProcStep, ProbeStep, CoreStep

-----------------------------------------------------------------------------
(* The theorems *)

LEMMA InitIInv ==
    ASSUME Init
    PROVE  IInv
<1> USE ActorsAssumption, LimitAssumption, SizesAssumption DEF Init, Actors
<1>1. TypeOK
  <2>1. pc \in [Actors -> Pc]
    BY DEF Pc, CorePc
  <2>2. /\ back \in [Actors -> {"f_report", "post_reset", "bound"}]
        /\ count \in [Procs -> Nat] /\ served \in [Procs -> BOOLEAN]
    OBVIOUS
  <2>3. /\ io_mutex \in Actors \cup {Nobody} /\ errors \in Statuses \cup {"none"}
        /\ attached \in BOOLEAN /\ registered \in BOOLEAN
        /\ disconnected \in BOOLEAN /\ freed \in BOOLEAN /\ ongoing_read \in BOOLEAN
        /\ files \subseteq Procs
    OBVIOUS
  <2>4. /\ kref \in Nat /\ calls \in 0 .. MaxCalls /\ given \in Nat /\ shown \in Nat
        /\ limit_sem \in 0 .. WRITES_IN_FLIGHT /\ submitted \in 0 .. WRITES_IN_FLIGHT
        /\ reading \in 0 .. BulkInSize /\ bulk_in_filled \in 0 .. BulkInSize
        /\ bulk_in_copied \in 0 .. BulkInSize
    OBVIOUS
  <2>5. QED
    BY <2>1, <2>2, <2>3, <2>4 DEF TypeOK
<1>2. LabelInv /\ LockInv
  BY DEF LabelInv, ProcPc, CorePc, ReaderPc, LockInv, HoldsLock, Locked, DrawDownPc
<1>3. RefInv
  BY FS_EmptySet DEF RefInv, CoreDone
<1>4. DisconnectInv /\ ReadInv /\ DrawDownInv /\ BytesOnce
  BY DEF DisconnectInv, Unborn, Lost, Killed, ReadInv, DrawDownInv, BytesOnce, Available
<1>5. PermitsConserved
  <2>1. {p \in Procs : pc[p] \in Permitted} = {}
    BY DEF Permitted
  <2>2. QED
    BY <2>1, FS_EmptySet DEF PermitsConserved
<1>6. QED
  BY <1>1, <1>2, <1>3, <1>4, <1>5 DEF IInv

LEMMA NextIInv ==
    ASSUME IInv, [Next]_vars
    PROVE  IInv'
<1>1. CASE Next
  <2>1. LabelInv' /\ LockInv' /\ DisconnectInv' /\ DrawDownInv' /\ Typed'
    BY <1>1, LabelsStep, LockStep, DisconnectStep, DrawDownStep, TypedStep DEF IInv
  <2>2. RefInv' /\ kref' \in Nat
    BY <1>1, ReferencesStep DEF IInv
  <2>3. ReadInv' /\ ReadTyped'
    BY <1>1, ReadInvStep DEF IInv
  <2>4. PermitsConserved' /\ PermitsTyped'
    BY <1>1, PermitsStep DEF IInv
  <2>5. /\ BytesOnce'
        /\ bulk_in_filled' \in 0 .. BulkInSize /\ bulk_in_copied' \in 0 .. BulkInSize
        /\ given' \in Nat /\ shown' \in Nat
    BY <1>1, BytesStep DEF IInv
  <2>6. TypeOK'
    BY <2>1, <2>2, <2>3, <2>4, <2>5 DEF TypeOK, Typed, ReadTyped, PermitsTyped
  <2>7. QED
    BY <2>1, <2>2, <2>3, <2>4, <2>5, <2>6 DEF IInv
<1>2. CASE UNCHANGED vars
  BY <1>2
  DEF IInv, vars, coreVars, refVars, writeVars, readVars, bufferVars, callVars, TypeOK,
      LabelInv, LockInv, HoldsLock, RefInv, CoreDone, DisconnectInv, ReadInv, DrawDownInv,
      PermitsConserved, BytesOnce, Available
<1>3. QED
  BY <1>1, <1>2

LEMMA Inductive == Spec => []IInv
<1>1. Init => IInv
  BY InitIInv
<1>2. IInv /\ [Next]_vars => IInv'
  BY NextIInv
<1>3. QED
  BY <1>1, <1>2, PTL DEF Spec

\* The device's state stays well typed: no count goes below zero and no permit is
\* created (usb-skeleton.c:49-65).
THEOREM TypeCorrect == Spec => []TypeOK
<1>1. IInv => TypeOK
  BY DEF IInv
<1>2. QED
  BY <1>1, Inductive, PTL

\* Every permit of limit_sem is accounted for, for any number of writers and of
\* writes in flight (usb-skeleton.c:374, :356, :462).
THEOREM PermitsAreConserved == Spec => []PermitsConserved
<1>1. IInv => PermitsConserved
  BY DEF IInv
<1>2. QED
  BY <1>1, Inductive, PTL

\* The device is freed when nobody uses it, for any number of files
\* (usb-skeleton.c:72, :582).
THEOREM FreedWhenUnused == Spec => []DeviceOutlivesUse
<1>1. IInv => DeviceOutlivesUse
  <2> SUFFICES ASSUME IInv, freed
               PROVE  /\ files = {} /\ submitted = 0 /\ reading = 0
                      /\ pc[Core] = "gone" /\ io_mutex = Nobody
    BY DEF DeviceOutlivesUse
  <2>1. files = {} /\ pc[Core] = "gone"
    BY DEF IInv, RefInv
  <2>2. submitted = 0 /\ reading = 0
    BY <2>1 DEF IInv, DisconnectInv, Killed
  <2>3. ASSUME NEW a \in Actors
        PROVE  ~HoldsLock(a)
    BY <2>1, <2>3 DEF IInv, LabelInv, HoldsLock, Locked, DrawDownPc, Actors
  <2>4. io_mutex = Nobody
    BY <2>3 DEF IInv, LockInv, TypeOK
  <2>5. QED
    BY <2>1, <2>2, <2>4
<1>2. QED
  BY <1>1, Inductive, PTL

\* Once skel_disconnect has killed the URBs none is in flight again
\* (usb-skeleton.c:421, :573).
THEOREM DisconnectIsFinal == Spec => []NothingAfterDisconnect
<1>1. IInv => NothingAfterDisconnect
  BY DEF IInv, DisconnectInv, Killed, NothingAfterDisconnect
<1>2. QED
  BY <1>1, Inductive, PTL

\* skel_draw_down leaves flush and reset with no URB active (usb-skeleton.c:145, :626).
THEOREM DrawDownIsQuiet == Spec => []QuietAfterDrawDown
<1>1. IInv => QuietAfterDrawDown
  BY DEF IInv, DrawDownInv, QuietAfterDrawDown
<1>2. QED
  BY <1>1, Inductive, PTL

\* Every byte is handed out once, in any division into reads and transfers
\* (usb-skeleton.c:283-318).
THEOREM BytesAreReadOnce == Spec => []BytesOnce
<1>1. IInv => BytesOnce
  BY DEF IInv
<1>2. QED
  BY <1>1, Inductive, PTL

=============================================================================
