-------------------------- MODULE CharFile_proofs --------------------------
(***************************************************************************)
(* Proofs about CharFile, for any processes, files, devices and sizes.     *)
(***************************************************************************)
EXTENDS CharFile, TLAPS

\* Where a loop over the devices goes stays a device.
LEMMA IndicesLemma ==
    ASSUME driver \in Drivers
    PROVE  Indices \subseteq 0 .. Number - 1 /\ 0 \in Indices
BY NumberAssumption DEF Indices

\* What is left of a count is a number.
LEMMA ClipLemma ==
    ASSUME NEW at \in Nat, NEW count \in Nat
    PROVE  Clip(at, count) \in Int /\ at + Clip(at, count) <= Size
BY SizeAssumption DEF Clip

\* A copy hands over no more than it was asked for, and never less than
\* nothing.
LEMMA CopiedLemma ==
    ASSUME NEW c \in Call, NEW n \in Copied(c)
    PROVE  n \in Nat /\ (n <= c.n \/ (n = 0 /\ c.at >= Size))
<1>1. c.n \in Int /\ c.at \in Nat
  BY DEF Call
<1>2. CASE IsCommand(c.op)
  BY <1>1, <1>2, SizeAssumption DEF Copied
<1>3. CASE ~IsCommand(c.op) /\ driver = "text"
  BY <1>1, <1>3, SizeAssumption DEF Copied
<1>4. CASE ~IsCommand(c.op) /\ driver # "text"
  BY <1>1, <1>4 DEF Copied
<1>5. QED
  BY <1>2, <1>3, <1>4
\* What a step of init or exit keeps of the types.
ModuleTypes ==
    /\ driver \in Drivers
    /\ step \in AtRest \cup MakeSteps \cup UndoSteps
    /\ index \in 0 .. Number - 1
    /\ ret \in {"ok", "error", "zero", "garbage"}
    /\ exiting \in BOOLEAN /\ region \in BOOLEAN /\ class \in BOOLEAN
    /\ cdevs \subseteq 0 .. Number - 1
    /\ nodes \subseteq 0 .. Number - 1

\* init and exit keep their types, wherever they fail (pcd_n.c:213-291,
\* pcd.c:116-177).
LEMMA ModuleTypeStep ==
    ASSUME ModuleTypes, AllocRegion \/ RegisterChrdev \/ ModuleStep \/ ExitBegins
    PROVE  ModuleTypes'
<1> USE DEF ModuleTypes, AtRest, MakeSteps, UndoSteps
<1>0. 0 \in 0 .. Number - 1
  BY NumberAssumption
<1>1. CASE AllocRegion
  BY <1>0, <1>1 DEF AllocRegion, UNCHANGED_files
<1>2. CASE CreateClass
  BY <1>2 DEF CreateClass
<1>3. CASE CdevAdd
  BY <1>3 DEF CdevAdd
<1>4. CASE DeviceCreate
  <2>1. index' \in 0 .. Number - 1
    BY <1>4, NumberAssumption DEF DeviceCreate
  <2>2. nodes' \subseteq 0 .. Number - 1
    BY <1>4 DEF DeviceCreate
  <2>3. step' \in {"cdev", "live", "undo_class", "undo_node"}
    BY <1>4 DEF DeviceCreate
  <2>4. ret' \in {ret, "error"}
        /\ UNCHANGED <<driver, exiting, region, class, cdevs>>
    BY <1>4 DEF DeviceCreate
  <2>5. QED
    BY <2>1, <2>2, <2>3, <2>4
<1>5. CASE ExitBegins
  BY <1>5, NumberAssumption DEF ExitBegins
<1>6. CASE DestroyNode
  BY <1>6 DEF DestroyNode
<1>7. CASE DeleteCdev
  BY <1>7, IndicesLemma DEF DeleteCdev
<1>8. CASE DestroyClass
  BY <1>8 DEF DestroyClass
<1>9. CASE UnregisterRegion
  BY <1>9 DEF UnregisterRegion
<1>10. CASE RegisterChrdev
  BY <1>0, <1>10 DEF RegisterChrdev
<1>11. QED
  BY <1>1, <1>2, <1>3, <1>4, <1>5, <1>6, <1>7, <1>8, <1>9, <1>10 DEF ModuleStep

\* The state of devices, files and calls stays well typed.
THEOREM TypeCorrect == Spec => []TypeOK
<1>1. Init => TypeOK
  <2> SUFFICES ASSUME Init
               PROVE  TypeOK
    OBVIOUS
  <2>1. 0 \in 0 .. Number - 1
    BY NumberAssumption
  <2>2. /\ step \in AtRest /\ region \in BOOLEAN /\ class \in BOOLEAN
        /\ cdevs \subseteq {0} /\ nodes \subseteq {0}
    BY DEF Init, AtRest
  <2>3. /\ file \in [Files -> {Closed}] /\ f_pos \in [Files -> {0}]
    BY DEF Init
  <2>4. pc \in [Procs -> {"idle"}] /\ call \in [Procs -> {NoCall}]
    BY DEF Init
  <2>5. driver \in Drivers /\ index = 0 /\ ret = "ok" /\ exiting = FALSE
    BY DEF Init
  <2>6. /\ file \in [Files -> {Closed} \cup (0 .. Number - 1) \X Modes]
        /\ f_pos \in [Files -> Nat]
    BY <2>3
  <2>7. /\ pc \in [Procs -> {"idle", "copy", "return", "tell"}]
        /\ call \in [Procs -> Call \cup {NoCall}]
    BY <2>4
  <2>8. \A p \in Procs : pc[p] = "idle"
    BY <2>4
  <2>9. cdevs \subseteq 0 .. Number - 1 /\ nodes \subseteq 0 .. Number - 1
    BY <2>1, <2>2
  <2>10. QED
    BY <2>1, <2>2, <2>5, <2>6, <2>7, <2>8, <2>9 DEF TypeOK
<1>2. TypeOK /\ [Next]_vars => TypeOK'
  <2> SUFFICES ASSUME TypeOK, [Next]_vars
               PROVE  TypeOK'
    OBVIOUS
  <2>0. ModuleTypes
    BY DEF TypeOK, ModuleTypes
  <2>1. CASE AllocRegion \/ RegisterChrdev \/ ModuleStep \/ ExitBegins
    <3>1. ModuleTypes'
      BY <2>0, <2>1, ModuleTypeStep
    <3>2. UNCHANGED_files
      BY <2>1 DEF AllocRegion, RegisterChrdev, ModuleStep, ExitBegins, CreateClass, CdevAdd,
                  DeviceCreate, DestroyNode, DeleteCdev, DestroyClass,
                  UnregisterRegion
    <3>3. QED
      BY <3>1, <3>2 DEF TypeOK, ModuleTypes, UNCHANGED_files
  <2>2. ASSUME NEW f \in Files, NEW d \in Indices, NEW mode \in Modes,
               Open(f, d, mode)
        PROVE  TypeOK'
    <3>1. <<d, mode>> \in (0 .. Number - 1) \X Modes
      BY IndicesLemma DEF TypeOK
    <3>2. QED
      BY <2>2, <3>1 DEF Open, TypeOK, moduleVars
  <2>3. ASSUME NEW f \in Files, Release(f)
        PROVE  TypeOK'
    BY <2>3 DEF Release, TypeOK, moduleVars
  <2>4. ASSUME NEW p \in Procs, NEW f \in Files, NEW op \in {"read", "write"},
               NEW own \in BOOLEAN, NEW count \in 0 .. MaxPosition,
               StartIO(p, f, op, own, count)
        PROVE  TypeOK'
    <3>1. PICK at \in IF own THEN {f_pos[f]} ELSE 0 .. MaxPosition :
             call' = [call EXCEPT ![p] =
               [file |-> f, op |-> op, own |-> own, at |-> at,
                n |-> IF IsCommand(op) THEN count ELSE Clip(at, count)]]
      BY <2>4 DEF StartIO
    <3>2. at \in Nat /\ count \in Nat
      BY SizeAssumption DEF TypeOK
    <3>3. call'[p] \in Call
      BY <3>1, <3>2, ClipLemma DEF TypeOK, Call
    <3>4. QED
      BY <2>4, <3>1, <3>3 DEF StartIO, TypeOK, moduleVars
  <2>5. ASSUME NEW p \in Procs, NEW f \in Files, NEW target \in Nat,
               Seek(p, f, target)
        PROVE  TypeOK'
    <3>1. call'[p] \in Call
      BY <2>5 DEF Seek, TypeOK, Call
    <3>2. QED
      BY <2>5, <3>1 DEF Seek, TypeOK, moduleVars
  <2>6. ASSUME NEW p \in Procs, CopyDone(p)
        PROVE  TypeOK'
    <3>1. PICK n \in Copied(call[p]) : call' = [call EXCEPT ![p].n = n]
      BY <2>6 DEF CopyDone
    <3>2. call[p] \in Call
      BY <2>6 DEF CopyDone, TypeOK
    <3>3. n \in Nat
      BY <3>2, CopiedLemma
    <3>4. call'[p] \in Call /\ call'[p].n = n
      BY <3>1, <3>2, <3>3 DEF TypeOK, Call
    <3>5. QED
      BY <2>6, <3>1, <3>3, <3>4 DEF CopyDone, TypeOK, moduleVars
  <2>7. ASSUME NEW p \in Procs, CopyFails(p)
        PROVE  TypeOK'
    BY <2>7 DEF CopyFails, Return, TypeOK, moduleVars
  <2>8. ASSUME NEW p \in Procs, FinishIO(p)
        PROVE  TypeOK'
    <3>1. /\ call[p].file \in Files /\ call[p].at \in Nat
          /\ call[p].n \in Int /\ call[p].n >= 0
      BY <2>8 DEF FinishIO, TypeOK, Call
    <3>2. call[p].at + call[p].n \in Nat
      BY <3>1
    <3>3. f_pos' \in [Files -> Nat]
      BY <2>8, <3>2 DEF FinishIO, TypeOK
    <3>4. QED
      BY <2>8, <3>3 DEF FinishIO, Return, TypeOK, moduleVars
  <2>9. ASSUME NEW p \in Procs, Tell(p)
        PROVE  TypeOK'
    <3>1. call[p].file \in Files
      BY <2>9 DEF Tell, TypeOK, Call
    <3>2. QED
      BY <2>9, <3>1 DEF Tell, Return, TypeOK, moduleVars
  <2>10. CASE UNCHANGED vars
    BY <2>10 DEF vars, moduleVars, TypeOK
  <2>11. \A target \in 0 .. MaxPosition : target \in Nat
    BY SizeAssumption
  <2>12. QED
    BY <2>1, <2>2, <2>3, <2>4, <2>5, <2>6, <2>7, <2>8, <2>9, <2>10, <2>11
    DEF Next
<1>3. QED
  BY <1>1, <1>2, PTL DEF Spec
---------------------------------------------------------------------------
(* Positions and the buffer.  A call has clipped its count against the     *)
(* position it works on; and a position it will store was one of the file, *)
(* at which there is no more than the rest of the buffer.                  *)

Fits(p) ==
    LET c == call[p]
    IN  (pc[p] \in {"copy", "return"} /\ ~IsCommand(c.op))
          => /\ c.n > 0 => c.at + c.n <= Size
             /\ (driver # "modbus" /\ c.own)
                  => c.at <= Size /\ c.at + c.n <= Size

BufferInv == PositionInRange /\ \A p \in Procs : Fits(p)

\* Who does not touch positions, calls and the driver keeps the invariant.
LEMMA BufferStutter ==
    ASSUME BufferInv, UNCHANGED <<driver, f_pos, pc, call>>
    PROVE  BufferInv'
BY DEF BufferInv, PositionInRange, Fits, IsCommand

\* What a call works on changes for that call only.
LEMMA FitsElsewhere ==
    ASSUME TypeOK, BufferInv, NEW p \in Procs, NEW q \in Procs \ {p},
           UNCHANGED driver,
           pc' = [pc EXCEPT ![p] = pc'[p]], call' = [call EXCEPT ![p] = call'[p]]
    PROVE  Fits(q)'
<1>1. pc'[q] = pc[q] /\ call'[q] = call[q]
  BY DEF TypeOK
<1>2. Fits(q)
  BY DEF BufferInv
<1>3. QED
  BY <1>1, <1>2 DEF Fits, IsCommand

\* A read or write begins inside its limits.
LEMMA StartFits ==
    ASSUME TypeOK, BufferInv, NEW p \in Procs, NEW f \in Files,
           NEW op \in {"read", "write"}, NEW own \in BOOLEAN,
           NEW count \in 0 .. MaxPosition, StartIO(p, f, op, own, count)
    PROVE  BufferInv'
<1>1. PICK at \in IF own THEN {f_pos[f]} ELSE 0 .. MaxPosition :
         call' = [call EXCEPT ![p] =
           [file |-> f, op |-> op, own |-> own, at |-> at,
            n |-> IF IsCommand(op) THEN count ELSE Clip(at, count)]]
  BY DEF StartIO
<1>2. at \in Nat /\ count \in Nat
  BY SizeAssumption DEF TypeOK
<1>3. call'[p] = [file |-> f, op |-> op, own |-> own, at |-> at,
                  n |-> IF IsCommand(op) THEN count ELSE Clip(at, count)]
  BY <1>1 DEF TypeOK
<1>4. UNCHANGED <<driver, f_pos>> /\ pc' = [pc EXCEPT ![p] = "copy"]
  BY DEF StartIO, moduleVars
<1>5. PositionInRange'
  BY <1>4 DEF BufferInv, PositionInRange
<1>6. (driver # "modbus" /\ own) => at <= Size
  BY DEF BufferInv, PositionInRange
<1>7. ~IsCommand(op) => at + Clip(at, count) <= Size
  BY <1>2, ClipLemma
<1>8. Fits(p)'
  BY <1>3, <1>4, <1>6, <1>7 DEF Fits, IsCommand
<1>9. \A q \in Procs \ {p} : Fits(q)'
  <2>1. pc' = [pc EXCEPT ![p] = pc'[p]] /\ call' = [call EXCEPT ![p] = call'[p]]
    BY <1>1, <1>4 DEF TypeOK
  <2>2. QED
    BY <1>4, <2>1, FitsElsewhere
<1>10. QED
  BY <1>5, <1>8, <1>9 DEF BufferInv

\* A copy, whole or partial, stays inside them.
LEMMA CopyFits ==
    ASSUME TypeOK, BufferInv, NEW p \in Procs, CopyDone(p)
    PROVE  BufferInv'
<1>1. PICK n \in Copied(call[p]) : call' = [call EXCEPT ![p].n = n]
  BY DEF CopyDone
<1>2. call[p] \in Call /\ pc[p] = "copy"
  BY DEF CopyDone, TypeOK
<1>3. n \in Nat /\ (n <= call[p].n \/ (n = 0 /\ call[p].at >= Size))
  BY <1>2, CopiedLemma
<1>4. call'[p] = [call[p] EXCEPT !.n = n]
  BY <1>1 DEF TypeOK
<1>5. /\ call'[p].n = n /\ call'[p].at = call[p].at
      /\ call'[p].own = call[p].own /\ call'[p].op = call[p].op
  BY <1>2, <1>4 DEF Call
<1>6. UNCHANGED <<driver, f_pos>> /\ pc' = [pc EXCEPT ![p] = "return"]
  BY DEF CopyDone, moduleVars
<1>7. call[p].at \in Nat /\ call[p].n \in Int
  BY <1>2 DEF Call
<1>8. PositionInRange'
  BY <1>6 DEF BufferInv, PositionInRange
<1>9. Fits(p)'
  <2>1. Fits(p)
    BY DEF BufferInv
  <2>2. QED
    BY <1>2, <1>3, <1>5, <1>6, <1>7, <2>1, SizeAssumption DEF Fits, IsCommand
<1>10. \A q \in Procs \ {p} : Fits(q)'
  <2>1. pc' = [pc EXCEPT ![p] = pc'[p]] /\ call' = [call EXCEPT ![p] = call'[p]]
    BY <1>4, <1>1, <1>6 DEF TypeOK
  <2>2. QED
    BY <1>6, <2>1, FitsElsewhere
<1>11. QED
  BY <1>8, <1>9, <1>10 DEF BufferInv

\* A call that ends stores a position in range or none.
LEMMA EndFits ==
    ASSUME TypeOK, BufferInv, NEW p \in Procs,
           CopyFails(p) \/ FinishIO(p) \/ Tell(p)
    PROVE  BufferInv'
<1>1. /\ UNCHANGED driver /\ pc' = [pc EXCEPT ![p] = "idle"]
      /\ call' = [call EXCEPT ![p] = NoCall]
  BY DEF CopyFails, FinishIO, Tell, Return, moduleVars
<1>2. Fits(p)'
  BY <1>1 DEF Fits, TypeOK
<1>3. \A q \in Procs \ {p} : Fits(q)'
  <2>1. pc' = [pc EXCEPT ![p] = pc'[p]] /\ call' = [call EXCEPT ![p] = call'[p]]
    BY <1>1 DEF TypeOK
  <2>2. QED
    BY <1>1, <2>1, FitsElsewhere
<1>4. PositionInRange'
  <2>1. CASE CopyFails(p) \/ Tell(p)
    BY <1>1, <2>1 DEF CopyFails, Tell, BufferInv, PositionInRange
  <2>2. CASE FinishIO(p) /\ driver = "modbus"
    BY <1>1, <2>2 DEF PositionInRange
  <2>3. CASE FinishIO(p) /\ driver # "modbus" /\ ~call[p].own
    BY <1>1, <2>3 DEF FinishIO, BufferInv, PositionInRange
  <2>4. CASE FinishIO(p) /\ driver # "modbus" /\ call[p].own
    <3>1. Fits(p) /\ pc[p] = "return"
      BY <2>4 DEF BufferInv, FinishIO
    <3>2. call[p].at + call[p].n <= Size
      BY <2>4, <3>1 DEF Fits, IsCommand
    <3>3. f_pos' = [f_pos EXCEPT ![call[p].file] = call[p].at + call[p].n]
      BY <2>4 DEF FinishIO
    <3>4. QED
      BY <1>1, <2>4, <3>2, <3>3 DEF BufferInv, PositionInRange, TypeOK
  <2>5. QED
    BY <2>1, <2>2, <2>3, <2>4
<1>5. QED
  BY <1>2, <1>3, <1>4 DEF BufferInv

\* llseek stores a position in range, whoever reads or writes meanwhile.
LEMMA SeekFits ==
    ASSUME TypeOK, BufferInv, NEW p \in Procs, NEW f \in Files,
           NEW target \in Nat, Seek(p, f, target)
    PROVE  BufferInv'
<1>1. /\ UNCHANGED driver /\ pc' = [pc EXCEPT ![p] = "tell"]
      /\ f_pos' = [f_pos EXCEPT ![f] = target] /\ target <= Size
  BY SizeAssumption DEF Seek, moduleVars, Targets
<1>2. PositionInRange'
  BY <1>1 DEF BufferInv, PositionInRange, TypeOK
<1>3. Fits(p)'
  BY <1>1 DEF Fits, TypeOK
<1>4. \A q \in Procs \ {p} : Fits(q)'
  <2>1. pc' = [pc EXCEPT ![p] = pc'[p]]
    BY <1>1 DEF TypeOK
  <2>2. call' = [call EXCEPT ![p] = call'[p]]
    BY DEF Seek, TypeOK
  <2>3. QED
    BY <1>1, <2>1, <2>2, FitsElsewhere
<1>5. QED
  BY <1>2, <1>3, <1>4 DEF BufferInv
LEMMA BufferStep ==
    ASSUME TypeOK, BufferInv, [Next]_vars
    PROVE  BufferInv'
<1>1. CASE AllocRegion \/ RegisterChrdev \/ ModuleStep \/ ExitBegins
  <2>1. UNCHANGED <<driver, f_pos, pc, call>>
    BY <1>1 DEF AllocRegion, RegisterChrdev, ModuleStep, ExitBegins, CreateClass, CdevAdd,
                DeviceCreate, DestroyNode, DeleteCdev, DestroyClass,
                UnregisterRegion, UNCHANGED_files
  <2>2. QED
    BY <2>1, BufferStutter
<1>2. ASSUME NEW f \in Files, NEW d \in Indices, NEW mode \in Modes,
             Open(f, d, mode)
      PROVE  BufferInv'
  BY <1>2, BufferStutter DEF Open, moduleVars
<1>3. ASSUME NEW f \in Files, Release(f)
      PROVE  BufferInv'
  <2>1. UNCHANGED <<driver, pc, call>> /\ f_pos' = [f_pos EXCEPT ![f] = 0]
    BY <1>3 DEF Release, moduleVars
  <2>2. PositionInRange'
    BY <2>1, SizeAssumption DEF BufferInv, PositionInRange, TypeOK
  <2>3. \A p \in Procs : Fits(p)'
    BY <2>1 DEF BufferInv, Fits, IsCommand
  <2>4. QED
    BY <2>2, <2>3 DEF BufferInv
<1>4. CASE UNCHANGED vars
  BY <1>4, BufferStutter DEF vars, moduleVars
<1>5. \A target \in 0 .. MaxPosition : target \in Nat
  BY SizeAssumption
<1>6. QED
  BY <1>1, <1>2, <1>3, <1>4, <1>5, StartFits, CopyFits, EndFits, SeekFits
  DEF Next

LEMMA BufferInvariant == Spec => []BufferInv
<1>1. Init => BufferInv
  BY SizeAssumption DEF Init, BufferInv, PositionInRange, Fits
<1>2. QED
  BY <1>1, BufferStep, TypeCorrect, PTL DEF Spec

\* However many users share a file and however their reads, writes and seeks
\* overlap, its position stays in the buffer or at its end (pcd.c:23-94,
\* pcd_n.c:75-155).
THEOREM PositionsStayInRange == Spec => []PositionInRange
<1>1. BufferInv => PositionInRange
  BY DEF BufferInv
<1>2. QED
  BY <1>1, BufferInvariant, PTL

\* No read or write of the drivers over a buffer of bytes reaches past it, at
\* whatever position it starts (pcd.c:43-94, pcd_n.c:97-155, hello_cdev.c,
\* serdev_syscalls.c).
THEOREM AccessesStayInBounds == Spec => []AccessInBounds
<1>1. BufferInv => AccessInBounds
  BY DEF BufferInv, AccessInBounds, Fits, IsCommand
<1>2. QED
  BY <1>1, BufferInvariant, PTL

---------------------------------------------------------------------------
(* What is registered at each step of init and exit.  Below and Above are  *)
(* the devices already made, or not yet destroyed.                         *)

Below(n) == {d \in Indices : d < n}
Above(n) == {d \in Indices : d >= n}

Nothing == cdevs = {} /\ nodes = {} /\ ~class /\ ~region
Everything == cdevs = Indices /\ nodes = Indices /\ class /\ region

(* Rest(cs, ns): at most these are left, and nodes have their cdevs.       *)
Rest(cs, ns) == cdevs \subseteq cs /\ nodes \subseteq ns /\ nodes \subseteq cdevs

Left(n) == IF exiting THEN Above(n) ELSE Below(n + 1)
LeftAfter(n) == IF exiting THEN Above(n + 1) ELSE Below(n)

MultipleInv ==
    /\ step \in {"class", "cdev", "node"} => ~exiting
    /\ step = "class" => cdevs = {} /\ nodes = {} /\ ~class /\ region /\ index = 0
    /\ step = "cdev" => cdevs = Below(index) /\ nodes = Below(index) /\ class /\ region
    /\ step = "node" => cdevs = Below(index + 1) /\ nodes = Below(index) /\ class /\ region
    /\ step = "undo_node" => Rest(Left(index), Left(index))
    /\ step = "undo_cdev" => Rest(Left(index), LeftAfter(index))
    /\ step = "undo_class" => cdevs = {} /\ nodes = {}
    /\ step = "undo_region" => cdevs = {} /\ nodes = {} /\ ~class

SingleInv ==
    /\ step = "cdev" => cdevs = {} /\ nodes = {} /\ ~class /\ region
    /\ step = "class" => cdevs = {0} /\ nodes = {} /\ ~class /\ region
    /\ step = "node" => cdevs = {0} /\ nodes = {} /\ class /\ region
    /\ step = "undo_node" => exiting /\ Rest({0}, {0})
    /\ step = "undo_class" => nodes = {} /\ cdevs \subseteq {0}
    /\ step = "undo_cdev" => nodes = {} /\ ~class /\ cdevs \subseteq {0}
    /\ step = "undo_region" => nodes = {} /\ ~class /\ cdevs = {}

TextInv ==
    /\ nodes = {} /\ ~class
    /\ \/ step = "out"
       \/ step \in {"live", "undo_region"} /\ region /\ cdevs = {0}
    /\ step = "undo_region" => exiting

ModuleInv ==
    /\ step = "out" => Nothing
    /\ (step = "live" /\ driver # "text") => Nothing \/ Everything
    /\ nodes # {} => class /\ region
    /\ nodes \subseteq cdevs
    /\ driver = "pcd_n" => MultipleInv
    /\ driver = "pcd" => SingleInv /\ index = 0
    /\ driver = "text" => TextInv
    /\ driver \notin Loads => step = "live" /\ Everything

\* Each step of init, of its error paths and of exit keeps the table
\* (pcd.c:116-177, pcd_n.c:213-291).
LEMMA ModuleInvStep ==
    ASSUME TypeOK, ModuleInv, AllocRegion \/ RegisterChrdev \/ ModuleStep \/ ExitBegins
    PROVE  ModuleInv'
<1> USE DEF ModuleInv, Loads, AtRest
<1>1. driver \in Drivers /\ index \in 0 .. Number - 1 /\ cdevs \subseteq 0 .. Number - 1
  BY DEF TypeOK
<1>2. (driver = "pcd_n" => Indices = 0 .. Number - 1)
      /\ (driver # "pcd_n" => Indices = {0}) /\ (UNCHANGED driver => Indices' = Indices)
  BY DEF Indices
<1>3. CASE driver = "pcd"
  <2> USE <1>1, <1>2, <1>3 DEF SingleInv, Nothing, Everything, Rest
  <2>1. CASE AllocRegion
    BY <2>1 DEF AllocRegion
  <2>2. CASE CreateClass
    BY <2>2 DEF CreateClass
  <2>3. CASE CdevAdd
    BY <2>3 DEF CdevAdd
  <2>4. CASE DeviceCreate
    BY <2>4 DEF DeviceCreate
  <2>5. CASE ExitBegins
    BY <2>5 DEF ExitBegins
  <2>6. CASE DestroyNode
    BY <2>6 DEF DestroyNode
  <2>7. CASE DeleteCdev
    BY <2>7 DEF DeleteCdev
  <2>8. CASE DestroyClass
    BY <2>8 DEF DestroyClass
  <2>9. CASE UnregisterRegion
    BY <2>9 DEF UnregisterRegion
  <2>10. QED
    BY <2>1, <2>2, <2>3, <2>4, <2>5, <2>6, <2>7, <2>8, <2>9
    DEF ModuleStep, RegisterChrdev
<1>4. CASE driver = "pcd_n"
  <2> USE <1>1, <1>2, <1>4, NumberAssumption
      DEF MultipleInv, Nothing, Everything, Rest, Left, LeftAfter, Above, Below
  <2>1. CASE AllocRegion
    BY <2>1 DEF AllocRegion
  <2>2. CASE CreateClass
    <3>1. Below(0) = {}
      OBVIOUS
    <3>2. step = "class" /\ UNCHANGED <<driver, index, exiting, region, cdevs, nodes>>
      BY <2>2 DEF CreateClass
    <3>3. (class' /\ step' = "cdev") \/ (~class' /\ step' = "undo_region")
      BY <2>2, <3>2 DEF CreateClass
    <3>4. Below(index)' = {} /\ cdevs' = {} /\ nodes' = {} /\ region'
      BY <3>1, <3>2
    <3>5. QED
      BY <3>2, <3>3, <3>4
  <2>3. CASE CdevAdd
    BY <2>3 DEF CdevAdd
  <2>4. CASE DeviceCreate
    <3>1. /\ step = "node" /\ UNCHANGED <<driver, exiting, region, class, cdevs>>
          /\ cdevs = Below(index + 1) /\ nodes = Below(index)
          /\ class /\ region /\ ~exiting
      BY <2>4 DEF DeviceCreate
    <3>2. CASE step' = "undo_node" /\ UNCHANGED <<index, nodes>>
      BY <3>1, <3>2
    <3>3. CASE /\ nodes' = nodes \cup {index} /\ index + 1 < Number
               /\ step' = "cdev" /\ index' = index + 1
      <4>1. nodes' = Below(index + 1)
        BY <3>1, <3>3
      <4>2. QED
        BY <3>1, <3>3, <4>1
    <3>4. CASE /\ nodes' = nodes \cup {index} /\ ~(index + 1 < Number)
               /\ step' = "live" /\ UNCHANGED index
      <4>1. nodes' = Indices /\ cdevs' = Indices
        BY <3>1, <3>4
      <4>2. QED
        BY <3>1, <3>4, <4>1
    <3>5. QED
      BY <2>4, <3>2, <3>3, <3>4 DEF DeviceCreate
  <2>5. CASE ExitBegins
    BY <2>5 DEF ExitBegins
  <2>6. CASE DestroyNode
    BY <2>6 DEF DestroyNode
  <2>7. CASE DeleteCdev
    BY <2>7 DEF DeleteCdev
  <2>8. CASE DestroyClass
    BY <2>8 DEF DestroyClass
  <2>9. CASE UnregisterRegion
    BY <2>9 DEF UnregisterRegion
  <2>10. QED
    BY <2>1, <2>2, <2>3, <2>4, <2>5, <2>6, <2>7, <2>8, <2>9
    DEF ModuleStep, RegisterChrdev
<1>5. CASE driver = "text"
  <2> USE <1>1, <1>5 DEF TextInv, Nothing
  <2>1. CASE RegisterChrdev
    BY <2>1 DEF RegisterChrdev
  <2>2. CASE ExitBegins
    BY <2>2 DEF ExitBegins
  <2>3. CASE UnregisterRegion
    BY <2>3 DEF UnregisterRegion
  <2>4. QED
    BY <2>1, <2>2, <2>3 DEF AllocRegion, ModuleStep, CreateClass, CdevAdd,
       DeviceCreate, DestroyNode, DeleteCdev, DestroyClass
<1>6. CASE driver \notin Loads
  BY <1>6 DEF ModuleStep, AllocRegion, RegisterChrdev, ExitBegins, CreateClass, CdevAdd,
              DeviceCreate, DestroyNode, DeleteCdev, DestroyClass,
              UnregisterRegion
<1>7. QED
  BY <1>3, <1>4, <1>5, <1>6
LEMMA ModuleInvStutter ==
    ASSUME ModuleInv, UNCHANGED moduleVars
    PROVE  ModuleInv'
BY DEF ModuleInv, MultipleInv, SingleInv, TextInv, Nothing, Everything, Rest, Left,
       LeftAfter, Above, Below, Indices, moduleVars

\* Files and calls leave the module's variables alone.
LEMMA FilesLeaveModule ==
    ASSUME [Next]_vars
    PROVE  \/ AllocRegion \/ RegisterChrdev \/ ModuleStep \/ ExitBegins
           \/ UNCHANGED moduleVars
BY DEF Next, Open, Release, StartIO, CopyDone, CopyFails, FinishIO, Seek, Tell,
       vars

LEMMA ModuleInvariant == Spec => []ModuleInv
<1>1. Init => ModuleInv
  BY DEF Init, ModuleInv, MultipleInv, SingleInv, TextInv, Nothing, Everything,
         Loads, Indices
<1>2. TypeOK /\ ModuleInv /\ [Next]_vars => ModuleInv'
  BY ModuleInvStep, ModuleInvStutter, FilesLeaveModule
<1>3. QED
  BY <1>1, <1>2, TypeCorrect, PTL DEF Spec

\* A node that can be opened has its cdev, its class and its region, at every
\* step of init and exit, for any number of devices (pcd_n.c:213-291).
THEOREM OpenableNodesAreServed == Spec => []NodesAreServed
<1>1. ModuleInv => NodesAreServed
  BY DEF ModuleInv, NodesAreServed
<1>2. QED
  BY <1>1, ModuleInvariant, PTL

\* Wherever init fails, it leaves all of its devices or none (pcd.c:159-167,
\* pcd_n.c:264-278).
THEOREM InitIsAllOrNothing == Spec => []AllOrNothing
<1>1. TypeOK /\ ModuleInv => AllOrNothing
  <2> SUFFICES ASSUME TypeOK, ModuleInv
               PROVE  AllOrNothing
    OBVIOUS
  <2>1. Indices # {} /\ class \in BOOLEAN /\ region \in BOOLEAN
    BY IndicesLemma DEF TypeOK
  <2>2. ASSUME step = "live"
        PROVE  /\ cdevs \in {{}, Indices} /\ region = (cdevs # {})
               /\ driver # "text" => nodes = cdevs /\ class = region
    <3>1. CASE Nothing
      BY <2>1, <3>1 DEF Nothing
    <3>2. CASE Everything
      BY <2>1, <3>2 DEF Everything
    <3>3. CASE driver = "text"
      BY <2>1, <2>2, <3>3 DEF ModuleInv, TextInv, Indices
    <3>4. QED
      BY <2>2, <3>1, <3>2, <3>3 DEF ModuleInv
  <2>3. step = "out" => nodes = {} /\ cdevs = {} /\ ~class /\ ~region
    BY DEF ModuleInv, Nothing
  <2>4. QED
    BY <2>2, <2>3 DEF AllOrNothing
<1>2. QED
  BY <1>1, TypeCorrect, ModuleInvariant, PTL

\* No file is open while "pcd" is being loaded or unloaded.
Free == {"pcd_n", "text"}

HeldInv ==
    (driver \notin Free /\ step # "live") => \A f \in Files : file[f] = Closed

LEMMA HeldStep ==
    ASSUME TypeOK, ModuleInv, HeldInv, [Next]_vars
    PROVE  HeldInv'
<1>1. CASE AllocRegion \/ RegisterChrdev \/ ModuleStep
  <2>1. UNCHANGED <<driver, file>> /\ (driver \in Free \/ step # "live")
    BY <1>1 DEF AllocRegion, RegisterChrdev, ModuleStep, CreateClass, CdevAdd, DeviceCreate,
                DestroyNode, DeleteCdev, DestroyClass, UnregisterRegion,
                UNCHANGED_files, Free
  <2>2. QED
    BY <2>1 DEF HeldInv
<1>2. CASE ExitBegins
  BY <1>2 DEF ExitBegins, UNCHANGED_files, HeldInv, Free
<1>3. ASSUME NEW f \in Files, NEW d \in Indices, NEW mode \in Modes,
             Open(f, d, mode)
      PROVE  HeldInv'
  <2>1. /\ driver \in Free \/ (~exiting /\ d \in nodes)
        /\ UNCHANGED <<driver, step>>
    BY <1>3 DEF Open, moduleVars, Free
  <2>2. CASE driver \in Free
    BY <2>1, <2>2 DEF HeldInv
  <2>3. CASE driver \notin Free /\ step = "live"
    BY <2>1, <2>3 DEF HeldInv
  <2>4. CASE driver \notin Free /\ step # "live"
    <3>1. driver = "pcd" /\ step \in MakeSteps \cup UndoSteps \cup {"out"}
      BY <2>4 DEF ModuleInv, Loads, TypeOK, AtRest, Free
    <3>2. nodes = {}
      BY <2>1, <2>4, <3>1
      DEF ModuleInv, SingleInv, Nothing, MakeSteps, UndoSteps, Free
    <3>3. QED
      BY <2>1, <2>4, <3>2
  <2>5. QED
    BY <2>2, <2>3, <2>4
<1>4. ASSUME NEW f \in Files, Release(f)
      PROVE  HeldInv'
  BY <1>4 DEF Release, HeldInv, TypeOK, moduleVars
<1>5. CASE UNCHANGED <<driver, step, file>>
  BY <1>5 DEF HeldInv
<1>6. QED
  BY <1>1, <1>2, <1>3, <1>4, <1>5
  DEF Next, StartIO, CopyDone, CopyFails, FinishIO, Seek, Tell, vars, moduleVars

\* Of every driver but "pcd_n" and "text", an open file holds the module
\* (pcd.c:106-114, .owner and try_module_get).
THEOREM ModulesAreHeld == Spec => []FilesHoldModule
<1>1. Init => HeldInv
  BY DEF Init, HeldInv
<1>2. HeldInv => FilesHoldModule
  BY DEF HeldInv, FilesHoldModule, Free
<1>3. QED
  BY <1>1, <1>2, HeldStep, TypeCorrect, ModuleInvariant, PTL DEF Spec
=============================================================================
