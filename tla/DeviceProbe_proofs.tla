------------------------- MODULE DeviceProbe_proofs -------------------------
(***************************************************************************)
(* Proofs about DeviceProbe, for any devices, drivers and worlds: its      *)
(* types, that at boot the count keeps the numbers dense, that rmmod       *)
(* leaves nothing, and that where numbers are consistent the kernel's map  *)
(* leads to the right device and to memory that is there.                  *)
(***************************************************************************)
EXTENDS DeviceProbe, SequenceTheorems, TLAPS

---------------------------------------------------------------------------
(* Taking one element out of a sequence.                                   *)
LEMMA WithoutType ==
    ASSUME NEW S, NEW s \in Seq(S), NEW k \in DOMAIN s
    PROVE  /\ Without(s, k) \in Seq(S)
           /\ Len(Without(s, k)) = Len(s) - 1
           /\ \A j \in 1 .. Len(s) - 1 :
                Without(s, k)[j] = IF j < k THEN s[j] ELSE s[j + 1]
<1> DEFINE t == Without(s, k)
<1>1. Len(s) \in Nat /\ DOMAIN s = 1 .. Len(s)
  OBVIOUS
<1>2. Len(s) - 1 \in Nat
  BY <1>1
<1>3. \A j \in 1 .. Len(s) - 1 : (IF j < k THEN s[j] ELSE s[j + 1]) \in S
  BY <1>1, <1>2
<1>4. t \in [1 .. Len(s) - 1 -> S]
  BY <1>3 DEF Without
<1>5. t \in Seq(S)
  BY <1>2, <1>4
<1>6. Len(t) = Len(s) - 1
  BY <1>2, <1>4, <1>5
<1> QED
  BY <1>5, <1>6 DEF Without

(* The steps of a probe are followed by steps of it.                       *)
LEMMA ThenType ==
    /\ \A step \in ProbeSteps \ {"store"} : Then(step) \in ProbeSteps
    /\ Then("pdata") = "private" /\ Then("private") = "buffer"
    /\ Then("buffer") = "number" /\ Then("number") = "cdev"
    /\ Then("cdev") = "node" /\ Then("node") \in {"attribute", "load"}
    /\ Then("attribute") = "values" /\ Then("values") = "load"
    /\ Then("load") = "store"
BY DEF Then, ProbeSteps

\* What a released device leaves behind is well typed.
LEMMA ReleaseType ==
    ASSUME TypeOK, NEW d \in Devices, Release(d)
    PROVE  /\ private' \subseteq Devices
           /\ dev_num' \in [Devices -> Int]
           /\ buffer' \in [Devices -> Nat]
           /\ num_val' \in [Devices -> Nat]
           /\ pc' \in [Devices -> Labels]
<1>1. private' \subseteq Devices /\ pc' \in [Devices -> Labels]
  BY DEF TypeOK, Release, Goto, Labels, Settled
<1>2. /\ dev_num' \in [Devices -> Int]
      /\ buffer' \in [Devices -> Nat]
      /\ num_val' \in [Devices -> Nat]
  BY DEF TypeOK, Release
<1> QED
  BY <1>1, <1>2

\* No step of the program takes a variable out of its type.
LEMMA TypeStep == TypeOK /\ [Next]_vars => TypeOK'
<1> SUFFICES ASSUME TypeOK, [Next]_vars
             PROVE  TypeOK'
  OBVIOUS
<1> USE DEF TypeOK, Labels, Settled, ProbeSteps, UnwindLabels, RemoveSteps,
            At, Goto, moduleVars, deviceVars, kernelVars
<1>1. CASE AllocRegion \/ CreateClass \/ Register \/ ExitBegins \/ ExitEnds
  BY <1>1 DEF AllocRegion, CreateClass, Register, ExitBegins, ExitEnds
<1>2. CASE Detach
  BY <1>2 DEF Detach
<1>3. ASSUME NEW d \in Devices, DeviceNext(d)
      PROVE  TypeOK'
  <2>1. CASE Probe(d)
    BY <2>1, ProbesAssumption DEF Probe
  <2>2. CASE GetPlatformData(d) \/ CreateAttribute(d)
    BY <2>2, ThenType DEF GetPlatformData, CreateAttribute
  <2>3. CASE AllocPrivate(d)
    BY <2>3, ThenType DEF AllocPrivate
  <2>4. CASE AllocBuffer(d)
    <3> DEFINE room == IF driver = "modbus" THEN num_val[d] ELSE Registers[d]
    <3>0. buffer \in [Devices -> Nat] /\ num_val \in [Devices -> Nat]
      OBVIOUS
    <3>a. room \in Nat
      BY RegistersAssumption
    <3>b. \/ /\ buffer' = [buffer EXCEPT ![d] = room]
             /\ num_val' = [num_val EXCEPT ![d] = room]
          \/ UNCHANGED <<buffer, num_val>>
      BY <2>4 DEF AllocBuffer
    <3> HIDE DEF room
    <3>1. buffer' \in [Devices -> Nat] /\ num_val' \in [Devices -> Nat]
      BY ONLY <3>0, <3>a, <3>b
    <3>2. pc' \in [Devices -> Labels]
      BY <2>4, ThenType DEF AllocBuffer
    <3> QED
      BY <2>4, <3>1, <3>2 DEF AllocBuffer
  <2>5. CASE TakeNumber(d)
    <3>1. dev_num' \in [Devices -> Int]
      BY <2>5, IdAssumption DEF TakeNumber
    <3> QED
      BY <2>5, <3>1, ThenType DEF TakeNumber
  <2>6. CASE CdevAdd(d)
    <3> DEFINE Entry == [minor : Int, of : Devices]
               e == [minor |-> dev_num[d], of |-> d]
    <3>1. e \in Entry /\ cdevs \in Seq(Entry)
      OBVIOUS
    <3>a. cdevs' = <<e>> \o cdevs \/ cdevs' = cdevs
      BY <2>6 DEF CdevAdd
    <3> HIDE DEF Entry, e
    <3>b. <<e>> \in Seq(Entry)
      BY ONLY <3>1
    <3>c. <<e>> \o cdevs \in Seq(Entry)
      BY ONLY <3>b, <3>1, ConcatProperties
    <3>2. cdevs' \in Seq([minor : Int, of : Devices])
      BY ONLY <3>a, <3>c, <3>1 DEF Entry
    <3> QED
      BY <2>6, <3>2, ThenType DEF CdevAdd
  <2>7. CASE DeviceCreate(d)
    BY <2>7, ThenType DEF DeviceCreate
  <2>8. CASE CreateValues(d)
    <3>1. num_val' = num_val \/ num_val' = [num_val EXCEPT ![d] = Registers[d]]
      BY ONLY <2>8 DEF CreateValues
    <3>2. num_val' \in [Devices -> Nat]
      BY ONLY TypeOK, <3>1, RegistersAssumption DEF TypeOK
    <3>3. pc' = [pc EXCEPT ![d] = "load"] \/ pc' = [pc EXCEPT ![d] = "dev_destroy"]
      BY ONLY <2>8, ThenType DEF CreateValues, At, Goto
    <3>4. pc' \in [Devices -> Labels]
      BY ONLY TypeOK, <3>3 DEF TypeOK, Labels, ProbeSteps, UnwindLabels
    <3> QED
      BY <2>8, <3>2, <3>4 DEF CreateValues
  <2>9. CASE LoadCount(d)
    BY <2>9, ThenType DEF LoadCount
  <2>10. CASE StoreCount(d)
    BY <2>10 DEF StoreCount
  <2>11. CASE DeviceDestroy(d)
    BY <2>11 DEF DeviceDestroy
  <2>12. CASE CdevDel(d)
    <3>1. cdevs' \in Seq([minor : Int, of : Devices])
      BY <2>12, WithoutType DEF CdevDel
    <3> QED
      BY <2>12, <3>1 DEF CdevDel
  <2>13. CASE ProbeFails(d)
    BY <2>13, ReleaseType DEF ProbeFails
  <2>14. CASE Unbind(d)
    BY <2>14 DEF Unbind
  <2>17. CASE LoadLess(d)
    BY <2>17 DEF LoadLess
  <2>15. CASE StoreLess(d)
    BY <2>15 DEF StoreLess
  <2>16. CASE Removed(d)
    <3>1. klist' \in Seq(Devices)
      BY <2>16, WithoutType DEF Removed
    <3> QED
      BY <2>16, <3>1, ReleaseType DEF Removed
  <2> QED
    BY <1>3, <2>1, <2>2, <2>3, <2>4, <2>5, <2>6, <2>7, <2>8, <2>9, <2>10,
       <2>11, <2>12, <2>13, <2>14, <2>15, <2>16, <2>17
       DEF DeviceNext
<1>4. ASSUME NEW f \in Files, Close(f) \/ \E d \in Devices : Open(f, d)
      PROVE  TypeOK'
  <2>1. CASE Close(f)
    BY <2>1 DEF Close
  <2>2. ASSUME NEW d \in Devices, Open(f, d)
        PROVE  TypeOK'
    <3>0. cdevs \in Seq([minor : Int, of : Devices])
      OBVIOUS
    <3>1. \A k \in DOMAIN cdevs : cdevs[k].of \in Devices
      <4>1. \A k \in 1 .. Len(cdevs) : cdevs[k] \in [minor : Int, of : Devices]
        BY ONLY <3>0, ElementOfSeq
      <4>2. DOMAIN cdevs = 1 .. Len(cdevs)
        BY ONLY <3>0
      <4> QED
        BY ONLY <4>1, <4>2
    <3>a. file \in [Files -> {Closed} \cup (Devices \X Devices)]
      OBVIOUS
    <3>b. PICK k \in DOMAIN cdevs : file' = [file EXCEPT ![f] = <<d, cdevs[k].of>>]
      BY <2>2 DEF Open
    <3>c. cdevs[k].of \in Devices
      BY <3>1
    <3>2. file' \in [Files -> {Closed} \cup (Devices \X Devices)]
      BY ONLY <3>a, <3>b, <3>c
    <3> QED
      BY <2>2, <3>2 DEF Open
  <2> QED
    BY <1>4, <2>1, <2>2
<1>5. CASE UNCHANGED vars
  BY <1>5 DEF vars
<1> QED
  BY <1>1, <1>2, <1>3, <1>4, <1>5 DEF Next

\* Every variable keeps its type; the count is an integer and no more, as
\* racing updates may leave it below zero.
THEOREM TypeCorrect == Spec => []TypeOK
<1>1. Init => TypeOK
  BY ProbesAssumption DEF Init, TypeOK, Labels, Settled
<1> QED
  BY <1>1, TypeStep, PTL DEF Spec

---------------------------------------------------------------------------
(* Why the numbers are dense: at boot one device at a time is moving, and  *)
(* the count is the length of the list except between the decrement of a   *)
(* removal and the end of it, which only the last of the list undergoes.   *)
Counting == world = "boot" /\ driver # "platform"

OneMoves ==
    \A d, e \in Devices : pc[d] \notin Settled /\ pc[e] \notin Settled => d = e

ListIsBound ==
    /\ module \in {"out", "region", "class"} => klist = <<>>
    /\ \A k \in 1 .. Len(klist) : pc[klist[k]] \in {"bound"} \cup RemoveSteps
    /\ \A j, k \in 1 .. Len(klist) : klist[j] = klist[k] => j = k

ProbesAreLive ==
    \A d \in Devices : pc[d] \in ProbeSteps => module = "live"

LastIsRemoved ==
    \A d \in Devices :
        pc[d] \in RemoveSteps => klist # <<>> /\ klist[Len(klist)] = d

CountIsLength ==
    /\ (\A d \in Devices : pc[d] # "r_release") => total_devices = Len(klist)
    /\ \A d \in Devices :
         /\ pc[d] = "r_release" => total_devices = Len(klist) - 1
         /\ pc[d] \in {"store", "r_store"} => loaded[d] = total_devices

NextNumber ==
    \A d \in Devices :
        pc[d] \in {"cdev", "node", "attribute", "values", "load", "store"} =>
            dev_num[d] = Len(klist)

DenseInv ==
    /\ TypeOK
    /\ Counting => /\ OneMoves /\ ListIsBound /\ ProbesAreLive /\ LastIsRemoved
                   /\ CountIsLength /\ NextNumber /\ NumbersAreDense

\* A step that stays within probe, or within remove, and changes neither the
\* count nor the list nor a number.
LEMMA StepKeepsDense ==
    ASSUME DenseInv, TypeOK', Counting, UNCHANGED <<moduleVars, total_devices, klist, dev_num>>,
           NEW d \in Devices, NEW step \in Labels \ Settled, Goto(d, step),
           \/ /\ pc[d] \in ProbeSteps \cup UnwindLabels
              /\ step \notin RemoveSteps \cup {"cdev"}
              /\ step \in ProbeSteps => pc[d] \in ProbeSteps
              /\ step \in {"node", "attribute", "values", "load", "store"} =>
                     pc[d] \in {"cdev", "node", "attribute", "values", "load"}
           \/ pc[d] \in RemoveSteps /\ step \in RemoveSteps \ {"r_release"} /\ pc[d] # "r_release",
           step \in {"store", "r_store"} => loaded' = [loaded EXCEPT ![d] = total_devices],
           step \notin {"store", "r_store"} => loaded' = loaded
    PROVE  DenseInv'
<1> USE DEF TypeOK, Goto, Settled, Labels, ProbeSteps, UnwindLabels, RemoveSteps, moduleVars
<1>1. /\ OneMoves /\ ListIsBound /\ ProbesAreLive /\ LastIsRemoved
      /\ CountIsLength /\ NextNumber /\ NumbersAreDense
  BY DEF DenseInv
<1>2. \A e \in Devices : e # d => pc[e] \in Settled /\ pc'[e] = pc[e]
  BY <1>1 DEF OneMoves
<1>3. pc'[d] = step
  OBVIOUS
<1>4. \A k \in 1 .. Len(klist) : klist[k] \in Devices
  BY ElementOfSeq
<1>5. OneMoves'
  BY <1>2 DEF OneMoves
<1>6. ListIsBound'
  <2>1. ASSUME NEW k \in 1 .. Len(klist)
        PROVE  pc'[klist[k]] \in {"bound"} \cup RemoveSteps
    <3>1. klist[k] \in Devices /\ pc[klist[k]] \in {"bound"} \cup RemoveSteps
      BY <1>1, <1>4 DEF ListIsBound
    <3>2. CASE klist[k] = d
      BY <3>1, <3>2, <1>3
    <3>3. CASE klist[k] # d
      BY <3>1, <3>3, <1>2
    <3> QED
      BY <3>2, <3>3
  <2> QED
    BY <2>1, <1>1 DEF ListIsBound
<1>7. ProbesAreLive'
  BY <1>1, <1>2, <1>3 DEF ProbesAreLive
<1>8. LastIsRemoved'
  BY <1>1, <1>2, <1>3 DEF LastIsRemoved
<1>9. CountIsLength'
  BY <1>1, <1>2, <1>3 DEF CountIsLength
<1>10. NextNumber'
  BY <1>1, <1>2, <1>3 DEF NextNumber
<1>11. NumbersAreDense'
  BY <1>1 DEF NumbersAreDense
<1> QED
  BY <1>5, <1>6, <1>7, <1>8, <1>9, <1>10, <1>11 DEF DenseInv

\* Driver and world are chosen once.
LEMMA ChoicesStay == [Next]_vars => UNCHANGED <<driver, world>>
BY DEF Next, vars, DeviceNext, moduleVars, AllocRegion, CreateClass, Register,
       ExitBegins, Detach, ExitEnds, Probe, GetPlatformData, AllocPrivate,
       AllocBuffer, TakeNumber, CdevAdd, DeviceCreate, CreateAttribute,
       CreateValues, LoadCount, StoreCount, DeviceDestroy, CdevDel, ProbeFails,
       Unbind, LoadLess, StoreLess, Removed, Open, Close

\* The numbers taken and given back: a probe numbers its device, a probe fails.
LEMMA NumberingKeepsDense ==
    ASSUME DenseInv, TypeOK', Counting, NEW d \in Devices,
           TakeNumber(d) \/ ProbeFails(d)
    PROVE  DenseInv'
<1> USE DEF Settled, ProbeSteps, UnwindLabels, RemoveSteps, At, Goto, moduleVars
<1>1. /\ OneMoves /\ ListIsBound /\ ProbesAreLive /\ LastIsRemoved
      /\ CountIsLength /\ NextNumber /\ NumbersAreDense
  BY DEF DenseInv
<1>t. /\ pc \in [Devices -> Labels] /\ klist \in Seq(Devices)
      /\ dev_num \in [Devices -> Int] /\ Len(klist) \in Nat
  BY DEF DenseInv, TypeOK
<1>2. /\ pc[d] \in {"number", "out"}
      /\ pc' = [pc EXCEPT ![d] = IF pc[d] = "number" THEN "cdev" ELSE "unbound"]
      /\ dev_num' = [dev_num EXCEPT ![d] = IF pc[d] = "number" THEN total_devices ELSE 0]
      /\ UNCHANGED <<module, driver, world, total_devices, klist, loaded>>
  BY ThenType DEF TakeNumber, ProbeFails, Release, Counting
<1>3. \A e \in Devices : e # d => pc[e] \in Settled /\ pc'[e] = pc[e]
  BY <1>1, <1>2, <1>t DEF OneMoves
<1>4. total_devices = Len(klist)
  BY <1>1, <1>2, <1>3 DEF CountIsLength
<1>5. \A k \in 1 .. Len(klist) : klist[k] \in Devices /\ klist[k] # d
  BY <1>1, <1>2, <1>t, ElementOfSeq DEF ListIsBound
<1>6. OneMoves'
  BY <1>2, <1>3, <1>t DEF OneMoves
<1>7. ListIsBound'
  BY <1>1, <1>2, <1>3, <1>5 DEF ListIsBound
<1>8. ProbesAreLive'
  BY <1>1, <1>2, <1>3, <1>t DEF ProbesAreLive
<1>9. LastIsRemoved'
  BY <1>1, <1>2, <1>3, <1>t DEF LastIsRemoved
<1>10. CountIsLength'
  BY <1>1, <1>2, <1>3, <1>4, <1>t DEF CountIsLength
<1>11. NextNumber'
  BY <1>1, <1>2, <1>3, <1>4, <1>t DEF NextNumber
<1>12. NumbersAreDense'
  BY <1>1, <1>2, <1>5, <1>t DEF NumbersAreDense, Counting
<1> QED
  BY <1>6, <1>7, <1>8, <1>9, <1>10, <1>11, <1>12 DEF DenseInv

\* The count goes up with the list, and the new last device has the next number.
LEMMA BindingKeepsDense ==
    ASSUME DenseInv, TypeOK', Counting, NEW d \in Devices, StoreCount(d)
    PROVE  DenseInv'
<1> USE DEF Settled, ProbeSteps, UnwindLabels, RemoveSteps, At, Goto, moduleVars
<1>1. /\ OneMoves /\ ListIsBound /\ ProbesAreLive /\ LastIsRemoved
      /\ CountIsLength /\ NextNumber /\ NumbersAreDense
  BY DEF DenseInv
<1>t. /\ pc \in [Devices -> Labels] /\ klist \in Seq(Devices)
      /\ Len(klist) \in Nat
  BY DEF DenseInv, TypeOK
<1>2. /\ pc[d] = "store" /\ pc' = [pc EXCEPT ![d] = "bound"]
      /\ total_devices' = loaded[d] + 1 /\ klist' = Append(klist, d)
      /\ UNCHANGED <<module, driver, world, dev_num>>
  BY DEF StoreCount
<1>3. \A e \in Devices : e # d => pc[e] \in Settled /\ pc'[e] = pc[e]
  BY <1>1, <1>2, <1>t DEF OneMoves
<1>4. total_devices = Len(klist) /\ loaded[d] = Len(klist) /\ dev_num[d] = Len(klist)
  BY <1>1, <1>2, <1>3 DEF CountIsLength, NextNumber
<1>5. \A k \in 1 .. Len(klist) : klist[k] \in Devices /\ klist[k] # d
  BY <1>1, <1>2, <1>t, ElementOfSeq DEF ListIsBound
<1>6. /\ Len(klist') = Len(klist) + 1 /\ klist'[Len(klist')] = d
      /\ \A k \in 1 .. Len(klist) : klist'[k] = klist[k]
  BY <1>2, <1>t
<1>7. \A e \in Devices : pc'[e] \in Settled
  BY <1>2, <1>3, <1>t
<1>8. ListIsBound'
  <2>1. module = "live"
    BY <1>1, <1>2 DEF ProbesAreLive
  <2>2. \A k \in 1 .. Len(klist') : pc'[klist'[k]] \in {"bound"} \cup RemoveSteps
    BY <1>1, <1>2, <1>3, <1>5, <1>6, <1>t DEF ListIsBound
  <2>3. \A j, k \in 1 .. Len(klist') : klist'[j] = klist'[k] => j = k
    BY <1>1, <1>5, <1>6, <1>t DEF ListIsBound
  <2> QED
    BY <1>2, <2>1, <2>2, <2>3 DEF ListIsBound
<1>9. CountIsLength' /\ OneMoves' /\ ProbesAreLive' /\ LastIsRemoved' /\ NextNumber'
  BY <1>2, <1>4, <1>6, <1>7 DEF CountIsLength, OneMoves, ProbesAreLive,
                                LastIsRemoved, NextNumber
<1>10. NumbersAreDense'
  BY <1>1, <1>2, <1>4, <1>6, <1>t DEF NumbersAreDense, Counting
<1> QED
  BY <1>8, <1>9, <1>10 DEF DenseInv

\* The list loses its last device, which the count has already lost.
LEMMA RemovalKeepsDense ==
    ASSUME DenseInv, TypeOK', Counting, NEW d \in Devices, StoreLess(d) \/ Removed(d)
    PROVE  DenseInv'
<1> USE DEF Settled, ProbeSteps, UnwindLabels, RemoveSteps, At, Goto, moduleVars
<1>1. /\ OneMoves /\ ListIsBound /\ ProbesAreLive /\ LastIsRemoved
      /\ CountIsLength /\ NextNumber /\ NumbersAreDense
  BY DEF DenseInv
<1>t. /\ pc \in [Devices -> Labels] /\ klist \in Seq(Devices)
      /\ dev_num \in [Devices -> Int] /\ Len(klist) \in Nat
      /\ DOMAIN klist = 1 .. Len(klist)
  BY DEF DenseInv, TypeOK
<1>2. pc[d] \in {"r_store", "r_release"}
  BY DEF StoreLess, Removed
<1>3. \A e \in Devices : e # d => pc[e] \in Settled
  BY <1>1, <1>2 DEF OneMoves
<1>4. klist # <<>> /\ klist[Len(klist)] = d /\ Len(klist) > 0
  BY <1>1, <1>2, <1>t DEF LastIsRemoved
<1>5. \A k \in 1 .. Len(klist) : klist[k] \in Devices
  BY <1>t, ElementOfSeq
<1>6. \A k \in 1 .. Len(klist) - 1 : klist[k] # d
  BY <1>1, <1>4, <1>t DEF ListIsBound
<1>7. CASE StoreLess(d)
  <2>1. /\ pc[d] = "r_store" /\ pc' = [pc EXCEPT ![d] = "r_release"]
        /\ total_devices' = loaded[d] - 1
        /\ UNCHANGED <<module, driver, world, klist, dev_num>>
    BY <1>7 DEF StoreLess
  <2>2. \A e \in Devices : e # d => pc'[e] = pc[e]
    BY <2>1, <1>t
  <2>3. pc'[d] = "r_release"
    BY <2>1, <1>t
  <2>4. loaded[d] = Len(klist)
    BY <1>1, <1>3, <2>1 DEF CountIsLength
  <2>5. ListIsBound'
    <3>1. \A k \in 1 .. Len(klist) : pc'[klist[k]] \in {"bound"} \cup RemoveSteps
      BY <1>1, <1>5, <2>2, <2>3 DEF ListIsBound
    <3> QED
      BY <1>1, <2>1, <3>1 DEF ListIsBound
  <2>6. CountIsLength'
    BY <1>3, <2>1, <2>2, <2>3, <2>4 DEF CountIsLength
  <2>7. OneMoves' /\ ProbesAreLive' /\ LastIsRemoved' /\ NextNumber'
    BY <1>3, <1>4, <2>1, <2>2, <2>3
       DEF OneMoves, ProbesAreLive, LastIsRemoved, NextNumber
  <2>8. NumbersAreDense'
    BY <1>1, <2>1 DEF NumbersAreDense
  <2> QED
    BY <2>5, <2>6, <2>7, <2>8 DEF DenseInv
<1>8. CASE Removed(d)
  <2>1. /\ pc[d] = "r_release" /\ pc' = [pc EXCEPT ![d] = "unbound"]
        /\ dev_num' = [dev_num EXCEPT ![d] = 0]
        /\ UNCHANGED <<module, driver, world, total_devices, loaded>>
    BY <1>8 DEF Removed, Release
  <2>2. klist' = Without(klist, Len(klist))
    <3>1. PICK k \in DOMAIN klist : klist[k] = d /\ klist' = Without(klist, k)
      BY <1>8 DEF Removed
    <3>2. k = Len(klist)
      BY <1>4, <1>6, <1>t, <3>1
    <3> QED
      BY <3>1, <3>2
  <2>3. Len(klist') = Len(klist) - 1 /\ \A k \in 1 .. Len(klist) - 1 : klist'[k] = klist[k]
    <3>1. Len(klist) \in DOMAIN klist
      BY <1>4, <1>t
    <3>2. /\ Len(Without(klist, Len(klist))) = Len(klist) - 1
          /\ \A k \in 1 .. Len(klist) - 1 :
               Without(klist, Len(klist))[k] = IF k < Len(klist) THEN klist[k] ELSE klist[k + 1]
      BY <1>t, <3>1, WithoutType
    <3> QED
      BY ONLY <1>t, <2>2, <3>2
  <2>4. \A e \in Devices : pc'[e] \in Settled /\ (e # d => pc'[e] = pc[e])
    BY <1>3, <2>1, <1>t
  <2>5. total_devices = Len(klist) - 1
    BY <1>1, <2>1 DEF CountIsLength
  <2>6. ListIsBound'
    <3>1. \A k \in 1 .. Len(klist') : pc'[klist'[k]] \in {"bound"} \cup RemoveSteps
      BY <1>1, <1>5, <1>6, <2>3, <2>4, <1>t DEF ListIsBound
    <3>2. \A j, k \in 1 .. Len(klist') : klist'[j] = klist'[k] => j = k
      BY <1>1, <2>3, <1>t DEF ListIsBound
    <3>3. module \notin {"out", "region", "class"}
      BY <1>1, <1>4 DEF ListIsBound
    <3> QED
      BY <2>1, <3>1, <3>2, <3>3 DEF ListIsBound
  <2>7. CountIsLength' /\ OneMoves' /\ ProbesAreLive' /\ LastIsRemoved' /\ NextNumber'
    BY <2>1, <2>3, <2>4, <2>5 DEF CountIsLength, OneMoves, ProbesAreLive,
                                  LastIsRemoved, NextNumber
  <2>8. NumbersAreDense'
    <3>1. \A k \in 1 .. Len(klist) : dev_num[klist[k]] = k - 1
      BY ONLY <1>1, Counting DEF NumbersAreDense, Counting
    <3>2. \A e \in Devices : e # d => dev_num'[e] = dev_num[e]
      BY ONLY <1>t, <2>1
    <3>3. \A k \in 1 .. Len(klist) - 1 :
            klist'[k] = klist[k] /\ klist[k] \in Devices /\ klist[k] # d
      BY ONLY <1>t, <1>5, <1>6, <2>3
    <3>4. \A k \in 1 .. Len(klist) - 1 : dev_num'[klist'[k]] = k - 1
      BY ONLY <1>t, <3>1, <3>2, <3>3
    <3> QED
      BY ONLY <1>t, <2>3, <3>4 DEF NumbersAreDense
  <2> QED
    BY <2>6, <2>7, <2>8 DEF DenseInv
<1> QED
  BY <1>7, <1>8

\* When nobody moves, one device may begin its probe, or the last its removal.
LEMMA StartKeepsDense ==
    ASSUME DenseInv, TypeOK', Counting, Quiet, UNCHANGED <<moduleVars, deviceVars>>,
           NEW d \in Devices, NEW step \in {"pdata", "r_destroy"}, Goto(d, step),
           step = "pdata" => module = "live" /\ pc[d] = "unbound",
           step = "r_destroy" => /\ klist # <<>> /\ klist[Len(klist)] = d
                                 /\ pc[d] = "bound"
    PROVE  DenseInv'
<1> USE DEF Settled, ProbeSteps, UnwindLabels, RemoveSteps, Goto, moduleVars, deviceVars
<1>1. /\ OneMoves /\ ListIsBound /\ ProbesAreLive /\ LastIsRemoved
      /\ CountIsLength /\ NextNumber /\ NumbersAreDense
  BY DEF DenseInv
<1>t. pc \in [Devices -> Labels] /\ klist \in Seq(Devices)
  BY DEF DenseInv, TypeOK
<1>2. \A e \in Devices : pc[e] \in Settled /\ (e # d => pc'[e] = pc[e])
  BY <1>t DEF Quiet
<1>3. pc'[d] = step
  BY <1>t
<1>4. \A k \in 1 .. Len(klist) : klist[k] \in Devices
  BY <1>t, ElementOfSeq
<1>5. ListIsBound'
  <2>1. \A k \in 1 .. Len(klist) : pc'[klist[k]] \in {"bound"} \cup RemoveSteps
    <3> SUFFICES ASSUME NEW k \in 1 .. Len(klist)
                 PROVE  pc'[klist[k]] \in {"bound"} \cup RemoveSteps
      OBVIOUS
    <3>1. klist[k] \in Devices /\ pc[klist[k]] = "bound"
      BY <1>1, <1>2, <1>4 DEF ListIsBound
    <3> QED
      BY <1>2, <1>3, <3>1
  <2> QED
    BY <1>1, <2>1 DEF ListIsBound
<1>6. OneMoves' /\ ProbesAreLive' /\ LastIsRemoved' /\ CountIsLength' /\ NextNumber'
  BY <1>1, <1>2, <1>3 DEF OneMoves, ProbesAreLive, LastIsRemoved, CountIsLength,
                          NextNumber
<1>7. NumbersAreDense'
  BY <1>1 DEF NumbersAreDense
<1> QED
  BY <1>5, <1>6, <1>7 DEF DenseInv

\* The count, the list and the numbers agree in every state at boot.
LEMMA DenseInvInvariant == Spec => []DenseInv
<1>1. Init => DenseInv
  <2> SUFFICES ASSUME Init PROVE DenseInv
    OBVIOUS
  <2>1. TypeOK
    BY ProbesAssumption DEF Init, TypeOK, Labels, Settled
  <2> QED
    BY <2>1 DEF Init, DenseInv, OneMoves, ListIsBound, ProbesAreLive, LastIsRemoved,
                CountIsLength, NextNumber, NumbersAreDense, Settled, ProbeSteps,
                RemoveSteps
<1>2. DenseInv /\ [Next]_vars => DenseInv'
  <2> SUFFICES ASSUME DenseInv, [Next]_vars
               PROVE  DenseInv'
    OBVIOUS
  <2>1. TypeOK /\ TypeOK'
    BY TypeStep DEF DenseInv
  <2>2. UNCHANGED <<driver, world>>
    BY ChoicesStay
  <2>3. CASE ~Counting
    BY <2>1, <2>2, <2>3 DEF DenseInv, Counting
  <2>4. CASE Counting
    <3> USE <2>4
    <3>1. /\ OneMoves /\ ListIsBound /\ ProbesAreLive /\ LastIsRemoved
          /\ CountIsLength /\ NextNumber /\ NumbersAreDense
      BY DEF DenseInv
    <3>2. CASE AllocRegion \/ CreateClass \/ Register \/ ExitBegins \/ ExitEnds
      BY <2>1, <3>1, <3>2
         DEF AllocRegion, CreateClass, Register, ExitBegins, ExitEnds, Quiet,
             DenseInv, OneMoves, ListIsBound, ProbesAreLive, LastIsRemoved,
             CountIsLength, NextNumber, NumbersAreDense, deviceVars, Settled,
             ProbeSteps, RemoveSteps
    <3>3. CASE Detach
      <4> DEFINE d == klist[Len(klist)]
      <4>1. klist # <<>> /\ pc[d] = "bound" /\ Quiet /\ Goto(d, "r_destroy")
        BY <3>3 DEF Detach, At, Counting
      <4>2. d \in Devices
        BY <2>1, <4>1 DEF TypeOK
      <4>3. UNCHANGED <<moduleVars, deviceVars>>
        BY <3>3 DEF Detach
      <4> HIDE DEF d
      <4>4. klist[Len(klist)] = d
        BY DEF d
      <4> QED
        BY <2>1, <4>1, <4>2, <4>3, <4>4, StartKeepsDense
    <3>4. ASSUME NEW d \in Devices, Probe(d)
          PROVE  DenseInv'
      <4>1. /\ module = "live" /\ pc[d] = "unbound" /\ Quiet /\ Goto(d, "pdata")
            /\ UNCHANGED <<moduleVars, deviceVars>>
        BY <3>4 DEF Probe, Counting
      <4> QED
        BY <2>1, <4>1, StartKeepsDense
    <3>5. ASSUME NEW d \in Devices, DeviceNext(d), ~Probe(d)
          PROVE  DenseInv'
      <4> USE DEF At, moduleVars, deviceVars, Labels, Settled, ProbeSteps,
                  UnwindLabels, RemoveSteps
      <4>1. CASE GetPlatformData(d)
        BY <2>1, <4>1, StepKeepsDense, ThenType DEF GetPlatformData
      <4>2. CASE AllocPrivate(d)
        BY <2>1, <4>2, StepKeepsDense, ThenType DEF AllocPrivate
      <4>3. CASE AllocBuffer(d)
        BY <2>1, <4>3, StepKeepsDense, ThenType DEF AllocBuffer
      <4>4. CASE TakeNumber(d) \/ ProbeFails(d)
        BY <2>1, <4>4, NumberingKeepsDense
      <4>5. CASE CdevAdd(d)
        BY <2>1, <4>5, StepKeepsDense, ThenType DEF CdevAdd
      <4>6. CASE DeviceCreate(d)
        BY <2>1, <4>6, StepKeepsDense, ThenType DEF DeviceCreate
      <4>7. CASE CreateAttribute(d)
        BY <2>1, <4>7, StepKeepsDense, ThenType DEF CreateAttribute
      <4>8. CASE CreateValues(d)
        BY <2>1, <4>8, StepKeepsDense, ThenType DEF CreateValues
      <4>9. CASE LoadCount(d)
        BY <2>1, <4>9, StepKeepsDense, ThenType DEF LoadCount
      <4>10. CASE StoreCount(d)
        BY <2>1, <4>10, BindingKeepsDense
      <4>11. CASE DeviceDestroy(d)
        BY <2>1, <4>11, StepKeepsDense DEF DeviceDestroy
      <4>12. CASE CdevDel(d)
        BY <2>1, <4>12, StepKeepsDense DEF CdevDel
      <4>13. CASE LoadLess(d)
        BY <2>1, <4>13, StepKeepsDense DEF LoadLess
      <4>14. CASE StoreLess(d) \/ Removed(d)
        BY <2>1, <4>14, RemovalKeepsDense
      <4>15. ~Unbind(d)
        BY DEF Unbind, Counting
      <4> QED
        BY <3>5, <4>1, <4>2, <4>3, <4>4, <4>5, <4>6, <4>7, <4>8, <4>9, <4>10,
           <4>11, <4>12, <4>13, <4>14, <4>15 DEF DeviceNext
    <3>6. CASE \E f \in Files : Close(f) \/ \E d \in Devices : Open(f, d)
      BY <2>1, <3>1, <3>6
         DEF Open, Close, DenseInv, OneMoves, ListIsBound, ProbesAreLive, LastIsRemoved,
             CountIsLength, NextNumber, NumbersAreDense, moduleVars, deviceVars
    <3>7. CASE UNCHANGED vars
      BY <2>1, <3>1, <3>7
         DEF vars, DenseInv, OneMoves, ListIsBound, ProbesAreLive, LastIsRemoved,
             CountIsLength, NextNumber, NumbersAreDense
    <3> QED
      BY <3>2, <3>3, <3>4, <3>5, <3>6, <3>7 DEF Next
  <2> QED
    BY <2>3, <2>4
<1> QED
  BY <1>1, <1>2, PTL DEF Spec

\* At boot the devices bound to a driver that numbers them by its count have the
\* numbers 0, 1, 2, ..., through failed probes and reloads of the module
\* (TakeNumber, StoreCount and StoreLess: the count is the next number).
THEOREM BootNumbersDevices == Spec => []NumbersAreDense
<1>1. DenseInv => NumbersAreDense
  BY DEF DenseInv, NumbersAreDense, Counting
<1> QED
  BY <1>1, DenseInvInvariant, PTL

---------------------------------------------------------------------------
(* The labels at which a device has a cdev, and a node.                    *)
WithNode == {"attribute", "values", "load", "store", "bound", "dev_destroy",
             "r_destroy"}
WithCdev == WithNode \cup {"node", "cdev_del", "r_cdev", "dead"}

(* Where a device stands tells what it owns.                               *)
MemoryIsOwned ==
    \A d \in Devices :
        /\ d \in private => pc[d] \notin {"unbound", "pdata", "private"}
        /\ pc[d] \notin {"unbound", "pdata", "private", "out"} => d \in private

NodesAreOwned == \A d \in nodes : pc[d] \in WithNode

BoundAreListed ==
    \A d \in Devices :
        pc[d] \in {"bound"} \cup RemoveSteps => \E k \in DOMAIN klist : klist[k] = d

ModuleIsUp ==
    /\ module \in {"out", "region", "class"} => \A d \in Devices : pc[d] = "unbound"
    /\ module = "exiting" => \A d \in Devices : pc[d] \in Settled \cup RemoveSteps
    /\ \A f \in Files : file[f] # Closed => module = "live"

OwnsInv == MemoryIsOwned /\ NodesAreOwned /\ BoundAreListed /\ ModuleIsUp

(* The entries of the kernel's map can be given to different devices of    *)
(* their numbers that have yet to take one away.                           *)
Owns(owner) ==
    /\ \A k \in DOMAIN cdevs :
         /\ owner[k] \in Devices
         /\ pc[owner[k]] \in WithCdev
         /\ dev_num[owner[k]] = cdevs[k].minor
    /\ \A j, k \in DOMAIN cdevs : owner[j] = owner[k] => j = k

MapIsOwned == \E owner \in [DOMAIN cdevs -> Devices] : Owns(owner)

NumbersAreKnown ==
    /\ driver = "platform" =>
         \A d \in Devices :
           /\ pc[d] # "unbound" => d \in Legacy
           /\ pc[d] \in WithCdev \cup {"cdev"} => dev_num[d] = Id[d]
    /\ Counting =>
         \A d \in Devices :
           pc[d] \in {"dev_destroy", "cdev_del", "dead"} => dev_num[d] = Len(klist)

(* Where numbers are unique, every entry is its own device's.              *)
EntriesAreOwn ==
    Numbered =>
        /\ \A k \in DOMAIN cdevs :
             /\ pc[cdevs[k].of] \in WithCdev
             /\ dev_num[cdevs[k].of] = cdevs[k].minor
        /\ \A j, k \in DOMAIN cdevs : cdevs[j].of = cdevs[k].of => j = k

(* Without attributes a probe has no step that fails once its node exists, *)
(* and at boot devices are only removed by rmmod.                          *)
PathsAreShort ==
    /\ driver \notin WithAttributes =>
         \A d \in Devices : pc[d] \notin {"attribute", "values", "dev_destroy"}
    /\ world = "boot" =>
         \A d \in Devices : pc[d] \in RemoveSteps => module = "exiting"

FilesOfBound ==
    world = "boot" /\ driver # "modbus" =>
        \A f \in Files : file[f] # Closed =>
            /\ driver # "sysfs" /\ file[f][2] \in Devices
            /\ pc[file[f][2]] \in {"load", "store", "bound"}

(* Where a device may go from where it is.                                 *)
Onward(from, to) ==
    \/ from = "unbound" /\ to = "pdata"
    \/ from = "pdata" /\ to \in {"private", "out"}
    \/ from = "private" /\ to \in {"buffer", "out"}
    \/ from = "buffer" /\ to \in {"number", "out"}
    \/ from = "number" /\ to = "cdev"
    \/ from = "cdev" /\ to \in {"node", "out"}
    \/ from = "node" /\ to \in {"attribute", "load", "cdev_del", "dead"}
    \/ from = "attribute" /\ to \in {"values", "dev_destroy"}
    \/ from = "values" /\ to \in {"load", "dev_destroy"}
    \/ from = "load" /\ to = "store"
    \/ from = "store" /\ to = "bound"
    \/ from = "dev_destroy" /\ to = "cdev_del"
    \/ from = "cdev_del" /\ to = "out"
    \/ from = "out" /\ to = "unbound"
    \/ from = "bound" /\ to = "r_destroy"
    \/ from = "r_destroy" /\ to = "r_cdev"
    \/ from = "r_cdev" /\ to = "r_load"
    \/ from = "r_load" /\ to = "r_store"
    \/ from = "r_store" /\ to = "r_release"
    \/ from = "r_release" /\ to = "unbound"

\* A step of a device moves that device onward, and no other.
LEMMA StepMovesOn ==
    ASSUME TypeOK, NEW d \in Devices, DeviceNext(d)
    PROVE  /\ Onward(pc[d], pc'[d])
           /\ pc' = [pc EXCEPT ![d] = pc'[d]]
           /\ UNCHANGED moduleVars
<1> USE DEF TypeOK, At, Goto, Onward, moduleVars
<1>1. CASE Probe(d) \/ GetPlatformData(d) \/ AllocPrivate(d) \/ AllocBuffer(d)
  BY <1>1, ThenType DEF Probe, GetPlatformData, AllocPrivate, AllocBuffer
<1>2. CASE TakeNumber(d) \/ CdevAdd(d) \/ DeviceCreate(d) \/ CreateAttribute(d)
  BY <1>2, ThenType DEF TakeNumber, CdevAdd, DeviceCreate, CreateAttribute
<1>3. CASE CreateValues(d) \/ LoadCount(d) \/ StoreCount(d)
  BY <1>3, ThenType DEF CreateValues, LoadCount, StoreCount
<1>4. CASE DeviceDestroy(d) \/ CdevDel(d)
  BY <1>4 DEF DeviceDestroy, CdevDel
<1>5. CASE ProbeFails(d) \/ Removed(d)
  BY <1>5 DEF ProbeFails, Removed, Release
<1>6. CASE Unbind(d) \/ LoadLess(d) \/ StoreLess(d)
  BY <1>6 DEF Unbind, LoadLess, StoreLess
<1> QED
  BY <1>1, <1>2, <1>3, <1>4, <1>5, <1>6 DEF DeviceNext

\* What a step of a device does to memory, nodes, files and numbers.
LEMMA StepEffects ==
    ASSUME TypeOK, NEW d \in Devices, DeviceNext(d)
    PROVE  /\ \/ pc[d] = "private" /\ pc'[d] = "buffer" /\ private' = private \cup {d}
              \/ pc'[d] = "unbound" /\ private' = private \ {d}
              \/ pc'[d] # "unbound" /\ ~(pc[d] = "private" /\ pc'[d] = "buffer")
                 /\ private' = private
           /\ nodes' \subseteq nodes \cup {d}
           /\ d \in nodes' /\ d \notin nodes => pc'[d] \in {"attribute", "load"}
           /\ pc[d] \in {"dev_destroy", "r_destroy"} => d \notin nodes'
           /\ pc[d] \notin {"number", "out", "r_release"} => dev_num' = dev_num
           /\ \A e \in Devices \ {d} : dev_num'[e] = dev_num[e]
           /\ file' = file
<1> USE DEF TypeOK, At, Goto, deviceVars, kernelVars
<1>1. CASE Probe(d) \/ GetPlatformData(d) \/ AllocPrivate(d) \/ AllocBuffer(d)
  BY <1>1, ThenType DEF Probe, GetPlatformData, AllocPrivate, AllocBuffer
<1>2. CASE TakeNumber(d) \/ CdevAdd(d) \/ CreateAttribute(d)
  BY <1>2, ThenType DEF TakeNumber, CdevAdd, CreateAttribute
<1>3. CASE DeviceCreate(d)
  BY <1>3, ThenType DEF DeviceCreate
<1>4. CASE CreateValues(d) \/ LoadCount(d) \/ StoreCount(d)
  BY <1>4, ThenType DEF CreateValues, LoadCount, StoreCount
<1>5. CASE DeviceDestroy(d) \/ CdevDel(d)
  BY <1>5 DEF DeviceDestroy, CdevDel
<1>6. CASE ProbeFails(d) \/ Removed(d)
  BY <1>6 DEF ProbeFails, Removed, Release
<1>7. CASE Unbind(d) \/ LoadLess(d) \/ StoreLess(d)
  BY <1>7 DEF Unbind, LoadLess, StoreLess
<1> QED
  BY <1>1, <1>2, <1>3, <1>4, <1>5, <1>6, <1>7 DEF DeviceNext

\* What a step of a device does to the list of bound devices.
LEMMA StepLists ==
    ASSUME TypeOK, NEW d \in Devices, DeviceNext(d), BoundAreListed
    PROVE  BoundAreListed'
<1>1. Onward(pc[d], pc'[d]) /\ pc' = [pc EXCEPT ![d] = pc'[d]]
  BY StepMovesOn
<1>t. /\ klist \in Seq(Devices) /\ Len(klist) \in Nat
      /\ DOMAIN klist = 1 .. Len(klist) /\ pc \in [Devices -> Labels]
  BY DEF TypeOK
<1>2. CASE StoreCount(d)
  <2>1. klist' = Append(klist, d) /\ pc[d] = "store"
    BY <1>2 DEF StoreCount, At
  <2>2. /\ DOMAIN klist' = 1 .. Len(klist) + 1 /\ klist'[Len(klist) + 1] = d
        /\ \A k \in DOMAIN klist : k \in DOMAIN klist' /\ klist'[k] = klist[k]
    BY <1>t, <2>1
  <2>a. Len(klist) + 1 \in DOMAIN klist'
    BY ONLY <1>t, <2>2
  <2>3. \E k \in DOMAIN klist' : klist'[k] = d
    BY ONLY <2>2, <2>a
  <2> QED
    BY <1>1, <1>t, <2>2, <2>3 DEF BoundAreListed
<1>3. CASE Removed(d)
  <2>1. PICK k \in DOMAIN klist : klist[k] = d /\ klist' = Without(klist, k)
    BY <1>3 DEF Removed
  <2>2. pc'[d] = "unbound"
    BY <1>3, <1>t DEF Removed, Release, Goto
  <2>3. /\ DOMAIN klist' = 1 .. Len(klist) - 1
        /\ \A j \in 1 .. Len(klist) - 1 :
             klist'[j] = IF j < k THEN klist[j] ELSE klist[j + 1]
    <3>1. /\ Without(klist, k) \in Seq(Devices)
          /\ Len(Without(klist, k)) = Len(klist) - 1
          /\ \A j \in 1 .. Len(klist) - 1 :
               Without(klist, k)[j] = IF j < k THEN klist[j] ELSE klist[j + 1]
      BY <1>t, WithoutType
    <3> QED
      BY <2>1, <3>1
  <2>4. ASSUME NEW e \in Devices, e # d, NEW j \in DOMAIN klist, klist[j] = e
        PROVE  \E m \in DOMAIN klist' : klist'[m] = e
    <3>1. j \in Nat /\ k \in Nat /\ j # k
      BY <1>t, <2>1, <2>4
    <3>2. CASE j < k
      BY <1>t, <2>3, <2>4, <3>1, <3>2
    <3>3. CASE j > k
      <4>1. j - 1 \in 1 .. Len(klist) - 1 /\ ~(j - 1 < k) /\ (j - 1) + 1 = j
        BY <1>t, <3>1, <3>3, <2>1
      <4>2. klist'[j - 1] = e
        BY <2>3, <2>4, <4>1
      <4> QED
        BY <2>3, <4>1, <4>2
    <3> QED
      BY <3>1, <3>2, <3>3
  <2> QED
    BY <1>1, <1>t, <2>2, <2>4 DEF BoundAreListed, RemoveSteps
<1>4. CASE UNCHANGED klist /\ pc'[d] # "bound"
  BY <1>1, <1>4, <1>t DEF BoundAreListed, RemoveSteps, Onward
<1>5. StoreCount(d) \/ Removed(d) \/ (UNCHANGED klist /\ pc'[d] # "bound")
  BY <1>1, ThenType
  DEF DeviceNext, Probe, GetPlatformData, AllocPrivate, AllocBuffer, TakeNumber,
      CdevAdd, DeviceCreate, CreateAttribute, CreateValues, LoadCount,
      DeviceDestroy, CdevDel, ProbeFails, Unbind, LoadLess, StoreLess, Release,
      At, Goto, deviceVars, Onward
<1> QED
  BY <1>2, <1>3, <1>4, <1>5

\* The steps that move no device but, in Detach, the last of the list.
LEMMA OtherSteps ==
    ASSUME TypeOK, [Next]_vars, \A d \in Devices : ~DeviceNext(d)
    PROVE  /\ UNCHANGED <<klist, private, nodes, cdevs, dev_num>>
           /\ \/ UNCHANGED pc
              \/ \E d \in Devices :
                   /\ pc[d] = "bound" /\ pc' = [pc EXCEPT ![d] = "r_destroy"]
                   /\ module = "exiting" /\ UNCHANGED <<module, file>>
<1>1. CASE Detach
  <2> DEFINE d == klist[Len(klist)]
  <2>1. d \in Devices
    BY <1>1 DEF Detach, TypeOK
  <2>2. /\ pc[d] = "bound" /\ pc' = [pc EXCEPT ![d] = "r_destroy"]
        /\ module = "exiting"
        /\ UNCHANGED <<moduleVars, deviceVars, kernelVars>>
    BY <1>1 DEF Detach, At, Goto
  <2> HIDE DEF d
  <2> QED
    BY <2>1, <2>2 DEF moduleVars, deviceVars, kernelVars
<1>2. CASE AllocRegion \/ CreateClass \/ Register \/ ExitBegins \/ ExitEnds
  BY <1>2 DEF AllocRegion, CreateClass, Register, ExitBegins, ExitEnds,
              deviceVars, kernelVars
<1>3. CASE \E f \in Files : Close(f) \/ \E d \in Devices : Open(f, d)
  BY <1>3 DEF Close, Open, deviceVars
<1>4. CASE UNCHANGED vars
  BY <1>4 DEF vars
<1> QED
  BY <1>1, <1>2, <1>3, <1>4 DEF Next

\* The module is up while devices are in use and files open.
LEMMA ModuleStep ==
    ASSUME TypeOK, OwnsInv, [Next]_vars
    PROVE  ModuleIsUp'
<1> USE DEF ModuleIsUp, TypeOK, moduleVars, deviceVars, kernelVars
<1>0. ModuleIsUp /\ BoundAreListed
  BY DEF OwnsInv
<1>1. ASSUME NEW d \in Devices, DeviceNext(d)
      PROVE  ModuleIsUp'
  <2>1. /\ Onward(pc[d], pc'[d]) /\ pc' = [pc EXCEPT ![d] = pc'[d]]
        /\ module' = module /\ file' = file
    BY <1>1, StepMovesOn, StepEffects
  <2>2. pc[d] = "unbound" => module = "live"
    BY <1>1, <2>1 DEF DeviceNext, Probe, GetPlatformData, AllocPrivate, AllocBuffer,
       TakeNumber, CdevAdd, DeviceCreate, CreateAttribute, CreateValues,
       LoadCount, StoreCount, DeviceDestroy, CdevDel, ProbeFails, Unbind,
       LoadLess, StoreLess, Removed, At
  <2> QED
    BY <1>0, <2>1, <2>2 DEF Settled, RemoveSteps, Onward
<1>2. CASE AllocRegion \/ CreateClass \/ Register
  BY <1>0, <1>2 DEF AllocRegion, CreateClass, Register
<1>3. CASE ExitBegins
  BY <1>0, <1>3 DEF ExitBegins, Quiet
<1>4. CASE ExitEnds
  <2>1. \A d \in Devices : pc[d] \notin {"bound"} \cup RemoveSteps
    BY <1>0, <1>4 DEF ExitEnds, BoundAreListed
  <2>2. \A d \in Devices : pc[d] = "unbound"
    BY <1>0, <1>4, <2>1 DEF ExitEnds, Settled
  <2> QED
    BY <1>0, <1>4, <2>2 DEF ExitEnds
<1>5. CASE Detach
  <2>1. /\ module = "exiting" /\ UNCHANGED <<module, file>>
        /\ \A d \in Devices : pc'[d] = pc[d] \/ pc'[d] = "r_destroy"
    BY <1>5 DEF Detach, Goto
  <2> QED
    BY <1>0, <2>1 DEF RemoveSteps
<1>6. ASSUME NEW f \in Files, Close(f) \/ \E d \in Devices : Open(f, d)
      PROVE  ModuleIsUp'
  BY <1>0, <1>6 DEF Close, Open
<1>7. CASE UNCHANGED vars
  BY <1>0, <1>7 DEF vars
<1> QED
  BY <1>1, <1>2, <1>3, <1>4, <1>5, <1>6, <1>7 DEF Next

\* Memory, nodes, list and module fit where the devices stand, in every state.
LEMMA OwnsInvInvariant == Spec => []OwnsInv
<1>1. Init => OwnsInv
  BY DEF Init, OwnsInv, MemoryIsOwned, NodesAreOwned, BoundAreListed, ModuleIsUp,
         RemoveSteps
<1>2. TypeOK /\ OwnsInv /\ [Next]_vars => OwnsInv'
  <2> SUFFICES ASSUME TypeOK, OwnsInv, [Next]_vars
               PROVE  OwnsInv'
    OBVIOUS
  <2>0. /\ MemoryIsOwned /\ NodesAreOwned /\ BoundAreListed
        /\ nodes \subseteq Devices /\ pc \in [Devices -> Labels]
    BY DEF OwnsInv, TypeOK
  <2>1. ASSUME NEW d \in Devices, DeviceNext(d)
        PROVE  MemoryIsOwned' /\ NodesAreOwned' /\ BoundAreListed'
    <3>1. Onward(pc[d], pc'[d]) /\ pc' = [pc EXCEPT ![d] = pc'[d]]
      BY <2>1, StepMovesOn
    <3>a. \/ pc[d] = "private" /\ pc'[d] = "buffer" /\ private' = private \cup {d}
          \/ pc'[d] = "unbound" /\ private' = private \ {d}
          \/ pc'[d] # "unbound" /\ ~(pc[d] = "private" /\ pc'[d] = "buffer")
             /\ private' = private
      BY <2>1, StepEffects
    <3>b. /\ nodes' \subseteq nodes \cup {d}
          /\ d \in nodes' /\ d \notin nodes => pc'[d] \in {"attribute", "load"}
          /\ pc[d] \in {"dev_destroy", "r_destroy"} => d \notin nodes'
      BY <2>1, StepEffects
    <3>2. MemoryIsOwned'
      BY <2>0, <3>1, <3>a DEF MemoryIsOwned, Onward
    <3>3. NodesAreOwned'
      BY <2>0, <3>1, <3>b DEF NodesAreOwned, Onward, WithNode
    <3> QED
      BY <2>0, <2>1, <3>2, <3>3, StepLists
  <2>2. CASE \A d \in Devices : ~DeviceNext(d)
    <3>1. UNCHANGED <<klist, private, nodes>>
      BY <2>2, OtherSteps
    <3>2. \A e \in Devices :
            pc'[e] = pc[e] \/ (pc[e] = "bound" /\ pc'[e] = "r_destroy")
      BY <2>0, <2>2, OtherSteps
    <3>3. MemoryIsOwned' /\ NodesAreOwned'
      BY <2>0, <3>1, <3>2 DEF MemoryIsOwned, NodesAreOwned, WithNode
    <3>4. BoundAreListed'
      BY <2>0, <3>1, <3>2 DEF BoundAreListed, RemoveSteps
    <3> QED
      BY <3>3, <3>4, ModuleStep DEF OwnsInv
  <2> QED
    BY <2>1, <2>2, ModuleStep DEF OwnsInv
<1> QED
  BY <1>1, <1>2, TypeCorrect, PTL DEF Spec

---------------------------------------------------------------------------
(* What a step does to the kernel's map: a probe puts an entry in front,   *)
(* the end of a device takes the newest of its number out.                 *)
AddsEntry(d) ==
    /\ pc[d] = "cdev" /\ pc'[d] = "node"
    /\ DOMAIN cdevs' = 1 .. Len(cdevs) + 1
    /\ cdevs'[1] = [minor |-> dev_num[d], of |-> d]
    /\ \A k \in DOMAIN cdevs : cdevs'[k + 1] = cdevs[k]

DropsEntry(d, k) ==
    /\ pc[d] \in {"cdev_del", "r_cdev"} /\ pc'[d] \in {"out", "r_load"}
    /\ cdevs[k].minor = dev_num[d]
    /\ DOMAIN cdevs' = 1 .. Len(cdevs) - 1
    /\ \A j \in DOMAIN cdevs' :
         cdevs'[j] = IF j < k THEN cdevs[j] ELSE cdevs[j + 1]

KeepsEntries(d) ==
    /\ UNCHANGED cdevs
    /\ pc[d] \in WithCdev <=> pc'[d] \in WithCdev

LEMMA MapStep ==
    ASSUME TypeOK, NEW d \in Devices, DeviceNext(d)
    PROVE  \/ AddsEntry(d)
           \/ \E k \in DOMAIN cdevs : DropsEntry(d, k)
           \/ KeepsEntries(d)
<1> DEFINE Entry == [minor : Int, of : Devices]
<1>t. cdevs \in Seq(Entry) /\ DOMAIN cdevs = 1 .. Len(cdevs) /\ Len(cdevs) \in Nat
  BY DEF TypeOK
<1>o. Onward(pc[d], pc'[d]) /\ pc \in [Devices -> Labels]
  BY StepMovesOn DEF TypeOK
<1>1. CASE CdevAdd(d)
  <2> DEFINE e == [minor |-> dev_num[d], of |-> d]
  <2>1. CASE cdevs' = cdevs /\ pc' = [pc EXCEPT ![d] = "out"] /\ pc[d] = "cdev"
    BY <1>o, <2>1 DEF KeepsEntries, WithCdev, WithNode
  <2>2. CASE cdevs' = <<e>> \o cdevs /\ pc' = [pc EXCEPT ![d] = "node"] /\ pc[d] = "cdev"
    <3>1. e \in Entry
      BY DEF TypeOK
    <3> HIDE DEF e, Entry
    <3>2. <<e>> \in Seq(Entry) /\ Len(<<e>>) = 1 /\ <<e>>[1] = e
      BY <3>1
    <3>3. /\ Len(<<e>> \o cdevs) = 1 + Len(cdevs)
          /\ <<e>> \o cdevs \in Seq(Entry)
          /\ \A i \in 1 .. 1 + Len(cdevs) :
               (<<e>> \o cdevs)[i] = IF i <= 1 THEN <<e>>[i] ELSE cdevs[i - 1]
      BY <1>t, <3>2, ConcatProperties
    <3>4. DOMAIN cdevs' = 1 .. Len(cdevs) + 1 /\ cdevs'[1] = e
      BY <1>t, <2>2, <3>2, <3>3
    <3>5. \A k \in DOMAIN cdevs : cdevs'[k + 1] = cdevs[k]
      BY <1>t, <2>2, <3>3
    <3> QED
      BY <1>o, <2>2, <3>4, <3>5 DEF AddsEntry, e
  <2> QED
    BY <1>1, <2>1, <2>2, ThenType DEF CdevAdd, At, Goto
<1>2. CASE CdevDel(d)
  <2>1. PICK k \in DOMAIN cdevs : Newest(k, dev_num[d]) /\ cdevs' = Without(cdevs, k)
    BY <1>2 DEF CdevDel
  <2>2. pc[d] \in {"cdev_del", "r_cdev"} /\ pc'[d] \in {"out", "r_load"}
    BY <1>2, <1>o DEF CdevDel, At, Goto
  <2>3. /\ Without(cdevs, k) \in Seq(Entry)
        /\ Len(Without(cdevs, k)) = Len(cdevs) - 1
        /\ \A j \in 1 .. Len(cdevs) - 1 :
             Without(cdevs, k)[j] = IF j < k THEN cdevs[j] ELSE cdevs[j + 1]
    BY <1>t, WithoutType
  <2>4. /\ DOMAIN cdevs' = 1 .. Len(cdevs) - 1
        /\ \A j \in 1 .. Len(cdevs) - 1 :
             cdevs'[j] = IF j < k THEN cdevs[j] ELSE cdevs[j + 1]
    BY <2>1, <2>3
  <2>5. cdevs[k].minor = dev_num[d]
    BY <2>1 DEF Newest
  <2>6. DropsEntry(d, k)
    BY <2>2, <2>4, <2>5 DEF DropsEntry
  <2> QED
    BY <2>6
<1>3. CASE ~CdevAdd(d) /\ ~CdevDel(d)
  <2>1. UNCHANGED cdevs
    BY <1>3 DEF DeviceNext, Probe, GetPlatformData, AllocPrivate, AllocBuffer,
       TakeNumber, DeviceCreate, CreateAttribute, CreateValues, LoadCount,
       StoreCount, DeviceDestroy, ProbeFails, Unbind, LoadLess, StoreLess,
       Removed, kernelVars
  <2>2. pc[d] \notin {"cdev", "cdev_del", "r_cdev"}
    BY <1>3 DEF DeviceNext, Probe, GetPlatformData, AllocPrivate, AllocBuffer,
       TakeNumber, DeviceCreate, CreateAttribute, CreateValues, LoadCount,
       StoreCount, DeviceDestroy, ProbeFails, Unbind, LoadLess, StoreLess,
       Removed, At
  <2> QED
    BY <1>o, <2>1, <2>2 DEF KeepsEntries, Onward, WithCdev, WithNode
<1> QED
  BY <1>1, <1>2, <1>3

\* Every entry of the map keeps an owner of its number, although cdev_del may
\* take another device's entry where numbers are shared: that device then owns
\* the entry that is left.
LEMMA MapIsOwnedStep ==
    ASSUME TypeOK, MapIsOwned, NEW d \in Devices, DeviceNext(d)
    PROVE  MapIsOwned'
<1>t. DOMAIN cdevs = 1 .. Len(cdevs) /\ Len(cdevs) \in Nat /\ pc \in [Devices -> Labels]
  BY DEF TypeOK
<1>1. PICK owner \in [DOMAIN cdevs -> Devices] : Owns(owner)
  BY DEF MapIsOwned
<1>2. pc' = [pc EXCEPT ![d] = pc'[d]] /\ \A e \in Devices \ {d} : dev_num'[e] = dev_num[e]
  BY StepMovesOn, StepEffects
<1>3. pc[d] \in WithCdev \cup {"cdev"} => dev_num' = dev_num
  BY StepEffects DEF WithCdev, WithNode
<1>o. /\ \A k \in DOMAIN cdevs :
           /\ owner[k] \in Devices /\ pc[owner[k]] \in WithCdev
           /\ dev_num[owner[k]] = cdevs[k].minor
      /\ \A j, k \in DOMAIN cdevs : owner[j] = owner[k] => j = k
  BY <1>1 DEF Owns
<1>4. CASE AddsEntry(d)
  <2> DEFINE next == [k \in 1 .. Len(cdevs) + 1 |-> IF k = 1 THEN d ELSE owner[k - 1]]
  <2>1. \A k \in 1 .. Len(cdevs) + 1 : k = 1 \/ k - 1 \in DOMAIN cdevs
    BY <1>t
  <2>2. \A k \in DOMAIN cdevs : owner[k] # d
    BY <1>o, <1>4 DEF AddsEntry, WithCdev, WithNode
  <2>3. next \in [DOMAIN cdevs' -> Devices]
    BY <1>4, <1>o, <2>1 DEF AddsEntry
  <2>4. next[1] = d /\ \A k \in DOMAIN cdevs : k + 1 \in DOMAIN cdevs' /\ next[k + 1] = owner[k]
    BY <1>4, <1>t DEF AddsEntry
  <2>5. \A k \in DOMAIN cdevs' :
          k # 1 => /\ k - 1 \in DOMAIN cdevs /\ next[k] = owner[k - 1]
                   /\ cdevs'[k] = cdevs[k - 1]
    <3> SUFFICES ASSUME NEW k \in DOMAIN cdevs', k # 1
                 PROVE  /\ k - 1 \in DOMAIN cdevs /\ next[k] = owner[k - 1]
                        /\ cdevs'[k] = cdevs[k - 1]
      OBVIOUS
    <3>1. k \in 1 .. Len(cdevs) + 1 /\ k \in Nat
      BY <1>4, <1>t DEF AddsEntry
    <3>2. k - 1 \in DOMAIN cdevs /\ next[k] = owner[k - 1] /\ (k - 1) + 1 = k
      BY <2>1, <3>1
    <3>3. cdevs'[(k - 1) + 1] = cdevs[k - 1]
      BY <1>4, <3>2 DEF AddsEntry
    <3> QED
      BY <3>2, <3>3
  <2> HIDE DEF next
  <2>6. /\ cdevs'[1].minor = dev_num[d] /\ pc'[d] \in WithCdev /\ dev_num' = dev_num
        /\ \A e \in Devices \ {d} : pc'[e] = pc[e]
        /\ DOMAIN cdevs' \subseteq Nat
    BY <1>2, <1>3, <1>4, <1>t DEF AddsEntry, WithCdev, WithNode
  <2>7. \A k \in DOMAIN cdevs' :
          /\ next[k] \in Devices /\ pc'[next[k]] \in WithCdev
          /\ dev_num'[next[k]] = cdevs'[k].minor
    BY <1>o, <2>2, <2>4, <2>5, <2>6
  <2>8. \A j, k \in DOMAIN cdevs' : next[j] = next[k] => j = k
    <3> SUFFICES ASSUME NEW j \in DOMAIN cdevs', NEW k \in DOMAIN cdevs', next[j] = next[k]
                 PROVE  j = k
      OBVIOUS
    <3>1. j \in Nat /\ k \in Nat
      BY <2>6
    <3>2. CASE next[j] = d
      BY <2>2, <2>5, <3>2
    <3>3. CASE next[j] # d
      <4>0. j # 1 /\ k # 1
        BY <2>4, <3>3
      <4>1. j - 1 = k - 1
        BY <1>o, <2>5, <4>0
      <4> QED
        BY <3>1, <4>1
    <3> QED
      BY <3>2, <3>3
  <2> QED
    BY <2>3, <2>7, <2>8 DEF MapIsOwned, Owns
<1>5. ASSUME NEW k0 \in DOMAIN cdevs, DropsEntry(d, k0)
      PROVE  MapIsOwned'
  <2> DEFINE old(j) == IF j < k0 THEN j ELSE j + 1
             next == [j \in 1 .. Len(cdevs) - 1 |->
                        IF owner[old(j)] = d THEN owner[k0] ELSE owner[old(j)]]
  <2>1. DOMAIN cdevs' = 1 .. Len(cdevs) - 1 /\ k0 \in Nat
    BY <1>5, <1>t DEF DropsEntry
  <2>2. \A j \in DOMAIN cdevs' :
          /\ old(j) \in DOMAIN cdevs /\ old(j) # k0 /\ cdevs'[j] = cdevs[old(j)]
          /\ \A k \in DOMAIN cdevs' : old(j) = old(k) => j = k
    BY <1>5, <1>t, <2>1 DEF DropsEntry
  <2>3. \A j \in DOMAIN cdevs' :
          next[j] = IF owner[old(j)] = d THEN owner[k0] ELSE owner[old(j)]
    BY <2>1
  <2>4. next \in [DOMAIN cdevs' -> Devices]
    BY <1>o, <1>5, <2>1, <2>2
  <2> HIDE DEF old, next
  <2>5. \A j \in DOMAIN cdevs' : next[j] # d /\ next[j] \in Devices
    BY <1>o, <1>5, <2>2, <2>3
  <2>6. \A e \in Devices \ {d} : pc'[e] = pc[e] /\ dev_num'[e] = dev_num[e]
    BY <1>2, <1>t
  <2>7. \A j \in DOMAIN cdevs' :
          /\ pc[next[j]] \in WithCdev
          /\ dev_num[next[j]] = cdevs'[j].minor
    <3> SUFFICES ASSUME NEW j \in DOMAIN cdevs'
                 PROVE  /\ pc[next[j]] \in WithCdev
                        /\ dev_num[next[j]] = cdevs'[j].minor
      OBVIOUS
    <3>1. CASE owner[old(j)] = d
      <4>1. dev_num[owner[k0]] = dev_num[d]
        BY <1>o, <1>5 DEF DropsEntry
      <4> QED
        BY <1>o, <1>5, <2>2, <2>3, <3>1, <4>1
    <3>2. CASE owner[old(j)] # d
      BY <1>o, <2>2, <2>3, <3>2
    <3> QED
      BY <3>1, <3>2
  <2>8. \A j, k \in DOMAIN cdevs' : next[j] = next[k] => j = k
    <3> SUFFICES ASSUME NEW j \in DOMAIN cdevs', NEW k \in DOMAIN cdevs', next[j] = next[k]
                 PROVE  old(j) = old(k)
      BY <2>2
    <3> QED
      BY <1>o, <1>5, <2>2, <2>3
  <2> QED
    BY <2>4, <2>5, <2>6, <2>7, <2>8 DEF MapIsOwned, Owns
<1>6. CASE KeepsEntries(d)
  <2>1. /\ pc'[d] \in WithCdev <=> pc[d] \in WithCdev
        /\ \A e \in Devices \ {d} : pc'[e] = pc[e] /\ dev_num'[e] = dev_num[e]
        /\ cdevs' = cdevs
    BY <1>2, <1>6, <1>t DEF KeepsEntries
  <2>2. Owns(owner)'
    BY <1>o, <1>3, <2>1 DEF Owns
  <2> QED
    BY <1>6, <2>2 DEF MapIsOwned, KeepsEntries
<1> QED
  BY <1>4, <1>5, <1>6, MapStep

\* Whatever numbers are shared, the map's entries belong to devices that are
\* there, in every state.
LEMMA MapIsOwnedInvariant == Spec => []MapIsOwned
<1>1. Init => MapIsOwned
  <2> SUFFICES ASSUME Init
               PROVE  MapIsOwned
    OBVIOUS
  <2>1. DOMAIN cdevs = {}
    BY DEF Init
  <2>2. [k \in DOMAIN cdevs |-> k] \in [DOMAIN cdevs -> Devices]
    BY <2>1
  <2> QED
    BY <2>1, <2>2 DEF MapIsOwned, Owns
<1>2. TypeOK /\ MapIsOwned /\ [Next]_vars => MapIsOwned'
  <2> SUFFICES ASSUME TypeOK, MapIsOwned, [Next]_vars
               PROVE  MapIsOwned'
    OBVIOUS
  <2>1. CASE \E d \in Devices : DeviceNext(d)
    BY <2>1, MapIsOwnedStep
  <2>2. CASE \A d \in Devices : ~DeviceNext(d)
    <3>1. PICK owner \in [DOMAIN cdevs -> Devices] : Owns(owner)
      BY DEF MapIsOwned
    <3>2. UNCHANGED <<cdevs, dev_num>>
      BY <2>2, OtherSteps
    <3>3. \A e \in Devices : pc[e] \in WithCdev => pc'[e] \in WithCdev
      <4>1. pc \in [Devices -> Labels]
        BY DEF TypeOK
      <4>2. \A e \in Devices :
              pc'[e] = pc[e] \/ (pc[e] = "bound" /\ pc'[e] = "r_destroy")
        BY <2>2, <4>1, OtherSteps
      <4> QED
        BY <4>2 DEF WithCdev, WithNode
    <3>4. Owns(owner)'
      BY <3>1, <3>2, <3>3 DEF Owns
    <3> QED
      BY <3>2, <3>4 DEF MapIsOwned
  <2> QED
    BY <2>1, <2>2
<1> QED
  BY <1>1, <1>2, TypeCorrect, PTL DEF Spec

\* rmmod leaves no cdev, no node and no memory, whichever probes failed and
\* whoever shared a number (the goto labels of probe, remove, driver_detach).
THEOREM UnloadIsClean == Spec => []UnloadLeavesNothing
<1>1. TypeOK /\ OwnsInv /\ MapIsOwned => UnloadLeavesNothing
  <2> SUFFICES ASSUME TypeOK, OwnsInv, MapIsOwned, module = "out"
               PROVE  cdevs = <<>> /\ nodes = {} /\ private = {}
    BY DEF UnloadLeavesNothing
  <2>1. \A d \in Devices : pc[d] = "unbound"
    BY DEF OwnsInv, ModuleIsUp
  <2>2. private = {}
    BY <2>1 DEF OwnsInv, MemoryIsOwned, TypeOK
  <2>3. nodes = {}
    BY <2>1 DEF OwnsInv, NodesAreOwned, TypeOK, WithNode
  <2>4. DOMAIN cdevs = {}
    <3>1. PICK owner \in [DOMAIN cdevs -> Devices] : Owns(owner)
      BY DEF MapIsOwned
    <3> QED
      BY <2>1, <3>1 DEF Owns, WithCdev, WithNode
  <2>5. cdevs = <<>>
    <3>1. cdevs \in Seq([minor : Int, of : Devices])
      BY DEF TypeOK
    <3>2. Len(cdevs) = 0
      BY <2>4, <3>1
    <3> QED
      BY <3>1, <3>2, EmptySeq
  <2> QED
    BY <2>2, <2>3, <2>5
<1> QED
  BY <1>1, TypeCorrect, OwnsInvInvariant, MapIsOwnedInvariant, PTL

---------------------------------------------------------------------------
\* How a step of a device changes the list and the numbers.
LEMMA StepNumbers ==
    ASSUME TypeOK, NEW d \in Devices, DeviceNext(d)
    PROVE  /\ pc[d] \notin {"store", "r_release"} => klist' = klist
           /\ pc'[d] = "cdev" => dev_num'[d] = IF driver = "platform" THEN Id[d]
                                               ELSE total_devices
           /\ pc[d] = "unbound" => Matches(d)
           /\ pc[d] \in Settled /\ world = "boot" => Quiet
<1> USE DEF TypeOK, At, Goto, deviceVars
<1>1. pc[d] \notin {"store", "r_release"} => klist' = klist
  BY DEF DeviceNext, Probe, GetPlatformData, AllocPrivate, AllocBuffer, TakeNumber,
         CdevAdd, DeviceCreate, CreateAttribute, CreateValues, LoadCount,
         StoreCount, DeviceDestroy, CdevDel, ProbeFails, Unbind, LoadLess,
         StoreLess, Removed
<1>2. ASSUME pc'[d] = "cdev"
      PROVE  dev_num'[d] = IF driver = "platform" THEN Id[d] ELSE total_devices
  <2>1. pc[d] = "number"
    BY <1>2, StepMovesOn DEF Onward
  <2>2. TakeNumber(d)
    BY <2>1 DEF DeviceNext, Probe, GetPlatformData, AllocPrivate, AllocBuffer,
       CdevAdd, DeviceCreate, CreateAttribute, CreateValues, LoadCount, StoreCount,
       DeviceDestroy, CdevDel, ProbeFails, Unbind, LoadLess, StoreLess, Removed
  <2> QED
    BY <2>2 DEF TakeNumber
<1>3. /\ pc[d] = "unbound" => Matches(d)
      /\ pc[d] \in Settled /\ world = "boot" => Quiet
  BY DEF DeviceNext, Probe, GetPlatformData, AllocPrivate, AllocBuffer, TakeNumber,
         CdevAdd, DeviceCreate, CreateAttribute, CreateValues, LoadCount,
         StoreCount, DeviceDestroy, CdevDel, ProbeFails, Unbind, LoadLess,
         StoreLess, Removed, Settled
<1> QED
  BY <1>1, <1>2, <1>3

\* Ids and counts: the number of every device is known where it matters.
LEMMA NumbersAreKnownInvariant == Spec => []NumbersAreKnown
<1>1. Init => NumbersAreKnown
  BY DEF Init, NumbersAreKnown, WithCdev, WithNode
<1>2. TypeOK /\ DenseInv /\ NumbersAreKnown /\ [Next]_vars => NumbersAreKnown'
  <2> SUFFICES ASSUME TypeOK, DenseInv, NumbersAreKnown, [Next]_vars
               PROVE  NumbersAreKnown'
    OBVIOUS
  <2>0. UNCHANGED <<driver, world>> /\ pc \in [Devices -> Labels]
    BY ChoicesStay DEF TypeOK
  <2>1. ASSUME NEW d \in Devices, DeviceNext(d)
        PROVE  NumbersAreKnown'
    <3>1. /\ Onward(pc[d], pc'[d])
          /\ \A e \in Devices \ {d} : pc'[e] = pc[e] /\ dev_num'[e] = dev_num[e]
      BY <2>0, <2>1, StepMovesOn, StepEffects
    <3>2. /\ pc[d] \notin {"number", "out", "r_release"} => dev_num' = dev_num
          /\ pc[d] \notin {"store", "r_release"} => klist' = klist
          /\ pc'[d] = "cdev" => dev_num'[d] = IF driver = "platform" THEN Id[d]
                                              ELSE total_devices
          /\ pc[d] = "unbound" => Matches(d)
          /\ pc[d] \in Settled /\ world = "boot" => Quiet
      BY <2>1, StepEffects, StepNumbers
    <3>3. ASSUME driver = "platform", NEW e \in Devices
          PROVE  /\ pc'[e] # "unbound" => e \in Legacy
                 /\ pc'[e] \in WithCdev \cup {"cdev"} => dev_num'[e] = Id[e]
      <4>1. /\ pc[e] # "unbound" => e \in Legacy
            /\ pc[e] \in WithCdev \cup {"cdev"} => dev_num[e] = Id[e]
        BY <3>3 DEF NumbersAreKnown
      <4>2. CASE e # d
        BY <3>1, <4>1, <4>2
      <4>3. CASE e = d
        <5>1. e \in Legacy
          BY <3>2, <3>3, <4>1, <4>3 DEF Matches
        <5>2. pc'[d] \in WithCdev \cup {"cdev"} => dev_num'[d] = Id[d]
          BY <3>1, <3>2, <3>3, <4>1, <4>3 DEF Onward, WithCdev, WithNode
        <5> QED
          BY <4>3, <5>1, <5>2
      <4> QED
        BY <4>2, <4>3
    <3>4. ASSUME Counting, NEW e \in Devices, pc'[e] \in {"dev_destroy", "cdev_del", "dead"}
          PROVE  dev_num'[e] = Len(klist')
      <4>1. /\ OneMoves /\ NextNumber
            /\ pc[e] \in {"dev_destroy", "cdev_del", "dead"} => dev_num[e] = Len(klist)
        BY <3>4 DEF DenseInv, NumbersAreKnown
      <4>2. CASE e # d
        <5>1. pc[e] \notin Settled
          BY <3>1, <3>4, <4>2 DEF Settled
        <5>2. pc[d] \notin Settled
          BY <3>2, <3>4, <5>1 DEF Quiet, Counting
        <5> QED
          BY <4>1, <4>2, <5>1, <5>2 DEF OneMoves
      <4>3. CASE e = d
        <5>1. pc[d] \in {"node", "attribute", "values", "dev_destroy"}
          BY <3>1, <3>4, <4>3 DEF Onward
        <5>2. klist' = klist /\ dev_num' = dev_num
          BY <3>2, <5>1
        <5>3. dev_num[d] = Len(klist)
          BY <4>1, <4>3, <5>1 DEF NextNumber
        <5> QED
          BY <4>3, <5>2, <5>3
      <4> QED
        BY <4>2, <4>3
    <3> QED
      BY <2>0, <3>3, <3>4 DEF NumbersAreKnown, Counting
  <2>2. CASE \A d \in Devices : ~DeviceNext(d)
    <3>1. UNCHANGED <<klist, dev_num>>
      BY <2>2, OtherSteps
    <3>2. \A e \in Devices :
            pc'[e] = pc[e] \/ (pc[e] = "bound" /\ pc'[e] = "r_destroy")
      BY <2>0, <2>2, OtherSteps
    <3>3. ASSUME driver = "platform", NEW e \in Devices
          PROVE  /\ pc'[e] # "unbound" => e \in Legacy
                 /\ pc'[e] \in WithCdev \cup {"cdev"} => dev_num'[e] = Id[e]
      BY <3>1, <3>2, <3>3 DEF NumbersAreKnown, WithCdev, WithNode
    <3>4. ASSUME Counting, NEW e \in Devices, pc'[e] \in {"dev_destroy", "cdev_del", "dead"}
          PROVE  dev_num'[e] = Len(klist')
      BY <3>1, <3>2, <3>4 DEF NumbersAreKnown
    <3> QED
      BY <2>0, <3>3, <3>4 DEF NumbersAreKnown, Counting
  <2> QED
    BY <2>1, <2>2
<1> QED
  BY <1>1, <1>2, TypeCorrect, DenseInvInvariant, PTL DEF Spec

\* Where numbers are consistent, two devices with a cdev never share one.
LEMMA NumbersAreUnique ==
    ASSUME TypeOK, DenseInv, OwnsInv, NumbersAreKnown, Numbered,
           NEW d \in Devices, NEW e \in Devices,
           pc[d] \in WithCdev, pc[e] \in WithCdev, dev_num[d] = dev_num[e]
    PROVE  d = e
<1>1. CASE driver = "platform"
  <2>1. d \in Legacy /\ e \in Legacy /\ dev_num[d] = Id[d] /\ dev_num[e] = Id[e]
    BY <1>1 DEF NumbersAreKnown, WithCdev, WithNode
  <2> QED
    BY <2>1, IdAssumption
<1>2. CASE Counting
  <2> DEFINE Listed == {"bound", "r_destroy", "r_cdev"}
  <2>0. OneMoves /\ NextNumber /\ NumbersAreDense /\ BoundAreListed
    BY <1>2 DEF DenseInv, OwnsInv
  <2>t. klist \in Seq(Devices) /\ DOMAIN klist = 1 .. Len(klist) /\ Len(klist) \in Nat
    BY DEF TypeOK
  <2>1. ASSUME NEW x \in Devices, pc[x] \in Listed
        PROVE  \E k \in 1 .. Len(klist) : klist[k] = x /\ dev_num[x] = k - 1
    <3>1. PICK k \in DOMAIN klist : klist[k] = x
      BY <2>0, <2>1 DEF BoundAreListed, RemoveSteps
    <3>2. dev_num[klist[k]] = k - 1
      BY <1>2, <2>0, <2>t, <3>1 DEF NumbersAreDense, Counting
    <3> QED
      BY <2>t, <3>1, <3>2
  <2>2. ASSUME NEW x \in Devices, pc[x] \in WithCdev \ Listed
        PROVE  dev_num[x] = Len(klist) /\ pc[x] \notin Settled
    BY <1>2, <2>0, <2>2 DEF NextNumber, NumbersAreKnown, WithCdev, WithNode, Settled
  <2>3. CASE pc[d] \in Listed /\ pc[e] \in Listed
    <3>1. PICK j \in 1 .. Len(klist) : klist[j] = d /\ dev_num[d] = j - 1
      BY <2>1, <2>3
    <3>2. PICK k \in 1 .. Len(klist) : klist[k] = e /\ dev_num[e] = k - 1
      BY <2>1, <2>3
    <3>a. j \in Nat /\ k \in Nat
      BY ONLY <2>t, <3>1, <3>2
    <3>b. j - 1 = k - 1
      BY <3>1, <3>2
    <3>3. j = k
      BY ONLY <3>a, <3>b
    <3> QED
      BY <3>1, <3>2, <3>3
  <2>4. ASSUME NEW x \in Devices, NEW y \in Devices, pc[x] \in Listed,
               pc[y] \in WithCdev \ Listed
        PROVE  dev_num[x] # dev_num[y]
    <3>1. PICK k \in 1 .. Len(klist) : klist[k] = x /\ dev_num[x] = k - 1
      BY <2>1, <2>4
    <3>2. dev_num[y] = Len(klist)
      BY <2>2, <2>4
    <3> QED
      BY <2>t, <3>1, <3>2
  <2>5. CASE pc[d] \notin Listed /\ pc[e] \notin Listed
    <3>1. pc[d] \notin Settled /\ pc[e] \notin Settled
      BY <2>2, <2>5
    <3> QED
      BY <2>0, <3>1 DEF OneMoves
  <2> HIDE DEF Listed
  <2> QED
    BY <2>3, <2>4, <2>5
<1> QED
  BY <1>1, <1>2 DEF Numbered, Counting

\* The map is a sequence of entries of devices.
LEMMA EntryType ==
    ASSUME TypeOK
    PROVE  /\ DOMAIN cdevs = 1 .. Len(cdevs) /\ Len(cdevs) \in Nat
           /\ \A k \in DOMAIN cdevs : cdevs[k].of \in Devices
<1> DEFINE Entry == [minor : Int, of : Devices]
<1>1. cdevs \in Seq(Entry)
  BY DEF TypeOK
<1>2. \A e \in Entry : e.of \in Devices
  OBVIOUS
<1> HIDE DEF Entry
<1>3. /\ DOMAIN cdevs = 1 .. Len(cdevs) /\ Len(cdevs) \in Nat
      /\ \A k \in DOMAIN cdevs : cdevs[k] \in Entry
  BY ONLY <1>1
<1> QED
  BY ONLY <1>2, <1>3

\* A step of a device that adds its own entry, takes its own out, or neither.
LEMMA EntriesAreOwnStep ==
    ASSUME TypeOK, DenseInv, OwnsInv, NumbersAreKnown, EntriesAreOwn, Numbered,
           NEW d \in Devices, DeviceNext(d)
    PROVE  EntriesAreOwn'
<1>t. /\ DOMAIN cdevs = 1 .. Len(cdevs) /\ Len(cdevs) \in Nat
      /\ \A k \in DOMAIN cdevs : cdevs[k].of \in Devices
      /\ pc \in [Devices -> Labels]
  BY EntryType DEF TypeOK
<1>1. /\ \A k \in DOMAIN cdevs :
           /\ pc[cdevs[k].of] \in WithCdev
           /\ dev_num[cdevs[k].of] = cdevs[k].minor
      /\ \A j, k \in DOMAIN cdevs : cdevs[j].of = cdevs[k].of => j = k
  BY DEF EntriesAreOwn
<1>2. \A e \in Devices \ {d} : pc'[e] = pc[e] /\ dev_num'[e] = dev_num[e]
  BY <1>t, StepMovesOn, StepEffects
<1>3. pc[d] \in WithCdev \cup {"cdev"} => dev_num' = dev_num
  BY StepEffects DEF WithCdev, WithNode
<1>4. CASE AddsEntry(d)
  <2>1. /\ DOMAIN cdevs' = 1 .. Len(cdevs) + 1
        /\ cdevs'[1].of = d /\ cdevs'[1].minor = dev_num[d]
        /\ pc[d] \notin WithCdev /\ pc'[d] \in WithCdev /\ dev_num' = dev_num
    BY <1>3, <1>4 DEF AddsEntry, WithCdev, WithNode
  <2>2. \A k \in DOMAIN cdevs' :
          k # 1 => k \in Nat /\ k - 1 \in DOMAIN cdevs /\ cdevs'[k] = cdevs[k - 1]
    <3> SUFFICES ASSUME NEW k \in DOMAIN cdevs', k # 1
                 PROVE  k \in Nat /\ k - 1 \in DOMAIN cdevs /\ cdevs'[k] = cdevs[k - 1]
      OBVIOUS
    <3>1. k \in Nat /\ k - 1 \in DOMAIN cdevs /\ (k - 1) + 1 = k
      BY <1>t, <2>1
    <3>2. cdevs'[(k - 1) + 1] = cdevs[k - 1]
      BY <1>4, <3>1 DEF AddsEntry
    <3> QED
      BY <3>1, <3>2
  <2>3. \A k \in DOMAIN cdevs : cdevs[k].of # d
    BY <1>1, <2>1
  <2>4. \A k \in DOMAIN cdevs' :
          /\ pc'[cdevs'[k].of] \in WithCdev
          /\ dev_num'[cdevs'[k].of] = cdevs'[k].minor
    <3> SUFFICES ASSUME NEW k \in DOMAIN cdevs'
                 PROVE  /\ pc'[cdevs'[k].of] \in WithCdev
                        /\ dev_num'[cdevs'[k].of] = cdevs'[k].minor
      OBVIOUS
    <3>1. CASE k = 1
      BY <2>1, <3>1
    <3>2. CASE k # 1
      <4>1. k - 1 \in DOMAIN cdevs /\ cdevs'[k] = cdevs[k - 1]
        BY <2>2, <3>2
      <4> QED
        BY <1>t, <1>1, <1>2, <2>1, <2>3, <4>1
    <3> QED
      BY <3>1, <3>2
  <2>5. \A j, k \in DOMAIN cdevs' : cdevs'[j].of = cdevs'[k].of => j = k
    <3> SUFFICES ASSUME NEW j \in DOMAIN cdevs', NEW k \in DOMAIN cdevs',
                        cdevs'[j].of = cdevs'[k].of
                 PROVE  j = k
      OBVIOUS
    <3>1. CASE j = 1 \/ k = 1
      BY <2>1, <2>2, <2>3, <3>1
    <3>2. CASE j # 1 /\ k # 1
      <4>1. j \in Nat /\ k \in Nat
        BY <2>2, <3>2
      <4>2. j - 1 = k - 1
        BY <1>1, <2>2, <3>2
      <4> QED
        BY <4>1, <4>2
    <3> QED
      BY <3>1, <3>2
  <2> QED
    BY <2>4, <2>5 DEF EntriesAreOwn
<1>5. ASSUME NEW k0 \in DOMAIN cdevs, DropsEntry(d, k0)
      PROVE  EntriesAreOwn'
  <2> DEFINE old(j) == IF j < k0 THEN j ELSE j + 1
  <2>1. DOMAIN cdevs' = 1 .. Len(cdevs) - 1 /\ k0 \in Nat
    BY <1>5, <1>t DEF DropsEntry
  <2>2. \A j \in DOMAIN cdevs' :
          /\ old(j) \in DOMAIN cdevs /\ old(j) # k0 /\ cdevs'[j] = cdevs[old(j)]
          /\ \A k \in DOMAIN cdevs' : old(j) = old(k) => j = k
    BY <1>5, <1>t, <2>1 DEF DropsEntry
  <2> HIDE DEF old
  <2>3. cdevs[k0].of = d
    <3> DEFINE e == cdevs[k0].of
    <3>1. /\ e \in Devices /\ pc[e] \in WithCdev /\ pc[d] \in WithCdev
          /\ dev_num[e] = dev_num[d]
      BY <1>t, <1>1, <1>5 DEF DropsEntry, WithCdev
    <3> HIDE DEF e
    <3>2. e = d
      BY <3>1, NumbersAreUnique
    <3> QED
      BY <3>2 DEF e
  <2>4. \A k \in DOMAIN cdevs : k # k0 =>
          /\ pc'[cdevs[k].of] \in WithCdev
          /\ dev_num'[cdevs[k].of] = cdevs[k].minor
    BY <1>t, <1>1, <1>2, <2>3
  <2>5. \A k \in DOMAIN cdevs' :
          /\ pc'[cdevs'[k].of] \in WithCdev
          /\ dev_num'[cdevs'[k].of] = cdevs'[k].minor
    BY <2>2, <2>4
  <2>6. \A j, k \in DOMAIN cdevs' : cdevs'[j].of = cdevs'[k].of => j = k
    <3> SUFFICES ASSUME NEW j \in DOMAIN cdevs', NEW k \in DOMAIN cdevs',
                        cdevs'[j].of = cdevs'[k].of
                 PROVE  old(j) = old(k)
      BY <2>2
    <3> QED
      BY <1>1, <2>2
  <2> QED
    BY <2>5, <2>6 DEF EntriesAreOwn
<1>6. CASE KeepsEntries(d)
  <2>1. /\ pc'[d] \in WithCdev <=> pc[d] \in WithCdev
        /\ cdevs' = cdevs
    BY <1>6 DEF KeepsEntries
  <2>2. \A k \in DOMAIN cdevs :
          /\ pc'[cdevs[k].of] \in WithCdev
          /\ dev_num'[cdevs[k].of] = cdevs[k].minor
    BY <1>t, <1>1, <1>2, <1>3, <2>1
  <2> QED
    BY <1>1, <2>1, <2>2 DEF EntriesAreOwn
<1> QED
  BY <1>4, <1>5, <1>6, MapStep

\* Where numbers are consistent, every entry of the map is of a device that is
\* there, and a device has one.
LEMMA EntriesAreOwnInvariant == Spec => []EntriesAreOwn
<1>1. Init => EntriesAreOwn
  BY DEF Init, EntriesAreOwn
<1>2. /\ TypeOK /\ DenseInv /\ OwnsInv /\ NumbersAreKnown /\ EntriesAreOwn
      /\ [Next]_vars
      => EntriesAreOwn'
  <2> SUFFICES ASSUME TypeOK, DenseInv, OwnsInv, NumbersAreKnown, EntriesAreOwn,
                      [Next]_vars
               PROVE  EntriesAreOwn'
    OBVIOUS
  <2>0. UNCHANGED <<driver, world>> /\ pc \in [Devices -> Labels]
    BY ChoicesStay DEF TypeOK
  <2>1. CASE ~Numbered
    BY <2>0, <2>1 DEF EntriesAreOwn, Numbered
  <2>2. CASE Numbered /\ \E d \in Devices : DeviceNext(d)
    BY <2>2, EntriesAreOwnStep
  <2>3. CASE Numbered /\ \A d \in Devices : ~DeviceNext(d)
    <3>1. UNCHANGED <<cdevs, dev_num>>
      BY <2>3, OtherSteps
    <3>2. \A e \in Devices :
            pc'[e] = pc[e] \/ (pc[e] = "bound" /\ pc'[e] = "r_destroy")
      BY <2>0, <2>3, OtherSteps
    <3>3. \A k \in DOMAIN cdevs : cdevs[k].of \in Devices
      BY EntryType
    <3>4. \A k \in DOMAIN cdevs : pc'[cdevs[k].of] \in WithCdev
      BY <2>3, <3>2, <3>3 DEF EntriesAreOwn, WithCdev, WithNode
    <3> QED
      BY <2>3, <3>1, <3>4 DEF EntriesAreOwn
  <2> QED
    BY <2>1, <2>2, <2>3
<1> QED
  BY <1>1, <1>2, TypeCorrect, DenseInvInvariant, OwnsInvInvariant,
     NumbersAreKnownInvariant, PTL DEF Spec

\* The kernel's map never leads to freed memory, at boot and for "platform":
\* cdev_del drops the newest entry of the number, and that is the device's own.
THEOREM MapLeadsToMemory == Spec => []MapIsLive
<1>1. TypeOK /\ OwnsInv /\ EntriesAreOwn => MapIsLive
  <2> SUFFICES ASSUME TypeOK, OwnsInv, EntriesAreOwn, Numbered,
                      NEW k \in DOMAIN cdevs
               PROVE  cdevs[k].of \in private
    BY DEF MapIsLive
  <2>1. cdevs[k].of \in Devices /\ pc[cdevs[k].of] \in WithCdev
    BY EntryType DEF EntriesAreOwn
  <2> QED
    BY <2>1 DEF OwnsInv, MemoryIsOwned, WithCdev, WithNode
<1> QED
  BY <1>1, TypeCorrect, OwnsInvInvariant, EntriesAreOwnInvariant, PTL

\* What opening a node finds: where numbers are consistent, its own device.
LEMMA OpenFindsIt ==
    ASSUME TypeOK, DenseInv, OwnsInv, NumbersAreKnown, EntriesAreOwn, Numbered,
           NEW f \in Files, NEW d \in Devices, Open(f, d)
    PROVE  file' = [file EXCEPT ![f] = <<d, d>>]
<1>1. PICK k \in DOMAIN cdevs :
        Newest(k, dev_num[d]) /\ file' = [file EXCEPT ![f] = <<d, cdevs[k].of>>]
  BY DEF Open
<1> DEFINE e == cdevs[k].of
<1>2. /\ e \in Devices /\ pc[e] \in WithCdev /\ dev_num[e] = dev_num[d]
  BY <1>1, EntryType DEF EntriesAreOwn, Newest
<1>3. pc[d] \in WithCdev
  BY DEF Open, OwnsInv, NodesAreOwned, WithCdev
<1>4. file' = [file EXCEPT ![f] = <<d, e>>]
  BY <1>1
<1> HIDE DEF e
<1>5. e = d
  BY <1>2, <1>3, NumbersAreUnique
<1> QED
  BY <1>4, <1>5

\* The file variable changes in Open and Close only.
LEMMA FileSteps ==
    ASSUME [Next]_vars
    PROVE  \/ UNCHANGED file
           \/ \E f \in Files : Close(f) \/ \E d \in Devices : Open(f, d)
<1>1. ASSUME NEW d \in Devices, DeviceNext(d)
      PROVE  UNCHANGED file
  BY <1>1 DEF DeviceNext, Probe, GetPlatformData, AllocPrivate, AllocBuffer,
     TakeNumber, CdevAdd, DeviceCreate, CreateAttribute, CreateValues, LoadCount,
     StoreCount, DeviceDestroy, CdevDel, ProbeFails, Unbind, LoadLess, StoreLess,
     Removed, kernelVars
<1> QED
  BY <1>1 DEF Next, vars, AllocRegion, CreateClass, Register, ExitBegins, Detach,
     ExitEnds, kernelVars

\* The node of a device opens that device (chrdev_open by number), at boot and
\* for "platform".
THEOREM NodesOpenTheirDevices == Spec => []NodeOpensItsDevice
<1>1. Init => NodeOpensItsDevice
  BY DEF Init, NodeOpensItsDevice
<1>2. /\ TypeOK /\ DenseInv /\ OwnsInv /\ NumbersAreKnown /\ EntriesAreOwn
      /\ NodeOpensItsDevice /\ [Next]_vars
      => NodeOpensItsDevice'
  <2> SUFFICES ASSUME TypeOK, DenseInv, OwnsInv, NumbersAreKnown, EntriesAreOwn,
                      NodeOpensItsDevice, [Next]_vars, Numbered'
               PROVE  \A f \in Files : file'[f] # Closed => file'[f][1] = file'[f][2]
    BY DEF NodeOpensItsDevice, Closed
  <2>0. Numbered
    BY ChoicesStay DEF Numbered
  <2>1. \A g \in Files : file[g] # Closed => file[g][1] = file[g][2]
    BY <2>0 DEF NodeOpensItsDevice
  <2>t. DOMAIN file = Files
    BY DEF TypeOK
  <2>2. CASE UNCHANGED file
    BY <2>1, <2>2
  <2>3. ASSUME NEW g \in Files, Close(g)
        PROVE  \A f \in Files : file'[f] # Closed => file'[f][1] = file'[f][2]
    BY <2>1, <2>3, <2>t DEF Close
  <2>4. ASSUME NEW g \in Files, NEW d \in Devices, Open(g, d)
        PROVE  \A f \in Files : file'[f] # Closed => file'[f][1] = file'[f][2]
    <3>1. file' = [file EXCEPT ![g] = <<d, d>>]
      BY <2>0, <2>4, OpenFindsIt
    <3> QED
      BY <2>1, <2>t, <3>1
  <2> QED
    BY <2>2, <2>3, <2>4, FileSteps
<1> QED
  BY <1>1, <1>2, TypeCorrect, DenseInvInvariant, OwnsInvInvariant,
     NumbersAreKnownInvariant, EntriesAreOwnInvariant, PTL DEF Spec

---------------------------------------------------------------------------
\* The short paths of the drivers without attributes, and of removal at boot.
LEMMA PathsAreShortInvariant == Spec => []PathsAreShort
<1>1. Init => PathsAreShort
  BY DEF Init, PathsAreShort, RemoveSteps
<1>2. TypeOK /\ OwnsInv /\ PathsAreShort /\ [Next]_vars => PathsAreShort'
  <2> SUFFICES ASSUME TypeOK, OwnsInv, PathsAreShort, [Next]_vars
               PROVE  PathsAreShort'
    OBVIOUS
  <2>0. UNCHANGED <<driver, world>> /\ pc \in [Devices -> Labels]
    BY ChoicesStay DEF TypeOK
  <2>1. ASSUME NEW d \in Devices, DeviceNext(d)
        PROVE  PathsAreShort'
    <3>1. /\ Onward(pc[d], pc'[d]) /\ pc' = [pc EXCEPT ![d] = pc'[d]]
          /\ module' = module
      BY <2>1, StepMovesOn DEF moduleVars
    <3>2. driver \notin WithAttributes => pc'[d] # "attribute"
      <4> SUFFICES ASSUME driver \notin WithAttributes, pc'[d] = "attribute"
                   PROVE  FALSE
        OBVIOUS
      <4>1. pc[d] = "node"
        BY <3>1 DEF Onward
      <4>2. DeviceCreate(d)
        BY <2>1, <4>1 DEF DeviceNext, Probe, GetPlatformData, AllocPrivate,
           AllocBuffer, TakeNumber, CdevAdd, CreateAttribute, CreateValues,
           LoadCount, StoreCount, DeviceDestroy, CdevDel, ProbeFails, Unbind,
           LoadLess, StoreLess, Removed, At
      <4>3. Then("node") = "load"
        BY DEF Then
      <4> QED
        BY <2>0, <4>2, <4>3 DEF DeviceCreate, Goto
    <3>3. world = "boot" => pc'[d] # "r_destroy"
      <4> SUFFICES ASSUME world = "boot", pc'[d] = "r_destroy"
                   PROVE  FALSE
        OBVIOUS
      <4>1. pc[d] = "bound"
        BY <3>1 DEF Onward
      <4>2. Unbind(d)
        BY <2>1, <4>1 DEF DeviceNext, Probe, GetPlatformData, AllocPrivate,
           AllocBuffer, TakeNumber, CdevAdd, DeviceCreate, CreateAttribute,
           CreateValues, LoadCount, StoreCount, DeviceDestroy, CdevDel, ProbeFails,
           LoadLess, StoreLess, Removed, At
      <4> QED
        BY <4>2 DEF Unbind
    <3>4. driver \notin WithAttributes =>
            pc'[d] \notin {"attribute", "values", "dev_destroy"}
      BY <3>1, <3>2 DEF PathsAreShort, Onward
    <3>5. world = "boot" => (pc'[d] \in RemoveSteps => module = "exiting")
      BY <3>1, <3>3 DEF PathsAreShort, Onward, RemoveSteps
    <3> QED
      BY <2>0, <3>1, <3>4, <3>5 DEF PathsAreShort
  <2>2. CASE Detach
    <3>1. /\ module = "exiting" /\ module' = module
          /\ \A e \in Devices : pc'[e] = pc[e] \/ pc'[e] = "r_destroy"
      BY <2>0, <2>2 DEF Detach, Goto, moduleVars
    <3> QED
      BY <2>0, <3>1 DEF PathsAreShort
  <2>3. CASE ExitEnds
    <3>1. \A e \in Devices : pc[e] \notin RemoveSteps
      BY <2>3 DEF ExitEnds, OwnsInv, BoundAreListed
    <3> QED
      BY <2>0, <2>3, <3>1 DEF ExitEnds, PathsAreShort
  <2>4. CASE AllocRegion \/ CreateClass \/ Register \/ ExitBegins
    BY <2>0, <2>4 DEF AllocRegion, CreateClass, Register, ExitBegins, PathsAreShort
  <2>5. CASE \E f \in Files : Close(f) \/ \E d \in Devices : Open(f, d)
    BY <2>0, <2>5 DEF Open, Close, PathsAreShort, moduleVars
  <2>6. CASE UNCHANGED vars
    BY <2>6 DEF vars, PathsAreShort
  <2> QED
    BY <2>1, <2>2, <2>3, <2>4, <2>5, <2>6 DEF Next
<1> QED
  BY <1>1, <1>2, TypeCorrect, OwnsInvInvariant, PTL DEF Spec

\* At boot an open file is of a device whose probe can no longer fail and whose
\* removal waits for the file, except in "modbus".
LEMMA FilesOfBoundInvariant == Spec => []FilesOfBound
<1>1. Init => FilesOfBound
  BY DEF Init, FilesOfBound
<1>2. /\ TypeOK /\ DenseInv /\ OwnsInv /\ NumbersAreKnown /\ EntriesAreOwn
      /\ PathsAreShort /\ FilesOfBound /\ [Next]_vars
      => FilesOfBound'
  <2> SUFFICES ASSUME TypeOK, DenseInv, OwnsInv, NumbersAreKnown, EntriesAreOwn,
                      PathsAreShort, FilesOfBound, [Next]_vars
               PROVE  FilesOfBound'
    OBVIOUS
  <2> DEFINE Fine == {"load", "store", "bound"}
  <2>0. UNCHANGED <<driver, world>> /\ pc \in [Devices -> Labels] /\ DOMAIN file = Files
    BY ChoicesStay DEF TypeOK
  <2>1. CASE ~(world = "boot" /\ driver # "modbus")
    BY <2>0, <2>1 DEF FilesOfBound
  <2>2. CASE world = "boot" /\ driver # "modbus"
    <3>1. \A f \in Files : file[f] # Closed =>
            /\ driver # "sysfs" /\ file[f][2] \in Devices
            /\ pc[file[f][2]] \in Fine
      BY <2>2 DEF FilesOfBound
    <3>2. ASSUME NEW d \in Devices, DeviceNext(d)
          PROVE  FilesOfBound'
      <4>1. /\ Onward(pc[d], pc'[d]) /\ pc' = [pc EXCEPT ![d] = pc'[d]]
            /\ module' = module /\ file' = file
        BY <3>2, StepMovesOn, StepEffects DEF moduleVars
      <4>2. pc'[d] # "r_destroy"
        <5> SUFFICES ASSUME pc'[d] = "r_destroy" PROVE FALSE
          OBVIOUS
        <5>1. pc[d] = "bound"
          BY <4>1 DEF Onward
        <5>2. Unbind(d)
          BY <3>2, <5>1 DEF DeviceNext, Probe, GetPlatformData, AllocPrivate,
             AllocBuffer, TakeNumber, CdevAdd, DeviceCreate, CreateAttribute,
             CreateValues, LoadCount, StoreCount, DeviceDestroy, CdevDel,
             ProbeFails, LoadLess, StoreLess, Removed, At
        <5> QED
          BY <2>2, <5>2 DEF Unbind
      <4>3. pc[d] \in Fine => pc'[d] \in Fine
        BY <4>1, <4>2 DEF Onward
      <4>4. \A e \in Devices : pc[e] \in Fine => pc'[e] \in Fine
        BY <2>0, <4>1, <4>3
      <4> QED
        BY <2>0, <3>1, <4>1, <4>4 DEF FilesOfBound
    <3>3. CASE Detach
      <4>1. \A f \in Files : file[f] = Closed
        BY <3>3 DEF Detach, OwnsInv, ModuleIsUp
      <4>2. file' = file
        BY <3>3 DEF Detach, kernelVars
      <4> QED
        BY <4>1, <4>2 DEF FilesOfBound, Closed
    <3>4. CASE UNCHANGED <<pc, file>>
      BY <2>0, <3>1, <3>4 DEF FilesOfBound
    <3>5. ASSUME NEW g \in Files, Close(g)
          PROVE  FilesOfBound'
      BY <2>0, <3>1, <3>5 DEF Close, FilesOfBound
    <3>6. ASSUME NEW g \in Files, NEW d \in Devices, Open(g, d)
          PROVE  FilesOfBound'
      <4>1. file' = [file EXCEPT ![g] = <<d, d>>] /\ pc' = pc
        BY <2>2, <3>6, OpenFindsIt DEF Open, Numbered
      <4>2. pc[d] \in WithNode /\ module = "live" /\ driver # "sysfs"
        BY <3>6 DEF Open, OwnsInv, NodesAreOwned
      <4>3. pc[d] \in Fine
        BY <2>2, <4>2 DEF PathsAreShort, WithNode, WithAttributes, RemoveSteps
      <4>4. <<d, d>>[2] = d
        OBVIOUS
      <4> QED
        BY <2>0, <3>1, <4>1, <4>2, <4>3, <4>4 DEF FilesOfBound
    <3>7. CASE AllocRegion \/ CreateClass \/ Register \/ ExitBegins \/ ExitEnds
      BY <3>4, <3>7 DEF AllocRegion, CreateClass, Register, ExitBegins, ExitEnds,
                        kernelVars
    <3> QED
      BY <3>2, <3>3, <3>4, <3>5, <3>6, <3>7 DEF Next, vars
  <2> QED
    BY <2>1, <2>2
<1> QED
  BY <1>1, <1>2, TypeCorrect, DenseInvInvariant, OwnsInvInvariant,
     NumbersAreKnownInvariant, EntriesAreOwnInvariant, PathsAreShortInvariant, PTL
     DEF Spec

\* At boot a file never outlives the private data it uses, except in "modbus"
\* (open by probe's node, .owner of the file operations).
THEOREM FilesHaveMemory == Spec => []FilesAreBacked
<1>1. TypeOK /\ OwnsInv /\ FilesOfBound => FilesAreBacked
  <2> SUFFICES ASSUME TypeOK, OwnsInv, FilesOfBound, world = "boot", driver # "modbus",
                      NEW f \in Files, file[f] # Closed
               PROVE  file[f][2] \in private
    BY DEF FilesAreBacked
  <2>1. file[f][2] \in Devices /\ pc[file[f][2]] \in {"load", "store", "bound"}
    BY DEF FilesOfBound
  <2> QED
    BY <2>1 DEF OwnsInv, MemoryIsOwned
<1> QED
  BY <1>1, TypeCorrect, OwnsInvInvariant, FilesOfBoundInvariant, PTL
=============================================================================
