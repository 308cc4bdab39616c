------------------------- MODULE SensorCache_proofs -------------------------
(***************************************************************************)
(* Proofs about SensorCache, for any readers, sensors, numbers of          *)
(* registers and intervals.                                                *)
(***************************************************************************)
EXTENDS SensorCache, TLAPS

\* The bus keeps its type, whatever question is asked.
LEMMA BusTypeStep ==
    ASSUME NEW r \in Readers, NEW q \in Reading, Bus!TypeOK,
           Bus!Ask(r, q) \/ Bus!Take(r) \/ Bus!Succeed(r) \/ Bus!Fail(r)
             \/ Bus!Leave(r)
    PROVE  Bus!TypeOK'
<1> USE DEF Bus!TypeOK
<1>1. CASE Bus!Ask(r, q)
  BY <1>1 DEF Bus!Ask
<1>2. CASE Bus!Take(r)
  BY <1>2 DEF Bus!Take
<1>3. CASE Bus!Succeed(r)
  BY <1>3 DEF Bus!Succeed
<1>4. CASE Bus!Fail(r)
  BY <1>4 DEF Bus!Fail
<1>5. CASE Bus!Leave(r)
  BY <1>5 DEF Bus!Leave
<1>6. QED
  BY <1>1, <1>2, <1>3, <1>4, <1>5

\* A reader asks for a register its sensor has.
LEMMA QuestionIsReading ==
    ASSUME TypeOK, NEW r \in Readers
    PROVE  [of |-> <<sensor[r], i[r]>>, at |-> now] \in Reading
<1>1. sensor[r] \in Sensors /\ i[r] \in Registers(sensor[r])
  BY DEF TypeOK
<1>2. <<sensor[r], i[r]>> \in Register
  BY <1>1 DEF Register
<1>3. now \in 1 .. MaxTime
  BY TimeAssumption DEF TypeOK, Time
<1>4. QED
  BY <1>2, <1>3 DEF Reading

\* Storing a value in a table of tables keeps the type of each of them.
LEMMA UpdateKeepsType ==
    ASSUME NEW F, NEW s \in DOMAIN F, NEW t, NEW n, NEW R, NEW V, NEW x \in V,
           F[s] \in [R -> V]
    PROVE  [F EXCEPT ![t][n] = x][s] \in [R -> V]
<1>1. CASE s = t
  <2>1. [F EXCEPT ![t][n] = x][s] = [F[s] EXCEPT ![n] = x]
    BY <1>1
  <2>2. QED
    BY <2>1
<1>2. CASE s # t
  <2>1. [F EXCEPT ![t][n] = x][s] = F[s]
    BY <1>2
  <2>2. QED
    BY <2>1
<1>3. QED
  BY <1>1, <1>2

\* Noting the time of a request keeps the type of a table of times.
LEMMA NotedType ==
    ASSUME TypeOK, NEW r \in Readers, NEW times, DOMAIN times = Sensors,
           \A s \in Sensors : times[s] \in [Registers(s) -> Time]
    PROVE  /\ DOMAIN Noted(times, r) = Sensors
           /\ \A s \in Sensors : Noted(times, r)[s] \in [Registers(s) -> Time]
<1>1. /\ asked[r].at \in Time /\ sensor[r] \in Sensors
      /\ i[r] \in Registers(sensor[r])
  <2>1. \A x \in Reading \cup {NoReading} : x.at \in Time
    BY TimeAssumption DEF Reading, NoReading, Time
  <2>2. asked[r] \in Reading \cup {NoReading}
    BY DEF TypeOK, Bus!TypeOK
  <2>3. QED
    BY <2>1, <2>2 DEF TypeOK
<1>2. \E t \in Time : Noted(times, r) = [times EXCEPT ![sensor[r]][i[r]] = t]
  <2>1. times[sensor[r]][i[r]] \in Time
    BY <1>1
  <2>2. QED
    BY <1>1, <2>1 DEF Noted
<1>3. PICK t \in Time : Noted(times, r) = [times EXCEPT ![sensor[r]][i[r]] = t]
  BY <1>2
<1>4. QED
  BY <1>3, UpdateKeepsType

\* A reader that is done leaves its local variables well typed.
LEMMA FinishType ==
    ASSUME TypeOK, NEW r \in Readers, Finish(r), UNCHANGED sensor
    PROVE  /\ pc' \in [Readers -> ReaderPc]
           /\ prev' \in [Readers -> Time] /\ began' \in [Readers -> Time]
           /\ oldest' \in [Readers -> Time] /\ i' \in [Readers -> Nat]
           /\ \A d \in Readers : i'[d] \in Registers(sensor'[d])
<1>1. 0 \in Time
  BY TimeAssumption DEF Time
<1>2. sensor[r] \in Sensors /\ 1 \in Registers(sensor[r])
  BY SensorsAssumption DEF TypeOK, Registers
<1>3. QED
  BY <1>1, <1>2 DEF Finish, Goto, TypeOK, ReaderPc

\* The cache's state stays well typed, and the register index in range
\* (modbusdevice_syscalls.c:53-96, 244-307).
THEOREM TypeCorrect == Spec => []TypeOK
<1> USE TimeAssumption, SensorsAssumption
<1>1. Init => TypeOK
  <2> SUFFICES ASSUME Init PROVE TypeOK
    OBVIOUS
  <2>1. Bus!TypeOK
    BY DEF Init, Bus!Init, Bus!TypeOK
  <2>2. \A s \in Sensors : 1 \in Registers(s)
    BY DEF Registers
  <2>3. QED
    BY <2>1, <2>2 DEF Init, TypeOK, Time, ReaderPc
<1>2. TypeOK /\ [Next]_vars => TypeOK'
  <2> SUFFICES ASSUME TypeOK, [Next]_vars
               PROVE  TypeOK'
    OBVIOUS
  <2> USE DEF Goto, Finish, envVars, sensorVars, readerVars, history
  <2>1. UNCHANGED busVars => Bus!TypeOK'
    BY DEF TypeOK, busVars, Bus!TypeOK
  <2>2. /\ 0 \in Time /\ now \in Nat /\ now \in Time
        /\ \A s \in Sensors : 1 \in Registers(s)
    BY DEF TypeOK, Time, Registers
  <2>3. ASSUME NEW r \in Readers, NEW s \in Sensors, Begin(r, s)
        PROVE  TypeOK'
    BY <2>1, <2>2, <2>3 DEF Begin, TypeOK, ReaderPc
  <2>4. ASSUME NEW r \in Readers, Decide(r)
        PROVE  TypeOK'
    <3>1. inval_sampl[sensor[r]] \in Nat
      BY IntervalsAssumption DEF TypeOK
    <3>2. oldest' \in [Readers -> Time] /\ began' \in [Readers -> Time]
      BY <2>2, <2>4, <3>1 DEF Decide, TypeOK, Time
    <3>3. pc' \in [Readers -> ReaderPc]
      BY <2>4 DEF Decide, TypeOK, ReaderPc
    <3>4. QED
      BY <2>1, <2>2, <2>4, <3>2, <3>3 DEF Decide, TypeOK
  <2>5. ASSUME NEW r \in Readers, Send(r)
        PROVE  TypeOK'
    <3>1. Bus!TypeOK'
      BY <2>5, QuestionIsReading, BusTypeStep DEF Send, TypeOK
    <3>2. QED
      BY <2>5, <3>1 DEF Send, TypeOK, ReaderPc
  <2>6. ASSUME NEW r \in Readers, Transact(r)
        PROVE  TypeOK'
    <3>1. Bus!TypeOK'
      BY <2>6, QuestionIsReading, BusTypeStep DEF Transact, TypeOK
    <3>2. ASSUME NEW times, DOMAIN times = Sensors,
                 \A s \in Sensors : times[s] \in [Registers(s) -> Time]
          PROVE  /\ DOMAIN Noted(times, r) = Sensors
                 /\ \A s \in Sensors : Noted(times, r)[s] \in [Registers(s) -> Time]
      BY <2>6, <3>2, NotedType DEF Transact
    <3>3. /\ DOMAIN sampled' = Sensors
          /\ \A s \in Sensors : sampled'[s] \in [Registers(s) -> Time]
      <4>1. UNCHANGED sampled \/ sampled' = Noted(sampled, r)
        BY <2>6 DEF Transact
      <4>2. QED
        BY <3>2, <4>1 DEF TypeOK
    <3>4. /\ DOMAIN given' = Sensors
          /\ \A s \in Sensors : given'[s] \in [Registers(s) -> Time]
      <4>1. UNCHANGED given \/ given' = Noted(given, r)
        BY <2>6 DEF Transact
      <4>2. QED
        BY <3>2, <4>1 DEF TypeOK
    <3>5. QED
      BY <2>6, <3>1, <3>3, <3>4 DEF Transact, TypeOK
  <2>7. ASSUME NEW r \in Readers, Return(r)
        PROVE  TypeOK'
    <3>1. Bus!TypeOK'
      BY <2>7, QuestionIsReading, BusTypeStep DEF Return, TypeOK
    <3>2. CASE outcome[r] = "NOERR"
      BY <2>7, <3>1, <3>2 DEF Return, TypeOK, ReaderPc
    <3>3. CASE outcome[r] # "NOERR"
      <4>1. Finish(r) /\ UNCHANGED <<envVars, sensorVars, sensor, history>>
        BY <2>7, <3>3 DEF Return
      <4>2. QED
        BY <3>1, <4>1, FinishType DEF TypeOK
    <3>4. QED
      BY <3>2, <3>3
  <2>8. ASSUME NEW r \in Readers, Receive(r)
        PROVE  TypeOK'
    <3>1. answer \in Reading \cup {NoReading} /\ sensor[r] \in Sensors
      BY DEF TypeOK, Bus!TypeOK
    <3>2. \/ UNCHANGED buffer
          \/ buffer' = [buffer EXCEPT ![sensor[r]][i[r]] = answer]
      BY <2>8 DEF Receive
    <3>7. DOMAIN buffer' = Sensors
      BY <3>2 DEF TypeOK
    <3>8. ASSUME NEW s \in Sensors
          PROVE  buffer'[s] \in [Registers(s) -> Reading \cup {NoReading}]
      <4>1. buffer[s] \in [Registers(s) -> Reading \cup {NoReading}]
        BY DEF TypeOK
      <4>2. s \in DOMAIN buffer
        BY DEF TypeOK
      <4>3. [buffer EXCEPT ![sensor[r]][i[r]] = answer][s]
              \in [Registers(s) -> Reading \cup {NoReading}]
        BY <3>1, <4>1, <4>2, UpdateKeepsType
      <4>4. QED
        BY <3>2, <4>1, <4>3
    <3>3. i[r] < NumVal[sensor[r]] => i[r] + 1 \in Registers(sensor[r])
      BY <3>1 DEF TypeOK, Registers
    <3>4. i' \in [Readers -> Nat] /\ pc' \in [Readers -> ReaderPc]
      <4>1. i \in [Readers -> Nat] /\ pc \in [Readers -> ReaderPc]
        BY DEF TypeOK
      <4>2. QED
        BY <2>8, <4>1 DEF Receive, ReaderPc
    <3>5. \A d \in Readers : i'[d] \in Registers(sensor'[d])
      BY <2>8, <3>3 DEF Receive, TypeOK
    <3>6. QED
      BY <2>1, <2>8, <3>4, <3>5, <3>7, <3>8 DEF Receive, TypeOK
  <2>9. ASSUME NEW r \in Readers, Stamp(r) \/ Show(r)
        PROVE  TypeOK'
    <3>1. CASE Stamp(r)
      BY <2>1, <3>1 DEF Stamp, TypeOK, ReaderPc
    <3>2. CASE Show(r)
      <4>1. Finish(r) /\ UNCHANGED <<envVars, sensorVars, sensor, history, busVars>>
        BY <3>2 DEF Show
      <4>2. QED
        BY <2>1, <4>1, FinishType DEF TypeOK
    <3>3. QED
      BY <2>9, <3>1, <3>2
  <2>10. ASSUME NEW s \in Sensors, SetInterval(s)
         PROVE  TypeOK'
    <3>1. inval_sampl' \in [Sensors -> Intervals]
      BY <2>10 DEF SetInterval, TypeOK
    <3>2. QED
      BY <2>1, <2>10, <3>1 DEF SetInterval, TypeOK
  <2>11. CASE Tick
    <3>1. now' \in Time \ {0}
      BY <2>11, HorizonAssumption DEF Tick, TypeOK, Time
    <3>2. QED
      BY <2>1, <2>11, <3>1 DEF Tick, TypeOK
  <2>12. CASE UNCHANGED vars
    BY <2>1, <2>12 DEF vars, TypeOK
  <2>13. QED
    BY <2>3, <2>4, <2>5, <2>6, <2>7, <2>8, <2>9, <2>10, <2>11, <2>12
    DEF Next, ReaderStep
<1>3. QED
  BY <1>1, <1>2, PTL DEF Spec

(***************************************************************************)
(* Where a reader stands in its loop, all registers before the current one *)
(* have had a successful request no earlier than the reader's `began'.     *)
(***************************************************************************)
Behind(r, n) ==
    \/ pc[r] \in {"send", "wait"} /\ n < i[r]
    \/ pc[r] = "wait" /\ outcome[r] = "NOERR" /\ n = i[r]
    \/ pc[r] = "receive" /\ n <= i[r]
    \/ pc[r] = "stamp"

BackedInv ==
    /\ StampIsBacked
    /\ \A r \in Readers : began[r] <= now
    /\ \A r \in Readers : pc[r] = "decide" => i[r] = 1
    /\ \A r \in Readers :
         pc[r] = "wait" => asked[r] \in Reading /\ began[r] <= asked[r].at
    /\ \A r \in Readers : \A n \in Registers(sensor[r]) :
         Behind(r, n) => began[r] <= sampled[sensor[r]][n]

\* The times of successful requests only grow.
LEMMA SampledGrows ==
    ASSUME TypeOK, [Next]_vars, NEW s \in Sensors, NEW n \in Registers(s)
    PROVE  sampled[s][n] <= sampled'[s][n]
<1>1. sampled[s][n] \in Nat
  BY TimeAssumption DEF TypeOK, Time
<1>2. ASSUME NEW r \in Readers, Transact(r), ~ UNCHANGED sampled
      PROVE  sampled[s][n] <= sampled'[s][n]
  <2>1. sampled' = [sampled EXCEPT ![sensor[r]][i[r]] =
                      IF asked[r].at > @ THEN asked[r].at ELSE @]
    BY <1>2 DEF Transact, Noted, history
  <2>2. asked[r].at \in Nat
    BY TimeAssumption DEF TypeOK, Bus!TypeOK, Reading, NoReading
  <2>3. CASE s = sensor[r] /\ n = i[r]
    BY <1>1, <2>1, <2>2, <2>3 DEF TypeOK
  <2>4. CASE ~(s = sensor[r] /\ n = i[r])
    BY <1>1, <2>1, <2>4 DEF TypeOK
  <2>5. QED
    BY <2>3, <2>4
<1>3. UNCHANGED sampled \/ \E r \in Readers : Transact(r)
  BY DEF Next, ReaderStep, Begin, Decide, Send, Return, Receive, Stamp, Show,
         SetInterval, Tick, vars, history
<1>4. UNCHANGED sampled => sampled[s][n] <= sampled'[s][n]
  BY <1>1
<1>5. QED
  BY <1>2, <1>3, <1>4

LEMMA BeganStep ==
    ASSUME TypeOK, BackedInv, [Next]_vars, NEW d \in Readers
    PROVE  /\ began'[d] <= now'
           /\ pc'[d] = "decide" => i'[d] = 1
<1>1. began[d] \in Nat /\ now \in Nat /\ now > 0
  BY TimeAssumption DEF TypeOK, Time
<1>2. began[d] <= now /\ (pc[d] = "decide" => i[d] = 1)
  BY DEF BackedInv
<1> USE DEF Goto, Finish, TypeOK, envVars, readerVars
<1>3. CASE \E r \in Readers, s \in Sensors : Begin(r, s)
  BY <1>1, <1>2, <1>3 DEF Begin
<1>4. CASE \E r \in Readers : Decide(r) \/ Send(r) \/ Transact(r)
  <2>1. CASE \E r \in Readers : Decide(r)
    BY <1>1, <1>2, <2>1 DEF Decide
  <2>2. CASE \E r \in Readers : Send(r)
    BY <1>1, <1>2, <2>2 DEF Send
  <2>3. CASE \E r \in Readers : Transact(r)
    BY <1>1, <1>2, <2>3 DEF Transact
  <2>4. QED
    BY <1>4, <2>1, <2>2, <2>3
<1>5. CASE \E r \in Readers : Return(r) \/ Receive(r)
  BY <1>1, <1>2, <1>5 DEF Return, Receive
<1>6. CASE \E r \in Readers : Stamp(r) \/ Show(r)
  BY <1>1, <1>2, <1>6 DEF Stamp, Show
<1>7. CASE (\E s \in Sensors : SetInterval(s)) \/ Tick \/ UNCHANGED vars
  BY <1>1, <1>2, <1>7 DEF SetInterval, Tick, vars
<1>8. QED
  BY <1>3, <1>4, <1>5, <1>6, <1>7 DEF Next, ReaderStep

LEMMA AskedStep ==
    ASSUME TypeOK, BackedInv, [Next]_vars, NEW d \in Readers, pc'[d] = "wait"
    PROVE  asked'[d] \in Reading /\ began'[d] <= asked'[d].at
<1>1. /\ pc[d] = "wait" => asked[d] \in Reading /\ began[d] <= asked[d].at
      /\ began[d] <= now
  BY DEF BackedInv
<1> USE DEF Goto, Finish, TypeOK, envVars, readerVars, busVars
<1>2. ASSUME NEW r \in Readers, Send(r)
      PROVE  asked'[d] \in Reading /\ began'[d] <= asked'[d].at
  <2>1. /\ asked' = [asked EXCEPT ![r] = [of |-> <<sensor[r], i[r]>>, at |-> now]]
        /\ pc' = [pc EXCEPT ![r] = "wait"] /\ UNCHANGED began
    BY <1>2 DEF Send, Bus!Ask
  <2>2. asked \in [Readers -> Reading \cup {NoReading}]
    BY DEF Bus!TypeOK
  <2>3. CASE d = r
    BY <1>1, <2>1, <2>2, <2>3, QuestionIsReading
  <2>4. CASE d # r
    BY <1>1, <2>1, <2>2, <2>4
  <2>5. QED
    BY <2>3, <2>4
<1>3. CASE \E r \in Readers : Transact(r)
  BY <1>1, <1>3 DEF Transact, Bus!Take, Bus!Succeed, Bus!Fail
<1>4. CASE \E r \in Readers : Return(r)
  BY <1>1, <1>4 DEF Return, Bus!Leave
<1>5. CASE \E r \in Readers : \E s \in Sensors : Begin(r, s)
  BY <1>1, <1>5 DEF Begin
<1>6. CASE \E r \in Readers : Decide(r) \/ Receive(r)
  BY <1>1, <1>6 DEF Decide, Receive
<1>7. CASE \E r \in Readers : Stamp(r) \/ Show(r)
  BY <1>1, <1>7 DEF Stamp, Show
<1>8. CASE (\E s \in Sensors : SetInterval(s)) \/ Tick \/ UNCHANGED vars
  BY <1>1, <1>8 DEF SetInterval, Tick, vars
<1>9. QED
  BY <1>2, <1>3, <1>4, <1>5, <1>6, <1>7, <1>8 DEF Next, ReaderStep

LEMMA BehindStep ==
    ASSUME TypeOK, TypeOK', BackedInv, [Next]_vars, NEW d \in Readers,
           NEW n \in Registers(sensor'[d]), Behind(d, n)'
    PROVE  began'[d] <= sampled'[sensor'[d]][n]
<1> DEFINE Goal == began'[d] <= sampled'[sensor'[d]][n]
<1>1. /\ sensor[d] \in Sensors /\ began[d] \in Nat /\ n \in Nat
      /\ i[d] \in Registers(sensor[d])
  BY TimeAssumption, SensorsAssumption DEF TypeOK, Time, Registers
<1>2. /\ \A m \in Registers(sensor[d]) :
           /\ sampled[sensor[d]][m] \in Nat /\ sampled'[sensor[d]][m] \in Nat
           /\ sampled[sensor[d]][m] <= sampled'[sensor[d]][m]
      /\ NumVal[sensor[d]] \in Nat
  BY SampledGrows, <1>1, TimeAssumption, SensorsAssumption DEF TypeOK, Time
<1>3. ASSUME sensor'[d] = sensor[d], began'[d] = began[d], Behind(d, n)
      PROVE  Goal
  <2>1. n \in Registers(sensor[d])
    BY <1>3 DEF Registers
  <2>2. began[d] <= sampled[sensor[d]][n]
    BY <1>3, <2>1 DEF BackedInv
  <2>3. QED
    BY <1>1, <1>2, <1>3, <2>1, <2>2
<1> USE DEF Goto, Finish, TypeOK, envVars, readerVars, busVars, history, Behind
<1>4. ASSUME NEW r \in Readers, NEW s \in Sensors, Begin(r, s)
      PROVE  Goal
  BY <1>3, <1>4 DEF Begin
<1>5. ASSUME NEW r \in Readers, Decide(r)
      PROVE  Goal
  <2>1. d # r
    <3>1. d = r => pc[d] = "decide" /\ i'[d] = i[d]
                   /\ pc'[d] \in {"send", "show"}
      BY <1>5 DEF Decide
    <3>2. pc[d] = "decide" => i[d] = 1
      BY DEF BackedInv
    <3>3. ~(n < 1)
      BY DEF Registers
    <3>4. QED
      BY <3>1, <3>2, <3>3
  <2>2. QED
    BY <1>3, <1>5, <2>1 DEF Decide
<1>6. ASSUME NEW r \in Readers, Send(r)
      PROVE  Goal
  <2>1. /\ pc[r] = "send" /\ pc' = [pc EXCEPT ![r] = "wait"]
        /\ outcome' = [outcome EXCEPT ![r] = "none"]
        /\ UNCHANGED <<sensor, began, i>>
    BY <1>6 DEF Send, Bus!Ask
  <2>2. outcome \in [Readers -> {"none", "NOERR", "failed"}]
    BY DEF Bus!TypeOK
  <2>3. QED
    BY <1>3, <2>1, <2>2
<1>7. ASSUME NEW r \in Readers, Transact(r)
      PROVE  Goal
  <2>1. /\ pc[r] = "wait" /\ UNCHANGED <<pc, sensor, began, i>>
    BY <1>7 DEF Transact
  <2>2. outcome \in [Readers -> {"none", "NOERR", "failed"}]
    BY DEF Bus!TypeOK
  <2>3. CASE Bus!Take(r)
    BY <1>3, <2>1, <2>3 DEF Bus!Take
  <2>4. CASE Bus!Fail(r)
    BY <1>3, <2>1, <2>2, <2>4 DEF Bus!Fail
  <2>5. CASE Bus!Succeed(r) /\ sampled' = [sampled EXCEPT ![sensor[r]][i[r]] =
                                    IF asked[r].at > @ THEN asked[r].at ELSE @]
    <3>1. CASE d = r /\ n = i[r]
      <4>1. asked[r] \in Reading /\ began[r] <= asked[r].at
        BY <2>1 DEF BackedInv
      <4>2. asked[r].at \in Nat
        BY <4>1, TimeAssumption DEF Reading
      <4>3. sampled'[sensor[r]][i[r]] = IF asked[r].at > sampled[sensor[r]][i[r]]
                                        THEN asked[r].at
                                        ELSE sampled[sensor[r]][i[r]]
        BY <1>1, <2>5, <3>1
      <4>4. QED
        BY <1>1, <1>2, <2>1, <3>1, <4>1, <4>2, <4>3
    <3>2. CASE d # r \/ n # i[r]
      BY <1>3, <2>1, <2>2, <2>5, <3>2 DEF Bus!Succeed
    <3>3. QED
      BY <3>1, <3>2
  <2>6. QED
    BY <1>7, <2>3, <2>4, <2>5 DEF Transact, Noted
<1>8. ASSUME NEW r \in Readers, Return(r)
      PROVE  Goal
  <2>1. pc[r] = "wait" /\ UNCHANGED <<sensor, outcome>>
    BY <1>8 DEF Return, Bus!Leave
  <2>2. CASE outcome[r] = "NOERR"
    <3>1. pc' = [pc EXCEPT ![r] = "receive"] /\ UNCHANGED <<began, i, sampled>>
      BY <1>8, <2>2 DEF Return
    <3>2. CASE d = r
      <4>1. n <= i[r]
        <5>1. pc \in [Readers -> ReaderPc] /\ pc'[d] = "receive" /\ i'[d] = i[d]
          BY <3>1, <3>2
        <5>2. QED
          BY <3>2, <5>1
      <4>2. n < i[r] \/ n = i[r]
        BY <1>1, <1>2, <2>1, <3>2, <4>1 DEF Registers
      <4>3. QED
        BY <1>3, <2>1, <2>2, <3>1, <3>2, <4>2
    <3>3. CASE d # r
      BY <1>3, <2>1, <3>1, <3>3
    <3>4. QED
      BY <3>2, <3>3
  <2>3. CASE outcome[r] # "NOERR"
    BY <1>3, <1>8, <2>1, <2>3 DEF Return
  <2>4. QED
    BY <2>2, <2>3
<1>9. ASSUME NEW r \in Readers, Receive(r)
      PROVE  Goal
  <2>1. pc[r] = "receive" /\ UNCHANGED <<sensor, outcome, began>>
    BY <1>9 DEF Receive
  <2>2. CASE i[r] < NumVal[sensor[r]]
    BY <1>1, <1>3, <1>9, <2>1, <2>2 DEF Receive
  <2>3. CASE ~(i[r] < NumVal[sensor[r]])
    <3>1. pc' = [pc EXCEPT ![r] = "stamp"] /\ UNCHANGED i
      BY <1>9, <2>3 DEF Receive
    <3>2. d = r => n <= i[r]
      BY <1>1, <1>2, <2>1, <2>3 DEF Registers
    <3>3. QED
      BY <1>3, <2>1, <3>1, <3>2
  <2>4. QED
    BY <2>2, <2>3
<1>10. ASSUME NEW r \in Readers, Stamp(r) \/ Show(r)
       PROVE  Goal
  BY <1>3, <1>10 DEF Stamp, Show
<1>11. CASE (\E s \in Sensors : SetInterval(s)) \/ Tick \/ UNCHANGED vars
  BY <1>3, <1>11 DEF SetInterval, Tick, vars
<1>12. QED
  BY <1>4, <1>5, <1>6, <1>7, <1>8, <1>9, <1>10, <1>11 DEF Next, ReaderStep

\* The stamps and what stands behind them, in every state.
LEMMA BackedInvInvariant == Spec => []BackedInv
<1>1. Init => BackedInv
  BY TimeAssumption
  DEF Init, BackedInv, StampIsBacked, Behind
<1>2. TypeOK /\ TypeOK' /\ BackedInv /\ [Next]_vars => BackedInv'
  <2> SUFFICES ASSUME TypeOK, TypeOK', BackedInv, [Next]_vars
               PROVE  BackedInv'
    OBVIOUS
  <2>1. ASSUME NEW s \in Sensors, NEW n \in Registers(s)
        PROVE  previous_read'[s] <= sampled'[s][n]
    <3>1. /\ previous_read[s] \in Nat /\ sampled[s][n] \in Nat
          /\ sampled'[s][n] \in Nat
      BY TimeAssumption DEF TypeOK, Time
    <3>2. sampled[s][n] <= sampled'[s][n] /\ previous_read[s] <= sampled[s][n]
      BY SampledGrows DEF BackedInv, StampIsBacked
    <3>3. ASSUME NEW r \in Readers, Stamp(r), s = sensor[r]
          PROVE  previous_read'[s] <= sampled'[s][n]
      <4>1. previous_read'[s] = began[r] /\ UNCHANGED sampled /\ pc[r] = "stamp"
        BY <3>3 DEF Stamp, TypeOK, history
      <4>2. began[r] <= sampled[s][n]
        BY <3>3, <4>1 DEF BackedInv, Behind
      <4>3. QED
        BY <4>1, <4>2
    <3>4. \/ UNCHANGED previous_read
          \/ \E r \in Readers : Stamp(r)
      BY DEF Next, ReaderStep, Begin, Decide, Send, Transact, Return, Receive,
             Show, SetInterval, Tick, vars, envVars, sensorVars
    <3>5. previous_read'[s] = previous_read[s]
          \/ \E r \in Readers : Stamp(r) /\ s = sensor[r]
      BY <3>4 DEF Stamp, TypeOK
    <3>6. QED
      BY <3>1, <3>2, <3>3, <3>5
  <2>2. QED
    BY <2>1, BeganStep, AskedStep, BehindStep DEF BackedInv, StampIsBacked
<1>3. QED
  BY <1>1, <1>2, TypeCorrect, PTL DEF Spec

\* However readers of a sensor interleave, fail or overtake each other, its
\* stamp is backed by a request for every register that succeeded and was made
\* no earlier (modbusdevice_syscalls.c:57-91, 251-286).
THEOREM StampsAreBacked == Spec => []StampIsBacked
<1>1. BackedInv => StampIsBacked
  BY DEF BackedInv
<1>2. QED
  BY <1>1, BackedInvInvariant, PTL

(***************************************************************************)
(* What a reader decides by is still backed when it answers.               *)
(***************************************************************************)
\* The ranges the arguments below compute with.
LEMMA Ranges ==
    ASSUME TypeOK
    PROVE  /\ now \in Nat /\ now # 0
           /\ \A s \in Sensors : previous_read[s] \in Nat /\ inval_sampl[s] \in Nat
           /\ \A r \in Readers :
                /\ sensor[r] \in Sensors /\ i[r] \in Registers(sensor[r])
                /\ i[r] \in Nat /\ NumVal[sensor[r]] \in Nat
                /\ prev[r] \in Nat /\ began[r] \in Nat /\ oldest[r] \in Nat
           /\ \A s \in Sensors : \A n \in Registers(s) :
                n \in Nat /\ sampled[s][n] \in Nat /\ given[s][n] \in Nat
<1>1. \A t \in Time : t \in Nat
  BY TimeAssumption DEF Time
<1>2. \A s \in Sensors : \A n \in Registers(s) :
        n \in Nat /\ sampled[s][n] \in Time /\ given[s][n] \in Time
  <2>1. \A s \in Sensors : \A n \in Registers(s) : n \in Nat
    BY SensorsAssumption DEF Registers
  <2>2. QED
    BY <2>1 DEF TypeOK
<1>3. QED
  BY <1>1, <1>2, IntervalsAssumption, SensorsAssumption DEF TypeOK

Sampling(r) == pc[r] \in {"send", "wait", "receive", "stamp"}

\* Register n of r's sensor was asked for with success at time t or later.
Since(r, n, t) == t <= sampled[sensor[r]][n]

ReaderFresh(r) ==
    /\ pc[r] = "decide" => \A n \in Registers(sensor[r]) : Since(r, n, prev[r])
    /\ Sampling(r) => oldest[r] <= began[r]
    /\ pc[r] = "show" => \A n \in Registers(sensor[r]) : Since(r, n, oldest[r])

FreshInv == \A r \in Readers : ReaderFresh(r)

\* What a reader has, nobody else's step takes from it.
LEMMA FreshFrame ==
    ASSUME TypeOK, TypeOK', [Next]_vars, NEW d \in Readers, ReaderFresh(d),
           pc'[d] = pc[d], sensor'[d] = sensor[d], prev'[d] = prev[d],
           began'[d] = began[d], oldest'[d] = oldest[d]
    PROVE  ReaderFresh(d)'
<1>1. sensor[d] \in Sensors /\ prev[d] \in Nat /\ oldest[d] \in Nat
  BY Ranges
<1>2. \A n \in Registers(sensor[d]) :
        /\ sampled[sensor[d]][n] \in Nat /\ sampled'[sensor[d]][n] \in Nat
        /\ sampled[sensor[d]][n] <= sampled'[sensor[d]][n]
  BY <1>1, SampledGrows, TimeAssumption DEF TypeOK, Time
<1>3. \A n \in Registers(sensor[d]) : \A t \in Nat :
        Since(d, n, t) => t <= sampled'[sensor[d]][n]
  BY <1>2 DEF Since
<1>4. QED
  BY <1>1, <1>3 DEF ReaderFresh, Sampling, Since

\* A stamp that the interval admits is no older than the oldest reading it admits.
LEMMA DecideFresh ==
    ASSUME TypeOK, NEW r \in Readers, Decide(r), ReaderFresh(r)
    PROVE  ReaderFresh(r)'
<1> DEFINE s == sensor[r]
           w == inval_sampl[s]
<1>1. /\ s \in Sensors /\ w \in Nat /\ now \in Nat /\ prev[r] \in Nat
      /\ \A n \in Registers(s) : sampled[s][n] \in Nat /\ prev[r] <= sampled[s][n]
  BY Ranges DEF Decide, ReaderFresh, Since
<1>2. /\ pc'[r] = IF prev[r] = 0 \/ now - prev[r] > w THEN "send" ELSE "show"
      /\ began'[r] = now
      /\ oldest'[r] = IF w < now THEN now - w ELSE 0
      /\ UNCHANGED <<sensor, sampled>>
  BY <1>1 DEF Decide, Goto, TypeOK, history
<1>3. CASE prev[r] = 0 \/ now - prev[r] > w
  <2>1. pc'[r] = "send" /\ oldest'[r] <= now
    BY <1>1, <1>2, <1>3
  <2>2. QED
    BY <1>2, <2>1 DEF ReaderFresh, Sampling
<1>4. CASE ~(prev[r] = 0 \/ now - prev[r] > w)
  <2>1. pc'[r] = "show" /\ oldest'[r] <= prev[r] /\ oldest'[r] \in Nat
    BY <1>1, <1>2, <1>4
  <2>2. \A n \in Registers(s) : oldest'[r] <= sampled[s][n]
    BY <1>1, <2>1
  <2>3. QED
    BY <1>2, <2>1, <2>2 DEF ReaderFresh, Sampling, Since
<1>5. QED
  BY <1>3, <1>4

\* A reader that has sampled every register has them as of when it began.
LEMMA StampFresh ==
    ASSUME TypeOK, BackedInv, NEW r \in Readers, Stamp(r), ReaderFresh(r)
    PROVE  ReaderFresh(r)'
<1> DEFINE s == sensor[r]
<1>1. /\ pc[r] = "stamp" /\ pc'[r] = "show" /\ UNCHANGED <<sensor, oldest, sampled>>
  BY DEF Stamp, Goto, TypeOK, history
<1>2. /\ s \in Sensors /\ began[r] \in Nat /\ oldest[r] \in Nat
      /\ \A n \in Registers(s) : sampled[s][n] \in Nat
  BY Ranges
<1>3. oldest[r] <= began[r]
  BY <1>1 DEF ReaderFresh, Sampling
<1>4. \A n \in Registers(s) : began[r] <= sampled[s][n]
  BY <1>1 DEF BackedInv, Behind
<1>5. \A n \in Registers(s) : oldest[r] <= sampled[s][n]
  BY <1>2, <1>3, <1>4
<1>6. QED
  BY <1>1, <1>5 DEF ReaderFresh, Sampling, Since

LEMMA FreshInvInductive ==
    ASSUME TypeOK, TypeOK', BackedInv, FreshInv, [Next]_vars
    PROVE  FreshInv'
<1> SUFFICES ASSUME NEW d \in Readers PROVE ReaderFresh(d)'
  BY DEF FreshInv
<1>1. ReaderFresh(d) /\ pc \in [Readers -> ReaderPc]
  BY DEF FreshInv, TypeOK
<1>2. ASSUME pc'[d] = "idle"
      PROVE  ReaderFresh(d)'
  BY <1>2 DEF ReaderFresh, Sampling
<1>3. ASSUME Sampling(d), Sampling(d)', UNCHANGED <<oldest, began>>
      PROVE  ReaderFresh(d)'
  BY <1>1, <1>3 DEF ReaderFresh, Sampling
<1> USE DEF Goto, Finish
<1>4. ASSUME NEW s \in Sensors, Begin(d, s)
      PROVE  ReaderFresh(d)'
  <2>1. /\ sensor'[d] = s /\ prev'[d] = previous_read[s] /\ pc'[d] = "decide"
        /\ UNCHANGED sampled
    BY <1>4 DEF Begin, TypeOK, history
  <2>2. \A n \in Registers(s) : previous_read[s] <= sampled[s][n]
    BY DEF BackedInv, StampIsBacked
  <2>3. QED
    BY <2>1, <2>2 DEF ReaderFresh, Sampling, Since
<1>5. ASSUME Send(d) \/ Transact(d) \/ Return(d) \/ Receive(d)
      PROVE  ReaderFresh(d)'
  <2>1. CASE Send(d)
    BY <1>1, <1>3, <2>1 DEF Send, Sampling
  <2>2. CASE Transact(d)
    BY <1>1, <1>3, <2>2 DEF Transact, Sampling, readerVars
  <2>3. CASE Return(d)
    BY <1>1, <1>2, <1>3, <2>3 DEF Return, Sampling
  <2>4. CASE Receive(d)
    BY <1>1, <1>3, <2>4 DEF Receive, Sampling
  <2>5. QED
    BY <1>5, <2>1, <2>2, <2>3, <2>4
<1>6. ASSUME ReaderStep(d)
      PROVE  ReaderFresh(d)'
  <2>1. CASE Show(d)
    BY <1>1, <1>2, <2>1 DEF Show
  <2>2. QED
    BY <1>1, <1>5, <1>6, <2>1, DecideFresh, StampFresh DEF ReaderStep
<1>7. ASSUME NEW r \in Readers, r # d,
             ReaderStep(r) \/ \E s \in Sensors : Begin(r, s)
      PROVE  ReaderFresh(d)'
  <2>1. /\ pc'[d] = pc[d] /\ sensor'[d] = sensor[d] /\ prev'[d] = prev[d]
        /\ began'[d] = began[d] /\ oldest'[d] = oldest[d]
    BY <1>7 DEF ReaderStep, Begin, Decide, Send, Transact, Return, Receive, Stamp,
                Show, readerVars, TypeOK
  <2>2. QED
    BY <1>1, <2>1, FreshFrame
<1>8. CASE (\E s \in Sensors : SetInterval(s)) \/ Tick \/ UNCHANGED vars
  BY <1>1, <1>8, FreshFrame DEF SetInterval, Tick, vars, readerVars
<1>9. QED
  BY <1>4, <1>6, <1>7, <1>8 DEF Next

\* However readers overlap, a read that succeeds answers with registers that were
\* all asked for within its interval (modbusdevice_syscalls.c:57-96, 251-307).
THEOREM ReadsAreFresh == Spec => []FreshAnswer
<1>1. Init => FreshInv
  BY DEF Init, FreshInv, ReaderFresh, Sampling
<1>2. TypeOK /\ TypeOK' /\ BackedInv /\ FreshInv /\ [Next]_vars => FreshInv'
  BY FreshInvInductive
<1>3. TypeOK /\ FreshInv => FreshAnswer
  <2> SUFFICES ASSUME TypeOK, FreshInv, NEW r \in Readers, pc[r] = "show",
                      NEW n \in Registers(sensor[r])
               PROVE  sampled[sensor[r]][n] >= oldest[r]
    BY DEF FreshAnswer
  <2>1. oldest[r] \in Nat /\ sampled[sensor[r]][n] \in Nat
    BY Ranges
  <2>2. oldest[r] <= sampled[sensor[r]][n]
    BY DEF FreshInv, ReaderFresh, Since
  <2>3. QED
    BY <2>1, <2>2
<1>4. QED
  BY <1>1, <1>2, <1>3, TypeCorrect, BackedInvInvariant, PTL DEF Spec

(***************************************************************************)
(* The regime "alone": one read at a time, while slaves may refuse.        *)
(***************************************************************************)
OneReader == \A q, r \in Readers : pc[q] # "idle" /\ pc[r] # "idle" => q = r

\* r waits for the answer to its own question, the newest of its register, or
\* has it; whatever it has not got to store is in the buffer.
Told(r) == pc[r] = "receive" \/ (pc[r] = "wait" /\ outcome[r] = "NOERR")

Waits(r) ==
    pc[r] = "wait" =>
      /\ asked[r] = [of |-> <<sensor[r], i[r]>>, at |-> asked[r].at]
      /\ asked[r] \in Reading
      /\ given[sensor[r]][i[r]] <= asked[r].at /\ asked[r].at <= now

Knows(r) ==
    Told(r) /\ answer # NoReading => answer = Newest(sensor[r], i[r])

Kept(s, n) ==
    \/ buffer[s][n] = Newest(s, n)
    \/ \E r \in Readers : Holds(r, s, n) /\ answer # NoReading

NewestInv ==
    regime = "alone" =>
      /\ OneReader
      /\ \A r \in Readers : Waits(r) /\ Knows(r)
      /\ \A s \in Sensors : \A n \in Registers(s) : given[s][n] <= now /\ Kept(s, n)

LEMMA OneReaderStep ==
    ASSUME TypeOK, OneReader, [Next]_vars, regime = "alone"
    PROVE  OneReader'
<1>1. pc \in [Readers -> ReaderPc]
  BY DEF TypeOK
<1> USE DEF OneReader, Goto, Finish, readerVars
<1>2. CASE \E r \in Readers : \E s \in Sensors : Begin(r, s)
  BY <1>1, <1>2 DEF Begin
<1>3. CASE \E r \in Readers : Decide(r) \/ Send(r) \/ Transact(r)
  BY <1>1, <1>3 DEF Decide, Send, Transact
<1>4. CASE \E r \in Readers : Return(r) \/ Receive(r)
  BY <1>1, <1>4 DEF Return, Receive
<1>5. CASE \E r \in Readers : Stamp(r) \/ Show(r)
  BY <1>1, <1>5 DEF Stamp, Show
<1>6. CASE (\E s \in Sensors : SetInterval(s)) \/ Tick \/ UNCHANGED vars
  BY <1>6 DEF SetInterval, Tick, vars
<1>7. QED
  BY <1>2, <1>3, <1>4, <1>5, <1>6 DEF Next, ReaderStep

\* A step that leaves buffer and history alone, and in which nobody is told anything
\* or is being told, leaves the buffer as complete as it was.
LEMMA KeptFrame ==
    ASSUME UNCHANGED <<buffer, given>>, \A r \in Readers : ~ Told(r),
           NEW s, NEW n, Kept(s, n)
    PROVE  Kept(s, n)'
BY DEF Kept, Newest, Told, Holds

\* Receive stores the answer under the register that was asked for.
LEMMA ReceiveStores ==
    ASSUME TypeOK, NEW r \in Readers, Receive(r), NEW s \in Sensors,
           NEW n \in Registers(s)
    PROVE  \/ buffer'[s][n] = buffer[s][n]
           \/ /\ s = sensor[r] /\ n = i[r]
              /\ buffer'[s][n] = answer
<1>1. s \in DOMAIN buffer /\ n \in DOMAIN buffer[s]
  BY DEF TypeOK
<1>2. UNCHANGED buffer \/ buffer' = [buffer EXCEPT ![sensor[r]][i[r]] = answer]
  BY DEF Receive
<1>3. CASE s = sensor[r] /\ n = i[r]
  BY <1>1, <1>2, <1>3
<1>4. CASE ~(s = sensor[r] /\ n = i[r])
  BY <1>1, <1>2, <1>4
<1>5. QED
  BY <1>3, <1>4

\* The hypotheses of the steps below: r is the one reader, and NewestInv holds.
LoneHyp(r) ==
    /\ TypeOK
    /\ regime = "alone"
    /\ r \in Readers
    /\ \A q \in Readers : q # r => pc[q] = "idle"
    /\ Waits(r) /\ Knows(r)
    /\ \A s \in Sensors : \A n \in Registers(s) : given[s][n] <= now /\ Kept(s, n)

\* What a step of the one reader has to keep.
LoneGoal(r) ==
    /\ Waits(r) /\ Knows(r)
    /\ \A s \in Sensors : \A n \in Registers(s) : given[s][n] <= now /\ Kept(s, n)

\* A step that tells and stores nothing keeps what the buffer has.
LEMMA QuietStep ==
    ASSUME NEW r, LoneHyp(r), ~ Told(r), UNCHANGED <<buffer, given, now>>
    PROVE  \A s \in Sensors : \A n \in Registers(s) :
             given'[s][n] <= now' /\ Kept(s, n)'
<1>1. \A q \in Readers : ~ Told(q)
  BY DEF LoneHyp, Told
<1>2. \A s \in Sensors : \A n \in Registers(s) : Kept(s, n)'
  BY <1>1, KeptFrame DEF LoneHyp
<1>3. QED
  BY <1>2 DEF LoneHyp

LEMMA SendNewest ==
    ASSUME NEW r, LoneHyp(r), Send(r)
    PROVE  LoneGoal(r)'
<1>1. /\ pc[r] = "send" /\ pc'[r] = "wait" /\ outcome'[r] = "none"
      /\ asked'[r] = [of |-> <<sensor[r], i[r]>>, at |-> now]
      /\ UNCHANGED <<sensor, i, now, buffer, given>>
  BY DEF LoneHyp, Send, Goto, Bus!Ask, TypeOK, Bus!TypeOK, sensorVars, envVars,
         history
<1>2. ~ Told(r) /\ ~ Told(r)'
  BY <1>1 DEF Told
<1>3. Waits(r)'
  <2>1. asked'[r] \in Reading
    BY <1>1, QuestionIsReading DEF LoneHyp
  <2>2. given[sensor[r]][i[r]] <= now /\ now <= now
    BY Ranges DEF LoneHyp
  <2>3. QED
    BY <1>1, <2>1, <2>2 DEF Waits
<1>4. QED
  BY <1>1, <1>2, <1>3, QuietStep DEF LoneGoal, Knows

\* A value that comes is the newest of its register, and not stored yet.
LEMMA SucceedNewest ==
    ASSUME NEW r, LoneHyp(r), pc[r] = "wait", Bus!Succeed(r),
           answer' # NoReading, given' = Noted(given, r),
           UNCHANGED <<pc, sensor, i, now, buffer>>
    PROVE  LoneGoal(r)'
<1> DEFINE s == sensor[r]
           n == i[r]
           t == asked[r].at
<1>1. /\ r \in Readers /\ s \in Sensors /\ n \in Registers(s)
      /\ given[s][n] \in Nat /\ now \in Nat
  BY Ranges DEF LoneHyp
<1>2. /\ asked[r] \in Reading /\ asked[r] = [of |-> <<s, n>>, at |-> t]
      /\ given[s][n] <= t /\ t <= now
  BY DEF LoneHyp, Waits
<1>3. t \in Nat /\ t # 0
  BY <1>2, TimeAssumption DEF Reading
<1>4. /\ outcome[r] = "none" /\ outcome'[r] = "NOERR" /\ answer' = asked[r]
      /\ UNCHANGED asked
  BY DEF Bus!Succeed, LoneHyp, TypeOK, Bus!TypeOK
<1>5. ~ Told(r)
  BY <1>4 DEF Told
<1>6. /\ given'[s][n] = t
      /\ \A u \in Sensors : \A m \in Registers(u) :
           ~(u = s /\ m = n) => given'[u][m] = given[u][m]
  <2>1. given' = [given EXCEPT ![s][n] = IF t > @ THEN t ELSE @]
    BY DEF Noted
  <2>2. /\ s \in DOMAIN given
        /\ \A u \in Sensors : \A m \in Registers(u) :
             u \in DOMAIN given /\ m \in DOMAIN given[u]
    BY <1>1 DEF LoneHyp, TypeOK
  <2>3. given'[s][n] = IF t > given[s][n] THEN t ELSE given[s][n]
    BY <1>1, <2>1, <2>2
  <2>4. given'[s][n] = t
    BY <1>1, <1>2, <1>3, <2>3
  <2>5. QED
    BY <2>1, <2>2, <2>4
<1>7. answer' = Newest(s, n)'
  BY <1>2, <1>3, <1>4, <1>6 DEF Newest
<1>8. Waits(r)'
  <2>1. t <= t
    BY <1>3
  <2>2. QED
    BY <1>2, <1>4, <1>6, <2>1 DEF Waits
<1>9. ASSUME NEW u \in Sensors, NEW m \in Registers(u)
      PROVE  given'[u][m] <= now' /\ Kept(u, m)'
  <2>1. CASE u = s /\ m = n
    <3>1. Holds(r, u, m)'
      BY <1>4, <2>1 DEF Holds
    <3>2. QED
      BY <1>1, <1>2, <1>6, <2>1, <3>1 DEF Kept
  <2>2. CASE ~(u = s /\ m = n)
    <3>1. given[u][m] <= now /\ Kept(u, m) /\ given'[u][m] = given[u][m]
      BY <1>6, <2>2 DEF LoneHyp
    <3>2. \A q \in Readers : ~ Holds(q, u, m)
      BY <1>5, <2>2 DEF LoneHyp, Holds, Told
    <3>3. buffer[u][m] = Newest(u, m)
      BY <3>1, <3>2 DEF Kept
    <3>4. QED
      BY <3>1, <3>3 DEF Kept, Newest
  <2>3. QED
    BY <2>1, <2>2
<1>10. QED
  BY <1>7, <1>8, <1>9 DEF LoneGoal, Knows

LEMMA TransactNewest ==
    ASSUME NEW r, LoneHyp(r), Transact(r)
    PROVE  LoneGoal(r)'
<1>1. /\ pc[r] = "wait" /\ UNCHANGED <<pc, sensor, i, now, buffer, asked>>
  BY DEF Transact, readerVars, sensorVars, envVars, Bus!Take, Bus!Succeed, Bus!Fail
<1>2. outcome[r] = "none" /\ ~ Told(r)
  BY <1>1 DEF Transact, Bus!Take, Bus!Succeed, Bus!Fail, Told
<1>3. CASE UNCHANGED given /\ (answer' = NoReading \/ ~ Told(r)')
  <2>1. Waits(r)'
    BY <1>1, <1>3 DEF LoneHyp, Waits
  <2>2. QED
    BY <1>1, <1>2, <1>3, <2>1, QuietStep DEF LoneGoal, Knows
<1>4. CASE Bus!Succeed(r) /\ answer' # NoReading /\ given' = Noted(given, r)
  BY <1>1, <1>4, SucceedNewest
<1>5. CASE Bus!Take(r) /\ UNCHANGED history
  <2>1. answer' = NoReading /\ UNCHANGED given
    BY <1>5 DEF Bus!Take, history
  <2>2. QED
    BY <1>3, <2>1
<1>6. CASE Bus!Fail(r) /\ UNCHANGED history
  <2>1. outcome'[r] = "failed" /\ UNCHANGED <<given, pc>>
    BY <1>1, <1>6 DEF Bus!Fail, history, LoneHyp, TypeOK, Bus!TypeOK
  <2>2. ~ Told(r)'
    BY <1>1, <2>1 DEF Told
  <2>3. QED
    BY <1>3, <2>1, <2>2
<1>7. CASE Bus!Succeed(r) /\ answer' = NoReading /\ UNCHANGED given
  BY <1>3, <1>7
<1>8. QED
  BY <1>4, <1>5, <1>6, <1>7 DEF Transact, LoneHyp

LEMMA ReturnNewest ==
    ASSUME NEW r, LoneHyp(r), Return(r)
    PROVE  LoneGoal(r)'
<1>1. /\ pc[r] = "wait"
      /\ UNCHANGED <<sensor, now, buffer, given, asked, answer, outcome>>
  BY DEF Return, Bus!Leave, sensorVars, envVars, history
<1>2. CASE outcome[r] = "NOERR"
  <2>1. pc' = [pc EXCEPT ![r] = "receive"] /\ UNCHANGED i /\ pc'[r] = "receive"
    BY <1>2 DEF Return, Goto, LoneHyp, TypeOK
  <2>2. Told(r) /\ Waits(r)'
    BY <1>1, <1>2, <2>1 DEF Told, Waits
  <2>3. Knows(r)'
    BY <1>1, <2>1, <2>2 DEF LoneHyp, Knows, Newest
  <2>4. ASSUME NEW u \in Sensors, NEW m \in Registers(u)
        PROVE  given'[u][m] <= now' /\ Kept(u, m)'
    <3>1. given[u][m] <= now /\ Kept(u, m)
      BY DEF LoneHyp
    <3>2. \A q \in Readers : Holds(q, u, m) => Holds(q, u, m)'
      BY <1>1, <2>1 DEF LoneHyp, Holds, TypeOK
    <3>3. QED
      BY <1>1, <3>1, <3>2 DEF Kept, Newest
  <2>5. QED
    BY <2>2, <2>3, <2>4 DEF LoneGoal
<1>3. CASE outcome[r] # "NOERR"
  <2>1. pc'[r] = "idle"
    BY <1>3 DEF Return, Finish, Goto, LoneHyp, TypeOK
  <2>2. ~ Told(r) /\ ~ Told(r)' /\ Waits(r)'
    BY <1>1, <1>3, <2>1 DEF Told, Waits
  <2>3. QED
    BY <1>1, <2>2, QuietStep DEF LoneGoal, Knows
<1>4. QED
  BY <1>2, <1>3

\* What was told is stored; what was not told is in the buffer already.
LEMMA ReceiveNewest ==
    ASSUME NEW r, LoneHyp(r), Receive(r)
    PROVE  LoneGoal(r)'
<1>1. /\ pc[r] = "receive" /\ pc'[r] \in {"send", "stamp"}
      /\ UNCHANGED <<sensor, now, given, answer>> /\ r \in Readers /\ TypeOK
  BY DEF Receive, Goto, LoneHyp, TypeOK, envVars, history, busVars
<1>2. Told(r) /\ ~ Told(r)' /\ Waits(r)'
  BY <1>1 DEF Told, Waits
<1>3. ASSUME NEW u \in Sensors, NEW m \in Registers(u)
      PROVE  given'[u][m] <= now' /\ Kept(u, m)'
  <2>1. given[u][m] <= now /\ Kept(u, m)
    BY DEF LoneHyp
  <2>2. CASE u = sensor[r] /\ m = i[r] /\ answer # NoReading
    <3>1. u \in DOMAIN buffer /\ m \in DOMAIN buffer[u]
      BY <1>1 DEF TypeOK
    <3>2. buffer' = [buffer EXCEPT ![sensor[r]][i[r]] = answer]
      BY <2>2 DEF Receive
    <3>3. buffer'[u][m] = answer
      BY <2>2, <3>1, <3>2
    <3>4. answer = Newest(u, m)
      BY <1>2, <2>2 DEF LoneHyp, Knows
    <3>5. QED
      BY <1>1, <2>1, <3>3, <3>4 DEF Kept, Newest
  <2>3. CASE ~(u = sensor[r] /\ m = i[r] /\ answer # NoReading)
    <3>1. ~ \E q \in Readers : Holds(q, u, m) /\ answer # NoReading
      BY <2>3 DEF LoneHyp, Holds
    <3>2. buffer[u][m] = Newest(u, m)
      BY <2>1, <3>1 DEF Kept
    <3>3. buffer'[u][m] = buffer[u][m]
      <4>1. CASE answer = NoReading
        BY <4>1 DEF Receive
      <4>2. CASE answer # NoReading
        BY <1>1, <2>3, <4>2, ReceiveStores
      <4>3. QED
        BY <4>1, <4>2
    <3>4. QED
      BY <1>1, <2>1, <3>2, <3>3 DEF Kept, Newest
  <2>4. QED
    BY <2>2, <2>3
<1>4. QED
  BY <1>2, <1>3 DEF LoneGoal, Knows

LEMMA OtherNewest ==
    ASSUME NEW r, LoneHyp(r),
           Decide(r) \/ Stamp(r) \/ Show(r) \/ \E s \in Sensors : Begin(r, s)
    PROVE  LoneGoal(r)'
<1>1. /\ pc[r] \notin {"wait", "receive"} /\ pc'[r] \notin {"wait", "receive"}
      /\ UNCHANGED <<buffer, given, now>>
  BY DEF LoneHyp, Decide, Stamp, Show, Begin, Goto, Finish, TypeOK, envVars,
         sensorVars, history
<1>2. ~ Told(r) /\ ~ Told(r)' /\ Waits(r)'
  BY <1>1 DEF Told, Waits
<1>3. QED
  BY <1>1, <1>2, QuietStep DEF LoneGoal, Knows

LEMMA NewestInvInductive ==
    ASSUME TypeOK, NewestInv, [Next]_vars
    PROVE  NewestInv'
<1>1. regime' = regime
  BY DEF Next, ReaderStep, Begin, Decide, Send, Transact, Return, Receive, Stamp,
         Show, SetInterval, Tick, vars, envVars
<1> SUFFICES ASSUME regime = "alone"
             PROVE  /\ \A q \in Readers : Waits(q)' /\ Knows(q)'
                    /\ \A s \in Sensors : \A n \in Registers(s) :
                         given'[s][n] <= now' /\ Kept(s, n)'
  BY <1>1, OneReaderStep DEF NewestInv
<1>2. /\ OneReader /\ pc \in [Readers -> ReaderPc]
      /\ \A q \in Readers : Waits(q) /\ Knows(q)
      /\ \A s \in Sensors : \A n \in Registers(s) : given[s][n] <= now /\ Kept(s, n)
  BY DEF NewestInv, TypeOK
<1>3. ASSUME NEW r \in Readers, ReaderStep(r) \/ \E s \in Sensors : Begin(r, s)
      PROVE  /\ \A q \in Readers : Waits(q)' /\ Knows(q)'
             /\ \A s \in Sensors : \A n \in Registers(s) :
                  given'[s][n] <= now' /\ Kept(s, n)'
  <2>1. \A q \in Readers : q # r => pc[q] = "idle" /\ pc'[q] = "idle"
    <3>1. \A q \in Readers : q # r => pc[q] = "idle"
      BY <1>2, <1>3
      DEF OneReader, ReaderStep, Begin, Decide, Send, Transact, Return, Receive,
          Stamp, Show
    <3>2. \A q \in Readers : q # r => pc'[q] = pc[q]
      BY <1>2, <1>3
      DEF ReaderStep, Begin, Decide, Send, Transact, Return, Receive, Stamp, Show,
          Goto, Finish, readerVars
    <3>3. QED
      BY <3>1, <3>2
  <2>2. LoneHyp(r)
    BY <1>2, <2>1 DEF LoneHyp
  <2>3. LoneGoal(r)'
    BY <1>3, <2>2, SendNewest, TransactNewest, ReturnNewest, ReceiveNewest,
       OtherNewest DEF ReaderStep
  <2>4. \A q \in Readers : q # r => Waits(q)' /\ Knows(q)'
    BY <2>1 DEF Waits, Knows, Told
  <2>5. QED
    BY <2>3, <2>4 DEF LoneGoal
<1>4. CASE (\E s \in Sensors : SetInterval(s)) \/ Tick \/ UNCHANGED vars
  <2>1. /\ UNCHANGED <<pc, sensor, i, buffer, given, asked, answer, outcome>>
        /\ now' \in {now, now + 1}
    BY <1>4 DEF SetInterval, Tick, vars, readerVars, sensorVars, envVars, history,
                busVars
  <2>2. /\ now \in Nat /\ now <= now'
        /\ \A s \in Sensors : \A n \in Registers(s) :
             given[s][n] \in Nat /\ given[s][n] <= now'
    BY <1>2, <2>1, Ranges
  <2>3. ASSUME NEW q \in Readers
        PROVE  Waits(q)' /\ Knows(q)'
    <3>1. asked[q].at <= now => asked[q].at <= now' \/ asked[q] \notin Reading
      <4>1. asked[q] \in Reading => asked[q].at \in Nat
        BY TimeAssumption DEF Reading
      <4>2. QED
        BY <2>1, <2>2, <4>1
    <3>2. Waits(q)'
      BY <1>2, <2>1, <3>1 DEF Waits
    <3>3. QED
      BY <1>2, <2>1, <3>2 DEF Knows, Told, Newest
  <2>4. ASSUME NEW s \in Sensors, NEW n \in Registers(s)
        PROVE  Kept(s, n)'
    BY <1>2, <2>1 DEF Kept, Holds, Newest
  <2>5. QED
    BY <2>1, <2>2, <2>3, <2>4
<1>5. QED
  BY <1>3, <1>4 DEF Next

\* While readers do not overlap, the buffer has the newest value each slave gave,
\* whatever fails or is refused (modbusdevice_syscalls.c:53-96;
\* master.impl.h:205-215).
THEOREM NewestValuesAreKept == Spec => []NewestIsKept
<1>1. Init => NewestInv
  <2> SUFFICES ASSUME Init
               PROVE  NewestInv
    OBVIOUS
  <2>1. \A s \in Sensors : \A n \in Registers(s) :
          given[s][n] = 0 /\ buffer[s][n] = NoReading
    BY DEF Init
  <2>2. now = 1 /\ \A r \in Readers : pc[r] = "idle"
    BY DEF Init
  <2>3. QED
    BY <2>1, <2>2 DEF NewestInv, OneReader, Waits, Knows, Told, Kept, Newest
<1>2. TypeOK /\ NewestInv /\ [Next]_vars => NewestInv'
  BY NewestInvInductive
<1>3. NewestInv => NewestIsKept
  BY DEF NewestInv, NewestIsKept, Kept
<1>4. QED
  BY <1>1, <1>2, <1>3, TypeCorrect, PTL DEF Spec
=============================================================================
