-------------------------- MODULE Lifecycle_proofs --------------------------
(***************************************************************************)
(* Proofs about Lifecycle, for any users, pins and number of loads,        *)
(* samples and writes.                                                     *)
(***************************************************************************)
EXTENDS Lifecycle, SequenceTheorems, FiniteSetTheorems, TLAPS

-----------------------------------------------------------------------------
(* What scripts do *)

Gets(call) == call.op \in {"get", "output"}
Arms(call) == call.op \in {"arm", "request"}
Stops(call) == call.op \in {"stop", "del"}

UndoCalls ==
    [op : {"put"}, of : SUBSET Resources, undo : {<<>>}] \cup
    [op : {"stop", "del"}, of : SUBSET Sources, undo : {<<>>}]

Calls ==
    [op : {"get", "output"}, of : SUBSET Resources, undo : Seq(UndoCalls)] \cup
    [op : {"arm", "request"}, of : SUBSET Sources, undo : Seq(UndoCalls)] \cup
    UndoCalls

GotBy(script) == UNION {script[n].of : n \in {m \in DOMAIN script : Gets(script[m])}}
PutBy(script) == UNION {script[n].of : n \in {m \in DOMAIN script : script[m].op = "put"}}
StoppedBy(script) == UNION {script[n].of : n \in {m \in DOMAIN script : Stops(script[m])}}

\* What a driver is called back by, and what its callbacks need.
Own(d) ==
    CASE d = "irq" -> {"irq"} [] d \in {"timer", "button", "dt"} -> {"timer"}
      [] d = "mmio" -> Users [] d = "controller" -> {"port", "hrtimer", "tasklet", "sensor"}
Needs(d) ==
    CASE d \in {"irq", "timer"} -> {} [] d \in {"button", "dt"} -> {"button", "led"}
      [] d = "mmio" -> {"gpio_base"} [] d = "controller" -> {"port"}

\* The drivers whose exit waits for every callback, and those that put what a
\* callback needs after they have stopped it.
Waiting == {"irq", "dt", "mmio"}
StopsFirst == {"irq", "timer", "mmio"}

\* Init arms the driver's own sources, after it has got everything; only the
\* controller does anything else after that.
ArmsLast(d, script) ==
    \A n \in DOMAIN script : Arms(script[n]) =>
      /\ script[n].of \subseteq Own(d)
      /\ d # "controller" => n = Len(script)
      /\ \A m \in n + 1 .. Len(script) : Gets(script[m]) => script[m].of = {}

\* What is held once a script has been done, whatever a sensor still sends.
Kept(script) == {"request"} \cup PutBy(script)

\* A call that fails puts what was got before it.
FailsClean(script) ==
    \A n \in DOMAIN script : script[n].op # "arm" =>
      \A m \in 1 .. n - 1 : Gets(script[m]) => script[m].of \subseteq Kept(script[n].undo)

ExitsInOrder(d, script) ==
    \A n \in DOMAIN script :
      /\ d \in Waiting => script[n].op # "del"
      /\ d \in StopsFirst /\ script[n].op = "put" =>
           \A m \in n + 1 .. Len(script) : ~Stops(script[m])

-----------------------------------------------------------------------------
(* The inductive invariant *)

Typed ==
    /\ TypeOK
    /\ todo \in Seq(Calls)
    /\ phase \in {"failing", "exiting"} => todo \in Seq(UndoCalls)
    /\ "timer" \in running => Len(samples) < MaxSamples
    /\ wrote \in [DOMAIN wrote -> 0 .. 1] /\ DOMAIN wrote \subseteq AllPins

\* A user runs while it is in lll_write; it works on a line it has checked, and on
\* a copy that is up to date if no other user runs.
WriterInv ==
    /\ \A u \in Users : u \in running <=> at[u] # "idle"
    /\ \A u \in Users : at[u] \in {"parsed", "read"} =>
         line[u].pin \in AllPins /\ line[u].value \in 0 .. 1
    /\ ~overlap =>
         /\ \A u, v \in Users \cap running : u = v
         /\ \A u \in Users : at[u] = "read" =>
              val[u] = outputs \cap SameRegister(line[u].pin)

\* Only the driver's own sources are armed, and but for the controller's none is
\* while init has something left to do.
SourceInv ==
    /\ armed \cup running \subseteq Own(driver)
    /\ phase = "loading" => ArmsLast(driver, todo)
    /\ phase \in {"loading", "failing"} /\ driver # "controller" =>
         armed \cup running = {} \/ (phase = "loading" /\ todo = <<>>)

\* What is armed or running when the driver exits is what exit still stops.
StopInv ==
    /\ phase = "exiting" => ExitsInOrder(driver, todo)
    /\ phase \in {"exiting", "out"} /\ driver # "controller" =>
         (driver \in Waiting \/ ~overlap => armed \cup running \subseteq StoppedBy(todo))

\* Sources are armed when what they need is there.
NeedInv ==
    /\ phase = "loading" => Needs(driver) \subseteq held \cup GotBy(todo)
    /\ phase = "live" => Needs(driver) \subseteq held
    /\ phase \in {"loading", "live"} \/ driver \in StopsFirst =>
         armed \cup running = {} \/ Needs(driver) \subseteq held

\* Every error path, and exit, puts what init has got by then.
HeldInv ==
    driver # "button" =>
      /\ phase = "out" => held \subseteq {"request"}
      /\ phase \in {"failing", "exiting"} => held \subseteq Kept(todo)
      /\ phase \in {"loading", "live"} => held \cup GotBy(todo) \subseteq Kept(ExitScript(driver))
      /\ phase = "loading" =>
           /\ FailsClean(todo)
           /\ \A n \in DOMAIN todo : todo[n].op # "arm" => held \subseteq Kept(todo[n].undo)

IInv == Typed /\ WriterInv /\ SourceInv /\ StopInv /\ NeedInv /\ HeldInv /\ PinsAreDriven

-----------------------------------------------------------------------------
(* Lemmas about scripts *)

LEMMA ControllerCalls ==
    /\ ControllerProbe =
         <<Get("port", <<>>), Arm({"hrtimer"}), Arm({"port"}),
           Check(<<Stop({"port"}), Put("port")>>), Arm({"sensor"})>>
    /\ ControllerRemove =
         <<Put("request"), Stop({"hrtimer"}), Stop({"tasklet"}), Stop({"port"}),
           Put("port"), Del({"sensor"})>>
<1>1. ASSUME NEW a, NEW b, NEW c, NEW d, NEW e
      PROVE  <<a>> \o <<b, c>> \o <<d, e>> = <<a, b, c, d, e>>
  <2> DEFINE S == {a, b, c, d, e}
             s == <<a>> \o <<b, c>>
             t == <<d, e>>
             u == <<a, b, c, d, e>>
  <2>1. /\ <<a>> \in Seq(S) /\ <<b, c>> \in Seq(S) /\ t \in Seq(S)
        /\ Len(t) = 2 /\ t[1] = d /\ t[2] = e
    OBVIOUS
  <2>2. s \in Seq(S) /\ Len(s) = 3 /\ s[1] = a /\ s[2] = b /\ s[3] = c
    BY <2>1, ConcatProperties
  <2>3. /\ u \in Seq(S) /\ Len(u) = 5
        /\ u[1] = a /\ u[2] = b /\ u[3] = c /\ u[4] = d /\ u[5] = e
    OBVIOUS
  <2> HIDE DEF S, s, t, u
  <2>4. /\ s \o t \in Seq(S) /\ Len(s \o t) = 5
        /\ \A n \in 1 .. 5 : (s \o t)[n] = IF n <= 3 THEN s[n] ELSE t[n - 3]
    <3>1. /\ s \o t \in Seq(S) /\ Len(s \o t) = Len(s) + Len(t)
          /\ \A n \in 1 .. Len(s) + Len(t) :
               (s \o t)[n] = IF n <= Len(s) THEN s[n] ELSE t[n - Len(s)]
      BY <2>1, <2>2, ConcatProperties, Zenon
    <3>2. Len(s) = 3 /\ Len(t) = 2 /\ Len(s) + Len(t) = 5
      BY <2>1, <2>2
    <3>3. QED
      BY <3>1, <3>2, Zenon
  <2>5. \A n \in 1 .. 5 : (s \o t)[n] = u[n]
    BY <2>1, <2>2, <2>3, <2>4
  <2>6. s \o t = u
    BY <2>3, <2>4, <2>5, SeqEqual
  <2>7. QED
    BY <2>6 DEF s, t, u
<1>2. ASSUME NEW a, NEW b, NEW c, NEW d, NEW e, NEW f
      PROVE  <<a, b, c>> \o <<d, e, f>> = <<a, b, c, d, e, f>>
  <2> DEFINE S == {a, b, c, d, e, f}
             s == <<a, b, c>> \o <<d, e, f>>
  <2>1. <<a, b, c>> \in Seq(S) /\ <<d, e, f>> \in Seq(S) /\ <<a, b, c, d, e, f>> \in Seq(S)
    OBVIOUS
  <2>2. /\ s \in Seq(S) /\ Len(s) = 6 /\ Len(<<a, b, c, d, e, f>>) = 6
        /\ \A n \in 1 .. 6 : s[n] = <<a, b, c, d, e, f>>[n]
    BY <2>1, ConcatProperties
  <2> HIDE DEF s
  <2>3. s = <<a, b, c, d, e, f>>
    BY <2>1, <2>2, SeqEqual
  <2>4. QED
    BY <2>3 DEF s
<1>3. QED
  BY <1>1, <1>2 DEF ControllerProbe, ControllerRemove, ModbusStart, ModbusDestroy

LEMMA TailOf ==
    ASSUME NEW S, NEW s \in Seq(S), s # <<>>
    PROVE  /\ Tail(s) \in Seq(S)
           /\ Head(s) \in S
           /\ Len(Tail(s)) = Len(s) - 1
           /\ \A n \in DOMAIN Tail(s) : Tail(s)[n] = s[n + 1] /\ n + 1 \in DOMAIN s
           /\ 1 \in DOMAIN s /\ Head(s) = s[1]
<1>1. QED
  BY HeadTailProperties

LEMMA StoppedByTail ==
    ASSUME NEW S, NEW s \in Seq(S), s # <<>>
    PROVE  StoppedBy(s) = StoppedBy(Tail(s)) \cup IF Stops(Head(s)) THEN Head(s).of ELSE {}
<1>1. \A n \in DOMAIN s : n = 1 \/ n - 1 \in DOMAIN Tail(s)
  BY HeadTailProperties
<1>2. QED
  BY <1>1, TailOf DEF StoppedBy

LEMMA GotByTail ==
    ASSUME NEW S, NEW s \in Seq(S), s # <<>>
    PROVE  GotBy(s) = GotBy(Tail(s)) \cup IF Gets(Head(s)) THEN Head(s).of ELSE {}
<1>1. \A n \in DOMAIN s : n = 1 \/ n - 1 \in DOMAIN Tail(s)
  BY HeadTailProperties
<1>2. QED
  BY <1>1, TailOf DEF GotBy

LEMMA PutByTail ==
    ASSUME NEW S, NEW s \in Seq(S), s # <<>>
    PROVE  PutBy(s) = PutBy(Tail(s)) \cup IF Head(s).op = "put" THEN Head(s).of ELSE {}
<1>1. \A n \in DOMAIN s : n = 1 \/ n - 1 \in DOMAIN Tail(s)
  BY HeadTailProperties
<1>2. QED
  BY <1>1, TailOf DEF PutBy

\* The calls of a script with an empty tail.
LEMMA EmptyScript ==
    StoppedBy(<<>>) = {} /\ GotBy(<<>>) = {} /\ PutBy(<<>>) = {}
BY DEF StoppedBy, GotBy, PutBy

LEMMA ScriptsAreTyped ==
    ASSUME NEW d \in Drivers
    PROVE  InitScript(d) \in Seq(Calls) /\ ExitScript(d) \in Seq(UndoCalls)
<1> USE UsersAssumption
    DEF Calls, UndoCalls, Get, Check, Output, Request, Arm, Put, Stop, Del, Resources, Sources,
        Callbacks
<1>1. IrqInit \in Seq(Calls) /\ IrqExit \in Seq(UndoCalls)
  BY DEF IrqInit, IrqExit
<1>2. TimerInit \in Seq(Calls) /\ TimerExit \in Seq(UndoCalls)
  BY DEF TimerInit, TimerExit
<1>3. ButtonInit \in Seq(Calls) /\ ButtonExit \in Seq(UndoCalls)
  BY DEF ButtonInit, ButtonExit
<1>4. DtProbe \in Seq(Calls) /\ DtRemove \in Seq(UndoCalls)
  BY DEF DtProbe, DtRemove
<1>5. MmioInit \in Seq(Calls) /\ MmioExit \in Seq(UndoCalls)
  BY DEF MmioInit, MmioExit
<1>6. ControllerProbe \in Seq(Calls) /\ ControllerRemove \in Seq(UndoCalls)
  BY ControllerCalls
<1>7. QED
  BY <1>1, <1>2, <1>3, <1>4, <1>5, <1>6, BoundsAssumption DEF InitScript, ExitScript

\* What of a script is left after its first call has the same order.
LEMMA TailInOrder ==
    ASSUME NEW d, NEW S, NEW s \in Seq(S), s # <<>>
    PROVE  /\ ArmsLast(d, s) => ArmsLast(d, Tail(s))
           /\ FailsClean(s) => FailsClean(Tail(s))
           /\ ExitsInOrder(d, s) => ExitsInOrder(d, Tail(s))
<1> DEFINE t == Tail(s)
<1>1. /\ Len(s) \in Nat /\ DOMAIN s = 1 .. Len(s)
      /\ DOMAIN t = 1 .. Len(t) /\ Len(t) = Len(s) - 1
      /\ \A n \in DOMAIN t : t[n] = s[n + 1] /\ n + 1 \in DOMAIN s
  BY TailOf, HeadTailProperties, LenProperties
<1> HIDE DEF t
<1>2. ASSUME NEW n \in DOMAIN t, NEW m \in n + 1 .. Len(t)
      PROVE  m + 1 \in (n + 1) + 1 .. Len(s) /\ m \in DOMAIN t
  BY <1>1
<1>3. ASSUME NEW n \in DOMAIN t, NEW m \in 1 .. n - 1
      PROVE  m + 1 \in 1 .. (n + 1) - 1 /\ m \in DOMAIN t
  BY <1>1
<1>4. ASSUME ArmsLast(d, s)
      PROVE  ArmsLast(d, t)
  <2> SUFFICES ASSUME NEW n \in DOMAIN t, Arms(t[n])
               PROVE  /\ t[n].of \subseteq Own(d)
                      /\ d # "controller" => n = Len(t)
                      /\ \A m \in n + 1 .. Len(t) : Gets(t[m]) => t[m].of = {}
    BY DEF ArmsLast
  <2>1. n + 1 \in DOMAIN s /\ t[n] = s[n + 1]
    BY <1>1
  <2>2. /\ s[n + 1].of \subseteq Own(d)
        /\ d # "controller" => n + 1 = Len(s)
        /\ \A m \in (n + 1) + 1 .. Len(s) : Gets(s[m]) => s[m].of = {}
    BY <1>4, <2>1 DEF ArmsLast
  <2>3. ASSUME NEW m \in n + 1 .. Len(t), Gets(t[m])
        PROVE  t[m].of = {}
    BY <1>1, <1>2, <2>2, <2>3
  <2>4. d # "controller" => n = Len(t)
    BY <1>1, <2>2
  <2>5. QED
    BY <2>1, <2>2, <2>3, <2>4
<1>5. ASSUME FailsClean(s)
      PROVE  FailsClean(t)
  BY <1>1, <1>3, <1>5 DEF FailsClean
<1>6. ASSUME ExitsInOrder(d, s)
      PROVE  ExitsInOrder(d, t)
  BY <1>1, <1>2, <1>6 DEF ExitsInOrder
<1>7. QED
  BY <1>4, <1>5, <1>6 DEF t

\* The init scripts are in order, and get what the callbacks need.
LEMMA InitInOrder ==
    ASSUME NEW d \in Drivers
    PROVE  /\ InitScript(d) # <<>>
           /\ ArmsLast(d, InitScript(d))
           /\ Needs(d) \subseteq GotBy(InitScript(d))
           /\ d # "button" =>
                /\ FailsClean(InitScript(d))
                /\ GotBy(InitScript(d)) \subseteq PutBy(ExitScript(d))
<1> USE DEF InitScript, ExitScript, ArmsLast, Own, Needs, FailsClean, GotBy, PutBy, Kept, Gets,
            Arms, Get, Check, Output, Request, Arm, Put, Stop, Del
<1>1. CASE d = "irq"
  BY <1>1 DEF IrqInit, IrqExit
<1>2. CASE d = "timer"
  BY <1>2 DEF TimerInit, TimerExit
<1>3. CASE d = "button"
  BY <1>3 DEF ButtonInit, ButtonExit
<1>4. CASE d = "dt"
  BY <1>4 DEF DtProbe, DtRemove
<1>5. CASE d = "mmio"
  <2> USE <1>5 DEF MmioInit, MmioExit
  <2>1. InitScript(d) # <<>> /\ ArmsLast(d, InitScript(d))
    OBVIOUS
  <2>2. Needs(d) \subseteq GotBy(InitScript(d))
    OBVIOUS
  <2>3. FailsClean(InitScript(d))
    OBVIOUS
  <2>4. GotBy(InitScript(d)) \subseteq PutBy(ExitScript(d))
    OBVIOUS
  <2>5. QED
    BY <2>1, <2>2, <2>3, <2>4
<1>6. CASE d = "controller"
  <2> USE <1>6, ControllerCalls
  <2>1. InitScript(d) # <<>> /\ ArmsLast(d, InitScript(d))
    OBVIOUS
  <2>2. Needs(d) \subseteq GotBy(InitScript(d))
    OBVIOUS
  <2>3. FailsClean(InitScript(d))
    <3> DEFINE undo == <<Stop({"port"}), Put("port")>>
               s == <<Get("port", <<>>), Arm({"hrtimer"}), Arm({"port"}), Check(undo),
                      Arm({"sensor"})>>
    <3>1. "port" \in PutBy(undo)
      OBVIOUS
    <3>2. /\ DOMAIN s = 1 .. 5 /\ s[1].of = {"port"} /\ s[4].undo = undo
          /\ s[2].op = "arm" /\ s[3].op = "arm" /\ s[5].op = "arm"
      <4> HIDE DEF undo
      <4>1. Len(s) = 5 /\ DOMAIN s = 1 .. 5
        OBVIOUS
      <4>2. s[1] = Get("port", <<>>) /\ s[4] = Check(undo)
        OBVIOUS
      <4>3. s[2] = Arm({"hrtimer"}) /\ s[3] = Arm({"port"}) /\ s[5] = Arm({"sensor"})
        OBVIOUS
      <4> HIDE DEF s
      <4>4. QED
        BY <4>1, <4>2, <4>3
    <3>3. InitScript(d) = s
      OBVIOUS
    <3> HIDE DEF undo, s, InitScript, PutBy
    <3>4. QED
      BY <3>1, <3>2, <3>3
  <2>4. GotBy(InitScript(d)) \subseteq PutBy(ExitScript(d))
    OBVIOUS
  <2>5. QED
    BY <2>1, <2>2, <2>3, <2>4
<1>7. QED
  BY <1>1, <1>2, <1>3, <1>4, <1>5, <1>6, BoundsAssumption

\* The exit scripts are in order, and stop what the driver armed.
LEMMA ExitInOrder ==
    ASSUME NEW d \in Drivers
    PROVE  /\ ExitsInOrder(d, ExitScript(d))
           /\ d # "controller" => Own(d) \subseteq StoppedBy(ExitScript(d))
<1> USE DEF ExitScript, Own, ExitsInOrder, StoppedBy, Stops, Waiting, StopsFirst, Put, Stop, Del
<1>1. CASE d = "irq"
  BY <1>1 DEF IrqExit
<1>2. CASE d = "timer"
  BY <1>2 DEF TimerExit
<1>3. CASE d = "button"
  BY <1>3 DEF ButtonExit
<1>4. CASE d = "dt"
  BY <1>4 DEF DtRemove
<1>5. CASE d = "mmio"
  BY <1>5 DEF MmioExit
<1>6. CASE d = "controller"
  BY <1>6, ControllerCalls
<1>7. QED
  BY <1>1, <1>2, <1>3, <1>4, <1>5, <1>6, BoundsAssumption

-----------------------------------------------------------------------------
(* Steps of init and exit, and steps of everybody else *)

Outside ==
    \/ \E c \in Sources : Fire(c)
    \/ Callback
    \/ \E u \in Users : CopyLine(u) \/ WriteStep(u)

LEMMA StepsAre ==
    ASSUME Next
    PROVE  Load \/ Unload \/ Proceed \/ Fail \/ Undo \/ ScriptEnds \/ Outside
BY DEF Next, ScriptStep, Outside

\* A callback arms at most sources of its own driver, and nothing gets going from
\* nothing.
LEMMA OutsideMoves ==
    ASSUME IInv, Outside
    PROVE  /\ UNCHANGED scriptVars
           /\ held \subseteq held' /\ held' \subseteq held \cup {"request"}
           /\ armed' \cup running' \subseteq Own(driver)
           /\ driver # "controller" => armed' \cup running' \subseteq armed \cup running
           /\ armed \cup running = {} => armed' \cup running' = {}
           /\ overlap => overlap'
<1> USE DEF scriptVars, buttonVars, gpioVars, userVars
<1>1. armed \cup running \subseteq Own(driver)
  BY DEF IInv, SourceInv
<1>2. "timer" \in running => driver # "controller"
  BY <1>1, UsersAssumption DEF Own, Callbacks
<1>3. ASSUME NEW c \in {"port", "hrtimer", "tasklet", "sensor"}, c \in running
      PROVE  driver = "controller"
  BY <1>1, <1>3, UsersAssumption, BoundsAssumption DEF Own, Callbacks, IInv, Typed, TypeOK
<1>4. ASSUME NEW c \in Sources, Fire(c)
      PROVE  /\ UNCHANGED scriptVars /\ held' = held /\ overlap' = overlap
             /\ c \in armed /\ armed' \cup running' \subseteq armed \cup running
  BY <1>4 DEF Fire
<1>5. CASE IrqHandler \/ TimerCallback \/ ButtonCallback \/ TaskletRuns
  <2>1. /\ UNCHANGED scriptVars /\ held' = held /\ overlap' = overlap
        /\ running # {} /\ armed' \cup running' \subseteq armed \cup running
    BY <1>5 DEF IrqHandler, TimerCallback, ButtonCallback, TaskletRuns, Returns
  <2>2. QED
    BY <1>1, <2>1
<1>6. CASE PortReceives \/ HrtimerExpires \/ SensorSends
  <2>1. driver = "controller" /\ running # {}
    BY <1>3, <1>6 DEF PortReceives, HrtimerExpires, SensorSends, Returns
  <2>2. /\ UNCHANGED scriptVars /\ overlap' = overlap
        /\ held \subseteq held' /\ held' \subseteq held \cup {"request"}
        /\ armed' \cup running' \subseteq armed \cup running \cup {"hrtimer", "tasklet"}
    BY <1>6 DEF PortReceives, HrtimerExpires, SensorSends, Returns
  <2>3. {"hrtimer", "tasklet"} \subseteq Own(driver)
    BY <2>1 DEF Own
  <2>4. QED
    BY <1>1, <2>1, <2>2, <2>3
<1>7. ASSUME NEW u \in Users, CopyLine(u)
      PROVE  /\ UNCHANGED scriptVars /\ held' = held /\ (overlap => overlap')
             /\ u \in armed /\ armed' \cup running' \subseteq armed \cup running
  BY <1>7 DEF CopyLine
<1>8. ASSUME NEW u \in Users, WriteStep(u)
      PROVE  /\ UNCHANGED scriptVars /\ held' = held /\ overlap' = overlap
             /\ armed' \cup running' \subseteq armed \cup running
  BY <1>8 DEF WriteStep, ParseLine, ReadSelect, WriteSelect, Returns, sourceVars
<1>9. QED
  BY <1>1, <1>4, <1>5, <1>6, <1>7, <1>8 DEF Outside, Callback

\* The call that is next, and what is left after it.
LEMMA NextCall ==
    ASSUME IInv, todo # <<>>
    PROVE  /\ Head(todo) \in Calls /\ Tail(todo) \in Seq(Calls)
           /\ phase = "loading" => 1 \in DOMAIN todo /\ todo[1] = Head(todo)
           /\ phase \in {"failing", "exiting"} =>
                Head(todo) \in UndoCalls /\ Tail(todo) \in Seq(UndoCalls)
BY TailOf DEF IInv, Typed

LEMMA SourceStep ==
    ASSUME IInv, Next
    PROVE  SourceInv'
<1> USE DEF IInv, SourceInv, scriptVars, sourceVars
<1>1. CASE Load
  BY <1>1, InitInOrder DEF Load, Typed, TypeOK
<1>2. CASE Unload
  BY <1>2 DEF Unload
<1>3. CASE Proceed
  <2>1. todo # <<>> /\ todo \in Seq(Calls) /\ phase = "loading" /\ driver' = driver
    BY <1>3 DEF Proceed, Typed
  <2>2. ArmsLast(driver', todo')
    BY <1>3, <2>1, TailInOrder DEF Proceed
  <2>3. Arms(Head(todo)) => Head(todo).of \subseteq Own(driver)
                              /\ (driver # "controller" => Len(todo) = 1)
    <3>1. 1 \in DOMAIN todo /\ todo[1] = Head(todo)
      BY <2>1, NextCall
    <3>2. QED
      BY <2>1, <3>1 DEF ArmsLast
  <2>4. Len(todo) = 1 => todo' = <<>>
    BY <1>3, <2>1 DEF Proceed
  <2>5. /\ running' = running
        /\ armed' = IF Arms(Head(todo)) THEN armed \cup Head(todo).of ELSE armed
        /\ phase' = "loading"
    BY <1>3 DEF Proceed, Arms
  <2>6. QED
    BY <2>1, <2>2, <2>3, <2>4, <2>5
<1>4. CASE Fail
  BY <1>4 DEF Fail
<1>5. CASE Undo
  <2>1. /\ phase' = phase /\ driver' = driver /\ running' = running
        /\ armed' \subseteq armed /\ phase \in {"failing", "exiting"}
    BY <1>5 DEF Undo
  <2>2. QED
    BY <2>1
<1>6. CASE ScriptEnds
  BY <1>6 DEF ScriptEnds
<1>7. CASE Outside
  BY <1>7, OutsideMoves
<1>8. QED
  BY <1>1, <1>2, <1>3, <1>4, <1>5, <1>6, <1>7, StepsAre

LEMMA StopStep ==
    ASSUME IInv, Next
    PROVE  StopInv'
<1> USE DEF IInv, StopInv, scriptVars, sourceVars
<1>1. CASE Load
  BY <1>1 DEF Load
<1>2. CASE Unload
  <2>1. /\ phase' = "exiting" /\ todo' = ExitScript(driver) /\ driver' = driver
        /\ driver \in Drivers /\ armed' = armed /\ running' = running
    BY <1>2 DEF Unload, Typed, TypeOK
  <2>2. armed \cup running \subseteq Own(driver)
    BY DEF SourceInv
  <2>3. QED
    BY <2>1, <2>2, ExitInOrder
<1>3. CASE Proceed
  BY <1>3 DEF Proceed
<1>4. CASE Fail
  BY <1>4 DEF Fail
<1>5. CASE Undo
  <2>1. /\ phase \in {"failing", "exiting"} /\ todo # <<>> /\ todo' = Tail(todo)
        /\ phase' = phase /\ driver' = driver /\ running' = running
        /\ todo \in Seq(Calls) /\ Head(todo) \in UndoCalls
    BY <1>5, NextCall DEF Undo, Typed
  <2>2. phase = "exiting" => ExitsInOrder(driver', todo')
    BY <2>1, TailInOrder
  <2>3. StoppedBy(todo) = StoppedBy(todo')
                            \cup IF Stops(Head(todo)) THEN Head(todo).of ELSE {}
    BY <2>1, StoppedByTail
  <2>4. ASSUME phase = "exiting", driver # "controller", driver \in Waiting \/ ~overlap'
        PROVE  armed' \cup running' \subseteq StoppedBy(todo')
    <3>1. /\ armed \cup running \subseteq StoppedBy(todo)
          /\ driver \in Waiting => Head(todo).op # "del"
      <4>1. 1 \in DOMAIN todo /\ todo[1] = Head(todo)
        BY <2>1, TailOf
      <4>2. QED
        BY <1>5, <2>4, <4>1 DEF Undo, ExitsInOrder
    <3>2. CASE Head(todo).op = "put"
      BY <1>5, <2>1, <2>3, <3>1, <3>2 DEF Undo, Stops
    <3>3. CASE Stops(Head(todo))
      <4>1. armed' = armed \ Head(todo).of
        BY <1>5, <3>3 DEF Undo, Stops
      <4>2. Head(todo).of \cap running = {}
        BY <1>5, <2>4, <3>1, <3>3 DEF Undo, Stops
      <4>3. QED
        BY <2>1, <2>3, <3>1, <4>1, <4>2
    <3>4. QED
      BY <2>1, <3>2, <3>3 DEF UndoCalls, Stops
  <2>5. QED
    BY <2>1, <2>2, <2>4
<1>6. CASE ScriptEnds
  <2>1. /\ phase \in {"loading", "failing", "exiting"} /\ todo = <<>> /\ todo' = todo
        /\ phase' = IF phase = "loading" THEN "live" ELSE "out"
        /\ driver' = driver /\ armed' = armed /\ running' = running /\ overlap' = overlap
    BY <1>6 DEF ScriptEnds
  <2>2. phase = "failing" /\ driver # "controller" => armed \cup running = {}
    BY DEF SourceInv
  <2>3. QED
    BY <2>1, <2>2
<1>7. CASE Outside
  BY <1>7, OutsideMoves
<1>8. QED
  BY <1>1, <1>2, <1>3, <1>4, <1>5, <1>6, <1>7, StepsAre

LEMMA NeedStep ==
    ASSUME IInv, Next
    PROVE  NeedInv'
<1> USE DEF IInv, NeedInv, scriptVars, sourceVars
<1>1. CASE Load
  BY <1>1, InitInOrder DEF Load, Typed, TypeOK
<1>2. CASE Unload
  BY <1>2 DEF Unload
<1>3. CASE Proceed
  <2>1. /\ todo # <<>> /\ todo \in Seq(Calls) /\ todo' = Tail(todo)
        /\ phase = "loading" /\ phase' = "loading" /\ driver' = driver /\ running' = running
        /\ held' = IF Gets(Head(todo)) THEN held \cup Head(todo).of ELSE held
        /\ armed' = IF Arms(Head(todo)) THEN armed \cup Head(todo).of ELSE armed
        /\ Head(todo) \in Calls
    BY <1>3, NextCall DEF Proceed, Typed, Gets, Arms
  <2>2. GotBy(todo) = GotBy(Tail(todo)) \cup IF Gets(Head(todo)) THEN Head(todo).of ELSE {}
    BY <2>1, GotByTail
  <2>3. Needs(driver) \subseteq held' \cup GotBy(todo')
    BY <2>1, <2>2
  <2>4. CASE Arms(Head(todo))
    <3>1. GotBy(todo') = {}
      <4>1. 1 \in DOMAIN todo /\ todo[1] = Head(todo) /\ Len(todo) \in Nat
        BY <2>1, TailOf
      <4>2. \A m \in 2 .. Len(todo) : Gets(todo[m]) => todo[m].of = {}
        BY <2>1, <2>4, <4>1 DEF SourceInv, ArmsLast
      <4>3. \A n \in DOMAIN Tail(todo) : Tail(todo)[n] = todo[n + 1] /\ n + 1 \in 2 .. Len(todo)
        BY <2>1, HeadTailProperties
      <4>4. QED
        BY <2>1, <4>2, <4>3 DEF GotBy
    <3>2. QED
      BY <2>1, <2>3, <3>1
  <2>5. CASE ~Arms(Head(todo))
    BY <2>1, <2>3, <2>5
  <2>6. QED
    BY <2>4, <2>5
<1>4. CASE Fail
  <2>1. phase' = "failing" /\ driver' = driver /\ armed' = armed /\ running' = running
        /\ todo # <<>> /\ phase = "loading"
    BY <1>4 DEF Fail
  <2>2. driver \in StopsFirst => armed \cup running = {}
    BY <2>1 DEF SourceInv, StopsFirst
  <2>3. QED
    BY <2>1, <2>2
<1>5. CASE Undo
  <2>1. /\ phase \in {"failing", "exiting"} /\ todo # <<>> /\ todo \in Seq(Calls)
        /\ phase' = phase /\ driver' = driver /\ running' = running /\ armed' \subseteq armed
        /\ held' = IF Head(todo).op = "put" THEN held \ Head(todo).of ELSE held
    BY <1>5 DEF Undo, Typed
  <2>2. CASE driver \in {"irq", "timer"}
    BY <2>1, <2>2 DEF Needs
  <2>3. CASE driver = "mmio" /\ Head(todo).op = "put"
    <3>1. phase = "failing" => armed \cup running = {}
      BY <2>3 DEF SourceInv
    <3>2. phase = "exiting" => armed \cup running \subseteq StoppedBy(todo)
      BY <2>3 DEF StopInv, Waiting
    <3>3. phase = "exiting" => StoppedBy(todo) = {}
      <4>1. 1 \in DOMAIN todo /\ todo[1] = Head(todo) /\ DOMAIN todo = 1 .. Len(todo)
            /\ Len(todo) \in Nat
        BY <2>1, TailOf, LenProperties
      <4>2. phase = "exiting" => \A m \in 2 .. Len(todo) : ~Stops(todo[m])
        BY <2>3, <4>1 DEF StopInv, ExitsInOrder, StopsFirst
      <4>3. ~Stops(todo[1])
        BY <2>3, <4>1 DEF Stops
      <4>4. \A m \in DOMAIN todo : m = 1 \/ m \in 2 .. Len(todo)
        BY <4>1
      <4>5. QED
        BY <4>2, <4>3, <4>4 DEF StoppedBy
    <3>4. QED
      BY <2>1, <3>1, <3>2, <3>3
  <2>4. CASE driver = "mmio" /\ Head(todo).op # "put"
    BY <2>1, <2>4
  <2>5. CASE driver \notin StopsFirst
    BY <2>1, <2>5
  <2>6. QED
    BY <2>2, <2>3, <2>4, <2>5 DEF StopsFirst
<1>6. CASE ScriptEnds
  <2>1. /\ phase' = IF phase = "loading" THEN "live" ELSE "out"
        /\ todo = <<>> /\ driver' = driver /\ armed' = armed /\ running' = running
        /\ held' = held
    BY <1>6 DEF ScriptEnds
  <2>2. QED
    BY <2>1, EmptyScript
<1>7. CASE Outside
  BY <1>7, OutsideMoves
<1>8. QED
  BY <1>1, <1>2, <1>3, <1>4, <1>5, <1>6, <1>7, StepsAre

LEMMA HeldStep ==
    ASSUME IInv, Next
    PROVE  HeldInv'
<1> SUFFICES ASSUME driver' # "button"
             PROVE  HeldInv'
  BY DEF HeldInv
<1> USE DEF IInv, scriptVars, sourceVars
<1>1. CASE Load
  <2>1. /\ driver \in Drivers /\ driver' = driver /\ held' = held /\ held \subseteq {"request"}
        /\ phase' = "loading" /\ todo' = InitScript(driver)
    BY <1>1 DEF Load, HeldInv, Typed, TypeOK
  <2>2. FailsClean(todo') /\ GotBy(todo') \subseteq PutBy(ExitScript(driver))
    BY <2>1, InitInOrder
  <2>3. QED
    BY <2>1, <2>2 DEF HeldInv, Kept
<1>2. CASE Unload
  <2>1. /\ driver' = driver /\ held' = held /\ phase = "live" /\ phase' = "exiting"
        /\ todo' = ExitScript(driver)
    BY <1>2 DEF Unload
  <2>2. QED
    BY <2>1 DEF HeldInv
<1>3. CASE Proceed
  <2>1. /\ todo # <<>> /\ todo \in Seq(Calls) /\ todo' = Tail(todo)
        /\ phase = "loading" /\ phase' = "loading" /\ driver' = driver
        /\ held' = IF Gets(Head(todo)) THEN held \cup Head(todo).of ELSE held
    BY <1>3 DEF Proceed, Typed, Gets
  <2>2. held \cup GotBy(todo) = held' \cup GotBy(todo')
    BY <2>1, GotByTail
  <2>3. FailsClean(todo')
    BY <2>1, TailInOrder DEF HeldInv
  <2>4. ASSUME NEW n \in DOMAIN todo', todo'[n].op # "arm"
        PROVE  held' \subseteq Kept(todo'[n].undo)
    <3>1. /\ 1 \in DOMAIN todo /\ todo[1] = Head(todo)
          /\ todo'[n] = todo[n + 1] /\ n + 1 \in DOMAIN todo
      BY <2>1, TailOf
    <3>2. 1 \in 1 .. (n + 1) - 1
      BY <2>1, HeadTailProperties
    <3>3. held \subseteq Kept(todo'[n].undo)
      BY <2>1, <2>4, <3>1 DEF HeldInv
    <3>4. Gets(Head(todo)) => Head(todo).of \subseteq Kept(todo'[n].undo)
      BY <2>1, <2>4, <3>1, <3>2 DEF HeldInv, FailsClean
    <3>5. QED
      BY <2>1, <3>3, <3>4
  <2>5. QED
    BY <2>1, <2>2, <2>3, <2>4 DEF HeldInv
<1>4. CASE Fail
  <2>1. /\ todo # <<>> /\ todo \in Seq(Calls) /\ phase = "loading" /\ phase' = "failing"
        /\ Head(todo).op # "arm" /\ todo' = Head(todo).undo
        /\ driver' = driver /\ held' = held
    BY <1>4 DEF Fail, Typed
  <2>2. 1 \in DOMAIN todo /\ todo[1] = Head(todo)
    BY <2>1, TailOf
  <2>3. held \subseteq Kept(todo')
    BY <2>1, <2>2 DEF HeldInv
  <2>4. QED
    BY <2>1, <2>3 DEF HeldInv
<1>5. CASE Undo
  <2>1. /\ phase \in {"failing", "exiting"} /\ todo # <<>> /\ todo \in Seq(Calls)
        /\ phase' = phase /\ driver' = driver /\ todo' = Tail(todo)
        /\ held' = IF Head(todo).op = "put" THEN held \ Head(todo).of ELSE held
    BY <1>5 DEF Undo, Typed
  <2>2. PutBy(todo) = PutBy(todo') \cup IF Head(todo).op = "put" THEN Head(todo).of ELSE {}
    BY <2>1, PutByTail
  <2>3. held' \subseteq Kept(todo')
    BY <2>1, <2>2 DEF HeldInv, Kept
  <2>4. QED
    BY <2>1, <2>3 DEF HeldInv
<1>6. CASE ScriptEnds
  <2>1. /\ phase \in {"loading", "failing", "exiting"}
        /\ phase' = IF phase = "loading" THEN "live" ELSE "out"
        /\ todo = <<>> /\ todo' = todo /\ driver' = driver /\ held' = held
    BY <1>6 DEF ScriptEnds
  <2>2. Kept(todo) = {"request"}
    BY <2>1, EmptyScript DEF Kept
  <2>3. QED
    BY <2>1, <2>2 DEF HeldInv
<1>7. CASE Outside
  <2>1. UNCHANGED scriptVars /\ held' \subseteq held \cup {"request"}
    BY <1>7, OutsideMoves
  <2>2. \A script : "request" \in Kept(script)
    BY DEF Kept
  <2>3. QED
    BY <2>1, <2>2 DEF HeldInv
<1>8. QED
  BY <1>1, <1>2, <1>3, <1>4, <1>5, <1>6, <1>7, StepsAre

-----------------------------------------------------------------------------
(* Types *)

LEMMA ScriptTyped ==
    ASSUME IInv, Next
    PROVE  /\ driver' \in Drivers
           /\ phase' \in {"out", "loading", "failing", "live", "exiting"}
           /\ phase' \in {"out", "live"} => todo' = <<>>
           /\ loads' \in 0 .. MaxLoads
           /\ todo' \in Seq(Calls)
           /\ phase' \in {"failing", "exiting"} => todo' \in Seq(UndoCalls)
<1> USE BoundsAssumption DEF IInv, Typed, TypeOK
<1>0. \A s \in Seq(UndoCalls) : s \in Seq(Calls)
  BY SeqMonotonic DEF Calls
<1>1. CASE Load
  BY <1>1, ScriptsAreTyped DEF Load
<1>2. CASE Unload
  BY <1>0, <1>2, ScriptsAreTyped DEF Unload
<1>3. CASE Proceed
  BY <1>3, NextCall DEF Proceed
<1>4. CASE Fail
  <2>1. Head(todo).undo \in Seq(UndoCalls)
    <3>1. Head(todo) \in Calls
      BY <1>4, NextCall DEF Fail
    <3>2. ASSUME NEW call \in UndoCalls
          PROVE  call.undo \in Seq(UndoCalls)
      <4>1. call.undo = <<>>
        BY DEF UndoCalls
      <4>2. QED
        BY <4>1, EmptySeq
    <3>3. QED
      BY <3>1, <3>2 DEF Calls
  <2>2. QED
    BY <1>0, <1>4, <2>1 DEF Fail
<1>5. CASE Undo
  BY <1>5, NextCall DEF Undo
<1>6. CASE ScriptEnds
  BY <1>6, EmptySeq DEF ScriptEnds
<1>7. CASE Outside
  BY <1>7, OutsideMoves DEF scriptVars
<1>8. QED
  BY <1>1, <1>2, <1>3, <1>4, <1>5, <1>6, <1>7, StepsAre

LEMMA SourcesTyped ==
    ASSUME IInv, Next
    PROVE  /\ held' \subseteq Resources
           /\ armed' \subseteq Sources /\ running' \subseteq Sources
           /\ overlap' \in BOOLEAN
<1> USE DEF IInv, Typed, TypeOK, sourceVars
<1>1. CASE Load \/ Unload \/ Fail \/ ScriptEnds
  BY <1>1 DEF Load, Unload, Fail, ScriptEnds
<1>2. CASE Proceed
  <2>1. Head(todo) \in Calls
    BY <1>2, NextCall DEF Proceed
  <2>2. Gets(Head(todo)) => Head(todo).of \subseteq Resources
    BY <2>1 DEF Calls, UndoCalls, Gets
  <2>3. Arms(Head(todo)) => Head(todo).of \subseteq Sources
    BY <2>1 DEF Calls, UndoCalls, Arms
  <2>4. QED
    BY <1>2, <2>2, <2>3 DEF Proceed, Gets, Arms
<1>3. CASE Undo
  BY <1>3 DEF Undo
<1>4. ASSUME NEW c \in Sources, Fire(c)
      PROVE  /\ held' \subseteq Resources /\ overlap' \in BOOLEAN
             /\ armed' \subseteq Sources /\ running' \subseteq Sources
  BY <1>4 DEF Fire
<1>5. CASE Callback
  BY <1>5
  DEF Callback, IrqHandler, TimerCallback, ButtonCallback, PortReceives, HrtimerExpires,
      TaskletRuns, SensorSends, Returns, Sources, Callbacks, Resources
<1>6. ASSUME NEW u \in Users, CopyLine(u) \/ WriteStep(u)
      PROVE  /\ held' \subseteq Resources /\ overlap' \in BOOLEAN
             /\ armed' \subseteq Sources /\ running' \subseteq Sources
  BY <1>6
  DEF CopyLine, WriteStep, ParseLine, ReadSelect, WriteSelect, Returns, Sources
<1>7. QED
  BY <1>1, <1>2, <1>3, <1>4, <1>5, <1>6, StepsAre DEF Outside

LEMMA ButtonTyped ==
    ASSUME IInv, Next
    PROVE  /\ debounce' \in [1 .. 3 -> {PRESSED, RELEASED}]
           /\ last' \in {PRESSED, RELEASED} /\ led' \in 0 .. 1
           /\ samples' \in Seq({PRESSED, RELEASED})
           /\ Len(samples') <= MaxSamples /\ since' \in 0 .. Len(samples')
           /\ "timer" \in running' => Len(samples') < MaxSamples
<1> USE BoundsAssumption DEF IInv, Typed, TypeOK, buttonVars, sourceVars
<1>1. CASE Load
  <2>1. running' = {} /\ led' = led
    BY <1>1 DEF Load
  <2>2. CASE UNCHANGED <<debounce, last, samples, since>>
    BY <2>1, <2>2
  <2>3. CASE /\ debounce' = [n \in 1 .. 3 |-> RELEASED] /\ last' = PRESSED
             /\ samples' = <<>> /\ since' = 0
    BY <2>1, <2>3, EmptySeq
  <2>4. QED
    BY <1>1, <2>2, <2>3 DEF Load
<1>2. CASE Unload \/ Fail \/ Undo \/ ScriptEnds
  BY <1>2 DEF Unload, Fail, Undo, ScriptEnds
<1>3. CASE Proceed
  <2>1. /\ (led' = 0 /\ since' = Len(samples)) \/ UNCHANGED <<led, since>>
        /\ UNCHANGED <<debounce, last, samples, running>>
    BY <1>3 DEF Proceed
  <2>2. Len(samples) \in Nat
    BY LenProperties
  <2>3. QED
    BY <2>1, <2>2
<1>4. ASSUME NEW c \in Sources, Fire(c)
      PROVE  /\ UNCHANGED buttonVars
             /\ "timer" \in running' => Len(samples') < MaxSamples
  BY <1>4 DEF Fire
<1>5. CASE ButtonCallback
  <2>1. PICK now \in {PRESSED, RELEASED} :
          /\ debounce' = <<now, debounce[1], debounce[2]>>
          /\ samples' = Append(samples, now)
          /\ \/ last' = now /\ led' \in {led, 1 - led}
             \/ UNCHANGED <<last, led>>
    BY <1>5 DEF ButtonCallback
  <2>2. /\ samples' \in Seq({PRESSED, RELEASED}) /\ Len(samples') = Len(samples) + 1
        /\ Len(samples) \in Nat
    BY <2>1, AppendProperties, LenProperties
  <2>3. /\ "timer" \in running /\ "timer" \notin running' /\ since' = since
    BY <1>5 DEF ButtonCallback, Returns
  <2>4. debounce' \in [1 .. 3 -> {PRESSED, RELEASED}]
    <3>1. debounce[1] \in {PRESSED, RELEASED} /\ debounce[2] \in {PRESSED, RELEASED}
      OBVIOUS
    <3>2. QED
      BY <2>1, <3>1
  <2>5. last' \in {PRESSED, RELEASED} /\ led' \in 0 .. 1
    BY <2>1
  <2>6. QED
    BY <2>2, <2>3, <2>4, <2>5
<1>6. CASE Callback /\ ~ButtonCallback
  BY <1>6
  DEF Callback, IrqHandler, TimerCallback, PortReceives, HrtimerExpires, TaskletRuns,
      SensorSends, Returns
<1>7. ASSUME NEW u \in Users, CopyLine(u) \/ WriteStep(u)
      PROVE  /\ UNCHANGED buttonVars
             /\ "timer" \in running' => "timer" \in running
  BY <1>7, UsersAssumption
  DEF CopyLine, WriteStep, ParseLine, ReadSelect, WriteSelect, Returns, Callbacks
<1>8. QED
  BY <1>1, <1>2, <1>3, <1>4, <1>5, <1>6, <1>7, StepsAre DEF Outside

\* Nobody but the writers touches what is theirs.
LEMMA GpioStays ==
    ASSUME IInv, Next, \A u \in Users : ~CopyLine(u) /\ ~WriteStep(u)
    PROVE  UNCHANGED gpioVars /\ UNCHANGED userVars
<1> USE DEF gpioVars, userVars
<1>1. CASE Load \/ Unload \/ Proceed \/ Fail \/ Undo \/ ScriptEnds
  BY <1>1 DEF Load, Unload, Proceed, Fail, Undo, ScriptEnds
<1>2. ASSUME NEW c \in Sources, Fire(c)
      PROVE  UNCHANGED gpioVars
  BY <1>2 DEF Fire
<1>3. CASE Callback
  BY <1>3
  DEF Callback, IrqHandler, TimerCallback, ButtonCallback, PortReceives, HrtimerExpires,
      TaskletRuns, SensorSends
<1>4. QED
  BY <1>1, <1>2, <1>3, StepsAre DEF Outside

GpioTyped ==
    /\ data_buffer \in Lines \cup {NoLine}
    /\ at \in [Users -> {"idle", "copied", "parsed", "read"}]
    /\ line \in [Users -> Lines \cup {NoLine}]
    /\ val \in [Users -> SUBSET AllPins]
    /\ outputs \subseteq AllPins /\ high \subseteq AllPins
    /\ writes \in 0 .. MaxWrites
    /\ wrote \in [DOMAIN wrote -> 0 .. 1] /\ DOMAIN wrote \subseteq AllPins

LEMMA GpioTypedStep ==
    ASSUME IInv, Next
    PROVE  GpioTyped'
<1> USE BoundsAssumption DEF GpioTyped, gpioVars, userVars
<1>0. GpioTyped
  BY DEF IInv, Typed, TypeOK
<1>1. ASSUME NEW u \in Users, CopyLine(u)
      PROVE  GpioTyped'
  BY <1>0, <1>1 DEF CopyLine
<1>2. ASSUME NEW u \in Users, ParseLine(u)
      PROVE  GpioTyped'
  BY <1>0, <1>2 DEF ParseLine
<1>3. ASSUME NEW u \in Users, ReadSelect(u)
      PROVE  GpioTyped'
  BY <1>0, <1>3 DEF ReadSelect
<1>4. ASSUME NEW u \in Users, WriteSelect(u)
      PROVE  GpioTyped'
  <2> DEFINE p == line[u].pin
             v == line[u].value
  <2>1. p \in AllPins /\ v \in 0 .. 1
    BY <1>4 DEF IInv, WriterInv, WriteSelect
  <2>2. val[u] \subseteq AllPins
    BY <1>0
  <2> HIDE DEF p, v
  <2>3. /\ outputs' = (outputs \ SameRegister(p)) \cup val[u] \cup {p}
        /\ high' \in {high \cup {p}, high \ {p}}
        /\ wrote' = [q \in DOMAIN wrote \cup {p} |-> IF q = p THEN v ELSE wrote[q]]
        /\ at' = [at EXCEPT ![u] = "idle"] /\ val' = [val EXCEPT ![u] = {}]
        /\ UNCHANGED <<data_buffer, line, writes>>
    BY <1>4 DEF WriteSelect, p, v
  <2>4. wrote' \in [DOMAIN wrote' -> 0 .. 1] /\ DOMAIN wrote' \subseteq AllPins
    BY <1>0, <2>1, <2>3
  <2>5. outputs' \subseteq AllPins /\ high' \subseteq AllPins
    BY <1>0, <2>1, <2>2, <2>3
  <2>6. QED
    BY <1>0, <2>3, <2>4, <2>5
<1>5. QED
  BY <1>0, <1>1, <1>2, <1>3, <1>4, GpioStays DEF WriteStep

LEMMA TypedStep ==
    ASSUME IInv, Next
    PROVE  Typed'
BY ScriptTyped, SourcesTyped, ButtonTyped, GpioTypedStep DEF Typed, TypeOK, GpioTyped

-----------------------------------------------------------------------------
(* Writers *)

LEMMA WriterStep ==
    ASSUME IInv, Next
    PROVE  WriterInv' /\ PinsAreDriven'
<1>1. WriterInv /\ PinsAreDriven /\ GpioTyped
  BY DEF IInv, Typed, TypeOK, GpioTyped
<1>2. CASE \A u \in Users : ~CopyLine(u) /\ ~WriteStep(u)
  <2>1. UNCHANGED gpioVars /\ UNCHANGED userVars
    BY <1>2, GpioStays
  <2>2. \A u \in Users : u \in running <=> u \in running'
    <3>1. CASE Load \/ Unload \/ Proceed \/ Fail \/ Undo \/ ScriptEnds
      BY <3>1 DEF Load, Unload, Proceed, Fail, Undo, ScriptEnds, sourceVars
    <3>2. ASSUME NEW c \in Sources, Fire(c)
          PROVE  \A u \in Users : u \in running <=> u \in running'
      BY <3>2 DEF Fire
    <3>3. CASE Callback
      BY <3>3, UsersAssumption
      DEF Callback, IrqHandler, TimerCallback, ButtonCallback, PortReceives, HrtimerExpires,
          TaskletRuns, SensorSends, Returns, Callbacks
    <3>4. QED
      BY <1>2, <3>1, <3>2, <3>3, StepsAre DEF Outside
  <2>3. overlap => overlap'
    <3>1. CASE Load \/ Unload \/ Proceed \/ Fail \/ Undo \/ ScriptEnds
      BY <3>1 DEF Load, Unload, Proceed, Fail, Undo, ScriptEnds, sourceVars
    <3>2. QED
      BY <3>1, OutsideMoves, StepsAre
  <2>4. QED
    BY <1>1, <2>1, <2>2, <2>3 DEF WriterInv, PinsAreDriven, gpioVars, userVars
<1>3. ASSUME NEW u \in Users, CopyLine(u)
      PROVE  WriterInv' /\ PinsAreDriven'
  <2>1. /\ at' = [at EXCEPT ![u] = "copied"] /\ running' = running \cup {u}
        /\ overlap' = (overlap \/ running \cap Users # {})
        /\ UNCHANGED <<line, val, outputs, high, wrote>>
    BY <1>3 DEF CopyLine
  <2>2. PinsAreDriven'
    BY <1>1, <2>1 DEF PinsAreDriven
  <2>3. \A v \in Users : v \in running' <=> at'[v] # "idle"
    BY <1>1, <2>1 DEF WriterInv, GpioTyped
  <2>4. \A v \in Users : at'[v] \in {"parsed", "read"} => at[v] = at'[v]
    BY <1>1, <2>1 DEF GpioTyped
  <2>5. ~overlap' => \A v, w \in Users \cap running' : v = w
    BY <2>1
  <2>6. QED
    BY <1>1, <2>1, <2>2, <2>3, <2>4, <2>5 DEF WriterInv
<1>4. ASSUME NEW u \in Users, ParseLine(u)
      PROVE  WriterInv' /\ PinsAreDriven'
  <2>1. /\ at[u] = "copied" /\ line' = [line EXCEPT ![u] = data_buffer]
        /\ UNCHANGED <<overlap, val, outputs, high, wrote>>
        /\ \/ /\ data_buffer.pin \in AllPins /\ data_buffer.value \in 0 .. 1
              /\ at' = [at EXCEPT ![u] = "parsed"] /\ running' = running
           \/ at' = [at EXCEPT ![u] = "idle"] /\ running' = running \ {u}
    BY <1>4 DEF ParseLine, Returns
  <2>2. \A v \in Users : v \in running' <=> at'[v] # "idle"
    BY <1>1, <2>1 DEF WriterInv, GpioTyped
  <2>3. \A v \in Users : at'[v] \in {"parsed", "read"} =>
          line'[v].pin \in AllPins /\ line'[v].value \in 0 .. 1
    BY <1>1, <2>1 DEF WriterInv, GpioTyped
  <2>4. \A v \in Users : at'[v] = "read" => at[v] = "read" /\ line'[v] = line[v]
    BY <1>1, <2>1 DEF GpioTyped
  <2>5. running' \subseteq running
    BY <2>1
  <2>6. QED
    BY <1>1, <2>1, <2>2, <2>3, <2>4, <2>5 DEF WriterInv, PinsAreDriven
<1>5. ASSUME NEW u \in Users, ReadSelect(u)
      PROVE  WriterInv' /\ PinsAreDriven'
  <2>1. /\ at[u] = "parsed" /\ at' = [at EXCEPT ![u] = "read"]
        /\ val' = [val EXCEPT ![u] = outputs \cap SameRegister(line[u].pin)]
        /\ UNCHANGED <<running, overlap, line, outputs, high, wrote>>
    BY <1>5 DEF ReadSelect, sourceVars
  <2>2. \A v \in Users : v \in running <=> at'[v] # "idle"
    BY <1>1, <2>1 DEF WriterInv, GpioTyped
  <2>3. \A v \in Users : at'[v] \in {"parsed", "read"} =>
          line[v].pin \in AllPins /\ line[v].value \in 0 .. 1
    BY <1>1, <2>1 DEF WriterInv, GpioTyped
  <2>4. ~overlap => \A v \in Users : at'[v] = "read" =>
          val'[v] = outputs \cap SameRegister(line[v].pin)
    BY <1>1, <2>1 DEF WriterInv, GpioTyped
  <2>5. QED
    BY <1>1, <2>1, <2>2, <2>3, <2>4 DEF WriterInv, PinsAreDriven
<1>6. ASSUME NEW u \in Users, WriteSelect(u)
      PROVE  WriterInv' /\ PinsAreDriven'
  <2> DEFINE p == line[u].pin
             x == line[u].value
  <2>1. /\ at[u] = "read" /\ at' = [at EXCEPT ![u] = "idle"]
        /\ outputs' = (outputs \ SameRegister(p)) \cup val[u] \cup {p}
        /\ high' = IF x = 1 THEN high \cup {p} ELSE high \ {p}
        /\ wrote' = [q \in DOMAIN wrote \cup {p} |-> IF q = p THEN x ELSE wrote[q]]
        /\ val' = [val EXCEPT ![u] = {}]
        /\ u \in running /\ running' = running \ {u}
        /\ UNCHANGED <<overlap, line>>
    BY <1>6 DEF WriteSelect, Returns
  <2>2. \A v \in Users : v \in running' <=> at'[v] # "idle"
    BY <1>1, <2>1 DEF WriterInv, GpioTyped
  <2>3. \A v \in Users : at'[v] # "idle" => v # u /\ at'[v] = at[v]
    BY <1>1, <2>1 DEF GpioTyped
  <2>4. ~overlap => \A v \in Users : at'[v] = "idle"
    BY <1>1, <2>1, <2>2 DEF WriterInv
  <2>5. WriterInv'
    BY <1>1, <2>1, <2>2, <2>3, <2>4 DEF WriterInv
  <2>6. ASSUME ~overlap
        PROVE  outputs' = outputs \cup {p}
    BY <1>1, <2>1, <2>6 DEF WriterInv
  <2>7. ASSUME ~overlap', NEW q \in DOMAIN wrote'
        PROVE  q \in outputs' /\ (wrote'[q] = 1 <=> q \in high')
    <3>1. ~overlap
      BY <2>1, <2>7
    <3>2. CASE q = p
      BY <2>1, <2>6, <3>1, <3>2
    <3>3. CASE q # p
      BY <1>1, <2>1, <2>6, <2>7, <3>1, <3>3 DEF PinsAreDriven
    <3>4. QED
      BY <3>2, <3>3
  <2>8. QED
    BY <2>5, <2>7 DEF PinsAreDriven
<1>7. QED
  BY <1>2, <1>3, <1>4, <1>5, <1>6 DEF WriteStep

-----------------------------------------------------------------------------
(* The invariant is inductive *)

LEMMA InitIInv == Init => IInv
<1> SUFFICES ASSUME Init
             PROVE  IInv
  OBVIOUS
<1> USE DEF Init
<1>1. Typed
  <2>1. todo \in Seq(Calls) /\ todo \in Seq(UndoCalls) /\ Len(samples) = 0
        /\ samples \in Seq({PRESSED, RELEASED})
    BY EmptySeq
  <2>2. DOMAIN wrote = {} /\ wrote \in [DOMAIN wrote -> 0 .. 1]
    OBVIOUS
  <2>3. GpioTyped
    BY <2>2, BoundsAssumption DEF GpioTyped, AllPins
  <2>4. debounce \in [1 .. 3 -> {PRESSED, RELEASED}] /\ last \in {PRESSED, RELEASED}
    OBVIOUS
  <2>5. Len(samples) <= MaxSamples /\ since \in 0 .. Len(samples) /\ loads \in 0 .. MaxLoads
    BY <2>1, BoundsAssumption
  <2>6. TypeOK
    <3>1. /\ driver \in Drivers /\ phase = "out" /\ todo = <<>>
          /\ held \subseteq Resources /\ armed \subseteq Sources /\ running \subseteq Sources
      BY Zenon
    <3>2. led \in 0 .. 1
      OBVIOUS
    <3>3. overlap \in BOOLEAN
      BY Zenon
    <3> HIDE DEF Init
    <3>4. QED
      BY <2>1, <2>3, <2>4, <2>5, <3>1, <3>2, <3>3 DEF TypeOK, GpioTyped
  <2>7. QED
    BY <2>1, <2>3, <2>6 DEF Typed, GpioTyped
<1>2. WriterInv /\ PinsAreDriven
  BY DEF WriterInv, PinsAreDriven
<1>3. SourceInv
  BY DEF SourceInv
<1>4. StopInv /\ NeedInv /\ HeldInv
  BY DEF StopInv, NeedInv, HeldInv
<1>5. QED
  BY <1>1, <1>2, <1>3, <1>4 DEF IInv

LEMMA NextIInv == IInv /\ [Next]_vars => IInv'
<1>1. ASSUME IInv, Next
      PROVE  IInv'
  BY <1>1, TypedStep, WriterStep, SourceStep, StopStep, NeedStep, HeldStep DEF IInv
<1>2. ASSUME IInv, UNCHANGED vars
      PROVE  IInv'
  BY <1>2
  DEF IInv, vars, scriptVars, sourceVars, buttonVars, gpioVars, userVars, Typed, TypeOK,
      WriterInv, PinsAreDriven, SourceInv, StopInv, NeedInv, HeldInv
<1>3. QED
  BY <1>1, <1>2

LEMMA Inductive == Spec => []IInv
BY InitIInv, NextIInv, PTL DEF Spec

-----------------------------------------------------------------------------
(* Readings and presses: those of Lifecycle, of any sequence of readings. *)

SampleOf(s, n) == IF n < 1 THEN RELEASED ELSE s[n]
StableIn(s, n) == SampleOf(s, n) = SampleOf(s, n - 1) /\ SampleOf(s, n - 1) = SampleOf(s, n - 2)

\* Before the reading n the button was stably released the last time.
ReleasedBefore(s, n) ==
    \E m \in 1 .. n - 1 :
      /\ StableIn(s, m) /\ SampleOf(s, m) = RELEASED
      /\ \A k \in m + 1 .. n - 1 : ~StableIn(s, k)

PressIn(s, n) == StableIn(s, n) /\ SampleOf(s, n) = PRESSED /\ ReleasedBefore(s, n)
PressesIn(s, from) == {n \in from + 1 .. Len(s) : PressIn(s, n)}

NoOutput(script) == \A n \in DOMAIN script : script[n].op # "output"

\* The statics are the last three readings and the last stable one, and the LED
\* has been switched once a press since init has set it.
ButtonInv ==
    /\ \A j \in 1 .. 3 : debounce[j] = SampleOf(samples, Len(samples) + 1 - j)
    /\ last = RELEASED <=> ReleasedBefore(samples, Len(samples) + 1)
    /\ driver \notin {"button", "dt"} => led = 0 /\ samples = <<>>
    /\ phase \in {"live", "exiting"}
         \/ (phase = "loading" /\ NoOutput(todo)) =>
         led = Cardinality(PressesIn(samples, since)) % 2

-----------------------------------------------------------------------------
(* One more reading *)

\* What was read before stays, and the new reading is the last.
LEMMA NewSample ==
    ASSUME NEW s \in Seq({PRESSED, RELEASED}), NEW now \in {PRESSED, RELEASED}
    PROVE  /\ Len(s) \in Nat /\ Len(Append(s, now)) = Len(s) + 1
           /\ Append(s, now) \in Seq({PRESSED, RELEASED})
           /\ \A k \in Int : k <= Len(s) => SampleOf(Append(s, now), k) = SampleOf(s, k)
           /\ SampleOf(Append(s, now), Len(s) + 1) = now
<1> DEFINE t == Append(s, now)
<1>1. /\ Len(s) \in Nat /\ Len(t) = Len(s) + 1 /\ t \in Seq({PRESSED, RELEASED})
      /\ \A k \in 1 .. Len(s) : t[k] = s[k]
      /\ t[Len(s) + 1] = now
  BY AppendProperties, LenProperties
<1> HIDE DEF t
<1>2. ASSUME NEW k \in Int, k <= Len(s)
      PROVE  SampleOf(t, k) = SampleOf(s, k)
  BY <1>1, <1>2 DEF SampleOf
<1>3. SampleOf(t, Len(s) + 1) = now
  BY <1>1 DEF SampleOf
<1>4. QED
  BY <1>1, <1>2, <1>3 DEF t

\* So do the stable stretches; the new reading ends one if the two before agree.
LEMMA NewStable ==
    ASSUME NEW s \in Seq({PRESSED, RELEASED}), NEW now \in {PRESSED, RELEASED}
    PROVE  /\ \A k \in Int : k <= Len(s) => (StableIn(Append(s, now), k) <=> StableIn(s, k))
           /\ StableIn(Append(s, now), Len(s) + 1) <=>
                now = SampleOf(s, Len(s)) /\ SampleOf(s, Len(s)) = SampleOf(s, Len(s) - 1)
<1> DEFINE t == Append(s, now)
           n == Len(s)
<1>1. /\ n \in Nat
      /\ \A k \in Int : k <= n => SampleOf(t, k) = SampleOf(s, k)
      /\ SampleOf(t, n + 1) = now
  BY NewSample
<1> HIDE DEF t, n
<1>2. ASSUME NEW k \in Int, k <= n
      PROVE  StableIn(t, k) <=> StableIn(s, k)
  <2>1. k - 1 \in Int /\ k - 2 \in Int /\ k - 1 <= n /\ k - 2 <= n
    BY <1>1, <1>2
  <2>2. QED
    BY <1>1, <1>2, <2>1, Zenon DEF StableIn
<1>3. StableIn(t, n + 1) <=> now = SampleOf(s, n) /\ SampleOf(s, n) = SampleOf(s, n - 1)
  <2>1. n - 1 \in Int /\ n - 1 <= n /\ n <= n /\ (n + 1) - 1 = n /\ (n + 1) - 2 = n - 1 /\ n \in Int
    BY <1>1
  <2>2. QED
    BY <1>1, <2>1, Zenon DEF StableIn
<1>4. QED
  BY <1>2, <1>3 DEF t, n

LEMMA NewReleased ==
    ASSUME NEW s \in Seq({PRESSED, RELEASED}), NEW now \in {PRESSED, RELEASED}
    PROVE  /\ \A k \in Int : k <= Len(s) + 1 =>
                (ReleasedBefore(Append(s, now), k) <=> ReleasedBefore(s, k))
           /\ ReleasedBefore(Append(s, now), Len(s) + 2) <=>
                IF StableIn(Append(s, now), Len(s) + 1)
                THEN now = RELEASED ELSE ReleasedBefore(s, Len(s) + 1)
<1> DEFINE t == Append(s, now)
           n == Len(s)
<1>1. /\ n \in Nat
      /\ \A k \in Int : k <= n => SampleOf(t, k) = SampleOf(s, k)
      /\ SampleOf(t, n + 1) = now
      /\ \A k \in Int : k <= n => (StableIn(t, k) <=> StableIn(s, k))
  BY NewSample, NewStable
<1> HIDE DEF t, n
<1>2. ASSUME NEW k \in Int, k <= n + 1
      PROVE  ReleasedBefore(t, k) <=> ReleasedBefore(s, k)
  <2>1. \A m \in 1 .. k - 1 : m \in Int /\ m <= n
    BY <1>1, <1>2
  <2>2. \A m \in 1 .. k - 1 : \A j \in m + 1 .. k - 1 : j \in Int /\ j <= n
    BY <1>1, <1>2
  <2>3. QED
    BY <1>1, <2>1, <2>2 DEF ReleasedBefore
<1>3. ASSUME StableIn(t, n + 1)
      PROVE  ReleasedBefore(t, n + 2) <=> now = RELEASED
  <2>1. ASSUME now = RELEASED
        PROVE  ReleasedBefore(t, n + 2)
    <3>1. \A k \in (n + 1) + 1 .. (n + 2) - 1 : ~StableIn(t, k)
      BY <1>1
    <3>2. n + 1 \in 1 .. (n + 2) - 1
      BY <1>1
    <3>3. QED
      BY <1>1, <1>3, <2>1, <3>1, <3>2 DEF ReleasedBefore
  <2>2. ASSUME ReleasedBefore(t, n + 2)
        PROVE  now = RELEASED
    <3>1. PICK m \in 1 .. (n + 2) - 1 :
            /\ StableIn(t, m) /\ SampleOf(t, m) = RELEASED
            /\ \A k \in m + 1 .. (n + 2) - 1 : ~StableIn(t, k)
      BY <2>2, Zenon DEF ReleasedBefore
    <3>2. m = n + 1
      <4>1. m # n + 1 => n + 1 \in m + 1 .. (n + 2) - 1
        BY <1>1
      <4>2. QED
        BY <1>3, <3>1, <4>1
    <3>3. QED
      BY <1>1, <3>1, <3>2
  <2>3. QED
    BY <2>1, <2>2
<1>4. ASSUME ~StableIn(t, n + 1)
      PROVE  ReleasedBefore(t, n + 2) <=> ReleasedBefore(s, n + 1)
  <2>1. ASSUME ReleasedBefore(s, n + 1)
        PROVE  ReleasedBefore(t, n + 2)
    <3>1. ReleasedBefore(t, n + 1)
      BY <1>1, <1>2, <2>1
    <3>2. PICK m \in 1 .. (n + 1) - 1 :
            /\ StableIn(t, m) /\ SampleOf(t, m) = RELEASED
            /\ \A k \in m + 1 .. (n + 1) - 1 : ~StableIn(t, k)
      BY <3>1, Zenon DEF ReleasedBefore
    <3>3. m \in 1 .. (n + 2) - 1
      BY <1>1
    <3>4. ASSUME NEW k \in m + 1 .. (n + 2) - 1
          PROVE  ~StableIn(t, k)
      <4>1. k = n + 1 \/ k \in m + 1 .. (n + 1) - 1
        BY <1>1
      <4>2. QED
        BY <1>4, <3>2, <4>1
    <3>5. QED
      BY <3>2, <3>3, <3>4, Zenon DEF ReleasedBefore
  <2>2. ASSUME ReleasedBefore(t, n + 2)
        PROVE  ReleasedBefore(s, n + 1)
    <3>1. PICK m \in 1 .. (n + 2) - 1 :
            /\ StableIn(t, m) /\ SampleOf(t, m) = RELEASED
            /\ \A k \in m + 1 .. (n + 2) - 1 : ~StableIn(t, k)
      BY <2>2, Zenon DEF ReleasedBefore
    <3>2. m # n + 1
      BY <1>4, <3>1
    <3>3. m \in 1 .. (n + 1) - 1
      BY <1>1, <3>2
    <3>4. \A k \in m + 1 .. (n + 1) - 1 : k \in m + 1 .. (n + 2) - 1
      BY <1>1
    <3>5. ReleasedBefore(t, n + 1)
      BY <3>1, <3>3, <3>4, Zenon DEF ReleasedBefore
    <3>6. QED
      BY <1>1, <1>2, <3>5
  <2>3. QED
    BY <2>1, <2>2
<1>5. QED
  BY <1>2, <1>3, <1>4 DEF t, n

\* The presses are those there were, and the new reading if it is one.
LEMMA NewPress ==
    ASSUME NEW s \in Seq({PRESSED, RELEASED}), NEW now \in {PRESSED, RELEASED},
           NEW from \in 0 .. Len(s)
    PROVE  PressesIn(Append(s, now), from) =
             PressesIn(s, from) \cup
               IF /\ StableIn(Append(s, now), Len(s) + 1)
                  /\ now = PRESSED /\ ReleasedBefore(s, Len(s) + 1)
               THEN {Len(s) + 1} ELSE {}
<1> DEFINE t == Append(s, now)
           n == Len(s)
<1>1. /\ n \in Nat /\ Len(t) = n + 1 /\ from \in 0 .. n
      /\ \A k \in Int : k <= n => SampleOf(t, k) = SampleOf(s, k)
      /\ SampleOf(t, n + 1) = now
      /\ \A k \in Int : k <= n => (StableIn(t, k) <=> StableIn(s, k))
      /\ \A k \in Int : k <= n + 1 => (ReleasedBefore(t, k) <=> ReleasedBefore(s, k))
  BY NewSample, NewStable, NewReleased
<1>2. Len(s) = n
  OBVIOUS
<1> HIDE DEF t, n
<1>3. ASSUME NEW k \in from + 1 .. n
      PROVE  PressIn(t, k) <=> PressIn(s, k)
  <2>1. k \in Int /\ k <= n /\ k <= n + 1
    BY <1>1
  <2>2. QED
    BY <1>1, <2>1, Zenon DEF PressIn
<1>4. PressIn(t, n + 1) <=> StableIn(t, n + 1) /\ now = PRESSED /\ ReleasedBefore(s, n + 1)
  <2>1. n + 1 \in Int /\ n + 1 <= n + 1
    BY <1>1
  <2>2. QED
    BY <1>1, <2>1, Zenon DEF PressIn
<1>5. from + 1 .. n + 1 = (from + 1 .. n) \cup {n + 1}
  BY <1>1
<1>6. PressesIn(t, from) = {k \in (from + 1 .. n) \cup {n + 1} : PressIn(t, k)}
  BY <1>1, <1>5 DEF PressesIn
<1>7. PressesIn(s, from) = {k \in from + 1 .. n : PressIn(s, k)}
  BY <1>2 DEF PressesIn
<1>8. PressesIn(t, from) =
        PressesIn(s, from) \cup
          IF StableIn(t, n + 1) /\ now = PRESSED /\ ReleasedBefore(s, n + 1)
          THEN {n + 1} ELSE {}
  BY <1>3, <1>4, <1>6, <1>7
<1>9. QED
  BY <1>8 DEF t, n

LEMMA PressesAreFinite ==
    ASSUME NEW s \in Seq({PRESSED, RELEASED}), NEW from \in 0 .. Len(s)
    PROVE  /\ IsFiniteSet(PressesIn(s, from)) /\ Cardinality(PressesIn(s, from)) \in Nat
           /\ Len(s) + 1 \notin PressesIn(s, from)
           /\ from = Len(s) => Cardinality(PressesIn(s, from)) = 0
<1>1. Len(s) \in Nat /\ from + 1 \in Int /\ Len(s) \in Int
  BY LenProperties
<1>2. IsFiniteSet(from + 1 .. Len(s))
  BY <1>1, FS_Interval
<1>3. PressesIn(s, from) \in SUBSET (from + 1 .. Len(s))
  BY DEF PressesIn
<1>4. IsFiniteSet(PressesIn(s, from))
  BY <1>2, <1>3, FS_Subset
<1>5. Len(s) + 1 \notin from + 1 .. Len(s)
  BY <1>1
<1>6. from = Len(s) => PressesIn(s, from) = {}
  <2>1. from = Len(s) => from + 1 .. Len(s) = {}
    BY <1>1
  <2>2. QED
    BY <1>3, <2>1
<1>7. QED
  BY <1>3, <1>4, <1>5, <1>6, FS_EmptySet, FS_CardinalityType

-----------------------------------------------------------------------------
(* The LED counts presses *)

LEMMA InitButtonInv == Init => ButtonInv
<1> SUFFICES ASSUME Init
             PROVE  ButtonInv
  OBVIOUS
<1>1. /\ samples = <<>> /\ Len(samples) = 0 /\ last = PRESSED /\ led = 0 /\ phase = "out"
      /\ debounce = [n \in 1 .. 3 |-> RELEASED]
  BY DEF Init
<1>2. \A j \in 1 .. 3 : debounce[j] = SampleOf(samples, Len(samples) + 1 - j)
  <2>1. \A j \in 1 .. 3 : (0 + 1) - j < 1
    OBVIOUS
  <2>2. QED
    BY <1>1, <2>1 DEF SampleOf
<1>3. ~ReleasedBefore(samples, Len(samples) + 1) /\ last # RELEASED
  BY <1>1 DEF ReleasedBefore, PRESSED, RELEASED
<1>4. QED
  BY <1>1, <1>2, <1>3 DEF ButtonInv

\* Every init script that starts a button's timer switches the LED off first.
LEMMA ButtonsSwitchOff ==
    ASSUME NEW d \in {"button", "dt"}
    PROVE  ~NoOutput(InitScript(d))
<1>1. CASE d = "button"
  <2>1. 4 \in DOMAIN ButtonInit /\ ButtonInit[4].op = "output"
    BY DEF ButtonInit, Output
  <2>2. QED
    BY <1>1, <2>1 DEF InitScript, NoOutput
<1>2. CASE d = "dt"
  <2>1. 3 \in DOMAIN DtProbe /\ DtProbe[3].op = "output"
    BY DEF DtProbe, Output
  <2>2. QED
    BY <1>2, <2>1 DEF InitScript, NoOutput
<1>3. QED
  BY <1>1, <1>2

\* A reading moves the statics on, and toggles the LED if it is a press.
LEMMA ReadingKeepsCount ==
    ASSUME IInv, ButtonInv, ButtonCallback
    PROVE  ButtonInv'
<1> DEFINE n == Len(samples)
           press == /\ StableIn(samples', n + 1) /\ SampleOf(samples', n + 1) = PRESSED
                    /\ ReleasedBefore(samples, n + 1)
<1>1. /\ debounce \in [1 .. 3 -> {PRESSED, RELEASED}] /\ last \in {PRESSED, RELEASED}
      /\ led \in 0 .. 1 /\ samples \in Seq({PRESSED, RELEASED}) /\ since \in 0 .. Len(samples)
  BY DEF IInv, Typed, TypeOK
<1>2. PICK now \in {PRESSED, RELEASED} :
        /\ debounce' = <<now, debounce[1], debounce[2]>>
        /\ samples' = Append(samples, now)
        /\ IF now = debounce[1] /\ debounce[1] = debounce[2]
           THEN /\ last' = now
                /\ led' = IF now = PRESSED /\ last = RELEASED THEN 1 - led ELSE led
           ELSE UNCHANGED <<last, led>>
  BY Zenon DEF ButtonCallback
<1>3. driver' = driver /\ phase' = phase /\ todo' = todo /\ since' = since
      /\ driver \in {"button", "dt"}
  BY DEF ButtonCallback, scriptVars
<1>4. /\ n \in Nat /\ Len(samples') = n + 1
      /\ \A k \in Int : k <= n => SampleOf(samples', k) = SampleOf(samples, k)
      /\ SampleOf(samples', n + 1) = now
  BY <1>1, <1>2, NewSample
<1>5. StableIn(samples', n + 1) <=>
        now = SampleOf(samples, n) /\ SampleOf(samples, n) = SampleOf(samples, n - 1)
  BY <1>1, <1>2, NewStable
<1>6. ReleasedBefore(samples', n + 2) <=>
        IF StableIn(samples', n + 1) THEN now = RELEASED ELSE ReleasedBefore(samples, n + 1)
  BY <1>1, <1>2, NewReleased
<1>7. PressesIn(samples', since) = PressesIn(samples, since) \cup IF press THEN {n + 1} ELSE {}
  BY <1>1, <1>2, <1>4, NewPress, Zenon
<1>8. /\ IsFiniteSet(PressesIn(samples, since)) /\ Cardinality(PressesIn(samples, since)) \in Nat
      /\ n + 1 \notin PressesIn(samples, since)
  BY <1>1, PressesAreFinite
<1>9. /\ \A j \in 1 .. 3 : debounce[j] = SampleOf(samples, n + 1 - j)
      /\ last = RELEASED <=> ReleasedBefore(samples, n + 1)
  BY DEF ButtonInv
<1> HIDE DEF n
<1>10. debounce[1] = SampleOf(samples, n) /\ debounce[2] = SampleOf(samples, n - 1)
  <2>1. 1 \in 1 .. 3 /\ 2 \in 1 .. 3 /\ n + 1 - 1 = n /\ n + 1 - 2 = n - 1
    BY <1>4
  <2>2. QED
    BY <1>9, <2>1, Zenon
<1>11. (now = debounce[1] /\ debounce[1] = debounce[2]) <=> StableIn(samples', n + 1)
  BY <1>5, <1>10, Zenon
<1>12. press <=> StableIn(samples', n + 1) /\ now = PRESSED /\ last = RELEASED
  BY <1>4, <1>9, Zenon
<1> HIDE DEF press
<1>13. \A j \in 1 .. 3 : debounce'[j] = SampleOf(samples', Len(samples') + 1 - j)
  <2>1. /\ debounce'[1] = now /\ debounce'[2] = debounce[1] /\ debounce'[3] = debounce[2]
    BY <1>2
  <2>2. /\ SampleOf(samples', n) = SampleOf(samples, n)
        /\ SampleOf(samples', n - 1) = SampleOf(samples, n - 1)
    BY <1>4
  <2>3. (n + 1) + 1 - 1 = n + 1 /\ (n + 1) + 1 - 2 = n /\ (n + 1) + 1 - 3 = n - 1
    BY <1>4
  <2>4. \A j \in 1 .. 3 : j = 1 \/ j = 2 \/ j = 3
    OBVIOUS
  <2>5. QED
    BY <1>4, <1>10, <2>1, <2>2, <2>3, <2>4, Zenon
<1>14. last' = RELEASED <=> ReleasedBefore(samples', Len(samples') + 1)
  <2>1. (n + 1) + 1 = n + 2
    BY <1>4
  <2>2. last' = IF StableIn(samples', n + 1) THEN now ELSE last
    BY <1>2, <1>11, Zenon
  <2>3. QED
    BY <1>4, <1>6, <1>9, <2>1, <2>2, Zenon
<1>15. ASSUME led = Cardinality(PressesIn(samples, since)) % 2
       PROVE  led' = Cardinality(PressesIn(samples', since')) % 2
  <2>1. led' = IF press THEN 1 - led ELSE led
    BY <1>2, <1>11, <1>12, Zenon
  <2>2. CASE press
    <3>1. Cardinality(PressesIn(samples', since')) = Cardinality(PressesIn(samples, since)) + 1
      BY <1>3, <1>7, <1>8, <2>2, FS_AddElement
    <3>2. \A c \in Nat : (c + 1) % 2 = 1 - (c % 2)
      OBVIOUS
    <3>3. QED
      BY <1>8, <1>15, <2>1, <2>2, <3>1, <3>2
  <2>3. CASE ~press
    BY <1>3, <1>7, <1>15, <2>1, <2>3
  <2>4. QED
    BY <2>2, <2>3
<1>16. QED
  BY <1>3, <1>13, <1>14, <1>15 DEF ButtonInv

\* Whatever leaves the readings and the statics alone keeps what relates them.
LEMMA StaticsStay ==
    ASSUME ButtonInv, UNCHANGED <<driver, debounce, last, samples>>,
           driver \notin {"button", "dt"} => led' = 0,
           phase' \in {"live", "exiting"} \/ (phase' = "loading" /\ NoOutput(todo')) =>
             led' = Cardinality(PressesIn(samples', since')) % 2
    PROVE  ButtonInv'
BY DEF ButtonInv

LEMMA NextButtonInv == IInv /\ ButtonInv /\ [Next]_vars => ButtonInv'
<1>1. ASSUME IInv, ButtonInv, Next
      PROVE  ButtonInv'
  <2> USE <1>1 DEF buttonVars, scriptVars
  <2>0. /\ samples \in Seq({PRESSED, RELEASED}) /\ since \in 0 .. Len(samples)
        /\ driver \in Drivers /\ todo \in Seq(Calls)
    BY DEF IInv, Typed, TypeOK
  <2>1. CASE Load
    <3>1. /\ phase' = "loading" /\ todo' = InitScript(driver) /\ driver' = driver /\ led' = led
      BY <2>1 DEF Load
    <3>2. driver \in {"button", "dt"} => ~NoOutput(todo')
      BY <3>1, ButtonsSwitchOff
    <3>3. CASE UNCHANGED <<debounce, last, samples, since>> /\ driver = "dt"
      BY <3>1, <3>2, <3>3, StaticsStay
    <3>4. CASE /\ debounce' = [n \in 1 .. 3 |-> RELEASED] /\ last' = PRESSED
               /\ samples' = <<>> /\ since' = 0
      <4>1. Len(samples') = 0 /\ \A j \in 1 .. 3 : 0 + 1 - j < 1
        BY <3>4
      <4>2. \A j \in 1 .. 3 : debounce'[j] = SampleOf(samples', Len(samples') + 1 - j)
        BY <3>4, <4>1 DEF SampleOf
      <4>3. ~(last' = RELEASED) /\ ~ReleasedBefore(samples', Len(samples') + 1)
        BY <3>4, <4>1 DEF ReleasedBefore, PRESSED, RELEASED
      <4>4. Cardinality(PressesIn(samples', since')) = 0
        <5>1. samples' \in Seq({PRESSED, RELEASED}) /\ since' \in 0 .. Len(samples')
          BY <3>4, <4>1, EmptySeq
        <5>2. QED
          BY <3>4, <4>1, <5>1, PressesAreFinite
      <4>5. driver' \notin {"button", "dt"} => led' = 0 /\ samples' = <<>>
        BY <3>1, <3>4 DEF ButtonInv
      <4>6. 0 % 2 = 0
        OBVIOUS
      <4>7. QED
        BY <3>1, <3>2, <4>2, <4>3, <4>4, <4>5, <4>6 DEF ButtonInv
    <3>5. QED
      BY <2>1, <3>3, <3>4 DEF Load
  <2>2. CASE Unload
    <3>1. /\ phase = "live" /\ phase' = "exiting"
          /\ UNCHANGED <<driver, debounce, last, led, samples, since>>
      BY <2>2 DEF Unload
    <3>2. QED
      BY <3>1 DEF ButtonInv
  <2>3. CASE Proceed
    <3>1. /\ phase = "loading" /\ phase' = "loading" /\ todo # <<>> /\ todo' = Tail(todo)
          /\ UNCHANGED <<driver, debounce, last, samples>>
          /\ IF Head(todo).op = "output"
             THEN led' = 0 /\ since' = Len(samples)
             ELSE UNCHANGED <<led, since>>
      BY <2>3 DEF Proceed
    <3>2. driver \notin {"button", "dt"} => led' = 0
      BY <3>1 DEF ButtonInv
    <3>3. CASE Head(todo).op = "output"
      <4>1. Len(samples) \in 0 .. Len(samples)
        BY <2>0, LenProperties
      <4>2. Cardinality(PressesIn(samples', since')) = 0
        BY <2>0, <3>1, <3>3, <4>1, PressesAreFinite
      <4>3. led' = Cardinality(PressesIn(samples', since')) % 2
        BY <3>1, <3>3, <4>2
      <4>4. QED
        BY <3>1, <3>2, <4>3, StaticsStay
    <3>4. CASE Head(todo).op # "output"
      <4>1. NoOutput(Tail(todo)) => NoOutput(todo)
        <5>1. \A n \in DOMAIN todo : n = 1 \/ n - 1 \in DOMAIN Tail(todo)
          BY <2>0, <3>1, HeadTailProperties
        <5>2. /\ todo[1] = Head(todo)
              /\ \A n \in DOMAIN Tail(todo) : Tail(todo)[n] = todo[n + 1]
          BY <2>0, <3>1, TailOf
        <5>3. \A n \in DOMAIN todo : n \in Int /\ (n - 1) + 1 = n
          BY <2>0, LenProperties
        <5>4. QED
          BY <3>4, <5>1, <5>2, <5>3 DEF NoOutput
      <4>2. NoOutput(todo') => led' = Cardinality(PressesIn(samples', since')) % 2
        BY <3>1, <3>4, <4>1 DEF ButtonInv
      <4>3. QED
        BY <3>1, <3>2, <4>2, StaticsStay
    <3>5. QED
      BY <3>3, <3>4
  <2>4. CASE Fail \/ Undo
    <3>1. /\ UNCHANGED <<driver, debounce, last, led, samples, since>>
          /\ phase' = "failing" \/ (phase' = phase /\ phase \in {"failing", "exiting"})
      BY <2>4 DEF Fail, Undo
    <3>2. QED
      BY <3>1 DEF ButtonInv
  <2>5. CASE ScriptEnds
    <3>1. /\ UNCHANGED <<driver, todo, debounce, last, led, samples, since>>
          /\ todo = <<>> /\ phase \in {"loading", "failing", "exiting"}
          /\ phase' = IF phase = "loading" THEN "live" ELSE "out"
      BY <2>5 DEF ScriptEnds
    <3>2. NoOutput(todo)
      BY <3>1 DEF NoOutput
    <3>3. QED
      BY <3>1, <3>2 DEF ButtonInv
  <2>6. CASE ButtonCallback
    BY <2>6, ReadingKeepsCount
  <2>7. CASE Outside /\ ~ButtonCallback
    <3>1. UNCHANGED scriptVars
      BY <2>7, OutsideMoves
    <3>2. ASSUME NEW c \in Sources, Fire(c)
          PROVE  UNCHANGED buttonVars
      BY <3>2 DEF Fire
    <3>3. ASSUME Callback
          PROVE  UNCHANGED buttonVars
      <4>1. IrqHandler \/ TimerCallback \/ PortReceives \/ HrtimerExpires \/ TaskletRuns
              \/ SensorSends
        BY <2>7, <3>3, Zenon DEF Callback
      <4>2. QED
        BY <4>1
        DEF IrqHandler, TimerCallback, PortReceives, HrtimerExpires, TaskletRuns, SensorSends
    <3>4. ASSUME NEW u \in Users, CopyLine(u) \/ WriteStep(u)
          PROVE  UNCHANGED buttonVars
      BY <3>4 DEF CopyLine, WriteStep, ParseLine, ReadSelect, WriteSelect
    <3>5. UNCHANGED buttonVars
      BY <2>7, <3>2, <3>3, <3>4 DEF Outside
    <3>6. QED
      BY <3>1, <3>5 DEF ButtonInv
  <2>8. QED
    BY <2>1, <2>2, <2>3, <2>4, <2>5, <2>6, <2>7, StepsAre
<1>2. ASSUME ButtonInv, UNCHANGED vars
      PROVE  ButtonInv'
  BY <1>2 DEF ButtonInv, vars, scriptVars, buttonVars
<1>3. QED
  BY <1>1, <1>2

-----------------------------------------------------------------------------
(* Theorems *)

\* The variables are well typed, for any users and pins; a script never gets or
\* arms anything but resources and sources.
THEOREM TypeCorrect == Spec => []TypeOK
<1>1. IInv => TypeOK
  BY DEF IInv, Typed
<1>2. QED
  BY <1>1, Inductive, PTL

\* A callback that runs has what it works on (timer_button.c:106, dt_button.c:167,
\* modbuscontroller.c:119 say when not).
THEOREM CallbacksAreServed == Spec => []CallbackHasWhatItUses
<1>1. IInv => CallbackHasWhatItUses
  <2> SUFFICES ASSUME IInv, phase \in {"loading", "live"} \/ driver \in StopsFirst,
                      NEW c \in running
               PROVE  Uses(c) \subseteq held
    BY DEF CallbackHasWhatItUses, StopsFirst
  <2>1. driver \in Drivers /\ c \in Own(driver)
    BY DEF IInv, SourceInv, Typed, TypeOK
  <2>2. Needs(driver) \subseteq held
    BY DEF IInv, NeedInv
  <2>3. Uses(c) \subseteq Needs(driver)
    BY <2>1, BoundsAssumption, UsersAssumption DEF Uses, Needs, Own, Callbacks
  <2>4. QED
    BY <2>2, <2>3
<1>2. QED
  BY <1>1, Inductive, PTL

\* No callback of a source runs or is due once it was stopped, however exit and
\* the callbacks interleave (my_timer.c:53, gpio_irq.c:52, dt_button.c:170).
THEOREM StoppedForGood == Spec => []StoppedStaysStopped
<1>1. IInv => StoppedStaysStopped
  <2>1. ToStop = StoppedBy(todo)
    BY DEF ToStop, StoppedBy, Stops
  <2>2. QED
    BY <2>1 DEF IInv, StopInv, StoppedStaysStopped
<1>2. QED
  BY <1>1, Inductive, PTL

\* Exit, and init wherever it fails, put all they got (gpio_irq.c:29-54,
\* dt_button.c:84-172, hello_mmio.c:125-158, modbuscontroller.c:67-121).
THEOREM NothingIsLeft == Spec => []NothingHeldOutside
<1>1. IInv => NothingHeldOutside
  BY DEF IInv, HeldInv, NothingHeldOutside
<1>2. QED
  BY <1>1, Inductive, PTL

\* Writers that do not overlap drive every pin they wrote, for any number of them
\* and of writes (hello_mmio.c:28-60, :84-117).
THEOREM PinsStayDriven == Spec => []PinsAreDriven
<1>1. IInv => PinsAreDriven
  BY DEF IInv
<1>2. QED
  BY <1>1, Inductive, PTL

\* The LED has been switched once for every press since init switched it off: the
\* debounce counts each press once, for any readings, however many there are and
\* whatever statics a device bound before has left (timer_button.c:41-49,
\* dt_button.c:45-53).
THEOREM LedIsToggledByPresses == Spec => []LedCountsPresses
<1>1. ButtonInv => LedCountsPresses
  <2>1. \A n : Sample(n) = SampleOf(samples, n)
    BY DEF Sample, SampleOf
  <2>2. \A n : Stable(n) <=> StableIn(samples, n)
    BY <2>1 DEF Stable, StableIn
  <2>3. \A n : Press(n) <=> PressIn(samples, n)
    BY <2>1, <2>2 DEF Press, PressIn, ReleasedBefore
  <2>4. {n \in since + 1 .. Len(samples) : Press(n)} = PressesIn(samples, since)
    BY <2>3 DEF PressesIn
  <2>5. QED
    BY <2>4 DEF ButtonInv, LedCountsPresses
<1>2. QED
  BY <1>1, Inductive, InitButtonInv, NextButtonInv, PTL DEF Spec
=============================================================================
