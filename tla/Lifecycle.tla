----------------------------- MODULE Lifecycle ------------------------------
(***************************************************************************)
(* Loading and unloading the drivers that are called back: by an interrupt *)
(* (06_gpio_irq), by a timer that arms itself (07_timer,                   *)
(* 08_timer_with_button, 10_button_with_dt), by processes that write a     *)
(* /proc entry (11_ledblink_by_mmio), and by serial port, timer, tasklet   *)
(* and sensor processes (the controller of 17_modbus_rtu).                 *)
(*                                                                         *)
(* What init and exit do is a script: the calls that get and put a         *)
(* resource, arm a source of callbacks or stop it, in the code's order,    *)
(* each with what the error path does should it fail.  A source is armed   *)
(* when its callback may start, and running while the callback runs.  It   *)
(* is stopped either with waiting for a running callback (free_irq,        *)
(* del_timer_sync, hrtimer_cancel, tasklet_kill, proc_remove,              *)
(* serdev_device_close) or without (del_timer).                            *)
(***************************************************************************)
EXTENDS Integers, Sequences, FiniteSets

CONSTANTS
    Drivers,        \* those looked at: of "irq", "timer", "button", "dt",
                    \* "mmio", "controller"
    Users,          \* processes that write /proc/lll-gpio
    Pins,           \* what they write: pin numbers, ...
    MaxLoads,       \* bounds: how often the driver is loaded, ...
    MaxSamples,     \* ... how often the button is read, ...
    MaxWrites       \* ... and how many writes there are

ASSUME BoundsAssumption ==
    /\ Drivers \subseteq {"irq", "timer", "button", "dt", "mmio", "controller"}
    /\ Pins \subseteq Nat
    /\ MaxLoads \in Nat /\ MaxSamples \in Nat /\ MaxWrites \in Nat

\* The callbacks that are not writes.
Callbacks == {"irq", "timer", "port", "hrtimer", "tasklet", "sensor"}

ASSUME UsersAssumption == Users \cap Callbacks = {}

VARIABLES
    driver,
    phase,          \* out, loading, failing, live or exiting
    todo,           \* what is left of the script
    loads,
    held,           \* resources
    armed, running, \* sources of callbacks
    overlap,        \* history: two ran together that nothing keeps apart
    \* the button
    debounce,       \* debounce_button1, 2 and 3
    last,           \* last_button_state
    led,
    samples,        \* history: what was read since the statics were set
    since,          \* history: how many when the LED was switched off
    \* the GPIO registers
    data_buffer,    \* what the latest write has put there
    at,             \* where each user stands
    line,           \* its parsed line
    val,            \* its copy of a function select register
    outputs,        \* the pins whose function is output
    high,           \* the pins that are set
    wrote,          \* history: the levels written, as the callers know it
    writes

scriptVars == <<driver, phase, todo, loads>>
sourceVars == <<held, armed, running, overlap>>
buttonVars == <<debounce, last, led, samples, since>>
userVars == <<at, line, val, writes>>
gpioVars == <<data_buffer, userVars, outputs, high, wrote>>
vars == <<scriptVars, sourceVars, buttonVars, gpioVars>>

Sources == Callbacks \cup Users
Resources == {"button", "led", "gpio_base", "port", "request"}

PRESSED == 0
RELEASED == 1
AllPins == 0 .. 53

-----------------------------------------------------------------------------
(* Scripts *)

\* Calls that may fail, with what the error path does then; `output' also sets
\* the LED off.
Get(r, undo) == [op |-> "get", of |-> {r}, undo |-> undo]
Check(undo) == [op |-> "get", of |-> {}, undo |-> undo]
Output(undo) == [op |-> "output", of |-> {"led"}, undo |-> undo]
Request(S, undo) == [op |-> "request", of |-> S, undo |-> undo]
\* Calls that do not fail.
Arm(S) == [op |-> "arm", of |-> S, undo |-> <<>>]
Put(r) == [op |-> "put", of |-> {r}, undo |-> <<>>]
Stop(S) == [op |-> "stop", of |-> S, undo |-> <<>>]    \* with waiting
Del(S) == [op |-> "del", of |-> S, undo |-> <<>>]      \* without

IrqInit == <<Get("button", <<>>), Request({"irq"}, <<Put("button")>>)>>
IrqExit == <<Stop({"irq"}), Put("button")>>

TimerInit == <<Arm({"timer"})>>
TimerExit == <<Del({"timer"})>>

\* gpio_request and gpio_direction_input of the button, gpio_request and
\* gpio_direction_output of the LED (both of whose error paths free the LED's GPIO
\* and not the button's), timer.
ButtonInit ==
    <<Get("button", <<>>), Check(<<Put("button")>>), Get("led", <<Put("led")>>),
      Output(<<Put("led")>>), Arm({"timer"})>>
ButtonExit == <<Put("button"), Put("led"), Del({"timer"})>>

\* The properties are checked first; gpiod_get of the LED switches it off.
DtProbe ==
    <<Check(<<>>), Get("button", <<>>), Output(<<Put("button")>>), Arm({"timer"})>>

\* Mutant of DtRemove: the LED is kept.
DtRemoveKeepsLed == <<Put("button"), Stop({"timer"})>>

DtRemove == <<Put("button"), Put("led"), Stop({"timer"})>>

MmioInit == <<Get("gpio_base", <<>>), Request(Users, <<Put("gpio_base")>>)>>

\* Mutant of MmioExit: the registers are unmapped first.
MmioExitUnmaps == <<Put("gpio_base"), Stop(Users)>>

MmioExit == <<Stop(Users), Put("gpio_base")>>

\* eMBRTUStart: the start-up silence is timed, then the receiver called back.
ModbusStart == <<Arm({"hrtimer"}), Arm({"port"})>>

\* modbus_controller_probe: open the port, start Modbus, populate the sensors; if
\* that fails the port alone is closed.
ControllerProbe ==
    <<Get("port", <<>>)>> \o ModbusStart
      \o <<Check(<<Stop({"port"}), Put("port")>>), Arm({"sensor"})>>

\* modbusMasterDestroy, eMBRTUStop and vMBPortEventDeinit.
ModbusDestroy == <<Put("request"), Stop({"hrtimer"}), Stop({"tasklet"})>>

\* ModbusDestroy and serdev_device_close; devres removes the sensors after that,
\* without waiting for their readers.
ControllerRemove ==
    ModbusDestroy \o <<Stop({"port"}), Put("port"), Del({"sensor"})>>

InitScript(d) ==
    CASE d = "irq" -> IrqInit [] d = "timer" -> TimerInit
      [] d = "button" -> ButtonInit [] d = "dt" -> DtProbe
      [] d = "mmio" -> MmioInit [] d = "controller" -> ControllerProbe

ExitScript(d) ==
    CASE d = "irq" -> IrqExit [] d = "timer" -> TimerExit
      [] d = "button" -> ButtonExit [] d = "dt" -> DtRemove
      [] d = "mmio" -> MmioExit [] d = "controller" -> ControllerRemove

-----------------------------------------------------------------------------
NoLine == [pin |-> 0, value |-> 0]
Lines == [pin : Pins, value : 0 .. 2]

TypeOK ==
    /\ driver \in Drivers
    /\ phase \in {"out", "loading", "failing", "live", "exiting"}
    /\ phase \in {"out", "live"} => todo = <<>>
    /\ loads \in 0 .. MaxLoads
    /\ held \subseteq Resources
    /\ armed \subseteq Sources /\ running \subseteq Sources
    /\ overlap \in BOOLEAN
    /\ debounce \in [1 .. 3 -> {PRESSED, RELEASED}]
    /\ last \in {PRESSED, RELEASED} /\ led \in 0 .. 1
    /\ samples \in Seq({PRESSED, RELEASED})
    /\ Len(samples) <= MaxSamples /\ since \in 0 .. Len(samples)
    /\ data_buffer \in Lines \cup {NoLine}
    /\ at \in [Users -> {"idle", "copied", "parsed", "read"}]
    /\ line \in [Users -> Lines \cup {NoLine}]
    /\ val \in [Users -> SUBSET AllPins]
    /\ outputs \subseteq AllPins /\ high \subseteq AllPins
    /\ writes \in 0 .. MaxWrites

Init ==
    /\ driver \in Drivers
    /\ phase = "out" /\ todo = <<>> /\ loads = 0
    /\ held = {} /\ armed = {} /\ running = {} /\ overlap = FALSE
    /\ debounce = [n \in 1 .. 3 |-> RELEASED] /\ last = PRESSED /\ led = 0
    /\ samples = <<>> /\ since = 0
    /\ data_buffer = NoLine
    /\ at = [u \in Users |-> "idle"]
    /\ line = [u \in Users |-> NoLine]
    /\ val = [u \in Users |-> {}]
    /\ outputs = {} /\ high = {}
    /\ wrote = <<>>
    /\ writes = 0

\* The module is loaded, or a device is bound.  The statics are set when a module
\* is loaded, not when the device of "dt" is bound again.
Load ==
    /\ phase = "out" /\ armed = {} /\ running = {} /\ loads < MaxLoads
    /\ phase' = "loading"
    /\ todo' = InitScript(driver)
    /\ loads' = loads + 1
    /\ \/ /\ debounce' = [n \in 1 .. 3 |-> RELEASED] /\ last' = PRESSED
          /\ samples' = <<>> /\ since' = 0
       \/ driver = "dt" /\ UNCHANGED <<debounce, last, samples, since>>
    /\ UNCHANGED <<driver, led, sourceVars, gpioVars>>

\* The next call of init succeeds, ...
Proceed ==
    /\ phase = "loading" /\ todo # <<>>
    /\ LET call == Head(todo)
       IN  /\ held' = IF call.op \in {"get", "output"} THEN held \cup call.of ELSE held
           /\ armed' = IF call.op \in {"arm", "request"}
                       THEN armed \cup call.of ELSE armed
           /\ IF call.op = "output"
              THEN led' = 0 /\ since' = Len(samples)
              ELSE UNCHANGED <<led, since>>
    /\ todo' = Tail(todo)
    /\ UNCHANGED <<driver, phase, loads, running, overlap, debounce, last, samples,
                   gpioVars>>

\* ... or fails, and the error path begins.
Fail ==
    /\ phase = "loading" /\ todo # <<>> /\ Head(todo).op # "arm"
    /\ phase' = "failing"
    /\ todo' = Head(todo).undo
    /\ UNCHANGED <<driver, loads, sourceVars, buttonVars, gpioVars>>

Unload ==
    /\ phase = "live"
    /\ phase' = "exiting"
    /\ todo' = ExitScript(driver)
    /\ UNCHANGED <<driver, loads, sourceVars, buttonVars, gpioVars>>

\* Mutant of Undo: no call waits.
UndoAtOnce ==
    /\ phase \in {"failing", "exiting"} /\ todo # <<>>
    /\ LET call == Head(todo)
       IN  /\ held' = IF call.op = "put" THEN held \ call.of ELSE held
           /\ armed' = IF call.op = "put" THEN armed ELSE armed \ call.of
           /\ overlap' = (overlap \/ (call.op = "del" /\ call.of \cap running # {}))
    /\ todo' = Tail(todo)
    /\ UNCHANGED <<driver, phase, loads, running, buttonVars, gpioVars>>

\* Mutant of Undo: waits until the source is not armed, in place of disarming it.
UndoWaitsForQuiet ==
    /\ phase \in {"failing", "exiting"} /\ todo # <<>>
    /\ LET call == Head(todo)
       IN  /\ call.op = "stop" => call.of \cap (armed \cup running) = {}
           /\ held' = IF call.op = "put" THEN held \ call.of ELSE held
           /\ armed' = IF call.op = "put" THEN armed ELSE armed \ call.of
           /\ overlap' = (overlap \/ (call.op = "del" /\ call.of \cap running # {}))
    /\ todo' = Tail(todo)
    /\ UNCHANGED <<driver, phase, loads, running, buttonVars, gpioVars>>

\* The next call of exit, or of the error path.
Undo ==
    /\ phase \in {"failing", "exiting"} /\ todo # <<>>
    /\ LET call == Head(todo)
       IN  /\ call.op = "stop" => call.of \cap running = {}
           /\ held' = IF call.op = "put" THEN held \ call.of ELSE held
           /\ armed' = IF call.op = "put" THEN armed ELSE armed \ call.of
           /\ overlap' = (overlap \/ (call.op = "del" /\ call.of \cap running # {}))
    /\ todo' = Tail(todo)
    /\ UNCHANGED <<driver, phase, loads, running, buttonVars, gpioVars>>

ScriptEnds ==
    /\ phase \in {"loading", "failing", "exiting"} /\ todo = <<>>
    /\ phase' = IF phase = "loading" THEN "live" ELSE "out"
    /\ UNCHANGED <<driver, todo, loads, sourceVars, buttonVars, gpioVars>>

-----------------------------------------------------------------------------
(* Callbacks *)

\* A callback starts: timers and tasklets are armed for one call.
Fire(s) ==
    /\ s \in armed \ (running \cup Users)
    /\ s = "timer" => Len(samples) < MaxSamples
    /\ running' = running \cup {s}
    /\ armed' = IF s \in {"timer", "hrtimer", "tasklet"} THEN armed \ {s} ELSE armed
    /\ UNCHANGED <<scriptVars, held, overlap, buttonVars, gpioVars>>

Returns(s) == s \in running /\ running' = running \ {s}

\* gpio_irq_handler prints.
IrqHandler ==
    /\ Returns("irq")
    /\ UNCHANGED <<scriptVars, held, armed, overlap, buttonVars, gpioVars>>

\* my_timer_callback of 07_timer arms the timer again.
TimerCallback ==
    /\ driver = "timer"
    /\ Returns("timer")
    /\ armed' = armed \cup {"timer"}
    /\ UNCHANGED <<scriptVars, held, overlap, buttonVars, gpioVars>>

\* Mutant of ButtonCallback: every stable reading "pressed" toggles the LED.
ButtonCallbackRepeats ==
    /\ driver \in {"button", "dt"}
    /\ Returns("timer")
    /\ \E now \in {PRESSED, RELEASED} :
         /\ debounce' = <<now, debounce[1], debounce[2]>>
         /\ samples' = Append(samples, now)
         /\ IF now = debounce[1] /\ debounce[1] = debounce[2]
            THEN last' = now /\ led' = IF now = PRESSED THEN 1 - led ELSE led
            ELSE UNCHANGED <<last, led>>
    /\ armed' = armed \cup {"timer"}
    /\ UNCHANGED <<scriptVars, held, overlap, since, gpioVars>>

\* my_timer_callback of the button: three equal readings are stable, and one that
\* is stably pressed after it was stably released toggles the LED.
ButtonCallback ==
    /\ driver \in {"button", "dt"}
    /\ Returns("timer")
    /\ \E now \in {PRESSED, RELEASED} :
         /\ debounce' = <<now, debounce[1], debounce[2]>>
         /\ samples' = Append(samples, now)
         /\ IF now = debounce[1] /\ debounce[1] = debounce[2]
            THEN /\ last' = now
                 /\ led' = IF now = PRESSED /\ last = RELEASED THEN 1 - led ELSE led
            ELSE UNCHANGED <<last, led>>
    /\ armed' = armed \cup {"timer"}
    /\ UNCHANGED <<scriptVars, held, overlap, since, gpioVars>>

\* The receiver starts T3.5, unless it is in the middle of a frame.
PortReceives ==
    /\ Returns("port")
    /\ armed' \in {armed, armed \cup {"hrtimer"}}
    /\ UNCHANGED <<scriptVars, held, overlap, buttonVars, gpioVars>>

\* T3.5 has expired: an event is posted, unless the receiver was in error.
HrtimerExpires ==
    /\ Returns("hrtimer")
    /\ armed' \in {armed, armed \cup {"tasklet"}}
    /\ UNCHANGED <<scriptVars, held, overlap, buttonVars, gpioVars>>

\* ModbusRun: a request is written to the port, or a reply taken in.
TaskletRuns ==
    /\ Returns("tasklet")
    /\ UNCHANGED <<scriptVars, held, armed, overlap, buttonVars, gpioVars>>

\* A sensor's ModbusSend allocates a request and posts it.
SensorSends ==
    /\ Returns("sensor")
    /\ held' = held \cup {"request"}
    /\ armed' = armed \cup {"tasklet"}
    /\ UNCHANGED <<scriptVars, overlap, buttonVars, gpioVars>>

Callback ==
    \/ IrqHandler \/ TimerCallback \/ ButtonCallback
    \/ PortReceives \/ HrtimerExpires \/ TaskletRuns \/ SensorSends

-----------------------------------------------------------------------------
(* lll_write *)

\* The line is copied to the one buffer of all writers.
CopyLine(u) ==
    /\ u \in armed \ running /\ writes < MaxWrites
    /\ data_buffer' \in Lines
    /\ at' = [at EXCEPT ![u] = "copied"]
    /\ running' = running \cup {u}
    /\ overlap' = (overlap \/ running \cap Users # {})
    /\ writes' = writes + 1
    /\ UNCHANGED <<scriptVars, held, armed, buttonVars, line, val, outputs, high, wrote>>

\* Mutant of ParseLine: the value is checked and the pin is not.
ParseLineUnchecked(u) ==
    /\ at[u] = "copied"
    /\ line' = [line EXCEPT ![u] = data_buffer]
    /\ IF data_buffer.value \in 0 .. 1
       THEN at' = [at EXCEPT ![u] = "parsed"] /\ UNCHANGED running
       ELSE at' = [at EXCEPT ![u] = "idle"] /\ Returns(u)
    /\ UNCHANGED <<scriptVars, held, armed, overlap, buttonVars, data_buffer, val,
                   outputs, high, wrote, writes>>

\* sscanf and the checks: pins up to 53, values 0 and 1.
ParseLine(u) ==
    /\ at[u] = "copied"
    /\ line' = [line EXCEPT ![u] = data_buffer]
    /\ IF data_buffer.pin \in AllPins /\ data_buffer.value \in 0 .. 1
       THEN at' = [at EXCEPT ![u] = "parsed"] /\ UNCHANGED running
       ELSE at' = [at EXCEPT ![u] = "idle"] /\ Returns(u)
    /\ UNCHANGED <<scriptVars, held, armed, overlap, buttonVars, data_buffer, val,
                   outputs, high, wrote, writes>>

\* The pins whose function is in the register of pin p.
SameRegister(p) == {q \in AllPins : q \div 10 = p \div 10}

ReadSelect(u) ==
    /\ at[u] = "parsed"
    /\ val' = [val EXCEPT ![u] = outputs \cap SameRegister(line[u].pin)]
    /\ at' = [at EXCEPT ![u] = "read"]
    /\ UNCHANGED <<scriptVars, sourceVars, buttonVars, data_buffer, line, outputs, high,
                   wrote, writes>>

\* Mutant of WriteSelect: the other pins of the register become inputs.
WriteSelectClears(u) ==
    /\ at[u] = "read"
    /\ LET p == line[u].pin
       IN  /\ outputs' = (outputs \ SameRegister(p)) \cup {p}
           /\ high' = IF line[u].value = 1 THEN high \cup {p} ELSE high \ {p}
           /\ wrote' = [q \in DOMAIN wrote \cup {p} |->
                          IF q = p THEN line[u].value ELSE wrote[q]]
    /\ at' = [at EXCEPT ![u] = "idle"]
    /\ val' = [val EXCEPT ![u] = {}]
    /\ Returns(u)
    /\ UNCHANGED <<scriptVars, held, armed, overlap, buttonVars, data_buffer, line,
                   writes>>

\* The function of the pin is set to output in the copy, which is written back;
\* GPSET or GPCLR then sets the level of this pin alone.
WriteSelect(u) ==
    /\ at[u] = "read"
    /\ LET p == line[u].pin
       IN  /\ outputs' = (outputs \ SameRegister(p)) \cup val[u] \cup {p}
           /\ high' = IF line[u].value = 1 THEN high \cup {p} ELSE high \ {p}
           /\ wrote' = [q \in DOMAIN wrote \cup {p} |->
                          IF q = p THEN line[u].value ELSE wrote[q]]
    /\ at' = [at EXCEPT ![u] = "idle"]
    /\ val' = [val EXCEPT ![u] = {}]
    /\ Returns(u)
    /\ UNCHANGED <<scriptVars, held, armed, overlap, buttonVars, data_buffer, line,
                   writes>>

WriteStep(u) == ParseLine(u) \/ ReadSelect(u) \/ WriteSelect(u)

-----------------------------------------------------------------------------
ScriptStep == Proceed \/ Fail \/ Undo \/ ScriptEnds

Next ==
    \/ Load \/ Unload \/ ScriptStep
    \/ \E s \in Sources : Fire(s)
    \/ Callback
    \/ \E u \in Users : CopyLine(u) \/ WriteStep(u)

Spec == Init /\ [][Next]_vars

\* A callback that runs ends; init and exit go on, and a call that waits for a
\* callback finds it not running some time, however often it runs.
FairSpec ==
    /\ Spec
    /\ WF_vars(IrqHandler \/ TimerCallback \/ ButtonCallback)
    /\ WF_vars(PortReceives) /\ WF_vars(HrtimerExpires) /\ WF_vars(TaskletRuns)
    /\ WF_vars(SensorSends)
    /\ \A u \in Users : WF_vars(WriteStep(u))
    /\ SF_vars(ScriptStep)

-----------------------------------------------------------------------------
(* Properties *)

Uses(s) ==
    CASE s = "timer" -> IF driver = "timer" THEN {} ELSE {"button", "led"}
      [] s \in {"port", "tasklet"} -> {"port"}
      [] s \in Users -> {"gpio_base"}
      [] OTHER -> {}

\* A callback that runs has the GPIOs, registers and port it works on.  Of the
\* drivers that put them before they stop their callbacks (timer_button.c:106,
\* dt_button.c:167, modbuscontroller.c:119) this is so until they exit, and of the
\* controller until its probe fails.
CallbackHasWhatItUses ==
    phase \in {"loading", "live"} \/ driver \in {"irq", "timer", "mmio"} =>
      \A s \in running : Uses(s) \subseteq held

\* What exit still has to stop.
ToStop == UNION {todo[n].of : n \in {m \in DOMAIN todo : todo[m].op \in {"stop", "del"}}}

\* A source that was stopped stays stopped: no callback of it runs or is due when
\* the module is gone.  With del_timer this is so if no callback was running
\* (my_timer.c:53, timer_button.c:108, gpio_irq.c:52, dt_button.c:170, hello_mmio.c:157).
StoppedStaysStopped ==
    phase \in {"exiting", "out"} /\ driver # "controller" /\ ~overlap =>
      (armed \cup running) \subseteq ToStop

\* The same of the controller's timer: timer_remove makes sure that it "is stopped
\* and cannot trigger again" (modbuscontroller_timer.c:108).
TimerCannotTriggerAgain ==
    phase = "exiting" /\ driver = "controller" /\ "hrtimer" \notin ToStop =>
      "hrtimer" \notin armed

\* A driver that is not loaded, or failed to load, holds nothing, but for the
\* button's, whose last error paths keep a GPIO (timer_button.c:79, :86), and for the
\* request of a sensor that sends after ModbusDestroy has freed it (modbus.c:301).
NothingHeldOutside == phase = "out" /\ driver # "button" => held \subseteq {"request"}

\* The reading with number n ends a stable stretch: so do the two before it, where
\* those before the first count as released.
Sample(n) == IF n < 1 THEN RELEASED ELSE samples[n]
Stable(n) == Sample(n) = Sample(n - 1) /\ Sample(n - 1) = Sample(n - 2)

\* A press: stably pressed when the latest stable reading before was released.
Press(n) ==
    /\ Stable(n) /\ Sample(n) = PRESSED
    /\ \E m \in 1 .. n - 1 :
         /\ Stable(m) /\ Sample(m) = RELEASED
         /\ \A k \in m + 1 .. n - 1 : ~Stable(k)

\* The LED is on after an odd number of presses, however the contacts bounce and
\* whatever a device bound before has left (timer_button.c:41-49, dt_button.c:45-53).
LedCountsPresses ==
    phase \in {"live", "exiting"} =>
      led = Cardinality({n \in since + 1 .. Len(samples) : Press(n)}) % 2

\* Each pin a write was accepted for is an output and has the level last written, if
\* writes do not overlap (hello_mmio.c:28-60, :84-117).
PinsAreDriven ==
    ~overlap => \A p \in DOMAIN wrote : p \in outputs /\ (wrote[p] = 1 <=> p \in high)

\* Exit ends, though the callback it waits for arms itself again.
ExitEnds == phase = "exiting" ~> phase = "out"

=============================================================================
