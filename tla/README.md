# Verification of the Raspberry Pi 4 kernel modules

TLA+ specifications of the kernel modules in this repository, the TLC runs that
check them on small instances, and the theorems about them that TLAPS proves.
The core is the Modbus RTU driver in `17_modbus_rtu`: a serial port, a timer, a
tasklet and any number of reading processes share one bus and one set of
file-scope variables, almost none of it under a lock.  Around it are the drivers of
the other directories: character devices, platform drivers, buttons and timers,
GPIO registers and a USB device.

## The system

| Part | Source | State | Operations |
| --- | --- | --- | --- |
| Sensor reads and cache | `modbus_device/modbusdevice_syscalls.c` | `buffer`, `previous_read`, `inval_sampl`, `timeout` of each sensor | `modbus_read`, `modbus_read_value` (behind the sysfs values), `interval_store`, `timeout_store`, `modbus_write`, `modbus_llseek`, `modbus_open` |
| Sensor driver | `modbus_device/modbusdevice.c` | `total_devices`, device numbers, private data | probe, remove, module init and exit |
| Master, application layer | `modbus_rtu/modbus.c` | `master_lock`, `master` (request PDU), `ucMBAddress`, `usRspone`, `ubRspLength`, `pucMBFrame`, `master_state`, `send_wait_queue` | `ModbusSend`, `ModbusReceive`, `eMBMasterPoll`, init, start, destroy |
| Event slot | `modbus_rtu/port_event.c` | `xEventInQueue`, `eQueuedEvent`, `mb_tasklet` | post, get |
| RTU link layer | `modbus_rtu/mbrtu.c` | `eRcvState`, `ucRTUReBuf`, `usRcvBufferPos` | receive FSM, T3.5 expiry, send, receive |
| Serial and timer glue | `modbuscontroller.c`, `modbuscontroller_timer.c` | `receive_buff`, `length`, `my_hrtimer` | probe, remove, recv, read, write, timer start and cancel |
| LightModbus, CRC | `lightmodbus/`, `mbcrc.c` | request PDU, its buffer | build a request, parse a reply, pack and unpack a frame, two CRC-16 |
| Pseudo character devices | `03_hello_cdev`, `14_platform_driver`, `15_pcd_mutiple`, `16_pcd_platform_dt` | device buffers, file positions | llseek, read, write, open, probe, remove |
| Earlier sensor driver and templates | `18_mod_sysfs`, `pcd_template` | as the sensor driver | as the sensor driver |
| Timers and buttons | `06_gpio_irq`, `07_timer`, `08_timer_with_button`, `10_button_with_dt` | timer, debounce history, LED | callback, init, exit, probe, remove |
| USB skeleton | `12_usb_client_driver` | `limit_sem`, `io_mutex`, error latch, read buffer, `kref` | open, release, read, write, flush, URB callbacks, probe, disconnect, suspend, reset |
| GPIO by MMIO | `11_ledblink_by_mmio` | GPIO registers, the static parse buffer | write of the /proc entry, init, exit |
| UART drivers | `13_uart_driver` | | a copy of the kernel's PL011 driver, a stub, an echo |
| First examples | `01`, `02`, `04`, `09` | | registration only |

How the core's parts interact:

    process: read() or a sysfs show           modbusdevice_syscalls.c
       | ModbusSend, then ModbusReceive
    master_lock, request, wait queue          modbus.c
       | EV_MASTER_SEND_REQUEST      ^ wake_up_interruptible
    one-slot event queue, tasklet             port_event.c
       | eMBRTUSend                  ^ EV_FRAME_RECEIVED, EV_READY
    receiver FSM  <- serdev worker    T3.5 hrtimer interrupt
                       mbrtu.c, modbuscontroller.c, modbuscontroller_timer.c
       |                             ^
    UART, RS-485 line, slaves                 (not part of the repository)

A process sleeps in `ModbusSend` while the tasklet sends its request.  The serdev
worker collects the reply, the timer interrupt declares it complete, and the
tasklet checks and copies it and wakes the process, which parses it.  Four kinds
of actors run at the same time: processes, the tasklet, the timer interrupt and
the serdev worker.  `ENTER_CRITICAL_SECTION` is empty, so the only mutual
exclusion is `master_lock` between processes, and that a tasklet never runs on
two processors at once.

What makes it hard: the four actors interleave at every shared variable; one
event slot serves three posters; a timeout, a signal or a late reply ends a
transaction in the middle; the reply is fetched in a second call outside the
lock; the cache tests its interval before the bus is taken and stamps itself
after; a sampling of several registers fails half way.  `PROJECT.json` lists the
hazards, each at its line, with the properties aimed at it.

What would make each part correct:

- master: a transaction's data belong to one caller; the value of a successful
  call answers that call's request; no wake-up is lost; every call returns;
- event slot: no event is overwritten that somebody waits for;
- receiver: the buffer is never overrun; a frame is delivered whole and alone;
  a frame that has begun is ended;
- cache: a read is fresh and complete or fails; the stamp never claims more than
  was sampled; the buffer has the newest value of each register; the bus is used no
  more often than the interval says (it is, see below); reads end;
- device drivers: an opened device has its data; minors are unique; an error
  path undoes what was done and nothing else; teardown stops what may call in;
- LightModbus: a slave understands every request; a reply yields the values it
  carries, all of them and no others; a damaged frame is noticed;
- USB: the write limit is given back once; nothing is submitted after disconnect;
  the device lives as long as it is used; bytes are read once and in order;
- buttons and GPIO: a press is counted once; a pin that was written stays driven.

## The modules

| Module | Models |
| --- | --- |
| `SerialBus` | What `ModbusSend` and `ModbusReceive` promise a driver: turns on a bus, an answer buffer that is emptied when a turn begins and can only receive the answer to that turn's question |
| `ModbusMaster` | `modbus.c`, `port_event.c` and, a frame at a time, `mbrtu.c` |
| `RtuReceiver` | The receiving half of `mbrtu.c` with its serial and timer glue, a character at a time |
| `DeviceProbe` | Probe with its error path, remove, module init and exit, open and close of five platform drivers (`14`, `16`, `17`, `18`, `pcd_template`) |
| `CharFile` | Files over a fixed buffer, in six drivers (`03`, `05`, `15`, `17`, `18`, `pcd_template`), and the life of the modules of `03`, `05` and `15` |
| `SensorCache` | `modbus_read`, `modbus_read_value` and the interval commands, over `SerialBus` |
| `Crc16` | `usMBCRC16` with its two tables, `modbusCRC` bit by bit |
| `LightModbus` | Builders, parsers and RTU framing of the library, as operators on sequences of bytes |
| `ModbusExchange` | One request and its reply on the line, byte for byte, with a slave and a line that may err |
| `UsbSkel` | `usb-skeleton.c`: files, URBs and the hub thread of one device |
| `Lifecycle` | init and exit against callbacks, in `06`, `07`, `08`, `10`, `11` and the controller of `17`; the debouncing of `08` and `10`; the register writes of `11` |
| `MC...` | Instances of these for TLC |
| `..._proofs` | Theorems and proofs |

`ModbusMaster` implements `SerialBus` (property `ImplementsSerialBus`), and
`SensorCache` is built on `SerialBus`, so the cache is checked against what the
master has been shown to provide in its orderly regime.  `ModbusExchange` is built
on `LightModbus`, and that on `Crc16`; it has the bytes that `ModbusMaster` leaves
out, and leaves out the actors that `ModbusMaster` has.

### ModbusMaster

One action per stretch of code between two accesses to memory that another actor
writes.  A caller's `pc` walks through `ModbusSend` (`Lock`, `Build`, `Prepare`,
`PostFlag`, `PostEvent`, `Check`, `Wake` or `Timeout`, `Parse`, `Out`) and then
`ModbusReceive`; `tasklet` walks through `eMBMasterPoll` (`TaskletGet`,
`TaskletClear`, then `PollReady`, `PollSend` and `PollSent`, or `PollFrame`,
`CheckCrc`, `CopyFrame`, `AcceptFrame`, `WakeUp`); `T35PostFlag` and
`T35PostEvent` are the timer interrupt; `ReceiveFrame` is the serdev worker.
Variables carry the names of the source.

Data: the n-th call builds request n and a reply to it carries n, so a property
can say whose answer a value is; the code sees neither.  A frame that fails its
CRC is of kind "garbage".  The address read back when `eMBRTUReceive` fails is an
uninitialised local variable, here any address.  What `modbusParseResponsePDU`
makes of a PDU is `ParseResult`: it compares neither address nor register, it
takes an exception frame for a success without values, and it rejects an empty
PDU.  A request that was never built (`nomem`) gets no reply.

What the environment may do is the constant `Faults`; the header of the module
explains each fault.  Left out: the bytes of PDUs and frames, `EV_FRAME_SENT`
(its callback is commented out of `modbus_controller_ops`), function codes other
than 3 and quantities other than 1 (no caller uses them), and
`ModbusInit`; `ModbusStart` and `ModbusDestroy` are in `Lifecycle`.

### RtuReceiver

A tick is the time of one character.  The UART hands over its characters when
`Trigger` are waiting or the line has been idle for `RxTimeout` ticks.  `Recv` is
`modbus_controller_recv` up to the FSM's read, with the wrap of its 8-bit length
(`Stored`); `FsmRestart`, `FsmFirst`, `EnterRcv`, `StartTimer`, `FsmMore`,
`EndMore` are `xMBRTUReceiveFSM`; `Expire` and `EnterIdle` are
`xMBRTUTimerT35Expired`.  `kernel` is chosen once: "prompt" runs the worker and
the interrupt at once and one after the other, "preempting" delays and overlaps
them as it likes.

### SensorCache

`Begin` copies `previous_read`, `Decide` takes the time and tests the interval,
`Send`, `Transact` and `Return` are `ModbusSend`, `Receive` is `ModbusReceive`
into `buffer[i]` with the loop, `Stamp` writes `previous_read`, `Show` hands the
buffer out.  The sysfs and the `/dev` path do the same and share the actions.
Time is discrete.  Two history variables serve the properties: `sampled` is the time
of the latest request for each register that succeeded, and `given` that of the
latest that brought a value and not a refusal, since a slave may answer with an
exception frame, which is a success without a value.  `oldest` remembers what
freshness the reader's interval asks for.

`regime` is chosen once.  In "shared" readers overlap; in "alone" one read is under
way at a time, on a bus nobody else uses, and `NewestIsKept` is claimed there.
Intervals are written between reads in the regimes `Tunable` names.  `Horizon` bounds
the clock of each regime.

`pm10_show` prints `buffer[3]`, one past the third register
(`modbusdevice_syscalls.c:182`).  Its attribute exists with `CONFIG_PM10` only
(`modbusdevice.c:32`, `:87`, `:302`), which nothing in the repository defines; `Show`
hands out the registers the sensor has.

Two things are assumed that the driver does not do at this commit.  Probe allocates
the buffer with `num_val` still 0 (`modbusdevice.c:254-255`), so the real buffer
has no room at all; and it creates the node before it sets `num_val` (`:278`, `:296`),
so a read in between samples no register and stamps the buffer all the same.  The
cache is modelled with room for `num_val` readings and with `num_val` set from the
start, which is what the code that uses it relies on; the order of probe's steps is in
`DeviceProbe` (`AllocBuffer`, `CreateValues`).  The attribute `co_value`
is declared with `slave_address_show` (`modbusdevice.c:84`), so it shows the slave's
address and never samples, where `USERGUIDE.txt:214` says it takes the read path;
the sysfs path of the model is that of the PM values.

### Crc16, LightModbus and ModbusExchange

The two checksums are written as the code computes them: `modbusCRC` shifts and adds
0xA001 (`ShiftByte`), `usMBCRC16` looks a byte up in `aucCRCHi` and `aucCRCLo`
(`LookUpByte`).  That they are one function is not assumed, it is a theorem
(`ChecksumsAgree`): the exchange signs with one and checks with the other, in both
directions.  Recursion is by functions of one argument that have functions as values, so
that it can be reasoned about.

In `LightModbus` a builder is an error (`BuildError`) or a PDU (`Built`), and a
parser is an error or a list of what the data callback is called with, in the order
of the tests in the code, 8-bit lengths (`U8`) included.  What is read past the end of
a reply would be whatever the buffer holds; `ByteAt` gives 0 for it, and each item of
data carries `at`, the last byte read for it, so that `DataIsTheReplys` can say that
none is.

`ModbusExchange` is one round: `Build`, `Send`, the slave's answer, `Damage`, `Receive`,
`Return`.  `padding` is 0 when the link layer frames the request (`eMBRTUSend`,
`eMBRTUReceive`) and 3 when the library does (`modbusPackRTU`,
`modbusParseResponseRTU`); the driver uses the first.  The slave is external.  It
answers as the protocol asks, with an exception, or with one of `OddReplies`: cut,
too long, of another function, size or index; in the library's mode another slave may
answer.  `Meant` and `Understood` are the reference for requests, `reply.values` for
replies.

### UsbSkel

One action per stretch between two accesses to shared state; `pc` says where each
process and the hub thread stand, and its labels are named for what comes next.

| Code | Labels and actions |
| --- | --- |
| `skel_open`, `skel_release` | `Open`, `Release` |
| `skel_write` | `w_down` `TakePermit`, `w_errors` `CheckErrors`, `w_clear`, `w_alloc` `Allocate`, `w_lock`, `w_submit` `Submit`, `w_unanchor`, `w_up` `GiveBack` |
| `skel_read` | `r_lock`, `r_enter`, `r_loop`, `r_wait`, `r_errors`, `r_clear`, `r_data` `ReadData`, `r_io`, `r_submit` |
| `skel_flush`, `skel_pre_reset`, `skel_suspend` | `skel_draw_down` is `Drain`, `KillWrites`, `KillRead`, with `back` saying where it returns to |
| `skel_probe`, `skel_disconnect`, `skel_post_reset` | the hub thread's labels |
| URB callbacks | `CompleteWrite`, `CompleteRead`, at any time |

`submitted` counts write URBs in flight, `reading` is what the read URB was
submitted for.  `given` and `shown` number the bytes, so that `BytesOnce` can tell a lost
byte from a repeated one.  A signal may end each wait that a signal can end (`Signal`).
The endpoints are disabled (`attached`) before `skel_disconnect` runs, and URBs on them
are given back.  Abstracted: the bytes written, the DMA buffers, minor numbers.

### Lifecycle

What init and exit do is a script, a sequence of calls that get or put a resource, arm
a source of callbacks or stop it (`IrqInit`, `ButtonExit`, `ControllerRemove`, ...), and
a call that may fail carries its error path.  `Proceed`, `Fail` and `Undo` do the next
call.  `Fire` starts a callback of a source that is armed; each callback has its own
action that ends it and may arm sources.  `stop` waits until the callback does not run,
`del` (`del_timer`, and devres on the sensors) does not.

In `08` and `10` the callback reads the button: `ButtonCallback` is the debouncing, with the
static variables that keep their values when a device of `10` is bound again.  In `11` a
write is `CopyLine` to the static buffer, `ParseLine`, `ReadSelect` and `WriteSelect`: two
writers meet in the buffer and in the function-select register.  `overlap` remembers
that two ran together that nothing keeps apart, or that a timer was deleted under its
callback.

### DeviceProbe

The five drivers are one design copied, so they are one module with the variable
`driver`, and each definition is mapped to one of the copies.  A device is a
thread: `pc[d]` names the step of probe it is about to take, the label of the error
path it has jumped to, or the step of remove.

| Code | Action |
| --- | --- |
| module init | `AllocRegion`, `CreateClass`, `Register`, each of which may fail |
| probe | `Probe`, `GetPlatformData`, `AllocPrivate`, `AllocBuffer`, `TakeNumber`, `CdevAdd`, `DeviceCreate`, `CreateAttribute`, `CreateValues`, `LoadCount`, `StoreCount`; `Then` is their order |
| labels `dev_destroy`, `cdev_del`, `out` | `DeviceDestroy`, `CdevDel`, `ProbeFails` |
| remove | `DeviceDestroy`, `CdevDel`, `LoadLess`, `StoreLess`, `Removed` |
| module exit | `ExitBegins`, `Detach`, `ExitEnds` |
| `modbus_open`, `modbus_release` | `Open`, `Close` |

`total_devices++` and `--` are two steps each, because no lock protects them.  What
the drivers differ in is in the actions: where the number comes from
(`TakeNumber`), whether attributes follow the node (`WithAttributes`), when the
buffer's size is known (`AllocBuffer`), and that `16` names the node by an
uninitialised `match` when the device is not from a device tree (`DeviceCreate`:
"dead", the probe never ends).

Four things are the kernel's, and modelled as the drivers use them: `cdev_add`
accepts a second cdev for a number and `device_create` does not; the newest cdev of
a number is the one opened and the one deleted; an open file holds the module
(`.owner`), not the device; what `devm_` functions allocated is freed when probe
fails or remove returns.

`world` is chosen once.  At "boot" devices are probed one after the other and
removed by `rmmod` only, which `driver_detach` does last one first; that is how the
READMEs deploy the drivers.  In "hotplug" devices are bound and unbound by overlays,
sysfs or the exit of `pcd_device_setup.c`, at any time and side by side.

### CharFile

The six drivers copy one another's `llseek`, `read` and `write`, so they are one
module with the variable `driver`.  A process is a thread in a system call: `StartIO`
takes a copy of the position and clips the count, `CopyDone` or `CopyFails` is the
copy, `FinishIO` adds the count and lets the kernel store the position; `Seek` stores
the position.  A file may have several
users.  The kernel takes `f_pos_lock` for regular files and directories only, so
for these files nothing orders the steps of two users.  `own` is FALSE for `pread`
and `pwrite`.  The unsigned arithmetic is kept where it matters: `max_size - *f_pos`
at a position past the end is negative here, and is the huge count that
`copy_to_user` refuses.  `Size` is the limit the calls compare with.  It is the room
in the buffer, too, except for `17`, whose buffer has none (see above): nothing is
claimed of the bytes that its reads touch.

`step` is where module init or exit is: each call of the kernel that may fail is a
step (`AllocRegion`, `CreateClass`, `CdevAdd`, `DeviceCreate`, `RegisterChrdev`), and
so is each that undoes one (`DestroyNode`, `DeleteCdev`, `DestroyClass`,
`UnregisterRegion`), in the order of the labels and, with `exiting`, of module exit.
`index` is the `i` of `15`.  `ret` follows what init returns: `15` and `03` return
`PTR_ERR` of a pointer that is still NULL ("zero": the module stays loaded with
nothing registered) or, in `15`, of an address ("garbage": it stays or not).  A
module freed under an open file ends the behaviour.

Abstracted: the bytes (the four devices of `15` share `device_buffer[0]`, so what one
is given the others show), and of `modbus_read` the sampling, which is `SensorCache`.
`18` never sets `perm` (0, from `devm_kzalloc`), where `modbusdevice_sysfs.h:119` says it
is read and write: `PermOf` is "unset" there and no open succeeds.

## The runs

| Run | Expect | Shows |
| --- | --- | --- |
| `MCMasterFaults` | pass | `HolderOwnsRequest`, `NoLostWakeup`, `FailurePublishesNothing` under every fault at once |
| `MCMasterOrderly` | pass | `RightAnswer`, `AcceptOnlyWhenWaiting`, `ImplementsSerialBus`, `CallsReturn`, `AnsweredCallsSucceed` when timeouts outlast replies and the tasklet is faster than the gap between frames |
| `MCMasterBadReply` | violation | `BadReplyIsError`: a reply with a bad CRC or a foreign address ends in success |
| `MCMasterReceive` | violation | `ReceivesOwnAnswer`: two callers, no fault, and one gets the other's value |
| `MCRtu` | pass | `BufferBound` for every kernel; `OnlyWholeFrames`, `EveryFrameReported` for a prompt one |
| `MCCache` | pass | `StampIsBacked`, `FreshAnswer`, `ReadsReturn` for two readers of one sensor, overlapping or not; `NewestIsKept` for one at a time |
| `MCChar` | pass | `AllOrNothing`, `LoadingEnds` for every driver; `PositionInRange` for all but `17`; `FilesHoldModule` for drivers with an owner and a single device |
| `MCDevice` | pass | `UnloadLeavesNothing` in both worlds; `MapIsLive`, `NodeOpensItsDevice` at boot and for numbers from `pdev->id`; `NumbersAreDense`, `FilesAreBacked` at boot |
| `MCUsb` | pass | `PermitsConserved`, `DeviceOutlivesUse`, `NothingAfterDisconnect`, `QuietAfterDrawDown`, `BytesOnce`, `DisconnectReleasesAll` |
| `MCLife` | pass | `CallbackHasWhatItUses`, `StoppedStaysStopped`, `NothingHeldOutside`, `LedCountsPresses`, `PinsAreDriven`, `ExitEnds`, each for the drivers it holds of |
| `MCLifeTimer` | violation | `TimerCannotTriggerAgain`: the port arms the controller's timer again after it was cancelled |
| `MCExchange` | pass | `RequestIsUnderstood`, `ReplyIsUnderstood`, `DataIsTheReplys`, `DamageIsNoticed` |

The type invariants, and `AccessInBounds`, `NodesAreServed` and `RcvIsTimed`, are
theorems and are not checked again by a run.

Every property of a passing run comes with a mutant in `PROJECT.json`: a change
of one mapped definition, of the kind a slip in the C code would make, that TLC
finds to break it.  The mutated forms stand before the definitions they replace.

### Bounds

- `MCMasterFaults`: two callers and two slaves are the fewest with contention and
  a foreign address; two calls let the leftovers of one transaction (a late
  frame, a stale PDU, a stale state) meet the next one.  Callers and slaves are
  symmetric.
- `MCMasterOrderly`: four calls of two callers, one slave; without foreign
  replies a second address adds nothing.  No symmetry, because of liveness.
- `MCRtu`: 256 becomes 8 and the times keep the order RxTimeout < T3.5 < gap of
  the real line.  Frames of 3 and 4 characters are handed over by timeout and by
  trigger level; three frames let a preempting kernel run them together, fill the
  buffer and reach STATE_RX_ERROR and leave it.
- `MCCache`: two readers, two registers: one reader can overtake the other between
  any two of its registers, a failure can leave a half-sampled buffer, and a refusal
  of either register an older value.  Three points in time are two expiries of the
  longer interval, and `interval_store` may change the interval at any moment (`Tunable`);
  for overlapping readers two points and fixed intervals are enough, as a stamp can then
  be older and younger than a request.
- `MCChar`: two processes, of which both use one file and the first has another of
  its own.  A buffer of one byte has the positions inside (0), at the end (1) and past
  it (2, for `pread` and for a command of two bytes); counts of 0, 1 and 2 end before,
  at and past the end.  Two devices, one read-only and one write-only, are enough for
  init to fail after it made a device.
- `MCDevice`: four devices, two from a device tree (symmetric) and two registered
  from C with the ids 0 and 1, so that every driver has at least two; three probes
  are a device bound, one bound after it, and a third that meets what the others
  left or a device that comes back.  One file is enough, as files do not meet.
  "template" is left out: its steps are those of "dt" without "dead".
- `MCUsb`: two processes, one of them non-blocking, so that there is a waiter and one that
  turns away; one write in flight makes the second wait for a permit.  A buffer of
  two bytes and reads of one and three end before, at and past what a transfer brought;
  three bytes are two transfers.  Four calls let an error latched by one be met by the
  next while a flush or a disconnect is under way.
- `MCLife`: every driver; ten readings of the button are two presses, or one and its release
  while the contacts bounce; pins
  8 and 9 share a function-select register, 12 has another, 54 does not exist; the two
  writes may overlap or not; two loads meet what the first has left.
- `MCLifeTimer`: the controller, loaded once.
- `MCExchange`: each function at each of its limits and just past them, at the end of the
  register space, and one it does not know; coil counts that fill bytes and that do not; two
  contents of the slave; one or two neighbouring bytes of the reply changed, at the
  beginning, in the middle and in the checksum.

A character device stops when its module was freed under an open file.
The drivers may stop when the `MaxProbes` probes are over (or a probe is dead), the
master may stop when all `MaxCalls` calls are over, which is why its runs do
not check for deadlock; the USB device is over when it was disconnected or its calls are
used up, and a driver when its loads are.  The receiver, the cache and the exchange are
checked for deadlock.

### Fairness

- Master: a runnable process goes on, a scheduled tasklet, an expired timer and a
  waiting worker run, bytes on the line arrive (weak fairness of each actor), and
  the mutex is handed to its waiters in turn (strong fairness of `Lock`; the
  kernel's mutex hands over to its first waiter after at most one spin).  Nothing
  makes a process call `ModbusSend`.  A sleeping caller whose wake-up never comes
  is released by its own timeout, which `schedule_timeout` guarantees.
- Receiver: time passes, a frame that has begun goes on, worker and interrupt run.
- Cache: a reader goes on, and gets its turn on the bus (strong fairness of
  `Transact`, for the same mutex).  The clock and new reads are not fair.
- USB: a process in a call and the hub thread go on (strong fairness: both wait for a
  mutex or a permit others take and give back, and both are FIFO), and once the
  endpoints are disabled the core gives every URB back.  A device that merely does not
  answer owes nothing.
- Drivers with callbacks: a callback that runs returns, init and exit go on.  A call that
  waits for a callback finds it not running some time (strong fairness of
  `ScriptStep`), although it runs again and again: `del_timer_sync` and its like retry
  until they meet the gap, and what `Fire` needs is that nothing has disarmed the timer.
- Exchange: no liveness.
- Character devices: init and exit go on (weak fairness of `ModuleStep`); nothing
  makes a process call, and nobody loads or unloads.

### What the violations say

- **Bad replies** (`modbus.c:233-251, 347-369`).  `eStatus` and `EM_PER` are set
  and never consulted: the caller parses `pucMBFrame`, which still holds the
  previous PDU, or the foreign one.
- **ModbusReceive outside the lock** (`modbus.c:379-384`).  The answer may have
  been reset or replaced by the next caller.
- **The timer triggers again** (`modbus.c:301`).  `modbus_controller_remove` destroys the
  Modbus layer before it closes the port; a chunk that arrives in between takes the
  receiver through `timer_start`, and `modbuscontroller_timer.c:108` says the timer
  "cannot trigger again".  The request buffer is freed by then, too.

### What else the models show

Where a property is claimed of some regime only, the models have the others; what happens
there has no run of its own.

*Master.*  A signal ends a transaction whose reply is still to come (`schedule_timeout` returns
the time left for a signal, too), and the next caller may be woken by it.  With "late"
among `Faults` `AcceptOnlyWhenWaiting` fails: `Out` resets the state under the tasklet.

*Receiver.*  T3.5 is not restarted by the second piece of a frame (`mbrtu.c:254-261`), against
the comment there: with the PL011's FIFO a reply longer than a trigger level
arrives in pieces and is cut (`OnlyWholeFrames` fails in `MCRtu` with `FrameLens = {10}`,
`Cap = 12`, `Trigger = 8`, `T35 = 4`, `RxTimeout = 3`, `Gap = 8`).  With `Kernels = {"preempting"}` a chunk
that meets the interrupt leaves STATE_RX_RCV without a timer, until the next chunk
overfills the buffer or a restart.

*Cache.*  In regime "shared", readers that miss together queue on the mutex and all sample
(`modbusdevice_syscalls.c:258`): nobody tests the interval again when it has the bus, where
`USERGUIDE.txt:272-274` promises one request in an interval however many read.  No property
claims it; that a lone reader does not go to the bus too often is the test itself.  The stamp
may go back (`:285`).  `FreshAnswer` says that each register was asked for with success
within the interval, and no more: the value shown may be an older one or none, because an
exception reply is a success (`master.impl.h:205-215`) that leaves the buffer and moves the
stamp, and another's, because the answer is fetched outside the lock.  Without the latter,
`NewestIsKept` says that it is still the newest value there is.  It takes no second reader
of the sensor for an answer to be lost: other users of the bus are enough.  The
`timeout` attribute is stored and shown but `ModbusSend` is always given 1000 ms (`modbusdevice_syscalls.c:69, 263`).

*Drivers.*  What is claimed of devices at boot is not so in "hotplug".  After a removal that is
not the last, the count is a number in use: `cdev_add` takes it, `device_create`
refuses it, and the error path's `cdev_del` works because it drops the newest.  Two
probes side by side may read the same count before either has added to it, and
lose an update; after that, `cdev_del` of one may drop the other's cdev, the map keeps
a cdev whose memory is freed (`MapIsLive` fails), or the node of one opens the other
(`NodeOpensItsDevice` fails).  `UnloadLeavesNothing` holds even so: every cdev added
is matched by one deleted.  `FilesAreBacked` also fails at boot for `17`: a
process may open the node before `sysfs_create_file` fails, and keeps its pointer to
data that devres frees.

*Character devices.*  `FilesHoldModule` fails for `15`, whose first node can be
opened while init makes the others and may still fail, and for `05`, whose operations
have no `.owner` (`05_read_write_cdev/hello_cdev.c:36`).  `PositionInRange` fails for
the sensor file: a command adds its size to the position, and the next `read` ends in
EFAULT (`modbusdevice_syscalls.c:349`, `:289`).  In `17` and `18` the position, which
`llseek` bounds in bytes, is added to a pointer to words
(`modbusdevice_syscalls.c:292`): a read of `17` at position 2 starts at the third value, not
the second.  What it reads there, or at position 0, is not in the buffer anyway, as that was
allocated without room, and `18` cannot be opened: `AccessInBounds` is claimed of the four
drivers over a buffer of bytes.  An init that failed and returned 0 leaves a module whose exit
destroys what was never made (`pcd_n.c:222`, `:285`).

*USB.*  One error may be reported twice, although comments say once (`usb-skeleton.c:270`, `:393`):
a reader tests and clears the latch without `err_lock` (`:268`), so it and a writer
may both see it.  `skel_post_reset` writes EPIPE without the lock (`:626`), so that error
may be lost to a reader's clearing, or overwrite another.  The statuses of unlinked URBs are latched
as errors (`:177`, `:349`) where the comments above say that they are none.  A
blocked reader holds `io_mutex` while it waits, so writers and flushes wait for the device, too.
A copy that faults counts as read (`BytesOnce` is about what was handed to
`copy_to_user`).

*Timers and GPIO.*  Two error paths of `08` free the GPIO they failed to get and keep the
button's (`timer_button.c:79`, `:86`).  `07` and `08` delete their timer without waiting, so a
callback that runs may arm it after the module is gone; `08` and `10` put their GPIOs before
the timer is stopped.  A failing populate closes the controller's port and leaves its timer
armed (`modbuscontroller.c:101`), and sensors, which devres removes after
`modbus_controller_remove`, may still allocate a request that nobody frees.  Overlapping
writers of `/proc/lll-gpio` share `data_buffer` and lose updates of the function-select
register (`hello_mmio.c:41`).

## The proofs

All are safety, for every value of the constants that satisfies the named
assumptions of the modules (which TLC evaluates in the passing runs).  Three of the master's have
the hypothesis `Orderly`, and the receiver's `ReportsWholeFrames` has `FramesFit` and `GapsSuffice`:
they name the constants for which the property holds, and the runs' constants satisfy them.

| Theorem | Module | States |
| --- | --- | --- |
| `TypeCorrect` | each `..._proofs` | `Spec => []TypeOK` |
| `TransactionIsOwned` | `ModbusMaster_proofs` | `Spec => []HolderOwnsRequest` |
| `WakeupIsNeverLost` | `ModbusMaster_proofs` | `Spec => []NoLostWakeup` |
| `FailureIsSilent` | `ModbusMaster_proofs` | `Spec => []FailurePublishesNothing` |
| `AnswerIsRight` | `ModbusMaster_proofs` | `Orderly`: `Spec => []RightAnswer` |
| `AcceptsWhileWaiting` | `ModbusMaster_proofs` | `Orderly`: `Spec => AcceptOnlyWhenWaiting` |
| `MasterImplementsSerialBus` | `ModbusMaster_proofs` | `Orderly`: `Spec => ImplementsSerialBus` |
| `ReceiverNeverOverruns` | `RtuReceiver_proofs` | `Spec => []BufferBound` |
| `OrderlyReceiverIsTimed` | `RtuReceiver_proofs` | `Spec => []RcvIsTimed` |
| `ReportsWholeFrames` | `RtuReceiver_proofs` | `FramesFit`, `GapsSuffice`: `Spec => []OnlyWholeFrames` |
| `BootNumbersDevices` | `DeviceProbe_proofs` | `Spec => []NumbersAreDense` |
| `UnloadIsClean` | `DeviceProbe_proofs` | `Spec => []UnloadLeavesNothing` |
| `MapLeadsToMemory` | `DeviceProbe_proofs` | `Spec => []MapIsLive` |
| `NodesOpenTheirDevices` | `DeviceProbe_proofs` | `Spec => []NodeOpensItsDevice` |
| `FilesHaveMemory` | `DeviceProbe_proofs` | `Spec => []FilesAreBacked` |
| `PositionsStayInRange` | `CharFile_proofs` | `Spec => []PositionInRange` |
| `AccessesStayInBounds` | `CharFile_proofs` | `Spec => []AccessInBounds` |
| `OpenableNodesAreServed` | `CharFile_proofs` | `Spec => []NodesAreServed` |
| `InitIsAllOrNothing` | `CharFile_proofs` | `Spec => []AllOrNothing` |
| `ModulesAreHeld` | `CharFile_proofs` | `Spec => []FilesHoldModule` |
| `StampsAreBacked` | `SensorCache_proofs` | `Spec => []StampIsBacked` |
| `ReadsAreFresh` | `SensorCache_proofs` | `Spec => []FreshAnswer` |
| `NewestValuesAreKept` | `SensorCache_proofs` | `Spec => []NewestIsKept` |
| `PermitsAreConserved` | `UsbSkel_proofs` | `Spec => []PermitsConserved` |
| `FreedWhenUnused` | `UsbSkel_proofs` | `Spec => []DeviceOutlivesUse` |
| `DisconnectIsFinal` | `UsbSkel_proofs` | `Spec => []NothingAfterDisconnect` |
| `DrawDownIsQuiet` | `UsbSkel_proofs` | `Spec => []QuietAfterDrawDown` |
| `BytesAreReadOnce` | `UsbSkel_proofs` | `Spec => []BytesOnce` |
| `CallbacksAreServed` | `Lifecycle_proofs` | `Spec => []CallbackHasWhatItUses` |
| `StoppedForGood` | `Lifecycle_proofs` | `Spec => []StoppedStaysStopped` |
| `NothingIsLeft` | `Lifecycle_proofs` | `Spec => []NothingHeldOutside` |
| `PinsStayDriven` | `Lifecycle_proofs` | `Spec => []PinsAreDriven` |
| `LedIsToggledByPresses` | `Lifecycle_proofs` | `Spec => []LedCountsPresses` |
| `ChecksumsAgree` | `ModbusExchange_proofs` | `\A f : usMBCRC16(f) = modbusCRC(f)` |
| `RequestsAreUnderstood` | `ModbusExchange_proofs` | `Spec => []RequestIsUnderstood` |
| `RepliesAreUnderstood` | `ModbusExchange_proofs` | `Spec => []ReplyIsUnderstood` |
| `DataIsAsAsked` | `ModbusExchange_proofs` | `Spec => []DataIsTheReplys` |
| `DamageIsFound` | `ModbusExchange_proofs` | `Spec => []DamageIsNoticed` |

- `TransactionIsOwned`: the property speaks of the stretch from `Prepare` to
  `Parse`.  It becomes inductive (`HolderInv`) by adding that the request is the
  holder's from `Build` on; then only the holder can write either
  variable, and nobody else is critical.
- `WakeupIsNeverLost`: the two states a sleeper must not miss are set only by
  `AcceptFrame`, whose next step is `WakeUp`, and a caller that goes to sleep has
  just seen that they are not set.
- `FailureIsSilent`: a count of at most one that is zero everywhere between `Lock`
  and `Parse` (`BufferInv`), together with mutual exclusion.
- `AnswerIsRight`, `AcceptsWhileWaiting`, `MasterImplementsSerialBus`: all three rest on `OrderlyInv`.
  A transaction is one thing that moves, through event slot, tasklet, line, receive buffer, slot and
  tasklet again, and `OneStage` says that it is in one place; `ReplyIsCurrent` that whatever travels
  back answers the request that is in the master; `MasterWaits` that the master expects it, and
  starts the next transaction from a clean state; `CallerWaits` that a caller waits as long as
  anything travels, asleep from the reply's arrival on.  The last is what each of the excluded
  faults breaks: a caller that was late, preempted or signalled leaves while the reply travels.  The
  refinement maps each step of `ModbusSend`, the tasklet and the parser to a step of `SerialBus` or
  to a stutter; `TurnInv` says that the mutex is held inside the turn only, and that a call has
  its outcome when it leaves the turn, not before.
- `ReceiverNeverOverruns`: no strengthening is needed beyond `TypeOK`, because the
  test that guards the append reads the position in the same step; the lemma
  `StoredLemma` bounds what the wrapping 8-bit length lets through.
- `OrderlyReceiverIsTimed`: `TimedInv` adds what holds inside the worker's step.
- `ReportsWholeFrames`: T3.5 starts with the first characters of a frame that are handed over and
  is not started again.  So a frame must fit the buffer, and, if the FIFO hands it over in parts,
  end before that timer does (`FramesFit`); and a timer started as late as can be must end before
  the next frame begins (`GapsSuffice`).  `FrameInv` says where the characters of the current frame
  are, in FIFO, worker and buffer together (`RcvKeepsFrame`), and by `Timed` how much of the
  timer is left for what is still to come.  With a T3.5 of a few characters `FramesFit` allows
  few beyond the trigger level, so the long replies above do not meet it; TLC finds the property
  violated where a part of it fails.  `GapsSuffice` is sufficient: TLC finds smaller gaps that do.
- `StampsAreBacked`: `Behind(r, n)` says that reader r has got register n in its
  present sampling; `BackedInv` says that then a request for n succeeded no earlier
  than r began, and that an answer under way was asked for no earlier.
  Times in `sampled` only grow, so other readers cannot take it away.  `SerialBus`
  enters through the lemmas about its steps.
- `ReadsAreFresh`: a reader decides by a copy of the stamp, which others may have replaced by an
  older one by the time it answers.  `FreshInv` therefore says that the copy itself is backed
  (`prev`, from `StampIsBacked` when it was taken), and of a reader that samples that it
  began no earlier than its interval admits.
- `NewestValuesAreKept`: an answer is in three places, one after the other.  `NewestInv` says of a
  waiting reader that it asked for its own register, and after all that were answered (`Waits`); of
  one that was told an answer that this is the newest (`Knows`); and of every register that its newest
  value is in the buffer or still with the reader (`Kept`).
- `BootNumbersDevices`: the numbers are dense because the count is the length of the
  driver core's list whenever nobody is moving.  `DenseInv` says so of every moment
  at boot: at most one device is neither bound nor unbound (`OneMoves`), the list has
  the bound devices and the one being removed (`ListIsBound`), nobody is probed
  while the module exits (`ProbesAreLive`), the one being removed is the last
  (`LastIsRemoved`), the count is the length of the list but for a removal past its
  decrement (`CountIsLength`), and the number of a device past `TakeNumber` is the
  length of the list (`NextNumber`).  Four lemmas follow a device through
  numbering, binding, removal and the steps that touch neither count nor list.
- `UnloadIsClean`: `OwnsInv` says what a device owns where it stands.  The kernel's map is the
  difficulty: `cdev_del` drops the newest entry of a *number*, which may be another device's.
  `MapIsOwned` therefore says only that the entries can be given, one to one, to devices of
  their numbers that have yet to delete one; that is kept by any order of probes and removals,
  and leaves an empty map when no device is left.
- `MapLeadsToMemory`, `NodesOpenTheirDevices`: where numbers are unique (`NumbersAreKnown`, by
  `DenseInv` at boot and by the id for `14`) each entry is its own device's (`EntriesAreOwn`), so
  the entry dropped is the right one.
- `FilesHaveMemory`: at boot an open file is of a device past its node (`FilesOfBound`), devices
  are only removed by `rmmod` (`PathsAreShort`), and files keep that away (`ModuleIsUp`).
- `PositionsStayInRange`, `AccessesStayInBounds`: a position in range is not
  inductive, because a call stores a position it took earlier.  `Fits` says of every
  call under way that position and count lie in the buffer together, and of one that
  will store its position that it does so even when no byte is left; since a call
  works on its copy, no other call can disturb that (`FitsElsewhere`).
- `OpenableNodesAreServed`, `InitIsAllOrNothing`: `ModuleInv` is the table of what is
  registered at each step: `SingleInv` for `03`, `TextInv` for `05`, and `MultipleInv`
  for `15`, where the devices below `index` are complete while init makes them, at
  most those below it are left while it unwinds, and at most those above while exit
  destroys them.
- `ModulesAreHeld`: no file is open unless the module is live (`HeldInv`); by
  `ModuleInv` there is no node to open before.
- `UsbSkel`: one inductive invariant serves all five.  `LabelInv` keeps every actor in its own
  code, with its file open; `LockInv` says that `io_mutex` is held exactly where the
  labels say; `RefInv` counts the references; `DisconnectInv` follows the device from unborn to
  gone, and says that with `disconnected` set nobody is past the test of it; `ReadInv` ties
  `ongoing_read` to the URB and the empty buffer; `DrawDownInv` keeps what draw-down has
  established while `io_mutex` is held.  Neither `NothingAfterDisconnect` nor
  `QuietAfterDrawDown` is inductive without `LockInv`, because it is the mutex that keeps a
  writer past its checks from submitting.  `PermitsConserved` and `BytesOnce` are inductive on top of
  these; permits need lemmas on how a cardinality changes when one process moves.
- `Lifecycle`: the scripts are data, so the argument is made once for any script that is in order:
  `ArmsLast` (sources are armed after everything is got), `FailsClean` (a call's error path puts
  what was got before it) and `ExitsInOrder`.  `InitInOrder` and `ExitInOrder` show that
  each driver's scripts are, `TailInOrder` that what is left of a script still is.
  `SourceInv`, `StopInv`, `NeedInv` and `HeldInv` then relate the rest of the script to what is
  armed and held, and everybody else's steps enter through one lemma (`OutsideMoves`).
  `PinsStayDriven` needs `WriterInv`: while writes do not overlap, the copy a writer holds is
  what the register has.
- `LedIsToggledByPresses`: `ButtonInv` ties the statics to the readings (`debounce` is the last three,
  `last` is released exactly if a press may follow) and the LED to the presses since init has
  switched it off.  It is stated over any sequence of readings, so that the argument is made once, of
  one more reading: `NewStable`, `NewReleased` and `NewPress` say what that changes.  The probe of `10`
  does not reset the statics; no harm is done, since a press is one of all readings.
- `ChecksumsAgree`: exclusive or is shown to be what its recursion makes it (`XorStep`): commutative,
  associative, its own inverse, and a word of high and low byte is their exclusive or.  A shift is
  then linear (`ShiftLinear`), so eight shifts of a word are those of its low byte and its high byte
  shifted down; and each of the 256 entries of the two tables is eight shifts of its number
  (`Entries`): an even one by the entry of half its number (`HalfEntry`), an odd one by its
  neighbour's and entry 1 (`NextEntry`).  `FoldTraces` turns the halving recursion over a frame
  into a step per byte.
- `RequestsAreUnderstood`: per kind of request, what the builder puts at each place (`BuiltBytes`,
  `CoilsBuilt`, `RegistersBuilt`) is what the slave reads there (`UnderstoodAsMeant`), and a frame
  that ends in its own checksum leaves a residue of 0 (`Residue`), so it is intact
  (`IntactFrames`) and gives its PDU back (`PackedFrame`, `UnpackIntact`).
- `DataIsAsAsked`: the invariant `IInv` keeps the request buffer equal to `Built(asked)`, in its frame
  or not, and what is on the line a sequence; `ParsedAsAsked` is the argument proper, over the tests
  of the parser: every path that hands data over has compared the function, the count and the
  length with those of the request.  What the checksums compute plays no part in it.
- `RepliesAreUnderstood`, `DamageIsFound`: `ByteInv` adds the bytes: a frame on its way back is
  intact unless the line changed it (`AnswerBytes`), and an intact proper reply is the one the
  protocol asks for (`ProperBytes`).  `ProperAccepted` takes each kind of reply through every test of
  its parser; bits come back from the places they were packed into (`BitsPacked`, `EightBits`).
  `DamageShows` is the argument for damage: a step of the checksum is injective in the word and
  in the byte, so one changed byte makes two different words and equal bytes after it keep
  them different; that two changed neighbours do not cancel (`TwoSteps`) needs that no two entries of
  `aucCRCLo` are equal (`TableInjective`).  `FrameIsJudged` says of both modes what becomes of a frame.

The induction these proofs need is over a set of numbers, not over a predicate: a set that has
0 and with each number the next has all (`Induction`, from the well-foundedness of <).
`ModbusExchange_proofs` takes some twelve minutes to check, the others a few minutes at most.

Model-checked only: liveness (`CallsReturn`, `AnsweredCallsSucceed`, `EveryFrameReported`,
`ReadsReturn`, `LoadingEnds`, `DisconnectReleasesAll`, `ExitEnds`), since the prover's reach ends
before fairness and ENABLED.  Every other property of a passing run is a theorem.

## Not modelled, and the plan

- `cp_amba-pl011.c` is an incomplete copy of the kernel's PL011 driver that no module of this
  repository is built from; `uart-pl011.c` is an empty driver behind its head, and
  `serdev.c` echoes without state.
- The USB client of `12` logs its probe and disconnect; the first examples (`01`, `02`, `04`,
  `09`) register and unregister one thing.
- Modbus TCP framing and the slave half of LightModbus, which this program does not build.
- `ModbusInit` and `eMBRTUInit`: allocations, and a baud rate turned into the interval that is
  the constant `T35`; the `timeout` attribute, which is stored and never used.
- The strings of the device trees, the text of attributes, logging.

What is worth doing next:

1. A composition of `Lifecycle`'s controller with `DeviceProbe`'s sensors, for what a removal of the
   controller does to sensors that are being read.
2. A tight condition in place of `GapsSuffice`.

Of no interest: stubs, device tree overlays and build files; formatting of sysfs values.
