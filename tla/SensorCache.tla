---------------------------- MODULE SensorCache -----------------------------
(***************************************************************************)
(* The read cache of a sensor (17_modbus_rtu/modbus_device): modbus_read   *)
(* and modbus_read_value, which decide whether the buffer is recent        *)
(* enough, sample the registers one ModbusSend at a time and stamp the     *)
(* buffer, with interval_store and the WRITE_INTERVAL command.             *)
(*                                                                         *)
(* Readers are processes inside read() or a show function.  None of the    *)
(* data of a sensor is protected by a lock.  The bus they share is         *)
(* SerialBus, which ModbusMaster implements; between a ModbusSend and the  *)
(* ModbusReceive that fetches its answer, the bus is free for others.      *)
(*                                                                         *)
(* A reading says which register of which sensor it is of and when it was  *)
(* asked for; time is discrete and starts at 1, as 0 is "never" for        *)
(* previous_read.  A slave may refuse with an exception frame, which is a  *)
(* success without a value.  In regime "shared" readers overlap, in regime *)
(* "alone" they do not.                                                    *)
(*                                                                         *)
(* Two things are not as in the source.  The buffer is taken to hold       *)
(* num_val readings, and num_val to be set from the start, although probe  *)
(* allocates the buffer, and creates the node, before it sets num_val      *)
(* (modbusdevice.c:254-255, :278, :296; see the README).  And Show hands   *)
(* out the sensor's own registers: pm10_show prints buffer[3], one past    *)
(* the third (modbusdevice_syscalls.c:182), but its attribute is only      *)
(* there with CONFIG_PM10, which nothing in the repository defines.        *)
(***************************************************************************)
EXTENDS Naturals

CONSTANTS
    Readers, NoReader,
    Sensors,
    NumVal,     \* num_val: number of registers of each sensor
    Intervals,  \* values of inval_sampl, in ticks
    Tunable,    \* regimes in which intervals are written between reads
    MaxTime,    \* bound on the clock
    Horizon     \* Horizon[regime]: how far the clock runs in it

ASSUME ReadersAssumption == NoReader \notin Readers
ASSUME SensorsAssumption == NumVal \in [Sensors -> Nat \ {0}]
ASSUME IntervalsAssumption == Intervals \subseteq Nat /\ Intervals # {}
ASSUME TimeAssumption == MaxTime \in Nat \ {0}
ASSUME HorizonAssumption == Horizon \in [{"alone", "shared"} -> 1 .. MaxTime]

VARIABLES
    now,            \* ktime_get()
    regime,         \* "alone": one read at a time
    previous_read,  \* previous_read[s]: when the last sampling began, 0: never
    inval_sampl,    \* inval_sampl[s]: for how long it is recent
    buffer,         \* buffer[s][i]: the reading held for register i
    pc,             \* where a reader stands
    sensor,         \* the sensor it reads
    prev,           \* its copy of previous_read, 0 once it is used
    began,          \* its `now', taken after that copy
    oldest,         \* the oldest reading its interval admits
    i,              \* the register it is at
    sampled,        \* history: sampled[s][i], the time of the latest request
                    \* for the register that succeeded
    given,          \* history: given[s][i], the same of those that brought a
                    \* value and not a refusal (kept in regime "alone")
    turn, asked, answer, outcome        \* the bus

readerVars == <<pc, sensor, prev, began, oldest, i>>
envVars == <<now, regime>>
sensorVars == <<previous_read, inval_sampl, buffer>>
busVars == <<turn, asked, answer, outcome>>
history == <<sampled, given>>
vars == <<envVars, sensorVars, readerVars, history, busVars>>

Time == 0 .. MaxTime
Registers(s) == 1 .. NumVal[s]
Register == UNION {{s} \X Registers(s) : s \in Sensors}
Reading == [of : Register, at : 1 .. MaxTime]
NoReading == [of |-> <<>>, at |-> 0]

\* Readers tell success from failure only.
Bus == INSTANCE SerialBus
         WITH Callers <- Readers, NoCaller <- NoReader,
              Questions <- Reading, NoAnswer <- NoReading,
              Failure <- {"failed"}

ReaderPc == {"idle", "decide", "send", "wait", "receive", "stamp", "show"}

TypeOK ==
    /\ now \in Time \ {0}
    /\ regime \in {"alone", "shared"}
    /\ previous_read \in [Sensors -> Time]
    /\ inval_sampl \in [Sensors -> Intervals]
    /\ DOMAIN buffer = Sensors
    /\ \A s \in Sensors :
         buffer[s] \in [Registers(s) -> Reading \cup {NoReading}]
    /\ pc \in [Readers -> ReaderPc]
    /\ sensor \in [Readers -> Sensors]
    /\ prev \in [Readers -> Time]
    /\ began \in [Readers -> Time]
    /\ oldest \in [Readers -> Time]
    /\ i \in [Readers -> Nat]
    /\ \A r \in Readers : i[r] \in Registers(sensor[r])
    /\ DOMAIN sampled = Sensors
    /\ \A s \in Sensors : sampled[s] \in [Registers(s) -> Time]
    /\ DOMAIN given = Sensors
    /\ \A s \in Sensors : given[s] \in [Registers(s) -> Time]
    /\ Bus!TypeOK

Init ==
    /\ now = 1
    /\ regime \in {"alone", "shared"}
    /\ previous_read = [s \in Sensors |-> 0]
    /\ inval_sampl \in [Sensors -> Intervals]
    /\ buffer = [s \in Sensors |-> [n \in Registers(s) |-> NoReading]]
    /\ pc = [r \in Readers |-> "idle"]
    /\ sensor \in [Readers -> Sensors]
    /\ prev = [r \in Readers |-> 0]
    /\ began = [r \in Readers |-> 0]
    /\ oldest = [r \in Readers |-> 0]
    /\ i = [r \in Readers |-> 1]
    /\ sampled = [s \in Sensors |-> [n \in Registers(s) |-> 0]]
    /\ given = sampled
    /\ Bus!Init

Goto(r, label) == pc' = [pc EXCEPT ![r] = label]

\* The read is over, and with it the life of its local variables.
Finish(r) ==
    /\ Goto(r, "idle")
    /\ prev' = [prev EXCEPT ![r] = 0]
    /\ began' = [began EXCEPT ![r] = 0]
    /\ oldest' = [oldest EXCEPT ![r] = 0]
    /\ i' = [i EXCEPT ![r] = 1]

-----------------------------------------------------------------------------
\* A read of sensor s begins: it copies previous_read.
Begin(r, s) ==
    /\ pc[r] = "idle"
    /\ regime = "alone" => \A q \in Readers : pc[q] = "idle"
    /\ sensor' = [sensor EXCEPT ![r] = s]
    /\ prev' = [prev EXCEPT ![r] = previous_read[s]]
    /\ i' = [i EXCEPT ![r] = 1]
    /\ Goto(r, "decide")
    /\ UNCHANGED <<envVars, sensorVars, began, oldest, history, busVars>>

\* Takes the time, and samples if there is no reading or it is too old.
Decide(r) ==
    /\ pc[r] = "decide"
    /\ began' = [began EXCEPT ![r] = now]
    /\ LET s == sensor[r]
       IN  /\ oldest' = [oldest EXCEPT ![r] = IF inval_sampl[s] < now
                                              THEN now - inval_sampl[s] ELSE 0]
           /\ IF prev[r] = 0 \/ now - prev[r] > inval_sampl[s]
              THEN Goto(r, "send")
              ELSE Goto(r, "show")
    /\ prev' = [prev EXCEPT ![r] = 0]
    /\ UNCHANGED <<envVars, sensorVars, sensor, i, history, busVars>>

\* ModbusSend(slave_addr, 3, reg_address[i], 1, 1000) is called, ...
Send(r) ==
    /\ pc[r] = "send"
    /\ Bus!Ask(r, [of |-> <<sensor[r], i[r]>>, at |-> now])
    /\ Goto(r, "wait")
    /\ UNCHANGED <<envVars, sensorVars, sensor, prev, began, oldest, i, history>>

\* The time of r's request is the latest for its register, unless a later one
\* was faster.
Noted(times, r) ==
    [times EXCEPT ![sensor[r]][i[r]] = IF asked[r].at > @ THEN asked[r].at ELSE @]

\* ... has its turn on the bus, where its slave may refuse ...
Transact(r) ==
    /\ pc[r] = "wait"
    /\ \/ Bus!Take(r) /\ UNCHANGED history
       \/ /\ Bus!Succeed(r)
          /\ sampled' = Noted(sampled, r)
          /\ given' = IF regime = "alone" /\ answer' # NoReading
                      THEN Noted(given, r) ELSE given
       \/ Bus!Fail(r) /\ UNCHANGED history
    /\ UNCHANGED <<envVars, sensorVars, readerVars>>

\* Mutant of Return: a failure is tried again.
ReturnRetries(r) ==
    /\ pc[r] = "wait"
    /\ Bus!Leave(r)
    /\ Goto(r, IF outcome[r] = "NOERR" THEN "receive" ELSE "send")
    /\ UNCHANGED <<envVars, sensorVars, sensor, prev, began, oldest, i, history>>

\* ... and returns; a failure ends the read with an error.
Return(r) ==
    /\ pc[r] = "wait"
    /\ Bus!Leave(r)
    /\ IF outcome[r] = "NOERR"
       THEN Goto(r, "receive") /\ UNCHANGED <<prev, began, oldest, i>>
       ELSE Finish(r)
    /\ UNCHANGED <<envVars, sensorVars, sensor, history>>

\* Mutant of Receive: the loop ends a register too early.
ReceiveShort(r) ==
    /\ pc[r] = "receive"
    /\ LET s == sensor[r]
       IN  /\ IF answer = NoReading
              THEN UNCHANGED buffer
              ELSE buffer' = [buffer EXCEPT ![s][i[r]] = answer]
           /\ IF i[r] + 1 < NumVal[s]
              THEN Goto(r, "send") /\ i' = [i EXCEPT ![r] = @ + 1]
              ELSE Goto(r, "stamp") /\ UNCHANGED i
    /\ UNCHANGED <<envVars, previous_read, inval_sampl, sensor, prev, began, oldest,
                   history, busVars>>

\* Mutant of Receive: the register is cleared before the copy.
ReceiveCleared(r) ==
    /\ pc[r] = "receive"
    /\ LET s == sensor[r]
       IN  /\ buffer' = [buffer EXCEPT ![s][i[r]] = answer]
           /\ IF i[r] < NumVal[s]
              THEN Goto(r, "send") /\ i' = [i EXCEPT ![r] = @ + 1]
              ELSE Goto(r, "stamp") /\ UNCHANGED i
    /\ UNCHANGED <<envVars, previous_read, inval_sampl, sensor, prev, began, oldest,
                   history, busVars>>

\* ModbusReceive(&buffer[i]) copies what the response buffer holds, if
\* anything; the length it reports is only printed.
Receive(r) ==
    /\ pc[r] = "receive"
    /\ LET s == sensor[r]
       IN  /\ IF answer = NoReading
              THEN UNCHANGED buffer
              ELSE buffer' = [buffer EXCEPT ![s][i[r]] = answer]
           /\ IF i[r] < NumVal[s]
              THEN Goto(r, "send") /\ i' = [i EXCEPT ![r] = @ + 1]
              ELSE Goto(r, "stamp") /\ UNCHANGED i
    /\ UNCHANGED <<envVars, previous_read, inval_sampl, sensor, prev, began, oldest,
                   history, busVars>>

\* Mutant of Stamp: the time of the stamp is taken after the sampling.
StampNow(r) ==
    /\ pc[r] = "stamp"
    /\ previous_read' = [previous_read EXCEPT ![sensor[r]] = now]
    /\ Goto(r, "show")
    /\ UNCHANGED <<envVars, inval_sampl, buffer, sensor, prev, began, oldest, i,
                   history, busVars>>

\* previous_read = now, the time at which this reader decided to sample.
Stamp(r) ==
    /\ pc[r] = "stamp"
    /\ previous_read' = [previous_read EXCEPT ![sensor[r]] = began[r]]
    /\ Goto(r, "show")
    /\ UNCHANGED <<envVars, inval_sampl, buffer, sensor, prev, began, oldest, i,
                   history, busVars>>

\* The buffer is copied or printed and the read succeeds.
Show(r) ==
    /\ pc[r] = "show"
    /\ Finish(r)
    /\ UNCHANGED <<envVars, sensorVars, sensor, history, busVars>>

\* interval_store, and modbus_write with WRITE_INTERVAL.
SetInterval(s) ==
    /\ regime \in Tunable
    /\ inval_sampl' \in {[inval_sampl EXCEPT ![s] = n] : n \in Intervals}
    /\ UNCHANGED <<envVars, previous_read, buffer, readerVars, history, busVars>>

Tick ==
    /\ now < Horizon[regime]
    /\ now' = now + 1
    /\ UNCHANGED <<regime, sensorVars, readerVars, history, busVars>>

ReaderStep(r) ==
    Decide(r) \/ Send(r) \/ Transact(r) \/ Return(r) \/ Receive(r) \/ Stamp(r)
    \/ Show(r)

Next ==
    \/ \E r \in Readers : ReaderStep(r) \/ \E s \in Sensors : Begin(r, s)
    \/ \E s \in Sensors : SetInterval(s)
    \/ Tick

Spec == Init /\ [][Next]_vars

\* A reader goes on, and the mutex is handed to each that waits for it.
FairSpec ==
    Spec /\ \A r \in Readers : WF_vars(ReaderStep(r)) /\ SF_vars(Transact(r))

-----------------------------------------------------------------------------
(* Properties *)

\* A stamp is never later than a successful request for each register of the
\* sensor: readers that fail half way, or that overtake each other, cannot make
\* the buffer look more recent than the requests (USERGUIDE.txt:285-289).
StampIsBacked ==
    \A s \in Sensors : \A n \in Registers(s) : previous_read[s] <= sampled[s][n]

\* A read that succeeds, from the cache or the bus and whatever stamps other readers
\* of the sensor write meanwhile, answers with registers each of which was asked for
\* successfully no longer ago than its interval (USERGUIDE.txt:253-268).
FreshAnswer ==
    \A r \in Readers :
      pc[r] = "show" =>
        \A n \in Registers(sensor[r]) : sampled[sensor[r]][n] >= oldest[r]

Newest(s, n) ==
    IF given[s][n] = 0 THEN NoReading ELSE [of |-> <<s, n>>, at |-> given[s][n]]

\* r has got an answer to its question, which it has not stored yet.
Holds(r, s, n) ==
    /\ sensor[r] = s /\ i[r] = n
    /\ pc[r] = "receive" \/ (pc[r] = "wait" /\ outcome[r] = "NOERR")

\* While readers do not overlap, the buffer has under every register the newest
\* value that the register's slave gave: neither samplings that end half way, nor
\* refusals, which count as success (master.impl.h:205-215), lose it or put an
\* older value or another register's in its place.
NewestIsKept ==
    regime = "alone" =>
      \A s \in Sensors : \A n \in Registers(s) :
        buffer[s][n] = Newest(s, n) \/ \E r \in Readers : Holds(r, s, n)

\* Every read returns, whatever the bus does to it.
ReadsReturn == \A r \in Readers : pc[r] = "decide" ~> pc[r] = "idle"

=============================================================================
