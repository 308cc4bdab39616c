------------------------------ MODULE UsbSkel -------------------------------
(***************************************************************************)
(* The USB skeleton driver (12_usb_client_driver/usb-skeleton.c): one      *)
(* device from its probe to its disconnection, with processes that open,   *)
(* read, write, flush and release files on it.                             *)
(*                                                                         *)
(* Who acts: the processes, each with a file of its own (all the state is  *)
(* the device's, so that is as good as a shared file); the USB core's hub  *)
(* thread, which probes, resets, suspends and disconnects, one at a time,  *)
(* under the device lock; and the host controller, which completes the     *)
(* URBs in flight.  The core disables the endpoints before it calls        *)
(* skel_disconnect: URBs in flight are given back and no more are taken.   *)
(* usb_open and usb_deregister_dev exclude each other (minor_rwsem).       *)
(*                                                                         *)
(* A file may be released without a flush after its last write: a close in *)
(* another thread flushes while the write still runs.                      *)
(***************************************************************************)
EXTENDS Integers, FiniteSets

CONSTANTS
    Procs,          \* user processes
    NonBlocking,    \* those whose file is O_NONBLOCK
    Core,           \* the hub thread
    Nobody,
    WRITES_IN_FLIGHT,
    BulkInSize,     \* bulk_in_size
    Counts,         \* sizes asked of read()
    MaxCalls,       \* bound on the calls
    MaxBytes        \* bound on the bytes the device gives

Actors == Procs \cup {Core}

ASSUME ActorsAssumption ==
    /\ IsFiniteSet(Procs) /\ NonBlocking \subseteq Procs
    /\ Core \notin Procs /\ Nobody \notin Actors
ASSUME LimitAssumption == WRITES_IN_FLIGHT \in Nat \ {0}
ASSUME SizesAssumption ==
    /\ BulkInSize \in Nat \ {0} /\ Counts \subseteq Nat \ {0}
    /\ MaxCalls \in Nat /\ MaxBytes \in Nat

VARIABLES
    pc,             \* where each actor stands
    back,           \* where each returns from skel_draw_down
    io_mutex,       \* its owner
    attached,       \* the endpoints take URBs
    registered,     \* the minor number is the device's
    kref,
    freed,          \* skel_delete has run
    disconnected,
    limit_sem,
    submitted,      \* write URBs in flight
    reading,        \* bytes bulk_in_urb was submitted for, 0: not in flight
    errors,
    ongoing_read,
    bulk_in_filled, bulk_in_copied,
    count,          \* what is left of the count of a read
    served,         \* the read has copied to its caller
    files,          \* the processes whose file is open
    calls,          \* number of calls made
    given,          \* history: bytes the device has given
    shown           \* history: the latest byte handed to copy_to_user

coreVars == <<attached, registered, disconnected>>
refVars == <<kref, freed, files>>
writeVars == <<limit_sem, submitted>>
bufferVars == <<bulk_in_filled, bulk_in_copied, given, shown>>
readVars == <<reading, ongoing_read, bufferVars>>
callVars == <<back, count, served, calls>>
vars == <<pc, io_mutex, errors, coreVars, refVars, writeVars, readVars, callVars>>

WriterPc == {"w_down", "w_errors", "w_clear", "w_alloc", "w_lock", "w_submit",
             "w_unanchor", "w_up"}
ReaderPc == {"r_lock", "r_enter", "r_loop", "r_wait", "r_errors", "r_clear",
             "r_data", "r_io", "r_submit"}
DrawDownPc == {"drain", "kill_writes", "kill_read"}
CorePc == {"absent", "p_alloc", "p_register", "p_error", "bound", "pre_reset",
           "post_reset", "deregister", "d_lock", "d_set", "d_read", "d_writes",
           "d_put", "gone"}
Pc == WriterPc \cup ReaderPc \cup DrawDownPc \cup {"idle", "f_lock", "f_report"}
      \cup CorePc

\* A negative status: EPIPE is passed on as it is, any other as EIO.
Statuses == {"EIO", "EPIPE"}

TypeOK ==
    /\ pc \in [Actors -> Pc]
    /\ back \in [Actors -> {"f_report", "post_reset", "bound"}]
    /\ io_mutex \in Actors \cup {Nobody}
    /\ attached \in BOOLEAN /\ registered \in BOOLEAN
    /\ disconnected \in BOOLEAN /\ freed \in BOOLEAN
    /\ kref \in Nat
    /\ limit_sem \in 0 .. WRITES_IN_FLIGHT
    /\ submitted \in 0 .. WRITES_IN_FLIGHT
    /\ reading \in 0 .. BulkInSize
    /\ errors \in Statuses \cup {"none"}
    /\ ongoing_read \in BOOLEAN
    /\ bulk_in_filled \in 0 .. BulkInSize
    /\ bulk_in_copied \in 0 .. BulkInSize
    /\ count \in [Procs -> Nat]
    /\ served \in [Procs -> BOOLEAN]
    /\ files \subseteq Procs
    /\ calls \in 0 .. MaxCalls
    /\ given \in Nat /\ shown \in Nat

Init ==
    /\ pc = [a \in Actors |-> IF a = Core THEN "absent" ELSE "idle"]
    /\ back = [a \in Actors |-> IF a = Core THEN "bound" ELSE "f_report"]
    /\ io_mutex = Nobody
    /\ attached = TRUE
    /\ registered = FALSE /\ disconnected = FALSE /\ freed = FALSE
    /\ kref = 0
    /\ limit_sem = WRITES_IN_FLIGHT
    /\ submitted = 0 /\ reading = 0
    /\ errors = "none"
    /\ ongoing_read = FALSE
    /\ bulk_in_filled = 0 /\ bulk_in_copied = 0
    /\ count = [p \in Procs |-> 0]
    /\ served = [p \in Procs |-> FALSE]
    /\ files = {}
    /\ calls = 0
    /\ given = 0 /\ shown = 0

Least(m, n) == IF m < n THEN m ELSE n

Goto(a, label) == pc' = [pc EXCEPT ![a] = label]

Step(a, here, there) == pc[a] = here /\ Goto(a, there)

Acquire(a) == io_mutex = Nobody /\ io_mutex' = a

Unlock(a) == io_mutex = a /\ io_mutex' = Nobody

\* Writers that hold a permit of limit_sem.
Permitted == {"w_errors", "w_clear", "w_alloc", "w_lock", "w_submit", "w_unanchor",
              "w_up"}

\* URBs on the anchor: a failed one stays until its writer takes it off.
Anchored == submitted > 0 \/ \E p \in Procs : pc[p] = "w_unanchor"

\* A writer that reports an error holds err_lock between its two accesses.
ErrLockFree == \A p \in Procs : pc[p] # "w_clear"

-----------------------------------------------------------------------------
(* The reference count *)

\* kref_put: skel_delete frees the device with its last reference.
Put ==
    /\ kref' = kref - 1
    /\ freed' = (kref' = 0)

\* The minor is the device's, and the device is not about to sleep.
Openable == registered /\ ~(pc[Core] \in DrawDownPc /\ back[Core] = "bound")

\* Mutant of Open: the file takes no reference.
OpenUncounted(p) ==
    /\ pc[p] = "idle" /\ p \notin files /\ calls < MaxCalls
    /\ Openable
    /\ files' = files \cup {p}
    /\ calls' = calls + 1
    /\ UNCHANGED <<pc, io_mutex, errors, coreVars, kref, freed, writeVars, readVars,
                   back, count, served>>

\* skel_open finds the interface by its minor, resumes the device and takes a
\* reference (if the device cannot be resumed, nothing changes).
Open(p) ==
    /\ pc[p] = "idle" /\ p \notin files /\ calls < MaxCalls
    /\ Openable
    /\ kref' = kref + 1
    /\ files' = files \cup {p}
    /\ calls' = calls + 1
    /\ UNCHANGED <<pc, io_mutex, errors, coreVars, freed, writeVars, readVars,
                   back, count, served>>

Release(p) ==
    /\ pc[p] = "idle" /\ p \in files
    /\ files' = files \ {p}
    /\ Put
    /\ UNCHANGED <<pc, io_mutex, errors, coreVars, writeVars, readVars, callVars>>

\* A call that is more than one step begins.
Call(p, label) ==
    /\ Step(p, "idle", label)
    /\ p \in files /\ calls < MaxCalls
    /\ calls' = calls + 1
    /\ UNCHANGED <<io_mutex, errors, coreVars, refVars, writeVars, readVars, back>>

-----------------------------------------------------------------------------
(* skel_write *)

BeginWrite(p) == Call(p, "w_down") /\ UNCHANGED <<count, served>>

TakePermit(p) ==
    /\ Step(p, "w_down", "w_errors")
    /\ limit_sem > 0
    /\ limit_sem' = limit_sem - 1
    /\ UNCHANGED <<io_mutex, errors, coreVars, refVars, submitted, readVars, callVars>>

\* down_trylock failed.
RefuseWrite(p) ==
    /\ Step(p, "w_down", "idle")
    /\ p \in NonBlocking /\ limit_sem = 0
    /\ UNCHANGED <<io_mutex, errors, coreVars, refVars, writeVars, readVars, callVars>>

CheckErrors(p) ==
    /\ Step(p, "w_errors", IF errors = "none" THEN "w_alloc" ELSE "w_clear")
    /\ ErrLockFree
    /\ UNCHANGED <<io_mutex, errors, coreVars, refVars, writeVars, readVars, callVars>>

ClearErrors(p) ==
    /\ Step(p, "w_clear", "w_up")
    /\ errors' = "none"
    /\ UNCHANGED <<io_mutex, coreVars, refVars, writeVars, readVars, callVars>>

\* The URB, its buffer and the copy of the data; any of them may fail.
Allocate(p) ==
    /\ \E there \in {"w_lock", "w_up"} : Step(p, "w_alloc", there)
    /\ UNCHANGED <<io_mutex, errors, coreVars, refVars, writeVars, readVars, callVars>>

LockWrite(p) ==
    /\ Step(p, "w_lock", "w_submit")
    /\ Acquire(p)
    /\ UNCHANGED <<errors, coreVars, refVars, writeVars, readVars, callVars>>

\* Mutant of Submit: the device may be gone.
SubmitUnchecked(p) ==
    /\ \/ attached /\ Step(p, "w_submit", "idle") /\ submitted' = submitted + 1
       \/ Step(p, "w_submit", "w_unanchor") /\ UNCHANGED submitted
    /\ Unlock(p)
    /\ UNCHANGED <<errors, coreVars, refVars, limit_sem, readVars, callVars>>

\* Under io_mutex: unless the device is gone, the URB is anchored and submitted.
\* With the endpoints disabled the submission fails.
Submit(p) ==
    /\ IF disconnected
       THEN Step(p, "w_submit", "w_up") /\ UNCHANGED submitted
       ELSE \/ attached /\ Step(p, "w_submit", "idle") /\ submitted' = submitted + 1
            \/ Step(p, "w_submit", "w_unanchor") /\ UNCHANGED submitted
    /\ Unlock(p)
    /\ UNCHANGED <<errors, coreVars, refVars, limit_sem, readVars, callVars>>

\* Mutant of Unanchor: the permit is given back here and at the exit.
UnanchorGivesBack(p) ==
    /\ Step(p, "w_unanchor", "w_up")
    /\ limit_sem' = limit_sem + 1
    /\ UNCHANGED <<io_mutex, errors, coreVars, refVars, submitted, readVars, callVars>>

Unanchor(p) ==
    /\ Step(p, "w_unanchor", "w_up")
    /\ UNCHANGED <<io_mutex, errors, coreVars, refVars, writeVars, readVars, callVars>>

\* Mutant of GiveBack: the error exit keeps the permit.
GiveBackForgets(p) ==
    /\ Step(p, "w_up", "idle")
    /\ UNCHANGED <<io_mutex, errors, coreVars, refVars, writeVars, readVars, callVars>>

\* The error exit.
GiveBack(p) ==
    /\ Step(p, "w_up", "idle")
    /\ limit_sem' = limit_sem + 1
    /\ UNCHANGED <<io_mutex, errors, coreVars, refVars, submitted, readVars, callVars>>

\* skel_write_bulk_callback.  Any status but 0 is latched, that of a URB the
\* driver itself has killed too.
CompleteWrite ==
    /\ submitted > 0
    /\ submitted' = submitted - 1
    /\ limit_sem' = limit_sem + 1
    /\ \/ UNCHANGED errors
       \/ ErrLockFree /\ errors' \in Statuses
    /\ UNCHANGED <<pc, io_mutex, coreVars, refVars, readVars, callVars>>

-----------------------------------------------------------------------------
(* skel_read and skel_do_read_io *)

BeginRead(p) ==
    /\ Call(p, "r_lock")
    /\ \E n \in Counts : count' = [count EXCEPT ![p] = n]
    /\ served' = [served EXCEPT ![p] = FALSE]

LockRead(p) ==
    /\ Step(p, "r_lock", "r_enter")
    /\ Acquire(p)
    /\ UNCHANGED <<errors, coreVars, refVars, writeVars, readVars, callVars>>

\* The reader leaves, with what it has or with an error.
LeaveRead(p, here) ==
    /\ Step(p, here, "idle")
    /\ Unlock(p)

EnterRead(p) ==
    /\ IF disconnected
       THEN LeaveRead(p, "r_enter")
       ELSE Step(p, "r_enter", "r_loop") /\ UNCHANGED io_mutex
    /\ UNCHANGED <<errors, coreVars, refVars, writeVars, readVars, callVars>>

\* retry: is a read under way?
LoopRead(p) ==
    /\ ErrLockFree
    /\ IF ~ongoing_read
       THEN Step(p, "r_loop", "r_errors") /\ UNCHANGED io_mutex
       ELSE IF p \in NonBlocking
            THEN LeaveRead(p, "r_loop")
            ELSE Step(p, "r_loop", "r_wait") /\ UNCHANGED io_mutex
    /\ UNCHANGED <<errors, coreVars, refVars, writeVars, readVars, callVars>>

WaitRead(p) ==
    /\ Step(p, "r_wait", "r_errors")
    /\ ~ongoing_read
    /\ UNCHANGED <<io_mutex, errors, coreVars, refVars, writeVars, readVars, callVars>>

\* The reader looks at the latch, and resets it, without err_lock.
ReadErrors(p) ==
    /\ Step(p, "r_errors", IF errors = "none" THEN "r_data" ELSE "r_clear")
    /\ UNCHANGED <<io_mutex, errors, coreVars, refVars, writeVars, readVars, callVars>>

ReadClears(p) ==
    /\ LeaveRead(p, "r_clear")
    /\ errors' = "none"
    /\ UNCHANGED <<coreVars, refVars, writeVars, readVars, callVars>>

Available == bulk_in_filled - bulk_in_copied

\* Copies what there is; asked for more, or with nothing left, starts a read.
ReadData(p) ==
    LET chunk == Least(Available, count[p])
    IN  /\ IF Available = 0
           THEN /\ Step(p, "r_data", "r_io")
                /\ UNCHANGED <<io_mutex, bulk_in_copied, shown, count, served>>
           ELSE /\ bulk_in_copied' = bulk_in_copied + chunk
                /\ shown' = shown + chunk
                /\ IF chunk < count[p]
                   THEN /\ Step(p, "r_data", "r_io") /\ UNCHANGED io_mutex
                        /\ count' = [count EXCEPT ![p] = @ - chunk]
                        /\ served' = [served EXCEPT ![p] = TRUE]
                   ELSE LeaveRead(p, "r_data") /\ UNCHANGED <<count, served>>
        /\ UNCHANGED <<errors, coreVars, refVars, writeVars, reading, ongoing_read,
                       bulk_in_filled, given, back, calls>>

\* Mutant of StartRead: the buffer still counts as filled.
StartReadKeeps(p) ==
    /\ Step(p, "r_io", "r_submit")
    /\ ErrLockFree
    /\ ongoing_read' = TRUE
    /\ bulk_in_copied' = 0
    /\ UNCHANGED <<io_mutex, errors, coreVars, refVars, writeVars, reading,
                   bulk_in_filled, given, shown, callVars>>

\* Tells everybody to leave the URB alone.
StartRead(p) ==
    /\ Step(p, "r_io", "r_submit")
    /\ ErrLockFree
    /\ ongoing_read' = TRUE
    /\ bulk_in_filled' = 0 /\ bulk_in_copied' = 0
    /\ UNCHANGED <<io_mutex, errors, coreVars, refVars, writeVars, reading, given,
                   shown, callVars>>

\* Mutant of SubmitRead: a failed submission leaves the mark.
SubmitReadMarked(p) ==
    /\ \/ /\ attached
          /\ reading' = Least(BulkInSize, count[p])
          /\ IF served[p]
             THEN LeaveRead(p, "r_submit")
             ELSE Step(p, "r_submit", "r_loop") /\ UNCHANGED io_mutex
          /\ UNCHANGED ongoing_read
       \/ LeaveRead(p, "r_submit") /\ UNCHANGED <<ongoing_read, reading>>
    /\ UNCHANGED <<errors, coreVars, refVars, writeVars, bufferVars, callVars>>

\* usb_submit_urb.  A reader that was served does not wait for it, nor does it
\* look at its result.
SubmitRead(p) ==
    /\ \/ /\ attached
          /\ reading' = Least(BulkInSize, count[p])
          /\ IF served[p]
             THEN LeaveRead(p, "r_submit")
             ELSE Step(p, "r_submit", "r_loop") /\ UNCHANGED io_mutex
          /\ UNCHANGED ongoing_read
       \/ /\ ErrLockFree
          /\ ongoing_read' = FALSE
          /\ LeaveRead(p, "r_submit")
          /\ UNCHANGED reading
    /\ UNCHANGED <<errors, coreVars, refVars, writeVars, bufferVars, callVars>>

\* skel_read_bulk_callback, with data or with an error.
CompleteRead ==
    /\ reading > 0
    /\ ErrLockFree
    /\ reading' = 0
    /\ ongoing_read' = FALSE
    /\ \/ \E n \in 0 .. reading :
            /\ given + n <= MaxBytes
            /\ bulk_in_filled' = n
            /\ given' = given + n
            /\ UNCHANGED errors
       \/ errors' \in Statuses /\ UNCHANGED <<bulk_in_filled, given>>
    /\ UNCHANGED <<pc, io_mutex, coreVars, refVars, writeVars, bulk_in_copied, shown,
                   callVars>>

\* A signal ends the interruptible waits.
Signal(p) ==
    /\ \/ Step(p, "w_down", "idle") /\ limit_sem = 0 /\ UNCHANGED io_mutex
       \/ Step(p, "r_lock", "idle") /\ io_mutex # Nobody /\ UNCHANGED io_mutex
       \/ LeaveRead(p, "r_wait") /\ ongoing_read
    /\ p \notin NonBlocking \/ pc[p] = "r_lock"
    /\ UNCHANGED <<errors, coreVars, refVars, writeVars, readVars, callVars>>

-----------------------------------------------------------------------------
(* skel_draw_down, for flush, suspend and reset *)

\* Mutant of Drain: nothing is killed when the wait is over.
DrainGivesUp(a) ==
    /\ Step(a, "drain", "kill_read")
    /\ UNCHANGED <<io_mutex, errors, coreVars, refVars, writeVars, readVars, callVars>>

\* Waits for the anchor to be empty, for a second.
Drain(a) ==
    /\ Step(a, "drain", IF Anchored THEN "kill_writes" ELSE "kill_read")
    /\ UNCHANGED <<io_mutex, errors, coreVars, refVars, writeVars, readVars, callVars>>

KillWrites(a) ==
    /\ Step(a, "kill_writes", "kill_read")
    /\ ~Anchored
    /\ UNCHANGED <<io_mutex, errors, coreVars, refVars, writeVars, readVars, callVars>>

KillRead(a) ==
    /\ Step(a, "kill_read", back[a])
    /\ reading = 0
    /\ UNCHANGED <<io_mutex, errors, coreVars, refVars, writeVars, readVars, callVars>>

DrawDown(a) == Drain(a) \/ KillWrites(a) \/ KillRead(a)

BeginFlush(p) == Call(p, "f_lock") /\ UNCHANGED <<count, served>>

LockFlush(p) ==
    /\ Step(p, "f_lock", "drain")
    /\ Acquire(p)
    /\ back' = [back EXCEPT ![p] = "f_report"]
    /\ UNCHANGED <<errors, coreVars, refVars, writeVars, readVars, count, served, calls>>

\* Reads out the errors, for a clean slate.
ReportFlush(p) ==
    /\ Step(p, "f_report", "idle")
    /\ ErrLockFree
    /\ errors' = "none"
    /\ Unlock(p)
    /\ UNCHANGED <<coreVars, refVars, writeVars, readVars, callVars>>

-----------------------------------------------------------------------------
(* The hub thread *)

\* skel_probe allocates the device (or fails with nothing done), ...
ProbeBegins ==
    /\ Step(Core, "absent", "p_alloc")
    /\ kref' = 1
    /\ UNCHANGED <<io_mutex, errors, coreVars, freed, files, writeVars, readVars, callVars>>

\* ... finds its endpoints, allocates buffer and URB, ...
ProbeAllocates ==
    /\ \E there \in {"p_register", "p_error"} : Step(Core, "p_alloc", there)
    /\ UNCHANGED <<io_mutex, errors, coreVars, refVars, writeVars, readVars, callVars>>

\* ... and registers it, after which it can be opened; ...
ProbeRegisters ==
    /\ \/ Step(Core, "p_register", "bound") /\ registered' = TRUE
       \/ Step(Core, "p_register", "p_error") /\ UNCHANGED registered
    /\ UNCHANGED <<io_mutex, errors, attached, disconnected, refVars, writeVars, readVars,
                   callVars>>

\* ... its error path drops the reference.
ProbeFails ==
    /\ Step(Core, "p_error", "gone")
    /\ Put
    /\ UNCHANGED <<io_mutex, errors, coreVars, files, writeVars, readVars, callVars>>

\* The runtime power management suspends a device nobody has open.
Suspend ==
    /\ Step(Core, "bound", "drain")
    /\ files = {}
    /\ back' = [back EXCEPT ![Core] = "bound"]
    /\ UNCHANGED <<io_mutex, errors, coreVars, refVars, writeVars, readVars, count,
                   served, calls>>

ResetBegins ==
    /\ Step(Core, "bound", "pre_reset")
    /\ UNCHANGED <<io_mutex, errors, coreVars, refVars, writeVars, readVars, callVars>>

PreReset ==
    /\ Step(Core, "pre_reset", "drain")
    /\ Acquire(Core)
    /\ back' = [back EXCEPT ![Core] = "post_reset"]
    /\ UNCHANGED <<errors, coreVars, refVars, writeVars, readVars, count, served, calls>>

\* Writes the latch without err_lock, sure that no URB is active.
PostReset ==
    /\ Step(Core, "post_reset", "bound")
    /\ errors' = "EPIPE"
    /\ Unlock(Core)
    /\ UNCHANGED <<coreVars, refVars, writeVars, readVars, callVars>>

\* The device is unplugged or unbound: its endpoints are disabled.
DisconnectBegins ==
    /\ Step(Core, "bound", "deregister")
    /\ attached' = FALSE
    /\ UNCHANGED <<io_mutex, errors, registered, disconnected, refVars, writeVars, readVars,
                   callVars>>

Deregister ==
    /\ Step(Core, "deregister", "d_lock")
    /\ registered' = FALSE
    /\ UNCHANGED <<io_mutex, errors, attached, disconnected, refVars, writeVars, readVars,
                   callVars>>

LockDisconnect ==
    /\ Step(Core, "d_lock", "d_set")
    /\ Acquire(Core)
    /\ UNCHANGED <<errors, coreVars, refVars, writeVars, readVars, callVars>>

SetDisconnected ==
    /\ Step(Core, "d_set", "d_read")
    /\ disconnected' = TRUE
    /\ Unlock(Core)
    /\ UNCHANGED <<errors, attached, registered, refVars, writeVars, readVars, callVars>>

\* usb_kill_urb and usb_kill_anchored_urbs wait for the URBs they unlink.
DisconnectKills ==
    /\ \/ Step(Core, "d_read", "d_writes") /\ reading = 0
       \/ Step(Core, "d_writes", "d_put") /\ ~Anchored
    /\ UNCHANGED <<io_mutex, errors, coreVars, refVars, writeVars, readVars, callVars>>

\* After skel_disconnect the endpoints of a device that was only unbound are
\* enabled again.
DisconnectEnds ==
    /\ Step(Core, "d_put", "gone")
    /\ Put
    /\ attached' \in BOOLEAN
    /\ UNCHANGED <<io_mutex, errors, registered, disconnected, files, writeVars, readVars,
                   callVars>>

-----------------------------------------------------------------------------
Begin(p) == Open(p) \/ Release(p) \/ BeginWrite(p) \/ BeginRead(p) \/ BeginFlush(p)

WriteStep(p) ==
    \/ TakePermit(p) \/ RefuseWrite(p) \/ CheckErrors(p) \/ ClearErrors(p)
    \/ Allocate(p) \/ LockWrite(p) \/ Submit(p) \/ Unanchor(p) \/ GiveBack(p)

ReadStep(p) ==
    \/ LockRead(p) \/ EnterRead(p) \/ LoopRead(p) \/ WaitRead(p) \/ ReadErrors(p)
    \/ ReadClears(p) \/ ReadData(p) \/ StartRead(p) \/ SubmitRead(p)

FlushStep(p) == LockFlush(p) \/ ReportFlush(p)

ProcStep(p) == WriteStep(p) \/ ReadStep(p) \/ FlushStep(p) \/ DrawDown(p)

ProbeStep == ProbeBegins \/ ProbeAllocates \/ ProbeRegisters \/ ProbeFails

\* What the hub thread goes on with once it has begun.
CoreStep ==
    \/ PreReset \/ PostReset \/ Deregister \/ LockDisconnect \/ SetDisconnected
    \/ DisconnectKills \/ DisconnectEnds \/ DrawDown(Core)

Complete == CompleteWrite \/ CompleteRead

\* Somebody kills URBs, or the endpoints are disabled.
Unlinking ==
    \/ ~attached
    \/ \E a \in Actors : pc[a] \in {"kill_writes", "kill_read"}

Next ==
    \/ \E p \in Procs : Begin(p) \/ ProcStep(p) \/ Signal(p)
    \/ ProbeStep \/ Suspend \/ ResetBegins \/ DisconnectBegins \/ CoreStep
    \/ Complete

Spec == Init /\ [][Next]_vars

\* Processes and the hub thread go on, io_mutex and limit_sem are handed to their
\* waiters in turn, and a URB that is unlinked is given back.
FairSpec ==
    /\ Spec
    /\ \A p \in Procs : SF_vars(ProcStep(p))
    /\ SF_vars(CoreStep)
    /\ WF_vars(Unlinking /\ CompleteWrite) /\ WF_vars(Unlinking /\ CompleteRead)

-----------------------------------------------------------------------------
(* Properties *)

\* Every permit is in the semaphore, with one writer or with one URB in flight:
\* none is lost or given back twice on any path (usb-skeleton.c:374, :356, :462).
PermitsConserved ==
    limit_sem + submitted + Cardinality({p \in Procs : pc[p] \in Permitted})
        = WRITES_IN_FLIGHT

\* The device is freed only when no file is open, no URB is in flight and the hub
\* thread is done with it; callbacks take no reference (usb-skeleton.c:72, :582).
DeviceOutlivesUse ==
    freed => /\ files = {}
             /\ submitted = 0 /\ reading = 0
             /\ pc[Core] = "gone"
             /\ io_mutex = Nobody

\* Once skel_disconnect has killed the URBs, no other is ever submitted
\* (usb-skeleton.c:421, :573).
NothingAfterDisconnect ==
    pc[Core] \in {"d_put", "gone"} => submitted = 0 /\ reading = 0

\* When skel_draw_down has returned to flush or reset no URB is active and no read
\* is marked as under way (usb-skeleton.c:145, :626).
QuietAfterDrawDown ==
    \A a \in Actors :
      pc[a] \in {"f_report", "post_reset"} =>
        submitted = 0 /\ reading = 0 /\ ~ongoing_read

\* Every byte the device gave was handed to one reader, once, or is still in the
\* buffer, whatever readers, errors and resets come between (usb-skeleton.c:283-318).
BytesOnce ==
    /\ bulk_in_copied <= bulk_in_filled
    /\ shown + Available = given

\* Once the device is being taken away the hub thread is not held up for good, and
\* every call ends.
DisconnectReleasesAll ==
    pc[Core] = "deregister" ~>
      pc[Core] = "gone" /\ \A p \in Procs : pc[p] = "idle"

=============================================================================
