------------------------------ MODULE CharFile ------------------------------
(***************************************************************************)
(* The files of the repository's character devices: open, llseek, read,    *)
(* write and release over one fixed buffer, and the init and exit of the   *)
(* modules that create the devices themselves, for                         *)
(*   "pcd"       03_hello_cdev/pcd.c                                       *)
(*   "pcd_n"     15_pcd_mutiple/pcd_n.c                                    *)
(*   "text"      05_read_write_cdev/hello_cdev.c                           *)
(*   "template"  pcd_template/serdev_syscalls.c                            *)
(*   "sysfs"     18_mod_sysfs/modbusdevice_syscalls.c                      *)
(*   "modbus"    17_modbus_rtu/modbus_device/modbusdevice_syscalls.c       *)
(* For the last three the module is loaded and has its device throughout   *)
(* (DeviceProbe models the life of platform devices).  "text" registers a  *)
(* number and no node, and has no .owner; its node is made by mknod.       *)
(*                                                                         *)
(* Processes are threads in a system call.  An open file may be shared: by *)
(* threads, after fork, after dup.  The kernel takes no lock on the        *)
(* position of a character device: read and write work on a copy that is   *)
(* stored when they succeed, pread and pwrite on a position of their own,  *)
(* and llseek writes the position directly.  What the bytes are does not   *)
(* matter here; where a call may begin and end does.                       *)
(*                                                                         *)
(* Size is the limit that the calls compare with.  It is also the room in  *)
(* the buffer, except for "modbus", whose probe allocates the buffer       *)
(* before it sets the number of values that the limit comes from           *)
(* (modbusdevice.c:254-255, :296, :299).  That buffer has no room, and a   *)
(* read that copies anything does so outside of it, besides adding the     *)
(* position to a pointer to words (modbusdevice_syscalls.c:292).  Nothing  *)
(* here is claimed of what the reads of "modbus" touch.                    *)
(***************************************************************************)
EXTENDS Integers

CONSTANTS
    Procs,
    Files,          \* open files
    Users,          \* Users[f]: the processes that share file f
    Drivers,        \* the drivers of this instance, see above
    Number,         \* NO_OF_DEVICES
    Perm,           \* Perm[d]: permission of device d of "pcd_n" and "template"
    Size,           \* what positions and counts are limited by, in bytes
    Command,        \* size of a command of "modbus"
    MaxPosition     \* bound on the positions and counts of calls

ASSUME UsersAssumption == Users \in [Files -> SUBSET Procs]
ASSUME NumberAssumption == Number \in Nat \ {0}
ASSUME PermAssumption == Perm \in [0 .. Number - 1 -> {"RD_ONLY", "WR_ONLY", "RD_WR"}]
ASSUME SizeAssumption ==
    Size \in Nat /\ Command \in Nat \ {0} /\ MaxPosition \in Nat
ASSUME DriversAssumption ==
    Drivers \subseteq {"pcd", "pcd_n", "text", "template", "sysfs", "modbus"}

VARIABLES
    driver,
    step,       \* where module init or exit is: "out" and "live" are at rest
    index,      \* i, the device it is at
    ret,        \* what init will return: "ok", "error", or, where it is not
                \* an error number, "zero" or "garbage"
    exiting,    \* it is module exit
    region, class, cdevs, nodes,        \* what is registered
    file,       \* file[f]: device and mode it is open with, or Closed
    f_pos,      \* position of each file
    pc,         \* pc[p]: step of p's call
    call        \* call[p]: what its call is about

moduleVars == <<driver, step, index, ret, exiting, region, class, cdevs, nodes>>
vars == <<moduleVars, file, f_pos, pc, call>>

Closed == <<>>
Modes == {{"read"}, {"write"}, {"read", "write"}}
Indices == IF driver = "pcd_n" THEN 0 .. Number - 1 ELSE {0}
Loads == {"pcd", "pcd_n", "text"}
AtRest == {"out", "live"}
MakeSteps == {"class", "cdev", "node"}
UndoSteps == {"undo_node", "undo_cdev", "undo_class", "undo_region"}

(* own: the call works on a copy of the file's position and not on one of  *)
(* its caller's.  at: that position.  n: the bytes that are left of count. *)
Call == [file : Files, op : {"read", "write", "seek"}, own : BOOLEAN,
         at : Nat, n : Int]
NoCall == <<>>

TypeOK ==
    /\ driver \in Drivers
    /\ step \in AtRest \cup MakeSteps \cup UndoSteps
    /\ index \in 0 .. Number - 1
    /\ ret \in {"ok", "error", "zero", "garbage"}
    /\ exiting \in BOOLEAN /\ region \in BOOLEAN /\ class \in BOOLEAN
    /\ cdevs \subseteq 0 .. Number - 1
    /\ nodes \subseteq 0 .. Number - 1
    /\ file \in [Files -> {Closed} \cup (0 .. Number - 1) \X Modes]
    /\ f_pos \in [Files -> Nat]
    /\ pc \in [Procs -> {"idle", "copy", "return", "tell"}]
    /\ call \in [Procs -> Call \cup {NoCall}]
    /\ \A p \in Procs : /\ pc[p] # "idle" => call[p] \in Call
                        /\ pc[p] = "return" => call[p].n >= 0

Init ==
    /\ driver \in Drivers
    /\ index = 0 /\ ret = "ok" /\ exiting = FALSE
    /\ LET there == driver \notin Loads
       IN  /\ step = (IF there THEN "live" ELSE "out")
           /\ region = there /\ class = there
           /\ cdevs = (IF there THEN {0} ELSE {})
           /\ nodes = (IF there THEN {0} ELSE {})
    /\ file = [f \in Files |-> Closed]
    /\ f_pos = [f \in Files |-> 0]
    /\ pc = [p \in Procs |-> "idle"]
    /\ call = [p \in Procs |-> NoCall]

---------------------------------------------------------------------------
(* Module init of "pcd", "pcd_n" and "text".                               *)

UNCHANGED_files == UNCHANGED <<file, f_pos, pc, call>>

(* A module that was freed under an open file: what its users do next is   *)
(* not defined, and the behaviour ends.                                    *)
Crashed == step = "out" /\ \E f \in Files : file[f] # Closed

(* When the region cannot be got, both return PTR_ERR of a class that is   *)
(* still NULL: init succeeds.                                              *)
AllocRegion ==
    /\ driver \in {"pcd", "pcd_n"} /\ step = "out" /\ ~Crashed
    /\ index' = 0 /\ exiting' = FALSE
    /\ \/ region' = TRUE /\ ret' = "ok"
          /\ step' = IF driver = "pcd" THEN "cdev" ELSE "class"
       \/ region' = FALSE /\ ret' = "zero" /\ step' = "live"
    /\ UNCHANGED <<driver, class, cdevs, nodes>> /\ UNCHANGED_files

(* register_chrdev gets region and cdev at once, or nothing and init fails.*)
RegisterChrdev ==
    /\ driver = "text" /\ step = "out" /\ ~Crashed
    /\ region' = TRUE /\ cdevs' = {0} /\ step' = "live"
    /\ exiting' = FALSE /\ ret' = "ok"
    /\ UNCHANGED <<driver, index, class, nodes>> /\ UNCHANGED_files

CreateClass ==
    /\ step = "class"
    /\ \/ class' = TRUE /\ step' = (IF driver = "pcd" THEN "node" ELSE "cdev")
          /\ UNCHANGED ret
       \/ step' = (IF driver = "pcd" THEN "undo_cdev" ELSE "undo_region")
          /\ ret' = "error" /\ UNCHANGED class
    /\ UNCHANGED <<driver, index, exiting, region, cdevs, nodes>>
    /\ UNCHANGED_files

(* When cdev_add fails, "pcd" returns PTR_ERR of the class, still NULL,    *)
(* and "pcd_n" PTR_ERR of the address of the cdev.                         *)
CdevAdd ==
    /\ step = "cdev"
    /\ \/ cdevs' = cdevs \cup {index}
          /\ step' = (IF driver = "pcd" THEN "class" ELSE "node")
          /\ UNCHANGED ret
       \/ /\ step' = IF driver = "pcd" THEN "undo_region" ELSE "undo_node"
          /\ ret' = IF driver = "pcd" THEN "zero" ELSE "garbage"
          /\ UNCHANGED cdevs
    /\ UNCHANGED <<driver, index, exiting, region, class, nodes>>
    /\ UNCHANGED_files

\* Mutant of DeviceCreate: "pcd" jumps to the label after the right one.
DeviceCreateLeaves ==
    /\ step = "node"
    /\ \/ /\ nodes' = nodes \cup {index}
          /\ IF driver = "pcd_n" /\ index + 1 < Number
             THEN step' = "cdev" /\ index' = index + 1
             ELSE step' = "live" /\ UNCHANGED index
          /\ UNCHANGED ret
       \/ /\ step' = IF driver = "pcd" THEN "undo_cdev" ELSE "undo_node"
          /\ ret' = "error" /\ UNCHANGED <<index, nodes>>
    /\ UNCHANGED <<driver, exiting, region, class, cdevs>> /\ UNCHANGED_files

DeviceCreate ==
    /\ step = "node"
    /\ \/ /\ nodes' = nodes \cup {index}
          /\ IF driver = "pcd_n" /\ index + 1 < Number
             THEN step' = "cdev" /\ index' = index + 1
             ELSE step' = "live" /\ UNCHANGED index
          /\ UNCHANGED ret
       \/ /\ step' = IF driver = "pcd" THEN "undo_class" ELSE "undo_node"
          /\ ret' = "error" /\ UNCHANGED <<index, nodes>>
    /\ UNCHANGED <<driver, exiting, region, class, cdevs>> /\ UNCHANGED_files

---------------------------------------------------------------------------
(* The error paths and module exit.  An open file holds the module if its  *)
(* operations have an owner, which "text" lacks.  "pcd_n" counts down from the device   *)
(* that failed, destroying what it may not have; exit counts up.           *)

\* Mutant of ExitBegins: without .owner open files do not hold the module.
ExitBeginsAnyway ==
    /\ driver \in Loads /\ step = "live"
    /\ exiting' = TRUE /\ index' = 0
    /\ step' = IF driver = "text" THEN "undo_region" ELSE "undo_node"
    /\ UNCHANGED <<driver, ret, region, class, cdevs, nodes>>
    /\ UNCHANGED_files

ExitBegins ==
    /\ driver \in Loads /\ step = "live"
    /\ driver = "text" \/ \A f \in Files : file[f] = Closed
    /\ exiting' = TRUE /\ index' = 0
    /\ step' = IF driver = "text" THEN "undo_region" ELSE "undo_node"
    /\ UNCHANGED <<driver, ret, region, class, cdevs, nodes>>
    /\ UNCHANGED_files

DestroyNode ==
    /\ step = "undo_node"
    /\ nodes' = nodes \ {index}
    /\ step' = IF driver = "pcd" THEN "undo_class" ELSE "undo_cdev"
    /\ UNCHANGED <<driver, index, ret, exiting, region, class, cdevs>>
    /\ UNCHANGED_files

\* Mutant of DeleteCdev: the error path does not count down.
DeleteCdevStays ==
    /\ step = "undo_cdev"
    /\ cdevs' = cdevs \ {index}
    /\ LET next == IF exiting THEN index + 1 ELSE index
       IN  IF driver = "pcd"
           THEN step' = "undo_region" /\ UNCHANGED index
           ELSE IF next \in Indices
                THEN step' = "undo_node" /\ index' = next
                ELSE step' = "undo_class" /\ UNCHANGED index
    /\ UNCHANGED <<driver, ret, exiting, region, class, nodes>>
    /\ UNCHANGED_files

DeleteCdev ==
    /\ step = "undo_cdev"
    /\ cdevs' = cdevs \ {index}
    /\ LET next == IF exiting THEN index + 1 ELSE index - 1
       IN  IF driver = "pcd"
           THEN step' = "undo_region" /\ UNCHANGED index
           ELSE IF next \in Indices
                THEN step' = "undo_node" /\ index' = next
                ELSE step' = "undo_class" /\ UNCHANGED index
    /\ UNCHANGED <<driver, ret, exiting, region, class, nodes>>
    /\ UNCHANGED_files

DestroyClass ==
    /\ step = "undo_class"
    /\ class' = FALSE
    /\ step' = IF driver = "pcd" THEN "undo_cdev" ELSE "undo_region"
    /\ UNCHANGED <<driver, index, ret, exiting, region, cdevs, nodes>>
    /\ UNCHANGED_files

(* Any number but an error number lets the module stay.  The number of     *)
(* "text" goes with its cdev.                                              *)
UnregisterRegion ==
    /\ step = "undo_region"
    /\ region' = FALSE
    /\ cdevs' = IF driver = "text" THEN {} ELSE cdevs
    /\ \/ (exiting \/ ret \in {"error", "garbage"}) /\ step' = "out"
       \/ ~exiting /\ ret \in {"zero", "garbage"} /\ step' = "live"
    /\ UNCHANGED <<driver, index, ret, exiting, class, nodes>>
    /\ UNCHANGED_files

ModuleStep ==
    \/ CreateClass \/ CdevAdd \/ DeviceCreate
    \/ DestroyNode \/ DeleteCdev \/ DestroyClass \/ UnregisterRegion

---------------------------------------------------------------------------
(* open and release.                                                       *)

(* "sysfs" never sets the permission it tests; "pcd" and "text" test none. *)
PermOf(d) ==
    CASE driver \in {"pcd_n", "template"} -> Perm[d]
      [] driver = "sysfs" -> "unset"
      [] OTHER -> "RD_WR"

check_permission(perm, mode) ==
    \/ perm = "RD_WR"
    \/ perm = "RD_ONLY" /\ mode = {"read"}
    \/ perm = "WR_ONLY" /\ mode = {"write"}

(* A node may be opened as soon as it is there, while init is under way;   *)
(* what has an owner cannot be opened once exit has begun.                 *)
Open(f, d, mode) ==
    /\ file[f] = Closed /\ ~Crashed
    /\ IF driver = "text" THEN d \in cdevs ELSE ~exiting /\ d \in nodes \cap cdevs
    /\ check_permission(PermOf(d), mode)
    /\ file' = [file EXCEPT ![f] = <<d, mode>>]
    /\ UNCHANGED <<moduleVars, f_pos, pc, call>>

(* The last descriptor is closed; a call under way holds the file, and the *)
(* next file of the same name starts at 0.                                 *)
Release(f) ==
    /\ file[f] # Closed /\ ~Crashed
    /\ \A p \in Procs : pc[p] # "idle" => call[p].file # f
    /\ file' = [file EXCEPT ![f] = Closed]
    /\ f_pos' = [f_pos EXCEPT ![f] = 0]
    /\ UNCHANGED <<moduleVars, pc, call>>

---------------------------------------------------------------------------
(* read, write and llseek.                                                 *)

(* if (count + *f_pos > max_size) count = max_size - *f_pos.  The counts   *)
(* are unsigned: a negative one is a huge one, which the copy refuses.     *)
Clip(at, count) == IF at + count > Size THEN Size - at ELSE count

Return(p) ==
    /\ pc' = [pc EXCEPT ![p] = "idle"]
    /\ call' = [call EXCEPT ![p] = NoCall]

(* A command of "modbus" is copied to the stack and not to the buffer.     *)
IsCommand(op) == driver = "modbus" /\ op = "write"

StartIO(p, f, op, own, count) ==
    /\ pc[p] = "idle" /\ p \in Users[f]
    /\ file[f] # Closed /\ op \in file[f][2] /\ ~Crashed
    /\ \E at \in IF own THEN {f_pos[f]} ELSE 0 .. MaxPosition :
         call' = [call EXCEPT ![p] =
             [file |-> f, op |-> op, own |-> own, at |-> at,
              n |-> IF IsCommand(op) THEN count ELSE Clip(at, count)]]
    /\ pc' = [pc EXCEPT ![p] = "copy"]
    /\ UNCHANGED <<moduleVars, file, f_pos>>

(* "text" reports the end of the file before it copies, and a copy that    *)
(* stops half-way; for the others half a copy is EFAULT.  A write of no    *)
(* bytes is ENOMEM.  A command has its size or is refused.                 *)
Copied(c) ==
    CASE IsCommand(c.op) ->
           IF c.n = Command /\ c.at + c.n <= MaxPosition THEN {c.n} ELSE {}
      [] driver = "text" -> IF c.at >= Size THEN {0} ELSE 0 .. c.n
      [] OTHER -> {n \in {c.n} : n > 0 \/ (n = 0 /\ c.op = "read")}

CopyDone(p) ==
    /\ pc[p] = "copy" /\ ~Crashed
    /\ \E n \in Copied(call[p]) : call' = [call EXCEPT ![p].n = n]
    /\ pc' = [pc EXCEPT ![p] = "return"]
    /\ UNCHANGED <<moduleVars, file, f_pos>>

(* Every call may fail: a bad address, a refused count or command, and, in *)
(* "modbus", a sensor that does not answer.                                *)
CopyFails(p) ==
    /\ pc[p] = "copy" /\ ~Crashed
    /\ Return(p)
    /\ UNCHANGED <<moduleVars, file, f_pos>>

\* Mutant of FinishIO: the count is added to where the file is by now.
FinishAdds(p) ==
    /\ pc[p] = "return" /\ ~Crashed
    /\ LET c == call[p]
       IN  IF c.own
           THEN f_pos' = [f_pos EXCEPT ![c.file] = @ + c.n]
           ELSE UNCHANGED f_pos
    /\ Return(p)
    /\ UNCHANGED <<moduleVars, file>>

(* *f_pos += count, and the kernel stores what the call worked on.         *)
FinishIO(p) ==
    /\ pc[p] = "return" /\ ~Crashed
    /\ LET c == call[p]
       IN  IF c.own
           THEN f_pos' = [f_pos EXCEPT ![c.file] = c.at + c.n]
           ELSE UNCHANGED f_pos
    /\ Return(p)
    /\ UNCHANGED <<moduleVars, file>>

(* Whatever off and whence are, the target is refused outside the buffer,  *)
(* and its end is in.  "text" cannot seek.                                 *)
Targets == 0 .. Size

Seek(p, f, target) ==
    /\ pc[p] = "idle" /\ p \in Users[f]
    /\ file[f] # Closed /\ driver # "text" /\ ~Crashed
    /\ target \in Targets
    /\ f_pos' = [f_pos EXCEPT ![f] = target]
    /\ call' = [call EXCEPT ![p] = [file |-> f, op |-> "seek", own |-> FALSE,
                                   at |-> target, n |-> 0]]
    /\ pc' = [pc EXCEPT ![p] = "tell"]
    /\ UNCHANGED <<moduleVars, file>>

(* return filp->f_pos: the position is read again, when another user may   *)
(* have moved it.                                                          *)
Tell(p) ==
    /\ pc[p] = "tell" /\ ~Crashed
    /\ Return(p)
    /\ UNCHANGED <<moduleVars, file, f_pos>>

Next ==
    \/ AllocRegion \/ RegisterChrdev \/ ModuleStep \/ ExitBegins
    \/ \E f \in Files : \/ \E d \in Indices, mode \in Modes : Open(f, d, mode)
                       \/ Release(f)
    \/ \E p \in Procs, f \in Files :
          \/ \E op \in {"read", "write"}, own \in BOOLEAN, count \in 0 .. MaxPosition :
               StartIO(p, f, op, own, count)
          \/ \E target \in 0 .. MaxPosition : Seek(p, f, target)
    \/ \E p \in Procs : CopyDone(p) \/ CopyFails(p) \/ FinishIO(p) \/ Tell(p)

(* init and exit do not sleep for ever.                                    *)
Spec == Init /\ [][Next]_vars /\ WF_vars(ModuleStep)

---------------------------------------------------------------------------
(* Properties.                                                             *)

(* However calls of several users of a file overlap, and whichever stores  *)
(* its copy last, the position stays in the buffer or at its end, which    *)
(* the clipping of counts relies on: past the end it would come out as a   *)
(* huge count.  A command of "modbus" does move it there, and later reads  *)
(* fail.                                                                   *)
PositionInRange ==
    driver # "modbus" => \A f \in Files : f_pos[f] <= Size

(* The bytes that a read or write touches are in the buffer, whatever      *)
(* other users of the file do to its position meanwhile.  "sysfs" adds the *)
(* position to a pointer to words, but cannot be opened; "modbus", see     *)
(* above, is not covered.                                                  *)
AccessInBounds ==
    driver \notin {"sysfs", "modbus"} =>
        \A p \in Procs :
            (pc[p] = "return" /\ call[p].n > 0) => call[p].at + call[p].n <= Size

(* A device that can be opened by its node is served by a cdev and belongs *)
(* to a class and a region that are still there, at every step of init, of *)
(* its error paths and of exit.                                            *)
NodesAreServed ==
    nodes # {} => nodes \subseteq cdevs /\ class /\ region

(* init leaves all of its devices or, with the region it failed to get,    *)
(* none; and a module that failed or left has left nothing registered.     *)
AllOrNothing ==
    /\ step = "live" => /\ cdevs \in {{}, Indices} /\ region = (cdevs # {})
                        /\ driver # "text" => nodes = cdevs /\ class = region
    /\ step = "out" => nodes = {} /\ cdevs = {} /\ ~class /\ ~region

(* A module in use is not freed.  "text" is not covered, since its files   *)
(* have no owner; nor is "pcd_n", whose first nodes can be opened while    *)
(* init still makes the others and may fail.                               *)
FilesHoldModule ==
    driver \notin {"pcd_n", "text"} =>
        (step = "out" => \A f \in Files : file[f] = Closed)

(* init ends wherever it fails, and so does exit: the loops that unwind    *)
(* and that destroy reach their bound.                                     *)
LoadingEnds == (step \notin AtRest) ~> (step \in AtRest)
=============================================================================
