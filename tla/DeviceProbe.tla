----------------------------- MODULE DeviceProbe ----------------------------
(***************************************************************************)
(* The life of the devices of the five platform drivers of the repository: *)
(* probe, its error paths, remove, module init and exit, for               *)
(*   "modbus"    17_modbus_rtu/modbus_device/modbusdevice.c                *)
(*   "sysfs"     18_mod_sysfs/modbusdevice_sysfs.c                         *)
(*   "template"  pcd_template/serdev_driver.c                              *)
(*   "dt"        16_pcd_platform_dt/pcd_platform_driver_dt.c               *)
(*   "platform"  14_platform_driver/pcd_platform_driver.c                  *)
(* They are one design: a private structure that embeds a cdev, a device   *)
(* number, a node under /dev, and a global count of the devices.           *)
(*                                                                         *)
(* A device is a thread while it is probed or removed (the driver core     *)
(* locks each device, not the driver).  pc names the step or goto label it *)
(* is at.  In world "boot" devices are probed one after the other and are  *)
(* only removed by rmmod, last one first, as the READMEs deploy them; in   *)
(* "hotplug" overlays and sysfs bind and unbind devices at any time.       *)
(***************************************************************************)
EXTENDS Integers, Sequences

CONSTANTS
    Devices,    \* platform devices
    Legacy,     \* those registered from C and not from a device tree
    Id,         \* Id[d]: pdev->id, -1 for those from a device tree
    Registers,  \* Registers[d]: values its buffer is to hold
    Files,      \* file descriptors
    Drivers,    \* the drivers of this instance, see above
    Worlds,     \* subset of {"boot", "hotplug"}
    MaxProbes   \* bound on the probes

ASSUME LegacyAssumption == Legacy \subseteq Devices
ASSUME IdAssumption ==
    /\ Id \in [Devices -> Int]
    /\ \A d, e \in Legacy : Id[d] = Id[e] => d = e
ASSUME RegistersAssumption == Registers \in [Devices -> Nat \ {0}]
ASSUME DriversAssumption ==
    Drivers \subseteq {"modbus", "sysfs", "template", "dt", "platform"}
ASSUME ProbesAssumption == MaxProbes \in Nat
ASSUME WorldsAssumption == Worlds \subseteq {"boot", "hotplug"}

VARIABLES
    driver, world,  \* which driver is loaded, and where
    module,         \* module init and exit: "out", "region", "class", "live",
                    \* "exiting"
    total_devices,  \* the count in the driver's private data
    klist,          \* the driver core's list of the devices bound to it
    pc,             \* step or label of each device
    dev_num,        \* minor of each device, relative to the base
    loaded,         \* total_devices as read by a ++ or -- under way, 0 else
    private,        \* devices whose private data is allocated
    buffer,         \* buffer[d]: values its buffer has room for
    num_val,        \* num_val[d]: values its handlers read and write
    cdevs,          \* the kernel's map of cdevs, newest first
    nodes,          \* devices with a node in /dev
    file,           \* file[f]: the node it was opened by and the device whose
                    \* cdev answered, or Closed
    probes          \* number of probes so far

vars == <<driver, world, module, total_devices, klist, pc, dev_num, loaded,
          private, buffer, num_val, cdevs, nodes, file, probes>>

Closed == <<>>


WithAttributes == {"modbus", "sysfs"}
ProbeSteps == {"pdata", "private", "buffer", "number", "cdev", "node",
               "attribute", "values", "load", "store"}
UnwindLabels == {"dev_destroy", "cdev_del", "out"}
RemoveSteps == {"r_destroy", "r_cdev", "r_load", "r_store", "r_release"}
Settled == {"unbound", "bound"}
Labels == Settled \cup ProbeSteps \cup UnwindLabels \cup RemoveSteps \cup {"dead"}

TypeOK ==
    /\ driver \in Drivers /\ world \in Worlds
    /\ module \in {"out", "region", "class", "live", "exiting"}
    /\ total_devices \in Int
    /\ klist \in Seq(Devices)
    /\ pc \in [Devices -> Labels]
    /\ dev_num \in [Devices -> Int]
    /\ loaded \in [Devices -> Int]
    /\ private \subseteq Devices
    /\ buffer \in [Devices -> Nat]
    /\ num_val \in [Devices -> Nat]
    /\ cdevs \in Seq([minor : Int, of : Devices])
    /\ nodes \subseteq Devices
    /\ file \in [Files -> {Closed} \cup (Devices \X Devices)]
    /\ probes \in 0 .. MaxProbes

Init ==
    /\ driver \in Drivers /\ world \in Worlds
    /\ module = "out"
    /\ total_devices = 0
    /\ klist = <<>>
    /\ pc = [d \in Devices |-> "unbound"]
    /\ dev_num = [d \in Devices |-> 0]
    /\ loaded = [d \in Devices |-> 0]
    /\ private = {}
    /\ buffer = [d \in Devices |-> 0]
    /\ num_val = [d \in Devices |-> 0]
    /\ cdevs = <<>>
    /\ nodes = {}
    /\ file = [f \in Files |-> Closed]
    /\ probes = 0

moduleVars == <<driver, world, module>>
deviceVars == <<total_devices, klist, dev_num, loaded, private, buffer, num_val>>
kernelVars == <<cdevs, nodes, file, probes>>

At(d, step) == pc[d] = step
Goto(d, step) == pc' = [pc EXCEPT ![d] = step]
Quiet == \A d \in Devices : pc[d] \in Settled

(* What comes after a step of probe.                                       *)
Then(step) ==
    CASE step = "pdata" -> "private"
      [] step = "private" -> "buffer"
      [] step = "buffer" -> "number"
      [] step = "number" -> "cdev"
      [] step = "cdev" -> "node"
      [] step = "node" -> IF driver \in WithAttributes THEN "attribute" ELSE "load"
      [] step = "attribute" -> "values"
      [] step = "values" -> "load"
      [] step = "load" -> "store"

---------------------------------------------------------------------------
(* Module init.  Each of its steps may fail, and undoes those before it.   *)

AllocRegion ==
    /\ module = "out"
    /\ \/ /\ module' = "region" /\ total_devices' = 0
       \/ UNCHANGED <<module, total_devices>>
    /\ UNCHANGED <<driver, world, klist, dev_num, loaded, private, buffer,
                   num_val, pc, kernelVars>>

CreateClass ==
    /\ module = "region"
    /\ module' \in {"class", "out"}
    /\ UNCHANGED <<driver, world, deviceVars, pc, kernelVars>>

Register ==
    /\ module = "class"
    /\ module' \in {"live", "out"}
    /\ UNCHANGED <<driver, world, deviceVars, pc, kernelVars>>

---------------------------------------------------------------------------
(* Probe.                                                                  *)

(* The driver core: does this driver match this device?                    *)
Matches(d) ==
    IF d \in Legacy THEN driver \in {"template", "dt", "platform"}
                    ELSE driver # "platform"

Probe(d) ==
    /\ module = "live" /\ pc[d] = "unbound" /\ Matches(d)
    /\ world = "boot" => Quiet
    /\ probes < MaxProbes
    /\ probes' = probes + 1
    /\ Goto(d, "pdata")
    /\ UNCHANGED <<moduleVars, deviceVars, cdevs, nodes, file>>

GetPlatformData(d) ==
    /\ At(d, "pdata")
    /\ Goto(d, Then("pdata")) \/ Goto(d, "out")
    /\ UNCHANGED <<moduleVars, deviceVars, kernelVars>>

AllocPrivate(d) ==
    /\ At(d, "private")
    /\ \/ Goto(d, Then("private")) /\ private' = private \cup {d}
       \/ Goto(d, "out") /\ UNCHANGED private
    /\ UNCHANGED <<moduleVars, total_devices, klist, dev_num, loaded, buffer,
                   num_val, kernelVars>>

(* "modbus" sizes the buffer by num_val, which probe sets last of all.     *)
AllocBuffer(d) ==
    /\ At(d, "buffer")
    /\ \/ /\ Goto(d, Then("buffer"))
          /\ buffer' = [buffer EXCEPT ![d] = IF driver = "modbus" THEN num_val[d]
                                            ELSE Registers[d]]
          /\ num_val' = [num_val EXCEPT ![d] = IF driver = "modbus" THEN num_val[d]
                                              ELSE Registers[d]]
       \/ Goto(d, "out") /\ UNCHANGED <<buffer, num_val>>
    /\ UNCHANGED <<moduleVars, total_devices, klist, dev_num, loaded, private,
                   kernelVars>>

\* Mutant of TakeNumber: the device is counted here already, and again below.
TakeNumberCounts(d) ==
    /\ At(d, "number")
    /\ dev_num' = [dev_num EXCEPT ![d] = IF driver = "platform" THEN Id[d]
                                        ELSE total_devices]
    /\ total_devices' = total_devices + 1
    /\ Goto(d, Then("number"))
    /\ UNCHANGED <<moduleVars, klist, loaded, private, buffer, num_val, kernelVars>>

\* Mutant of TakeNumber: "platform" counts its devices like the others.
TakeNumberByCount(d) ==
    /\ At(d, "number")
    /\ dev_num' = [dev_num EXCEPT ![d] = total_devices]
    /\ Goto(d, Then("number"))
    /\ UNCHANGED <<moduleVars, total_devices, klist, loaded, private, buffer,
                   num_val, kernelVars>>

(* The minor, relative to the base; a count below 0 makes it a number far  *)
(* away.                                                                   *)
TakeNumber(d) ==
    /\ At(d, "number")
    /\ dev_num' = [dev_num EXCEPT ![d] = IF driver = "platform" THEN Id[d]
                                        ELSE total_devices]
    /\ Goto(d, Then("number"))
    /\ UNCHANGED <<moduleVars, total_devices, klist, loaded, private, buffer,
                   num_val, kernelVars>>

(* cdev_add: the kernel accepts a second cdev for a number.                *)
CdevAdd(d) ==
    /\ At(d, "cdev")
    /\ \/ /\ Goto(d, Then("cdev"))
          /\ cdevs' = <<[minor |-> dev_num[d], of |-> d]>> \o cdevs
       \/ Goto(d, "out") /\ UNCHANGED cdevs
    /\ UNCHANGED <<moduleVars, deviceVars, nodes, file, probes>>

(* device_create: the kernel refuses a second node for a number.           *)
Taken(n) == \E e \in nodes : dev_num[e] = n

DeviceCreate(d) ==
    /\ At(d, "node")
    /\ \/ /\ ~Taken(dev_num[d])
          /\ nodes' = nodes \cup {d}
          /\ Goto(d, Then("node"))
       \/ Goto(d, "cdev_del") /\ UNCHANGED nodes
       \/ /\ driver = "dt" /\ d \in Legacy     \* match is not set
          /\ Goto(d, "dead") /\ UNCHANGED nodes
    /\ UNCHANGED <<moduleVars, deviceVars, cdevs, file, probes>>

CreateAttribute(d) ==
    /\ At(d, "attribute")
    /\ Goto(d, Then("attribute")) \/ Goto(d, "dev_destroy")
    /\ UNCHANGED <<moduleVars, deviceVars, kernelVars>>

\* Mutant of CreateValues: its failure jumps to the label after the right one.
CreateValuesLeaves(d) ==
    /\ At(d, "values")
    /\ \/ /\ Goto(d, Then("values"))
          /\ num_val' = [num_val EXCEPT ![d] = Registers[d]]
       \/ Goto(d, "cdev_del") /\ UNCHANGED num_val
    /\ UNCHANGED <<moduleVars, total_devices, klist, dev_num, loaded, private,
                   buffer, kernelVars>>

(* The attributes of the values: one by one, or as a group in "sysfs".     *)
CreateValues(d) ==
    /\ At(d, "values")
    /\ \/ /\ Goto(d, Then("values"))
          /\ num_val' = [num_val EXCEPT ![d] = Registers[d]]
       \/ /\ Goto(d, "dev_destroy")
          /\ \/ UNCHANGED num_val
             \/ driver = "modbus" /\ num_val' = [num_val EXCEPT ![d] = Registers[d]]
    /\ UNCHANGED <<moduleVars, total_devices, klist, dev_num, loaded, private,
                   buffer, kernelVars>>

(* total_devices++, which no lock protects.                                *)
LoadCount(d) ==
    /\ At(d, "load")
    /\ loaded' = [loaded EXCEPT ![d] = total_devices]
    /\ Goto(d, Then("load"))
    /\ UNCHANGED <<moduleVars, total_devices, klist, dev_num, private, buffer,
                   num_val, kernelVars>>

(* ... after which probe has succeeded and the driver core binds.          *)
StoreCount(d) ==
    /\ At(d, "store")
    /\ total_devices' = loaded[d] + 1
    /\ loaded' = [loaded EXCEPT ![d] = 0]
    /\ klist' = Append(klist, d)
    /\ Goto(d, "bound")
    /\ UNCHANGED <<moduleVars, dev_num, private, buffer, num_val, kernelVars>>

---------------------------------------------------------------------------
(* The labels at the end of probe, and remove.                             *)

(* device_destroy looks the node up by its number.                         *)
DeviceDestroy(d) ==
    /\ \/ At(d, "dev_destroy") /\ Goto(d, "cdev_del")
       \/ At(d, "r_destroy") /\ Goto(d, "r_cdev")
    /\ nodes' = {e \in nodes : dev_num[e] # dev_num[d]}
    /\ UNCHANGED <<moduleVars, deviceVars, cdevs, file, probes>>

(* cdev_del drops the newest entry of the number, whoever's it is.         *)
Newest(k, n) ==
    /\ k \in DOMAIN cdevs /\ cdevs[k].minor = n
    /\ \A j \in 1 .. k - 1 : cdevs[j].minor # n

Without(s, k) ==
    [j \in 1 .. Len(s) - 1 |-> IF j < k THEN s[j] ELSE s[j + 1]]

\* Mutant of CdevDel: probe's error path does not delete the cdev.
CdevDelNot(d) ==
    /\ \/ At(d, "cdev_del") /\ Goto(d, "out") /\ UNCHANGED cdevs
       \/ /\ At(d, "r_cdev") /\ Goto(d, "r_load")
          /\ \E k \in DOMAIN cdevs :
               Newest(k, dev_num[d]) /\ cdevs' = Without(cdevs, k)
    /\ UNCHANGED <<moduleVars, deviceVars, nodes, file, probes>>

CdevDel(d) ==
    /\ \/ At(d, "cdev_del") /\ Goto(d, "out")
       \/ At(d, "r_cdev") /\ Goto(d, "r_load")
    /\ \E k \in DOMAIN cdevs :
         Newest(k, dev_num[d]) /\ cdevs' = Without(cdevs, k)
    /\ UNCHANGED <<moduleVars, deviceVars, nodes, file, probes>>

(* The driver core frees what probe got by the devm functions.             *)
Release(d) ==
    /\ private' = private \ {d}
    /\ dev_num' = [dev_num EXCEPT ![d] = 0]
    /\ buffer' = [buffer EXCEPT ![d] = 0]
    /\ num_val' = [num_val EXCEPT ![d] = 0]
    /\ Goto(d, "unbound")

ProbeFails(d) ==
    /\ At(d, "out")
    /\ Release(d)
    /\ UNCHANGED <<moduleVars, total_devices, klist, loaded, kernelVars>>

(* The device goes away, or is unbound through sysfs.                      *)
Unbind(d) ==
    /\ world = "hotplug"
    /\ module \in {"live", "exiting"}
    /\ At(d, "bound")
    /\ Goto(d, "r_destroy")
    /\ UNCHANGED <<moduleVars, deviceVars, kernelVars>>

(* total_devices--                                                         *)
LoadLess(d) ==
    /\ At(d, "r_load")
    /\ loaded' = [loaded EXCEPT ![d] = total_devices]
    /\ Goto(d, "r_store")
    /\ UNCHANGED <<moduleVars, total_devices, klist, dev_num, private, buffer,
                   num_val, kernelVars>>

StoreLess(d) ==
    /\ At(d, "r_store")
    /\ total_devices' = loaded[d] - 1
    /\ loaded' = [loaded EXCEPT ![d] = 0]
    /\ Goto(d, "r_release")
    /\ UNCHANGED <<moduleVars, klist, dev_num, private, buffer, num_val,
                   kernelVars>>

Removed(d) ==
    /\ At(d, "r_release")
    /\ Release(d)
    /\ \E k \in DOMAIN klist :
         klist[k] = d /\ klist' = Without(klist, k)
    /\ UNCHANGED <<moduleVars, total_devices, loaded, kernelVars>>

---------------------------------------------------------------------------
(* Module exit.  An open file holds the module; a probe under way is       *)
(* waited for.                                                             *)

\* Mutant of ExitBegins: without .owner open files do not hold the module.
ExitBeginsAnyway ==
    /\ module = "live" /\ Quiet
    /\ module' = "exiting"
    /\ UNCHANGED <<driver, world, deviceVars, pc, kernelVars>>

ExitBegins ==
    /\ module = "live" /\ Quiet
    /\ \A f \in Files : file[f] = Closed
    /\ module' = "exiting"
    /\ UNCHANGED <<driver, world, deviceVars, pc, kernelVars>>

(* driver_detach: the last device of the list.                             *)
Detach ==
    /\ module = "exiting" /\ klist # <<>>
    /\ world = "boot" => Quiet
    /\ LET d == klist[Len(klist)]
       IN At(d, "bound") /\ Goto(d, "r_destroy")
    /\ UNCHANGED <<moduleVars, deviceVars, kernelVars>>

ExitEnds ==
    /\ module = "exiting" /\ klist = <<>>
    /\ module' = "out"
    /\ UNCHANGED <<driver, world, deviceVars, pc, kernelVars>>

---------------------------------------------------------------------------
(* Files: chrdev_open finds the newest cdev of the node's number.  "sysfs" *)
(* never sets the permission its open tests, and refuses every process.    *)

Open(f, d) ==
    /\ module = "live" /\ driver # "sysfs" /\ file[f] = Closed /\ d \in nodes
    /\ \E k \in DOMAIN cdevs :
         /\ Newest(k, dev_num[d])
         /\ file' = [file EXCEPT ![f] = <<d, cdevs[k].of>>]
    /\ UNCHANGED <<moduleVars, deviceVars, pc, cdevs, nodes, probes>>

Close(f) ==
    /\ file[f] # Closed
    /\ file' = [file EXCEPT ![f] = Closed]
    /\ UNCHANGED <<moduleVars, deviceVars, pc, cdevs, nodes, probes>>

---------------------------------------------------------------------------
DeviceNext(d) ==
    \/ Probe(d) \/ GetPlatformData(d) \/ AllocPrivate(d) \/ AllocBuffer(d)
    \/ TakeNumber(d) \/ CdevAdd(d) \/ DeviceCreate(d) \/ CreateAttribute(d)
    \/ CreateValues(d) \/ LoadCount(d) \/ StoreCount(d)
    \/ DeviceDestroy(d) \/ CdevDel(d) \/ ProbeFails(d)
    \/ Unbind(d) \/ LoadLess(d) \/ StoreLess(d) \/ Removed(d)

Next ==
    \/ AllocRegion \/ CreateClass \/ Register
    \/ ExitBegins \/ Detach \/ ExitEnds
    \/ \E d \in Devices : DeviceNext(d)
    \/ \E f \in Files : Close(f) \/ \E d \in Devices : Open(f, d)

Spec == Init /\ [][Next]_vars

---------------------------------------------------------------------------
(* Where a number belongs to one device at a time: the count is only       *)
(* consistent with the numbers in use at boot, an id always is.            *)
Numbered == world = "boot" \/ driver = "platform"

(* Where the count numbers the devices, those bound have the numbers       *)
(* 0, 1, 2, ... in the order of their probes, so that no number is in use  *)
(* twice and MAX_DEVICES devices fit the region.                           *)
NumbersAreDense ==
    world = "boot" /\ driver # "platform" =>
        \A k \in 1 .. Len(klist) : dev_num[klist[k]] = k - 1

(* The kernel's map never leads to a cdev whose memory is freed: whoever   *)
(* removes a cdev, it is its own.                                          *)
MapIsLive == Numbered => \A k \in DOMAIN cdevs : cdevs[k].of \in private

(* The node of a device opens that device.                                 *)
NodeOpensItsDevice ==
    Numbered => \A f \in Files : file[f] # Closed => file[f][1] = file[f][2]

(* A file never outlives the private data it uses.  A probe of "modbus"    *)
(* creates attributes after the node and may fail when a file is open.     *)
FilesAreBacked ==
    world = "boot" /\ driver # "modbus" =>
        \A f \in Files : file[f] # Closed => file[f][2] \in private

(* The unloaded module leaves no cdev, no node and no memory, whichever    *)
(* probes failed and whoever shared a number.                              *)
UnloadLeavesNothing ==
    module = "out" => cdevs = <<>> /\ nodes = {} /\ private = {}

=============================================================================
