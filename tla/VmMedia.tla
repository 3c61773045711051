------------------------------- MODULE VmMedia -------------------------------
(***************************************************************************)
(* Disk images and what is attached where: creating a VM with its system   *)
(* disk and undoing a create that failed (internal/vbox/createvm.go),      *)
(* adding and detaching disks (storage.go), the optical drive (dvd.go), the *)
(* Guest Additions disc (guestadditions.go) and the deletion of a VM       *)
(* (deletevm.go), over the part of VirtualBox that keeps registered VMs    *)
(* and image files.                                                        *)
(*                                                                         *)
(* A thread is the goroutine of a request or of a create job.  Requests on *)
(* an existing VM hold its lock (VmOps); a create holds none, its VM being *)
(* in nobody's list yet, or so the code relies on.  VMs are powered off.   *)
(* Hardware settings, the serial port and the content of an image are left *)
(* out, so wireSerialConsole, which is best effort, has no step.           *)
(***************************************************************************)
EXTENDS Integers, FiniteSets

CONSTANTS
  Vms, NoVm,     \* VirtualBox's UUIDs, each given once
  Names, NoName, \* VM names; the folder of a VM is named after it
  Threads,
  MaxExtra,      \* bound of nextDiskPath, 1000 in the code
  MaxPorts       \* the most ports a SATA controller has

ASSUME NoVmAssumption   == NoVm \notin Vms
ASSUME NoNameAssumption == NoName \notin Names
ASSUME BoundAssumption  == MaxExtra \in Nat /\ MaxPorts \in Nat \ {0, 1}

VARIABLES
  vm,    \* VirtualBox: each VM's name, SATA port count and ports
  file,  \* host: the VM each image was made for, NoVm where there is none
  cred,  \* host: threads whose password file is on disk
  kept,  \* images a user detached and was told are kept, while they are there
  early, \* VMs that a request named while their create was at work
  thr    \* where each thread is

vars == <<vm, file, cred, kept, early, thr>>

\* <<name, 0>> is name.vdi, the system disk, and <<name, k>> is name_k.vdi.
Paths == Names \X (0..MaxExtra)
Free  == <<NoName, 0>>
Dvd   == <<NoName, 1>>
Slots == 0..(MaxPorts - 1)

Vm == [st : {"new", "registered", "gone"}, name : Names \cup {NoName},
       ports : 0..MaxPorts, slot : [Slots -> Paths \cup {Free, Dvd}]]

Creates == {"unattended", "manual"}
Ops     == Creates \cup {"add", "detach", "remove", "mount", "eject",
                       "additions", "delete"}
\* VBoxManage commands, by the step of the code that sends them.
Commands == {"createvm", "modify", "disk", "ctl", "grow", "attach", "dvd",
             "unattended", "detach", "unregister", "close"}
Ended == {"idle", "ok", "failed"}
Pc    == Commands \cup Ended \cup {"read", "cred", "stat", "recheck"}

\* late: the context is done.  Ghosts of a create that has ended: dirty, the host
\* refused a step of its cleanup; blind, it made vm without learning of it.
Thread == [op : Ops \cup {"none"}, vm : Vms \cup {NoVm}, pc : Pc,
           path : Paths \cup {Free}, port : 0..MaxPorts, grow : BOOLEAN,
           late : BOOLEAN, dirty : BOOLEAN, blind : BOOLEAN]
Idle   == [op |-> "none", vm |-> NoVm, pc |-> "idle", path |-> Free,
           port |-> 0, grow |-> FALSE, late |-> FALSE, dirty |-> FALSE,
           blind |-> FALSE]

-----------------------------------------------------------------------------

Active(t)   == thr[t].pc \notin Ended
Creating(v) == \E t \in Threads : Active(t) /\ thr[t].op \in Creates /\ thr[t].vm = v

\* Mutant: the storage handlers do not take the VM's lock.
LockedNever(v) == FALSE

\* tryLockVm would fail.
Locked(v) == \E t \in Threads : Active(t) /\ thr[t].op \notin Creates /\ thr[t].vm = v

\* A path of VM v holds image p.
Holds(v, p) == vm[v].st = "registered" /\ \E i \in Slots : vm[v].slot[i] = p

\* Mutant: detaching a disk deletes its image without being asked to.
OnSuccessDeletes(op, pc, grow) ==
  CASE pc = "createvm"   -> "modify"
    [] pc = "modify"     -> "disk"
    [] pc = "disk"       -> IF op \in Creates THEN "ctl" ELSE IF grow THEN "grow" ELSE "attach"
    [] pc = "ctl"        -> "attach"
    [] pc = "grow"       -> IF op = "add" THEN "attach" ELSE "dvd"
    [] pc = "attach"     -> CASE op = "manual" -> "dvd" [] op = "unattended" -> "cred" [] OTHER -> "ok"
    [] pc = "detach"     -> "close"
    [] pc = "unregister" -> IF op = "delete" THEN "ok" ELSE "stat"
    [] pc = "close"      -> IF op \in Creates THEN "recheck" ELSE "ok"
    [] OTHER             -> "ok"

\* What follows the success of step pc.
OnSuccess(op, pc, grow) ==
  CASE pc = "createvm"   -> "modify"
    [] pc = "modify"     -> "disk"
    [] pc = "disk"       -> IF op \in Creates THEN "ctl" ELSE IF grow THEN "grow" ELSE "attach"
    [] pc = "ctl"        -> "attach"
    [] pc = "grow"       -> IF op = "add" THEN "attach" ELSE "dvd"
    [] pc = "attach"     -> CASE op = "manual" -> "dvd" [] op = "unattended" -> "cred" [] OTHER -> "ok"
    [] pc = "detach"     -> IF op = "remove" THEN "close" ELSE "ok"
    [] pc = "unregister" -> IF op = "delete" THEN "ok" ELSE "stat"
    [] pc = "close"      -> IF op = "remove" THEN "ok" ELSE "recheck"
    [] OTHER             -> "ok"

\* Mutant: a failing storagectl is only logged, as wireSerialConsole is.
OnFailureLogsCtl(op, pc) ==
  IF op \notin Creates THEN "failed"
  ELSE CASE pc = "createvm"   -> "failed"
         [] pc = "ctl"        -> IF op = "manual" THEN "dvd" ELSE "cred"
         [] pc = "unregister" -> "stat"
         [] pc = "close"      -> "recheck"
         [] OTHER             -> "unregister"

\* What follows its failure: a create that has its VM goes to
\* cleanupFailedCreate, which goes on whatever fails.
OnFailure(op, pc) ==
  IF op \notin Creates THEN "failed"
  ELSE CASE pc = "createvm"   -> "failed"
         [] pc = "unregister" -> "stat"
         [] pc = "close"      -> "recheck"
         [] OTHER             -> "unregister"

InCleanup(t) == thr[t].op \in Creates /\ thr[t].pc \in {"unregister", "stat", "close", "recheck"}

\* Mutant: the cleanup runs under the context of the job that was cut off.
BlockedEverywhere(t) == thr[t].late

\* The context is done: no command of t can succeed.  cleanupFailedCreate runs
\* without the job's cancellation.
Blocked(t) == thr[t].late /\ ~InCleanup(t)

-----------------------------------------------------------------------------

Init ==
  /\ vm = [v \in Vms |-> [st |-> "new", name |-> NoName, ports |-> 0,
                          slot |-> [i \in Slots |-> Free]]]
  /\ file = [p \in Paths |-> NoVm]
  /\ cred = {}
  /\ kept = {}
  /\ early = {}
  /\ thr = [t \in Threads |-> Idle]

\* t goes on at pc.  A request that has returned leaves nothing behind; of a
\* create that has ended its outcome stays.
At(t, pc, dirty) ==
  thr' = [thr EXCEPT ![t] =
            IF pc \notin Ended THEN [thr[t] EXCEPT !.pc = pc, !.dirty = dirty]
            ELSE IF thr[t].op \notin Creates THEN Idle
            ELSE [Idle EXCEPT !.op = thr[t].op, !.vm = thr[t].vm, !.path = thr[t].path,
                              !.pc = pc, !.dirty = dirty]]

\* Mutant: the password file is removed only after a success.
GoKeepsCred(t, pc, dirty) ==
  /\ At(t, pc, dirty)
  /\ cred' = IF pc = "ok" THEN cred \ {t} ELSE cred

\* t goes on at pc; the deferred os.Remove of the password file runs when the
\* create returns.
Go(t, pc, dirty) ==
  /\ At(t, pc, dirty)
  /\ cred' = IF pc \in Ended THEN cred \ {t} ELSE cred

\* A create request starts its job.
ArriveCreate(t, op, n) ==
  /\ ~Active(t)
  /\ op \in Creates
  /\ thr' = [thr EXCEPT ![t] = [Idle EXCEPT !.op = op, !.path = <<n, 0>>, !.pc = "createvm"]]
  /\ UNCHANGED <<vm, file, cred, kept, early>>

\* A request on VM v takes its lock; a detach names an image.
Arrive(t, op, v, p) ==
  /\ ~Active(t)
  /\ op \notin Creates
  /\ (op \in {"detach", "remove"}) = (p # Free)
  /\ vm[v].st # "new"
  /\ ~Locked(v)
  /\ early' = IF Creating(v) THEN early \cup {v} ELSE early
  /\ thr' = [thr EXCEPT ![t] =
               [Idle EXCEPT !.op = op, !.vm = v, !.path = p, !.pc = "read"]]
  /\ UNCHANGED <<vm, file, cred, kept>>

\* The timeout of a create's job passes.  (For a request that is cancelled, its
\* commands failing says as much.)
Timeout(t) ==
  /\ Active(t)
  /\ thr[t].op \in Creates
  /\ ~thr[t].late
  /\ thr' = [thr EXCEPT ![t] = [thr[t] EXCEPT !.late = TRUE]]
  /\ UNCHANGED <<vm, file, cred, kept, early>>

\* Mutant: the controller may grow past its maximum.
TargetPortsGrowsOn(v) ==
  LET free == {i \in 0..(vm[v].ports - 1) : vm[v].slot[i] = Free}
  IN IF vm[v].ports = 0 THEN {}
     ELSE IF free # {} THEN {i \in free : \A j \in free : i <= j}
     ELSE {vm[v].ports}

\* pickSataTarget, pickDvdTarget: the first free port of the controller, or
\* the one it has to grow by; none when it is full or there is no controller.
TargetPorts(v) ==
  LET free == {i \in 0..(vm[v].ports - 1) : vm[v].slot[i] = Free}
  IN IF vm[v].ports = 0 THEN {}
     ELSE IF free # {} THEN {i \in free : \A j \in free : i <= j}
     ELSE {vm[v].ports} \cap Slots

\* nextDiskPath: the first name_k.vdi that does not exist.
NextDiskPath(n) ==
  LET unused == {k \in 1..MaxExtra : file[<<n, k>>] = NoVm}
  IN {<<n, k>> : k \in {k \in unused : \A j \in unused : k <= j}}

Drives(v) == {i \in Slots : vm[v].slot[i] = Dvd}

\* parseOpticalDrive reports the first.
FirstDrive(v) == {i \in Drives(v) : \A j \in Drives(v) : i <= j}

\* resolveDvdTarget: the first optical drive, or a new one where the read of
\* the drive says there is none or fails.
DvdTargets(v) ==
  FirstDrive(v) \cup TargetPorts(v)

\* chooseOpticalTarget: an empty drive, else the first free port, else the first
\* drive, whose disc is swapped.  (That a drive is empty is left open.)
AdditionsTargets(v) ==
  Drives(v) \cup (TargetPorts(v) \cap 0..(vm[v].ports - 1))

\* The ports the operation of t may act on, and the image it will use.
Plan(t) ==
  LET v == thr[t].vm
      p == thr[t].path
  IN CASE thr[t].op = "add"    -> TargetPorts(v) \X NextDiskPath(vm[v].name)
       [] thr[t].op = "mount"  -> DvdTargets(v) \X {Free}
       [] thr[t].op = "eject"  -> FirstDrive(v) \X {Free}
       [] thr[t].op = "additions" -> AdditionsTargets(v) \X {Free}
       [] thr[t].op = "delete" -> {<<0, Free>>}
       [] OTHER                -> {i \in Slots : Holds(v, p) /\ vm[v].slot[i] = p} \X {p}

\* The first command after the read.
FirstCommand(op, grow) ==
  CASE op = "add"    -> "disk"
    [] op = "mount"  -> IF grow THEN "grow" ELSE "dvd"
    [] op \in {"eject", "additions"} -> "dvd"
    [] op = "delete" -> "unregister"
    [] OTHER         -> "detach"

\* showvminfo, and the choices made from it.
Read(t) ==
  /\ thr[t].pc = "read"
  /\ vm[thr[t].vm].st = "registered"
  /\ \E c \in Plan(t) :
       LET grow == c[1] >= vm[thr[t].vm].ports
       IN thr' = [thr EXCEPT ![t] = [thr[t] EXCEPT
                    !.port = c[1], !.path = c[2], !.grow = grow,
                    !.pc = FirstCommand(thr[t].op, grow)]]
  /\ UNCHANGED <<vm, file, cred, kept, early>>

\* The read fails, or there is nothing to act on.
ReadFails(t) ==
  /\ thr[t].pc = "read"
  /\ Go(t, "failed", FALSE)
  /\ UNCHANGED <<vm, file, kept, early>>

-----------------------------------------------------------------------------

(***************************************************************************)
(* What VirtualBox does when it accepts a command; where the conjuncts     *)
(* cannot hold it refuses.                                                 *)
(***************************************************************************)

SetSlot(v, i, m) ==
  /\ vm[v].st = "registered" /\ i < vm[v].ports
  /\ vm' = [vm EXCEPT ![v] = [vm[v] EXCEPT !.slot = [vm[v].slot EXCEPT ![i] = m]]]

SetPorts(v, n) ==
  /\ vm[v].st = "registered"
  /\ vm' = [vm EXCEPT ![v] = [vm[v] EXCEPT !.ports = n]]

\* createvm --register: a registered VM has its name to itself.
Registers(v, n) ==
  /\ vm[v].st = "new"
  /\ \A u \in Vms : ~(vm[u].st = "registered" /\ vm[u].name = n)
  /\ vm' = [vm EXCEPT ![v] = [vm[v] EXCEPT !.st = "registered", !.name = n]]

\* unregistervm --delete takes the images attached to the VM with it.
Unregisters(v) ==
  /\ vm[v].st = "registered"
  /\ vm' = [vm EXCEPT ![v] = [vm[v] EXCEPT !.st = "gone", !.ports = 0,
                                          !.slot = [i \in Slots |-> Free]]]
  /\ file' = [p \in Paths |-> IF Holds(v, p) THEN NoVm ELSE file[p]]

\* closemedium --delete: not while a VM has it attached.
Closes(p) ==
  /\ file[p] # NoVm /\ \A v \in Vms : ~Holds(v, p)
  /\ file' = [file EXCEPT ![p] = NoVm]

Applied(t) ==
  LET v == thr[t].vm
      p == thr[t].path
  IN CASE thr[t].pc = "disk" ->
            /\ file[p] = NoVm
            /\ file' = [file EXCEPT ![p] = v] /\ UNCHANGED vm
       [] thr[t].pc = "ctl"    -> SetPorts(v, 2) /\ UNCHANGED file
       [] thr[t].pc = "grow"   -> SetPorts(v, thr[t].port + 1) /\ UNCHANGED file
       [] thr[t].pc = "attach" ->
            /\ file[p] # NoVm /\ \A u \in Vms : ~Holds(u, p)
            /\ SetSlot(v, thr[t].port, p) /\ UNCHANGED file
       [] thr[t].pc = "dvd"    ->
            SetSlot(v, IF thr[t].op = "manual" THEN 1 ELSE thr[t].port, Dvd) /\ UNCHANGED file
       [] thr[t].pc = "detach"     -> SetSlot(v, thr[t].port, Free) /\ UNCHANGED file
       [] thr[t].pc = "unregister" -> Unregisters(v)
       [] thr[t].pc = "close"      -> Closes(p) /\ UNCHANGED vm
       [] OTHER                    -> vm[v].st = "registered" /\ UNCHANGED <<vm, file>>

-----------------------------------------------------------------------------

\* createvm answers with the identifier of the new VM.
CreateVm(t) ==
  /\ thr[t].pc = "createvm"
  /\ ~Blocked(t)
  /\ \E v \in Vms :
       /\ Registers(v, thr[t].path[1])
       /\ thr' = [thr EXCEPT ![t] = [thr[t] EXCEPT !.vm = v, !.pc = "modify"]]
  /\ UNCHANGED <<file, cred, kept, early>>

\* It fails; or VirtualBox has registered the VM but the answer does not arrive,
\* createvm being killed, or has no identifier: the create returns without any
\* cleanup, for it does not know of the VM it made.
CreateVmFails(t) ==
  /\ thr[t].pc = "createvm"
  /\ \/ UNCHANGED vm /\ Go(t, "failed", FALSE)
     \/ \E v \in Vms :
          /\ Registers(v, thr[t].path[1])
          /\ thr' = [thr EXCEPT ![t] = [Idle EXCEPT !.op = thr[t].op, !.vm = v,
                       !.path = thr[t].path, !.pc = "failed", !.blind = TRUE]]
          /\ cred' = cred \ {t}
  /\ UNCHANGED <<file, kept, early>>

\* A command succeeds.
CommandDone(t) ==
  /\ thr[t].pc \in Commands \ {"createvm"}
  /\ ~Blocked(t)
  /\ Applied(t)
  /\ kept' = {p \in IF thr[t].op = "detach" THEN kept \cup {thr[t].path} ELSE kept :
                file'[p] # NoVm}
  /\ UNCHANGED early
  /\ Go(t, OnSuccess(thr[t].op, thr[t].pc, thr[t].grow), thr[t].dirty)

\* A command is refused, or is killed before or after it took effect.
CommandFails(t) ==
  /\ thr[t].pc \in Commands \ {"createvm"}
  /\ Applied(t) \/ UNCHANGED <<vm, file>>
  /\ Go(t, OnFailure(thr[t].op, thr[t].pc),
        thr[t].dirty \/ (thr[t].pc = "unregister" /\ ~Blocked(t)))
  /\ kept' = {p \in kept : file'[p] # NoVm}
  /\ UNCHANGED early

\* The password file of an unattended install is written, or cannot be.
WriteCredentialFile(t) ==
  /\ thr[t].pc = "cred"
  /\ thr' = [thr EXCEPT ![t] = [thr[t] EXCEPT !.pc = "unattended"]]
  /\ cred' = cred \cup {t}
  /\ UNCHANGED <<vm, file, kept, early>>

WriteFails(t) ==
  /\ thr[t].pc = "cred"
  /\ Go(t, "unregister", thr[t].dirty)
  /\ UNCHANGED <<vm, file, kept, early>>

\* Mutant: the cleanup trusts the unregister to have taken the image.
StatDiskNever(t) ==
  /\ thr[t].pc = "stat"
  /\ Go(t, "failed", thr[t].dirty)
  /\ UNCHANGED <<vm, file, kept, early>>

\* cleanupFailedCreate: an image still there is released from VirtualBox ...
StatDisk(t) ==
  /\ thr[t].pc = "stat"
  /\ Go(t, IF file[thr[t].path] = NoVm THEN "failed" ELSE "close", thr[t].dirty)
  /\ UNCHANGED <<vm, file, kept, early>>

\* ... and if that did not delete it, removed directly, which may fail.
RemoveDisk(t) ==
  /\ thr[t].pc = "recheck"
  /\ \/ file' = [file EXCEPT ![thr[t].path] = NoVm] /\ Go(t, "failed", thr[t].dirty)
     \/ file[thr[t].path] # NoVm /\ UNCHANGED file /\ Go(t, "failed", TRUE)
  /\ kept' = {p \in kept : file'[p] # NoVm}
  /\ UNCHANGED <<vm, early>>

Step(t) ==
  \/ Read(t)
  \/ ReadFails(t)
  \/ CreateVm(t)
  \/ CreateVmFails(t)
  \/ CommandDone(t)
  \/ CommandFails(t)
  \/ WriteCredentialFile(t)
  \/ WriteFails(t)
  \/ StatDisk(t)
  \/ RemoveDisk(t)

Next ==
  \E t \in Threads :
    \/ /\ ~Active(t)
       /\ \/ \E op \in Ops, n \in Names : ArriveCreate(t, op, n)
          \/ \E op \in Ops, v \in Vms, p \in Paths \cup {Free} : Arrive(t, op, v, p)
    \/ Timeout(t)
    \/ Step(t)

Spec == Init /\ [][Next]_vars

-----------------------------------------------------------------------------

TypeOK ==
  /\ vm \in [Vms -> Vm]
  /\ file \in [Paths -> Vms \cup {NoVm}]
  /\ cred \subseteq Threads
  /\ kept \subseteq Paths
  /\ early \subseteq Vms
  /\ thr \in [Threads -> Thread]

\* A failed create leaves no VM, no system disk and no password file behind,
\* unless the host itself refused the cleanup (createvm.go:283-288) or createvm
\* made the VM without the create learning of it, which no cleanup follows
\* (createvm.go:135-143, 231-239): that VM stays, and it alone.
FailedCreateLeavesNothing ==
  \A t \in Threads :
    thr[t].op \in Creates /\ thr[t].pc = "failed" /\ ~thr[t].dirty =>
      /\ t \notin cred
      /\ thr[t].vm \in Vms =>
           /\ vm[thr[t].vm].st = "gone" \/ thr[t].blind
           /\ file[thr[t].path] # thr[t].vm

\* The password file is there while VBoxManage may read it, and never outlives
\* its create.
CredentialLifetime ==
  /\ \A t \in Threads : thr[t].pc = "unattended" => t \in cred
  /\ \A t \in cred : Active(t)

\* A create that reports success leaves a registered VM whose first port holds
\* the image made for it, unless another VM was created under its name or a
\* request named the VM meanwhile: a create holds no lock on its VM.
CreatedIsWhole ==
  [][\A t \in Threads :
       LET v == thr[t].vm
       IN /\ thr[t].op \in Creates /\ Active(t) /\ thr'[t].pc = "ok"
          /\ v \notin early /\ \A u \in Vms \ {v} : vm[u].name # vm[v].name
          => /\ vm'[v].st = "registered"
             /\ vm'[v].slot[0] = thr[t].path
             /\ file'[thr[t].path] = v]_vars

\* A port that holds a disk keeps it until it is detached: nothing is attached
\* over it (storage.go:175-176, "attaches it to a free SATA port on the VM"),
\* unless a request named the VM during its create, when both may choose a port.
DiskNotDisplaced ==
  [][\A v \in Vms, i \in Slots :
       v \notin early /\ vm[v].slot[i] \in Paths => vm'[v].slot[i] \in {vm[v].slot[i], Free}]_vars

\* An image that was detached to be kept (storage.go:382-384) goes only with the
\* cleanup of a create under its VM's name, which takes it for its own
\* (createvm.go:299), or with a step on a VM that a request named too early: no
\* removal, deletion of a VM, mount or eject reaches it otherwise.
OnlyNamesakesTakeKept ==
  [][\A p \in kept \ kept' :
       \E t \in Threads :
         /\ thr'[t] # thr[t]
         /\ \/ thr[t].vm \in early
            \/ InCleanup(t) /\ thr[t].path = p /\ file[p] # thr[t].vm]_vars

(***************************************************************************)
(* The inductive invariant of the type: a port that was chosen exists, or  *)
(* is the next one, and what is registered has a name.                     *)
(***************************************************************************)
Chosen ==
  \A t \in Threads :
    /\ thr[t].port \in Slots
    /\ thr[t].pc = "createvm" => thr[t].path \in Paths
    /\ thr[t].pc = "read" => thr[t].vm \in Vms
    /\ thr[t].op = "detach" => thr[t].path \in Paths

Named == \A v \in Vms : vm[v].st = "registered" => vm[v].name \in Names

Inv == TypeOK /\ Chosen /\ Named /\ CredentialLifetime

(***************************************************************************)
(* The inductive invariant of the images.  A thread has its VM to itself   *)
(* (Alone) unless the VM was named too early; what it has read of the VM,  *)
(* and what its create has done so far, is then still so when it acts.     *)
(***************************************************************************)
StepsOf(op) ==
  CASE op = "none"       -> {"idle"}
    [] op = "add"        -> {"read", "disk", "grow", "attach"}
    [] op = "mount"      -> {"read", "grow", "dvd"}
    [] op = "detach"     -> {"read", "detach"}
    [] op = "remove"     -> {"read", "detach", "close"}
    [] op = "delete"     -> {"read", "unregister"}
    [] op = "manual"     -> {"createvm", "modify", "disk", "ctl", "attach", "dvd",
                             "unregister", "stat", "close", "recheck", "ok", "failed"}
    [] op = "unattended" -> {"createvm", "modify", "disk", "ctl", "attach", "cred",
                             "unattended", "unregister", "stat", "close", "recheck",
                             "ok", "failed"}
    [] OTHER             -> {"read", "dvd"}

\* A thread takes the steps of its operation, on a VM it has been given.
Shape ==
  \A t \in Threads :
    /\ thr[t].pc \in StepsOf(thr[t].op)
    /\ thr[t].op = "none" => thr[t].vm = NoVm
    /\ thr[t].op \in Creates =>
         /\ thr[t].path \in Names \X {0} /\ thr[t].port = 0
         /\ thr[t].pc = "createvm" => thr[t].vm = NoVm
         /\ thr[t].pc \notin {"createvm", "failed"} => thr[t].vm \in Vms
    /\ thr[t].op \notin Creates \cup {"none"} => thr[t].vm \in Vms
    /\ thr[t].op \in {"detach", "remove"} => thr[t].path \in Paths

\* A registered VM has its name to itself; no other has anything attached; an
\* image a port holds has its VM's name, and no other port of the VM holds it.
Machines ==
  \A v \in Vms :
    /\ \A u \in Vms \ {v} :
         vm[v].st = "registered" /\ vm[u].st = "registered" => vm[u].name # vm[v].name
    /\ vm[v].st # "registered" => \A i \in Slots : vm[v].slot[i] = Free
    /\ \A i \in Slots : vm[v].slot[i] \in Paths => vm[v].slot[i][1] = vm[v].name
    /\ \A i, j \in Slots : i # j /\ vm[v].slot[i] \in Paths => vm[v].slot[i] # vm[v].slot[j]

\* An image was made for a VM of its name, and one that is kept is there.
Files ==
  /\ \A p \in Paths : file[p] # NoVm =>
       vm[file[p]].st # "new" /\ vm[file[p]].name = p[1]
  /\ \A p \in kept : file[p] # NoVm

\* What threads share: a VM has one create, and two threads are at work on it
\* only if it was named early.
Alone ==
  \A t, u \in Threads :
    t # u /\ thr[t].vm = thr[u].vm /\ thr[t].vm \in Vms =>
      /\ thr[t].op \notin Creates \/ thr[u].op \notin Creates
      /\ Active(t) /\ Active(u) => thr[t].vm \in early

\* A thread's VM exists, and the image the thread works on has the VM's name;
\* only a create works on a system disk it makes.
Paired ==
  \A t \in Threads :
    LET v == thr[t].vm
    IN v \in Vms =>
      /\ vm[v].st # "new"
      /\ thr[t].op \in Creates => vm[v].name = thr[t].path[1]
      /\ thr[t].op \in {"add", "detach", "remove"} /\ thr[t].pc # "read" =>
           thr[t].path \in Paths /\ thr[t].path[1] = vm[v].name
      /\ thr[t].op = "add" /\ thr[t].pc # "read" => thr[t].path[2] # 0
      /\ thr[t].op = "mount" /\ thr[t].pc # "read" => thr[t].path = Free

\* What a request has read of its VM is still so.
ReadHolds ==
  \A t \in Threads :
    LET v == thr[t].vm
        i == thr[t].port
    IN v \in Vms \ early /\ thr[t].op \notin Creates /\ thr[t].pc # "read" =>
      /\ vm[v].st = "registered"
      /\ thr[t].op \in {"add", "mount", "eject", "additions"} => vm[v].slot[i] \notin Paths
      /\ thr[t].pc = "grow" \/ (thr[t].pc = "disk" /\ thr[t].grow) => vm[v].ports <= i
      /\ thr[t].pc = "detach" => vm[v].slot[i] = thr[t].path

\* Ports past the end of the controller are free.
PortsEnd ==
  \A v \in Vms \ early, i \in Slots : i >= vm[v].ports => vm[v].slot[i] = Free

\* How far a create has come.
CreateHolds ==
  \A t \in Threads :
    LET v == thr[t].vm
        p == thr[t].path
    IN v \in Vms \ early /\ thr[t].op \in Creates =>
      /\ thr[t].pc \in {"modify", "disk", "ctl", "attach", "dvd", "cred", "unattended"} =>
           vm[v].st = "registered"
      /\ thr[t].pc \in {"modify", "disk", "ctl", "attach"} =>
           \A i \in Slots : vm[v].slot[i] = Free
      /\ thr[t].pc = "dvd" => vm[v].slot[1] \notin Paths
      /\ thr[t].pc \in {"dvd", "cred", "unattended"} => vm[v].slot[0] = p
      /\ thr[t].pc \in {"ctl", "attach", "dvd", "cred", "unattended"} =>
           \/ file[p] = v
           \/ \E u \in Vms \ {v} : vm[u].st # "new" /\ vm[u].name = vm[v].name

\* How far its cleanup has come.
CleanupHolds ==
  \A t \in Threads :
    thr[t].op \in Creates /\ thr[t].vm \in Vms /\ ~thr[t].dirty =>
      /\ thr[t].pc \in {"stat", "close", "recheck"} => vm[thr[t].vm].st = "gone"
      /\ thr[t].pc = "failed" =>
           /\ vm[thr[t].vm].st = "gone" \/ thr[t].blind
           /\ file[thr[t].path] # thr[t].vm

\* An image that a registered VM holds, or that a thread is about to attach to
\* it or detach from it, was made for it, or for one that was named early.
Claimed(v, p) ==
  \/ Holds(v, p)
  \/ \E t \in Threads : /\ thr[t].vm = v /\ thr[t].path = p
                        /\ thr[t].pc \in {"ctl", "grow", "attach", "detach"}
Claims ==
  \A v \in Vms, p \in Paths :
    vm[v].st = "registered" /\ Claimed(v, p) => file[p] \in {v, NoVm} \cup early

\* A kept image is in no port, and in the hands of no thread that would attach
\* it, remove it or take it for one it made, named-early VMs aside.
KeptApart ==
  \A p \in kept :
    /\ \A v \in Vms \ early : ~Holds(v, p)
    /\ \A t \in Threads :
         thr[t].vm \in Vms \ early /\ thr[t].path = p =>
           /\ thr[t].pc \notin {"grow", "ctl", "attach"}
           /\ thr[t].op = "remove" => thr[t].pc # "close"
           /\ thr[t].op \in Creates /\ Active(t) => file[p] # thr[t].vm

ImagesInv ==
  /\ Shape /\ Machines /\ Files /\ Alone /\ Paired /\ ReadHolds /\ PortsEnd
  /\ CreateHolds /\ CleanupHolds /\ Claims /\ KeptApart

-----------------------------------------------------------------------------

\* The lock seen from the outside: which request is at work on which VM.
AtWorkOn == {<<thr[t].vm, t>> : t \in {u \in Threads : Active(u) /\ thr[u].op \notin Creates}}

VmLock == INSTANCE LockSpec WITH held <- AtWorkOn

\* What these requests do to a VM they do under its lock, taken and given back
\* as LockSpec allows (server.go:1555-1571).
UsesLock == VmLock!LockOnly

=============================================================================
