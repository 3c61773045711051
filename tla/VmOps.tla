-------------------------------- MODULE VmOps --------------------------------
(***************************************************************************)
(* The operations of the agent on VMs: the per-VM lock every mutating      *)
(* handler takes (internal/server/server.go), the lifecycle operations     *)
(* behind it (internal/vbox), and the background jobs of                   *)
(* internal/server/createvm.go, which keep the lock of their source VM.    *)
(*                                                                         *)
(* A thread is the goroutine of a request; once a request has started its  *)
(* background job the thread is the job's goroutine.  Three groups of      *)
(* operations have the same control: "copy" is a clone or an export,       *)
(* "create" an import or one of the two creates, and "modify" every        *)
(* handler that locks the VM and sends commands that leave its power state *)
(* alone (stop by ACPI, reset, snapshots, devices, network, guest), here   *)
(* one command.  What a clone does to the new VM is not modelled.          *)
(*                                                                         *)
(* VirtualBox keeps the power state; "off" also stands for aborted,        *)
(* "starting" for restoring and "paused" for stuck.  showvminfo reflects a *)
(* command from the moment VirtualBox accepts it.                          *)
(***************************************************************************)
EXTENDS Integers, FiniteSets

CONSTANTS
  Vms, NoVm,
  Threads,
  Jobs, NoJob,   \* job identifiers
  MaxAttempts,   \* runControlWithLockRetry
  Outside        \* somebody else may start VMs too

ASSUME NoVmAssumption     == NoVm \notin Vms
ASSUME NoJobAssumption    == NoJob \notin Jobs
ASSUME AttemptsAssumption == MaxAttempts \in Nat \ {0}
ASSUME OutsideAssumption  == Outside \in BOOLEAN

VARIABLES
  state,     \* VirtualBox: the power state of each VM
  locked,    \* Server.ops: the VM's mutex is held
  thr,       \* where each thread is
  job,       \* Server.createJobs
  expired,   \* jobs that ended longer ago than createJobRetention
  agent      \* the process

vars == <<state, locked, thr, job, expired, agent>>

States   == {"off", "saved", "starting", "running", "paused", "stopping",
             "saving", "gone"}
Commands == {"startvm", "resume", "savestate", "poweroff", "restore",
             "unregister", "modify", "copy", "create"}
Pc  == Commands \cup {"idle", "validate", "lock", "startjob", "read", "poll",
                      "done", "error"}
Ops == {"start", "save", "poweroff", "restore", "delete", "modify", "copy", "create"}

Thread == [op : Ops \cup {"none"}, vm : Vms \cup {NoVm}, pc : Pc,
           tries : 0..(MaxAttempts - 1), job : Jobs \cup {NoJob}]
Idle   == [op |-> "none", vm |-> NoVm, pc |-> "idle", tries |-> 0, job |-> NoJob]

-----------------------------------------------------------------------------

\* vmStateIsLive.
Live == {"running", "paused", "starting"}

OnJob(t) == thr[t].job # NoJob

\* t is between its tryLockVm and its unlock.
Holds(t) == /\ thr[t].vm # NoVm
            /\ thr[t].pc \notin {"idle", "validate", "lock", "done", "error"}

At(t, pc) == thr' = [thr EXCEPT ![t] = [thr[t] EXCEPT !.pc = pc]]

\* What an operation does first once it has the lock.
FirstPc(op) ==
  CASE op \in {"start", "save", "restore", "delete"} -> "read"
    [] op = "copy" -> "startjob"
    [] OTHER -> op

\* What each operation does next, in the state it has read: a command, or leave.
StartVM(s) ==
  CASE s \in {"running", "starting"} -> "leave"
    [] s = "paused" -> "resume"
    [] OTHER -> "startvm"
SaveState(s)       == IF s \in Live THEN "savestate" ELSE "leave"
RestoreSnapshot(s) == IF s \in Live THEN "poweroff" ELSE "restore"
DeleteVM(s)        == IF s \in Live THEN "leave" ELSE "unregister"

\* Mutant: the job relies on the validation made before the lock was taken.
CheckSourceUnread(s) == "copy"

\* checkCloneSource, checkExportSource.
CheckSource(s) == IF s \in Live THEN "leave" ELSE "copy"

NextPc(op, s) ==
  CASE op = "start"   -> StartVM(s)
    [] op = "save"    -> SaveState(s)
    [] op = "restore" -> RestoreSnapshot(s)
    [] op = "delete"  -> DeleteVM(s)
    [] OTHER          -> CheckSource(s)

\* The states VirtualBox may leave the VM in when it accepts a command in state
\* s; it refuses the command where there is none.
Effect(command, s) ==
  CASE command = "startvm"    -> IF s \in {"off", "saved"} THEN {"starting", "running"} ELSE {}
    [] command = "resume"     -> IF s = "paused" THEN {"running"} ELSE {}
    [] command = "savestate"  -> IF s \in {"running", "paused"} THEN {"saving", "saved"} ELSE {}
    [] command = "poweroff"   -> IF s \in Live THEN {"stopping", "off"} ELSE {}
    [] command = "restore"    -> IF s \in {"off", "saved"} THEN {"off", "saved"} ELSE {}
    [] command = "unregister" -> IF s \in {"off", "saved"} THEN {"gone"} ELSE {}
    [] OTHER                  -> IF s # "gone" THEN {s} ELSE {}

-----------------------------------------------------------------------------

Init ==
  /\ state \in [Vms -> States \ {"gone"}]
  /\ locked = [v \in Vms |-> FALSE]
  /\ thr = [t \in Threads |-> Idle]
  /\ job = [j \in Jobs |-> "none"]
  /\ expired = {}
  /\ agent = "up"

\* Mutant: a failed job keeps the lock.
LeaveLocked(t, outcome) ==
  /\ thr' = [thr EXCEPT ![t] =
                IF OnJob(t) THEN [thr[t] EXCEPT !.pc = outcome] ELSE Idle]
  /\ locked' = [v \in Vms |->
                  locked[v] /\ ~(Holds(t) /\ thr[t].vm = v /\ ~(OnJob(t) /\ outcome = "error"))]

\* Mutant: a job that panics is not marked.
LeaveUnrecovered(t, outcome) ==
  /\ thr' = [thr EXCEPT ![t] =
                IF OnJob(t) /\ outcome = "done" THEN [thr[t] EXCEPT !.pc = outcome] ELSE Idle]
  /\ locked' = [v \in Vms |-> locked[v] /\ ~(Holds(t) /\ thr[t].vm = v)]

\* The handler, or the work of the job, returns or panics; its deferred unlock
\* runs.  A job has its outcome still to write.
Leave(t, outcome) ==
  /\ thr' = [thr EXCEPT ![t] =
                IF OnJob(t) THEN [thr[t] EXCEPT !.pc = outcome] ELSE Idle]
  /\ locked' = [v \in Vms |-> locked[v] /\ ~(Holds(t) /\ thr[t].vm = v)]

\* Bound: the requests that are on their way to a job leave it an identifier.
JobBound(op) ==
  op \in {"copy", "create"} =>
    Cardinality({u \in Threads : thr[u].op \in {"copy", "create"} /\ ~OnJob(u)})
      < Cardinality({j \in Jobs : job[j] = "none"})

\* A request arrives.  Only a clone or export reads the VM before it locks it,
\* and only a create has no VM to lock.
Arrive(t, op, v) ==
  /\ agent = "up" /\ thr[t].pc = "idle"
  /\ JobBound(op)
  /\ (op = "create") <=> (v = NoVm)
  /\ thr' = [thr EXCEPT ![t] =
                [op |-> op, vm |-> v, tries |-> 0, job |-> NoJob,
                 pc |-> CASE op = "copy" -> "validate"
                          [] op = "create" -> "startjob"
                          [] OTHER -> "lock"]]
  /\ UNCHANGED <<state, locked, job, expired, agent>>

\* ValidateClone, ValidateExport: refused, or on to the lock.
Validate(t) ==
  /\ thr[t].pc = "validate"
  /\ \/ Leave(t, "error")
     \/ state[thr[t].vm] \notin Live \cup {"gone"} /\ At(t, "lock") /\ UNCHANGED locked
  /\ UNCHANGED <<state, job, expired, agent>>

\* Mutant: each call makes a mutex of its own.
TryLockVmFresh(t) ==
  /\ thr[t].pc = "lock"
  /\ At(t, FirstPc(thr[t].op)) /\ locked' = [locked EXCEPT ![thr[t].vm] = TRUE]
  /\ UNCHANGED <<state, job, expired, agent>>

\* tryLockVm never waits: a busy VM is a 409.
TryLockVm(t) ==
  /\ thr[t].pc = "lock"
  /\ IF locked[thr[t].vm]
     THEN Leave(t, "error")
     ELSE At(t, FirstPc(thr[t].op)) /\ locked' = [locked EXCEPT ![thr[t].vm] = TRUE]
  /\ UNCHANGED <<state, job, expired, agent>>

\* Mutant: the sweep takes a zero endedAt for a time long ago.
SweptUnended == expired \cup {j \in Jobs : job[j] = "running"}

\* sweepFinishedJobsLocked.
Swept == expired

\* startCreateJob with an identifier not in use; the 202 ends the request.
StartCreateJob(t) ==
  /\ thr[t].pc = "startjob"
  /\ \E j \in Jobs :
       /\ job[j] = "none" \/ j \in Swept
       /\ job' = [i \in Jobs |-> IF i = j THEN "running"
                                 ELSE IF i \in Swept THEN "none" ELSE job[i]]
       /\ thr' = [thr EXCEPT ![t] =
                     [thr[t] EXCEPT !.job = j,
                                    !.pc = IF thr[t].op = "copy" THEN "read" ELSE "create"]]
  /\ expired' = {}
  /\ UNCHANGED <<state, locked, agent>>

\* readShowVmInfo and the decision made from it.
ReadState(t) ==
  /\ thr[t].pc = "read"
  /\ state[thr[t].vm] # "gone"
  /\ LET next == NextPc(thr[t].op, state[thr[t].vm])
     IN IF next = "leave" THEN Leave(t, "error")
                          ELSE At(t, next) /\ UNCHANGED locked
  /\ UNCHANGED <<state, job, expired, agent>>

\* A read that fails or is cancelled ends the operation, except that a start
\* goes on without it.
ReadFails(t) ==
  /\ thr[t].pc = "read"
  /\ IF thr[t].op = "start" THEN At(t, "startvm") /\ UNCHANGED locked
                            ELSE Leave(t, "error")
  /\ UNCHANGED <<state, job, expired, agent>>

\* VirtualBox carries the command of t out.
Applied(t) ==
  IF thr[t].vm = NoVm THEN UNCHANGED state
  ELSE \E s \in Effect(thr[t].pc, state[thr[t].vm]) :
         state' = [state EXCEPT ![thr[t].vm] = s]

\* The command succeeds; the power-off of a restore goes on to waitUntilNotLive.
CommandDone(t) ==
  /\ thr[t].pc \in Commands
  /\ Applied(t)
  /\ IF thr[t].pc = "poweroff" /\ thr[t].op = "restore"
     THEN At(t, "poll") /\ UNCHANGED locked
     ELSE Leave(t, "done")
  /\ UNCHANGED <<job, expired, agent>>

\* The command is refused, or is killed at its timeout or with the request,
\* before or after VirtualBox has accepted it.
CommandFails(t) ==
  /\ thr[t].pc \in Commands
  /\ Applied(t) \/ UNCHANGED state
  /\ Leave(t, "error")
  /\ UNCHANGED <<job, expired, agent>>

\* Mutant: one attempt too many.
RetryOneMore(t) ==
  /\ thr[t].pc \in {"startvm", "resume"}
  /\ thr[t].tries < MaxAttempts
  /\ thr' = [thr EXCEPT ![t] = [thr[t] EXCEPT !.tries = thr[t].tries + 1]]
  /\ UNCHANGED <<state, locked, job, expired, agent>>

\* isRetryableStartError: VirtualBox refused because the VM was locked or the
\* host not ready.
Retry(t) ==
  /\ thr[t].pc \in {"startvm", "resume"}
  /\ thr[t].tries < MaxAttempts - 1
  /\ thr' = [thr EXCEPT ![t] = [thr[t] EXCEPT !.tries = thr[t].tries + 1]]
  /\ UNCHANGED <<state, locked, job, expired, agent>>

\* waitUntilNotLive sees the VM down.  (A poll that sees it live, or fails,
\* changes nothing.)
PollSeesDown(t) ==
  /\ thr[t].pc = "poll"
  /\ state[thr[t].vm] \notin Live \cup {"gone"}
  /\ At(t, "restore")
  /\ UNCHANGED <<state, locked, job, expired, agent>>

\* Mutant: the wait has no deadline.
PollForever(t) == FALSE /\ thr[t].pc = "poll" /\ UNCHANGED vars

\* Its deadline passes or the request is cancelled.
PollTimesOut(t) ==
  /\ thr[t].pc = "poll"
  /\ Leave(t, "error")
  /\ UNCHANGED <<state, job, expired, agent>>

\* Mutant: only a success is written.
ReportDone(t) ==
  /\ thr[t].pc \in {"done", "error"}
  /\ job' = IF thr[t].pc = "done" THEN [job EXCEPT ![thr[t].job] = "done"] ELSE job
  /\ thr' = [thr EXCEPT ![t] = Idle]
  /\ UNCHANGED <<state, locked, expired, agent>>

\* The goroutine writes the outcome of its job, after the unlock.
Report(t) ==
  /\ thr[t].pc \in {"done", "error"}
  /\ job' = [job EXCEPT ![thr[t].job] = thr[t].pc]
  /\ thr' = [thr EXCEPT ![t] = Idle]
  /\ UNCHANGED <<state, locked, expired, agent>>

Step(t) ==
  \/ Validate(t)
  \/ TryLockVm(t)
  \/ StartCreateJob(t)
  \/ ReadState(t)
  \/ ReadFails(t)
  \/ CommandDone(t)
  \/ CommandFails(t)
  \/ Retry(t)
  \/ PollSeesDown(t)
  \/ PollTimesOut(t)
  \/ Report(t)

\* An hour passes after a job's end.
Expire(j) ==
  /\ job[j] \in {"done", "error"}
  /\ expired' = expired \cup {j}
  /\ UNCHANGED <<state, locked, thr, job, agent>>

\* What VirtualBox and the guest do by themselves.
VmChanges(v) ==
  /\ \E s \in CASE state[v] = "starting" -> {"running", "off"}
                [] state[v] = "running"  -> {"paused", "stopping", "off"}
                [] state[v] = "paused"   -> {"off"}
                [] state[v] = "stopping" -> {"off"}
                [] state[v] = "saving"   -> {"saved"}
                [] OTHER -> {} :
       state' = [state EXCEPT ![v] = s]
  /\ UNCHANGED <<locked, thr, job, expired, agent>>

\* Somebody starts or resumes the VM in VirtualBox's own window.
StartedOutside(v) ==
  /\ Outside
  /\ state[v] \in {"off", "saved", "paused"}
  /\ state' = [state EXCEPT ![v] = "running"]
  /\ UNCHANGED <<locked, thr, job, expired, agent>>

\* The tray's Quit: Shutdown lets no new request in ...
Quit ==
  /\ agent = "up"
  /\ agent' = "draining"
  /\ UNCHANGED <<state, locked, thr, job, expired>>

\* ... and waits for the requests in flight, for shutdownTimeout at most; then
\* os.Exit ends every goroutine.
Exit ==
  /\ agent = "draining"
  /\ agent' = "exited"
  /\ thr' = [t \in Threads |-> Idle]
  /\ locked' = [v \in Vms |-> FALSE]
  /\ job' = [j \in Jobs |-> "none"]
  /\ expired' = {}
  /\ UNCHANGED state

Next ==
  \/ \E t \in Threads :
       \/ \E op \in Ops, v \in Vms \cup {NoVm} : Arrive(t, op, v)
       \/ Step(t)
  \/ \E j \in Jobs : Expire(j)
  \/ \E v \in Vms : VmChanges(v) \/ StartedOutside(v)
  \/ Quit
  \/ Exit

Spec == Init /\ [][Next]_vars

\* Goroutines run, and every command and every wait has a timeout.
FairSpec == Spec /\ \A t \in Threads : WF_vars(Step(t))

-----------------------------------------------------------------------------

TypeOK ==
  /\ state \in [Vms -> States]
  /\ locked \in [Vms -> BOOLEAN]
  /\ thr \in [Threads -> Thread]
  /\ job \in [Jobs -> {"none", "running", "done", "error"}]
  /\ expired \subseteq Jobs
  /\ agent \in {"up", "draining", "exited"}

\* While VirtualBox copies a VM for a clone or an export the agent sends no
\* other command to that VM (createvm.go:123-125 and 168-170).
CopyIsAlone ==
  \A t, u \in Threads :
    /\ thr[t].pc = "copy"
    /\ thr[u].pc \in Commands
    /\ thr[u].vm = thr[t].vm
    => t = u

Taking == {"copy", "unregister", "restore"}

StaysStopped(t) ==
  thr'[t].pc \in Taking =>
    \/ state'[thr'[t].vm] \notin Live
    \/ /\ thr[t].pc \in Taking
       /\ state[thr[t].vm] \in Live \/ StartedOutside(thr[t].vm)

\* A VM that is copied, removed or rolled back is not executing: the command is
\* sent only when the VM was seen stopped, and until its end no other request,
\* whatever comes in between, makes the VM run; only somebody outside the agent
\* may (deletevm.go:10-13, clonevm.go:97-99, snapshot.go:91-93).
SourceStaysStopped ==
  [][\A t \in Threads : StaysStopped(t)]_vars

\* A VM is locked only by an operation still at work on it: no return path, no
\* refused request and no failed job leaves it locked.
NoLeakedLock ==
  \A v \in Vms : locked[v] => \E t \in Threads : Holds(t) /\ thr[t].vm = v

\* A job the UI is told is running has a goroutine that will write its outcome.
RunningJobHasWorker ==
  \A j \in Jobs : job[j] = "running" => \E t \in Threads : thr[t].job = j

\* What is left behind has an owner at work: neither a lock nor a running job
\* is orphaned by an error, a panic, a refused request or a sweep.
WorkIsOwned == NoLeakedLock /\ RunningJobHasWorker

\* The lock and the jobs seen from the outside: who is at work on which VM and
\* on which job, and what the UI is told.
AtWorkOn == {<<thr[t].vm, t>> : t \in {u \in Threads : Holds(u)}}
Workers  == {<<thr[t].job, t>> : t \in {u \in Threads : OnJob(u)}}

Promise == INSTANCE JobSpec WITH held <- AtWorkOn, doing <- Workers, told <- job

\* The agent does what JobSpec says: one operation at a time on a VM, a job that
\* keeps the lock of its request, a running job that is never swept however many
\* start meanwhile (createvm.go:275-277), and an outcome that is told once, by
\* the job's own goroutine, and only when the VM is free again
\* (createvm.go:123-125).
ImplementsPromise == Promise!Spec

JobStep(j) ==
  /\ job[j] = "running" /\ job'[j] # "running" =>
       \/ \E t \in Threads : thr[t].job = j /\ job'[j] = thr[t].pc
       \/ agent' = "exited"
  /\ job[j] \in {"done", "error"} =>
       job'[j] = job[j] \/ j \in expired \/ agent' = "exited"

\* The same of a job alone: its identifier is its own until its outcome is
\* written, and an outcome is not written twice.
JobHistory == [][\A j \in Jobs : JobStep(j)]_vars

\* Every job ends in done or error.
JobEnds == \A j \in Jobs : job[j] = "running" ~> job[j] # "running"

\* A locked VM becomes free for the next operation.
LockFreed == \A v \in Vms : locked[v] ~> ~locked[v]

\* Nothing is busy for ever, whatever fails, hangs until its timeout or panics.
EverythingEnds == JobEnds /\ LockFreed

\* A power-off has completed before the snapshot restore is attempted
\* (snapshot.go:176-177).
RestoreAfterPowerOff ==
  [][\A t \in Threads :
       thr[t].pc = "poll" /\ thr'[t].pc = "restore" => state[thr[t].vm] \notin {"stopping"} \cup Live]_vars

-----------------------------------------------------------------------------

(***************************************************************************)
(* The inductive invariant.  The lock's mutex has no owner: what makes it  *)
(* exclusive is that the threads between tryLockVm and unlock are at most  *)
(* one per VM, and that the VM is locked exactly while there is one.       *)
(***************************************************************************)
Shaped ==
  \A t \in Threads :
    /\ thr[t].pc = "idle" => thr[t] = Idle
    /\ thr[t].pc # "idle" =>
         /\ thr[t].op \in Ops
         /\ thr[t].vm = NoVm <=> thr[t].op = "create"
         /\ thr[t].op = "create" => thr[t].pc \in {"startjob", "create", "done", "error"}
    /\ thr[t].pc \in {"idle", "validate", "lock", "startjob"} => thr[t].job = NoJob
    /\ thr[t].pc \in {"done", "error"} => thr[t].job # NoJob

Exclusive ==
  \A t, u \in Threads : Holds(t) /\ Holds(u) /\ thr[t].vm = thr[u].vm => t = u

HeldIsLocked == \A t \in Threads : Holds(t) => locked[thr[t].vm]

JobsTold ==
  /\ \A t \in Threads : OnJob(t) => job[thr[t].job] = "running"
  /\ \A t, u \in Threads : OnJob(t) /\ thr[t].job = thr[u].job => t = u
  /\ \A j \in expired : job[j] \in {"done", "error"}

Inv ==
  /\ TypeOK /\ Shaped
  /\ Exclusive /\ HeldIsLocked /\ NoLeakedLock
  /\ JobsTold /\ RunningJobHasWorker

=============================================================================
