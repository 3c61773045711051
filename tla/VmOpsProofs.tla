----------------------------- MODULE VmOpsProofs -----------------------------
(***************************************************************************)
(* Proofs about VmOps, for any number of VMs, threads and jobs.            *)
(***************************************************************************)
EXTENDS VmOps, TLAPS

Busy == Pc \ {"idle", "done", "error"}

\* The program counters of a thread that has the lock of a VM.
Inside == Commands \cup {"startjob", "read", "poll"}

LEMMA InitInv == Init => Inv
<1> SUFFICES ASSUME Init PROVE Inv
  OBVIOUS
<1>1. Idle \in Thread
  BY AttemptsAssumption DEF Idle, Thread, Pc
<1>2. TypeOK
  BY <1>1 DEF Init, TypeOK
<1>3. \A t \in Threads : thr[t] = Idle /\ ~Holds(t) /\ ~OnJob(t)
  BY DEF Init, Idle, Holds, OnJob
<1>4. Shaped
  BY <1>3 DEF Shaped, Idle
<1>5. Exclusive /\ HeldIsLocked /\ NoLeakedLock
  BY <1>3 DEF Exclusive, HeldIsLocked, NoLeakedLock, Init
<1>6. JobsTold /\ RunningJobHasWorker
  BY <1>3 DEF JobsTold, RunningJobHasWorker, Init
<1> QED
  BY <1>2, <1>4, <1>5, <1>6 DEF Inv

\* A return: the unlock frees the VM of t and nobody else's, and a job keeps its
\* goroutine until it has written its outcome.
LEMMA LeaveKeeps ==
  ASSUME Inv, NEW t \in Threads, thr[t].pc \in Busy,
         NEW outcome \in {"done", "error"}, Leave(t, outcome),
         state' \in [Vms -> States], UNCHANGED <<job, expired, agent>>
  PROVE  Inv'
<1> USE DEF Inv
<1> DEFINE after == IF OnJob(t) THEN [thr[t] EXCEPT !.pc = outcome] ELSE Idle
<1>1. after \in Thread
  <2>1. Idle \in Thread
    BY AttemptsAssumption DEF Idle, Thread, Pc
  <2>2. thr[t] \in Thread /\ outcome \in Pc
    BY DEF TypeOK, Pc
  <2>3. [thr[t] EXCEPT !.pc = outcome] \in Thread
    BY <2>2 DEF Thread
  <2> QED
    BY <2>1, <2>3
<1>2. thr' = [thr EXCEPT ![t] = after]
  BY DEF Leave
<1>3. TypeOK'
  BY <1>1, <1>2 DEF TypeOK, Leave
<1>4. /\ thr'[t] = after
      /\ \A u \in Threads : u # t => thr'[u] = thr[u]
  BY <1>2 DEF TypeOK
<1>5. /\ after.pc \in {"idle", "done", "error"}
      /\ after.job = thr[t].job
      /\ after.pc = "idle" => after = Idle
      /\ after.pc # "idle" => after.vm = thr[t].vm /\ after.op = thr[t].op /\ OnJob(t)
  BY DEF OnJob, Idle, TypeOK, Thread
<1>6. Shaped'
  <2> SUFFICES ASSUME NEW u \in Threads
               PROVE  /\ thr'[u].pc = "idle" => thr'[u] = Idle
                      /\ thr'[u].pc # "idle" =>
                           /\ thr'[u].op \in Ops
                           /\ thr'[u].vm = NoVm <=> thr'[u].op = "create"
                           /\ thr'[u].op = "create" =>
                                thr'[u].pc \in {"startjob", "create", "done", "error"}
                      /\ thr'[u].pc \in {"idle", "validate", "lock", "startjob"} =>
                           thr'[u].job = NoJob
                      /\ thr'[u].pc \in {"done", "error"} => thr'[u].job # NoJob
    BY DEF Shaped
  <2>1. CASE u # t
    BY <2>1, <1>4 DEF Shaped
  <2>2. CASE u = t /\ after.pc = "idle"
    BY <2>2, <1>4, <1>5 DEF Idle
  <2>3. CASE u = t /\ after.pc # "idle"
    BY <2>3, <1>4, <1>5 DEF Shaped, Busy, OnJob
  <2> QED
    BY <2>1, <2>2, <2>3
<1>7. ~Holds(t)' /\ \A u \in Threads : u # t => (Holds(u)' <=> Holds(u))
  BY <1>4, <1>5 DEF Holds
<1>8. Exclusive'
  BY <1>4, <1>7 DEF Exclusive
<1>9. \A v \in Vms : locked'[v] = (locked[v] /\ ~(Holds(t) /\ thr[t].vm = v))
  BY DEF Leave
<1>10. HeldIsLocked'
  <2> SUFFICES ASSUME NEW u \in Threads, Holds(u)' PROVE locked'[thr'[u].vm]
    BY DEF HeldIsLocked
  <2>1. u # t /\ Holds(u) /\ thr'[u] = thr[u]
    BY <1>4, <1>7
  <2>2. thr[u].vm \in Vms
    BY <2>1 DEF Holds, TypeOK, Thread
  <2>3. locked[thr[u].vm] /\ ~(Holds(t) /\ thr[t].vm = thr[u].vm)
    BY <2>1 DEF HeldIsLocked, Exclusive
  <2> QED
    BY <2>1, <2>2, <2>3, <1>9
<1>11. NoLeakedLock'
  <2> SUFFICES ASSUME NEW v \in Vms, locked'[v]
               PROVE  \E u \in Threads : Holds(u)' /\ thr'[u].vm = v
    BY DEF NoLeakedLock
  <2>1. locked[v] /\ ~(Holds(t) /\ thr[t].vm = v)
    BY <1>9
  <2>2. PICK u \in Threads : Holds(u) /\ thr[u].vm = v
    BY <2>1 DEF NoLeakedLock
  <2> QED
    BY <2>1, <2>2, <1>4, <1>7
<1>12. \A u \in Threads : thr'[u].job = thr[u].job
  <2> HIDE DEF after
  <2>1. thr'[t].job = thr[t].job
    BY <1>4, <1>5
  <2>2. \A u \in Threads : u # t => thr'[u].job = thr[u].job
    BY <1>4
  <2> QED
    BY <2>1, <2>2
<1>13. JobsTold'
  BY <1>12 DEF JobsTold, OnJob
<1>14. RunningJobHasWorker'
  <2>1. \A j \in Jobs : job'[j] = "running" => \E u \in Threads : thr[u].job = j
    BY DEF RunningJobHasWorker
  <2> QED
    BY <2>1, <1>12 DEF RunningJobHasWorker
<1> QED
  BY <1>14, <1>3, <1>6, <1>8, <1>10, <1>11, <1>13

\* A step of an operation that has its lock and keeps it.
LEMMA StayKeeps ==
  ASSUME Inv, NEW t \in Threads, Holds(t), thr[t].pc # "startjob",
         NEW pc \in Inside \ {"startjob", "create"},
         NEW tries \in 0..(MaxAttempts - 1),
         thr' = [thr EXCEPT ![t] = [thr[t] EXCEPT !.pc = pc, !.tries = tries]],
         state' \in [Vms -> States], UNCHANGED <<locked, job, expired, agent>>
  PROVE  Inv'
<1> USE DEF Inv
<1> DEFINE after == [thr[t] EXCEPT !.pc = pc, !.tries = tries]
<1>1. thr[t] \in Thread /\ pc \in Pc
  BY DEF TypeOK, Inside, Pc
<1>2. after \in Thread
  BY <1>1 DEF Thread
<1>3. TypeOK'
  BY <1>2 DEF TypeOK
<1>4. /\ thr'[t] = after
      /\ \A u \in Threads : u # t => thr'[u] = thr[u]
  BY DEF TypeOK
<1>5. after.vm = thr[t].vm /\ after.op = thr[t].op /\ after.job = thr[t].job /\ after.pc = pc
  BY <1>1 DEF Thread
<1>6. pc \notin {"idle", "validate", "lock", "startjob", "create", "done", "error"}
  BY DEF Inside, Commands
<1>7. thr[t].op # "create"
  BY DEF Holds, Shaped
<1>8. Shaped'
  BY <1>4, <1>5, <1>6, <1>7 DEF Shaped, Holds
<1>9. \A u \in Threads : (Holds(u)' <=> Holds(u)) /\ thr'[u].vm = thr[u].vm /\ thr'[u].job = thr[u].job
  BY <1>4, <1>5, <1>6 DEF Holds
<1>10. Exclusive' /\ HeldIsLocked' /\ NoLeakedLock'
  BY <1>9 DEF Exclusive, HeldIsLocked, NoLeakedLock
<1>11. JobsTold' /\ RunningJobHasWorker'
  BY <1>9 DEF JobsTold, RunningJobHasWorker, OnJob
<1> QED
  BY <1>3, <1>8, <1>10, <1>11

\* At is a stay that keeps the number of attempts.
LEMMA AtIsStay ==
  ASSUME TypeOK, NEW t \in Threads, NEW pc, At(t, pc)
  PROVE  /\ thr[t].tries \in 0..(MaxAttempts - 1)
         /\ thr' = [thr EXCEPT ![t] = [thr[t] EXCEPT !.pc = pc, !.tries = thr[t].tries]]
<1>1. thr[t] \in Thread
  BY DEF TypeOK
<1>2. [thr[t] EXCEPT !.pc = pc] = [thr[t] EXCEPT !.pc = pc, !.tries = thr[t].tries]
  BY <1>1 DEF Thread
<1> QED
  BY <1>1, <1>2 DEF At, Thread

LEMMA AtKeeps ==
  ASSUME Inv, NEW t \in Threads, Holds(t), thr[t].pc # "startjob",
         NEW pc \in Inside \ {"startjob", "create"}, At(t, pc),
         state' \in [Vms -> States], UNCHANGED <<locked, job, expired, agent>>
  PROVE  Inv'
<1> DEFINE tries == thr[t].tries
<1>1. /\ tries \in 0..(MaxAttempts - 1)
      /\ thr' = [thr EXCEPT ![t] = [thr[t] EXCEPT !.pc = pc, !.tries = tries]]
  BY AtIsStay DEF Inv
<1> HIDE DEF tries
<1> QED
  BY <1>1, StayKeeps

\* VirtualBox only reaches states it has.
LEMMA AppliedTyped ==
  ASSUME TypeOK, NEW t \in Threads, Applied(t)
  PROVE  state' \in [Vms -> States]
<1>1. CASE thr[t].vm = NoVm
  BY <1>1 DEF Applied, TypeOK
<1>2. CASE thr[t].vm # NoVm
  <2>1. thr[t].vm \in Vms /\ state[thr[t].vm] \in States
    BY <1>2 DEF TypeOK, Thread
  <2>2. Effect(thr[t].pc, state[thr[t].vm]) \subseteq States
    BY <2>1 DEF Effect, States
  <2> QED
    BY <1>2, <2>1, <2>2 DEF Applied, TypeOK
<1> QED
  BY <1>1, <1>2

-----------------------------------------------------------------------------

LEMMA ArriveKeeps ==
  ASSUME Inv, NEW t \in Threads, NEW op \in Ops, NEW v \in Vms \cup {NoVm}, Arrive(t, op, v)
  PROVE  Inv'
<1> USE DEF Inv
<1> DEFINE pc == CASE op = "copy" -> "validate"
                   [] op = "create" -> "startjob"
                   [] OTHER -> "lock"
           new == [op |-> op, vm |-> v, tries |-> 0, job |-> NoJob, pc |-> pc]
<1>1. /\ thr' = [thr EXCEPT ![t] = new] /\ thr[t].pc = "idle"
      /\ op = "create" <=> v = NoVm
      /\ UNCHANGED <<state, locked, job, expired, agent>>
  BY DEF Arrive
<1>2. /\ new = [op |-> op, vm |-> v, tries |-> 0, job |-> NoJob, pc |-> pc]
      /\ pc \in {"validate", "startjob", "lock"}
      /\ pc = "startjob" <=> op = "create"
  BY DEF Ops
<1> HIDE DEF new, pc
<1>3. new \in Thread
  BY <1>2, AttemptsAssumption DEF Thread, Pc
<1>4. TypeOK'
  BY <1>1, <1>3 DEF TypeOK
<1>5. /\ thr'[t] = new
      /\ \A u \in Threads : u # t => thr'[u] = thr[u]
  BY <1>1 DEF TypeOK
<1>6. Shaped'
  BY <1>1, <1>2, <1>5 DEF Shaped
<1>7. \A u \in Threads : (Holds(u)' <=> Holds(u)) /\ (Holds(u) => thr'[u] = thr[u])
  BY <1>1, <1>2, <1>5 DEF Holds
<1>8. Exclusive' /\ HeldIsLocked' /\ NoLeakedLock'
  BY <1>1, <1>7 DEF Exclusive, HeldIsLocked, NoLeakedLock
<1>9. thr[t].job = NoJob /\ new.job = NoJob
  BY <1>1, <1>2 DEF Shaped
<1>10. \A u \in Threads : thr'[u].job = thr[u].job
  BY <1>5, <1>9
<1>11. JobsTold'
  BY <1>1, <1>10 DEF JobsTold, OnJob
<1>12. RunningJobHasWorker'
  BY <1>1, <1>10 DEF RunningJobHasWorker
<1> QED
  BY <1>4, <1>6, <1>8, <1>11, <1>12

LEMMA ValidateKeeps ==
  ASSUME Inv, NEW t \in Threads, Validate(t)
  PROVE  Inv'
<1> USE DEF Inv
<1>1. state' \in [Vms -> States] /\ UNCHANGED <<state, job, expired, agent>> /\ thr[t].pc = "validate"
  BY DEF Validate, TypeOK
<1>2. CASE Leave(t, "error")
  BY <1>1, <1>2, LeaveKeeps DEF Busy, Pc
<1>3. CASE At(t, "lock") /\ UNCHANGED locked
  <2> DEFINE after == [thr[t] EXCEPT !.pc = "lock"]
  <2>1. thr[t] \in Thread /\ after \in Thread
    BY DEF TypeOK, Thread, Pc
  <2>2. thr' = [thr EXCEPT ![t] = after]
    BY <1>3 DEF At
  <2>3. /\ after.pc = "lock" /\ after.op = thr[t].op /\ after.vm = thr[t].vm
        /\ after.job = thr[t].job
    BY <2>1 DEF Thread
  <2> HIDE DEF after
  <2>4. /\ thr'[t] = after
        /\ \A u \in Threads : u # t => thr'[u] = thr[u]
    BY <2>2 DEF TypeOK
  <2>5. TypeOK'
    BY <1>1, <1>3, <2>1, <2>2 DEF TypeOK
  <2>6. thr[t].op \in Ops \ {"create"} /\ thr[t].job = NoJob /\ (thr[t].vm = NoVm <=> thr[t].op = "create")
    BY <1>1 DEF Shaped
  <2>7. Shaped'
    BY <2>3, <2>4, <2>6 DEF Shaped
  <2>8. \A u \in Threads : (Holds(u)' <=> Holds(u)) /\ (Holds(u) => thr'[u] = thr[u])
    BY <1>1, <2>3, <2>4 DEF Holds
  <2>9. Exclusive' /\ HeldIsLocked' /\ NoLeakedLock'
    BY <1>3, <2>8 DEF Exclusive, HeldIsLocked, NoLeakedLock
  <2>10. \A u \in Threads : thr'[u].job = thr[u].job
    BY <2>3, <2>4
  <2>11. JobsTold'
    BY <1>1, <2>10 DEF JobsTold, OnJob
  <2>12. RunningJobHasWorker'
    BY <1>1, <2>10 DEF RunningJobHasWorker
  <2> QED
    BY <2>5, <2>7, <2>9, <2>11, <2>12
<1> QED
  BY <1>2, <1>3 DEF Validate

LEMMA TryLockKeeps ==
  ASSUME Inv, NEW t \in Threads, TryLockVm(t)
  PROVE  Inv'
<1> USE DEF Inv
<1>1. /\ state' \in [Vms -> States] /\ UNCHANGED <<state, job, expired, agent>>
      /\ thr[t].pc = "lock" /\ thr[t].pc \in Busy
  BY DEF TryLockVm, TypeOK, Busy, Pc
<1>2. CASE locked[thr[t].vm]
  BY <1>1, <1>2, LeaveKeeps DEF TryLockVm
<1>3. CASE ~locked[thr[t].vm]
  <2> DEFINE pc    == FirstPc(thr[t].op)
             vm    == thr[t].vm
             after == [thr[t] EXCEPT !.pc = pc]
  <2>1. thr[t].op \in Ops \ {"create"} /\ thr[t].job = NoJob /\ vm # NoVm
    BY <1>1 DEF Shaped
  <2>2. vm \in Vms
    BY <2>1 DEF TypeOK, Thread
  <2>3. PICK was : was = locked[vm] /\ was = FALSE
    BY <1>3, <2>2 DEF TypeOK
  <2>4. thr' = [thr EXCEPT ![t] = after] /\ locked' = [locked EXCEPT ![vm] = TRUE]
    BY <1>3 DEF TryLockVm, At
  <2>5. /\ pc \in {"read", "startjob", "poweroff", "modify"}
        /\ pc = "startjob" => thr[t].op = "copy"
    BY <2>1 DEF FirstPc, Ops
  <2>6. /\ after.pc = pc /\ after.op = thr[t].op /\ after.vm = vm
        /\ after.job = thr[t].job /\ after \in Thread
    BY <2>5 DEF TypeOK, Thread, Pc, Commands
  <2> HIDE DEF after, pc
  <2>7. /\ thr'[t] = after
        /\ \A u \in Threads : u # t => thr'[u] = thr[u]
    BY <2>4 DEF TypeOK
  <2>8. TypeOK'
    BY <1>1, <2>2, <2>4, <2>6 DEF TypeOK
  <2>9. Shaped'
    BY <2>1, <2>5, <2>6, <2>7 DEF Shaped
  <2>10. \A v \in Vms : locked'[v] = (IF v = vm THEN TRUE ELSE locked[v])
    BY <2>2, <2>4 DEF TypeOK
  <2>11. \A u \in Threads : Holds(u) => thr[u].vm # vm /\ thr[u].vm \in Vms
    BY <1>3 DEF HeldIsLocked, Holds, TypeOK, Thread
  <2>12. /\ Holds(t)'
         /\ \A u \in Threads : u # t => (Holds(u)' <=> Holds(u)) /\ thr'[u].vm = thr[u].vm
    BY <2>1, <2>5, <2>6, <2>7 DEF Holds
  <2>13. Exclusive'
    BY <2>6, <2>7, <2>11, <2>12 DEF Exclusive
  <2>14. HeldIsLocked'
    BY <2>2, <2>6, <2>7, <2>10, <2>11, <2>12 DEF HeldIsLocked
  <2>15. NoLeakedLock'
    <3> SUFFICES ASSUME NEW v \in Vms, locked'[v]
                 PROVE  \E u \in Threads : Holds(u)' /\ thr'[u].vm = v
      BY DEF NoLeakedLock
    <3>1. CASE v = vm
      BY <3>1, <2>6, <2>7, <2>12
    <3>2. CASE v # vm
      <4>1. PICK u \in Threads : Holds(u) /\ thr[u].vm = v
        BY <3>2, <2>10 DEF NoLeakedLock
      <4>2. u # t
        BY <4>1, <1>1 DEF Holds
      <4> QED
        BY <4>1, <4>2, <2>12
    <3> QED
      BY <3>1, <3>2
  <2>16. \A u \in Threads : thr'[u].job = thr[u].job
    BY <2>6, <2>7
  <2>17. JobsTold'
    BY <1>1, <2>16 DEF JobsTold, OnJob
  <2>18. RunningJobHasWorker'
    BY <1>1, <2>16 DEF RunningJobHasWorker
  <2> QED
    BY <2>8, <2>9, <2>13, <2>14, <2>15, <2>17, <2>18
<1> QED
  BY <1>2, <1>3

LEMMA StartCreateJobKeeps ==
  ASSUME Inv, NEW t \in Threads, StartCreateJob(t)
  PROVE  Inv'
<1> USE DEF Inv
<1>1. PICK j \in Jobs :
        /\ job[j] = "none" \/ j \in expired
        /\ job' = [i \in Jobs |-> IF i = j THEN "running"
                                  ELSE IF i \in expired THEN "none" ELSE job[i]]
        /\ thr' = [thr EXCEPT ![t] =
                      [thr[t] EXCEPT !.job = j,
                                     !.pc = IF thr[t].op = "copy" THEN "read" ELSE "create"]]
  BY DEF StartCreateJob, Swept
<1>2. /\ thr[t].pc = "startjob" /\ thr[t].job = NoJob
      /\ expired' = {} /\ UNCHANGED <<state, locked, agent>>
      /\ thr[t].vm = NoVm <=> thr[t].op = "create"
      /\ thr[t].op \in Ops
  BY DEF StartCreateJob, Shaped
<1> DEFINE pc    == IF thr[t].op = "copy" THEN "read" ELSE "create"
           after == [thr[t] EXCEPT !.job = j, !.pc = pc]
<1>3. /\ after \in Thread
      /\ after.pc = pc /\ after.op = thr[t].op /\ after.vm = thr[t].vm /\ after.job = j
  BY DEF TypeOK, Thread, Pc, Commands
<1>4. pc \in {"read", "create"} /\ (thr[t].op = "create" => pc = "create")
  OBVIOUS
<1>5. thr' = [thr EXCEPT ![t] = after]
  BY <1>1
<1> HIDE DEF after, pc
<1>6. /\ thr'[t] = after
      /\ \A u \in Threads : u # t => thr'[u] = thr[u]
  BY <1>5 DEF TypeOK
<1>7. TypeOK'
  BY <1>1, <1>2, <1>3, <1>5 DEF TypeOK
<1>8. j # NoJob
  BY NoJobAssumption
<1>9. Shaped'
  BY <1>2, <1>3, <1>4, <1>6, <1>8 DEF Shaped
<1>10. \A u \in Threads : (Holds(u)' <=> Holds(u)) /\ thr'[u].vm = thr[u].vm
  BY <1>2, <1>3, <1>4, <1>6 DEF Holds
<1>11. Exclusive' /\ HeldIsLocked' /\ NoLeakedLock'
  BY <1>2, <1>10 DEF Exclusive, HeldIsLocked, NoLeakedLock
<1>12. \A u \in Threads : OnJob(u) => u # t /\ thr[u].job # j /\ thr[u].job \in Jobs
                                     /\ thr[u].job \notin expired
  BY <1>1, <1>2 DEF JobsTold, OnJob, TypeOK, Thread
<1>13. job'[j] = "running" /\ \A i \in Jobs \ expired : i # j => job'[i] = job[i]
  BY <1>1
<1>14. JobsTold'
  <2>1. \A u \in Threads : OnJob(u)' => u = t \/ OnJob(u)
    BY <1>6 DEF OnJob
  <2>2. \A u \in Threads : OnJob(u)' => job'[thr'[u].job] = "running"
    BY <2>1, <1>3, <1>6, <1>12, <1>13 DEF JobsTold
  <2>3. \A u \in Threads : u # t /\ OnJob(u)' => thr'[u].job # thr'[t].job
    BY <2>1, <1>3, <1>6, <1>12
  <2>4. \A u, w \in Threads : OnJob(u)' /\ thr'[u].job = thr'[w].job => u = w
    <3> SUFFICES ASSUME NEW u \in Threads, NEW w \in Threads,
                        OnJob(u)', thr'[u].job = thr'[w].job, u # w
                 PROVE  FALSE
      OBVIOUS
    <3>1. OnJob(w)'
      BY DEF OnJob
    <3>2. u # t /\ w # t
      BY <3>1, <2>3
    <3> QED
      BY <3>2, <1>6 DEF JobsTold, OnJob
  <2> QED
    BY <2>2, <2>4, <1>2 DEF JobsTold
<1>15. RunningJobHasWorker'
  <2> SUFFICES ASSUME NEW i \in Jobs, job'[i] = "running"
               PROVE  \E u \in Threads : thr'[u].job = i
    BY DEF RunningJobHasWorker
  <2>1. CASE i = j
    BY <2>1, <1>3, <1>6
  <2>2. CASE i # j
    <3>1. job[i] = "running"
      BY <2>2, <1>1
    <3>2. PICK u \in Threads : thr[u].job = i
      BY <3>1 DEF RunningJobHasWorker
    <3>3. u # t
      BY <3>2, <1>2, NoJobAssumption
    <3> QED
      BY <3>2, <3>3, <1>6
  <2> QED
    BY <2>1, <2>2
<1> QED
  BY <1>7, <1>9, <1>11, <1>14, <1>15

LEMMA ReportKeeps ==
  ASSUME Inv, NEW t \in Threads, Report(t)
  PROVE  Inv'
<1> USE DEF Inv
<1>1. /\ thr[t].pc \in {"done", "error"}
      /\ job' = [job EXCEPT ![thr[t].job] = thr[t].pc]
      /\ thr' = [thr EXCEPT ![t] = Idle]
      /\ UNCHANGED <<state, locked, expired, agent>>
  BY DEF Report
<1>2. Idle \in Thread /\ Idle.pc = "idle" /\ Idle.job = NoJob
  BY AttemptsAssumption DEF Idle, Thread, Pc
<1>3. thr[t].job # NoJob /\ thr[t].job \in Jobs
  BY <1>1 DEF Shaped, TypeOK, Thread
<1>4. /\ thr'[t] = Idle
      /\ \A u \in Threads : u # t => thr'[u] = thr[u]
  BY <1>1 DEF TypeOK
<1>5. TypeOK'
  BY <1>1, <1>2, <1>3 DEF TypeOK
<1>6. Shaped'
  BY <1>2, <1>4 DEF Shaped
<1>7. \A u \in Threads : (Holds(u)' <=> Holds(u)) /\ (Holds(u) => thr'[u] = thr[u])
  BY <1>1, <1>2, <1>4 DEF Holds
<1>8. Exclusive' /\ HeldIsLocked' /\ NoLeakedLock'
  BY <1>1, <1>7 DEF Exclusive, HeldIsLocked, NoLeakedLock
<1>9. \A u \in Threads : OnJob(u)' => /\ u # t /\ OnJob(u) /\ thr'[u] = thr[u]
                                      /\ thr[u].job # thr[t].job /\ thr[u].job \in Jobs
  BY <1>2, <1>4 DEF OnJob, JobsTold, TypeOK, Thread
<1>10. \A i \in Jobs : job'[i] = IF i = thr[t].job THEN thr[t].pc ELSE job[i]
  BY <1>1, <1>3 DEF TypeOK
<1>11. JobsTold'
  <2>1. \A u \in Threads : OnJob(u)' => job'[thr'[u].job] = "running"
    BY <1>9, <1>10 DEF JobsTold
  <2>2. \A u, w \in Threads : OnJob(u)' /\ thr'[u].job = thr'[w].job => u = w
    <3> SUFFICES ASSUME NEW u \in Threads, NEW w \in Threads,
                        OnJob(u)', thr'[u].job = thr'[w].job
                 PROVE  u = w
      OBVIOUS
    <3>1. OnJob(w)'
      BY DEF OnJob
    <3> QED
      BY <3>1, <1>9 DEF JobsTold
  <2>3. \A i \in expired : i \in Jobs /\ job'[i] \in {"done", "error"}
    BY <1>1, <1>10 DEF JobsTold, TypeOK
  <2> QED
    BY <2>1, <2>2, <2>3, <1>1 DEF JobsTold
<1>12. RunningJobHasWorker'
  <2> SUFFICES ASSUME NEW i \in Jobs, job'[i] = "running"
               PROVE  \E u \in Threads : thr'[u].job = i
    BY DEF RunningJobHasWorker
  <2>1. i # thr[t].job /\ job[i] = "running"
    BY <1>1, <1>10
  <2>2. PICK u \in Threads : thr[u].job = i
    BY <2>1 DEF RunningJobHasWorker
  <2> QED
    BY <2>1, <2>2, <1>4
<1> QED
  BY <1>5, <1>6, <1>8, <1>11, <1>12

\* Every pc but these belongs to a thread that has its lock.
LEMMA InsideHolds ==
  ASSUME Inv, NEW t \in Threads, thr[t].pc \in Inside \ {"startjob", "create"}
  PROVE  Holds(t) /\ thr[t].pc \in Busy /\ thr[t].vm \in Vms
<1>1. thr[t].pc \notin {"idle", "validate", "lock", "done", "error", "startjob", "create"}
      /\ thr[t].pc \in Busy
  BY DEF Inside, Commands, Busy, Pc
<1>2. thr[t].vm # NoVm
  BY <1>1 DEF Inv, Shaped
<1> QED
  BY <1>1, <1>2 DEF Holds, Inv, TypeOK, Thread

LEMMA ReadStateKeeps ==
  ASSUME Inv, NEW t \in Threads, ReadState(t)
  PROVE  Inv'
<1>1. /\ thr[t].pc = "read" /\ thr[t].pc \in Inside \ {"startjob", "create"}
      /\ UNCHANGED <<state, job, expired, agent>>
  BY DEF ReadState, Inside
<1>2. TypeOK /\ state' \in [Vms -> States]
  BY <1>1 DEF Inv, TypeOK
<1> DEFINE next == NextPc(thr[t].op, state[thr[t].vm])
<1>3. next \in {"leave", "resume", "startvm", "savestate", "poweroff", "restore",
                "unregister", "copy"}
  BY DEF NextPc, StartVM, SaveState, RestoreSnapshot, DeleteVM, CheckSource
<1>4. IF next = "leave" THEN Leave(t, "error") ELSE At(t, next) /\ UNCHANGED locked
  BY DEF ReadState
<1> HIDE DEF next
<1>5. CASE next = "leave"
  BY <1>1, <1>2, <1>4, <1>5, InsideHolds, LeaveKeeps
<1>6. CASE next # "leave"
  <2>1. next \in Inside \ {"startjob", "create"}
    BY <1>3, <1>6 DEF Inside, Commands
  <2>2. Holds(t) /\ thr[t].pc # "startjob"
    BY <1>1, InsideHolds
  <2> QED
    BY <1>1, <1>2, <1>4, <1>6, <2>1, <2>2, AtKeeps
<1> QED
  BY <1>5, <1>6

LEMMA ReadFailsKeeps ==
  ASSUME Inv, NEW t \in Threads, ReadFails(t)
  PROVE  Inv'
<1>1. /\ thr[t].pc = "read" /\ thr[t].pc \in Inside \ {"startjob", "create"}
      /\ UNCHANGED <<state, job, expired, agent>>
  BY DEF ReadFails, Inside
<1>2. TypeOK /\ state' \in [Vms -> States]
  BY <1>1 DEF Inv, TypeOK
<1>3. CASE thr[t].op = "start"
  <2>1. "startvm" \in Inside \ {"startjob", "create"}
    BY DEF Inside, Commands
  <2>2. Holds(t) /\ thr[t].pc # "startjob"
    BY <1>1, InsideHolds
  <2>3. At(t, "startvm") /\ UNCHANGED locked
    BY <1>3 DEF ReadFails
  <2> QED
    BY <1>1, <1>2, <2>1, <2>2, <2>3, AtKeeps
<1>4. CASE thr[t].op # "start"
  BY <1>1, <1>2, <1>4, InsideHolds, LeaveKeeps DEF ReadFails
<1> QED
  BY <1>3, <1>4

LEMMA CommandKeeps ==
  ASSUME Inv, NEW t \in Threads, CommandDone(t) \/ CommandFails(t)
  PROVE  Inv'
<1>1. /\ thr[t].pc \in Commands /\ UNCHANGED <<job, expired, agent>>
      /\ Applied(t) \/ UNCHANGED state
  BY DEF CommandDone, CommandFails
<1>2. TypeOK /\ state' \in [Vms -> States]
  BY <1>1, AppliedTyped DEF Inv, TypeOK
<1>3. thr[t].pc \in Busy
  BY <1>1 DEF Commands, Busy, Pc
<1>4. CASE Leave(t, "done") \/ Leave(t, "error")
  BY <1>1, <1>2, <1>3, <1>4, LeaveKeeps
<1>5. CASE thr[t].pc = "poweroff" /\ At(t, "poll") /\ UNCHANGED locked
  <2>1. thr[t].pc \in Inside \ {"startjob", "create"} /\ "poll" \in Inside \ {"startjob", "create"}
    BY <1>5 DEF Inside, Commands
  <2>2. Holds(t) /\ thr[t].pc # "startjob"
    BY <1>5, <2>1, InsideHolds
  <2> QED
    BY <1>1, <1>2, <1>5, <2>1, <2>2, AtKeeps
<1> QED
  BY <1>4, <1>5 DEF CommandDone, CommandFails

LEMMA RetryKeeps ==
  ASSUME Inv, NEW t \in Threads, Retry(t)
  PROVE  Inv'
<1>1. /\ thr[t].pc \in Inside \ {"startjob", "create"}
      /\ UNCHANGED <<state, locked, job, expired, agent>>
  BY DEF Retry, Inside, Commands
<1>2. thr[t] \in Thread /\ state' \in [Vms -> States]
  BY <1>1 DEF Inv, TypeOK
<1>3. /\ thr[t].tries + 1 \in 0..(MaxAttempts - 1)
      /\ thr[t].tries < MaxAttempts - 1
  BY <1>2, AttemptsAssumption DEF Retry, Thread
<1>4. [thr[t] EXCEPT !.tries = thr[t].tries + 1]
        = [thr[t] EXCEPT !.pc = thr[t].pc, !.tries = thr[t].tries + 1]
  BY <1>2 DEF Thread
<1>5. thr' = [thr EXCEPT ![t] = [thr[t] EXCEPT !.pc = thr[t].pc, !.tries = thr[t].tries + 1]]
  BY <1>4 DEF Retry
<1>6. Holds(t) /\ thr[t].pc # "startjob"
  BY <1>1, InsideHolds
<1> QED
  BY <1>1, <1>2, <1>3, <1>5, <1>6, StayKeeps

LEMMA PollKeeps ==
  ASSUME Inv, NEW t \in Threads, PollSeesDown(t) \/ PollTimesOut(t)
  PROVE  Inv'
<1>1. /\ thr[t].pc \in Inside \ {"startjob", "create"} /\ "restore" \in Inside \ {"startjob", "create"}
      /\ UNCHANGED <<state, job, expired, agent>>
  BY DEF PollSeesDown, PollTimesOut, Inside, Commands
<1>2. TypeOK /\ state' \in [Vms -> States]
  BY <1>1 DEF Inv, TypeOK
<1>3. Holds(t) /\ thr[t].pc # "startjob" /\ thr[t].pc \in Busy
  BY <1>1, InsideHolds
<1>4. CASE PollSeesDown(t)
  <2>1. At(t, "restore") /\ UNCHANGED locked
    BY <1>4 DEF PollSeesDown
  <2> QED
    BY <1>1, <1>2, <1>3, <2>1, AtKeeps
<1>5. CASE PollTimesOut(t)
  BY <1>1, <1>2, <1>3, <1>5, LeaveKeeps DEF PollTimesOut
<1> QED
  BY <1>4, <1>5

\* Steps of VirtualBox, of its user and of time, which touch no thread.
LEMMA OutsideKeeps ==
  ASSUME Inv,
         \/ \E j \in Jobs : Expire(j)
         \/ \E v \in Vms : VmChanges(v) \/ StartedOutside(v)
         \/ Quit
         \/ UNCHANGED vars
  PROVE  Inv'
<1>1. UNCHANGED <<thr, locked, job>>
  BY DEF Expire, VmChanges, StartedOutside, Quit, vars
<1>2. /\ expired' \subseteq Jobs
      /\ \A j \in expired' : job[j] \in {"done", "error"}
  BY DEF Expire, VmChanges, StartedOutside, Quit, vars, Inv, TypeOK, JobsTold
<1>3. agent' \in {"up", "draining", "exited"}
  BY DEF Expire, VmChanges, StartedOutside, Quit, vars, Inv, TypeOK
<1>4. state' \in [Vms -> States]
  <2>1. CASE \E v \in Vms : VmChanges(v)
    <3>1. PICK v \in Vms, s \in {"running", "off", "paused", "stopping", "saved"} :
            state' = [state EXCEPT ![v] = s]
      BY <2>1 DEF VmChanges
    <3> QED
      BY <3>1 DEF Inv, TypeOK, States
  <2>2. CASE \E v \in Vms : StartedOutside(v)
    BY <2>2 DEF StartedOutside, Inv, TypeOK, States
  <2>3. CASE UNCHANGED state
    BY <2>3 DEF Inv, TypeOK
  <2> QED
    BY <2>1, <2>2, <2>3 DEF Expire, Quit, vars
<1>5. TypeOK'
  BY <1>1, <1>2, <1>3, <1>4 DEF Inv, TypeOK
<1>6. Shaped' /\ Exclusive' /\ HeldIsLocked' /\ NoLeakedLock'
  BY <1>1 DEF Inv, Shaped, Exclusive, HeldIsLocked, NoLeakedLock, Holds
<1>7. JobsTold' /\ RunningJobHasWorker'
  BY <1>1, <1>2 DEF Inv, JobsTold, RunningJobHasWorker, OnJob
<1> QED
  BY <1>5, <1>6, <1>7 DEF Inv

LEMMA ExitKeeps ==
  ASSUME Inv, Exit
  PROVE  Inv'
<1>1. Idle \in Thread /\ Idle.pc = "idle" /\ Idle.job = NoJob
  BY AttemptsAssumption DEF Idle, Thread, Pc
<1>2. TypeOK'
  BY <1>1 DEF Exit, Inv, TypeOK
<1>3. \A t \in Threads : thr'[t] = Idle /\ ~Holds(t)' /\ ~OnJob(t)'
  BY <1>1 DEF Exit, Holds, OnJob
<1>4. Shaped'
  BY <1>1, <1>3 DEF Shaped
<1>5. Exclusive' /\ HeldIsLocked' /\ NoLeakedLock'
  BY <1>3 DEF Exit, Exclusive, HeldIsLocked, NoLeakedLock
<1>6. JobsTold' /\ RunningJobHasWorker'
  BY <1>3 DEF Exit, JobsTold, RunningJobHasWorker
<1> QED
  BY <1>2, <1>4, <1>5, <1>6 DEF Inv

LEMMA StepKeeps ==
  ASSUME Inv, NEW t \in Threads, Step(t)
  PROVE  Inv'
BY ValidateKeeps, TryLockKeeps, StartCreateJobKeeps, ReadStateKeeps, ReadFailsKeeps,
   CommandKeeps, RetryKeeps, PollKeeps, ReportKeeps DEF Step

LEMMA NextKeeps == Inv /\ [Next]_vars => Inv'
BY ArriveKeeps, StepKeeps, OutsideKeeps, ExitKeeps DEF Next

-----------------------------------------------------------------------------

\* The lock, the threads and the job table stay consistent.
THEOREM OpsCorrect == Spec => []Inv
BY InitInv, NextKeeps, PTL DEF Spec

\* The state stays well typed, and no start is retried past its bound.
THEOREM TypeCorrect == Spec => []TypeOK
BY OpsCorrect, PTL DEF Inv

\* No return path of any operation leaks the lock of a VM, and no job is
\* abandoned in the state "running".
THEOREM WorkHasOwner == Spec => []WorkIsOwned
<1>1. Inv => WorkIsOwned
  BY DEF Inv, WorkIsOwned
<1> QED
  BY <1>1, OpsCorrect, PTL

\* Nothing else is sent to a VM while it is cloned or exported.
THEOREM CopiesAreAlone == Spec => []CopyIsAlone
<1>1. Inv => CopyIsAlone
  <2> SUFFICES ASSUME Inv, NEW t \in Threads, NEW u \in Threads,
                      thr[t].pc = "copy", thr[u].pc \in Commands, thr[u].vm = thr[t].vm
               PROVE  t = u
    BY DEF CopyIsAlone
  <2>1. Holds(t)
    BY InsideHolds DEF Inside, Commands
  <2>2. Holds(u)
    BY <2>1 DEF Holds, Commands
  <2> QED
    BY <2>1, <2>2 DEF Inv, Exclusive
<1> QED
  BY <1>1, OpsCorrect, PTL

-----------------------------------------------------------------------------

\* The other threads are where they were, and what their commands work on is
\* untouched by t.
LEMMA OthersUndisturbed ==
  ASSUME Inv, NEW t \in Threads, Step(t),
         NEW u \in Threads, u # t, thr[u].pc \in Taking
  PROVE  thr'[u] = thr[u] /\ state'[thr[u].vm] = state[thr[u].vm]
<1>1. thr'[u] = thr[u]
  BY DEF Step, Validate, TryLockVm, StartCreateJob, ReadState, ReadFails, CommandDone,
     CommandFails, Retry, PollSeesDown, PollTimesOut, Report, Leave, At, Inv, TypeOK
<1>2. Holds(u) /\ thr[u].vm \in Vms
  BY InsideHolds DEF Taking, Inside, Commands
<1>3. CASE UNCHANGED state
  BY <1>1, <1>3
<1>4. CASE thr[t].pc \in Commands /\ Applied(t) /\ thr[t].vm # NoVm
  <2>1. Holds(t)
    BY <1>4 DEF Holds, Commands
  <2>2. thr[t].vm # thr[u].vm
    BY <2>1, <1>2 DEF Inv, Exclusive
  <2> QED
    BY <1>1, <1>2, <1>4, <2>2 DEF Applied, Inv, TypeOK
<1> QED
  BY <1>3, <1>4 DEF Step, Validate, TryLockVm, StartCreateJob, ReadState, ReadFails,
     CommandDone, CommandFails, Retry, PollSeesDown, PollTimesOut, Report, Applied

\* t starts taking its VM only in a step that saw it stopped.
LEMMA TakesStopped ==
  ASSUME Inv, NEW t \in Threads, Step(t), thr'[t].pc \in Taking
  PROVE  state'[thr'[t].vm] \notin Live
<1> DEFINE s == state[thr[t].vm]
<1>1. \A pc \in Pc : At(t, pc) => thr'[t].pc = pc /\ thr'[t].vm = thr[t].vm
  <2> SUFFICES ASSUME NEW pc \in Pc, At(t, pc)
               PROVE  thr'[t].pc = pc /\ thr'[t].vm = thr[t].vm
    OBVIOUS
  <2> DEFINE after == [thr[t] EXCEPT !.pc = pc]
  <2>1. thr[t] \in Thread /\ thr'[t] = after
    BY DEF Inv, TypeOK, At
  <2>2. after.pc = pc /\ after.vm = thr[t].vm
    BY <2>1 DEF Thread
  <2> HIDE DEF after
  <2> QED
    BY <2>1, <2>2
<1>2. \A outcome \in {"done", "error"} : ~Leave(t, outcome)
  <2> SUFFICES ASSUME NEW outcome \in {"done", "error"}, Leave(t, outcome) PROVE FALSE
    OBVIOUS
  <2> DEFINE after == IF OnJob(t) THEN [thr[t] EXCEPT !.pc = outcome] ELSE Idle
  <2>1. thr[t] \in Thread /\ thr'[t] = after
    BY DEF Inv, TypeOK, Leave
  <2>2. after.pc \in {outcome, "idle"}
    BY <2>1 DEF Thread, Idle
  <2> HIDE DEF after
  <2> QED
    BY <2>1, <2>2 DEF Taking
<1>3. CASE ReadState(t)
  <2> DEFINE next == NextPc(thr[t].op, s)
  <2>1. At(t, next) /\ UNCHANGED state
    BY <1>2, <1>3 DEF ReadState
  <2>2. next \in Pc \cup {"leave"} /\ (next \in Taking => s \notin Live)
    BY DEF NextPc, StartVM, SaveState, RestoreSnapshot, DeleteVM, CheckSource,
       Taking, Pc, Commands
  <2> HIDE DEF next, s
  <2>3. next # "leave" => thr'[t].pc = next /\ thr'[t].vm = thr[t].vm
    BY <2>1, <2>2, <1>1
  <2>4. next # "leave"
    BY <1>2, <1>3 DEF ReadState, next, s
  <2> QED
    BY <2>1, <2>2, <2>3, <2>4 DEF s
<1>4. CASE PollSeesDown(t)
  <2>1. At(t, "restore") /\ UNCHANGED state /\ s \notin Live
    BY <1>4 DEF PollSeesDown
  <2>2. thr'[t].vm = thr[t].vm
    BY <2>1, <1>1 DEF Pc, Commands
  <2> QED
    BY <2>1, <2>2
<1>5. CASE ~ReadState(t) /\ ~PollSeesDown(t)
  <2>1. \A pc \in Pc : At(t, pc) => thr'[t].pc = pc
    BY <1>1
  <2>2. "lock" \in Pc /\ "startvm" \in Pc /\ "poll" \in Pc
    BY DEF Pc, Commands
  <2>3. ~Validate(t) /\ ~ReadFails(t) /\ ~CommandDone(t) /\ ~CommandFails(t) /\ ~PollTimesOut(t)
    BY <1>2, <2>1, <2>2 DEF Validate, ReadFails, CommandDone, CommandFails, PollTimesOut, Taking
  <2>4. ~TryLockVm(t)
    <3>1. thr[t].pc = "lock" => FirstPc(thr[t].op) \notin Taking /\ FirstPc(thr[t].op) \in Pc
      BY DEF FirstPc, Taking, Inv, Shaped, Ops, Pc, Commands
    <3> QED
      BY <3>1, <1>2, <2>1 DEF TryLockVm
  <2>5. ~StartCreateJob(t)
    <3> SUFFICES ASSUME StartCreateJob(t) PROVE FALSE
      OBVIOUS
    <3> DEFINE pc == IF thr[t].op = "copy" THEN "read" ELSE "create"
    <3>1. PICK j \in Jobs : thr' = [thr EXCEPT ![t] = [thr[t] EXCEPT !.job = j, !.pc = pc]]
      BY DEF StartCreateJob
    <3>2. thr[t] \in Thread /\ thr'[t] = [thr[t] EXCEPT !.job = j, !.pc = pc]
      BY <3>1 DEF Inv, TypeOK
    <3>3. thr'[t].pc = pc
      BY <3>2 DEF Thread
    <3> QED
      BY <3>3 DEF Taking
  <2>6. ~Retry(t)
    <3> SUFFICES ASSUME Retry(t) PROVE FALSE
      OBVIOUS
    <3>1. thr[t] \in Thread /\ thr'[t] = [thr[t] EXCEPT !.tries = thr[t].tries + 1]
      BY DEF Retry, Inv, TypeOK
    <3>2. thr'[t].pc = thr[t].pc
      BY <3>1 DEF Thread
    <3> QED
      BY <3>2 DEF Retry, Taking
  <2>7. ~Report(t)
    BY DEF Report, Inv, TypeOK, Idle, Taking
  <2> QED
    BY <1>5, <2>3, <2>4, <2>5, <2>6, <2>7 DEF Step
<1> QED
  BY <1>3, <1>4, <1>5

\* What SourceStaysStopped allows of a step, for one thread.
KeptStopped(u) ==
  \/ state'[thr'[u].vm] \notin Live
  \/ /\ thr[u].pc \in Taking
     /\ state[thr[u].vm] \in Live \/ StartedOutside(thr[u].vm)

\* A VM that is being cloned, exported, removed or rolled back was seen stopped,
\* and nothing but a start outside the agent makes it run before the command is
\* over.
THEOREM SourcesStayStopped == Spec => SourceStaysStopped
<1>1. Inv /\ [Next]_vars =>
        (\A u \in Threads : thr'[u].pc \in Taking => KeptStopped(u)) \/ UNCHANGED vars
  <2> SUFFICES ASSUME Inv, Next, NEW u \in Threads, thr'[u].pc \in Taking,
                      ~(thr[u].pc \in Taking /\ state[thr[u].vm] \in Live)
               PROVE  KeptStopped(u)
    BY DEF KeptStopped
  <2>1. ASSUME NEW t \in Threads, Step(t) PROVE state'[thr'[u].vm] \notin Live
    <3>1. CASE u = t
      BY <2>1, <3>1, TakesStopped
    <3>2. CASE u # t
      <4>1. thr'[u] = thr[u]
        BY <2>1, <3>2 DEF Step, Validate, TryLockVm, StartCreateJob, ReadState, ReadFails,
           CommandDone, CommandFails, Retry, PollSeesDown, PollTimesOut, Report, Leave, At,
           Inv, TypeOK
      <4>2. state'[thr[u].vm] = state[thr[u].vm]
        BY <2>1, <3>2, <4>1, OthersUndisturbed
      <4> QED
        BY <4>1, <4>2
    <3> QED
      BY <3>1, <3>2
  <2>2. ASSUME NEW t \in Threads, NEW op \in Ops, NEW v \in Vms \cup {NoVm}, Arrive(t, op, v)
        PROVE  state'[thr'[u].vm] \notin Live
    <3>1. u # t => thr'[u] = thr[u]
      BY <2>2 DEF Arrive, Inv, TypeOK
    <3>2. thr'[t].pc \notin Taking
      BY <2>2 DEF Arrive, Inv, TypeOK, Taking
    <3> QED
      BY <3>1, <3>2, <2>2 DEF Arrive
  <2>3. ASSUME NEW v \in Vms, VmChanges(v) PROVE state'[thr'[u].vm] \notin Live
    <3>1. thr' = thr /\ state[thr[u].vm] \notin Live
      BY <2>3 DEF VmChanges
    <3>2. PICK s : /\ state' = [state EXCEPT ![v] = s]
                   /\ state[v] \notin Live => s \in {"off", "saved"}
      BY <2>3 DEF VmChanges, Live
    <3>3. state'[thr[u].vm] \in {state[thr[u].vm], s}
          /\ (state'[thr[u].vm] # state[thr[u].vm] => thr[u].vm = v)
      <4>1. thr[u].vm \in Vms
        BY <3>1, InsideHolds DEF Taking, Inside, Commands
      <4> QED
        BY <3>2, <4>1 DEF Inv, TypeOK
    <3> QED
      BY <3>1, <3>2, <3>3 DEF Live
  <2>4. ASSUME NEW v \in Vms, StartedOutside(v) PROVE KeptStopped(u)
    <3>1. thr' = thr /\ state[thr[u].vm] \notin Live /\ thr[u].pc \in Taking
      BY <2>4 DEF StartedOutside
    <3>2. thr[u].vm # v => state'[thr[u].vm] = state[thr[u].vm]
      BY <2>4 DEF StartedOutside, Inv, TypeOK
    <3> QED
      BY <2>4, <3>1, <3>2 DEF KeptStopped
  <2>5. CASE UNCHANGED <<thr, state>>
    BY <2>5 DEF KeptStopped
  <2>6. CASE Exit
    BY <2>6 DEF Exit, Idle, Taking
  <2> QED
    BY <2>1, <2>2, <2>3, <2>4, <2>5, <2>6 DEF Next, Expire, Quit, KeptStopped
<1>2. Inv /\ [Next]_vars => [\A t \in Threads : StaysStopped(t)]_vars
  BY <1>1 DEF KeptStopped, StaysStopped
<1> QED
  BY <1>2, OpsCorrect, PTL DEF Spec, SourceStaysStopped

-----------------------------------------------------------------------------

\* A job is told running until its own goroutine writes its outcome, which then
\* stays until it is swept.
THEOREM JobsKeepTheirHistory == Spec => JobHistory
<1>1. Inv /\ [Next]_vars => \A j \in Jobs : JobStep(j) \/ UNCHANGED vars
  <2> SUFFICES ASSUME Inv, [Next]_vars, NEW j \in Jobs PROVE JobStep(j) \/ UNCHANGED vars
    OBVIOUS
  <2>1. CASE UNCHANGED job
    BY <2>1 DEF JobStep
  <2>2. ASSUME NEW t \in Threads, StartCreateJob(t) PROVE JobStep(j)
    <3>1. PICK i \in Jobs :
            /\ job[i] = "none" \/ i \in expired
            /\ job' = [k \in Jobs |-> IF k = i THEN "running"
                                      ELSE IF k \in expired THEN "none" ELSE job[k]]
      BY <2>2 DEF StartCreateJob, Swept
    <3>2. j \in expired => job[j] # "running"
      BY DEF Inv, JobsTold
    <3> QED
      BY <3>1, <3>2 DEF JobStep
  <2>3. ASSUME NEW t \in Threads, Report(t) PROVE JobStep(j)
    <3>1. /\ job' = [job EXCEPT ![thr[t].job] = thr[t].pc] /\ thr[t].pc \in {"done", "error"}
          /\ job[thr[t].job] = "running"
      BY <2>3 DEF Report, Inv, Shaped, JobsTold, OnJob
    <3>2. job'[j] = IF j = thr[t].job THEN thr[t].pc ELSE job[j]
      BY <3>1 DEF Inv, TypeOK
    <3> QED
      BY <3>1, <3>2 DEF JobStep
  <2>4. CASE Exit
    BY <2>4 DEF Exit, JobStep
  <2> QED
    BY <2>1, <2>2, <2>3, <2>4
    DEF Next, Arrive, Step, Validate, TryLockVm, ReadState, ReadFails, CommandDone,
        CommandFails, Retry, PollSeesDown, PollTimesOut, Expire, VmChanges, StartedOutside,
        Quit, vars
<1>2. Inv /\ [Next]_vars => [\A j \in Jobs : JobStep(j)]_vars
  BY <1>1
<1> QED
  BY <1>2, OpsCorrect, PTL DEF Spec, JobHistory

-----------------------------------------------------------------------------
(***************************************************************************)
(* The agent implements JobSpec.                                           *)
(***************************************************************************)

\* What JobSpec sees of a state.
Seen == <<AtWorkOn, Workers, job, expired>>

LEMMA Members ==
  \A x, u : /\ <<x, u>> \in AtWorkOn <=> u \in Threads /\ Holds(u) /\ thr[u].vm = x
            /\ <<x, u>> \in Workers  <=> u \in Threads /\ OnJob(u) /\ thr[u].job = x
  BY DEF AtWorkOn, Workers

\* A thread whose step changes neither what it holds nor its job is not seen.
LEMMA NotSeen ==
  ASSUME NEW t \in Threads, \A u \in Threads : u # t => thr'[u] = thr[u],
         Holds(t)' <=> Holds(t), Holds(t) => thr'[t].vm = thr[t].vm,
         thr'[t].job = thr[t].job, UNCHANGED <<job, expired>>
  PROVE  UNCHANGED Seen
<1>1. \A u \in Threads : /\ Holds(u)' <=> Holds(u)
                         /\ Holds(u) => thr'[u].vm = thr[u].vm
                         /\ thr'[u].job = thr[u].job
  BY DEF Holds
<1>2. AtWorkOn' = AtWorkOn
  BY <1>1 DEF AtWorkOn
<1>3. Workers' = Workers
  BY <1>1 DEF Workers, OnJob
<1> QED
  BY <1>2, <1>3 DEF Seen

\* A return gives back the VM that the thread has, and no job ends with it.
LEMMA LeaveIsRelease ==
  ASSUME Inv, NEW t \in Threads, thr[t].pc \in Busy,
         NEW outcome \in {"done", "error"}, Leave(t, outcome), UNCHANGED <<job, expired>>
  PROVE  [Promise!JobNext]_Seen
<1> DEFINE after == IF OnJob(t) THEN [thr[t] EXCEPT !.pc = outcome] ELSE Idle
<1>1. /\ thr'[t] = after
      /\ \A u \in Threads : u # t => thr'[u] = thr[u]
  BY DEF Leave, Inv, TypeOK
<1>2. after.pc \in {"idle", "done", "error"} /\ after.job = thr[t].job
  BY DEF OnJob, Idle, Inv, TypeOK, Thread
<1> HIDE DEF after
<1>3. ~Holds(t)'
  BY <1>1, <1>2 DEF Holds
<1>4. \A u \in Threads : u # t => (Holds(u)' <=> Holds(u))
  BY <1>1 DEF Holds
<1>5. Workers' = Workers
  BY <1>1, <1>2 DEF Workers, OnJob
<1>6. CASE ~Holds(t)
  BY <1>1, <1>2, <1>3, <1>6, NotSeen
<1>7. CASE Holds(t)
  <2> DEFINE v == thr[t].vm
  <2>1. v \in Vms
    BY <1>7 DEF Holds, Inv, TypeOK, Thread
  <2>2. <<v, t>> \in AtWorkOn
    BY <1>7, Members
  <2>3. AtWorkOn' = AtWorkOn \ {<<v, t>>}
    BY <1>1, <1>3, <1>4 DEF AtWorkOn
  <2>4. Promise!Release(v, t)
    BY <1>5, <2>2, <2>3 DEF Promise!Release, Promise!Unlock
  <2> QED
    BY <2>1, <2>4 DEF Promise!JobNext
<1> QED
  BY <1>6, <1>7

\* At keeps the VM and the job.
LEMMA AtMoves ==
  ASSUME Inv, NEW t \in Threads, NEW pc \in Pc, At(t, pc)
  PROVE  /\ thr'[t].pc = pc /\ thr'[t].vm = thr[t].vm /\ thr'[t].job = thr[t].job
         /\ \A u \in Threads : u # t => thr'[u] = thr[u]
<1> DEFINE after == [thr[t] EXCEPT !.pc = pc]
<1>1. thr[t] \in Thread /\ thr'[t] = after /\ \A u \in Threads : u # t => thr'[u] = thr[u]
  BY DEF At, Inv, TypeOK
<1>2. after.pc = pc /\ after.vm = thr[t].vm /\ after.job = thr[t].job
  BY <1>1 DEF Thread
<1> HIDE DEF after
<1> QED
  BY <1>1, <1>2

\* A move within the work on the VM, or before it, is not seen.
LEMMA AtNotSeen ==
  ASSUME Inv, NEW t \in Threads, NEW pc \in Pc, At(t, pc), UNCHANGED <<job, expired>>,
         \/ thr[t].pc \in Inside /\ pc \in Inside
         \/ thr[t].pc = "validate" /\ pc = "lock"
  PROVE  UNCHANGED Seen
<1>1. Holds(t)' <=> Holds(t)
  BY AtMoves DEF Holds, Inside, Commands
<1> QED
  BY <1>1, AtMoves, NotSeen

LEMMA TryLockIsLock ==
  ASSUME Inv, NEW t \in Threads, TryLockVm(t)
  PROVE  [Promise!JobNext]_Seen
<1>1. thr[t].pc = "lock" /\ thr[t].pc \in Busy /\ UNCHANGED <<job, expired>>
  BY DEF TryLockVm, Busy, Pc
<1>2. CASE locked[thr[t].vm]
  BY <1>1, <1>2, LeaveIsRelease DEF TryLockVm
<1>3. CASE ~locked[thr[t].vm]
  <2> DEFINE v  == thr[t].vm
             pc == FirstPc(thr[t].op)
  <2>1. thr[t].op \in Ops \ {"create"} /\ thr[t].job = NoJob /\ v \in Vms /\ v # NoVm
    BY <1>1 DEF Inv, Shaped, TypeOK, Thread
  <2>2. pc \in {"read", "startjob", "poweroff", "modify"}
    BY <2>1 DEF FirstPc, Ops
  <2>3. At(t, pc) /\ pc \in Pc
    BY <1>3, <2>2 DEF TryLockVm, Pc, Commands
  <2> HIDE DEF pc
  <2>4. /\ thr'[t].pc = pc /\ thr'[t].vm = v /\ thr'[t].job = thr[t].job
        /\ \A u \in Threads : u # t => thr'[u] = thr[u]
    BY <2>3, AtMoves
  <2>5. ~Holds(t) /\ Holds(t)' /\ \A u \in Threads : u # t => (Holds(u)' <=> Holds(u))
    BY <1>1, <2>1, <2>2, <2>4 DEF Holds
  <2>6. \A u \in Threads : <<v, u>> \notin AtWorkOn
    BY <1>3, Members DEF Inv, HeldIsLocked
  <2>7. \A w \in Vms : <<w, t>> \notin AtWorkOn
    BY <2>5, Members
  <2>8. \A j \in Jobs : <<j, t>> \notin Workers
    BY <2>1, Members DEF OnJob
  <2>9. AtWorkOn' = AtWorkOn \cup {<<v, t>>}
    BY <2>4, <2>5 DEF AtWorkOn
  <2>10. Workers' = Workers
    BY <2>4 DEF Workers, OnJob
  <2>11. Promise!Lock(v, t)
    BY <1>1, <2>6, <2>7, <2>8, <2>9, <2>10 DEF Promise!Lock, Promise!TryLock
  <2> QED
    BY <2>1, <2>11 DEF Promise!JobNext
<1> QED
  BY <1>2, <1>3

LEMMA StartCreateJobIsStartJob ==
  ASSUME Inv, NEW t \in Threads, StartCreateJob(t)
  PROVE  [Promise!JobNext]_Seen
<1> DEFINE pc == IF thr[t].op = "copy" THEN "read" ELSE "create"
<1>1. PICK j \in Jobs :
        /\ job[j] = "none" \/ j \in expired
        /\ job' = [i \in Jobs |-> IF i = j THEN "running"
                                  ELSE IF i \in expired THEN "none" ELSE job[i]]
        /\ thr' = [thr EXCEPT ![t] = [thr[t] EXCEPT !.job = j, !.pc = pc]]
  BY DEF StartCreateJob, Swept
<1>2. thr[t].pc = "startjob" /\ thr[t].job = NoJob /\ expired' = {}
  BY DEF StartCreateJob, Inv, Shaped
<1> DEFINE after == [thr[t] EXCEPT !.job = j, !.pc = pc]
<1>3. /\ thr[t] \in Thread /\ thr'[t] = after
      /\ \A u \in Threads : u # t => thr'[u] = thr[u]
  BY <1>1 DEF Inv, TypeOK
<1>4. after.job = j /\ after.vm = thr[t].vm /\ after.pc \in {"read", "create"}
  BY <1>3 DEF Thread
<1> HIDE DEF after, pc
<1>5. \A u \in Threads : (Holds(u)' <=> Holds(u)) /\ thr'[u].vm = thr[u].vm
  BY <1>2, <1>3, <1>4 DEF Holds
<1>6. AtWorkOn' = AtWorkOn
  BY <1>5 DEF AtWorkOn
<1>7. \A u \in Threads : OnJob(u) => thr[u].job # j
  BY <1>1 DEF Inv, JobsTold
<1>8. j # NoJob
  BY NoJobAssumption
<1>9. Workers' = Workers \cup {<<j, t>>}
  <2>1. ~OnJob(t) /\ OnJob(t)' /\ \A u \in Threads : u # t => (OnJob(u)' <=> OnJob(u))
    BY <1>2, <1>3, <1>4, <1>8 DEF OnJob
  <2> QED
    BY <2>1, <1>3, <1>4 DEF Workers
<1>10. /\ \A i \in Jobs : <<i, t>> \notin Workers
       /\ \A u \in Threads : <<j, u>> \notin Workers
  BY <1>2, <1>7, Members DEF OnJob
<1>11. Promise!StartJob(j, t)
  BY <1>1, <1>2, <1>6, <1>9, <1>10 DEF Promise!StartJob
<1> QED
  BY <1>11 DEF Promise!JobNext

LEMMA ReportIsEndJob ==
  ASSUME Inv, NEW t \in Threads, Report(t)
  PROVE  [Promise!JobNext]_Seen
<1> DEFINE j == thr[t].job
<1>1. /\ thr[t].pc \in {"done", "error"} /\ UNCHANGED expired
      /\ job' = [job EXCEPT ![j] = thr[t].pc]
      /\ thr'[t] = Idle /\ \A u \in Threads : u # t => thr'[u] = thr[u]
  BY DEF Report, Inv, TypeOK
<1>2. OnJob(t) /\ j \in Jobs /\ job[j] = "running"
  BY <1>1 DEF OnJob, Inv, Shaped, JobsTold, TypeOK, Thread
<1>3. ~Holds(t) /\ ~Holds(t)' /\ \A u \in Threads : u # t => (Holds(u)' <=> Holds(u))
  BY <1>1 DEF Holds, Idle
<1>4. AtWorkOn' = AtWorkOn
  BY <1>1, <1>3 DEF AtWorkOn
<1>5. ~OnJob(t)' /\ \A u \in Threads : u # t => (OnJob(u)' <=> OnJob(u))
  BY <1>1 DEF OnJob, Idle
<1>6. Workers' = Workers \ {<<j, t>>}
  BY <1>1, <1>5 DEF Workers
<1>7. <<j, t>> \in Workers /\ \A v \in Vms : <<v, t>> \notin AtWorkOn
  BY <1>2, <1>3, Members
<1>8. Promise!EndJob(j, t)
  BY <1>1, <1>2, <1>4, <1>6, <1>7 DEF Promise!EndJob
<1> QED
  BY <1>2, <1>8 DEF Promise!JobNext

LEMMA OpsStepPromised ==
  ASSUME Inv, NEW t \in Threads, Step(t)
  PROVE  [Promise!JobNext]_Seen
<1>1. CASE Validate(t)
  <2>1. thr[t].pc \in Busy /\ thr[t].pc = "validate" /\ UNCHANGED <<job, expired>>
    BY <1>1 DEF Validate, Busy, Pc
  <2> QED
    BY <1>1, <2>1, LeaveIsRelease, AtNotSeen DEF Validate, Pc
<1>2. CASE TryLockVm(t)
  BY <1>2, TryLockIsLock
<1>3. CASE StartCreateJob(t)
  BY <1>3, StartCreateJobIsStartJob
<1>4. CASE ReadState(t) \/ ReadFails(t)
  <2>1. /\ thr[t].pc = "read" /\ thr[t].pc \in Busy /\ thr[t].pc \in Inside
        /\ UNCHANGED <<job, expired>>
    BY <1>4 DEF ReadState, ReadFails, Busy, Pc, Inside
  <2> DEFINE next == NextPc(thr[t].op, state[thr[t].vm])
  <2>2. next = "leave" \/ next \in Commands
    BY DEF NextPc, StartVM, SaveState, RestoreSnapshot, DeleteVM, CheckSource, Commands
  <2>3. \/ Leave(t, "error")
        \/ next \in Commands /\ At(t, next)
        \/ At(t, "startvm")
    BY <1>4, <2>2 DEF ReadState, ReadFails
  <2> HIDE DEF next
  <2>4. ASSUME NEW pc \in Commands, At(t, pc) PROVE UNCHANGED Seen
    BY <2>1, <2>4, AtNotSeen DEF Inside, Pc
  <2> QED
    BY <2>1, <2>3, <2>4, LeaveIsRelease DEF Commands
<1>5. CASE CommandDone(t) \/ CommandFails(t)
  <2>1. /\ thr[t].pc \in Commands /\ thr[t].pc \in Busy /\ thr[t].pc \in Inside
        /\ UNCHANGED <<job, expired>>
    BY <1>5 DEF CommandDone, CommandFails, Commands, Busy, Pc, Inside
  <2>2. Leave(t, "done") \/ Leave(t, "error") \/ At(t, "poll")
    BY <1>5 DEF CommandDone, CommandFails
  <2> QED
    BY <2>1, <2>2, LeaveIsRelease, AtNotSeen DEF Inside, Pc
<1>6. CASE Retry(t)
  <2>1. /\ thr[t] \in Thread /\ thr'[t] = [thr[t] EXCEPT !.tries = thr[t].tries + 1]
        /\ \A u \in Threads : u # t => thr'[u] = thr[u]
    BY <1>6 DEF Retry, Inv, TypeOK
  <2>2. thr'[t].pc = thr[t].pc /\ thr'[t].vm = thr[t].vm /\ thr'[t].job = thr[t].job
    BY <2>1 DEF Thread
  <2>3. UNCHANGED <<job, expired>>
    BY <1>6 DEF Retry
  <2>4. Holds(t)' <=> Holds(t)
    BY <2>2 DEF Holds
  <2> QED
    BY <2>1, <2>2, <2>3, <2>4, NotSeen
<1>7. CASE PollSeesDown(t) \/ PollTimesOut(t)
  <2>1. thr[t].pc \in Busy /\ thr[t].pc \in Inside /\ UNCHANGED <<job, expired>>
    BY <1>7 DEF PollSeesDown, PollTimesOut, Busy, Pc, Inside
  <2>2. At(t, "restore") \/ Leave(t, "error")
    BY <1>7 DEF PollSeesDown, PollTimesOut
  <2>3. "restore" \in Pc /\ "restore" \in Inside
    BY DEF Inside, Pc, Commands
  <2> QED
    BY <2>1, <2>2, <2>3, LeaveIsRelease, AtNotSeen
<1>8. CASE Report(t)
  BY <1>8, ReportIsEndJob
<1> QED
  BY <1>1, <1>2, <1>3, <1>4, <1>5, <1>6, <1>7, <1>8 DEF Step

LEMMA NextPromised == Inv /\ [Next]_vars => [Promise!JobNext]_Seen
<1> SUFFICES ASSUME Inv, [Next]_vars PROVE [Promise!JobNext]_Seen
  OBVIOUS
<1>1. ASSUME NEW t \in Threads, NEW op \in Ops, NEW v \in Vms \cup {NoVm}, Arrive(t, op, v)
      PROVE  UNCHANGED Seen
  <2>1. /\ thr'[t].pc \in {"validate", "startjob", "lock"} /\ thr'[t].vm = v /\ thr'[t].job = NoJob
        /\ thr'[t].pc = "startjob" => v = NoVm
        /\ \A u \in Threads : u # t => thr'[u] = thr[u]
        /\ UNCHANGED <<job, expired>>
    BY <1>1 DEF Arrive, Inv, TypeOK
  <2>2. thr[t].pc = "idle" /\ thr[t].job = NoJob
    BY <1>1 DEF Arrive, Inv, Shaped
  <2>3. ~Holds(t) /\ ~Holds(t)'
    BY <2>1, <2>2 DEF Holds
  <2> QED
    BY <2>1, <2>2, <2>3, NotSeen
<1>2. ASSUME NEW t \in Threads, Step(t) PROVE [Promise!JobNext]_Seen
  BY <1>2, OpsStepPromised
<1>3. ASSUME NEW j \in Jobs, Expire(j) PROVE Promise!JobNext
  <2>1. AtWorkOn' = AtWorkOn /\ Workers' = Workers
    BY <1>3 DEF Expire, AtWorkOn, Workers, Holds, OnJob
  <2>2. Promise!Expire(j)
    BY <1>3, <2>1 DEF Expire, Promise!Expire
  <2> QED
    BY <2>2 DEF Promise!JobNext
<1>4. CASE Exit
  <2>1. \A t \in Threads : ~Holds(t)' /\ ~OnJob(t)'
    BY <1>4 DEF Exit, Holds, OnJob, Idle
  <2>2. AtWorkOn' = {} /\ Workers' = {}
    BY <2>1 DEF AtWorkOn, Workers
  <2>3. Promise!ProcessEnds
    BY <1>4, <2>2 DEF Exit, Promise!ProcessEnds, Promise!AllEnd
  <2> QED
    BY <2>3 DEF Promise!JobNext
<1>5. CASE UNCHANGED <<thr, job, expired>>
  BY <1>5 DEF Seen, AtWorkOn, Workers, Holds, OnJob
<1> QED
  BY <1>1, <1>2, <1>3, <1>4, <1>5 DEF Next, VmChanges, StartedOutside, Quit, vars

LEMMA InitPromised == Init => Promise!JobInit
<1> SUFFICES ASSUME Init PROVE Promise!JobInit
  OBVIOUS
<1>1. \A t \in Threads : ~Holds(t) /\ ~OnJob(t)
  BY DEF Init, Holds, OnJob, Idle
<1>2. AtWorkOn = {} /\ Workers = {}
  BY <1>1 DEF AtWorkOn, Workers
<1> QED
  BY <1>2 DEF Init, Promise!JobInit, Promise!LockInit

\* The agent implements its promise: an operation has its VM to itself, a job
\* that keeps a VM was given it by its request, a running job is never forgotten,
\* and its outcome is told once, by its own goroutine, after the VM is free.
THEOREM Implements == Spec => ImplementsPromise
<1>1. [Promise!JobNext]_Seen => [Promise!JobNext]_(Promise!jobVars)
  BY DEF Seen, Promise!jobVars
<1>2. Inv /\ [Next]_vars => [Promise!JobNext]_(Promise!jobVars)
  BY <1>1, NextPromised
<1> QED
  BY <1>2, InitPromised, OpsCorrect, PTL DEF Spec, ImplementsPromise, Promise!Spec

=============================================================================
