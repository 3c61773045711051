-------------------------------- MODULE JobSpec --------------------------------
(***************************************************************************)
(* What the agent promises about the operations that go on in the          *)
(* background (internal/server/createvm.go): the lock of LockSpec, which   *)
(* such an operation keeps from the request that started it, and the table *)
(* from which the UI is told of the operation's outcome.  VmOps implements *)
(* it.                                                                     *)
(***************************************************************************)
EXTENDS LockSpec

CONSTANT Jobs

VARIABLES
  doing,    \* <<j, t>>: t is the goroutine at work on job j
  told,     \* what a poll of each job answers; "none" is not found
  expired   \* jobs whose outcome need not be kept any longer

jobVars == <<held, doing, told, expired>>

JobInit ==
  /\ LockInit
  /\ doing = {}
  /\ told = [j \in Jobs |-> "none"]
  /\ expired = {}

\* A job does not lock a VM; the request before it did.
Lock(v, t) ==
  /\ TryLock(v, t)
  /\ \A j \in Jobs : <<j, t>> \notin doing
  /\ UNCHANGED <<doing, told, expired>>

Release(v, t) ==
  /\ Unlock(v, t)
  /\ UNCHANGED <<doing, told, expired>>

\* A job starts under an identifier that is not in use; what has expired is
\* forgotten, and nothing else.
StartJob(j, t) ==
  /\ told[j] = "none" \/ j \in expired
  /\ \A i \in Jobs : <<i, t>> \notin doing
  /\ \A u \in Threads : <<j, u>> \notin doing
  /\ doing' = doing \cup {<<j, t>>}
  /\ told' = [i \in Jobs |-> IF i = j THEN "running"
                             ELSE IF i \in expired THEN "none" ELSE told[i]]
  /\ expired' = {}
  /\ UNCHANGED held

\* The job's own goroutine tells its outcome, when the VM is free already: who
\* polls and sees the end is not refused the VM for this job's sake.
EndJob(j, t) ==
  /\ <<j, t>> \in doing
  /\ told[j] = "running"
  /\ \A v \in Vms : <<v, t>> \notin held
  /\ doing' = doing \ {<<j, t>>}
  /\ \E outcome \in {"done", "error"} : told' = [told EXCEPT ![j] = outcome]
  /\ UNCHANGED <<held, expired>>

Expire(j) ==
  /\ told[j] \in {"done", "error"}
  /\ expired' = expired \cup {j}
  /\ UNCHANGED <<held, doing, told>>

\* The process ends; nothing is remembered.
ProcessEnds ==
  /\ AllEnd
  /\ doing' = {}
  /\ told' = [j \in Jobs |-> "none"]
  /\ expired' = {}

JobNext ==
  \/ \E t \in Threads :
       \/ \E v \in Vms : Lock(v, t) \/ Release(v, t)
       \/ \E j \in Jobs : StartJob(j, t) \/ EndJob(j, t)
  \/ \E j \in Jobs : Expire(j)
  \/ ProcessEnds

Spec == JobInit /\ [][JobNext]_jobVars

=============================================================================
