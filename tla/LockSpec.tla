------------------------------- MODULE LockSpec -------------------------------
(***************************************************************************)
(* What tryLockVm of internal/server/server.go promises to an operation on *)
(* a VM: between its tryLockVm and its unlock no other operation is at     *)
(* work on that VM.  VmOps, which has the lock, implements this, and so do *)
(* the modules of operations that only use it (VmMedia, VmGuest,           *)
(* PortForwarding, SerialTerminal).                                        *)
(***************************************************************************)
CONSTANTS Vms, Threads

VARIABLE held   \* <<v, t>>: t is between its tryLockVm of v and its unlock

LockInit == held = {}

\* An operation has one VM at a time.
TryLock(v, t) ==
  /\ \A u \in Threads : <<v, u>> \notin held
  /\ \A w \in Vms : <<w, t>> \notin held
  /\ held' = held \cup {<<v, t>>}

Unlock(v, t) ==
  /\ <<v, t>> \in held
  /\ held' = held \ {<<v, t>>}

\* The process ends, and its locks with it.
AllEnd == held' = {}

LockNext ==
  \/ \E v \in Vms, t \in Threads : TryLock(v, t) \/ Unlock(v, t)
  \/ AllEnd

LockOnly == LockInit /\ [][LockNext]_held

=============================================================================
