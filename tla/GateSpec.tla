------------------------------- MODULE GateSpec -------------------------------
(***************************************************************************)
(* What the gate of internal/vbox/gate.go promises to the code behind it:  *)
(* the set of VBoxManage processes that exist, when one may be started and *)
(* that any of them may end.  VmGate implements it.                        *)
(***************************************************************************)
EXTENDS Integers, FiniteSets

CONSTANTS Calls, Vms, NoVm, MaxConcurrentVBox

VARIABLES
  active,   \* the calls whose process exists
  aim       \* the VM an active call's process is for; NoVm for the others

Init ==
  /\ active = {}
  /\ aim = [c \in Calls |-> NoVm]

\* A process may start while fewer than the cap exist and, when it is for a VM,
\* while none exists for that VM.
Start(c, v) ==
  /\ c \notin active
  /\ Cardinality(active) < MaxConcurrentVBox
  /\ v # NoVm => \A d \in active : aim[d] # v
  /\ active' = active \cup {c}
  /\ aim' = [aim EXCEPT ![c] = v]

End(c) ==
  /\ c \in active
  /\ active' = active \ {c}
  /\ aim' = [aim EXCEPT ![c] = NoVm]

Next == \E c \in Calls : End(c) \/ \E v \in Vms \cup {NoVm} : Start(c, v)

Spec == Init /\ [][Next]_<<active, aim>>

=============================================================================
