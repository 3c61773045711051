------------------------------ MODULE MCVmGate ------------------------------
(***************************************************************************)
(* VmGate for TLC.  One VM: calls on different VMs share only the cap, and *)
(* a call without a VM takes a slot of the cap just as they do.  Three     *)
(* calls under a cap of two let one hold the VM, one take the other slot   *)
(* and one wait at either layer.                                           *)
(***************************************************************************)
EXTENDS VmGate

=============================================================================
