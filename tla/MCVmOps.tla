------------------------------- MODULE MCVmOps -------------------------------
(***************************************************************************)
(* Instances of VmOps for TLC.  Operations of different VMs share no state *)
(* but the job table, so one VM, two threads that each come back with any  *)
(* operation, and two job identifiers show every interaction.              *)
(***************************************************************************)
EXTENDS VmOps
=============================================================================
