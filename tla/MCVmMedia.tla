------------------------------ MODULE MCVmMedia ------------------------------
(***************************************************************************)
(* Instances of VmMedia for TLC.                                           *)
(***************************************************************************)
EXTENDS VmMedia, TLC

Symmetry == Permutations(Threads) \cup Permutations(Vms) \cup Permutations(Names)
=============================================================================
