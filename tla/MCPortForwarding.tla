-------------------------- MODULE MCPortForwarding --------------------------
(***************************************************************************)
(* PortForwarding for TLC.  Three VMs: one that is changed and two that    *)
(* are scanned, of which one may be read and the other not.  The first has *)
(* two adapters, so that a port can be taken on another adapter.           *)
(***************************************************************************)
EXTENDS PortForwarding, TLC

CONSTANTS v1, v2, v3, n1, n2

MCVms      == {v1, v2, v3}
MCSlots    == {n1, n2}
MCAdapters == {<<v1, n1>>, <<v1, n2>>, <<v2, n1>>, <<v3, n1>>}

Symmetry == Permutations({v2, v3}) \cup Permutations(Threads)
=============================================================================
