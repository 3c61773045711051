------------------------------ MODULE MCVmGuest ------------------------------
(* VmGuest on a small instance. *)
EXTENDS VmGuest, TLC

CONSTANTS v1, v2

\* One VM with one request of each control flow, and copies out on another.
\* (The serial login goes the way of an update but for its first command.)
OnTwo ==
  {<<v1, "run", "user">>, <<v1, "transfer", "user">>,
   <<v1, "update", "user">>, <<v1, "share", "none">>, <<v1, "unshare", "none">>,
   <<v2, "copyfrom", "user">>}

Symmetry == Permutations(Threads)
=============================================================================
