---------------------------- MODULE MCConsolePort ----------------------------
(* ConsolePort on small instances. *)
EXTENDS ConsolePort

CONSTANTS v1, v2

\* Both VMs' searches start at the same port, the one a hash collision gives:
\* the last of the range, so that the probe wraps.
SameHash == [v \in Vms |-> MaxConsolePort]

=============================================================================
