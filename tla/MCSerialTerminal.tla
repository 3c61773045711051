-------------------------- MODULE MCSerialTerminal --------------------------
(***************************************************************************)
(* SerialTerminal for TLC: a VM and its copy, and the stream of a tab.     *)
(***************************************************************************)
EXTENDS SerialTerminal

CONSTANTS t1, t2

\* Copies by one thread, requests on the port by the other.
CopyAndPort == {<<t1, "clone">>, <<t2, "enable">>, <<t2, "disable">>}
=============================================================================
