--------------------------- MODULE MCScreenStream ---------------------------
(***************************************************************************)
(* ScreenStream for TLC.  Two capturers are the current one and its        *)
(* successor, two sizes let a resolution change and change back, two       *)
(* colours tell an old tile from a new one.                                *)
(***************************************************************************)
EXTENDS ScreenStream
=============================================================================
