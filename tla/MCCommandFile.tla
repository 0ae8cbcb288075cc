--------------------------- MODULE MCCommandFile ----------------------------
(* CommandFile with two signals.                                           *)
EXTENDS CommandFile
=============================================================================
