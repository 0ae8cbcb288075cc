-------------------------- MODULE MCManualCommands --------------------------
(* ManualCommands with three commands that live for two ticks and a ledger *)
(* of two: the oldest is pushed out as soon as it can be.                  *)
EXTENDS ManualCommands, TLC
=============================================================================
