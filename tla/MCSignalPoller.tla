--------------------------- MODULE MCSignalPoller ---------------------------
(* SignalPoller with two slots a day and a cap of two trades.              *)
EXTENDS SignalPoller
=============================================================================
