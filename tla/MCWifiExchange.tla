--------------------------- MODULE MCWifiExchange ---------------------------
(* WifiExchange and its inductive invariants, for TLC.                     *)
EXTENDS WifiExchangeInv
=============================================================================
