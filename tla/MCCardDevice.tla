--------------------------- MODULE MCCardDevice ---------------------------
(* Three tasks: two whose opens can meet while a third has a command going.  *)
EXTENDS CardDevice
=============================================================================
