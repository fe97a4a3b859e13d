----------------------------- MODULE MCCmdServer -----------------------------
(* Three connections for two clients' places: one can be refused, and a     *)
(* descriptor can be used again.  Payloads: none, one that makes the buffer *)
(* grow, one that is too long.                                              *)
EXTENDS CmdServer, TLC

Symmetry == Permutations(Conns)
==============================================================================
