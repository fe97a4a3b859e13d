----------------------------- MODULE MCScopeRun -----------------------------
(* Two scope streams that share the buffer when both run.                   *)
EXTENDS ScopeRun

MCNeed == << <<2, 2>>, <<1, 1>> >>
=============================================================================
