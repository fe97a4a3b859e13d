------------------------------ MODULE MCCmdLink ------------------------------
(***************************************************************************)
(* Small instances of CmdLink.  A header of two units can be sent and      *)
(* received in parts; buffers of three units hold less than two messages,  *)
(* so posting runs into a full socket in both directions; chunks of two    *)
(* operations with at most one embedded give requests with and without a   *)
(* payload, and calls of up to three of them; rows are of one or two.         *)
(***************************************************************************)
EXTENDS CmdLink
==============================================================================
