---------------------------- MODULE MCScopeRead ----------------------------
(* Six pages, the last of them short.  Four buffers give pauses of two pages *)
(* and chunks of four, eight buffers pauses of five and one chunk.          *)
EXTENDS ScopeRead

(* All of the buffer; from its middle to its end; past its end; outside it.  *)
MCRequests == {<<0, 0>>, <<6, 6>>, <<5, 0>>, <<12, 1>>}
=============================================================================
