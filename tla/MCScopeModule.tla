--------------------------- MODULE MCScopeModule ---------------------------
(* Five units: three chunks of one stream, the last of them short; one chunk *)
(* of two streams; one of three streams, of which the third has half the     *)
(* width.                                                                    *)
EXTENDS ScopeModule
=============================================================================
