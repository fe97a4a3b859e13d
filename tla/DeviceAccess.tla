----------------------------- MODULE DeviceAccess -----------------------------
(***************************************************************************)
(* What one connection to the board promises the detector software, with   *)
(* no streams, headers or chunks in it: accesses are executed one at a      *)
(* time, each between its call and its return, front to back; an access     *)
(* returns success only when all of it was executed without an error, and  *)
(* an error only when some part failed or the connection was lost.          *)
(* A "quiet" access is the exception the library makes for writes: it       *)
(* returns success even when a part of it failed.                           *)
(***************************************************************************)
EXTENDS Naturals

CONSTANT MaxOps     \* most operations one access asks for

VARIABLES
    busy,           \* an access is in progress
    todo,           \* operations of it the device has not been asked for
    failed,         \* the device refused a part of it
    quiet,          \* it does not report what the device refused
    lost,           \* the connection is gone
    result          \* what the last access returned

vars == <<busy, todo, failed, quiet, lost, result>>

Init ==
    /\ busy = FALSE /\ todo = 0 /\ failed = FALSE /\ quiet = FALSE
    /\ lost = FALSE /\ result = "ok"

BeginAccess ==
    /\ ~busy /\ ~lost
    /\ busy' = TRUE /\ todo' \in 1..MaxOps /\ failed' = FALSE
    /\ quiet' \in BOOLEAN
    /\ UNCHANGED <<lost, result>>

(* The device executes the next operations of the access, or refuses them;  *)
(* what was posted behind a refused part is still executed.                 *)
ExecutePart ==
    /\ busy /\ todo > 0
    /\ \E n \in 1..todo : todo' = todo - n
    /\ failed' \in {failed, TRUE}
    /\ UNCHANGED <<busy, quiet, lost, result>>

EndAccess(v) ==
    /\ busy /\ busy' = FALSE
    /\ todo' = 0 /\ failed' = FALSE /\ result' = v
    /\ UNCHANGED quiet

Succeed == todo = 0 /\ ~failed /\ EndAccess("ok") /\ UNCHANGED lost
Fail    == failed /\ EndAccess(IF quiet THEN "ok" ELSE "err") /\ UNCHANGED lost
Lose    == EndAccess("err") /\ ~lost /\ lost' = TRUE

Next == BeginAccess \/ ExecutePart \/ Succeed \/ Fail \/ Lose

Spec == Init /\ [][Next]_vars
===============================================================================
