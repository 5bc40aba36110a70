---------------------------- MODULE MirrorAtOnce ----------------------------
(***************************************************************************)
(* What MirroredRingBuffer's operations take mirror_create() and           *)
(* mirror_destroy() for: one step that gives a range of twice the rounded  *)
(* capacity when the request is Creatable, and one with which the caller   *)
(* gives it up.  A creation that fails changes nothing that the caller has.*)
(***************************************************************************)
EXTENDS RingPointers

CONSTANT Requests

VARIABLE result   (* size of the range the caller has, 0 when it has none  *)

Init == result = 0

Create ==
  /\ result = 0
  /\ \E n \in Requests : Creatable(n) /\ result' = 2 * PageCeil(n)

Destroy ==
  /\ result > 0
  /\ result' = 0

Next == Create \/ Destroy

Spec == Init /\ [][Next]_result
=============================================================================
