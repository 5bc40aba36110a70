------------------------------ MODULE ByteFifo ------------------------------
(***************************************************************************)
(* What a byte buffer between a stream and a decoder promises: a bounded   *)
(* queue of bytes per buffer object.  Bytes come out in the order they     *)
(* went in, unread bytes are altered by nothing but reading them, and a    *)
(* move hands the whole queue over.  Capacities are the sizes an object    *)
(* may get, 0 among them.                                                  *)
(*                                                                         *)
(* KeepOnGrow says what growing does to unread bytes: TRUE is what a       *)
(* reader relies on, FALSE is a buffer that comes back empty.              *)
(***************************************************************************)
EXTENDS Integers, Sequences

CONSTANTS Objects, Bytes, Capacities, KeepOnGrow

VARIABLES
  queue,     (* [Objects -> Seq(Bytes)], the unread bytes                  *)
  capacity   (* [Objects -> Nat], 0 for an object with no memory           *)

vars == <<queue, capacity>>

Init == /\ queue = [o \in Objects |-> <<>>]
        /\ capacity = [o \in Objects |-> 0]

Room(o) == capacity[o] - Len(queue[o])

(* An object obtains memory; it starts empty. *)
Open(o) ==
  /\ capacity[o] = 0
  /\ \E c \in Capacities \ {0} : capacity' = [capacity EXCEPT ![o] = c]
  /\ UNCHANGED queue

Push(o) ==
  /\ \E n \in 0 .. Room(o) : \E s \in [1 .. n -> Bytes] :
       queue' = [queue EXCEPT ![o] = @ \o s]
  /\ UNCHANGED capacity

Pop(o) ==
  /\ \E n \in 0 .. Len(queue[o]) :
       queue' = [queue EXCEPT ![o] = SubSeq(@, n + 1, Len(@))]
  /\ UNCHANGED capacity

Grow(o) ==
  /\ \E c \in Capacities :
       c > capacity[o] /\ capacity' = [capacity EXCEPT ![o] = c]
  /\ queue' = IF KeepOnGrow THEN queue ELSE [queue EXCEPT ![o] = <<>>]

(* o takes over what p held; p is left with nothing, also when o is p. *)
Move(o, p) ==
  /\ queue' = [queue EXCEPT ![o] = queue[p], ![p] = <<>>]
  /\ capacity' = [capacity EXCEPT ![o] = capacity[p], ![p] = 0]

Close(o) ==
  /\ queue' = [queue EXCEPT ![o] = <<>>]
  /\ capacity' = [capacity EXCEPT ![o] = 0]

Next == \E o \in Objects :
          \/ Open(o)
          \/ Push(o)
          \/ Pop(o)
          \/ Grow(o)
          \/ Close(o)
          \/ \E p \in Objects : Move(o, p)

Spec == Init /\ [][Next]_vars
=============================================================================
