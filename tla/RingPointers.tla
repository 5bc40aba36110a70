---------------------------- MODULE RingPointers ----------------------------
(***************************************************************************)
(* The pointer arithmetic of io::MirroredRingBuffer as operators on a      *)
(* value: a ring is what one object holds besides the address of its       *)
(* mapping.                                                                *)
(*                                                                         *)
(*   cap    capacity(), half of buf_.size()                                *)
(*   left   left_  - buf_.data()                                           *)
(*   right  right_ - buf_.data()                                           *)
(*                                                                         *)
(* An offset in 0 .. 2*cap-1 is an address of the doubly mapped region;    *)
(* offsets a and a + cap are two addresses of one byte.                    *)
(***************************************************************************)
EXTENDS Integers

CONSTANTS
  PageSize,     (* getpagesize()                                           *)
  SizeModulus,  (* 2^w for a size_t of w bits                              *)
  MaxCapacity   (* bound: the system refuses larger mappings               *)

ASSUME PageAssumption == /\ PageSize \in Nat \ {0}
                         /\ SizeModulus \in Nat \ {0}
                         /\ SizeModulus % PageSize = 0
                         /\ MaxCapacity \in Nat

Ring == [cap : Nat, left : Nat, right : Nat]

(* The empty ring of a capacity, and what a failed creation or a move      *)
(* leaves behind (buf_ = {}, both pointers null).                          *)
EmptyRing(cap) == [cap |-> cap, left |-> 0, right |-> 0]
NullRing == EmptyRing(0)

AvailableRead(b) == b.right - b.left

(* Mutant: a write span that ignores what is still unread. *)
AvailableWrite_WholeBuffer(b) == b.cap
AvailableWrite(b) == b.cap - AvailableRead(b)

(* The span handed out by prepare_read(): where it starts and its length.  *)
(* cap stands for the mapping it points into, which only growth replaces.  *)
PrepareRead(b) == [cap |-> b.cap, at |-> b.left, size |-> AvailableRead(b)]

(* The byte of the mapping behind an address: the second half of the       *)
(* region maps the same memory as the first one.                           *)
Cell(b, address) == IF address < b.cap THEN address ELSE address - b.cap

WriteCells(b) == {Cell(b, b.right + i) : i \in 0 .. AvailableWrite(b) - 1}

CommitReadAsserts(b, bytes) == b.left + bytes <= b.right

(* Mutant: the wrap of left_ one byte too late. *)
CommitRead_LateWrap(b, bytes) ==
  IF b.left + bytes > b.cap
  THEN [b EXCEPT !.left = @ + bytes - b.cap, !.right = @ - b.cap]
  ELSE [b EXCEPT !.left = @ + bytes]

(* Mutant: left_ wraps alone. *)
CommitRead_RightForgotten(b, bytes) ==
  IF b.left + bytes >= b.cap
  THEN [b EXCEPT !.left = @ + bytes - b.cap]
  ELSE [b EXCEPT !.left = @ + bytes]

CommitRead(b, bytes) ==
  LET left == b.left + bytes IN
  IF left >= b.cap
  THEN [cap |-> b.cap, left |-> left - b.cap, right |-> b.right - b.cap]
  ELSE [b EXCEPT !.left = left]

CommitWriteAsserts(b, bytes) == b.right + bytes < 2 * b.cap

CommitWrite(b, bytes) == [b EXCEPT !.right = @ + bytes]

(* The invariants that the class comment states for a ring with memory:    *)
(* left_ is in the first copy, right_ is never before it and never reaches *)
(* the end of the second copy, no more than the capacity is unread.        *)
InBounds(b) ==
  /\ b.left < b.cap
  /\ b.left <= b.right
  /\ b.right - b.left <= b.cap

(* Mutant: the sum does not wrap in size_t. *)
PageCeil_Unwrapped(capacity) ==
  capacity + ((PageSize - (capacity % PageSize)) % PageSize)

(* Mutant: rounding down. *)
PageCeil_Floor(capacity) == capacity - (capacity % PageSize)

(* mirror_create() rounds the capacity up to whole pages in size_t; it     *)
(* refuses what is zero or has no double in size_t.                        *)
PageCeil(capacity) ==
  IF capacity % PageSize = 0
  THEN capacity
  ELSE (capacity + (PageSize - (capacity % PageSize))) % SizeModulus

Refused(cap) == cap >= (2 * cap) % SizeModulus

(* What mirror_create() can return memory for.                             *)
Creatable(capacity) ==
  /\ ~Refused(PageCeil(capacity))
  /\ PageCeil(capacity) <= MaxCapacity
=============================================================================
