------------------------- MODULE MirroredRingBuffer -------------------------
(***************************************************************************)
(* io::MirroredRingBuffer: ring buffers in memory that is mapped twice     *)
(* back to back, so that every span of them is contiguous.                 *)
(*                                                                         *)
(* Several buffer objects live at once, because moves and reserve() pass   *)
(* mappings from one object to another.  The model keeps the memory, so    *)
(* that "unread bytes are not touched" is a statement about cells and not  *)
(* about a queue.                                                          *)
(***************************************************************************)
EXTENDS RingPointers

CONSTANTS
  Objects,      (* names for buffer objects                                *)
  Regions,      (* names for double mappings                               *)
  NoRegion,     (* the null pointer                                        *)
  Bytes,        (* byte values                                             *)
  Zero,         (* what the pages of a new file read as                    *)
  Requests      (* capacities that callers ask for                         *)

ASSUME BufferAssumption == /\ NoRegion \notin Regions
                           /\ Zero \in Bytes
                           /\ Requests \subseteq 0 .. SizeModulus - 1

VARIABLES
  alive,    (* objects between construction and destruction                *)
  region,   (* [Objects -> Regions \cup {NoRegion}], buf_.data()           *)
  ring,     (* [Objects -> Ring], buf_.size(), left_ and right_            *)
  mapped,   (* the mappings that exist                                     *)
  mem       (* [Regions -> [Cells -> Bytes]], the mapped files             *)

vars == <<alive, region, ring, mapped, mem>>

Cells == 0 .. MaxCapacity - 1
ZeroFilled == [c \in Cells |-> Zero]

IsNull(o) == region[o] = NoRegion

(* What prepare_read() shows. *)
Content(o) ==
  [i \in 1 .. AvailableRead(ring[o]) |->
     mem[region[o]][Cell(ring[o], ring[o].left + i - 1)]]

Init ==
  /\ alive = {}
  /\ region = [o \in Objects |-> NoRegion]
  /\ ring = [o \in Objects |-> NullRing]
  /\ mapped = {}
  /\ mem = [r \in Regions |-> ZeroFilled]

(* mirror_create() and mirror_destroy(), as far as a buffer sees them: a   *)
(* new mapping of zeroes, or nothing, and one that is given up; module     *)
(* MirrorCreate has the system calls, and what becomes of a mapping that   *)
(* the kernel refuses to take back.  A mapping that is gone keeps no bytes.*)
Unmap(gone) == [r \in Regions |-> IF r \in gone THEN ZeroFilled ELSE mem[r]]
Held(o) == {region[o]} \ {NoRegion}

Construct(o, capacity) ==
  /\ o \notin alive
  /\ alive' = alive \cup {o}
  /\ \/ UNCHANGED <<region, ring, mapped, mem>>
     \/ /\ Creatable(capacity)
        /\ \E r \in Regions \ mapped :
             /\ region' = [region EXCEPT ![o] = r]
             /\ mapped' = mapped \cup {r}
        /\ ring' = [ring EXCEPT ![o] = EmptyRing(PageCeil(capacity))]
        /\ UNCHANGED mem

Destroy(o) ==
  /\ o \in alive
  /\ alive' = alive \ {o}
  /\ region' = [region EXCEPT ![o] = NoRegion]
  /\ ring' = [ring EXCEPT ![o] = NullRing]
  /\ mapped' = mapped \ Held(o)
  /\ mem' = Unmap(Held(o))

(* Mutant: the source of a move keeps its two pointers. *)
MovedFrom_PointersKept(b) == [b EXCEPT !.cap = 0]
MovedFrom(b) == NullRing

MoveConstruct(o, other) ==
  /\ o \notin alive
  /\ other \in alive
  /\ alive' = alive \cup {o}
  /\ region' = [region EXCEPT ![o] = region[other], ![other] = NoRegion]
  /\ ring' = [ring EXCEPT ![o] = ring[other], ![other] = MovedFrom(@)]
  /\ UNCHANGED <<mapped, mem>>

(* Mutant: the old mapping of the target of a move assignment is leaked. *)
MoveAssign_Leak(o, other) ==
  /\ {o, other} \subseteq alive
  /\ region' = [region EXCEPT ![o] = region[other], ![other] = NoRegion]
  /\ ring' = [ring EXCEPT ![o] = ring[other], ![other] = MovedFrom(@)]
  /\ UNCHANGED <<alive, mapped, mem>>

(* An object may be moved to itself: it destroys its own mapping first. *)
MoveAssign(o, other) ==
  /\ {o, other} \subseteq alive
  /\ region' = [region EXCEPT ![o] = region[other], ![other] = NoRegion]
  /\ ring' = [ring EXCEPT ![o] = ring[other], ![other] = MovedFrom(@)]
  /\ mapped' = mapped \ Held(o)
  /\ mem' = Unmap(Held(o))
  /\ UNCHANGED alive

(* A larger buffer is built, the unread bytes are copied to its start, and *)
(* it is moved over this object: its pointers are those of a buffer that   *)
(* nothing was committed to.                                               *)
Reserve(o, newCapacity) ==
  LET n == AvailableRead(ring[o]) IN
  /\ o \in alive
  /\ ring[o].cap < newCapacity
  /\ Creatable(newCapacity)
  /\ \E r \in Regions \ mapped :
       /\ region' = [region EXCEPT ![o] = r]
       /\ mapped' = (mapped \cup {r}) \ Held(o)
       /\ mem' = [Unmap(Held(o)) EXCEPT ![r] =
                    [c \in Cells |-> IF c < n THEN Content(o)[c + 1] ELSE Zero]]
  /\ ring' = [ring EXCEPT ![o] = EmptyRing(PageCeil(newCapacity))]
  /\ UNCHANGED alive

(* The caller stores bytes in the span that prepare_write() handed out. *)
FillWriteSpan(o) ==
  /\ o \in alive
  /\ ~IsNull(o)
  /\ \E data \in [WriteCells(ring[o]) -> Bytes] :
       mem' = [mem EXCEPT ![region[o]] =
                 [c \in Cells |-> IF c \in DOMAIN data THEN data[c] ELSE @[c]]]
  /\ UNCHANGED <<alive, region, ring, mapped>>

(* The assertion of commit_write() fails on a null buffer, even for no     *)
(* bytes: the step is the one of a program that got past it.               *)
CommitWriteStep(o) ==
  /\ o \in alive
  /\ \E bytes \in 0 .. AvailableWrite(ring[o]) :
       /\ CommitWriteAsserts(ring[o], bytes)
       /\ ring' = [ring EXCEPT ![o] = CommitWrite(@, bytes)]
  /\ UNCHANGED <<alive, region, mapped, mem>>

CommitReadStep(o) ==
  /\ o \in alive
  /\ \E bytes \in 0 .. AvailableRead(ring[o]) :
       /\ CommitReadAsserts(ring[o], bytes)
       /\ ring' = [ring EXCEPT ![o] = CommitRead(@, bytes)]
  /\ UNCHANGED <<alive, region, mapped, mem>>

Next == \E o \in Objects :
          \/ \E capacity \in Requests : Construct(o, capacity)
          \/ \E capacity \in Requests : Reserve(o, capacity)
          \/ \E other \in Objects : MoveConstruct(o, other)
          \/ \E other \in Objects : MoveAssign(o, other)
          \/ Destroy(o)
          \/ FillWriteSpan(o)
          \/ CommitWriteStep(o)
          \/ CommitReadStep(o)

Spec == Init /\ [][Next]_vars

-----------------------------------------------------------------------------
(* The state has its shape, and an object has no mapping exactly when it   *)
(* has no capacity and both pointers are null (is_null(), moved-from).     *)
TypeOK ==
  /\ alive \subseteq Objects
  /\ region \in [Objects -> Regions \cup {NoRegion}]
  /\ ring \in [Objects -> Ring]
  /\ mapped \subseteq Regions
  /\ mem \in [Regions -> [Cells -> Bytes]]
  /\ \A o \in Objects :
       /\ IsNull(o) <=> ring[o] = NullRing
       /\ ring[o].cap <= MaxCapacity

(* The pointer invariants that the class comment of MirroredRingBuffer     *)
(* states (InBounds), for every object with memory.                        *)
PointersInBounds ==
  \A o \in Objects : ~IsNull(o) => InBounds(ring[o])

(* No use of a buffer within the spans it handed out trips an assertion of *)
(* commit_read() or commit_write().                                        *)
CommitsNeverAssert ==
  \A o \in Objects : ~IsNull(o) =>
    /\ \A n \in 0 .. AvailableRead(ring[o]) : CommitReadAsserts(ring[o], n)
    /\ \A n \in 0 .. AvailableWrite(ring[o]) : CommitWriteAsserts(ring[o], n)

(* Each mapping that exists belongs to exactly one object in its lifetime: *)
(* moves, growth and destruction neither leak one nor unmap one twice.     *)
OneOwnerEach ==
  /\ \A o \in Objects : o \notin alive => IsNull(o)
  /\ mapped = {region[o] : o \in Objects} \ {NoRegion}
  /\ \A o, p \in Objects : region[o] = region[p] => o = p \/ IsNull(o)

(* Every buffer is a queue of bytes (the spans of prepare_read() and       *)
(* prepare_write() never overlap in memory), except that growing empties   *)
(* it.                                                                     *)
LossyFifo == INSTANCE ByteFifo WITH
               Capacities <- 0 .. MaxCapacity,
               KeepOnGrow <- FALSE,
               queue <- [o \in Objects |-> Content(o)],
               capacity <- [o \in Objects |-> ring[o].cap]
IsLossyFifo == LossyFifo!Spec

(* reserve() copies the unread bytes and asserts that they fit: a buffer   *)
(* is meant to be a queue across growth too.                               *)
Fifo == INSTANCE ByteFifo WITH
          Capacities <- 0 .. MaxCapacity,
          KeepOnGrow <- TRUE,
          queue <- [o \in Objects |-> Content(o)],
          capacity <- [o \in Objects |-> ring[o].cap]
IsFifo == Fifo!Spec
=============================================================================
