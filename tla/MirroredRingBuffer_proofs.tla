---------------------- MODULE MirroredRingBuffer_proofs ----------------------
(***************************************************************************)
(* Proofs about module MirroredRingBuffer, for every page size, width of   *)
(* size_t, number of objects and of mappings: the state has its shape, the *)
(* pointers keep the invariants of the class comment, no commit within a   *)
(* span trips an assertion, every mapping has exactly one owner, and the   *)
(* buffers are queues of bytes.                                            *)
(*                                                                         *)
(* TypeOK is not inductive: the bytes that reserve() copies are bytes only *)
(* if the pointers are in bounds, and a pointer of a dead object is null   *)
(* only because a dead object owns nothing.  IInv is the conjunction.      *)
(***************************************************************************)
EXTENDS MirroredRingBuffer, RingPointers_proofs, SequenceTheorems

IInv == TypeOK /\ PointersInBounds /\ OneOwnerEach

-----------------------------------------------------------------------------
(* What a buffer shows is bytes.                                           *)
LEMMA ContentIsBytes ==
  ASSUME TypeOK, PointersInBounds, NEW o \in Objects
  PROVE  Content(o) \in [1 .. AvailableRead(ring[o]) -> Bytes]
<1>1. ring[o] \in Ring /\ ring[o].cap \in 0 .. MaxCapacity
  BY PageAssumption DEF TypeOK, Ring
<1>2. CASE IsNull(o)
  BY <1>2 DEF TypeOK, NullRing, EmptyRing, AvailableRead, Content
<1>3. CASE ~IsNull(o)
  <2>1. InBounds(ring[o]) /\ region[o] \in Regions
    BY <1>3 DEF PointersInBounds, TypeOK, IsNull
  <2>2. ASSUME NEW i \in 1 .. AvailableRead(ring[o])
        PROVE  mem[region[o]][Cell(ring[o], ring[o].left + i - 1)] \in Bytes
    <3>1. ring[o].left + i - 1 \in ring[o].left .. ring[o].left + ring[o].cap - 1
      BY <1>1, <2>1 DEF AvailableRead, InBounds, Ring
    <3>2. Cell(ring[o], ring[o].left + i - 1) \in Cells
      BY <1>1, <2>1, <3>1, CellInMapping, PageAssumption DEF Cells
    <3> QED BY <2>1, <3>2 DEF TypeOK
  <2> QED BY <2>2 DEF Content
<1> QED BY <1>2, <1>3

-----------------------------------------------------------------------------
LEMMA InitInvariant == Init => IInv
BY PageAssumption, BufferAssumption
   DEF Init, IInv, TypeOK, PointersInBounds, OneOwnerEach, IsNull, InBounds, NullRing,
       EmptyRing, Ring, ZeroFilled

(* A freed mapping reads as zeroes again, whichever mappings are freed.    *)
LEMMA UnmapType ==
  ASSUME TypeOK, NEW gone
  PROVE  Unmap(gone) \in [Regions -> [Cells -> Bytes]]
BY BufferAssumption DEF TypeOK, Unmap, ZeroFilled

LEMMA ConstructStep ==
  ASSUME IInv, NEW o \in Objects, NEW capacity \in Requests, Construct(o, capacity)
  PROVE  IInv'
<1> USE PageAssumption, BufferAssumption
<1>1. capacity \in Nat
  OBVIOUS
<1>2. CASE UNCHANGED <<region, ring, mapped, mem>>
  BY <1>2 DEF IInv, TypeOK, PointersInBounds, OneOwnerEach, IsNull, Construct
<1>3. CASE /\ Creatable(capacity)
           /\ \E r \in Regions \ mapped :
                /\ region' = [region EXCEPT ![o] = r]
                /\ mapped' = mapped \cup {r}
           /\ ring' = [ring EXCEPT ![o] = EmptyRing(PageCeil(capacity))]
           /\ UNCHANGED mem
  <2> DEFINE new == EmptyRing(PageCeil(capacity))
  <2>1. PICK r \in Regions \ mapped : /\ region' = [region EXCEPT ![o] = r]
                                      /\ mapped' = mapped \cup {r}
    BY <1>3
  <2>2. new \in Ring /\ new.cap <= MaxCapacity /\ InBounds(new) /\ new # NullRing
    BY <1>1, <1>3, CreatableSize, EmptyInBounds
  <2>3. alive' = alive \cup {o} /\ o \notin alive /\ region[o] = NoRegion
    BY DEF Construct, IInv, OneOwnerEach, IsNull
  <2> HIDE DEF new
  <2>4. ring' = [ring EXCEPT ![o] = new] /\ mem' = mem
    BY <1>3 DEF new
  <2>5. TypeOK'
    BY <2>1, <2>2, <2>3, <2>4 DEF IInv, TypeOK, IsNull
  <2>6. PointersInBounds'
    BY <2>1, <2>2, <2>4 DEF IInv, TypeOK, PointersInBounds, IsNull
  <2>7. OneOwnerEach'
    BY <2>1, <2>3 DEF IInv, TypeOK, OneOwnerEach, IsNull
  <2> QED BY <2>5, <2>6, <2>7 DEF IInv
<1> QED BY <1>2, <1>3 DEF Construct

LEMMA ReserveStep ==
  ASSUME IInv, NEW o \in Objects, NEW newCapacity \in Requests, Reserve(o, newCapacity)
  PROVE  IInv'
<1> USE PageAssumption, BufferAssumption
<1> DEFINE new == EmptyRing(PageCeil(newCapacity))
<1>1. PICK r \in Regions \ mapped :
        /\ region' = [region EXCEPT ![o] = r]
        /\ mapped' = (mapped \cup {r}) \ Held(o)
        /\ mem' = [Unmap(Held(o)) EXCEPT ![r] =
                     [c \in Cells |-> IF c < AvailableRead(ring[o])
                                      THEN Content(o)[c + 1] ELSE Zero]]
  BY DEF Reserve
<1>2. new \in Ring /\ new.cap <= MaxCapacity /\ InBounds(new) /\ new # NullRing
  BY CreatableSize, EmptyInBounds DEF Reserve
<1>3. o \in alive /\ alive' = alive /\ ring' = [ring EXCEPT ![o] = new]
  BY DEF Reserve
<1> HIDE DEF new
<1>4. mem' \in [Regions -> [Cells -> Bytes]]
  <2>1. ASSUME NEW c \in Cells, c < AvailableRead(ring[o])
        PROVE  Content(o)[c + 1] \in Bytes
    <3>1. AvailableRead(ring[o]) \in Int /\ c \in Nat
      BY DEF IInv, TypeOK, AvailableRead, Ring, Cells
    <3>2. c + 1 \in 1 .. AvailableRead(ring[o])
      BY <2>1, <3>1
    <3> QED BY <3>2, ContentIsBytes DEF IInv
  <2>2. [c \in Cells |-> IF c < AvailableRead(ring[o]) THEN Content(o)[c + 1] ELSE Zero]
          \in [Cells -> Bytes]
    BY <2>1
  <2>3. Unmap(Held(o)) \in [Regions -> [Cells -> Bytes]]
    BY UnmapType DEF IInv
  <2> QED BY <1>1, <2>2, <2>3
<1>5. TypeOK'
  BY <1>1, <1>2, <1>3, <1>4 DEF IInv, TypeOK, IsNull
<1>6. PointersInBounds'
  BY <1>1, <1>2, <1>3 DEF IInv, TypeOK, PointersInBounds, IsNull
<1>7. OneOwnerEach'
  BY <1>1, <1>3 DEF IInv, TypeOK, OneOwnerEach, IsNull, Held
<1> QED BY <1>5, <1>6, <1>7 DEF IInv

LEMMA MoveConstructStep ==
  ASSUME IInv, NEW o \in Objects, NEW other \in Objects, MoveConstruct(o, other)
  PROVE  IInv'
<1> USE PageAssumption, BufferAssumption DEF MoveConstruct, MovedFrom
<1>1. o # other /\ IsNull(o)
  BY DEF IInv, OneOwnerEach
<1>2. NullRing \in Ring /\ NullRing.cap = 0
  BY EmptyInBounds DEF NullRing
<1>3. TypeOK'
  BY <1>1, <1>2 DEF IInv, TypeOK, IsNull
<1>4. PointersInBounds'
  BY <1>1 DEF IInv, TypeOK, PointersInBounds, IsNull
<1>5. OneOwnerEach'
  BY <1>1 DEF IInv, TypeOK, OneOwnerEach, IsNull
<1> QED BY <1>3, <1>4, <1>5 DEF IInv

LEMMA MoveAssignStep ==
  ASSUME IInv, NEW o \in Objects, NEW other \in Objects, MoveAssign(o, other)
  PROVE  IInv'
<1> USE DEF MoveAssign, MovedFrom
<1>1. NullRing \in Ring /\ NullRing.cap = 0
  BY EmptyInBounds DEF NullRing
<1>2. mem' \in [Regions -> [Cells -> Bytes]]
  BY UnmapType DEF IInv
<1>3. TypeOK'
  <2>1. /\ alive' \subseteq Objects
        /\ region' \in [Objects -> Regions \cup {NoRegion}]
        /\ ring' \in [Objects -> Ring]
        /\ mapped' \subseteq Regions
    BY <1>1 DEF IInv, TypeOK
  <2>2. ASSUME NEW p \in Objects
        PROVE  (IsNull(p) <=> ring[p] = NullRing)' /\ ring'[p].cap <= MaxCapacity
    <3>1. CASE p = other
      BY <1>1, <3>1, PageAssumption DEF IInv, TypeOK, IsNull
    <3>2. CASE p = o /\ p # other
      BY <3>2 DEF IInv, TypeOK, IsNull
    <3>3. CASE p # o /\ p # other
      BY <3>3 DEF IInv, TypeOK, IsNull
    <3> QED BY <3>1, <3>2, <3>3
  <2> QED BY <1>2, <2>1, <2>2 DEF TypeOK
<1>4. PointersInBounds'
  BY DEF IInv, TypeOK, PointersInBounds, IsNull
<1>5. OneOwnerEach'
  BY DEF IInv, TypeOK, OneOwnerEach, IsNull, Held
<1> QED BY <1>3, <1>4, <1>5 DEF IInv

LEMMA DestroyStep ==
  ASSUME IInv, NEW o \in Objects, Destroy(o)
  PROVE  IInv'
<1> USE PageAssumption, BufferAssumption DEF Destroy
<1>1. NullRing \in Ring /\ NullRing.cap = 0
  BY EmptyInBounds DEF NullRing
<1>2. mem' \in [Regions -> [Cells -> Bytes]]
  BY UnmapType DEF IInv
<1>3. TypeOK'
  BY <1>1, <1>2 DEF IInv, TypeOK, IsNull
<1>4. PointersInBounds'
  BY DEF IInv, TypeOK, PointersInBounds, IsNull
<1>5. OneOwnerEach'
  BY DEF IInv, TypeOK, OneOwnerEach, IsNull, Held
<1> QED BY <1>3, <1>4, <1>5 DEF IInv

LEMMA FillWriteSpanStep ==
  ASSUME IInv, NEW o \in Objects, FillWriteSpan(o)
  PROVE  IInv'
<1>1. region[o] \in Regions
  BY DEF FillWriteSpan, IInv, TypeOK, IsNull
<1>2. PICK data \in [WriteCells(ring[o]) -> Bytes] :
        mem' = [mem EXCEPT ![region[o]] =
                  [c \in Cells |-> IF c \in DOMAIN data THEN data[c] ELSE @[c]]]
  BY DEF FillWriteSpan
<1>3. mem' \in [Regions -> [Cells -> Bytes]]
  BY <1>1, <1>2 DEF IInv, TypeOK
<1> QED BY <1>3 DEF FillWriteSpan, IInv, TypeOK, PointersInBounds, OneOwnerEach, IsNull

(* A commit changes the pointers of one object that has memory.            *)
LEMMA CommitStep ==
  ASSUME IInv, NEW o \in Objects, NEW new,
         IsNull(o) => new = NullRing,
         ~IsNull(o) => new \in Ring /\ InBounds(new) /\ new.cap = ring[o].cap,
         ring' = [ring EXCEPT ![o] = new],
         UNCHANGED <<alive, region, mapped, mem>>
  PROVE  IInv'
<1>1. ~IsNull(o) => new # NullRing
  BY DEF InBounds, NullRing, EmptyRing
<1>2. NullRing \in Ring
  BY EmptyInBounds DEF NullRing
<1>3. TypeOK'
  BY <1>1, <1>2 DEF IInv, TypeOK, IsNull
<1>4. PointersInBounds'
  BY DEF IInv, TypeOK, PointersInBounds, IsNull
<1>5. OneOwnerEach'
  BY DEF IInv, OneOwnerEach, IsNull
<1> QED BY <1>3, <1>4, <1>5 DEF IInv

LEMMA CommitWriteStepStep ==
  ASSUME IInv, NEW o \in Objects, CommitWriteStep(o)
  PROVE  IInv'
<1>1. PICK bytes \in 0 .. AvailableWrite(ring[o]) :
        /\ CommitWriteAsserts(ring[o], bytes)
        /\ ring' = [ring EXCEPT ![o] = CommitWrite(@, bytes)]
  BY DEF CommitWriteStep
<1>2. ring[o] \in Ring
  BY DEF IInv, TypeOK
<1>3. ~IsNull(o)
  BY <1>1 DEF IInv, TypeOK, NullRing, EmptyRing, CommitWriteAsserts, AvailableWrite,
              AvailableRead
<1>4. /\ CommitWrite(ring[o], bytes) \in Ring
      /\ InBounds(CommitWrite(ring[o], bytes))
      /\ CommitWrite(ring[o], bytes).cap = ring[o].cap
  BY <1>2, <1>3, CommitWriteInBounds DEF IInv, PointersInBounds
<1>5. ring' = [ring EXCEPT ![o] = CommitWrite(ring[o], bytes)]
  BY <1>1
<1> QED BY <1>3, <1>4, <1>5, CommitStep DEF CommitWriteStep

LEMMA CommitReadStepStep ==
  ASSUME IInv, NEW o \in Objects, CommitReadStep(o)
  PROVE  IInv'
<1>1. PICK bytes \in 0 .. AvailableRead(ring[o]) :
        ring' = [ring EXCEPT ![o] = CommitRead(@, bytes)]
  BY DEF CommitReadStep
<1>2. ring[o] \in Ring
  BY DEF IInv, TypeOK
<1>3. ASSUME IsNull(o)
      PROVE  CommitRead(ring[o], bytes) = NullRing
  <2>1. ring[o] = NullRing
    BY <1>3 DEF IInv, TypeOK
  <2>2. bytes = 0
    BY <2>1 DEF NullRing, EmptyRing, AvailableRead
  <2> QED BY <2>1, <2>2 DEF NullRing, EmptyRing, CommitRead
<1>4. ASSUME ~IsNull(o)
      PROVE  /\ CommitRead(ring[o], bytes) \in Ring
             /\ InBounds(CommitRead(ring[o], bytes))
             /\ CommitRead(ring[o], bytes).cap = ring[o].cap
  BY <1>2, <1>4, CommitReadInBounds DEF IInv, PointersInBounds
<1>5. ring' = [ring EXCEPT ![o] = CommitRead(ring[o], bytes)]
  BY <1>1
<1> QED BY <1>3, <1>4, <1>5, CommitStep DEF CommitReadStep

LEMMA NextInvariant == IInv /\ [Next]_vars => IInv'
<1> SUFFICES ASSUME IInv, [Next]_vars
             PROVE  IInv'
  OBVIOUS
<1>1. ASSUME NEW o \in Objects, NEW capacity \in Requests, Construct(o, capacity)
      PROVE  IInv'
  BY <1>1, ConstructStep
<1>2. ASSUME NEW o \in Objects, NEW capacity \in Requests, Reserve(o, capacity)
      PROVE  IInv'
  BY <1>2, ReserveStep
<1>3. ASSUME NEW o \in Objects, NEW other \in Objects, MoveConstruct(o, other)
      PROVE  IInv'
  BY <1>3, MoveConstructStep
<1>4. ASSUME NEW o \in Objects, NEW other \in Objects, MoveAssign(o, other)
      PROVE  IInv'
  BY <1>4, MoveAssignStep
<1>5. ASSUME NEW o \in Objects, Destroy(o)
      PROVE  IInv'
  BY <1>5, DestroyStep
<1>6. ASSUME NEW o \in Objects, FillWriteSpan(o)
      PROVE  IInv'
  BY <1>6, FillWriteSpanStep
<1>7. ASSUME NEW o \in Objects, CommitWriteStep(o)
      PROVE  IInv'
  BY <1>7, CommitWriteStepStep
<1>8. ASSUME NEW o \in Objects, CommitReadStep(o)
      PROVE  IInv'
  BY <1>8, CommitReadStepStep
<1>9. CASE UNCHANGED vars
  BY <1>9 DEF vars, IInv, TypeOK, PointersInBounds, OneOwnerEach, IsNull
<1> QED BY <1>1, <1>2, <1>3, <1>4, <1>5, <1>6, <1>7, <1>8, <1>9 DEF Next

-----------------------------------------------------------------------------
LEMMA Invariance == Spec => []IInv
BY InitInvariant, NextInvariant, PTL DEF Spec

(* The state keeps its shape; an object without a mapping has no capacity  *)
(* and two null pointers, the state is_null() tests for.                   *)
THEOREM TypeCorrect == Spec => []TypeOK
<1>1. IInv => TypeOK
  BY DEF IInv
<1> QED BY <1>1, Invariance, PTL

(* The invariants of the class comment hold for every object with memory,  *)
(* through construction, moves, growth and commits.                        *)
THEOREM PointersStayInBounds == Spec => []PointersInBounds
<1>1. IInv => PointersInBounds
  BY DEF IInv
<1> QED BY <1>1, Invariance, PTL

(* A program that commits no more than the spans it was handed never trips *)
(* an assertion of commit_read() or commit_write(); the strict bound of    *)
(* the latter included.                                                    *)
THEOREM NoCommitAsserts == Spec => []CommitsNeverAssert
<1>1. IInv => CommitsNeverAssert
  BY CommitReadInBounds, CommitWriteInBounds
     DEF IInv, TypeOK, PointersInBounds, CommitsNeverAssert
<1> QED BY <1>1, Invariance, PTL

(* Every mapping that exists has exactly one live owner: none is leaked,   *)
(* none is unmapped twice.                                                 *)
THEOREM EveryMappingHasOneOwner == Spec => []OneOwnerEach
<1>1. IInv => OneOwnerEach
  BY DEF IInv
<1> QED BY <1>1, Invariance, PTL
-----------------------------------------------------------------------------
(* What is shown is a sequence of bytes, one for each cell of the span.    *)
ContentIsSequence ==
  \A o \in Objects :
    /\ Content(o) \in Seq(Bytes)
    /\ AvailableRead(ring[o]) \in Nat
    /\ Len(Content(o)) = AvailableRead(ring[o])
    /\ \A i \in 1 .. AvailableRead(ring[o]) :
         Content(o)[i] = mem[region[o]][Cell(ring[o], ring[o].left + i - 1)]

LEMMA ContentOf == IInv => ContentIsSequence
<1> SUFFICES ASSUME IInv, NEW o \in Objects
             PROVE  /\ Content(o) \in Seq(Bytes)
                    /\ AvailableRead(ring[o]) \in Nat
                    /\ Len(Content(o)) = AvailableRead(ring[o])
                    /\ \A i \in 1 .. AvailableRead(ring[o]) :
                         Content(o)[i] = mem[region[o]][Cell(ring[o], ring[o].left + i - 1)]
  BY DEF ContentIsSequence
<1>1. PICK n \in Nat : n = AvailableRead(ring[o])
  <2>1. CASE IsNull(o)
    BY <2>1 DEF IInv, TypeOK, NullRing, EmptyRing, AvailableRead
  <2>2. CASE ~IsNull(o)
    BY <2>2 DEF IInv, TypeOK, PointersInBounds, InBounds, Ring, AvailableRead
  <2> QED BY <2>1, <2>2
<1>2. Content(o) \in [1 .. n -> Bytes]
  BY <1>1, ContentIsBytes DEF IInv
<1>3. Content(o) \in Seq(Bytes) /\ Len(Content(o)) = n
  BY <1>2
<1> QED BY <1>1, <1>3 DEF Content

LEMMA ContentNext == IInv' => ContentIsSequence'
BY ContentOf, PTL

(* An object that has the pointers of o over the same bytes shows the same.*)
LEMMA SameContent ==
  ASSUME IInv, IInv', NEW o \in Objects, NEW p \in Objects,
         ring'[p] = ring[o],
         ~IsNull(o) => \A c \in 0 .. ring[o].cap - 1 : mem'[region'[p]][c] = mem[region[o]][c]
  PROVE  Content(p)' = Content(o)
<1>1. PICK n \in Nat : n = AvailableRead(ring[o])
  BY ContentOf DEF ContentIsSequence
<1>2. /\ Content(o) \in Seq(Bytes) /\ Len(Content(o)) = n
      /\ Content(p)' \in Seq(Bytes) /\ Len(Content(p)') = n
  BY <1>1, ContentOf, ContentNext DEF ContentIsSequence
<1>3. ASSUME NEW i \in 1 .. n
      PROVE  Content(o)[i] = Content(p)'[i]
  <2>1. ring[o] \in Ring
    BY DEF IInv, TypeOK
  <2>2. InBounds(ring[o]) /\ ~IsNull(o)
    BY <1>1 DEF IInv, TypeOK, PointersInBounds, NullRing, EmptyRing, AvailableRead
  <2>3. ring[o].left + i - 1 \in ring[o].left .. ring[o].left + ring[o].cap - 1
    BY <1>1, <2>1, <2>2 DEF Ring, InBounds, AvailableRead
  <2>4. Cell(ring[o], ring[o].left + i - 1) \in 0 .. ring[o].cap - 1
    BY <2>1, <2>2, <2>3, CellInMapping
  <2>5. mem'[region'[p]][Cell(ring[o], ring[o].left + i - 1)]
          = mem[region[o]][Cell(ring[o], ring[o].left + i - 1)]
    BY <2>2, <2>4
  <2> QED BY <1>1, <2>5 DEF Content
<1> QED BY <1>2, <1>3, SeqEqual

LEMMA NothingShown ==
  ASSUME NEW o \in Objects, NEW cap, ring'[o] = EmptyRing(cap)
  PROVE  Content(o)' = <<>>
BY DEF Content, EmptyRing, AvailableRead

(* The abstract queues, and how a step that changes one or two objects     *)
(* changes them.                                                           *)
Queues == [o \in Objects |-> Content(o)]
Sizes == [o \in Objects |-> ring[o].cap]

LEMMA OneQueue ==
  ASSUME NEW o \in Objects, NEW q, Content(o)' = q,
         \A p \in Objects \ {o} : Content(p)' = Content(p)
  PROVE  Queues' = [Queues EXCEPT ![o] = q]
BY DEF Queues

LEMMA SameQueues ==
  ASSUME \A p \in Objects : Content(p)' = Content(p)
  PROVE  Queues' = Queues
BY DEF Queues

LEMMA OneSize ==
  ASSUME NEW o \in Objects, NEW new, IInv, ring' = [ring EXCEPT ![o] = new]
  PROVE  Sizes' = [Sizes EXCEPT ![o] = new.cap]
BY DEF Sizes, IInv, TypeOK

LEMMA EmptySize ==
  ASSUME NEW o \in Objects, NEW c, IInv, ring' = [ring EXCEPT ![o] = EmptyRing(c)]
  PROVE  ring'[o] = EmptyRing(c) /\ Sizes' = [Sizes EXCEPT ![o] = c]
BY DEF Sizes, EmptyRing, IInv, TypeOK

LEMMA FifoInit == Init => LossyFifo!Init
<1>1. ASSUME Init, NEW o \in Objects
      PROVE  Content(o) = <<>> /\ ring[o].cap = 0
  BY <1>1 DEF Init, Content, NullRing, EmptyRing, AvailableRead
<1> QED BY <1>1 DEF LossyFifo!Init

LEMMA Untouched ==
  ASSUME IInv, IInv', NEW p \in Objects,
         ring'[p] = ring[p], region'[p] = region[p],
         ~IsNull(p) => mem'[region[p]] = mem[region[p]]
  PROVE  Content(p)' = Content(p)
BY SameContent

(* What is in a mapping stays there unless the mapping is freed.           *)
LEMMA UnmapOthers ==
  ASSUME IInv, NEW gone, NEW r \in Regions \ gone
  PROVE  Unmap(gone)[r] = mem[r]
BY DEF IInv, TypeOK, Unmap

LEMMA ConstructOpens ==
  ASSUME IInv, IInv', NEW o \in Objects, NEW capacity \in Requests, Construct(o, capacity)
  PROVE  LossyFifo!Open(o) \/ UNCHANGED LossyFifo!vars
<1>1. CASE UNCHANGED <<region, ring, mapped, mem>>
  <2>1. \A p \in Objects : Content(p)' = Content(p)
    BY <1>1, Untouched
  <2>2. Queues' = Queues /\ Sizes' = Sizes
    BY <1>1, <2>1, SameQueues DEF Sizes
  <2> QED BY <2>2 DEF LossyFifo!vars, Queues, Sizes
<1>2. CASE /\ Creatable(capacity)
           /\ \E r \in Regions \ mapped :
                /\ region' = [region EXCEPT ![o] = r]
                /\ mapped' = mapped \cup {r}
           /\ ring' = [ring EXCEPT ![o] = EmptyRing(PageCeil(capacity))]
           /\ UNCHANGED mem
  <2> DEFINE c == PageCeil(capacity)
  <2>1. c \in (0 .. MaxCapacity) \ {0}
    BY <1>2, CreatableSize, PageAssumption, BufferAssumption
  <2>2. ring[o] = NullRing
    BY DEF Construct, IInv, TypeOK, OneOwnerEach
  <2>3. ring'[o] = EmptyRing(c) /\ Sizes' = [Sizes EXCEPT ![o] = c]
    BY <1>2, EmptySize
  <2>4. Content(o)' = <<>> /\ Content(o) = <<>>
    BY <2>2, <2>3, NothingShown DEF Content, NullRing, EmptyRing, AvailableRead
  <2>5. ASSUME NEW p \in Objects \ {o} PROVE Content(p)' = Content(p)
    BY <1>2, Untouched DEF IInv, TypeOK
  <2>6. Queues' = Queues
    BY <2>4, <2>5, SameQueues
  <2>7. Sizes[o] = 0
    BY <2>2 DEF Sizes, NullRing, EmptyRing
  <2> QED BY <2>1, <2>3, <2>6, <2>7 DEF LossyFifo!Open, Queues, Sizes
<1> QED BY <1>1, <1>2 DEF Construct

LEMMA ReserveGrows ==
  ASSUME IInv, IInv', NEW o \in Objects, NEW newCapacity \in Requests,
         Reserve(o, newCapacity)
  PROVE  LossyFifo!Grow(o)
<1> DEFINE c == PageCeil(newCapacity)
<1>1. c \in 0 .. MaxCapacity /\ ring[o].cap < c
  <2>1. newCapacity \in 0 .. SizeModulus - 1 /\ ring[o].cap \in Nat
    BY BufferAssumption DEF IInv, TypeOK, Ring
  <2>2. c \in 1 .. MaxCapacity
    BY <2>1, CreatableSize DEF Reserve
  <2>3. newCapacity <= c
    BY <2>1, CeilRounds DEF Reserve, Creatable
  <2> QED BY <2>1, <2>2, <2>3, PageAssumption DEF Reserve
<1>2. ring'[o] = EmptyRing(c) /\ Sizes' = [Sizes EXCEPT ![o] = c]
  BY EmptySize DEF Reserve
<1>3. Content(o)' = <<>>
  BY <1>2, NothingShown
<1>4. PICK r \in Regions \ mapped :
        /\ region' = [region EXCEPT ![o] = r]
        /\ mem' = [Unmap(Held(o)) EXCEPT ![r] =
                     [k \in Cells |-> IF k < AvailableRead(ring[o])
                                      THEN Content(o)[k + 1] ELSE Zero]]
  BY DEF Reserve
<1>5. ASSUME NEW p \in Objects \ {o} PROVE Content(p)' = Content(p)
  <2>1. ring'[p] = ring[p] /\ region'[p] = region[p]
    BY <1>4 DEF Reserve, IInv, TypeOK
  <2>2. ASSUME ~IsNull(p) PROVE mem'[region[p]] = mem[region[p]]
    <3>1. region[p] \in Regions \ Held(o) /\ region[p] # r
      BY <2>2 DEF IInv, TypeOK, OneOwnerEach, IsNull, Held
    <3>2. mem'[region[p]] = Unmap(Held(o))[region[p]]
      BY <1>4, <3>1 DEF Unmap
    <3> QED BY <3>1, <3>2, UnmapOthers
  <2> QED BY <2>1, <2>2, Untouched
<1>6. Queues' = [Queues EXCEPT ![o] = <<>>]
  BY <1>3, <1>5, OneQueue
<1>7. Sizes[o] = ring[o].cap
  BY DEF Sizes
<1> QED BY <1>1, <1>2, <1>6, <1>7 DEF LossyFifo!Grow, Queues, Sizes

LEMMA DestroyCloses ==
  ASSUME IInv, IInv', NEW o \in Objects, Destroy(o)
  PROVE  LossyFifo!Close(o)
<1>1. ring'[o] = NullRing /\ Sizes' = [Sizes EXCEPT ![o] = 0]
  BY EmptySize DEF Destroy, NullRing
<1>2. Content(o)' = <<>>
  BY <1>1, NothingShown DEF NullRing
<1>3. ASSUME NEW p \in Objects \ {o} PROVE Content(p)' = Content(p)
  <2>1. ring'[p] = ring[p] /\ region'[p] = region[p]
    BY DEF Destroy, IInv, TypeOK
  <2>2. ASSUME ~IsNull(p) PROVE mem'[region[p]] = mem[region[p]]
    <3>1. region[p] \in Regions \ Held(o)
      BY <2>2 DEF IInv, TypeOK, OneOwnerEach, IsNull, Held
    <3> QED BY <3>1, UnmapOthers DEF Destroy
  <2> QED BY <2>1, <2>2, Untouched
<1>4. Queues' = [Queues EXCEPT ![o] = <<>>]
  BY <1>2, <1>3, OneQueue
<1> QED BY <1>1, <1>4 DEF LossyFifo!Close, Queues, Sizes

(* Both moves: the target takes the place of the source, whose bytes are   *)
(* in a mapping that the target did not hold.                              *)
LEMMA Moves ==
  ASSUME IInv, IInv', NEW o \in Objects, NEW other \in Objects,
         region' = [region EXCEPT ![o] = region[other], ![other] = NoRegion],
         ring' = [ring EXCEPT ![o] = ring[other], ![other] = NullRing],
         mem' = Unmap(Held(o))
  PROVE  LossyFifo!Move(o, other)
<1>1. ring'[other] = NullRing /\ Content(other)' = <<>>
  BY NothingShown DEF IInv, TypeOK, NullRing
<1>2. ASSUME o # other PROVE Content(o)' = Content(other)
  <2>1. ring'[o] = ring[other] /\ region'[o] = region[other]
    BY <1>2 DEF IInv, TypeOK
  <2>2. ASSUME ~IsNull(other) PROVE mem'[region[other]] = mem[region[other]]
    <3>1. region[other] \in Regions \ Held(o)
      BY <1>2, <2>2 DEF IInv, TypeOK, OneOwnerEach, IsNull, Held
    <3> QED BY <3>1, UnmapOthers
  <2> QED BY <2>1, <2>2, SameContent
<1>3. ASSUME NEW p \in Objects \ {o, other} PROVE Content(p)' = Content(p)
  <2>1. ring'[p] = ring[p] /\ region'[p] = region[p]
    BY DEF IInv, TypeOK
  <2>2. ASSUME ~IsNull(p) PROVE mem'[region[p]] = mem[region[p]]
    <3>1. region[p] \in Regions \ Held(o)
      BY <2>2 DEF IInv, TypeOK, OneOwnerEach, IsNull, Held
    <3> QED BY <3>1, UnmapOthers
  <2> QED BY <2>1, <2>2, Untouched
<1>4. Queues' = [Queues EXCEPT ![o] = Queues[other], ![other] = <<>>]
  BY <1>1, <1>2, <1>3 DEF Queues
<1>5. Sizes' = [Sizes EXCEPT ![o] = Sizes[other], ![other] = 0]
  BY DEF Sizes, IInv, TypeOK, NullRing, EmptyRing
<1> QED BY <1>4, <1>5 DEF LossyFifo!Move, Queues, Sizes

LEMMA MoveConstructMoves ==
  ASSUME IInv, IInv', NEW o \in Objects, NEW other \in Objects, MoveConstruct(o, other)
  PROVE  LossyFifo!Move(o, other)
<1>1. Held(o) = {}
  BY DEF MoveConstruct, IInv, OneOwnerEach, IsNull, Held
<1>2. Unmap({}) = mem
  BY DEF Unmap, IInv, TypeOK
<1> QED BY <1>1, <1>2, Moves DEF MoveConstruct, MovedFrom

LEMMA MoveAssignMoves ==
  ASSUME IInv, IInv', NEW o \in Objects, NEW other \in Objects, MoveAssign(o, other)
  PROVE  LossyFifo!Move(o, other)
BY Moves DEF MoveAssign, MovedFrom

(* The spans of prepare_read() and prepare_write() have no byte in common, *)
(* and a commit moves the borders between them.                            *)
LEMMA SpansAreDisjoint ==
  ASSUME NEW b \in Ring, InBounds(b), NEW i \in 1 .. AvailableRead(b)
  PROVE  Cell(b, b.left + i - 1) \notin WriteCells(b)
BY DEF Ring, InBounds, AvailableRead, AvailableWrite, WriteCells, Cell

LEMMA CommitWriteShows ==
  ASSUME NEW b \in Ring, InBounds(b), NEW bytes \in 0 .. AvailableWrite(b)
  PROVE  /\ AvailableRead(CommitWrite(b, bytes)) = AvailableRead(b) + bytes
         /\ \A address \in Nat : Cell(CommitWrite(b, bytes), address) = Cell(b, address)
         /\ CommitWrite(b, bytes).left = b.left
         /\ b.left + AvailableRead(b) = b.right
BY DEF Ring, InBounds, AvailableRead, AvailableWrite, CommitWrite, Cell

LEMMA CommitReadShows ==
  ASSUME NEW b \in Ring, InBounds(b), NEW bytes \in 0 .. AvailableRead(b)
  PROVE  /\ AvailableRead(CommitRead(b, bytes)) = AvailableRead(b) - bytes
         /\ \A i \in 1 .. AvailableRead(b) - bytes :
              Cell(CommitRead(b, bytes), CommitRead(b, bytes).left + i - 1)
                = Cell(b, b.left + (bytes + i) - 1)
<1>1. b.left \in Nat /\ b.right \in Nat /\ b.cap \in Nat /\ bytes \in Nat
  BY DEF Ring, InBounds, AvailableRead
<1>2. CASE b.left + bytes >= b.cap
  BY <1>1, <1>2 DEF InBounds, AvailableRead, CommitRead, Cell
<1>3. CASE b.left + bytes < b.cap
  <2>1. CommitRead(b, bytes) = [cap |-> b.cap, left |-> b.left + bytes, right |-> b.right]
    BY <1>1, <1>3 DEF CommitRead, Ring
  <2> QED BY <1>1, <1>3, <2>1 DEF InBounds, AvailableRead, Cell
<1> QED BY <1>1, <1>2, <1>3

LEMMA FillWriteSpanStutters ==
  ASSUME IInv, IInv', NEW o \in Objects, FillWriteSpan(o)
  PROVE  UNCHANGED LossyFifo!vars
<1>1. region[o] \in Regions /\ ring[o] \in Ring /\ InBounds(ring[o])
  BY DEF FillWriteSpan, IInv, TypeOK, PointersInBounds, IsNull
<1>2. PICK data \in [WriteCells(ring[o]) -> Bytes] :
        mem' = [mem EXCEPT ![region[o]] =
                  [c \in Cells |-> IF c \in DOMAIN data THEN data[c] ELSE @[c]]]
  BY DEF FillWriteSpan
<1>3. region' = region /\ ring' = ring
  BY DEF FillWriteSpan
<1>4. Content(o)' = Content(o)
  <2>1. ASSUME NEW i \in 1 .. AvailableRead(ring[o])
        PROVE  mem'[region[o]][Cell(ring[o], ring[o].left + i - 1)]
                 = mem[region[o]][Cell(ring[o], ring[o].left + i - 1)]
    <3>1. Cell(ring[o], ring[o].left + i - 1) \notin WriteCells(ring[o])
      BY <1>1, <2>1, SpansAreDisjoint
    <3>2. ring[o].left + i - 1 \in ring[o].left .. ring[o].left + ring[o].cap - 1
      BY <1>1, <2>1 DEF Ring, InBounds, AvailableRead
    <3>3. Cell(ring[o], ring[o].left + i - 1) \in 0 .. ring[o].cap - 1
      BY <1>1, <3>2, CellInMapping
    <3>4. Cell(ring[o], ring[o].left + i - 1) \in Cells
      BY <1>1, <3>3, PageAssumption DEF IInv, TypeOK, Cells, Ring
    <3>5. mem'[region[o]] = [c \in Cells |-> IF c \in DOMAIN data THEN data[c]
                                             ELSE mem[region[o]][c]]
      BY <1>1, <1>2 DEF IInv, TypeOK
    <3> QED BY <3>1, <3>4, <3>5
  <2> QED BY <1>3, <2>1 DEF Content
<1>5. ASSUME NEW p \in Objects \ {o} PROVE Content(p)' = Content(p)
  <2>1. ~IsNull(p) => mem'[region[p]] = mem[region[p]]
    BY <1>2 DEF FillWriteSpan, IInv, TypeOK, OneOwnerEach, IsNull
  <2> QED BY <1>3, <2>1, Untouched
<1>6. Queues' = Queues /\ Sizes' = Sizes
  BY <1>3, <1>4, <1>5, SameQueues DEF Sizes
<1> QED BY <1>6 DEF LossyFifo!vars, Queues, Sizes

(* A step that changes the pointers of one object only leaves the queues   *)
(* of the others.                                                          *)
LEMMA OthersUntouched ==
  ASSUME IInv, IInv', NEW o \in Objects, NEW new, ring' = [ring EXCEPT ![o] = new],
         UNCHANGED <<region, mem>>, NEW p \in Objects \ {o}
  PROVE  Content(p)' = Content(p)
BY Untouched DEF IInv, TypeOK

LEMMA CommitWritePushes ==
  ASSUME IInv, IInv', NEW o \in Objects, CommitWriteStep(o)
  PROVE  LossyFifo!Push(o)
<1>1. PICK n \in 0 .. AvailableWrite(ring[o]) :
        /\ CommitWriteAsserts(ring[o], n)
        /\ ring' = [ring EXCEPT ![o] = CommitWrite(@, n)]
  BY DEF CommitWriteStep
<1> DEFINE b == ring[o]
           new == CommitWrite(b, n)
           s == [i \in 1 .. n |-> mem[region[o]][Cell(b, b.right + i - 1)]]
<1>2. b \in Ring /\ ~IsNull(o) /\ InBounds(b) /\ region[o] \in Regions
  BY <1>1 DEF IInv, TypeOK, PointersInBounds, IsNull, NullRing, EmptyRing,
              CommitWriteAsserts, AvailableWrite, AvailableRead
<1>3. ring' = [ring EXCEPT ![o] = new] /\ ring'[o] = new /\ UNCHANGED <<region, mem>>
  BY <1>1 DEF CommitWriteStep, IInv, TypeOK
<1>4. n \in Nat /\ AvailableRead(b) \in Nat /\ n <= b.cap - AvailableRead(b)
  BY <1>1, <1>2 DEF AvailableWrite, AvailableRead, Ring, InBounds
<1>5. s \in [1 .. n -> Bytes]
  <2>1. ASSUME NEW i \in 1 .. n
        PROVE  mem[region[o]][Cell(b, b.right + i - 1)] \in Bytes
    <3>1. b.right + i - 1 \in b.left .. b.left + b.cap - 1
      BY <1>2, <1>4 DEF Ring, InBounds, AvailableRead
    <3>2. Cell(b, b.right + i - 1) \in Cells
      BY <1>2, <3>1, CellInMapping, PageAssumption, SMTT(30) DEF IInv, TypeOK, Cells, Ring
    <3> QED BY <1>2, <3>2 DEF IInv, TypeOK
  <2> QED BY <2>1
<1>6. s \in Seq(Bytes) /\ Len(s) = n
  BY <1>4, <1>5
<1>7. Content(o)' = Content(o) \o s
  <2>1. PICK m \in Nat : m = AvailableRead(b)
    BY <1>4
  <2>2. AvailableRead(new) = m + n /\ new.left = b.left /\ b.left + m = b.right
    BY <1>1, <1>2, <2>1, CommitWriteShows
  <2>3. Content(o) \in Seq(Bytes) /\ Len(Content(o)) = m
    BY <2>1, ContentOf DEF ContentIsSequence
  <2>4. Content(o)' \in Seq(Bytes) /\ Len(Content(o)') = m + n
    BY <1>3, <2>2, ContentNext DEF ContentIsSequence
  <2> HIDE DEF s
  <2>5. /\ Content(o) \o s \in Seq(Bytes)
        /\ Len(Content(o) \o s) = m + n
        /\ \A i \in 1 .. m + n :
             (Content(o) \o s)[i] = IF i <= m THEN Content(o)[i] ELSE s[i - m]
    BY <1>4, <1>6, <2>3, ConcatProperties
  <2>6. ASSUME NEW i \in 1 .. m + n
        PROVE  Content(o)'[i] = (Content(o) \o s)[i]
    <3>1. b.left \in Nat /\ b.left + i - 1 \in Nat
      BY <1>2, <2>1 DEF Ring
    <3>2. Content(o)'[i] = mem[region[o]][Cell(new, new.left + i - 1)]
      BY <1>3, <2>2 DEF Content
    <3>3. Content(o)'[i] = mem[region[o]][Cell(b, b.left + i - 1)]
      BY <1>1, <1>2, <2>2, <3>1, <3>2, CommitWriteShows
    <3>4. CASE i <= m
      <4>1. i \in 1 .. m
        BY <2>1, <3>4
      <4>2. Content(o)[i] = mem[region[o]][Cell(b, b.left + i - 1)]
        BY <2>1, <4>1, ContentOf DEF ContentIsSequence
      <4> QED BY <2>5, <3>3, <3>4, <4>2
    <3>5. CASE i > m
      <4>1. i - m \in 1 .. n /\ b.right + (i - m) - 1 = b.left + i - 1 /\ ~(i <= m)
        BY <1>4, <2>1, <2>2, <3>1, <3>5
      <4>2. s[i - m] = mem[region[o]][Cell(b, b.right + (i - m) - 1)]
        BY <4>1 DEF s
      <4> QED BY <2>5, <3>3, <4>1, <4>2
    <3>6. i <= m \/ i > m
      BY <1>4
    <3> QED BY <3>4, <3>5, <3>6, Zenon
  <2> QED BY <2>4, <2>5, <2>6, SeqEqual
<1> HIDE DEF new, s
<1>8. Queues' = [Queues EXCEPT ![o] = Queues[o] \o s]
  BY <1>3, <1>7, OthersUntouched, OneQueue DEF Queues
<1>9. Sizes' = Sizes
  <2>1. new.cap = b.cap
    BY <1>1, <1>2, CommitWriteInBounds DEF new
  <2> QED BY <1>3, <2>1 DEF Sizes, IInv, TypeOK
<1>10. n \in 0 .. (Sizes[o] - Len(Queues[o]))
  <2>1. Sizes[o] = b.cap /\ Len(Queues[o]) = AvailableRead(b)
    BY ContentOf DEF ContentIsSequence, Sizes, Queues
  <2> QED BY <1>2, <1>4, <2>1 DEF Ring
<1> QED BY <1>5, <1>8, <1>9, <1>10 DEF LossyFifo!Push, LossyFifo!Room, Queues, Sizes

LEMMA CommitReadPops ==
  ASSUME IInv, IInv', NEW o \in Objects, CommitReadStep(o)
  PROVE  LossyFifo!Pop(o) \/ UNCHANGED LossyFifo!vars
<1>1. PICK n \in 0 .. AvailableRead(ring[o]) :
        ring' = [ring EXCEPT ![o] = CommitRead(@, n)]
  BY DEF CommitReadStep
<1> DEFINE b == ring[o]
           new == CommitRead(b, n)
<1>2. /\ ring' = [ring EXCEPT ![o] = new]
      /\ ring'[o] = new
      /\ UNCHANGED <<region, mem>>
      /\ b \in Ring
  BY <1>1 DEF CommitReadStep, IInv, TypeOK
<1>3. CASE IsNull(o)
  <2>1. b = NullRing
    BY <1>3 DEF IInv, TypeOK
  <2>2. n = 0
    BY <2>1 DEF NullRing, EmptyRing, AvailableRead
  <2>3. new = b
    BY <2>1, <2>2 DEF NullRing, EmptyRing, CommitRead
  <2>4. ring' = ring
    BY <1>2, <2>3 DEF IInv, TypeOK
  <2>5. \A p \in Objects : Content(p)' = Content(p)
    BY <1>2, <2>4, Untouched
  <2>6. Queues' = Queues /\ Sizes' = Sizes
    BY <2>4, <2>5, SameQueues DEF Sizes
  <2> QED BY <2>6 DEF LossyFifo!vars, Queues, Sizes
<1>4. CASE ~IsNull(o)
  <2>1. InBounds(b)
    BY <1>4 DEF IInv, PointersInBounds
  <2>2. PICK m \in Nat : m = AvailableRead(b)
    BY ContentOf DEF ContentIsSequence
  <2>3. n \in 0 .. m
    BY <2>2
  <2>4. Content(o) \in Seq(Bytes) /\ Len(Content(o)) = m
    BY <2>2, ContentOf DEF ContentIsSequence
  <2>5. AvailableRead(new) = m - n
    BY <1>2, <2>1, <2>2, CommitReadShows
  <2>6. Content(o)' \in Seq(Bytes) /\ Len(Content(o)') = m - n
    BY <1>2, <2>5, ContentNext DEF ContentIsSequence
  <2>7. Content(o)' = SubSeq(Content(o), n + 1, m)
    <3>1. ASSUME NEW i \in n + 1 .. m PROVE Content(o)[i] \in Bytes
      BY <2>3, <2>4, ElementOfSeq
    <3>2. /\ SubSeq(Content(o), n + 1, m) \in Seq(Bytes)
          /\ Len(SubSeq(Content(o), n + 1, m)) = m - n
          /\ \A i \in 1 .. m - n :
               SubSeq(Content(o), n + 1, m)[i] = Content(o)[n + i]
      BY <2>3, <2>4, <3>1, SubSeqProperties
    <3>3. ASSUME NEW i \in 1 .. m - n
          PROVE  Content(o)'[i] = SubSeq(Content(o), n + 1, m)[i]
      <4>1. Content(o)'[i] = mem[region[o]][Cell(new, new.left + i - 1)]
        BY <1>2, <2>5 DEF Content
      <4>2. Content(o)'[i] = mem[region[o]][Cell(b, b.left + (n + i) - 1)]
        BY <1>2, <2>1, <2>2, <4>1, CommitReadShows
      <4>3. n + i \in 1 .. m
        BY <2>3
      <4>4. Content(o)[n + i] = mem[region[o]][Cell(b, b.left + (n + i) - 1)]
        BY <2>2, <4>3 DEF Content
      <4> QED BY <3>2, <4>2, <4>4
    <3> QED BY <2>6, <3>2, <3>3, SeqEqual
  <2> HIDE DEF new
  <2>8. Queues' = [Queues EXCEPT ![o] = SubSeq(Queues[o], n + 1, Len(Queues[o]))]
    BY <1>2, <2>4, <2>7, OthersUntouched, OneQueue DEF Queues
  <2>9. Sizes' = Sizes
    <3>1. new.cap = b.cap
      BY <1>2, <2>1, CommitReadInBounds DEF new
    <3> QED BY <1>2, <3>1 DEF Sizes, IInv, TypeOK
  <2>10. n \in 0 .. Len(Queues[o])
    BY <2>3, <2>4 DEF Queues
  <2> QED BY <2>8, <2>9, <2>10 DEF LossyFifo!Pop, Queues, Sizes
<1> QED BY <1>3, <1>4

LEMMA StepImplements == IInv /\ IInv' /\ [Next]_vars => [LossyFifo!Next]_(LossyFifo!vars)
<1> SUFFICES ASSUME IInv, IInv', [Next]_vars
             PROVE  LossyFifo!Next \/ UNCHANGED LossyFifo!vars
  OBVIOUS
<1>1. ASSUME NEW o \in Objects, NEW capacity \in Requests, Construct(o, capacity)
      PROVE  LossyFifo!Next \/ UNCHANGED LossyFifo!vars
  BY <1>1, ConstructOpens DEF LossyFifo!Next
<1>2. ASSUME NEW o \in Objects, NEW capacity \in Requests, Reserve(o, capacity)
      PROVE  LossyFifo!Next
  BY <1>2, ReserveGrows DEF LossyFifo!Next
<1>3. ASSUME NEW o \in Objects, NEW other \in Objects,
             MoveConstruct(o, other) \/ MoveAssign(o, other)
      PROVE  LossyFifo!Next
  BY <1>3, MoveConstructMoves, MoveAssignMoves DEF LossyFifo!Next
<1>4. ASSUME NEW o \in Objects, Destroy(o)
      PROVE  LossyFifo!Next
  BY <1>4, DestroyCloses DEF LossyFifo!Next
<1>5. ASSUME NEW o \in Objects, FillWriteSpan(o)
      PROVE  UNCHANGED LossyFifo!vars
  BY <1>5, FillWriteSpanStutters
<1>6. ASSUME NEW o \in Objects, CommitWriteStep(o)
      PROVE  LossyFifo!Next
  BY <1>6, CommitWritePushes DEF LossyFifo!Next
<1>7. ASSUME NEW o \in Objects, CommitReadStep(o)
      PROVE  LossyFifo!Next \/ UNCHANGED LossyFifo!vars
  BY <1>7, CommitReadPops DEF LossyFifo!Next
<1>8. CASE UNCHANGED vars
  BY <1>8 DEF vars, LossyFifo!vars, Content
<1> QED BY <1>1, <1>2, <1>3, <1>4, <1>5, <1>6, <1>7, <1>8 DEF Next

(* A buffer keeps the promise of a queue of bytes, for every size of page, *)
(* bound and number of objects: what is committed is read back in order,   *)
(* whole, whatever is written behind it and whichever object has it by     *)
(* then.  Growth, and only growth or the end of the object, drops bytes.   *)
THEOREM ImplementsFifo == Spec => IsLossyFifo
<1>1. IInv /\ IInv' /\ [Next]_vars => [LossyFifo!Next]_(LossyFifo!vars)
  BY StepImplements
<1> QED BY <1>1, FifoInit, Invariance, PTL DEF Spec, IsLossyFifo, LossyFifo!Spec
=============================================================================
