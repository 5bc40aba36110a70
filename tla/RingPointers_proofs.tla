------------------------ MODULE RingPointers_proofs ------------------------
(***************************************************************************)
(* Lemmas about the operators of RingPointers, for every page size, width  *)
(* of size_t and bound: what rounding, refusing and committing do.         *)
(***************************************************************************)
EXTENDS RingPointers, TLAPS

(* Division of naturals, as far as it is needed.                           *)
LEMMA Division ==
  ASSUME NEW a \in Int, NEW b \in Int, b > 0,
         NEW q \in Int, NEW r \in Int, q = a \div b, r = a % b
  PROVE  a = b * q + r
  BY SMT

LEMMA QuotientAndRest ==
  ASSUME NEW a \in Int, NEW b \in Int, b > 0
  PROVE  a \div b \in Int /\ a % b \in Int /\ 0 <= a % b /\ a % b < b
  BY SMT

LEMMA QuotientOfNat ==
  ASSUME NEW b \in Int, b > 0, NEW q \in Int, NEW r \in Int, r < b, b * q + r >= 0
  PROVE  q >= 0
<1>1. q < 0 => b * q <= -b
  BY SMT
<1>2. b * q \in Int
  BY SMT
<1> QED
  BY <1>1, <1>2, SMT

LEMMA DivMod ==
  ASSUME NEW a \in Nat, NEW b \in Nat \ {0}
  PROVE  \E q, r \in Nat : q = a \div b /\ r = a % b /\ a = b * q + r /\ r < b
<1>1. PICK q \in Int : q = a \div b
  BY QuotientAndRest
<1>2. PICK r \in Int : r = a % b /\ 0 <= r /\ r < b
  BY QuotientAndRest
<1>3. a = b * q + r
  BY <1>1, <1>2, Division
<1>4. q >= 0
  BY <1>2, <1>3, QuotientOfNat
<1>5. q \in Nat /\ r \in Nat
  BY <1>2, <1>4
<1> QED
  BY <1>1, <1>2, <1>3, <1>5, Zenon

LEMMA QuotientOfProduct ==
  ASSUME NEW q \in Nat, NEW b \in Nat \ {0}
  PROVE  (b * q) \div b = q /\ (b * q) % b = 0
  BY SMT

LEMMA NextMultiple ==
  ASSUME NEW p \in Nat \ {0}, NEW q \in Nat, NEW m \in Nat, p * q < p * m
  PROVE  q < m /\ p * (q + 1) <= p * m
  BY SMT

(* What is not refused is not zero and has its double in size_t.           *)
LEMMA NotRefused ==
  ASSUME NEW c \in Nat, c < SizeModulus, ~Refused(c)
  PROVE  c > 0 /\ 2 * c < SizeModulus
<1>1. SizeModulus \in Nat \ {0}
  BY PageAssumption
<1>2. 2 * c >= SizeModulus => (2 * c) % SizeModulus = 2 * c - SizeModulus
  BY <1>1, SMT
<1>3. c = 0 => (2 * c) % SizeModulus = 0
  BY <1>1, SMT
<1> QED
  BY <1>1, <1>2, <1>3 DEF Refused

(* mirror_create() goes on with a capacity in whole pages, the least that  *)
(* is enough: a sum that wraps is refused.                                 *)
LEMMA CeilRounds ==
  ASSUME NEW n \in 0 .. SizeModulus - 1, ~Refused(PageCeil(n))
  PROVE  \E h \in Nat \ {0} :
           /\ PageCeil(n) = PageSize * h
           /\ n <= PageSize * h /\ PageSize * h < n + PageSize
           /\ 2 * (PageSize * h) < SizeModulus
<1> USE PageAssumption
<1>n. n \in Nat /\ n < SizeModulus
  BY SMT
<1>1. PICK q, r \in Nat : q = n \div PageSize /\ r = n % PageSize
                           /\ n = PageSize * q + r /\ r < PageSize
  BY <1>n, DivMod, Zenon
<1>2. PICK m \in Nat : SizeModulus = PageSize * m
  <2>1. SizeModulus \in Nat /\ PageSize \in Nat \ {0}
    OBVIOUS
  <2>2. PICK k, r0 \in Nat : k = SizeModulus \div PageSize /\ r0 = SizeModulus % PageSize
                             /\ SizeModulus = PageSize * k + r0 /\ r0 < PageSize
    BY <2>1, DivMod, Zenon
  <2>3. r0 = 0 /\ PageSize * k \in Nat
    BY <2>2
  <2>4. SizeModulus = PageSize * k
    BY <2>2, <2>3
  <2> QED
    BY <2>4, Zenon
<1>3. PageSize * q \in Nat /\ PageSize * (q + 1) = PageSize * q + PageSize
  BY SMT
<1>4. PageSize * (q + 1) <= SizeModulus
  <2>1. PageSize * q < PageSize * m
    BY <1>n, <1>1, <1>2, <1>3
  <2> QED
    BY <2>1, <1>2, NextMultiple
<1>5. CASE r = 0
  <2>1. PageCeil(n) = n /\ n = PageSize * q
    BY <1>1, <1>3, <1>5 DEF PageCeil
  <2>2. n > 0 /\ 2 * n < SizeModulus
    BY <1>n, <2>1, NotRefused
  <2>3. q \in Nat \ {0}
    BY <2>1, <2>2
  <2>4. n <= PageSize * q /\ PageSize * q < n + PageSize
    BY <1>n, <2>1
  <2>5. 2 * (PageSize * q) < SizeModulus /\ PageCeil(n) = PageSize * q
    BY <2>1, <2>2
  <2> QED
    BY <2>3, <2>4, <2>5, Zenon
<1>6. CASE r # 0
  <2>1. PageCeil(n) = (n + (PageSize - r)) % SizeModulus
    BY <1>1, <1>6 DEF PageCeil
  <2>2. n + (PageSize - r) = PageSize * (q + 1)
    BY <1>1, <1>3
  <2>3. PageCeil(n) = (PageSize * (q + 1)) % SizeModulus
    BY <2>1, <2>2, Zenon
  <2>4. PageCeil(n) \in Nat /\ PageCeil(n) < SizeModulus
    BY <1>3, <2>3
  <2>5. PageCeil(n) > 0 /\ 2 * PageCeil(n) < SizeModulus
    BY <2>4, NotRefused
  <2>6. PageSize * (q + 1) # SizeModulus
    BY <2>3, <2>5
  <2>7. PageCeil(n) = PageSize * (q + 1)
    BY <1>3, <1>4, <2>3, <2>6
  <2>8. n <= PageSize * (q + 1) /\ PageSize * (q + 1) < n + PageSize
    BY <1>n, <1>1, <1>3, <1>6
  <2>9. 2 * (PageSize * (q + 1)) < SizeModulus
    BY <2>5, <2>7, Zenon
  <2> HIDE PageAssumption
  <2>10. q + 1 \in Nat \ {0}
    BY SMT
  <2> QED
    BY <2>7, <2>8, <2>9, <2>10, Zenon
<1> QED
  BY <1>5, <1>6

(* Rounding a size_t gives a size_t.                                       *)
LEMMA CeilInRange ==
  ASSUME NEW n \in 0 .. SizeModulus - 1
  PROVE  PageCeil(n) \in 0 .. SizeModulus - 1
<1>1. CASE n % PageSize = 0
  BY <1>1 DEF PageCeil
<1>2. CASE n % PageSize # 0
  <2>1. n + (PageSize - (n % PageSize)) \in Int
    BY PageAssumption, QuotientAndRest
  <2> QED
    BY <1>2, <2>1, PageAssumption, QuotientAndRest DEF PageCeil
<1> QED
  BY <1>1, <1>2

-----------------------------------------------------------------------------
(* A capacity that mirror_create() accepts becomes a positive one within   *)
(* the bound.                                                              *)
LEMMA CreatableSize ==
  ASSUME NEW capacity \in Nat, Creatable(capacity)
  PROVE  PageCeil(capacity) \in 1 .. MaxCapacity
<1>1. PageCeil(capacity) \in Nat
  <2>1. CASE capacity % PageSize = 0
    BY <2>1 DEF PageCeil
  <2>2. CASE capacity % PageSize # 0
    <3>1. capacity + (PageSize - (capacity % PageSize)) \in Nat
      BY PageAssumption
    <3> QED BY <3>1, <2>2, PageAssumption DEF PageCeil
  <2> QED BY <2>1, <2>2
<1>2. PageCeil(capacity) # 0
  <2>1. (2 * 0) % SizeModulus = 0
    BY PageAssumption
  <2> QED BY <2>1 DEF Creatable, Refused
<1> QED BY <1>1, <1>2, PageAssumption DEF Creatable

(* commit_read() within the readable span keeps the pointers in bounds:    *)
(* when left_ leaves the first copy both pointers move back a capacity.    *)
LEMMA CommitReadInBounds ==
  ASSUME NEW b \in Ring, InBounds(b), NEW bytes \in 0 .. AvailableRead(b)
  PROVE  /\ CommitReadAsserts(b, bytes)
         /\ CommitRead(b, bytes) \in Ring
         /\ InBounds(CommitRead(b, bytes))
         /\ CommitRead(b, bytes).cap = b.cap
BY DEF Ring, InBounds, AvailableRead, CommitReadAsserts, CommitRead

(* commit_write() within the writable span does.                           *)
LEMMA CommitWriteInBounds ==
  ASSUME NEW b \in Ring, InBounds(b), NEW bytes \in 0 .. AvailableWrite(b)
  PROVE  /\ CommitWriteAsserts(b, bytes)
         /\ CommitWrite(b, bytes) \in Ring
         /\ InBounds(CommitWrite(b, bytes))
         /\ CommitWrite(b, bytes).cap = b.cap
BY DEF Ring, InBounds, AvailableRead, AvailableWrite, CommitWriteAsserts, CommitWrite

(* A ring of nothing is in bounds as soon as it has memory.                *)
LEMMA EmptyInBounds ==
  ASSUME NEW cap \in Nat
  PROVE  /\ EmptyRing(cap) \in Ring
         /\ EmptyRing(cap).cap = cap
         /\ cap # 0 => InBounds(EmptyRing(cap)) /\ EmptyRing(cap) # NullRing
BY DEF EmptyRing, NullRing, Ring, InBounds

(* Every address that a span in bounds covers is a cell of the mapping.    *)
LEMMA CellInMapping ==
  ASSUME NEW b \in Ring, InBounds(b), NEW address \in b.left .. b.left + b.cap - 1
  PROVE  Cell(b, address) \in 0 .. b.cap - 1
BY DEF Ring, InBounds, Cell
=============================================================================
