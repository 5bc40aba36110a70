------------------------ MODULE MirrorCreate_proofs ------------------------
(***************************************************************************)
(* Proofs about MirrorCreate, for every page size, width of size_t and     *)
(* build: a call of mirror_create() leaves nothing behind when it fails,   *)
(* unless munmap() fails too, and else a mirrored buffer that is large     *)
(* enough.                                                                 *)
(***************************************************************************)
EXTENDS MirrorCreate, RingPointers_proofs

(* The capacity in pages: rounded up from the request, and one that can be *)
(* doubled in size_t.                                                      *)
Rounded ==
  /\ Half \in Nat \ {0}
  /\ capacity = PageSize * Half
  /\ 2 * capacity < SizeModulus
  /\ request <= capacity
  /\ capacity < request + PageSize

(* What the call goes on with is what the request asks for.                *)
Accepted ==
  /\ request \in Requests
  /\ capacity = PageCeil(request)
  /\ ~Refused(capacity)

(* What is mapped at the steps of the call: outside the range in hand      *)
(* nothing but what munmap() refused to take back, which is never all      *)
(* free and so never chosen again.                                         *)
Clean == \A r \in Ranges \ stuck, p \in Pages : space[r][p] = Free
OthersClean == \A r \in Ranges \ stuck, p \in Pages : r # addr => space[r][p] = Free
FreeAbove == \A p \in Pages : p >= 2 * Half => space[addr][p] = Free
NotFree(range) == \E p \in Pages : space[range][p] # Free
LowerMapped == \A p \in 0 .. Half - 1 : space[addr][p] = p
UpperMapped == \A p \in Half .. 2 * Half - 1 : space[addr][p] = p - Half

InHand ==
  /\ addr \in Ranges /\ addr \notin stuck
  /\ OthersClean /\ FreeAbove /\ NotFree(addr)
StuckStay == \A r \in stuck : NotFree(r)

Opened == open = TRUE /\ fd = TRUE

Progress ==
  /\ pc \notin {"caller", "aborted"} => Rounded /\ Accepted /\ result = 0
  /\ pc \in {"mmap_lower", "mmap_upper", "close"} => capacity <= MaxCapacity
  /\ pc = "memfd_create" => open = FALSE /\ fd = FALSE
  /\ pc \in {"ftruncate", "mmap_range", "mmap_lower", "mmap_upper", "close"} => Opened
  /\ pc \in {"memfd_create", "ftruncate", "mmap_range"} => Clean /\ addr = Null
  /\ pc \in {"mmap_range", "mmap_lower", "mmap_upper", "close"} => length = capacity
  /\ pc \in {"mmap_lower", "mmap_upper", "close"} => InHand
  /\ pc = "mmap_lower" => space[addr][Half] # Free
  /\ pc \in {"mmap_upper", "close"} => LowerMapped
  /\ pc = "close" => UpperMapped
  /\ pc = "fail" => open = fd
  /\ pc \in {"fail_munmap", "caller"} => open = FALSE
  /\ pc \in {"fail", "fail_munmap"} =>
       (addr \in Ranges => InHand) /\ (addr \notin Ranges => Clean)
  /\ pc = "caller" /\ result = 0 => Clean
  /\ pc = "caller" /\ result # 0 =>
       /\ Rounded /\ result = 2 * capacity
       /\ InHand /\ LowerMapped /\ UpperMapped /\ length = capacity
  /\ StuckStay
  /\ asserts /\ pc # "aborted" => stuck = {}

IInv == TypeOK /\ Progress

-----------------------------------------------------------------------------
(* Both halves of a rounded capacity lie in the address space.             *)
LEMMA HalvesArePages ==
  ASSUME capacity \in Nat, Rounded
  PROVE  \A i \in Nat : i < 2 * Half => i \in Pages
<1> USE PageAssumption
<1>1. PICK m, r \in Nat : m = SizeModulus \div PageSize /\ r = SizeModulus % PageSize
                          /\ SizeModulus = PageSize * m + r /\ r < PageSize
  <2>1. SizeModulus \in Nat /\ PageSize \in Nat \ {0}
    OBVIOUS
  <2> QED
    BY <2>1, DivMod, Zenon
<1>2. r = 0
  BY <1>1
<1>3. PICK h \in Nat : h = Half
  BY DEF Rounded
<1>4. PageSize * (2 * h) = 2 * capacity
  BY <1>3 DEF Rounded
<1>5. PageSize * (2 * h) < PageSize * m
  BY <1>1, <1>2, <1>4 DEF Rounded
<1>6. 2 * h < m
  BY <1>5, NextMultiple
<1>7. Pages = 0 .. m - 1
  BY <1>1 DEF Pages
<1> QED
  BY <1>3, <1>6, <1>7

LEMMA PagesAreNat == \A p \in Pages : p \in Nat
  BY PageAssumption, QuotientAndRest DEF Pages

LEMMA HalfIsPage ==
  ASSUME capacity \in Nat, Rounded
  PROVE  Half \in Pages /\ 0 \in Pages
  BY HalvesArePages DEF Rounded

(* What the invariant says of the address space and of the capacity does   *)
(* not change while they do not.                                           *)
LEMMA SameSpace ==
  ASSUME UNCHANGED <<space, stuck>>
  PROVE  Clean' = Clean /\ StuckStay' = StuckStay
  BY DEF Clean, StuckStay, NotFree, Pages

LEMMA SameRange ==
  ASSUME UNCHANGED <<capacity, addr, space, stuck>>
  PROVE  /\ InHand' = InHand
         /\ LowerMapped' = LowerMapped /\ UpperMapped' = UpperMapped
         /\ (space[addr][Half])' = space[addr][Half]
<1>1. OthersClean' = OthersClean /\ FreeAbove' = FreeAbove /\ Half' = Half
  BY DEF OthersClean, FreeAbove, Half, Pages
<1>2. NotFree(addr)' = NotFree(addr)
  BY DEF NotFree, Pages
<1> QED
  BY <1>1, <1>2 DEF InHand, LowerMapped, UpperMapped

(* A range that is changed is one among others, which stay.                *)
LEMMA OneRange ==
  ASSUME TypeOK, NEW range \in Ranges, NEW f,
         space' = [space EXCEPT ![range] = f]
  PROVE  /\ space'[range] = f
         /\ \A r \in Ranges : r # range => space'[r] = space[r]
  BY DEF TypeOK

LEMMA SameCapacity ==
  ASSUME UNCHANGED <<request, capacity>>
  PROVE  Rounded' = Rounded /\ Half' = Half /\ Accepted' = Accepted
  BY DEF Rounded, Half, Accepted

LEMMA InitInvariant == Init => IInv
<1> SUFFICES ASSUME Init PROVE IInv
  OBVIOUS
<1>1. 0 \in 0 .. SizeModulus - 1
  BY PageAssumption
<1>2. space \in [Ranges -> [Pages -> {Free, Anonymous} \cup Pages]] /\ Clean
  BY DEF Init, Clean
<1>3. TypeOK
  BY <1>1, <1>2, BuildsAssumption DEF Init, TypeOK
<1>4. Progress
  BY <1>2 DEF Init, Progress, StuckStay
<1> QED
  BY <1>3, <1>4 DEF IInv

LEMMA MemfdCreateInvariant == IInv /\ MemfdCreate => IInv'
<1> SUFFICES ASSUME IInv, MemfdCreate PROVE IInv'
  OBVIOUS
<1>1. TypeOK'
  <2>1. fd' \in BOOLEAN /\ open' \in BOOLEAN
    BY DEF IInv, TypeOK, MemfdCreate
  <2>2. length' \in 0 .. SizeModulus - 1
    BY PageAssumption DEF IInv, TypeOK, MemfdCreate
  <2> QED
    BY <2>1, <2>2 DEF IInv, TypeOK, MemfdCreate, Pages
<1>2. /\ Clean' = Clean /\ StuckStay' = StuckStay
      /\ Rounded' = Rounded /\ Accepted' = Accepted
  BY SameSpace, SameCapacity DEF MemfdCreate
<1>3. Progress'
  BY <1>2 DEF IInv, Progress, MemfdCreate, Opened
<1> QED
  BY <1>1, <1>3 DEF IInv

LEMMA FtruncateInvariant == IInv /\ Ftruncate => IInv'
<1> SUFFICES ASSUME IInv, Ftruncate PROVE IInv'
  OBVIOUS
<1>1. TypeOK'
  BY PageAssumption DEF IInv, TypeOK, Ftruncate, locals, Pages
<1>2. /\ Clean' = Clean /\ StuckStay' = StuckStay
      /\ Rounded' = Rounded /\ Accepted' = Accepted
  BY SameSpace, SameCapacity DEF Ftruncate, locals
<1>3. addr' = Null /\ addr' \notin Ranges
  BY AddressAssumption DEF IInv, Progress, Ftruncate, locals
<1>4. Progress'
  BY <1>2, <1>3 DEF IInv, Progress, Ftruncate, Opened, locals
<1> QED
  BY <1>1, <1>4 DEF IInv

LEMMA CloseInvariant == IInv /\ Close => IInv'
<1> SUFFICES ASSUME IInv, Close PROVE IInv'
  OBVIOUS
<1>1. Rounded
  BY DEF IInv, Progress, Close
<1>2. TypeOK'
  <2>1. result' \in 0 .. SizeModulus - 1
    BY <1>1, PageAssumption DEF IInv, TypeOK, Close, Rounded
  <2>2. fd' \in BOOLEAN /\ open' \in BOOLEAN /\ pc' \in {"caller", "fail"}
    BY DEF IInv, TypeOK, Close
  <2> QED
    BY <2>1, <2>2 DEF IInv, TypeOK, Close, Pages
<1>3. /\ Rounded' = Rounded /\ Accepted' = Accepted
      /\ InHand' = InHand /\ StuckStay' = StuckStay
      /\ LowerMapped' = LowerMapped /\ UpperMapped' = UpperMapped
  BY SameSpace, SameRange, SameCapacity DEF Close
<1>4. 2 * capacity # 0
  BY <1>1, PageAssumption DEF Rounded
<1>5. InHand => addr \in Ranges
  BY DEF InHand
<1>6. Progress'
  BY <1>1, <1>3, <1>4, <1>5 DEF IInv, Progress, Close, Opened
<1> QED
  BY <1>2, <1>6 DEF IInv

LEMMA FailCloseInvariant == IInv /\ FailClose => IInv'
<1> SUFFICES ASSUME IInv, FailClose PROVE IInv'
  OBVIOUS
<1>1. pc' \in {"fail_munmap", "aborted"} /\ open' = FALSE
  BY DEF IInv, TypeOK, Progress, FailClose, AfterFailure
<1>2. TypeOK'
  BY <1>1 DEF IInv, TypeOK, FailClose, locals, Pages
<1>3. /\ Clean' = Clean /\ StuckStay' = StuckStay /\ InHand' = InHand
      /\ Rounded' = Rounded /\ Accepted' = Accepted
  BY SameSpace, SameRange, SameCapacity DEF FailClose, locals
<1>4. Progress'
  BY <1>1, <1>3 DEF IInv, Progress, FailClose, locals
<1> QED
  BY <1>2, <1>4 DEF IInv

LEMMA CallInvariant == \A n \in Requests : IInv /\ Call(n) => IInv'
<1> SUFFICES ASSUME NEW n \in Requests, IInv, Call(n) PROVE IInv'
  OBVIOUS
<1>1. n \in 0 .. SizeModulus - 1
  BY RequestsAssumption
<1>2. TypeOK'
  <2>1. capacity' \in 0 .. SizeModulus - 1
    BY <1>1, CeilInRange DEF Call
  <2>2. fd' \in BOOLEAN /\ pc' \in {"caller", "memfd_create"}
    BY DEF Call
  <2> QED
    BY <2>1, <2>2 DEF IInv, TypeOK, Call, system, Pages
<1>3. Clean' = Clean /\ StuckStay' = StuckStay
  BY SameSpace DEF Call, system
<1>4. ~Refused(PageCeil(n)) => Rounded'
  <2> SUFFICES ASSUME ~Refused(PageCeil(n)) PROVE Rounded'
    OBVIOUS
  <2>1. PICK h \in Nat \ {0} : /\ PageCeil(n) = PageSize * h
                               /\ n <= PageSize * h /\ PageSize * h < n + PageSize
                               /\ 2 * (PageSize * h) < SizeModulus
    BY <1>1, CeilRounds
  <2>2. capacity' = PageSize * h /\ request' = n
    BY <2>1 DEF Call
  <2>3. (PageSize * h) \div PageSize = h
    BY PageAssumption, QuotientOfProduct
  <2>4. Half' = h
    BY <2>2, <2>3 DEF Half
  <2> QED
    BY <2>1, <2>2, <2>4 DEF Rounded
<1>5. ~Refused(PageCeil(n)) => Accepted'
  BY DEF Call, Accepted
<1>6. Progress'
  BY <1>3, <1>4, <1>5 DEF IInv, Progress, Call, system
<1> QED
  BY <1>2, <1>6 DEF IInv

(* The range that the kernel chooses is free, so it is none that was left; *)
(* it is then the only one that shows anything.                            *)
LEMMA MmapRangeInvariant == IInv /\ MmapRange => IInv'
<1> SUFFICES ASSUME IInv, MmapRange PROVE IInv'
  OBVIOUS
<1>1. /\ Rounded /\ Accepted /\ Clean /\ StuckStay /\ TypeOK
      /\ length = capacity /\ Opened /\ result = 0 /\ (asserts => stuck = {})
  BY DEF IInv, Progress, MmapRange
<1>2. Rounded' = Rounded /\ Half' = Half /\ Accepted' = Accepted
  BY SameCapacity DEF MmapRange
<1>h. Half \in Nat \ {0} /\ Half \in Pages
  BY <1>1, HalfIsPage DEF Rounded, TypeOK
<1>3. CASE addr' = MapFailed /\ pc' = "fail" /\ UNCHANGED space
  <2>1. Clean' = Clean /\ StuckStay' = StuckStay
    BY <1>3, SameSpace DEF MmapRange
  <2>2. TypeOK'
    BY <1>1, <1>3 DEF TypeOK, MmapRange, Pages
  <2>3. Progress'
    BY <1>1, <1>2, <1>3, <2>1, AddressAssumption DEF Progress, MmapRange, Opened
  <2> QED
    BY <2>2, <2>3 DEF IInv
<1>4. ASSUME NEW range \in Ranges, IsFree(range), addr' = range, pc' = "mmap_lower",
             capacity <= MaxCapacity,
             space' = Mapped(range, 0, 2 * Half, LAMBDA p : Anonymous)
      PROVE  IInv'
  <2> DEFINE f == [p \in Pages |-> IF p \in 0 .. 0 + 2 * Half - 1 THEN Anonymous
                                   ELSE space[range][p]]
  <2>1. /\ space' = [space EXCEPT ![range] = f]
        /\ f \in [Pages -> {Free, Anonymous} \cup Pages]
    BY <1>1, <1>4 DEF Mapped, TypeOK
  <2>2. /\ space'[range] = f
        /\ \A r \in Ranges : r # range => space'[r] = space[r]
    BY <1>1, <2>1, OneRange
  <2> HIDE DEF f
  <2>3. range \notin stuck
    BY <1>1, <1>4 DEF StuckStay, NotFree, IsFree
  <2>4. FreeAbove'
    <3>1. \A p \in Pages : p >= 2 * Half => p \notin 0 .. 0 + 2 * Half - 1
      BY <1>h, PagesAreNat
    <3>2. \A p \in Pages : p >= 2 * Half => f[p] = Free
      BY <1>4, <3>1 DEF IsFree, f
    <3> QED
      BY <1>2, <1>4, <2>2, <3>2 DEF FreeAbove, Pages
  <2>5. space'[range][Half] # Free
    BY <1>h, <2>2 DEF Anonymous, Free, f
  <2>6. OthersClean'
    <3>1. stuck' = stuck
      BY DEF MmapRange
    <3>2. \A r \in Ranges \ stuck, p \in Pages : r # range => space'[r][p] = Free
      BY <1>1, <2>2 DEF Clean
    <3> QED
      BY <1>4, <3>1, <3>2 DEF OthersClean
  <2>7. NotFree(addr)'
    BY <1>4, <1>h, <2>5 DEF NotFree, Pages
  <2>8. StuckStay'
    BY <1>1, <2>2, <2>3 DEF StuckStay, NotFree, MmapRange, TypeOK, Pages
  <2>9. InHand'
    BY <1>4, <2>3, <2>4, <2>6, <2>7 DEF InHand, MmapRange
  <2>10. TypeOK'
    <3>1. space' \in [Ranges -> [Pages -> {Free, Anonymous} \cup Pages]]
      BY <1>1, <2>1 DEF TypeOK
    <3> QED
      BY <1>1, <1>4, <3>1 DEF TypeOK, MmapRange, Pages
  <2>11. (space[addr][Half] # Free)'
    BY <1>2, <1>4, <2>5
  <2>12. Progress'
    BY <1>1, <1>2, <1>4, <2>8, <2>9, <2>11 DEF Progress, MmapRange, Opened
  <2> QED
    BY <2>10, <2>12 DEF IInv
<1> QED
  BY <1>3, <1>4 DEF MmapRange

(* What the steps within the range in hand leave alone: what is outside,   *)
(* and what is above both halves.                                          *)
LEMMA WithinRange ==
  ASSUME TypeOK, InHand, StuckStay, NEW f,
         space' = [space EXCEPT ![addr] = f],
         f \in [Pages -> {Free, Anonymous} \cup Pages],
         \A p \in Pages : p >= 2 * Half => f[p] = Free,
         UNCHANGED <<capacity, addr, stuck>>
  PROVE  /\ space'[addr'] = f
         /\ space' \in [Ranges -> [Pages -> {Free, Anonymous} \cup Pages]]
         /\ OthersClean' /\ FreeAbove' /\ StuckStay'
         /\ Half' = Half /\ addr' = addr
<1>1. addr \in Ranges /\ addr \notin stuck /\ OthersClean
  BY DEF InHand
<1>2. /\ space'[addr] = f
      /\ \A r \in Ranges : r # addr => space'[r] = space[r]
  BY <1>1, OneRange
<1>3. space' \in [Ranges -> [Pages -> {Free, Anonymous} \cup Pages]]
  BY <1>1 DEF TypeOK
<1>4. Half' = Half
  BY DEF Half
<1>5. OthersClean'
  BY <1>1, <1>2 DEF OthersClean, Pages
<1>6. FreeAbove'
  BY <1>2, <1>4 DEF FreeAbove, Pages
<1>7. StuckStay'
  BY <1>1, <1>2 DEF StuckStay, NotFree, TypeOK, Pages
<1> QED
  BY <1>2, <1>3, <1>4, <1>5, <1>6, <1>7

(* The upper half is still reserved when the lower one is mapped, and the  *)
(* lower one mapped when the upper one is: the range is never all free.    *)
LEMMA MmapLowerInvariant == IInv /\ MmapLower => IInv'
<1> SUFFICES ASSUME IInv, MmapLower PROVE IInv'
  OBVIOUS
<1>1. /\ Rounded /\ Accepted /\ InHand /\ StuckStay /\ TypeOK /\ capacity <= MaxCapacity
      /\ length = capacity /\ Opened /\ result = 0 /\ (asserts => stuck = {})
      /\ space[addr][Half] # Free
  BY DEF IInv, Progress, MmapLower
<1>2. /\ Rounded' = Rounded /\ Half' = Half /\ Accepted' = Accepted
      /\ addr' = addr /\ addr \in Ranges /\ FreeAbove
  BY <1>1, SameCapacity DEF MmapLower, locals, InHand
<1>h. /\ Half \in Nat \ {0} /\ Half \in Pages /\ Half \notin 0 .. 0 + Half - 1
      /\ \A p \in 0 .. Half - 1 : p \in Pages
      /\ \A p \in Pages : p >= 2 * Half => p \notin 0 .. 0 + Half - 1
  <2>1. Half \in Nat \ {0} /\ Half \in Pages /\ \A i \in Nat : i < 2 * Half => i \in Pages
    BY <1>1, HalfIsPage, HalvesArePages DEF Rounded, TypeOK
  <2> QED
    BY <2>1, PagesAreNat
<1>3. ASSUME NEW f, space' = [space EXCEPT ![addr] = f],
             f \in [Pages -> {Free, Anonymous} \cup Pages],
             \A p \in Pages : p \notin 0 .. 0 + Half - 1 => f[p] = space[addr][p],
             \/ pc' = "mmap_upper" /\ \A p \in 0 .. Half - 1 : f[p] = p
             \/ pc' = "fail"
      PROVE  IInv'
  <2>1. \A p \in Pages : p >= 2 * Half => f[p] = Free
    BY <1>2, <1>3, <1>h DEF FreeAbove
  <2>2. /\ space'[addr'] = f
        /\ space' \in [Ranges -> [Pages -> {Free, Anonymous} \cup Pages]]
        /\ OthersClean' /\ FreeAbove' /\ StuckStay'
    BY <1>1, <1>3, <2>1, WithinRange DEF MmapLower, locals
  <2>3. NotFree(addr)'
    BY <1>1, <1>2, <1>3, <1>h, <2>2 DEF NotFree, Pages
  <2>4. InHand'
    BY <1>1, <1>2, <2>2, <2>3 DEF InHand, MmapLower
  <2>5. pc' = "mmap_upper" => LowerMapped'
    BY <1>2, <1>3, <2>2 DEF LowerMapped
  <2>6. TypeOK'
    BY <1>1, <1>3, <2>2 DEF TypeOK, MmapLower, locals, Pages
  <2>7. Progress'
    BY <1>1, <1>2, <1>3, <2>2, <2>4, <2>5 DEF Progress, MmapLower, Opened, locals
  <2> QED
    BY <2>6, <2>7 DEF IInv
<1>4. CASE pc' = "mmap_upper" /\ space' = Mapped(addr, 0, Half, LAMBDA p : p)
  <2> DEFINE f == [p \in Pages |-> IF p \in 0 .. 0 + Half - 1 THEN p ELSE space[addr][p]]
  <2>1. space' = [space EXCEPT ![addr] = f]
    BY <1>4, <1>2, <1>1 DEF Mapped, TypeOK
  <2>2. f \in [Pages -> {Free, Anonymous} \cup Pages]
    BY <1>1, <1>2 DEF TypeOK
  <2>3. \A p \in 0 .. Half - 1 : f[p] = p
    BY <1>h
  <2> QED
    BY <1>3, <1>4, <2>1, <2>2, <2>3
<1>5. CASE pc' = "fail" /\ space' = Mapped(addr, 0, Half, LAMBDA p : Free)
  <2> DEFINE f == [p \in Pages |-> IF p \in 0 .. 0 + Half - 1 THEN Free ELSE space[addr][p]]
  <2>1. space' = [space EXCEPT ![addr] = f]
    BY <1>5, <1>2, <1>1 DEF Mapped, TypeOK
  <2>2. f \in [Pages -> {Free, Anonymous} \cup Pages]
    BY <1>1, <1>2 DEF TypeOK
  <2> QED
    BY <1>3, <1>5, <2>1, <2>2
<1>6. CASE pc' = "fail" /\ UNCHANGED space
  <2>1. /\ space' = [space EXCEPT ![addr] = space[addr]]
        /\ space[addr] \in [Pages -> {Free, Anonymous} \cup Pages]
    BY <1>6, <1>2, <1>1 DEF TypeOK
  <2> QED
    BY <1>3, <1>6, <2>1
<1> QED
  BY <1>4, <1>5, <1>6 DEF MmapLower, FailedFixed

LEMMA MmapUpperInvariant == IInv /\ MmapUpper => IInv'
<1> SUFFICES ASSUME IInv, MmapUpper PROVE IInv'
  OBVIOUS
<1>1. /\ Rounded /\ Accepted /\ InHand /\ StuckStay /\ TypeOK /\ capacity <= MaxCapacity
      /\ length = capacity /\ Opened /\ result = 0 /\ (asserts => stuck = {})
      /\ LowerMapped
  BY DEF IInv, Progress, MmapUpper
<1>2. /\ Rounded' = Rounded /\ Half' = Half /\ Accepted' = Accepted
      /\ addr' = addr /\ addr \in Ranges /\ FreeAbove
  BY <1>1, SameCapacity DEF MmapUpper, locals, InHand
<1>h. /\ Half \in Nat \ {0} /\ 0 \in Pages /\ 0 \notin Half .. Half + Half - 1
      /\ \A p \in Half .. Half + Half - 1 : p \in Pages /\ p - Half \in Pages
      /\ \A p \in 0 .. Half - 1 : p \in Pages /\ p \notin Half .. Half + Half - 1
      /\ \A p \in Pages : p >= 2 * Half => p \notin Half .. Half + Half - 1
  <2>1. /\ Half \in Nat \ {0} /\ 0 \in Pages
        /\ \A i \in Nat : i < 2 * Half => i \in Pages
    BY <1>1, HalfIsPage, HalvesArePages DEF Rounded, TypeOK
  <2> QED
    BY <2>1, PagesAreNat
<1>3. ASSUME NEW f, space' = [space EXCEPT ![addr] = f],
             f \in [Pages -> {Free, Anonymous} \cup Pages],
             \A p \in Pages : p \notin Half .. Half + Half - 1 => f[p] = space[addr][p],
             \/ pc' = "close" /\ \A p \in Half .. Half + Half - 1 : f[p] = p - Half
             \/ pc' = "fail"
      PROVE  IInv'
  <2>1. \A p \in Pages : p >= 2 * Half => f[p] = Free
    BY <1>2, <1>3, <1>h DEF FreeAbove
  <2>2. /\ space'[addr'] = f
        /\ space' \in [Ranges -> [Pages -> {Free, Anonymous} \cup Pages]]
        /\ OthersClean' /\ FreeAbove' /\ StuckStay'
    BY <1>1, <1>3, <2>1, WithinRange DEF MmapUpper, locals
  <2>3. LowerMapped'
    BY <1>1, <1>2, <1>3, <1>h, <2>2 DEF LowerMapped
  <2>4. f[0] = 0 /\ 0 # Free
    BY <1>1, <1>3, <1>h DEF LowerMapped, Free
  <2>5. NotFree(addr)'
    BY <1>2, <1>h, <2>2, <2>4 DEF NotFree, Pages
  <2>6. InHand'
    BY <1>1, <1>2, <2>2, <2>5 DEF InHand, MmapUpper
  <2>7. pc' = "close" => UpperMapped'
    BY <1>2, <1>3, <1>h, <2>2 DEF UpperMapped
  <2>8. TypeOK'
    BY <1>1, <1>3, <2>2 DEF TypeOK, MmapUpper, locals, Pages
  <2>9. Progress'
    BY <1>1, <1>2, <1>3, <2>2, <2>3, <2>6, <2>7 DEF Progress, MmapUpper, Opened, locals
  <2> QED
    BY <2>8, <2>9 DEF IInv
<1>4. CASE pc' = "close" /\ space' = Mapped(addr, Half, Half, LAMBDA p : p - Half)
  <2> DEFINE f == [p \in Pages |-> IF p \in Half .. Half + Half - 1 THEN p - Half
                                   ELSE space[addr][p]]
  <2>1. space' = [space EXCEPT ![addr] = f]
    BY <1>4, <1>2, <1>1 DEF Mapped, TypeOK
  <2>2. f \in [Pages -> {Free, Anonymous} \cup Pages]
    BY <1>1, <1>2, <1>h DEF TypeOK
  <2>3. \A p \in Half .. Half + Half - 1 : f[p] = p - Half
    BY <1>h
  <2> QED
    BY <1>3, <1>4, <2>1, <2>2, <2>3
<1>5. CASE pc' = "fail" /\ space' = Mapped(addr, Half, Half, LAMBDA p : Free)
  <2> DEFINE f == [p \in Pages |-> IF p \in Half .. Half + Half - 1 THEN Free
                                   ELSE space[addr][p]]
  <2>1. space' = [space EXCEPT ![addr] = f]
    BY <1>5, <1>2, <1>1 DEF Mapped, TypeOK
  <2>2. f \in [Pages -> {Free, Anonymous} \cup Pages]
    BY <1>1, <1>2 DEF TypeOK
  <2> QED
    BY <1>3, <1>5, <2>1, <2>2
<1>6. CASE pc' = "fail" /\ UNCHANGED space
  <2>1. /\ space' = [space EXCEPT ![addr] = space[addr]]
        /\ space[addr] \in [Pages -> {Free, Anonymous} \cup Pages]
    BY <1>6, <1>2, <1>1 DEF TypeOK
  <2> QED
    BY <1>3, <1>6, <2>1
<1> QED
  BY <1>4, <1>5, <1>6 DEF MmapUpper, FailedFixed

(* Giving back both halves leaves nothing mapped but what is stuck.        *)
LEMMA NothingLeft ==
  ASSUME TypeOK, Rounded, InHand, StuckStay, stuck' = stuck,
         space' = Mapped(addr, 0, 2 * Half, LAMBDA p : Free)
  PROVE  /\ Clean' /\ StuckStay'
         /\ space' \in [Ranges -> [Pages -> {Free, Anonymous} \cup Pages]]
<1> DEFINE f == [p \in Pages |-> IF p \in 0 .. 0 + 2 * Half - 1 THEN Free ELSE space[addr][p]]
<1>1. addr \in Ranges /\ addr \notin stuck /\ OthersClean /\ FreeAbove
  BY DEF InHand
<1>2. space' = [space EXCEPT ![addr] = f]
  BY <1>1 DEF Mapped, TypeOK
<1>3. \A p \in Pages : p \in 0 .. 0 + 2 * Half - 1 \/ p >= 2 * Half
  BY PagesAreNat DEF Rounded
<1>4. \A p \in Pages : f[p] = Free
  BY <1>1, <1>3 DEF FreeAbove
<1> HIDE DEF f
<1>5. /\ space'[addr] = f
      /\ \A r \in Ranges : r # addr => space'[r] = space[r]
  BY <1>1, <1>2, OneRange
<1>6. Clean'
  <2>1. \A r \in Ranges \ stuck, p \in Pages : r # addr => space'[r][p] = Free
    BY <1>1, <1>5 DEF OthersClean
  <2>2. \A r \in Ranges \ stuck, p \in Pages : space'[r][p] = Free
    BY <1>4, <1>5, <2>1, Zenon
  <2> QED
    BY <2>2 DEF Clean
<1>7. StuckStay'
  BY <1>1, <1>5 DEF StuckStay, NotFree, TypeOK, Pages
<1>8. f \in [Pages -> {Free, Anonymous} \cup Pages]
  BY <1>4 DEF f
<1> QED
  BY <1>1, <1>2, <1>6, <1>7, <1>8 DEF TypeOK

(* A range that munmap() refuses is counted among what is stuck.           *)
LEMMA RefusedStays ==
  ASSUME InHand, StuckStay, UNCHANGED space, stuck' = stuck \cup {addr}
  PROVE  Clean' /\ StuckStay'
<1>1. NotFree(addr)
  BY DEF InHand
<1> QED
  BY <1>1 DEF InHand, OthersClean, Clean, StuckStay, NotFree, Pages

LEMMA FailMunmapInvariant == IInv /\ FailMunmap => IInv'
<1> SUFFICES ASSUME IInv, FailMunmap PROVE IInv'
  OBVIOUS
<1>1. /\ TypeOK /\ Rounded /\ result = 0 /\ open = FALSE /\ StuckStay
      /\ addr \in Ranges => InHand
      /\ addr \notin Ranges => Clean
      /\ asserts => stuck = {}
      /\ UNCHANGED <<asserts, request, capacity, fd, addr, result, open, length>>
  BY DEF IInv, Progress, FailMunmap, locals
<1>2. ASSUME Clean', StuckStay', pc' \in {"caller", "aborted"},
             asserts /\ pc' # "aborted" => stuck' = {},
             stuck' \in {stuck, stuck \cup {addr}}, stuck' = stuck \/ addr \in Ranges,
             space' \in [Ranges -> [Pages -> {Free, Anonymous} \cup Pages]]
      PROVE  IInv'
  <2>1. TypeOK'
    BY <1>1, <1>2 DEF TypeOK, Pages
  <2>2. Progress'
    BY <1>1, <1>2 DEF Progress
  <2> QED
    BY <2>1, <2>2 DEF IInv
<1>3. CASE addr \notin {Null, MapFailed} /\ pc' = "caller" /\ UNCHANGED stuck
           /\ space' = Mapped(addr, 0, 2 * Half, LAMBDA p : Free)
  <2>1. InHand
    BY <1>1, <1>3 DEF TypeOK
  <2> QED
    BY <1>1, <1>2, <1>3, <2>1, NothingLeft
<1>4. CASE addr \notin {Null, MapFailed} /\ pc' = AfterFailure("caller")
           /\ stuck' = stuck \cup {addr} /\ UNCHANGED space
  <2>1. InHand /\ addr \in Ranges
    BY <1>1, <1>4 DEF TypeOK
  <2>2. Clean' /\ StuckStay'
    BY <1>1, <1>4, <2>1, RefusedStays
  <2> QED
    BY <1>1, <1>2, <1>4, <2>1, <2>2 DEF AfterFailure, TypeOK
<1>5. CASE addr \in {Null, MapFailed} /\ pc' = "caller" /\ UNCHANGED <<space, stuck>>
  BY <1>1, <1>2, <1>5, SameSpace, AddressAssumption DEF TypeOK
<1> QED
  BY <1>3, <1>4, <1>5 DEF FailMunmap

LEMMA DestroyInvariant == IInv /\ Destroy => IInv'
<1> SUFFICES ASSUME IInv, Destroy PROVE IInv'
  OBVIOUS
<1>1. /\ TypeOK /\ Rounded /\ result = 2 * capacity /\ open = FALSE
      /\ InHand /\ StuckStay /\ (asserts => stuck = {})
      /\ UNCHANGED <<asserts, request, capacity, fd, addr, open, length>> /\ result' = 0
  BY DEF IInv, TypeOK, Progress, Destroy, locals
<1>2. result \div PageSize = 2 * Half
  <2>1. PICK h \in Nat : h = Half
    BY <1>1 DEF Rounded
  <2>2. result = PageSize * (2 * h)
    BY <1>1, <2>1, PageAssumption DEF Rounded
  <2> QED
    BY <2>1, <2>2, PageAssumption, QuotientOfProduct
<1>3. ASSUME Clean', StuckStay', pc' \in {"caller", "aborted"},
             asserts /\ pc' # "aborted" => stuck' = {},
             stuck' \in {stuck, stuck \cup {addr}},
             space' \in [Ranges -> [Pages -> {Free, Anonymous} \cup Pages]]
      PROVE  IInv'
  <2>1. 0 \in 0 .. SizeModulus - 1 /\ addr \in Ranges
    BY <1>1, PageAssumption DEF InHand
  <2>2. TypeOK'
    BY <1>1, <1>3, <2>1 DEF TypeOK, Pages
  <2>3. Progress'
    BY <1>1, <1>3 DEF Progress
  <2> QED
    BY <2>2, <2>3 DEF IInv
<1>4. CASE space' = Mapped(addr, 0, result \div PageSize, LAMBDA p : Free)
           /\ UNCHANGED <<pc, stuck>>
  <2>1. space' = Mapped(addr, 0, 2 * Half, LAMBDA p : Free)
    BY <1>2, <1>4
  <2>2. pc' = "caller"
    BY <1>4 DEF Destroy
  <2> QED
    BY <1>1, <1>3, <1>4, <2>1, <2>2, NothingLeft
<1>5. CASE pc' = AfterFailure("caller") /\ stuck' = stuck \cup {addr} /\ UNCHANGED space
  <2>1. Clean' /\ StuckStay'
    BY <1>1, <1>5, RefusedStays
  <2> QED
    BY <1>1, <1>3, <1>5, <2>1 DEF AfterFailure, TypeOK
<1> QED
  BY <1>4, <1>5 DEF Destroy

LEMMA StutterInvariant == IInv /\ UNCHANGED vars => IInv'
<1> SUFFICES ASSUME IInv, UNCHANGED vars PROVE IInv'
  OBVIOUS
<1>1. TypeOK'
  BY DEF IInv, TypeOK, vars, locals, system, Pages
<1>2. /\ Rounded' = Rounded /\ Accepted' = Accepted
      /\ Clean' = Clean /\ StuckStay' = StuckStay /\ InHand' = InHand
      /\ LowerMapped' = LowerMapped /\ UpperMapped' = UpperMapped
      /\ (space[addr][Half])' = space[addr][Half]
  BY SameSpace, SameRange, SameCapacity DEF vars, locals, system
<1>3. Progress'
  BY <1>2 DEF IInv, Progress, Opened, vars, locals, system
<1> QED
  BY <1>1, <1>3 DEF IInv

(* mirror_create() and mirror_destroy() keep their inductive invariant.    *)
THEOREM CreationInvariant == Spec => []IInv
<1>1. Init => IInv
  BY InitInvariant
<1>2. IInv /\ [Next]_vars => IInv'
  <2> SUFFICES ASSUME IInv, [Next]_vars PROVE IInv'
    OBVIOUS
  <2>1. CASE \E n \in Requests : Call(n)
    BY <2>1, CallInvariant
  <2>2. CASE MemfdCreate
    BY <2>2, MemfdCreateInvariant
  <2>3. CASE Ftruncate
    BY <2>3, FtruncateInvariant
  <2>4. CASE MmapRange
    BY <2>4, MmapRangeInvariant
  <2>5. CASE MmapLower
    BY <2>5, MmapLowerInvariant
  <2>6. CASE MmapUpper
    BY <2>6, MmapUpperInvariant
  <2>7. CASE Close
    BY <2>7, CloseInvariant
  <2>8. CASE FailClose
    BY <2>8, FailCloseInvariant
  <2>9. CASE FailMunmap
    BY <2>9, FailMunmapInvariant
  <2>10. CASE Destroy
    BY <2>10, DestroyInvariant
  <2>11. CASE UNCHANGED vars
    BY <2>11, StutterInvariant
  <2> QED
    BY <2>1, <2>2, <2>3, <2>4, <2>5, <2>6, <2>7, <2>8, <2>9, <2>10, <2>11 DEF Next
<1> QED
  BY <1>1, <1>2, PTL DEF Spec

(* The state has its shape: the locals are values of size_t whatever the   *)
(* request, and what is mapped are pages of the file or the reservation.   *)
THEOREM TypeCorrect == Spec => []TypeOK
<1>1. IInv => TypeOK
  BY DEF IInv
<1> QED
  BY <1>1, CreationInvariant, PTL

(* What the invariant says of a range that was returned, in pages.         *)
LEMMA Returned ==
  ASSUME IInv, pc = "caller", result > 0
  PROVE  /\ Rounded /\ InHand /\ LowerMapped /\ UpperMapped /\ length = capacity
         /\ result = 2 * capacity
         /\ result \div PageSize = 2 * Half
         /\ \A i \in Nat : i < 2 * Half => i \in Pages
<1>1. /\ Rounded /\ InHand /\ LowerMapped /\ UpperMapped /\ length = capacity
      /\ result = 2 * capacity /\ capacity \in Nat
  BY DEF IInv, TypeOK, Progress
<1>2. PICK h \in Nat : h = Half
  BY <1>1 DEF Rounded
<1>3. result = PageSize * (2 * h)
  BY <1>1, <1>2, PageAssumption DEF Rounded
<1>4. result \div PageSize = 2 * Half
  BY <1>2, <1>3, PageAssumption, QuotientOfProduct
<1> QED
  BY <1>1, <1>4, HalvesArePages

(* Whichever system calls fail, in both builds: when control is with the   *)
(* caller, no descriptor is left, and what is mapped is the span that it   *)
(* has, all of it, and the ranges that munmap() refused to take back, of   *)
(* which a build with assertions has none and which no span is laid over.  *)
THEOREM NothingLeftBehind == Spec => []AllOrNothing
<1>1. IInv => AllOrNothing
  <2> SUFFICES ASSUME IInv, pc = "caller"
               PROVE  /\ open = FALSE
                      /\ \A r \in Ranges \ stuck, p \in Pages :
                           space[r][p] # Free <=> r = addr /\ p < result \div PageSize
                      /\ asserts => stuck = {}
                      /\ result > 0 => addr \notin stuck
    BY DEF AllOrNothing
  <2>1. open = FALSE /\ (asserts => stuck = {})
    BY DEF IInv, Progress
  <2>2. CASE result = 0
    <3>1. Clean
      BY <2>2 DEF IInv, Progress
    <3>2. result \div PageSize = 0
      BY <2>2, PageAssumption
    <3> QED
      BY <2>1, <2>2, <3>1, <3>2, PagesAreNat DEF Clean
  <2>3. CASE result > 0
    <3>1. /\ result \div PageSize = 2 * Half /\ Half \in Nat \ {0}
          /\ addr \notin stuck /\ OthersClean /\ FreeAbove /\ LowerMapped /\ UpperMapped
      BY <2>3, Returned DEF Rounded, InHand
    <3>2. ASSUME NEW p \in Pages, p < Half
          PROVE  space[addr][p] = p /\ p # Free
      BY <3>1, <3>2, PagesAreNat DEF LowerMapped, Free
    <3>3. ASSUME NEW p \in Pages, p >= Half, p < 2 * Half
          PROVE  space[addr][p] = p - Half /\ p - Half # Free
      BY <3>1, <3>3, PagesAreNat DEF UpperMapped, Free
    <3>4. ASSUME NEW p \in Pages, p >= 2 * Half
          PROVE  space[addr][p] = Free
      BY <3>1, <3>4 DEF FreeAbove
    <3>5. \A p \in Pages : space[addr][p] # Free <=> p < 2 * Half
      BY <3>1, <3>2, <3>3, <3>4, PagesAreNat
    <3>6. \A r \in Ranges \ stuck, p \in Pages :
            space[r][p] # Free <=> r = addr /\ p < 2 * Half
      BY <3>1, <3>5, Zenon DEF OthersClean
    <3> QED
      BY <2>1, <3>1, <3>6, Zenon
  <2>4. result = 0 \/ result > 0
    BY PageAssumption DEF IInv, TypeOK
  <2> QED
    BY <2>2, <2>3, <2>4, Zenon
<1> QED
  BY <1>1, CreationInvariant, PTL

(* memcmp(B, B + C, C) is 0 of a range that is returned: its two halves    *)
(* show the same pages of the file, and the file is long enough.           *)
THEOREM HalvesMirror == Spec => []BothHalvesMirror
<1>1. IInv => BothHalvesMirror
  <2> SUFFICES ASSUME IInv, pc = "caller", result > 0, NEW p \in 0 .. Half - 1
               PROVE  /\ space[addr][p] \in Pages
                      /\ space[addr][p] = space[addr][p + Half]
                      /\ (space[addr][p] + 1) * PageSize <= length
    BY DEF BothHalvesMirror
  <2>1. /\ Rounded /\ LowerMapped /\ UpperMapped /\ length = capacity
        /\ \A i \in Nat : i < 2 * Half => i \in Pages
    BY Returned
  <2>2. PICK h \in Nat \ {0} : h = Half
    BY <2>1 DEF Rounded
  <2>3. space[addr][p] = p /\ space[addr][p + Half] = p
    BY <2>1, <2>2 DEF LowerMapped, UpperMapped
  <2>4. (p + 1) * PageSize <= PageSize * h
    BY <2>2, PageAssumption, SMT
  <2> QED
    BY <2>1, <2>2, <2>3, <2>4 DEF Rounded
<1> QED
  BY <1>1, CreationInvariant, PTL

(* What is returned is the request rounded up to whole pages, although the *)
(* sum may wrap and the double overflow in size_t.                         *)
THEOREM LargeEnough == Spec => []AtLeastRequested
<1>1. IInv => AtLeastRequested
  <2> SUFFICES ASSUME IInv, pc = "caller", result > 0
               PROVE  /\ result \div 2 >= request
                      /\ (result \div 2) % PageSize = 0
                      /\ result \div 2 < request + PageSize
    BY DEF AtLeastRequested
  <2>1. Rounded /\ result = 2 * capacity /\ capacity \in Nat
    BY Returned DEF IInv, TypeOK
  <2>2. result \div 2 = capacity
    BY <2>1
  <2>3. capacity % PageSize = 0
    BY <2>1, PageAssumption, QuotientOfProduct DEF Rounded
  <2> QED
    BY <2>1, <2>2, <2>3 DEF Rounded
<1> QED
  BY <1>1, CreationInvariant, PTL

-----------------------------------------------------------------------------
(* Close returns the range that one step may create.                       *)
LEMMA CloseCreates ==
  ASSUME IInv, Close, result' # result
  PROVE  AtOnce!Create
<1>1. /\ result = 0 /\ result' = 2 * capacity
      /\ Accepted /\ capacity <= MaxCapacity
  BY DEF IInv, Progress, Close
<1>2. AtOnce!Creatable(request)
  BY <1>1 DEF Accepted, AtOnce!Creatable, AtOnce!Refused, AtOnce!PageCeil, Refused, PageCeil
<1>3. result' = 2 * AtOnce!PageCeil(request)
  BY <1>1 DEF Accepted, AtOnce!PageCeil, PageCeil
<1> QED
  BY <1>1, <1>2, <1>3 DEF Accepted, AtOnce!Create

(* What the buffer takes for one step each is what the sequences of system *)
(* calls amount to.                                                        *)
THEOREM ImplementsAtOnce == Spec => CreatesAtOnce
<1>1. Init => AtOnce!Init
  BY DEF Init, AtOnce!Init
<1>2. IInv /\ [Next]_vars => [AtOnce!Next]_result
  <2> SUFFICES ASSUME IInv, [Next]_vars, result' # result PROVE AtOnce!Next
    OBVIOUS
  <2>1. CASE Close
    BY <2>1, CloseCreates DEF AtOnce!Next
  <2>2. CASE Destroy
    BY <2>2 DEF Destroy, AtOnce!Next, AtOnce!Destroy
  <2>3. Close \/ Destroy
    BY DEF Next, Call, MemfdCreate, Ftruncate, MmapRange, MmapLower, MmapUpper,
           FailClose, FailMunmap, vars, locals
  <2> QED
    BY <2>1, <2>2, <2>3
<1> QED
  BY <1>1, <1>2, CreationInvariant, PTL DEF Spec, CreatesAtOnce, AtOnce!Spec
=============================================================================
