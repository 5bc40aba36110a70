---------------------------- MODULE MirrorCreate ----------------------------
(***************************************************************************)
(* MirroredRingBuffer::mirror_create() and mirror_destroy(), one system    *)
(* call per step: a temporary file is mapped twice, back to back, over a   *)
(* reserved address range.  Any call may fail; what was obtained before it *)
(* is then given back at the label fail.  Module MirroredRingBuffer takes  *)
(* the whole as one step.                                                  *)
(*                                                                         *)
(* space is the address space, in ranges that mmap() may choose, page by   *)
(* page: what a page shows is a page of the file, the anonymous            *)
(* reservation, or nothing.  A failing call of the clean-up is an          *)
(* assertion failure; a build without assertions ignores it, and the range *)
(* stays mapped.                                                           *)
(***************************************************************************)
EXTENDS RingPointers

CONSTANTS
  Requests,   (* the capacities that buffers are constructed with          *)
  Ranges,     (* the address ranges that there are                         *)
  Null,       (* the null address                                          *)
  MapFailed,  (* MAP_FAILED                                                *)
  Builds      (* subset of BOOLEAN: are assertions compiled in?            *)

ASSUME RequestsAssumption == Requests \subseteq 0 .. SizeModulus - 1
ASSUME AddressAssumption == Null \notin Ranges /\ MapFailed \notin Ranges
ASSUME BuildsAssumption == Builds \subseteq BOOLEAN

VARIABLES
  asserts,   (* this build has assertions                                  *)
  pc,        (* the system call that comes next, or where control is       *)
  request,   (* the argument of the call in progress, or of the last one   *)
  capacity,  (* the local of that name, after rounding                     *)
  fd,        (* the local fd is not -1                                     *)
  addr,      (* the local addr; a span that is returned starts there       *)
  result,    (* size of the span returned; 0 when its data() is null       *)
  open,      (* the process has the file descriptor open                   *)
  length,    (* length of the file                                         *)
  space,     (* [Ranges -> [Pages -> what is mapped there]]                *)
  stuck      (* history: the ranges for which munmap() reported an error   *)

locals == <<request, capacity, fd, addr>>
system == <<open, length, space>>
vars == <<asserts, pc, locals, result, system, stuck>>

Pages == 0 .. (SizeModulus \div PageSize) - 1
Free == -2
Anonymous == -1

(* The operands of mmap() and munmap(), in pages: all lengths are whole    *)
(* pages by then.                                                          *)
Half == capacity \div PageSize
Mapped(range, from, count, What(_)) ==
  [space EXCEPT ![range] =
     [p \in Pages |-> IF p \in from .. from + count - 1 THEN What(p) ELSE @[p]]]

IsFree(range) == \A p \in Pages : space[range][p] = Free

Init ==
  /\ asserts \in Builds
  /\ pc = "caller"
  /\ request = 0
  /\ capacity = 0
  /\ fd = FALSE
  /\ addr = Null
  /\ result = 0
  /\ open = FALSE
  /\ length = 0
  /\ space = [r \in Ranges |-> [p \in Pages |-> Free]]
  /\ stuck = {}

(* The capacity is rounded up; what cannot be doubled in size_t is refused *)
(* before any system call.                                                 *)
Call(n) ==
  /\ pc = "caller" /\ result = 0
  /\ request' = n
  /\ capacity' = PageCeil(n)
  /\ fd' = FALSE
  /\ addr' = Null
  /\ pc' = IF Refused(capacity') THEN "caller" ELSE "memfd_create"
  /\ UNCHANGED <<asserts, result, system, stuck>>

MemfdCreate ==
  /\ pc = "memfd_create"
  /\ \/ /\ fd' = TRUE /\ open' = TRUE /\ length' = 0
        /\ pc' = "ftruncate"
     \/ /\ pc' = "caller"
        /\ UNCHANGED <<fd, open, length>>
  /\ UNCHANGED <<asserts, request, capacity, addr, result, space, stuck>>

(* The argument is a signed off_t.                                         *)
Ftruncate ==
  /\ pc = "ftruncate"
  /\ \/ /\ capacity < SizeModulus \div 2
        /\ length' = capacity
        /\ pc' = "mmap_range"
     \/ /\ pc' = "fail"
        /\ UNCHANGED length
  /\ UNCHANGED <<asserts, locals, result, open, space, stuck>>

MmapRange ==
  /\ pc = "mmap_range"
  /\ \/ /\ capacity <= MaxCapacity
        /\ \E range \in Ranges :
             /\ IsFree(range)
             /\ addr' = range
             /\ space' = Mapped(range, 0, 2 * Half, LAMBDA p : Anonymous)
        /\ pc' = "mmap_lower"
     \/ /\ addr' = MapFailed
        /\ pc' = "fail"
        /\ UNCHANGED space
  /\ UNCHANGED <<asserts, request, capacity, fd, result, open, length, stuck>>

(* A MAP_FIXED call that fails may already have dropped what was there.    *)
FailedFixed(from) ==
  /\ \/ UNCHANGED space
     \/ space' = Mapped(addr, from, Half, LAMBDA p : Free)
  /\ pc' = "fail"

MmapLower ==
  /\ pc = "mmap_lower"
  /\ \/ /\ space' = Mapped(addr, 0, Half, LAMBDA p : p)
        /\ pc' = "mmap_upper"
     \/ FailedFixed(0)
  /\ UNCHANGED <<asserts, locals, result, open, length, stuck>>

(* Mutant: the second mapping continues the file instead of repeating it. *)
MmapUpper_NextOffset ==
  /\ pc = "mmap_upper"
  /\ \/ /\ space' = Mapped(addr, Half, Half, LAMBDA p : p)
        /\ pc' = "close"
     \/ FailedFixed(Half)
  /\ UNCHANGED <<asserts, locals, result, open, length, stuck>>

MmapUpper ==
  /\ pc = "mmap_upper"
  /\ \/ /\ space' = Mapped(addr, Half, Half, LAMBDA p : p - Half)
        /\ pc' = "close"
     \/ FailedFixed(Half)
  /\ UNCHANGED <<asserts, locals, result, open, length, stuck>>

(* Mutant: the size of one half is returned. *)
Close_OneHalf ==
  /\ pc = "close"
  /\ open' = FALSE
  /\ \/ /\ result' = capacity
        /\ pc' = "caller"
        /\ UNCHANGED fd
     \/ /\ fd' = FALSE
        /\ pc' = "fail"
        /\ UNCHANGED result
  /\ UNCHANGED <<asserts, request, capacity, addr, length, space, stuck>>

(* The descriptor is gone even when close() reports an error.              *)
Close ==
  /\ pc = "close"
  /\ open' = FALSE
  /\ \/ /\ result' = 2 * capacity
        /\ pc' = "caller"
        /\ UNCHANGED fd
     \/ /\ fd' = FALSE
        /\ pc' = "fail"
        /\ UNCHANGED result
  /\ UNCHANGED <<asserts, request, capacity, addr, length, space, stuck>>

(* Where control goes after a call of the clean-up failed.                 *)
AfterFailure(next) == IF asserts THEN "aborted" ELSE next

(* fail: a descriptor that is still open is closed, which may fail.        *)
FailClose ==
  /\ pc = "fail"
  /\ IF fd THEN open' = FALSE /\ pc' \in {"fail_munmap", AfterFailure("fail_munmap")}
           ELSE UNCHANGED open /\ pc' = "fail_munmap"
  /\ UNCHANGED <<asserts, locals, result, length, space, stuck>>

(* Mutant: only the first half of the range is given back. *)
FailMunmap_OneHalf ==
  /\ pc = "fail_munmap"
  /\ \/ /\ addr \notin {Null, MapFailed}
        /\ \/ /\ pc' = "caller"
              /\ space' = Mapped(addr, 0, Half, LAMBDA p : Free)
              /\ UNCHANGED stuck
           \/ /\ pc' = AfterFailure("caller")
              /\ stuck' = stuck \cup {addr}
              /\ UNCHANGED space
     \/ /\ addr \in {Null, MapFailed}
        /\ pc' = "caller"
        /\ UNCHANGED <<space, stuck>>
  /\ UNCHANGED <<asserts, locals, result, open, length>>

(* The whole range, also pages that are mapped no more, for which munmap() *)
(* reports no error; there are others that it may report.                  *)
FailMunmap ==
  /\ pc = "fail_munmap"
  /\ \/ /\ addr \notin {Null, MapFailed}
        /\ \/ /\ pc' = "caller"
              /\ space' = Mapped(addr, 0, 2 * Half, LAMBDA p : Free)
              /\ UNCHANGED stuck
           \/ /\ pc' = AfterFailure("caller")
              /\ stuck' = stuck \cup {addr}
              /\ UNCHANGED space
     \/ /\ addr \in {Null, MapFailed}
        /\ pc' = "caller"
        /\ UNCHANGED <<space, stuck>>
  /\ UNCHANGED <<asserts, locals, result, open, length>>

(* mirror_destroy() of the span that was returned.  The caller gives it up *)
(* even when munmap() fails.                                               *)
Destroy ==
  /\ pc = "caller" /\ result > 0
  /\ result' = 0
  /\ \/ /\ space' = Mapped(addr, 0, result \div PageSize, LAMBDA p : Free)
        /\ UNCHANGED <<pc, stuck>>
     \/ /\ pc' = AfterFailure("caller")
        /\ stuck' = stuck \cup {addr}
        /\ UNCHANGED space
  /\ UNCHANGED <<asserts, locals, open, length>>

Next ==
  \/ \E n \in Requests : Call(n)
  \/ MemfdCreate
  \/ Ftruncate
  \/ MmapRange
  \/ MmapLower
  \/ MmapUpper
  \/ Close
  \/ FailClose
  \/ FailMunmap
  \/ Destroy

Spec == Init /\ [][Next]_vars

-----------------------------------------------------------------------------
(* The state has its shape.                                                *)
TypeOK ==
  /\ asserts \in BOOLEAN
  /\ pc \in {"caller", "memfd_create", "ftruncate", "mmap_range", "mmap_lower",
             "mmap_upper", "close", "fail", "fail_munmap", "aborted"}
  /\ request \in Requests \cup {0}
  /\ capacity \in 0 .. SizeModulus - 1
  /\ fd \in BOOLEAN
  /\ addr \in Ranges \cup {Null, MapFailed}
  /\ result \in 0 .. SizeModulus - 1
  /\ open \in BOOLEAN
  /\ length \in 0 .. SizeModulus - 1
  /\ space \in [Ranges -> [Pages -> {Free, Anonymous} \cup Pages]]
  /\ stuck \subseteq Ranges

(* Whichever call fails, in whatever order of creations and destructions,  *)
(* what the process has open and mapped when control is with the caller is *)
(* the span that it was given, all of it, and nothing else but ranges that *)
(* munmap() refused to take back.  There are none of those in a build with *)
(* assertions; without, they stay, and no span is ever laid over one.      *)
AllOrNothing ==
  pc = "caller" =>
    /\ ~open
    /\ \A r \in Ranges \ stuck, p \in Pages :
         space[r][p] # Free <=> r = addr /\ p < result \div PageSize
    /\ asserts => stuck = {}
    /\ result > 0 => addr \notin stuck

(* A buffer that is returned is mirrored: B and B + C show the same page   *)
(* of the file for the whole of it, and the file is long enough to be      *)
(* touched there (memcmp(B, B + C, C) is 0).                               *)
BothHalvesMirror ==
  (pc = "caller" /\ result > 0) =>
    \A p \in 0 .. Half - 1 :
      /\ space[addr][p] \in Pages
      /\ space[addr][p] = space[addr][p + Half]
      /\ (space[addr][p] + 1) * PageSize <= length

(* "At least capacity bytes, ceiled to a multiple of the page size": true  *)
(* of the whole range of size_t, where the rounding may wrap to zero and   *)
(* the doubling may overflow.                                              *)
AtLeastRequested ==
  (pc = "caller" /\ result > 0) =>
    /\ result \div 2 >= request
    /\ (result \div 2) % PageSize = 0
    /\ result \div 2 < request + PageSize

(* Seen through what it returns, the sequence of calls is the one step     *)
(* that reserve() and the constructor of the buffer take it for: a range   *)
(* appears at once, for a request that is Creatable and with the rounded   *)
(* capacity twice, or not at all, and is given up at once.                 *)
AtOnce == INSTANCE MirrorAtOnce
CreatesAtOnce == AtOnce!Spec
=============================================================================
