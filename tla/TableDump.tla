------------------------------ MODULE TableDump ------------------------------
(***************************************************************************)
(* The typed views over one decoded MRT message: mrt::Message, its         *)
(* table_dump_v2 part, peer index and RIB, path attributes, and the        *)
(* CPtrRange iterators over the arrays among them.                         *)
(*                                                                         *)
(* A view is a pointer into a tree of C unions that the decoder filled, so *)
(* what matters is which member was filled and which one a view reads.     *)
(* Types and subtypes keep their wire numbers, because numbers of one      *)
(* union occur in the other (4 is RIB_IPV6_UNICAST and a BGP4MP subtype).  *)
(*                                                                         *)
(* The client calls whatever C++ lets it call on the views it holds, in    *)
(* any order and unasked.  It may also keep views while the next message   *)
(* is decoded into the structures that they point into.                    *)
(***************************************************************************)
EXTENDS Integers, Sequences, SequencesExt

CONSTANTS
  Types,       (* MRT types in the data                                    *)
  Subtypes,    (* MRT subtypes in the data                                 *)
  Peers,       (* peer tables: sequences of address families               *)
  RibEntries,  (* entries: records [table, segments, communities, large]   *)
  MaxEntries,  (* bound: entries of a RIB                                  *)
  RawChoices,  (* sets of attributes that options may ask for as raw bytes *)
  Distances,   (* what the client adds with += and -=                      *)
  Builds       (* subset of BOOLEAN: are assertions compiled in?           *)

TABLE_DUMP_V2 == 13
PEER_INDEX_TABLE == 1
RIB_IPV4_UNICAST == 2
RIB_IPV6_MULTICAST == 5
AFI_IPV4 == 1
AFI_IPV6 == 2
AS_PATH == 2
COMMUNITIES == 8
LARGE_COMMUNITIES == 32

(* The attributes that have an accessor.                                   *)
Accessors == {1, AS_PATH, 3, 4, 5, 7, COMMUNITIES, 10, LARGE_COMMUNITIES}

(* The attribute of a type is in the table at that index, or none is.      *)
ASSUME TableDumpAssumption ==
  /\ Types \subseteq Nat
  /\ Subtypes \subseteq Nat
  /\ MaxEntries \in Nat
  /\ Peers \subseteq Seq(Nat)
  /\ \A e \in RibEntries :
       /\ e.segments \in Seq(Nat) /\ e.communities \in Nat /\ e.large \in Nat
       /\ \A type \in Accessors : e.table[type] \in {0, type}
  /\ Distances \subseteq Nat
  /\ Builds \subseteq BOOLEAN

VARIABLES
  asserts,  (* this build has assertions                                   *)
  raw,      (* the attributes asked for as raw bytes                       *)
  pc,       (* "running"; "aborted" by an assertion; "astray" in a member  *)
            (* that the decoder did not fill, or filled with another       *)
            (* message since                                               *)
  slot,     (* the message that the reader decoded last                    *)
  views,    (* the views held, each obtained from the one before it        *)
  kept      (* they are of an earlier message                              *)

vars == <<asserts, raw, pc, slot, views, kept>>

(* What the decoder leaves: the members of the unions that it fills follow *)
(* the type and, within it, the subtype.                                   *)
HoldsTableDump(m) == m.type = TABLE_DUMP_V2
HoldsPeers(m) == HoldsTableDump(m) /\ m.subtype = 1
HoldsRib(m) == HoldsTableDump(m) /\ m.subtype \in 2 .. 5
Decoded ==
  {m \in [type : Types, subtype : Subtypes, peers : Peers \cup {<<>>},
          entries : BoundedSeq(RibEntries, MaxEntries)] :
     /\ ~HoldsPeers(m) => m.peers = <<>>
     /\ ~HoldsRib(m) => m.entries = <<>>}

(* A view; at is its address in the array it is an element of, due is the  *)
(* position where a random access iterator would be by now.                *)
View(kind) == [kind |-> kind, at |-> 0, due |-> 0]

Holding(kind) == pc = "running" /\ views # <<>> /\ Last(views).kind = kind /\ ~kept

(* The RIB entry that the view is in.                                      *)
Entry == LET i == CHOOSE i \in 1 .. Len(views) : views[i].kind = "entry"
         IN slot.entries[views[i].at + 1]
Segment == LET i == CHOOSE i \in 1 .. Len(views) : views[i].kind = "segment"
           IN Entry.segments[views[i].at + 1]

(* The ranges: the kind of their elements and range_size().                *)
ElementKind == [peer_index |-> "peer", rib |-> "entry", as_path |-> "segment",
                segment |-> "asn", communities |-> "community",
                large_communities |-> "large_community"]
Ranges == DOMAIN ElementKind
PeerCount == Len(slot.peers)
EntryCount == Len(slot.entries)
SegmentCount == Len(Entry.segments)
AsnCount == Segment
CommunityCount == Entry.communities
LargeCommunityCount == Entry.large
RangeSize(range) ==
  CASE range = "peer_index" -> PeerCount
    [] range = "rib" -> EntryCount
    [] range = "as_path" -> SegmentCount
    [] range = "segment" -> AsnCount
    [] range = "communities" -> CommunityCount
    [] range = "large_communities" -> LargeCommunityCount

(* The addresses of a range, counted in elements from range_data().        *)
RangeAdd(pointer, n) == pointer + n

(* Mutant: a step back is one element too long. *)
RangeSubtract_TooFar(pointer, n) == pointer - n - 1
RangeSubtract(pointer, n) == pointer - n
RangeDifference(lhs, rhs) == lhs - rhs
Begin == 0

(* Mutant: the end is the last element. *)
End_LastLeftOut(size) == RangeAdd(Begin, size - 1)
End(size) == RangeAdd(Begin, size)

(* Iterator::operator+= and -= and, in terms of them, ++ and --.           *)
(* Mutant: the sum is not assigned. *)
PlusAssign_NotAssigned(it, n) == it
PlusAssign(it, n) == RangeAdd(it, 1)

(* Mutant: -= steps forward. *)
MinusAssign_Adds(it, n) == RangeAdd(it, 1)
MinusAssign(it, n) == RangeSubtract(it, 1)

Increment(it) == PlusAssign(it, 1)
Decrement(it) == MinusAssign(it, 1)

(* The tests that the accessors assert.                                    *)
IsTableDumpV2(type) == type = TABLE_DUMP_V2
IsPeerIndexTable(subtype) == subtype = PEER_INDEX_TABLE

(* Mutant: the generic RIB counts as one of the four. *)
IsRibIp_Generic(subtype) == subtype >= RIB_IPV4_UNICAST /\ subtype <= RIB_IPV6_MULTICAST + 1
IsRibIp(subtype) == subtype >= RIB_IPV4_UNICAST /\ subtype <= RIB_IPV6_MULTICAST
HasAttrType(entry, type) == entry.table[type] = type

(* An attribute that was asked for as raw bytes has its type set, and its  *)
(* parsed member is not filled.                                            *)
FillsAttr(entry, type) == entry.table[type] # 0 /\ type \notin raw

Init ==
  /\ asserts \in Builds
  /\ raw \in RawChoices
  /\ pc = "running"
  /\ slot \in Decoded
  /\ views = <<>>
  /\ kept = FALSE

(* Message::clear() and decode(): views that are held are not told.        *)
Decode ==
  /\ pc = "running"
  /\ slot' \in Decoded
  /\ kept' = (views # <<>>)
  /\ UNCHANGED <<asserts, raw, pc, views>>

(* Whatever is called on a view of an earlier message.                     *)
UseKept ==
  /\ pc = "running" /\ kept
  /\ pc' = "astray"
  /\ UNCHANGED <<asserts, raw, slot, views, kept>>

(* Obtaining a view from the last one: test is what the accessor asserts,  *)
(* filled is what the decoder did.                                         *)
Access(from, view, test, filled) ==
  /\ Holding(from)
  /\ \/ /\ asserts /\ ~test
        /\ pc' = "aborted"
        /\ UNCHANGED views
     \/ /\ asserts => test
        /\ pc' = IF filled THEN "running" ELSE "astray"
        /\ views' = Append(views, view)
  /\ UNCHANGED <<asserts, raw, slot, kept>>

ToMrt ==
  /\ pc = "running" /\ views = <<>>
  /\ views' = <<View("mrt")>>
  /\ UNCHANGED <<asserts, raw, pc, slot, kept>>

(* The same structure by another name.                                     *)
ToTableDumpV2 == Access("mrt", View("table_dump_v2"), IsTableDumpV2(slot.type), TRUE)
ToPeerIndex ==
  Access("table_dump_v2", View("peer_index"), IsPeerIndexTable(slot.subtype),
         HoldsPeers(slot))
ToRib ==
  Access("table_dump_v2", View("rib"), IsRibIp(slot.subtype), HoldsRib(slot))

(* PeerEntry::ipv4() and ipv6().  ip() calls the one that fits; when none  *)
(* does it asserts, or else is an empty view that reads nothing.           *)
PeerIp ==
  /\ Holding("peer")
  /\ LET afi == slot.peers[Last(views).at + 1] IN
       \/ Access("peer", View("ipv4"), afi = AFI_IPV4, afi = AFI_IPV4)
       \/ Access("peer", View("ipv6"), afi = AFI_IPV6, afi = AFI_IPV6)
       \/ /\ afi \notin {AFI_IPV4, AFI_IPV6}
          /\ Access("peer", View("no_ip"), FALSE, TRUE)

(* The accessors of PathAttributes, which an entry holds one of.           *)
AttributeKind(type) ==
  CASE type = AS_PATH -> "as_path"
    [] type = COMMUNITIES -> "communities"
    [] type = LARGE_COMMUNITIES -> "large_communities"
    [] OTHER -> "value"
Attribute(type) ==
  /\ Holding("entry")
  /\ Access("entry", View(AttributeKind(type)), HasAttrType(Entry, type),
            FillsAttr(Entry, type))

(* Dereferencing begin() + i, which is what r[i] does; a loop starts with   *)
(* i = 0 after it saw that begin() is not end().                           *)
SubscriptAt(range, i) ==
  /\ Holding(range)
  /\ LET it == RangeAdd(Begin, i) IN
       /\ views' = Append(views, [kind |-> ElementKind[range], at |-> it, due |-> i])
       /\ pc' = IF it \in 0 .. RangeSize(range) - 1 THEN "running" ELSE "astray"
  /\ UNCHANGED <<asserts, raw, slot, kept>>

Subscript(range) ==
  /\ Holding(range)
  /\ Begin # End(RangeSize(range))
  /\ \E i \in 0 .. RangeSize(range) - 1 : SubscriptAt(range, i)

(* The iterator that gave the last view is moved, to at where a random     *)
(* access iterator would be moved to due, and dereferenced unless it is    *)
(* the end, where it is given up (-- from there is not modelled).  The     *)
(* client keeps within the range as it understands it.                     *)
MoveTo(at, due) ==
  /\ pc = "running" /\ Len(views) > 1 /\ ~kept
  /\ LET range == views[Len(views) - 1].kind IN
       /\ range \in Ranges
       /\ due \in 0 .. RangeSize(range)
       /\ IF at = End(RangeSize(range))
          THEN pc' = pc /\ views' = Front(views)
          ELSE /\ views' = [views EXCEPT ![Len(views)] =
                              [kind |-> @.kind, at |-> at, due |-> due]]
               /\ pc' = IF at \in 0 .. RangeSize(range) - 1 THEN "running" ELSE "astray"
  /\ UNCHANGED <<asserts, raw, slot, kept>>

MoveIterator ==
  /\ views # <<>>
  /\ LET it == Last(views) IN
       \/ MoveTo(Increment(it.at), it.due + 1)
       \/ MoveTo(Decrement(it.at), it.due - 1)
       \/ \E n \in Distances : MoveTo(PlusAssign(it.at, n), it.due + n)
       \/ \E n \in Distances : MoveTo(MinusAssign(it.at, n), it.due - n)

(* A view goes out of scope, and with it those obtained from it.           *)
Drop ==
  /\ pc = "running" /\ views # <<>>
  /\ views' = Front(views)
  /\ kept' = (kept /\ views' # <<>>)
  /\ UNCHANGED <<asserts, raw, pc, slot>>

Next ==
  \/ Decode
  \/ UseKept
  \/ ToMrt
  \/ ToTableDumpV2
  \/ ToPeerIndex
  \/ ToRib
  \/ PeerIp
  \/ \E type \in Accessors : Attribute(type)
  \/ \E range \in Ranges : Subscript(range)
  \/ MoveIterator
  \/ Drop

Spec == Init /\ [][Next]_vars

-----------------------------------------------------------------------------
(* The state has its shape: views nest as their C structures do.           *)
Above == [table_dump_v2 |-> {"mrt"}, peer_index |-> {"table_dump_v2"},
          rib |-> {"table_dump_v2"}, peer |-> {"peer_index"}, entry |-> {"rib"},
          ipv4 |-> {"peer"}, ipv6 |-> {"peer"}, no_ip |-> {"peer"},
          value |-> {"entry"},
          as_path |-> {"entry"}, communities |-> {"entry"}, segment |-> {"as_path"},
          asn |-> {"segment"}, community |-> {"communities"},
          large_communities |-> {"entry"}, large_community |-> {"large_communities"}]
TypeOK ==
  /\ asserts \in BOOLEAN
  /\ pc \in {"running", "aborted", "astray"}
  /\ raw \in RawChoices
  /\ slot \in Decoded
  /\ kept \in BOOLEAN
  /\ \A i \in 1 .. Len(views) :
       /\ IF i = 1 THEN views[i].kind = "mrt"
          ELSE views[i].kind \in DOMAIN Above /\ views[i - 1].kind \in Above[views[i].kind]
       /\ views[i].at \in Nat

(* With assertions, a sequence of accessor calls and iterator steps reads  *)
(* a union member, an attribute or an element that the decoder did not     *)
(* fill for it in two ways only: through a view of an earlier message, or  *)
(* an attribute that was asked for as raw bytes.  Else the assertions of   *)
(* to_table_dump_v2(), to_peer_index(), to_rib(), ipv4(), ipv6() and the   *)
(* attribute accessors are enough together.                                *)
ReadsOnlyFilled ==
  asserts /\ pc = "astray" =>
    kept \/ \E type \in raw : Last(views).kind = AttributeKind(type)

(* The iterators of a CPtrRange are random access iterators: wherever      *)
(* increments, decrements, += and -= led, they are as far from begin(), by *)
(* operator-, as the steps they were moved by add up to.                   *)
IteratorsKeepStep ==
  pc = "running" =>
    \A i \in 1 .. Len(views) : RangeDifference(views[i].at, Begin) = views[i].due
=============================================================================
