-------------------------- MODULE TableDump_proofs --------------------------
(***************************************************************************)
(* Proofs about TableDump and Dump, for all messages, raw attributes and   *)
(* builds, and a client who moves an iterator by one at a time, as the     *)
(* program does: += and -= ignore their argument, so other distances break *)
(* what is proved here.                                                    *)
(***************************************************************************)
EXTENDS Dump, TLAPS

OneAtATime == Distances \subseteq {1}

Kinds == DOMAIN Above \cup {"mrt"}
ViewType == [kind : Kinds, at : Nat, due : Nat]
ViewsAreViews == views \in Seq(ViewType)

(* While it runs, every view is where a random access iterator would be.   *)
InStep == pc = "running" => \A i \in 1 .. Len(views) : views[i].at = views[i].due

(* Whoever holds a table dump view, and asserts, has a table dump.          *)
DumpIsDump ==
  asserts /\ pc = "running" /\ ~kept =>
    \A i \in 1 .. Len(views) :
      views[i].kind = "table_dump_v2" => HoldsTableDump(slot)

(* The entry and the segment that the client is in exist: being nested as  *)
(* the structures are, they are the fourth view and the sixth.             *)
InRange ==
  pc = "running" /\ ~kept =>
    /\ Len(views) >= 4 /\ views[4].kind = "entry" =>
         views[4].at + 1 \in 1 .. Len(slot.entries)
    /\ Len(views) >= 6 /\ views[6].kind = "segment" =>
         views[6].at + 1 \in 1 .. Len(slot.entries[views[4].at + 1].segments)

IInv ==
  /\ TypeOK
  /\ ViewsAreViews
  /\ InStep
  /\ DumpIsDump
  /\ InRange
  /\ ReadsOnlyFilled

LEMMA ViewKind ==
  ASSUME NEW k \in Kinds
  PROVE  View(k) \in ViewType
  BY DEF View, ViewType

(* A view more: it is obtained from the last one.                          *)
LEMMA Appended ==
  ASSUME ViewsAreViews, NEW v \in ViewType
  PROVE  /\ Append(views, v) \in Seq(ViewType)
         /\ Len(Append(views, v)) = Len(views) + 1
         /\ Append(views, v)[Len(views) + 1] = v
         /\ \A i \in 1 .. Len(views) : Append(views, v)[i] = views[i]
         /\ Last(Append(views, v)) = v
  BY DEF ViewsAreViews, Last

LEMMA Elements ==
  ASSUME NEW S, NEW s \in Seq(S)
  PROVE  /\ Len(s) \in Nat
         /\ \A i \in 1 .. Len(s) : s[i] \in S
         /\ s # <<>> => Len(s) \in 1 .. Len(s) /\ Last(s) = s[Len(s)]
  BY DEF Last

LEMMA Fronted ==
  ASSUME NEW S, NEW s \in Seq(S), s # <<>>
  PROVE  /\ Front(s) \in Seq(S)
         /\ Len(Front(s)) = Len(s) - 1
         /\ \A i \in 1 .. Len(s) - 1 : Front(s)[i] = s[i]
<1>1. PICK k \in Nat : k = Len(s) /\ k # 0
  OBVIOUS
<1>2. PICK m \in Nat : m = k - 1 /\ m <= k
  BY <1>1
<1>3. /\ SubSeq(s, 1, m) \in Seq(S) /\ Len(SubSeq(s, 1, m)) = m
      /\ \A i \in 1 .. m : SubSeq(s, 1, m)[i] = s[i]
  BY <1>1, <1>2
<1> QED
  BY <1>1, <1>2, <1>3 DEF Front

LEMMA Replaced ==
  ASSUME NEW S, NEW s \in Seq(S), NEW e \in S, NEW n \in 1 .. Len(s),
         NEW t, t = [s EXCEPT ![n] = e]
  PROVE  /\ t \in Seq(S)
         /\ Len(t) = Len(s)
         /\ t[n] = e
         /\ \A i \in 1 .. Len(s) : i # n => t[i] = s[i]
  OBVIOUS

LEMMA InitInvariant == Init => IInv
<1> SUFFICES ASSUME Init PROVE IInv
  OBVIOUS
<1>1. views = <<>> /\ Len(views) = 0 /\ 1 .. Len(views) = {} /\ views \in Seq(ViewType)
  BY DEF Init
<1>2. pc = "running" /\ asserts \in BOOLEAN /\ raw \in RawChoices /\ slot \in Decoded /\ ~kept
      /\ kept \in BOOLEAN
  BY TableDumpAssumption DEF Init
<1> QED
  BY <1>1, <1>2
  DEF IInv, TypeOK, ViewsAreViews, InStep, DumpIsDump, InRange, ReadsOnlyFilled

-----------------------------------------------------------------------------
(* How deep the views nest: only the fourth can be one of an entry.        *)
LEMMA Depths ==
  ASSUME IInv, NEW i \in 1 .. Len(views)
  PROVE  /\ views[i].kind = "mrt" => i = 1
         /\ views[i].kind = "table_dump_v2" => i = 2
         /\ views[i].kind = "rib" => i = 3
         /\ views[i].kind = "entry" => i = 4
         /\ views[i].kind = "as_path" => i = 5 /\ views[4].kind = "entry"
         /\ views[i].kind = "segment" => i = 6 /\ views[4].kind = "entry"
<1> DEFINE Below(j, kind, above) ==
             views[j].kind = kind => j # 1 /\ j - 1 \in 1 .. Len(views) /\ views[j - 1].kind = above
<1>1. \A j \in 1 .. Len(views) :
        /\ IF j = 1 THEN views[j].kind = "mrt"
           ELSE /\ views[j].kind \in DOMAIN Above
                /\ views[j - 1].kind \in Above[views[j].kind]
  BY DEF IInv, TypeOK
<1>2. Len(views) \in Nat
  BY DEF IInv, ViewsAreViews
<1>3. \A j \in 1 .. Len(views) : views[j].kind = "mrt" => j = 1
  BY <1>1 DEF Above
<1>4. \A j \in 1 .. Len(views) :
        /\ Below(j, "table_dump_v2", "mrt") /\ Below(j, "rib", "table_dump_v2")
        /\ Below(j, "entry", "rib") /\ Below(j, "as_path", "entry")
        /\ Below(j, "segment", "as_path")
  BY <1>1, <1>2 DEF Above
<1>5. \A j \in 1 .. Len(views) : views[j].kind = "table_dump_v2" => j = 2
  BY <1>2, <1>3, <1>4
<1>6. \A j \in 1 .. Len(views) : views[j].kind = "rib" => j = 3
  BY <1>2, <1>4, <1>5
<1>7. \A j \in 1 .. Len(views) : views[j].kind = "entry" => j = 4
  BY <1>2, <1>4, <1>6
<1>8. \A j \in 1 .. Len(views) : views[j].kind = "as_path" => j = 5 /\ views[4].kind = "entry"
  BY <1>2, <1>4, <1>7
<1>9. \A j \in 1 .. Len(views) : views[j].kind = "segment" => j = 6 /\ views[4].kind = "entry"
  BY <1>2, <1>4, <1>8
<1> QED
  BY <1>3, <1>5, <1>6, <1>7, <1>8, <1>9

LEMMA SlotFacts ==
  ASSUME IInv
  PROVE  /\ Len(slot.peers) \in Nat
         /\ slot.entries \in Seq(RibEntries) /\ Len(slot.entries) \in Nat
<1>1. /\ slot.peers \in Peers \cup {<<>>}
      /\ slot.entries \in BoundedSeq(RibEntries, MaxEntries)
  BY DEF IInv, TypeOK, Decoded
<1>2. slot.peers \in Seq(Nat)
  <2>1. <<>> \in Seq(Nat)
    OBVIOUS
  <2> QED
    BY <1>1, <2>1, TableDumpAssumption
<1>3. PICK m \in 0 .. MaxEntries : slot.entries \in [1 .. m -> RibEntries]
  BY <1>1 DEF BoundedSeq, SeqOf
<1> QED
  BY <1>2, <1>3

(* The entry is that of the fourth view.                                   *)
LEMMA EntryIsFourth ==
  ASSUME IInv, pc = "running", ~kept, NEW i \in 1 .. Len(views), views[i].kind = "entry"
  PROVE  /\ Entry = slot.entries[views[4].at + 1] /\ Entry \in RibEntries
         /\ views[4].kind = "entry" /\ Len(views) >= 4
<1>1. PICK j : j = CHOOSE k \in 1 .. Len(views) : views[k].kind = "entry"
  OBVIOUS
<1>2. j \in 1 .. Len(views) /\ views[j].kind = "entry"
  BY <1>1
<1>3. j = 4 /\ i = 4
  BY <1>2, Depths
<1>4. Entry = slot.entries[views[4].at + 1]
  BY <1>1, <1>3 DEF Entry
<1>5. Len(views) >= 4 /\ views[4].kind = "entry"
  BY <1>3 DEF IInv, ViewsAreViews
<1>6. views[4].at + 1 \in 1 .. Len(slot.entries)
  BY <1>5 DEF IInv, InRange
<1> QED
  BY <1>4, <1>5, <1>6, SlotFacts

(* Every range that the client can be in has a size.                       *)
LEMMA SizeIsNat ==
  ASSUME IInv, pc = "running", ~kept, NEW i \in 1 .. Len(views), views[i].kind \in Ranges
  PROVE  RangeSize(views[i].kind) \in Nat
<1>1. Len(views) \in Nat
  BY DEF IInv, ViewsAreViews
<1>2. /\ i # 1 /\ i - 1 \in 1 .. Len(views)
      /\ views[i - 1].kind \in Above[views[i].kind]
  BY <1>1 DEF IInv, TypeOK, Ranges, ElementKind
<1>3. CASE views[i].kind = "peer_index"
  BY <1>3, SlotFacts DEF RangeSize, PeerCount
<1>4. CASE views[i].kind = "rib"
  BY <1>4, SlotFacts DEF RangeSize, EntryCount
<1>5. CASE views[i].kind \in {"as_path", "communities", "large_communities"}
  <2>1. views[i - 1].kind = "entry"
    BY <1>2, <1>5 DEF Above
  <2>2. Entry \in RibEntries
    BY <1>2, <2>1, EntryIsFourth
  <2>3. Len(Entry.segments) \in Nat /\ Entry.communities \in Nat /\ Entry.large \in Nat
    BY <2>2, TableDumpAssumption
  <2> QED
    BY <1>5, <2>3 DEF RangeSize, SegmentCount, CommunityCount, LargeCommunityCount
<1>6. CASE views[i].kind = "segment"
  <2>1. i = 6 /\ views[4].kind = "entry" /\ Len(views) >= 6 /\ 4 \in 1 .. Len(views)
    BY <1>1, <1>6, Depths
  <2>2. Entry = slot.entries[views[4].at + 1] /\ Entry \in RibEntries
    BY <2>1, EntryIsFourth
  <2>3. PICK j : j = CHOOSE k \in 1 .. Len(views) : views[k].kind = "segment"
    OBVIOUS
  <2>4. j \in 1 .. Len(views) /\ views[j].kind = "segment"
    BY <1>6, <2>3
  <2>5. j = 6
    BY <2>4, Depths
  <2>6. Segment = Entry.segments[views[6].at + 1]
    BY <2>3, <2>5 DEF Segment
  <2>7. views[6].at + 1 \in 1 .. Len(Entry.segments)
    BY <1>6, <2>1, <2>2 DEF IInv, InRange
  <2>8. Segment \in Nat
    <3>1. Entry.segments \in Seq(Nat)
      BY <2>2, TableDumpAssumption
    <3> QED
      BY <2>6, <2>7, <3>1, Elements
  <2> QED
    BY <1>6, <2>8 DEF RangeSize, AsnCount
<1> QED
  BY <1>3, <1>4, <1>5, <1>6 DEF Ranges, ElementKind

-----------------------------------------------------------------------------

(* Obtaining a view, whatever kind it is.                                  *)
LEMMA Extended ==
  ASSUME IInv, pc = "running",
         NEW v \in ViewType, v.at = v.due,
         views' = Append(views, v),
         IF views = <<>> THEN v.kind = "mrt"
         ELSE v.kind \in DOMAIN Above /\ Last(views).kind \in Above[v.kind],
         UNCHANGED <<asserts, raw, slot, kept>>,
         pc' \in {"running", "astray"},
         asserts /\ ~kept /\ pc' = "running" /\ v.kind = "table_dump_v2" => HoldsTableDump(slot),
         v.kind = "entry" => ~kept /\ v.at + 1 \in 1 .. Len(slot.entries),
         v.kind = "segment" => ~kept /\ v.at + 1 \in 1 .. Len(Entry.segments),
         asserts /\ pc' = "astray" => kept \/ \E type \in raw : v.kind = AttributeKind(type)
  PROVE  IInv'
<1>1. ViewsAreViews /\ Len(views) \in Nat
  BY DEF IInv, ViewsAreViews
<1>2. /\ views' \in Seq(ViewType)
      /\ Len(views') = Len(views) + 1
      /\ views'[Len(views) + 1] = v
      /\ \A i \in 1 .. Len(views) : views'[i] = views[i]
      /\ Last(views)' = v
  BY <1>1, Appended DEF Last
<1>3. TypeOK'
  <2>1. v.at \in Nat
    BY DEF ViewType
  <2>2. ASSUME NEW i \in 1 .. Len(views')
        PROVE  /\ IF i = 1 THEN views'[i].kind = "mrt"
                  ELSE /\ views'[i].kind \in DOMAIN Above
                       /\ views'[i - 1].kind \in Above[views'[i].kind]
               /\ views'[i].at \in Nat
    <3>1. CASE i \in 1 .. Len(views)
      <4>1. i # 1 => i - 1 \in 1 .. Len(views)
        BY <1>1, <3>1
      <4> QED
        BY <1>2, <3>1, <4>1 DEF IInv, TypeOK
    <3>2. CASE i = Len(views) + 1 /\ views = <<>>
      <4>1. i = 1 /\ views'[i] = v /\ v.kind = "mrt"
        BY <1>2, <3>2
      <4> QED
        BY <2>1, <4>1
    <3>3. CASE i = Len(views) + 1 /\ views # <<>>
      <4>1. i # 1 /\ i - 1 = Len(views) /\ Len(views) \in 1 .. Len(views)
        BY <1>1, <3>3 DEF ViewsAreViews
      <4>2. views'[i - 1] = Last(views) /\ views'[i] = v
        BY <1>2, <3>3, <4>1 DEF Last
      <4>3. v.kind \in DOMAIN Above /\ Last(views).kind \in Above[v.kind] /\ v.at \in Nat
        BY <2>1, <3>3
      <4> QED
        BY <4>1, <4>2, <4>3, Zenon
    <3> QED
      BY <1>1, <1>2, <3>1, <3>2, <3>3
  <2>3. /\ asserts' \in BOOLEAN /\ pc' \in {"running", "aborted", "astray"}
        /\ raw' \in RawChoices /\ slot' \in Decoded /\ kept' \in BOOLEAN
    BY DEF IInv, TypeOK
  <2> QED
    BY <2>2, <2>3 DEF TypeOK
<1>4. InStep'
  BY <1>1, <1>2 DEF IInv, InStep
<1>5. DumpIsDump'
  BY <1>1, <1>2 DEF IInv, DumpIsDump, HoldsTableDump
<1>6. ReadsOnlyFilled'
  BY <1>2 DEF ReadsOnlyFilled, AttributeKind
<1>7. InRange'
  <2> SUFFICES ASSUME ~kept PROVE InRange'
    BY DEF InRange
  <2>1. ASSUME Len(views') >= 4, views'[4].kind = "entry"
        PROVE  views'[4].at + 1 \in 1 .. Len(slot.entries)
    <3>1. CASE Len(views) >= 4
      BY <1>1, <1>2, <2>1, <3>1 DEF IInv, InRange
    <3>2. CASE Len(views) = 3
      <4>1. views'[4] = v
        BY <1>2, <3>2
      <4> QED
        BY <2>1, <4>1
    <3>3. Len(views) >= 4 \/ Len(views) = 3
      <4>1. PICK n \in Nat : n = Len(views) /\ n + 1 >= 4
        BY <1>1, <1>2, <2>1
      <4>2. n >= 4 \/ n = 3
        BY <4>1
      <4> QED
        BY <4>1, <4>2
    <3> QED
      BY <3>1, <3>2, <3>3
  <2>2. ASSUME Len(views') >= 6, views'[6].kind = "segment"
        PROVE  views'[6].at + 1 \in 1 .. Len(slot.entries[views'[4].at + 1].segments)
    <3>1. views'[4] = views[4] /\ Len(views) >= 5
      BY <1>1, <1>2, <2>2
    <3>2. CASE Len(views) >= 6
      BY <1>1, <1>2, <2>2, <3>1, <3>2 DEF IInv, InRange
    <3>3. CASE Len(views) = 5
      <4>1. v.kind = "segment" /\ views'[6] = v
        BY <1>2, <2>2, <3>3
      <4>2. Last(views) = views[5] /\ views # <<>> /\ 5 \in 1 .. Len(views)
        BY <1>1, <3>3 DEF Last
      <4>3. views[5].kind = "as_path"
        BY <4>1, <4>2 DEF Above
      <4>4. views[4].kind = "entry" /\ 4 \in 1 .. Len(views)
        BY <3>3, <4>2, <4>3, Depths
      <4>5. Entry = slot.entries[views[4].at + 1]
        BY <4>4, EntryIsFourth
      <4> QED
        BY <3>1, <4>1, <4>5
    <3>4. Len(views) >= 6 \/ Len(views) = 5
      <4>1. PICK n \in Nat : n = Len(views) /\ n >= 5
        BY <1>1, <3>1
      <4>2. n >= 6 \/ n = 5
        BY <4>1
      <4> QED
        BY <4>1, <4>2
    <3> QED
      BY <3>2, <3>3, <3>4
  <2> QED
    BY <2>1, <2>2 DEF InRange
<1> QED
  BY <1>2, <1>3, <1>4, <1>5, <1>6, <1>7 DEF IInv, ViewsAreViews

(* An accessor whose test is enough: made without assertions, it may read  *)
(* what was not filled.                                                    *)
LEMMA AccessInvariant ==
  ASSUME IInv, NEW from \in Kinds, NEW to \in Kinds, NEW test, NEW filled,
         Access(from, View(to), test, filled),
         to \in DOMAIN Above, from \in Above[to], to \notin {"entry", "segment"},
         asserts /\ test /\ ~kept /\ to = "table_dump_v2" => HoldsTableDump(slot),
         asserts /\ test /\ ~filled => \E type \in raw : to = AttributeKind(type)
  PROVE  IInv'
<1>1. pc = "running" /\ ~kept /\ views # <<>> /\ Last(views).kind = from
  BY DEF Access, Holding
<1>2. CASE asserts /\ ~test /\ pc' = "aborted" /\ UNCHANGED <<views, asserts, raw, slot, kept>>
  BY <1>2 DEF IInv, TypeOK, ViewsAreViews, InStep, DumpIsDump, InRange, ReadsOnlyFilled
<1>3. CASE /\ asserts => test
           /\ pc' = IF filled THEN "running" ELSE "astray"
           /\ views' = Append(views, View(to)) /\ UNCHANGED <<asserts, raw, slot, kept>>
  <2>1. /\ View(to) \in ViewType
        /\ View(to).kind = to /\ View(to).at = View(to).due
    BY ViewKind DEF View
  <2>2. pc' \in {"running", "astray"} /\ (pc' = "astray" => ~filled)
    BY <1>3
  <2> QED
    BY <1>1, <1>3, <2>1, <2>2, Extended
<1> QED
  BY <1>2, <1>3 DEF Access

LEMMA AttributeKinds ==
  ASSUME NEW type
  PROVE  /\ AttributeKind(type) \in {"as_path", "communities", "large_communities", "value"}
         /\ AttributeKind(type) \in Kinds
         /\ AttributeKind(type) \in DOMAIN Above
         /\ "entry" \in Above[AttributeKind(type)]
<1>1. AttributeKind(type) \in {"as_path", "communities", "large_communities", "value"}
  BY DEF AttributeKind
<1> QED
  BY <1>1 DEF Kinds, Above

LEMMA ToMrtInvariant == ASSUME IInv, ToMrt PROVE IInv'
<1>1. /\ View("mrt") \in ViewType
      /\ View("mrt").kind = "mrt" /\ View("mrt").at = View("mrt").due
  BY ViewKind DEF View, Kinds
<1>2. views' = Append(views, View("mrt"))
  BY DEF ToMrt, ViewsAreViews
<1> QED
  BY <1>1, <1>2, Extended DEF ToMrt

LEMMA ToTableDumpV2Invariant == ASSUME IInv, ToTableDumpV2 PROVE IInv'
<1>1. /\ "mrt" \in Kinds /\ "table_dump_v2" \in Kinds /\ "table_dump_v2" \in DOMAIN Above
      /\ "mrt" \in Above["table_dump_v2"]
  BY DEF Kinds, Above
<1> QED
  BY <1>1, AccessInvariant DEF ToTableDumpV2, IsTableDumpV2, HoldsTableDump

(* Where a table dump view is the last one, and asserted, it is one.       *)
LEMMA LastIsDump ==
  ASSUME IInv, Holding("table_dump_v2"), asserts
  PROVE  HoldsTableDump(slot)
<1>1. Len(views) \in 1 .. Len(views) /\ views[Len(views)].kind = "table_dump_v2"
  BY DEF IInv, ViewsAreViews, Holding, Last
<1> QED
  BY <1>1 DEF IInv, DumpIsDump, Holding

LEMMA ToPeerIndexInvariant == ASSUME IInv, ToPeerIndex PROVE IInv'
<1>1. /\ "table_dump_v2" \in Kinds /\ "peer_index" \in Kinds /\ "peer_index" \in DOMAIN Above
      /\ "table_dump_v2" \in Above["peer_index"]
  BY DEF Kinds, Above
<1>2. asserts /\ IsPeerIndexTable(slot.subtype) => HoldsPeers(slot)
  BY LastIsDump DEF ToPeerIndex, Access, IsPeerIndexTable, PEER_INDEX_TABLE, HoldsPeers
<1> QED
  BY <1>1, <1>2, AccessInvariant DEF ToPeerIndex

LEMMA ToRibInvariant == ASSUME IInv, ToRib PROVE IInv'
<1>1. /\ "table_dump_v2" \in Kinds /\ "rib" \in Kinds /\ "rib" \in DOMAIN Above
      /\ "table_dump_v2" \in Above["rib"]
  BY DEF Kinds, Above
<1>2. slot.subtype \in Nat
  BY TableDumpAssumption DEF IInv, TypeOK, Decoded
<1>3. asserts /\ IsRibIp(slot.subtype) => HoldsRib(slot)
  BY <1>2, LastIsDump DEF ToRib, Access, IsRibIp, RIB_IPV4_UNICAST, RIB_IPV6_MULTICAST, HoldsRib
<1> QED
  BY <1>1, <1>3, AccessInvariant DEF ToRib

LEMMA PeerIpInvariant == ASSUME IInv, PeerIp PROVE IInv'
<1>1. /\ {"peer", "ipv4", "ipv6", "no_ip"} \subseteq Kinds
      /\ {"ipv4", "ipv6", "no_ip"} \subseteq DOMAIN Above
      /\ \A kind \in {"ipv4", "ipv6", "no_ip"} : "peer" \in Above[kind]
  BY DEF Kinds, Above
<1> DEFINE afi == slot.peers[Last(views).at + 1]
<1>2. CASE Access("peer", View("ipv4"), afi = AFI_IPV4, afi = AFI_IPV4)
  BY <1>1, <1>2, AccessInvariant
<1>3. CASE Access("peer", View("ipv6"), afi = AFI_IPV6, afi = AFI_IPV6)
  BY <1>1, <1>3, AccessInvariant
<1>4. CASE Access("peer", View("no_ip"), FALSE, TRUE)
  BY <1>1, <1>4, AccessInvariant
<1> QED
  BY <1>2, <1>3, <1>4 DEF PeerIp

LEMMA AttributeInvariant ==
  ASSUME IInv, NEW type \in Accessors, Attribute(type)
  PROVE  IInv'
<1>1. /\ "entry" \in Kinds /\ AttributeKind(type) \in Kinds
      /\ AttributeKind(type) \in DOMAIN Above /\ "entry" \in Above[AttributeKind(type)]
      /\ AttributeKind(type) \notin {"table_dump_v2", "entry", "segment"}
  BY AttributeKinds DEF Kinds, Above
<1>2. HasAttrType(Entry, type) /\ ~FillsAttr(Entry, type) => type \in raw
  BY DEF HasAttrType, FillsAttr, Accessors, AS_PATH, COMMUNITIES, LARGE_COMMUNITIES
<1> QED
  BY <1>1, <1>2, AccessInvariant DEF Attribute

LEMMA SubscriptInvariant ==
  ASSUME IInv, NEW range \in Ranges, Subscript(range)
  PROVE  IInv'
<1>1. PICK i \in 0 .. RangeSize(range) - 1 : SubscriptAt(range, i)
  BY DEF Subscript
<1> DEFINE v == [kind |-> ElementKind[range], at |-> RangeAdd(Begin, i), due |-> i]
<1>2. i \in Nat /\ RangeAdd(Begin, i) = i
  BY DEF RangeAdd, Begin
<1>3. /\ ElementKind[range] \in Kinds /\ ElementKind[range] \in DOMAIN Above
      /\ range \in Above[ElementKind[range]] /\ ElementKind[range] # "table_dump_v2"
  BY DEF Ranges, ElementKind, Above, Kinds
<1>4. /\ v \in ViewType /\ v.at = v.due
      /\ v.kind = ElementKind[range]
  BY <1>2, <1>3 DEF ViewType
<1>5. /\ pc = "running" /\ views # <<>> /\ Last(views).kind = range
      /\ views' = Append(views, v) /\ pc' = "running"
      /\ UNCHANGED <<asserts, raw, slot, kept>>
  BY <1>1, <1>2 DEF SubscriptAt, Holding
<1>6. ~kept
  BY <1>1 DEF SubscriptAt, Holding
<1>7. /\ v.kind = "entry" => range = "rib"
      /\ v.kind = "segment" => range = "as_path"
  BY <1>4 DEF Ranges, ElementKind
<1>8. v.at = i
  BY <1>2
<1> HIDE DEF v
<1>9. v.kind = "entry" => v.at + 1 \in 1 .. Len(slot.entries)
  BY <1>7, <1>8, SlotFacts DEF RangeSize, EntryCount
<1>10. v.kind = "segment" => v.at + 1 \in 1 .. Len(Entry.segments)
  <2> SUFFICES ASSUME v.kind = "segment" PROVE v.at + 1 \in 1 .. Len(Entry.segments)
    OBVIOUS
  <2>1. range = "as_path" /\ RangeSize(range) = Len(Entry.segments)
    BY <1>7 DEF RangeSize, SegmentCount
  <2>2. Len(views) \in 1 .. Len(views) /\ views[Len(views)].kind = range
    BY <1>5 DEF IInv, ViewsAreViews, Last
  <2>3. RangeSize(range) \in Nat
    BY <1>5, <1>6, <2>2, SizeIsNat
  <2> QED
    BY <1>2, <1>8, <2>1, <2>3
<1> QED
  BY <1>3, <1>4, <1>5, <1>6, <1>9, <1>10, Extended

(* A view fewer.                                                           *)
LEMMA Shortened ==
  ASSUME IInv, pc = "running", views # <<>>, views' = Front(views),
         UNCHANGED <<asserts, raw, pc, slot>>, kept' \in BOOLEAN,
         kept /\ views' # <<>> => kept'
  PROVE  IInv'
<1>1. views \in Seq(ViewType) /\ Len(views) \in Nat \ {0}
  BY DEF IInv, ViewsAreViews
<1>2. /\ views' \in Seq(ViewType)
      /\ Len(views') = Len(views) - 1
      /\ \A i \in 1 .. Len(views) - 1 : views'[i] = views[i]
  BY <1>1, Fronted
<1>3. TypeOK'
  <2>1. ASSUME NEW i \in 1 .. Len(views')
        PROVE  /\ IF i = 1 THEN views'[i].kind = "mrt"
                  ELSE /\ views'[i].kind \in DOMAIN Above
                       /\ views'[i - 1].kind \in Above[views'[i].kind]
               /\ views'[i].at \in Nat
    <3>1. /\ i \in 1 .. Len(views) /\ views'[i] = views[i]
          /\ i # 1 => views'[i - 1] = views[i - 1]
      <4>1. PICK m \in Nat : m = Len(views) - 1 /\ i \in 1 .. m
        BY <1>1, <1>2
      <4>2. i \in 1 .. Len(views) /\ (i # 1 => i - 1 \in 1 .. m)
        BY <4>1
      <4> QED
        BY <1>2, <4>1, <4>2
    <3> QED
      BY <3>1 DEF IInv, TypeOK
  <2> QED
    BY <2>1 DEF IInv, TypeOK
<1>4. ASSUME NEW i \in 1 .. Len(views')
      PROVE  i \in 1 .. Len(views) - 1 /\ i \in 1 .. Len(views) /\ views'[i] = views[i]
  <2>1. i \in 1 .. Len(views) - 1 /\ i \in 1 .. Len(views)
    BY <1>1, <1>2
  <2> QED
    BY <1>2, <2>1
<1>5. InStep'
  BY <1>4 DEF IInv, InStep
<1>6. views' = <<>> => Len(views') = 0 /\ 1 .. Len(views') = {}
  OBVIOUS
<1>7. DumpIsDump'
  BY <1>4, <1>6 DEF IInv, DumpIsDump, HoldsTableDump
<1>8. InRange'
  <2> SUFFICES ASSUME ~kept, views' # <<>> PROVE InRange'
    BY <1>6 DEF InRange
  <2>1. Len(views') >= 4 => 4 \in 1 .. Len(views')
    BY <1>1, <1>2
  <2>2. Len(views') >= 6 => 4 \in 1 .. Len(views') /\ 6 \in 1 .. Len(views')
    BY <1>1, <1>2
  <2>3. Len(views') >= 4 => Len(views) >= 4 /\ views'[4] = views[4]
    BY <1>1, <1>4, <2>1
  <2>4. Len(views') >= 6 =>
          Len(views) >= 6 /\ views'[4] = views[4] /\ views'[6] = views[6]
    BY <1>1, <1>4, <2>2
  <2> QED
    BY <2>3, <2>4 DEF IInv, InRange
<1>9. ReadsOnlyFilled'
  BY DEF ReadsOnlyFilled
<1> QED
  BY <1>2, <1>3, <1>5, <1>7, <1>8, <1>9 DEF IInv, ViewsAreViews

LEMMA MoveToInvariant ==
  ASSUME IInv, NEW n, MoveTo(n, n)
  PROVE  IInv'
<1> DEFINE range == views[Len(views) - 1].kind
           v == [kind |-> Last(views).kind, at |-> n, due |-> n]
<1>1. /\ pc = "running" /\ Len(views) > 1 /\ ~kept
      /\ n \in 0 .. RangeSize(range) /\ UNCHANGED <<asserts, raw, slot, kept>>
  BY DEF MoveTo
<1>2. views \in Seq(ViewType) /\ Len(views) \in Nat \ {0}
  BY <1>1 DEF IInv, ViewsAreViews
<1>3. n \in Nat
  BY <1>1
<1>4. CASE pc' = pc /\ views' = Front(views)
  BY <1>1, <1>2, <1>4, Shortened DEF IInv, TypeOK
<1>5. CASE /\ views' = [views EXCEPT ![Len(views)] = [kind |-> @.kind, at |-> n, due |-> n]]
           /\ n # End(RangeSize(range))
           /\ pc' = IF n \in 0 .. RangeSize(range) - 1 THEN "running" ELSE "astray"
  <2>1. pc' = "running"
    <3>1. Len(views) - 1 \in 1 .. Len(views) /\ range \in Ranges
      BY <1>1, <1>2 DEF MoveTo
    <3>2. RangeSize(range) \in Nat
      BY <1>1, <3>1, SizeIsNat
    <3> QED
      BY <1>1, <1>5, <3>2 DEF End, RangeAdd, Begin
  <2>2. /\ views' \in Seq(ViewType) /\ Len(views') = Len(views)
        /\ \A i \in 1 .. Len(views) : views'[i].kind = views[i].kind
        /\ \A i \in 1 .. Len(views) : i # Len(views) => views'[i] = views[i]
        /\ views'[Len(views)].at = n /\ views'[Len(views)].due = n
    <3>1. /\ Last(views) \in ViewType
          /\ Last(views) = views[Len(views)] /\ Len(views) \in 1 .. Len(views)
      <4>1. views # <<>>
        BY <1>2
      <4> QED
        BY <1>2, <4>1, Elements
    <3>2. v \in ViewType /\ v.kind = views[Len(views)].kind
      BY <1>3, <3>1 DEF ViewType
    <3>3. views' = [views EXCEPT ![Len(views)] = v]
      BY <1>5, <3>1
    <3>4. v.at = n /\ v.due = n
      OBVIOUS
    <3> HIDE DEF v
    <3>5. /\ views' \in Seq(ViewType) /\ Len(views') = Len(views)
          /\ views'[Len(views)] = v
          /\ \A i \in 1 .. Len(views) : i # Len(views) => views'[i] = views[i]
      BY <1>2, <3>1, <3>2, <3>3, Replaced
    <3> QED
      BY <3>2, <3>4, <3>5
  <2>3. TypeOK'
    <3>1. ASSUME NEW i \in 1 .. Len(views')
          PROVE  /\ IF i = 1 THEN views'[i].kind = "mrt"
                    ELSE /\ views'[i].kind \in DOMAIN Above
                         /\ views'[i - 1].kind \in Above[views'[i].kind]
                 /\ views'[i].at \in Nat
      <4>1. /\ i \in 1 .. Len(views) /\ views'[i].kind = views[i].kind
            /\ i # 1 => i - 1 \in 1 .. Len(views) /\ views'[i - 1].kind = views[i - 1].kind
        <5>1. i \in 1 .. Len(views) /\ (i # 1 => i - 1 \in 1 .. Len(views))
          BY <1>2, <2>2
        <5> QED
          BY <2>2, <5>1
      <4>2. views'[i].at \in Nat
        <5>1. views'[i] \in ViewType
          BY <2>2, Elements
        <5> QED
          BY <5>1 DEF ViewType
      <4> QED
        BY <4>1, <4>2 DEF IInv, TypeOK
    <3> QED
      BY <1>1, <2>1, <3>1 DEF IInv, TypeOK
  <2>4. InStep'
    BY <1>1, <1>2, <2>2 DEF IInv, InStep
  <2>5. DumpIsDump'
    BY <1>1, <1>2, <2>2 DEF IInv, DumpIsDump, HoldsTableDump
  <2>6. ReadsOnlyFilled'
    BY <2>1 DEF ReadsOnlyFilled
  <2>7. InRange'
    <3>1. ASSUME Len(views') >= 4, views'[4].kind = "entry"
          PROVE  views'[4].at + 1 \in 1 .. Len(slot.entries)
      <4>1. 4 \in 1 .. Len(views) /\ views[4].kind = "entry"
        BY <1>2, <2>2, <3>1
      <4>2. CASE Len(views) # 4
        <5>1. views'[4] = views[4] /\ Len(views) >= 4
          BY <1>2, <2>2, <4>1, <4>2
        <5> QED
          BY <1>1, <4>1, <5>1 DEF IInv, InRange
      <4>3. CASE Len(views) = 4
        <5>1. range = "rib"
          BY <4>1, <4>3 DEF IInv, TypeOK, Above
        <5>2. n \in 0 .. Len(slot.entries) - 1
          BY <1>5, <2>1, <5>1 DEF RangeSize, EntryCount
        <5> QED
          BY <2>2, <4>3, <5>2, SlotFacts
      <4> QED
        BY <4>2, <4>3
    <3>2. ASSUME Len(views') >= 6, views'[6].kind = "segment"
          PROVE  views'[6].at + 1 \in 1 .. Len(slot.entries[views'[4].at + 1].segments)
      <4>1. 4 \in 1 .. Len(views) /\ 6 \in 1 .. Len(views) /\ views[6].kind = "segment"
        <5>1. 4 \in 1 .. Len(views) /\ 6 \in 1 .. Len(views)
          BY <1>2, <2>2, <3>2
        <5> QED
          BY <2>2, <3>2, <5>1
      <4>2. views'[4] = views[4] /\ views[4].kind = "entry"
        BY <1>2, <2>2, <3>2, <4>1, Depths
      <4>3. CASE Len(views) # 6
        <5>1. views'[6] = views[6] /\ Len(views) >= 6
          BY <1>2, <2>2, <4>1, <4>3
        <5> QED
          BY <1>1, <4>1, <4>2, <5>1 DEF IInv, InRange
      <4>4. CASE Len(views) = 6
        <5>1. range = "as_path"
          BY <4>1, <4>4 DEF IInv, TypeOK, Above
        <5>2. Entry = slot.entries[views[4].at + 1] /\ Entry \in RibEntries
          BY <1>1, <4>1, <4>2, EntryIsFourth
        <5>3. n \in 0 .. Len(Entry.segments) - 1 /\ Len(Entry.segments) \in Nat
          <6>1. RangeSize(range) = Len(Entry.segments)
            BY <5>1 DEF RangeSize, SegmentCount
          <6>2. n \in 0 .. RangeSize(range) - 1
            BY <1>5, <2>1
          <6>3. Entry.segments \in Seq(Nat)
            BY <5>2, TableDumpAssumption
          <6> QED
            BY <6>1, <6>2, <6>3, Elements
        <5> QED
          BY <2>2, <4>2, <4>4, <5>2, <5>3
      <4> QED
        BY <4>3, <4>4
    <3> QED
      BY <1>1, <3>1, <3>2 DEF InRange
  <2> QED
    BY <2>2, <2>3, <2>4, <2>5, <2>6, <2>7 DEF IInv, ViewsAreViews
<1> QED
  BY <1>4, <1>5 DEF MoveTo

(* A client who moves an iterator by one at a time.                        *)
MoveByOne ==
  /\ views # <<>>
  /\ \/ MoveTo(Increment(Last(views).at), Last(views).due + 1)
     \/ MoveTo(Decrement(Last(views).at), Last(views).due - 1)

NextByOne ==
  \/ Decode
  \/ UseKept
  \/ ToMrt
  \/ ToTableDumpV2
  \/ ToPeerIndex
  \/ ToRib
  \/ PeerIp
  \/ \E type \in Accessors : Attribute(type)
  \/ \E range \in Ranges : Subscript(range)
  \/ MoveByOne
  \/ Drop

LEMMA MoveByOneInvariant == ASSUME IInv, MoveByOne PROVE IInv'
<1>1. views # <<>> /\ pc = "running"
  BY DEF MoveByOne, MoveTo
<1>2. Last(views).at \in Nat /\ Last(views).at = Last(views).due
  <2>1. Len(views) \in 1 .. Len(views) /\ Last(views) = views[Len(views)]
    BY <1>1 DEF IInv, ViewsAreViews, Last
  <2>2. Last(views) \in ViewType
    BY <2>1, Elements DEF IInv, ViewsAreViews
  <2> QED
    BY <1>1, <2>1, <2>2 DEF IInv, InStep, ViewType
<1>3. PICK at, due : /\ MoveTo(at, due)
                     /\ \/ at = Last(views).at + 1 /\ due = Last(views).due + 1
                        \/ at = Last(views).at - 1 /\ due = Last(views).due - 1
  BY DEF MoveByOne, Increment, Decrement, PlusAssign, MinusAssign, RangeAdd, RangeSubtract
<1>4. at = due
  BY <1>2, <1>3
<1> QED
  BY <1>3, <1>4, MoveToInvariant

(* += and -= move by one, which is right for those who ask for one.        *)
LEMMA OneIsOne == ASSUME OneAtATime PROVE [Next]_vars => [NextByOne]_vars
<1>1. MoveIterator => MoveByOne
  BY DEF MoveIterator, MoveByOne, OneAtATime, Increment, Decrement, PlusAssign, MinusAssign
<1> QED
  BY <1>1 DEF Next, NextByOne

LEMMA ByOneIsAllowed == [NextByOne]_vars => [Next]_vars
<1>1. MoveByOne => MoveIterator
  BY DEF MoveIterator, MoveByOne
<1> QED
  BY <1>1 DEF Next, NextByOne

LEMMA DropInvariant == ASSUME IInv, Drop PROVE IInv'
  BY Shortened DEF Drop, IInv, TypeOK

LEMMA DecodeInvariant == ASSUME IInv, Decode PROVE IInv'
<1>1. kept' \in BOOLEAN /\ (~kept' => views = <<>>)
  BY DEF Decode
<1>2. TypeOK' /\ ViewsAreViews' /\ InStep' /\ ReadsOnlyFilled'
  BY DEF Decode, IInv, TypeOK, ViewsAreViews, InStep, ReadsOnlyFilled
<1>3. DumpIsDump' /\ InRange'
  <2> SUFFICES ASSUME ~kept' PROVE DumpIsDump' /\ InRange'
    BY DEF DumpIsDump, InRange
  <2>1. views' = <<>> /\ Len(views') = 0 /\ 1 .. Len(views') = {}
    BY <1>1 DEF Decode
  <2> QED
    BY <2>1 DEF DumpIsDump, InRange
<1> QED
  BY <1>2, <1>3 DEF IInv

LEMMA UseKeptInvariant == ASSUME IInv, UseKept PROVE IInv'
  BY DEF UseKept, IInv, TypeOK, ViewsAreViews, InStep, DumpIsDump, InRange, ReadsOnlyFilled

LEMMA StutterInvariant == ASSUME IInv, UNCHANGED vars PROVE IInv'
  BY DEF vars, IInv, TypeOK, ViewsAreViews, InStep, DumpIsDump, InRange, ReadsOnlyFilled, Last

LEMMA NextByOneInvariant == IInv /\ [NextByOne]_vars => IInv'
<1> SUFFICES ASSUME IInv, [NextByOne]_vars PROVE IInv'
  OBVIOUS
<1>1. CASE Decode
  BY <1>1, DecodeInvariant
<1>2. CASE UseKept
  BY <1>2, UseKeptInvariant
<1>3. CASE ToMrt
  BY <1>3, ToMrtInvariant
<1>4. CASE ToTableDumpV2
  BY <1>4, ToTableDumpV2Invariant
<1>5. CASE ToPeerIndex
  BY <1>5, ToPeerIndexInvariant
<1>6. CASE ToRib
  BY <1>6, ToRibInvariant
<1>7. CASE PeerIp
  BY <1>7, PeerIpInvariant
<1>8. CASE \E type \in Accessors : Attribute(type)
  BY <1>8, AttributeInvariant
<1>9. CASE \E range \in Ranges : Subscript(range)
  BY <1>9, SubscriptInvariant
<1>10. CASE MoveByOne
  BY <1>10, MoveByOneInvariant
<1>11. CASE Drop
  BY <1>11, DropInvariant
<1>12. CASE UNCHANGED vars
  BY <1>12, StutterInvariant
<1> QED
  BY <1>1, <1>2, <1>3, <1>4, <1>5, <1>6, <1>7, <1>8, <1>9, <1>10, <1>11, <1>12 DEF NextByOne

LEMMA NextInvariant == ASSUME OneAtATime PROVE IInv /\ [Next]_vars => IInv'
  BY OneIsOne, NextByOneInvariant

LEMMA Invariance == ASSUME OneAtATime PROVE Spec => []IInv
<1>1. IInv /\ [Next]_vars => IInv'
  BY NextInvariant
<1> QED
  BY <1>1, InitInvariant, PTL DEF Spec

-----------------------------------------------------------------------------
(* The views nest as the structures do, and no iterator is before the      *)
(* first element.                                                          *)
THEOREM ViewsTypeCorrect == ASSUME OneAtATime PROVE Spec => []TypeOK
<1>1. IInv => TypeOK
  BY DEF IInv
<1> QED
  BY <1>1, Invariance, PTL

(* The assertions of the accessors suffice, for every type, subtype and    *)
(* table of attributes, and every order of calls: a union member that was  *)
(* not filled is read through a view of an earlier message or for an       *)
(* attribute asked for as raw bytes.                                       *)
THEOREM AssertionsSuffice == ASSUME OneAtATime PROVE Spec => []ReadsOnlyFilled
<1>1. IInv => ReadsOnlyFilled
  BY DEF IInv
<1> QED
  BY <1>1, Invariance, PTL

(* Steps of one, whichever operators make them, lead where they should, in *)
(* ranges of any size.                                                     *)
THEOREM StepsOfOneAddUp == ASSUME OneAtATime PROVE Spec => []IteratorsKeepStep
<1>1. IInv => IteratorsKeepStep
  <2> SUFFICES ASSUME IInv, pc = "running", NEW i \in 1 .. Len(views)
               PROVE  RangeDifference(views[i].at, Begin) = views[i].due
    BY DEF IteratorsKeepStep
  <2>1. views[i] \in ViewType
    BY Elements DEF IInv, ViewsAreViews
  <2> QED
    BY <2>1 DEF IInv, InStep, RangeDifference, Begin, ViewType
<1> QED
  BY <1>1, Invariance, PTL

-----------------------------------------------------------------------------
(* A loop over a range takes its first element, or ends, as a client may.  *)
LEMMA ForBeginStep ==
  ASSUME IInv, NEW range \in Ranges, NEW body, NEW after,
         ForBegin(range, body, after)
  PROVE  [NextByOne]_vars
<1>1. CASE UNCHANGED vars
  BY <1>1
<1>2. CASE Begin # End(RangeSize(range)) /\ SubscriptAt(range, 0)
  <2>1. /\ pc = "running" /\ ~kept /\ Len(views) \in 1 .. Len(views)
        /\ views[Len(views)].kind = range
    BY <1>2, Elements DEF SubscriptAt, Holding, IInv, ViewsAreViews
  <2>2. RangeSize(range) \in Nat
    BY <2>1, SizeIsNat
  <2>3. 0 \in 0 .. RangeSize(range) - 1
    BY <1>2, <2>2 DEF End, RangeAdd, Begin
  <2>4. Holding(range)
    BY <1>2 DEF SubscriptAt
  <2>5. Subscript(range)
    BY <1>2, <2>3, <2>4 DEF Subscript
  <2> QED
    BY <2>5 DEF NextByOne
<1> QED
  BY <1>1, <1>2 DEF ForBegin

LEMMA ForNextStep ==
  ASSUME NEW body, NEW after, ForNext(body, after)
  PROVE  [NextByOne]_vars
<1>1. views # <<>>
  BY DEF ForNext, MoveTo
<1> QED
  BY <1>1 DEF ForNext, MoveByOne, NextByOne

LEMMA MainStep ==
  ASSUME IInv, Main
  PROVE  [NextByOne]_vars
<1>1. CASE ToRibOf
  BY <1>1 DEF ToRibOf, NextByOne
<1>2. CASE Entries
  <2>1. "rib" \in Ranges
    BY DEF Ranges, ElementKind
  <2> QED
    BY <1>2, <2>1, ForBeginStep, ForNextStep DEF Entries
<1>3. CASE Path
  <2>1. "as_path" \in Ranges /\ "segment" \in Ranges /\ AS_PATH \in Accessors
    BY DEF Ranges, ElementKind, Accessors
  <2>2. CASE Attribute(AS_PATH)
    BY <2>1, <2>2 DEF NextByOne
  <2>3. CASE ForBegin("as_path", "segment", "end_of_path")
    BY <2>1, <2>3, ForBeginStep
  <2>4. CASE ForBegin("segment", "asn", "next_segment")
    BY <2>1, <2>4, ForBeginStep
  <2>5. CASE ForNext("segment", "end_of_path")
    BY <2>5, ForNextStep
  <2>6. CASE Drop
    BY <2>6 DEF NextByOne
  <2> QED
    BY <1>3, <2>2, <2>3, <2>4, <2>5, <2>6 DEF Path
<1>4. CASE PrintHop
  BY <1>4, ForNextStep DEF PrintHop
<1>5. CASE Communities
  <2>1. "communities" \in Ranges /\ COMMUNITIES \in Accessors
    BY DEF Ranges, ElementKind, Accessors
  <2>2. CASE Attribute(COMMUNITIES)
    BY <2>1, <2>2 DEF NextByOne
  <2>3. CASE ForBegin("communities", "community", "end_of_communities")
    BY <2>1, <2>3, ForBeginStep
  <2>4. CASE Drop
    BY <2>4 DEF NextByOne
  <2> QED
    BY <1>5, <2>2, <2>3, <2>4 DEF Communities
<1>6. CASE PrintCommunity
  BY <1>6, ForNextStep DEF PrintCommunity
<1>7. CASE EndOfBody
  BY <1>7 DEF EndOfBody, NextByOne
<1> QED
  BY <1>1, <1>2, <1>3, <1>4, <1>5, <1>6, <1>7 DEF Main

LEMMA InTheLoop == Main \/ NextMessage => line # "any"
  BY DEF Main, NextMessage, ToRibOf, Entries, Path, PrintHop, Communities,
         PrintCommunity, EndOfBody, At

LEMMA DumpSteps ==
  ASSUME line # "any" => IInv, [DumpNext]_dumpVars
  PROVE  [Next]_vars /\ (line' # "any" => IInv')
<1>1. CASE line = "any" /\ Next /\ UNCHANGED <<line, printed>>
  BY <1>1
<1>2. CASE Main \/ NextMessage
  <2>1. IInv
    BY <1>2, InTheLoop
  <2>2. [NextByOne]_vars
    BY <1>2, <2>1, MainStep DEF NextMessage, NextByOne
  <2> QED
    BY <2>1, <2>2, NextByOneInvariant, ByOneIsAllowed
<1>3. CASE UNCHANGED dumpVars
  BY <1>3, StutterInvariant DEF dumpVars
<1> QED
  BY <1>1, <1>2, <1>3 DEF DumpNext

(* The program calls nothing that a client may not call.                   *)
THEOREM DumpIsAClient == DumpSpec => Spec
<1>1. DumpInit => Init /\ (line # "any" => IInv)
  BY InitInvariant DEF DumpInit
<1>2. (line # "any" => IInv) /\ [DumpNext]_dumpVars
      => [Next]_vars /\ (line # "any" => IInv)'
  BY DumpSteps
<1> QED
  BY <1>1, <1>2, PTL DEF DumpSpec, Spec

-----------------------------------------------------------------------------
(* What the program prints, and how far it has come.  The entry, and the   *)
(* segment or the community, and the hop that it is at are those of the    *)
(* fourth view, the sixth and the seventh.                                 *)
InEntry == views[4].at + 1
InSegment == views[6].at + 1
AtHop == views[7].at + 1

(* The first place that is not printed yet, or one just before it.         *)
Cursor ==
  CASE line \in {"entry", "path"} -> Hop(InEntry, 0, 0)
    [] line = "segment" -> Hop(InEntry, InSegment, 0)
    [] line = "asn" -> Hop(InEntry, InSegment, AtHop)
    [] line = "next_segment" -> Hop(InEntry, InSegment + 1, 0)
    [] line \in {"end_of_path", "has_communities", "communities"} -> Community(InEntry, 0)
    [] line = "community" -> Community(InEntry, InSegment)
    [] line \in {"end_of_communities", "next_entry"} -> Hop(InEntry + 1, 0, 0)
    [] line \in {"done", "increment"} -> Hop(Len(slot.entries) + 1, 0, 0)
    [] OTHER -> Hop(1, 0, 0)

(* The view that each line works on.                                       *)
LastView(n, kind) == Len(views) = n /\ views[n].kind = kind
LineHasView ==
  /\ line \in {"message", "increment"} => views = <<>>
  /\ line = "table_dump_v2" => LastView(1, "mrt")
  /\ line = "subtype" => LastView(2, "table_dump_v2")
  /\ line = "rib" => LastView(3, "rib")
  /\ line \in {"entry", "has_communities", "next_entry"} => LastView(4, "entry")
  /\ line \in {"path", "end_of_path"} => LastView(5, "as_path")
  /\ line \in {"segment", "next_segment"} => LastView(6, "segment")
  /\ line = "asn" => LastView(7, "asn")
  /\ line \in {"communities", "end_of_communities"} => LastView(5, "communities")
  /\ line = "community" => LastView(6, "community")
  /\ line \in {"asn", "community"} => Cursor \in InMessage
  /\ line = "communities" => slot.entries[InEntry].table[COMMUNITIES] # 0

UpToCursor == \A x \in InMessage : x \in Range(printed) <=> Before(x, Cursor)

InOrder == \A i, j \in DOMAIN printed : i < j => Before(printed[i], printed[j])
NothingSkipped ==
  \A i \in DOMAIN printed : \A x \in InMessage : Before(x, printed[i]) => x \in Range(printed)

DumpInv ==
  line # "any" =>
    /\ raw = {} /\ ~kept
    /\ pc # "running" => line # "increment"
    /\ printed \in Seq(InMessage)
    /\ InOrder /\ NothingSkipped
    /\ pc = "running" => LineHasView /\ UpToCursor

-----------------------------------------------------------------------------
(* The places in a message and their order.                                *)
LEMMA EntryFacts ==
  ASSUME IInv, NEW e \in DOMAIN slot.entries
  PROVE  /\ slot.entries[e].segments \in Seq(Nat)
         /\ slot.entries[e].communities \in Nat
         /\ slot.entries[e].table[COMMUNITIES] \in {0, COMMUNITIES}
         /\ e \in Nat \ {0}
<1>1. slot.entries \in Seq(RibEntries) /\ slot.entries[e] \in RibEntries
  BY SlotFacts
<1>2. COMMUNITIES \in Accessors
  BY DEF Accessors, COMMUNITIES
<1> QED BY <1>1, <1>2, TableDumpAssumption

LEMMA PlacesAre ==
  ASSUME NEW x
  PROVE  x \in InMessage <=>
           \E e \in DOMAIN slot.entries :
             \/ \E s \in DOMAIN slot.entries[e].segments :
                  \E n \in 1 .. slot.entries[e].segments[s] : x = Hop(e, s, n)
             \/ /\ slot.entries[e].table[COMMUNITIES] # 0
                /\ \E n \in 1 .. slot.entries[e].communities : x = Community(e, n)
BY DEF InMessage, Hops, CommunitiesOf

(* A place that is a hop, or a community, of an entry.                     *)
IsHop(x) ==
  /\ x.kind = "hop"
  /\ x.segment \in 1 .. Len(slot.entries[x.entry].segments)
  /\ x.at \in 1 .. slot.entries[x.entry].segments[x.segment]
  /\ x = Hop(x.entry, x.segment, x.at)
IsCommunity(x) ==
  /\ x.kind = "community" /\ x.segment = 0
  /\ slot.entries[x.entry].table[COMMUNITIES] # 0
  /\ x.at \in 1 .. slot.entries[x.entry].communities
  /\ x = Community(x.entry, x.at)

LEMMA Places ==
  ASSUME IInv, NEW x \in InMessage
  PROVE  /\ x.entry \in DOMAIN slot.entries
         /\ x.entry \in 1 .. Len(slot.entries) /\ Len(slot.entries) \in Nat
         /\ x.segment \in Nat /\ x.at \in Nat \ {0}
         /\ IsHop(x) \/ IsCommunity(x)
<1>1. PICK e \in DOMAIN slot.entries :
        \/ \E s \in DOMAIN slot.entries[e].segments :
             \E n \in 1 .. slot.entries[e].segments[s] : x = Hop(e, s, n)
        \/ /\ slot.entries[e].table[COMMUNITIES] # 0
           /\ \E n \in 1 .. slot.entries[e].communities : x = Community(e, n)
  BY PlacesAre
<1>2. /\ slot.entries[e].segments \in Seq(Nat)
      /\ slot.entries[e].communities \in Nat
  BY EntryFacts
<1>3. DOMAIN slot.entries = 1 .. Len(slot.entries) /\ Len(slot.entries) \in Nat
  BY SlotFacts
<1>4. CASE \E s \in DOMAIN slot.entries[e].segments :
             \E n \in 1 .. slot.entries[e].segments[s] : x = Hop(e, s, n)
  <2>1. PICK s \in DOMAIN slot.entries[e].segments :
          \E n \in 1 .. slot.entries[e].segments[s] : x = Hop(e, s, n)
    BY <1>4
  <2>2. PICK n \in 1 .. slot.entries[e].segments[s] : x = Hop(e, s, n)
    BY <2>1
  <2>3. x.kind = "hop" /\ x.entry = e /\ x.segment = s /\ x.at = n
    BY <2>2 DEF Hop
  <2>4. s \in 1 .. Len(slot.entries[e].segments) /\ s \in Nat
    BY <1>2, <2>2
  <2>5. slot.entries[e].segments[s] \in Nat
    BY <1>2, <2>2
  <2> QED BY <1>3, <2>2, <2>3, <2>4, <2>5 DEF IsHop
<1>5. CASE /\ slot.entries[e].table[COMMUNITIES] # 0
           /\ \E n \in 1 .. slot.entries[e].communities : x = Community(e, n)
  <2>1. PICK n \in 1 .. slot.entries[e].communities : x = Community(e, n)
    BY <1>5
  <2>2. x.kind = "community" /\ x.entry = e /\ x.segment = 0 /\ x.at = n
    BY <2>1 DEF Community
  <2> QED BY <1>2, <1>3, <1>5, <2>1, <2>2 DEF IsCommunity
<1> QED BY <1>1, <1>4, <1>5

LEMMA BeforeHop ==
  ASSUME IInv, NEW x \in InMessage, NEW e \in Nat, NEW s \in Nat, NEW n \in Nat
  PROVE  Before(x, Hop(e, s, n)) <=>
           \/ x.entry < e
           \/ /\ x.entry = e /\ IsHop(x)
              /\ x.segment < s \/ (x.segment = s /\ x.at < n)
BY Places DEF Before, Hop, IsHop, IsCommunity

LEMMA BeforeCommunity ==
  ASSUME IInv, NEW x \in InMessage, NEW e \in Nat, NEW n \in Nat
  PROVE  Before(x, Community(e, n)) <=>
           \/ x.entry < e
           \/ x.entry = e /\ IsHop(x)
           \/ x.entry = e /\ IsCommunity(x) /\ x.at < n
<1>1. /\ x.entry \in Nat /\ x.segment \in Nat /\ x.at \in Nat
      /\ IsHop(x) \/ IsCommunity(x)
  BY Places
<1>2. IsHop(x) => x.kind = "hop"
  BY DEF IsHop
<1>3. IsCommunity(x) => x.kind = "community" /\ x.segment = 0
  BY DEF IsCommunity
<1> QED BY <1>1, <1>2, <1>3 DEF Before, Community

(* A place is printed.                                                     *)
LEMMA OneMore ==
  ASSUME NEW S, NEW s \in Seq(S), NEW e \in S
  PROVE  /\ Append(s, e) \in Seq(S)
         /\ Range(Append(s, e)) = Range(s) \cup {e}
         /\ DOMAIN Append(s, e) = DOMAIN s \cup {Len(s) + 1}
         /\ Append(s, e)[Len(s) + 1] = e
         /\ \A i \in DOMAIN s : Append(s, e)[i] = s[i] /\ i < Len(s) + 1
         /\ DOMAIN s = 1 .. Len(s) /\ Len(s) \in Nat
<1>1. /\ Append(s, e) \in Seq(S) /\ Len(s) \in Nat
      /\ DOMAIN s = 1 .. Len(s) /\ DOMAIN Append(s, e) = 1 .. Len(s) + 1
      /\ Append(s, e)[Len(s) + 1] = e
      /\ \A i \in 1 .. Len(s) : Append(s, e)[i] = s[i]
  OBVIOUS
<1>2. 1 .. Len(s) + 1 = 1 .. Len(s) \cup {Len(s) + 1}
  BY <1>1
<1>3. \A i \in 1 .. Len(s) : i < Len(s) + 1
  BY <1>1
<1>4. Range(Append(s, e)) = Range(s) \cup {e}
  BY <1>1, <1>2 DEF Range
<1> QED BY <1>1, <1>2, <1>3, <1>4

(* The program goes on without printing: the cursor moves over nothing.    *)
LEMMA CursorMoves ==
  ASSUME IInv, DumpInv, line # "any", pc = "running",
         UNCHANGED <<raw, kept, slot, printed>>,
         LineHasView',
         \A x \in InMessage : Before(x, Cursor') <=> Before(x, Cursor),
         pc' = "running"
  PROVE  DumpInv'
<1>1. InMessage' = InMessage
  BY DEF InMessage, Hops, CommunitiesOf
<1>2. UpToCursor'
  <2>1. \A x \in InMessage : x \in Range(printed) <=> Before(x, Cursor)
    BY DEF DumpInv, UpToCursor
  <2>2. Range(printed') = Range(printed)
    OBVIOUS
  <2> QED BY <1>1, <2>1, <2>2 DEF UpToCursor
<1>3. InOrder' /\ NothingSkipped'
  <2>1. InOrder'
    BY DEF InOrder, DumpInv
  <2>2. \A i \in DOMAIN printed :
          \A x \in InMessage : Before(x, printed[i]) => x \in Range(printed)
    BY DEF NothingSkipped, DumpInv
  <2>3. NothingSkipped'
    BY <1>1, <2>2 DEF NothingSkipped
  <2> QED BY <2>1, <2>3
<1>4. raw' = {} /\ ~kept' /\ printed' \in Seq(InMessage')
  BY <1>1 DEF DumpInv
<1> QED BY <1>2, <1>3, <1>4 DEF DumpInv

(* An assertion or a missing member ends it.                               *)
LEMMA DumpStops ==
  ASSUME IInv, DumpInv, line # "any",
         UNCHANGED <<raw, kept, slot, printed>>, pc' # "running", line' # "increment"
  PROVE  DumpInv'
<1>1. InMessage' = InMessage
  BY DEF InMessage, Hops, CommunitiesOf
<1>2. InOrder'
  BY DEF InOrder, DumpInv
<1>3. \A i \in DOMAIN printed :
        \A x \in InMessage : Before(x, printed[i]) => x \in Range(printed)
  BY DEF NothingSkipped, DumpInv
<1>4. NothingSkipped'
  BY <1>1, <1>3 DEF NothingSkipped
<1>5. raw' = {} /\ ~kept' /\ printed' \in Seq(InMessage')
  BY <1>1 DEF DumpInv
<1> QED BY <1>2, <1>4, <1>5 DEF DumpInv

(* It prints what is at the cursor.                                        *)
LEMMA CursorPrints ==
  ASSUME IInv, DumpInv, line # "any", pc = "running", line' # "any",
         UNCHANGED <<raw, kept, slot>>,
         Cursor \in InMessage, printed' = Append(printed, Cursor),
         LineHasView',
         \A x \in InMessage : Before(x, Cursor') <=> Before(x, Cursor) \/ x = Cursor,
         pc' = "running"
  PROVE  DumpInv'
<1>1. InMessage' = InMessage
  BY DEF InMessage, Hops, CommunitiesOf
<1>2. PICK c : c = Cursor
  OBVIOUS
<1>3. /\ c \in InMessage /\ printed' = Append(printed, c) /\ printed \in Seq(InMessage)
      /\ \A x \in InMessage : x \in Range(printed) <=> Before(x, c)
      /\ \A x \in InMessage : Before(x, Cursor') <=> Before(x, c) \/ x = c
  BY <1>2 DEF DumpInv, UpToCursor
<1>4. PICK last : last = Len(printed) + 1
  OBVIOUS
<1>5. /\ printed' \in Seq(InMessage)
      /\ Range(printed') = Range(printed) \cup {c}
      /\ DOMAIN printed' = DOMAIN printed \cup {last}
      /\ printed'[last] = c
      /\ \A i \in DOMAIN printed : printed'[i] = printed[i] /\ i < last
      /\ last \in Nat /\ DOMAIN printed \subseteq Nat
  <2> HIDE DEF InMessage
  <2> QED BY <1>3, <1>4, OneMore
<1>6. \A i \in DOMAIN printed : printed[i] \in InMessage /\ printed[i] \in Range(printed)
  <2> HIDE DEF InMessage
  <2> QED BY <1>3 DEF Range
<1>7. InOrder'
  <2> SUFFICES ASSUME NEW i \in DOMAIN printed', NEW j \in DOMAIN printed', i < j
               PROVE  Before(printed'[i], printed'[j])
    BY DEF InOrder
  <2>1. i \in DOMAIN printed
    BY <1>5
  <2>2. CASE j \in DOMAIN printed
    BY <1>5, <2>1, <2>2 DEF DumpInv, InOrder
  <2>3. CASE j = last
    <3>1. Before(printed[i], c)
      BY <1>3, <1>6, <2>1
    <3>2. printed'[i] = printed[i] /\ printed'[j] = c
      BY <1>5, <2>1, <2>3
    <3> QED BY <3>1, <3>2
  <2> QED BY <1>5, <2>2, <2>3
<1>8. NothingSkipped'
  <2> SUFFICES ASSUME NEW i \in DOMAIN printed', NEW x \in InMessage, Before(x, printed'[i])
               PROVE  x \in Range(printed')
    BY <1>1 DEF NothingSkipped
  <2>1. CASE i \in DOMAIN printed
    BY <1>5, <2>1 DEF DumpInv, NothingSkipped
  <2>2. CASE i = last
    BY <1>3, <1>5, <2>2
  <2> QED BY <1>5, <2>1, <2>2
<1>9. UpToCursor'
  BY <1>1, <1>3, <1>5 DEF UpToCursor
<1>10. raw' = {} /\ ~kept' /\ printed' \in Seq(InMessage')
  BY <1>1, <1>5 DEF DumpInv
<1> QED BY <1>7, <1>8, <1>9, <1>10 DEF DumpInv

-----------------------------------------------------------------------------
(* Where the views say that the program is.                                *)
LEMMA Nested ==
  ASSUME IInv
  PROVE  /\ views \in Seq(ViewType) /\ Len(views) \in Nat
         /\ LastView(5, "as_path") \/ LastView(5, "communities") => views[4].kind = "entry"
         /\ LastView(6, "segment") => views[5].kind = "as_path" /\ views[4].kind = "entry"
         /\ LastView(6, "community") => views[5].kind = "communities" /\ views[4].kind = "entry"
         /\ LastView(7, "asn") => views[6].kind = "segment" /\ views[4].kind = "entry"
         /\ LastView(4, "entry") => views[3].kind = "rib"
<1>1. /\ views \in Seq(ViewType) /\ Len(views) \in Nat
      /\ \A i \in 1 .. Len(views) : i # 1 => /\ views[i].kind \in DOMAIN Above
                                             /\ views[i - 1].kind \in Above[views[i].kind]
  BY DEF IInv, ViewsAreViews, TypeOK
<1>2. \A i, j \in 1 .. Len(views) :
        i # 1 /\ j = i - 1 =>
          /\ views[i].kind \in {"as_path", "communities"} => views[j].kind = "entry"
          /\ views[i].kind = "segment" => views[j].kind = "as_path"
          /\ views[i].kind = "community" => views[j].kind = "communities"
          /\ views[i].kind = "asn" => views[j].kind = "segment"
          /\ views[i].kind = "entry" => views[j].kind = "rib"
  BY <1>1 DEF Above
<1>3. ASSUME NEW n \in 2 .. 7, Len(views) = n
      PROVE  /\ n \in 1 .. Len(views) /\ n # 1
             /\ n - 1 \in 1 .. Len(views)
             /\ n > 2 => n - 2 \in 1 .. Len(views) /\ n - 1 # 1 /\ n - 2 = n - 1 - 1
             /\ n > 3 => n - 3 \in 1 .. Len(views) /\ n - 2 # 1 /\ n - 3 = n - 2 - 1
  BY <1>3
<1>4. LastView(5, "as_path") \/ LastView(5, "communities") => views[4].kind = "entry"
  BY <1>2, <1>3 DEF LastView
<1>5. LastView(6, "segment") => views[5].kind = "as_path" /\ views[4].kind = "entry"
  BY <1>2, <1>3 DEF LastView
<1>6. LastView(6, "community") => views[5].kind = "communities" /\ views[4].kind = "entry"
  BY <1>2, <1>3 DEF LastView
<1>7. LastView(7, "asn") => views[6].kind = "segment" /\ views[4].kind = "entry"
  <2> SUFFICES ASSUME LastView(7, "asn")
               PROVE  views[6].kind = "segment" /\ views[4].kind = "entry"
    OBVIOUS
  <2>1. Len(views) = 7 /\ views[7].kind = "asn" /\ 6 \in 1 .. Len(views)
    BY DEF LastView
  <2>2. views[6].kind = "segment"
    BY <1>2, <2>1
  <2>3. views[4].kind = "entry"
    BY <2>1, <2>2, Depths
  <2> QED BY <2>2, <2>3
<1>8. LastView(4, "entry") => views[3].kind = "rib"
  BY <1>2, <1>3 DEF LastView
<1> QED BY <1>1, <1>4, <1>5, <1>6, <1>7, <1>8

LEMMA AtEntry ==
  ASSUME IInv, pc = "running", ~kept, Len(views) >= 4, views[4].kind = "entry"
  PROVE  /\ InEntry \in DOMAIN slot.entries /\ InEntry \in Nat \ {0}
         /\ InEntry \in 1 .. Len(slot.entries) /\ Len(slot.entries) \in Nat
         /\ Entry = slot.entries[InEntry]
         /\ RangeSize("rib") = Len(slot.entries)
         /\ RangeSize("as_path") = Len(slot.entries[InEntry].segments)
         /\ RangeSize("communities") = slot.entries[InEntry].communities
         /\ Index("entry") = InEntry
<1>1. 4 \in 1 .. Len(views) /\ Len(views) \in Nat
  BY Nested
<1>2. Entry = slot.entries[InEntry]
  BY <1>1, EntryIsFourth DEF InEntry
<1>3. InEntry \in 1 .. Len(slot.entries)
  BY DEF IInv, InRange, InEntry
<1>4. slot.entries \in Seq(RibEntries) /\ Len(slot.entries) \in Nat
  BY SlotFacts
<1>5. Place("entry") = 4
  <2>1. PICK j : j = CHOOSE k \in 1 .. Len(views) : views[k].kind = "entry"
    OBVIOUS
  <2>2. j \in 1 .. Len(views) /\ views[j].kind = "entry"
    BY <1>1, <2>1
  <2>3. j = 4
    BY <2>2, Depths
  <2> QED BY <2>1, <2>3 DEF Place
<1> QED
  BY <1>2, <1>3, <1>4, <1>5
  DEF RangeSize, EntryCount, SegmentCount, CommunityCount, Index, InEntry

LEMMA AtSegment ==
  ASSUME IInv, pc = "running", ~kept, Len(views) >= 6, views[6].kind = "segment"
  PROVE  /\ views[4].kind = "entry"
         /\ InSegment \in 1 .. Len(slot.entries[InEntry].segments) /\ InSegment \in Nat \ {0}
         /\ Len(slot.entries[InEntry].segments) \in Nat
         /\ slot.entries[InEntry].segments[InSegment] \in Nat
         /\ RangeSize("segment") = slot.entries[InEntry].segments[InSegment]
         /\ Index("segment") = InSegment
<1>1. /\ 6 \in 1 .. Len(views) /\ Len(views) \in Nat /\ Len(views) >= 4
      /\ views[4].kind = "entry"
  BY Nested, Depths
<1>2. InEntry \in DOMAIN slot.entries /\ Entry = slot.entries[InEntry]
  BY <1>1, AtEntry
<1>3. InSegment \in 1 .. Len(slot.entries[InEntry].segments)
  BY DEF IInv, InRange, InEntry, InSegment
<1>4. slot.entries[InEntry].segments \in Seq(Nat)
  BY <1>2, EntryFacts
<1>5. Place("segment") = 6
  <2>1. PICK j : j = CHOOSE k \in 1 .. Len(views) : views[k].kind = "segment"
    OBVIOUS
  <2>2. j \in 1 .. Len(views) /\ views[j].kind = "segment"
    BY <1>1, <2>1
  <2>3. j = 6
    BY <2>2, Depths
  <2> QED BY <2>1, <2>3 DEF Place
<1>6. Segment = slot.entries[InEntry].segments[InSegment]
  BY <1>2, <1>5 DEF Segment, Place, InSegment
<1>7. slot.entries[InEntry].segments[InSegment] \in Nat
  BY <1>3, <1>4, Elements
<1> QED
  BY <1>1, <1>3, <1>4, <1>5, <1>6, <1>7 DEF RangeSize, AsnCount, Index, InSegment

LEMMA AtElement ==
  ASSUME IInv, pc = "running", ~kept
  PROVE  /\ LastView(7, "asn") => Index("asn") = AtHop
         /\ LastView(6, "community") => Index("community") = InSegment
<1>1. /\ views \in Seq(ViewType) /\ Len(views) \in Nat
      /\ \A i, j \in 1 .. Len(views) :
           i # 1 /\ j = i - 1 =>
             /\ views[i].kind = "asn" => views[j].kind = "segment"
             /\ views[i].kind = "community" => views[j].kind = "communities"
             /\ views[i].kind = "communities" => views[j].kind = "entry"
  BY DEF IInv, ViewsAreViews, TypeOK, Above
<1>2. \A i \in 1 .. Len(views) :
        /\ i = 1 => views[i].kind = "mrt"
        /\ i # 1 => i - 1 \in 1 .. Len(views)
  BY <1>1 DEF IInv, TypeOK
<1>3. ASSUME NEW i \in 1 .. Len(views), views[i].kind = "asn"
      PROVE  i = 7
  <2>1. i # 1 /\ i - 1 \in 1 .. Len(views)
    BY <1>2, <1>3
  <2>2. views[i - 1].kind = "segment"
    BY <1>1, <1>3, <2>1
  <2>3. i - 1 = 6
    BY <2>1, <2>2, Depths
  <2> QED BY <2>3
<1>4. ASSUME NEW i \in 1 .. Len(views), views[i].kind = "community"
      PROVE  i = 6
  <2>1. i # 1 /\ i - 1 \in 1 .. Len(views)
    BY <1>2, <1>4
  <2>2. views[i - 1].kind = "communities"
    BY <1>1, <1>4, <2>1
  <2>3. i - 1 # 1 /\ i - 1 - 1 \in 1 .. Len(views)
    BY <1>2, <2>1, <2>2
  <2>4. views[i - 1 - 1].kind = "entry"
    BY <1>1, <2>1, <2>2, <2>3
  <2>5. i - 1 - 1 = 4
    BY <2>3, <2>4, Depths
  <2> QED BY <2>5
<1>5. ASSUME LastView(7, "asn")
      PROVE  Index("asn") = AtHop
  <2>1. 7 \in 1 .. Len(views) /\ views[7].kind = "asn"
    BY <1>5 DEF LastView
  <2>2. PICK j : j = CHOOSE k \in 1 .. Len(views) : views[k].kind = "asn"
    OBVIOUS
  <2>3. j \in 1 .. Len(views) /\ views[j].kind = "asn"
    BY <2>1, <2>2
  <2>4. j = 7
    BY <1>3, <2>3
  <2> QED BY <2>2, <2>4 DEF Index, Place, AtHop
<1>6. ASSUME LastView(6, "community")
      PROVE  Index("community") = InSegment
  <2>1. 6 \in 1 .. Len(views) /\ views[6].kind = "community"
    BY <1>6 DEF LastView
  <2>2. PICK j : j = CHOOSE k \in 1 .. Len(views) : views[k].kind = "community"
    OBVIOUS
  <2>3. j \in 1 .. Len(views) /\ views[j].kind = "community"
    BY <2>1, <2>2
  <2>4. j = 6
    BY <1>4, <2>3
  <2> QED BY <2>2, <2>4 DEF Index, Place, InSegment
<1> QED BY <1>5, <1>6

-----------------------------------------------------------------------------
(* What the loops and the accessors do to the views.                       *)
SameBelow(n) == \A i \in 1 .. n : views'[i] = views[i]

LEMMA ForBegins ==
  ASSUME IInv, pc = "running", NEW range \in Ranges, NEW body, NEW after,
         ForBegin(range, body, after), RangeSize(range) \in Nat
  PROVE  \/ RangeSize(range) = 0 /\ line' = after /\ UNCHANGED vars
         \/ /\ RangeSize(range) # 0 /\ line' = body /\ pc' = "running"
            /\ UNCHANGED <<raw, kept, slot>>
            /\ views' \in Seq(ViewType) /\ Len(views') = Len(views) + 1
            /\ views'[Len(views) + 1].kind = ElementKind[range]
            /\ views'[Len(views) + 1].at = 0
            /\ SameBelow(Len(views))
<1>1. CASE Begin = End(RangeSize(range))
  BY <1>1 DEF ForBegin, Begin, End, RangeAdd
<1>2. CASE Begin # End(RangeSize(range))
  <2> DEFINE v == [kind |-> ElementKind[range], at |-> 0, due |-> 0]
  <2>1. RangeSize(range) # 0
    BY <1>2 DEF Begin, End, RangeAdd
  <2>2. /\ line' = body /\ UNCHANGED <<raw, kept, slot>>
        /\ views' = Append(views, v)
        /\ pc' = IF 0 \in 0 .. RangeSize(range) - 1 THEN "running" ELSE "astray"
    BY <1>2 DEF ForBegin, SubscriptAt, RangeAdd, Begin
  <2>3. pc' = "running"
    BY <2>1, <2>2
  <2>4. v \in ViewType
    BY DEF ViewType, Kinds, Above, ElementKind, Ranges
  <2>5. /\ Append(views, v) \in Seq(ViewType)
        /\ Len(Append(views, v)) = Len(views) + 1
        /\ Append(views, v)[Len(views) + 1] = v
        /\ \A i \in 1 .. Len(views) : Append(views, v)[i] = views[i]
    <3> HIDE DEF v
    <3> QED BY <2>4, Appended DEF IInv
  <2>6. v.kind = ElementKind[range] /\ v.at = 0
    OBVIOUS
  <2> HIDE DEF v
  <2> QED BY <2>1, <2>2, <2>3, <2>5, <2>6 DEF SameBelow
<1> QED BY <1>1, <1>2

LEMMA ForGoesOn ==
  ASSUME IInv, pc = "running", ~kept, NEW body, NEW after, body # after,
         ForNext(body, after),
         NEW n \in Nat, Len(views) = n
  PROVE  /\ n > 1 /\ pc' = "running" /\ UNCHANGED <<raw, kept, slot>>
         /\ views' \in Seq(ViewType)
         /\ SameBelow(n - 1)
         /\ \/ /\ views[n].at + 1 = RangeSize(views[n - 1].kind)
               /\ line' = after /\ Len(views') = n - 1
            \/ /\ views[n].at + 1 < RangeSize(views[n - 1].kind)
               /\ line' = body /\ Len(views') = n
               /\ views'[n].kind = views[n].kind /\ views'[n].at = views[n].at + 1
<1> DEFINE range == views[n - 1].kind
           to == views[n].at + 1
           v == [kind |-> views[n].kind, at |-> to, due |-> views[n].due + 1]
<1>1. MoveTo(Increment(Last(views).at), Last(views).due + 1)
      /\ line' = IF Len(views') = Len(views) THEN body ELSE after
  BY DEF ForNext
<1>2. n > 1 /\ Last(views) = views[n]
  BY <1>1 DEF MoveTo, Last
<1>3. /\ views \in Seq(ViewType) /\ n \in 1 .. Len(views) /\ n - 1 \in 1 .. Len(views)
      /\ views # <<>>
  BY <1>2, Nested
<1>4. views[n] \in ViewType /\ views[n].at \in Nat /\ views[n].at = views[n].due
  <2>1. views[n] \in ViewType
    BY <1>3, Elements
  <2>2. views[n].at = views[n].due
    BY <1>3 DEF IInv, InStep
  <2> QED BY <2>1, <2>2 DEF ViewType
<1>5. Increment(Last(views).at) = to /\ to = views[n].due + 1 /\ to \in Nat
  BY <1>2, <1>4 DEF Increment, PlusAssign, RangeAdd
<1>6. /\ range \in Ranges
      /\ to \in 0 .. RangeSize(range)
      /\ UNCHANGED <<raw, slot, kept>>
      /\ IF to = End(RangeSize(range))
         THEN pc' = pc /\ views' = Front(views)
         ELSE /\ views' = [views EXCEPT ![n] =
                             [kind |-> views[n].kind, at |-> to, due |-> views[n].due + 1]]
              /\ pc' = IF to \in 0 .. RangeSize(range) - 1 THEN "running" ELSE "astray"
  BY <1>1, <1>2, <1>3, <1>5 DEF MoveTo
<1>7. RangeSize(range) \in Nat
  BY <1>3, <1>6, SizeIsNat
<1>8. End(RangeSize(range)) = RangeSize(range)
  BY <1>7 DEF End, RangeAdd, Begin
<1> HIDE DEF range, to
<1>9. CASE to = RangeSize(range)
  <2>1. views' = Front(views) /\ pc' = "running"
    BY <1>6, <1>8, <1>9
  <2>2. /\ views' \in Seq(ViewType) /\ Len(views') = n - 1
        /\ \A i \in 1 .. n - 1 : views'[i] = views[i]
    BY <1>3, <2>1, Fronted
  <2>3. line' = after
    BY <1>1, <2>2
  <2> QED BY <1>2, <1>6, <1>9, <2>1, <2>2, <2>3 DEF SameBelow, range, to
<1>10. CASE to # RangeSize(range)
  <2>1. to < RangeSize(range) /\ to \in 0 .. RangeSize(range) - 1
    BY <1>5, <1>6, <1>7, <1>10
  <2>2. pc' = "running" /\ views' = [views EXCEPT ![n] = v]
    BY <1>6, <1>8, <1>10, <2>1
  <2>3. v \in ViewType /\ v.kind = views[n].kind /\ v.at = to
    BY <1>4, <1>5 DEF ViewType
  <2> HIDE DEF v
  <2>4. /\ views' \in Seq(ViewType) /\ Len(views') = n /\ views'[n] = v
        /\ \A i \in 1 .. n : i # n => views'[i] = views[i]
    BY <1>3, <2>2, <2>3, Replaced
  <2>5. SameBelow(n - 1)
    BY <2>4 DEF SameBelow
  <2>6. line' = body
    BY <1>1, <2>4
  <2> QED BY <1>2, <1>6, <2>1, <2>2, <2>3, <2>4, <2>5, <2>6 DEF range, to
<1> QED BY <1>9, <1>10

LEMMA AccessAdds ==
  ASSUME IInv, pc = "running", NEW from, NEW to \in Kinds, NEW test, NEW filled,
         Access(from, View(to), test, filled)
  PROVE  /\ UNCHANGED <<raw, kept, slot>>
         /\ pc' # "running" \/ (/\ filled /\ views' \in Seq(ViewType)
                                /\ Len(views') = Len(views) + 1
                                /\ views'[Len(views) + 1].kind = to
                                /\ SameBelow(Len(views)))
<1>1. View(to) \in ViewType /\ View(to).kind = to
  BY ViewKind DEF View
<1>2. /\ Append(views, View(to)) \in Seq(ViewType)
      /\ Len(Append(views, View(to))) = Len(views) + 1
      /\ Append(views, View(to))[Len(views) + 1] = View(to)
      /\ \A i \in 1 .. Len(views) : Append(views, View(to))[i] = views[i]
  BY <1>1, Appended DEF IInv
<1> QED BY <1>1, <1>2 DEF Access, SameBelow

LEMMA DropTakes ==
  ASSUME IInv, Drop, ~kept
  PROVE  /\ pc' = "running" /\ pc = "running" /\ UNCHANGED <<raw, kept, slot>>
         /\ Len(views) \in Nat \ {0}
         /\ views' \in Seq(ViewType) /\ Len(views') = Len(views) - 1
         /\ SameBelow(Len(views) - 1)
<1>1. /\ pc = "running" /\ views # <<>> /\ views' = Front(views) /\ ~kept'
      /\ UNCHANGED <<raw, pc, slot>>
  BY DEF Drop
<1>2. views \in Seq(ViewType) /\ Len(views) \in Nat \ {0} /\ kept \in BOOLEAN
      /\ kept' \in BOOLEAN
  BY <1>1 DEF IInv, ViewsAreViews, TypeOK, Drop
<1> QED BY <1>1, <1>2, Fronted DEF SameBelow

-----------------------------------------------------------------------------
(* The steps of the program.                                               *)
LEMMA NoPlaces ==
  ASSUME IInv, Len(slot.entries) = 0
  PROVE  InMessage = {}
<1> SUFFICES ASSUME NEW x \in InMessage PROVE FALSE
  OBVIOUS
<1> QED BY Places

LEMMA ToRibOfPrints ==
  ASSUME IInv, DumpInv, ToRibOf
  PROVE  DumpInv'
<1>1. /\ line \in {"message", "table_dump_v2", "subtype"} /\ pc = "running"
      /\ printed' = printed /\ ~kept /\ LineHasView
  BY DEF ToRibOf, At, DumpInv
<1>2. line' # "any" /\ line' # "increment"
  BY DEF ToRibOf
<1>3. Cursor = Hop(1, 0, 0)
  BY <1>1 DEF Cursor
<1>4. CASE line = "message"
  <2>1. /\ views' = <<View("mrt")>> /\ line' = "table_dump_v2" /\ pc' = "running"
        /\ UNCHANGED <<raw, kept, slot>>
    BY <1>1, <1>4 DEF ToRibOf, At, ToMrt
  <2>2. LineHasView'
    BY <2>1 DEF LineHasView, LastView, View
  <2>3. Cursor' = Cursor
    BY <1>3, <2>1 DEF Cursor
  <2> QED BY <1>1, <2>1, <2>2, <2>3, CursorMoves
<1>5. CASE line = "table_dump_v2"
  <2>1. ToTableDumpV2 /\ line' = "subtype" /\ Len(views) = 1
    BY <1>1, <1>5 DEF ToRibOf, At, LineHasView, LastView
  <2>2. /\ UNCHANGED <<raw, kept, slot>>
        /\ pc' # "running" \/ (/\ Len(views') = Len(views) + 1
                               /\ views'[Len(views) + 1].kind = "table_dump_v2")
    <3>1. "table_dump_v2" \in Kinds
      BY DEF Kinds, Above
    <3> QED BY <1>1, <2>1, <3>1, AccessAdds DEF ToTableDumpV2
  <2>3. CASE pc' # "running"
    BY <1>1, <1>2, <2>2, <2>3, DumpStops
  <2>4. CASE pc' = "running"
    <3>1. LineHasView'
      BY <2>1, <2>2, <2>4 DEF LineHasView, LastView
    <3>2. Cursor' = Cursor
      BY <1>3, <2>1 DEF Cursor
    <3> QED BY <1>1, <2>2, <2>4, <3>1, <3>2, CursorMoves
  <2> QED BY <2>3, <2>4
<1>6. CASE line = "subtype" /\ IsRibIp(slot.subtype)
  <2>1. ToRib /\ line' = "rib" /\ Len(views) = 2
    BY <1>1, <1>6 DEF ToRibOf, At, LineHasView, LastView
  <2>2. /\ UNCHANGED <<raw, kept, slot>>
        /\ pc' # "running" \/ (/\ Len(views') = Len(views) + 1
                               /\ views'[Len(views) + 1].kind = "rib")
    <3>1. "rib" \in Kinds
      BY DEF Kinds, Above
    <3> QED BY <1>1, <2>1, <3>1, AccessAdds DEF ToRib
  <2>3. CASE pc' # "running"
    BY <1>1, <1>2, <2>2, <2>3, DumpStops
  <2>4. CASE pc' = "running"
    <3>1. LineHasView'
      BY <2>1, <2>2, <2>4 DEF LineHasView, LastView
    <3>2. Cursor' = Cursor
      BY <1>3, <2>1 DEF Cursor
    <3> QED BY <1>1, <2>2, <2>4, <3>1, <3>2, CursorMoves
  <2> QED BY <2>3, <2>4
<1>7. CASE line = "subtype" /\ ~IsRibIp(slot.subtype)
  <2>1. line' = "done" /\ UNCHANGED vars
    BY <1>1, <1>7 DEF ToRibOf, At
  <2>2. slot \in Decoded /\ slot.subtype \in Nat
    BY TableDumpAssumption DEF IInv, TypeOK, Decoded
  <2>3. ~HoldsRib(slot)
    BY <1>7, <2>2 DEF HoldsRib, IsRibIp, RIB_IPV4_UNICAST, RIB_IPV6_MULTICAST
  <2>4. slot.entries = <<>>
    BY <2>2, <2>3 DEF Decoded
  <2>5. InMessage = {}
    BY <2>4, NoPlaces
  <2>6. LineHasView'
    BY <2>1 DEF LineHasView
  <2> QED BY <1>1, <2>1, <2>5, <2>6, CursorMoves DEF vars
<1> QED BY <1>1, <1>4, <1>5, <1>6, <1>7

(* Entries: of each the path and the communities are printed.              *)
LEMMA EntriesPrint ==
  ASSUME IInv, DumpInv, Entries
  PROVE  DumpInv'
<1>1. /\ line \in {"rib", "next_entry"} /\ pc = "running"
      /\ printed' = printed /\ ~kept /\ LineHasView
  BY DEF Entries, At, DumpInv
<1>2. CASE line = "rib"
  <2>1. ForBegin("rib", "entry", "done") /\ LastView(3, "rib") /\ "rib" \in Ranges
    BY <1>1, <1>2 DEF Entries, At, LineHasView, Ranges, ElementKind
  <2>2. RangeSize("rib") = Len(slot.entries) /\ Len(slot.entries) \in Nat
    BY SlotFacts DEF RangeSize, EntryCount
  <2>3. Cursor = Hop(1, 0, 0)
    BY <1>2 DEF Cursor
  <2>4. CASE RangeSize("rib") = 0 /\ line' = "done" /\ UNCHANGED vars
    <3>1. InMessage = {}
      BY <2>2, <2>4, NoPlaces
    <3>2. LineHasView'
      BY <2>4 DEF LineHasView
    <3> QED BY <1>1, <1>2, <2>4, <3>1, <3>2, CursorMoves DEF vars
  <2>5. CASE /\ RangeSize("rib") # 0 /\ line' = "entry" /\ pc' = "running"
             /\ UNCHANGED <<raw, kept, slot>>
             /\ views' \in Seq(ViewType) /\ Len(views') = Len(views) + 1
             /\ views'[Len(views) + 1].kind = ElementKind["rib"]
             /\ views'[Len(views) + 1].at = 0
             /\ SameBelow(Len(views))
    <3>1. Len(views') = 4 /\ views'[4].kind = "entry" /\ views'[4].at = 0
      BY <2>1, <2>5 DEF LastView, ElementKind
    <3>2. LineHasView'
      BY <2>5, <3>1 DEF LineHasView, LastView
    <3>3. InEntry' = 1
      BY <3>1 DEF InEntry
    <3>4. Cursor' = Cursor
      BY <2>3, <2>5, <3>3 DEF Cursor
    <3> QED BY <1>1, <1>2, <2>5, <3>2, <3>4, CursorMoves
  <2> QED BY <1>1, <2>1, <2>2, <2>4, <2>5, ForBegins
<1>3. CASE line = "next_entry"
  <2>1. ForNext("entry", "done") /\ LastView(4, "entry")
    BY <1>1, <1>3 DEF Entries, At, LineHasView
  <2>2. Len(views) = 4 /\ views[4].kind = "entry" /\ views[3].kind = "rib"
    BY <2>1, Nested DEF LastView
  <2>3. /\ InEntry \in Nat /\ RangeSize("rib") = Len(slot.entries)
        /\ Len(slot.entries) \in Nat
    <3>1. Len(views) >= 4
      BY <2>2
    <3> QED BY <1>1, <2>2, <3>1, AtEntry
  <2>4. Cursor = Hop(InEntry + 1, 0, 0)
    BY <1>3 DEF Cursor
  <2>5. /\ pc' = "running" /\ UNCHANGED <<raw, kept, slot>>
        /\ SameBelow(3)
        /\ \/ /\ views[4].at + 1 = RangeSize(views[3].kind)
              /\ line' = "done" /\ Len(views') = 3
           \/ /\ views[4].at + 1 < RangeSize(views[3].kind)
              /\ line' = "entry" /\ Len(views') = 4
              /\ views'[4].kind = views[4].kind /\ views'[4].at = views[4].at + 1
    <3>1. 4 \in Nat /\ 4 - 1 = 3
      OBVIOUS
    <3> QED BY <1>1, <2>1, <2>2, <3>1, ForGoesOn, ZenonT(60)
  <2>6. LineHasView'
    BY <2>2, <2>5 DEF LineHasView, LastView
  <2>7. Cursor' = Cursor
    <3>1. CASE line' = "done"
      BY <2>2, <2>3, <2>4, <2>5, <3>1 DEF Cursor, InEntry
    <3>2. CASE line' = "entry"
      BY <2>2, <2>3, <2>4, <2>5, <3>2 DEF Cursor, InEntry
    <3> QED BY <2>5, <3>1, <3>2
  <2> QED BY <1>1, <1>3, <2>5, <2>6, <2>7, CursorMoves
<1> QED BY <1>1, <1>2, <1>3

(* From one place to the next there is nothing, or one place to print.     *)
LEMMA CursorSteps ==
  ASSUME IInv, NEW e \in DOMAIN slot.entries, NEW x \in InMessage
  PROVE  /\ Len(slot.entries[e].segments) = 0 =>
              (Before(x, Community(e, 0)) <=> Before(x, Hop(e, 0, 0)))
         /\ Before(x, Hop(e, 1, 0)) <=> Before(x, Hop(e, 0, 0))
         /\ \A s \in 1 .. Len(slot.entries[e].segments) :
              /\ slot.entries[e].segments[s] = 0 =>
                   (Before(x, Hop(e, s + 1, 0)) <=> Before(x, Hop(e, s, 0)))
              /\ Before(x, Hop(e, s, 1)) <=> Before(x, Hop(e, s, 0))
              /\ s = Len(slot.entries[e].segments) =>
                   (Before(x, Community(e, 0)) <=> Before(x, Hop(e, s + 1, 0)))
              /\ \A n \in 1 .. slot.entries[e].segments[s] :
                   /\ Before(x, Hop(e, s, n + 1)) <=> Before(x, Hop(e, s, n)) \/ x = Hop(e, s, n)
                   /\ n = slot.entries[e].segments[s] =>
                        (Before(x, Hop(e, s + 1, 0)) <=>
                           Before(x, Hop(e, s, n)) \/ x = Hop(e, s, n))
         /\ slot.entries[e].table[COMMUNITIES] = 0 \/ slot.entries[e].communities = 0 =>
              (Before(x, Hop(e + 1, 0, 0)) <=> Before(x, Community(e, 0)))
         /\ Before(x, Community(e, 1)) <=> Before(x, Community(e, 0))
         /\ \A n \in 1 .. slot.entries[e].communities :
              /\ Before(x, Community(e, n + 1)) <=>
                   Before(x, Community(e, n)) \/ x = Community(e, n)
              /\ n = slot.entries[e].communities =>
                   (Before(x, Hop(e + 1, 0, 0)) <=>
                      Before(x, Community(e, n)) \/ x = Community(e, n))
<1>1. /\ x.entry \in Nat /\ x.segment \in Nat /\ x.at \in Nat \ {0}
      /\ IsHop(x) \/ IsCommunity(x)
      /\ IsHop(x) => /\ ~IsCommunity(x)
                     /\ x.segment \in 1 .. Len(slot.entries[x.entry].segments)
                     /\ x.at \in 1 .. slot.entries[x.entry].segments[x.segment]
                     /\ x = Hop(x.entry, x.segment, x.at)
      /\ IsCommunity(x) => /\ slot.entries[x.entry].table[COMMUNITIES] # 0
                           /\ x.at \in 1 .. slot.entries[x.entry].communities
                           /\ x = Community(x.entry, x.at)
  BY Places DEF IsHop, IsCommunity
<1>2. /\ e \in Nat /\ Len(slot.entries[e].segments) \in Nat
      /\ slot.entries[e].communities \in Nat
      /\ \A s \in 1 .. Len(slot.entries[e].segments) : slot.entries[e].segments[s] \in Nat
  BY EntryFacts, Elements
<1>3. \A s, n \in Nat :
        Before(x, Hop(e, s, n)) <=>
          \/ x.entry < e
          \/ /\ x.entry = e /\ IsHop(x)
             /\ x.segment < s \/ (x.segment = s /\ x.at < n)
  BY <1>2, BeforeHop
<1>4. Before(x, Hop(e + 1, 0, 0)) <=> x.entry <= e
  <2>1. e + 1 \in Nat /\ 0 \in Nat
    BY <1>2
  <2>2. Before(x, Hop(e + 1, 0, 0)) <=>
          \/ x.entry < e + 1
          \/ /\ x.entry = e + 1 /\ IsHop(x)
             /\ x.segment < 0 \/ (x.segment = 0 /\ x.at < 0)
    BY <2>1, BeforeHop
  <2> QED BY <1>1, <1>2, <2>2
<1>5. \A n \in Nat :
        Before(x, Community(e, n)) <=>
          \/ x.entry < e
          \/ x.entry = e /\ IsHop(x)
          \/ x.entry = e /\ IsCommunity(x) /\ x.at < n
  BY <1>2, BeforeCommunity
<1>6. \A s, n : x = Hop(e, s, n) => /\ x.entry = e /\ x.segment = s /\ x.at = n
                                    /\ x.kind = "hop"
  BY DEF Hop
<1>7. \A n : x = Community(e, n) => x.entry = e /\ x.at = n /\ x.kind = "community"
  BY DEF Community
<1>8. (x.kind = "hop" => ~IsCommunity(x)) /\ (x.kind = "community" => ~IsHop(x))
  BY DEF IsHop, IsCommunity
<1>9. /\ Len(slot.entries[e].segments) = 0 =>
           (Before(x, Community(e, 0)) <=> Before(x, Hop(e, 0, 0)))
      /\ Before(x, Hop(e, 1, 0)) <=> Before(x, Hop(e, 0, 0))
  BY <1>1, <1>2, <1>3, <1>5
<1>10. ASSUME NEW s \in 1 .. Len(slot.entries[e].segments)
       PROVE  /\ slot.entries[e].segments[s] = 0 =>
                   (Before(x, Hop(e, s + 1, 0)) <=> Before(x, Hop(e, s, 0)))
              /\ Before(x, Hop(e, s, 1)) <=> Before(x, Hop(e, s, 0))
              /\ s = Len(slot.entries[e].segments) =>
                   (Before(x, Community(e, 0)) <=> Before(x, Hop(e, s + 1, 0)))
  <2>1. s \in Nat /\ s + 1 \in Nat /\ 0 \in Nat /\ 1 \in Nat
    BY <1>2
  <2>2. /\ slot.entries[e].segments[s] = 0 =>
             (Before(x, Hop(e, s + 1, 0)) <=> Before(x, Hop(e, s, 0)))
        /\ Before(x, Hop(e, s, 1)) <=> Before(x, Hop(e, s, 0))
    BY <1>1, <1>2, <1>3, <2>1, SMTT(30)
  <2>3. s = Len(slot.entries[e].segments) =>
          (Before(x, Community(e, 0)) <=> Before(x, Hop(e, s + 1, 0)))
    BY <1>1, <1>2, <1>3, <1>5, <2>1
  <2> QED BY <2>2, <2>3
<1>11. ASSUME NEW s \in 1 .. Len(slot.entries[e].segments),
              NEW n \in 1 .. slot.entries[e].segments[s]
       PROVE  /\ Before(x, Hop(e, s, n + 1)) <=> Before(x, Hop(e, s, n)) \/ x = Hop(e, s, n)
              /\ n = slot.entries[e].segments[s] =>
                   (Before(x, Hop(e, s + 1, 0)) <=>
                      Before(x, Hop(e, s, n)) \/ x = Hop(e, s, n))
  <2>1. /\ s \in Nat /\ s + 1 \in Nat /\ n \in Nat /\ n + 1 \in Nat /\ 0 \in Nat
        /\ slot.entries[e].segments[s] \in Nat
    BY <1>2
  <2>2. x = Hop(e, s, n) <=> x.entry = e /\ IsHop(x) /\ x.segment = s /\ x.at = n
    BY <1>1, <1>6, <1>8
  <2>3. /\ Before(x, Hop(e, s, n + 1)) <=>
             \/ x.entry < e
             \/ /\ x.entry = e /\ IsHop(x)
                /\ x.segment < s \/ (x.segment = s /\ x.at < n + 1)
        /\ Before(x, Hop(e, s + 1, 0)) <=>
             \/ x.entry < e
             \/ /\ x.entry = e /\ IsHop(x)
                /\ x.segment < s + 1 \/ (x.segment = s + 1 /\ x.at < 0)
        /\ Before(x, Hop(e, s, n)) <=>
             \/ x.entry < e
             \/ /\ x.entry = e /\ IsHop(x)
                /\ x.segment < s \/ (x.segment = s /\ x.at < n)
    BY <1>3, <2>1
  <2>4. x.entry = e /\ IsHop(x) /\ x.segment = s => x.at <= slot.entries[e].segments[s]
    BY <1>1
  <2> QED BY <1>1, <2>1, <2>2, <2>3, <2>4, SMTT(40)
<1>12. /\ slot.entries[e].table[COMMUNITIES] = 0 \/ slot.entries[e].communities = 0 =>
            (Before(x, Hop(e + 1, 0, 0)) <=> Before(x, Community(e, 0)))
       /\ Before(x, Community(e, 1)) <=> Before(x, Community(e, 0))
  BY <1>1, <1>2, <1>4, <1>5
<1>13. ASSUME NEW n \in 1 .. slot.entries[e].communities
       PROVE  /\ Before(x, Community(e, n + 1)) <=>
                   Before(x, Community(e, n)) \/ x = Community(e, n)
              /\ n = slot.entries[e].communities =>
                   (Before(x, Hop(e + 1, 0, 0)) <=>
                      Before(x, Community(e, n)) \/ x = Community(e, n))
  <2>1. n \in Nat /\ n + 1 \in Nat
    BY <1>2
  <2>2. x = Community(e, n) <=> x.entry = e /\ IsCommunity(x) /\ x.at = n
    BY <1>1, <1>7, <1>8
  <2>3. /\ Before(x, Community(e, n + 1)) <=>
             \/ x.entry < e
             \/ x.entry = e /\ IsHop(x)
             \/ x.entry = e /\ IsCommunity(x) /\ x.at < n + 1
        /\ Before(x, Community(e, n)) <=>
             \/ x.entry < e
             \/ x.entry = e /\ IsHop(x)
             \/ x.entry = e /\ IsCommunity(x) /\ x.at < n
    BY <1>5, <2>1
  <2>4. x.entry = e /\ IsCommunity(x) => x.at <= slot.entries[e].communities
    BY <1>1
  <2> QED BY <1>1, <1>2, <1>4, <2>1, <2>2, <2>3, <2>4
<1> QED BY <1>9, <1>10, <1>11, <1>12, <1>13

(* The hops of an entry: its path, the segments of it, the numbers in one. *)
LEMMA PathStarts ==
  ASSUME IInv, DumpInv, At("entry"), Attribute(AS_PATH), line' = "path",
         printed' = printed
  PROVE  DumpInv'
<1>1. pc = "running" /\ line = "entry" /\ ~kept /\ LastView(4, "entry")
  BY DEF At, DumpInv, LineHasView
<1>2. /\ Access("entry", View("as_path"), HasAttrType(Entry, AS_PATH),
                FillsAttr(Entry, AS_PATH))
      /\ "as_path" \in Kinds
  <2>1. AttributeKind(AS_PATH) = "as_path"
    BY DEF AttributeKind, AS_PATH, COMMUNITIES, LARGE_COMMUNITIES
  <2> QED BY <2>1 DEF Attribute, Kinds, Above
<1>3. /\ UNCHANGED <<raw, kept, slot>>
      /\ pc' # "running" \/ (/\ Len(views') = Len(views) + 1
                             /\ views'[Len(views) + 1].kind = "as_path"
                             /\ SameBelow(Len(views)))
  BY <1>1, <1>2, AccessAdds
<1>4. CASE pc' # "running"
  BY <1>1, <1>3, <1>4, DumpStops
<1>5. CASE pc' = "running"
  <2>1. Len(views') = 5 /\ views'[5].kind = "as_path" /\ views'[4] = views[4]
    BY <1>1, <1>3, <1>5 DEF LastView, SameBelow
  <2>2. LineHasView'
    BY <2>1 DEF LineHasView, LastView
  <2>3. Cursor' = Cursor
    BY <1>1, <2>1 DEF Cursor, InEntry
  <2> QED BY <1>1, <1>3, <1>5, <2>2, <2>3, CursorMoves
<1> QED BY <1>4, <1>5

LEMMA SegmentsStart ==
  ASSUME IInv, DumpInv, At("path"), ForBegin("as_path", "segment", "end_of_path"),
         printed' = printed
  PROVE  DumpInv'
<1>1. /\ pc = "running" /\ line = "path" /\ ~kept /\ Len(views) = 5
      /\ views[5].kind = "as_path" /\ views[4].kind = "entry"
  <2>1. pc = "running" /\ line = "path" /\ ~kept /\ LastView(5, "as_path")
    BY DEF At, DumpInv, LineHasView
  <2> QED BY <2>1, Nested DEF LastView
<1>2. /\ InEntry \in DOMAIN slot.entries
      /\ RangeSize("as_path") = Len(slot.entries[InEntry].segments)
  <2>1. Len(views) >= 4
    BY <1>1
  <2> QED BY <1>1, <2>1, AtEntry
<1>3. RangeSize("as_path") \in Nat /\ "as_path" \in Ranges
  BY <1>2, EntryFacts DEF Ranges, ElementKind
<1>4. Cursor = Hop(InEntry, 0, 0)
  BY <1>1 DEF Cursor
<1>5. CASE RangeSize("as_path") = 0 /\ line' = "end_of_path" /\ UNCHANGED vars
  <2>1. LineHasView'
    BY <1>1, <1>5 DEF LineHasView, LastView, vars
  <2>2. Cursor' = Community(InEntry, 0)
    BY <1>5 DEF Cursor, InEntry, vars
  <2>3. \A x \in InMessage : Before(x, Cursor') <=> Before(x, Cursor)
    BY <1>2, <1>4, <1>5, <2>2, CursorSteps
  <2> QED BY <1>1, <1>5, <2>1, <2>3, CursorMoves DEF vars
<1>6. CASE /\ RangeSize("as_path") # 0 /\ line' = "segment" /\ pc' = "running"
           /\ UNCHANGED <<raw, kept, slot>>
           /\ views' \in Seq(ViewType) /\ Len(views') = Len(views) + 1
           /\ views'[Len(views) + 1].kind = ElementKind["as_path"]
           /\ views'[Len(views) + 1].at = 0
           /\ SameBelow(Len(views))
  <2>1. /\ Len(views') = 6 /\ views'[6].kind = "segment" /\ views'[6].at = 0
        /\ views'[4] = views[4]
    BY <1>1, <1>6 DEF ElementKind, SameBelow
  <2>2. LineHasView'
    BY <1>6, <2>1 DEF LineHasView, LastView
  <2>3. InSegment' = 1 /\ InEntry' = InEntry
    BY <2>1 DEF InSegment, InEntry
  <2>4. Cursor' = Hop(InEntry, 1, 0)
    BY <1>6, <2>3 DEF Cursor
  <2>5. \A x \in InMessage : Before(x, Cursor') <=> Before(x, Cursor)
    BY <1>2, <1>4, <2>4, CursorSteps
  <2> QED BY <1>1, <1>6, <2>2, <2>5, CursorMoves
<1> QED BY <1>1, <1>3, <1>5, <1>6, ForBegins

LEMMA HopsStart ==
  ASSUME IInv, DumpInv, At("segment"), ForBegin("segment", "asn", "next_segment"),
         printed' = printed
  PROVE  DumpInv'
<1>1. /\ pc = "running" /\ line = "segment" /\ ~kept /\ Len(views) = 6
      /\ views[6].kind = "segment"
  BY DEF At, DumpInv, LineHasView, LastView
<1>2. /\ views[4].kind = "entry"
      /\ InSegment \in 1 .. Len(slot.entries[InEntry].segments)
      /\ Len(slot.entries[InEntry].segments) \in Nat
      /\ slot.entries[InEntry].segments[InSegment] \in Nat
      /\ RangeSize("segment") = slot.entries[InEntry].segments[InSegment]
  <2>1. Len(views) >= 6
    BY <1>1
  <2> QED BY <1>1, <2>1, AtSegment
<1>3. InEntry \in DOMAIN slot.entries
  <2>1. Len(views) >= 4
    BY <1>1
  <2> QED BY <1>1, <1>2, <2>1, AtEntry
<1>4. Cursor = Hop(InEntry, InSegment, 0) /\ "segment" \in Ranges
  BY <1>1 DEF Cursor, Ranges, ElementKind
<1>5. CASE RangeSize("segment") = 0 /\ line' = "next_segment" /\ UNCHANGED vars
  <2>1. LineHasView'
    BY <1>1, <1>5 DEF LineHasView, LastView, vars
  <2>2. Cursor' = Hop(InEntry, InSegment + 1, 0)
    BY <1>5 DEF Cursor, InEntry, InSegment, vars
  <2>3. \A x \in InMessage : Before(x, Cursor') <=> Before(x, Cursor)
    BY <1>2, <1>3, <1>4, <1>5, <2>2, CursorSteps
  <2> QED BY <1>1, <1>5, <2>1, <2>3, CursorMoves DEF vars
<1>6. CASE /\ RangeSize("segment") # 0 /\ line' = "asn" /\ pc' = "running"
           /\ UNCHANGED <<raw, kept, slot>>
           /\ views' \in Seq(ViewType) /\ Len(views') = Len(views) + 1
           /\ views'[Len(views) + 1].kind = ElementKind["segment"]
           /\ views'[Len(views) + 1].at = 0
           /\ SameBelow(Len(views))
  <2>1. /\ Len(views') = 7 /\ views'[7].kind = "asn" /\ views'[7].at = 0
        /\ views'[4] = views[4] /\ views'[6] = views[6]
    BY <1>1, <1>6 DEF ElementKind, SameBelow
  <2>2. InSegment' = InSegment /\ InEntry' = InEntry /\ AtHop' = 1
    BY <2>1 DEF InSegment, InEntry, AtHop
  <2>3. Cursor' = Hop(InEntry, InSegment, 1)
    BY <1>6, <2>2 DEF Cursor
  <2>4. Cursor' \in InMessage'
    <3>1. 1 \in 1 .. slot.entries[InEntry].segments[InSegment]
      BY <1>2, <1>6
    <3>2. InSegment \in DOMAIN slot.entries[InEntry].segments
      BY <1>2, <1>3, EntryFacts
    <3>3. Hop(InEntry, InSegment, 1) \in InMessage
      BY <1>3, <3>1, <3>2, PlacesAre
    <3>4. InMessage' = InMessage
      BY <1>6 DEF InMessage, Hops, CommunitiesOf
    <3> QED BY <2>3, <3>3, <3>4
  <2>5. LineHasView'
    BY <1>6, <2>1, <2>4 DEF LineHasView, LastView
  <2>6. \A x \in InMessage : Before(x, Cursor') <=> Before(x, Cursor)
    BY <1>2, <1>3, <1>4, <2>3, CursorSteps
  <2> QED BY <1>1, <1>6, <2>5, <2>6, CursorMoves
<1> QED BY <1>1, <1>2, <1>4, <1>5, <1>6, ForBegins

LEMMA SegmentsGoOn ==
  ASSUME IInv, DumpInv, At("next_segment"), ForNext("segment", "end_of_path"),
         printed' = printed
  PROVE  DumpInv'
<1>1. /\ pc = "running" /\ line = "next_segment" /\ ~kept /\ Len(views) = 6
      /\ views[6].kind = "segment" /\ views[5].kind = "as_path"
      /\ views[4].kind = "entry"
  <2>1. pc = "running" /\ line = "next_segment" /\ ~kept /\ LastView(6, "segment")
    BY DEF At, DumpInv, LineHasView
  <2> QED BY <2>1, Nested DEF LastView
<1>2. /\ InSegment \in 1 .. Len(slot.entries[InEntry].segments) /\ InSegment \in Nat
      /\ Len(slot.entries[InEntry].segments) \in Nat
  <2>1. Len(views) >= 6
    BY <1>1
  <2> QED BY <1>1, <2>1, AtSegment
<1>3. /\ InEntry \in DOMAIN slot.entries
      /\ RangeSize("as_path") = Len(slot.entries[InEntry].segments)
  <2>1. Len(views) >= 4
    BY <1>1
  <2> QED BY <1>1, <2>1, AtEntry
<1>4. Cursor = Hop(InEntry, InSegment + 1, 0)
  BY <1>1 DEF Cursor
<1>5. /\ pc' = "running" /\ UNCHANGED <<raw, kept, slot>>
      /\ SameBelow(5)
      /\ \/ /\ views[6].at + 1 = RangeSize(views[5].kind)
            /\ line' = "end_of_path" /\ Len(views') = 5
         \/ /\ views[6].at + 1 < RangeSize(views[5].kind)
            /\ line' = "segment" /\ Len(views') = 6
            /\ views'[6].kind = views[6].kind /\ views'[6].at = views[6].at + 1
  <2>1. 6 \in Nat /\ 6 - 1 = 5
    OBVIOUS
  <2> QED BY <1>1, <2>1, ForGoesOn, ZenonT(60)
<1>6. views'[4] = views[4] /\ views'[5] = views[5] /\ InEntry' = InEntry
  BY <1>5 DEF SameBelow, InEntry
<1>7. LineHasView'
  BY <1>1, <1>5, <1>6 DEF LineHasView, LastView
<1>8. \A x \in InMessage : Before(x, Cursor') <=> Before(x, Cursor)
  <2>1. CASE line' = "end_of_path"
    <3>1. Cursor' = Community(InEntry, 0)
      BY <1>6, <2>1 DEF Cursor
    <3>2. InSegment = Len(slot.entries[InEntry].segments)
      BY <1>1, <1>3, <1>5, <2>1 DEF InSegment
    <3> QED BY <1>2, <1>3, <1>4, <3>1, <3>2, CursorSteps
  <2>2. CASE line' = "segment"
    <3>1. InSegment' = InSegment + 1
      BY <1>5, <2>2 DEF InSegment
    <3>2. Cursor' = Hop(InEntry, InSegment + 1, 0)
      BY <1>6, <2>2, <3>1 DEF Cursor
    <3> QED BY <1>4, <3>2
  <2> QED BY <1>5, <2>1, <2>2
<1> QED BY <1>1, <1>5, <1>7, <1>8, CursorMoves

LEMMA PathPrints ==
  ASSUME IInv, DumpInv, Path
  PROVE  DumpInv'
<1>1. CASE At("end_of_path") /\ Drop /\ line' = "has_communities" /\ printed' = printed
  <2>1. /\ pc = "running" /\ line = "end_of_path" /\ ~kept /\ Len(views) = 5
        /\ views[5].kind = "as_path" /\ views[4].kind = "entry"
    <3>1. pc = "running" /\ line = "end_of_path" /\ ~kept /\ LastView(5, "as_path")
      BY <1>1 DEF At, DumpInv, LineHasView
    <3> QED BY <3>1, Nested DEF LastView
  <2>2. /\ pc' = "running" /\ UNCHANGED <<raw, kept, slot>>
        /\ Len(views') = Len(views) - 1 /\ SameBelow(Len(views) - 1)
    BY <1>1, <2>1, DropTakes
  <2>3. Len(views') = 4 /\ views'[4] = views[4] /\ InEntry' = InEntry
    BY <2>1, <2>2 DEF SameBelow, InEntry
  <2>4. LineHasView'
    BY <1>1, <2>1, <2>3 DEF LineHasView, LastView
  <2>5. Cursor' = Cursor
    BY <1>1, <2>1, <2>3 DEF Cursor
  <2> QED BY <1>1, <2>1, <2>2, <2>4, <2>5, CursorMoves
<1> QED BY <1>1, PathStarts, SegmentsStart, HopsStart, SegmentsGoOn DEF Path

LEMMA HopPrints ==
  ASSUME IInv, DumpInv, PrintHop
  PROVE  DumpInv'
<1>1. /\ pc = "running" /\ line = "asn" /\ ~kept /\ Len(views) = 7
      /\ views[7].kind = "asn" /\ views[6].kind = "segment" /\ views[4].kind = "entry"
      /\ Cursor \in InMessage /\ LastView(7, "asn")
  <2>1. /\ pc = "running" /\ line = "asn" /\ ~kept /\ LastView(7, "asn")
        /\ Cursor \in InMessage
    BY DEF PrintHop, At, DumpInv, LineHasView
  <2> QED BY <2>1, Nested DEF LastView
<1>2. /\ InSegment \in 1 .. Len(slot.entries[InEntry].segments)
      /\ slot.entries[InEntry].segments[InSegment] \in Nat
      /\ RangeSize("segment") = slot.entries[InEntry].segments[InSegment]
      /\ Index("segment") = InSegment
  <2>1. Len(views) >= 6
    BY <1>1
  <2> QED BY <1>1, <2>1, AtSegment
<1>3. InEntry \in DOMAIN slot.entries /\ Index("entry") = InEntry
  <2>1. Len(views) >= 4
    BY <1>1
  <2> QED BY <1>1, <2>1, AtEntry
<1>4. Cursor = Hop(InEntry, InSegment, AtHop) /\ Index("asn") = AtHop
  BY <1>1, AtElement DEF Cursor
<1>5. printed' = Append(printed, Cursor) /\ ForNext("asn", "next_segment")
  BY <1>2, <1>3, <1>4 DEF PrintHop
<1>6. /\ pc' = "running" /\ UNCHANGED <<raw, kept, slot>>
      /\ SameBelow(6)
      /\ \/ /\ views[7].at + 1 = RangeSize(views[6].kind)
            /\ line' = "next_segment" /\ Len(views') = 6
         \/ /\ views[7].at + 1 < RangeSize(views[6].kind)
            /\ line' = "asn" /\ Len(views') = 7
            /\ views'[7].kind = views[7].kind /\ views'[7].at = views[7].at + 1
  <2>1. 7 \in Nat /\ 7 - 1 = 6
    OBVIOUS
  <2> QED BY <1>1, <1>5, <2>1, ForGoesOn, ZenonT(60)
<1>7. /\ views'[4] = views[4] /\ views'[6] = views[6]
      /\ InEntry' = InEntry /\ InSegment' = InSegment
  BY <1>6 DEF SameBelow, InEntry, InSegment
<1>8. AtHop \in 1 .. slot.entries[InEntry].segments[InSegment] /\ AtHop \in Nat
  <2>1. views[7].at \in Nat
    <3>1. 7 \in 1 .. Len(views) /\ views \in Seq(ViewType)
      BY <1>1, Nested
    <3>2. views[7] \in ViewType
      BY <3>1, Elements
    <3> QED BY <3>2 DEF ViewType
  <2>2. AtHop <= RangeSize(views[6].kind)
    BY <1>2, <1>1, <1>6, <2>1, SMTT(30) DEF AtHop
  <2> QED BY <1>1, <1>2, <2>1, <2>2 DEF AtHop
<1>9. CASE line' = "next_segment"
  <2>1. AtHop = slot.entries[InEntry].segments[InSegment]
    BY <1>1, <1>2, <1>6, <1>9 DEF AtHop
  <2>2. Cursor' = Hop(InEntry, InSegment + 1, 0)
    BY <1>7, <1>9 DEF Cursor
  <2>3. \A x \in InMessage : Before(x, Cursor') <=> Before(x, Cursor) \/ x = Cursor
    BY <1>2, <1>3, <1>4, <1>8, <2>1, <2>2, CursorSteps
  <2>4. LineHasView'
    BY <1>1, <1>6, <1>7, <1>9 DEF LineHasView, LastView
  <2> QED BY <1>1, <1>5, <1>6, <1>9, <2>3, <2>4, CursorPrints
<1>10. CASE line' = "asn"
  <2>1. AtHop' = AtHop + 1 /\ AtHop + 1 \in 1 .. slot.entries[InEntry].segments[InSegment]
    BY <1>1, <1>2, <1>6, <1>8, <1>10, SMTT(30) DEF AtHop
  <2>2. Cursor' = Hop(InEntry, InSegment, AtHop + 1)
    BY <1>7, <1>10, <2>1 DEF Cursor
  <2>3. \A x \in InMessage : Before(x, Cursor') <=> Before(x, Cursor) \/ x = Cursor
    BY <1>2, <1>3, <1>4, <1>8, <2>2, CursorSteps
  <2>4. Cursor' \in InMessage'
    <3>1. InSegment \in DOMAIN slot.entries[InEntry].segments
      BY <1>2, <1>3, EntryFacts
    <3>2. Hop(InEntry, InSegment, AtHop + 1) \in InMessage
      BY <1>3, <2>1, <3>1, PlacesAre
    <3>3. InMessage' = InMessage
      BY <1>6 DEF InMessage, Hops, CommunitiesOf
    <3> QED BY <2>2, <3>2, <3>3
  <2>5. LineHasView'
    BY <1>1, <1>6, <1>10, <2>4 DEF LineHasView, LastView
  <2> QED BY <1>1, <1>5, <1>6, <1>10, <2>3, <2>5, CursorPrints
<1> QED BY <1>6, <1>9, <1>10

(* The communities of an entry, if it has any.                             *)
LEMMA CommunitiesStart ==
  ASSUME IInv, DumpInv, At("has_communities"), HasAttrType(Entry, COMMUNITIES),
         Attribute(COMMUNITIES), line' = "communities", printed' = printed
  PROVE  DumpInv'
<1>1. pc = "running" /\ line = "has_communities" /\ ~kept /\ LastView(4, "entry")
  BY DEF At, DumpInv, LineHasView
<1>2. /\ Access("entry", View("communities"), HasAttrType(Entry, COMMUNITIES),
                FillsAttr(Entry, COMMUNITIES))
      /\ "communities" \in Kinds
  <2>1. AttributeKind(COMMUNITIES) = "communities"
    BY DEF AttributeKind, AS_PATH, COMMUNITIES, LARGE_COMMUNITIES
  <2> QED BY <2>1 DEF Attribute, Kinds, Above
<1>3. /\ UNCHANGED <<raw, kept, slot>>
      /\ pc' # "running" \/ (/\ Len(views') = Len(views) + 1
                             /\ views'[Len(views) + 1].kind = "communities"
                             /\ SameBelow(Len(views)))
  BY <1>1, <1>2, AccessAdds
<1>4. CASE pc' # "running"
  BY <1>1, <1>3, <1>4, DumpStops
<1>5. CASE pc' = "running"
  <2>1. Len(views') = 5 /\ views'[5].kind = "communities" /\ views'[4] = views[4]
    BY <1>1, <1>3, <1>5 DEF LastView, SameBelow
  <2>2. InEntry' = InEntry
    BY <2>1 DEF InEntry
  <2>3. slot'.entries[InEntry'].table[COMMUNITIES] # 0
    <3>1. Len(views) = 4 /\ Len(views) >= 4 /\ views[4].kind = "entry"
      BY <1>1 DEF LastView
    <3>2. Entry = slot.entries[InEntry]
      BY <1>1, <3>1, AtEntry
    <3> QED BY <1>3, <2>2, <3>2 DEF HasAttrType, COMMUNITIES
  <2>4. LineHasView'
    BY <2>1, <2>3 DEF LineHasView, LastView
  <2>5. Cursor' = Cursor
    BY <1>1, <2>2 DEF Cursor
  <2> QED BY <1>1, <1>3, <1>5, <2>4, <2>5, CursorMoves
<1> QED BY <1>4, <1>5

LEMMA NoCommunities ==
  ASSUME IInv, DumpInv, At("has_communities"), ~HasAttrType(Entry, COMMUNITIES),
         UNCHANGED vars, line' = "next_entry", printed' = printed
  PROVE  DumpInv'
<1>1. /\ pc = "running" /\ line = "has_communities" /\ ~kept /\ Len(views) = 4
      /\ views[4].kind = "entry"
  BY DEF At, DumpInv, LineHasView, LastView
<1>2. InEntry \in DOMAIN slot.entries /\ Entry = slot.entries[InEntry]
  <2>1. Len(views) >= 4
    BY <1>1
  <2> QED BY <1>1, <2>1, AtEntry
<1>3. slot.entries[InEntry].table[COMMUNITIES] = 0
  BY <1>2, EntryFacts DEF HasAttrType
<1>4. Cursor = Community(InEntry, 0) /\ Cursor' = Hop(InEntry + 1, 0, 0)
  <2>1. InEntry' = InEntry
    BY DEF InEntry, vars
  <2>2. Cursor = Community(InEntry, 0)
    BY <1>1 DEF Cursor
  <2>3. Cursor' = Hop(InEntry + 1, 0, 0)
    BY <2>1 DEF Cursor
  <2> QED BY <2>2, <2>3
<1>5. \A x \in InMessage : Before(x, Cursor') <=> Before(x, Cursor)
  BY <1>2, <1>3, <1>4, CursorSteps
<1>6. LineHasView'
  BY <1>1 DEF LineHasView, LastView, vars
<1> QED BY <1>1, <1>5, <1>6, CursorMoves DEF vars

LEMMA CommunitiesBegin ==
  ASSUME IInv, DumpInv, At("communities"),
         ForBegin("communities", "community", "end_of_communities"), printed' = printed
  PROVE  DumpInv'
<1>1. /\ pc = "running" /\ line = "communities" /\ ~kept /\ Len(views) = 5
      /\ views[5].kind = "communities" /\ views[4].kind = "entry"
  <2>1. pc = "running" /\ line = "communities" /\ ~kept /\ LastView(5, "communities")
    BY DEF At, DumpInv, LineHasView
  <2> QED BY <2>1, Nested DEF LastView
<1>2. /\ InEntry \in DOMAIN slot.entries
      /\ RangeSize("communities") = slot.entries[InEntry].communities
  <2>1. Len(views) >= 4
    BY <1>1
  <2> QED BY <1>1, <2>1, AtEntry
<1>3. RangeSize("communities") \in Nat /\ "communities" \in Ranges
  BY <1>2, EntryFacts DEF Ranges, ElementKind
<1>4. Cursor = Community(InEntry, 0)
  BY <1>1 DEF Cursor
<1>5. CASE RangeSize("communities") = 0 /\ line' = "end_of_communities" /\ UNCHANGED vars
  <2>1. LineHasView'
    BY <1>1, <1>5 DEF LineHasView, LastView, vars
  <2>2. Cursor' = Hop(InEntry + 1, 0, 0)
    BY <1>5 DEF Cursor, InEntry, vars
  <2>3. \A x \in InMessage : Before(x, Cursor') <=> Before(x, Cursor)
    BY <1>2, <1>4, <1>5, <2>2, CursorSteps
  <2> QED BY <1>1, <1>5, <2>1, <2>3, CursorMoves DEF vars
<1>6. CASE /\ RangeSize("communities") # 0 /\ line' = "community" /\ pc' = "running"
           /\ UNCHANGED <<raw, kept, slot>>
           /\ views' \in Seq(ViewType) /\ Len(views') = Len(views) + 1
           /\ views'[Len(views) + 1].kind = ElementKind["communities"]
           /\ views'[Len(views) + 1].at = 0
           /\ SameBelow(Len(views))
  <2>1. /\ Len(views') = 6 /\ views'[6].kind = "community" /\ views'[6].at = 0
        /\ views'[4] = views[4]
    BY <1>1, <1>6 DEF ElementKind, SameBelow
  <2>2. InSegment' = 1 /\ InEntry' = InEntry
    BY <2>1 DEF InSegment, InEntry
  <2>3. Cursor' = Community(InEntry, 1)
    BY <1>6, <2>2 DEF Cursor
  <2>4. Cursor' \in InMessage'
    <3>1. PICK x : x = Community(InEntry, 1)
      OBVIOUS
    <3>2. 1 \in 1 .. slot.entries[InEntry].communities
      BY <1>2, <1>3, <1>6
    <3>3. slot.entries[InEntry].table[COMMUNITIES] # 0
      BY <1>1 DEF DumpInv, LineHasView
    <3>4. x \in InMessage
      BY <1>2, <3>1, <3>2, <3>3, PlacesAre
    <3>5. InMessage' = InMessage
      BY <1>6 DEF InMessage, Hops, CommunitiesOf
    <3> QED BY <2>3, <3>1, <3>4, <3>5
  <2>5. LineHasView'
    BY <1>6, <2>1, <2>4 DEF LineHasView, LastView
  <2>6. \A x \in InMessage : Before(x, Cursor') <=> Before(x, Cursor)
    BY <1>2, <1>4, <2>3, CursorSteps
  <2> QED BY <1>1, <1>6, <2>5, <2>6, CursorMoves
<1> QED BY <1>1, <1>3, <1>5, <1>6, ForBegins

LEMMA CommunitiesPrint ==
  ASSUME IInv, DumpInv, Communities
  PROVE  DumpInv'
<1>1. CASE At("end_of_communities") /\ Drop /\ line' = "next_entry" /\ printed' = printed
  <2>1. /\ pc = "running" /\ line = "end_of_communities" /\ ~kept /\ Len(views) = 5
        /\ views[5].kind = "communities" /\ views[4].kind = "entry"
    <3>1. /\ pc = "running" /\ line = "end_of_communities" /\ ~kept
          /\ LastView(5, "communities")
      BY <1>1 DEF At, DumpInv, LineHasView
    <3> QED BY <3>1, Nested DEF LastView
  <2>2. /\ pc' = "running" /\ UNCHANGED <<raw, kept, slot>>
        /\ Len(views') = Len(views) - 1 /\ SameBelow(Len(views) - 1)
    BY <1>1, <2>1, DropTakes
  <2>3. Len(views') = 4 /\ views'[4] = views[4] /\ InEntry' = InEntry
    BY <2>1, <2>2 DEF SameBelow, InEntry
  <2>4. LineHasView'
    BY <1>1, <2>1, <2>3 DEF LineHasView, LastView
  <2>5. Cursor' = Cursor
    BY <1>1, <2>1, <2>3 DEF Cursor
  <2> QED BY <1>1, <2>1, <2>2, <2>4, <2>5, CursorMoves
<1> QED BY <1>1, CommunitiesStart, NoCommunities, CommunitiesBegin DEF Communities

LEMMA CommunityPrints ==
  ASSUME IInv, DumpInv, PrintCommunity
  PROVE  DumpInv'
<1>1. /\ pc = "running" /\ line = "community" /\ ~kept /\ Len(views) = 6
      /\ views[6].kind = "community" /\ views[5].kind = "communities"
      /\ views[4].kind = "entry"
      /\ Cursor \in InMessage /\ LastView(6, "community")
  <2>1. /\ pc = "running" /\ line = "community" /\ ~kept /\ LastView(6, "community")
        /\ Cursor \in InMessage
    BY DEF PrintCommunity, At, DumpInv, LineHasView
  <2> QED BY <2>1, Nested DEF LastView
<1>2. /\ InEntry \in DOMAIN slot.entries /\ Index("entry") = InEntry
      /\ RangeSize("communities") = slot.entries[InEntry].communities
  <2>1. Len(views) >= 4
    BY <1>1
  <2> QED BY <1>1, <2>1, AtEntry
<1>3. Cursor = Community(InEntry, InSegment) /\ Index("community") = InSegment
  BY <1>1, AtElement DEF Cursor
<1>4. /\ slot.entries[InEntry].table[COMMUNITIES] # 0
      /\ InSegment \in 1 .. slot.entries[InEntry].communities
      /\ slot.entries[InEntry].communities \in Nat
  <2>1. PICK c : c = Community(InEntry, InSegment)
    OBVIOUS
  <2>2. c.kind = "community" /\ c.entry = InEntry /\ c.at = InSegment
    BY <2>1 DEF Community
  <2>3. IsHop(c) \/ IsCommunity(c)
    BY <1>1, <1>3, <2>1, Places
  <2> QED BY <1>2, <2>2, <2>3, EntryFacts DEF IsHop, IsCommunity
<1>5. printed' = Append(printed, Cursor) /\ ForNext("community", "end_of_communities")
  BY <1>2, <1>3 DEF PrintCommunity
<1>6. /\ pc' = "running" /\ UNCHANGED <<raw, kept, slot>>
      /\ SameBelow(5)
      /\ \/ /\ views[6].at + 1 = RangeSize(views[5].kind)
            /\ line' = "end_of_communities" /\ Len(views') = 5
         \/ /\ views[6].at + 1 < RangeSize(views[5].kind)
            /\ line' = "community" /\ Len(views') = 6
            /\ views'[6].kind = views[6].kind /\ views'[6].at = views[6].at + 1
  <2>1. 6 \in Nat /\ 6 - 1 = 5
    OBVIOUS
  <2> QED BY <1>1, <1>5, <2>1, ForGoesOn, ZenonT(60)
<1>7. views'[4] = views[4] /\ views'[5] = views[5] /\ InEntry' = InEntry
  BY <1>6 DEF SameBelow, InEntry
<1>8. CASE line' = "end_of_communities"
  <2>1. InSegment = slot.entries[InEntry].communities
    BY <1>1, <1>2, <1>6, <1>8 DEF InSegment
  <2>2. Cursor' = Hop(InEntry + 1, 0, 0)
    BY <1>7, <1>8 DEF Cursor
  <2>3. \A x \in InMessage : Before(x, Cursor') <=> Before(x, Cursor) \/ x = Cursor
    BY <1>2, <1>3, <1>4, <2>1, <2>2, CursorSteps
  <2>4. LineHasView'
    BY <1>1, <1>6, <1>7, <1>8 DEF LineHasView, LastView
  <2> QED BY <1>1, <1>5, <1>6, <1>8, <2>3, <2>4, CursorPrints
<1>9. CASE line' = "community"
  <2>1. InSegment' = InSegment + 1 /\ InSegment + 1 \in 1 .. slot.entries[InEntry].communities
    BY <1>1, <1>2, <1>4, <1>6, <1>9 DEF InSegment
  <2>2. Cursor' = Community(InEntry, InSegment + 1)
    BY <1>7, <1>9, <2>1 DEF Cursor
  <2>3. \A x \in InMessage : Before(x, Cursor') <=> Before(x, Cursor) \/ x = Cursor
    BY <1>2, <1>3, <1>4, <2>2, CursorSteps
  <2>4. Cursor' \in InMessage'
    <3>1. Community(InEntry, InSegment + 1) \in InMessage
      BY <1>2, <1>4, <2>1, PlacesAre
    <3>2. InMessage' = InMessage
      BY <1>6 DEF InMessage, Hops, CommunitiesOf
    <3> QED BY <2>2, <3>1, <3>2
  <2>5. LineHasView'
    BY <1>1, <1>6, <1>9, <2>4 DEF LineHasView, LastView
  <2> QED BY <1>1, <1>5, <1>6, <1>9, <2>3, <2>5, CursorPrints
<1> QED BY <1>6, <1>8, <1>9

(* The views of the body go, one after the other.                          *)
LEMMA EndOfBodyPrints ==
  ASSUME IInv, DumpInv, EndOfBody
  PROVE  DumpInv'
<1>1. line = "done" /\ pc = "running" /\ printed' = printed /\ ~kept
  BY DEF EndOfBody, At, DumpInv
<1>2. CASE Drop /\ line' = line
  <2>1. pc' = "running" /\ UNCHANGED <<raw, kept, slot>>
    BY <1>1, <1>2, DropTakes
  <2>2. LineHasView'
    BY <1>1, <1>2 DEF LineHasView
  <2>3. Cursor' = Cursor
    BY <1>1, <1>2, <2>1 DEF Cursor
  <2> QED BY <1>1, <1>2, <2>1, <2>2, <2>3, CursorMoves
<1>3. CASE views = <<>> /\ line' = "increment" /\ UNCHANGED vars
  <2>1. LineHasView'
    BY <1>3 DEF LineHasView, vars
  <2>2. Cursor' = Cursor
    BY <1>1, <1>3 DEF Cursor, vars
  <2> QED BY <1>1, <1>3, <2>1, <2>2, CursorMoves DEF vars
<1> QED BY <1>2, <1>3 DEF EndOfBody

(* Of a message that was just decoded nothing is printed, and nothing is   *)
(* before its first entry.                                                 *)
LEMMA NothingYet ==
  /\ IInv /\ line = "message" /\ printed = <<>>
  /\ views = <<>> /\ raw = {} /\ ~kept /\ pc = "running"
  => DumpInv
<1> SUFFICES ASSUME IInv, line = "message", printed = <<>>, views = <<>>, raw = {}, ~kept,
                    pc = "running"
             PROVE  DumpInv
  OBVIOUS
<1>1. Range(printed) = {} /\ DOMAIN printed = {} /\ printed \in Seq(InMessage)
  <2>1. DOMAIN <<>> = {}
    OBVIOUS
  <2>2. <<>> \in Seq(InMessage)
    <3> HIDE DEF InMessage
    <3> QED OBVIOUS
  <2> QED BY <2>1, <2>2 DEF Range
<1>2. Cursor = Hop(1, 0, 0)
  BY DEF Cursor
<1>3. ASSUME NEW x \in InMessage
      PROVE  ~Before(x, Hop(1, 0, 0))
  <2>1. x.entry \in 1 .. Len(slot.entries) /\ x.segment \in Nat /\ x.at \in Nat
    BY Places
  <2> QED BY <2>1, BeforeHop
<1>4. UpToCursor
  BY <1>1, <1>2, <1>3 DEF UpToCursor
<1>5. LineHasView
  BY DEF LineHasView
<1> QED BY <1>1, <1>4, <1>5 DEF DumpInv, InOrder, NothingSkipped

LEMMA DumpInvHolds ==
  ASSUME IInv, DumpInit
  PROVE  DumpInv
<1>1. line = "any" \/ (line = "message" /\ raw = {} /\ printed = <<>>)
  BY DEF DumpInit
<1>2. views = <<>> /\ kept = FALSE /\ pc = "running"
  BY DEF DumpInit, Init
<1>3. CASE line = "any"
  BY <1>3 DEF DumpInv
<1> QED BY <1>1, <1>2, <1>3, NothingYet

LEMMA DumpNextInvariant ==
  ASSUME line # "any" => IInv, line' # "any" => IInv', DumpInv, [DumpNext]_dumpVars
  PROVE  DumpInv'
<1>1. CASE line = "any" /\ Next /\ UNCHANGED <<line, printed>>
  BY <1>1 DEF DumpInv
<1>2. CASE Main
  <2>1. IInv
    BY <1>2, InTheLoop
  <2> QED
    BY <1>2, <2>1, ToRibOfPrints, EntriesPrint, PathPrints, HopPrints, CommunitiesPrint,
       CommunityPrints, EndOfBodyPrints DEF Main
<1>3. CASE NextMessage
  <2>1. /\ line = "increment" /\ pc = "running" /\ line' = "message" /\ printed' = <<>>
        /\ pc' = pc /\ raw' = raw /\ views' = views /\ kept' = (views # <<>>)
    BY <1>3 DEF NextMessage, At, Decode
  <2>2. raw = {} /\ views = <<>>
    BY <2>1 DEF DumpInv, LineHasView
  <2>3. (/\ IInv /\ line = "message" /\ printed = <<>>
         /\ views = <<>> /\ raw = {} /\ ~kept /\ pc = "running"
         => DumpInv)'
    BY NothingYet, PTL
  <2> QED BY <2>1, <2>2, <2>3
<1>4. CASE UNCHANGED dumpVars
  <2>1. UNCHANGED <<line, printed, raw, pc, slot, views, kept>>
    BY <1>4 DEF dumpVars, vars
  <2>2. CASE line = "any"
    BY <2>1, <2>2 DEF DumpInv
  <2>3. CASE line # "any" /\ pc # "running"
    BY <2>1, <2>3, DumpStops DEF DumpInv
  <2>4. CASE line # "any" /\ pc = "running"
    <3>1. InEntry' = InEntry /\ InSegment' = InSegment /\ AtHop' = AtHop
      BY <2>1 DEF InEntry, InSegment, AtHop
    <3>2. Cursor' = Cursor
      BY <2>1, <3>1 DEF Cursor
    <3>3. InMessage' = InMessage
      BY <2>1 DEF InMessage, Hops, CommunitiesOf
    <3>4. LineHasView
      BY <2>4 DEF DumpInv
    <3>5. LineHasView'
      BY <2>1, <3>1, <3>2, <3>3, <3>4 DEF LineHasView, LastView
    <3> QED BY <2>1, <2>4, <3>2, <3>5, CursorMoves
  <2> QED BY <2>2, <2>3, <2>4
<1> QED BY <1>1, <1>2, <1>3, <1>4 DEF DumpNext

-----------------------------------------------------------------------------
(* What is before the cursor is what is printed, and when the message is   *)
(* done with the cursor is behind its last entry: the five nested loops    *)
(* print, in messages of any size, all that there is, once and in order.   *)
THEOREM PrintsEverything == DumpSpec => []PrintsMessage
<1>1. DumpInit => (line # "any" => IInv) /\ DumpInv
  BY InitInvariant, DumpInvHolds DEF DumpInit
<1>2. (line # "any" => IInv) /\ [DumpNext]_dumpVars => (line # "any" => IInv)'
  BY DumpSteps
<1>3. /\ line # "any" => IInv
      /\ (line # "any" => IInv)'
      /\ DumpInv /\ [DumpNext]_dumpVars
      => DumpInv'
  BY DumpNextInvariant
<1>4. (line # "any" => IInv) /\ DumpInv => PrintsMessage
  <2> SUFFICES ASSUME IInv, DumpInv, line # "any"
               PROVE  /\ InOrder /\ NothingSkipped
                      /\ \A i \in DOMAIN printed : printed[i] \in InMessage
                      /\ line = "increment" => InMessage \subseteq Range(printed)
    BY DEF PrintsMessage, InOrder, NothingSkipped
  <2>1. InOrder /\ NothingSkipped /\ printed \in Seq(InMessage)
    BY DEF DumpInv
  <2>2. \A i \in DOMAIN printed : printed[i] \in InMessage
    <3> HIDE DEF InMessage
    <3> QED BY <2>1
  <2>3. ASSUME line = "increment", NEW x \in InMessage
        PROVE  x \in Range(printed)
    <3>1. /\ Cursor = Hop(Len(slot.entries) + 1, 0, 0)
          /\ x \in Range(printed) <=> Before(x, Cursor)
      BY <2>3 DEF Cursor, DumpInv, UpToCursor
    <3>2. x.entry \in 1 .. Len(slot.entries) /\ Len(slot.entries) \in Nat
      BY Places
    <3>3. x.entry < Len(slot.entries) + 1 /\ Len(slot.entries) + 1 \in Nat
      BY <3>2
    <3>4. Before(x, Hop(Len(slot.entries) + 1, 0, 0))
      BY <3>3, BeforeHop
    <3> QED BY <3>1, <3>4
  <2> QED BY <2>1, <2>2, <2>3
<1> QED
  BY <1>1, <1>2, <1>3, <1>4, PTL DEF DumpSpec
=============================================================================
