-------------------------------- MODULE Dump --------------------------------
(***************************************************************************)
(* tests/dump.cpp, the body of its loop: one client of the views, which    *)
(* prints the AS path and the communities of every entry of a RIB.         *)
(*                                                                         *)
(* line says what main() does next.  The program has no options set that   *)
(* ask for raw attributes; line is "any" for every other client.           *)
(***************************************************************************)
EXTENDS TableDump

VARIABLES
  line,     (* what main() does next                                       *)
  printed   (* what it printed for the message: hops and communities, as   *)
            (* the places in the message where they are from               *)

dumpVars == <<vars, line, printed>>

DumpInit ==
  /\ Init
  /\ line \in {"any", "message"}
  /\ line = "message" => raw = {}
  /\ printed = <<>>

Hop(e, s, n) == [kind |-> "hop", entry |-> e, segment |-> s, at |-> n]
Community(e, n) == [kind |-> "community", entry |-> e, segment |-> 0, at |-> n]

At(l) == line = l /\ pc = "running"
Place(kind) == (CHOOSE i \in 1 .. Len(views) : views[i].kind = kind)
Index(kind) == views[Place(kind)].at + 1

(* for (auto x : range), and the step to its next round.                   *)
ForBegin(range, body, after) ==
  IF Begin = End(RangeSize(range))
  THEN line' = after /\ UNCHANGED vars
  ELSE line' = body /\ SubscriptAt(range, 0)
ForNext(body, after) ==
  /\ MoveTo(Increment(Last(views).at), Last(views).due + 1)
  /\ line' = IF Len(views') = Len(views) THEN body ELSE after

ToRibOf ==
  \/ /\ At("message")
     /\ ToMrt /\ line' = "table_dump_v2"
     /\ UNCHANGED printed
  \/ /\ At("table_dump_v2")
     /\ ToTableDumpV2 /\ line' = "subtype"
     /\ UNCHANGED printed
  \/ /\ At("subtype")
     /\ IF IsRibIp(slot.subtype) THEN ToRib /\ line' = "rib"
                                 ELSE line' = "done" /\ UNCHANGED vars
     /\ UNCHANGED printed

Entries ==
  /\ \/ At("rib") /\ ForBegin("rib", "entry", "done")
     \/ At("next_entry") /\ ForNext("entry", "done")
  /\ UNCHANGED printed

(* The assertion of has_as_path() is made here and in as_path().           *)
Path ==
  /\ \/ At("entry") /\ Attribute(AS_PATH) /\ line' = "path"
     \/ At("path") /\ ForBegin("as_path", "segment", "end_of_path")
     \/ At("segment") /\ ForBegin("segment", "asn", "next_segment")
     \/ At("next_segment") /\ ForNext("segment", "end_of_path")
     \/ At("end_of_path") /\ Drop /\ line' = "has_communities"
  /\ UNCHANGED printed

PrintHop ==
  /\ At("asn")
  /\ printed' = Append(printed, Hop(Index("entry"), Index("segment"), Index("asn")))
  /\ ForNext("asn", "next_segment")

Communities ==
  /\ \/ /\ At("has_communities")
        /\ IF HasAttrType(Entry, COMMUNITIES)
           THEN Attribute(COMMUNITIES) /\ line' = "communities"
           ELSE line' = "next_entry" /\ UNCHANGED vars
     \/ At("communities") /\ ForBegin("communities", "community", "end_of_communities")
     \/ At("end_of_communities") /\ Drop /\ line' = "next_entry"
  /\ UNCHANGED printed

PrintCommunity ==
  /\ At("community")
  /\ printed' = Append(printed, Community(Index("entry"), Index("community")))
  /\ ForNext("community", "end_of_communities")

(* The views of the body go out of scope.                                  *)
EndOfBody ==
  \/ At("done") /\ views # <<>> /\ Drop /\ UNCHANGED <<line, printed>>
  \/ At("done") /\ views = <<>> /\ line' = "increment" /\ UNCHANGED <<vars, printed>>

Main == \/ ToRibOf \/ Entries \/ Path \/ PrintHop \/ Communities \/ PrintCommunity
        \/ EndOfBody

NextMessage == At("increment") /\ Decode /\ line' = "message" /\ printed' = <<>>

DumpNext ==
  \/ line = "any" /\ Next /\ UNCHANGED <<line, printed>>
  \/ Main
  \/ NextMessage

(* One thread runs the body; that there is a next message is up to the     *)
(* file.                                                                   *)
DumpSpec == DumpInit /\ [][DumpNext]_dumpVars /\ WF_dumpVars(Main)

-----------------------------------------------------------------------------
(* What there is to print of the entry e: where it has a hop, which is a   *)
(* number in a segment of its path, or a community.                        *)
Hops(e) ==
  LET segments == slot.entries[e].segments IN
  UNION {{Hop(e, s, n) : n \in 1 .. segments[s]} : s \in DOMAIN segments}
CommunitiesOf(e) ==
  IF slot.entries[e].table[COMMUNITIES] = 0 THEN {}
  ELSE {Community(e, n) : n \in 1 .. slot.entries[e].communities}
InMessage == UNION {Hops(e) \cup CommunitiesOf(e) : e \in DOMAIN slot.entries}

(* Entries in their order, the hops of an entry before its communities.    *)
Before(x, y) ==
  \/ x.entry < y.entry
  \/ x.entry = y.entry /\ x.kind = "hop" /\ y.kind = "community"
  \/ /\ x.entry = y.entry /\ x.kind = y.kind
     /\ x.segment < y.segment \/ (x.segment = y.segment /\ x.at < y.at)

(* Through five nested ranges and their iterators, what the program prints *)
(* of a message is every hop and every community of every entry, each once *)
(* and in their order; when an assertion ends it, a beginning of that.     *)
PrintsMessage ==
  line # "any" /\ pc # "astray" =>
    /\ \A i, j \in DOMAIN printed : i < j => Before(printed[i], printed[j])
    /\ \A i \in DOMAIN printed :
         /\ printed[i] \in InMessage
         /\ \A x \in InMessage : Before(x, printed[i]) => x \in Range(printed)
    /\ line = "increment" => InMessage \subseteq Range(printed)

(* The nested loops come to their ends: every message is done with, or an  *)
(* assertion ends the program.  Without assertions a message that is not a *)
(* table dump, or an entry without a path, can lead it astray.             *)
DumpGoesOn == line = "message" ~> (line = "increment" \/ pc # "running")
=============================================================================
