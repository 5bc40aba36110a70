----------------------------- MODULE RangeLoop -----------------------------
(***************************************************************************)
(* The documented use of a reader: the range-based for loop of             *)
(* tests/dump.cpp, which throws when it is handed an error.  The loop      *)
(* tests the iterator against the sentinel, dereferences it, runs its body *)
(* and increments it.  Its body may break off, and another loop over the   *)
(* same reader may follow, which begins with a test as well.               *)
(***************************************************************************)
EXTENDS Reader

CONSTANT MaxBreaks  (* bound: how often a loop is broken off               *)

ASSUME RangeLoopAssumption == MaxBreaks \in Nat

VARIABLES
  at,      (* what the loop does next: "test", "deref", "body",            *)
           (* "increment"; or "broken", "left" or "thrown"                 *)
  given,   (* the messages that the body was run for                       *)
  breaks   (* how often it broke off                                       *)

loopVars == <<vars, at, given, breaks>>

LoopInit == Init /\ at = "test" /\ given = <<>> /\ breaks = 0

(* Iterator::operator!=(Sentinel).                                         *)
Test ==
  /\ at = "test" /\ pc = "idle"
  /\ at' = IF NotFinished(status) THEN "deref" ELSE "left"
  /\ UNCHANGED <<vars, given, breaks>>

LoopDeref == at = "deref" /\ Deref /\ at' = "body" /\ UNCHANGED <<given, breaks>>

Body ==
  /\ at = "body" /\ pc = "idle"
  /\ IF returned.tag = "message"
     THEN at' = "increment" /\ given' = Append(given, returned.at)
     ELSE at' = "thrown" /\ UNCHANGED given
  /\ UNCHANGED <<vars, breaks>>

(* The body ends in a break statement.                                     *)
Break ==
  /\ at = "body" /\ pc = "idle" /\ returned.tag = "message"
  /\ breaks < MaxBreaks
  /\ at' = "broken"
  /\ given' = Append(given, returned.at)
  /\ breaks' = breaks + 1
  /\ UNCHANGED vars

(* begin() is called by another loop.                                      *)
Resume == at = "broken" /\ at' = "test" /\ UNCHANGED <<vars, given, breaks>>

LoopIncrement ==
  at = "increment" /\ Increment /\ at' = "test" /\ UNCHANGED <<given, breaks>>

Looping ==
  \/ Test
  \/ LoopDeref
  \/ Body
  \/ Break
  \/ LoopIncrement
  \/ Decoding /\ UNCHANGED <<at, given, breaks>>

LoopNext == Looping \/ Resume

(* One thread runs the loop and the calls in it; nobody has to resume it.  *)
LoopSpec == LoopInit /\ [][LoopNext]_loopVars /\ WF_loopVars(Looping)

-----------------------------------------------------------------------------
(* What the promise is made for: a larger message makes the buffer grow,   *)
(* which drops bytes, and the end of a bzip2 stream goes unnoticed.  A     *)
(* read of a whole buffer is an int.                                       *)
GzipOnly == Kinds \subseteq {"gzip"}

EveryMessageFits ==
  \A f \in Files, size \in BufferSizes : Creatable(size) =>
    /\ PageCeil(size) <= IntMax
    /\ \A p \in 0 .. f.len - 1 : f.sizes[p] <= PageCeil(size)

Sound == env.opening = "opened" /\ env.file.faultAt = NoFault /\ ring.cap > 0

Outcome == CASE at = "left" -> "ended"
             [] at = "thrown" -> "failed"
             [] at = "broken" -> "paused"
             [] pc = "aborted" -> "aborted"
             [] OTHER -> "reading"

(* The iterator is at the message that the body had last.                  *)
Again == /\ at \in {"test", "deref", "body"} /\ pc = "idle"
         /\ given # <<>> /\ message = DecodedAt(given[Len(given)])

(* While every message fits in the buffer, the body is run for the         *)
(* messages of the file in their order, none missing, whatever refills and *)
(* wraps happen in between; an error after the first message only ends the *)
(* loop.  A loop that follows a break has the message that was broken off  *)
(* at once more, and loses none.                                           *)
Silent == INSTANCE MessageSource WITH
            ReportsErrors <- FALSE, file <- env.file, sound <- Sound, outcome <- Outcome,
            again <- Again
LoopGetsMessages == Silent!Spec

(* The loop of tests/dump.cpp throws the error that it is handed: it means *)
(* to leave normally only after the last message.                          *)
Reporting == INSTANCE MessageSource WITH
               ReportsErrors <- TRUE, file <- env.file, sound <- Sound, outcome <- Outcome,
               again <- Again
LoopReportsErrors == Reporting!Spec

(* The loop comes to an end, by itself, by a break or by an assertion.     *)
LoopEnds ==
  (env.asserts \/ Sound) ~> Outcome # "reading"

(* fill_buffer() asserts that no error is pending: a loop over a stream    *)
(* that fails is not to run into that.                                     *)
NoAssertionFails == pc # "aborted"
=============================================================================
