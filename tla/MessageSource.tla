--------------------------- MODULE MessageSource ---------------------------
(***************************************************************************)
(* What a loop over the messages of a file promises: it is given the       *)
(* messages in their order, none missing in between, and it ends when      *)
(* there are no more, or fails because the next one cannot be had.         *)
(*                                                                         *)
(* A file is as in module Reader: at each position, how long a message     *)
(* starting there is and whether it is malformed.  ReportsErrors says what *)
(* becomes of a message that cannot be had: TRUE, the loop is told; FALSE, *)
(* it is told of a failure at the first message only, where it is told     *)
(* even of a file without messages, and simply ends at a later one.        *)
(*                                                                         *)
(* A loop that is broken off can be resumed by another one, which is given *)
(* the message at hand once more and goes on from there.                   *)
(***************************************************************************)
EXTENDS Integers, Sequences

CONSTANTS Files, ReportsErrors

VARIABLES
  file,     (* the file that is read                                       *)
  sound,    (* neither the stream nor the memory of the reader fails       *)
  given,    (* where the messages start that the loops were given          *)
  again,    (* the next one is the last one again                          *)
  outcome   (* "reading", "paused", or how the loop left off               *)

vars == <<file, sound, given, again, outcome>>

Init == /\ file \in Files
        /\ sound \in BOOLEAN
        /\ given = <<>>
        /\ again = FALSE
        /\ outcome = "reading"

NextAt == IF given = <<>> THEN 0
          ELSE given[Len(given)] + file.sizes[given[Len(given)]]
Complete == NextAt = file.len
Available == /\ ~Complete
             /\ NextAt + file.sizes[NextAt] <= file.len
             /\ NextAt \notin file.invalid

Give == /\ outcome = "reading"
        /\ \/ again /\ given' = Append(given, given[Len(given)])
           \/ ~again /\ Available /\ given' = Append(given, NextAt)
        /\ again' = FALSE
        /\ outcome' \in {"reading", "paused"}

Resume == /\ outcome = "paused"
          /\ outcome' = "reading"
          /\ again' = TRUE
          /\ UNCHANGED given

End == /\ outcome = "reading" /\ ~again /\ Complete
       /\ outcome' = IF given = <<>> /\ ~ReportsErrors THEN "failed" ELSE "ended"
       /\ UNCHANGED <<given, again>>

Fail == /\ outcome = "reading" /\ ~again
        /\ ~sound \/ (~Complete /\ ~Available)
        /\ outcome' \in IF ReportsErrors THEN {"failed"}
                        ELSE IF ~sound THEN {"failed", "ended", "aborted"}
                        ELSE IF given = <<>> THEN {"failed"} ELSE {"ended"}
        /\ UNCHANGED <<given, again>>

Next == (Give \/ Resume \/ End \/ Fail) /\ UNCHANGED <<file, sound>>

Spec == Init /\ [][Next]_vars
=============================================================================
