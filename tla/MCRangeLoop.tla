---------------------------- MODULE MCRangeLoop ----------------------------
(* A buffer of four bytes, files of none and of five with messages of one  *)
(* or three: every message fits, the buffer wraps and is refilled.         *)
EXTENDS RangeLoop

FilesOf(n, lengths, faults, invalids) ==
  [len : {n}, faultAt : faults, sizes : [0 .. n - 1 -> lengths], invalid : invalids]

AtMostOne(S) == {T \in SUBSET S : \A x, y \in T : x = y}

AllFiles ==
  FilesOf(0, {1}, {NoFault, 0}, {{}})
    \cup FilesOf(5, {1, 3}, {NoFault} \cup 0 .. 5, AtMostOne(0 .. 4))

(* Files with messages in them, read without a fault.                      *)
SoundFiles == FilesOf(5, {1, 3}, {NoFault}, AtMostOne(0 .. 4))

ASSUME PromiseApplies == GzipOnly /\ EveryMessageFits
=============================================================================
