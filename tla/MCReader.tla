------------------------------ MODULE MCReader ------------------------------
(* Small files for Reader.  Four bytes hold messages of one byte and of    *)
(* three, which is larger than the first buffer, at whichever position the *)
(* decoder starts; at most one position is malformed, or an error of the   *)
(* stream comes anywhere.  Six bytes may claim a message of nine, for      *)
(* which the buffer grows until a read is longer than an int.              *)
EXTENDS Reader

FilesOf(n, lengths, faults, invalids) ==
  [len : {n}, faultAt : faults, sizes : [0 .. n - 1 -> lengths], invalid : invalids]

AtMostOne(S) == {T \in SUBSET S : \A x, y \in T : x = y}

AllFiles ==
  FilesOf(0, {1}, {NoFault, 0}, {{}})
    \cup FilesOf(4, {1, 3}, {NoFault}, AtMostOne(0 .. 3))
    \cup FilesOf(4, {1, 3}, 0 .. 4, {{}})
    \cup FilesOf(6, {9}, {NoFault}, {{}})
=============================================================================
