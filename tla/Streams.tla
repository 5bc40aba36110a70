------------------------------- MODULE Streams -------------------------------
(***************************************************************************)
(* io::GzipStream and io::Bzip2Stream as operators on a value, with as     *)
(* much of zlib and libbz2 as the wrappers look at.                        *)
(*                                                                         *)
(*   kind    "gzip" or "bzip2"                                             *)
(*   open    the C handle is not null                                      *)
(*   status  status_, numbered as the library numbers it                   *)
(*   pos     uncompressed bytes delivered so far                           *)
(*   past    the library met the end of the data (gzeof(); lastErr is      *)
(*           BZ_STREAM_END)                                                *)
(*   failed  the library reported an error, which is sticky                *)
(*                                                                         *)
(* A file is what decompression yields: len bytes, and an error when a     *)
(* read wants to go past faultAt (NoFault when the data is sound).         *)
(***************************************************************************)
EXTENDS Integers

CONSTANT UIntModulus   (* 2^w for an unsigned int of w bits                *)

ASSUME UIntAssumption == UIntModulus \in Nat /\ UIntModulus > 1

Z_OK == 0
Z_STREAM_END == 1
Z_ERRNO == -1
Z_MEM_ERROR == -4
BZ_OK == 0
BZ_STREAM_END == 4
BZ_MEM_ERROR == -3
BZ_DATA_ERROR == -4

NoFault == -1
IntMax == (UIntModulus \div 2) - 1

(* How a constructor may fare: no file (or no memory) leaves a null        *)
(* handle; gzbuffer() may refuse the size of its internal buffer, which    *)
(* leaves an error behind in an open stream.                               *)
Openings == {"opened", "no_file", "buffer_refused"}

OpenedStatus(kind, opening) ==
  CASE opening = "opened" -> Z_OK
    [] opening = "no_file" -> IF kind = "gzip" THEN Z_MEM_ERROR ELSE BZ_MEM_ERROR
    [] opening = "buffer_refused" -> IF kind = "gzip" THEN Z_ERRNO ELSE BZ_OK

Opened(kind, opening) ==
  [kind |-> kind, open |-> opening # "no_file", status |-> OpenedStatus(kind, opening),
   pos |-> 0, past |-> FALSE, failed |-> FALSE]

(* gzread() and BZ2_bzread().  Both take an int: a length is cut to it,    *)
(* and refused when the cut one is negative.  Both deliver less than asked *)
(* only at the end of the data, and keep an error once they have one.      *)
LibraryRead(s, length, file) ==
  LET asked == length % UIntModulus
      left == file.len - s.pos
      error == [ret |-> -1, s |-> [s EXCEPT !.failed = s.open]]
      Deliver(n) == [ret |-> n,
                     s |-> [s EXCEPT !.pos = @ + n, !.past = @ \/ n < asked]]
  IN IF s.kind = "bzip2" /\ s.past THEN [ret |-> 0, s |-> s]
     ELSE IF ~s.open \/ s.failed \/ asked > IntMax THEN error
     ELSE IF file.faultAt # NoFault /\ s.pos + asked > file.faultAt THEN error
     ELSE Deliver(IF asked <= left THEN asked ELSE left)

(* gzread() says -1, BZ2_bzerror() says which error it was.                *)
GzipRead(s, length, file) ==
  LET r == LibraryRead(s, length, file) IN
  IF r.ret >= 0 THEN [bytes |-> r.ret, s |-> r.s]
                ELSE [bytes |-> 0, s |-> [r.s EXCEPT !.status = Z_ERRNO]]

Bzip2Read(s, length, file) ==
  LET r == LibraryRead(s, length, file) IN
  IF r.ret >= 0
  THEN [bytes |-> r.ret,
        s |-> IF r.ret < length THEN [r.s EXCEPT !.status = BZ_STREAM_END] ELSE r.s]
  ELSE [bytes |-> 0, s |-> [r.s EXCEPT !.status = BZ_DATA_ERROR]]

Read(s, length, file) ==
  IF s.kind = "gzip" THEN GzipRead(s, length, file) ELSE Bzip2Read(s, length, file)

(* Mutant: the end of a gzip file is looked up before the read. *)
Eof_StatusOnly(s) == s.status = Z_STREAM_END

(* Bzip2Stream::eof() compares with zlib's constant.                       *)
Eof(s) == IF s.kind = "gzip" THEN s.past ELSE s.status = Z_STREAM_END

Bad(s) ==
  IF s.kind = "gzip" THEN s.status # Z_OK ELSE s.status \notin {BZ_OK, BZ_STREAM_END}

Good(s) == ~Bad(s) /\ ~Eof(s)
=============================================================================
