------------------------------- MODULE Reader -------------------------------
(***************************************************************************)
(* io::Reader: messages of a stream, one at a time, through a mirrored     *)
(* ring buffer.  The reader is driven by its user, who may dereference an  *)
(* iterator (message()), increment one (decode_one()), in any order and as *)
(* often as it likes, also after the end and after an error.               *)
(*                                                                         *)
(* A byte is the position it has in the stream, so that unread says which  *)
(* bytes the buffer holds and in which order.  What the decoder makes of   *)
(* bytes depends on the position it starts at: sizes says how many bytes   *)
(* the message there needs, invalid where it is malformed.                 *)
(***************************************************************************)
EXTENDS RingPointers, Streams, Sequences

CONSTANTS
  Kinds,         (* subset of {"gzip", "bzip2"}                            *)
  Files,         (* records [len, faultAt, sizes, invalid]                 *)
  BufferSizes,   (* constructor arguments                                  *)
  Builds,        (* subset of BOOLEAN: are assertions compiled in?         *)
  Limits         (* the largest buffers that the system may grant          *)

ASSUME ReaderAssumption ==
  /\ Kinds \subseteq {"gzip", "bzip2"}
  /\ BufferSizes \subseteq 0 .. SizeModulus - 1
  /\ Builds \subseteq BOOLEAN
  /\ Limits \subseteq 0 .. MaxCapacity
  /\ \A f \in Files : /\ f.len \in Nat
                      /\ f.faultAt \in {NoFault} \cup 0 .. f.len
                      /\ f.sizes \in [0 .. f.len - 1 -> Nat \ {0}]
                      /\ f.invalid \subseteq 0 .. f.len - 1

VARIABLES
  env,         (* the world of this run: file, opening, asserts, limit     *)
  pc,          (* "idle", in a call: "decode"; "aborted"                   *)
  op,          (* the call in progress                                     *)
  status,      (* status_                                                  *)
  started,     (* started_                                                 *)
  stream,      (* stream_                                                  *)
  ring,        (* buffer_                                                  *)
  unread,      (* the bytes that buffer_ shows                             *)
  message,     (* message_: what it was decoded from                       *)
  out,         (* the local out of decode_one()                            *)
  gotPartial,  (* the local already_got_partial                            *)
  returned,    (* what the last message() gave its caller                  *)
  decoded,     (* history: where the messages decoded so far started       *)
  lost         (* history: bytes of the stream were dropped undecoded      *)

locals == <<op, out, gotPartial>>
history == <<decoded, lost>>
vars == <<env, pc, locals, status, started, stream, ring, unread, message, returned,
          history>>

(* The values of a ReaderStatus; which error of the stream or the decoder  *)
(* it carries makes no difference to the reader.                           *)
ReaderStatus == {"OK", "STREAM_FINISHED", "FINISHED", "STREAM_ERROR", "DECODER_ERROR",
                 "MEMORY_FAILURE"}

(* Mutant: a decoder error does not end the iteration. *)
NotFinished_DecoderErrorToo(st) == st \in {"OK", "STREAM_FINISHED", "DECODER_ERROR"}
NotFinished(st) == st \in {"OK", "STREAM_FINISHED"}

IsNull == ring.cap = 0

(* parsebgp_decode() of the bytes s: the message at their start is cut     *)
(* short, malformed, or there.                                             *)
MessageSize(s) == env.file.sizes[s[1]]
IsWhole(s) == s # <<>> /\ Len(s) >= MessageSize(s)
IsPartial(s) == ~IsWhole(s)
IsInvalid(s) == IsWhole(s) /\ s[1] \in env.file.invalid

Cleared == [tag |-> "cleared", at |-> 0]
DecodedAt(p) == [tag |-> "decoded", at |-> p]
Nothing == [tag |-> "nothing", what |-> "OK", at |-> 0]
Value(m) == [tag |-> "message", what |-> m.tag, at |-> m.at]
Error(st) == [tag |-> "error", what |-> st, at |-> 0]

(* The last two lines of message().                                        *)
MessageResult(st, m) == IF NotFinished(st) THEN Value(m) ELSE Error(st)
Return(st, m) ==
  /\ pc' = "idle"
  /\ returned' = IF op' = "message" THEN MessageResult(st, m) ELSE returned

(* What mirror_create() returns: memory is granted up to a limit.          *)
Granted(capacity) == Creatable(capacity) /\ PageCeil(capacity) <= env.limit

(* A user's reader over a fresh stream; the buffer may have failed.        *)
Init ==
  /\ env \in [file : Files, opening : Openings, asserts : Builds, limit : Limits]
  /\ \E kind \in Kinds : stream = Opened(kind, env.opening)
  /\ \E size \in BufferSizes :
       IF Granted(size) THEN ring = EmptyRing(PageCeil(size)) ELSE ring = NullRing
  /\ status = IF IsNull THEN "MEMORY_FAILURE" ELSE "OK"
  /\ started = FALSE
  /\ unread = <<>>
  /\ message = Cleared
  /\ pc = "idle"
  /\ op = "none"
  /\ out = PrepareRead(NullRing)
  /\ gotPartial = FALSE
  /\ returned = Nothing
  /\ decoded = <<>>
  /\ lost = FALSE

Abort ==
  /\ pc' = "aborted"
  /\ UNCHANGED <<env, out, gotPartial, status, stream, ring, unread, message, returned,
                 history>>

(* fill_buffer() on the buffer b that shows u.  Its assertions, and the    *)
(* one of commit_write(), end the program where they are compiled in; so   *)
(* does reading a bzip2 handle that is null.                               *)
Filled(b) == Read(stream, AvailableWrite(b), env.file)
Commits(b) == Good(Filled(b).s) \/ Eof(Filled(b).s)
FillAborts(b) ==
  \/ env.asserts /\ status # "OK"
  \/ env.asserts /\ Commits(b) /\ ~CommitWriteAsserts(b, Filled(b).bytes)
  \/ stream.kind = "bzip2" /\ ~stream.open

FillBuffer(b, u) ==
  LET r == Filled(b) IN
  /\ stream' = r.s
  /\ IF Commits(b)
     THEN /\ ring' = CommitWrite(b, r.bytes)
          /\ unread' = u \o [i \in 1 .. r.bytes |-> stream.pos + i - 1]
     ELSE ring' = b /\ unread' = u
  /\ status' = IF Good(r.s) THEN status
               ELSE IF Eof(r.s) THEN "STREAM_FINISHED" ELSE "STREAM_ERROR"

Drops(b) == ~Commits(b) /\ Filled(b).bytes > 0

(* Entering decode_one() with the buffer b.                                *)
Enter(b) ==
  /\ pc' = "decode"
  /\ out' = PrepareRead(b)
  /\ gotPartial' = FALSE

(* Mutant: message() does not note that it has started. *)
FirstCall_Always == TRUE
FirstCall == ~started

(* message(), up to the loop of decode_one().                              *)
Deref ==
  /\ pc = "idle"
  /\ op' = "message"
  /\ \/ /\ ~FirstCall
        /\ Return(status, message)
        /\ UNCHANGED <<started, status, stream, ring, unread, out, gotPartial, lost>>
     \/ /\ FirstCall /\ FillAborts(ring)
        /\ started' = TRUE
        /\ Abort
     \/ /\ FirstCall /\ ~FillAborts(ring)
        /\ started' = TRUE
        /\ FillBuffer(ring, unread)
        /\ lost' = (lost \/ Drops(ring))
        /\ IF NotFinished(status')
           THEN Enter(ring') /\ UNCHANGED returned
           ELSE Return(status', message) /\ UNCHANGED <<out, gotPartial>>
  /\ UNCHANGED <<env, message, decoded>>

(* Mutant: an iterator that has ended is incremented all the same. *)
Increment_Unguarded ==
  /\ pc = "idle"
  /\ op' = "increment"
  /\ Enter(ring)
  /\ UNCHANGED <<env, status, started, stream, ring, unread, message, returned, history>>

(* Iterator::operator++().                                                 *)
Increment ==
  /\ pc = "idle"
  /\ op' = "increment"
  /\ IF NotFinished(status) THEN Enter(ring) ELSE UNCHANGED <<pc, out, gotPartial>>
  /\ UNCHANGED <<env, status, started, stream, ring, unread, message, returned, history>>

(* The bytes that the decoder is given.                                    *)
Input == SubSeq(unread, 1, out.size)

(* Mutant: the bytes of the message are not committed. *)
DecodeOk_NotCommitted ==
  /\ pc = "decode"
  /\ IsWhole(Input) /\ ~IsInvalid(Input)
  /\ message' = DecodedAt(Input[1])
  /\ decoded' = Append(decoded, Input[1])
  /\ op' = op
  /\ Return(status, message')
  /\ UNCHANGED <<env, status, started, stream, ring, unread, out, gotPartial, lost>>

DecodeOk ==
  /\ pc = "decode"
  /\ IsWhole(Input) /\ ~IsInvalid(Input)
  /\ message' = DecodedAt(Input[1])
  /\ ring' = CommitRead(ring, MessageSize(Input))
  /\ unread' = SubSeq(unread, MessageSize(Input) + 1, Len(unread))
  /\ decoded' = Append(decoded, Input[1])
  /\ op' = op
  /\ Return(status, message')
  /\ UNCHANGED <<env, status, started, stream, out, gotPartial, lost>>

(* buffer_.reserve(2 * capacity()), whose result is not looked at.         *)
Grown(b) ==
  LET new == (2 * b.cap) % SizeModulus IN
  IF b.cap < new /\ Granted(new) THEN EmptyRing(PageCeil(new)) ELSE b

(* Mutant: the buffer grows before it is filled a first time. *)
ToFill_AlwaysGrown == Grown(ring)
ToFill == IF gotPartial THEN Grown(ring) ELSE ring

(* Mutant: the span is not prepared again after the buffer was filled. *)
Refill_StaleSpan(b, u) ==
  /\ FillBuffer(b, u)
  /\ out' = out

(* After a fill the loop takes a fresh span.                               *)
Refill(b, u) ==
  /\ FillBuffer(b, u)
  /\ out' = PrepareRead(ring')

(* A message cut short, and the stream may have more: the buffer is filled *)
(* once, and grown before it is filled again.                              *)
DecodeMore ==
  /\ pc = "decode"
  /\ IsPartial(Input) /\ status # "STREAM_FINISHED"
  /\ LET b == ToFill
         kept == IF b.cap = ring.cap THEN unread ELSE <<>>
     IN \/ /\ FillAborts(b)
           /\ Abort
        \/ /\ ~FillAborts(b)
           /\ Refill(b, kept)
           /\ gotPartial' = TRUE
           /\ message' = Cleared
           /\ lost' = (lost \/ kept # unread \/ Drops(b))
           /\ UNCHANGED <<env, pc, decoded, returned>>
  /\ UNCHANGED <<op, started>>

(* Mutant: what is left in the buffer at the end is not looked at. *)
DecodeFinished_AnyRest ==
  /\ pc = "decode"
  /\ IsPartial(Input) /\ status = "STREAM_FINISHED"
  /\ status' = "FINISHED"
  /\ message' = Cleared
  /\ op' = op
  /\ Return(status', message')
  /\ UNCHANGED <<env, started, stream, ring, unread, out, gotPartial, history>>

DecodeFinished ==
  /\ pc = "decode"
  /\ IsPartial(Input) /\ status = "STREAM_FINISHED" /\ out.size = 0
  /\ status' = "FINISHED"
  /\ message' = Cleared
  /\ op' = op
  /\ Return(status', message')
  /\ UNCHANGED <<env, started, stream, ring, unread, out, gotPartial, history>>

DecodeError ==
  /\ pc = "decode"
  /\ IsInvalid(Input) \/ (IsPartial(Input) /\ status = "STREAM_FINISHED" /\ out.size > 0)
  /\ status' = "DECODER_ERROR"
  /\ message' = Cleared
  /\ op' = op
  /\ Return(status', message')
  /\ UNCHANGED <<env, started, stream, ring, unread, out, gotPartial, history>>

(* clear_status() of the stream, by a user who kept it and gave the reader *)
(* a reference, as mrt_reader(gzs) does.                                   *)
ClearStatus ==
  /\ pc = "idle"
  /\ stream' = [stream EXCEPT !.status = Z_OK]
  /\ UNCHANGED <<env, pc, locals, status, started, ring, unread, message, returned,
                 history>>

Decoding == DecodeOk \/ DecodeMore \/ DecodeFinished \/ DecodeError
Next == Deref \/ Increment \/ ClearStatus \/ Decoding

(* A call, once made, runs on by itself; nobody has to make a call.        *)
Spec == Init /\ [][Next]_vars /\ WF_vars(Decoding)

-----------------------------------------------------------------------------
(* The state has its shape; the buffer is in bounds and shows as many      *)
(* bytes as its pointers say.                                              *)
TypeOK ==
  /\ env \in [file : Files, opening : Openings, asserts : Builds, limit : Limits]
  /\ pc \in {"idle", "decode", "aborted"}
  /\ op \in {"none", "message", "increment"}
  /\ status \in ReaderStatus
  /\ started \in BOOLEAN
  /\ stream.pos \in 0 .. env.file.len
  /\ ring \in Ring
  /\ IsNull \/ InBounds(ring)
  /\ unread \in Seq(0 .. env.file.len - 1)
  /\ Len(unread) = AvailableRead(ring)
  /\ message.tag \in {"cleared", "decoded"}
  /\ gotPartial \in BOOLEAN
  /\ returned.tag \in {"nothing", "message", "error"}
  /\ decoded \in Seq(0 .. env.file.len - 1)
  /\ lost \in BOOLEAN

(* decode_one() never decodes from a span that a growth or a fill has      *)
(* invalidated ("all pointers to B are invalidated if C is modified").     *)
SpanIsCurrent == pc = "decode" => out = PrepareRead(ring)

(* Where the message after the decoded ones starts.                        *)
NextAt == IF decoded = <<>> THEN 0
          ELSE decoded[Len(decoded)] + env.file.sizes[decoded[Len(decoded)]]

(* Unless growth or a failed fill dropped bytes: the messages decoded are  *)
(* those of the stream in their order, none skipped and none twice, and    *)
(* what the buffer holds is exactly the rest of what was read.             *)
DecodedInOrder ==
  ~lost =>
    /\ \A i \in 1 .. Len(decoded) :
         decoded[i] = IF i = 1 THEN 0 ELSE decoded[i - 1] + env.file.sizes[decoded[i - 1]]
    /\ \A i \in 1 .. Len(unread) : unread[i] = NextAt + i - 1
    /\ NextAt + Len(unread) = stream.pos

(* FINISHED is reported only when nothing is left, in the buffer or in the *)
(* stream; a message cut short at the end is a decoder error instead.      *)
FinishedMeansComplete ==
  status = "FINISHED" => unread = <<>> /\ (lost \/ NextAt = env.file.len)

(* A message that message() hands out was decoded, and is the last one     *)
(* that was: message_ is cleared and half decoded on the way, and none of  *)
(* that is ever shown, in whichever order the user calls.                  *)
ShowsLastDecoded ==
  (pc = "idle" /\ op = "message" /\ returned.tag = "message") =>
    decoded # <<>> /\ returned = Value(DecodedAt(decoded[Len(decoded)]))

(* The error that message() reports stays what it reports, whatever the    *)
(* user calls after it.                                                    *)
ErrorIsFinal == [][returned.tag = "error" => returned' = returned]_vars

(* The buffer of a gzip reader grows, and so drops what it holds, only for *)
(* a message that does not fit or after the stream failed.  (A buffer of   *)
(* UIntModulus bytes would ask for none of them, and grow half empty.)     *)
GrowsOnlyWhenFull ==
  [][ring'.cap > ring.cap =>
       \/ stream.kind = "bzip2"
       \/ Bad(stream)
       \/ unread # <<>> /\ MessageSize(unread) > ring.cap]_vars

(* Memory for a buffer twice as large as the stream, in the system and in  *)
(* size_t.                                                                 *)
MemoryForStream == env.limit >= 2 * env.file.len /\ 4 * env.file.len < SizeModulus

(* A message that is still cut short after a fill makes the buffer grow.   *)
(* Nothing looks at what reserve() returned, so a call would turn in place *)
(* for ever if it did not.                                                 *)
FullBufferGrows ==
  /\ pc = "decode" /\ IsPartial(Input) /\ status = "OK" /\ gotPartial
  /\ stream.kind = "gzip" /\ ~Bad(stream) /\ MemoryForStream
  => Grown(ring).cap > ring.cap

(* A call on a gzip reader returns, or an assertion ends it, while the     *)
(* buffer can grow to hold the rest of the stream and, in a build without  *)
(* assertions, the stream does not fail.                                   *)
CallReturns ==
  (pc = "decode" /\ stream.kind = "gzip" /\ ring.cap > 0 /\ MemoryForStream)
    ~> (pc # "decode" \/ (Bad(stream) /\ ~env.asserts))

(* reserve() tells by its result that memory is short: a call on a sound   *)
(* gzip stream returns then too.                                           *)
ReturnsWhenMemoryIsShort ==
  (pc = "decode" /\ stream.kind = "gzip") ~> (pc # "decode" \/ Bad(stream))

(* Bzip2Stream::read() notes the end of the data as STREAM_END, for eof()  *)
(* to tell: a call on a sound bzip2 stream returns at its end.             *)
ReturnsAtEndOfBzip2 ==
  (pc = "decode" /\ stream.kind = "bzip2") ~> (pc # "decode" \/ Bad(stream))
=============================================================================
