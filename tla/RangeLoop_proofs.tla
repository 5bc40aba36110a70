--------------------------- MODULE RangeLoop_proofs ---------------------------
(***************************************************************************)
(* Proof that the loop of tests/dump.cpp over a gzip reader implements     *)
(* MessageSource: for all files, faults, limits of memory and breaks, with *)
(* or without assertions, provided that every message fits in the buffer   *)
(* that the reader starts with, and a read of all of it is an int.         *)
(***************************************************************************)
EXTENDS RangeLoop, Reader_proofs

-----------------------------------------------------------------------------
(* The invariant.  Latest message of a sequence of them.                   *)
Latest(s) == s[Len(s)]

Fits == ring.cap <= IntMax /\ \A p \in Positions : env.file.sizes[p] <= ring.cap

(* A stream that can only fail from now on.                                *)
Dead == (~stream.open \/ stream.failed) /\ ~stream.past

(* Bytes are dropped only after an error of the stream, which a sound one  *)
(* has not, and the buffer stays the one that every message fits in.       *)
WorldInv ==
  /\ stream.kind = "gzip"
  /\ ring.cap = 0 <=> status = "MEMORY_FAILURE"
  /\ Sound => ~Bad(stream) /\ stream.open /\ ~stream.failed /\ status # "STREAM_ERROR"
  /\ started /\ status = "OK" /\ pc # "aborted" => ~Bad(stream)
  /\ lost => status = "STREAM_ERROR"
  /\ status \notin {"STREAM_ERROR", "MEMORY_FAILURE"} => Fits

(* The message decoded last is the one that the body had last, or the one  *)
(* that it has next.                                                       *)
SameMessage == given # <<>> /\ decoded # <<>> /\ Latest(given) = Latest(decoded)
NewMessage == decoded # <<>> /\ Latest(decoded) = Silent!NextAt /\ Silent!Available

CallInv ==
  pc = "decode" =>
    /\ started
    /\ status \in {"OK", "STREAM_FINISHED", "STREAM_ERROR"}
    /\ status = "STREAM_ERROR" => IsPartial(unread) /\ Dead
    /\ gotPartial /\ status = "OK" => AvailableRead(ring) = ring.cap
    /\ \/ at = "body" /\ op = "message" /\ given = <<>> /\ decoded = <<>>
       \/ at = "test" /\ op = "increment" /\ SameMessage

(* Why a decoder error is one.                                             *)
CannotGoOn ==
  /\ NextAt < env.file.len
  /\ NextAt \in env.file.invalid \/ NextAt + env.file.sizes[NextAt] > env.file.len

OverInv ==
  /\ status \in {"FINISHED", "DECODER_ERROR"} => message = Cleared
  /\ status = "DECODER_ERROR" => CannotGoOn
  /\ status = "MEMORY_FAILURE" => at \in {"test", "left"} /\ pc = "idle" /\ given = <<>>

IdleInv ==
  pc = "idle" =>
    /\ at \in {"test", "deref"} /\ given = <<>> =>
         ~started /\ decoded = <<>> /\ status \in {"OK", "MEMORY_FAILURE"}
    /\ at \in {"test", "deref"} /\ given # <<>> =>
         /\ started
         /\ \/ status \in {"FINISHED", "DECODER_ERROR"} /\ SameMessage
            \/ NotFinished(status) /\ (SameMessage \/ NewMessage)
    /\ at = "deref" => NotFinished(status)
    /\ at = "body" =>
         /\ started /\ op = "message"
         /\ returned = MessageResult(status, message)
         /\ NotFinished(status) => SameMessage \/ NewMessage
         /\ ~NotFinished(status) => given = <<>> /\ decoded = <<>>
    /\ at \in {"increment", "broken"} => started /\ NotFinished(status) /\ SameMessage

LoopTypeOK ==
  /\ at \in {"test", "deref", "body", "increment", "broken", "left", "thrown"}
  /\ given \in Seq(Positions)
  /\ pc \in {"decode", "aborted"} => at \in {"body", "test"}

LoopInv == LoopTypeOK /\ WorldInv /\ CallInv /\ OverInv /\ IdleInv

-----------------------------------------------------------------------------
(* fill_buffer() in a loop.                                                *)
LEMMA FillInLoop ==
  ASSUME IInv, WorldInv, status = "OK", FillBuffer(ring, unread)
  PROVE  /\ ring'.cap = ring.cap /\ stream'.kind = "gzip"
         /\ status' \in {"OK", "STREAM_FINISHED", "STREAM_ERROR"}
         /\ Drops(ring) => status' = "STREAM_ERROR"
         /\ Sound => /\ ~Bad(stream') /\ stream'.open /\ ~stream'.failed
                     /\ status' # "STREAM_ERROR"
         /\ status' = "OK" => ~Bad(stream') /\ AvailableRead(ring') = ring.cap
         /\ status' = "STREAM_ERROR" => unread' = unread /\ ring' = ring /\ ~stream'.past
         /\ status' = "STREAM_ERROR" /\ ~Bad(stream) => ~stream'.open \/ stream'.failed
<1> DEFINE r == Filled(ring)
           length == AvailableWrite(ring)
<1>1. /\ env.file.len \in Nat /\ StreamInv(stream, env.file.len) /\ stream.kind = "gzip"
      /\ length \in Nat /\ RingInv(ring)
  BY FileFacts, RingNat DEF IInv, WorldInv
<1>2. length <= IntMax /\ length < UIntModulus
  BY RingNat, IntMaxIsInt DEF WorldInv, Fits
<1>3. /\ r.s.kind = "gzip" /\ r.bytes \in Nat /\ r.bytes <= length
      /\ Bad(stream) => Bad(r.s)
      /\ ~Bad(stream) /\ Bad(r.s) => ~r.s.open \/ r.s.failed
      /\ ~Bad(r.s) /\ ~r.s.past => r.bytes = length
      /\ stream.open /\ ~stream.failed /\ ~Bad(stream) /\ env.file.faultAt = NoFault =>
           ~Bad(r.s) /\ r.s.open /\ ~r.s.failed
  <2>1. r = Read(stream, length, env.file)
    BY DEF Filled
  <2> HIDE DEF r, length
  <2> QED BY <1>1, <1>2, <2>1, GzipReads, ReadWorks
<1>4. /\ stream' = r.s
      /\ Commits(ring) => ring' = CommitWrite(ring, r.bytes)
      /\ ~Commits(ring) => ring' = ring /\ unread' = unread
      /\ status' = IF Good(r.s) THEN "OK"
                   ELSE IF Eof(r.s) THEN "STREAM_FINISHED" ELSE "STREAM_ERROR"
  BY DEF FillBuffer
<1>5. Commits(ring) <=> Good(r.s) \/ Eof(r.s)
  BY DEF Commits
<1> HIDE DEF r, length
<1>6. ring'.cap = ring.cap
  BY <1>1, <1>3, <1>4, RingWrites DEF length
<1>7. (Eof(r.s) <=> r.s.past) /\ (Good(r.s) <=> ~Bad(r.s) /\ ~r.s.past)
  BY <1>3 DEF Eof, Good
<1>8. status' = "OK" => AvailableRead(ring') = ring.cap
  <2> SUFFICES ASSUME status' = "OK" PROVE AvailableRead(ring') = ring.cap
    OBVIOUS
  <2>1. Good(r.s)
    BY <1>4
  <2>2. r.bytes = length /\ ring' = CommitWrite(ring, length)
    BY <1>3, <1>4, <1>5, <1>7, <2>1
  <2>3. AvailableRead(ring') = AvailableRead(ring) + length
    BY <1>1, <2>2, RingWrites DEF length
  <2> QED BY <2>3, RingNat DEF length
<1>9. Drops(ring) => ~Commits(ring)
  BY DEF Drops
<1>10. Sound => stream.open /\ ~stream.failed /\ ~Bad(stream) /\ env.file.faultAt = NoFault
  BY DEF Sound, WorldInv
<1> QED BY <1>3, <1>4, <1>5, <1>6, <1>7, <1>8, <1>9, <1>10, Zenon

LEMMA NoAbortAtFirst ==
  ASSUME IInv, WorldInv, status = "OK"
  PROVE  ~FillAborts(ring)
<1>1. stream.kind = "gzip" /\ ring.cap # 0 /\ RingInv(ring) /\ env.file.len \in Nat
      /\ StreamInv(stream, env.file.len)
  BY FileFacts DEF WorldInv, IInv
<1>2. AvailableWrite(ring) \in Nat /\ ring \in Ring /\ InBounds(ring)
  BY <1>1, RingNat DEF RingInv
<1>3. Filled(ring).bytes \in 0 .. AvailableWrite(ring)
  BY <1>1, <1>2, ReadWorks DEF Filled
<1>4. CommitWriteAsserts(ring, Filled(ring).bytes)
  BY <1>2, <1>3, CommitWriteInBounds
<1> QED BY <1>1, <1>4 DEF FillAborts

(* A stream that failed goes on failing.                                   *)
LEMMA FillOfDead ==
  ASSUME IInv, WorldInv, Dead, status = "STREAM_ERROR",
         NEW b, RingInv(b), NEW u, FillBuffer(b, u)
  PROVE  /\ ring' = b /\ unread' = u /\ status' = "STREAM_ERROR"
         /\ stream'.kind = "gzip" /\ Dead'
<1> DEFINE r == Filled(b)
           length == AvailableWrite(b)
<1>1. /\ env.file.len \in Nat /\ StreamInv(stream, env.file.len) /\ stream.kind = "gzip"
      /\ length \in Nat
  BY FileFacts DEF IInv, WorldInv, RingInv, Ring, InBounds, NullRing, EmptyRing,
                   AvailableRead, AvailableWrite
<1>2. r = Read(stream, length, env.file)
  BY DEF Filled
<1>3. /\ stream' = r.s
      /\ ~Commits(b) => ring' = b /\ unread' = u
      /\ status' = IF Good(r.s) THEN "STREAM_ERROR"
                   ELSE IF Eof(r.s) THEN "STREAM_FINISHED" ELSE "STREAM_ERROR"
      /\ Commits(b) <=> Good(r.s) \/ Eof(r.s)
  BY DEF FillBuffer, Commits
<1> HIDE DEF r, length
<1>4. r.s.kind = "gzip"
  BY <1>1, <1>2, ReadWorks
<1>5. Bad(r.s) /\ (~r.s.open \/ r.s.failed) /\ r.s.past = stream.past
  BY <1>1, <1>2, GzipReads DEF Dead
<1>6. ~Good(r.s) /\ ~Eof(r.s)
  BY <1>4, <1>5 DEF Good, Eof, Dead
<1> QED BY <1>3, <1>4, <1>5, <1>6 DEF Dead

LEMMA SoundSame ==
  ASSUME env' = env, (ring'.cap > 0) <=> (ring.cap > 0)
  PROVE  Sound' <=> Sound
BY DEF Sound

LEMMA CapPositive ==
  ASSUME IInv, IInv'
  PROVE  /\ ring.cap > 0 <=> ring.cap # 0
         /\ ring'.cap > 0 <=> ring'.cap # 0
<1>1. ring.cap \in Nat /\ ring'.cap \in Nat
  BY DEF IInv, TypeOK, Ring
<1> QED BY <1>1

-----------------------------------------------------------------------------
LEMMA LoopInitInvariant ==
  ASSUME GzipOnly, EveryMessageFits
  PROVE  LoopInit => LoopInv
<1> SUFFICES ASSUME LoopInit PROVE LoopInv
  OBVIOUS
<1>1. IInv /\ env.file \in Files
  BY InitInvariant, FileFacts DEF LoopInit, IInv
<1>2. PICK kind \in Kinds : stream = Opened(kind, env.opening)
  BY DEF LoopInit, Init
<1>3. kind = "gzip" /\ stream.kind = "gzip"
  BY <1>2 DEF GzipOnly, Opened
<1>4. Sound => ~Bad(stream) /\ stream.open /\ ~stream.failed
  BY <1>2, <1>3 DEF Sound, Opened, OpenedStatus, Bad
<1>5. PICK size \in BufferSizes :
        IF Granted(size) THEN ring = EmptyRing(PageCeil(size)) ELSE ring = NullRing
  BY DEF LoopInit, Init
<1>6. ring.cap # 0 => Fits
  <2> SUFFICES ASSUME ring.cap # 0 PROVE Fits
    OBVIOUS
  <2>1. Granted(size) /\ ring.cap = PageCeil(size)
    BY <1>5 DEF NullRing, EmptyRing
  <2> QED BY <1>1, <2>1 DEF EveryMessageFits, Granted, Fits, Positions
<1>7. /\ status = IF ring.cap = 0 THEN "MEMORY_FAILURE" ELSE "OK"
      /\ ~started /\ ~lost /\ pc = "idle" /\ at = "test" /\ given = <<>> /\ decoded = <<>>
  BY DEF LoopInit, Init, IsNull
<1>8. WorldInv
  BY <1>3, <1>4, <1>6, <1>7 DEF WorldInv
<1> QED BY <1>7, <1>8 DEF LoopInv, LoopTypeOK, CallInv, OverInv, IdleInv

(* Steps of the loop between the calls of the reader.                      *)
LEMMA WorldKept ==
  ASSUME WorldInv, UNCHANGED <<env, status, stream, ring, lost, decoded>>,
         pc' = "aborted" \/ (pc # "aborted" /\ started' = started)
  PROVE  WorldInv' /\ (CannotGoOn' <=> CannotGoOn) /\ (Sound' <=> Sound)
<1>1. Sound' <=> Sound
  BY DEF Sound
<1>2. NextAt' = NextAt
  BY DEF NextAt
<1>3. Fits' <=> Fits
  BY DEF Fits, Positions
<1>4. WorldInv'
  BY <1>1, <1>3 DEF WorldInv
<1> QED BY <1>1, <1>2, <1>4 DEF CannotGoOn

LEMMA SameWorld ==
  ASSUME LoopInv, UNCHANGED vars, pc # "aborted"
  PROVE  /\ WorldInv' /\ (CannotGoOn' <=> CannotGoOn) /\ (Sound' <=> Sound)
         /\ pc' = pc /\ status' = status /\ message' = message /\ started' = started
         /\ decoded' = decoded /\ op' = op /\ returned' = returned /\ env' = env
BY WorldKept DEF LoopInv, vars, locals, history

LEMMA SameGiven ==
  ASSUME env' = env, given' = given, decoded' = decoded
  PROVE  /\ SameMessage' <=> SameMessage
         /\ NewMessage' <=> NewMessage
         /\ Silent!NextAt' = Silent!NextAt
         /\ Silent!Available' <=> Silent!Available
<1>1. Silent!NextAt' = Silent!NextAt
  BY DEF Silent!NextAt
<1>2. Silent!Available' <=> Silent!Available
  BY <1>1 DEF Silent!Available, Silent!Complete
<1> QED BY <1>1, <1>2 DEF SameMessage, NewMessage, Latest

LEMMA TestInvariant ==
  ASSUME LoopInv, Test
  PROVE  LoopInv'
<1>1. /\ UNCHANGED vars /\ given' = given /\ at = "test" /\ pc = "idle"
      /\ at' = IF NotFinished(status) THEN "deref" ELSE "left"
  BY DEF Test
<1>2. /\ WorldInv' /\ (CannotGoOn' <=> CannotGoOn)
      /\ pc' = pc /\ status' = status /\ message' = message /\ started' = started
      /\ decoded' = decoded /\ op' = op /\ returned' = returned /\ env' = env
  BY <1>1, SameWorld
<1>3. (SameMessage' <=> SameMessage) /\ (NewMessage' <=> NewMessage)
  BY <1>1, <1>2, SameGiven
<1>4. LoopTypeOK'
  BY <1>1, <1>2 DEF LoopInv, LoopTypeOK, Positions
<1>5. OverInv'
  BY <1>1, <1>2 DEF LoopInv, OverInv, NotFinished
<1>6. IdleInv' /\ CallInv'
  BY <1>1, <1>2, <1>3 DEF LoopInv, IdleInv, CallInv, NotFinished
<1> QED BY <1>2, <1>4, <1>5, <1>6 DEF LoopInv

LEMMA ResumeInvariant ==
  ASSUME IInv, LoopInv, Resume
  PROVE  LoopInv'
<1>1. /\ UNCHANGED vars /\ given' = given /\ at = "broken" /\ at' = "test"
      /\ pc = "idle"
  BY DEF Resume, LoopInv, LoopTypeOK, IInv, TypeOK
<1>2. /\ WorldInv' /\ (CannotGoOn' <=> CannotGoOn)
      /\ pc' = pc /\ status' = status /\ message' = message /\ started' = started
      /\ decoded' = decoded /\ op' = op /\ returned' = returned /\ env' = env
  BY <1>1, SameWorld
<1>3. (SameMessage' <=> SameMessage) /\ (NewMessage' <=> NewMessage)
  BY <1>1, <1>2, SameGiven
<1>4. LoopTypeOK' /\ OverInv'
  BY <1>1, <1>2 DEF LoopInv, LoopTypeOK, Positions, OverInv
<1>5. IdleInv' /\ CallInv'
  BY <1>1, <1>2, <1>3 DEF LoopInv, IdleInv, CallInv, SameMessage
<1> QED BY <1>2, <1>4, <1>5 DEF LoopInv

(* The body is done with a message, and a break ends the loop or not.      *)
LEMMA BodyInvariant ==
  ASSUME IInv, LoopInv, Body \/ Break
  PROVE  LoopInv'
<1>1. UNCHANGED vars /\ at = "body" /\ pc = "idle"
  BY DEF Body, Break
<1>2. /\ WorldInv' /\ (CannotGoOn' <=> CannotGoOn)
      /\ pc' = pc /\ status' = status /\ message' = message /\ started' = started
      /\ decoded' = decoded /\ op' = op /\ returned' = returned /\ env' = env
  BY <1>1, SameWorld
<1>3. /\ started /\ op = "message" /\ returned = MessageResult(status, message)
      /\ given \in Seq(Positions)
  BY <1>1 DEF LoopInv, IdleInv, LoopTypeOK
<1>4. CASE returned.tag = "message"
  <2>1. NotFinished(status) /\ returned = Value(message)
    BY <1>3, <1>4 DEF MessageResult, Error
  <2>2. decoded # <<>> /\ message = DecodedAt(decoded[Len(decoded)])
    BY <1>1, <1>3, <2>1 DEF IInv, AtHand
  <2>3. given' = Append(given, returned.at) /\ at' \in {"increment", "broken"}
    BY <1>4 DEF Body, Break
  <2>4. returned.at = Latest(decoded)
    BY <2>1, <2>2 DEF Value, DecodedAt, Latest
  <2>5. Latest(decoded) \in Positions
    <3>1. decoded \in Seq(Positions)
      BY DEF IInv, TypeOK, Positions
    <3> HIDE DEF Positions
    <3> QED BY <2>2, <3>1 DEF Latest
  <2>6. given' \in Seq(Positions) /\ given' # <<>> /\ Latest(given') = Latest(decoded)
    <3> DEFINE e == Latest(decoded)
    <3>1. e \in Positions /\ given' = Append(given, e)
      BY <2>3, <2>4, <2>5
    <3> HIDE DEF e, Positions
    <3>2. /\ given' \in Seq(Positions) /\ Len(given') = Len(given) + 1
          /\ given'[Len(given) + 1] = e
      BY <1>3, <3>1, Added
    <3>3. given' # <<>>
      BY <1>3, <3>2
    <3> QED BY <3>2, <3>3 DEF Latest, e
  <2>7. SameMessage'
    BY <1>2, <2>2, <2>6 DEF SameMessage, Latest
  <2>8. LoopTypeOK'
    BY <1>1, <1>2, <2>3, <2>6 DEF LoopTypeOK, Positions
  <2>9. status # "MEMORY_FAILURE"
    BY <2>1 DEF NotFinished
  <2>10. OverInv'
    BY <1>2, <2>9 DEF LoopInv, OverInv
  <2>11. IdleInv' /\ CallInv'
    BY <1>1, <1>2, <1>3, <2>1, <2>3, <2>7 DEF IdleInv, CallInv
  <2> QED BY <1>2, <2>8, <2>10, <2>11 DEF LoopInv
<1>5. CASE returned.tag # "message"
  <2>1. at' = "thrown" /\ given' = given
    BY <1>5 DEF Body, Break
  <2>2. LoopTypeOK'
    BY <1>1, <1>2, <2>1 DEF LoopInv, LoopTypeOK, Positions
  <2>3. OverInv'
    BY <1>1, <1>2, <2>1 DEF LoopInv, OverInv
  <2>4. IdleInv' /\ CallInv'
    BY <1>1, <1>2, <2>1 DEF IdleInv, CallInv
  <2> QED BY <1>2, <2>2, <2>3, <2>4 DEF LoopInv
<1> QED BY <1>4, <1>5

-----------------------------------------------------------------------------
(* Steps of the reader in a loop.                                          *)
LEMMA LoopIncrementInvariant ==
  ASSUME IInv, LoopInv, LoopIncrement
  PROVE  LoopInv'
<1>1. /\ at = "increment" /\ at' = "test" /\ given' = given /\ pc = "idle"
      /\ op' = "increment"
      /\ UNCHANGED <<env, status, started, stream, ring, unread, message, returned,
                     decoded, lost>>
  BY DEF LoopIncrement, Increment, history
<1>2. started /\ NotFinished(status) /\ SameMessage
  BY <1>1 DEF LoopInv, IdleInv
<1>3. pc' = "decode" /\ gotPartial' = FALSE
  BY <1>2 DEF LoopIncrement, Increment, Enter
<1>4. WorldInv' /\ (CannotGoOn' <=> CannotGoOn)
  BY <1>1, WorldKept DEF LoopInv
<1>5. SameMessage'
  BY <1>1, <1>2, SameGiven
<1>6. LoopTypeOK'
  BY <1>1 DEF LoopInv, LoopTypeOK, Positions
<1>7. OverInv' /\ IdleInv'
  BY <1>1, <1>2, <1>3 DEF NotFinished, OverInv, IdleInv
<1>8. CallInv'
  BY <1>1, <1>2, <1>3, <1>5 DEF NotFinished, CallInv
<1> QED BY <1>4, <1>6, <1>7, <1>8 DEF LoopInv

(* fill_buffer() of the buffer as it is, for the first call and for the    *)
(* first message that is cut short.                                        *)
LEMMA FillKeepsWorld ==
  ASSUME IInv, IInv', WorldInv, status = "OK", FillBuffer(ring, unread),
         env' = env, lost' = (lost \/ Drops(ring)), started'
  PROVE  WorldInv'
<1>1. /\ ring'.cap = ring.cap /\ stream'.kind = "gzip"
      /\ status' \in {"OK", "STREAM_FINISHED", "STREAM_ERROR"}
      /\ Drops(ring) => status' = "STREAM_ERROR"
      /\ Sound => /\ ~Bad(stream') /\ stream'.open /\ ~stream'.failed
                  /\ status' # "STREAM_ERROR"
      /\ status' = "OK" => ~Bad(stream')
  BY FillInLoop
<1>2. Sound' <=> Sound
  BY <1>1, SoundSame
<1>3. ring'.cap # 0 /\ ~lost /\ Fits
  BY <1>1 DEF WorldInv
<1>4. Fits'
  BY <1>1, <1>3 DEF Fits, Positions
<1> QED BY <1>1, <1>2, <1>3, <1>4 DEF WorldInv

LEMMA LoopDerefInvariant ==
  ASSUME IInv, IInv', LoopInv, LoopDeref
  PROVE  LoopInv'
<1>1. /\ at = "deref" /\ at' = "body" /\ given' = given /\ pc = "idle"
      /\ op' = "message" /\ UNCHANGED <<env, message, decoded>>
      /\ NotFinished(status)
  BY DEF LoopDeref, Deref, LoopInv, IdleInv
<1>2. LoopTypeOK'
  BY <1>1 DEF LoopInv, LoopTypeOK, Positions
<1>3. (SameMessage' <=> SameMessage) /\ (NewMessage' <=> NewMessage)
  BY <1>1, SameGiven
<1>4. CASE ~FirstCall
  <2>1. /\ pc' = "idle" /\ returned' = MessageResult(status, message)
        /\ UNCHANGED <<started, status, stream, ring, lost>>
    BY <1>1, <1>4 DEF LoopDeref, Deref, Return
  <2>2. started /\ (SameMessage \/ NewMessage)
    BY <1>1, <1>4 DEF LoopInv, IdleInv, FirstCall, NotFinished
  <2>3. WorldInv'
    BY <1>1, <2>1, WorldKept DEF LoopInv
  <2>4. OverInv'
    BY <1>1, <2>1 DEF OverInv, NotFinished
  <2>5. IdleInv' /\ CallInv'
    BY <1>1, <1>3, <2>1, <2>2 DEF IdleInv, CallInv
  <2> QED BY <1>2, <2>3, <2>4, <2>5 DEF LoopInv
<1>5. CASE FirstCall
  <2>1. ~started /\ status = "OK" /\ given = <<>> /\ decoded = <<>>
    BY <1>1, <1>5 DEF LoopInv, IdleInv, FirstCall, NotFinished
  <2>2. ~FillAborts(ring)
    BY <2>1, NoAbortAtFirst DEF LoopInv
  <2>3. /\ started' = TRUE
        /\ FillBuffer(ring, unread)
        /\ lost' = (lost \/ Drops(ring))
        /\ IF NotFinished(status')
           THEN Enter(ring') /\ UNCHANGED returned
           ELSE Return(status', message) /\ UNCHANGED <<out, gotPartial>>
    BY <1>5, <2>2 DEF LoopDeref, Deref
  <2>4. WorldInv'
    BY <1>1, <2>1, <2>3, FillKeepsWorld DEF LoopInv
  <2>5. status' \in {"OK", "STREAM_FINISHED", "STREAM_ERROR"}
    BY <2>1, <2>3, FillInLoop DEF LoopInv
  <2>6. OverInv'
    BY <2>5 DEF OverInv
  <2>7. CASE NotFinished(status')
    <3>1. pc' = "decode" /\ gotPartial' = FALSE
      BY <2>3, <2>7 DEF Enter
    <3>2. status' # "STREAM_ERROR"
      BY <2>7 DEF NotFinished
    <3>3. IdleInv' /\ CallInv'
      BY <1>1, <2>1, <2>3, <2>5, <3>1, <3>2 DEF IdleInv, CallInv
    <3> QED BY <1>2, <2>4, <2>6, <3>3 DEF LoopInv
  <2>8. CASE ~NotFinished(status')
    <3>1. pc' = "idle" /\ returned' = MessageResult(status', message')
      BY <1>1, <2>3, <2>8 DEF Return
    <3>2. IdleInv' /\ CallInv'
      BY <1>1, <2>1, <2>3, <2>8, <3>1 DEF IdleInv, CallInv
    <3> QED BY <1>2, <2>4, <2>6, <3>2 DEF LoopInv
  <2> QED BY <2>7, <2>8
<1> QED BY <1>4, <1>5

(* The next message of the reader is the one that the body wants next.     *)
LEMMA NextIsGiven ==
  ASSUME IInv, LoopInv, pc = "decode"
  PROVE  Silent!NextAt = NextAt
<1>1. CASE given = <<>> /\ decoded = <<>>
  BY <1>1 DEF Silent!NextAt, NextAt
<1>2. CASE SameMessage
  BY <1>2 DEF SameMessage, Silent!NextAt, NextAt, Latest
<1> QED BY <1>1, <1>2 DEF LoopInv, CallInv

(* While nothing was dropped the unread bytes start at the next message.   *)
LEMMA UnreadStartsAtNext ==
  ASSUME IInv, ~lost, unread # <<>>
  PROVE  /\ unread[1] = NextAt
         /\ MessageSize(unread) = env.file.sizes[NextAt]
         /\ env.file.sizes[NextAt] \in Nat \ {0}
         /\ Len(unread) \in Nat
         /\ NextAt \in Nat /\ env.file.len \in Nat
         /\ NextAt + Len(unread) <= env.file.len
<1>1. /\ unread \in Seq(Positions) /\ env.file.len \in Nat
      /\ env.file.sizes \in [Positions -> Nat \ {0}]
  BY FileFacts DEF IInv, TypeOK, Positions
<1>2. PICK n \in Nat : n = Len(unread) /\ n # 0
  BY <1>1
<1>3. NextAt \in Nat
  BY NextAtNat DEF IInv
<1>4. \A i \in 1 .. n : unread[i] = NextAt + i - 1
  BY <1>2 DEF IInv, DecodedInOrder
<1>5. unread[1] = NextAt /\ unread[n] = NextAt + n - 1
  <2>1. 1 \in 1 .. n /\ n \in 1 .. n
    BY <1>2
  <2>2. unread[1] = NextAt + 1 - 1
    BY <1>4, <2>1
  <2> QED BY <1>3, <1>4, <2>1, <2>2
<1>6. unread[1] \in Positions /\ unread[n] \in Positions
  <2> HIDE DEF Positions
  <2> QED BY <1>1, <1>2
<1>7. env.file.sizes[NextAt] \in Nat \ {0}
  BY <1>1, <1>5, <1>6
<1>8. NextAt + n <= env.file.len
  BY <1>1, <1>2, <1>3, <1>5, <1>6 DEF Positions
<1> QED BY <1>1, <1>2, <1>3, <1>5, <1>7, <1>8 DEF MessageSize

LEMMA LoopDecodeOkInvariant ==
  ASSUME IInv, IInv', LoopInv, DecodeOk, UNCHANGED <<at, given>>
  PROVE  LoopInv'
<1>1. Input = unread /\ pc = "decode"
  BY InputIsUnread DEF IInv, DecodeOk
<1>2. IsWhole(unread) /\ ~IsInvalid(unread)
  BY <1>1 DEF DecodeOk
<1>3. started /\ NotFinished(status) /\ status # "STREAM_ERROR"
  BY <1>1, <1>2 DEF LoopInv, CallInv, IsPartial, NotFinished
<1>4. ~lost /\ unread # <<>> /\ Len(unread) >= MessageSize(unread)
  BY <1>2, <1>3 DEF LoopInv, WorldInv, IsWhole
<1>5. /\ decoded' = Append(decoded, NextAt)
      /\ ring' = CommitRead(ring, env.file.sizes[NextAt])
      /\ pc' = "idle" /\ op' = op
      /\ op = "message" => returned' = MessageResult(status', message')
      /\ UNCHANGED <<env, status, started, stream, lost, at, given>>
  BY <1>1, <1>4, UnreadStartsAtNext DEF DecodeOk, Return
<1>6. NextAt + env.file.sizes[NextAt] <= env.file.len /\ NextAt < env.file.len
      /\ NextAt # env.file.len /\ NextAt \in Nat
  BY <1>4, UnreadStartsAtNext
<1>7. NextAt \notin env.file.invalid
  BY <1>2, <1>4, UnreadStartsAtNext DEF IsInvalid
<1>8. ring'.cap = ring.cap
  <2>1. env.file.sizes[NextAt] \in Nat /\ env.file.sizes[NextAt] <= AvailableRead(ring)
    BY <1>4, UnreadStartsAtNext, RingNat
  <2> QED BY <1>5, <2>1, RingReads DEF IInv
<1>9. NewMessage'
  <2>1. Silent!NextAt' = Silent!NextAt /\ Silent!NextAt = NextAt
    BY <1>1, <1>5, NextIsGiven DEF Silent!NextAt
  <2>2. decoded' # <<>> /\ Latest(decoded') = NextAt
    <3>1. decoded \in Seq(Nat)
      BY FileFacts DEF IInv, TypeOK
    <3>2. NextAt \in Nat
      BY <1>6
    <3>3. /\ Append(decoded, NextAt) \in Seq(Nat)
          /\ Len(Append(decoded, NextAt)) = Len(decoded) + 1
          /\ Append(decoded, NextAt)[Len(decoded) + 1] = NextAt
      BY <3>1, <3>2, Added
    <3>4. Append(decoded, NextAt) # <<>>
      BY <3>1, <3>3
    <3> QED BY <1>5, <3>3, <3>4 DEF Latest
  <2>3. Silent!Available'
    BY <1>5, <1>6, <1>7, <2>1 DEF Silent!Available, Silent!Complete
  <2> QED BY <2>1, <2>2, <2>3 DEF NewMessage
<1>10. WorldInv'
  <2>1. Sound' <=> Sound
    BY <1>5, <1>8, SoundSame
  <2>2. Fits' <=> Fits
    BY <1>5, <1>8 DEF Fits, Positions
  <2> QED BY <1>1, <1>5, <1>8, <2>1, <2>2 DEF LoopInv, WorldInv
<1>11. LoopTypeOK' /\ OverInv'
  BY <1>1, <1>3, <1>5 DEF LoopInv, LoopTypeOK, Positions, OverInv, NotFinished
<1>12. \/ at = "body" /\ op = "message"
       \/ at = "test" /\ given # <<>>
  BY <1>1 DEF LoopInv, CallInv, SameMessage
<1>13. IdleInv' /\ CallInv'
  BY <1>3, <1>5, <1>9, <1>12 DEF IdleInv, CallInv, NotFinished
<1> QED BY <1>10, <1>11, <1>13 DEF LoopInv

(* decode_one() ends with a status and no message.                         *)
LEMMA LoopEndsWith ==
  ASSUME IInv, LoopInv, pc = "decode",
         NEW st \in {"FINISHED", "DECODER_ERROR"}, st = "DECODER_ERROR" => CannotGoOn,
         status # "STREAM_ERROR", status' = st, message' = Cleared, op' = op,
         Return(status', message'),
         UNCHANGED <<env, started, stream, ring, decoded, lost, at, given>>
  PROVE  LoopInv'
<1>1. pc' = "idle" /\ (op = "message" => returned' = MessageResult(status', message'))
  BY DEF Return
<1>2. /\ started /\ ~lost /\ status \in {"OK", "STREAM_FINISHED"}
      /\ \/ at = "body" /\ op = "message" /\ given = <<>> /\ decoded = <<>>
         \/ at = "test" /\ op = "increment" /\ SameMessage
  BY DEF LoopInv, CallInv, WorldInv
<1>3. (SameMessage' <=> SameMessage) /\ (Sound' <=> Sound) /\ (CannotGoOn' <=> CannotGoOn)
  BY SameGiven, SoundSame DEF CannotGoOn, NextAt
<1>4. Fits' <=> Fits
  BY DEF Fits, Positions
<1>5. WorldInv'
  BY <1>2, <1>3, <1>4 DEF LoopInv, WorldInv
<1>6. LoopTypeOK' /\ OverInv'
  BY <1>2, <1>3 DEF LoopInv, LoopTypeOK, Positions, OverInv
<1>7. IdleInv' /\ CallInv'
  BY <1>1, <1>2, <1>3 DEF IdleInv, CallInv, NotFinished, SameMessage
<1> QED BY <1>5, <1>6, <1>7 DEF LoopInv

LEMMA LoopDecodeFinishedInvariant ==
  ASSUME IInv, LoopInv, DecodeFinished, UNCHANGED <<at, given>>
  PROVE  LoopInv'
BY LoopEndsWith DEF DecodeFinished, history

(* The next message is malformed, or cut short by the end of the stream.   *)
LEMMA DecoderErrorIsFinal ==
  ASSUME IInv, LoopInv, DecodeError
  PROVE  CannotGoOn /\ status # "STREAM_ERROR"
<1>1. Input = unread /\ out.size = Len(unread) /\ pc = "decode"
  BY InputIsUnread DEF IInv, DecodeError, SpanIsCurrent, TypeOK, PrepareRead
<1>2. CASE IsInvalid(unread)
  <2>1. status # "STREAM_ERROR" /\ ~lost /\ unread # <<>>
    BY <1>1, <1>2 DEF LoopInv, CallInv, WorldInv, IsPartial, IsInvalid, IsWhole
  <2>2. NextAt \in env.file.invalid /\ NextAt < env.file.len
    BY <1>2, <2>1, UnreadStartsAtNext DEF IsInvalid, IsWhole
  <2> QED BY <2>1, <2>2 DEF CannotGoOn
<1>3. CASE IsPartial(unread) /\ status = "STREAM_FINISHED" /\ out.size > 0
  <2>1. ~lost /\ unread # <<>>
    BY <1>1, <1>3, RingNat DEF LoopInv, WorldInv
  <2>2. Len(unread) < MessageSize(unread)
    BY <1>3, <2>1, UnreadStartsAtNext DEF IsPartial, IsWhole
  <2>3. NextAt + Len(unread) = stream.pos /\ stream.pos = env.file.len
    BY <1>3, <2>1 DEF IInv, DecodedInOrder, EndIsKnown, StreamInv
  <2>4. NextAt + env.file.sizes[NextAt] > env.file.len /\ NextAt < env.file.len
    BY <2>1, <2>2, <2>3, UnreadStartsAtNext, RingNat
  <2> QED BY <1>3, <2>4 DEF CannotGoOn
<1> QED BY <1>1, <1>2, <1>3 DEF DecodeError

LEMMA LoopDecodeErrorInvariant ==
  ASSUME IInv, LoopInv, DecodeError, UNCHANGED <<at, given>>
  PROVE  LoopInv'
BY LoopEndsWith, DecoderErrorIsFinal DEF DecodeError, history

(* A program that an assertion has ended.                                  *)
LEMMA LoopAbortInvariant ==
  ASSUME IInv, LoopInv, pc = "decode", Abort, UNCHANGED <<at, given>>
  PROVE  LoopInv'
<1>1. pc' = "aborted" /\ UNCHANGED <<env, status, stream, ring, lost, decoded, message>>
  BY DEF Abort, history
<1>2. WorldInv' /\ (CannotGoOn' <=> CannotGoOn)
  BY <1>1, WorldKept DEF LoopInv
<1>3. status # "MEMORY_FAILURE"
  BY DEF LoopInv, OverInv
<1>4. LoopTypeOK' /\ OverInv' /\ IdleInv' /\ CallInv'
  BY <1>1, <1>2, <1>3 DEF LoopInv, LoopTypeOK, Positions, OverInv, IdleInv, CallInv
<1> QED BY <1>2, <1>4 DEF LoopInv

(* A buffer that every message fits in is full after one fill, or the      *)
(* stream has ended: a second one does not happen.                         *)
LEMMA FullHoldsAMessage ==
  ASSUME IInv, LoopInv, pc = "decode", status = "OK", IsPartial(unread)
  PROVE  ~gotPartial
<1> SUFFICES ASSUME gotPartial PROVE FALSE
  OBVIOUS
<1>1. AvailableRead(ring) = ring.cap /\ ring.cap # 0 /\ Fits /\ ~lost
  BY DEF LoopInv, CallInv, WorldInv
<1>2. Len(unread) = ring.cap /\ unread # <<>>
  BY <1>1, RingNat
<1>3. /\ MessageSize(unread) = env.file.sizes[NextAt] /\ NextAt \in Positions
      /\ MessageSize(unread) \in Nat /\ Len(unread) \in Nat /\ ring.cap \in Nat
  <2>1. /\ MessageSize(unread) = env.file.sizes[NextAt]
        /\ env.file.sizes[NextAt] \in Nat /\ NextAt \in Nat /\ env.file.len \in Nat
        /\ NextAt + Len(unread) <= env.file.len
    BY <1>1, <1>2, UnreadStartsAtNext
  <2>2. ring.cap \in Nat /\ Len(unread) \in Nat /\ Len(unread) # 0
    BY <1>1, <1>2, RingNat
  <2>3. NextAt \in Positions
    BY <2>1, <2>2 DEF Positions
  <2> QED BY <2>1, <2>2, <2>3
<1>4. MessageSize(unread) <= ring.cap
  BY <1>1, <1>3 DEF Fits
<1> QED BY <1>2, <1>3, <1>4 DEF IsPartial, IsWhole

LEMMA LoopDecodeMoreInvariant ==
  ASSUME IInv, IInv', LoopInv, DecodeMore, UNCHANGED <<at, given>>
  PROVE  LoopInv'
<1>1. PICK b, kept : b = ToFill /\ kept = IF b.cap = ring.cap THEN unread ELSE <<>>
  OBVIOUS
<1>2. /\ Input = unread /\ pc = "decode" /\ IsPartial(unread)
      /\ status # "STREAM_FINISHED" /\ op' = op /\ started' = started
  BY InputIsUnread DEF IInv, DecodeMore
<1>3. /\ started /\ status \in {"OK", "STREAM_ERROR"}
      /\ \/ at = "body" /\ op = "message" /\ given = <<>> /\ decoded = <<>>
         \/ at = "test" /\ op = "increment" /\ SameMessage
  BY <1>2 DEF LoopInv, CallInv
<1>4. CASE Abort
  BY <1>2, <1>4, LoopAbortInvariant
<1>5. CASE /\ ~FillAborts(b)
           /\ Refill(b, kept)
           /\ gotPartial' = TRUE
           /\ message' = Cleared
           /\ lost' = (lost \/ kept # unread \/ Drops(b))
           /\ UNCHANGED <<env, pc, decoded, returned>>
  <2>1. FillBuffer(b, kept) /\ pc' = "decode"
    BY <1>2, <1>5 DEF Refill
  <2>2. LoopTypeOK'
    BY <1>5 DEF LoopInv, LoopTypeOK, Positions
  <2>3. SameMessage' <=> SameMessage
    BY <1>5, SameGiven
  <2>4. CASE status = "OK"
    <3>1. b = ring /\ kept = unread
      BY <1>1, <1>2, <2>4, FullHoldsAMessage DEF ToFill
    <3>2. ~Bad(stream)
      BY <1>2, <1>3, <2>4 DEF LoopInv, WorldInv
    <3>3. /\ status' \in {"OK", "STREAM_FINISHED", "STREAM_ERROR"}
          /\ ring'.cap = ring.cap
          /\ status' = "OK" => AvailableRead(ring') = ring.cap
          /\ status' = "STREAM_ERROR" => /\ unread' = unread /\ ~stream'.past
                                         /\ ~stream'.open \/ stream'.failed
      BY <2>1, <2>4, <3>1, <3>2, FillInLoop DEF LoopInv
    <3>4. WorldInv'
      BY <1>2, <1>3, <1>5, <2>1, <2>4, <3>1, FillKeepsWorld DEF LoopInv
    <3>5. status' = "STREAM_ERROR" => IsPartial(unread)' /\ Dead'
      BY <1>2, <1>5, <3>3 DEF Dead, IsPartial, IsWhole, MessageSize
    <3>6. CallInv'
      BY <1>2, <1>3, <1>5, <2>3, <3>3, <3>5 DEF CallInv
    <3>7. OverInv' /\ IdleInv'
      BY <2>1, <3>3 DEF OverInv, IdleInv
    <3> QED BY <2>2, <3>4, <3>6, <3>7 DEF LoopInv
  <2>5. CASE status = "STREAM_ERROR"
    <3>1. Dead /\ RingInv(ring) /\ ring.cap # 0 /\ ring.cap \in Nat
      BY <1>2, <2>5, RingNat DEF LoopInv, CallInv, WorldInv, IInv
    <3>2. RingInv(b) /\ b.cap # 0
      <4>1. b = ring \/ b = Grown(ring)
        BY <1>1 DEF ToFill
      <4>2. RingInv(Grown(ring)) /\ (Grown(ring).cap = 0 => Grown(ring) = ring)
        <5>1. RingInv(Grown(ring))
          BY <3>1, GrownRing
        <5>2. Grown(ring) = ring \/ (Grown(ring) = EmptyRing(PageCeil((2 * ring.cap) % SizeModulus))
                                     /\ Granted((2 * ring.cap) % SizeModulus))
          BY DEF Grown
        <5>3. (2 * ring.cap) % SizeModulus \in Nat
          BY <3>1, PageAssumption
        <5>4. Granted((2 * ring.cap) % SizeModulus) =>
                PageCeil((2 * ring.cap) % SizeModulus) # 0
          BY <5>3, CreatableSize DEF Granted
        <5> QED BY <5>1, <5>2, <5>4 DEF EmptyRing
      <4> QED BY <3>1, <4>1, <4>2
    <3>3. /\ ring' = b /\ unread' = kept /\ status' = "STREAM_ERROR"
          /\ stream'.kind = "gzip" /\ Dead'
      BY <2>1, <2>5, <3>1, <3>2, FillOfDead DEF LoopInv
    <3>4. Sound' <=> Sound
      BY <1>5, <3>1, <3>2, <3>3, CapPositive, SoundSame
    <3>5. ~Sound
      BY <2>5 DEF LoopInv, WorldInv
    <3>6. WorldInv'
      BY <3>2, <3>3, <3>4, <3>5 DEF WorldInv
    <3>7. IsPartial(unread)'
      BY <1>1, <1>2, <1>5, <3>3 DEF IsPartial, IsWhole, MessageSize
    <3>8. CallInv'
      BY <1>2, <1>3, <1>5, <2>3, <3>3, <3>7 DEF CallInv
    <3>9. OverInv' /\ IdleInv'
      BY <2>1, <3>3 DEF OverInv, IdleInv
    <3> QED BY <2>2, <3>6, <3>8, <3>9 DEF LoopInv
  <2> QED BY <1>3, <2>4, <2>5
<1> QED BY <1>1, <1>4, <1>5 DEF DecodeMore

LEMMA LoopStutterInvariant ==
  ASSUME IInv, LoopInv, UNCHANGED loopVars
  PROVE  LoopInv'
<1>1. /\ UNCHANGED <<at, given, env, pc, op, status, started, stream, ring, unread, message,
                     out, gotPartial, returned, decoded, lost>>
  BY DEF loopVars, vars, locals, history
<1>2. /\ SameMessage' <=> SameMessage
      /\ NewMessage' <=> NewMessage
      /\ Sound' <=> Sound
  BY <1>1, SameGiven, SoundSame
<1>3. (CannotGoOn' <=> CannotGoOn) /\ (Fits' <=> Fits) /\ (Dead' <=> Dead)
  BY <1>1 DEF CannotGoOn, NextAt, Fits, Positions, Dead
<1>4. LoopTypeOK'
  BY <1>1 DEF LoopInv, LoopTypeOK, Positions
<1>5. WorldInv'
  BY <1>1, <1>2, <1>3 DEF LoopInv, WorldInv
<1>6. IsPartial(unread)' <=> IsPartial(unread)
  BY <1>1 DEF IsPartial, IsWhole, MessageSize
<1>7. CallInv'
  BY <1>1, <1>2, <1>3, <1>6 DEF LoopInv, CallInv
<1>8. OverInv' /\ IdleInv'
  BY <1>1, <1>2, <1>3 DEF LoopInv, OverInv, IdleInv
<1> QED BY <1>4, <1>5, <1>7, <1>8 DEF LoopInv

(* Every step of the loop is one of the reader, or none.                   *)
LEMMA LoopIsAUser == [LoopNext]_loopVars => [Next]_vars
BY DEF LoopNext, Looping, Test, LoopDeref, Body, Break, Resume, LoopIncrement, loopVars, Next

LEMMA LoopNextInvariant == IInv /\ IInv' /\ LoopInv /\ [LoopNext]_loopVars => LoopInv'
<1> SUFFICES ASSUME IInv, IInv', LoopInv, [LoopNext]_loopVars PROVE LoopInv'
  OBVIOUS
<1>1. CASE Test
  BY <1>1, TestInvariant
<1>2. CASE LoopDeref
  BY <1>2, LoopDerefInvariant
<1>3. CASE Body \/ Break
  BY <1>3, BodyInvariant
<1>4. CASE LoopIncrement
  BY <1>4, LoopIncrementInvariant
<1>5. CASE Resume
  BY <1>5, ResumeInvariant
<1>6. CASE Decoding /\ UNCHANGED <<at, given, breaks>>
  BY <1>6, LoopDecodeOkInvariant, LoopDecodeMoreInvariant, LoopDecodeFinishedInvariant,
     LoopDecodeErrorInvariant DEF Decoding
<1>7. CASE UNCHANGED loopVars
  BY <1>7, LoopStutterInvariant
<1> QED
  BY <1>1, <1>2, <1>3, <1>4, <1>5, <1>6, <1>7 DEF LoopNext, Looping

LEMMA LoopInvariance ==
  ASSUME GzipOnly, EveryMessageFits
  PROVE  LoopSpec => [](IInv /\ LoopInv)
<1>1. LoopInit => IInv /\ LoopInv
  BY InitInvariant, LoopInitInvariant DEF LoopInit
<1>2. IInv /\ LoopInv /\ [LoopNext]_loopVars => (IInv /\ LoopInv)'
  BY LoopIsAUser, NextInvariant, LoopNextInvariant
<1> QED BY <1>1, <1>2, PTL DEF LoopSpec

-----------------------------------------------------------------------------
(* The refinement.  What the steps leave as it is.                         *)
LEMMA SoundKept ==
  ASSUME IInv, IInv', LoopInv, LoopInv', LoopNext
  PROVE  env' = env /\ (Sound' <=> Sound)
<1>1. /\ ring.cap > 0 <=> status # "MEMORY_FAILURE"
      /\ ring'.cap > 0 <=> status' # "MEMORY_FAILURE"
  BY CapPositive DEF LoopInv, WorldInv
<1>2. CASE UNCHANGED vars
  BY <1>2, SoundSame DEF vars
<1>3. CASE LoopDeref \/ LoopIncrement \/ Decoding
  <2>1. status # "MEMORY_FAILURE"
    BY <1>3 DEF LoopInv, OverInv, LoopDeref, LoopIncrement, Decoding, DecodeOk, DecodeMore,
                DecodeFinished, DecodeError
  <2>2. env' = env /\ status' # "MEMORY_FAILURE"
    <3>1. CASE LoopDeref
      BY <2>1, <3>1 DEF LoopDeref, Deref, Abort, FillBuffer
    <3>2. CASE LoopIncrement
      BY <2>1, <3>2 DEF LoopIncrement, Increment
    <3>3. CASE DecodeOk
      BY <2>1, <3>3 DEF DecodeOk
    <3>4. CASE DecodeMore
      BY <2>1, <3>4 DEF DecodeMore, Abort, Refill, FillBuffer
    <3>5. CASE DecodeFinished \/ DecodeError
      BY <3>5 DEF DecodeFinished, DecodeError
    <3> QED BY <1>3, <3>1, <3>2, <3>3, <3>4, <3>5 DEF Decoding
  <2> QED BY <1>1, <2>1, <2>2, SoundSame
<1> QED BY <1>2, <1>3 DEF LoopNext, Looping, Test, Body, Break, Resume

(* Whether the iterator is at the message that the body had last.          *)
LEMMA AgainIsSame ==
  ASSUME IInv, LoopInv, at \in {"test", "deref", "body"}, pc = "idle", started,
         NotFinished(status)
  PROVE  (Again => SameMessage) /\ (SameMessage => Again)
<1>1. decoded # <<>> /\ message = DecodedAt(Latest(decoded))
  BY DEF IInv, AtHand, Latest
<1>2. \A p, q : DecodedAt(p) = DecodedAt(q) => p = q
  BY DEF DecodedAt
<1> QED BY <1>1, <1>2 DEF Again, SameMessage, Latest

LEMMA NotAgain ==
  /\ pc # "idle" => ~Again
  /\ at \notin {"test", "deref", "body"} => ~Again
  /\ given = <<>> => ~Again
  /\ message = Cleared => ~Again
BY DEF Again, Cleared, DecodedAt

(* Both count from the same message.                                       *)
LEMMA SameNext ==
  ASSUME SameMessage \/ (given = <<>> /\ decoded = <<>>)
  PROVE  Silent!NextAt = NextAt
BY DEF SameMessage, Latest, Silent!NextAt, NextAt

LEMMA FinishedIsComplete ==
  ASSUME IInv, LoopInv, status = "FINISHED",
         SameMessage \/ (given = <<>> /\ decoded = <<>>)
  PROVE  Silent!Complete
<1>1. NextAt = env.file.len
  BY DEF IInv, FinishedMeansComplete, LoopInv, WorldInv
<1> QED BY <1>1, SameNext DEF Silent!Complete

LEMMA DecoderErrorIsUnavailable ==
  ASSUME IInv, LoopInv, status = "DECODER_ERROR",
         SameMessage \/ (given = <<>> /\ decoded = <<>>)
  PROVE  ~Silent!Complete /\ ~Silent!Available
<1>1. CannotGoOn /\ Silent!NextAt = NextAt
  BY SameNext DEF LoopInv, OverInv
<1>2. NextAt \in Nat /\ env.file.len \in Nat /\ env.file.sizes[NextAt] \in Nat
  <2>1. NextAt \in Nat /\ env.file.len \in Nat /\ env.file.sizes \in [Positions -> Nat \ {0}]
    BY NextAtNat, FileFacts DEF IInv
  <2>2. NextAt \in Positions
    BY <1>1, <2>1 DEF CannotGoOn, Positions
  <2> QED BY <2>1, <2>2
<1> QED BY <1>1, <1>2 DEF CannotGoOn, Silent!Complete, Silent!Available

LEMMA TestImplements ==
  ASSUME IInv, LoopInv, Test
  PROVE  \/ UNCHANGED <<given, Again, Outcome>>
         \/ Silent!End \/ Silent!Fail
<1>1. /\ UNCHANGED vars /\ given' = given /\ at = "test" /\ pc = "idle"
      /\ pc' = "idle" /\ message' = message
      /\ at' = IF NotFinished(status) THEN "deref" ELSE "left"
  BY DEF Test, vars
<1>2. Outcome = "reading"
  BY <1>1 DEF Outcome
<1>3. CASE NotFinished(status)
  <2>1. Outcome' = "reading"
    BY <1>1, <1>3 DEF Outcome
  <2>2. Again' <=> Again
    BY <1>1, <1>3 DEF Again
  <2>3. Again \in BOOLEAN /\ Again' \in BOOLEAN
    BY DEF Again
  <2> QED BY <1>1, <1>2, <2>1, <2>2, <2>3
<1>4. CASE ~NotFinished(status)
  <2>1. at' = "left" /\ Outcome' = "ended"
    BY <1>1, <1>4 DEF Outcome
  <2>2. ~Again'
    BY <2>1 DEF Again
  <2>3. CASE given = <<>>
    <3>1. status = "MEMORY_FAILURE" /\ ring.cap = 0
      BY <1>1, <1>4, <2>3 DEF LoopInv, IdleInv, WorldInv, NotFinished
    <3>2. ~Sound /\ ~Again
      BY <2>3, <3>1, NotAgain DEF Sound
    <3>3. Again' = Again
      BY <2>2, <3>2 DEF Again
    <3>4. Silent!Fail
      BY <1>1, <1>2, <2>1, <3>2, <3>3 DEF Silent!Fail
    <3> QED BY <3>4
  <2>4. CASE given # <<>>
    <3>1. status \in {"FINISHED", "DECODER_ERROR"} /\ SameMessage
      BY <1>1, <1>4, <2>4 DEF LoopInv, IdleInv
    <3>2. ~Again
      BY <3>1, NotAgain DEF LoopInv, OverInv
    <3>3. Again' = Again
      BY <2>2, <3>2 DEF Again
    <3>4. CASE status = "FINISHED"
      <4>1. Silent!Complete
        BY <3>1, <3>4, FinishedIsComplete
      <4>2. Silent!End
        BY <1>1, <1>2, <2>1, <2>4, <3>2, <3>3, <4>1 DEF Silent!End
      <4> QED BY <4>2
    <3>5. CASE status = "DECODER_ERROR"
      <4>1. ~Silent!Complete /\ ~Silent!Available
        BY <3>1, <3>5, DecoderErrorIsUnavailable
      <4>2. Silent!Fail
        BY <1>1, <1>2, <2>1, <2>4, <3>2, <3>3, <4>1 DEF Silent!Fail
      <4> QED BY <4>2
    <3> QED BY <3>1, <3>4, <3>5
  <2> QED BY <2>3, <2>4
<1> QED BY <1>3, <1>4

LEMMA DerefStutters ==
  ASSUME IInv, LoopInv, LoopDeref
  PROVE  UNCHANGED <<given, Again, Outcome>>
<1>1. /\ at = "deref" /\ at' = "body" /\ given' = given /\ pc = "idle" /\ message' = message
  BY DEF LoopDeref, Deref
<1>2. CASE ~FirstCall
  <2>1. pc' = "idle"
    BY <1>1, <1>2 DEF LoopDeref, Deref, Return
  <2>2. Again' = Again
    BY <1>1, <2>1 DEF Again
  <2>3. Outcome' = Outcome
    BY <1>1, <2>1 DEF Outcome
  <2> QED BY <1>1, <2>2, <2>3
<1>3. CASE FirstCall
  <2>1. given = <<>> /\ status = "OK"
    BY <1>1, <1>3 DEF LoopInv, IdleInv, FirstCall, NotFinished
  <2>2. ~FillAborts(ring)
    BY <2>1, NoAbortAtFirst DEF LoopInv
  <2>3. pc' \in {"idle", "decode"}
    BY <1>3, <2>2 DEF LoopDeref, Deref, Enter, Return
  <2>4. Outcome' = Outcome
    BY <1>1, <2>3 DEF Outcome
  <2>5. Again' = Again
    BY <1>1, <2>1 DEF Again
  <2> QED BY <1>1, <2>4, <2>5
<1> QED BY <1>2, <1>3

LEMMA BodyImplements ==
  ASSUME IInv, LoopInv, Body \/ Break
  PROVE  Silent!Give \/ Silent!End \/ Silent!Fail
<1>1. /\ UNCHANGED vars /\ at = "body" /\ pc = "idle" /\ pc' = "idle"
      /\ at' \in {"increment", "thrown", "broken"}
  BY DEF Body, Break, vars
<1>2. Outcome = "reading" /\ ~Again'
  BY <1>1 DEF Outcome, Again
<1>3. started /\ returned = MessageResult(status, message)
  BY <1>1 DEF LoopInv, IdleInv
<1>4. CASE returned.tag = "message"
  <2>1. NotFinished(status) /\ returned = Value(message)
    BY <1>3, <1>4 DEF MessageResult, Error
  <2>2. decoded # <<>> /\ message = DecodedAt(Latest(decoded))
    BY <1>1, <1>3, <2>1 DEF IInv, AtHand, Latest
  <2>3. returned.at = Latest(decoded)
    BY <2>1, <2>2 DEF Value, DecodedAt
  <2>4. given' = Append(given, Latest(decoded)) /\ at' \in {"increment", "broken"}
    BY <1>4, <2>3 DEF Body, Break
  <2>5. Outcome' \in {"reading", "paused"}
    BY <1>1, <2>4 DEF Outcome
  <2>6. Again' = FALSE
    BY <1>2 DEF Again
  <2>7. SameMessage \/ NewMessage
    BY <1>1, <2>1 DEF LoopInv, IdleInv
  <2>8. CASE Again
    <3>1. Latest(given) = Latest(decoded)
      BY <1>1, <1>3, <2>1, <2>8, AgainIsSame DEF SameMessage
    <3>2. Silent!Give
      BY <1>2, <2>4, <2>5, <2>6, <2>8, <3>1 DEF Silent!Give, Latest
    <3> QED BY <3>2
  <2>9. CASE ~Again
    <3>1. Latest(decoded) = Silent!NextAt /\ Silent!Available
      BY <1>1, <1>3, <2>1, <2>7, <2>9, AgainIsSame DEF NewMessage
    <3>2. Silent!Give
      BY <1>2, <2>4, <2>5, <2>6, <2>9, <3>1 DEF Silent!Give
    <3> QED BY <3>2
  <2> QED BY <2>8, <2>9
<1>5. CASE returned.tag # "message"
  <2>1. at' = "thrown" /\ given' = given /\ Outcome' = "failed"
    <3>1. at' = "thrown" /\ given' = given
      BY <1>5 DEF Body, Break
    <3> QED BY <1>1, <3>1 DEF Outcome
  <2>2. ~NotFinished(status)
    BY <1>3, <1>5 DEF MessageResult, Value
  <2>3. given = <<>> /\ decoded = <<>> /\ ~Again
    BY <1>1, <2>2, NotAgain DEF LoopInv, IdleInv
  <2>4. Again' = Again
    BY <1>2, <2>3 DEF Again
  <2>5. status \in {"FINISHED", "DECODER_ERROR", "STREAM_ERROR"}
    BY <1>1, <2>2 DEF NotFinished, LoopInv, OverInv, IInv, TypeOK, ReaderStatus
  <2>6. CASE status = "FINISHED"
    <3>1. Silent!Complete
      BY <2>3, <2>6, FinishedIsComplete
    <3>2. Silent!End
      BY <1>2, <2>1, <2>3, <2>4, <3>1 DEF Silent!End
    <3> QED BY <3>2
  <2>7. CASE status = "DECODER_ERROR"
    <3>1. ~Silent!Complete /\ ~Silent!Available
      BY <2>3, <2>7, DecoderErrorIsUnavailable
    <3>2. Silent!Fail
      BY <1>2, <2>1, <2>3, <2>4, <3>1 DEF Silent!Fail
    <3> QED BY <3>2
  <2>8. CASE status = "STREAM_ERROR"
    <3>1. ~Sound
      BY <2>8 DEF LoopInv, WorldInv
    <3>2. Silent!Fail
      BY <1>2, <2>1, <2>3, <2>4, <3>1 DEF Silent!Fail
    <3> QED BY <3>2
  <2> QED BY <2>5, <2>6, <2>7, <2>8
<1> QED BY <1>4, <1>5

LEMMA ResumeImplements ==
  ASSUME IInv, LoopInv, Resume
  PROVE  Silent!Resume
<1>1. /\ UNCHANGED vars /\ given' = given /\ at = "broken" /\ at' = "test"
      /\ pc = "idle" /\ pc' = "idle" /\ message' = message
  BY DEF Resume, LoopInv, LoopTypeOK, IInv, TypeOK, vars
<1>2. Outcome = "paused" /\ Outcome' = "reading"
  BY <1>1 DEF Outcome
<1>3. started /\ NotFinished(status) /\ SameMessage
  BY <1>1 DEF LoopInv, IdleInv
<1>4. given # <<>> /\ message = DecodedAt(given[Len(given)])
  BY <1>1, <1>3 DEF IInv, AtHand, SameMessage, Latest
<1>5. Again' = TRUE
  BY <1>1, <1>4 DEF Again
<1> QED BY <1>1, <1>2, <1>5 DEF Silent!Resume

LEMMA IncrementStutters ==
  ASSUME IInv, LoopInv, LoopIncrement
  PROVE  UNCHANGED <<given, Again, Outcome>>
<1>1. /\ at = "increment" /\ at' = "test" /\ given' = given /\ pc = "idle"
  BY DEF LoopIncrement, Increment
<1>2. NotFinished(status)
  BY <1>1 DEF LoopInv, IdleInv
<1>3. pc' = "decode"
  BY <1>2 DEF LoopIncrement, Increment, Enter
<1>4. Outcome' = Outcome
  BY <1>1, <1>3 DEF Outcome
<1>5. Again' = Again
  BY <1>1, <1>3 DEF Again
<1> QED BY <1>1, <1>4, <1>5

(* The message just decoded is not the one that the body had last.         *)
LEMMA DecodeOkStutters ==
  ASSUME IInv, LoopInv, DecodeOk, UNCHANGED <<at, given>>
  PROVE  UNCHANGED <<given, Again, Outcome>>
<1>1. Input = unread /\ pc = "decode" /\ pc' = "idle"
  BY InputIsUnread DEF IInv, DecodeOk, Return
<1>2. IsWhole(unread)
  BY <1>1 DEF DecodeOk
<1>3. ~lost /\ unread # <<>>
  BY <1>1, <1>2 DEF LoopInv, CallInv, WorldInv, IsWhole, IsPartial
<1>4. message' = DecodedAt(NextAt)
  BY <1>1, <1>3, UnreadStartsAtNext DEF DecodeOk
<1>5. \A p, q : DecodedAt(p) = DecodedAt(q) => p = q
  BY DEF DecodedAt
<1>6. given # <<>> => given[Len(given)] # NextAt
  <2> SUFFICES ASSUME given # <<>> PROVE given[Len(given)] # NextAt
    OBVIOUS
  <2>1. SameMessage
    BY <1>1 DEF LoopInv, CallInv
  <2>2. NextAt = given[Len(given)] + env.file.sizes[given[Len(given)]]
    BY <2>1 DEF SameMessage, Latest, NextAt
  <2>3. given[Len(given)] \in Nat /\ env.file.sizes[given[Len(given)]] \in Nat \ {0}
    <3>1. given \in Seq(Positions) /\ env.file.sizes \in [Positions -> Nat \ {0}]
      BY FileFacts DEF LoopInv, LoopTypeOK, IInv
    <3>2. given[Len(given)] \in Positions
      <4> HIDE DEF Positions
      <4> QED BY <3>1
    <3>3. Positions \subseteq Nat
      BY FileFacts DEF Positions, IInv
    <3> QED BY <3>1, <3>2, <3>3
  <2> QED BY <2>2, <2>3
<1>7. ~Again /\ ~Again'
  BY <1>1, <1>4, <1>5, <1>6 DEF Again
<1>8. Again' = Again
  BY <1>7 DEF Again
<1>9. at \in {"body", "test"}
  BY <1>1 DEF LoopInv, LoopTypeOK
<1>10. Outcome' = Outcome
  BY <1>1, <1>9 DEF Outcome
<1> QED BY <1>8, <1>10

LEMMA DecodeEndStutters ==
  ASSUME IInv, LoopInv, DecodeFinished \/ DecodeError, UNCHANGED <<at, given>>
  PROVE  UNCHANGED <<given, Again, Outcome>>
<1>1. pc = "decode" /\ pc' = "idle" /\ message' = Cleared
  BY DEF DecodeFinished, DecodeError, Return
<1>2. ~Again /\ ~Again'
  BY <1>1 DEF Again, Cleared, DecodedAt
<1>3. Again' = Again
  BY <1>2 DEF Again
<1>4. at \in {"body", "test"}
  BY <1>1 DEF LoopInv, LoopTypeOK
<1>5. Outcome' = Outcome
  BY <1>1, <1>4 DEF Outcome
<1> QED BY <1>3, <1>5

(* Only a stream that fails ends the program.                              *)
LEMMA DecodeMoreImplements ==
  ASSUME IInv, LoopInv, DecodeMore, UNCHANGED <<at, given>>
  PROVE  UNCHANGED <<given, Again, Outcome>> \/ Silent!Fail
<1>1. /\ Input = unread /\ pc = "decode" /\ IsPartial(unread)
      /\ status # "STREAM_FINISHED"
  BY InputIsUnread DEF IInv, DecodeMore
<1>2. at \in {"body", "test"} /\ status \in {"OK", "STREAM_ERROR"}
  BY <1>1 DEF LoopInv, LoopTypeOK, CallInv
<1>3. Outcome = "reading" /\ ~Again
  BY <1>1, <1>2 DEF Outcome, Again
<1>4. CASE pc' = "decode"
  <2>1. Outcome' = "reading"
    BY <1>2, <1>4 DEF Outcome
  <2>2. Again' = Again
    BY <1>3, <1>4 DEF Again
  <2> QED BY <1>3, <2>1, <2>2
<1>5. CASE pc' # "decode"
  <2>1. FillAborts(ToFill) /\ pc' = "aborted"
    BY <1>1, <1>5 DEF DecodeMore, Abort
  <2>2. status = "STREAM_ERROR"
    <3>1. status = "OK" => ToFill = ring
      BY <1>1, FullHoldsAMessage DEF ToFill
    <3> QED BY <1>2, <2>1, <3>1, NoAbortAtFirst DEF LoopInv
  <2>3. ~Sound
    BY <2>2 DEF LoopInv, WorldInv
  <2>4. Outcome' = "aborted"
    BY <1>2, <2>1 DEF Outcome
  <2>5. Again' = Again
    BY <1>3, <2>1 DEF Again
  <2>6. Silent!Fail
    BY <1>3, <2>3, <2>4, <2>5 DEF Silent!Fail
  <2> QED BY <2>6
<1> QED BY <1>4, <1>5

LEMMA LoopStepImplements ==
  ASSUME IInv, IInv', LoopInv, LoopInv', [LoopNext]_loopVars
  PROVE  [Silent!Next]_(Silent!vars)
<1>1. CASE UNCHANGED loopVars
  <2>1. UNCHANGED <<at, given, env, pc, message, ring>>
    BY <1>1 DEF loopVars, vars
  <2>2. Again' = Again /\ Sound' = Sound /\ Outcome' = Outcome
    BY <2>1 DEF Again, Sound, Outcome
  <2> QED BY <2>1, <2>2 DEF Silent!vars
<1>2. CASE LoopNext
  <2>1. env' = env /\ (Sound' <=> Sound)
    BY <1>2, SoundKept
  <2>2. UNCHANGED <<env.file, Sound>>
    BY <2>1 DEF Sound
  <2>3. \/ UNCHANGED <<given, Again, Outcome>>
        \/ Silent!Give \/ Silent!Resume \/ Silent!End \/ Silent!Fail
    <3>1. CASE Test
      BY <3>1, TestImplements
    <3>2. CASE LoopDeref
      BY <3>2, DerefStutters
    <3>3. CASE Body \/ Break
      BY <3>3, BodyImplements
    <3>4. CASE LoopIncrement
      BY <3>4, IncrementStutters
    <3>5. CASE Resume
      BY <3>5, ResumeImplements
    <3>6. CASE Decoding /\ UNCHANGED <<at, given, breaks>>
      BY <3>6, DecodeOkStutters, DecodeMoreImplements, DecodeEndStutters DEF Decoding
    <3> QED BY <1>2, <3>1, <3>2, <3>3, <3>4, <3>5, <3>6 DEF LoopNext, Looping
  <2> QED BY <2>2, <2>3 DEF Silent!Next, Silent!vars
<1> QED BY <1>1, <1>2

(* While every message fits in the buffer, the body of a loop over a gzip  *)
(* reader is run for the messages of the file in their order, none missing *)
(* and after a break the last one again; the loop ends early only where    *)
(* the next message cannot be had.                                         *)
THEOREM LoopIsGivenMessages ==
  ASSUME GzipOnly, EveryMessageFits
  PROVE  LoopSpec => LoopGetsMessages
<1>1. LoopInit => Silent!Init
  <2> SUFFICES ASSUME LoopInit PROVE Silent!Init
    OBVIOUS
  <2>1. /\ env.file \in Files /\ at = "test" /\ pc = "idle" /\ given = <<>>
    BY DEF LoopInit, Init
  <2>2. Sound \in BOOLEAN /\ Again = FALSE /\ Outcome = "reading"
    BY <2>1 DEF Sound, Again, Outcome
  <2> QED BY <2>1, <2>2 DEF Silent!Init
<1>2. IInv /\ IInv' /\ LoopInv /\ LoopInv' /\ [LoopNext]_loopVars =>
        [Silent!Next]_(Silent!vars)
  BY LoopStepImplements
<1> QED
  BY <1>1, <1>2, LoopInvariance, PTL DEF LoopSpec, LoopGetsMessages, Silent!Spec
=============================================================================
