---------------------------- MODULE Reader_proofs ----------------------------
(***************************************************************************)
(* Proofs about Reader, for all files, buffer sizes and widths: what a     *)
(* user gets, whatever is called in whichever order, are the messages of   *)
(* the stream in theirs, and an error is final.                            *)
(***************************************************************************)
EXTENDS Reader, RingPointers_proofs

(* What a stream may be, before a file of n bytes has been read to pos.    *)
Bzip2Status == {BZ_OK, BZ_STREAM_END, BZ_MEM_ERROR, BZ_DATA_ERROR}
StreamType ==
  [kind : {"gzip", "bzip2"}, open : BOOLEAN, status : Int, pos : Nat, past : BOOLEAN,
   failed : BOOLEAN]
StreamInv(s, n) ==
  /\ s \in StreamType
  /\ s.kind = "bzip2" => s.status \in Bzip2Status
  /\ s.pos <= n
  /\ s.past => s.pos = n

-----------------------------------------------------------------------------
LEMMA RestIsSmall ==
  ASSUME NEW a \in Nat, NEW b \in Nat \ {0}
  PROVE  a % b \in Nat /\ a % b <= a
<1>1. PICK q, r \in Nat : q = a \div b /\ r = a % b /\ a = b * q + r /\ r < b
  BY DivMod
<1>2. b * q \in Nat
  BY SMT
<1> QED
  BY <1>1, <1>2

(* A read moves on by as many bytes as it delivers, never past the end.    *)
LEMMA LibraryReadWorks ==
  ASSUME NEW file, file.len \in Nat, NEW s, StreamInv(s, file.len), NEW length \in Nat,
         NEW r, r = LibraryRead(s, length, file)
  PROVE  /\ r.s \in StreamType /\ r.s.kind = s.kind /\ r.s.status = s.status
         /\ r.ret = -1 \/ (r.ret \in Nat /\ r.ret <= length)
         /\ r.ret >= 0 => r.s.pos = s.pos + r.ret
         /\ r.ret = -1 => r.s.pos = s.pos
         /\ r.s.pos <= file.len
         /\ r.s.past => r.s.pos = file.len
         /\ s.past => r.s.past
<1> DEFINE asked == length % UIntModulus
           left == file.len - s.pos
           Deliver(n) == [ret |-> n, s |-> [s EXCEPT !.pos = @ + n, !.past = @ \/ n < asked]]
<1>1. asked \in Nat /\ asked <= length
  BY RestIsSmall, UIntAssumption
<1>2. /\ s \in StreamType /\ s.pos \in Nat /\ s.pos <= file.len
      /\ s.past => s.pos = file.len
  BY DEF StreamInv, StreamType
<1> HIDE DEF asked
<1>3. CASE r = [ret |-> 0, s |-> s]
  BY <1>2, <1>3
<1>4. CASE r = [ret |-> -1, s |-> [s EXCEPT !.failed = s.open]]
  BY <1>2, <1>4 DEF StreamType
<1>5. CASE r = Deliver(IF asked <= left THEN asked ELSE left)
  <2>1. PICK n \in Nat : /\ n = IF asked <= left THEN asked ELSE left
                         /\ n <= asked /\ n <= left /\ (n < asked => n = left)
    BY <1>1, <1>2
  <2>2. r = Deliver(n)
    BY <1>5, <2>1, Zenon
  <2>3. PICK b \in BOOLEAN : b = (s.past \/ n < asked)
    OBVIOUS
  <2>4. r = [ret |-> n, s |-> [s EXCEPT !.pos = @ + n, !.past = b]]
    BY <2>2, <2>3, Zenon
  <2> HIDE DEF Deliver, left
  <2>5. /\ r.ret = n /\ r.s.pos = s.pos + n /\ r.s.kind = s.kind
        /\ r.s.status = s.status /\ r.s.past = b
        /\ r.s \in StreamType
    <3>1. s \in StreamType /\ s.pos + n \in Nat
      BY <1>2, <2>1
    <3>2. PICK d : d = [s EXCEPT !.pos = @ + n, !.past = b]
      OBVIOUS
    <3>3. d.kind = s.kind /\ d.status = s.status
      BY <3>1, <3>2 DEF StreamType
    <3>4. d.pos = s.pos + n
      BY <3>1, <3>2 DEF StreamType
    <3>5. d.past = b
      BY <3>1, <3>2 DEF StreamType
    <3>6. d \in StreamType
      BY <3>1, <3>2 DEF StreamType
    <3>7. r.ret = n /\ r.s = d
      BY <2>4, <3>2
    <3> QED
      BY <3>3, <3>4, <3>5, <3>6, <3>7, Zenon
  <2>6. b => s.pos + n = file.len
    <3>1. s.pos + left = file.len /\ s.pos + 0 = s.pos
      BY <1>2 DEF left
    <3>2. n < asked => s.pos + n = file.len
      BY <2>1, <3>1, Zenon
    <3>3. s.past => s.pos = file.len /\ n = 0
      BY <1>2, <2>1 DEF left
    <3> QED
      BY <2>3, <3>1, <3>2, <3>3, Zenon
  <2>7. s.past => b
    BY <2>3, Zenon
  <2>8. /\ r.s.past => r.s.pos = file.len
        /\ s.past => r.s.past
    BY <2>5, <2>6, <2>7, Zenon
  <2> QED
    BY <1>1, <1>2, <2>1, <2>5, <2>8 DEF left
<1> QED
  BY <1>3, <1>4, <1>5 DEF LibraryRead, asked

LEMMA ReadWorks ==
  ASSUME NEW file, file.len \in Nat, NEW s, StreamInv(s, file.len), NEW length \in Nat,
         NEW r, r = Read(s, length, file)
  PROVE  /\ StreamInv(r.s, file.len) /\ r.s.kind = s.kind
         /\ r.bytes \in Nat /\ r.bytes <= length
         /\ r.s.pos = s.pos + r.bytes
         /\ s.past => r.s.past
<1>1. PICK l : l = LibraryRead(s, length, file)
  OBVIOUS
<1>2. /\ l.s \in StreamType /\ l.s.kind = s.kind /\ l.s.status = s.status
      /\ l.ret = -1 \/ (l.ret \in Nat /\ l.ret <= length)
      /\ l.ret >= 0 => l.s.pos = s.pos + l.ret
      /\ l.ret = -1 => l.s.pos = s.pos
      /\ l.s.pos <= file.len
      /\ l.s.past => l.s.pos = file.len
      /\ s.past => l.s.past
  BY <1>1, LibraryReadWorks
<1>3. ASSUME NEW d, NEW n \in Nat, NEW st \in Int, r = [bytes |-> n, s |-> d],
             d = [l.s EXCEPT !.status = st] \/ (d = l.s /\ st = s.status),
             n <= length, l.s.pos = s.pos + n, s.kind = "bzip2" => st \in Bzip2Status
      PROVE  /\ StreamInv(r.s, file.len) /\ r.s.kind = s.kind
             /\ r.bytes \in Nat /\ r.bytes <= length
             /\ r.s.pos = s.pos + r.bytes
             /\ s.past => r.s.past
  <2>1. d.kind = s.kind /\ d.pos = s.pos + n /\ d.past = l.s.past /\ d.status = st
    BY <1>2, <1>3 DEF StreamType
  <2>2. d \in StreamType
    BY <1>2, <1>3 DEF StreamType
  <2>3. StreamInv(d, file.len)
    BY <1>2, <1>3, <2>1, <2>2 DEF StreamInv
  <2>4. r.s = d /\ r.bytes = n
    BY <1>3
  <2> QED
    BY <1>2, <1>3, <2>1, <2>3, <2>4, Zenon
<1>4. CASE s.kind = "gzip"
  <2>1. CASE l.ret >= 0
    <3>1. r = [bytes |-> l.ret, s |-> l.s]
      BY <1>1, <1>4, <2>1 DEF Read, GzipRead
    <3> QED
      BY <1>2, <1>3, <1>4, <2>1, <3>1 DEF StreamInv, StreamType
  <2>2. CASE ~(l.ret >= 0)
    <3>1. r = [bytes |-> 0, s |-> [l.s EXCEPT !.status = Z_ERRNO]]
      BY <1>1, <1>4, <2>2 DEF Read, GzipRead
    <3>2. l.s.pos = s.pos + 0 /\ Z_ERRNO \in Int
      BY <1>2, <2>2 DEF StreamInv, StreamType, Z_ERRNO
    <3> QED
      BY <1>2, <1>3, <1>4, <3>1, <3>2
  <2> QED
    BY <2>1, <2>2
<1>5. CASE s.kind = "bzip2"
  <2>1. CASE l.ret >= 0 /\ l.ret < length
    <3>1. r = [bytes |-> l.ret, s |-> [l.s EXCEPT !.status = BZ_STREAM_END]]
      BY <1>1, <1>5, <2>1 DEF Read, Bzip2Read
    <3>2. BZ_STREAM_END \in Int /\ BZ_STREAM_END \in Bzip2Status
      BY DEF BZ_STREAM_END, Bzip2Status
    <3> QED
      BY <1>2, <1>3, <2>1, <3>1, <3>2
  <2>2. CASE l.ret >= 0 /\ ~(l.ret < length)
    <3>1. r = [bytes |-> l.ret, s |-> l.s]
      BY <1>1, <1>5, <2>2 DEF Read, Bzip2Read
    <3> QED
      BY <1>2, <1>3, <1>5, <2>2, <3>1 DEF StreamInv, StreamType
  <2>3. CASE ~(l.ret >= 0)
    <3>1. r = [bytes |-> 0, s |-> [l.s EXCEPT !.status = BZ_DATA_ERROR]]
      BY <1>1, <1>5, <2>3 DEF Read, Bzip2Read
    <3>2. l.s.pos = s.pos + 0 /\ BZ_DATA_ERROR \in Int /\ BZ_DATA_ERROR \in Bzip2Status
      BY <1>2, <2>3 DEF StreamInv, StreamType, BZ_DATA_ERROR, Bzip2Status
    <3> QED
      BY <1>2, <1>3, <3>1, <3>2
  <2> QED
    BY <2>1, <2>2, <2>3
<1> QED
  BY <1>4, <1>5 DEF StreamInv, StreamType

LEMMA IntMaxIsInt == IntMax \in Int /\ IntMax < UIntModulus /\ UIntModulus \in Nat \ {0}
BY UIntAssumption DEF IntMax

LEMMA RestOfSmall ==
  ASSUME NEW n \in Nat, NEW m \in Nat \ {0}, n < m
  PROVE  n % m = n
BY SMT

LEMMA NotCut ==
  ASSUME NEW length \in Nat, length < UIntModulus
  PROVE  length % UIntModulus = length
BY IntMaxIsInt, RestOfSmall

(* A gzip stream keeps an error, and delivers all that was asked for or    *)
(* meets the end.                                                          *)
LEMMA GzipReads ==
  ASSUME NEW file, file.len \in Nat, NEW s, StreamInv(s, file.len), s.kind = "gzip",
         NEW length \in Nat, NEW r, r = Read(s, length, file)
  PROVE  /\ Bad(s) => Bad(r.s)
         /\ ~Bad(s) /\ Bad(r.s) => r.bytes = 0 /\ (~r.s.open \/ r.s.failed)
         /\ (~s.open \/ s.failed) => /\ Bad(r.s) /\ (~r.s.open \/ r.s.failed)
                                     /\ r.s.past = s.past
         /\ ~Bad(r.s) /\ ~r.s.past /\ length < UIntModulus => r.bytes = length
         /\ s.open /\ ~s.failed /\ ~Bad(s) /\ length <= IntMax /\ file.faultAt = NoFault =>
              ~Bad(r.s) /\ r.s.open /\ ~r.s.failed
<1> DEFINE asked == length % UIntModulus
           left == file.len - s.pos
           n == IF asked <= left THEN asked ELSE left
           Delivered == [ret |-> n, s |-> [s EXCEPT !.pos = @ + n, !.past = @ \/ n < asked]]
           Failed == [ret |-> -1, s |-> [s EXCEPT !.failed = s.open]]
<1>1. /\ s \in StreamType /\ s.pos \in Nat /\ s.pos <= file.len
      /\ asked \in Nat /\ left \in Nat /\ n \in Nat
  BY RestIsSmall, UIntAssumption DEF StreamInv, StreamType
<1>2. /\ length < UIntModulus => asked = length
      /\ length <= IntMax => length < UIntModulus /\ asked = length /\ ~(asked > IntMax)
  <2>1. length <= IntMax => length < UIntModulus
    BY IntMaxIsInt
  <2> QED BY <2>1, NotCut, IntMaxIsInt
<1>3. PICK l : l = LibraryRead(s, length, file)
  OBVIOUS
<1>4. r = IF l.ret >= 0 THEN [bytes |-> l.ret, s |-> l.s]
                        ELSE [bytes |-> 0, s |-> [l.s EXCEPT !.status = Z_ERRNO]]
  BY <1>3 DEF Read, GzipRead
<1>5. l = Failed \/ (l = Delivered /\ s.open /\ ~s.failed)
  BY <1>3 DEF LibraryRead
<1>6. s.open /\ ~s.failed /\ length <= IntMax /\ file.faultAt = NoFault => l = Delivered
  BY <1>2, <1>3 DEF LibraryRead
<1>7. CASE l = Failed
  <2>1. r = [bytes |-> 0, s |-> [[s EXCEPT !.failed = s.open] EXCEPT !.status = Z_ERRNO]]
    BY <1>4, <1>7
  <2>2. /\ r.bytes = 0 /\ r.s.kind = "gzip" /\ r.s.status = Z_ERRNO
        /\ r.s.failed = s.open /\ r.s.open = s.open /\ r.s.past = s.past
    <3>1. s.open \in BOOLEAN /\ Z_ERRNO \in Int
      BY <1>1 DEF StreamType, Z_ERRNO
    <3>2. PICK d : d = [[s EXCEPT !.failed = s.open] EXCEPT !.status = Z_ERRNO]
      OBVIOUS
    <3>3. /\ d.kind = s.kind /\ d.status = Z_ERRNO /\ d.past = s.past
          /\ d.failed = s.open /\ d.open = s.open
      <4>1. d.kind = s.kind /\ d.status = Z_ERRNO
        BY <1>1, <3>1, <3>2 DEF StreamType
      <4>2. d.past = s.past
        BY <1>1, <3>1, <3>2 DEF StreamType
      <4>3. d.failed = s.open
        BY <1>1, <3>1, <3>2 DEF StreamType
      <4>4. d.open = s.open
        BY <1>1, <3>1, <3>2 DEF StreamType
      <4> QED BY <4>1, <4>2, <4>3, <4>4
    <3>4. r.bytes = 0 /\ r.s = d
      BY <2>1, <3>2
    <3> QED BY <3>3, <3>4, Zenon
  <2>3. Bad(r.s)
    BY <2>2 DEF Bad, Z_ERRNO, Z_OK
  <2>4. s.open \in BOOLEAN
    BY <1>1 DEF StreamType
  <2>5. l # Delivered
    BY <1>1, <1>7
  <2> QED BY <1>6, <2>2, <2>3, <2>4, <2>5
<1>8. CASE l = Delivered /\ s.open /\ ~s.failed
  <2> HIDE DEF asked, left, n
  <2>1. r = [bytes |-> n, s |-> [s EXCEPT !.pos = @ + n, !.past = @ \/ n < asked]]
    BY <1>1, <1>4, <1>8
  <2>2. /\ r.bytes = n /\ r.s.kind = "gzip" /\ r.s.status = s.status
        /\ r.s.failed = s.failed /\ r.s.open = s.open
        /\ r.s.past <=> s.past \/ n < asked
    <3>1. PICK p, b : p = s.pos + n /\ b = (s.past \/ n < asked)
      OBVIOUS
    <3>2. p \in Nat /\ b \in BOOLEAN
      BY <1>1, <3>1
    <3>3. PICK d : d = [s EXCEPT !.pos = p, !.past = b]
      OBVIOUS
    <3>4. /\ d.kind = s.kind /\ d.status = s.status /\ d.past = b
          /\ d.failed = s.failed /\ d.open = s.open
      <4>1. d.kind = s.kind /\ d.status = s.status
        BY <1>1, <3>2, <3>3 DEF StreamType
      <4>2. d.past = b
        BY <1>1, <3>2, <3>3 DEF StreamType
      <4>3. d.failed = s.failed
        BY <1>1, <3>2, <3>3 DEF StreamType
      <4>4. d.open = s.open
        BY <1>1, <3>2, <3>3 DEF StreamType
      <4> QED BY <4>1, <4>2, <4>3, <4>4
    <3>5. r = [bytes |-> n, s |-> d]
      BY <2>1, <3>1, <3>3, Zenon
    <3>6. r.bytes = n /\ r.s = d
      BY <3>5
    <3> QED BY <3>1, <3>4, <3>6, Zenon
  <2>4. Bad(r.s) <=> Bad(s)
    BY <2>2 DEF Bad
  <2>5. ~(n < asked) => n = asked
    BY <1>1 DEF n
  <2> QED BY <1>2, <1>8, <2>2, <2>4, <2>5
<1> QED BY <1>5, <1>7, <1>8

(* Bytes that follow in the stream are put after those that are unread.    *)
LEMMA Appended ==
  ASSUME NEW S, NEW u \in Seq(S), NEW w \in Seq(S), NEW p \in Nat,
         \A i \in 1 .. Len(w) : w[i] = p + i - 1
  PROVE  /\ u \o w \in Seq(S)
         /\ Len(u \o w) = Len(u) + Len(w)
         /\ \A i \in 1 .. Len(u) : (u \o w)[i] = u[i]
         /\ \A i \in Len(u) + 1 .. Len(u) + Len(w) : (u \o w)[i] = p + (i - Len(u)) - 1
<1>1. PICK v : v = u \o w
  OBVIOUS
<1>2. /\ v \in Seq(S)
      /\ Len(v) = Len(u) + Len(w)
      /\ \A i \in 1 .. Len(u) : v[i] = u[i]
      /\ \A i \in Len(u) + 1 .. Len(u) + Len(w) : v[i] = p + (i - Len(u)) - 1
  BY <1>1
<1> QED
  BY <1>1, <1>2, Zenon

(* The bytes after the first n of them.                                    *)
LEMMA Dropped ==
  ASSUME NEW S, NEW u \in Seq(S), NEW n \in Nat, n <= Len(u)
  PROVE  /\ SubSeq(u, n + 1, Len(u)) \in Seq(S)
         /\ Len(SubSeq(u, n + 1, Len(u))) = Len(u) - n
         /\ \A i \in 1 .. Len(u) - n : SubSeq(u, n + 1, Len(u))[i] = u[n + i]
  OBVIOUS

LEMMA Added ==
  ASSUME NEW S, NEW s \in Seq(S), NEW e \in S
  PROVE  /\ Append(s, e) \in Seq(S)
         /\ Len(Append(s, e)) = Len(s) + 1
         /\ Append(s, e)[Len(s) + 1] = e
         /\ \A i \in 1 .. Len(s) : Append(s, e)[i] = s[i]
  OBVIOUS

-----------------------------------------------------------------------------
RingInv(b) ==
  /\ b \in Ring
  /\ b.cap = 0 => b = NullRing
  /\ b.cap # 0 => InBounds(b)

(* A message is at hand between calls, unless status_ says what it is that *)
(* there is instead.                                                       *)
AtHand ==
  pc = "idle" /\ started /\ NotFinished(status) =>
    decoded # <<>> /\ message = DecodedAt(decoded[Len(decoded)])

(* message() starts to decode only once started_ is set.                   *)
Calling == pc = "decode" /\ op = "message" => started

(* Only a gzip stream ever says that it has ended, after a read past it.   *)
EndIsKnown ==
  status \in {"STREAM_FINISHED", "FINISHED"} => stream.kind = "gzip" /\ stream.past

(* An error is returned once, as what status_ holds from then on.          *)
Reported ==
  returned.tag = "error" =>
    pc # "decode" /\ ~NotFinished(status) /\ started /\ returned = Error(status)

IInv ==
  /\ TypeOK
  /\ StreamInv(stream, env.file.len)
  /\ RingInv(ring)
  /\ SpanIsCurrent
  /\ DecodedInOrder
  /\ FinishedMeansComplete
  /\ EndIsKnown
  /\ Calling /\ AtHand /\ ShowsLastDecoded /\ Reported

Positions == 0 .. env.file.len - 1

LEMMA FileFacts ==
  ASSUME TypeOK
  PROVE  /\ env.file \in Files /\ env.file.len \in Nat
         /\ env.file.sizes \in [Positions -> Nat \ {0}]
  BY ReaderAssumption DEF TypeOK, Positions

LEMMA NextAtNat ==
  ASSUME TypeOK
  PROVE  NextAt \in Nat
<1>1. decoded \in Seq(Positions) /\ env.file.sizes \in [Positions -> Nat \ {0}]
  BY FileFacts DEF TypeOK, Positions
<1>2. CASE decoded # <<>>
  <2>1. decoded[Len(decoded)] \in Positions
    BY <1>1, <1>2
  <2>2. decoded[Len(decoded)] \in Nat
    BY <2>1, FileFacts DEF Positions
  <2>3. env.file.sizes[decoded[Len(decoded)]] \in Nat
    BY <1>1, <2>1
  <2>4. NextAt = decoded[Len(decoded)] + env.file.sizes[decoded[Len(decoded)]]
    BY <1>2 DEF NextAt
  <2> QED
    BY <2>2, <2>3, <2>4
<1> QED
  BY <1>2 DEF NextAt

(* The bytes given to the decoder are all that are unread.                 *)
LEMMA InputIsUnread ==
  ASSUME TypeOK, SpanIsCurrent, pc = "decode"
  PROVE  Input = unread
<1>1. out.size = Len(unread)
  BY DEF TypeOK, SpanIsCurrent, PrepareRead
<1>2. unread \in Seq(Positions)
  BY DEF TypeOK, Positions
<1> QED
  BY <1>1, <1>2 DEF Input

LEMMA EmptyRingInv ==
  ASSUME NEW cap \in Nat
  PROVE  /\ RingInv(EmptyRing(cap)) /\ AvailableRead(EmptyRing(cap)) = 0
         /\ EmptyRing(cap).cap = cap
  BY DEF RingInv, EmptyRing, NullRing, Ring, InBounds, AvailableRead

LEMMA GrantedSize ==
  ASSUME NEW capacity \in Nat, Granted(capacity)
  PROVE  PageCeil(capacity) \in Nat
  BY CreatableSize DEF Granted

(* reserve() gives a larger buffer, which is empty, or leaves it alone.    *)
LEMMA GrownRing ==
  ASSUME NEW b, RingInv(b)
  PROVE  /\ RingInv(Grown(b))
         /\ Grown(b).cap = b.cap => Grown(b) = b
         /\ Grown(b).cap # b.cap => AvailableRead(Grown(b)) = 0
<1>1. b \in Ring /\ b.cap \in Nat
  BY DEF RingInv, Ring
<1>2. PICK new \in Nat : new = (2 * b.cap) % SizeModulus /\ new \in 0 .. SizeModulus - 1
  BY <1>1, PageAssumption
<1>3. CASE Grown(b) = b
  BY <1>3
<1>4. CASE b.cap < new /\ Granted(new) /\ Grown(b) = EmptyRing(PageCeil(new))
  <2>1. PageCeil(new) \in Nat
    BY <1>4, GrantedSize
  <2>2. ~Refused(PageCeil(new))
    BY <1>4 DEF Granted, Creatable
  <2>3. PageCeil(new) >= new
    BY <1>2, <2>2, CeilRounds, PageAssumption
  <2>4. /\ RingInv(Grown(b)) /\ AvailableRead(Grown(b)) = 0
        /\ Grown(b).cap = PageCeil(new)
    BY <1>4, <2>1, EmptyRingInv
  <2> QED
    BY <1>1, <1>2, <1>4, <2>1, <2>3, <2>4
<1> QED
  BY <1>2, <1>3, <1>4 DEF Grown

LEMMA RingWrites ==
  ASSUME NEW b, RingInv(b), NEW n \in Nat, n <= AvailableWrite(b)
  PROVE  /\ RingInv(CommitWrite(b, n)) /\ CommitWrite(b, n).cap = b.cap
         /\ AvailableRead(CommitWrite(b, n)) = AvailableRead(b) + n
<1>1. b \in Ring /\ b.cap \in Nat
  BY DEF RingInv, Ring
<1>2. CASE b.cap = 0
  <2>1. b = NullRing /\ n = 0
    BY <1>2 DEF RingInv, NullRing, EmptyRing, AvailableWrite, AvailableRead
  <2>2. CommitWrite(b, n) = b
    BY <2>1 DEF CommitWrite, NullRing, EmptyRing
  <2> QED
    BY <1>1, <2>1, <2>2 DEF RingInv, Ring, AvailableRead
<1>3. CASE b.cap # 0
  <2>1. InBounds(b)
    BY <1>3 DEF RingInv
  <2>2. /\ CommitWrite(b, n) \in Ring /\ InBounds(CommitWrite(b, n))
        /\ CommitWrite(b, n).cap = b.cap
    BY <1>1, <2>1, CommitWriteInBounds DEF AvailableWrite, AvailableRead, InBounds, Ring
  <2>3. AvailableRead(CommitWrite(b, n)) = AvailableRead(b) + n
    BY <1>1 DEF CommitWrite, AvailableRead, Ring
  <2> QED
    BY <1>3, <2>2, <2>3 DEF RingInv
<1> QED
  BY <1>2, <1>3

LEMMA RingReads ==
  ASSUME NEW b, RingInv(b), NEW n \in Nat, n <= AvailableRead(b)
  PROVE  /\ RingInv(CommitRead(b, n)) /\ CommitRead(b, n).cap = b.cap
         /\ AvailableRead(CommitRead(b, n)) = AvailableRead(b) - n
<1>1. b \in Ring /\ b.cap \in Nat
  BY DEF RingInv, Ring
<1>2. CASE b.cap = 0
  <2>1. b = NullRing /\ n = 0
    BY <1>2 DEF RingInv, NullRing, EmptyRing, AvailableRead
  <2>2. CommitRead(b, n) = b
    BY <2>1 DEF CommitRead, NullRing, EmptyRing
  <2> QED
    BY <1>1, <2>1, <2>2 DEF RingInv, Ring, AvailableRead
<1>3. CASE b.cap # 0
  <2>1. InBounds(b)
    BY <1>3 DEF RingInv
  <2>2. /\ CommitRead(b, n) \in Ring /\ InBounds(CommitRead(b, n))
        /\ CommitRead(b, n).cap = b.cap
    BY <1>1, <2>1, CommitReadInBounds DEF AvailableRead, InBounds, Ring
  <2>3. AvailableRead(CommitRead(b, n)) = AvailableRead(b) - n
    BY <1>1 DEF CommitRead, AvailableRead, Ring
  <2> QED
    BY <1>3, <2>2, <2>3 DEF RingInv
<1> QED
  BY <1>2, <1>3

(* fill_buffer() leaves a stream and a buffer that go together; the bytes  *)
(* read follow those that were unread, unless an error dropped them.       *)
LEMMA FillWorks ==
  ASSUME TypeOK, StreamInv(stream, env.file.len), EndIsKnown,
         NEW b, RingInv(b), NEW u \in Seq(Positions), Len(u) = AvailableRead(b),
         FillBuffer(b, u)
  PROVE  /\ StreamInv(stream', env.file.len) /\ stream'.kind = stream.kind
         /\ RingInv(ring') /\ ring'.cap = b.cap
         /\ unread' \in Seq(Positions) /\ Len(unread') = AvailableRead(ring')
         /\ status' \in ReaderStatus \ {"FINISHED"}
         /\ status' = "STREAM_FINISHED" => stream'.kind = "gzip" /\ stream'.past
         /\ ~Drops(b) => \E n \in Nat :
              /\ stream'.pos = stream.pos + n
              /\ Len(unread') = Len(u) + n
              /\ \A i \in 1 .. Len(u) : unread'[i] = u[i]
              /\ \A i \in Len(u) + 1 .. Len(u) + n :
                   unread'[i] = stream.pos + (i - Len(u)) - 1
<1> DEFINE r == Filled(b)
           n == r.bytes
<1>1. /\ env.file.len \in Nat
      /\ b \in Ring /\ AvailableWrite(b) \in Nat
      /\ stream \in StreamType /\ stream.pos \in Nat
  BY FileFacts
     DEF RingInv, Ring, InBounds, AvailableWrite, AvailableRead, NullRing, EmptyRing,
         StreamInv, StreamType
<1>2. /\ StreamInv(r.s, env.file.len) /\ r.s.kind = stream.kind
      /\ n \in Nat /\ n <= AvailableWrite(b)
      /\ r.s.pos = stream.pos + n
      /\ stream.past => r.s.past
  BY <1>1, ReadWorks DEF Filled
<1>3. /\ stream' = r.s
      /\ Commits(b) => ring' = CommitWrite(b, n)
                       /\ unread' = u \o [i \in 1 .. n |-> stream.pos + i - 1]
      /\ ~Commits(b) => ring' = b /\ unread' = u
      /\ status' = IF Good(r.s) THEN status
                   ELSE IF Eof(r.s) THEN "STREAM_FINISHED" ELSE "STREAM_ERROR"
  BY DEF FillBuffer
<1> HIDE DEF r, n
<1>4. RingInv(ring') /\ ring'.cap = b.cap
  BY <1>2, <1>3, RingWrites
<1>5. Eof(r.s) => r.s.kind = "gzip" /\ r.s.past
  BY <1>2 DEF Eof, StreamInv, StreamType, Bzip2Status, Z_STREAM_END, BZ_OK, BZ_STREAM_END,
              BZ_MEM_ERROR, BZ_DATA_ERROR
<1>6. status \in {"STREAM_FINISHED", "FINISHED"} => ~Good(r.s)
  BY <1>2 DEF EndIsKnown, Good, Eof
<1>7. /\ status' \in ReaderStatus \ {"FINISHED"}
      /\ status' = "STREAM_FINISHED" => stream'.kind = "gzip" /\ stream'.past
  BY <1>3, <1>5, <1>6 DEF TypeOK, ReaderStatus
<1>8. CASE Commits(b)
  <2>1. stream.pos + n <= env.file.len
    BY <1>2 DEF StreamInv
  <2>2. \A i \in 1 .. n : stream.pos + i - 1 \in Positions
    BY <1>1, <1>2, <2>1, SMTT(30) DEF Positions
  <2>3. /\ unread' \in Seq(Positions)
        /\ Len(unread') = Len(u) + n
        /\ \A i \in 1 .. Len(u) : unread'[i] = u[i]
        /\ \A i \in Len(u) + 1 .. Len(u) + n : unread'[i] = stream.pos + (i - Len(u)) - 1
    <3>1. PICK p \in Nat : p = stream.pos
      BY <1>1
    <3>2. PICK k \in Nat : k = n
      BY <1>2
    <3>3. PICK w : w = [i \in 1 .. k |-> p + i - 1]
      OBVIOUS
    <3>4. w \in Seq(Positions) /\ Len(w) = k /\ \A i \in 1 .. k : w[i] = p + i - 1
      BY <2>2, <3>1, <3>2, <3>3
    <3>5. unread' = u \o w
      BY <1>3, <1>8, <3>1, <3>2, <3>3, Zenon
    <3>6. Len(w) = k /\ \A i \in 1 .. Len(w) : w[i] = p + i - 1
      BY <3>4
    <3>7. /\ u \o w \in Seq(Positions)
          /\ Len(u \o w) = Len(u) + Len(w)
          /\ \A i \in 1 .. Len(u) : (u \o w)[i] = u[i]
          /\ \A i \in Len(u) + 1 .. Len(u) + Len(w) :
               (u \o w)[i] = p + (i - Len(u)) - 1
      BY <3>4, <3>6, Appended, ZenonT(60)
    <3> QED
      BY <3>1, <3>2, <3>5, <3>6, <3>7, Zenon
  <2>4. Len(unread') = AvailableRead(ring')
    BY <1>2, <1>3, <1>8, <2>3, RingWrites
  <2> QED
    BY <1>2, <1>3, <1>4, <1>7, <2>3, <2>4
<1>9. CASE ~Commits(b)
  <2>1. unread' = u /\ ring' = b
    BY <1>3, <1>9
  <2>2. ~Drops(b) => n = 0
    BY <1>2, <1>9 DEF Drops, n, r
  <2>3. ~Drops(b) => /\ stream'.pos = stream.pos + 0
                     /\ Len(unread') = Len(u) + 0
    BY <1>1, <1>2, <1>3, <2>1, <2>2
  <2>4. \A i \in Len(u) + 1 .. Len(u) + 0 : FALSE
    OBVIOUS
  <2> QED
    BY <1>2, <1>3, <1>4, <1>7, <2>1, <2>3, <2>4
<1> QED
  BY <1>8, <1>9

-----------------------------------------------------------------------------
LEMMA InitInvariant == Init => IInv
<1> SUFFICES ASSUME Init PROVE IInv
  OBVIOUS
<1>1. /\ env.file \in Files /\ env.file.len \in Nat
      /\ env.opening \in Openings
  BY ReaderAssumption DEF Init
<1>2. StreamInv(stream, env.file.len)
  <2>1. PICK kind \in Kinds : stream = Opened(kind, env.opening)
    BY DEF Init
  <2>2. kind \in {"gzip", "bzip2"}
    BY ReaderAssumption
  <2>3. OpenedStatus(kind, env.opening) \in Int
    BY <1>1, <2>2 DEF OpenedStatus, Openings, Z_OK, Z_MEM_ERROR, BZ_MEM_ERROR, Z_ERRNO, BZ_OK
  <2>4. kind = "bzip2" => OpenedStatus(kind, env.opening) \in Bzip2Status
    BY <1>1 DEF OpenedStatus, Openings, Z_OK, BZ_MEM_ERROR, BZ_OK, Bzip2Status
  <2>5. /\ stream.kind = kind /\ stream.pos = 0 /\ stream.past = FALSE
        /\ stream.status = OpenedStatus(kind, env.opening)
    BY <2>1 DEF Opened
  <2>6. stream \in StreamType
    BY <2>1, <2>2, <2>3 DEF Opened, StreamType
  <2> QED
    BY <1>1, <2>4, <2>5, <2>6 DEF StreamInv
<1>3. RingInv(ring) /\ AvailableRead(ring) = 0
  <2>1. PICK size \in BufferSizes :
          IF Granted(size) THEN ring = EmptyRing(PageCeil(size)) ELSE ring = NullRing
    BY DEF Init
  <2>2. size \in Nat
    BY ReaderAssumption, PageAssumption
  <2>3. CASE Granted(size)
    BY <2>1, <2>2, <2>3, GrantedSize, EmptyRingInv
  <2>4. CASE ~Granted(size)
    BY <2>1, <2>4, EmptyRingInv DEF NullRing
  <2> QED
    BY <2>3, <2>4
<1>4. decoded = <<>> /\ unread = <<>> /\ decoded \in Seq(Positions) /\ unread \in Seq(Positions)
  BY DEF Init
<1>5. TypeOK
  <2>1. status \in ReaderStatus
    BY DEF Init, ReaderStatus
  <2>2. stream.pos \in 0 .. env.file.len
    BY <1>1, <1>2 DEF StreamInv, StreamType
  <2>3. ring \in Ring /\ (IsNull \/ InBounds(ring))
    BY <1>3 DEF RingInv, IsNull
  <2>4. started \in BOOLEAN /\ gotPartial \in BOOLEAN /\ lost \in BOOLEAN
    BY DEF Init
  <2>5. message.tag \in {"cleared", "decoded"} /\ returned.tag \in {"nothing", "message", "error"}
    BY DEF Init, Cleared, Nothing
  <2>6. Len(unread) = AvailableRead(ring)
    BY <1>3, <1>4
  <2>7. pc \in {"idle", "decode", "aborted"} /\ op \in {"none", "message", "increment"}
    BY DEF Init
  <2>8. env \in [file : Files, opening : Openings, asserts : Builds, limit : Limits]
    BY DEF Init
  <2> QED
    BY <1>4, <2>1, <2>2, <2>3, <2>4, <2>5, <2>6, <2>7, <2>8 DEF TypeOK, Positions
<1>6. SpanIsCurrent /\ Calling /\ AtHand /\ ShowsLastDecoded /\ Reported
  BY DEF Init, SpanIsCurrent, Calling, AtHand, ShowsLastDecoded, Reported, Nothing
<1>7. DecodedInOrder
  <2>1. NextAt = 0 /\ stream.pos = 0
    BY <1>4 DEF NextAt, Init, Opened
  <2> QED
    BY <1>4, <2>1 DEF DecodedInOrder
<1>8. EndIsKnown /\ FinishedMeansComplete
  BY DEF Init, EndIsKnown, FinishedMeansComplete
<1> QED
  BY <1>2, <1>3, <1>5, <1>6, <1>7, <1>8 DEF IInv

(* What a step that touches neither stream nor buffer nor history keeps.   *)
LEMMA SameData ==
  ASSUME IInv, UNCHANGED <<env, ring, unread, decoded, lost, status>>,
         stream'.pos = stream.pos, stream'.past = stream.past, stream'.kind = stream.kind
  PROVE  RingInv(ring)' /\ DecodedInOrder' /\ FinishedMeansComplete' /\ EndIsKnown'
<1>1. RingInv(ring') /\ NextAt' = NextAt
  BY DEF IInv, NextAt
<1>2. DecodedInOrder'
  BY <1>1 DEF IInv, DecodedInOrder
<1>3. FinishedMeansComplete'
  BY <1>1 DEF IInv, FinishedMeansComplete
<1>4. EndIsKnown'
  BY DEF IInv, EndIsKnown
<1> QED
  BY <1>1, <1>2, <1>3, <1>4

LEMMA IncrementInvariant == IInv /\ Increment => IInv'
<1> SUFFICES ASSUME IInv, Increment PROVE IInv'
  OBVIOUS
<1>1. RingInv(ring)' /\ DecodedInOrder' /\ FinishedMeansComplete' /\ EndIsKnown'
  BY SameData DEF Increment, history
<1>2. TypeOK'
  <2>1. pc' \in {"idle", "decode"} /\ gotPartial' \in BOOLEAN /\ op' = "increment"
    BY DEF Increment, Enter, IInv, TypeOK
  <2> QED
    BY <2>1 DEF IInv, TypeOK, Increment, history, IsNull
<1>3. StreamInv(stream, env.file.len)'
  BY DEF IInv, Increment
<1>4. SpanIsCurrent'
  BY DEF IInv, SpanIsCurrent, Increment, Enter
<1>5. AtHand'
  BY DEF IInv, AtHand, Increment, Enter, history
<1>6. ShowsLastDecoded'
  BY DEF ShowsLastDecoded, Increment
<1>7. Calling' /\ Reported'
  BY DEF IInv, Calling, Reported, Increment, Enter
<1> QED
  BY <1>1, <1>2, <1>3, <1>4, <1>5, <1>6, <1>7 DEF IInv

LEMMA ClearStatusInvariant == IInv /\ ClearStatus => IInv'
<1> SUFFICES ASSUME IInv, ClearStatus PROVE IInv'
  OBVIOUS
<1>1. stream \in StreamType
  BY DEF IInv, StreamInv
<1>2. /\ stream'.pos = stream.pos /\ stream'.past = stream.past /\ stream'.kind = stream.kind
      /\ stream'.status = Z_OK
  BY <1>1 DEF ClearStatus, StreamType
<1>3. stream' \in StreamType
  BY <1>1 DEF ClearStatus, StreamType, Z_OK
<1>4. RingInv(ring)' /\ DecodedInOrder' /\ FinishedMeansComplete' /\ EndIsKnown'
  BY <1>2, SameData DEF ClearStatus, history
<1>5. StreamInv(stream, env.file.len)'
  BY <1>2, <1>3 DEF IInv, StreamInv, ClearStatus, Bzip2Status, Z_OK, BZ_OK
<1>6. TypeOK'
  BY <1>2 DEF IInv, TypeOK, ClearStatus, locals, history, IsNull
<1>7. SpanIsCurrent' /\ Calling' /\ AtHand' /\ ShowsLastDecoded' /\ Reported'
  BY DEF IInv, SpanIsCurrent, Calling, AtHand, ShowsLastDecoded, Reported, ClearStatus,
         locals, history
<1> QED
  BY <1>3, <1>4, <1>5, <1>6, <1>7 DEF IInv

(* A message that was decoded whole: what is unread starts after it.       *)
LEMMA DecodeOkInvariant == IInv /\ DecodeOk => IInv'
<1> SUFFICES ASSUME IInv, DecodeOk PROVE IInv'
  OBVIOUS
<1>1. Input = unread
  BY InputIsUnread DEF IInv, DecodeOk
<1>2. /\ env.file.len \in Nat /\ env.file.sizes \in [Positions -> Nat \ {0}]
      /\ unread \in Seq(Positions) /\ decoded \in Seq(Positions)
      /\ Len(unread) = AvailableRead(ring)
  BY FileFacts DEF IInv, TypeOK, Positions
<1>3. unread # <<>> /\ MessageSize(unread) <= Len(unread)
  BY <1>1, <1>2 DEF DecodeOk, IsWhole
<1>4. PICK first \in Positions : first = unread[1]
  BY <1>2, <1>3
<1>5. PICK size \in Nat \ {0} : size = MessageSize(unread) /\ size = env.file.sizes[first]
  BY <1>2, <1>4 DEF MessageSize
<1>6. size <= Len(unread)
  BY <1>3, <1>5
<1>7. /\ unread' = SubSeq(unread, size + 1, Len(unread))
      /\ ring' = CommitRead(ring, size)
      /\ decoded' = Append(decoded, first)
      /\ message' = DecodedAt(first)
  BY <1>1, <1>4, <1>5, Zenon DEF DecodeOk
<1>8. /\ unread' \in Seq(Positions)
      /\ Len(unread') = Len(unread) - size
      /\ \A i \in 1 .. Len(unread) - size : unread'[i] = unread[size + i]
  BY <1>2, <1>6, <1>7, Dropped, Zenon
<1>9. RingInv(ring)' /\ Len(unread') = AvailableRead(ring')
  BY <1>2, <1>6, <1>7, <1>8, RingReads DEF IInv
<1>10. /\ decoded' \in Seq(Positions) /\ decoded' # <<>>
       /\ Len(decoded') = Len(decoded) + 1
       /\ decoded'[Len(decoded')] = first
       /\ \A i \in 1 .. Len(decoded) : decoded'[i] = decoded[i]
  <2>1. /\ decoded' \in Seq(Positions)
        /\ Len(decoded') = Len(decoded) + 1
        /\ decoded'[Len(decoded) + 1] = first
        /\ \A i \in 1 .. Len(decoded) : decoded'[i] = decoded[i]
    <3>1. first \in Positions /\ decoded \in Seq(Positions)
      BY <1>2
    <3> HIDE DEF Positions
    <3>2. /\ Append(decoded, first) \in Seq(Positions)
          /\ Len(Append(decoded, first)) = Len(decoded) + 1
          /\ Append(decoded, first)[Len(decoded) + 1] = first
          /\ \A i \in 1 .. Len(decoded) : Append(decoded, first)[i] = decoded[i]
      BY <3>1, Added
    <3> QED
      BY <1>7, <3>2, Zenon
  <2>2. decoded' # <<>>
    BY <1>2, <2>1
  <2> QED
    BY <2>1, <2>2, Zenon
<1>11. NextAt' = first + size
  BY <1>5, <1>10 DEF NextAt, DecodeOk
<1>12. DecodedInOrder'
  <2> SUFFICES ASSUME ~lost PROVE DecodedInOrder'
    BY DEF DecodedInOrder, DecodeOk
  <2>1. /\ \A i \in 1 .. Len(decoded) :
             decoded[i] = IF i = 1 THEN 0 ELSE decoded[i - 1] + env.file.sizes[decoded[i - 1]]
        /\ \A i \in 1 .. Len(unread) : unread[i] = NextAt + i - 1
        /\ NextAt + Len(unread) = stream.pos
    BY DEF IInv, DecodedInOrder
  <2>2. NextAt \in Nat /\ first = NextAt
    <3>1. NextAt \in Nat
      BY NextAtNat DEF IInv
    <3>2. 1 \in 1 .. Len(unread)
      BY <1>2, <1>3
    <3>3. first = NextAt + 1 - 1
      BY <1>4, <2>1, <3>2, Zenon
    <3> QED
      BY <3>1, <3>3
  <2>3. \A i \in 1 .. Len(unread') : unread'[i] = NextAt' + i - 1
    <3> SUFFICES ASSUME NEW i \in 1 .. Len(unread) - size
                 PROVE  unread'[i] = NextAt' + i - 1
      BY <1>8
    <3>1. size + i \in 1 .. Len(unread)
      <4>1. PICK k \in Nat : k = Len(unread) /\ size <= k /\ i \in 1 .. k - size
        BY <1>2, <1>6
      <4> QED
        BY <4>1
    <3>2. unread'[i] = NextAt + (size + i) - 1
      BY <1>8, <2>1, <3>1
    <3> QED
      BY <1>11, <2>2, <3>2
  <2>4. NextAt' + Len(unread') = stream.pos
    BY <1>2, <1>6, <1>8, <1>11, <2>1, <2>2
  <2>5. first = IF Len(decoded') = 1 THEN 0
                ELSE decoded'[Len(decoded') - 1] + env.file.sizes[decoded'[Len(decoded') - 1]]
    BY <1>2, <1>10, <2>2 DEF NextAt
  <2>6. \A i \in 1 .. Len(decoded') :
          decoded'[i] = IF i = 1 THEN 0
                        ELSE decoded'[i - 1] + env.file.sizes[decoded'[i - 1]]
    <3> SUFFICES ASSUME NEW i \in 1 .. Len(decoded) + 1
                 PROVE  decoded'[i] = IF i = 1 THEN 0
                                      ELSE decoded'[i - 1] + env.file.sizes[decoded'[i - 1]]
      BY <1>10
    <3>1. CASE i = Len(decoded) + 1
      <4>1. i = Len(decoded')
        BY <1>10, <3>1, Zenon
      <4> QED
        BY <1>10, <2>5, <4>1, Zenon
    <3>2. CASE i \in 1 .. Len(decoded)
      <4>1. decoded'[i] = decoded[i]
        BY <1>10, <3>2, Zenon
      <4>2. i # 1 => i - 1 \in 1 .. Len(decoded)
        BY <1>2, <3>2
      <4>3. i # 1 => decoded'[i - 1] = decoded[i - 1]
        BY <1>10, <4>2, Zenon
      <4>4. decoded[i] = IF i = 1 THEN 0
                         ELSE decoded[i - 1] + env.file.sizes[decoded[i - 1]]
        BY <2>1, <3>2, Zenon
      <4>5. CASE i = 1
        BY <4>1, <4>4, <4>5
      <4>6. CASE i # 1
        BY <4>1, <4>3, <4>4, <4>6
      <4> QED
        BY <4>5, <4>6
    <3>3. i = Len(decoded) + 1 \/ i \in 1 .. Len(decoded)
      BY <1>2
    <3> QED
      BY <3>1, <3>2, <3>3, Zenon
  <2> QED
    BY <2>3, <2>4, <2>6 DEF DecodedInOrder, DecodeOk
<1>13. status # "FINISHED"
  BY <1>3 DEF IInv, FinishedMeansComplete
<1>14. TypeOK'
  <2>1. message'.tag = "decoded"
    BY <1>7 DEF DecodedAt
  <2>2. returned'.tag \in {"nothing", "message", "error"}
    BY DEF IInv, TypeOK, DecodeOk, Return, MessageResult, Value, Error
  <2>3. ring' \in Ring /\ (IsNull' \/ InBounds(ring'))
    BY <1>9 DEF RingInv, IsNull
  <2>4. pc' = "idle"
    BY DEF DecodeOk, Return
  <2> QED
    BY <1>8, <1>9, <1>10, <2>1, <2>2, <2>3, <2>4 DEF IInv, TypeOK, DecodeOk, Positions
<1>15. StreamInv(stream, env.file.len)'
  BY DEF IInv, DecodeOk
<1>16. SpanIsCurrent'
  BY DEF SpanIsCurrent, DecodeOk, Return
<1>17. FinishedMeansComplete' /\ EndIsKnown'
  BY <1>13 DEF IInv, FinishedMeansComplete, EndIsKnown, DecodeOk
<1>18. Calling' /\ AtHand'
  BY <1>7, <1>10 DEF Calling, AtHand, DecodeOk, Return
<1>19. ShowsLastDecoded'
  <2>1. op' = "message" /\ returned'.tag = "message" => returned' = Value(message')
    BY DEF DecodeOk, Return, MessageResult, Error
  <2> QED
    BY <1>7, <1>10, <2>1 DEF ShowsLastDecoded
<1>20. Reported'
  <2>1. returned'.tag = "error" => returned' = Error(status) /\ ~NotFinished(status) /\ started
    <3>1. returned.tag # "error" /\ (op = "message" => started)
      BY DEF IInv, Reported, Calling, DecodeOk
    <3> QED
      BY <3>1 DEF DecodeOk, Return, MessageResult, Value
  <2> QED
    BY <2>1 DEF Reported, DecodeOk, Return
<1> QED
  BY <1>9, <1>12, <1>14, <1>15, <1>16, <1>17, <1>18, <1>19, <1>20 DEF IInv

(* decode_one() ends with a status and no message.                         *)
LEMMA EndsWith ==
  ASSUME IInv, pc = "decode", NEW st \in ReaderStatus, ~NotFinished(st),
         st = "FINISHED" => unread = <<>> /\ status = "STREAM_FINISHED",
         status' = st, message' = Cleared, op' = op, Return(status', message'),
         UNCHANGED <<env, started, stream, ring, unread, out, gotPartial, history>>
  PROVE  IInv'
<1>1. RingInv(ring)' /\ StreamInv(stream, env.file.len)' /\ NextAt' = NextAt
  BY DEF IInv, NextAt, history
<1>2. DecodedInOrder'
  BY <1>1 DEF IInv, DecodedInOrder, history
<1>3. st \notin {"OK", "STREAM_FINISHED"}
  BY DEF NotFinished
<1>4. st = "FINISHED" => stream.kind = "gzip" /\ stream.past
  BY DEF IInv, EndIsKnown
<1>5. EndIsKnown'
  BY <1>3, <1>4 DEF EndIsKnown
<1>6. FinishedMeansComplete'
  <2> SUFFICES ASSUME st = "FINISHED", ~lost PROVE NextAt = env.file.len
    BY <1>1 DEF FinishedMeansComplete, history
  <2>1. stream.pos = env.file.len
    BY <1>4 DEF IInv, StreamInv
  <2>2. NextAt + Len(unread) = stream.pos /\ Len(unread) = 0
    BY DEF IInv, DecodedInOrder
  <2>3. NextAt \in Nat
    BY NextAtNat DEF IInv
  <2> QED
    BY <2>1, <2>2, <2>3
<1>7. pc' = "idle" /\ returned' = IF op = "message" THEN Error(st) ELSE returned
  BY DEF Return, MessageResult
<1>8. TypeOK'
  <2>1. message'.tag = "cleared" /\ returned'.tag \in {"nothing", "message", "error"}
    BY <1>7 DEF Cleared, Error, IInv, TypeOK
  <2> QED
    BY <1>7, <2>1 DEF IInv, TypeOK, history, IsNull
<1>9. SpanIsCurrent' /\ Calling'
  BY <1>7 DEF SpanIsCurrent, Calling
<1>10. AtHand'
  BY <1>3 DEF AtHand, NotFinished
<1>11. ShowsLastDecoded'
  BY <1>7 DEF ShowsLastDecoded, Error
<1>12. Reported'
  <2>1. returned.tag # "error" /\ (op = "message" => started)
    BY DEF IInv, Reported, Calling
  <2>2. returned'.tag = "error" => op = "message" /\ returned' = Error(st)
    BY <1>7, <2>1
  <2> QED
    BY <1>7, <2>1, <2>2 DEF Reported
<1> QED
  BY <1>1, <1>2, <1>5, <1>6, <1>8, <1>9, <1>10, <1>11, <1>12 DEF IInv

LEMMA DecodeFinishedInvariant == IInv /\ DecodeFinished => IInv'
<1> SUFFICES ASSUME IInv, DecodeFinished PROVE IInv'
  OBVIOUS
<1>1. out.size = Len(unread) /\ unread \in Seq(Positions)
  BY DEF IInv, TypeOK, SpanIsCurrent, PrepareRead, DecodeFinished, Positions
<1>2. unread = <<>>
  BY <1>1 DEF DecodeFinished
<1>3. "FINISHED" \in ReaderStatus /\ ~NotFinished("FINISHED")
  BY DEF ReaderStatus, NotFinished
<1> QED
  BY <1>2, <1>3, EndsWith DEF DecodeFinished

LEMMA DecodeErrorInvariant == IInv /\ DecodeError => IInv'
<1> SUFFICES ASSUME IInv, DecodeError PROVE IInv'
  OBVIOUS
<1>1. "DECODER_ERROR" \in ReaderStatus /\ ~NotFinished("DECODER_ERROR")
  BY DEF ReaderStatus, NotFinished
<1> QED
  BY <1>1, EndsWith DEF DecodeError

(* A step after which the program has ended.                               *)
LEMMA AbortInvariant ==
  ASSUME IInv, Abort, op' \in {"message", "increment", op}, started' \in BOOLEAN,
         returned.tag = "error" => started'
  PROVE  IInv'
<1>1. RingInv(ring)' /\ DecodedInOrder' /\ FinishedMeansComplete' /\ EndIsKnown'
  BY SameData DEF Abort, history
<1>2. StreamInv(stream, env.file.len)'
  BY DEF IInv, Abort
<1>3. TypeOK'
  BY DEF IInv, TypeOK, Abort, history, IsNull
<1>4. pc' = "aborted"
  BY DEF Abort
<1>5. SpanIsCurrent' /\ Calling' /\ AtHand' /\ ShowsLastDecoded'
  BY <1>4 DEF SpanIsCurrent, Calling, AtHand, ShowsLastDecoded
<1>6. Reported'
  BY <1>4 DEF IInv, Reported, Abort
<1> QED
  BY <1>1, <1>2, <1>3, <1>5, <1>6 DEF IInv

(* What a fill that drops nothing brings follows what was unread.          *)
LEMMA OrderAfterFill ==
  ASSUME IInv, ~lost, UNCHANGED <<env, decoded>>,
         NEW n \in Nat, stream'.pos = stream.pos + n, Len(unread') = Len(unread) + n,
         \A i \in 1 .. Len(unread) : unread'[i] = unread[i],
         \A i \in Len(unread) + 1 .. Len(unread) + n :
           unread'[i] = stream.pos + (i - Len(unread)) - 1
  PROVE  DecodedInOrder'
<1>1. /\ \A i \in 1 .. Len(decoded) :
           decoded[i] = IF i = 1 THEN 0 ELSE decoded[i - 1] + env.file.sizes[decoded[i - 1]]
      /\ \A i \in 1 .. Len(unread) : unread[i] = NextAt + i - 1
      /\ NextAt + Len(unread) = stream.pos
  BY DEF IInv, DecodedInOrder
<1>2. NextAt' = NextAt /\ NextAt \in Nat /\ Len(unread) \in Nat
  BY NextAtNat DEF IInv, TypeOK, NextAt
<1>3. ASSUME NEW i \in 1 .. Len(unread) + n
      PROVE  unread'[i] = NextAt + i - 1
  <2>1. CASE i <= Len(unread)
    <3>1. i \in 1 .. Len(unread)
      BY <1>2, <2>1
    <3> QED
      BY <1>1, <3>1, Zenon
  <2>2. CASE i > Len(unread)
    <3>1. i \in Len(unread) + 1 .. Len(unread) + n
      BY <1>2, <2>2
    <3>2. unread'[i] = stream.pos + (i - Len(unread)) - 1
      BY <3>1
    <3> QED
      BY <1>1, <1>2, <3>2
  <2> QED
    BY <1>2, <2>1, <2>2
<1>4. NextAt + Len(unread') = stream'.pos
  BY <1>1, <1>2
<1> QED
  BY <1>1, <1>2, <1>3, <1>4 DEF DecodedInOrder

(* What holds after fill_buffer() whoever called it.                       *)
LEMMA AfterFill ==
  ASSUME IInv, NEW b, RingInv(b), NEW u \in Seq(Positions), Len(u) = AvailableRead(b),
         FillBuffer(b, u), UNCHANGED <<env, decoded>>,
         lost' = (lost \/ u # unread \/ Drops(b))
  PROVE  /\ StreamInv(stream, env.file.len)' /\ RingInv(ring)'
         /\ stream'.pos \in 0 .. env.file.len
         /\ ring' \in Ring /\ (IsNull' \/ InBounds(ring'))
         /\ unread' \in Seq(Positions) /\ Len(unread') = AvailableRead(ring')
         /\ status' \in ReaderStatus
         /\ lost' \in BOOLEAN
         /\ DecodedInOrder' /\ FinishedMeansComplete' /\ EndIsKnown'
<1>1. /\ StreamInv(stream', env.file.len) /\ stream'.kind = stream.kind
      /\ RingInv(ring') /\ ring'.cap = b.cap
      /\ unread' \in Seq(Positions) /\ Len(unread') = AvailableRead(ring')
      /\ status' \in ReaderStatus \ {"FINISHED"}
      /\ status' = "STREAM_FINISHED" => stream'.kind = "gzip" /\ stream'.past
      /\ ~Drops(b) => \E n \in Nat :
           /\ stream'.pos = stream.pos + n
           /\ Len(unread') = Len(u) + n
           /\ \A i \in 1 .. Len(u) : unread'[i] = u[i]
           /\ \A i \in Len(u) + 1 .. Len(u) + n :
                unread'[i] = stream.pos + (i - Len(u)) - 1
  BY FillWorks DEF IInv
<1>2. DecodedInOrder'
  <2>1. CASE lost'
    BY <2>1 DEF DecodedInOrder
  <2>2. CASE ~lost'
    <3>1. ~lost /\ u = unread /\ ~Drops(b)
      BY <2>2
    <3>2. PICK n \in Nat : /\ stream'.pos = stream.pos + n
                           /\ Len(unread') = Len(unread) + n
                           /\ \A i \in 1 .. Len(unread) : unread'[i] = unread[i]
                           /\ \A i \in Len(unread) + 1 .. Len(unread) + n :
                                unread'[i] = stream.pos + (i - Len(unread)) - 1
      BY <1>1, <3>1, Zenon
    <3> QED
      BY <3>1, <3>2, OrderAfterFill
  <2> QED
    BY <2>1, <2>2
<1>3. FinishedMeansComplete' /\ EndIsKnown'
  BY <1>1 DEF FinishedMeansComplete, EndIsKnown
<1>4. stream'.pos \in 0 .. env.file.len
  BY <1>1, FileFacts DEF IInv, StreamInv, StreamType
<1>5. ring' \in Ring /\ (IsNull' \/ InBounds(ring'))
  BY <1>1 DEF RingInv, IsNull
<1>6. lost' \in BOOLEAN
  OBVIOUS
<1> QED
  BY <1>1, <1>2, <1>3, <1>4, <1>5, <1>6

LEMMA DecodeMoreInvariant == IInv /\ DecodeMore => IInv'
<1> SUFFICES ASSUME IInv, DecodeMore PROVE IInv'
  OBVIOUS
<1>1. PICK b, kept : b = ToFill /\ kept = IF b.cap = ring.cap THEN unread ELSE <<>>
  OBVIOUS
<1>2. /\ unread \in Seq(Positions) /\ Len(unread) = AvailableRead(ring) /\ RingInv(ring)
      /\ returned.tag # "error" /\ (op = "message" => started)
  BY DEF IInv, TypeOK, Positions, Reported, Calling, DecodeMore
<1>3. RingInv(b) /\ kept \in Seq(Positions) /\ Len(kept) = AvailableRead(b)
  <2>1. CASE b = ring
    BY <1>1, <1>2, <2>1
  <2>2. CASE b = Grown(ring)
    <3>1. b.cap = ring.cap => b = ring
      BY <1>2, <2>2, GrownRing
    <3>2. b.cap # ring.cap => kept = <<>> /\ AvailableRead(b) = 0
      BY <1>1, <1>2, <2>2, GrownRing
    <3>3. RingInv(b)
      BY <1>2, <2>2, GrownRing
    <3>4. <<>> \in Seq(Positions) /\ Len(<<>>) = 0
      OBVIOUS
    <3> QED
      BY <2>1, <3>1, <3>2, <3>3, <3>4
  <2> QED
    BY <1>1, <2>1, <2>2 DEF ToFill
<1>4. CASE Abort
  BY <1>2, <1>4, AbortInvariant DEF DecodeMore, IInv, TypeOK
<1>5. CASE /\ Refill(b, kept)
           /\ gotPartial' = TRUE
           /\ message' = Cleared
           /\ lost' = (lost \/ kept # unread \/ Drops(b))
           /\ UNCHANGED <<env, pc, decoded, returned>>
  <2>1. FillBuffer(b, kept) /\ out' = PrepareRead(ring')
    BY <1>5 DEF Refill
  <2>2. /\ StreamInv(stream, env.file.len)' /\ RingInv(ring)'
        /\ stream'.pos \in 0 .. env.file.len
        /\ ring' \in Ring /\ (IsNull' \/ InBounds(ring'))
        /\ unread' \in Seq(Positions) /\ Len(unread') = AvailableRead(ring')
        /\ status' \in ReaderStatus
        /\ lost' \in BOOLEAN
        /\ DecodedInOrder' /\ FinishedMeansComplete' /\ EndIsKnown'
    BY <1>3, <1>5, <2>1, AfterFill
  <2>3. pc' = "decode" /\ op' = op /\ started' = started
    BY <1>5 DEF DecodeMore
  <2>4. TypeOK'
    BY <1>5, <2>2, <2>3 DEF IInv, TypeOK, Positions, Cleared
  <2>5. SpanIsCurrent'
    BY <2>1 DEF SpanIsCurrent
  <2>6. Calling' /\ AtHand' /\ ShowsLastDecoded' /\ Reported'
    BY <1>2, <1>5, <2>3 DEF Calling, AtHand, ShowsLastDecoded, Reported
  <2> QED
    BY <2>2, <2>4, <2>5, <2>6 DEF IInv
<1> QED
  BY <1>1, <1>4, <1>5 DEF DecodeMore

LEMMA DerefInvariant == IInv /\ Deref => IInv'
<1> SUFFICES ASSUME IInv, Deref PROVE IInv'
  OBVIOUS
<1>1. /\ unread \in Seq(Positions) /\ Len(unread) = AvailableRead(ring) /\ RingInv(ring)
      /\ op' = "message" /\ UNCHANGED <<env, message, decoded>>
  BY DEF IInv, TypeOK, Positions, Deref
<1>2. CASE /\ ~FirstCall
           /\ Return(status, message)
           /\ UNCHANGED <<started, status, stream, ring, unread, out, gotPartial, lost>>
  <2>1. RingInv(ring)' /\ DecodedInOrder' /\ FinishedMeansComplete' /\ EndIsKnown'
    BY <1>1, <1>2, SameData
  <2>2. StreamInv(stream, env.file.len)'
    BY <1>1, <1>2 DEF IInv
  <2>3. /\ started
        /\ pc' = "idle" /\ returned' = IF NotFinished(status) THEN Value(message) ELSE Error(status)
    BY <1>1, <1>2 DEF FirstCall, Return, MessageResult
  <2>4. TypeOK'
    <3>1. returned'.tag \in {"nothing", "message", "error"}
      BY <2>3 DEF Value, Error
    <3> QED
      BY <1>1, <1>2, <2>3, <3>1 DEF IInv, TypeOK, IsNull
  <2>5. SpanIsCurrent' /\ Calling'
    BY <2>3 DEF SpanIsCurrent, Calling
  <2>6. AtHand' /\ ShowsLastDecoded'
    <3>1. NotFinished(status) =>
            decoded # <<>> /\ message = DecodedAt(decoded[Len(decoded)])
      BY <2>3 DEF IInv, AtHand, Deref
    <3>2. returned'.tag = "message" => NotFinished(status) /\ returned' = Value(message)
      BY <2>3 DEF Error
    <3> QED
      BY <1>1, <1>2, <3>1, <3>2 DEF AtHand, ShowsLastDecoded
  <2>7. Reported'
    <3>1. returned'.tag = "error" => ~NotFinished(status) /\ returned' = Error(status)
      BY <2>3 DEF Value
    <3> QED
      BY <1>2, <2>3, <3>1 DEF Reported
  <2> QED
    BY <2>1, <2>2, <2>4, <2>5, <2>6, <2>7 DEF IInv
<1>3. CASE FirstCall /\ started' = TRUE /\ Abort
  BY <1>1, <1>3, AbortInvariant
<1>4. CASE /\ FirstCall
           /\ started' = TRUE
           /\ FillBuffer(ring, unread)
           /\ lost' = (lost \/ Drops(ring))
           /\ IF NotFinished(status')
              THEN Enter(ring') /\ UNCHANGED returned
              ELSE Return(status', message) /\ UNCHANGED <<out, gotPartial>>
  <2>1. lost' = (lost \/ unread # unread \/ Drops(ring))
    BY <1>4
  <2>2. /\ StreamInv(stream, env.file.len)' /\ RingInv(ring)'
        /\ stream'.pos \in 0 .. env.file.len
        /\ ring' \in Ring /\ (IsNull' \/ InBounds(ring'))
        /\ unread' \in Seq(Positions) /\ Len(unread') = AvailableRead(ring')
        /\ status' \in ReaderStatus
        /\ lost' \in BOOLEAN
        /\ DecodedInOrder' /\ FinishedMeansComplete' /\ EndIsKnown'
    BY <1>1, <1>4, <2>1, AfterFill
  <2>3. returned.tag # "error"
    BY <1>4 DEF IInv, Reported, FirstCall
  <2>4. CASE NotFinished(status')
    <3>1. /\ pc' = "decode" /\ out' = PrepareRead(ring') /\ gotPartial' = FALSE
          /\ returned' = returned
      BY <1>4, <2>4 DEF Enter
    <3>2. TypeOK'
      BY <1>1, <1>4, <2>2, <3>1 DEF IInv, TypeOK, Positions
    <3>3. SpanIsCurrent' /\ Calling' /\ AtHand' /\ ShowsLastDecoded' /\ Reported'
      BY <1>4, <2>3, <3>1 DEF SpanIsCurrent, Calling, AtHand, ShowsLastDecoded, Reported
    <3> QED
      BY <2>2, <3>2, <3>3 DEF IInv
  <2>5. CASE ~NotFinished(status')
    <3>1. /\ pc' = "idle" /\ returned' = Error(status') /\ gotPartial' = gotPartial
      BY <1>1, <1>4, <2>5 DEF Return, MessageResult
    <3>2. returned'.tag = "error"
      BY <3>1 DEF Error
    <3>3. TypeOK'
      BY <1>1, <1>4, <2>2, <3>1, <3>2 DEF IInv, TypeOK, Positions
    <3>4. SpanIsCurrent' /\ Calling' /\ AtHand' /\ ShowsLastDecoded' /\ Reported'
      BY <1>4, <2>5, <3>1, <3>2
         DEF SpanIsCurrent, Calling, AtHand, ShowsLastDecoded, Reported
    <3> QED
      BY <2>2, <3>3, <3>4 DEF IInv
  <2> QED
    BY <2>4, <2>5
<1> QED
  BY <1>2, <1>3, <1>4 DEF Deref

LEMMA StutterInvariant == IInv /\ UNCHANGED vars => IInv'
<1> SUFFICES ASSUME IInv, UNCHANGED vars PROVE IInv'
  OBVIOUS
<1>1. RingInv(ring)' /\ DecodedInOrder' /\ FinishedMeansComplete' /\ EndIsKnown'
  BY SameData DEF vars, history
<1>2. StreamInv(stream, env.file.len)'
  BY DEF IInv, vars
<1>3. TypeOK'
  BY DEF IInv, TypeOK, vars, locals, history, IsNull
<1>4. SpanIsCurrent' /\ Calling' /\ AtHand' /\ ShowsLastDecoded' /\ Reported'
  BY DEF IInv, SpanIsCurrent, Calling, AtHand, ShowsLastDecoded, Reported, vars, locals,
         history
<1> QED
  BY <1>1, <1>2, <1>3, <1>4 DEF IInv

LEMMA NextInvariant == IInv /\ [Next]_vars => IInv'
<1> SUFFICES ASSUME IInv, [Next]_vars PROVE IInv'
  OBVIOUS
<1>1. CASE Deref
  BY <1>1, DerefInvariant
<1>2. CASE Increment
  BY <1>2, IncrementInvariant
<1>3. CASE ClearStatus
  BY <1>3, ClearStatusInvariant
<1>4. CASE DecodeOk
  BY <1>4, DecodeOkInvariant
<1>5. CASE DecodeMore
  BY <1>5, DecodeMoreInvariant
<1>6. CASE DecodeFinished
  BY <1>6, DecodeFinishedInvariant
<1>7. CASE DecodeError
  BY <1>7, DecodeErrorInvariant
<1>8. CASE UNCHANGED vars
  BY <1>8, StutterInvariant
<1> QED
  BY <1>1, <1>2, <1>3, <1>4, <1>5, <1>6, <1>7, <1>8 DEF Next, Decoding

LEMMA Invariance == Spec => []IInv
  BY InitInvariant, NextInvariant, PTL DEF Spec

-----------------------------------------------------------------------------
(* The state has its shape, and the buffer is in bounds, in any world and  *)
(* after any calls, also without assertions and without memory.            *)
THEOREM ReaderTypeCorrect == Spec => []TypeOK
<1>1. IInv => TypeOK
  BY DEF IInv
<1> QED
  BY <1>1, Invariance, PTL

(* decode_one() never decodes from a span that a fill or a growth made     *)
(* invalid.                                                                *)
THEOREM SpansStayCurrent == Spec => []SpanIsCurrent
<1>1. IInv => SpanIsCurrent
  BY DEF IInv
<1> QED
  BY <1>1, Invariance, PTL

(* Until growth or an error drops bytes, the messages decoded are those of *)
(* the stream in their order, whatever its length, the sizes of messages,  *)
(* buffer and pages, and whatever the user calls.                          *)
THEOREM MessagesInOrder == Spec => []DecodedInOrder
<1>1. IInv => DecodedInOrder
  BY DEF IInv
<1> QED
  BY <1>1, Invariance, PTL

(* FINISHED means that everything was decoded.                             *)
THEOREM FinishedAtTheEnd == Spec => []FinishedMeansComplete
<1>1. IInv => FinishedMeansComplete
  BY DEF IInv
<1> QED
  BY <1>1, Invariance, PTL

(* message() shows the message decoded last, never one in the making.      *)
THEOREM MessageIsLastDecoded == Spec => []ShowsLastDecoded
<1>1. IInv => ShowsLastDecoded
  BY DEF IInv
<1> QED
  BY <1>1, Invariance, PTL

(* An error that message() reported is what it reports ever after.         *)
THEOREM ErrorsAreFinal == Spec => ErrorIsFinal
<1>1. IInv /\ [Next]_vars => [returned.tag = "error" => returned' = returned]_vars
  <2> SUFFICES ASSUME IInv, Next, returned.tag = "error" PROVE returned' = returned
    OBVIOUS
  <2>1. pc # "decode" /\ ~NotFinished(status) /\ started /\ returned = Error(status)
    BY DEF IInv, Reported
  <2>2. CASE Deref
    BY <2>1, <2>2 DEF Deref, FirstCall, Return, MessageResult
  <2>3. CASE Increment
    BY <2>3 DEF Increment
  <2>4. CASE ClearStatus
    BY <2>4 DEF ClearStatus
  <2>5. CASE Decoding
    BY <2>1, <2>5 DEF Decoding, DecodeOk, DecodeMore, DecodeFinished, DecodeError
  <2> QED
    BY <2>2, <2>3, <2>4, <2>5 DEF Next
<1> QED
  BY <1>1, Invariance, PTL DEF Spec, ErrorIsFinal

-----------------------------------------------------------------------------
(* What is in a reader's buffer and what can be read into it.              *)
LEMMA RingNat ==
  ASSUME IInv
  PROVE  /\ ring \in Ring /\ ring.cap \in Nat /\ AvailableRead(ring) \in Nat
         /\ AvailableWrite(ring) \in Nat
         /\ AvailableWrite(ring) <= ring.cap
         /\ AvailableRead(ring) + AvailableWrite(ring) = ring.cap
         /\ Len(unread) = AvailableRead(ring) /\ unread \in Seq(Positions)
<1>1. RingInv(ring) /\ Len(unread) = AvailableRead(ring) /\ unread \in Seq(Positions)
  BY DEF IInv, TypeOK, Positions
<1> QED
  BY <1>1 DEF RingInv, Ring, InBounds, NullRing, EmptyRing, AvailableRead, AvailableWrite

(* A buffer is never larger than what the system grants.                   *)
CapacityInv == ring.cap \in 0 .. MaxCapacity

(* A call that filled the buffer and goes on, with neither an error nor    *)
(* the end of the stream, filled all of it.                                *)
FilledOnce ==
  pc = "decode" /\ gotPartial /\ stream.kind = "gzip" /\ ~Bad(stream)
                /\ status # "STREAM_FINISHED"
    => AvailableWrite(ring) = 0

GrowthInv == CapacityInv /\ FilledOnce

(* A read longer than an unsigned int is cut to one.                       *)
ReadsAreNotCut == MaxCapacity < UIntModulus

LEMMA GrownCapacity ==
  ASSUME NEW b, RingInv(b), b.cap \in 0 .. MaxCapacity
  PROVE  /\ Grown(b).cap \in 0 .. MaxCapacity
         /\ Grown(b).cap > b.cap => b.cap # 0
<1>1. b.cap \in Nat
  BY DEF RingInv, Ring
<1>2. PICK new : new = (2 * b.cap) % SizeModulus
  OBVIOUS
<1>3. new \in Nat /\ (b.cap = 0 => new = 0)
  BY <1>1, <1>2, PageAssumption
<1>4. CASE Grown(b) = b
  BY <1>1, <1>4
<1>5. CASE b.cap < new /\ Granted(new) /\ Grown(b) = EmptyRing(PageCeil(new))
  <2>1. PageCeil(new) \in 1 .. MaxCapacity
    BY <1>3, <1>5, CreatableSize DEF Granted
  <2>2. Grown(b).cap = PageCeil(new)
    BY <1>5 DEF EmptyRing
  <2>3. b.cap # 0
    BY <1>1, <1>3, <1>5
  <2> QED
    BY <2>1, <2>2, <2>3
<1> QED
  BY <1>2, <1>4, <1>5 DEF Grown

LEMMA GrowthInit == Init => GrowthInv
<1> SUFFICES ASSUME Init PROVE GrowthInv
  OBVIOUS
<1>1. PICK size \in BufferSizes :
        IF Granted(size) THEN ring = EmptyRing(PageCeil(size)) ELSE ring = NullRing
  BY DEF Init
<1>2. CASE Granted(size)
  <2>1. PageCeil(size) \in 1 .. MaxCapacity
    BY <1>2, CreatableSize, ReaderAssumption, PageAssumption DEF Granted
  <2> QED
    BY <1>1, <1>2, <2>1 DEF GrowthInv, CapacityInv, FilledOnce, Init, EmptyRing
<1>3. CASE ~Granted(size)
  BY <1>1, <1>3, PageAssumption
     DEF GrowthInv, CapacityInv, FilledOnce, Init, NullRing, EmptyRing
<1> QED
  BY <1>2, <1>3

(* What fill_buffer() leaves of a buffer that a read can ask for whole.    *)
LEMMA FillsAll ==
  ASSUME IInv, ReadsAreNotCut, NEW b, RingInv(b), b.cap \in 0 .. MaxCapacity,
         NEW u \in Seq(Positions), Len(u) = AvailableRead(b), FillBuffer(b, u),
         stream.kind = "gzip"
  PROVE  /\ Bad(stream) => Bad(stream')
         /\ ~Bad(stream') /\ status' # "STREAM_FINISHED" => AvailableWrite(ring') = 0
<1>1. /\ env.file.len \in Nat
      /\ b \in Ring /\ AvailableWrite(b) \in Nat /\ AvailableWrite(b) <= b.cap
      /\ StreamInv(stream, env.file.len)
  BY FileFacts
     DEF IInv, RingInv, Ring, InBounds, AvailableWrite, AvailableRead, NullRing, EmptyRing
<1>2. AvailableWrite(b) < UIntModulus
  BY <1>1, UIntAssumption, PageAssumption DEF ReadsAreNotCut
<1>3. PICK r : r = Filled(b)
  OBVIOUS
<1>4. /\ Bad(stream) => Bad(r.s)
      /\ ~Bad(r.s) /\ ~r.s.past => r.bytes = AvailableWrite(b)
  BY <1>1, <1>2, <1>3, GzipReads DEF Filled
<1>5. /\ stream' = r.s
      /\ Commits(b) => ring' = CommitWrite(b, r.bytes)
      /\ status' = IF Good(r.s) THEN status
                   ELSE IF Eof(r.s) THEN "STREAM_FINISHED" ELSE "STREAM_ERROR"
      /\ Commits(b) <=> Good(r.s) \/ Eof(r.s)
  BY <1>3 DEF FillBuffer, Commits
<1>6. r.s.kind = "gzip"
  BY <1>1, <1>3, ReadWorks DEF Filled
<1>7. ASSUME ~Bad(stream'), status' # "STREAM_FINISHED"
      PROVE  AvailableWrite(ring') = 0
  <2>1. ~Bad(r.s) /\ ~r.s.past /\ ring' = CommitWrite(b, r.bytes)
    BY <1>5, <1>6, <1>7 DEF Good, Eof
  <2>2. ring' = CommitWrite(b, AvailableWrite(b))
    BY <1>4, <2>1
  <2>3. /\ AvailableRead(ring') = AvailableRead(b) + AvailableWrite(b)
        /\ ring'.cap = b.cap
    BY <1>1, <2>2, RingWrites
  <2> QED
    BY <1>1, <2>3 DEF AvailableWrite, AvailableRead, Ring
<1> QED
  BY <1>4, <1>5, <1>7

LEMMA ToFillWorks ==
  ASSUME RingInv(ring), unread \in Seq(Positions), Len(unread) = AvailableRead(ring),
         NEW b, b = ToFill, NEW kept, kept = IF b.cap = ring.cap THEN unread ELSE <<>>
  PROVE  /\ RingInv(b) /\ kept \in Seq(Positions) /\ Len(kept) = AvailableRead(b)
         /\ ring.cap \in 0 .. MaxCapacity => b.cap \in 0 .. MaxCapacity
<1>1. CASE b = ring
  BY <1>1
<1>2. CASE b = Grown(ring)
  <2>1. b.cap = ring.cap => b = ring
    BY <1>2, GrownRing
  <2>2. b.cap # ring.cap => kept = <<>> /\ AvailableRead(b) = 0
    BY <1>2, GrownRing
  <2>3. RingInv(b)
    BY <1>2, GrownRing
  <2>4. <<>> \in Seq(Positions) /\ Len(<<>>) = 0
    OBVIOUS
  <2>5. ring.cap \in 0 .. MaxCapacity => b.cap \in 0 .. MaxCapacity
    BY <1>2, GrownCapacity
  <2> QED
    BY <1>1, <2>1, <2>2, <2>3, <2>4, <2>5
<1> QED
  BY <1>1, <1>2 DEF ToFill

LEMMA GrowthStep ==
  ASSUME IInv, GrowthInv, ReadsAreNotCut, [Next]_vars
  PROVE  GrowthInv'
<1>1. /\ RingInv(ring) /\ ring.cap \in 0 .. MaxCapacity /\ unread \in Seq(Positions)
      /\ Len(unread) = AvailableRead(ring)
  BY RingNat DEF IInv, GrowthInv, CapacityInv
<1>2. ASSUME ring'.cap = ring.cap, pc' # "decode" \/ ~gotPartial'
      PROVE  GrowthInv'
  BY <1>1, <1>2 DEF GrowthInv, CapacityInv, FilledOnce
<1>3. CASE Deref
  <2>1. CASE UNCHANGED ring /\ pc' # "decode"
    BY <1>2, <2>1
  <2>2. CASE /\ FillBuffer(ring, unread)
             /\ IF NotFinished(status') THEN Enter(ring') ELSE pc' = "idle"
    <3>1. ring'.cap = ring.cap
      BY <1>1, <2>2, FillWorks DEF IInv
    <3> QED
      BY <1>2, <2>2, <3>1 DEF Enter
  <2> QED
    BY <1>3, <2>1, <2>2 DEF Deref, Return, Abort
<1>4. CASE Increment
  BY <1>2, <1>4 DEF Increment, Enter
<1>5. CASE ClearStatus
  BY <1>2, <1>5 DEF ClearStatus
<1>6. CASE DecodeOk
  <2>1. ring' = CommitRead(ring, MessageSize(Input)) /\ pc' = "idle"
    BY <1>6 DEF DecodeOk, Return
  <2>2. ring'.cap = ring.cap
    BY <2>1 DEF CommitRead
  <2> QED
    BY <1>2, <2>1, <2>2
<1>7. CASE DecodeFinished
  BY <1>2, <1>7 DEF DecodeFinished, Return
<1>8. CASE DecodeError
  BY <1>2, <1>8 DEF DecodeError, Return
<1>9. CASE DecodeMore
  <2>1. PICK b, kept : b = ToFill /\ kept = IF b.cap = ring.cap THEN unread ELSE <<>>
    OBVIOUS
  <2>2. CASE Abort
    BY <1>2, <2>2 DEF Abort
  <2>3. CASE /\ Refill(b, kept)
             /\ UNCHANGED <<env, pc, decoded, returned>>
    <3>1. /\ RingInv(b) /\ b.cap \in 0 .. MaxCapacity
          /\ kept \in Seq(Positions) /\ Len(kept) = AvailableRead(b)
      BY <1>1, <2>1, ToFillWorks
    <3>2. FillBuffer(b, kept)
      BY <2>3 DEF Refill
    <3>3. ring'.cap = b.cap /\ stream'.kind = stream.kind
      BY <3>1, <3>2, FillWorks DEF IInv
    <3>4. FilledOnce'
      <4>1. stream.kind = "gzip" /\ ~Bad(stream') /\ status' # "STREAM_FINISHED"
            => AvailableWrite(ring') = 0
        BY <3>1, <3>2, FillsAll
      <4> QED
        BY <3>3, <4>1 DEF FilledOnce
    <3> QED
      BY <3>1, <3>3, <3>4 DEF GrowthInv, CapacityInv
  <2> QED
    BY <1>9, <2>1, <2>2, <2>3 DEF DecodeMore
<1>10. CASE UNCHANGED vars
  BY <1>10 DEF vars, locals, GrowthInv, CapacityInv, FilledOnce
<1> QED
  BY <1>3, <1>4, <1>5, <1>6, <1>7, <1>8, <1>9, <1>10 DEF Next, Decoding

(* The buffer grows in decode_one() only, the second time that a message   *)
(* is cut short there, and by then it is full: as long as a read can ask   *)
(* for all of a buffer, only a message that is too large for it, or a      *)
(* stream that failed, makes it grow and drop what it holds.               *)
THEOREM GrowthIsForced == ASSUME ReadsAreNotCut PROVE Spec => GrowsOnlyWhenFull
<1> DEFINE Allowed == ring'.cap > ring.cap =>
                        \/ stream.kind = "bzip2"
                        \/ Bad(stream)
                        \/ unread # <<>> /\ MessageSize(unread) > ring.cap
<1>1. IInv /\ GrowthInv /\ [Next]_vars => [Allowed]_vars
  <2> SUFFICES ASSUME IInv, GrowthInv, Next, ring'.cap > ring.cap,
                      stream.kind # "bzip2", ~Bad(stream)
               PROVE  unread # <<>> /\ MessageSize(unread) > ring.cap
    OBVIOUS
  <2>1. /\ ring.cap \in Nat /\ RingInv(ring) /\ ring.cap \in 0 .. MaxCapacity
        /\ unread \in Seq(Positions) /\ Len(unread) = AvailableRead(ring)
        /\ AvailableRead(ring) + AvailableWrite(ring) = ring.cap
    BY RingNat DEF IInv, GrowthInv, CapacityInv
  <2>2. ring'.cap # ring.cap
    BY <2>1
  <2>3. stream.kind = "gzip"
    BY DEF IInv, StreamInv, StreamType
  <2>4. ~Deref
    <3>1. FillBuffer(ring, unread) => ring'.cap = ring.cap
      BY <2>1, FillWorks DEF IInv
    <3> QED
      BY <2>2, <3>1 DEF Deref, Abort
  <2>5. ~Increment /\ ~ClearStatus /\ ~DecodeFinished /\ ~DecodeError
    BY <2>2 DEF Increment, ClearStatus, DecodeFinished, DecodeError
  <2>6. ~DecodeOk
    <3>1. \A n : CommitRead(ring, n).cap = ring.cap
      BY <2>1 DEF RingInv, Ring, CommitRead
    <3> QED
      BY <2>2, <3>1 DEF DecodeOk
  <2>7. DecodeMore
    BY <2>4, <2>5, <2>6 DEF Next, Decoding
  <2>8. /\ pc = "decode" /\ IsPartial(unread) /\ status # "STREAM_FINISHED"
    BY <2>7, InputIsUnread DEF DecodeMore, IInv
  <2>9. ring'.cap = ToFill.cap
    <3>1. PICK b, kept : b = ToFill /\ kept = IF b.cap = ring.cap THEN unread ELSE <<>>
      OBVIOUS
    <3>2. FillBuffer(b, kept)
      BY <2>2, <2>7, <3>1 DEF DecodeMore, Abort, Refill
    <3>3. RingInv(b) /\ kept \in Seq(Positions) /\ Len(kept) = AvailableRead(b)
      BY <2>1, <3>1, ToFillWorks
    <3> QED
      BY <3>1, <3>2, <3>3, FillWorks DEF IInv
  <2>10. gotPartial /\ ring.cap # 0
    BY <2>1, <2>2, <2>9, GrownCapacity DEF ToFill
  <2>11. Len(unread) = ring.cap
    BY <2>1, <2>3, <2>8, <2>10 DEF GrowthInv, FilledOnce
  <2>12. unread # <<>>
    BY <2>10, <2>11
  <2>13. MessageSize(unread) \in Nat
    <3>1. unread[1] \in Positions
      BY <2>1, <2>12
    <3> QED
      BY <3>1, FileFacts DEF MessageSize, IInv
  <2> QED
    BY <2>1, <2>8, <2>11, <2>12, <2>13 DEF IsPartial, IsWhole
<1>2. IInv /\ GrowthInv /\ [Next]_vars => GrowthInv'
  BY GrowthStep
<1>3. GrowsOnlyWhenFull <=> [][Allowed]_vars
  BY DEF GrowsOnlyWhenFull
<1> HIDE DEF Allowed
<1> QED
  BY <1>1, <1>2, <1>3, GrowthInit, Invariance, PTL DEF Spec

-----------------------------------------------------------------------------
(* What the buffer shows was read from the stream.                         *)
HoldsRead == Len(unread) <= stream.pos

(* A buffer is a number of pages.                                          *)
WholePages == ring.cap % PageSize = 0

(* A reader without memory never says that it is OK.                       *)
HasMemory == status = "OK" => ring.cap # 0

BufferInv == HoldsRead /\ WholePages /\ HasMemory

LEMMA GrantedPages ==
  ASSUME NEW n \in 0 .. SizeModulus - 1, Granted(n)
  PROVE  PageCeil(n) % PageSize = 0
<1>1. PICK h \in Nat \ {0} : PageCeil(n) = PageSize * h
  BY CeilRounds DEF Granted, Creatable
<1> QED
  BY <1>1, QuotientOfProduct, PageAssumption

LEMMA GrownPages ==
  ASSUME NEW b, RingInv(b), b.cap % PageSize = 0
  PROVE  Grown(b).cap % PageSize = 0 /\ (b.cap # 0 => Grown(b).cap # 0)
<1>1. b.cap \in Nat
  BY DEF RingInv, Ring
<1>2. PICK new \in 0 .. SizeModulus - 1 : new = (2 * b.cap) % SizeModulus
  BY <1>1, PageAssumption
<1>3. CASE Grown(b) = b
  BY <1>3
<1>4. CASE b.cap < new /\ Granted(new) /\ Grown(b) = EmptyRing(PageCeil(new))
  <2>1. Grown(b).cap = PageCeil(new)
    BY <1>4 DEF EmptyRing
  <2>2. PageCeil(new) % PageSize = 0
    BY <1>4, GrantedPages
  <2>3. PageCeil(new) # 0
    BY <1>2, <1>4, CreatableSize, PageAssumption DEF Granted
  <2> QED
    BY <2>1, <2>2, <2>3
<1> QED
  BY <1>2, <1>3, <1>4 DEF Grown

LEMMA BufferInit == Init => BufferInv
<1> SUFFICES ASSUME Init PROVE BufferInv
  OBVIOUS
<1>1. PICK size \in BufferSizes :
        IF Granted(size) THEN ring = EmptyRing(PageCeil(size)) ELSE ring = NullRing
  BY DEF Init
<1>2. ring.cap % PageSize = 0
  <2>1. CASE Granted(size)
    <3>1. PageCeil(size) % PageSize = 0
      BY <2>1, GrantedPages, ReaderAssumption
    <3> QED
      BY <1>1, <2>1, <3>1 DEF EmptyRing
  <2>2. CASE ~Granted(size)
    <3>1. ring.cap = 0
      BY <1>1, <2>2 DEF NullRing, EmptyRing
    <3> QED
      BY <3>1, PageAssumption
  <2> QED
    BY <2>1, <2>2
<1>3. Len(unread) = 0 /\ stream.pos = 0
  BY DEF Init, Opened
<1>4. HasMemory
  BY DEF Init, IsNull, HasMemory
<1> QED
  BY <1>2, <1>3, <1>4 DEF BufferInv, HoldsRead, WholePages

(* A fill adds to what is shown no more than it reads.                     *)
LEMMA FillHolds ==
  ASSUME IInv, NEW b, RingInv(b), NEW u \in Seq(Positions), Len(u) = AvailableRead(b),
         FillBuffer(b, u), Len(u) <= stream.pos
  PROVE  Len(unread') <= stream'.pos /\ (status' = "OK" => status = "OK")
<1>1. /\ env.file.len \in Nat /\ AvailableWrite(b) \in Nat
      /\ StreamInv(stream, env.file.len) /\ stream.pos \in Nat /\ Len(u) \in Nat
  <2>1. AvailableWrite(b) \in Nat
    BY DEF RingInv, Ring, InBounds, AvailableWrite, AvailableRead, NullRing, EmptyRing
  <2>2. env.file.len \in Nat /\ StreamInv(stream, env.file.len)
    BY FileFacts DEF IInv
  <2>3. stream.pos \in Nat
    BY <2>2 DEF StreamInv, StreamType
  <2>4. Len(u) \in Nat
    OBVIOUS
  <2> QED
    BY <2>1, <2>2, <2>3, <2>4
<1>2. PICK r : r = Filled(b)
  OBVIOUS
<1>3. r.bytes \in Nat /\ r.s.pos = stream.pos + r.bytes
  BY <1>1, <1>2, ReadWorks DEF Filled
<1>4. /\ stream' = r.s
      /\ ~Commits(b) => unread' = u
      /\ status' = IF Good(r.s) THEN status
                   ELSE IF Eof(r.s) THEN "STREAM_FINISHED" ELSE "STREAM_ERROR"
  BY <1>2 DEF FillBuffer
<1>5. CASE Drops(b)
  BY <1>1, <1>3, <1>4, <1>5 DEF Drops
<1>6. CASE ~Drops(b)
  <2>1. PICK n \in Nat : stream'.pos = stream.pos + n /\ Len(unread') = Len(u) + n
    BY <1>6, FillWorks DEF IInv
  <2> QED
    BY <1>1, <1>4, <2>1
<1> QED
  BY <1>5, <1>6

LEMMA BufferStep ==
  ASSUME IInv, BufferInv, [Next]_vars
  PROVE  BufferInv'
<1>1. /\ RingInv(ring) /\ unread \in Seq(Positions) /\ Len(unread) = AvailableRead(ring)
      /\ Len(unread) <= stream.pos /\ ring.cap % PageSize = 0
      /\ stream.pos \in Nat
  BY RingNat DEF IInv, BufferInv, HoldsRead, WholePages, StreamInv, StreamType
<1>2. ASSUME ring'.cap = ring.cap, status' = "OK" => status = "OK",
             Len(unread') <= stream'.pos
      PROVE  BufferInv'
  BY <1>2 DEF BufferInv, HoldsRead, WholePages, HasMemory
<1>3. CASE Deref
  <2>1. CASE UNCHANGED <<ring, unread, stream, status>>
    BY <1>1, <1>2, <2>1
  <2>2. CASE FillBuffer(ring, unread)
    <3>1. ring'.cap = ring.cap
      BY <1>1, <2>2, FillWorks DEF IInv
    <3>2. Len(unread') <= stream'.pos /\ (status' = "OK" => status = "OK")
      BY <1>1, <2>2, FillHolds
    <3> QED
      BY <1>2, <3>1, <3>2
  <2> QED
    BY <1>3, <2>1, <2>2 DEF Deref, Abort
<1>4. CASE Increment
  BY <1>1, <1>2, <1>4 DEF Increment
<1>5. CASE ClearStatus
  <2>1. stream'.pos = stream.pos
    BY <1>5 DEF ClearStatus, IInv, StreamInv, StreamType
  <2> QED
    BY <1>1, <1>2, <1>5, <2>1 DEF ClearStatus
<1>6. CASE DecodeOk
  <2>1. Input = unread /\ UNCHANGED <<stream, status>>
    BY <1>6, InputIsUnread DEF IInv, DecodeOk
  <2>2. \A n : CommitRead(ring, n).cap = ring.cap
    BY <1>1 DEF RingInv, Ring, CommitRead
  <2>3. PICK size : size = MessageSize(unread) /\ ring' = CommitRead(ring, size)
                    /\ unread' = SubSeq(unread, size + 1, Len(unread))
    BY <1>6, <2>1 DEF DecodeOk
  <2>4. unread # <<>> /\ size <= Len(unread)
    BY <1>6, <2>1, <2>3 DEF DecodeOk, IsWhole
  <2>5. size \in Nat
    <3>1. unread[1] \in Positions
      BY <1>1, <2>4
    <3> QED
      BY <2>3, <3>1, FileFacts DEF MessageSize, IInv
  <2>6. Len(unread') = Len(unread) - size
    BY <1>1, <2>3, <2>4, <2>5, Dropped
  <2>7. Len(unread') <= stream'.pos
    BY <1>1, <2>1, <2>5, <2>6
  <2> QED
    BY <1>2, <2>1, <2>2, <2>3, <2>7
<1>7. CASE DecodeFinished
  BY <1>1, <1>2, <1>7 DEF DecodeFinished
<1>8. CASE DecodeError
  BY <1>1, <1>2, <1>8 DEF DecodeError
<1>9. CASE DecodeMore
  <2>1. PICK b, kept : b = ToFill /\ kept = IF b.cap = ring.cap THEN unread ELSE <<>>
    OBVIOUS
  <2>2. CASE Abort
    BY <1>1, <1>2, <2>2 DEF Abort
  <2>3. CASE Refill(b, kept)
    <3>1. RingInv(b) /\ kept \in Seq(Positions) /\ Len(kept) = AvailableRead(b)
      BY <1>1, <2>1, ToFillWorks
    <3>2. Len(kept) <= stream.pos
      BY <1>1, <2>1
    <3>3. FillBuffer(b, kept)
      BY <2>3 DEF Refill
    <3>4. ring'.cap = b.cap
      BY <3>1, <3>3, FillWorks DEF IInv
    <3>5. Len(unread') <= stream'.pos /\ (status' = "OK" => status = "OK")
      BY <3>1, <3>2, <3>3, FillHolds
    <3>6. b.cap % PageSize = 0 /\ (ring.cap # 0 => b.cap # 0)
      BY <1>1, <2>1, GrownPages DEF ToFill
    <3> QED
      BY <3>4, <3>5, <3>6 DEF BufferInv, HoldsRead, WholePages, HasMemory
  <2> QED
    BY <1>9, <2>1, <2>2, <2>3 DEF DecodeMore
<1>10. CASE UNCHANGED vars
  BY <1>1, <1>2, <1>10 DEF vars
<1> QED
  BY <1>3, <1>4, <1>5, <1>6, <1>7, <1>8, <1>9, <1>10 DEF Next, Decoding

LEMMA TwiceFits ==
  ASSUME NEW c \in Nat, NEW n \in Nat, NEW limit \in Nat, NEW max \in Nat, NEW m \in Nat,
         c <= n, limit >= 2 * n, limit <= max, 4 * n < m
  PROVE  2 * c \in Nat /\ 2 * c <= limit /\ 2 * c <= max /\ 4 * c < m
  OBVIOUS

(* Twice a whole number of pages needs no rounding.                        *)
LEMMA TwicePages ==
  ASSUME NEW c \in Nat, c % PageSize = 0
  PROVE  PageCeil(2 * c) = 2 * c
<1>1. PICK q, r \in Nat : q = c \div PageSize /\ r = c % PageSize
                           /\ c = PageSize * q + r /\ r < PageSize
  BY DivMod, PageAssumption, Zenon
<1>2. 2 * c = PageSize * (2 * q)
  <2>1. c = PageSize * q
    <3>1. PageSize * q \in Nat
      BY PageAssumption
    <3> QED
      BY <1>1, <3>1
  <2>2. 2 * (PageSize * q) = PageSize * (2 * q)
    BY PageAssumption, SMT
  <2> QED
    BY <2>1, <2>2, Zenon
<1>3. (2 * c) % PageSize = 0
  <2>1. PICK d \in Nat : d = 2 * q
    OBVIOUS
  <2>2. (PageSize * d) % PageSize = 0
    BY QuotientOfProduct, PageAssumption
  <2> QED
    BY <1>2, <2>1, <2>2, Zenon
<1> QED
  BY <1>3 DEF PageCeil

(* decode_one() does not turn in place for want of room.  After a fill     *)
(* that left the stream good the buffer is full, so it holds no more than  *)
(* the stream has, and its double is a size that reserve() gets.           *)
THEOREM GrowthSucceeds == ASSUME ReadsAreNotCut PROVE Spec => []FullBufferGrows
<1>1. IInv /\ GrowthInv /\ BufferInv => FullBufferGrows
  <2> SUFFICES ASSUME IInv, GrowthInv, BufferInv,
                      pc = "decode", status = "OK", gotPartial,
                      stream.kind = "gzip", ~Bad(stream), MemoryForStream
               PROVE  Grown(ring).cap > ring.cap
    BY DEF FullBufferGrows
  <2>1. /\ ring.cap \in Nat \ {0} /\ ring.cap % PageSize = 0
        /\ Len(unread) = ring.cap /\ Len(unread) <= stream.pos
    BY RingNat DEF GrowthInv, FilledOnce, BufferInv, HoldsRead, WholePages, HasMemory
  <2>2. stream.pos \in Nat /\ stream.pos <= env.file.len /\ env.file.len \in Nat
    BY FileFacts DEF IInv, StreamInv, StreamType
  <2>3. env.limit \in 0 .. MaxCapacity
    BY ReaderAssumption DEF IInv, TypeOK
  <2>4. /\ 2 * ring.cap \in Nat /\ 2 * ring.cap <= env.limit
        /\ 2 * ring.cap <= MaxCapacity /\ 4 * ring.cap < SizeModulus
    <3>1. ring.cap <= stream.pos
      BY <2>1
    <3>2. env.limit >= 2 * env.file.len /\ 4 * env.file.len < SizeModulus
      BY DEF MemoryForStream
    <3>3. env.limit \in Nat /\ env.limit <= MaxCapacity /\ MaxCapacity \in Nat
      BY <2>3, PageAssumption
    <3>4. ring.cap \in Nat /\ ring.cap <= env.file.len
      BY <2>1, <2>2, <3>1
    <3> QED
      BY <2>2, <3>2, <3>3, <3>4, PageAssumption, TwiceFits
  <2>5. (2 * ring.cap) % SizeModulus = 2 * ring.cap
    <3>1. 2 * ring.cap < SizeModulus /\ SizeModulus \in Nat \ {0}
      BY <2>1, <2>4, PageAssumption
    <3> QED
      BY <2>4, <3>1, RestOfSmall
  <2>6. (2 * (2 * ring.cap)) % SizeModulus = 4 * ring.cap
    <3>1. PICK d \in Nat : d = 2 * (2 * ring.cap) /\ d = 4 * ring.cap
      BY <2>1
    <3>2. d < SizeModulus /\ SizeModulus \in Nat \ {0}
      BY <2>4, <3>1, PageAssumption
    <3>3. d % SizeModulus = d
      BY <3>2, RestOfSmall
    <3> QED
      BY <3>1, <3>3, Zenon
  <2>7. PageCeil(2 * ring.cap) = 2 * ring.cap
    BY <2>1, TwicePages
  <2>8. ~Refused(2 * ring.cap)
    BY <2>1, <2>6 DEF Refused
  <2>9. Granted(2 * ring.cap)
    BY <2>4, <2>7, <2>8 DEF Granted, Creatable
  <2>10. Grown(ring) = EmptyRing(2 * ring.cap)
    BY <2>1, <2>5, <2>7, <2>9 DEF Grown
  <2> QED
    BY <2>1, <2>10 DEF EmptyRing
<1>2. IInv /\ GrowthInv /\ [Next]_vars => GrowthInv'
  BY GrowthStep
<1>3. IInv /\ BufferInv /\ [Next]_vars => BufferInv'
  BY BufferStep
<1> QED
  BY <1>1, <1>2, <1>3, GrowthInit, BufferInit, Invariance, PTL DEF Spec
=============================================================================
