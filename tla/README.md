# A TLA+ verification of libparsebgp-cpp

libparsebgp-cpp wraps the C library libparsebgp in C++: it reads MRT files
(gzip or bzip2 compressed table dumps of BGP routers) message by message and
gives typed access to what was decoded. This directory holds TLA+ modules of
the library's own logic, TLC configurations that check them on small instances
and TLAPS proofs for every value of the constants: of every safety property
that a run finds to hold, of the four refinements of abstract specifications,
and of the AS number tests. Liveness is left to TLC.

Paths below are relative to the repository (`include/`, `src/`, `tests/`).

## 1. Inventory

The library is sequential: one thread, no locks, no callbacks that re-enter.
What is hard in it is not interleaving of threads but the order of calls by
its user, memory shared between two parts (one buffer, two mappings of it; one
message, many views of it), failures in the middle of a sequence of system
calls, and a loop whose end depends on three statuses.

| Part | State | Operations | Talks to | Correct when |
|---|---|---|---|---|
| `MirroredRingBuffer` (io.hpp, io.cpp) | `buf_`, `left_`, `right_`; memory mapped twice | construct, destroy, move, `reserve`, `prepare_*`, `commit_*` | the kernel | pointers in bounds, a queue of bytes, one owner per mapping |
| `mirror_create`/`mirror_destroy` (io.cpp) | a descriptor and an address range | six system calls and a fail label | the kernel | all or nothing, save what the kernel does not take back; both halves show the same bytes |
| `GzipStream`, `Bzip2Stream` (io.hpp, io.cpp) | C handle, `status_` | open, `read`, `good`/`eof`/`bad`, `clear_status` | zlib, libbz2 | every byte or a status that tells why not |
| `Reader`, its `Iterator` (io.hpp) | `started_`, stream, buffer, message, `status_` | `message()`, `++`, comparison with the sentinel | stream, buffer, decoder | messages of the stream in order, once; calls return |
| The loop (tests/dump.cpp) | iterator position | test, `*`, body, `++`, `break` and another loop | the reader | every message, or an error |
| Its body (tests/dump.cpp) | five nested iterators | accessors, range loops, printing | views | every hop and community, once and in order |
| MRT and table dump views (mrt.hpp, mrt.cpp) | a pointer into the decoded message | `to_*`, fields | decoded message | no union member is read that was not filled |
| Path attributes (bgp/update.*) | the same | `has_x()`, `x()` | decoded message | the same |
| `CPtrRange` (utils.hpp) | an element pointer | iterator arithmetic | views | random access |
| `CPtrView` and owners: `Message`, `Options`, streams | the C pointer | construct, destroy, move | C libraries | each C object freed once |
| `Asn` (bgp/common.hpp) | a 32-bit number | tests for private, reserved, public | | the tests select the ranges of the RFCs they name |
| `Options`, `bgp::Options` (opts.*, bgp/opts.*) | settings in a C object; a pointer into it | setters, getters, `bgp()` | owners | options are values, whoever holds them |
| Enumerations, `Error`, logger | plain values | tests, output | | |

`bgp/common.cpp` is in no build target; `MpReach`, `MpUnreach` and the
originator id are declared but cannot be reached (their accessors have no
definition); `Reader::release_message()` cannot be instantiated, because
`parsebgp::swap` takes `Message` by value and `Message` is not copyable.

The hazards, each at its line and with the properties that are about it, are in
`PROJECT.json`.

## 2. Modules

| Module | Models | Uses |
|---|---|---|
| `RingPointers` | the pointer arithmetic of one buffer and the size arithmetic of `mirror_create`, as operators on a record | |
| `ByteFifo` | what a byte buffer promises: one bounded queue per object (abstract) | |
| `MirroredRingBuffer` | several buffer objects, their mappings and the memory in them | `RingPointers`, `ByteFifo` |
| `RingPointers_proofs` | lemmas about division, rounding to pages and commits | `RingPointers` |
| `MirroredRingBuffer_proofs` | theorems about the buffers | `RingPointers_proofs` |
| `MirrorAtOnce` | creation and destruction in one step each (abstract) | `RingPointers` |
| `MirrorCreate` | `mirror_create`, one system call per step | `RingPointers`, `MirrorAtOnce` |
| `MirrorCreate_proofs` | theorems about it | `RingPointers_proofs` |
| `Streams` | the two streams as operators on a record; zlib and libbz2 as far as the wrappers look at them | |
| `Reader` | `Reader::message`, `decode_one`, `fill_buffer`, `Iterator::operator++` | `RingPointers`, `Streams` |
| `Reader_proofs` | theorems about it | `RingPointers_proofs` |
| `MessageSource` | what a loop over the messages of a file promises (abstract) | |
| `RangeLoop` | the loop of `tests/dump.cpp` around a `Reader` | `Reader`, `MessageSource` |
| `RangeLoop_proofs` | a theorem about it | `Reader_proofs` |
| `TableDump` | views over one decoded message, and iterators, with any client | |
| `Dump` | the body of the loop of `tests/dump.cpp`, one client of the views | `TableDump` |
| `TableDump_proofs` | theorems about both | `Dump` |
| `Handles` | the owning classes over `CPtrView`: construction, opening, destruction, moves, `swap` | |
| `OptionsByValue` | what a program may think its options are: values (abstract) | |
| `OptionsSettings` | settings in the C objects of options, setters, and the views of `bgp()` | `Handles`, `OptionsByValue` |
| `Handles_proofs` | theorems about handles and options | `OptionsSettings` |
| `Asn` | the tests of an AS number, with theorems | |
| `MC*` | constants for TLC | |

### How state and actions correspond to the code

*Ring.* `cap`, `left` and `right` are `capacity()`, `left_ - buf_.data()` and
`right_ - buf_.data()`. An offset of `cap` or more is an address in the second
copy; `Cell` folds it back, which is what the double mapping does. Because
`MirroredRingBuffer` keeps the cells and not a queue, "what is unread is not
overwritten" is checked on memory. `Construct` may fail for any capacity (the
kernel may refuse), `Reserve` is the step of a `reserve()` that grew; one that
does nothing or fails changes no state. `FillWriteSpan` is the caller's
`memcpy` into the span of `prepare_write()`.

*System calls.* In `MirrorCreate` the address space is a set of ranges that do
not overlap, and `mmap()` may choose any that is free. A range is an array of
pages; each shows a page of the file, the anonymous reservation, or nothing. A
failed fixed mapping may already have unmapped what was there. `close()` releases
the descriptor also when it fails, as on Linux. An error in the clean-up or in
`mirror_destroy()` is looked at by an assertion only: with assertions (`asserts`)
it ends the run (`aborted`), without them control goes on as if nothing had
happened (`AfterFailure`), and a range that `munmap()` refused stays mapped
(`stuck` remembers which). `MirroredRingBuffer` and `Reader` take a creation for
one step that succeeds on a `Creatable` request or changes nothing;
`MirrorAtOnce` says just that, and `MirrorCreate` implements it in either build.
For the caller a destruction gives the span up, whether the kernel takes it or
not; so in `MirroredRingBuffer` a mapping that was handed to `mirror_destroy()`
is given up, and a refused `munmap()` is the subject of `MirrorCreate` alone.

*Streams.* A file is what decompression yields: a length and, possibly, a place
where reading fails. `LibraryRead` is `gzread`/`BZ2_bzread` as used here: short
only at the end, an `int` length, errors sticky. `Eof` and `Bad` are the
wrappers' tests with the constants the wrappers use.

*Reader.* `pc = "decode"` is the top of the loop of `decode_one()`; one turn of
it is one action (`DecodeOk`, `DecodeMore`, `DecodeFinished`, `DecodeError`,
the four branches). `Deref` and `Increment` are the calls up to there; the rest
of `message()` is in `Return`. A byte is its position in the stream, so the
contents of the buffer say which bytes are there. The decoder is a function of
the position it starts at: how many bytes the message needs and whether it is
malformed; because every position has an answer, decoding from a wrong
position is visible and not impossible. An assertion is a step to `aborted`
when the build has assertions and is ignored when it has not (`env.asserts`).
`env.limit` is the largest buffer that can be had in the run; a limit of 0 is a
reader whose buffer failed. `ClearStatus` is the user's own access to a stream
that it gave by reference.

*Loop.* `at` is the place in the range-for. Only the loop drives the reader.
`Break` is a `break` in the body, which the one of tests/dump.cpp does not have
and another client may; `Resume` is another range-for over the same reader: `begin()` moves nothing, so the message at hand comes once more
(`MessageSource` has `again` for it) and none is lost. `breaks` only bounds how
often this happens.

*Views.* `TableDump` keeps the chain of views that the client holds. `pc` goes
to `astray` when one is made over a union member, attribute or element that the
decoder did not fill, whatever the build; assertions decide whether the program
gets there. `Decode` reuses the message while views may still be held (`kept`);
any use of one then is `UseKept`. `raw` are the attributes that the options ask
for as bytes: their type is set, so `has_x()` is true, and their parsed member
is taken not to be filled. `ip()` of a peer whose family is neither IPv4 nor IPv6
fails its assertion or, without, gives an empty address (`no_ip`). An iterator
that moved to the end of its range is given up: `--` from there is not modelled.

`Dump` has one step per statement of the body that touches a view; `line` is
the next one and `printed` what was written, as positions. `line = "any"` is
every other client, so the same run checks both.

A subscript `r[i]`, and an iterator `begin() + i`, are one action, `Subscript`;
`due` is where the steps of the iterator so far ought to have led.

*Handles.* `objects` are the C objects that exist, `ptr` is `cptr_`, `alive` the
C++ objects between constructor and destructor. The four classes differ in how
they are built and in the destructor of `GzipStream`, which asserts that
`gzclose_r()` succeeded. It may fail for any open file (`CloseMayFail`): zlib
reports there that the last read met the end of the file in mid-stream, or that
`close()` failed. The object is freed all the same. `MoveAssign` overwrites the
pointer, as `CPtrView`'s does. `CPtrView::is_cptr_null()` (utils.hpp:66) returns
the opposite of its name; nothing calls it and it is not modelled.

*Settings.* `settings` is what is in each C object of class `options`; `view` is
the pointer inside a `bgp::Options`. `Follow` goes with every step of `Handles`:
an object that is created has the defaults, and a view of one that is freed is
dropped, which is the program's duty. `OptionsByValue` knows no C objects: a
move hands the settings over, and a view follows the settings.

*Asn.* A shift is a division by a power of two. The ranges of the comments in
`is_reserved()` are `Reserved`.

## 3. Runs

| Run | Shows | Bounds |
|---|---|---|
| `fifo` | `TypeOK`, `PointersInBounds`, `CommitsNeverAssert`, `OneOwnerEach`; the buffers implement `ByteFifo` with growth that empties (`IsLossyFifo`) | 2 objects, 3 mappings, pages of 2 bytes, capacities 2 and 4, 2 byte values |
| `fifo_growth` | **violated**: they do not implement a queue that keeps its bytes across `reserve()` | the same |
| `mirror_create` | `AllOrNothing`, `BothHalvesMirror`, `AtLeastRequested`; the calls implement creation in one step (`CreatesAtOnce`) | two ranges of addresses, builds with and without assertions; pages of 4 bytes, a 5-bit `size_t`, requests around every boundary |
| `reader` | the nine properties of `Reader` | files of 0, 4 and 6 bytes, messages of 1, 3 or 9 bytes starting anywhere, buffers up to 12 bytes, twice the longest file, or up to 2, a 4-bit `int` |
| `reader_memory_short` | **violated**: a call returns when memory is short | buffers up to 2 bytes |
| `reader_bzip2_end` | **violated**: a call returns at the end of a bzip2 file | |
| `range_loop` | the loop, broken off and resumed, implements `MessageSource` (`LoopGetsMessages`) and ends (`LoopEnds`) | files of 0 and 5 bytes, buffer of 4: every message fits, the buffer wraps; two breaks (`MaxBreaks`) |
| `range_loop_errors` | **violated**: an error after the first message is reported | sound streams |
| `range_loop_asserts` | **violated**: the assertion of `fill_buffer()` never fails | |
| `table_dump` | any client: `ReadsOnlyFilled`, `IteratorsKeepStep`; the program: `PrintsMessage`, `DumpGoesOn` | table dumps and BGP4MP, subtypes 1 to 6, up to 2 entries and 3 elements in a range; no raw attribute, the AS path, or both kinds of communities; an entry with hops and communities; peers of IPv4, IPv6 and neither |
| `handles` | `TypeOK` (no pointer dangles), `OneHolder`, `LeaksOnlyByAssignment`; options are values (`OptionsAreValues`) | 2 messages, 2 gzip streams, 2 `Options`; 3 C objects; one view, one setting of each class with two values |
| `table_dump_distances` | **violated**: `+= 2` moves by two | |

*Why the bounds are enough.* The buffer's arithmetic depends on where `left`
and `right` are in relation to `cap`, and a capacity of 4 has every such case,
pages of 2 the rounded and the exact request; two objects are needed for a
move, a third mapping for the temporary of `reserve()`. A file of 4 bytes with
messages of 1 and 3 around a buffer of 2 has messages that fit, that cross the
end of what was read, that need one growth, and rests of every length; a
message of 9 in a file of 6 makes the buffer grow until a read is longer than
an `int`. A buffer doubles while it is smaller than the stream, so memory for
twice the stream is what growth can ask for. Two handles of a class and a third C object are what it takes to move,
to assign over an object and to have another reuse its place; two options and
one view, to move the settings under it. A second break is the first that
follows a resumed loop. The 5-bit `size_t` of `mirror_create` has requests that
round to 0 and capacities whose double wraps; with two ranges a buffer is created
beside one that `munmap()` did not take back, and a third creation finds none
free. The program's five nested ranges
meet every size of 0, 1 or more at each level. Every run with a liveness
property has a finite state space with no state constraint.

*Violated properties.* Each states what a line of the code, a comment or
tests/dump.cpp says, quoted under `findings` in `PROJECT.json`:
growth drops unread bytes (io.hpp:230); a failed growth is ignored
(io.hpp:408); the end of bzip2 data is not noticed (io.cpp:88); the throw of
tests/dump.cpp:47 is reached for the first message only (io.hpp:368); a stream
error in a cut message runs into the assertion of io.hpp:448; `+=` of
iterators ignores its argument (utils.hpp:148). The passing properties of the
reader exclude exactly these cases and say so: `DecodedInOrder` has `~lost`,
`CallReturns` and `FullBufferGrows` are about gzip streams and about memory for a
buffer of twice the stream (`MemoryForStream`). With just enough for the stream
itself a buffer may fill, fail to double, and spin.
`ReadsOnlyFilled` names the two ways around the assertions that it does not
exclude, a view of an earlier message and a raw attribute. In the same way
`AllOrNothing` names what a build without assertions may leave mapped. Hazards
that are in a model but that its properties make an exception for have no property
in `PROJECT.json` and a note that says so.

### Fairness

`Spec` of `Reader` has weak fairness of `Decoding` only: a call that was made
runs on, because the loop of `decode_one()` waits for nobody; no fairness makes
the user call. `LoopSpec` has weak fairness of the whole loop, which is one
thread; nothing makes a loop that broke off be resumed. `DumpSpec` has weak
fairness of the body (`Main`), not of the arrival of a next message. A turn of the decoding loop that changes nothing (full buffer, nothing
read) is a stuttering step in the model: the fairness is then satisfied by the
loop spinning in place, and the liveness properties fail on it, as they should
for an endless loop.

## 4. Proofs

A theorem `Spec => []P` rests on an inductive invariant `IInv` of its module:
one lemma says that it holds initially, one lemma per action that the action
keeps it, and the last step of the theorem combines them by `PTL`.

**`RingPointers_proofs`** has what several modules need: quotient and rest of
a division (`Division`), that a request that is not refused is rounded up to
the next multiple of the page size and its double fits `size_t`
(`NextMultiple`, `NotRefused`, `CeilRounds`), and that a commit of what fits
keeps a buffer's pointers in bounds.

**`MirroredRingBuffer_proofs`**, for all objects, mappings, byte values, page
sizes, `size_t` widths and capacity bounds that satisfy `PageAssumption` and
`BufferAssumption`:

- `TypeCorrect`: `Spec => []TypeOK`
- `PointersStayInBounds`: `Spec => []PointersInBounds`
- `NoCommitAsserts`: `Spec => []CommitsNeverAssert`
- `EveryMappingHasOneOwner`: `Spec => []OneOwnerEach`
- `ImplementsFifo`: `Spec => IsLossyFifo`

`IInv == TypeOK /\ PointersInBounds /\ OneOwnerEach`. `PointersInBounds` alone
is not inductive: a commit on a buffer without memory has to be excluded by
`TypeOK` (no mapping, no capacity, null pointers), and a move is only harmless
when the source owned what it hands over, which is `OneOwnerEach`. That in turn
needs that a fresh mapping is one that nobody holds. `CommitsNeverAssert`
follows from the bounds, as `right + n <= left + cap < 2 * cap` for every `n`
that fits.

The refinement maps the memory of an object to the queue of cells between
`left` and `right`. A commit of a write appends the span just written, because
the cells of the write span and those of the unread bytes are disjoint
addresses modulo `cap`; a commit of a read drops a beginning, also when both
pointers wrap. A growth, a destruction and what a move does to either object
are the steps with which `ByteFifo` empties or hands over a queue. That a
growth only ever enlarges needs a request to be a value of `size_t`, the third
conjunct of `BufferAssumption`: the parameter of `reserve()` has that type.

**`MirrorCreate_proofs`**, for every page size, width of `size_t`, bound, set of
requests and of address ranges, with or without assertions: `TypeCorrect`, `NothingLeftBehind` (`AllOrNothing`),
`HalvesMirror` (`BothHalvesMirror`), `LargeEnough` (`AtLeastRequested`) and
`ImplementsAtOnce` (`Spec => CreatesAtOnce`). None of these is about the steps in
between, so `Progress` says for each of them what is open and what is mapped,
apart from the ranges that are stuck: before the reservation nothing (`Clean`),
after it one range (`InHand`) with nothing beyond its two halves (`FreeAbove`) and
nothing in the others (`OthersClean`), then the first half, then both. That a
span is not laid over a stuck range is `StuckStay`: what `munmap()` refused still
has a page that is mapped, since a failed fixed mapping drops one half at most, so
the kernel does not choose it. With assertions nothing is stuck while the program
runs. The arithmetic enters once, in the step that accepts a request (`Rounded`,
`Accepted`); the clean-up is right because `open = fd` whenever it starts. In the
refinement all steps
but the `close()` that succeeds and the destruction map to stutters.

**`Reader_proofs`**, for all files, kinds of stream, buffer sizes, limits of
memory, widths of `int` and `size_t`, with or without assertions:

- `ReaderTypeCorrect`: `Spec => []TypeOK`
- `SpansStayCurrent`: `Spec => []SpanIsCurrent`
- `MessagesInOrder`: `Spec => []DecodedInOrder`
- `FinishedAtTheEnd`: `Spec => []FinishedMeansComplete`
- `MessageIsLastDecoded`: `Spec => []ShowsLastDecoded`
- `ErrorsAreFinal`: `Spec => ErrorIsFinal`
- `GrowthIsForced`: `Spec => GrowsOnlyWhenFull`, if `ReadsAreNotCut`
- `GrowthSucceeds`: `Spec => []FullBufferGrows`, if `ReadsAreNotCut`

The strengthening adds: `StreamInv`, a stream knows its place, and one that
read past the end is there; `RingInv`, the buffer is null or in bounds, so that
as many bytes are committed as were read; `EndIsKnown`, only a gzip stream past
its end leads to `STREAM_FINISHED`, without which `FINISHED` with an empty
buffer would say nothing of the rest of the file; `AtHand`, between calls a
message is at hand unless `status_` says otherwise, which is what `*` after `++`
relies on; `Calling`, `*` decodes only once `started_` is set; and `Reported`,
the error returned is the one `status_` holds. `DecodedInOrder` is kept because
the bytes in the buffer are consecutive positions that end where the stream is
(a read appends the next ones, `FillWorks` and `OrderAfterFill`) and the decoder is
given all of them (`InputIsUnread`, by `SpanIsCurrent`).

The two theorems about growth rest on `FilledOnce`: a call that filled a buffer
and goes on, with neither an error nor the end, filled all of it (`GzipReads`,
`FillsAll`). So a message that is then still cut short is larger than the
buffer. `ReadsAreNotCut` (`MaxCapacity < UIntModulus`) says that a length passed
to `gzread` is not cut to 32 bits; it is needed. With a 2-bit `int` and a buffer
of 4 bytes, a read asks for `4 % 4 = 0` bytes, and TLC finds a growth of an empty
buffer. The code has no such bound on its buffers, which is why it is a
hypothesis of these theorems and not an assumption of the module. For
`GrowthSucceeds`, `BufferInv` adds that the buffer shows no more than was read
(`HoldsRead`), so a full one is not larger than the stream; that its capacity is
in whole pages (`WholePages`), so the double needs no rounding; and that a reader
without memory is never `OK` (`HasMemory`), so there is something to double. It
is the step on which a liveness argument would rest: a call turns only by
growing, and the capacity is bounded.

**`RangeLoop_proofs`** has one theorem, `LoopIsGivenMessages`:
`LoopSpec => LoopGetsMessages`, for all files, faults, breaks, limits of memory
and builds, if `GzipOnly` and `EveryMessageFits` (every message fits in the
buffer that the reader starts with, and a read of all of it is an `int`). Both are
what `MessageSource` is promised for, and the run `range_loop` assumes the same
(`PromiseApplies`): a larger message makes the buffer grow and drop bytes, the
end of bzip2 data goes unnoticed. `LoopInv` is on top of the reader's `IInv`:
`WorldInv`, bytes are lost to an error of the stream only and the buffer stays the
one that every message fits in; `CallInv`, what a call in progress may find;
`OverInv`, a decoder error says that the next message is malformed or longer than
the rest of the file; and `IdleInv`, the message at hand is the one that the body
had last (`SameMessage`) or the next one (`NewMessage`). The latter tells, step by
step, whether the body maps to the next message of the source, to one had again
after a break, or to a stutter. `FullHoldsAMessage` shows that the second partial
result, the one that grows, is not reached.

**`TableDump_proofs`**, for all messages, tables of attributes, raw attributes
and builds, under `TableDumpAssumption`; the first three for clients that add and
subtract no more than one at a time (`OneAtATime`; the run `table_dump_distances`
shows what happens else):

- `ViewsTypeCorrect`: `Spec => []TypeOK`
- `AssertionsSuffice`: `Spec => []ReadsOnlyFilled`
- `StepsOfOneAddUp`: `Spec => []IteratorsKeepStep`
- `DumpIsAClient`: `DumpSpec => Spec`
- `PrintsEverything`: `DumpSpec => []PrintsMessage`

The last two need no hypothesis on distances, because the program uses `++` only
(`MoveByOne`): `IInv` holds of it as long as `line` is not `"any"`.

`ReadsOnlyFilled` is not inductive: that `to_rib()` tests only the subtype is
enough because the view it is called on was itself asserted (`DumpIsDump`), and
the ranges of an entry have a size only because entry and segment exist
(`InRange`, with `Depths`: views nest, so they are the fourth and the sixth).

`PrintsEverything` is about places: `Before` orders the hops and communities of a
message, and `Cursor` is the place that the program has reached, read off its
nested iterators and `line`. `DumpInv` says that exactly what is before the cursor
was printed (`UpToCursor`), in its order (`InOrder`), and that every line has the
views that it reads (`LineHasView`). Most steps move the cursor over nothing
(`CursorMoves`: from one place to another with no hop or community in between,
as past the end of a segment); `PrintHop` and `PrintCommunity` move it over one
(`OneMore`). After an assertion the cursor is gone and what remains is that nothing
was skipped (`NothingSkipped`, `DumpStops`).

**`Handles_proofs`**, for all handles and C objects, under
`HandlesAssumption`:

- `PointersValid`: `Spec => []TypeOK`, `FreedOnce`: `Spec => []OneHolder`
- `Leaks`: `Spec => LeaksOnlyByAssignment`

The inductive invariant is `TypeOK /\ OneHolder`; neither is inductive alone.
Destroying a handle, or two messages in `swap`, leaves the others valid only
because no other refers to the same object, and a new object is nobody's only
because every pointer is null or to an object that exists. `Leaks` follows from the invariant action by action: every step
but `MoveAssign` either leaves the pointer somewhere or frees the object.

Of options, for all options, views, settings and values, it has
`ImplementsValues` (`SettingsSpec => OptionsAreValues`) and `ImplementsHandles`
(`SettingsSpec => Spec`, so the theorems about handles hold with settings too).
`OneHolder` makes a setter change one object's settings only; `ViewsLive`, that
no view is of an object that does not exist, makes a new object one that no old
view shows. A step of handles maps to `Create`, `Forget`, `Move` or a stutter.

**`Asn`** proves, for every 32-bit number, `ReservedAsCommented` (the shifts of
`is_reserved()` select exactly the ranges its comments name) and
`PrivateMeetsReserved` (private and reserved ranges are disjoint and meet
without a gap). The numbers are beyond TLC's integers, so there is no run.

*Only model-checked* is liveness: `CallReturns`, `LoopEnds` and `DumpGoesOn`.
Weak fairness speaks of `ENABLED`, which the provers do not handle. For
`CallReturns` the safety part of the argument is proved, `GrowthSucceeds`. The
liveness conjuncts of `LoopSpec` and `DumpSpec` play no part in the theorems
about them.

## 5. Not modelled

- The C libraries (decoding, decompression) beyond the results `src/` looks at.
- Moves of a reader. An `Iterator` keeps a pointer to the reader it came from
  (io.hpp:373); what a moved-from reader does with its null message is up to the
  C library.
- `Reader::release_message()` and the conversion of decoder errors, which no
  program can instantiate; `MpReach`, `MpUnreach` and the originator id, which
  have no accessor that is defined; elements of a cluster list, which do not
  convert; `bgp/common.cpp`, which is not built.
- Enumerations and `Error`; logging; scalar fields of views.
- What is inside a C object that a handle owns, other than the settings of
  options: `Handles` and `Reader` are not composed.

What the models assume of a program: it calls setters on options that have a C
object only (it cannot tell, since `is_cptr_null()` says the opposite), and drops
`bgp::Options` views of options that are destroyed.

## 6. Plan

Order: what can lose or corrupt data first, then what hangs, then access.

1. Ring buffer, its creation, its proofs. *Done, with `MirrorAtOnce`.*
2. Reader over streams, and the loop, with the abstract source. *Done, with
   breaks and resumption; the safety of both is proved.*
3. Views and iterators over a decoded message. *Done for the table dump chain,
   with kept views, raw attributes and the program that prints; proved.*
4. `Handles`: owners under construction, moves, self-moves, swap and
   destruction. *Done, with proofs.*
5. `Asn`. *Done, by proof.*
6. Settings of `Options` and the `bgp::Options` views. *Done, with proofs.*
7. Left: moves of a reader while an iterator points to it; a user who reads from
   a stream that a reader also reads; `Handles` composed with `Reader`.
8. Refinements and the remaining action properties. *Done: `ImplementsFifo`,
   `LoopIsGivenMessages`, `PrintsEverything`, `GrowthIsForced`, `GrowthSucceeds`.*
   No safety property that a run finds to hold is without a theorem.
9. Left to prove: that a loop over messages larger than the first buffer gets
   those that growth did not drop, which needs an abstract source that says which
   they are.
