# goxz: a TLA+ verification of the xz writer and reader

goxz is a Go library that compresses and decompresses xz files in parallel on
top of liblzma.  This project models the parts of it that carry its own logic,
checks them with TLC on small instances, and proves the safety properties of the
pools, of both Writers, of literal blocks, of the Reader and of package lzma for
all instances with TLAPS.  `PROJECT.json` lists the runs, the mutants, the source
lines behind every definition, the findings, the hazards and the theorems.

## 1. The system

| Part | State | Operations | Who else touches it |
|---|---|---|---|
| `pipePool` (xz/pool.go) | counters `len`, `cap`; sets `free`, `ready`, `active`; `closed`, `waitIdx`; two condition variables on one mutex | `getWriter`, `getReader`, `restore`, `setCapacity`, `interrupt`, `close`, `terminate`, `getStats` | producers, consumers and a monitor, all concurrent |
| `workerPool` (xz/pool.go) | slice of kill channels, `closed`, a `WaitGroup` and its waiter | `setCapacity`, `terminate`; the monitor routine that calls `end` | `Writer.monitor` calls it, workers end on their own |
| asynchronous `Writer` (xz/writer.go) | client fields (`pipe`, `idx`, `closed`, `lastErr`), `inPool`, `outPool`, `workPool`, `errChan`, `doneChan` | `Write`, `Close`, the goroutines `monitor`, `worker` (n times), `writer`, the finalizer | five kinds of goroutines |
| synchronous `Writer`, blocks | `rdBuf`, `wrBuf`, index | `Write`, `Close`, `blockEncodeSync` | nobody |
| `Writer`, construction | none; clamps the chunk size, derives the buffer sizes, starts the goroutines | `NewWriterCustom` | nobody |
| `Writer`, stream mode | one liblzma encoder | `Write`, `Close`; unreachable, section 6 | nobody |
| literal blocks (xz/literal.go) | none | `literalCompSize`, `literalBlockSize`, `literalBlockEncode` | called by `blockEncode` |
| synchronous `Reader` (xz/reader.go) | parser state, the rings `rdBuf` and `wrBuf`, the block decoder | `Read`, `Close`, `readFull` | nobody |
| asynchronous `Reader` | fields only, the routines are stubs | `Read` returns (0, nil) | nobody |
| `SeekReader`, index decoding (xz/seek_reader.go, xz/index.go) | the decoded index | `decodeIndex`; `Read`, `ReadAt`, `Seek` are stubs | nobody |
| `lib.Stream` (lib/base.go) | a liblzma stream, two rings | `Process`, `ProcessPipe`, `CodeSlice` | Writer, Reader, package lzma |
| package lzma | a stream, `closed` | `Read`, `Write`, `Close` | nobody |
| liblzma bindings (rest of lib/) | in the C library | one-line cgo wrappers | everybody |
| `xzpipe` (cmd/) | none | a copy loop | nobody |

Data flows through the asynchronous Writer like this.  `Write` fills a pipe of
`inPool`; a worker takes any ready pipe, gets an output pipe *with the same
index* from `outPool`, encodes the block and closes it; the writer goroutine
takes the output pipes *by index*, writes them to the underlying writer and
appends them to the index.  Both pools are bounded.  `Close` closes `inPool`;
the workers run dry and die; the workerPool's monitor routine then closes
`outPool`; the writer goroutine runs dry, reports on `errChan` and closes
`doneChan`; `Close` receives the report and writes the index and the footer.

What is hard: the bounded `outPool` may be full of blocks that are later than
the one the writer goroutine needs (hence `waitIdx`, which lets that one in
beyond the capacity); wake-ups go to one waiter; shutdown is a chain of five
goroutines that may be entered from either end (Close, or an error of the
writer goroutine); a worker reads an input pipe the client still fills; buffers
are reused; and, in sequential code, an error in the middle of a step leaves
buffers that the next call uses.

What makes each part correct:

* pipePool: every allocated pipe is in one set; the capacity is exceeded by at
  most the one announced pipe; nobody sleeps who could go on; a pipe given to a
  producer reaches one consumer, in order for the ordered reader.
* workerPool: every worker is killed once at most and missed never; `end` comes
  after the last worker and does come.
* Writer, both modes: the file is the data, cut into blocks, in order, and a
  successful Close means complete.  Asynchronous: an error is not forgotten; calls
  return and goroutines leave.  Synchronous: an error is told once, by its call, so
  "successful" means that no call has failed; a failed call loses its own chunk only.
* literal blocks: fit the buffer that was allocated for a full chunk, and
  announce their own sizes correctly; the header of a compressed block fits the
  space that was reserved before its sizes were known.
* Reader: what the client gets is a prefix of the data whatever the slice and
  buffer sizes; io.EOF means the end; a good file gives no error; calls return.
* `lib.Stream` and package lzma: what enters `Process` comes out once and in
  order, through rings and a coder that keep data between calls, whichever side
  fails and whenever the caller goes on; the error returned is the one that
  matters; Close and io.EOF mean a complete file; calls return.

## 2. The modules

| Module | Models | Notes |
|---|---|---|
| `PoolOps` | bookkeeping of a pipePool as operators on a record | shared by the next two; no recursion, so that it can be proved about |
| `PipePool` | the pool under concurrent callers, with condition variables | an ordered instance is `outPool`, an unordered one is `inPool` |
| `PipeQueue` | abstract: what a pool promises | `PipePool` implements it (`ImplementsQueue`, `ImplementsFairQueue`) |
| `WorkerPool` | the workerPool and its WaitGroup | |
| `AsyncWriter` | the asynchronous Writer: client, monitor, workers, writer goroutine, two pools | composes `PoolOps` twice |
| `SyncWriter` | the synchronous block Writer | |
| `XzStream` | abstract: what a Writer promises | both Writers implement it (`ImplementsStream`) |
| `Literal` | xz/literal.go, sizes and encoder; the sizes that `NewWriterCustom` and `blockEncode` derive from it | |
| `StreamOps` | one round of `Stream.Process` as operators on two rings and a coder | shared by the next two |
| `Reader` | the synchronous Reader | chains the steps of `StreamOps` for blocks and for the index |
| `Lzma` | package lzma: a writer, then a reader of what it wrote | chains the steps of `StreamOps` with an encoder and with a decoder |
| `...Proofs` | theorems about the module of that name | section 5; `ReaderProofs` and `LzmaProofs` rest on `StreamOpsProofs` |
| `MC...` | instances for TLC | |

How the code became actions:

* **PipePool.** Every method holds `pp.mutex` throughout, except while it sleeps
  in `Cond.Wait`.  So a critical section is one action, and `getWriter` and
  `getReader` are split at the wait: a caller is `enter`ing, `parked`, `woken`
  (and must get the mutex again), `using` a pipe or has `quit`.  `Signal` picks
  any parked caller.  The sets are keyed by `p.idx`, and a pipe is identified
  with the index it carries.  The callers follow writer.go: which indices can be
  asked for (`Claimable`), that outPool has one reader and inPool one producer,
  and that a pool is closed when no producer is inside.  The panics of pool.go
  are the invariant `NoPanic`.
* **WorkerPool.** One step per spawn and per kill.  A WaitGroup is its counter
  and the place of its one waiter; being released and resuming are two steps, as
  in Go.  A waiter that resumes while the counter is not zero goes on, or panics
  and ends the program (`Alive`): which of the two depends on the Go runtime.
* **AsyncWriter.** A blocking pool call is one step that is enabled when the loop
  would be left: `PipePool` shows that the condition variables amount to that.
  Everything between two interactions with shared state is one step.  A pipe
  holds the units the client wrote; encoding may run on what has arrived, meets
  the end when the pipe is closed, may overflow the output pipe (`Overflows`),
  may fail (`Faults`).  The workerPool is inlined at the one place it is used.
* **SyncWriter.** The steps of `blockEncodeSync` are separate because each may
  fail, and each failure has its own deferred resets.  The client may go on after
  an error, as `Write` lets it.  The history `tried` has an entry for every chunk
  that went through `blockEncodeSync`: the chunk, how it ended, and what was handed
  to the underlying writer.  A compressed block goes behind whatever `wrBuf` still
  holds, a literal one replaces it (`Rollback`); an encoding that fails leaves
  nothing or something behind (`Rest`).
* **Literal.** Bytes are counted.  The encoder is one action per statement group;
  the size fields are kept modulo 2^16 (`LiteralChunk`).  It starts from the chunk
  size a caller of `NewWriterCustom` asks for; `Refused` is the failure of that
  call for `ChunkStream`.
* **StreamOps.** A round of `Process` is read (`Fetches`), call of `lzma_code`
  (`Encoded`, `Decoded`, `Ignored`), write (`Delivered` to a slice, `Flushes` to a
  sink) and switch (`Verdict`).  A ring keeps the position of its data, because
  `Process` only offers the contiguous parts of a ring to liblzma.  A read may be
  short and may bring its end or its error with the data or after it; a write may
  fail after a part.  Short reads, partial writes and what a coder holds back are
  nondeterministic; which error wins is not.  A decoder of a format whose header
  liblzma parses itself (`skip`) puts nothing out for that header.
* **Reader.** One action per state of the parser and per round of the loop in
  `Process`.  A unit is four bytes, the padding quantum.  What a state does with
  the units that `readFull` gives it is a `Move`: how many it takes out of the
  ring, and the next state.  The files are those of the format, as the grammar
  `Follows` of neighbouring units says it: streams of any number of blocks of any
  length, an index of two units or more, padding behind a stream.  A file that is
  not of the format is refused by liblzma, not by goxz, and is not a subject here;
  a file of the format may be cut anywhere.
* **Lzma.** One action per call and one per round of its `Process`.  The writer's
  client passes slices of any length, empty ones too; after an error it goes on
  behind what the count says was accepted, closes, closes again or leaves.  Then
  the reader opens what the sink has, complete or not; behind a complete file
  there may be one unit more.  (Foreign bytes behind a cut file would be data to
  the decoder, which makes anything of them.)  Its client, too, goes on after
  errors and after io.EOF.

External code, modelled from its use and marked in the map: `bufpipe`
(a bounded buffer that can be closed; line or ring), `sync.Cond` and
`sync.WaitGroup`, liblzma (may fail, may hold data back, stops for want of
input or of space, makes the first idle call OK and the second BUF_ERROR,
takes no new input after LZMA_FINISH).

## 3. The runs

| Run | Bounds | Shows |
|---|---|---|
| `out_pool` | 3 workers, 1 reader, 4 indices, capacity up to 2 | safety of the ordered pool, refinement of the queue, no starvation in getWriter |
| `in_pool` | 1 client, 3 workers, 4 indices, capacity up to 2 | the unordered pool: no wake-up is lost, nothing granted is forgotten |
| `worker_pool` | 4 spawns, target up to 3 | kill discipline, end comes (after the last worker if the pool had its size before the input ended; otherwise Wait may panic instead), workers leave |
| `writer` | 2 workers, chunks of 2, 5 units, writes up to 3, all faults, overflow of a complete chunk | order, completeness, ownership, memory bound; no error is lost or made up, no bad file is reported as good |
| `writer_live` | 2 workers, chunks of 1, 3 units, failing writes | calls return, goroutines leave |
| `sync_writer` | chunks of 3, 13 units, writes up to 7, all faults, any number of times, at up to five chunks | until the first error the file is the data; after it, what each call has lost and which blocks may have stale bytes in front of them |
| `literal` | six chunk sizes asked for, limits 8 and 130, every input length, literal chunks of 8 | fits and decodes, all four checks; the reserved header is large enough for every compressed size |
| `reader` | three files and all their prefixes, rings of 2, 5 and 20 units, slices of 0 to 4, sources that fail or not | order; io.EOF after the whole file, or inside a block or an index of a cut one; files that fit are read without error; calls return |
| `lzma` | 3 units of data, slices of 0 to 2, rings of 1, 2 and 3 units, 2 failures of the sink and 2 of the source, one unit behind the file or none | conservation, Close and io.EOF tell the truth, errors have causes, calls return |
| `worker_pool_early`, `writer_overflow`, `reader_wrap` | the smallest instances that show them | the findings, below |

Why the bounds are enough for what is asked: more indices than the capacity plus
the extra pipe, so that pools fill, overflow, shrink and reuse pipes; more
producers than the capacity, so that some sleep while others pass; chunks that
are filled in several writes and writes that span several chunks; files with
several blocks, several streams and padding, larger and smaller than the ring,
and an index that is met in one piece or in several.
In `lzma` the file of five units is longer than each ring, so that every ring
wraps and fills; two failures are what it takes to fail, recover and fail again,
and what separates a harmless idle call of `lzma_code` from a BUF_ERROR.
The chunk sizes of `literal` put every boundary (literal chunk, padding residue,
one or two bytes of a variable-length integer) within reach; the real literal
chunk of 2^16 is replaced by 8 and the size field with it, and the limits of the
chunk size, 64 KiB and 1 GiB, by 8 and 130.

`writer` uses symmetry of the workers (safety only).  Deadlock is checked for the
pools, the worker pool and `writer`, where an explicit action stands for the end
of the program, and for `lzma`, whose client may always close once more; not where a sequential program simply rests (`sync_writer`,
`literal`, the readers after an error), nor in `writer_overflow`, where the client
may hang, nor in `writer_live`, where being stuck is what its properties exclude.

Fairness: a goroutine that can take a step takes one eventually (Go's scheduler
is preemptive at these points); weak fairness on each goroutine's steps.  The
mutex hand-over is the same assumption.  Nothing obliges the client to call, nor
the input to end, except that the deferred calls of `Writer.monitor` follow each
other.  In `PipePool` producers keep asking and the monitor sets a first
capacity, as the code does without waiting for anything.  In `reader` and `lzma`
a call that has been made runs on (weak fairness of its rounds); no source is
obliged to end or to recover, and no client to call.

Three runs are expected to violate their property.  They are the findings:

* `worker_pool_early`: `setCapacity` adds to a WaitGroup that the monitor routine
  is already waiting on.  If the input ends between the first and the second
  `setCapacity` of `Writer.monitor`, `end` runs while new workers live.  In the
  Writer these workers then find both pools closed and do nothing, so no data is
  lost (`writer` covers the same interleaving), but since Go 1.5 the runtime may
  panic on the reuse.  `WorkerPool` has both outcomes; `AsyncWriter`, which goes
  on where the other module may panic, has the first.
* `writer_overflow`: if the output pipe fills while the client is still writing
  the chunk, the literal block holds only what had arrived.  The rest is lost
  and Close returns nil, or the client's next Write meets a closed pipe and
  waits in `checkErr` for a report that only Close would bring about.  An
  overflow once the chunk is complete does no harm (`writer`).
* `reader_wrap`: an index that is not contiguous in the ring is decoded by two
  calls with LZMA_FINISH, which liblzma refuses.  `FittingFileReads` in `reader`
  says what holds instead.

A file that is cut off inside a block or inside the index gives io.EOF, as if it
were complete, because `Process` passes on the io.EOF of the source.
`EOFMeansAll` says exactly this: on a cut file io.EOF comes from these two places
only.  Package lzma converts it to `io.ErrUnexpectedEOF`, and there io.EOF means
that the file was closed and has been read in full (`EOFMeansIntact`).  Two
things that `lzma` shows are worth knowing: a BUF_ERROR reaches a client only
after an empty slice, after a second failure of its sink or source, or from a
file that is not intact; and the check for data behind the stream takes a unit
from the source each time, so that a client that retries after that data error
is eventually told io.EOF.

A synchronous Writer does not remember errors, and nothing stops its client from
writing on.  `LossesAreKnown` says what then holds.  The chunks follow each other
without gap or overlap, so a failed call loses its own chunk.  A later call that
returns nil has written its chunk whole, with one exception: `wrBuf.Reset` is
deferred only behind `blockEncode` and `index.Append` (writer.go:343-347), so the
block after one that failed there comes behind the rest of the failed one, and no
error tells of it.  One block later `wrBuf` is clean again.  The index lists the
blocks that came as far as their write, torn ones included.  Close then returns
nil; the error of the earlier Write is the only notice, which is why
`ImplementsStream` ends its promise with the first error of any call.

Each passing property has a mutant in `PROJECT.json`: a definition changed the
way a plausible bug would change it (in the modules next to the definition,
marked "Mutant"), which makes TLC report that property violated.

## 4. Hazards without a property

Listed in `PROJECT.json` with the reason:

* a client that hangs in `checkErr` after an early overflow: the defect is that
  of `writer_overflow`;
* the finalizer never runs, because the goroutines it should stop keep the Writer
  reachable, so it is not an action;
* a second Close of an xz Writer returns nil after a failed one (for package
  lzma, which does the same, `CloseTellsComplete` says which Close counts);
* `NewWriterCustom` fails for `ChunkStream`; `Literal` models the failure;
* `decodeIndex` fails on every file;
* the Reader reports io.EOF for a file that is cut in a block or in the index;
  `EOFMeansAll` accepts that, and says that it happens nowhere else;
* `xzpipe` drops the error of Close, and with `-d` it copies from an asynchronous
  Reader, which never ends.

## 5. The proofs

Every theorem holds for every value of the constants that its module's `ASSUME`
admits; TLC checks the same property on the small instances of section 3.  The
assumptions say what the code has by construction and are named with the
constants: finite, non-empty sets of callers, one reader for an ordered pool and
one producer for an unordered one (`PoolAssumption`), positive sizes, the checks
and bounds of xz/const.go; for the Reader, that its files are of the format
(`Formed`) and that a header fits in a ring (12 bytes in 64 KiB).

| Module | Theorem | Statement |
|---|---|---|
| `PipePoolProofs` | `TypeCorrect` | `Spec => []TypeOK` |
| | `PipesAccounted` | `Spec => []Accounting` |
| | `CapacityKept` | `Spec => []CapacityBound` |
| | `PanicFree` | `Spec => []NoPanic` |
| | `AnnouncedNeverSleeps` | `Spec => []AnnouncedProceeds` |
| | `WakeupsKept` | `Spec => []NoLostWakeup` |
| | `NilMeansDrained` | `Spec => []EndMeansDrained` |
| | `PoolIsQueue` | `Spec => ImplementsQueue` |
| `WorkerPoolProofs` | `TypeCorrect` | `Spec => []TypeOK` |
| | `KillsAreDisciplined` | `Spec => []KillDiscipline` |
| | `EndComesLast` | `Spec => []EndAfterDeathOnceSized` |
| `AsyncWriterProofs` | `TypeCorrect` | `Spec => []TypeOK` |
| | `BuffersHaveOneOwner` | `Spec => []PipesOwned` |
| | `MemoryBounded` | `Spec => []BuffersBounded` |
| | `ErrorsAreReported` | `Spec => []ErrorsReachClose` |
| | `ErrorsAreReal` | `Spec => []NoSpuriousError` |
| | `AsyncImplementsStream` | `Spec => ImplementsStream`, if no chunk overflows before it is complete |
| `SyncWriterProofs` | `SyncLossesAreKnown` | `Spec => []LossesAreKnown` |
| | `SyncImplementsStream` | `Spec => ImplementsStream` |
| `LiteralProofs` | `LiteralFits` | `Spec => []OutputFits` |
| | `ReservedSuffices` | `Spec => []HeaderFits` |
| | `LiteralIsDecodable` | `Spec => []Decodable` |
| `LzmaProofs` | `TypeCorrect` | `Spec => []TypeOK` |
| | `FileConserved` | `Spec => []Conserved` |
| | `CloseIsHonest` | `Spec => []CloseTellsComplete` |
| | `EOFIsHonest` | `Spec => []EOFMeansIntact` |
| | `ErrorsHaveCauses` | `Spec => []ErrorsExplained` |
| `ReaderProofs` | `ReaderInvariant` | `Spec => []ReaderInv` |
| | `ReaderTypes` | `Spec => []TypeOK` |
| | `ReaderInOrder` | `Spec => []DeliveredInOrder` |
| | `ReaderEOF` | `Spec => []EOFMeansAll` |
| | `ReaderFitting` | `Spec => []FittingFileReads` |

Almost none of these properties is inductive.  The strengthenings, in the order
in which each builds on the ones before it:

**PipePool.**

1. `TypeInv`, with each action shown to keep the record well-typed.
2. `OwnInv`: the three sets are disjoint and hold only granted indices; the
   indices asked for are pairwise distinct and not granted; users hold distinct
   active pipes; a terminated pool has nothing ready.  `Claimable` supplies the
   distinctness, and the key of the pipeSets the disjointness.
3. `CallInv`: while the ordered reader is parked or woken, its index is the one
   announced and nothing else is; outside a call nothing is announced; and every
   index below the cursor has been taken.  This gives `NoPanic`,
   `AnnouncedProceeds` and the order of delivery.
4. `CountInv`: `len` is the sum of the three cardinalities, or at least that sum
   once the ready set has been dropped.
5. `CapInv`: only the announced index can take `len` beyond the largest capacity,
   and while the pool is beyond it that pipe is ready or in the reader's hands;
   so it happens at most once before the pool shrinks again.
6. `ProducersMatched`, `ConsumersMatched`, the two halves of `NoLostWakeup`: as
   long as a producer sleeps, at least as many woken producers as there are free
   places are on their way; as long as a consumer sleeps, the index it wants is
   not ready or, without an order, woken consumers match the ready pipes.  A
   single `Signal` per change is enough because a step that adds a resource wakes
   one caller, and a step that uses up a wake-up uses up a resource.
7. `EndInv`: what was granted and not taken is ready until the pool is terminated
   (`NothingForgotten`), a closed pool was granted its indices without gaps
   (`NoGaps`), the index reader has taken nothing from its cursor on
   (`NothingAhead`), and a reader was told the end by a closed pool with nothing
   ready (`ToldTheEnd`).

`PoolIsQueue` is the step simulation under the mapping granted, taken, state.

**WorkerPool.**  `GroupCounts` (the counter of the WaitGroup is the number of
workers alive) makes the types inductive; `BornOnly` (only spawned workers are in
the slice or killed) the kill discipline.  `EndComesLast` needs that a pool of its
final size is not resized (`Phases`), that once there was a worker the slice is
empty only in a terminated pool (`NeverEmptied`) and that, until the input ends,
every worker in the slice is alive (`SliceAlive`): so the counter does not meet
zero before the pool has its size.

**AsyncWriter.**  `TypeInv` adds to the types where the client may stand with
which pipe (`ClientPlaces`), that chunks are cut in order (`ChunksCut`), and that
pipes are used within their bounds (`OutInRange`, `ReadInRange`).  `OwnInv` gives
each pipe its one owner: an input pipe is active while its one worker uses it
(`InOwned`); an output pipe is asked for once per chunk, the outPool has not seen
a chunk before that (`FreshUnseen`), and the pipe is closed by the worker that
fills it before the writer goroutine, which takes the chunks in order, gives it
back (`OutOwned`).  This needs the order of the shutdown (`Phases`) and that only
the waiting writer goroutine announces an index (`Announcing`).  `BoundInv` counts the buffers; it is
the argument of `CapInv` again, now with the callers of the real Writer.

**AsyncWriter, the stream.**  `FlowInv` follows the blocks, until doneChan is closed: every
chunk is still to come, waits in outPool or has been taken (`NoneLost`), the
output is closed only when no worker has anything left to do (`GroupEnded`), and
the writer goroutine ends without an error only when it has taken every chunk
(`Consumed`).  `Reporting` follows its error through `errChan` into `lastErr`
(`Channel`) and into the results of Write and Close (`Outcomes`).  `BlockInv` says
that an input pipe a worker may find closed is finished and not empty
(`InputFinal`), that a block sealed without an error holds all of its chunk
(`Encoding`), and that every block has its record up to the first error, and not
after it (`Listed`); `FileInv` that, up to the first error, the file is the chunks in
order (`FileIsPrefix`).  Refinement of `XzStream` is the step simulation under
these.  It has the hypothesis `"run" \notin Overflows`: an
output pipe does not fill before its chunk is complete.  Without it the code does
not keep the promise; that is the finding of `writer_overflow`, not a convenience.

**SyncWriter.**  `SyncInv` has two parts, and none of it stops at an error.
`Calls`: a chunk that failed has been told of, and Write fails over a chunk only
(`ErrorsTold`); Close is the last call (`CloseIsLast`); blocks are never empty
(`ChunkPresent`).  `Contents`: the chunks tried end where the data in `rdBuf` begins
(`CutInRange`, `ChunksFollow`); `wrBuf` holds the block, behind a rest only if the
last try left before the reset of `wrBuf` was deferred (`BlockBehindRest`), hence
`WholeOrAfterRest`; the records are counted (`RecordsCounted`), and until a chunk
fails they are its chunks' sizes (`RecordsMatch`).  For the refinement the blocks
of the abstract file are those before the first failure (`Sound`): nothing that is
tried later changes them (`BlocksKept`), and until then they are the chunks
(`BlocksAreChunks`).

**Literal.**  `LiteralInv`: the input is cut at multiples of the literal chunk
(`InputInv`, `CutInv`), and the bytes written are what the length of the input
so far accounts for (`CountInv`).  The rest is arithmetic for all sizes: the number of
bytes of a variable-length integer (`VliSizeLeast`), hence the size of a header
and of a whole literal block, grows with its argument (`VliSizeMono`,
`HeaderSizeMono`, `BlockSizeMono`), so that what was reserved for a full chunk
fits every shorter one; that the chunks number ceil(n / chunk) (`ChunksCounted`);
that padding reaches a multiple of four (`PaddingExact`).  `SizesAssumption` says
that the size of the largest block can be written as a variable-length integer at
all, nine bytes of seven bits; the largest chunk of xz/const.go is 1 GiB.

**StreamOps.**  No theorems of its own, but what a round of `Process` does, each
step as a predicate of what goes in and what comes out: `FetchStep`, `EncodeStep`,
`DecodeStep`, `DeliverStep`, `FlushStep`.  A ring keeps its data in order and in
its size through `WriteMark` and `ReadMark`, and one that is refilled only when it
is empty stays contiguous (`Straight`), so that the coder is offered all of it.
`EncodeRounds` and `DecodeRounds` put a round together: destination, outBuf, coder
and inBuf hold, in this order, what they held before, the end unit apart.

**Lzma.**  `LzmaInv` is `WriterInv` until the file is opened for reading, and
`ReaderInv` from then on.

1. `WriterInv`: sink, rings and encoder hold the file up to what has been accepted
   (`WriterFlow`); the slice that is being written continues it (`WriterSource`);
   Close is the last call that works and the encoder ends only in it
   (`WriterPhases`), and it succeeds if and only if the encoder has ended and
   outBuf is empty (`WriterEnd`).  `WriterStalls` says why an encoder could not go
   on: something stays in outBuf only after a failure of the sink, an idle encoder
   meets it again only after a second one.
2. `SinkComplete`: by this the sink has a beginning of the file at all times, and
   all of it exactly when the encoder has ended and outBuf is empty.  It gives
   `CloseIsHonest`, and the first state of the reader.
3. `ReaderInv`: header, what has been handed out or is held, end unit, inBuf and
   source make up a beginning of the file with its extra unit (`ReaderFlow`).
   Where the end unit is in it follows from the lengths alone, so the decoder
   cannot end early or late.  `ReaderFile` ties the length of the whole to how the
   file came about: only a successful Close leaves one that reaches to its end, and
   it is intact unless there was a unit behind it that a data error has told of.
   `ReaderCall` and `ReaderStalls` say, as for the writer, why a round found
   nothing to do: an empty slice, or a failure of the source before.

The rings may have any size from one unit on, and source and sink may fail any
number of times: `Sizes`, `Total`, `Slice` and `Failures` are arbitrary.

**Reader.**  `here` is the number of units of the file that have left `rdBuf`; all
of `ReaderInv` is about it.

1. `RingInv`: `rdBuf` holds the units that follow `here`, wherever in the ring they
   are, and however they were read.
2. `PlaceInv`: the state of the parser is the place of `here` in the file.  The two
   units around `here` are enough for this because the format is a relation of
   neighbours.
3. `FlowInv`: the client, `wrBuf` and the decoder have, in this order, the data
   among the first `here` units; outside of a block the last two have none of it.
   It gives `DeliveredInOrder`.  Two facts carry a round of the block decoder:
   `DecodeRounds`, applied to the contiguous slice of the ring as if it were a ring
   of its own, and `BlockRun`, that the units of a block before its end unit are
   data; `DataRun` then says that they are the *next* data of the file.
4. `CallInv` and `EndInv`: the end of the source is remembered only when nothing is
   left of it, and io.EOF was returned at the end of the file, behind a footer or
   its padding or inside a block or an index.  With `PlaceInv` this is
   `EOFMeansAll`, because the last unit of a complete file excludes the latter two.
5. `FitInv`: a file that fits is read as a whole by the first header, stays
   contiguous in the ring, and so meets the index decoder once; and `wrBuf`, of the
   same size, has space for its data, because a file is longer than its data
   (`FitsHasSpace`).  So no BUF_ERROR and no PROG_ERROR comes of it.

`Data(file)` is defined by counting (`DataCount`, `DataAt`), not by recursion, so
that it can be proved about; an assumption of `MCReader` compares it with
`SelectSeq` on the files of the run.  What needs an induction, that a run of units
goes on until its end comes (`RunGoesOn`) and that the k-th data unit exists
(`AtFacts`), is had from the least number in a set (`LeastNat`).

Only model-checked:

* liveness, and everything with `ENABLED`: out of the prover's reach.  These are
  the temporal properties of `out_pool`, `in_pool`, `worker_pool`, `writer_live`,
  `reader` and `lzma`, and that `PipePool` implements `PipeQueue` *with its
  fairness* (`ImplementsFairQueue`);
* that `Data` is what `SelectSeq` computes, for which see above: a statement about
  a recursive definition, checked on the files of the run;
* the findings, which are runs that violate their property.

## 6. Not modelled, and the plan

Not modelled:

* Stream mode of the Writer.  `NewWriterCustom` passes the chunk size -1 to
  `literalBlockSize`, whose compressed size is then 0, and liblzma refuses a
  block header for that: no Writer in stream mode ever exists.
* Index decoding.  `unrollIndex` panics on the STREAM_END that `Process` returns
  for every good index, so everything behind that line, the walk from stream to
  stream, is not executed on any file.  A model would be of another program.
* The asynchronous Reader and the reading methods of SeekReader: stubs without
  behaviour.
* The cgo wrappers: one line each, their state is in the C library.
* `xzpipe`: three calls in a row.
* The bytes of headers and checks, the compression level (which
  `NewWriterCustom` ignores) and the size of the dictionary.

* Calls that test `closed` first and change nothing: Write after Close, and a
  second Close of an xz Writer (section 4).

The parts listed as modelled in `PROJECT.json` have every operation that changes
state as an action, and every invariant and refinement without fairness that a run
checks is a theorem.  What would go further:

1. Liveness, by a prover that has the rules for fairness: the wake-up arguments of
   `ProducersMatched` and `ConsumersMatched` are what a proof of
   `ImplementsFairQueue` would start from.
2. Stream mode, index decoding and the asynchronous Reader, once the code has them.
