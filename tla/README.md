# libgame, specified and verified

TLA+ specifications of the parts of libgame that move data, the TLC runs that
check them on small instances, and proofs of their invariants for every
instance. Paths below are relative to the repository; `S/` is `source/old/`.

## The system

libgame stores growing streams of bytes on the Skynet portals of the Sia
network. A stream is a chain of immutable documents; what is kept of it is the
*tip*, the identifiers of the newest document.

| component | state it keeps | operations | meets | hard about it | correct when |
|---|---|---|---|---|---|
| **portalpool** `S/portalpool.hpp` | workers per kind of transfer, two free lists, a mutex, one condition variable | `takeworkerout` (blocking or not), `putworkerback`, `download`, `upload` (retry for ever) | every transfer of a skystream goes through it; the download pump takes workers itself | many threads, waiting, an exhausted pool, failing portals | no worker shared or lost; nobody sleeps beside a free worker; calls are served |
| **skystream** `S/skystream.hpp` | the tail (spans, lookup table, identifiers), a cache of older documents, two mutexes | constructor, `write`, `read`, `span`, `block_span`, `identifiers` | calls the pool; called by pumps and programs | merging of lookup tables over a long sequence of writes, two upload threads per write, crashes between upload and save of the tip, writes in the middle | every byte is found, in few requests, through every tip ever handed out |
| **buffered group, upload side** `S/bufferedskystream.hpp` | per stream a queue, its offsets and a priority; a multimap of needy streams; a pump thread | `add`, `queue_local_up`, `xfer_net_up`, `pump_up`, `shutdown` | writes skystreams; its callback saves the tip | producers, pump and shutdown interleave under three locks and two condition variables | no byte lost, repeated or reordered; bounded queues; all is flushed |
| **buffered group, download side**, same file | blocks being fetched by offset, a thread each; a multimap of waiting readers; a pump thread | `xfer_local_down`, `queue_net_down`, `pump_down`, `downloader` | reads skystreams; keeps workers of the pool | locks held across network calls, lost wake-ups, end of stream with a worker in hand | the reader gets the stream's bytes in order, and goes on |
| **programs** `S/skystreamtest.cpp`, `S/bufferedskystreamtest.cpp`, `source/stream-up.cpp`, `source/stream-down.cpp` | an offset, the tip file | copy standard input to a stream, a stream to standard output | one process each, sharing the portals and the tip file | a reader runs beside a writer that crashes | the output is the stream |
| **tip file** `S/tools.hpp` | the tip as JSON | `json2file`, `file2json` | programs, upload callback | crash while it is written | the old tip or the new one |
| **storage layer** `source/storage*.cpp` | the set of backends; portals | `storage_process`, `process` of the digest and Skynet backends | game code (call commented out) | partial results of several backends | what is reported stored is stored and verified |
| **ledger** `source/game.cpp` | unspent outputs | `process` | a bitcoin server | one step of several failing | no output is lost or spent twice |
| new interface `include/game/*.hpp` | – | declarations only | – | – | – |
| `bitcoin.sh`, build files, `dependencies/` | – | – | – | – | – |

`S/crypto.hpp` computes digests; a document's identifiers are modelled as its
position in the sequence of documents, that is, digests do not collide.

## Modules

| module | what it is |
|---|---|
| `UploadLog` | what a group of buffered streams promises its callers: accepted bytes reach a log in order, and a closed group is flushed |
| `BufferedUp` | the upload side of `bufferedskystream.hpp` in full |
| `MCBufferedUp` | instances of it |
| `BufferedUpProofs` | its invariants and its refinement of `UploadLog`, proved |
| `GrowingStream` | what a skystream promises an appending program: content grows in whole writes, a restart continues from the content saved last |
| `Skystream` | `write`, `get_node`, the constructor and the tip file |
| `SkystreamProofs` | what `write` keeps true wherever it writes, and what is found; for an appending program the refinement of `GrowingStream`; proved |
| `Download` | a reading program (`EXTENDS Skystream`: it runs beside the writer) |
| `DownloadProofs` | what searches, tables and downloads do, proved for an appending program |
| `Induction` | facts about numbers and recursive functions the proofs use |
| `PortalPool` | the pool |
| `MCPortalPool` | instances of it |
| `PortalPoolProofs` | its invariants, proved |
| `Delivery` | what the download side promises its caller: the bytes asked for, in order, in parts, until all are there |
| `BufferedDown` | the download side of `bufferedskystream.hpp`, with the `get_node` and pool calls it makes |
| `MCBufferedDown` | the stream it downloads in its runs |
| `BufferedDownProofs` | its invariants and its refinement of `Delivery`, proved |
| `Storage` | `storage_process` and its two backends |
| `MCStorage` | an instance of it |
| `StorageProofs` | its invariants, and for what causes a call fails, proved |
| `Ledger` | `game.cpp`: programs that record data in transactions, and the network they share |
| `MCLedger` | an instance of it |
| `LedgerProofs` | its invariants, proved |

Runs of `Skystream` and `Download` need no MC module: their constants are
numbers, strings and sets of them, and stand in the `.cfg`.

A definition that begins "a wrong variant" is a plausible mistake in the code;
it is used nowhere, and is there to be put in the place of the definition after
it, to see that a property notices.

### BufferedUp

One producer thread per stream, the pump thread and the owner of the group.
A step is what a thread does between two lock operations others can observe:
`xfer_net_up` is `XferStart` (fixes the offset under `mutex`), `XferTake`
(takes a block off the queue), `XferWrite` (the network holds the new block;
no lock), `XferCommit` (`offsetup`, `uploaded.notify_all`) and `XferFinish`
(unlists the stream). `queue_local_up` is one `QueueChunk` per turn of its
loop. `up_priorities` is a sequence of entries by falling priority, equal keys
in order of insertion, as `std::multimap` keeps them. `up_priorities_mutex` is
held across two steps in one place, the pump's test of `pumping` and its wait:
while `pumpPc = "checked"` no producer can list a stream, but `shutdown`, which
takes no such lock, can notify. Line 527, `std::scoped_lock(streams_mutex);`,
declares a variable and locks nothing, and is modelled as that. Bytes are
positions in the input, so that every loss, repetition or swap shows. The
callback is that of the upload program, which saves the tip. The group's
constructor takes callbacks too and drops them; the program uses the setter.

### Skystream

A document is its spans and its lookup table; `nodes` is what the portals hold.
A byte is represented by the document that wrote it last, and the history
variable `ideal` records for each document the content a reader must find
through it. `write` is `WriteAppend` or `WriteOver`, the turns of the merge loop
(`Merge`, `Skip`, `AssertFails`), `StartUploads`, `Upload` once per thread, and
`Commit`; `Save` is the program's `json2file`, and `Restart` may happen in any
state: the process stops and another one starts from the tip file. `tail` is
replaced only by `Commit`, so whatever is uploaded and not saved is lost to the
next program. `get_node` returns the bounds it was led to with the node, since
`read` computes lengths and offsets from them. Two branches of `write` compute
values nobody uses (`tail_bounds`); they have no counterpart.
`AssertFails` ends the process as a build with assertions does, and a restart
may follow it.

### Download

A program opens the saved tip, then reads block after block until the end it
saw. It starts where a block starts (`Open`): from inside a block `read` goes
wrong always, see below. `AddsSize` is stream-down's loop.

### PortalPool

Threads make any transfers: of their own worker (`Call`), or, for `PollKinds`,
with one they took without blocking and keep (`Poll`, `CallWith`,
`PutKeptBack`), as `queue_net_down` and its downloaders do. A free list is a
count per worker, so that a worker put back twice would show. `TakeWait` tests
and sleeps in one step because `worker_lists` is held; `PollFails` and
`PollWait` are two because `queue_net_down` locks twice. Retries of a failed
transfer change nothing but the portal in use and are part of `Answer`.
A worker that is kept is used for its own kind, and used before it is put back:
all callers do so, and `putworkerback` relies on it (it reads
`transfer.kind`). A thread that keeps a worker may call without it (`Call`), as
`get_node` does in its recursion.

### BufferedDown

The program's thread (`reader`), the pump thread (`pump`) and a downloader
thread per block (`at`). They share the stream's `mutex`, the skystream's
`methodmtx`, the pool and three condition variables. `xfer_local_down` is
`Call`, `Sweep` (lines 279-291: it waits for every queued block with the mutex
in hand), `SpanLock` to `SpanFound` (`block_span`), `Await` and `AwaitEnds`
(lines 297-316), and `TakeBlock`, `TakePart`, `TakeNothing` (317-340).
`queue_net_down` is `GetRequest` to `Replace`: `PollFails` and `PollWaits` are
two steps because lines 228 and 229 take the pool's lock twice; `Make` and
`Insert` are two because a downloader runs before it is queued; `Replace` is
the destructor of an entry that is there already, which joins its thread.
`BlockSpanThrows` is `out_of_range`.

`get_node` is modelled by what it costs: the documents on the way from the tail
to a block (`Path`), fetched unless cached, the first with the worker of the
call, the others with one the pool has to give (`FetchWithOwn`, `FetchTakes`,
`FetchWaits`). `block_span` runs it under `methodmtx`, a downloader's `read`
without. Line 496 declares a variable and locks nothing, and is modelled as
that. A block has two downloaders at most, so their identities are numbers;
when one is joined the number is free again. Bytes are places in the stream.
The stream is alone in its group, so the multimap is a flag; its program asks
for everything up to its end in each call, as the download program does.

### Storage

Data is a model value and the digest of it by any algorithm. There are
`Algorithms` of them, which the backend takes in their order (`Digest`): it
compares the digest that is there, or records it, and ends at the first that is
wrong, so that those before it are recorded though the answer is `INCONSISTENT`.
The caller may have given any of them. The backends sit in an
`unordered_set` of pointers, so `order` is arbitrary and fixed at the start. A
call is the first loop (`FirstAnswer`), lines 45-46 (`Found`), the second loop
(`SecondAnswer`) and the last switch (`Finish`); a backend answers at once
(`Digest`, `SkynetCannot`, `DownloadData`, `Compare`) or uploads to one portal
after another first (`Upload`, `Uploaded`). Portals fail, give any link, and
hold what `Content` says under it. `CallAgain` is a caller that tries again, or
gets the data back, with the identifiers the last call left, a failed one too.

### Ledger

`Start` is the constructor, which lists the unspent outputs the server knows;
`process` is `Make` (takes the last output, computes the change modulo the width
of an amount), `Refuse` or `Validate` (lists the change), and one of three
broadcasts: accepted, failed, or timed out and still on its way. `Down` is a
program that ends anywhere, as one does that finds an empty list (line 144) or
catches nothing. The network (`Valid`, `Arrive`, `Confirm`, `Unspent`) is
external: it accepts a transaction whose input exists, is unspent and covers
the change.

## Runs

Passing runs check deadlock unless said otherwise.

| run | instance | what it shows |
|---|---|---|
| `up_two_streams` | two streams of 5 and 3 bytes (one continues an older stream), blocks of 1 byte, calls of 1 to 3 | `Fifo`, `WritesAppend`, `NeedyListed`, `NonzeroPriorities`, `BacklogBounded`, `FlushedBeforeExit`, the inductive invariant, refinement of `UploadLog`, and liveness: queued bytes are uploaded and their tip saved in the end and a producer that waits at a full queue goes on, unless a stale entry of another stream keeps the pump busy (`Starves`) |
| `sky_append` | up to 6 documents of 1 or 2 bytes, 2 times, crashes anywhere | every byte found by bytes, index and time; requests and table sizes logarithmic; the merge assertion holds; the inductive invariant; refinement of `GrowingStream` |
| `sky_over` | up to 5 documents of 1 or 2 bytes, written anywhere, at one moment | as long as no write began inside a block, a byte is found in the block that wrote it last; the inductive invariant: tables always lead on to older documents that have the byte |
| `down_copies` | up to 4 documents of 1 or 2 bytes; downloads by bytes and by index from the first three block starts | the output is exactly the content of the tip that was opened; no read throws; the inductive invariant of a download; a download ends |
| `pool_serves` | three threads, a worker of each kind, two requests each | workers conserved, no sleep beside a free worker, each blocking call served, unless the workers of its kind are kept by threads that themselves ask for one (`Exhausted`) |
| `group_down` | a stream of five blocks with the tables five writes leave, one or two workers, a download that begins inside the second block and ends inside the last | workers counted; the inductive invariant; refinement of `Delivery`; a download ends or rests in one of four named ways |
| `storage` | two pieces of data, three digests, a list of four portals, a link for each and one whose data is lost | what returns is consistent and stored as asked; identifiers name agreed links; nothing fails without a cause; the inductive invariant |
| `ledger` | two programs, outputs of 2 and 5, fees of 1 and 3, amounts modulo 8, three transactions | no output spent twice by one program, a phantom output costs one failure, fees paid, refusals explained; the inductive invariant |

The bounds are chosen where the cases are: the table of the fifth document
holds the pair of equal neighbours the single pass leaves behind, and that of the
sixth the first entry of depth 2;
blocks of 2 bytes have an inside, and with five documents a block is written over
that only a merged entry leads to, inside it or at its start, and a table with
such an entry is merged and searched again (no time passes in `sky_over`: what
other spans and a clock do to writes anywhere is proved, not run); a queue of blocks of 1 byte is full after 2,
so calls of 3 are clipped and producers wait; with one worker of a kind and
three threads somebody always waits, on a condition variable shared with the
other kind. In `group_down` the
third block is two documents away from the tail, and neither of them is in the
cache when the pump gets there, so that `get_node` needs a worker besides the one
it was given, in the pump's hands too; with one worker the pump waits for it, and with two the reader, the
pump and downloaders hold them in every combination. Four portals let a first pair disagree and a later one
agree, and with three digests a missing one may stand before, between and behind
those that were given; a fee of 3 exceeds an output of 2 and wraps; three transactions are
enough for a chain of change with a failure in the middle. `ledger` uses the
symmetry of its programs, whose properties name none of them. Nothing in the modules depends on a bound except guards that name
it (`MaxBlocks`, `MaxTime`, `MaxCalls`, `MaxMade`).

`IInv` of a module has its `TypeOK` as first conjunct, so runs that check `IInv`
do not list it again. `up_*`, `pool_*`, `group_down` and `down_loses` have `CHECK_DEADLOCK FALSE`: a group that is joined,
and threads that have made all their calls, rightly stop; where a download may
stop is what `DownloadEnds` says. Where stopping would
be wrong a liveness property says so. An unlimited block size
(`MaxBlockSize = 0`) is covered by the proofs only.

### What goes wrong

Runs that TLC answers with a counterexample, one property each:

- `up_shutdown_hangs`: the pump finds nothing listed and `pumping` true;
  `shutdown` clears `pumping` and notifies; the pump waits. Nobody notifies
  again and `join` waits for ever. `pump_down` is built the same way.
- `sky_clock_back`: time spans are not clipped when the clock is set back;
  merged entries no longer meet, and a later `write` fails its assertion, in
  every program that continues that tip.
- `down_twice`: stream-down advances its offset twice per read and leaves out
  every other block.
- `down_loses`: a turn of `queue_net_down` that begins with the last block takes
  a second worker (line 241), asks for the block behind the end, and
  `out_of_range` drops the worker, though the comment at lines 253-256 says the
  order of the calls prevents that. When all workers are gone nothing is
  downloaded any more, by any stream of the pool.

Exceptions that properties name, each of which TLC reaches:

- `Starves` in `QueuedIsSaved` and `QueueReturns`: with a chunk as large as the
  block in flight the queue's size equals `uppriority`, the old entry stays
  (line 176) beside the new one, and one of them outlives the data. It is
  `begin()`, has nothing to send and is not erased, so the pump turns around it
  and does not serve another stream.
- `Exhausted` in `Served`: `get_node` gives the worker it has to the first
  request only, and with every worker kept that way all wait.
- The ways in which a download stops, in `DownloadEnds`: `WorkersLost` (line
  242); `WorkersHeld`, the thread that holds `methodmtx` asks for a worker while
  all are with threads that want that mutex or the stream's, or with itself: the
  pump has the last worker in hand and `get_node` asks for another one (lines
  242, 250, 292 and skystream.hpp:445); `WakeUpMissed`, a worker came back between the pump's look
  and its wait (lines 228-230); `ShutdownMissed`, as on the upload side (lines
  495-502). `DownloadEnds` says that there is no fifth.
- `DigestsTooEarly` in `ThrowsForACause`: when the digest backend comes first, a
  call for the data of a skylink records digests of no data, those that are missing
  before the first that was given, and fails when the data is there; the
  identifiers are then contradictory for good. `NotToBeStored`: with
  `keep_stored` false a skylink that is found makes the call fail.
- A listed output the network does not know (`PhantomIsLast`): a broadcast that
  fails leaves its change in the list (lines 181-182), and the next record fails.

Seen while modelling, without a run of their own: a write over an older block
makes what lies behind it unreachable (`tail_bounds`, line 274), breaks the
contiguity that the assertion of line 231 needs, and when it begins inside a
block, leaves an entry with the block's full spans in the table, which after the
next merge shadows the new bytes; after a write at the start of a block that a
merged entry leads to (three blocks, then one at the start of the second), the table
has two entries for the same bytes, both of which lead to them, and the next append
fails the assertion of line 231 when it merges them; `read` by bytes from inside a block returns as
many bytes as the whole block has, past the end of its vector; after a partial
transfer a stream keeps its old priority, so the neediest is not always served
first (line 382); the merge loop runs once from left to right, so a table can
end with equal neighbours, though line 175 says "repeatedly"; two blocks written
in the same microsecond leave one that no time span finds; a tip file that does
not parse is taken for no stream at all.

## Fairness

- The pump and the shutdown are threads the scheduler runs: weak fairness.
  A network transfer ends because `portalpool` repeats it until it does; that
  some portal answers in the end is the one assumption about the network.
- `QueueChunk` has strong fairness: a producer competes with the pump for
  `up_priorities_mutex`, held while `pumpPc = "checked"`, and gets it in the
  end. Nobody has to queue, add or shut down.
- A download that was started is scheduled (weak). Its writer owes nothing.
- `BufferedDown`: pump and downloaders are scheduled (weak; of the downloaders
  that some one runs when one can is enough, since each ends by itself), and the
  reader is with strong fairness: it competes for the stream's mutex, which the
  pump takes again and again. Wake-ups that nobody sends are not owed.
- `Storage` and `Ledger` state safety only; a portal or a server may stay silent.
- A thread inside a pool call, or keeping a worker, is scheduled (weak). Since
  every thread asks `MaxCalls` times only, a waiting thread cannot be overtaken
  for ever, and no fairness of the mutex is assumed.

## What is proved

TLAPS checks every step; the only assumptions are the named `ASSUME`s on
constants, which TLC evaluates.

**BufferedUpProofs**, for all streams, inputs, sizes and block sizes (0 too).
`Fifo` alone is not inductive: a step of the pump moves bytes between three
places and their offsets are in a fourth. `IInv` says that stored, carried and
queued bytes are *adjacent segments of the input* whose borders are `offsetup`,
`Taken` and `tailup` (`Segments`), that a stream with a queue is listed under the
priority it remembers (`NeedyListed`), and what pump, producers and owner know at
each point (`PumpKnows`, `ProducerKnows`, `TipSaved`, `MainKnows`). From it:
`Fifo`, `WritesAppend`, `NeedyListed`, `NonzeroPriorities`, `BacklogBounded`,
`FlushedBeforeExit`, and that every step is one of `UploadLog` or a stutter.

**SkystreamProofs**, for all sizes, crashes and clocks, in two parts.

Of a program that appends (`~RandomWrites`), `WriteInv` says of every uploaded
document, and of the one being written, that its table is `Chained` (entries meet,
up to the start of the block) and `Complete` (every earlier byte is in an entry, and
an entry ends no later than the document it names). Merging two neighbours keeps
both because the merged entry names `preceding`, which ends where the new block
starts. From it: `NeverAborts` when the clock does not go back, which is exactly
what `sky_clock_back` needs to break it; and refinement of `GrowingStream`.

Of a program that writes anywhere neither survives: entries overlap, and the entry
of a block whose end was overwritten goes past the start of the new one.
`AnywhereInv` keeps what does. `UploadedReach` says that every byte before a block
is in an entry of its table and that an entry's document reaches all of the entry;
`WriterReaches` says it of the table being merged and, while it is merged, of
`preceding` too, which is why a merged entry may name it. An entry and its
document start no later than the block whose table it is in, within a content no
longer, so that the bounds a search returns lie within the tail's content.

For *which* block is found, `UploadedAligned` and `WriterAligned` add what holds as
long as every write began where a block of its content ends (`Uncut`): an entry
starts at such a place, and its document agrees with the content that is to be
found (`Agrees`) up to where the entry is followed (`EntryEnd`), which is no later
than the write's start. A write at the start of a block that only a merged entry
leads to cuts that entry: `write` puts the part before it in `head`, with the old
document as target. All of that part lies before the document's own block then, and
`EntryEnd` is the start of that block. `preceding` ends by the write's start, and a
merge, which takes neighbours that meet only, keeps all of this. That the condition
is needed shows after a write inside a block: its head entry has the whole
document as target, and once an append merges it the replaced bytes are found
again. From it, without any hypothesis: the types, `LookupsReach`, and
`FindsReplaced`, by induction on the document a search is at.

**DownloadProofs**, about a program that appends, goes on to what a search
returns by every span and what it costs. `IInv` is `WriteInv` with two more parts.
`TablesLead` says that the blocks of a stream follow one another (`BlocksInOrder`)
and that an entry `Leads`: its document is a block of the stream, the entry stands
for 2^depth blocks, it ends with that document or where the document's table
ends, and every entry of the document's own table that it overlaps has a
*smaller* depth. `WriterLeads` says the same of the table being merged, and with
`Settled` how far the loop is. The single pass from left to right leaves a table
that is not always merged to the end, so that it is short needs an argument of its
own: once a pair has merged, all entries before it are deep enough for the length
of the table (`Len(l) - k <= depth` of entry k), behind it depths fall strictly
until the loop meets the next pair, and an initial table exceeds the bound by
one at most. From it:
`FindsByEverySpan` (by time too, as long as the clock does not go back);
`ShortLookup`, since entries with 2^depth blocks each cover all blocks before;
`RequestsBounded`, since depths fall on the way.

A search and the count of its requests are recursive functions. `Induction`
proves, with the set of numbers for which a fact holds in the place of a
predicate, that a recursive function over `0..n` whose steps use smaller
arguments only satisfies its own equations (`StepsDefine`), and the facts follow
by induction on the document. So this induction over data is proved.

A download is proved for offsets in bytes or blocks (`Asked \subseteq Exact`) and
the loop that leaves the offset to `read` (`~AddsSize`), for any number of
blocks and any clock: `DownloadInv` says that it is at the start of a block in
its span and in the bytes it has copied alike, or at the end. From it:
`DownloadNeverFails` and `DownloadExact`. Time is left out because both are
false there: a block written within one tick has an empty span of time, no offset
is in it, and a stream of one such block cannot be read by time at all. With
`AddsSize`, `down_twice` breaks them.

**PortalPoolProofs**, for all threads, kinds and connections. `IInv` says that a
worker is in its list or in one hand (`Conserved`) and what a thread holds at each
point of its call (`CallsKnow`). From it: `WorkersKept` and `NoSleepBesideFree`.

**BufferedDownProofs**, for any stream, tables, number of workers and part asked
for. `IInv` says who is inside which lock (`LocksHeld`), that a downloader is in
the pump's hands or queued for its own block (`QueueSound`), and that what the
program has written is the stream from its start to its offset (`ReaderSound`);
`WorkersCounted` is part of it, since a step moves a worker between two of its
terms. A pump that makes a downloader has an identity left for it because of
`QueueSound`. From it: `WorkersCounted` and refinement of `Delivery`. The four ways
a download stops, and that there is no fifth, are liveness and left to TLC.

**StorageProofs**, for any data, links, contents and list of portals. `IInv` traces
where data, digests and link come from at each point of a call (`Traceable`,
`SkylinkKept`), what the first loop has found out (`FirstLoop`, `AfterFirst`) and
what a backend has confirmed in the second (`SecondLoop`). From it:
`ReturnKeepsPromise`, `SkylinkAgreed` and the action property `ThrowsForACause`.

**LedgerProofs**, for any programs, fees, amounts and modulus. `IInv` adds to the
properties how transactions are made (`MadeWell`), what a program has in hand
(`InHand`) and that a list holds the program's own outputs and those the server
knew (`ListsKnown`). From it: `SpendsOnce`, `PhantomIsLast`, `FeePaid`,
`RefusedByOthers`.

Only model-checked: liveness (`QueuedIsSaved`, `QueueReturns`, `DownloadEnds`,
`CopyEnds`, `Served`), which the prover does not reach. Every invariant, action
property and refinement that a passing run checks is a theorem; `NeverAborts` and
what `DownloadProofs` says hold for programs that append, as their runs do.

## Plan

In this order:

1. `BufferedUp` with `Skystream` below it in place of `stored`: the refinement
   that justifies `Written`.
2. What is still found after a write cut a block: its old bytes can shadow the new
   ones once entries merge, so a property has to say which bytes are safe.
3. The tip file's temporary file, as a module of its own.

## Not modelled

The content of a skystream's cache (its entries equal the documents; which
documents it has is modelled in `BufferedDown`), digest mismatches and other
throws of `write` before its upload (they leave no trace), a read through the
skystream that has just written (its tail has no link; no program does it), the
constructor from a bare link beyond what stream-down reads, `--length` and
`--size`, data races of `get_node` from several threads (undefined
behaviour, met only on the download side, where each access is taken as atomic).
Keys, scripts, signatures and categories of the ledger; identifiers of other
names than the digests' and the skylink; `storage_process`
without a backend (its result is uninitialised) and the order of static
constructors; several streams or reading threads in one download group. `include/game/stream.hpp` declares and
nothing defines it; `bitcoin.sh` and the build files have no state.
