---------------------------- MODULE BufferedDown ----------------------------
(* The download side of bufferedskystream.hpp, as the program that         *)
(* downloads a stream runs it: the program's own thread calls              *)
(* xfer_local_down until it has what it wants and then shuts the group     *)
(* down, the pump thread answers it with queue_net_down, and each block is *)
(* fetched by a downloader thread of its own, with a worker the pump took  *)
(* for it.  They meet at the stream's mutex, at the mutex methodmtx of the *)
(* skystream, at the pool, and at three condition variables.               *)
(*                                                                         *)
(* A step is what a thread does between two lock operations another thread *)
(* can observe.  The skystream is only read, and its blocks are numbered   *)
(* from 1.  To find a block get_node walks from the tail through older     *)
(* documents (Path), keeps those it fetched in its cache, and uses the     *)
(* worker it was given for the first of them only.                         *)
EXTENDS Integers, SequencesExt, FiniteSets

CONSTANTS
    Border,         \* Border[b]: where block b ends
    Path,           \* Path[b]: the documents get_node reads to find block b
    Connections,    \* how many download workers the pool may have
    Starts,         \* option --offset
    Ends,           \* where the download may end: options --offset and --length
    Program, Pumper,    \* the program's own thread and the pump thread
    NoOne, NoBlock      \* null pointers

Blocks == DOMAIN Border

Start(b) == IF b = 1 THEN 0 ELSE Border[b - 1]

Total == Border[Len(Border)]

ASSUME BlocksAssumption ==
    /\ Border \in Seq(Nat) /\ Border # <<>>
    /\ \A b \in Blocks : Start(b) < Border[b]
    /\ Path \in [Blocks -> Seq(Blocks)]
    /\ Connections \subseteq Nat \ {0}
    /\ Starts \subseteq 0..(Total - 1)
    /\ Ends \subseteq 1..Total

\* A block has two downloaders at most, one that is queued and one that is made
\* in its place.
Downloaders == 1..(2 * Len(Border))

BlockOf(d) == (d + 1) \div 2

Threads == {Program, Pumper} \union Downloaders

ASSUME ThreadAssumption ==
    /\ Cardinality({Program, Pumper, NoOne}) = 3
    /\ {Program, Pumper, NoOne} \intersect Downloaders = {}
    /\ NoBlock \notin Blocks

VARIABLES
    connections,    \* how many download workers the pool was made with
    free,           \* how many of them are free
    lost,           \* how many nobody has and nobody will put back
    asleep,         \* the threads that wait on worker_free
    mutex,          \* the thread that holds the stream's mutex
    methodmtx,      \* the thread that holds the skystream's mutex
    cache,          \* the documents get_node has
    fetching,       \* the document a thread fetches with a worker of get_node's
    listed,         \* is the stream in down_priorities?
    groupPumping,   \* bufferedskystreams::pumping
    pumping,        \* bufferedskystream::pumping
    queuedown,      \* the downloader of each block that is queued
    offsetdown,     \* the offset the reader waits for
    taildown,       \* where its download ends
    reader,         \* where the program's thread is
    start, end,     \* what the program was asked for
    offset,         \* its local offset
    result,         \* what xfer_local_down has collected
    out,            \* what the program has written
    pump,           \* where the pump thread is
    pumpOffset,     \* queue_net_down's local offset
    pumpTail,       \* and tail
    first,          \* is it at the first block of its turn?
    made,           \* the downloader it has made and not queued
    at              \* where each downloader is

poolVars == <<connections, free, lost, asleep>>
lockVars == <<mutex, methodmtx>>
nodeVars == <<cache, fetching>>
groupVars == <<listed, groupPumping, pumping>>
readerVars == <<reader, start, end, offset, result, out>>
requestVars == <<offsetdown, taildown>>
pumpVars == <<pump, pumpOffset, pumpTail, first, made>>
vars == <<poolVars, lockVars, nodeVars, groupVars, readerVars, requestVars,
          queuedown, pumpVars, at>>

----------------------------------------------------------------------------
Init ==
    /\ connections \in Connections
    /\ free = connections
    /\ lost = 0
    /\ asleep = {}
    /\ mutex = NoOne /\ methodmtx = NoOne
    /\ cache = {}
    /\ fetching = [t \in Threads |-> NoBlock]
    /\ listed = FALSE
    /\ groupPumping = TRUE /\ pumping = TRUE
    /\ queuedown = [b \in Blocks |-> NoOne]
    /\ offsetdown = 0 /\ taildown = 0
    /\ reader = "call"
    /\ start \in Starts /\ end \in Ends /\ start < end
    /\ offset = start
    /\ result = <<>>
    /\ out = <<>>
    /\ pump = "loop"
    /\ pumpOffset = 0 /\ pumpTail = 0
    /\ first = TRUE
    /\ made = NoOne
    /\ at = [d \in Downloaders |-> "none"]

BlockAt(o) == CHOOSE b \in Blocks : Start(b) <= o /\ o < Border[b]

----------------------------------------------------------------------------
(* get_node, and the worker it takes when it has none for a request.       *)

\* which block a thread looks for, while it does
InNode(t) ==
    CASE t = Program -> reader = "node"
      [] t = Pumper  -> pump \in {"node", "peek"}
      [] OTHER       -> at[t] = "node"

Target(t) ==
    CASE t = Program -> BlockAt(offset)
      [] t = Pumper  -> BlockAt(pumpOffset)
      [] OTHER       -> BlockOf(t)

\* block_span without a worker: the reader's, and the pump's of line 250
HasWorker(t) == t \in Downloaders \/ (t = Pumper /\ pump = "node")

Missing(b) == {k \in DOMAIN Path[b] : Path[b][k] \notin cache}

\* the next document it has to fetch: those before it are in the cache
NextMissing(b) == Min(Missing(b))

\* get_node has all it needs
Found(t) == InNode(t) /\ fetching[t] = NoBlock /\ Missing(Target(t)) = {}

\* The recursion of get_node drops the worker: it is there for the first
\* request only.
UsesOwn(t) == HasWorker(t) /\ NextMissing(Target(t)) = 1

Asks(t) ==
    /\ InNode(t)
    /\ t \notin asleep
    /\ fetching[t] = NoBlock
    /\ Missing(Target(t)) # {}

\* A document is fetched with the worker that came with the call.
FetchWithOwn(t) ==
    /\ Asks(t)
    /\ UsesOwn(t)
    /\ cache' = cache \union {Path[Target(t)][1]}
    /\ UNCHANGED <<poolVars, lockVars, fetching, groupVars, readerVars, requestVars,
                   queuedown, pumpVars, at>>

\* It is fetched without: portalpool::download takes a worker,
FetchTakes(t) ==
    /\ Asks(t)
    /\ ~UsesOwn(t)
    /\ free > 0
    /\ free' = free - 1
    /\ fetching' = [fetching EXCEPT ![t] = Path[Target(t)][NextMissing(Target(t))]]
    /\ UNCHANGED <<connections, lost, asleep, lockVars, cache, groupVars, readerVars,
                   requestVars, queuedown, pumpVars, at>>

\* waits for one,
FetchWaits(t) ==
    /\ Asks(t)
    /\ ~UsesOwn(t)
    /\ free = 0
    /\ asleep' = asleep \union {t}
    /\ UNCHANGED <<connections, free, lost, lockVars, nodeVars, groupVars, readerVars,
                   requestVars, queuedown, pumpVars, at>>

\* putworkerback: all that wait on worker_free look again
PutWorkerBack == free' = free + 1 /\ asleep' = {}

\* and puts it back when the portal has answered.
FetchAnswered(t) ==
    /\ fetching[t] # NoBlock
    /\ cache' = cache \union {fetching[t]}
    /\ fetching' = [fetching EXCEPT ![t] = NoBlock]
    /\ PutWorkerBack
    /\ UNCHANGED <<connections, lost, lockVars, groupVars, readerVars, requestVars,
                   queuedown, pumpVars, at>>

GetNode(t) == FetchWithOwn(t) \/ FetchTakes(t) \/ FetchWaits(t) \/ FetchAnswered(t)

----------------------------------------------------------------------------
(* The program's thread: xfer_local_down.                                  *)

\* the downloader of the block it waits for, if it is queued
Awaited == IF offsetdown < Total THEN queuedown[BlockAt(offsetdown)] ELSE NoOne

\* The program calls it for the rest of what it wants.
Call ==
    /\ reader = "call"
    /\ offset < end
    /\ mutex = NoOne
    /\ mutex' = Program
    /\ taildown' = end
    /\ reader' = "sweep"
    /\ UNCHANGED <<poolVars, methodmtx, nodeVars, groupVars, start, end, offset, result,
                   out, offsetdown, queuedown, pumpVars, at>>

\* queued blocks that are not in what is wanted: line 284
Unwanted == {b \in Blocks : queuedown[b] # NoOne /\ (Start(b) > taildown \/ Border[b] < offset)}

Ended(d) == at[d] = "ended"

\* the downloader has let go of its mutex
Unlocked(d) == at[d] \in {"notify", "ended"}

\* It waits for every block that is queued, with the mutex in hand, and drops
\* those it does not want.
Sweep ==
    /\ reader = "sweep"
    /\ \A b \in Blocks : queuedown[b] # NoOne => Unlocked(queuedown[b])
    /\ \A b \in Unwanted : Ended(queuedown[b])
    /\ queuedown' = [b \in Blocks |-> IF b \in Unwanted THEN NoOne ELSE queuedown[b]]
    /\ at' = [d \in Downloaders |->
                 IF \E b \in Unwanted : queuedown[b] = d THEN "none" ELSE at[d]]
    /\ reader' = "lock"
    /\ UNCHANGED <<poolVars, lockVars, nodeVars, groupVars, start, end, offset, result,
                   out, requestVars, pumpVars>>

\* block_span, without a worker
SpanLock ==
    /\ reader = "lock"
    /\ methodmtx = NoOne
    /\ methodmtx' = Program
    /\ reader' = "node"
    /\ UNCHANGED <<poolVars, mutex, nodeVars, groupVars, start, end, offset, result,
                   out, requestVars, queuedown, pumpVars, at>>

SpanFound ==
    /\ Found(Program)
    /\ offsetdown' = Start(BlockAt(offset))
    /\ mutex' = NoOne /\ methodmtx' = NoOne
    /\ reader' = "await"
    /\ UNCHANGED <<poolVars, nodeVars, groupVars, start, end, offset, result, out,
                   taildown, queuedown, pumpVars, at>>

\* a wrong variant: down_new is not notified
WakeNobody == UNCHANGED pump

\* down_new.notify_all()
WakePump == pump' = IF pump = "waiting" THEN "loop" ELSE pump

\* The block is not queued: list the stream, which is alone and so becomes
\* begin(), and wait on moredatadown.
Await ==
    /\ reader = "await"
    /\ mutex = NoOne
    /\ pump # "checked"
    /\ pumping /\ Awaited = NoOne
    /\ listed' = TRUE
    /\ WakePump
    /\ reader' = "waiting"
    /\ UNCHANGED <<poolVars, lockVars, nodeVars, groupPumping, pumping, start, end, offset,
                   result, out, requestVars, queuedown, pumpOffset, pumpTail, first, made,
                   at>>

AwaitEnds ==
    /\ reader = "await"
    /\ mutex = NoOne
    /\ ~pumping \/ Awaited # NoOne
    /\ mutex' = Program
    /\ reader' = "take"
    /\ UNCHANGED <<poolVars, methodmtx, nodeVars, groupVars, start, end, offset, result,
                   out, requestVars, queuedown, pumpVars, at>>

\* the bytes from one offset to another, as their places in the stream
Bytes(from, to) == [i \in 1..(to - from) |-> from + i]

\* a wrong variant: the first block is taken from its start
ItemBeginOfBlock == offsetdown

\* where the part of the block begins that was asked for: itembegin
ItemBegin == Max({offset, offsetdown})

\* A block that ends where the request does, or before: it is unqueued, its
\* thread joined and its bytes collected.
TakeBlock ==
    /\ reader = "take"
    /\ Awaited # NoOne
    /\ Border[BlockAt(offsetdown)] <= end
    /\ Ended(Awaited)
    /\ result' = result \o Bytes(ItemBegin, Border[BlockAt(offsetdown)])
    /\ queuedown' = [queuedown EXCEPT ![BlockAt(offsetdown)] = NoOne]
    /\ at' = [at EXCEPT ![Awaited] = "none"]
    /\ offsetdown' = Border[BlockAt(offsetdown)]
    /\ UNCHANGED <<poolVars, lockVars, nodeVars, groupVars, reader, start, end, offset,
                   out, taildown, pumpVars>>

\* xfer_local_down returns the bytes, and the program writes them.
Return(bytes) ==
    /\ out' = out \o bytes
    /\ offset' = offset + Len(bytes)
    /\ result' = <<>>
    /\ mutex' = NoOne
    /\ reader' = "call"
    /\ UNCHANGED <<poolVars, methodmtx, nodeVars, groupVars, start, end, requestVars,
                   queuedown, pumpVars, at>>

\* The request ends before the block does, which stays queued.
TakePart ==
    /\ reader = "take"
    /\ Awaited # NoOne
    /\ end < Border[BlockAt(offsetdown)]
    /\ Unlocked(Awaited)
    /\ Return(result \o Bytes(ItemBegin, end))

\* The next block is not queued.
TakeNothing ==
    /\ reader = "take"
    /\ Awaited = NoOne
    /\ Return(result)

\* The program has it all and shuts the group down: shutdown() of the group,
\* of its stream, and of the group again.
StopGroup ==
    /\ reader = "call"
    /\ offset >= end
    /\ groupPumping' = FALSE
    /\ reader' = "stopping"
    /\ UNCHANGED <<poolVars, lockVars, nodeVars, listed, pumping, start, end, offset, result,
                   out, requestVars, queuedown, pumpVars, at>>

StopStream ==
    /\ reader = "stopping"
    /\ mutex = NoOne
    /\ pumping' = FALSE
    /\ WakePump
    /\ reader' = "stopped"
    /\ UNCHANGED <<poolVars, lockVars, nodeVars, listed, groupPumping, start, end, offset,
                   result, out, requestVars, queuedown, pumpOffset, pumpTail, first, made,
                   at>>

StopNotify ==
    /\ reader = "stopped"
    /\ WakePump
    /\ reader' = "joining"
    /\ UNCHANGED <<poolVars, lockVars, nodeVars, groupVars, start, end, offset, result, out,
                   requestVars, queuedown, pumpOffset, pumpTail, first, made, at>>

\* It joins the pump thread, and the stream's destructor joins the threads of
\* what is still queued.
Join ==
    /\ reader = "joining"
    /\ pump = "done"
    /\ \A b \in Blocks : queuedown[b] # NoOne => Ended(queuedown[b])
    /\ reader' = "exit"
    /\ UNCHANGED <<poolVars, lockVars, nodeVars, groupVars, start, end, offset, result, out,
                   requestVars, queuedown, pumpVars, at>>

Reader ==
    \/ Call \/ Sweep \/ SpanLock \/ GetNode(Program) \/ SpanFound \/ Await \/ AwaitEnds
    \/ TakeBlock \/ TakePart \/ TakeNothing \/ StopGroup \/ StopStream \/ StopNotify \/ Join

----------------------------------------------------------------------------
(* The pump thread: pump_down, and the queue_net_down it calls.            *)

\* Nothing is listed: stop when the group stopped, else go and wait.
PumpEmpty ==
    /\ pump = "loop"
    /\ ~listed
    /\ pump' = IF groupPumping THEN "checked" ELSE "done"
    /\ UNCHANGED <<poolVars, lockVars, nodeVars, groupVars, readerVars, requestVars,
                   queuedown, pumpOffset, pumpTail, first, made, at>>

PumpWait ==
    /\ pump = "checked"
    /\ pump' = "waiting"
    /\ UNCHANGED <<poolVars, lockVars, nodeVars, groupVars, readerVars, requestVars,
                   queuedown, pumpOffset, pumpTail, first, made, at>>

\* The stream is taken off the list before it is served.
PumpPick ==
    /\ pump = "loop"
    /\ listed
    /\ listed' = FALSE
    /\ pump' = "request"
    /\ UNCHANGED <<poolVars, lockVars, nodeVars, groupPumping, pumping, readerVars,
                   requestVars, queuedown, pumpOffset, pumpTail, first, made, at>>

\* queue_net_down: get the current request,
GetRequest ==
    /\ pump = "request"
    /\ mutex = NoOne
    /\ pumpOffset' = offsetdown
    /\ pumpTail' = taildown
    /\ first' = TRUE
    /\ pump' = "check"
    /\ UNCHANGED <<poolVars, lockVars, nodeVars, groupVars, readerVars, requestVars,
                   queuedown, made, at>>

\* moredatadown.notify_all()
WakeReader == reader' = IF reader = "waiting" THEN "await" ELSE reader

\* The locals of queue_net_down go out of scope.
ReturnToPump ==
    /\ pump' = "loop"
    /\ pumpOffset' = 0 /\ pumpTail' = 0
    /\ first' = TRUE
    /\ made' = NoOne

\* return when the stream is shut down or the request has no content,
CheckReturns ==
    /\ pump = "check"
    /\ mutex = NoOne
    /\ ~pumping \/ pumpOffset >= pumpTail
    /\ IF pumping THEN UNCHANGED reader ELSE WakeReader
    /\ ReturnToPump
    /\ UNCHANGED <<poolVars, lockVars, nodeVars, groupVars, start, end, offset, result, out,
                   requestVars, queuedown, at>>

CheckPasses ==
    /\ pump = "check"
    /\ mutex = NoOne
    /\ pumping /\ pumpOffset < pumpTail
    /\ pump' = "poll"
    /\ UNCHANGED <<poolVars, lockVars, nodeVars, groupVars, readerVars, requestVars,
                   queuedown, pumpOffset, pumpTail, first, made, at>>

\* a wrong variant: a worker is taken where there is none
PollTakesAny ==
    /\ pump = "poll"
    /\ free' = free - 1
    /\ pump' = "lock"
    /\ UNCHANGED <<connections, lost, asleep, lockVars, nodeVars, groupVars, readerVars,
                   requestVars, queuedown, pumpOffset, pumpTail, first, made, at>>

\* take a worker without blocking,
PollTakes ==
    /\ pump = "poll"
    /\ Pumper \notin asleep
    /\ free > 0
    /\ free' = free - 1
    /\ pump' = "lock"
    /\ UNCHANGED <<connections, lost, asleep, lockVars, nodeVars, groupVars, readerVars,
                   requestVars, queuedown, pumpOffset, pumpTail, first, made, at>>

\* return without one when there is a block already,
PollEnds ==
    /\ pump = "poll" /\ ~first
    /\ Pumper \notin asleep
    /\ free = 0
    /\ ReturnToPump
    /\ UNCHANGED <<poolVars, lockVars, nodeVars, groupVars, readerVars, requestVars,
                   queuedown, at>>

\* else wait for one, whatever was put back since.
PollFails ==
    /\ pump = "poll" /\ first
    /\ Pumper \notin asleep
    /\ free = 0
    /\ pump' = "polled"
    /\ UNCHANGED <<poolVars, lockVars, nodeVars, groupVars, readerVars, requestVars,
                   queuedown, pumpOffset, pumpTail, first, made, at>>

PollWaits ==
    /\ pump = "polled"
    /\ asleep' = asleep \union {Pumper}
    /\ pump' = "poll"
    /\ UNCHANGED <<connections, free, lost, lockVars, nodeVars, groupVars, readerVars,
                   requestVars, queuedown, pumpOffset, pumpTail, first, made, at>>

\* block_span with the worker, or without one after a block was queued: behind
\* the end it throws out_of_range, and a worker in hand is lost.
BlockSpanLock ==
    /\ pump \in {"lock", "peeklock"}
    /\ methodmtx = NoOne
    /\ pumpOffset < Total
    /\ methodmtx' = Pumper
    /\ pump' = IF pump = "lock" THEN "node" ELSE "peek"
    /\ UNCHANGED <<poolVars, mutex, nodeVars, groupVars, readerVars, requestVars,
                   queuedown, pumpOffset, pumpTail, first, made, at>>

BlockSpanThrows ==
    /\ pump \in {"lock", "peeklock"}
    /\ methodmtx = NoOne
    /\ pumpOffset >= Total
    /\ lost' = IF pump = "lock" THEN lost + 1 ELSE lost
    /\ ReturnToPump
    /\ UNCHANGED <<connections, free, asleep, lockVars, nodeVars, groupVars, readerVars,
                   requestVars, queuedown, at>>

BlockSpanFound ==
    /\ Found(Pumper)
    /\ methodmtx' = NoOne
    /\ pump' = IF pump = "node" THEN "make" ELSE "poll"
    /\ UNCHANGED <<poolVars, mutex, nodeVars, groupVars, readerVars, requestVars,
                   queuedown, pumpOffset, pumpTail, first, made, at>>

\* A downloader gets the worker and a thread.
Make ==
    /\ pump = "make"
    /\ mutex = NoOne
    /\ made' = CHOOSE d \in Downloaders : BlockOf(d) = BlockAt(pumpOffset) /\ at[d] = "none"
    /\ at' = [at EXCEPT ![made'] = "node"]
    /\ pump' = "insert"
    /\ UNCHANGED <<poolVars, lockVars, nodeVars, groupVars, readerVars, requestVars,
                   queuedown, pumpOffset, pumpTail, first>>

\* It is queued, in the place of one that is there, which is joined with the
\* mutex in hand.  After the first block the pump asks for a worker at once,
\* after the others for the next block before.
Queue(b) ==
    /\ queuedown' = [queuedown EXCEPT ![b] = made]
    /\ pumpOffset' = Border[b]
    /\ first' = FALSE
    /\ made' = NoOne
    /\ pump' = IF first THEN "poll" ELSE "peeklock"

Insert ==
    /\ pump = "insert"
    /\ mutex = NoOne
    /\ LET b == BlockAt(pumpOffset)
       IN IF queuedown[b] = NoOne
          THEN Queue(b) /\ UNCHANGED mutex
          ELSE /\ mutex' = Pumper
               /\ pump' = "replace"
               /\ UNCHANGED <<queuedown, pumpOffset, first, made>>
    /\ UNCHANGED <<poolVars, methodmtx, nodeVars, groupVars, readerVars, requestVars,
                   pumpTail, at>>

Replace ==
    /\ pump = "replace"
    /\ LET b == BlockAt(pumpOffset)
       IN /\ Ended(queuedown[b])
          /\ at' = [at EXCEPT ![queuedown[b]] = "none"]
          /\ Queue(b)
    /\ mutex' = NoOne
    /\ UNCHANGED <<poolVars, methodmtx, nodeVars, groupVars, readerVars, requestVars,
                   pumpTail>>

Pump ==
    \/ PumpEmpty \/ PumpWait \/ PumpPick \/ GetRequest \/ CheckReturns \/ CheckPasses
    \/ PollTakes \/ PollEnds \/ PollFails \/ PollWaits \/ BlockSpanLock \/ BlockSpanThrows
    \/ GetNode(Pumper) \/ BlockSpanFound \/ Make \/ Insert \/ Replace

----------------------------------------------------------------------------
(* A downloader: read() with the pump's worker.  get_node comes before the *)
(* lock.                                                                   *)

Goto(d, place) == at' = [at EXCEPT ![d] = place]

ReadLock(d) ==
    /\ Found(d)
    /\ methodmtx = NoOne
    /\ methodmtx' = d
    /\ Goto(d, "get")
    /\ UNCHANGED <<poolVars, mutex, nodeVars, groupVars, readerVars, requestVars,
                   queuedown, pumpVars>>

\* The portal answers, and read() returns.
ReadAnswered(d) ==
    /\ at[d] = "get"
    /\ methodmtx' = NoOne
    /\ Goto(d, "put")
    /\ UNCHANGED <<poolVars, mutex, nodeVars, groupVars, readerVars, requestVars,
                   queuedown, pumpVars>>

\* a wrong variant: the worker is kept
PutNothing(d) ==
    /\ at[d] = "put"
    /\ Goto(d, "notify")
    /\ UNCHANGED <<poolVars, lockVars, nodeVars, groupVars, readerVars, requestVars,
                   queuedown, pumpVars>>

\* The worker is put back, and the downloader's mutex unlocked.
Put(d) ==
    /\ at[d] = "put"
    /\ PutWorkerBack
    /\ Goto(d, "notify")
    /\ UNCHANGED <<connections, lost, lockVars, nodeVars, groupVars, readerVars,
                   requestVars, queuedown, pumpVars>>

\* The reader is told, whether the block is queued yet or not.
Notify(d) ==
    /\ at[d] = "notify"
    /\ Goto(d, "ended")
    /\ WakeReader
    /\ UNCHANGED <<poolVars, lockVars, nodeVars, groupVars, start, end, offset, result, out,
                   requestVars, queuedown, pumpVars>>

Downloader(d) ==
    GetNode(d) \/ ReadLock(d) \/ ReadAnswered(d) \/ Put(d) \/ Notify(d)

----------------------------------------------------------------------------
(* A thread that waits on a condition variable may wake for no reason.     *)

WakesUnasked ==
    \/ /\ asleep # {}
       /\ \E t \in asleep : asleep' = asleep \ {t}
       /\ UNCHANGED <<connections, free, lost, pump, reader>>
    \/ /\ reader = "waiting"
       /\ WakeReader
       /\ UNCHANGED <<poolVars, pump>>
    \/ /\ pump = "waiting"
       /\ WakePump
       /\ UNCHANGED <<poolVars, reader>>

SpuriousWakeup ==
    /\ WakesUnasked
    /\ UNCHANGED <<lockVars, nodeVars, groupVars, start, end, offset, result, out,
                   requestVars, queuedown, pumpOffset, pumpTail, first, made, at>>

Next ==
    \/ Reader
    \/ Pump
    \/ \E d \in Downloaders : Downloader(d)
    \/ SpuriousWakeup

\* Every thread runs when it can, and one that asks for a mutex again and again
\* gets it; nobody owes a thread a wake-up.  Of the downloaders it is enough
\* that one runs when some can.
Fairness ==
    /\ SF_vars(Reader)
    /\ WF_vars(Pump)
    /\ WF_vars(\E d \in Downloaders : Downloader(d))

Spec == Init /\ [][Next]_vars /\ Fairness

----------------------------------------------------------------------------
(* Properties.                                                             *)

\* The variables have their types.
TypeOK ==
    /\ connections \in Connections
    /\ free \in 0..connections /\ lost \in 0..connections
    /\ asleep \subseteq Threads
    /\ mutex \in {NoOne, Program, Pumper}
    /\ methodmtx \in {NoOne} \union Threads
    /\ cache \subseteq Blocks
    /\ fetching \in [Threads -> Blocks \union {NoBlock}]
    /\ {listed, groupPumping, pumping, first} \subseteq BOOLEAN
    /\ queuedown \in [Blocks -> {NoOne} \union Downloaders]
    /\ {offsetdown, taildown, start, end, offset, pumpOffset, pumpTail} \subseteq 0..Total
    /\ reader \in {"call", "sweep", "lock", "node", "await", "waiting", "take",
                   "stopping", "stopped", "joining", "exit"}
    /\ result \in Seq(1..Total) /\ out \in Seq(1..Total)
    /\ pump \in {"loop", "checked", "waiting", "request", "check", "poll", "polled", "lock",
                 "node", "peeklock", "peek", "make", "insert", "replace", "done"}
    /\ made \in {NoOne} \union Downloaders
    /\ at \in [Downloaders -> {"none", "node", "get", "put", "notify", "ended"}]

\* The threads that have the worker the pump took in hand,
OwnsWorker(t) ==
    \/ t = Pumper /\ pump \in {"lock", "node", "make"}
    \/ t \in Downloaders /\ at[t] \in {"node", "get", "put"}

\* and those with one get_node took, which may be the same.
Fetches(t) == fetching[t] # NoBlock

\* Whatever the order in which the pump, the reader's get_node and the
\* downloaders take workers and put them back, each worker is free, in one
\* thread's hands, or one of those the pump dropped at the end of the stream.
WorkersCounted ==
    connections = free + lost + Cardinality({t \in Threads : OwnsWorker(t)})
                              + Cardinality({t \in Threads : Fetches(t)})

\* The program writes the bytes it was asked for, in order and each once, in
\* however many parts, blocks and repeated downloads they come, and leaves
\* only when it has them all.
Promise == INSTANCE Delivery WITH
    wanted <- Bytes(start, end), output <- out, finished <- reader = "exit"

ImplementsDelivery == Promise!Spec

\* The ways in which the download stops before its end.

\* The pump dropped all workers.
WorkersLost == lost = connections

\* Who has a worker in hand and asks for a mutex that is held.
Queues(t) ==
    \/ t \in Downloaders /\ Found(t) /\ methodmtx # NoOne
    \/ t = Pumper /\ pump = "lock" /\ methodmtx # NoOne
    \/ t = Pumper /\ pump = "make" /\ mutex # NoOne

\* The one who holds methodmtx asks for a worker, and every worker is dropped,
\* in its own hands, or in those of a thread that asks for that mutex or for
\* the stream's.
WorkersHeld ==
    /\ methodmtx # NoOne
    /\ Asks(methodmtx) \/ methodmtx \in asleep
    /\ lost + Cardinality({t \in Threads : Queues(t) \/ (t = methodmtx /\ OwnsWorker(t))})
          = connections

\* A worker was put back between the pump's look and its wait.
WakeUpMissed == pump = "poll" /\ Pumper \in asleep /\ free > 0

\* The group was shut down between the pump's look and its wait.
ShutdownMissed == pump = "waiting" /\ reader = "joining"

\* Every download ends, with its program gone, or comes to rest in one of
\* these four ways: no block that is fetched twice, put in the place of
\* another, notified too early or thrown away keeps it from its end or busy
\* for ever.
DownloadEnds ==
    <>[](reader = "exit" \/ WorkersLost \/ WorkersHeld \/ WakeUpMissed \/ ShutdownMissed)

\* The comment at lines 253 to 256 says that the order of the calls makes up
\* for the lack of RAII when out_of_range ends the pump's turn: no worker is
\* dropped.  It does not hold: a turn that begins with the last block takes
\* another worker before it finds the end.
NoWorkerLost == lost = 0

----------------------------------------------------------------------------
(* The inductive invariant behind the safety properties.                   *)

\* Who is between a lock and an unlock of the stream's mutex.
LocksHeld ==
    /\ mutex = Program <=> reader \in {"sweep", "lock", "node", "take"}
    /\ mutex = Pumper <=> pump = "replace"

\* A downloader that was made is in the pump's hands or queued for its block.
QueueSound ==
    /\ \A b \in Blocks : queuedown[b] # NoOne =>
          BlockOf(queuedown[b]) = b /\ at[queuedown[b]] # "none" /\ queuedown[b] # made
    /\ \A d \in Downloaders : at[d] # "none" => d = made \/ queuedown[BlockOf(d)] = d
    /\ made # NoOne <=> pump \in {"insert", "replace"}
    /\ made # NoOne => BlockOf(made) = BlockAt(pumpOffset) /\ at[made] # "none"
    /\ pump \in {"node", "peek", "make", "insert", "replace"} => pumpOffset < Total
    /\ pump = "replace" => queuedown[BlockAt(pumpOffset)] # NoOne

\* What the program has written and collected, and how far it is.
ReaderSound ==
    /\ start <= offset /\ offset <= end
    /\ out = Bytes(start, offset)
    /\ reader \in {"sweep", "lock", "node", "await", "waiting", "take"} => offset < end
    /\ reader \in {"stopping", "stopped", "joining", "exit"} => offset = end
    /\ reader \in {"await", "waiting"} => offsetdown = Start(BlockAt(offset))
    /\ reader # "take" => result = <<>>
    /\ reader = "take" =>
          /\ result = Bytes(offset, ItemBegin)
          /\ offsetdown <= end
          /\ offsetdown <= offset => offsetdown = Start(BlockAt(offset))

IInv ==
    /\ TypeOK
    /\ WorkersCounted
    /\ LocksHeld
    /\ QueueSound
    /\ ReaderSound
============================================================================
