----------------------------- MODULE BufferedUp -----------------------------
(* The upload side of bufferedskystream.hpp.  A producer thread per stream *)
(* queues bytes with queue_local_up, one pump thread serves the stream     *)
(* with most bytes waiting, and a main thread adds streams and shuts the   *)
(* group down.  The threads meet at group.up_priorities_mutex, at each     *)
(* stream's mutex and at the condition variables up_new and uploaded.      *)
(*                                                                         *)
(* A step is what a thread does between two lock operations another thread *)
(* can observe.  up_priorities_mutex is held across steps in one place     *)
(* only, between the pump's test of "pumping" and its wait ("checked").    *)
EXTENDS Integers, SequencesExt

CONSTANTS
    Streams,        \* the streams a group may be given
    Bytes,          \* byte values
    MaxBlockSize,   \* maxblocksize: bytes per uploaded block, 0 is no limit
    Input,          \* Input[s]: the whole content of s, old and new
    Base,           \* Base[s]: how much of it is in the skystream at the start
    CallSizes       \* sizes of the vectors handed to queue_local_up

ASSUME UploadAssumption ==
    /\ MaxBlockSize \in Nat
    /\ Input \in [Streams -> Seq(Bytes)]
    /\ Base \in [Streams -> Nat]
    /\ \A s \in Streams : Base[s] <= Len(Input[s])
    /\ CallSizes \subseteq Nat \ {0}

VARIABLES
    streams,        \* the streams added so far
    groupPumping,   \* bufferedskystreams::pumping
    up_priorities,  \* the multimap of the streams to serve, neediest first
    pumping,        \* per stream, as the five below
    queueup,        \* bytes queued and not yet taken by the pump
    tailup,         \* end of what was queued
    offsetup,       \* end of what was uploaded
    uppriority,     \* the priority the stream believes it is listed under
    stored,         \* the content of the underlying skystream
    saved,          \* length of the content named by the saved identifiers
    prod,           \* where the producer of s is
    left,           \* bytes of its current call still to queue
    pumpPc,         \* where the pump thread is
    stream,         \* pump_up's local stream
    offset,         \* xfer_net_up's local offset
    data,           \* xfer_net_up's local data
    main            \* where the thread that owns the group is

groupVars == <<streams, groupPumping, pumping, main>>
prodVars  == <<prod, left>>
pumpVars  == <<stream, offset, data>>
vars == <<streams, groupPumping, up_priorities, pumping, queueup, tailup,
          offsetup, uppriority, stored, saved, prod, left, pumpPc, stream,
          offset, data, main>>

----------------------------------------------------------------------------
(* The multimap: a sequence of entries by falling priority.  An operation  *)
(* is the set of its results, which has one element.                       *)

Entries == [priority : Nat, stream : Streams]

Entry(p, s) == [priority |-> p, stream |-> s]

Listed(up, e) == \E i \in DOMAIN up : up[i] = e

\* erase the first entry that equals e, if there is one
Erase(up, e) ==
    IF Listed(up, e)
    THEN {RemoveAt(up, i) : i \in {j \in DOMAIN up : up[j] = e /\ \A k \in 1..(j - 1) : up[k] # e}}
    ELSE {up}

\* equal keys go behind their equals
Emplace(up, e) ==
    {InsertAt(up, i, e) :
        i \in {j \in 1..(Len(up) + 1) :
                  \A k \in DOMAIN up : k < j <=> up[k].priority >= e.priority}}

\* a wrong variant: the pump is not told of the first entry
NeverNewBegin(up, p) == FALSE

\* an entry emplaced at p becomes begin()
IsNewBegin(up, p) == \A i \in DOMAIN up : up[i].priority < p

----------------------------------------------------------------------------
Init ==
    /\ streams = {}
    /\ groupPumping = TRUE
    /\ up_priorities = <<>>
    /\ pumping = [s \in Streams |-> TRUE]
    /\ queueup = [s \in Streams |-> <<>>]
    /\ tailup = [s \in Streams |-> 0]
    /\ offsetup = [s \in Streams |-> 0]
    /\ uppriority = [s \in Streams |-> 0]
    /\ stored = [s \in Streams |-> SubSeq(Input[s], 1, Base[s])]
    /\ saved = Base
    /\ prod = [s \in Streams |-> "idle"]
    /\ left = [s \in Streams |-> 0]
    /\ pumpPc = "loop"
    /\ stream \in Streams
    /\ offset = 0
    /\ data = <<>>
    /\ main = "running"

\* bufferedskystreams::add and the start() of the new stream.  shutdown()
\* holds streams_mutex while it stops the streams.
Add(s) ==
    /\ s \notin streams
    /\ main # "stopping"
    /\ streams' = streams \union {s}
    /\ offsetup' = [offsetup EXCEPT ![s] = Len(stored[s])]
    /\ tailup' = [tailup EXCEPT ![s] = Len(stored[s])]
    /\ uppriority' = [uppriority EXCEPT ![s] = 0]
    /\ pumping' = [pumping EXCEPT ![s] = groupPumping]
    /\ pumpPc' = IF ~groupPumping /\ pumpPc = "waiting" THEN "loop" ELSE pumpPc
    /\ UNCHANGED <<groupPumping, up_priorities, queueup, stored, saved, prodVars,
                   pumpVars, main>>

----------------------------------------------------------------------------
(* A producer: queue_local_up.                                             *)

\* Call queue_local_up with n more bytes of s.  Nobody queues on a group that
\* is being shut down.
QueueLocalUp(s, n) ==
    /\ s \in streams
    /\ main = "running"
    /\ prod[s] = "idle"
    /\ n <= Len(Input[s]) - tailup[s]
    /\ prod' = [prod EXCEPT ![s] = "queueing"]
    /\ left' = [left EXCEPT ![s] = n]
    /\ UNCHANGED <<groupVars, up_priorities, queueup, tailup, offsetup, uppriority,
                   stored, saved, pumpPc, pumpVars>>

QueueIsFull(s) == MaxBlockSize > 0 /\ Len(queueup[s]) >= MaxBlockSize * 2

\* The queue is full: wait on "uploaded".
QueueWait(s) ==
    /\ prod[s] = "queueing"
    /\ pumpPc # "checked"
    /\ QueueIsFull(s)
    /\ prod' = [prod EXCEPT ![s] = "waiting"]
    /\ UNCHANGED <<groupVars, up_priorities, queueup, tailup, offsetup, uppriority,
                   stored, saved, left, pumpPc, pumpVars>>

\* a wrong variant: the call is not clipped
ToUploadUnclipped(s) == left[s]

\* the part of the call that fits: toupload
ToUpload(s) ==
    IF MaxBlockSize > 0 /\ Len(queueup[s]) + left[s] > MaxBlockSize * 2
    THEN MaxBlockSize * 2 - Len(queueup[s])
    ELSE left[s]

\* The multimap without the stream's old entry.  A size that equals the old
\* priority leaves the old entry in place.
WithoutOldEntry(s, size) ==
    IF size # uppriority[s] THEN Erase(up_priorities, Entry(uppriority[s], s)) ELSE {up_priorities}

\* a wrong variant: the entry is made before the priority is updated
OldEntry(s, size) == Entry(uppriority[s], s)

NewEntry(s, size) == Entry(size, s)

\* List s under its new size, and wake the pump when the new entry is first.
Relist(s, size) ==
    \E rest \in WithoutOldEntry(s, size) :
        /\ up_priorities' \in Emplace(rest, NewEntry(s, size))
        /\ pumpPc' = IF pumpPc = "waiting" /\ IsNewBegin(rest, size) THEN "loop" ELSE pumpPc

\* One turn of the loop: append what fits and list the stream.
QueueChunk(s) ==
    LET n == ToUpload(s)
    IN  /\ prod[s] = "queueing"
        /\ pumpPc # "checked"
        /\ ~QueueIsFull(s)
        /\ tailup' = [tailup EXCEPT ![s] = @ + n]
        /\ queueup' = [queueup EXCEPT ![s] = @ \o SubSeq(Input[s], tailup[s] + 1, tailup[s] + n)]
        /\ uppriority' = [uppriority EXCEPT ![s] = Len(queueup[s]) + n]
        /\ Relist(s, Len(queueup[s]) + n)
        /\ left' = [left EXCEPT ![s] = @ - n]
        /\ prod' = [prod EXCEPT ![s] = IF left[s] = n THEN "idle" ELSE "queueing"]
        /\ UNCHANGED <<groupVars, offsetup, stored, saved, pumpVars>>

\* a wrong variant: the notification is left out
NotifyNobody(s) == UNCHANGED prod

\* uploaded.notify_all() of stream s
NotifyUploaded(s) == prod' = [prod EXCEPT ![s] = IF @ = "waiting" THEN "queueing" ELSE @]

----------------------------------------------------------------------------
(* The pump thread: pump_up and the xfer_net_up it calls.                  *)

\* a wrong variant: a stopped group does not look at its streams any more
NothingListedOrStopped == up_priorities = <<>> \/ ~groupPumping

NothingListed == up_priorities = <<>>

\* Nothing is listed: stop when the group stopped, else go and wait.  The
\* scoped_lock of line 527 is a declaration of a new variable: no lock is held.
PumpEmpty ==
    /\ pumpPc = "loop"
    /\ NothingListed
    /\ pumpPc' = IF groupPumping THEN "checked" ELSE "done"
    /\ UNCHANGED <<groupVars, up_priorities, queueup, tailup, offsetup, uppriority,
                   stored, saved, prodVars, pumpVars>>

PumpWait ==
    /\ pumpPc = "checked"
    /\ pumpPc' = "waiting"
    /\ UNCHANGED <<groupVars, up_priorities, queueup, tailup, offsetup, uppriority,
                   stored, saved, prodVars, pumpVars>>

\* Serve the neediest stream.  Its entry stays in the multimap.
PumpPick ==
    /\ pumpPc = "loop"
    /\ ~NothingListed
    /\ stream' = Head(up_priorities).stream
    /\ pumpPc' = "xfer"
    /\ UNCHANGED <<groupVars, up_priorities, queueup, tailup, offsetup, uppriority,
                   stored, saved, prodVars, offset, data>>

\* Everything is uploaded: the early returns of xfer_net_up.
XferIdle ==
    /\ pumpPc = "xfer"
    /\ offsetup[stream] = tailup[stream]
    /\ IF pumping[stream] THEN UNCHANGED prod ELSE NotifyUploaded(stream)
    /\ pumpPc' = "loop"
    /\ UNCHANGED <<groupVars, up_priorities, queueup, tailup, offsetup, uppriority,
                   stored, saved, left, pumpVars>>

\* a wrong variant: the block goes to the end of what was queued
OffsetOfQueueEnd == tailup[stream]

NextOffset == offsetup[stream]

XferStart ==
    /\ pumpPc = "xfer"
    /\ offsetup[stream] # tailup[stream]
    /\ offset' = NextOffset
    /\ pumpPc' = "take"
    /\ UNCHANGED <<groupVars, up_priorities, queueup, tailup, offsetup, uppriority,
                   stored, saved, prodVars, stream, data>>

\* how many bytes of a queue of length n go in one block
BlockLength(n) == IF MaxBlockSize = 0 \/ n <= MaxBlockSize THEN n ELSE MaxBlockSize

\* a wrong variant: the last byte taken is not erased
UntakenOneMore(queue, n) == SubSeq(queue, n, Len(queue))

Untaken(queue, n) == SubSeq(queue, n + 1, Len(queue))

XferTake ==
    LET n == BlockLength(Len(queueup[stream]))
    IN  /\ pumpPc = "take"
        /\ data' = SubSeq(queueup[stream], 1, n)
        /\ queueup' = [queueup EXCEPT ![stream] = Untaken(@, n)]
        /\ pumpPc' = IF n = 0 THEN "finish" ELSE "write"
        /\ UNCHANGED <<groupVars, up_priorities, tailup, offsetup, uppriority,
                       stored, saved, prodVars, stream, offset>>

\* what a stream holds after write(bytes, "bytes", at): anything the stream
\* held from there on is gone
Written(content, bytes, at) == SubSeq(content, 1, at) \o bytes

\* The block and the new tip are in the network.
XferWrite ==
    /\ pumpPc = "write"
    /\ stored' = [stored EXCEPT ![stream] = Written(@, data, offset)]
    /\ pumpPc' = "commit"
    /\ UNCHANGED <<groupVars, up_priorities, queueup, tailup, offsetup, uppriority,
                   saved, prodVars, pumpVars>>

XferCommit ==
    /\ pumpPc = "commit"
    /\ offsetup' = [offsetup EXCEPT ![stream] = @ + Len(data)]
    /\ NotifyUploaded(stream)
    /\ pumpPc' = "finish"
    /\ UNCHANGED <<groupVars, up_priorities, queueup, tailup, uppriority,
                   stored, saved, left, pumpVars>>

\* a wrong variant: what was queued during the transfer is forgotten
AlwaysDrained == TRUE

Drained == queueup[stream] = <<>>

\* Unlist a stream whose queue is empty.
XferFinish ==
    /\ pumpPc = "finish"
    /\ IF Drained
       THEN /\ up_priorities' \in Erase(up_priorities, Entry(uppriority[stream], stream))
            /\ uppriority' = [uppriority EXCEPT ![stream] = 0]
       ELSE UNCHANGED <<up_priorities, uppriority>>
    /\ pumpPc' = IF data = <<>> THEN "loop" ELSE "callback"
    /\ UNCHANGED <<groupVars, queueup, tailup, offsetup, stored, saved, prodVars, pumpVars>>

\* The callback of the upload program: save the identifiers of the tip.
UpCallback ==
    /\ pumpPc = "callback"
    /\ saved' = [saved EXCEPT ![stream] = Len(stored[stream])]
    /\ pumpPc' = "loop"
    /\ data' = <<>>
    /\ UNCHANGED <<groupVars, up_priorities, queueup, tailup, offsetup, uppriority,
                   stored, prodVars, stream, offset>>

----------------------------------------------------------------------------
(* The owner of the group: shutdown, which notifies up_new without         *)
(* up_priorities_mutex, once per stream and once at the end.               *)

WakePump == pumpPc' = IF pumpPc = "waiting" THEN "loop" ELSE pumpPc

StopGroup ==
    /\ main = "running"
    /\ \A s \in Streams : prod[s] = "idle"
    /\ groupPumping' = FALSE
    /\ main' = "stopping"
    /\ UNCHANGED <<streams, pumping, up_priorities, queueup, tailup, offsetup,
                   uppriority, stored, saved, prodVars, pumpPc, pumpVars>>

StopStream(s) ==
    /\ main = "stopping"
    /\ s \in streams
    /\ pumping[s]
    /\ pumping' = [pumping EXCEPT ![s] = FALSE]
    /\ WakePump
    /\ UNCHANGED <<streams, groupPumping, main, up_priorities, queueup, tailup,
                   offsetup, uppriority, stored, saved, prodVars, pumpVars>>

StopNotify ==
    /\ main = "stopping"
    /\ \A s \in streams : ~pumping[s]
    /\ main' = "joining"
    /\ WakePump
    /\ UNCHANGED <<streams, groupPumping, pumping, up_priorities, queueup, tailup,
                   offsetup, uppriority, stored, saved, prodVars, pumpVars>>

\* a wrong variant: the pump thread is not joined
JoinNobody ==
    /\ main = "joining"
    /\ main' = "joined"
    /\ UNCHANGED <<streams, groupPumping, pumping, up_priorities, queueup, tailup,
                   offsetup, uppriority, stored, saved, prodVars, pumpPc, pumpVars>>

Join ==
    /\ main = "joining"
    /\ pumpPc = "done"
    /\ main' = "joined"
    /\ UNCHANGED <<streams, groupPumping, pumping, up_priorities, queueup, tailup,
                   offsetup, uppriority, stored, saved, prodVars, pumpPc, pumpVars>>

\* A condition variable may wake its waiter unasked.
SpuriousWakeup ==
    /\ \/ /\ pumpPc = "waiting"
          /\ pumpPc' = "loop"
          /\ UNCHANGED prod
       \/ /\ \E s \in Streams : prod[s] = "waiting" /\ NotifyUploaded(s)
          /\ UNCHANGED pumpPc
    /\ UNCHANGED <<groupVars, up_priorities, queueup, tailup, offsetup, uppriority,
                   stored, saved, left, pumpVars>>

----------------------------------------------------------------------------
Producer(s) == QueueWait(s) \/ QueueChunk(s) \/ \E n \in CallSizes : QueueLocalUp(s, n)

Xfer == XferIdle \/ XferStart \/ XferTake \/ XferWrite \/ XferCommit \/ XferFinish

Pump == PumpEmpty \/ PumpWait \/ PumpPick \/ Xfer \/ UpCallback

Stop == StopNotify \/ Join \/ \E s \in Streams : StopStream(s)

Next ==
    \/ Pump
    \/ Stop
    \/ StopGroup
    \/ SpuriousWakeup
    \/ \E s \in Streams : Producer(s) \/ Add(s)

\* The scheduler runs every thread that can run: the pump (a network transfer
\* ends, since portalpool::upload retries until it does) and the shutdown.  A
\* thread that keeps asking for up_priorities_mutex gets it in the end.  No
\* one has to call queue_local_up, add or shutdown.
Fairness ==
    /\ WF_vars(Pump)
    /\ WF_vars(Stop)
    /\ \A s \in Streams : WF_vars(QueueWait(s)) /\ SF_vars(QueueChunk(s))

Spec == Init /\ [][Next]_vars /\ Fairness

----------------------------------------------------------------------------
(* Properties.                                                             *)

TypeOK ==
    /\ streams \subseteq Streams
    /\ groupPumping \in BOOLEAN
    /\ up_priorities \in Seq(Entries)
    /\ pumping \in [Streams -> BOOLEAN]
    /\ queueup \in [Streams -> Seq(Bytes)]
    /\ tailup \in [Streams -> Nat]
    /\ offsetup \in [Streams -> Nat]
    /\ uppriority \in [Streams -> Nat]
    /\ stored \in [Streams -> Seq(Bytes)]
    /\ saved \in [Streams -> Nat]
    /\ prod \in [Streams -> {"idle", "queueing", "waiting"}]
    /\ left \in [Streams -> Nat]
    /\ pumpPc \in {"loop", "checked", "waiting", "xfer", "take", "write", "commit",
                   "finish", "callback", "done"}
    /\ stream \in Streams
    /\ offset \in Nat
    /\ data \in Seq(Bytes)
    /\ main \in {"running", "stopping", "joining", "joined"}

\* the bytes the pump took from the queue of s and has not counted in offsetup
Uncounted(s) == IF stream = s /\ pumpPc \in {"write", "commit"} THEN data ELSE <<>>

\* the bytes the pump took from the queue of s that the network does not hold
InFlight(s) == IF stream = s /\ pumpPc = "write" THEN data ELSE <<>>

\* No byte is lost, repeated or reordered between queue_local_up and the
\* network: what is stored, what the pump carries and what is queued are
\* together what the callers handed over (lines 172-175, 364-376).
Fifo ==
    \A s \in streams :
        stored[s] \o InFlight(s) \o queueup[s] = SubSeq(Input[s], 1, tailup[s])

\* The pump only writes at the end of the skystream, though it fixed the
\* offset before it took the data and let go of every lock in between: a write
\* anywhere else would cut what follows it off (lines 360, 373).
WritesAppend == pumpPc = "write" => offset = Len(stored[stream])

\* A stream with bytes waiting is in up_priorities under the priority it
\* remembers, so the pump finds it and the assertions of lines 185 and 383 hold.
NeedyListed ==
    \A s \in Streams :
        queueup[s] # <<>> => uppriority[s] > 0 /\ Listed(up_priorities, Entry(uppriority[s], s))

\* "only nonzero priorities in the queue, ever" (line 383), and the assertion
\* there never fails.
NonzeroPriorities ==
    /\ \A i \in DOMAIN up_priorities : up_priorities[i].priority # 0
    /\ pumpPc = "finish" => uppriority[stream] # 0

\* With a block size a stream never holds more than two blocks in its queue
\* and one in the pump (lines 163-169, 365-370).
BacklogBounded ==
    MaxBlockSize > 0 =>
        \A s \in Streams : /\ Len(queueup[s]) <= 2 * MaxBlockSize
                           /\ tailup[s] - offsetup[s] <= 3 * MaxBlockSize

\* The pump thread only ends when all that was queued on every stream is in
\* the network and named by the saved identifiers: "not flushed" (line 110) is
\* never printed after a shutdown that returned.
FlushedBeforeExit ==
    pumpPc = "done" =>
        \A s \in streams : /\ offsetup[s] = tailup[s]
                           /\ Len(stored[s]) = tailup[s]
                           /\ saved[s] = tailup[s]

\* The upload side as its user sees it.
Log == INSTANCE UploadLog WITH
           accepted <- [s \in Streams |-> IF s \in streams THEN tailup[s] ELSE Base[s]],
           log <- stored,
           closed <- main = "joined"

\* The group of streams is a group of growing logs that closes flushed.
ImplementsLog == Log!Spec

\* An entry nobody will erase: not the one its stream remembers, or a second one.
\* A chunk that brings the queue back to the size it was listed with lists it
\* again without erasing (line 182).
StaleEntry(s) ==
    \E i \in DOMAIN up_priorities :
        LET e == up_priorities[i]
        IN /\ e.stream = s
           /\ e.priority # uppriority[s] \/ \E j \in 1..(i - 1) : up_priorities[j] = e

\* The pump serves the stream of a stale entry for ever, though it has nothing
\* to write, and so starves the streams behind it.
Starves(s) == \E other \in Streams \ {s} : StaleEntry(other)

\* What was queued is in the network, and named by the saved identifiers, in
\* the end, unless another stream leaves a stale entry in the multimap.
QueuedIsSaved ==
    \A s \in Streams : \A n \in 1..Len(Input[s]) :
        s \in streams /\ tailup[s] >= n ~> saved[s] >= n \/ Starves(s)

\* A call of queue_local_up returns, though it may have to wait for the pump,
\* with the same exception.
QueueReturns == \A s \in Streams : prod[s] # "idle" ~> prod[s] = "idle" \/ Starves(s)

\* A shutdown of the group returns.
ShutdownReturns == main = "stopping" ~> main = "joined"

----------------------------------------------------------------------------
(* The inductive invariant behind the safety properties.                   *)

\* end of what the pump took from the queue of s
Taken(s) == offsetup[s] + Len(Uncounted(s))

\* end of what the network holds
Published(s) == IF stream = s /\ pumpPc = "commit" THEN Taken(s) ELSE offsetup[s]

\* Nothing happens to a stream before it is added.
NotAddedYet ==
    \A s \in Streams \ streams :
        /\ queueup[s] = <<>>
        /\ tailup[s] = offsetup[s]
        /\ prod[s] = "idle"
        /\ stored[s] = SubSeq(Input[s], 1, Base[s])
        /\ saved[s] = Base[s]
        /\ stream = s => pumpPc \in {"loop", "checked", "waiting", "done"}

\* stored, carried and queued bytes are adjacent segments of the input
SegmentsOf(s) ==
    /\ Taken(s) <= tailup[s]
    /\ tailup[s] <= Len(Input[s])
    /\ queueup[s] = SubSeq(Input[s], Taken(s) + 1, tailup[s])
    /\ Uncounted(s) = SubSeq(Input[s], offsetup[s] + 1, Taken(s))
    /\ stored[s] = SubSeq(Input[s], 1, Published(s))

Segments == \A s \in streams : SegmentsOf(s)

\* what the pump knows of its stream
PumpKnows ==
    /\ pumpPc \in {"take", "write"} => offset = offsetup[stream]
    /\ pumpPc = "take" => queueup[stream] # <<>>
    /\ pumpPc \in {"write", "commit", "finish"} => data # <<>>
    /\ pumpPc \in {"write", "commit"} /\ MaxBlockSize > 0 => Len(data) <= MaxBlockSize
    /\ pumpPc \in {"take", "write", "commit", "finish"} => uppriority[stream] > 0
    /\ \A i \in DOMAIN up_priorities :
          up_priorities[i].priority # 0 /\ up_priorities[i].stream \in streams

\* a producer in a call has bytes left, and they are in the input
ProducerKnows ==
    \A s \in Streams :
        /\ MaxBlockSize > 0 => Len(queueup[s]) <= 2 * MaxBlockSize
        /\ prod[s] # "idle" => /\ s \in streams
                               /\ main = "running"
                               /\ left[s] > 0
                               /\ tailup[s] + left[s] <= Len(Input[s])

\* the tip of a stream is saved, except between a write and its callback
TipSaved ==
    \A s \in Streams :
        \/ saved[s] = Len(stored[s])
        \/ stream = s /\ pumpPc \in {"commit", "finish", "callback"}

\* the group as its owner sees it
MainKnows ==
    /\ groupPumping <=> main = "running"
    /\ main = "joined" => pumpPc = "done"
    /\ pumpPc = "done" => /\ ~groupPumping
                          /\ \A s \in Streams : queueup[s] = <<>>

\* All of it together is preserved by every step.
IInv ==
    /\ TypeOK
    /\ NotAddedYet
    /\ Segments
    /\ NeedyListed
    /\ PumpKnows
    /\ ProducerKnows
    /\ TipSaved
    /\ MainKnows
============================================================================
