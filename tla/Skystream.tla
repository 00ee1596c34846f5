----------------------------- MODULE Skystream -----------------------------
(* skystream.hpp: a stream of blocks kept as immutable documents.  Every   *)
(* write uploads one document with the block's content, the spans it takes *)
(* in bytes, index and time, and a lookup table over the documents before  *)
(* it, which merges neighbours so that it stays short.  The writer knows   *)
(* the newest document, the tail; its identifiers are saved in a tip file. *)
(*                                                                         *)
(* A document's identifiers are its position in "nodes".  Every byte of a  *)
(* block is represented by the block it belongs to.  write() is one call   *)
(* at a time (writemtx); its steps are the sections it runs with methodmtx *)
(* locked, its turns of the merge loop and its uploads.  A call that       *)
(* throws before it uploads leaves no trace and is left out.               *)
EXTENDS Integers, SequencesExt

CONSTANTS
    MaxBlocks,      \* bound: documents uploaded
    MaxTime,        \* bound: the clock
    Sizes,          \* sizes of the data handed to write
    RandomWrites,   \* does the program write anywhere but at the end?
    ClockGoesBack   \* may system_clock be set back?

ASSUME SkystreamAssumption ==
    /\ MaxBlocks \in Nat
    /\ MaxTime \in Nat
    /\ Sizes \subseteq Nat \ {0}
    /\ RandomWrites \in BOOLEAN
    /\ ClockGoesBack \in BOOLEAN

VARIABLES
    nodes,          \* the documents the portals hold
    tail,           \* identifiers of skystream::tail, 0 for a fresh stream
    born,           \* when a fresh stream was constructed
    clock,          \* the last time read
    saved,          \* the identifiers in the tip file, 0 for {}
    writer,         \* where write() is
    spans,          \* write's local spans
    preceding,      \* write's local preceding, 0 if there is none
    head,           \* the entry made of head_bounds, if any, as a sequence
    lookup_nodes,   \* write's local lookup_nodes
    index,          \* the index of the merge loop, from 1
    uploads,        \* upload threads that have not finished
    ideal           \* history: the content up to each document, byte by byte

localVars == <<spans, preceding, head, lookup_nodes, index>>
vars == <<nodes, tail, born, clock, saved, writer, spans, preceding, head,
          lookup_nodes, index, uploads, ideal>>

----------------------------------------------------------------------------
SpanNames == {"bytes", "index", "time"}

Span == [start : Nat, end : Nat]

Spans == [bytes : Span, index : Span, time : Span]

Entries == [target : Nat \ {0}, spans : Spans, depth : Nat]

Documents == [spans : Spans, lookup : Seq(Entries)]

Interval(a, b) == [start |-> a, end |-> b]

\* the spans of the tail a fresh skystream is constructed with
FreshSpans(t) ==
    [bytes |-> Interval(0, 0), index |-> Interval(0, 0), time |-> Interval(t, t)]

SpansOf(n) == IF n = 0 THEN FreshSpans(born) ELSE nodes[n].spans

Lookup(n) == IF n = 0 THEN <<>> ELSE nodes[n].lookup

End(name) == SpansOf(tail)[name].end

Holds(sp, name, o) == sp[name].start <= o /\ o < sp[name].end

----------------------------------------------------------------------------
(* get_node: the node that holds an offset, with the bounds it is given:   *)
(* the spans of the last lookup entry followed, or its own.                *)

Found(n, bounds) == [node |-> n, bounds |-> bounds]

OutOfRange == Found(0, FreshSpans(0))

\* a wrong variant: an entry holds its end too
FirstEntryPastEnd(n, name, o) ==
    SelectInSeq(Lookup(n), LAMBDA e : e.spans[name].start <= o /\ o <= e.spans[name].end)

\* the first entry of the lookup table of n that holds the offset
FirstEntry(n, name, o) == SelectInSeq(Lookup(n), LAMBDA e : Holds(e.spans, name, o))

GetNode(n, name, o) ==
    LET follow[m \in 0..Len(nodes)] ==
            LET k == FirstEntry(m, name, o)
                e == Lookup(m)[k]
            IN CASE k = 0 -> OutOfRange
                 [] k # 0 /\ Holds(SpansOf(e.target), name, o) -> Found(e.target, e.spans)
                 [] OTHER -> follow[e.target]
    IN IF Holds(SpansOf(n), name, o) THEN Found(n, SpansOf(n)) ELSE follow[n]

----------------------------------------------------------------------------
Init ==
    /\ nodes = <<>>
    /\ tail = 0
    /\ born = 0
    /\ clock = 0
    /\ saved = 0
    /\ writer = "idle"
    /\ spans = FreshSpans(0)
    /\ preceding = 0
    /\ head = <<>>
    /\ lookup_nodes = <<>>
    /\ index = 1
    /\ uploads = 0
    /\ ideal = <<>>

\* wrong variants: the document of the byte after is taken for the preceding
\* one, and the preceding one gets no entry of its own
PrecedingPastEnd(start) == IF start > 0 THEN GetNode(tail, "bytes", start).node ELSE 0

LookupOfPreceding(p) == IF p = 0 THEN <<>> ELSE nodes[p].lookup

\* the document that holds the byte before the write
Preceding(start) == IF start > 0 THEN GetNode(tail, "bytes", start - 1).node ELSE 0

\* the table write starts from: the preceding document's and an entry for it
InitialLookup(p) ==
    IF p = 0 THEN <<>>
    ELSE Append(nodes[p].lookup, [target |-> p, spans |-> nodes[p].spans, depth |-> 0])

\* the spans of a block of n bytes written at byte "start" at time t
NewSpans(start, n, t) ==
    [bytes |-> Interval(start, start + n),
     index |-> Interval(End("index"), End("index") + 1),
     time |-> Interval(End("time"), t)]

\* write() up to the merge loop, for a block of n bytes at byte "start"
Begin(start, n, h) ==
    /\ writer = "idle"
    /\ Len(nodes) < MaxBlocks
    /\ \E t \in 0..MaxTime :
          /\ ClockGoesBack \/ t >= clock
          /\ clock' = t
          /\ spans' = NewSpans(start, n, t)
    /\ preceding' = Preceding(start)
    /\ lookup_nodes' = InitialLookup(preceding')
    /\ head' = h
    /\ index' = 1
    /\ writer' = "merging"
    /\ UNCHANGED <<nodes, tail, born, saved, uploads, ideal>>

\* The offset is the end of the tail in the span it is given in.
WriteAppend(n) == Begin(End("bytes"), n, <<>>)

\* The offset is elsewhere, at the start of a block or, in bytes, inside one,
\* whose beginning then gets an entry of its own.
WriteOver(name, o, n) ==
    LET at == GetNode(tail, name, o)
        bounds == at.bounds
        entry == [target |-> at.node, depth |-> 0,
                  spans |-> [bounds EXCEPT !.bytes = Interval(bounds.bytes.start, o)]]
    IN /\ RandomWrites
       /\ o # End(name)
       /\ at.node # 0
       /\ IF o = bounds[name].start THEN Begin(bounds.bytes.start, n, <<>>)
          ELSE name = "bytes" /\ Begin(o, n, <<entry>>)

----------------------------------------------------------------------------
(* The merge loop.                                                         *)

Current == lookup_nodes[index]
Following == lookup_nodes[index + 1]

\* a wrong variant: neighbours of any depth
AnyNeighbours == index < Len(lookup_nodes)

EqualNeighbours == index < Len(lookup_nodes) /\ Current.depth = Following.depth

\* the assertion of the merge loop
Contiguous == \A name \in SpanNames : Current.spans[name].end = Following.spans[name].start

Later(a, b) == IF a < b THEN b ELSE a

\* a wrong variant: the first entry's end is kept
KeepFirst(a, b) == a

Widened(a, b) == [start |-> a.start, end |-> Later(a.end, b.end)]

\* wrong variants: the entry keeps its own document, which holds the first
\* half only, and it keeps its depth
MergedKeepsTarget ==
    [target |-> Current.target, depth |-> Current.depth + 1,
     spans |-> [name \in SpanNames |-> Widened(Current.spans[name], Following.spans[name])]]

MergedKeepsDepth ==
    [target |-> preceding, depth |-> Current.depth,
     spans |-> [name \in SpanNames |-> Widened(Current.spans[name], Following.spans[name])]]

\* two neighbours as one, found through the preceding document
Merged ==
    [target |-> preceding, depth |-> Current.depth + 1,
     spans |-> [name \in SpanNames |-> Widened(Current.spans[name], Following.spans[name])]]

Merge ==
    /\ writer = "merging"
    /\ EqualNeighbours
    /\ Contiguous
    /\ lookup_nodes' = [RemoveAt(lookup_nodes, index + 1) EXCEPT ![index] = Merged]
    /\ UNCHANGED <<nodes, tail, born, clock, saved, writer, spans, preceding, head,
                   index, uploads, ideal>>

\* the assertion fails and the process ends
AssertFails ==
    /\ writer = "merging"
    /\ EqualNeighbours
    /\ ~Contiguous
    /\ writer' = "aborted"
    /\ UNCHANGED <<nodes, tail, born, clock, saved, localVars, uploads, ideal>>

Skip ==
    /\ writer = "merging"
    /\ index < Len(lookup_nodes)
    /\ ~EqualNeighbours
    /\ index' = index + 1
    /\ UNCHANGED <<nodes, tail, born, clock, saved, writer, spans, preceding, head,
                   lookup_nodes, uploads, ideal>>

\* The document is made, and two threads upload it.
StartUploads ==
    /\ writer = "merging"
    /\ index >= Len(lookup_nodes)
    /\ lookup_nodes' = lookup_nodes \o head
    /\ writer' = "uploading"
    /\ uploads' = 2
    /\ UNCHANGED <<nodes, tail, born, clock, saved, spans, preceding, head, index, ideal>>

----------------------------------------------------------------------------
IdealOf(n) == IF n = 0 THEN <<>> ELSE ideal[n]

\* the content with the bytes of the new block in their place
Overlay(old, b) ==
    [i \in 1..(IF Len(old) < b.end THEN b.end ELSE Len(old)) |->
        IF b.start < i /\ i <= b.end THEN Len(nodes) + 1 ELSE old[i]]

\* An upload thread finishes.  Both upload the same bytes, so the second one
\* only gives the document one more link.
Upload ==
    /\ writer = "uploading"
    /\ uploads > 0
    /\ uploads' = uploads - 1
    /\ IF uploads = 2
       THEN /\ nodes' = Append(nodes, [spans |-> spans, lookup |-> lookup_nodes])
            /\ ideal' = Append(ideal, Overlay(IdealOf(tail), spans.bytes))
       ELSE UNCHANGED <<nodes, ideal>>
    /\ UNCHANGED <<tail, born, clock, saved, writer, localVars>>

\* the identifiers of the document uploaded last
NewestId == Len(nodes)

\* Both threads are joined and the tail is the new document.
Commit ==
    /\ writer = "uploading"
    /\ uploads = 0
    /\ tail' = NewestId
    /\ writer' = "written"
    /\ UNCHANGED <<nodes, born, clock, saved, localVars, uploads, ideal>>

\* The program saves identifiers() in its tip file after every write.
Save ==
    /\ writer = "written"
    /\ saved' = tail
    /\ writer' = "idle"
    /\ UNCHANGED <<nodes, tail, born, clock, localVars, uploads, ideal>>

\* a wrong variant: a new program starts from nothing
StartFresh == 0

\* the tail of a new skystream constructed from the tip file
Restored == saved

\* The process stops anywhere, and a new one constructs its skystream from
\* the tip file.
Restart ==
    /\ \E t \in 0..MaxTime :
          /\ ClockGoesBack \/ t >= clock
          /\ clock' = t
          /\ born' = IF saved = 0 THEN t ELSE born
    /\ tail' = Restored
    /\ writer' = "idle"
    /\ spans' = FreshSpans(0)
    /\ preceding' = 0
    /\ head' = <<>>
    /\ lookup_nodes' = <<>>
    /\ index' = 1
    /\ uploads' = 0
    /\ UNCHANGED <<nodes, saved, ideal>>

----------------------------------------------------------------------------
\* the offsets a random write is tried at
Offsets == 0..Later(Len(IdealOf(tail)), Later(End("index"), MaxTime))

Write ==
    \E n \in Sizes : \/ WriteAppend(n)
                     \/ \E name \in SpanNames, o \in Offsets : WriteOver(name, o, n)

MergeLoop == Merge \/ AssertFails \/ Skip \/ StartUploads

Next == Write \/ MergeLoop \/ Upload \/ Commit \/ Save \/ Restart

Spec == Init /\ [][Next]_vars

----------------------------------------------------------------------------
(* Properties.                                                             *)

TypeOK ==
    /\ nodes \in Seq(Documents)
    /\ tail \in 0..Len(nodes)
    /\ born \in Nat
    /\ clock \in Nat
    /\ saved \in 0..Len(nodes)
    /\ writer \in {"idle", "merging", "uploading", "written", "aborted"}
    /\ spans \in Spans
    /\ preceding \in 0..Len(nodes)
    /\ head \in Seq(Entries)
    /\ lookup_nodes \in Seq(Entries)
    /\ index \in Nat \ {0}
    /\ uploads \in 0..2
    /\ ideal \in Seq(Seq(Nat \ {0}))
    /\ Len(ideal) = Len(nodes)

Ids == 1..Len(nodes)

\* Byte s is the first, or it follows a block of the content up to n.
BlockEnd(n, s) ==
    s # 0 => s \in DOMAIN IdealOf(n) /\ nodes[IdealOf(n)[s]].spans.bytes.end = s

\* Each write so far started where a block of its content ends, so none began
\* inside a block and replaced the rest of it.
Uncut(n) == \A m \in 1..n : BlockEnd(m, nodes[m].spans.bytes.start)

\* Until a write begins inside a block, every byte up to the end of the block a
\* program was handed last is found in the block that wrote it last, whatever
\* was appended, or written at the start of a block, before: "NOT INSERTING.
\* ONLY REPLACING." (line 502).
FindsReplaced ==
    \A n \in Ids : Uncut(n) =>
        \A o \in 0..(nodes[n].spans.bytes.end - 1) :
            GetNode(n, "bytes", o).node = ideal[n][o + 1]

\* When all writes append, a block is found by any of its bytes, its index and
\* any of its times, and the bounds read() is given end where the block ends,
\* so that read() returns the rest of the block and moves on to the next.
FindsByEverySpan ==
    \A n \in Ids, name \in SpanNames : \A b \in Range(ideal[n]) :
        LET span == nodes[b].spans[name]
        IN \A o \in span.start..(span.end - 1) :
              LET found == GetNode(n, name, o)
              IN found.node = b /\ found.bounds[name].end = span.end

\* The assertion of the merge loop (line 231) never ends the program.
NeverAborts == writer # "aborted"

\* documents opened on the way from n to the one that holds byte o
Requests(n, o) ==
    LET count[m \in 0..Len(nodes)] ==
            IF Holds(SpansOf(m), "bytes", o) \/ FirstEntry(m, "bytes", o) = 0 THEN 0
            ELSE 1 + count[Lookup(m)[FirstEntry(m, "bytes", o)].target]
    IN count[n]

\* A byte is reached "in the number of requests equal to the height of the
\* tree" (lines 18-19): an entry of depth d costs at most d + 1 documents.
RequestsBounded ==
    \A n \in Ids : \A k \in DOMAIN Lookup(n) :
        LET e == Lookup(n)[k]
        IN \A o \in e.spans.bytes.start..(e.spans.bytes.end - 1) :
              FirstEntry(n, "bytes", o) = k => Requests(n, o) <= e.depth + 1

\* The lookup table stays logarithmic in the number of blocks before, and an
\* entry of depth d stands for 2^d of them.
ShortLookup ==
    \A n \in Ids :
        /\ 2^Len(Lookup(n)) <= nodes[n].spans.index.start + 1
        /\ \A k \in DOMAIN Lookup(n) :
              LET blocks == Lookup(n)[k].spans.index
              IN blocks.end - blocks.start = 2^(Lookup(n)[k].depth)

\* byte o is in the block of n, or n has an entry that leads on to it
Reaches(n, o) ==
    \/ Holds(SpansOf(n), "bytes", o)
    \/ \E k \in DOMAIN Lookup(n) : Holds(Lookup(n)[k].spans, "bytes", o)

\* "everything in lookup nodes is accessible via preceding's identifiers" (line
\* 171): a document reaches every byte before its end, and an entry leads to an
\* older document that reaches every byte of the entry.
LookupsReach ==
    \A n \in Ids :
        /\ \A o \in 0..(nodes[n].spans.bytes.end - 1) : Reaches(n, o)
        /\ \A k \in DOMAIN Lookup(n) :
              LET e == Lookup(n)[k]
              IN /\ e.target \in 1..(n - 1)
                 /\ \A o \in e.spans.bytes.start..(e.spans.bytes.end - 1) :
                       Reaches(e.target, o)

\* the stream as its program sees it
Stream == INSTANCE GrowingStream WITH
              content <- IdealOf(tail),
              durable <- IdealOf(saved)

\* An appending program has a content that only grows, in whole writes, and a
\* restart continues from the content whose identifiers it saved last.
ImplementsGrowingStream == Stream!Spec

----------------------------------------------------------------------------
(* The inductive invariant of an appending program.                        *)

\* the spans in which blocks are known to follow each other
OrderedSpans == {name \in SpanNames : name = "time" => ~ClockGoesBack}

\* the entries of a table, one after the other up to where "to" starts
Chained(l, to) ==
    \A name \in OrderedSpans :
        /\ \A k \in DOMAIN l : l[k].spans[name].start <= l[k].spans[name].end
        /\ \A k \in DOMAIN l : k + 1 \in DOMAIN l =>
              l[k].spans[name].end = l[k + 1].spans[name].start
        /\ l # <<>> => l[Len(l)].spans[name].end = to[name].start

\* a table holds every byte before "to", in entries no longer than what their
\* documents reach
Complete(l, to) ==
    /\ \A o \in 0..(to.bytes.start - 1) :
          \E k \in DOMAIN l : Holds(l[k].spans, "bytes", o)
    /\ \A k \in DOMAIN l :
          /\ l[k].target \in Ids
          /\ l[k].spans.bytes.end <= nodes[l[k].target].spans.bytes.end
          /\ l[k].spans.bytes.end <= to.bytes.start

\* spans a block can have
Proper(sp) ==
    /\ \A name \in OrderedSpans : sp[name].start <= sp[name].end
    /\ sp.bytes.start < sp.bytes.end
    /\ ~ClockGoesBack => sp.time.end <= clock

\* what is uploaded
UploadedIsSound ==
    \A n \in Ids :
        /\ Proper(nodes[n].spans)
        /\ Chained(Lookup(n), nodes[n].spans)
        /\ Complete(Lookup(n), nodes[n].spans)
        /\ \A k \in DOMAIN Lookup(n) : Lookup(n)[k].target < n
        /\ Len(ideal[n]) = nodes[n].spans.bytes.end

\* what write() is about to upload
WriterIsSound ==
    writer \in {"merging", "uploading"} =>
        /\ head = <<>>
        /\ preceding = tail
        /\ \A name \in SpanNames : spans[name].start = End(name)
        /\ Proper(spans)
        /\ Chained(lookup_nodes, spans)
        /\ Complete(lookup_nodes, spans)
        /\ tail = 0 => lookup_nodes = <<>>

\* between the first upload and the commit the newest document is the next tail
UploadIsNewest ==
    writer = "uploading" /\ uploads < 2 =>
        /\ nodes # <<>>
        /\ IsStrictPrefix(IdealOf(tail), ideal[Len(nodes)])

WriteInv ==
    /\ TypeOK
    /\ ~ClockGoesBack => born <= clock
    /\ UploadedIsSound
    /\ WriterIsSound
    /\ UploadIsNewest
    /\ writer # "aborted" \/ ClockGoesBack

\* the blocks of the stream up to n
BlocksOf(n) == Range(IdealOf(n))

\* where the first block of that stream starts
FirstStart(n, name) == InitialLookup(n)[1].spans[name].start

\* The blocks of a stream follow one another, and each byte is in its block.
BlocksInOrder(n) ==
    /\ n \in BlocksOf(n)
    /\ \A b \in BlocksOf(n) : b \in 1..n /\ BlocksOf(b) \subseteq BlocksOf(n)
    /\ \A b, c \in BlocksOf(n) : b < c =>
          \A name \in OrderedSpans : nodes[b].spans[name].end <= nodes[c].spans[name].start
    /\ \A b \in BlocksOf(n) \ {n} : \E c \in BlocksOf(n) :
          \A name \in SpanNames : nodes[c].spans[name].start = nodes[b].spans[name].end
    /\ \A i \in DOMAIN ideal[n] : Holds(nodes[ideal[n][i]].spans, "bytes", i - 1)
    /\ \A name \in {"bytes", "index"} : FirstStart(n, name) = 0
    /\ \A b \in BlocksOf(n), name \in OrderedSpans :
          FirstStart(n, name) <= nodes[b].spans[name].start

Overlap(a, b) == a.start < b.end /\ b.start < a.end

\* where an entry overlaps the table of n, it stands for as many blocks or more
CoversTable(e, n) ==
    \A k \in DOMAIN Lookup(n) :
        Overlap(Lookup(n)[k].spans.bytes, e.spans.bytes) => Lookup(n)[k].depth <= e.depth

\* The document of an entry of depth d leads to its 2^d blocks, in one step for
\* its own and else through entries of smaller depth.  An entry that reaches
\* into its document's block ends with it.
Leads(e) ==
    LET own == nodes[e.target].spans
    IN /\ e.spans.bytes.start < e.spans.bytes.end
       /\ \A name \in OrderedSpans :
             /\ FirstStart(e.target, name) <= e.spans[name].start
             /\ e.spans[name].end = own[name].end \/ e.spans[name].end <= own[name].start
       /\ e.spans.index.end - e.spans.index.start = 2^e.depth
       /\ \A k \in DOMAIN Lookup(e.target) :
             Overlap(Lookup(e.target)[k].spans.bytes, e.spans.bytes) =>
                 Lookup(e.target)[k].depth < e.depth

\* The depths of a table never rise.
Falling(l) == \A k \in DOMAIN l : k + 1 \in DOMAIN l => l[k + 1].depth <= l[k].depth

\* The table is as short as its depths allow.
Short(l) == \A k \in DOMAIN l : Len(l) - k <= l[k].depth

TablesLead ==
    \A n \in Ids :
        /\ BlocksInOrder(n)
        /\ nodes[n].spans.index.end = nodes[n].spans.index.start + 1
        /\ \A k \in DOMAIN Lookup(n) : Lookup(n)[k].target \in BlocksOf(n) /\ Leads(Lookup(n)[k])
        /\ Falling(Lookup(n)) /\ Short(Lookup(n))

\* The merge loop at entry i has merged up to entry j, which makes the table
\* short there, or to none; since then it has met falling depths only.
Settled(l, i) ==
    /\ \A k \in DOMAIN l : Len(l) - k <= l[k].depth + 1
    /\ \E j \in 0..i :
          /\ \A k \in DOMAIN l : k <= j => Len(l) - k <= l[k].depth
          /\ \A k \in DOMAIN l :
                k + 1 \in DOMAIN l /\ j <= k /\ (k < i \/ k = j) => l[k + 1].depth < l[k].depth

WriterLeads ==
    writer \in {"merging", "uploading"} =>
        /\ spans.index.end = spans.index.start + 1
        /\ tail # 0 => LET l == lookup_nodes
                       IN /\ l # <<>>
                          /\ \A name \in OrderedSpans :
                                /\ l[1].spans[name].start = FirstStart(tail, name)
                                /\ l[Len(l)].spans[name].start <= nodes[tail].spans[name].start
                          /\ \A k \in DOMAIN l :
                                l[k].target \in BlocksOf(tail) /\ Leads(l[k])
                                /\ CoversTable(l[k], tail)
                          /\ Falling(l)
                          /\ writer = "merging" => Settled(l, index)
                          /\ writer = "uploading" => Short(l)

IInv == WriteInv /\ TablesLead /\ WriterLeads

----------------------------------------------------------------------------
(* The inductive invariant of a program that writes anywhere.              *)

\* An entry of a block written at "start" has bytes, and its document reaches
\* all of them.  Neither starts later than the block, nor goes past a content of
\* this length.
EntryReaches(e, start, length) ==
    /\ e.target \in Ids
    /\ nodes[e.target].spans.bytes.start <= start
    /\ Len(ideal[e.target]) <= length
    /\ e.spans.bytes.start <= start
    /\ e.spans.bytes.start < e.spans.bytes.end
    /\ e.spans.bytes.end <= length
    /\ \A o \in e.spans.bytes.start..(e.spans.bytes.end - 1) : Reaches(e.target, o)

\* and every byte before the block is in an entry.
TableReaches(l, start, length) ==
    /\ \A o \in 0..(start - 1) : \E k \in DOMAIN l : Holds(l[k].spans, "bytes", o)
    /\ \A k \in DOMAIN l : EntryReaches(l[k], start, length)

UploadedReach ==
    \A n \in Ids :
        LET own == nodes[n].spans.bytes
        IN /\ own.start < own.end /\ own.end <= Len(ideal[n])
           /\ ideal[n] \in Seq(1..n)
           /\ TableReaches(Lookup(n), own.start, Len(ideal[n]))
           /\ \A k \in DOMAIN Lookup(n) : Lookup(n)[k].target < n

\* A document reaches all of a table.
ReachesTable(p, l) ==
    \A k \in DOMAIN l :
        \A o \in l[k].spans.bytes.start..(l[k].spans.bytes.end - 1) : Reaches(p, o)

\* While it is merged, the table is reached through "preceding" as well.
WriterReaches ==
    writer \in {"merging", "uploading"} =>
        LET start == spans.bytes.start
            length == Len(IdealOf(tail))
        IN /\ start < spans.bytes.end /\ start <= length
           /\ TableReaches(lookup_nodes, start, length)
           /\ \A k \in DOMAIN head : EntryReaches(head[k], start, length)
           /\ IF preceding = 0 THEN lookup_nodes = <<>> /\ head = <<>>
              ELSE /\ nodes[preceding].spans.bytes.start <= start
                   /\ Len(ideal[preceding]) <= length
                   /\ writer = "merging" => ReachesTable(preceding, lookup_nodes)

\* The content up to n has the bytes of m before byte "upTo".
Agrees(m, n, upTo) == \A i \in 1..upTo : IdealOf(n)[i] = IdealOf(m)[i]

\* where the part of its document an entry is followed into ends: with the block,
\* or, if all of the entry is before that, where the block starts
EntryEnd(e) ==
    LET own == nodes[e.target].spans.bytes
    IN IF e.spans.bytes.end <= own.start THEN own.start ELSE own.end

\* An entry of a block written at "start" to the content up to n starts where a
\* block ends and is followed only to bytes which that content still has.
EntryAligned(e, n, start) ==
    /\ e.spans.bytes.end <= nodes[e.target].spans.bytes.end
    /\ EntryEnd(e) <= start
    /\ Agrees(e.target, n, EntryEnd(e))
    /\ BlockEnd(n, e.spans.bytes.start)

TableAligned(l, n, start) == \A k \in DOMAIN l : EntryAligned(l[k], n, start)

UploadedAligned ==
    \A n \in Ids : Uncut(n) =>
        LET own == nodes[n].spans.bytes
        IN /\ \A i \in (own.start + 1)..own.end : ideal[n][i] = n
           /\ TableAligned(Lookup(n), n, own.start)

\* So is the table of the document in the making, if it starts where a block
\* ends, and the block before it is all there.
WriterAligned ==
    LET start == spans.bytes.start
    IN /\ writer = "merging" \/ (writer = "uploading" /\ uploads = 2)
       /\ Uncut(Len(nodes))
       /\ BlockEnd(tail, start)
       => /\ TableAligned(lookup_nodes, tail, start)
          /\ writer = "merging" =>
                /\ TableAligned(head, tail, start)
                /\ preceding # 0 =>
                      LET end == nodes[preceding].spans.bytes.end
                      IN /\ end <= start
                         /\ Agrees(preceding, tail, end)
                         /\ \A k \in DOMAIN lookup_nodes : lookup_nodes[k].spans.bytes.end <= end

AnywhereInv ==
    /\ TypeOK
    /\ UploadedReach /\ WriterReaches
    /\ UploadedAligned /\ WriterAligned
=============================================================================
