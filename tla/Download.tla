------------------------------ MODULE Download ------------------------------
(* The programs that copy a stream to their output, skystreamtest --down   *)
(* and stream-down, beside the program that writes it.  They share nothing *)
(* but the portals and the tip file: a download constructs a skystream of  *)
(* its own from the tip and calls read() until it is at the end it saw.    *)
EXTENDS Skystream

CONSTANTS
    Asked,          \* option --span: spans that offsets are counted in
    Starts,         \* option --offset
    AddsSize        \* does the program add the size of the data to an offset
                    \* that read() has moved already, as stream-down does?

ASSUME DownloadAssumption ==
    /\ Asked \subseteq SpanNames
    /\ Starts \subseteq Nat
    /\ AddsSize \in BOOLEAN

VARIABLES
    down,           \* where the program is
    downTail,       \* the tail of its skystream
    span,           \* the span its offsets are counted in
    start,          \* the offset it was asked to start from
    offset,         \* its local offset, which read() moves
    out             \* what it has written to its output

downVars == <<down, downTail, span, start, offset, out>>
allVars == <<vars, downVars>>

----------------------------------------------------------------------------
DownloadInit ==
    /\ Init
    /\ down = "closed"
    /\ downTail = 0
    /\ span \in Asked
    /\ start = 0
    /\ offset = 0
    /\ out = <<>>

\* spans(): where the first block starts and the tail ends
RangeStart(n) ==
    Min({SpansOf(n)[span].start} \union
        {Lookup(n)[k].spans[span].start : k \in DOMAIN Lookup(n)})

\* a wrong variant: one past the end
RangePastEnd(n) == SpansOf(n)[span].end + 1

RangeEnd(n) == SpansOf(n)[span].end

\* o is where a block of the stream up to n starts
StartsBlock(n, o) == \E b \in Range(IdealOf(n)) : SpansOf(b)[span].start = o

\* The skystream is constructed from the identifiers in the tip file.  With an
\* offset inside a block the program fails or reads past the end of the data
\* (README.md), and is not modelled.
Open ==
    /\ down = "closed"
    /\ start' \in {o \in Starts : o = 0 \/ StartsBlock(saved, o)}
    /\ down' = "reading"
    /\ downTail' = saved
    /\ offset' = Later(start', RangeStart(saved))
    /\ UNCHANGED <<span, out>>
    /\ UNCHANGED vars

\* a byte behind the end of the vector that holds a block
Junk == 0

\* "count" bytes of block n from position "from" on
Slice(n, from, count) ==
    LET size == nodes[n].spans.bytes.end - nodes[n].spans.bytes.start
    IN [i \in 1..count |-> IF from + i <= size THEN n ELSE Junk]

\* a wrong variant: a block is read from its beginning to the end of its bounds
WholeBlock(found) ==
    Slice(found.node, 0, found.bounds.bytes.end - found.bounds.bytes.start)

\* what read() returns of the node it found: with bytes from the offset on, and
\* as many as there are from the start of the block to the end of its bounds
Data(found) ==
    LET block == nodes[found.node].spans
    IN IF span = "bytes"
       THEN Slice(found.node, offset - block.bytes.start,
                  found.bounds.bytes.end - block.bytes.start)
       ELSE Slice(found.node, 0, block.bytes.end - block.bytes.start)

\* where read() leaves its offset
NextOffset(found) == found.bounds[span].end

\* read() throws: nothing holds the offset, or a block may not be entered there
Throws(found) ==
    \/ found.node = 0
    \/ span # "bytes" /\ offset # nodes[found.node].spans[span].start

ReadBlock ==
    LET found == GetNode(downTail, span, offset)
    IN /\ down = "reading"
       /\ offset < RangeEnd(downTail)
       /\ IF Throws(found)
          THEN down' = "failed" /\ UNCHANGED <<offset, out>>
          ELSE /\ out' = out \o Data(found)
               /\ offset' = NextOffset(found) + (IF AddsSize THEN Len(Data(found)) ELSE 0)
               /\ UNCHANGED down
       /\ UNCHANGED <<downTail, span, start>>
       /\ UNCHANGED vars

\* The offset is at or behind the end the program saw.
Close ==
    /\ down = "reading"
    /\ offset >= RangeEnd(downTail)
    /\ down' = "done"
    /\ UNCHANGED <<downTail, span, start, offset, out>>
    /\ UNCHANGED vars

DownloadNext == Open \/ ReadBlock \/ Close \/ (Next /\ UNCHANGED downVars)

\* A download that has been started is scheduled, and a request to the portals
\* is repeated until it is answered.
DownloadSpec == DownloadInit /\ [][DownloadNext]_allVars /\ WF_allVars(ReadBlock \/ Close)

----------------------------------------------------------------------------
(* Properties.                                                             *)

\* how many bytes of the stream are before the block or byte asked for
BytesBefore ==
    LET content == IdealOf(downTail)
    IN IF span = "bytes" THEN start
       ELSE Cardinality({i \in DOMAIN content : SpansOf(content[i])[span].start < start})

\* The output is the content of the stream at the moment its tip was opened,
\* from the offset asked for, whatever its writer has done since: written
\* more, crashed or started again.
DownloadExact ==
    down = "done" => out = SubSeq(IdealOf(downTail), BytesBefore + 1, Len(IdealOf(downTail)))

\* No read throws: a saved tip leads to every block before it.
DownloadNeverFails == down # "failed"

\* A download gets to its end: every read moves the offset forward.
CopyEnds == down = "reading" ~> down = "done"

----------------------------------------------------------------------------
(* The inductive invariant of a download by bytes or by index.             *)

\* the output ends before this byte, and began with the block asked for
CopiedTo(byte) ==
    \E first \in BlocksOf(downTail) :
        LET from == nodes[first].spans.bytes.start
        IN /\ nodes[first].spans[span].start = start
           /\ from <= byte
           /\ out = SubSeq(IdealOf(downTail), from + 1, byte)

\* A download is at the start of a block, in its span and in the bytes it has
\* copied alike, ...
AtABlock ==
    \E b \in BlocksOf(downTail) : /\ offset = nodes[b].spans[span].start
                                  /\ CopiedTo(nodes[b].spans.bytes.start)

\* ... or at the end it saw.
AtTheEnd == offset = RangeEnd(downTail) /\ CopiedTo(nodes[downTail].spans.bytes.end)

\* A download that was started is at one of these places, and at the end when
\* it is done.
DownloadInv ==
    /\ down \in {"closed", "reading", "done"}
    /\ downTail \in 0..Len(nodes)
    /\ span \in Asked
    /\ start \in Nat /\ offset \in Nat
    /\ down = "closed" => out = <<>>
    /\ down = "done" => offset >= RangeEnd(downTail)
    /\ down # "closed" => IF downTail = 0 THEN start = 0 /\ offset = 0 /\ out = <<>>
                          ELSE AtABlock \/ AtTheEnd
=============================================================================
