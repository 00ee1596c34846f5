-------------------------- MODULE DownloadProofs --------------------------
(* Proofs about reading a stream that a program appends to: the tables     *)
(* write() leaves behind, what get_node finds with them, and the downloads *)
(* of Download.                                                            *)
EXTENDS Download, SkystreamProofs

----------------------------------------------------------------------------
(* Documents and tables.                                                   *)

LEMMA OrderedAreNames == OrderedSpans \subseteq SpanNames /\ "bytes" \in OrderedSpans /\ "index" \in OrderedSpans
  BY DEF OrderedSpans, SpanNames

\* The entries of a table follow one another.
LEMMA ChainGrows ==
    ASSUME NEW l \in Seq(Entries), NEW to \in Spans, Chained(l, to),
           NEW name \in OrderedSpans
    PROVE  /\ \A i, j \in DOMAIN l : i < j => l[i].spans[name].end <= l[j].spans[name].start
           /\ \A i \in DOMAIN l : l[i].spans[name].start <= l[i].spans[name].end
           /\ \A i \in DOMAIN l : l[i].spans[name].end <= to[name].start
  <1> DEFINE s(i) == l[i].spans[name].start
             e(i) == l[i].spans[name].end
  <1>1. \A k \in DOMAIN l : s(k) \in Nat /\ e(k) \in Nat
    BY EntrySpan, OrderedAreNames
  <1>2. /\ \A k \in DOMAIN l : s(k) <= e(k)
        /\ \A k \in DOMAIN l : k + 1 \in DOMAIN l => e(k) = s(k + 1)
        /\ l # <<>> => e(Len(l)) = to[name].start
    BY DEF Chained
  <1>3. DOMAIN l = 1..Len(l) /\ Len(l) \in Nat
    OBVIOUS
  <1> HIDE DEF s, e
  <1> DEFINE T == {j \in Nat : j \in DOMAIN l => \A i \in DOMAIN l : i < j => e(i) <= s(j)}
  <1>4. ASSUME NEW j \in Nat, \A k \in Nat : k < j => k \in T PROVE j \in T
    <2> SUFFICES ASSUME j \in DOMAIN l, NEW i \in DOMAIN l, i < j PROVE e(i) <= s(j)
      OBVIOUS
    <2>1. j - 1 \in DOMAIN l /\ j - 1 \in T /\ e(j - 1) = s(j) /\ i <= j - 1
      <3>1. j - 1 \in Nat /\ j - 1 < j /\ j - 1 \in DOMAIN l /\ (j - 1) + 1 = j /\ i <= j - 1
        BY <1>3
      <3> QED BY <1>2, <1>4, <3>1
    <2>2. CASE i = j - 1
      BY <1>1, <2>1, <2>2
    <2>3. CASE i # j - 1
      <3>1. i < j - 1
        BY <1>3, <2>1, <2>3
      <3>2. e(i) <= s(j - 1) /\ s(j - 1) <= e(j - 1)
        BY <1>2, <2>1, <3>1
      <3> QED BY <1>1, <2>1, <3>2
    <2> QED BY <2>2, <2>3
  <1> HIDE DEF T
  <1>5. Nat \subseteq T
    BY <1>4, CompleteInduction
  <1>6. \A i, j \in DOMAIN l : i < j => e(i) <= s(j)
    BY <1>3, <1>5 DEF T
  <1>7. ASSUME NEW i \in DOMAIN l PROVE e(i) <= to[name].start
    <2>1. to[name].start \in Nat
      BY SpanFields, OrderedAreNames
    <2>2. Len(l) \in DOMAIN l /\ e(Len(l)) = to[name].start
      BY <1>2, <1>3
    <2>3. CASE i = Len(l)
      BY <1>1, <2>2, <2>3
    <2>4. CASE i < Len(l)
      BY <1>1, <1>2, <1>6, <2>1, <2>2, <2>4
    <2> QED BY <1>3, <2>3, <2>4
  <1> QED BY <1>2, <1>6, <1>7 DEF s, e

\* An offset behind the start of the first entry is in an entry,
LEMMA ChainCovers ==
    ASSUME NEW l \in Seq(Entries), NEW to \in Spans, Chained(l, to),
           NEW name \in OrderedSpans, NEW o \in Nat, l # <<>>,
           l[1].spans[name].start <= o, o < to[name].start
    PROVE  \E k \in DOMAIN l : Holds(l[k].spans, name, o)
  <1> DEFINE T == {k \in DOMAIN l : o < l[k].spans[name].end}
  <1>1. DOMAIN l = 1..Len(l) /\ Len(l) \in Nat \ {0}
    OBVIOUS
  <1>2. /\ \A k \in DOMAIN l : k + 1 \in DOMAIN l =>
              l[k].spans[name].end = l[k + 1].spans[name].start
        /\ l[Len(l)].spans[name].end = to[name].start
    BY DEF Chained
  <1>3. T \subseteq Nat /\ T # {}
    BY <1>1, <1>2
  <1> HIDE DEF T
  <1>4. PICK k \in T : \A j \in T : k <= j
    BY <1>3, LeastNumber
  <1>5. k \in DOMAIN l /\ o < l[k].spans[name].end
    BY <1>4 DEF T
  <1>6. l[k].spans[name].start <= o
    <2>1. CASE k = 1
      BY <2>1
    <2>2. CASE k # 1
      <3>1. k - 1 \in DOMAIN l /\ (k - 1) + 1 = k /\ k - 1 \notin T
        BY <1>1, <1>4, <1>5, <2>2
      <3>2. l[k - 1].spans[name].end = l[k].spans[name].start
        BY <1>2, <1>5, <3>1
      <3>3. l[k].spans[name].start \in Nat
        BY <1>5, EntrySpan, OrderedAreNames
      <3> QED BY <3>1, <3>2, <3>3 DEF T
    <2> QED BY <2>1, <2>2
  <1> QED BY <1>5, <1>6 DEF Holds

\* and in no other.
LEMMA ChainHoldsOnce ==
    ASSUME NEW l \in Seq(Entries), NEW to \in Spans, Chained(l, to),
           NEW name \in OrderedSpans, NEW o \in Nat,
           NEW i \in DOMAIN l, NEW j \in DOMAIN l,
           Holds(l[i].spans, name, o), Holds(l[j].spans, name, o)
    PROVE  i = j
  <1>1. \A k \in {i, j} : /\ k \in Nat
                          /\ l[k].spans[name].start \in Nat /\ l[k].spans[name].end \in Nat
                          /\ l[k].spans[name].start <= o /\ o < l[k].spans[name].end
    BY EntrySpan, OrderedAreNames DEF Holds
  <1>2. i < j => l[i].spans[name].end <= l[j].spans[name].start
    BY ChainGrows
  <1>3. j < i => l[j].spans[name].end <= l[i].spans[name].start
    BY ChainGrows
  <1> QED BY <1>1, <1>2, <1>3

----------------------------------------------------------------------------
(* What get_node finds.                                                    *)

\* The parts of the invariant about one document.
LEMMA Sound ==
    ASSUME IInv, NEW n \in Ids
    PROVE  /\ TypeOK /\ WriteInv
           /\ Proper(nodes[n].spans)
           /\ Chained(Lookup(n), nodes[n].spans)
           /\ Complete(Lookup(n), nodes[n].spans)
           /\ \A k \in DOMAIN Lookup(n) : Lookup(n)[k].target < n
           /\ Len(ideal[n]) = nodes[n].spans.bytes.end
           /\ BlocksInOrder(n)
           /\ nodes[n].spans.index.end = nodes[n].spans.index.start + 1
           /\ \A k \in DOMAIN Lookup(n) :
                 Lookup(n)[k].target \in BlocksOf(n) /\ Leads(Lookup(n)[k])
           /\ Falling(Lookup(n)) /\ Short(Lookup(n))
  BY DEF IInv, WriteInv, UploadedIsSound, TablesLead

LEMMA FirstStartIs ==
    ASSUME TypeOK, NEW n \in Ids, NEW name \in SpanNames
    PROVE  /\ Lookup(n) = <<>> => FirstStart(n, name) = nodes[n].spans[name].start
           /\ Lookup(n) # <<>> => FirstStart(n, name) = Lookup(n)[1].spans[name].start
           /\ FirstStart(n, name) \in Nat
  <1> DEFINE own == [target |-> n, spans |-> nodes[n].spans, depth |-> 0]
  <1>1. /\ n # 0 /\ n \in Nat \ {0} /\ Lookup(n) = nodes[n].lookup /\ Lookup(n) \in Seq(Entries)
        /\ nodes[n].spans \in Spans
    BY Doc
  <1>2. InitialLookup(n) = Append(Lookup(n), own)
    BY <1>1 DEF InitialLookup
  <1>3. own \in Entries /\ own.spans = nodes[n].spans
    BY <1>1 DEF Entries
  <1> HIDE DEF own
  <1>4. CASE Lookup(n) = <<>>
    <2>1. Append(Lookup(n), own)[1] = own
      BY <1>3, <1>4
    <2> QED BY <1>1, <1>2, <1>3, <1>4, <2>1, SpanFields DEF FirstStart
  <1>5. CASE Lookup(n) # <<>>
    <2>1. 1 \in 1..Len(Lookup(n)) /\ 1 \in DOMAIN Lookup(n)
      BY <1>1, <1>5
    <2>2. Append(Lookup(n), own)[1] = Lookup(n)[1]
      BY <1>1, <1>3, <2>1, AppendKeepsOld
    <2> QED BY <1>1, <1>2, <1>5, <2>1, <2>2, EntrySpan DEF FirstStart
  <1> QED BY <1>4, <1>5

\* The table of a document leads on to an offset before its block.
LEMMA TableStep ==
    ASSUME IInv, NEW n \in Ids, NEW name \in OrderedSpans, NEW o \in Nat,
           FirstStart(n, name) <= o, o < nodes[n].spans[name].start
    PROVE  LET k == FirstEntry(n, name, o)
               e == Lookup(n)[k]
               t == e.target
           IN /\ k # 0
              /\ t \in Ids /\ t < n /\ t \in BlocksOf(n)
              /\ e.spans \in Spans
              /\ FirstStart(t, name) <= o /\ o < nodes[t].spans[name].end
              /\ Holds(nodes[t].spans, name, o) =>
                    e.spans[name].end = nodes[t].spans[name].end
  <1> DEFINE l == Lookup(n)
             k == FirstEntry(n, name, o)
             e == l[k]
             t == e.target
  <1>1. /\ TypeOK /\ WriteInv /\ name \in SpanNames
        /\ l \in Seq(Entries) /\ nodes[n].spans \in Spans /\ Chained(l, nodes[n].spans)
        /\ nodes[n].spans[name].start \in Nat
    BY Sound, Doc, SpanFields, OrderedAreNames
  <1>2. l # <<>> /\ l[1].spans[name].start <= o
    BY <1>1, FirstStartIs
  <1>3. \E j \in DOMAIN l : Holds(l[j].spans, name, o)
    BY <1>1, <1>2, ChainCovers
  <1>4. k \in DOMAIN l /\ k # 0 /\ Holds(e.spans, name, o)
    <2>1. DOMAIN l = 1..Len(l) /\ Len(l) \in Nat
      BY <1>1
    <2> QED BY <1>3, <2>1, FirstEntryIs
  <1>5. t \in Ids /\ t < n /\ e.spans \in Spans
    BY <1>1, <1>4, WriteInvOlder, TargetsOlder
  <1>6. t \in BlocksOf(n) /\ Leads(e)
    BY <1>4, Sound
  <1> HIDE DEF l, k, e, t
  <1>7. /\ e.spans[name].start \in Nat /\ e.spans[name].end \in Nat
        /\ nodes[t].spans[name].start \in Nat /\ nodes[t].spans[name].end \in Nat
        /\ FirstStart(t, name) \in Nat
    BY <1>1, <1>5, Doc, SpanFields, FirstStartIs
  <1>8. nodes[t].spans[name].start <= nodes[t].spans[name].end
    BY <1>5, Sound DEF Proper
  <1>9. /\ FirstStart(t, name) <= e.spans[name].start
        /\ \/ e.spans[name].end = nodes[t].spans[name].end
           \/ e.spans[name].end <= nodes[t].spans[name].start
    BY <1>6 DEF Leads, t
  <1>10. e.spans[name].start <= o /\ o < e.spans[name].end
    BY <1>4 DEF Holds
  <1>11. FirstStart(t, name) <= o /\ o < nodes[t].spans[name].end
    BY <1>7, <1>8, <1>9, <1>10
  <1>12. Holds(nodes[t].spans, name, o) => e.spans[name].end = nodes[t].spans[name].end
    BY <1>7, <1>9, <1>10 DEF Holds
  <1> QED BY <1>4, <1>5, <1>6, <1>11, <1>12 DEF l, k, e, t

\* What get_node is to find for offset o in the stream up to n.
Finds(found, n, name, o) ==
    /\ found.node \in BlocksOf(n) /\ found.node \in Ids
    /\ Holds(nodes[found.node].spans, name, o)
    /\ found.bounds \in Spans
    /\ found.bounds[name].end = nodes[found.node].spans[name].end

LEMMA FollowFinds ==
    ASSUME IInv, NEW name \in OrderedSpans, NEW o \in Nat
    PROVE  \A n \in Ids : FirstStart(n, name) <= o /\ o < nodes[n].spans[name].start =>
              Finds(Follow(name, o)[n], n, name, o)
  <1> DEFINE T == {n \in Nat : n \in Ids /\ FirstStart(n, name) <= o
                                 /\ o < nodes[n].spans[name].start =>
                               Finds(Follow(name, o)[n], n, name, o)}
  <1>0. WriteInv /\ TypeOK /\ name \in SpanNames
    BY OrderedAreNames DEF IInv, WriteInv
  <1>1. ASSUME NEW n \in Nat, \A m \in Nat : m < n => m \in T PROVE n \in T
    <2> SUFFICES ASSUME n \in Ids, FirstStart(n, name) <= o, o < nodes[n].spans[name].start
                 PROVE  Finds(Follow(name, o)[n], n, name, o)
      OBVIOUS
    <2> DEFINE k == FirstEntry(n, name, o)
               e == Lookup(n)[k]
               t == e.target
    <2>1. /\ k # 0
          /\ t \in Ids /\ t < n /\ t \in BlocksOf(n)
          /\ e.spans \in Spans
          /\ FirstStart(t, name) <= o /\ o < nodes[t].spans[name].end
          /\ Holds(nodes[t].spans, name, o) => e.spans[name].end = nodes[t].spans[name].end
      BY TableStep
    <2>2. Follow(name, o)[n] = FollowStep(Follow(name, o), n, name, o)
      BY <1>0, Doc, WriteInvOlder, FollowIs
    <2>3. SpansOf(t) = nodes[t].spans /\ t \in Nat /\ nodes[t].spans[name].start \in Nat
      BY <1>0, <2>1, Doc, SpanFields
    <2>4. CASE Holds(nodes[t].spans, name, o)
      <3>1. Follow(name, o)[n] = Found(t, e.spans)
        BY <2>1, <2>2, <2>3, <2>4 DEF FollowStep
      <3> HIDE DEF e, t, k
      <3> QED BY <2>1, <2>4, <3>1 DEF Finds, Found
    <2>5. CASE ~Holds(nodes[t].spans, name, o)
      <3>1. Follow(name, o)[n] = Follow(name, o)[t]
        BY <2>1, <2>2, <2>3, <2>5 DEF FollowStep
      <3> HIDE DEF e, t, k
      <3>2. o < nodes[t].spans[name].start
        BY <2>1, <2>3, <2>5 DEF Holds
      <3>3. Finds(Follow(name, o)[t], t, name, o)
        BY <1>1, <2>1, <2>3, <3>2
      <3>4. BlocksOf(t) \subseteq BlocksOf(n)
        BY <2>1, Sound DEF BlocksInOrder
      <3> QED BY <3>1, <3>3, <3>4 DEF Finds
    <2> QED BY <2>4, <2>5
  <1> HIDE DEF T
  <1>2. Nat \subseteq T
    BY <1>1, CompleteInduction
  <1> QED BY <1>0, <1>2, Doc DEF T

\* get_node finds the block of a stream that holds an offset, from its first
\* block to its end, and bounds that end with the block.
LEMMA GetNodeFinds ==
    ASSUME IInv, NEW n \in Ids, NEW name \in OrderedSpans, NEW o \in Nat,
           FirstStart(n, name) <= o, o < nodes[n].spans[name].end
    PROVE  Finds(GetNode(n, name, o), n, name, o)
  <1>1. /\ TypeOK /\ name \in SpanNames /\ SpansOf(n) = nodes[n].spans
        /\ nodes[n].spans \in Spans /\ nodes[n].spans[name].start \in Nat
    BY Sound, Doc, SpanFields, OrderedAreNames
  <1>2. n \in BlocksOf(n)
    BY Sound DEF BlocksInOrder
  <1>3. CASE Holds(nodes[n].spans, name, o)
    BY <1>1, <1>2, <1>3, GetNodeFollows DEF Finds, Found
  <1>4. CASE ~Holds(nodes[n].spans, name, o)
    <2>1. o < nodes[n].spans[name].start
      BY <1>1, <1>4 DEF Holds
    <2>2. GetNode(n, name, o) = Follow(name, o)[n]
      BY <1>1, <1>4, GetNodeFollows
    <2> QED BY <2>1, <2>2, FollowFinds
  <1> QED BY <1>3, <1>4

\* The blocks of a stream do not overlap.
LEMMA OneBlockHolds ==
    ASSUME IInv, NEW n \in Ids, NEW name \in OrderedSpans, NEW o \in Nat,
           NEW b \in BlocksOf(n), NEW c \in BlocksOf(n),
           Holds(nodes[b].spans, name, o), Holds(nodes[c].spans, name, o)
    PROVE  b = c
  <1>1. /\ BlocksInOrder(n) /\ TypeOK /\ n \in 1..Len(nodes) /\ Len(nodes) \in Nat
    BY Sound, Doc DEF Ids
  <1>2. b \in Ids /\ c \in Ids
    BY <1>1 DEF BlocksInOrder, Ids
  <1>3. /\ \A d \in {b, c} : /\ d \in Nat
                             /\ nodes[d].spans[name].start \in Nat
                             /\ nodes[d].spans[name].end \in Nat
    BY <1>1, <1>2, Doc, SpanFields, OrderedAreNames
  <1>4. /\ b < c => nodes[b].spans[name].end <= nodes[c].spans[name].start
        /\ c < b => nodes[c].spans[name].end <= nodes[b].spans[name].start
    BY <1>1 DEF BlocksInOrder
  <1> QED BY <1>3, <1>4 DEF Holds

LEMMA FindsBySpans == IInv /\ ~ClockGoesBack => FindsByEverySpan
  <1> SUFFICES ASSUME IInv, ~ClockGoesBack, NEW n \in Ids, NEW name \in SpanNames,
                      NEW b \in Range(ideal[n]),
                      NEW o \in nodes[b].spans[name].start..(nodes[b].spans[name].end - 1)
               PROVE  LET found == GetNode(n, name, o)
                      IN found.node = b /\ found.bounds[name].end = nodes[b].spans[name].end
    BY DEF FindsByEverySpan
  <1>1. name \in OrderedSpans
    BY DEF OrderedSpans
  <1>2. /\ BlocksInOrder(n) /\ TypeOK /\ n \in 1..Len(nodes) /\ Len(nodes) \in Nat
        /\ b \in BlocksOf(n)
    BY Sound, Doc DEF Ids, BlocksOf
  <1>3. b \in Ids /\ b \in 1..n /\ n \in Ids
    BY <1>2 DEF BlocksInOrder, Ids
  <1>4. \A d \in {b, n} : /\ nodes[d].spans[name].start \in Nat
                          /\ nodes[d].spans[name].end \in Nat
                          /\ nodes[d].spans[name].start <= nodes[d].spans[name].end
    BY <1>1, <1>2, <1>3, Doc, SpanFields, Sound DEF Proper
  <1>5. o \in Nat /\ nodes[b].spans[name].start <= o /\ o < nodes[b].spans[name].end
    BY <1>4
  <1>6. FirstStart(n, name) <= nodes[b].spans[name].start /\ FirstStart(n, name) \in Nat
    BY <1>1, <1>2, FirstStartIs DEF BlocksInOrder
  <1>7. b = n \/ nodes[b].spans[name].end <= nodes[n].spans[name].start
    BY <1>1, <1>2, <1>3 DEF BlocksInOrder
  <1>8. FirstStart(n, name) <= o /\ o < nodes[n].spans[name].end
    BY <1>4, <1>5, <1>6, <1>7
  <1>9. Finds(GetNode(n, name, o), n, name, o)
    BY <1>1, <1>5, <1>8, GetNodeFinds
  <1>10. GetNode(n, name, o).node = b
    BY <1>1, <1>2, <1>5, <1>9, OneBlockHolds DEF Finds, Holds
  <1> QED BY <1>9, <1>10 DEF Finds

----------------------------------------------------------------------------
(* The invariant is kept: documents do not change.                         *)

LEMMA KeepsLookups ==
    ASSUME TypeOK, Keeps
    PROVE  \A n \in Ids : /\ Lookup(n)' = Lookup(n) /\ BlocksOf(n)' = BlocksOf(n)
                          /\ \A name : FirstStart(n, name)' = FirstStart(n, name)
  <1> SUFFICES ASSUME NEW n \in Ids
               PROVE  /\ Lookup(n)' = Lookup(n) /\ BlocksOf(n)' = BlocksOf(n)
                      /\ \A name : FirstStart(n, name)' = FirstStart(n, name)
    OBVIOUS
  <1>1. n # 0 /\ nodes'[n] = nodes[n] /\ ideal'[n] = ideal[n]
    BY Doc DEF Keeps
  <1>2. Lookup(n)' = Lookup(n)
    BY <1>1 DEF Lookup
  <1>3. BlocksOf(n)' = BlocksOf(n)
    <2>1. IdealOf(n)' = IdealOf(n)
      BY <1>1 DEF IdealOf
    <2> QED BY <2>1 DEF BlocksOf
  <1>4. InitialLookup(n)' = InitialLookup(n)
    BY <1>1 DEF InitialLookup
  <1> QED BY <1>2, <1>3, <1>4 DEF FirstStart

LEMMA KeepsOrder ==
    ASSUME TypeOK, Keeps
    PROVE  \A n \in Ids : BlocksInOrder(n) => BlocksInOrder(n)'
  <1> SUFFICES ASSUME NEW n \in Ids, BlocksInOrder(n) PROVE BlocksInOrder(n)'
    OBVIOUS
  <1>1. /\ n \in BlocksOf(n)
        /\ \A b \in BlocksOf(n) : b \in 1..n /\ BlocksOf(b) \subseteq BlocksOf(n)
        /\ \A b, c \in BlocksOf(n) : b < c =>
              \A name \in OrderedSpans : nodes[b].spans[name].end <= nodes[c].spans[name].start
        /\ \A b \in BlocksOf(n) \ {n} : \E c \in BlocksOf(n) :
              \A name \in SpanNames : nodes[c].spans[name].start = nodes[b].spans[name].end
        /\ \A i \in DOMAIN ideal[n] : Holds(nodes[ideal[n][i]].spans, "bytes", i - 1)
        /\ \A name \in {"bytes", "index"} : FirstStart(n, name) = 0
        /\ \A b \in BlocksOf(n), name \in OrderedSpans :
              FirstStart(n, name) <= nodes[b].spans[name].start
    BY DEF BlocksInOrder
  <1>2. n \in 1..Len(nodes) /\ n \in Nat /\ Len(nodes) \in Nat
    BY Doc DEF Ids
  <1>3. \A b \in BlocksOf(n) : b \in Ids
    BY <1>1, <1>2 DEF Ids
  <1>4. \A b \in BlocksOf(n) : nodes'[b] = nodes[b] /\ BlocksOf(b)' = BlocksOf(b)
    BY <1>3, KeepsLookups DEF Keeps
  <1>5. /\ BlocksOf(n)' = BlocksOf(n) /\ ideal'[n] = ideal[n]
        /\ \A name : FirstStart(n, name)' = FirstStart(n, name)
    BY KeepsLookups DEF Keeps
  <1>6. ASSUME NEW i \in DOMAIN ideal[n]
        PROVE  Holds(nodes'[ideal[n][i]].spans, "bytes", i - 1)
    <2>1. ideal[n][i] \in BlocksOf(n)
      BY Doc DEF BlocksOf, Range
    <2> QED BY <1>1, <1>4, <2>1
  <1>7. n \in BlocksOf(n)' /\ \A b \in BlocksOf(n)' : b \in 1..n /\ BlocksOf(b)' \subseteq BlocksOf(n)'
    BY <1>1, <1>4, <1>5
  <1>8. \A b, c \in BlocksOf(n)' : b < c =>
           \A name \in OrderedSpans : nodes'[b].spans[name].end <= nodes'[c].spans[name].start
    BY <1>1, <1>4, <1>5
  <1>9. \A b \in BlocksOf(n)' \ {n} : \E c \in BlocksOf(n)' :
           \A name \in SpanNames : nodes'[c].spans[name].start = nodes'[b].spans[name].end
    BY <1>1, <1>4, <1>5
  <1>10. \A i \in DOMAIN ideal'[n] : Holds(nodes'[ideal'[n][i]].spans, "bytes", i - 1)
    BY <1>5, <1>6
  <1>11. /\ \A name \in {"bytes", "index"} : FirstStart(n, name)' = 0
         /\ \A b \in BlocksOf(n)', name \in OrderedSpans :
               FirstStart(n, name)' <= nodes'[b].spans[name].start
    BY <1>1, <1>4, <1>5
  <1> QED BY <1>7, <1>8, <1>9, <1>10, <1>11 DEF BlocksInOrder

LEMMA KeepsLeads ==
    ASSUME TypeOK, Keeps
    PROVE  /\ \A e : e.target \in Ids /\ Leads(e) => Leads(e)'
           /\ \A e, n : n \in Ids /\ CoversTable(e, n) => CoversTable(e, n)'
  <1>1. ASSUME NEW e, e.target \in Ids, Leads(e) PROVE Leads(e)'
    <2> DEFINE t == e.target
    <2>1. /\ nodes'[t] = nodes[t] /\ Lookup(t)' = Lookup(t)
          /\ \A name : FirstStart(t, name)' = FirstStart(t, name)
      BY <1>1, KeepsLookups DEF Keeps
    <2> QED BY <1>1, <2>1 DEF Leads
  <1>2. ASSUME NEW e, NEW n, n \in Ids, CoversTable(e, n) PROVE CoversTable(e, n)'
    <2>1. Lookup(n)' = Lookup(n)
      BY <1>2, KeepsLookups
    <2> QED BY <1>2, <2>1 DEF CoversTable
  <1> QED BY <1>1, <1>2

\* What the invariant says of one document stays true of it.
LEMMA KeepsTables ==
    ASSUME IInv, Keeps, NEW n \in Ids
    PROVE  /\ BlocksInOrder(n)'
           /\ nodes'[n].spans.index.end = nodes'[n].spans.index.start + 1
           /\ \A k \in DOMAIN Lookup(n)' :
                 Lookup(n)'[k].target \in BlocksOf(n)' /\ Leads(Lookup(n)[k])'
           /\ Falling(Lookup(n))' /\ Short(Lookup(n))'
  <1>1. /\ TypeOK /\ BlocksInOrder(n)
        /\ nodes[n].spans.index.end = nodes[n].spans.index.start + 1
        /\ Falling(Lookup(n)) /\ Short(Lookup(n))
    BY Sound
  <1>2. BlocksInOrder(n)'
    BY <1>1, KeepsOrder
  <1>3. nodes'[n] = nodes[n] /\ Lookup(n)' = Lookup(n) /\ BlocksOf(n)' = BlocksOf(n)
    BY <1>1, KeepsLookups DEF Keeps
  <1>4. Falling(Lookup(n))' /\ Short(Lookup(n))'
    BY <1>1, <1>3 DEF Falling, Short
  <1>5. ASSUME NEW k \in DOMAIN Lookup(n)'
        PROVE Lookup(n)'[k].target \in BlocksOf(n)' /\ Leads(Lookup(n)[k])'
    <2>1. PICK e : e = Lookup(n)[k]
      OBVIOUS
    <2>2. e.target \in BlocksOf(n) /\ Leads(e) /\ e.target \in Ids
      BY <1>3, <1>5, <2>1, Sound, WriteInvOlder, TargetsOlder
    <2>3. Leads(e)'
      BY <1>1, <2>2, KeepsLeads
    <2>4. e = Lookup(n)'[k]
      BY <1>3, <2>1
    <2>5. Leads(Lookup(n)[k])'
      BY <2>3, <2>4
    <2> QED BY <1>3, <2>2, <2>4, <2>5
  <1> QED BY <1>1, <1>2, <1>3, <1>4, <1>5

\* When there is no new document, the tables are what they were.
LEMMA SameTables ==
    ASSUME IInv, UNCHANGED <<nodes, ideal>>
    PROVE  Keeps /\ TablesLead'
  <1>1. Ids' = Ids
    BY DEF Ids
  <1>2. Keeps
    BY <1>1 DEF Keeps
  <1> QED BY <1>1, <1>2, KeepsTables DEF TablesLead

----------------------------------------------------------------------------
(* write() up to the merge loop: the tail's table and an entry for it.     *)

\* The entries of a table do not overlap.
LEMMA NoOverlap ==
    ASSUME NEW l \in Seq(Entries), NEW to \in Spans, Chained(l, to),
           NEW i \in DOMAIN l, NEW j \in DOMAIN l,
           Overlap(l[i].spans.bytes, l[j].spans.bytes)
    PROVE  i = j
  <1>1. "bytes" \in OrderedSpans
    BY OrderedAreNames
  <1>2. /\ i < j => l[i].spans["bytes"].end <= l[j].spans["bytes"].start
        /\ j < i => l[j].spans["bytes"].end <= l[i].spans["bytes"].start
    BY <1>1, ChainGrows
  <1>3. \A k \in {i, j} : /\ k \in Nat
                          /\ l[k].spans["bytes"].start \in Nat /\ l[k].spans["bytes"].end \in Nat
    BY <1>1, EntrySpan, OrderedAreNames
  <1> QED BY <1>2, <1>3 DEF Overlap

LEMMA BeginLeads ==
    ASSUME IInv, tail # 0, NEW l, l = InitialLookup(tail)
    PROVE  /\ l \in Seq(Entries) /\ l # <<>>
           /\ \A name \in OrderedSpans :
                 /\ l[1].spans[name].start = FirstStart(tail, name)
                 /\ l[Len(l)].spans[name].start <= nodes[tail].spans[name].start
           /\ \A k \in DOMAIN l :
                 l[k].target \in BlocksOf(tail) /\ Leads(l[k]) /\ CoversTable(l[k], tail)
           /\ Falling(l) /\ Settled(l, 1)
  <1> DEFINE old == Lookup(tail)
             m == Len(old)
             own == [target |-> tail, spans |-> nodes[tail].spans, depth |-> 0]
  <1>1. /\ TypeOK /\ tail \in Ids
    BY DEF IInv, WriteInv, TypeOK, Ids
  <1>2. /\ Proper(nodes[tail].spans) /\ Chained(old, nodes[tail].spans)
        /\ BlocksInOrder(tail)
        /\ nodes[tail].spans.index.end = nodes[tail].spans.index.start + 1
        /\ \A k \in DOMAIN old : old[k].target \in BlocksOf(tail) /\ Leads(old[k])
        /\ Falling(old) /\ Short(old)
    BY <1>1, Sound
  <1>3. /\ old \in Seq(Entries) /\ nodes[tail].spans \in Spans /\ old = nodes[tail].lookup
        /\ tail \in Nat \ {0} /\ m \in Nat /\ DOMAIN old = 1..m
    BY <1>1, Doc
  <1>4. own \in Entries /\ own.spans = nodes[tail].spans /\ own.target = tail /\ own.depth = 0
    BY <1>3 DEF Entries
  <1> HIDE DEF own
  <1>5. /\ l = Append(old, own) /\ l \in Seq(Entries) /\ l # <<>> /\ Len(l) = m + 1
        /\ DOMAIN l = 1..(m + 1)
        /\ \A k \in 1..m : l[k] = old[k]
        /\ l[m + 1] = own
    <2>1. l = Append(old, own)
      BY <1>3 DEF InitialLookup, own
    <2> HIDE DEF old
    <2> QED BY <1>3, <1>4, <2>1, Appended
  <1> HIDE DEF m, old
  <1>6. ASSUME NEW name \in OrderedSpans
        PROVE  /\ l[1].spans[name].start = FirstStart(tail, name)
               /\ l[Len(l)].spans[name].start <= nodes[tail].spans[name].start
    <2>1. FirstStart(tail, name) = l[1].spans[name].start
      BY DEF FirstStart
    <2>2. nodes[tail].spans[name].start \in Nat
      BY <1>3, SpanFields, OrderedAreNames
    <2> QED BY <1>4, <1>5, <2>1, <2>2
  <1>7. \A k \in 1..m : /\ old[k].spans["bytes"].start \in Nat
                        /\ old[k].spans["bytes"].end \in Nat
                        /\ old[k].spans["bytes"].end <= nodes[tail].spans["bytes"].start
                        /\ old[k].depth \in Nat
    BY <1>2, <1>3, ChainGrows, EntrySpan, OrderedAreNames, EntryFields
  <1>8. nodes[tail].spans["bytes"].start \in Nat /\ nodes[tail].spans["bytes"].end \in Nat
    BY <1>3, SpanFields, OrderedAreNames
  <1>9. \A k \in 1..m : ~Overlap(old[k].spans.bytes, own.spans.bytes)
    BY <1>4, <1>7, <1>8 DEF Overlap
  <1>10. Leads(own)
    <2>1. own.spans.bytes.start < own.spans.bytes.end
      BY <1>2, <1>4 DEF Proper
    <2>2. own.spans.index.end - own.spans.index.start = 2^own.depth
      <3>1. own.spans["index"].start \in Nat
        BY <1>3, <1>4, SpanFields, OrderedAreNames
      <3> QED BY <1>2, <1>4, <3>1, PowerOfZero
    <2>3. \A name \in OrderedSpans : FirstStart(tail, name) <= own.spans[name].start
      BY <1>2, <1>4 DEF BlocksInOrder
    <2> QED BY <1>3, <1>4, <1>9, <2>1, <2>2, <2>3 DEF Leads, old
  <1>11. CoversTable(own, tail)
    BY <1>3, <1>9 DEF CoversTable, old
  <1>12. ASSUME NEW k \in 1..m PROVE CoversTable(old[k], tail)
    <2> SUFFICES ASSUME NEW j \in 1..m, Overlap(old[j].spans.bytes, old[k].spans.bytes)
                 PROVE  old[j].depth <= old[k].depth
      BY <1>3 DEF CoversTable, old
    <2>1. j = k
      BY <1>2, <1>3, NoOverlap
    <2> QED BY <1>7, <2>1
  <1>13. ASSUME NEW k \in DOMAIN l
         PROVE  l[k].target \in BlocksOf(tail) /\ Leads(l[k]) /\ CoversTable(l[k], tail)
    <2>1. CASE k \in 1..m
      BY <1>2, <1>3, <1>5, <1>12, <2>1
    <2>2. CASE k = m + 1
      BY <1>2, <1>4, <1>5, <1>10, <1>11, <2>2 DEF BlocksInOrder
    <2> QED BY <1>3, <1>5, <2>1, <2>2
  <1>14. Falling(l)
    <2> SUFFICES ASSUME NEW k \in 1..(m + 1), k + 1 \in 1..(m + 1)
                 PROVE  l[k + 1].depth <= l[k].depth
      BY <1>5 DEF Falling
    <2>1. CASE k + 1 \in 1..m
      <3>1. k \in DOMAIN old /\ k + 1 \in DOMAIN old /\ k \in 1..m
        BY <1>3, <2>1
      <3>2. old[k + 1].depth <= old[k].depth
        BY <1>2, <3>1 DEF Falling
      <3> QED BY <1>5, <2>1, <3>1, <3>2
    <2>2. CASE k + 1 = m + 1
      <3>1. k \in 1..m /\ l[k + 1].depth = 0
        BY <1>3, <1>4, <1>5, <2>2
      <3>2. l[k].depth \in Nat
        BY <1>5, <1>7, <3>1
      <3> QED BY <3>1, <3>2
    <2> QED BY <1>3, <2>1, <2>2
  <1>15. Settled(l, 1)
    <2>1. ASSUME NEW k \in 1..(m + 1) PROVE Len(l) - k <= l[k].depth + 1
      <3>1. CASE k \in 1..m
        <4>1. m - k <= old[k].depth
          BY <1>2, <1>3, <3>1 DEF Short, m
        <4>2. Len(l) = m + 1 /\ l[k].depth = old[k].depth /\ old[k].depth \in Nat
          BY <1>5, <1>7, <3>1
        <4> QED BY <1>3, <3>1, <4>1, <4>2
      <3>2. CASE k = m + 1
        <4>1. l[k].depth = 0
          BY <1>4, <1>5, <3>2
        <4>2. Len(l) - k = 0
          BY <1>3, <1>5, <3>2
        <4> QED BY <4>1, <4>2
      <3> QED BY <1>3, <3>1, <3>2
    <2>2. /\ \A k \in DOMAIN l : k <= 0 => Len(l) - k <= l[k].depth
          /\ \A k \in DOMAIN l :
                k + 1 \in DOMAIN l /\ 0 <= k /\ (k < 1 \/ k = 0) => l[k + 1].depth < l[k].depth
      BY <1>3, <1>5
    <2>3. 0 \in 0..1
      OBVIOUS
    <2> QED BY <1>5, <2>1, <2>2, <2>3 DEF Settled
  <1> QED BY <1>5, <1>6, <1>13, <1>14, <1>15

----------------------------------------------------------------------------
(* The merge loop.                                                         *)

\* What is known of the table write() is merging.
LEMMA LeadingFacts ==
    ASSUME IInv, writer \in {"merging", "uploading"}, tail # 0
    PROVE  /\ TypeOK /\ WriteInv /\ tail \in Ids
           /\ lookup_nodes \in Seq(Entries) /\ lookup_nodes # <<>>
           /\ spans \in Spans /\ head = <<>>
           /\ \A name \in SpanNames : spans[name].start = nodes[tail].spans[name].end
           /\ Proper(spans)
           /\ Chained(lookup_nodes, spans)
           /\ spans.index.end = spans.index.start + 1
           /\ \A name \in OrderedSpans :
                 /\ lookup_nodes[1].spans[name].start = FirstStart(tail, name)
                 /\ lookup_nodes[Len(lookup_nodes)].spans[name].start
                       <= nodes[tail].spans[name].start
           /\ \A k \in DOMAIN lookup_nodes :
                 /\ lookup_nodes[k].target \in BlocksOf(tail)
                 /\ Leads(lookup_nodes[k])
                 /\ CoversTable(lookup_nodes[k], tail)
           /\ Falling(lookup_nodes)
           /\ writer = "merging" => Settled(lookup_nodes, index)
           /\ writer = "uploading" => Short(lookup_nodes)
  <1>1. TypeOK /\ WriteInv /\ tail \in Ids
    BY DEF IInv, WriteInv, TypeOK, Ids
  <1>2. /\ head = <<>> /\ Proper(spans) /\ Chained(lookup_nodes, spans)
        /\ \A name \in SpanNames : spans[name].start = End(name)
    BY <1>1 DEF WriteInv, WriterIsSound
  <1>3. \A name \in SpanNames : End(name) = nodes[tail].spans[name].end
    BY DEF End, SpansOf
  <1>4. spans \in Spans /\ lookup_nodes \in Seq(Entries)
    BY <1>1 DEF TypeOK
  <1> QED BY <1>1, <1>2, <1>3, <1>4 DEF IInv, WriterLeads

\* The merged entry ends with the tail's block or before it,
LEMMA MergedEnds ==
    ASSUME IInv, writer = "merging", EqualNeighbours, Contiguous, NEW name \in OrderedSpans
    PROVE  /\ FirstStart(tail, name) <= Merged.spans[name].start
           /\ \/ Merged.spans[name].end = nodes[tail].spans[name].end
              \/ Merged.spans[name].end <= nodes[tail].spans[name].start
  <1> DEFINE l == lookup_nodes
             m == Len(l)
             s(k) == l[k].spans[name].start
             e(k) == l[k].spans[name].end
  <1>1. WriteInv /\ index \in DOMAIN l /\ index + 1 \in DOMAIN l /\ l # <<>> /\ name \in SpanNames
    BY MergingFacts, OrderedAreNames DEF IInv, EqualNeighbours
  <1>2. tail # 0
    BY <1>1, MergingFacts
  <1>3. /\ l \in Seq(Entries) /\ spans \in Spans /\ Chained(l, spans) /\ tail \in Ids /\ TypeOK
        /\ s(1) = FirstStart(tail, name)
        /\ s(m) <= nodes[tail].spans[name].start
        /\ spans[name].start = nodes[tail].spans[name].end
    BY <1>1, <1>2, LeadingFacts
  <1>4. /\ m \in Nat \ {0} /\ DOMAIN l = 1..m /\ index \in 1..m /\ index + 1 \in 1..m
    BY <1>1, <1>3
  <1>5. \A k \in 1..m : s(k) \in Nat /\ e(k) \in Nat
    BY <1>1, <1>3, <1>4, EntrySpan
  <1>6. /\ \A i, j \in 1..m : i < j => e(i) <= s(j)
        /\ \A i \in 1..m : s(i) <= e(i)
    BY <1>3, <1>4, ChainGrows
  <1>7. e(m) = spans[name].start
    BY <1>1, <1>3 DEF Chained
  <1>8. Merged.spans[name].start = s(index) /\ Merged.spans[name].end = e(index + 1)
    BY <1>1, MergedIsSound DEF Current, Following
  <1>9. nodes[tail].spans[name].start \in Nat /\ nodes[tail].spans[name].end \in Nat
    BY <1>1, <1>3, Doc, SpanFields
  <1> HIDE DEF s, e, m, l
  <1>10. s(1) <= s(index)
    <2>1. CASE index = 1
      BY <1>4, <1>5, <2>1
    <2>2. CASE 1 < index
      <3>1. 1 \in 1..m /\ e(1) <= s(index) /\ s(1) <= e(1)
        BY <1>4, <1>6, <2>2
      <3> QED BY <1>4, <1>5, <3>1
    <2> QED BY <1>4, <2>1, <2>2
  <1>11. index + 1 = m \/ e(index + 1) <= s(m)
    BY <1>4, <1>6
  <1> QED BY <1>3, <1>4, <1>5, <1>7, <1>8, <1>9, <1>10, <1>11

\* and where it overlaps the tail's table, one of the entries it is made of does.
LEMMA MergedCovers ==
    ASSUME IInv, writer = "merging", EqualNeighbours, Contiguous, NEW k \in DOMAIN Lookup(tail),
           Overlap(Lookup(tail)[k].spans.bytes, Merged.spans.bytes)
    PROVE  Lookup(tail)[k].depth <= Current.depth
  <1> DEFINE a == Lookup(tail)[k].spans
             c == Current.spans
             f == Following.spans
             sp == Merged.spans
  <1>1. /\ WriteInv /\ index \in DOMAIN lookup_nodes /\ index + 1 \in DOMAIN lookup_nodes
        /\ Current.depth = Following.depth
    BY MergingFacts DEF IInv, EqualNeighbours
  <1>2. tail # 0
    BY <1>1, MergingFacts
  <1>3. tail \in Ids /\ lookup_nodes \in Seq(Entries) /\ Lookup(tail) \in Seq(Entries)
    BY <1>1, <1>2, LeadingFacts, Doc
  <1>4. CoversTable(Current, tail) /\ CoversTable(Following, tail)
    BY <1>1, <1>2, LeadingFacts DEF Current, Following
  <1>5. Leads(Lookup(tail)[k])
    BY <1>3, Sound
  <1>6. "bytes" \in SpanNames /\ "bytes" \in OrderedSpans
    BY OrderedAreNames
  <1>7. /\ a["bytes"].start \in Nat /\ a["bytes"].end \in Nat
        /\ c["bytes"].start \in Nat /\ c["bytes"].end \in Nat
        /\ f["bytes"].start \in Nat /\ f["bytes"].end \in Nat
    BY <1>1, <1>3, <1>6, EntrySpan DEF Current, Following
  <1>8. a["bytes"].start < a["bytes"].end
    BY <1>5 DEF Leads
  <1>9. /\ c["bytes"].end = f["bytes"].start
        /\ sp["bytes"].start = c["bytes"].start
        /\ sp["bytes"].end = f["bytes"].end
    BY <1>1, <1>6, MergedIsSound DEF Contiguous
  <1>10. Overlap(a["bytes"], c["bytes"]) \/ Overlap(a["bytes"], f["bytes"])
    <2>1. a["bytes"].start < sp["bytes"].end /\ sp["bytes"].start < a["bytes"].end
      BY DEF Overlap
    <2> HIDE DEF a, c, f, sp
    <2> QED BY <1>7, <1>8, <1>9, <2>1 DEF Overlap
  <1> QED BY <1>1, <1>4, <1>10 DEF CoversTable

\* The loop after a merge: the merged entry is settled.
LEMMA MergeSettles ==
    ASSUME NEW old \in Seq(Entries), NEW l \in Seq(Entries), NEW i \in Nat \ {0},
           i < Len(old), Falling(old), Settled(old, i), old[i].depth = old[i + 1].depth,
           Len(l) = Len(old) - 1, l[i].depth = old[i].depth + 1,
           \A k \in 1..(i - 1) : l[k] = old[k],
           \A k \in (i + 1)..(Len(old) - 1) : l[k] = old[k + 1]
    PROVE  Falling(l) /\ Settled(l, i)
  <1> DEFINE m == Len(old)
             d(k) == old[k].depth
             dd(k) == l[k].depth
  <1>1. /\ m \in Nat /\ DOMAIN old = 1..m /\ DOMAIN l = 1..(m - 1) /\ i \in 1..(m - 1)
        /\ \A k \in 1..m : d(k) \in Nat
    BY EntryFields
  <1>2. \A k \in 1..m : k + 1 \in 1..m => d(k + 1) <= d(k)
    BY <1>1 DEF Falling
  <1>3. \A k \in 1..m : m - k <= d(k) + 1
    BY <1>1 DEF Settled
  <1>4. PICK j \in 0..i : \A k \in 1..m : k + 1 \in 1..m /\ j <= k /\ (k < i \/ k = j) => d(k + 1) < d(k)
    BY <1>1 DEF Settled
  <1>5. d(i) = d(i + 1) /\ dd(i) = d(i) + 1 /\ Len(l) = m - 1
    OBVIOUS
  <1>6. /\ \A k \in 1..(i - 1) : dd(k) = d(k)
        /\ \A k \in (i + 1)..(m - 1) : dd(k) = d(k + 1)
    OBVIOUS
  <1> HIDE DEF m, d, dd
  <1>7. j < i
    <2>1. i \in 1..m /\ i + 1 \in 1..m /\ d(i) \in Nat
      BY <1>1
    <2>2. j # i
      BY <1>4, <1>5, <2>1
    <2> QED BY <2>2
  <1>8. i > 1 => d(i) < d(i - 1)
    <2> SUFFICES ASSUME i > 1 PROVE d(i) < d(i - 1)
      OBVIOUS
    <2>1. i - 1 \in 1..m /\ (i - 1) + 1 = i /\ i \in 1..m /\ j <= i - 1 /\ i - 1 < i
      BY <1>1, <1>7
    <2> QED BY <1>4, <2>1
  <1>9. ASSUME NEW k \in 1..(m - 1), k + 1 \in 1..(m - 1) PROVE dd(k + 1) <= dd(k)
    <2>1. CASE k + 1 < i
      <3>1. dd(k) = d(k) /\ dd(k + 1) = d(k + 1) /\ k \in 1..m /\ k + 1 \in 1..m
        BY <1>1, <1>6, <1>9, <2>1
      <3> QED BY <1>2, <3>1
    <2>2. CASE k + 1 = i
      <3>1. dd(k) = d(i - 1) /\ dd(k + 1) = d(i) + 1 /\ d(i) < d(i - 1)
            /\ d(i) \in Nat /\ d(i - 1) \in Nat
        BY <1>1, <1>5, <1>6, <1>8, <1>9, <2>2
      <3> QED BY <3>1
    <2>3. CASE k = i
      <3>1. dd(k + 1) = d((k + 1) + 1) /\ (k + 1) + 1 \in 1..m /\ k + 1 \in 1..m
        BY <1>1, <1>6, <1>9, <2>3
      <3>2. d((k + 1) + 1) <= d(k + 1) /\ d(k + 1) = d(i) /\ dd(k) = d(i) + 1
        BY <1>2, <1>5, <2>3, <3>1
      <3> QED BY <1>1, <3>1, <3>2
    <2>4. CASE k > i
      <3>1. dd(k) = d(k + 1) /\ dd(k + 1) = d((k + 1) + 1) /\ (k + 1) + 1 \in 1..m /\ k + 1 \in 1..m
        BY <1>1, <1>6, <1>9, <2>4
      <3> QED BY <1>2, <3>1
    <2> QED BY <1>1, <2>1, <2>2, <2>3, <2>4
  <1>10. ASSUME NEW k \in 1..(m - 1) PROVE (m - 1) - k <= dd(k) + 1 /\ (k <= i => (m - 1) - k <= dd(k))
    <2>1. CASE k < i
      <3>1. dd(k) = d(k) /\ k \in 1..m
        BY <1>1, <1>6, <2>1
      <3>2. m - k <= d(k) + 1 /\ d(k) \in Nat /\ m \in Nat /\ k \in Nat
        BY <1>1, <1>3, <3>1
      <3>3. (m - 1) - k <= d(k)
        BY <3>2
      <3> QED BY <3>1, <3>2, <3>3
    <2>2. CASE k = i
      <3>1. m - i <= d(i) + 1 /\ d(i) \in Nat
        BY <1>1, <1>3
      <3> QED BY <1>1, <1>5, <2>2, <3>1
    <2>3. CASE k > i
      <3>1. dd(k) = d(k + 1) /\ k + 1 \in 1..m
        BY <1>1, <1>6, <2>3
      <3>2. m - (k + 1) <= d(k + 1) + 1
        BY <1>3, <3>1
      <3> QED BY <1>1, <2>3, <3>1, <3>2
    <2> QED BY <1>1, <2>1, <2>2, <2>3
  <1>11. i + 1 \in 1..(m - 1) => dd(i + 1) < dd(i)
    <2> SUFFICES ASSUME i + 1 \in 1..(m - 1) PROVE dd(i + 1) < dd(i)
      OBVIOUS
    <2>1. dd(i + 1) = d((i + 1) + 1) /\ (i + 1) + 1 \in 1..m /\ i + 1 \in 1..m
      BY <1>1, <1>6
    <2>2. d((i + 1) + 1) <= d(i + 1)
      BY <1>2, <2>1
    <2> QED BY <1>1, <1>5, <2>1, <2>2
  <1>12. Falling(l)
    BY <1>1, <1>9 DEF Falling, dd
  <1>13. \A k \in DOMAIN l : Len(l) - k <= l[k].depth + 1
    BY <1>1, <1>5, <1>10 DEF dd
  <1>14. \A k \in DOMAIN l : k <= i => Len(l) - k <= l[k].depth
    BY <1>1, <1>5, <1>10 DEF dd
  <1>15. \A k \in DOMAIN l :
            k + 1 \in DOMAIN l /\ i <= k /\ (k < i \/ k = i) => l[k + 1].depth < l[k].depth
    <2> SUFFICES ASSUME NEW k \in DOMAIN l, k + 1 \in DOMAIN l, i <= k, k < i \/ k = i
                 PROVE  l[k + 1].depth < l[k].depth
      OBVIOUS
    <2>1. k = i
      BY <1>1
    <2> QED BY <1>1, <1>11, <2>1 DEF dd
  <1>16. i \in 0..i
    OBVIOUS
  <1> QED BY <1>12, <1>13, <1>14, <1>15, <1>16 DEF Settled

\* A turn that skips a pair.
LEMMA SkipSettles ==
    ASSUME NEW l \in Seq(Entries), NEW i \in Nat \ {0}, i < Len(l),
           Falling(l), Settled(l, i), l[i].depth # l[i + 1].depth
    PROVE  Settled(l, i + 1)
  <1> DEFINE m == Len(l)
             d(k) == l[k].depth
  <1>1. /\ m \in Nat /\ DOMAIN l = 1..m /\ i \in 1..m /\ i + 1 \in 1..m
        /\ \A k \in 1..m : d(k) \in Nat
    BY EntryFields
  <1>2. d(i + 1) < d(i)
    <2>1. d(i + 1) <= d(i) /\ d(i) # d(i + 1)
      BY <1>1 DEF Falling
    <2> QED BY <1>1, <2>1
  <1>3. PICK j \in 0..i :
           /\ \A k \in DOMAIN l : k <= j => Len(l) - k <= l[k].depth
           /\ \A k \in DOMAIN l :
                 k + 1 \in DOMAIN l /\ j <= k /\ (k < i \/ k = j) => l[k + 1].depth < l[k].depth
    BY DEF Settled
  <1>4. \A k \in 1..m : k + 1 \in 1..m /\ j <= k /\ (k < i \/ k = j) => d(k + 1) < d(k)
    BY <1>1, <1>3
  <1> HIDE DEF m, d
  <1>5. ASSUME NEW k \in 1..m, k + 1 \in 1..m, j <= k, k < i + 1 \/ k = j
        PROVE  d(k + 1) < d(k)
    <2>1. CASE k < i \/ k = j
      BY <1>5, <1>4, <2>1
    <2>2. CASE k = i
      BY <1>2, <2>2
    <2> QED BY <1>1, <1>5, <2>1, <2>2
  <1>6. j \in 0..(i + 1)
    BY <1>1
  <1>7. \A k \in DOMAIN l :
           k + 1 \in DOMAIN l /\ j <= k /\ (k < i + 1 \/ k = j) => l[k + 1].depth < l[k].depth
    BY <1>1, <1>5 DEF d
  <1>8. \A k \in DOMAIN l : Len(l) - k <= l[k].depth + 1
    BY DEF Settled
  <1> QED BY <1>3, <1>6, <1>7, <1>8 DEF Settled

\* At the end of the loop the table is short.
LEMMA SettledIsShort ==
    ASSUME NEW l \in Seq(Entries), NEW i \in Nat, Len(l) <= i, Settled(l, i)
    PROVE  Short(l)
  <1> DEFINE m == Len(l)
             d(k) == l[k].depth
  <1>1. /\ m \in Nat /\ DOMAIN l = 1..m /\ \A k \in 1..m : d(k) \in Nat
    BY EntryFields
  <1>2. PICK j \in 0..i :
           /\ \A k \in DOMAIN l : k <= j => Len(l) - k <= l[k].depth
           /\ \A k \in DOMAIN l :
                 k + 1 \in DOMAIN l /\ j <= k /\ (k < i \/ k = j) => l[k + 1].depth < l[k].depth
    BY DEF Settled
  <1>3. /\ \A k \in 1..m : k <= j => m - k <= d(k)
        /\ \A k \in 1..m : k + 1 \in 1..m /\ j <= k /\ (k < i \/ k = j) => d(k + 1) < d(k)
    BY <1>1, <1>2
  <1>4. m <= i
    OBVIOUS
  <1> HIDE DEF m, d
  <1> DEFINE T == {n \in Nat : \A k \in 1..m : j <= k /\ n = m - k => n <= d(k)}
  <1>5. ASSUME NEW n \in Nat, \A x \in Nat : x < n => x \in T PROVE n \in T
    <2> SUFFICES ASSUME NEW k \in 1..m, j <= k, n = m - k PROVE n <= d(k)
      OBVIOUS
    <2>1. CASE k = m
      BY <1>1, <2>1
    <2>2. CASE k # m
      <3>1. k + 1 \in 1..m /\ k < i /\ n - 1 \in Nat /\ n - 1 < n /\ n - 1 = m - (k + 1) /\ j <= k + 1
        BY <1>1, <1>4, <2>2
      <3>2. n - 1 \in T
        BY <1>5, <3>1
      <3>3. n - 1 <= d(k + 1)
        BY <3>1, <3>2
      <3>4. d(k + 1) < d(k)
        BY <1>3, <3>1
      <3> QED BY <1>1, <3>1, <3>3, <3>4
    <2> QED BY <2>1, <2>2
  <1> HIDE DEF T
  <1>6. Nat \subseteq T
    BY <1>5, CompleteInduction
  <1>7. ASSUME NEW k \in 1..m PROVE m - k <= d(k)
    <2>1. CASE k <= j
      BY <1>3, <2>1
    <2>2. CASE j < k
      <3>1. m - k \in T
        BY <1>1, <1>6
      <3> QED BY <2>2, <3>1 DEF T
    <2> QED BY <2>1, <2>2
  <1> QED BY <1>1, <1>7 DEF Short, m, d

\* The merged entry leads to all the blocks of the two.
LEMMA MergedLeads ==
    ASSUME IInv, writer = "merging", EqualNeighbours, Contiguous
    PROVE  Merged.target \in BlocksOf(tail) /\ Leads(Merged) /\ CoversTable(Merged, tail)
  <1>1. WriteInv /\ index \in DOMAIN lookup_nodes /\ index + 1 \in DOMAIN lookup_nodes
    BY MergingFacts DEF IInv, EqualNeighbours
  <1>2. tail # 0 /\ Merged.target = tail /\ Merged \in Entries
    BY <1>1, MergingFacts, MergedIsSound
  <1>3. tail \in Ids /\ lookup_nodes \in Seq(Entries) /\ Leads(Current) /\ Leads(Following)
    BY <1>1, <1>2, LeadingFacts DEF Current, Following
  <1>4. tail \in BlocksOf(tail)
    BY <1>3, Sound DEF BlocksInOrder
  <1>5. "bytes" \in SpanNames /\ "index" \in SpanNames
    BY OrderedAreNames
  <1>6. /\ Current.depth \in Nat /\ Following.depth = Current.depth
        /\ Current.spans["index"].start \in Nat /\ Current.spans["index"].end \in Nat
        /\ Following.spans["index"].start \in Nat /\ Following.spans["index"].end \in Nat
        /\ Current.spans["bytes"].start \in Nat /\ Current.spans["bytes"].end \in Nat
        /\ Following.spans["bytes"].start \in Nat /\ Following.spans["bytes"].end \in Nat
    BY <1>1, <1>3, <1>5, EntrySpan, EntryFields DEF Current, Following, EqualNeighbours
  <1>7. Merged.depth = Current.depth + 1
    BY DEF Merged
  <1>8. \A name \in {"bytes", "index"} :
           /\ Current.spans[name].end = Following.spans[name].start
           /\ Merged.spans[name].start = Current.spans[name].start
           /\ Merged.spans[name].end = Following.spans[name].end
    BY <1>1, <1>5, MergedIsSound, OrderedAreNames DEF Contiguous
  <1>9. \A k \in DOMAIN Lookup(tail) : Lookup(tail)[k].depth \in Nat
    BY <1>3, Sound, Doc, EntryFields
  <1>10. \A k \in DOMAIN Lookup(tail) :
            Overlap(Lookup(tail)[k].spans.bytes, Merged.spans.bytes) =>
                Lookup(tail)[k].depth < Merged.depth /\ Lookup(tail)[k].depth <= Merged.depth
    BY <1>6, <1>7, <1>9, MergedCovers
  <1>11. Merged.spans.bytes.start < Merged.spans.bytes.end
    <2>1. /\ Current.spans.bytes.start < Current.spans.bytes.end
          /\ Following.spans.bytes.start < Following.spans.bytes.end
      BY <1>3 DEF Leads
    <2> QED BY <1>6, <1>8, <2>1
  <1>12. Merged.spans.index.end - Merged.spans.index.start = 2^Merged.depth
    <2> DEFINE p == 2^Current.depth
    <2>1. p \in Nat /\ 2^Merged.depth = 2 * p
      BY <1>6, <1>7, PowerDoubles
    <2>2. /\ Current.spans["index"].end - Current.spans["index"].start = p
          /\ Following.spans["index"].end - Following.spans["index"].start = p
      BY <1>3, <1>6 DEF Leads
    <2> HIDE DEF p
    <2> QED BY <1>6, <1>8, <2>1, <2>2
  <1>13. \A name \in OrderedSpans :
            /\ FirstStart(Merged.target, name) <= Merged.spans[name].start
            /\ \/ Merged.spans[name].end = nodes[Merged.target].spans[name].end
               \/ Merged.spans[name].end <= nodes[Merged.target].spans[name].start
    BY <1>2, MergedEnds
  <1>14. Leads(Merged)
    BY <1>2, <1>10, <1>11, <1>12, <1>13 DEF Leads
  <1>15. CoversTable(Merged, tail)
    BY <1>10 DEF CoversTable
  <1> QED BY <1>2, <1>4, <1>14, <1>15

----------------------------------------------------------------------------
(* The steps of write().                                                   *)

\* What the invariant says of the table write() has made so far.
LeadsOn(l) ==
    /\ l # <<>>
    /\ \A name \in OrderedSpans :
          /\ l[1].spans[name].start = FirstStart(tail, name)
          /\ l[Len(l)].spans[name].start <= nodes[tail].spans[name].start
    /\ \A k \in DOMAIN l :
          l[k].target \in BlocksOf(tail) /\ Leads(l[k]) /\ CoversTable(l[k], tail)
    /\ Falling(l)

\* It is enough to look at the table before the step.
LEMMA LeadsOnAgain ==
    ASSUME IInv, Keeps, tail' = tail, spans' \in Spans,
           spans'.index.end = spans'.index.start + 1,
           tail # 0 => /\ LeadsOn(lookup_nodes')
                       /\ writer' = "merging" => Settled(lookup_nodes', index')
                       /\ writer' = "uploading" => Short(lookup_nodes')
    PROVE  WriterLeads'
  <1>1. CASE tail = 0
    BY <1>1 DEF WriterLeads
  <1>2. CASE tail # 0
    <2> DEFINE l == lookup_nodes'
    <2>1. tail \in Ids /\ TypeOK
      BY <1>2 DEF IInv, WriteInv, TypeOK, Ids
    <2>2. /\ nodes'[tail] = nodes[tail] /\ BlocksOf(tail)' = BlocksOf(tail)
          /\ \A name : FirstStart(tail, name)' = FirstStart(tail, name)
      <3> DEFINE t == tail
      <3>1. PICK n \in Ids : n = tail
        BY <2>1
      <3>2. /\ nodes'[n] = nodes[n] /\ BlocksOf(n)' = BlocksOf(n)
            /\ \A name : FirstStart(n, name)' = FirstStart(n, name)
        BY <2>1, KeepsLookups DEF Keeps
      <3>3. n = tail'
        BY <3>1
      <3>4. BlocksOf(tail)' = BlocksOf(n)'
        BY <3>3 DEF BlocksOf, IdealOf
      <3>5. \A name : FirstStart(tail, name)' = FirstStart(n, name)'
        BY <3>3 DEF FirstStart, InitialLookup
      <3> QED BY <3>1, <3>2, <3>4, <3>5
    <2>3. ASSUME NEW k \in DOMAIN l
          PROVE  /\ l[k].target \in BlocksOf(tail)'
                 /\ Leads(lookup_nodes[k])' /\ CoversTable(lookup_nodes[k], tail)'
      <3>1. PICK e, n : e = l[k] /\ n = tail
        OBVIOUS
      <3>2. e.target \in BlocksOf(n) /\ Leads(e) /\ CoversTable(e, n) /\ n \in Ids
        BY <1>2, <2>1, <3>1 DEF LeadsOn
      <3>3. e.target \in Ids
        <4>1. e.target \in 1..n /\ n \in 1..Len(nodes) /\ Len(nodes) \in Nat
          BY <2>1, <3>2, Sound, Doc DEF BlocksInOrder, Ids
        <4> QED BY <4>1 DEF Ids
      <3>4. Leads(e)' /\ CoversTable(e, n)'
        BY <2>1, <3>2, <3>3, KeepsLeads
      <3>5. e = l[k] /\ n = tail'
        BY <3>1
      <3>6. Leads(lookup_nodes[k])'
        BY <3>4, <3>5
      <3>7. CoversTable(lookup_nodes[k], tail)'
        BY <3>4, <3>5 DEF CoversTable, Lookup
      <3>8. l[k].target \in BlocksOf(tail)'
        BY <2>2, <3>1, <3>2
      <3> QED BY <3>6, <3>7, <3>8
    <2>4. Falling(lookup_nodes)'
      BY <1>2 DEF LeadsOn, Falling
    <2>5. /\ writer' = "merging" => Settled(lookup_nodes, index)'
          /\ writer' = "uploading" => Short(lookup_nodes)'
      BY <1>2 DEF Settled, Short
    <2>6. /\ l # <<>>
          /\ \A name \in OrderedSpans :
                /\ l[1].spans[name].start = FirstStart(tail, name)'
                /\ l[Len(l)].spans[name].start <= nodes'[tail'].spans[name].start
      BY <1>2, <2>2 DEF LeadsOn
    <2> QED BY <2>3, <2>4, <2>5, <2>6 DEF WriterLeads
  <1> QED BY <1>1, <1>2

LEMMA AppendKeepsLeads ==
    ASSUME IInv, NEW n \in Sizes, WriteAppend(n)
    PROVE  TablesLead' /\ WriterLeads'
  <1> DEFINE b == End("bytes")
  <1>1. PICK t \in 0..MaxTime : /\ ClockGoesBack \/ t >= clock
                                /\ clock' = t
                                /\ spans' = NewSpans(b, n, t)
    BY DEF WriteAppend, Begin
  <1>2. /\ writer' = "merging" /\ preceding' = Preceding(b)
        /\ lookup_nodes' = InitialLookup(preceding')
        /\ index' = 1
        /\ UNCHANGED <<nodes, tail, ideal>>
    BY DEF WriteAppend, Begin
  <1>3. WriteInv /\ TypeOK
    BY DEF IInv, WriteInv
  <1>4. preceding' = tail
    BY <1>2, <1>3, PrecedingIsTail
  <1>5. spans' \in Spans /\ spans'.index.end = spans'.index.start + 1
    <2>1. n \in Nat \ {0} /\ t \in Nat /\ (~ClockGoesBack => clock <= t)
      BY <1>1, <1>3, SkystreamAssumption DEF TypeOK
    <2>2. NewSpans(b, n, t) \in Spans
      BY <1>1, <1>3, <2>1, NewSpansProper
    <2>3. spans'.index = Interval(End("index"), End("index") + 1)
      BY <1>1 DEF NewSpans
    <2> QED BY <1>1, <2>2, <2>3 DEF Interval
  <1>6. Keeps /\ TablesLead'
    BY <1>2, SameTables
  <1>7. tail # 0 => LeadsOn(lookup_nodes') /\ Settled(lookup_nodes', index')
    BY <1>2, <1>4, BeginLeads DEF LeadsOn
  <1>8. WriterLeads'
    BY <1>2, <1>5, <1>6, <1>7, LeadsOnAgain
  <1> QED BY <1>6, <1>8

LEMMA MergeKeepsLeads ==
    ASSUME IInv, Merge
    PROVE  TablesLead' /\ WriterLeads'
  <1> DEFINE old == lookup_nodes
             l == lookup_nodes'
             m == Len(old)
  <1>1. /\ writer = "merging" /\ EqualNeighbours /\ Contiguous
        /\ l = [RemoveAt(old, index + 1) EXCEPT ![index] = Merged]
        /\ UNCHANGED <<nodes, tail, ideal, spans, index, writer>>
    BY DEF Merge
  <1>2. /\ WriteInv /\ TypeOK /\ index \in Nat \ {0} /\ index < m /\ old \in Seq(Entries)
        /\ old # <<>>
    BY <1>1, MergingFacts DEF IInv, WriteInv, EqualNeighbours
  <1>3. tail # 0
    BY <1>1, <1>2, MergingFacts
  <1>4. /\ l \in Seq(Entries) /\ Len(l) = m - 1 /\ DOMAIN l = 1..(m - 1)
        /\ index \in 1..Len(l) /\ l[index] = Merged
        /\ \A k \in 1..(index - 1) : l[k] = old[k]
        /\ \A k \in (index + 1)..(m - 1) : l[k] = old[k + 1]
    BY <1>1, <1>2, MergedTable
  <1>5. /\ Falling(old) /\ Settled(old, index) /\ tail \in Ids
        /\ spans \in Spans /\ spans.index.end = spans.index.start + 1
        /\ \A k \in DOMAIN old :
              old[k].target \in BlocksOf(tail) /\ Leads(old[k]) /\ CoversTable(old[k], tail)
        /\ \A name \in OrderedSpans :
              /\ old[1].spans[name].start = FirstStart(tail, name)
              /\ old[Len(old)].spans[name].start <= nodes[tail].spans[name].start
    BY <1>1, <1>3, LeadingFacts
  <1>6. Falling(l) /\ Settled(l, index)
    <2>1. old[index].depth = old[index + 1].depth /\ l[index].depth = old[index].depth + 1
      BY <1>1, <1>4 DEF EqualNeighbours, Current, Following, Merged
    <2> QED BY <1>2, <1>4, <1>5, <2>1, MergeSettles
  <1>7. m \in Nat \ {0} /\ DOMAIN old = 1..m /\ m - 1 \in Nat \ {0}
    <2>1. m \in Nat /\ DOMAIN old = 1..m
      BY <1>2
    <2> HIDE DEF m, old
    <2> QED BY <1>2, <2>1
  <1> HIDE DEF l, old, m
  <1>8. ASSUME NEW k \in DOMAIN l
        PROVE  l[k].target \in BlocksOf(tail) /\ Leads(l[k]) /\ CoversTable(l[k], tail)
    <2>1. CASE k < index
      <3>1. l[k] = old[k] /\ k \in DOMAIN old
        BY <1>2, <1>4, <1>7, <2>1
      <3> QED BY <1>5, <3>1
    <2>2. CASE k = index
      BY <1>1, <1>4, <2>2, MergedLeads
    <2>3. CASE k > index
      <3>1. l[k] = old[k + 1] /\ k + 1 \in DOMAIN old
        BY <1>2, <1>4, <1>7, <2>3
      <3> QED BY <1>5, <3>1
    <2> QED BY <1>2, <1>4, <1>7, <2>1, <2>2, <2>3
  <1>9. ASSUME NEW name \in OrderedSpans
        PROVE  /\ l[1].spans[name].start = FirstStart(tail, name)
               /\ l[Len(l)].spans[name].start <= nodes[tail].spans[name].start
    <2>1. l[1].spans[name].start = old[1].spans[name].start
      <3>1. CASE index = 1
        BY <1>1, <1>2, <1>4, <3>1, MergedIsSound, OrderedAreNames DEF Current, old
      <3>2. CASE 1 < index
        BY <1>2, <1>4, <3>2
      <3> QED BY <1>2, <3>1, <3>2
    <2>2. l[m - 1].spans[name].start <= nodes[tail].spans[name].start
      <3>1. CASE index = m - 1
        <4>1. l[m - 1].spans[name].start = old[index].spans[name].start
          BY <1>1, <1>2, <1>4, <3>1, MergedIsSound, OrderedAreNames DEF Current, old
        <4>2. Chained(old, spans) /\ spans \in Spans
          BY <1>1, <1>3, LeadingFacts DEF old
        <4>3. index \in DOMAIN old /\ m \in DOMAIN old /\ index < m
          BY <1>2, <1>7
        <4>4. /\ old[index].spans[name].start <= old[index].spans[name].end
              /\ old[index].spans[name].end <= old[m].spans[name].start
          BY <1>2, <4>2, <4>3, ChainGrows
        <4>5. /\ old[index].spans[name].start \in Nat /\ old[index].spans[name].end \in Nat
              /\ old[m].spans[name].start \in Nat
          BY <1>2, <4>3, EntrySpan, OrderedAreNames
        <4>6. nodes[tail].spans[name].start \in Nat
          BY <1>2, <1>5, Doc, SpanFields, OrderedAreNames
        <4> QED BY <1>5, <4>1, <4>4, <4>5, <4>6 DEF m
      <3>2. CASE index < m - 1
        <4>1. l[m - 1] = old[m]
          BY <1>2, <1>4, <1>7, <3>2
        <4> QED BY <1>5, <4>1 DEF m
      <3> QED BY <1>2, <1>7, <3>1, <3>2
    <2> QED BY <1>4, <1>5, <2>1, <2>2
  <1>10. Keeps /\ TablesLead'
    BY <1>1, SameTables
  <1>11. LeadsOn(l)
    <2>1. l # <<>>
      BY <1>4, <1>7
    <2> QED BY <1>6, <1>8, <1>9, <2>1 DEF LeadsOn
  <1>12. WriterLeads'
    <2>1. spans' \in Spans /\ spans'.index.end = spans'.index.start + 1
      BY <1>1, <1>5
    <2>2. Settled(lookup_nodes', index') /\ LeadsOn(lookup_nodes') /\ writer' # "uploading"
      BY <1>1, <1>6, <1>11 DEF l
    <2> QED BY <1>1, <1>10, <2>1, <2>2, LeadsOnAgain
  <1> QED BY <1>10, <1>12

LEMMA SkipKeepsLeads ==
    ASSUME IInv, Skip
    PROVE  TablesLead' /\ WriterLeads'
  <1>1. /\ writer = "merging" /\ index < Len(lookup_nodes) /\ ~EqualNeighbours
        /\ index' = index + 1 /\ index \in Nat \ {0}
        /\ UNCHANGED <<nodes, tail, ideal, spans, lookup_nodes, writer>>
    BY DEF Skip, IInv, WriteInv, TypeOK
  <1>2. lookup_nodes # <<>> /\ tail # 0
    BY <1>1, MergingFacts DEF IInv
  <1>3. LeadsOn(lookup_nodes) /\ Settled(lookup_nodes, index) /\ lookup_nodes \in Seq(Entries)
        /\ spans \in Spans /\ spans.index.end = spans.index.start + 1
    BY <1>1, <1>2, LeadingFacts DEF LeadsOn
  <1>4. Settled(lookup_nodes, index + 1)
    <2>1. lookup_nodes[index].depth # lookup_nodes[index + 1].depth
      BY <1>1 DEF EqualNeighbours, Current, Following
    <2> QED BY <1>1, <1>3, <2>1, SkipSettles DEF LeadsOn
  <1>5. Keeps /\ TablesLead'
    BY <1>1, SameTables
  <1>6. WriterLeads'
    <2>1. LeadsOn(lookup_nodes') /\ Settled(lookup_nodes', index') /\ writer' # "uploading"
      BY <1>1, <1>3, <1>4
    <2> QED BY <1>1, <1>3, <1>5, <2>1, LeadsOnAgain
  <1> QED BY <1>5, <1>6

LEMMA StartUploadsKeepsLeads ==
    ASSUME IInv, StartUploads
    PROVE  TablesLead' /\ WriterLeads'
  <1>1. /\ writer = "merging" /\ index >= Len(lookup_nodes) /\ index \in Nat
        /\ lookup_nodes' = lookup_nodes \o head /\ writer' = "uploading"
        /\ UNCHANGED <<nodes, tail, ideal, spans>>
    BY DEF StartUploads, IInv, WriteInv, TypeOK
  <1>2. lookup_nodes' = lookup_nodes /\ spans \in Spans /\ lookup_nodes \in Seq(Entries)
    <2>1. head = <<>> /\ lookup_nodes \in Seq(Entries) /\ spans \in Spans
      BY <1>1, MergingFacts DEF IInv
    <2>2. lookup_nodes' = lookup_nodes \o <<>>
      BY <1>1, <2>1
    <2> QED BY <2>1, <2>2
  <1>3. tail # 0 => LeadsOn(lookup_nodes) /\ Short(lookup_nodes)
    <2> SUFFICES ASSUME tail # 0 PROVE LeadsOn(lookup_nodes) /\ Short(lookup_nodes)
      OBVIOUS
    <2>1. LeadsOn(lookup_nodes) /\ Settled(lookup_nodes, index)
      BY <1>1, LeadingFacts DEF LeadsOn
    <2>2. Len(lookup_nodes) <= index
      BY <1>1, <1>2
    <2> QED BY <1>1, <1>2, <2>1, <2>2, SettledIsShort
  <1>4. Keeps /\ TablesLead'
    BY <1>1, SameTables
  <1>5. spans.index.end = spans.index.start + 1
    BY <1>1 DEF IInv, WriterLeads
  <1>6. WriterLeads'
    <2>1. tail # 0 => LeadsOn(lookup_nodes') /\ Short(lookup_nodes')
      BY <1>2, <1>3
    <2>2. writer' # "merging"
      BY <1>1
    <2> QED BY <1>1, <1>2, <1>4, <1>5, <2>1, <2>2, LeadsOnAgain
  <1> QED BY <1>4, <1>6

----------------------------------------------------------------------------
(* The first upload: a new document.                                       *)

\* The stream up to the new document has the blocks of the tail's and a new one.
LEMMA NewBlocks ==
    ASSUME IInv, Upload, uploads = 2, NEW n, n = Len(nodes) + 1
    PROVE  LET old == IdealOf(tail)
           IN /\ Keeps /\ n \in Nat \ {0} /\ Ids' = Ids \union {n} /\ n \notin Ids
              /\ nodes'[n] = [spans |-> spans, lookup |-> lookup_nodes]
              /\ Lookup(n)' = lookup_nodes
              /\ ideal'[n] \in Seq(Nat \ {0})
              /\ \A i \in DOMAIN ideal'[n] :
                    IF i \in DOMAIN old THEN ideal'[n][i] = old[i]
                    ELSE ideal'[n][i] = n /\ Holds(spans, "bytes", i - 1)
              /\ BlocksOf(n)' = BlocksOf(tail) \union {n}
              /\ UNCHANGED <<tail, spans, lookup_nodes, writer>>
  <1> DEFINE m == Len(nodes)
             old == IdealOf(tail)
             new == Overlay(old, spans.bytes)
             a == Len(old)
             e == spans.bytes.end
  <1>1. /\ writer = "uploading"
        /\ nodes' = Append(nodes, [spans |-> spans, lookup |-> lookup_nodes])
        /\ ideal' = Append(ideal, new)
        /\ UNCHANGED <<tail, spans, lookup_nodes, writer>>
    BY DEF Upload, localVars
  <1>2. /\ WriteInv /\ TypeOK
        /\ nodes \in Seq(Documents) /\ m \in Nat
        /\ ideal \in Seq(Seq(Nat \ {0})) /\ Len(ideal) = m
        /\ spans \in Spans /\ lookup_nodes \in Seq(Entries)
        /\ tail \in 0..m
    BY DEF IInv, WriteInv, TypeOK
  <1>3. /\ \A name \in SpanNames : spans[name].start = End(name)
        /\ Proper(spans)
    BY <1>1 DEF IInv, WriteInv, WriterIsSound
  <1>4. /\ old \in Seq(Nat \ {0}) /\ a = spans.bytes.start /\ a \in Nat /\ e \in Nat /\ a < e
        /\ spans.bytes \in Span /\ DOMAIN old = 1..a
    <2>1. old \in Seq(Nat \ {0}) /\ Len(old) = End("bytes")
      BY <1>2, IdealFacts
    <2>2. spans["bytes"].start = End("bytes")
      BY <1>3, OrderedAreNames
    <2>3. spans["bytes"] \in Span /\ e \in Nat
      BY <1>2, SpanFields, OrderedAreNames
    <2>4. spans.bytes.start < e
      BY <1>3 DEF Proper
    <2> QED BY <2>1, <2>2, <2>3, <2>4
  <1>5. new \in Seq(Nat \ {0}) /\ Len(new) = e /\ DOMAIN new = 1..e
    <2>1. new \in Seq(Nat \ {0}) /\ Len(new) = e
      BY <1>2, <1>4, OverlayAppends
    <2> HIDE DEF new
    <2> QED BY <2>1
  <1>6. new = [i \in 1..e |-> IF a < i /\ i <= e THEN n ELSE old[i]]
    BY <1>4 DEF Overlay
  <1>7. ASSUME NEW i \in 1..e
        PROVE IF i \in DOMAIN old THEN new[i] = old[i]
              ELSE new[i] = n /\ Holds(spans, "bytes", i - 1)
    <2> HIDE DEF new, old
    <2>1. CASE i <= a
      BY <1>4, <1>6, <2>1
    <2>2. CASE a < i
      <3>1. i \notin DOMAIN old /\ new[i] = n
        BY <1>4, <1>6, <2>2
      <3>2. spans["bytes"].start <= i - 1 /\ i - 1 < spans["bytes"].end
        BY <1>4, <2>2
      <3> QED BY <3>1, <3>2 DEF Holds
    <2> QED BY <1>4, <2>1, <2>2
  <1>8. Range(new) = Range(old) \union {n}
    <2> HIDE DEF new, old
    <2>1. ASSUME NEW x \in Range(new) PROVE x \in Range(old) \union {n}
      <3>1. PICK i \in 1..e : x = new[i]
        BY <1>5 DEF Range
      <3> QED BY <1>7, <3>1 DEF Range
    <2>2. n \in Range(new)
      <3>1. e \in 1..e /\ e \notin DOMAIN old
        BY <1>4
      <3> QED BY <1>5, <1>7, <3>1 DEF Range
    <2>3. ASSUME NEW x \in Range(old) PROVE x \in Range(new)
      <3>1. PICK i \in 1..a : x = old[i]
        BY <1>4 DEF Range
      <3>2. i \in 1..e /\ i \in DOMAIN old
        BY <1>4
      <3> QED BY <1>5, <1>7, <3>1, <3>2 DEF Range
    <2> QED BY <2>1, <2>2, <2>3
  <1> HIDE DEF new, old, a, e
  <1>9. /\ \A j \in 1..m : nodes'[j] = nodes[j] /\ ideal'[j] = ideal[j]
        /\ nodes'[n] = [spans |-> spans, lookup |-> lookup_nodes] /\ ideal'[n] = new
        /\ Len(nodes') = n /\ n = m + 1
    <2> DEFINE doc == [spans |-> spans, lookup |-> lookup_nodes]
    <2>1. doc \in Documents
      BY <1>2 DEF Documents
    <2>2. nodes' = Append(nodes, doc) /\ n = m + 1
      BY <1>1
    <2> HIDE DEF doc
    <2>3. \A j \in 1..m : nodes'[j] = nodes[j]
      BY <1>2, <2>1, <2>2
    <2>4. nodes'[n] = doc /\ Len(nodes') = n
      BY <1>2, <2>1, <2>2
    <2>5. \A j \in 1..m : ideal'[j] = ideal[j]
      BY <1>1, <1>2, <1>5
    <2>6. ideal'[n] = new
      BY <1>1, <1>2, <1>5, <2>2
    <2> QED BY <2>2, <2>3, <2>4, <2>5, <2>6 DEF doc
  <1>10. Ids = 1..m /\ Ids' = 1..n
    BY <1>9 DEF Ids
  <1> HIDE DEF m
  <1>11. Keeps /\ n \in Nat \ {0} /\ Ids' = Ids \union {n} /\ n \notin Ids
    BY <1>2, <1>9, <1>10 DEF Keeps
  <1>12. Lookup(n)' = lookup_nodes /\ BlocksOf(n)' = Range(new)
    <2>1. n # 0
      BY <1>11
    <2> QED BY <1>9, <2>1 DEF Lookup, BlocksOf, IdealOf
  <1> QED BY <1>1, <1>5, <1>7, <1>8, <1>9, <1>11, <1>12 DEF BlocksOf, old

\* The first block of the new stream is the tail's, or the new one.
LEMMA NewFirstStart ==
    ASSUME IInv, Upload, uploads = 2, NEW n, n = Len(nodes) + 1
    PROVE  /\ tail = 0 => \A name : FirstStart(n, name)' = spans[name].start
           /\ tail # 0 => \A name \in OrderedSpans : FirstStart(n, name)' = FirstStart(tail, name)
  <1> DEFINE own == [target |-> n, spans |-> spans, depth |-> 0]
             l == lookup_nodes
  <1>1. writer = "uploading" /\ TypeOK /\ l \in Seq(Entries) /\ spans \in Spans
    BY DEF Upload, IInv, WriteInv, TypeOK
  <1>2. n \in Nat \ {0} /\ nodes'[n] = [spans |-> spans, lookup |-> l]
    BY NewBlocks
  <1>3. InitialLookup(n)' = Append(l, own)
    <2>1. nodes'[n].spans = spans /\ nodes'[n].lookup = l
      BY <1>2
    <2> QED BY <1>2, <2>1 DEF InitialLookup
  <1>4. own \in Entries /\ own.spans = spans
    BY <1>1, <1>2 DEF Entries
  <1> HIDE DEF own
  <1>5. ASSUME tail = 0, NEW name PROVE FirstStart(n, name)' = spans[name].start
    <2>1. l = <<>>
      BY <1>1, <1>5 DEF IInv, WriteInv, WriterIsSound
    <2>2. Append(l, own)[1] = own
      BY <2>1, <1>4
    <2> QED BY <1>3, <1>4, <2>2 DEF FirstStart
  <1>6. ASSUME tail # 0, NEW name \in OrderedSpans
        PROVE  FirstStart(n, name)' = FirstStart(tail, name)
    <2>1. l # <<>> /\ l[1].spans[name].start = FirstStart(tail, name)
      BY <1>1, <1>6, LeadingFacts
    <2>2. 1 \in 1..Len(l)
      BY <1>1, <2>1
    <2>3. Append(l, own)[1] = l[1]
      BY <1>1, <2>2, AppendKeepsOld
    <2> QED BY <1>3, <2>1, <2>3 DEF FirstStart
  <1> QED BY <1>5, <1>6

\* Every block of the tail's stream ends before the new one starts.
LEMMA OldBlocksBefore ==
    ASSUME IInv, writer = "uploading", tail # 0, NEW b \in BlocksOf(tail)
    PROVE  /\ b \in Ids /\ b \in Nat /\ b <= tail
           /\ BlocksOf(b) \subseteq BlocksOf(tail)
           /\ \A name \in OrderedSpans :
                 /\ nodes[b].spans[name].end <= spans[name].start
                 /\ FirstStart(tail, name) <= nodes[b].spans[name].start
  <1>1. /\ TypeOK /\ tail \in Ids /\ BlocksInOrder(tail) /\ Proper(nodes[tail].spans)
        /\ \A name \in SpanNames : spans[name].start = nodes[tail].spans[name].end
    BY LeadingFacts, Sound
  <1>2. tail \in 1..Len(nodes) /\ Len(nodes) \in Nat /\ b \in 1..tail /\ tail \in BlocksOf(tail)
        /\ BlocksOf(b) \subseteq BlocksOf(tail)
    BY <1>1, Doc DEF BlocksInOrder, Ids
  <1>3. b \in Ids
    BY <1>2 DEF Ids
  <1>4. ASSUME NEW name \in OrderedSpans
        PROVE  /\ nodes[b].spans[name].end <= spans[name].start
               /\ FirstStart(tail, name) <= nodes[b].spans[name].start
    <2>1. /\ name \in SpanNames
          /\ nodes[b].spans[name].end \in Nat
          /\ nodes[tail].spans[name].start \in Nat /\ nodes[tail].spans[name].end \in Nat
      BY <1>1, <1>3, Doc, SpanFields, OrderedAreNames
    <2>2. nodes[tail].spans[name].start <= nodes[tail].spans[name].end
      BY <1>1 DEF Proper
    <2>3. CASE b = tail
      BY <1>1, <1>2, <2>1, <2>3 DEF BlocksInOrder
    <2>4. CASE b < tail
      <3>1. nodes[b].spans[name].end <= nodes[tail].spans[name].start
        BY <1>1, <1>2, <2>4 DEF BlocksInOrder
      <3>2. FirstStart(tail, name) <= nodes[b].spans[name].start
        BY <1>1 DEF BlocksInOrder
      <3> QED BY <1>1, <2>1, <2>2, <3>1, <3>2
    <2> QED BY <1>2, <2>3, <2>4
  <1> QED BY <1>2, <1>3, <1>4

LEMMA NewOrder ==
    ASSUME IInv, Upload, uploads = 2, NEW n, n = Len(nodes) + 1
    PROVE  BlocksInOrder(n)'
  <1> DEFINE old == IF tail = 0 THEN {} ELSE BlocksOf(tail)
             content == IdealOf(tail)
  <1>1. /\ writer = "uploading" /\ WriteInv /\ TypeOK /\ spans \in Spans
        /\ \A name \in SpanNames : spans[name].start = End(name)
        /\ Proper(spans)
    BY DEF Upload, IInv, WriteInv, WriterIsSound, TypeOK
  <1>2. /\ Keeps /\ n \in Nat \ {0} /\ Ids' = Ids \union {n} /\ n \notin Ids
        /\ nodes'[n] = [spans |-> spans, lookup |-> lookup_nodes]
        /\ \A i \in DOMAIN ideal'[n] :
              IF i \in DOMAIN content THEN ideal'[n][i] = content[i]
              ELSE ideal'[n][i] = n /\ Holds(spans, "bytes", i - 1)
        /\ BlocksOf(n)' = BlocksOf(tail) \union {n}
    BY NewBlocks
  <1>3. nodes'[n].spans = spans
    BY <1>2
  <1>4. BlocksOf(n)' = old \union {n}
    <2>1. tail = 0 => BlocksOf(tail) = {}
      BY DEF BlocksOf, IdealOf, Range
    <2> QED BY <1>2, <2>1
  <1>5. ASSUME NEW b \in old
        PROVE  /\ b \in BlocksOf(tail) /\ tail # 0
               /\ b \in Ids /\ b \in Nat /\ b <= tail /\ b < n /\ b \in 1..n
               /\ nodes'[b] = nodes[b] /\ BlocksOf(b)' \subseteq old
               /\ \A name \in OrderedSpans :
                     /\ nodes[b].spans[name].end <= spans[name].start
                     /\ FirstStart(tail, name) <= nodes[b].spans[name].start
    <2>1. /\ tail # 0 /\ b \in Ids /\ b \in Nat /\ b <= tail /\ b \in BlocksOf(tail)
          /\ BlocksOf(b) \subseteq BlocksOf(tail)
          /\ \A name \in OrderedSpans :
                /\ nodes[b].spans[name].end <= spans[name].start
                /\ FirstStart(tail, name) <= nodes[b].spans[name].start
      BY <1>1, OldBlocksBefore
    <2>2. b < n /\ b \in 1..n
      BY <1>1, <2>1, Doc DEF Ids
    <2>3. nodes'[b] = nodes[b] /\ BlocksOf(b)' = BlocksOf(b)
      BY <1>1, <1>2, <2>1, KeepsLookups DEF Keeps
    <2> QED BY <2>1, <2>2, <2>3
  <1>6. tail # 0 => tail \in Ids /\ BlocksInOrder(tail)
    BY <1>1, LeadingFacts, Sound
  <1> HIDE DEF old, content
  <1>7. ASSUME NEW b \in BlocksOf(n)'
        PROVE  b \in 1..n /\ BlocksOf(b)' \subseteq BlocksOf(n)'
    <2>1. CASE b = n
      BY <1>2, <2>1
    <2>2. CASE b \in old
      BY <1>4, <1>5, <2>2
    <2> QED BY <1>4, <2>1, <2>2
  <1>8. ASSUME NEW b \in BlocksOf(n)', NEW c \in BlocksOf(n)', b < c, NEW name \in OrderedSpans
        PROVE  nodes'[b].spans[name].end <= nodes'[c].spans[name].start
    <2>1. b \in 1..n /\ c \in 1..n
      BY <1>7
    <2>2. b \in old
      BY <1>2, <1>4, <1>8, <2>1
    <2>3. CASE c = n
      BY <1>3, <1>5, <2>2, <2>3
    <2>4. CASE c \in old
      <3>1. nodes[b].spans[name].end <= nodes[c].spans[name].start
        BY <1>5, <1>6, <1>8, <2>2, <2>4 DEF BlocksInOrder
      <3> QED BY <1>5, <2>2, <2>4, <3>1
    <2> QED BY <1>4, <2>3, <2>4
  <1>9. ASSUME NEW b \in BlocksOf(n)' \ {n}
        PROVE  \E c \in BlocksOf(n)' :
                  \A name \in SpanNames : nodes'[c].spans[name].start = nodes'[b].spans[name].end
    <2>1. b \in old /\ b \in BlocksOf(tail) /\ tail # 0
      BY <1>4, <1>5
    <2>2. CASE b = tail
      <3>1. \A name \in SpanNames : spans[name].start = nodes[b].spans[name].end
        BY <1>1, <2>1, <2>2, LeadingFacts
      <3>2. n \in BlocksOf(n)'
        BY <1>4
      <3> QED BY <1>3, <1>5, <2>1, <3>1, <3>2
    <2>3. CASE b # tail
      <3>1. PICK c \in BlocksOf(tail) :
               \A name \in SpanNames : nodes[c].spans[name].start = nodes[b].spans[name].end
        BY <1>6, <2>1, <2>3 DEF BlocksInOrder
      <3>2. c \in old
        BY <2>1 DEF old
      <3> QED BY <1>4, <1>5, <2>1, <3>1, <3>2
    <2> QED BY <2>2, <2>3
  <1>10. ASSUME NEW i \in DOMAIN ideal'[n]
         PROVE  Holds(nodes'[ideal'[n][i]].spans, "bytes", i - 1)
    <2>1. CASE i \in DOMAIN content
      <3>1. tail # 0 /\ content = ideal[tail]
        BY <2>1 DEF content, IdealOf
      <3>2. Holds(nodes[content[i]].spans, "bytes", i - 1)
        BY <1>6, <2>1, <3>1 DEF BlocksInOrder
      <3>3. content[i] \in old
        <4>1. content[i] \in Range(content)
          BY <2>1 DEF Range
        <4> QED BY <3>1, <4>1 DEF old, content, BlocksOf
      <3>4. nodes'[content[i]] = nodes[content[i]] /\ ideal'[n][i] = content[i]
        BY <1>2, <1>5, <2>1, <3>3
      <3> QED BY <3>2, <3>4
    <2>2. CASE i \notin DOMAIN content
      BY <1>2, <1>3, <2>2
    <2> QED BY <2>1, <2>2
  <1>11. \A name \in {"bytes", "index"} : FirstStart(n, name)' = 0
    <2>1. CASE tail = 0
      <3>1. \A name \in {"bytes", "index"} : spans[name].start = 0
        BY <1>1, <2>1, OrderedAreNames DEF End, SpansOf, FreshSpans, Interval
      <3> QED BY <2>1, <3>1, NewFirstStart
    <2>2. CASE tail # 0
      <3>1. \A name \in {"bytes", "index"} : FirstStart(tail, name) = 0
        BY <1>6, <2>2 DEF BlocksInOrder
      <3> QED BY <2>2, <3>1, NewFirstStart, OrderedAreNames
    <2> QED BY <2>1, <2>2
  <1>12. ASSUME NEW b \in BlocksOf(n)', NEW name \in OrderedSpans
         PROVE  FirstStart(n, name)' <= nodes'[b].spans[name].start
    <2>0. spans[name].start \in Nat
      BY <1>1, SpanFields, OrderedAreNames
    <2>1. CASE tail = 0
      <3>1. FirstStart(n, name)' = spans[name].start /\ b = n
        BY <1>4, <1>5, <2>1, NewFirstStart
      <3> QED BY <1>3, <2>0, <3>1
    <2>2. CASE tail # 0 /\ b \in old
      BY <1>5, <2>2, NewFirstStart
    <2>3. CASE tail # 0 /\ b = n
      <3>1. /\ TypeOK /\ tail \in Ids /\ name \in SpanNames
            /\ spans[name].start = nodes[tail].spans[name].end
        BY <1>1, <2>3, LeadingFacts, OrderedAreNames
      <3>2. FirstStart(tail, name) <= nodes[tail].spans[name].start
        BY <1>6, <2>3 DEF BlocksInOrder
      <3>3. nodes[tail].spans[name].start <= nodes[tail].spans[name].end
        BY <3>1, Sound DEF Proper
      <3>4. /\ FirstStart(tail, name) \in Nat /\ nodes[tail].spans[name].start \in Nat
            /\ nodes[tail].spans[name].end \in Nat
        BY <3>1, Doc, SpanFields, FirstStartIs
      <3>5. FirstStart(n, name)' = FirstStart(tail, name)
        BY <2>3, NewFirstStart
      <3> QED BY <1>3, <2>3, <3>1, <3>2, <3>3, <3>4, <3>5
    <2> QED BY <1>4, <2>1, <2>2, <2>3
  <1>13. n \in BlocksOf(n)'
    BY <1>4
  <1> QED BY <1>7, <1>8, <1>9, <1>10, <1>11, <1>12, <1>13 DEF BlocksInOrder

LEMMA FirstUploadKeepsLeads ==
    ASSUME IInv, Upload, uploads = 2
    PROVE  TablesLead' /\ WriterLeads'
  <1>1. PICK n : n = Len(nodes) + 1
    OBVIOUS
  <1>2. /\ Keeps /\ Ids' = Ids \union {n} /\ n \in Nat \ {0}
        /\ nodes'[n] = [spans |-> spans, lookup |-> lookup_nodes]
        /\ Lookup(n)' = lookup_nodes
        /\ BlocksOf(n)' = BlocksOf(tail) \union {n}
        /\ UNCHANGED <<tail, spans, lookup_nodes, writer>>
    BY <1>1, NewBlocks
  <1>3. /\ writer = "uploading" /\ TypeOK /\ spans \in Spans
        /\ spans.index.end = spans.index.start + 1
        /\ tail = 0 => lookup_nodes = <<>>
    BY DEF Upload, IInv, WriteInv, WriterIsSound, TypeOK, WriterLeads
  <1>4. tail # 0 => LeadsOn(lookup_nodes) /\ Short(lookup_nodes)
    BY <1>3, LeadingFacts DEF LeadsOn
  <1>5. BlocksInOrder(n)'
    BY <1>1, NewOrder
  <1>6. nodes'[n].spans.index.end = nodes'[n].spans.index.start + 1
    BY <1>2, <1>3
  <1>7. ASSUME NEW k \in DOMAIN lookup_nodes
        PROVE  lookup_nodes[k].target \in BlocksOf(n)' /\ Leads(Lookup(n)[k])'
    <2>1. PICK e : e = lookup_nodes[k]
      OBVIOUS
    <2>2. tail # 0
      BY <1>3
    <2>3. e.target \in BlocksOf(tail) /\ Leads(e)
      BY <1>4, <2>1, <2>2 DEF LeadsOn
    <2>4. e.target \in Ids
      BY <1>3, <2>2, <2>3, OldBlocksBefore
    <2>5. Leads(e)'
      BY <1>2, <1>3, <2>3, <2>4, KeepsLeads
    <2>6. e = Lookup(n)'[k]
      BY <1>2, <2>1
    <2>7. Leads(Lookup(n)[k])'
      BY <2>5, <2>6
    <2> QED BY <1>2, <2>1, <2>3, <2>7
  <1>8. Falling(Lookup(n))' /\ Short(Lookup(n))'
    <2>1. Falling(lookup_nodes) /\ Short(lookup_nodes)
      <3>1. CASE tail = 0
        BY <1>3, <3>1 DEF Falling, Short
      <3>2. CASE tail # 0
        BY <1>4, <3>2 DEF LeadsOn
      <3> QED BY <3>1, <3>2
    <2> QED BY <1>2, <2>1 DEF Falling, Short
  <1>9. ASSUME NEW j \in Ids'
        PROVE  /\ BlocksInOrder(j)'
               /\ nodes'[j].spans.index.end = nodes'[j].spans.index.start + 1
               /\ \A k \in DOMAIN Lookup(j)' :
                     Lookup(j)'[k].target \in BlocksOf(j)' /\ Leads(Lookup(j)[k])'
               /\ Falling(Lookup(j))' /\ Short(Lookup(j))'
    <2>1. CASE j \in Ids
      BY <1>2, <2>1, KeepsTables
    <2>2. CASE j = n
      BY <1>2, <1>5, <1>6, <1>7, <1>8, <2>2
    <2> QED BY <1>2, <2>1, <2>2
  <1>10. TablesLead'
    BY <1>9 DEF TablesLead
  <1>11. WriterLeads'
    <2>1. spans' \in Spans /\ spans'.index.end = spans'.index.start + 1 /\ tail' = tail
      BY <1>2, <1>3
    <2>2. tail # 0 => LeadsOn(lookup_nodes') /\ Short(lookup_nodes')
      BY <1>2, <1>4
    <2>3. writer' # "merging"
      BY <1>2, <1>3
    <2> QED BY <1>2, <2>1, <2>2, <2>3, LeadsOnAgain
  <1> QED BY <1>10, <1>11

----------------------------------------------------------------------------
(* Theorems about reading by any span.                                     *)

LEMMA InitIInv == Init => IInv
  <1> SUFFICES ASSUME Init PROVE IInv
    OBVIOUS
  <1>1. WriteInv
    BY InitWriteInv
  <1>2. TablesLead
    BY DEF Init, TablesLead, Ids
  <1>3. WriterLeads
    BY DEF Init, WriterLeads
  <1> QED BY <1>1, <1>2, <1>3 DEF IInv

LEMMA NextIInv == ASSUME ~RandomWrites, IInv, [Next]_vars PROVE IInv'
  <1>1. WriteInv'
    BY NextWriteInv DEF IInv
  <1>2. TablesLead' /\ WriterLeads'
    <2>1. CASE Write
      <3>1. PICK n \in Sizes : WriteAppend(n)
        BY <2>1 DEF Write, WriteOver
      <3> QED BY <3>1, AppendKeepsLeads
    <2>2. CASE Merge \/ Skip \/ StartUploads
      BY <2>2, MergeKeepsLeads, SkipKeepsLeads, StartUploadsKeepsLeads
    <2>3. CASE AssertFails \/ Commit \/ Save \/ Restart
      <3>1. UNCHANGED <<nodes, ideal>> /\ writer' \in {"aborted", "written", "idle"}
        BY <2>3 DEF AssertFails, Commit, Save, Restart
      <3> QED BY <3>1, SameTables DEF WriterLeads
    <2>4. CASE Upload /\ uploads = 2
      BY <2>4, FirstUploadKeepsLeads
    <2>5. CASE (Upload /\ uploads # 2) \/ UNCHANGED vars
      <3>1. UNCHANGED <<nodes, ideal, tail, spans, lookup_nodes, index, writer>>
        BY <2>5 DEF Upload, localVars, vars
      <3>2. Keeps /\ TablesLead'
        BY <3>1, SameTables
      <3>3. WriterLeads'
        <4>1. CASE writer \in {"merging", "uploading"}
          <5>1. spans \in Spans /\ spans.index.end = spans.index.start + 1
            BY <4>1 DEF IInv, WriteInv, TypeOK, WriterLeads
          <5>2. tail # 0 => /\ LeadsOn(lookup_nodes)
                            /\ writer = "merging" => Settled(lookup_nodes, index)
                            /\ writer = "uploading" => Short(lookup_nodes)
            BY <4>1, LeadingFacts DEF LeadsOn
          <5>3. spans' \in Spans /\ spans'.index.end = spans'.index.start + 1
            BY <3>1, <5>1
          <5>4. tail # 0 => /\ LeadsOn(lookup_nodes')
                            /\ writer' = "merging" => Settled(lookup_nodes', index')
                            /\ writer' = "uploading" => Short(lookup_nodes')
            BY <3>1, <5>2
          <5> QED BY <3>1, <3>2, <5>3, <5>4, LeadsOnAgain
        <4>2. CASE writer \notin {"merging", "uploading"}
          BY <3>1, <4>2 DEF WriterLeads
        <4> QED BY <4>1, <4>2
      <3> QED BY <3>2, <3>3
    <2> QED BY <2>1, <2>2, <2>3, <2>4, <2>5 DEF Next, MergeLoop
  <1> QED BY <1>1, <1>2 DEF IInv

\* The invariant of the tables holds in every state of an appending program,
\* however many blocks it has written and wherever it was stopped.
THEOREM InductiveInvariant == ASSUME ~RandomWrites PROVE Spec => []IInv
  <1>1. Init => IInv
    BY InitIInv
  <1>2. IInv /\ [Next]_vars => IInv'
    BY NextIInv
  <1> QED BY <1>1, <1>2, PTL DEF Spec

\* A block is found by any of its bytes, its index and any of its times, and
\* the bounds end with it (get_node, lines 416-449), if the clock is never set
\* back: block times of a clock that goes back overlap.
THEOREM FindsByEverySpanHolds ==
    ASSUME ~RandomWrites, ~ClockGoesBack PROVE Spec => []FindsByEverySpan
  <1>1. IInv => FindsByEverySpan
    BY FindsBySpans
  <1> QED BY <1>1, InductiveInvariant, PTL

----------------------------------------------------------------------------
(* The length of a table.                                                  *)

LEMMA TableIsShort ==
    ASSUME IInv, NEW n \in Ids
    PROVE  2^Len(Lookup(n)) <= nodes[n].spans.index.start + 1
  <1> DEFINE l == Lookup(n)
             m == Len(l)
             to == nodes[n].spans["index"].start
             s(k) == l[k].spans["index"].start
             e(k) == l[k].spans["index"].end
             p(k) == 2^k
  <1>1. /\ TypeOK /\ "index" \in OrderedSpans /\ "index" \in SpanNames
        /\ l \in Seq(Entries) /\ nodes[n].spans \in Spans /\ Chained(l, nodes[n].spans)
        /\ Short(l) /\ BlocksInOrder(n)
        /\ \A k \in DOMAIN l : Leads(l[k])
    BY Sound, Doc, OrderedAreNames
  <1>2. m \in Nat /\ DOMAIN l = 1..m /\ to \in Nat
    BY <1>1, SpanFields
  <1>3. \A k \in 1..m : s(k) \in Nat /\ e(k) \in Nat /\ l[k].depth \in Nat
    BY <1>1, <1>2, EntrySpan, EntryFields
  <1>4. \A k \in Nat : p(k) \in Nat \ {0} /\ p(k + 1) = 2 * p(k)
    BY PowerDoubles
  <1>5. p(0) = 1
    BY PowerOfZero
  <1>6. ASSUME NEW k \in 1..m PROVE p(m - k) <= e(k) - s(k)
    <2>1. m - k \in Nat /\ l[k].depth \in Nat /\ m - k <= l[k].depth
      BY <1>1, <1>2, <1>3 DEF Short
    <2>2. p(m - k) <= 2^l[k].depth
      BY <2>1, PowerGrows
    <2>3. e(k) - s(k) = 2^l[k].depth
      BY <1>1, <1>2 DEF Leads
    <2> QED BY <2>2, <2>3
  <1>7. m # 0 => e(m) = to
    BY <1>1, <1>2 DEF Chained
  <1>8. \A k \in 1..m : k + 1 \in 1..m => e(k) = s(k + 1)
    BY <1>1, <1>2 DEF Chained
  <1>9. m # 0 => s(1) = 0
    <2>1. FirstStart(n, "index") = 0
      BY <1>1 DEF BlocksInOrder
    <2>2. m # 0 => l # <<>>
      OBVIOUS
    <2> QED BY <1>1, <2>1, <2>2, FirstStartIs
  <1> HIDE DEF l, m, to, s, e, p
  <1> DEFINE T == {x \in Nat : \A k \in 1..m : x = m - k => p(x + 1) <= to - s(k) + 1}
  <1>10. ASSUME NEW x \in Nat, \A y \in Nat : y < x => y \in T PROVE x \in T
    <2> SUFFICES ASSUME NEW k \in 1..m, x = m - k PROVE p(x + 1) <= to - s(k) + 1
      OBVIOUS
    <2>1. p(x) <= e(k) - s(k) /\ p(x + 1) = 2 * p(x) /\ p(x) \in Nat \ {0}
          /\ s(k) \in Nat /\ e(k) \in Nat
      BY <1>3, <1>4, <1>6
    <2>2. CASE x = 0
      <3>1. k = m /\ m # 0
        BY <1>2, <2>2
      <3>2. e(k) = to
        BY <1>7, <3>1
      <3> QED BY <1>2, <1>5, <2>1, <2>2, <3>2
    <2>3. CASE x # 0
      <3>1. x - 1 \in Nat /\ x - 1 < x /\ k + 1 \in 1..m /\ x - 1 = m - (k + 1) /\ (x - 1) + 1 = x
        BY <1>2, <2>3
      <3>2. p(x) <= to - s(k + 1) + 1
        BY <1>10, <3>1
      <3>3. e(k) = s(k + 1)
        BY <1>8, <3>1
      <3> QED BY <1>2, <2>1, <3>2, <3>3
    <2> QED BY <2>2, <2>3
  <1> HIDE DEF T
  <1>11. Nat \subseteq T
    BY <1>10, CompleteInduction
  <1>12. p(m) <= to + 1
    <2>1. CASE m = 0
      BY <1>2, <1>5, <2>1
    <2>2. CASE m # 0
      <3>1. 1 \in 1..m /\ m - 1 \in Nat /\ (m - 1) + 1 = m
        BY <1>2, <2>2
      <3>2. m - 1 \in T
        BY <1>11, <3>1
      <3>3. p((m - 1) + 1) <= to - s(1) + 1
        BY <3>1, <3>2 DEF T
      <3> QED BY <1>2, <1>9, <2>2, <3>1, <3>3
    <2> QED BY <2>1, <2>2
  <1> QED BY <1>12 DEF p, m, l, to

\* The table of a document stays logarithmic in the blocks before it, and its
\* entries of depth d stand for 2^d blocks (the merge loop, lines 224-247).
THEOREM ShortLookupHolds == ASSUME ~RandomWrites PROVE Spec => []ShortLookup
  <1>1. IInv => ShortLookup
    <2> SUFFICES ASSUME IInv, NEW n \in Ids
                 PROVE  /\ 2^Len(Lookup(n)) <= nodes[n].spans.index.start + 1
                        /\ \A k \in DOMAIN Lookup(n) :
                              LET blocks == Lookup(n)[k].spans.index
                              IN blocks.end - blocks.start = 2^(Lookup(n)[k].depth)
      BY DEF ShortLookup
    <2>1. \A k \in DOMAIN Lookup(n) : Leads(Lookup(n)[k])
      BY Sound
    <2> QED BY <2>1, TableIsShort DEF Leads
  <1> QED BY <1>1, InductiveInvariant, PTL

----------------------------------------------------------------------------
(* The documents opened on the way to a byte.                              *)

CountStep(f, m, o) ==
    IF Holds(SpansOf(m), "bytes", o) \/ FirstEntry(m, "bytes", o) = 0 THEN 0
    ELSE 1 + f[Lookup(m)[FirstEntry(m, "bytes", o)].target]

Count(o) == CHOOSE f : f = [m \in 0..Len(nodes) |-> CountStep(f, m, o)]

LEMMA RequestsCount == \A n, o : Requests(n, o) = Count(o)[n]
  BY DEF Requests, Count, CountStep

LEMMA CountIs ==
    ASSUME WriteInv, NEW o
    PROVE  \A m \in 0..Len(nodes) : Count(o)[m] \in Nat /\ Count(o)[m] = CountStep(Count(o), m, o)
  <1> DEFINE L == Len(nodes)
             k(m) == FirstEntry(m, "bytes", o)
             e(m) == Lookup(m)[k(m)]
             Stop == {m \in 0..L : Holds(SpansOf(m), "bytes", o) \/ k(m) = 0}
             g == [m \in 0..L |-> 0]
             h == [m \in 0..L |-> e(m).target]
             Step == [p \in (0..L) \X Nat |-> 1 + p[2]]
  <1>1. TypeOK /\ L \in Nat
    BY DEF WriteInv, TypeOK
  <1>2. ASSUME NEW m \in 0..L, k(m) # 0 PROVE e(m).target \in 0..(m - 1)
    <2>1. Len(Lookup(m)) \in Nat
      BY <1>1, LookupType
    <2>2. k(m) \in 1..Len(Lookup(m))
      BY <1>2, <2>1, FirstEntryIs
    <2>3. m # 0
      BY <2>2 DEF Lookup
    <2>4. m \in Ids /\ k(m) \in DOMAIN Lookup(m)
      BY <1>1, <2>2, <2>3, LookupType DEF Ids
    <2>5. e(m).target \in Ids /\ e(m).target < m
      BY <2>4, WriteInvOlder, TargetsOlder
    <2> HIDE DEF e, k
    <2> QED BY <1>1, <2>5 DEF Ids
  <1>3. Steps(L, Nat, Stop, g, h, Step)
    <2>1. Step \in [(0..L) \X Nat -> Nat]
      OBVIOUS
    <2>2. \A m \in 0..L : m \in Stop => g[m] \in Nat
      OBVIOUS
    <2>3. \A m \in 0..L : m \notin Stop => h[m] \in 0..(m - 1)
      BY <1>2
    <2> QED BY <2>1, <2>2, <2>3 DEF Steps
  <1>4. \E f \in [0..L -> Nat] : Follows(f, L, Stop, g, h, Step)
    <2> HIDE DEF L, Stop, g, h, Step
    <2> QED BY <1>1, <1>3, StepsDefine
  <1>5. PICK f \in [0..L -> Nat] :
           \A m \in 0..L : f[m] = IF m \in Stop THEN g[m] ELSE Step[<<m, f[h[m]]>>]
    <2> HIDE DEF L, Stop, g, h, Step
    <2> QED BY <1>4 DEF Follows
  <1>6. ASSUME NEW m \in 0..L PROVE f[m] = CountStep(f, m, o)
    <2>1. f[m] = IF m \in Stop THEN g[m] ELSE Step[<<m, f[h[m]]>>]
      <3> HIDE DEF L, Stop, g, h, Step
      <3> QED BY <1>5
    <2>2. CASE m \in Stop
      BY <2>1, <2>2 DEF CountStep
    <2>3. CASE m \notin Stop
      <3>1. h[m] = e(m).target /\ h[m] \in 0..L /\ f[h[m]] \in Nat
        BY <1>1, <1>2, <2>3
      <3>2. Step[<<m, f[h[m]]>>] = 1 + f[h[m]]
        BY <3>1
      <3>3. f[m] = 1 + f[e(m).target]
        <4> HIDE DEF Step, Stop, h, e
        <4> QED BY <2>1, <2>3, <3>1, <3>2
      <3> QED BY <2>3, <3>3 DEF CountStep
    <2> QED BY <2>2, <2>3
  <1> HIDE DEF L, Stop, g, h, Step, e, k
  <1>7. f = [m \in 0..L |-> CountStep(f, m, o)]
    BY <1>5, <1>6
  <1>8. Count(o) = [m \in 0..L |-> CountStep(Count(o), m, o)]
    BY <1>7 DEF Count, L
  <1>9. \A c : c = [m \in 0..L |-> CountStep(c, m, o)] => \A m \in 0..L : c[m] \in Nat
    <2> SUFFICES ASSUME NEW c, c = [m \in 0..L |-> CountStep(c, m, o)]
                 PROVE  \A m \in 0..L : c[m] \in Nat
      OBVIOUS
    <2> DEFINE T == {m \in Nat : m \in 0..L => c[m] \in Nat}
    <2>1. ASSUME NEW m \in Nat, \A j \in Nat : j < m => j \in T PROVE m \in T
      <3> SUFFICES ASSUME m \in 0..L PROVE c[m] \in Nat
        OBVIOUS
      <3>1. c[m] = CountStep(c, m, o)
        OBVIOUS
      <3>2. CASE Holds(SpansOf(m), "bytes", o) \/ k(m) = 0
        BY <3>1, <3>2 DEF CountStep, k
      <3>3. CASE ~(Holds(SpansOf(m), "bytes", o) \/ k(m) = 0)
        <4>1. e(m).target \in 0..(m - 1)
          BY <1>2, <3>3
        <4>2. c[m] = 1 + c[e(m).target]
          BY <3>1, <3>3 DEF CountStep, k, e
        <4>3. e(m).target \in Nat /\ e(m).target < m /\ e(m).target \in 0..L
          BY <1>1, <4>1
        <4>4. c[e(m).target] \in Nat
          BY <2>1, <4>3
        <4> QED BY <4>2, <4>4
      <3> QED BY <3>2, <3>3
    <2> HIDE DEF T
    <2>2. Nat \subseteq T
      BY <2>1, CompleteInduction
    <2>3. ASSUME NEW m \in 0..L PROVE c[m] \in Nat
      <3>1. m \in Nat
        BY <1>1
      <3>2. m \in T
        BY <2>2, <3>1
      <3> QED BY <3>2 DEF T
    <2> QED BY <2>3
  <1>10. \A m \in 0..L : Count(o)[m] \in Nat
    BY <1>8, <1>9
  <1>11. \A m \in 0..L : Count(o)[m] = CountStep(Count(o), m, o)
    BY <1>8
  <1> QED BY <1>10, <1>11 DEF L

\* When the entries of a document that hold a byte have a depth below d, the
\* byte is at most d documents away.
LEMMA CountBounded ==
    ASSUME IInv, NEW o \in Nat
    PROVE  \A t \in Ids, d \in Nat :
              /\ o < nodes[t].spans["bytes"].end
              /\ \A k \in DOMAIN Lookup(t) :
                    Holds(Lookup(t)[k].spans, "bytes", o) => Lookup(t)[k].depth < d
              => Count(o)[t] <= d
  <1> DEFINE T == {t \in Nat : t \in Ids => \A d \in Nat :
                     /\ o < nodes[t].spans["bytes"].end
                     /\ \A k \in DOMAIN Lookup(t) :
                           Holds(Lookup(t)[k].spans, "bytes", o) => Lookup(t)[k].depth < d
                     => Count(o)[t] <= d}
  <1>0. WriteInv /\ TypeOK /\ "bytes" \in OrderedSpans /\ "bytes" \in SpanNames
    BY OrderedAreNames DEF IInv, WriteInv
  <1>1. ASSUME NEW t \in Nat, \A m \in Nat : m < t => m \in T PROVE t \in T
    <2> SUFFICES ASSUME t \in Ids, NEW d \in Nat, o < nodes[t].spans["bytes"].end,
                        \A k \in DOMAIN Lookup(t) :
                           Holds(Lookup(t)[k].spans, "bytes", o) => Lookup(t)[k].depth < d
                 PROVE  Count(o)[t] <= d
      OBVIOUS
    <2>1. /\ t \in 0..Len(nodes) /\ SpansOf(t) = nodes[t].spans
          /\ nodes[t].spans["bytes"].start \in Nat /\ Lookup(t) \in Seq(Entries)
      BY <1>0, Doc, SpanFields
    <2>2. Count(o)[t] = CountStep(Count(o), t, o)
      BY <1>0, <2>1, CountIs
    <2>3. CASE Holds(SpansOf(t), "bytes", o)
      BY <2>2, <2>3 DEF CountStep
    <2>4. CASE ~Holds(SpansOf(t), "bytes", o)
      <3> DEFINE k == FirstEntry(t, "bytes", o)
                 e == Lookup(t)[k]
                 u == e.target
      <3>1. FirstStart(t, "bytes") <= o /\ o < nodes[t].spans["bytes"].start
        <4>1. FirstStart(t, "bytes") = 0
          BY Sound DEF BlocksInOrder
        <4> QED BY <2>1, <2>4, <4>1 DEF Holds
      <3>2. k # 0 /\ u \in Ids /\ u < t /\ o < nodes[u].spans["bytes"].end
        BY <1>0, <3>1, TableStep
      <3>3. k \in DOMAIN Lookup(t) /\ Holds(e.spans, "bytes", o)
        <4>1. Len(Lookup(t)) \in Nat /\ DOMAIN Lookup(t) = 1..Len(Lookup(t))
          BY <2>1
        <4> QED BY <3>2, <4>1, FirstEntryIs
      <3>4. Leads(e) /\ e.depth \in Nat /\ e.depth < d
        BY <2>1, <3>3, Sound, EntryFields
      <3>5. Count(o)[t] = 1 + Count(o)[u]
        BY <2>2, <2>4, <3>2 DEF CountStep
      <3> HIDE DEF k, e, u
      <3>6. \A j \in DOMAIN Lookup(u) :
               Holds(Lookup(u)[j].spans, "bytes", o) => Lookup(u)[j].depth < e.depth
        <4> SUFFICES ASSUME NEW j \in DOMAIN Lookup(u), Holds(Lookup(u)[j].spans, "bytes", o)
                     PROVE  Lookup(u)[j].depth < e.depth
          OBVIOUS
        <4>1. /\ Lookup(u)[j].spans["bytes"].start \in Nat
              /\ Lookup(u)[j].spans["bytes"].end \in Nat
          BY <1>0, <3>2, Doc, EntrySpan
        <4>2. e.spans["bytes"].start \in Nat /\ e.spans["bytes"].end \in Nat
          BY <1>0, <2>1, <3>3, EntrySpan DEF e
        <4>3. Overlap(Lookup(u)[j].spans["bytes"], e.spans["bytes"])
          BY <3>3, <4>1, <4>2 DEF Overlap, Holds
        <4> QED BY <3>4, <4>3 DEF Leads, u
      <3>7. u \in Nat /\ u \in 0..Len(nodes)
        BY <1>0, <3>2, Doc
      <3>8. Count(o)[u] <= e.depth /\ Count(o)[u] \in Nat
        <4>1. u \in T
          BY <1>1, <3>2, <3>7
        <4>2. Count(o)[u] \in Nat
          BY <1>0, <3>7, CountIs
        <4> QED BY <3>2, <3>4, <3>6, <4>1, <4>2
      <3> QED BY <3>4, <3>5, <3>8
    <2> QED BY <2>3, <2>4
  <1> HIDE DEF T
  <1>2. Nat \subseteq T
    BY <1>1, CompleteInduction
  <1> QED BY <1>0, <1>2, Doc DEF T

\* A byte is reached in as many requests as the tree of tables is high, "the
\* number of requests equal to the height of the tree" (lines 18-19).
THEOREM RequestsBoundedHolds == ASSUME ~RandomWrites PROVE Spec => []RequestsBounded
  <1>1. IInv => RequestsBounded
    <2> SUFFICES ASSUME IInv, NEW n \in Ids, NEW k \in DOMAIN Lookup(n),
                        NEW o \in Lookup(n)[k].spans.bytes.start..(Lookup(n)[k].spans.bytes.end - 1),
                        FirstEntry(n, "bytes", o) = k
                 PROVE  Requests(n, o) <= Lookup(n)[k].depth + 1
      BY DEF RequestsBounded
    <2> DEFINE e == Lookup(n)[k]
               t == e.target
    <2>1. /\ WriteInv /\ TypeOK /\ "bytes" \in SpanNames /\ "bytes" \in OrderedSpans
          /\ n \in 0..Len(nodes) /\ Lookup(n) \in Seq(Entries)
      BY Sound, Doc, OrderedAreNames
    <2>2. /\ e.spans["bytes"].start \in Nat /\ e.spans["bytes"].end \in Nat /\ k # 0
          /\ e.depth \in Nat
      BY <2>1, EntrySpan, EntryFields
    <2>3. o \in Nat /\ e.spans["bytes"].start <= o /\ o < e.spans["bytes"].end
      BY <2>2
    <2>4. t \in Ids /\ t \in 0..Len(nodes) /\ Leads(e)
          /\ e.spans["bytes"].end <= nodes[t].spans["bytes"].end
          /\ nodes[t].spans["bytes"].end \in Nat
      <3>1. t \in Ids /\ Leads(e) /\ e.spans.bytes.end <= nodes[t].spans.bytes.end
        BY <2>1, Sound, WriteInvOlder, TargetsOlder DEF Complete
      <3> QED BY <2>1, <3>1, Doc, SpanFields
    <2>5. \A j \in DOMAIN Lookup(t) :
             Holds(Lookup(t)[j].spans, "bytes", o) => Lookup(t)[j].depth < e.depth
      <3> SUFFICES ASSUME NEW j \in DOMAIN Lookup(t), Holds(Lookup(t)[j].spans, "bytes", o)
                   PROVE  Lookup(t)[j].depth < e.depth
        OBVIOUS
      <3>1. /\ Lookup(t)[j].spans["bytes"].start \in Nat
            /\ Lookup(t)[j].spans["bytes"].end \in Nat
        BY <2>1, <2>4, Doc, EntrySpan
      <3>2. Overlap(Lookup(t)[j].spans["bytes"], e.spans["bytes"])
        BY <2>2, <2>3, <3>1 DEF Overlap, Holds
      <3> QED BY <2>4, <3>2 DEF Leads
    <2>6. o < nodes[t].spans["bytes"].end
      BY <2>2, <2>3, <2>4
    <2>7. Count(o)[t] <= e.depth
      BY <2>2, <2>3, <2>4, <2>5, <2>6, CountBounded
    <2>8. Count(o)[n] = 0 \/ Count(o)[n] = 1 + Count(o)[t]
      <3>1. Count(o)[n] = CountStep(Count(o), n, o)
        BY <2>1, CountIs
      <3> QED BY <3>1 DEF CountStep
    <2>9. Count(o)[t] \in Nat /\ Requests(n, o) = Count(o)[n]
      BY <2>1, <2>4, CountIs, RequestsCount
    <2> HIDE DEF e, t
    <2>10. Requests(n, o) <= e.depth + 1
      BY <2>2, <2>7, <2>8, <2>9 DEF e
    <2> QED BY <2>10 DEF e
  <1> QED BY <1>1, InductiveInvariant, PTL

----------------------------------------------------------------------------
(* The blocks of a stream in its content.                                  *)

\* the spans offsets are exact in: the clock may stand still over a block
Exact == {"bytes", "index"}

LEMMA ExactAreOrdered == \A name \in Exact : name \in OrderedSpans /\ name \in SpanNames
  BY DEF Exact, OrderedSpans, SpanNames

\* A block is not empty, and it is within the stream.
LEMMA BlockBounds ==
    ASSUME IInv, NEW n \in Ids, NEW b \in BlocksOf(n), NEW name \in Exact
    PROVE  /\ b \in Ids /\ b \in Nat /\ n \in Nat /\ b <= n
           /\ SpansOf(b) = nodes[b].spans /\ SpansOf(n) = nodes[n].spans
           /\ nodes[b].spans[name].start \in Nat /\ nodes[b].spans[name].end \in Nat
           /\ nodes[n].spans[name].end \in Nat
           /\ nodes[b].spans[name].start < nodes[b].spans[name].end
           /\ nodes[b].spans[name].end <= nodes[n].spans[name].end
           /\ b # n => nodes[b].spans[name].end < nodes[n].spans[name].end
  <1>1. /\ BlocksInOrder(n) /\ TypeOK /\ n \in 1..Len(nodes) /\ Len(nodes) \in Nat
        /\ name \in OrderedSpans /\ name \in SpanNames
    BY Sound, Doc, ExactAreOrdered DEF Ids
  <1>2. b \in 1..n /\ b \in Ids /\ n \in BlocksOf(n)
    BY <1>1 DEF BlocksInOrder, Ids
  <1>3. ASSUME NEW d \in {b, n}
        PROVE  /\ nodes[d].spans[name].start \in Nat /\ nodes[d].spans[name].end \in Nat
               /\ nodes[d].spans[name].start < nodes[d].spans[name].end
    <2>1. d \in Ids
      BY <1>2
    <2>2. nodes[d].spans[name].start \in Nat /\ nodes[d].spans[name].end \in Nat
      BY <1>1, <2>1, Doc, SpanFields
    <2>3. CASE name = "bytes"
      BY <2>1, <2>2, <2>3, Sound DEF Proper
    <2>4. CASE name = "index"
      BY <2>1, <2>2, <2>4, Sound
    <2> QED BY <2>2, <2>3, <2>4 DEF Exact
  <1>4. b < n => nodes[b].spans[name].end <= nodes[n].spans[name].start
    BY <1>1, <1>2 DEF BlocksInOrder
  <1>5. b < n \/ b = n
    BY <1>1, <1>2
  <1>6. SpansOf(b) = nodes[b].spans /\ SpansOf(n) = nodes[n].spans
    BY <1>1, <1>2, Doc
  <1> QED BY <1>1, <1>2, <1>3, <1>4, <1>5, <1>6

\* The bytes of a block are where its span says.
LEMMA BlockBytes ==
    ASSUME IInv, NEW n \in Ids, NEW b \in BlocksOf(n)
    PROVE  \A i \in (nodes[b].spans.bytes.start + 1)..nodes[b].spans.bytes.end :
              i \in DOMAIN ideal[n] /\ ideal[n][i] = b
  <1>1. /\ BlocksInOrder(n) /\ TypeOK /\ Len(ideal[n]) = nodes[n].spans.bytes.end
        /\ ideal[n] \in Seq(Nat \ {0}) /\ IdealOf(n) = ideal[n]
        /\ "bytes" \in Exact /\ "bytes" \in OrderedSpans
    BY Sound, Doc, OrderedAreNames DEF Exact
  <1>2. /\ nodes[b].spans["bytes"].start \in Nat /\ nodes[b].spans["bytes"].end \in Nat
        /\ nodes[n].spans["bytes"].end \in Nat
        /\ nodes[b].spans["bytes"].end <= nodes[n].spans["bytes"].end
    BY <1>1, BlockBounds
  <1>3. DOMAIN ideal[n] = 1..nodes[n].spans["bytes"].end
    BY <1>1
  <1> SUFFICES ASSUME NEW i \in (nodes[b].spans["bytes"].start + 1)..nodes[b].spans["bytes"].end
               PROVE  i \in DOMAIN ideal[n] /\ ideal[n][i] = b
    OBVIOUS
  <1>4. i \in DOMAIN ideal[n] /\ i - 1 \in Nat /\ Holds(nodes[b].spans, "bytes", i - 1)
    BY <1>2, <1>3 DEF Holds
  <1>5. Holds(nodes[ideal[n][i]].spans, "bytes", i - 1) /\ ideal[n][i] \in BlocksOf(n)
    BY <1>1, <1>4 DEF BlocksInOrder, BlocksOf, Range
  <1> QED BY <1>1, <1>4, <1>5, OneBlockHolds

\* A stream has a block that starts at 0, and spans() starts there.
LEMMA StreamStarts ==
    ASSUME IInv, NEW n \in Ids, span \in Exact
    PROVE  /\ RangeStart(n) = 0
           /\ \E b \in BlocksOf(n) : nodes[b].spans[span].start = 0
  <1>1. /\ TypeOK /\ span \in OrderedSpans /\ span \in SpanNames /\ BlocksInOrder(n)
        /\ nodes[n].spans \in Spans /\ Lookup(n) \in Seq(Entries) /\ SpansOf(n) = nodes[n].spans
    BY Sound, Doc, ExactAreOrdered
  <1>2. FirstStart(n, span) = 0
    BY <1>1 DEF BlocksInOrder, Exact
  <1>3. RangeStart(n) = 0
    <2> DEFINE T == {SpansOf(n)[span].start} \union
                      {Lookup(n)[k].spans[span].start : k \in DOMAIN Lookup(n)}
    <2>1. T \subseteq Nat
      <3>1. SpansOf(n)[span].start \in Nat
        BY <1>1, SpanFields
      <3>2. \A k \in DOMAIN Lookup(n) : Lookup(n)[k].spans[span].start \in Nat
        BY <1>1, EntrySpan
      <3> QED BY <3>1, <3>2
    <2>2. 0 \in T
      <3>1. CASE Lookup(n) = <<>>
        BY <1>1, <1>2, <3>1, FirstStartIs
      <3>2. CASE Lookup(n) # <<>>
        <4>1. 1 \in DOMAIN Lookup(n)
          BY <1>1, <3>2
        <4> QED BY <1>1, <1>2, <3>2, <4>1, FirstStartIs
      <3> QED BY <3>1, <3>2
    <2>3. RangeStart(n) = Min(T)
      BY DEF RangeStart
    <2> HIDE DEF T
    <2>4. Min(T) \in T /\ Min(T) <= 0
      BY <2>1, <2>2, MinOfNumbers
    <2>5. Min(T) \in Nat
      BY <2>1, <2>4
    <2> QED BY <2>3, <2>4, <2>5
  <1>4. PICK b : Finds(GetNode(n, span, 0), n, span, 0) /\ b = GetNode(n, span, 0).node
    <2>1. n \in BlocksOf(n)
      BY <1>1 DEF BlocksInOrder
    <2>2. 0 < nodes[n].spans[span].end
      BY <2>1, BlockBounds
    <2> QED BY <1>1, <1>2, <2>2, GetNodeFinds
  <1>5. b \in BlocksOf(n) /\ nodes[b].spans[span].start <= 0
    BY <1>4 DEF Finds, Holds
  <1>6. nodes[b].spans[span].start \in Nat
    BY <1>5, BlockBounds
  <1> QED BY <1>3, <1>5, <1>6

\* How many bytes there are before the block asked for.
LEMMA BytesBeforeBlock ==
    ASSUME IInv, downTail \in Ids, span \in Exact, NEW b \in BlocksOf(downTail),
           nodes[b].spans[span].start = start
    PROVE  BytesBefore = nodes[b].spans.bytes.start
  <1> DEFINE n == downTail
             content == IdealOf(n)
             from == nodes[b].spans["bytes"].start
             T == {i \in DOMAIN content : SpansOf(content[i])[span].start < start}
  <1>1. /\ BlocksInOrder(n) /\ TypeOK /\ Len(ideal[n]) = nodes[n].spans.bytes.end
        /\ ideal[n] \in Seq(Nat \ {0}) /\ content = ideal[n]
        /\ "bytes" \in Exact
    BY Sound, Doc DEF Exact
  <1>2. /\ from \in Nat /\ from < nodes[b].spans["bytes"].end
        /\ nodes[b].spans["bytes"].end \in Nat
        /\ nodes[b].spans["bytes"].end <= nodes[n].spans["bytes"].end
        /\ nodes[n].spans["bytes"].end \in Nat /\ b \in Nat
        /\ start \in Nat
    BY <1>1, BlockBounds
  <1>3. DOMAIN content = 1..nodes[n].spans["bytes"].end
    BY <1>1
  <1>4. CASE span = "bytes"
    BY <1>4 DEF BytesBefore
  <1>5. CASE span = "index"
    <2>1. ASSUME NEW i \in DOMAIN content
          PROVE  SpansOf(content[i])[span].start < start <=> i <= from
      <3> DEFINE c == content[i]
      <3>1. Holds(nodes[c].spans, "bytes", i - 1) /\ c \in BlocksOf(n) /\ i \in Nat
        <4>1. i \in DOMAIN ideal[n] /\ c = ideal[n][i] /\ i \in Nat
          BY <1>1, <1>3, <2>1
        <4>2. c \in BlocksOf(n)
          BY <1>1, <4>1 DEF BlocksOf, Range
        <4> QED BY <1>1, <4>1, <4>2 DEF BlocksInOrder
      <3> HIDE DEF c, content
      <3>2. \A name \in Exact : /\ nodes[c].spans[name].start \in Nat
                                /\ nodes[c].spans[name].end \in Nat
                                /\ nodes[c].spans[name].start < nodes[c].spans[name].end
                                /\ nodes[b].spans[name].start \in Nat
                                /\ nodes[b].spans[name].end \in Nat
                                /\ nodes[b].spans[name].start < nodes[b].spans[name].end
        BY <3>1, BlockBounds
      <3>3. SpansOf(c) = nodes[c].spans /\ c \in Nat
        BY <1>1, <3>1, BlockBounds
      <3>4. /\ nodes[c].spans["bytes"].start <= i - 1 /\ i - 1 < nodes[c].spans["bytes"].end
            /\ nodes[c].spans["bytes"].start \in Nat /\ nodes[c].spans["bytes"].end \in Nat
            /\ nodes[c].spans["index"].start \in Nat /\ nodes[c].spans["index"].end \in Nat
            /\ nodes[b].spans["index"].start \in Nat /\ nodes[b].spans["index"].end \in Nat
            /\ nodes[c].spans["index"].start < nodes[c].spans["index"].end
            /\ nodes[b].spans["index"].start < nodes[b].spans["index"].end
            /\ nodes[b].spans["index"].start = start
        BY <1>5, <3>1, <3>2 DEF Holds, Exact
      <3>5. \/ i <= from /\ nodes[c].spans["index"].start < start
            \/ ~(i <= from) /\ ~(nodes[c].spans["index"].start < start)
            => (SpansOf(c)[span].start < start <=> i <= from)
        BY <1>5, <3>3
      <3>6. CASE c < b
        <4>1. /\ nodes[c].spans["bytes"].end <= from
              /\ nodes[c].spans["index"].end <= nodes[b].spans["index"].start
          BY <1>1, <3>1, <3>6, ExactAreOrdered DEF BlocksInOrder, Exact
        <4>2. i <= from /\ nodes[c].spans["index"].start < start
          BY <1>2, <3>1, <3>4, <4>1
        <4> QED BY <3>5, <4>2 DEF c
      <3>7. CASE b < c
        <4>1. /\ nodes[b].spans["bytes"].end <= nodes[c].spans["bytes"].start
              /\ nodes[b].spans["index"].end <= nodes[c].spans["index"].start
          BY <1>1, <3>1, <3>7, ExactAreOrdered DEF BlocksInOrder, Exact
        <4>2. ~(i <= from) /\ ~(nodes[c].spans["index"].start < start)
          BY <1>2, <3>1, <3>4, <4>1
        <4> QED BY <3>5, <4>2 DEF c
      <3>8. CASE c = b
        <4>1. ~(i <= from) /\ ~(nodes[c].spans["index"].start < start)
          BY <1>2, <3>1, <3>8, <3>4 DEF from
        <4> QED BY <3>5, <4>1 DEF c
      <3> QED BY <1>2, <3>3, <3>6, <3>7, <3>8
    <2> HIDE DEF content, from
    <2>2. T = 1..from
      <3>1. 1..from \subseteq DOMAIN content
        BY <1>2, <1>3
      <3>2. \A i \in DOMAIN content : i \in 1..from <=> i <= from
        BY <1>2, <1>3
      <3> QED BY <2>1, <3>1, <3>2
    <2>3. Cardinality(1..from) = from
      <3>1. Cardinality(1..from) = IF 1 > from THEN 0 ELSE from - 1 + 1
        BY <1>2, FS_Interval
      <3> QED BY <1>2, <3>1
    <2>4. BytesBefore = Cardinality(T)
      BY <1>5 DEF BytesBefore, content
    <2> QED BY <2>2, <2>3, <2>4 DEF from
  <1> QED BY <1>4, <1>5 DEF Exact

----------------------------------------------------------------------------
(* Downloads.                                                              *)

LEMMA Joined ==
    ASSUME NEW S, NEW x \in Seq(S), NEW d \in Seq(S)
    PROVE  /\ x \o d \in Seq(S) /\ Len(x \o d) = Len(x) + Len(d)
           /\ \A i \in 1..Len(x) : (x \o d)[i] = x[i]
           /\ \A i \in 1..Len(d) : (x \o d)[Len(x) + i] = d[i]
  OBVIOUS

LEMMA SameSequence ==
    ASSUME NEW S, NEW x \in Seq(S), NEW y \in Seq(S), Len(x) = Len(y),
           \A i \in 1..Len(x) : x[i] = y[i]
    PROVE  x = y
  OBVIOUS

LEMMA JoinedIs ==
    ASSUME NEW S, NEW x \in Seq(S), NEW y \in Seq(S), NEW d \in Seq(S),
           Len(y) = Len(x) + Len(d),
           \A i \in 1..Len(x) : y[i] = x[i],
           \A i \in 1..Len(d) : y[Len(x) + i] = d[i]
    PROVE  x \o d = y
  <1> DEFINE z == x \o d
  <1>1. /\ z \in Seq(S) /\ Len(z) = Len(x) + Len(d)
        /\ \A i \in 1..Len(x) : z[i] = x[i]
        /\ \A i \in 1..Len(d) : z[Len(x) + i] = d[i]
    BY Joined
  <1> HIDE DEF z
  <1>2. Len(x) \in Nat /\ Len(d) \in Nat
    OBVIOUS
  <1>3. ASSUME NEW i \in 1..Len(z) PROVE z[i] = y[i]
    <2>1. CASE i <= Len(x)
      <3>1. i \in 1..Len(x)
        BY <1>2, <2>1, <1>3, <1>1
      <3> QED BY <1>1, <3>1
    <2>2. CASE ~(i <= Len(x))
      <3>1. i - Len(x) \in 1..Len(d) /\ Len(x) + (i - Len(x)) = i
        BY <1>2, <2>2, <1>3, <1>1
      <3>2. /\ z[Len(x) + (i - Len(x))] = d[i - Len(x)]
            /\ y[Len(x) + (i - Len(x))] = d[i - Len(x)]
        BY <1>1, <3>1, Zenon
      <3> QED BY <3>1, <3>2
    <2> QED BY <2>1, <2>2
  <1>4. z = y
    BY <1>1, <1>3, SameSequence
  <1> QED BY <1>4 DEF z

\* A piece of a sequence.
LEMMA Piece ==
    ASSUME NEW S, NEW content \in Seq(S), NEW from \in Nat, NEW u \in Nat,
           from + u <= Len(content)
    PROVE  /\ SubSeq(content, from + 1, from + u) \in Seq(S)
           /\ Len(SubSeq(content, from + 1, from + u)) = u
           /\ \A i \in 1..u : SubSeq(content, from + 1, from + u)[i] = content[from + i]
  OBVIOUS

\* A piece of a sequence and the block behind it are a longer piece.
LEMMA BlockFollows ==
    ASSUME NEW S, NEW content \in Seq(S), NEW from \in Nat, NEW u \in Nat, NEW w \in Nat,
           from + u + w <= Len(content), NEW b \in S,
           \A i \in (from + u + 1)..(from + u + w) : content[i] = b
    PROVE  SubSeq(content, from + 1, from + u) \o [i \in 1..w |-> b]
              = SubSeq(content, from + 1, from + (u + w))
  <1> DEFINE d == [i \in 1..w |-> b]
             x == SubSeq(content, from + 1, from + u)
             y == SubSeq(content, from + 1, from + (u + w))
  <1>1. d \in Seq(S) /\ Len(d) = w /\ \A i \in 1..w : d[i] = b
    OBVIOUS
  <1>2. x \in Seq(S) /\ Len(x) = u /\ \A i \in 1..u : x[i] = content[from + i]
    <2>1. from + u <= Len(content)
      OBVIOUS
    <2> QED BY <2>1, Piece
  <1>3. y \in Seq(S) /\ Len(y) = u + w /\ \A i \in 1..(u + w) : y[i] = content[from + i]
    <2>1. u + w \in Nat /\ from + (u + w) <= Len(content)
      OBVIOUS
    <2> QED BY <2>1, Piece
  <1> HIDE DEF d, x, y
  <1>4. \A i \in 1..Len(x) : y[i] = x[i]
    <2>1. \A i \in 1..u : i \in 1..(u + w)
      OBVIOUS
    <2> QED BY <1>2, <1>3, <2>1, Zenon
  <1>5. \A i \in 1..Len(d) : y[Len(x) + i] = d[i]
    <2> SUFFICES ASSUME NEW i \in 1..w PROVE y[u + i] = b
      BY <1>1, <1>2, Zenon
    <2>1. u + i \in 1..(u + w) /\ from + (u + i) \in (from + u + 1)..(from + u + w)
      OBVIOUS
    <2> QED BY <1>3, <2>1, Zenon
  <1>6. Len(y) = Len(x) + Len(d)
    BY <1>1, <1>2, <1>3
  <1>7. x \o d = y
    BY <1>1, <1>2, <1>3, <1>4, <1>5, <1>6, JoinedIs
  <1> QED BY <1>7 DEF d, x, y

\* read() at the start of a block gives the block, and moves to its end.
LEMMA ReadGives ==
    ASSUME IInv, downTail \in Ids, span \in Exact, NEW b \in BlocksOf(downTail),
           offset = nodes[b].spans[span].start, NEW found, found = GetNode(downTail, span, offset)
    PROVE  LET size == nodes[b].spans.bytes.end - nodes[b].spans.bytes.start
           IN /\ ~Throws(found)
              /\ NextOffset(found) = nodes[b].spans[span].end
              /\ Data(found) = [i \in 1..size |-> b]
  <1> DEFINE size == nodes[b].spans["bytes"].end - nodes[b].spans["bytes"].start
  <1>1. /\ BlocksInOrder(downTail) /\ TypeOK /\ "bytes" \in Exact
        /\ span \in OrderedSpans /\ span \in SpanNames
    BY Sound, ExactAreOrdered DEF Exact
  <1>2. /\ b \in Ids /\ b \in Nat \ {0}
        /\ nodes[b].spans[span].start \in Nat /\ nodes[b].spans[span].end \in Nat
        /\ nodes[b].spans["bytes"].start \in Nat /\ nodes[b].spans["bytes"].end \in Nat
        /\ nodes[b].spans[span].start < nodes[b].spans[span].end
        /\ nodes[b].spans[span].end <= nodes[downTail].spans[span].end
        /\ nodes[downTail].spans[span].end \in Nat
        /\ FirstStart(downTail, span) <= nodes[b].spans[span].start
    BY <1>1, BlockBounds, Doc DEF BlocksInOrder
  <1>3. offset \in Nat /\ Holds(nodes[b].spans, span, offset)
        /\ FirstStart(downTail, span) <= offset /\ offset < nodes[downTail].spans[span].end
    BY <1>2 DEF Holds
  <1>4. Finds(found, downTail, span, offset)
    BY <1>1, <1>3, GetNodeFinds
  <1>5. found.node = b
    BY <1>1, <1>3, <1>4, OneBlockHolds DEF Finds
  <1>6. found.bounds[span].end = nodes[b].spans[span].end
    BY <1>4, <1>5 DEF Finds
  <1>7. ~Throws(found)
    BY <1>2, <1>5 DEF Throws
  <1>8. NextOffset(found) = nodes[b].spans[span].end
    BY <1>6 DEF NextOffset
  <1>9. Data(found) = Slice(b, 0, size)
    <2>1. CASE span = "bytes"
      <3>1. offset - nodes[b].spans["bytes"].start = 0
        BY <1>2, <2>1
      <3> QED BY <1>5, <1>6, <2>1, <3>1 DEF Data
    <2>2. CASE span = "index"
      BY <1>5, <2>2 DEF Data
    <2> QED BY <2>1, <2>2 DEF Exact
  <1>10. Slice(b, 0, size) = [i \in 1..size |-> b]
    <2>1. Slice(b, 0, size) = [i \in 1..size |-> IF 0 + i <= size THEN b ELSE Junk]
      BY DEF Slice
    <2>2. size \in Int
      BY <1>2
    <2> HIDE DEF size
    <2>3. \A i \in 1..size : 0 + i <= size
      BY <2>2
    <2> QED BY <2>1, <2>3
  <1> QED BY <1>7, <1>8, <1>9, <1>10

LEMMA CopyGrows ==
    ASSUME IInv, downTail \in Ids, span \in Exact, NEW b \in BlocksOf(downTail),
           CopiedTo(nodes[b].spans.bytes.start),
           UNCHANGED <<downTail, span, start, nodes, ideal>>
    PROVE  out' = out \o [i \in 1..(nodes[b].spans.bytes.end - nodes[b].spans.bytes.start) |-> b]
           => CopiedTo(nodes[b].spans.bytes.end)'
  <1> DEFINE content == ideal[downTail]
             p == nodes[b].spans["bytes"].start
             e == nodes[b].spans["bytes"].end
  <1>1. /\ TypeOK /\ Len(content) = nodes[downTail].spans["bytes"].end
        /\ content \in Seq(Nat \ {0}) /\ IdealOf(downTail) = content
        /\ "bytes" \in Exact
    BY Sound, Doc DEF Exact
  <1>2. /\ p \in Nat /\ e \in Nat /\ p < e /\ e <= Len(content) /\ b \in Nat \ {0}
    <2>1. p \in Nat /\ e \in Nat /\ p < e /\ e <= nodes[downTail].spans["bytes"].end /\ b \in Ids
      BY <1>1, BlockBounds
    <2>2. b \in Nat \ {0}
      BY <1>1, <2>1, Doc
    <2> QED BY <1>1, <2>1, <2>2
  <1>3. \A i \in (p + 1)..e : content[i] = b
    BY BlockBytes
  <1>4. PICK first \in BlocksOf(downTail) :
           /\ nodes[first].spans[span].start = start
           /\ nodes[first].spans.bytes.start <= p
           /\ out = SubSeq(IdealOf(downTail), nodes[first].spans.bytes.start + 1, p)
    BY DEF CopiedTo
  <1> DEFINE from == nodes[first].spans["bytes"].start
  <1>5. from \in Nat /\ from <= p
    BY <1>1, <1>4, BlockBounds
  <1>6. first \in BlocksOf(downTail)' /\ IdealOf(downTail)' = content
    BY <1>1, <1>4 DEF BlocksOf, IdealOf
  <1>7. out = SubSeq(content, from + 1, p)
    BY <1>1, <1>4
  <1> HIDE DEF content, p, e, from
  <1>8. from <= e
    BY <1>2, <1>5
  <1>9. SubSeq(content, from + 1, p) \o [i \in 1..(e - p) |-> b] = SubSeq(content, from + 1, e)
    <2> DEFINE u == p - from
               w == e - p
    <2>1. u \in Nat /\ w \in Nat /\ from + u = p /\ from + u + w = e /\ from + (u + w) = e
      BY <1>2, <1>5
    <2> HIDE DEF u
    <2>2. /\ from + u + w <= Len(content)
          /\ \A i \in (from + u + 1)..(from + u + w) : content[i] = b
      BY <1>2, <1>3, <2>1
    <2> HIDE DEF w
    <2>3. SubSeq(content, from + 1, from + u) \o [i \in 1..w |-> b]
             = SubSeq(content, from + 1, from + (u + w))
      BY <1>1, <1>2, <1>5, <2>1, <2>2, BlockFollows
    <2> QED BY <2>1, <2>3 DEF w
  <1>10. ASSUME out' = out \o [i \in 1..(e - p) |-> b] PROVE out' = SubSeq(content, from + 1, e)
    BY <1>7, <1>9, <1>10
  <1>11. ASSUME out' = SubSeq(content, from + 1, e) PROVE CopiedTo(nodes[b].spans.bytes.end)'
    BY <1>4, <1>6, <1>8, <1>11 DEF CopiedTo, from, e
  <1> QED BY <1>10, <1>11 DEF p, e

\* An empty stream ends where it starts.
LEMMA EmptyStream ==
    ASSUME span \in Exact
    PROVE  RangeStart(0) = 0 /\ RangeEnd(0) = 0 /\ BlocksOf(0) = {}
  <1>1. SpansOf(0)[span].start = 0 /\ SpansOf(0)[span].end = 0
    BY DEF SpansOf, FreshSpans, Interval, Exact
  <1>2. Lookup(0) = <<>> /\ IdealOf(0) = <<>>
    BY DEF Lookup, IdealOf
  <1>3. RangeStart(0) = Min({0})
    <2>1. {Lookup(0)[k].spans[span].start : k \in DOMAIN Lookup(0)} = {}
      BY <1>2
    <2> QED BY <1>1, <2>1 DEF RangeStart
  <1>4. Min({0}) \in {0}
    BY MinOfNumbers
  <1>5. BlocksOf(0) = {}
    BY <1>2 DEF BlocksOf, Range
  <1> QED BY <1>1, <1>3, <1>4, <1>5 DEF RangeEnd

\* A step of the writer keeps the documents there are.
LEMMA NextKeeps ==
    ASSUME IInv, Next
    PROVE  Keeps /\ Len(nodes') \in Nat /\ Len(nodes) <= Len(nodes')
  <1>1. TypeOK
    BY DEF IInv, WriteInv
  <1>2. CASE Upload /\ uploads = 2
    <2>1. Keeps
      BY <1>2, NewBlocks
    <2>2. nodes' = Append(nodes, [spans |-> spans, lookup |-> lookup_nodes])
      BY <1>2 DEF Upload
    <2>3. Len(nodes') = Len(nodes) + 1
      BY <1>1, <2>2 DEF TypeOK
    <2> QED BY <1>1, <2>1, <2>3 DEF TypeOK
  <1>3. CASE ~(Upload /\ uploads = 2)
    <2>1. UNCHANGED <<nodes, ideal>>
      BY <1>3 DEF Next, Write, WriteAppend, WriteOver, Begin, MergeLoop, Merge, AssertFails,
                  Skip, StartUploads, Upload, Commit, Save, Restart
    <2> QED BY <1>1, <2>1, SameTables DEF TypeOK
  <1> QED BY <1>2, <1>3

LEMMA InitDownloadInv == DownloadInit => DownloadInv
  BY DEF DownloadInit, DownloadInv, Init

\* A download starts at a block, with nothing copied.
LEMMA OpenKeepsDownloadInv ==
    ASSUME IInv, DownloadInv, Open, Asked \subseteq Exact
    PROVE  DownloadInv'
  <1>1. /\ span \in Exact /\ span \in Asked /\ TypeOK /\ out = <<>> /\ start' \in Nat
        /\ saved \in 0..Len(nodes) /\ Len(nodes) \in Nat
        /\ start' = 0 \/ StartsBlock(saved, start')
        /\ down' = "reading" /\ downTail' = saved /\ offset' = Later(start', RangeStart(saved))
        /\ span' = span /\ out' = out /\ nodes' = nodes /\ ideal' = ideal /\ born' = born
    BY DownloadAssumption DEF DownloadInv, Open, IInv, WriteInv, TypeOK, vars
  <1>2. CASE saved = 0
    <2>1. RangeStart(0) = 0 /\ ~StartsBlock(0, start')
      BY <1>1, EmptyStream DEF StartsBlock, BlocksOf
    <2>2. start' = 0 /\ offset' = 0
      BY <1>1, <1>2, <2>1 DEF Later
    <2> QED BY <1>1, <1>2, <2>2 DEF DownloadInv
  <1>3. CASE saved # 0
    <2>1. saved \in Ids
      BY <1>1, <1>3 DEF Ids
    <2>2. PICK b \in BlocksOf(saved) : nodes[b].spans[span].start = start'
      <3>1. CASE start' = 0
        BY <1>1, <2>1, <3>1, StreamStarts
      <3>2. CASE StartsBlock(saved, start')
        BY <1>1, <2>1, <3>2, BlockBounds DEF StartsBlock, BlocksOf
      <3> QED BY <1>1, <3>1, <3>2
    <2>3. offset' = start'
      BY <1>1, <2>1, StreamStarts DEF Later
    <2> DEFINE from == nodes[b].spans["bytes"].start
    <2>4. from \in Nat
      BY <2>1, BlockBounds DEF Exact
    <2>5. out' = SubSeq(IdealOf(saved), from + 1, from)
      <3>1. IdealOf(saved) \in Seq(Nat \ {0})
        BY <1>1, <2>1, Doc
      <3> HIDE DEF from
      <3> QED BY <1>1, <2>4, <3>1
    <2>6. BlocksOf(downTail)' = BlocksOf(saved) /\ IdealOf(downTail)' = IdealOf(saved)
      BY <1>1 DEF BlocksOf, IdealOf
    <2>7. CopiedTo(nodes[b].spans.bytes.start)'
      BY <1>1, <2>2, <2>4, <2>5, <2>6 DEF CopiedTo
    <2>8. AtABlock'
      BY <1>1, <2>2, <2>3, <2>6, <2>7 DEF AtABlock
    <2> QED BY <1>1, <1>3, <2>3, <2>8 DEF DownloadInv
  <1> QED BY <1>2, <1>3

\* A read copies the block the download is at, and goes to the next one.
LEMMA ReadKeepsDownloadInv ==
    ASSUME IInv, DownloadInv, ReadBlock, Asked \subseteq Exact, ~AddsSize
    PROVE  DownloadInv'
  <1>1. /\ span \in Exact /\ span \in Asked /\ TypeOK /\ offset \in Nat /\ start \in Nat
        /\ down = "reading" /\ downTail \in 0..Len(nodes) /\ Len(nodes) \in Nat
        /\ offset < RangeEnd(downTail)
        /\ UNCHANGED <<downTail, span, start, nodes, ideal, born>>
    BY DEF DownloadInv, ReadBlock, IInv, WriteInv, TypeOK, vars
  <1>2. downTail # 0
    BY <1>1, EmptyStream
  <1>3. downTail \in Ids
    BY <1>1, <1>2 DEF Ids
  <1>4. AtABlock
    <2>1. RangeEnd(downTail) \in Nat
      <3>1. BlocksInOrder(downTail)
        BY <1>3, Sound
      <3>2. downTail \in BlocksOf(downTail)
        BY <3>1 DEF BlocksInOrder
      <3> QED BY <1>1, <1>3, <3>2, BlockBounds DEF RangeEnd
    <2>2. offset # RangeEnd(downTail)
      BY <1>1, <2>1
    <2> QED BY <1>1, <1>2, <2>2 DEF DownloadInv, AtTheEnd
  <1>5. PICK b \in BlocksOf(downTail) : /\ offset = nodes[b].spans[span].start
                                        /\ CopiedTo(nodes[b].spans.bytes.start)
    BY <1>4 DEF AtABlock
  <1> DEFINE found == GetNode(downTail, span, offset)
             size == nodes[b].spans.bytes.end - nodes[b].spans.bytes.start
  <1>6. /\ ~Throws(found)
        /\ NextOffset(found) = nodes[b].spans[span].end
        /\ Data(found) = [i \in 1..size |-> b]
    BY <1>1, <1>3, <1>5, ReadGives
  <1>7. nodes[b].spans[span].end \in Nat /\ SpansOf(downTail) = nodes[downTail].spans
    BY <1>1, <1>3, <1>5, BlockBounds
  <1>8. /\ down' = "reading"
        /\ out' = out \o Data(found)
        /\ offset' = NextOffset(found) + 0
    BY <1>1, <1>6 DEF ReadBlock
  <1> HIDE DEF found
  <1>9. offset' = nodes[b].spans[span].end /\ offset' \in Nat
    <2>1. NextOffset(found) = nodes[b].spans[span].end
      BY <1>6
    <2>2. offset' = nodes[b].spans[span].end + 0
      BY <1>8, <2>1
    <2>3. \A o \in Nat : o + 0 = o
      OBVIOUS
    <2> QED BY <1>7, <2>2, <2>3, Zenon
  <1>10. CopiedTo(nodes[b].spans.bytes.end)'
    BY <1>1, <1>3, <1>5, <1>6, <1>8, CopyGrows
  <1>11. BlocksOf(downTail)' = BlocksOf(downTail) /\ RangeEnd(downTail)' = RangeEnd(downTail)
    BY <1>1 DEF BlocksOf, IdealOf, RangeEnd, SpansOf
  <1>12. AtABlock' \/ AtTheEnd'
    <2>1. CASE b = downTail
      <3>1. offset' = RangeEnd(downTail)'
        BY <1>7, <1>9, <1>11, <2>1 DEF RangeEnd
      <3>2. CopiedTo(nodes[downTail].spans.bytes.end)'
        BY <1>1, <1>10, <2>1
      <3> QED BY <3>1, <3>2 DEF AtTheEnd
    <2>2. CASE b # downTail
      <3>1. PICK c \in BlocksOf(downTail) :
               \A name \in SpanNames : nodes[c].spans[name].start = nodes[b].spans[name].end
        <4>1. BlocksInOrder(downTail)
          BY <1>3, Sound
        <4> QED BY <1>5, <2>2, <4>1 DEF BlocksInOrder
      <3>2. /\ nodes[c].spans[span].start = nodes[b].spans[span].end
            /\ nodes[c].spans["bytes"].start = nodes[b].spans["bytes"].end
        BY <1>1, <3>1 DEF SpanNames, Exact
      <3>3. CopiedTo(nodes[c].spans.bytes.start)'
        BY <1>1, <1>10, <3>2 DEF CopiedTo
      <3> QED BY <1>1, <1>9, <1>11, <3>1, <3>2, <3>3 DEF AtABlock
    <2> QED BY <2>1, <2>2
  <1> QED BY <1>1, <1>2, <1>8, <1>9, <1>12 DEF DownloadInv

\* What the writer does leaves the download where it is.
LEMMA WriterKeepsDownloadInv ==
    ASSUME IInv, DownloadInv, Next, UNCHANGED downVars, Asked \subseteq Exact
    PROVE  DownloadInv'
  <1>1. /\ span \in Exact /\ span \in Asked /\ TypeOK /\ Keeps
        /\ Len(nodes') \in Nat /\ Len(nodes) <= Len(nodes')
        /\ downTail \in 0..Len(nodes) /\ Len(nodes) \in Nat
        /\ UNCHANGED <<down, downTail, span, start, offset, out>>
    BY NextKeeps DEF DownloadInv, IInv, WriteInv, TypeOK, downVars
  <1>2. /\ down' \in {"closed", "reading", "done"} /\ span' \in Asked
        /\ start' \in Nat /\ offset' \in Nat /\ down' = "closed" => out' = <<>>
    BY <1>1 DEF DownloadInv
  <1>3. CASE downTail = 0
    <2>1. RangeEnd(downTail) = RangeEnd(downTail)'
      BY <1>1, <1>3 DEF RangeEnd, SpansOf, FreshSpans, Interval, Exact
    <2>2. downTail' \in 0..Len(nodes')
      BY <1>1, <1>3
    <2> QED BY <1>1, <1>2, <1>3, <2>1, <2>2 DEF DownloadInv
  <1>4. CASE downTail # 0
    <2>1. downTail \in Ids /\ downTail \in Ids'
      BY <1>1, <1>4 DEF Ids, Keeps
    <2>2. \A b \in BlocksOf(downTail) : b \in Ids /\ nodes'[b] = nodes[b]
      BY <1>1, <2>1, BlockBounds DEF Keeps
    <2>3. /\ BlocksOf(downTail)' = BlocksOf(downTail) /\ IdealOf(downTail)' = IdealOf(downTail)
          /\ nodes'[downTail] = nodes[downTail]
      BY <1>1, <1>4, <2>1 DEF BlocksOf, IdealOf, Keeps
    <2>4. RangeEnd(downTail)' = RangeEnd(downTail)
      BY <1>1, <1>4, <2>3 DEF RangeEnd, SpansOf
    <2>5. \A byte : CopiedTo(byte) => CopiedTo(byte)'
      BY <1>1, <2>2, <2>3 DEF CopiedTo
    <2>6. AtABlock => AtABlock'
      BY <1>1, <2>2, <2>3, <2>5 DEF AtABlock
    <2>7. AtTheEnd => AtTheEnd'
      BY <1>1, <2>3, <2>4, <2>5 DEF AtTheEnd
    <2>8. downTail' \in 0..Len(nodes')
      BY <2>1, <1>1 DEF Ids
    <2> QED BY <1>1, <1>2, <1>4, <2>4, <2>6, <2>7, <2>8 DEF DownloadInv
  <1> QED BY <1>3, <1>4

LEMMA NextDownloadInv ==
    ASSUME IInv, DownloadInv, [DownloadNext]_allVars, Asked \subseteq Exact, ~AddsSize
    PROVE  DownloadInv'
  <1>1. CASE Open
    BY <1>1, OpenKeepsDownloadInv
  <1>2. CASE ReadBlock
    BY <1>2, ReadKeepsDownloadInv
  <1>3. CASE Close
    BY <1>3 DEF Close, DownloadInv, AtABlock, AtTheEnd, CopiedTo, BlocksOf, IdealOf, RangeEnd,
                SpansOf, vars
  <1>4. CASE Next /\ UNCHANGED downVars
    BY <1>4, WriterKeepsDownloadInv
  <1>5. CASE UNCHANGED allVars
    BY <1>5 DEF DownloadInv, AtABlock, AtTheEnd, CopiedTo, BlocksOf, IdealOf, RangeEnd,
                SpansOf, allVars, downVars, vars
  <1> QED BY <1>1, <1>2, <1>3, <1>4, <1>5 DEF DownloadNext

\* Whatever its program does beside it, the writer keeps its tables.
LEMMA DownloadTables == ASSUME ~RandomWrites PROVE DownloadSpec => []IInv
  <1>1. DownloadInit => IInv
    BY InitIInv DEF DownloadInit
  <1>2. ASSUME IInv, [DownloadNext]_allVars PROVE IInv'
    <2>1. [Next]_vars
      BY <1>2 DEF DownloadNext, allVars, Open, ReadBlock, Close
    <2> QED BY <1>2, <2>1, NextIInv
  <1> QED BY <1>1, <1>2, PTL DEF DownloadSpec

\* A download by bytes or by index is at a block of the stream it opened or at
\* its end, with the content up to there copied (skystreamtest.cpp's --down).
THEOREM DownloadInvariant ==
    ASSUME ~RandomWrites, ~AddsSize, Asked \subseteq Exact
    PROVE  DownloadSpec => []DownloadInv
  <1>1. IInv /\ DownloadInv /\ [DownloadNext]_allVars => DownloadInv'
    BY NextDownloadInv
  <1> QED BY <1>1, InitDownloadInv, DownloadTables, PTL DEF DownloadSpec

\* No read of such a download throws: get_node finds a block for its offset,
\* and the offset is where the block starts (read(), lines 75-98).
THEOREM DownloadNeverFailsHolds ==
    ASSUME ~RandomWrites, ~AddsSize, Asked \subseteq Exact
    PROVE  DownloadSpec => []DownloadNeverFails
  <1>1. DownloadInv => DownloadNeverFails
    BY DEF DownloadInv, DownloadNeverFails
  <1> QED BY <1>1, DownloadInvariant, PTL

\* When it is done, its output is the content of the stream it opened, from the
\* block it was asked for, whatever the writer has done since.
THEOREM DownloadExactHolds ==
    ASSUME ~RandomWrites, ~AddsSize, Asked \subseteq Exact
    PROVE  DownloadSpec => []DownloadExact
  <1>1. ASSUME IInv, DownloadInv PROVE DownloadExact
    <2> SUFFICES ASSUME down = "done"
                 PROVE  out = SubSeq(IdealOf(downTail), BytesBefore + 1, Len(IdealOf(downTail)))
      BY DEF DownloadExact
    <2>1. /\ span \in Exact /\ offset >= RangeEnd(downTail) /\ downTail \in 0..Len(nodes)
          /\ TypeOK /\ Len(nodes) \in Nat
          /\ IF downTail = 0 THEN start = 0 /\ offset = 0 /\ out = <<>> ELSE AtABlock \/ AtTheEnd
      BY <1>1 DEF DownloadInv, IInv, WriteInv, TypeOK
    <2>2. CASE downTail = 0
      <3>1. IdealOf(downTail) = <<>> /\ out = <<>>
        BY <2>1, <2>2 DEF IdealOf
      <3>2. BytesBefore = 0
        <4>1. CASE span = "bytes"
          BY <2>1, <2>2, <4>1 DEF BytesBefore
        <4>2. CASE span # "bytes"
          <5>1. BytesBefore = Cardinality({i \in DOMAIN <<>> : SpansOf(<<>>[i])[span].start < start})
            BY <3>1, <4>2 DEF BytesBefore
          <5>2. {i \in DOMAIN <<>> : SpansOf(<<>>[i])[span].start < start} = {}
            OBVIOUS
          <5> QED BY <5>1, <5>2, FS_EmptySet
        <4> QED BY <4>1, <4>2
      <3>3. SubSeq(<<>>, 0 + 1, Len(<<>>)) = <<>>
        OBVIOUS
      <3> QED BY <3>1, <3>2, <3>3
    <2>3. CASE downTail # 0
      <3>1. downTail \in Ids
        BY <2>1, <2>3 DEF Ids
      <3>2. ~AtABlock
        <4> SUFFICES ASSUME NEW b \in BlocksOf(downTail), offset = nodes[b].spans[span].start
                     PROVE  FALSE
          BY DEF AtABlock
        <4>1. /\ nodes[b].spans[span].start \in Nat /\ nodes[b].spans[span].end \in Nat
              /\ nodes[downTail].spans[span].end \in Nat
              /\ nodes[b].spans[span].start < nodes[b].spans[span].end
              /\ nodes[b].spans[span].end <= nodes[downTail].spans[span].end
              /\ SpansOf(downTail) = nodes[downTail].spans
          BY <1>1, <2>1, <3>1, BlockBounds
        <4>2. offset >= nodes[downTail].spans[span].end
          BY <2>1, <4>1 DEF RangeEnd
        <4> QED BY <4>1, <4>2
      <3>3. CopiedTo(nodes[downTail].spans.bytes.end)
        BY <2>1, <2>3, <3>2 DEF AtTheEnd
      <3>4. PICK first \in BlocksOf(downTail) :
               /\ nodes[first].spans[span].start = start
               /\ out = SubSeq(IdealOf(downTail), nodes[first].spans.bytes.start + 1,
                               nodes[downTail].spans.bytes.end)
        BY <3>3 DEF CopiedTo
      <3>5. BytesBefore = nodes[first].spans.bytes.start
        BY <1>1, <2>1, <3>1, <3>4, BytesBeforeBlock
      <3>6. Len(IdealOf(downTail)) = nodes[downTail].spans.bytes.end
        BY <1>1, <2>1, <3>1, Sound, Doc
      <3> QED BY <3>4, <3>5, <3>6
    <2> QED BY <2>2, <2>3
  <1> QED BY <1>1, DownloadTables, DownloadInvariant, PTL
=============================================================================
