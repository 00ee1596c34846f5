-------------------------- MODULE SkystreamProofs --------------------------
(* Proofs about Skystream.  For a program that only appends: WriteInv, and *)
(* from it that the assertion of the merge loop holds and that the stream  *)
(* is a growing one.  For one that writes anywhere: AnywhereInv, and from  *)
(* it the types, that tables reach and what get_node finds.                *)
EXTENDS Skystream, Induction

----------------------------------------------------------------------------
(* Shapes of the values the steps build.                                   *)

LEMMA FreshSpansType == \A t \in Nat : FreshSpans(t) \in Spans
  BY DEF FreshSpans, Spans, Span, Interval

LEMMA SpansOfType == ASSUME TypeOK, NEW n \in 0..Len(nodes) PROVE SpansOf(n) \in Spans
  <1>1. CASE n = 0
    BY <1>1, FreshSpansType DEF SpansOf, TypeOK
  <1>2. CASE n # 0
    <2>1. n \in 1..Len(nodes) /\ nodes \in Seq(Documents)
      BY <1>2 DEF TypeOK
    <2>2. nodes[n] \in Documents
      BY <2>1
    <2> QED BY <2>2, <1>2 DEF SpansOf, Documents
  <1> QED BY <1>1, <1>2

LEMMA LookupType == ASSUME TypeOK, NEW n \in 0..Len(nodes) PROVE Lookup(n) \in Seq(Entries)
  <1>1. CASE n = 0
    BY <1>1 DEF Lookup
  <1>2. CASE n # 0
    <2>1. n \in 1..Len(nodes) /\ nodes \in Seq(Documents)
      BY <1>2 DEF TypeOK
    <2>2. nodes[n] \in Documents
      BY <2>1
    <2> QED BY <2>2, <1>2 DEF Lookup, Documents
  <1> QED BY <1>1, <1>2

LEMMA SpanFields ==
    ASSUME NEW sp \in Spans, NEW name \in SpanNames
    PROVE  sp[name] \in Span /\ sp[name].start \in Nat /\ sp[name].end \in Nat
  BY DEF Spans, Span, SpanNames

LEMMA EntryFields ==
    ASSUME NEW l \in Seq(Entries), NEW k \in DOMAIN l
    PROVE  /\ l[k] \in Entries
           /\ l[k].target \in Nat \ {0}
           /\ l[k].spans \in Spans
           /\ l[k].depth \in Nat
  <1>1. k \in 1..Len(l)
    OBVIOUS
  <1>2. l[k] \in Entries
    BY <1>1
  <1> QED BY <1>2 DEF Entries

LEMMA Doc ==
    ASSUME TypeOK, NEW n \in Ids
    PROVE  /\ n \in Nat \ {0} /\ n \in 0..Len(nodes) /\ Len(nodes) \in Nat
           /\ SpansOf(n) = nodes[n].spans /\ nodes[n].spans \in Spans
           /\ Lookup(n) = nodes[n].lookup /\ Lookup(n) \in Seq(Entries)
           /\ IdealOf(n) = ideal[n] /\ ideal[n] \in Seq(Nat \ {0})
  <1>1. n \in Nat \ {0} /\ n \in 0..Len(nodes) /\ Len(nodes) \in Nat /\ n \in 1..Len(ideal)
    BY DEF Ids, TypeOK
  <1>2. SpansOf(n) = nodes[n].spans /\ Lookup(n) = nodes[n].lookup /\ IdealOf(n) = ideal[n]
    BY <1>1 DEF SpansOf, Lookup, IdealOf
  <1>3. nodes[n].spans \in Spans /\ Lookup(n) \in Seq(Entries)
    BY <1>1, <1>2, SpansOfType, LookupType
  <1>4. ideal[n] \in Seq(Nat \ {0})
    BY <1>1 DEF TypeOK
  <1> QED BY <1>1, <1>2, <1>3, <1>4

\* An entry's bounds in one of the spans.
LEMMA EntrySpan ==
    ASSUME NEW l \in Seq(Entries), NEW k \in DOMAIN l, NEW name \in SpanNames
    PROVE  /\ l[k].spans[name].start \in Nat /\ l[k].spans[name].end \in Nat
           /\ k \in Nat /\ k \in 1..Len(l) /\ Len(l) \in Nat
  <1>1. l[k].spans \in Spans
    BY EntryFields
  <1> QED BY <1>1, SpanFields

\* A function on 1..n is a sequence of length n.
LEMMA FunctionIsSeq ==
    ASSUME NEW S, NEW n \in Nat, NEW s \in [1..n -> S]
    PROVE  s \in Seq(S) /\ Len(s) = n
  OBVIOUS

LEMMA AppendKeepsOld ==
    ASSUME NEW S, NEW l \in Seq(S), NEW x
    PROVE  \A n \in 1..Len(l) : Append(l, x)[n] = l[n]
  <1>1. l \in Seq(S \union {x}) /\ x \in S \union {x}
    OBVIOUS
  <1> QED BY <1>1

LEMMA Appended ==
    ASSUME NEW S, NEW s \in Seq(S), NEW x \in S
    PROVE  /\ Append(s, x) \in Seq(S) /\ Append(s, x) # <<>>
           /\ Len(Append(s, x)) = Len(s) + 1
           /\ DOMAIN Append(s, x) = 1..(Len(s) + 1)
           /\ \A k \in 1..Len(s) : Append(s, x)[k] = s[k]
           /\ Append(s, x)[Len(s) + 1] = x
  OBVIOUS

LEMMA Concatenated ==
    ASSUME NEW S, NEW l \in Seq(S), NEW h \in Seq(S)
    PROVE  /\ l \o h \in Seq(S)
           /\ \A k \in DOMAIN l : k \in DOMAIN (l \o h) /\ (l \o h)[k] = l[k]
           /\ \A k \in DOMAIN h : Len(l) + k \in DOMAIN (l \o h) /\ (l \o h)[Len(l) + k] = h[k]
           /\ \A k \in DOMAIN (l \o h) : \/ k \in DOMAIN l /\ (l \o h)[k] = l[k]
                                         \/ \E j \in DOMAIN h : (l \o h)[k] = h[j]
           /\ h = <<>> => l \o h = l
  <1> DEFINE c == l \o h
             m == Len(l)
             n == Len(h)
  <1>1. /\ c \in Seq(S) /\ Len(c) = m + n /\ m \in Nat /\ n \in Nat
        /\ DOMAIN c = 1..(m + n) /\ DOMAIN l = 1..m /\ DOMAIN h = 1..n
    OBVIOUS
  <1>2. \A k \in 1..(m + n) : c[k] = IF k <= m THEN l[k] ELSE h[k - m]
    OBVIOUS
  <1>3. h = <<>> => c = l
    OBVIOUS
  <1> HIDE DEF c, m, n
  <1>4. \A k \in 1..m : k \in 1..(m + n) /\ c[k] = l[k]
    BY <1>1, <1>2
  <1>5. \A k \in 1..n : m + k \in 1..(m + n) /\ c[m + k] = h[k]
    <2> SUFFICES ASSUME NEW k \in 1..n PROVE m + k \in 1..(m + n) /\ c[m + k] = h[k]
      OBVIOUS
    <2>1. m + k \in 1..(m + n) /\ ~(m + k <= m) /\ (m + k) - m = k
      BY <1>1
    <2> QED BY <1>2, <2>1
  <1>6. ASSUME NEW k \in 1..(m + n), k \notin 1..m PROVE k - m \in 1..n /\ c[k] = h[k - m]
    <2>1. k - m \in 1..n /\ ~(k <= m)
      BY <1>1, <1>6
    <2> QED BY <1>2, <2>1
  <1> QED BY <1>1, <1>3, <1>4, <1>5, <1>6 DEF c, m, n

\* A sequence without its element at i + 1.
LEMMA RemoveNext ==
    ASSUME NEW S, NEW l \in Seq(S), NEW i \in Nat \ {0}, i < Len(l)
    PROVE  /\ RemoveAt(l, i + 1) \in Seq(S)
           /\ Len(RemoveAt(l, i + 1)) = Len(l) - 1
           /\ \A k \in 1..(Len(l) - 1) :
                 RemoveAt(l, i + 1)[k] = IF k <= i THEN l[k] ELSE l[k + 1]
  <1> DEFINE n == Len(l)
             a == SubSeq(l, 1, i)
             b == SubSeq(l, i + 2, n)
  <1>1. n \in Nat /\ i \in Nat /\ i < n /\ i >= 1
    OBVIOUS
  <1>2. a \in Seq(S) /\ Len(a) = i /\ \A k \in 1..i : a[k] = l[k]
    BY <1>1
  <1>3. b \in Seq(S) /\ Len(b) = n - (i + 1) /\ \A k \in 1..(n - (i + 1)) : b[k] = l[k + (i + 1)]
    BY <1>1
  <1>4. RemoveAt(l, i + 1) = a \o b
    <2>1. \A j : RemoveAt(l, j) = SubSeq(l, 1, j - 1) \o SubSeq(l, j + 1, n)
      BY DEF RemoveAt
    <2>2. (i + 1) - 1 = i /\ (i + 1) + 1 = i + 2
      BY <1>1
    <2>3. RemoveAt(l, i + 1) = SubSeq(l, 1, (i + 1) - 1) \o SubSeq(l, (i + 1) + 1, n)
      BY <2>1, Zenon
    <2> HIDE DEF n
    <2> QED BY <2>2, <2>3, Zenon
  <1>5. a \o b \in Seq(S) /\ Len(a \o b) = n - 1
    BY <1>1, <1>2, <1>3
  <1>6. ASSUME NEW k \in 1..(n - 1)
        PROVE (a \o b)[k] = IF k <= i THEN l[k] ELSE l[k + 1]
    <2>1. CASE k <= i
      BY <2>1, <1>1, <1>2, <1>3
    <2>2. CASE k > i
      <3>1. k - i \in 1..(n - (i + 1)) /\ (k - i) + (i + 1) = k + 1
        BY <2>2, <1>1
      <3>2. (a \o b)[k] = b[k - i]
        BY <2>2, <1>1, <1>2, <1>3
      <3>3. b[k - i] = l[k + 1]
        BY <3>1, <1>3
      <3>4. ~(k <= i)
        BY <2>2, <1>1
      <3>5. (a \o b)[k] = l[k + 1]
        BY <3>2, <3>3, Zenon
      <3> HIDE DEF n, a, b
      <3> QED BY <3>4, <3>5, Zenon
    <2> QED BY <2>1, <2>2, <1>1
  <1> QED BY <1>4, <1>5, <1>6

----------------------------------------------------------------------------
(* get_node.                                                               *)

\* The first entry that holds an offset is one that does.
LEMMA FirstEntryIs ==
    ASSUME NEW n, NEW name, NEW o, Len(Lookup(n)) \in Nat
    PROVE  /\ FirstEntry(n, name, o) = 0
              \/ /\ FirstEntry(n, name, o) \in 1..Len(Lookup(n))
                 /\ Holds(Lookup(n)[FirstEntry(n, name, o)].spans, name, o)
           /\ (\E k \in 1..Len(Lookup(n)) : Holds(Lookup(n)[k].spans, name, o)) =>
                 FirstEntry(n, name, o) # 0
  <1> DEFINE T == {k \in 1..Len(Lookup(n)) : Holds(Lookup(n)[k].spans, name, o)}
  <1>1. FirstEntry(n, name, o) = IF T # {} THEN Min(T) ELSE 0
    BY DEF FirstEntry, SelectInSeq
  <1>2. T \subseteq Nat
    OBVIOUS
  <1>3. \A k : k \in T <=> k \in 1..Len(Lookup(n)) /\ Holds(Lookup(n)[k].spans, name, o)
    OBVIOUS
  <1> HIDE DEF T
  <1>4. T # {} => Min(T) \in T
    BY <1>2, MinOfNumbers
  <1>5. T # {} => Min(T) # 0
    BY <1>3, <1>4
  <1> QED BY <1>1, <1>3, <1>4, <1>5

\* The recursive function of get_node, and what it does at a document.
FollowStep(f, m, name, o) ==
    LET k == FirstEntry(m, name, o)
        e == Lookup(m)[k]
    IN CASE k = 0 -> OutOfRange
         [] k # 0 /\ Holds(SpansOf(e.target), name, o) -> Found(e.target, e.spans)
         [] OTHER -> f[e.target]

Follow(name, o) == CHOOSE f : f = [m \in 0..Len(nodes) |-> FollowStep(f, m, name, o)]

LEMMA GetNodeFollows ==
    \A n, name, o : GetNode(n, name, o) = IF Holds(SpansOf(n), name, o) THEN Found(n, SpansOf(n))
                                          ELSE Follow(name, o)[n]
  BY DEF GetNode, Follow, FollowStep

\* Entries lead to older documents.
EntriesOlder ==
    \A n \in Ids : \A k \in DOMAIN Lookup(n) :
        Lookup(n)[k].target \in Ids /\ Lookup(n)[k].target < n

LEMMA TargetsOlder ==
    ASSUME TypeOK, EntriesOlder, NEW n \in Ids, NEW k \in DOMAIN Lookup(n)
    PROVE  /\ Lookup(n)[k].target \in Ids /\ Lookup(n)[k].target < n
           /\ Lookup(n)[k].spans \in Spans
  BY Doc, EntryFields DEF EntriesOlder

LEMMA WriteInvOlder == WriteInv => TypeOK /\ EntriesOlder
  BY DEF WriteInv, UploadedIsSound, Complete, EntriesOlder

LEMMA FollowIs ==
    ASSUME TypeOK, EntriesOlder, NEW name \in SpanNames, NEW o
    PROVE  \A m \in 0..Len(nodes) : Follow(name, o)[m] = FollowStep(Follow(name, o), m, name, o)
  <1> DEFINE L == Len(nodes)
             V == [node : 0..L, bounds : Spans]
             k(m) == FirstEntry(m, name, o)
             e(m) == Lookup(m)[k(m)]
             Stop == {m \in 0..L : k(m) = 0 \/ Holds(SpansOf(e(m).target), name, o)}
             g == [m \in 0..L |-> IF k(m) = 0 THEN OutOfRange ELSE Found(e(m).target, e(m).spans)]
             h == [m \in 0..L |-> e(m).target]
             Step == [p \in (0..L) \X V |-> p[2]]
  <1>1. TypeOK /\ L \in Nat
    BY DEF TypeOK
  <1>2. ASSUME NEW m \in 0..L, k(m) # 0
        PROVE  e(m).target \in 0..(m - 1) /\ e(m).target \in 0..L /\ e(m).spans \in Spans
    <2>1. Len(Lookup(m)) \in Nat
      BY <1>1, LookupType
    <2>2. k(m) \in 1..Len(Lookup(m))
      BY <1>2, <2>1, FirstEntryIs
    <2>3. m # 0
      BY <2>2 DEF Lookup
    <2>4. m \in Ids /\ k(m) \in DOMAIN Lookup(m)
      BY <1>1, <2>2, <2>3, LookupType DEF Ids
    <2>5. e(m).target \in Ids /\ e(m).target < m /\ e(m).spans \in Spans
      BY <2>4, TargetsOlder
    <2> HIDE DEF e, k
    <2> QED BY <1>1, <2>5 DEF Ids
  <1>3. OutOfRange \in V
    BY <1>1, FreshSpansType DEF OutOfRange, Found
  <1>4. ASSUME NEW m \in 0..L, m \in Stop PROVE g[m] \in V
    <2>1. CASE k(m) = 0
      BY <1>3, <2>1
    <2>2. CASE k(m) # 0
      BY <1>2, <2>2 DEF Found
    <2> QED BY <2>1, <2>2
  <1>5. \A m \in 0..L : m \notin Stop => h[m] \in 0..(m - 1)
    BY <1>2
  <1>6. Step \in [(0..L) \X V -> V]
    OBVIOUS
  <1>7. \E f \in [0..L -> V] : Follows(f, L, Stop, g, h, Step)
    <2>1. Steps(L, V, Stop, g, h, Step)
      BY <1>4, <1>5, <1>6 DEF Steps
    <2> HIDE DEF L, V, Stop, g, h, Step
    <2> QED BY <1>1, <2>1, StepsDefine
  <1>8. PICK f \in [0..L -> V] :
           \A m \in 0..L : f[m] = IF m \in Stop THEN g[m] ELSE Step[<<m, f[h[m]]>>]
    <2> HIDE DEF L, V, Stop, g, h, Step
    <2> QED BY <1>7 DEF Follows
  <1>9. ASSUME NEW m \in 0..L PROVE f[m] = FollowStep(f, m, name, o)
    <2>1. f[m] = IF m \in Stop THEN g[m] ELSE Step[<<m, f[h[m]]>>]
      <3> HIDE DEF L, Stop, g, h, Step
      <3> QED BY <1>8
    <2>2. CASE k(m) = 0
      BY <2>1, <2>2 DEF FollowStep
    <2>3. CASE k(m) # 0 /\ Holds(SpansOf(e(m).target), name, o)
      BY <2>1, <2>3 DEF FollowStep
    <2>4. CASE k(m) # 0 /\ ~Holds(SpansOf(e(m).target), name, o)
      <3>1. m \notin Stop /\ h[m] = e(m).target /\ f[h[m]] \in V
        BY <1>2, <2>4
      <3>2. f[m] = f[e(m).target]
        <4>1. <<m, f[h[m]]>> \in (0..L) \X V /\ <<m, f[h[m]]>>[2] = f[h[m]]
          BY <3>1
        <4>2. Step[<<m, f[h[m]]>>] = f[h[m]]
          BY <4>1
        <4> HIDE DEF Step, Stop, h
        <4> QED BY <2>1, <3>1, <4>2
      <3> QED BY <2>4, <3>2 DEF FollowStep
    <2> QED BY <2>2, <2>3, <2>4
  <1>10. f = [m \in 0..L |-> FollowStep(f, m, name, o)]
    <2> HIDE DEF L
    <2> QED BY <1>8, <1>9
  <1>11. Follow(name, o) = [m \in 0..L |-> FollowStep(Follow(name, o), m, name, o)]
    BY <1>10 DEF Follow
  <1> HIDE DEF L
  <1> QED BY <1>11 DEF L

----------------------------------------------------------------------------
(* Writes at the end: the initial state; steps that make no document.      *)

LEMMA InitWriteInv == Init => WriteInv
  <1> SUFFICES ASSUME Init PROVE WriteInv
    OBVIOUS
  <1>1. TypeOK
    BY FreshSpansType, SkystreamAssumption DEF Init, TypeOK
  <1>2. UploadedIsSound
    BY DEF Init, UploadedIsSound, Ids
  <1>3. WriterIsSound /\ UploadIsNewest
    BY DEF Init, WriterIsSound, UploadIsNewest
  <1> QED BY <1>1, <1>2, <1>3 DEF WriteInv, Init

LEMMA UploadedKept ==
    ASSUME WriteInv, UNCHANGED <<nodes, ideal>>, clock' \in Nat,
           ~ClockGoesBack => clock <= clock'
    PROVE  UploadedIsSound'
  <1>1. Ids' = Ids /\ clock \in Nat
    BY DEF Ids, WriteInv, TypeOK
  <1> SUFFICES ASSUME NEW n \in Ids
               PROVE  /\ Proper(nodes[n].spans)'
                      /\ Chained(Lookup(n), nodes[n].spans)'
                      /\ Complete(Lookup(n), nodes[n].spans)'
                      /\ \A k \in DOMAIN Lookup(n)' : Lookup(n)'[k].target < n
                      /\ Len(ideal'[n]) = nodes'[n].spans.bytes.end
    BY <1>1 DEF UploadedIsSound
  <1>2. /\ Proper(nodes[n].spans)
        /\ Chained(Lookup(n), nodes[n].spans)
        /\ Complete(Lookup(n), nodes[n].spans)
        /\ \A k \in DOMAIN Lookup(n) : Lookup(n)[k].target < n
        /\ Len(ideal[n]) = nodes[n].spans.bytes.end
    BY DEF WriteInv, UploadedIsSound
  <1>3. Lookup(n)' = Lookup(n) /\ nodes'[n] = nodes[n] /\ ideal'[n] = ideal[n]
    BY DEF Lookup
  <1>4. Chained(Lookup(n), nodes[n].spans)'
    BY <1>2, <1>3 DEF Chained
  <1>5. Complete(Lookup(n), nodes[n].spans)'
    BY <1>1, <1>2, <1>3 DEF Complete
  <1>6. nodes[n].spans \in Spans
    BY SpansOfType DEF WriteInv, TypeOK, SpansOf, Ids
  <1>7. Proper(nodes[n].spans)'
    <2>1. nodes[n].spans.time.end \in Nat
      BY <1>6 DEF Spans, Span
    <2> QED BY <1>1, <1>2, <1>3, <2>1 DEF Proper
  <1> QED BY <1>2, <1>3, <1>4, <1>5, <1>7

----------------------------------------------------------------------------
(* Writes at the end: write() up to the merge loop.                        *)

\* In a stream that is not fresh the byte before the end is in the tail.
LEMMA PrecedingIsTail ==
    ASSUME WriteInv
    PROVE  /\ tail = 0 => End("bytes") = 0 /\ Preceding(End("bytes")) = 0
           /\ tail # 0 => Preceding(End("bytes")) = tail
  <1>1. tail \in 0..Len(nodes) /\ SpansOf(tail) \in Spans
    BY SpansOfType DEF WriteInv, TypeOK
  <1>2. CASE tail = 0
    BY <1>2 DEF End, SpansOf, FreshSpans, Interval, Preceding
  <1>3. CASE tail # 0
    <2>1. tail \in Ids /\ SpansOf(tail) = nodes[tail].spans
      BY <1>1, <1>3 DEF Ids, SpansOf
    <2> DEFINE a == SpansOf(tail).bytes.start
               b == SpansOf(tail).bytes.end
    <2>2. a \in Nat /\ b \in Nat /\ a < b
      BY <1>1, <2>1 DEF WriteInv, UploadedIsSound, Proper, Spans, Span
    <2>3. b > 0 /\ a <= b - 1 /\ b - 1 < b
      BY <2>2
    <2>4. Holds(SpansOf(tail), "bytes", b - 1)
      BY <2>3 DEF Holds
    <2>5. GetNode(tail, "bytes", b - 1) = Found(tail, SpansOf(tail))
      BY <2>4 DEF GetNode
    <2>6. End("bytes") = b
      BY DEF End
    <2>7. Preceding(b) = GetNode(tail, "bytes", b - 1).node
      BY <2>3 DEF Preceding
    <2> QED BY <2>5, <2>6, <2>7, <1>3 DEF Found
  <1> QED BY <1>2, <1>3

\* The new block starts where the tail ends, in every span.
LEMMA NewSpansProper ==
    ASSUME WriteInv, NEW n \in Nat \ {0}, NEW t \in Nat, clock' = t,
           ~ClockGoesBack => clock <= t
    PROVE  /\ NewSpans(End("bytes"), n, t) \in Spans
           /\ \A name \in SpanNames : NewSpans(End("bytes"), n, t)[name].start = End(name)
           /\ \A name \in OrderedSpans :
                 NewSpans(End("bytes"), n, t)[name].start <= NewSpans(End("bytes"), n, t)[name].end
           /\ NewSpans(End("bytes"), n, t).bytes.start < NewSpans(End("bytes"), n, t).bytes.end
           /\ ~ClockGoesBack => NewSpans(End("bytes"), n, t).time.end <= clock'
  <1> DEFINE b == End("bytes")
             i == End("index")
             e == End("time")
             sp == NewSpans(End("bytes"), n, t)
  <1>1. tail \in 0..Len(nodes) /\ SpansOf(tail) \in Spans /\ clock \in Nat
    BY SpansOfType DEF WriteInv, TypeOK
  <1>2. b \in Nat /\ i \in Nat /\ e \in Nat
    BY <1>1 DEF End, Spans, Span
  <1>3. /\ sp.bytes = Interval(b, b + n)
        /\ sp.index = Interval(i, i + 1)
        /\ sp.time = Interval(e, t)
        /\ sp = [bytes |-> sp.bytes, index |-> sp.index, time |-> sp.time]
    BY DEF NewSpans
  <1>4. sp \in Spans
    BY <1>2, <1>3 DEF Spans, Span, Interval
  <1>5. \A name \in SpanNames : sp[name].start = End(name)
    BY <1>3 DEF SpanNames, Interval
  <1>6. ~ClockGoesBack => e <= t
    <2> SUFFICES ASSUME ~ClockGoesBack PROVE e <= t
      OBVIOUS
    <2>1. CASE tail = 0
      BY <2>1, <1>1, <1>2 DEF WriteInv, End, SpansOf, FreshSpans, Interval, TypeOK
    <2>2. CASE tail # 0
      <3>1. tail \in Ids /\ e = nodes[tail].spans.time.end
        BY <2>2, <1>1 DEF Ids, End, SpansOf
      <3>2. e <= clock
        BY <3>1 DEF WriteInv, UploadedIsSound, Proper
      <3> QED BY <3>2, <1>1, <1>2
    <2> QED BY <2>1, <2>2
  <1>7. ASSUME NEW name \in OrderedSpans PROVE sp[name].start <= sp[name].end
    <2>1. CASE name = "bytes"
      BY <2>1, <1>2, <1>3 DEF Interval
    <2>2. CASE name = "index"
      BY <2>2, <1>2, <1>3 DEF Interval
    <2>3. CASE name = "time"
      BY <2>3, <1>2, <1>3, <1>6 DEF Interval, OrderedSpans
    <2> QED BY <2>1, <2>2, <2>3 DEF OrderedSpans, SpanNames
  <1>8. sp.bytes.start < sp.bytes.end
    BY <1>2, <1>3 DEF Interval
  <1>9. ~ClockGoesBack => sp.time.end <= clock'
    BY <1>2, <1>3 DEF Interval
  <1> QED BY <1>4, <1>5, <1>7, <1>8, <1>9

\* The table write() starts from is as sound as the tail's.
LEMMA InitialLookupSound ==
    ASSUME WriteInv, tail # 0, NEW sp \in Spans,
           \A name \in SpanNames : sp[name].start = End(name)
    PROVE  /\ InitialLookup(tail) \in Seq(Entries)
           /\ Chained(InitialLookup(tail), sp)
           /\ Complete(InitialLookup(tail), sp)
  <1> DEFINE old == nodes[tail].lookup
             m == Len(old)
             own == nodes[tail].spans
             e == [target |-> tail, spans |-> own, depth |-> 0]
             l == Append(old, e)
  <1>1. tail \in Ids /\ tail \in Nat \ {0} /\ tail \in 0..Len(nodes)
    BY DEF WriteInv, TypeOK, Ids
  <1>2. /\ own \in Spans /\ own = SpansOf(tail)
        /\ old \in Seq(Entries) /\ old = Lookup(tail)
    BY <1>1, SpansOfType, LookupType DEF WriteInv, SpansOf, Lookup
  <1>3. e \in Entries
    BY <1>1, <1>2 DEF Entries
  <1>4. /\ InitialLookup(tail) = l
        /\ l \in Seq(Entries)
        /\ m \in Nat
        /\ Len(l) = m + 1
        /\ \A k \in 1..m : l[k] = old[k]
        /\ l[m + 1] = e
        /\ DOMAIN old = 1..m
        /\ DOMAIN l = 1..(m + 1)
    BY <1>2, <1>3 DEF InitialLookup
  <1>5. Proper(own) /\ Chained(old, own) /\ Complete(old, own)
    BY <1>1, <1>2 DEF WriteInv, UploadedIsSound
  <1>6. \A name \in SpanNames : sp[name].start = own[name].end
    BY <1>2 DEF End
  <1> HIDE DEF l, e, old, m, own
  <1>7. Chained(l, sp)
    <2> SUFFICES ASSUME NEW name \in OrderedSpans
                 PROVE  /\ \A k \in 1..(m + 1) : l[k].spans[name].start <= l[k].spans[name].end
                        /\ \A k \in 1..(m + 1) : k + 1 \in 1..(m + 1) =>
                              l[k].spans[name].end = l[k + 1].spans[name].start
                        /\ l[m + 1].spans[name].end = sp[name].start
      BY <1>4 DEF Chained
    <2>1. name \in SpanNames /\ e.spans = own
      BY DEF OrderedSpans, e
    <2>2. \A k \in 1..m : old[k].spans[name].start <= old[k].spans[name].end
      BY <1>4, <1>5 DEF Chained
    <2>3. own[name].start <= own[name].end
      BY <1>5 DEF Proper
    <2>4. ASSUME NEW k \in 1..(m + 1), k + 1 \in 1..(m + 1)
          PROVE l[k].spans[name].end = l[k + 1].spans[name].start
      <3>1. k \in 1..m
        BY <2>4, <1>4
      <3>2. CASE k + 1 \in 1..m
        BY <3>1, <3>2, <1>4, <1>5 DEF Chained
      <3>3. CASE k = m
        <4>1. old # <<>> /\ m = Len(old)
          BY <3>1, <1>4 DEF m
        <4>2. old[m].spans[name].end = own[name].start
          BY <4>1, <1>5 DEF Chained
        <4> QED BY <4>2, <3>1, <3>3, <1>4, <2>1
      <3> QED BY <3>1, <3>2, <3>3, <1>4
    <2>5. l[m + 1].spans[name].end = sp[name].start
      BY <1>4, <1>6, <2>1
    <2>6. ASSUME NEW k \in 1..(m + 1)
          PROVE l[k].spans[name].start <= l[k].spans[name].end
      <3>1. CASE k \in 1..m
        BY <3>1, <2>2, <1>4
      <3>2. CASE k = m + 1
        BY <3>2, <2>1, <2>3, <1>4
      <3> QED BY <3>1, <3>2, <1>4
    <2> QED BY <2>4, <2>5, <2>6
  <1>8. Complete(l, sp)
    <2> DEFINE a == own.bytes.start
               b == own.bytes.end
    <2>1. /\ a \in Nat /\ b \in Nat /\ a < b /\ sp.bytes.start = b
          /\ own["bytes"] = own.bytes
      BY <1>2, <1>5, <1>6 DEF Proper, Spans, Span, SpanNames
    <2>2. ASSUME NEW o \in 0..(b - 1)
          PROVE \E k \in 1..(m + 1) : Holds(l[k].spans, "bytes", o)
      <3>1. CASE o < a
        <4>1. o \in 0..(a - 1)
          BY <3>1, <2>1
        <4>2. \E k \in 1..m : Holds(old[k].spans, "bytes", o)
          BY <4>1, <1>4, <1>5 DEF Complete
        <4> QED BY <4>2, <1>4
      <3>2. CASE o >= a
        <4>1. Holds(own, "bytes", o)
          BY <3>2, <2>1 DEF Holds
        <4>2. l[m + 1].spans = own /\ m + 1 \in 1..(m + 1)
          BY <1>4 DEF e
        <4> QED BY <4>1, <4>2
      <3> QED BY <3>1, <3>2, <2>1
    <2>3. ASSUME NEW k \in 1..(m + 1)
          PROVE /\ l[k].target \in Ids
                /\ l[k].spans.bytes.end <= nodes[l[k].target].spans.bytes.end
                /\ l[k].spans.bytes.end <= b
      <3>1. CASE k \in 1..m
        <4>1. /\ old[k].target \in Ids
              /\ old[k].spans.bytes.end <= nodes[old[k].target].spans.bytes.end
              /\ old[k].spans.bytes.end <= a
          BY <3>1, <1>4, <1>5 DEF Complete
        <4>2. old[k].spans.bytes.end \in Nat
          BY <3>1, <1>2, <1>4, EntryFields, SpanFields DEF SpanNames
        <4> QED BY <4>1, <4>2, <3>1, <1>4, <2>1
      <3>2. CASE k = m + 1
        <4>1. l[k].target = tail /\ l[k].spans = own
          BY <3>2, <1>4 DEF e
        <4> QED BY <4>1, <1>1, <2>1 DEF own
      <3> QED BY <3>1, <3>2, <1>4
    <2> QED BY <2>1, <2>2, <2>3, <1>4 DEF Complete
  <1> QED BY <1>4, <1>7, <1>8

LEMMA AppendKeepsWriteInv ==
    ASSUME WriteInv, NEW n \in Sizes, WriteAppend(n)
    PROVE  WriteInv'
  <1> DEFINE b == End("bytes")
  <1>1. PICK t \in 0..MaxTime : /\ ClockGoesBack \/ t >= clock
                                /\ clock' = t
                                /\ spans' = NewSpans(b, n, t)
    BY DEF WriteAppend, Begin
  <1>2. /\ writer = "idle" /\ writer' = "merging"
        /\ preceding' = Preceding(b)
        /\ lookup_nodes' = InitialLookup(preceding')
        /\ head' = <<>>
        /\ index' = 1
        /\ UNCHANGED <<nodes, tail, born, saved, uploads, ideal>>
    BY DEF WriteAppend, Begin
  <1>3. TypeOK /\ clock \in Nat /\ born \in Nat
    BY DEF WriteInv, TypeOK
  <1>4. n \in Nat \ {0} /\ t \in Nat /\ (~ClockGoesBack => clock <= t)
    BY <1>1, <1>3, SkystreamAssumption
  <1>5. /\ spans' \in Spans
        /\ \A name \in SpanNames : spans'[name].start = End(name)
        /\ \A name \in OrderedSpans : spans'[name].start <= spans'[name].end
        /\ spans'.bytes.start < spans'.bytes.end
        /\ ~ClockGoesBack => spans'.time.end <= clock'
    BY <1>1, <1>4, NewSpansProper
  <1>6. preceding' = tail
    BY <1>2, PrecedingIsTail
  <1>7. /\ lookup_nodes' \in Seq(Entries)
        /\ Chained(lookup_nodes', spans')
        /\ Complete(lookup_nodes', spans')
        /\ tail = 0 => lookup_nodes' = <<>>
    <2>1. CASE tail = 0
      <3>1. lookup_nodes' = <<>>
        BY <2>1, <1>2, <1>6 DEF InitialLookup
      <3>2. spans'.bytes.start = 0
        BY <2>1, <1>5, PrecedingIsTail DEF SpanNames
      <3>3. Chained(<<>>, spans')
        BY DEF Chained
      <3>4. Complete(<<>>, spans')
        BY <3>2 DEF Complete
      <3> QED BY <3>1, <3>3, <3>4, <2>1
    <2>2. CASE tail # 0
      BY <2>2, <1>2, <1>5, <1>6, InitialLookupSound
    <2> QED BY <2>1, <2>2
  <1>8. TypeOK'
    BY <1>2, <1>3, <1>4, <1>1, <1>5, <1>6, <1>7 DEF TypeOK
  <1>9. Ids' = Ids /\ \A name \in SpanNames : End(name)' = End(name)
    BY <1>2 DEF Ids, End, SpansOf
  <1>10. UploadedIsSound'
    BY <1>1, <1>2, <1>4, UploadedKept
  <1>11. WriterIsSound'
    <2>1. Proper(spans)'
      BY <1>5 DEF Proper
    <2>2. Chained(lookup_nodes, spans)'
      BY <1>7 DEF Chained
    <2>3. Complete(lookup_nodes, spans)'
      BY <1>7, <1>9, <1>2 DEF Complete
    <2>4. \A name \in SpanNames : spans'[name].start = End(name)'
      BY <1>5, <1>9
    <2> QED BY <2>1, <2>2, <2>3, <2>4, <1>2, <1>6, <1>7 DEF WriterIsSound
  <1>12. UploadIsNewest'
    BY <1>2 DEF UploadIsNewest
  <1>13. ~ClockGoesBack => born' <= clock'
    BY <1>1, <1>2, <1>3, <1>4 DEF WriteInv
  <1> QED BY <1>8, <1>10, <1>11, <1>12, <1>13, <1>2 DEF WriteInv

----------------------------------------------------------------------------
(* Writes at the end: the merge loop.                                      *)

\* An expansion of WriterIsSound for the steps of the loop.
LEMMA MergingFacts ==
    ASSUME WriteInv, writer = "merging"
    PROVE  /\ lookup_nodes \in Seq(Entries) /\ spans \in Spans
           /\ index \in Nat \ {0}
           /\ preceding = tail /\ head = <<>>
           /\ Chained(lookup_nodes, spans)
           /\ Complete(lookup_nodes, spans)
           /\ tail \in 0..Len(nodes)
           /\ tail = 0 => lookup_nodes = <<>>
           /\ tail # 0 => tail \in Ids
           /\ \A name \in SpanNames : spans[name].start = End(name)
  BY DEF WriteInv, TypeOK, WriterIsSound, Ids

\* What a merged entry is.
LEMMA MergedIsSound ==
    ASSUME WriteInv, writer = "merging", EqualNeighbours, Contiguous
    PROVE  /\ Merged \in Entries
           /\ tail \in Ids
           /\ Merged.target = tail
           /\ \A name \in SpanNames :
                 /\ Merged.spans[name].start = Current.spans[name].start
                 /\ Merged.spans[name].end =
                       Later(Current.spans[name].end, Following.spans[name].end)
           /\ \A name \in OrderedSpans :
                 /\ Merged.spans[name].start <= Merged.spans[name].end
                 /\ Merged.spans[name].end = Following.spans[name].end
           /\ Merged.spans.bytes.end <= spans.bytes.start
           /\ Merged.spans.bytes.end <= nodes[tail].spans.bytes.end
           /\ \A o \in Nat : \/ Holds(Current.spans, "bytes", o)
                              \/ Holds(Following.spans, "bytes", o)
                 => Holds(Merged.spans, "bytes", o)
  <1> DEFINE l == lookup_nodes
             c == Current.spans
             f == Following.spans
             sp == Merged.spans
  <1>1. /\ l \in Seq(Entries) /\ index \in 1..Len(l) /\ index + 1 \in 1..Len(l)
        /\ index \in DOMAIN l /\ index + 1 \in DOMAIN l
    BY MergingFacts DEF EqualNeighbours
  <1>2. /\ Current \in Entries /\ Following \in Entries
        /\ c \in Spans /\ f \in Spans
        /\ Current.depth \in Nat
    BY <1>1, EntryFields DEF Current, Following
  <1>3. tail \in Ids /\ preceding = tail /\ tail \in Nat \ {0} /\ SpansOf(tail) = nodes[tail].spans
    BY <1>1, MergingFacts DEF Ids, SpansOf
  <1>4. \A name \in SpanNames : /\ c[name].start \in Nat /\ c[name].end \in Nat
                                /\ f[name].start \in Nat /\ f[name].end \in Nat
                                /\ c[name].end = f[name].start
    BY <1>2, SpanFields DEF Contiguous
  <1>5. /\ Merged.target = tail
        /\ sp = [name \in SpanNames |-> Widened(c[name], f[name])]
        /\ Merged = [target |-> tail, depth |-> Current.depth + 1, spans |-> sp]
    BY <1>3 DEF Merged
  <1> HIDE DEF l, c, f, sp
  <1>6. ASSUME NEW name \in SpanNames
        PROVE  /\ sp[name] \in Span
               /\ sp[name].start = c[name].start
               /\ sp[name].end = Later(c[name].end, f[name].end)
    BY <1>4, <1>5 DEF Widened, Span, Later
  <1>7. sp \in Spans
    <2>1. sp \in [SpanNames -> Span]
      BY <1>5, <1>6
    <2> QED BY <2>1 DEF Spans, SpanNames
  <1>8. Merged \in Entries
    BY <1>2, <1>3, <1>5, <1>7 DEF Entries
  <1>9. \A name \in OrderedSpans : /\ c[name].start <= c[name].end
                                   /\ f[name].start <= f[name].end
                                   /\ name \in SpanNames
    BY <1>1, MergingFacts DEF Chained, Current, Following, OrderedSpans, c, f, l
  <1>10. ASSUME NEW name \in OrderedSpans
         PROVE  sp[name].start <= sp[name].end /\ sp[name].end = f[name].end
    BY <1>4, <1>6, <1>9 DEF Later
  <1>11. "bytes" \in OrderedSpans /\ "bytes" \in SpanNames
    BY DEF OrderedSpans, SpanNames
  <1>12. f.bytes.end <= spans.bytes.start
    BY <1>1, MergingFacts DEF Complete, Following, f, l
  <1>13. spans.bytes.start = nodes[tail].spans.bytes.end
    BY <1>3, <1>11, MergingFacts DEF End
  <1>14. ASSUME NEW o \in Nat, Holds(c, "bytes", o) \/ Holds(f, "bytes", o)
         PROVE  Holds(sp, "bytes", o)
    BY <1>4, <1>6, <1>9, <1>10, <1>11, <1>14 DEF Holds
  <1>15. sp.bytes.end <= spans.bytes.start
    BY <1>10, <1>11, <1>12
  <1> QED BY <1>3, <1>5, <1>6, <1>8, <1>10, <1>13, <1>14, <1>15 DEF c, f, sp

\* The table with two neighbours replaced by the merged one.
LEMMA MergedTableIs ==
    ASSUME lookup_nodes \in Seq(Entries), index \in Nat \ {0}, EqualNeighbours,
           Merged \in Entries,
           NEW l, l = [RemoveAt(lookup_nodes, index + 1) EXCEPT ![index] = Merged]
    PROVE  /\ l \in Seq(Entries)
           /\ Len(l) = Len(lookup_nodes) - 1
           /\ DOMAIN l = 1..(Len(lookup_nodes) - 1)
           /\ index \in 1..Len(l)
           /\ l[index] = Merged
           /\ \A k \in 1..(index - 1) : l[k] = lookup_nodes[k]
           /\ \A k \in (index + 1)..(Len(lookup_nodes) - 1) : l[k] = lookup_nodes[k + 1]
  <1> DEFINE r == RemoveAt(lookup_nodes, index + 1)
             m == Len(lookup_nodes)
  <1>1. /\ lookup_nodes \in Seq(Entries) /\ index \in Nat \ {0} /\ index < m /\ m \in Nat
        /\ Merged \in Entries
    BY DEF EqualNeighbours
  <1>2. /\ r \in Seq(Entries)
        /\ Len(r) = m - 1
        /\ \A k \in 1..(m - 1) : r[k] = IF k <= index THEN lookup_nodes[k] ELSE lookup_nodes[k + 1]
    BY <1>1, RemoveNext
  <1> HIDE DEF r
  <1>3. l = [r EXCEPT ![index] = Merged]
    BY DEF r
  <1>4. index \in 1..Len(r) /\ DOMAIN r = 1..Len(r)
    BY <1>1, <1>2
  <1>5. l \in Seq(Entries) /\ Len(l) = m - 1 /\ l[index] = Merged /\ DOMAIN l = 1..(m - 1)
    <2>1. l \in Seq(Entries) /\ Len(l) = Len(r)
      <3>1. r \in [1..(m - 1) -> Entries] /\ m - 1 \in Nat
        BY <1>1, <1>2
      <3>2. l \in [1..(m - 1) -> Entries]
        BY <3>1, <1>1, <1>3
      <3> DEFINE n == m - 1
      <3>3. n \in Nat /\ l \in [1..n -> Entries] /\ Len(r) = n
        BY <3>1, <3>2, <1>2
      <3> HIDE DEF n
      <3>4. l \in Seq(Entries) /\ Len(l) = n
        BY ONLY <3>3, FunctionIsSeq
      <3> QED BY <3>3, <3>4
    <2>2. l[index] = Merged
      BY <1>3, <1>4
    <2>3. DOMAIN l = DOMAIN r
      BY <1>3
    <2> QED BY <2>1, <2>2, <2>3, <1>2, <1>4
  <1>6. \A k \in 1..(m - 1) : k # index => l[k] = r[k]
    BY <1>2, <1>3, <1>4
  <1> HIDE DEF m
  <1>7. \A k \in 1..(index - 1) : l[k] = lookup_nodes[k]
    BY <1>1, <1>2, <1>6
  <1>8. \A k \in (index + 1)..(m - 1) : l[k] = lookup_nodes[k + 1]
    BY <1>1, <1>2, <1>6
  <1> QED BY <1>1, <1>2, <1>4, <1>5, <1>7, <1>8 DEF m

LEMMA MergedTable ==
    ASSUME WriteInv, writer = "merging", EqualNeighbours, Contiguous,
           NEW l, l = [RemoveAt(lookup_nodes, index + 1) EXCEPT ![index] = Merged]
    PROVE  /\ l \in Seq(Entries)
           /\ Len(l) = Len(lookup_nodes) - 1
           /\ DOMAIN l = 1..(Len(lookup_nodes) - 1)
           /\ index \in 1..Len(l)
           /\ l[index] = Merged
           /\ \A k \in 1..(index - 1) : l[k] = lookup_nodes[k]
           /\ \A k \in (index + 1)..(Len(lookup_nodes) - 1) : l[k] = lookup_nodes[k + 1]
  BY MergingFacts, MergedIsSound, MergedTableIs

LEMMA MergeChained ==
    ASSUME WriteInv, writer = "merging", EqualNeighbours, Contiguous,
           NEW l, l = [RemoveAt(lookup_nodes, index + 1) EXCEPT ![index] = Merged]
    PROVE  Chained(l, spans)
  <1> DEFINE old == lookup_nodes
             m == Len(old)
  <1>1. /\ old \in Seq(Entries) /\ index \in Nat \ {0} /\ index < m /\ m \in Nat
        /\ DOMAIN old = 1..m /\ old # <<>>
    BY MergingFacts DEF EqualNeighbours
  <1>2. /\ l \in Seq(Entries)
        /\ Len(l) = m - 1
        /\ DOMAIN l = 1..(m - 1)
        /\ l[index] = Merged
        /\ \A k \in 1..(index - 1) : l[k] = old[k]
        /\ \A k \in (index + 1)..(m - 1) : l[k] = old[k + 1]
    BY MergedTable
  <1>3. Chained(old, spans)
    BY MergingFacts
  <1> HIDE DEF m
  <1> SUFFICES ASSUME NEW name \in OrderedSpans
               PROVE  /\ \A k \in 1..(m - 1) : l[k].spans[name].start <= l[k].spans[name].end
                      /\ \A k \in 1..(m - 1) : k + 1 \in 1..(m - 1) =>
                            l[k].spans[name].end = l[k + 1].spans[name].start
                      /\ l[m - 1].spans[name].end = spans[name].start
    BY <1>2 DEF Chained
  <1>4. /\ \A k \in 1..m : old[k].spans[name].start <= old[k].spans[name].end
        /\ \A k \in 1..m : k + 1 \in 1..m => old[k].spans[name].end = old[k + 1].spans[name].start
        /\ old[m].spans[name].end = spans[name].start
    BY <1>1, <1>3 DEF Chained, m
  <1>5. /\ Merged.spans[name].start <= Merged.spans[name].end
        /\ Merged.spans[name].start = old[index].spans[name].start
        /\ Merged.spans[name].end = old[index + 1].spans[name].end
    BY MergedIsSound DEF OrderedSpans, Current, Following
  <1>6. ASSUME NEW k \in 1..(m - 1)
        PROVE l[k].spans[name].start <= l[k].spans[name].end
    <2>1. CASE k < index
      BY <2>1, <1>1, <1>2, <1>4
    <2>2. CASE k = index
      BY <2>2, <1>2, <1>5
    <2>3. CASE k > index
      <3>1. l[k] = old[k + 1] /\ k + 1 \in 1..m
        BY <2>3, <1>1, <1>2
      <3> QED BY <3>1, <1>4
    <2> QED BY <2>1, <2>2, <2>3, <1>1
  <1>7. ASSUME NEW k \in 1..(m - 1), k + 1 \in 1..(m - 1)
        PROVE l[k].spans[name].end = l[k + 1].spans[name].start
    <2>1. CASE k + 1 < index
      <3>1. l[k] = old[k] /\ l[k + 1] = old[k + 1] /\ k \in 1..m /\ k + 1 \in 1..m
        BY <2>1, <1>1, <1>2, <1>7
      <3> QED BY <3>1, <1>4
    <2>2. CASE k + 1 = index
      <3>1. l[k] = old[k] /\ l[k + 1] = Merged /\ k \in 1..m /\ k + 1 \in 1..m
        BY <2>2, <1>1, <1>2, <1>7
      <3> QED BY <3>1, <2>2, <1>4, <1>5
    <2>3. CASE k = index
      <3>1. /\ l[k] = Merged /\ l[k + 1] = old[(k + 1) + 1]
            /\ k + 1 \in 1..m /\ (k + 1) + 1 \in 1..m
        BY <2>3, <1>1, <1>2, <1>7
      <3> QED BY <3>1, <2>3, <1>4, <1>5
    <2>4. CASE k > index
      <3>1. /\ l[k] = old[k + 1] /\ l[k + 1] = old[(k + 1) + 1]
            /\ k + 1 \in 1..m /\ (k + 1) + 1 \in 1..m
        BY <2>4, <1>1, <1>2, <1>7
      <3> QED BY <3>1, <1>4
    <2> QED BY <2>1, <2>2, <2>3, <2>4, <1>1
  <1>8. l[m - 1].spans[name].end = spans[name].start
    <2>1. CASE index = m - 1
      <3>1. index + 1 = m
        BY <2>1, <1>1
      <3> QED BY <2>1, <3>1, <1>2, <1>4, <1>5
    <2>2. CASE index < m - 1
      <3>1. m - 1 \in (index + 1)..(m - 1) /\ (m - 1) + 1 = m
        BY <2>2, <1>1
      <3>2. l[m - 1] = old[m]
        BY <3>1, <1>2
      <3> QED BY <3>2, <1>4
    <2> QED BY <2>1, <2>2, <1>1
  <1> QED BY <1>6, <1>7, <1>8

LEMMA MergeComplete ==
    ASSUME WriteInv, writer = "merging", EqualNeighbours, Contiguous,
           NEW l, l = [RemoveAt(lookup_nodes, index + 1) EXCEPT ![index] = Merged]
    PROVE  Complete(l, spans)
  <1> DEFINE old == lookup_nodes
             m == Len(old)
  <1>1. /\ old \in Seq(Entries) /\ index \in Nat \ {0} /\ index < m /\ m \in Nat
        /\ DOMAIN old = 1..m
    BY MergingFacts DEF EqualNeighbours
  <1>2. /\ l \in Seq(Entries)
        /\ DOMAIN l = 1..(m - 1)
        /\ l[index] = Merged
        /\ \A k \in 1..(index - 1) : l[k] = old[k]
        /\ \A k \in (index + 1)..(m - 1) : l[k] = old[k + 1]
    BY MergedTable
  <1>3. Complete(old, spans)
    BY MergingFacts
  <1> HIDE DEF m
  <1>4. ASSUME NEW o \in 0..(spans.bytes.start - 1)
        PROVE \E k \in 1..(m - 1) : Holds(l[k].spans, "bytes", o)
    <2>1. PICK k \in 1..m : Holds(old[k].spans, "bytes", o)
      BY <1>1, <1>3 DEF Complete
    <2>2. CASE k < index
      BY <2>1, <2>2, <1>1, <1>2
    <2>3. CASE k = index \/ k = index + 1
      <3>1. Holds(Current.spans, "bytes", o) \/ Holds(Following.spans, "bytes", o)
        BY <2>1, <2>3 DEF Current, Following
      <3>2. o \in Nat
        BY MergingFacts DEF Spans, Span
      <3>3. Holds(Merged.spans, "bytes", o)
        BY <3>1, <3>2, MergedIsSound
      <3> QED BY <3>3, <1>1, <1>2
    <2>4. CASE k > index + 1
      <3>1. k - 1 \in (index + 1)..(m - 1) /\ (k - 1) + 1 = k
        BY <2>4, <1>1
      <3>2. l[k - 1] = old[k]
        BY <3>1, <1>2
      <3> QED BY <3>1, <3>2, <2>1, <1>1
    <2> QED BY <2>2, <2>3, <2>4, <1>1
  <1>5. \A j \in 1..m : /\ old[j].target \in Ids
                       /\ old[j].spans.bytes.end <= nodes[old[j].target].spans.bytes.end
                       /\ old[j].spans.bytes.end <= spans.bytes.start
    BY <1>1, <1>3 DEF Complete
  <1>6. ASSUME NEW k \in 1..(m - 1)
        PROVE /\ l[k].target \in Ids
              /\ l[k].spans.bytes.end <= nodes[l[k].target].spans.bytes.end
              /\ l[k].spans.bytes.end <= spans.bytes.start
    <2>1. CASE k < index
      <3>1. k \in 1..(index - 1) /\ k \in 1..m
        BY <2>1, <1>1
      <3> HIDE DEF m, old
      <3>2. l[k] = old[k]
        BY <3>1, <1>2, Zenon
      <3> QED BY <3>1, <3>2, <1>5, Zenon
    <2>2. CASE k = index
      BY <2>2, <1>2, MergedIsSound
    <2>3. CASE k > index
      <3>1. k \in (index + 1)..(m - 1) /\ k + 1 \in 1..m
        BY <2>3, <1>1
      <3> HIDE DEF m, old
      <3>2. l[k] = old[k + 1]
        BY <3>1, <1>2, Zenon
      <3> QED BY <3>1, <3>2, <1>5, Zenon
    <2> QED BY <2>1, <2>2, <2>3, <1>1
  <1> QED BY <1>2, <1>4, <1>6 DEF Complete

LEMMA MergeKeepsWriteInv == ASSUME WriteInv, Merge PROVE WriteInv'
  <1>1. /\ writer = "merging" /\ EqualNeighbours /\ Contiguous
        /\ lookup_nodes' = [RemoveAt(lookup_nodes, index + 1) EXCEPT ![index] = Merged]
        /\ UNCHANGED <<nodes, tail, born, clock, saved, writer, spans, preceding, head,
                       index, uploads, ideal>>
    BY DEF Merge
  <1>2. /\ lookup_nodes' \in Seq(Entries)
        /\ Chained(lookup_nodes', spans)
        /\ Complete(lookup_nodes', spans)
    BY <1>1, MergedTable, MergeChained, MergeComplete
  <1>3. tail # 0
    <2>1. lookup_nodes # <<>>
      BY <1>1, MergingFacts DEF EqualNeighbours
    <2> QED BY <2>1, <1>1, MergingFacts
  <1>4. Ids' = Ids /\ \A name \in SpanNames : End(name)' = End(name)
    BY <1>1 DEF Ids, End, SpansOf
  <1>5. TypeOK'
    BY <1>1, <1>2 DEF WriteInv, TypeOK
  <1>6. UploadedIsSound'
    <2>1. clock' \in Nat /\ (~ClockGoesBack => clock <= clock')
      BY <1>1 DEF WriteInv, TypeOK
    <2> QED BY <1>1, <2>1, UploadedKept
  <1>7. WriterIsSound'
    <2>1. Proper(spans)'
      BY <1>1 DEF WriteInv, WriterIsSound, Proper
    <2>2. Chained(lookup_nodes, spans)'
      BY <1>1, <1>2 DEF Chained
    <2>3. Complete(lookup_nodes, spans)'
      BY <1>1, <1>2, <1>4 DEF Complete
    <2>4. \A name \in SpanNames : spans'[name].start = End(name)'
      BY <1>1, <1>4, MergingFacts
    <2> QED BY <2>1, <2>2, <2>3, <2>4, <1>1, <1>3, MergingFacts DEF WriterIsSound
  <1> QED BY <1>1, <1>5, <1>6, <1>7 DEF WriteInv, UploadIsNewest

\* With a clock that does not go back the assertion of the loop holds.
LEMMA AssertionHolds ==
    ASSUME WriteInv, writer = "merging", EqualNeighbours, ~ClockGoesBack
    PROVE  Contiguous
  <1>1. index \in DOMAIN lookup_nodes /\ index + 1 \in DOMAIN lookup_nodes
    BY MergingFacts DEF EqualNeighbours
  <1>2. OrderedSpans = SpanNames
    BY DEF OrderedSpans
  <1> QED BY <1>1, <1>2, MergingFacts DEF Chained, Contiguous, Current, Following

\* Steps that change no document and neither the tail nor write's locals
LEMMA OtherKeepsWriteInv ==
    ASSUME WriteInv, AssertFails \/ Skip \/ StartUploads
    PROVE  WriteInv'
  <1>1. /\ writer = "merging"
        /\ UNCHANGED <<nodes, tail, born, clock, saved, spans, preceding, head, ideal>>
    BY DEF AssertFails, Skip, StartUploads, localVars
  <1>2. /\ writer' \in {"aborted", "merging", "uploading"}
        /\ uploads' \in 0..2
        /\ writer' = "uploading" => uploads' = 2
        /\ index' \in Nat \ {0}
        /\ ~ClockGoesBack => writer' # "aborted"
    <2>1. TypeOK
      BY DEF WriteInv
    <2>2. CASE AssertFails
      BY <2>1, <2>2, AssertionHolds DEF AssertFails, TypeOK, localVars
    <2>3. CASE Skip
      BY <2>1, <2>3, <1>1 DEF Skip, TypeOK
    <2>4. CASE StartUploads
      BY <2>1, <2>4 DEF StartUploads, TypeOK
    <2> QED BY <2>2, <2>3, <2>4
  <1>3. lookup_nodes' = lookup_nodes
    <2>1. CASE AssertFails \/ Skip
      BY <2>1 DEF AssertFails, Skip, localVars
    <2>2. CASE StartUploads
      <3>1. lookup_nodes' = lookup_nodes \o <<>>
        BY <2>2, <1>1, MergingFacts DEF StartUploads
      <3> QED BY <3>1, <1>1, MergingFacts
    <2> QED BY <2>1, <2>2
  <1>4. Ids' = Ids /\ \A name \in SpanNames : End(name)' = End(name)
    BY <1>1 DEF Ids, End, SpansOf
  <1>5. TypeOK'
    BY <1>1, <1>2, <1>3 DEF WriteInv, TypeOK
  <1>6. UploadedIsSound'
    <2>1. clock' \in Nat /\ (~ClockGoesBack => clock <= clock')
      BY <1>1 DEF WriteInv, TypeOK
    <2> QED BY <1>1, <2>1, UploadedKept
  <1>7. WriterIsSound'
    <2>1. Proper(spans)'
      BY <1>1 DEF WriteInv, WriterIsSound, Proper
    <2>2. Chained(lookup_nodes, spans)'
      BY <1>1, <1>3, MergingFacts DEF Chained
    <2>3. Complete(lookup_nodes, spans)'
      BY <1>1, <1>3, <1>4, MergingFacts DEF Complete
    <2>4. \A name \in SpanNames : spans'[name].start = End(name)'
      BY <1>1, <1>4, MergingFacts
    <2> QED BY <2>1, <2>2, <2>3, <2>4, <1>1, <1>3, MergingFacts DEF WriterIsSound
  <1>8. UploadIsNewest'
    BY <1>2 DEF UploadIsNewest
  <1> QED BY <1>1, <1>2, <1>5, <1>6, <1>7, <1>8 DEF WriteInv

LEMMA CommitSaveRestartKeepWriteInv ==
    ASSUME WriteInv, Commit \/ Save \/ Restart
    PROVE  WriteInv'
  <1>1. UNCHANGED <<nodes, ideal>> /\ TypeOK /\ clock \in Nat /\ born \in Nat
    BY DEF WriteInv, TypeOK, Commit, Save, Restart
  <1>2. writer' \in {"written", "idle"}
    BY DEF Commit, Save, Restart
  <1>3. clock' \in Nat /\ born' \in Nat /\ (~ClockGoesBack => clock <= clock' /\ born' <= clock')
    <2>1. CASE Commit \/ Save
      BY <1>1, <2>1 DEF Commit, Save, WriteInv
    <2>2. CASE Restart
      <3>1. PICK t \in 0..MaxTime : /\ ClockGoesBack \/ t >= clock
                                    /\ clock' = t
                                    /\ born' = IF saved = 0 THEN t ELSE born
        BY <2>2 DEF Restart
      <3>2. t \in Nat
        BY SkystreamAssumption
      <3> QED BY <3>1, <3>2, <1>1 DEF WriteInv
    <2> QED BY <2>1, <2>2
  <1>4. TypeOK'
    <2>1. CASE Commit
      <3>1. Len(nodes) \in 0..Len(nodes)
        BY <1>1 DEF TypeOK
      <3> QED BY <2>1, <3>1, <1>1 DEF Commit, NewestId, TypeOK, localVars
    <2>2. CASE Save
      BY <2>2, <1>1 DEF Save, TypeOK, localVars
    <2>3. CASE Restart
      BY <2>3, <1>1, <1>3, FreshSpansType DEF Restart, Restored, TypeOK
    <2> QED BY <2>1, <2>2, <2>3
  <1>5. UploadedIsSound'
    BY <1>1, <1>3, UploadedKept
  <1>6. WriterIsSound' /\ UploadIsNewest'
    BY <1>2 DEF WriterIsSound, UploadIsNewest
  <1> QED BY <1>2, <1>3, <1>4, <1>5, <1>6 DEF WriteInv

----------------------------------------------------------------------------
(* Writes at the end: the uploads.                                         *)

LEMMA IdealFacts ==
    ASSUME WriteInv
    PROVE  IdealOf(tail) \in Seq(Nat \ {0}) /\ Len(IdealOf(tail)) = End("bytes")
  <1>1. CASE tail = 0
    BY <1>1 DEF IdealOf, End, SpansOf, FreshSpans, Interval
  <1>2. CASE tail # 0
    <2>1. tail \in Ids /\ ideal \in Seq(Seq(Nat \ {0})) /\ Len(ideal) = Len(nodes)
      BY <1>2 DEF WriteInv, TypeOK, Ids
    <2>2. ideal[tail] \in Seq(Nat \ {0})
      BY <2>1 DEF Ids
    <2>3. Len(ideal[tail]) = nodes[tail].spans.bytes.end
      BY <2>1 DEF WriteInv, UploadedIsSound
    <2> QED BY <2>2, <2>3, <1>2 DEF IdealOf, End, SpansOf
  <1> QED BY <1>1, <1>2

\* Appending bytes leaves the old ones a prefix of the new ones.
LEMMA OverlayAppends ==
    ASSUME NEW old \in Seq(Nat \ {0}), NEW b \in Span, b.start = Len(old), b.start < b.end,
           Len(nodes) \in Nat
    PROVE  /\ Overlay(old, b) \in Seq(Nat \ {0})
           /\ Len(Overlay(old, b)) = b.end
           /\ IsStrictPrefix(old, Overlay(old, b))
  <1> DEFINE a == Len(old)
             e == b.end
             new == Overlay(old, b)
             id == Len(nodes) + 1
  <1>1. a \in Nat /\ e \in Nat /\ a < e /\ id \in Nat \ {0} /\ b.start = a
    BY DEF Span
  <1>2. new = [i \in 1..e |-> IF a < i /\ i <= e THEN id ELSE old[i]]
    BY <1>1 DEF Overlay
  <1> HIDE DEF new, id, e
  <1>3. ASSUME NEW i \in 1..e PROVE new[i] \in Nat \ {0}
    <2>1. CASE i <= a
      BY <2>1, <1>1, <1>2
    <2>2. CASE i > a
      BY <2>2, <1>1, <1>2
    <2> QED BY <2>1, <2>2, <1>1
  <1>4. new \in [1..e -> Nat \ {0}]
    BY <1>2, <1>3
  <1>5. new \in Seq(Nat \ {0}) /\ Len(new) = e
    BY ONLY <1>1, <1>4, FunctionIsSeq
  <1>6. \A i \in 1..a : new[i] = old[i]
    BY <1>1, <1>2
  <1>7. SubSeq(old, 1, a) = SubSeq(new, 1, a)
    BY <1>1, <1>5, <1>6
  <1>8. IsStrictPrefix(old, new)
    <2>1. old # new
      BY <1>1, <1>5
    <2>2. IsPrefix(old, new)
      BY <1>1, <1>5, <1>7 DEF IsPrefix
    <2> QED BY <2>1, <2>2 DEF IsStrictPrefix
  <1> QED BY <1>5, <1>8 DEF new, e

LEMMA FirstUploadKeepsWriteInv ==
    ASSUME WriteInv, Upload, uploads = 2
    PROVE  WriteInv'
  <1> DEFINE m == Len(nodes)
             doc == [spans |-> spans, lookup |-> lookup_nodes]
             new == Overlay(IdealOf(tail), spans.bytes)
  <1>1. /\ writer = "uploading"
        /\ uploads' = 1
        /\ nodes' = Append(nodes, doc)
        /\ ideal' = Append(ideal, new)
        /\ UNCHANGED <<tail, born, clock, saved, writer, spans, preceding, head,
                       lookup_nodes, index>>
    BY DEF Upload, localVars
  <1>2. /\ TypeOK
        /\ nodes \in Seq(Documents) /\ m \in Nat
        /\ ideal \in Seq(Seq(Nat \ {0})) /\ Len(ideal) = m
        /\ spans \in Spans /\ lookup_nodes \in Seq(Entries)
        /\ tail \in 0..m /\ saved \in 0..m /\ preceding \in 0..m
    BY DEF WriteInv, TypeOK
  <1>3. /\ head = <<>> /\ preceding = tail
        /\ \A name \in SpanNames : spans[name].start = End(name)
        /\ Proper(spans)
        /\ Chained(lookup_nodes, spans)
        /\ Complete(lookup_nodes, spans)
        /\ tail = 0 => lookup_nodes = <<>>
    BY <1>1 DEF WriteInv, WriterIsSound
  <1>4. doc \in Documents
    BY <1>2 DEF Documents
  <1>5. new \in Seq(Nat \ {0}) /\ Len(new) = spans.bytes.end /\ IsStrictPrefix(IdealOf(tail), new)
    <2>1. spans.bytes \in Span /\ spans.bytes.start = Len(IdealOf(tail))
      BY <1>2, <1>3, IdealFacts DEF Spans, SpanNames
    <2>2. spans.bytes.start < spans.bytes.end
      BY <1>3 DEF Proper
    <2> QED BY <2>1, <2>2, <1>2, IdealFacts, OverlayAppends
  <1> HIDE DEF doc, new
  <1>6. /\ nodes' \in Seq(Documents) /\ Len(nodes') = m + 1
        /\ \A n \in 1..m : nodes'[n] = nodes[n]
        /\ nodes'[m + 1] = doc
    BY <1>1, <1>2, <1>4
  <1>7. /\ ideal' \in Seq(Seq(Nat \ {0})) /\ Len(ideal') = m + 1
        /\ \A n \in 1..m : ideal'[n] = ideal[n]
        /\ ideal'[m + 1] = new
    BY <1>1, <1>2, <1>5
  <1> HIDE DEF m
  <1>8. /\ Ids = 1..m /\ Ids' = 1..(m + 1)
        /\ \A n \in 1..m : Lookup(n)' = Lookup(n)
        /\ \A n \in {m + 1} : Lookup(n)' = lookup_nodes
        /\ \A name \in SpanNames : End(name)' = End(name)
        /\ IdealOf(tail)' = IdealOf(tail)
    <2>1. Ids = 1..m /\ Ids' = 1..(m + 1)
      BY <1>6 DEF Ids, m
    <2>2. \A n \in 1..m : Lookup(n)' = Lookup(n)
      BY <1>6, <1>2 DEF Lookup
    <2>3. \A n \in {m + 1} : Lookup(n)' = lookup_nodes
      BY <1>6, <1>2 DEF Lookup, doc
    <2>4. SpansOf(tail)' = SpansOf(tail) /\ IdealOf(tail)' = IdealOf(tail)
      BY <1>1, <1>2, <1>6, <1>7 DEF SpansOf, IdealOf
    <2>5. \A name \in SpanNames : End(name)' = End(name)
      BY <2>4, <1>1 DEF End
    <2> QED BY <2>1, <2>2, <2>3, <2>4, <2>5
  <1>9. ASSUME NEW l, NEW sp, Complete(l, sp)
        PROVE  /\ \A o \in 0..(sp.bytes.start - 1) :
                      \E k \in DOMAIN l : Holds(l[k].spans, "bytes", o)
               /\ \A k \in DOMAIN l :
                      /\ l[k].target \in 1..m /\ l[k].target \in 1..(m + 1)
                      /\ l[k].spans.bytes.end <= nodes'[l[k].target].spans.bytes.end
                      /\ l[k].spans.bytes.end <= sp.bytes.start
    BY <1>2, <1>6, <1>8, <1>9 DEF Complete
  <1>10. TypeOK'
    <2>1. tail' \in 0..Len(nodes') /\ saved' \in 0..Len(nodes') /\ preceding' \in 0..Len(nodes')
      BY <1>1, <1>2, <1>6
    <2>2. uploads' \in 0..2
      BY <1>1
    <2>3. Len(ideal') = Len(nodes')
      BY <1>6, <1>7
    <2> QED BY <2>1, <2>2, <2>3, <1>1, <1>2, <1>6, <1>7 DEF TypeOK
  <1>11. UploadedIsSound'
    <2> SUFFICES ASSUME NEW n \in 1..(m + 1)
                 PROVE  /\ Proper(nodes[n].spans)'
                        /\ Chained(Lookup(n), nodes[n].spans)'
                        /\ Complete(Lookup(n), nodes[n].spans)'
                        /\ \A k \in DOMAIN Lookup(n)' : Lookup(n)'[k].target < n
                        /\ Len(ideal'[n]) = nodes'[n].spans.bytes.end
      BY <1>8 DEF UploadedIsSound
    <2>1. CASE n \in 1..m
      <3>1. nodes'[n] = nodes[n] /\ Lookup(n)' = Lookup(n) /\ ideal'[n] = ideal[n]
        BY <2>1, <1>6, <1>7, <1>8
      <3>2. /\ Proper(nodes[n].spans)
            /\ Chained(Lookup(n), nodes[n].spans)
            /\ Complete(Lookup(n), nodes[n].spans)
            /\ \A k \in DOMAIN Lookup(n) : Lookup(n)[k].target < n
            /\ Len(ideal[n]) = nodes[n].spans.bytes.end
        BY <2>1, <1>8 DEF WriteInv, UploadedIsSound
      <3>3. Proper(nodes[n].spans)'
        BY <3>1, <3>2, <1>1 DEF Proper
      <3>4. Chained(Lookup(n), nodes[n].spans)'
        BY <3>1, <3>2 DEF Chained
      <3>5. Complete(Lookup(n), nodes[n].spans)'
        BY <3>1, <3>2, <1>8, <1>9 DEF Complete
      <3> QED BY <3>1, <3>2, <3>3, <3>4, <3>5
    <2>2. CASE n = m + 1
      <3>1. nodes'[n].spans = spans /\ Lookup(n)' = lookup_nodes /\ ideal'[n] = new
        BY <2>2, <1>6, <1>7, <1>8 DEF doc
      <3>2. Proper(nodes[n].spans)'
        BY <3>1, <1>3, <1>1 DEF Proper
      <3>3. Chained(Lookup(n), nodes[n].spans)'
        BY <3>1, <1>3 DEF Chained
      <3>4. Complete(Lookup(n), nodes[n].spans)'
        BY <3>1, <1>3, <1>8, <1>9 DEF Complete
      <3>5. \A k \in DOMAIN Lookup(n)' : Lookup(n)'[k].target < n
        BY <3>1, <1>2, <1>3, <1>9, <2>2
      <3> QED BY <3>1, <3>2, <3>3, <3>4, <3>5, <1>5
    <2> QED BY <2>1, <2>2, <1>2
  <1>12. WriterIsSound'
    <2>1. Proper(spans)'
      BY <1>1, <1>3 DEF Proper
    <2>2. Chained(lookup_nodes, spans)'
      BY <1>1, <1>3 DEF Chained
    <2>3. Complete(lookup_nodes, spans)'
      BY <1>1, <1>3, <1>8, <1>9 DEF Complete
    <2>4. \A name \in SpanNames : spans'[name].start = End(name)'
      BY <1>1, <1>3, <1>8
    <2> QED BY <2>1, <2>2, <2>3, <2>4, <1>1, <1>3 DEF WriterIsSound
  <1>13. UploadIsNewest'
    BY <1>2, <1>5, <1>6, <1>7, <1>8 DEF UploadIsNewest
  <1> QED BY <1>1, <1>10, <1>11, <1>12, <1>13 DEF WriteInv

LEMMA SecondUploadKeepsWriteInv ==
    ASSUME WriteInv, Upload, uploads # 2
    PROVE  WriteInv'
  <1>1. /\ writer = "uploading" /\ uploads > 0 /\ uploads' = uploads - 1
        /\ UNCHANGED <<nodes, ideal, tail, born, clock, saved, writer, spans, preceding,
                       head, lookup_nodes, index>>
    BY DEF Upload, localVars
  <1>2. uploads \in 0..2 /\ uploads' \in 0..2 /\ uploads < 2
    BY <1>1 DEF WriteInv, TypeOK
  <1>3. TypeOK'
    BY <1>1, <1>2 DEF WriteInv, TypeOK
  <1>4. UploadedIsSound'
    <2>1. clock' \in Nat /\ (~ClockGoesBack => clock <= clock')
      BY <1>1 DEF WriteInv, TypeOK
    <2> QED BY <1>1, <2>1, UploadedKept
  <1>5. Ids' = Ids /\ \A name \in SpanNames : End(name)' = End(name)
    BY <1>1 DEF Ids, End, SpansOf
  <1>6. WriterIsSound'
    <2>0. WriterIsSound
      BY DEF WriteInv
    <2>1. Proper(spans)'
      BY <2>0, <1>1 DEF WriterIsSound, Proper
    <2>2. Chained(lookup_nodes, spans)'
      BY <2>0, <1>1 DEF WriterIsSound, Chained
    <2>3. Complete(lookup_nodes, spans)'
      BY <2>0, <1>1, <1>5 DEF WriterIsSound, Complete
    <2>4. \A name \in SpanNames : spans'[name].start = End(name)'
      BY <2>0, <1>1, <1>5 DEF WriterIsSound
    <2> QED BY <2>0, <2>1, <2>2, <2>3, <2>4, <1>1 DEF WriterIsSound
  <1>7. UploadIsNewest'
    <2>1. UploadIsNewest /\ IdealOf(tail)' = IdealOf(tail)
      BY <1>1 DEF WriteInv, IdealOf
    <2> QED BY <2>1, <1>1, <1>2 DEF UploadIsNewest
  <1> QED BY <1>1, <1>3, <1>4, <1>6, <1>7 DEF WriteInv

----------------------------------------------------------------------------
(* Writes anywhere: what a search finds.                                   *)

LEMMA AnywhereOlder == AnywhereInv => TypeOK /\ EntriesOlder
  BY DEF AnywhereInv, UploadedReach, TableReaches, EntryReaches, EntriesOlder

\* Documents whose entries lead to documents among them.
Closed(C) ==
    C \subseteq Ids /\ \A m \in C : \A k \in DOMAIN Lookup(m) : Lookup(m)[k].target \in C

\* what is found through an entry of one of these documents
FoundIn(C, found, name, o) ==
    /\ found.node \in C
    /\ Holds(nodes[found.node].spans, name, o)
    /\ \E m \in C : \E k \in DOMAIN Lookup(m) :
          /\ found = Found(Lookup(m)[k].target, Lookup(m)[k].spans)
          /\ Holds(Lookup(m)[k].spans, name, o)

LEMMA FollowStays ==
    ASSUME TypeOK, EntriesOlder, NEW name \in SpanNames, NEW o, NEW C, Closed(C)
    PROVE  \A n \in C : Follow(name, o)[n].node # 0 => FoundIn(C, Follow(name, o)[n], name, o)
  <1> DEFINE F == Follow(name, o)
             T == {m \in Nat : m \in C => (F[m].node # 0 => FoundIn(C, F[m], name, o))}
  <1>1. ASSUME NEW m \in Nat, \A j \in Nat : j < m => j \in T PROVE m \in T
    <2> SUFFICES ASSUME m \in C, F[m].node # 0 PROVE FoundIn(C, F[m], name, o)
      OBVIOUS
    <2> DEFINE k == FirstEntry(m, name, o)
               e == Lookup(m)[k]
               t == e.target
    <2>1. m \in Ids /\ m \in 0..Len(nodes) /\ Lookup(m) \in Seq(Entries)
      BY Doc DEF Closed
    <2>2. F[m] = FollowStep(F, m, name, o)
      BY <2>1, FollowIs
    <2>3. k # 0
      <3> SUFFICES ASSUME k = 0 PROVE FALSE
        OBVIOUS
      <3>1. F[m] = OutOfRange
        BY <2>2 DEF FollowStep
      <3> QED BY <3>1 DEF OutOfRange, Found
    <2>4. k \in DOMAIN Lookup(m) /\ Holds(e.spans, name, o)
      BY <2>1, <2>3, FirstEntryIs
    <2>5. t \in C /\ t \in Ids /\ t < m /\ t \in Nat /\ SpansOf(t) = nodes[t].spans
      BY <2>1, <2>4, TargetsOlder, Doc DEF Closed
    <2>6. CASE Holds(SpansOf(t), name, o)
      <3>1. F[m] = Found(t, e.spans)
        BY <2>2, <2>3, <2>6 DEF FollowStep
      <3> HIDE DEF k
      <3>2. F[m].node = t
        BY <3>1 DEF Found
      <3> HIDE DEF F
      <3> QED BY <3>1, <3>2, <2>4, <2>5, <2>6 DEF FoundIn
    <2>7. CASE ~Holds(SpansOf(t), name, o)
      <3>1. F[m] = F[t]
        BY <2>2, <2>3, <2>7 DEF FollowStep
      <3>2. t \in T
        BY <1>1, <2>5
      <3> QED BY <3>1, <3>2, <2>5
    <2> QED BY <2>6, <2>7
  <1> HIDE DEF T
  <1>2. Nat \subseteq T
    BY <1>1, CompleteInduction
  <1> SUFFICES ASSUME NEW n \in C PROVE F[n].node # 0 => FoundIn(C, F[n], name, o)
    OBVIOUS
  <1>3. n \in T
    BY <1>2, Doc DEF Closed
  <1> QED BY <1>3 DEF T

\* get_node stays among them: it finds the document it starts from, or one that
\* is found through an entry.
LEMMA SearchStays ==
    ASSUME TypeOK, EntriesOlder, NEW name \in SpanNames, NEW o, NEW C, Closed(C), NEW n \in C,
           GetNode(n, name, o).node # 0
    PROVE  /\ GetNode(n, name, o).node \in C
           /\ Holds(nodes[GetNode(n, name, o).node].spans, name, o)
           /\ \/ GetNode(n, name, o) = Found(n, nodes[n].spans)
              \/ FoundIn(C, GetNode(n, name, o), name, o) /\ FirstEntry(n, name, o) # 0
  <1> DEFINE g == GetNode(n, name, o)
  <1>1. n \in Ids /\ n \in 0..Len(nodes) /\ SpansOf(n) = nodes[n].spans
    BY Doc DEF Closed
  <1>2. CASE Holds(SpansOf(n), name, o)
    <2>1. g = Found(n, nodes[n].spans)
      BY <1>1, <1>2, GetNodeFollows
    <2> HIDE DEF g
    <2> QED BY <1>1, <1>2, <2>1 DEF Found, g
  <1>3. CASE ~Holds(SpansOf(n), name, o)
    <2>1. g = Follow(name, o)[n]
      BY <1>1, <1>3, GetNodeFollows
    <2>2. FoundIn(C, g, name, o)
      BY <2>1, FollowStays
    <2>3. FirstEntry(n, name, o) # 0
      <3> SUFFICES ASSUME FirstEntry(n, name, o) = 0 PROVE FALSE
        OBVIOUS
      <3>1. Follow(name, o)[n] = FollowStep(Follow(name, o), n, name, o)
        BY <1>1, FollowIs
      <3>2. Follow(name, o)[n] = OutOfRange
        BY <3>1 DEF FollowStep
      <3> QED BY <2>1, <3>2 DEF OutOfRange, Found
    <2> HIDE DEF g
    <2> QED BY <2>2, <2>3 DEF FoundIn, g
  <1> QED BY <1>2, <1>3

\* What is reached is found.
LEMMA ReachedIsFound ==
    ASSUME AnywhereInv, NEW n \in Ids, NEW o \in Nat, Reaches(n, o)
    PROVE  GetNode(n, "bytes", o).node # 0
  <1> DEFINE F == Follow("bytes", o)
             InTable(m) == \E k \in DOMAIN Lookup(m) : Holds(Lookup(m)[k].spans, "bytes", o)
             T == {m \in Nat : m \in Ids /\ InTable(m) => F[m].node # 0}
  <1>0. TypeOK /\ EntriesOlder /\ "bytes" \in SpanNames
    BY AnywhereOlder DEF SpanNames
  <1>1. ASSUME NEW m \in Nat, \A j \in Nat : j < m => j \in T PROVE m \in T
    <2> SUFFICES ASSUME m \in Ids, InTable(m) PROVE F[m].node # 0
      OBVIOUS
    <2> DEFINE k == FirstEntry(m, "bytes", o)
               e == Lookup(m)[k]
               t == e.target
    <2>1. m \in 0..Len(nodes) /\ Lookup(m) \in Seq(Entries)
      BY <1>0, Doc
    <2>2. F[m] = FollowStep(F, m, "bytes", o)
      BY <1>0, <2>1, FollowIs
    <2>3. k # 0 /\ k \in DOMAIN Lookup(m) /\ Holds(e.spans, "bytes", o)
      BY <2>1, FirstEntryIs
    <2>4. t \in Ids /\ t < m /\ t \in Nat \ {0} /\ SpansOf(t) = nodes[t].spans /\ e.spans \in Spans
      BY <1>0, <2>1, <2>3, TargetsOlder, Doc
    <2>5. CASE Holds(SpansOf(t), "bytes", o)
      <3>1. F[m] = Found(t, e.spans)
        BY <2>2, <2>3, <2>5 DEF FollowStep
      <3> HIDE DEF k
      <3> QED BY <3>1, <2>4 DEF Found
    <2>6. CASE ~Holds(SpansOf(t), "bytes", o)
      <3>1. F[m] = F[t]
        BY <2>2, <2>3, <2>6 DEF FollowStep
      <3>2. \A x \in e.spans.bytes.start..(e.spans.bytes.end - 1) : Reaches(t, x)
        BY <2>3 DEF AnywhereInv, UploadedReach, TableReaches, EntryReaches
      <3>3. o \in e.spans.bytes.start..(e.spans.bytes.end - 1)
        <4> HIDE DEF k
        <4>1. e.spans.bytes.start \in Nat /\ e.spans.bytes.end \in Nat
          BY <1>0, <2>4, SpanFields
        <4> QED BY <4>1, <2>3 DEF Holds
      <3>4. Reaches(t, o)
        BY <3>2, <3>3
      <3>5. InTable(t)
        BY <2>6, <3>4 DEF Reaches
      <3>6. t \in T
        BY <1>1, <2>4
      <3> QED BY <3>1, <3>5, <3>6, <2>4
    <2> QED BY <2>5, <2>6
  <1> HIDE DEF T
  <1>2. Nat \subseteq T
    BY <1>1, CompleteInduction
  <1>3. n \in T /\ n # 0
    BY <1>0, <1>2, Doc
  <1>4. CASE Holds(SpansOf(n), "bytes", o)
    BY <1>3, <1>4, GetNodeFollows DEF Found
  <1>5. CASE ~Holds(SpansOf(n), "bytes", o)
    <2>1. InTable(n)
      BY <1>5 DEF Reaches
    <2>2. F[n].node # 0
      BY <1>3, <2>1 DEF T
    <2> QED BY <1>5, <2>2, GetNodeFollows
  <1> QED BY <1>4, <1>5

\* A byte of a block, or of one before it, is found in the block that wrote it.
LEMMA FindsWritten ==
    ASSUME AnywhereInv, NEW n \in Ids, Uncut(n), NEW o \in 0..(nodes[n].spans.bytes.end - 1)
    PROVE  GetNode(n, "bytes", o).node = ideal[n][o + 1]
  <1> DEFINE F == Follow("bytes", o)
             start(m) == nodes[m].spans.bytes.start
             end(m) == nodes[m].spans.bytes.end
             T == {m \in Nat : m \in Ids /\ Uncut(m) /\ o < start(m) => F[m].node = ideal[m][o + 1]}
  <1>0. TypeOK /\ EntriesOlder /\ "bytes" \in SpanNames /\ o \in Nat
    BY AnywhereOlder, Doc, SpanFields DEF SpanNames
  <1>1. ASSUME NEW m \in Ids
        PROVE start(m) \in Nat /\ end(m) \in Nat /\ m \in Nat \ {0} /\ SpansOf(m) = nodes[m].spans
    BY <1>0, Doc, SpanFields
  <1>2. ASSUME NEW m \in Ids, Uncut(m), start(m) <= o, o < end(m) PROVE ideal[m][o + 1] = m
    <2>1. o + 1 \in (start(m) + 1)..end(m)
      BY <1>0, <1>1, <1>2
    <2> QED BY <1>2, <2>1 DEF AnywhereInv, UploadedAligned
  <1>3. ASSUME NEW m \in Nat, \A j \in Nat : j < m => j \in T PROVE m \in T
    <2> SUFFICES ASSUME m \in Ids, Uncut(m), o < start(m) PROVE F[m].node = ideal[m][o + 1]
      OBVIOUS
    <2> DEFINE k == FirstEntry(m, "bytes", o)
               e == Lookup(m)[k]
               t == e.target
    <2>1. m \in 0..Len(nodes) /\ Lookup(m) \in Seq(Entries)
      BY <1>0, Doc
    <2>2. F[m] = FollowStep(F, m, "bytes", o)
      BY <1>0, <2>1, FollowIs
    <2>3. \E j \in DOMAIN Lookup(m) : Holds(Lookup(m)[j].spans, "bytes", o)
      <3>1. TableReaches(Lookup(m), start(m), Len(ideal[m]))
        BY DEF AnywhereInv, UploadedReach
      <3>2. o \in 0..(start(m) - 1)
        BY <1>0, <1>1
      <3> QED BY <3>1, <3>2 DEF TableReaches
    <2>4. k # 0 /\ k \in DOMAIN Lookup(m) /\ Holds(e.spans, "bytes", o)
      BY <2>1, <2>3, FirstEntryIs
    <2>5. t \in Ids /\ t < m /\ t \in Nat /\ e.spans \in Spans
      BY <1>0, <2>1, <2>4, TargetsOlder, Doc
    <2>6. e.spans.bytes.end <= end(t) /\ Agrees(t, m, EntryEnd(e))
      BY <2>4 DEF AnywhereInv, UploadedAligned, TableAligned, EntryAligned
    <2>7. Uncut(t)
      BY <1>1, <2>5 DEF Uncut
    <2> HIDE DEF k
    <2>8. o < end(t)
      <3>1. e.spans.bytes.end \in Nat
        BY <1>0, <2>5, SpanFields
      <3> QED BY <1>0, <1>1, <2>4, <2>5, <2>6, <3>1 DEF Holds
    <2>9. ideal[m][o + 1] = ideal[t][o + 1]
      <3>1. IdealOf(m) = ideal[m] /\ IdealOf(t) = ideal[t]
        BY <1>0, <2>5, Doc
      <3>2. e.spans.bytes.end \in Nat /\ o < e.spans.bytes.end
        BY <1>0, <2>4, <2>5, SpanFields DEF Holds
      <3>3. EntryEnd(e) = IF e.spans.bytes.end <= start(t) THEN start(t) ELSE end(t)
        BY DEF EntryEnd
      <3>4. o + 1 \in 1..EntryEnd(e)
        BY <1>0, <1>1, <2>5, <2>8, <3>2, <3>3
      <3> QED BY <2>6, <3>1, <3>4 DEF Agrees
    <2>10. CASE start(t) <= o
      <3>1. Holds(SpansOf(t), "bytes", o)
        BY <1>1, <2>5, <2>8, <2>10 DEF Holds
      <3>2. F[m] = Found(t, e.spans)
        BY <2>2, <2>4, <3>1 DEF FollowStep, k
      <3>3. ideal[t][o + 1] = t
        BY <1>2, <2>5, <2>7, <2>8, <2>10
      <3> QED BY <3>2, <3>3, <2>9 DEF Found
    <2>11. CASE o < start(t)
      <3>1. ~Holds(SpansOf(t), "bytes", o)
        BY <1>0, <1>1, <2>5, <2>11 DEF Holds
      <3>2. F[m] = F[t]
        BY <2>2, <2>4, <3>1 DEF FollowStep, k
      <3>3. t \in T
        BY <1>3, <2>5
      <3> QED BY <3>2, <3>3, <2>5, <2>7, <2>9, <2>11
    <2> QED BY <1>0, <1>1, <2>5, <2>10, <2>11
  <1> HIDE DEF T
  <1>4. n \in T
    BY <1>1, <1>3, CompleteInduction
  <1>5. CASE start(n) <= o
    <2>1. o < end(n) /\ Holds(SpansOf(n), "bytes", o)
      BY <1>0, <1>1, <1>5 DEF Holds
    <2> QED BY <1>2, <1>5, <2>1, GetNodeFollows DEF Found
  <1>6. CASE o < start(n)
    <2>1. ~Holds(SpansOf(n), "bytes", o)
      BY <1>0, <1>1, <1>6 DEF Holds
    <2>2. F[n].node = ideal[n][o + 1]
      BY <1>4, <1>6 DEF T
    <2> QED BY <2>1, <2>2, GetNodeFollows
  <1> QED BY <1>0, <1>1, <1>5, <1>6

----------------------------------------------------------------------------
(* Writes anywhere: documents do not change.                               *)

\* the step keeps the documents there are
Keeps == \A n \in Ids : n \in Ids' /\ nodes'[n] = nodes[n] /\ ideal'[n] = ideal[n]

LEMMA KeepsReach ==
    ASSUME TypeOK, Keeps
    PROVE  /\ \A n \in Ids : /\ SpansOf(n)' = SpansOf(n) /\ Lookup(n)' = Lookup(n)
                             /\ IdealOf(n)' = IdealOf(n)
           /\ \A n \in Ids : \A o : Reaches(n, o) => Reaches(n, o)'
           /\ \A e, s, len : EntryReaches(e, s, len) => EntryReaches(e, s, len)'
           /\ \A l, s, len : TableReaches(l, s, len) => TableReaches(l, s, len)'
           /\ \A p \in Ids : \A l : ReachesTable(p, l) => ReachesTable(p, l)'
  <1>1. \A n \in Ids : n # 0 /\ n \in Ids' /\ nodes'[n] = nodes[n] /\ ideal'[n] = ideal[n]
    BY Doc DEF Keeps
  <1>2. ASSUME NEW n \in Ids
        PROVE  /\ SpansOf(n)' = SpansOf(n) /\ Lookup(n)' = Lookup(n) /\ IdealOf(n)' = IdealOf(n)
    BY <1>1 DEF SpansOf, Lookup, IdealOf
  <1>3. ASSUME NEW n \in Ids, NEW o, Reaches(n, o) PROVE Reaches(n, o)'
    BY <1>2, <1>3 DEF Reaches
  <1>4. ASSUME NEW e, NEW s, NEW len, EntryReaches(e, s, len) PROVE EntryReaches(e, s, len)'
    BY <1>1, <1>3, <1>4 DEF EntryReaches
  <1>5. ASSUME NEW l, NEW s, NEW len, TableReaches(l, s, len) PROVE TableReaches(l, s, len)'
    <2>1. ASSUME NEW k \in DOMAIN l PROVE EntryReaches(l[k], s, len)'
      <3>1. EntryReaches(l[k], s, len)
        BY <1>5 DEF TableReaches
      <3> QED BY <3>1, <1>4
    <2> QED BY <1>5, <2>1 DEF TableReaches
  <1>6. ASSUME NEW p \in Ids, NEW l, ReachesTable(p, l) PROVE ReachesTable(p, l)'
    BY <1>3, <1>6 DEF ReachesTable
  <1> QED BY <1>2, <1>3, <1>4, <1>5, <1>6

\* the entries of a table are for documents there are
InIds(l) == \A k \in DOMAIN l : l[k].target \in Ids

\* Where blocks end stays, and so does what is aligned to that.
LEMMA KeepsAligned ==
    ASSUME AnywhereInv, Keeps
    PROVE  /\ \A n \in 0..Len(nodes) : \A s : BlockEnd(n, s)' <=> BlockEnd(n, s)
           /\ \A n \in 0..Len(nodes) : Uncut(n)' <=> Uncut(n)
           /\ \A m \in Ids, n \in 0..Len(nodes) : \A s : Agrees(m, n, s) => Agrees(m, n, s)'
           /\ \A n \in 0..Len(nodes) : \A l, s :
                 InIds(l) /\ TableAligned(l, n, s) => TableAligned(l, n, s)'
  <1>0. TypeOK /\ Len(nodes) \in Nat
    BY DEF AnywhereInv, TypeOK
  <1>1. \A n \in 0..Len(nodes) : IdealOf(n)' = IdealOf(n)
    <2> SUFFICES ASSUME NEW n \in 0..Len(nodes) PROVE IdealOf(n)' = IdealOf(n)
      OBVIOUS
    <2>1. CASE n = 0
      BY <2>1 DEF IdealOf
    <2>2. CASE n # 0
      BY <1>0, <2>2, KeepsReach DEF Ids, TypeOK
    <2> QED BY <2>1, <2>2
  <1>2. \A n \in 0..Len(nodes) : \A i \in DOMAIN IdealOf(n) : IdealOf(n)[i] \in Ids
    <2> SUFFICES ASSUME NEW n \in 0..Len(nodes), NEW i \in DOMAIN IdealOf(n)
                 PROVE IdealOf(n)[i] \in Ids
      OBVIOUS
    <2>1. n # 0
      BY DEF IdealOf
    <2>2. n \in Ids /\ n \in Nat /\ Len(nodes) \in Nat /\ n <= Len(nodes)
      BY <1>0, <2>1 DEF Ids, TypeOK
    <2>3. IdealOf(n) = ideal[n] /\ ideal[n] \in Seq(1..n)
      BY <1>0, <2>2, Doc DEF AnywhereInv, UploadedReach
    <2>4. IdealOf(n)[i] \in 1..n
      BY <2>3
    <2> QED BY <2>2, <2>4 DEF Ids
  <1>3. ASSUME NEW n \in 0..Len(nodes), NEW s PROVE BlockEnd(n, s)' <=> BlockEnd(n, s)
    BY <1>1, <1>2 DEF BlockEnd, Keeps
  <1>4. ASSUME NEW n \in 0..Len(nodes) PROVE Uncut(n)' <=> Uncut(n)
    <2>1. ASSUME NEW m \in 1..n
          PROVE  BlockEnd(m, nodes[m].spans.bytes.start)'
                    <=> BlockEnd(m, nodes[m].spans.bytes.start)
      <3>1. m \in Ids /\ m \in 0..Len(nodes)
        BY <1>0 DEF Ids
      <3>2. nodes'[m] = nodes[m]
        BY <3>1 DEF Keeps
      <3>3. PICK s : s = nodes[m].spans.bytes.start
        OBVIOUS
      <3>4. s = nodes'[m].spans.bytes.start
        BY <3>2, <3>3
      <3>5. BlockEnd(m, s)' <=> BlockEnd(m, s)
        BY <1>3, <3>1
      <3> QED BY <3>3, <3>4, <3>5
    <2> QED BY <2>1 DEF Uncut
  <1>5. ASSUME NEW m \in Ids, NEW n \in 0..Len(nodes), NEW s, Agrees(m, n, s)
        PROVE  Agrees(m, n, s)'
    <2>1. IdealOf(m)' = IdealOf(m)
      BY <1>0, KeepsReach
    <2> QED BY <1>1, <1>5, <2>1 DEF Agrees
  <1>6. ASSUME NEW l, NEW n \in 0..Len(nodes), NEW s, InIds(l), TableAligned(l, n, s)
        PROVE  TableAligned(l, n, s)'
    <2> SUFFICES ASSUME NEW k \in DOMAIN l PROVE EntryAligned(l[k], n, s)'
      BY DEF TableAligned
    <2>1. PICK e : e = l[k]
      OBVIOUS
    <2>2. /\ e.target \in Ids
          /\ e.spans.bytes.end <= nodes[e.target].spans.bytes.end
          /\ EntryEnd(e) <= s
          /\ Agrees(e.target, n, EntryEnd(e))
          /\ BlockEnd(n, e.spans.bytes.start)
      BY <1>6, <2>1 DEF TableAligned, EntryAligned, InIds
    <2>3. PICK t, x, y : t = e.target /\ x = EntryEnd(e) /\ y = e.spans.bytes.start
      OBVIOUS
    <2>4. nodes'[e.target] = nodes[e.target] /\ EntryEnd(e)' = x
      BY <2>2, <2>3 DEF Keeps, EntryEnd
    <2>5. Agrees(t, n, x)' /\ BlockEnd(n, y)'
      BY <1>3, <1>5, <2>2, <2>3
    <2>6. EntryAligned(e, n, s)'
      BY <2>2, <2>3, <2>4, <2>5 DEF EntryAligned
    <2> QED BY <2>1, <2>6
  <1> QED BY <1>3, <1>4, <1>5, <1>6

\* What the invariant says of one document stays true of it.
LEMMA KeepsDocument ==
    ASSUME AnywhereInv, Keeps, NEW n \in Ids
    PROVE  /\ nodes'[n].spans.bytes.start < nodes'[n].spans.bytes.end
           /\ nodes'[n].spans.bytes.end <= Len(ideal'[n])
           /\ ideal'[n] \in Seq(1..n)
           /\ TableReaches(Lookup(n), nodes[n].spans.bytes.start, Len(ideal[n]))'
           /\ \A k \in DOMAIN Lookup(n)' : Lookup(n)'[k].target < n
           /\ Uncut(n)' =>
                 /\ \A i \in (nodes'[n].spans.bytes.start + 1)..nodes'[n].spans.bytes.end :
                       ideal'[n][i] = n
                 /\ TableAligned(Lookup(n), n, nodes[n].spans.bytes.start)'
  <1>0. TypeOK /\ EntriesOlder /\ n \in 0..Len(nodes)
    BY AnywhereOlder, Doc
  <1>1. nodes'[n] = nodes[n] /\ ideal'[n] = ideal[n] /\ Lookup(n)' = Lookup(n)
    BY <1>0, KeepsReach DEF Keeps
  <1>2. PICK l, s, len : l = Lookup(n) /\ s = nodes[n].spans.bytes.start /\ len = Len(ideal[n])
    OBVIOUS
  <1>3. l = Lookup(n)' /\ s = nodes'[n].spans.bytes.start /\ len = Len(ideal'[n])
    BY <1>1, <1>2
  <1>4. /\ nodes[n].spans.bytes.start < nodes[n].spans.bytes.end
        /\ nodes[n].spans.bytes.end <= Len(ideal[n])
        /\ ideal[n] \in Seq(1..n)
        /\ TableReaches(l, s, len)
        /\ \A k \in DOMAIN Lookup(n) : Lookup(n)[k].target < n
    BY <1>2 DEF AnywhereInv, UploadedReach
  <1>5. TableReaches(l, s, len)'
    BY <1>0, <1>4, KeepsReach
  <1>6. TableReaches(Lookup(n), nodes[n].spans.bytes.start, Len(ideal[n]))'
    BY <1>3, <1>5
  <1>7. ASSUME Uncut(n)'
        PROVE  /\ \A i \in (nodes[n].spans.bytes.start + 1)..nodes[n].spans.bytes.end :
                     ideal[n][i] = n
               /\ TableAligned(Lookup(n), n, nodes[n].spans.bytes.start)'
    <2>1. Uncut(n)
      BY <1>0, <1>7, KeepsAligned
    <2>2. TableAligned(l, n, s) /\ InIds(l)
      BY <1>0, <1>2, <2>1 DEF AnywhereInv, UploadedAligned, InIds, EntriesOlder
    <2>3. TableAligned(l, n, s)'
      BY <1>0, <2>2, KeepsAligned
    <2>4. TableAligned(Lookup(n), n, nodes[n].spans.bytes.start)'
      BY <1>3, <2>3
    <2> QED BY <2>1, <2>4 DEF AnywhereInv, UploadedAligned
  <1> QED BY <1>1, <1>4, <1>6, <1>7

\* When there is no new document, the documents are what they were.
LEMMA SameDocuments ==
    ASSUME AnywhereInv, UNCHANGED <<nodes, ideal>>
    PROVE  Keeps /\ UploadedReach' /\ UploadedAligned'
  <1>1. Ids' = Ids /\ Keeps
    BY DEF Ids, Keeps
  <1> QED BY <1>1, KeepsDocument DEF UploadedReach, UploadedAligned

----------------------------------------------------------------------------
(* Writes anywhere: the start of a write.                                  *)

LEMMA TailFacts ==
    ASSUME AnywhereInv
    PROVE  /\ tail = 0 => IdealOf(tail) = <<>> /\ End("bytes") = 0
           /\ tail # 0 => /\ tail \in Ids /\ tail \in 1..Len(nodes)
                          /\ IdealOf(tail) = ideal[tail] /\ SpansOf(tail) = nodes[tail].spans
                          /\ End("bytes") = nodes[tail].spans.bytes.end
  <1>1. CASE tail = 0
    BY <1>1 DEF IdealOf, End, SpansOf, FreshSpans, Interval
  <1>2. CASE tail # 0
    BY <1>2 DEF AnywhereInv, TypeOK, Ids, IdealOf, SpansOf, End
  <1> QED BY <1>1, <1>2

\* The numbers of a document.
LEMMA Bounds ==
    ASSUME AnywhereInv, NEW n \in Ids
    PROVE  /\ nodes[n].spans.bytes.start \in Nat /\ nodes[n].spans.bytes.end \in Nat
           /\ nodes[n].spans.bytes.start < nodes[n].spans.bytes.end
           /\ nodes[n].spans.bytes.end <= Len(ideal[n]) /\ Len(ideal[n]) \in Nat
           /\ ideal[n] \in Seq(1..n) /\ IdealOf(n) = ideal[n] /\ n \in Nat \ {0}
           /\ Lookup(n) \in Seq(Entries)
           /\ TypeOK /\ EntriesOlder
  <1>1. TypeOK /\ EntriesOlder /\ "bytes" \in SpanNames
    BY AnywhereOlder DEF SpanNames
  <1>2. nodes[n].spans.bytes.start \in Nat /\ nodes[n].spans.bytes.end \in Nat
    BY <1>1, Doc, SpanFields
  <1>3. ideal[n] \in Seq(1..n)
    BY DEF AnywhereInv, UploadedReach
  <1> QED BY <1>1, <1>2, <1>3, Doc DEF AnywhereInv, UploadedReach

\* A document reaches every byte before its end.
LEMMA ReachesBefore ==
    ASSUME AnywhereInv, NEW n \in Ids, NEW o \in 0..(nodes[n].spans.bytes.end - 1)
    PROVE  Reaches(n, o)
  <1>1. CASE o < nodes[n].spans.bytes.start
    <2>1. o \in 0..(nodes[n].spans.bytes.start - 1)
      BY <1>1, Bounds
    <2>2. TableReaches(Lookup(n), nodes[n].spans.bytes.start, Len(ideal[n]))
      BY DEF AnywhereInv, UploadedReach
    <2> QED BY <2>1, <2>2 DEF TableReaches, Reaches
  <1>2. CASE o >= nodes[n].spans.bytes.start
    <2>1. SpansOf(n) = nodes[n].spans /\ o < nodes[n].spans.bytes.end
      BY Bounds, Doc
    <2> QED BY <1>2, <2>1 DEF Reaches, Holds
  <1> QED BY <1>1, <1>2, Bounds

\* Documents as old as n: their blocks start no later, in no longer a content.
Within(n) ==
    {m \in Ids : /\ nodes[m].spans.bytes.start <= nodes[n].spans.bytes.start
                 /\ Len(ideal[m]) <= Len(ideal[n])}

LEMMA WithinClosed ==
    ASSUME AnywhereInv, NEW n \in Ids
    PROVE  Closed(Within(n)) /\ n \in Within(n)
  <1>1. n \in Within(n)
    BY Bounds DEF Within
  <1>2. ASSUME NEW m \in Within(n), NEW k \in DOMAIN Lookup(m)
        PROVE  Lookup(m)[k].target \in Within(n)
    <2>1. m \in Ids /\ EntryReaches(Lookup(m)[k], nodes[m].spans.bytes.start, Len(ideal[m]))
      BY DEF AnywhereInv, UploadedReach, TableReaches, Within
    <2> DEFINE t == Lookup(m)[k].target
    <2>2. /\ t \in Ids
          /\ nodes[t].spans.bytes.start <= nodes[m].spans.bytes.start
          /\ Len(ideal[t]) <= Len(ideal[m])
      BY <2>1 DEF EntryReaches
    <2> HIDE DEF t
    <2>3. \A d \in Ids : nodes[d].spans.bytes.start \in Nat /\ Len(ideal[d]) \in Nat
      BY Bounds
    <2>4. m \in Ids /\ nodes[m].spans.bytes.start <= nodes[n].spans.bytes.start
          /\ Len(ideal[m]) <= Len(ideal[n])
      BY DEF Within
    <2>5. nodes[t].spans.bytes.start <= nodes[n].spans.bytes.start /\ Len(ideal[t]) <= Len(ideal[n])
      BY <2>2, <2>3, <2>4
    <2>6. t \in Within(n)
      BY <2>2, <2>5 DEF Within
    <2> QED BY <2>6 DEF t
  <1> QED BY <1>1, <1>2 DEF Closed, Within

\* What agrees with a document that agrees with n, agrees with n.
LEMMA AgreesAgain ==
    ASSUME NEW n, NEW m, NEW t, NEW s \in Nat, NEW r \in Nat,
           Agrees(m, n, s), r <= s, Agrees(t, m, r)
    PROVE  Agrees(t, n, r)
  <1>1. \A i \in 1..r : i \in 1..s
    OBVIOUS
  <1> QED BY <1>1 DEF Agrees

\* A block that ends in m ends in n, if they agree.
LEMMA BlockEndAgain ==
    ASSUME AnywhereInv, NEW n \in Ids, NEW m \in Ids, NEW s \in Nat, NEW r \in Nat,
           Agrees(m, n, s), s <= Len(ideal[n]), r <= s, BlockEnd(m, r)
    PROVE  BlockEnd(n, r)
  <1> SUFFICES ASSUME r # 0
               PROVE r \in DOMAIN IdealOf(n) /\ nodes[IdealOf(n)[r]].spans.bytes.end = r
    BY DEF BlockEnd
  <1>1. /\ ideal[n] \in Seq(1..n) /\ IdealOf(n) = ideal[n] /\ Len(ideal[n]) \in Nat
        /\ \A i \in 1..s : IdealOf(n)[i] = IdealOf(m)[i]
        /\ nodes[IdealOf(m)[r]].spans.bytes.end = r
    BY Bounds DEF Agrees, BlockEnd
  <1>2. r \in 1..s /\ r \in 1..Len(ideal[n])
    BY <1>1
  <1> QED BY <1>1, <1>2

\* how far an entry is followed into its document
LEMMA EntryEndIs ==
    ASSUME AnywhereInv, NEW e \in Entries, e.target \in Ids
    PROVE  LET own == nodes[e.target].spans.bytes
           IN /\ EntryEnd(e) \in Nat /\ own.start <= EntryEnd(e) /\ EntryEnd(e) <= own.end
              /\ e.spans.bytes.end \in Nat /\ e.spans.bytes.start \in Nat
              /\ e.spans.bytes.end <= own.end => e.spans.bytes.end <= EntryEnd(e)
              /\ own.start < e.spans.bytes.end => EntryEnd(e) = own.end
  <1>1. /\ nodes[e.target].spans.bytes.start \in Nat /\ nodes[e.target].spans.bytes.end \in Nat
        /\ nodes[e.target].spans.bytes.start < nodes[e.target].spans.bytes.end
    BY Bounds
  <1>2. e.spans.bytes.end \in Nat /\ e.spans.bytes.start \in Nat
    BY DEF Entries, Spans, Span
  <1> QED BY <1>1, <1>2 DEF EntryEnd

\* An entry of a document is good for a block after it, if they agree.
LEMMA AlignedAgain ==
    ASSUME AnywhereInv, NEW n \in Ids, NEW m \in Ids, NEW a \in Nat, NEW s \in Nat,
           a <= s, a <= Len(ideal[n]), Agrees(m, n, a),
           NEW e \in Entries, e.target \in Ids, e.spans.bytes.start <= a, EntryAligned(e, m, a)
    PROVE  EntryAligned(e, n, s)
  <1>1. /\ e.spans.bytes.end <= nodes[e.target].spans.bytes.end
        /\ EntryEnd(e) <= a
        /\ Agrees(e.target, m, EntryEnd(e))
        /\ BlockEnd(m, e.spans.bytes.start)
    BY DEF EntryAligned
  <1>2. EntryEnd(e) \in Nat /\ e.spans.bytes.start \in Nat
    BY EntryEndIs
  <1>3. Agrees(e.target, n, EntryEnd(e))
    BY <1>1, <1>2, AgreesAgain
  <1>4. BlockEnd(n, e.spans.bytes.start)
    BY <1>1, <1>2, BlockEndAgain
  <1>5. EntryEnd(e) <= s
    BY <1>1, <1>2
  <1> QED BY <1>1, <1>3, <1>4, <1>5 DEF EntryAligned

\* Documents before n, with their content in that of n up to their blocks.
Agreeing(n) ==
    {m \in Ids : /\ m <= n
                 /\ nodes[m].spans.bytes.start <= nodes[n].spans.bytes.start
                 /\ Agrees(m, n, nodes[m].spans.bytes.start)}

LEMMA AgreeingClosed ==
    ASSUME AnywhereInv, NEW n \in Ids, Uncut(n)
    PROVE  Closed(Agreeing(n)) /\ n \in Agreeing(n)
  <1>1. n \in Agreeing(n)
    BY Bounds DEF Agreeing, Agrees
  <1>2. ASSUME NEW m \in Agreeing(n), NEW k \in DOMAIN Lookup(m)
        PROVE  Lookup(m)[k].target \in Agreeing(n)
    <2> DEFINE e == Lookup(m)[k]
               t == e.target
               a == nodes[m].spans.bytes.start
               c == nodes[t].spans.bytes.start
    <2>1. m \in Ids /\ m \in Nat /\ n \in Nat /\ m <= n /\ Agrees(m, n, a)
          /\ a <= nodes[n].spans.bytes.start /\ a \in Nat /\ nodes[n].spans.bytes.start \in Nat
      BY Bounds DEF Agreeing
    <2>2. Uncut(m)
      BY <2>1 DEF Uncut
    <2>3. EntryAligned(e, m, a)
      BY <2>1, <2>2 DEF AnywhereInv, UploadedAligned, TableAligned
    <2>4. t \in Ids /\ t < m /\ t \in Nat /\ e \in Entries /\ c \in Nat
      <3>1. t \in Ids /\ t < m
        BY <2>1, Bounds DEF EntriesOlder
      <3>2. Lookup(m) \in Seq(Entries)
        BY <2>1, Bounds
      <3> QED BY <3>1, <3>2, Bounds
    <2>5. EntryEnd(e) \in Nat /\ c <= EntryEnd(e) /\ EntryEnd(e) <= a /\ Agrees(t, m, EntryEnd(e))
      BY <2>3, <2>4, EntryEndIs DEF EntryAligned
    <2> HIDE DEF e, a, c, t
    <2>6. c <= a /\ c <= nodes[n].spans.bytes.start
      BY <2>1, <2>4, <2>5
    <2>7. Agrees(t, n, c)
      <3>1. Agrees(t, m, c)
        BY <2>4, <2>5 DEF Agrees
      <3> QED BY <2>1, <2>4, <2>6, <3>1, AgreesAgain
    <2>8. t <= n
      BY <2>1, <2>4
    <2> QED BY <2>4, <2>6, <2>7, <2>8 DEF Agreeing, c, t, e
  <1> QED BY <1>1, <1>2 DEF Closed, Agreeing

\* The block get_node finds a byte in is all there in the content.
LEMMA FoundIsThere ==
    ASSUME AnywhereInv, NEW n \in Ids, Uncut(n), NEW o \in Nat, NEW at,
           at = GetNode(n, "bytes", o), at.node # 0
    PROVE  LET end == nodes[at.node].spans.bytes.end
           IN /\ at.node \in Ids /\ Holds(nodes[at.node].spans, "bytes", o)
              /\ end <= nodes[n].spans.bytes.end /\ Agrees(at.node, n, end)
  <1>1. TypeOK /\ EntriesOlder /\ "bytes" \in SpanNames
    BY AnywhereOlder DEF SpanNames
  <1>2. Closed(Agreeing(n)) /\ n \in Agreeing(n)
    BY AgreeingClosed
  <1>3. /\ at.node \in Agreeing(n) /\ Holds(nodes[at.node].spans, "bytes", o)
        /\ at = Found(n, nodes[n].spans) \/ FoundIn(Agreeing(n), at, "bytes", o)
    BY <1>1, <1>2, SearchStays
  <1>4. CASE at = Found(n, nodes[n].spans)
    <2>1. at.node = n
      BY <1>4 DEF Found
    <2> QED BY <1>3, <2>1, Bounds DEF Agrees
  <1>5. CASE FoundIn(Agreeing(n), at, "bytes", o)
    <2>1. PICK m \in Agreeing(n) : \E k \in DOMAIN Lookup(m) :
             /\ at = Found(Lookup(m)[k].target, Lookup(m)[k].spans)
             /\ Holds(Lookup(m)[k].spans, "bytes", o)
      BY <1>5 DEF FoundIn
    <2>2. PICK k \in DOMAIN Lookup(m) : /\ at = Found(Lookup(m)[k].target, Lookup(m)[k].spans)
                                        /\ Holds(Lookup(m)[k].spans, "bytes", o)
      BY <2>1
    <2>3. PICK e, t, a : e = Lookup(m)[k] /\ t = at.node /\ a = nodes[m].spans.bytes.start
      OBVIOUS
    <2>4. /\ m \in Ids /\ m \in Nat /\ n \in Nat /\ m <= n /\ Agrees(m, n, a)
          /\ a <= nodes[n].spans.bytes.start /\ a \in Nat
          /\ nodes[n].spans.bytes.start \in Nat /\ nodes[n].spans.bytes.end \in Nat
          /\ nodes[n].spans.bytes.start < nodes[n].spans.bytes.end
          /\ Lookup(m) \in Seq(Entries)
      BY <2>3, Bounds DEF Agreeing
    <2>5. e \in Entries /\ e.target = t /\ t \in Ids /\ Holds(e.spans, "bytes", o)
          /\ Holds(nodes[t].spans, "bytes", o)
      BY <1>3, <2>2, <2>3, <2>4 DEF Found, Agreeing
    <2>6. EntryAligned(e, m, a)
      <3>1. Uncut(m)
        BY <2>4 DEF Uncut
      <3> QED BY <2>3, <2>4, <3>1 DEF AnywhereInv, UploadedAligned, TableAligned
    <2>7. EntryEnd(e) = nodes[t].spans.bytes.end /\ EntryEnd(e) \in Nat
      <3>1. nodes[t].spans.bytes.start \in Nat /\ e.spans.bytes.end \in Nat
        BY <2>5, Bounds, EntryEndIs
      <3>2. nodes[t].spans.bytes.start < e.spans.bytes.end
        BY <2>5, <3>1 DEF Holds
      <3> QED BY <2>5, <3>2, EntryEndIs
    <2>8. EntryEnd(e) <= a /\ Agrees(t, m, EntryEnd(e))
      BY <2>5, <2>6 DEF EntryAligned
    <2>9. Agrees(t, n, EntryEnd(e))
      BY <2>4, <2>7, <2>8, AgreesAgain
    <2>10. EntryEnd(e) <= nodes[n].spans.bytes.end
      BY <2>4, <2>7, <2>8
    <2> QED BY <2>3, <2>5, <2>7, <2>9, <2>10
  <1> QED BY <1>3, <1>4, <1>5

\* The document of the byte before a write that follows what the tail reaches.
LEMMA PrecedingIs ==
    ASSUME AnywhereInv, tail \in Ids, NEW s \in Nat \ {0}, Reaches(tail, s - 1)
    PROVE  /\ Preceding(s) \in Within(tail)
           /\ Holds(nodes[Preceding(s)].spans, "bytes", s - 1)
  <1>1. s - 1 \in Nat /\ "bytes" \in SpanNames /\ TypeOK /\ EntriesOlder
    BY AnywhereOlder DEF SpanNames
  <1>2. Preceding(s) = GetNode(tail, "bytes", s - 1).node
    BY DEF Preceding
  <1>3. GetNode(tail, "bytes", s - 1).node # 0
    BY <1>1, ReachedIsFound
  <1>4. PICK n \in Ids : n = tail
    OBVIOUS
  <1>5. Closed(Within(n)) /\ n \in Within(n)
    BY WithinClosed
  <1> QED BY <1>1, <1>2, <1>3, <1>4, <1>5, SearchStays

\* It ends where the write starts, if a block of the tail's content does.
LEMMA PrecedingEnds ==
    ASSUME AnywhereInv, tail \in Ids, Uncut(Len(nodes)), NEW s \in Nat \ {0},
           s <= nodes[tail].spans.bytes.end, BlockEnd(tail, s)
    PROVE  /\ Preceding(s) \in Ids
           /\ nodes[Preceding(s)].spans.bytes.end = s
           /\ Agrees(Preceding(s), tail, s)
  <1>1. PICK n \in Ids : n = tail
    OBVIOUS
  <1>2. "bytes" \in SpanNames /\ TypeOK /\ EntriesOlder
    BY AnywhereOlder DEF SpanNames
  <1>3. Uncut(n)
    BY <1>2, Doc DEF Uncut, Ids
  <1>4. s - 1 \in 0..(nodes[n].spans.bytes.end - 1) /\ (s - 1) + 1 = s
    BY <1>1, Bounds
  <1>5. Preceding(s) = GetNode(n, "bytes", s - 1).node
    BY <1>1 DEF Preceding
  <1>6. GetNode(n, "bytes", s - 1).node = ideal[n][(s - 1) + 1]
    BY <1>3, <1>4, FindsWritten
  <1>7. GetNode(n, "bytes", s - 1).node # 0
    BY <1>4, ReachesBefore, ReachedIsFound
  <1>8. /\ Preceding(s) \in Ids
        /\ Agrees(Preceding(s), n, nodes[Preceding(s)].spans.bytes.end)
    <2>1. s - 1 \in Nat
      OBVIOUS
    <2> QED BY <1>3, <1>5, <1>7, <2>1, FoundIsThere
  <1>9. nodes[Preceding(s)].spans.bytes.end = s
    BY <1>1, <1>4, <1>5, <1>6, Bounds DEF BlockEnd
  <1> QED BY <1>1, <1>8, <1>9

\* The table a write starts from: it reaches what comes before the write,
LEMMA InitialTable ==
    ASSUME AnywhereInv, NEW n \in Ids, NEW p \in Within(n), NEW s \in Nat \ {0},
           Holds(nodes[p].spans, "bytes", s - 1)
    PROVE  /\ InitialLookup(p) \in Seq(Entries)
           /\ TableReaches(InitialLookup(p), s, Len(ideal[n]))
           /\ ReachesTable(p, InitialLookup(p))
  <1> DEFINE own == [target |-> p, spans |-> nodes[p].spans, depth |-> 0]
             old == Lookup(p)
             l == Append(old, own)
             a == nodes[p].spans.bytes.start
             b == nodes[p].spans.bytes.end
             len == Len(ideal[n])
  <1>1. /\ p \in Ids /\ p \in Nat \ {0} /\ nodes[p].spans \in Spans /\ TypeOK
        /\ SpansOf(p) = nodes[p].spans /\ Lookup(p) = nodes[p].lookup
        /\ Len(ideal[p]) <= len
    BY Bounds, Doc DEF Within
  <1>2. /\ a \in Nat /\ b \in Nat /\ a < b /\ b <= Len(ideal[p]) /\ Len(ideal[p]) \in Nat
        /\ len \in Nat /\ old \in Seq(Entries)
    BY <1>1, Bounds
  <1>3. a <= s - 1 /\ s - 1 < b
    BY DEF Holds
  <1>4. own \in Entries /\ own.target = p /\ own.spans = nodes[p].spans
    BY <1>1 DEF Entries
  <1>5. InitialLookup(p) = l
    BY <1>1 DEF InitialLookup
  <1>6. TableReaches(old, a, Len(ideal[p]))
    BY <1>1 DEF AnywhereInv, UploadedReach
  <1> HIDE DEF own, old
  <1>7. /\ l \in Seq(Entries)
        /\ DOMAIN l = 1..(Len(old) + 1) /\ DOMAIN old = 1..Len(old) /\ Len(old) \in Nat
        /\ \A k \in DOMAIN old : k \in DOMAIN l /\ l[k] = old[k]
        /\ Len(old) + 1 \in DOMAIN l /\ l[Len(old) + 1] = own
        /\ \A k \in DOMAIN l : k \in DOMAIN old \/ k = Len(old) + 1
    BY <1>2, <1>4, Appended
  <1> HIDE DEF l
  <1>8. ASSUME NEW o \in 0..(s - 1) PROVE \E k \in DOMAIN l : Holds(l[k].spans, "bytes", o)
    <2>1. CASE o < a
      <3>1. o \in 0..(a - 1)
        BY <1>2, <2>1
      <3>2. \E k \in DOMAIN old : Holds(old[k].spans, "bytes", o)
        BY <1>6, <3>1 DEF TableReaches
      <3> QED BY <1>7, <3>2
    <2>2. CASE o >= a
      <3>1. Holds(own.spans, "bytes", o)
        BY <1>2, <1>3, <1>4, <2>2 DEF Holds
      <3> QED BY <1>7, <3>1
    <2> QED BY <1>2, <2>1, <2>2
  <1>9. ASSUME NEW k \in DOMAIN l
        PROVE  /\ EntryReaches(l[k], s, len)
               /\ \A o \in l[k].spans.bytes.start..(l[k].spans.bytes.end - 1) : Reaches(p, o)
    <2>1. CASE k \in DOMAIN old
      <3> DEFINE e == old[k]
      <3>1. EntryReaches(e, a, Len(ideal[p])) /\ l[k] = e
        BY <1>6, <1>7, <2>1 DEF TableReaches
      <3>2. /\ e.target \in Ids
            /\ nodes[e.target].spans.bytes.start <= a
            /\ Len(ideal[e.target]) <= Len(ideal[p])
            /\ e.spans.bytes.start <= a
            /\ e.spans.bytes.start < e.spans.bytes.end
            /\ e.spans.bytes.end <= Len(ideal[p])
            /\ \A o \in e.spans.bytes.start..(e.spans.bytes.end - 1) : Reaches(e.target, o)
        BY <3>1 DEF EntryReaches
      <3>3. /\ e.spans.bytes.start \in Nat /\ e.spans.bytes.end \in Nat
            /\ nodes[e.target].spans.bytes.start \in Nat /\ Len(ideal[e.target]) \in Nat
        BY <1>2, <2>1, <3>2, EntrySpan, Bounds DEF SpanNames
      <3> HIDE DEF e
      <3>4. EntryReaches(e, s, len)
        <4>1. /\ nodes[e.target].spans.bytes.start <= s /\ Len(ideal[e.target]) <= len
              /\ e.spans.bytes.start <= s /\ e.spans.bytes.end <= len
          <5> DEFINE x == nodes[e.target].spans.bytes.start
                     y == e.spans.bytes.start
                     c == Len(ideal[e.target])
                     d == Len(ideal[p])
                     z == e.spans.bytes.end
          <5>1. /\ x \in Nat /\ y \in Nat /\ c \in Nat /\ d \in Nat /\ z \in Nat
                /\ a \in Nat /\ len \in Nat /\ a <= s - 1
                /\ x <= a /\ y <= a /\ c <= d /\ d <= len /\ z <= d
            BY <1>1, <1>2, <1>3, <3>2, <3>3
          <5> HIDE DEF x, y, c, d, z, a, len
          <5>2. x <= s /\ y <= s /\ c <= len /\ z <= len
            BY <5>1
          <5> QED BY <5>2 DEF x, y, c, z
        <4> QED BY <3>2, <4>1 DEF EntryReaches
      <3>5. ASSUME NEW o \in e.spans.bytes.start..(e.spans.bytes.end - 1) PROVE Reaches(p, o)
        <4>1. Holds(old[k].spans, "bytes", o)
          BY <3>3 DEF Holds, e
        <4> QED BY <2>1, <4>1 DEF Reaches, old
      <3> QED BY <3>1, <3>4, <3>5
    <2>2. CASE k = Len(old) + 1
      <3>1. l[k] = own
        BY <1>7, <2>2
      <3>2. ASSUME NEW o \in a..(b - 1) PROVE Reaches(p, o)
        BY <1>1, <1>2 DEF Reaches, Holds
      <3>3. EntryReaches(own, s, len)
        <4>1. a <= s /\ b <= len
          BY <1>1, <1>2, <1>3
        <4> QED BY <1>1, <1>2, <1>4, <3>2, <4>1 DEF EntryReaches
      <3> QED BY <1>4, <3>1, <3>2, <3>3
    <2> QED BY <1>7, <2>1, <2>2
  <1> QED BY <1>5, <1>7, <1>8, <1>9 DEF TableReaches, ReachesTable

\* and its entries are good for the block, if that starts where one ends.
LEMMA InitialAligned ==
    ASSUME AnywhereInv, Uncut(Len(nodes)), NEW n \in Ids, NEW p \in Ids, NEW s \in Nat,
           nodes[p].spans.bytes.end = s, s <= nodes[n].spans.bytes.end, BlockEnd(n, s),
           Agrees(p, n, s)
    PROVE  /\ TableAligned(InitialLookup(p), n, s)
           /\ \A k \in DOMAIN InitialLookup(p) : InitialLookup(p)[k].spans.bytes.end <= s
  <1> DEFINE own == [target |-> p, spans |-> nodes[p].spans, depth |-> 0]
             old == Lookup(p)
             l == Append(old, own)
             a == nodes[p].spans.bytes.start
  <1>1. /\ p \in Nat \ {0} /\ nodes[p].spans \in Spans /\ TypeOK /\ EntriesOlder
        /\ Lookup(p) = nodes[p].lookup /\ old \in Seq(Entries)
        /\ a \in Nat /\ a < s /\ a <= s /\ s <= Len(ideal[n]) /\ a <= Len(ideal[n])
    <2>1. /\ a \in Nat /\ a < s /\ nodes[n].spans.bytes.end \in Nat
          /\ nodes[n].spans.bytes.end <= Len(ideal[n]) /\ Len(ideal[n]) \in Nat
      BY Bounds
    <2>2. s <= Len(ideal[n]) /\ a <= s /\ a <= Len(ideal[n])
      BY <2>1
    <2> QED BY <2>1, <2>2, Bounds, Doc
  <1>2. own \in Entries /\ own.target = p /\ own.spans = nodes[p].spans
    BY <1>1 DEF Entries
  <1>3. InitialLookup(p) = l
    BY <1>1 DEF InitialLookup
  <1>4. Uncut(p)
    BY <1>1, Doc DEF Uncut, Ids
  <1>5. TableAligned(old, p, a) /\ BlockEnd(p, a)
    <2>1. p \in 1..p
      BY <1>1
    <2> QED BY <1>4, <2>1 DEF AnywhereInv, UploadedAligned, Uncut
  <1> HIDE DEF own, old
  <1>7. /\ \A k \in DOMAIN old : l[k] = old[k]
        /\ l[Len(old) + 1] = own
        /\ \A k \in DOMAIN l : k \in DOMAIN old \/ k = Len(old) + 1
    <2>1. DOMAIN old = 1..Len(old) /\ Len(old) \in Nat
      BY <1>1
    <2> QED BY <1>1, <1>2, <2>1, Appended
  <1> HIDE DEF l, a
  <1>8. BlockEnd(n, a) /\ Agrees(p, n, a)
    BY <1>1, <1>5, BlockEndAgain DEF Agrees
  <1>9. ASSUME NEW k \in DOMAIN l
        PROVE  EntryAligned(l[k], n, s) /\ l[k].spans.bytes.end <= s
    <2>1. CASE k \in DOMAIN old
      <3>1. PICK e : e = old[k]
        OBVIOUS
      <3>2. e \in Entries /\ e.target \in Ids /\ EntryAligned(e, p, a)
        BY <1>1, <1>5, <2>1, <3>1 DEF EntriesOlder, TableAligned, old
      <3>3. e.spans.bytes.start <= a
        <4>1. EntryReaches(e, a, Len(ideal[p]))
          BY <2>1, <3>1 DEF AnywhereInv, UploadedReach, TableReaches, old, a
        <4> QED BY <4>1 DEF EntryReaches
      <3>4. EntryAligned(e, n, s)
        BY <1>1, <1>8, <3>2, <3>3, AlignedAgain
      <3>5. e.spans.bytes.end <= s
        <4>1. /\ e.spans.bytes.end \in Nat /\ EntryEnd(e) \in Nat
              /\ e.spans.bytes.end <= EntryEnd(e) /\ EntryEnd(e) <= a
          BY <3>2, EntryEndIs DEF EntryAligned
        <4> QED BY <1>1, <4>1
      <3> QED BY <1>7, <2>1, <3>1, <3>4, <3>5
    <2>2. CASE k = Len(old) + 1
      <3>1. l[k] = own /\ own.spans.bytes.end = s /\ own.spans.bytes.start = a
        BY <1>2, <1>7, <2>2 DEF a
      <3>2. EntryEnd(own) = s
        BY <1>1, <1>2, <3>1 DEF EntryEnd, a
      <3>3. EntryAligned(own, n, s)
        BY <1>1, <1>2, <1>8, <3>1, <3>2 DEF EntryAligned
      <3> QED BY <1>1, <3>1, <3>3
    <2> QED BY <1>7, <2>1, <2>2
  <1> QED BY <1>3, <1>9 DEF TableAligned

\* What the invariant says of the document before the write.
PrecedingReaches(p, l, s, len) ==
    /\ p \in Ids
    /\ nodes[p].spans.bytes.start <= s
    /\ Len(ideal[p]) <= len
    /\ writer' = "merging" => ReachesTable(p, l)

\* It is enough to look at the table with the documents before the step,
LEMMA WriterReachesAgain ==
    ASSUME AnywhereInv, Keeps, tail' = tail,
           spans'.bytes.start < spans'.bytes.end, spans'.bytes.start <= Len(IdealOf(tail)),
           TableReaches(lookup_nodes', spans'.bytes.start, Len(IdealOf(tail))),
           \A k \in DOMAIN head' : EntryReaches(head'[k], spans'.bytes.start, Len(IdealOf(tail))),
           IF preceding' = 0 THEN lookup_nodes' = <<>> /\ head' = <<>>
           ELSE PrecedingReaches(preceding', lookup_nodes', spans'.bytes.start, Len(IdealOf(tail)))
    PROVE  WriterReaches'
  <1>1. PICK l, h, p, s, len : /\ l = lookup_nodes' /\ h = head' /\ p = preceding'
                               /\ s = spans'.bytes.start /\ len = Len(IdealOf(tail))
    OBVIOUS
  <1>2. len = Len(IdealOf(tail))'
    <2>1. CASE tail = 0
      BY <1>1, <2>1 DEF IdealOf
    <2>2. CASE tail # 0
      BY <1>1, <2>2, TailFacts DEF IdealOf, Keeps
    <2> QED BY <2>1, <2>2
  <1>3. TypeOK /\ TableReaches(l, s, len) /\ \A k \in DOMAIN h : EntryReaches(h[k], s, len)
    BY <1>1 DEF AnywhereInv
  <1>4. TableReaches(l, s, len)'
    BY <1>3, KeepsReach
  <1>5. TableReaches(lookup_nodes, spans.bytes.start, Len(IdealOf(tail)))'
    BY <1>1, <1>2, <1>4
  <1>6. ASSUME NEW k \in DOMAIN head'
        PROVE  EntryReaches(head[k], spans.bytes.start, Len(IdealOf(tail)))'
    <2>1. PICK e : e = h[k]
      OBVIOUS
    <2>2. EntryReaches(e, s, len)'
      BY <1>1, <1>3, <1>6, <2>1, KeepsReach
    <2>3. e = head'[k]
      BY <1>1, <2>1
    <2> QED BY <1>1, <1>2, <2>2, <2>3
  <1>7. CASE preceding' = 0
    BY <1>1, <1>2, <1>5, <1>6, <1>7 DEF WriterReaches
  <1>8. CASE preceding' # 0
    <2>1. /\ p \in Ids /\ nodes[p].spans.bytes.start <= s /\ Len(ideal[p]) <= len
          /\ writer' = "merging" => ReachesTable(p, l)
      BY <1>1, <1>8 DEF PrecedingReaches
    <2>2. nodes'[p] = nodes[p] /\ ideal'[p] = ideal[p]
      BY <2>1 DEF Keeps
    <2>3. writer' = "merging" => ReachesTable(p, l)'
      BY <1>3, <2>1, KeepsReach
    <2>4. writer' = "merging" => ReachesTable(preceding, lookup_nodes)'
      BY <1>1, <2>3
    <2> QED BY <1>1, <1>2, <1>5, <1>6, <1>8, <2>1, <2>2, <2>4 DEF WriterReaches
  <1> QED BY <1>7, <1>8

PrecedingAgrees(p, l, s) ==
    LET end == nodes[p].spans.bytes.end
    IN /\ p \in Ids
       /\ end <= s
       /\ Agrees(p, tail, end)
       /\ \A k \in DOMAIN l : l[k].spans.bytes.end <= end

\* and at its entries.
LEMMA WriterAlignedAgain ==
    ASSUME AnywhereInv, UNCHANGED <<nodes, ideal, tail>>, InIds(lookup_nodes'), InIds(head'),
           writer' \in {"merging", "uploading"},
           Uncut(Len(nodes)) /\ BlockEnd(tail, spans'.bytes.start) =>
              /\ TableAligned(lookup_nodes', tail, spans'.bytes.start)
              /\ writer' = "merging" =>
                    /\ TableAligned(head', tail, spans'.bytes.start)
                    /\ preceding' # 0 =>
                          PrecedingAgrees(preceding', lookup_nodes', spans'.bytes.start)
    PROVE  WriterAligned'
  <1>1. PICK l, h, p, s, n : /\ l = lookup_nodes' /\ h = head' /\ p = preceding'
                             /\ s = spans'.bytes.start /\ n = tail
    OBVIOUS
  <1>2. /\ Keeps /\ TypeOK /\ n = tail' /\ n \in 0..Len(nodes) /\ InIds(l) /\ InIds(h)
        /\ Len(nodes) \in Nat
    BY <1>1, SameDocuments DEF AnywhereInv, TypeOK
  <1> SUFFICES ASSUME Uncut(Len(nodes))', BlockEnd(tail, spans.bytes.start)'
               PROVE  /\ TableAligned(lookup_nodes, tail, spans.bytes.start)'
                      /\ writer' = "merging" =>
                            /\ TableAligned(head, tail, spans.bytes.start)'
                            /\ preceding' # 0 =>
                                  /\ nodes'[preceding'].spans.bytes.end <= spans'.bytes.start
                                  /\ Agrees(preceding, tail, nodes[preceding].spans.bytes.end)'
                                  /\ \A k \in DOMAIN lookup_nodes' :
                                        lookup_nodes'[k].spans.bytes.end
                                            <= nodes'[preceding'].spans.bytes.end
    BY DEF WriterAligned
  <1>3. Uncut(Len(nodes))
    <2>1. PICK m : m = Len(nodes)
      OBVIOUS
    <2>2. m = Len(nodes') /\ m \in 0..Len(nodes)
      BY <1>2, <2>1
    <2>3. Uncut(m)'
      BY <2>2
    <2> QED BY <2>1, <2>2, <2>3, <1>2, KeepsAligned
  <1>4. BlockEnd(n, s)
    <2>1. BlockEnd(n, s)'
      BY <1>1, <1>2
    <2> QED BY <1>2, <2>1, KeepsAligned
  <1>5. /\ TableAligned(l, n, s)
        /\ writer' = "merging" => TableAligned(h, n, s) /\ (p # 0 => PrecedingAgrees(p, l, s))
    BY <1>1, <1>3, <1>4
  <1>6. TableAligned(l, n, s)' /\ (writer' = "merging" => TableAligned(h, n, s)')
    BY <1>2, <1>5, KeepsAligned
  <1>7. ASSUME writer' = "merging", p # 0
        PROVE  /\ nodes'[p].spans.bytes.end <= s
               /\ Agrees(p, n, nodes[p].spans.bytes.end)'
               /\ \A k \in DOMAIN l : l[k].spans.bytes.end <= nodes'[p].spans.bytes.end
    <2>1. PICK end : end = nodes[p].spans.bytes.end
      OBVIOUS
    <2>2. /\ p \in Ids /\ end <= s /\ Agrees(p, n, end)
          /\ \A k \in DOMAIN l : l[k].spans.bytes.end <= end
      BY <1>1, <1>5, <1>7, <2>1 DEF PrecedingAgrees
    <2>3. Agrees(p, n, end)' /\ nodes'[p].spans.bytes.end = end
      BY <1>2, <2>1, <2>2, KeepsAligned DEF Keeps
    <2>4. Agrees(p, n, nodes[p].spans.bytes.end)'
      BY <2>3
    <2> QED BY <2>2, <2>3, <2>4
  <1> QED BY <1>1, <1>2, <1>6, <1>7

\* A write that begins at "s", with the entry "h" for the beginning of a block.
LEMMA BeginKeeps ==
    ASSUME AnywhereInv, NEW n \in Sizes, NEW s \in Nat, NEW h \in Seq(Entries), Begin(s, n, h),
           s <= Len(IdealOf(tail)),
           IF s = 0 THEN h = <<>> ELSE tail \in Ids /\ Reaches(tail, s - 1),
           \A k \in DOMAIN h : EntryReaches(h[k], s, Len(IdealOf(tail))),
           Uncut(Len(nodes)) /\ BlockEnd(tail, s) =>
              s <= End("bytes") /\ TableAligned(h, tail, s)
    PROVE  AnywhereInv'
  <1> DEFINE p == Preceding(s)
             l == InitialLookup(p)
             len == Len(IdealOf(tail))
  <1>1. PICK t \in 0..MaxTime : clock' = t /\ spans' = NewSpans(s, n, t)
    BY DEF Begin
  <1>2. /\ writer' = "merging" /\ preceding' = p /\ lookup_nodes' = l /\ head' = h /\ index' = 1
        /\ UNCHANGED <<nodes, tail, born, saved, uploads, ideal>>
    BY DEF Begin
  <1>3. TypeOK /\ n \in Nat \ {0} /\ t \in Nat
    BY SkystreamAssumption DEF AnywhereInv
  <1>4. spans' \in Spans /\ spans'.bytes.start = s /\ spans'.bytes.start < spans'.bytes.end
    <2>1. SpansOf(tail) \in Spans
      BY <1>3, SpansOfType DEF TypeOK
    <2>2. End("index") \in Nat /\ End("time") \in Nat
      BY <2>1 DEF End, Spans, Span
    <2> QED BY <1>1, <1>3, <2>2 DEF NewSpans, Interval, Spans, Span
  <1>5. /\ l \in Seq(Entries) /\ p \in 0..Len(nodes)
        /\ TableReaches(l, s, len)
        /\ IF p = 0 THEN l = <<>> /\ h = <<>> ELSE PrecedingReaches(p, l, s, len)
    <2>1. CASE s = 0
      <3>1. p = 0 /\ l = <<>> /\ h = <<>>
        BY <2>1 DEF Preceding, InitialLookup
      <3>2. 0..(s - 1) = {}
        BY <2>1
      <3>3. TableReaches(<<>>, s, len)
        BY <3>2 DEF TableReaches
      <3> HIDE DEF p, l
      <3> QED BY <1>3, <3>1, <3>3 DEF TypeOK
    <2>2. CASE s # 0
      <3>1. PICK m \in Ids : m = tail
        BY <2>2
      <3>2. p \in Within(m) /\ Holds(nodes[p].spans, "bytes", s - 1)
        BY <2>2, <3>1, PrecedingIs
      <3>3. len = Len(ideal[m]) /\ p \in Ids /\ p \in 1..Len(nodes) /\ p # 0
        BY <3>1, <3>2, Bounds DEF Within, Ids
      <3> HIDE DEF p, len
      <3>4. l \in Seq(Entries) /\ TableReaches(l, s, len) /\ ReachesTable(p, l)
        BY <2>2, <3>2, <3>3, InitialTable
      <3>5. nodes[p].spans.bytes.start <= s /\ Len(ideal[p]) <= len
        <4>1. nodes[p].spans.bytes.start <= s - 1 /\ nodes[p].spans.bytes.start \in Nat
          BY <3>2, <3>3, Bounds DEF Holds
        <4> QED BY <3>2, <3>3, <4>1 DEF Within
      <3> QED BY <1>3, <3>3, <3>4, <3>5 DEF PrecedingReaches, TypeOK
    <2> QED BY <2>1, <2>2
  <1>6. Uncut(Len(nodes)) /\ BlockEnd(tail, s) =>
           TableAligned(l, tail, s) /\ (p # 0 => PrecedingAgrees(p, l, s))
    <2> SUFFICES ASSUME Uncut(Len(nodes)), BlockEnd(tail, s)
                 PROVE  TableAligned(l, tail, s) /\ (p # 0 => PrecedingAgrees(p, l, s))
      OBVIOUS
    <2>1. s <= End("bytes")
      OBVIOUS
    <2>2. CASE s = 0
      <3>1. p = 0 /\ l = <<>>
        BY <2>2 DEF Preceding, InitialLookup
      <3>2. TableAligned(<<>>, tail, s)
        BY DEF TableAligned
      <3> HIDE DEF p, l
      <3> QED BY <3>1, <3>2
    <2>3. CASE s # 0
      <3>1. PICK m \in Ids : m = tail
        BY <2>3
      <3>2. s <= nodes[m].spans.bytes.end /\ m # 0
        BY <2>1, <3>1, TailFacts, Bounds
      <3>3. p \in Ids /\ nodes[p].spans.bytes.end = s /\ Agrees(p, m, s)
        BY <2>3, <3>1, <3>2, PrecedingEnds
      <3> HIDE DEF p
      <3>4. TableAligned(l, m, s) /\ \A k \in DOMAIN l : l[k].spans.bytes.end <= s
        BY <3>1, <3>2, <3>3, InitialAligned
      <3> QED BY <3>1, <3>3, <3>4 DEF PrecedingAgrees
    <2> QED BY <2>2, <2>3
  <1> HIDE DEF p, l, len
  <1>7. TypeOK'
    BY <1>1, <1>2, <1>3, <1>4, <1>5 DEF TypeOK
  <1>8. Keeps /\ UploadedReach' /\ UploadedAligned'
    BY <1>2, SameDocuments
  <1>9. WriterReaches'
    BY <1>2, <1>4, <1>5, <1>8, WriterReachesAgain DEF len
  <1>10. WriterAligned'
    <2>1. InIds(l) /\ InIds(h)
      BY <1>5 DEF InIds, TableReaches, EntryReaches
    <2> QED BY <1>2, <1>4, <1>6, <2>1, WriterAlignedAgain
  <1> QED BY <1>7, <1>8, <1>9, <1>10 DEF AnywhereInv

LEMMA AppendKeeps ==
    ASSUME AnywhereInv, NEW n \in Sizes, WriteAppend(n)
    PROVE  AnywhereInv'
  <1>1. PICK s : s = End("bytes")
    OBVIOUS
  <1>2. Begin(s, n, <<>>)
    BY <1>1 DEF WriteAppend, Begin
  <1>5. <<>> \in Seq(Entries) /\ DOMAIN <<>> = {} /\ TableAligned(<<>>, tail, s)
    BY DEF TableAligned
  <1>3. CASE tail = 0
    <2>1. s = 0 /\ s \in Nat /\ s <= Len(IdealOf(tail)) /\ s <= End("bytes")
      BY <1>1, <1>3, TailFacts
    <2> QED BY <1>2, <1>5, <2>1, BeginKeeps
  <1>4. CASE tail # 0
    <2>1. PICK m \in Ids : m = tail
      BY <1>4, TailFacts
    <2>2. /\ s \in Nat \ {0} /\ s <= Len(IdealOf(m)) /\ s = nodes[m].spans.bytes.end
          /\ IdealOf(m) = ideal[m] /\ ideal[m] \in Seq(1..m)
          /\ m \in Nat /\ TypeOK
      <3> DEFINE x == nodes[m].spans.bytes.start
                 y == nodes[m].spans.bytes.end
                 z == Len(ideal[m])
      <3>1. /\ x \in Nat /\ y \in Nat /\ x < y /\ y <= z /\ z \in Nat
            /\ IdealOf(m) = ideal[m] /\ ideal[m] \in Seq(1..m) /\ m \in Nat /\ TypeOK
        BY Bounds
      <3>2. s = y
        BY <1>1, <1>4, <2>1, TailFacts
      <3> HIDE DEF x, y, z
      <3>3. s \in Nat \ {0} /\ s <= z
        BY <3>1, <3>2
      <3> QED BY <3>1, <3>2, <3>3 DEF y, z
    <2>3. Reaches(m, s - 1)
      BY <2>2, ReachesBefore
    <2>5. s <= End("bytes") /\ s <= Len(IdealOf(tail)) /\ s # 0 /\ s \in Nat
      BY <1>1, <2>1, <2>2
    <2>6. tail \in Ids /\ Reaches(tail, s - 1)
      BY <2>1, <2>3
    <2> QED BY <1>2, <1>5, <2>5, <2>6, BeginKeeps
  <1> QED BY <1>3, <1>4

\* The bounds get_node gives start no later than the tail, and where a block
\* of the content ends unless a write began inside one.
LEMMA FoundBounds ==
    ASSUME AnywhereInv, NEW name \in SpanNames, NEW o \in Nat, NEW at,
           at = GetNode(tail, name, o), at.node # 0
    PROVE  LET s == at.bounds.bytes.start
           IN /\ tail \in Ids
              /\ at.node \in Within(tail)
              /\ Holds(nodes[at.node].spans, name, o)
              /\ at.bounds \in Spans
              /\ Holds(at.bounds, name, o)
              /\ s <= nodes[tail].spans.bytes.start
              /\ at.bounds.bytes.end <= Len(ideal[tail])
              /\ \A x \in s..(at.bounds.bytes.end - 1) : Reaches(at.node, x)
              /\ Uncut(Len(nodes)) => BlockEnd(tail, s)
              /\ name = "bytes" /\ o > 0 => Reaches(tail, o - 1)
  <1> DEFINE s == at.bounds.bytes.start
             e == at.bounds.bytes.end
  <1>0. TypeOK /\ EntriesOlder
    BY AnywhereOlder
  <1>1. tail \in Ids
    <2> SUFFICES ASSUME tail = 0 PROVE FALSE
      BY TailFacts
    <2>1. ~Holds(SpansOf(0), name, o)
      <3>1. SpansOf(0)[name].start = SpansOf(0)[name].end /\ SpansOf(0)[name].start \in Nat
        BY <1>0 DEF SpansOf, FreshSpans, Interval, SpanNames, TypeOK
      <3>2. \A a \in Nat : ~(a <= o /\ o < a)
        OBVIOUS
      <3> QED BY <3>1, <3>2 DEF Holds
    <2>2. FirstEntry(0, name, o) = 0
      <3>1. Lookup(0) = <<>> /\ Len(Lookup(0)) = 0
        BY DEF Lookup
      <3> QED BY <3>1, FirstEntryIs
    <2>3. Follow(name, o)[0] = OutOfRange
      <3>1. 0 \in 0..Len(nodes)
        BY <1>0 DEF TypeOK
      <3>2. Follow(name, o)[0] = FollowStep(Follow(name, o), 0, name, o)
        BY <1>0, <3>1, FollowIs
      <3> QED BY <2>2, <3>2 DEF FollowStep
    <2> QED BY <2>1, <2>3, GetNodeFollows DEF OutOfRange, Found
  <1>2. PICK n \in Ids : n = tail
    BY <1>1
  <1>3. /\ nodes[n].spans \in Spans /\ SpansOf(n) = nodes[n].spans
        /\ nodes[n].spans.bytes.start \in Nat /\ nodes[n].spans.bytes.end \in Nat
        /\ nodes[n].spans.bytes.start < nodes[n].spans.bytes.end
        /\ nodes[n].spans.bytes.end <= Len(ideal[n]) /\ Len(ideal[n]) \in Nat
    BY <1>0, Doc, Bounds
  <1>4. at = GetNode(n, name, o)
    BY <1>2
  <1>5. /\ at.node \in Within(n) /\ Holds(nodes[at.node].spans, name, o)
        /\ \/ at = Found(n, nodes[n].spans)
           \/ FoundIn(Within(n), at, name, o) /\ FirstEntry(n, name, o) # 0
    BY <1>0, <1>4, WithinClosed, SearchStays
  <1>6. CASE at = Found(n, nodes[n].spans)
    <2>1. at.node = n /\ at.bounds = nodes[n].spans
      BY <1>6 DEF Found
    <2>2. Uncut(Len(nodes)) => BlockEnd(n, nodes[n].spans.bytes.start)
      <3> SUFFICES ASSUME Uncut(Len(nodes)) PROVE BlockEnd(n, nodes[n].spans.bytes.start)
        OBVIOUS
      <3>1. n \in 1..Len(nodes)
        BY DEF Ids
      <3> QED BY <3>1 DEF Uncut
    <2>3. \A x \in nodes[n].spans.bytes.start..(nodes[n].spans.bytes.end - 1) : Reaches(n, x)
      BY <1>3 DEF Reaches, Holds
    <2>4. name = "bytes" /\ o > 0 => Reaches(n, o - 1)
      <3> SUFFICES ASSUME name = "bytes", o > 0 PROVE Reaches(n, o - 1)
        OBVIOUS
      <3>1. o - 1 \in 0..(nodes[n].spans.bytes.end - 1)
        BY <1>3, <1>5, <2>1 DEF Holds
      <3> QED BY <3>1, ReachesBefore
    <2> QED BY <1>1, <1>2, <1>3, <1>5, <2>1, <2>2, <2>3, <2>4
  <1>7. CASE FoundIn(Within(n), at, name, o) /\ FirstEntry(n, name, o) # 0
    <2>1. PICK m \in Within(n) : \E k \in DOMAIN Lookup(m) :
             /\ at = Found(Lookup(m)[k].target, Lookup(m)[k].spans)
             /\ Holds(Lookup(m)[k].spans, name, o)
      BY <1>7 DEF FoundIn
    <2>2. PICK k \in DOMAIN Lookup(m) : /\ at = Found(Lookup(m)[k].target, Lookup(m)[k].spans)
                                        /\ Holds(Lookup(m)[k].spans, name, o)
      BY <2>1
    <2>3. PICK entry : entry = Lookup(m)[k]
      OBVIOUS
    <2>4. /\ at.node = entry.target /\ at.bounds = entry.spans /\ m \in Ids
          /\ nodes[m].spans.bytes.start <= nodes[n].spans.bytes.start
          /\ Len(ideal[m]) <= Len(ideal[n])
      BY <2>2, <2>3 DEF Found, Within
    <2>5. /\ s \in Nat /\ e \in Nat /\ at.bounds \in Spans
          /\ nodes[m].spans.bytes.start \in Nat /\ Len(ideal[m]) \in Nat
          /\ Lookup(m) \in Seq(Entries)
      BY <2>3, <2>4, Bounds, EntryFields, SpanFields DEF SpanNames
    <2>6. /\ s <= nodes[m].spans.bytes.start /\ e <= Len(ideal[m])
          /\ \A x \in s..(e - 1) : Reaches(at.node, x)
      <3>1. EntryReaches(entry, nodes[m].spans.bytes.start, Len(ideal[m]))
        BY <2>3, <2>4 DEF AnywhereInv, UploadedReach, TableReaches
      <3> QED BY <2>4, <3>1 DEF EntryReaches
    <2>7. s <= nodes[n].spans.bytes.start /\ e <= Len(ideal[n])
      <3> DEFINE a == nodes[m].spans.bytes.start
                 b == nodes[n].spans.bytes.start
                 c == Len(ideal[m])
                 d == Len(ideal[n])
      <3>1. /\ s \in Nat /\ e \in Nat /\ a \in Nat /\ b \in Nat /\ c \in Nat /\ d \in Nat
            /\ s <= a /\ a <= b /\ e <= c /\ c <= d
        BY <1>3, <2>4, <2>5, <2>6
      <3> HIDE DEF s, e, a, b, c, d
      <3>2. s <= b /\ e <= d
        BY <3>1
      <3> QED BY <3>2 DEF b, d
    <2>8. Uncut(Len(nodes)) => BlockEnd(n, s)
      <3> SUFFICES ASSUME Uncut(Len(nodes)) PROVE BlockEnd(n, s)
        OBVIOUS
      <3>1. Uncut(n)
        BY <1>0, Doc DEF Uncut, Ids
      <3>2. FoundIn(Agreeing(n), at, name, o) \/ at = Found(n, nodes[n].spans)
        BY <1>0, <1>4, <3>1, AgreeingClosed, SearchStays
      <3>3. CASE at = Found(n, nodes[n].spans)
        <4>1. n \in 1..Len(nodes)
          BY DEF Ids
        <4> QED BY <3>3, <4>1 DEF Found, Uncut
      <3>4. CASE FoundIn(Agreeing(n), at, name, o)
        <4>1. PICK j \in Agreeing(n) : \E i \in DOMAIN Lookup(j) :
                 at = Found(Lookup(j)[i].target, Lookup(j)[i].spans)
          BY <3>4 DEF FoundIn
        <4>2. PICK i \in DOMAIN Lookup(j) :
                 at = Found(Lookup(j)[i].target, Lookup(j)[i].spans)
          BY <4>1
        <4>3. PICK a : a = nodes[j].spans.bytes.start
          OBVIOUS
        <4>4. /\ s = Lookup(j)[i].spans.bytes.start /\ j \in Ids /\ j <= n
              /\ Agrees(j, n, a) /\ a <= nodes[n].spans.bytes.start /\ a \in Nat
          BY <4>2, <4>3, Bounds DEF Found, Agreeing
        <4>5. Uncut(j)
          BY <3>1, <4>4, Bounds DEF Uncut
        <4>6. BlockEnd(j, s) /\ s <= a
          <5>1. BlockEnd(j, s)
            BY <4>2, <4>4, <4>5 DEF AnywhereInv, UploadedAligned, TableAligned, EntryAligned
          <5>2. s <= a
            BY <4>2, <4>3, <4>4 DEF AnywhereInv, UploadedReach, TableReaches, EntryReaches
          <5> QED BY <5>1, <5>2
        <4>7. a <= Len(ideal[n])
          BY <1>3, <4>4
        <4> HIDE DEF s
        <4> QED BY <2>5, <4>4, <4>6, <4>7, BlockEndAgain DEF s
      <3> QED BY <3>2, <3>3, <3>4
    <2>9. name = "bytes" /\ o > 0 => Reaches(n, o - 1)
      <3> SUFFICES ASSUME name = "bytes", o > 0 PROVE Reaches(n, o - 1)
        OBVIOUS
      <3>1. CASE o <= nodes[n].spans.bytes.start
        <4>1. o - 1 \in 0..(nodes[n].spans.bytes.end - 1)
          BY <1>3, <3>1
        <4> QED BY <4>1, ReachesBefore
      <3>2. CASE o > nodes[n].spans.bytes.start
        <4> DEFINE f == Lookup(n)[FirstEntry(n, name, o)]
        <4>1. FirstEntry(n, name, o) \in DOMAIN Lookup(n) /\ Holds(f.spans, name, o)
          BY <1>7, Bounds, FirstEntryIs
        <4>2. f.spans.bytes.start <= nodes[n].spans.bytes.start
          BY <4>1 DEF AnywhereInv, UploadedReach, TableReaches, EntryReaches
        <4>3. f.spans.bytes.start \in Nat /\ f.spans.bytes.end \in Nat
          BY <4>1, Bounds, EntrySpan DEF SpanNames
        <4> HIDE DEF f
        <4>4. Holds(f.spans, "bytes", o - 1)
          BY <1>3, <3>2, <4>1, <4>2, <4>3 DEF Holds
        <4> QED BY <4>1, <4>4 DEF Reaches, f
      <3> QED BY <1>3, <3>1, <3>2
    <2> QED BY <1>1, <1>2, <1>5, <2>2, <2>3, <2>4, <2>5, <2>6, <2>7, <2>8, <2>9
  <1> QED BY <1>5, <1>6, <1>7

LEMMA OverKeeps ==
    ASSUME AnywhereInv, NEW name \in SpanNames, NEW o \in Offsets, NEW n \in Sizes,
           WriteOver(name, o, n)
    PROVE  AnywhereInv'
  <1>1. PICK at : at = GetNode(tail, name, o)
    OBVIOUS
  <1> DEFINE bounds == at.bounds
             s == bounds.bytes.start
             e == bounds.bytes.end
             entry == [target |-> at.node, depth |-> 0,
                       spans |-> [bounds EXCEPT !.bytes = Interval(s, o)]]
  <1>2. /\ at.node # 0
        /\ IF o = bounds[name].start THEN Begin(s, n, <<>>)
           ELSE name = "bytes" /\ Begin(o, n, <<entry>>)
    BY <1>1 DEF WriteOver, Begin
  <1>3. o \in Nat
    BY DEF Offsets
  <1>4. /\ tail \in Ids /\ at.node \in Within(tail)
        /\ Holds(nodes[at.node].spans, name, o)
        /\ bounds \in Spans /\ Holds(bounds, name, o)
        /\ s <= nodes[tail].spans.bytes.start
        /\ e <= Len(ideal[tail])
        /\ \A x \in s..(e - 1) : Reaches(at.node, x)
        /\ Uncut(Len(nodes)) => BlockEnd(tail, s)
        /\ name = "bytes" /\ o > 0 => Reaches(tail, o - 1)
    BY <1>1, <1>2, <1>3, FoundBounds
  <1>5. PICK m \in Ids : m = tail
    BY <1>4
  <1>6. /\ nodes[m].spans.bytes.start \in Nat /\ nodes[m].spans.bytes.end \in Nat
        /\ nodes[m].spans.bytes.start < nodes[m].spans.bytes.end
        /\ nodes[m].spans.bytes.end <= Len(ideal[m]) /\ Len(ideal[m]) \in Nat
        /\ IdealOf(m) = ideal[m]
        /\ s \in Nat /\ e \in Nat /\ bounds.bytes \in Span
        /\ End("bytes") = nodes[m].spans.bytes.end
    <2>1. m # 0 /\ "bytes" \in SpanNames
      BY Bounds DEF SpanNames
    <2> QED BY <1>4, <1>5, <2>1, Bounds, TailFacts, SpanFields
  <1>7. CASE o = bounds[name].start
    <2>1. Begin(s, n, <<>>)
      BY <1>2, <1>7
    <2> HIDE DEF s
    <2>2. s <= Len(IdealOf(tail)) /\ s <= End("bytes")
      BY <1>4, <1>5, <1>6
    <2>3. s # 0 => Reaches(tail, s - 1)
      <3> SUFFICES ASSUME s # 0 PROVE Reaches(m, s - 1)
        BY <1>5
      <3>1. s - 1 \in 0..(nodes[m].spans.bytes.end - 1)
        BY <1>4, <1>5, <1>6
      <3> QED BY <3>1, ReachesBefore
    <2>4. <<>> \in Seq(Entries) /\ DOMAIN <<>> = {} /\ TableAligned(<<>>, tail, s)
      BY DEF TableAligned
    <2> QED BY <1>4, <1>6, <2>1, <2>2, <2>3, <2>4, BeginKeeps
  <1>8. CASE o # bounds[name].start
    <2>1. name = "bytes" /\ Begin(o, n, <<entry>>)
      BY <1>2, <1>8
    <2>2. s < o /\ o < e /\ o <= Len(IdealOf(tail)) /\ o # 0
      <3>1. s <= o /\ o < e /\ s # o
        BY <1>4, <1>8, <2>1 DEF Holds
      <3> HIDE DEF s, e
      <3> QED BY <1>3, <1>4, <1>5, <1>6, <3>1
    <2>3. /\ entry.target = at.node /\ entry.depth = 0
          /\ entry.spans.bytes.start = s /\ entry.spans.bytes.end = o
          /\ entry \in Entries
      <3>1. bounds = [bytes |-> bounds.bytes, index |-> bounds.index, time |-> bounds.time]
            /\ bounds.index \in Span /\ bounds.time \in Span
        BY <1>4 DEF Spans
      <3>2. [bounds EXCEPT !.bytes = Interval(s, o)]
               = [bytes |-> Interval(s, o), index |-> bounds.index, time |-> bounds.time]
        BY <3>1
      <3>3. Interval(s, o) \in Span /\ Interval(s, o).start = s /\ Interval(s, o).end = o
        BY <1>3, <1>6 DEF Interval, Span
      <3>4. at.node \in Nat \ {0}
        BY <1>4, Bounds DEF Within
      <3> HIDE DEF s, e, bounds
      <3> QED BY <3>1, <3>2, <3>3, <3>4 DEF Entries, Spans
    <2>4. /\ at.node \in Ids /\ Len(ideal[at.node]) <= Len(ideal[m])
          /\ nodes[at.node].spans.bytes.start <= o /\ o < nodes[at.node].spans.bytes.end
          /\ nodes[at.node].spans.bytes.end \in Nat
      BY <1>4, <1>5, <2>1, Bounds DEF Within, Holds
    <2> HIDE DEF entry
    <2>5. EntryReaches(entry, o, Len(IdealOf(tail)))
      <3>1. \A x \in s..(o - 1) : x \in s..(e - 1)
        BY <1>3, <1>6, <2>2
      <3> QED BY <1>3, <1>4, <1>5, <1>6, <2>2, <2>3, <2>4, <3>1 DEF EntryReaches
    <2>6. <<entry>> \in Seq(Entries) /\ DOMAIN <<entry>> = {1} /\ <<entry>>[1] = entry
          /\ <<entry>> # <<>>
      BY <2>3
    <2>7. ASSUME Uncut(Len(nodes)), BlockEnd(tail, o)
          PROVE  o <= End("bytes") /\ TableAligned(<<entry>>, tail, o)
      <3>1. PICK t, a, end : /\ t = at.node /\ a = nodes[t].spans.bytes.start
                             /\ end = nodes[t].spans.bytes.end
        OBVIOUS
      <3>2. Uncut(m) /\ Uncut(t)
        <4>1. m \in 1..Len(nodes) /\ t \in 1..Len(nodes) /\ Len(nodes) \in Nat
          BY <2>4, <3>1 DEF Ids, AnywhereInv, TypeOK
        <4> QED BY <2>7, <4>1 DEF Uncut
      <3>3. /\ t \in Ids /\ end <= nodes[m].spans.bytes.end /\ Agrees(t, m, end)
            /\ a \in Nat /\ end \in Nat /\ a <= o /\ o < end
            /\ IdealOf(t) = ideal[t]
        <4>1. at = GetNode(m, "bytes", o)
          BY <1>1, <1>5, <2>1
        <4>2. /\ end <= nodes[m].spans.bytes.end /\ Agrees(t, m, end)
          BY <1>2, <1>3, <3>1, <3>2, <4>1, FoundIsThere
        <4> QED BY <2>4, <3>1, <4>2, Bounds
      <3>4. a = o
        <4> SUFFICES ASSUME a < o PROVE FALSE
          BY <1>3, <3>3
        <4>1. o \in (a + 1)..end /\ o \in 1..end
          BY <1>3, <3>3
        <4>2. ideal[t][o] = t
          BY <3>1, <3>2, <3>3, <4>1 DEF AnywhereInv, UploadedAligned
        <4>3. IdealOf(m)[o] = t
          BY <3>3, <4>1, <4>2 DEF Agrees
        <4>4. nodes[t].spans.bytes.end = o
          BY <1>5, <2>2, <2>7, <4>3 DEF BlockEnd
        <4> QED BY <1>3, <3>1, <3>3, <4>4
      <3>5. EntryEnd(entry) = o /\ entry.target = t
        BY <1>3, <2>3, <3>1, <3>4 DEF EntryEnd
      <3>6. Agrees(t, m, o)
        BY <1>3, <3>3 DEF Agrees
      <3>7. BlockEnd(m, s)
        BY <1>4, <1>5, <2>7
      <3>8. EntryAligned(entry, m, o)
        <4>1. o <= nodes[entry.target].spans.bytes.end
          BY <1>3, <3>1, <3>3, <3>5
        <4> QED BY <1>3, <2>3, <3>5, <3>6, <3>7, <4>1 DEF EntryAligned
      <3>9. o <= End("bytes")
        BY <1>3, <1>6, <3>3
      <3> QED BY <1>5, <2>6, <3>8, <3>9 DEF TableAligned
    <2>8. \A k \in DOMAIN <<entry>> : EntryReaches(<<entry>>[k], o, Len(IdealOf(tail)))
      BY <2>5, <2>6
    <2>9. Reaches(tail, o - 1)
      BY <1>3, <1>4, <2>1, <2>2
    <2> QED BY <1>3, <1>4, <2>1, <2>2, <2>6, <2>7, <2>8, <2>9, BeginKeeps
  <1> QED BY <1>7, <1>8

----------------------------------------------------------------------------
(* Writes anywhere: the merge loop.                                        *)

LEMMA MergingAnywhere ==
    ASSUME AnywhereInv, writer = "merging"
    PROVE  LET s == spans.bytes.start
               len == Len(IdealOf(tail))
           IN /\ TypeOK /\ spans \in Spans /\ s \in Nat /\ len \in Nat
              /\ lookup_nodes \in Seq(Entries) /\ head \in Seq(Entries)
              /\ index \in Nat \ {0}
              /\ s < spans.bytes.end /\ s <= len
              /\ TableReaches(lookup_nodes, s, len)
              /\ \A k \in DOMAIN head : EntryReaches(head[k], s, len)
              /\ InIds(lookup_nodes) /\ InIds(head)
              /\ IF preceding = 0 THEN lookup_nodes = <<>> /\ head = <<>>
                 ELSE /\ preceding \in Ids
                      /\ nodes[preceding].spans.bytes.start <= s
                      /\ Len(ideal[preceding]) <= len
                      /\ ReachesTable(preceding, lookup_nodes)
              /\ Uncut(Len(nodes)) /\ BlockEnd(tail, s) =>
                    /\ TableAligned(lookup_nodes, tail, s) /\ TableAligned(head, tail, s)
                    /\ preceding # 0 => LET end == nodes[preceding].spans.bytes.end
                                       IN /\ end <= s
                                          /\ Agrees(preceding, tail, end)
                                          /\ \A k \in DOMAIN lookup_nodes :
                                                lookup_nodes[k].spans.bytes.end <= end
  <1>1. /\ TypeOK /\ spans \in Spans /\ lookup_nodes \in Seq(Entries) /\ head \in Seq(Entries)
        /\ index \in Nat \ {0} /\ preceding \in 0..Len(nodes)
    BY DEF AnywhereInv, TypeOK
  <1>2. spans.bytes.start \in Nat
    BY <1>1, SpanFields DEF SpanNames
  <1>3. Len(IdealOf(tail)) \in Nat
    <2>1. CASE tail = 0
      BY <2>1 DEF IdealOf
    <2>2. CASE tail # 0
      BY <2>2, TailFacts, Bounds
    <2> QED BY <2>1, <2>2
  <1>4. preceding # 0 => preceding \in Ids
    BY <1>1 DEF Ids, TypeOK
  <1>5. InIds(lookup_nodes) /\ InIds(head)
    BY DEF AnywhereInv, WriterReaches, TableReaches, EntryReaches, InIds
  <1> QED BY <1>1, <1>2, <1>3, <1>4, <1>5 DEF AnywhereInv, WriterReaches, WriterAligned

\* The merged entry is reached through the document before the write.
LEMMA MergedReaches ==
    ASSUME AnywhereInv, writer = "merging", EqualNeighbours, Contiguous
    PROVE  /\ Merged \in Entries /\ preceding \in Ids /\ Merged.target = preceding
           /\ index \in DOMAIN lookup_nodes /\ index + 1 \in DOMAIN lookup_nodes
           /\ Merged.spans.bytes.start = Current.spans.bytes.start
           /\ Merged.spans.bytes.end = Following.spans.bytes.end
           /\ \A o \in Nat : \/ Holds(Current.spans, "bytes", o)
                              \/ Holds(Following.spans, "bytes", o)
                 => Holds(Merged.spans, "bytes", o)
           /\ EntryReaches(Merged, spans.bytes.start, Len(IdealOf(tail)))
           /\ \A o \in Merged.spans.bytes.start..(Merged.spans.bytes.end - 1) :
                 Reaches(preceding, o)
  <1> DEFINE l == lookup_nodes
             c == Current.spans
             f == Following.spans
             sp == Merged.spans
             s == spans.bytes.start
             len == Len(IdealOf(tail))
  <1>1. /\ l \in Seq(Entries) /\ index \in 1..Len(l) /\ index + 1 \in 1..Len(l)
        /\ index \in DOMAIN l /\ index + 1 \in DOMAIN l /\ l # <<>>
    BY MergingAnywhere DEF EqualNeighbours
  <1>2. Current \in Entries /\ Following \in Entries /\ c \in Spans /\ f \in Spans
        /\ Current.depth \in Nat
    BY <1>1, EntryFields DEF Current, Following
  <1>3. preceding \in Ids /\ preceding \in Nat \ {0}
    BY <1>1, MergingAnywhere, Bounds
  <1>4. \A name \in SpanNames : /\ c[name].start \in Nat /\ c[name].end \in Nat
                                /\ f[name].start \in Nat /\ f[name].end \in Nat
                                /\ c[name].end = f[name].start
    BY <1>2, SpanFields DEF Contiguous
  <1>5. /\ Merged.target = preceding
        /\ sp = [name \in SpanNames |-> Widened(c[name], f[name])]
        /\ Merged = [target |-> preceding, depth |-> Current.depth + 1, spans |-> sp]
    BY DEF Merged
  <1>6. EntryReaches(Current, s, len) /\ EntryReaches(Following, s, len)
    BY <1>1, MergingAnywhere DEF TableReaches, Current, Following
  <1>7. /\ \A o \in c.bytes.start..(c.bytes.end - 1) : Reaches(preceding, o)
        /\ \A o \in f.bytes.start..(f.bytes.end - 1) : Reaches(preceding, o)
    BY <1>1, <1>3, MergingAnywhere DEF ReachesTable, Current, Following
  <1>8. /\ c.bytes.start < c.bytes.end /\ f.bytes.start < f.bytes.end
        /\ c.bytes.start <= s /\ f.bytes.end <= len
    BY <1>6 DEF EntryReaches
  <1>9. nodes[preceding].spans.bytes.start <= s /\ Len(ideal[preceding]) <= len
    BY <1>3, MergingAnywhere
  <1> HIDE DEF l, c, f, sp, s, len
  <1>10. ASSUME NEW name \in SpanNames
         PROVE  /\ sp[name] \in Span
                /\ sp[name].start = c[name].start
                /\ sp[name].end = Later(c[name].end, f[name].end)
    BY <1>4, <1>5, <1>10 DEF Widened, Span, Later
  <1>11. sp \in Spans
    <2>1. sp \in [SpanNames -> Span]
      BY <1>5, <1>10
    <2> QED BY <2>1 DEF Spans, SpanNames
  <1>12. Merged \in Entries
    BY <1>2, <1>3, <1>5, <1>11 DEF Entries
  <1>13. /\ c.bytes.start \in Nat /\ c.bytes.end \in Nat /\ f.bytes.start \in Nat
         /\ f.bytes.end \in Nat /\ c.bytes.end = f.bytes.start
         /\ sp.bytes.start = c.bytes.start /\ sp.bytes.end = f.bytes.end
    <2>1. "bytes" \in SpanNames
      BY DEF SpanNames
    <2> QED BY <1>4, <1>8, <1>10, <2>1 DEF Later
  <1>14. ASSUME NEW o \in Nat, Holds(c, "bytes", o) \/ Holds(f, "bytes", o)
         PROVE  Holds(sp, "bytes", o)
    BY <1>8, <1>13, <1>14 DEF Holds
  <1>15. ASSUME NEW o \in sp.bytes.start..(sp.bytes.end - 1) PROVE Reaches(preceding, o)
    <2>1. CASE o < c.bytes.end
      <3>1. o \in c.bytes.start..(c.bytes.end - 1)
        BY <1>13, <2>1
      <3> QED BY <1>7, <3>1
    <2>2. CASE o >= c.bytes.end
      <3>1. o \in f.bytes.start..(f.bytes.end - 1)
        BY <1>13, <2>2
      <3> QED BY <1>7, <3>1
    <2> QED BY <1>13, <2>1, <2>2
  <1>16. EntryReaches(Merged, s, len)
    <2>1. sp.bytes.start < sp.bytes.end
      BY <1>8, <1>13
    <2> QED BY <1>3, <1>5, <1>8, <1>9, <1>13, <1>15, <2>1 DEF EntryReaches, sp
  <1> QED BY <1>1, <1>3, <1>5, <1>12, <1>13, <1>14, <1>15, <1>16 DEF l, c, f, sp, s, len

\* The entries of the table with two neighbours merged are the merged one and
\* old ones, and it holds the same bytes.
LEMMA MergedEntries ==
    ASSUME AnywhereInv, writer = "merging", EqualNeighbours, Contiguous,
           NEW l, l = [RemoveAt(lookup_nodes, index + 1) EXCEPT ![index] = Merged]
    PROVE  /\ l \in Seq(Entries)
           /\ \A k \in DOMAIN l : l[k] = Merged \/ \E j \in DOMAIN lookup_nodes : l[k] = lookup_nodes[j]
           /\ \A o \in Nat : (\E k \in DOMAIN lookup_nodes : Holds(lookup_nodes[k].spans, "bytes", o))
                 => \E k \in DOMAIN l : Holds(l[k].spans, "bytes", o)
  <1> DEFINE old == lookup_nodes
             m == Len(old)
  <1>1. /\ old \in Seq(Entries) /\ index \in Nat \ {0} /\ index < m /\ m \in Nat
        /\ DOMAIN old = 1..m
    BY MergingAnywhere DEF EqualNeighbours
  <1>2. /\ l \in Seq(Entries) /\ DOMAIN l = 1..(m - 1)
        /\ l[index] = Merged
        /\ \A k \in 1..(index - 1) : l[k] = old[k]
        /\ \A k \in (index + 1)..(m - 1) : l[k] = old[k + 1]
    BY <1>1, MergedReaches, MergedTableIs
  <1> HIDE DEF m
  <1>3. ASSUME NEW k \in 1..(m - 1)
        PROVE  l[k] = Merged \/ \E j \in 1..m : l[k] = old[j]
    <2>1. CASE k < index
      BY <1>1, <1>2, <2>1
    <2>2. CASE k = index
      BY <1>2, <2>2
    <2>3. CASE k > index
      <3>1. k \in (index + 1)..(m - 1) /\ k + 1 \in 1..m
        BY <1>1, <2>3
      <3> QED BY <1>2, <3>1
    <2> QED BY <1>1, <2>1, <2>2, <2>3
  <1>4. ASSUME NEW o \in Nat, NEW k \in 1..m, Holds(old[k].spans, "bytes", o)
        PROVE  \E j \in 1..(m - 1) : Holds(l[j].spans, "bytes", o)
    <2>1. CASE k < index
      BY <1>1, <1>2, <1>4, <2>1
    <2>2. CASE k = index \/ k = index + 1
      <3>1. Holds(Current.spans, "bytes", o) \/ Holds(Following.spans, "bytes", o)
        BY <1>4, <2>2 DEF Current, Following
      <3>2. Holds(Merged.spans, "bytes", o)
        BY <3>1, MergedReaches
      <3> QED BY <1>1, <1>2, <3>2
    <2>3. CASE k > index + 1
      <3>1. k - 1 \in (index + 1)..(m - 1) /\ (k - 1) + 1 = k /\ k - 1 \in 1..(m - 1)
        BY <1>1, <2>3
      <3>2. l[k - 1] = old[k]
        BY <1>2, <3>1
      <3> QED BY <1>4, <3>1, <3>2
    <2> QED BY <1>1, <2>1, <2>2, <2>3
  <1> QED BY <1>1, <1>2, <1>3, <1>4

LEMMA MergeKeepsAnywhere == ASSUME AnywhereInv, Merge PROVE AnywhereInv'
  <1> DEFINE l == [RemoveAt(lookup_nodes, index + 1) EXCEPT ![index] = Merged]
             s == spans.bytes.start
             len == Len(IdealOf(tail))
  <1>1. /\ writer = "merging" /\ EqualNeighbours /\ Contiguous
        /\ lookup_nodes' = l
        /\ UNCHANGED <<nodes, tail, born, clock, saved, writer, spans, preceding, head,
                       index, uploads, ideal>>
    BY DEF Merge
  <1>2. /\ l \in Seq(Entries)
        /\ \A k \in DOMAIN l : l[k] = Merged \/ \E j \in DOMAIN lookup_nodes : l[k] = lookup_nodes[j]
        /\ \A o \in Nat : (\E k \in DOMAIN lookup_nodes : Holds(lookup_nodes[k].spans, "bytes", o))
              => \E k \in DOMAIN l : Holds(l[k].spans, "bytes", o)
    BY <1>1, MergedEntries
  <1> HIDE DEF l
  <1>3. /\ TypeOK /\ s \in Nat
        /\ s < spans.bytes.end /\ s <= len
        /\ TableReaches(lookup_nodes, s, len)
        /\ \A k \in DOMAIN head : EntryReaches(head[k], s, len)
        /\ InIds(head)
        /\ preceding \in Ids /\ preceding # 0
        /\ nodes[preceding].spans.bytes.start <= s /\ Len(ideal[preceding]) <= len
        /\ ReachesTable(preceding, lookup_nodes)
    <2>1. preceding \in Ids /\ preceding # 0
      BY <1>1, MergedReaches, Bounds
    <2> QED BY <1>1, <2>1, MergingAnywhere
  <1>4. TableReaches(l, s, len)
    <2>1. ASSUME NEW k \in DOMAIN l PROVE EntryReaches(l[k], s, len)
      <3>1. CASE l[k] = Merged
        BY <1>1, <3>1, MergedReaches
      <3>2. CASE \E j \in DOMAIN lookup_nodes : l[k] = lookup_nodes[j]
        BY <1>3, <3>2 DEF TableReaches
      <3> QED BY <1>2, <3>1, <3>2
    <2>2. ASSUME NEW o \in 0..(s - 1) PROVE \E k \in DOMAIN l : Holds(l[k].spans, "bytes", o)
      <3>1. o \in Nat
        BY <1>3
      <3> QED BY <1>2, <1>3, <3>1 DEF TableReaches
    <2> QED BY <2>1, <2>2 DEF TableReaches
  <1>5. ReachesTable(preceding, l)
    <2> SUFFICES ASSUME NEW k \in DOMAIN l,
                        NEW o \in l[k].spans.bytes.start..(l[k].spans.bytes.end - 1)
                 PROVE  Reaches(preceding, o)
      BY DEF ReachesTable
    <2>1. CASE l[k] = Merged
      BY <1>1, <2>1, MergedReaches
    <2>2. CASE \E j \in DOMAIN lookup_nodes : l[k] = lookup_nodes[j]
      BY <1>3, <2>2 DEF ReachesTable
    <2> QED BY <1>2, <2>1, <2>2
  <1>6. TypeOK'
    BY <1>1, <1>2, <1>3 DEF TypeOK
  <1>7. Keeps /\ UploadedReach' /\ UploadedAligned'
    BY <1>1, SameDocuments
  <1>8. WriterReaches'
    BY <1>1, <1>3, <1>4, <1>5, <1>7, WriterReachesAgain DEF PrecedingReaches, s, len
  <1>9. WriterAligned'
    <2>1. InIds(l)
      BY <1>4 DEF InIds, TableReaches, EntryReaches
    <2>2. ASSUME Uncut(Len(nodes)), BlockEnd(tail, s)
          PROVE  /\ TableAligned(l, tail, s) /\ TableAligned(head, tail, s)
                 /\ PrecedingAgrees(preceding, l, s)
      <3>1. PICK p, end : p = preceding /\ end = nodes[p].spans.bytes.end
        OBVIOUS
      <3>2. /\ TableAligned(lookup_nodes, tail, s) /\ TableAligned(head, tail, s)
            /\ p \in Ids /\ end <= s /\ Agrees(p, tail, end)
            /\ \A k \in DOMAIN lookup_nodes : lookup_nodes[k].spans.bytes.end <= end
        BY <1>1, <1>3, <2>2, <3>1, MergingAnywhere
      <3>3. /\ index \in DOMAIN lookup_nodes /\ index + 1 \in DOMAIN lookup_nodes
            /\ Merged.target = p /\ Merged \in Entries
            /\ Merged.spans.bytes.start = lookup_nodes[index].spans.bytes.start
            /\ Merged.spans.bytes.end = lookup_nodes[index + 1].spans.bytes.end
        BY <1>1, <3>1, MergedReaches DEF Current, Following
      <3>4. EntryAligned(Merged, tail, s) /\ Merged.spans.bytes.end <= end
        <4>1. Merged.spans.bytes.end <= end /\ BlockEnd(tail, Merged.spans.bytes.start)
          BY <3>2, <3>3 DEF TableAligned, EntryAligned
        <4>2. EntryEnd(Merged) \in Nat /\ EntryEnd(Merged) <= end /\ end \in Nat
          BY <3>1, <3>2, <3>3, EntryEndIs, Bounds
        <4>3. EntryEnd(Merged) <= s /\ Agrees(p, tail, EntryEnd(Merged))
          <5>1. \A i \in 1..EntryEnd(Merged) : i \in 1..end
            BY <4>2
          <5> QED BY <1>3, <3>2, <4>2, <5>1 DEF Agrees
        <4> QED BY <3>1, <3>3, <4>1, <4>3 DEF EntryAligned
      <3>5. ASSUME NEW k \in DOMAIN l
            PROVE  EntryAligned(l[k], tail, s) /\ l[k].spans.bytes.end <= end
        <4>1. CASE l[k] = Merged
          BY <3>4, <4>1
        <4>2. CASE \E j \in DOMAIN lookup_nodes : l[k] = lookup_nodes[j]
          BY <3>2, <4>2 DEF TableAligned
        <4> QED BY <1>2, <4>1, <4>2
      <3> QED BY <3>1, <3>2, <3>5 DEF TableAligned, PrecedingAgrees
    <2> QED BY <1>1, <1>3, <2>1, <2>2, WriterAlignedAgain DEF s
  <1> QED BY <1>6, <1>7, <1>8, <1>9 DEF AnywhereInv

\* Steps that leave the documents and the write as they are, or end it.
LEMMA SameWrite ==
    ASSUME AnywhereInv, TypeOK', UNCHANGED <<nodes, ideal>>,
           writer' \in {"merging", "uploading"} =>
              /\ writer' = writer
              /\ UNCHANGED <<tail, spans, preceding, head, lookup_nodes>>
              /\ writer = "merging" \/ uploads' # 2 \/ uploads = 2
    PROVE  AnywhereInv'
  <1>1. Keeps /\ UploadedReach' /\ UploadedAligned'
    BY SameDocuments
  <1>2. CASE writer' \notin {"merging", "uploading"}
    <2>1. WriterReaches' /\ WriterAligned'
      BY <1>2 DEF WriterReaches, WriterAligned
    <2> QED BY <1>1, <2>1 DEF AnywhereInv
  <1>3. CASE writer' \in {"merging", "uploading"}
    <2>1. /\ writer' = writer /\ writer \in {"merging", "uploading"}
          /\ UNCHANGED <<tail, spans, preceding, head, lookup_nodes>>
          /\ writer = "merging" \/ uploads' # 2 \/ uploads = 2
      BY <1>3
    <2>2. InIds(lookup_nodes) /\ InIds(head) /\ (preceding # 0 => preceding \in Ids)
      <3>1. preceding \in 0..Len(nodes)
        BY DEF AnywhereInv, TypeOK
      <3> QED BY <2>1, <3>1 DEF AnywhereInv, TypeOK, WriterReaches, TableReaches, EntryReaches, InIds, Ids
    <2>3. WriterReaches'
      <3>1. WriterReaches
        BY DEF AnywhereInv
      <3> QED BY <1>1, <2>1, <2>2, <3>1, WriterReachesAgain DEF WriterReaches, PrecedingReaches
    <2>4. WriterAligned'
      <3>1. WriterAligned
        BY DEF AnywhereInv
      <3>2. CASE writer = "uploading" /\ uploads' # 2
        BY <2>1, <3>2 DEF WriterAligned
      <3>3. CASE writer = "merging" \/ uploads = 2
        BY <2>1, <2>2, <3>1, <3>3, WriterAlignedAgain DEF WriterAligned, PrecedingAgrees
      <3> QED BY <2>1, <3>2, <3>3
    <2> QED BY <1>1, <2>3, <2>4 DEF AnywhereInv
  <1> QED BY <1>2, <1>3

LEMMA SkipAndAssertKeep == ASSUME AnywhereInv, AssertFails \/ Skip PROVE AnywhereInv'
  <1>1. /\ UNCHANGED <<nodes, ideal, tail, spans, preceding, head, lookup_nodes>>
        /\ UNCHANGED <<born, clock, saved, uploads>>
        /\ writer = "merging" /\ writer' \in {"merging", "aborted"}
        /\ index' = index \/ index' = index + 1
    BY DEF AssertFails, Skip, localVars
  <1>2. TypeOK'
    BY <1>1 DEF AnywhereInv, TypeOK
  <1> QED BY <1>1, <1>2, SameWrite

\* The entry for the beginning of a block comes last.
LEMMA StartKeeps == ASSUME AnywhereInv, StartUploads PROVE AnywhereInv'
  <1> DEFINE l == lookup_nodes \o head
             s == spans.bytes.start
             len == Len(IdealOf(tail))
  <1>1. /\ writer = "merging" /\ writer' = "uploading" /\ uploads' = 2
        /\ lookup_nodes' = l
        /\ UNCHANGED <<nodes, tail, born, clock, saved, spans, preceding, head, index, ideal>>
    BY DEF StartUploads
  <1>2. /\ TypeOK /\ lookup_nodes \in Seq(Entries) /\ head \in Seq(Entries)
        /\ s < spans.bytes.end /\ s <= len
        /\ TableReaches(lookup_nodes, s, len)
        /\ \A k \in DOMAIN head : EntryReaches(head[k], s, len)
        /\ InIds(lookup_nodes) /\ InIds(head)
        /\ IF preceding = 0 THEN lookup_nodes = <<>> /\ head = <<>>
           ELSE /\ preceding \in Ids
                /\ nodes[preceding].spans.bytes.start <= s
                /\ Len(ideal[preceding]) <= len
        /\ Uncut(Len(nodes)) /\ BlockEnd(tail, s) =>
              TableAligned(lookup_nodes, tail, s) /\ TableAligned(head, tail, s)
    BY <1>1, MergingAnywhere
  <1>3. /\ l \in Seq(Entries)
        /\ \A k \in DOMAIN lookup_nodes : k \in DOMAIN l /\ l[k] = lookup_nodes[k]
        /\ \A k \in DOMAIN head : Len(lookup_nodes) + k \in DOMAIN l /\ l[Len(lookup_nodes) + k] = head[k]
        /\ \A k \in DOMAIN l : \/ k \in DOMAIN lookup_nodes /\ l[k] = lookup_nodes[k]
                               \/ \E j \in DOMAIN head : l[k] = head[j]
        /\ head = <<>> => l = lookup_nodes
    BY <1>2, Concatenated
  <1> HIDE DEF l
  <1>4. TableReaches(l, s, len)
    <2>1. ASSUME NEW k \in DOMAIN l PROVE EntryReaches(l[k], s, len)
      BY <1>2, <1>3 DEF TableReaches
    <2>2. ASSUME NEW o \in 0..(s - 1) PROVE \E k \in DOMAIN l : Holds(l[k].spans, "bytes", o)
      <3>1. PICK k \in DOMAIN lookup_nodes : Holds(lookup_nodes[k].spans, "bytes", o)
        BY <1>2 DEF TableReaches
      <3> QED BY <1>3, <3>1
    <2> QED BY <2>1, <2>2 DEF TableReaches
  <1>5. TypeOK'
    BY <1>1, <1>2, <1>3 DEF TypeOK
  <1>6. Keeps /\ UploadedReach' /\ UploadedAligned'
    BY <1>1, SameDocuments
  <1>7. WriterReaches'
    <2>1. preceding = 0 => l = <<>>
      BY <1>2, <1>3
    <2> QED BY <1>1, <1>2, <1>4, <1>6, <2>1, WriterReachesAgain DEF PrecedingReaches, s, len
  <1>8. WriterAligned'
    <2>1. InIds(l)
      BY <1>4 DEF InIds, TableReaches, EntryReaches
    <2>2. Uncut(Len(nodes)) /\ BlockEnd(tail, s) => TableAligned(l, tail, s)
      BY <1>2, <1>3 DEF TableAligned
    <2> QED BY <1>1, <1>2, <2>1, <2>2, WriterAlignedAgain DEF s
  <1> QED BY <1>5, <1>6, <1>7, <1>8 DEF AnywhereInv

LEMMA EndsKeep == ASSUME AnywhereInv, Commit \/ Save \/ Restart PROVE AnywhereInv'
  <1>1. TypeOK /\ UNCHANGED <<nodes, ideal>> /\ writer' \in {"written", "idle"}
    BY DEF AnywhereInv, Commit, Save, Restart
  <1>2. TypeOK'
    <2>1. CASE Commit
      <3>1. Len(nodes) \in 0..Len(nodes)
        BY <1>1 DEF TypeOK
      <3> QED BY <2>1, <3>1, <1>1 DEF Commit, NewestId, TypeOK, localVars
    <2>2. CASE Save
      BY <2>2, <1>1 DEF Save, TypeOK, localVars
    <2>3. CASE Restart
      <3>1. PICK t \in 0..MaxTime : clock' = t /\ born' = IF saved = 0 THEN t ELSE born
        BY <2>3 DEF Restart
      <3>2. t \in Nat
        BY SkystreamAssumption
      <3> QED BY <2>3, <1>1, <3>1, <3>2, FreshSpansType DEF Restart, Restored, TypeOK
    <2> QED BY <2>1, <2>2, <2>3
  <1> QED BY <1>1, <1>2, SameWrite

LEMMA SecondUploadKeeps == ASSUME AnywhereInv, Upload, uploads # 2 PROVE AnywhereInv'
  <1>1. /\ writer = "uploading" /\ uploads > 0 /\ uploads' = uploads - 1
        /\ UNCHANGED <<nodes, ideal, tail, born, clock, saved, writer, spans, preceding,
                       head, lookup_nodes, index>>
    BY DEF Upload, localVars
  <1>2. uploads \in 0..2 /\ uploads' \in 0..2 /\ uploads' # 2
    BY <1>1 DEF AnywhereInv, TypeOK
  <1>3. TypeOK'
    BY <1>1, <1>2 DEF AnywhereInv, TypeOK
  <1> QED BY <1>1, <1>2, <1>3, SameWrite

----------------------------------------------------------------------------
(* Writes anywhere: a new document.                                        *)

LEMMA OverlayIs ==
    ASSUME NEW N \in Nat, Len(nodes) = N, NEW old \in Seq(1..N), NEW b \in Span,
           b.start < b.end, b.start <= Len(old)
    PROVE  /\ Overlay(old, b) \in Seq(1..(N + 1))
           /\ b.end <= Len(Overlay(old, b)) /\ Len(old) <= Len(Overlay(old, b))
           /\ \A i \in 1..b.start : Overlay(old, b)[i] = old[i]
           /\ \A i \in (b.start + 1)..b.end : Overlay(old, b)[i] = N + 1
  <1> DEFINE a == b.start
             e == b.end
             m == Len(old)
             len == IF m < e THEN e ELSE m
             new == Overlay(old, b)
  <1>1. a \in Nat /\ e \in Nat /\ m \in Nat /\ a < e /\ a <= m /\ len \in Nat
        /\ e <= len /\ m <= len
    BY DEF Span
  <1>2. new = [i \in 1..len |-> IF a < i /\ i <= e THEN N + 1 ELSE old[i]]
    BY DEF Overlay
  <1>3. \A i \in 1..m : old[i] \in 1..N
    OBVIOUS
  <1>4. \A i \in 1..len : (a < i /\ i <= e) \/ i \in 1..m
    BY <1>1
  <1> HIDE DEF new, a, e
  <1>5. ASSUME NEW i \in 1..len PROVE new[i] \in 1..(N + 1)
    <2>1. CASE a < i /\ i <= e
      BY <1>2, <2>1
    <2>2. CASE ~(a < i /\ i <= e)
      <3>1. new[i] = old[i] /\ i \in 1..m
        BY <1>2, <1>4, <2>2
      <3> QED BY <1>3, <3>1
    <2> QED BY <2>1, <2>2
  <1> HIDE DEF len
  <1>6. new \in Seq(1..(N + 1)) /\ Len(new) = len
    <2>1. new \in [1..len -> 1..(N + 1)]
      BY <1>2, <1>5
    <2> QED BY ONLY <1>1, <2>1, FunctionIsSeq
  <1>7. \A i \in 1..a : new[i] = old[i]
    BY <1>1, <1>2
  <1>8. \A i \in (a + 1)..e : new[i] = N + 1
    BY <1>1, <1>2
  <1> QED BY <1>1, <1>6, <1>7, <1>8 DEF new, a, e

\* A table that reaches is one in a longer content too.
LEMMA LongerContent ==
    ASSUME AnywhereInv, NEW l \in Seq(Entries), NEW s, NEW a \in Nat, NEW b \in Nat, a <= b,
           TableReaches(l, s, a)
    PROVE  TableReaches(l, s, b)
  <1>1. ASSUME NEW k \in DOMAIN l PROVE EntryReaches(l[k], s, b)
    <2>1. EntryReaches(l[k], s, a)
      BY DEF TableReaches
    <2>2. Len(ideal[l[k].target]) \in Nat /\ l[k].spans.bytes.end \in Nat
      BY <2>1, Bounds, EntrySpan DEF EntryReaches, SpanNames
    <2>3. Len(ideal[l[k].target]) <= b /\ l[k].spans.bytes.end <= b
      <3> DEFINE x == Len(ideal[l[k].target])
                 y == l[k].spans.bytes.end
      <3>1. x \in Nat /\ y \in Nat /\ x <= a /\ y <= a
        BY <2>1, <2>2 DEF EntryReaches
      <3> HIDE DEF x, y
      <3>2. x <= b /\ y <= b
        BY <3>1
      <3> QED BY <3>2 DEF x, y
    <2> QED BY <2>1, <2>3 DEF EntryReaches
  <1> QED BY <1>1 DEF TableReaches

\* The document that is uploaded is the next one, and it is the block over the
\* content of the tail.
LEMMA UploadedDocument ==
    ASSUME AnywhereInv, Upload, uploads = 2, NEW m, m = Len(nodes) + 1, NEW b, b = spans.bytes,
           NEW old, old = IdealOf(tail)
    PROVE  /\ Keeps /\ TypeOK' /\ Ids' = Ids \union {m} /\ m \in Nat /\ \A n \in Ids : n < m
           /\ nodes'[m].spans.bytes = b /\ Lookup(m)' = lookup_nodes /\ m # 0
           /\ IdealOf(m)' = ideal'[m]
           /\ b \in Span /\ b.start < b.end /\ b.start <= Len(old) /\ Len(old) \in Nat
           /\ ideal'[m] \in Seq(1..m)
           /\ b.end <= Len(ideal'[m]) /\ Len(old) <= Len(ideal'[m])
           /\ \A i \in 1..b.start : ideal'[m][i] = old[i]
           /\ \A i \in (b.start + 1)..b.end : ideal'[m][i] = m
  <1> DEFINE N == Len(nodes)
             doc == [spans |-> spans, lookup |-> lookup_nodes]
             new == Overlay(old, b)
  <1>1. /\ writer = "uploading" /\ uploads' = 1
        /\ nodes' = Append(nodes, doc) /\ ideal' = Append(ideal, new)
        /\ UNCHANGED <<tail, born, clock, saved, writer, spans, preceding, head,
                       lookup_nodes, index>>
    BY DEF Upload, localVars
  <1>2. /\ TypeOK /\ nodes \in Seq(Documents) /\ N \in Nat
        /\ ideal \in Seq(Seq(Nat \ {0})) /\ Len(ideal) = N
        /\ spans \in Spans /\ lookup_nodes \in Seq(Entries)
        /\ tail \in 0..N /\ saved \in 0..N /\ preceding \in 0..N
    BY DEF AnywhereInv, TypeOK
  <1>3. b \in Span /\ b.start < b.end /\ b.start <= Len(old)
    BY <1>1, <1>2 DEF AnywhereInv, WriterReaches, Spans
  <1>4. old \in Seq(1..N) /\ Len(old) \in Nat
    <2>1. CASE tail = 0
      <3>1. old = <<>>
        BY <2>1, TailFacts
      <3> HIDE DEF N
      <3> QED BY <3>1
    <2>2. CASE tail # 0
      <3>1. tail \in Ids /\ old = ideal[tail]
        BY <2>2, TailFacts
      <3>2. ideal[tail] \in Seq(1..tail)
        BY <3>1, Bounds
      <3>3. 1..tail \subseteq 1..N
        BY <1>2
      <3>4. ASSUME NEW A, NEW B, A \subseteq B, old \in Seq(A) PROVE old \in Seq(B) /\ Len(old) \in Nat
        BY <3>4
      <3> HIDE DEF N
      <3> QED BY <3>1, <3>2, <3>3, <3>4
    <2> QED BY <2>1, <2>2
  <1>5. doc \in Documents /\ doc.spans = spans /\ doc.lookup = lookup_nodes
    BY <1>2 DEF Documents
  <1>6. /\ new \in Seq(1..m)
        /\ b.end <= Len(new) /\ Len(old) <= Len(new)
        /\ \A i \in 1..b.start : new[i] = old[i]
        /\ \A i \in (b.start + 1)..b.end : new[i] = m
    BY <1>2, <1>3, <1>4, OverlayIs
  <1>7. new \in Seq(Nat \ {0})
    <2>1. 1..m \subseteq Nat \ {0}
      OBVIOUS
    <2> QED BY <1>6, <2>1
  <1> HIDE DEF doc, new
  <1>8. /\ nodes' \in Seq(Documents) /\ Len(nodes') = m
        /\ \A n \in 1..N : nodes'[n] = nodes[n]
        /\ nodes'[m] = doc
    BY <1>1, <1>2, <1>5, Appended
  <1>9. /\ ideal' \in Seq(Seq(Nat \ {0})) /\ Len(ideal') = m
        /\ \A n \in 1..N : ideal'[n] = ideal[n]
        /\ ideal'[m] = new
    BY <1>1, <1>2, <1>7, Appended
  <1> HIDE DEF N
  <1>10. Ids' = Ids \union {m} /\ Ids = 1..N /\ m \in Nat /\ m # 0 /\ (\A n \in Ids : n < m) /\ Keeps
    <2>1. Ids = 1..N /\ Ids' = 1..m /\ m = N + 1
      BY <1>8 DEF Ids, N
    <2>2. 1..m = (1..N) \union {m}
      BY <1>2, <2>1
    <2>3. m \in Nat /\ m # 0 /\ \A n \in Ids : n < m
      BY <1>2, <2>1
    <2> QED BY <1>8, <1>9, <2>1, <2>2, <2>3 DEF Keeps
  <1>11. TypeOK'
    <2>1. tail' \in 0..Len(nodes') /\ saved' \in 0..Len(nodes') /\ preceding' \in 0..Len(nodes')
      BY <1>1, <1>2, <1>8 DEF N
    <2>2. uploads' \in 0..2
      BY <1>1
    <2> QED BY <1>1, <1>2, <1>8, <1>9, <2>1, <2>2 DEF TypeOK
  <1>12. Lookup(m)' = lookup_nodes /\ IdealOf(m)' = ideal'[m] /\ nodes'[m].spans.bytes = b
    BY <1>5, <1>8, <1>10 DEF Lookup, IdealOf
  <1> QED BY <1>3, <1>4, <1>6, <1>9, <1>10, <1>11, <1>12

\* Its table is as good for the content it is in as for that of the tail.
LEMMA UploadedAgrees ==
    ASSUME AnywhereInv, Upload, uploads = 2, NEW m, m = Len(nodes) + 1, NEW b, b = spans.bytes,
           Uncut(m)'
    PROVE  TableAligned(lookup_nodes, m, b.start)'
  <1> DEFINE s == b.start
  <1>1. PICK old, l, n : old = IdealOf(tail) /\ l = lookup_nodes /\ n = tail
    OBVIOUS
  <1>2. /\ Keeps /\ Ids' = Ids \union {m} /\ m \in Nat /\ nodes'[m].spans.bytes = b
        /\ Lookup(m)' = l /\ IdealOf(m)' = ideal'[m]
        /\ b \in Span /\ b.start < b.end /\ s <= Len(old)
        /\ ideal'[m] \in Seq(1..m) /\ b.end <= Len(ideal'[m])
        /\ \A i \in 1..s : ideal'[m][i] = old[i]
    BY <1>1, UploadedDocument
  <1>3. /\ TypeOK /\ l \in Seq(Entries) /\ n \in 0..Len(nodes)
        /\ writer = "uploading" /\ uploads = 2
    BY <1>1 DEF Upload, AnywhereInv, TypeOK
  <1>4. TableReaches(l, s, Len(old)) /\ InIds(l)
    BY <1>1, <1>3 DEF AnywhereInv, WriterReaches, InIds, TableReaches, EntryReaches
  <1>5. Uncut(Len(nodes))
    <2>1. PICK N : N = Len(nodes)
      OBVIOUS
    <2>2. N \in Nat /\ m = N + 1 /\ N \in 0..Len(nodes)
      BY <1>3, <2>1 DEF TypeOK
    <2>3. 1..N \subseteq 1..m
      BY <2>2
    <2>4. Uncut(N)'
      BY <2>3 DEF Uncut
    <2>5. Uncut(N)
      BY <1>2, <1>3, <2>2, <2>4, KeepsAligned
    <2> QED BY <2>1, <2>5
  <1>6. IdealOf(n)' = old
    <2>1. CASE n = 0
      BY <1>1, <2>1 DEF IdealOf
    <2>2. CASE n # 0
      BY <1>1, <1>2, <2>2, TailFacts DEF IdealOf, Keeps
    <2> QED BY <2>1, <2>2
  <1>7. s \in Nat /\ \A i \in 1..s : i \in DOMAIN ideal'[m] /\ i \in DOMAIN old
    <2>1. old \in Seq(Nat) /\ Len(old) \in Nat
      <3>1. CASE n = 0
        BY <1>1, <3>1 DEF IdealOf
      <3>2. CASE n # 0
        BY <1>1, <3>2, TailFacts, Bounds
      <3> QED BY <3>1, <3>2
    <2> QED BY <1>2, <2>1 DEF Span
  <1>8. ASSUME NEW x \in Nat, x <= s PROVE BlockEnd(n, x)' <=> BlockEnd(m, x)'
    <2>1. CASE x = 0
      BY <2>1 DEF BlockEnd
    <2>2. CASE x # 0
      <3>1. x \in 1..s
        BY <1>7, <1>8, <2>2
      <3>2. ideal'[m][x] = old[x] /\ x \in DOMAIN ideal'[m] /\ x \in DOMAIN old
        BY <1>2, <1>7, <3>1
      <3> QED BY <1>2, <1>6, <3>2 DEF BlockEnd
    <2> QED BY <2>1, <2>2
  <1>9. TableAligned(l, n, s)'
    <2>1. BlockEnd(m, s)'
      <3>1. m \in 1..m
        BY <1>2, <1>3 DEF TypeOK
      <3>2. BlockEnd(m, nodes[m].spans.bytes.start)'
        BY <3>1 DEF Uncut
      <3> QED BY <1>2, <3>2
    <2>2. BlockEnd(n, s)
      <3>1. BlockEnd(n, s)'
        BY <1>7, <1>8, <2>1
      <3> QED BY <1>2, <1>3, <3>1, KeepsAligned
    <2>3. TableAligned(l, n, s)
      BY <1>1, <1>3, <1>5, <2>2 DEF AnywhereInv, WriterAligned
    <2> QED BY <1>2, <1>3, <1>4, <2>3, KeepsAligned
  <1>10. ASSUME NEW k \in DOMAIN l PROVE EntryAligned(l[k], m, s)'
    <2>1. PICK e : e = l[k]
      OBVIOUS
    <2>2. /\ e \in Entries /\ e.target \in Ids /\ e.spans.bytes.start <= s
      BY <1>3, <1>4, <2>1 DEF TableReaches, EntryReaches
    <2>3. PICK t, x, y : t = e.target /\ x = EntryEnd(e) /\ y = e.spans.bytes.start
      OBVIOUS
    <2>4. x = EntryEnd(e)' /\ x \in Nat /\ y \in Nat
      BY <1>2, <2>2, <2>3, EntryEndIs DEF Keeps, EntryEnd
    <2>5. EntryAligned(e, n, s)'
      BY <1>9, <2>1 DEF TableAligned
    <2>6. /\ e.spans.bytes.end <= nodes'[t].spans.bytes.end /\ x <= s
          /\ Agrees(t, n, x)' /\ BlockEnd(n, y)'
      BY <2>3, <2>4, <2>5 DEF EntryAligned
    <2>7. Agrees(t, m, x)'
      <3>1. \A i \in 1..x : i \in 1..s
        BY <1>7, <2>4, <2>6
      <3> QED BY <1>2, <1>6, <2>6, <3>1 DEF Agrees
    <2>8. BlockEnd(m, y)'
      BY <1>8, <2>2, <2>3, <2>4, <2>6
    <2>9. EntryAligned(e, m, s)'
      BY <2>3, <2>4, <2>6, <2>7, <2>8 DEF EntryAligned
    <2> QED BY <2>1, <2>9
  <1>11. TableAligned(l, m, s)'
    BY <1>10 DEF TableAligned
  <1>12. lookup_nodes' = l
    BY <1>1 DEF Upload, localVars
  <1> QED BY <1>11, <1>12

LEMMA FirstUploadKeeps == ASSUME AnywhereInv, Upload, uploads = 2 PROVE AnywhereInv'
  <1>1. PICK m, b, old, l : /\ m = Len(nodes) + 1 /\ b = spans.bytes /\ old = IdealOf(tail)
                            /\ l = lookup_nodes
    OBVIOUS
  <1> DEFINE len == Len(ideal'[m])
  <1>2. /\ Keeps /\ TypeOK' /\ Ids' = Ids \union {m} /\ m \in Nat /\ \A n \in Ids : n < m
        /\ nodes'[m].spans.bytes = b /\ Lookup(m)' = l
        /\ b \in Span /\ b.start < b.end /\ b.start <= Len(old) /\ Len(old) \in Nat
        /\ ideal'[m] \in Seq(1..m) /\ b.end <= len /\ Len(old) <= len
        /\ \A i \in (b.start + 1)..b.end : ideal'[m][i] = m
    BY <1>1, UploadedDocument
  <1>3. /\ writer = "uploading" /\ writer' = "uploading" /\ uploads' = 1
        /\ UNCHANGED <<tail, spans, preceding, head, lookup_nodes>>
        /\ TypeOK /\ l \in Seq(Entries)
    BY <1>1 DEF Upload, localVars, AnywhereInv, TypeOK
  <1>4. TableReaches(l, b.start, Len(old)) /\ InIds(l)
    BY <1>1, <1>3 DEF AnywhereInv, WriterReaches, InIds, TableReaches, EntryReaches
  <1>5. TableReaches(Lookup(m), nodes[m].spans.bytes.start, Len(ideal[m]))'
    <2>1. len \in Nat
      BY <1>2
    <2>2. PICK c, s : c = len /\ s = b.start
      OBVIOUS
    <2>3. TableReaches(l, s, c)
      BY <1>2, <1>3, <1>4, <2>1, <2>2, LongerContent
    <2>4. TableReaches(l, s, c)'
      BY <1>2, <1>3, <2>3, KeepsReach
    <2> QED BY <1>2, <2>2, <2>4
  <1>6. UploadedReach'
    <2> SUFFICES ASSUME NEW n \in Ids \union {m}
                 PROVE  /\ nodes'[n].spans.bytes.start < nodes'[n].spans.bytes.end
                        /\ nodes'[n].spans.bytes.end <= Len(ideal'[n])
                        /\ ideal'[n] \in Seq(1..n)
                        /\ TableReaches(Lookup(n), nodes[n].spans.bytes.start, Len(ideal[n]))'
                        /\ \A k \in DOMAIN Lookup(n)' : Lookup(n)'[k].target < n
      BY <1>2 DEF UploadedReach
    <2>1. CASE n \in Ids
      BY <1>2, <2>1, KeepsDocument
    <2>2. CASE n = m
      BY <1>2, <1>4, <1>5, <2>2 DEF InIds
    <2> QED BY <2>1, <2>2
  <1>7. UploadedAligned'
    <2> SUFFICES ASSUME NEW n \in Ids \union {m}, Uncut(n)'
                 PROVE  /\ \A i \in (nodes'[n].spans.bytes.start + 1)..nodes'[n].spans.bytes.end :
                              ideal'[n][i] = n
                        /\ TableAligned(Lookup(n), n, nodes[n].spans.bytes.start)'
      BY <1>2 DEF UploadedAligned
    <2>1. CASE n \in Ids
      BY <1>2, <2>1, KeepsDocument
    <2>2. CASE n = m
      <3>1. Uncut(m)'
        BY <2>2
      <3>2. TableAligned(lookup_nodes, m, b.start)'
        BY <1>1, <3>1, UploadedAgrees
      <3>3. TableAligned(Lookup(m), m, nodes[m].spans.bytes.start)'
        BY <1>1, <1>2, <1>3, <3>2
      <3> QED BY <1>2, <2>2, <3>3
    <2> QED BY <2>1, <2>2
  <1>8. WriterReaches'
    <2>1. preceding # 0 => preceding \in Ids
      BY <1>3 DEF TypeOK, Ids
    <2> QED BY <1>2, <1>3, <2>1, WriterReachesAgain DEF AnywhereInv, WriterReaches, PrecedingReaches
  <1>9. WriterAligned'
    BY <1>3 DEF WriterAligned
  <1> QED BY <1>2, <1>6, <1>7, <1>8, <1>9 DEF AnywhereInv

----------------------------------------------------------------------------
(* Writes anywhere: every step.                                            *)

LEMMA InitAnywhere == Init => AnywhereInv
  <1> SUFFICES ASSUME Init PROVE AnywhereInv
    OBVIOUS
  <1>1. TypeOK
    BY FreshSpansType, SkystreamAssumption DEF Init, TypeOK
  <1>2. UploadedReach /\ UploadedAligned
    BY DEF Init, UploadedReach, UploadedAligned, Ids
  <1>3. WriterReaches /\ WriterAligned
    BY DEF Init, WriterReaches, WriterAligned
  <1> QED BY <1>1, <1>2, <1>3 DEF AnywhereInv

LEMMA NextAnywhere == ASSUME AnywhereInv, [Next]_vars PROVE AnywhereInv'
  <1>1. CASE Write
    BY <1>1, AppendKeeps, OverKeeps DEF Write
  <1>2. CASE MergeLoop
    BY <1>2, MergeKeepsAnywhere, SkipAndAssertKeep, StartKeeps DEF MergeLoop
  <1>3. CASE Upload
    BY <1>3, FirstUploadKeeps, SecondUploadKeeps
  <1>4. CASE Commit \/ Save \/ Restart
    BY <1>4, EndsKeep
  <1>5. CASE UNCHANGED vars
    <2>1. TypeOK'
      BY <1>5 DEF vars, AnywhereInv, TypeOK
    <2> QED BY <1>5, <2>1, SameWrite DEF vars
  <1> QED BY <1>1, <1>2, <1>3, <1>4, <1>5 DEF Next

----------------------------------------------------------------------------
(* Theorems.                                                               *)

LEMMA NextWriteInv == ASSUME ~RandomWrites, WriteInv, [Next]_vars PROVE WriteInv'
  <1>1. CASE Write
    <2>1. PICK n \in Sizes : WriteAppend(n)
      BY <1>1 DEF Write, WriteOver
    <2> QED BY <2>1, AppendKeepsWriteInv
  <1>2. CASE MergeLoop
    BY <1>2, MergeKeepsWriteInv, OtherKeepsWriteInv DEF MergeLoop
  <1>3. CASE Upload
    BY <1>3, FirstUploadKeepsWriteInv, SecondUploadKeepsWriteInv
  <1>4. CASE Commit \/ Save \/ Restart
    BY <1>4, CommitSaveRestartKeepWriteInv
  <1>5. CASE UNCHANGED vars
    <2>1. clock' \in Nat /\ (~ClockGoesBack => clock <= clock')
      BY <1>5 DEF vars, WriteInv, TypeOK
    <2>2. UploadedIsSound'
      BY <1>5, <2>1, UploadedKept DEF vars
    <2>3. Ids' = Ids /\ (\A name \in SpanNames : End(name)' = End(name)) /\ IdealOf(tail)' = IdealOf(tail)
      BY <1>5 DEF vars, Ids, End, SpansOf, IdealOf
    <2>4. TypeOK'
      BY <1>5 DEF vars, WriteInv, TypeOK
    <2>5. WriterIsSound'
      <3>1. WriterIsSound
        BY DEF WriteInv
      <3>2. Proper(spans)' = Proper(spans)
        BY <1>5 DEF vars, Proper
      <3>3. Chained(lookup_nodes, spans)' = Chained(lookup_nodes, spans)
        BY <1>5 DEF vars, Chained
      <3>4. Complete(lookup_nodes, spans)' = Complete(lookup_nodes, spans)
        BY <1>5, <2>3 DEF vars, Complete
      <3> QED BY <1>5, <2>3, <3>1, <3>2, <3>3, <3>4 DEF vars, WriterIsSound
    <2>6. UploadIsNewest'
      BY <1>5, <2>3 DEF vars, WriteInv, UploadIsNewest
    <2> QED BY <1>5, <2>2, <2>4, <2>5, <2>6 DEF vars, WriteInv
  <1> QED BY <1>1, <1>2, <1>3, <1>4, <1>5 DEF Next

\* For an appending program the invariant of write() holds in every state,
\* whatever the sizes of its writes, wherever it crashes and whatever its clock.
THEOREM WriteInvariant == ASSUME ~RandomWrites PROVE Spec => []WriteInv
  <1>1. Init => WriteInv
    BY InitWriteInv
  <1>2. WriteInv /\ [Next]_vars => WriteInv'
    BY NextWriteInv
  <1> QED BY <1>1, <1>2, PTL DEF Spec

\* The assertion of the merge loop (line 231) never fails when all writes
\* append and the clock does not go back.
THEOREM NeverAbortsHolds ==
    ASSUME ~RandomWrites, ~ClockGoesBack PROVE Spec => []NeverAborts
  <1>1. WriteInv => NeverAborts
    BY DEF WriteInv, NeverAborts
  <1> QED BY <1>1, WriteInvariant, PTL

\* An appending program implements GrowingStream: its content changes by whole
\* writes at the end and by restarts from the saved content only.
THEOREM Implementation == ASSUME ~RandomWrites PROVE Spec => ImplementsGrowingStream
  <1>1. Init => Stream!Init
    BY DEF Init, Stream!Init, IdealOf
  <1>2. ASSUME WriteInv, [Next]_vars PROVE [Stream!Next]_(Stream!vars)
    <2> DEFINE c == IdealOf(tail)
               d == IdealOf(saved)
    <2>0. tail \in 0..Len(nodes) /\ saved \in 0..Len(nodes) /\ Len(ideal) = Len(nodes)
          /\ ideal \in Seq(Seq(Nat \ {0})) /\ Len(nodes) \in Nat
      BY <1>2 DEF WriteInv, TypeOK
    <2>1. CASE UNCHANGED <<tail, saved, ideal>>
      BY <2>1 DEF Stream!vars, IdealOf
    <2>2. CASE Upload
      <3>1. UNCHANGED <<tail, saved>>
        BY <2>2 DEF Upload
      <3>2. \A n \in 1..Len(nodes) : ideal'[n] = ideal[n]
        <4> DEFINE new == Overlay(IdealOf(tail), spans.bytes)
        <4>1. ideal' = Append(ideal, new) \/ ideal' = ideal
          BY <2>2 DEF Upload
        <4> HIDE DEF new
        <4>2. \A n \in 1..Len(nodes) : Append(ideal, new)[n] = ideal[n]
          BY <2>0, AppendKeepsOld
        <4> QED BY <4>1, <4>2
      <3>3. IdealOf(tail)' = IdealOf(tail) /\ IdealOf(saved)' = IdealOf(saved)
        BY <2>0, <3>1, <3>2 DEF IdealOf
      <3> QED BY <3>3 DEF Stream!vars
    <2>3. CASE Commit
      <3>1. UNCHANGED <<saved, ideal, nodes>> /\ tail' = Len(nodes) /\ writer = "uploading" /\ uploads = 0
        BY <2>3 DEF Commit, NewestId
      <3>2. nodes # <<>> /\ IsStrictPrefix(IdealOf(tail), ideal[Len(nodes)])
        BY <3>1, <1>2 DEF WriteInv, UploadIsNewest
      <3>3. IdealOf(tail)' = ideal[Len(nodes)]
        BY <3>1, <3>2, <2>0 DEF IdealOf
      <3>4. IdealOf(saved)' = IdealOf(saved)
        BY <3>1 DEF IdealOf
      <3>5. IsStrictPrefix(IdealOf(tail), IdealOf(tail)')
        BY <3>2, <3>3
      <3>6. Stream!Write
        BY <3>4, <3>5 DEF Stream!Write, Stream!IsStrictPrefix, Stream!IsPrefix,
                          IsStrictPrefix, IsPrefix
      <3> QED BY <3>6 DEF Stream!Next
    <2>4. CASE Save
      <3>1. IdealOf(tail)' = IdealOf(tail) /\ IdealOf(saved)' = IdealOf(tail)
        BY <2>4 DEF Save, IdealOf
      <3> QED BY <3>1 DEF Stream!Next, Stream!Save
    <2>5. CASE Restart
      <3>1. IdealOf(tail)' = IdealOf(saved) /\ IdealOf(saved)' = IdealOf(saved)
        BY <2>5 DEF Restart, Restored, IdealOf
      <3> QED BY <3>1 DEF Stream!Next, Stream!Restart
    <2>6. CASE Write
      BY <2>1, <2>6 DEF Write, WriteAppend, WriteOver, Begin
    <2>7. CASE MergeLoop
      BY <2>1, <2>7 DEF MergeLoop, Merge, AssertFails, Skip, StartUploads
    <2>8. CASE UNCHANGED vars
      BY <2>1, <2>8 DEF vars
    <2> QED BY <1>2, <2>2, <2>3, <2>4, <2>5, <2>6, <2>7, <2>8 DEF Next
  <1> QED BY <1>1, <1>2, WriteInvariant, PTL DEF Spec, ImplementsGrowingStream, Stream!Spec

\* Whatever a program writes where, wherever it crashes and whatever its clock,
\* the tables of its documents reach what they are to reach, and until a write
\* begins inside a block they are followed only to what the content still has.
THEOREM AnywhereInvariant == Spec => []AnywhereInv
  <1>1. Init => AnywhereInv
    BY InitAnywhere
  <1>2. AnywhereInv /\ [Next]_vars => AnywhereInv'
    BY NextAnywhere
  <1> QED BY <1>1, <1>2, PTL DEF Spec

\* The variables keep their types (lines 98-324).
THEOREM TypeCorrect == Spec => []TypeOK
  <1>1. AnywhereInv => TypeOK
    BY DEF AnywhereInv
  <1> QED BY <1>1, AnywhereInvariant, PTL

\* Every byte before the end of an uploaded document can be followed to an
\* older document, down to the block that holds it (lines 160-247, 416-449).
THEOREM LookupsReachHolds == Spec => []LookupsReach
  <1>1. ASSUME AnywhereInv PROVE LookupsReach
    <2>1. \A n \in Ids : \A o \in 0..(nodes[n].spans.bytes.end - 1) : Reaches(n, o)
      BY <1>1, ReachesBefore
    <2>2. ASSUME NEW n \in Ids, NEW k \in DOMAIN Lookup(n)
          PROVE  /\ Lookup(n)[k].target \in 1..(n - 1)
                 /\ \A o \in Lookup(n)[k].spans.bytes.start..(Lookup(n)[k].spans.bytes.end - 1) :
                       Reaches(Lookup(n)[k].target, o)
      <3>1. EntryReaches(Lookup(n)[k], nodes[n].spans.bytes.start, Len(ideal[n]))
            /\ Lookup(n)[k].target < n
        BY <1>1 DEF AnywhereInv, UploadedReach, TableReaches
      <3>2. Lookup(n)[k].target \in Ids
        BY <3>1 DEF EntryReaches
      <3>3. Lookup(n)[k].target \in 1..(n - 1)
        BY <1>1, <3>1, <3>2, Bounds
      <3> QED BY <3>1, <3>3 DEF EntryReaches
    <2> QED BY <2>1, <2>2 DEF LookupsReach
  <1> QED BY <1>1, AnywhereInvariant, PTL

\* Until a write begins inside a block, every byte up to the end of the newest
\* block is found in the block that wrote it last (lines 98-247, 416-449).
THEOREM FindsReplacedHolds == Spec => []FindsReplaced
  <1>1. AnywhereInv => FindsReplaced
    BY FindsWritten DEF FindsReplaced
  <1> QED BY <1>1, AnywhereInvariant, PTL
============================================================================
