--------------------------- MODULE BufferedUpProofs ---------------------------
(* Proofs about BufferedUp, for every number of streams, every block size    *)
(* and every input: the inductive invariant, the safety properties that      *)
(* follow from it, and the steps of the implementation of UploadLog.         *)
EXTENDS BufferedUp, TLAPS, SequenceTheorems

----------------------------------------------------------------------------
(* The multimap.                                                            *)

\* Erasing one entry keeps every other entry and adds none (lines 177-182).
LEMMA EraseKeepsOthers ==
    ASSUME NEW up \in Seq(Entries), NEW e, NEW rest \in Erase(up, e)
    PROVE  /\ rest \in Seq(Entries)
           /\ \A f : f # e /\ Listed(up, f) => Listed(rest, f)
           /\ \A i \in DOMAIN rest : Listed(up, rest[i])
<1>1. CASE ~Listed(up, e)
  BY <1>1 DEF Erase, Listed
<1>2. CASE Listed(up, e)
  <2>1. PICK i \in 1..Len(up) : up[i] = e /\ rest = RemoveAt(up, i)
    BY <1>2 DEF Erase
  <2> DEFINE front == SubSeq(up, 1, i - 1)
             back  == SubSeq(up, i + 1, Len(up))
  <2>2. /\ front \in Seq(Entries)
        /\ Len(front) = i - 1
        /\ \A k \in 1..(i - 1) : front[k] = up[k]
    BY SubSeqProperties
  <2>3. /\ back \in Seq(Entries)
        /\ Len(back) = Len(up) - i
        /\ \A k \in 1..(Len(up) - i) : back[k] = up[k + i]
    BY SubSeqProperties
  <2> HIDE DEF front, back
  <2>4. rest = front \o back
    BY <2>1 DEF RemoveAt, front, back
  <2>5. /\ rest \in Seq(Entries)
        /\ Len(rest) = Len(up) - 1
        /\ \A k \in 1..Len(rest) : rest[k] = IF k < i THEN up[k] ELSE up[k + 1]
    <3>1. /\ front \o back \in Seq(Entries)
          /\ Len(front \o back) = Len(front) + Len(back)
          /\ \A k \in 1..(Len(front) + Len(back)) :
                (front \o back)[k] = IF k <= Len(front) THEN front[k] ELSE back[k - Len(front)]
      BY <2>2, <2>3, ConcatProperties
    <3>2. Len(rest) = Len(up) - 1
      BY <2>2, <2>3, <2>4, <3>1
    <3>3. ASSUME NEW k \in 1..Len(rest), k < i PROVE rest[k] = up[k]
      BY <2>2, <2>3, <2>4, <3>1, <3>2, <3>3
    <3>4. ASSUME NEW k \in 1..Len(rest), ~(k < i) PROVE rest[k] = up[k + 1]
      <4>1. k - Len(front) \in 1..(Len(up) - i)
        BY <2>2, <3>2, <3>4
      <4>2. rest[k] = back[k - Len(front)]
        BY <2>2, <2>3, <2>4, <3>1, <3>2, <3>4
      <4> QED BY <4>1, <4>2, <2>2, <2>3
    <3> QED BY <2>4, <3>1, <3>2, <3>3, <3>4
  <2>6. ASSUME NEW f, f # e, Listed(up, f) PROVE Listed(rest, f)
    <3>1. PICK j \in 1..Len(up) : up[j] = f
      BY <2>6 DEF Listed
    <3>2. CASE j < i
      BY <2>5, <3>1, <3>2 DEF Listed
    <3>3. CASE j > i
      <4>1. rest[j - 1] = f /\ j - 1 \in 1..Len(rest)
        BY <2>5, <3>1, <3>3
      <4> QED BY <4>1, <2>5 DEF Listed
    <3> QED BY <2>1, <2>6, <3>1, <3>2, <3>3
  <2>7. ASSUME NEW k \in DOMAIN rest PROVE Listed(up, rest[k])
    <3>1. k \in 1..Len(rest) /\ DOMAIN up = 1..Len(up)
      BY <2>5
    <3>2. k \in DOMAIN up /\ k + 1 \in DOMAIN up /\ (rest[k] = up[k] \/ rest[k] = up[k + 1])
      BY <2>5, <3>1
    <3> QED BY <3>2, Zenon DEF Listed
  <2> QED BY <2>5, <2>6, <2>7
<1> QED BY <1>1, <1>2

\* Emplacing an entry lists it, keeps the others and adds no other (line 186).
LEMMA EmplaceAddsOne ==
    ASSUME NEW up \in Seq(Entries), NEW e \in Entries, NEW res \in Emplace(up, e)
    PROVE  /\ res \in Seq(Entries)
           /\ Listed(res, e)
           /\ \A f : Listed(up, f) => Listed(res, f)
           /\ \A i \in DOMAIN res : res[i] = e \/ Listed(up, res[i])
<1>1. PICK i \in 1..(Len(up) + 1) : res = InsertAt(up, i, e)
  BY DEF Emplace
<1> DEFINE front == SubSeq(up, 1, i - 1)
           back  == SubSeq(up, i, Len(up))
<1>2. /\ front \in Seq(Entries)
      /\ Len(front) = i - 1
      /\ \A k \in 1..(i - 1) : front[k] = up[k]
  BY SubSeqProperties
<1>3. /\ back \in Seq(Entries)
      /\ Len(back) = Len(up) - i + 1
      /\ \A k \in 1..(Len(up) - i + 1) : back[k] = up[k + i - 1]
  BY SubSeqProperties
<1>4. /\ front \o <<e>> \in Seq(Entries)
      /\ Len(front \o <<e>>) = i
      /\ \A k \in 1..i : (front \o <<e>>)[k] = IF k < i THEN front[k] ELSE e
  BY <1>2, ConcatProperties
<1> HIDE DEF front, back
<1>5. res = (front \o <<e>>) \o back
  BY <1>1 DEF InsertAt, front, back
<1>6. /\ res \in Seq(Entries)
      /\ Len(res) = Len(up) + 1
      /\ \A k \in 1..Len(res) :
            res[k] = IF k < i THEN up[k] ELSE IF k = i THEN e ELSE up[k - 1]
  <2> DEFINE head == front \o <<e>>
  <2>1. /\ head \in Seq(Entries)
        /\ Len(head) = i
        /\ \A k \in 1..i : head[k] = IF k < i THEN up[k] ELSE e
    BY <1>2, <1>4
  <2>2. res = head \o back
    BY <1>5
  <2> HIDE DEF head
  <2>3. /\ head \o back \in Seq(Entries)
        /\ Len(head \o back) = Len(head) + Len(back)
        /\ \A k \in 1..(Len(head) + Len(back)) :
              (head \o back)[k] = IF k <= Len(head) THEN head[k] ELSE back[k - Len(head)]
    BY <1>3, <2>1, ConcatProperties
  <2>4. Len(res) = Len(up) + 1
    BY <1>3, <2>1, <2>2, <2>3
  <2>5. ASSUME NEW k \in 1..Len(res), k <= i
        PROVE  res[k] = IF k < i THEN up[k] ELSE e
    BY <1>3, <2>1, <2>2, <2>3, <2>4, <2>5
  <2>6. ASSUME NEW k \in 1..Len(res), k > i PROVE res[k] = up[k - 1]
    <3>1. k - Len(head) \in 1..(Len(up) - i + 1)
      BY <2>1, <2>4, <2>6
    <3>2. k \in 1..(Len(head) + Len(back)) /\ ~(k <= Len(head))
      BY <1>3, <2>1, <2>4, <2>6
    <3>3. res[k] = back[k - Len(head)]
      BY <2>2, <2>3, <3>2, Zenon
    <3> QED BY <1>3, <2>1, <3>1, <3>3
  <2> QED BY <2>2, <2>3, <2>4, <2>5, <2>6
<1>7. Listed(res, e)
  <2>1. i \in DOMAIN res /\ res[i] = e
    BY <1>6
  <2> QED BY <2>1, Zenon DEF Listed
<1>8. ASSUME NEW f, Listed(up, f) PROVE Listed(res, f)
  <2>1. PICK j \in 1..Len(up) : up[j] = f
    BY <1>8 DEF Listed
  <2>2. CASE j < i
    <3>1. res[j] = f /\ j \in DOMAIN res
      BY <1>6, <2>1, <2>2
    <3> QED BY <3>1, Zenon DEF Listed
  <2>3. CASE j >= i
    <3>1. res[j + 1] = f /\ j + 1 \in DOMAIN res
      BY <1>6, <2>1, <2>3
    <3> QED BY <3>1, Zenon DEF Listed
  <2> QED BY <2>1, <2>2, <2>3
<1>9. ASSUME NEW k \in DOMAIN res PROVE res[k] = e \/ Listed(up, res[k])
  BY <1>6, <1>9 DEF Listed
<1> QED BY <1>6, <1>7, <1>8, <1>9

----------------------------------------------------------------------------
(* Segments of a sequence: SubSeq(q, a + 1, b) has the elements after the    *)
(* first a up to the b-th.                                                   *)

LEMMA SegmentType ==
    ASSUME NEW S, NEW q \in Seq(S), NEW a \in Nat, NEW b \in Nat, a <= b, b <= Len(q)
    PROVE  /\ SubSeq(q, a + 1, b) \in Seq(S)
           /\ Len(SubSeq(q, a + 1, b)) = b - a
<1>1. \A i \in (a + 1)..b : q[i] \in S
  BY ElementOfSeq
<1> QED BY <1>1, SubSeqProperties

\* Two adjacent segments make one.
LEMMA SegmentJoin ==
    ASSUME NEW S, NEW q \in Seq(S), NEW a \in Nat, NEW b \in Nat, NEW c \in Nat,
           a <= b, b <= c, c <= Len(q)
    PROVE  SubSeq(q, a + 1, b) \o SubSeq(q, b + 1, c) = SubSeq(q, a + 1, c)
<1>1. a + 1 \in 1..(Len(q) + 1) /\ b \in ((a + 1) - 1)..Len(q) /\ c \in b..Len(q)
  OBVIOUS
<1> QED BY <1>1, ConcatAdjacentSubSeq

\* A prefix, and what follows it, make a longer prefix.
LEMMA PrefixJoin ==
    ASSUME NEW S, NEW q \in Seq(S), NEW b \in Nat, NEW c \in Nat, b <= c, c <= Len(q)
    PROVE  /\ SubSeq(q, 1, b) \o SubSeq(q, b + 1, c) = SubSeq(q, 1, c)
           /\ SubSeq(q, 1, b) \in Seq(S)
           /\ Len(SubSeq(q, 1, b)) = b
<1>1. 1 \in 1..(Len(q) + 1) /\ b \in (1 - 1)..Len(q) /\ c \in b..Len(q)
  OBVIOUS
<1>2. SubSeq(q, 1, b) \o SubSeq(q, b + 1, c) = SubSeq(q, 1, c)
  BY <1>1, ConcatAdjacentSubSeq
<1>3. \A i \in 1..b : q[i] \in S
  BY ElementOfSeq
<1>4. SubSeq(q, 1, b) \in Seq(S) /\ Len(SubSeq(q, 1, b)) = b
  BY <1>3, SubSeqProperties
<1> QED BY <1>2, <1>4

\* A segment can be split (xfer_net_up takes the front of the queue).
LEMMA SegmentSplit ==
    ASSUME NEW S, NEW q \in Seq(S), NEW a \in Nat, NEW b \in Nat, NEW n \in Nat,
           a + n <= b, b <= Len(q)
    PROVE  /\ SubSeq(SubSeq(q, a + 1, b), 1, n) = SubSeq(q, a + 1, a + n)
           /\ SubSeq(SubSeq(q, a + 1, b), n + 1, b - a) = SubSeq(q, a + n + 1, b)
<1> DEFINE t == SubSeq(q, a + 1, b)
<1>1. t \in Seq(S) /\ Len(t) = b - a
  BY SegmentType
<1>2. CASE n = 0 /\ a = b
  BY <1>2, SubSeqEmpty
<1>3. CASE n = 0 /\ a # b
  <2>1. SubSeq(t, 1, 0) = <<>> /\ SubSeq(q, a + 1, a) = <<>>
    BY SubSeqEmpty
  <2>2. SubSeq(t, 1, b - a) = t
    BY <1>1, SubSeqFull
  <2> QED BY <1>3, <2>1, <2>2
<1>4. CASE n > 0
  <2>1. SubSeq(t, 1, n) = SubSeq(q, a + 1, a + n)
    <3>1. a + 1 \in 1..Len(q) /\ b \in 1..Len(q)
          /\ 1 \in 1..(b - (a + 1) + 1) /\ n \in 1..(b - (a + 1) + 1)
      BY <1>4
    <3>2. SubSeq(t, 1, n) = SubSeq(q, (a + 1) + 1 - 1, (a + 1) + n - 1)
      BY <3>1, SubSeqOfSubSeq
    <3> QED BY <3>2
  <2>2. CASE a + n < b
    <3>1. a + 1 \in 1..Len(q) /\ b \in 1..Len(q)
          /\ n + 1 \in 1..(b - (a + 1) + 1) /\ b - a \in 1..(b - (a + 1) + 1)
      BY <1>4, <2>2
    <3>2. SubSeq(t, n + 1, b - a) = SubSeq(q, (a + 1) + (n + 1) - 1, (a + 1) + (b - a) - 1)
      BY <3>1, SubSeqOfSubSeq
    <3>3. (a + 1) + (n + 1) - 1 = a + n + 1 /\ (a + 1) + (b - a) - 1 = b
      OBVIOUS
    <3> QED BY <2>1, <3>2, <3>3
  <2>3. CASE a + n = b
    <3>1. SubSeq(t, n + 1, b - a) = <<>> /\ SubSeq(q, a + n + 1, b) = <<>>
      BY <2>3, SubSeqEmpty
    <3> QED BY <2>1, <3>1
  <2> QED BY <2>1, <2>2, <2>3
<1> QED BY <1>2, <1>3, <1>4

----------------------------------------------------------------------------
(* The inductive invariant holds at the start.                               *)

LEMMA BaseIsStored ==
    \A s \in Streams : /\ SubSeq(Input[s], 1, Base[s]) \in Seq(Bytes)
                       /\ Len(SubSeq(Input[s], 1, Base[s])) = Base[s]
<1> TAKE s \in Streams
<1>1. Input[s] \in Seq(Bytes) /\ Base[s] \in Nat /\ Base[s] <= Len(Input[s])
  BY UploadAssumption
<1>2. \A i \in 1..Base[s] : Input[s][i] \in Bytes
  BY <1>1, ElementOfSeq
<1> QED BY <1>1, <1>2, SubSeqProperties

THEOREM InitIInv == Init => IInv
<1> SUFFICES ASSUME Init PROVE IInv
  OBVIOUS
<1> USE DEF Init
<1>1. TypeOK
  BY BaseIsStored, UploadAssumption DEF TypeOK
<1>2. NotAddedYet /\ Segments /\ NeedyListed
  BY DEF NotAddedYet, Segments, NeedyListed
<1>3. PumpKnows /\ ProducerKnows /\ MainKnows
  BY UploadAssumption DEF PumpKnows, ProducerKnows, MainKnows
<1>4. TipSaved
  BY BaseIsStored DEF TipSaved
<1> QED BY <1>1, <1>2, <1>3, <1>4 DEF IInv

----------------------------------------------------------------------------
(* What a producer appends.                                                  *)

\* The part of a call that is queued in one turn is not empty, is no more than
\* is left, fits in the queue, and is in the input (lines 160-175).
LEMMA ChunkSize ==
    ASSUME IInv, NEW s \in Streams, prod[s] = "queueing", ~QueueIsFull(s)
    PROVE  /\ ToUpload(s) \in Nat
           /\ 0 < ToUpload(s)
           /\ ToUpload(s) <= left[s]
           /\ tailup[s] + ToUpload(s) <= Len(Input[s])
           /\ MaxBlockSize > 0 => Len(queueup[s]) + ToUpload(s) <= 2 * MaxBlockSize
<1> DEFINE l == Len(queueup[s])
           m == Len(Input[s])
<1>1. queueup[s] \in Seq(Bytes) /\ left[s] \in Nat /\ tailup[s] \in Nat
  BY DEF IInv, TypeOK
<1>2. MaxBlockSize \in Nat /\ Input[s] \in Seq(Bytes)
  BY UploadAssumption
<1>3. l \in Nat /\ m \in Nat
  BY <1>1, <1>2, LenProperties
<1>4. left[s] > 0 /\ tailup[s] + left[s] <= m
  BY DEF IInv, ProducerKnows
<1>5. MaxBlockSize > 0 => l < MaxBlockSize * 2
  BY <1>2, <1>3 DEF QueueIsFull
<1>6. CASE MaxBlockSize > 0 /\ l + left[s] > MaxBlockSize * 2
  <2>1. ToUpload(s) = MaxBlockSize * 2 - l
    BY <1>6 DEF ToUpload
  <2> HIDE DEF l, m
  <2>2. ToUpload(s) \in Nat /\ 0 < ToUpload(s) /\ ToUpload(s) <= left[s]
    BY <1>1, <1>2, <1>3, <1>5, <1>6, <2>1
  <2>3. tailup[s] + ToUpload(s) <= m /\ l + ToUpload(s) <= 2 * MaxBlockSize
    BY <1>1, <1>2, <1>3, <1>4, <2>1, <2>2
  <2> QED BY <2>2, <2>3 DEF l, m
<1>7. CASE ~(MaxBlockSize > 0 /\ l + left[s] > MaxBlockSize * 2)
  <2>1. ToUpload(s) = left[s]
    BY <1>7 DEF ToUpload
  <2>2. MaxBlockSize > 0 => l + left[s] <= 2 * MaxBlockSize
    <3> HIDE DEF l, m
    <3> QED BY <1>1, <1>2, <1>3, <1>7
  <2> QED BY <1>1, <1>4, <2>1, <2>2
<1> QED BY <1>6, <1>7

\* Relisting a stream lists it under its size, keeps the entries of the other
\* streams and invents none (lines 176-191).
LEMMA RelistKeepsOthers ==
    ASSUME TypeOK, NEW s \in Streams, NEW size \in Nat, Relist(s, size)
    PROVE  /\ up_priorities' \in Seq(Entries)
           /\ Listed(up_priorities', Entry(size, s))
           /\ \A t \in Streams \ {s} : \A p :
                 Listed(up_priorities, Entry(p, t)) => Listed(up_priorities', Entry(p, t))
           /\ \A i \in DOMAIN up_priorities' :
                 \/ up_priorities'[i] = Entry(size, s)
                 \/ Listed(up_priorities, up_priorities'[i])
           /\ pumpPc' = pumpPc \/ (pumpPc = "waiting" /\ pumpPc' = "loop")
<1>1. PICK rest \in WithoutOldEntry(s, size) :
          /\ up_priorities' \in Emplace(rest, Entry(size, s))
          /\ pumpPc' = IF pumpPc = "waiting" /\ IsNewBegin(rest, size) THEN "loop" ELSE pumpPc
  BY DEF Relist, NewEntry
<1>2. Entry(size, s) \in Entries
  BY DEF Entry, Entries
<1>3. up_priorities \in Seq(Entries)
  BY DEF TypeOK
<1>4. \A t \in Streams \ {s} : \A p : Entry(p, t) # Entry(uppriority[s], s)
  BY DEF Entry
<1>5. /\ rest \in Seq(Entries)
      /\ \A t \in Streams \ {s} : \A p :
            Listed(up_priorities, Entry(p, t)) => Listed(rest, Entry(p, t))
      /\ \A i \in DOMAIN rest : Listed(up_priorities, rest[i])
  <2>1. CASE size # uppriority[s]
    BY <1>1, <1>3, <1>4, <2>1, EraseKeepsOthers DEF WithoutOldEntry
  <2>2. CASE size = uppriority[s]
    BY <1>1, <1>3, <2>2 DEF WithoutOldEntry, Listed
  <2> QED BY <2>1, <2>2
<1>6. /\ up_priorities' \in Seq(Entries)
      /\ Listed(up_priorities', Entry(size, s))
      /\ \A f : Listed(rest, f) => Listed(up_priorities', f)
      /\ \A i \in DOMAIN up_priorities' :
            up_priorities'[i] = Entry(size, s) \/ Listed(rest, up_priorities'[i])
  BY <1>1, <1>2, <1>5, EmplaceAddsOne
<1>7. \A f : Listed(rest, f) => Listed(up_priorities, f)
  BY <1>5 DEF Listed
<1>8. pumpPc' = pumpPc \/ (pumpPc = "waiting" /\ pumpPc' = "loop")
  BY <1>1
<1>9. \A i \in DOMAIN up_priorities' :
         up_priorities'[i] = Entry(size, s) \/ Listed(up_priorities, up_priorities'[i])
  BY <1>6, <1>7
<1>10. \A t \in Streams \ {s} : \A p :
          Listed(up_priorities, Entry(p, t)) => Listed(up_priorities', Entry(p, t))
  BY <1>5, <1>6
<1> QED BY <1>6, <1>8, <1>9, <1>10

----------------------------------------------------------------------------
(* Every step preserves the inductive invariant.                             *)

\* The steps that move no bytes and list nothing: waiting, waking, picking,
\* starting a transfer, saving the tip, shutting down.
LEMMA QuietSteps ==
    ASSUME IInv,
           \/ PumpEmpty \/ PumpWait \/ PumpPick \/ XferIdle \/ XferStart \/ UpCallback
           \/ StopGroup \/ StopNotify \/ Join \/ SpuriousWakeup
           \/ \E s \in Streams :
                 \/ QueueWait(s) \/ StopStream(s)
                 \/ \E n \in CallSizes : QueueLocalUp(s, n)
    PROVE  IInv'
<1> USE DEF groupVars, prodVars, pumpVars, NotifyUploaded, WakePump, NothingListed, NextOffset
<1>0. UNCHANGED <<streams, up_priorities, queueup, tailup, offsetup, uppriority, stored>>
  BY DEF PumpEmpty, PumpWait, PumpPick, XferIdle, XferStart, UpCallback, StopGroup,
         StopNotify, Join, SpuriousWakeup, QueueWait, StopStream, QueueLocalUp
<1>1. TypeOK'
  <2>1. TypeOK /\ CallSizes \subseteq Nat \ {0}
    BY UploadAssumption DEF IInv
  <2>2. CASE PumpPick
    <3>1. Head(up_priorities) \in Entries
      BY <2>1, <2>2, HeadTailProperties DEF TypeOK, PumpPick
    <3> QED BY <2>1, <2>2, <3>1 DEF TypeOK, PumpPick, Entries
  <2>3. CASE PumpEmpty \/ PumpWait \/ XferIdle \/ XferStart
    BY <2>1, <2>3 DEF TypeOK, PumpEmpty, PumpWait, XferIdle, XferStart
  <2>4. CASE UpCallback
    BY <2>1, <2>4 DEF TypeOK, UpCallback
  <2>5. CASE StopGroup \/ StopNotify \/ Join \/ SpuriousWakeup
    BY <2>1, <2>5 DEF TypeOK, StopGroup, StopNotify, Join, SpuriousWakeup
  <2>6. CASE \E s \in Streams : \/ QueueWait(s) \/ StopStream(s)
                                \/ \E n \in CallSizes : QueueLocalUp(s, n)
    BY <2>1, <2>6 DEF TypeOK, QueueWait, StopStream, QueueLocalUp
  <2> QED BY <2>2, <2>3, <2>4, <2>5, <2>6
<1>2. pumpPc \in {"write", "commit"} => pumpPc' = pumpPc /\ UNCHANGED <<stream, data>>
  BY DEF PumpEmpty, PumpWait, PumpPick, XferIdle, XferStart, UpCallback, StopGroup,
         StopNotify, Join, SpuriousWakeup, QueueWait, StopStream, QueueLocalUp
<1>3. pumpPc' \in {"write", "commit"} => pumpPc' = pumpPc /\ UNCHANGED <<stream, data>>
  BY DEF PumpEmpty, PumpWait, PumpPick, XferIdle, XferStart, UpCallback, StopGroup,
         StopNotify, Join, SpuriousWakeup, QueueWait, StopStream, QueueLocalUp
<1>4. NotAddedYet'
  <2>1. TypeOK /\ NotAddedYet /\ PumpKnows /\ ProducerKnows
    BY DEF IInv
  <2>2. CASE PumpPick
    <3>1. 1 \in DOMAIN up_priorities /\ Head(up_priorities) = up_priorities[1]
      BY <2>1, <2>2 DEF TypeOK, PumpPick
    <3>2. stream' \in streams
      BY <2>1, <2>2, <3>1 DEF PumpKnows, PumpPick
    <3> QED BY <2>1, <2>2, <3>2 DEF NotAddedYet, PumpPick
  <2>3. CASE PumpEmpty \/ PumpWait \/ XferIdle \/ XferStart \/ UpCallback
    BY <2>1, <2>3 DEF TypeOK, NotAddedYet, PumpEmpty, PumpWait, XferIdle, XferStart, UpCallback
  <2>4. CASE StopGroup \/ StopNotify \/ Join \/ SpuriousWakeup
    <3>1. \A t \in Streams : prod[t] = "idle" => prod'[t] = "idle"
      BY <2>1, <2>4 DEF TypeOK, StopGroup, StopNotify, Join, SpuriousWakeup
    <3>2. UNCHANGED <<saved, stream>> /\ (pumpPc' = pumpPc \/ pumpPc' = "loop")
      BY <2>4 DEF StopGroup, StopNotify, Join, SpuriousWakeup
    <3> QED BY <1>0, <2>1, <3>1, <3>2 DEF NotAddedYet
  <2>5. CASE \E s \in Streams : \/ QueueWait(s) \/ StopStream(s)
                                \/ \E n \in CallSizes : QueueLocalUp(s, n)
    <3>1. PICK s \in Streams : \/ QueueWait(s) \/ StopStream(s)
                               \/ \E n \in CallSizes : QueueLocalUp(s, n)
      BY <2>5
    <3>2. s \in streams
      BY <2>1, <3>1 DEF ProducerKnows, QueueWait, StopStream, QueueLocalUp
    <3>3. \A t \in Streams \ streams : prod'[t] = prod[t]
      BY <2>1, <3>1, <3>2 DEF TypeOK, QueueWait, StopStream, QueueLocalUp
    <3>4. UNCHANGED <<saved, stream>> /\ (pumpPc' = pumpPc \/ pumpPc' = "loop")
      BY <3>1 DEF QueueWait, StopStream, QueueLocalUp
    <3> QED BY <1>0, <2>1, <3>3, <3>4 DEF NotAddedYet
  <2> QED BY <2>2, <2>3, <2>4, <2>5
<1>5. Segments'
  <2>1. \A s \in streams : Uncounted(s)' = Uncounted(s)
    BY <1>2, <1>3 DEF Uncounted
  <2>2. \A s \in streams : Taken(s)' = Taken(s)
    BY <1>0, <2>1 DEF Taken
  <2>3. \A s \in streams : Published(s)' = Published(s)
    BY <1>0, <1>2, <1>3, <2>2 DEF Published
  <2> QED BY <1>0, <2>1, <2>2, <2>3 DEF IInv, Segments, SegmentsOf
<1>6. NeedyListed'
  BY <1>0 DEF IInv, NeedyListed
<1>7. PumpKnows'
  <2>1. TypeOK /\ PumpKnows
    BY DEF IInv
  <2>2. CASE XferStart
    <3>1. stream \in streams /\ Uncounted(stream) = <<>>
      BY <2>1, <2>2 DEF IInv, NotAddedYet, TypeOK, XferStart, Uncounted
    <3>2. Taken(stream) = offsetup[stream]
      BY <2>1, <3>1 DEF Taken, TypeOK
    <3>3. /\ offsetup[stream] < tailup[stream]
          /\ tailup[stream] <= Len(Input[stream])
          /\ queueup[stream] = SubSeq(Input[stream], offsetup[stream] + 1, tailup[stream])
      <4>1. /\ offsetup[stream] <= tailup[stream]
            /\ tailup[stream] <= Len(Input[stream])
            /\ queueup[stream] = SubSeq(Input[stream], offsetup[stream] + 1, tailup[stream])
        BY <3>1, <3>2 DEF IInv, Segments, SegmentsOf
      <4>2. offsetup[stream] # tailup[stream]
        BY <2>2 DEF XferStart
      <4>3. offsetup[stream] \in Nat /\ tailup[stream] \in Nat
        BY <2>1 DEF TypeOK
      <4> QED BY <4>1, <4>2, <4>3
    <3>4. offsetup[stream] \in Nat /\ tailup[stream] \in Nat /\ Input[stream] \in Seq(Bytes)
      BY <2>1, UploadAssumption DEF TypeOK
    <3>5. queueup[stream] # <<>>
      <4>1. Len(queueup[stream]) = tailup[stream] - offsetup[stream]
        BY <3>3, <3>4, SegmentType
      <4>2. Len(queueup[stream]) # 0
        BY <3>3, <3>4, <4>1
      <4> QED BY <4>2
    <3>6. uppriority[stream] > 0
      BY <2>1, <3>5 DEF IInv, NeedyListed, TypeOK
    <3> QED BY <2>1, <2>2, <3>5, <3>6 DEF PumpKnows, TypeOK, XferStart
  <2>3. CASE PumpEmpty \/ PumpWait \/ PumpPick \/ XferIdle
    BY <2>1, <2>3 DEF PumpKnows, PumpEmpty, PumpWait, PumpPick, XferIdle
  <2>4. CASE UpCallback
    BY <2>1, <2>4 DEF PumpKnows, UpCallback
  <2>5. CASE StopGroup \/ StopNotify \/ Join \/ SpuriousWakeup
    BY <2>1, <2>5 DEF TypeOK, PumpKnows, StopGroup, StopNotify, Join, SpuriousWakeup
  <2>6. CASE \E s \in Streams : \/ QueueWait(s) \/ StopStream(s)
                                \/ \E n \in CallSizes : QueueLocalUp(s, n)
    BY <2>1, <2>6 DEF TypeOK, PumpKnows, QueueWait, StopStream, QueueLocalUp
  <2> QED BY <2>2, <2>3, <2>4, <2>5, <2>6
<1>8. ProducerKnows'
  <2>1. TypeOK /\ ProducerKnows
    BY DEF IInv
  <2>2. CASE \E s \in Streams : \E n \in CallSizes : QueueLocalUp(s, n)
    <3>1. PICK s \in Streams, n \in CallSizes : QueueLocalUp(s, n)
      BY <2>2
    <3>2. n \in Nat /\ n > 0 /\ Len(Input[s]) \in Nat
      BY UploadAssumption
    <3>3. tailup[s] + n <= Len(Input[s])
      <4>1. n <= Len(Input[s]) - tailup[s]
        BY <3>1 DEF QueueLocalUp
      <4>2. tailup[s] \in Nat
        BY <2>1 DEF TypeOK
      <4> QED BY <3>2, <4>1, <4>2
    <3>4. /\ prod' = [prod EXCEPT ![s] = "queueing"]
          /\ left' = [left EXCEPT ![s] = n]
          /\ s \in streams /\ main = "running" /\ main' = main
      BY <3>1 DEF QueueLocalUp
    <3>5. ASSUME NEW t \in Streams, prod'[t] # "idle"
          PROVE  /\ t \in streams' /\ main' = "running"
                 /\ left'[t] > 0
                 /\ tailup'[t] + left'[t] <= Len(Input[t])
      BY <1>0, <2>1, <3>2, <3>3, <3>4, <3>5 DEF TypeOK, ProducerKnows
    <3>6. \A t \in Streams : MaxBlockSize > 0 => Len(queueup'[t]) <= 2 * MaxBlockSize
      BY <1>0, <2>1 DEF ProducerKnows
    <3> QED BY <3>5, <3>6 DEF ProducerKnows
  <2>3. CASE \E s \in Streams : QueueWait(s) \/ StopStream(s)
    BY <1>0, <2>1, <2>3 DEF TypeOK, ProducerKnows, QueueWait, StopStream
  <2>4. CASE PumpEmpty \/ PumpWait \/ PumpPick \/ XferIdle \/ XferStart \/ UpCallback
    BY <1>0, <2>1, <2>4 DEF TypeOK, ProducerKnows, PumpEmpty, PumpWait, PumpPick, XferIdle,
       XferStart, UpCallback
  <2>5. CASE StopGroup \/ StopNotify \/ Join \/ SpuriousWakeup
    BY <1>0, <2>1, <2>5 DEF TypeOK, ProducerKnows, StopGroup, StopNotify, Join, SpuriousWakeup
  <2> QED BY <2>2, <2>3, <2>4, <2>5
<1>9. TipSaved'
  <2>1. TypeOK /\ TipSaved
    BY DEF IInv
  <2>2. CASE UpCallback
    BY <2>1, <2>2 DEF TypeOK, TipSaved, UpCallback
  <2>3. CASE PumpEmpty \/ PumpWait \/ PumpPick \/ XferIdle \/ XferStart
    BY <2>1, <2>3 DEF TipSaved, PumpEmpty, PumpWait, PumpPick, XferIdle, XferStart
  <2>4. CASE StopGroup \/ StopNotify \/ Join \/ SpuriousWakeup
    BY <2>1, <2>4 DEF TipSaved, StopGroup, StopNotify, Join, SpuriousWakeup
  <2>5. CASE \E s \in Streams : \/ QueueWait(s) \/ StopStream(s)
                                \/ \E n \in CallSizes : QueueLocalUp(s, n)
    BY <2>1, <2>5 DEF TipSaved, QueueWait, StopStream, QueueLocalUp
  <2> QED BY <2>2, <2>3, <2>4, <2>5
<1>10. MainKnows'
  <2>1. MainKnows
    BY DEF IInv
  <2>2. CASE PumpEmpty
    <3>1. \A s \in Streams : queueup[s] = <<>>
      BY <2>2 DEF IInv, NeedyListed, Listed, PumpEmpty
    <3> QED BY <2>1, <2>2, <3>1 DEF MainKnows, PumpEmpty
  <2>3. CASE PumpWait \/ PumpPick \/ XferIdle \/ XferStart \/ UpCallback
    BY <2>1, <2>3 DEF MainKnows, PumpWait, PumpPick, XferIdle, XferStart, UpCallback
  <2>4. CASE StopGroup \/ StopNotify \/ Join \/ SpuriousWakeup
    BY <2>1, <2>4 DEF MainKnows, StopGroup, StopNotify, Join, SpuriousWakeup
  <2>5. CASE \E s \in Streams : \/ QueueWait(s) \/ StopStream(s)
                                \/ \E n \in CallSizes : QueueLocalUp(s, n)
    BY <2>1, <2>5 DEF MainKnows, QueueWait, StopStream, QueueLocalUp
  <2> QED BY <2>2, <2>3, <2>4, <2>5
<1> QED BY <1>1, <1>4, <1>5, <1>6, <1>7, <1>8, <1>9, <1>10 DEF IInv

\* A new stream starts with everything it holds counted as uploaded.
LEMMA AddStep ==
    ASSUME IInv, NEW s \in Streams, Add(s)
    PROVE  IInv'
<1> USE DEF groupVars, prodVars, pumpVars
<1>0. /\ s \notin streams
      /\ streams' = streams \union {s}
      /\ pumpPc' = pumpPc \/ (pumpPc = "waiting" /\ pumpPc' = "loop")
      /\ UNCHANGED <<groupPumping, up_priorities, queueup, stored, saved, prod, left, stream,
                     offset, data, main>>
  BY DEF Add
<1>1. /\ Len(stored[s]) = Base[s] /\ Base[s] \in Nat /\ Base[s] <= Len(Input[s])
      /\ stored[s] = SubSeq(Input[s], 1, Base[s])
  BY <1>0, BaseIsStored, UploadAssumption DEF IInv, NotAddedYet
<1>2. /\ tailup' = [tailup EXCEPT ![s] = Base[s]]
      /\ offsetup' = [offsetup EXCEPT ![s] = Base[s]]
      /\ uppriority' = [uppriority EXCEPT ![s] = 0]
  BY <1>1 DEF Add
<1>3. TypeOK'
  <2>1. TypeOK /\ pumping' = [pumping EXCEPT ![s] = groupPumping]
    BY DEF IInv, Add
  <2>2. /\ tailup' \in [Streams -> Nat] /\ offsetup' \in [Streams -> Nat]
        /\ uppriority' \in [Streams -> Nat] /\ pumping' \in [Streams -> BOOLEAN]
    BY <1>1, <1>2, <2>1 DEF TypeOK
  <2> QED BY <1>0, <2>1, <2>2 DEF TypeOK
<1>4. /\ Uncounted(s) = <<>> /\ Uncounted(s)' = <<>>
      /\ queueup[s] = <<>> /\ prod[s] = "idle"
      /\ stream = s => pumpPc' \in {"loop", "checked", "waiting", "done"}
  BY <1>0 DEF IInv, NotAddedYet, Uncounted, InFlight
<1>5. NotAddedYet'
  <2>1. \A t \in Streams \ streams' : tailup'[t] = tailup[t] /\ offsetup'[t] = offsetup[t]
    BY <1>0, <1>2 DEF IInv, TypeOK
  <2> QED BY <1>0, <2>1 DEF IInv, NotAddedYet
<1>6. Segments'
  <2>1. ASSUME NEW t \in streams PROVE SegmentsOf(t)'
    <3>1. offsetup'[t] = offsetup[t] /\ tailup'[t] = tailup[t]
      BY <1>0, <1>2 DEF IInv, TypeOK
    <3>2. Uncounted(t)' = Uncounted(t)
      BY <1>0 DEF Uncounted
    <3>3. Taken(t)' = Taken(t) /\ Published(t)' = Published(t)
      BY <1>0, <3>1, <3>2 DEF Taken, Published
    <3> QED BY <1>0, <3>1, <3>2, <3>3 DEF IInv, Segments, SegmentsOf
  <2>2. Taken(s)' = Base[s] /\ tailup'[s] = Base[s] /\ offsetup'[s] = Base[s]
    <3>1. tailup'[s] = Base[s] /\ offsetup'[s] = Base[s]
      BY <1>2 DEF IInv, TypeOK
    <3>2. Taken(s)' = offsetup'[s] + 0
      BY <1>4 DEF Taken
    <3> QED BY <1>1, <3>1, <3>2
  <2>3. Published(s)' = Base[s]
    BY <2>2 DEF Published
  <2>4. SubSeq(Input[s], Base[s] + 1, Base[s]) = <<>>
    BY <1>1, SubSeqEmpty
  <2>5. SegmentsOf(s)'
    BY <1>0, <1>1, <1>4, <2>2, <2>3, <2>4 DEF SegmentsOf
  <2> QED BY <1>0, <2>1, <2>5 DEF Segments
<1>7. NeedyListed'
  BY <1>0, <1>2, <1>4 DEF IInv, TypeOK, NeedyListed
<1>8. PumpKnows'
  BY <1>0, <1>2, <1>4 DEF IInv, TypeOK, PumpKnows
<1>9. ProducerKnows'
  BY <1>0, <1>2, <1>4 DEF IInv, TypeOK, ProducerKnows
<1>10. TipSaved'
  BY <1>0 DEF IInv, TipSaved
<1>11. MainKnows'
  BY <1>0 DEF IInv, MainKnows
<1> QED BY <1>3, <1>5, <1>6, <1>7, <1>8, <1>9, <1>10, <1>11 DEF IInv

\* A producer queues the next bytes of the input.
LEMMA QueueChunkStep ==
    ASSUME IInv, NEW s \in Streams, QueueChunk(s)
    PROVE  IInv'
<1> USE DEF groupVars, prodVars, pumpVars
<1> DEFINE n == ToUpload(s)
           size == Len(queueup[s]) + n
           chunk == SubSeq(Input[s], tailup[s] + 1, tailup[s] + n)
<1>1. /\ TypeOK /\ s \in streams /\ main = "running"
      /\ prod[s] = "queueing" /\ ~QueueIsFull(s)
      /\ tailup' = [tailup EXCEPT ![s] = @ + n]
      /\ queueup' = [queueup EXCEPT ![s] = @ \o chunk]
      /\ uppriority' = [uppriority EXCEPT ![s] = size]
      /\ left' = [left EXCEPT ![s] = @ - n]
      /\ prod' = [prod EXCEPT ![s] = IF left[s] = n THEN "idle" ELSE "queueing"]
      /\ UNCHANGED <<streams, groupPumping, pumping, main, offsetup, stored, saved, stream,
                     offset, data>>
  BY DEF QueueChunk, IInv, ProducerKnows
<1>2. /\ n \in Nat /\ 0 < n /\ n <= left[s]
      /\ tailup[s] + n <= Len(Input[s])
      /\ MaxBlockSize > 0 => Len(queueup[s]) + n <= 2 * MaxBlockSize
  BY <1>1, ChunkSize
<1>3. /\ tailup[s] \in Nat /\ left[s] \in Nat /\ offsetup[s] \in Nat
      /\ Input[s] \in Seq(Bytes) /\ queueup[s] \in Seq(Bytes)
  BY <1>1, UploadAssumption DEF TypeOK
<1> HIDE DEF n
<1>4. chunk \in Seq(Bytes) /\ Len(chunk) = n
  <2>1. tailup[s] + n \in Nat /\ tailup[s] <= tailup[s] + n
    BY <1>2, <1>3
  <2> DEFINE q == Input[s]
             a == tailup[s]
             b == tailup[s] + n
  <2>2. q \in Seq(Bytes) /\ a \in Nat /\ b \in Nat /\ a <= b /\ b <= Len(q)
    BY <1>2, <1>3, <2>1
  <2>3. SubSeq(q, a + 1, b) \in Seq(Bytes) /\ Len(SubSeq(q, a + 1, b)) = b - a
    <3> HIDE DEF q, a, b
    <3> QED BY <2>2, SegmentType, Zenon
  <2>4. chunk = SubSeq(q, a + 1, b)
    OBVIOUS
  <2>5. b - a = n
    BY <1>2, <1>3
  <2> HIDE DEF chunk, q, a, b
  <2> QED BY <2>3, <2>4, <2>5
<1> HIDE DEF chunk
<1>5. /\ queueup'[s] = queueup[s] \o chunk
      /\ queueup'[s] \in Seq(Bytes)
      /\ Len(queueup'[s]) = size
      /\ size \in Nat /\ size > 0
  <2>1. queueup'[s] = queueup[s] \o chunk
    BY <1>1 DEF TypeOK
  <2>2. /\ queueup[s] \o chunk \in Seq(Bytes)
        /\ Len(queueup[s] \o chunk) = Len(queueup[s]) + Len(chunk)
    BY <1>3, <1>4, ConcatProperties
  <2>3. Len(queueup[s]) \in Nat
    BY <1>3, LenProperties
  <2> QED BY <1>2, <1>4, <2>1, <2>2, <2>3
<1>6. Relist(s, size)
  BY DEF QueueChunk, n
<1> HIDE DEF size
<1>7. /\ up_priorities' \in Seq(Entries)
      /\ Listed(up_priorities', Entry(size, s))
      /\ \A t \in Streams \ {s} : \A p :
            Listed(up_priorities, Entry(p, t)) => Listed(up_priorities', Entry(p, t))
      /\ \A i \in DOMAIN up_priorities' :
            \/ up_priorities'[i] = Entry(size, s)
            \/ Listed(up_priorities, up_priorities'[i])
      /\ pumpPc' = pumpPc \/ (pumpPc = "waiting" /\ pumpPc' = "loop")
  BY <1>1, <1>5, <1>6, RelistKeepsOthers
<1>8. TypeOK'
  <2>1. left[s] - n \in Nat /\ tailup[s] + n \in Nat
    BY <1>2, <1>3
  <2>2. /\ tailup' \in [Streams -> Nat] /\ left' \in [Streams -> Nat]
        /\ uppriority' \in [Streams -> Nat]
        /\ prod' \in [Streams -> {"idle", "queueing", "waiting"}]
    BY <1>1, <1>5, <2>1 DEF TypeOK
  <2>3. queueup' \in [Streams -> Seq(Bytes)]
    <3>1. queueup' = [queueup EXCEPT ![s] = queueup'[s]]
      BY <1>1 DEF TypeOK
    <3> QED BY <1>1, <1>5, <3>1 DEF TypeOK
  <2>4. pumpPc' \in {"loop", "checked", "waiting", "xfer", "take", "write", "commit",
                     "finish", "callback", "done"}
    BY <1>1, <1>7 DEF TypeOK
  <2> QED BY <1>1, <1>7, <2>2, <2>3, <2>4 DEF TypeOK
<1>9. NotAddedYet'
  BY <1>1, <1>7 DEF IInv, TypeOK, NotAddedYet
<1>10. Segments'
  <2>1. ASSUME NEW t \in streams
        PROVE  /\ Taken(t)' = Taken(t) /\ Published(t)' = Published(t)
               /\ Uncounted(t)' = Uncounted(t)
    BY <1>1, <1>7 DEF Taken, Uncounted, Published
  <2>2. Taken(s) \in Nat /\ Taken(s) <= tailup[s]
    <3>1. Uncounted(s) \in Seq(Bytes)
      BY <1>1 DEF Uncounted, TypeOK
    <3>2. Len(Uncounted(s)) \in Nat
      BY <3>1, LenProperties
    <3> QED BY <1>1, <1>3, <3>2 DEF IInv, Segments, SegmentsOf, Taken
  <2>3. queueup'[s] = SubSeq(Input[s], Taken(s) + 1, tailup[s] + n)
    <3>1. queueup[s] = SubSeq(Input[s], Taken(s) + 1, tailup[s])
      BY <1>1 DEF IInv, Segments, SegmentsOf
    <3>2. tailup[s] + n \in Nat /\ tailup[s] <= tailup[s] + n
      BY <1>2, <1>3
    <3> DEFINE q == Input[s]
               a == Taken(s)
               b == tailup[s]
               c == tailup[s] + n
    <3>3. /\ q \in Seq(Bytes) /\ a \in Nat /\ b \in Nat /\ c \in Nat
          /\ a <= b /\ b <= c /\ c <= Len(q)
      BY <1>2, <1>3, <2>2, <3>2
    <3>4. SubSeq(q, a + 1, b) \o SubSeq(q, b + 1, c) = SubSeq(q, a + 1, c)
      <4> HIDE DEF q, a, b, c
      <4> QED BY <3>3, SegmentJoin, Zenon
    <3> QED BY <1>5, <3>1, <3>4 DEF chunk
  <2>4. tailup'[s] = tailup[s] + n /\ Taken(s) <= tailup[s] + n
    BY <1>1, <1>2, <1>3, <2>2 DEF TypeOK
  <2>5. \A t \in streams \ {s} : tailup'[t] = tailup[t] /\ queueup'[t] = queueup[t]
    BY <1>1 DEF TypeOK
  <2> QED BY <1>1, <1>2, <2>1, <2>3, <2>4, <2>5 DEF IInv, Segments, SegmentsOf
<1>11. NeedyListed'
  BY <1>1, <1>5, <1>7 DEF IInv, TypeOK, NeedyListed
<1>12. PumpKnows'
  <2>1. /\ uppriority'[s] > 0 /\ queueup'[s] # <<>>
        /\ \A t \in Streams \ {s} : uppriority'[t] = uppriority[t] /\ queueup'[t] = queueup[t]
    BY <1>1, <1>5 DEF TypeOK
  <2>2. \A i \in DOMAIN up_priorities' :
           up_priorities'[i].priority # 0 /\ up_priorities'[i].stream \in streams'
    BY <1>1, <1>5, <1>7 DEF IInv, PumpKnows, Listed, Entry
  <2> QED BY <1>1, <1>7, <2>1, <2>2 DEF IInv, TypeOK, PumpKnows
<1>13. ProducerKnows'
  <2>1. \A t \in Streams \ {s} : /\ tailup'[t] = tailup[t] /\ queueup'[t] = queueup[t]
                                 /\ left'[t] = left[t] /\ prod'[t] = prod[t]
    BY <1>1 DEF TypeOK
  <2>2. MaxBlockSize > 0 => Len(queueup'[s]) <= 2 * MaxBlockSize
    BY <1>2, <1>5 DEF size
  <2>3. ASSUME prod'[s] # "idle" PROVE left'[s] > 0 /\ tailup'[s] + left'[s] <= Len(Input[s])
    <3>1. left'[s] = left[s] - n /\ tailup'[s] = tailup[s] + n /\ left[s] # n
      BY <1>1, <2>3 DEF TypeOK
    <3>2. tailup[s] + left[s] <= Len(Input[s])
      BY <1>1 DEF IInv, ProducerKnows
    <3> QED BY <1>2, <1>3, <3>1, <3>2
  <2> QED BY <1>1, <2>1, <2>2, <2>3 DEF IInv, ProducerKnows
<1>14. TipSaved'
  BY <1>1, <1>7 DEF IInv, TipSaved
<1>15. MainKnows'
  BY <1>1, <1>7 DEF IInv, MainKnows
<1> QED BY <1>8, <1>9, <1>10, <1>11, <1>12, <1>13, <1>14, <1>15 DEF IInv

\* how the pump's stream and the others look inside a transfer
LEMMA PumpStream ==
    ASSUME IInv, pumpPc \in {"take", "write", "commit", "finish"}
    PROVE  /\ TypeOK
           /\ stream \in streams
           /\ \A s \in Streams \ {stream} : Uncounted(s) = <<>>
           /\ \A s \in Streams : Taken(s) \in Nat
           /\ Input[stream] \in Seq(Bytes)
           /\ tailup[stream] \in Nat /\ offsetup[stream] \in Nat
           /\ Len(data) \in Nat
<1>1. TypeOK
  BY DEF IInv
<1>2. Input[stream] \in Seq(Bytes) /\ tailup[stream] \in Nat /\ offsetup[stream] \in Nat
  BY <1>1, UploadAssumption DEF TypeOK
<1>3. stream \in streams
  BY <1>1 DEF IInv, TypeOK, NotAddedYet
<1>4. \A s \in Streams \ {stream} : Uncounted(s) = <<>>
  BY DEF Uncounted
<1>5. Len(data) \in Nat
  BY <1>1, LenProperties DEF TypeOK
<1>6. ASSUME NEW s \in Streams PROVE Taken(s) \in Nat
  <2>1. offsetup[s] \in Nat /\ (Uncounted(s) = data \/ Uncounted(s) = <<>>)
    BY <1>1 DEF TypeOK, Uncounted
  <2> QED BY <1>5, <2>1 DEF Taken
<1> QED BY <1>1, <1>2, <1>3, <1>4, <1>5, <1>6

\* The pump takes a block from the front of the queue.
LEMMA XferTakeStep ==
    ASSUME IInv, XferTake
    PROVE  IInv'
<1> USE DEF groupVars, prodVars, pumpVars
<1> DEFINE q == queueup[stream]
           l == Len(q)
           n == BlockLength(l)
<1>1. /\ pumpPc = "take"
      /\ data' = SubSeq(q, 1, n)
      /\ queueup' = [queueup EXCEPT ![stream] = SubSeq(q, n + 1, l)]
      /\ pumpPc' = IF n = 0 THEN "finish" ELSE "write"
      /\ UNCHANGED <<streams, groupPumping, pumping, main, up_priorities, tailup, offsetup,
                     uppriority, stored, saved, prod, left, stream, offset>>
  BY DEF XferTake, Untaken
<1>2. /\ TypeOK /\ stream \in streams /\ stream \in Streams
      /\ tailup[stream] \in Nat /\ offsetup[stream] \in Nat
      /\ Input[stream] \in Seq(Bytes)
  BY <1>1, PumpStream DEF TypeOK
<1>3. Taken(stream) = offsetup[stream] /\ Published(stream) = offsetup[stream]
  BY <1>1, <1>2 DEF Uncounted, Published, Taken
<1>4. /\ offsetup[stream] <= tailup[stream]
      /\ tailup[stream] <= Len(Input[stream])
      /\ q = SubSeq(Input[stream], offsetup[stream] + 1, tailup[stream])
      /\ stored[stream] = SubSeq(Input[stream], 1, offsetup[stream])
  BY <1>2, <1>3 DEF IInv, Segments, SegmentsOf
<1>5. q \in Seq(Bytes) /\ l = tailup[stream] - offsetup[stream] /\ l \in Nat
  BY <1>2, <1>4, SegmentType
<1>6. l > 0
  BY <1>1, <1>5 DEF IInv, PumpKnows
<1>7. /\ n \in Nat /\ n > 0 /\ n <= l
      /\ MaxBlockSize > 0 => n <= MaxBlockSize
  <2> HIDE DEF l
  <2> QED BY <1>5, <1>6, UploadAssumption DEF BlockLength
<1> HIDE DEF n
<1>8. /\ data' = SubSeq(Input[stream], offsetup[stream] + 1, offsetup[stream] + n)
      /\ queueup'[stream] = SubSeq(Input[stream], offsetup[stream] + n + 1, tailup[stream])
      /\ data' \in Seq(Bytes) /\ Len(data') = n
      /\ queueup'[stream] \in Seq(Bytes) /\ Len(queueup'[stream]) = l - n
  <2> DEFINE a == offsetup[stream]
             b == tailup[stream]
             in == Input[stream]
  <2>1. /\ a \in Nat /\ b \in Nat /\ a + n \in Nat /\ in \in Seq(Bytes)
        /\ a <= a + n /\ a + n <= b /\ b <= Len(in) /\ a + n <= Len(in)
        /\ a + n - a = n /\ b - (a + n) = l - n
    <3>1. /\ a \in Nat /\ b \in Nat /\ in \in Seq(Bytes) /\ Len(in) \in Nat
          /\ b <= Len(in) /\ l = b - a
      BY <1>2, <1>4, <1>5, LenProperties
    <3> HIDE DEF a, b, in, l
    <3> QED BY <1>7, <3>1
  <2>2. data' = SubSeq(SubSeq(in, a + 1, b), 1, n)
    BY <1>1, <1>4
  <2>3. queueup'[stream] = SubSeq(SubSeq(in, a + 1, b), n + 1, b - a)
    BY <1>1, <1>2, <1>4, <1>5 DEF TypeOK
  <2> HIDE DEF a, b, in, l
  <2>4. /\ data' = SubSeq(in, a + 1, a + n)
        /\ queueup'[stream] = SubSeq(in, a + n + 1, b)
    BY <1>7, <2>1, <2>2, <2>3, SegmentSplit
  <2>5. data' \in Seq(Bytes) /\ Len(data') = n
    <3>1. SubSeq(in, a + 1, a + n) \in Seq(Bytes) /\ Len(SubSeq(in, a + 1, a + n)) = (a + n) - a
      BY <2>1, SegmentType
    <3> QED BY <1>7, <2>1, <2>4, <3>1
  <2>6. queueup'[stream] \in Seq(Bytes) /\ Len(queueup'[stream]) = l - n
    <3>1. SubSeq(in, (a + n) + 1, b) \in Seq(Bytes) /\ Len(SubSeq(in, (a + n) + 1, b)) = b - (a + n)
      BY <2>1, SegmentType
    <3> QED BY <2>1, <2>4, <3>1
  <2> QED BY <2>4, <2>5, <2>6 DEF a, b, in
<1>9. /\ data' \in Seq(Bytes) /\ Len(data') = n
      /\ queueup'[stream] \in Seq(Bytes) /\ Len(queueup'[stream]) = l - n
  BY <1>8
<1>10. pumpPc' = "write"
  BY <1>1, <1>7
<1>11. TypeOK'
  <2>1. queueup' = [queueup EXCEPT ![stream] = queueup'[stream]]
    BY <1>1, <1>2 DEF TypeOK
  <2>2. queueup' \in [Streams -> Seq(Bytes)]
    BY <1>2, <1>9, <2>1 DEF TypeOK
  <2> QED BY <1>1, <1>2, <1>9, <1>10, <2>2 DEF TypeOK
<1>12. \A s \in Streams \ {stream} : queueup'[s] = queueup[s]
  BY <1>1, <1>2 DEF TypeOK
<1>13. NotAddedYet'
  BY <1>1, <1>2, <1>12 DEF IInv, NotAddedYet
<1>14. Segments'
  <2>1. /\ Uncounted(stream)' = data'
        /\ Taken(stream)' = offsetup[stream] + n
        /\ Published(stream)' = offsetup[stream]
    BY <1>1, <1>9, <1>10 DEF Uncounted, Taken, Published
  <2>2. offsetup[stream] + n <= tailup[stream]
    BY <1>2, <1>4, <1>5, <1>7
  <2>3. SegmentsOf(stream)'
    BY <1>1, <1>4, <1>8, <2>1, <2>2 DEF SegmentsOf
  <2>4. ASSUME NEW s \in streams, s # stream PROVE SegmentsOf(s)'
    <3>1. Uncounted(s)' = Uncounted(s)
      BY <1>1, <2>4 DEF Uncounted
    <3>2. Taken(s)' = Taken(s) /\ Published(s)' = Published(s)
      BY <1>1, <2>4, <3>1 DEF Taken, Published
    <3>3. queueup'[s] = queueup[s]
      BY <1>2, <1>12, <2>4 DEF TypeOK
    <3> QED BY <1>1, <3>1, <3>2, <3>3 DEF IInv, Segments, SegmentsOf
  <2> QED BY <1>1, <2>3, <2>4 DEF Segments
<1>15. NeedyListed'
  <2>1. uppriority[stream] > 0 /\ Listed(up_priorities, Entry(uppriority[stream], stream))
    BY <1>2, <1>5, <1>6 DEF IInv, NeedyListed
  <2> QED BY <1>1, <1>2, <1>12, <2>1 DEF IInv, NeedyListed
<1>16. PumpKnows'
  BY <1>1, <1>7, <1>9, <1>10 DEF IInv, PumpKnows
<1>17. ProducerKnows'
  <2>1. MaxBlockSize > 0 => Len(queueup'[stream]) <= 2 * MaxBlockSize
    <3>1. MaxBlockSize > 0 => l <= 2 * MaxBlockSize
      BY <1>2 DEF IInv, ProducerKnows
    <3> QED BY <1>5, <1>7, <1>9, <3>1, UploadAssumption
  <2> QED BY <1>1, <1>12, <2>1 DEF IInv, ProducerKnows
<1>18. TipSaved'
  BY <1>1 DEF IInv, TipSaved
<1>19. MainKnows'
  BY <1>1, <1>10 DEF IInv, MainKnows
<1> QED BY <1>11, <1>13, <1>14, <1>15, <1>16, <1>17, <1>18, <1>19 DEF IInv

\* The block reaches the network, behind everything that is there.
LEMMA XferWriteStep ==
    ASSUME IInv, XferWrite
    PROVE  IInv'
<1> USE DEF groupVars, prodVars, pumpVars
<1>1. /\ pumpPc = "write" /\ pumpPc' = "commit"
      /\ stored' = [stored EXCEPT ![stream] = Written(@, data, offset)]
      /\ UNCHANGED <<streams, groupPumping, pumping, main, up_priorities, queueup, tailup,
                     offsetup, uppriority, saved, prod, left, stream, offset, data>>
  BY DEF XferWrite
<1>2. /\ TypeOK /\ stream \in streams /\ stream \in Streams
      /\ tailup[stream] \in Nat /\ offsetup[stream] \in Nat
      /\ Input[stream] \in Seq(Bytes) /\ Len(data) \in Nat
      /\ Taken(stream) \in Nat
  BY <1>1, PumpStream DEF TypeOK
<1>3. /\ Uncounted(stream) = data /\ Taken(stream) = offsetup[stream] + Len(data)
      /\ offset = offsetup[stream]
  BY <1>1 DEF Uncounted, Taken, IInv, PumpKnows
<1>4. /\ Taken(stream) <= tailup[stream] /\ tailup[stream] <= Len(Input[stream])
      /\ data = SubSeq(Input[stream], offsetup[stream] + 1, Taken(stream))
      /\ stored[stream] = SubSeq(Input[stream], 1, offsetup[stream])
  BY <1>1, <1>2, <1>3 DEF IInv, Segments, SegmentsOf, Published
<1>5. stored'[stream] = SubSeq(Input[stream], 1, Taken(stream)) /\ stored'[stream] \in Seq(Bytes)
  <2> DEFINE a == offsetup[stream]
             b == Taken(stream)
             in == Input[stream]
  <2>1. /\ a \in Nat /\ b \in Nat /\ in \in Seq(Bytes) /\ a <= b /\ b <= Len(in) /\ 0 <= a
        /\ a <= Len(in)
    <3>1. Len(in) \in Nat
      BY <1>2, LenProperties
    <3>2. /\ a \in Nat /\ b \in Nat /\ in \in Seq(Bytes) /\ b = a + Len(data)
          /\ b <= tailup[stream] /\ tailup[stream] <= Len(in)
      BY <1>2, <1>3, <1>4
    <3> HIDE DEF a, b, in
    <3> QED BY <1>2, <3>1, <3>2
  <2>2. stored'[stream] = Written(SubSeq(in, 1, a), data, a)
    BY <1>1, <1>2, <1>3, <1>4 DEF TypeOK
  <2> HIDE DEF a, b, in
  <2>3. SubSeq(SubSeq(in, 0 + 1, a), 1, a) = SubSeq(in, 0 + 1, 0 + a)
    BY <2>1, SegmentSplit
  <2>4. SubSeq(in, 0 + 1, a) \o SubSeq(in, a + 1, b) = SubSeq(in, 0 + 1, b)
    BY <2>1, SegmentJoin
  <2>5. SubSeq(in, 0 + 1, b) \in Seq(Bytes)
    BY <2>1, SegmentType
  <2>6. data = SubSeq(in, a + 1, b)
    BY <1>4 DEF a, b, in
  <2>7. stored'[stream] = SubSeq(in, 1, b) /\ stored'[stream] \in Seq(Bytes)
    BY <2>1, <2>2, <2>3, <2>4, <2>5, <2>6 DEF Written
  <2> QED BY <2>7 DEF b, in
<1>6. \A s \in Streams \ {stream} : stored'[s] = stored[s]
  BY <1>1, <1>2 DEF TypeOK
<1>7. TypeOK'
  <2>1. stored' = [stored EXCEPT ![stream] = stored'[stream]]
    BY <1>1, <1>2 DEF TypeOK
  <2>2. stored' \in [Streams -> Seq(Bytes)]
    BY <1>2, <1>5, <2>1 DEF TypeOK
  <2> QED BY <1>1, <1>2, <2>2 DEF TypeOK
<1>8. NotAddedYet'
  BY <1>1, <1>2, <1>6 DEF IInv, NotAddedYet
<1>9. Segments'
  <2>1. ASSUME NEW s \in streams
        PROVE  /\ Uncounted(s)' = Uncounted(s) /\ Taken(s)' = Taken(s)
    BY <1>1 DEF Uncounted, Taken
  <2>2. Published(stream)' = Taken(stream)
    BY <1>1, <1>2, <2>1 DEF Published
  <2>3. \A s \in streams \ {stream} : Published(s)' = Published(s)
    BY <1>1 DEF Published
  <2>4. SegmentsOf(stream)'
    BY <1>1, <1>2, <1>5, <2>1, <2>2 DEF IInv, Segments, SegmentsOf
  <2>5. ASSUME NEW s \in streams, s # stream PROVE SegmentsOf(s)'
    <3>1. stored'[s] = stored[s]
      BY <1>2, <1>6, <2>5 DEF TypeOK
    <3> QED BY <1>1, <2>1, <2>3, <2>5, <3>1 DEF IInv, Segments, SegmentsOf
  <2> QED BY <1>1, <2>4, <2>5 DEF Segments
<1>10. NeedyListed'
  BY <1>1 DEF IInv, NeedyListed
<1>11. PumpKnows'
  BY <1>1 DEF IInv, PumpKnows
<1>12. ProducerKnows'
  BY <1>1 DEF IInv, ProducerKnows
<1>13. TipSaved'
  BY <1>1, <1>6 DEF IInv, TipSaved
<1>14. MainKnows'
  BY <1>1 DEF IInv, MainKnows
<1> QED BY <1>7, <1>8, <1>9, <1>10, <1>11, <1>12, <1>13, <1>14 DEF IInv

\* The bytes of the block are counted, and a waiting producer is woken.
LEMMA XferCommitStep ==
    ASSUME IInv, XferCommit
    PROVE  IInv'
<1> USE DEF groupVars, prodVars, pumpVars
<1>1. /\ pumpPc = "commit" /\ pumpPc' = "finish"
      /\ offsetup' = [offsetup EXCEPT ![stream] = @ + Len(data)]
      /\ prod' = [prod EXCEPT ![stream] = IF @ = "waiting" THEN "queueing" ELSE @]
      /\ UNCHANGED <<streams, groupPumping, pumping, main, up_priorities, queueup, tailup,
                     uppriority, stored, saved, left, stream, offset, data>>
  BY DEF XferCommit, NotifyUploaded
<1>2. /\ TypeOK /\ stream \in streams /\ stream \in Streams
      /\ offsetup[stream] \in Nat /\ Len(data) \in Nat
  BY <1>1, PumpStream DEF TypeOK
<1>3. /\ offsetup'[stream] = offsetup[stream] + Len(data)
      /\ offsetup[stream] + Len(data) \in Nat
      /\ \A s \in Streams \ {stream} : offsetup'[s] = offsetup[s]
  BY <1>1, <1>2 DEF TypeOK
<1>4. TypeOK'
  <2>1. offsetup' \in [Streams -> Nat]
    BY <1>1, <1>2, <1>3 DEF TypeOK
  <2>2. prod' \in [Streams -> {"idle", "queueing", "waiting"}]
    BY <1>1, <1>2 DEF TypeOK
  <2> QED BY <1>1, <1>2, <2>1, <2>2 DEF TypeOK
<1>5. \A s \in Streams : prod'[s] = prod[s] \/ (prod[s] # "idle" /\ prod'[s] # "idle")
  BY <1>1, <1>2 DEF TypeOK
<1>6. NotAddedYet'
  BY <1>1, <1>2, <1>5 DEF IInv, NotAddedYet
<1>7. Segments'
  <2>1. /\ Uncounted(stream)' = <<>> /\ Uncounted(stream) = data
        /\ Taken(stream) = offsetup'[stream]
    BY <1>1, <1>3 DEF Uncounted, Taken
  <2>2. Taken(stream)' = offsetup'[stream] + 0
    BY <1>1, <2>1 DEF Taken
  <2>3. Taken(stream)' = Taken(stream) /\ Taken(stream) \in Nat
    BY <1>3, <2>1, <2>2
  <2>4. Published(stream) = Taken(stream) /\ Published(stream)' = Taken(stream)
    BY <1>1, <2>1 DEF Published
  <2>5. SubSeq(Input[stream], Taken(stream) + 1, Taken(stream)) = <<>>
    BY <2>3, SubSeqEmpty
  <2>6. SegmentsOf(stream)'
    BY <1>1, <1>2, <2>1, <2>3, <2>4, <2>5 DEF IInv, Segments, SegmentsOf
  <2>7. ASSUME NEW s \in streams, s # stream PROVE SegmentsOf(s)'
    <3>1. offsetup'[s] = offsetup[s] /\ Uncounted(s)' = Uncounted(s)
      BY <1>1, <1>2, <1>3, <2>7 DEF Uncounted, TypeOK
    <3>2. Taken(s)' = Taken(s) /\ Published(s)' = Published(s)
      BY <1>1, <2>7, <3>1 DEF Taken, Published
    <3> QED BY <1>1, <3>1, <3>2 DEF IInv, Segments, SegmentsOf
  <2> QED BY <1>1, <2>6, <2>7 DEF Segments
<1>8. NeedyListed'
  BY <1>1 DEF IInv, NeedyListed
<1>9. PumpKnows'
  BY <1>1 DEF IInv, PumpKnows
<1>10. ProducerKnows'
  BY <1>1, <1>5 DEF IInv, ProducerKnows
<1>11. TipSaved'
  BY <1>1 DEF IInv, TipSaved
<1>12. MainKnows'
  BY <1>1 DEF IInv, MainKnows
<1> QED BY <1>4, <1>6, <1>7, <1>8, <1>9, <1>10, <1>11, <1>12 DEF IInv

\* A drained stream leaves the multimap, and only its own entry goes.
LEMMA XferFinishStep ==
    ASSUME IInv, XferFinish
    PROVE  IInv'
<1> USE DEF groupVars, prodVars, pumpVars
<1>1. /\ pumpPc = "finish" /\ pumpPc' \in {"loop", "callback"}
      /\ data # <<>> => pumpPc' = "callback"
      /\ UNCHANGED <<streams, groupPumping, pumping, main, queueup, tailup, offsetup, stored,
                     saved, prod, left, stream, offset, data>>
  BY DEF XferFinish
<1>2. TypeOK /\ stream \in streams /\ stream \in Streams /\ data # <<>>
  BY <1>1, PumpStream DEF TypeOK, IInv, PumpKnows
<1>3. /\ up_priorities' \in Seq(Entries)
      /\ \A t \in Streams \ {stream} : \A p :
            Listed(up_priorities, Entry(p, t)) => Listed(up_priorities', Entry(p, t))
      /\ \A i \in DOMAIN up_priorities' : Listed(up_priorities, up_priorities'[i])
      /\ uppriority' \in [Streams -> Nat]
      /\ \A t \in Streams \ {stream} : uppriority'[t] = uppriority[t]
      /\ queueup[stream] # <<>> => UNCHANGED <<up_priorities, uppriority>>
  <2>1. up_priorities \in Seq(Entries) /\ uppriority \in [Streams -> Nat]
    BY <1>2 DEF TypeOK
  <2>2. \A t \in Streams \ {stream} : \A p : Entry(p, t) # Entry(uppriority[stream], stream)
    BY DEF Entry
  <2>3. CASE Drained
    <3>1. /\ up_priorities' \in Erase(up_priorities, Entry(uppriority[stream], stream))
          /\ uppriority' = [uppriority EXCEPT ![stream] = 0]
      BY <2>3 DEF XferFinish
    <3> QED BY <1>2, <2>1, <2>2, <2>3, <3>1, EraseKeepsOthers DEF Drained
  <2>4. CASE ~Drained
    <3>1. UNCHANGED <<up_priorities, uppriority>>
      BY <2>4 DEF XferFinish
    <3> QED BY <2>1, <3>1 DEF Listed
  <2> QED BY <2>3, <2>4
<1>4. TypeOK'
  BY <1>1, <1>2, <1>3 DEF TypeOK
<1>5. NotAddedYet'
  BY <1>1, <1>2 DEF IInv, NotAddedYet
<1>6. Segments'
  <2>1. ASSUME NEW s \in streams
        PROVE  /\ Uncounted(s)' = Uncounted(s) /\ Taken(s)' = Taken(s)
               /\ Published(s)' = Published(s)
    BY <1>1 DEF Uncounted, Taken, Published
  <2> QED BY <1>1, <2>1 DEF IInv, Segments, SegmentsOf
<1>7. NeedyListed'
  BY <1>1, <1>3 DEF IInv, NeedyListed
<1>8. PumpKnows'
  BY <1>1, <1>2, <1>3 DEF IInv, PumpKnows, Listed
<1>9. ProducerKnows'
  BY <1>1 DEF IInv, ProducerKnows
<1>10. TipSaved'
  BY <1>1, <1>2 DEF IInv, TipSaved
<1>11. MainKnows'
  BY <1>1 DEF IInv, MainKnows
<1> QED BY <1>4, <1>5, <1>6, <1>7, <1>8, <1>9, <1>10, <1>11 DEF IInv

\* Every step of the upload side preserves the inductive invariant.
THEOREM NextIInv == IInv /\ [Next]_vars => IInv'
<1> SUFFICES ASSUME IInv, [Next]_vars PROVE IInv'
  OBVIOUS
<1>1. CASE UNCHANGED vars
  <2>1. \A s : /\ Uncounted(s)' = Uncounted(s) /\ Taken(s)' = Taken(s)
               /\ Published(s)' = Published(s)
    BY <1>1 DEF vars, Uncounted, Taken, Published
  <2>2. TypeOK' /\ NeedyListed' /\ MainKnows' /\ TipSaved'
    BY <1>1 DEF vars, IInv, TypeOK, NeedyListed, MainKnows, TipSaved
  <2>3. NotAddedYet' /\ PumpKnows' /\ ProducerKnows'
    BY <1>1 DEF vars, IInv, NotAddedYet, PumpKnows, ProducerKnows
  <2>4. Segments'
    BY <1>1, <2>1 DEF vars, IInv, Segments, SegmentsOf
  <2> QED BY <2>2, <2>3, <2>4 DEF IInv
<1>2. CASE Pump
  BY <1>2, QuietSteps, XferTakeStep, XferWriteStep, XferCommitStep, XferFinishStep
  DEF Pump, Xfer
<1>3. CASE Stop \/ StopGroup \/ SpuriousWakeup
  BY <1>3, QuietSteps DEF Stop
<1>4. CASE \E s \in Streams : Producer(s) \/ Add(s)
  <2>1. PICK s \in Streams : Producer(s) \/ Add(s)
    BY <1>4
  <2>2. CASE Add(s)
    BY <2>2, AddStep
  <2>3. CASE QueueChunk(s)
    BY <2>3, QueueChunkStep
  <2>4. CASE QueueWait(s) \/ \E n \in CallSizes : QueueLocalUp(s, n)
    BY <2>4, QuietSteps
  <2> QED BY <2>1, <2>2, <2>3, <2>4 DEF Producer
<1> QED BY <1>1, <1>2, <1>3, <1>4 DEF Next

THEOREM InductiveInvariant == Spec => []IInv
<1> QED BY InitIInv, NextIInv, PTL DEF Spec

----------------------------------------------------------------------------
(* What follows from the inductive invariant.                                *)

\* The variables keep their types.
THEOREM TypeCorrect == Spec => []TypeOK
<1>1. IInv => TypeOK
  BY DEF IInv
<1> QED BY <1>1, InductiveInvariant, PTL

LEMMA IInvFifo == IInv => Fifo
<1> SUFFICES ASSUME IInv, NEW s \in streams
             PROVE  stored[s] \o InFlight(s) \o queueup[s] = SubSeq(Input[s], 1, tailup[s])
  BY DEF Fifo
<1> DEFINE a == offsetup[s]
           b == Taken(s)
           c == tailup[s]
           in == Input[s]
<1>1. TypeOK /\ s \in Streams
  BY DEF IInv, TypeOK
<1>2. Uncounted(s) \in Seq(Bytes)
  BY <1>1 DEF Uncounted, TypeOK
<1>3. Len(Uncounted(s)) \in Nat
  BY <1>2, LenProperties
<1>4. a \in Nat /\ c \in Nat /\ in \in Seq(Bytes) /\ Len(in) \in Nat
  BY <1>1, UploadAssumption, LenProperties DEF TypeOK
<1>5. b = a + Len(Uncounted(s))
  BY DEF Taken
<1>6. /\ queueup[s] = SubSeq(in, b + 1, c)
      /\ Uncounted(s) = SubSeq(in, a + 1, b)
      /\ stored[s] = SubSeq(in, 1, Published(s))
  BY DEF IInv, Segments, SegmentsOf
<1>12. b <= c /\ c <= Len(in)
  BY DEF IInv, Segments, SegmentsOf
<1>7. Published(s) \in {a, b}
  BY DEF Published
<1>8. InFlight(s) = IF Published(s) = b THEN <<>> ELSE Uncounted(s)
  <2>1. CASE stream = s /\ pumpPc = "write"
    <3>1. Published(s) = a /\ InFlight(s) = Uncounted(s) /\ Uncounted(s) = data /\ data # <<>>
      BY <2>1 DEF Published, InFlight, Uncounted, IInv, PumpKnows
    <3>2. Len(Uncounted(s)) # 0
      BY <1>2, <3>1
    <3> QED BY <1>3, <1>4, <1>5, <3>1, <3>2
  <2>2. CASE stream = s /\ pumpPc = "commit"
    BY <2>2 DEF Published, InFlight
  <2>3. CASE ~(stream = s /\ pumpPc \in {"write", "commit"})
    BY <1>4, <1>5, <2>3 DEF Published, InFlight, Uncounted
  <2> QED BY <2>1, <2>2, <2>3
<1> HIDE DEF a, b, c, in
<1>9. a <= b /\ b \in Nat /\ b <= Len(in) /\ a <= Len(in) /\ 0 <= a
  BY <1>3, <1>4, <1>5, <1>12
<1>10. SubSeq(in, 1, b) \o SubSeq(in, b + 1, c) = SubSeq(in, 1, c)
  BY <1>4, <1>9, <1>12, PrefixJoin
<1>11. stored[s] \o InFlight(s) = SubSeq(in, 1, b)
  <2>1. CASE Published(s) = b
    <3>1. SubSeq(in, 1, b) \in Seq(Bytes)
      BY <1>4, <1>9, PrefixJoin
    <3>2. InFlight(s) = <<>>
      BY <1>8, <2>1
    <3> QED BY <1>6, <2>1, <3>1, <3>2, ConcatEmptySeq
  <2>2. CASE Published(s) # b
    <3>1. SubSeq(in, 1, a) \o SubSeq(in, a + 1, b) = SubSeq(in, 1, b)
      BY <1>4, <1>9, PrefixJoin
    <3>2. Published(s) = a /\ InFlight(s) = Uncounted(s)
      BY <1>7, <1>8, <2>2
    <3> QED BY <1>6, <3>1, <3>2
  <2> QED BY <2>1, <2>2
<1>13. stored[s] \o InFlight(s) \o queueup[s] = SubSeq(in, 1, b) \o SubSeq(in, b + 1, c)
  BY <1>6, <1>11
<1> QED BY <1>10, <1>13 DEF c, in

\* No byte is lost, repeated or reordered on its way to the network.
THEOREM FifoHolds == Spec => []Fifo
<1> QED BY IInvFifo, InductiveInvariant, PTL

LEMMA StoredLength ==
    ASSUME IInv, NEW s \in streams
    PROVE  Len(stored[s]) = Published(s)
<1>1. TypeOK /\ s \in Streams
  BY DEF IInv, TypeOK
<1>2. Len(Uncounted(s)) \in Nat
  BY <1>1, LenProperties DEF Uncounted, TypeOK
<1>3. offsetup[s] \in Nat /\ tailup[s] \in Nat /\ Input[s] \in Seq(Bytes) /\ Len(Input[s]) \in Nat
  BY <1>1, UploadAssumption, LenProperties DEF TypeOK
<1>4. Taken(s) = offsetup[s] + Len(Uncounted(s))
  BY DEF Taken
<1>5. Taken(s) <= tailup[s] /\ tailup[s] <= Len(Input[s])
      /\ stored[s] = SubSeq(Input[s], 1, Published(s))
  BY DEF IInv, Segments, SegmentsOf
<1>6. Published(s) \in {offsetup[s], Taken(s)}
  BY DEF Published
<1>7. Published(s) \in Nat /\ Published(s) <= Len(Input[s])
  BY <1>2, <1>3, <1>4, <1>5, <1>6
<1>8. Len(SubSeq(Input[s], 1, Published(s))) = Published(s)
  BY <1>3, <1>7, PrefixJoin
<1> QED BY <1>5, <1>8

\* The pump only writes at the end of the skystream.
THEOREM WritesAppendHolds == Spec => []WritesAppend
<1>1. IInv => WritesAppend
  <2> SUFFICES ASSUME IInv, pumpPc = "write" PROVE offset = Len(stored[stream])
    BY DEF WritesAppend
  <2>1. stream \in streams /\ offset = offsetup[stream]
    BY PumpStream DEF IInv, PumpKnows
  <2>2. Published(stream) = offsetup[stream]
    BY DEF Published
  <2> QED BY <2>1, <2>2, StoredLength
<1> QED BY <1>1, InductiveInvariant, PTL

\* A stream with bytes waiting is listed, so the pump comes to see it.
THEOREM NeedyListedHolds == Spec => []NeedyListed
<1>1. IInv => NeedyListed
  BY DEF IInv
<1> QED BY <1>1, InductiveInvariant, PTL

\* No stream is listed under priority zero, and the assertion of line 383 holds.
THEOREM NonzeroPrioritiesHolds == Spec => []NonzeroPriorities
<1>1. IInv => NonzeroPriorities
  BY DEF IInv, PumpKnows, NonzeroPriorities
<1> QED BY <1>1, InductiveInvariant, PTL

\* The backlog of a stream stays below three blocks.
THEOREM BacklogBoundedHolds == Spec => []BacklogBounded
<1>1. IInv => BacklogBounded
  <2> SUFFICES ASSUME IInv, MaxBlockSize > 0, NEW s \in Streams
               PROVE  /\ Len(queueup[s]) <= 2 * MaxBlockSize
                      /\ tailup[s] - offsetup[s] <= 3 * MaxBlockSize
    BY DEF BacklogBounded
  <2>1. TypeOK /\ MaxBlockSize \in Nat /\ Len(queueup[s]) <= 2 * MaxBlockSize
    BY UploadAssumption DEF IInv, ProducerKnows
  <2>2. CASE s \in streams
    <3>1. Len(Uncounted(s)) \in Nat /\ Len(Uncounted(s)) <= MaxBlockSize
      BY <2>1, LenProperties DEF Uncounted, TypeOK, IInv, PumpKnows
    <3>2. offsetup[s] \in Nat /\ tailup[s] \in Nat /\ Input[s] \in Seq(Bytes)
          /\ Len(Input[s]) \in Nat
      BY <2>1, UploadAssumption, LenProperties DEF TypeOK
    <3>3. Taken(s) = offsetup[s] + Len(Uncounted(s)) /\ Taken(s) \in Nat
      BY <3>1, <3>2 DEF Taken
    <3>4. Taken(s) <= tailup[s] /\ tailup[s] <= Len(Input[s])
          /\ queueup[s] = SubSeq(Input[s], Taken(s) + 1, tailup[s])
      BY <2>2 DEF IInv, Segments, SegmentsOf
    <3>5. Len(queueup[s]) = tailup[s] - Taken(s)
      BY <3>2, <3>3, <3>4, SegmentType
    <3>6. tailup[s] - offsetup[s] = Len(queueup[s]) + Len(Uncounted(s))
      BY <3>1, <3>2, <3>3, <3>5
    <3> QED BY <2>1, <3>1, <3>2, <3>3, <3>5, <3>6
  <2>3. CASE s \notin streams
    <3>1. tailup[s] = offsetup[s] /\ tailup[s] \in Nat
      BY <2>1, <2>3 DEF IInv, NotAddedYet, TypeOK
    <3> QED BY <2>1, <3>1
  <2> QED BY <2>2, <2>3
<1> QED BY <1>1, InductiveInvariant, PTL

LEMMA IInvFlushed == IInv => FlushedBeforeExit
<1> SUFFICES ASSUME IInv, pumpPc = "done", NEW s \in streams
             PROVE  /\ offsetup[s] = tailup[s]
                    /\ Len(stored[s]) = tailup[s]
                    /\ saved[s] = tailup[s]
  BY DEF FlushedBeforeExit
<1>1. TypeOK /\ s \in Streams
  BY DEF IInv, TypeOK
<1>2. queueup[s] = <<>>
  BY <1>1 DEF IInv, MainKnows
<1>3. offsetup[s] \in Nat /\ tailup[s] \in Nat /\ Input[s] \in Seq(Bytes)
  BY <1>1, UploadAssumption DEF TypeOK
<1>4. Taken(s) = offsetup[s] + 0 /\ Published(s) = offsetup[s]
  BY DEF Taken, Uncounted, Published
<1>5. /\ offsetup[s] <= tailup[s] /\ tailup[s] <= Len(Input[s])
      /\ queueup[s] = SubSeq(Input[s], offsetup[s] + 1, tailup[s])
  <2>1. Taken(s) = offsetup[s]
    BY <1>3, <1>4
  <2> QED BY <2>1 DEF IInv, Segments, SegmentsOf
<1>6. Len(queueup[s]) = tailup[s] - offsetup[s]
  BY <1>3, <1>5, SegmentType
<1>7. Len(queueup[s]) = 0
  BY <1>2
<1>8. offsetup[s] = tailup[s]
  BY <1>3, <1>6, <1>7
<1>9. Len(stored[s]) = offsetup[s] /\ saved[s] = Len(stored[s])
  BY <1>1, <1>4, StoredLength DEF IInv, TipSaved
<1> QED BY <1>8, <1>9

\* The pump thread ends with every queued byte in the network and saved.
THEOREM FlushedHolds == Spec => []FlushedBeforeExit
<1> QED BY IInvFlushed, InductiveInvariant, PTL

----------------------------------------------------------------------------
(* The upload side implements UploadLog.                                     *)

LEMMA QuietLog ==
    ASSUME UNCHANGED <<streams, tailup, stored>>, (main = "joined")' <=> main = "joined"
    PROVE  UNCHANGED Log!vars
<1> QED BY DEF Log!vars

LEMMA InitLog == Init => Log!Init
<1> SUFFICES ASSUME Init PROVE Log!Init
  OBVIOUS
<1>1. [s \in Streams |-> IF s \in streams THEN tailup[s] ELSE Base[s]] = Base
  BY UploadAssumption DEF Init
<1> QED BY <1>1 DEF Init, Log!Init

\* A queued chunk is an accepted chunk.
LEMMA ChunkAccepts ==
    ASSUME IInv, NEW s \in Streams, QueueChunk(s)
    PROVE  Log!Accept(s)
<1> DEFINE n == ToUpload(s)
<1>1. /\ TypeOK /\ s \in streams /\ main = "running" /\ main' = "running"
      /\ prod[s] = "queueing" /\ ~QueueIsFull(s)
      /\ tailup' = [tailup EXCEPT ![s] = @ + n]
      /\ UNCHANGED <<streams, stored>>
  BY DEF QueueChunk, IInv, ProducerKnows, groupVars
<1>2. n \in Nat /\ 0 < n /\ tailup[s] + n <= Len(Input[s])
  BY <1>1, ChunkSize
<1> HIDE DEF n
<1>3. tailup[s] \in Nat /\ Len(Input[s]) \in Nat
  BY <1>1, UploadAssumption, LenProperties DEF TypeOK
<1>4. tailup[s] + n \in (tailup[s] + 1)..Len(Input[s])
  BY <1>2, <1>3
<1>5. [t \in Streams |-> IF t \in streams THEN tailup[t] ELSE Base[t]]'
      = [[t \in Streams |-> IF t \in streams THEN tailup[t] ELSE Base[t]]
            EXCEPT ![s] = tailup[s] + n]
  BY <1>1 DEF TypeOK
<1>6. [t \in Streams |-> IF t \in streams THEN tailup[t] ELSE Base[t]][s] = tailup[s]
  BY <1>1
<1> QED BY <1>1, <1>4, <1>5, <1>6 DEF Log!Accept

\* A written block is a published block.
LEMMA WritePublishes ==
    ASSUME IInv, XferWrite
    PROVE  Log!Publish(stream)
<1>1. /\ pumpPc = "write" /\ main # "joined" /\ main' = main
      /\ stored' = [stored EXCEPT ![stream] = Written(@, data, offset)]
      /\ pumpPc' = "commit"
      /\ UNCHANGED <<streams, tailup, offsetup, stream, data>>
  BY DEF XferWrite, IInv, MainKnows, groupVars, pumpVars
<1>2. /\ TypeOK /\ stream \in streams /\ stream \in Streams /\ Len(data) \in Nat
      /\ offsetup[stream] \in Nat /\ tailup[stream] \in Nat /\ data # <<>>
  BY <1>1, PumpStream DEF IInv, PumpKnows, TypeOK
<1>3. IInv'
  BY XferWriteStep
<1>4. /\ Published(stream) = offsetup[stream]
      /\ Taken(stream) = offsetup[stream] + Len(data)
      /\ Published(stream)' = Taken(stream)' /\ Taken(stream)' = Taken(stream)
  BY <1>1 DEF Published, Taken, Uncounted
<1>5. stored'[stream] = SubSeq(Input[stream], 1, Taken(stream))
  BY <1>1, <1>2, <1>3, <1>4 DEF IInv, Segments, SegmentsOf
<1>6. stored' = [stored EXCEPT ![stream] = SubSeq(Input[stream], 1, Taken(stream))]
  <2>1. stored' = [stored EXCEPT ![stream] = stored'[stream]]
    BY <1>1, <1>2 DEF TypeOK
  <2> QED BY <1>5, <2>1
<1>7. Taken(stream) \in (Len(stored[stream]) + 1)..tailup[stream]
  <2>1. Len(data) # 0
    BY <1>2 DEF TypeOK
  <2>2. Taken(stream) <= tailup[stream] /\ Len(stored[stream]) = offsetup[stream]
    BY <1>2, <1>4, StoredLength DEF IInv, Segments, SegmentsOf
  <2> QED BY <1>2, <1>4, <2>1, <2>2
<1>8. [s \in Streams |-> IF s \in streams THEN tailup[s] ELSE Base[s]][stream] = tailup[stream]
  BY <1>2
<1>9. [s \in Streams |-> IF s \in streams THEN tailup[s] ELSE Base[s]]'
      = [s \in Streams |-> IF s \in streams THEN tailup[s] ELSE Base[s]]
  BY <1>1
<1> QED BY <1>1, <1>6, <1>7, <1>8, <1>9 DEF Log!Publish

\* The group is joined only when everything that was accepted is published.
LEMMA JoinCloses ==
    ASSUME IInv, Join
    PROVE  Log!Close
<1>1. /\ pumpPc = "done" /\ main = "joining" /\ main' = "joined"
      /\ UNCHANGED <<streams, tailup, stored>>
  BY DEF Join
<1>2. ASSUME NEW s \in Streams
      PROVE  Len(stored[s]) = [t \in Streams |-> IF t \in streams THEN tailup[t] ELSE Base[t]][s]
  <2>1. CASE s \in streams
    BY <1>1, <2>1, IInvFlushed DEF FlushedBeforeExit
  <2>2. CASE s \notin streams
    BY <2>2, BaseIsStored DEF IInv, NotAddedYet
  <2> QED BY <2>1, <2>2
<1>3. [s \in Streams |-> IF s \in streams THEN tailup[s] ELSE Base[s]]'
      = [s \in Streams |-> IF s \in streams THEN tailup[s] ELSE Base[s]]
  BY <1>1
<1> QED BY <1>1, <1>2, <1>3 DEF Log!Close

\* A stream is added with what it holds, which is neither accepted nor published.
LEMMA AddIsQuiet ==
    ASSUME IInv, NEW s \in Streams, Add(s)
    PROVE  UNCHANGED Log!vars
<1>1. /\ s \notin streams /\ streams' = streams \union {s} /\ main' = main
      /\ tailup' = [tailup EXCEPT ![s] = Len(stored[s])] /\ stored' = stored
  BY DEF Add
<1>2. Len(stored[s]) = Base[s]
  BY <1>1, BaseIsStored DEF IInv, NotAddedYet
<1>3. [t \in Streams |-> IF t \in streams THEN tailup[t] ELSE Base[t]]'
      = [t \in Streams |-> IF t \in streams THEN tailup[t] ELSE Base[t]]
  BY <1>1, <1>2 DEF IInv, TypeOK
<1> QED BY <1>1, <1>3 DEF Log!vars

\* Every step of the upload side is a step of UploadLog or leaves it alone.
LEMMA NextLog == IInv /\ [Next]_vars => [Log!Next]_Log!vars
<1> SUFFICES ASSUME IInv, [Next]_vars PROVE [Log!Next]_Log!vars
  OBVIOUS
<1> USE DEF groupVars, prodVars, pumpVars
<1>1. CASE UNCHANGED vars
  BY <1>1, QuietLog DEF vars
<1>2. CASE Pump
  <2>1. CASE XferWrite
    <3>1. stream \in Streams
      BY DEF IInv, TypeOK
    <3> QED BY <2>1, <3>1, WritePublishes DEF Log!Next
  <2>2. CASE PumpEmpty \/ PumpWait \/ PumpPick \/ UpCallback
    BY <2>2, QuietLog DEF PumpEmpty, PumpWait, PumpPick, UpCallback
  <2>3. CASE XferIdle \/ XferStart \/ XferTake \/ XferCommit \/ XferFinish
    BY <2>3, QuietLog DEF XferIdle, XferStart, XferTake, XferCommit, XferFinish
  <2> QED BY <1>2, <2>1, <2>2, <2>3 DEF Pump, Xfer
<1>3. CASE Stop \/ StopGroup \/ SpuriousWakeup
  <2>1. CASE Join
    BY <2>1, JoinCloses DEF Log!Next
  <2>2. CASE StopGroup \/ SpuriousWakeup
    BY <2>2, QuietLog DEF StopGroup, SpuriousWakeup
  <2>3. CASE StopNotify \/ \E s \in Streams : StopStream(s)
    BY <2>3, QuietLog DEF StopNotify, StopStream
  <2> QED BY <1>3, <2>1, <2>2, <2>3 DEF Stop
<1>4. CASE \E s \in Streams : Producer(s) \/ Add(s)
  <2>1. PICK s \in Streams : Producer(s) \/ Add(s)
    BY <1>4
  <2>2. CASE Add(s)
    BY <2>2, AddIsQuiet
  <2>3. CASE QueueChunk(s)
    BY <2>3, ChunkAccepts DEF Log!Next
  <2>4. CASE QueueWait(s) \/ \E n \in CallSizes : QueueLocalUp(s, n)
    BY <2>4, QuietLog DEF QueueWait, QueueLocalUp
  <2> QED BY <2>1, <2>2, <2>3, <2>4 DEF Producer
<1> QED BY <1>1, <1>2, <1>3, <1>4 DEF Next

\* The group of buffered streams is a group of growing logs that closes flushed.
THEOREM Implementation == Spec => ImplementsLog
<1> QED BY InitLog, NextLog, InductiveInvariant, PTL DEF Spec, ImplementsLog, Log!Spec
============================================================================
