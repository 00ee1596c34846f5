------------------------ MODULE BufferedDownProofs ------------------------
(* Proofs about BufferedDown, for any stream, any tables of its blocks,    *)
(* any number of workers and any part of the stream that is asked for.     *)
EXTENDS BufferedDown, Induction

----------------------------------------------------------------------------
(* Blocks and bytes.                                                       *)

LEMMA BorderTypes ==
    /\ Len(Border) \in Nat \ {0} /\ Blocks = 1..Len(Border)
    /\ \A b \in Blocks : Border[b] \in Nat /\ Start(b) \in Nat /\ Start(b) < Border[b]
    /\ Total \in Nat /\ Len(Border) \in Blocks
  <1>1. Border \in Seq(Nat) /\ Border # <<>> /\ \A b \in Blocks : Start(b) < Border[b]
    BY BlocksAssumption
  <1>2. Len(Border) \in Nat \ {0} /\ Blocks = 1..Len(Border)
    BY <1>1 DEF Blocks
  <1>3. \A b \in 1..Len(Border) : Border[b] \in Nat
    BY <1>1
  <1>4. \A b \in 1..Len(Border) : Start(b) \in Nat
    BY <1>2, <1>3 DEF Start
  <1> QED BY <1>1, <1>2, <1>3, <1>4 DEF Total

\* A block starts where those before it have ended.
LEMMA BordersGrow == \A a, b \in Blocks : a < b => Border[a] <= Start(b)
  <1> DEFINE T == {n \in Nat : n \in Blocks => \A a \in Blocks : a < n => Border[a] <= Start(n)}
  <1>1. ASSUME NEW n \in Nat, \A m \in Nat : m < n => m \in T PROVE n \in T
    <2> SUFFICES ASSUME n \in Blocks, NEW a \in Blocks, a < n PROVE Border[a] <= Start(n)
      OBVIOUS
    <2>1. n - 1 \in Blocks /\ a \in Nat /\ n # 1 /\ Start(n) = Border[n - 1]
      BY BorderTypes DEF Start
    <2>2. CASE a = n - 1
      BY <2>1, <2>2, BorderTypes
    <2>3. CASE a # n - 1
      <3>1. a < n - 1 /\ n - 1 \in T
        BY <1>1, <2>1, <2>3, BorderTypes
      <3>2. Border[a] <= Start(n - 1)
        BY <2>1, <3>1
      <3>3. /\ Start(n - 1) < Border[n - 1] /\ Start(n - 1) \in Nat
            /\ Border[n - 1] \in Nat /\ Border[a] \in Nat
        BY <2>1, BorderTypes
      <3> QED BY <2>1, <3>2, <3>3
    <2> QED BY <2>2, <2>3
  <1> HIDE DEF T
  <1>2. Nat \subseteq T
    BY <1>1, CompleteInduction
  <1> QED BY <1>2, BorderTypes DEF T

LEMMA BorderBelow == \A b \in Blocks : Border[b] <= Total
  <1> SUFFICES ASSUME NEW b \in Blocks PROVE Border[b] <= Total
    OBVIOUS
  <1>1. CASE b = Len(Border)
    BY <1>1, BorderTypes DEF Total
  <1>2. CASE b < Len(Border)
    <2>1. Border[b] <= Start(Len(Border)) /\ Start(Len(Border)) < Border[Len(Border)]
      BY <1>2, BorderTypes, BordersGrow
    <2>2. Start(Len(Border)) \in Nat /\ Border[b] \in Nat /\ Border[Len(Border)] \in Nat
      BY BorderTypes
    <2> QED BY <2>1, <2>2 DEF Total
  <1> QED BY <1>1, <1>2, BorderTypes

\* A byte of the stream is in a block.
LEMMA BlockAtHolds ==
    ASSUME NEW o \in Nat, o < Total
    PROVE  /\ BlockAt(o) \in Blocks
           /\ Start(BlockAt(o)) <= o /\ o < Border[BlockAt(o)]
  <1> DEFINE T == {b \in Blocks : o < Border[b]}
  <1>1. T \subseteq Nat /\ T # {}
    BY BorderTypes DEF Total
  <1> HIDE DEF T
  <1>2. PICK b \in T : \A c \in T : b <= c
    BY <1>1, LeastNumber
  <1>3. b \in Blocks /\ o < Border[b]
    BY <1>2 DEF T
  <1>4. Start(b) <= o
    <2>1. CASE b = 1
      BY <2>1 DEF Start
    <2>2. CASE b # 1
      <3>1. b - 1 \in Blocks /\ Start(b) = Border[b - 1] /\ Border[b - 1] \in Nat
        BY <1>3, <2>2, BorderTypes DEF Start
      <3>2. b - 1 \notin T
        BY <1>2, <1>3, BorderTypes
      <3> QED BY <3>1, <3>2 DEF T
    <2> QED BY <2>1, <2>2
  <1> QED BY <1>3, <1>4 DEF BlockAt

\* The block that holds the byte a block starts with.
LEMMA BlockAtStart ==
    ASSUME NEW b \in Blocks
    PROVE  BlockAt(Start(b)) = b /\ Start(b) < Total
  <1> DEFINE c == BlockAt(Start(b))
  <1>1. Start(b) \in Nat /\ Start(b) < Total /\ Border[b] \in Nat
    BY BorderTypes, BorderBelow
  <1>2. c \in Blocks /\ Start(c) <= Start(b) /\ Start(b) < Border[c]
    BY <1>1, BlockAtHolds
  <1> HIDE DEF c
  <1>3. /\ Start(c) \in Nat /\ Border[c] \in Nat /\ Start(b) < Border[b]
        /\ b \in Nat /\ c \in Nat
    BY <1>2, BorderTypes
  <1>4. ~(c < b)
    BY <1>1, <1>2, <1>3, BordersGrow
  <1>5. ~(b < c)
    BY <1>1, <1>2, <1>3, BordersGrow
  <1> QED BY <1>1, <1>3, <1>4, <1>5 DEF c

LEMMA FunctionIsSeq ==
    ASSUME NEW S, NEW n \in Nat, NEW s \in [1..n -> S]
    PROVE  s \in Seq(S) /\ Len(s) = n /\ DOMAIN s = 1..n
  OBVIOUS

LEMMA SameSeq ==
    ASSUME NEW S, NEW s \in Seq(S), NEW t \in Seq(S), Len(s) = Len(t),
           \A i \in 1..Len(s) : s[i] = t[i]
    PROVE  s = t
  OBVIOUS

LEMMA BytesType ==
    ASSUME NEW a \in Nat, NEW b \in Nat, a <= b, b <= Total
    PROVE  Bytes(a, b) \in Seq(1..Total) /\ Len(Bytes(a, b)) = b - a
  <1>1. Bytes(a, b) \in [1..(b - a) -> 1..Total]
    BY BorderTypes DEF Bytes
  <1>2. b - a \in Nat
    OBVIOUS
  <1> HIDE DEF Bytes
  <1> QED BY <1>1, <1>2, FunctionIsSeq

LEMMA BytesJoin ==
    ASSUME NEW a \in Nat, NEW b \in Nat, NEW c \in Nat, a <= b, b <= c, c <= Total
    PROVE  Bytes(a, b) \o Bytes(b, c) = Bytes(a, c)
  <1> DEFINE s == Bytes(a, b)
             t == Bytes(b, c)
             u == Bytes(a, c)
  <1>0. Total \in Nat /\ b <= Total /\ a <= c
    BY BorderTypes
  <1>1. /\ s \in Seq(1..Total) /\ Len(s) = b - a
        /\ t \in Seq(1..Total) /\ Len(t) = c - b
        /\ u \in Seq(1..Total) /\ Len(u) = c - a
    <2>1. s \in Seq(1..Total) /\ Len(s) = b - a
      BY <1>0, BytesType
    <2>2. t \in Seq(1..Total) /\ Len(t) = c - b
      BY <1>0, BytesType
    <2>3. u \in Seq(1..Total) /\ Len(u) = c - a
      BY <1>0, BytesType
    <2> QED BY <2>1, <2>2, <2>3
  <1>2. /\ \A i \in 1..(b - a) : s[i] = a + i
        /\ \A i \in 1..(c - b) : t[i] = b + i
        /\ \A i \in 1..(c - a) : u[i] = a + i
    BY DEF Bytes
  <1> HIDE DEF s, t, u
  <1>3. s \o t \in Seq(1..Total) /\ Len(s \o t) = c - a
    BY <1>1
  <1>4. ASSUME NEW i \in 1..(c - a) PROVE (s \o t)[i] = u[i]
    <2>1. CASE i <= b - a
      BY <1>1, <1>2, <2>1
    <2>2. CASE i > b - a
      <3>1. (s \o t)[i] = t[i - (b - a)] /\ i - (b - a) \in 1..(c - b)
        BY <1>1, <2>2
      <3> QED BY <1>2, <3>1
    <2>3. i <= b - a \/ i > b - a
      OBVIOUS
    <2> QED BY <2>1, <2>2, <2>3
  <1> DEFINE st == s \o t
  <1>5. st \in Seq(1..Total) /\ Len(st) = Len(u) /\ \A i \in 1..Len(st) : st[i] = u[i]
    BY <1>1, <1>3, <1>4
  <1> HIDE DEF st
  <1>6. st = u
    BY <1>1, <1>5, SameSeq
  <1> QED BY <1>6 DEF s, t, u, st

LEMMA BytesPrefix ==
    ASSUME NEW a \in Nat, NEW b \in Nat, NEW c \in Nat, a <= b, b <= c, c <= Total
    PROVE  /\ IsPrefix(Bytes(a, b), Bytes(a, c))
           /\ b < c => Bytes(a, b) # Bytes(a, c)
  <1> DEFINE s == Bytes(a, b)
             u == Bytes(a, c)
  <1>0. Total \in Nat /\ b <= Total /\ a <= c
    BY BorderTypes
  <1>1. /\ s \in Seq(1..Total) /\ Len(s) = b - a
        /\ u \in Seq(1..Total) /\ Len(u) = c - a
    <2>1. s \in Seq(1..Total) /\ Len(s) = b - a
      BY <1>0, BytesType
    <2>2. u \in Seq(1..Total) /\ Len(u) = c - a
      BY <1>0, BytesType
    <2> QED BY <2>1, <2>2
  <1>2. /\ \A i \in 1..(b - a) : s[i] = a + i
        /\ \A i \in 1..(c - a) : u[i] = a + i
    BY DEF Bytes
  <1> HIDE DEF s, u
  <1>3. SubSeq(s, 1, Len(s)) = SubSeq(u, 1, Len(s))
    BY <1>1, <1>2
  <1>4. IsPrefix(s, u)
    BY <1>1, <1>3 DEF IsPrefix
  <1>5. b < c => s # u
    BY <1>1
  <1> QED BY <1>4, <1>5 DEF s, u

----------------------------------------------------------------------------
(* Threads and the workers they have.                                      *)

LEMMA DownloaderBlocks ==
    /\ \A d \in Downloaders : d \in Nat /\ BlockOf(d) \in Blocks
    /\ \A b \in Blocks : /\ 2 * b \in Downloaders /\ 2 * b - 1 \in Downloaders
                         /\ BlockOf(2 * b) = b /\ BlockOf(2 * b - 1) = b
  BY BorderTypes DEF Downloaders, BlockOf

LEMMA ThreadFacts ==
    /\ Program # Pumper /\ Program # NoOne /\ Pumper # NoOne
    /\ Program \notin Downloaders /\ Pumper \notin Downloaders /\ NoOne \notin Downloaders
    /\ Program \in Threads /\ Pumper \in Threads /\ Downloaders \subseteq Threads
    /\ NoBlock \notin Blocks
    /\ IsFiniteSet(Threads)
  <1>1. {Program, Pumper, NoOne} \intersect Downloaders = {} /\ NoBlock \notin Blocks
    BY ThreadAssumption
  <1>2. Cardinality({Program, Pumper, NoOne}) = 3
    BY ThreadAssumption
  <1>3. Program # Pumper /\ Program # NoOne /\ Pumper # NoOne
    <2>1. ASSUME NEW x, NEW y, {Program, Pumper, NoOne} = {x, y} PROVE FALSE
      <3>1. IsFiniteSet({x}) /\ Cardinality({x}) = 1
        BY FS_Singleton
      <3>2. Cardinality({x} \union {y}) = IF y \in {x} THEN Cardinality({x}) ELSE Cardinality({x}) + 1
        BY <3>1, FS_AddElement
      <3>3. {x} \union {y} = {x, y}
        OBVIOUS
      <3> QED BY <1>2, <2>1, <3>1, <3>2, <3>3
    <2>2. Program = Pumper => {Program, Pumper, NoOne} = {Pumper, NoOne}
      OBVIOUS
    <2>3. Program = NoOne => {Program, Pumper, NoOne} = {Pumper, NoOne}
      OBVIOUS
    <2>4. Pumper = NoOne => {Program, Pumper, NoOne} = {Program, NoOne}
      OBVIOUS
    <2> QED BY <2>1, <2>2, <2>3, <2>4
  <1>4. IsFiniteSet(Threads)
    <2>1. IsFiniteSet(Downloaders)
      BY BorderTypes, FS_Interval DEF Downloaders
    <2>2. IsFiniteSet({Program})
      BY FS_Singleton
    <2>3. IsFiniteSet({Program} \union {Pumper})
      BY <2>2, FS_AddElement
    <2>4. {Program} \union {Pumper} = {Program, Pumper}
      OBVIOUS
    <2> QED BY <2>1, <2>3, <2>4, FS_Union DEF Threads
  <1> QED BY <1>1, <1>3, <1>4 DEF Threads

----------------------------------------------------------------------------
(* What the parts of the invariant depend on.                              *)

USE DEF poolVars, lockVars, nodeVars, groupVars, readerVars, requestVars, pumpVars

Holding == {"lock", "node", "make"}
Working == {"node", "get", "put"}

Owners == {t \in Threads : OwnsWorker(t)}
Fetchers == {t \in Threads : Fetches(t)}

LEMMA CountIs ==
    WorkersCounted <=> connections = free + lost + Cardinality(Owners) + Cardinality(Fetchers)
  BY DEF WorkersCounted, Owners, Fetchers

LEMMA FiniteHands ==
    /\ IsFiniteSet(Owners) /\ Cardinality(Owners) \in Nat
    /\ IsFiniteSet(Fetchers) /\ Cardinality(Fetchers) \in Nat
  BY ThreadFacts, FS_Subset, FS_CardinalityType DEF Owners, Fetchers

\* The workers stay where they are.
LEMMA CountFrame ==
    ASSUME WorkersCounted,
           connections' = connections, free' = free, lost' = lost, fetching' = fetching,
           pump \in Holding <=> pump' \in Holding,
           \A d \in Downloaders : at[d] \in Working <=> at'[d] \in Working
    PROVE  WorkersCounted'
  <1>1. {t \in Threads : OwnsWorker(t)}' = {t \in Threads : OwnsWorker(t)}
    BY DEF OwnsWorker, Holding, Working
  <1>2. {t \in Threads : Fetches(t)}' = {t \in Threads : Fetches(t)}
    BY DEF Fetches
  <1> QED BY <1>1, <1>2 DEF WorkersCounted

LEMMA LocksFrame ==
    ASSUME LocksHeld, mutex' = mutex,
           reader' = reader \/ {reader, reader'} \intersect {"sweep", "lock", "node", "take"} = {},
           pump' = pump \/ "replace" \notin {pump, pump'}
    PROVE  LocksHeld'
  BY DEF LocksHeld

LEMMA QueueFrame ==
    ASSUME TypeOK, QueueSound, queuedown' = queuedown, made' = made,
           pumpOffset' = pumpOffset,
           \A d \in Downloaders : at[d] = "none" <=> at'[d] = "none",
           pump \in {"insert", "replace"} <=> pump' \in {"insert", "replace"},
           pump' \in {"node", "peek", "make"} => pumpOffset < Total,
           pump' = "replace" => pump = "replace"
    PROVE  QueueSound'
  <1>1. /\ \A b \in Blocks : queuedown[b] # NoOne => queuedown[b] \in Downloaders
        /\ made # NoOne => made \in Downloaders
    BY DEF TypeOK
  <1> QED BY <1>1 DEF QueueSound

LEMMA ReaderFrame ==
    ASSUME ReaderSound, start' = start, end' = end, offset' = offset, result' = result,
           out' = out, offsetdown' = offsetdown,
           reader' = reader \/ (reader = "waiting" /\ reader' = "await")
    PROVE  ReaderSound'
  BY DEF ReaderSound, ItemBegin

\* The numbers of the invariant are numbers.
LEMMA Numbers ==
    ASSUME TypeOK
    PROVE  /\ {connections, free, lost} \subseteq Nat
           /\ {offsetdown, taildown, start, end, offset, pumpOffset, pumpTail} \subseteq Nat
           /\ \A o \in {offsetdown, taildown, start, end, offset, pumpOffset, pumpTail} :
                 o <= Total
           /\ Total \in Nat
  BY BlocksAssumption, BorderTypes DEF TypeOK

LEMMA NoBytes == ASSUME NEW a \in Nat PROVE Bytes(a, a) = <<>>
  BY DEF Bytes

LEMMA InitIInv == Init => IInv
  <1> SUFFICES ASSUME Init PROVE IInv
    OBVIOUS
  <1>1. TypeOK
    <2>1. start \in 0..Total /\ end \in 0..Total /\ connections \in Nat
      BY BlocksAssumption, BorderTypes DEF Init
    <2>2. {start, end, offset} \subseteq 0..Total /\ 0 \in 0..Total
      BY <2>1, BorderTypes DEF Init
    <2>3. /\ fetching \in [Threads -> Blocks \union {NoBlock}]
          /\ queuedown \in [Blocks -> {NoOne} \union Downloaders]
          /\ at \in [Downloaders -> {"none", "node", "get", "put", "notify", "ended"}]
          /\ result \in Seq(1..Total) /\ out \in Seq(1..Total)
      BY DEF Init
    <2>4. {listed, groupPumping, pumping, first} \subseteq BOOLEAN
      BY DEF Init
    <2>5. /\ mutex \in {NoOne, Program, Pumper} /\ methodmtx \in {NoOne} \union Threads
          /\ made \in {NoOne} \union Downloaders
      BY DEF Init
    <2>6. {offsetdown, taildown, start, end, offset, pumpOffset, pumpTail} \subseteq 0..Total
      BY <2>2 DEF Init
    <2>7. free \in 0..connections /\ lost \in 0..connections /\ connections \in Connections
      BY <2>1 DEF Init
    <2>8. asleep \subseteq Threads /\ cache \subseteq Blocks
      BY DEF Init
    <2> QED BY <2>3, <2>4, <2>5, <2>6, <2>7, <2>8 DEF Init, TypeOK
  <1>2. WorkersCounted
    <2>1. Owners = {} /\ Fetchers = {}
      BY ThreadFacts DEF Init, OwnsWorker, Fetches, Owners, Fetchers
    <2>2. Cardinality({}) = 0 /\ connections \in Nat /\ free = connections /\ lost = 0
      BY <1>1, Numbers, FS_EmptySet DEF Init
    <2> QED BY <2>1, <2>2, CountIs
  <1>3. LocksHeld
    BY ThreadFacts DEF Init, LocksHeld
  <1>4. QueueSound
    BY ThreadFacts DEF Init, QueueSound
  <1>5. ReaderSound
    BY <1>1, Numbers, NoBytes DEF Init, ReaderSound
  <1> QED BY <1>1, <1>2, <1>3, <1>4, <1>5 DEF IInv

----------------------------------------------------------------------------
(* The program's thread.                                                   *)

LEMMA CallKeeps == ASSUME IInv, Call PROVE IInv'
  <1> USE DEF Call
  <1>1. TypeOK'
    BY DEF IInv, TypeOK
  <1>2. WorkersCounted'
    BY CountFrame DEF IInv
  <1>3. LocksHeld'
    BY ThreadFacts DEF IInv, LocksHeld
  <1>4. QueueSound'
    BY QueueFrame DEF IInv, QueueSound
  <1>5. ReaderSound'
    BY DEF IInv, ReaderSound
  <1> QED BY <1>1, <1>2, <1>3, <1>4, <1>5 DEF IInv

LEMMA SweepKeeps == ASSUME IInv, Sweep PROVE IInv'
  <1> USE DEF Sweep
  <1>1. TypeOK'
    BY DEF IInv, TypeOK
  <1>2. \A d \in Downloaders : at'[d] = at[d] \/ (at[d] = "ended" /\ at'[d] = "none")
    BY DEF Ended
  <1>3. WorkersCounted'
    BY <1>2, CountFrame DEF IInv, Working
  <1>4. LocksHeld'
    BY DEF IInv, LocksHeld
  <1>5. QueueSound'
    <2>1. /\ \A b \in Blocks : queuedown[b] # NoOne => queuedown[b] \in Downloaders
          /\ made # NoOne => made \in Downloaders
      BY DEF IInv, TypeOK
    <2>2. \A b \in Blocks : b \in Unwanted => queuedown[b] # NoOne
      BY DEF Unwanted
    <2>3. \A b \in Blocks : queuedown'[b] # NoOne => queuedown'[b] = queuedown[b] /\ b \notin Unwanted
      OBVIOUS
    <2>4. \A b \in Blocks : queuedown'[b] # NoOne => at'[queuedown'[b]] = at[queuedown[b]]
      BY <2>1, <2>2, <2>3 DEF IInv, QueueSound, Unwanted
    <2>5. \A d \in Downloaders : at'[d] # "none" => d = made \/ queuedown'[BlockOf(d)] = d
      BY <2>1, <1>2, DownloaderBlocks DEF IInv, QueueSound
    <2>6. made # NoOne => at'[made] = at[made]
      BY <2>1, <2>2, ThreadFacts DEF IInv, QueueSound, Unwanted
    <2>7. pump = "replace" => queuedown'[BlockAt(pumpOffset)] # NoOne
      BY ThreadFacts DEF IInv, LocksHeld
    <2> QED BY <2>3, <2>4, <2>5, <2>6, <2>7 DEF IInv, QueueSound
  <1>6. ReaderSound'
    BY DEF IInv, ReaderSound
  <1> QED BY <1>1, <1>3, <1>4, <1>5, <1>6 DEF IInv

LEMMA SpanLockKeeps == ASSUME IInv, SpanLock PROVE IInv'
  <1> USE DEF SpanLock
  <1>1. TypeOK'
    BY ThreadFacts DEF IInv, TypeOK
  <1>2. WorkersCounted'
    BY CountFrame DEF IInv
  <1>3. LocksHeld'
    BY DEF IInv, LocksHeld
  <1>4. QueueSound'
    BY QueueFrame DEF IInv, QueueSound
  <1>5. ReaderSound'
    BY DEF IInv, ReaderSound
  <1> QED BY <1>1, <1>2, <1>3, <1>4, <1>5 DEF IInv

LEMMA InNodeOf ==
    /\ InNode(Program) <=> reader = "node"
    /\ InNode(Pumper) <=> pump \in {"node", "peek"}
    /\ \A d \in Downloaders : InNode(d) <=> at[d] = "node"
    /\ Target(Program) = BlockAt(offset)
    /\ Target(Pumper) = BlockAt(pumpOffset)
    /\ \A d \in Downloaders : Target(d) = BlockOf(d)
  BY ThreadFacts DEF InNode, Target

\* Who looks for a block looks for one there is.
LEMMA TargetThere ==
    ASSUME IInv, NEW t \in Threads, InNode(t)
    PROVE  Target(t) \in Blocks
  <1>0. TypeOK /\ QueueSound /\ ReaderSound
    BY DEF IInv
  <1>1. CASE t = Program
    <2>1. offset \in Nat /\ end \in Nat /\ Total \in Nat /\ end <= Total /\ offset < end
      BY <1>0, <1>1, Numbers, InNodeOf DEF ReaderSound
    <2> QED BY <1>1, <2>1, InNodeOf, BlockAtHolds
  <1>2. CASE t = Pumper
    <2>1. pumpOffset \in Nat /\ pumpOffset < Total
      BY <1>0, <1>2, Numbers, InNodeOf DEF QueueSound
    <2> QED BY <1>2, <2>1, InNodeOf, BlockAtHolds
  <1>3. CASE t \in Downloaders
    BY <1>3, InNodeOf, DownloaderBlocks
  <1> QED BY <1>1, <1>2, <1>3 DEF Threads

LEMMA SpanFoundKeeps == ASSUME IInv, SpanFound PROVE IInv'
  <1> USE DEF SpanFound
  <1>0. reader = "node" /\ mutex = Program /\ pump # "replace"
    BY InNodeOf, ThreadFacts DEF IInv, LocksHeld, Found
  <1>1. BlockAt(offset) \in Blocks
    BY <1>0, TargetThere, InNodeOf, ThreadFacts
  <1>2. TypeOK'
    <2>1. Start(BlockAt(offset)) \in 0..Total
      BY <1>1, BorderTypes, BlockAtStart
    <2> QED BY <2>1 DEF IInv, TypeOK
  <1>3. WorkersCounted'
    BY CountFrame DEF IInv
  <1>4. LocksHeld'
    BY <1>0, ThreadFacts DEF LocksHeld
  <1>5. QueueSound'
    BY QueueFrame DEF IInv, QueueSound
  <1>6. ReaderSound'
    BY <1>0 DEF IInv, ReaderSound
  <1> QED BY <1>2, <1>3, <1>4, <1>5, <1>6 DEF IInv

LEMMA AwaitKeeps == ASSUME IInv, Await PROVE IInv'
  <1> USE DEF Await, WakePump
  <1>1. TypeOK'
    BY DEF IInv, TypeOK
  <1>2. WorkersCounted'
    BY CountFrame DEF IInv, Holding
  <1>3. LocksHeld'
    BY LocksFrame DEF IInv
  <1>4. QueueSound'
    BY QueueFrame DEF IInv, QueueSound
  <1>5. ReaderSound'
    BY DEF IInv, ReaderSound
  <1> QED BY <1>1, <1>2, <1>3, <1>4, <1>5 DEF IInv

\* Where the bytes of the next block are collected from.
LEMMA ItemBegins ==
    ASSUME TypeOK
    PROVE  /\ ItemBegin \in Nat /\ ItemBegin <= Total
           /\ ItemBegin = IF offset < offsetdown THEN offsetdown ELSE offset
  BY Numbers, MaxOfTwo DEF ItemBegin

LEMMA AwaitEndsKeeps == ASSUME IInv, AwaitEnds PROVE IInv'
  <1> USE DEF AwaitEnds
  <1>1. TypeOK'
    BY DEF IInv, TypeOK
  <1>2. WorkersCounted'
    BY CountFrame DEF IInv
  <1>3. LocksHeld'
    BY ThreadFacts DEF IInv, LocksHeld
  <1>4. QueueSound'
    BY QueueFrame DEF IInv, QueueSound
  <1>5. ReaderSound'
    <2>1. offset \in Nat /\ offsetdown \in Nat /\ end \in Nat /\ end <= Total /\ Total \in Nat
      BY Numbers DEF IInv
    <2>2. /\ offset < end /\ offsetdown = Start(BlockAt(offset)) /\ result = <<>>
          /\ offsetdown <= offset
      BY <2>1, BlockAtHolds DEF IInv, ReaderSound
    <2>3. ItemBegin' = offset /\ Bytes(offset, offset) = <<>>
      BY <1>1, <2>1, <2>2, MaxOfTwo, NoBytes DEF ItemBegin
    <2>4. result = Bytes(offset, ItemBegin') /\ offsetdown <= end
      BY <2>1, <2>2, <2>3
    <2> QED BY <2>2, <2>4 DEF IInv, ReaderSound
  <1> QED BY <1>1, <1>2, <1>3, <1>4, <1>5 DEF IInv

\* The reader looks at the block it has come to.
LEMMA AtBlock ==
    ASSUME IInv, reader = "take", Awaited # NoOne
    PROVE  LET b == BlockAt(offsetdown)
           IN /\ b \in Blocks /\ Border[b] \in Nat /\ Border[b] <= Total
              /\ Awaited = queuedown[b] /\ Awaited \in Downloaders
              /\ ItemBegin < Border[b]
              /\ result = Bytes(offset, ItemBegin)
              /\ ItemBegin <= end /\ offset <= ItemBegin
  <1> DEFINE b == BlockAt(offsetdown)
  <1>0. TypeOK /\ QueueSound /\ ReaderSound
    BY DEF IInv
  <1>1. /\ offset \in Nat /\ offsetdown \in Nat /\ end \in Nat /\ end <= Total /\ Total \in Nat
        /\ ItemBegin \in Nat
        /\ ItemBegin = IF offset < offsetdown THEN offsetdown ELSE offset
    BY <1>0, Numbers, ItemBegins
  <1>2. offsetdown < Total /\ Awaited = queuedown[b]
    BY DEF Awaited
  <1>3. b \in Blocks /\ offsetdown < Border[b] /\ Border[b] \in Nat /\ Border[b] <= Total
    BY <1>1, <1>2, BlockAtHolds, BorderTypes, BorderBelow
  <1>4. /\ offset < end /\ offsetdown <= end /\ result = Bytes(offset, ItemBegin)
        /\ offsetdown <= offset => offsetdown = Start(BlockAt(offset))
    BY <1>0 DEF ReaderSound
  <1>5. offset < Total
    BY <1>1, <1>4
  <1>6. CASE offsetdown <= offset
    <2>1. BlockAt(offset) \in Blocks /\ offset < Border[BlockAt(offset)]
      BY <1>1, <1>5, BlockAtHolds
    <2>2. b = BlockAt(offset)
      BY <1>4, <1>6, <2>1, BlockAtStart
    <2> HIDE DEF b
    <2> QED BY <1>0, <1>1, <1>2, <1>3, <1>4, <1>6, <2>1, <2>2 DEF TypeOK, b
  <1>7. CASE offset < offsetdown
    BY <1>0, <1>1, <1>2, <1>3, <1>4, <1>7 DEF TypeOK
  <1> QED BY <1>1, <1>6, <1>7

LEMMA TakeBlockKeeps == ASSUME IInv, TakeBlock PROVE IInv'
  <1> USE DEF TakeBlock
  <1> DEFINE b == BlockAt(offsetdown)
             d == Awaited
  <1>0. TypeOK /\ QueueSound /\ ReaderSound
    BY DEF IInv
  <1>1. /\ b \in Blocks /\ Border[b] \in Nat /\ Border[b] <= Total
        /\ d = queuedown[b] /\ d \in Downloaders
        /\ ItemBegin < Border[b]
        /\ result = Bytes(offset, ItemBegin) /\ offset <= ItemBegin
    BY AtBlock
  <1>2. ItemBegin \in Nat /\ offset \in Nat /\ end \in Nat /\ Total \in Nat
    BY <1>0, Numbers, ItemBegins
  <1>3. result' = Bytes(offset, Border[b])
    <2> DEFINE c == Border[b]
    <2>1. c \in Nat /\ ItemBegin <= c /\ c <= Total
      BY <1>1, <1>2
    <2> HIDE DEF c
    <2>2. Bytes(offset, ItemBegin) \o Bytes(ItemBegin, c) = Bytes(offset, c)
      BY <1>1, <1>2, <2>1, BytesJoin
    <2> QED BY <1>1, <2>2 DEF c
  <1>4. TypeOK'
    <2>1. Border[b] \in 0..Total /\ offset <= Border[b]
      BY <1>1, <1>2
    <2>2. result' \in Seq(1..Total)
      BY <1>1, <1>2, <1>3, <2>1, BytesType
    <2> QED BY <1>0, <1>1, <2>1, <2>2 DEF TypeOK
  <1>5. WorkersCounted'
    <2>1. \A e \in Downloaders : at[e] \in Working <=> at'[e] \in Working
      BY <1>0, <1>1 DEF TypeOK, Ended, Working
    <2> QED BY <2>1, CountFrame DEF IInv
  <1>6. LocksHeld'
    BY LocksFrame DEF IInv
  <1>7. QueueSound'
    <2>1. d # NoOne /\ BlockOf(d) = b /\ d # made
      BY <1>0, <1>1, ThreadFacts DEF QueueSound
    <2>2. pump # "replace"
      BY ThreadFacts DEF IInv, LocksHeld
    <2>3. /\ queuedown'[b] = NoOne /\ \A c \in Blocks \ {b} : queuedown'[c] = queuedown[c]
          /\ at'[d] = "none" /\ \A e \in Downloaders \ {d} : at'[e] = at[e]
      BY <1>0, <1>1 DEF TypeOK
    <2>4. \A c \in Blocks \ {b} : queuedown[c] # NoOne =>
             queuedown[c] \in Downloaders \ {d} /\ BlockOf(queuedown[c]) = c
             /\ at[queuedown[c]] # "none" /\ queuedown[c] # made
      BY <1>0, <2>1 DEF TypeOK, QueueSound
    <2>5. \A e \in Downloaders : at'[e] # "none" => e = made \/ queuedown'[BlockOf(e)] = e
      <3> SUFFICES ASSUME NEW e \in Downloaders, at'[e] # "none", e # made
                   PROVE  queuedown'[BlockOf(e)] = e
        OBVIOUS
      <3>1. e # d /\ BlockOf(e) \in Blocks /\ queuedown[BlockOf(e)] = e
        BY <1>0, <2>3, DownloaderBlocks DEF QueueSound
      <3>2. BlockOf(e) # b
        BY <1>1, <3>1
      <3> QED BY <2>3, <3>1, <3>2
    <2>6. made # NoOne => made \in Downloaders \ {d}
      BY <1>0, <2>1 DEF TypeOK
    <2> HIDE DEF b, d
    <2> QED BY <1>0, <2>2, <2>3, <2>4, <2>5, <2>6 DEF QueueSound
  <1>8. ReaderSound'
    <2>1. ItemBegin' = Border[b] /\ ~(Border[b] <= offset)
      BY <1>1, <1>2, MaxOfTwo DEF ItemBegin
    <2> QED BY <1>0, <1>3, <2>1 DEF ReaderSound
  <1> QED BY <1>4, <1>5, <1>6, <1>7, <1>8 DEF IInv

\* What the program has written when it has collected the bytes up to m.
LEMMA ReturnKeeps ==
    ASSUME IInv, reader = "take", NEW m \in Nat, offset <= m, m <= end,
           Return(Bytes(offset, m))
    PROVE  IInv' /\ out' = Bytes(start, m) /\ offset' = m
  <1> USE DEF Return
  <1>0. TypeOK /\ ReaderSound
    BY DEF IInv
  <1>1. /\ start \in Nat /\ offset \in Nat /\ end \in Nat /\ Total \in Nat
        /\ end <= Total /\ start <= offset
    BY <1>0, Numbers DEF ReaderSound
  <1>2. offset' = m
    BY <1>1, BytesType
  <1>3. out' = Bytes(start, m) /\ out' \in Seq(1..Total)
    <2>1. m <= Total /\ start <= m
      BY <1>1
    <2>2. Bytes(start, offset) \o Bytes(offset, m) = Bytes(start, m)
      BY <1>1, <2>1, BytesJoin
    <2>3. Bytes(start, m) \in Seq(1..Total)
      BY <1>1, <2>1, BytesType
    <2> QED BY <1>0, <2>2, <2>3 DEF ReaderSound
  <1>4. TypeOK'
    BY <1>0, <1>1, <1>2, <1>3 DEF TypeOK
  <1>5. WorkersCounted'
    BY CountFrame DEF IInv
  <1>6. LocksHeld'
    BY ThreadFacts DEF IInv, LocksHeld
  <1>7. QueueSound'
    BY QueueFrame DEF IInv, QueueSound
  <1>8. ReaderSound'
    <2>1. start' <= offset' /\ offset' <= end'
      BY <1>1, <1>2
    <2> QED BY <1>0, <1>2, <1>3, <2>1 DEF ReaderSound
  <1> QED BY <1>2, <1>3, <1>4, <1>5, <1>6, <1>7, <1>8 DEF IInv

LEMMA TakePartReturns ==
    ASSUME IInv, TakePart
    PROVE  offset <= end /\ end \in Nat /\ Return(Bytes(offset, end))
  <1>1. /\ ItemBegin <= end /\ offset <= ItemBegin /\ result = Bytes(offset, ItemBegin)
    BY AtBlock DEF TakePart
  <1>2. /\ ItemBegin \in Nat /\ offset \in Nat /\ end \in Nat /\ Total \in Nat
        /\ end <= Total
    BY Numbers, ItemBegins DEF IInv
  <1>3. result \o Bytes(ItemBegin, end) = Bytes(offset, end)
    BY <1>1, <1>2, BytesJoin
  <1> QED BY <1>1, <1>2, <1>3 DEF TakePart

LEMMA TakeNothingReturns ==
    ASSUME IInv, TakeNothing
    PROVE  /\ offset <= ItemBegin /\ ItemBegin <= end /\ ItemBegin \in Nat
           /\ Return(Bytes(offset, ItemBegin))
  <1>1. /\ offset \in Nat /\ end \in Nat /\ offsetdown \in Nat /\ ItemBegin \in Nat
        /\ ItemBegin = IF offset < offsetdown THEN offsetdown ELSE offset
    BY Numbers, ItemBegins DEF IInv
  <1>2. offset < end /\ offsetdown <= end /\ result = Bytes(offset, ItemBegin)
    BY DEF IInv, ReaderSound, TakeNothing
  <1> QED BY <1>1, <1>2 DEF TakeNothing

LEMMA TakePartKeeps == ASSUME IInv, TakePart PROVE IInv'
  BY TakePartReturns, ReturnKeeps DEF TakePart

LEMMA TakeNothingKeeps == ASSUME IInv, TakeNothing PROVE IInv'
  BY TakeNothingReturns, ReturnKeeps DEF TakeNothing

LEMMA StopGroupKeeps == ASSUME IInv, StopGroup PROVE IInv'
  <1> USE DEF StopGroup
  <1>1. TypeOK'
    BY DEF IInv, TypeOK
  <1>2. WorkersCounted'
    BY CountFrame DEF IInv
  <1>3. LocksHeld'
    BY LocksFrame DEF IInv
  <1>4. QueueSound'
    BY QueueFrame DEF IInv, QueueSound
  <1>5. ReaderSound'
    BY Numbers DEF IInv, ReaderSound
  <1> QED BY <1>1, <1>2, <1>3, <1>4, <1>5 DEF IInv

LEMMA StopStreamKeeps == ASSUME IInv, StopStream PROVE IInv'
  <1> USE DEF StopStream, WakePump
  <1>1. TypeOK'
    BY DEF IInv, TypeOK
  <1>2. WorkersCounted'
    BY CountFrame DEF IInv, Holding
  <1>3. LocksHeld'
    BY LocksFrame DEF IInv
  <1>4. QueueSound'
    BY QueueFrame DEF IInv, QueueSound
  <1>5. ReaderSound'
    BY DEF IInv, ReaderSound
  <1> QED BY <1>1, <1>2, <1>3, <1>4, <1>5 DEF IInv

LEMMA StopNotifyKeeps == ASSUME IInv, StopNotify PROVE IInv'
  <1> USE DEF StopNotify, WakePump
  <1>1. TypeOK'
    BY DEF IInv, TypeOK
  <1>2. WorkersCounted'
    BY CountFrame DEF IInv, Holding
  <1>3. LocksHeld'
    BY LocksFrame DEF IInv
  <1>4. QueueSound'
    BY QueueFrame DEF IInv, QueueSound
  <1>5. ReaderSound'
    BY DEF IInv, ReaderSound
  <1> QED BY <1>1, <1>2, <1>3, <1>4, <1>5 DEF IInv

LEMMA JoinKeeps == ASSUME IInv, Join PROVE IInv'
  <1> USE DEF Join
  <1>1. TypeOK'
    BY DEF IInv, TypeOK
  <1>2. WorkersCounted'
    BY CountFrame DEF IInv
  <1>3. LocksHeld'
    BY LocksFrame DEF IInv
  <1>4. QueueSound'
    BY QueueFrame DEF IInv, QueueSound
  <1>5. ReaderSound'
    BY DEF IInv, ReaderSound
  <1> QED BY <1>1, <1>2, <1>3, <1>4, <1>5 DEF IInv

----------------------------------------------------------------------------
(* The pump thread.  A step of its that moves no worker, and neither the   *)
(* queue nor its place in the stream, keeps the invariant.                 *)

LEMMA PumpMoves ==
    ASSUME IInv, TypeOK',
           UNCHANGED <<connections, free, lost, fetching, mutex, start, end, offset, result,
                       out, offsetdown, queuedown, made, at>>,
           pump \in Holding <=> pump' \in Holding,
           {pump, pump'} \intersect {"insert", "replace"} = {},
           pump' \in {"node", "peek", "make"} => pumpOffset' < Total,
           reader' = reader \/ (reader = "waiting" /\ reader' = "await")
    PROVE  IInv'
  <1>1. WorkersCounted'
    BY CountFrame DEF IInv
  <1>2. LocksHeld'
    BY DEF IInv, LocksHeld
  <1>3. QueueSound'
    <2>1. /\ \A b \in Blocks : queuedown[b] # NoOne => queuedown[b] \in Downloaders
          /\ made = NoOne
      BY DEF IInv, TypeOK, QueueSound
    <2> QED BY <2>1 DEF IInv, QueueSound
  <1>4. ReaderSound'
    BY ReaderFrame DEF IInv
  <1> QED BY <1>1, <1>2, <1>3, <1>4 DEF IInv

LEMMA PumpEmptyKeeps == ASSUME IInv, PumpEmpty PROVE IInv'
  <1> USE DEF PumpEmpty, Holding
  <1>1. TypeOK'
    BY DEF IInv, TypeOK
  <1> QED BY <1>1, PumpMoves

LEMMA PumpWaitKeeps == ASSUME IInv, PumpWait PROVE IInv'
  <1> USE DEF PumpWait, Holding
  <1>1. TypeOK'
    BY DEF IInv, TypeOK
  <1> QED BY <1>1, PumpMoves

LEMMA PumpPickKeeps == ASSUME IInv, PumpPick PROVE IInv'
  <1> USE DEF PumpPick, Holding
  <1>1. TypeOK'
    BY DEF IInv, TypeOK
  <1> QED BY <1>1, PumpMoves

LEMMA GetRequestKeeps == ASSUME IInv, GetRequest PROVE IInv'
  <1> USE DEF GetRequest, Holding
  <1>1. TypeOK'
    BY DEF IInv, TypeOK
  <1> QED BY <1>1, PumpMoves

\* queue_net_down returns.
LEMMA ReturnTypes ==
    ASSUME TypeOK, ReturnToPump, lost' \in 0..connections,
           reader' = reader \/ reader' = "await",
           UNCHANGED <<connections, free, asleep, lockVars, nodeVars, groupVars, start, end,
                       offset, result, out, requestVars, queuedown, at>>
    PROVE  TypeOK'
  <1> USE DEF ReturnToPump
  <1>1. reader' \in {"call", "sweep", "lock", "node", "await", "waiting", "take",
                     "stopping", "stopped", "joining", "exit"}
    BY DEF TypeOK
  <1>2. {listed, groupPumping, pumping, first}' \subseteq BOOLEAN
    BY DEF TypeOK
  <1>3. {offsetdown, taildown, start, end, offset, pumpOffset, pumpTail}' \subseteq 0..Total
    <2>1. 0 \in 0..Total
      BY BorderTypes
    <2> QED BY <2>1 DEF TypeOK
  <1>4. connections' \in Connections /\ free' \in 0..connections' /\ lost' \in 0..connections'
    BY DEF TypeOK
  <1>5. /\ asleep' \subseteq Threads /\ mutex' \in {NoOne, Program, Pumper}
        /\ methodmtx' \in {NoOne} \union Threads /\ cache' \subseteq Blocks
        /\ fetching' \in [Threads -> Blocks \union {NoBlock}]
        /\ queuedown' \in [Blocks -> {NoOne} \union Downloaders]
        /\ result' \in Seq(1..Total) /\ out' \in Seq(1..Total)
        /\ pump' = "loop" /\ made' = NoOne
        /\ at' \in [Downloaders -> {"none", "node", "get", "put", "notify", "ended"}]
    BY DEF TypeOK
  <1> QED BY <1>1, <1>2, <1>3, <1>4, <1>5 DEF TypeOK

LEMMA CheckReturnsKeeps == ASSUME IInv, CheckReturns PROVE IInv'
  <1> USE DEF CheckReturns, WakeReader
  <1>1. TypeOK'
    BY ReturnTypes DEF IInv, TypeOK
  <1>2. made = NoOne
    BY DEF IInv, QueueSound
  <1> QED BY <1>1, <1>2, PumpMoves DEF ReturnToPump, Holding

LEMMA CheckPassesKeeps == ASSUME IInv, CheckPasses PROVE IInv'
  <1> USE DEF CheckPasses, Holding
  <1>1. TypeOK'
    BY DEF IInv, TypeOK
  <1> QED BY <1>1, PumpMoves

LEMMA PollEndsKeeps == ASSUME IInv, PollEnds PROVE IInv'
  <1> USE DEF PollEnds
  <1>1. TypeOK'
    BY ReturnTypes DEF IInv, TypeOK
  <1>2. made = NoOne
    BY DEF IInv, QueueSound
  <1> QED BY <1>1, <1>2, PumpMoves DEF ReturnToPump, Holding

LEMMA PollFailsKeeps == ASSUME IInv, PollFails PROVE IInv'
  <1> USE DEF PollFails, Holding
  <1>1. TypeOK'
    BY DEF IInv, TypeOK
  <1> QED BY <1>1, PumpMoves

LEMMA PollWaitsKeeps == ASSUME IInv, PollWaits PROVE IInv'
  <1> USE DEF PollWaits, Holding
  <1>1. TypeOK'
    BY ThreadFacts DEF IInv, TypeOK
  <1> QED BY <1>1, PumpMoves

\* A worker comes into a thread's hands or leaves them.
LEMMA CountNext ==
    ASSUME connections' = free' + lost' + Cardinality(Owners') + Cardinality(Fetchers')
    PROVE  WorkersCounted'
  BY DEF WorkersCounted, Owners, Fetchers

LEMMA OneMore ==
    ASSUME NEW S, IsFiniteSet(S), NEW t, t \notin S
    PROVE  /\ IsFiniteSet(S \union {t}) /\ Cardinality(S) \in Nat
           /\ Cardinality(S \union {t}) = Cardinality(S) + 1
  BY FS_AddElement, FS_CardinalityType

LEMMA OneLess ==
    ASSUME NEW S, IsFiniteSet(S), NEW t \in S
    PROVE  /\ IsFiniteSet(S \ {t}) /\ Cardinality(S) \in Nat \ {0}
           /\ Cardinality(S \ {t}) = Cardinality(S) - 1
  <1>1. /\ IsFiniteSet(S \ {t}) /\ Cardinality(S) \in Nat /\ Cardinality(S \ {t}) \in Nat
        /\ Cardinality(S \ {t}) = Cardinality(S) - 1
    BY FS_RemoveElement, FS_CardinalityType
  <1> QED BY <1>1

\* Who owns a worker.
LEMMA OwnersAre ==
    /\ Pumper \in Owners <=> pump \in Holding
    /\ \A d \in Downloaders : d \in Owners <=> at[d] \in Working
    /\ Program \notin Owners
    /\ Owners \subseteq Threads
  BY ThreadFacts DEF Owners, OwnsWorker, Holding, Working

LEMMA OwnersAreNext ==
    /\ Pumper \in Owners' <=> pump' \in Holding
    /\ \A d \in Downloaders : d \in Owners' <=> at'[d] \in Working
    /\ Program \notin Owners'
    /\ Owners' \subseteq Threads
  BY ThreadFacts DEF Owners, OwnsWorker, Holding, Working

LEMMA FetchersSame == fetching' = fetching => Fetchers' = Fetchers
  BY DEF Fetchers, Fetches

LEMMA PollTakesKeeps == ASSUME IInv, PollTakes PROVE IInv'
  <1> USE DEF PollTakes
  <1>1. TypeOK'
    <2>1. free - 1 \in 0..connections
      BY Numbers DEF IInv, TypeOK
    <2> QED BY <2>1 DEF IInv, TypeOK
  <1>2. WorkersCounted'
    <2>1. Owners' = Owners \union {Pumper} /\ Pumper \notin Owners
      BY OwnersAre, OwnersAreNext, ThreadFacts DEF Holding, Threads
    <2>2. Cardinality(Owners') = Cardinality(Owners) + 1
      BY <2>1, OneMore, FiniteHands
    <2> QED BY <2>2, CountNext, CountIs, FiniteHands, Numbers, FetchersSame DEF IInv
  <1>3. LocksHeld'
    BY LocksFrame DEF IInv
  <1>4. QueueSound'
    BY QueueFrame DEF IInv
  <1>5. ReaderSound'
    BY ReaderFrame DEF IInv
  <1> QED BY <1>1, <1>2, <1>3, <1>4, <1>5 DEF IInv

LEMMA BlockSpanLockKeeps == ASSUME IInv, BlockSpanLock PROVE IInv'
  <1> USE DEF BlockSpanLock, Holding
  <1>1. TypeOK'
    BY ThreadFacts DEF IInv, TypeOK
  <1> QED BY <1>1, PumpMoves

LEMMA BlockSpanThrowsKeeps == ASSUME IInv, BlockSpanThrows PROVE IInv'
  <1> USE DEF BlockSpanThrows
  <1>1. CASE pump = "peeklock"
    <2>1. TypeOK'
      BY <1>1, ReturnTypes DEF IInv, TypeOK
    <2>2. made = NoOne
      BY <1>1 DEF IInv, QueueSound
    <2> QED BY <1>1, <2>1, <2>2, PumpMoves DEF ReturnToPump, Holding
  <1>2. CASE pump = "lock"
    <2> USE DEF ReturnToPump
    <2>1. Owners' = Owners \ {Pumper} /\ Pumper \in Owners
      BY <1>2, OwnersAre, OwnersAreNext, ThreadFacts DEF Holding, Threads
    <2>2. Cardinality(Owners') = Cardinality(Owners) - 1 /\ Cardinality(Owners) \in Nat \ {0}
      BY <2>1, OneLess, FiniteHands
    <2>3. WorkersCounted'
      BY <1>2, <2>2, CountNext, CountIs, FiniteHands, Numbers, FetchersSame DEF IInv
    <2>4. lost + 1 \in 0..connections
      BY <2>2, CountIs, FiniteHands, Numbers DEF IInv
    <2>5. TypeOK'
      <3>1. lost' \in 0..connections
        BY <1>2, <2>4
      <3> HIDE DEF ReturnToPump
      <3> QED BY <3>1, ReturnTypes DEF IInv
    <2>6. LocksHeld'
      BY <1>2, LocksFrame DEF IInv
    <2>7. QueueSound'
      <3>1. /\ \A b \in Blocks : queuedown[b] # NoOne => queuedown[b] \in Downloaders
            /\ made = NoOne
        BY <1>2 DEF IInv, TypeOK, QueueSound
      <3> QED BY <3>1 DEF IInv, QueueSound
    <2>8. ReaderSound'
      BY ReaderFrame DEF IInv
    <2> QED BY <2>3, <2>5, <2>6, <2>7, <2>8 DEF IInv
  <1> QED BY <1>1, <1>2

LEMMA BlockSpanFoundKeeps == ASSUME IInv, BlockSpanFound PROVE IInv'
  <1> USE DEF BlockSpanFound, Holding
  <1>1. pump \in {"node", "peek"}
    BY InNodeOf DEF Found
  <1>2. pumpOffset < Total
    BY <1>1 DEF IInv, QueueSound
  <1>3. TypeOK'
    BY DEF IInv, TypeOK
  <1> QED BY <1>1, <1>2, <1>3, PumpMoves

\* Of the two downloaders of a block one can be made when the pump has none in
\* its hands.
LEMMA DownloaderFree ==
    ASSUME IInv, made = NoOne, NEW b \in Blocks
    PROVE  \E d \in Downloaders : BlockOf(d) = b /\ at[d] = "none"
  <1>1. /\ 2 * b \in Downloaders /\ 2 * b - 1 \in Downloaders
        /\ BlockOf(2 * b) = b /\ BlockOf(2 * b - 1) = b
    BY DownloaderBlocks
  <1>2. 2 * b # 2 * b - 1
    BY BorderTypes
  <1> DEFINE d == 2 * b
             e == 2 * b - 1
  <1> HIDE DEF d, e
  <1>3. d \in Downloaders /\ e \in Downloaders /\ BlockOf(d) = b /\ BlockOf(e) = b /\ d # e
    BY <1>1, <1>2 DEF d, e
  <1>4. at[d] = "none" \/ at[e] = "none"
    BY <1>3, ThreadFacts DEF IInv, QueueSound
  <1> QED BY <1>3, <1>4

LEMMA MakeKeeps == ASSUME IInv, Make PROVE IInv'
  <1> USE DEF Make
  <1> DEFINE b == BlockAt(pumpOffset)
  <1>0. TypeOK /\ QueueSound
    BY DEF IInv
  <1>1. made = NoOne /\ pumpOffset \in Nat /\ pumpOffset < Total
    BY <1>0, Numbers DEF QueueSound
  <1>2. b \in Blocks
    BY <1>1, BlockAtHolds
  <1>3. made' \in Downloaders /\ BlockOf(made') = b /\ at[made'] = "none"
    <2>1. \E d \in Downloaders : BlockOf(d) = b /\ at[d] = "none"
      BY <1>1, <1>2, DownloaderFree
    <2> HIDE DEF b
    <2>2. made' = CHOOSE d \in Downloaders : BlockOf(d) = b /\ at[d] = "none"
      BY DEF b
    <2> QED BY <2>1, <2>2
  <1> DEFINE m == made'
  <1>4. at'[m] = "node" /\ \A d \in Downloaders \ {m} : at'[d] = at[d]
    BY <1>0, <1>3 DEF TypeOK
  <1>5. TypeOK'
    BY <1>0, <1>3 DEF TypeOK
  <1>6. WorkersCounted'
    <2>1. Pumper \in Owners /\ m \notin Owners \ {Pumper}
      BY <1>3, OwnersAre DEF Holding, Working
    <2>2. Owners' = (Owners \ {Pumper}) \union {m}
      <3>1. Pumper \notin Owners' /\ m \in Owners' /\ m # Pumper
        BY <1>3, <1>4, OwnersAreNext, ThreadFacts DEF Holding, Working
      <3>2. \A d \in Downloaders \ {m} : d \in Owners' <=> d \in Owners
        BY <1>4, OwnersAre, OwnersAreNext
      <3> QED BY <3>1, <3>2, OwnersAre, OwnersAreNext DEF Threads
    <2>3. /\ IsFiniteSet(Owners \ {Pumper})
          /\ Cardinality(Owners \ {Pumper}) = Cardinality(Owners) - 1
      BY <2>1, OneLess, FiniteHands
    <2>4. Cardinality(Owners') = Cardinality(Owners \ {Pumper}) + 1
      BY <2>1, <2>2, <2>3, OneMore
    <2>5. Cardinality(Owners') = Cardinality(Owners)
      BY <2>3, <2>4, FiniteHands
    <2> QED BY <2>5, CountNext, CountIs, FiniteHands, Numbers, FetchersSame DEF IInv
  <1>7. LocksHeld'
    BY LocksFrame DEF IInv
  <1>8. QueueSound'
    <2>1. \A c \in Blocks : queuedown[c] # NoOne =>
             queuedown[c] \in Downloaders /\ BlockOf(queuedown[c]) = c
             /\ at[queuedown[c]] # "none" /\ queuedown[c] # m
      BY <1>0, <1>3 DEF TypeOK, QueueSound
    <2>2. \A d \in Downloaders : at'[d] # "none" => d = m \/ queuedown[BlockOf(d)] = d
      BY <1>0, <1>1, <1>4, ThreadFacts DEF QueueSound
    <2>3. /\ queuedown' = queuedown /\ pump' = "insert" /\ pumpOffset' = pumpOffset
          /\ m # NoOne /\ at'[m] # "none" /\ BlockOf(m) = BlockAt(pumpOffset)
      BY <1>3, <1>4, ThreadFacts
    <2> HIDE DEF m, b
    <2> QED BY <1>1, <1>3, <1>4, <2>1, <2>2, <2>3 DEF QueueSound, m
  <1>9. ReaderSound'
    BY ReaderFrame DEF IInv
  <1> QED BY <1>5, <1>6, <1>7, <1>8, <1>9 DEF IInv

\* The downloader the pump has made is queued for the block, in the place of
\* one that is made to end, and the pump goes on.
LEMMA QueueKeeps ==
    ASSUME IInv, pump \in {"insert", "replace"}, mutex \in {NoOne, Pumper},
           NEW b \in Blocks, b = BlockAt(pumpOffset), Queue(b),
           \A d \in Downloaders : at'[d] = IF d = queuedown[b] THEN "none" ELSE at[d],
           at' \in [Downloaders -> {"none", "node", "get", "put", "notify", "ended"}],
           queuedown[b] # NoOne => at[queuedown[b]] = "ended",
           mutex' = NoOne,
           UNCHANGED <<poolVars, methodmtx, nodeVars, groupVars, readerVars, requestVars,
                       pumpTail>>
    PROVE  IInv'
  <1> USE DEF Queue
  <1>0. TypeOK /\ QueueSound /\ LocksHeld
    BY DEF IInv
  <1>1. /\ made \in Downloaders /\ made # NoOne /\ BlockOf(made) = b /\ at[made] # "none"
        /\ Border[b] \in 0..Total
    BY <1>0, BorderTypes, BorderBelow DEF TypeOK, QueueSound
  <1>2. pump' \in {"poll", "peeklock"}
    OBVIOUS
  <1>3. /\ queuedown'[b] = made
        /\ \A c \in Blocks \ {b} : queuedown'[c] = queuedown[c]
        /\ queuedown' \in [Blocks -> {NoOne} \union Downloaders]
    BY <1>0, <1>1 DEF TypeOK
  <1>4. TypeOK'
    <2>1. {listed, groupPumping, pumping, first}' \subseteq BOOLEAN
      BY <1>0 DEF TypeOK
    <2>2. {offsetdown, taildown, start, end, offset, pumpOffset, pumpTail}' \subseteq 0..Total
      BY <1>0, <1>1 DEF TypeOK
    <2> QED BY <1>0, <1>2, <1>3, <2>1, <2>2 DEF TypeOK
  <1>5. WorkersCounted'
    <2>1. \A d \in Downloaders : at[d] \in Working <=> at'[d] \in Working
      BY ThreadFacts DEF Working
    <2> QED BY <1>2, <2>1, CountFrame DEF IInv, Holding
  <1>6. LocksHeld'
    BY <1>0, <1>2, ThreadFacts DEF LocksHeld
  <1>7. QueueSound'
    <2>1. queuedown[b] # made
      BY <1>0, <1>1 DEF QueueSound
    <2>2. \A c \in Blocks \ {b} : queuedown[c] # NoOne =>
             /\ queuedown[c] \in Downloaders /\ BlockOf(queuedown[c]) = c
             /\ at'[queuedown[c]] # "none"
      <3> SUFFICES ASSUME NEW c \in Blocks \ {b}, queuedown[c] # NoOne
                   PROVE  /\ queuedown[c] \in Downloaders /\ BlockOf(queuedown[c]) = c
                          /\ at'[queuedown[c]] # "none"
        OBVIOUS
      <3>1. /\ queuedown[c] \in Downloaders /\ BlockOf(queuedown[c]) = c
            /\ at[queuedown[c]] # "none"
        BY <1>0 DEF TypeOK, QueueSound
      <3>2. queuedown[c] # queuedown[b]
        BY <1>0, <3>1 DEF QueueSound
      <3> QED BY <3>1, <3>2
    <2>3. at'[made] # "none"
      BY <1>1, <2>1
    <2>4. \A d \in Downloaders : at'[d] # "none" => queuedown'[BlockOf(d)] = d
      <3> SUFFICES ASSUME NEW d \in Downloaders, at'[d] # "none", d # made
                   PROVE  queuedown'[BlockOf(d)] = d
        BY <1>1, <1>3
      <3>1. d # queuedown[b] /\ at[d] # "none"
        OBVIOUS
      <3>2. queuedown[BlockOf(d)] = d /\ BlockOf(d) \in Blocks
        BY <1>0, <3>1, DownloaderBlocks DEF QueueSound
      <3> QED BY <1>3, <3>1, <3>2
    <2> QED BY <1>1, <1>2, <1>3, <2>2, <2>3, <2>4 DEF QueueSound
  <1>8. ReaderSound'
    BY ReaderFrame DEF IInv
  <1> QED BY <1>4, <1>5, <1>6, <1>7, <1>8 DEF IInv

LEMMA PumpsBlock ==
    ASSUME IInv, pump \in {"insert", "replace"}
    PROVE  BlockAt(pumpOffset) \in Blocks
  BY Numbers, BlockAtHolds DEF IInv, QueueSound

LEMMA InsertKeeps == ASSUME IInv, Insert PROVE IInv'
  <1> USE DEF Insert
  <1> DEFINE b == BlockAt(pumpOffset)
  <1>0. TypeOK /\ b \in Blocks
    BY PumpsBlock DEF IInv
  <1>1. CASE queuedown[b] = NoOne
    <2>1. /\ at' \in [Downloaders -> {"none", "node", "get", "put", "notify", "ended"}]
          /\ \A d \in Downloaders : at'[d] = IF d = queuedown[b] THEN "none" ELSE at[d]
      BY <1>0, <1>1, ThreadFacts DEF TypeOK
    <2>2. Queue(b) /\ mutex' = NoOne
      BY <1>1
    <2> HIDE DEF b
    <2>3. b = BlockAt(pumpOffset)
      BY DEF b
    <2> QED BY <1>0, <1>1, <2>1, <2>2, <2>3, QueueKeeps
  <1>2. CASE queuedown[b] # NoOne
    <2>1. TypeOK'
      BY <1>0, <1>2 DEF TypeOK
    <2>2. WorkersCounted'
      BY <1>2, CountFrame DEF IInv, Holding
    <2>3. LocksHeld'
      BY <1>2, ThreadFacts DEF IInv, LocksHeld
    <2>4. QueueSound'
      BY <1>0, <1>2 DEF IInv, TypeOK, QueueSound
    <2>5. ReaderSound'
      BY ReaderFrame DEF IInv
    <2> QED BY <2>1, <2>2, <2>3, <2>4, <2>5 DEF IInv
  <1> QED BY <1>1, <1>2

LEMMA ReplaceKeeps == ASSUME IInv, Replace PROVE IInv'
  <1> USE DEF Replace
  <1> DEFINE b == BlockAt(pumpOffset)
  <1>0. TypeOK /\ b \in Blocks /\ mutex = Pumper
    BY PumpsBlock DEF IInv, LocksHeld
  <1>1. Ended(queuedown[b]) /\ Queue(b) /\ at' = [at EXCEPT ![queuedown[b]] = "none"]
    OBVIOUS
  <1>2. /\ at' \in [Downloaders -> {"none", "node", "get", "put", "notify", "ended"}]
        /\ \A d \in Downloaders : at'[d] = IF d = queuedown[b] THEN "none" ELSE at[d]
    BY <1>0, <1>1 DEF TypeOK
  <1>3. at[queuedown[b]] = "ended" /\ b = BlockAt(pumpOffset)
    BY <1>1 DEF Ended
  <1> HIDE DEF b
  <1> QED BY <1>0, <1>1, <1>2, <1>3, QueueKeeps

----------------------------------------------------------------------------
(* get_node.                                                               *)

LEMMA NextIsBlock ==
    ASSUME NEW b \in Blocks, Missing(b) # {}
    PROVE  /\ NextMissing(b) \in DOMAIN Path[b]
           /\ Path[b][NextMissing(b)] \in Blocks
  <1>1. Path[b] \in Seq(Blocks)
    BY BlocksAssumption
  <1>2. Missing(b) \subseteq Nat /\ Missing(b) \subseteq DOMAIN Path[b]
    BY <1>1 DEF Missing
  <1>3. NextMissing(b) \in Missing(b)
    <2> DEFINE M == Missing(b)
    <2>1. M \subseteq Nat /\ M # {}
      BY <1>2
    <2> HIDE DEF M
    <2>2. Min(M) \in M
      BY <2>1, MinOfNumbers
    <2> QED BY <2>2 DEF M, NextMissing
  <1> QED BY <1>1, <1>2, <1>3

\* What a thread does in get_node leaves all but the cache and the pool alone.
LEMMA NodeMoves ==
    ASSUME IInv, TypeOK', WorkersCounted',
           UNCHANGED <<lockVars, groupVars, readerVars, requestVars, queuedown, pumpVars, at>>
    PROVE  IInv'
  <1>1. LocksHeld'
    BY LocksFrame DEF IInv
  <1>2. QueueSound'
    BY QueueFrame DEF IInv, QueueSound
  <1>3. ReaderSound'
    BY ReaderFrame DEF IInv
  <1> QED BY <1>1, <1>2, <1>3 DEF IInv

LEMMA FetchWithOwnKeeps ==
    ASSUME IInv, NEW t \in Threads, FetchWithOwn(t)
    PROVE  IInv'
  <1> USE DEF FetchWithOwn
  <1>1. Target(t) \in Blocks /\ Missing(Target(t)) # {} /\ NextMissing(Target(t)) = 1
    BY TargetThere DEF Asks, UsesOwn
  <1>2. Path[Target(t)][1] \in Blocks
    BY <1>1, NextIsBlock
  <1>3. TypeOK'
    BY <1>2 DEF IInv, TypeOK
  <1>4. WorkersCounted'
    BY CountFrame DEF IInv
  <1> QED BY <1>3, <1>4, NodeMoves

LEMMA FetchTakesKeeps ==
    ASSUME IInv, NEW t \in Threads, FetchTakes(t)
    PROVE  IInv'
  <1> USE DEF FetchTakes
  <1> DEFINE k == Path[Target(t)][NextMissing(Target(t))]
  <1>1. k \in Blocks /\ fetching[t] = NoBlock
    BY TargetThere, NextIsBlock DEF Asks
  <1>2. /\ fetching' \in [Threads -> Blocks \union {NoBlock}]
        /\ fetching'[t] = k
        /\ \A u \in Threads \ {t} : fetching'[u] = fetching[u]
    BY <1>1 DEF IInv, TypeOK
  <1>3. TypeOK'
    BY <1>2, Numbers DEF IInv, TypeOK
  <1>4. WorkersCounted'
    <2> HIDE DEF k
    <2>1. t \notin Fetchers
      BY <1>1 DEF Fetchers, Fetches
    <2>2. Fetchers' = Fetchers \union {t}
      BY <1>1, <1>2, ThreadFacts DEF Fetchers, Fetches
    <2>3. Cardinality(Fetchers') = Cardinality(Fetchers) + 1
      BY <2>1, <2>2, OneMore, FiniteHands
    <2>4. Owners' = Owners
      BY OwnersAre, OwnersAreNext DEF Threads
    <2> QED BY <2>3, <2>4, CountNext, CountIs, FiniteHands, Numbers DEF IInv
  <1> QED BY <1>3, <1>4, NodeMoves

LEMMA FetchWaitsKeeps ==
    ASSUME IInv, NEW t \in Threads, FetchWaits(t)
    PROVE  IInv'
  <1> USE DEF FetchWaits
  <1>1. TypeOK'
    BY DEF IInv, TypeOK
  <1>2. WorkersCounted'
    BY CountFrame DEF IInv
  <1> QED BY <1>1, <1>2, NodeMoves

LEMMA FetchAnsweredKeeps ==
    ASSUME IInv, NEW t \in Threads, FetchAnswered(t)
    PROVE  IInv'
  <1> USE DEF FetchAnswered, PutWorkerBack
  <1>1. /\ fetching' \in [Threads -> Blocks \union {NoBlock}]
        /\ fetching'[t] = NoBlock
        /\ \A u \in Threads \ {t} : fetching'[u] = fetching[u]
        /\ fetching[t] \in Blocks
    BY DEF IInv, TypeOK
  <1>2. t \in Fetchers /\ Fetchers' = Fetchers \ {t}
    BY <1>1 DEF Fetchers, Fetches
  <1>3. Cardinality(Fetchers') = Cardinality(Fetchers) - 1 /\ Cardinality(Fetchers) \in Nat \ {0}
    BY <1>2, OneLess, FiniteHands
  <1>4. Owners' = Owners
    BY OwnersAre, OwnersAreNext DEF Threads
  <1>5. WorkersCounted'
    BY <1>3, <1>4, CountNext, CountIs, FiniteHands, Numbers DEF IInv
  <1>6. free + 1 \in 0..connections
    BY <1>3, CountIs, FiniteHands, Numbers DEF IInv
  <1>7. TypeOK'
    BY <1>1, <1>6 DEF IInv, TypeOK
  <1> QED BY <1>5, <1>7, NodeMoves

LEMMA GetNodeKeeps == ASSUME IInv, NEW t \in Threads, GetNode(t) PROVE IInv'
  BY FetchWithOwnKeeps, FetchTakesKeeps, FetchWaitsKeeps, FetchAnsweredKeeps DEF GetNode

----------------------------------------------------------------------------
(* A downloader.                                                           *)

Places == {"none", "node", "get", "put", "notify", "ended"}

LEMMA GoesTo ==
    ASSUME IInv, NEW d \in Downloaders, NEW place \in Places \ {"none"}, at[d] # "none",
           Goto(d, place)
    PROVE  /\ at' \in [Downloaders -> Places]
           /\ at'[d] = place
           /\ \A e \in Downloaders \ {d} : at'[e] = at[e]
           /\ \A e \in Downloaders : at[e] = "none" <=> at'[e] = "none"
  BY DEF Goto, Places, IInv, TypeOK

LEMMA ReadLockKeeps ==
    ASSUME IInv, NEW d \in Downloaders, ReadLock(d)
    PROVE  IInv'
  <1> USE DEF ReadLock
  <1>1. at[d] = "node"
    BY InNodeOf DEF Found
  <1>2. /\ at' \in [Downloaders -> Places] /\ at'[d] = "get"
        /\ \A e \in Downloaders \ {d} : at'[e] = at[e]
        /\ \A e \in Downloaders : at[e] = "none" <=> at'[e] = "none"
    BY <1>1, GoesTo DEF Places
  <1>3. TypeOK'
    BY <1>2, ThreadFacts DEF IInv, TypeOK, Places
  <1>4. WorkersCounted'
    BY <1>1, <1>2, CountFrame DEF IInv, Working
  <1>5. LocksHeld'
    BY LocksFrame DEF IInv
  <1>6. QueueSound'
    BY <1>2, QueueFrame DEF IInv, QueueSound
  <1>7. ReaderSound'
    BY ReaderFrame DEF IInv
  <1> QED BY <1>3, <1>4, <1>5, <1>6, <1>7 DEF IInv

LEMMA ReadAnsweredKeeps ==
    ASSUME IInv, NEW d \in Downloaders, ReadAnswered(d)
    PROVE  IInv'
  <1> USE DEF ReadAnswered
  <1>2. /\ at' \in [Downloaders -> Places] /\ at'[d] = "put"
        /\ \A e \in Downloaders \ {d} : at'[e] = at[e]
        /\ \A e \in Downloaders : at[e] = "none" <=> at'[e] = "none"
    BY GoesTo DEF Places
  <1>3. TypeOK'
    BY <1>2 DEF IInv, TypeOK, Places
  <1>4. WorkersCounted'
    BY <1>2, CountFrame DEF IInv, Working
  <1>5. LocksHeld'
    BY LocksFrame DEF IInv
  <1>6. QueueSound'
    BY <1>2, QueueFrame DEF IInv, QueueSound
  <1>7. ReaderSound'
    BY ReaderFrame DEF IInv
  <1> QED BY <1>3, <1>4, <1>5, <1>6, <1>7 DEF IInv

LEMMA PutKeeps ==
    ASSUME IInv, NEW d \in Downloaders, Put(d)
    PROVE  IInv'
  <1> USE DEF Put, PutWorkerBack
  <1>1. /\ at' \in [Downloaders -> Places] /\ at'[d] = "notify"
        /\ \A e \in Downloaders \ {d} : at'[e] = at[e]
        /\ \A e \in Downloaders : at[e] = "none" <=> at'[e] = "none"
    BY GoesTo DEF Places
  <1>2. d \in Owners /\ Owners' = Owners \ {d}
    <2>1. d \in Owners /\ d \notin Owners'
      BY <1>1, OwnersAre, OwnersAreNext DEF Working
    <2>2. \A e \in Threads \ {d} : e \in Owners' <=> e \in Owners
      BY <1>1, OwnersAre, OwnersAreNext DEF Threads
    <2> QED BY <2>1, <2>2, OwnersAre, OwnersAreNext
  <1>3. Cardinality(Owners') = Cardinality(Owners) - 1 /\ Cardinality(Owners) \in Nat \ {0}
    BY <1>2, OneLess, FiniteHands
  <1>4. WorkersCounted'
    BY <1>3, CountNext, CountIs, FiniteHands, Numbers, FetchersSame DEF IInv
  <1>5. free + 1 \in 0..connections
    BY <1>3, CountIs, FiniteHands, Numbers DEF IInv
  <1>6. TypeOK'
    BY <1>1, <1>5 DEF IInv, TypeOK, Places
  <1>7. LocksHeld'
    BY LocksFrame DEF IInv
  <1>8. QueueSound'
    BY <1>1, QueueFrame DEF IInv, QueueSound
  <1>9. ReaderSound'
    BY ReaderFrame DEF IInv
  <1> QED BY <1>4, <1>6, <1>7, <1>8, <1>9 DEF IInv

LEMMA NotifyKeeps ==
    ASSUME IInv, NEW d \in Downloaders, Notify(d)
    PROVE  IInv'
  <1> USE DEF Notify, WakeReader
  <1>2. /\ at' \in [Downloaders -> Places] /\ at'[d] = "ended"
        /\ \A e \in Downloaders \ {d} : at'[e] = at[e]
        /\ \A e \in Downloaders : at[e] = "none" <=> at'[e] = "none"
    BY GoesTo DEF Places
  <1>3. TypeOK'
    BY <1>2 DEF IInv, TypeOK, Places
  <1>4. WorkersCounted'
    BY <1>2, CountFrame DEF IInv, Working
  <1>5. LocksHeld'
    BY LocksFrame DEF IInv
  <1>6. QueueSound'
    BY <1>2, QueueFrame DEF IInv, QueueSound
  <1>7. ReaderSound'
    BY ReaderFrame DEF IInv
  <1> QED BY <1>3, <1>4, <1>5, <1>6, <1>7 DEF IInv

LEMMA WakeupKeeps == ASSUME IInv, SpuriousWakeup PROVE IInv'
  <1> USE DEF SpuriousWakeup, WakesUnasked, WakeReader, WakePump
  <1>1. TypeOK'
    <2>1. asleep' \subseteq Threads
      BY DEF IInv, TypeOK
    <2> QED BY <2>1 DEF IInv, TypeOK
  <1>2. WorkersCounted'
    <2>1. connections' = connections /\ free' = free /\ lost' = lost
      OBVIOUS
    <2> QED BY <2>1, CountFrame DEF IInv, Holding
  <1>3. LocksHeld'
    BY LocksFrame DEF IInv
  <1>4. QueueSound'
    <2>1. /\ pump \in {"insert", "replace"} <=> pump' \in {"insert", "replace"}
          /\ pump' \in {"node", "peek", "make"} => pump' = pump
          /\ pump' = "replace" => pump = "replace"
      OBVIOUS
    <2> QED BY <2>1, QueueFrame DEF IInv, QueueSound
  <1>5. ReaderSound'
    BY ReaderFrame DEF IInv
  <1> QED BY <1>1, <1>2, <1>3, <1>4, <1>5 DEF IInv

----------------------------------------------------------------------------
(* Every step.                                                             *)

LEMMA ReaderKeeps == ASSUME IInv, Reader PROVE IInv'
  BY CallKeeps, SweepKeeps, SpanLockKeeps, SpanFoundKeeps, AwaitKeeps, AwaitEndsKeeps,
     TakeBlockKeeps, TakePartKeeps, TakeNothingKeeps, StopGroupKeeps, StopStreamKeeps,
     StopNotifyKeeps, JoinKeeps, GetNodeKeeps, ThreadFacts DEF Reader

LEMMA PumpKeeps == ASSUME IInv, Pump PROVE IInv'
  BY PumpEmptyKeeps, PumpWaitKeeps, PumpPickKeeps, GetRequestKeeps, CheckReturnsKeeps,
     CheckPassesKeeps, PollTakesKeeps, PollEndsKeeps, PollFailsKeeps, PollWaitsKeeps,
     BlockSpanLockKeeps, BlockSpanThrowsKeeps, BlockSpanFoundKeeps, MakeKeeps, InsertKeeps,
     ReplaceKeeps, GetNodeKeeps, ThreadFacts DEF Pump

LEMMA DownloaderKeeps == ASSUME IInv, NEW d \in Downloaders, Downloader(d) PROVE IInv'
  BY GetNodeKeeps, ReadLockKeeps, ReadAnsweredKeeps, PutKeeps, NotifyKeeps, ThreadFacts
     DEF Downloader

LEMMA StutterKeeps == ASSUME IInv, UNCHANGED vars PROVE IInv'
  <1> USE DEF vars
  <1>1. TypeOK'
    BY DEF IInv, TypeOK
  <1>2. WorkersCounted'
    BY CountFrame DEF IInv
  <1>3. LocksHeld'
    BY LocksFrame DEF IInv
  <1>4. QueueSound'
    BY QueueFrame DEF IInv, QueueSound
  <1>5. ReaderSound'
    BY ReaderFrame DEF IInv
  <1> QED BY <1>1, <1>2, <1>3, <1>4, <1>5 DEF IInv

LEMMA NextIInv == IInv /\ [Next]_vars => IInv'
  BY ReaderKeeps, PumpKeeps, DownloaderKeeps, WakeupKeeps, StutterKeeps DEF Next

\* Who holds which lock and which worker, where each downloader is, and what
\* the reader has collected, in every reachable state of every download.
THEOREM InductiveInvariant == Spec => []IInv
  <1> QED BY InitIInv, NextIInv, PTL DEF Spec

\* The variables have their types.
THEOREM TypeCorrect == Spec => []TypeOK
  <1>1. IInv => TypeOK
    BY DEF IInv
  <1> QED BY <1>1, InductiveInvariant, PTL

\* The pump takes workers for its downloaders, get_node takes one more for each
\* document but the first (takeworker and putworkerback of the pool): each
\* worker is free, in the hands of one thread, or lost with the pump's turn.
THEOREM WorkersCountedHolds == Spec => []WorkersCounted
  <1>1. IInv => WorkersCounted
    BY DEF IInv
  <1> QED BY <1>1, InductiveInvariant, PTL

----------------------------------------------------------------------------
(* The download delivers the bytes it was asked for.                       *)

\* What the program is seen to have: a step that leaves it alone is a stutter.
LEMMA Unseen ==
    ASSUME UNCHANGED <<start, end, out>>, reader = "exit" <=> reader' = "exit"
    PROVE  UNCHANGED Promise!vars
  BY DEF Promise!vars, Bytes

\* xfer_local_down returns: the program has written some bytes more, or none.
LEMMA ReturnDelivers ==
    ASSUME IInv, reader = "take", NEW m \in Nat, offset <= m, m <= end,
           Return(Bytes(offset, m))
    PROVE  Promise!Deliver \/ UNCHANGED Promise!vars
  <1>1. /\ start \in Nat /\ offset \in Nat /\ end \in Nat /\ Total \in Nat
        /\ end <= Total /\ start <= offset /\ out = Bytes(start, offset)
    BY Numbers DEF IInv, ReaderSound
  <1>2. out' = Bytes(start, m)
    BY ReturnKeeps
  <1>3. UNCHANGED <<start, end>> /\ reader # "exit" /\ reader' # "exit"
    BY DEF Return
  <1>4. Bytes(start, end)' = Bytes(start, end)
    BY <1>3 DEF Bytes
  <1>5. CASE offset = m
    BY <1>1, <1>2, <1>3, <1>5, Unseen
  <1>6. CASE offset < m
    <2>1. m <= Total
      BY <1>1
    <2>2. IsPrefix(out, out') /\ out # out'
      BY <1>1, <1>2, <1>6, <2>1, BytesPrefix
    <2>3. IsPrefix(out', Bytes(start, end))
      BY <1>1, <1>2, <1>6, <2>1, BytesPrefix
    <2>4. Promise!IsStrictPrefix(out, out') /\ Promise!IsPrefix(out', Bytes(start, end))
      BY <2>2, <2>3 DEF IsPrefix, Promise!IsPrefix, Promise!IsStrictPrefix
    <2>5. (reader = "exit")' = (reader = "exit")
      BY <1>3
    <2>6. Promise!Deliver
      BY <1>3, <1>4, <2>4, <2>5 DEF Promise!Deliver
    <2> QED BY <2>6
  <1> QED BY <1>1, <1>5, <1>6

LEMMA JoinFinishes == ASSUME IInv, Join PROVE Promise!Finish
  <1>1. out = Bytes(start, end) /\ reader' = "exit" /\ UNCHANGED <<start, end, out>>
    BY DEF IInv, ReaderSound, Join
  <1>2. Bytes(start, end)' = Bytes(start, end)
    BY <1>1 DEF Bytes
  <1> QED BY <1>1, <1>2 DEF Promise!Finish

LEMMA ReaderDelivers == ASSUME IInv, Reader PROVE Promise!Next \/ UNCHANGED Promise!vars
  <1>1. CASE TakePart
    BY <1>1, TakePartReturns, ReturnDelivers DEF TakePart, Promise!Next
  <1>2. CASE TakeNothing
    BY <1>2, TakeNothingReturns, ReturnDelivers DEF TakeNothing, Promise!Next
  <1>3. CASE Join
    BY <1>3, JoinFinishes DEF Promise!Next
  <1>4. CASE GetNode(Program)
    BY <1>4, Unseen DEF GetNode, FetchWithOwn, FetchTakes, FetchWaits, FetchAnswered
  <1>5. CASE Call \/ Sweep \/ SpanLock \/ Await \/ AwaitEnds
    BY <1>5, Unseen DEF Call, Sweep, SpanLock, Await, AwaitEnds
  <1>6. CASE SpanFound
    BY <1>6, InNodeOf, Unseen DEF SpanFound, Found
  <1>7. CASE TakeBlock \/ StopGroup \/ StopStream \/ StopNotify
    BY <1>7, Unseen DEF TakeBlock, StopGroup, StopStream, StopNotify
  <1> QED BY <1>1, <1>2, <1>3, <1>4, <1>5, <1>6, <1>7 DEF Reader

LEMMA PumpUnseen == ASSUME Pump PROVE UNCHANGED Promise!vars
  <1>1. CASE GetNode(Pumper)
    BY <1>1, Unseen DEF GetNode, FetchWithOwn, FetchTakes, FetchWaits, FetchAnswered
  <1>2. CASE PumpEmpty \/ PumpWait \/ PumpPick \/ GetRequest \/ CheckReturns \/ CheckPasses
    BY <1>2, Unseen
       DEF PumpEmpty, PumpWait, PumpPick, GetRequest, CheckReturns, CheckPasses, WakeReader
  <1>3. CASE PollTakes \/ PollEnds \/ PollFails \/ PollWaits
    BY <1>3, Unseen DEF PollTakes, PollEnds, PollFails, PollWaits
  <1>4. CASE BlockSpanLock \/ BlockSpanThrows \/ BlockSpanFound
    BY <1>4, Unseen DEF BlockSpanLock, BlockSpanThrows, BlockSpanFound
  <1>5. CASE Make \/ Insert \/ Replace
    BY <1>5, Unseen DEF Make, Insert, Replace
  <1> QED BY <1>1, <1>2, <1>3, <1>4, <1>5 DEF Pump

LEMMA DownloaderUnseen ==
    ASSUME NEW d \in Downloaders, Downloader(d) PROVE UNCHANGED Promise!vars
  <1>1. CASE GetNode(d)
    BY <1>1, Unseen DEF GetNode, FetchWithOwn, FetchTakes, FetchWaits, FetchAnswered
  <1>2. CASE ReadLock(d) \/ ReadAnswered(d) \/ Put(d) \/ Notify(d)
    BY <1>2, Unseen DEF ReadLock, ReadAnswered, Put, Notify, WakeReader
  <1> QED BY <1>1, <1>2 DEF Downloader

LEMMA WakeupUnseen == ASSUME SpuriousWakeup PROVE UNCHANGED Promise!vars
  BY Unseen DEF SpuriousWakeup, WakesUnasked, WakeReader

LEMMA NextDelivers == IInv /\ [Next]_vars => [Promise!Next]_(Promise!vars)
  <1> SUFFICES ASSUME IInv, [Next]_vars
               PROVE  Promise!Next \/ UNCHANGED Promise!vars
    OBVIOUS
  <1>1. CASE UNCHANGED vars
    BY <1>1, Unseen DEF vars
  <1> QED BY <1>1, ReaderDelivers, PumpUnseen, DownloaderUnseen, WakeupUnseen DEF Next

LEMMA InitDelivers == Init => Promise!Init
  BY DEF Init, Promise!Init

\* Whatever blocks are fetched, repeated, replaced or thrown away, what the
\* calls of xfer_local_down return is the stream from the offset asked for on,
\* each byte once, and the program leaves only when it has it all.
THEOREM Implementation == Spec => ImplementsDelivery
  <1> QED BY InitDelivers, NextDelivers, InductiveInvariant, PTL
          DEF Spec, ImplementsDelivery, Promise!Spec
============================================================================
