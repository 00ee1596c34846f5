-------------------------- MODULE PortalPoolProofs --------------------------
(* Proofs about PortalPool, for any threads, kinds and connections.        *)
EXTENDS PortalPool, TLAPS

----------------------------------------------------------------------------
(* Workers.                                                                *)

LEMMA WorkerFields ==
    ASSUME NEW w \in Workers
    PROVE  /\ w.kind \in Kinds
           /\ [w EXCEPT !.kind = w.kind] = w
  <1>1. PICK k \in Kinds : w \in [kind : {k}, index : 0..(Connections[k] - 1)]
    BY DEF Workers
  <1> QED BY <1>1

\* A step that touches neither lists nor hands conserves the workers.
LEMMA ConservedSame ==
    ASSUME Conserved, UNCHANGED <<free, held, kept>>
    PROVE  Conserved'
  BY DEF Conserved, Has

----------------------------------------------------------------------------
(* The invariant holds at first and is kept by every action.               *)

LEMMA InitIInv == Init => IInv
  <1> SUFFICES ASSUME Init PROVE IInv
    OBVIOUS
  <1>1. TypeOK
    BY PoolAssumption DEF Init, TypeOK
  <1>2. Conserved
    BY NullAssumption DEF Init, Conserved, Has
  <1>3. CallsKnow /\ NoSleepBesideFree
    BY DEF Init, CallsKnow, NoSleepBesideFree, Waiting
  <1> QED BY <1>1, <1>2, <1>3 DEF IInv

LEMMA CallIInv == ASSUME IInv, NEW t \in Threads, NEW k \in Kinds, Call(t, k) PROVE IInv'
  <1>1. TypeOK'
    BY PoolAssumption DEF IInv, TypeOK, Call, Goto
  <1>2. Conserved'
    BY ConservedSame DEF IInv, Call
  <1>3. CallsKnow'
    BY DEF IInv, TypeOK, CallsKnow, Call, Goto
  <1>4. NoSleepBesideFree'
    BY DEF IInv, TypeOK, NoSleepBesideFree, Call, Goto, Waiting, FreeOf
  <1> QED BY <1>1, <1>2, <1>3, <1>4 DEF IInv

LEMMA PollIInv == ASSUME IInv, NEW t \in Threads, NEW k \in Kinds, Poll(t, k) PROVE IInv'
  <1>1. TypeOK'
    BY PoolAssumption DEF IInv, TypeOK, Poll, Goto
  <1>2. Conserved'
    BY ConservedSame DEF IInv, Poll
  <1>3. CallsKnow'
    BY DEF IInv, TypeOK, CallsKnow, Poll, Goto
  <1>4. NoSleepBesideFree'
    BY DEF IInv, TypeOK, NoSleepBesideFree, Poll, Goto, Waiting, FreeOf
  <1> QED BY <1>1, <1>2, <1>3, <1>4 DEF IInv

LEMMA CallWithIInv == ASSUME IInv, NEW t \in Threads, CallWith(t) PROVE IInv'
  <1>0. kept[t] \in Workers /\ kept[t].kind \in Kinds
    BY WorkerFields DEF IInv, TypeOK, CallWith
  <1>1. TypeOK'
    BY <1>0 DEF IInv, TypeOK, CallWith, Goto, KindsOf
  <1>2. Conserved'
    BY ConservedSame DEF IInv, CallWith
  <1>3. CallsKnow'
    BY <1>0 DEF IInv, TypeOK, CallsKnow, CallWith, Goto, KindsOf
  <1>4. NoSleepBesideFree'
    BY DEF IInv, TypeOK, NoSleepBesideFree, CallWith, Goto, Waiting, FreeOf
  <1> QED BY <1>1, <1>2, <1>3, <1>4 DEF IInv

LEMMA TakeOutIInv == ASSUME IInv, NEW t \in Threads, TakeOut(t) PROVE IInv'
  <1>1. PICK w \in FreeOf(want[t]) :
           /\ free' = Taken(w)
           /\ IF polls[t]
              THEN /\ kept' = [kept EXCEPT ![t] = w]
                   /\ Goto(t, "idle")
                   /\ UNCHANGED held
              ELSE /\ held' = [held EXCEPT ![t] = w]
                   /\ Goto(t, "working")
                   /\ UNCHANGED kept
    BY DEF TakeOut
  <1>2. /\ w \in Workers
        /\ free[w] = 1
        /\ \A u \in Threads : ~Has(u, w)
        /\ w # NoWorker
    BY <1>1, NullAssumption DEF FreeOf, IInv, Conserved, TypeOK
  <1>3. free' = [free EXCEPT ![w] = 0]
    BY <1>1, <1>2 DEF Taken, IInv, TypeOK
  <1>4. held[t] = NoWorker /\ (polls[t] => kept[t] = NoWorker)
    BY DEF IInv, CallsKnow, TakeOut
  <1>5. TypeOK'
    BY <1>1, <1>2, <1>3 DEF IInv, TypeOK, TakeOut, Goto
  <1>6. Conserved'
    <2>1. CASE polls[t]
      BY <2>1, <1>1, <1>2, <1>3, <1>4, NullAssumption DEF IInv, TypeOK, Conserved, Has
    <2>2. CASE ~polls[t]
      BY <2>2, <1>1, <1>2, <1>3, <1>4, NullAssumption DEF IInv, TypeOK, Conserved, Has
    <2> QED BY <2>1, <2>2
  <1>7. CallsKnow'
    <2>1. polls[t] => last[t] = NoKind
      BY <1>4, NullAssumption DEF IInv, CallsKnow
    <2> QED BY <2>1, <1>1, <1>2, <1>4 DEF IInv, TypeOK, CallsKnow, TakeOut, Goto
  <1>8. NoSleepBesideFree'
    BY <1>1, <1>2, <1>3 DEF IInv, TypeOK, NoSleepBesideFree, TakeOut, Goto, Waiting, FreeOf
  <1> QED BY <1>5, <1>6, <1>7, <1>8 DEF IInv

LEMMA TakeWaitIInv == ASSUME IInv, NEW t \in Threads, TakeWait(t) PROVE IInv'
  <1>1. TypeOK'
    BY DEF IInv, TypeOK, TakeWait, Goto
  <1>2. Conserved'
    BY ConservedSame DEF IInv, TakeWait
  <1>3. CallsKnow'
    BY DEF IInv, TypeOK, CallsKnow, TakeWait, Goto
  <1>4. NoSleepBesideFree'
    BY DEF IInv, TypeOK, NoSleepBesideFree, TakeWait, Goto, Waiting, FreeOf
  <1> QED BY <1>1, <1>2, <1>3, <1>4 DEF IInv

LEMMA AnswerIInv == ASSUME IInv, NEW t \in Threads, Answer(t) PROVE IInv'
  <1>1. TypeOK'
    BY DEF IInv, TypeOK, Answer, Goto
  <1>2. Conserved'
    BY ConservedSame DEF IInv, Answer
  <1>3. CallsKnow'
    BY DEF IInv, TypeOK, CallsKnow, Answer, Goto
  <1>4. NoSleepBesideFree'
    BY DEF IInv, TypeOK, NoSleepBesideFree, Answer, Goto, Waiting, FreeOf
  <1> QED BY <1>1, <1>2, <1>3, <1>4 DEF IInv

\* a thread that polls may sleep beside a free worker
LEMMA PollSleepIInv ==
    ASSUME IInv, NEW t \in Threads, PollFails(t) \/ PollWait(t)
    PROVE  IInv'
  <1>1. TypeOK'
    BY DEF IInv, TypeOK, PollFails, PollWait, Goto
  <1>2. Conserved'
    BY ConservedSame DEF IInv, PollFails, PollWait
  <1>3. CallsKnow'
    BY DEF IInv, TypeOK, CallsKnow, PollFails, PollWait, Goto
  <1>4. NoSleepBesideFree'
    BY DEF IInv, TypeOK, CallsKnow, NoSleepBesideFree, PollFails, PollWait, Goto, Waiting, FreeOf
  <1> QED BY <1>1, <1>2, <1>3, <1>4 DEF IInv

LEMMA PutHeldBackIInv == ASSUME IInv, NEW t \in Threads, PutHeldBack(t) PROVE IInv'
  <1>1. /\ held[t] \in Workers
        /\ free[held[t]] = 0
        /\ held[t] # NoWorker
    BY DEF IInv, TypeOK, CallsKnow, Conserved, Has, PutHeldBack
  <1>2. free' = [free EXCEPT ![held[t]] = 1]
    BY <1>1 DEF PutHeldBack, IInv, TypeOK
  <1>3. TypeOK'
    <2>1. free' \in [Workers -> Nat]
      BY <1>2 DEF IInv, TypeOK
    <2> QED BY <2>1 DEF IInv, TypeOK, PutHeldBack, Goto
  <1>4. Conserved'
    BY <1>1, <1>2, NullAssumption DEF IInv, TypeOK, Conserved, Has, PutHeldBack
  <1>5. CallsKnow'
    BY DEF IInv, TypeOK, CallsKnow, PutHeldBack, Goto
  <1>6. NoSleepBesideFree'
    BY DEF IInv, TypeOK, NoSleepBesideFree, PutHeldBack, Goto, Waiting
  <1> QED BY <1>3, <1>4, <1>5, <1>6 DEF IInv

LEMMA PutKeptBackIInv == ASSUME IInv, NEW t \in Threads, PutKeptBack(t) PROVE IInv'
  <1>1. /\ kept[t] \in Workers
        /\ last[t] = kept[t].kind
        /\ free[kept[t]] = 0
        /\ kept[t] # NoWorker
    BY NullAssumption DEF IInv, TypeOK, CallsKnow, Conserved, Has, PutKeptBack
  <1>2. [kept[t] EXCEPT !.kind = last[t]] = kept[t]
    BY <1>1, WorkerFields
  <1>3. free' = [free EXCEPT ![kept[t]] = 1]
    <2>1. free' = [free EXCEPT ![[kept[t] EXCEPT !.kind = last[t]]] = @ + 1]
      BY DEF PutKeptBack
    <2>2. free' = [free EXCEPT ![kept[t]] = @ + 1]
      BY <1>2, <2>1
    <2> QED BY <1>1, <2>2 DEF IInv, TypeOK
  <1>4. TypeOK'
    <2>1. free' \in [Workers -> Nat]
      BY <1>3 DEF IInv, TypeOK
    <2> QED BY <2>1 DEF IInv, TypeOK, PutKeptBack, Goto
  <1>5. Conserved'
    BY <1>1, <1>3, NullAssumption DEF IInv, TypeOK, Conserved, Has, PutKeptBack
  <1>6. CallsKnow'
    BY DEF IInv, TypeOK, CallsKnow, PutKeptBack, Goto
  <1>7. NoSleepBesideFree'
    BY DEF IInv, TypeOK, NoSleepBesideFree, PutKeptBack, Goto, Waiting
  <1> QED BY <1>4, <1>5, <1>6, <1>7 DEF IInv

\* after notify_all nobody sleeps
LEMMA NotifyIInv == ASSUME IInv, NEW t \in Threads, Notify(t) PROVE IInv'
  <1>1. pc' = [u \in Threads |-> IF u = t THEN "idle"
                                 ELSE IF Waiting(u) THEN "taking" ELSE pc[u]]
    BY DEF Notify, Woken
  <1>2. TypeOK'
    BY <1>1 DEF IInv, TypeOK, Notify, Waiting
  <1>3. Conserved'
    BY ConservedSame DEF IInv, Notify
  <1>4. CallsKnow'
    BY <1>1 DEF IInv, TypeOK, CallsKnow, Notify, Waiting
  <1>5. NoSleepBesideFree'
    BY <1>1 DEF NoSleepBesideFree, Notify, Waiting
  <1> QED BY <1>2, <1>3, <1>4, <1>5 DEF IInv

LEMMA SpuriousIInv == ASSUME IInv, NEW t \in Threads, SpuriousWakeup(t) PROVE IInv'
  <1>1. TypeOK'
    BY DEF IInv, TypeOK, SpuriousWakeup, Goto
  <1>2. Conserved'
    BY ConservedSame DEF IInv, SpuriousWakeup
  <1>3. CallsKnow'
    BY DEF IInv, TypeOK, CallsKnow, SpuriousWakeup, Goto, Waiting
  <1>4. NoSleepBesideFree'
    BY DEF IInv, TypeOK, NoSleepBesideFree, SpuriousWakeup, Goto, Waiting, FreeOf
  <1> QED BY <1>1, <1>2, <1>3, <1>4 DEF IInv

LEMMA StutterIInv == ASSUME IInv, UNCHANGED vars PROVE IInv'
  BY DEF IInv, TypeOK, Conserved, Has, CallsKnow, NoSleepBesideFree, Waiting, FreeOf, vars

LEMMA NextIInv == IInv /\ [Next]_vars => IInv'
  <1> SUFFICES ASSUME IInv, [Next]_vars PROVE IInv'
    OBVIOUS
  <1>1. ASSUME NEW t \in Threads, Run(t) PROVE IInv'
    BY <1>1, TakeOutIInv, TakeWaitIInv, AnswerIInv, PollSleepIInv, PutHeldBackIInv,
       PutKeptBackIInv, NotifyIInv, CallWithIInv DEF Run
  <1>2. ASSUME NEW t \in Threads, SpuriousWakeup(t) PROVE IInv'
    BY <1>2, SpuriousIInv
  <1>3. ASSUME NEW t \in Threads, NEW k \in Kinds, Call(t, k) PROVE IInv'
    BY <1>3, CallIInv
  <1>4. ASSUME NEW t \in Threads, NEW k \in PollKinds, Poll(t, k) PROVE IInv'
    BY <1>4, PollIInv, PoolAssumption
  <1>5. CASE UNCHANGED vars
    BY <1>5, StutterIInv
  <1> QED BY <1>1, <1>2, <1>3, <1>4, <1>5 DEF Next

\* The inductive invariant of the pool: every worker is in its list or in one
\* hand, threads know what they have, and no blocking call sleeps beside a free
\* worker.
THEOREM InductiveInvariant == Spec => []IInv
  BY InitIInv, NextIInv, PTL DEF Spec

----------------------------------------------------------------------------
(* What follows from it.                                                   *)

\* The variables of the pool keep their types.
THEOREM TypeCorrect == Spec => []TypeOK
  <1>1. IInv => TypeOK
    BY DEF IInv
  <1> QED BY <1>1, InductiveInvariant, PTL

LEMMA ConservedIsKept == ASSUME IInv PROVE WorkersKept
  <1> SUFFICES ASSUME NEW w \in Workers
               PROVE  \/ free[w] = 1 /\ Uses(w) = {}
                      \/ free[w] = 0 /\ \E use \in Uses(w) : Uses(w) = {use}
    BY DEF WorkersKept
  <1>1. CASE free[w] = 1
    <2>1. \A t \in Threads : held[t] # w /\ kept[t] # w
      BY <1>1 DEF IInv, Conserved, Has
    <2> QED BY <1>1, <2>1 DEF Uses
  <1>2. CASE free[w] = 0
    <2>1. PICK t \in Threads : Has(t, w)
      BY <1>2 DEF IInv, Conserved
    <2>2. \A u \in Threads : Has(u, w) => u = t
      BY <2>1 DEF IInv, Conserved
    <2>3. CASE held[t] = w
      <3>1. Uses(w) = {<<t, "held">>}
        BY <2>2, <2>3 DEF Uses, Has, IInv, Conserved
      <3> QED BY <1>2, <3>1
    <2>4. CASE held[t] # w
      <3>1. Uses(w) = {<<t, "kept">>}
        BY <2>1, <2>2, <2>4 DEF Uses, Has
      <3> QED BY <1>2, <3>1
    <2> QED BY <2>3, <2>4
  <1> QED BY <1>1, <1>2 DEF IInv, Conserved

\* No worker is given to two transfers and none gets lost, however many threads
\* call, poll and put back at the same time (lines 31-59).
THEOREM WorkersKeptHolds == Spec => []WorkersKept
  BY ConservedIsKept, InductiveInvariant, PTL

\* A blocking takeworkerout never sleeps beside a free worker of its kind that
\* nobody is about to tell it of (lines 34-37, 58).
THEOREM NoSleepBesideFreeHolds == Spec => []NoSleepBesideFree
  <1>1. IInv => NoSleepBesideFree
    BY DEF IInv
  <1> QED BY <1>1, InductiveInvariant, PTL
============================================================================
