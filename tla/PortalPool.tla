----------------------------- MODULE PortalPool -----------------------------
(* portalpool.hpp: the workers that transfers are made with.  A call of    *)
(* download or upload takes a worker and puts it back, unless it is given  *)
(* one that its caller took without blocking, as queue_net_down does, and  *)
(* that is put back after the transfers it was kept for.  Threads meet at  *)
(* the mutex worker_lists and at the condition variable worker_free, which *)
(* both kinds of transfer share.                                           *)
(*                                                                         *)
(* A step is what a thread does between two lock operations another thread *)
(* can observe.  A free list is the number of times it has each worker:    *)
(* which of its workers is given out makes no difference.  A thread here   *)
(* keeps its worker; in the code the pump hands it on to a new thread.     *)
EXTENDS Integers, FiniteSets

CONSTANTS
    Threads,        \* the threads that use the pool
    Kinds,          \* skynet_multiportal::transfer_kind: download and upload
    Connections,    \* Connections[k]: how many workers of kind k
    PollKinds,      \* the kinds that are taken without blocking
    MaxCalls,       \* bound: workers a thread asks for
    NoWorker,       \* a null pointer
    NoKind          \* a kind nobody has set yet

ASSUME PoolAssumption ==
    /\ Connections \in [Kinds -> Nat]
    /\ PollKinds \subseteq Kinds
    /\ MaxCalls \in Nat

\* the workers the pool is constructed with
Workers == UNION {[kind : {k}, index : 0..(Connections[k] - 1)] : k \in Kinds}

ASSUME NullAssumption == NoWorker \notin Workers /\ NoKind \notin Kinds

VARIABLES
    free,           \* free[w]: how often the list free[w.kind] has w.index
    pc,             \* where each thread is
    want,           \* the kind it calls takeworkerout for
    polls,          \* does it call it without blocking?
    held,           \* the worker its call took, or NoWorker
    kept,           \* the worker it took without blocking, or NoWorker
    last,           \* transfer.kind of the kept worker, NoKind before its use
    calls           \* workers it has asked for

vars == <<free, pc, want, polls, held, kept, last, calls>>

----------------------------------------------------------------------------
Init ==
    /\ free = [w \in Workers |-> 1]
    /\ pc = [t \in Threads |-> "idle"]
    /\ want \in [Threads -> Kinds]
    /\ polls = [t \in Threads |-> FALSE]
    /\ held = [t \in Threads |-> NoWorker]
    /\ kept = [t \in Threads |-> NoWorker]
    /\ last = [t \in Threads |-> NoKind]
    /\ calls = [t \in Threads |-> 0]

Goto(t, label) == pc' = [pc EXCEPT ![t] = label]

FreeOf(k) == {w \in Workers : w.kind = k /\ free[w] > 0}

Waiting(t) == pc[t] = "waiting"

----------------------------------------------------------------------------
(* download and upload.                                                    *)

\* A transfer without a worker, whether the thread keeps one or not:
\* takeworkerout is next.
Call(t, k) ==
    /\ pc[t] = "idle"
    /\ calls[t] < MaxCalls
    /\ Goto(t, "taking")
    /\ want' = [want EXCEPT ![t] = k]
    /\ polls' = [polls EXCEPT ![t] = FALSE]
    /\ calls' = [calls EXCEPT ![t] = @ + 1]
    /\ UNCHANGED <<free, held, kept, last>>

\* a wrong variant: a worker is used for any kind of transfer
AnyKind(t) == Kinds

\* the kinds of transfer a kept worker is used for
KindsOf(t) == {kept[t].kind}

\* The transfers with the worker the thread keeps, as one: nothing happens to
\* the pool between them.
CallWith(t) ==
    /\ pc[t] = "idle"
    /\ kept[t] # NoWorker
    /\ last[t] = NoKind
    /\ \E k \in KindsOf(t) : last' = [last EXCEPT ![t] = k]
    /\ Goto(t, "working")
    /\ UNCHANGED <<free, want, polls, held, kept, calls>>

\* a wrong variant: the worker stays in its list
StillFree(w) == free

Taken(w) == [free EXCEPT ![w] = @ - 1]

\* takeworkerout gives a worker out.
TakeOut(t) ==
    /\ pc[t] = "taking"
    /\ \E w \in FreeOf(want[t]) :
          /\ free' = Taken(w)
          /\ IF polls[t]
             THEN /\ kept' = [kept EXCEPT ![t] = w]
                  /\ Goto(t, "idle")
                  /\ UNCHANGED held
             ELSE /\ held' = [held EXCEPT ![t] = w]
                  /\ Goto(t, "working")
                  /\ UNCHANGED kept
    /\ UNCHANGED <<want, polls, last, calls>>

\* There is none, and the thread waits: the lock is held from the test on.
TakeWait(t) ==
    /\ pc[t] = "taking"
    /\ ~polls[t]
    /\ FreeOf(want[t]) = {}
    /\ Goto(t, "waiting")
    /\ UNCHANGED <<free, want, polls, held, kept, last, calls>>

\* The portal answers.  Until it does, the transfer is started again with
\* another portal, which changes nothing here.
Answer(t) ==
    /\ pc[t] = "working"
    /\ Goto(t, IF held[t] = NoWorker THEN "idle" ELSE "used")
    /\ UNCHANGED <<free, want, polls, held, kept, last, calls>>

----------------------------------------------------------------------------
(* Taking a worker without blocking.                                       *)

Poll(t, k) ==
    /\ pc[t] = "idle"
    /\ kept[t] = NoWorker
    /\ calls[t] < MaxCalls
    /\ Goto(t, "taking")
    /\ want' = [want EXCEPT ![t] = k]
    /\ polls' = [polls EXCEPT ![t] = TRUE]
    /\ calls' = [calls EXCEPT ![t] = @ + 1]
    /\ UNCHANGED <<free, held, kept, last>>

\* takeworkerout returns 0, and has let go of the lock.
PollFails(t) ==
    /\ pc[t] = "taking"
    /\ polls[t]
    /\ FreeOf(want[t]) = {}
    /\ Goto(t, "polled")
    /\ UNCHANGED <<free, want, polls, held, kept, last, calls>>

\* The thread locks again and waits, whatever has been put back meanwhile.
PollWait(t) ==
    /\ pc[t] = "polled"
    /\ Goto(t, "waiting")
    /\ UNCHANGED <<free, want, polls, held, kept, last, calls>>

----------------------------------------------------------------------------
(* putworkerback.                                                          *)

\* A worker that a call took, when it has its answer.
PutHeldBack(t) ==
    /\ pc[t] = "used"
    /\ free' = [free EXCEPT ![held[t]] = @ + 1]
    /\ held' = [held EXCEPT ![t] = NoWorker]
    /\ Goto(t, "notifying")
    /\ UNCHANGED <<want, polls, kept, last, calls>>

\* The kept worker, after it was used: its index goes to the list of the kind
\* it was used for last.
PutKeptBack(t) ==
    LET w == [kept[t] EXCEPT !.kind = last[t]]
    IN  /\ pc[t] = "idle"
        /\ last[t] # NoKind
        /\ free' = [free EXCEPT ![w] = @ + 1]
        /\ kept' = [kept EXCEPT ![t] = NoWorker]
        /\ last' = [last EXCEPT ![t] = NoKind]
        /\ Goto(t, "notifying")
        /\ UNCHANGED <<want, polls, held, calls>>

\* a wrong variant: notify_one, which may wake a thread of the other kind
WokenOne == {{t} : t \in {u \in Threads : Waiting(u)}}

\* the sets of threads that worker_free.notify_all may wake: all that wait
Woken == {{t \in Threads : Waiting(t)}}

Notify(t) ==
    /\ pc[t] = "notifying"
    /\ \E woken \in Woken :
          pc' = [u \in Threads |-> IF u = t THEN "idle"
                                   ELSE IF u \in woken THEN "taking" ELSE pc[u]]
    /\ UNCHANGED <<free, want, polls, held, kept, last, calls>>

\* A condition variable may wake its waiter unasked.
SpuriousWakeup(t) ==
    /\ Waiting(t)
    /\ Goto(t, "taking")
    /\ UNCHANGED <<free, want, polls, held, kept, last, calls>>

----------------------------------------------------------------------------
\* the next step of a thread in a call, or that keeps a worker
Run(t) ==
    \/ TakeOut(t) \/ TakeWait(t) \/ Answer(t) \/ PollFails(t) \/ PollWait(t)
    \/ PutHeldBack(t) \/ PutKeptBack(t) \/ Notify(t) \/ CallWith(t)

Next ==
    \E t \in Threads :
        \/ Run(t)
        \/ SpuriousWakeup(t)
        \/ \E k \in Kinds : Call(t, k)
        \/ \E k \in PollKinds : Poll(t, k)

\* Every thread that can run does, and a portal answers in the end, for the
\* call tries one after the other.  Nobody has to start a transfer, but a kept
\* worker is used and put back.
Spec == Init /\ [][Next]_vars /\ \A t \in Threads : WF_vars(Run(t))

----------------------------------------------------------------------------
(* Properties.                                                             *)

TypeOK ==
    /\ free \in [Workers -> Nat]
    /\ pc \in [Threads -> {"idle", "taking", "waiting", "working", "used", "polled",
                           "notifying"}]
    /\ want \in [Threads -> Kinds]
    /\ polls \in [Threads -> BOOLEAN]
    /\ held \in [Threads -> Workers \union {NoWorker}]
    /\ kept \in [Threads -> Workers \union {NoWorker}]
    /\ last \in [Threads -> Kinds \union {NoKind}]
    /\ calls \in [Threads -> 0..MaxCalls]

\* who has a worker, and in which way
Uses(w) ==
    {<<t, "held">> : t \in {u \in Threads : held[u] = w}} \union
    {<<t, "kept">> : t \in {u \in Threads : kept[u] = w}}

\* No transfer shares its worker and none gets lost: a worker is once in the
\* list of its kind, or with one thread that uses it (lines 31-41, 53-59).
WorkersKept ==
    \A w \in Workers :
        \/ free[w] = 1 /\ Uses(w) = {}
        \/ free[w] = 0 /\ \E use \in Uses(w) : Uses(w) = {use}

\* A blocking takeworkerout never sleeps beside a free worker of its kind,
\* unless the thread that freed it is about to notify it (lines 34-37, 58).
NoSleepBesideFree ==
    \A t \in Threads :
        Waiting(t) /\ ~polls[t] /\ FreeOf(want[t]) # {} =>
            \E u \in Threads : pc[u] = "notifying"

\* Every worker of the kind is kept by a thread that waits for one itself.
Exhausted(k) ==
    \A w \in Workers :
        w.kind = k => \E t \in Threads : kept[t] = w /\ pc[t] \in {"taking", "waiting"}

\* A blocking call gets its worker in the end, however the threads that poll
\* and the transfers of the other kind come in between, unless those who keep
\* the workers all ask for more, as get_node's recursion does.
Served ==
    \A t \in Threads :
        pc[t] \in {"taking", "waiting"} /\ ~polls[t] ~>
            pc[t] = "working" \/ Exhausted(want[t])

----------------------------------------------------------------------------
(* The inductive invariant behind WorkersKept and NoSleepBesideFree.       *)

Has(t, w) == held[t] = w \/ kept[t] = w

\* a worker is in its list or with one thread, and with that thread once
Conserved ==
    \A w \in Workers :
        /\ free[w] \in {0, 1}
        /\ free[w] = 1 <=> \A t \in Threads : ~Has(t, w)
        /\ \A t, u \in Threads : Has(t, w) /\ Has(u, w) => t = u
        /\ \A t \in Threads : held[t] = w => kept[t] # w

\* what a thread has, at each point of its call
CallsKnow ==
    \A t \in Threads :
        /\ pc[t] = "used" => held[t] # NoWorker
        /\ pc[t] \in {"idle", "taking", "waiting", "polled", "notifying"} => held[t] = NoWorker
        /\ pc[t] \in {"taking", "waiting", "polled"} /\ polls[t] => kept[t] = NoWorker
        /\ pc[t] = "polled" => polls[t]
        /\ last[t] # NoKind => kept[t] \in Workers /\ last[t] = kept[t].kind

IInv == TypeOK /\ Conserved /\ CallsKnow /\ NoSleepBesideFree
============================================================================
