------------------------------- MODULE Ledger -------------------------------
(* game.cpp: a program that records data in transactions of the bitcoin    *)
(* network.  It lists the unspent outputs of its address when it starts;   *)
(* each record spends the last one of the list, pays its fee, and lists    *)
(* the change.  Several programs may use the same address.                 *)
(*                                                                         *)
(* The server a program asks stands for the network.  Requests to it time  *)
(* out: one that was not answered is lost, or reaches the network later.   *)
(* An output is a number: first those paid to the address from outside,    *)
(* then the change of each transaction in the order they were made.        *)
EXTENDS Integers, SequencesExt, FiniteSets

CONSTANTS
    Programs,   \* the programs that run with the address
    Paid,       \* Paid[o]: value of the outputs paid to the address
    Fees,       \* fees, which depend on the size of the data
    Modulus,    \* amounts are unsigned and wrap at it
    MaxMade     \* bound: transactions made

ASSUME LedgerAssumption ==
    /\ Modulus \in Nat \ {0}
    /\ Paid \in Seq(1..(Modulus - 1))
    /\ Fees \subseteq 0..(Modulus - 1)
    /\ MaxMade \in Nat

VARIABLES
    made,       \* the transactions the programs made
    pool,       \* those the network accepted
    confirmed,  \* those in its blocks
    wire,       \* those that may still reach the network
    utxos,      \* each program's list
    pc,         \* where each program is
    tx,         \* the transaction it makes a record with
    since       \* history: how many had been made when it started

vars == <<made, pool, confirmed, wire, utxos, pc, tx, since>>

----------------------------------------------------------------------------
(* The network.                                                            *)

Transactions ==
    [by : Programs, input : Nat \ {0}, fee : Fees, change : 0..(Modulus - 1)]

\* the output of the change of transaction n
ChangeOf(n) == Len(Paid) + n

Value(o) == IF o <= Len(Paid) THEN Paid[o] ELSE made[o - Len(Paid)].change

Exists(o, accepted) == o <= Len(Paid) \/ o - Len(Paid) \in accepted

Spent(o, accepted) == \E n \in accepted : made[n].input = o

\* a transaction the network accepts
Valid(n) ==
    /\ Exists(made[n].input, pool)
    /\ ~Spent(made[n].input, pool)
    /\ made[n].change <= Value(made[n].input)

\* A transaction that was on its way arrives.
Arrive(n) ==
    /\ n \in wire
    /\ wire' = wire \ {n}
    /\ pool' = IF Valid(n) THEN pool \union {n} ELSE pool
    /\ UNCHANGED <<made, confirmed, utxos, pc, tx, since>>

Confirm(n) ==
    /\ n \in pool \ confirmed
    /\ Exists(made[n].input, confirmed)
    /\ confirmed' = confirmed \union {n}
    /\ UNCHANGED <<made, pool, wire, utxos, pc, tx, since>>

\* what the server lists: unspent outputs of its blocks, in any order
Unspent ==
    {o \in 1..ChangeOf(Len(made)) :
        Exists(o, confirmed) /\ ~Spent(o, confirmed) /\ Value(o) > 0}

----------------------------------------------------------------------------
(* A program.                                                              *)

Init ==
    /\ made = <<>>
    /\ pool = {} /\ confirmed = {} /\ wire = {}
    /\ utxos = [p \in Programs |-> <<>>]
    /\ pc = [p \in Programs |-> "down"]
    /\ tx = [p \in Programs |-> 0]
    /\ since = [p \in Programs |-> 0]

\* process() is over.
Leave(p, place) == pc' = [pc EXCEPT ![p] = place] /\ tx' = [tx EXCEPT ![p] = 0]

\* The constructor.
Start(p) ==
    /\ pc[p] = "down"
    /\ \E list \in SetToSeqs(Unspent) : utxos' = [utxos EXCEPT ![p] = list]
    /\ since' = [since EXCEPT ![p] = Len(made)]
    /\ pc' = [pc EXCEPT ![p] = "ready"]
    /\ UNCHANGED <<made, pool, confirmed, wire, tx>>

\* The program ends, where it is killed, where nobody catches what process()
\* throws, and where process() finds an empty list.
Down(p) ==
    /\ pc[p] # "down"
    /\ Leave(p, "down")
    /\ utxos' = [utxos EXCEPT ![p] = <<>>]
    /\ since' = [since EXCEPT ![p] = 0]
    /\ UNCHANGED <<made, pool, confirmed, wire>>

\* wrong variants: the change is a signed number, the fee is cut to what there
\* is, and the output stays in the list
SignedChange(funded, fee) == funded - fee

CutChange(funded, fee) == IF fee > funded THEN 0 ELSE funded - fee

KeepAll(list) == list

\* unsigned subtraction
Change(funded, fee) == (funded - fee) % Modulus

Popped(list) == Front(list)

\* process() up to the signature: the last output is spent.
Make(p) ==
    LET input == Last(utxos[p])
    IN /\ pc[p] = "ready"
       /\ utxos[p] # <<>>
       /\ Len(made) < MaxMade
       /\ \E fee \in Fees :
             made' = Append(made, [by |-> p, input |-> input, fee |-> fee,
                                   change |-> Change(Value(input), fee)])
       /\ utxos' = [utxos EXCEPT ![p] = Popped(@)]
       /\ tx' = [tx EXCEPT ![p] = Len(made')]
       /\ pc' = [pc EXCEPT ![p] = "made"]
       /\ UNCHANGED <<pool, confirmed, wire, since>>

\* It cannot be signed, the server finds it invalid, or does not answer: the
\* output is no longer in the list.
Refuse(p) ==
    /\ pc[p] = "made"
    /\ Leave(p, "ready")
    /\ UNCHANGED <<made, pool, confirmed, wire, utxos, since>>

\* a wrong variant: the answer is not looked at
AnyAnswer(n) == TRUE

\* the server finds it valid
Validated(n) == Valid(n)

\* a wrong variant: the change goes in front of the list
ListFirst(list, o) == <<o>> \o list

Listed(list, o) == Append(list, o)

\* The change is listed before the transaction is sent.
Validate(p) ==
    /\ pc[p] = "made"
    /\ Validated(tx[p])
    /\ utxos' = [utxos EXCEPT ![p] = Listed(@, ChangeOf(tx[p]))]
    /\ pc' = [pc EXCEPT ![p] = "valid"]
    /\ UNCHANGED <<made, pool, confirmed, wire, tx, since>>

\* The network accepts it,
Broadcast(p) ==
    /\ pc[p] = "valid"
    /\ Valid(tx[p])
    /\ pool' = pool \union {tx[p]}
    /\ Leave(p, "ready")
    /\ UNCHANGED <<made, confirmed, wire, utxos, since>>

\* refuses it or never gets it,
BroadcastFails(p) ==
    /\ pc[p] = "valid"
    /\ Leave(p, "ready")
    /\ UNCHANGED <<made, pool, confirmed, wire, utxos, since>>

\* or gets it after the program gave up.
BroadcastLate(p) ==
    /\ pc[p] = "valid"
    /\ wire' = wire \union {tx[p]}
    /\ Leave(p, "ready")
    /\ UNCHANGED <<made, pool, confirmed, utxos, since>>

Program(p) ==
    \/ Start(p) \/ Down(p) \/ Make(p) \/ Refuse(p) \/ Validate(p)
    \/ Broadcast(p) \/ BroadcastFails(p) \/ BroadcastLate(p)

Next ==
    \/ \E p \in Programs : Program(p)
    \/ \E n \in DOMAIN made : Arrive(n) \/ Confirm(n)

Spec == Init /\ [][Next]_vars

----------------------------------------------------------------------------
(* Properties.                                                             *)

\* The variables have their types, and amounts stay below the modulus.
TypeOK ==
    /\ made \in Seq(Transactions)
    /\ confirmed \subseteq pool /\ pool \subseteq DOMAIN made /\ wire \subseteq DOMAIN made
    /\ utxos \in [Programs -> Seq(Nat \ {0})]
    /\ pc \in [Programs -> {"down", "ready", "made", "valid"}]
    /\ tx \in [Programs -> 0..Len(made)]
    /\ since \in [Programs -> 0..Len(made)]

\* Until it is started again, a program neither lists an output twice nor
\* lists one it has spent, though lists and change come and go with failures
\* (lines 104, 144-145, 181).
SpendsOnce ==
    \A p \in Programs :
        /\ IsInjective(utxos[p])
        /\ \A n \in (since[p] + 1)..Len(made) : \A i \in DOMAIN utxos[p] :
              pc[p] # "down" /\ made[n].by = p => utxos[p][i] # made[n].input

\* An output that the network does not know is the next to be spent: the
\* change of a transaction that failed after it was listed costs one more
\* failure and no more (lines 181-182).
PhantomIsLast ==
    \A p \in Programs : \A i \in DOMAIN utxos[p] :
        Exists(utxos[p][i], pool) \/ i = Len(utxos[p])

\* Every transaction in the network pays the fee that was computed: change
\* that wraps around never gets there (lines 146-150, 176-179).
FeePaid == \A n \in pool : made[n].change + made[n].fee = Value(made[n].input)

\* A transaction that was validated can only be refused because another
\* program, or a transaction that was late, spent the output in between.
RefusedByOthers ==
    \A p \in Programs :
        pc[p] = "valid" /\ ~Valid(tx[p]) =>
            \E n \in pool : /\ made[n].input = made[tx[p]].input
                            /\ made[n].by # p \/ n <= since[p]

----------------------------------------------------------------------------
(* The inductive invariant behind these properties.                        *)

\* A transaction spends an output older than its change, which is computed
\* from it.
MadeWell ==
    \A n \in DOMAIN made :
        /\ made[n].input < ChangeOf(n)
        /\ made[n].change = Change(Value(made[n].input), made[n].fee)

\* p made transaction n since it was started
MadeSince(p, n) == n \in (since[p] + 1)..Len(made) /\ made[n].by = p

\* The transaction a program has in hand is the last it made and unknown to
\* the network; what the program lists meanwhile, and what it was told.
InHand ==
    \A p \in Programs : pc[p] \in {"made", "valid"} =>
        /\ MadeSince(p, tx[p])
        /\ tx[p] \notin pool \union wire
        /\ \A n \in (tx[p] + 1)..Len(made) : made[n].by # p
        /\ pc[p] = "made" => \A i \in DOMAIN utxos[p] :
              utxos[p][i] < ChangeOf(tx[p]) /\ Exists(utxos[p][i], pool)
        /\ pc[p] = "valid" =>
              /\ Exists(made[tx[p]].input, pool)
              /\ made[tx[p]].change <= Value(made[tx[p]].input)

\* A program that is down lists nothing; the others list outputs there are,
\* and never spent one twice.
ListsKnown ==
    \A p \in Programs :
        /\ pc[p] = "down" => utxos[p] = <<>>
        /\ \A i \in DOMAIN utxos[p] : utxos[p][i] <= ChangeOf(Len(made))
        /\ pc[p] # "down" => \A m, n \in DOMAIN made :
              MadeSince(p, m) /\ MadeSince(p, n) /\ made[m].input = made[n].input => m = n

IInv ==
    /\ TypeOK
    /\ SpendsOnce
    /\ PhantomIsLast
    /\ FeePaid
    /\ MadeWell
    /\ InHand
    /\ ListsKnown
============================================================================
