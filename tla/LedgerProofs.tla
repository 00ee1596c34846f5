---------------------------- MODULE LedgerProofs ----------------------------
(* Proofs about Ledger, for any programs, payments, fees and amounts.      *)
EXTENDS Ledger, FiniteSetTheorems, TLAPS

----------------------------------------------------------------------------
(* Amounts, transactions and lists.                                        *)

LEMMA FunctionIsSeq ==
    ASSUME NEW S, NEW n \in Nat, NEW s \in [1..n -> S]
    PROVE  s \in Seq(S) /\ Len(s) = n
  OBVIOUS

\* Change that does not exceed what was funded has not wrapped around.
LEMMA ChangeArithmetic ==
    ASSUME NEW v \in 0..(Modulus - 1), NEW fee \in 0..(Modulus - 1)
    PROVE  /\ Change(v, fee) \in 0..(Modulus - 1)
           /\ Change(v, fee) <= v => Change(v, fee) + fee = v
  <1>0. Modulus \in Nat \ {0}
    BY LedgerAssumption
  <1>1. CASE fee <= v
    <2>1. v - fee \in 0..(Modulus - 1)
      BY <1>0, <1>1
    <2>2. (v - fee) % Modulus = v - fee
      BY <1>0, <2>1
    <2> QED BY <1>0, <1>1, <2>1, <2>2 DEF Change
  <1>2. CASE fee > v
    <2>1. (v - fee) + Modulus \in 0..(Modulus - 1)
      BY <1>0, <1>2
    <2>2. (v - fee) % Modulus = (v - fee) + Modulus
      BY <1>0, <2>1
    <2> QED BY <1>0, <1>2, <2>1, <2>2 DEF Change
  <1> QED BY <1>1, <1>2

LEMMA Fields ==
    ASSUME TypeOK, NEW n \in DOMAIN made
    PROVE  /\ n \in 1..Len(made) /\ Len(made) \in Nat
           /\ made[n] \in Transactions
           /\ made[n].by \in Programs /\ made[n].input \in Nat \ {0}
           /\ made[n].fee \in 0..(Modulus - 1) /\ made[n].change \in 0..(Modulus - 1)
  <1>1. made \in Seq(Transactions)
    BY DEF TypeOK
  <1>2. n \in 1..Len(made) /\ made[n] \in Transactions
    BY <1>1
  <1>3. made[n].by \in Programs /\ made[n].input \in Nat \ {0}
    BY <1>2 DEF Transactions
  <1>4. made[n].fee \in Fees /\ made[n].change \in 0..(Modulus - 1)
    BY <1>2 DEF Transactions
  <1>5. Fees \subseteq 0..(Modulus - 1)
    BY LedgerAssumption
  <1>6. Len(made) \in Nat
    BY <1>1
  <1> QED BY <1>2, <1>3, <1>4, <1>5, <1>6

\* An output that is known has an amount.
LEMMA ValueType ==
    ASSUME TypeOK, NEW o \in Nat \ {0}, o <= ChangeOf(Len(made))
    PROVE  Value(o) \in 0..(Modulus - 1)
  <1>0. /\ Paid \in Seq(1..(Modulus - 1)) /\ Len(Paid) \in Nat /\ Modulus \in Nat \ {0}
        /\ made \in Seq(Transactions) /\ Len(made) \in Nat
    BY LedgerAssumption DEF TypeOK
  <1>1. CASE o <= Len(Paid)
    <2>1. Paid[o] \in 1..(Modulus - 1)
      BY <1>0, <1>1
    <2> QED BY <1>0, <1>1, <2>1 DEF Value
  <1>2. CASE o > Len(Paid)
    <2>1. o - Len(Paid) \in DOMAIN made
      BY <1>0, <1>2 DEF ChangeOf
    <2> QED BY <1>0, <1>2, <2>1, Fields DEF Value
  <1> QED BY <1>0, <1>1, <1>2

\* A new transaction leaves the others and the amounts of outputs alone.
LEMMA MadeGrows ==
    ASSUME TypeOK, NEW t \in Transactions, made' = Append(made, t)
    PROVE  /\ made' \in Seq(Transactions)
           /\ Len(made') = Len(made) + 1 /\ DOMAIN made' = 1..(Len(made) + 1)
           /\ \A n \in DOMAIN made : made'[n] = made[n]
           /\ made'[Len(made) + 1] = t
           /\ \A o \in Nat : o <= ChangeOf(Len(made)) => Value(o)' = Value(o)
  <1>1. made \in Seq(Transactions) /\ Len(made) \in Nat /\ Len(Paid) \in Nat
    BY LedgerAssumption DEF TypeOK
  <1>2. /\ made' \in Seq(Transactions)
        /\ Len(made') = Len(made) + 1 /\ DOMAIN made' = 1..(Len(made) + 1)
        /\ \A n \in DOMAIN made : made'[n] = made[n]
        /\ made'[Len(made) + 1] = t
    BY <1>1
  <1>3. ASSUME NEW o \in Nat, o <= ChangeOf(Len(made)) PROVE Value(o)' = Value(o)
    <2>1. CASE o <= Len(Paid)
      BY <2>1 DEF Value
    <2>2. CASE o > Len(Paid)
      <3>1. o - Len(Paid) \in DOMAIN made
        BY <1>1, <1>3, <2>2 DEF ChangeOf
      <3> QED BY <1>2, <3>1, <2>2, <1>1 DEF Value
    <2> QED BY <2>1, <2>2, <1>1, <1>3
  <1> QED BY <1>2, <1>3

LEMMA FrontFacts ==
    ASSUME NEW S, NEW list \in Seq(S), list # <<>>
    PROVE  /\ Popped(list) \in Seq(S)
           /\ Len(list) \in Nat \ {0}
           /\ DOMAIN Popped(list) = 1..(Len(list) - 1) /\ Len(Popped(list)) = Len(list) - 1
           /\ \A i \in 1..(Len(list) - 1) : Popped(list)[i] = list[i]
           /\ Last(list) \in S /\ Last(list) = list[Len(list)]
  <1> DEFINE N == Len(list)
  <1>1. N \in Nat \ {0} /\ DOMAIN list = 1..N /\ \A i \in 1..N : list[i] \in S
    OBVIOUS
  <1>2. Popped(list) = [i \in 1..(N - 1) |-> list[i]]
    <2>1. Popped(list) = SubSeq(list, 1, N - 1)
      BY DEF Popped, Front
    <2>2. SubSeq(list, 1, N - 1) = [i \in 1..(1 + (N - 1) - 1) |-> list[i + 1 - 1]]
      BY <1>1
    <2> HIDE DEF N
    <2> QED BY <1>1, <2>1, <2>2
  <1>3. N \in 1..N /\ Last(list) = list[N]
    BY <1>1 DEF Last
  <1> HIDE DEF N
  <1>4. Popped(list) \in [1..(N - 1) -> S] /\ N - 1 \in Nat
    BY <1>1, <1>2
  <1>5. Popped(list) \in Seq(S) /\ Len(Popped(list)) = N - 1
    BY <1>4, FunctionIsSeq
  <1>6. Last(list) \in S
    BY <1>1, <1>3
  <1>7. DOMAIN Popped(list) = 1..(N - 1) /\ \A i \in 1..(N - 1) : Popped(list)[i] = list[i]
    BY <1>2
  <1> QED BY <1>1, <1>3, <1>5, <1>6, <1>7 DEF N

LEMMA ListedFacts ==
    ASSUME NEW S, NEW list \in Seq(S), NEW o \in S
    PROVE  /\ Listed(list, o) \in Seq(S)
           /\ Len(list) \in Nat
           /\ DOMAIN Listed(list, o) = 1..(Len(list) + 1) /\ Len(Listed(list, o)) = Len(list) + 1
           /\ \A i \in 1..Len(list) : Listed(list, o)[i] = list[i]
           /\ Listed(list, o)[Len(list) + 1] = o
  BY DEF Listed

\* The lists a program may start with.
LEMMA StartLists ==
    ASSUME TypeOK, NEW list \in SetToSeqs(Unspent)
    PROVE  /\ list \in Seq(Nat \ {0})
           /\ IsInjective(list)
           /\ \A i \in DOMAIN list : list[i] <= ChangeOf(Len(made)) /\ Exists(list[i], pool)
  <1>1. Len(made) \in Nat /\ Len(Paid) \in Nat /\ ChangeOf(Len(made)) \in Nat
    BY LedgerAssumption DEF TypeOK, ChangeOf
  <1>2. Unspent \subseteq 1..ChangeOf(Len(made))
    BY DEF Unspent
  <1>3. IsFiniteSet(Unspent)
    <2>1. IsFiniteSet(1..ChangeOf(Len(made)))
      BY <1>1, FS_Interval
    <2> QED BY <1>2, <2>1, FS_Subset
  <1>4. Cardinality(Unspent) \in Nat
    BY <1>3, FS_CardinalityType
  <1>5. /\ list \in [1..Cardinality(Unspent) -> Unspent]
        /\ \A i, j \in 1..Cardinality(Unspent) : i # j => list[i] # list[j]
    BY DEF SetToSeqs
  <1>6. list \in Seq(Nat \ {0}) /\ DOMAIN list = 1..Cardinality(Unspent)
    <2>1. Unspent \subseteq Nat \ {0}
      BY <1>1, <1>2
    <2>2. list \in [1..Cardinality(Unspent) -> Nat \ {0}]
      BY <1>5, <2>1
    <2> QED BY <1>4, <1>5, <2>2, FunctionIsSeq
  <1>7. \A i \in DOMAIN list : list[i] <= ChangeOf(Len(made)) /\ Exists(list[i], confirmed)
    BY <1>1, <1>2, <1>5 DEF Unspent
  <1>8. confirmed \subseteq pool
    BY DEF TypeOK
  <1>9. IsInjective(list)
    BY <1>5, <1>6 DEF IsInjective
  <1> QED BY <1>6, <1>7, <1>8, <1>9 DEF Exists

LEMMA AssumptionFacts == Len(Paid) \in Nat /\ Modulus \in Nat \ {0}
  BY LedgerAssumption

\* The fee of a transaction the network accepts is paid.
LEMMA ValidPays ==
    ASSUME TypeOK, MadeWell, NEW n \in DOMAIN made, Valid(n)
    PROVE  made[n].change + made[n].fee = Value(made[n].input)
  <1>1. /\ made[n].fee \in 0..(Modulus - 1) /\ made[n].input \in Nat \ {0}
        /\ n \in 1..Len(made) /\ Len(made) \in Nat
    BY Fields
  <1>2. made[n].input <= ChangeOf(Len(made))
    BY <1>1, AssumptionFacts DEF MadeWell, ChangeOf
  <1>3. Value(made[n].input) \in 0..(Modulus - 1)
    BY <1>1, <1>2, ValueType
  <1>4. /\ made[n].change = Change(Value(made[n].input), made[n].fee)
        /\ made[n].change <= Value(made[n].input)
    BY DEF MadeWell, Valid
  <1> QED BY <1>1, <1>3, <1>4, ChangeArithmetic

----------------------------------------------------------------------------
(* The steps of a program.                                                 *)

LEMMA InitIInv == Init => IInv
  <1> SUFFICES ASSUME Init PROVE IInv
    OBVIOUS
  <1> USE DEF Init
  <1>1. TypeOK
    <2>1. made \in Seq(Transactions) /\ Len(made) = 0 /\ DOMAIN made = {}
      OBVIOUS
    <2>2. utxos \in [Programs -> Seq(Nat \ {0})]
      OBVIOUS
    <2> QED BY <2>1, <2>2 DEF TypeOK
  <1>2. SpendsOnce
    BY DEF SpendsOnce, IsInjective
  <1>3. PhantomIsLast /\ FeePaid /\ MadeWell
    BY DEF PhantomIsLast, FeePaid, MadeWell
  <1>4. InHand
    BY DEF InHand
  <1>5. ListsKnown
    BY DEF ListsKnown
  <1> QED BY <1>1, <1>2, <1>3, <1>4, <1>5 DEF IInv

LEMMA StartStep ==
    ASSUME IInv, NEW p \in Programs, Start(p)
    PROVE  IInv'
  <1> USE DEF IInv
  <1>1. PICK list \in SetToSeqs(Unspent) : utxos' = [utxos EXCEPT ![p] = list]
    BY DEF Start
  <1>2. /\ list \in Seq(Nat \ {0}) /\ IsInjective(list)
        /\ \A i \in DOMAIN list : list[i] <= ChangeOf(Len(made)) /\ Exists(list[i], pool)
    BY StartLists
  <1>3. /\ since' = [since EXCEPT ![p] = Len(made)] /\ pc' = [pc EXCEPT ![p] = "ready"]
        /\ UNCHANGED <<made, pool, confirmed, wire, tx>>
    BY DEF Start
  <1>4. utxos \in [Programs -> Seq(Nat \ {0})] /\ Len(made) \in Nat
    BY DEF TypeOK
  <1>5. /\ utxos'[p] = list /\ pc'[p] = "ready" /\ since'[p] = Len(made)
        /\ \A q \in Programs \ {p} :
              utxos'[q] = utxos[q] /\ pc'[q] = pc[q] /\ since'[q] = since[q]
    BY <1>1, <1>3, <1>4 DEF TypeOK
  <1>6. TypeOK'
    BY <1>1, <1>2, <1>3, <1>4 DEF TypeOK
  <1>7. SpendsOnce'
    BY <1>2, <1>3, <1>4, <1>5 DEF SpendsOnce
  <1>8. PhantomIsLast'
    BY <1>2, <1>3, <1>5 DEF PhantomIsLast, Exists
  <1>9. FeePaid' /\ MadeWell'
    BY <1>3 DEF FeePaid, MadeWell, Value
  <1>10. InHand'
    BY <1>3, <1>5 DEF InHand, MadeSince, Exists, Value
  <1>11. ListsKnown'
    BY <1>2, <1>3, <1>4, <1>5 DEF ListsKnown, MadeSince
  <1> QED BY <1>6, <1>7, <1>8, <1>9, <1>10, <1>11

LEMMA DownStep ==
    ASSUME IInv, NEW p \in Programs, Down(p)
    PROVE  IInv'
  <1> USE DEF IInv
  <1>1. /\ utxos' = [utxos EXCEPT ![p] = <<>>] /\ pc' = [pc EXCEPT ![p] = "down"]
        /\ tx' = [tx EXCEPT ![p] = 0] /\ since' = [since EXCEPT ![p] = 0]
        /\ UNCHANGED <<made, pool, confirmed, wire>>
    BY DEF Down, Leave
  <1>2. Len(made) \in Nat /\ <<>> \in Seq(Nat \ {0}) /\ DOMAIN <<>> = {}
    BY DEF TypeOK
  <1>3. /\ utxos'[p] = <<>> /\ pc'[p] = "down"
        /\ \A q \in Programs \ {p} :
              /\ utxos'[q] = utxos[q] /\ pc'[q] = pc[q]
              /\ since'[q] = since[q] /\ tx'[q] = tx[q]
    BY <1>1 DEF TypeOK
  <1>4. TypeOK'
    BY <1>1, <1>2 DEF TypeOK
  <1>5. SpendsOnce'
    BY <1>1, <1>2, <1>3 DEF SpendsOnce, IsInjective
  <1>6. PhantomIsLast'
    BY <1>1, <1>2, <1>3 DEF PhantomIsLast
  <1>7. FeePaid' /\ MadeWell'
    BY <1>1 DEF FeePaid, MadeWell, Value
  <1>8. InHand'
    BY <1>1, <1>3 DEF InHand, MadeSince, Exists, Value
  <1>9. ListsKnown'
    BY <1>1, <1>2, <1>3 DEF ListsKnown, MadeSince
  <1> QED BY <1>4, <1>5, <1>6, <1>7, <1>8, <1>9

LEMMA MakeStep ==
    ASSUME IInv, NEW p \in Programs, Make(p)
    PROVE  IInv'
  <1> USE DEF IInv
  <1> DEFINE N == Len(made)
             list == utxos[p]
             input == Last(list)
             change(fee) == Change(Value(input), fee)
             record(fee) == [by |-> p, input |-> input, fee |-> fee, change |-> change(fee)]
             NewValue(o) == IF o <= Len(Paid) THEN Paid[o] ELSE made'[o - Len(Paid)].change
             NewMade(q, n) == n \in (since[q] + 1)..(N + 1) /\ made'[n].by = q
  <1>1. PICK fee \in Fees : made' = Append(made, record(fee))
    BY DEF Make
  <1>2. /\ list # <<>> /\ pc[p] = "ready"
        /\ utxos' = [utxos EXCEPT ![p] = Popped(list)]
        /\ tx' = [tx EXCEPT ![p] = Len(made')] /\ pc' = [pc EXCEPT ![p] = "made"]
        /\ UNCHANGED <<pool, confirmed, wire, since>>
    BY DEF Make
  <1>3. N \in Nat /\ list \in Seq(Nat \ {0}) /\ ChangeOf(N) \in Nat
    BY AssumptionFacts DEF TypeOK, ChangeOf
  <1>4. /\ Popped(list) \in Seq(Nat \ {0}) /\ Len(list) \in Nat \ {0}
        /\ DOMAIN Popped(list) = 1..(Len(list) - 1) /\ Len(Popped(list)) = Len(list) - 1
        /\ \A i \in 1..(Len(list) - 1) : Popped(list)[i] = list[i]
        /\ input \in Nat \ {0} /\ input = list[Len(list)]
    <2>1. list \in Seq(Nat \ {0}) /\ list # <<>>
      BY <1>2, <1>3
    <2> HIDE DEF list
    <2> QED BY <2>1, FrontFacts
  <1>5. DOMAIN list = 1..Len(list) /\ Len(list) \in DOMAIN list
    BY <1>3, <1>4
  <1>6. input <= ChangeOf(N)
    BY <1>4, <1>5 DEF ListsKnown
  <1>7. Value(input) \in 0..(Modulus - 1)
    BY <1>4, <1>6, ValueType
  <1>8. fee \in 0..(Modulus - 1) /\ change(fee) \in 0..(Modulus - 1)
    BY <1>7, LedgerAssumption, ChangeArithmetic
  <1>9. record(fee) \in Transactions
    BY <1>4, <1>8 DEF Transactions
  <1> HIDE DEF list, input
  <1>10. /\ made' \in Seq(Transactions)
         /\ Len(made') = N + 1 /\ DOMAIN made' = 1..(N + 1) /\ DOMAIN made = 1..N
         /\ \A n \in 1..N : made'[n] = made[n]
         /\ made'[N + 1] = record(fee)
         /\ \A o \in Nat : o <= ChangeOf(N) => NewValue(o) = Value(o)
    <2>1. DOMAIN made = 1..N
      BY DEF TypeOK
    <2> QED BY <1>1, <1>9, <2>1, MadeGrows DEF Value
  <1>11. /\ utxos'[p] = Popped(list) /\ tx'[p] = N + 1 /\ pc'[p] = "made"
         /\ \A q \in Programs \ {p} :
               utxos'[q] = utxos[q] /\ tx'[q] = tx[q] /\ pc'[q] = pc[q]
         /\ since' = since
    BY <1>2, <1>10 DEF TypeOK, list
  <1>12. /\ pool \subseteq 1..N /\ wire \subseteq 1..N
         /\ \A q \in Programs : since[q] \in 0..N /\ tx[q] \in 0..N
    BY <1>10 DEF TypeOK
  <1>13. \A n \in 1..N : made[n].input \in Nat \ {0} /\ NewValue(made[n].input) = Value(made[n].input)
    <2> SUFFICES ASSUME NEW n \in 1..N
                 PROVE  made[n].input \in Nat \ {0} /\ NewValue(made[n].input) = Value(made[n].input)
      OBVIOUS
    <2>1. made[n].input \in Nat \ {0} /\ made[n].input < ChangeOf(n)
      BY <1>10, Fields DEF MadeWell
    <2>2. made[n].input <= ChangeOf(N)
      BY <1>3, <2>1, AssumptionFacts DEF ChangeOf
    <2> QED BY <1>10, <2>1, <2>2
  <1>14. TypeOK'
    <2>1. utxos' \in [Programs -> Seq(Nat \ {0})]
      BY <1>2, <1>4 DEF TypeOK
    <2>2. tx' \in [Programs -> 0..(N + 1)] /\ since' \in [Programs -> 0..(N + 1)]
      BY <1>2, <1>3, <1>10 DEF TypeOK
    <2>3. pc' \in [Programs -> {"down", "ready", "made", "valid"}]
      BY <1>2 DEF TypeOK
    <2>4. confirmed' \subseteq pool' /\ pool' \subseteq DOMAIN made' /\ wire' \subseteq DOMAIN made'
      BY <1>2, <1>3, <1>10 DEF TypeOK
    <2> QED BY <1>10, <2>1, <2>2, <2>3, <2>4 DEF TypeOK
  <1>15. SpendsOnce'
    <2> SUFFICES ASSUME NEW q \in Programs
                 PROVE  /\ IsInjective(utxos'[q])
                        /\ \A n \in (since[q] + 1)..(N + 1) : \A i \in DOMAIN utxos'[q] :
                              pc'[q] # "down" /\ made'[n].by = q => utxos'[q][i] # made'[n].input
      BY <1>10, <1>11 DEF SpendsOnce
    <2>0. IsInjective(list)
      BY DEF SpendsOnce, list
    <2>1. CASE q = p
      <3>1. IsInjective(Popped(list))
        BY <1>4, <1>5, <2>0 DEF IsInjective
      <3>2. ASSUME NEW n \in (since[p] + 1)..(N + 1), NEW i \in DOMAIN Popped(list), made'[n].by = p
            PROVE  Popped(list)[i] # made'[n].input
        <4>1. Popped(list)[i] = list[i] /\ i \in DOMAIN list /\ i # Len(list)
          BY <1>4, <1>5
        <4>2. CASE n = N + 1
          <5>1. made'[n].input = list[Len(list)]
            BY <1>4, <1>10, <4>2
          <5>2. list[i] # list[Len(list)]
            BY <1>5, <2>0, <4>1 DEF IsInjective
          <5> QED BY <4>1, <5>1, <5>2
        <4>3. CASE n # N + 1
          <5>1. n \in (since[p] + 1)..N /\ n \in 1..N
            BY <1>3, <1>12, <4>3
          <5> QED BY <1>2, <1>10, <3>2, <4>1, <5>1 DEF SpendsOnce, list
        <4> QED BY <4>2, <4>3
      <3> QED BY <1>11, <2>1, <3>1, <3>2
    <2>2. CASE q # p
      <3>1. ASSUME NEW n \in (since[q] + 1)..(N + 1), made'[n].by = q
            PROVE  n \in (since[q] + 1)..N /\ made'[n] = made[n]
        BY <1>3, <1>10, <1>12, <2>2, <3>1
      <3> QED BY <1>11, <2>2, <3>1 DEF SpendsOnce
    <2> QED BY <2>1, <2>2
  <1>16. PhantomIsLast'
    <2> SUFFICES ASSUME NEW q \in Programs, NEW i \in DOMAIN utxos'[q]
                 PROVE  Exists(utxos'[q][i], pool) \/ i = Len(utxos'[q])
      BY <1>2 DEF PhantomIsLast, Exists
    <2>1. CASE q = p
      <3>1. Popped(list)[i] = list[i] /\ i \in DOMAIN list /\ i # Len(list)
        BY <1>4, <1>5, <1>11, <2>1
      <3>2. Exists(list[i], pool)
        BY <3>1 DEF PhantomIsLast, list
      <3> QED BY <1>11, <2>1, <3>1, <3>2
    <2>2. CASE q # p
      BY <1>11, <2>2 DEF PhantomIsLast
    <2> QED BY <2>1, <2>2
  <1>17. FeePaid'
    <2> SUFFICES ASSUME NEW n \in pool
                 PROVE  made'[n].change + made'[n].fee = NewValue(made'[n].input)
      BY <1>2 DEF FeePaid, Value
    <2> QED BY <1>10, <1>12, <1>13 DEF FeePaid
  <1>18. MadeWell'
    <2> SUFFICES ASSUME NEW n \in 1..(N + 1)
                 PROVE  /\ made'[n].input < ChangeOf(n)
                        /\ made'[n].change = Change(NewValue(made'[n].input), made'[n].fee)
      BY <1>10 DEF MadeWell, Change, ChangeOf, Value
    <2>1. CASE n = N + 1
      <3>1. input < ChangeOf(N + 1)
        BY <1>3, <1>4, <1>6, AssumptionFacts DEF ChangeOf
      <3>2. NewValue(input) = Value(input)
        BY <1>4, <1>6, <1>10
      <3>3. made'[n].input = input /\ made'[n].change = change(fee) /\ made'[n].fee = fee
        BY <1>10, <2>1
      <3> QED BY <2>1, <3>1, <3>2, <3>3 DEF Change
    <2>2. CASE n # N + 1
      <3>1. n \in 1..N /\ n \in DOMAIN made
        BY <1>3, <1>10, <2>2
      <3> QED BY <1>10, <1>13, <3>1 DEF MadeWell
    <2> QED BY <2>1, <2>2
  <1>19. InHand'
    <2> SUFFICES ASSUME NEW q \in Programs, pc'[q] \in {"made", "valid"}
                 PROVE  /\ NewMade(q, tx'[q])
                        /\ tx'[q] \notin pool \union wire
                        /\ \A n \in (tx'[q] + 1)..(N + 1) : made'[n].by # q
                        /\ pc'[q] = "made" => \A i \in DOMAIN utxos'[q] :
                              utxos'[q][i] < ChangeOf(tx'[q]) /\ Exists(utxos'[q][i], pool)
                        /\ pc'[q] = "valid" =>
                              /\ Exists(made'[tx'[q]].input, pool)
                              /\ made'[tx'[q]].change <= NewValue(made'[tx'[q]].input)
      BY <1>2, <1>10, <1>11 DEF InHand, Exists, MadeSince, ChangeOf, Value
    <2>1. CASE q = p
      <3>1. NewMade(p, N + 1)
        BY <1>3, <1>10, <1>11, <1>12 DEF MadeSince
      <3>2. N + 1 \notin pool \union wire /\ ((N + 1) + 1)..(N + 1) = {}
        BY <1>3, <1>12
      <3>3. ASSUME NEW i \in DOMAIN Popped(list)
            PROVE  Popped(list)[i] < ChangeOf(N + 1) /\ Exists(Popped(list)[i], pool)
        <4>1. Popped(list)[i] = list[i] /\ i \in DOMAIN list /\ i # Len(list)
          BY <1>4, <1>5
        <4>2. list[i] <= ChangeOf(N) /\ Exists(list[i], pool) /\ list[i] \in Nat
          BY <1>3, <4>1 DEF ListsKnown, PhantomIsLast, list
        <4> QED BY <1>3, <4>1, <4>2, AssumptionFacts DEF ChangeOf
      <3> QED BY <1>11, <2>1, <3>1, <3>2, <3>3
    <2>2. CASE q # p
      <3>1. pc[q] \in {"made", "valid"}
        BY <1>11, <2>2
      <3>2. tx[q] \in 1..N /\ MadeSince(q, tx[q])
        BY <1>3, <1>12, <3>1 DEF InHand, MadeSince
      <3>3. made'[tx[q]] = made[tx[q]] /\ NewMade(q, tx[q])
        BY <1>3, <1>10, <1>11, <1>12, <3>2 DEF MadeSince
      <3>4. \A n \in (tx[q] + 1)..(N + 1) : made'[n].by # q
        <4> SUFFICES ASSUME NEW n \in (tx[q] + 1)..(N + 1) PROVE made'[n].by # q
          OBVIOUS
        <4>1. CASE n = N + 1
          BY <1>10, <2>2, <4>1
        <4>2. CASE n # N + 1
          <5>1. n \in (tx[q] + 1)..N /\ n \in 1..N
            <6>1. tx[q] \in Nat /\ N \in Nat
              BY <1>3, <3>2
            <6> HIDE DEF N
            <6> QED BY <4>2, <6>1
          <5> QED BY <1>10, <3>1, <5>1 DEF InHand
        <4> QED BY <4>1, <4>2
      <3>5. /\ tx[q] \notin pool \union wire
            /\ pc[q] = "made" => \A i \in DOMAIN utxos[q] :
                  utxos[q][i] < ChangeOf(tx[q]) /\ Exists(utxos[q][i], pool)
            /\ pc[q] = "valid" =>
                  /\ Exists(made[tx[q]].input, pool)
                  /\ made[tx[q]].change <= Value(made[tx[q]].input)
        BY <3>1 DEF InHand
      <3>6. NewValue(made[tx[q]].input) = Value(made[tx[q]].input)
        BY <1>13, <3>2
      <3> HIDE DEF NewValue, NewMade, N
      <3> QED BY <1>11, <2>2, <3>3, <3>4, <3>5, <3>6
    <2> QED BY <2>1, <2>2
  <1>20. ListsKnown'
    <2> SUFFICES ASSUME NEW q \in Programs
                 PROVE  /\ pc'[q] = "down" => utxos'[q] = <<>>
                        /\ \A i \in DOMAIN utxos'[q] : utxos'[q][i] <= ChangeOf(N + 1)
                        /\ pc'[q] # "down" => \A m, n \in 1..(N + 1) :
                              NewMade(q, m) /\ NewMade(q, n) /\ made'[m].input = made'[n].input
                              => m = n
      BY <1>10, <1>11 DEF ListsKnown, MadeSince, ChangeOf
    <2>0. \A k \in Nat : k <= ChangeOf(N) => k <= ChangeOf(N + 1)
      BY <1>3, AssumptionFacts DEF ChangeOf
    <2>1. ASSUME NEW m \in 1..N, NewMade(q, m)
          PROVE  MadeSince(q, m) /\ made'[m] = made[m]
      BY <1>3, <1>10, <1>11, <1>12, <2>1 DEF MadeSince
    <2>2. CASE q = p
      <3>1. \A i \in DOMAIN Popped(list) : Popped(list)[i] <= ChangeOf(N + 1)
        <4> SUFFICES ASSUME NEW i \in DOMAIN Popped(list) PROVE Popped(list)[i] <= ChangeOf(N + 1)
          OBVIOUS
        <4>1. Popped(list)[i] = list[i] /\ i \in DOMAIN list
          BY <1>4, <1>5
        <4>2. list[i] <= ChangeOf(N) /\ list[i] \in Nat
          BY <1>3, <4>1 DEF ListsKnown, list
        <4> QED BY <2>0, <4>1, <4>2
      <3>2. ASSUME NEW m \in 1..N, NewMade(p, m)
            PROVE  made'[m].input # made'[N + 1].input
        <4>1. MadeSince(p, m) /\ made'[m] = made[m]
          BY <2>1, <2>2, <3>2
        <4>2. input # made[m].input
          BY <1>2, <1>4, <1>5, <4>1 DEF SpendsOnce, MadeSince, list
        <4> QED BY <1>10, <4>1, <4>2
      <3>3. ASSUME NEW m \in 1..(N + 1), NEW n \in 1..(N + 1), NewMade(p, m), NewMade(p, n),
                   made'[m].input = made'[n].input
            PROVE  m = n
        <4>1. CASE m = N + 1 /\ n = N + 1
          BY <4>1
        <4>2. CASE m \in 1..N /\ n = N + 1
          BY <3>2, <3>3, <4>2
        <4>3. CASE m = N + 1 /\ n \in 1..N
          BY <3>2, <3>3, <4>3
        <4>4. CASE m \in 1..N /\ n \in 1..N
          BY <1>2, <1>10, <2>1, <2>2, <3>3, <4>4 DEF ListsKnown
        <4> QED BY <1>3, <4>1, <4>2, <4>3, <4>4
      <3> QED BY <1>11, <2>2, <3>1, <3>3
    <2>3. CASE q # p
      <3>1. ASSUME NEW m \in 1..(N + 1), NewMade(q, m) PROVE m \in 1..N
        BY <1>3, <1>10, <2>3, <3>1 DEF MadeSince
      <3>2. \A i \in DOMAIN utxos[q] : utxos[q][i] \in Nat /\ utxos[q][i] <= ChangeOf(N + 1)
        BY <2>0 DEF ListsKnown, TypeOK
      <3>3. pc[q] = "down" => utxos[q] = <<>>
        BY DEF ListsKnown
      <3>4. ASSUME NEW m \in 1..(N + 1), NEW n \in 1..(N + 1), NewMade(q, m), NewMade(q, n),
                   made'[m].input = made'[n].input, pc[q] # "down"
            PROVE  m = n
        <4>1. m \in 1..N /\ n \in 1..N
          BY <3>1, <3>4
        <4>2. /\ MadeSince(q, m) /\ MadeSince(q, n)
              /\ made[m].input = made[n].input
          BY <2>1, <3>4, <4>1
        <4> QED BY <1>10, <3>4, <4>1, <4>2 DEF ListsKnown
      <3> HIDE DEF NewMade, N
      <3> QED BY <1>11, <2>3, <3>2, <3>3, <3>4
    <2> QED BY <2>2, <2>3
  <1> QED BY <1>14, <1>15, <1>16, <1>17, <1>18, <1>19, <1>20

LEMMA ValidateStep ==
    ASSUME IInv, NEW p \in Programs, Validate(p)
    PROVE  IInv'
  <1> USE DEF IInv
  <1> DEFINE list == utxos[p]
             new == ChangeOf(tx[p])
  <1>1. /\ pc[p] = "made" /\ Valid(tx[p])
        /\ utxos' = [utxos EXCEPT ![p] = Listed(list, new)] /\ pc' = [pc EXCEPT ![p] = "valid"]
        /\ UNCHANGED <<made, pool, confirmed, wire, tx, since>>
    BY DEF Validate, Validated
  <1>2. /\ Len(made) \in Nat /\ DOMAIN made = 1..Len(made)
        /\ since[p] \in 0..Len(made) /\ list \in Seq(Nat \ {0})
    BY DEF TypeOK
  <1>3. /\ MadeSince(p, tx[p]) /\ tx[p] \in 1..Len(made)
        /\ \A n \in (tx[p] + 1)..Len(made) : made[n].by # p
        /\ \A i \in DOMAIN list : list[i] < new /\ Exists(list[i], pool)
    BY <1>1, <1>2 DEF InHand, MadeSince
  <1>4. new \in Nat \ {0} /\ new <= ChangeOf(Len(made))
    BY <1>2, <1>3, AssumptionFacts DEF ChangeOf
  <1>5. /\ Listed(list, new) \in Seq(Nat \ {0})
        /\ Len(list) \in Nat /\ DOMAIN list = 1..Len(list)
        /\ DOMAIN Listed(list, new) = 1..(Len(list) + 1)
        /\ Len(Listed(list, new)) = Len(list) + 1
        /\ \A i \in 1..Len(list) : Listed(list, new)[i] = list[i]
        /\ Listed(list, new)[Len(list) + 1] = new
    <2>1. list \in Seq(Nat \ {0}) /\ new \in Nat \ {0}
      BY <1>2, <1>4
    <2>2. DOMAIN list = 1..Len(list)
      BY <1>2
    <2> HIDE DEF list, new
    <2>3. /\ Listed(list, new) \in Seq(Nat \ {0})
          /\ Len(list) \in Nat
          /\ DOMAIN Listed(list, new) = 1..(Len(list) + 1)
          /\ Len(Listed(list, new)) = Len(list) + 1
          /\ \A i \in 1..Len(list) : Listed(list, new)[i] = list[i]
          /\ Listed(list, new)[Len(list) + 1] = new
      BY <2>1, ListedFacts
    <2> QED BY <2>2, <2>3
  <1>6. /\ utxos'[p] = Listed(list, new) /\ pc'[p] = "valid"
        /\ \A q \in Programs \ {p} : utxos'[q] = utxos[q] /\ pc'[q] = pc[q]
    BY <1>1 DEF TypeOK
  <1>7. TypeOK'
    BY <1>1, <1>5 DEF TypeOK
  <1>8. \A i \in 1..Len(list) : list[i] # new
    <2>1. \A i \in 1..Len(list) : list[i] \in Nat /\ list[i] < new
      <3>1. \A i \in 1..Len(list) : list[i] \in Nat
        BY <1>2
      <3>2. \A i \in 1..Len(list) : list[i] < new
        BY <1>3, <1>5
      <3> QED BY <3>1, <3>2
    <2> HIDE DEF list, new
    <2> QED BY <1>4, <2>1
  <1>9. SpendsOnce'
    <2> SUFFICES ASSUME NEW q \in Programs
                 PROVE  /\ IsInjective(utxos'[q])
                        /\ \A n \in (since[q] + 1)..Len(made) : \A i \in DOMAIN utxos'[q] :
                              pc'[q] # "down" /\ made[n].by = q => utxos'[q][i] # made[n].input
      BY <1>1 DEF SpendsOnce
    <2>1. CASE q = p
      <3>1. IsInjective(list)
        BY DEF SpendsOnce
      <3>2. IsInjective(Listed(list, new))
        <4> SUFFICES ASSUME NEW i \in 1..(Len(list) + 1), NEW j \in 1..(Len(list) + 1),
                            Listed(list, new)[i] = Listed(list, new)[j]
                     PROVE  i = j
          BY <1>5 DEF IsInjective
        <4> HIDE DEF list, new
        <4>1. CASE i \in 1..Len(list) /\ j \in 1..Len(list)
          BY <1>5, <3>1, <4>1 DEF IsInjective
        <4>2. CASE i \in 1..Len(list) /\ j = Len(list) + 1
          BY <1>5, <1>8, <4>2
        <4>3. CASE i = Len(list) + 1 /\ j \in 1..Len(list)
          BY <1>5, <1>8, <4>3
        <4>4. CASE i = Len(list) + 1 /\ j = Len(list) + 1
          BY <4>4
        <4> QED BY <1>5, <4>1, <4>2, <4>3, <4>4
      <3>3. ASSUME NEW n \in (since[p] + 1)..Len(made), made[n].by = p
            PROVE  made[n].input # new
        <4>1. n \in DOMAIN made /\ n <= tx[p]
          BY <1>2, <1>3, <3>3
        <4>2. made[n].input < ChangeOf(n) /\ made[n].input \in Nat
          BY <4>1, Fields DEF MadeWell
        <4>3. ChangeOf(n) <= new
          BY <1>2, <1>3, <4>1, AssumptionFacts DEF ChangeOf
        <4>4. ChangeOf(n) \in Nat
          BY <1>2, <4>1, AssumptionFacts DEF ChangeOf
        <4> HIDE DEF new
        <4> QED BY <1>4, <4>2, <4>3, <4>4
      <3>4. ASSUME NEW n \in (since[p] + 1)..Len(made), made[n].by = p,
                   NEW i \in 1..(Len(list) + 1)
            PROVE  Listed(list, new)[i] # made[n].input
        <4>1. CASE i = Len(list) + 1
          BY <1>5, <3>3, <3>4, <4>1
        <4>2. CASE i \in 1..Len(list)
          <5>1. list[i] # made[n].input
            BY <1>1, <1>5, <3>4, <4>2 DEF SpendsOnce
          <5>2. Listed(list, new)[i] = list[i]
            BY <1>5, <4>2
          <5> HIDE DEF list, new
          <5> QED BY <5>1, <5>2
        <4> QED BY <1>5, <4>1, <4>2
      <3> QED BY <1>5, <1>6, <2>1, <3>2, <3>4
    <2>2. CASE q # p
      BY <1>6, <2>2 DEF SpendsOnce
    <2> QED BY <2>1, <2>2
  <1>10. PhantomIsLast'
    <2> SUFFICES ASSUME NEW q \in Programs, NEW i \in DOMAIN utxos'[q]
                 PROVE  Exists(utxos'[q][i], pool) \/ i = Len(utxos'[q])
      BY <1>1 DEF PhantomIsLast, Exists
    <2>1. CASE q = p
      <3>1. i \in 1..Len(list) \/ i = Len(list) + 1
        BY <1>5, <1>6, <2>1
      <3> QED BY <1>3, <1>5, <1>6, <2>1, <3>1
    <2>2. CASE q # p
      BY <1>6, <2>2 DEF PhantomIsLast
    <2> QED BY <2>1, <2>2
  <1>11. FeePaid' /\ MadeWell'
    BY <1>1 DEF FeePaid, MadeWell, Value
  <1>12. InHand'
    <2>1. Exists(made[tx[p]].input, pool) /\ made[tx[p]].change <= Value(made[tx[p]].input)
      BY <1>1 DEF Valid
    <2>2. MadeSince(p, tx[p]) /\ tx[p] \notin pool \union wire
      BY <1>1 DEF InHand
    <2> QED BY <1>1, <1>3, <1>6, <2>1, <2>2 DEF InHand, MadeSince, Exists, Value
  <1>13. ListsKnown'
    <2>1. \A i \in DOMAIN Listed(list, new) : Listed(list, new)[i] <= ChangeOf(Len(made))
      <3> SUFFICES ASSUME NEW i \in 1..(Len(list) + 1)
                   PROVE  Listed(list, new)[i] <= ChangeOf(Len(made))
        BY <1>5
      <3>1. CASE i = Len(list) + 1
        BY <1>4, <1>5, <3>1
      <3>2. CASE i \in 1..Len(list)
        BY <1>5, <3>2 DEF ListsKnown
      <3> QED BY <1>5, <3>1, <3>2
    <2> HIDE DEF list, new
    <2> QED BY <1>1, <1>6, <2>1 DEF ListsKnown, MadeSince
  <1> QED BY <1>7, <1>9, <1>10, <1>11, <1>12, <1>13

\* What the other steps have in common: nothing is made or listed, the network
\* may know more, and a program that leaves its transaction is ready.
LEMMA LeaveStep ==
    ASSUME IInv, UNCHANGED <<made, utxos, since>>,
           pool \subseteq pool', confirmed' \subseteq pool',
           pool' \subseteq DOMAIN made, wire' \subseteq DOMAIN made,
           pc' \in [Programs -> {"down", "ready", "made", "valid"}],
           tx' \in [Programs -> 0..Len(made)],
           FeePaid',
           \A q \in Programs :
              \/ /\ pc'[q] = pc[q] /\ tx'[q] = tx[q]
                 /\ pc[q] \in {"made", "valid"} => tx[q] \notin pool' \union wire'
              \/ pc[q] \in {"made", "valid"} /\ pc'[q] = "ready"
    PROVE  IInv'
  <1> USE DEF IInv
  <1>1. TypeOK'
    BY DEF TypeOK
  <1>2. SpendsOnce'
    BY DEF SpendsOnce
  <1>3. PhantomIsLast'
    BY DEF PhantomIsLast, Exists
  <1>4. MadeWell'
    BY DEF MadeWell, Value
  <1>5. InHand'
    BY DEF InHand, MadeSince, Exists, Value
  <1>6. ListsKnown'
    BY DEF ListsKnown, MadeSince
  <1> QED BY <1>1, <1>2, <1>3, <1>4, <1>5, <1>6

\* Two programs have different transactions in hand.
LEMMA OwnInHand ==
    ASSUME IInv, NEW p \in Programs, NEW q \in Programs, p # q,
           pc[p] \in {"made", "valid"}, pc[q] \in {"made", "valid"}
    PROVE  tx[p] # tx[q]
  BY DEF IInv, InHand, MadeSince

LEMMA GivesUp ==
    ASSUME IInv, NEW p \in Programs, pc[p] \in {"made", "valid"}, Leave(p, "ready"),
           UNCHANGED <<made, utxos, since, pool, confirmed>>,
           wire' \subseteq wire \union {tx[p]}
    PROVE  IInv'
  <1>1. /\ confirmed \subseteq pool /\ pool \subseteq DOMAIN made /\ wire \subseteq DOMAIN made
        /\ pc' \in [Programs -> {"down", "ready", "made", "valid"}]
        /\ tx' \in [Programs -> 0..Len(made)]
        /\ tx[p] \in DOMAIN made
    <2>1. tx[p] \in DOMAIN made
      BY DEF IInv, InHand, MadeSince, TypeOK
    <2> QED BY <2>1 DEF Leave, IInv, TypeOK
  <1>2. FeePaid'
    BY DEF IInv, FeePaid, Value
  <1>3. ASSUME NEW q \in Programs
        PROVE  \/ /\ pc'[q] = pc[q] /\ tx'[q] = tx[q]
                  /\ pc[q] \in {"made", "valid"} => tx[q] \notin pool' \union wire'
               \/ pc[q] \in {"made", "valid"} /\ pc'[q] = "ready"
    <2>1. CASE q = p
      BY <2>1 DEF Leave, IInv, TypeOK
    <2>2. CASE q # p
      <3>1. pc'[q] = pc[q] /\ tx'[q] = tx[q]
        BY <2>2 DEF Leave, IInv, TypeOK
      <3>2. pc[q] \in {"made", "valid"} => tx[q] \notin pool \union wire /\ tx[q] # tx[p]
        BY <2>2, OwnInHand DEF IInv, InHand
      <3> QED BY <3>1, <3>2
    <2> QED BY <2>1, <2>2
  <1> QED BY <1>1, <1>2, <1>3, LeaveStep

LEMMA BroadcastStep ==
    ASSUME IInv, NEW p \in Programs, Broadcast(p)
    PROVE  IInv'
  <1>1. /\ pc[p] = "valid" /\ Valid(tx[p]) /\ pool' = pool \union {tx[p]}
        /\ Leave(p, "ready") /\ UNCHANGED <<made, confirmed, wire, utxos, since>>
    BY DEF Broadcast
  <1>2. tx[p] \in DOMAIN made
    BY <1>1 DEF IInv, InHand, MadeSince, TypeOK
  <1>3. /\ confirmed \subseteq pool /\ pool \subseteq DOMAIN made /\ wire \subseteq DOMAIN made
        /\ pc' \in [Programs -> {"down", "ready", "made", "valid"}]
        /\ tx' \in [Programs -> 0..Len(made)]
    BY <1>1 DEF Leave, IInv, TypeOK
  <1>4. FeePaid'
    <2>1. made[tx[p]].change + made[tx[p]].fee = Value(made[tx[p]].input)
      BY <1>1, <1>2, ValidPays DEF IInv
    <2> QED BY <1>1, <2>1 DEF IInv, FeePaid, Value
  <1>5. ASSUME NEW q \in Programs
        PROVE  \/ /\ pc'[q] = pc[q] /\ tx'[q] = tx[q]
                  /\ pc[q] \in {"made", "valid"} => tx[q] \notin pool' \union wire'
               \/ pc[q] \in {"made", "valid"} /\ pc'[q] = "ready"
    <2>1. CASE q = p
      BY <1>1, <2>1 DEF Leave, IInv, TypeOK
    <2>2. CASE q # p
      <3>1. pc'[q] = pc[q] /\ tx'[q] = tx[q]
        BY <1>1, <2>2 DEF Leave, IInv, TypeOK
      <3>2. pc[q] \in {"made", "valid"} => tx[q] \notin pool \union wire /\ tx[q] # tx[p]
        BY <1>1, <2>2, OwnInHand DEF IInv, InHand
      <3> QED BY <1>1, <3>1, <3>2
    <2> QED BY <2>1, <2>2
  <1> QED BY <1>1, <1>2, <1>3, <1>4, <1>5, LeaveStep

----------------------------------------------------------------------------
(* The steps of the network.                                               *)

LEMMA ArriveStep ==
    ASSUME IInv, NEW n \in DOMAIN made, Arrive(n)
    PROVE  IInv'
  <1>1. /\ n \in wire /\ wire' = wire \ {n}
        /\ pool' = IF Valid(n) THEN pool \union {n} ELSE pool
        /\ UNCHANGED <<made, confirmed, utxos, pc, tx, since>>
    BY DEF Arrive
  <1>2. FeePaid'
    <2>1. Valid(n) => made[n].change + made[n].fee = Value(made[n].input)
      BY ValidPays DEF IInv
    <2> QED BY <1>1, <2>1 DEF IInv, FeePaid, Value
  <1>3. \A q \in Programs : pc[q] \in {"made", "valid"} => tx[q] \notin pool' \union wire'
    BY <1>1 DEF IInv, InHand
  <1>4. /\ pool \subseteq pool' /\ confirmed' \subseteq pool'
        /\ pool' \subseteq DOMAIN made /\ wire' \subseteq DOMAIN made
    BY <1>1 DEF IInv, TypeOK
  <1>5. /\ pc' \in [Programs -> {"down", "ready", "made", "valid"}]
        /\ tx' \in [Programs -> 0..Len(made)]
    BY <1>1 DEF IInv, TypeOK
  <1> QED BY <1>1, <1>2, <1>3, <1>4, <1>5, LeaveStep

LEMMA ConfirmStep ==
    ASSUME IInv, NEW n \in DOMAIN made, Confirm(n)
    PROVE  IInv'
  <1>1. /\ n \in pool /\ confirmed' = confirmed \union {n}
        /\ UNCHANGED <<made, pool, wire, utxos, pc, tx, since>>
    BY DEF Confirm
  <1>2. FeePaid'
    BY <1>1 DEF IInv, FeePaid, Value
  <1>3. \A q \in Programs : pc[q] \in {"made", "valid"} => tx[q] \notin pool' \union wire'
    BY <1>1 DEF IInv, InHand
  <1>4. /\ pool \subseteq pool' /\ confirmed' \subseteq pool'
        /\ pool' \subseteq DOMAIN made /\ wire' \subseteq DOMAIN made
        /\ pc' \in [Programs -> {"down", "ready", "made", "valid"}]
        /\ tx' \in [Programs -> 0..Len(made)]
    BY <1>1 DEF IInv, TypeOK
  <1> QED BY <1>1, <1>2, <1>3, <1>4, LeaveStep

----------------------------------------------------------------------------
(* The theorems.                                                           *)

LEMMA NextIInv == IInv /\ [Next]_vars => IInv'
  <1> SUFFICES ASSUME IInv, [Next]_vars PROVE IInv'
    OBVIOUS
  <1>1. ASSUME NEW p \in Programs, Program(p) PROVE IInv'
    <2>1. CASE Start(p)
      BY <2>1, StartStep
    <2>2. CASE Down(p)
      BY <2>2, DownStep
    <2>3. CASE Make(p)
      BY <2>3, MakeStep
    <2>4. CASE Refuse(p)
      BY <2>4, GivesUp DEF Refuse
    <2>5. CASE Validate(p)
      BY <2>5, ValidateStep
    <2>6. CASE Broadcast(p)
      BY <2>6, BroadcastStep
    <2>7. CASE BroadcastFails(p)
      BY <2>7, GivesUp DEF BroadcastFails
    <2>8. CASE BroadcastLate(p)
      BY <2>8, GivesUp DEF BroadcastLate
    <2> QED BY <1>1, <2>1, <2>2, <2>3, <2>4, <2>5, <2>6, <2>7, <2>8 DEF Program
  <1>2. ASSUME NEW n \in DOMAIN made, Arrive(n) \/ Confirm(n) PROVE IInv'
    BY <1>2, ArriveStep, ConfirmStep
  <1>3. CASE UNCHANGED vars
    <2>1. UNCHANGED <<made, pool, confirmed, wire, utxos, pc, tx, since>>
      BY <1>3 DEF vars
    <2> QED BY <2>1 DEF IInv, TypeOK, SpendsOnce, PhantomIsLast, FeePaid, MadeWell, InHand,
                        ListsKnown, MadeSince, Exists, Value
  <1> QED BY <1>1, <1>2, <1>3 DEF Next

\* The inductive invariant holds: IInv, for any number of programs and
\* transactions.
THEOREM InductiveInvariant == Spec => []IInv
  BY InitIInv, NextIInv, PTL DEF Spec

\* The variables have their types, and amounts stay below the modulus.
THEOREM TypeCorrect == Spec => []TypeOK
  <1>1. IInv => TypeOK
    BY DEF IInv
  <1> QED BY <1>1, InductiveInvariant, PTL

\* A running program never lists an output twice or one it has spent since it
\* was started (SpendsOnce).
THEOREM SpendsOnceHolds == Spec => []SpendsOnce
  <1>1. IInv => SpendsOnce
    BY DEF IInv
  <1> QED BY <1>1, InductiveInvariant, PTL

\* Only the output to be spent next can be one the network does not know
\* (PhantomIsLast).
THEOREM PhantomIsLastHolds == Spec => []PhantomIsLast
  <1>1. IInv => PhantomIsLast
    BY DEF IInv
  <1> QED BY <1>1, InductiveInvariant, PTL

\* Every transaction in the network pays its fee, for any modulus, though its
\* change was computed without a look at the funds (FeePaid).
THEOREM FeePaidHolds == Spec => []FeePaid
  <1>1. IInv => FeePaid
    BY DEF IInv
  <1> QED BY <1>1, InductiveInvariant, PTL

LEMMA InHandRefused == IInv => RefusedByOthers
  <1> SUFFICES ASSUME IInv, NEW p \in Programs, pc[p] = "valid", ~Valid(tx[p])
               PROVE  \E n \in pool : /\ made[n].input = made[tx[p]].input
                                      /\ made[n].by # p \/ n <= since[p]
    BY DEF RefusedByOthers
  <1>1. /\ MadeSince(p, tx[p]) /\ tx[p] \notin pool
        /\ Exists(made[tx[p]].input, pool) /\ made[tx[p]].change <= Value(made[tx[p]].input)
    BY DEF IInv, InHand
  <1>2. PICK n \in pool : made[n].input = made[tx[p]].input
    BY <1>1 DEF Valid, Spent
  <1>3. /\ n \in 1..Len(made) /\ tx[p] \in 1..Len(made) /\ n # tx[p]
        /\ DOMAIN made = 1..Len(made) /\ Len(made) \in Nat /\ since[p] \in 0..Len(made)
    BY <1>1, <1>2 DEF IInv, TypeOK, MadeSince
  <1>4. ~MadeSince(p, n)
    BY <1>1, <1>2, <1>3 DEF IInv, ListsKnown
  <1>5. made[n].by # p \/ n <= since[p]
    BY <1>3, <1>4 DEF MadeSince
  <1> QED BY <1>2, <1>5

\* A validated transaction is refused only because its output was spent by
\* another program or by a transaction from before the start (RefusedByOthers).
THEOREM RefusedByOthersHolds == Spec => []RefusedByOthers
  BY InHandRefused, InductiveInvariant, PTL
============================================================================
