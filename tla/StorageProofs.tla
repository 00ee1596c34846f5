--------------------------- MODULE StorageProofs ---------------------------
(* Proofs about Storage, for any data, skylinks and number of portals.     *)
EXTENDS Storage, TLAPS

----------------------------------------------------------------------------
(* The causes of a failure.                                                *)

LEMMA TwoClaims ==
    ASSUME NEW x \in Claims, NEW y \in Claims, x # y
    PROVE  Contradictory
  BY DEF Contradictory

LEMMA Types ==
    ASSUME TypeOK
    PROVE  /\ given.data \in Data /\ given.what \in Identifiers /\ given.keep_stored \in BOOLEAN
           /\ what.digests \in [1..Algorithms -> Data \union {Missing}]
           /\ what.skylink \in Links \union {Missing}
           /\ given.what.digests \in [1..Algorithms -> Data \union {Missing}]
           /\ given.what.skylink \in Links \union {Missing}
           /\ Missing \notin Data \union Links /\ Empty \in Data /\ 1 \in 1..Algorithms
           /\ \A l \in Links : Content[l] \in Data
  BY StorageAssumption DEF TypeOK, Requests, Identifiers, Data

\* What the data is, if there is any, somebody claimed.
LEMMA DataClaimed ==
    ASSUME TypeOK, Traceable, data # Empty
    PROVE  data \in Claims
  BY DEF Traceable, Claims

LEMMA NoData ==
    ASSUME Traceable, data = Empty, what.skylink = Missing
    PROVE  NoSource
  BY DEF Traceable, NoSource

LEMMA NotKept ==
    ASSUME Traceable, ~given.keep_stored, what.skylink # Missing
    PROVE  NotToBeStored
  BY DEF Traceable, NotToBeStored, FromUpload

\* A digest of other data has a cause,
LEMMA BadDigests ==
    ASSUME TypeOK, Traceable, NEW i \in 1..Algorithms, Wrong(i),
           data = Empty => what.skylink = Missing \/ Content[what.skylink] = Empty
    PROVE  Cause
  <1>1. what.digests[i] \notin {Missing, data}
    BY DEF Wrong
  <1>2. CASE what.digests[i] # given.what.digests[i]
    <2>1. OfNoData(i)
      BY <1>1, <1>2 DEF Traceable
    <2>2. data # Empty
      BY <1>1, <2>1 DEF OfNoData
    <2> QED BY <2>1, <2>2 DEF DigestsTooEarly, Cause
  <1>3. CASE what.digests[i] = given.what.digests[i]
    <2>1. what.digests[i] \in Claims
      BY <1>1, <1>3 DEF Claims
    <2>2. CASE data # Empty
      BY <1>1, <2>1, <2>2, DataClaimed, TwoClaims DEF Cause
    <2>3. CASE data = Empty /\ what.skylink = Missing
      BY <2>3, NoData DEF Cause
    <2>4. CASE data = Empty /\ what.skylink # Missing
      <3>1. Content[given.what.skylink] = Empty /\ given.what.skylink # Missing
        BY <2>4 DEF Traceable
      <3>2. Empty \in Claims
        BY <3>1 DEF Claims
      <3> QED BY <1>1, <2>1, <2>4, <3>2, TwoClaims DEF Cause
    <2> QED BY <2>2, <2>3, <2>4
  <1> QED BY <1>2, <1>3

\* and so has a skylink of other data.
LEMMA BadSkylink ==
    ASSUME TypeOK, Traceable, data # Empty, what.skylink # Missing, Content[what.skylink] # data
    PROVE  Cause
  <1>1. CASE what.skylink = given.what.skylink
    <2>1. Content[what.skylink] \in Claims
      BY <1>1 DEF Claims
    <2> QED BY <2>1, DataClaimed, TwoClaims DEF Cause
  <1>2. CASE what.skylink # given.what.skylink
    BY <1>2 DEF Traceable, FromUpload, NotUploaded, Cause
  <1> QED BY <1>1, <1>2

----------------------------------------------------------------------------
(* The steps.                                                              *)

\* A call begins with what it was given.
LEMMA CallBegins ==
    ASSUME order \in [1..2 -> {"digests", "siaskynet"}], order[1] # order[2],
           given \in Requests, data = given.data, what = given.what,
           result = "UNPROCESSABLE", pc = "first", turn = 1,
           count = 0, identifier = Missing, portal = 1, links \subseteq Links
    PROVE  IInv
  <1>1. TypeOK
    BY StorageAssumption DEF TypeOK, Requests, Results
  <1>2. Traceable
    BY <1>1, Types DEF Traceable
  <1>3. SkylinkKept /\ UploadsCounted /\ FirstLoop
    BY DEF SkylinkKept, UploadsCounted, FirstLoop
  <1>4. AfterFirst /\ SecondLoop
    BY DEF AfterFirst, SecondLoop, Confirmed
  <1> QED BY <1>1, <1>2, <1>3, <1>4 DEF IInv

LEMMA InitIInv == Init => IInv
  <1> SUFFICES ASSUME Init PROVE IInv
    OBVIOUS
  <1>1. order \in [1..2 -> {"digests", "siaskynet"}] /\ order[1] # order[2]
    BY DEF Init
  <1> QED BY <1>1, CallBegins DEF Init

LEMMA CallAgainStep ==
    ASSUME IInv, CallAgain
    PROVE  IInv'
  <1>1. PICK d \in {given.data, Empty} :
           given' = [given EXCEPT !.data = d, !.what = what]
    BY DEF CallAgain
  <1>2. given' \in Requests /\ given'.what = what
    BY <1>1, Types DEF IInv, TypeOK, Requests
  <1>3. /\ order' \in [1..2 -> {"digests", "siaskynet"}] /\ order'[1] # order'[2]
        /\ data' = given'.data /\ what' = given'.what
        /\ result' = "UNPROCESSABLE" /\ pc' = "first" /\ turn' = 1
        /\ count' = 0 /\ identifier' = Missing /\ portal' = 1 /\ links' \subseteq Links
    BY <1>2 DEF CallAgain, IInv, TypeOK
  <1>4. TypeOK'
    BY <1>2, <1>3, StorageAssumption DEF TypeOK, Requests, Results
  <1>5. Traceable'
    BY <1>2, <1>3 DEF Traceable
  <1>6. SkylinkKept' /\ UploadsCounted' /\ FirstLoop'
    BY <1>2, <1>3 DEF SkylinkKept, UploadsCounted, FirstLoop
  <1>7. AfterFirst' /\ SecondLoop'
    BY <1>3 DEF AfterFirst, SecondLoop, Confirmed
  <1> QED BY <1>3, <1>4, <1>5, <1>6, <1>7 DEF IInv

\* A call that fails has nothing to show for it.
LEMMA ThrowStep ==
    ASSUME IInv, Throw, UNCHANGED <<order, given, data, localVars, links>>,
           what' \in Identifiers, Traceable'
    PROVE  IInv'
  <1>1. pc' = "threw" /\ UNCHANGED <<result, turn, count, identifier, portal>>
    BY DEF Throw, localVars
  <1>2. TypeOK'
    BY <1>1 DEF IInv, TypeOK
  <1>3. SkylinkKept' /\ UploadsCounted' /\ FirstLoop'
    BY <1>1 DEF IInv, SkylinkKept, UploadsCounted, FirstLoop
  <1>4. AfterFirst' /\ SecondLoop'
    BY <1>1 DEF AfterFirst, SecondLoop, Confirmed
  <1> QED BY <1>2, <1>3, <1>4 DEF IInv

LEMMA FoundStep ==
    ASSUME IInv, Found
    PROVE  IInv'
  <1>1. /\ pc = "found" /\ UNCHANGED <<order, given, data, what, localVars, links>>
        /\ IF result = "UNPROCESSABLE" \/ Refused(result) THEN Throw
           ELSE pc' = "second" /\ UNCHANGED <<result, turn>>
    BY DEF Found
  <1>2. Traceable' /\ what' \in Identifiers
    BY <1>1 DEF IInv, TypeOK, Traceable, FromUpload, OfNoData, localVars
  <1>3. CASE Throw
    BY <1>1, <1>2, <1>3, ThrowStep
  <1>4. CASE ~Throw
    <2>1. /\ pc' = "second" /\ UNCHANGED <<result, turn, count, identifier, portal>>
          /\ result \notin {"UNPROCESSABLE", "INCONSISTENT"}
      BY <1>1, <1>4 DEF Refused, localVars
    <2>2. turn = 1
      BY <1>1 DEF IInv, AfterFirst
    <2>3. TypeOK'
      BY <1>1, <2>1 DEF IInv, TypeOK
    <2>4. SkylinkKept' /\ UploadsCounted' /\ FirstLoop'
      BY <1>1, <2>1 DEF IInv, SkylinkKept, UploadsCounted, FirstLoop
    <2>5. AfterFirst'
      BY <1>1, <2>1 DEF IInv, AfterFirst
    <2>6. SecondLoop'
      BY <1>1, <2>1, <2>2 DEF IInv, TypeOK, Results, SecondLoop, Confirmed
    <2> QED BY <1>1, <1>2, <2>3, <2>4, <2>5, <2>6 DEF IInv
  <1> QED BY <1>3, <1>4

LEMMA FinishStep ==
    ASSUME IInv, Finish
    PROVE  IInv'
  <1>1. /\ pc = "end" /\ pc' = IF Good THEN "returned" ELSE "threw"
        /\ UNCHANGED <<order, given, data, what, result, turn, count, identifier, portal, links>>
    BY DEF Finish, localVars
  <1>2. TypeOK' /\ Traceable'
    BY <1>1 DEF IInv, TypeOK, Traceable, FromUpload, OfNoData
  <1>3. SkylinkKept' /\ UploadsCounted' /\ FirstLoop'
    BY <1>1 DEF IInv, SkylinkKept, UploadsCounted, FirstLoop
  <1>4. AfterFirst' /\ SecondLoop'
    BY <1>1 DEF IInv, AfterFirst, SecondLoop, Confirmed, Good
  <1> QED BY <1>1, <1>2, <1>3, <1>4 DEF IInv

----------------------------------------------------------------------------
(* Answers of the backends.                                                *)

\* What a backend has to see to that answers r in the first loop.
LEMMA FirstAnswered ==
    ASSUME IInv, NEW r \in Results, FirstAnswer(r),
           UNCHANGED <<order, given, count, identifier, portal, links>>,
           data' \in Data, what' \in Identifiers, Traceable',
           \/ given.what.skylink \in {Missing, what'.skylink}
           \/ r = "INCONSISTENT" /\ data' # Empty,
           Settles(r) \/ turn = 2 =>
               /\ data' = Empty => what'.skylink = Missing \/ Content[what'.skylink] = Empty
               /\ r = "STORED_AND_VERIFIED" =>
                     what'.skylink # Missing /\ Content[what'.skylink] = data'
               /\ r = "VERIFIED" => \A i \in 1..Algorithms : what'.digests[i] # Missing
               /\ r = "UNPROCESSABLE" \/ Refused(r) => Cause',
           turn = 1 /\ ~Settles(r) =>
               /\ order[1] = "siaskynet" => what'.digests = given.what.digests
               /\ order[1] = "digests" => data' = Empty
               /\ order[1] = "siaskynet" =>
                     what'.skylink = Missing \/ (data' = Empty /\ Content[what'.skylink] = Empty)
    PROVE  IInv'
  <1>1. pc = "first" /\ result' = r
    BY DEF FirstAnswer
  <1>2. turn \in 1..2
    BY DEF IInv, TypeOK
  <1>3. UploadsCounted'
    BY DEF IInv, UploadsCounted
  <1>4. CASE Settles(r) \/ turn = 2
    <2>1. pc' = "found" /\ turn' = 1
      BY <1>4 DEF FirstAnswer
    <2>2. TypeOK'
      BY <1>1, <2>1 DEF IInv, TypeOK
    <2>3. SkylinkKept' /\ FirstLoop'
      BY <1>1, <2>1 DEF SkylinkKept, FirstLoop
    <2>4. AfterFirst'
      BY <1>1, <1>4, <2>1 DEF AfterFirst, Refused
    <2>5. SecondLoop'
      BY <2>1 DEF SecondLoop, Confirmed
    <2> QED BY <1>3, <2>2, <2>3, <2>4, <2>5 DEF IInv
  <1>5. CASE ~Settles(r) /\ turn = 1
    <2>1. pc' = "first" /\ turn' = 2
      BY <1>1, <1>5 DEF FirstAnswer
    <2>2. TypeOK'
      BY <1>1, <2>1 DEF IInv, TypeOK
    <2>3. r = "INCONSISTENT" => data' = Empty
      BY <1>5 DEF Settles
    <2>4. SkylinkKept' /\ FirstLoop'
      BY <1>1, <1>5, <2>1, <2>3 DEF SkylinkKept, FirstLoop
    <2>5. AfterFirst' /\ SecondLoop'
      BY <2>1 DEF AfterFirst, SecondLoop, Confirmed
    <2> QED BY <1>3, <2>2, <2>4, <2>5 DEF IInv
  <1> QED BY <1>2, <1>4, <1>5

\* And in the second: that it changes nothing that was confirmed.
LEMMA SecondAnswered ==
    ASSUME IInv, NEW r \in Results, SecondAnswer(r),
           UNCHANGED <<order, given, count, identifier, portal, links>>,
           data' = data, what' \in Identifiers, Traceable',
           ~Refused(r) =>
               /\ what'.skylink = what.skylink
               /\ \A i \in 1..Algorithms :
                     /\ what'.digests[i] # Missing \/ what.digests[i] = Missing
                     /\ what.digests[i] = data => what'.digests[i] = data
               /\ \/ /\ order[turn] = "digests" /\ r = "VERIFIED"
                     /\ \A i \in 1..Algorithms : what'.digests[i] = data
                  \/ /\ order[turn] = "siaskynet" /\ r = "UNPROCESSABLE"
                     /\ what.skylink = Missing
                     /\ given.keep_stored => data = Empty
                  \/ /\ order[turn] = "siaskynet" /\ r = "STORED_AND_VERIFIED"
                     /\ what.skylink # Missing /\ Content[what.skylink] = data
    PROVE  IInv'
  <1>1. pc = "second"
    BY DEF SecondAnswer
  <1>2. CASE Refused(r)
    <2>1. Throw
      BY <1>2 DEF SecondAnswer
    <2> QED BY <2>1, ThrowStep DEF localVars
  <1>3. CASE ~Refused(r)
    <2>1. /\ result' = Propagated(r)
          /\ IF turn = 2 THEN pc' = "end" /\ turn' = 1 ELSE pc' = pc /\ turn' = turn + 1
      BY <1>3 DEF SecondAnswer
    <2>2. result \in {"VERIFIED", "STORED_AND_VERIFIED"} /\ turn \in 1..2
      BY <1>1 DEF IInv, SecondLoop, TypeOK
    <2>3. /\ result' \in {"VERIFIED", "STORED_AND_VERIFIED"}
          /\ result' = "STORED_AND_VERIFIED" <=>
                r = "STORED_AND_VERIFIED" \/ result = "STORED_AND_VERIFIED"
      BY <1>3, <2>1, <2>2 DEF Propagated, Results, Refused
    <2>4. TypeOK'
      BY <1>1, <2>1, <2>2, <2>3 DEF IInv, TypeOK, Results
    <2>5. SkylinkKept' /\ UploadsCounted' /\ FirstLoop'
      BY <1>1, <1>3, <2>1, <2>2 DEF IInv, SkylinkKept, UploadsCounted, FirstLoop
    <2>6. AfterFirst'
      BY <1>1, <1>3, <2>1, <2>2, <2>3, Types DEF IInv, AfterFirst
    <2>7. SecondLoop'
      <3>1. /\ order[1] # order[2] /\ order[1] \in {"digests", "siaskynet"}
            /\ order[2] \in {"digests", "siaskynet"}
        BY DEF IInv, TypeOK
      <3>2. CASE turn = 1
        <4>1. pc' = "second" /\ turn' = 2
          BY <1>1, <2>1, <3>2
        <4> QED BY <1>3, <2>3, <3>1, <3>2, <4>1 DEF SecondLoop, Confirmed
      <3>3. CASE turn = 2
        <4>1. pc' = "end" /\ turn' = 1
          BY <2>1, <3>3
        <4>2. order[1] = "digests" => \A i \in 1..Algorithms : what.digests[i] = data
          BY <1>1, <3>3 DEF IInv, SecondLoop, Confirmed
        <4>3. order[1] = "siaskynet" =>
                 /\ what.skylink # Missing => Content[what.skylink] = data
                 /\ given.keep_stored =>
                       result = "STORED_AND_VERIFIED" \/ (data = Empty /\ what.skylink = Missing)
          BY <1>1, <3>3 DEF IInv, SecondLoop, Confirmed
        <4> QED BY <1>3, <2>3, <3>1, <3>3, <4>1, <4>2, <4>3 DEF SecondLoop
      <3> QED BY <2>2, <3>2, <3>3
    <2> QED BY <2>4, <2>5, <2>6, <2>7 DEF IInv
  <1> QED BY <1>2, <1>3

\* The causes stay the same as long as the data does, or when there was none.
LEMMA CauseStays ==
    ASSUME TypeOK, UNCHANGED <<order, given, count, identifier>>,
           \/ /\ data' = data
              /\ \A i \in 1..Algorithms :
                    what.digests[i] # Missing => what'.digests[i] = what.digests[i]
           \/ data = Empty /\ given.data = Empty,
           Cause
    PROVE  Cause'
  <1>1. CASE DigestsTooEarly
    <2>1. PICK i \in 1..Algorithms : OfNoData(i)
      BY <1>1 DEF DigestsTooEarly
    <2>2. data # Empty /\ what.digests[i] # Missing
      BY <1>1, <2>1, Types DEF DigestsTooEarly, OfNoData
    <2>3. OfNoData(i)' /\ data' # Empty
      BY <2>1, <2>2 DEF OfNoData
    <2> QED BY <2>3 DEF Cause, DigestsTooEarly
  <1>2. CASE ~DigestsTooEarly
    BY <1>2 DEF Cause, Contradictory, Claims, NotToBeStored, NoSource, NotUploaded, Agreed
  <1> QED BY <1>1, <1>2

\* What the digests backend makes of the digests: those that are there stay, and
\* if none is wrong all are recorded.
LEMMA DigestsTaken ==
    ASSUME TypeOK, Digest
    PROVE  /\ what' \in Identifiers /\ what'.skylink = what.skylink
           /\ \A i \in 1..Algorithms :
                 /\ what'.digests[i] \in {what.digests[i], data}
                 /\ what.digests[i] # Missing => what'.digests[i] = what.digests[i]
           /\ (~\E i \in 1..Algorithms : Wrong(i)) =>
                 \A i \in 1..Algorithms : what'.digests[i] = data
  <1> DEFINE D == [i \in 1..Algorithms |-> IF Taken(i) THEN data ELSE what.digests[i]]
  <1>1. what' = [what EXCEPT !.digests = D]
    BY DEF Digest
  <1>2. /\ what \in Identifiers /\ data \in Data
        /\ what.digests \in [1..Algorithms -> Data \union {Missing}] /\ Algorithms \in Nat
    BY Types, StorageAssumption DEF TypeOK
  <1>3. D \in [1..Algorithms -> Data \union {Missing}]
    BY <1>2
  <1>4. what'.digests = D /\ what'.skylink = what.skylink /\ what' \in Identifiers
    BY <1>1, <1>2, <1>3 DEF Identifiers
  <1>5. ASSUME NEW i \in 1..Algorithms
        PROVE  Taken(i) => what.digests[i] \in {Missing, data}
    <2>1. i \in 1..i
      BY <1>2
    <2> QED BY <2>1 DEF Taken, Wrong
  <1>6. ASSUME ~\E i \in 1..Algorithms : Wrong(i), NEW i \in 1..Algorithms
        PROVE  Taken(i)
    <2>1. \A j \in 1..i : j \in 1..Algorithms
      BY <1>2
    <2> QED BY <1>6, <2>1 DEF Taken
  <1>7. \A i \in 1..Algorithms : what'.digests[i] = IF Taken(i) THEN data ELSE what.digests[i]
    BY <1>4
  <1> HIDE DEF D
  <1> QED BY <1>4, <1>5, <1>6, <1>7

LEMMA DigestStep ==
    ASSUME IInv, Digest
    PROVE  IInv'
  <1> DEFINE r == IF \E i \in 1..Algorithms : Wrong(i) THEN "INCONSISTENT" ELSE "VERIFIED"
  <1>1. /\ pc \in {"first", "second"} /\ order[turn] = "digests"
        /\ data' = data
        /\ UNCHANGED <<order, given, count, identifier, portal, links>>
        /\ Answer(r) /\ r \in Results
    BY DEF Digest, Asked, Backend, localVars, Results
  <1>2. /\ what' \in Identifiers /\ what'.skylink = what.skylink
        /\ \A i \in 1..Algorithms :
              /\ what'.digests[i] \in {what.digests[i], data}
              /\ what.digests[i] # Missing => what'.digests[i] = what.digests[i]
        /\ r = "VERIFIED" => \A i \in 1..Algorithms : what'.digests[i] = data
    BY DigestsTaken DEF IInv
  <1>3. data # Missing /\ data \in Data /\ turn \in 1..2 /\ order[1] # order[2]
    BY Types DEF IInv, TypeOK
  <1>4. Traceable'
    <2>1. ASSUME NEW i \in 1..Algorithms
          PROVE  /\ given.what.digests[i] \in {Missing, what'.digests[i]}
                 /\ \/ what'.digests[i] \in {given.what.digests[i], data}
                    \/ OfNoData(i)'
      <3>1. CASE what'.digests[i] = what.digests[i]
        BY <1>1, <3>1 DEF IInv, Traceable, OfNoData
      <3>2. CASE what'.digests[i] # what.digests[i]
        <4>1. what'.digests[i] = data /\ what.digests[i] = Missing
          BY <1>2, <3>2
        <4> QED BY <4>1 DEF IInv, Traceable
      <3> QED BY <3>1, <3>2
    <2> QED BY <1>1, <1>2, <2>1 DEF IInv, Traceable, FromUpload
  <1>5. Cause => Cause'
    BY <1>1, <1>2, CauseStays DEF IInv
  <1>6. CASE FirstAnswer(r)
    <2>1. pc = "first"
      BY <1>6 DEF FirstAnswer
    <2>2. given.what.skylink \in {Missing, what'.skylink}
      BY <1>2, <2>1 DEF IInv, SkylinkKept
    <2>3. data = Empty /\ turn = 2 => what.skylink = Missing \/ Content[what.skylink] = Empty
      <3>1. turn = 2 => order[1] = "siaskynet"
        BY <1>1, <1>3 DEF IInv, TypeOK
      <3> QED BY <2>1, <3>1 DEF IInv, FirstLoop
    <2>4. r # "UNPROCESSABLE" /\ r # "STORED_AND_VERIFIED"
      OBVIOUS
    <2>5. Settles(r) <=> data # Empty
      BY <1>1, <2>4 DEF Settles
    <2>6. ASSUME Settles(r) \/ turn = 2, r = "INCONSISTENT" PROVE Cause'
      <3>1. PICK i \in 1..Algorithms : Wrong(i)
        BY <2>6
      <3>2. data = Empty => what.skylink = Missing \/ Content[what.skylink] = Empty
        BY <2>3, <2>5, <2>6
      <3> QED BY <1>5, <3>1, <3>2, BadDigests DEF IInv
    <2>7. Refused(r) => r = "INCONSISTENT"
      BY DEF Refused
    <2>8. turn = 1 => order[1] = "digests"
      BY <1>1
    <2>9. r = "VERIFIED" => \A i \in 1..Algorithms : what'.digests[i] # Missing
      BY <1>2, <1>3
    <2>10. data = Empty /\ (Settles(r) \/ turn = 2) =>
              what'.skylink = Missing \/ Content[what'.skylink] = Empty
      BY <1>2, <2>3, <2>5
    <2> HIDE DEF r
    <2> QED BY <1>1, <1>2, <1>3, <1>4, <1>6, <2>2, <2>4, <2>5, <2>6, <2>7, <2>8, <2>9, <2>10,
               FirstAnswered
  <1>7. CASE SecondAnswer(r)
    <2>1. ~Refused(r) => r = "VERIFIED"
      BY DEF Refused
    <2>2. \A i \in 1..Algorithms :
             /\ what'.digests[i] # Missing \/ what.digests[i] = Missing
             /\ what.digests[i] = data => what'.digests[i] = data
      BY <1>2, <1>3
    <2> HIDE DEF r
    <2> QED BY <1>1, <1>2, <1>3, <1>4, <1>7, <2>1, <2>2, SecondAnswered
  <1> QED BY <1>1, <1>6, <1>7 DEF Answer

LEMMA SkynetCannotStep ==
    ASSUME IInv, SkynetCannot
    PROVE  IInv'
  <1> DEFINE r == "UNPROCESSABLE"
  <1>1. /\ pc \in {"first", "second"} /\ order[turn] = "siaskynet" /\ Unprocessable
        /\ UNCHANGED <<order, given, data, what, count, identifier, portal, links>>
        /\ Answer(r) /\ r \in Results /\ ~Refused(r)
    BY DEF SkynetCannot, Asked, Backend, localVars, Results, Refused
  <1>2. what.skylink = Missing /\ (what = Nothing \/ data = Empty \/ ~given.keep_stored)
    BY <1>1 DEF Unprocessable, Nothing
  <1>3. /\ data' \in Data /\ what' \in Identifiers /\ Traceable'
        /\ turn \in 1..2 /\ order[1] # order[2]
    BY <1>1 DEF IInv, TypeOK, Traceable, FromUpload, OfNoData
  <1>4. CASE FirstAnswer(r)
    <2>1. pc = "first"
      BY <1>4 DEF FirstAnswer
    <2>2. given.what.skylink \in {Missing, what'.skylink}
      BY <1>1, <2>1 DEF IInv, SkylinkKept
    <2>3. ~Settles(r)
      BY DEF Settles
    <2>4. turn = 2 => Cause'
      <3> SUFFICES ASSUME turn = 2 PROVE Cause'
        OBVIOUS
      <3>1. order[1] = "digests"
        BY <1>1, <1>3 DEF IInv, TypeOK
      <3>2. data = Empty
        BY <2>1, <3>1 DEF IInv, FirstLoop
      <3>3. Cause
        BY <1>2, <3>2, NoData DEF IInv, Cause
      <3> QED BY <1>1, <3>3, CauseStays DEF IInv
    <2>5. turn = 1 => order[1] = "siaskynet" /\ what'.digests = given.what.digests
      BY <1>1, <2>1 DEF IInv, FirstLoop
    <2>6. r # "STORED_AND_VERIFIED" /\ r # "VERIFIED"
      OBVIOUS
    <2> HIDE DEF r
    <2> QED BY <1>1, <1>2, <1>3, <1>4, <2>2, <2>3, <2>4, <2>5, <2>6, FirstAnswered
  <1>5. CASE SecondAnswer(r)
    <2>1. pc = "second"
      BY <1>5 DEF SecondAnswer
    <2>2. what # Nothing
      <3>1. 1 \in 1..Algorithms
        BY Types DEF IInv
      <3>2. Nothing.digests[1] = Missing /\ Nothing.skylink = Missing
        BY <3>1 DEF Nothing
      <3>3. what.skylink # Missing \/ what.digests[1] # Missing
        BY <2>1, <3>1 DEF IInv, SecondLoop, AfterFirst
      <3> QED BY <3>2, <3>3
    <2>3. given.keep_stored => data = Empty
      BY <1>2, <2>2
    <2> QED BY <1>1, <1>2, <1>3, <1>5, <2>3, SecondAnswered
  <1> QED BY <1>1, <1>4, <1>5 DEF Answer

LEMMA UploadStep ==
    ASSUME IInv, Upload
    PROVE  IInv'
  <1>1. PICK l \in Links :
           /\ count' = IF identifier \in {Missing, l} THEN count + 1 ELSE 1
           /\ identifier' = l
           /\ links' = IF identifier = l THEN links \union {l} ELSE links
    BY DEF Upload
  <1>2. /\ pc \in {"first", "second"} /\ what.skylink = Missing /\ portal' = portal + 1
        /\ portal <= Portals /\ ~(count >= 2)
        /\ UNCHANGED <<order, given, data, what, result, pc, turn>>
    BY DEF Upload, Uploading, Asked, More, Agreed
  <1>3. l # Missing /\ Portals \in Nat
    BY StorageAssumption
  <1>4. /\ count \in 0..2 /\ portal \in 1..(Portals + 1)
        /\ (count = 0 <=> identifier = Missing) /\ (count = 2 => identifier \in links)
    BY DEF IInv, TypeOK, UploadsCounted
  <1>5. count' \in 0..2 /\ portal' \in 1..(Portals + 1) /\ UploadsCounted'
    BY <1>1, <1>2, <1>3, <1>4 DEF UploadsCounted
  <1>6. TypeOK'
    BY <1>1, <1>2, <1>5 DEF IInv, TypeOK
  <1>7. Traceable' /\ SkylinkKept' /\ FirstLoop'
    BY <1>2 DEF IInv, Traceable, OfNoData, SkylinkKept, FirstLoop
  <1>8. AfterFirst' /\ SecondLoop'
    BY <1>2 DEF IInv, AfterFirst, SecondLoop, Confirmed
  <1> QED BY <1>2, <1>5, <1>6, <1>7, <1>8 DEF IInv

LEMMA FailStep ==
    ASSUME IInv, PortalFails
    PROVE  IInv'
  <1>1. Throw /\ UNCHANGED <<order, given, data, what, localVars, links>>
    BY DEF PortalFails, UploadFails, DownloadFails
  <1>2. what' \in Identifiers /\ Traceable'
    BY <1>1 DEF IInv, TypeOK, Traceable, FromUpload, OfNoData, localVars
  <1> QED BY <1>1, <1>2, ThrowStep

\* What is uploaded is what the caller handed over.
LEMMA UploadsGiven ==
    ASSUME IInv, Uploading
    PROVE  /\ pc \in {"first", "second"} /\ what.skylink = Missing
           /\ data # Empty /\ given.data = data /\ given.keep_stored
           /\ given.what.skylink = Missing
  <1>1. /\ pc \in {"first", "second"} /\ what.skylink = Missing
        /\ what # Nothing /\ data # Empty /\ given.keep_stored
    BY DEF Uploading, Asked, Unprocessable
  <1>2. given.what.skylink = Missing
    BY <1>1 DEF IInv, SkylinkKept
  <1> QED BY <1>1, <1>2 DEF IInv, Traceable

LEMMA UploadedStep ==
    ASSUME IInv, Uploaded
    PROVE  IInv'
  <1>1. /\ Uploading
        /\ UNCHANGED <<order, given, data, count, identifier, portal, links>>
        /\ IF Agreed
           THEN what' = [what EXCEPT !.skylink = identifier] /\ UNCHANGED <<result, pc, turn>>
           ELSE Throw /\ UNCHANGED what
    BY DEF Uploaded, localVars
  <1>2. CASE ~Agreed
    <2>1. what' \in Identifiers /\ Traceable'
      BY <1>1, <1>2 DEF IInv, TypeOK, Traceable, FromUpload, OfNoData
    <2> QED BY <1>1, <1>2, <2>1, ThrowStep DEF localVars
  <1>3. CASE Agreed
    <2>1. count = 2 /\ identifier \in links /\ identifier \in Links
      BY <1>3 DEF Agreed, IInv, TypeOK, UploadsCounted
    <2>2. /\ what' \in Identifiers /\ what'.skylink = identifier /\ what'.digests = what.digests
          /\ UNCHANGED <<result, pc, turn>>
      BY <1>1, <1>3, <2>1, Types DEF IInv, TypeOK, Identifiers
    <2>3. TypeOK' /\ UploadsCounted'
      BY <1>1, <2>2 DEF IInv, TypeOK, UploadsCounted
    <2>4. Traceable'
      BY <1>1, <2>1, <2>2, UploadsGiven DEF IInv, Traceable, FromUpload, OfNoData
    <2>5. SkylinkKept'
      BY <1>1, <2>2, UploadsGiven DEF SkylinkKept
    <2>6. ~(pc = "first" /\ turn = 2 /\ order[1] = "siaskynet")
      BY <1>1 DEF Uploading, Asked, Backend, IInv
    <2>7. FirstLoop'
      BY <1>1, <2>2, <2>6 DEF IInv, TypeOK, FirstLoop
    <2>8. AfterFirst'
      BY <1>1, <2>2, UploadsGiven DEF IInv, AfterFirst
    <2>9. ~Confirmed("siaskynet")
      BY <1>1 DEF Uploading, Asked, Backend, IInv, Confirmed
    <2>10. SecondLoop'
      BY <1>1, <2>2, <2>9, UploadsGiven DEF IInv, SecondLoop, Confirmed
    <2> QED BY <1>1, <2>3, <2>4, <2>5, <2>7, <2>8, <2>10 DEF IInv
  <1> QED BY <1>2, <1>3

LEMMA DownloadDataStep ==
    ASSUME IInv, DownloadData
    PROVE  IInv'
  <1> DEFINE r == "STORED_AND_VERIFIED"
  <1>1. /\ pc \in {"first", "second"} /\ order[turn] = "siaskynet"
        /\ what.skylink # Missing /\ data = Empty /\ data' = Content[what.skylink]
        /\ UNCHANGED <<order, given, what, count, identifier, portal, links>>
        /\ Answer(r) /\ r \in Results
    BY DEF DownloadData, Downloading, Asked, Backend, localVars, Results
  <1>2. /\ given.data = Empty /\ given.what.skylink = what.skylink
        /\ turn \in 1..2 /\ order[1] # order[2]
    BY <1>1 DEF IInv, TypeOK, Traceable
  <1>3. data' \in Data /\ what' \in Identifiers
    BY <1>1, Types DEF IInv, TypeOK
  <1>4. ~given.keep_stored => Cause'
    <2>1. ~given.keep_stored => Cause
      BY <1>1, NotKept DEF IInv, Cause
    <2> QED BY <1>1, <1>2, <2>1, CauseStays DEF IInv
  <1>5. Refused(r) <=> ~given.keep_stored
    BY DEF Refused
  <1>6. CASE FirstAnswer(r)
    <2>1. pc = "first"
      BY <1>6 DEF FirstAnswer
    <2>2. turn = 2 => order[1] = "digests"
      BY <1>1, <1>2 DEF IInv, TypeOK
    <2>3. ASSUME NEW i \in 1..Algorithms, what.digests[i] # given.what.digests[i]
          PROVE  OfNoData(i)
      <3>1. turn = 2 /\ order[1] = "digests"
        BY <1>2, <2>1, <2>2, <2>3 DEF IInv, FirstLoop
      <3> QED BY <1>1, <1>2, <2>3, <3>1 DEF IInv, Traceable, OfNoData
    <2>4. Traceable'
      BY <1>1, <1>2, <2>3 DEF IInv, Traceable, OfNoData
    <2>5. turn = 1 /\ ~Settles(r) =>
             /\ order[1] = "siaskynet" /\ what'.digests = given.what.digests
             /\ data' = Empty /\ Content[what'.skylink] = Empty
      <3>1. turn = 1 => order[1] = "siaskynet" /\ what.digests = given.what.digests
        BY <1>1, <2>1 DEF IInv, FirstLoop
      <3>2. ~Settles(r) => data' = Empty
        BY DEF Settles
      <3> QED BY <1>1, <3>1, <3>2
    <2>6. r # "UNPROCESSABLE" /\ r # "VERIFIED"
      OBVIOUS
    <2> HIDE DEF r
    <2> QED BY <1>1, <1>2, <1>3, <1>4, <1>5, <1>6, <2>4, <2>5, <2>6, FirstAnswered
  <1>7. CASE SecondAnswer(r)
    <2>1. pc = "second"
      BY <1>7 DEF SecondAnswer
    <2>2. data' = data /\ Content[what.skylink] = data
      BY <1>1, <2>1 DEF IInv, AfterFirst
    <2>3. Traceable'
      BY <1>1, <2>2 DEF IInv, Traceable, FromUpload, OfNoData
    <2> QED BY <1>1, <1>3, <1>7, <2>2, <2>3, SecondAnswered
  <1> QED BY <1>1, <1>6, <1>7 DEF Answer

LEMMA CompareStep ==
    ASSUME IInv, Compare
    PROVE  IInv'
  <1> DEFINE r == IF Content[what.skylink] = data THEN "STORED_AND_VERIFIED" ELSE "INCONSISTENT"
  <1>1. /\ pc \in {"first", "second"} /\ order[turn] = "siaskynet"
        /\ what.skylink # Missing /\ data # Empty /\ data' = data
        /\ UNCHANGED <<order, given, count, identifier, portal, links>>
        /\ Answer(r) /\ r \in Results
    BY DEF Compare, Downloading, Asked, Backend, localVars, Results
  <1>2. /\ what' \in Identifiers /\ what'.digests = what.digests
        /\ what'.skylink = IF Content[what.skylink] = data THEN what.skylink ELSE Missing
    BY Types DEF Compare, IInv, TypeOK, Identifiers
  <1>3. r = "STORED_AND_VERIFIED" => what' = what
    BY DEF Compare
  <1>4. data' \in Data /\ turn \in 1..2 /\ order[1] # order[2]
    BY <1>1 DEF IInv, TypeOK
  <1>5. Traceable'
    BY <1>1, <1>2 DEF IInv, Traceable, FromUpload, OfNoData
  <1>6. Refused(r) => Cause
    <2>1. CASE Content[what.skylink] = data
      BY <1>1, <2>1, NotKept DEF IInv, Refused, Cause
    <2>2. CASE Content[what.skylink] # data
      BY <1>1, <2>2, BadSkylink DEF IInv
    <2> QED BY <2>1, <2>2
  <1>7. CASE FirstAnswer(r)
    <2>1. pc = "first"
      BY <1>7 DEF FirstAnswer
    <2>2. Settles(r)
      BY <1>1 DEF Settles
    <2>3. given.what.skylink \in {Missing, what'.skylink} \/ r = "INCONSISTENT"
      BY <1>2, <2>1 DEF IInv, SkylinkKept
    <2>4. r # "UNPROCESSABLE" /\ r # "VERIFIED"
      OBVIOUS
    <2>5. r = "STORED_AND_VERIFIED" => what'.skylink # Missing /\ Content[what'.skylink] = data'
      BY <1>1, <1>2
    <2>6. Refused(r) => Cause'
      BY <1>1, <1>2, <1>6, CauseStays DEF IInv
    <2> HIDE DEF r
    <2> QED BY <1>1, <1>2, <1>4, <1>5, <1>7, <2>2, <2>3, <2>4, <2>5, <2>6, FirstAnswered
  <1>8. CASE SecondAnswer(r)
    <2>1. ~Refused(r) => /\ r = "STORED_AND_VERIFIED" /\ Content[what.skylink] = data
                         /\ what'.skylink = what.skylink
      BY <1>2 DEF Refused
    <2> HIDE DEF r
    <2> QED BY <1>1, <1>2, <1>4, <1>5, <1>8, <2>1, SecondAnswered
  <1> QED BY <1>1, <1>7, <1>8 DEF Answer

----------------------------------------------------------------------------
(* The theorems.                                                           *)

LEMMA NextIInv == IInv /\ [Next]_vars => IInv'
  <1> SUFFICES ASSUME IInv, [Next]_vars PROVE IInv'
    OBVIOUS
  <1>1. CASE CallAgain
    BY <1>1, CallAgainStep
  <1>2. CASE Digest
    BY <1>2, DigestStep
  <1>3. CASE Skynet
    BY <1>3, SkynetCannotStep, UploadStep, UploadedStep, DownloadDataStep, CompareStep, FailStep
       DEF Skynet
  <1>4. CASE Found
    BY <1>4, FoundStep
  <1>5. CASE Finish
    BY <1>5, FinishStep
  <1>6. CASE UNCHANGED vars
    <2>1. /\ UNCHANGED <<order, given, data, what, result, pc, turn>>
          /\ UNCHANGED <<count, identifier, portal, links>>
      BY <1>6 DEF vars, localVars
    <2>2. TypeOK' /\ Traceable'
      BY <2>1 DEF IInv, TypeOK, Traceable, FromUpload, OfNoData
    <2>3. SkylinkKept' /\ UploadsCounted' /\ FirstLoop'
      BY <2>1 DEF IInv, SkylinkKept, UploadsCounted, FirstLoop
    <2>4. Cause => Cause'
      BY <2>1, CauseStays DEF IInv
    <2>5. AfterFirst' /\ SecondLoop'
      BY <2>1, <2>4 DEF IInv, AfterFirst, SecondLoop, Confirmed, Good, Refused
    <2> QED BY <2>1, <2>2, <2>3, <2>5 DEF IInv
  <1> QED BY <1>1, <1>2, <1>3, <1>4, <1>5, <1>6 DEF Next

\* The inductive invariant holds: IInv, for any data, skylinks and portals.
THEOREM InductiveInvariant == Spec => []IInv
  BY InitIInv, NextIInv, PTL DEF Spec

\* The variables have their types.
THEOREM TypeCorrect == Spec => []TypeOK
  <1>1. IInv => TypeOK
    BY DEF IInv
  <1> QED BY <1>1, InductiveInvariant, PTL

LEMMA PromiseKept == IInv => ReturnKeepsPromise
  <1> SUFFICES ASSUME IInv, pc = "returned"
               PROVE  /\ \A i \in 1..Algorithms :
                            what.digests[i] = data /\ given.what.digests[i] \in {Missing, data}
                      /\ given.data \in {Empty, data}
                      /\ given.what.skylink \in {Missing, what.skylink}
                      /\ given.keep_stored => what.skylink # Missing
                      /\ what.skylink # Missing => Content[what.skylink] = data
    BY DEF ReturnKeepsPromise
  <1>1. /\ \A i \in 1..Algorithms : what.digests[i] = data
        /\ (what.skylink # Missing => Content[what.skylink] = data)
    BY DEF IInv, SecondLoop, Confirmed
  <1>2. /\ given.data \in {Empty, data}
        /\ \A i \in 1..Algorithms : given.what.digests[i] \in {Missing, data}
    BY <1>1 DEF IInv, Traceable
  <1>3. given.what.skylink \in {Missing, what.skylink}
    BY DEF IInv, SkylinkKept
  <1>4. given.keep_stored => what.skylink # Missing
    BY DEF IInv, SecondLoop, Good, AfterFirst
  <1> QED BY <1>1, <1>2, <1>3, <1>4

\* A call that returns keeps its promise: data and identifiers agree, and data
\* that is to be kept is held under the skylink (ReturnKeepsPromise).
THEOREM ReturnKeepsPromiseHolds == Spec => []ReturnKeepsPromise
  BY PromiseKept, InductiveInvariant, PTL

\* No skylink but a given one or one two portals agreed on is ever recorded
\* (SkylinkAgreed).
THEOREM SkylinkAgreedHolds == Spec => []SkylinkAgreed
  <1>1. IInv => SkylinkAgreed
    BY DEF IInv, Traceable, FromUpload, SkylinkAgreed
  <1> QED BY <1>1, InductiveInvariant, PTL

LEMMA ThrowHasCause ==
    ASSUME IInv, Next, pc # "threw", pc' = "threw"
    PROVE  PortalFails \/ Cause
  <1> SUFFICES ASSUME ~PortalFails PROVE Cause
    OBVIOUS
  <1>1. ASSUME NEW r \in Results, Answer(r) PROVE pc = "second" /\ Refused(r)
    <2>1. ~FirstAnswer(r)
      BY DEF FirstAnswer
    <2> QED BY <1>1, <2>1 DEF Answer, SecondAnswer
  <1>2. CASE Digest
    <2> DEFINE r == IF \E i \in 1..Algorithms : Wrong(i) THEN "INCONSISTENT" ELSE "VERIFIED"
    <2>1. pc = "second" /\ Refused(r)
      BY <1>1, <1>2 DEF Digest, Results
    <2>2. PICK i \in 1..Algorithms : Wrong(i)
      BY <2>1 DEF Refused
    <2>3. data = Empty => what.skylink = Missing \/ Content[what.skylink] = Empty
      BY <2>1 DEF IInv, AfterFirst
    <2> QED BY <2>2, <2>3, BadDigests DEF IInv
  <1>3. ~SkynetCannot
    BY <1>1 DEF SkynetCannot, Refused, Results
  <1>4. ~Upload /\ ~CallAgain
    BY DEF Upload, CallAgain
  <1>5. CASE Uploaded
    <2>1. ~Agreed /\ Uploading
      BY <1>5 DEF Uploaded
    <2> QED BY <2>1, UploadsGiven DEF NotUploaded, Cause
  <1>6. CASE DownloadData
    <2>1. Refused("STORED_AND_VERIFIED") /\ what.skylink # Missing
      BY <1>1, <1>6 DEF DownloadData, Downloading, Results
    <2>2. ~given.keep_stored
      BY <2>1 DEF Refused
    <2> QED BY <2>1, <2>2, NotKept DEF IInv, Cause
  <1>7. CASE Compare
    <2>1. data # Empty /\ what.skylink # Missing
      BY <1>7 DEF Compare, Downloading
    <2>2. CASE Content[what.skylink] = data
      <3>1. Refused("STORED_AND_VERIFIED")
        BY <1>1, <1>7, <2>2 DEF Compare, Results
      <3>2. ~given.keep_stored
        BY <3>1 DEF Refused
      <3> QED BY <2>1, <3>2, NotKept DEF IInv, Cause
    <2>3. CASE Content[what.skylink] # data
      BY <2>1, <2>3, BadSkylink DEF IInv
    <2> QED BY <2>2, <2>3
  <1>8. CASE Found
    BY <1>8 DEF Found, IInv, AfterFirst
  <1>9. CASE Finish
    <2>1. pc = "end" /\ ~Good
      BY <1>9 DEF Finish
    <2>2. result = "VERIFIED" /\ given.keep_stored
      BY <2>1 DEF IInv, SecondLoop, Good
    <2>3. data = Empty /\ what.skylink = Missing
      BY <2>1, <2>2 DEF IInv, SecondLoop, Confirmed
    <2> QED BY <2>3, NoData DEF IInv, Cause
  <1> QED BY <1>2, <1>3, <1>4, <1>5, <1>6, <1>7, <1>8, <1>9 DEF Next, Skynet

\* A call fails only because a portal failed or for a cause in what the caller
\* handed over (ThrowsForACause), whatever calls were made before.
THEOREM ThrowsForACauseHolds == Spec => ThrowsForACause
  <1>1. IInv /\ [Next]_vars =>
           [pc # "threw" /\ pc' = "threw" =>
               PortalFails \/ Contradictory \/ NotToBeStored \/ NoSource \/ DigestsTooEarly
               \/ NotUploaded]_vars
    BY ThrowHasCause DEF Cause
  <1> QED BY <1>1, InductiveInvariant, PTL DEF Spec, ThrowsForACause
============================================================================
