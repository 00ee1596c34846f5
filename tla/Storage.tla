------------------------------ MODULE Storage ------------------------------
(* storage.hpp: storage_process, and the two backends it asks.  A caller   *)
(* hands over data and identifiers of it, either of which may be missing,  *)
(* and the backends complete both or refuse.  storage_digests_openssl      *)
(* knows the digests of data, storage_siaskynet uploads it to the portals  *)
(* of a list and finds it by a skylink.                                    *)
(*                                                                         *)
(* The backends register themselves in an unordered set, so they are asked *)
(* in an order nothing in the code decides.  A digest of some data is the  *)
(* data itself here, of whatever algorithm; there are several algorithms,  *)
(* compared and recorded one after the other.  A portal may give an upload *)
(* any skylink, also one of other data, and may fail.  One call is made at *)
(* a time, and its identifiers are digests and a skylink only.             *)
EXTENDS Integers

CONSTANTS
    Contents,   \* data that is not empty
    Empty,      \* data of no bytes
    Algorithms, \* how many digests are taken of data, in this order
    Links,      \* skylinks
    Content,    \* Content[l]: what the portals hold under skylink l
    Portals,    \* how many portals the list has
    Missing     \* no such entry among the identifiers

Data == Contents \union {Empty}

ASSUME StorageAssumption ==
    /\ Empty \notin Contents
    /\ Algorithms \in Nat \ {0}
    /\ Content \in [Links -> Data]
    /\ Portals \in Nat
    /\ Missing \notin Data \union Links

VARIABLES
    order,          \* the backends, as the set iterates over them
    given,          \* what the caller handed over, and its keep_stored
    data, what,     \* storage_process's data and identifiers
    result,         \* its local result
    pc,             \* where the call is
    turn,           \* which backend it asks, from 1
    count,          \* siaskynet's locals count,
    identifier,     \* identifier,
    portal,         \* and the portal it uploads to next, from 1
    links           \* history: the skylinks two portals in a row gave

localVars == <<count, identifier, portal>>
vars == <<order, given, data, what, result, pc, turn, localVars, links>>

Results == {"STORED_AND_VERIFIED", "VERIFIED", "UNPROCESSABLE", "INCONSISTENT"}

Identifiers ==
    [digests : [1..Algorithms -> Data \union {Missing}], skylink : Links \union {Missing}]

Nothing == [digests |-> [i \in 1..Algorithms |-> Missing], skylink |-> Missing]

----------------------------------------------------------------------------
(* A call.                                                                 *)

Requests == [data : Data, what : Identifiers, keep_stored : BOOLEAN]

Init ==
    /\ order \in {<<"digests", "siaskynet">>, <<"siaskynet", "digests">>}
    /\ given \in Requests
    /\ data = given.data /\ what = given.what
    /\ result = "UNPROCESSABLE"
    /\ pc = "first"
    /\ turn = 1
    /\ count = 0 /\ identifier = Missing /\ portal = 1
    /\ links = {}

\* The caller calls again with the identifiers it has now, which a call that
\* threw may have changed, with the data or to get the data.
CallAgain ==
    /\ pc \in {"returned", "threw"}
    /\ \E d \in {given.data, Empty} : given' = [given EXCEPT !.data = d, !.what = what]
    /\ data' = given'.data
    /\ result' = "UNPROCESSABLE"
    /\ pc' = "first"
    /\ turn' = 1
    /\ count' = 0 /\ identifier' = Missing /\ portal' = 1
    /\ UNCHANGED <<order, what, links>>

Backend == order[turn]

Asked(backend) == pc \in {"first", "second"} /\ Backend = backend

Throw == pc' = "threw" /\ UNCHANGED <<result, turn>>

\* process_result_propagate: what it makes of the result of one backend
Refused(r) == r = "INCONSISTENT" \/ (r = "STORED_AND_VERIFIED" /\ ~given.keep_stored)

Propagated(r) ==
    CASE r = "UNPROCESSABLE" -> result
      [] r = "VERIFIED" -> IF result = "UNPROCESSABLE" THEN "VERIFIED" ELSE result
      [] OTHER -> r

\* a wrong variant: a result ends the first loop though there is no data yet
SettlesWithoutData(r) == r # "UNPROCESSABLE"

\* does a result end the first loop?
Settles(r) == r # "UNPROCESSABLE" /\ data' # Empty

\* A backend returns r, in the first loop,
FirstAnswer(r) ==
    /\ pc = "first"
    /\ result' = r
    /\ IF Settles(r) \/ turn = 2
       THEN pc' = "found" /\ turn' = 1
       ELSE pc' = pc /\ turn' = turn + 1

\* or in the second.
SecondAnswer(r) ==
    /\ pc = "second"
    /\ IF Refused(r) THEN Throw
       ELSE /\ result' = Propagated(r)
            /\ IF turn = 2 THEN pc' = "end" /\ turn' = 1 ELSE pc' = pc /\ turn' = turn + 1

Answer(r) == FirstAnswer(r) \/ SecondAnswer(r)

\* Between the loops.
Found ==
    /\ pc = "found"
    /\ IF result = "UNPROCESSABLE" \/ Refused(result) THEN Throw
       ELSE pc' = "second" /\ UNCHANGED <<result, turn>>
    /\ UNCHANGED <<order, given, data, what, localVars, links>>

\* a wrong variant: data that is only verified will do
Sufficient == result # "UNPROCESSABLE"

\* the last switch
Good == result = "STORED_AND_VERIFIED" \/ (result = "VERIFIED" /\ ~given.keep_stored)

Finish ==
    /\ pc = "end"
    /\ pc' = IF Good THEN "returned" ELSE "threw"
    /\ UNCHANGED <<order, given, data, what, result, turn, localVars, links>>

----------------------------------------------------------------------------
(* storage_digests_openssl.                                                *)

\* a digest that is there and of other data
Wrong(i) == what.digests[i] \notin {Missing, data}

\* The algorithms are gone through in order, up to the first wrong digest.
Taken(i) == \A j \in 1..i : ~Wrong(j)

\* The missing digests are recorded on the way, also those before a wrong one.
Digest ==
    /\ Asked("digests")
    /\ what' = [what EXCEPT !.digests =
                   [i \in 1..Algorithms |-> IF Taken(i) THEN data ELSE @[i]]]
    /\ UNCHANGED data
    /\ Answer(IF \E i \in 1..Algorithms : Wrong(i) THEN "INCONSISTENT" ELSE "VERIFIED")
    /\ UNCHANGED <<order, given, localVars, links>>

----------------------------------------------------------------------------
(* storage_siaskynet.                                                      *)

Unprocessable ==
    \/ what = Nothing
    \/ what.skylink = Missing /\ (data = Empty \/ ~given.keep_stored)

SkynetCannot ==
    /\ Asked("siaskynet")
    /\ Unprocessable
    /\ UNCHANGED <<data, what>>
    /\ Answer("UNPROCESSABLE")
    /\ UNCHANGED <<order, given, localVars, links>>

Uploading == Asked("siaskynet") /\ ~Unprocessable /\ what.skylink = Missing

\* a wrong variant: one portal is enough
OnePortal == count >= 1

\* two portals in a row gave the same skylink
Agreed == count >= 2

\* a wrong variant: the loop does not end when two agree
WholeList == portal <= Portals

\* is there a portal to upload to?
More == portal <= Portals /\ ~Agreed

\* The next portal gives a skylink,
Upload ==
    /\ Uploading
    /\ More
    /\ \E l \in Links :
          /\ count' = IF identifier \in {Missing, l} THEN count + 1 ELSE 1
          /\ identifier' = l
          /\ links' = IF identifier = l THEN links \union {l} ELSE links
    /\ portal' = portal + 1
    /\ UNCHANGED <<order, given, data, what, result, pc, turn>>

\* or fails.
UploadFails ==
    /\ Uploading
    /\ More
    /\ Throw
    /\ UNCHANGED <<order, given, data, what, localVars, links>>

\* The loop is over.
Uploaded ==
    /\ Uploading
    /\ ~More
    /\ IF Agreed
       THEN what' = [what EXCEPT !.skylink = identifier] /\ UNCHANGED <<result, pc, turn>>
       ELSE Throw /\ UNCHANGED what
    /\ UNCHANGED <<order, given, data, localVars, links>>

Downloading == Asked("siaskynet") /\ what.skylink # Missing

DownloadFails ==
    /\ Downloading
    /\ Throw
    /\ UNCHANGED <<order, given, data, what, localVars, links>>

\* There was no data: it is what the portals hold.
DownloadData ==
    /\ Downloading
    /\ data = Empty
    /\ data' = Content[what.skylink]
    /\ UNCHANGED what
    /\ Answer("STORED_AND_VERIFIED")
    /\ UNCHANGED <<order, given, localVars, links>>

\* The data is compared, and a skylink of other data forgotten.
Compare ==
    /\ Downloading
    /\ data # Empty
    /\ UNCHANGED data
    /\ IF Content[what.skylink] = data
       THEN Answer("STORED_AND_VERIFIED") /\ UNCHANGED what
       ELSE Answer("INCONSISTENT") /\ what' = [what EXCEPT !.skylink = Missing]
    /\ UNCHANGED <<order, given, localVars, links>>

----------------------------------------------------------------------------
PortalFails == UploadFails \/ DownloadFails

Skynet == SkynetCannot \/ Upload \/ Uploaded \/ DownloadData \/ Compare \/ PortalFails

Next == CallAgain \/ Digest \/ Skynet \/ Found \/ Finish

Spec == Init /\ [][Next]_vars

----------------------------------------------------------------------------
(* Properties.                                                             *)

\* The variables have their types: in particular no portal is asked after two
\* agree.
TypeOK ==
    /\ order \in [1..2 -> {"digests", "siaskynet"}]
    /\ given \in Requests
    /\ data \in Data /\ what \in Identifiers
    /\ result \in Results
    /\ pc \in {"first", "found", "second", "end", "returned", "threw"}
    /\ turn \in 1..2
    /\ count \in 0..2
    /\ identifier \in Links \union {Missing}
    /\ portal \in 1..(Portals + 1)
    /\ links \subseteq Links

\* A call that returns leaves data and identifiers that agree with each other
\* and with all the caller gave, and, if it was asked to keep the data, a
\* skylink under which the portals hold it: in either order of the backends,
\* whatever the portals answered and whatever calls were made before
\* (storage.hpp:15-16).
ReturnKeepsPromise ==
    pc = "returned" =>
        /\ \A i \in 1..Algorithms : /\ what.digests[i] = data
                                    /\ given.what.digests[i] \in {Missing, data}
        /\ given.data \in {Empty, data}
        /\ given.what.skylink \in {Missing, what.skylink}
        /\ given.keep_stored => what.skylink # Missing
        /\ what.skylink # Missing => Content[what.skylink] = data

\* The identifiers never name a skylink that was neither given nor confirmed
\* by a second portal, not even after a call that failed half-way
\* (storage_siaskynet.cpp:29-46).
SkylinkAgreed == what.skylink \in {Missing, given.what.skylink} \union links

\* what the caller said the data is
Claims ==
    ({given.data} \ {Empty}) \union
    ({given.what.digests[i] : i \in 1..Algorithms} \ {Missing}) \union
    (IF given.what.skylink = Missing THEN {} ELSE {Content[given.what.skylink]})

\* The causes for which a call may fail.
Contradictory == \E x, y \in Claims : x # y

NotToBeStored == ~given.keep_stored /\ given.what.skylink # Missing

NoSource == given.data = Empty /\ given.what.skylink = Missing

\* a digest nobody gave is that of no data, taken before there was any
OfNoData(i) ==
    /\ order[1] = "digests" /\ given.data = Empty
    /\ given.what.digests[i] = Missing /\ what.digests[i] = Empty

\* Data arrived after a digest of no data was recorded, also when only some of
\* the digests were missing.
DigestsTooEarly == data # Empty /\ \E i \in 1..Algorithms : OfNoData(i)

\* the portals do not agree, or agree on a skylink of other data
NotUploaded ==
    /\ given.what.skylink = Missing
    /\ given.data # Empty /\ given.keep_stored
    /\ ~Agreed \/ Content[identifier] # data

\* A call fails for one of these causes only.  In particular data that was
\* stored is found again by all its identifiers together unless a portal fails,
\* and a store that failed can be repeated with those it left behind.
ThrowsForACause ==
    [][pc # "threw" /\ pc' = "threw" =>
           PortalFails \/ Contradictory \/ NotToBeStored \/ NoSource \/ DigestsTooEarly
           \/ NotUploaded]_vars

----------------------------------------------------------------------------
(* The inductive invariant behind these properties.                        *)

Cause == Contradictory \/ NotToBeStored \/ NoSource \/ DigestsTooEarly \/ NotUploaded

\* the skylink is one this call got from the portals
FromUpload ==
    /\ what.skylink = identifier
    /\ identifier \in links
    /\ given.what.skylink = Missing
    /\ data # Empty /\ given.data = data
    /\ given.keep_stored

\* Where data and identifiers come from, at any point of a call.
Traceable ==
    /\ data = Empty => given.data = Empty /\ what.skylink = given.what.skylink
    /\ data # Empty => \/ given.data = data
                       \/ /\ given.data = Empty /\ given.what.skylink # Missing
                          /\ data = Content[given.what.skylink]
    /\ \A i \in 1..Algorithms :
          /\ given.what.digests[i] \in {Missing, what.digests[i]}
          /\ what.digests[i] \in {given.what.digests[i], data} \/ OfNoData(i)
    /\ what.skylink \in {Missing, given.what.skylink} \/ FromUpload

\* The skylink that was given is forgotten only by a call that fails.
SkylinkKept ==
    pc # "threw" /\ ~(pc = "found" /\ result = "INCONSISTENT") =>
        given.what.skylink \in {Missing, what.skylink}

UploadsCounted ==
    /\ count = 0 <=> identifier = Missing
    /\ count = 2 => identifier \in links

\* After the first backend of the first loop: it could not settle the matter.
FirstLoop ==
    pc = "first" =>
        /\ turn = 1 \/ order[1] = "siaskynet" => what.digests = given.what.digests
        /\ turn = 2 /\ order[1] = "digests" => data = Empty
        /\ turn = 2 /\ order[1] = "siaskynet" =>
              what.skylink = Missing \/ (data = Empty /\ Content[what.skylink] = Empty)

\* After the first loop: what its result says, and why it is a bad one.
AfterFirst ==
    pc \in {"found", "second", "end", "returned"} =>
        /\ data = Empty => what.skylink = Missing \/ Content[what.skylink] = Empty
        /\ result = "STORED_AND_VERIFIED" =>
              what.skylink # Missing /\ Content[what.skylink] = data
        /\ result = "VERIFIED" => \A i \in 1..Algorithms : what.digests[i] # Missing
        /\ pc = "found" => turn = 1
        /\ pc = "found" /\ (result = "UNPROCESSABLE" \/ Refused(result)) => Cause

\* the second loop has asked the backend
Confirmed(backend) ==
    pc \in {"end", "returned"} \/ (pc = "second" /\ turn = 2 /\ order[1] = backend)

\* What a backend has confirmed stays as it is.
SecondLoop ==
    /\ pc \in {"second", "end"} => result \in {"VERIFIED", "STORED_AND_VERIFIED"}
    /\ Confirmed("digests") => \A i \in 1..Algorithms : what.digests[i] = data
    /\ Confirmed("siaskynet") =>
          /\ what.skylink # Missing => Content[what.skylink] = data
          /\ given.keep_stored =>
                result = "STORED_AND_VERIFIED" \/ (data = Empty /\ what.skylink = Missing)
    /\ pc = "returned" => Good

IInv ==
    /\ TypeOK
    /\ order[1] # order[2]
    /\ Traceable
    /\ SkylinkKept
    /\ UploadsCounted
    /\ FirstLoop
    /\ AfterFirst
    /\ SecondLoop
============================================================================
