----------------------------- MODULE UploadLog -----------------------------
(* What a group of buffered streams promises its user about uploads, with  *)
(* none of its queues, priorities or threads: per stream a growing log.    *)
(* The user's bytes are accepted in order, they are published in order,    *)
(* nothing that was published changes, and the group closes only when      *)
(* every accepted byte is published.  BufferedUp implements this module.   *)
EXTENDS Naturals, Sequences

CONSTANTS
    Streams,    \* the streams of the group
    Bytes,      \* byte values
    Input,      \* Input[s]: everything stream s is ever given, in order
    Base        \* Base[s]: how much of it is published before the group starts

VARIABLES
    accepted,   \* accepted[s]: how many bytes of s the group has taken
    log,        \* log[s]: the published content of s
    closed      \* the group has been shut down

vars == <<accepted, log, closed>>

Init ==
    /\ accepted = Base
    /\ log = [s \in Streams |-> SubSeq(Input[s], 1, Base[s])]
    /\ closed = FALSE

\* The user hands over some more bytes of s.
Accept(s) ==
    /\ ~closed
    /\ \E n \in (accepted[s] + 1)..Len(Input[s]) :
          accepted' = [accepted EXCEPT ![s] = n]
    /\ UNCHANGED <<log, closed>>

\* Some more of the accepted bytes of s become readable by everybody.
Publish(s) ==
    /\ ~closed
    /\ \E n \in (Len(log[s]) + 1)..accepted[s] :
          log' = [log EXCEPT ![s] = SubSeq(Input[s], 1, n)]
    /\ UNCHANGED <<accepted, closed>>

\* The group closes, with nothing left behind.
Close ==
    /\ ~closed
    /\ \A s \in Streams : Len(log[s]) = accepted[s]
    /\ closed' = TRUE
    /\ UNCHANGED <<accepted, log>>

Next == Close \/ \E s \in Streams : Accept(s) \/ Publish(s)

Spec == Init /\ [][Next]_vars
============================================================================
