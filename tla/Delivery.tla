------------------------------ MODULE Delivery ------------------------------
(* What the download side of a group of buffered streams promises its      *)
(* caller: the bytes of the stream that were asked for, from the first on, *)
(* in one or more parts, none of them empty.  BufferedDown implements it.  *)
EXTENDS SequencesExt

VARIABLES
    wanted,     \* the bytes asked for
    output,     \* the bytes handed out
    finished    \* has the caller got all and left?

vars == <<wanted, output, finished>>

Init == output = <<>> /\ finished = FALSE

\* some bytes more
Deliver ==
    /\ ~finished
    /\ IsStrictPrefix(output, output')
    /\ IsPrefix(output', wanted)
    /\ UNCHANGED <<wanted, finished>>

\* The caller goes when it has what it asked for.
Finish ==
    /\ output = wanted
    /\ finished' = TRUE
    /\ UNCHANGED <<wanted, output>>

Next == Deliver \/ Finish

Spec == Init /\ [][Next]_vars
============================================================================
