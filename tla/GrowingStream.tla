--------------------------- MODULE GrowingStream ---------------------------
(* What a skystream promises a program that only appends to it: there is a *)
(* content that grows at its end, and a durable prefix of it that the next *)
(* start of the program continues from.  Skystream implements this module. *)
EXTENDS SequencesExt

VARIABLES
    content,    \* what can be read through the current identifiers
    durable     \* what can be read through the identifiers that were saved

vars == <<content, durable>>

Init == content = <<>> /\ durable = <<>>

\* A write: some bytes more, all of them or none.
Write == IsStrictPrefix(content, content') /\ UNCHANGED durable

\* The identifiers are saved.
Save == durable' = content /\ UNCHANGED content

\* The program stops in any way and is started again.
Restart == content' = durable /\ UNCHANGED durable

Next == Write \/ Save \/ Restart

Spec == Init /\ [][Next]_vars
============================================================================
