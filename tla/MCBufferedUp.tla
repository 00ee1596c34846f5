---------------------------- MODULE MCBufferedUp ----------------------------
(* Small instances of BufferedUp for TLC.  The bytes of a stream are its    *)
(* positions, so that every loss, repetition and swap shows.                *)
EXTENDS BufferedUp, TLC

CONSTANTS s1, s2

Positions(n) == [i \in 1..n |-> i]

MCBytes == 1..6

\* two streams, one fresh and one that continues
TwoStreams == {s1, s2}
TwoInput == (s1 :> Positions(5)) @@ (s2 :> Positions(3))
TwoBase == (s1 :> 0) @@ (s2 :> 1)

\* one stream given a single byte, so a single entry is ever made
OneStream == {s1}
TinyInput == [s \in OneStream |-> Positions(1)]
TinyBase == [s \in OneStream |-> 0]
============================================================================
