---------------------------- MODULE MCPortalPool ----------------------------
(* Small instances of PortalPool for TLC.                                   *)
EXTENDS PortalPool

CONSTANTS down, up

\* one worker of each kind, so that threads wait
OneEach == [k \in {down, up} |-> 1]
============================================================================
