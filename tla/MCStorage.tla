----------------------------- MODULE MCStorage -----------------------------
(* Two pieces of data and a list of four portals; one skylink for each, and *)
(* one a portal gives for data it lost.                                     *)
EXTENDS Storage, TLC

CONSTANTS a, b, la, lb, le

MCContent == (la :> a) @@ (lb :> b) @@ (le :> Empty)
============================================================================
