------------------------------ MODULE MCLedger ------------------------------
(* Two outputs, one of which is smaller than the larger fee.               *)
EXTENDS Ledger, TLC

MCPaid == <<2, 5>>

\* The programs are alike.
MCSymmetry == Permutations(Programs)
============================================================================
