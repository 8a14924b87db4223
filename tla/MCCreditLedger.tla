--------------------------- MODULE MCCreditLedger ---------------------------
(* Instances of CreditLedger for TLC.                                      *)
EXTENDS CreditLedgerProps, TLC

CONSTANTS MCRequests, MCConnects, MCProofs, MCResets, MCCrashes

MCBudget == [request |-> MCRequests, connect |-> MCConnects,
             proof |-> MCProofs, reset |-> MCResets, crash |-> MCCrashes]

\* Requests in flight are interchangeable.
Symmetry == Permutations(Procs)
=============================================================================
