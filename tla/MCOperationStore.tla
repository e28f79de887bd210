-------------------------- MODULE MCOperationStore --------------------------
(* OperationStore for TLC: who may be confused with whom is all that       *)
(* matters of identifiers, so two of each suffice.                         *)
EXTENDS OperationStore

CONSTANTS o1, o2, r1, r2, c1, c2
=============================================================================
