---------------------------- MODULE MCAuditTrail ----------------------------
(* Model-checking instances of AuditTrail.                                 *)
EXTENDS AuditTrail, TLC

CONSTANTS w1, w2, old, new

\* Writers are interchangeable.
WriterSymmetry == Permutations(Writers)
=============================================================================
