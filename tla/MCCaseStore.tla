---------------------------- MODULE MCCaseStore -----------------------------
(* Small instances of CaseStore; threads, cases and items are interchangeable. *)
EXTENDS CaseStore, TLC

CONSTANTS t1, t2, c1, c2, i1, i2

Symmetry == Permutations({t1, t2}) \cup Permutations({c1, c2}) \cup Permutations({i1, i2})
=============================================================================
