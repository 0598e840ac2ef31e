------------------------------ MODULE MCCommitLog ------------------------------
(* CommitLog for TLC.  Transactions are interchangeable, and so are the      *)
(* instances with and those without the projection.                          *)
EXTENDS CommitLog, TLC

Symmetry ==
    Permutations(Registered) \cup Permutations(Writers \ Registered) \cup Permutations(Ops)
================================================================================
