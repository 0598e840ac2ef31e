------------------------------- MODULE AtomicLog -------------------------------
(***************************************************************************)
(* What the authority log promises its readers: a sequence of commits,     *)
(* each submitted transaction in it at most once, which only ever grows.   *)
(* A commit is the transaction it records.                                 *)
(***************************************************************************)
EXTENDS Naturals, Sequences

CONSTANT Ops

VARIABLE log

Distinct(s) == \A i, j \in 1 .. Len(s) : s[i] = s[j] => i = j

Extends(s, t) == Len(t) <= Len(s) /\ SubSeq(s, 1, Len(t)) = t

LogInit == log = << >>

\* One successful sync may make several commits durable: its own and the
\* earlier ones whose sync had failed or was never reached.
LogGrow == Extends(log', log) /\ Distinct(log')

LogSpec == LogInit /\ [][LogGrow]_log
================================================================================
