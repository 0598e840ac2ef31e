--------------------------- MODULE MCRequestChannel ----------------------------
(* RequestChannel for TLC: two calls, either both from the left end or one    *)
(* from each.                                                                 *)
EXTENDS RequestChannel, TLC

CONSTANTS left, right, c1, c2

LeftFirst == (c1 :> {left}) @@ (c2 :> {left, right})
================================================================================
