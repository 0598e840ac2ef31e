-------------------------- MODULE MCDeliveryPipeline ---------------------------
(* DeliveryPipeline on one or two items. *)
EXTENDS DeliveryPipeline, TLC

NoDelays == [k \in 0 .. MaxAttempts |-> 0]
SameRank == [i \in Items |-> 1]
Symmetry == Permutations(Items) \cup Permutations(Ops)
TwoRanks == [i \in Items |-> IF i = CHOOSE j \in Items : TRUE THEN 0 ELSE 1]
=============================================================================
