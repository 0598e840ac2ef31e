---------------------------- MODULE MCDeliveryOrder ----------------------------
(* DeliveryOrder for two turns; the task of the first one is urgent. *)
EXTENDS DeliveryOrder, TLC

CONSTANTS r1, f1, r2, f2, s1, s2

Replies == s1 :> r1 @@ s2 :> r2
Fires   == s1 :> f1 @@ s2 :> f2
Urgent  == [e \in Entries |-> IF e = f1 THEN 0 ELSE 1]
=============================================================================
