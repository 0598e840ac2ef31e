--------------------------- MODULE MCDeviceCapacity ----------------------------
(* DeviceCapacity for TLC: a workload and a read that borrows its slot, and   *)
(* two requests of another class and of the same.                             *)
EXTENDS DeviceCapacity, TLC

CONSTANTS w, k, b, f

TwoClasses == <<"front", "back">>
ClassOf    == (w :> "front") @@ (k :> "front") @@ (b :> "back") @@ (f :> "front")

Budget(slots, space, io) == [slots |-> slots, space |-> space, quanta |-> io]
Needs == (w :> Budget(1, 0, 0)) @@ (k :> Budget(0, 0, 1)) @@ (b :> Budget(1, 1, 1)) @@ (f :> Budget(1, 0, 1))
Likes == (w :> Budget(1, 1, 0)) @@ (k :> Budget(0, 0, 1)) @@ (b :> Budget(1, 1, 2)) @@ (f :> Budget(2, 0, 1))
================================================================================
