--------------------------------- MODULE Lock ----------------------------------
(***************************************************************************)
(* What acquireFileLock promises its callers: a mutual exclusion lock      *)
(* between the contenders of all processes.  A holder leaves by releasing  *)
(* the lock or because its process is gone.                                *)
(***************************************************************************)
CONSTANT Contenders     \* calls of acquireFileLock

VARIABLE holders        \* the callers that hold the lock

LockInit == holders = {}

Acquire(c) == holders = {} /\ holders' = {c}
Leave(c)   == c \in holders /\ holders' = holders \ {c}

LockNext == \E c \in Contenders : Acquire(c) \/ Leave(c)

LockSpec == LockInit /\ [][LockNext]_holders
================================================================================
