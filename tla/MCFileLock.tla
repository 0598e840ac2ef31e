------------------------------ MODULE MCFileLock -------------------------------
EXTENDS FileLock, TLC
CONSTANTS c1, c2, c3
OwnProcess == (c1 :> "p1" @@ c2 :> "p2" @@ c3 :> "p3")
================================================================================
