------------------------------- MODULE MCDAMHilos -------------------------------
(* With a TRANSFER_SIZE of 2: "a" ends in a shorter part, "b" in a whole one *)
EXTENDS DAMHilos

TresYCuatro == [f \in Nombres |-> IF f = "a" THEN 3 ELSE 4]
================================================================================
