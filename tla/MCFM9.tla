--------------------------------- MODULE MCFM9 ---------------------------------
(* Two scripts of different lengths: a memory of seven bytes is filled exactly by *)
(* two "a" and a "b", and left with a hole too small by the other orders.         *)
EXTENDS FM9

DosLargos == [e \in Escriptorios |-> IF e = "a" THEN 2 ELSE 3]
UnaODos == [e \in Escriptorios |-> IF e = "a" THEN 1 ELSE 2]
================================================================================
