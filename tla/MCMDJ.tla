--------------------------------- MODULE MCMDJ ---------------------------------
(* The disk the runs start from: a script of three bytes in two blocks *)
EXTENDS MDJ

DiscoConScript ==
    [f \in Nombres |-> IF f = "script" THEN Completo(3, <<0, 2>>) ELSE Ausente]
================================================================================
