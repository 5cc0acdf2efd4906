------------------------------ MODULE Afirmaciones ------------------------------
(* What the comments and the log messages of the code say of the system and the *)
(* code does not do.  Each one is refuted by a run of its own.                   *)
EXTENDS Sistema

(* S-AFA.c:706 "esperando semaforo de que la CPU ejecuto una sentencia": an order *)
(* is given only when the sentence before has been executed, crear included.     *)
EsperaLaSentencia ==
    [][ejec = "turno" /\ ejec' = "condicion" => \A c \in CPUs : TokensEn(c) = 0]_vars

(* S-AFA.c:348 "Operacion crear no se pudo realizar correctamente.. enviando     *)
(* proceso a cola de exit": what a failed operation adds to the finished queue   *)
(* is the process.  It is NULL when the answer overtakes the 'b' of the process, *)
(* which then blocks with nobody left to release it.                             *)
FallidaVaAExit ==
    [][Len(procesos_terminados') > Len(procesos_terminados) =>
          procesos_terminados'[Len(procesos_terminados')] # Nada]_vars

(* S-AFA.c:692 "para que habilite al hilo que ejecuta el proceso a seguir" and   *)
(* S-AFA.c:709 "este habilita a la cpu para que ejecute 1 sentencia": a process  *)
(* that is dispatched is given an order.  ejecutarProceso may have spent the     *)
(* token while no process was running, and then it waits for another for ever.   *)
Averiada(c) == hilo[c] \in {"colgada", "muerta"}
DespachadoRecibeOrden ==
    \A i \in Ids : procesoEnEjecucion = Real(i) ~>
        \/ procesoEnEjecucion # Real(i) \/ caida # "no"
        \/ \E c \in CPUs : TokensEn(c) > 0 \/ Averiada(c)
================================================================================
