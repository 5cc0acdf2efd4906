------------------------------ MODULE CicloDeVida ------------------------------
(* What S-AFA promises of the life of a process, whatever the queues, the        *)
(* dummies, the CPUs and DAM do: it is created after those before it, loaded     *)
(* after the ones that wait since before, made ready once, dispatched only from  *)
(* ready, and released only from blocked.  One runs at a time.  A process may be *)
(* lost, ready or running; a process lost or finished never comes back.          *)
EXTENDS Naturals

CONSTANT MaxProcesos

VARIABLE fase    \* fase[i]: where process i is in its life

Procesos == 1 .. MaxProcesos

Init == fase = [i \in Procesos |-> "sinCrear"]

Pasa(i, de, a) == fase[i] = de /\ fase' = [fase EXCEPT ![i] = a]

(* The next process is created and, if there is room, the oldest one that waits  *)
(* is loaded.                                                                     *)
Creado(i) == [fase EXCEPT ![i] = "nuevo"]
MasAntiguo(f, k) == f[k] = "nuevo" /\ \A j \in Procesos : j < k => f[j] # "nuevo"

Crear(i) ==
    /\ fase[i] = "sinCrear"
    /\ \A j \in Procesos : j < i => fase[j] # "sinCrear"
    /\ \/ fase' = Creado(i)
       \/ \E k \in Procesos :
             /\ MasAntiguo(Creado(i), k)
             /\ fase' = [Creado(i) EXCEPT ![k] = "cargando"]

Cargado(i) == Pasa(i, "cargando", "listo")

(* The one that was running, if any, is forgotten. *)
Despachar(i) ==
    /\ fase[i] = "listo"
    /\ fase' = [j \in Procesos |->
                  IF j = i THEN "ejecucion"
                  ELSE IF fase[j] = "ejecucion" THEN "perdido" ELSE fase[j]]

Desalojar(i) == Pasa(i, "ejecucion", "listo")
Bloquear(i) == Pasa(i, "ejecucion", "bloqueado")
Desbloquear(i) == Pasa(i, "bloqueado", "listo")
Perder(i) == \E de \in {"listo", "ejecucion"} : Pasa(i, de, "perdido")
Terminar(i) ==
    \E de \in {"nuevo", "cargando", "listo", "ejecucion", "bloqueado"} :
        Pasa(i, de, "terminado")

Next ==
    \E i \in Procesos :
        \/ Crear(i) \/ Cargado(i) \/ Despachar(i) \/ Desalojar(i)
        \/ Bloquear(i) \/ Desbloquear(i) \/ Perder(i) \/ Terminar(i)

Spec == Init /\ [][Next]_fase
================================================================================
