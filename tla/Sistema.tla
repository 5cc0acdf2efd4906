-------------------------------- MODULE Sistema --------------------------------
(* S-AFA, its CPUs and DAM joined by their connections.  Every thread of every  *)
(* process is scheduled (weak fairness); the operator is not.                    *)
EXTENDS SAFA, CPU, DAM

CONSTANT Comandos   \* what the operator types: some of "ejecutar", "finalizar", "status"

ASSUME SistemaAssumption == Comandos \subseteq {"ejecutar", "finalizar", "status"}

vars == <<safa, cpu, red, FM9Vivo, dam>>

Init == InitRed /\ InitSAFA /\ InitCPU /\ InitDAM

Consola ==
    \/ /\ "ejecutar" \in Comandos
       /\ EjecutarSinCPU \/ \E e \in Escriptorios : Ejecutar(e)
    \/ /\ "finalizar" \in Comandos
       /\ \E i \in Ids : FinalizarEnEjecucion(i) \/ Finalizar(i) \/ FinalizarListoSinEjecucion(i)
    \/ /\ "status" \in Comandos
       /\ StatusColasCae \/ \E i \in Ids : StatusProceso(i) \/ StatusCae(i)

(* one step of one thread, by process *)
PasoSAFA(accion) == accion /\ UNCHANGED <<cpu, FM9Vivo, dam>>
PasoCPU(c) == NextCPU(c) /\ UNCHANGED <<safa, dam>>
PasoDAM(c) == NextDAM(c) /\ UNCHANGED <<safa, cpu>>

Next ==
    \/ PasoSAFA(Consola) \/ PasoSAFA(PCP) \/ PasoSAFA(EjecutarProceso)
    \/ PasoSAFA(ConexionDAM)
    \/ \E c \in CPUs : PasoSAFA(ConexionCPU(c)) \/ PasoCPU(c) \/ PasoDAM(c)

Spec == Init /\ [][Next]_vars

Fairness ==
    /\ WF_vars(PasoSAFA(PCP)) /\ WF_vars(PasoSAFA(EjecutarProceso))
    /\ WF_vars(PasoSAFA(ConexionDAM))
    /\ \A c \in CPUs : /\ WF_vars(PasoSAFA(ConexionCPU(c)))
                       /\ WF_vars(PasoCPU(c)) /\ WF_vars(PasoDAM(c))

FairSpec == Spec /\ Fairness

TypeOK == RedTypeOK /\ SAFATypeOK /\ CPUTypeOK /\ DAMVivo \in BOOLEAN /\ MDJVivo \in BOOLEAN

--------------------------------------------------------------------------------
(* Safety *)

(* The process an entry of procesos_terminados is about *)
DeTerminado(t) == IF t \in ProcesosBloqueados THEN t.proceso ELSE t

Colas == [nuevos     |-> procesos_nuevos,
          listos     |-> procesos_listos,
          bloqueados |-> procesos_bloqueados,
          terminados |-> [k \in DOMAIN procesos_terminados |-> DeTerminado(procesos_terminados[k])],
          ejecucion  |-> <<procesoEnEjecucion>>]

(* A Proceso is in at most one place: it is never twice in a queue, in two      *)
(* queues, or queued and running.  Every list_add of S-AFA must be paired with  *)
(* the removal, or the procesoEnEjecucion = NULL, of the same handler.          *)
Unicidad ==
    \A a, b \in DOMAIN Colas : \A k \in DOMAIN Colas[a], m \in DOMAIN Colas[b] :
        /\ Colas[a][k] = Colas[b][m]
        /\ Colas[a][k] # Nada
        => a = b /\ k = m

(* "PLP planifica segun FIFO": the queue of new processes is in order of id and *)
(* the ones already being loaded are the oldest ones.                           *)
CargaFIFO ==
    \A k, m \in DOMAIN procesos_nuevos : k < m =>
        /\ procesos_nuevos[k].id < procesos_nuevos[m].id
        /\ dtb[procesos_nuevos[m].id].seEstaCargando = 1
             => dtb[procesos_nuevos[k].id].seEstaCargando = 1

(* "Se reservo una CPU para el nuevo escriptorio": a process that has not        *)
(* finished keeps the CPU the console reserved for it and shares it with no other *)
(* one.  The CPU freed at the end of a script is that of the message, the process *)
(* finished the one running, so they must not be those of two living processes.  *)
NoTermino(i) == \E a \in {"nuevos", "listos", "bloqueados", "ejecucion"} :
                   \E k \in DOMAIN Colas[a] : Colas[a][k] = Real(i)
ReservaPropia ==
    \A i, j \in 1 .. Len(dtb) : NoTermino(i) /\ NoTermino(j) =>
        /\ dtb[i].socketProceso \in tieneDTBasociado
        /\ i # j => dtb[i].socketProceso # dtb[j].socketProceso

(* What sem_CPU_ejecutoUnaSentencia counts: the token in the semaphore, the      *)
(* orders on their way, the sentences being executed and the answers to them.    *)
EnCamino(ch, m) == {k \in DOMAIN ch : ch[k] \in m}
TokensEn(c) ==
    Cardinality(EnCamino(aCPU[c], {Orden}))
      + Cardinality(EnCamino(deCPU[c], Letras \ {"d"}))
      + (IF hilo[c] = "avisoB" THEN 1 ELSE 0)

(* At most one sentence is under way in the whole system, whatever the number of *)
(* CPUs: an order is sent only against the answer to the one before.             *)
UnaSentenciaPorVez ==
    /\ sem_CPU_ejecutoUnaSentencia <= 1
    /\ \A c \in CPUs : sem_CPU_ejecutoUnaSentencia + TokensEn(c) <= 1
    /\ \A c, d \in CPUs : TokensEn(c) > 0 /\ TokensEn(d) > 0 => c = d

(* With RR the running process always has between one sentence and a whole       *)
(* quantum left, however answers of several CPUs interleave.                     *)
QuantumEnRango == quantumRestante \in 1 .. Quantum

(* What "status" shows, and ejecutarProceso decides by: the state of a process is *)
(* that of the place it is in.  (A ready process still says where it came from.)  *)
EstadoCoherente ==
    /\ procesoEnEjecucion # Nada => estado[procesoEnEjecucion] = "ejecucion"
    /\ \A k \in DOMAIN procesos_bloqueados : estado[procesos_bloqueados[k]] = "bloqueado"
    /\ \A k \in DOMAIN procesos_nuevos : estado[procesos_nuevos[k]] = "nuevo"

(* The requests of process i for one of the operations ops: which message of which *)
(* connection.                                                                     *)
Pide(ch, i, ops) == {n \in DOMAIN ch : ch[n].id = i /\ ch[n].tipoOperacion \in ops}
Pedidos(i, ops) ==
    {<<"respuesta", n>> : n \in Pide(deDAM, i, ops)}
      \cup UNION {{<<"pedido", c, n>> : n \in Pide(pedidos[c], i, ops)} : c \in CPUs}
Pendiente(i) == Pedidos(i, {6, 8, 9}) # {}

(* A process asks DAM for one thing at a time: it gets no further order until the *)
(* answer to its flush, crear or borrar has been taken in.                        *)
PedidoUnico == \A i \in Ids : Cardinality(Pedidos(i, {6, 8, 9})) <= 1

(* The load of process i in progress: its dummy, ready, selected or on its way   *)
(* to the CPU, then the abrir the CPU made of it and DAM's answer.               *)
Envia(ch, p) == {k \in DOMAIN ch : ch[k] # Orden /\ ch[k].proceso = p}
Cargas(i) ==
    {<<"lista", k>> : k \in {n \in DOMAIN procesos_listos : procesos_listos[n] = Dummy(i)}}
      \cup {h \in {<<"elegida">>} : pcp = "enviar" /\ procesoEnEjecucion = Dummy(i)}
      \cup (UNION {{<<"enviada", c, k>> : k \in Envia(aCPU[c], Dummy(i))} : c \in CPUs})
      \cup Pedidos(i, {1})

(* A process is loaded once: however the console, the planners and the answers   *)
(* interleave there is at most one load of it in progress, and then it is still  *)
(* among the new ones, marked as being loaded.  (A second one would queue the    *)
(* process twice, or find it gone and kill S-AFA.)                               *)
CargaUnica ==
    \A i \in 1 .. Len(dtb) :
        /\ Cardinality(Cargas(i)) <= 1
        /\ Cargas(i) # {} => Tiene(procesos_nuevos, i) /\ dtb[i].seEstaCargando = 1

--------------------------------------------------------------------------------
(* Action properties *)

(* The ready queue is first in, first out, whoever touches it: those that stay    *)
(* keep their order, newcomers go behind them, and a process that leaves to run   *)
(* had nobody before it.                                                          *)
Lugar(s, p) == CHOOSE k \in DOMAIN s : s[k] = p
ListosFIFO ==
    [][LET antes == {procesos_listos[k] : k \in DOMAIN procesos_listos}
           ahora == {procesos_listos'[k] : k \in DOMAIN procesos_listos'}
       IN /\ \A p \in antes \cap ahora, q \in ahora :
               (q \in antes => Lugar(procesos_listos, p) < Lugar(procesos_listos, q))
                   => p = q \/ Lugar(procesos_listos', p) < Lugar(procesos_listos', q)
          /\ procesoEnEjecucion' \in antes /\ procesoEnEjecucion' # procesoEnEjecucion
               => procesoEnEjecucion' = Head(procesos_listos)]_vars

--------------------------------------------------------------------------------
(* Refinement *)

Esta(s, p) == \E k \in DOMAIN s : s[k] = p

(* Where process i is in its life, read from the queues, from seEstaCargando and  *)
(* from procesoEnEjecucion.  One that is nowhere has been lost.                   *)
Fase(i) ==
    IF i > Len(dtb) THEN "sinCrear"
    ELSE IF Esta(procesos_nuevos, Real(i))
         THEN IF dtb[i].seEstaCargando = 1 THEN "cargando" ELSE "nuevo"
    ELSE IF procesoEnEjecucion = Real(i) THEN "ejecucion"
    ELSE IF Esta(procesos_listos, Real(i)) THEN "listo"
    ELSE IF Esta(procesos_bloqueados, Real(i)) THEN "bloqueado"
    ELSE IF Esta(Colas.terminados, Real(i)) THEN "terminado" ELSE "perdido"

Fases == [i \in Ids |-> Fase(i)]

Ciclo == INSTANCE CicloDeVida WITH fase <- Fases

(* Every process lives the life CicloDeVida describes, however the answers of the *)
(* CPUs and of DAM, the planners and the console interleave: in particular no     *)
(* late answer, end of quantum or removal by id makes a process ready twice from  *)
(* its load, takes it from a queue to a place it cannot go to from there, or      *)
(* brings a finished or a lost one back.                                          *)
ImplementaCicloDeVida == Ciclo!Spec

--------------------------------------------------------------------------------
(* Liveness, under FairSpec *)

(* A process whose dummy was created stops being new: the dummy is dispatched,   *)
(* the CPU passes it on, DAM answers and S-AFA takes the answer in.  While no    *)
(* process blocks, what may keep it new is the death of S-AFA or DAM or a CPU    *)
(* lost reading an order as a process.  (A process that blocks can leave the     *)
(* next one dispatched without an order, and the dummies behind it waiting.)     *)
CargaTermina ==
    \A i \in Ids :
        (i <= Len(dtb) /\ Tiene(procesos_nuevos, i) /\ dtb[i].seEstaCargando = 1)
            ~> (\/ ~Tiene(procesos_nuevos, i) \/ caida # "no" \/ ~DAMVivo
                \/ hilo[dtb[i].socketProceso] = "colgada")

(* A blocked process whose request is still unanswered is released, to the ready *)
(* queue or as finished: the request goes through DAM and back, unless DAM dies.  *)
DesbloqueoTermina ==
    \A i \in Ids :
        (Tiene(procesos_bloqueados, i) /\ Pendiente(i))
            ~> (~Tiene(procesos_bloqueados, i) \/ caida # "no" \/ ~DAMVivo)
================================================================================
