---------------------------------- MODULE SAFA ---------------------------------
(* S-AFA, the scheduler: the console, the long-term planner it calls, the       *)
(* short-term planner thread (PCP), the thread ejecutarProceso that hands out   *)
(* one sentence at a time, one thread per CPU and one for DAM.  None of the     *)
(* shared variables below has a lock.  A handler of a message is one step; the  *)
(* PCP and ejecutarProceso, which send and wait between reading and using       *)
(* procesoEnEjecucion, are one step per wait or send.  A dereference of NULL    *)
(* ends S-AFA: caida records where.                                             *)
EXTENDS Red

CONSTANTS Algoritmo, Quantum, Multiprogramacion

ASSUME SAFAAssumption ==
    /\ Algoritmo \in {"FIFO", "RR"}
    /\ Quantum \in Nat \ {0}
    /\ Multiprogramacion \in Nat

VARIABLES
    procesos_nuevos, procesos_listos, procesos_bloqueados, procesos_terminados,
    procesoEnEjecucion,
    dtb,                   \* dtb[i]: what planificadorLargoPlazo stored for id i
    estado,                \* estado[p]: field estado of the object p
    tieneDTBasociado,      \* the sockets of the reserved CPUs
    bloquearDT, quantumRestante, idBuscar,
    sem_replanificar, sem_procesoEnEjecucion, sem_CPU_ejecutoUnaSentencia,
    pcp,                   \* where planificadorCortoPlazo is
    ejec,                  \* where ejecutarProceso is
    caida                  \* "no", or the access that killed S-AFA

colas == <<procesos_nuevos, procesos_listos, procesos_bloqueados, procesos_terminados>>
sems == <<sem_replanificar, sem_procesoEnEjecucion, sem_CPU_ejecutoUnaSentencia>>
hilos == <<pcp, ejec>>
safa == <<colas, procesoEnEjecucion, dtb, estado, tieneDTBasociado, bloquearDT,
          quantumRestante, idBuscar, sems, hilos, caida>>

idGlobal == Len(dtb) + 1

(* A failed flush, crear or borrar queues the ProcesoBloqueado itself as finished *)
Envoltorio(p) == [proceso |-> p]
ProcesosBloqueados == {Envoltorio(p) : p \in Objetos}

Causas == {"ejecutar sin CPU libre", "dummy sin proceso en ejecucion",
           "bloqueo sin proceso en ejecucion", "fin de quantum sin proceso",
           "recursoABuscar sin memoria", "abrir de un proceso que no es nuevo",
           "respuesta para un proceso no bloqueado", "envio sin proceso",
           "despacho sin proceso", "liberarRecursos sin proceso",
           "status con un terminado NULL", "status de las colas"}

DTBs == [socketProceso : CPUs, pathEscriptorio : Escriptorios, seEstaCargando : {0, 1}]

Terminados == Objetos \cup ProcesosBloqueados \cup {Nada}

SAFATypeOK ==
    /\ procesos_nuevos \in Seq(Objetos)
    /\ procesos_listos \in Seq(Objetos)
    /\ procesos_bloqueados \in Seq(Objetos)
    /\ procesos_terminados \in Seq(Terminados)
    /\ procesoEnEjecucion \in Objetos \cup {Nada}
    /\ dtb \in Seq(DTBs)
    /\ Len(dtb) <= MaxProcesos
    /\ estado \in [Objetos -> {"nuevo", "listo", "ejecucion", "bloqueado", "finalizado"}]
    /\ tieneDTBasociado \subseteq CPUs
    /\ bloquearDT \in {0, 1}
    /\ quantumRestante \in Int
    /\ idBuscar \in Ids \cup {0}
    /\ sem_replanificar \in Nat
    /\ sem_procesoEnEjecucion \in Nat
    /\ sem_CPU_ejecutoUnaSentencia \in Nat
    /\ pcp \in {"espera", "enviar", "quitar"}
    /\ ejec \in {"espera", "condicion", "turno"}
    /\ caida \in {"no"} \cup Causas

InitSAFA ==
    /\ procesos_nuevos = <<>> /\ procesos_listos = <<>>
    /\ procesos_bloqueados = <<>> /\ procesos_terminados = <<>>
    /\ procesoEnEjecucion = Nada
    /\ dtb = <<>>
    /\ estado = [p \in Objetos |-> "nuevo"]
    /\ tieneDTBasociado = {}
    /\ bloquearDT = 0
    /\ quantumRestante = IF Algoritmo = "RR" THEN Quantum ELSE 0
    /\ idBuscar = 0
    /\ sem_replanificar = 0
    /\ sem_procesoEnEjecucion = 0
    /\ sem_CPU_ejecutoUnaSentencia = 1
    /\ pcp = "espera" /\ ejec = "espera"
    /\ caida = "no"

Caer(causa) ==
    /\ caida' = causa
    /\ UNCHANGED <<colas, procesoEnEjecucion, dtb, estado, tieneDTBasociado, bloquearDT,
                   quantumRestante, idBuscar, sems, hilos>>

(* list_find / list_remove_by_condition: the first element whose id is i *)
Posiciones(s, i) == {k \in DOMAIN s : s[k].id = i}
Tiene(s, i) == Posiciones(s, i) # {}
Primera(s, i) == CHOOSE k \in Posiciones(s, i) : \A m \in Posiciones(s, i) : k <= m
SinQuitar(s, i) == s    \* mutant: the removal is forgotten
Sin(s, i) ==
    IF Tiene(s, i)
    THEN [k \in 1 .. (Len(s) - 1) |-> s[IF k < Primera(s, i) THEN k ELSE k + 1]]
    ELSE s

(* sem_wait returns *)
DisponibleSiempre(sem) == sem >= 0    \* mutant: off by one
Disponible(sem) == sem > 0

(* procesoEnEjecucion->estado = e *)
SinCambiarEstado(e) == estado' = estado    \* mutant: forgotten
CambiarEstado(e) == estado' = [estado EXCEPT ![procesoEnEjecucion] = e]

(* the running process leaves: NULL, a whole quantum for the next one, replan *)
DesocuparSinNull ==    \* mutant: procesoEnEjecucion = NULL forgotten
    /\ procesoEnEjecucion' = procesoEnEjecucion
    /\ quantumRestante' = Quantum
    /\ sem_replanificar' = sem_replanificar + 1
DesocuparSinQuantum ==    \* mutant: quantumRestante = quantum forgotten
    /\ procesoEnEjecucion' = Nada
    /\ quantumRestante' = quantumRestante - 1
    /\ sem_replanificar' = sem_replanificar + 1
Desocupar ==
    /\ procesoEnEjecucion' = Nada
    /\ quantumRestante' = Quantum
    /\ sem_replanificar' = sem_replanificar + 1

--------------------------------------------------------------------------------
(* Console thread *)

CPULibreCualquiera == CHOOSE c \in CPUs : \A d \in CPUs : c <= d    \* mutant: reserved ones too
CPULibre == CHOOSE c \in CPUs \ tieneDTBasociado :
                \A d \in CPUs \ tieneDTBasociado : c <= d

HayLugar ==
    Len(procesos_listos) + Len(procesos_bloqueados)
        + (IF procesoEnEjecucion = Nada THEN 0 ELSE 1) < Multiprogramacion

(* the first process of the queue whose dummy has not been created yet *)
ACargarPrimero(nuevos, t) == nuevos[1].id    \* mutant: even if being loaded
ACargar(nuevos, t) ==
    nuevos[CHOOSE k \in DOMAIN nuevos :
              /\ t[nuevos[k].id].seEstaCargando # 1
              /\ \A m \in 1 .. (k - 1) : t[nuevos[m].id].seEstaCargando = 1].id

(* seEstaCargando of process i in the DTBs t *)
Cargando(t, i, v) ==
    [t EXCEPT ![i] = [socketProceso |-> t[i].socketProceso,
                      pathEscriptorio |-> t[i].pathEscriptorio, seEstaCargando |-> v]]

(* planificadorLargoPlazo queues the new process *)
NuevoAlFrente == <<Real(idGlobal)>> \o procesos_nuevos    \* mutant: before the older ones
NuevoAlFinal == Append(procesos_nuevos, Real(idGlobal))

(* console "ejecutar e": reserves a CPU, then planificadorLargoPlazo and, while *)
(* there is room, cargarProcesoEnMemoria                                        *)
Ejecutar(e) ==
    LET nuevos == NuevoAlFinal
        t == Append(dtb, [socketProceso |-> CPULibre, pathEscriptorio |-> e,
                          seEstaCargando |-> 0])
        i == ACargar(nuevos, t)
    IN /\ caida = "no" /\ idGlobal <= MaxProcesos
       /\ CPUs # tieneDTBasociado
       /\ tieneDTBasociado' = tieneDTBasociado \cup {CPULibre}
       /\ procesos_nuevos' = nuevos
       /\ \/ /\ HayLugar
             /\ dtb' = Cargando(t, i, 1)
             /\ procesos_listos' = Append(procesos_listos, Dummy(i))
             /\ estado' = [estado EXCEPT ![Dummy(i)] = "listo"]
             /\ sem_replanificar' = sem_replanificar + 1
          \/ /\ ~HayLugar
             /\ dtb' = t
             /\ UNCHANGED <<procesos_listos, estado, sem_replanificar>>
       /\ UNCHANGED <<procesos_bloqueados, procesos_terminados, procesoEnEjecucion, bloquearDT,
                      quantumRestante, idBuscar, sem_procesoEnEjecucion,
                      sem_CPU_ejecutoUnaSentencia, hilos, caida, red>>

EjecutarSinCPU ==
    /\ caida = "no" /\ idGlobal <= MaxProcesos /\ CPUs = tieneDTBasociado
    /\ Caer("ejecutar sin CPU libre") /\ UNCHANGED red

(* console "finalizar i".  procesos_bloqueados holds ProcesoBloqueado structs   *)
(* but is searched as if it held Proceso ones: what is compared with i is the   *)
(* low half of a pointer, so a blocked process is never found.                  *)
FinalizarEnEjecucion(i) ==
    /\ caida = "no"
    /\ procesoEnEjecucion \in {Real(i), Dummy(i)}
    /\ bloquearDT' = 1
    /\ UNCHANGED <<colas, procesoEnEjecucion, dtb, estado, tieneDTBasociado, quantumRestante,
                   idBuscar, sems, hilos, caida, red>>

Finalizar(i) ==
    LET enNuevos == IF Tiene(procesos_nuevos, i)
                    THEN <<procesos_nuevos[Primera(procesos_nuevos, i)]>> ELSE <<>>
        enListos == IF Tiene(procesos_listos, i)
                    THEN <<procesos_listos[Primera(procesos_listos, i)]>> ELSE <<>>
    IN /\ caida = "no"
       /\ procesoEnEjecucion \notin {Real(i), Dummy(i)}
       /\ ~(Tiene(procesos_listos, i) /\ procesoEnEjecucion = Nada)
       /\ idBuscar' = i
       /\ procesos_nuevos' = Sin(procesos_nuevos, i)
       /\ procesos_listos' = Sin(procesos_listos, i)
       /\ procesos_terminados' = procesos_terminados \o enNuevos \o enListos
       /\ UNCHANGED <<procesos_bloqueados, procesoEnEjecucion, dtb, estado, tieneDTBasociado,
                      bloquearDT, quantumRestante, sems, hilos, caida, red>>

(* liberarRecursos(procesoEnEjecucion) when the process found is in listos *)
FinalizarListoSinEjecucion(i) ==
    /\ caida = "no" /\ procesoEnEjecucion = Nada /\ Tiene(procesos_listos, i)
    /\ Caer("liberarRecursos sin proceso") /\ UNCHANGED red

(* console "status i": only shows, but searches with the shared idBuscar, and   *)
(* dereferences every element of procesos_terminados it passes                  *)
StatusLlegaANull(i) ==
    \E k \in DOMAIN procesos_terminados :
        /\ procesos_terminados[k] = Nada
        /\ \A m \in 1 .. (k - 1) : procesos_terminados[m] \notin {Real(i), Dummy(i)}

StatusProceso(i) ==
    /\ caida = "no" /\ ~StatusLlegaANull(i)
    /\ idBuscar' = i
    /\ UNCHANGED <<colas, procesoEnEjecucion, dtb, estado, tieneDTBasociado, bloquearDT,
                   quantumRestante, sems, hilos, caida, red>>

StatusCae(i) ==
    /\ caida = "no" /\ StatusLlegaANull(i)
    /\ Caer("status con un terminado NULL") /\ UNCHANGED red

(* console "status" shows every element of every queue as if it were a Proceso.  A *)
(* NULL ends S-AFA; in a ProcesoBloqueado it reads pointers that are not there and *)
(* may end it, or change nothing.                                                  *)
StatusColasCae ==
    /\ caida = "no"
    /\ \/ procesos_bloqueados # <<>>
       \/ \E k \in DOMAIN procesos_terminados : procesos_terminados[k] \notin Objetos
    /\ Caer("status de las colas") /\ UNCHANGED red

--------------------------------------------------------------------------------
(* conexionCPU: the thread that serves CPU c takes its next message *)

Llega(c, letras) == caida = "no" /\ deCPU[c] # <<>> /\ Head(deCPU[c]) \in letras
Recibido(c) == deCPU' = Consumir(deCPU, c) /\ UNCHANGED <<aCPU, pedidos, deDAM>>
CaerAlRecibir(c, causa) == Caer(causa) /\ Recibido(c)

(* 'f' or 'e'.  The CPU freed is the sender's; the process finished is whichever *)
(* one is running.  With none running the message is dropped.                    *)
FinDeScript(c) ==
    /\ Llega(c, {"f", "e"}) /\ procesoEnEjecucion # Nada
    /\ tieneDTBasociado' = tieneDTBasociado \ {c}
    /\ procesos_terminados' = Append(procesos_terminados, procesoEnEjecucion)
    /\ CambiarEstado("finalizado") /\ Desocupar
    /\ sem_CPU_ejecutoUnaSentencia' = sem_CPU_ejecutoUnaSentencia + 1
    /\ Recibido(c)
    /\ UNCHANGED <<procesos_nuevos, procesos_listos, procesos_bloqueados, dtb, bloquearDT,
                   idBuscar, sem_procesoEnEjecucion, hilos, caida>>

FinIgnorado(c) ==
    /\ Llega(c, {"f", "e"}) /\ procesoEnEjecucion = Nada
    /\ Recibido(c) /\ UNCHANGED safa

(* 'r': analizarFinEjecucionLineaProceso *)
FinDeSentencia(c) ==
    /\ Llega(c, {"r"}) /\ bloquearDT = 0 /\ quantumRestante # 1
    /\ quantumRestante' = quantumRestante - 1
    /\ sem_CPU_ejecutoUnaSentencia' = sem_CPU_ejecutoUnaSentencia + 1
    /\ Recibido(c)
    /\ UNCHANGED <<colas, procesoEnEjecucion, dtb, estado, tieneDTBasociado, bloquearDT,
                   idBuscar, sem_replanificar, sem_procesoEnEjecucion, hilos, caida>>

FinDeQuantum(c) ==
    /\ Llega(c, {"r"}) /\ bloquearDT = 0 /\ quantumRestante = 1
    /\ procesoEnEjecucion # Nada
    /\ CambiarEstado("listo")
    /\ procesos_listos' = Append(procesos_listos, procesoEnEjecucion)
    /\ Desocupar
    /\ sem_CPU_ejecutoUnaSentencia' = sem_CPU_ejecutoUnaSentencia + 1
    /\ Recibido(c)
    /\ UNCHANGED <<procesos_nuevos, procesos_bloqueados, procesos_terminados, dtb,
                   tieneDTBasociado, bloquearDT, idBuscar, sem_procesoEnEjecucion, hilos, caida>>

FinDeQuantumSinProceso(c) ==
    /\ Llega(c, {"r"}) /\ bloquearDT = 0 /\ quantumRestante = 1
    /\ procesoEnEjecucion = Nada
    /\ CaerAlRecibir(c, "fin de quantum sin proceso")

(* 'r' or 'b' after the console finalised the running process:                   *)
(* verificarSiFinalizarElProcesoEnEjecucion clears procesoEnEjecucion and then   *)
(* passes it to liberarRecursos                                                  *)
VerificarSiFinalizar(c) ==
    /\ Llega(c, {"r", "b"}) /\ bloquearDT = 1
    /\ CaerAlRecibir(c, "liberarRecursos sin proceso")

(* 'd': the CPU has passed the dummy to DAM *)
DummyEnviado(c) ==
    /\ Llega(c, {"d"}) /\ procesoEnEjecucion # Nada
    /\ CambiarEstado("bloqueado") /\ Desocupar
    /\ Recibido(c)
    /\ UNCHANGED <<colas, dtb, tieneDTBasociado, bloquearDT, idBuscar, sem_procesoEnEjecucion,
                   sem_CPU_ejecutoUnaSentencia, hilos, caida>>

DummySinProceso(c) ==
    /\ Llega(c, {"d"}) /\ procesoEnEjecucion = Nada
    /\ CaerAlRecibir(c, "dummy sin proceso en ejecucion")

(* 'b': the sentence asked DAM for something *)
Bloquear(c) ==
    /\ Llega(c, {"b"}) /\ bloquearDT = 0 /\ procesoEnEjecucion # Nada
    /\ CambiarEstado("bloqueado")
    /\ procesos_bloqueados' = Append(procesos_bloqueados, procesoEnEjecucion)
    /\ Desocupar
    /\ sem_CPU_ejecutoUnaSentencia' = sem_CPU_ejecutoUnaSentencia + 1
    /\ Recibido(c)
    /\ UNCHANGED <<procesos_nuevos, procesos_listos, procesos_terminados, dtb, tieneDTBasociado,
                   bloquearDT, idBuscar, sem_procesoEnEjecucion, hilos, caida>>

BloquearSinProceso(c) ==
    /\ Llega(c, {"b"}) /\ bloquearDT = 0 /\ procesoEnEjecucion = Nada
    /\ CaerAlRecibir(c, "bloqueo sin proceso en ejecucion")

(* 'w', 's': the resource's name is copied to recursoABuscar, a pointer nobody   *)
(* allocates, before anything else is done                                       *)
Recurso(c) ==
    /\ Llega(c, {"w", "s"})
    /\ CaerAlRecibir(c, "recursoABuscar sin memoria")

ConexionCPU(c) ==
    \/ FinDeScript(c) \/ FinIgnorado(c)
    \/ FinDeSentencia(c) \/ FinDeQuantum(c) \/ FinDeQuantumSinProceso(c)
    \/ VerificarSiFinalizar(c)
    \/ DummyEnviado(c) \/ DummySinProceso(c)
    \/ Bloquear(c) \/ BloquearSinProceso(c)
    \/ Recurso(c)

--------------------------------------------------------------------------------
(* conexionDAM: the answers to abrir (1), flush (6), crear (8) and borrar (9) *)

Respuesta(ops, resultado) ==
    /\ caida = "no" /\ deDAM # <<>>
    /\ Head(deDAM).tipoOperacion \in ops
    /\ Head(deDAM).resultado = resultado
    /\ deDAM' = Tail(deDAM) /\ UNCHANGED <<aCPU, deCPU, pedidos>>

IdRespuesta == Head(deDAM).id

(* only the process that was just queued is ready, and none is running *)
UnicoListo == Len(procesos_listos) = 0 /\ procesoEnEjecucion = Nada

AbrirOk ==
    /\ Respuesta({1}, 1) /\ Tiene(procesos_nuevos, IdRespuesta)
    /\ idBuscar' = IdRespuesta
    /\ procesos_nuevos' = Sin(procesos_nuevos, IdRespuesta)
    /\ dtb' = Cargando(dtb, IdRespuesta, 0)
    /\ procesos_listos' = Append(procesos_listos, Real(IdRespuesta))
    /\ sem_replanificar' = sem_replanificar + (IF UnicoListo THEN 1 ELSE 0)
    /\ UNCHANGED <<procesos_bloqueados, procesos_terminados, procesoEnEjecucion, estado,
                   tieneDTBasociado, bloquearDT, quantumRestante, sem_procesoEnEjecucion,
                   sem_CPU_ejecutoUnaSentencia, hilos, caida>>

AbrirMal ==
    /\ Respuesta({1}, 0) /\ Tiene(procesos_nuevos, IdRespuesta)
    /\ idBuscar' = IdRespuesta
    /\ procesos_nuevos' = Sin(procesos_nuevos, IdRespuesta)
    /\ dtb' = Cargando(dtb, IdRespuesta, 0)
    /\ procesos_terminados' = Append(procesos_terminados, Real(IdRespuesta))
    /\ UNCHANGED <<procesos_listos, procesos_bloqueados, procesoEnEjecucion, estado,
                   tieneDTBasociado, bloquearDT, quantumRestante, sems, hilos, caida>>

(* seEstaCargando is written before the NULL test that tells a dummy's abrir    *)
(* from a script's, so the branch for the script's never runs                   *)
AbrirSinNuevo ==
    /\ \E res \in {0, 1} : Respuesta({1}, res)
    /\ ~Tiene(procesos_nuevos, IdRespuesta)
    /\ Caer("abrir de un proceso que no es nuevo")

(* only crear wakes an idle S-AFA: it replans and hands the sentence token back *)
DespiertaBorrar == Head(deDAM).tipoOperacion \in {8, 9}    \* mutant: borrar does too
Despierta == Head(deDAM).tipoOperacion = 8
Despertar(hay) ==
    LET n == IF Despierta /\ hay THEN 1 ELSE 0
    IN /\ sem_replanificar' = sem_replanificar + n
       /\ sem_CPU_ejecutoUnaSentencia' = sem_CPU_ejecutoUnaSentencia + n

OperacionOk ==
    /\ Respuesta({6, 8, 9}, 1) /\ Tiene(procesos_bloqueados, IdRespuesta)
    /\ idBuscar' = IdRespuesta
    /\ procesos_bloqueados' = Sin(procesos_bloqueados, IdRespuesta)
    /\ procesos_listos' =
         Append(procesos_listos, procesos_bloqueados[Primera(procesos_bloqueados, IdRespuesta)])
    /\ Despertar(UnicoListo)
    /\ UNCHANGED <<procesos_nuevos, procesos_terminados, procesoEnEjecucion, dtb, estado,
                   tieneDTBasociado, bloquearDT, quantumRestante, sem_procesoEnEjecucion,
                   hilos, caida>>

OperacionOkSinBloqueado ==
    /\ Respuesta({6, 8, 9}, 1) /\ ~Tiene(procesos_bloqueados, IdRespuesta)
    /\ Caer("respuesta para un proceso no bloqueado")

(* a failed crear still tests whether one ready process waits with S-AFA idle *)
OperacionMal ==
    /\ Respuesta({6, 8, 9}, 0)
    /\ idBuscar' = IdRespuesta
    /\ procesos_bloqueados' = Sin(procesos_bloqueados, IdRespuesta)
    /\ procesos_terminados' = Append(procesos_terminados,
         IF Tiene(procesos_bloqueados, IdRespuesta)
         THEN Envoltorio(procesos_bloqueados[Primera(procesos_bloqueados, IdRespuesta)])
         ELSE Nada)
    /\ Despertar(Len(procesos_listos) = 1 /\ procesoEnEjecucion = Nada)
    /\ UNCHANGED <<procesos_nuevos, procesos_listos, procesoEnEjecucion, dtb, estado,
                   tieneDTBasociado, bloquearDT, quantumRestante, sem_procesoEnEjecucion,
                   hilos, caida>>

ConexionDAM ==
    \/ AbrirOk \/ AbrirMal \/ AbrirSinNuevo
    \/ OperacionOk \/ OperacionOkSinBloqueado \/ OperacionMal

--------------------------------------------------------------------------------
(* planificadorCortoPlazo *)

(* what fifo and round_robin take from the ready queue, and what they leave *)
round_robinUltimo ==    \* mutant: the last one
    <<procesos_listos[Len(procesos_listos)], SubSeq(procesos_listos, 1, Len(procesos_listos) - 1)>>
round_robin == <<Head(procesos_listos), Tail(procesos_listos)>>

PCPSeleccionar ==
    /\ caida = "no" /\ pcp = "espera" /\ Disponible(sem_replanificar)
    /\ sem_replanificar' = sem_replanificar - 1
    /\ \/ /\ procesos_listos = <<>>
          /\ UNCHANGED <<procesos_listos, procesoEnEjecucion, estado, idBuscar, pcp>>
       \/ /\ procesos_listos # <<>>
          /\ procesoEnEjecucion' = round_robin[1]
          /\ procesos_listos' = round_robin[2]
          /\ estado' = [estado EXCEPT ![round_robin[1]] = "ejecucion"]
          /\ idBuscar' = round_robin[1].id
          /\ pcp' = "enviar"
    /\ UNCHANGED <<procesos_nuevos, procesos_bloqueados, procesos_terminados, dtb,
                   tieneDTBasociado, bloquearDT, quantumRestante, sem_procesoEnEjecucion,
                   sem_CPU_ejecutoUnaSentencia, ejec, caida, red>>

PCPEnviar ==
    /\ caida = "no" /\ pcp = "enviar" /\ procesoEnEjecucion # Nada
    /\ LET d == dtb[procesoEnEjecucion.id]
       IN aCPU' = Enviar(aCPU, d.socketProceso,
                         EnvioProceso(procesoEnEjecucion, d.pathEscriptorio))
    /\ pcp' = "quitar"
    /\ UNCHANGED <<deCPU, pedidos, deDAM, colas, procesoEnEjecucion, dtb, estado,
                   tieneDTBasociado, bloquearDT, quantumRestante, idBuscar, sems, ejec, caida>>

(* the second removal looks for idBuscar, which other threads may have changed *)
PCPQuitar ==
    /\ caida = "no" /\ pcp = "quitar" /\ procesoEnEjecucion # Nada
    /\ procesos_listos' = Sin(procesos_listos, idBuscar)
    /\ sem_procesoEnEjecucion' =
         sem_procesoEnEjecucion + procesoEnEjecucion.flagInicializacion
    /\ pcp' = "espera"
    /\ UNCHANGED <<procesos_nuevos, procesos_bloqueados, procesos_terminados,
                   procesoEnEjecucion, dtb, estado, tieneDTBasociado, bloquearDT,
                   quantumRestante, idBuscar, sem_replanificar,
                   sem_CPU_ejecutoUnaSentencia, ejec, caida, red>>

PCPCae ==
    /\ caida = "no" /\ procesoEnEjecucion = Nada
    /\ \/ pcp = "enviar" /\ Caer("envio sin proceso")
       \/ pcp = "quitar" /\ Caer("despacho sin proceso")
    /\ UNCHANGED red

PCP == PCPSeleccionar \/ PCPEnviar \/ PCPQuitar \/ PCPCae

--------------------------------------------------------------------------------
(* ejecutarProceso *)

EjecDespertar ==
    /\ caida = "no" /\ ejec = "espera" /\ Disponible(sem_procesoEnEjecucion)
    /\ sem_procesoEnEjecucion' = sem_procesoEnEjecucion - 1
    /\ ejec' = "condicion"
    /\ UNCHANGED <<colas, procesoEnEjecucion, dtb, estado, tieneDTBasociado, bloquearDT,
                   quantumRestante, idBuscar, sem_replanificar,
                   sem_CPU_ejecutoUnaSentencia, pcp, caida, red>>

EjecCondicion ==
    /\ caida = "no" /\ ejec = "condicion"
    /\ ejec' = IF procesoEnEjecucion # Nada /\ estado[procesoEnEjecucion] = "ejecucion"
               THEN "turno" ELSE "espera"
    /\ UNCHANGED <<colas, procesoEnEjecucion, dtb, estado, tieneDTBasociado, bloquearDT,
                   quantumRestante, idBuscar, sems, pcp, caida, red>>

(* takes the token even when there is nobody left to give the order to *)
EjecOrdenar ==
    /\ caida = "no" /\ ejec = "turno" /\ Disponible(sem_CPU_ejecutoUnaSentencia)
    /\ sem_CPU_ejecutoUnaSentencia' = sem_CPU_ejecutoUnaSentencia - 1
    /\ \/ /\ procesoEnEjecucion # Nada
          /\ aCPU' = Enviar(aCPU, dtb[procesoEnEjecucion.id].socketProceso, Orden)
       \/ /\ procesoEnEjecucion = Nada
          /\ UNCHANGED aCPU
    /\ ejec' = "condicion"
    /\ UNCHANGED <<deCPU, pedidos, deDAM, colas, procesoEnEjecucion, dtb, estado,
                   tieneDTBasociado, bloquearDT, quantumRestante, idBuscar,
                   sem_replanificar, sem_procesoEnEjecucion, pcp, caida>>

EjecutarProceso == EjecDespertar \/ EjecCondicion \/ EjecOrdenar
================================================================================
