---------------------------- MODULE Sistema_proofs ----------------------------
(* Proofs about S-AFA, the CPUs and DAM together, for every number of CPUs and of *)
(* processes, every workload and every command the operator may type.             *)
EXTENDS Sistema, SequenceTheorems, WellFoundedInduction, TLAPS

(* A set of natural numbers that is not empty has a least one. *)
LEMMA Minimo ==
    ASSUME NEW T, T \subseteq Nat, T # {}
    PROVE  \E x \in T : \A y \in T : x <= y
  <1>1. PICK x \in T : \A y \in T : ~(<<y, x>> \in OpToRel(<, Nat))
    BY NatLessThanWellFounded, WFMin
  <1>2. ASSUME NEW y \in T PROVE x <= y
    <2>1. ~(y < x)
      BY <1>1 DEF OpToRel
    <2> QED
      BY <2>1
  <1> QED
    BY <1>2

(* Removing the first element with an id leaves a queue of the same things. *)
LEMMA SinTipo ==
    ASSUME NEW S, NEW s \in Seq(S), NEW i
    PROVE  Sin(s, i) \in Seq(S)
  <1>1. CASE Tiene(s, i)
    <2> DEFINE f == [k \in 1 .. (Len(s) - 1) |-> s[IF k < Primera(s, i) THEN k ELSE k + 1]]
    <2>1. Len(s) \in Nat /\ DOMAIN s = 1 .. Len(s) /\ \A k \in 1 .. Len(s) : s[k] \in S
      BY LenProperties, ElementOfSeq
    <2>2. PICK j \in 1 .. Len(s) : TRUE
      BY <1>1, <2>1 DEF Tiene, Posiciones
    <2>3. Len(s) - 1 \in Nat
      BY <2>1, <2>2
    <2>4. \A k \in 1 .. (Len(s) - 1) : k \in 1 .. Len(s) /\ k + 1 \in 1 .. Len(s)
      BY <2>1
    <2>5. f \in [1 .. (Len(s) - 1) -> S]
      BY <2>1, <2>4
    <2>6. f \in Seq(S)
      BY <2>3, <2>5, SeqDef
    <2> QED
      BY <1>1, <2>6 DEF Sin
  <1>2. CASE ~Tiene(s, i)
    BY <1>2 DEF Sin
  <1> QED
    BY <1>1, <1>2

(* The first element with an id, when there is one. *)
LEMMA PrimeraEsta ==
    ASSUME NEW S, NEW s \in Seq(S), NEW i, Tiene(s, i)
    PROVE  /\ Primera(s, i) \in 1 .. Len(s) /\ Primera(s, i) \in DOMAIN s
           /\ s[Primera(s, i)] \in S /\ s[Primera(s, i)].id = i
  <1>1. Len(s) \in Nat /\ DOMAIN s = 1 .. Len(s)
    BY LenProperties
  <1>2. Posiciones(s, i) \subseteq Nat /\ Posiciones(s, i) # {}
    BY <1>1 DEF Posiciones, Tiene
  <1>3. \E k \in Posiciones(s, i) : \A m \in Posiciones(s, i) : k <= m
    BY <1>2, Minimo
  <1>4. Primera(s, i) \in Posiciones(s, i)
    BY <1>3 DEF Primera
  <1> QED
    BY <1>1, <1>4, ElementOfSeq DEF Posiciones

(* Sending on a connection and taking from it. *)
LEMMA EnviarTipo ==
    ASSUME NEW M, NEW ch \in [CPUs -> Seq(M)], NEW c \in CPUs, NEW m \in M
    PROVE  Enviar(ch, c, m) \in [CPUs -> Seq(M)]
  <1>1. Append(ch[c], m) \in Seq(M)
    BY AppendProperties
  <1> QED
    BY <1>1 DEF Enviar

LEMMA ConsumirTipo ==
    ASSUME NEW M, NEW ch \in [CPUs -> Seq(M)], NEW c \in CPUs, ch[c] # <<>>
    PROVE  Consumir(ch, c) \in [CPUs -> Seq(M)] /\ Head(ch[c]) \in M
  <1>1. Tail(ch[c]) \in Seq(M) /\ Head(ch[c]) \in M
    BY HeadTailProperties
  <1> QED
    BY <1>1 DEF Consumir

--------------------------------------------------------------------------------
(* The inductive invariant: the types; everything S-AFA queues or runs is a        *)
(* process already created; a CPU that runs a script has a DTB.                     *)

Creados(n) == {p \in Objetos : p.id <= n}
Creacion ==
    /\ procesos_nuevos \in Seq(Creados(Len(dtb)))
    /\ procesos_listos \in Seq(Creados(Len(dtb)))
    /\ procesos_bloqueados \in Seq(Creados(Len(dtb)))
    /\ procesoEnEjecucion \in Creados(Len(dtb)) \cup {Nada}

EnEjecucion == [proceso : Objetos, escriptorio : Escriptorios]
ConDTB == \A c \in CPUs : hilo[c] \in {"orden", "avisoB"} => DTB[c] \in EnEjecucion

TipoInductivo == TypeOK /\ Creacion /\ ConDTB

LEMMA CreadosObjetos ==
    ASSUME NEW n \in Nat
    PROVE  /\ Creados(n) \subseteq Objetos
           /\ Seq(Creados(n)) \subseteq Seq(Objetos)
           /\ Nada \notin Creados(n) /\ Nada \notin Objetos
           /\ \A p \in Creados(n) : p.id \in 1 .. n
  <1>1. Creados(n) \subseteq Objetos
    BY DEF Creados
  <1>2. Ids \subseteq Nat
    BY DEF Ids
  <1>3. Nada \notin Objetos
    BY <1>2, RedAssumption DEF Objetos
  <1>4. \A p \in Creados(n) : p.id \in 1 .. n
    BY RedAssumption DEF Creados, Objetos, Ids
  <1> QED
    BY <1>1, <1>3, <1>4, SeqMonotonic

(* The DTB of a process created. *)
LEMMA DTBCreado ==
    ASSUME SAFATypeOK
    PROVE  /\ Len(dtb) \in Nat /\ DOMAIN dtb = 1 .. Len(dtb)
           /\ \A i \in 1 .. Len(dtb) :
                 /\ dtb[i] \in DTBs
                 /\ dtb[i].socketProceso \in CPUs /\ dtb[i].pathEscriptorio \in Escriptorios
  <1>1. dtb \in Seq(DTBs)
    BY DEF SAFATypeOK
  <1>2. \A i \in 1 .. Len(dtb) : dtb[i] \in DTBs
    BY <1>1, ElementOfSeq
  <1> QED
    BY <1>1, <1>2, LenProperties DEF DTBs

LEMMA CargandoTipo ==
    ASSUME NEW t \in Seq(DTBs), NEW i \in 1 .. Len(t), NEW v \in {0, 1}
    PROVE  Cargando(t, i, v) \in Seq(DTBs) /\ Len(Cargando(t, i, v)) = Len(t)
  <1>1. t[i] \in DTBs
    BY ElementOfSeq
  <1> DEFINE d == [socketProceso |-> t[i].socketProceso,
                   pathEscriptorio |-> t[i].pathEscriptorio, seEstaCargando |-> v]
  <1>2. d \in DTBs
    BY <1>1 DEF DTBs
  <1>3. Cargando(t, i, v) = [t EXCEPT ![i] = d]
    BY DEF Cargando
  <1> HIDE DEF d
  <1> QED
    BY <1>2, <1>3, ExceptSeq

(* What a creation says of what S-AFA holds. *)
LEMMA CreacionObjetos ==
    ASSUME SAFATypeOK, Creacion
    PROVE  /\ Len(dtb) \in Nat /\ Creados(Len(dtb)) \subseteq Objetos
           /\ procesoEnEjecucion # Nada =>
                /\ procesoEnEjecucion \in Creados(Len(dtb))
                /\ procesoEnEjecucion \in Objetos
                /\ procesoEnEjecucion.id \in 1 .. Len(dtb)
  BY DTBCreado, CreadosObjetos DEF Creacion

(* A step that creates nobody keeps the types of the queues with Creacion. *)
LEMMA ColasTipo ==
    ASSUME SAFATypeOK, Creacion', Len(dtb') = Len(dtb)
    PROVE  /\ procesos_nuevos' \in Seq(Objetos) /\ procesos_listos' \in Seq(Objetos)
           /\ procesos_bloqueados' \in Seq(Objetos)
           /\ procesoEnEjecucion' \in Objetos \cup {Nada}
  BY DTBCreado, CreadosObjetos DEF Creacion

--------------------------------------------------------------------------------
(* S-AFA dies *)

LEMMA CaerTipo ==
    ASSUME SAFATypeOK, Creacion, NEW causa \in Causas, Caer(causa)
    PROVE  SAFATypeOK' /\ Creacion'
  BY DEF SAFATypeOK, Creacion, Caer, colas, sems, hilos

(* The short-term planner *)

LEMMA PCPTipo ==
    ASSUME TipoInductivo, PCP, UNCHANGED FM9Vivo
    PROVE  SAFATypeOK' /\ Creacion' /\ RedTypeOK'
  <1> USE DEF TipoInductivo, TypeOK
  <1> DEFINE n == Len(dtb)
  <1>0. n \in Nat /\ Creados(n) \subseteq Objetos
    BY CreacionObjetos
  <1>1. CASE PCPSeleccionar
    <2>1. /\ UNCHANGED <<procesos_nuevos, procesos_bloqueados, procesos_terminados, dtb,
                   tieneDTBasociado, bloquearDT, quantumRestante, sem_procesoEnEjecucion,
                   sem_CPU_ejecutoUnaSentencia, ejec, caida, red>>
          /\ sem_replanificar \in Nat /\ sem_replanificar > 0
          /\ sem_replanificar' = sem_replanificar - 1
      BY <1>1 DEF PCPSeleccionar, SAFATypeOK, Disponible
    <2>2. CASE procesos_listos # <<>>
      <3> DEFINE p == Head(procesos_listos)
      <3>1. p \in Creados(n) /\ Tail(procesos_listos) \in Seq(Creados(n))
        BY <2>2, HeadTailProperties DEF Creacion
      <3>2. /\ procesoEnEjecucion' = p /\ procesos_listos' = Tail(procesos_listos)
            /\ estado' = [estado EXCEPT ![p] = "ejecucion"]
            /\ idBuscar' = p.id /\ pcp' = "enviar"
        BY <1>1, <2>2 DEF PCPSeleccionar, round_robin
      <3>3. p \in Objetos /\ p.id \in Ids
        BY <1>0, <3>1 DEF Objetos
      <3> HIDE DEF p
      <3>4. Creacion'
        BY <2>1, <3>1, <3>2 DEF Creacion
      <3>5. SAFATypeOK'
        BY <2>1, <3>2, <3>3, <3>4, ColasTipo DEF SAFATypeOK
      <3> QED
        BY <2>1, <3>4, <3>5 DEF RedTypeOK, red, PCPSeleccionar
    <2>3. CASE procesos_listos = <<>>
      <3>1. UNCHANGED <<procesos_listos, procesoEnEjecucion, estado, idBuscar, pcp>>
        BY <1>1, <2>3 DEF PCPSeleccionar
      <3> QED
        BY <2>1, <3>1 DEF RedTypeOK, red, SAFATypeOK, Creacion
    <2> QED
      BY <2>2, <2>3
  <1>2. CASE PCPEnviar
    <2>1. /\ procesoEnEjecucion \in Objetos /\ procesoEnEjecucion.id \in 1 .. n
          /\ aCPU \in [CPUs -> Seq(Mensajes)]
      BY <1>2, CreacionObjetos DEF PCPEnviar, RedTypeOK
    <2> DEFINE d == dtb[procesoEnEjecucion.id]
               m == EnvioProceso(procesoEnEjecucion, d.pathEscriptorio)
    <2>2. d.socketProceso \in CPUs /\ m \in Mensajes
      BY <2>1, DTBCreado DEF Mensajes
    <2>3. aCPU' = Enviar(aCPU, d.socketProceso, m)
      BY <1>2 DEF PCPEnviar
    <2> HIDE DEF d, m
    <2>4. aCPU' \in [CPUs -> Seq(Mensajes)]
      BY <2>1, <2>2, <2>3, EnviarTipo
    <2>5. SAFATypeOK' /\ Creacion'
      BY <1>2 DEF PCPEnviar, SAFATypeOK, Creacion, colas, sems
    <2> QED
      BY <1>2, <2>4, <2>5 DEF PCPEnviar, RedTypeOK
  <1>3. CASE PCPQuitar
    <2>1. procesos_listos' \in Seq(Creados(n))
      BY <1>3, SinTipo DEF PCPQuitar, Creacion
    <2>2. procesoEnEjecucion.flagInicializacion \in {0, 1}
      BY <1>3, CreacionObjetos DEF PCPQuitar, Objetos
    <2>3. Creacion'
      BY <1>3, <2>1 DEF PCPQuitar, Creacion
    <2>4. SAFATypeOK'
      BY <1>3, <2>2, <2>3, ColasTipo DEF PCPQuitar, SAFATypeOK
    <2> QED
      BY <1>3, <2>3, <2>4 DEF PCPQuitar, RedTypeOK, red
  <1>4. CASE PCPCae
    <2>1. \E causa \in Causas : Caer(causa)
      BY <1>4 DEF PCPCae, Causas
    <2> QED
      BY <1>4, <2>1, CaerTipo DEF PCPCae, RedTypeOK, red
  <1> QED
    BY <1>1, <1>2, <1>3, <1>4 DEF PCP

(* ejecutarProceso *)

LEMMA EjecutarProcesoTipo ==
    ASSUME TipoInductivo, EjecutarProceso, UNCHANGED FM9Vivo
    PROVE  SAFATypeOK' /\ Creacion' /\ RedTypeOK'
  <1> USE DEF TipoInductivo, TypeOK
  <1>1. CASE EjecDespertar
    BY <1>1 DEF EjecDespertar, Disponible, SAFATypeOK, Creacion, RedTypeOK, colas, red
  <1>2. CASE EjecCondicion
    BY <1>2 DEF EjecCondicion, SAFATypeOK, Creacion, RedTypeOK, colas, sems, red
  <1>3. CASE EjecOrdenar
    <2>1. aCPU' \in [CPUs -> Seq(Mensajes)]
      <3>1. aCPU \in [CPUs -> Seq(Mensajes)] /\ Orden \in Mensajes
        BY DEF RedTypeOK, Mensajes
      <3>2. CASE procesoEnEjecucion # Nada
        <4>1. dtb[procesoEnEjecucion.id].socketProceso \in CPUs
          BY <3>2, CreacionObjetos, DTBCreado
        <4> QED
          BY <1>3, <3>1, <3>2, <4>1, EnviarTipo DEF EjecOrdenar
      <3>3. CASE procesoEnEjecucion = Nada
        BY <1>3, <3>1, <3>3 DEF EjecOrdenar
      <3> QED
        BY <3>2, <3>3
    <2>2. SAFATypeOK' /\ Creacion'
      BY <1>3 DEF EjecOrdenar, Disponible, SAFATypeOK, Creacion, colas
    <2> QED
      BY <1>3, <2>1, <2>2 DEF EjecOrdenar, RedTypeOK
  <1> QED
    BY <1>1, <1>2, <1>3 DEF EjecutarProceso

(* conexionCPU: what any message does to the connections *)

LEMMA RecibidoTipo ==
    ASSUME RedTypeOK, NEW c \in CPUs, NEW letras, Llega(c, letras), Recibido(c),
           UNCHANGED FM9Vivo
    PROVE  RedTypeOK'
  <1>1. deCPU' \in [CPUs -> Seq(Letras)]
    BY ConsumirTipo DEF RedTypeOK, Llega, Recibido
  <1> QED
    BY <1>1 DEF RedTypeOK, Recibido

(* The running process leaves for one of the queues, or for none. *)
LEMMA DesocuparTipo ==
    ASSUME SAFATypeOK, Creacion, procesoEnEjecucion # Nada, Desocupar,
           NEW e \in {"listo", "bloqueado", "finalizado"}, CambiarEstado(e)
    PROVE  /\ procesoEnEjecucion' = Nada /\ quantumRestante' \in Int
           /\ sem_replanificar' \in Nat
           /\ estado' \in [Objetos -> {"nuevo", "listo", "ejecucion", "bloqueado", "finalizado"}]
           /\ Append(procesos_listos, procesoEnEjecucion) \in Seq(Creados(Len(dtb)))
           /\ Append(procesos_bloqueados, procesoEnEjecucion) \in Seq(Creados(Len(dtb)))
           /\ Append(procesos_terminados, procesoEnEjecucion) \in Seq(Terminados)
  <1>1. procesoEnEjecucion \in Creados(Len(dtb)) /\ procesoEnEjecucion \in Terminados
    BY CreacionObjetos DEF Terminados
  <1>2. Append(procesos_listos, procesoEnEjecucion) \in Seq(Creados(Len(dtb)))
    BY <1>1, AppendProperties DEF Creacion
  <1>3. Append(procesos_bloqueados, procesoEnEjecucion) \in Seq(Creados(Len(dtb)))
    BY <1>1, AppendProperties DEF Creacion
  <1>4. Append(procesos_terminados, procesoEnEjecucion) \in Seq(Terminados)
    BY <1>1, AppendProperties DEF SAFATypeOK
  <1>5. estado' \in [Objetos -> {"nuevo", "listo", "ejecucion", "bloqueado", "finalizado"}]
    BY DEF CambiarEstado, SAFATypeOK
  <1>6. /\ procesoEnEjecucion' = Nada /\ quantumRestante' \in Int
        /\ sem_replanificar' \in Nat
    BY SAFAAssumption DEF Desocupar, SAFATypeOK
  <1> QED
    BY <1>2, <1>3, <1>4, <1>5, <1>6

LEMMA ConexionCPUTipo ==
    ASSUME TipoInductivo, NEW c \in CPUs, ConexionCPU(c), UNCHANGED FM9Vivo
    PROVE  SAFATypeOK' /\ Creacion' /\ RedTypeOK'
  <1> USE DEF TipoInductivo, TypeOK
  <1>1. CASE FinDeScript(c)
    <2>1. procesoEnEjecucion # Nada /\ CambiarEstado("finalizado") /\ Desocupar
      BY <1>1 DEF FinDeScript
    <2>2. Creacion'
      BY <1>1, <2>1, DesocuparTipo DEF FinDeScript, Creacion
    <2>3. SAFATypeOK'
      BY <1>1, <2>1, <2>2, DesocuparTipo, ColasTipo DEF FinDeScript, SAFATypeOK, hilos
    <2> QED
      BY <1>1, <2>2, <2>3, RecibidoTipo DEF FinDeScript
  <1>2. CASE FinIgnorado(c)
    <2>1. SAFATypeOK' /\ Creacion'
      BY <1>2 DEF FinIgnorado, SAFATypeOK, Creacion, safa, colas, sems, hilos
    <2> QED
      BY <1>2, <2>1, RecibidoTipo DEF FinIgnorado
  <1>3. CASE FinDeSentencia(c)
    <2>1. Creacion'
      BY <1>3 DEF FinDeSentencia, Creacion, colas
    <2>2. SAFATypeOK'
      BY <1>3, <2>1, ColasTipo DEF FinDeSentencia, SAFATypeOK, colas, hilos
    <2> QED
      BY <1>3, <2>1, <2>2, RecibidoTipo DEF FinDeSentencia
  <1>4. CASE FinDeQuantum(c)
    <2>1. procesoEnEjecucion # Nada /\ CambiarEstado("listo") /\ Desocupar
      BY <1>4 DEF FinDeQuantum
    <2>2. Creacion'
      BY <1>4, <2>1, DesocuparTipo DEF FinDeQuantum, Creacion
    <2>3. SAFATypeOK'
      BY <1>4, <2>1, <2>2, DesocuparTipo, ColasTipo DEF FinDeQuantum, SAFATypeOK, hilos
    <2> QED
      BY <1>4, <2>2, <2>3, RecibidoTipo DEF FinDeQuantum
  <1>5. CASE DummyEnviado(c)
    <2>1. procesoEnEjecucion # Nada /\ CambiarEstado("bloqueado") /\ Desocupar
      BY <1>5 DEF DummyEnviado
    <2>2. Creacion'
      BY <1>5, <2>1, DesocuparTipo DEF DummyEnviado, Creacion, colas
    <2>3. SAFATypeOK'
      BY <1>5, <2>1, <2>2, DesocuparTipo, ColasTipo DEF DummyEnviado, SAFATypeOK, colas, hilos
    <2> QED
      BY <1>5, <2>2, <2>3, RecibidoTipo DEF DummyEnviado
  <1>6. CASE Bloquear(c)
    <2>1. procesoEnEjecucion # Nada /\ CambiarEstado("bloqueado") /\ Desocupar
      BY <1>6 DEF Bloquear
    <2>2. Creacion'
      BY <1>6, <2>1, DesocuparTipo DEF Bloquear, Creacion
    <2>3. SAFATypeOK'
      BY <1>6, <2>1, <2>2, DesocuparTipo, ColasTipo DEF Bloquear, SAFATypeOK, hilos
    <2> QED
      BY <1>6, <2>2, <2>3, RecibidoTipo DEF Bloquear
  <1>7. CASE \/ FinDeQuantumSinProceso(c) \/ VerificarSiFinalizar(c) \/ DummySinProceso(c)
             \/ BloquearSinProceso(c) \/ Recurso(c)
    <2>1. PICK causa \in Causas : Caer(causa)
      BY <1>7 DEF FinDeQuantumSinProceso, VerificarSiFinalizar, DummySinProceso,
                  BloquearSinProceso, Recurso, CaerAlRecibir, Causas
    <2>2. PICK letras : Llega(c, letras) /\ Recibido(c)
      BY <1>7 DEF FinDeQuantumSinProceso, VerificarSiFinalizar, DummySinProceso,
                  BloquearSinProceso, Recurso, CaerAlRecibir
    <2> QED
      BY <2>1, <2>2, CaerTipo, RecibidoTipo
  <1> QED
    BY <1>1, <1>2, <1>3, <1>4, <1>5, <1>6, <1>7 DEF ConexionCPU

(* conexionDAM *)

LEMMA ConexionDAMTipo ==
    ASSUME TipoInductivo, ConexionDAM, UNCHANGED FM9Vivo
    PROVE  SAFATypeOK' /\ Creacion' /\ RedTypeOK'
  <1> USE DEF TipoInductivo, TypeOK
  <1> DEFINE n == Len(dtb)
             i == IdRespuesta
  <1>1. /\ deDAM # <<>> /\ deDAM' = Tail(deDAM) /\ UNCHANGED <<aCPU, deCPU, pedidos>>
    BY DEF ConexionDAM, AbrirOk, AbrirMal, AbrirSinNuevo, OperacionOk, OperacionOkSinBloqueado,
           OperacionMal, Respuesta
  <1>2. RedTypeOK' /\ Head(deDAM) \in Paquetes /\ i \in Ids \cup {0}
    <2>1. deDAM \in Seq(Paquetes)
      BY DEF RedTypeOK
    <2>2. Head(deDAM) \in Paquetes /\ Tail(deDAM) \in Seq(Paquetes)
      BY <1>1, <2>1, HeadTailProperties
    <2>3. RedTypeOK'
      BY <1>1, <2>2 DEF RedTypeOK
    <2>4. i \in Ids \cup {0}
      BY <2>2 DEF Paquetes, IdRespuesta
    <2> QED
      BY <2>2, <2>3, <2>4
  <1>3. ASSUME Tiene(procesos_nuevos, i)
        PROVE  /\ i \in 1 .. n /\ Real(i) \in Creados(n) /\ Real(i) \in Terminados
               /\ Cargando(dtb, i, 0) \in Seq(DTBs) /\ Len(Cargando(dtb, i, 0)) = n
    <2>1. PICK p \in Creados(n) : p.id = i
      BY <1>3, PrimeraEsta DEF Creacion
    <2>2. i \in 1 .. n /\ i \in Ids
      BY <2>1, CreacionObjetos, CreadosObjetos DEF Creados, Objetos
    <2>3. Real(i) \in Creados(n) /\ Real(i) \in Terminados
      BY <2>2, CreacionObjetos DEF Real, Creados, Objetos, Terminados
    <2> QED
      BY <2>2, <2>3, CargandoTipo DEF SAFATypeOK
  <1>4. CASE AbrirOk
    <2>1. /\ Tiene(procesos_nuevos, i)
          /\ procesos_nuevos' = Sin(procesos_nuevos, i)
          /\ dtb' = Cargando(dtb, i, 0)
          /\ procesos_listos' = Append(procesos_listos, Real(i))
      BY <1>4 DEF AbrirOk
    <2>2. dtb' \in Seq(DTBs) /\ Len(dtb') = n
      BY <1>3, <2>1
    <2>3. procesos_listos' \in Seq(Creados(n)) /\ procesos_nuevos' \in Seq(Creados(n))
      BY <1>3, <2>1, AppendProperties, SinTipo DEF Creacion
    <2>4. Creacion'
      BY <1>4, <2>2, <2>3 DEF AbrirOk, Creacion
    <2>5. SAFATypeOK'
      BY <1>2, <1>4, <2>2, <2>4, ColasTipo DEF AbrirOk, SAFATypeOK, hilos
    <2> QED
      BY <1>2, <2>4, <2>5
  <1>5. CASE AbrirMal
    <2>1. /\ Tiene(procesos_nuevos, i)
          /\ procesos_nuevos' = Sin(procesos_nuevos, i)
          /\ dtb' = Cargando(dtb, i, 0)
          /\ procesos_terminados' = Append(procesos_terminados, Real(i))
      BY <1>5 DEF AbrirMal
    <2>2. dtb' \in Seq(DTBs) /\ Len(dtb') = n
      BY <1>3, <2>1
    <2>3. procesos_terminados' \in Seq(Terminados) /\ procesos_nuevos' \in Seq(Creados(n))
      BY <1>3, <2>1, AppendProperties, SinTipo DEF Creacion, SAFATypeOK
    <2>4. Creacion'
      BY <1>5, <2>2, <2>3 DEF AbrirMal, Creacion
    <2>5. SAFATypeOK'
      BY <1>2, <1>5, <2>2, <2>3, <2>4, ColasTipo DEF AbrirMal, SAFATypeOK, hilos, sems
    <2> QED
      BY <1>2, <2>4, <2>5
  <1>6. CASE AbrirSinNuevo \/ OperacionOkSinBloqueado
    <2>1. PICK causa \in Causas : Caer(causa)
      BY <1>6 DEF AbrirSinNuevo, OperacionOkSinBloqueado, Causas
    <2> QED
      BY <1>2, <2>1, CaerTipo
  <1>7. ASSUME NEW hay, Despertar(hay)
        PROVE  sem_replanificar' \in Nat /\ sem_CPU_ejecutoUnaSentencia' \in Nat
    BY <1>7 DEF Despertar, SAFATypeOK
  <1>8. CASE OperacionOk
    <2> DEFINE p == procesos_bloqueados[Primera(procesos_bloqueados, i)]
    <2>1. /\ Tiene(procesos_bloqueados, i)
          /\ procesos_bloqueados' = Sin(procesos_bloqueados, i)
          /\ procesos_listos' = Append(procesos_listos, p)
      BY <1>8 DEF OperacionOk
    <2>2. p \in Creados(n) /\ procesos_bloqueados' \in Seq(Creados(n))
      BY <2>1, PrimeraEsta, SinTipo DEF Creacion
    <2> HIDE DEF p
    <2>3. procesos_listos' \in Seq(Creados(n))
      BY <2>1, <2>2, AppendProperties DEF Creacion
    <2>4. Creacion'
      BY <1>8, <2>2, <2>3 DEF OperacionOk, Creacion
    <2>5. sem_replanificar' \in Nat /\ sem_CPU_ejecutoUnaSentencia' \in Nat
      BY <1>7, <1>8 DEF OperacionOk
    <2>6. SAFATypeOK'
      BY <1>2, <1>8, <2>4, <2>5, ColasTipo DEF OperacionOk, SAFATypeOK, hilos
    <2> QED
      BY <1>2, <2>4, <2>6
  <1>9. CASE OperacionMal
    <2> DEFINE t == IF Tiene(procesos_bloqueados, i)
                    THEN Envoltorio(procesos_bloqueados[Primera(procesos_bloqueados, i)])
                    ELSE Nada
    <2>1. /\ procesos_bloqueados' = Sin(procesos_bloqueados, i)
          /\ procesos_terminados' = Append(procesos_terminados, t)
      BY <1>9 DEF OperacionMal
    <2>2. t \in Terminados
      <3>1. CASE Tiene(procesos_bloqueados, i)
        BY <3>1, PrimeraEsta, CreacionObjetos DEF Creacion, Terminados, ProcesosBloqueados
      <3>2. CASE ~Tiene(procesos_bloqueados, i)
        BY <3>2 DEF Terminados
      <3> QED
        BY <3>1, <3>2
    <2>3. procesos_bloqueados' \in Seq(Creados(n))
      BY <2>1, SinTipo DEF Creacion
    <2> HIDE DEF t
    <2>4. procesos_terminados' \in Seq(Terminados)
      BY <2>1, <2>2, AppendProperties DEF SAFATypeOK
    <2>5. Creacion'
      BY <1>9, <2>3 DEF OperacionMal, Creacion
    <2>6. sem_replanificar' \in Nat /\ sem_CPU_ejecutoUnaSentencia' \in Nat
      BY <1>7, <1>9 DEF OperacionMal
    <2>7. SAFATypeOK'
      BY <1>2, <1>9, <2>4, <2>5, <2>6, ColasTipo DEF OperacionMal, SAFATypeOK, hilos
    <2> QED
      BY <1>2, <2>5, <2>7
  <1> QED
    BY <1>4, <1>5, <1>6, <1>8, <1>9 DEF ConexionDAM

(* The console *)

LEMMA CPULibreTipo ==
    ASSUME tieneDTBasociado \subseteq CPUs, CPUs # tieneDTBasociado
    PROVE  CPULibre \in CPUs /\ CPULibre \notin tieneDTBasociado
  <1> DEFINE L == CPUs \ tieneDTBasociado
  <1>1. L \subseteq Nat /\ L # {}
    BY RedAssumption
  <1>2. \E c \in L : \A d \in L : c <= d
    BY <1>1, Minimo
  <1> QED
    BY <1>2 DEF CPULibre

(* The process whose loading starts: the first that was not being loaded.  There is *)
(* always one, the last of the queue.                                               *)
LEMMA ACargarPrimera ==
    ASSUME NEW n \in Nat, NEW nuevos \in Seq(Creados(n)), nuevos # <<>>, NEW t,
           t[nuevos[Len(nuevos)].id].seEstaCargando # 1
    PROVE  \E k \in 1 .. Len(nuevos) :
              /\ ACargar(nuevos, t) = nuevos[k].id
              /\ ACargar(nuevos, t) \in 1 .. n
              /\ t[nuevos[k].id].seEstaCargando # 1
              /\ \A m \in 1 .. (k - 1) : t[nuevos[m].id].seEstaCargando = 1
  <1>1. Len(nuevos) \in Nat /\ DOMAIN nuevos = 1 .. Len(nuevos) /\ Len(nuevos) # 0
    BY LenProperties, EmptySeq, SeqEqual
  <1> DEFINE T == {k \in 1 .. Len(nuevos) : t[nuevos[k].id].seEstaCargando # 1}
             EsPrimera(k) == /\ t[nuevos[k].id].seEstaCargando # 1
                             /\ \A m \in 1 .. (k - 1) : t[nuevos[m].id].seEstaCargando = 1
  <1>2. Len(nuevos) \in T /\ T \subseteq Nat
    BY <1>1
  <1>3. PICK k \in T : \A m \in T : k <= m
    BY <1>2, Minimo
  <1>4. EsPrimera(k)
    <2>1. ASSUME NEW m \in 1 .. (k - 1) PROVE t[nuevos[m].id].seEstaCargando = 1
      <3>1. m \in 1 .. Len(nuevos) /\ ~(k <= m)
        BY <1>1, <1>3
      <3> QED
        BY <1>3, <3>1
    <2> QED
      BY <1>3, <2>1
  <1>5. PICK j \in 1 .. Len(nuevos) : EsPrimera(j) /\ ACargar(nuevos, t) = nuevos[j].id
    BY <1>1, <1>4 DEF ACargar
  <1>6. nuevos[j].id \in 1 .. n
    BY ElementOfSeq, CreadosObjetos
  <1> QED
    BY <1>5, <1>6

LEMMA EjecutarTipo ==
    ASSUME TipoInductivo, NEW e \in Escriptorios, Ejecutar(e), UNCHANGED FM9Vivo
    PROVE  SAFATypeOK' /\ Creacion' /\ RedTypeOK'
  <1> USE DEF TipoInductivo, TypeOK
  <1> DEFINE n == Len(dtb)
             d == [socketProceso |-> CPULibre, pathEscriptorio |-> e, seEstaCargando |-> 0]
             nuevos == Append(procesos_nuevos, Real(idGlobal))
             t == Append(dtb, d)
             i == ACargar(nuevos, t)
  <1>1. n \in Nat /\ n + 1 \in Ids /\ idGlobal = n + 1 /\ CPUs # tieneDTBasociado
    BY DTBCreado DEF Ejecutar, idGlobal, Ids
  <1>2. CPULibre \in CPUs
    BY <1>1, CPULibreTipo DEF SAFATypeOK
  <1>3. d \in DTBs
    BY <1>2 DEF DTBs
  <1>4. t \in Seq(DTBs) /\ Len(t) = n + 1 /\ t[n + 1] = d
    <2>1. dtb \in Seq(DTBs)
      BY DEF SAFATypeOK
    <2> HIDE DEF d
    <2> QED
      BY <1>3, <2>1, AppendProperties
  <1>5. Creados(n) \subseteq Creados(n + 1) /\ Creados(n + 1) \subseteq Objetos
    BY <1>1, RedAssumption DEF Creados, Objetos, Ids
  <1>6. Real(n + 1) \in Creados(n + 1)
    BY <1>1 DEF Real, Creados, Objetos
  <1>7. /\ procesos_nuevos \in Seq(Creados(n + 1)) /\ procesos_listos \in Seq(Creados(n + 1))
        /\ procesos_bloqueados \in Seq(Creados(n + 1))
        /\ procesoEnEjecucion \in Creados(n + 1) \cup {Nada}
    BY <1>5, SeqMonotonic DEF Creacion
  <1>8. /\ nuevos \in Seq(Creados(n + 1)) /\ nuevos # <<>>
        /\ nuevos[Len(nuevos)].id = n + 1
    <2>1. nuevos = Append(procesos_nuevos, Real(n + 1))
      BY <1>1
    <2>2. Real(n + 1).id = n + 1
      BY DEF Real
    <2> HIDE DEF nuevos
    <2> QED
      BY <1>6, <1>7, <2>1, <2>2, AppendProperties
  <1>9. i \in 1 .. (n + 1)
    <2>1. t[n + 1].seEstaCargando # 1 /\ n + 1 \in Nat
      BY <1>1, <1>4
    <2> HIDE DEF t, nuevos
    <2> QED
      BY <1>8, <2>1, ACargarPrimera
  <1>10. Cargando(t, i, 1) \in Seq(DTBs) /\ Len(Cargando(t, i, 1)) = n + 1
    <2> HIDE DEF t, i
    <2> QED
      BY <1>4, <1>9, CargandoTipo
  <1>11. Dummy(i) \in Creados(n + 1) /\ Dummy(i) \in Objetos
    <2> HIDE DEF i
    <2> QED
      BY <1>1, <1>9, RedAssumption DEF Dummy, Creados, Objetos, Ids
  <1>12. Append(procesos_listos, Dummy(i)) \in Seq(Creados(n + 1))
    <2> HIDE DEF i
    <2> QED
      BY <1>7, <1>11, AppendProperties
  <1>13. /\ procesos_nuevos' = nuevos
         /\ \/ /\ dtb' = Cargando(t, i, 1)
               /\ procesos_listos' = Append(procesos_listos, Dummy(i))
               /\ estado' = [estado EXCEPT ![Dummy(i)] = "listo"]
               /\ sem_replanificar' = sem_replanificar + 1
            \/ /\ dtb' = t
               /\ UNCHANGED <<procesos_listos, estado, sem_replanificar>>
         /\ tieneDTBasociado' = tieneDTBasociado \cup {CPULibre}
         /\ UNCHANGED <<procesos_bloqueados, procesos_terminados, procesoEnEjecucion, bloquearDT,
                      quantumRestante, idBuscar, sem_procesoEnEjecucion,
                      sem_CPU_ejecutoUnaSentencia, hilos, caida, red>>
    BY DEF Ejecutar, NuevoAlFinal
  <1> HIDE DEF t, i, nuevos, d
  <1>14. dtb' \in Seq(DTBs) /\ Len(dtb') = n + 1
    BY <1>4, <1>10, <1>13
  <1>15. Creacion'
    BY <1>7, <1>8, <1>12, <1>13, <1>14 DEF Creacion
  <1>16. /\ procesos_nuevos' \in Seq(Objetos) /\ procesos_listos' \in Seq(Objetos)
         /\ procesos_bloqueados' \in Seq(Objetos)
         /\ procesoEnEjecucion' \in Objetos \cup {Nada}
    BY <1>1, <1>14, <1>15, CreadosObjetos DEF Creacion
  <1>17. estado' \in [Objetos -> {"nuevo", "listo", "ejecucion", "bloqueado", "finalizado"}]
    BY <1>11, <1>13 DEF SAFATypeOK
  <1>18. sem_replanificar' \in Nat
    BY <1>13 DEF SAFATypeOK
  <1>19. Len(dtb') <= MaxProcesos
    BY <1>1, <1>14, RedAssumption DEF Ids
  <1>20. SAFATypeOK'
    BY <1>2, <1>13, <1>14, <1>16, <1>17, <1>18, <1>19 DEF SAFATypeOK, hilos
  <1> QED
    BY <1>13, <1>15, <1>20 DEF RedTypeOK, red

LEMMA FinalizarTipo ==
    ASSUME TipoInductivo, NEW i \in Ids, Finalizar(i)
    PROVE  SAFATypeOK' /\ Creacion'
  <1> USE DEF TipoInductivo, TypeOK
  <1> DEFINE enNuevos == IF Tiene(procesos_nuevos, i)
                         THEN <<procesos_nuevos[Primera(procesos_nuevos, i)]>> ELSE <<>>
             enListos == IF Tiene(procesos_listos, i)
                         THEN <<procesos_listos[Primera(procesos_listos, i)]>> ELSE <<>>
  <1>1. enNuevos \in Seq(Terminados)
    <2>1. CASE Tiene(procesos_nuevos, i)
      <3>1. procesos_nuevos[Primera(procesos_nuevos, i)] \in Terminados
        BY <2>1, PrimeraEsta, CreacionObjetos DEF Creacion, Terminados
      <3> QED
        BY <2>1, <3>1
    <2>2. CASE ~Tiene(procesos_nuevos, i)
      BY <2>2, EmptySeq
    <2> QED
      BY <2>1, <2>2
  <1>2. enListos \in Seq(Terminados)
    <2>1. CASE Tiene(procesos_listos, i)
      <3>1. procesos_listos[Primera(procesos_listos, i)] \in Terminados
        BY <2>1, PrimeraEsta, CreacionObjetos DEF Creacion, Terminados
      <3> QED
        BY <2>1, <3>1
    <2>2. CASE ~Tiene(procesos_listos, i)
      BY <2>2, EmptySeq
    <2> QED
      BY <2>1, <2>2
  <1>3. procesos_terminados' = procesos_terminados \o enNuevos \o enListos
    BY DEF Finalizar
  <1> HIDE DEF enNuevos, enListos
  <1>4. procesos_terminados' \in Seq(Terminados)
    BY <1>1, <1>2, <1>3, ConcatProperties DEF SAFATypeOK
  <1>5. procesos_nuevos' \in Seq(Creados(Len(dtb))) /\ procesos_listos' \in Seq(Creados(Len(dtb)))
    BY SinTipo DEF Finalizar, Creacion
  <1>6. Creacion'
    BY <1>5 DEF Finalizar, Creacion
  <1>7. SAFATypeOK'
    BY <1>4, <1>6, ColasTipo DEF Finalizar, SAFATypeOK, sems, hilos
  <1> QED
    BY <1>6, <1>7

LEMMA ConsolaTipo ==
    ASSUME TipoInductivo, Consola, UNCHANGED FM9Vivo
    PROVE  SAFATypeOK' /\ Creacion' /\ RedTypeOK'
  <1> USE DEF TipoInductivo, TypeOK
  <1>1. CASE EjecutarSinCPU
    BY <1>1, CaerTipo DEF EjecutarSinCPU, Causas, RedTypeOK, red
  <1>2. ASSUME NEW e \in Escriptorios, Ejecutar(e) PROVE SAFATypeOK' /\ Creacion' /\ RedTypeOK'
    BY <1>2, EjecutarTipo
  <1>3. ASSUME NEW i \in Ids, FinalizarEnEjecucion(i) \/ StatusProceso(i)
        PROVE  SAFATypeOK' /\ Creacion' /\ RedTypeOK'
    BY <1>3 DEF FinalizarEnEjecucion, StatusProceso, SAFATypeOK, Creacion, RedTypeOK, colas,
                sems, hilos, red
  <1>4. ASSUME NEW i \in Ids, Finalizar(i) PROVE SAFATypeOK' /\ Creacion' /\ RedTypeOK'
    <2>1. SAFATypeOK' /\ Creacion'
      BY <1>4, FinalizarTipo
    <2> QED
      BY <1>4, <2>1 DEF Finalizar, RedTypeOK, red
  <1>5. ASSUME NEW i \in Ids, FinalizarListoSinEjecucion(i) \/ StatusCae(i)
        PROVE  SAFATypeOK' /\ Creacion' /\ RedTypeOK'
    <2>1. PICK causa \in Causas : Caer(causa)
      BY <1>5 DEF FinalizarListoSinEjecucion, StatusCae, Causas
    <2> QED
      BY <1>5, <2>1, CaerTipo DEF FinalizarListoSinEjecucion, StatusCae, RedTypeOK, red
  <1>6. CASE StatusColasCae
    BY <1>6, CaerTipo DEF StatusColasCae, Causas, RedTypeOK, red
  <1> QED
    BY <1>1, <1>2, <1>3, <1>4, <1>5, <1>6 DEF Consola

--------------------------------------------------------------------------------
(* The CPUs *)

(* What a CPU sends, and where its thread goes. *)
LEMMA PedirTipo ==
    ASSUME RedTypeOK, NEW c \in CPUs, NEW op \in {1, 6, 8, 9}, NEW i \in Ids \cup {0},
           Pedir(c, op, i)
    PROVE  pedidos' \in [CPUs -> Seq(Paquetes)]
  <1> DEFINE m == [tipoOperacion |-> op, resultado |-> 0, id |-> i]
  <1>1. m \in Paquetes /\ pedidos' = Enviar(pedidos, c, m)
    BY DEF Paquetes, Pedir
  <1> HIDE DEF m
  <1> QED
    BY <1>1, EnviarTipo DEF RedTypeOK

LEMMA AvisarTipo ==
    ASSUME RedTypeOK, NEW c \in CPUs, NEW letra \in Letras, Avisar(c, letra)
    PROVE  deCPU' \in [CPUs -> Seq(Letras)]
  BY EnviarTipo DEF RedTypeOK, Avisar

LEMMA AbortarTipo ==
    ASSUME RedTypeOK, CPUTypeOK, NEW c \in CPUs, Abortar(c)
    PROVE  /\ deCPU' \in [CPUs -> Seq(Letras)]
           /\ hilo' \in [CPUs -> Estados]
           /\ DTB' \in [CPUs -> EnEjecucion \cup {Nada}]
           /\ ConDTB => ConDTB'
  <1> DEFINE aviso == IF flagError[c] = 1 THEN <<"e", "f">> ELSE <<"e">>
  <1>1. aviso \in Seq(Letras)
    <2>1. "e" \in Letras /\ "f" \in Letras
      BY DEF Letras
    <2> QED
      BY <2>1
  <1>2. /\ deCPU' = [deCPU EXCEPT ![c] = @ \o aviso]
        /\ DTB' = [DTB EXCEPT ![c] = Nada] /\ hilo' = [hilo EXCEPT ![c] = "proceso"]
    BY DEF Abortar, Pasar
  <1> HIDE DEF aviso
  <1>3. deCPU[c] \o aviso \in Seq(Letras)
    BY <1>1, ConcatProperties DEF RedTypeOK
  <1> QED
    BY <1>2, <1>3 DEF RedTypeOK, CPUTypeOK, ConDTB, EnEjecucion, Estados

(* A message that is not an order carries a process and its script. *)
LEMMA MensajeDeProceso ==
    ASSUME NEW m \in Mensajes, m # Orden
    PROVE  /\ m.proceso \in Objetos /\ m.escriptorio \in Escriptorios
           /\ m.proceso.id \in Ids
  <1>1. PICK p \in Objetos, e \in Escriptorios : m = EnvioProceso(p, e)
    BY DEF Mensajes
  <1>2. m.proceso = p /\ m.escriptorio = e
    BY <1>1 DEF EnvioProceso
  <1>3. p.id \in Ids
    BY DEF Objetos
  <1> QED
    BY <1>2, <1>3

(* The sentence a CPU is about to run. *)
LEMMA SentenciaNombre ==
    ASSUME CPUTypeOK, NEW c \in CPUs, DTB[c] \in EnEjecucion, Quedan(c)
    PROVE  Sentencia(c).arg \in Nombres
  <1> DEFINE e == DTB[c].escriptorio
             k == instructionPointer[c] + 1
  <1>1. e \in Escriptorios /\ Codigo[e] \in Seq([op : Operaciones, arg : STRING])
    BY RedAssumption DEF EnEjecucion
  <1>2. Len(Codigo[e]) \in Nat /\ DOMAIN Codigo[e] = 1 .. Len(Codigo[e])
    BY <1>1, LenProperties
  <1>3. k \in DOMAIN Codigo[e]
    BY <1>2 DEF Quedan, CPUTypeOK
  <1>4. Sentencia(c) = Codigo[e][k]
    BY DEF Sentencia
  <1> HIDE DEF e, k
  <1> QED
    BY <1>1, <1>3, <1>4 DEF Nombres

(* A step that takes one message from S-AFA keeps the type of that connection. *)
LEMMA LlegaOrdenTipo ==
    ASSUME TypeOK, ConDTB, NEW c \in CPUs, LlegaOrden(c)
    PROVE  /\ aCPU' \in [CPUs -> Seq(Mensajes)] /\ deDAM' \in Seq(Paquetes)
           /\ hilo[c] = "orden" /\ DTB[c] \in EnEjecucion
           /\ DTB[c].proceso.id \in Ids /\ DTB[c].escriptorio \in Escriptorios
  BY ConsumirTipo DEF LlegaOrden, TypeOK, RedTypeOK, ConDTB, EnEjecucion, Objetos

(* Taking a process, or the half order that looks like one. *)
LEMMA RecepcionTipo ==
    ASSUME TypeOK, ConDTB, NEW c \in CPUs,
           RecibirDummy(c) \/ RecibirReal(c) \/ RecibirBasura(c) \/ IgnorarProceso(c)
    PROVE  CPUTypeOK' /\ ConDTB' /\ RedTypeOK'
  <1> USE DEF TypeOK
  <1>1. aCPU \in [CPUs -> Seq(Mensajes)] /\ aCPU[c] # <<>>
    BY DEF RecibirDummy, RecibirReal, RecibirBasura, IgnorarProceso, RecibeProceso, RedTypeOK
  <1>2. Consumir(aCPU, c) \in [CPUs -> Seq(Mensajes)] /\ Head(aCPU[c]) \in Mensajes
    BY <1>1, ConsumirTipo
  <1>3. CASE RecibirDummy(c)
    <2> DEFINE i == Head(aCPU[c]).proceso.id
    <2>1. i \in Ids \cup {0}
      BY <1>2, <1>3, MensajeDeProceso DEF RecibirDummy, RecibeProceso
    <2>2. Pedir(c, 1, i)
      BY <1>3 DEF RecibirDummy
    <2> HIDE DEF i
    <2>3. pedidos' \in [CPUs -> Seq(Paquetes)]
      BY <2>1, <2>2, PedirTipo
    <2>4. RedTypeOK'
      BY <1>2, <1>3, <2>3 DEF RecibirDummy, RedTypeOK
    <2>5. CPUTypeOK' /\ ConDTB'
      BY <1>3 DEF RecibirDummy, Pasar, memoria, CPUTypeOK, ConDTB, Estados
    <2> QED
      BY <2>4, <2>5
  <1>4. CASE RecibirReal(c)
    <2> DEFINE m == Head(aCPU[c])
               d == [proceso |-> m.proceso, escriptorio |-> m.escriptorio]
    <2>1. d \in EnEjecucion /\ m.escriptorio \in Nombres
      BY <1>2, <1>4, MensajeDeProceso DEF RecibirReal, RecibeProceso, EnEjecucion, Nombres
    <2>2. /\ DTB' = [DTB EXCEPT ![c] = d]
          /\ archivosAsociados' = [archivosAsociados EXCEPT ![c] = {m.escriptorio}]
      BY <1>4 DEF RecibirReal
    <2>3. RedTypeOK'
      BY <1>2, <1>4 DEF RecibirReal, RedTypeOK
    <2> DEFINE e == {m.escriptorio}
    <2>4. e \in SUBSET Nombres /\ archivosAsociados' = [archivosAsociados EXCEPT ![c] = e]
      BY <2>1, <2>2
    <2>5. /\ hilo' = [hilo EXCEPT ![c] = "orden"]
          /\ UNCHANGED <<instructionPointer, flagError, archivoABuscar>>
      BY <1>4 DEF RecibirReal, Pasar
    <2> HIDE DEF d, m, e
    <2>6. ConDTB'
      BY <2>1, <2>2, <2>5 DEF ConDTB, CPUTypeOK
    <2>7. DTB' \in [CPUs -> EnEjecucion \cup {Nada}] /\ hilo' \in [CPUs -> Estados]
      BY <2>1, <2>2, <2>5 DEF CPUTypeOK, EnEjecucion, Estados
    <2>8. archivosAsociados' \in [CPUs -> SUBSET Nombres]
      BY <2>4 DEF CPUTypeOK
    <2>9. CPUTypeOK'
      BY <2>5, <2>7, <2>8 DEF CPUTypeOK, EnEjecucion
    <2> QED
      BY <2>3, <2>6, <2>9
  <1>5. CASE RecibirBasura(c)
    <2>1. pedidos' \in [CPUs -> Seq(Paquetes)]
      BY <1>5, PedirTipo DEF RecibirBasura, RedTypeOK
    <2>2. RedTypeOK'
      BY <1>2, <1>5, <2>1 DEF RecibirBasura, RedTypeOK
    <2>3. CPUTypeOK' /\ ConDTB'
      BY <1>5 DEF RecibirBasura, Pasar, memoria, CPUTypeOK, ConDTB, Estados
    <2> QED
      BY <2>2, <2>3
  <1>6. CASE IgnorarProceso(c)
    <2>1. aCPU' \in [CPUs -> Seq(Mensajes)]
      <3>1. CASE aCPU' = Consumir(aCPU, c)
        BY <1>2, <3>1
      <3>2. CASE aCPU' = [aCPU EXCEPT ![c] = Tail(Tail(@))] /\ Len(aCPU[c]) > 1
        <4>1. Tail(aCPU[c]) \in Seq(Mensajes) /\ Len(Tail(aCPU[c])) = Len(aCPU[c]) - 1
          BY <1>1, HeadTailProperties
        <4>2. Tail(aCPU[c]) # <<>>
          BY <3>2, <4>1, LenProperties
        <4>3. Tail(Tail(aCPU[c])) \in Seq(Mensajes)
          BY <4>1, <4>2, HeadTailProperties
        <4> QED
          BY <1>1, <3>2, <4>3
      <3>3. CASE aCPU' = [aCPU EXCEPT ![c] = <<Orden>> \o Tail(@)]
        <4>1. Tail(aCPU[c]) \in Seq(Mensajes)
          BY <1>1, HeadTailProperties
        <4>2. <<Orden>> \in Seq(Mensajes)
          BY DEF Mensajes
        <4>3. <<Orden>> \o Tail(aCPU[c]) \in Seq(Mensajes)
          BY <4>1, <4>2, ConcatProperties
        <4> QED
          BY <1>1, <3>3, <4>3
      <3> QED
        BY <1>6, <3>1, <3>2, <3>3 DEF IgnorarProceso
    <2>2. RedTypeOK'
      BY <1>6, <2>1 DEF IgnorarProceso, RedTypeOK
    <2>3. CPUTypeOK' /\ ConDTB'
      BY <1>6 DEF IgnorarProceso, memoria, CPUTypeOK, ConDTB
    <2> QED
      BY <2>2, <2>3
  <1> QED
    BY <1>3, <1>4, <1>5, <1>6

(* Telling S-AFA what DAM was asked for. *)
LEMMA AvisoTipo ==
    ASSUME TypeOK, ConDTB, NEW c \in CPUs, AvisarDummy(c) \/ AvisarBloqueo(c)
    PROVE  CPUTypeOK' /\ ConDTB' /\ RedTypeOK'
  <1> USE DEF TypeOK
  <1>1. deCPU' \in [CPUs -> Seq(Letras)]
    BY AvisarTipo DEF AvisarDummy, AvisarBloqueo, Letras
  <1>2. RedTypeOK'
    BY <1>1 DEF AvisarDummy, AvisarBloqueo, RedTypeOK
  <1>3. CASE AvisarDummy(c)
    BY <1>2, <1>3 DEF AvisarDummy, Pasar, memoria, CPUTypeOK, ConDTB, Estados
  <1>4. CASE AvisarBloqueo(c)
    <2>1. hilo[c] = "avisoB" /\ hilo' = [hilo EXCEPT ![c] = "orden"] /\ UNCHANGED memoria
      BY <1>4 DEF AvisarBloqueo, Pasar
    <2> QED
      BY <1>2, <2>1 DEF memoria, CPUTypeOK, ConDTB, Estados
  <1> QED
    BY <1>3, <1>4

(* An order that finds no sentence to run. *)
LEMMA SinSentenciaTipo ==
    ASSUME TypeOK, ConDTB, NEW c \in CPUs,
           PedirSinScript(c) \/ PedirPasadoElFin(c) \/ PedirSinFM9(c) \/ FinDelEscriptorio(c)
    PROVE  CPUTypeOK' /\ ConDTB' /\ RedTypeOK'
  <1> USE DEF TypeOK
  <1>1. LlegaOrden(c)
    BY DEF PedirSinScript, PedirPasadoElFin, PedirSinFM9, FinDelEscriptorio
  <1>2. CASE PedirSinScript(c) \/ PedirPasadoElFin(c) \/ PedirSinFM9(c)
    <2>1. UNCHANGED <<deCPU, pedidos, memoria, FM9Vivo>>
      BY <1>2 DEF PedirSinScript, PedirPasadoElFin, PedirSinFM9
    <2>2. Pasar(c, "muerta") \/ Pasar(c, "colgada")
      BY <1>2 DEF PedirSinScript, PedirPasadoElFin, PedirSinFM9
    <2> QED
      BY <1>1, <2>1, <2>2, LlegaOrdenTipo
      DEF Pasar, memoria, RedTypeOK, CPUTypeOK, ConDTB, Estados
  <1>3. CASE FinDelEscriptorio(c)
    <2>1. deCPU' \in [CPUs -> Seq(Letras)]
      BY <1>3, AvisarTipo DEF FinDelEscriptorio, Letras
    <2>2. RedTypeOK'
      BY <1>1, <1>3, <2>1, LlegaOrdenTipo DEF FinDelEscriptorio, RedTypeOK
    <2>3. CPUTypeOK' /\ ConDTB'
      BY <1>3 DEF FinDelEscriptorio, Pasar, CPUTypeOK, ConDTB, Estados
    <2> QED
      BY <2>2, <2>3
  <1> QED
    BY <1>2, <1>3

(* A sentence: what it moves besides what its own operation does. *)
LEMMA ParsearTipo ==
    ASSUME TypeOK, ConDTB, NEW c \in CPUs, NEW ops, Parsear(c, ops)
    PROVE  /\ aCPU' \in [CPUs -> Seq(Mensajes)] /\ deDAM' \in Seq(Paquetes)
           /\ instructionPointer' \in [CPUs -> Nat]
           /\ hilo[c] = "orden" /\ DTB[c] \in EnEjecucion /\ DTB[c].proceso.id \in Ids
           /\ Sentencia(c).arg \in Nombres
  <1> USE DEF TypeOK
  <1>1. LlegaOrden(c) /\ Quedan(c)
    BY DEF Parsear
  <1>2. instructionPointer' \in [CPUs -> Nat]
    BY DEF Parsear, CPUTypeOK
  <1> QED
    BY <1>1, <1>2, LlegaOrdenTipo, SentenciaNombre

LEMMA SentenciasTipo ==
    ASSUME TypeOK, ConDTB, NEW c \in CPUs,
           \/ Concentrar(c) \/ SinAviso(c) \/ WaitSignal(c) \/ CrearBorrar(c) \/ Flush(c)
           \/ FlushCloseSinNombre(c)
    PROVE  CPUTypeOK' /\ ConDTB' /\ RedTypeOK'
  <1> USE DEF TypeOK
  <1>1. PICK ops : Parsear(c, ops)
    BY DEF Concentrar, SinAviso, WaitSignal, CrearBorrar, Flush, FlushCloseSinNombre
  <1>2. CASE Concentrar(c) \/ WaitSignal(c)
    <2>1. PICK letra \in Letras : Avisar(c, letra)
      BY <1>2 DEF Concentrar, WaitSignal, Letras
    <2>2. deCPU' \in [CPUs -> Seq(Letras)]
      BY <2>1, AvisarTipo
    <2>3. UNCHANGED <<pedidos, hilo, DTB, flagError, archivosAsociados, archivoABuscar, FM9Vivo>>
      BY <1>2 DEF Concentrar, WaitSignal
    <2> QED
      BY <1>1, <2>2, <2>3, ParsearTipo DEF RedTypeOK, CPUTypeOK, ConDTB
  <1>3. CASE CrearBorrar(c) \/ Flush(c)
    <2>1. PICK op \in {1, 6, 8, 9} : Pedir(c, op, DTB[c].proceso.id)
      BY <1>3 DEF CrearBorrar, Flush
    <2>2. pedidos' \in [CPUs -> Seq(Paquetes)]
      BY <1>1, <2>1, ParsearTipo, PedirTipo
    <2>3. /\ Pasar(c, "avisoB")
          /\ UNCHANGED <<deCPU, DTB, flagError, archivosAsociados, archivoABuscar, FM9Vivo>>
      BY <1>3 DEF CrearBorrar, Flush
    <2> QED
      BY <1>1, <2>2, <2>3, ParsearTipo DEF Pasar, RedTypeOK, CPUTypeOK, ConDTB, Estados
  <1>4. CASE SinAviso(c)
    BY <1>1, <1>4, ParsearTipo DEF SinAviso, RedTypeOK, CPUTypeOK, ConDTB
  <1>5. CASE FlushCloseSinNombre(c)
    BY <1>1, <1>5, ParsearTipo
    DEF FlushCloseSinNombre, Pasar, RedTypeOK, CPUTypeOK, ConDTB, Estados
  <1> QED
    BY <1>2, <1>3, <1>4, <1>5

(* The sentences that open, write or close a file. *)
LEMMA ArchivosTipo ==
    ASSUME TypeOK, ConDTB, NEW c \in CPUs,
           Abrir(c) \/ Asignar(c) \/ FlushCloseNoAbierto(c) \/ Close(c)
    PROVE  CPUTypeOK' /\ ConDTB' /\ RedTypeOK'
  <1> USE DEF TypeOK
  <1>1. PICK ops : Parsear(c, ops)
    BY DEF Abrir, Asignar, FlushCloseNoAbierto, Close
  <1> DEFINE a == Sentencia(c).arg
  <1>2. a \in Nombres
    BY <1>1, ParsearTipo
  <1>3. CASE Abrir(c)
    <2>1. /\ archivoABuscar' = [archivoABuscar EXCEPT ![c] = a]
          /\ UNCHANGED <<DTB, flagError, FM9Vivo>>
      BY <1>3 DEF Abrir
    <2>2. CASE Avisar(c, "r") /\ UNCHANGED <<pedidos, hilo, archivosAsociados>>
      <3>1. deCPU' \in [CPUs -> Seq(Letras)]
        BY <2>2, AvisarTipo DEF Letras
      <3> HIDE DEF a
      <3> QED
        BY <1>1, <1>2, <2>1, <2>2, <3>1, ParsearTipo DEF RedTypeOK, CPUTypeOK, ConDTB
    <2>3. CASE /\ archivosAsociados' = [archivosAsociados EXCEPT ![c] = @ \cup {a}]
               /\ Pedir(c, 1, DTB[c].proceso.id) /\ Pasar(c, "avisoB") /\ UNCHANGED deCPU
      <3>1. pedidos' \in [CPUs -> Seq(Paquetes)]
        BY <1>1, <2>3, ParsearTipo, PedirTipo
      <3> HIDE DEF a
      <3> QED
        BY <1>1, <1>2, <2>1, <2>3, <3>1, ParsearTipo
        DEF Pasar, RedTypeOK, CPUTypeOK, ConDTB, Estados
    <2> QED
      BY <1>3, <2>2, <2>3 DEF Abrir
  <1>4. CASE Asignar(c)
    <2>1. /\ archivoABuscar' = [archivoABuscar EXCEPT ![c] = a]
          /\ UNCHANGED <<pedidos, flagError, archivosAsociados>>
      BY <1>4 DEF Asignar
    <2>2. CASE FM9Vivo' = FALSE /\ UNCHANGED <<deCPU, DTB, hilo>>
      <3> HIDE DEF a
      <3> QED
        BY <1>1, <1>2, <2>1, <2>2, ParsearTipo DEF RedTypeOK, CPUTypeOK, ConDTB
    <2>4. CASE FM9Vivo' = FALSE /\ Pasar(c, "muerta") /\ UNCHANGED <<deCPU, DTB>>
      <3> HIDE DEF a
      <3> QED
        BY <1>1, <1>2, <2>1, <2>4, ParsearTipo DEF Pasar, RedTypeOK, CPUTypeOK, ConDTB, Estados
    <2>3. CASE Abortar(c) /\ FM9Vivo' \in BOOLEAN
      <3> HIDE DEF a
      <3> QED
        BY <1>1, <1>2, <2>1, <2>3, ParsearTipo, AbortarTipo
        DEF RedTypeOK, CPUTypeOK, EnEjecucion
    <2> QED
      BY <1>4, <2>2, <2>3, <2>4 DEF Asignar, RedTypeOK
  <1>5. CASE FlushCloseNoAbierto(c)
    BY <1>1, <1>5, ParsearTipo, AbortarTipo
    DEF FlushCloseNoAbierto, RedTypeOK, CPUTypeOK, EnEjecucion
  <1>6. CASE Close(c)
    <2>1. FM9Vivo' = FALSE /\ UNCHANGED <<pedidos, flagError>>
      BY <1>6 DEF Close
    <2>2. CASE /\ Avisar(c, "r")
               /\ archivoABuscar' = [archivoABuscar EXCEPT ![c] = a]
               /\ archivosAsociados' = [archivosAsociados EXCEPT ![c] = @ \ {a}]
               /\ UNCHANGED <<DTB, hilo>>
      <3>1. deCPU' \in [CPUs -> Seq(Letras)]
        BY <2>2, AvisarTipo DEF Letras
      <3> HIDE DEF a
      <3> QED
        BY <1>1, <1>2, <2>1, <2>2, <3>1, ParsearTipo DEF RedTypeOK, CPUTypeOK, ConDTB
    <2>3. CASE Abortar(c) /\ UNCHANGED <<archivoABuscar, archivosAsociados>>
      BY <1>1, <2>1, <2>3, ParsearTipo, AbortarTipo DEF RedTypeOK, CPUTypeOK, EnEjecucion
    <2> QED
      BY <1>6, <2>2, <2>3 DEF Close
  <1> QED
    BY <1>3, <1>4, <1>5, <1>6

LEMMA CPUTipo ==
    ASSUME TipoInductivo, NEW c \in CPUs, NextCPU(c)
    PROVE  CPUTypeOK' /\ ConDTB' /\ RedTypeOK'
  <1>1. TypeOK /\ ConDTB
    BY DEF TipoInductivo
  <1> QED
    BY <1>1, RecepcionTipo, AvisoTipo, SinSentenciaTipo, SentenciasTipo, ArchivosTipo DEF NextCPU

--------------------------------------------------------------------------------
(* DAM *)

LEMMA ResponderTipo ==
    ASSUME RedTypeOK, NEW c \in CPUs, NEW ops, Pedido(c, ops), NEW resultado \in {0, 1},
           Responder(c, resultado)
    PROVE  deDAM' \in Seq(Paquetes)
  <1> DEFINE m == Contestado(c, resultado)
  <1>1. Head(pedidos[c]) \in Paquetes
    BY ConsumirTipo DEF RedTypeOK, Pedido
  <1>2. m \in Paquetes
    BY <1>1 DEF Contestado, Paquetes
  <1>3. deDAM' = Append(deDAM, m) /\ deDAM \in Seq(Paquetes)
    BY DEF Responder, RedTypeOK
  <1> HIDE DEF m
  <1> QED
    BY <1>2, <1>3, AppendProperties

LEMMA DAMTipo ==
    ASSUME TypeOK, NEW c \in CPUs, NextDAM(c)
    PROVE  RedTypeOK' /\ DAMVivo' \in BOOLEAN /\ MDJVivo' \in BOOLEAN
  <1> USE DEF TypeOK
  <1>1. PICK ops : Pedido(c, ops)
    BY DEF NextDAM, Atender, AtenderMuereMDJ, AtenderSinMDJ, AtenderAbrirSinFM9, AtenderFlush
  <1>2. /\ FM9Vivo' \in BOOLEAN /\ MDJVivo' \in BOOLEAN
        /\ DAMMuere \/ RespuestaIlegible \/ \E resultado \in {0, 1} : Responder(c, resultado)
    BY DEF NextDAM, Atender, AtenderMuereMDJ, AtenderSinMDJ, AtenderAbrirSinFM9, AtenderFlush,
           SinRespuesta, RedTypeOK
  <1>3. deDAM' \in Seq(Paquetes) /\ DAMVivo' \in BOOLEAN
    BY <1>1, <1>2, ResponderTipo DEF DAMMuere, Responder, RespuestaIlegible, RedTypeOK
  <1>4. pedidos' \in [CPUs -> Seq(Paquetes)] /\ UNCHANGED <<aCPU, deCPU>>
    BY <1>1, ConsumirTipo DEF Pedido, RedTypeOK
  <1> QED
    BY <1>2, <1>3, <1>4 DEF RedTypeOK

--------------------------------------------------------------------------------

LEMMA Inicio == Init => TipoInductivo
  <1> SUFFICES ASSUME Init PROVE TipoInductivo
    OBVIOUS
  <1>1. Len(dtb) = 0 /\ dtb = <<>>
    BY DEF Init, InitSAFA
  <1>2. RedTypeOK
    BY EmptySeq DEF Init, InitRed, RedTypeOK
  <1>3. SAFATypeOK
    BY <1>1, EmptySeq, RedAssumption, SAFAAssumption DEF Init, InitSAFA, SAFATypeOK
  <1>4. Creacion
    BY <1>1, EmptySeq DEF Init, InitSAFA, Creacion
  <1>5. CPUTypeOK /\ ConDTB
    BY DEF Init, InitCPU, CPUTypeOK, ConDTB, Estados
  <1> QED
    BY <1>2, <1>3, <1>4, <1>5 DEF Init, InitDAM, TipoInductivo, TypeOK

(* Every step keeps the types. *)
LEMMA Paso == TipoInductivo /\ [Next]_vars => TipoInductivo'
  <1> SUFFICES ASSUME TipoInductivo, [Next]_vars PROVE TipoInductivo'
    OBVIOUS
  <1> USE DEF TipoInductivo, TypeOK
  <1>1. ASSUME UNCHANGED <<cpu, FM9Vivo, dam>>, SAFATypeOK' /\ Creacion' /\ RedTypeOK'
        PROVE  TipoInductivo'
    BY <1>1 DEF cpu, memoria, dam, CPUTypeOK, ConDTB
  <1>2. CASE PasoSAFA(Consola)
    BY <1>1, <1>2, ConsolaTipo DEF PasoSAFA
  <1>3. CASE PasoSAFA(PCP)
    BY <1>1, <1>3, PCPTipo DEF PasoSAFA
  <1>4. CASE PasoSAFA(EjecutarProceso)
    BY <1>1, <1>4, EjecutarProcesoTipo DEF PasoSAFA
  <1>5. CASE PasoSAFA(ConexionDAM)
    BY <1>1, <1>5, ConexionDAMTipo DEF PasoSAFA
  <1>6. ASSUME NEW c \in CPUs, PasoSAFA(ConexionCPU(c)) PROVE TipoInductivo'
    BY <1>1, <1>6, ConexionCPUTipo DEF PasoSAFA
  <1>7. ASSUME UNCHANGED safa PROVE SAFATypeOK' /\ Creacion'
    BY <1>7 DEF safa, colas, sems, hilos, SAFATypeOK, Creacion
  <1>8. ASSUME NEW c \in CPUs, PasoCPU(c) PROVE TipoInductivo'
    BY <1>7, <1>8, CPUTipo DEF PasoCPU, dam
  <1>9. ASSUME NEW c \in CPUs, PasoDAM(c) PROVE TipoInductivo'
    BY <1>7, <1>9, DAMTipo DEF PasoDAM, cpu, memoria, CPUTypeOK, ConDTB
  <1>10. CASE UNCHANGED vars
    BY <1>7, <1>10 DEF vars, cpu, memoria, dam, red, CPUTypeOK, ConDTB, RedTypeOK
  <1> QED
    BY <1>2, <1>3, <1>4, <1>5, <1>6, <1>8, <1>9, <1>10 DEF Next

(* In every execution S-AFA's queues hold processes, and only processes it created, *)
(* and every message on every connection is one its receiver knows: in particular   *)
(* the DTB of a process selected to run exists, so that procesoEnEjecucion->DTBAsoc *)
(* is one the long-term planner filled in.                                          *)
THEOREM Tipos == Spec => [](TypeOK /\ Creacion)
  <1>1. TipoInductivo => TypeOK /\ Creacion
    BY DEF TipoInductivo
  <1> QED
    BY <1>1, Inicio, Paso, PTL DEF Spec

--------------------------------------------------------------------------------
(* The long-term planner is FIFO.  The property is inductive with the types; three *)
(* handlers move the queue of new processes or the marks of their loads.            *)

(* CargaFIFO of a queue s and DTBs t *)
EnOrden(s, t) ==
    \A k, m \in DOMAIN s : k < m =>
        /\ s[k].id < s[m].id
        /\ t[s[m].id].seEstaCargando = 1 => t[s[k].id].seEstaCargando = 1

(* Two elements left by a removal were there, in the same order, and neither is    *)
(* the one removed.                                                                  *)
LEMMA SinOrden ==
    ASSUME NEW S, NEW s \in Seq(S), NEW i, NEW k \in DOMAIN Sin(s, i),
           NEW m \in DOMAIN Sin(s, i), k < m
    PROVE  \E a, b \in DOMAIN s :
              /\ a < b /\ Sin(s, i)[k] = s[a] /\ Sin(s, i)[m] = s[b]
              /\ Tiene(s, i) => a # Primera(s, i) /\ b # Primera(s, i)
  <1>1. Len(s) \in Nat /\ DOMAIN s = 1 .. Len(s)
    BY LenProperties
  <1>2. CASE Tiene(s, i)
    <2> DEFINE P == Primera(s, i)
               a == IF k < P THEN k ELSE k + 1
               b == IF m < P THEN m ELSE m + 1
    <2>1. P \in 1 .. Len(s)
      BY <1>2, PrimeraEsta
    <2>2. /\ DOMAIN Sin(s, i) = 1 .. (Len(s) - 1)
          /\ Sin(s, i)[k] = s[a] /\ Sin(s, i)[m] = s[b]
      BY <1>2 DEF Sin
    <2>3. k \in 1 .. (Len(s) - 1) /\ m \in 1 .. (Len(s) - 1)
      BY <2>2
    <2> HIDE DEF P
    <2>4. a \in 1 .. Len(s) /\ b \in 1 .. Len(s) /\ a < b /\ a # P /\ b # P
      BY <1>1, <2>1, <2>3
    <2> HIDE DEF a, b
    <2> QED
      BY <1>1, <2>2, <2>4 DEF P
  <1>3. CASE ~Tiene(s, i)
    BY <1>3 DEF Sin
  <1> QED
    BY <1>2, <1>3

LEMMA CargandoEn ==
    ASSUME NEW t \in Seq(DTBs), NEW i \in 1 .. Len(t), NEW v \in {0, 1}, NEW j \in 1 .. Len(t)
    PROVE  Cargando(t, i, v)[j].seEstaCargando = IF j = i THEN v ELSE t[j].seEstaCargando
  <1>1. DOMAIN t = 1 .. Len(t)
    BY LenProperties
  <1> QED
    BY <1>1 DEF Cargando

(* Removing a process, with or without forgetting its load, keeps the order. *)
LEMMA SinEnOrden ==
    ASSUME NEW t \in Seq(DTBs), NEW s \in Seq(Creados(Len(t))), EnOrden(s, t), NEW i
    PROVE  /\ EnOrden(Sin(s, i), t)
           /\ Tiene(s, i) => EnOrden(Sin(s, i), Cargando(t, i, 0))
  <1>1. ASSUME NEW k \in DOMAIN Sin(s, i), NEW m \in DOMAIN Sin(s, i), k < m
        PROVE  /\ Sin(s, i)[k].id < Sin(s, i)[m].id
               /\ t[Sin(s, i)[m].id].seEstaCargando = 1 =>
                    t[Sin(s, i)[k].id].seEstaCargando = 1
    BY <1>1, SinOrden DEF EnOrden
  <1>2. ASSUME Tiene(s, i), NEW k \in DOMAIN Sin(s, i), NEW m \in DOMAIN Sin(s, i), k < m,
               Cargando(t, i, 0)[Sin(s, i)[m].id].seEstaCargando = 1
        PROVE  Cargando(t, i, 0)[Sin(s, i)[k].id].seEstaCargando = 1
    <2> DEFINE P == Primera(s, i)
    <2>1. PICK a, b \in DOMAIN s :
              /\ a < b /\ Sin(s, i)[k] = s[a] /\ Sin(s, i)[m] = s[b] /\ a # P /\ b # P
      BY <1>2, SinOrden
    <2>2. P \in DOMAIN s /\ s[P].id = i
      BY <1>2, PrimeraEsta
    <2>3. Len(s) \in Nat /\ DOMAIN s = 1 .. Len(s) /\ Len(t) \in Nat
      BY LenProperties
    <2> HIDE DEF P
    <2>4. s[a].id \in 1 .. Len(t) /\ s[b].id \in 1 .. Len(t) /\ i \in 1 .. Len(t)
      BY <2>2, <2>3, ElementOfSeq, CreadosObjetos
    <2>5. s[a].id # i /\ s[b].id # i
      <3>1. a < P \/ P < a
        BY <2>1, <2>2, <2>3
      <3>2. b < P \/ P < b
        BY <2>1, <2>2, <2>3
      <3>3. s[a].id < i \/ i < s[a].id
        BY <2>1, <2>2, <3>1 DEF EnOrden
      <3>4. s[b].id < i \/ i < s[b].id
        BY <2>1, <2>2, <3>2 DEF EnOrden
      <3> QED
        BY <2>4, <3>3, <3>4
    <2>6. t[s[b].id].seEstaCargando = 1
      BY <1>2, <2>1, <2>4, <2>5, CargandoEn
    <2>7. t[s[a].id].seEstaCargando = 1
      BY <2>1, <2>6 DEF EnOrden
    <2> QED
      BY <2>1, <2>4, <2>5, <2>7, CargandoEn
  <1> QED
    BY <1>1, <1>2 DEF EnOrden

(* Queueing the newest process, then marking the first one not marked. *)
LEMMA AgregarEnOrden ==
    ASSUME NEW n \in Nat, NEW s \in Seq(Creados(n)), NEW t0 \in Seq(DTBs), Len(t0) = n,
           EnOrden(s, t0),
           NEW d \in DTBs, d.seEstaCargando = 0, NEW p, p.id = n + 1
    PROVE  EnOrden(Append(s, p), Append(t0, d))
  <1> DEFINE r == Append(s, p)
             t == Append(t0, d)
  <1>1. /\ Len(s) \in Nat /\ DOMAIN s = 1 .. Len(s) /\ DOMAIN t0 = 1 .. n
        /\ \A k \in 1 .. Len(s) : s[k].id \in 1 .. n
    BY LenProperties, ElementOfSeq, CreadosObjetos
  <1>2. /\ DOMAIN r = 1 .. (Len(s) + 1) /\ r[Len(s) + 1].id = n + 1
        /\ \A k \in 1 .. Len(s) : r[k] = s[k]
    BY <1>1
  <1>3. /\ t[n + 1].seEstaCargando = 0
        /\ \A j \in 1 .. n : t[j] = t0[j]
    BY <1>1
  <1> HIDE DEF r, t
  <1>4. ASSUME NEW k \in DOMAIN r, NEW m \in DOMAIN r, k < m
        PROVE  /\ r[k].id < r[m].id
               /\ t[r[m].id].seEstaCargando = 1 => t[r[k].id].seEstaCargando = 1
    <2>1. k \in 1 .. Len(s) /\ r[k] = s[k] /\ r[k].id \in 1 .. n
      BY <1>1, <1>2, <1>4
    <2>2. CASE m \in 1 .. Len(s)
      <3>1. r[m] = s[m] /\ r[m].id \in 1 .. n
        BY <1>1, <1>2, <2>2
      <3> QED
        BY <1>1, <1>3, <1>4, <2>1, <2>2, <3>1 DEF EnOrden
    <2>3. CASE m = Len(s) + 1
      BY <1>2, <1>3, <2>1, <2>3
    <2> QED
      BY <1>1, <1>2, <2>2, <2>3
  <1> QED
    BY <1>4 DEF EnOrden, r, t

LEMMA MarcarEnOrden ==
    ASSUME NEW t \in Seq(DTBs), NEW s \in Seq(Creados(Len(t))), EnOrden(s, t),
           NEW k \in 1 .. Len(s), NEW i, i = s[k].id, t[i].seEstaCargando # 1,
           \A m \in 1 .. (k - 1) : t[s[m].id].seEstaCargando = 1
    PROVE  EnOrden(s, Cargando(t, i, 1))
  <1>1. /\ Len(s) \in Nat /\ DOMAIN s = 1 .. Len(s) /\ Len(t) \in Nat
        /\ \A m \in 1 .. Len(s) : s[m].id \in 1 .. Len(t)
    BY LenProperties, ElementOfSeq, CreadosObjetos
  <1> DEFINE u == Cargando(t, i, 1)
  <1>2. \A j \in 1 .. Len(t) : u[j].seEstaCargando = IF j = i THEN 1 ELSE t[j].seEstaCargando
    BY <1>1, CargandoEn
  <1> HIDE DEF u
  <1>3. ASSUME NEW a \in DOMAIN s, NEW b \in DOMAIN s, a < b, u[s[b].id].seEstaCargando = 1
        PROVE  u[s[a].id].seEstaCargando = 1
    <2>1. CASE s[b].id = i
      <3>1. b = k
        <4>1. b < k => s[b].id < s[k].id
          BY <1>1 DEF EnOrden
        <4>2. k < b => s[k].id < s[b].id
          BY <1>1 DEF EnOrden
        <4> QED
          BY <1>1, <2>1, <4>1, <4>2
      <3>2. t[s[a].id].seEstaCargando = 1
        BY <1>1, <1>3, <3>1, SMTT(30)
      <3> QED
        BY <1>1, <1>2, <3>2
    <2>2. CASE s[b].id # i
      <3>1. t[s[b].id].seEstaCargando = 1
        BY <1>1, <1>2, <1>3, <2>2
      <3>2. t[s[a].id].seEstaCargando = 1
        BY <1>3, <3>1 DEF EnOrden
      <3> QED
        BY <1>1, <1>2, <3>2
    <2> QED
      BY <2>1, <2>2
  <1> QED
    BY <1>3 DEF EnOrden, u

LEMMA EjecutarFIFO ==
    ASSUME TipoInductivo, CargaFIFO, NEW e \in Escriptorios, Ejecutar(e)
    PROVE  CargaFIFO'
  <1> USE DEF TipoInductivo, TypeOK
  <1> DEFINE n == Len(dtb)
             d == [socketProceso |-> CPULibre, pathEscriptorio |-> e, seEstaCargando |-> 0]
             nuevos == Append(procesos_nuevos, Real(idGlobal))
             t == Append(dtb, d)
             i == ACargar(nuevos, t)
  <1>1. n \in Nat /\ n + 1 \in Ids /\ idGlobal = n + 1 /\ CPUs # tieneDTBasociado
    BY DTBCreado DEF Ejecutar, idGlobal, Ids
  <1>2. d \in DTBs /\ d.seEstaCargando = 0
    BY <1>1, CPULibreTipo DEF SAFATypeOK, DTBs
  <1>3. dtb \in Seq(DTBs) /\ procesos_nuevos \in Seq(Creados(n))
    BY DEF SAFATypeOK, Creacion
  <1>4. EnOrden(procesos_nuevos, dtb)
    BY DEF CargaFIFO, EnOrden
  <1>5. Real(n + 1).id = n + 1 /\ Real(n + 1) \in Creados(n + 1)
    BY <1>1 DEF Real, Creados, Objetos
  <1>6. nuevos = Append(procesos_nuevos, Real(n + 1))
    BY <1>1
  <1>7. procesos_nuevos' = nuevos /\ (dtb' = t \/ dtb' = Cargando(t, i, 1))
    BY DEF Ejecutar, NuevoAlFinal
  <1> HIDE DEF d
  <1>8. EnOrden(nuevos, t)
    BY <1>1, <1>2, <1>3, <1>4, <1>5, <1>6, AgregarEnOrden
  <1>9. t \in Seq(DTBs) /\ Len(t) = n + 1 /\ t[n + 1] = d
    BY <1>2, <1>3, AppendProperties
  <1>10. procesos_nuevos \in Seq(Creados(n + 1))
    <2>1. Creados(n) \subseteq Creados(n + 1)
      BY <1>1, RedAssumption DEF Creados, Objetos, Ids
    <2> QED
      BY <1>3, <2>1, SeqMonotonic
  <1>11. nuevos \in Seq(Creados(n + 1)) /\ nuevos # <<>> /\ nuevos[Len(nuevos)].id = n + 1
    <2> HIDE DEF nuevos
    <2> QED
      BY <1>5, <1>6, <1>10, AppendProperties
  <1> HIDE DEF t, nuevos
  <1>12. PICK k \in 1 .. Len(nuevos) :
              /\ i = nuevos[k].id
              /\ t[nuevos[k].id].seEstaCargando # 1
              /\ \A m \in 1 .. (k - 1) : t[nuevos[m].id].seEstaCargando = 1
    <2>1. t[nuevos[Len(nuevos)].id].seEstaCargando # 1 /\ n + 1 \in Nat
      BY <1>1, <1>2, <1>9, <1>11
    <2> QED
      BY <1>11, <2>1, ACargarPrimera
  <1> HIDE DEF i
  <1>13. EnOrden(nuevos, Cargando(t, i, 1))
    BY <1>8, <1>9, <1>11, <1>12, MarcarEnOrden
  <1> QED
    BY <1>7, <1>8, <1>13 DEF CargaFIFO, EnOrden

(* Every other step leaves the queue and the marks alone. *)
LEMMA PasoFIFO == TipoInductivo /\ CargaFIFO /\ [Next]_vars => CargaFIFO'
  <1> SUFFICES ASSUME TipoInductivo, CargaFIFO, [Next]_vars PROVE CargaFIFO'
    OBVIOUS
  <1> USE DEF TipoInductivo, TypeOK
  <1>1. /\ EnOrden(procesos_nuevos, dtb)
        /\ dtb \in Seq(DTBs) /\ procesos_nuevos \in Seq(Creados(Len(dtb)))
    BY DEF CargaFIFO, EnOrden, SAFATypeOK, Creacion
  <1>2. CASE UNCHANGED <<procesos_nuevos, dtb>>
    BY <1>2 DEF CargaFIFO
  <1>3. ASSUME NEW e \in Escriptorios, Ejecutar(e) PROVE CargaFIFO'
    BY <1>3, EjecutarFIFO
  <1>4. ASSUME NEW i \in Ids, Finalizar(i) PROVE CargaFIFO'
    <2>1. procesos_nuevos' = Sin(procesos_nuevos, i) /\ dtb' = dtb
      BY <1>4 DEF Finalizar
    <2> QED
      BY <1>1, <2>1, SinEnOrden, SMTT(30) DEF CargaFIFO, EnOrden
  <1>5. CASE AbrirOk \/ AbrirMal
    <2>1. /\ Tiene(procesos_nuevos, IdRespuesta)
          /\ procesos_nuevos' = Sin(procesos_nuevos, IdRespuesta)
          /\ dtb' = Cargando(dtb, IdRespuesta, 0)
      BY <1>5 DEF AbrirOk, AbrirMal
    <2> QED
      BY <1>1, <2>1, SinEnOrden DEF CargaFIFO, EnOrden
  <1>6. ASSUME NEW causa, Caer(causa) PROVE UNCHANGED <<procesos_nuevos, dtb>>
    BY <1>6 DEF Caer, colas
  <1>7. CASE PasoSAFA(Consola)
    <2>1. ASSUME NEW i \in Ids, FinalizarEnEjecucion(i) \/ FinalizarListoSinEjecucion(i)
                                \/ StatusProceso(i) \/ StatusCae(i)
          PROVE  UNCHANGED <<procesos_nuevos, dtb>>
      BY <1>6, <2>1 DEF FinalizarEnEjecucion, FinalizarListoSinEjecucion, StatusProceso,
                        StatusCae, colas
    <2>2. EjecutarSinCPU \/ StatusColasCae => UNCHANGED <<procesos_nuevos, dtb>>
      BY <1>6 DEF EjecutarSinCPU, StatusColasCae
    <2> QED
      BY <1>2, <1>3, <1>4, <1>7, <2>1, <2>2 DEF PasoSAFA, Consola
  <1>8. CASE PasoSAFA(PCP)
    BY <1>2, <1>6, <1>8 DEF PasoSAFA, PCP, PCPSeleccionar, PCPEnviar, PCPQuitar, PCPCae, colas
  <1>9. CASE PasoSAFA(EjecutarProceso)
    BY <1>2, <1>9 DEF PasoSAFA, EjecutarProceso, EjecDespertar, EjecCondicion, EjecOrdenar, colas
  <1>10. CASE PasoSAFA(ConexionDAM)
    BY <1>2, <1>5, <1>6, <1>10 DEF PasoSAFA, ConexionDAM, AbrirSinNuevo, OperacionOk,
                                   OperacionOkSinBloqueado, OperacionMal
  <1>11. ASSUME NEW c \in CPUs, PasoSAFA(ConexionCPU(c)) PROVE CargaFIFO'
    <2>1. CASE \/ FinDeScript(c) \/ FinIgnorado(c) \/ FinDeSentencia(c) \/ FinDeQuantum(c)
               \/ DummyEnviado(c) \/ Bloquear(c)
      BY <1>2, <2>1 DEF FinDeScript, FinIgnorado, FinDeSentencia, FinDeQuantum, DummyEnviado,
                        Bloquear, safa, colas
    <2>2. CASE \/ FinDeQuantumSinProceso(c) \/ VerificarSiFinalizar(c) \/ DummySinProceso(c)
               \/ BloquearSinProceso(c) \/ Recurso(c)
      BY <1>2, <1>6, <2>2 DEF FinDeQuantumSinProceso, VerificarSiFinalizar, DummySinProceso,
                              BloquearSinProceso, Recurso, CaerAlRecibir
    <2> QED
      BY <1>11, <2>1, <2>2 DEF PasoSAFA, ConexionCPU
  <1>12. ASSUME NEW c \in CPUs, PasoCPU(c) \/ PasoDAM(c) PROVE CargaFIFO'
    BY <1>2, <1>12 DEF PasoCPU, PasoDAM, safa, colas
  <1>13. CASE UNCHANGED vars
    BY <1>2, <1>13 DEF vars, safa, colas
  <1> QED
    BY <1>7, <1>8, <1>9, <1>10, <1>11, <1>12, <1>13 DEF Next

(* "PLP planifica segun FIFO": however the console, the answers of DAM and the end  *)
(* of other loads interleave, the new processes are queued in the order in which    *)
(* the operator created them and none is loaded before one that came earlier.       *)
THEOREM PlanificadorLargoPlazoFIFO == Spec => []CargaFIFO
  <1>1. Init => CargaFIFO
    BY DEF Init, InitSAFA, CargaFIFO
  <1> QED
    BY <1>1, Inicio, Paso, PasoFIFO, PTL DEF Spec
================================================================================
