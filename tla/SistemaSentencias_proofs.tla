----------------------- MODULE SistemaSentencias_proofs -----------------------
(* Proofs about sem_CPU_ejecutoUnaSentencia, the one token that lets a CPU run a *)
(* sentence: it is never duplicated, for every number of CPUs and of processes   *)
(* and every command, while no script has a crear and no path an order in it.    *)
EXTENDS Sistema_proofs, Secuencias_proofs

--------------------------------------------------------------------------------
(* Tokens on a connection *)

Ordenes(s) == Cardinality(EnCamino(s, {Orden}))
Avisos(s) == Cardinality(EnCamino(s, Letras \ {"d"}))
Tokens(a, d, h) == Ordenes(a) + Avisos(d) + (IF h = "avisoB" THEN 1 ELSE 0)

LEMMA CaminoLugares == \A ch, m : EnCamino(ch, m) = Lugares(ch, m)
  BY DEF EnCamino, Lugares

LEMMA OrdenesDe ==
    ASSUME NEW s \in Seq(Mensajes)
    PROVE  /\ Ordenes(s) \in Nat
           /\ \A m \in Mensajes : Ordenes(Append(s, m)) = Ordenes(s) + IF m = Orden THEN 1 ELSE 0
           /\ s # <<>> => Ordenes(Tail(s)) = Ordenes(s) - IF Head(s) = Orden THEN 1 ELSE 0
  <1>1. \A t : Ordenes(t) = Cardinality(Lugares(t, {Orden}))
    BY CaminoLugares DEF Ordenes
  <1>2. \A m : m \in {Orden} <=> m = Orden
    OBVIOUS
  <1>3. Ordenes(s) \in Nat
    BY <1>1, PosicionesFinitas
  <1>4. ASSUME NEW m \in Mensajes
        PROVE  Ordenes(Append(s, m)) = Ordenes(s) + IF m = Orden THEN 1 ELSE 0
    BY <1>1, <1>2, PosicionesAppend
  <1>5. ASSUME s # <<>> PROVE Ordenes(Tail(s)) = Ordenes(s) - IF Head(s) = Orden THEN 1 ELSE 0
    BY <1>1, <1>2, <1>5, PosicionesTail
  <1> QED
    BY <1>3, <1>4, <1>5

LEMMA AvisosDe ==
    ASSUME NEW s \in Seq(Letras)
    PROVE  /\ Avisos(s) \in Nat
           /\ \A m \in Letras : Avisos(Append(s, m)) = Avisos(s) + IF m = "d" THEN 0 ELSE 1
           /\ s # <<>> => Avisos(Tail(s)) = Avisos(s) - IF Head(s) = "d" THEN 0 ELSE 1
  <1> DEFINE V == Letras \ {"d"}
  <1>1. \A t : Avisos(t) = Cardinality(Lugares(t, V))
    BY CaminoLugares DEF Avisos
  <1>2. \A m \in Letras : m \in V <=> m # "d"
    OBVIOUS
  <1> HIDE DEF V
  <1>3. Avisos(s) \in Nat
    BY <1>1, PosicionesFinitas
  <1>4. ASSUME NEW m \in Letras
        PROVE  Avisos(Append(s, m)) = Avisos(s) + IF m = "d" THEN 0 ELSE 1
    <2>1. Avisos(Append(s, m)) = Avisos(s) + IF m \in V THEN 1 ELSE 0
      BY <1>1, PosicionesAppend
    <2> QED
      BY <1>2, <2>1
  <1>5. ASSUME s # <<>> PROVE Avisos(Tail(s)) = Avisos(s) - IF Head(s) = "d" THEN 0 ELSE 1
    <2>1. Avisos(Tail(s)) = Avisos(s) - IF Head(s) \in V THEN 1 ELSE 0
      BY <1>1, <1>5, PosicionesTail
    <2>2. Head(s) \in Letras
      BY <1>5, HeadTailProperties
    <2> QED
      BY <1>2, <2>1, <2>2
  <1> QED
    BY <1>3, <1>4, <1>5

(* The tokens a CPU has, before and after a step. *)
LEMMA TokensTipo ==
    ASSUME NEW a \in Seq(Mensajes), NEW d \in Seq(Letras), NEW h
    PROVE  Tokens(a, d, h) \in Nat
  BY OrdenesDe, AvisosDe DEF Tokens

LEMMA TokensDe ==
    /\ \A c : TokensEn(c) = Tokens(aCPU[c], deCPU[c], hilo[c])
    /\ \A c : TokensEn(c)' = Tokens(aCPU'[c], deCPU'[c], hilo'[c])
  BY DEF TokensEn, Tokens, Ordenes, Avisos

LEMMA TokensNat ==
    ASSUME TypeOK, TypeOK'
    PROVE  /\ sem_CPU_ejecutoUnaSentencia \in Nat /\ sem_CPU_ejecutoUnaSentencia' \in Nat
           /\ \A c \in CPUs : TokensEn(c) \in Nat /\ TokensEn(c)' \in Nat
  <1>1. /\ aCPU \in [CPUs -> Seq(Mensajes)] /\ deCPU \in [CPUs -> Seq(Letras)]
        /\ aCPU' \in [CPUs -> Seq(Mensajes)] /\ deCPU' \in [CPUs -> Seq(Letras)]
        /\ sem_CPU_ejecutoUnaSentencia \in Nat /\ sem_CPU_ejecutoUnaSentencia' \in Nat
    BY DEF TypeOK, RedTypeOK, SAFATypeOK
  <1>2. ASSUME NEW c \in CPUs PROVE TokensEn(c) \in Nat /\ TokensEn(c)' \in Nat
    <2>1. /\ aCPU[c] \in Seq(Mensajes) /\ deCPU[c] \in Seq(Letras)
          /\ aCPU'[c] \in Seq(Mensajes) /\ deCPU'[c] \in Seq(Letras)
      BY <1>1
    <2> QED
      BY <2>1, TokensDe, TokensTipo
  <1> QED
    BY <1>1, <1>2

(* A step that moves the tokens of one CPU, and makes none, keeps at most one. *)
LEMMA UnTokenMas ==
    ASSUME TypeOK, TypeOK', UnaSentenciaPorVez, NEW c \in CPUs,
           \A d \in CPUs : d # c => TokensEn(d)' = TokensEn(d),
           sem_CPU_ejecutoUnaSentencia' + TokensEn(c)' <= sem_CPU_ejecutoUnaSentencia + TokensEn(c)
    PROVE  UnaSentenciaPorVez'
  <1> DEFINE s == sem_CPU_ejecutoUnaSentencia
             r == sem_CPU_ejecutoUnaSentencia'
             T(d) == TokensEn(d)
             U(d) == TokensEn(d)'
  <1>1. s \in Nat /\ r \in Nat /\ \A d \in CPUs : T(d) \in Nat /\ U(d) \in Nat
    BY TokensNat
  <1>2. /\ s <= 1 /\ (\A d \in CPUs : s + T(d) <= 1)
        /\ \A d, e \in CPUs : T(d) > 0 /\ T(e) > 0 => d = e
    BY DEF UnaSentenciaPorVez
  <1>3. (\A d \in CPUs : d # c => U(d) = T(d)) /\ r + U(c) <= s + T(c)
    OBVIOUS
  <1> HIDE DEF s, r, T, U
  <1>4. r <= 1 /\ r + U(c) <= 1
    BY <1>1, <1>2, <1>3
  <1>5. ASSUME NEW d \in CPUs PROVE r + U(d) <= 1
    <2>1. CASE d = c
      BY <1>4, <2>1
    <2>2. CASE d # c /\ T(d) = 0
      BY <1>1, <1>3, <1>4, <2>2
    <2>3. CASE d # c /\ T(d) > 0
      <3>1. s = 0 /\ T(c) = 0 /\ T(d) <= 1
        BY <1>1, <1>2, <2>3
      <3>2. r = 0
        BY <1>1, <1>3, <3>1
      <3> QED
        BY <1>1, <1>3, <2>3, <3>1, <3>2
    <2> QED
      BY <1>1, <2>1, <2>2, <2>3
  <1>6. ASSUME NEW d \in CPUs, NEW e \in CPUs, U(d) > 0, U(e) > 0 PROVE d = e
    <2>1. CASE d = c /\ e # c
      <3>1. T(e) > 0
        BY <1>3, <1>6, <2>1
      <3>2. s = 0 /\ T(c) = 0
        BY <1>1, <1>2, <2>1, <3>1
      <3> QED
        BY <1>1, <1>3, <1>6, <2>1, <3>2
    <2>2. CASE e = c /\ d # c
      <3>1. T(d) > 0
        BY <1>3, <1>6, <2>2
      <3>2. s = 0 /\ T(c) = 0
        BY <1>1, <1>2, <2>2, <3>1
      <3> QED
        BY <1>1, <1>3, <1>6, <2>2, <3>2
    <2>3. CASE d # c /\ e # c
      BY <1>2, <1>3, <1>6, <2>3
    <2> QED
      BY <2>1, <2>2, <2>3
  <1> QED
    BY <1>4, <1>5, <1>6 DEF UnaSentenciaPorVez, r, U

LEMMA SinTokens ==
    ASSUME UnaSentenciaPorVez, UNCHANGED <<aCPU, deCPU, hilo, sem_CPU_ejecutoUnaSentencia>>
    PROVE  UnaSentenciaPorVez'
  <1>1. \A c : TokensEn(c)' = TokensEn(c)
    BY TokensDe
  <1> QED
    BY <1>1 DEF UnaSentenciaPorVez

--------------------------------------------------------------------------------
(* The workloads: a crear hands back a second token, and a path may hold one. *)

SinCrear == \A e \in Escriptorios : \A k \in DOMAIN Codigo[e] : Codigo[e][k].op # "crear"

(* The inductive invariant: nobody asked for a crear; a CPU whose flagError is set *)
(* can run no sentence, or its failure would be told twice.                        *)
Otros == {p \in Paquetes : p.tipoOperacion # 8}
SinPedidosDeCrear == pedidos \in [CPUs -> Seq(Otros)] /\ deDAM \in Seq(Otros)
BanderaLimpia == FM9Vivo => \A c \in CPUs : flagError[c] = 0

SentenciasInductivo == UnaSentenciaPorVez /\ SinPedidosDeCrear /\ BanderaLimpia

--------------------------------------------------------------------------------
(* S-AFA *)

(* a message taken from a CPU: its token goes back to the semaphore, or is lost *)
LEMMA ConexionCPUToken ==
    ASSUME TypeOK, TypeOK', UnaSentenciaPorVez, NEW c \in CPUs, ConexionCPU(c), UNCHANGED hilo
    PROVE  UnaSentenciaPorVez'
  <1>0. PICK letras : Llega(c, letras)
    BY DEF ConexionCPU, FinDeScript, FinIgnorado, FinDeSentencia, FinDeQuantum, FinDeQuantumSinProceso,
           VerificarSiFinalizar, DummyEnviado, DummySinProceso, Bloquear, BloquearSinProceso, Recurso
  <1>1. /\ deCPU[c] # <<>> /\ deCPU[c] \in Seq(Letras) /\ Head(deCPU[c]) \in Letras
        /\ deCPU \in [CPUs -> Seq(Letras)] /\ sem_CPU_ejecutoUnaSentencia \in Nat
        /\ sem_CPU_ejecutoUnaSentencia' \in Nat
    <2>1. deCPU \in [CPUs -> Seq(Letras)] /\ deCPU[c] # <<>>
      BY <1>0 DEF TypeOK, RedTypeOK, Llega
    <2>2. deCPU[c] \in Seq(Letras)
      BY <2>1
    <2>3. Head(deCPU[c]) \in Letras
      BY <2>1, <2>2, HeadTailProperties
    <2> QED
      BY <2>1, <2>2, <2>3 DEF TypeOK, SAFATypeOK
  <1>2. Recibido(c)
    BY DEF ConexionCPU, FinDeScript, FinIgnorado, FinDeSentencia, FinDeQuantum, FinDeQuantumSinProceso,
           VerificarSiFinalizar, DummyEnviado, DummySinProceso, Bloquear, BloquearSinProceso, Recurso,
           CaerAlRecibir
  <1>3. deCPU'[c] = Tail(deCPU[c]) /\ (\A d \in CPUs : d # c => deCPU'[d] = deCPU[d]) /\ aCPU' = aCPU
    BY <1>1, <1>2 DEF Recibido, Consumir
  <1>4. \A d \in CPUs : d # c => TokensEn(d)' = TokensEn(d)
    BY <1>3, TokensDe
  <1> DEFINE s == sem_CPU_ejecutoUnaSentencia
             r == sem_CPU_ejecutoUnaSentencia'
             x == IF Head(deCPU[c]) = "d" THEN 0 ELSE 1
  <1>5. r <= s + x
    <2>1. CASE r = s
      BY <1>1, <2>1
    <2>2. CASE r = s + 1 /\ Head(deCPU[c]) # "d"
      BY <1>1, <2>2
    <2>3. CASE FinDeScript(c) \/ FinDeSentencia(c) \/ FinDeQuantum(c) \/ Bloquear(c)
      <3>1. r = s + 1
        BY <2>3 DEF FinDeScript, FinDeSentencia, FinDeQuantum, Bloquear
      <3>2. Head(deCPU[c]) \in {"f", "e", "r", "b"}
        BY <2>3 DEF FinDeScript, FinDeSentencia, FinDeQuantum, Bloquear, Llega
      <3> QED
        BY <2>2, <3>1, <3>2
    <2>4. CASE FinIgnorado(c) \/ DummyEnviado(c)
      BY <2>1, <2>4 DEF FinIgnorado, DummyEnviado, safa, sems
    <2>5. CASE \/ FinDeQuantumSinProceso(c) \/ VerificarSiFinalizar(c) \/ DummySinProceso(c)
               \/ BloquearSinProceso(c) \/ Recurso(c)
      <3>1. PICK causa : Caer(causa)
        BY <2>5 DEF FinDeQuantumSinProceso, VerificarSiFinalizar, DummySinProceso, BloquearSinProceso,
                    Recurso, CaerAlRecibir
      <3> QED
        BY <2>1, <3>1 DEF Caer, sems
    <2> QED
      BY <2>3, <2>4, <2>5 DEF ConexionCPU
  <1>6. /\ Avisos(deCPU'[c]) = Avisos(deCPU[c]) - x /\ Avisos(deCPU[c]) \in Nat
        /\ Ordenes(aCPU[c]) \in Nat /\ x \in {0, 1}
    <2>1. aCPU[c] \in Seq(Mensajes)
      BY DEF TypeOK, RedTypeOK
    <2> QED
      BY <1>1, <1>3, <2>1, AvisosDe, OrdenesDe
  <1>7. r + TokensEn(c)' <= s + TokensEn(c)
    <2> DEFINE A == Avisos(deCPU[c])
               B == Avisos(deCPU'[c])
               O == Ordenes(aCPU[c])
               H == IF hilo[c] = "avisoB" THEN 1 ELSE 0
    <2>1. TokensEn(c) = O + A + H /\ TokensEn(c)' = O + B + H
      BY <1>3, TokensDe DEF Tokens
    <2>2. B = A - x /\ A \in Nat /\ O \in Nat /\ H \in Nat /\ x \in {0, 1} /\ r <= s + x /\ s \in Nat /\ r \in Nat
      BY <1>1, <1>5, <1>6
    <2> HIDE DEF A, B, O, H, x, s, r
    <2> QED
      BY <2>1, <2>2
  <1> QED
    BY <1>4, <1>7, UnTokenMas

(* an order is sent against the token; a process carries none *)
LEMMA EnviosToken ==
    ASSUME TypeOK, TypeOK', Creacion, UnaSentenciaPorVez, PCP \/ EjecutarProceso, UNCHANGED hilo
    PROVE  UnaSentenciaPorVez'
  <1> DEFINE s == sem_CPU_ejecutoUnaSentencia
             r == sem_CPU_ejecutoUnaSentencia'
  <1>1. /\ aCPU \in [CPUs -> Seq(Mensajes)] /\ s \in Nat /\ r \in Nat
        /\ \A c \in CPUs : TokensEn(c) \in Nat
    BY TokensNat DEF TypeOK, RedTypeOK
  <1>2. ASSUME NEW c \in CPUs, NEW m \in Mensajes, aCPU' = Enviar(aCPU, c, m), deCPU' = deCPU,
               r = s - IF m = Orden THEN 1 ELSE 0
        PROVE  UnaSentenciaPorVez'
    <2>1. aCPU'[c] = Append(aCPU[c], m) /\ (\A d \in CPUs : d # c => aCPU'[d] = aCPU[d]) /\ aCPU[c] \in Seq(Mensajes)
      BY <1>1, <1>2 DEF Enviar
    <2>2. \A d \in CPUs : d # c => TokensEn(d)' = TokensEn(d)
      BY <1>2, <2>1, TokensDe
    <2>3. TokensEn(c)' = TokensEn(c) + IF m = Orden THEN 1 ELSE 0
      <3> DEFINE A == Avisos(deCPU[c])
                 B == Ordenes(aCPU'[c])
                 O == Ordenes(aCPU[c])
                 H == IF hilo[c] = "avisoB" THEN 1 ELSE 0
                 x == IF m = Orden THEN 1 ELSE 0
      <3>1. TokensEn(c) = O + A + H /\ TokensEn(c)' = B + A + H
        BY <1>2, TokensDe DEF Tokens
      <3>2. B = O + x /\ O \in Nat
        BY <2>1, OrdenesDe
      <3>3. A \in Nat /\ H \in Nat /\ x \in Nat
        <4>1. deCPU[c] \in Seq(Letras)
          BY DEF TypeOK, RedTypeOK
        <4> QED
          BY <4>1, AvisosDe
      <3> HIDE DEF A, B, O, H, x
      <3>4. TokensEn(c)' = TokensEn(c) + x
        BY <3>1, <3>2, <3>3
      <3> QED
        BY <3>4 DEF x
    <2>4. r + TokensEn(c)' <= s + TokensEn(c)
      <3> DEFINE x == IF m = Orden THEN 1 ELSE 0
      <3>1. x \in Nat /\ r = s - x /\ TokensEn(c)' = TokensEn(c) + x /\ TokensEn(c) \in Nat
        BY <1>1, <1>2, <2>3
      <3> HIDE DEF x, s, r
      <3> QED
        BY <1>1, <3>1
    <2> QED
      BY <2>2, <2>4, UnTokenMas
  <1>3. CASE PCPEnviar
    <2> DEFINE p == procesoEnEjecucion
               d == dtb[p.id]
               m == EnvioProceso(p, d.pathEscriptorio)
    <2>1. p \in Objetos /\ d.socketProceso \in CPUs /\ d.pathEscriptorio \in Escriptorios
      BY <1>3, CreacionObjetos, DTBCreado DEF PCPEnviar, TypeOK
    <2>2. m \in Mensajes /\ m # Orden
      <3>1. m \in Mensajes
        BY <2>1 DEF Mensajes
      <3>2. m.tipo = "proceso" /\ Orden.tipo = "orden"
        BY DEF EnvioProceso, Orden
      <3> QED
        BY <3>1, <3>2
    <2>3. aCPU' = Enviar(aCPU, d.socketProceso, m) /\ deCPU' = deCPU /\ r = s
      BY <1>3 DEF PCPEnviar, sems
    <2> HIDE DEF m, d
    <2> QED
      BY <1>1, <1>2, <2>1, <2>2, <2>3
  <1>4. CASE EjecOrdenar
    <2>1. s > 0 /\ r = s - 1 /\ deCPU' = deCPU
      BY <1>4 DEF EjecOrdenar, Disponible
    <2>2. CASE procesoEnEjecucion # Nada
      <3> DEFINE c == dtb[procesoEnEjecucion.id].socketProceso
      <3>1. c \in CPUs
        BY <2>2, CreacionObjetos, DTBCreado DEF TypeOK
      <3>2. aCPU' = Enviar(aCPU, c, Orden)
        BY <1>4, <2>2 DEF EjecOrdenar
      <3>3. Orden \in Mensajes
        BY DEF Mensajes
      <3> HIDE DEF c
      <3> QED
        BY <1>2, <2>1, <3>1, <3>2, <3>3
    <2>3. CASE procesoEnEjecucion = Nada
      <3>1. aCPU' = aCPU
        BY <1>4, <2>3 DEF EjecOrdenar
      <3>2. \A c : TokensEn(c)' = TokensEn(c)
        BY <2>1, <3>1, TokensDe
      <3>3. PICK c \in CPUs : TRUE
        BY RedAssumption
      <3>4. r + TokensEn(c)' <= s + TokensEn(c)
        BY <1>1, <2>1, <3>2
      <3> QED
        BY <3>2, <3>4, UnTokenMas
    <2> QED
      BY <2>2, <2>3
  <1>5. CASE \/ PCPSeleccionar \/ PCPQuitar \/ PCPCae \/ EjecDespertar \/ EjecCondicion
    <2>1. UNCHANGED <<aCPU, deCPU, sem_CPU_ejecutoUnaSentencia>>
      BY <1>5 DEF PCPSeleccionar, PCPQuitar, PCPCae, EjecDespertar, EjecCondicion, Caer, red, sems
    <2> QED
      BY <2>1, SinTokens
  <1> QED
    BY <1>3, <1>4, <1>5 DEF PCP, EjecutarProceso

--------------------------------------------------------------------------------
(* The CPUs *)

Bloqueando(h) == IF h = "avisoB" THEN 1 ELSE 0

LEMMA SoloEsaCPU ==
    ASSUME TypeOK, TypeOK', UnaSentenciaPorVez, NEW c \in CPUs,
           \A d \in CPUs : d # c => aCPU'[d] = aCPU[d] /\ deCPU'[d] = deCPU[d] /\ hilo'[d] = hilo[d],
           sem_CPU_ejecutoUnaSentencia' = sem_CPU_ejecutoUnaSentencia,
           Ordenes(aCPU'[c]) + Avisos(deCPU'[c]) + Bloqueando(hilo'[c])
             <= Ordenes(aCPU[c]) + Avisos(deCPU[c]) + Bloqueando(hilo[c])
    PROVE  UnaSentenciaPorVez'
  <1>1. \A d \in CPUs : d # c => TokensEn(d)' = TokensEn(d)
    BY TokensDe
  <1>2. TokensEn(c)' <= TokensEn(c)
    BY TokensDe DEF Tokens, Bloqueando
  <1>3. sem_CPU_ejecutoUnaSentencia' + TokensEn(c)' <= sem_CPU_ejecutoUnaSentencia + TokensEn(c)
    BY <1>2, TokensNat
  <1> QED
    BY <1>1, <1>3, UnTokenMas

(* an order read: at most one message to S-AFA, or one to come *)
LEMMA OrdenLeida ==
    ASSUME TypeOK, TypeOK', UnaSentenciaPorVez, NEW c \in CPUs, LlegaOrden(c),
           sem_CPU_ejecutoUnaSentencia' = sem_CPU_ejecutoUnaSentencia,
           NEW h, hilo' = [hilo EXCEPT ![c] = h],
           \/ deCPU' = deCPU
           \/ h # "avisoB" /\ \E letra \in Letras : Avisar(c, letra)
    PROVE  UnaSentenciaPorVez'
  <1>1. /\ aCPU \in [CPUs -> Seq(Mensajes)] /\ deCPU \in [CPUs -> Seq(Letras)] /\ hilo \in [CPUs -> Estados]
        /\ hilo[c] = "orden" /\ aCPU[c] # <<>> /\ Head(aCPU[c]) = Orden /\ aCPU' = Consumir(aCPU, c)
    BY DEF TypeOK, RedTypeOK, CPUTypeOK, LlegaOrden
  <1>2. aCPU[c] \in Seq(Mensajes) /\ deCPU[c] \in Seq(Letras)
    BY <1>1
  <1>3. aCPU'[c] = Tail(aCPU[c]) /\ \A d \in CPUs : d # c => aCPU'[d] = aCPU[d]
    BY <1>1 DEF Consumir
  <1> DEFINE O == Ordenes(aCPU[c])
             A == Avisos(deCPU[c])
             B == Avisos(deCPU'[c])
             H == Bloqueando(h)
  <1>4. Ordenes(aCPU'[c]) = O - 1 /\ O \in Nat /\ A \in Nat
    BY <1>1, <1>2, <1>3, OrdenesDe, AvisosDe
  <1>5. hilo'[c] = h /\ Bloqueando(hilo[c]) = 0 /\ H \in {0, 1} /\ \A d \in CPUs : d # c => hilo'[d] = hilo[d]
    BY <1>1 DEF Bloqueando
  <1>6. /\ \A d \in CPUs : d # c => deCPU'[d] = deCPU[d]
        /\ B \in Nat /\ B + H <= A + 1
    <2>1. CASE deCPU' = deCPU
      BY <1>4, <1>5, <2>1
    <2>2. ASSUME NEW letra \in Letras, Avisar(c, letra), h # "avisoB"
          PROVE  /\ \A d \in CPUs : d # c => deCPU'[d] = deCPU[d]
                 /\ B \in Nat /\ B + H <= A + 1
      <3>1. deCPU'[c] = Append(deCPU[c], letra) /\ \A d \in CPUs : d # c => deCPU'[d] = deCPU[d]
        BY <1>1, <2>2 DEF Avisar, Enviar
      <3>2. B = A + IF letra = "d" THEN 0 ELSE 1
        BY <1>2, <3>1, AvisosDe
      <3>3. H = 0
        BY <2>2 DEF Bloqueando
      <3> QED
        BY <1>4, <3>1, <3>2, <3>3
    <2> QED
      BY <2>1, <2>2
  <1>7. Ordenes(aCPU'[c]) + B + H <= O + A + Bloqueando(hilo[c])
    <2> HIDE DEF O, A, B, H
    <2> QED
      BY <1>4, <1>5, <1>6
  <1> QED
    BY <1>3, <1>5, <1>6, <1>7, SoloEsaCPU

(* with flagError clear, the failure of a script is told once *)
LEMMA AbortarAvisa ==
    ASSUME TypeOK, NEW c \in CPUs, flagError[c] = 0, Abortar(c)
    PROVE  Avisar(c, "e") /\ hilo' = [hilo EXCEPT ![c] = "proceso"]
  <1>1. deCPU \in [CPUs -> Seq(Letras)] /\ deCPU[c] \in Seq(Letras) /\ "e" \in Letras
    BY DEF TypeOK, RedTypeOK, Letras
  <1>2. deCPU[c] \o <<"e">> = Append(deCPU[c], "e")
    BY <1>1, AppendIsConcat
  <1>3. deCPU' = [deCPU EXCEPT ![c] = @ \o <<"e">>]
    BY DEF Abortar
  <1>4. Avisar(c, "e")
    BY <1>1, <1>2, <1>3 DEF Avisar, Enviar
  <1> QED
    BY <1>4 DEF Abortar, Pasar

(* a process received, or an order taken for one: an order is at most lost *)
LEMMA RecepcionToken ==
    ASSUME TypeOK, TypeOK', UnaSentenciaPorVez, NEW c \in CPUs, ConUno = {},
           sem_CPU_ejecutoUnaSentencia' = sem_CPU_ejecutoUnaSentencia,
           RecibirDummy(c) \/ RecibirReal(c) \/ RecibirBasura(c) \/ IgnorarProceso(c)
    PROVE  UnaSentenciaPorVez'
  <1>1. /\ aCPU \in [CPUs -> Seq(Mensajes)] /\ deCPU \in [CPUs -> Seq(Letras)] /\ hilo \in [CPUs -> Estados]
        /\ aCPU[c] # <<>> /\ deCPU' = deCPU
    BY DEF TypeOK, RedTypeOK, CPUTypeOK, RecibirDummy, RecibirReal, RecibirBasura, IgnorarProceso, RecibeProceso
  <1>2. aCPU[c] \in Seq(Mensajes) /\ deCPU[c] \in Seq(Letras)
    BY <1>1
  <1> DEFINE O == Ordenes(aCPU[c])
             P == Ordenes(aCPU'[c])
             A == Avisos(deCPU[c])
  <1>3. Ordenes(Tail(aCPU[c])) <= O /\ O \in Nat /\ A \in Nat /\ Tail(aCPU[c]) \in Seq(Mensajes)
        /\ Ordenes(Tail(aCPU[c])) \in Nat
    <2>1. O \in Nat /\ A \in Nat /\ Ordenes(Tail(aCPU[c])) = O - IF Head(aCPU[c]) = Orden THEN 1 ELSE 0
      BY <1>1, <1>2, OrdenesDe, AvisosDe
    <2>2. Tail(aCPU[c]) \in Seq(Mensajes)
      BY <1>1, <1>2, HeadTailProperties
    <2>3. Ordenes(Tail(aCPU[c])) \in Nat
      BY <2>2, OrdenesDe
    <2> QED
      BY <2>1, <2>2, <2>3
  <1>4. /\ \A d \in CPUs : d # c => aCPU'[d] = aCPU[d]
        /\ P \in Nat /\ P <= O
    <2>1. CASE aCPU' = Consumir(aCPU, c)
      BY <1>1, <1>3, <2>1 DEF Consumir
    <2>2. CASE Len(aCPU[c]) > 1 /\ aCPU' = [aCPU EXCEPT ![c] = Tail(Tail(@))]
      <3> DEFINE t == Tail(aCPU[c])
      <3>1. t # <<>>
        <4>1. Len(t) = Len(aCPU[c]) - 1 /\ Len(aCPU[c]) \in Nat
          BY <1>1, <1>2, HeadTailProperties
        <4> HIDE DEF t
        <4> QED
          BY <2>2, <4>1, SinElementos
      <3>2. aCPU'[c] = Tail(t) /\ \A d \in CPUs : d # c => aCPU'[d] = aCPU[d]
        BY <1>1, <2>2
      <3>3. t \in Seq(Mensajes) /\ Ordenes(t) \in Nat /\ Ordenes(t) <= O
        BY <1>3
      <3> HIDE DEF t
      <3>4. Ordenes(Tail(t)) = Ordenes(t) - IF Head(t) = Orden THEN 1 ELSE 0
        BY <3>1, <3>3, OrdenesDe
      <3>5. Tail(t) \in Seq(Mensajes)
        BY <3>1, <3>3, HeadTailProperties
      <3>6. Ordenes(Tail(t)) \in Nat
        BY <3>5, OrdenesDe
      <3> QED
        BY <1>3, <3>2, <3>3, <3>4, <3>6
    <2>3. aCPU' = Consumir(aCPU, c) \/ (Len(aCPU[c]) > 1 /\ aCPU' = [aCPU EXCEPT ![c] = Tail(Tail(@))])
      BY DEF RecibirDummy, RecibirReal, RecibirBasura, IgnorarProceso
    <2> QED
      BY <2>1, <2>2, <2>3
  <1>5. \E h \in {"proceso", "avisoD", "orden", "colgada"} : hilo' = [hilo EXCEPT ![c] = h]
    <2>1. hilo = [hilo EXCEPT ![c] = hilo[c]]
      BY <1>1
    <2>2. CASE RecibirDummy(c) \/ RecibirReal(c)
      BY <2>2 DEF RecibirDummy, RecibirReal, Pasar
    <2>3. CASE RecibirBasura(c)
      BY <2>1, <2>3 DEF RecibirBasura, Pasar
    <2>4. CASE IgnorarProceso(c)
      BY <2>1, <2>4 DEF IgnorarProceso
    <2> QED
      BY <2>2, <2>3, <2>4
  <1>6. Bloqueando(hilo'[c]) = 0 /\ \A d \in CPUs : d # c => hilo'[d] = hilo[d]
    BY <1>1, <1>5 DEF Bloqueando
  <1>7. P + A + Bloqueando(hilo'[c]) <= O + A + Bloqueando(hilo[c])
    <2>1. Bloqueando(hilo[c]) \in {0, 1}
      BY DEF Bloqueando
    <2> HIDE DEF O, P, A
    <2> QED
      BY <1>3, <1>4, <1>6, <2>1
  <1> QED
    BY <1>1, <1>4, <1>6, <1>7, SoloEsaCPU

(* telling S-AFA of a dummy or of a request *)
LEMMA AvisoToken ==
    ASSUME TypeOK, TypeOK', UnaSentenciaPorVez, NEW c \in CPUs, AvisarDummy(c) \/ AvisarBloqueo(c),
           sem_CPU_ejecutoUnaSentencia' = sem_CPU_ejecutoUnaSentencia
    PROVE  UnaSentenciaPorVez'
  <1>1. /\ aCPU \in [CPUs -> Seq(Mensajes)] /\ deCPU \in [CPUs -> Seq(Letras)] /\ hilo \in [CPUs -> Estados]
        /\ aCPU' = aCPU
    BY DEF TypeOK, RedTypeOK, CPUTypeOK, AvisarDummy, AvisarBloqueo
  <1>2. aCPU[c] \in Seq(Mensajes) /\ deCPU[c] \in Seq(Letras)
    BY <1>1
  <1> DEFINE O == Ordenes(aCPU[c])
             A == Avisos(deCPU[c])
             B == Avisos(deCPU'[c])
  <1>3. O \in Nat /\ A \in Nat
    BY <1>2, OrdenesDe, AvisosDe
  <1>4. PICK letra \in {"d", "b"} :
          /\ Avisar(c, letra)
          /\ Bloqueando(hilo[c]) = IF letra = "d" THEN 0 ELSE 1
          /\ Bloqueando(hilo'[c]) = 0 /\ \A d \in CPUs : d # c => hilo'[d] = hilo[d]
    <2>1. CASE AvisarDummy(c)
      BY <1>1, <2>1 DEF AvisarDummy, Pasar, Bloqueando
    <2>2. CASE AvisarBloqueo(c)
      BY <1>1, <2>2 DEF AvisarBloqueo, Pasar, Bloqueando
    <2> QED
      BY <2>1, <2>2
  <1>5. deCPU'[c] = Append(deCPU[c], letra) /\ (\A d \in CPUs : d # c => deCPU'[d] = deCPU[d]) /\ letra \in Letras
    BY <1>1, <1>4 DEF Avisar, Enviar, Letras
  <1>6. B = A + IF letra = "d" THEN 0 ELSE 1
    BY <1>2, <1>5, AvisosDe
  <1>7. O + B + Bloqueando(hilo'[c]) <= O + A + Bloqueando(hilo[c])
    <2> HIDE DEF O, A, B
    <2>1. CASE letra = "d"
      BY <1>3, <1>4, <1>6, <2>1
    <2>2. CASE letra # "d"
      BY <1>3, <1>4, <1>6, <2>2
    <2> QED
      BY <2>1, <2>2
  <1> QED
    BY <1>1, <1>4, <1>5, <1>7, SoloEsaCPU

(* a sentence: its order becomes one answer, or one request still to be told *)
LEMMA SentenciaToken ==
    ASSUME TypeOK, TypeOK', UnaSentenciaPorVez, BanderaLimpia, NEW c \in CPUs,
           sem_CPU_ejecutoUnaSentencia' = sem_CPU_ejecutoUnaSentencia,
           \/ PedirSinScript(c) \/ PedirPasadoElFin(c) \/ PedirSinFM9(c) \/ FinDelEscriptorio(c)
           \/ Concentrar(c) \/ SinAviso(c) \/ WaitSignal(c) \/ CrearBorrar(c) \/ Abrir(c) \/ Asignar(c)
           \/ FlushCloseSinNombre(c) \/ FlushCloseNoAbierto(c) \/ Flush(c) \/ Close(c)
    PROVE  UnaSentenciaPorVez'
  <1>1. hilo \in [CPUs -> Estados]
    BY DEF TypeOK, CPUTypeOK
  <1>2. hilo = [hilo EXCEPT ![c] = hilo[c]]
    BY <1>1
  <1>3. ASSUME NEW ops, Parsear(c, ops) PROVE LlegaOrden(c) /\ flagError[c] = 0 /\ hilo[c] # "avisoB"
    BY <1>3 DEF Parsear, LlegaOrden, BanderaLimpia
  <1>4. ASSUME LlegaOrden(c), deCPU' = deCPU, \/ UNCHANGED hilo \/ \E h : Pasar(c, h)
        PROVE  UnaSentenciaPorVez'
    BY <1>2, <1>4, OrdenLeida DEF Pasar
  <1>5. ASSUME LlegaOrden(c), \E letra \in Letras : Avisar(c, letra),
               \/ UNCHANGED hilo /\ hilo[c] # "avisoB"
               \/ hilo' = [hilo EXCEPT ![c] = "proceso"]
        PROVE  UnaSentenciaPorVez'
    BY <1>2, <1>5, OrdenLeida
  <1>6. {"r", "w", "s", "e", "f"} \subseteq Letras
    BY DEF Letras
  <1>7. ASSUME NEW ops, Parsear(c, ops), Abortar(c) PROVE UnaSentenciaPorVez'
    <2>1. Avisar(c, "e") /\ hilo' = [hilo EXCEPT ![c] = "proceso"] /\ LlegaOrden(c)
      BY <1>3, <1>7, AbortarAvisa
    <2> QED
      BY <1>5, <1>6, <2>1
  <1>8. CASE PedirSinScript(c) \/ PedirPasadoElFin(c) \/ PedirSinFM9(c)
    BY <1>4, <1>8 DEF PedirSinScript, PedirPasadoElFin, PedirSinFM9
  <1>9. CASE FinDelEscriptorio(c)
    <2>1. LlegaOrden(c) /\ Avisar(c, "f") /\ hilo' = [hilo EXCEPT ![c] = "proceso"]
      BY <1>9 DEF FinDelEscriptorio, Pasar
    <2> QED
      BY <1>5, <1>6, <2>1
  <1>10. CASE Concentrar(c) \/ WaitSignal(c)
    <2>1. \E ops : Parsear(c, ops)
      BY <1>10 DEF Concentrar, WaitSignal
    <2>2. (\E letra \in Letras : Avisar(c, letra)) /\ UNCHANGED hilo
      BY <1>6, <1>10 DEF Concentrar, WaitSignal
    <2> QED
      BY <1>3, <1>5, <2>1, <2>2
  <1>11. CASE SinAviso(c) \/ CrearBorrar(c) \/ Flush(c) \/ FlushCloseSinNombre(c)
    <2>1. \E ops : Parsear(c, ops)
      BY <1>11 DEF SinAviso, CrearBorrar, Flush, FlushCloseSinNombre
    <2>2. deCPU' = deCPU /\ (UNCHANGED hilo \/ Pasar(c, "avisoB") \/ Pasar(c, "muerta"))
      BY <1>11 DEF SinAviso, CrearBorrar, Flush, FlushCloseSinNombre
    <2> QED
      BY <1>3, <1>4, <2>1, <2>2
  <1>12. CASE Abrir(c)
    <2>1. Parsear(c, {"abrir"})
      BY <1>12 DEF Abrir
    <2>2. \/ deCPU' = deCPU /\ Pasar(c, "avisoB")
          \/ Avisar(c, "r") /\ UNCHANGED hilo
      BY <1>12 DEF Abrir
    <2> QED
      BY <1>3, <1>4, <1>5, <1>6, <2>1, <2>2
  <1>13. CASE Asignar(c)
    <2>1. Parsear(c, {"asignar"})
      BY <1>13 DEF Asignar
    <2>2. \/ deCPU' = deCPU /\ (UNCHANGED hilo \/ Pasar(c, "muerta"))
          \/ Abortar(c)
      BY <1>13 DEF Asignar
    <2> QED
      BY <1>3, <1>4, <1>7, <2>1, <2>2
  <1>14. CASE FlushCloseNoAbierto(c)
    BY <1>7, <1>14 DEF FlushCloseNoAbierto
  <1>15. CASE Close(c)
    <2>1. Parsear(c, {"close"})
      BY <1>15 DEF Close
    <2>2. (Avisar(c, "r") /\ UNCHANGED hilo) \/ Abortar(c)
      BY <1>15 DEF Close
    <2> QED
      BY <1>3, <1>5, <1>6, <1>7, <2>1, <2>2
  <1> QED
    BY <1>8, <1>9, <1>10, <1>11, <1>12, <1>13, <1>14, <1>15

--------------------------------------------------------------------------------
(* No crear is under way, and a CPU with its flagError set has lost FM9. *)

LEMMA BanderaPaso == TypeOK /\ BanderaLimpia /\ [Next]_vars => BanderaLimpia'
  <1> SUFFICES ASSUME TypeOK, BanderaLimpia, [Next]_vars PROVE BanderaLimpia'
    OBVIOUS
  <1>1. CASE UNCHANGED <<FM9Vivo, flagError>>
    BY <1>1 DEF BanderaLimpia
  <1>2. CASE FM9Vivo' = FALSE
    BY <1>2 DEF BanderaLimpia
  <1>3. ASSUME NEW accion, PasoSAFA(accion) PROVE BanderaLimpia'
    BY <1>1, <1>3 DEF PasoSAFA, cpu, memoria
  <1>4. ASSUME NEW c \in CPUs, PasoCPU(c) PROVE BanderaLimpia'
    <2>1. CASE FinDelEscriptorio(c)
      <3>1. FM9Vivo' = FALSE
        BY <2>1 DEF FinDelEscriptorio, TypeOK, RedTypeOK
      <3> QED
        BY <1>2, <3>1
    <2>2. CASE Asignar(c) \/ Close(c)
      BY <1>1, <1>2, <2>2 DEF Asignar, Close
    <2>3. CASE \/ RecibirDummy(c) \/ AvisarDummy(c) \/ RecibirReal(c) \/ RecibirBasura(c) \/ IgnorarProceso(c)
               \/ PedirSinScript(c) \/ PedirPasadoElFin(c) \/ PedirSinFM9(c)
      BY <1>1, <2>3 DEF RecibirDummy, AvisarDummy, RecibirReal, RecibirBasura, IgnorarProceso,
                        PedirSinScript, PedirPasadoElFin, PedirSinFM9, memoria
    <2>4. CASE \/ Concentrar(c) \/ SinAviso(c) \/ WaitSignal(c) \/ CrearBorrar(c) \/ Abrir(c)
               \/ AvisarBloqueo(c) \/ FlushCloseSinNombre(c) \/ FlushCloseNoAbierto(c) \/ Flush(c)
      BY <1>1, <2>4 DEF Concentrar, SinAviso, WaitSignal, CrearBorrar, Abrir, AvisarBloqueo,
                        FlushCloseSinNombre, FlushCloseNoAbierto, Flush, memoria
    <2> QED
      BY <1>4, <2>1, <2>2, <2>3, <2>4 DEF PasoCPU, NextCPU
  <1>5. ASSUME NEW c \in CPUs, PasoDAM(c) PROVE BanderaLimpia'
    <2>1. UNCHANGED flagError
      BY <1>5 DEF PasoDAM, cpu, memoria
    <2>2. UNCHANGED FM9Vivo \/ FM9Vivo' = FALSE
      BY <1>5 DEF PasoDAM, NextDAM, Atender, AtenderMuereMDJ, AtenderSinMDJ, AtenderAbrirSinFM9, AtenderFlush
    <2> QED
      BY <1>1, <1>2, <2>1, <2>2
  <1>6. CASE UNCHANGED vars
    BY <1>1, <1>6 DEF vars, cpu, memoria
  <1> QED
    BY <1>3, <1>4, <1>5, <1>6 DEF Next

(* a sentence about to run is one of its script *)
LEMMA SentenciaDelEscriptorio ==
    ASSUME TypeOK, ConDTB, NEW c \in CPUs, NEW ops, Parsear(c, ops)
    PROVE  \E e \in Escriptorios : \E k \in DOMAIN Codigo[e] : Sentencia(c) = Codigo[e][k]
  <1> DEFINE e == DTB[c].escriptorio
             k == instructionPointer[c] + 1
  <1>1. DTB[c] \in EnEjecucion /\ Quedan(c) /\ instructionPointer[c] \in Nat
    BY DEF Parsear, LlegaOrden, ConDTB, TypeOK, CPUTypeOK
  <1>2. e \in Escriptorios /\ Codigo[e] \in Seq([op : Operaciones, arg : STRING])
    BY <1>1, RedAssumption DEF EnEjecucion
  <1>3. Len(Codigo[e]) \in Nat /\ DOMAIN Codigo[e] = 1 .. Len(Codigo[e])
    BY <1>2, LenProperties
  <1>4. k \in DOMAIN Codigo[e]
    BY <1>1, <1>3 DEF Quedan
  <1>5. Sentencia(c) = Codigo[e][k]
    BY DEF Sentencia
  <1> HIDE DEF e, k
  <1> QED
    BY <1>2, <1>4, <1>5

LEMMA PedirOtro ==
    ASSUME SinPedidosDeCrear, NEW c \in CPUs, NEW op \in {1, 6, 9}, NEW i \in Ids \cup {0}, Pedir(c, op, i)
    PROVE  pedidos' \in [CPUs -> Seq(Otros)]
  <1> DEFINE m == [tipoOperacion |-> op, resultado |-> 0, id |-> i]
  <1>1. m \in Otros
    BY DEF Otros, Paquetes
  <1>2. pedidos' = Enviar(pedidos, c, m) /\ pedidos \in [CPUs -> Seq(Otros)]
    BY DEF Pedir, SinPedidosDeCrear
  <1> HIDE DEF m
  <1> QED
    BY <1>1, <1>2, EnviarTipo

LEMMA CPUNoCrea ==
    ASSUME SinCrear, TypeOK, ConDTB, SinPedidosDeCrear, NEW c \in CPUs, NextCPU(c)
    PROVE  SinPedidosDeCrear'
  <1>1. deDAM' = deDAM
    BY DEF NextCPU, RecibirDummy, AvisarDummy, RecibirReal, RecibirBasura, IgnorarProceso, PedirSinScript,
           PedirPasadoElFin, PedirSinFM9, FinDelEscriptorio, Concentrar, SinAviso, WaitSignal, CrearBorrar,
           Abrir, AvisarBloqueo, Asignar, FlushCloseSinNombre, FlushCloseNoAbierto, Flush, Close,
           Parsear, LlegaOrden
  <1>2. SUFFICES pedidos' \in [CPUs -> Seq(Otros)]
    BY <1>1 DEF SinPedidosDeCrear
  <1>3. CASE UNCHANGED pedidos
    BY <1>3 DEF SinPedidosDeCrear
  <1>4. ASSUME NEW ops, Parsear(c, ops) PROVE DTB[c].proceso.id \in Ids
    BY <1>4, ParsearTipo
  <1>5. CASE RecibirDummy(c)
    <2> DEFINE i == Head(aCPU[c]).proceso.id
    <2>1. aCPU \in [CPUs -> Seq(Mensajes)] /\ aCPU[c] # <<>> /\ Head(aCPU[c]) # Orden /\ Pedir(c, 1, i)
      BY <1>5 DEF RecibirDummy, RecibeProceso, TypeOK, RedTypeOK
    <2>2. Head(aCPU[c]) \in Mensajes
      BY <2>1, ConsumirTipo
    <2>3. i \in Ids
      BY <2>1, <2>2, MensajeDeProceso
    <2> HIDE DEF i
    <2> QED
      BY <2>1, <2>3, PedirOtro
  <1>6. CASE RecibirBasura(c)
    BY <1>3, <1>6, PedirOtro DEF RecibirBasura
  <1>7. CASE CrearBorrar(c)
    <2>1. Parsear(c, {"crear", "borrar"}) /\ Sentencia(c).op # "crear"
      BY <1>7, SentenciaDelEscriptorio DEF CrearBorrar, SinCrear
    <2>2. Pedir(c, 9, DTB[c].proceso.id)
      BY <1>7, <2>1 DEF CrearBorrar
    <2> QED
      BY <1>4, <2>1, <2>2, PedirOtro
  <1>8. CASE Abrir(c)
    <2>1. Parsear(c, {"abrir"}) /\ (UNCHANGED pedidos \/ Pedir(c, 1, DTB[c].proceso.id))
      BY <1>8 DEF Abrir
    <2> QED
      BY <1>3, <1>4, <2>1, PedirOtro
  <1>9. CASE Flush(c)
    <2>1. Parsear(c, {"flush"}) /\ Pedir(c, 6, DTB[c].proceso.id)
      BY <1>9 DEF Flush
    <2> QED
      BY <1>4, <2>1, PedirOtro
  <1>10. CASE \/ AvisarDummy(c) \/ RecibirReal(c) \/ IgnorarProceso(c) \/ PedirSinScript(c)
              \/ PedirPasadoElFin(c) \/ PedirSinFM9(c) \/ FinDelEscriptorio(c) \/ Concentrar(c)
              \/ SinAviso(c) \/ WaitSignal(c) \/ AvisarBloqueo(c) \/ Asignar(c)
              \/ FlushCloseSinNombre(c) \/ FlushCloseNoAbierto(c) \/ Close(c)
    BY <1>3, <1>10 DEF AvisarDummy, RecibirReal, IgnorarProceso, PedirSinScript, PedirPasadoElFin,
       PedirSinFM9, FinDelEscriptorio, Concentrar, SinAviso, WaitSignal, AvisarBloqueo, Asignar,
       FlushCloseSinNombre, FlushCloseNoAbierto, Close
  <1> QED
    BY <1>5, <1>6, <1>7, <1>8, <1>9, <1>10 DEF NextCPU

LEMMA DAMNoCrea ==
    ASSUME SinPedidosDeCrear, TypeOK, NEW c \in CPUs, NextDAM(c)
    PROVE  SinPedidosDeCrear'
  <1>1. pedidos \in [CPUs -> Seq(Otros)] /\ deDAM \in Seq(Otros)
    BY DEF SinPedidosDeCrear
  <1>2. PICK ops : Pedido(c, ops)
    BY DEF NextDAM, Atender, AtenderMuereMDJ, AtenderSinMDJ, AtenderAbrirSinFM9, AtenderFlush
  <1>3. Consumir(pedidos, c) \in [CPUs -> Seq(Otros)] /\ Head(pedidos[c]) \in Otros
    BY <1>1, <1>2, ConsumirTipo DEF Pedido
  <1>4. pedidos' \in [CPUs -> Seq(Otros)]
    BY <1>2, <1>3 DEF Pedido
  <1>5. DAMMuere \/ RespuestaIlegible \/ \E resultado \in {0, 1} : Responder(c, resultado)
    BY DEF NextDAM, Atender, AtenderMuereMDJ, AtenderSinMDJ, AtenderAbrirSinFM9, AtenderFlush, SinRespuesta
  <1>6. ASSUME NEW resultado \in {0, 1}, Responder(c, resultado) PROVE deDAM' \in Seq(Otros)
    <2> DEFINE m == Contestado(c, resultado)
    <2>1. m \in Otros
      BY <1>3 DEF Contestado, Otros, Paquetes
    <2>2. deDAM' = Append(deDAM, m)
      BY <1>6 DEF Responder
    <2> HIDE DEF m
    <2> QED
      BY <1>1, <2>1, <2>2, AppendProperties
  <1>7. DAMMuere \/ RespuestaIlegible => deDAM' \in Seq(Otros)
    BY <1>1 DEF DAMMuere, RespuestaIlegible
  <1> QED
    BY <1>4, <1>5, <1>6, <1>7 DEF SinPedidosDeCrear

(* S-AFA only takes answers *)
LEMMA SAFANoCrea ==
    ASSUME SinPedidosDeCrear,
           \/ UNCHANGED <<pedidos, deDAM>>
           \/ UNCHANGED pedidos /\ deDAM # <<>> /\ deDAM' = Tail(deDAM)
    PROVE  SinPedidosDeCrear'
  BY HeadTailProperties DEF SinPedidosDeCrear

--------------------------------------------------------------------------------

LEMMA PasoSentencias ==
    ASSUME SinCrear, ConUno = {}, TipoInductivo, TipoInductivo', SentenciasInductivo, [Next]_vars
    PROVE  SentenciasInductivo'
  <1>1. TypeOK /\ TypeOK' /\ Creacion /\ ConDTB
    BY DEF TipoInductivo
  <1>2. UnaSentenciaPorVez /\ SinPedidosDeCrear /\ BanderaLimpia
    BY DEF SentenciasInductivo
  <1>3. BanderaLimpia'
    BY <1>1, <1>2, BanderaPaso
  <1>4. SUFFICES UnaSentenciaPorVez' /\ SinPedidosDeCrear'
    BY <1>3 DEF SentenciasInductivo
  <1>5. CASE UNCHANGED <<red, hilo, sem_CPU_ejecutoUnaSentencia>>
    BY <1>2, <1>5, SinTokens, SAFANoCrea DEF red
  <1>6. ASSUME NEW causa, Caer(causa) PROVE UNCHANGED sem_CPU_ejecutoUnaSentencia
    BY <1>6 DEF Caer, sems
  <1>7. ASSUME NEW accion, PasoSAFA(accion) PROVE accion /\ UNCHANGED hilo
    BY <1>7 DEF PasoSAFA, cpu
  <1>8. CASE PasoSAFA(Consola)
    <2>1. ASSUME NEW e \in Escriptorios, Ejecutar(e) PROVE UNCHANGED <<red, sem_CPU_ejecutoUnaSentencia>>
      BY <2>1 DEF Ejecutar
    <2>2. ASSUME NEW i \in Ids, \/ Finalizar(i) \/ FinalizarEnEjecucion(i) \/ FinalizarListoSinEjecucion(i)
                                \/ StatusProceso(i) \/ StatusCae(i)
          PROVE  UNCHANGED <<red, sem_CPU_ejecutoUnaSentencia>>
      BY <1>6, <2>2 DEF Finalizar, FinalizarEnEjecucion, FinalizarListoSinEjecucion, StatusProceso, StatusCae, sems
    <2>3. EjecutarSinCPU \/ StatusColasCae => UNCHANGED <<red, sem_CPU_ejecutoUnaSentencia>>
      BY <1>6 DEF EjecutarSinCPU, StatusColasCae
    <2>4. Consola => UNCHANGED <<red, sem_CPU_ejecutoUnaSentencia>>
      BY <2>1, <2>2, <2>3 DEF Consola
    <2> QED
      BY <1>5, <1>7, <1>8, <2>4
  <1>9. CASE PasoSAFA(PCP) \/ PasoSAFA(EjecutarProceso)
    <2>1. (PCP \/ EjecutarProceso) /\ UNCHANGED hilo
      BY <1>7, <1>9
    <2>2. UNCHANGED <<pedidos, deDAM>>
      BY <2>1 DEF PCP, PCPSeleccionar, PCPEnviar, PCPQuitar, PCPCae, EjecutarProceso, EjecDespertar,
                  EjecCondicion, EjecOrdenar, red
    <2> QED
      BY <1>1, <1>2, <2>1, <2>2, EnviosToken, SAFANoCrea
  <1>10. CASE PasoSAFA(ConexionDAM)
    <2>1. ConexionDAM /\ UNCHANGED hilo
      BY <1>7, <1>10
    <2>2. /\ deDAM # <<>> /\ deDAM' = Tail(deDAM) /\ UNCHANGED <<aCPU, deCPU, pedidos>>
      BY <2>1 DEF ConexionDAM, AbrirOk, AbrirMal, AbrirSinNuevo, OperacionOk, OperacionOkSinBloqueado,
                  OperacionMal, Respuesta
    <2>3. Head(deDAM) \in Otros
      BY <1>2, <2>2, HeadTailProperties DEF SinPedidosDeCrear
    <2>4. ~Despierta
      BY <2>3 DEF Despierta, Otros
    <2>5. ASSUME NEW hay, Despertar(hay) PROVE UNCHANGED sem_CPU_ejecutoUnaSentencia
      BY <1>1, <2>4, <2>5 DEF Despertar, TypeOK, SAFATypeOK
    <2>6. AbrirOk \/ AbrirMal => UNCHANGED sem_CPU_ejecutoUnaSentencia
      BY DEF AbrirOk, AbrirMal, sems
    <2>7. AbrirSinNuevo \/ OperacionOkSinBloqueado => UNCHANGED sem_CPU_ejecutoUnaSentencia
      BY <1>6 DEF AbrirSinNuevo, OperacionOkSinBloqueado
    <2>8. OperacionOk \/ OperacionMal => UNCHANGED sem_CPU_ejecutoUnaSentencia
      BY <2>5 DEF OperacionOk, OperacionMal
    <2>9. UNCHANGED sem_CPU_ejecutoUnaSentencia
      BY <2>1, <2>6, <2>7, <2>8 DEF ConexionDAM
    <2> QED
      BY <1>2, <2>1, <2>2, <2>9, SinTokens, SAFANoCrea
  <1>11. ASSUME NEW c \in CPUs, PasoSAFA(ConexionCPU(c)) PROVE UnaSentenciaPorVez' /\ SinPedidosDeCrear'
    <2>1. ConexionCPU(c) /\ UNCHANGED hilo
      BY <1>7, <1>11
    <2>2. UNCHANGED <<pedidos, deDAM>>
      BY <2>1 DEF ConexionCPU, FinDeScript, FinIgnorado, FinDeSentencia, FinDeQuantum, FinDeQuantumSinProceso,
           VerificarSiFinalizar, DummyEnviado, DummySinProceso, Bloquear, BloquearSinProceso, Recurso,
           CaerAlRecibir, Recibido
    <2> QED
      BY <1>1, <1>2, <2>1, <2>2, ConexionCPUToken, SAFANoCrea
  <1>12. ASSUME NEW c \in CPUs, PasoCPU(c) PROVE UnaSentenciaPorVez' /\ SinPedidosDeCrear'
    <2>1. NextCPU(c) /\ UNCHANGED sem_CPU_ejecutoUnaSentencia
      BY <1>12 DEF PasoCPU, safa, sems
    <2>2. SinPedidosDeCrear'
      BY <1>1, <1>2, <2>1, CPUNoCrea
    <2>3. UnaSentenciaPorVez'
      BY <1>1, <1>2, <2>1, RecepcionToken, AvisoToken, SentenciaToken DEF NextCPU
    <2> QED
      BY <2>2, <2>3
  <1>13. ASSUME NEW c \in CPUs, PasoDAM(c) PROVE UnaSentenciaPorVez' /\ SinPedidosDeCrear'
    <2>1. NextDAM(c) /\ UNCHANGED <<hilo, sem_CPU_ejecutoUnaSentencia>>
      BY <1>13 DEF PasoDAM, safa, sems, cpu
    <2>2. UNCHANGED <<aCPU, deCPU>>
      BY <2>1 DEF NextDAM, Atender, AtenderMuereMDJ, AtenderSinMDJ, AtenderAbrirSinFM9, AtenderFlush, Pedido
    <2> QED
      BY <1>1, <1>2, <2>1, <2>2, DAMNoCrea, SinTokens
  <1>14. CASE UNCHANGED vars
    BY <1>5, <1>14 DEF vars, safa, sems, cpu
  <1> QED
    BY <1>8, <1>9, <1>10, <1>11, <1>12, <1>13, <1>14 DEF Next

LEMMA SentenciasAlInicio == Init => SentenciasInductivo
  <1> SUFFICES ASSUME Init PROVE SentenciasInductivo
    OBVIOUS
  <1>1. SinPedidosDeCrear /\ BanderaLimpia
    BY EmptySeq DEF Init, InitRed, InitCPU, SinPedidosDeCrear, BanderaLimpia
  <1>2. ASSUME NEW c \in CPUs PROVE TokensEn(c) = 0
    <2>1. aCPU[c] = <<>> /\ deCPU[c] = <<>> /\ hilo[c] = "proceso"
      BY DEF Init, InitRed, InitCPU
    <2>2. Ordenes(<<>>) = 0 /\ Avisos(<<>>) = 0
      BY CaminoLugares, PosicionesVacia DEF Ordenes, Avisos
    <2> QED
      BY <2>1, <2>2, TokensDe DEF Tokens
  <1>3. sem_CPU_ejecutoUnaSentencia = 1
    BY DEF Init, InitSAFA
  <1> QED
    BY <1>1, <1>2, <1>3 DEF SentenciasInductivo, UnaSentenciaPorVez

(* One sentence is under way at a time in the whole system, for any number of CPUs  *)
(* and of processes, either planner and whatever the operator types: the token the  *)
(* semaphore starts with is in it, on its way to a CPU, being used or on its way    *)
(* back, never in two of those.  The scripts must have no crear, whose answer hands *)
(* S-AFA a token more, and no path with a byte that can be read as an order.         *)
THEOREM UnSoloToken ==
    ASSUME SinCrear, ConUno = {}
    PROVE  Spec => []UnaSentenciaPorVez
  <1>1. TipoInductivo /\ TipoInductivo' /\ SentenciasInductivo /\ [Next]_vars => SentenciasInductivo'
    BY PasoSentencias
  <1>2. SentenciasInductivo => UnaSentenciaPorVez
    BY DEF SentenciasInductivo
  <1> QED
    BY <1>1, <1>2, Inicio, Paso, SentenciasAlInicio, PTL DEF Spec
================================================================================
