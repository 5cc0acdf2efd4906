-------------------------- MODULE SistemaCarreras_proofs --------------------------
(* Proofs that, but for two races of S-AFA's own threads, every process is loaded *)
(* once, asks DAM for one thing at a time and keeps its CPU.                        *)
EXTENDS SistemaColas_proofs, SistemaSentencias_proofs

--------------------------------------------------------------------------------
(* The two races *)

(* nobody is dispatched over the process that runs *)
DespachoLibre ==
    procesoEnEjecucion # Nada => procesoEnEjecucion' \in {procesoEnEjecucion, Nada}

(* no order is given between the choice of a process and its dispatch *)
OrdenTrasDespacho ==
    ejec = "turno" /\ ejec' = "condicion" /\ procesoEnEjecucion # Nada => pcp = "espera"

SinCarreras == [][DespachoLibre /\ OrdenTrasDespacho]_vars

--------------------------------------------------------------------------------
(* What is on the connections *)

Avs == Letras \ {"d"}
Fines == {"e", "f"}
Bloqueantes == {6, 8, 9}

Reales == {m \in Mensajes : m # Orden /\ m.proceso.flagInicializacion = 1}
Dummies == {m \in Mensajes : m # Orden /\ m.proceso.flagInicializacion = 0}
DeReal(j) == {m \in Reales : m.proceso.id = j}
DeDummy(j) == {m \in Dummies : m.proceso.id = j}
De(j, ops) == {p \in Paquetes : p.id = j /\ p.tipoOperacion \in ops}

Socket(j) == dtb[j].socketProceso

(* CPU c is the one of process j *)
Suya(c, j) == j \in 1 .. Len(dtb) /\ Socket(j) = c

(* process j has its CPU reserved, and nobody got that CPU after it *)
Ultimo(j) ==
    /\ j \in 1 .. Len(dtb) /\ Socket(j) \in tieneDTBasociado
    /\ \A k \in 1 .. Len(dtb) : k > j => Socket(k) # Socket(j)

ConToken(c) == Hay(aCPU[c], {Orden}) \/ Hay(deCPU[c], Avs) \/ hilo[c] = "avisoB"

(* the only token was taken by an order that found nobody to run *)
Perdido == sem_CPU_ejecutoUnaSentencia = 0 /\ \A c \in CPUs : ~ConToken(c)

(* a sentence of CPU c is under way, or an order that will find its script *)
Vivo(c) ==
    \/ Hay(deCPU[c], Avs) \/ hilo[c] = "avisoB"
    \/ hilo[c] = "orden" /\ Hay(aCPU[c], {Orden})
    \/ Antes(aCPU[c], Reales, {Orden})

(* process j is on its way to CPU c, or runs there *)
EnCPU(c, j) == Hay(aCPU[c], DeReal(j)) \/ (hilo[c] \in ConScript /\ DTB[c].proceso.id = j)

(* the dummy of j, ready, selected or on its way *)
Elegido(j) == pcp = "enviar" /\ procesoEnEjecucion = Dummy(j)
Enviado(j) == \E c \in CPUs : Hay(aCPU[c], DeDummy(j))
Preparando(j) == Dummy(j) \in EnListos \/ Elegido(j) \/ Enviado(j)

(* requests of j under way, and that there are not two on one connection or on both *)
Pidio(j, ops) == Hay(deDAM, De(j, ops)) \/ \E c \in CPUs : Hay(pedidos[c], De(j, ops))
Unico(j, ops) ==
    /\ AlMasUno(deDAM, De(j, ops))
    /\ \A c \in CPUs : /\ AlMasUno(pedidos[c], De(j, ops))
                       /\ ~(Hay(deDAM, De(j, ops)) /\ Hay(pedidos[c], De(j, ops)))

Bloqueandose(c) == hilo[c] = "avisoB" \/ Hay(deCPU[c], {"b"})

(* the dummies CPU c has to take, is passing on and has told S-AFA about *)
DummyEn(c) == Hay(aCPU[c], Dummies) \/ hilo[c] = "avisoD" \/ Hay(deCPU[c], {"d"})
UnDummy(c) ==
    /\ AlMasUno(aCPU[c], Dummies) /\ AlMasUno(deCPU[c], {"d"})
    /\ Hay(aCPU[c], Dummies) => hilo[c] # "avisoD" /\ ~Hay(deCPU[c], {"d"})
    /\ hilo[c] = "avisoD" => ~Hay(deCPU[c], {"d"})

--------------------------------------------------------------------------------
(* The inductive invariant *)

(* the sentence under way is of the process that runs *)
Turno ==
    \A c \in CPUs : Vivo(c) =>
        /\ pcp = "espera" /\ procesoEnEjecucion # Nada
        /\ procesoEnEjecucion.flagInicializacion = 1 /\ Socket(procesoEnEjecucion.id) = c
        /\ ~Antes(aCPU[c], {Orden}, Reales)

(* a CPU that told the end of its script has none, and none on its way *)
FinLimpio ==
    \A c \in CPUs : Hay(deCPU[c], Fines) => hilo[c] \notin ConScript /\ ~Hay(aCPU[c], Reales)

(* who is queued or runs is the last one its CPU was reserved for *)
EnCola == EnNuevos \cup EnListos \cup EnBloqueados \cup Corriendo
Reservas == \A p \in EnCola : Ultimo(p.id)

(* so is a process in a CPU, which was loaded and is not being loaded again *)
Duenio ==
    \A c \in CPUs, j \in Ids : EnCPU(c, j) =>
        /\ Suya(c, j) /\ Ultimo(j) /\ Real(j) \notin EnNuevos
        /\ Dummy(j) \notin EnListos \cup Corriendo /\ ~Enviado(j)

(* a process whose dummy is ready or on its way is not queued, and has one dummy *)
Preparacion ==
    \A j \in Ids :
        /\ Preparando(j) => Real(j) \notin EnListos \cup EnBloqueados \cup Corriendo
        /\ Enviado(j) => Dummy(j) \notin EnListos /\ ~Elegido(j)
        /\ \A c \in CPUs : /\ AlMasUno(aCPU[c], DeDummy(j))
                           /\ Hay(aCPU[c], DeDummy(j)) => Suya(c, j)

(* a process asks through its own CPU *)
QuienPide == \A c \in CPUs, j \in Ids : Hay(pedidos[c], De(j, {1, 6, 8, 9})) => Suya(c, j)

(* a new process is loaded once *)
CargaSola ==
    \A j \in Ids : Real(j) \in EnNuevos =>
        Unico(j, {1}) /\ (Pidio(j, {1}) => ~Preparando(j))

(* a process with a request under way is blocked, or about to be *)
BloqueoSolo ==
    \A j \in Ids :
        /\ Unico(j, Bloqueantes)
        /\ Pidio(j, Bloqueantes) =>
              /\ Real(j) \notin EnNuevos \cup EnListos
              /\ procesoEnEjecucion = Real(j) => Perdido \/ Bloqueandose(Socket(j))

(* unless the token was lost, a dummy in a CPU is the one that runs *)
DummyUnico ==
    \/ Perdido
    \/ \A c \in CPUs :
          /\ UnDummy(c)
          /\ DummyEn(c) =>
                /\ procesoEnEjecucion # Nada /\ procesoEnEjecucion.flagInicializacion = 0
                /\ Socket(procesoEnEjecucion.id) = c /\ pcp # "enviar"

(* no dummy is blocked *)
SoloReales == \A p \in EnBloqueados : p = Real(p.id)

Flujo == Turno /\ FinLimpio /\ DummyUnico
CarrerasInductivo ==
    /\ Flujo /\ Reservas /\ Duenio /\ Preparacion /\ QuienPide
    /\ CargaSola /\ BloqueoSolo /\ SoloReales

Base == TipoInductivo /\ ColasInductivo /\ SentenciasInductivo /\ SoloLlamados

--------------------------------------------------------------------------------
(* Messages *)

LEMMA ClasesDeMensajes ==
    /\ Orden \in Mensajes /\ Orden \notin Reales /\ Orden \notin Dummies /\ Reales \cap Dummies = {}
    /\ \A m \in Mensajes : m = Orden \/ m \in Reales \/ m \in Dummies
    /\ \A j : DeReal(j) \subseteq Reales /\ DeDummy(j) \subseteq Dummies /\ Orden \notin DeReal(j) /\ Orden \notin DeDummy(j)
    /\ \A m \in Reales : m \in Mensajes /\ m # Orden /\ m.proceso.id \in Ids /\ m \in DeReal(m.proceso.id)
    /\ \A m \in Dummies : m \in Mensajes /\ m # Orden /\ m.proceso.id \in Ids /\ m \in DeDummy(m.proceso.id)
    /\ \A j : \A m \in DeReal(j) \cup DeDummy(j) : m.proceso.id = j
  <1>1. Orden \in Mensajes
    BY DEF Mensajes
  <1>2. \A m \in Mensajes : m # Orden => m.proceso \in Objetos
    BY MensajeDeProceso
  <1>3. \A p \in Objetos : p.id \in Ids /\ p.flagInicializacion \in {0, 1}
    BY DEF Objetos
  <1>4. \A m \in Mensajes : m # Orden => m.proceso.id \in Ids /\ m.proceso.flagInicializacion \in {0, 1}
    BY <1>2, <1>3
  <1> QED
    BY <1>1, <1>4 DEF Reales, Dummies, DeReal, DeDummy

LEMMA HayMas ==
    /\ \A s, V, W : V \subseteq W => (Hay(s, V) => Hay(s, W)) /\ (AlMasUno(s, W) => AlMasUno(s, V))
    /\ \A s, V, W : Antes(s, V, W) => Hay(s, V) /\ Hay(s, W)
  BY DEF Hay, AlMasUno, Antes

LEMMA HayDe ==
    /\ \A s : Hay(s, Reales) => \E j \in Ids : Hay(s, DeReal(j))
    /\ \A s : Hay(s, Dummies) => \E j \in Ids : Hay(s, DeDummy(j))
    /\ \A s, j : (Hay(s, DeReal(j)) => Hay(s, Reales)) /\ (Hay(s, DeDummy(j)) => Hay(s, Dummies))
  <1>1. ASSUME NEW s, Hay(s, Reales) PROVE \E j \in Ids : Hay(s, DeReal(j))
    <2>1. PICK k \in DOMAIN s : s[k] \in Reales
      BY <1>1 DEF Hay
    <2>2. s[k].proceso.id \in Ids /\ s[k] \in DeReal(s[k].proceso.id)
      BY <2>1, ClasesDeMensajes
    <2> QED
      BY <2>2 DEF Hay
  <1>2. ASSUME NEW s, Hay(s, Dummies) PROVE \E j \in Ids : Hay(s, DeDummy(j))
    <2>1. PICK k \in DOMAIN s : s[k] \in Dummies
      BY <1>2 DEF Hay
    <2>2. s[k].proceso.id \in Ids /\ s[k] \in DeDummy(s[k].proceso.id)
      BY <2>1, ClasesDeMensajes
    <2> QED
      BY <2>2 DEF Hay
  <1>3. \A j : DeReal(j) \subseteq Reales /\ DeDummy(j) \subseteq Dummies
    BY ClasesDeMensajes
  <1> QED
    BY <1>1, <1>2, <1>3, HayMas

(* t is s, or what is left of s when its first elements are taken *)
Menos(t, s) ==
    /\ \A V : (Hay(t, V) => Hay(s, V)) /\ (AlMasUno(s, V) => AlMasUno(t, V))
    /\ \A V, W : Antes(t, V, W) => Antes(s, V, W)

LEMMA QuedanMenos ==
    /\ \A s : Menos(s, s)
    /\ \A S : \A s \in Seq(S) : s # <<>> => Menos(Tail(s), s)
    /\ \A r, s, t : Menos(r, s) /\ Menos(s, t) => Menos(r, t)
  <1>1. ASSUME NEW S, NEW s \in Seq(S), s # <<>> PROVE Menos(Tail(s), s)
    BY <1>1, UnoMenos DEF Menos
  <1> QED
    BY <1>1 DEF Menos

(* the types of the connections *)
LEMMA TiposDeRed ==
    ASSUME TypeOK
    PROVE  /\ aCPU \in [CPUs -> Seq(Mensajes)] /\ deCPU \in [CPUs -> Seq(Letras)]
           /\ pedidos \in [CPUs -> Seq(Paquetes)] /\ deDAM \in Seq(Paquetes)
           /\ hilo \in [CPUs -> Estados]
           /\ \A c \in CPUs : aCPU[c] \in Seq(Mensajes) /\ deCPU[c] \in Seq(Letras) /\ pedidos[c] \in Seq(Paquetes)
  BY DEF TypeOK, RedTypeOK, CPUTypeOK

LEMMA AlConsumir ==
    ASSUME NEW M, NEW ch \in [CPUs -> Seq(M)], NEW c \in CPUs, ch[c] # <<>>
    PROVE  /\ Head(ch[c]) \in M
           /\ Consumir(ch, c)[c] = Tail(ch[c])
           /\ \A d \in CPUs : d # c => Consumir(ch, c)[d] = ch[d]
           /\ \A d \in CPUs : Menos(Consumir(ch, c)[d], ch[d])
           /\ \A V : Hay(ch[c], V) <=> Head(ch[c]) \in V \/ Hay(Consumir(ch, c)[c], V)
           /\ \A V : AlMasUno(ch[c], V) => (Head(ch[c]) \in V => ~Hay(Consumir(ch, c)[c], V))
           /\ \A V, W : Antes(ch[c], V, W) <=>
                           Antes(Consumir(ch, c)[c], V, W) \/ (Head(ch[c]) \in V /\ Hay(Consumir(ch, c)[c], W))
  <1>1. Consumir(ch, c)[c] = Tail(ch[c]) /\ \A d \in CPUs : d # c => Consumir(ch, c)[d] = ch[d]
    BY DEF Consumir
  <1>2. ch[c] \in Seq(M) /\ Head(ch[c]) \in M
    BY HeadTailProperties
  <1>3. \A d \in CPUs : Menos(Consumir(ch, c)[d], ch[d])
    BY <1>1, <1>2, QuedanMenos
  <1> QED
    BY <1>1, <1>2, <1>3, UnoMenos

--------------------------------------------------------------------------------
(* The only token *)

LEMMA UnToken ==
    ASSUME TypeOK, UnaSentenciaPorVez, NEW c \in CPUs
    PROVE  /\ ConToken(c) => /\ sem_CPU_ejecutoUnaSentencia = 0
                             /\ \A d \in CPUs : ConToken(d) => d = c
           /\ Hay(aCPU[c], {Orden}) => ~Hay(deCPU[c], Avs) /\ hilo[c] # "avisoB"
           /\ Hay(deCPU[c], Avs) => hilo[c] # "avisoB"
           /\ AlMasUno(aCPU[c], {Orden}) /\ AlMasUno(deCPU[c], Avs)
  <1>1. ASSUME NEW d \in CPUs
        PROVE  /\ Ordenes(aCPU[d]) \in Nat /\ Avisos(deCPU[d]) \in Nat
               /\ TokensEn(d) = Ordenes(aCPU[d]) + Avisos(deCPU[d]) + Bloqueando(hilo[d])
               /\ Hay(aCPU[d], {Orden}) => Ordenes(aCPU[d]) > 0
               /\ Hay(deCPU[d], Avs) => Avisos(deCPU[d]) > 0
               /\ Ordenes(aCPU[d]) <= 1 => AlMasUno(aCPU[d], {Orden})
               /\ Avisos(deCPU[d]) <= 1 => AlMasUno(deCPU[d], Avs)
    <2>1. aCPU[d] \in Seq(Mensajes) /\ deCPU[d] \in Seq(Letras)
      BY TiposDeRed
    <2>2. Ordenes(aCPU[d]) = Cardinality(Lugares(aCPU[d], {Orden}))
      BY CaminoLugares DEF Ordenes
    <2>3. Avisos(deCPU[d]) = Cardinality(Lugares(deCPU[d], Avs))
      BY CaminoLugares DEF Avisos, Avs
    <2>4. TokensEn(d) = Ordenes(aCPU[d]) + Avisos(deCPU[d]) + Bloqueando(hilo[d])
      BY TokensDe DEF Tokens, Bloqueando
    <2>5. Ordenes(aCPU[d]) \in Nat /\ Avisos(deCPU[d]) \in Nat
      BY <2>1, OrdenesDe, AvisosDe
    <2> QED
      BY <2>1, <2>2, <2>3, <2>4, <2>5, CuantosHay
  <1>2. \A d : Bloqueando(hilo[d]) \in {0, 1} /\ (hilo[d] = "avisoB" => Bloqueando(hilo[d]) = 1)
    BY DEF Bloqueando
  <1>3. /\ \A d \in CPUs : sem_CPU_ejecutoUnaSentencia + TokensEn(d) <= 1
        /\ \A d, e \in CPUs : TokensEn(d) > 0 /\ TokensEn(e) > 0 => d = e
        /\ sem_CPU_ejecutoUnaSentencia \in Nat
    BY DEF UnaSentenciaPorVez, TypeOK, SAFATypeOK
  <1>4. \A d \in CPUs : ConToken(d) => TokensEn(d) > 0 /\ TokensEn(d) \in Nat
    BY <1>1, <1>2 DEF ConToken
  <1>5. /\ Hay(aCPU[c], {Orden}) => ~Hay(deCPU[c], Avs) /\ hilo[c] # "avisoB"
        /\ Hay(deCPU[c], Avs) => hilo[c] # "avisoB"
        /\ Ordenes(aCPU[c]) <= 1 /\ Avisos(deCPU[c]) <= 1
    <2> DEFINE o == Ordenes(aCPU[c])
               a == Avisos(deCPU[c])
               b == Bloqueando(hilo[c])
               s == sem_CPU_ejecutoUnaSentencia
    <2>1. o \in Nat /\ a \in Nat /\ b \in {0, 1} /\ s \in Nat /\ s + (o + a + b) <= 1
      BY <1>1, <1>2, <1>3
    <2>2. /\ Hay(aCPU[c], {Orden}) => o > 0
          /\ Hay(deCPU[c], Avs) => a > 0
          /\ hilo[c] = "avisoB" => b = 1
      BY <1>1, <1>2
    <2> HIDE DEF o, a, b, s
    <2>3. o <= 1 /\ a <= 1 /\ (o > 0 => a = 0 /\ b = 0) /\ (a > 0 => b = 0)
      BY <2>1
    <2>4. ~(0 > 0) /\ 0 # 1
      OBVIOUS
    <2> QED
      BY <2>2, <2>3, <2>4 DEF o, a, b
  <1>6. ConToken(c) => sem_CPU_ejecutoUnaSentencia = 0
    BY <1>3, <1>4
  <1> QED
    BY <1>1, <1>3, <1>4, <1>5, <1>6

LEMMA VivoConToken ==
    \A c : /\ Vivo(c) => ConToken(c)
           /\ Bloqueandose(c) => ConToken(c)
           /\ Hay(deCPU[c], Fines) => Hay(deCPU[c], Avs) /\ ConToken(c) /\ Vivo(c)
           /\ Vivo(c)' => ConToken(c)'
           /\ Hay(deCPU'[c], Fines) => ConToken(c)'
  <1>1. {"b"} \subseteq Avs /\ Fines \subseteq Avs
    BY DEF Avs, Letras, Fines
  <1>2. \A s : (Hay(s, {"b"}) => Hay(s, Avs)) /\ (Hay(s, Fines) => Hay(s, Avs))
    BY <1>1, HayMas
  <1>3. \A s : Antes(s, Reales, {Orden}) => Hay(s, {Orden})
    BY HayMas
  <1> QED
    BY <1>2, <1>3 DEF Vivo, ConToken, Bloqueandose

--------------------------------------------------------------------------------
(* Who is where *)

LEMMA QuienCorre ==
    ASSUME TipoInductivo, procesoEnEjecucion # Nada
    PROVE  /\ procesoEnEjecucion \in Corriendo /\ Corriendo = {procesoEnEjecucion}
           /\ procesoEnEjecucion \in Objetos
           /\ procesoEnEjecucion.id \in 1 .. Len(dtb) /\ procesoEnEjecucion.id \in Ids
           /\ procesoEnEjecucion.flagInicializacion \in {0, 1}
           /\ procesoEnEjecucion.flagInicializacion = 1 <=> procesoEnEjecucion = Real(procesoEnEjecucion.id)
           /\ procesoEnEjecucion.flagInicializacion = 0 <=> procesoEnEjecucion = Dummy(procesoEnEjecucion.id)
           /\ Socket(procesoEnEjecucion.id) \in CPUs
           /\ dtb[procesoEnEjecucion.id].pathEscriptorio \in Escriptorios
  <1>1. procesoEnEjecucion \in Corriendo /\ Corriendo = {procesoEnEjecucion}
    BY DEF Corriendo
  <1>2. procesoEnEjecucion \in Creados(Len(dtb)) /\ Len(dtb) \in Nat /\ SAFATypeOK
    BY <1>1, LugaresDeCreados DEF TipoInductivo, TypeOK
  <1>3. procesoEnEjecucion \in Objetos /\ procesoEnEjecucion.id \in 1 .. Len(dtb)
    BY <1>2, CreadosObjetos DEF Creados, Objetos, Ids
  <1>4. procesoEnEjecucion.id \in Ids /\ procesoEnEjecucion.flagInicializacion \in {0, 1}
    BY <1>3 DEF Objetos
  <1>5. Socket(procesoEnEjecucion.id) \in CPUs /\ dtb[procesoEnEjecucion.id].pathEscriptorio \in Escriptorios
    BY <1>2, <1>3, DTBCreado DEF Socket
  <1>6. \A i : Real(i).flagInicializacion = 1 /\ Dummy(i).flagInicializacion = 0
    BY DEF Real, Dummy
  <1>7. procesoEnEjecucion = Real(procesoEnEjecucion.id) \/ procesoEnEjecucion = Dummy(procesoEnEjecucion.id)
    BY <1>3, RealEsDeUno
  <1> QED
    BY <1>1, <1>3, <1>4, <1>5, <1>6, <1>7

LEMMA LosDosObjetos ==
    /\ \A i \in Ids : Real(i) \in Objetos /\ Dummy(i) \in Objetos /\ Real(i) # Nada /\ Dummy(i) # Nada
    /\ \A i, j : Real(i) # Dummy(j) /\ (Real(i) = Real(j) => i = j) /\ (Dummy(i) = Dummy(j) => i = j)
    /\ \A i : Real(i).id = i /\ Dummy(i).id = i /\ Real(i).flagInicializacion = 1 /\ Dummy(i).flagInicializacion = 0
  <1>1. \A i : Real(i).id = i /\ Dummy(i).id = i /\ Real(i).flagInicializacion = 1 /\ Dummy(i).flagInicializacion = 0
    BY DEF Real, Dummy
  <1>2. \A i \in Ids : Real(i) \in Objetos /\ Dummy(i) \in Objetos
    BY DEF Real, Dummy, Objetos
  <1>3. Nada \notin Objetos
    BY CreadosObjetos
  <1> QED
    BY <1>1, <1>2, <1>3

(* A process nobody called is in no message, and in no CPU. *)
LEMMA NoLlamado ==
    ASSUME TipoInductivo, SoloLlamados, NEW j \in Ids, j \notin Llamados
    PROVE  /\ \A ops : ~Pidio(j, ops) /\ Unico(j, ops)
           /\ ~Enviado(j)
           /\ \A c \in CPUs : ~EnCPU(c, j)
  <1> DEFINE Q == PaquetesDe(Llamados)
             M == MensajesDe(Llamados)
  <1>1. /\ deDAM \in Seq(Q) /\ pedidos \in [CPUs -> Seq(Q)] /\ aCPU \in [CPUs -> Seq(M)]
        /\ \A c \in CPUs : hilo[c] \in ConScript => DTB[c].proceso.id \in Llamados
    BY DEF SoloLlamados, Sobre
  <1>2. \A p \in Q : p.id \in Llamados \cup {0}
    BY DEF PaquetesDe
  <1>3. j # 0 /\ j \notin Llamados \cup {0}
    BY DEF Ids
  <1>4. \A m \in M : m # Orden => m.proceso.id \in Llamados
    BY DEF MensajesDe
  <1> HIDE DEF Q, M
  <1>5. ASSUME NEW s \in Seq(Q), NEW ops PROVE ~Hay(s, De(j, ops)) /\ AlMasUno(s, De(j, ops))
    <2>1. \A k \in DOMAIN s : s[k] \in Q
      BY ElementOfSeq, LenProperties
    <2>2. \A k \in DOMAIN s : s[k] \notin De(j, ops)
      BY <1>2, <1>3, <2>1 DEF De
    <2> QED
      BY <2>2 DEF Hay, AlMasUno
  <1>6. ASSUME NEW s \in Seq(M) PROVE ~Hay(s, DeReal(j)) /\ ~Hay(s, DeDummy(j))
    <2>1. \A k \in DOMAIN s : s[k] \in M
      BY ElementOfSeq, LenProperties
    <2>2. \A k \in DOMAIN s : s[k] \notin DeReal(j) /\ s[k] \notin DeDummy(j)
      BY <1>4, <2>1, ClasesDeMensajes
    <2> QED
      BY <2>2 DEF Hay
  <1>7. \A c \in CPUs : pedidos[c] \in Seq(Q) /\ aCPU[c] \in Seq(M)
    BY <1>1
  <1> QED
    BY <1>1, <1>5, <1>6, <1>7 DEF Pidio, Unico, Enviado, EnCPU

--------------------------------------------------------------------------------
(* The steps that dispatch nobody and send nothing to a CPU *)

(* no process more is in a CPU, nor on its way to one *)
MenosEnCPUs ==
    \A c \in CPUs, j \in Ids :
        /\ EnCPU(c, j)' => EnCPU(c, j)
        /\ Hay(aCPU'[c], DeDummy(j)) => Hay(aCPU[c], DeDummy(j))
        /\ AlMasUno(aCPU[c], DeDummy(j)) => AlMasUno(aCPU'[c], DeDummy(j))

(* nothing more is asked for *)
MenosPedidos ==
    \A j \in Ids :
        /\ \A ops \in {{1}, Bloqueantes} :
              (Pidio(j, ops)' => Pidio(j, ops)) /\ (Unico(j, ops) => Unico(j, ops)')
        /\ \A c \in CPUs : Hay(pedidos'[c], De(j, {1, 6, 8, 9})) => Hay(pedidos[c], De(j, {1, 6, 8, 9}))

(* Processes leave their places.  Those of L become ready and those of K blocked; *)
(* none of them has a dummy.                                                       *)
Movidos(L, K) ==
    /\ L \cup K \subseteq EnCola
    /\ \A y \in L \cup K : y = Real(y.id) /\ y.id \in Ids /\ ~Preparando(y.id) /\ y # procesoEnEjecucion'
    /\ EnNuevos' \subseteq EnNuevos \ L /\ EnListos' \subseteq EnListos \cup L
    /\ EnBloqueados' \subseteq EnBloqueados \cup K
    /\ procesoEnEjecucion' \in {procesoEnEjecucion, Nada} /\ pcp' \in {pcp, "espera"}
    /\ Len(dtb') = Len(dtb) /\ \A j \in 1 .. Len(dtb) : Socket(j)' = Socket(j)

LEMMA MovidosDe ==
    ASSUME TipoInductivo, MenosEnCPUs, NEW L, NEW K, Movidos(L, K)
    PROVE  /\ Corriendo' \subseteq Corriendo /\ EnCola' \subseteq EnCola
           /\ procesoEnEjecucion' # Nada => procesoEnEjecucion' = procesoEnEjecucion
           /\ \A j \in Ids :
                 /\ Enviado(j)' => Enviado(j)
                 /\ Elegido(j)' => Elegido(j)
                 /\ Dummy(j) \in EnListos' => Dummy(j) \in EnListos
                 /\ Preparando(j)' => Preparando(j)
           /\ \A j \in Ids, c \in CPUs : Suya(c, j) => Suya(c, j)'
           /\ \A j \in 1 .. Len(dtb) : Ultimo(j) /\ Socket(j) \in tieneDTBasociado' => Ultimo(j)'
  <1>1. /\ Corriendo' \subseteq Corriendo
        /\ procesoEnEjecucion' # Nada => procesoEnEjecucion' = procesoEnEjecucion
    BY DEF Corriendo, Movidos
  <1>2. EnCola' \subseteq EnCola
    BY <1>1 DEF EnCola, Movidos
  <1>3. ASSUME NEW j \in Ids
        PROVE  /\ Enviado(j)' => Enviado(j)
               /\ Elegido(j)' => Elegido(j)
               /\ Dummy(j) \in EnListos' => Dummy(j) \in EnListos
               /\ Preparando(j)' => Preparando(j)
    <2>1. Enviado(j)' => Enviado(j)
      BY DEF Enviado, MenosEnCPUs
    <2>2. Elegido(j)' => Elegido(j)
      BY <1>1, LosDosObjetos DEF Elegido, Movidos
    <2>3. Dummy(j) \in EnListos' => Dummy(j) \in EnListos
      BY LosDosObjetos DEF Movidos
    <2> QED
      BY <2>1, <2>2, <2>3 DEF Preparando
  <1>4. \A j \in Ids, c \in CPUs : Suya(c, j) => Suya(c, j)'
    BY DEF Suya, Movidos
  <1>5. ASSUME NEW j \in 1 .. Len(dtb), Ultimo(j), Socket(j) \in tieneDTBasociado'
        PROVE  Ultimo(j)'
    BY <1>5 DEF Ultimo, Movidos
  <1> QED
    BY <1>1, <1>2, <1>3, <1>4, <1>5

LEMMA SiguenLugares ==
    ASSUME TipoInductivo, CarrerasInductivo, MenosEnCPUs, NEW L, NEW K, Movidos(L, K),
           \A p \in EnCola' : p \in EnCola => Socket(p.id) \in tieneDTBasociado',
           \A c \in CPUs, j \in Ids : EnCPU(c, j) => c \in tieneDTBasociado'
    PROVE  Reservas' /\ Duenio' /\ Preparacion' /\ SoloReales'
  <1>1. Reservas /\ Duenio /\ Preparacion /\ SoloReales
    BY DEF CarrerasInductivo
  <1>2. ASSUME NEW j \in Ids, Real(j) \in EnListos' \cup EnBloqueados' \cup Corriendo'
        PROVE  Real(j) \in EnListos \cup EnBloqueados \cup Corriendo \/ ~Preparando(j)
    <2>1. CASE Real(j) \in EnListos \cup EnBloqueados \cup Corriendo
      BY <2>1
    <2>2. CASE Real(j) \in L \cup K
      BY <2>2, LosDosObjetos DEF Movidos
    <2>3. Corriendo' \subseteq Corriendo
      BY MovidosDe
    <2> QED
      BY <1>2, <2>1, <2>2, <2>3 DEF Movidos
  <1>3. Reservas'
    <2>1. ASSUME NEW p \in EnCola' PROVE Ultimo(p.id)'
      <3>1. Ultimo(p.id) /\ p.id \in 1 .. Len(dtb) /\ Socket(p.id) \in tieneDTBasociado'
        BY <1>1, MovidosDe DEF Reservas, Ultimo
      <3> QED
        BY <3>1, MovidosDe
    <2> QED
      BY <2>1 DEF Reservas
  <1>4. Duenio'
    <2> SUFFICES ASSUME NEW c \in CPUs, NEW j \in Ids, EnCPU(c, j)'
                 PROVE  /\ Suya(c, j)' /\ Ultimo(j)' /\ Real(j) \notin EnNuevos'
                        /\ Dummy(j) \notin EnListos' \cup Corriendo' /\ ~Enviado(j)'
      BY DEF Duenio
    <2>1. EnCPU(c, j)
      BY DEF MenosEnCPUs
    <2>2. /\ Suya(c, j) /\ Ultimo(j) /\ Real(j) \notin EnNuevos
          /\ Dummy(j) \notin EnListos \cup Corriendo /\ ~Enviado(j)
      BY <1>1, <2>1 DEF Duenio
    <2>3. Ultimo(j)'
      <3>1. j \in 1 .. Len(dtb) /\ Socket(j) = c
        BY <2>2 DEF Suya
      <3>2. c \in tieneDTBasociado'
        BY <2>1
      <3> QED
        BY <2>2, <3>1, <3>2, MovidosDe
    <2> QED
      BY <2>2, <2>3, MovidosDe DEF Movidos
  <1>5. Preparacion'
    <2> SUFFICES ASSUME NEW j \in Ids
                 PROVE  /\ Preparando(j)' => Real(j) \notin EnListos' \cup EnBloqueados' \cup Corriendo'
                        /\ Enviado(j)' => Dummy(j) \notin EnListos' /\ ~Elegido(j)'
                        /\ \A c \in CPUs : /\ AlMasUno(aCPU'[c], DeDummy(j))
                                           /\ Hay(aCPU'[c], DeDummy(j)) => Suya(c, j)'
      BY DEF Preparacion
    <2>1. /\ Preparando(j) => Real(j) \notin EnListos \cup EnBloqueados \cup Corriendo
          /\ Enviado(j) => Dummy(j) \notin EnListos /\ ~Elegido(j)
          /\ \A c \in CPUs : AlMasUno(aCPU[c], DeDummy(j)) /\ (Hay(aCPU[c], DeDummy(j)) => Suya(c, j))
      BY <1>1 DEF Preparacion
    <2>2. Preparando(j)' => Real(j) \notin EnListos' \cup EnBloqueados' \cup Corriendo'
      BY <1>2, <2>1, MovidosDe
    <2>3. Enviado(j)' => Dummy(j) \notin EnListos' /\ ~Elegido(j)'
      BY <2>1, MovidosDe
    <2>4. ASSUME NEW c \in CPUs
          PROVE  AlMasUno(aCPU'[c], DeDummy(j)) /\ (Hay(aCPU'[c], DeDummy(j)) => Suya(c, j)')
      BY <2>1, MovidosDe DEF MenosEnCPUs
    <2> QED
      BY <2>2, <2>3, <2>4
  <1>6. SoloReales'
    BY <1>1 DEF SoloReales, Movidos
  <1> QED
    BY <1>3, <1>4, <1>5, <1>6

LEMMA SiguenPedidos ==
    ASSUME TipoInductivo, CarrerasInductivo, MenosEnCPUs, MenosPedidos, NEW L, NEW K, Movidos(L, K),
           \A y \in L : ~Pidio(y.id, Bloqueantes)',
           procesoEnEjecucion' # Nada =>
               \A c \in CPUs : Perdido \/ Bloqueandose(c) => Perdido' \/ Bloqueandose(c)'
    PROVE  QuienPide' /\ CargaSola' /\ BloqueoSolo'
  <1>1. QuienPide /\ CargaSola /\ BloqueoSolo
    BY DEF CarrerasInductivo
  <1>2. QuienPide'
    BY <1>1, MovidosDe DEF QuienPide, MenosPedidos
  <1>3. ASSUME NEW j \in Ids
        PROVE  /\ (Pidio(j, {1})' => Pidio(j, {1})) /\ (Unico(j, {1}) => Unico(j, {1})')
               /\ Pidio(j, Bloqueantes)' => Pidio(j, Bloqueantes)
               /\ Unico(j, Bloqueantes) => Unico(j, Bloqueantes)'
    BY DEF MenosPedidos
  <1>4. CargaSola'
    BY <1>1, <1>3, MovidosDe DEF CargaSola, Movidos
  <1>5. BloqueoSolo'
    <2> SUFFICES ASSUME NEW j \in Ids
                 PROVE  /\ Unico(j, Bloqueantes)'
                        /\ Pidio(j, Bloqueantes)' =>
                              /\ Real(j) \notin EnNuevos' \cup EnListos'
                              /\ procesoEnEjecucion' = Real(j) => Perdido' \/ Bloqueandose(Socket(j))'
      BY DEF BloqueoSolo
    <2>1. /\ Unico(j, Bloqueantes)
          /\ Pidio(j, Bloqueantes) =>
                              /\ Real(j) \notin EnNuevos \cup EnListos
                              /\ procesoEnEjecucion = Real(j) => Perdido \/ Bloqueandose(Socket(j))
      BY <1>1 DEF BloqueoSolo
    <2>2. Pidio(j, Bloqueantes)' => Real(j) \notin L
      BY LosDosObjetos
    <2>3. ASSUME Pidio(j, Bloqueantes)', procesoEnEjecucion' = Real(j) PROVE Perdido' \/ Bloqueandose(Socket(j))'
      <3>1. procesoEnEjecucion' # Nada /\ procesoEnEjecucion = Real(j) /\ procesoEnEjecucion # Nada
        BY <2>3, MovidosDe, LosDosObjetos
      <3>2. Socket(j) \in CPUs /\ j \in 1 .. Len(dtb)
        BY <3>1, QuienCorre, LosDosObjetos
      <3>3. Perdido \/ Bloqueandose(Socket(j))
        BY <1>3, <2>1, <2>3, <3>1
      <3>4. PICK c \in CPUs : c = Socket(j)
        BY <3>2
      <3>5. Perdido' \/ Bloqueandose(c)'
        BY <3>1, <3>3, <3>4
      <3>6. Socket(j)' = c
        BY <3>2, <3>4 DEF Movidos
      <3> QED
        BY <3>5, <3>6 DEF Bloqueandose
    <2> QED
      BY <1>3, <2>1, <2>2, <2>3 DEF Movidos
  <1> QED
    BY <1>2, <1>4, <1>5

--------------------------------------------------------------------------------
(* The steps of S-AFA that send nothing to a CPU, and the order of the messages *)

(* the CPUs do nothing and are sent nothing; S-AFA may take what they told it *)
SoloLeer == UNCHANGED <<aCPU, hilo, DTB>> /\ \A c \in CPUs : Menos(deCPU'[c], deCPU[c])

LEMMA LeerMenos ==
    ASSUME SoloLeer
    PROVE  /\ MenosEnCPUs
           /\ \A c \in CPUs : /\ ConToken(c)' => ConToken(c)
                              /\ Vivo(c)' => Vivo(c)
                              /\ DummyEn(c)' => DummyEn(c)
                              /\ UnDummy(c) => UnDummy(c)'
                              /\ \A V : Hay(deCPU'[c], V) => Hay(deCPU[c], V)
           /\ Perdido /\ sem_CPU_ejecutoUnaSentencia' = sem_CPU_ejecutoUnaSentencia => Perdido'
  <1>1. MenosEnCPUs
    BY DEF SoloLeer, MenosEnCPUs, EnCPU
  <1>2. ASSUME NEW c \in CPUs
        PROVE  /\ ConToken(c)' => ConToken(c)
               /\ Vivo(c)' => Vivo(c)
               /\ DummyEn(c)' => DummyEn(c)
               /\ UnDummy(c) => UnDummy(c)'
               /\ \A V : Hay(deCPU'[c], V) => Hay(deCPU[c], V)
    BY DEF SoloLeer, Menos, ConToken, Vivo, DummyEn, UnDummy
  <1> QED
    BY <1>1, <1>2 DEF Perdido

LEMMA FlujoQuieto ==
    ASSUME TipoInductivo, Flujo, SoloLeer, UNCHANGED <<procesoEnEjecucion, sem_CPU_ejecutoUnaSentencia>>,
           pcp' \in {pcp, "espera"}, \A j \in 1 .. Len(dtb) : Socket(j)' = Socket(j)
    PROVE  Flujo'
  <1>1. Turno'
    BY LeerMenos, QuienCorre DEF Flujo, Turno, SoloLeer
  <1>2. FinLimpio'
    BY LeerMenos DEF Flujo, FinLimpio, SoloLeer
  <1>3. DummyUnico'
    BY LeerMenos, QuienCorre DEF Flujo, DummyUnico
  <1> QED
    BY <1>1, <1>2, <1>3 DEF Flujo

LEMMA FlujoSinToken ==
    ASSUME Flujo, SoloLeer, \A c \in CPUs : ~ConToken(c)', Perdido' \/ \A c \in CPUs : ~DummyEn(c)
    PROVE  Flujo'
  <1>1. Turno'
    BY VivoConToken DEF Turno
  <1>2. FinLimpio'
    BY LeerMenos, VivoConToken DEF Flujo, FinLimpio, SoloLeer
  <1>3. DummyUnico'
    <2>1. ASSUME NEW c \in CPUs, ~DummyEn(c) PROVE UnDummy(c)' /\ ~DummyEn(c)'
      <3>1. ~DummyEn(c)'
        BY <2>1, LeerMenos
      <3>2. \A s, V : ~Hay(s, V) => AlMasUno(s, V)
        BY DEF Hay, AlMasUno
      <3> QED
        BY <3>1, <3>2 DEF DummyEn, UnDummy
    <2> QED
      BY <2>1 DEF DummyUnico
  <1> QED
    BY <1>1, <1>2, <1>3 DEF Flujo

(* S-AFA takes the only token from what CPU c told it: the process that ran there *)
(* is the one that runs, and no dummy is.                                          *)
LEMMA TomaToken ==
    ASSUME Base, CarrerasInductivo, NEW c \in CPUs, deCPU[c] # <<>>, Head(deCPU[c]) \in Avs,
           UNCHANGED <<aCPU, hilo, DTB>>, deCPU' = Consumir(deCPU, c)
    PROVE  /\ procesoEnEjecucion # Nada /\ procesoEnEjecucion = Real(procesoEnEjecucion.id)
           /\ Socket(procesoEnEjecucion.id) = c /\ pcp = "espera"
           /\ ~Perdido /\ sem_CPU_ejecutoUnaSentencia = 0
           /\ \A d \in CPUs : ~DummyEn(d) /\ ~ConToken(d)' /\ (Bloqueandose(d) => d = c /\ Head(deCPU[c]) = "b")
           /\ SoloLeer /\ Flujo'
  <1>1. TipoInductivo /\ TypeOK /\ UnaSentenciaPorVez /\ Flujo
    BY DEF Base, TipoInductivo, SentenciasInductivo, CarrerasInductivo
  <1>2. deCPU \in [CPUs -> Seq(Letras)]
    BY <1>1, TiposDeRed
  <1>3. /\ \A d \in CPUs : d # c => deCPU'[d] = deCPU[d]
        /\ \A d \in CPUs : Menos(deCPU'[d], deCPU[d])
        /\ Hay(deCPU[c], Avs) /\ ~Hay(deCPU'[c], Avs)
        /\ \A V : Hay(deCPU[c], V) <=> Head(deCPU[c]) \in V \/ Hay(deCPU'[c], V)
    <2>1. AlMasUno(deCPU[c], Avs)
      BY <1>1, UnToken
    <2> QED
      BY <1>2, <2>1, AlConsumir
  <1>4. SoloLeer
    BY <1>3 DEF SoloLeer
  <1>5. /\ ConToken(c) /\ Vivo(c) /\ ~Hay(aCPU[c], {Orden}) /\ hilo[c] # "avisoB"
        /\ sem_CPU_ejecutoUnaSentencia = 0
        /\ \A d \in CPUs : ConToken(d) => d = c
    <2>1. ConToken(c) /\ Vivo(c)
      BY <1>3 DEF ConToken, Vivo
    <2> QED
      BY <1>1, <1>3, <2>1, UnToken
  <1>6. procesoEnEjecucion # Nada /\ procesoEnEjecucion.flagInicializacion = 1
        /\ Socket(procesoEnEjecucion.id) = c /\ pcp = "espera"
    BY <1>1, <1>5 DEF Flujo, Turno
  <1>7. procesoEnEjecucion = Real(procesoEnEjecucion.id)
    BY <1>1, <1>6, QuienCorre
  <1>8. ~Perdido /\ \A d \in CPUs : ~DummyEn(d)
    <2>1. ~Perdido
      BY <1>5 DEF Perdido
    <2> QED
      BY <1>1, <1>6, <2>1 DEF Flujo, DummyUnico
  <1>9. \A d \in CPUs : ~ConToken(d)'
    <2>1. ~ConToken(c)'
      BY <1>3, <1>5 DEF ConToken
    <2> QED
      BY <1>4, <1>5, <2>1, LeerMenos
  <1>10. ASSUME NEW d \in CPUs, Bloqueandose(d) PROVE d = c /\ Head(deCPU[c]) = "b"
    <2>1. d = c
      BY <1>5, <1>10, VivoConToken
    <2>2. Hay(deCPU[c], {"b"})
      BY <1>5, <1>10, <2>1 DEF Bloqueandose
    <2>3. {"b"} \subseteq Avs
      BY DEF Avs, Letras
    <2>4. ~Hay(deCPU'[c], {"b"})
      BY <1>3, <2>3, HayMas
    <2> QED
      BY <1>3, <2>1, <2>2, <2>4
  <1>11. Flujo'
    BY <1>1, <1>4, <1>8, <1>9, FlujoSinToken
  <1> QED
    BY <1>4, <1>5, <1>6, <1>7, <1>8, <1>9, <1>10, <1>11

LEMMA PedidosMenos ==
    ASSUME UNCHANGED pedidos, Menos(deDAM', deDAM)
    PROVE  MenosPedidos
  BY DEF MenosPedidos, Menos, Pidio, Unico

LEMMA NadieMovido ==
    ASSUME EnNuevos' \subseteq EnNuevos, EnListos' \subseteq EnListos, EnBloqueados' \subseteq EnBloqueados,
           procesoEnEjecucion' \in {procesoEnEjecucion, Nada}, pcp' \in {pcp, "espera"},
           Len(dtb') = Len(dtb), \A j \in 1 .. Len(dtb) : Socket(j)' = Socket(j)
    PROVE  Movidos({}, {})
  BY DEF Movidos

LEMMA PasoMovidos ==
    ASSUME Base, CarrerasInductivo, SoloLeer, MenosPedidos, NEW L, NEW K, Movidos(L, K),
           tieneDTBasociado' = tieneDTBasociado, \A y \in L : ~Pidio(y.id, Bloqueantes)',
           procesoEnEjecucion' # Nada =>
               \A c \in CPUs : Perdido \/ Bloqueandose(c) => Perdido' \/ Bloqueandose(c)',
           Flujo'
    PROVE  CarrerasInductivo'
  <1>1. TipoInductivo /\ MenosEnCPUs /\ Reservas /\ Duenio
    BY LeerMenos DEF Base, CarrerasInductivo
  <1>2. \A p \in EnCola' : p \in EnCola => Socket(p.id) \in tieneDTBasociado'
    BY <1>1 DEF Reservas, Ultimo
  <1>3. \A c \in CPUs, j \in Ids : EnCPU(c, j) => c \in tieneDTBasociado'
    BY <1>1 DEF Duenio, Ultimo, Suya
  <1>4. Reservas' /\ Duenio' /\ Preparacion' /\ SoloReales'
    BY <1>1, <1>2, <1>3, SiguenLugares
  <1>5. QuienPide' /\ CargaSola' /\ BloqueoSolo'
    BY <1>1, SiguenPedidos
  <1> QED
    BY <1>4, <1>5 DEF CarrerasInductivo

(* The end of a script frees the CPU of the message: that of the process that runs, *)
(* and of nobody else.                                                               *)
LEMMA PasoFinDeScript ==
    ASSUME Base, CarrerasInductivo, NEW c \in CPUs, FinDeScript(c), UNCHANGED cpu
    PROVE  CarrerasInductivo'
  <1>1. /\ TipoInductivo /\ ColasInductivo
        /\ Flujo /\ Reservas /\ Duenio /\ Preparacion /\ SoloReales /\ FinLimpio
    BY DEF Base, CarrerasInductivo, Flujo
  <1>2. /\ deCPU[c] # <<>> /\ Head(deCPU[c]) \in Fines /\ UNCHANGED <<aCPU, pedidos, deDAM, hilo, DTB>>
        /\ deCPU' = Consumir(deCPU, c) /\ tieneDTBasociado' = tieneDTBasociado \ {c}
        /\ procesoEnEjecucion' = Nada /\ dtb' = dtb /\ pcp' = pcp
    BY DEF FinDeScript, Llega, Recibido, Fines, cpu, memoria, Desocupar, hilos
  <1>3. Fines \subseteq Avs
    BY DEF Fines, Avs, Letras
  <1>4. PICK r \in Ids : procesoEnEjecucion = Real(r) /\ Socket(r) = c /\ Real(r) \in Corriendo
    <2>1. procesoEnEjecucion # Nada /\ procesoEnEjecucion = Real(procesoEnEjecucion.id)
          /\ Socket(procesoEnEjecucion.id) = c
      BY <1>2, <1>3, TomaToken
    <2> QED
      BY <1>1, <2>1, QuienCorre
  <1>5. SoloLeer /\ Flujo' /\ MenosEnCPUs /\ MenosPedidos
    BY <1>2, <1>3, TomaToken, LeerMenos, PedidosMenos, QuedanMenos
  <1>6. Movidos({}, {})
    BY <1>2, NadieMovido DEF FinDeScript, EnNuevos, EnListos, EnBloqueados, Socket
  <1>7. ASSUME NEW p \in EnCola', p \in EnCola PROVE Socket(p.id) \in tieneDTBasociado'
    <2>1. p \in EnNuevos \cup EnListos \cup EnBloqueados
      BY <1>2, <1>7 DEF EnCola, Corriendo, FinDeScript, EnNuevos, EnListos, EnBloqueados
    <2>2. Ultimo(p.id) /\ Ultimo(r)
      BY <1>1, <1>4, <1>7, LosDosObjetos DEF Reservas, EnCola
    <2>3. p.id # r
      <3>1. p # Real(r)
        BY <1>1, <1>4, <2>1 DEF ColasInductivo, Separados
      <3>2. p # Dummy(r)
        <4>1. Dummy(r) \notin EnListos
          BY <1>1, <1>4 DEF Preparacion, Preparando
        <4>2. Dummy(r) \notin EnNuevos \cup EnBloqueados
          BY <1>1, LosDosObjetos DEF ColasInductivo, SinCarga, SoloReales
        <4> QED
          BY <2>1, <4>1, <4>2
      <3>3. p \in Objetos
        BY <1>1, <2>1, LugaresDeCreados
      <3> QED
        BY <3>1, <3>2, <3>3, RealEsDeUno
    <2>4. Socket(p.id) # c
      <3>1. p.id \in 1 .. Len(dtb) /\ r \in 1 .. Len(dtb) /\ Len(dtb) \in Nat
        BY <1>1, <2>2, LugaresDeCreados DEF Ultimo
      <3>2. p.id < r \/ r < p.id
        BY <2>3, <3>1
      <3> QED
        BY <1>4, <2>2, <3>1, <3>2 DEF Ultimo
    <2> QED
      BY <1>2, <2>2, <2>4 DEF Ultimo
  <1>8. ASSUME NEW d \in CPUs, NEW j \in Ids, EnCPU(d, j) PROVE d \in tieneDTBasociado'
    <2>1. d \in tieneDTBasociado
      BY <1>1, <1>8 DEF Duenio, Suya, Ultimo
    <2>2. Hay(deCPU[c], Fines)
      BY <1>1, <1>2, TiposDeRed, AlConsumir DEF TipoInductivo
    <2>3. hilo[c] \notin ConScript /\ ~Hay(aCPU[c], Reales)
      BY <1>1, <2>2 DEF FinLimpio
    <2>4. ~EnCPU(c, j)
      BY <2>3, HayDe DEF EnCPU
    <2> QED
      BY <1>2, <1>8, <2>1, <2>4
  <1>9. Reservas' /\ Duenio' /\ Preparacion' /\ SoloReales'
    BY <1>1, <1>5, <1>6, <1>7, <1>8, SiguenLugares
  <1>10. QuienPide' /\ CargaSola' /\ BloqueoSolo'
    BY <1>1, <1>2, <1>5, <1>6, SiguenPedidos
  <1> QED
    BY <1>5, <1>9, <1>10 DEF CarrerasInductivo

(* The other letters that bring the token back. *)
LEMMA PasoToken ==
    ASSUME Base, CarrerasInductivo, NEW c \in CPUs, UNCHANGED cpu,
           \/ FinIgnorado(c) \/ FinDeSentencia(c) \/ FinDeQuantum(c) \/ FinDeQuantumSinProceso(c)
           \/ VerificarSiFinalizar(c) \/ Bloquear(c) \/ BloquearSinProceso(c) \/ Recurso(c)
    PROVE  CarrerasInductivo'
  <1>1. TipoInductivo /\ ColasInductivo /\ Preparacion /\ BloqueoSolo
    BY DEF Base, CarrerasInductivo
  <1>2. {"f", "e"} \subseteq Avs /\ {"r"} \subseteq Avs /\ {"r", "b"} \subseteq Avs /\ {"b"} \subseteq Avs
        /\ {"w", "s"} \subseteq Avs
    BY DEF Avs, Letras
  <1>3. /\ deCPU[c] # <<>> /\ Head(deCPU[c]) \in Avs /\ UNCHANGED <<aCPU, pedidos, deDAM, hilo, DTB>>
        /\ deCPU' = Consumir(deCPU, c) /\ UNCHANGED <<dtb, pcp, tieneDTBasociado>>
    BY <1>2 DEF FinIgnorado, FinDeSentencia, FinDeQuantum, FinDeQuantumSinProceso, VerificarSiFinalizar,
                Bloquear, BloquearSinProceso, Recurso, CaerAlRecibir, Caer, Llega, Recibido, cpu, memoria,
                safa, hilos
  <1>4. PICK r \in Ids : procesoEnEjecucion = Real(r) /\ Socket(r) = c /\ Real(r) \in Corriendo
    <2>1. procesoEnEjecucion # Nada /\ procesoEnEjecucion = Real(procesoEnEjecucion.id)
          /\ Socket(procesoEnEjecucion.id) = c
      BY <1>3, TomaToken
    <2> QED
      BY <1>1, <2>1, QuienCorre
  <1>5. /\ SoloLeer /\ Flujo' /\ MenosEnCPUs /\ MenosPedidos /\ ~Perdido
        /\ sem_CPU_ejecutoUnaSentencia = 0 /\ \A d \in CPUs : ~ConToken(d)'
        /\ \A d \in CPUs : Bloqueandose(d) => Head(deCPU[c]) = "b"
    BY <1>3, TomaToken, LeerMenos, PedidosMenos, QuedanMenos
  <1>6. Real(r) = Real(Real(r).id) /\ Real(r).id = r /\ Real(r) # Nada
    BY LosDosObjetos
  <1>7. Real(r) \in EnCola /\ ~Preparando(r)
    BY <1>1, <1>4 DEF EnCola, Preparacion
  <1>8. CASE FinDeQuantum(c) \/ Bloquear(c)
    <2>1. procesoEnEjecucion' = Nada /\ procesos_nuevos' = procesos_nuevos
      BY <1>8 DEF FinDeQuantum, Bloquear, Desocupar
    <2>2. EnNuevos' = EnNuevos /\ Real(r) \notin EnNuevos
      BY <1>1, <1>4, <2>1 DEF EnNuevos, ColasInductivo, Separados
    <2>3. CASE FinDeQuantum(c)
      <3>1. EnListos' \subseteq EnListos \cup {Real(r)} /\ EnBloqueados' = EnBloqueados
        <4>1. procesos_listos' = Append(procesos_listos, Real(r)) /\ procesos_bloqueados' = procesos_bloqueados
          BY <1>4, <2>3 DEF FinDeQuantum
        <4>2. procesos_listos \in Seq(Objetos) /\ Real(r) \in Objetos
          BY <1>1, LosDosObjetos DEF TipoInductivo, TypeOK, SAFATypeOK
        <4> QED
          BY <4>1, <4>2, AlFinal DEF EnListos, EnBloqueados
      <3>2. Movidos({Real(r)}, {})
        BY <1>3, <1>6, <1>7, <2>1, <2>2, <3>1 DEF Movidos, Socket
      <3>3. ~Pidio(r, Bloqueantes)'
        <4>1. Head(deCPU[c]) = "r"
          BY <2>3 DEF FinDeQuantum, Llega
        <4>2. Socket(r) \in CPUs /\ ~Bloqueandose(Socket(r))
          BY <1>4, <1>5, <4>1
        <4>3. ~Pidio(r, Bloqueantes)
          BY <1>1, <1>4, <1>5, <4>2 DEF BloqueoSolo
        <4> QED
          BY <1>5, <4>3 DEF MenosPedidos
      <3> QED
        BY <1>3, <1>5, <1>6, <2>1, <3>2, <3>3, PasoMovidos
    <2>4. CASE Bloquear(c)
      <3>1. EnBloqueados' \subseteq EnBloqueados \cup {Real(r)} /\ EnListos' = EnListos
        <4>1. procesos_bloqueados' = Append(procesos_bloqueados, Real(r)) /\ procesos_listos' = procesos_listos
          BY <1>4, <2>4 DEF Bloquear
        <4>2. procesos_bloqueados \in Seq(Objetos) /\ Real(r) \in Objetos
          BY <1>1, LosDosObjetos DEF TipoInductivo, TypeOK, SAFATypeOK
        <4> QED
          BY <4>1, <4>2, AlFinal DEF EnListos, EnBloqueados
      <3>2. Movidos({}, {Real(r)})
        BY <1>3, <1>6, <1>7, <2>1, <2>2, <3>1 DEF Movidos, Socket
      <3> QED
        BY <1>3, <1>5, <2>1, <3>2, PasoMovidos
    <2> QED
      BY <1>8, <2>3, <2>4
  <1>9. CASE ~(FinDeQuantum(c) \/ Bloquear(c))
    <2>1. /\ UNCHANGED <<procesos_nuevos, procesos_listos, procesos_bloqueados, procesoEnEjecucion>>
          /\ \/ Head(deCPU[c]) = "r"
             \/ sem_CPU_ejecutoUnaSentencia' = sem_CPU_ejecutoUnaSentencia
      BY <1>9 DEF FinIgnorado, FinDeSentencia, FinDeQuantumSinProceso, VerificarSiFinalizar,
                  BloquearSinProceso, Recurso, CaerAlRecibir, Caer, Llega, safa, colas, sems
    <2>2. Movidos({}, {})
      BY <1>3, <2>1, NadieMovido DEF EnNuevos, EnListos, EnBloqueados, Socket
    <2>3. \A d \in CPUs : Perdido \/ Bloqueandose(d) => Perdido' \/ Bloqueandose(d)'
      BY <1>5, <2>1 DEF Perdido
    <2> QED
      BY <1>3, <1>5, <2>2, <2>3, PasoMovidos
  <1> QED
    BY <1>8, <1>9

(* A CPU has passed a dummy to DAM: unless the token was lost, that dummy ran. *)
LEMMA PasoDummyEnviado ==
    ASSUME Base, CarrerasInductivo, NEW c \in CPUs, UNCHANGED cpu, DummyEnviado(c) \/ DummySinProceso(c)
    PROVE  CarrerasInductivo'
  <1>1. TipoInductivo /\ ColasInductivo /\ TypeOK /\ Flujo
    BY DEF Base, CarrerasInductivo, TipoInductivo
  <1>2. /\ deCPU[c] # <<>> /\ Head(deCPU[c]) = "d" /\ UNCHANGED <<aCPU, pedidos, deDAM, hilo, DTB>>
        /\ deCPU' = Consumir(deCPU, c) /\ UNCHANGED <<dtb, pcp, tieneDTBasociado, sem_CPU_ejecutoUnaSentencia>>
        /\ UNCHANGED <<procesos_nuevos, procesos_listos, procesos_bloqueados>>
        /\ procesoEnEjecucion' = Nada
    BY DEF DummyEnviado, DummySinProceso, CaerAlRecibir, Caer, Llega, Recibido, cpu, memoria, safa, hilos,
           sems, colas, Desocupar
  <1>3. /\ \A d \in CPUs : d # c => deCPU'[d] = deCPU[d]
        /\ \A d \in CPUs : Menos(deCPU'[d], deCPU[d])
        /\ Hay(deCPU[c], {"d"}) /\ (AlMasUno(deCPU[c], {"d"}) => ~Hay(deCPU'[c], {"d"}))
    <2>1. deCPU \in [CPUs -> Seq(Letras)] /\ deCPU[c] # <<>> /\ Head(deCPU[c]) = "d" /\ deCPU' = Consumir(deCPU, c)
      BY <1>1, <1>2, TiposDeRed
    <2>2. /\ \A d \in CPUs : d # c => Consumir(deCPU, c)[d] = deCPU[d]
          /\ \A d \in CPUs : Menos(Consumir(deCPU, c)[d], deCPU[d])
          /\ \A V : Hay(deCPU[c], V) <=> Head(deCPU[c]) \in V \/ Hay(Consumir(deCPU, c)[c], V)
          /\ \A V : AlMasUno(deCPU[c], V) => (Head(deCPU[c]) \in V => ~Hay(Consumir(deCPU, c)[c], V))
      BY <2>1, AlConsumir
    <2> QED
      BY <2>1, <2>2
  <1>4. SoloLeer /\ MenosPedidos
    BY <1>2, <1>3, PedidosMenos, QuedanMenos DEF SoloLeer
  <1>5. Movidos({}, {})
    BY <1>2, NadieMovido DEF EnNuevos, EnListos, EnBloqueados, Socket
  <1>6. Flujo'
    <2>1. CASE Perdido
      <3>1. Perdido' /\ \A d \in CPUs : ~ConToken(d)'
        BY <1>2, <1>4, <2>1, LeerMenos DEF Perdido
      <3> QED
        BY <1>1, <1>4, <3>1, FlujoSinToken
    <2>2. CASE ~Perdido
      <3>1. DummyEn(c) /\ UnDummy(c) /\ \A d \in CPUs : DummyEn(d) => d = c
        BY <1>1, <1>3, <2>2 DEF Flujo, DummyUnico, DummyEn
      <3>2. \A d \in CPUs : ~Vivo(d)
        BY <1>1, <2>2, <3>1 DEF Flujo, Turno, DummyUnico
      <3>3. \A d \in CPUs : ~DummyEn(d)'
        <4>1. ~DummyEn(c)'
          BY <1>2, <1>3, <3>1 DEF DummyEn, UnDummy
        <4> QED
          BY <1>4, <3>1, <4>1, LeerMenos
      <3>4. Turno' /\ FinLimpio'
        BY <1>1, <1>4, <3>2, LeerMenos DEF Flujo, Turno, FinLimpio, SoloLeer
      <3>5. \A d \in CPUs : UnDummy(d)'
        BY <1>1, <1>4, <2>2, LeerMenos DEF Flujo, DummyUnico
      <3> QED
        BY <3>3, <3>4, <3>5 DEF Flujo, DummyUnico
    <2> QED
      BY <2>1, <2>2
  <1> QED
    BY <1>2, <1>4, <1>5, <1>6, PasoMovidos

LEMMA PasoConexionCPU ==
    ASSUME Base, CarrerasInductivo, NEW c \in CPUs, ConexionCPU(c), UNCHANGED cpu
    PROVE  CarrerasInductivo'
  BY PasoFinDeScript, PasoToken, PasoDummyEnviado DEF ConexionCPU

--------------------------------------------------------------------------------
(* The answers of DAM, and the steps that only take processes from their places *)

LEMMA PasoQuieto ==
    ASSUME Base, CarrerasInductivo, UNCHANGED cpu,
           UNCHANGED <<aCPU, deCPU, pedidos, procesoEnEjecucion, tieneDTBasociado, sem_CPU_ejecutoUnaSentencia>>,
           Menos(deDAM', deDAM), NEW L, Movidos(L, {}), \A y \in L : ~Pidio(y.id, Bloqueantes)'
    PROVE  CarrerasInductivo'
  <1>1. TipoInductivo /\ Flujo
    BY DEF Base, CarrerasInductivo
  <1>2. SoloLeer /\ MenosPedidos
    BY PedidosMenos, QuedanMenos DEF SoloLeer, cpu, memoria
  <1>3. Flujo'
    BY <1>1, <1>2, FlujoQuieto DEF Movidos
  <1>4. \A c \in CPUs : Bloqueandose(c) => Bloqueandose(c)'
    BY DEF Bloqueandose, cpu
  <1>5. Perdido => Perdido'
    BY <1>2, LeerMenos
  <1> QED
    BY <1>2, <1>3, <1>4, <1>5, PasoMovidos

(* the same, when nobody becomes ready *)
LEMMA PasoSinListo ==
    ASSUME Base, CarrerasInductivo, UNCHANGED cpu,
           UNCHANGED <<aCPU, deCPU, pedidos, procesoEnEjecucion, tieneDTBasociado, sem_CPU_ejecutoUnaSentencia>>,
           Menos(deDAM', deDAM), EnNuevos' \subseteq EnNuevos, EnListos' \subseteq EnListos,
           EnBloqueados' \subseteq EnBloqueados, pcp' \in {pcp, "espera"},
           Len(dtb') = Len(dtb), \A j \in 1 .. Len(dtb) : Socket(j)' = Socket(j)
    PROVE  CarrerasInductivo'
  <1>1. Movidos({}, {})
    BY NadieMovido
  <1> QED
    BY <1>1, PasoQuieto

LEMMA PasoCaer ==
    ASSUME Base, CarrerasInductivo, UNCHANGED cpu, NEW causa, Caer(causa),
           UNCHANGED <<aCPU, deCPU, pedidos>>, Menos(deDAM', deDAM)
    PROVE  CarrerasInductivo'
  BY PasoSinListo DEF Caer, colas, sems, hilos, EnNuevos, EnListos, EnBloqueados, Socket

LEMMA PasoConsolaOtra ==
    ASSUME Base, CarrerasInductivo, UNCHANGED cpu, Consola, \A e \in Escriptorios : ~Ejecutar(e)
    PROVE  CarrerasInductivo'
  <1>1. TipoInductivo /\ ColasInductivo /\ Menos(deDAM, deDAM)
    BY QuedanMenos DEF Base
  <1>2. CASE EjecutarSinCPU
    BY <1>1, <1>2, PasoCaer DEF EjecutarSinCPU, red
  <1>3. ASSUME NEW i \in Ids, FinalizarEnEjecucion(i) PROVE CarrerasInductivo'
    BY <1>1, <1>3, PasoSinListo DEF FinalizarEnEjecucion, colas, sems, hilos, red, EnNuevos, EnListos, EnBloqueados, Socket
  <1>4. ASSUME NEW i \in Ids, Finalizar(i) PROVE CarrerasInductivo'
    <2>1. EnNuevos' \subseteq EnNuevos /\ EnListos' \subseteq EnListos /\ EnBloqueados' = EnBloqueados
      BY <1>1, <1>4, FinalizarColas
    <2> QED
      BY <1>1, <1>4, <2>1, PasoSinListo DEF Finalizar, sems, hilos, red, Socket
  <1>5. ASSUME NEW i \in Ids, FinalizarListoSinEjecucion(i) PROVE CarrerasInductivo'
    BY <1>1, <1>5, PasoCaer DEF FinalizarListoSinEjecucion, red
  <1>6. CASE StatusColasCae
    BY <1>1, <1>6, PasoCaer DEF StatusColasCae, red
  <1>7. ASSUME NEW i \in Ids, StatusProceso(i) PROVE CarrerasInductivo'
    BY <1>1, <1>7, PasoSinListo DEF StatusProceso, colas, sems, hilos, red, EnNuevos, EnListos, EnBloqueados, Socket
  <1>8. ASSUME NEW i \in Ids, StatusCae(i) PROVE CarrerasInductivo'
    BY <1>1, <1>8, PasoCaer DEF StatusCae, red
  <1> QED
    BY <1>2, <1>3, <1>4, <1>5, <1>6, <1>7, <1>8 DEF Consola

(* The answer to the abrir of a dummy: its process becomes ready, or ends. *)
LEMMA PasoAbrir ==
    ASSUME Base, CarrerasInductivo, UNCHANGED cpu, AbrirOk \/ AbrirMal
    PROVE  CarrerasInductivo'
  <1>1. /\ TipoInductivo /\ ColasInductivo /\ TypeOK /\ CargaSola /\ BloqueoSolo
        /\ deDAM \in Seq(Paquetes)
    BY TiposDeRed DEF Base, TipoInductivo, CarrerasInductivo
  <1>2. /\ UNCHANGED <<aCPU, deCPU, pedidos, procesoEnEjecucion, tieneDTBasociado,
                       sem_CPU_ejecutoUnaSentencia, pcp>>
        /\ deDAM # <<>> /\ Head(deDAM).tipoOperacion = 1 /\ deDAM' = Tail(deDAM)
        /\ dtb' = Cargando(dtb, IdRespuesta, 0)
    BY DEF AbrirOk, AbrirMal, Respuesta, hilos, sems
  <1>3. PICK i \in 1 .. Len(dtb) :
           /\ i = IdRespuesta /\ Len(dtb') = Len(dtb) /\ Real(i) \in EnNuevos /\ EnNuevos' = EnNuevos \ {Real(i)}
           /\ EnBloqueados' = EnBloqueados
           /\ \/ AbrirOk /\ EnListos' = EnListos \cup {Real(i)}
              \/ EnListos' = EnListos
    BY <1>1, AbrirColas
  <1>4. i \in Ids /\ Real(i).id = i /\ Real(i) # Nada
    BY <1>1, <1>3, LugaresDeCreados, LosDosObjetos DEF Creados, Objetos
  <1>5. \A j \in 1 .. Len(dtb) : Socket(j)' = Socket(j)
    <2>1. dtb \in Seq(DTBs)
      BY <1>1 DEF TypeOK, SAFATypeOK
    <2> QED
      BY <1>2, <1>3, <2>1 DEF Cargando, Socket
  <1>6. Menos(deDAM', deDAM)
    BY <1>1, <1>2, QuedanMenos
  <1>7. CASE EnListos' = EnListos
    BY <1>2, <1>3, <1>5, <1>6, <1>7, PasoSinListo
  <1>8. CASE EnListos' = EnListos \cup {Real(i)}
    <2>1. ~Preparando(i) /\ ~Pidio(i, Bloqueantes)
      <3>1. Hay(deDAM, De(i, {1}))
        <4>1. Head(deDAM) \in De(i, {1})
          BY <1>1, <1>2, <1>3, HeadTailProperties DEF De, IdRespuesta
        <4> QED
          BY <1>1, <1>2, <4>1, UnoMenos
      <3> QED
        BY <1>1, <1>3, <1>4, <3>1 DEF CargaSola, BloqueoSolo, Pidio
    <2>2. ~Pidio(i, Bloqueantes)'
      BY <1>2, <1>6, <2>1 DEF Pidio, Menos
    <2>3. Real(i) \notin Corriendo
      BY <1>1, <1>3 DEF ColasInductivo, Separados
    <2>4. Movidos({Real(i)}, {})
      BY <1>2, <1>3, <1>4, <1>5, <1>8, <2>1, <2>3 DEF Movidos, EnCola, Corriendo
    <2> QED
      BY <1>2, <1>4, <1>6, <2>2, <2>4, PasoQuieto
  <1> QED
    BY <1>3, <1>7, <1>8

(* The answer to a flush or a borrar: the blocked process becomes ready, or ends. *)
LEMMA PasoOperacion ==
    ASSUME Base, CarrerasInductivo, UNCHANGED cpu, OperacionOk \/ OperacionMal
    PROVE  CarrerasInductivo'
  <1>1. /\ TipoInductivo /\ ColasInductivo /\ TypeOK /\ Preparacion /\ BloqueoSolo /\ SoloReales
        /\ deDAM \in Seq(Paquetes) /\ deDAM \in Seq(Otros)
    BY TiposDeRed DEF Base, TipoInductivo, CarrerasInductivo, SentenciasInductivo, SinPedidosDeCrear
  <1>2. /\ UNCHANGED <<aCPU, deCPU, pedidos, procesoEnEjecucion, tieneDTBasociado, pcp, dtb, procesos_nuevos>>
        /\ deDAM # <<>> /\ Head(deDAM).tipoOperacion \in {6, 8, 9} /\ deDAM' = Tail(deDAM)
        /\ \E hay \in BOOLEAN : Despertar(hay)
    BY DEF OperacionOk, OperacionMal, Respuesta, hilos, UnicoListo
  <1>3. sem_CPU_ejecutoUnaSentencia' = sem_CPU_ejecutoUnaSentencia /\ Head(deDAM) \in Paquetes
        /\ Head(deDAM).tipoOperacion \in Bloqueantes
    <2>1. Head(deDAM) \in Otros /\ Head(deDAM) \in Paquetes
      BY <1>1, <1>2, HeadTailProperties
    <2>2. ~Despierta /\ sem_CPU_ejecutoUnaSentencia \in Nat
      BY <1>1, <2>1 DEF Otros, Despierta, TypeOK, SAFATypeOK
    <2> QED
      BY <1>2, <2>1, <2>2 DEF Despertar, Bloqueantes
  <1>4. Menos(deDAM', deDAM) /\ EnNuevos' = EnNuevos /\ \A j \in 1 .. Len(dtb) : Socket(j)' = Socket(j)
    BY <1>1, <1>2, QuedanMenos DEF EnNuevos, Socket
  <1>5. CASE OperacionMal
    <2>1. EnListos' = EnListos /\ EnBloqueados' \subseteq EnBloqueados
      <3>1. /\ procesos_listos' = procesos_listos
            /\ procesos_bloqueados' = Sin(procesos_bloqueados, IdRespuesta)
        BY <1>5 DEF OperacionMal
      <3>2. procesos_bloqueados \in Seq(Objetos) /\ Nada \notin Objetos /\ SinRepetir(procesos_bloqueados)
        BY <1>1, LosDosObjetos, CreadosObjetos DEF TypeOK, SAFATypeOK, ColasInductivo, UnaVez
      <3> QED
        BY <3>1, <3>2, ElDeEseId DEF EnListos, EnBloqueados
    <2> QED
      BY <1>2, <1>3, <1>4, <2>1, PasoSinListo
  <1>6. CASE OperacionOk
    <2>1. PICK i : i = IdRespuesta
      OBVIOUS
    <2>2. PICK y : y = procesos_bloqueados[Primera(procesos_bloqueados, i)]
      OBVIOUS
    <2>3. /\ procesos_bloqueados \in Seq(Objetos) /\ procesos_listos \in Seq(Objetos)
          /\ Nada \notin Objetos /\ SinRepetir(procesos_bloqueados)
      BY <1>1, CreadosObjetos DEF TypeOK, SAFATypeOK, ColasInductivo, UnaVez
    <2>4. /\ Tiene(procesos_bloqueados, i) /\ procesos_bloqueados' = Sin(procesos_bloqueados, i)
          /\ procesos_listos' = Append(procesos_listos, y)
      BY <1>6, <2>1, <2>2 DEF OperacionOk
    <2>5. y \in EnBloqueados /\ y \in Objetos /\ y.id = i /\ y = Real(i)
      <3>1. y \in EnBloqueados /\ y \in Objetos /\ y.id = i
        BY <2>2, <2>3, <2>4, ElDeEseId DEF EnBloqueados
      <3> QED
        BY <1>1, <3>1 DEF SoloReales
    <2>6. i \in Ids /\ Real(i).id = i
      BY <2>5 DEF Objetos, Real
    <2>7. EnBloqueados' \subseteq EnBloqueados /\ EnListos' \subseteq EnListos \cup {y}
      BY <2>3, <2>4, <2>5, ElDeEseId, AlFinal DEF EnBloqueados, EnListos
    <2>8. ~Preparando(i) /\ y \notin EnNuevos \cup Corriendo
      BY <1>1, <2>5, <2>6 DEF Preparacion, ColasInductivo, Separados
    <2>9. ~Pidio(i, Bloqueantes)'
      <3>1. Head(deDAM) \in De(i, Bloqueantes)
        BY <1>3, <2>1 DEF De, IdRespuesta
      <3>2. Unico(i, Bloqueantes)
        BY <1>1, <2>6 DEF BloqueoSolo
      <3>3. Hay(deDAM, De(i, Bloqueantes)) /\ ~Hay(Tail(deDAM), De(i, Bloqueantes))
        BY <1>1, <1>2, <3>1, <3>2, UnoMenos DEF Unico
      <3> QED
        BY <1>2, <3>2, <3>3 DEF Pidio, Unico
    <2>10. Movidos({y}, {})
      <3>1. y # procesoEnEjecucion' /\ y \in EnCola
        BY <1>2, <2>3, <2>5, <2>8 DEF EnCola, Corriendo
      <3> QED
        BY <1>2, <1>4, <2>5, <2>6, <2>7, <2>8, <3>1 DEF Movidos
    <2> QED
      BY <1>2, <1>3, <1>4, <2>5, <2>9, <2>10, PasoQuieto
  <1> QED
    BY <1>5, <1>6

LEMMA PasoConexionDAM ==
    ASSUME Base, CarrerasInductivo, UNCHANGED cpu, ConexionDAM
    PROVE  CarrerasInductivo'
  <1>1. deDAM \in Seq(Paquetes)
    BY TiposDeRed DEF Base, TipoInductivo
  <1>2. CASE AbrirSinNuevo \/ OperacionOkSinBloqueado
    <2>1. UNCHANGED <<aCPU, deCPU, pedidos>> /\ deDAM # <<>> /\ deDAM' = Tail(deDAM)
          /\ \E causa : Caer(causa)
      BY <1>2 DEF AbrirSinNuevo, OperacionOkSinBloqueado, Respuesta
    <2> QED
      BY <1>1, <2>1, QuedanMenos, PasoCaer
  <1> QED
    BY <1>2, PasoAbrir, PasoOperacion DEF ConexionDAM

--------------------------------------------------------------------------------
(* The short-term planner and the orders *)

LEMMA AlMandar ==
    ASSUME TypeOK, NEW s \in CPUs, NEW m \in Mensajes, aCPU' = Enviar(aCPU, s, m)
    PROVE  /\ \A c \in CPUs : c # s => aCPU'[c] = aCPU[c]
           /\ \A V : Hay(aCPU'[s], V) <=> Hay(aCPU[s], V) \/ m \in V
           /\ \A V : AlMasUno(aCPU'[s], V) <=> AlMasUno(aCPU[s], V) /\ (m \in V => ~Hay(aCPU[s], V))
           /\ \A V, W : Antes(aCPU'[s], V, W) <=> Antes(aCPU[s], V, W) \/ (Hay(aCPU[s], V) /\ m \in W)
  <1>1. aCPU \in [CPUs -> Seq(Mensajes)] /\ aCPU[s] \in Seq(Mensajes)
    BY TiposDeRed
  <1>2. aCPU'[s] = Append(aCPU[s], m) /\ \A c \in CPUs : c # s => aCPU'[c] = aCPU[c]
    BY <1>1 DEF Enviar
  <1> QED
    BY <1>1, <1>2, UnoMas

(* An order is sent with the only token in hand, behind the process it is for. *)
LEMMA PasoOrdenar ==
    ASSUME Base, CarrerasInductivo, OrdenTrasDespacho, UNCHANGED cpu, EjecOrdenar
    PROVE  CarrerasInductivo'
  <1>1. /\ TipoInductivo /\ ColasInductivo /\ TypeOK /\ UnaSentenciaPorVez
        /\ Flujo /\ Reservas /\ Duenio /\ BloqueoSolo
    BY DEF Base, TipoInductivo, SentenciasInductivo, CarrerasInductivo
  <1>2. /\ UNCHANGED <<deCPU, pedidos, deDAM, procesos_nuevos, procesos_listos, procesos_bloqueados,
                       procesoEnEjecucion, dtb, tieneDTBasociado, pcp, hilo, DTB>>
        /\ sem_CPU_ejecutoUnaSentencia > 0
        /\ sem_CPU_ejecutoUnaSentencia' = sem_CPU_ejecutoUnaSentencia - 1
        /\ ejec = "turno" /\ ejec' = "condicion"
    BY DEF EjecOrdenar, Disponible, colas, cpu, memoria
  <1>3. /\ sem_CPU_ejecutoUnaSentencia = 1 /\ sem_CPU_ejecutoUnaSentencia' = 0
        /\ \A c \in CPUs : ~ConToken(c)
        /\ ~Perdido
    <2>1. \A c \in CPUs : ~ConToken(c)
      BY <1>1, <1>2, UnToken
    <2>2. sem_CPU_ejecutoUnaSentencia \in Nat /\ sem_CPU_ejecutoUnaSentencia <= 1
      BY <1>1 DEF UnaSentenciaPorVez, TypeOK, SAFATypeOK
    <2> QED
      BY <1>2, <2>1, <2>2 DEF Perdido
  <1>4. \A c \in CPUs : ~Vivo(c) /\ ~Bloqueandose(c) /\ ~Hay(deCPU[c], Fines)
        /\ ~Hay(aCPU[c], {Orden}) /\ ~Hay(deCPU[c], Avs) /\ hilo[c] # "avisoB"
    BY <1>3, VivoConToken DEF ConToken
  <1>5. MenosPedidos /\ Movidos({}, {})
    BY <1>2, PedidosMenos, QuedanMenos, NadieMovido DEF EnNuevos, EnListos, EnBloqueados, Socket
  <1>6. CASE procesoEnEjecucion = Nada
    <2>1. aCPU' = aCPU
      BY <1>6 DEF EjecOrdenar
    <2>2. SoloLeer
      BY <1>2, <2>1, QuedanMenos DEF SoloLeer
    <2>3. \A c \in CPUs : ~ConToken(c)'
      BY <1>3, <2>2, LeerMenos
    <2>4. Perdido'
      BY <1>3, <2>3 DEF Perdido
    <2>5. Flujo'
      BY <1>1, <2>2, <2>3, <2>4, FlujoSinToken
    <2> QED
      BY <1>2, <1>5, <1>6, <2>2, <2>5, PasoMovidos
  <1>7. CASE procesoEnEjecucion # Nada
    <2>1. PICK s \in CPUs : s = Socket(procesoEnEjecucion.id)
      BY <1>1, <1>7, QuienCorre
    <2>2. aCPU' = Enviar(aCPU, s, Orden) /\ pcp = "espera"
      BY <1>2, <1>7, <2>1 DEF EjecOrdenar, OrdenTrasDespacho, Socket
    <2>3. aCPU \in [CPUs -> Seq(Mensajes)] /\ Orden \in Mensajes
      BY <1>1, TiposDeRed, ClasesDeMensajes
    <2>4. /\ \A c \in CPUs : c # s => aCPU'[c] = aCPU[c]
          /\ \A V : Hay(aCPU'[s], V) <=> Hay(aCPU[s], V) \/ Orden \in V
          /\ \A V : AlMasUno(aCPU'[s], V) <=> AlMasUno(aCPU[s], V) /\ (Orden \in V => ~Hay(aCPU[s], V))
          /\ \A V, W : Antes(aCPU'[s], V, W) <=> Antes(aCPU[s], V, W) \/ (Hay(aCPU[s], V) /\ Orden \in W)
      BY <1>1, <2>2, <2>3, AlMandar
    <2>5. ASSUME NEW c \in CPUs, NEW V, Orden \notin V
          PROVE  (Hay(aCPU'[c], V) <=> Hay(aCPU[c], V)) /\ (AlMasUno(aCPU'[c], V) <=> AlMasUno(aCPU[c], V))
      BY <2>4, <2>5
    <2>6. MenosEnCPUs
      BY <1>2, <2>5, ClasesDeMensajes DEF MenosEnCPUs, EnCPU
    <2>7. ASSUME NEW c \in CPUs, Vivo(c)'
          PROVE  c = s /\ \E j \in Ids : EnCPU(s, j)
      <3>1. c = s
        BY <1>2, <1>4, <2>4, <2>7 DEF Vivo
      <3>2. CASE hilo[s] = "orden"
        <4>1. DTB[s].proceso.id \in Ids
          BY <1>1, <3>2 DEF TipoInductivo, ConDTB, EnEjecucion, Objetos
        <4> QED
          BY <3>1, <3>2, <4>1 DEF EnCPU, ConScript
      <3>3. CASE hilo[s] # "orden"
        <4>1. Antes(aCPU'[s], Reales, {Orden})
          BY <1>2, <1>4, <2>7, <3>1, <3>3 DEF Vivo
        <4>2. Hay(aCPU[s], Reales)
          BY <2>4, <4>1, HayMas
        <4> QED
          BY <3>1, <4>2, HayDe DEF EnCPU
      <3> QED
        BY <3>1, <3>2, <3>3
    <2>8. ASSUME NEW c \in CPUs, Vivo(c)' PROVE procesoEnEjecucion.flagInicializacion = 1 /\ c = s
      <3>1. PICK j \in Ids : EnCPU(s, j)
        BY <2>7, <2>8
      <3>2. PICK p : p = procesoEnEjecucion
        OBVIOUS
      <3>3. /\ p \in Corriendo /\ p.id \in 1 .. Len(dtb) /\ p.id \in Ids /\ Socket(p.id) = s
            /\ p.flagInicializacion = 1 \/ p = Dummy(p.id)
        BY <1>1, <1>7, <2>1, <3>2, QuienCorre
      <3>4. Ultimo(p.id) /\ Ultimo(j) /\ Socket(j) = s /\ Dummy(j) \notin Corriendo
        BY <1>1, <3>1, <3>3 DEF Reservas, EnCola, Duenio, Suya
      <3>5. p.id = j
        <4>1. j \in 1 .. Len(dtb) /\ Len(dtb) \in Nat
          BY <1>1, <3>4, LugaresDeCreados DEF Ultimo
        <4>2. ~(p.id < j) /\ ~(j < p.id)
          BY <3>3, <3>4, <4>1 DEF Ultimo
        <4> QED
          BY <3>3, <4>1, <4>2
      <3> QED
        BY <2>7, <2>8, <3>2, <3>3, <3>4, <3>5
    <2>9. Turno'
      <3> SUFFICES ASSUME NEW c \in CPUs, Vivo(c)'
                   PROVE  /\ pcp' = "espera" /\ procesoEnEjecucion' # Nada
                          /\ procesoEnEjecucion'.flagInicializacion = 1 /\ Socket(procesoEnEjecucion.id)' = c
                          /\ ~Antes(aCPU'[c], {Orden}, Reales)
        BY DEF Turno
      <3>1. procesoEnEjecucion.flagInicializacion = 1 /\ c = s
        BY <2>8
      <3>2. Socket(procesoEnEjecucion.id)' = s
        BY <1>2, <2>1 DEF Socket
      <3>3. ~Antes(aCPU'[s], {Orden}, Reales)
        BY <1>4, <2>4, HayMas, ClasesDeMensajes
      <3> QED
        BY <1>2, <1>7, <2>2, <3>1, <3>2, <3>3
    <2>10. FinLimpio'
      BY <1>2, <1>4 DEF FinLimpio
    <2>11. DummyUnico'
      <3>1. ASSUME NEW c \in CPUs PROVE (UnDummy(c) => UnDummy(c)') /\ (DummyEn(c)' => DummyEn(c))
        BY <1>2, <2>5, ClasesDeMensajes DEF UnDummy, DummyEn
      <3>2. ASSUME NEW c \in CPUs
            PROVE  /\ UnDummy(c)
                   /\ DummyEn(c) => /\ procesoEnEjecucion.flagInicializacion = 0
                                    /\ Socket(procesoEnEjecucion.id) = c
        BY <1>1, <1>3 DEF Flujo, DummyUnico
      <3>3. ASSUME NEW c \in CPUs, DummyEn(c)'
            PROVE  /\ procesoEnEjecucion' # Nada /\ procesoEnEjecucion'.flagInicializacion = 0
                   /\ Socket(procesoEnEjecucion.id)' = c /\ pcp' # "enviar"
        BY <1>2, <1>7, <2>2, <3>1, <3>2, <3>3 DEF Socket
      <3> QED
        BY <3>1, <3>2, <3>3 DEF DummyUnico
    <2>12. Reservas' /\ Duenio' /\ Preparacion' /\ SoloReales'
      <3>1. \A p \in EnCola' : p \in EnCola => Socket(p.id) \in tieneDTBasociado'
        BY <1>1, <1>2 DEF Reservas, Ultimo
      <3>2. \A c \in CPUs, j \in Ids : EnCPU(c, j) => c \in tieneDTBasociado'
        BY <1>1, <1>2 DEF Duenio, Ultimo, Suya
      <3> QED
        BY <1>1, <1>5, <2>6, <3>1, <3>2, SiguenLugares
    <2>13. QuienPide' /\ CargaSola' /\ BloqueoSolo'
      BY <1>1, <1>3, <1>4, <1>5, <2>6, SiguenPedidos
    <2> QED
      BY <2>9, <2>10, <2>11, <2>12, <2>13 DEF CarrerasInductivo, Flujo
  <1> QED
    BY <1>6, <1>7

(* With no process over another, the one chosen finds nobody running. *)
LEMMA PasoSeleccionar ==
    ASSUME Base, CarrerasInductivo, DespachoLibre, UNCHANGED cpu, PCPSeleccionar
    PROVE  CarrerasInductivo'
  <1>1. /\ TipoInductivo /\ ColasInductivo /\ TypeOK
        /\ Flujo /\ Reservas /\ Duenio /\ Preparacion /\ QuienPide /\ CargaSola /\ BloqueoSolo /\ SoloReales
    BY DEF Base, TipoInductivo, CarrerasInductivo
  <1>2. /\ UNCHANGED <<aCPU, deCPU, pedidos, deDAM, procesos_nuevos, procesos_bloqueados, dtb,
                       tieneDTBasociado, sem_CPU_ejecutoUnaSentencia, hilo, DTB>>
        /\ pcp = "espera" /\ Menos(deDAM', deDAM)
    BY QuedanMenos DEF PCPSeleccionar, red, cpu, memoria
  <1>3. CASE UNCHANGED <<procesos_listos, procesoEnEjecucion, pcp>>
    BY <1>2, <1>3, PasoSinListo DEF EnNuevos, EnListos, EnBloqueados, Socket
  <1>4. CASE procesos_listos # <<>> /\ procesoEnEjecucion' = Head(procesos_listos) /\ pcp' = "enviar"
    <2>1. PICK x : x = Head(procesos_listos)
      OBVIOUS
    <2>2. procesos_listos' = Tail(procesos_listos)
      BY <1>4 DEF PCPSeleccionar, round_robin
    <2>3. x \in EnListos /\ x \in Objetos /\ x # Nada /\ EnListos' = EnListos \ {x}
      <3>1. /\ procesos_listos \in Seq(Objetos) /\ Nada \notin Objetos /\ SinRepetir(procesos_listos)
        BY <1>1, CreadosObjetos DEF TypeOK, SAFATypeOK, ColasInductivo, UnaVez
      <3> QED
        BY <1>4, <2>1, <2>2, <3>1, ElPrimero DEF EnListos
    <2>4. procesoEnEjecucion' = x /\ procesoEnEjecucion = Nada
      <3>1. x # procesoEnEjecucion
        BY <1>1, <2>3 DEF ColasInductivo, Separados, Corriendo
      <3> QED
        BY <1>4, <2>1, <2>3, <3>1 DEF DespachoLibre
    <2>5. EnNuevos' = EnNuevos /\ EnBloqueados' = EnBloqueados /\ Corriendo' = {x} /\ Corriendo = {}
          /\ EnCola' \subseteq EnCola
      BY <1>2, <2>3, <2>4 DEF EnNuevos, EnBloqueados, Corriendo, EnCola
    <2>6. SoloLeer /\ (Perdido => Perdido')
      <3>1. SoloLeer
        BY <1>2, QuedanMenos DEF SoloLeer
      <3> QED
        BY <1>2, <3>1, LeerMenos
    <2>7. \A c \in CPUs : ~Vivo(c) /\ (~Perdido => ~DummyEn(c))
      BY <1>1, <2>4 DEF Flujo, Turno, DummyUnico
    <2>8. Flujo'
      <3>1. Turno' /\ FinLimpio'
        BY <1>1, <2>6, <2>7, LeerMenos DEF Flujo, Turno, FinLimpio, SoloLeer
      <3>2. DummyUnico'
        BY <1>1, <2>6, <2>7, LeerMenos DEF Flujo, DummyUnico
      <3> QED
        BY <3>1, <3>2 DEF Flujo
    <2>9. /\ \A j \in 1 .. Len(dtb) : Socket(j)' = Socket(j)
          /\ \A j : (Ultimo(j) => Ultimo(j)') /\ (Enviado(j)' <=> Enviado(j)) /\ \A c : Suya(c, j)' <=> Suya(c, j)
          /\ \A j, c : EnCPU(c, j)' <=> EnCPU(c, j)
          /\ \A j, ops : (Pidio(j, ops)' <=> Pidio(j, ops)) /\ (Unico(j, ops)' <=> Unico(j, ops))
      BY <1>2 DEF Socket, Ultimo, Enviado, Suya, EnCPU, Pidio, Unico
    <2>10. \A j \in Ids : /\ Elegido(j)' => x = Dummy(j) /\ Dummy(j) \in EnListos
                          /\ Preparando(j)' => Preparando(j)
      BY <2>3, <2>4, <2>9 DEF Elegido, Preparando
    <2>11. Reservas'
      BY <1>1, <2>5, <2>9 DEF Reservas
    <2>12. Duenio'
      BY <1>1, <2>3, <2>5, <2>9 DEF Duenio
    <2>13. Preparacion'
      BY <1>1, <1>2, <2>3, <2>5, <2>9, <2>10 DEF Preparacion
    <2>14. QuienPide' /\ SoloReales'
      BY <1>1, <1>2, <2>5, <2>9 DEF QuienPide, SoloReales
    <2>15. CargaSola'
      BY <1>1, <2>5, <2>9, <2>10 DEF CargaSola
    <2>16. BloqueoSolo'
      BY <1>1, <2>3, <2>4, <2>5, <2>9 DEF BloqueoSolo
    <2> QED
      BY <2>8, <2>11, <2>12, <2>13, <2>14, <2>15, <2>16 DEF CarrerasInductivo
  <1> QED
    BY <1>3, <1>4 DEF PCPSeleccionar, round_robin

(* The process chosen goes to its own CPU, where nothing is under way. *)
LEMMA PasoEnviar ==
    ASSUME Base, CarrerasInductivo, UNCHANGED cpu, PCPEnviar
    PROVE  CarrerasInductivo'
  <1>1. /\ TipoInductivo /\ ColasInductivo /\ TypeOK
        /\ Flujo /\ Reservas /\ Duenio /\ Preparacion /\ QuienPide /\ CargaSola /\ BloqueoSolo /\ SoloReales
    BY DEF Base, TipoInductivo, CarrerasInductivo
  <1>2. /\ UNCHANGED <<deCPU, pedidos, deDAM, procesos_nuevos, procesos_listos, procesos_bloqueados,
                       procesoEnEjecucion, dtb, tieneDTBasociado, sem_CPU_ejecutoUnaSentencia, hilo, DTB>>
        /\ pcp = "enviar" /\ pcp' = "quitar" /\ procesoEnEjecucion # Nada
    BY DEF PCPEnviar, colas, sems, cpu, memoria
  <1>3. PICK p \in Objetos :
           /\ p = procesoEnEjecucion /\ Corriendo = {p} /\ p.id \in Ids /\ p.id \in 1 .. Len(dtb)
           /\ Socket(p.id) \in CPUs /\ dtb[p.id].pathEscriptorio \in Escriptorios
           /\ p.flagInicializacion \in {0, 1}
           /\ p.flagInicializacion = 1 <=> p = Real(p.id)
           /\ p.flagInicializacion = 0 <=> p = Dummy(p.id)
    BY <1>1, <1>2, QuienCorre
  <1>4. PICK s \in CPUs, m \in Mensajes :
           /\ s = Socket(p.id) /\ m = EnvioProceso(p, dtb[p.id].pathEscriptorio)
    BY <1>3 DEF Mensajes
  <1>5. m # Orden /\ m.proceso = p /\ aCPU' = Enviar(aCPU, s, m)
    BY <1>2, <1>3, <1>4 DEF EnvioProceso, Orden, PCPEnviar, Socket
  <1>6. /\ m \in Reales <=> p.flagInicializacion = 1
        /\ m \in Dummies <=> p.flagInicializacion = 0
        /\ \A j : m \in DeReal(j) <=> p.flagInicializacion = 1 /\ p.id = j
        /\ \A j : m \in DeDummy(j) <=> p.flagInicializacion = 0 /\ p.id = j
    BY <1>4, <1>5 DEF Reales, Dummies, DeReal, DeDummy
  <1>7. /\ \A c \in CPUs : c # s => aCPU'[c] = aCPU[c]
        /\ \A V : Hay(aCPU'[s], V) <=> Hay(aCPU[s], V) \/ m \in V
        /\ \A V : AlMasUno(aCPU'[s], V) <=> AlMasUno(aCPU[s], V) /\ (m \in V => ~Hay(aCPU[s], V))
        /\ \A V, W : Antes(aCPU'[s], V, W) <=> Antes(aCPU[s], V, W) \/ (Hay(aCPU[s], V) /\ m \in W)
    BY <1>1, <1>5, AlMandar
  <1>8. \A c \in CPUs : ~Vivo(c) /\ ~Vivo(c)' /\ ~Hay(deCPU[c], Fines)
    <2>1. \A c \in CPUs : ~Vivo(c)
      BY <1>1, <1>2 DEF Flujo, Turno
    <2>2. \A c \in CPUs : ~Vivo(c)'
      BY <1>2, <1>5, <1>7, <2>1 DEF Vivo
    <2> QED
      BY <2>1, <2>2, VivoConToken
  <1>9. (Perdido <=> Perdido') /\ \A c \in CPUs : Bloqueandose(c)' <=> Bloqueandose(c)
    <2>1. \A c \in CPUs : (ConToken(c)' <=> ConToken(c)) /\ (Bloqueandose(c)' <=> Bloqueandose(c))
      BY <1>2, <1>5, <1>7 DEF ConToken, Bloqueandose
    <2> QED
      BY <1>2, <2>1 DEF Perdido
  <1>10. /\ EnNuevos' = EnNuevos /\ EnListos' = EnListos /\ EnBloqueados' = EnBloqueados
         /\ Corriendo' = Corriendo /\ EnCola' = EnCola
         /\ \A j : (Socket(j)' = Socket(j)) /\ (Ultimo(j)' <=> Ultimo(j)) /\ \A c : Suya(c, j)' <=> Suya(c, j)
         /\ \A j, ops : (Pidio(j, ops)' <=> Pidio(j, ops)) /\ (Unico(j, ops)' <=> Unico(j, ops))
    BY <1>2 DEF EnNuevos, EnListos, EnBloqueados, Corriendo, EnCola, Socket, Ultimo, Suya, Pidio, Unico
  <1>11. ASSUME NEW j \in Ids
         PROVE  /\ \A c \in CPUs : EnCPU(c, j)' => EnCPU(c, j) \/ (c = s /\ p = Real(j))
                /\ \A c \in CPUs : Hay(aCPU'[c], DeDummy(j)) => Hay(aCPU[c], DeDummy(j)) \/ (c = s /\ p = Dummy(j))
                /\ Enviado(j)' => Enviado(j) \/ p = Dummy(j)
                /\ ~Elegido(j)' /\ (Preparando(j)' => Preparando(j))
                /\ p = Dummy(j) => Elegido(j)
    <2>1. ASSUME NEW c \in CPUs
          PROVE  /\ EnCPU(c, j)' => EnCPU(c, j) \/ (c = s /\ p = Real(j))
                 /\ Hay(aCPU'[c], DeDummy(j)) => Hay(aCPU[c], DeDummy(j)) \/ (c = s /\ p = Dummy(j))
      BY <1>2, <1>3, <1>6, <1>7 DEF EnCPU
    <2>2. Enviado(j)' => Enviado(j) \/ p = Dummy(j)
      BY <2>1 DEF Enviado
    <2>3. ~Elegido(j)' /\ (p = Dummy(j) => Elegido(j))
      BY <1>2, <1>3 DEF Elegido
    <2> QED
      BY <1>10, <2>1, <2>2, <2>3 DEF Preparando
  <1>12. Turno' /\ FinLimpio'
    BY <1>2, <1>8 DEF Turno, FinLimpio
  <1>13. DummyUnico'
    <2>1. CASE Perdido
      BY <1>9, <2>1 DEF DummyUnico
    <2>2. CASE ~Perdido
      <3>1. \A c \in CPUs : UnDummy(c) /\ ~DummyEn(c)
        BY <1>1, <1>2, <2>2 DEF Flujo, DummyUnico
      <3>2. ASSUME NEW c \in CPUs PROVE UnDummy(c)' /\ (DummyEn(c)' => c = s /\ p.flagInicializacion = 0)
        <4>1. Hay(aCPU'[c], Dummies) => c = s /\ p.flagInicializacion = 0
          BY <1>6, <1>7, <3>1 DEF DummyEn
        <4>2. AlMasUno(aCPU'[c], Dummies)
          BY <1>7, <3>1 DEF DummyEn, UnDummy
        <4> QED
          BY <1>2, <3>1, <4>1, <4>2 DEF DummyEn, UnDummy
      <3> QED
        BY <1>2, <1>3, <1>4, <1>10, <3>2 DEF DummyUnico
    <2> QED
      BY <2>1, <2>2
  <1>14. Reservas'
    BY <1>1, <1>10 DEF Reservas
  <1>15. Duenio'
    <2> SUFFICES ASSUME NEW c \in CPUs, NEW j \in Ids, EnCPU(c, j)'
                 PROVE  /\ Suya(c, j) /\ Ultimo(j) /\ Real(j) \notin EnNuevos
                        /\ Dummy(j) \notin EnListos \cup Corriendo /\ ~Enviado(j)'
      BY <1>10 DEF Duenio
    <2>1. CASE EnCPU(c, j)
      BY <1>1, <1>3, <1>11, <2>1 DEF Duenio
    <2>2. CASE c = s /\ p = Real(j)
      <3>1. p.id = j /\ p # Dummy(j)
        BY <2>2, LosDosObjetos
      <3>2. Suya(c, j) /\ Ultimo(j)
        BY <1>1, <1>3, <1>4, <2>2, <3>1 DEF Suya, Reservas, EnCola
      <3>3. Real(j) \notin EnNuevos
        BY <1>1, <1>3, <2>2 DEF ColasInductivo, Separados
      <3>4. Dummy(j) \notin EnListos /\ ~Enviado(j)
        BY <1>1, <1>3, <2>2 DEF Preparacion, Preparando
      <3> QED
        BY <1>3, <1>11, <2>2, <3>1, <3>2, <3>3, <3>4
    <2> QED
      BY <1>11, <2>1, <2>2
  <1>16. Preparacion'
    <2> SUFFICES ASSUME NEW j \in Ids
                 PROVE  /\ Preparando(j)' => Real(j) \notin EnListos \cup EnBloqueados \cup Corriendo
                        /\ Enviado(j)' => Dummy(j) \notin EnListos /\ ~Elegido(j)'
                        /\ \A c \in CPUs : /\ AlMasUno(aCPU'[c], DeDummy(j))
                                           /\ Hay(aCPU'[c], DeDummy(j)) => Suya(c, j)
      BY <1>10 DEF Preparacion
    <2>1. /\ Preparando(j) => Real(j) \notin EnListos \cup EnBloqueados \cup Corriendo
          /\ Enviado(j) => Dummy(j) \notin EnListos /\ ~Elegido(j)
          /\ \A c \in CPUs : AlMasUno(aCPU[c], DeDummy(j)) /\ (Hay(aCPU[c], DeDummy(j)) => Suya(c, j))
      BY <1>1 DEF Preparacion
    <2>2. p = Dummy(j) => Dummy(j) \notin EnListos /\ p.id = j
      BY <1>1, <1>3, LosDosObjetos DEF ColasInductivo, Separados
    <2>3. Enviado(j)' => Dummy(j) \notin EnListos /\ ~Elegido(j)'
      BY <1>11, <2>1, <2>2
    <2>4. ASSUME NEW c \in CPUs PROVE AlMasUno(aCPU'[c], DeDummy(j))
      <3>1. m \in DeDummy(j) => ~Hay(aCPU[s], DeDummy(j))
        BY <1>3, <1>6, <1>11, <2>1 DEF Enviado
      <3> QED
        BY <1>7, <2>1, <3>1
    <2>5. ASSUME NEW c \in CPUs, Hay(aCPU'[c], DeDummy(j)) PROVE Suya(c, j)
      BY <1>3, <1>4, <1>11, <2>1, <2>2, <2>5 DEF Suya
    <2> QED
      BY <1>11, <2>1, <2>3, <2>4, <2>5
  <1>17. QuienPide' /\ SoloReales'
    BY <1>1, <1>2, <1>10 DEF QuienPide, SoloReales
  <1>18. CargaSola'
    BY <1>1, <1>10, <1>11 DEF CargaSola
  <1>19. BloqueoSolo'
    <2>1. ASSUME NEW j \in Ids, Pidio(j, Bloqueantes), procesoEnEjecucion = Real(j)
          PROVE  Perdido' \/ Bloqueandose(Socket(j))'
      <3>1. j = p.id
        BY <1>3, <2>1, LosDosObjetos
      <3>2. Perdido \/ Bloqueandose(s)
        BY <1>1, <1>4, <2>1, <3>1 DEF BloqueoSolo
      <3>3. Perdido' \/ Bloqueandose(s)'
        BY <1>9, <3>2
      <3>4. Socket(j)' = s
        BY <1>4, <1>10, <3>1
      <3> QED
        BY <3>3, <3>4 DEF Bloqueandose
    <2> QED
      BY <1>1, <1>2, <1>10, <2>1 DEF BloqueoSolo
  <1> QED
    BY <1>12, <1>13, <1>14, <1>15, <1>16, <1>17, <1>18, <1>19 DEF CarrerasInductivo, Flujo

--------------------------------------------------------------------------------
(* A new process: the CPU it gets was nobody's, and the dummy made is of a process *)
(* nobody has called yet.                                                           *)

LEMMA PasoEjecutar ==
    ASSUME Base, Base', CarrerasInductivo, UNCHANGED cpu, NEW e \in Escriptorios, Ejecutar(e)
    PROVE  CarrerasInductivo'
  <1>1. /\ TipoInductivo /\ ColasInductivo /\ ColasInductivo' /\ TypeOK /\ SoloLlamados
        /\ Flujo /\ Reservas /\ Duenio /\ Preparacion /\ QuienPide /\ CargaSola /\ BloqueoSolo /\ SoloReales
    BY DEF Base, TipoInductivo, CarrerasInductivo
  <1>2. /\ UNCHANGED <<aCPU, deCPU, pedidos, deDAM, procesos_bloqueados, procesoEnEjecucion,
                       sem_CPU_ejecutoUnaSentencia, pcp, hilo, DTB>>
        /\ CPUs # tieneDTBasociado /\ tieneDTBasociado' = tieneDTBasociado \cup {CPULibre}
    BY DEF Ejecutar, red, cpu, memoria, hilos
  <1>3. PICK n \in Ids : n = Len(dtb) + 1 /\ n \in Nat /\ Len(dtb) \in Nat
    BY <1>1, EjecutarColas, LugaresDeCreados
  <1>4. /\ EnBloqueados' = EnBloqueados /\ Corriendo' = Corriendo
        /\ EnNuevos' = EnNuevos \cup {Real(n)} /\ Len(dtb') = n
    BY <1>1, <1>3, EjecutarColas
  <1>5. PICK i \in Ids :
           /\ EnListos' = EnListos \/ EnListos' = EnListos \cup {Dummy(i)}
           /\ Real(i) \in EnNuevos' /\ i \notin Llamados
    <2>1. PICK i \in 1 .. Len(dtb') :
             /\ EnListos' = EnListos \/ EnListos' = EnListos \cup {Dummy(i)}
             /\ Real(i) \in EnNuevos' /\ (i <= Len(dtb) => dtb[i].seEstaCargando # 1)
      BY <1>1, EjecutarColas
    <2>2. i \in 1 .. n /\ i \in Ids
      BY <1>3, <1>4, <2>1, RedAssumption DEF Ids
    <2>3. ASSUME i \in Llamados PROVE FALSE
      <3>1. i \in 1 .. Len(dtb) /\ (Real(i) \in EnNuevos => dtb[i].seEstaCargando = 1)
        BY <2>3 DEF Llamados
      <3>2. Real(i) \notin EnNuevos /\ i # n
        BY <1>3, <2>1, <3>1
      <3> QED
        BY <1>4, <2>1, <3>2, LosDosObjetos
    <2> QED
      BY <2>1, <2>2, <2>3
  <1>6. n \notin Llamados /\ \A j \in Llamados : j \in 1 .. Len(dtb) /\ j # n /\ j # i
    BY <1>3, <1>5 DEF Llamados
  <1>7. /\ \A j \in 1 .. Len(dtb) : Socket(j)' = Socket(j)
        /\ Socket(n)' = CPULibre /\ CPULibre \notin tieneDTBasociado
    <2>1. dtb \in Seq(DTBs) /\ tieneDTBasociado \subseteq CPUs /\ idGlobal = n
      BY <1>1, <1>3 DEF TypeOK, SAFATypeOK, idGlobal
    <2>2. CPULibre \in CPUs /\ CPULibre \notin tieneDTBasociado
      BY <1>2, <2>1, CPULibreTipo
    <2> DEFINE d == [socketProceso |-> CPULibre, pathEscriptorio |-> e, seEstaCargando |-> 0]
               t == Append(dtb, d)
    <2>3. d \in DTBs
      BY <2>2 DEF DTBs
    <2>4. d.socketProceso = CPULibre
      OBVIOUS
    <2>5. \E k : dtb' = t \/ dtb' = Cargando(t, k, 1)
      BY DEF Ejecutar
    <2> HIDE DEF d
    <2>6. Len(t) = n /\ t \in Seq(DTBs) /\ t[n] = d /\ \A j \in 1 .. Len(dtb) : t[j] = dtb[j]
      BY <1>3, <2>1, <2>3, AppendProperties
    <2>7. \A j \in 1 .. n : dtb'[j].socketProceso = t[j].socketProceso
      <3> HIDE DEF t
      <3>1. ASSUME NEW k PROVE \A j \in 1 .. n : Cargando(t, k, 1)[j].socketProceso = t[j].socketProceso
        BY <2>6 DEF Cargando
      <3> QED
        BY <2>5, <3>1
    <2>8. n \in 1 .. n /\ \A j \in 1 .. Len(dtb) : j \in 1 .. n
      BY <1>3
    <2> QED
      BY <2>2, <2>4, <2>6, <2>7, <2>8 DEF Socket
  <1>8. /\ \A j \in Ids : Ultimo(j) => Ultimo(j)'
        /\ Ultimo(n)'
        /\ \A j \in Ids, c \in CPUs : Suya(c, j) => Suya(c, j)' /\ j # n
    <2>1. ASSUME NEW j \in Ids, Ultimo(j) PROVE Ultimo(j)'
      <3>1. j \in 1 .. Len(dtb') /\ Socket(j)' \in tieneDTBasociado'
        BY <1>2, <1>3, <1>4, <1>7, <2>1 DEF Ultimo
      <3>2. ASSUME NEW k \in 1 .. Len(dtb'), k > j PROVE Socket(k)' # Socket(j)'
        <4>1. k \in 1 .. Len(dtb) \/ k = n
          BY <1>3, <1>4
        <4> QED
          BY <1>7, <2>1, <3>2, <4>1 DEF Ultimo
      <3> QED
        BY <3>1, <3>2 DEF Ultimo
    <2>2. Ultimo(n)'
      BY <1>2, <1>3, <1>4, <1>7 DEF Ultimo
    <2>3. ASSUME NEW j \in Ids, NEW c \in CPUs, Suya(c, j) PROVE Suya(c, j)' /\ j # n
      BY <1>3, <1>4, <1>7, <2>3 DEF Suya
    <2> QED
      BY <2>1, <2>2, <2>3
  <1>9. /\ \A j : Enviado(j)' <=> Enviado(j)
        /\ \A j, c : EnCPU(c, j)' <=> EnCPU(c, j)
        /\ \A j, ops : (Pidio(j, ops)' <=> Pidio(j, ops)) /\ (Unico(j, ops)' <=> Unico(j, ops))
    BY <1>2 DEF Enviado, EnCPU, Pidio, Unico
  <1>10. ASSUME NEW j \in Ids, j = n \/ j = i
         PROVE  /\ \A ops : ~Pidio(j, ops) /\ Unico(j, ops)
                /\ ~Enviado(j) /\ \A c \in CPUs : ~EnCPU(c, j)
    BY <1>1, <1>5, <1>6, <1>10, NoLlamado
  <1>11. /\ \A j \in Ids : Real(j) \in EnListos' <=> Real(j) \in EnListos
         /\ \A j \in Ids : Dummy(j) \in EnListos' => Dummy(j) \in EnListos \/ j = i
         /\ \A j \in Ids : Real(j) \in EnNuevos' => Real(j) \in EnNuevos \/ j = n
         /\ \A j \in Ids : Elegido(j)' <=> Elegido(j)
         /\ \A j \in Ids : Preparando(j)' => Preparando(j) \/ j = i
    <2>1. \A j \in Ids : Elegido(j)' <=> Elegido(j)
      BY <1>2 DEF Elegido
    <2>2. \A j \in Ids : Dummy(j) \in EnListos' => Dummy(j) \in EnListos \/ j = i
      BY <1>5, LosDosObjetos
    <2>3. \A j \in Ids : Preparando(j)' => Preparando(j) \/ j = i
      BY <1>9, <2>1, <2>2 DEF Preparando
    <2> QED
      BY <1>4, <1>5, <2>1, <2>2, <2>3, LosDosObjetos
  <1>12. Flujo' /\ \A c \in CPUs : Perdido \/ Bloqueandose(c) => Perdido' \/ Bloqueandose(c)'
    <2>1. SoloLeer /\ UNCHANGED <<procesoEnEjecucion, sem_CPU_ejecutoUnaSentencia, pcp>>
      BY <1>2, QuedanMenos DEF SoloLeer
    <2>2. Flujo'
      BY <1>1, <1>7, <2>1, FlujoQuieto
    <2>3. \A c \in CPUs : Bloqueandose(c) => Bloqueandose(c)'
      BY <1>2 DEF Bloqueandose
    <2> QED
      BY <2>1, <2>2, <2>3, LeerMenos
  <1>13. Reservas'
    <2>1. ASSUME NEW p \in EnCola' PROVE Ultimo(p.id)'
      <3>1. p \in EnCola \/ p = Real(n) \/ p = Dummy(i)
        BY <1>4, <1>5 DEF EnCola
      <3>2. ASSUME NEW q \in EnCola PROVE q.id \in Ids /\ Ultimo(q.id)
        <4>1. q \in Objetos
          BY <1>1, LugaresDeCreados DEF EnCola
        <4> QED
          BY <1>1, <4>1 DEF Reservas, Objetos
      <3>3. CASE p \in EnCola
        BY <1>8, <3>2, <3>3
      <3>4. CASE p = Real(n)
        BY <1>8, <3>4, LosDosObjetos
      <3>5. CASE p = Dummy(i)
        <4>1. i = n \/ Real(i) \in EnCola
          BY <1>5, <1>11 DEF EnCola
        <4>2. Ultimo(i)'
          BY <1>8, <3>2, <4>1, LosDosObjetos
        <4> QED
          BY <3>5, <4>2, LosDosObjetos
      <3> QED
        BY <3>1, <3>3, <3>4, <3>5
    <2> QED
      BY <2>1 DEF Reservas
  <1>14. Duenio'
    <2> SUFFICES ASSUME NEW c \in CPUs, NEW j \in Ids, EnCPU(c, j)'
                 PROVE  /\ Suya(c, j)' /\ Ultimo(j)' /\ Real(j) \notin EnNuevos'
                        /\ Dummy(j) \notin EnListos' \cup Corriendo' /\ ~Enviado(j)'
      BY DEF Duenio
    <2>1. EnCPU(c, j) /\ j # n /\ j # i
      BY <1>9, <1>10
    <2>2. /\ Suya(c, j) /\ Ultimo(j) /\ Real(j) \notin EnNuevos
          /\ Dummy(j) \notin EnListos \cup Corriendo /\ ~Enviado(j)
      BY <1>1, <2>1 DEF Duenio
    <2> QED
      BY <1>4, <1>8, <1>9, <1>11, <2>1, <2>2
  <1>15. Preparacion'
    <2> SUFFICES ASSUME NEW j \in Ids
                 PROVE  /\ Preparando(j)' => Real(j) \notin EnListos' \cup EnBloqueados' \cup Corriendo'
                        /\ Enviado(j)' => Dummy(j) \notin EnListos' /\ ~Elegido(j)'
                        /\ \A c \in CPUs : /\ AlMasUno(aCPU'[c], DeDummy(j))
                                           /\ Hay(aCPU'[c], DeDummy(j)) => Suya(c, j)'
      BY DEF Preparacion
    <2>1. /\ Preparando(j) => Real(j) \notin EnListos \cup EnBloqueados \cup Corriendo
          /\ Enviado(j) => Dummy(j) \notin EnListos /\ ~Elegido(j)
          /\ \A c \in CPUs : AlMasUno(aCPU[c], DeDummy(j)) /\ (Hay(aCPU[c], DeDummy(j)) => Suya(c, j))
      BY <1>1 DEF Preparacion
    <2>2. Real(i) \notin EnListos' \cup EnBloqueados' \cup Corriendo'
      BY <1>1, <1>5 DEF ColasInductivo, Separados
    <2>3. Enviado(j)' => Dummy(j) \notin EnListos' /\ ~Elegido(j)'
      BY <1>9, <1>10, <1>11, <2>1
    <2> QED
      BY <1>2, <1>4, <1>8, <1>11, <2>1, <2>2, <2>3
  <1>16. QuienPide' /\ SoloReales'
    BY <1>1, <1>2, <1>4, <1>8 DEF QuienPide, SoloReales
  <1>17. CargaSola'
    BY <1>1, <1>9, <1>10, <1>11 DEF CargaSola
  <1>18. BloqueoSolo'
    <2> SUFFICES ASSUME NEW j \in Ids
                 PROVE  /\ Unico(j, Bloqueantes)'
                        /\ Pidio(j, Bloqueantes)' =>
                              /\ Real(j) \notin EnNuevos' \cup EnListos'
                              /\ procesoEnEjecucion' = Real(j) => Perdido' \/ Bloqueandose(Socket(j))'
      BY DEF BloqueoSolo
    <2>1. /\ Unico(j, Bloqueantes)
          /\ Pidio(j, Bloqueantes) =>
                              /\ Real(j) \notin EnNuevos \cup EnListos
                              /\ procesoEnEjecucion = Real(j) => Perdido \/ Bloqueandose(Socket(j))
      BY <1>1 DEF BloqueoSolo
    <2>2. ASSUME Pidio(j, Bloqueantes), procesoEnEjecucion = Real(j) PROVE Perdido' \/ Bloqueandose(Socket(j))'
      <3>1. Socket(j) \in CPUs /\ j \in 1 .. Len(dtb)
        BY <1>1, <2>2, QuienCorre, LosDosObjetos
      <3>2. PICK c \in CPUs : c = Socket(j)
        BY <3>1
      <3>3. Perdido' \/ Bloqueandose(c)'
        BY <1>12, <2>1, <2>2, <3>2
      <3>4. Socket(j)' = c
        BY <1>7, <3>1, <3>2
      <3> QED
        BY <3>3, <3>4 DEF Bloqueandose
    <2> QED
      BY <1>2, <1>9, <1>10, <1>11, <2>1, <2>2
  <1> QED
    BY <1>12, <1>13, <1>14, <1>15, <1>16, <1>17, <1>18 DEF CarrerasInductivo

--------------------------------------------------------------------------------
(* The steps of the CPUs *)

(* what a step of CPU c does not touch *)
OtrasQuietas(c) ==
    /\ deDAM' = deDAM
    /\ \A d \in CPUs : Menos(aCPU'[d], aCPU[d])
    /\ \A d \in CPUs : d # c =>
          aCPU'[d] = aCPU[d] /\ deCPU'[d] = deCPU[d] /\ hilo'[d] = hilo[d] /\ DTB'[d] = DTB[d]

LEMMA SoloUnaCPU ==
    ASSUME TipoInductivo, NEW c \in CPUs, NextCPU(c)
    PROVE  \A d \in CPUs : d # c => deCPU'[d] = deCPU[d] /\ hilo'[d] = hilo[d] /\ DTB'[d] = DTB[d]
  <1> SUFFICES ASSUME NEW d \in CPUs, d # c
               PROVE  deCPU'[d] = deCPU[d] /\ hilo'[d] = hilo[d] /\ DTB'[d] = DTB[d]
    OBVIOUS
  <1>1. /\ \A letra : Avisar(c, letra) => deCPU'[d] = deCPU[d]
        /\ \A h : Pasar(c, h) => hilo'[d] = hilo[d]
        /\ \A x : DTB' = [DTB EXCEPT ![c] = x] => DTB'[d] = DTB[d]
        /\ Abortar(c) => deCPU'[d] = deCPU[d] /\ hilo'[d] = hilo[d] /\ DTB'[d] = DTB[d]
    BY DEF Avisar, Enviar, Pasar, Abortar, TipoInductivo, TypeOK, RedTypeOK, CPUTypeOK
  <1>2. CASE RecibirDummy(c) \/ AvisarDummy(c) \/ RecibirReal(c) \/ RecibirBasura(c) \/ IgnorarProceso(c)
             \/ AvisarBloqueo(c)
    BY <1>1, <1>2 DEF RecibirDummy, AvisarDummy, RecibirReal, RecibirBasura, IgnorarProceso, AvisarBloqueo, memoria
  <1>3. CASE PedirSinScript(c) \/ PedirPasadoElFin(c) \/ PedirSinFM9(c) \/ FinDelEscriptorio(c)
             \/ Concentrar(c) \/ SinAviso(c) \/ WaitSignal(c)
    BY <1>1, <1>3 DEF PedirSinScript, PedirPasadoElFin, PedirSinFM9, FinDelEscriptorio, Concentrar, SinAviso,
                      WaitSignal, memoria
  <1>4. CASE CrearBorrar(c) \/ Abrir(c) \/ Asignar(c) \/ FlushCloseSinNombre(c) \/ FlushCloseNoAbierto(c)
             \/ Flush(c) \/ Close(c)
    BY <1>1, <1>4 DEF CrearBorrar, Abrir, Asignar, FlushCloseSinNombre, FlushCloseNoAbierto, Flush, Close
  <1> QED
    BY <1>2, <1>3, <1>4 DEF NextCPU

(* A process enters the script of a CPU only from its connection. *)
LEMMA CPUToma ==
    ASSUME TipoInductivo, ConUno = {}, NEW c \in CPUs, NextCPU(c)
    PROVE  OtrasQuietas(c) /\ MenosEnCPUs
  <1>1. deDAM' = deDAM /\ QueTomaCPU(c) /\ QueCorreCPU(c)
    BY CPUHace
  <1>2. aCPU \in [CPUs -> Seq(Mensajes)] /\ aCPU[c] \in Seq(Mensajes)
    BY TiposDeRed DEF TipoInductivo
  <1>3. aCPU' \in {aCPU, Consumir(aCPU, c), [aCPU EXCEPT ![c] = Tail(Tail(@))]}
        /\ (aCPU' = aCPU \/ aCPU[c] # <<>>)
        /\ (aCPU' = [aCPU EXCEPT ![c] = Tail(Tail(@))] => aCPU' = aCPU \/ aCPU' = Consumir(aCPU, c) \/ Len(aCPU[c]) > 1)
    BY <1>1 DEF QueTomaCPU, IgnorarProceso
  <1>4. \A d \in CPUs : d # c => aCPU'[d] = aCPU[d]
    BY <1>2, <1>3 DEF Consumir
  <1>5. Menos(aCPU'[c], aCPU[c])
    <2>1. CASE aCPU' = aCPU
      BY <2>1, QuedanMenos
    <2>2. CASE aCPU[c] # <<>> /\ aCPU' = Consumir(aCPU, c)
      BY <1>2, <2>2, AlConsumir
    <2>3. CASE Len(aCPU[c]) > 1 /\ aCPU[c] # <<>> /\ aCPU' = [aCPU EXCEPT ![c] = Tail(Tail(@))]
      <3> DEFINE t == Tail(aCPU[c])
      <3>1. t \in Seq(Mensajes) /\ Menos(t, aCPU[c])
        BY <1>2, <2>3, HeadTailProperties, QuedanMenos
      <3>2. t # <<>>
        <4>1. Len(t) = Len(aCPU[c]) - 1 /\ Len(aCPU[c]) \in Nat
          BY <1>2, <2>3, HeadTailProperties
        <4> HIDE DEF t
        <4> QED
          BY <2>3, <4>1, SinElementos
      <3>3. aCPU'[c] = Tail(t)
        BY <1>2, <2>3
      <3> HIDE DEF t
      <3>4. Menos(Tail(t), t)
        BY <3>1, <3>2, QuedanMenos
      <3> QED
        BY <3>1, <3>3, <3>4, QuedanMenos
    <2> QED
      BY <1>3, <2>1, <2>2, <2>3
  <1>6. \A d \in CPUs : Menos(aCPU'[d], aCPU[d])
    BY <1>4, <1>5, QuedanMenos
  <1>7. ASSUME NEW d \in CPUs, NEW j \in Ids, EnCPU(d, j)' PROVE EnCPU(d, j)
    <2>1. CASE Hay(aCPU'[d], DeReal(j))
      BY <1>6, <2>1 DEF Menos, EnCPU
    <2>2. CASE hilo'[d] \in ConScript /\ DTB'[d].proceso.id = j
      <3>1. CASE hilo[d] \in ConScript /\ DTB'[d] = DTB[d]
        BY <2>2, <3>1 DEF EnCPU
      <3>2. CASE d = c /\ Toma(c) /\ Head(aCPU[c]).proceso.flagInicializacion = 1
                 /\ DTB'[d].proceso = Head(aCPU[c]).proceso
        <4>1. aCPU[c] # <<>> /\ Head(aCPU[c]) \in Mensajes
          BY <1>2, <3>2, AlConsumir DEF Toma
        <4>2. Head(aCPU[c]) \in DeReal(j)
          BY <2>2, <3>2, <4>1 DEF Toma, DeReal, Reales
        <4>3. Hay(aCPU[c], DeReal(j))
          BY <1>2, <4>1, <4>2, UnoMenos
        <4> QED
          BY <3>2, <4>3 DEF EnCPU
      <3> QED
        BY <1>1, <2>2, <3>1, <3>2 DEF QueCorreCPU
    <2> QED
      BY <1>7, <2>1, <2>2 DEF EnCPU
  <1>8. MenosEnCPUs
    BY <1>6, <1>7 DEF MenosEnCPUs, Menos
  <1> QED
    BY <1>1, <1>4, <1>6, <1>8, SoloUnaCPU DEF OtrasQuietas

(* What a step of CPU c does with the token and with the dummies: it starts nothing, *)
(* and it loses the token unless it leaves the dummies as they were.                  *)
Progresa(c) ==
    /\ Vivo(c)' => Vivo(c)
    /\ ConToken(c)' => ConToken(c)
    /\ Bloqueandose(c) => Bloqueandose(c)'
    /\ Hay(deCPU'[c], Fines) => hilo'[c] \notin ConScript /\ ~Hay(aCPU'[c], Reales)
    /\ \/ ConToken(c) /\ ~ConToken(c)'
       \/ (UnDummy(c) => UnDummy(c)') /\ (DummyEn(c)' => DummyEn(c))

LEMMA FlujoDeCPU ==
    ASSUME Base, CarrerasInductivo, UNCHANGED safa, NEW c \in CPUs, OtrasQuietas(c), Progresa(c)
    PROVE  Flujo' /\ \A d \in CPUs : Perdido \/ Bloqueandose(d) => Perdido' \/ Bloqueandose(d)'
  <1>1. TypeOK /\ UnaSentenciaPorVez /\ Turno /\ FinLimpio /\ DummyUnico
    BY DEF Base, TipoInductivo, SentenciasInductivo, CarrerasInductivo, Flujo
  <1>2. UNCHANGED <<pcp, procesoEnEjecucion, dtb, sem_CPU_ejecutoUnaSentencia>>
    BY DEF safa, sems, hilos
  <1>3. ASSUME NEW d \in CPUs, d # c
        PROVE  /\ Vivo(d)' => Vivo(d)
               /\ ConToken(d)' => ConToken(d)
               /\ Bloqueandose(d) => Bloqueandose(d)'
               /\ Hay(deCPU'[d], Fines) => hilo'[d] \notin ConScript /\ ~Hay(aCPU'[d], Reales)
               /\ UnDummy(d) => UnDummy(d)'
               /\ DummyEn(d)' => DummyEn(d)
    BY <1>1, <1>3 DEF OtrasQuietas, Vivo, ConToken, Bloqueandose, FinLimpio, UnDummy, DummyEn
  <1>4. \A d \in CPUs : /\ Vivo(d)' => Vivo(d)
                        /\ ConToken(d)' => ConToken(d)
                        /\ Bloqueandose(d) => Bloqueandose(d)'
                        /\ Hay(deCPU'[d], Fines) => hilo'[d] \notin ConScript /\ ~Hay(aCPU'[d], Reales)
    BY <1>3 DEF Progresa
  <1>5. Turno'
    <2>1. \A d \in CPUs : Antes(aCPU'[d], {Orden}, Reales) => Antes(aCPU[d], {Orden}, Reales)
      BY DEF OtrasQuietas, Menos
    <2> QED
      BY <1>1, <1>2, <1>4, <2>1 DEF Turno, Socket
  <1>6. FinLimpio'
    BY <1>4 DEF FinLimpio
  <1>7. Perdido => Perdido'
    BY <1>2, <1>4 DEF Perdido
  <1>8. DummyUnico'
    <2>1. CASE Perdido
      BY <1>7, <2>1 DEF DummyUnico
    <2>2. CASE ConToken(c) /\ ~ConToken(c)'
      <3>1. sem_CPU_ejecutoUnaSentencia = 0 /\ \A d \in CPUs : ConToken(d) => d = c
        BY <1>1, <2>2, UnToken
      <3>2. Perdido'
        BY <1>2, <1>4, <2>2, <3>1 DEF Perdido
      <3> QED
        BY <3>2 DEF DummyUnico
    <2>3. CASE ~Perdido /\ (UnDummy(c) => UnDummy(c)') /\ (DummyEn(c)' => DummyEn(c))
      <3>1. \A d \in CPUs : (UnDummy(d) => UnDummy(d)') /\ (DummyEn(d)' => DummyEn(d))
        BY <1>3, <2>3
      <3> QED
        BY <1>1, <1>2, <2>3, <3>1 DEF DummyUnico, Socket
    <2> QED
      BY <2>1, <2>2, <2>3 DEF Progresa
  <1> QED
    BY <1>4, <1>5, <1>6, <1>7, <1>8 DEF Flujo

LEMMA LugaresDeCPU ==
    ASSUME Base, CarrerasInductivo, UNCHANGED safa, MenosEnCPUs
    PROVE  Movidos({}, {}) /\ Reservas' /\ Duenio' /\ Preparacion' /\ SoloReales'
  <1>1. UNCHANGED <<procesos_nuevos, procesos_listos, procesos_bloqueados, procesoEnEjecucion, pcp, dtb, tieneDTBasociado>>
    BY DEF safa, colas, hilos
  <1>2. Movidos({}, {})
    BY <1>1, NadieMovido DEF EnNuevos, EnListos, EnBloqueados, Socket
  <1>3. TipoInductivo /\ Reservas /\ Duenio
    BY DEF Base, CarrerasInductivo
  <1>4. \A p \in EnCola' : p \in EnCola => Socket(p.id) \in tieneDTBasociado'
    BY <1>1, <1>3 DEF Reservas, Ultimo
  <1>5. \A c \in CPUs, j \in Ids : EnCPU(c, j) => c \in tieneDTBasociado'
    BY <1>1, <1>3 DEF Duenio, Ultimo, Suya
  <1> QED
    BY <1>2, <1>3, <1>4, <1>5, SiguenLugares

(* a step of a CPU that asks DAM for nothing *)
LEMMA PasoSinPedir ==
    ASSUME Base, CarrerasInductivo, UNCHANGED safa, NEW c \in CPUs, OtrasQuietas(c), MenosEnCPUs,
           Progresa(c), pedidos' = pedidos
    PROVE  CarrerasInductivo'
  <1>1. Flujo' /\ \A d \in CPUs : Perdido \/ Bloqueandose(d) => Perdido' \/ Bloqueandose(d)'
    BY FlujoDeCPU
  <1>2. Movidos({}, {}) /\ Reservas' /\ Duenio' /\ Preparacion' /\ SoloReales'
    BY LugaresDeCPU
  <1>3. MenosPedidos
    <2>1. Menos(deDAM', deDAM)
      BY QuedanMenos DEF OtrasQuietas
    <2> QED
      BY <2>1, PedidosMenos
  <1>4. QuienPide' /\ CargaSola' /\ BloqueoSolo'
    BY <1>1, <1>2, <1>3, SiguenPedidos DEF Base
  <1> QED
    BY <1>1, <1>2, <1>4 DEF CarrerasInductivo

(* what asking DAM for an operation adds to what is asked *)
LEMMA AlPedir ==
    ASSUME TypeOK, deDAM' = deDAM, NEW c \in CPUs, NEW op \in {1, 6, 8, 9}, NEW i \in Ids \cup {0}, Pedir(c, op, i)
    PROVE  /\ \A d \in CPUs : \A j, ops : Hay(pedidos'[d], De(j, ops)) =>
                 Hay(pedidos[d], De(j, ops)) \/ (d = c /\ i = j /\ op \in ops)
           /\ \A j, ops : Pidio(j, ops)' => Pidio(j, ops) \/ (i = j /\ op \in ops)
           /\ \A j, ops : Unico(j, ops) /\ (i = j /\ op \in ops => ~Pidio(j, ops)) => Unico(j, ops)'
  <1> DEFINE m == [tipoOperacion |-> op, resultado |-> 0, id |-> i]
  <1>1. m \in Paquetes /\ \A j, ops : m \in De(j, ops) <=> i = j /\ op \in ops
    BY DEF Paquetes, De
  <1>2. pedidos \in [CPUs -> Seq(Paquetes)] /\ pedidos' = Enviar(pedidos, c, m)
    BY TiposDeRed DEF Pedir
  <1> HIDE DEF m
  <1>3. pedidos[c] \in Seq(Paquetes) /\ pedidos'[c] = Append(pedidos[c], m)
        /\ \A d \in CPUs : d # c => pedidos'[d] = pedidos[d]
    BY <1>2 DEF Enviar
  <1>4. /\ \A V : Hay(pedidos'[c], V) <=> Hay(pedidos[c], V) \/ m \in V
        /\ \A V : AlMasUno(pedidos'[c], V) <=> AlMasUno(pedidos[c], V) /\ (m \in V => ~Hay(pedidos[c], V))
    BY <1>1, <1>3, UnoMas
  <1>5. \A d \in CPUs : \A j, ops : Hay(pedidos'[d], De(j, ops)) =>
                 Hay(pedidos[d], De(j, ops)) \/ (d = c /\ i = j /\ op \in ops)
    BY <1>1, <1>3, <1>4
  <1>6. \A j, ops : Pidio(j, ops)' => Pidio(j, ops) \/ (i = j /\ op \in ops)
    BY <1>5 DEF Pidio
  <1>7. ASSUME NEW j, NEW ops, Unico(j, ops), i = j /\ op \in ops => ~Pidio(j, ops)
        PROVE  Unico(j, ops)'
    <2>1. AlMasUno(deDAM', De(j, ops))
      BY <1>7 DEF Unico
    <2>2. ASSUME NEW d \in CPUs
          PROVE  AlMasUno(pedidos'[d], De(j, ops)) /\ ~(Hay(deDAM', De(j, ops)) /\ Hay(pedidos'[d], De(j, ops)))
      <3>1. AlMasUno(pedidos[d], De(j, ops)) /\ ~(Hay(deDAM, De(j, ops)) /\ Hay(pedidos[d], De(j, ops)))
        BY <1>7 DEF Unico
      <3>2. AlMasUno(pedidos'[d], De(j, ops))
        <4>1. CASE d # c
          BY <1>3, <3>1, <4>1
        <4>2. CASE d = c
          <5>1. m \in De(j, ops) => ~Hay(pedidos[c], De(j, ops))
            BY <1>1, <1>7 DEF Pidio
          <5> QED
            BY <1>4, <3>1, <4>2, <5>1
        <4> QED
          BY <4>1, <4>2
      <3>3. ~(Hay(deDAM', De(j, ops)) /\ Hay(pedidos'[d], De(j, ops)))
        <4>1. Hay(pedidos'[d], De(j, ops)) => Hay(pedidos[d], De(j, ops)) \/ (i = j /\ op \in ops)
          BY <1>5
        <4>2. i = j /\ op \in ops => ~Hay(deDAM, De(j, ops))
          BY <1>7 DEF Pidio
        <4> QED
          BY <3>1, <4>1, <4>2
      <3> QED
        BY <3>2, <3>3
    <2> QED
      BY <2>1, <2>2 DEF Unico
  <1> QED
    BY <1>5, <1>6, <1>7

(* a step of a CPU that asks DAM for an operation of process i *)
LEMMA PasoPidiendo ==
    ASSUME Base, CarrerasInductivo, UNCHANGED safa, NEW c \in CPUs, OtrasQuietas(c), MenosEnCPUs,
           Progresa(c), NEW op \in {1, 6, 8, 9}, NEW i \in Ids \cup {0}, Pedir(c, op, i),
           i \in Ids => Suya(c, i),
           i \in Ids /\ op = 1 => Real(i) \notin EnNuevos \/ (~Pidio(i, {1}) /\ ~Preparando(i)'),
           i \in Ids /\ op \in Bloqueantes =>
               /\ ~Pidio(i, Bloqueantes) /\ Real(i) \notin EnNuevos \cup EnListos
               /\ procesoEnEjecucion = Real(i) => Bloqueandose(c)'
    PROVE  CarrerasInductivo'
  <1>1. Flujo' /\ \A d \in CPUs : Perdido \/ Bloqueandose(d) => Perdido' \/ Bloqueandose(d)'
    BY FlujoDeCPU
  <1>2. Movidos({}, {}) /\ Reservas' /\ Duenio' /\ Preparacion' /\ SoloReales'
    BY LugaresDeCPU
  <1>3. TypeOK /\ TipoInductivo /\ QuienPide /\ CargaSola /\ BloqueoSolo
    BY DEF Base, TipoInductivo, CarrerasInductivo
  <1>4. UNCHANGED <<procesos_nuevos, procesos_listos, procesoEnEjecucion, dtb>>
    BY DEF safa, colas
  <1>5. EnNuevos' = EnNuevos /\ EnListos' = EnListos /\ \A j : Socket(j)' = Socket(j)
    BY <1>4 DEF EnNuevos, EnListos, Socket
  <1>6. deDAM' = deDAM
    BY DEF OtrasQuietas
  <1>7. /\ \A d \in CPUs : \A j, ops : Hay(pedidos'[d], De(j, ops)) =>
                 Hay(pedidos[d], De(j, ops)) \/ (d = c /\ i = j /\ op \in ops)
        /\ \A j, ops : Pidio(j, ops)' => Pidio(j, ops) \/ (i = j /\ op \in ops)
        /\ \A j, ops : Unico(j, ops) /\ (i = j /\ op \in ops => ~Pidio(j, ops)) => Unico(j, ops)'
    BY <1>3, <1>6, AlPedir
  <1>8. QuienPide'
    <2> SUFFICES ASSUME NEW d \in CPUs, NEW j \in Ids, Hay(pedidos'[d], De(j, {1, 6, 8, 9}))
                 PROVE  Suya(d, j)'
      BY DEF QuienPide
    <2>1. Suya(d, j)
      BY <1>3, <1>7 DEF QuienPide
    <2> QED
      BY <1>2, <1>3, <2>1, MovidosDe
  <1>9. CargaSola'
    <2> SUFFICES ASSUME NEW j \in Ids, Real(j) \in EnNuevos'
                 PROVE  Unico(j, {1})' /\ (Pidio(j, {1})' => ~Preparando(j)')
      BY DEF CargaSola
    <2>1. Unico(j, {1}) /\ (Pidio(j, {1}) => ~Preparando(j)) /\ Real(j) \in EnNuevos
      BY <1>3, <1>5 DEF CargaSola
    <2>2. i = j /\ op \in {1} => ~Pidio(j, {1}) /\ ~Preparando(j)'
      BY <2>1
    <2>3. Preparando(j)' => Preparando(j)
      BY <1>2, <1>3, MovidosDe
    <2>4. Pidio(j, {1})' => Pidio(j, {1}) \/ (i = j /\ op \in {1})
      BY <1>7
    <2>5. Unico(j, {1})'
      BY <1>7, <2>1, <2>2
    <2> QED
      BY <2>1, <2>2, <2>3, <2>4, <2>5
  <1>10. BloqueoSolo'
    <2> SUFFICES ASSUME NEW j \in Ids
                 PROVE  /\ Unico(j, Bloqueantes)'
                        /\ Pidio(j, Bloqueantes)' =>
                              /\ Real(j) \notin EnNuevos' \cup EnListos'
                              /\ procesoEnEjecucion' = Real(j) => Perdido' \/ Bloqueandose(Socket(j))'
      BY DEF BloqueoSolo
    <2>1. /\ Unico(j, Bloqueantes)
          /\ Pidio(j, Bloqueantes) =>
                              /\ Real(j) \notin EnNuevos \cup EnListos
                              /\ procesoEnEjecucion = Real(j) => Perdido \/ Bloqueandose(Socket(j))
      BY <1>3 DEF BloqueoSolo
    <2>2. i = j /\ op \in Bloqueantes =>
             /\ ~Pidio(j, Bloqueantes) /\ Real(j) \notin EnNuevos \cup EnListos /\ Suya(c, j)
             /\ procesoEnEjecucion = Real(j) => Bloqueandose(c)'
      OBVIOUS
    <2>3. Pidio(j, Bloqueantes)' => Pidio(j, Bloqueantes) \/ (i = j /\ op \in Bloqueantes)
      BY <1>7
    <2>4. Unico(j, Bloqueantes)'
      BY <1>7, <2>1, <2>2
    <2>5. ASSUME procesoEnEjecucion = Real(j), Perdido \/ Bloqueandose(Socket(j))
          PROVE  Perdido' \/ Bloqueandose(Socket(j))'
      <3>1. Socket(j) \in CPUs
        BY <1>3, <2>5, QuienCorre, LosDosObjetos
      <3>2. PICK d \in CPUs : d = Socket(j)
        BY <3>1
      <3>3. Perdido' \/ Bloqueandose(d)'
        BY <1>1, <2>5, <3>2
      <3>4. Socket(j)' = d
        BY <1>5, <3>2
      <3> QED
        BY <3>3, <3>4 DEF Bloqueandose
    <2>6. ASSUME i = j, op \in Bloqueantes, procesoEnEjecucion = Real(j)
          PROVE  Bloqueandose(Socket(j))'
      <3>1. Socket(j)' = c
        BY <1>5, <2>2, <2>6 DEF Suya
      <3> QED
        BY <2>2, <2>6, <3>1 DEF Bloqueandose
    <2> QED
      BY <1>4, <1>5, <2>1, <2>2, <2>3, <2>4, <2>5, <2>6
  <1> QED
    BY <1>1, <1>2, <1>8, <1>9, <1>10 DEF CarrerasInductivo

(* receiving a dummy *)
LEMMA PasoRecibirDummy ==
    ASSUME Base, CarrerasInductivo, UNCHANGED safa, NEW c \in CPUs, OtrasQuietas(c), MenosEnCPUs, RecibirDummy(c)
    PROVE  CarrerasInductivo'
  <1>1. TypeOK /\ TipoInductivo /\ FinLimpio /\ Preparacion /\ CargaSola
    BY DEF Base, TipoInductivo, CarrerasInductivo, Flujo
  <1>2. aCPU \in [CPUs -> Seq(Mensajes)] /\ hilo \in [CPUs -> Estados] /\ aCPU[c] # <<>>
        /\ aCPU' = Consumir(aCPU, c) /\ deCPU' = deCPU /\ hilo[c] = "proceso" /\ hilo'[c] = "avisoD"
    BY <1>1, TiposDeRed DEF RecibirDummy, RecibeProceso, Pasar
  <1> DEFINE m == Head(aCPU[c])
  <1>3. m \in Mensajes /\ m \in Dummies
    BY <1>2, AlConsumir DEF RecibirDummy, RecibeProceso, Dummies
  <1>4. PICK i \in Ids : m \in DeDummy(i) /\ Pedir(c, 1, i)
    BY <1>3, ClasesDeMensajes DEF RecibirDummy
  <1>5. /\ Menos(aCPU'[c], aCPU[c])
        /\ \A V : Hay(aCPU[c], V) <=> m \in V \/ Hay(aCPU'[c], V)
        /\ \A V : AlMasUno(aCPU[c], V) => (m \in V => ~Hay(aCPU'[c], V))
    BY <1>2, AlConsumir
  <1> HIDE DEF m
  <1>6. /\ \A V : Hay(aCPU'[c], V) => Hay(aCPU[c], V)
        /\ \A V, W : Antes(aCPU'[c], V, W) => Antes(aCPU[c], V, W)
        /\ \A V : AlMasUno(aCPU[c], V) => AlMasUno(aCPU'[c], V)
    BY <1>5 DEF Menos
  <1>7. Hay(aCPU[c], Dummies) /\ Hay(aCPU[c], DeDummy(i))
    BY <1>3, <1>4, <1>5
  <1>8. Progresa(c)
    <2>1. (Vivo(c)' => Vivo(c)) /\ (ConToken(c)' => ConToken(c)) /\ (Bloqueandose(c) => Bloqueandose(c)')
      BY <1>2, <1>6 DEF Vivo, ConToken, Bloqueandose
    <2>2. Hay(deCPU'[c], Fines) => hilo'[c] \notin ConScript /\ ~Hay(aCPU'[c], Reales)
      BY <1>1, <1>2, <1>6 DEF FinLimpio, ConScript
    <2>3. UnDummy(c) => UnDummy(c)'
      BY <1>2, <1>3, <1>5, <1>6, <1>7 DEF UnDummy
    <2>4. DummyEn(c)' => DummyEn(c)
      BY <1>7 DEF DummyEn
    <2> QED
      BY <2>1, <2>2, <2>3, <2>4 DEF Progresa
  <1>9. Suya(c, i) /\ (~Pidio(i, {1}) \/ Real(i) \notin EnNuevos)
    BY <1>1, <1>4, <1>7 DEF Preparacion, CargaSola, Preparando, Enviado
  <1>10. ~Preparando(i)'
    <2>1. Enviado(i)
      BY <1>7 DEF Enviado
    <2>2. Dummy(i) \notin EnListos /\ ~Elegido(i)
      BY <1>1, <1>4, <2>1 DEF Preparacion
    <2>3. Dummy(i) \notin EnListos' /\ ~Elegido(i)'
      BY <2>2 DEF safa, colas, hilos, EnListos, Elegido
    <2>4. \A d \in CPUs : ~Hay(aCPU'[d], DeDummy(i))
      <3>1. ~Hay(aCPU'[c], DeDummy(i))
        BY <1>1, <1>4, <1>5 DEF Preparacion
      <3>2. ASSUME NEW d \in CPUs, d # c, Hay(aCPU'[d], DeDummy(i)) PROVE FALSE
        <4>1. Suya(d, i)
          BY <1>1, <1>4, <3>2 DEF Preparacion, OtrasQuietas
        <4> QED
          BY <1>9, <3>2, <4>1 DEF Suya
      <3> QED
        BY <3>1, <3>2
    <2> QED
      BY <2>3, <2>4 DEF Preparando, Enviado
  <1>11. 1 \in {1, 6, 8, 9} /\ 1 \notin Bloqueantes
    BY DEF Bloqueantes
  <1> QED
    BY <1>4, <1>8, <1>9, <1>10, <1>11, PasoPidiendo

(* telling S-AFA that the dummy was passed on *)
LEMMA PasoAvisarDummy ==
    ASSUME Base, CarrerasInductivo, UNCHANGED safa, NEW c \in CPUs, OtrasQuietas(c), MenosEnCPUs, AvisarDummy(c)
    PROVE  CarrerasInductivo'
  <1>1. TypeOK /\ FinLimpio
    BY DEF Base, TipoInductivo, CarrerasInductivo, Flujo
  <1>2. deCPU[c] \in Seq(Letras) /\ hilo[c] = "avisoD" /\ hilo'[c] = "proceso" /\ aCPU' = aCPU /\ pedidos' = pedidos
        /\ deCPU'[c] = Append(deCPU[c], "d")
    BY <1>1, TiposDeRed DEF AvisarDummy, Pasar, Avisar, Enviar
  <1>3. "d" \in Letras /\ "d" \notin Avs /\ "d" \notin Fines /\ "d" # "b"
    BY DEF Letras, Avs, Fines
  <1>4. /\ \A V : Hay(deCPU'[c], V) <=> Hay(deCPU[c], V) \/ "d" \in V
        /\ \A V : AlMasUno(deCPU'[c], V) <=> AlMasUno(deCPU[c], V) /\ ("d" \in V => ~Hay(deCPU[c], V))
    BY <1>2, <1>3, UnoMas
  <1>5. (Vivo(c)' => Vivo(c)) /\ (ConToken(c)' => ConToken(c)) /\ (Bloqueandose(c) => Bloqueandose(c)')
    BY <1>2, <1>3, <1>4 DEF Vivo, ConToken, Bloqueandose
  <1>6. Hay(deCPU'[c], Fines) => hilo'[c] \notin ConScript /\ ~Hay(aCPU'[c], Reales)
    BY <1>1, <1>2, <1>3, <1>4 DEF FinLimpio, ConScript
  <1>7. (UnDummy(c) => UnDummy(c)') /\ (DummyEn(c)' => DummyEn(c))
    BY <1>2, <1>4 DEF UnDummy, DummyEn
  <1> QED
    BY <1>2, <1>5, <1>6, <1>7, PasoSinPedir DEF Progresa

(* receiving a process *)
LEMMA PasoRecibirReal ==
    ASSUME Base, CarrerasInductivo, UNCHANGED safa, NEW c \in CPUs, OtrasQuietas(c), MenosEnCPUs, RecibirReal(c)
    PROVE  CarrerasInductivo'
  <1>1. TypeOK /\ FinLimpio
    BY DEF Base, TipoInductivo, CarrerasInductivo, Flujo
  <1>2. aCPU \in [CPUs -> Seq(Mensajes)] /\ aCPU[c] # <<>> /\ aCPU' = Consumir(aCPU, c) /\ deCPU' = deCPU
        /\ hilo[c] = "proceso" /\ hilo'[c] = "orden" /\ pedidos' = pedidos
    BY <1>1, TiposDeRed DEF RecibirReal, RecibeProceso, Pasar
  <1> DEFINE m == Head(aCPU[c])
  <1>3. m \in Reales
    BY <1>2, AlConsumir DEF RecibirReal, RecibeProceso, Reales
  <1>4. /\ \A V : Hay(aCPU[c], V) <=> m \in V \/ Hay(aCPU'[c], V)
        /\ \A V, W : Antes(aCPU[c], V, W) <=> Antes(aCPU'[c], V, W) \/ (m \in V /\ Hay(aCPU'[c], W))
        /\ \A V : AlMasUno(aCPU[c], V) => AlMasUno(aCPU'[c], V)
    BY <1>2, AlConsumir DEF Menos
  <1> HIDE DEF m
  <1>5. (Vivo(c)' => Vivo(c)) /\ (ConToken(c)' => ConToken(c)) /\ (Bloqueandose(c) => Bloqueandose(c)')
    BY <1>2, <1>3, <1>4 DEF Vivo, ConToken, Bloqueandose
  <1>6. ~Hay(deCPU'[c], Fines)
    BY <1>1, <1>2, <1>3, <1>4 DEF FinLimpio
  <1>7. (UnDummy(c) => UnDummy(c)') /\ (DummyEn(c)' => DummyEn(c))
    BY <1>2, <1>4 DEF UnDummy, DummyEn
  <1> QED
    BY <1>2, <1>5, <1>6, <1>7, PasoSinPedir DEF Progresa

(* ignoring a process sent while a script runs *)
LEMMA PasoIgnorar ==
    ASSUME Base, CarrerasInductivo, UNCHANGED safa, NEW c \in CPUs, OtrasQuietas(c), MenosEnCPUs, IgnorarProceso(c)
    PROVE  CarrerasInductivo'
  <1>1. FinLimpio
    BY DEF CarrerasInductivo, Flujo
  <1>2. deCPU' = deCPU /\ hilo' = hilo /\ pedidos' = pedidos
    BY DEF IgnorarProceso
  <1>3. /\ \A V : Hay(aCPU'[c], V) => Hay(aCPU[c], V)
        /\ \A V, W : Antes(aCPU'[c], V, W) => Antes(aCPU[c], V, W)
        /\ \A V : AlMasUno(aCPU[c], V) => AlMasUno(aCPU'[c], V)
    BY DEF OtrasQuietas, Menos
  <1>4. (Vivo(c)' => Vivo(c)) /\ (ConToken(c)' => ConToken(c)) /\ (Bloqueandose(c) => Bloqueandose(c)')
    BY <1>2, <1>3 DEF Vivo, ConToken, Bloqueandose
  <1>5. Hay(deCPU'[c], Fines) => hilo'[c] \notin ConScript /\ ~Hay(aCPU'[c], Reales)
    BY <1>1, <1>2, <1>3 DEF FinLimpio
  <1>6. (UnDummy(c) => UnDummy(c)') /\ (DummyEn(c)' => DummyEn(c))
    BY <1>2, <1>3 DEF UnDummy, DummyEn
  <1> QED
    BY <1>2, <1>4, <1>5, <1>6, PasoSinPedir DEF Progresa

(* telling S-AFA of the request made *)
LEMMA PasoAvisarBloqueo ==
    ASSUME Base, CarrerasInductivo, UNCHANGED safa, NEW c \in CPUs, OtrasQuietas(c), MenosEnCPUs, AvisarBloqueo(c)
    PROVE  CarrerasInductivo'
  <1>1. TypeOK /\ UnaSentenciaPorVez
    BY DEF Base, TipoInductivo, SentenciasInductivo
  <1>2. deCPU[c] \in Seq(Letras) /\ hilo[c] = "avisoB" /\ hilo'[c] = "orden" /\ aCPU' = aCPU /\ pedidos' = pedidos
        /\ deCPU'[c] = Append(deCPU[c], "b")
    BY <1>1, TiposDeRed DEF AvisarBloqueo, Pasar, Avisar, Enviar
  <1>3. "b" \in Letras /\ "b" \in Avs /\ "b" \notin Fines /\ "b" # "d" /\ Fines \subseteq Avs
    BY DEF Letras, Avs, Fines
  <1>4. /\ \A V : Hay(deCPU'[c], V) <=> Hay(deCPU[c], V) \/ "b" \in V
        /\ \A V : AlMasUno(deCPU'[c], V) <=> AlMasUno(deCPU[c], V) /\ ("b" \in V => ~Hay(deCPU[c], V))
    BY <1>2, <1>3, UnoMas
  <1>5. Vivo(c) /\ ConToken(c) /\ Bloqueandose(c)'
    BY <1>2, <1>3, <1>4 DEF Vivo, ConToken, Bloqueandose
  <1>6. ~Hay(deCPU'[c], Fines)
    <2>1. ~Hay(deCPU[c], Avs)
      BY <1>1, <1>2, UnToken
    <2> QED
      BY <1>3, <1>4, <2>1, HayMas
  <1>7. (UnDummy(c) => UnDummy(c)') /\ (DummyEn(c)' => DummyEn(c))
    BY <1>2, <1>3, <1>4 DEF UnDummy, DummyEn
  <1> QED
    BY <1>2, <1>5, <1>6, <1>7, PasoSinPedir DEF Progresa

(* an order that finds no script *)
LEMMA PasoRecibirBasura ==
    ASSUME Base, CarrerasInductivo, UNCHANGED safa, NEW c \in CPUs, OtrasQuietas(c), MenosEnCPUs, RecibirBasura(c)
    PROVE  CarrerasInductivo'
  <1>1. TypeOK /\ UnaSentenciaPorVez
    BY DEF Base, TipoInductivo, SentenciasInductivo
  <1>2. aCPU \in [CPUs -> Seq(Mensajes)] /\ hilo \in [CPUs -> Estados] /\ aCPU[c] # <<>> /\ Head(aCPU[c]) = Orden
        /\ aCPU' = Consumir(aCPU, c) /\ deCPU' = deCPU /\ hilo[c] = "proceso"
    BY <1>1, TiposDeRed DEF RecibirBasura
  <1>3. hilo'[c] # "avisoB"
    BY <1>2 DEF RecibirBasura, Pasar
  <1>4. Hay(aCPU[c], {Orden}) /\ ~Hay(aCPU'[c], {Orden})
    <2>1. /\ \A V : Hay(aCPU[c], V) <=> Head(aCPU[c]) \in V \/ Hay(aCPU'[c], V)
          /\ \A V : AlMasUno(aCPU[c], V) => (Head(aCPU[c]) \in V => ~Hay(aCPU'[c], V))
      BY <1>2, AlConsumir
    <2> QED
      BY <1>1, <1>2, <2>1, UnToken
  <1>5. ~Hay(deCPU[c], Avs) /\ ConToken(c)
    BY <1>1, <1>4, UnToken DEF ConToken
  <1>6. ~ConToken(c)'
    BY <1>2, <1>3, <1>4, <1>5 DEF ConToken
  <1>7. ~Vivo(c)' /\ ~Bloqueandose(c) /\ ~Hay(deCPU'[c], Fines)
    <2>1. ~Hay(deCPU[c], {"b"})
      <3>1. {"b"} \subseteq Avs
        BY DEF Avs, Letras
      <3> QED
        BY <1>5, <3>1, HayMas
    <2> QED
      BY <1>2, <1>6, <2>1, VivoConToken DEF Bloqueandose
  <1>8. Progresa(c)
    BY <1>5, <1>6, <1>7 DEF Progresa
  <1>9. CASE pedidos' = pedidos
    BY <1>8, <1>9, PasoSinPedir
  <1>10. CASE Pedir(c, 1, 0)
    <2>1. 0 \notin Ids /\ 1 \in {1, 6, 8, 9} /\ 0 \in Ids \cup {0}
      BY DEF Ids
    <2> QED
      BY <1>8, <1>10, <2>1, PasoPidiendo
  <1> QED
    BY <1>9, <1>10 DEF RecibirBasura

(* What a sentence does: it answers, or stops answering, or asks DAM for something. *)
Contesta(c) ==
    /\ pedidos' = pedidos /\ hilo'[c] \notin {"avisoB", "avisoD"}
    /\ \/ deCPU' = deCPU
       \/ \E x \in Avs \ {"b"} : Avisar(c, x) /\ (x \in Fines => hilo'[c] = "proceso")
Solicita(c) ==
    /\ deCPU' = deCPU /\ hilo'[c] = "avisoB"
    /\ \E op \in {1, 6, 8, 9} : Pedir(c, op, DTB[c].proceso.id)
Sentenciado(c) == LlegaOrden(c) /\ (Contesta(c) \/ Solicita(c))

LEMMA CadaSentencia ==
    ASSUME Base, NEW c \in CPUs,
           \/ PedirSinScript(c) \/ PedirPasadoElFin(c) \/ PedirSinFM9(c) \/ FinDelEscriptorio(c)
           \/ Concentrar(c) \/ SinAviso(c) \/ WaitSignal(c) \/ CrearBorrar(c) \/ Abrir(c) \/ Asignar(c)
           \/ FlushCloseSinNombre(c) \/ FlushCloseNoAbierto(c) \/ Flush(c) \/ Close(c)
    PROVE  Sentenciado(c)
  <1>1. TypeOK /\ BanderaLimpia /\ hilo \in [CPUs -> Estados]
    BY TiposDeRed DEF Base, TipoInductivo, SentenciasInductivo
  <1>2. /\ \A h : Pasar(c, h) => hilo'[c] = h
        /\ LlegaOrden(c) /\ hilo' = hilo => hilo'[c] = "orden"
    BY <1>1 DEF Pasar, LlegaOrden
  <1>3. ASSUME NEW ops, Parsear(c, ops) PROVE LlegaOrden(c) /\ flagError[c] = 0
    BY <1>1, <1>3 DEF Parsear, BanderaLimpia
  <1>4. {"r", "w", "s", "e", "f"} \subseteq Avs \ {"b"} /\ {"r", "w", "s"} \cap Fines = {} /\ {"e", "f"} = Fines
    BY DEF Avs, Letras, Fines
  <1>5. ASSUME LlegaOrden(c), pedidos' = pedidos, deCPU' = deCPU,
               hilo' = hilo \/ Pasar(c, "muerta") \/ Pasar(c, "colgada")
        PROVE  Sentenciado(c)
    BY <1>2, <1>5 DEF Sentenciado, Contesta
  <1>6. ASSUME LlegaOrden(c), pedidos' = pedidos, hilo' = hilo, Avisar(c, "r") \/ Avisar(c, "w") \/ Avisar(c, "s")
        PROVE  Sentenciado(c)
    BY <1>2, <1>4, <1>6 DEF Sentenciado, Contesta
  <1>7. ASSUME LlegaOrden(c), pedidos' = pedidos, hilo'[c] = "proceso", Avisar(c, "e") \/ Avisar(c, "f")
        PROVE  Sentenciado(c)
    BY <1>4, <1>7 DEF Sentenciado, Contesta
  <1>8. ASSUME NEW ops, Parsear(c, ops), pedidos' = pedidos, Abortar(c) PROVE Sentenciado(c)
    <2>1. Avisar(c, "e") /\ Pasar(c, "proceso")
      BY <1>1, <1>3, <1>8, AbortarAvisa DEF Pasar
    <2> QED
      BY <1>2, <1>3, <1>7, <1>8, <2>1
  <1>9. ASSUME LlegaOrden(c), deCPU' = deCPU, Pasar(c, "avisoB"), NEW op \in {1, 6, 8, 9}, Pedir(c, op, DTB[c].proceso.id)
        PROVE  Sentenciado(c)
    BY <1>2, <1>9 DEF Sentenciado, Solicita
  <1>10. CASE PedirSinScript(c) \/ PedirPasadoElFin(c) \/ PedirSinFM9(c)
    BY <1>5, <1>10 DEF PedirSinScript, PedirPasadoElFin, PedirSinFM9
  <1>11. CASE FinDelEscriptorio(c)
    BY <1>2, <1>7, <1>11 DEF FinDelEscriptorio
  <1>12. CASE Concentrar(c) \/ WaitSignal(c)
    BY <1>3, <1>6, <1>12 DEF Concentrar, WaitSignal
  <1>13. CASE SinAviso(c) \/ FlushCloseSinNombre(c)
    BY <1>3, <1>5, <1>13 DEF SinAviso, FlushCloseSinNombre
  <1>14. CASE CrearBorrar(c) \/ Flush(c)
    BY <1>3, <1>9, <1>14 DEF CrearBorrar, Flush
  <1>15. CASE Abrir(c)
    <2>1. Parsear(c, {"abrir"})
          /\ \/ Avisar(c, "r") /\ UNCHANGED <<pedidos, hilo>>
             \/ Pedir(c, 1, DTB[c].proceso.id) /\ Pasar(c, "avisoB") /\ deCPU' = deCPU
      BY <1>15 DEF Abrir
    <2> QED
      BY <1>3, <1>6, <1>9, <2>1
  <1>16. CASE Asignar(c)
    <2>1. Parsear(c, {"asignar"}) /\ pedidos' = pedidos
          /\ (UNCHANGED <<deCPU, hilo>> \/ Abortar(c) \/ (Pasar(c, "muerta") /\ deCPU' = deCPU))
      BY <1>16 DEF Asignar
    <2> QED
      BY <1>3, <1>5, <1>8, <2>1
  <1>17. CASE FlushCloseNoAbierto(c)
    BY <1>8, <1>17 DEF FlushCloseNoAbierto
  <1>18. CASE Close(c)
    <2>1. Parsear(c, {"close"}) /\ pedidos' = pedidos
          /\ (Abortar(c) \/ (Avisar(c, "r") /\ hilo' = hilo))
      BY <1>18 DEF Close
    <2> QED
      BY <1>3, <1>6, <1>8, <2>1
  <1> QED
    BY <1>10, <1>11, <1>12, <1>13, <1>14, <1>15, <1>16, <1>17, <1>18

(* a sentence: the process that asks is the one that runs, alone in its CPU *)
LEMMA PasoSentencia ==
    ASSUME Base, CarrerasInductivo, UNCHANGED safa, NEW c \in CPUs, OtrasQuietas(c), MenosEnCPUs, Sentenciado(c)
    PROVE  CarrerasInductivo'
  <1>1. /\ TypeOK /\ TipoInductivo /\ UnaSentenciaPorVez /\ ConDTB /\ SinCarga
        /\ Turno /\ Reservas /\ Duenio /\ BloqueoSolo
    BY DEF Base, TipoInductivo, SentenciasInductivo, ColasInductivo, CarrerasInductivo, Flujo
  <1>2. aCPU \in [CPUs -> Seq(Mensajes)] /\ deCPU \in [CPUs -> Seq(Letras)] /\ deCPU[c] \in Seq(Letras)
        /\ aCPU[c] # <<>> /\ Head(aCPU[c]) = Orden /\ aCPU' = Consumir(aCPU, c) /\ hilo[c] = "orden"
    BY <1>1, TiposDeRed DEF Sentenciado, LlegaOrden
  <1>3. /\ \A V : Hay(aCPU[c], V) <=> Head(aCPU[c]) \in V \/ Hay(aCPU'[c], V)
        /\ \A V : AlMasUno(aCPU[c], V) => (Head(aCPU[c]) \in V => ~Hay(aCPU'[c], V))
        /\ \A V : AlMasUno(aCPU[c], V) => AlMasUno(aCPU'[c], V)
        /\ \A V, W : Antes(aCPU[c], V, W) <=> Antes(aCPU'[c], V, W) \/ (Head(aCPU[c]) \in V /\ Hay(aCPU'[c], W))
    BY <1>2, AlConsumir DEF Menos
  <1>4. Hay(aCPU[c], {Orden}) /\ ConToken(c) /\ Vivo(c) /\ ~Hay(deCPU[c], Avs) /\ hilo[c] # "avisoB"
    <2>1. Hay(aCPU[c], {Orden})
      BY <1>2, <1>3
    <2> QED
      BY <1>1, <1>2, <2>1, UnToken DEF ConToken, Vivo
  <1>5. ~Hay(aCPU'[c], Reales)
    <2>1. ~Antes(aCPU[c], {Orden}, Reales)
      BY <1>1, <1>4 DEF Turno
    <2> QED
      BY <1>2, <1>3, <2>1
  <1>6. ~Bloqueandose(c) /\ ~Hay(deCPU[c], Fines)
    <2>1. {"b"} \subseteq Avs /\ Fines \subseteq Avs
      BY DEF Avs, Letras, Fines
    <2>2. ~Hay(deCPU[c], {"b"}) /\ ~Hay(deCPU[c], Fines)
      BY <1>4, <2>1, HayMas
    <2> QED
      BY <1>4, <2>2 DEF Bloqueandose
  <1>7. ASSUME hilo'[c] # "avisoD", deCPU'[c] = deCPU[c] \/ \E x \in Avs : deCPU'[c] = Append(deCPU[c], x)
        PROVE  (UnDummy(c) => UnDummy(c)') /\ (DummyEn(c)' => DummyEn(c))
    <2>1. (Hay(deCPU'[c], {"d"}) => Hay(deCPU[c], {"d"})) /\ (AlMasUno(deCPU[c], {"d"}) => AlMasUno(deCPU'[c], {"d"}))
      <3>1. ASSUME NEW x \in Avs, deCPU'[c] = Append(deCPU[c], x)
            PROVE  (Hay(deCPU'[c], {"d"}) => Hay(deCPU[c], {"d"})) /\ (AlMasUno(deCPU[c], {"d"}) => AlMasUno(deCPU'[c], {"d"}))
        <4>1. x \in Letras /\ x \notin {"d"}
          BY DEF Avs
        <4> QED
          BY <1>2, <3>1, <4>1, UnoMas
      <3> QED
        BY <1>7, <3>1
    <2> QED
      BY <1>3, <1>7, <2>1 DEF UnDummy, DummyEn
  <1>8. CASE Contesta(c)
    <2>1. deCPU'[c] = deCPU[c] \/ \E x \in Avs : deCPU'[c] = Append(deCPU[c], x) /\ (x \in Fines => hilo'[c] = "proceso")
      BY <1>2, <1>8 DEF Contesta, Avisar, Enviar
    <2>2. Hay(deCPU'[c], Fines) => hilo'[c] \notin ConScript /\ ~Hay(aCPU'[c], Reales)
      <3>1. ASSUME NEW x \in Avs, deCPU'[c] = Append(deCPU[c], x), x \in Fines => hilo'[c] = "proceso", Hay(deCPU'[c], Fines)
            PROVE  hilo'[c] \notin ConScript
        <4>1. x \in Letras
          BY DEF Avs
        <4>2. x \in Fines
          BY <1>2, <1>6, <3>1, <4>1, UnoMas
        <4> QED
          BY <3>1, <4>2 DEF ConScript
      <3> QED
        BY <1>5, <1>6, <2>1, <3>1
    <2>3. Progresa(c)
      <3>1. hilo'[c] # "avisoD"
        BY <1>8 DEF Contesta
      <3> QED
        BY <1>4, <1>6, <1>7, <2>1, <2>2, <3>1 DEF Progresa
    <2> QED
      BY <1>8, <2>3, PasoSinPedir DEF Contesta
  <1>9. CASE Solicita(c)
    <2>1. deCPU' = deCPU /\ hilo'[c] = "avisoB"
      BY <1>9 DEF Solicita
    <2>2. PICK op \in {1, 6, 8, 9} : Pedir(c, op, DTB[c].proceso.id)
      BY <1>9 DEF Solicita
    <2>3. PICK i \in Ids : i = DTB[c].proceso.id
      BY <1>1, <1>2 DEF ConDTB, EnEjecucion, Objetos
    <2>4. Progresa(c) /\ Bloqueandose(c)'
      BY <1>4, <1>6, <1>7, <2>1 DEF Progresa, Bloqueandose
    <2>5. EnCPU(c, i)
      BY <1>2, <2>3 DEF EnCPU, ConScript
    <2>6. Suya(c, i) /\ Ultimo(i) /\ Real(i) \notin EnNuevos
      BY <1>1, <2>5 DEF Duenio
    <2>7. procesoEnEjecucion = Real(i)
      <3>1. procesoEnEjecucion # Nada /\ procesoEnEjecucion.flagInicializacion = 1 /\ Socket(procesoEnEjecucion.id) = c
        BY <1>1, <1>4 DEF Turno
      <3>2. PICK r \in Ids : procesoEnEjecucion = Real(r) /\ Real(r) \in Corriendo /\ Socket(r) = c
        BY <1>1, <3>1, QuienCorre
      <3>3. Ultimo(r) /\ Ultimo(i) /\ Socket(r) = Socket(i)
        BY <1>1, <2>6, <3>2, LosDosObjetos DEF Reservas, EnCola, Suya
      <3>4. r = i
        <4>1. Len(dtb) \in Nat
          BY <1>1, LugaresDeCreados
        <4>2. r \in 1 .. Len(dtb) /\ i \in 1 .. Len(dtb) /\ r \in Nat /\ i \in Nat
          BY <3>3, <4>1 DEF Ultimo
        <4>3. ~(r < i) /\ ~(i < r)
          BY <3>3, <4>2 DEF Ultimo
        <4> QED
          BY <4>2, <4>3
      <3> QED
        BY <3>2, <3>4
    <2>8. ~Pidio(i, Bloqueantes)
      <3>1. ~Perdido
        BY <1>4 DEF Perdido
      <3>2. Socket(i) = c
        BY <2>6 DEF Suya
      <3> QED
        BY <1>1, <1>6, <2>7, <3>1, <3>2 DEF BloqueoSolo
    <2>9. Real(i) \notin EnListos
      <3>1. Real(i) \in Corriendo
        BY <2>7, LosDosObjetos DEF Corriendo
      <3>2. EnListos \cap Corriendo = {}
        BY DEF Base, ColasInductivo, Separados
      <3> QED
        BY <3>1, <3>2
    <2>10. i \in Ids \cup {0} /\ Pedir(c, op, i)
      BY <2>2, <2>3
    <2> QED
      BY <2>4, <2>6, <2>8, <2>9, <2>10, PasoPidiendo
  <1> QED
    BY <1>8, <1>9 DEF Sentenciado

LEMMA PasoDeCPU ==
    ASSUME Base, CarrerasInductivo, ConUno = {}, NEW c \in CPUs, NextCPU(c), UNCHANGED safa
    PROVE  CarrerasInductivo'
  <1>1. OtrasQuietas(c) /\ MenosEnCPUs
    BY CPUToma DEF Base
  <1>2. CASE Sentenciado(c)
    BY <1>1, <1>2, PasoSentencia
  <1> QED
    BY <1>1, <1>2, CadaSentencia, PasoRecibirDummy, PasoAvisarDummy, PasoRecibirReal, PasoIgnorar, PasoAvisarBloqueo,
       PasoRecibirBasura DEF NextCPU

--------------------------------------------------------------------------------
(* The steps of DAM and those of S-AFA that are left *)

(* DAM turns a request into its answer, or drops it. *)
LEMMA PedidoAtendido ==
    ASSUME TypeOK, QuienPide, NEW c \in CPUs, pedidos[c] # <<>>, pedidos' = Consumir(pedidos, c),
           deDAM' = deDAM \/ \E resultado \in {0, 1} : deDAM' = Append(deDAM, Contestado(c, resultado))
    PROVE  MenosPedidos
  <1> DEFINE m == Head(pedidos[c])
  <1>1. pedidos \in [CPUs -> Seq(Paquetes)] /\ deDAM \in Seq(Paquetes)
    BY TiposDeRed
  <1>2. m \in Paquetes /\ (\A d \in CPUs : d # c => pedidos'[d] = pedidos[d])
        /\ (\A d \in CPUs : Menos(pedidos'[d], pedidos[d]))
        /\ (\A V : Hay(pedidos[c], V) <=> m \in V \/ Hay(pedidos'[c], V))
        /\ (\A V : AlMasUno(pedidos[c], V) => (m \in V => ~Hay(pedidos'[c], V)))
    <2>1. /\ m \in Paquetes
          /\ \A d \in CPUs : d # c => Consumir(pedidos, c)[d] = pedidos[d]
          /\ \A d \in CPUs : Menos(Consumir(pedidos, c)[d], pedidos[d])
          /\ \A V : Hay(pedidos[c], V) <=> m \in V \/ Hay(Consumir(pedidos, c)[c], V)
          /\ \A V : AlMasUno(pedidos[c], V) => (m \in V => ~Hay(Consumir(pedidos, c)[c], V))
      BY <1>1, AlConsumir
    <2> QED
      BY <2>1
  <1> HIDE DEF m
  <1>3. /\ \A d \in CPUs : \A V : Hay(pedidos'[d], V) => Hay(pedidos[d], V)
        /\ \A d \in CPUs : \A V : AlMasUno(pedidos[d], V) => AlMasUno(pedidos'[d], V)
    BY <1>2 DEF Menos
  <1>4. CASE deDAM' = deDAM
    <2>1. \A j, ops : (Pidio(j, ops)' => Pidio(j, ops)) /\ (Unico(j, ops) => Unico(j, ops)')
      BY <1>3, <1>4 DEF Pidio, Unico
    <2> QED
      BY <1>3, <2>1 DEF MenosPedidos
  <1>5. ASSUME NEW resultado \in {0, 1}, deDAM' = Append(deDAM, Contestado(c, resultado)) PROVE MenosPedidos
    <2> DEFINE r == Contestado(c, resultado)
    <2>1. r \in Paquetes /\ \A j, ops : r \in De(j, ops) <=> m \in De(j, ops)
      BY <1>2 DEF Contestado, Paquetes, De, m
    <2>2. deDAM' = Append(deDAM, r)
      BY <1>5
    <2> HIDE DEF r
    <2>3. /\ \A V : Hay(deDAM', V) <=> Hay(deDAM, V) \/ r \in V
          /\ \A V : AlMasUno(deDAM', V) <=> AlMasUno(deDAM, V) /\ (r \in V => ~Hay(deDAM, V))
      BY <1>1, <2>1, <2>2, UnoMas
    <2>4. \A j, ops : Pidio(j, ops)' => Pidio(j, ops)
      <3>1. \A j, ops : Hay(deDAM', De(j, ops)) => Hay(deDAM, De(j, ops)) \/ Hay(pedidos[c], De(j, ops))
        BY <1>2, <2>1, <2>3
      <3> QED
        BY <1>3, <3>1 DEF Pidio
    <2>5. ASSUME NEW j \in Ids, NEW ops \in {{1}, Bloqueantes}, Unico(j, ops) PROVE Unico(j, ops)'
      <3>1. \A d \in CPUs : Hay(pedidos[d], De(j, ops)) => Suya(d, j)
        <4>1. De(j, ops) \subseteq De(j, {1, 6, 8, 9})
          BY DEF De, Bloqueantes
        <4> QED
          BY <4>1, HayMas DEF QuienPide
      <3>2. AlMasUno(deDAM, De(j, ops))
            /\ \A d \in CPUs : /\ AlMasUno(pedidos[d], De(j, ops))
                               /\ ~(Hay(deDAM, De(j, ops)) /\ Hay(pedidos[d], De(j, ops)))
        BY <2>5 DEF Unico
      <3>3. CASE r \notin De(j, ops)
        BY <1>3, <2>3, <3>2, <3>3 DEF Unico
      <3>4. CASE r \in De(j, ops)
        <4>1. m \in De(j, ops) /\ Hay(pedidos[c], De(j, ops)) /\ ~Hay(pedidos'[c], De(j, ops)) /\ ~Hay(deDAM, De(j, ops))
          BY <1>2, <2>1, <3>2, <3>4
        <4>2. \A d \in CPUs : ~Hay(pedidos'[d], De(j, ops))
          BY <1>3, <3>1, <4>1 DEF Suya
        <4> QED
          BY <1>3, <2>3, <3>2, <4>1, <4>2 DEF Unico
      <3> QED
        BY <3>3, <3>4
    <2> QED
      BY <1>3, <2>4, <2>5 DEF MenosPedidos
  <1> QED
    BY <1>4, <1>5

LEMMA PasoDeDAM ==
    ASSUME Base, CarrerasInductivo, NEW c \in CPUs, NextDAM(c), UNCHANGED <<safa, cpu>>
    PROVE  CarrerasInductivo'
  <1>1. TypeOK /\ TipoInductivo /\ QuienPide /\ Flujo
    BY DEF Base, TipoInductivo, CarrerasInductivo
  <1>2. PICK ops : Pedido(c, ops)
    BY DEF NextDAM, Atender, AtenderMuereMDJ, AtenderSinMDJ, AtenderAbrirSinFM9, AtenderFlush
  <1>3. pedidos[c] # <<>> /\ pedidos' = Consumir(pedidos, c) /\ UNCHANGED <<aCPU, deCPU>>
    BY <1>2 DEF Pedido
  <1>4. DAMMuere \/ RespuestaIlegible \/ \E resultado \in {0, 1} : Responder(c, resultado)
    BY DEF NextDAM, Atender, AtenderMuereMDJ, AtenderSinMDJ, AtenderAbrirSinFM9, AtenderFlush, SinRespuesta
  <1>5. deDAM' = deDAM \/ \E resultado \in {0, 1} : deDAM' = Append(deDAM, Contestado(c, resultado))
    BY <1>4 DEF DAMMuere, RespuestaIlegible, Responder
  <1>6. MenosPedidos
    BY <1>1, <1>3, <1>5, PedidoAtendido
  <1>7. UNCHANGED <<procesos_nuevos, procesos_listos, procesos_bloqueados, procesoEnEjecucion, pcp, dtb,
                    tieneDTBasociado, sem_CPU_ejecutoUnaSentencia, hilo, DTB>>
    BY DEF safa, colas, sems, hilos, cpu, memoria
  <1>8. SoloLeer
    BY <1>3, <1>7, QuedanMenos DEF SoloLeer
  <1>9. Movidos({}, {}) /\ \A j \in 1 .. Len(dtb) : Socket(j)' = Socket(j)
    BY <1>7, NadieMovido DEF EnNuevos, EnListos, EnBloqueados, Socket
  <1>10. Flujo'
    BY <1>1, <1>7, <1>8, <1>9, FlujoQuieto
  <1>11. \A d \in CPUs : Perdido \/ Bloqueandose(d) => Perdido' \/ Bloqueandose(d)'
    BY <1>3, <1>7 DEF Perdido, Bloqueandose, ConToken
  <1> QED
    BY <1>6, <1>7, <1>8, <1>9, <1>10, <1>11, PasoMovidos

LEMMA PasoPCP ==
    ASSUME Base, CarrerasInductivo, DespachoLibre, UNCHANGED cpu, PCP
    PROVE  CarrerasInductivo'
  <1>1. Menos(deDAM, deDAM)
    BY QuedanMenos
  <1>2. CASE PCPQuitar
    <2>1. /\ UNCHANGED <<EnNuevos, EnBloqueados>>
          /\ EnListos' = EnListos \/ \E y \in EnListos : EnListos' = EnListos \ {y}
      BY <1>2, QuitarColas DEF Base
    <2>2. UNCHANGED <<aCPU, deCPU, pedidos, deDAM, procesoEnEjecucion, tieneDTBasociado, sem_CPU_ejecutoUnaSentencia, dtb>>
          /\ pcp' = "espera"
      BY <1>2 DEF PCPQuitar, red
    <2> QED
      BY <1>1, <2>1, <2>2, PasoSinListo DEF Socket
  <1>3. CASE PCPCae
    BY <1>1, <1>3, PasoCaer DEF PCPCae, red
  <1> QED
    BY <1>2, <1>3, PasoSeleccionar, PasoEnviar DEF PCP

LEMMA PasoEjecutarProceso ==
    ASSUME Base, CarrerasInductivo, OrdenTrasDespacho, UNCHANGED cpu, EjecutarProceso
    PROVE  CarrerasInductivo'
  <1>1. Menos(deDAM, deDAM)
    BY QuedanMenos
  <1>2. CASE EjecDespertar \/ EjecCondicion
    <2>1. UNCHANGED <<aCPU, deCPU, pedidos, deDAM, procesoEnEjecucion, tieneDTBasociado, sem_CPU_ejecutoUnaSentencia, dtb,
                      procesos_nuevos, procesos_listos, procesos_bloqueados, pcp>>
      BY <1>2 DEF EjecDespertar, EjecCondicion, red, colas, sems
    <2> QED
      BY <1>1, <2>1, PasoSinListo DEF Socket, EnNuevos, EnListos, EnBloqueados
  <1> QED
    BY <1>2, PasoOrdenar DEF EjecutarProceso

LEMMA PasoConsola ==
    ASSUME Base, Base', CarrerasInductivo, UNCHANGED cpu, Consola
    PROVE  CarrerasInductivo'
  BY PasoEjecutar, PasoConsolaOtra

LEMMA PasoCarreras ==
    ASSUME Base, Base', CarrerasInductivo, ConUno = {}, [Next]_vars, [DespachoLibre /\ OrdenTrasDespacho]_vars
    PROVE  CarrerasInductivo'
  <1>1. CASE vars' = vars
    <2>1. UNCHANGED <<procesos_nuevos, procesos_listos, procesos_bloqueados, procesoEnEjecucion, pcp, dtb,
                    tieneDTBasociado, sem_CPU_ejecutoUnaSentencia, aCPU, deCPU, pedidos, deDAM>> /\ UNCHANGED cpu
      BY <1>1 DEF vars, safa, colas, sems, hilos, red
    <2> QED
      BY <2>1, QuedanMenos, PasoSinListo DEF Socket, EnNuevos, EnListos, EnBloqueados
  <1>2. CASE Next /\ DespachoLibre /\ OrdenTrasDespacho
    <2>1. \A accion : PasoSAFA(accion) => accion /\ UNCHANGED cpu
      BY DEF PasoSAFA
    <2>2. ASSUME NEW c \in CPUs, PasoCPU(c) PROVE CarrerasInductivo'
      BY <2>2, PasoDeCPU DEF PasoCPU
    <2>3. ASSUME NEW c \in CPUs, PasoDAM(c) PROVE CarrerasInductivo'
      BY <2>3, PasoDeDAM DEF PasoDAM
    <2> QED
      BY <1>2, <2>1, <2>2, <2>3, PasoConsola, PasoPCP, PasoEjecutarProceso, PasoConexionDAM, PasoConexionCPU DEF Next
  <1> QED
    BY <1>1, <1>2

--------------------------------------------------------------------------------
(* What follows *)

LEMMA CarrerasAlInicio == Init => CarrerasInductivo
  <1> SUFFICES ASSUME Init PROVE CarrerasInductivo
    OBVIOUS
  <1>1. /\ \A c \in CPUs : aCPU[c] = <<>> /\ deCPU[c] = <<>> /\ pedidos[c] = <<>> /\ hilo[c] = "proceso"
        /\ deDAM = <<>> /\ pcp = "espera" /\ procesoEnEjecucion = Nada
        /\ procesos_nuevos = <<>> /\ procesos_listos = <<>> /\ procesos_bloqueados = <<>>
    BY DEF Init, InitRed, InitCPU, InitSAFA
  <1>2. EnNuevos = {} /\ EnListos = {} /\ EnBloqueados = {} /\ Corriendo = {}
    BY <1>1, NadieEnVacia DEF EnNuevos, EnListos, EnBloqueados, Corriendo
  <1>3. \A c \in CPUs : \A V, W : /\ ~Hay(aCPU[c], V) /\ AlMasUno(aCPU[c], V) /\ ~Antes(aCPU[c], V, W)
                                  /\ ~Hay(deCPU[c], V) /\ AlMasUno(deCPU[c], V)
                                  /\ ~Hay(pedidos[c], V) /\ AlMasUno(pedidos[c], V)
    BY <1>1, NadaEnVacia
  <1>4. \A V : ~Hay(deDAM, V) /\ AlMasUno(deDAM, V)
    BY <1>1, NadaEnVacia
  <1>5. Flujo
    <2>1. \A c \in CPUs : ~Vivo(c) /\ ~DummyEn(c) /\ UnDummy(c)
      BY <1>1, <1>3 DEF Vivo, DummyEn, UnDummy
    <2> QED
      BY <1>3, <2>1 DEF Flujo, Turno, FinLimpio, DummyUnico
  <1>6. \A j \in Ids : ~Preparando(j) /\ ~Enviado(j) /\ \A c \in CPUs : ~EnCPU(c, j)
    BY <1>1, <1>2, <1>3 DEF Preparando, Enviado, Elegido, EnCPU, ConScript
  <1>7. \A j, ops : ~Pidio(j, ops) /\ Unico(j, ops)
    BY <1>3, <1>4 DEF Pidio, Unico
  <1>8. Reservas /\ SoloReales /\ Duenio /\ Preparacion /\ QuienPide /\ CargaSola /\ BloqueoSolo
    BY <1>2, <1>3, <1>6, <1>7 DEF Reservas, EnCola, SoloReales, Duenio, Preparacion, QuienPide, CargaSola, BloqueoSolo
  <1> QED
    BY <1>5, <1>8 DEF CarrerasInductivo

LEMMA PasoBase ==
    ASSUME SinCrear, ConUno = {}
    PROVE  Base /\ [Next]_vars => Base'
  <1> SUFFICES ASSUME Base, [Next]_vars PROVE Base'
    OBVIOUS
  <1>1. TipoInductivo /\ ColasInductivo /\ SentenciasInductivo /\ SoloLlamados
    BY DEF Base
  <1>2. TipoInductivo'
    BY <1>1, Paso
  <1> QED
    BY <1>1, <1>2, PasoColas, PasoSentencias, PasoLlamados DEF Base

(* what is asked for, one by one *)
LEMMA LosPedidos ==
    ASSUME TypeOK, QuienPide, NEW j \in Ids, NEW ops \in {{1}, Bloqueantes}
    PROVE  /\ Pedidos(j, ops) # {} => Pidio(j, ops)
           /\ Unico(j, ops) => \A x, y \in Pedidos(j, ops) : x = y
  <1>1. deDAM \in Seq(Paquetes) /\ \A c \in CPUs : pedidos[c] \in Seq(Paquetes)
    BY TiposDeRed
  <1>2. \A s \in Seq(Paquetes) : \A n \in Pide(s, j, ops) : n \in DOMAIN s /\ s[n] \in De(j, ops)
    <2>1. \A s \in Seq(Paquetes) : \A n \in DOMAIN s : s[n] \in Paquetes
      BY ElementOfSeq, LenProperties
    <2> QED
      BY <2>1 DEF Pide, De
  <1>3. ASSUME NEW x \in Pedidos(j, ops)
        PROVE  \/ \E n \in Pide(deDAM, j, ops) : x = <<"respuesta", n>>
               \/ \E c \in CPUs : \E n \in Pide(pedidos[c], j, ops) : x = <<"pedido", c, n>>
    BY <1>3 DEF Pedidos
  <1>4. Pedidos(j, ops) # {} => Pidio(j, ops)
    BY <1>1, <1>2, <1>3 DEF Pidio, Hay
  <1>5. \A c, d \in CPUs : Hay(pedidos[c], De(j, ops)) /\ Hay(pedidos[d], De(j, ops)) => c = d
    <2>1. De(j, ops) \subseteq De(j, {1, 6, 8, 9})
      BY DEF De, Bloqueantes
    <2>2. \A c \in CPUs : Hay(pedidos[c], De(j, ops)) => Suya(c, j)
      BY <2>1, HayMas DEF QuienPide
    <2> QED
      BY <2>2 DEF Suya
  <1>6. ASSUME Unico(j, ops), NEW x \in Pedidos(j, ops), NEW y \in Pedidos(j, ops)
        PROVE  x = y
    <2>1. /\ \A c \in CPUs : ~(Hay(deDAM, De(j, ops)) /\ Hay(pedidos[c], De(j, ops)))
          /\ \A n, k \in Pide(deDAM, j, ops) : n = k
          /\ \A c \in CPUs : \A n, k \in Pide(pedidos[c], j, ops) : n = k
      BY <1>1, <1>2, <1>6 DEF Unico, AlMasUno
    <2>2. /\ \A n \in Pide(deDAM, j, ops) : Hay(deDAM, De(j, ops))
          /\ \A c \in CPUs : \A n \in Pide(pedidos[c], j, ops) : Hay(pedidos[c], De(j, ops))
      BY <1>1, <1>2 DEF Hay
    <2>3. CASE \E n \in Pide(deDAM, j, ops) : x = <<"respuesta", n>>
      <3>1. \E n \in Pide(deDAM, j, ops) : y = <<"respuesta", n>>
        BY <1>3, <2>1, <2>2, <2>3
      <3> QED
        BY <2>1, <2>3, <3>1
    <2>4. ASSUME NEW c \in CPUs, NEW n \in Pide(pedidos[c], j, ops), x = <<"pedido", c, n>> PROVE x = y
      <3>1. \E d \in CPUs : \E k \in Pide(pedidos[d], j, ops) : y = <<"pedido", d, k>>
        BY <1>3, <2>1, <2>2, <2>4
      <3> QED
        BY <1>5, <2>1, <2>2, <2>4, <3>1
    <2> QED
      BY <1>3, <2>3, <2>4
  <1> QED
    BY <1>4, <1>6

LEMMA CarrerasPedidoUnico ==
    ASSUME Base, CarrerasInductivo
    PROVE  PedidoUnico
  <1>1. TypeOK /\ QuienPide /\ BloqueoSolo /\ Bloqueantes = {6, 8, 9}
    BY DEF Base, TipoInductivo, CarrerasInductivo, Bloqueantes
  <1>2. ASSUME NEW i \in Ids PROVE Cardinality(Pedidos(i, {6, 8, 9})) <= 1
    <2>1. \A x, y \in Pedidos(i, Bloqueantes) : x = y
      BY <1>1, LosPedidos DEF BloqueoSolo
    <2>2. Cardinality(Pedidos(i, Bloqueantes)) <= 1
      BY <2>1, AlMasUnElemento
    <2> QED
      BY <1>1, <2>2
  <1> QED
    BY <1>2 DEF PedidoUnico

LEMMA CarrerasReserva ==
    ASSUME Base, CarrerasInductivo
    PROVE  ReservaPropia
  <1>1. TipoInductivo /\ Reservas
    BY DEF Base, CarrerasInductivo
  <1>2. Len(dtb) \in Nat
    BY <1>1, LugaresDeCreados
  <1>3. ASSUME NEW i \in 1 .. Len(dtb), NoTermino(i) PROVE Ultimo(i)
    <2>1. i \in Ids
      <3>1. MaxProcesos \in Nat /\ Len(dtb) <= MaxProcesos
        BY <1>1, RedAssumption DEF TipoInductivo, TypeOK, SAFATypeOK
      <3> QED
        BY <1>2, <3>1 DEF Ids
    <2>2. Real(i) \in EnCola
      BY <1>3, <2>1, LosDosObjetos DEF NoTermino, Colas, EnCola, EnNuevos, EnListos, EnBloqueados, Corriendo, Elementos
    <2> QED
      BY <1>1, <2>1, <2>2, LosDosObjetos DEF Reservas
  <1>4. ASSUME NEW i \in 1 .. Len(dtb), NEW j \in 1 .. Len(dtb), Ultimo(i), Ultimo(j), i # j PROVE Socket(i) # Socket(j)
    BY <1>2, <1>4 DEF Ultimo
  <1> QED
    BY <1>3, <1>4 DEF ReservaPropia, Ultimo, Socket

(* A process asks DAM for one thing at a time, however many processes and CPUs      *)
(* there are and whatever the operator types, in the runs without the two races:    *)
(* the CPU that asked for a flush, a crear or a borrar gets no further order for     *)
(* that process until S-AFA has taken the answer in.                                 *)
THEOREM UnPedidoPorProceso ==
    ASSUME SinCrear, ConUno = {}
    PROVE  Spec /\ SinCarreras => []PedidoUnico
  <1>1. Init => Base /\ CarrerasInductivo
    BY Inicio, ColasAlInicio, SentenciasAlInicio, LlamadosAlInicio, CarrerasAlInicio DEF Base
  <1>2. Base /\ [Next]_vars => Base'
    BY PasoBase
  <1>3. Base /\ Base' /\ CarrerasInductivo /\ [Next]_vars /\ [DespachoLibre /\ OrdenTrasDespacho]_vars => CarrerasInductivo'
    BY PasoCarreras
  <1>4. Base /\ CarrerasInductivo => PedidoUnico
    BY CarrerasPedidoUnico
  <1> QED
    BY <1>1, <1>2, <1>3, <1>4, PTL DEF Spec, SinCarreras

(* In the same runs the CPU the console reserved for a process is that process's     *)
(* until it finishes: the end of a script frees the CPU that told it, which is the    *)
(* one of the process S-AFA takes for finished and of no other.                       *)
THEOREM CadaProcesoSuCPU ==
    ASSUME SinCrear, ConUno = {}
    PROVE  Spec /\ SinCarreras => []ReservaPropia
  <1>1. Init => Base /\ CarrerasInductivo
    BY Inicio, ColasAlInicio, SentenciasAlInicio, LlamadosAlInicio, CarrerasAlInicio DEF Base
  <1>2. Base /\ [Next]_vars => Base'
    BY PasoBase
  <1>3. Base /\ Base' /\ CarrerasInductivo /\ [Next]_vars /\ [DespachoLibre /\ OrdenTrasDespacho]_vars => CarrerasInductivo'
    BY PasoCarreras
  <1>4. Base /\ CarrerasInductivo => ReservaPropia
    BY CarrerasReserva
  <1> QED
    BY <1>1, <1>2, <1>3, <1>4, PTL DEF Spec, SinCarreras

--------------------------------------------------------------------------------
(* The load of a process.  A script that opens a file asks as a dummy does, and the *)
(* console can finalise a process that is being loaded: both are left out.           *)

SinAbrir == \A e \in Escriptorios : \A k \in DOMAIN Codigo[e] : Codigo[e][k].op # "abrir"

EnCarga(j) == Preparando(j) \/ Pidio(j, {1})

(* the inductive invariant: a process being loaded is still new *)
CargaDeNuevo == \A j \in Ids : EnCarga(j) => Real(j) \in EnNuevos

LEMMA MenosCargas ==
    ASSUME MenosEnCPUs, procesoEnEjecucion' \in {procesoEnEjecucion, Nada}, pcp' \in {pcp, "espera"},
           NEW j \in Ids, Dummy(j) \in EnListos' => Dummy(j) \in EnListos,
           Pidio(j, {1})' => Pidio(j, {1}), EnCarga(j)'
    PROVE  EnCarga(j)
  <1>1. Enviado(j)' => Enviado(j)
    BY DEF Enviado, MenosEnCPUs
  <1>2. Elegido(j)' => Elegido(j)
    BY LosDosObjetos DEF Elegido
  <1> QED
    BY <1>1, <1>2 DEF EnCarga, Preparando

LEMMA CargaConexionCPU ==
    ASSUME Base, CarrerasInductivo, CargaDeNuevo, NEW c \in CPUs, ConexionCPU(c), UNCHANGED cpu
    PROVE  CargaDeNuevo'
  <1>1. TipoInductivo /\ procesos_listos \in Seq(Objetos)
    BY DEF Base, TipoInductivo, TypeOK, SAFATypeOK
  <1>2. /\ UNCHANGED <<aCPU, pedidos, deDAM, hilo, DTB, procesos_nuevos, pcp>>
        /\ procesoEnEjecucion' \in {procesoEnEjecucion, Nada}
        /\ deCPU[c] # <<>> /\ deCPU' = Consumir(deCPU, c)
    BY DEF ConexionCPU, FinDeScript, FinIgnorado, FinDeSentencia, FinDeQuantum, FinDeQuantumSinProceso,
           VerificarSiFinalizar, DummyEnviado, DummySinProceso, Bloquear, BloquearSinProceso, Recurso,
           CaerAlRecibir, Caer, Llega, Recibido, Desocupar, cpu, memoria, safa, colas, hilos
  <1>3. ASSUME NEW j \in Ids, Dummy(j) \in EnListos' PROVE Dummy(j) \in EnListos
    <2>1. CASE FinDeQuantum(c)
      <3>1. procesos_listos' = Append(procesos_listos, procesoEnEjecucion) /\ procesoEnEjecucion # Nada
            /\ Head(deCPU[c]) \in {"r"}
        BY <2>1 DEF FinDeQuantum, Llega
      <3>2. Head(deCPU[c]) \in Avs
        BY <3>1 DEF Avs, Letras
      <3>3. procesoEnEjecucion \in Objetos /\ procesoEnEjecucion # Dummy(j)
        BY <1>1, <1>2, <3>1, <3>2, TomaToken, QuienCorre, LosDosObjetos
      <3>4. EnListos' \subseteq EnListos \cup {procesoEnEjecucion}
        BY <1>1, <3>1, <3>3, AlFinal DEF EnListos
      <3> QED
        BY <1>3, <3>3, <3>4
    <2>2. CASE ~FinDeQuantum(c)
      <3>1. procesos_listos' = procesos_listos
        BY <2>2 DEF ConexionCPU, FinDeScript, FinIgnorado, FinDeSentencia, FinDeQuantumSinProceso,
           VerificarSiFinalizar, DummyEnviado, DummySinProceso, Bloquear, BloquearSinProceso, Recurso,
           CaerAlRecibir, Caer, safa, colas
      <3> QED
        BY <1>3, <3>1 DEF EnListos
    <2> QED
      BY <2>1, <2>2
  <1>4. MenosEnCPUs
    BY <1>2 DEF MenosEnCPUs, EnCPU
  <1>5. EnNuevos' = EnNuevos /\ \A j \in Ids : Pidio(j, {1})' => Pidio(j, {1})
    BY <1>2 DEF EnNuevos, Pidio
  <1> QED
    BY <1>2, <1>3, <1>4, <1>5, MenosCargas DEF CargaDeNuevo

LEMMA CargaConexionDAM ==
    ASSUME Base, CarrerasInductivo, CargaDeNuevo, ConexionDAM, UNCHANGED cpu
    PROVE  CargaDeNuevo'
  <1>1. /\ TipoInductivo /\ ColasInductivo /\ TypeOK /\ CargaSola /\ SoloReales /\ deDAM \in Seq(Paquetes)
    BY TiposDeRed DEF Base, TipoInductivo, CarrerasInductivo
  <1>2. /\ UNCHANGED <<aCPU, pedidos, hilo, DTB, procesoEnEjecucion, pcp>>
        /\ deDAM # <<>> /\ deDAM' = Tail(deDAM)
    BY DEF ConexionDAM, AbrirOk, AbrirMal, AbrirSinNuevo, OperacionOk, OperacionOkSinBloqueado, OperacionMal,
           Respuesta, Caer, cpu, memoria, hilos
  <1>3. MenosEnCPUs /\ Menos(deDAM', deDAM)
    BY <1>1, <1>2, QuedanMenos DEF MenosEnCPUs, EnCPU
  <1>4. \A j \in Ids : Pidio(j, {1})' => Pidio(j, {1})
    BY <1>2, <1>3 DEF Pidio, Menos
  <1>5. ASSUME EnNuevos' = EnNuevos, \A j \in Ids : Dummy(j) \in EnListos' => Dummy(j) \in EnListos
        PROVE  CargaDeNuevo'
    BY <1>2, <1>3, <1>4, <1>5, MenosCargas DEF CargaDeNuevo
  <1>6. CASE AbrirOk \/ AbrirMal
    <2>1. PICK i \in 1 .. Len(dtb) :
             /\ i = IdRespuesta /\ Real(i) \in EnNuevos /\ EnNuevos' = EnNuevos \ {Real(i)}
             /\ EnListos' = EnListos \cup {Real(i)} \/ EnListos' = EnListos
      BY <1>1, <1>6, AbrirColas
    <2>2. Head(deDAM).tipoOperacion = 1
      BY <1>6 DEF AbrirOk, AbrirMal, Respuesta
    <2>3. i \in Ids
      BY <1>1, <2>1, LugaresDeCreados, LosDosObjetos DEF Creados, Objetos
    <2>4. \A j \in Ids : Dummy(j) \in EnListos' => Dummy(j) \in EnListos
      BY <2>1, LosDosObjetos
    <2>5. \A j \in Ids : EnCarga(j)' => EnCarga(j)
      BY <1>2, <1>3, <1>4, <2>4, MenosCargas
    <2>6. ~EnCarga(i)'
      <3>1. Head(deDAM) \in De(i, {1})
        BY <1>1, <1>2, <2>1, <2>2, HeadTailProperties DEF De, IdRespuesta
      <3>2. Unico(i, {1}) /\ (Pidio(i, {1}) => ~Preparando(i))
        BY <1>1, <2>1, <2>3 DEF CargaSola
      <3>3. Hay(deDAM, De(i, {1})) /\ ~Hay(Tail(deDAM), De(i, {1}))
        BY <1>1, <1>2, <3>1, <3>2, UnoMenos DEF Unico
      <3>4. ~Pidio(i, {1})' /\ ~Preparando(i)
        BY <1>2, <3>2, <3>3 DEF Pidio, Unico
      <3>5. ~Enviado(i)' /\ ~Elegido(i)' /\ Dummy(i) \notin EnListos'
        BY <1>2, <2>3, <2>4, <3>4 DEF Preparando, Enviado, Elegido
      <3> QED
        BY <3>4, <3>5 DEF EnCarga, Preparando
    <2> QED
      BY <2>1, <2>5, <2>6, LosDosObjetos DEF CargaDeNuevo
  <1>7. CASE OperacionOk
    <2>1. procesos_nuevos' = procesos_nuevos
      BY <1>7 DEF OperacionOk
    <2>2. PICK y : y = procesos_bloqueados[Primera(procesos_bloqueados, IdRespuesta)]
      OBVIOUS
    <2>3. /\ procesos_bloqueados \in Seq(Objetos) /\ procesos_listos \in Seq(Objetos)
          /\ Nada \notin Objetos /\ SinRepetir(procesos_bloqueados)
          /\ Tiene(procesos_bloqueados, IdRespuesta) /\ procesos_listos' = Append(procesos_listos, y)
      BY <1>1, <1>7, <2>2, CreadosObjetos DEF TypeOK, SAFATypeOK, ColasInductivo, UnaVez, OperacionOk
    <2>4. y \in EnBloqueados /\ y \in Objetos
      BY <2>2, <2>3, ElDeEseId DEF EnBloqueados
    <2>5. y = Real(y.id) /\ EnListos' \subseteq EnListos \cup {y}
      BY <1>1, <2>3, <2>4, AlFinal DEF EnListos, SoloReales
    <2> QED
      BY <1>5, <2>1, <2>5, LosDosObjetos DEF EnNuevos
  <1>8. CASE AbrirSinNuevo \/ OperacionOkSinBloqueado \/ OperacionMal
    <2>1. UNCHANGED <<procesos_nuevos, procesos_listos>>
      BY <1>8 DEF AbrirSinNuevo, OperacionOkSinBloqueado, OperacionMal, Caer, colas
    <2> QED
      BY <1>5, <2>1 DEF EnNuevos, EnListos
  <1> QED
    BY <1>6, <1>7, <1>8 DEF ConexionDAM

(* A dummy that is ready is selected, one selected is sent. *)
LEMMA CargaPCP ==
    ASSUME Base, CarrerasInductivo, CargaDeNuevo, PCP, UNCHANGED cpu
    PROVE  CargaDeNuevo'
  <1>1. TipoInductivo /\ ColasInductivo /\ TypeOK
    BY DEF Base, TipoInductivo
  <1>2. UNCHANGED <<procesos_nuevos, pedidos, deDAM, hilo, DTB>>
    BY DEF PCP, PCPSeleccionar, PCPEnviar, PCPQuitar, PCPCae, Caer, colas, red, cpu, memoria
  <1>3. EnNuevos' = EnNuevos /\ \A j \in Ids : Pidio(j, {1})' => Pidio(j, {1})
    BY <1>2 DEF EnNuevos, Pidio
  <1>4. ASSUME NEW j \in Ids, EnCarga(j)' PROVE EnCarga(j)
    <2>1. CASE PCPSeleccionar /\ procesos_listos = <<>>
      <3>1. UNCHANGED <<aCPU, procesos_listos, procesoEnEjecucion, pcp>>
        BY <2>1 DEF PCPSeleccionar, red
      <3> QED
        BY <1>3, <1>4, <3>1 DEF EnCarga, Preparando, Enviado, Elegido, EnListos
    <2>2. CASE PCPSeleccionar /\ procesos_listos # <<>>
      <3>1. PICK x : x = Head(procesos_listos)
        OBVIOUS
      <3>2. aCPU' = aCPU /\ procesos_listos' = Tail(procesos_listos) /\ procesoEnEjecucion' = x
        BY <2>2, <3>1 DEF PCPSeleccionar, round_robin, red
      <3>3. procesos_listos \in Seq(Objetos) /\ Nada \notin Objetos /\ SinRepetir(procesos_listos)
        BY <1>1, CreadosObjetos DEF TypeOK, SAFATypeOK, ColasInductivo, UnaVez
      <3>4. x \in EnListos /\ EnListos' \subseteq EnListos
        BY <2>2, <3>1, <3>2, <3>3, ElPrimero DEF EnListos
      <3> QED
        BY <1>3, <1>4, <3>2, <3>4 DEF EnCarga, Preparando, Enviado, Elegido
    <2>3. CASE PCPEnviar
      <3>1. UNCHANGED <<procesos_listos, procesoEnEjecucion>> /\ pcp = "enviar" /\ procesoEnEjecucion # Nada
        BY <2>3 DEF PCPEnviar, colas
      <3>2. PICK p \in Objetos :
               /\ p = procesoEnEjecucion /\ Socket(p.id) \in CPUs /\ dtb[p.id].pathEscriptorio \in Escriptorios
               /\ p.flagInicializacion \in {0, 1} /\ (p.flagInicializacion = 0 <=> p = Dummy(p.id))
        BY <1>1, <3>1, QuienCorre
      <3>3. PICK s \in CPUs, m \in Mensajes : s = Socket(p.id) /\ m = EnvioProceso(p, dtb[p.id].pathEscriptorio)
        BY <3>2 DEF Mensajes
      <3>4. m.proceso = p /\ aCPU' = Enviar(aCPU, s, m)
        BY <2>3, <3>2, <3>3 DEF EnvioProceso, PCPEnviar, Socket
      <3>5. m \in DeDummy(j) => Elegido(j)
        BY <3>1, <3>2, <3>4 DEF DeDummy, Dummies, Elegido
      <3>6. Enviado(j)' => Enviado(j) \/ Elegido(j)
        BY <1>1, <3>4, <3>5, AlMandar DEF Enviado
      <3>7. pcp' # "enviar"
        BY <2>3 DEF PCPEnviar
      <3> QED
        BY <1>3, <1>4, <3>1, <3>6, <3>7 DEF EnCarga, Preparando, Elegido, EnListos
    <2>4. CASE PCPQuitar \/ PCPCae
      <3>1. EnListos' \subseteq EnListos
        BY <1>1, <2>4, QuitarColas DEF PCPCae, Caer, colas, EnListos
      <3>2. UNCHANGED <<aCPU, procesoEnEjecucion>> /\ pcp' \in {pcp, "espera"}
        BY <2>4 DEF PCPQuitar, PCPCae, Caer, hilos, red
      <3> QED
        BY <1>3, <1>4, <3>1, <3>2 DEF EnCarga, Preparando, Enviado, Elegido
    <2> QED
      BY <2>1, <2>2, <2>3, <2>4 DEF PCP
  <1> QED
    BY <1>3, <1>4 DEF CargaDeNuevo

(* An order carries no dummy. *)
LEMMA CargaEjecutarProceso ==
    ASSUME Base, CarrerasInductivo, CargaDeNuevo, EjecutarProceso, UNCHANGED cpu
    PROVE  CargaDeNuevo'
  <1>1. TypeOK /\ TipoInductivo
    BY DEF Base, TipoInductivo
  <1>2. UNCHANGED <<procesos_nuevos, procesos_listos, procesoEnEjecucion, pcp, pedidos, deDAM>>
    BY DEF EjecutarProceso, EjecDespertar, EjecCondicion, EjecOrdenar, colas, red
  <1>3. ASSUME NEW j \in Ids, Enviado(j)' PROVE Enviado(j)
    <2>1. CASE aCPU' = aCPU
      BY <1>3, <2>1 DEF Enviado
    <2>2. CASE aCPU' # aCPU
      <3>1. procesoEnEjecucion # Nada /\ aCPU' = Enviar(aCPU, Socket(procesoEnEjecucion.id), Orden)
        BY <2>2 DEF EjecutarProceso, EjecDespertar, EjecCondicion, EjecOrdenar, red, Socket
      <3>2. PICK s \in CPUs : aCPU' = Enviar(aCPU, s, Orden)
        BY <1>1, <3>1, QuienCorre
      <3> QED
        BY <1>1, <1>3, <3>2, AlMandar, ClasesDeMensajes DEF Enviado
    <2> QED
      BY <2>1, <2>2
  <1> QED
    BY <1>2, <1>3 DEF CargaDeNuevo, EnCarga, Preparando, Elegido, Pidio, EnNuevos, EnListos

(* "ejecutar" makes the dummy of a new process ready. *)
LEMMA CargaConsola ==
    ASSUME Base, CarrerasInductivo, CargaDeNuevo, "finalizar" \notin Comandos, Consola, UNCHANGED cpu
    PROVE  CargaDeNuevo'
  <1>1. TipoInductivo /\ ColasInductivo
    BY DEF Base
  <1>2. UNCHANGED <<aCPU, pedidos, deDAM, procesoEnEjecucion, pcp>>
    BY DEF Consola, Ejecutar, EjecutarSinCPU, StatusColasCae, StatusProceso, StatusCae, Caer, hilos, red
  <1>3. \A j \in Ids : (Pidio(j, {1})' => Pidio(j, {1})) /\ (Enviado(j)' => Enviado(j)) /\ (Elegido(j)' => Elegido(j))
    BY <1>2 DEF Pidio, Enviado, Elegido
  <1>4. CASE UNCHANGED <<procesos_nuevos, procesos_listos>>
    BY <1>3, <1>4 DEF CargaDeNuevo, EnCarga, Preparando, EnNuevos, EnListos
  <1>5. ASSUME NEW e \in Escriptorios, Ejecutar(e) PROVE CargaDeNuevo'
    <2>1. EnNuevos \subseteq EnNuevos'
      BY <1>1, <1>5, EjecutarColas
    <2>2. PICK i : Real(i) \in EnNuevos' /\ (EnListos' = EnListos \/ EnListos' = EnListos \cup {Dummy(i)})
      BY <1>1, <1>5, EjecutarColas
    <2> QED
      BY <1>3, <2>1, <2>2, LosDosObjetos DEF CargaDeNuevo, EnCarga, Preparando
  <1>6. EjecutarSinCPU \/ StatusColasCae \/ (\E i \in Ids : StatusProceso(i) \/ StatusCae(i))
          => UNCHANGED <<procesos_nuevos, procesos_listos>>
    BY DEF EjecutarSinCPU, StatusColasCae, StatusProceso, StatusCae, Caer, colas
  <1> QED
    BY <1>4, <1>5, <1>6 DEF Consola

(* A CPU asks for the load of the process whose dummy it takes, and of no other. *)
LEMMA CargaCPU ==
    ASSUME Base, CarrerasInductivo, CargaDeNuevo, SinAbrir, ConUno = {}, NEW c \in CPUs, NextCPU(c), UNCHANGED safa
    PROVE  CargaDeNuevo'
  <1>1. /\ TypeOK /\ TipoInductivo /\ ConDTB /\ MenosEnCPUs /\ deDAM' = deDAM
    BY CPUToma, CPUHace DEF Base, TipoInductivo
  <1>2. UNCHANGED <<EnNuevos, EnListos>> /\ UNCHANGED <<procesoEnEjecucion, pcp>>
    BY DEF safa, colas, hilos, EnNuevos, EnListos
  <1>3. \/ pedidos' = pedidos \/ RecibirDummy(c) \/ Pedir(c, 1, 0)
        \/ \E op \in Bloqueantes : (\E ops : Parsear(c, ops)) /\ Pedir(c, op, DTB[c].proceso.id)
    <2>1. ~Parsear(c, {"abrir"})
      <3> SUFFICES ASSUME Parsear(c, {"abrir"}) PROVE FALSE
        OBVIOUS
      <3>1. \E e \in Escriptorios : \E k \in DOMAIN Codigo[e] : Sentencia(c) = Codigo[e][k]
        BY <1>1, SentenciaDelEscriptorio
      <3> QED
        BY <3>1 DEF SinAbrir, Parsear
    <2>2. CASE CrearBorrar(c) \/ Flush(c)
      BY <2>2 DEF CrearBorrar, Flush, Bloqueantes
    <2>3. CASE RecibirBasura(c)
      BY <2>3 DEF RecibirBasura
    <2>4. CASE \/ AvisarDummy(c) \/ RecibirReal(c) \/ IgnorarProceso(c) \/ PedirSinScript(c)
               \/ PedirPasadoElFin(c) \/ PedirSinFM9(c) \/ FinDelEscriptorio(c) \/ Concentrar(c)
               \/ SinAviso(c) \/ WaitSignal(c) \/ AvisarBloqueo(c) \/ Asignar(c)
               \/ FlushCloseSinNombre(c) \/ FlushCloseNoAbierto(c) \/ Close(c)
      BY <2>4 DEF AvisarDummy, RecibirReal, IgnorarProceso, PedirSinScript, PedirPasadoElFin,
         PedirSinFM9, FinDelEscriptorio, Concentrar, SinAviso, WaitSignal, AvisarBloqueo, Asignar,
         FlushCloseSinNombre, FlushCloseNoAbierto, Close
    <2> QED
      BY <2>1, <2>2, <2>3, <2>4 DEF NextCPU, Abrir
  <1>4. ASSUME NEW j \in Ids, EnCarga(j)' PROVE EnCarga(j)
    <2>1. Pidio(j, {1})' => Pidio(j, {1}) \/ Enviado(j)
      <3>1. CASE pedidos' = pedidos
        BY <1>1, <3>1 DEF Pidio
      <3>2. CASE Pedir(c, 1, 0)
        <4>1. 0 \in Ids \cup {0} /\ j # 0 /\ 1 \in {1, 6, 8, 9}
          BY DEF Ids
        <4> QED
          BY <1>1, <3>2, <4>1, AlPedir
      <3>3. ASSUME NEW op \in Bloqueantes, NEW ops, Parsear(c, ops), Pedir(c, op, DTB[c].proceso.id)
            PROVE  Pidio(j, {1})' => Pidio(j, {1})
        <4>1. DTB[c].proceso.id \in Ids \cup {0} /\ op \in {1, 6, 8, 9} /\ op \notin {1}
          BY <1>1, <3>3, ParsearTipo DEF Bloqueantes
        <4> QED
          BY <1>1, <3>3, <4>1, AlPedir
      <3>4. CASE RecibirDummy(c)
        <4> DEFINE m == Head(aCPU[c])
        <4>1. /\ aCPU \in [CPUs -> Seq(Mensajes)] /\ aCPU[c] # <<>> /\ m # Orden
              /\ m.proceso.flagInicializacion = 0 /\ Pedir(c, 1, m.proceso.id)
          BY <1>1, <3>4, TiposDeRed DEF RecibirDummy, RecibeProceso
        <4>2. m \in Dummies /\ \A V : m \in V => Hay(aCPU[c], V)
          BY <4>1, AlConsumir DEF Dummies
        <4>3. m.proceso.id \in Ids /\ m \in DeDummy(m.proceso.id)
          BY <4>2, ClasesDeMensajes
        <4> HIDE DEF m
        <4>4. Enviado(m.proceso.id)
          BY <4>2, <4>3 DEF Enviado
        <4>5. 1 \in {1, 6, 8, 9} /\ m.proceso.id \in Ids \cup {0}
          BY <4>3
        <4>6. Pidio(j, {1})' => Pidio(j, {1}) \/ m.proceso.id = j
          BY <1>1, <4>1, <4>5, AlPedir
        <4> QED
          BY <4>4, <4>6
      <3> QED
        BY <1>3, <3>1, <3>2, <3>3, <3>4
    <2>2. Enviado(j)' => Enviado(j)
      BY <1>1 DEF Enviado, MenosEnCPUs
    <2> QED
      BY <1>2, <1>4, <2>1, <2>2 DEF EnCarga, Preparando, Elegido
  <1> QED
    BY <1>2, <1>4 DEF CargaDeNuevo

LEMMA CargaDAM ==
    ASSUME Base, CarrerasInductivo, CargaDeNuevo, NEW c \in CPUs, NextDAM(c), UNCHANGED <<safa, cpu>>
    PROVE  CargaDeNuevo'
  <1>1. TypeOK /\ QuienPide
    BY DEF Base, TipoInductivo, CarrerasInductivo
  <1>2. PICK ops : Pedido(c, ops)
    BY DEF NextDAM, Atender, AtenderMuereMDJ, AtenderSinMDJ, AtenderAbrirSinFM9, AtenderFlush
  <1>3. pedidos[c] # <<>> /\ pedidos' = Consumir(pedidos, c) /\ aCPU' = aCPU
    BY <1>2 DEF Pedido
  <1>4. DAMMuere \/ RespuestaIlegible \/ \E resultado \in {0, 1} : Responder(c, resultado)
    BY DEF NextDAM, Atender, AtenderMuereMDJ, AtenderSinMDJ, AtenderAbrirSinFM9, AtenderFlush, SinRespuesta
  <1>5. deDAM' = deDAM \/ \E resultado \in {0, 1} : deDAM' = Append(deDAM, Contestado(c, resultado))
    BY <1>4 DEF DAMMuere, RespuestaIlegible, Responder
  <1>6. MenosPedidos
    BY <1>1, <1>3, <1>5, PedidoAtendido
  <1>7. UNCHANGED <<procesos_nuevos, procesos_listos, procesoEnEjecucion, pcp>>
    BY DEF safa, colas, hilos
  <1> QED
    BY <1>3, <1>6, <1>7 DEF MenosPedidos, CargaDeNuevo, EnCarga, Preparando, Enviado, Elegido, EnNuevos, EnListos

LEMMA PasoCargas ==
    ASSUME Base, CarrerasInductivo, CargaDeNuevo, SinAbrir, ConUno = {}, "finalizar" \notin Comandos, [Next]_vars
    PROVE  CargaDeNuevo'
  <1>1. CASE vars' = vars
    BY <1>1 DEF vars, safa, colas, hilos, red, CargaDeNuevo, EnCarga, Preparando, Enviado, Elegido, Pidio, EnNuevos, EnListos
  <1>2. CASE Next
    <2>1. \A accion : PasoSAFA(accion) => accion /\ UNCHANGED cpu
      BY DEF PasoSAFA
    <2>2. ASSUME NEW c \in CPUs, PasoCPU(c) PROVE CargaDeNuevo'
      BY <2>2, CargaCPU DEF PasoCPU
    <2>3. ASSUME NEW c \in CPUs, PasoDAM(c) PROVE CargaDeNuevo'
      BY <2>3, CargaDAM DEF PasoDAM
    <2> QED
      BY <1>2, <2>1, <2>2, <2>3, CargaConsola, CargaPCP, CargaEjecutarProceso, CargaConexionDAM, CargaConexionCPU DEF Next
  <1> QED
    BY <1>1, <1>2

(* the pieces of a load, one by one *)
LEMMA LasCargas ==
    ASSUME Base, CarrerasInductivo, CargaDeNuevo, NEW i \in Ids
    PROVE  /\ Cargas(i) # {} => EnCarga(i)
           /\ \A x, y \in Cargas(i) : x = y
  <1>1. /\ TypeOK /\ ColasInductivo /\ QuienPide /\ CargaSola /\ Preparacion
        /\ \A c \in CPUs : aCPU[c] \in Seq(Mensajes)
    BY TiposDeRed DEF Base, TipoInductivo, CarrerasInductivo
  <1> DEFINE Lista(x) == \E k \in DOMAIN procesos_listos : x = <<"lista", k>> /\ procesos_listos[k] = Dummy(i)
             Elegida(x) == x = <<"elegida">> /\ Elegido(i)
             Enviada(x) == \E c \in CPUs : \E k \in DOMAIN aCPU[c] : x = <<"enviada", c, k>> /\ aCPU[c][k] \in DeDummy(i)
             Pedida(x) == x \in Pedidos(i, {1})
  <1>2. ASSUME NEW c \in CPUs, NEW k \in Envia(aCPU[c], Dummy(i))
        PROVE  k \in DOMAIN aCPU[c] /\ aCPU[c][k] \in DeDummy(i)
    <2>1. k \in DOMAIN aCPU[c] /\ aCPU[c][k] # Orden /\ aCPU[c][k].proceso = Dummy(i)
      BY <1>2 DEF Envia
    <2>2. aCPU[c][k] \in Mensajes
      BY <1>1, <2>1, ElementOfSeq, LenProperties
    <2> QED
      BY <2>1, <2>2, LosDosObjetos DEF DeDummy, Dummies
  <1>3. ASSUME NEW x \in Cargas(i) PROVE Lista(x) \/ Elegida(x) \/ Enviada(x) \/ Pedida(x)
    <2>1. CASE x \in {<<"lista", k>> : k \in {n \in DOMAIN procesos_listos : procesos_listos[n] = Dummy(i)}}
      BY <2>1
    <2>2. CASE x \in {h \in {<<"elegida">>} : pcp = "enviar" /\ procesoEnEjecucion = Dummy(i)}
      BY <2>2 DEF Elegido
    <2>3. CASE x \in UNION {{<<"enviada", c, k>> : k \in Envia(aCPU[c], Dummy(i))} : c \in CPUs}
      <3>1. PICK c \in CPUs : x \in {<<"enviada", c, k>> : k \in Envia(aCPU[c], Dummy(i))}
        BY <2>3
      <3>2. PICK k \in Envia(aCPU[c], Dummy(i)) : x = <<"enviada", c, k>>
        BY <3>1
      <3> QED
        BY <1>2, <3>2
    <2>4. CASE x \in Pedidos(i, {1})
      BY <2>4
    <2> HIDE DEF Lista, Elegida, Enviada, Pedida
    <2> QED
      BY <1>3, <2>1, <2>2, <2>3, <2>4 DEF Cargas
  <1>4. \A x : (Lista(x) => Dummy(i) \in EnListos) /\ (Elegida(x) => Elegido(i)) /\ (Enviada(x) => Enviado(i))
               /\ (Pedida(x) => Pidio(i, {1}))
    <2>1. \A x : Lista(x) => Dummy(i) \in EnListos
      BY LosDosObjetos DEF EnListos, Elementos
    <2>2. \A x : Enviada(x) => Enviado(i)
      BY DEF Enviado, Hay
    <2>3. \A x : Pedida(x) => Pidio(i, {1})
      BY <1>1, LosPedidos
    <2> QED
      BY <2>1, <2>2, <2>3
  <1>5. Cargas(i) # {} => EnCarga(i)
    BY <1>3, <1>4 DEF EnCarga, Preparando
  <1>6. /\ ~(Dummy(i) \in EnListos /\ Elegido(i)) /\ (Enviado(i) => Dummy(i) \notin EnListos /\ ~Elegido(i))
        /\ Pidio(i, {1}) => ~Preparando(i) /\ Unico(i, {1})
    <2>1. Elegido(i) => Dummy(i) \in Corriendo
      BY LosDosObjetos DEF Elegido, Corriendo
    <2>2. EnListos \cap Corriendo = {}
      BY <1>1 DEF ColasInductivo, Separados
    <2>3. Pidio(i, {1}) => Real(i) \in EnNuevos
      BY DEF CargaDeNuevo, EnCarga
    <2> QED
      BY <1>1, <2>1, <2>2, <2>3 DEF Preparacion, CargaSola
  <1>7. \A x, y : Lista(x) /\ Lista(y) => x = y
    <2>1. SinRepetir(procesos_listos)
      BY <1>1 DEF ColasInductivo, UnaVez
    <2> QED
      BY <2>1, LosDosObjetos DEF SinRepetir
  <1>8. \A x, y : Enviada(x) /\ Enviada(y) => x = y
    <2> SUFFICES ASSUME NEW c \in CPUs, NEW k \in DOMAIN aCPU[c], NEW d \in CPUs, NEW m \in DOMAIN aCPU[d],
                        aCPU[c][k] \in DeDummy(i), aCPU[d][m] \in DeDummy(i)
                 PROVE  c = d /\ k = m
      OBVIOUS
    <2>1. Suya(c, i) /\ Suya(d, i) /\ AlMasUno(aCPU[c], DeDummy(i))
      BY <1>1 DEF Preparacion, Hay
    <2> QED
      BY <2>1 DEF Suya, AlMasUno
  <1>9. \A x, y : Pedida(x) /\ Pedida(y) => x = y
    BY <1>1, <1>4, <1>6, LosPedidos
  <1>10. \A x, y : Elegida(x) /\ Elegida(y) => x = y
    OBVIOUS
  <1> HIDE DEF Lista, Elegida, Enviada, Pedida
  <1>11. ASSUME NEW x \in Cargas(i), NEW y \in Cargas(i) PROVE x = y
    BY <1>3, <1>4, <1>6, <1>7, <1>8, <1>9, <1>10 DEF Preparando
  <1> QED
    BY <1>5, <1>11

LEMMA CarrerasCargaUnica ==
    ASSUME Base, CarrerasInductivo, CargaDeNuevo
    PROVE  CargaUnica
  <1>1. TipoInductivo /\ ColasInductivo /\ SoloLlamados /\ MaxProcesos \in Nat /\ Len(dtb) <= MaxProcesos /\ Len(dtb) \in Nat
    BY RedAssumption, LugaresDeCreados DEF Base, TipoInductivo, TypeOK, SAFATypeOK
  <1>2. ASSUME NEW i \in 1 .. Len(dtb)
        PROVE  /\ Cardinality(Cargas(i)) <= 1
               /\ Cargas(i) # {} => Tiene(procesos_nuevos, i) /\ dtb[i].seEstaCargando = 1
    <2>1. i \in Ids
      BY <1>1 DEF Ids
    <2>2. Cardinality(Cargas(i)) <= 1
      BY <2>1, LasCargas, AlMasUnElemento
    <2>3. ASSUME Cargas(i) # {} PROVE Tiene(procesos_nuevos, i) /\ dtb[i].seEstaCargando = 1
      <3>1. EnCarga(i) /\ Real(i) \in EnNuevos
        BY <2>1, <2>3, LasCargas DEF CargaDeNuevo
      <3>2. Tiene(procesos_nuevos, i)
        BY <2>1, <3>1, LosDosObjetos DEF EnNuevos, Elementos, Tiene, Posiciones
      <3>3. CASE Dummy(i) \in EnListos \cup Corriendo
        BY <1>1, <2>1, <3>1, <3>2, <3>3, LosDosObjetos DEF ColasInductivo, SinCarga
      <3>4. CASE Enviado(i) \/ Pidio(i, {1})
        <4>1. i \in Llamados
          BY <1>1, <2>1, <3>4, NoLlamado
        <4> QED
          BY <3>1, <3>2, <4>1 DEF Llamados
      <3>5. Elegido(i) => Dummy(i) \in Corriendo
        BY <2>1, LosDosObjetos DEF Elegido, Corriendo
      <3> QED
        BY <3>1, <3>2, <3>3, <3>4, <3>5 DEF EnCarga, Preparando
    <2> QED
      BY <2>2, <2>3
  <1> QED
    BY <1>2 DEF CargaUnica

(* In the runs without the two races, a process is loaded once, however many         *)
(* processes, CPUs and words of the operator there are: the long-term planner does    *)
(* not make a second dummy of a process whose first one is ready, on its way, asked   *)
(* for or answered, and the answer always finds its process among the new ones.       *)
THEOREM UnaCargaPorProceso ==
    ASSUME SinCrear, SinAbrir, ConUno = {}, "finalizar" \notin Comandos
    PROVE  Spec /\ SinCarreras => []CargaUnica
  <1>1. Init => Base /\ CarrerasInductivo
    BY Inicio, ColasAlInicio, SentenciasAlInicio, LlamadosAlInicio, CarrerasAlInicio DEF Base
  <1>2. Init => CargaDeNuevo
    <2> SUFFICES ASSUME Init, NEW j \in Ids PROVE ~EnCarga(j)
      BY DEF CargaDeNuevo
    <2>1. /\ \A c \in CPUs : aCPU[c] = <<>> /\ pedidos[c] = <<>>
          /\ deDAM = <<>> /\ pcp = "espera" /\ EnListos = {}
      BY NadieEnVacia DEF Init, InitRed, InitSAFA, EnListos
    <2> QED
      BY <2>1, NadaEnVacia DEF EnCarga, Preparando, Enviado, Elegido, Pidio
  <1>3. Base /\ [Next]_vars => Base'
    BY PasoBase
  <1>4. Base /\ Base' /\ CarrerasInductivo /\ [Next]_vars /\ [DespachoLibre /\ OrdenTrasDespacho]_vars => CarrerasInductivo'
    BY PasoCarreras
  <1>5. Base /\ CarrerasInductivo /\ CargaDeNuevo /\ [Next]_vars => CargaDeNuevo'
    BY PasoCargas
  <1>6. Base /\ CarrerasInductivo /\ CargaDeNuevo => CargaUnica
    BY CarrerasCargaUnica
  <1> QED
    BY <1>1, <1>2, <1>3, <1>4, <1>5, <1>6, PTL DEF Spec, SinCarreras
==================================================================================
