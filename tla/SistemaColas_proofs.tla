--------------------------- MODULE SistemaColas_proofs ---------------------------
(* Proofs about the queues of S-AFA: a process is in one place, its state says   *)
(* which, the ready queue is first in, first out, and every process lives the     *)
(* life that CicloDeVida describes.                                                *)
EXTENDS Sistema_proofs

--------------------------------------------------------------------------------
(* Queues as sets.  NULL, which may be queued as finished many times, is nobody. *)

Elementos(s) == {s[k] : k \in DOMAIN s} \ {Nada}
SinRepetir(s) == \A k, m \in DOMAIN s : s[k] = s[m] /\ s[k] # Nada => k = m

LEMMA NadieEnVacia == Elementos(<<>>) = {} /\ SinRepetir(<<>>)
  <1>1. DOMAIN <<>> = {}
    OBVIOUS
  <1> QED
    BY <1>1 DEF Elementos, SinRepetir

(* list_add *)
LEMMA AlFinal ==
    ASSUME NEW S, NEW s \in Seq(S), NEW e \in S
    PROVE  /\ Elementos(Append(s, e)) = Elementos(s) \cup ({e} \ {Nada})
           /\ SinRepetir(s) /\ e \notin Elementos(s) => SinRepetir(Append(s, e))
  <1> DEFINE n == Len(s)
             t == Append(s, e)
  <1>1. /\ n \in Nat /\ DOMAIN s = 1 .. n /\ DOMAIN t = 1 .. (n + 1)
        /\ (\A k \in 1 .. n : t[k] = s[k]) /\ t[n + 1] = e
    BY LenProperties, AppendProperties
  <1> HIDE DEF n, t
  <1>2. Elementos(t) = Elementos(s) \cup ({e} \ {Nada})
    <2>1. {t[k] : k \in 1 .. (n + 1)} = {s[k] : k \in 1 .. n} \cup {e}
      <3>1. 1 .. (n + 1) = (1 .. n) \cup {n + 1}
        BY <1>1
      <3> QED
        BY <1>1, <3>1
    <2> QED
      BY <1>1, <2>1 DEF Elementos
  <1>3. ASSUME SinRepetir(s), e \notin Elementos(s) PROVE SinRepetir(t)
    <2> SUFFICES ASSUME NEW k \in 1 .. (n + 1), NEW m \in 1 .. (n + 1), t[k] = t[m], t[k] # Nada
                 PROVE  k = m
      BY <1>1 DEF SinRepetir
    <2>1. \A j \in 1 .. n : t[j] # Nada => t[j] \in Elementos(s)
      BY <1>1 DEF Elementos
    <2>2. CASE k \in 1 .. n /\ m \in 1 .. n
      BY <1>1, <1>3, <2>2 DEF SinRepetir
    <2>3. CASE k = n + 1 \/ m = n + 1
      BY <1>1, <1>3, <2>1, <2>3
    <2> QED
      BY <1>1, <2>2, <2>3
  <1> QED
    BY <1>2, <1>3 DEF t

(* list_remove(lista, 0) *)
LEMMA ElPrimero ==
    ASSUME NEW S, NEW s \in Seq(S), s # <<>>, Nada \notin S, SinRepetir(s)
    PROVE  /\ Head(s) \in Elementos(s) /\ Head(s) \in S
           /\ Elementos(Tail(s)) = Elementos(s) \ {Head(s)}
           /\ SinRepetir(Tail(s))
  <1> DEFINE n == Len(s)
             t == Tail(s)
  <1>1. n \in Nat /\ n # 0 /\ DOMAIN s = 1 .. n /\ Head(s) = s[1] /\ \A k \in 1 .. n : s[k] \in S
    BY LenProperties, EmptySeq, ElementOfSeq
  <1>2. t \in Seq(S) /\ Len(t) = n - 1 /\ \A k \in 1 .. (n - 1) : t[k] = s[k + 1]
    BY HeadTailProperties
  <1>3. DOMAIN t = 1 .. (n - 1)
    BY <1>2, LenProperties
  <1> HIDE DEF n, t
  <1>4. \A k \in 1 .. (n - 1) : k + 1 \in 1 .. n /\ k + 1 # 1
    BY <1>1
  <1>5. \A k \in 1 .. n : k # 1 => k - 1 \in 1 .. (n - 1) /\ k = (k - 1) + 1
    BY <1>1
  <1>6. Head(s) \in Elementos(s)
    BY <1>1 DEF Elementos
  <1>7. Elementos(t) = Elementos(s) \ {s[1]}
    <2>1. \A x \in Elementos(t) : x \in Elementos(s) /\ x # s[1]
      BY <1>1, <1>2, <1>3, <1>4, SMTT(30) DEF Elementos, SinRepetir
    <2>2. \A x \in Elementos(s) : x # s[1] => x \in Elementos(t)
      <3> SUFFICES ASSUME NEW k \in 1 .. n, s[k] # s[1], s[k] # Nada PROVE s[k] \in Elementos(t)
        BY <1>1 DEF Elementos
      <3>1. k - 1 \in DOMAIN t /\ t[k - 1] = s[k]
        BY <1>2, <1>3, <1>5
      <3> QED
        BY <3>1 DEF Elementos
    <2> QED
      BY <2>1, <2>2
  <1>8. SinRepetir(t)
    <2> SUFFICES ASSUME NEW k \in 1 .. (n - 1), NEW m \in 1 .. (n - 1), t[k] = t[m], t[k] # Nada
                 PROVE  k = m
      BY <1>3 DEF SinRepetir
    <2>1. k + 1 = m + 1
      BY <1>1, <1>2, <1>4 DEF SinRepetir
    <2> QED
      BY <2>1
  <1> QED
    BY <1>1, <1>6, <1>7, <1>8 DEF t

(* list_remove_by_condition *)
LEMMA ElDeEseId ==
    ASSUME NEW S, NEW s \in Seq(S), NEW i, Nada \notin S, SinRepetir(s)
    PROVE  /\ SinRepetir(Sin(s, i)) /\ Elementos(Sin(s, i)) \subseteq Elementos(s)
           /\ Tiene(s, i) =>
                /\ s[Primera(s, i)] \in Elementos(s) /\ s[Primera(s, i)] \in S /\ s[Primera(s, i)].id = i
                /\ Elementos(Sin(s, i)) = Elementos(s) \ {s[Primera(s, i)]}
           /\ ~Tiene(s, i) => Sin(s, i) = s
  <1>1. CASE Tiene(s, i)
    <2> DEFINE n == Len(s)
               j == Primera(s, i)
               f(k) == IF k < j THEN k ELSE k + 1
               t == [k \in 1 .. (n - 1) |-> s[f(k)]]
    <2>1. n \in Nat /\ DOMAIN s = 1 .. n /\ (\A k \in 1 .. n : s[k] \in S)
          /\ j \in 1 .. n /\ s[j] \in S /\ s[j].id = i
      BY <1>1, PrimeraEsta, LenProperties, ElementOfSeq
    <2>2. Sin(s, i) = t
      BY <1>1 DEF Sin
    <2> HIDE DEF n, j
    <2>3. \A k \in 1 .. (n - 1) : f(k) \in 1 .. n /\ f(k) # j
      BY <2>1
    <2>4. \A k, m \in 1 .. (n - 1) : f(k) = f(m) => k = m
      BY <2>1
    <2>5. \A m \in 1 .. n : m # j => \E k \in 1 .. (n - 1) : f(k) = m
      <3> SUFFICES ASSUME NEW m \in 1 .. n, m # j PROVE \E k \in 1 .. (n - 1) : f(k) = m
        OBVIOUS
      <3>1. CASE m < j
        <4>1. m \in 1 .. (n - 1) /\ f(m) = m
          BY <2>1, <3>1
        <4> QED
          BY <4>1
      <3>2. CASE ~(m < j)
        <4>1. m - 1 \in 1 .. (n - 1) /\ f(m - 1) = m
          BY <2>1, <3>2
        <4> QED
          BY <4>1
      <3> QED
        BY <3>1, <3>2
    <2>6. DOMAIN t = 1 .. (n - 1) /\ \A k \in 1 .. (n - 1) : t[k] = s[f(k)]
      OBVIOUS
    <2> HIDE DEF f, t
    <2>7. SinRepetir(t)
      BY <2>1, <2>3, <2>4, <2>6 DEF SinRepetir
    <2>8. Elementos(t) = Elementos(s) \ {s[j]}
      <3>1. \A x \in Elementos(t) : x \in Elementos(s) /\ x # s[j]
        BY <2>1, <2>3, <2>6 DEF Elementos, SinRepetir
      <3>2. \A m \in 1 .. n : s[m] # s[j] /\ s[m] # Nada => s[m] \in Elementos(t)
        BY <2>5, <2>6 DEF Elementos
      <3>3. \A x \in Elementos(s) : x # s[j] => x \in Elementos(t)
        BY <2>1, <3>2 DEF Elementos
      <3> QED
        BY <3>1, <3>3
    <2>9. s[j] \in Elementos(s)
      BY <2>1 DEF Elementos
    <2> QED
      BY <1>1, <2>1, <2>2, <2>7, <2>8, <2>9 DEF j
  <1>2. CASE ~Tiene(s, i)
    BY <1>2 DEF Sin
  <1> QED
    BY <1>1, <1>2
--------------------------------------------------------------------------------
(* The five places a process may be in, and the inductive invariant: nobody is in *)
(* two of them; a new process that is not being loaded has no dummy anywhere; the *)
(* state of an object is that of its place; nobody has run an object not created. *)

DeTerminados(s) == [k \in DOMAIN s |-> DeTerminado(s[k])]
Acabados == DeTerminados(procesos_terminados)

EnNuevos == Elementos(procesos_nuevos)
EnListos == Elementos(procesos_listos)
EnBloqueados == Elementos(procesos_bloqueados)
EnTerminados == Elementos(Acabados)
Corriendo == {procesoEnEjecucion} \ {Nada}

UnaVez ==
    /\ SinRepetir(procesos_nuevos) /\ SinRepetir(procesos_listos)
    /\ SinRepetir(procesos_bloqueados) /\ SinRepetir(Acabados)
Separados ==
    /\ EnNuevos \cap (EnListos \cup EnBloqueados \cup EnTerminados \cup Corriendo) = {}
    /\ EnListos \cap (EnBloqueados \cup EnTerminados \cup Corriendo) = {}
    /\ EnBloqueados \cap (EnTerminados \cup Corriendo) = {}
    /\ EnTerminados \cap Corriendo = {}
SinCarga ==
    \A p \in EnNuevos :
        /\ p = Real(p.id)
        /\ dtb[p.id].seEstaCargando # 1 =>
              Dummy(p.id) \notin EnListos \cup EnBloqueados \cup EnTerminados \cup Corriendo
EstadoDeSuLugar ==
    /\ \A p \in Corriendo : estado[p] = "ejecucion"
    /\ \A p \in EnBloqueados : estado[p] = "bloqueado"
    /\ \A p \in EnNuevos : estado[p] = "nuevo"
    /\ \A p \in Objetos : p.id > Len(dtb) => estado[p] = "nuevo"

ColasInductivo ==
    /\ UnaVez /\ Separados /\ SinCarga /\ EstadoDeSuLugar
    /\ EnTerminados \subseteq Creados(Len(dtb))

(* what the types say of the five places *)
LEMMA LugaresDeCreados ==
    ASSUME TipoInductivo
    PROVE  /\ EnNuevos \subseteq Creados(Len(dtb)) /\ EnListos \subseteq Creados(Len(dtb))
           /\ EnBloqueados \subseteq Creados(Len(dtb)) /\ Corriendo \subseteq Creados(Len(dtb))
           /\ Len(dtb) \in Nat /\ Creados(Len(dtb)) \subseteq Objetos /\ Nada \notin Creados(Len(dtb))
           /\ procesos_nuevos \in Seq(Creados(Len(dtb))) /\ procesos_listos \in Seq(Creados(Len(dtb)))
           /\ procesos_bloqueados \in Seq(Creados(Len(dtb)))
           /\ estado \in [Objetos -> {"nuevo", "listo", "ejecucion", "bloqueado", "finalizado"}]
           /\ procesos_terminados \in Seq(Terminados)
  <1>1. SAFATypeOK /\ Creacion
    BY DEF TipoInductivo, TypeOK
  <1>2. Len(dtb) \in Nat /\ Creados(Len(dtb)) \subseteq Objetos /\ Nada \notin Creados(Len(dtb))
    BY <1>1, CreacionObjetos, CreadosObjetos
  <1> DEFINE C == Creados(Len(dtb))
  <1>3. procesos_nuevos \in Seq(C) /\ procesos_listos \in Seq(C) /\ procesos_bloqueados \in Seq(C)
        /\ procesoEnEjecucion \in C \cup {Nada}
    BY <1>1 DEF Creacion
  <1>4. ASSUME NEW s \in Seq(C) PROVE Elementos(s) \subseteq C
    <2>1. \A k \in DOMAIN s : s[k] \in C
      BY LenProperties, ElementOfSeq
    <2> QED
      BY <2>1 DEF Elementos
  <1> HIDE DEF C
  <1>5. EnNuevos \subseteq C /\ EnListos \subseteq C /\ EnBloqueados \subseteq C /\ Corriendo \subseteq C
    BY <1>3, <1>4 DEF EnNuevos, EnListos, EnBloqueados, Corriendo
  <1> QED
    BY <1>1, <1>2, <1>3, <1>5 DEF SAFATypeOK, C

(* An entry of procesos_terminados is a process, a blocked one or NULL. *)
LEMMA DeTerminadoEs ==
    /\ \A p \in Objetos : p \in Terminados /\ DeTerminado(p) = p
    /\ \A p \in Objetos : Envoltorio(p) \in Terminados /\ DeTerminado(Envoltorio(p)) = p
    /\ Nada \in Terminados /\ DeTerminado(Nada) = Nada
    /\ \A t \in Terminados : DeTerminado(t) \in Objetos \cup {Nada}
  <1>1. \A p, q \in Objetos : p # Envoltorio(q)
    <2> SUFFICES ASSUME NEW p \in Objetos, NEW q \in Objetos, p = Envoltorio(q) PROVE FALSE
      OBVIOUS
    <2>1. DOMAIN p = {"id", "flagInicializacion"} /\ DOMAIN Envoltorio(q) = {"proceso"}
      BY DEF Objetos, Envoltorio
    <2>2. "id" # "proceso"
      OBVIOUS
    <2> QED
      BY <2>1, <2>2
  <1>2. Ids \subseteq Nat
    BY DEF Ids
  <1>3. \A p \in Objetos : Envoltorio(p) # Nada
    <2> DEFINE R == [id : Nat, flagInicializacion : {0, 1}]
    <2>1. Objetos \subseteq R
      BY <1>2 DEF Objetos
    <2>2. Nada \notin [proceso : R]
      BY RedAssumption
    <2> HIDE DEF R
    <2>3. \A p \in Objetos : Envoltorio(p) \in [proceso : R]
      BY <2>1 DEF Envoltorio
    <2> QED
      BY <2>2, <2>3
  <1>4. \A p \in Objetos : Envoltorio(p).proceso = p
    BY DEF Envoltorio
  <1>5. \A p \in Objetos : p \in Terminados /\ DeTerminado(p) = p
    BY <1>1 DEF Terminados, ProcesosBloqueados, DeTerminado
  <1>6. \A p \in Objetos : Envoltorio(p) \in Terminados /\ DeTerminado(Envoltorio(p)) = p
    BY <1>4 DEF Terminados, ProcesosBloqueados, DeTerminado
  <1>7. Nada \in Terminados /\ DeTerminado(Nada) = Nada
    BY <1>3 DEF Terminados, ProcesosBloqueados, DeTerminado
  <1>8. \A t \in Terminados : t \in Objetos \/ t = Nada \/ \E p \in Objetos : t = Envoltorio(p)
    BY DEF Terminados, ProcesosBloqueados
  <1> QED
    BY <1>5, <1>6, <1>7, <1>8

LEMMA DeTerminadosTipo ==
    ASSUME NEW s \in Seq(Terminados)
    PROVE  DeTerminados(s) \in Seq(Objetos \cup {Nada}) /\ Len(DeTerminados(s)) = Len(s)
  <1> DEFINE n == Len(s)
             a == DeTerminados(s)
             S == Objetos \cup {Nada}
  <1>1. n \in Nat /\ DOMAIN s = 1 .. n /\ \A k \in 1 .. n : s[k] \in Terminados
    BY LenProperties, ElementOfSeq
  <1>2. a = [k \in 1 .. n |-> DeTerminado(s[k])] /\ \A k \in 1 .. n : DeTerminado(s[k]) \in S
    BY <1>1, DeTerminadoEs DEF DeTerminados
  <1> HIDE DEF a, S, n
  <1>3. a \in Seq(S) /\ Len(a) = n
    BY <1>1, <1>2
  <1> QED
    BY <1>3 DEF a, S, n

LEMMA UnoMasTerminado ==
    ASSUME NEW s \in Seq(Terminados), NEW t \in Terminados
    PROVE  DeTerminados(Append(s, t)) = Append(DeTerminados(s), DeTerminado(t))
  <1> DEFINE n == Len(s)
             r == Append(s, t)
             a == DeTerminados(s)
             b == DeTerminados(r)
             e == DeTerminado(t)
             S == Objetos \cup {Nada}
  <1>1. /\ n \in Nat /\ DOMAIN s = 1 .. n /\ r \in Seq(Terminados) /\ Len(r) = n + 1
        /\ (\A k \in 1 .. n : r[k] = s[k]) /\ r[n + 1] = t
    BY LenProperties, AppendProperties
  <1>2. a \in Seq(S) /\ Len(a) = n /\ (\A k \in 1 .. n : a[k] = DeTerminado(s[k])) /\ e \in S
    BY <1>1, DeTerminadosTipo, DeTerminadoEs DEF DeTerminados
  <1>3. b \in Seq(S) /\ Len(b) = n + 1
    BY <1>1, DeTerminadosTipo
  <1>4. \A k \in 1 .. (n + 1) : b[k] = IF k = n + 1 THEN e ELSE a[k]
    <2>1. DOMAIN r = 1 .. (n + 1)
      BY <1>1, LenProperties
    <2>2. \A k \in 1 .. (n + 1) : b[k] = DeTerminado(r[k])
      BY <2>1 DEF DeTerminados
    <2> QED
      BY <1>1, <1>2, <2>2
  <1> HIDE DEF a, b, e, S, n
  <1>5. /\ Append(a, e) \in Seq(S) /\ Len(Append(a, e)) = n + 1
        /\ \A k \in 1 .. (n + 1) : Append(a, e)[k] = b[k]
    <2>1. Append(a, e) \in Seq(S) /\ Len(Append(a, e)) = n + 1 /\ Append(a, e)[n + 1] = e
          /\ \A k \in 1 .. n : Append(a, e)[k] = a[k]
      BY <1>2, AppendProperties
    <2> QED
      BY <1>1, <1>4, <2>1
  <1>6. b = Append(a, e)
    BY <1>3, <1>5, SeqEqual
  <1> QED
    BY <1>6 DEF a, b, e

(* What one more entry of procesos_terminados does. *)
LEMMA TerminaUno ==
    ASSUME NEW s \in Seq(Terminados), NEW t \in Terminados, SinRepetir(DeTerminados(s)),
           DeTerminado(t) \notin Elementos(DeTerminados(s))
    PROVE  /\ Append(s, t) \in Seq(Terminados) /\ SinRepetir(DeTerminados(Append(s, t)))
           /\ Elementos(DeTerminados(Append(s, t))) = Elementos(DeTerminados(s)) \cup ({DeTerminado(t)} \ {Nada})
  <1>1. DeTerminados(s) \in Seq(Objetos \cup {Nada}) /\ DeTerminado(t) \in Objetos \cup {Nada}
    BY DeTerminadosTipo, DeTerminadoEs
  <1>2. DeTerminados(Append(s, t)) = Append(DeTerminados(s), DeTerminado(t))
    BY UnoMasTerminado
  <1> QED
    BY <1>1, <1>2, AlFinal, AppendProperties

(* A step that moves nobody. *)
LEMMA NadieSeMueve ==
    ASSUME ColasInductivo, UNCHANGED <<procesos_nuevos, procesos_listos, procesos_bloqueados,
                                       procesos_terminados, procesoEnEjecucion, dtb, estado>>
    PROVE  ColasInductivo'
  BY DEF ColasInductivo, UnaVez, Separados, SinCarga, EstadoDeSuLugar, EnNuevos, EnListos, EnBloqueados,
         EnTerminados, Corriendo, Acabados

LEMMA ColasAlInicio == Init => ColasInductivo
  <1> SUFFICES ASSUME Init PROVE ColasInductivo
    OBVIOUS
  <1>1. /\ procesos_nuevos = <<>> /\ procesos_listos = <<>> /\ procesos_bloqueados = <<>>
        /\ procesos_terminados = <<>> /\ procesoEnEjecucion = Nada /\ estado = [p \in Objetos |-> "nuevo"]
    BY DEF Init, InitSAFA
  <1>2. Acabados = <<>>
    BY <1>1 DEF Acabados, DeTerminados
  <1>3. EnNuevos = {} /\ EnListos = {} /\ EnBloqueados = {} /\ EnTerminados = {} /\ Corriendo = {} /\ UnaVez
    BY <1>1, <1>2, NadieEnVacia DEF EnNuevos, EnListos, EnBloqueados, EnTerminados, Corriendo, UnaVez
  <1> QED
    BY <1>1, <1>3 DEF ColasInductivo, Separados, SinCarga, EstadoDeSuLugar

--------------------------------------------------------------------------------
(* The running process leaves *)

(* it goes behind the ready ones, the blocked ones or the finished ones, or nowhere *)
LEMMA ElQueCorreSeVa ==
    ASSUME TipoInductivo, ColasInductivo, procesoEnEjecucion # Nada, Desocupar,
           NEW e, CambiarEstado(e), procesos_nuevos' = procesos_nuevos, dtb' = dtb,
           \/ /\ UNCHANGED <<procesos_bloqueados, procesos_terminados>>
              /\ procesos_listos' \in {procesos_listos, Append(procesos_listos, procesoEnEjecucion)}
           \/ /\ UNCHANGED <<procesos_listos, procesos_terminados>> /\ e = "bloqueado"
              /\ procesos_bloqueados' = Append(procesos_bloqueados, procesoEnEjecucion)
           \/ /\ UNCHANGED <<procesos_listos, procesos_bloqueados>>
              /\ procesos_terminados' = Append(procesos_terminados, procesoEnEjecucion)
    PROVE  /\ ColasInductivo'
           /\ procesoEnEjecucion \in Corriendo /\ Corriendo' = {} /\ EnNuevos' = EnNuevos
           /\ \/ /\ EnListos' \in {EnListos, EnListos \cup Corriendo}
                 /\ EnBloqueados' = EnBloqueados /\ EnTerminados' = EnTerminados
              \/ /\ EnListos' = EnListos /\ EnTerminados' = EnTerminados
                 /\ EnBloqueados' = EnBloqueados \cup Corriendo
              \/ /\ EnListos' = EnListos /\ EnBloqueados' = EnBloqueados
                 /\ EnTerminados' = EnTerminados \cup Corriendo
  <1> DEFINE p == procesoEnEjecucion
             C == Creados(Len(dtb))
  <1>1. /\ EnNuevos \subseteq C /\ EnListos \subseteq C /\ EnBloqueados \subseteq C /\ Corriendo \subseteq C
        /\ C \subseteq Objetos /\ Nada \notin C
        /\ procesos_listos \in Seq(C) /\ procesos_bloqueados \in Seq(C) /\ procesos_terminados \in Seq(Terminados)
        /\ estado \in [Objetos -> {"nuevo", "listo", "ejecucion", "bloqueado", "finalizado"}]
    BY LugaresDeCreados
  <1>2. UnaVez /\ Separados /\ SinCarga /\ EstadoDeSuLugar /\ EnTerminados \subseteq C
    BY DEF ColasInductivo
  <1>3. p \in Corriendo /\ Corriendo = {p} /\ p \in C /\ p # Nada
    BY <1>1 DEF Corriendo
  <1>4. Corriendo' = {} /\ estado' = [estado EXCEPT ![p] = e] /\ EnNuevos' = EnNuevos
    BY DEF Desocupar, CambiarEstado, Corriendo, EnNuevos
  <1>5. /\ UnaVez'
        /\ \/ /\ EnListos' \in {EnListos, EnListos \cup {p}} /\ EnBloqueados' = EnBloqueados /\ EnTerminados' = EnTerminados
           \/ /\ EnListos' = EnListos /\ EnTerminados' = EnTerminados
              /\ EnBloqueados' = EnBloqueados \cup {p} /\ e = "bloqueado"
           \/ /\ EnListos' = EnListos /\ EnBloqueados' = EnBloqueados
              /\ EnTerminados' = EnTerminados \cup {p}
    <2>1. p \notin EnListos /\ p \notin EnBloqueados /\ p \notin EnTerminados
      BY <1>2, <1>3 DEF Separados
    <2>2. procesos_terminados' = procesos_terminados => Acabados' = Acabados
      BY DEF Acabados
    <2>3. CASE /\ UNCHANGED <<procesos_bloqueados, procesos_terminados>>
               /\ procesos_listos' \in {procesos_listos, Append(procesos_listos, p)}
      <3>1. SinRepetir(Append(procesos_listos, p)) /\ Elementos(Append(procesos_listos, p)) = EnListos \cup {p}
        BY <1>1, <1>2, <1>3, <2>1, AlFinal DEF UnaVez, EnListos
      <3>2. UnaVez'
        BY <1>2, <2>2, <2>3, <3>1 DEF UnaVez
      <3>3. EnListos' \in {EnListos, EnListos \cup {p}}
        BY <2>3, <3>1 DEF EnListos
      <3> QED
        BY <2>2, <2>3, <3>2, <3>3 DEF EnBloqueados, EnTerminados
    <2>4. CASE /\ UNCHANGED <<procesos_listos, procesos_terminados>> /\ e = "bloqueado"
               /\ procesos_bloqueados' = Append(procesos_bloqueados, p)
      <3>1. SinRepetir(Append(procesos_bloqueados, p)) /\ Elementos(Append(procesos_bloqueados, p)) = EnBloqueados \cup {p}
        BY <1>1, <1>2, <1>3, <2>1, AlFinal DEF UnaVez, EnBloqueados
      <3>2. UnaVez' /\ EnBloqueados' = EnBloqueados \cup {p}
        BY <1>2, <2>2, <2>4, <3>1 DEF UnaVez, EnBloqueados
      <3> QED
        BY <2>2, <2>4, <3>2 DEF EnListos, EnTerminados
    <2>5. CASE /\ UNCHANGED <<procesos_listos, procesos_bloqueados>>
               /\ procesos_terminados' = Append(procesos_terminados, p)
      <3>1. p \in Terminados /\ DeTerminado(p) = p
        BY <1>1, <1>3, DeTerminadoEs
      <3>2. SinRepetir(Acabados') /\ EnTerminados' = EnTerminados \cup {p}
        BY <1>1, <1>2, <1>3, <2>1, <2>5, <3>1, TerminaUno DEF UnaVez, EnTerminados, Acabados
      <3>5. UnaVez' /\ EnTerminados' = EnTerminados \cup {p}
        BY <1>2, <2>5, <3>2 DEF UnaVez
      <3> QED
        BY <2>5, <3>5 DEF EnListos, EnBloqueados
    <2> QED
      BY <2>3, <2>4, <2>5
  <1> HIDE DEF p, C
  <1>6. Separados'
    BY <1>2, <1>3, <1>4, <1>5 DEF Separados
  <1>7. SinCarga'
    <2>1. EnListos' \cup EnBloqueados' \cup EnTerminados' \cup Corriendo'
            \subseteq EnListos \cup EnBloqueados \cup EnTerminados \cup Corriendo
      BY <1>3, <1>4, <1>5
    <2> QED
      BY <1>2, <1>4, <2>1 DEF SinCarga
  <1>8. EstadoDeSuLugar'
    <2>1. \A q \in Objetos : q # p => estado'[q] = estado[q]
      BY <1>1, <1>4
    <2>2. p \notin EnNuevos /\ p \notin EnBloqueados
      BY <1>2, <1>3 DEF Separados
    <2>3. \A q \in EnNuevos' : estado'[q] = "nuevo"
      BY <1>1, <1>2, <1>4, <2>1, <2>2 DEF EstadoDeSuLugar
    <2>4. \A q \in EnBloqueados' : estado'[q] = "bloqueado"
      BY <1>1, <1>2, <1>3, <1>4, <1>5, <2>1, <2>2 DEF EstadoDeSuLugar
    <2>5. \A q \in Objetos : q.id > Len(dtb') => estado'[q] = "nuevo"
      <3>1. ~(p.id > Len(dtb))
        BY <1>3, LugaresDeCreados, CreadosObjetos DEF C
      <3> QED
        BY <1>2, <2>1, <3>1 DEF EstadoDeSuLugar
    <2> QED
      BY <1>4, <2>3, <2>4, <2>5 DEF EstadoDeSuLugar
  <1>9. EnTerminados' \subseteq Creados(Len(dtb'))
    BY <1>2, <1>3, <1>5 DEF C
  <1> QED
    <2>1. ColasInductivo'
      BY <1>5, <1>6, <1>7, <1>8, <1>9 DEF ColasInductivo
    <2> QED
      BY <1>3, <1>4, <1>5, <2>1 DEF p

--------------------------------------------------------------------------------
(* planificadorCortoPlazo *)

LEMMA SeleccionarColas ==
    ASSUME TipoInductivo, ColasInductivo, PCPSeleccionar
    PROVE  /\ ColasInductivo'
           /\ \/ UNCHANGED <<EnNuevos, EnListos, EnBloqueados, EnTerminados, Corriendo>>
              \/ /\ Head(procesos_listos) \in EnListos /\ Corriendo' = {Head(procesos_listos)}
                 /\ EnListos' = EnListos \ {Head(procesos_listos)}
                 /\ UNCHANGED <<EnNuevos, EnBloqueados, EnTerminados>>
  <1> DEFINE p == Head(procesos_listos)
             C == Creados(Len(dtb))
  <1>1. /\ EnNuevos \subseteq C /\ EnListos \subseteq C /\ EnBloqueados \subseteq C /\ Corriendo \subseteq C
        /\ C \subseteq Objetos /\ Nada \notin C /\ procesos_listos \in Seq(C)
        /\ estado \in [Objetos -> {"nuevo", "listo", "ejecucion", "bloqueado", "finalizado"}]
    BY LugaresDeCreados
  <1>2. UnaVez /\ Separados /\ SinCarga /\ EstadoDeSuLugar /\ EnTerminados \subseteq C
    BY DEF ColasInductivo
  <1>3. UNCHANGED <<procesos_nuevos, procesos_bloqueados, procesos_terminados, dtb>>
    BY DEF PCPSeleccionar
  <1>4. CASE procesos_listos = <<>>
    <2>1. UNCHANGED <<procesos_listos, procesoEnEjecucion, estado>>
      BY <1>4 DEF PCPSeleccionar
    <2> QED
      BY <1>3, <2>1, NadieSeMueve DEF EnNuevos, EnListos, EnBloqueados, EnTerminados, Corriendo, Acabados
  <1>5. CASE procesos_listos # <<>>
    <2>1. /\ procesoEnEjecucion' = p /\ procesos_listos' = Tail(procesos_listos)
          /\ estado' = [estado EXCEPT ![p] = "ejecucion"]
      BY <1>5 DEF PCPSeleccionar, round_robin
    <2>2. /\ p \in EnListos /\ p \in C /\ Elementos(Tail(procesos_listos)) = EnListos \ {p}
          /\ SinRepetir(Tail(procesos_listos))
      BY <1>1, <1>2, <1>5, ElPrimero DEF UnaVez, EnListos
    <2> HIDE DEF p, C
    <2>3. Corriendo' = {p} /\ EnListos' = EnListos \ {p} /\ EnNuevos' = EnNuevos
          /\ EnBloqueados' = EnBloqueados /\ Acabados' = Acabados /\ EnTerminados' = EnTerminados
      BY <1>1, <1>3, <2>1, <2>2 DEF Corriendo, EnListos, EnNuevos, EnBloqueados, EnTerminados, Acabados
    <2>4. UnaVez'
      BY <1>2, <1>3, <2>1, <2>2, <2>3 DEF UnaVez
    <2>5. Separados'
      BY <1>2, <2>2, <2>3 DEF Separados
    <2>6. SinCarga'
      <3>1. EnListos' \cup EnBloqueados' \cup EnTerminados' \cup Corriendo'
              \subseteq EnListos \cup EnBloqueados \cup EnTerminados \cup Corriendo
        BY <2>2, <2>3
      <3> QED
        BY <1>2, <1>3, <2>3, <3>1 DEF SinCarga
    <2>7. EstadoDeSuLugar'
      <3>1. p \notin EnNuevos /\ p \notin EnBloqueados /\ ~(p.id > Len(dtb))
        <4>1. p \notin EnNuevos /\ p \notin EnBloqueados
          BY <1>2, <2>2 DEF Separados
        <4>2. p.id \in 1 .. Len(dtb) /\ Len(dtb) \in Nat
          BY <2>2, LugaresDeCreados, CreadosObjetos DEF C
        <4> QED
          BY <4>1, <4>2
      <3>2. estado'[p] = "ejecucion" /\ \A q \in Objetos : q # p => estado'[q] = estado[q]
        BY <1>1, <2>1, <2>2
      <3> QED
        BY <1>1, <1>2, <1>3, <2>3, <3>1, <3>2 DEF EstadoDeSuLugar
    <2> QED
      BY <1>2, <1>3, <2>2, <2>3, <2>4, <2>5, <2>6, <2>7 DEF ColasInductivo, C, p
  <1> QED
    BY <1>4, <1>5

(* the second removal may take any process out, but puts none anywhere *)
LEMMA QuitarColas ==
    ASSUME TipoInductivo, ColasInductivo, PCPQuitar
    PROVE  /\ ColasInductivo'
           /\ UNCHANGED <<EnNuevos, EnBloqueados, EnTerminados, Corriendo>>
           /\ EnListos' = EnListos \/ \E y \in EnListos : EnListos' = EnListos \ {y}
  <1> DEFINE C == Creados(Len(dtb))
  <1>1. procesos_listos \in Seq(C) /\ Nada \notin C
    BY LugaresDeCreados
  <1>2. UnaVez /\ Separados /\ SinCarga /\ EstadoDeSuLugar /\ EnTerminados \subseteq C
    BY DEF ColasInductivo
  <1>3. UNCHANGED <<procesos_nuevos, procesos_bloqueados, procesos_terminados, dtb, procesoEnEjecucion, estado>>
        /\ procesos_listos' = Sin(procesos_listos, idBuscar)
    BY DEF PCPQuitar
  <1>4. /\ SinRepetir(Sin(procesos_listos, idBuscar)) /\ Elementos(Sin(procesos_listos, idBuscar)) \subseteq EnListos
        /\ \/ Elementos(Sin(procesos_listos, idBuscar)) = EnListos
           \/ \E y \in EnListos : Elementos(Sin(procesos_listos, idBuscar)) = EnListos \ {y}
    BY <1>1, <1>2, ElDeEseId DEF UnaVez, EnListos
  <1> HIDE DEF C
  <1>5. Corriendo' = Corriendo /\ EnListos' \subseteq EnListos /\ EnNuevos' = EnNuevos
        /\ (EnListos' = EnListos \/ \E y \in EnListos : EnListos' = EnListos \ {y})
        /\ EnBloqueados' = EnBloqueados /\ Acabados' = Acabados /\ EnTerminados' = EnTerminados
    BY <1>3, <1>4 DEF Corriendo, EnListos, EnNuevos, EnBloqueados, EnTerminados, Acabados
  <1>6. UnaVez'
    BY <1>2, <1>3, <1>4, <1>5 DEF UnaVez
  <1>7. Separados'
    BY <1>2, <1>5 DEF Separados
  <1>8. SinCarga' /\ EstadoDeSuLugar'
    BY <1>2, <1>3, <1>5 DEF SinCarga, EstadoDeSuLugar
  <1> QED
    BY <1>2, <1>3, <1>5, <1>6, <1>7, <1>8 DEF ColasInductivo, C

--------------------------------------------------------------------------------
(* conexionDAM *)

(* a new process is named by its id *)
LEMMA ElNuevo ==
    ASSUME TipoInductivo, ColasInductivo, NEW i, Tiene(procesos_nuevos, i)
    PROVE  /\ procesos_nuevos[Primera(procesos_nuevos, i)] = Real(i) /\ Real(i) \in EnNuevos
           /\ i \in 1 .. Len(dtb) /\ Real(i) \in Objetos
           /\ SinRepetir(Sin(procesos_nuevos, i))
           /\ Elementos(Sin(procesos_nuevos, i)) = EnNuevos \ {Real(i)}
           /\ \A p \in EnNuevos : p # Real(i) => p.id # i
  <1> DEFINE x == procesos_nuevos[Primera(procesos_nuevos, i)]
             C == Creados(Len(dtb))
  <1>1. procesos_nuevos \in Seq(C) /\ Nada \notin C /\ EnNuevos \subseteq C /\ C \subseteq Objetos
    BY LugaresDeCreados
  <1>2. UnaVez /\ SinCarga
    BY DEF ColasInductivo
  <1>3. /\ SinRepetir(Sin(procesos_nuevos, i))
        /\ x \in EnNuevos /\ x.id = i /\ Elementos(Sin(procesos_nuevos, i)) = EnNuevos \ {x}
    BY <1>1, <1>2, ElDeEseId DEF UnaVez, EnNuevos
  <1>4. x = Real(i)
    BY <1>2, <1>3 DEF SinCarga
  <1>5. \A p \in EnNuevos : p.id = i => p = Real(i)
    BY <1>2 DEF SinCarga
  <1>6. x \in C /\ Len(dtb) \in Nat
    BY <1>1, <1>3, LugaresDeCreados
  <1>7. i \in 1 .. Len(dtb)
    <2> HIDE DEF x
    <2> QED
      BY <1>3, <1>6, CreadosObjetos DEF C
  <1> QED
    BY <1>1, <1>3, <1>4, <1>5, <1>6, <1>7

(* the answer to the abrir of a dummy *)
LEMMA AbrirColas ==
    ASSUME TipoInductivo, ColasInductivo, AbrirOk \/ AbrirMal
    PROVE  /\ ColasInductivo'
           /\ IdRespuesta \in 1 .. Len(dtb) /\ Len(dtb') = Len(dtb)
           /\ \A j \in 1 .. Len(dtb) : j # IdRespuesta => dtb'[j].seEstaCargando = dtb[j].seEstaCargando
           /\ Real(IdRespuesta) \in EnNuevos /\ EnNuevos' = EnNuevos \ {Real(IdRespuesta)}
           /\ EnBloqueados' = EnBloqueados /\ Corriendo' = Corriendo
           /\ \/ AbrirOk /\ EnListos' = EnListos \cup {Real(IdRespuesta)} /\ EnTerminados' = EnTerminados
              \/ EnListos' = EnListos /\ EnTerminados' = EnTerminados \cup {Real(IdRespuesta)}
  <1> DEFINE i == IdRespuesta
             x == Real(i)
             n == Len(dtb)
             C == Creados(n)
  <1>1. /\ EnNuevos \subseteq C /\ EnListos \subseteq C /\ EnBloqueados \subseteq C /\ Corriendo \subseteq C
        /\ C \subseteq Objetos /\ Nada \notin C /\ n \in Nat
        /\ procesos_listos \in Seq(C) /\ procesos_terminados \in Seq(Terminados)
    BY LugaresDeCreados
  <1>2. UnaVez /\ Separados /\ SinCarga /\ EstadoDeSuLugar /\ EnTerminados \subseteq C
    BY DEF ColasInductivo
  <1>3. /\ Tiene(procesos_nuevos, i) /\ procesos_nuevos' = Sin(procesos_nuevos, i)
        /\ dtb' = Cargando(dtb, i, 0)
        /\ UNCHANGED <<procesos_bloqueados, procesoEnEjecucion, estado>>
    BY DEF AbrirOk, AbrirMal
  <1>4. /\ x \in EnNuevos /\ x \in C /\ i \in 1 .. n /\ SinRepetir(procesos_nuevos')
        /\ EnNuevos' = EnNuevos \ {x} /\ \A p \in EnNuevos' : p.id # i
    <2>1. /\ x \in EnNuevos /\ i \in 1 .. n /\ SinRepetir(Sin(procesos_nuevos, i))
          /\ Elementos(Sin(procesos_nuevos, i)) = EnNuevos \ {x}
          /\ \A p \in EnNuevos : p # x => p.id # i
      BY <1>3, ElNuevo
    <2>2. EnNuevos' = EnNuevos \ {x}
      BY <1>3, <2>1 DEF EnNuevos
    <2> QED
      BY <1>1, <1>3, <2>1, <2>2
  <1>5. x \notin EnListos /\ x \notin EnTerminados /\ x \notin EnBloqueados /\ x \notin Corriendo /\ x # Nada
    BY <1>1, <1>2, <1>4 DEF Separados
  <1>6. EnBloqueados' = EnBloqueados /\ Corriendo' = Corriendo
    BY <1>3 DEF EnBloqueados, Corriendo
  <1>7. /\ UnaVez'
        /\ \/ AbrirOk /\ EnListos' = EnListos \cup {x} /\ EnTerminados' = EnTerminados
           \/ EnListos' = EnListos /\ EnTerminados' = EnTerminados \cup {x}
    <2>1. CASE AbrirOk
      <3>1. procesos_listos' = Append(procesos_listos, x) /\ procesos_terminados' = procesos_terminados
        BY <2>1 DEF AbrirOk
      <3>2. Acabados' = Acabados /\ EnTerminados' = EnTerminados
        BY <3>1 DEF Acabados, EnTerminados
      <3> HIDE DEF x, C, i
      <3>3. SinRepetir(procesos_listos') /\ EnListos' = EnListos \cup {x}
        BY <1>1, <1>2, <1>4, <1>5, <3>1, AlFinal DEF UnaVez, EnListos
      <3> QED
        BY <1>2, <1>3, <1>4, <2>1, <3>2, <3>3 DEF UnaVez
    <2>2. CASE AbrirMal
      <3>1. procesos_terminados' = Append(procesos_terminados, x) /\ procesos_listos' = procesos_listos
        BY <2>2 DEF AbrirMal
      <3>2. x \in Terminados /\ DeTerminado(x) = x
        BY <1>1, <1>4, DeTerminadoEs
      <3> HIDE DEF x, C, i
      <3>3. SinRepetir(Acabados') /\ EnTerminados' = EnTerminados \cup {x}
        BY <1>1, <1>2, <1>5, <3>1, <3>2, TerminaUno DEF UnaVez, EnTerminados, Acabados
      <3>4. EnListos' = EnListos
        BY <3>1 DEF EnListos
      <3> QED
        BY <1>2, <1>3, <1>4, <3>1, <3>3, <3>4 DEF UnaVez
    <2> QED
      BY <2>1, <2>2
  <1>8. /\ Len(dtb') = n
        /\ \A j \in 1 .. n : j # i => dtb'[j].seEstaCargando = dtb[j].seEstaCargando
    <2>1. dtb \in Seq(DTBs)
      BY DEF TipoInductivo, TypeOK, SAFATypeOK
    <2> HIDE DEF i
    <2> QED
      BY <1>3, <1>4, <2>1, CargandoTipo, CargandoEn
  <1>9. \A j : Dummy(j) # x
    BY DEF Dummy, Real
  <1> HIDE DEF x, i
  <1>10. Separados'
    BY <1>2, <1>4, <1>5, <1>6, <1>7 DEF Separados
  <1>11. SinCarga'
    <2> SUFFICES ASSUME NEW p \in EnNuevos'
                 PROVE  /\ p = Real(p.id)
                        /\ dtb'[p.id].seEstaCargando # 1 =>
                             Dummy(p.id) \notin EnListos' \cup EnBloqueados' \cup EnTerminados' \cup Corriendo'
      BY DEF SinCarga
    <2>1. p \in EnNuevos /\ p \in C /\ p.id # i
      BY <1>1, <1>4
    <2>2. p.id \in 1 .. n
      BY <1>1, <2>1, CreadosObjetos
    <2>3. dtb'[p.id].seEstaCargando = dtb[p.id].seEstaCargando
      BY <1>8, <2>1, <2>2
    <2>4. EnListos' \cup EnBloqueados' \cup EnTerminados' \cup Corriendo'
            \subseteq EnListos \cup EnBloqueados \cup EnTerminados \cup Corriendo \cup {x}
      BY <1>6, <1>7
    <2> QED
      BY <1>2, <1>9, <2>1, <2>3, <2>4 DEF SinCarga
  <1>12. EstadoDeSuLugar'
    BY <1>2, <1>3, <1>4, <1>6, <1>8 DEF EstadoDeSuLugar
  <1>13. EnTerminados' \subseteq Creados(Len(dtb'))
    BY <1>2, <1>4, <1>7, <1>8
  <1> QED
    <2>1. ColasInductivo'
      BY <1>7, <1>10, <1>11, <1>12, <1>13 DEF ColasInductivo
    <2> QED
      BY <1>4, <1>6, <1>7, <1>8, <2>1 DEF i, x

(* the answer to a flush, a crear or a borrar *)
LEMMA OperacionColas ==
    ASSUME TipoInductivo, ColasInductivo, OperacionOk \/ OperacionMal
    PROVE  /\ ColasInductivo'
           /\ UNCHANGED <<EnNuevos, Corriendo, dtb>>
           /\ \/ UNCHANGED <<EnListos, EnBloqueados, EnTerminados>>
              \/ \E y \in EnBloqueados :
                    /\ EnBloqueados' = EnBloqueados \ {y}
                    /\ \/ EnListos' = EnListos \cup {y} /\ EnTerminados' = EnTerminados
                       \/ EnListos' = EnListos /\ EnTerminados' = EnTerminados \cup {y}
  <1> DEFINE i == IdRespuesta
             x == procesos_bloqueados[Primera(procesos_bloqueados, i)]
             C == Creados(Len(dtb))
  <1>1. /\ EnNuevos \subseteq C /\ EnListos \subseteq C /\ EnBloqueados \subseteq C /\ Corriendo \subseteq C
        /\ C \subseteq Objetos /\ Nada \notin C
        /\ procesos_listos \in Seq(C) /\ procesos_bloqueados \in Seq(C) /\ procesos_terminados \in Seq(Terminados)
    BY LugaresDeCreados
  <1>2. UnaVez /\ Separados /\ SinCarga /\ EstadoDeSuLugar /\ EnTerminados \subseteq C
    BY DEF ColasInductivo
  <1>3. /\ procesos_bloqueados' = Sin(procesos_bloqueados, i)
        /\ UNCHANGED <<procesos_nuevos, procesoEnEjecucion, dtb, estado>>
    BY DEF OperacionOk, OperacionMal
  <1>4. EnNuevos' = EnNuevos /\ Corriendo' = Corriendo
    BY <1>3 DEF EnNuevos, Corriendo
  <1> HIDE DEF i
  <1>5. SinRepetir(procesos_bloqueados') /\ EnBloqueados' \subseteq EnBloqueados
    BY <1>1, <1>2, <1>3, ElDeEseId DEF UnaVez, EnBloqueados
  <1>12. ~Tiene(procesos_bloqueados, i) => EnBloqueados' = EnBloqueados
    BY <1>3 DEF Sin, EnBloqueados
  <1>6. Tiene(procesos_bloqueados, i) =>
          /\ x \in EnBloqueados /\ x \in C /\ EnBloqueados' = EnBloqueados \ {x} /\ x # Nada
          /\ x \notin EnListos /\ x \notin EnTerminados
    <2> SUFFICES ASSUME Tiene(procesos_bloqueados, i)
                 PROVE  /\ x \in EnBloqueados /\ x \in C /\ EnBloqueados' = EnBloqueados \ {x} /\ x # Nada
                        /\ x \notin EnListos /\ x \notin EnTerminados
      OBVIOUS
    <2>1. x \in EnBloqueados /\ EnBloqueados' = EnBloqueados \ {x}
      BY <1>1, <1>2, <1>3, ElDeEseId DEF UnaVez, EnBloqueados
    <2> HIDE DEF x, C
    <2> QED
      BY <1>1, <1>2, <2>1 DEF Separados
  <1> HIDE DEF C
  <1>7. /\ UnaVez'
        /\ \/ /\ ~Tiene(procesos_bloqueados, i)
              /\ EnListos' = EnListos /\ EnTerminados' = EnTerminados
           \/ /\ Tiene(procesos_bloqueados, i)
              /\ \/ EnListos' = EnListos \cup {x} /\ EnTerminados' = EnTerminados
                 \/ EnListos' = EnListos /\ EnTerminados' = EnTerminados \cup {x}
    <2>1. CASE OperacionOk
      <3>1. /\ Tiene(procesos_bloqueados, i) /\ procesos_listos' = Append(procesos_listos, x)
            /\ procesos_terminados' = procesos_terminados
        BY <2>1 DEF OperacionOk, i
      <3>2. Acabados' = Acabados /\ EnTerminados' = EnTerminados
        BY <3>1 DEF Acabados, EnTerminados
      <3> HIDE DEF x
      <3>3. SinRepetir(procesos_listos') /\ EnListos' = EnListos \cup {x}
        BY <1>1, <1>2, <1>6, <3>1, AlFinal DEF UnaVez, EnListos
      <3> QED
        BY <1>2, <1>3, <1>5, <3>1, <3>2, <3>3 DEF UnaVez
    <2>2. CASE OperacionMal
      <3> DEFINE t == IF Tiene(procesos_bloqueados, i) THEN Envoltorio(x) ELSE Nada
      <3>1. procesos_terminados' = Append(procesos_terminados, t) /\ procesos_listos' = procesos_listos
        BY <2>2 DEF OperacionMal, i
      <3>2. EnListos' = EnListos
        BY <3>1 DEF EnListos
      <3> HIDE DEF x
      <3>3. CASE Tiene(procesos_bloqueados, i)
        <4>1. t \in Terminados /\ DeTerminado(t) = x
          BY <1>1, <1>6, <3>3, DeTerminadoEs
        <4> HIDE DEF t
        <4>2. SinRepetir(Acabados') /\ EnTerminados' = EnTerminados \cup {x}
          BY <1>1, <1>2, <1>6, <3>1, <3>3, <4>1, TerminaUno DEF UnaVez, EnTerminados, Acabados
        <4> QED
          BY <1>2, <1>3, <1>5, <3>1, <3>2, <3>3, <4>2 DEF UnaVez
      <3>4. CASE ~Tiene(procesos_bloqueados, i)
        <4>1. t \in Terminados /\ DeTerminado(t) = Nada
          BY <3>4, DeTerminadoEs
        <4> HIDE DEF t
        <4>2. Nada \notin Elementos(DeTerminados(procesos_terminados))
          BY DEF Elementos
        <4>3. SinRepetir(DeTerminados(procesos_terminados))
          BY <1>2 DEF UnaVez, Acabados
        <4>4. /\ SinRepetir(DeTerminados(Append(procesos_terminados, t)))
              /\ Elementos(DeTerminados(Append(procesos_terminados, t)))
                   = Elementos(DeTerminados(procesos_terminados)) \cup ({Nada} \ {Nada})
          <5>1. DeTerminado(t) \notin Elementos(DeTerminados(procesos_terminados))
            BY <4>1, <4>2
          <5>2. procesos_terminados \in Seq(Terminados) /\ t \in Terminados
            BY <1>1, <4>1
          <5> QED
            BY <4>1, <4>3, <5>1, <5>2, TerminaUno
        <4>5. Elementos(DeTerminados(Append(procesos_terminados, t)))
                = Elementos(DeTerminados(procesos_terminados))
          BY <4>4
        <4>6. SinRepetir(Acabados') /\ EnTerminados' = EnTerminados
          BY <3>1, <4>4, <4>5 DEF EnTerminados, Acabados
        <4> QED
          BY <1>2, <1>3, <1>5, <3>1, <3>2, <3>4, <4>6 DEF UnaVez
      <3> QED
        BY <3>3, <3>4
    <2> QED
      BY <2>1, <2>2
  <1> HIDE DEF x
  <1>8. Separados'
    BY <1>2, <1>4, <1>5, <1>6, <1>7 DEF Separados
  <1>9. SinCarga'
    <2>1. EnListos' \cup EnBloqueados' \cup EnTerminados' \cup Corriendo'
            \subseteq EnListos \cup EnBloqueados \cup EnTerminados \cup Corriendo
      BY <1>4, <1>5, <1>6, <1>7
    <2> QED
      BY <1>2, <1>3, <1>4, <2>1 DEF SinCarga
  <1>10. EstadoDeSuLugar'
    BY <1>2, <1>3, <1>4, <1>5 DEF EstadoDeSuLugar
  <1>11. EnTerminados' \subseteq Creados(Len(dtb'))
    BY <1>2, <1>3, <1>6, <1>7 DEF C
  <1> QED
    <2>1. ColasInductivo'
      BY <1>7, <1>8, <1>9, <1>10, <1>11 DEF ColasInductivo
    <2> QED
      BY <1>3, <1>4, <1>6, <1>7, <1>12, <2>1

--------------------------------------------------------------------------------
(* The console *)

(* one process more among the finished ones *)
LEMMA AgregarTerminado ==
    ASSUME NEW s \in Seq(Terminados), NEW x \in Objetos, SinRepetir(DeTerminados(s)),
           x \notin Elementos(DeTerminados(s))
    PROVE  /\ s \o <<x>> \in Seq(Terminados) /\ SinRepetir(DeTerminados(s \o <<x>>))
           /\ Elementos(DeTerminados(s \o <<x>>)) = Elementos(DeTerminados(s)) \cup {x}
  <1>1. x \in Terminados /\ DeTerminado(x) = x
    BY DeTerminadoEs
  <1>2. Nada \notin Objetos
    BY CreadosObjetos
  <1>3. s \o <<x>> = Append(s, x)
    BY <1>1, AppendIsConcat
  <1>4. /\ Append(s, x) \in Seq(Terminados) /\ SinRepetir(DeTerminados(Append(s, x)))
        /\ Elementos(DeTerminados(Append(s, x))) = Elementos(DeTerminados(s)) \cup ({x} \ {Nada})
    BY <1>1, TerminaUno
  <1> QED
    BY <1>2, <1>3, <1>4

(* "finalizar": from the new ones, from the ready ones, or from both *)
LEMMA FinalizarColas ==
    ASSUME TipoInductivo, ColasInductivo, NEW i \in Ids, Finalizar(i)
    PROVE  /\ ColasInductivo'
           /\ UNCHANGED <<EnBloqueados, Corriendo, dtb>>
           /\ \E D \in {{}, {Real(i)}}, F \in {{}} \cup {{y} : y \in EnListos} :
                 /\ D \subseteq EnNuevos /\ \A y \in F : y.id = i
                 /\ EnNuevos' = EnNuevos \ D /\ EnListos' = EnListos \ F
                 /\ EnTerminados' = EnTerminados \cup D \cup F
  <1> DEFINE C == Creados(Len(dtb))
             x == Real(i)
             y == procesos_listos[Primera(procesos_listos, i)]
             hayN == Tiene(procesos_nuevos, i)
             hayL == Tiene(procesos_listos, i)
             A == IF hayN THEN {x} ELSE {}
             B == IF hayL THEN {y} ELSE {}
             u == procesos_terminados \o (IF hayN THEN <<x>> ELSE <<>>)
  <1>1. /\ EnNuevos \subseteq C /\ EnListos \subseteq C /\ C \subseteq Objetos /\ Nada \notin C
        /\ procesos_nuevos \in Seq(C) /\ procesos_listos \in Seq(C)
        /\ procesos_terminados \in Seq(Terminados)
    BY LugaresDeCreados
  <1>2. UnaVez /\ Separados /\ SinCarga /\ EstadoDeSuLugar /\ EnTerminados \subseteq C
    BY DEF ColasInductivo
  <1>3. hayN => procesos_nuevos[Primera(procesos_nuevos, i)] = x
    BY ElNuevo
  <1>4. /\ procesos_nuevos' = Sin(procesos_nuevos, i) /\ procesos_listos' = Sin(procesos_listos, i)
        /\ UNCHANGED <<procesos_bloqueados, procesoEnEjecucion, dtb, estado>>
    BY DEF Finalizar
  <1>5. procesos_terminados' = u \o (IF hayL THEN <<y>> ELSE <<>>)
    BY <1>3 DEF Finalizar
  <1>6. SinRepetir(procesos_nuevos') /\ EnNuevos' = EnNuevos \ A /\ A \subseteq EnNuevos
    <2>1. CASE hayN
      BY <1>4, <2>1, ElNuevo DEF EnNuevos
    <2>2. CASE ~hayN
      BY <1>2, <1>4, <2>2 DEF Sin, EnNuevos, UnaVez
    <2> QED
      BY <2>1, <2>2
  <1>7. SinRepetir(procesos_listos') /\ EnListos' = EnListos \ B /\ B \subseteq EnListos
    BY <1>1, <1>2, <1>4, ElDeEseId DEF EnListos, UnaVez
  <1>18. \A w \in B : w.id = i
    BY <1>1, <1>2, ElDeEseId DEF UnaVez
  <1>19. A \in {{}, {Real(i)}}
    OBVIOUS
  <1>20. B \in {{}} \cup {{w} : w \in EnListos}
    BY <1>7
  <1>8. \A j : Dummy(j) \notin A
    BY DEF Dummy, Real
  <1> HIDE DEF C, x, y, hayN, hayL
  <1>9. SinRepetir(Acabados) /\ EnTerminados = Elementos(DeTerminados(procesos_terminados))
        /\ SinRepetir(DeTerminados(procesos_terminados))
    BY <1>2 DEF UnaVez, EnTerminados, Acabados
  <1>10. /\ u \in Seq(Terminados) /\ SinRepetir(DeTerminados(u))
         /\ Elementos(DeTerminados(u)) = EnTerminados \cup A
    <2>1. CASE hayN
      <3>1. x \in Objetos /\ x \notin EnTerminados /\ u = procesos_terminados \o <<x>> /\ A = {x}
        BY <1>1, <1>2, <1>6, <2>1 DEF Separados
      <3> HIDE DEF u, A
      <3> QED
        BY <1>1, <1>9, <3>1, AgregarTerminado
    <2>2. CASE ~hayN
      <3>1. u = procesos_terminados
        BY <1>1, <2>2, ConcatEmptySeq
      <3>2. A = {}
        BY <2>2
      <3> HIDE DEF u, A
      <3> QED
        BY <1>1, <1>9, <3>1, <3>2
    <2> QED
      BY <2>1, <2>2
  <1> HIDE DEF u
  <1>11. SinRepetir(Acabados') /\ EnTerminados' = EnTerminados \cup A \cup B
    <2>1. EnTerminados' = Elementos(DeTerminados(procesos_terminados')) /\ Acabados' = DeTerminados(procesos_terminados')
      BY DEF EnTerminados, Acabados
    <2>2. CASE hayL
      <3>1. y \in Objetos /\ y \notin EnTerminados \cup A /\ procesos_terminados' = u \o <<y>> /\ B = {y}
        BY <1>1, <1>2, <1>5, <1>6, <1>7, <2>2 DEF Separados
      <3> HIDE DEF A, B
      <3>2. /\ SinRepetir(DeTerminados(u \o <<y>>))
            /\ Elementos(DeTerminados(u \o <<y>>)) = Elementos(DeTerminados(u)) \cup {y}
        BY <1>10, <3>1, AgregarTerminado
      <3> QED
        BY <1>10, <2>1, <3>1, <3>2
    <2>3. CASE ~hayL
      <3>1. procesos_terminados' = u
        BY <1>5, <1>10, <2>3, ConcatEmptySeq
      <3>2. B = {}
        BY <2>3
      <3> HIDE DEF A, B
      <3> QED
        BY <1>10, <2>1, <3>1, <3>2
    <2> QED
      BY <2>2, <2>3
  <1> HIDE DEF A, B
  <1>12. EnBloqueados' = EnBloqueados /\ Corriendo' = Corriendo
    BY <1>4 DEF EnBloqueados, Corriendo
  <1>13. UnaVez'
    BY <1>2, <1>4, <1>6, <1>7, <1>11 DEF UnaVez
  <1>14. Separados'
    BY <1>2, <1>6, <1>7, <1>11, <1>12 DEF Separados
  <1>15. SinCarga'
    <2>1. EnListos' \cup EnBloqueados' \cup EnTerminados' \cup Corriendo'
            \subseteq EnListos \cup EnBloqueados \cup EnTerminados \cup Corriendo \cup A
      BY <1>7, <1>11, <1>12
    <2> QED
      BY <1>2, <1>4, <1>6, <1>8, <2>1 DEF SinCarga
  <1>16. EstadoDeSuLugar'
    BY <1>2, <1>4, <1>6, <1>12 DEF EstadoDeSuLugar
  <1>17. EnTerminados' \subseteq Creados(Len(dtb'))
    BY <1>1, <1>2, <1>4, <1>6, <1>7, <1>11 DEF C
  <1> QED
    <2>1. ColasInductivo'
      BY <1>13, <1>14, <1>15, <1>16, <1>17 DEF ColasInductivo
    <2> QED
      BY <1>4, <1>6, <1>7, <1>11, <1>12, <1>18, <1>19, <1>20, <2>1

(* "ejecutar": one process more, and the dummy of the one that was waiting for it *)
LEMMA EjecutarColas ==
    ASSUME TipoInductivo, ColasInductivo, NEW e \in Escriptorios, Ejecutar(e)
    PROVE  /\ ColasInductivo'
           /\ UNCHANGED <<EnBloqueados, EnTerminados, Corriendo>>
           /\ EnNuevos' = EnNuevos \cup {Real(Len(dtb) + 1)} /\ Len(dtb) + 1 \in Ids
           /\ Len(dtb') = Len(dtb) + 1
           /\ \E i \in 1 .. Len(dtb'), v \in {0, 1} :
                 /\ EnListos' = EnListos \/ EnListos' = EnListos \cup {Dummy(i)}
                 /\ Real(i) \in EnNuevos' /\ (i <= Len(dtb) => dtb[i].seEstaCargando # 1)
                 /\ \A j \in 1 .. Len(dtb') :
                       dtb'[j].seEstaCargando = IF j = i THEN v
                                                ELSE IF j <= Len(dtb) THEN dtb[j].seEstaCargando ELSE 0
  <1> DEFINE n == Len(dtb)
             C == Creados(n)
             x == Real(n + 1)
             d == [socketProceso |-> CPULibre, pathEscriptorio |-> e, seEstaCargando |-> 0]
             nuevos == Append(procesos_nuevos, x)
             t == Append(dtb, d)
             i == ACargar(nuevos, t)
             z == Dummy(i)
             Otros == EnListos \cup EnBloqueados \cup EnTerminados \cup Corriendo
             u == IF HayLugar THEN Cargando(t, i, 1) ELSE t
  <1>1. SAFATypeOK /\ Creacion
    BY DEF TipoInductivo, TypeOK
  <1>2. n \in Nat /\ n + 1 \in Ids /\ idGlobal = n + 1 /\ CPUs # tieneDTBasociado
    BY <1>1, DTBCreado DEF Ejecutar, idGlobal, Ids
  <1>3. d \in DTBs /\ d.seEstaCargando = 0
    BY <1>1, <1>2, CPULibreTipo DEF SAFATypeOK, DTBs
  <1>4. /\ EnNuevos \subseteq C /\ EnListos \subseteq C /\ EnBloqueados \subseteq C /\ Corriendo \subseteq C
        /\ C \subseteq Objetos /\ Nada \notin C
        /\ procesos_nuevos \in Seq(C) /\ procesos_listos \in Seq(C)
        /\ estado \in [Objetos -> {"nuevo", "listo", "ejecucion", "bloqueado", "finalizado"}]
    BY LugaresDeCreados
  <1>5. UnaVez /\ Separados /\ SinCarga /\ EstadoDeSuLugar /\ EnTerminados \subseteq C
    BY DEF ColasInductivo
  <1>6. dtb \in Seq(DTBs)
    BY <1>1 DEF SAFATypeOK
  <1>7. nuevos = NuevoAlFinal
    BY <1>2 DEF NuevoAlFinal
  <1>8. /\ procesos_nuevos' = nuevos /\ dtb' = u
        /\ UNCHANGED <<procesos_bloqueados, procesos_terminados, procesoEnEjecucion>>
        /\ HayLugar => /\ procesos_listos' = Append(procesos_listos, z)
                       /\ estado' = [estado EXCEPT ![z] = "listo"]
        /\ ~HayLugar => UNCHANGED <<procesos_listos, estado>>
    BY <1>7 DEF Ejecutar
  <1> HIDE DEF d
  <1>9. /\ t \in Seq(DTBs) /\ Len(t) = n + 1 /\ t[n + 1] = d /\ \A j \in 1 .. n : t[j] = dtb[j]
    BY <1>3, <1>6, AppendProperties
  <1>10. C \subseteq Creados(n + 1) /\ x \in Creados(n + 1) /\ Creados(n + 1) \subseteq Objetos /\ x.id = n + 1
         /\ Dummy(n + 1) \notin C /\ Nada \notin Creados(n + 1)
         /\ \A p \in Creados(n + 1) : p.id \in 1 .. (n + 1)
    <2>1. C \subseteq Creados(n + 1)
      BY <1>2, RedAssumption DEF Creados, Objetos, Ids
    <2>2. x \in Creados(n + 1) /\ x.id = n + 1 /\ Dummy(n + 1) \notin C
      BY <1>2 DEF Real, Dummy, Creados, Objetos
    <2> HIDE DEF x, C
    <2>3. n + 1 \in Nat
      BY <1>2
    <2> QED
      BY <2>1, <2>2, <2>3, CreadosObjetos
  <1>11. procesos_nuevos \in Seq(Creados(n + 1)) /\ procesos_listos \in Seq(Creados(n + 1))
    BY <1>4, <1>10, SeqMonotonic
  <1>12. x \notin EnNuevos /\ x \notin Otros
    <2>1. \A p \in C : p.id <= n
      BY DEF Creados
    <2>2. x \notin C
      BY <1>2, <1>10, <2>1
    <2> QED
      BY <1>4, <1>5, <2>2
  <1>13. nuevos \in Seq(Creados(n + 1)) /\ nuevos # <<>> /\ nuevos[Len(nuevos)].id = n + 1
         /\ SinRepetir(nuevos) /\ Elementos(nuevos) = EnNuevos \cup {x}
    <2> HIDE DEF x
    <2>1. nuevos \in Seq(Creados(n + 1)) /\ nuevos # <<>> /\ nuevos[Len(nuevos)].id = n + 1
      BY <1>10, <1>11, AppendProperties
    <2>2. SinRepetir(nuevos) /\ Elementos(nuevos) = Elementos(procesos_nuevos) \cup ({x} \ {Nada})
      BY <1>5, <1>10, <1>11, <1>12, AlFinal DEF UnaVez, EnNuevos
    <2> QED
      BY <1>10, <2>1, <2>2 DEF EnNuevos
  <1> HIDE DEF t, nuevos
  <1>14. PICK k \in 1 .. Len(nuevos) : i = nuevos[k].id /\ t[i].seEstaCargando # 1
    <2>1. t[nuevos[Len(nuevos)].id].seEstaCargando # 1 /\ n + 1 \in Nat
      BY <1>2, <1>3, <1>9, <1>13
    <2> QED
      BY <1>13, <2>1, ACargarPrimera
  <1> HIDE DEF i, Otros
  <1>15. nuevos[k] \in EnNuevos \cup {x}
    <2>1. k \in DOMAIN nuevos /\ nuevos[k] \in Creados(n + 1)
      BY <1>13, LenProperties, ElementOfSeq
    <2>2. nuevos[k] \in Elementos(nuevos)
      BY <1>10, <2>1 DEF Elementos
    <2> QED
      BY <1>13, <2>2
  <1>16. ASSUME NEW p \in EnNuevos \cup {x}
         PROVE  /\ p = Real(p.id) /\ p \in Creados(n + 1) /\ p.id \in 1 .. (n + 1)
                /\ t[p.id].seEstaCargando # 1 => Dummy(p.id) \notin Otros
    <2>1. CASE p \in EnNuevos
      <3>1. p = Real(p.id) /\ p \in C
        BY <1>4, <1>5, <2>1 DEF SinCarga
      <3>2. p.id \in 1 .. n
        BY <1>2, <3>1, CreadosObjetos
      <3>3. t[p.id] = dtb[p.id]
        BY <1>9, <3>2
      <3> HIDE DEF C
      <3>4. p \in Creados(n + 1) /\ p.id \in 1 .. (n + 1)
        BY <1>10, <3>1
      <3>5. dtb[p.id].seEstaCargando # 1 => Dummy(p.id) \notin Otros
        BY <1>5, <2>1 DEF SinCarga, Otros
      <3> QED
        BY <3>1, <3>3, <3>4, <3>5
    <2>2. CASE p = x
      <3>1. Dummy(n + 1) \notin Otros
        BY <1>4, <1>5, <1>10 DEF Otros
      <3>2. p.id = n + 1
        BY <1>10, <2>2
      <3>3. p \in Creados(n + 1) /\ p.id \in 1 .. (n + 1)
        BY <1>10, <2>2
      <3>4. p = Real(p.id)
        BY <2>2, <3>2
      <3> QED
        BY <3>1, <3>2, <3>3, <3>4
    <2> QED
      BY <2>1, <2>2
  <1>17. i \in 1 .. (n + 1) /\ z \notin Otros /\ z \notin EnNuevos \cup {x} /\ z \in Creados(n + 1) /\ z.id = i
    <2>1. i \in 1 .. (n + 1) /\ z \notin Otros
      BY <1>14, <1>15, <1>16
    <2>2. \A p \in EnNuevos \cup {x} : p.flagInicializacion = 1
      BY <1>16 DEF Real
    <2>3. z.flagInicializacion = 0 /\ z.id = i
      BY DEF Dummy
    <2>4. z \in Creados(n + 1)
      <3>1. i \in Ids /\ i <= n + 1
        BY <1>2, <2>1, RedAssumption DEF Ids
      <3> QED
        BY <3>1 DEF Dummy, Creados, Objetos
    <2> HIDE DEF z, x
    <2>5. z \notin EnNuevos \cup {x}
      BY <2>2, <2>3
    <2> QED
      BY <2>1, <2>3, <2>4, <2>5
  <1>18. Len(u) = n + 1
         /\ \A j \in 1 .. (n + 1) : u[j].seEstaCargando # 1 => t[j].seEstaCargando # 1 /\ (HayLugar => j # i)
    <2>1. CASE HayLugar
      <3>1. Len(Cargando(t, i, 1)) = n + 1
            /\ \A j \in 1 .. (n + 1) : Cargando(t, i, 1)[j].seEstaCargando = IF j = i THEN 1 ELSE t[j].seEstaCargando
        BY <1>9, <1>17, CargandoTipo, CargandoEn, SMTT(30)
      <3> QED
        BY <2>1, <3>1
    <2>2. CASE ~HayLugar
      BY <1>9, <2>2
    <2> QED
      BY <2>1, <2>2
  <1>27. PICK v \in {0, 1} : \A j \in 1 .. (n + 1) : u[j].seEstaCargando = IF j = i THEN v ELSE t[j].seEstaCargando
    <2>1. CASE HayLugar
      <3>1. \A j \in 1 .. (n + 1) : Cargando(t, i, 1)[j].seEstaCargando = IF j = i THEN 1 ELSE t[j].seEstaCargando
        BY <1>9, <1>17, CargandoEn
      <3> QED
        BY <2>1, <3>1
    <2>2. CASE ~HayLugar
      <3>1. t[i] \in DTBs
        BY <1>9, <1>17, ElementOfSeq
      <3>2. t[i].seEstaCargando \in {0, 1}
        BY <3>1 DEF DTBs
      <3> QED
        BY <2>2, <3>2
    <2> QED
      BY <2>1, <2>2
  <1>28. Real(i) \in EnNuevos \cup {x} /\ t[i].seEstaCargando # 1
    BY <1>14, <1>15, <1>16
  <1>29. \A j \in 1 .. (n + 1) : t[j].seEstaCargando = IF j <= n THEN dtb[j].seEstaCargando ELSE 0
    <2>1. \A j \in 1 .. (n + 1) : j <= n => j \in 1 .. n
      BY <1>2
    <2>2. \A j \in 1 .. (n + 1) : ~(j <= n) => j = n + 1
      BY <1>2
    <2> QED
      BY <1>3, <1>9, <2>1, <2>2
  <1>19. \A j : Dummy(j) = z => j = i
    <2>1. \A j : Dummy(j).id = j
      BY DEF Dummy
    <2> QED
      BY <1>17, <2>1
  <1> HIDE DEF u, x, z, C
  <1>20. EnNuevos' = EnNuevos \cup {x} /\ EnBloqueados' = EnBloqueados /\ Corriendo' = Corriendo
         /\ Acabados' = Acabados /\ EnTerminados' = EnTerminados
    BY <1>8, <1>13 DEF EnNuevos, EnBloqueados, Corriendo, Acabados, EnTerminados
  <1>21. /\ SinRepetir(procesos_listos')
         /\ \/ HayLugar /\ EnListos' = EnListos \cup {z}
            \/ ~HayLugar /\ EnListos' = EnListos
    <2>1. CASE HayLugar
      <3>1. z \notin Elementos(procesos_listos) /\ z # Nada /\ SinRepetir(procesos_listos)
        BY <1>5, <1>10, <1>17 DEF Otros, EnListos, UnaVez
      <3>2. Elementos(Append(procesos_listos, z)) = Elementos(procesos_listos) \cup ({z} \ {Nada})
            /\ SinRepetir(Append(procesos_listos, z))
        BY <1>11, <1>17, <3>1, AlFinal
      <3> QED
        BY <1>8, <2>1, <3>1, <3>2 DEF EnListos
    <2>2. CASE ~HayLugar
      BY <1>5, <1>8, <2>2 DEF EnListos, UnaVez
    <2> QED
      BY <2>1, <2>2
  <1>22. UnaVez'
    BY <1>5, <1>8, <1>13, <1>20, <1>21 DEF UnaVez
  <1>23. Separados'
    BY <1>5, <1>12, <1>17, <1>20, <1>21 DEF Separados, Otros
  <1>24. SinCarga'
    <2> SUFFICES ASSUME NEW p \in EnNuevos \cup {x}, u[p.id].seEstaCargando # 1
                 PROVE  Dummy(p.id) \notin EnListos' \cup EnBloqueados' \cup EnTerminados' \cup Corriendo'
      BY <1>8, <1>16, <1>20 DEF SinCarga
    <2>1. Dummy(p.id) \notin Otros /\ (HayLugar => p.id # i)
      BY <1>16, <1>18
    <2>2. HayLugar => Dummy(p.id) # z
      BY <1>19, <2>1
    <2> QED
      BY <1>20, <1>21, <2>1, <2>2 DEF Otros
  <1>25. EstadoDeSuLugar'
    <2>1. \A q \in Objetos : q # z => estado'[q] = estado[q]
      BY <1>4, <1>8
    <2>2. \A p \in Corriendo : p \in Objetos /\ p # z
      BY <1>4, <1>17 DEF Otros
    <2>3. \A p \in EnBloqueados : p \in Objetos /\ p # z
      BY <1>4, <1>17 DEF Otros
    <2>4. \A p \in EnNuevos \cup {x} : p \in Objetos /\ p # z /\ estado[p] = "nuevo"
      <3>1. x \in Objetos /\ x.id > Len(dtb)
        BY <1>2, <1>10
      <3>2. \A p \in EnNuevos : p \in Objetos /\ estado[p] = "nuevo"
        BY <1>4, <1>5 DEF EstadoDeSuLugar
      <3> QED
        BY <1>5, <1>17, <3>1, <3>2 DEF EstadoDeSuLugar
    <2>5. \A p \in Objetos : p.id > Len(dtb') => estado'[p] = "nuevo"
      <3> SUFFICES ASSUME NEW p \in Objetos, p.id > Len(u) PROVE estado'[p] = "nuevo"
        BY <1>8
      <3>1. p.id \in Nat
        BY DEF Objetos, Ids
      <3>2. p.id > n /\ p.id # i
        BY <1>2, <1>17, <1>18, <3>1
      <3>3. p # z
        BY <1>17, <3>2
      <3> QED
        BY <1>5, <2>1, <3>2, <3>3 DEF EstadoDeSuLugar
    <2> QED
      BY <1>5, <1>20, <2>1, <2>2, <2>3, <2>4, <2>5 DEF EstadoDeSuLugar
  <1>26. EnTerminados' \subseteq Creados(Len(dtb'))
    BY <1>5, <1>8, <1>10, <1>18, <1>20
  <1> QED
    <2>1. ColasInductivo'
      BY <1>22, <1>23, <1>24, <1>25, <1>26 DEF ColasInductivo
    <2>2. EnListos' = EnListos \/ EnListos' = EnListos \cup {Dummy(i)}
      BY <1>21 DEF z
    <2>3. EnNuevos' = EnNuevos \cup {Real(n + 1)} /\ n + 1 \in Ids /\ Len(dtb') = n + 1
      BY <1>2, <1>8, <1>18, <1>20 DEF x
    <2>4. Real(i) \in EnNuevos' /\ i \in 1 .. Len(dtb')
      BY <1>17, <1>20, <1>28, <2>3
    <2>5. i <= n => dtb[i].seEstaCargando # 1
      BY <1>17, <1>28, <1>29
    <2>6. \A j \in 1 .. Len(dtb') :
             dtb'[j].seEstaCargando = IF j = i THEN v ELSE IF j <= n THEN dtb[j].seEstaCargando ELSE 0
      BY <1>8, <1>27, <1>29, <2>3
    <2> HIDE DEF n
    <2> QED
      BY <1>20, <2>1, <2>2, <2>3, <2>4, <2>5, <2>6 DEF n

--------------------------------------------------------------------------------
(* Every other step moves nobody. *)
LEMMA PasoColas == TipoInductivo /\ ColasInductivo /\ [Next]_vars => ColasInductivo'
  <1> SUFFICES ASSUME TipoInductivo, ColasInductivo, [Next]_vars PROVE ColasInductivo'
    OBVIOUS
  <1> DEFINE lugares == <<procesos_nuevos, procesos_listos, procesos_bloqueados, procesos_terminados,
                          procesoEnEjecucion, dtb, estado>>
  <1>1. CASE UNCHANGED lugares
    BY <1>1, NadieSeMueve
  <1>2. ASSUME NEW causa, Caer(causa) PROVE UNCHANGED lugares
    BY <1>2 DEF Caer, colas
  <1>3. CASE PasoSAFA(Consola)
    <2>1. ASSUME NEW e \in Escriptorios, Ejecutar(e) PROVE ColasInductivo'
      BY <2>1, EjecutarColas
    <2>2. ASSUME NEW i \in Ids, Finalizar(i) PROVE ColasInductivo'
      BY <2>2, FinalizarColas
    <2>3. ASSUME NEW i \in Ids, \/ FinalizarEnEjecucion(i) \/ FinalizarListoSinEjecucion(i)
                                \/ StatusProceso(i) \/ StatusCae(i)
          PROVE  UNCHANGED lugares
      BY <1>2, <2>3 DEF FinalizarEnEjecucion, FinalizarListoSinEjecucion, StatusProceso, StatusCae, colas
    <2>4. EjecutarSinCPU \/ StatusColasCae => UNCHANGED lugares
      BY <1>2 DEF EjecutarSinCPU, StatusColasCae
    <2> QED
      BY <1>1, <1>3, <2>1, <2>2, <2>3, <2>4 DEF PasoSAFA, Consola
  <1>4. CASE PasoSAFA(PCP)
    <2>1. CASE PCPEnviar \/ PCPCae
      BY <1>1, <1>2, <2>1 DEF PCPEnviar, PCPCae, colas
    <2> QED
      BY <1>4, <2>1, SeleccionarColas, QuitarColas DEF PasoSAFA, PCP
  <1>5. CASE PasoSAFA(EjecutarProceso)
    BY <1>1, <1>5 DEF PasoSAFA, EjecutarProceso, EjecDespertar, EjecCondicion, EjecOrdenar, colas
  <1>6. CASE PasoSAFA(ConexionDAM)
    <2>1. CASE AbrirSinNuevo \/ OperacionOkSinBloqueado
      BY <1>1, <1>2, <2>1 DEF AbrirSinNuevo, OperacionOkSinBloqueado
    <2> QED
      BY <1>6, <2>1, AbrirColas, OperacionColas DEF PasoSAFA, ConexionDAM
  <1>7. ASSUME NEW c \in CPUs, PasoSAFA(ConexionCPU(c)) PROVE ColasInductivo'
    <2>1. CASE FinDeScript(c)
      BY <2>1, ElQueCorreSeVa DEF FinDeScript
    <2>2. CASE FinDeQuantum(c)
      BY <2>2, ElQueCorreSeVa DEF FinDeQuantum
    <2>3. CASE DummyEnviado(c)
      BY <2>3, ElQueCorreSeVa DEF DummyEnviado, colas
    <2>4. CASE Bloquear(c)
      BY <2>4, ElQueCorreSeVa DEF Bloquear
    <2>5. CASE FinIgnorado(c) \/ FinDeSentencia(c)
      BY <1>1, <2>5 DEF FinIgnorado, FinDeSentencia, safa, colas
    <2>6. CASE \/ FinDeQuantumSinProceso(c) \/ VerificarSiFinalizar(c) \/ DummySinProceso(c)
               \/ BloquearSinProceso(c) \/ Recurso(c)
      BY <1>1, <1>2, <2>6 DEF FinDeQuantumSinProceso, VerificarSiFinalizar, DummySinProceso,
                              BloquearSinProceso, Recurso, CaerAlRecibir
    <2> QED
      BY <1>7, <2>1, <2>2, <2>3, <2>4, <2>5, <2>6 DEF PasoSAFA, ConexionCPU
  <1>8. ASSUME NEW c \in CPUs, PasoCPU(c) \/ PasoDAM(c) PROVE ColasInductivo'
    BY <1>1, <1>8 DEF PasoCPU, PasoDAM, safa, colas
  <1>9. CASE UNCHANGED vars
    BY <1>1, <1>9 DEF vars, safa, colas
  <1> QED
    BY <1>3, <1>4, <1>5, <1>6, <1>7, <1>8, <1>9 DEF Next

LEMMA ColasUnicidad ==
    ASSUME ColasInductivo
    PROVE  Unicidad
  <1> DEFINE corre == <<procesoEnEjecucion>>
  <1>1. UnaVez /\ Separados
    BY DEF ColasInductivo
  <1>2. SinRepetir(corre) /\ Elementos(corre) = Corriendo
    <2>1. DOMAIN corre = {1} /\ corre[1] = procesoEnEjecucion
      OBVIOUS
    <2> HIDE DEF corre
    <2> QED
      BY <2>1 DEF SinRepetir, Elementos, Corriendo
  <1>3. /\ DOMAIN Colas = {"nuevos", "listos", "bloqueados", "terminados", "ejecucion"}
        /\ Colas["nuevos"] = procesos_nuevos /\ Colas["listos"] = procesos_listos
        /\ Colas["bloqueados"] = procesos_bloqueados /\ Colas["terminados"] = Acabados
        /\ Colas["ejecucion"] = corre
    BY DEF Colas, Acabados, DeTerminados
  <1> HIDE DEF corre
  <1>4. ASSUME NEW a \in DOMAIN Colas PROVE SinRepetir(Colas[a])
    BY <1>1, <1>2, <1>3 DEF UnaVez
  <1>5. ASSUME NEW a \in DOMAIN Colas, NEW b \in DOMAIN Colas, a # b
        PROVE  Elementos(Colas[a]) \cap Elementos(Colas[b]) = {}
    <2> DEFINE E(c) == Elementos(Colas[c])
    <2>1. /\ E("nuevos") = EnNuevos /\ E("listos") = EnListos /\ E("bloqueados") = EnBloqueados
          /\ E("terminados") = EnTerminados /\ E("ejecucion") = Corriendo
      BY <1>2, <1>3 DEF EnNuevos, EnListos, EnBloqueados, EnTerminados
    <2>2. /\ EnNuevos \cap EnListos = {} /\ EnNuevos \cap EnBloqueados = {} /\ EnNuevos \cap EnTerminados = {}
          /\ EnNuevos \cap Corriendo = {} /\ EnListos \cap EnBloqueados = {} /\ EnListos \cap EnTerminados = {}
          /\ EnListos \cap Corriendo = {} /\ EnBloqueados \cap EnTerminados = {}
          /\ EnBloqueados \cap Corriendo = {} /\ EnTerminados \cap Corriendo = {}
      BY <1>1 DEF Separados
    <2>3. \A S, T : S \cap T = T \cap S
      OBVIOUS
    <2> HIDE DEF E
    <2>4. E(a) \cap E(b) = {}
      BY <1>3, <1>5, <2>1, <2>2, <2>3
    <2> QED
      BY <2>4 DEF E
  <1>6. ASSUME NEW a \in DOMAIN Colas, NEW b \in DOMAIN Colas, NEW k \in DOMAIN Colas[a],
               NEW m \in DOMAIN Colas[b], Colas[a][k] = Colas[b][m], Colas[a][k] # Nada
        PROVE  a = b /\ k = m
    <2>1. Colas[a][k] \in Elementos(Colas[a]) /\ Colas[a][k] \in Elementos(Colas[b])
      BY <1>6 DEF Elementos
    <2>2. a = b
      BY <1>5, <2>1
    <2> QED
      BY <1>4, <1>6, <2>2 DEF SinRepetir
  <1> QED
    BY <1>6 DEF Unicidad

LEMMA ColasEstado ==
    ASSUME TipoInductivo, ColasInductivo
    PROVE  EstadoCoherente
  <1>1. EstadoDeSuLugar
    BY DEF ColasInductivo
  <1> DEFINE C == Creados(Len(dtb))
  <1>2. procesos_nuevos \in Seq(C) /\ procesos_bloqueados \in Seq(C) /\ Nada \notin C
    BY LugaresDeCreados
  <1> HIDE DEF C
  <1>3. \A k \in DOMAIN procesos_bloqueados : procesos_bloqueados[k] \in EnBloqueados
    BY <1>2, ElementOfSeq, LenProperties DEF EnBloqueados, Elementos
  <1>4. \A k \in DOMAIN procesos_nuevos : procesos_nuevos[k] \in EnNuevos
    BY <1>2, ElementOfSeq, LenProperties DEF EnNuevos, Elementos
  <1> QED
    BY <1>1, <1>3, <1>4 DEF EstadoCoherente, EstadoDeSuLugar, Corriendo

LEMMA InvarianteDeColas == Spec => [](TipoInductivo /\ ColasInductivo)
  BY Inicio, Paso, ColasAlInicio, PasoColas, PTL DEF Spec

(* A process is in at most one place of S-AFA, at most once, whatever the number of *)
(* CPUs, processes and scripts: no handler of the console, of a CPU or of DAM and    *)
(* no planner queues an object without removing it from where it was, and the       *)
(* dummy of a process is never created while another dummy of it is queued or runs. *)
THEOREM CadaProcesoEnUnLugar == Spec => []Unicidad
  BY InvarianteDeColas, ColasUnicidad, PTL

(* What "status" prints, and ejecutarProceso tests between two sentences, is right: *)
(* the process that runs is in state ejecucion, the blocked ones bloqueado and the  *)
(* new ones nuevo, although the state is a field of the object and each handler     *)
(* writes it apart from the queues.                                                 *)
THEOREM EstadoSegunElLugar == Spec => []EstadoCoherente
  BY InvarianteDeColas, ColasEstado, PTL

--------------------------------------------------------------------------------
(* The ready queue is first in, first out *)

Rango(s) == {s[k] : k \in DOMAIN s}

(* those of s that are in t keep their order there, before those that were not in s *)
OrdenConservado(s, t) ==
    \A p \in Rango(s) \cap Rango(t), q \in Rango(t) :
        (q \in Rango(s) => Lugar(s, p) < Lugar(s, q)) => p = q \/ Lugar(t, p) < Lugar(t, q)

LEMMA ElLugar ==
    ASSUME NEW S, NEW s \in Seq(S), Nada \notin S, SinRepetir(s)
    PROVE  \A k \in DOMAIN s : Lugar(s, s[k]) = k
  <1> SUFFICES ASSUME NEW k \in DOMAIN s PROVE Lugar(s, s[k]) = k
    OBVIOUS
  <1>1. s[k] # Nada
    BY ElementOfSeq, LenProperties
  <1>2. \A m \in DOMAIN s : s[m] = s[k] => m = k
    BY <1>1 DEF SinRepetir
  <1> QED
    BY <1>2 DEF Lugar

LEMMA OrdenAlFinal ==
    ASSUME NEW S, NEW s \in Seq(S), NEW e \in S, Nada \notin S, SinRepetir(s), SinRepetir(Append(s, e))
    PROVE  OrdenConservado(s, Append(s, e))
  <1> DEFINE n == Len(s)
             t == Append(s, e)
  <1>1. /\ n \in Nat /\ DOMAIN s = 1 .. n /\ DOMAIN t = 1 .. (n + 1) /\ t \in Seq(S)
        /\ (\A k \in 1 .. n : t[k] = s[k]) /\ t[n + 1] = e
    BY LenProperties, AppendProperties
  <1>2. (\A k \in 1 .. n : Lugar(s, s[k]) = k) /\ \A k \in 1 .. (n + 1) : Lugar(t, t[k]) = k
    BY <1>1, ElLugar
  <1> HIDE DEF n, t
  <1> SUFFICES ASSUME NEW k \in 1 .. n, NEW m \in 1 .. (n + 1),
                      t[m] \in Rango(s) => Lugar(s, s[k]) < Lugar(s, t[m])
               PROVE  Lugar(t, s[k]) < Lugar(t, t[m])
    BY <1>1 DEF OrdenConservado, Rango, t
  <1>3. Lugar(t, s[k]) = k /\ Lugar(t, t[m]) = m
    BY <1>1, <1>2
  <1>4. CASE m \in 1 .. n
    <2>1. t[m] \in Rango(s) /\ Lugar(s, t[m]) = m /\ Lugar(s, s[k]) = k
      BY <1>1, <1>2, <1>4 DEF Rango
    <2> QED
      BY <1>3, <2>1
  <1>5. CASE m = n + 1
    BY <1>1, <1>3, <1>5
  <1> QED
    BY <1>1, <1>4, <1>5

LEMMA OrdenSinPrimero ==
    ASSUME NEW S, NEW s \in Seq(S), s # <<>>, Nada \notin S, SinRepetir(s)
    PROVE  OrdenConservado(s, Tail(s))
  <1> DEFINE n == Len(s)
             r == n - 1
             t == Tail(s)
  <1>1. n \in Nat /\ n # 0 /\ DOMAIN s = 1 .. n
    BY LenProperties, EmptySeq
  <1>2. t \in Seq(S) /\ Len(t) = r /\ (\A k \in 1 .. r : t[k] = s[k + 1]) /\ SinRepetir(t)
    BY HeadTailProperties, ElPrimero
  <1>3. DOMAIN t = 1 .. r /\ r \in Nat /\ n = r + 1
    BY <1>1, <1>2, LenProperties
  <1> HIDE DEF n, t, r
  <1>4. (\A k \in 1 .. n : Lugar(s, s[k]) = k) /\ \A k \in 1 .. r : Lugar(t, t[k]) = k
    BY <1>1, <1>2, <1>3, ElLugar
  <1>5. \A k \in 1 .. r : t[k] \in Rango(s) /\ Lugar(s, t[k]) = k + 1
    <2> SUFFICES ASSUME NEW k \in 1 .. r PROVE t[k] \in Rango(s) /\ Lugar(s, t[k]) = k + 1
      OBVIOUS
    <2>1. k + 1 \in 1 .. n
      BY <1>3
    <2> QED
      BY <1>1, <1>2, <1>4, <2>1 DEF Rango
  <1> SUFFICES ASSUME NEW k \in 1 .. r, NEW m \in 1 .. r, Lugar(s, t[k]) < Lugar(s, t[m])
               PROVE  Lugar(t, t[k]) < Lugar(t, t[m])
    BY <1>3, <1>5 DEF OrdenConservado, Rango, t
  <1>6. k + 1 < m + 1
    BY <1>5
  <1>7. k < m
    BY <1>6
  <1> QED
    BY <1>4, <1>7

LEMMA OrdenSin ==
    ASSUME NEW S, NEW s \in Seq(S), NEW i, Nada \notin S, SinRepetir(s)
    PROVE  OrdenConservado(s, Sin(s, i))
  <1>1. CASE Tiene(s, i)
    <2> DEFINE n == Len(s)
               r == n - 1
               j == Primera(s, i)
               f(k) == IF k < j THEN k ELSE k + 1
               t == [k \in 1 .. (n - 1) |-> s[f(k)]]
    <2>1. n \in Nat /\ DOMAIN s = 1 .. n /\ (\A k \in 1 .. n : s[k] \in S) /\ j \in 1 .. n
      BY <1>1, PrimeraEsta, LenProperties, ElementOfSeq
    <2>2. Sin(s, i) = t
      BY <1>1 DEF Sin
    <2>3. DOMAIN t = 1 .. r /\ \A k \in 1 .. r : t[k] = s[f(k)]
      OBVIOUS
    <2>4. t \in Seq(S) /\ SinRepetir(t)
      <3>1. Sin(s, i) \in Seq(S)
        BY SinTipo
      <3>2. SinRepetir(Sin(s, i))
        BY ElDeEseId
      <3> QED
        BY <2>2, <3>1, <3>2
    <2> HIDE DEF t, j
    <2>5. \A k \in 1 .. r : f(k) \in 1 .. n
      BY <2>1
    <2>6. \A k, m \in 1 .. r : f(k) < f(m) => k < m
      BY <2>1
    <2> HIDE DEF n, r, f
    <2>7. (\A k \in 1 .. n : Lugar(s, s[k]) = k) /\ \A k \in 1 .. r : Lugar(t, t[k]) = k
      BY <2>1, <2>3, <2>4, ElLugar
    <2>8. \A k \in 1 .. r : t[k] \in Rango(s) /\ Lugar(s, t[k]) = f(k)
      BY <2>1, <2>3, <2>5, <2>7 DEF Rango
    <2>9. ASSUME NEW k \in 1 .. r, NEW m \in 1 .. r, Lugar(s, t[k]) < Lugar(s, t[m])
          PROVE  Lugar(t, t[k]) < Lugar(t, t[m])
      <3>1. f(k) < f(m)
        BY <2>8, <2>9
      <3>2. k < m
        BY <2>6, <3>1
      <3> QED
        BY <2>7, <3>2
    <2>10. \A p \in Rango(t) : \E k \in 1 .. r : p = t[k]
      BY <2>3 DEF Rango
    <2>11. OrdenConservado(s, t)
      BY <2>8, <2>9, <2>10 DEF OrdenConservado
    <2> QED
      BY <2>2, <2>11
  <1>2. CASE ~Tiene(s, i)
    BY <1>2 DEF Sin, OrdenConservado
  <1> QED
    BY <1>1, <1>2

(* All that ever happens to the ready queue and to the process that runs. *)
LEMMA MovimientosDeListos ==
    ASSUME [Next]_vars
    PROVE  \/ /\ procesos_listos' = procesos_listos \/ \E e : procesos_listos' = Append(procesos_listos, e)
              /\ procesoEnEjecucion' \in {procesoEnEjecucion, Nada}
           \/ /\ procesos_listos # <<>> /\ procesos_listos' = Tail(procesos_listos)
              /\ procesoEnEjecucion' = Head(procesos_listos)
           \/ /\ \E i : procesos_listos' = Sin(procesos_listos, i)
              /\ procesoEnEjecucion' = procesoEnEjecucion
  <1> DEFINE Quieta == procesos_listos' = procesos_listos /\ procesoEnEjecucion' \in {procesoEnEjecucion, Nada}
             Crece == /\ \E e : procesos_listos' = Append(procesos_listos, e)
                      /\ procesoEnEjecucion' \in {procesoEnEjecucion, Nada}
             Sale == /\ procesos_listos # <<>> /\ procesos_listos' = Tail(procesos_listos)
                     /\ procesoEnEjecucion' = Head(procesos_listos)
             Pierde == /\ \E i : procesos_listos' = Sin(procesos_listos, i)
                       /\ procesoEnEjecucion' = procesoEnEjecucion
  <1> SUFFICES Quieta \/ Crece \/ Sale \/ Pierde
    OBVIOUS
  <1>1. ASSUME NEW causa, Caer(causa) PROVE Quieta
    BY <1>1 DEF Caer, colas
  <1>2. CASE PasoSAFA(Consola)
    <2>1. ASSUME NEW e \in Escriptorios, Ejecutar(e) PROVE Quieta \/ Crece
      <3> DEFINE i == ACargar(NuevoAlFinal, Append(dtb, [socketProceso |-> CPULibre, pathEscriptorio |-> e,
                                                         seEstaCargando |-> 0]))
      <3>1. procesos_listos' = procesos_listos \/ procesos_listos' = Append(procesos_listos, Dummy(i))
        BY <2>1 DEF Ejecutar
      <3>2. procesoEnEjecucion' = procesoEnEjecucion
        BY <2>1 DEF Ejecutar
      <3> HIDE DEF i
      <3> QED
        BY <3>1, <3>2
    <2>2. ASSUME NEW i \in Ids, Finalizar(i) PROVE Pierde
      BY <2>2 DEF Finalizar
    <2>3. ASSUME NEW i \in Ids, \/ FinalizarEnEjecucion(i) \/ FinalizarListoSinEjecucion(i)
                                \/ StatusProceso(i) \/ StatusCae(i)
          PROVE  Quieta
      <3> HIDE DEF Quieta
      <3>1. FinalizarListoSinEjecucion(i) \/ StatusCae(i) => Quieta
        BY <1>1 DEF FinalizarListoSinEjecucion, StatusCae
      <3>2. FinalizarEnEjecucion(i) \/ StatusProceso(i) => Quieta
        BY DEF FinalizarEnEjecucion, StatusProceso, colas, Quieta
      <3> QED
        BY <2>3, <3>1, <3>2
    <2> HIDE DEF Quieta, Crece, Pierde
    <2>4. EjecutarSinCPU \/ StatusColasCae => Quieta
      BY <1>1 DEF EjecutarSinCPU, StatusColasCae
    <2> QED
      BY <1>2, <2>1, <2>2, <2>3, <2>4 DEF PasoSAFA, Consola
  <1>3. CASE PasoSAFA(PCP)
    <2>1. PCPSeleccionar => Quieta \/ Sale
      BY DEF PCPSeleccionar, round_robin
    <2>2. PCPEnviar => Quieta
      BY DEF PCPEnviar, colas
    <2>3. PCPQuitar => Pierde
      BY DEF PCPQuitar
    <2> HIDE DEF Quieta, Sale, Pierde
    <2>4. PCPCae => Quieta
      BY <1>1 DEF PCPCae
    <2> QED
      BY <1>3, <2>1, <2>2, <2>3, <2>4 DEF PasoSAFA, PCP
  <1>4. CASE PasoSAFA(EjecutarProceso)
    BY <1>4 DEF PasoSAFA, EjecutarProceso, EjecDespertar, EjecCondicion, EjecOrdenar, colas
  <1>5. CASE PasoSAFA(ConexionDAM)
    <2>1. AbrirOk \/ OperacionOk => Crece
      BY DEF AbrirOk, OperacionOk
    <2>2. AbrirMal \/ OperacionMal => Quieta
      BY DEF AbrirMal, OperacionMal
    <2> HIDE DEF Quieta, Crece
    <2>3. AbrirSinNuevo \/ OperacionOkSinBloqueado => Quieta
      BY <1>1 DEF AbrirSinNuevo, OperacionOkSinBloqueado
    <2> QED
      BY <1>5, <2>1, <2>2, <2>3 DEF PasoSAFA, ConexionDAM
  <1>6. ASSUME NEW c \in CPUs, PasoSAFA(ConexionCPU(c)) PROVE Quieta \/ Crece
    <2>1. FinDeQuantum(c) => Crece
      BY DEF FinDeQuantum, Desocupar
    <2>2. FinDeScript(c) \/ FinIgnorado(c) \/ FinDeSentencia(c) \/ DummyEnviado(c) \/ Bloquear(c) => Quieta
      BY DEF FinDeScript, FinIgnorado, FinDeSentencia, DummyEnviado, Bloquear, Desocupar, safa, colas
    <2> HIDE DEF Quieta, Crece
    <2>3. (\/ FinDeQuantumSinProceso(c) \/ VerificarSiFinalizar(c) \/ DummySinProceso(c)
           \/ BloquearSinProceso(c) \/ Recurso(c)) => Quieta
      BY <1>1 DEF FinDeQuantumSinProceso, VerificarSiFinalizar, DummySinProceso, BloquearSinProceso,
                  Recurso, CaerAlRecibir
    <2> QED
      BY <1>6, <2>1, <2>2, <2>3 DEF PasoSAFA, ConexionCPU
  <1>7. ASSUME NEW c \in CPUs, PasoCPU(c) \/ PasoDAM(c) PROVE Quieta
    BY <1>7 DEF PasoCPU, PasoDAM, safa, colas
  <1>8. UNCHANGED vars => Quieta
    BY DEF vars, safa, colas
  <1> HIDE DEF Quieta, Crece, Sale, Pierde
  <1> QED
    BY <1>2, <1>3, <1>4, <1>5, <1>6, <1>7, <1>8 DEF Next

LEMMA PasoListos ==
    ASSUME TipoInductivo, ColasInductivo, [Next]_vars
    PROVE  /\ OrdenConservado(procesos_listos, procesos_listos')
           /\ procesoEnEjecucion' \in Rango(procesos_listos) /\ procesoEnEjecucion' # procesoEnEjecucion
                => procesoEnEjecucion' = Head(procesos_listos)
  <1> DEFINE s == procesos_listos
             t == procesos_listos'
  <1>1. TipoInductivo' /\ ColasInductivo'
    BY Paso, PasoColas
  <1>2. s \in Seq(Objetos) /\ t \in Seq(Objetos) /\ Nada \notin Objetos
    BY <1>1, CreadosObjetos DEF TipoInductivo, TypeOK, SAFATypeOK
  <1>3. SinRepetir(s) /\ SinRepetir(t)
    BY <1>1 DEF ColasInductivo, UnaVez
  <1>4. Nada \notin Rango(s)
    BY <1>2, ElementOfSeq, LenProperties DEF Rango
  <1> HIDE DEF s, t
  <1>5. CASE /\ t = s \/ \E e : t = Append(s, e)
             /\ procesoEnEjecucion' \in {procesoEnEjecucion, Nada}
    <2>1. t = s => OrdenConservado(s, t)
      BY DEF OrdenConservado
    <2>2. ASSUME NEW e, t = Append(s, e) PROVE OrdenConservado(s, t)
      <3>1. Len(s) \in Nat /\ Len(t) = Len(s) + 1 /\ t[Len(s) + 1] = e
        BY <1>2, <2>2
      <3>2. e \in Objetos
        BY <1>2, <3>1, ElementOfSeq
      <3> QED
        BY <1>2, <1>3, <2>2, <3>2, OrdenAlFinal
    <2> QED
      BY <1>4, <1>5, <2>1, <2>2 DEF s, t
  <1>6. CASE s # <<>> /\ t = Tail(s) /\ procesoEnEjecucion' = Head(s)
    <2>1. OrdenConservado(s, t)
      BY <1>2, <1>3, <1>6, OrdenSinPrimero
    <2> QED
      BY <1>6, <2>1 DEF s, t
  <1>7. CASE /\ \E i : t = Sin(s, i)
             /\ procesoEnEjecucion' = procesoEnEjecucion
    <2>1. OrdenConservado(s, t)
      BY <1>2, <1>3, <1>7, OrdenSin
    <2> QED
      BY <1>7, <2>1 DEF s, t
  <1> QED
    BY <1>5, <1>6, <1>7, MovimientosDeListos DEF s, t

(* The ready queue is first in, first out whoever touches it: the short-term       *)
(* planner, whose second removal looks for an idBuscar other threads change, the    *)
(* console that finalises, the end of a quantum, and DAM's answers that queue at    *)
(* the same time.                                                                   *)
THEOREM PlanificadorCortoPlazoFIFO == Spec => ListosFIFO
  <1> DEFINE antes == {procesos_listos[k] : k \in DOMAIN procesos_listos}
             ahora == {procesos_listos'[k] : k \in DOMAIN procesos_listos'}
             FIFO == /\ \A p \in antes \cap ahora, q \in ahora :
                          (q \in antes => Lugar(procesos_listos, p) < Lugar(procesos_listos, q))
                              => p = q \/ Lugar(procesos_listos', p) < Lugar(procesos_listos', q)
                     /\ procesoEnEjecucion' \in antes /\ procesoEnEjecucion' # procesoEnEjecucion
                          => procesoEnEjecucion' = Head(procesos_listos)
  <1>1. TipoInductivo /\ ColasInductivo /\ [Next]_vars => [FIFO]_vars
    BY PasoListos DEF OrdenConservado, Rango
  <1> QED
    BY <1>1, InvarianteDeColas, PTL DEF ListosFIFO, Spec

--------------------------------------------------------------------------------
(* The quantum.  Property and inductive invariant are the same. *)

LEMMA PasoQuantum == QuantumEnRango /\ [Next]_vars => QuantumEnRango'
  <1> SUFFICES ASSUME QuantumEnRango, [Next]_vars PROVE QuantumEnRango'
    OBVIOUS
  <1>1. CASE UNCHANGED quantumRestante
    BY <1>1 DEF QuantumEnRango
  <1>2. CASE Desocupar
    BY <1>2, SAFAAssumption DEF Desocupar, QuantumEnRango
  <1>3. ASSUME NEW causa, Caer(causa) PROVE UNCHANGED quantumRestante
    BY <1>3 DEF Caer
  <1>4. CASE PasoSAFA(Consola)
    <2>1. ASSUME NEW e \in Escriptorios, Ejecutar(e) PROVE UNCHANGED quantumRestante
      BY <2>1 DEF Ejecutar
    <2>2. ASSUME NEW i \in Ids, \/ Finalizar(i) \/ FinalizarEnEjecucion(i) \/ FinalizarListoSinEjecucion(i)
                                \/ StatusProceso(i) \/ StatusCae(i)
          PROVE  UNCHANGED quantumRestante
      BY <1>3, <2>2 DEF Finalizar, FinalizarEnEjecucion, FinalizarListoSinEjecucion, StatusProceso, StatusCae
    <2>3. EjecutarSinCPU \/ StatusColasCae => UNCHANGED quantumRestante
      BY <1>3 DEF EjecutarSinCPU, StatusColasCae
    <2> QED
      BY <1>1, <1>4, <2>1, <2>2, <2>3 DEF PasoSAFA, Consola
  <1>5. CASE PasoSAFA(PCP)
    BY <1>1, <1>3, <1>5 DEF PasoSAFA, PCP, PCPSeleccionar, PCPEnviar, PCPQuitar, PCPCae
  <1>6. CASE PasoSAFA(EjecutarProceso)
    BY <1>1, <1>6 DEF PasoSAFA, EjecutarProceso, EjecDespertar, EjecCondicion, EjecOrdenar
  <1>7. CASE PasoSAFA(ConexionDAM)
    BY <1>1, <1>3, <1>7 DEF PasoSAFA, ConexionDAM, AbrirOk, AbrirMal, AbrirSinNuevo, OperacionOk,
                            OperacionOkSinBloqueado, OperacionMal
  <1>8. ASSUME NEW c \in CPUs, PasoSAFA(ConexionCPU(c)) PROVE QuantumEnRango'
    <2>1. CASE FinDeSentencia(c)
      BY <2>1, SAFAAssumption DEF FinDeSentencia, QuantumEnRango
    <2>2. CASE FinDeScript(c) \/ FinDeQuantum(c) \/ DummyEnviado(c) \/ Bloquear(c)
      BY <1>2, <2>2 DEF FinDeScript, FinDeQuantum, DummyEnviado, Bloquear
    <2>3. CASE \/ FinIgnorado(c) \/ FinDeQuantumSinProceso(c) \/ VerificarSiFinalizar(c)
               \/ DummySinProceso(c) \/ BloquearSinProceso(c) \/ Recurso(c)
      BY <1>1, <1>3, <2>3 DEF FinIgnorado, FinDeQuantumSinProceso, VerificarSiFinalizar, DummySinProceso,
                              BloquearSinProceso, Recurso, CaerAlRecibir, safa
    <2> QED
      BY <1>8, <2>1, <2>2, <2>3 DEF PasoSAFA, ConexionCPU
  <1>9. ASSUME NEW c \in CPUs, PasoCPU(c) \/ PasoDAM(c) PROVE QuantumEnRango'
    BY <1>1, <1>9 DEF PasoCPU, PasoDAM, safa
  <1>10. CASE UNCHANGED vars
    BY <1>1, <1>10 DEF vars, safa
  <1> QED
    BY <1>4, <1>5, <1>6, <1>7, <1>8, <1>9, <1>10 DEF Next

(* With RR, however the answers of several CPUs interleave, the running process has *)
(* between one sentence and a whole quantum left: quantumRestante is one global     *)
(* that every CPU's thread decrements, and never reaches zero.                      *)
THEOREM ElQuantumNoSeAgota ==
    ASSUME Algoritmo = "RR"
    PROVE  Spec => []QuantumEnRango
  <1>1. Init => QuantumEnRango
    BY SAFAAssumption DEF Init, InitSAFA, QuantumEnRango
  <1> QED
    BY <1>1, PasoQuantum, PTL DEF Spec

--------------------------------------------------------------------------------
(* The phase of a process is read from the places of its object *)

(* Fase(i), with n processes created, the mark m and the five places *)
FaseEn(i, n, m, N, X, L, B, T) ==
    IF i > n THEN "sinCrear"
    ELSE IF Real(i) \in N THEN IF m = 1 THEN "cargando" ELSE "nuevo"
    ELSE IF Real(i) \in X THEN "ejecucion"
    ELSE IF Real(i) \in L THEN "listo"
    ELSE IF Real(i) \in B THEN "bloqueado"
    ELSE IF Real(i) \in T THEN "terminado" ELSE "perdido"

PorLugares ==
    \A i \in Ids : Fases[i] = FaseEn(i, Len(dtb), dtb[i].seEstaCargando,
                                     EnNuevos, Corriendo, EnListos, EnBloqueados, EnTerminados)

LEMMA RealEsDeUno ==
    /\ \A i \in Ids : Real(i) \in Objetos /\ Real(i) # Nada /\ Real(i).id = i
    /\ \A i, j : (Real(i) = Real(j) => i = j) /\ Real(i) # Dummy(j)
    /\ \A p \in Objetos : p = Real(p.id) \/ p = Dummy(p.id)
  <1>1. \A i \in Ids : Real(i) \in Objetos /\ Real(i).id = i
    BY DEF Real, Objetos
  <1>2. Nada \notin Objetos
    BY CreadosObjetos
  <1>3. \A i, j : (Real(i) = Real(j) => i = j) /\ Real(i) # Dummy(j)
    <2>1. \A i : Real(i).id = i /\ Real(i).flagInicializacion = 1 /\ Dummy(i).flagInicializacion = 0
      BY DEF Real, Dummy
    <2> QED
      BY <2>1
  <1>4. \A p \in Objetos : p = Real(p.id) \/ p = Dummy(p.id)
    BY DEF Real, Dummy, Objetos
  <1> QED
    BY <1>1, <1>2, <1>3, <1>4

LEMMA FaseDeLugar == PorLugares
  <1> SUFFICES ASSUME NEW i \in Ids
               PROVE  Fase(i) = FaseEn(i, Len(dtb), dtb[i].seEstaCargando,
                                       EnNuevos, Corriendo, EnListos, EnBloqueados, EnTerminados)
    BY DEF Fases, PorLugares
  <1>1. Real(i) # Nada
    BY RealEsDeUno
  <1>2. ASSUME NEW s PROVE Esta(s, Real(i)) <=> Real(i) \in Elementos(s)
    BY <1>1 DEF Esta, Elementos
  <1>3. (procesoEnEjecucion = Real(i)) <=> Real(i) \in Corriendo
    BY <1>1 DEF Corriendo
  <1>4. Colas.terminados = Acabados
    BY DEF Colas, Acabados, DeTerminados
  <1> QED
    BY <1>2, <1>3, <1>4 DEF Fase, FaseEn, EnNuevos, EnListos, EnBloqueados, EnTerminados

LEMMA FaseDeLugarDespues == PorLugares'
  BY FaseDeLugar, PTL

(* The changes of phase of one process that CicloDeVida allows *)
Permitido(de, a) ==
    \/ de \in {"cargando", "ejecucion", "bloqueado"} /\ a = "listo"
    \/ de = "ejecucion" /\ a = "bloqueado"
    \/ de \in {"listo", "ejecucion"} /\ a = "perdido"
    \/ de \in {"nuevo", "cargando", "listo", "ejecucion", "bloqueado"} /\ a = "terminado"

LEMMA UnPaso ==
    ASSUME NEW de, NEW a, Permitido(de, a),
           Fases' = Fases \/ \E i \in Ids : Fases[i] = de /\ Fases' = [Fases EXCEPT ![i] = a]
    PROVE  Ciclo!Next \/ Fases' = Fases
  BY DEF Permitido, Ciclo!Next, Ciclo!Pasa, Ciclo!Procesos, Ciclo!Cargado, Ciclo!Desalojar, Ciclo!Bloquear,
         Ciclo!Desbloquear, Ciclo!Perder, Ciclo!Terminar, Ids

(* A step that moves the object x from a place to another moves its process, if x *)
(* is not a dummy, from a phase to another.                                        *)
LEMMA Mueve ==
    ASSUME NEW x \in Objetos, NEW de, NEW a, Permitido(de, a),
           \A i \in Ids : Real(i) = x => Fases[i] = de /\ Fases'[i] = a,
           \A i \in Ids : Real(i) # x => Fases'[i] = Fases[i]
    PROVE  Ciclo!Next \/ Fases' = Fases
  <1>1. Fases = [i \in Ids |-> Fases[i]] /\ Fases' = [i \in Ids |-> Fases'[i]]
    BY DEF Fases
  <1>2. CASE x = Real(x.id)
    <2> DEFINE i == x.id
    <2>1. i \in Ids /\ \A j \in Ids : j # i => Real(j) # x
      BY <1>2, RealEsDeUno DEF Objetos
    <2>2. Fases[i] = de /\ Fases'[i] = a /\ \A j \in Ids : j # i => Fases'[j] = Fases[j]
      BY <1>2, <2>1
    <2> HIDE DEF i
    <2>3. Fases' = [Fases EXCEPT ![i] = a]
      BY <1>1, <2>1, <2>2
    <2> QED
      BY <2>1, <2>2, <2>3, UnPaso
  <1>3. CASE x # Real(x.id)
    <2>1. \A i \in Ids : Fases'[i] = Fases[i]
      BY <1>3, RealEsDeUno
    <2> QED
      BY <1>1, <2>1
  <1> QED
    BY <1>2, <1>3

--------------------------------------------------------------------------------
(* One lemma per kind of step.  What each step does to the places was proved with *)
(* ColasInductivo.                                                                 *)

(* the running process leaves: 'f', 'e', 'r' at the end of the quantum, 'b', 'd' *)
LEMMA CicloSeVa ==
    ASSUME TipoInductivo, ColasInductivo, procesoEnEjecucion \in Corriendo,
           dtb' = dtb, Corriendo' = {}, EnNuevos' = EnNuevos,
           \/ /\ EnListos' \in {EnListos, EnListos \cup Corriendo}
              /\ EnBloqueados' = EnBloqueados /\ EnTerminados' = EnTerminados
           \/ /\ EnListos' = EnListos /\ EnTerminados' = EnTerminados
              /\ EnBloqueados' = EnBloqueados \cup Corriendo
           \/ /\ EnListos' = EnListos /\ EnBloqueados' = EnBloqueados
              /\ EnTerminados' = EnTerminados \cup Corriendo
    PROVE  Ciclo!Next \/ Fases' = Fases
  <1> DEFINE x == procesoEnEjecucion
  <1>1. Corriendo = {x} /\ x \in Objetos /\ Separados /\ PorLugares /\ PorLugares'
        /\ \A i \in Ids : Real(i) = x => ~(i > Len(dtb))
    <2>1. x \in Creados(Len(dtb)) /\ Len(dtb) \in Nat
      BY LugaresDeCreados
    <2>2. x \in Objetos /\ ~(x.id > Len(dtb))
      BY <2>1, CreadosObjetos
    <2>3. \A i \in Ids : Real(i) = x => ~(i > Len(dtb))
      BY <2>2, RealEsDeUno
    <2> QED
      BY <2>2, <2>3, FaseDeLugar, FaseDeLugarDespues DEF ColasInductivo, Corriendo
  <1> HIDE DEF x
  <1>2. x \notin EnNuevos /\ x \notin EnListos /\ x \notin EnBloqueados /\ x \notin EnTerminados
    BY <1>1 DEF Separados
  <1>3. /\ \A i \in Ids : Real(i) # x => Fases'[i] = Fases[i]
        /\ \A i \in Ids : Real(i) = x => Fases[i] = "ejecucion"
    BY <1>1, <1>2 DEF PorLugares, FaseEn
  <1>4. CASE EnListos' = EnListos /\ EnBloqueados' = EnBloqueados /\ EnTerminados' = EnTerminados
    <2>1. \A i \in Ids : Real(i) = x => Fases'[i] = "perdido"
      BY <1>1, <1>2, <1>4 DEF PorLugares, FaseEn
    <2> QED
      BY <1>1, <1>3, <2>1, Mueve DEF Permitido
  <1>5. CASE EnListos' = EnListos \cup Corriendo /\ EnBloqueados' = EnBloqueados /\ EnTerminados' = EnTerminados
    <2>1. \A i \in Ids : Real(i) = x => Fases'[i] = "listo"
      BY <1>1, <1>2, <1>5 DEF PorLugares, FaseEn
    <2> QED
      BY <1>1, <1>3, <2>1, Mueve DEF Permitido
  <1>6. CASE EnListos' = EnListos /\ EnBloqueados' = EnBloqueados \cup Corriendo /\ EnTerminados' = EnTerminados
    <2>1. \A i \in Ids : Real(i) = x => Fases'[i] = "bloqueado"
      BY <1>1, <1>2, <1>6 DEF PorLugares, FaseEn
    <2> QED
      BY <1>1, <1>3, <2>1, Mueve DEF Permitido
  <1>7. CASE EnListos' = EnListos /\ EnBloqueados' = EnBloqueados /\ EnTerminados' = EnTerminados \cup Corriendo
    <2>1. \A i \in Ids : Real(i) = x => Fases'[i] = "terminado"
      BY <1>1, <1>2, <1>7 DEF PorLugares, FaseEn
    <2> QED
      BY <1>1, <1>3, <2>1, Mueve DEF Permitido
  <1> QED
    BY <1>4, <1>5, <1>6, <1>7

(* planificadorCortoPlazo puts a process to run over the one that ran, if any *)
LEMMA CicloSeleccionar ==
    ASSUME TipoInductivo, ColasInductivo, dtb' = dtb,
           NEW x \in EnListos, Corriendo' = {x}, EnListos' = EnListos \ {x},
           UNCHANGED <<EnNuevos, EnBloqueados, EnTerminados>>
    PROVE  Ciclo!Next \/ Fases' = Fases
  <1>1. Separados /\ PorLugares /\ PorLugares' /\ x \in Objetos /\ ~(x.id > Len(dtb))
    <2>1. x \in Creados(Len(dtb)) /\ Len(dtb) \in Nat
      BY LugaresDeCreados
    <2> QED
      BY <2>1, CreadosObjetos, FaseDeLugar, FaseDeLugarDespues DEF ColasInductivo
  <1>2. x \notin EnNuevos /\ x \notin Corriendo /\ x \notin EnBloqueados /\ x \notin EnTerminados
        /\ \A y \in Corriendo : y \notin EnNuevos /\ y \notin EnListos /\ y \notin EnBloqueados /\ y \notin EnTerminados
    BY <1>1 DEF Separados
  <1>3. \A i \in Ids : Real(i) = x => Fases[i] = "listo" /\ Fases'[i] = "ejecucion"
    <2>1. \A i \in Ids : Real(i) = x => ~(i > Len(dtb))
      BY <1>1, RealEsDeUno
    <2> QED
      BY <1>1, <1>2, <2>1 DEF PorLugares, FaseEn
  <1>4. \A i \in Ids : Real(i) # x =>
           Fases'[i] = IF Fases[i] = "ejecucion" THEN "perdido" ELSE Fases[i]
    BY <1>1, <1>2 DEF PorLugares, FaseEn
  <1>5. CASE x = Real(x.id)
    <2> DEFINE i == x.id
    <2>1. i \in Ids /\ \A j \in Ids : j # i => Real(j) # x
      BY <1>1, <1>5, RealEsDeUno DEF Objetos
    <2>2. Fases[i] = "listo" /\ Fases'[i] = "ejecucion"
      BY <1>3, <1>5, <2>1
    <2>3. \A j \in Ids : Fases'[j] = IF j = i THEN "ejecucion"
                                    ELSE IF Fases[j] = "ejecucion" THEN "perdido" ELSE Fases[j]
      BY <1>4, <2>1, <2>2
    <2> HIDE DEF i
    <2>4. Fases' = [j \in Ids |-> IF j = i THEN "ejecucion"
                                 ELSE IF Fases[j] = "ejecucion" THEN "perdido" ELSE Fases[j]]
      <3>1. Fases' = [j \in Ids |-> Fases'[j]]
        BY DEF Fases
      <3> QED
        BY <2>3, <3>1
    <2>5. Ciclo!Despachar(i)
      BY <2>2, <2>4 DEF Ciclo!Despachar, Ciclo!Procesos, Ids
    <2> QED
      BY <2>1, <2>5 DEF Ciclo!Next, Ciclo!Procesos, Ids
  <1>6. CASE x # Real(x.id)
    <2>1. \A i \in Ids : Real(i) # x
      BY <1>6, RealEsDeUno
    <2> DEFINE y == procesoEnEjecucion
    <2>2. \A i \in Ids : Fases[i] = "ejecucion" <=> Real(i) = y /\ Real(i) \in Corriendo /\ ~(i > Len(dtb))
      BY <1>1, <1>2 DEF PorLugares, FaseEn, Corriendo
    <2>3. CASE y = Nada
      <3>1. \A i \in Ids : Fases'[i] = Fases[i]
        BY <1>4, <2>1, <2>2, <2>3, RealEsDeUno
      <3> QED
        BY <3>1 DEF Fases
    <2>4. CASE y # Nada
      <3>1. y \in Corriendo /\ y \in Objetos /\ ~(y.id > Len(dtb))
        <4>1. y \in Corriendo
          BY <2>4 DEF Corriendo
        <4>2. y \in Creados(Len(dtb)) /\ Len(dtb) \in Nat
          BY <4>1, LugaresDeCreados
        <4> QED
          BY <4>1, <4>2, CreadosObjetos
      <3> HIDE DEF y
      <3>2. \A i \in Ids : Real(i) = y => Fases[i] = "ejecucion" /\ Fases'[i] = "perdido"
        BY <1>4, <2>1, <2>2, <3>1, RealEsDeUno
      <3>3. \A i \in Ids : Real(i) # y => Fases'[i] = Fases[i]
        BY <1>4, <2>1, <2>2
      <3> QED
        BY <3>1, <3>2, <3>3, Mueve DEF Permitido
    <2> QED
      BY <2>3, <2>4
  <1> QED
    BY <1>5, <1>6

(* An object that S-AFA has is not of a process still to be created. *)
LEMMA YaCreado ==
    ASSUME TipoInductivo, ColasInductivo,
           NEW x \in EnNuevos \cup EnListos \cup EnBloqueados \cup EnTerminados \cup Corriendo
    PROVE  x \in Objetos /\ x.id \in 1 .. Len(dtb) /\ \A i \in Ids : Real(i) = x => ~(i > Len(dtb))
  <1>1. x \in Creados(Len(dtb)) /\ Len(dtb) \in Nat
    BY LugaresDeCreados DEF ColasInductivo
  <1>2. x \in Objetos /\ x.id \in 1 .. Len(dtb)
    BY <1>1, CreadosObjetos
  <1>3. ~(x.id > Len(dtb))
    BY <1>1, <1>2
  <1> QED
    BY <1>2, <1>3, RealEsDeUno

(* the second removal of the planner loses a ready process *)
LEMMA CicloQuitar ==
    ASSUME TipoInductivo, ColasInductivo, dtb' = dtb,
           UNCHANGED <<EnNuevos, EnBloqueados, EnTerminados, Corriendo>>,
           EnListos' = EnListos \/ \E y \in EnListos : EnListos' = EnListos \ {y}
    PROVE  Ciclo!Next \/ Fases' = Fases
  <1>1. Separados /\ PorLugares /\ PorLugares'
    BY FaseDeLugar, FaseDeLugarDespues DEF ColasInductivo
  <1>2. CASE EnListos' = EnListos
    <2>1. \A i \in Ids : Fases'[i] = Fases[i]
      BY <1>1, <1>2 DEF PorLugares
    <2> QED
      BY <2>1 DEF Fases
  <1>3. ASSUME NEW x \in EnListos, EnListos' = EnListos \ {x} PROVE Ciclo!Next \/ Fases' = Fases
    <2>1. x \in Objetos /\ \A i \in Ids : Real(i) = x => ~(i > Len(dtb))
      BY YaCreado
    <2>2. x \notin EnNuevos /\ x \notin Corriendo /\ x \notin EnBloqueados /\ x \notin EnTerminados
      BY <1>1 DEF Separados
    <2>3. \A i \in Ids : Real(i) = x => Fases[i] = "listo" /\ Fases'[i] = "perdido"
      BY <1>1, <1>3, <2>1, <2>2 DEF PorLugares, FaseEn
    <2>4. \A i \in Ids : Real(i) # x => Fases'[i] = Fases[i]
      BY <1>1, <1>3 DEF PorLugares, FaseEn
    <2> QED
      BY <2>1, <2>3, <2>4, Mueve DEF Permitido
  <1> QED
    BY <1>2, <1>3

(* DAM's answer to a flush, a crear or a borrar releases a blocked process *)
LEMMA CicloOperacion ==
    ASSUME TipoInductivo, ColasInductivo, dtb' = dtb, UNCHANGED <<EnNuevos, Corriendo>>,
           \/ UNCHANGED <<EnListos, EnBloqueados, EnTerminados>>
           \/ \E y \in EnBloqueados :
                 /\ EnBloqueados' = EnBloqueados \ {y}
                 /\ \/ EnListos' = EnListos \cup {y} /\ EnTerminados' = EnTerminados
                    \/ EnListos' = EnListos /\ EnTerminados' = EnTerminados \cup {y}
    PROVE  Ciclo!Next \/ Fases' = Fases
  <1>1. Separados /\ PorLugares /\ PorLugares'
    BY FaseDeLugar, FaseDeLugarDespues DEF ColasInductivo
  <1>2. CASE UNCHANGED <<EnListos, EnBloqueados, EnTerminados>>
    <2>1. \A i \in Ids : Fases'[i] = Fases[i]
      BY <1>1, <1>2 DEF PorLugares
    <2> QED
      BY <2>1 DEF Fases
  <1>3. ASSUME NEW x \in EnBloqueados, EnBloqueados' = EnBloqueados \ {x},
               \/ EnListos' = EnListos \cup {x} /\ EnTerminados' = EnTerminados
               \/ EnListos' = EnListos /\ EnTerminados' = EnTerminados \cup {x}
        PROVE  Ciclo!Next \/ Fases' = Fases
    <2>1. x \in Objetos /\ \A i \in Ids : Real(i) = x => ~(i > Len(dtb))
      BY YaCreado
    <2>2. x \notin EnNuevos /\ x \notin Corriendo /\ x \notin EnListos /\ x \notin EnTerminados
      BY <1>1 DEF Separados
    <2>3. \A i \in Ids : Real(i) = x => Fases[i] = "bloqueado"
      BY <1>1, <2>1, <2>2 DEF PorLugares, FaseEn
    <2>4. \A i \in Ids : Real(i) # x => Fases'[i] = Fases[i]
      BY <1>1, <1>3 DEF PorLugares, FaseEn
    <2>5. CASE EnListos' = EnListos \cup {x} /\ EnTerminados' = EnTerminados
      <3>1. \A i \in Ids : Real(i) = x => Fases'[i] = "listo"
        BY <1>1, <1>3, <2>1, <2>2, <2>5 DEF PorLugares, FaseEn
      <3> QED
        BY <2>1, <2>3, <2>4, <3>1, Mueve DEF Permitido
    <2>6. CASE EnListos' = EnListos /\ EnTerminados' = EnTerminados \cup {x}
      <3>1. \A i \in Ids : Real(i) = x => Fases'[i] = "terminado"
        BY <1>1, <1>3, <2>1, <2>2, <2>6 DEF PorLugares, FaseEn
      <3> QED
        BY <2>1, <2>3, <2>4, <3>1, Mueve DEF Permitido
    <2> QED
      BY <1>3, <2>5, <2>6
  <1> QED
    BY <1>2, <1>3

(* DAM's answer to the abrir of a dummy: a new process becomes ready, if its load *)
(* had begun, or finished                                                          *)
LEMMA CicloAbrir ==
    ASSUME TipoInductivo, ColasInductivo, NEW k \in 1 .. Len(dtb),
           Len(dtb') = Len(dtb),
           \A j \in 1 .. Len(dtb) : j # k => dtb'[j].seEstaCargando = dtb[j].seEstaCargando,
           Real(k) \in EnNuevos, EnNuevos' = EnNuevos \ {Real(k)},
           EnBloqueados' = EnBloqueados, Corriendo' = Corriendo,
           \/ /\ dtb[k].seEstaCargando = 1
              /\ EnListos' = EnListos \cup {Real(k)} /\ EnTerminados' = EnTerminados
           \/ EnListos' = EnListos /\ EnTerminados' = EnTerminados \cup {Real(k)}
    PROVE  Ciclo!Next \/ Fases' = Fases
  <1> DEFINE x == Real(k)
  <1>1. Separados /\ PorLugares /\ PorLugares'
    BY FaseDeLugar, FaseDeLugarDespues DEF ColasInductivo
  <1>2. x \in Objetos /\ \A i \in Ids : Real(i) = x => ~(i > Len(dtb))
    BY YaCreado
  <1>3. \A i \in Ids : Real(i) = x <=> i = k
    BY RealEsDeUno
  <1>4. \A i \in Ids : ~(i > Len(dtb)) => i \in 1 .. Len(dtb)
    BY LugaresDeCreados DEF Ids
  <1>5. k \in Ids
    <2>1. Len(dtb) \in Nat /\ Len(dtb) <= MaxProcesos
      BY LugaresDeCreados DEF TipoInductivo, TypeOK, SAFATypeOK
    <2> QED
      BY <2>1, RedAssumption DEF Ids
  <1> HIDE DEF x
  <1>6. x \notin EnBloqueados /\ x \notin Corriendo /\ x \notin EnListos /\ x \notin EnTerminados /\ x \in EnNuevos
    BY <1>1 DEF Separados, x
  <1>7. EnNuevos' = EnNuevos \ {x}
    BY DEF x
  <1>8. \A i \in Ids : Real(i) = x => Fases[i] = IF dtb[k].seEstaCargando = 1 THEN "cargando" ELSE "nuevo"
    BY <1>1, <1>2, <1>3, <1>6 DEF PorLugares, FaseEn
  <1>9. CASE dtb[k].seEstaCargando = 1 /\ EnListos' = EnListos \cup {x} /\ EnTerminados' = EnTerminados
    <2>1. \A i \in Ids : Real(i) = x => Fases[i] = "cargando"
      BY <1>8, <1>9
    <2>2. \A i \in Ids : Real(i) = x => Fases'[i] = "listo"
      BY <1>1, <1>2, <1>6, <1>7, <1>9 DEF PorLugares, FaseEn
    <2>3. \A i \in Ids : Real(i) # x => Fases'[i] = Fases[i]
      BY <1>1, <1>3, <1>4, <1>7, <1>9 DEF PorLugares, FaseEn
    <2> QED
      BY <1>2, <2>1, <2>2, <2>3, Mueve, SMTT(30) DEF Permitido
  <1>10. CASE EnListos' = EnListos /\ EnTerminados' = EnTerminados \cup {x}
    <2>1. \A i \in Ids : Real(i) = x => Fases'[i] = "terminado"
      BY <1>1, <1>2, <1>6, <1>7, <1>10 DEF PorLugares, FaseEn
    <2>2. \A i \in Ids : Real(i) # x => Fases'[i] = Fases[i]
      BY <1>1, <1>3, <1>4, <1>7, <1>10 DEF PorLugares, FaseEn
    <2> DEFINE de == IF dtb[k].seEstaCargando = 1 THEN "cargando" ELSE "nuevo"
    <2>3. Permitido(de, "terminado")
      BY DEF Permitido
    <2> HIDE DEF de
    <2>4. \A i \in Ids : Real(i) = x => Fases[i] = de
      BY <1>8 DEF de
    <2> QED
      BY <1>2, <2>1, <2>2, <2>3, <2>4, Mueve
  <1> QED
    BY <1>9, <1>10 DEF x

(* console "finalizar i": a new or a ready process is finished, and its dummy *)
LEMMA CicloFinalizar ==
    ASSUME TipoInductivo, ColasInductivo, NEW i \in Ids, dtb' = dtb,
           UNCHANGED <<EnBloqueados, Corriendo>>,
           NEW D \in {{}, {Real(i)}}, NEW F \in {{}} \cup {{y} : y \in EnListos},
           D \subseteq EnNuevos, \A y \in F : y.id = i,
           EnNuevos' = EnNuevos \ D, EnListos' = EnListos \ F,
           EnTerminados' = EnTerminados \cup D \cup F
    PROVE  Ciclo!Next \/ Fases' = Fases
  <1> DEFINE x == Real(i)
  <1>1. Separados /\ PorLugares /\ PorLugares'
    BY FaseDeLugar, FaseDeLugarDespues DEF ColasInductivo
  <1>2. x \in Objetos /\ x.id = i
    BY RealEsDeUno
  <1>3. \A j \in Ids : Real(j) # x => Real(j) \notin D /\ Real(j) \notin F
    <2>1. \A j \in Ids : Real(j).id = j
      BY RealEsDeUno
    <2> QED
      BY <2>1
  <1>4. \A j \in Ids : Real(j) # x => Fases'[j] = Fases[j]
    BY <1>1, <1>3 DEF PorLugares, FaseEn
  <1> HIDE DEF x
  <1>5. CASE x \in D
    <2>1. x \in EnNuevos /\ \A j \in Ids : Real(j) = x => ~(j > Len(dtb))
      <3>1. x \in EnNuevos
        BY <1>5
      <3> QED
        BY <3>1, YaCreado
    <2>2. x \notin EnBloqueados /\ x \notin Corriendo /\ x \notin EnListos /\ x \notin EnTerminados
      BY <1>1, <2>1 DEF Separados
    <2>3. \A j \in Ids : Real(j) = x => Fases'[j] = "terminado"
      BY <1>1, <1>5, <2>1, <2>2 DEF PorLugares, FaseEn
    <2> DEFINE de == IF dtb[i].seEstaCargando = 1 THEN "cargando" ELSE "nuevo"
    <2>4. \A j \in Ids : Real(j) = x => Fases[j] = de
      <3>1. \A j \in Ids : Real(j) = x => j = i
        BY RealEsDeUno DEF x
      <3> QED
        BY <1>1, <2>1, <3>1 DEF PorLugares, FaseEn
    <2>5. Permitido(de, "terminado")
      BY DEF Permitido
    <2> HIDE DEF de
    <2> QED
      BY <1>2, <1>4, <2>3, <2>4, <2>5, Mueve
  <1>6. CASE x \notin D /\ x \in F
    <2>1. x \in EnListos /\ \A j \in Ids : Real(j) = x => ~(j > Len(dtb))
      <3>1. x \in EnListos
        BY <1>6
      <3> QED
        BY <3>1, YaCreado
    <2>2. x \notin EnBloqueados /\ x \notin Corriendo /\ x \notin EnNuevos /\ x \notin EnTerminados
      BY <1>1, <2>1 DEF Separados
    <2>3. \A j \in Ids : Real(j) = x => Fases[j] = "listo" /\ Fases'[j] = "terminado"
      BY <1>1, <1>6, <2>1, <2>2 DEF PorLugares, FaseEn
    <2> QED
      BY <1>2, <1>4, <2>3, Mueve DEF Permitido
  <1>7. CASE x \notin D /\ x \notin F
    <2>1. \A j \in Ids : Real(j) = x => Fases'[j] = Fases[j]
      BY <1>1, <1>7 DEF PorLugares, FaseEn
    <2>2. \A j \in Ids : Fases'[j] = Fases[j]
      BY <1>4, <2>1
    <2> QED
      BY <2>2 DEF Fases
  <1> QED
    BY <1>5, <1>6, <1>7

(* What CargaFIFO says of the ids: whoever waits is younger than whoever is loaded. *)
CargaPorEdad ==
    \A p, q \in EnNuevos :
        p.id < q.id /\ dtb[q.id].seEstaCargando = 1 => dtb[p.id].seEstaCargando = 1

LEMMA PorEdad == TipoInductivo /\ CargaFIFO => CargaPorEdad
  <1> SUFFICES ASSUME TipoInductivo, CargaFIFO, NEW p \in EnNuevos, NEW q \in EnNuevos,
                      p.id < q.id, dtb[q.id].seEstaCargando = 1
               PROVE  dtb[p.id].seEstaCargando = 1
    BY DEF CargaPorEdad
  <1>1. PICK k \in DOMAIN procesos_nuevos : procesos_nuevos[k] = p
    BY DEF EnNuevos, Elementos
  <1>2. PICK m \in DOMAIN procesos_nuevos : procesos_nuevos[m] = q
    BY DEF EnNuevos, Elementos
  <1>3. k \in Nat /\ m \in Nat /\ p.id \in Nat /\ q.id \in Nat
    <2>1. procesos_nuevos \in Seq(Objetos) /\ p \in Objetos /\ q \in Objetos
      BY LugaresDeCreados DEF TipoInductivo, TypeOK, SAFATypeOK
    <2>2. DOMAIN procesos_nuevos \subseteq Nat
      BY <2>1, LenProperties
    <2> QED
      BY <2>1, <2>2 DEF Objetos, Ids
  <1>4. ~(m < k) /\ k # m
    BY <1>1, <1>2, <1>3 DEF CargaFIFO
  <1>5. k < m
    BY <1>3, <1>4
  <1> QED
    BY <1>1, <1>2, <1>5 DEF CargaFIFO

LEMMA PorEdadDespues == TipoInductivo' /\ CargaFIFO' => CargaPorEdad'
  BY PorEdad, PTL

(* console "ejecutar": the next process is created and the oldest one that waits, *)
(* if there is room, begins to be loaded                                           *)
LEMMA CicloEjecutar ==
    ASSUME TipoInductivo, ColasInductivo, CargaPorEdad', NEW n \in Ids, n = Len(dtb) + 1,
           UNCHANGED <<EnBloqueados, EnTerminados, Corriendo>>,
           EnNuevos' = EnNuevos \cup {Real(n)}, Len(dtb') = n,
           EnListos' = EnListos \/ \E d : EnListos' = EnListos \cup {Dummy(d)},
           NEW i \in 1 .. n, NEW v \in {0, 1},
           Real(i) \in EnNuevos', i <= Len(dtb) => dtb[i].seEstaCargando # 1,
           \A j \in 1 .. n : dtb'[j].seEstaCargando = IF j = i THEN v
                                                     ELSE IF j <= Len(dtb) THEN dtb[j].seEstaCargando ELSE 0
    PROVE  Ciclo!Next
  <1> DEFINE m == Len(dtb)
             C == Ciclo!Creado(n)
  <1>1. m \in Nat /\ n = m + 1 /\ PorLugares /\ PorLugares' /\ Ids \subseteq Nat \ {0} /\ i \in Ids
    <2>1. m \in Nat /\ MaxProcesos \in Nat
      BY LugaresDeCreados, RedAssumption
    <2> QED
      BY <2>1, FaseDeLugar, FaseDeLugarDespues DEF Ids
  <1> HIDE DEF m
  <1>2. \A j \in Ids : j <= m => Fases[j] # "sinCrear"
    BY <1>1 DEF PorLugares, FaseEn, m
  <1>3. Fases[n] = "sinCrear"
    BY <1>1 DEF PorLugares, FaseEn, m
  <1>4. C = [j \in Ids |-> IF j = n THEN "nuevo" ELSE Fases[j]]
    BY DEF Ciclo!Creado, Fases
  <1>5. \A j \in Ids : j # n => (Real(j) \in EnNuevos' <=> Real(j) \in EnNuevos)
                               /\ (Real(j) \in EnListos' <=> Real(j) \in EnListos)
    BY RealEsDeUno
  <1>6. \A j \in Ids : j > n => Fases'[j] = "sinCrear" /\ Fases[j] = "sinCrear"
    BY <1>1 DEF PorLugares, FaseEn, m
  <1>7. \A j \in Ids : j <= m /\ j # i => Fases'[j] = Fases[j]
    <2> SUFFICES ASSUME NEW j \in Ids, j <= m, j # i PROVE Fases'[j] = Fases[j]
      OBVIOUS
    <2>1. j \in 1 .. n /\ j # n /\ ~(j > m) /\ ~(j > n)
      BY <1>1
    <2>2. dtb'[j].seEstaCargando = dtb[j].seEstaCargando
      BY <2>1 DEF m
    <2> QED
      BY <1>1, <1>5, <2>1, <2>2 DEF PorLugares, FaseEn, m
  <1>8. Fases'[i] = IF v = 1 THEN "cargando" ELSE "nuevo"
    <2>1. dtb'[i].seEstaCargando = v /\ ~(i > n)
      BY <1>1
    <2> QED
      BY <1>1, <2>1 DEF PorLugares, FaseEn
  <1>9. n # i => Fases'[n] = "nuevo"
    <2>1. n \in 1 .. n /\ ~(n <= m) /\ ~(n > n) /\ Real(n) \in EnNuevos'
      BY <1>1
    <2>2. n # i => dtb'[n].seEstaCargando = 0
      BY <2>1 DEF m
    <2> QED
      BY <1>1, <2>1, <2>2 DEF PorLugares, FaseEn
  <1>10. i # n => Fases[i] = "nuevo"
    <2> SUFFICES ASSUME i # n PROVE Fases[i] = "nuevo"
      OBVIOUS
    <2>1. i <= m /\ ~(i > m)
      BY <1>1
    <2>2. dtb[i].seEstaCargando # 1 /\ Real(i) \in EnNuevos
      BY <1>1, <1>5, <2>1 DEF m
    <2> QED
      BY <1>1, <2>1, <2>2 DEF PorLugares, FaseEn, m
  <1>11. C[i] = "nuevo" /\ \A j \in Ids : j # i => Fases'[j] = C[j]
    <2>1. C[i] = "nuevo"
      BY <1>1, <1>4, <1>10
    <2>2. ASSUME NEW j \in Ids, j # i PROVE Fases'[j] = C[j]
      <3>1. j <= m \/ j = n \/ j > n
        BY <1>1
      <3>2. C[j] = IF j = n THEN "nuevo" ELSE Fases[j]
        BY <1>4
      <3>3. j <= m => j # n
        BY <1>1
      <3>4. j > n => j # n
        BY <1>1
      <3> QED
        BY <1>6, <1>7, <1>9, <2>2, <3>1, <3>2, <3>3, <3>4
    <2> QED
      BY <2>1, <2>2
  <1>12. Fases' = [j \in Ids |-> Fases'[j]]
    BY DEF Fases
  <1>13. v = 0 => Fases' = C
    <2>1. v = 0 => \A j \in Ids : Fases'[j] = C[j]
      BY <1>8, <1>11
    <2> QED
      BY <1>4, <1>12, <2>1
  <1>14. v = 1 => Fases' = [C EXCEPT ![i] = "cargando"] /\ Ciclo!MasAntiguo(C, i)
    <2> SUFFICES ASSUME v = 1 PROVE Fases' = [C EXCEPT ![i] = "cargando"] /\ Ciclo!MasAntiguo(C, i)
      OBVIOUS
    <2>1. Fases' = [C EXCEPT ![i] = "cargando"]
      <3> HIDE DEF C
      <3>1. C = [j \in Ids |-> C[j]]
        BY <1>4
      <3>2. \A j \in Ids : Fases'[j] = IF j = i THEN "cargando" ELSE C[j]
        BY <1>8, <1>11
      <3> QED
        BY <1>1, <1>12, <3>1, <3>2
    <2>2. ASSUME NEW j \in Ids, j < i, C[j] = "nuevo" PROVE FALSE
      <3>1. j \in 1 .. n /\ j # n /\ j # i /\ j <= m /\ ~(j > m)
        BY <1>1, <2>2
      <3>2. Fases[j] = "nuevo"
        BY <1>4, <2>2, <3>1
      <3>3. Real(j) \in EnNuevos /\ dtb[j].seEstaCargando # 1
        BY <1>1, <3>1, <3>2 DEF PorLugares, FaseEn, m
      <3>4. dtb'[j].seEstaCargando # 1 /\ Real(j) \in EnNuevos'
        BY <3>1, <3>3 DEF m
      <3>5. dtb'[i].seEstaCargando = 1
        OBVIOUS
      <3>6. Real(j).id = j /\ Real(i).id = i
        BY <1>1, RealEsDeUno
      <3> QED
        BY <2>2, <3>4, <3>5, <3>6 DEF CargaPorEdad
    <2> QED
      BY <1>11, <2>1, <2>2 DEF Ciclo!MasAntiguo, Ciclo!Procesos, Ids
  <1>15. Ciclo!Crear(n)
    <2>1. \A j \in Ids : j < n => Fases[j] # "sinCrear"
      <3>1. \A j \in Ids : j < n => j <= m
        BY <1>1
      <3> QED
        BY <1>2, <3>1
    <2> HIDE DEF C
    <2>2. Fases' = C \/ \E k \in Ids : Ciclo!MasAntiguo(C, k) /\ Fases' = [C EXCEPT ![k] = "cargando"]
      BY <1>1, <1>13, <1>14
    <2> QED
      BY <1>3, <2>1, <2>2 DEF Ciclo!Crear, Ciclo!Procesos, Ids, C
  <1> QED
    BY <1>15 DEF Ciclo!Next, Ciclo!Procesos, Ids

--------------------------------------------------------------------------------
(* Who a message is about.  DAM's answer to the abrir of a dummy takes its process *)
(* out of the new ones; that it had begun to be loaded is not in the answer, nor   *)
(* in S-AFA's test, but follows from where the request came from.                  *)

(* the processes that are no longer new, or have begun to be loaded *)
Llamados ==
    {i \in 1 .. Len(dtb) : Real(i) \in EnNuevos => dtb[i].seEstaCargando = 1}

PaquetesDe(S) == {m \in Paquetes : m.id \in S \cup {0}}
MensajesDe(S) == {m \in Mensajes : m # Orden => m.proceso.id \in S}
ConScript == {"orden", "avisoB"}

(* every message, and every script a CPU runs, is about one of S *)
Sobre(S, respuestas, solicitudes, envios, h, d) ==
    /\ respuestas \in Seq(PaquetesDe(S))
    /\ solicitudes \in [CPUs -> Seq(PaquetesDe(S))]
    /\ envios \in [CPUs -> Seq(MensajesDe(S))]
    /\ \A c \in CPUs : h[c] \in ConScript => d[c].proceso.id \in S

SoloLlamados == Sobre(Llamados, deDAM, pedidos, aCPU, hilo, DTB)

LEMMA SobreMas ==
    ASSUME NEW S, NEW T, S \subseteq T, NEW a, NEW b, NEW e, NEW h, NEW d, Sobre(S, a, b, e, h, d)
    PROVE  Sobre(T, a, b, e, h, d)
  <1>1. PaquetesDe(S) \subseteq PaquetesDe(T) /\ MensajesDe(S) \subseteq MensajesDe(T)
    BY DEF PaquetesDe, MensajesDe
  <1>2. Seq(PaquetesDe(S)) \subseteq Seq(PaquetesDe(T)) /\ Seq(MensajesDe(S)) \subseteq Seq(MensajesDe(T))
    BY <1>1, SeqMonotonic
  <1> QED
    BY <1>2 DEF Sobre

(* No step makes a process new again, nor stops the load of one that stays new. *)
LEMMA CrecenLlamados ==
    ASSUME TipoInductivo, ColasInductivo, [Next]_vars
    PROVE  Llamados \subseteq Llamados'
  <1>1. CASE UNCHANGED <<procesos_nuevos, dtb>>
    BY <1>1 DEF Llamados, EnNuevos
  <1>2. ASSUME NEW causa, Caer(causa) PROVE UNCHANGED <<procesos_nuevos, dtb>>
    BY <1>2 DEF Caer, colas
  <1>3. ASSUME NEW e \in Escriptorios, Ejecutar(e) PROVE Llamados \subseteq Llamados'
    <2> DEFINE n == Len(dtb)
    <2>1. n \in Nat /\ EnNuevos' = EnNuevos \cup {Real(n + 1)} /\ Len(dtb') = n + 1
      BY <1>3, EjecutarColas, LugaresDeCreados
    <2>2. PICK i \in 1 .. Len(dtb'), v \in {0, 1} :
             /\ Real(i) \in EnNuevos' /\ (i <= n => dtb[i].seEstaCargando # 1)
             /\ \A j \in 1 .. Len(dtb') :
                   dtb'[j].seEstaCargando = IF j = i THEN v
                                            ELSE IF j <= n THEN dtb[j].seEstaCargando ELSE 0
      BY <1>3, EjecutarColas
    <2> HIDE DEF n
    <2> SUFFICES ASSUME NEW j \in Llamados PROVE j \in Llamados'
      OBVIOUS
    <2>3. j \in 1 .. n /\ (Real(j) \in EnNuevos => dtb[j].seEstaCargando = 1)
      BY DEF Llamados, n
    <2>4. j \in 1 .. Len(dtb') /\ j <= n /\ j # n + 1
      BY <2>1, <2>3
    <2>5. Real(j) \in EnNuevos' => Real(j) \in EnNuevos
      BY <2>1, <2>4, RealEsDeUno
    <2>6. Real(j) \in EnNuevos' => j # i
      BY <2>2, <2>3, <2>4, <2>5
    <2>7. Real(j) \in EnNuevos' => dtb'[j].seEstaCargando = 1
      BY <2>2, <2>3, <2>4, <2>5, <2>6
    <2> QED
      BY <2>4, <2>7 DEF Llamados
  <1>4. ASSUME NEW i \in Ids, Finalizar(i) PROVE Llamados \subseteq Llamados'
    <2>1. EnNuevos' \subseteq EnNuevos /\ dtb' = dtb
      BY <1>4, FinalizarColas
    <2> QED
      BY <2>1 DEF Llamados
  <1>5. CASE AbrirOk \/ AbrirMal
    <2> DEFINE k == IdRespuesta
    <2>1. /\ Len(dtb') = Len(dtb) /\ EnNuevos' = EnNuevos \ {Real(k)}
          /\ \A j \in 1 .. Len(dtb) : j # k => dtb'[j].seEstaCargando = dtb[j].seEstaCargando
      BY <1>5, AbrirColas
    <2> HIDE DEF k
    <2> QED
      BY <2>1 DEF Llamados
  <1>6. CASE PasoSAFA(Consola)
    <2>1. ASSUME NEW i \in Ids, \/ FinalizarEnEjecucion(i) \/ FinalizarListoSinEjecucion(i)
                                \/ StatusProceso(i) \/ StatusCae(i)
          PROVE  UNCHANGED <<procesos_nuevos, dtb>>
      BY <1>2, <2>1 DEF FinalizarEnEjecucion, FinalizarListoSinEjecucion, StatusProceso, StatusCae, colas
    <2>2. EjecutarSinCPU \/ StatusColasCae => UNCHANGED <<procesos_nuevos, dtb>>
      BY <1>2 DEF EjecutarSinCPU, StatusColasCae
    <2> QED
      BY <1>1, <1>3, <1>4, <1>6, <2>1, <2>2 DEF PasoSAFA, Consola
  <1>7. CASE PasoSAFA(PCP)
    BY <1>1, <1>2, <1>7 DEF PasoSAFA, PCP, PCPSeleccionar, PCPEnviar, PCPQuitar, PCPCae, colas
  <1>8. CASE PasoSAFA(EjecutarProceso)
    BY <1>1, <1>8 DEF PasoSAFA, EjecutarProceso, EjecDespertar, EjecCondicion, EjecOrdenar, colas
  <1>9. CASE PasoSAFA(ConexionDAM)
    BY <1>1, <1>2, <1>5, <1>9 DEF PasoSAFA, ConexionDAM, AbrirSinNuevo, OperacionOk,
                                  OperacionOkSinBloqueado, OperacionMal
  <1>10. ASSUME NEW c \in CPUs, PasoSAFA(ConexionCPU(c)) PROVE Llamados \subseteq Llamados'
    <2>1. CASE \/ FinDeScript(c) \/ FinIgnorado(c) \/ FinDeSentencia(c) \/ FinDeQuantum(c)
               \/ DummyEnviado(c) \/ Bloquear(c)
      BY <1>1, <2>1 DEF FinDeScript, FinIgnorado, FinDeSentencia, FinDeQuantum, DummyEnviado,
                        Bloquear, safa, colas
    <2>2. CASE \/ FinDeQuantumSinProceso(c) \/ VerificarSiFinalizar(c) \/ DummySinProceso(c)
               \/ BloquearSinProceso(c) \/ Recurso(c)
      BY <1>1, <1>2, <2>2 DEF FinDeQuantumSinProceso, VerificarSiFinalizar, DummySinProceso,
                              BloquearSinProceso, Recurso, CaerAlRecibir
    <2> QED
      BY <1>10, <2>1, <2>2 DEF PasoSAFA, ConexionCPU
  <1>11. ASSUME NEW c \in CPUs, PasoCPU(c) \/ PasoDAM(c) PROVE Llamados \subseteq Llamados'
    BY <1>1, <1>11 DEF PasoCPU, PasoDAM, safa, colas
  <1>12. CASE UNCHANGED vars
    BY <1>1, <1>12 DEF vars, safa, colas
  <1> QED
    BY <1>6, <1>7, <1>8, <1>9, <1>10, <1>11, <1>12 DEF Next

(* What S-AFA sends is about the process that runs. *)
LEMMA ElQueCorreFueLlamado ==
    ASSUME TipoInductivo, ColasInductivo, procesoEnEjecucion # Nada
    PROVE  procesoEnEjecucion.id \in Llamados /\ procesoEnEjecucion \in Objetos
  <1> DEFINE p == procesoEnEjecucion
  <1>1. p \in Corriendo
    BY DEF Corriendo
  <1>2. p \in Objetos /\ p.id \in 1 .. Len(dtb)
    BY <1>1, YaCreado
  <1> HIDE DEF p
  <1>3. ASSUME Real(p.id) \in EnNuevos PROVE dtb[p.id].seEstaCargando = 1
    <2>1. p # Real(p.id)
      BY <1>1, <1>3 DEF ColasInductivo, Separados
    <2>2. Dummy(p.id) \in Corriendo
      BY <1>1, <1>2, <2>1, RealEsDeUno
    <2>3. Real(p.id).id = p.id
      BY DEF Real
    <2> QED
      BY <1>3, <2>2, <2>3 DEF ColasInductivo, SinCarga
  <1> QED
    BY <1>2, <1>3 DEF Llamados, p

LEMMA SAFASobre ==
    ASSUME TipoInductivo, ColasInductivo, NEW S, S = Llamados, Sobre(S, deDAM, pedidos, aCPU, hilo, DTB),
           UNCHANGED cpu,
           \/ Consola \/ PCP \/ EjecutarProceso \/ ConexionDAM \/ \E c \in CPUs : ConexionCPU(c)
    PROVE  Sobre(S, deDAM', pedidos', aCPU', hilo', DTB')
  <1>1. hilo' = hilo /\ DTB' = DTB
    BY DEF cpu, memoria
  <1>2. CASE UNCHANGED <<deDAM, pedidos, aCPU>>
    BY <1>1, <1>2
  <1>3. ASSUME NEW c \in CPUs, NEW m \in MensajesDe(S), aCPU' = Enviar(aCPU, c, m),
               UNCHANGED <<deDAM, pedidos>>
        PROVE  Sobre(S, deDAM', pedidos', aCPU', hilo', DTB')
    <2>1. aCPU' \in [CPUs -> Seq(MensajesDe(S))]
      BY <1>3, EnviarTipo DEF Sobre
    <2> QED
      BY <1>1, <1>3, <2>1 DEF Sobre
  <1>4. SAFATypeOK
    BY DEF TipoInductivo, TypeOK
  <1>5. CASE Consola
    BY <1>2, <1>5 DEF Consola, EjecutarSinCPU, Ejecutar, FinalizarEnEjecucion, Finalizar,
                      FinalizarListoSinEjecucion, StatusColasCae, StatusProceso, StatusCae, red
  <1>6. CASE PCPEnviar
    <2> DEFINE p == procesoEnEjecucion
               d == dtb[procesoEnEjecucion.id]
               m == EnvioProceso(p, d.pathEscriptorio)
    <2>1. p.id \in S /\ p \in Objetos /\ p.id \in 1 .. Len(dtb)
      BY <1>6, ElQueCorreFueLlamado DEF PCPEnviar, Llamados
    <2>2. d.socketProceso \in CPUs /\ d.pathEscriptorio \in Escriptorios
      BY <1>4, <2>1, DTBCreado
    <2>3. m \in MensajesDe(S)
      BY <2>1, <2>2 DEF MensajesDe, Mensajes, EnvioProceso
    <2>4. aCPU' = Enviar(aCPU, d.socketProceso, m) /\ UNCHANGED <<deDAM, pedidos>>
      BY <1>6 DEF PCPEnviar
    <2> HIDE DEF d, m
    <2> QED
      BY <1>3, <2>2, <2>3, <2>4
  <1>7. CASE PCP
    BY <1>2, <1>6, <1>7 DEF PCP, PCPSeleccionar, PCPQuitar, PCPCae, red
  <1>8. CASE EjecOrdenar
    <2>1. CASE procesoEnEjecucion = Nada
      BY <1>2, <1>8, <2>1 DEF EjecOrdenar
    <2>2. CASE procesoEnEjecucion # Nada
      <3> DEFINE c == dtb[procesoEnEjecucion.id].socketProceso
      <3>1. procesoEnEjecucion.id \in 1 .. Len(dtb)
        BY <2>2, ElQueCorreFueLlamado DEF Llamados
      <3>2. c \in CPUs /\ aCPU' = Enviar(aCPU, c, Orden) /\ UNCHANGED <<deDAM, pedidos>>
        BY <1>4, <1>8, <2>2, <3>1, DTBCreado DEF EjecOrdenar
      <3>3. Orden \in MensajesDe(S)
        BY DEF MensajesDe, Mensajes
      <3> HIDE DEF c
      <3> QED
        BY <1>3, <3>2, <3>3
    <2> QED
      BY <2>1, <2>2
  <1>9. CASE EjecutarProceso
    BY <1>2, <1>8, <1>9 DEF EjecutarProceso, EjecDespertar, EjecCondicion, red
  <1>10. CASE ConexionDAM
    <2>1. deDAM # <<>> /\ deDAM' = Tail(deDAM) /\ UNCHANGED <<pedidos, aCPU>>
      BY <1>10 DEF ConexionDAM, AbrirOk, AbrirMal, AbrirSinNuevo, OperacionOk, OperacionOkSinBloqueado,
                   OperacionMal, Respuesta
    <2>2. deDAM' \in Seq(PaquetesDe(S))
      BY <2>1, HeadTailProperties DEF Sobre
    <2> QED
      BY <1>1, <2>1, <2>2 DEF Sobre
  <1>11. ASSUME NEW c \in CPUs, ConexionCPU(c) PROVE UNCHANGED <<deDAM, pedidos, aCPU>>
    BY <1>11 DEF ConexionCPU, FinDeScript, FinIgnorado, FinDeSentencia, FinDeQuantum, FinDeQuantumSinProceso,
                 VerificarSiFinalizar, DummyEnviado, DummySinProceso, Bloquear, BloquearSinProceso, Recurso,
                 CaerAlRecibir, Recibido
  <1> QED
    BY <1>2, <1>5, <1>7, <1>9, <1>10, <1>11

(* What a step of a CPU takes, asks for and leaves running. *)
Toma(c) == aCPU[c] # <<>> /\ Head(aCPU[c]) # Orden
QueTomaCPU(c) ==
    \/ aCPU' = aCPU
    \/ aCPU[c] # <<>> /\ aCPU' = Consumir(aCPU, c)
    \/ IgnorarProceso(c)
QuePideCPU(c) ==
    \/ pedidos' = pedidos
    \/ \E op \in {1, 6, 8, 9}, i \in Ids \cup {0} :
          /\ Pedir(c, op, i)
          /\ \/ i = 0
             \/ Toma(c) /\ i = Head(aCPU[c]).proceso.id
             \/ hilo[c] = "orden" /\ i = DTB[c].proceso.id
QueCorreCPU(c) ==
    \A d \in CPUs : hilo'[d] \in ConScript =>
        \/ hilo[d] \in ConScript /\ DTB'[d] = DTB[d]
        \/ /\ d = c /\ Toma(c) /\ Head(aCPU[c]).proceso.flagInicializacion = 1
           /\ DTB'[d].proceso = Head(aCPU[c]).proceso

LEMMA CPUHace ==
    ASSUME TipoInductivo, NEW c \in CPUs, NextCPU(c)
    PROVE  deDAM' = deDAM /\ QueTomaCPU(c) /\ QuePideCPU(c) /\ QueCorreCPU(c)
  <1>1. hilo \in [CPUs -> Estados] /\ DTB \in [CPUs -> EnEjecucion \cup {Nada}] /\ aCPU \in [CPUs -> Seq(Mensajes)]
        /\ ConDTB
    BY DEF TipoInductivo, TypeOK, CPUTypeOK, RedTypeOK, EnEjecucion
  <1>2. hilo[c] = "orden" => DTB[c].proceso.id \in Ids \cup {0}
    BY <1>1 DEF ConDTB, EnEjecucion, Objetos
  <1>3. Toma(c) => Head(aCPU[c]).proceso.id \in Ids \cup {0}
    BY <1>1, HeadTailProperties, MensajeDeProceso DEF Toma
  <1>4. ASSUME UNCHANGED DTB, UNCHANGED hilo PROVE QueCorreCPU(c)
    BY <1>4 DEF QueCorreCPU
  <1>5. ASSUME UNCHANGED DTB, hilo[c] \in ConScript, \E h : Pasar(c, h) PROVE QueCorreCPU(c)
    BY <1>1, <1>5 DEF QueCorreCPU, Pasar
  <1>6. ASSUME UNCHANGED DTB, \E h \in Estados \ ConScript : Pasar(c, h) PROVE QueCorreCPU(c)
    BY <1>1, <1>6 DEF QueCorreCPU, Pasar
  <1>7. ASSUME \E x : DTB' = [DTB EXCEPT ![c] = x], Pasar(c, "proceso") PROVE QueCorreCPU(c)
    <2>1. \A d \in CPUs : hilo'[d] \in ConScript => d # c
      BY <1>1, <1>7 DEF Pasar, ConScript
    <2>2. \A d \in CPUs : d # c => hilo'[d] = hilo[d] /\ DTB'[d] = DTB[d]
      BY <1>1, <1>7 DEF Pasar
    <2> QED
      BY <2>1, <2>2 DEF QueCorreCPU
  <1>8. Abortar(c) => QueCorreCPU(c)
    BY <1>7 DEF Abortar
  <1>9. LlegaOrden(c) => deDAM' = deDAM /\ QueTomaCPU(c) /\ hilo[c] \in ConScript /\ hilo[c] = "orden"
    BY DEF LlegaOrden, QueTomaCPU, ConScript
  <1>10. \A ops : Parsear(c, ops) => LlegaOrden(c)
    BY DEF Parsear
  <1>11. pedidos' = pedidos => QuePideCPU(c)
    BY DEF QuePideCPU
  <1>12. ASSUME hilo[c] = "orden", NEW op \in {1, 6, 8, 9}, Pedir(c, op, DTB[c].proceso.id) PROVE QuePideCPU(c)
    BY <1>2, <1>12 DEF QuePideCPU
  <1>13. CASE RecibirDummy(c)
    <2>1. Toma(c) /\ Pedir(c, 1, Head(aCPU[c]).proceso.id) /\ Pasar(c, "avisoD") /\ UNCHANGED <<deDAM, DTB>>
      BY <1>13 DEF RecibirDummy, RecibeProceso, Toma, memoria
    <2>2. QuePideCPU(c)
      BY <1>3, <2>1 DEF QuePideCPU
    <2>3. QueTomaCPU(c)
      BY <1>13 DEF RecibirDummy, RecibeProceso, QueTomaCPU
    <2>4. "avisoD" \in Estados \ ConScript
      BY DEF Estados, ConScript
    <2> QED
      BY <1>6, <2>1, <2>2, <2>3, <2>4
  <1>14. CASE RecibirReal(c)
    <2> DEFINE d == [proceso |-> Head(aCPU[c]).proceso, escriptorio |-> Head(aCPU[c]).escriptorio]
    <2>1. Toma(c) /\ DTB' = [DTB EXCEPT ![c] = d] /\ Pasar(c, "orden") /\ UNCHANGED <<deDAM, pedidos>>
          /\ d.proceso = Head(aCPU[c]).proceso /\ Head(aCPU[c]).proceso.flagInicializacion = 1
      BY <1>14 DEF RecibirReal, RecibeProceso, Toma
    <2>2. QueTomaCPU(c)
      BY <1>14 DEF RecibirReal, RecibeProceso, QueTomaCPU
    <2> HIDE DEF d
    <2>3. QueCorreCPU(c)
      BY <1>1, <2>1 DEF QueCorreCPU, Pasar, ConScript
    <2> QED
      BY <1>11, <2>1, <2>2, <2>3
  <1>15. CASE RecibirBasura(c)
    <2>1. deDAM' = deDAM /\ QueTomaCPU(c) /\ UNCHANGED DTB
      BY <1>15 DEF RecibirBasura, QueTomaCPU, memoria
    <2>2. QuePideCPU(c)
      <3>1. pedidos' = pedidos \/ Pedir(c, 1, 0)
        BY <1>15 DEF RecibirBasura
      <3>2. Pedir(c, 1, 0) => QuePideCPU(c)
        BY DEF QuePideCPU
      <3> QED
        BY <1>11, <3>1, <3>2
    <2>3. UNCHANGED hilo \/ \E h \in Estados \ ConScript : Pasar(c, h)
      BY <1>15 DEF RecibirBasura, Estados, ConScript
    <2> QED
      BY <1>4, <1>6, <2>1, <2>2, <2>3
  <1>16. CASE AvisarDummy(c)
    <2>1. UNCHANGED <<aCPU, pedidos, deDAM, DTB>> /\ Pasar(c, "proceso")
      BY <1>16 DEF AvisarDummy, memoria
    <2>2. "proceso" \in Estados \ ConScript
      BY DEF Estados, ConScript
    <2> QED
      BY <1>6, <1>11, <2>1, <2>2 DEF QueTomaCPU
  <1>17. CASE AvisarBloqueo(c)
    <2>1. UNCHANGED <<aCPU, pedidos, deDAM, DTB>> /\ Pasar(c, "orden") /\ hilo[c] \in ConScript
      BY <1>17 DEF AvisarBloqueo, memoria, ConScript
    <2> QED
      BY <1>5, <1>11, <2>1 DEF QueTomaCPU
  <1>18. CASE IgnorarProceso(c)
    <2>1. UNCHANGED <<deDAM, pedidos, DTB, hilo>>
      BY <1>18 DEF IgnorarProceso, memoria
    <2> QED
      BY <1>4, <1>11, <1>18, <2>1 DEF QueTomaCPU
  <1>19. CASE PedirSinScript(c) \/ PedirPasadoElFin(c) \/ PedirSinFM9(c) \/ FlushCloseSinNombre(c)
    <2>1. LlegaOrden(c) /\ UNCHANGED <<pedidos, DTB>> /\ \E h : Pasar(c, h)
      BY <1>10, <1>19 DEF PedirSinScript, PedirPasadoElFin, PedirSinFM9, FlushCloseSinNombre, memoria
    <2> QED
      BY <1>5, <1>9, <1>11, <2>1
  <1>20. CASE FinDelEscriptorio(c)
    <2>1. LlegaOrden(c) /\ UNCHANGED pedidos /\ DTB' = [DTB EXCEPT ![c] = Nada] /\ Pasar(c, "proceso")
      BY <1>20 DEF FinDelEscriptorio
    <2> QED
      BY <1>7, <1>9, <1>11, <2>1
  <1>21. CASE Concentrar(c) \/ SinAviso(c) \/ WaitSignal(c)
    <2>1. LlegaOrden(c) /\ UNCHANGED <<pedidos, hilo, DTB>>
      BY <1>10, <1>21 DEF Concentrar, SinAviso, WaitSignal
    <2> QED
      BY <1>4, <1>9, <1>11, <2>1
  <1>22. CASE CrearBorrar(c) \/ Flush(c)
    <2>1. LlegaOrden(c) /\ UNCHANGED DTB /\ \E h : Pasar(c, h)
      BY <1>10, <1>22 DEF CrearBorrar, Flush
    <2>2. \E op \in {1, 6, 8, 9} : Pedir(c, op, DTB[c].proceso.id)
      BY <1>22 DEF CrearBorrar, Flush
    <2> QED
      BY <1>5, <1>9, <1>12, <2>1, <2>2
  <1>23. CASE Abrir(c)
    <2>1. LlegaOrden(c) /\ UNCHANGED DTB
      BY <1>10, <1>23 DEF Abrir
    <2>2. \/ UNCHANGED <<pedidos, hilo>>
          \/ Pedir(c, 1, DTB[c].proceso.id) /\ Pasar(c, "avisoB")
      BY <1>23 DEF Abrir
    <2> QED
      BY <1>4, <1>5, <1>9, <1>11, <1>12, <2>1, <2>2
  <1>24. CASE Asignar(c) \/ FlushCloseNoAbierto(c) \/ Close(c)
    <2>1. LlegaOrden(c) /\ UNCHANGED pedidos
      BY <1>10, <1>24 DEF Asignar, FlushCloseNoAbierto, Close
    <2>2. UNCHANGED <<DTB, hilo>> \/ Abortar(c) \/ (Pasar(c, "muerta") /\ UNCHANGED DTB)
      BY <1>24 DEF Asignar, FlushCloseNoAbierto, Close
    <2> QED
      BY <1>4, <1>5, <1>8, <1>9, <1>11, <2>1, <2>2
  <1> QED
    BY <1>13, <1>14, <1>15, <1>16, <1>17, <1>18, <1>19, <1>20, <1>21, <1>22, <1>23, <1>24 DEF NextCPU

LEMMA CPUSobre ==
    ASSUME TipoInductivo, NEW c \in CPUs, NextCPU(c), NEW S, Sobre(S, deDAM, pedidos, aCPU, hilo, DTB)
    PROVE  Sobre(S, deDAM', pedidos', aCPU', hilo', DTB')
  <1> DEFINE M == MensajesDe(S)
             Q == PaquetesDe(S)
  <1>1. /\ deDAM \in Seq(Q) /\ pedidos \in [CPUs -> Seq(Q)] /\ aCPU \in [CPUs -> Seq(M)]
        /\ \A d \in CPUs : hilo[d] \in ConScript => DTB[d].proceso.id \in S
    BY DEF Sobre
  <1>2. deDAM' = deDAM /\ QueTomaCPU(c) /\ QuePideCPU(c) /\ QueCorreCPU(c)
    BY CPUHace
  <1>3. Orden \in M /\ (Toma(c) => Head(aCPU[c]).proceso.id \in S)
    <2>1. Toma(c) => Head(aCPU[c]) \in M
      BY <1>1, HeadTailProperties DEF Toma
    <2> QED
      BY <2>1 DEF MensajesDe, Mensajes, Toma
  <1> HIDE DEF M
  <1>4. aCPU' \in [CPUs -> Seq(M)]
    <2>1. CASE aCPU' = aCPU
      BY <1>1, <2>1
    <2>2. CASE aCPU[c] # <<>> /\ aCPU' = Consumir(aCPU, c)
      BY <1>1, <2>2, ConsumirTipo
    <2>3. CASE IgnorarProceso(c)
      <3>1. aCPU[c] \in Seq(M) /\ aCPU[c] # <<>>
        BY <1>1, <2>3 DEF IgnorarProceso
      <3>2. Tail(aCPU[c]) \in Seq(M) /\ Len(Tail(aCPU[c])) = Len(aCPU[c]) - 1
        BY <3>1, HeadTailProperties
      <3>3. CASE aCPU' = Consumir(aCPU, c)
        BY <2>2, <3>1, <3>3
      <3>4. CASE aCPU' = [aCPU EXCEPT ![c] = Tail(Tail(@))] /\ Len(aCPU[c]) > 1
        <4> DEFINE t == Tail(aCPU[c])
                   n == Len(aCPU[c])
        <4>0. n \in Nat /\ n > 1 /\ Len(t) = n - 1 /\ t \in Seq(M)
          BY <3>1, <3>2, <3>4, LenProperties
        <4> HIDE DEF n, t
        <4>1. t \in Seq(M) /\ Len(t) # 0
          BY <4>0
        <4>2. t # <<>>
          BY <4>1, EmptySeq
        <4>3. Tail(t) \in Seq(M)
          BY <4>1, <4>2, HeadTailProperties
        <4> QED
          BY <1>1, <3>4, <4>3 DEF t
      <3>5. CASE aCPU' = [aCPU EXCEPT ![c] = <<Orden>> \o Tail(@)]
        <4>1. <<Orden>> \o Tail(aCPU[c]) \in Seq(M)
          <5>1. <<Orden>> \in Seq(M)
            BY <1>3
          <5> QED
            BY <3>2, <5>1, ConcatProperties
        <4> QED
          BY <1>1, <3>5, <4>1
      <3> QED
        BY <2>3, <3>3, <3>4, <3>5 DEF IgnorarProceso
    <2> QED
      BY <1>2, <2>1, <2>2, <2>3 DEF QueTomaCPU
  <1>5. pedidos' \in [CPUs -> Seq(Q)]
    <2>1. CASE pedidos' = pedidos
      BY <1>1, <2>1
    <2>2. ASSUME NEW op \in {1, 6, 8, 9}, NEW i \in Ids \cup {0}, Pedir(c, op, i),
                 i \in S \cup {0}
          PROVE  pedidos' \in [CPUs -> Seq(Q)]
      <3> DEFINE m == [tipoOperacion |-> op, resultado |-> 0, id |-> i]
      <3>1. m \in Q
        BY <2>2 DEF PaquetesDe, Paquetes
      <3>2. pedidos' = Enviar(pedidos, c, m)
        BY <2>2 DEF Pedir
      <3> HIDE DEF m, Q
      <3> QED
        BY <1>1, <3>1, <3>2, EnviarTipo
    <2>3. hilo[c] = "orden" => DTB[c].proceso.id \in S
      BY <1>1 DEF ConScript
    <2> QED
      BY <1>2, <1>3, <2>1, <2>2, <2>3 DEF QuePideCPU
  <1>6. \A d \in CPUs : hilo'[d] \in ConScript => DTB'[d].proceso.id \in S
    BY <1>1, <1>2, <1>3 DEF QueCorreCPU
  <1> QED
    BY <1>1, <1>2, <1>4, <1>5, <1>6 DEF Sobre, M

LEMMA DAMSobre ==
    ASSUME TipoInductivo, UNCHANGED cpu, NEW c \in CPUs, NextDAM(c), NEW S,
           Sobre(S, deDAM, pedidos, aCPU, hilo, DTB)
    PROVE  Sobre(S, deDAM', pedidos', aCPU', hilo', DTB')
  <1> DEFINE Q == PaquetesDe(S)
  <1>1. deDAM \in Seq(Q) /\ pedidos \in [CPUs -> Seq(Q)]
    BY DEF Sobre
  <1>2. PICK ops : Pedido(c, ops)
    BY DEF NextDAM, Atender, AtenderMuereMDJ, AtenderSinMDJ, AtenderAbrirSinFM9, AtenderFlush
  <1>3. deDAM' = deDAM \/ \E resultado \in {0, 1} : deDAM' = Append(deDAM, Contestado(c, resultado))
    BY DEF NextDAM, Atender, AtenderMuereMDJ, AtenderSinMDJ, AtenderAbrirSinFM9, AtenderFlush,
           SinRespuesta, Responder, DAMMuere, RespuestaIlegible
  <1>4. pedidos[c] # <<>> /\ pedidos' = Consumir(pedidos, c) /\ aCPU' = aCPU /\ hilo' = hilo /\ DTB' = DTB
    BY <1>2 DEF Pedido, cpu, memoria
  <1>5. Head(pedidos[c]) \in Q /\ pedidos' \in [CPUs -> Seq(Q)]
    BY <1>1, <1>4, ConsumirTipo
  <1>6. \A resultado \in {0, 1} : Contestado(c, resultado) \in Q
    BY <1>5 DEF Contestado, PaquetesDe, Paquetes
  <1> HIDE DEF Q
  <1>7. deDAM' \in Seq(Q)
    <2>1. CASE deDAM' = deDAM
      BY <1>1, <2>1
    <2>2. ASSUME NEW resultado \in {0, 1}, deDAM' = Append(deDAM, Contestado(c, resultado))
          PROVE  deDAM' \in Seq(Q)
      <3>1. Contestado(c, resultado) \in Q
        BY <1>6
      <3> QED
        BY <1>1, <2>2, <3>1, AppendProperties
    <2> QED
      BY <1>3, <2>1, <2>2
  <1> QED
    BY <1>4, <1>5, <1>7 DEF Sobre, Q

LEMMA PasoLlamados ==
    TipoInductivo /\ ColasInductivo /\ SoloLlamados /\ [Next]_vars => SoloLlamados'
  <1> SUFFICES ASSUME TipoInductivo, ColasInductivo, SoloLlamados, [Next]_vars PROVE SoloLlamados'
    OBVIOUS
  <1>1. PICK S : S = Llamados
    OBVIOUS
  <1>2. Sobre(S, deDAM, pedidos, aCPU, hilo, DTB) /\ S \subseteq Llamados'
    BY <1>1, CrecenLlamados DEF SoloLlamados
  <1>3. ASSUME UNCHANGED cpu,
               \/ Consola \/ PCP \/ EjecutarProceso \/ ConexionDAM \/ \E c \in CPUs : ConexionCPU(c)
        PROVE  Sobre(S, deDAM', pedidos', aCPU', hilo', DTB')
    BY <1>1, <1>2, <1>3, SAFASobre
  <1>4. Sobre(S, deDAM', pedidos', aCPU', hilo', DTB')
    <2>1. CASE UNCHANGED vars
      BY <1>2, <2>1 DEF vars, red, cpu, memoria
    <2>2. ASSUME NEW c \in CPUs, PasoCPU(c) PROVE Sobre(S, deDAM', pedidos', aCPU', hilo', DTB')
      BY <1>2, <2>2, CPUSobre DEF PasoCPU
    <2>3. ASSUME NEW c \in CPUs, PasoDAM(c) PROVE Sobre(S, deDAM', pedidos', aCPU', hilo', DTB')
      BY <1>2, <2>3, DAMSobre DEF PasoDAM
    <2> QED
      BY <1>3, <2>1, <2>2, <2>3 DEF Next, PasoSAFA
  <1> QED
    BY <1>2, <1>4, SobreMas DEF SoloLlamados

LEMMA LlamadosAlInicio == Init => SoloLlamados
  <1> SUFFICES ASSUME Init PROVE SoloLlamados
    OBVIOUS
  <1>1. /\ deDAM = <<>> /\ pedidos = [c \in CPUs |-> <<>>] /\ aCPU = [c \in CPUs |-> <<>>]
        /\ hilo = [c \in CPUs |-> "proceso"]
    BY DEF Init, InitRed, InitCPU
  <1> QED
    BY <1>1, EmptySeq DEF SoloLlamados, Sobre, ConScript

--------------------------------------------------------------------------------
(* The refinement, step by step *)

LEMMA NadieCambia ==
    ASSUME UNCHANGED <<procesos_nuevos, procesos_listos, procesos_bloqueados,
                       procesos_terminados, procesoEnEjecucion, dtb>>
    PROVE  Fases' = Fases
  BY DEF Fases, Fase, Esta, Colas, DeTerminado

(* Every step is one of the life of a process, or none of it. *)
LEMMA PasoCiclo ==
    ASSUME TipoInductivo, ColasInductivo, SoloLlamados, CargaPorEdad', [Next]_vars
    PROVE  Ciclo!Next \/ Fases' = Fases
  <1> DEFINE lugares == <<procesos_nuevos, procesos_listos, procesos_bloqueados,
                          procesos_terminados, procesoEnEjecucion, dtb>>
             Sigue == Ciclo!Next \/ Fases' = Fases
  <1>1. UNCHANGED lugares => Sigue
    BY NadieCambia
  <1>2. ASSUME NEW causa, Caer(causa) PROVE UNCHANGED lugares
    BY <1>2 DEF Caer, colas
  <1> HIDE DEF Sigue
  <1>3. CASE PasoSAFA(Consola)
    <2>1. ASSUME NEW e \in Escriptorios, Ejecutar(e) PROVE Sigue
      <3> DEFINE n == Len(dtb) + 1
      <3>1. /\ UNCHANGED <<EnBloqueados, EnTerminados, Corriendo>>
            /\ EnNuevos' = EnNuevos \cup {Real(n)} /\ n \in Ids /\ Len(dtb') = n
            /\ EnListos' = EnListos \/ \E d : EnListos' = EnListos \cup {Dummy(d)}
        BY <2>1, EjecutarColas
      <3>2. PICK i \in 1 .. Len(dtb'), v \in {0, 1} :
               /\ Real(i) \in EnNuevos' /\ (i <= Len(dtb) => dtb[i].seEstaCargando # 1)
               /\ \A j \in 1 .. Len(dtb') :
                     dtb'[j].seEstaCargando = IF j = i THEN v
                                              ELSE IF j <= Len(dtb) THEN dtb[j].seEstaCargando ELSE 0
        BY <2>1, EjecutarColas
      <3>3. n = Len(dtb) + 1
        OBVIOUS
      <3> HIDE DEF n
      <3>4. i \in 1 .. n /\ \A j \in 1 .. n :
                     dtb'[j].seEstaCargando = IF j = i THEN v
                                              ELSE IF j <= Len(dtb) THEN dtb[j].seEstaCargando ELSE 0
        BY <3>1, <3>2
      <3> QED
        BY <3>1, <3>2, <3>3, <3>4, CicloEjecutar DEF Sigue
    <2>2. ASSUME NEW i \in Ids, Finalizar(i) PROVE Sigue
      BY <2>2, FinalizarColas, CicloFinalizar DEF Sigue
    <2>3. ASSUME NEW i \in Ids, \/ FinalizarEnEjecucion(i) \/ FinalizarListoSinEjecucion(i)
                                \/ StatusProceso(i) \/ StatusCae(i)
          PROVE  UNCHANGED lugares
      BY <1>2, <2>3 DEF FinalizarEnEjecucion, FinalizarListoSinEjecucion, StatusProceso, StatusCae, colas
    <2>4. EjecutarSinCPU \/ StatusColasCae => UNCHANGED lugares
      BY <1>2 DEF EjecutarSinCPU, StatusColasCae
    <2> QED
      BY <1>1, <1>3, <2>1, <2>2, <2>3, <2>4 DEF PasoSAFA, Consola, Sigue
  <1>4. CASE PasoSAFA(PCP)
    <2>1. CASE PCPEnviar \/ PCPCae
      BY <1>1, <1>2, <2>1 DEF PCPEnviar, PCPCae, colas, Sigue
    <2>2. CASE PCPSeleccionar
      <3>1. dtb' = dtb
        BY <2>2 DEF PCPSeleccionar
      <3>2. CASE UNCHANGED <<EnNuevos, EnListos, EnBloqueados, EnTerminados, Corriendo>>
        BY <3>1, <3>2, CicloQuitar
      <3>3. CASE /\ Head(procesos_listos) \in EnListos /\ Corriendo' = {Head(procesos_listos)}
                 /\ EnListos' = EnListos \ {Head(procesos_listos)}
                 /\ UNCHANGED <<EnNuevos, EnBloqueados, EnTerminados>>
        BY <3>1, <3>3, CicloSeleccionar
      <3> QED
        BY <2>2, <3>2, <3>3, SeleccionarColas
    <2>3. CASE PCPQuitar
      <3>1. dtb' = dtb
        BY <2>3 DEF PCPQuitar
      <3> QED
        BY <2>3, <3>1, QuitarColas, CicloQuitar
    <2> QED
      BY <1>4, <2>1, <2>2, <2>3 DEF PasoSAFA, PCP
  <1>5. CASE PasoSAFA(EjecutarProceso)
    <2>1. UNCHANGED lugares
      BY <1>5 DEF PasoSAFA, EjecutarProceso, EjecDespertar, EjecCondicion, EjecOrdenar, colas
    <2> QED
      BY <1>1, <2>1 DEF Sigue
  <1>6. CASE PasoSAFA(ConexionDAM)
    <2>1. CASE AbrirSinNuevo \/ OperacionOkSinBloqueado
      BY <1>1, <1>2, <2>1 DEF AbrirSinNuevo, OperacionOkSinBloqueado, Sigue
    <2>2. CASE AbrirOk \/ AbrirMal
      <3> DEFINE k == IdRespuesta
      <3>1. /\ k \in 1 .. Len(dtb) /\ Len(dtb') = Len(dtb)
            /\ \A j \in 1 .. Len(dtb) : j # k => dtb'[j].seEstaCargando = dtb[j].seEstaCargando
            /\ Real(k) \in EnNuevos /\ EnNuevos' = EnNuevos \ {Real(k)}
            /\ EnBloqueados' = EnBloqueados /\ Corriendo' = Corriendo
            /\ \/ AbrirOk /\ EnListos' = EnListos \cup {Real(k)} /\ EnTerminados' = EnTerminados
               \/ EnListos' = EnListos /\ EnTerminados' = EnTerminados \cup {Real(k)}
        BY <2>2, AbrirColas
      <3>2. dtb[k].seEstaCargando = 1
        <4>1. deDAM \in Seq(PaquetesDe(Llamados)) /\ deDAM # <<>>
          BY <2>2 DEF SoloLlamados, Sobre, AbrirOk, AbrirMal, Respuesta
        <4>2. Head(deDAM) \in PaquetesDe(Llamados)
          BY <4>1, HeadTailProperties
        <4>3. k \in Llamados \cup {0} /\ k # 0
          BY <3>1, <4>2, LugaresDeCreados DEF PaquetesDe, IdRespuesta
        <4> QED
          BY <3>1, <4>3 DEF Llamados
      <3> HIDE DEF k
      <3> QED
        BY <3>1, <3>2, CicloAbrir
    <2>3. CASE OperacionOk \/ OperacionMal
      BY <2>3, OperacionColas, CicloOperacion
    <2> QED
      BY <1>6, <2>1, <2>2, <2>3 DEF PasoSAFA, ConexionDAM
  <1>7. ASSUME NEW c \in CPUs, PasoSAFA(ConexionCPU(c)) PROVE Sigue
    <2>1. ASSUME NEW e, procesoEnEjecucion # Nada, Desocupar, CambiarEstado(e),
                 procesos_nuevos' = procesos_nuevos, dtb' = dtb,
                 \/ /\ UNCHANGED <<procesos_bloqueados, procesos_terminados>>
                    /\ procesos_listos' \in {procesos_listos, Append(procesos_listos, procesoEnEjecucion)}
                 \/ /\ UNCHANGED <<procesos_listos, procesos_terminados>> /\ e = "bloqueado"
                    /\ procesos_bloqueados' = Append(procesos_bloqueados, procesoEnEjecucion)
                 \/ /\ UNCHANGED <<procesos_listos, procesos_bloqueados>>
                    /\ procesos_terminados' = Append(procesos_terminados, procesoEnEjecucion)
          PROVE  Sigue
      <3>1. /\ procesoEnEjecucion \in Corriendo /\ Corriendo' = {} /\ EnNuevos' = EnNuevos
            /\ \/ /\ EnListos' \in {EnListos, EnListos \cup Corriendo}
                  /\ EnBloqueados' = EnBloqueados /\ EnTerminados' = EnTerminados
               \/ /\ EnListos' = EnListos /\ EnTerminados' = EnTerminados
                  /\ EnBloqueados' = EnBloqueados \cup Corriendo
               \/ /\ EnListos' = EnListos /\ EnBloqueados' = EnBloqueados
                  /\ EnTerminados' = EnTerminados \cup Corriendo
        BY <2>1, ElQueCorreSeVa
      <3> QED
        BY <2>1, <3>1, CicloSeVa DEF Sigue
    <2>2. CASE FinDeScript(c)
      BY <2>1, <2>2 DEF FinDeScript
    <2>3. CASE FinDeQuantum(c)
      BY <2>1, <2>3 DEF FinDeQuantum
    <2>4. CASE DummyEnviado(c)
      BY <2>1, <2>4 DEF DummyEnviado, colas
    <2>5. CASE Bloquear(c)
      BY <2>1, <2>5 DEF Bloquear
    <2>6. CASE FinIgnorado(c) \/ FinDeSentencia(c)
      BY <1>1, <2>6 DEF FinIgnorado, FinDeSentencia, safa, colas
    <2>7. CASE \/ FinDeQuantumSinProceso(c) \/ VerificarSiFinalizar(c) \/ DummySinProceso(c)
               \/ BloquearSinProceso(c) \/ Recurso(c)
      BY <1>1, <1>2, <2>7 DEF FinDeQuantumSinProceso, VerificarSiFinalizar, DummySinProceso,
                              BloquearSinProceso, Recurso, CaerAlRecibir
    <2> QED
      BY <1>7, <2>2, <2>3, <2>4, <2>5, <2>6, <2>7 DEF PasoSAFA, ConexionCPU
  <1>8. ASSUME NEW c \in CPUs, PasoCPU(c) \/ PasoDAM(c) PROVE Sigue
    BY <1>1, <1>8 DEF PasoCPU, PasoDAM, safa, colas
  <1>9. CASE UNCHANGED vars
    <2>1. UNCHANGED lugares
      BY <1>9 DEF vars, safa, colas
    <2> QED
      BY <1>1, <2>1 DEF Sigue
  <1> QED
    BY <1>3, <1>4, <1>5, <1>6, <1>7, <1>8, <1>9 DEF Next, Sigue

(* Whatever the queues, the dummies, the CPUs and DAM do, each process lives the    *)
(* life of CicloDeVida: it is created after those before it, begins to be loaded    *)
(* after those that wait since before, is made ready from its load once, runs only  *)
(* from the ready queue, one at a time, leaves the blocked ones only to be ready or *)
(* finished, and never comes back once it is finished or lost.                      *)
THEOREM LosProcesosVivenElCiclo == Spec => ImplementaCicloDeVida
  <1>1. Init => Ciclo!Init
    <2> SUFFICES ASSUME Init PROVE Ciclo!Init
      OBVIOUS
    <2>1. Len(dtb) = 0 /\ \A i \in Ids : i > Len(dtb)
      BY DEF Init, InitSAFA, Ids
    <2> QED
      BY <2>1 DEF Ciclo!Init, Ciclo!Procesos, Fases, Fase, Ids
  <1>2. Init => CargaFIFO
    BY DEF Init, InitSAFA, CargaFIFO
  <1> DEFINE I == TipoInductivo /\ ColasInductivo /\ CargaFIFO /\ SoloLlamados
  <1>3. Init => I
    BY <1>2, Inicio, ColasAlInicio, LlamadosAlInicio
  <1>4. I /\ [Next]_vars => I'
    BY Paso, PasoColas, PasoFIFO, PasoLlamados
  <1>5. I /\ [Next]_vars => [Ciclo!Next]_Fases
    BY Paso, PasoFIFO, PorEdadDespues, PasoCiclo
  <1> QED
    BY <1>1, <1>3, <1>4, <1>5, PTL DEF ImplementaCicloDeVida, Ciclo!Spec, Spec
================================================================================
