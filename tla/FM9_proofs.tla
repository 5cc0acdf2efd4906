------------------------------ MODULE FM9_proofs ------------------------------
(* Proofs about FM9 for every memory, every set of CPUs and every set of scripts *)
EXTENDS FM9, SequenceTheorems, TLAPS

(* The strengthening: segments follow one another in the order of the table and of *)
(* their numbers, and end where the next one would be placed, inside the memory.    *)
Ordenados ==
    /\ direccionBaseAusar <= tamanioMemoria
    /\ \A i \in DOMAIN lista_segmentos :
          /\ lista_segmentos[i].numeroSegmento <= idGlobal
          /\ Fin(lista_segmentos[i]) <= direccionBaseAusar
    /\ \A i, j \in DOMAIN lista_segmentos : i < j =>
          /\ lista_segmentos[i].numeroSegmento < lista_segmentos[j].numeroSegmento
          /\ Fin(lista_segmentos[i]) <= lista_segmentos[j].base

(* What a thread knows between its steps: the segment of the script to be copied is *)
(* the last one, and the element a search is at, or has found, is one of the table. *)
EnCurso ==
    /\ hiloDAM # Nada => /\ lista_segmentos # <<>>
                         /\ Ultimo.CantBytes = Bytes[hiloDAM] /\ Ultimo.limite = Lineas[hiloDAM]
    /\ \A c \in CPUs :
          /\ hilo[c].estado \in {"busca", "hallado"} => hilo[c].i >= 1
          /\ hilo[c].estado = "hallado" => hilo[c].i <= Len(lista_segmentos)

Tabla == TypeOK /\ Ordenados /\ EnCurso

(* What the type says of the table. *)
LEMMA TipoDeLista ==
    ASSUME TypeOK
    PROVE  /\ Len(lista_segmentos) \in Nat
           /\ DOMAIN lista_segmentos = 1 .. Len(lista_segmentos)
           /\ \A i \in DOMAIN lista_segmentos :
                 /\ lista_segmentos[i] \in Segmentos
                 /\ lista_segmentos[i].base \in Nat /\ lista_segmentos[i].CantBytes \in Nat
                 /\ lista_segmentos[i].limite \in Nat /\ lista_segmentos[i].numeroSegmento \in Nat
                 /\ Fin(lista_segmentos[i]) \in Nat
           /\ lista_segmentos # <<>> => Len(lista_segmentos) \in DOMAIN lista_segmentos
           /\ direccionBaseAusar \in Nat
  <1>1. lista_segmentos \in Seq(Segmentos)
    BY DEF TypeOK
  <1>2. /\ Len(lista_segmentos) \in Nat /\ DOMAIN lista_segmentos = 1 .. Len(lista_segmentos)
        /\ lista_segmentos # <<>> => Len(lista_segmentos) \in DOMAIN lista_segmentos
    BY <1>1, LenProperties, EmptySeq
  <1>3. \A i \in DOMAIN lista_segmentos : lista_segmentos[i] \in Segmentos
    BY <1>1, <1>2, ElementOfSeq
  <1>4. \A s \in Segmentos : s.base \in Nat /\ s.CantBytes \in Nat /\ s.limite \in Nat
                             /\ s.numeroSegmento \in Nat /\ Fin(s) \in Nat
    BY DEF Segmentos, Fin
  <1>5. direccionBaseAusar \in Nat
    BY <1>2, <1>3, <1>4 DEF direccionBaseAusar, Ultimo, Fin
  <1> QED
    BY <1>2, <1>3, <1>4, <1>5

(* The bytes of a segment are bytes of the memory. *)
LEMMA TipoDeTexto ==
    ASSUME TypeOK, Ordenados, NEW i \in DOMAIN lista_segmentos
    PROVE  Texto(lista_segmentos[i]) \in Seq((Escriptorios \X Nat) \cup {Nada})
  <1> DEFINE s == lista_segmentos[i]
  <1>1. s.base \in Nat /\ s.CantBytes \in Nat /\ s.base + s.CantBytes <= tamanioMemoria
    BY TipoDeLista, FM9Assumption DEF Ordenados, Fin
  <1>2. \A k \in 1 .. s.CantBytes : s.base + k - 1 \in Direcciones
    BY <1>1, FM9Assumption DEF Direcciones
  <1>3. \A k \in 1 .. s.CantBytes : memoriaReal[s.base + k - 1] \in (Escriptorios \X Nat) \cup {Nada}
    BY <1>2 DEF TypeOK
  <1>4. Texto(s) \in [1 .. s.CantBytes -> (Escriptorios \X Nat) \cup {Nada}]
    BY <1>3 DEF Texto
  <1> QED
    BY <1>1, <1>4, SeqDef

(* A thread keeps its type when one of its fields changes. *)
LEMMA TipoDeHilo ==
    ASSUME TypeOK, NEW c \in CPUs
    PROVE  hilo[c] \in Hilos /\ hilo[c].i \in Nat
  BY DEF TypeOK, Hilos

(* The table after one more segment. *)
LEMMA Agregado ==
    ASSUME TypeOK, NEW s \in Segmentos, lista_segmentos' = Append(lista_segmentos, s)
    PROVE  /\ lista_segmentos' \in Seq(Segmentos) /\ lista_segmentos' # <<>>
           /\ Len(lista_segmentos') = Len(lista_segmentos) + 1
           /\ DOMAIN lista_segmentos' = 1 .. Len(lista_segmentos) + 1
           /\ \A i \in DOMAIN lista_segmentos :
                 i \in DOMAIN lista_segmentos' /\ lista_segmentos'[i] = lista_segmentos[i]
           /\ lista_segmentos'[Len(lista_segmentos) + 1] = s
  <1>1. lista_segmentos \in Seq(Segmentos)
    BY DEF TypeOK
  <1> QED
    BY <1>1, TipoDeLista, AppendProperties, LenProperties, EmptySeq

(* The empty memory. *)
LEMMA TablaAlInicio == Init => Tabla
  <1> SUFFICES ASSUME Init PROVE Tabla
    OBVIOUS
  <1>1. DOMAIN lista_segmentos = {} /\ lista_segmentos \in Seq(Segmentos)
    BY EmptySeq DEF Init
  <1>2. TypeOK
    BY <1>1 DEF Init, TypeOK, Hilos, Sentencias
  <1>3. direccionBaseAusar = 0
    BY DEF Init, direccionBaseAusar
  <1> QED
    BY <1>1, <1>2, <1>3, FM9Assumption DEF Ordenados, EnCurso, Tabla, Init

LEMMA TablaDelPaso == Tabla /\ [Next]_fm9 => Tabla'
  <1> SUFFICES ASSUME TypeOK, Ordenados, EnCurso, [Next]_fm9 PROVE TypeOK' /\ Ordenados' /\ EnCurso'
    BY DEF Tabla
  <1>a. ASSUME UNCHANGED <<lista_segmentos, idGlobal>> PROVE Ordenados'
    BY <1>a DEF Ordenados, direccionBaseAusar, Ultimo
  <1>1. CASE UNCHANGED fm9
    BY <1>1, <1>a DEF fm9, TypeOK, EnCurso, Ultimo
  <1>2. CASE GuardarEscriptorio
    <2>1. /\ Ultimo.numeroSegmento \in Nat /\ Ultimo.base \in Nat
          /\ hiloDAM \in Escriptorios /\ Bytes[hiloDAM] \in Nat
      BY <1>2, TipoDeLista, FM9Assumption DEF Ultimo, EnCurso, GuardarEscriptorio, TypeOK
    <2>2. \A k \in 1 .. Bytes[hiloDAM] : Contenido(hiloDAM)[k] \in Escriptorios \X Nat
      BY <2>1 DEF Contenido
    <2>3. memoriaReal' \in [Direcciones -> (Escriptorios \X Nat) \cup {Nada}]
      <3>1. \A d \in Direcciones : d \in Ultimo.base .. (Ultimo.base + Bytes[hiloDAM] - 1)
                => d - Ultimo.base + 1 \in 1 .. Bytes[hiloDAM]
        BY <2>1, FM9Assumption DEF Direcciones
      <3> QED
        BY <1>2, <2>2, <3>1 DEF GuardarEscriptorio, TypeOK
    <2> QED
      BY <1>2, <2>1, <2>3, <1>a DEF GuardarEscriptorio, EnCurso, TypeOK
  <1>3. CASE SinTabla
    BY <1>3, <1>a DEF SinTabla, TypeOK, EnCurso, Ultimo
  <1>4. ASSUME NEW e \in Escriptorios, AgregarSegmento(e) PROVE TypeOK' /\ Ordenados' /\ EnCurso'
    <2> DEFINE s == [numeroSegmento |-> idGlobal + 1, base |-> direccionBaseAusar,
                     limite |-> Lineas[e], CantBytes |-> Bytes[e]]
               L == Len(lista_segmentos)
    <2>1. s \in Segmentos /\ Bytes[e] \in Nat /\ idGlobal \in Nat
      BY TipoDeLista, FM9Assumption DEF Segmentos, TypeOK
    <2>2. lista_segmentos' = Append(lista_segmentos, s) /\ idGlobal' = idGlobal + 1
      BY <1>4 DEF AgregarSegmento
    <2>3. direccionBaseAusar + Bytes[e] <= tamanioMemoria
      BY <1>4 DEF AgregarSegmento, Entra
    <2>4. s.base = direccionBaseAusar /\ Fin(s) = direccionBaseAusar + Bytes[e] /\ s.numeroSegmento = idGlobal + 1
      BY DEF Fin
    <2> HIDE DEF s
    <2>5. /\ lista_segmentos' \in Seq(Segmentos) /\ lista_segmentos' # <<>>
          /\ Len(lista_segmentos') = L + 1 /\ L \in Nat
          /\ DOMAIN lista_segmentos' = 1 .. L + 1 /\ DOMAIN lista_segmentos = 1 .. L
          /\ \A i \in 1 .. L : lista_segmentos'[i] = lista_segmentos[i]
          /\ lista_segmentos'[L + 1] = s
      BY <2>1, <2>2, Agregado, TipoDeLista
    <2>6. direccionBaseAusar' = Fin(s)
      BY <2>5 DEF direccionBaseAusar, Ultimo, Fin
    <2>7. TypeOK'
      BY <1>4, <2>1, <2>2, <2>5 DEF AgregarSegmento, TypeOK
    <2>8. direccionBaseAusar' <= tamanioMemoria
      BY <2>3, <2>4, <2>6
    <2>9. ASSUME NEW i \in DOMAIN lista_segmentos'
          PROVE  /\ lista_segmentos'[i].numeroSegmento <= idGlobal'
                 /\ Fin(lista_segmentos'[i]) <= direccionBaseAusar'
      <3>1. CASE i = L + 1
        BY <2>2, <2>4, <2>5, <2>6, <2>1, <3>1, TipoDeLista
      <3>2. CASE i # L + 1
        <4>1. i \in DOMAIN lista_segmentos /\ lista_segmentos'[i] = lista_segmentos[i]
          BY <2>5, <3>2
        <4>2. /\ lista_segmentos[i].numeroSegmento <= idGlobal
              /\ Fin(lista_segmentos[i]) <= direccionBaseAusar
          BY <4>1 DEF Ordenados
        <4> QED
          BY <2>1, <2>2, <2>4, <2>6, <4>1, <4>2, TipoDeLista
      <3> QED
        BY <3>1, <3>2
    <2>10. ASSUME NEW i \in DOMAIN lista_segmentos', NEW j \in DOMAIN lista_segmentos', i < j
           PROVE  /\ lista_segmentos'[i].numeroSegmento < lista_segmentos'[j].numeroSegmento
                  /\ Fin(lista_segmentos'[i]) <= lista_segmentos'[j].base
      <3>1. i \in DOMAIN lista_segmentos /\ lista_segmentos'[i] = lista_segmentos[i]
        BY <2>5, <2>10
      <3>2. CASE j = L + 1
        <4>1. /\ lista_segmentos[i].numeroSegmento <= idGlobal
              /\ Fin(lista_segmentos[i]) <= direccionBaseAusar
          BY <3>1 DEF Ordenados
        <4> QED
          BY <2>1, <2>4, <2>5, <3>1, <3>2, <4>1, TipoDeLista
      <3>3. CASE j # L + 1
        <4>1. j \in DOMAIN lista_segmentos /\ lista_segmentos'[j] = lista_segmentos[j]
          BY <2>5, <3>3
        <4> QED
          BY <2>10, <3>1, <4>1 DEF Ordenados
      <3> QED
        BY <3>2, <3>3
    <2>11. EnCurso'
      <3>1. Ultimo' = s /\ hiloDAM' = e /\ hilo' = hilo
        BY <1>4, <2>5 DEF Ultimo, AgregarSegmento
      <3>2. s.CantBytes = Bytes[e] /\ s.limite = Lineas[e]
        BY DEF s
      <3>3. \A c \in CPUs : hilo[c].i \in Nat
        BY TipoDeHilo
      <3> QED
        BY <2>5, <3>1, <3>2, <3>3 DEF EnCurso
    <2> QED
      BY <2>7, <2>8, <2>9, <2>10, <2>11 DEF Ordenados
  <1>5. ASSUME NEW c \in CPUs, Pedir(c) PROVE TypeOK' /\ Ordenados' /\ EnCurso'
    <2>1. PICK p \in entregados, linea \in Int :
               /\ linea \in 0 .. Lineas[p.escriptorio]
               /\ numSegmentoAbuscar' = p.numeroSegmento
               /\ hilo' = Buscando(c, p.numeroSegmento, linea)
      BY <1>5 DEF Pedir
    <2>2. p.numeroSegmento \in Nat /\ linea \in Nat
      BY <2>1, FM9Assumption DEF TypeOK
    <2>3. hilo' \in [CPUs -> Hilos]
      BY <2>1, <2>2, ZenonT(60) DEF Buscando, Hilos, TypeOK
    <2>4. EnCurso'
      BY <1>5, <2>1 DEF Pedir, Buscando, EnCurso, TypeOK, Ultimo
    <2> QED
      BY <1>5, <2>1, <2>2, <2>3, <2>4, <1>a DEF Pedir, TypeOK
  <1>6. ASSUME NEW c \in CPUs, Mirar(c) PROVE TypeOK' /\ Ordenados' /\ EnCurso'
    <2>1. hilo' \in [CPUs -> Hilos]
      <3>1. CASE hilo' = [hilo EXCEPT ![c].estado = "hallado"]
        BY <3>1 DEF TypeOK, Hilos
      <3>2. CASE hilo' = [hilo EXCEPT ![c].i = @ + 1]
        <4> DEFINE h == [hilo[c] EXCEPT !.i = hilo[c].i + 1]
        <4>1. h \in Hilos
          BY TipoDeHilo DEF Hilos
        <4>2. hilo' = [hilo EXCEPT ![c] = h]
          BY <3>2
        <4> QED
          BY <4>1, <4>2 DEF TypeOK
      <3> QED
        BY <1>6, <3>1, <3>2 DEF Mirar
    <2>2. EnCurso'
      BY <1>6, TipoDeHilo DEF Mirar, EnCurso, TypeOK, Ultimo
    <2> QED
      BY <1>6, <2>1, <2>2, <1>a DEF Mirar, TypeOK
  <1>7. ASSUME NEW c \in CPUs, NoHallado(c) PROVE TypeOK' /\ Ordenados' /\ EnCurso'
    BY <1>7, <1>a DEF NoHallado, TypeOK, EnCurso, Ultimo
  <1>8. ASSUME NEW c \in CPUs, Responder(c) PROVE TypeOK' /\ Ordenados' /\ EnCurso'
    <2>1. PICK t : t = Texto(segmentoBuscado(c))
      OBVIOUS
    <2>2. hilo' = [hilo EXCEPT ![c].estado = "libre",
                               ![c].sentencia = [texto |-> t, linea |-> hilo[c].programCounter]]
      BY <1>8, <2>1 DEF Responder
    <2>3. t \in Seq((Escriptorios \X Nat) \cup {Nada})
      <3>1. hilo[c].i \in DOMAIN lista_segmentos
        BY <1>8, TipoDeHilo, TipoDeLista DEF Responder, EnCurso
      <3> QED
        BY <2>1, <3>1, TipoDeTexto DEF segmentoBuscado
    <2>4. hilo' \in [CPUs -> Hilos]
      <3>1. [texto |-> t, linea |-> hilo[c].programCounter] \in Sentencias
        BY <2>3 DEF Sentencias, TypeOK, Hilos
      <3> QED
        BY <2>2, <3>1, ZenonT(60) DEF TypeOK, Hilos
    <2>5. EnCurso'
      BY <1>8, <2>2 DEF Responder, EnCurso, TypeOK, Ultimo
    <2> QED
      BY <1>8, <2>4, <2>5, <1>a DEF Responder, TypeOK
  <1>9. ASSUME NEW c \in CPUs, Callar(c) PROVE TypeOK' /\ Ordenados' /\ EnCurso'
    <2>1. hilo' \in [CPUs -> Hilos]
      BY <1>9 DEF Callar, TypeOK, Hilos
    <2>2. EnCurso'
      BY <1>9 DEF Callar, EnCurso, TypeOK, Ultimo
    <2> QED
      BY <1>9, <2>1, <2>2, <1>a DEF Callar, TypeOK
  <1> QED
    BY <1>1, <1>2, <1>3, <1>4, <1>5, <1>6, <1>7, <1>8, <1>9 DEF Next

(* No segment gets out of the memory or over another, and no number names two: for *)
(* any memory, scripts and CPUs.                                                    *)
THEOREM SegmentosSinSolapar == Spec => [](TypeOK /\ SegmentosDisjuntos)
  <1>1. Tabla => TypeOK /\ SegmentosDisjuntos
    <2> SUFFICES ASSUME TypeOK, Ordenados,
                        NEW i \in DOMAIN lista_segmentos, NEW j \in DOMAIN lista_segmentos
                 PROVE  /\ Fin(lista_segmentos[i]) <= tamanioMemoria
                        /\ i # j =>
                            /\ \/ Fin(lista_segmentos[i]) <= lista_segmentos[j].base
                               \/ Fin(lista_segmentos[j]) <= lista_segmentos[i].base
                            /\ lista_segmentos[i].numeroSegmento # lista_segmentos[j].numeroSegmento
      BY DEF SegmentosDisjuntos, Tabla
    <2>1. Fin(lista_segmentos[i]) <= tamanioMemoria
      BY TipoDeLista, FM9Assumption DEF Ordenados
    <2>2. i \in Nat /\ j \in Nat
      BY TipoDeLista
    <2>3. CASE i < j
      BY <2>1, <2>3, TipoDeLista DEF Ordenados
    <2>4. CASE j < i
      BY <2>1, <2>4, TipoDeLista DEF Ordenados
    <2> QED
      BY <2>1, <2>2, <2>3, <2>4
  <1> QED
    BY <1>1, TablaAlInicio, TablaDelPaso, PTL DEF Spec

--------------------------------------------------------------------------------
(* What is in the memory stays there *)

(* Element i holds the whole of script e. *)
Guarda(i, e) ==
    /\ i \in DOMAIN lista_segmentos
    /\ lista_segmentos[i].limite = Lineas[e]
    /\ lista_segmentos[i].CantBytes = Bytes[e]
    /\ \A k \in 1 .. Bytes[e] : memoriaReal[lista_segmentos[i].base + k - 1] = <<e, k>>

(* The strengthening: a segment told to DAM is not the one being copied. *)
Guardados ==
    \A p \in entregados : \E i \in DOMAIN lista_segmentos :
        /\ lista_segmentos[i].numeroSegmento = p.numeroSegmento
        /\ Guarda(i, p.escriptorio)
        /\ hiloDAM # Nada => i < Len(lista_segmentos)

(* Two ways of saying that a segment holds a script. *)
LEMMA TextoDeGuarda ==
    ASSUME TypeOK, NEW e \in Escriptorios, NEW i, Guarda(i, e)
    PROVE  Texto(lista_segmentos[i]) = Contenido(e)
  BY DEF Guarda, Texto, Contenido

(* The copy of a script touches no segment before the last. *)
LEMMA CopiaAjena ==
    ASSUME Tabla, GuardarEscriptorio, NEW e \in Escriptorios, NEW i, Guarda(i, e),
           i < Len(lista_segmentos)
    PROVE  Guarda(i, e)'
  <1> DEFINE s == lista_segmentos[i]
  <1>1. /\ i \in DOMAIN lista_segmentos /\ Len(lista_segmentos) \in DOMAIN lista_segmentos
        /\ s.base \in Nat /\ Ultimo.base \in Nat /\ Bytes[e] \in Nat
    BY TipoDeLista, FM9Assumption DEF Tabla, Guarda, EnCurso, GuardarEscriptorio, Ultimo
  <1>2. s.base + Bytes[e] <= Ultimo.base
    BY <1>1, TipoDeLista DEF Tabla, Ordenados, Ultimo, Fin, Guarda
  <1>3. s.base + Bytes[e] <= tamanioMemoria
    BY <1>1, TipoDeLista, FM9Assumption DEF Tabla, Ordenados, Fin, Guarda
  <1>4. \A k \in 1 .. Bytes[e] : /\ s.base + k - 1 \in Direcciones
                                 /\ s.base + k - 1 < Ultimo.base
    BY <1>1, <1>2, <1>3, FM9Assumption, SMTT(30) DEF Direcciones
  <1>5. \A k \in 1 .. Bytes[e] : memoriaReal'[s.base + k - 1] = memoriaReal[s.base + k - 1]
    BY <1>1, <1>4 DEF GuardarEscriptorio, Direcciones
  <1> QED
    BY <1>1, <1>5 DEF Guarda, GuardarEscriptorio

(* The copy of a script leaves it in the last segment. *)
LEMMA CopiaPropia ==
    ASSUME Tabla, GuardarEscriptorio, NEW e \in Escriptorios, e = hiloDAM
    PROVE  Guarda(Len(lista_segmentos), e)'
  <1> DEFINE u == Ultimo.base
  <1>1. /\ Len(lista_segmentos) \in DOMAIN lista_segmentos
        /\ u \in Nat /\ Bytes[e] \in Nat
        /\ Ultimo.CantBytes = Bytes[e] /\ Ultimo.limite = Lineas[e]
    BY TipoDeLista, FM9Assumption DEF Tabla, EnCurso, GuardarEscriptorio, Ultimo, TypeOK
  <1>2. u + Bytes[e] <= tamanioMemoria
    <2>1. Fin(Ultimo) <= direccionBaseAusar /\ direccionBaseAusar <= tamanioMemoria /\ Fin(Ultimo) \in Nat
      BY <1>1, TipoDeLista DEF Tabla, Ordenados, Ultimo
    <2>2. Fin(Ultimo) = u + Bytes[e]
      BY <1>1 DEF Fin
    <2> QED
      BY <2>1, <2>2, TipoDeLista, FM9Assumption DEF Tabla
  <1>3. ASSUME NEW k \in 1 .. Bytes[e]
        PROVE  memoriaReal'[u + k - 1] = <<e, k>>
    <2> DEFINE d == u + k - 1
    <2>1. d \in Direcciones /\ d \in u .. (u + Bytes[e] - 1) /\ d - u + 1 = k
      BY <1>1, <1>2, FM9Assumption, SMTT(30) DEF Direcciones
    <2> HIDE DEF d, u
    <2>2. memoriaReal' = [x \in Direcciones |-> IF x \in u .. (u + Bytes[e] - 1)
                                               THEN Contenido(e)[x - u + 1] ELSE memoriaReal[x]]
      BY DEF GuardarEscriptorio, u
    <2>3. memoriaReal'[d] = Contenido(e)[k]
      BY <2>1, <2>2
    <2> QED
      BY <2>3 DEF Contenido, d
  <1>4. lista_segmentos' = lista_segmentos
    BY DEF GuardarEscriptorio
  <1> QED
    BY <1>1, <1>3, <1>4 DEF Guarda, Ultimo

LEMMA GuardadosDelPaso == Tabla /\ Guardados /\ [Next]_fm9 => Guardados'
  <1> SUFFICES ASSUME Tabla, Guardados, [Next]_fm9 PROVE Guardados'
    OBVIOUS
  <1>1. CASE UNCHANGED <<memoriaReal, lista_segmentos, entregados, hiloDAM>>
    BY <1>1 DEF Guardados, Guarda
  <1>2. ASSUME NEW e \in Escriptorios, AgregarSegmento(e) PROVE Guardados'
    <2>1. PICK s \in Segmentos : lista_segmentos' = Append(lista_segmentos, s)
      <3> DEFINE s == [numeroSegmento |-> idGlobal + 1, base |-> direccionBaseAusar,
                       limite |-> Lineas[e], CantBytes |-> Bytes[e]]
      <3>1. s \in Segmentos
        BY TipoDeLista, FM9Assumption DEF Segmentos, TypeOK, Tabla
      <3> QED
        BY <1>2, <3>1 DEF AgregarSegmento
    <2>2. /\ Len(lista_segmentos') = Len(lista_segmentos) + 1
          /\ DOMAIN lista_segmentos = 1 .. Len(lista_segmentos) /\ Len(lista_segmentos) \in Nat
          /\ \A i \in DOMAIN lista_segmentos :
                 i \in DOMAIN lista_segmentos' /\ lista_segmentos'[i] = lista_segmentos[i]
      BY <2>1, Agregado, TipoDeLista DEF Tabla
    <2>3. memoriaReal' = memoriaReal /\ entregados' = entregados
      BY <1>2 DEF AgregarSegmento
    <2>4. ASSUME NEW i \in DOMAIN lista_segmentos, NEW f, Guarda(i, f)
          PROVE  Guarda(i, f)' /\ i < Len(lista_segmentos')
      BY <2>2, <2>3, <2>4 DEF Guarda
    <2> QED
      BY <2>2, <2>3, <2>4 DEF Guardados
  <1>3. CASE GuardarEscriptorio
    <2>1. /\ hiloDAM \in Escriptorios /\ hiloDAM # Nada /\ hiloDAM' = Nada
          /\ lista_segmentos' = lista_segmentos /\ Len(lista_segmentos) \in DOMAIN lista_segmentos
      BY <1>3, TipoDeLista DEF GuardarEscriptorio, Tabla, TypeOK, EnCurso
    <2>2. ASSUME NEW p \in entregados
          PROVE  \E i \in DOMAIN lista_segmentos : /\ lista_segmentos[i].numeroSegmento = p.numeroSegmento
                                                   /\ Guarda(i, p.escriptorio)'
      <3>1. PICK i \in DOMAIN lista_segmentos : /\ lista_segmentos[i].numeroSegmento = p.numeroSegmento
                                                /\ Guarda(i, p.escriptorio)
                                                /\ i < Len(lista_segmentos)
        BY <2>1 DEF Guardados
      <3>2. p.escriptorio \in Escriptorios
        BY DEF Tabla, TypeOK
      <3> QED
        BY <1>3, <3>1, <3>2, CopiaAjena
    <2>3. ASSUME NEW e \in Escriptorios, e = hiloDAM
          PROVE  Guarda(Len(lista_segmentos), e)'
      BY <1>3, <2>3, CopiaPropia
    <2>4. entregados' = entregados \cup {[numeroSegmento |-> Ultimo.numeroSegmento, escriptorio |-> hiloDAM]}
      BY <1>3 DEF GuardarEscriptorio
    <2>5. ASSUME NEW p \in entregados'
          PROVE  \E i \in DOMAIN lista_segmentos : /\ lista_segmentos[i].numeroSegmento = p.numeroSegmento
                                                   /\ Guarda(i, p.escriptorio)'
      <3>1. CASE p \in entregados
        BY <2>2, <3>1
      <3>2. CASE p = [numeroSegmento |-> Ultimo.numeroSegmento, escriptorio |-> hiloDAM]
        <4>1. p.escriptorio = hiloDAM /\ p.numeroSegmento = Ultimo.numeroSegmento
          BY <3>2
        <4>2. PICK e \in Escriptorios : e = hiloDAM
          BY <2>1
        <4> QED
          BY <2>1, <2>3, <4>1, <4>2 DEF Ultimo, Guarda
      <3> QED
        BY <2>4, <3>1, <3>2
    <2> QED
      BY <2>1, <2>5 DEF Guardados
  <1>4. CASE \/ SinTabla
             \/ \E c \in CPUs : Pedir(c) \/ Mirar(c) \/ NoHallado(c) \/ Responder(c) \/ Callar(c)
    BY <1>1, <1>4 DEF SinTabla, Pedir, Mirar, NoHallado, Responder, Callar
  <1> QED
    BY <1>1, <1>2, <1>3, <1>4 DEF Next, fm9

(* The segment of a number DAM was told holds that script for ever. *)
THEOREM EscriptoriosIntactos == Spec => []EscriptoriosGuardados
  <1>1. Init => Guardados
    BY DEF Init, Guardados
  <1>2. Tabla /\ Guardados => EscriptoriosGuardados
    <2> SUFFICES ASSUME TypeOK, Guardados, NEW p \in entregados
                 PROVE  \E i \in DOMAIN lista_segmentos :
                           /\ lista_segmentos[i].numeroSegmento = p.numeroSegmento
                           /\ lista_segmentos[i].limite = Lineas[p.escriptorio]
                           /\ Texto(lista_segmentos[i]) = Contenido(p.escriptorio)
      BY DEF EscriptoriosGuardados, Tabla
    <2>1. p.escriptorio \in Escriptorios
      BY DEF TypeOK
    <2>2. PICK i \in DOMAIN lista_segmentos : /\ lista_segmentos[i].numeroSegmento = p.numeroSegmento
                                              /\ Guarda(i, p.escriptorio)
      BY DEF Guardados
    <2> QED
      BY <2>1, <2>2, TextoDeGuarda DEF Guarda
  <1> QED
    BY <1>1, <1>2, TablaAlInicio, TablaDelPaso, GuardadosDelPaso, PTL DEF Spec

--------------------------------------------------------------------------------
(* The answers to the CPUs *)

(* What a search has found so far: it looks for its own segment as long as nobody   *)
(* trod on it, and that segment is one DAM was told of.                             *)
Busqueda(c) ==
    /\ hilo[c].estado \in {"busca", "hallado"} =>
          \E p \in entregados : p.numeroSegmento = hilo[c].numeroSegmento
    /\ hilo[c].estado = "busca" /\ ~hilo[c].pisada => numSegmentoAbuscar = hilo[c].numeroSegmento
    /\ hilo[c].estado = "hallado" /\ ~hilo[c].pisada =>
          segmentoBuscado(c).numeroSegmento = hilo[c].numeroSegmento

Contestada(c) ==
    hilo[c].estado = "libre" /\ hilo[c].sentencia # Nada /\ ~hilo[c].pisada =>
        /\ hilo[c].sentencia.linea = hilo[c].programCounter
        /\ \E p \in entregados :
              /\ p.numeroSegmento = hilo[c].numeroSegmento
              /\ hilo[c].programCounter < Lineas[p.escriptorio]
              /\ hilo[c].sentencia.texto = Contenido(p.escriptorio)

Respuestas == \A c \in CPUs : Busqueda(c) /\ Contestada(c)

(* The segment of a number is the only one that has it. *)
LEMMA SegmentoUnico ==
    ASSUME TypeOK, Ordenados, NEW i \in DOMAIN lista_segmentos, NEW j \in DOMAIN lista_segmentos,
           lista_segmentos[i].numeroSegmento = lista_segmentos[j].numeroSegmento
    PROVE  i = j
  <1>1. i \in Nat /\ j \in Nat
    BY TipoDeLista
  <1> QED
    BY <1>1, TipoDeLista, SMTT(30) DEF Ordenados

(* The answer of a thread whose search was its own. *)
LEMMA RespuestaPropia ==
    ASSUME Tabla, EscriptoriosGuardados, NEW c \in CPUs, Busqueda(c), Responder(c), ~hilo[c].pisada
    PROVE  \E p \in entregados : /\ p.numeroSegmento = hilo[c].numeroSegmento
                                 /\ hilo[c].programCounter < Lineas[p.escriptorio]
                                 /\ Texto(segmentoBuscado(c)) = Contenido(p.escriptorio)
  <1>1. hilo[c].i \in DOMAIN lista_segmentos
    BY TipoDeHilo, TipoDeLista DEF Responder, EnCurso, Tabla
  <1>2. PICK p \in entregados : p.numeroSegmento = hilo[c].numeroSegmento
    BY DEF Busqueda, Responder
  <1>3. PICK j \in DOMAIN lista_segmentos :
             /\ lista_segmentos[j].numeroSegmento = p.numeroSegmento
             /\ lista_segmentos[j].limite = Lineas[p.escriptorio]
             /\ Texto(lista_segmentos[j]) = Contenido(p.escriptorio)
    BY DEF EscriptoriosGuardados
  <1>4. segmentoBuscado(c) = lista_segmentos[hilo[c].i]
    BY DEF segmentoBuscado
  <1>5. lista_segmentos[hilo[c].i].numeroSegmento = hilo[c].numeroSegmento
    BY <1>4 DEF Busqueda, Responder
  <1>6. hilo[c].i = j
    BY <1>1, <1>2, <1>3, <1>5, SegmentoUnico DEF Tabla
  <1> QED
    BY <1>2, <1>3, <1>4, <1>6 DEF Responder

(* Only the thread of c touches what c knows, besides the tread of a new search. *)
LEMMA RespuestaAjena ==
    ASSUME NEW c \in CPUs, hilo'[c] = hilo[c], Busqueda(c), Contestada(c),
           numSegmentoAbuscar' = numSegmentoAbuscar, entregados \subseteq entregados',
           hilo[c].estado = "hallado" => segmentoBuscado(c)' = segmentoBuscado(c)
    PROVE  Busqueda(c)' /\ Contestada(c)'
  <1>1. Busqueda(c)'
    BY DEF Busqueda
  <1>2. Contestada(c)'
    BY DEF Contestada
  <1> QED
    BY <1>1, <1>2

LEMMA RespuestasDelPaso ==
    ASSUME Tabla, EscriptoriosGuardados, Respuestas, [Next]_fm9
    PROVE  Respuestas'
  <1> SUFFICES ASSUME NEW d \in CPUs PROVE Busqueda(d)' /\ Contestada(d)'
    BY DEF Respuestas
  <1>0. Busqueda(d) /\ Contestada(d)
    BY DEF Respuestas
  <1>a. ASSUME lista_segmentos' = lista_segmentos, hilo'[d] = hilo[d]
        PROVE  segmentoBuscado(d)' = segmentoBuscado(d)
    BY <1>a DEF segmentoBuscado
  <1>1. CASE UNCHANGED fm9
    BY <1>0, <1>1, <1>a, RespuestaAjena DEF fm9
  <1>2. CASE GuardarEscriptorio
    BY <1>0, <1>2, <1>a, RespuestaAjena DEF GuardarEscriptorio
  <1>3. CASE SinTabla
    BY <1>0, <1>3, <1>a, RespuestaAjena DEF SinTabla
  <1>4. ASSUME NEW e \in Escriptorios, AgregarSegmento(e) PROVE Busqueda(d)' /\ Contestada(d)'
    <2>1. PICK s \in Segmentos : lista_segmentos' = Append(lista_segmentos, s)
      <3> DEFINE s == [numeroSegmento |-> idGlobal + 1, base |-> direccionBaseAusar,
                       limite |-> Lineas[e], CantBytes |-> Bytes[e]]
      <3>1. s \in Segmentos
        BY TipoDeLista, FM9Assumption DEF Segmentos, TypeOK, Tabla
      <3> QED
        BY <1>4, <3>1 DEF AgregarSegmento
    <2>2. hilo' = hilo /\ numSegmentoAbuscar' = numSegmentoAbuscar /\ entregados' = entregados
      BY <1>4 DEF AgregarSegmento
    <2>3. hilo[d].estado = "hallado" => segmentoBuscado(d)' = segmentoBuscado(d)
      <3>1. hilo[d].estado = "hallado" => hilo[d].i \in DOMAIN lista_segmentos
        BY TipoDeHilo, TipoDeLista DEF EnCurso, Tabla
      <3> QED
        BY <2>1, <2>2, <3>1, Agregado DEF segmentoBuscado, Tabla
    <2> QED
      BY <1>0, <2>2, <2>3, RespuestaAjena
  <1>5. ASSUME NEW c \in CPUs, Pedir(c) PROVE Busqueda(d)' /\ Contestada(d)'
    <2>1. PICK p \in entregados, linea \in Int :
               /\ numSegmentoAbuscar' = p.numeroSegmento
               /\ hilo' = Buscando(c, p.numeroSegmento, linea)
      BY <1>5, FM9Assumption DEF Pedir, Tabla, TypeOK
    <2>2. entregados' = entregados /\ lista_segmentos' = lista_segmentos
      BY <1>5 DEF Pedir
    <2>3. CASE d = c
      <3>1. /\ hilo'[d].estado = "busca" /\ hilo'[d].numeroSegmento = p.numeroSegmento
        BY <2>1, <2>3, TipoDeHilo DEF Buscando, Hilos, Tabla
      <3> QED
        BY <2>1, <2>2, <3>1 DEF Busqueda, Contestada
    <2>4. CASE d # c
      <3>1. hilo'[d] = [hilo[d] EXCEPT !.pisada = hilo[d].pisada \/ hilo[d].estado = "busca"]
        BY <2>1, <2>4 DEF Buscando
      <3>2. /\ hilo'[d].estado = hilo[d].estado /\ hilo'[d].numeroSegmento = hilo[d].numeroSegmento
            /\ hilo'[d].programCounter = hilo[d].programCounter /\ hilo'[d].i = hilo[d].i
            /\ hilo'[d].sentencia = hilo[d].sentencia
            /\ hilo'[d].pisada = (hilo[d].pisada \/ hilo[d].estado = "busca")
        BY <3>1, TipoDeHilo DEF Hilos, Tabla
      <3>3. segmentoBuscado(d)' = segmentoBuscado(d)
        BY <2>2, <3>2 DEF segmentoBuscado
      <3> QED
        BY <1>0, <2>2, <3>2, <3>3 DEF Busqueda, Contestada
    <2> QED
      BY <2>3, <2>4
  <1>6. ASSUME NEW c \in CPUs, Mirar(c) PROVE Busqueda(d)' /\ Contestada(d)'
    <2>1. UNCHANGED <<numSegmentoAbuscar, entregados, lista_segmentos>>
      BY <1>6 DEF Mirar
    <2>2. CASE d # c
      <3>1. hilo'[d] = hilo[d]
        BY <1>6, <2>2 DEF Mirar, Tabla, TypeOK
      <3> QED
        BY <1>0, <1>a, <2>1, <3>1, RespuestaAjena
    <2>3. CASE d = c
      <3>1. /\ hilo[d].estado = "busca" /\ hilo'[d].numeroSegmento = hilo[d].numeroSegmento
            /\ hilo'[d].pisada = hilo[d].pisada
            /\ \/ hilo'[d].estado = "busca"
               \/ /\ hilo'[d].estado = "hallado" /\ hilo'[d].i = hilo[d].i
                  /\ lista_segmentos[hilo[d].i].numeroSegmento = numSegmentoAbuscar
        BY <1>6, <2>3, TipoDeHilo DEF Mirar, Hilos, Tabla, TypeOK
      <3> QED
        BY <1>0, <2>1, <3>1 DEF Busqueda, Contestada, segmentoBuscado
    <2> QED
      BY <2>2, <2>3
  <1>7. ASSUME NEW c \in CPUs, NoHallado(c) PROVE Busqueda(d)' /\ Contestada(d)'
    BY <1>0, <1>7, <1>a, RespuestaAjena DEF NoHallado
  <1>8. ASSUME NEW c \in CPUs, Responder(c) PROVE Busqueda(d)' /\ Contestada(d)'
    <2>1. UNCHANGED <<numSegmentoAbuscar, entregados, lista_segmentos>>
      BY <1>8 DEF Responder
    <2>2. CASE d # c
      <3>1. hilo'[d] = hilo[d]
        BY <1>8, <2>2 DEF Responder, Tabla, TypeOK
      <3> QED
        BY <1>0, <1>a, <2>1, <3>1, RespuestaAjena
    <2>3. CASE d = c
      <3>1. PICK t : t = Texto(segmentoBuscado(d))
        OBVIOUS
      <3>2. /\ hilo'[d].estado = "libre" /\ hilo'[d].numeroSegmento = hilo[d].numeroSegmento
            /\ hilo'[d].pisada = hilo[d].pisada /\ hilo'[d].programCounter = hilo[d].programCounter
            /\ hilo'[d].sentencia = [texto |-> t, linea |-> hilo[d].programCounter]
        BY <1>8, <2>3, <3>1, TipoDeHilo DEF Responder, Hilos, Tabla, TypeOK
      <3>3. Busqueda(d)'
        BY <3>2 DEF Busqueda
      <3>4. ASSUME ~hilo[d].pisada PROVE Contestada(d)'
        <4>1. \E p \in entregados : /\ p.numeroSegmento = hilo[d].numeroSegmento
                                    /\ hilo[d].programCounter < Lineas[p.escriptorio]
                                    /\ t = Contenido(p.escriptorio)
          BY <1>0, <1>8, <2>3, <3>1, <3>4, RespuestaPropia
        <4> QED
          BY <2>1, <3>2, <4>1 DEF Contestada
      <3> QED
        BY <3>2, <3>3, <3>4 DEF Contestada
    <2> QED
      BY <2>2, <2>3
  <1>9. ASSUME NEW c \in CPUs, Callar(c) PROVE Busqueda(d)' /\ Contestada(d)'
    <2>1. UNCHANGED <<numSegmentoAbuscar, entregados, lista_segmentos>>
      BY <1>9 DEF Callar
    <2>2. CASE d # c
      <3>1. hilo'[d] = hilo[d]
        BY <1>9, <2>2 DEF Callar, Tabla, TypeOK
      <3> QED
        BY <1>0, <1>a, <2>1, <3>1, RespuestaAjena
    <2>3. CASE d = c
      <3>1. hilo'[d].estado = "callado"
        BY <1>9, <2>3, TipoDeHilo DEF Callar, Hilos, Tabla, TypeOK
      <3> QED
        BY <3>1 DEF Busqueda, Contestada
    <2> QED
      BY <2>2, <2>3
  <1> QED
    BY <1>1, <1>2, <1>3, <1>4, <1>5, <1>6, <1>7, <1>8, <1>9 DEF Next

(* A CPU whose search no other one trod on gets the line of the script it asked for: *)
(* for any number of CPUs, and however their searches and the loads overlap.         *)
THEOREM SentenciasPropias == Spec => []SentenciaPedida
  <1>1. Init => Respuestas
    <2> SUFFICES ASSUME Init, NEW c \in CPUs PROVE Busqueda(c) /\ Contestada(c)
      BY DEF Respuestas
    <2>1. hilo[c].estado = "libre" /\ hilo[c].sentencia = Nada
      BY DEF Init
    <2> QED
      BY <2>1 DEF Busqueda, Contestada
  <1>2. Respuestas => SentenciaPedida
    BY DEF Respuestas, Contestada, SentenciaPedida
  <1>3. Tabla /\ EscriptoriosGuardados /\ Respuestas /\ [Next]_fm9 => Respuestas'
    BY RespuestasDelPaso
  <1> QED
    BY <1>1, <1>2, <1>3, TablaAlInicio, TablaDelPaso, EscriptoriosIntactos, PTL DEF Spec
================================================================================
