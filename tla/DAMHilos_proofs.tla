---------------------------- MODULE DAMHilos_proofs ----------------------------
(* Proofs about DAMHilos for any number of threads and of requests, and any files *)
EXTENDS DAMHilos, Secuencias_proofs

--------------------------------------------------------------------------------
(* The inductive invariant: what is on each socket is decided by what each thread *)
(* is doing, as long as no conversation has run into another.                     *)

(* A thread that MDJ is sending a file to *)
Transmite(c) == EnAbrir(c) /\ EnMDJ(c)
EnResultado == {c \in CPUs : hilo[c].paso = "resultado"}

(* how many messages of a transmission in n parts went by when p parts are left *)
Cuantos(n, p) == IF p = 0 THEN (IF n = 0 THEN 2 ELSE n + 3) ELSE 2 + n - p
Leidos(h) ==
    CASE h.paso = "flag" -> 0
      [] h.paso = "partes" -> 1
      [] OTHER -> Cuantos(Partes(h.paquete.archivo), h.partes)

HiloCoherente(c) ==
    LET h == hilo[c] IN
    /\ h.paso # "libre" => h.paquete \in Paquetes
    /\ EnAbrir(c) => h.paquete.tipoOperacion = 1
    /\ h.paso = "copia" => h.partes \in 0 .. Partes(h.paquete.archivo)
    /\ h.paso = "resultado" => h.paquete.tipoOperacion # 1
    /\ h.paso = "contestar" => h.paquete.resultado \in {0, 1}
    /\ h.paso = "contestar" /\ h.paquete.tipoOperacion = 1 /\ h.paquete.resultado = 1 =>
          \E s \in segmentos : s.id = h.paquete.id

(* every request has an id of its own, and MDJ answered none that is still waiting *)
IdsHilo == {hilo[c].paquete.id : c \in {d \in CPUs : hilo[d].paso # "libre"}}
IdsSAFA == {aSAFA[k].id : k \in DOMAIN aSAFA}

Identificadores ==
    /\ \A c, d \in CPUs :
          c # d /\ hilo[c].paso # "libre" /\ hilo[d].paso # "libre" =>
            hilo[c].paquete.id # hilo[d].paquete.id
    /\ \A c, d \in CPUs : \A k \in DOMAIN pedidos[c], m \in DOMAIN pedidos[d] :
          pedidos[c][k].id = pedidos[d][m].id => c = d /\ k = m
    /\ \A c \in CPUs : \A k \in DOMAIN pedidos[c] : pedidos[c][k].id \notin IdsHilo \cup IdsSAFA
    /\ \A d \in dados : d.id \in IdsHilo \cup IdsSAFA

(* the sockets of MDJ while it sends a file, and while it does not *)
TransmisionMDJ ==
    \A c \in CPUs : Transmite(c) =>
        LET e == Envio(hilo[c].paquete.archivo) IN
        \/ hilo[c].paso = "flag" /\ aMDJ = <<hilo[c].paquete>> /\ deMDJ = <<>>
        \/ aMDJ = <<>> /\ deMDJ = SubSeq(e, Leidos(hilo[c]) + 1, Len(e))

Propio(c) ==
    \/ aMDJ = <<hilo[c].paquete>> /\ deMDJ = <<>>
    \/ /\ aMDJ = <<>>
       /\ \E r \in {0, 1} : /\ deMDJ = <<Entero(r)>>
                            /\ [id |-> hilo[c].paquete.id, resultado |-> r] \in dados

CrearYBorrar ==
    /\ Len(aMDJ) + Len(deMDJ) = Cardinality(EnResultado)
    /\ \A k \in DOMAIN aMDJ : aMDJ[k].tipoOperacion # 1 /\ aMDJ[k].id \in IdsHilo \cup IdsSAFA
    /\ \A k, m \in DOMAIN aMDJ : k # m => aMDJ[k].id # aMDJ[m].id
    /\ \A k \in DOMAIN aMDJ : \A d \in dados : d.id # aMDJ[k].id
    /\ \A k \in DOMAIN deMDJ : deMDJ[k] \in {Entero(0), Entero(1)}
    /\ \A c \in EnResultado : ~hilo[c].solapado => Propio(c)
ResultadosMDJ == (\A c \in CPUs : ~Transmite(c)) => CrearYBorrar

(* the socket to FM9 and its thread, while a thread of DAM passes a file on to it *)
AFM9(p) == [Envio(p.archivo) EXCEPT ![1] = p]
Copiado(f, p) == SubSeq(Texto(f), 1, IF p = 0 THEN Tamanio[f] ELSE (Partes(f) - p) * TRANSFER_SIZE)

Copia(c) ==
    LET h == hilo[c]
        p == h.paquete
    IN \/ /\ hiloFM9.paso = "paquete" /\ deFM9 = <<>>
          /\ aFM9 = SubSeq(AFM9(p), 1, Leidos(h))
       \/ /\ hiloFM9.paso = "partes" /\ deFM9 = <<>> /\ hiloFM9.paquete = p /\ hiloFM9.texto = <<>>
          /\ aFM9 = SubSeq(AFM9(p), 2, Leidos(h))
       \/ /\ hiloFM9.paso = "parte" /\ deFM9 = <<>> /\ hiloFM9.paquete = p
          /\ hiloFM9.partes \in h.partes .. Partes(p.archivo)
          /\ hiloFM9.texto = Copiado(p.archivo, hiloFM9.partes)
          /\ aFM9 = SubSeq(AFM9(p), Cuantos(Partes(p.archivo), hiloFM9.partes) + 1, Leidos(h))
       \/ /\ hiloFM9.paso = "paquete" /\ h.partes = 0 /\ aFM9 = <<>>
          /\ \E r \in {0, 1} : /\ deFM9 = <<[p EXCEPT !.resultado = r]>>
                               /\ r = 1 => \E s \in segmentos : s.id = p.id

TransmisionFM9 ==
    /\ \A c \in CPUs : hilo[c].paso = "copia" => Copia(c)
    /\ (\A c \in CPUs : hilo[c].paso # "copia") =>
          aFM9 = <<>> /\ deFM9 = <<>> /\ hiloFM9.paso = "paquete"

(* each success of MDJ is on its socket, with a thread or told to S-AFA *)
Exitos == {d \in dados : d.resultado = 1}
EnSocket == IF \E c \in CPUs : Transmite(c) THEN {} ELSE {k \in DOMAIN deMDJ : deMDJ[k] = Entero(1)}
PorContestar ==
    {c \in CPUs : hilo[c].paso = "contestar" /\ hilo[c].paquete.tipoOperacion # 1
                  /\ hilo[c].paquete.resultado = 1}
Dichos == {k \in DOMAIN aSAFA : aSAFA[k].tipoOperacion # 1 /\ aSAFA[k].resultado = 1}
Cuenta ==
    Cardinality(Exitos) = Cardinality(EnSocket) + Cardinality(PorContestar) + Cardinality(Dichos)

Invariante ==
    /\ TypeOK
    /\ \A c \in CPUs : HiloCoherente(c)
    /\ Identificadores
    /\ ~MDJVivo => \E c \in CPUs : hilo[c].paso = "flag"
    /\ Sigue => TransmisionMDJ /\ ResultadosMDJ /\ TransmisionFM9 /\ Cuenta
    /\ ArchivoEntero
    /\ ResultadoPropio

--------------------------------------------------------------------------------
(* How a file is cut *)

(* A file is its whole parts and a last part of Resto bytes, or has no byte. *)
LEMMA PartesDeArchivo ==
    ASSUME NEW f \in Nombres
    PROVE  /\ Partes(f) \in Nat /\ Resto(f) \in 1 .. TRANSFER_SIZE
           /\ Partes(f) = 0 => Tamanio[f] = 0
           /\ Partes(f) > 0 => Tamanio[f] = (Partes(f) - 1) * TRANSFER_SIZE + Resto(f)
  <1> DEFINE q == Tamanio[f] \div TRANSFER_SIZE
             r == Tamanio[f] % TRANSFER_SIZE
  <1>1. Tamanio[f] \in Nat /\ TRANSFER_SIZE \in Nat \ {0}
    BY DAMHilosAssumption
  <1>2. q \in Nat /\ r \in 0 .. (TRANSFER_SIZE - 1) /\ Tamanio[f] = q * TRANSFER_SIZE + r
    BY <1>1, Z3T(30)
  <1>3. Partes(f) = q + (IF r # 0 THEN 1 ELSE 0) /\ Resto(f) = (IF r # 0 THEN r ELSE TRANSFER_SIZE)
    BY DEF Partes, Resto
  <1> HIDE DEF q, r
  <1>4. CASE r = 0
    <2>1. Partes(f) = q /\ Resto(f) = TRANSFER_SIZE /\ Tamanio[f] = q * TRANSFER_SIZE
      BY <1>1, <1>2, <1>3, <1>4
    <2>2. q > 0 => q * TRANSFER_SIZE = (q - 1) * TRANSFER_SIZE + TRANSFER_SIZE
      BY <1>1, <1>2
    <2>3. q = 0 => q * TRANSFER_SIZE = 0
      BY <1>1
    <2> QED
      BY <1>1, <1>2, <2>1, <2>2, <2>3
  <1>5. CASE r # 0
    <2>1. Partes(f) = q + 1 /\ Resto(f) = r
      BY <1>1, <1>2, <1>3, <1>5
    <2> QED
      BY <1>1, <1>2, <1>5, <2>1
  <1> QED
    BY <1>4, <1>5

LEMMA TextoEsTexto ==
    ASSUME NEW f \in Nombres
    PROVE  Texto(f) \in Textos /\ Len(Texto(f)) = Tamanio[f]
  <1>1. Tamanio[f] \in Nat
    BY DAMHilosAssumption
  <1>2. Texto(f) \in [1 .. Tamanio[f] -> Nombres \X Nat]
    BY <1>1 DEF Texto
  <1>3. Texto(f) \in Seq(Nombres \X Nat)
    BY <1>1, <1>2, SeqDef
  <1> QED
    BY <1>1, <1>2, <1>3, LenProperties DEF Textos

(* A part is within the file. *)
LEMMA TrozoEnTexto ==
    ASSUME NEW f \in Nombres, NEW i \in Nat, i < Partes(f)
    PROVE  /\ i * TRANSFER_SIZE \in Nat
           /\ i < Partes(f) - 1 => (i + 1) * TRANSFER_SIZE \in i * TRANSFER_SIZE + 1 .. Tamanio[f]
           /\ i = Partes(f) - 1 => i * TRANSFER_SIZE + Resto(f) = Tamanio[f]
           /\ (i + 1) * TRANSFER_SIZE = i * TRANSFER_SIZE + TRANSFER_SIZE
  <1> DEFINE T == TRANSFER_SIZE
             n == Partes(f)
             r == Resto(f)
             t == Tamanio[f]
  <1>1. T \in Nat \ {0} /\ n \in Nat /\ r \in 1 .. T /\ t \in Nat /\ t = (n - 1) * T + r /\ i < n
    BY PartesDeArchivo, DAMHilosAssumption
  <1> HIDE DEF T, n, r, t
  <1>2. i * T \in Nat /\ (i + 1) * T = i * T + T
    BY <1>1
  <1>3. i < n - 1 => (i + 1) * T <= (n - 1) * T
    <2> SUFFICES ASSUME i < n - 1 PROVE (i + 1) * T <= (n - 1) * T
      OBVIOUS
    <2>1. \A a \in Nat : a * T \in Nat
      BY <1>1
    <2>2. (n - 1) * T = (i + 1) * T + (n - 1 - (i + 1)) * T
      BY <1>1
    <2> QED
      BY <1>1, <2>1, <2>2
  <1>4. (n - 1) * T \in Nat
    BY <1>1
  <1>5. (i + 1) * T \in Nat
    BY <1>1
  <1>6. i < n - 1 => (i + 1) * T \in i * T + 1 .. t
    BY <1>1, <1>2, <1>3, <1>4, <1>5
  <1>7. i = n - 1 => i * T + r = t
    BY <1>1
  <1> QED
    BY <1>2, <1>6, <1>7 DEF T, n, r, t

LEMMA TrozoEsMensaje ==
    ASSUME NEW f \in Nombres, NEW i \in Nat, i < Partes(f),
           NEW m, m = (IF i = Partes(f) - 1 THEN Resto(f) ELSE TRANSFER_SIZE)
    PROVE  /\ Trozo(f, i, m) \in [bytes : Textos]
           /\ SubSeq(Trozo(f, i, m).bytes, 1, m) = Trozo(f, i, m).bytes
           /\ Copiado(f, Partes(f) - i) \o Trozo(f, i, m).bytes = Copiado(f, Partes(f) - i - 1)
  <1> DEFINE t == Texto(f)
             a == i * TRANSFER_SIZE
             S == Nombres \X Nat
  <1>1. t \in Seq(S) /\ Len(t) = Tamanio[f] /\ Tamanio[f] \in Nat /\ TRANSFER_SIZE \in Nat \ {0}
    BY TextoEsTexto, DAMHilosAssumption DEF Textos
  <1>2. a \in Nat /\ m \in Nat \ {0} /\ Partes(f) \in Nat
    BY TrozoEnTexto, PartesDeArchivo, <1>1, SMTT(30)
  <1>3. a + m \in a + 1 .. Tamanio[f]
    BY TrozoEnTexto, <1>1, <1>2, SMTT(30)
  <1>4. a + m = IF Partes(f) - i - 1 = 0 THEN Tamanio[f]
                ELSE (Partes(f) - (Partes(f) - i - 1)) * TRANSFER_SIZE
    <2>1. CASE i = Partes(f) - 1
      BY <2>1, TrozoEnTexto, <1>2
    <2>2. CASE i # Partes(f) - 1
      <3>1. Partes(f) - (Partes(f) - i - 1) = i + 1
        BY <1>2
      <3> QED
        BY <2>2, <3>1, TrozoEnTexto, <1>2
    <2> QED
      BY <2>1, <2>2
  <1>5. Trozo(f, i, m).bytes = SubSeq(t, a + 1, a + m)
    BY DEF Trozo, Parte
  <1>6. Copiado(f, Partes(f) - i) = SubSeq(t, 1, a)
    <2>1. Partes(f) - (Partes(f) - i) = i /\ Partes(f) - i # 0
      BY <1>2
    <2> QED
      BY <2>1 DEF Copiado
  <1>7. Copiado(f, Partes(f) - i - 1) = SubSeq(t, 1, a + m)
    BY <1>4 DEF Copiado
  <1> HIDE DEF t, a, S
  <1>8. SubSeq(t, a + 1, a + m) \in Seq(S) /\ Len(SubSeq(t, a + 1, a + m)) = m
    <2>1. \A k \in a + 1 .. a + m : t[k] \in S
      BY <1>1, <1>2, <1>3, ElementOfSeq
    <2>2. a + 1 \in Int /\ a + m \in Int /\ a + 1 <= a + m /\ a + m - (a + 1) + 1 = m
      BY <1>2
    <2> DEFINE b == a + 1
               c == a + m
    <2>3. b \in Int /\ c \in Int /\ b <= c /\ c - b + 1 = m /\ \A k \in b .. c : t[k] \in S
      BY <1>2, <2>1, <2>2
    <2> HIDE DEF b, c
    <2>4. SubSeq(t, b, c) \in Seq(S) /\ Len(SubSeq(t, b, c)) = IF b <= c THEN c - b + 1 ELSE 0
      BY <2>3, SubSeqProperties
    <2> QED
      BY <2>3, <2>4 DEF b, c
  <1>9. SubSeq(t, 1, a) \o SubSeq(t, a + 1, a + m) = SubSeq(t, 1, a + m)
    <2>1. 1 \in 1 .. Len(t) + 1 /\ a \in 1 - 1 .. Len(t) /\ a + m \in a .. Len(t)
      BY <1>1, <1>2, <1>3
    <2> QED
      BY <2>1, <1>1, ConcatAdjacentSubSeq
  <1>10. SubSeq(SubSeq(t, a + 1, a + m), 1, m) = SubSeq(t, a + 1, a + m)
    BY <1>8, SubSeqFull
  <1>11. Trozo(f, i, m) \in [bytes : Textos]
    <2>1. Trozo(f, i, m) = [bytes |-> SubSeq(t, a + 1, a + m)]
      BY DEF Trozo, Parte, t, a
    <2>2. SubSeq(t, a + 1, a + m) \in Textos
      BY <1>8 DEF Textos, S
    <2>3. \A x \in Textos : [bytes |-> x] \in [bytes : Textos]
      OBVIOUS
    <2> QED
      BY <2>1, <2>2, <2>3
  <1> QED
    BY <1>5, <1>6, <1>7, <1>9, <1>10, <1>11

LEMMA CopiadoEntero ==
    ASSUME NEW f \in Nombres
    PROVE  Copiado(f, 0) = Texto(f) /\ Copiado(f, Partes(f)) = <<>>
  <1>1. Copiado(f, 0) = Texto(f)
    <2>1. SubSeq(Texto(f), 1, Len(Texto(f))) = Texto(f)
      BY TextoEsTexto, SubSeqFull DEF Textos
    <2> QED
      BY <2>1, TextoEsTexto DEF Copiado
  <1>2. Copiado(f, Partes(f)) = SubSeq(Texto(f), 1, 0)
    <2>1. Partes(f) \in Nat /\ (Partes(f) - Partes(f)) * TRANSFER_SIZE = 0
      BY PartesDeArchivo, DAMHilosAssumption
    <2> QED
      BY <2>1, PartesDeArchivo DEF Copiado
  <1> QED
    BY <1>1, <1>2, SubSeqEmpty

(* What MDJ sends for a file, message by message. *)
LEMMA EnvioPorMensajes ==
    ASSUME NEW f \in Nombres
    PROVE  LET e == Envio(f)
               n == Partes(f)
           IN /\ e \in Seq(Mensajes) /\ Len(e) = Cuantos(n, 0)
              /\ e[1] = Entero(1) /\ e[2] = Entero(n)
              /\ \A i \in 0 .. n - 2 : e[i + 3] = Trozo(f, i, TRANSFER_SIZE)
              /\ n > 0 => e[n + 2] = Entero(Resto(f)) /\ e[n + 3] = Trozo(f, n - 1, Resto(f))
  <1> DEFINE n == Partes(f)
             A == <<Entero(1), Entero(n)>>
             B == [i \in 1 .. (n - 1) |-> Trozo(f, i - 1, TRANSFER_SIZE)]
             C == IF n > 0 THEN <<Entero(Resto(f)), Trozo(f, n - 1, Resto(f))>> ELSE <<>>
  <1>1. n \in Nat /\ Resto(f) \in Nat
    BY PartesDeArchivo, DAMHilosAssumption
  <1>2. \A v \in Nat : Entero(v) \in Mensajes
    BY DEF Entero, Mensajes
  <1>3. \A i \in 1 .. (n - 1) : Trozo(f, i - 1, TRANSFER_SIZE) \in Mensajes
    <2> TAKE i \in 1 .. (n - 1)
    <2>1. i - 1 \in Nat /\ i - 1 < n /\ i - 1 # n - 1
      BY <1>1
    <2> QED
      BY <2>1, TrozoEsMensaje DEF Mensajes
  <1>4. n > 0 => Trozo(f, n - 1, Resto(f)) \in Mensajes
    <2> SUFFICES ASSUME n > 0 PROVE Trozo(f, n - 1, Resto(f)) \in Mensajes
      OBVIOUS
    <2>1. n - 1 \in Nat /\ n - 1 < n
      BY <1>1
    <2> QED
      BY <2>1, TrozoEsMensaje DEF Mensajes
  <1>5. Envio(f) = A \o B \o C
    BY DEF Envio
  <1>6. A \in Seq(Mensajes) /\ Len(A) = 2 /\ A[1] = Entero(1) /\ A[2] = Entero(n)
    BY <1>1, <1>2
  <1>7. B \in Seq(Mensajes) /\ Len(B) = IF n > 0 THEN n - 1 ELSE 0
    <2>1. CASE n > 0
      <3>1. n - 1 \in Nat /\ B \in [1 .. (n - 1) -> Mensajes]
        BY <1>1, <1>3, <2>1
      <3> QED
        BY <3>1, <2>1, SeqDef, LenProperties
    <2>2. CASE n = 0
      <3>1. B \in [1 .. 0 -> Mensajes] /\ 0 \in Nat
        BY <1>1, <1>3, <2>2
      <3> QED
        BY <3>1, <2>2, SeqDef, LenProperties
    <2> HIDE DEF B, n
    <2> QED
      BY <1>1, <2>1, <2>2
  <1>8. /\ C \in Seq(Mensajes) /\ Len(C) = (IF n > 0 THEN 2 ELSE 0)
        /\ n > 0 => C[1] = Entero(Resto(f)) /\ C[2] = Trozo(f, n - 1, Resto(f))
    BY <1>1, <1>2, <1>4
  <1>9. \A i \in 1 .. (n - 1) : B[i] = Trozo(f, i - 1, TRANSFER_SIZE)
    OBVIOUS
  <1> HIDE DEF n, A, B, C
  <1>10. /\ A \o B \in Seq(Mensajes) /\ Len(A \o B) = 2 + Len(B)
         /\ \A i \in 1 .. 2 + Len(B) : (A \o B)[i] = IF i <= 2 THEN A[i] ELSE B[i - 2]
    <2>1. /\ A \o B \in Seq(Mensajes) /\ Len(A \o B) = Len(A) + Len(B)
          /\ \A i \in 1 .. Len(A) + Len(B) : (A \o B)[i] = IF i <= Len(A) THEN A[i] ELSE B[i - Len(A)]
      BY <1>6, <1>7, ConcatProperties
    <2> QED
      BY <2>1, <1>6
  <1>11. /\ (A \o B) \o C \in Seq(Mensajes) /\ Len((A \o B) \o C) = 2 + Len(B) + Len(C)
         /\ \A i \in 1 .. 2 + Len(B) + Len(C) :
              ((A \o B) \o C)[i] = IF i <= 2 + Len(B) THEN (A \o B)[i] ELSE C[i - (2 + Len(B))]
    <2> DEFINE D1 == A \o B
    <2>1. D1 \in Seq(Mensajes) /\ C \in Seq(Mensajes) /\ Len(D1) = 2 + Len(B)
      BY <1>8, <1>10
    <2> HIDE DEF D1
    <2>2. /\ D1 \o C \in Seq(Mensajes) /\ Len(D1 \o C) = Len(D1) + Len(C)
          /\ \A i \in 1 .. Len(D1) + Len(C) : (D1 \o C)[i] = IF i <= Len(D1) THEN D1[i] ELSE C[i - Len(D1)]
      BY <2>1, ConcatProperties, ZenonT(60)
    <2> QED
      BY <2>1, <2>2 DEF D1
  <1>12. Len(Envio(f)) = Cuantos(n, 0)
    BY <1>1, <1>5, <1>7, <1>8, <1>11 DEF Cuantos
  <1>13. Envio(f)[1] = Entero(1) /\ Envio(f)[2] = Entero(n)
    BY <1>1, <1>5, <1>6, <1>7, <1>8, <1>10, <1>11
  <1>14. \A i \in 0 .. n - 2 : Envio(f)[i + 3] = Trozo(f, i, TRANSFER_SIZE)
    <2> TAKE i \in 0 .. n - 2
    <2>1. i + 3 \in 1 .. 2 + Len(B) /\ i + 3 > 2 /\ i + 3 - 2 = i + 1 /\ i + 1 \in 1 .. n - 1 /\ i + 1 - 1 = i
      BY <1>1, <1>7
    <2>2. i + 3 \in 1 .. 2 + Len(B) + Len(C)
      BY <1>1, <1>7, <1>8
    <2>3. Envio(f)[i + 3] = B[i + 1]
      BY <1>1, <1>5, <1>7, <1>10, <1>11, <2>1, <2>2
    <2> QED
      BY <1>9, <2>1, <2>3
  <1>15. n > 0 => Envio(f)[n + 2] = C[1] /\ Envio(f)[n + 3] = C[2]
    <2> SUFFICES ASSUME n > 0 PROVE Envio(f)[n + 2] = C[1] /\ Envio(f)[n + 3] = C[2]
      OBVIOUS
    <2>1. Len(B) = n - 1 /\ Len(C) = 2
      BY <1>7, <1>8
    <2> DEFINE X == (A \o B) \o C
    <2>2. \A i \in 1 .. n + 3 : X[i] = IF i <= n + 1 THEN (A \o B)[i] ELSE C[i - (n + 1)]
      <3>1. 2 + Len(B) + Len(C) = n + 3 /\ 2 + Len(B) = n + 1
        BY <1>1, <2>1
      <3>2. \A i \in 1 .. 2 + Len(B) + Len(C) :
              X[i] = IF i <= 2 + Len(B) THEN (A \o B)[i] ELSE C[i - (2 + Len(B))]
        BY <1>11
      <3> HIDE DEF X
      <3> QED
        BY <3>1, <3>2
    <2> HIDE DEF X
    <2>3. n + 2 \in 1 .. n + 3 /\ n + 3 \in 1 .. n + 3 /\ n + 2 - (n + 1) = 1 /\ n + 3 - (n + 1) = 2
      BY <1>1
    <2>4. X[n + 2] = C[n + 2 - (n + 1)] /\ X[n + 3] = C[n + 3 - (n + 1)]
      BY <1>1, <2>2, <2>3
    <2> QED
      BY <1>5, <2>3, <2>4 DEF X
  <1> QED
    BY <1>5, <1>8, <1>11, <1>12, <1>13, <1>14, <1>15 DEF n

(* What FM9 is sent of it: the packet of the request takes the place of the flag. *)
LEMMA AFM9PorMensajes ==
    ASSUME NEW p \in Paquetes
    PROVE  LET a == AFM9(p)
               e == Envio(p.archivo)
           IN /\ a \in Seq(Paquetes \cup Mensajes) /\ Len(a) = Len(e) /\ Len(a) \in Nat /\ Len(a) >= 2
              /\ a[1] = p /\ \A i \in 2 .. Len(a) : a[i] = e[i]
  <1>1. p.archivo \in Nombres
    BY DEF Paquetes
  <1> DEFINE e == Envio(p.archivo)
             S == Paquetes \cup Mensajes
  <1>2. e \in Seq(Mensajes) /\ Len(e) = Cuantos(Partes(p.archivo), 0) /\ Partes(p.archivo) \in Nat
    BY <1>1, EnvioPorMensajes, PartesDeArchivo
  <1>3. Len(e) \in Nat /\ Len(e) >= 2
    BY <1>2 DEF Cuantos
  <1>4. AFM9(p) = [e EXCEPT ![1] = p]
    BY DEF AFM9
  <1> HIDE DEF e
  <1>5. e \in Seq(S)
    BY <1>2, SeqMonotonic
  <1>6. 1 \in 1 .. Len(e) /\ p \in S
    BY <1>3
  <1>7. /\ [e EXCEPT ![1] = p] \in Seq(S) /\ Len([e EXCEPT ![1] = p]) = Len(e)
        /\ \A j \in 1 .. Len(e) : [e EXCEPT ![1] = p][j] = IF j = 1 THEN p ELSE e[j]
    BY <1>5, <1>6, ExceptSeq
  <1> QED
    BY <1>3, <1>4, <1>7 DEF e

--------------------------------------------------------------------------------
(* What the invariant says of a thread, and of two of them *)

LEMMA TipoDeHilo ==
    ASSUME TypeOK, \A c \in CPUs : HiloCoherente(c), NEW c \in CPUs
    PROVE  /\ hilo[c] \in Hilos /\ hilo[c].partes \in Nat /\ hilo[c].solapado \in BOOLEAN
           /\ hilo[c].paso # "libre" =>
                 /\ hilo[c].paquete \in Paquetes /\ hilo[c].paquete.archivo \in Nombres
                 /\ hilo[c].paquete.id \in Ids /\ hilo[c].paquete.tipoOperacion \in {1, 8, 9}
           /\ EnAbrir(c) => hilo[c].paso # "libre"
  <1>1. hilo[c] \in Hilos
    BY DEF TypeOK
  <1>2. hilo[c].paso # "libre" => hilo[c].paquete \in Paquetes
    BY DEF HiloCoherente
  <1> QED
    BY <1>1, <1>2 DEF Hilos, Paquetes, EnAbrir

(* The conversation of an abrir with MDJ is the only one. *)
LEMMA SinMezcla ==
    ASSUME Sigue
    PROVE  /\ MDJVivo
           /\ \A c, d \in CPUs : c # d /\ EnAbrir(c) => ~EnAbrir(d)
           /\ \A c, d \in CPUs : c # d /\ Transmite(c) => ~EnMDJ(d)
           /\ \A c \in CPUs : Transmite(c) => EnResultado = {}
  <1>1. \A c, d \in CPUs : c # d => ~(EnAbrir(c) /\ (EnAbrir(d) \/ (EnMDJ(c) /\ EnMDJ(d))))
    BY DEF Sigue, Mezclado
  <1>2. \A c, d \in CPUs : c # d /\ Transmite(c) => ~EnMDJ(d)
    BY <1>1 DEF Transmite
  <1>3. \A c \in CPUs : Transmite(c) => hilo[c].paso # "resultado"
    BY DEF Transmite, EnAbrir
  <1>4. \A c \in CPUs : Transmite(c) => EnResultado = {}
    BY <1>2, <1>3 DEF EnResultado, EnMDJ
  <1> QED
    BY <1>1, <1>2, <1>4 DEF Sigue

(* A thread that waits for what MDJ or FM9 will say of an abrir *)
LEMMA PasosDelHilo ==
    ASSUME NEW c
    PROVE  /\ hilo[c].paso = "flag" => EnAbrir(c) /\ Transmite(c)
           /\ hilo[c].paso = "partes" => EnAbrir(c) /\ Transmite(c)
           /\ hilo[c].paso = "copia" => EnAbrir(c) /\ (hilo[c].partes > 0 => Transmite(c))
           /\ hilo[c].paso = "copia" => (hilo[c].partes = 0 => ~Transmite(c))
           /\ hilo[c].paso \in {"libre", "resultado", "contestar"} => ~EnAbrir(c) /\ ~Transmite(c)
  BY DEF EnAbrir, EnMDJ, Transmite

(* Frames: what a step that leaves a socket and the threads that use it alone does *)
(* to what the invariant says of that socket.                                      *)
LEMMA MarcoFM9 ==
    ASSUME TransmisionFM9, hiloFM9' = hiloFM9, aFM9' = aFM9, deFM9' = deFM9,
           segmentos \subseteq segmentos',
           \A c \in CPUs : hilo[c].paso = "copia" <=> hilo'[c].paso = "copia",
           \A c \in CPUs : hilo[c].paso = "copia" => hilo'[c] = hilo[c]
    PROVE  TransmisionFM9'
  <1>1. \A c \in CPUs : hilo[c].paso = "copia" => Copia(c)'
    <2> SUFFICES ASSUME NEW c \in CPUs, hilo[c].paso = "copia" PROVE Copia(c)'
      OBVIOUS
    <2>1. Copia(c) /\ hilo'[c] = hilo[c]
      BY DEF TransmisionFM9
    <2> QED
      BY <2>1 DEF Copia
  <1> QED
    BY <1>1 DEF TransmisionFM9

LEMMA MarcoMDJ ==
    ASSUME TransmisionMDJ, ResultadosMDJ, aMDJ' = aMDJ, deMDJ' = deMDJ, dados' = dados,
           IdsHilo \cup IdsSAFA \subseteq IdsHilo' \cup IdsSAFA', EnResultado' = EnResultado,
           \A c \in CPUs : Transmite(c)' <=> Transmite(c),
           \A c \in CPUs : Transmite(c) \/ c \in EnResultado => hilo'[c] = hilo[c]
    PROVE  TransmisionMDJ' /\ ResultadosMDJ'
  <1>1. TransmisionMDJ'
    BY DEF TransmisionMDJ
  <1>2. \A c \in EnResultado : Propio(c)' <=> Propio(c)
    BY DEF Propio, EnResultado
  <1>3. \A c \in EnResultado : hilo'[c] = hilo[c]
    BY DEF EnResultado
  <1>4. ResultadosMDJ'
    <2> SUFFICES ASSUME \A c \in CPUs : ~Transmite(c)' PROVE ResultadosMDJ'
      BY DEF ResultadosMDJ
    <2>1. \A c \in CPUs : ~Transmite(c)
      OBVIOUS
    <2> QED
      BY <1>2, <1>3, <2>1 DEF ResultadosMDJ, CrearYBorrar
  <1> QED
    BY <1>1, <1>4

LEMMA MarcoIds ==
    ASSUME Identificadores, pedidos' = pedidos, aSAFA' = aSAFA, dados' = dados,
           \A c \in CPUs : hilo'[c].paso = "libre" <=> hilo[c].paso = "libre",
           \A c \in CPUs : hilo[c].paso # "libre" => hilo'[c].paquete.id = hilo[c].paquete.id
    PROVE  Identificadores' /\ IdsHilo' = IdsHilo /\ IdsSAFA' = IdsSAFA
  <1>1. IdsHilo' = IdsHilo
    BY DEF IdsHilo
  <1>2. IdsSAFA' = IdsSAFA
    BY DEF IdsSAFA
  <1> QED
    BY <1>1, <1>2 DEF Identificadores

LEMMA MarcoCuenta ==
    ASSUME Cuenta, deMDJ' = deMDJ, dados' = dados, aSAFA' = aSAFA, PorContestar' = PorContestar,
           \A c \in CPUs : Transmite(c)' <=> Transmite(c)
    PROVE  Cuenta'
  <1>1. EnSocket' = EnSocket
    BY DEF EnSocket
  <1> QED
    BY <1>1 DEF Cuenta, Exitos, Dichos

LEMMA MarcoPropio ==
    ASSUME ResultadoPropio, dados \subseteq dados',
           \A c \in CPUs :
              hilo'[c].paso = "contestar" /\ hilo'[c].paquete.tipoOperacion # 1 /\ ~hilo'[c].solapado =>
                \/ hilo'[c] = hilo[c]
                \/ [id |-> hilo'[c].paquete.id, resultado |-> hilo'[c].paquete.resultado] \in dados'
    PROVE  ResultadoPropio'
  <1> SUFFICES ASSUME NEW c \in CPUs, hilo'[c].paso = "contestar",
                      hilo'[c].paquete.tipoOperacion # 1, ~hilo'[c].solapado
               PROVE  [id |-> hilo'[c].paquete.id, resultado |-> hilo'[c].paquete.resultado] \in dados'
    BY DEF ResultadoPropio
  <1>1. CASE hilo'[c] = hilo[c]
    <2>1. [id |-> hilo[c].paquete.id, resultado |-> hilo[c].paquete.resultado] \in dados
      BY <1>1 DEF ResultadoPropio
    <2> QED
      BY <1>1, <2>1
  <1> QED
    BY <1>1

--------------------------------------------------------------------------------
(* The initial state *)

LEMMA InvarianteAlInicio == Init => Invariante
  <1> SUFFICES ASSUME Init PROVE Invariante
    OBVIOUS
  <1>1. TypeOK
    <2>1. hilo \in [CPUs -> Hilos]
      BY DEF Init, Hilos
    <2>2. hiloFM9 \in HilosFM9
      BY EmptySeq DEF Init, HilosFM9, Textos
    <2> QED
      BY <2>1, <2>2, EmptySeq, DAMHilosAssumption DEF Init, TypeOK
  <1>2. \A c \in CPUs : hilo[c].paso = "libre" /\ ~EnAbrir(c) /\ ~Transmite(c)
    BY DEF Init, EnAbrir, Transmite
  <1>3. \A c \in CPUs : HiloCoherente(c)
    BY <1>2 DEF HiloCoherente
  <1>4. Identificadores
    BY <1>2 DEF Identificadores, Init
  <1>5. TransmisionMDJ
    BY <1>2 DEF TransmisionMDJ
  <1>6. EnResultado = {} /\ Exitos = {} /\ EnSocket = {} /\ PorContestar = {} /\ Dichos = {}
    BY <1>2 DEF Init, EnResultado, Exitos, EnSocket, PorContestar, Dichos
  <1>7. ResultadosMDJ
    <2>1. Len(aMDJ) + Len(deMDJ) = 0
      BY DEF Init
    <2> QED
      BY <1>6, <2>1, FS_EmptySet DEF ResultadosMDJ, CrearYBorrar, Init
  <1>8. TransmisionFM9
    BY <1>2 DEF TransmisionFM9, Init
  <1>9. Cuenta
    BY <1>6, FS_EmptySet DEF Cuenta
  <1>10. ArchivoEntero
    BY DEF Init, ArchivoEntero
  <1>11. ResultadoPropio
    BY <1>2 DEF ResultadoPropio
  <1>12. MDJVivo
    BY DEF Init
  <1> QED
    BY <1>1, <1>3, <1>4, <1>5, <1>7, <1>8, <1>9, <1>10, <1>11, <1>12 DEF Invariante

--------------------------------------------------------------------------------
(* A step of a CPU *)

LEMMA PasoPedir ==
    ASSUME Invariante, NEW c \in CPUs, Pedir(c)
    PROVE  Invariante'
  <1>1. PICK op \in {1, 8, 9}, f \in Nombres, id \in Ids \ Usados :
           pedidos' = [pedidos EXCEPT ![c] = Append(@,
                [tipoOperacion |-> op, id |-> id, archivo |-> f, resultado |-> -1])]
    BY DEF Pedir
  <1> DEFINE q == [tipoOperacion |-> op, id |-> id, archivo |-> f, resultado |-> -1]
  <1>2. UNCHANGED <<hilo, aMDJ, deMDJ, aFM9, deFM9, aSAFA, archivos, MDJVivo, dados, hiloFM9, segmentos>>
    BY DEF Pedir, vMDJ, vFM9
  <1>3. TypeOK /\ pedidos \in [CPUs -> Seq(Paquetes)]
    BY DEF Invariante, TypeOK
  <1>4. q \in Paquetes
    BY DEF Paquetes
  <1>5. /\ pedidos' \in [CPUs -> Seq(Paquetes)]
        /\ \A d \in CPUs \ {c} : pedidos'[d] = pedidos[d]
        /\ DOMAIN pedidos'[c] = 1 .. Len(pedidos[c]) + 1 /\ DOMAIN pedidos[c] = 1 .. Len(pedidos[c])
        /\ Len(pedidos[c]) \in Nat
        /\ \A k \in 1 .. Len(pedidos[c]) : pedidos'[c][k] = pedidos[c][k]
        /\ pedidos'[c][Len(pedidos[c]) + 1] = q
    <2>1. pedidos'[c] = Append(pedidos[c], q) /\ pedidos[c] \in Seq(Paquetes)
      BY <1>1, <1>3
    <2>2. \A d \in CPUs \ {c} : pedidos'[d] = pedidos[d]
      BY <1>1, <1>3
    <2> HIDE DEF q
    <2>3. /\ Append(pedidos[c], q) \in Seq(Paquetes)
          /\ Len(Append(pedidos[c], q)) = Len(pedidos[c]) + 1 /\ Len(pedidos[c]) \in Nat
          /\ DOMAIN pedidos[c] = 1 .. Len(pedidos[c])
          /\ \A k \in 1 .. Len(pedidos[c]) : Append(pedidos[c], q)[k] = pedidos[c][k]
          /\ Append(pedidos[c], q)[Len(pedidos[c]) + 1] = q
      BY <2>1, <1>4, AppendProperties, LenProperties
    <2>4. DOMAIN Append(pedidos[c], q) = 1 .. Len(pedidos[c]) + 1
      BY <2>3, LenProperties
    <2>5. pedidos' \in [CPUs -> Seq(Paquetes)]
      BY <1>1, <1>3, <2>3 DEF q
    <2> QED
      BY <2>1, <2>2, <2>3, <2>4, <2>5
  <1>6. TypeOK'
    BY <1>2, <1>3, <1>5 DEF TypeOK
  <1>7. /\ id \notin IdsHilo \cup IdsSAFA /\ q.id = id
        /\ \A d \in CPUs : \A k \in DOMAIN pedidos[d] : pedidos[d][k].id # id
    BY DEF Usados, IdsHilo, IdsSAFA
  <1>8. IdsHilo' = IdsHilo /\ IdsSAFA' = IdsSAFA
    BY <1>2 DEF IdsHilo, IdsSAFA
  <1> HIDE DEF q
  <1>9. Identificadores'
    <2>1. Identificadores
      BY DEF Invariante
    <2>2. \A d \in CPUs : \A k \in DOMAIN pedidos'[d] :
            \/ k \in DOMAIN pedidos[d] /\ pedidos'[d][k] = pedidos[d][k]
            \/ d = c /\ k = Len(pedidos[c]) + 1 /\ pedidos'[d][k] = q
      BY <1>5
    <2>3. \A d, e \in CPUs : \A k \in DOMAIN pedidos'[d], m \in DOMAIN pedidos'[e] :
            pedidos'[d][k].id = pedidos'[e][m].id => d = e /\ k = m
      BY <1>7, <2>1, <2>2 DEF Identificadores
    <2>4. \A d \in CPUs : \A k \in DOMAIN pedidos'[d] : pedidos'[d][k].id \notin IdsHilo \cup IdsSAFA
      BY <1>7, <2>1, <2>2 DEF Identificadores
    <2> QED
      BY <1>2, <1>8, <2>1, <2>3, <2>4 DEF Identificadores
  <1>10. \A d \in CPUs : HiloCoherente(d)'
    BY <1>2 DEF Invariante, HiloCoherente, EnAbrir
  <1>11. Sigue /\ Sigue'
    BY <1>2 DEF Pedir, Sigue, Mezclado, EnAbrir, EnMDJ
  <1>12. \A d \in CPUs : Transmite(d)' <=> Transmite(d)
    BY <1>2 DEF Transmite, EnAbrir, EnMDJ
  <1>13. TransmisionMDJ' /\ ResultadosMDJ'
    BY <1>2, <1>8, <1>11, <1>12, MarcoMDJ DEF Invariante, EnResultado
  <1>14. TransmisionFM9'
    BY <1>2, <1>11, MarcoFM9 DEF Invariante
  <1>15. Cuenta'
    BY <1>2, <1>11, <1>12, MarcoCuenta DEF Invariante, PorContestar
  <1>16. ArchivoEntero' /\ ResultadoPropio' /\ MDJVivo'
    BY <1>2, <1>11 DEF Invariante, ArchivoEntero, ResultadoPropio, Sigue
  <1> QED
    BY <1>6, <1>9, <1>10, <1>13, <1>14, <1>15, <1>16 DEF Invariante

--------------------------------------------------------------------------------
(* The steps of a thread of DAM *)

(* Only thread c moves. *)
LEMMA SoloElHilo ==
    ASSUME TypeOK, \A d \in CPUs : HiloCoherente(d), NEW c \in CPUs, NEW h \in Hilos,
           hilo' = [hilo EXCEPT ![c] = h], segmentos \subseteq segmentos'
    PROVE  /\ hilo' \in [CPUs -> Hilos] /\ hilo'[c] = h
           /\ \A d \in CPUs : d # c =>
                 /\ hilo'[d] = hilo[d]
                 /\ Transmite(d)' <=> Transmite(d)
                 /\ HiloCoherente(d)'
           /\ Transmite(c)' <=> (h.paso \in {"flag", "partes"} \/ (h.paso = "copia" /\ h.partes > 0))
  <1>1. hilo \in [CPUs -> Hilos]
    BY DEF TypeOK
  <1>2. \A d \in CPUs : d # c => hilo'[d] = hilo[d]
    BY <1>1
  <1>3. hilo'[c] = h /\ hilo' \in [CPUs -> Hilos]
    BY <1>1
  <1>4. \A d \in CPUs : d # c => (Transmite(d)' <=> Transmite(d)) /\ (EnAbrir(d)' <=> EnAbrir(d))
    BY <1>2 DEF Transmite, EnAbrir, EnMDJ
  <1>5. \A d \in CPUs : d # c => HiloCoherente(d)'
    <2> TAKE d \in CPUs
    <2> HAVE d # c
    <2>1. HiloCoherente(d) /\ hilo'[d] = hilo[d] /\ (EnAbrir(d)' <=> EnAbrir(d))
      BY <1>2, <1>4
    <2> QED
      BY <2>1 DEF HiloCoherente
  <1>6. Transmite(c)' <=> (h.paso \in {"flag", "partes"} \/ (h.paso = "copia" /\ h.partes > 0))
    BY <1>3 DEF Transmite, EnAbrir, EnMDJ
  <1> QED
    BY <1>2, <1>3, <1>4, <1>5, <1>6

LEMMA NadaPendiente ==
    ASSUME aMDJ' = <<>>, deMDJ' = <<>>, EnResultado' = {}
    PROVE  CrearYBorrar'
  <1>1. Len(aMDJ') = 0 /\ Len(deMDJ') = 0 /\ DOMAIN aMDJ' = {} /\ DOMAIN deMDJ' = {}
    BY SinElementos
  <1>2. Cardinality(EnResultado') = 0
    BY FS_EmptySet
  <1>3. Len(aMDJ') + Len(deMDJ') = Cardinality(EnResultado')
    BY <1>1, <1>2
  <1>4. \A d \in EnResultado' : FALSE
    OBVIOUS
  <1> HIDE DEF EnResultado
  <1> QED
    BY <1>1, <1>3, <1>4, Zenon DEF CrearYBorrar

(* Thread c reads on what MDJ sends it of a file. *)
LEMMA PasoDeAbrir ==
    ASSUME Invariante, Sigue, NEW c \in CPUs, Transmite(c), NEW h \in Hilos,
           hilo' = [hilo EXCEPT ![c] = h],
           h.paso \in {"partes", "copia"}, h.paquete = hilo[c].paquete,
           h.paso = "copia" => h.partes \in 0 .. Partes(h.paquete.archivo),
           aMDJ = <<>>,
           deMDJ' = SubSeq(Envio(h.paquete.archivo), Leidos(h) + 1, Len(Envio(h.paquete.archivo))),
           aFM9' \in Seq(Paquetes \cup Mensajes), TransmisionFM9',
           UNCHANGED <<pedidos, aMDJ, deFM9, aSAFA, archivos, MDJVivo, dados, hiloFM9, segmentos>>
    PROVE  Invariante'
  <1>1. TypeOK /\ (\A d \in CPUs : HiloCoherente(d)) /\ TransmisionMDJ /\ Cuenta
    BY DEF Invariante
  <1> DEFINE f == h.paquete.archivo
             e == Envio(f)
  <1>2. /\ hilo[c].paso \in {"flag", "partes", "copia"} /\ EnAbrir(c)
        /\ f \in Nombres /\ h.paquete \in Paquetes /\ h.paquete.tipoOperacion = 1
    BY <1>1, TipoDeHilo DEF Transmite, EnAbrir, HiloCoherente
  <1>3. e \in Seq(Mensajes) /\ Len(e) = Cuantos(Partes(f), 0) /\ Partes(f) \in Nat
    BY <1>2, EnvioPorMensajes, PartesDeArchivo
  <1>4. Len(e) \in Nat /\ Leidos(h) \in Nat /\ Leidos(h) <= Len(e)
        /\ (h.paso = "copia" /\ h.partes = 0 => Leidos(h) = Len(e))
    <2>1. CASE h.paso = "partes"
      BY <1>3, <2>1 DEF Cuantos, Leidos
    <2>2. CASE h.paso = "copia"
      BY <1>3, <2>2, SMTT(30) DEF Cuantos, Leidos
    <2> QED
      BY <2>1, <2>2
  <1>5. deMDJ' \in Seq(Mensajes) /\ (h.paso = "copia" /\ h.partes = 0 => deMDJ' = <<>>)
    <2> DEFINE a == Leidos(h) + 1
               b == Len(e)
    <2>1. deMDJ' = SubSeq(e, a, b) /\ a \in Nat \ {0} /\ b \in Nat
      BY <1>4
    <2>2. \A k \in a .. b : e[k] \in Mensajes
      BY <1>3, <2>1, ElementOfSeq
    <2>3. h.paso = "copia" /\ h.partes = 0 => b < a
      BY <1>4
    <2> HIDE DEF a, b, e
    <2>4. SubSeq(e, a, b) \in Seq(Mensajes)
      BY <2>1, <2>2, SubSeqProperties
    <2>5. b < a => SubSeq(e, a, b) = <<>>
      BY <2>1, SubSeqEmpty
    <2> QED
      BY <2>1, <2>3, <2>4, <2>5
  <1>6. /\ hilo' \in [CPUs -> Hilos] /\ hilo'[c] = h
        /\ \A d \in CPUs : d # c => hilo'[d] = hilo[d] /\ (Transmite(d)' <=> Transmite(d)) /\ HiloCoherente(d)'
        /\ Transmite(c)' <=> (h.paso = "partes" \/ (h.paso = "copia" /\ h.partes > 0))
    BY <1>1, SoloElHilo
  <1>7. TypeOK'
    BY <1>1, <1>5, <1>6 DEF TypeOK
  <1>8. HiloCoherente(c)'
    BY <1>2, <1>6 DEF HiloCoherente
  <1>9. EnResultado = {} /\ \A d \in CPUs : d # c => ~Transmite(d)
    BY SinMezcla DEF Transmite
  <1>10. EnResultado' = {} /\ PorContestar' = PorContestar
    <2>1. \A d \in CPUs : hilo'[d].paso # "resultado"
      BY <1>6, <1>9 DEF EnResultado
    <2>2. \A d \in CPUs : hilo'[d].paso = "contestar" <=> hilo[d].paso = "contestar"
      BY <1>2, <1>6
    <2>3. \A d \in CPUs : hilo[d].paso = "contestar" => hilo'[d] = hilo[d]
      BY <1>2, <1>6
    <2> QED
      BY <2>1, <2>2, <2>3 DEF EnResultado, PorContestar
  <1>11. Identificadores'
    <2>1. \A d \in CPUs : hilo'[d].paso = "libre" <=> hilo[d].paso = "libre"
      BY <1>2, <1>6
    <2>2. \A d \in CPUs : hilo[d].paso # "libre" => hilo'[d].paquete.id = hilo[d].paquete.id
      BY <1>6
    <2> QED
      BY <2>1, <2>2, MarcoIds DEF Invariante
  <1>12. TransmisionMDJ'
    <2>1. \A d \in CPUs : Transmite(d)' => d = c
      BY <1>6, <1>9
    <2> QED
      BY <1>6, <2>1 DEF TransmisionMDJ
  <1>13. (\A d \in CPUs : ~Transmite(d)') => deMDJ' = <<>>
    <2>1. h.partes \in Nat
      BY DEF Hilos
    <2> QED
      BY <1>5, <1>6, <2>1
  <1>14. ResultadosMDJ'
    <2> SUFFICES ASSUME \A d \in CPUs : ~Transmite(d)' PROVE ResultadosMDJ'
      BY DEF ResultadosMDJ
    <2>1. deMDJ' = <<>> /\ aMDJ' = <<>>
      BY <1>13
    <2>2. CrearYBorrar'
      BY <1>10, <2>1, NadaPendiente
    <2> QED
      BY <2>2 DEF ResultadosMDJ
  <1>15. Cuenta'
    <2>1. EnSocket = {}
      BY DEF EnSocket
    <2>2. EnSocket' = {}
      <3>1. CASE \E d \in CPUs : Transmite(d)'
        BY <3>1 DEF EnSocket
      <3>2. CASE \A d \in CPUs : ~Transmite(d)'
        <4>1. deMDJ' = <<>>
          BY <1>13, <3>2
        <4>2. DOMAIN deMDJ' = {}
          BY <4>1, SinElementos
        <4> QED
          BY <4>2 DEF EnSocket
      <3> QED
        BY <3>1, <3>2
    <2> QED
      BY <1>1, <1>10, <2>1, <2>2 DEF Cuenta, Exitos, Dichos
  <1>16. ArchivoEntero' /\ MDJVivo'
    BY DEF Invariante, ArchivoEntero, Sigue
  <1>17. ResultadoPropio'
    <2>1. \A d \in CPUs : hilo'[d].paso = "contestar" => hilo'[d] = hilo[d]
      BY <1>6
    <2>2. ResultadoPropio
      BY DEF Invariante
    <2> QED
      BY <2>1, <2>2 DEF ResultadoPropio
  <1> QED
    BY <1>6, <1>7, <1>8, <1>11, <1>12, <1>14, <1>15, <1>16, <1>17 DEF Invariante

(* What is left of a file on the socket of MDJ, and its first message. *)
LEMMA QuedaPorLeer ==
    ASSUME Invariante, Sigue, NEW c \in CPUs, Transmite(c), deMDJ # <<>>
    PROVE  LET e == Envio(hilo[c].paquete.archivo)
               k == Leidos(hilo[c])
           IN /\ aMDJ = <<>> /\ deMDJ = SubSeq(e, k + 1, Len(e))
              /\ k \in Nat /\ k + 1 \in 1 .. Len(e) /\ Len(deMDJ) = Len(e) - k
              /\ Head(deMDJ) = e[k + 1] /\ Tail(deMDJ) = SubSeq(e, k + 2, Len(e))
  <1> DEFINE h == hilo[c]
             f == h.paquete.archivo
             e == Envio(f)
             k == Leidos(h)
  <1>1. TypeOK /\ (\A d \in CPUs : HiloCoherente(d)) /\ TransmisionMDJ
    BY DEF Invariante
  <1>2. aMDJ = <<>> /\ deMDJ = SubSeq(e, k + 1, Len(e))
    BY <1>1 DEF TransmisionMDJ
  <1>3. f \in Nombres /\ h.paso \in {"flag", "partes", "copia"} /\ h.partes \in Nat
    BY <1>1, TipoDeHilo DEF Transmite, EnAbrir
  <1>4. h.paso = "copia" => h.partes \in 0 .. Partes(f)
    BY <1>1 DEF HiloCoherente
  <1>5. e \in Seq(Mensajes) /\ Len(e) = Cuantos(Partes(f), 0) /\ Partes(f) \in Nat
    BY <1>3, EnvioPorMensajes, PartesDeArchivo
  <1>6. k \in Nat /\ Len(e) \in Nat
    <2>1. Len(e) \in Nat
      BY <1>5 DEF Cuantos
    <2>2. h.paso = "copia" => Cuantos(Partes(f), h.partes) \in Nat
      BY <1>3, <1>4, <1>5 DEF Cuantos
    <2>3. k = CASE h.paso = "flag" -> 0 [] h.paso = "partes" -> 1 [] OTHER -> Cuantos(Partes(f), h.partes)
      BY DEF Leidos
    <2> HIDE DEF k
    <2>4. k \in Nat
      BY <1>3, <2>2, <2>3
    <2> QED
      BY <2>1, <2>4
  <1> HIDE DEF e, k, f
  <1>7. k + 1 <= Len(e)
    <2>1. Len(e) < k + 1 => SubSeq(e, k + 1, Len(e)) = <<>>
      BY <1>6, SubSeqEmpty
    <2> QED
      BY <1>2, <1>6, <2>1
  <1>8. k + 1 \in 1 .. Len(e) /\ Len(e) \in k + 1 .. Len(e)
    BY <1>6, <1>7
  <1>9. Head(SubSeq(e, k + 1, Len(e))) = e[k + 1] /\ Tail(SubSeq(e, k + 1, Len(e))) = SubSeq(e, k + 1 + 1, Len(e))
    BY <1>5, <1>8, HeadTailOfSubSeq
  <1>10. k + 1 + 1 = k + 2
    BY <1>6
  <1>11. Len(deMDJ) = Len(e) - k
    <2> DEFINE a == k + 1
               b == Len(e)
    <2>1. a \in Int /\ b \in Int /\ a <= b /\ b - a + 1 = Len(e) - k /\ \A i \in a .. b : e[i] \in Mensajes
      <3>1. \A i \in a .. b : i \in 1 .. Len(e)
        BY <1>6, <1>7
      <3> QED
        BY <1>5, <1>6, <1>7, <3>1, ElementOfSeq
    <2> HIDE DEF a, b
    <2>2. Len(SubSeq(e, a, b)) = IF a <= b THEN b - a + 1 ELSE 0
      BY <2>1, SubSeqProperties
    <2> QED
      BY <1>2, <2>1, <2>2 DEF a, b
  <1> QED
    BY <1>2, <1>6, <1>8, <1>9, <1>10, <1>11 DEF e, k, f, h

LEMMA PasoLeerFlag ==
    ASSUME Invariante, NEW c \in CPUs, LeerFlag(c)
    PROVE  Invariante'
  <1> DEFINE h == [hilo[c] EXCEPT !.paso = "partes"]
             e == Envio(h.paquete.archivo)
  <1>1. Sigue /\ hilo[c].paso = "flag" /\ deMDJ # <<>> /\ deMDJ' = Tail(deMDJ)
        /\ UNCHANGED <<pedidos, aMDJ, aFM9, deFM9, aSAFA, archivos, MDJVivo, dados, hiloFM9, segmentos>>
    BY DEF LeerFlag, En, vMDJ, vFM9
  <1>2. TypeOK /\ hilo \in [CPUs -> Hilos] /\ Transmite(c)
    BY <1>1, PasosDelHilo DEF Invariante, TypeOK
  <1>3. h \in Hilos /\ h.paso = "partes" /\ h.paquete = hilo[c].paquete /\ hilo' = [hilo EXCEPT ![c] = h]
    BY <1>2 DEF LeerFlag, Hilos
  <1> HIDE DEF h
  <1>4. Leidos(hilo[c]) = 0 /\ Leidos(h) = 1
    BY <1>1, <1>3 DEF Leidos
  <1>5. aMDJ = <<>> /\ deMDJ' = SubSeq(e, Leidos(h) + 1, Len(e))
    <2>1. aMDJ = <<>> /\ Tail(deMDJ) = SubSeq(e, 0 + 2, Len(e))
      BY <1>1, <1>2, <1>3, <1>4, QuedaPorLeer
    <2>2. 0 + 2 = 1 + 1
      OBVIOUS
    <2> QED
      BY <1>1, <1>4, <2>1, <2>2
  <1>6. aFM9' \in Seq(Paquetes \cup Mensajes)
    BY <1>1, <1>2 DEF TypeOK
  <1>7. TransmisionFM9'
    <2>1. \A d \in CPUs : hilo[d].paso = "copia" <=> hilo'[d].paso = "copia"
      BY <1>1, <1>2, <1>3
    <2>2. \A d \in CPUs : hilo[d].paso = "copia" => hilo'[d] = hilo[d]
      BY <1>1, <1>2, <1>3
    <2> QED
      BY <1>1, <2>1, <2>2, MarcoFM9 DEF Invariante
  <1>8. UNCHANGED <<pedidos, aMDJ, deFM9, aSAFA, archivos, MDJVivo, dados, hiloFM9, segmentos>>
    BY <1>1
  <1> QED
    BY <1>1, <1>2, <1>3, <1>5, <1>6, <1>7, <1>8, PasoDeAbrir

LEMMA PasoLeerPartes ==
    ASSUME Invariante, NEW c \in CPUs, LeerPartes(c)
    PROVE  Invariante'
  <1> DEFINE p == hilo[c].paquete
             f == p.archivo
             n == Partes(f)
             e == Envio(f)
             h == [hilo[c] EXCEPT !.paso = "copia", !.partes = n]
             S == Paquetes \cup Mensajes
  <1>1. Sigue /\ hilo[c].paso = "partes" /\ deMDJ # <<>> /\ deMDJ' = Tail(deMDJ)
        /\ aFM9' = aFM9 \o <<p, Entero(Head(deMDJ).valor)>>
        /\ hilo' = [hilo EXCEPT ![c].paso = "copia", ![c].partes = Head(deMDJ).valor]
        /\ UNCHANGED <<pedidos, aMDJ, deFM9, aSAFA, archivos, MDJVivo, dados, hiloFM9, segmentos>>
    BY DEF LeerPartes, En, vMDJ, vFM9
  <1>2. TypeOK /\ hilo \in [CPUs -> Hilos] /\ Transmite(c) /\ EnAbrir(c) /\ \A d \in CPUs : HiloCoherente(d)
    BY <1>1, PasosDelHilo DEF Invariante, TypeOK
  <1>3. p \in Paquetes /\ f \in Nombres /\ n \in Nat
    BY <1>1, <1>2, TipoDeHilo, PartesDeArchivo
  <1>4. e[2] = Entero(n) /\ e \in Seq(Mensajes) /\ Entero(n) \in Mensajes /\ Entero(n).valor = n
    BY <1>3, EnvioPorMensajes DEF Mensajes, Entero
  <1>5. aMDJ = <<>> /\ Head(deMDJ) = Entero(n) /\ Tail(deMDJ) = SubSeq(e, 3, Len(e))
    <2>1. Leidos(hilo[c]) = 1
      BY <1>1 DEF Leidos
    <2>2. aMDJ = <<>> /\ Head(deMDJ) = e[1 + 1] /\ Tail(deMDJ) = SubSeq(e, 1 + 2, Len(e))
      BY <1>1, <1>2, <2>1, QuedaPorLeer
    <2>3. 1 + 1 = 2 /\ 1 + 2 = 3
      OBVIOUS
    <2> QED
      BY <1>4, <2>2, <2>3
  <1>6. h \in Hilos /\ h.paso = "copia" /\ h.paquete = p /\ h.partes = n /\ hilo' = [hilo EXCEPT ![c] = h]
    BY <1>1, <1>2, <1>3, <1>4, <1>5 DEF Hilos
  <1> HIDE DEF h, n, e, f
  <1>7. Leidos(h) = 2
    BY <1>3, <1>6 DEF Leidos, Cuantos, n, f
  <1>8. deMDJ' = SubSeq(e, Leidos(h) + 1, Len(e))
    BY <1>1, <1>5, <1>7
  <1>9. n \in 0 .. Partes(h.paquete.archivo)
    BY <1>3, <1>6 DEF n, f
  <1>10. aFM9 = <<>> /\ deFM9 = <<>> /\ hiloFM9.paso = "paquete" /\ \A d \in CPUs : d # c => hilo[d].paso # "copia"
    <2>1. \A d \in CPUs : hilo[d].paso # "copia"
      BY <1>1, <1>2, SinMezcla, PasosDelHilo
    <2> QED
      BY <1>1, <2>1 DEF Invariante, TransmisionFM9
  <1>11. aFM9' = <<p, Entero(n)>> /\ <<p, Entero(n)>> \in Seq(S)
    <2>1. <<p, Entero(n)>> \in Seq(S)
      BY <1>3, <1>4
    <2> QED
      BY <1>1, <1>4, <1>5, <1>10, <2>1, ConcatEmptySeq
  <1>12. <<p, Entero(n)>> = SubSeq(AFM9(p), 1, 2)
    <2>1. AFM9(p) \in Seq(S) /\ Len(AFM9(p)) \in Nat /\ Len(AFM9(p)) >= 2 /\ AFM9(p)[1] = p /\ AFM9(p)[2] = e[2]
      <3> DEFINE a == AFM9(p)
      <3>1. /\ a \in Seq(S) /\ Len(a) \in Nat /\ Len(a) >= 2 /\ a[1] = p
            /\ \A i \in 2 .. Len(a) : a[i] = Envio(p.archivo)[i]
        BY <1>3, AFM9PorMensajes
      <3> HIDE DEF a
      <3>2. 2 \in 2 .. Len(a)
        BY <3>1
      <3> QED
        BY <3>1, <3>2 DEF a, e, f
    <2> DEFINE s == SubSeq(AFM9(p), 1, 2)
    <2>2. \A i \in 1 .. 2 : AFM9(p)[i] \in S
      <3>1. \A i \in 1 .. 2 : i \in 1 .. Len(AFM9(p))
        BY <2>1
      <3> QED
        BY <2>1, <3>1, ElementOfSeq
    <2>3. s \in Seq(S) /\ Len(s) = 2 /\ s[1] = AFM9(p)[1] /\ s[2] = AFM9(p)[2]
      BY <2>2, SubSeqProperties
    <2> HIDE DEF s
    <2> DEFINE t == <<p, Entero(n)>>
    <2>4. Len(t) = 2 /\ t[1] = p /\ t[2] = Entero(n)
      OBVIOUS
    <2>5. \A i \in 1 .. Len(s) : s[i] = t[i]
      BY <1>4, <2>1, <2>3, <2>4
    <2>6. s = t
      BY <1>11, <2>3, <2>4, <2>5, SeqEqual
    <2> QED
      BY <2>6 DEF s
  <1>13. TransmisionFM9'
    <2>1. hilo'[c] = h /\ \A d \in CPUs : d # c => hilo'[d] = hilo[d]
      BY <1>2, <1>6
    <2>2. Copia(c)'
      BY <1>1, <1>6, <1>7, <1>10, <1>11, <1>12, <2>1 DEF Copia
    <2>3. \A d \in CPUs : hilo'[d].paso = "copia" => d = c
      BY <1>10, <2>1
    <2>4. hilo'[c].paso = "copia"
      BY <1>6, <2>1
    <2> QED
      BY <2>2, <2>3, <2>4 DEF TransmisionFM9
  <1>14. /\ deMDJ' = SubSeq(Envio(h.paquete.archivo), Leidos(h) + 1, Len(Envio(h.paquete.archivo)))
         /\ aFM9' \in Seq(S) /\ aMDJ = <<>>
    BY <1>5, <1>6, <1>8, <1>11 DEF e, f
  <1>15. UNCHANGED <<pedidos, aMDJ, deFM9, aSAFA, archivos, MDJVivo, dados, hiloFM9, segmentos>>
    BY <1>1
  <1> QED
    BY <1>1, <1>2, <1>6, <1>9, <1>13, <1>14, <1>15, PasoDeAbrir

(* What FM9 has yet to read of a file grows by the messages DAM passes on. *)
LEMMA ReenviarAFM9 ==
    ASSUME NEW p \in Paquetes, NEW j \in Nat, NEW k \in Nat \ {0}, NEW m \in Nat, j <= k,
           k + m <= Len(Envio(p.archivo))
    PROVE  /\ SubSeq(AFM9(p), j + 1, k) \o SubSeq(Envio(p.archivo), k + 1, k + m)
                = SubSeq(AFM9(p), j + 1, k + m)
           /\ SubSeq(AFM9(p), j + 1, k + m) \in Seq(Paquetes \cup Mensajes)
  <1> DEFINE a == AFM9(p)
             e == Envio(p.archivo)
             S == Paquetes \cup Mensajes
  <1>1. /\ a \in Seq(S) /\ Len(a) = Len(e) /\ Len(a) \in Nat /\ e \in Seq(S)
        /\ \A i \in 2 .. Len(a) : a[i] = e[i]
    <2>1. e \in Seq(S)
      BY EnvioPorMensajes, SeqMonotonic DEF Paquetes
    <2> QED
      BY <2>1, AFM9PorMensajes
  <1> HIDE DEF a, e, S
  <1>2. SubSeq(e, k + 1, k + m) = SubSeq(a, k + 1, k + m)
    <2> DEFINE b == k + 1
               c == k + m
    <2>1. b \in Nat \ {0} /\ c \in Nat /\ c <= Len(e) /\ c <= Len(a) /\ \A i \in b .. c : i \in 2 .. Len(a)
      BY <1>1 DEF e
    <2> HIDE DEF b, c
    <2>2. \A i \in b .. c : e[i] = a[i]
      BY <1>1, <2>1
    <2>3. SubSeq(e, b, c) = SubSeq(a, b, c)
      BY <1>1, <2>1, <2>2, SubSeqIguales, SMTT(30)
    <2> QED
      BY <2>3 DEF b, c
  <1>3. SubSeq(a, j + 1, k) \o SubSeq(a, k + 1, k + m) = SubSeq(a, j + 1, k + m)
    <2>1. j + 1 \in 1 .. Len(a) + 1 /\ k \in (j + 1) - 1 .. Len(a) /\ k + m \in k .. Len(a)
      BY <1>1 DEF e
    <2> QED
      BY <1>1, <2>1, ConcatAdjacentSubSeq
  <1>4. SubSeq(a, j + 1, k + m) \in Seq(S)
    <2>1. j + 1 \in Nat \ {0} /\ k + m \in Nat /\ k + m <= Len(a)
      BY <1>1 DEF e
    <2> QED
      BY <1>1, <2>1, ElementosDeSubSeq
  <1> QED
    BY <1>2, <1>3, <1>4 DEF a, e, S

LEMMA PasoCopiarParte ==
    ASSUME Invariante, NEW c \in CPUs, CopiarParte(c)
    PROVE  Invariante'
  <1> DEFINE p == hilo[c].paquete
             f == p.archivo
             n == Partes(f)
             e == Envio(f)
             q == hilo[c].partes
             m == IF q = 1 THEN 2 ELSE 1
             h == [hilo[c] EXCEPT !.partes = q - 1]
             k == Leidos(hilo[c])
             S == Paquetes \cup Mensajes
  <1>1. Sigue /\ hilo[c].paso = "copia" /\ q > 0 /\ Len(deMDJ) >= m
        /\ deMDJ' = SubSeq(deMDJ, m + 1, Len(deMDJ))
        /\ aFM9' = aFM9 \o SubSeq(deMDJ, 1, m)
        /\ hilo' = [hilo EXCEPT ![c].partes = @ - 1]
        /\ UNCHANGED <<pedidos, aMDJ, deFM9, aSAFA, archivos, MDJVivo, dados, hiloFM9, segmentos>>
    BY DEF CopiarParte, En, vMDJ, vFM9
  <1>2. TypeOK /\ hilo \in [CPUs -> Hilos] /\ Transmite(c) /\ EnAbrir(c) /\ \A d \in CPUs : HiloCoherente(d)
    BY <1>1, PasosDelHilo DEF Invariante, TypeOK
  <1>3. p \in Paquetes /\ f \in Nombres /\ n \in Nat /\ q \in 1 .. n
    <2>1. p \in Paquetes /\ f \in Nombres /\ n \in Nat /\ q \in Nat
      BY <1>1, <1>2, TipoDeHilo, PartesDeArchivo
    <2>2. q \in 0 .. n
      BY <1>1, <1>2 DEF HiloCoherente
    <2> QED
      BY <1>1, <2>1, <2>2
  <1>4. e \in Seq(Mensajes) /\ Len(e) = n + 3
    BY <1>3, EnvioPorMensajes DEF Cuantos
  <1>5. h \in Hilos /\ h.paso = "copia" /\ h.paquete = p /\ h.partes = q - 1 /\ hilo' = [hilo EXCEPT ![c] = h]
    BY <1>1, <1>2, <1>3, SMTT(30) DEF Hilos
  <1>6. k = 2 + n - q /\ Leidos(h) = k + m /\ k + m <= Len(e) /\ k \in Nat \ {0, 1} /\ m \in {1, 2}
    <2>1. k = Cuantos(n, q) /\ Leidos(h) = Cuantos(n, q - 1)
      BY <1>1, <1>5 DEF Leidos
    <2> QED
      BY <1>3, <1>4, <2>1, SMTT(30) DEF Cuantos
  <1>7. aMDJ = <<>> /\ deMDJ = SubSeq(e, k + 1, Len(e))
    <2>1. deMDJ # <<>>
      BY <1>1, <1>6, SinElementos
    <2> QED
      BY <1>1, <1>2, <2>1, QuedaPorLeer
  <1> HIDE DEF h, n, e, f, q, m, k
  <1>8. SubSeq(deMDJ, 1, m) = SubSeq(e, k + 1, k + m) /\ deMDJ' = SubSeq(e, Leidos(h) + 1, Len(e))
    <2>1. k \in Nat /\ m \in Nat \ {0} /\ k + m <= Len(e)
      BY <1>6
    <2>2. /\ SubSeq(deMDJ, 1, m) = SubSeq(e, k + 1, k + m)
          /\ SubSeq(deMDJ, m + 1, Len(deMDJ)) = SubSeq(e, k + m + 1, Len(e))
      BY <1>4, <1>7, <2>1, SubSeqDelResto, SMTT(30)
    <2> QED
      BY <1>1, <1>6, <2>2
  <1>9. ASSUME NEW j \in Nat, j <= k, aFM9 = SubSeq(AFM9(p), j + 1, k)
        PROVE  aFM9' = SubSeq(AFM9(p), j + 1, Leidos(h)) /\ aFM9' \in Seq(S)
    <2>1. k \in Nat \ {0} /\ m \in Nat /\ k + m <= Len(Envio(p.archivo))
      BY <1>6 DEF e, f
    <2>2. /\ aFM9 \o SubSeq(e, k + 1, k + m) = SubSeq(AFM9(p), j + 1, k + m)
          /\ SubSeq(AFM9(p), j + 1, k + m) \in Seq(S)
      BY <1>3, <1>9, <2>1, ReenviarAFM9, ZenonT(60) DEF e, f
    <2> QED
      BY <1>1, <1>6, <1>8, <2>2
  <1>10. hilo'[c] = h /\ \A d \in CPUs : d # c => hilo'[d] = hilo[d]
    BY <1>2, <1>5
  <1>11. Copia(c)
    BY <1>1 DEF Invariante, TransmisionFM9
  <1>12. Copia(c)' /\ aFM9' \in Seq(S)
    <2>1. CASE hiloFM9.paso = "paquete" /\ deFM9 = <<>> /\ aFM9 = SubSeq(AFM9(p), 1, k)
      <3>1. aFM9' = SubSeq(AFM9(p), 1, Leidos(h)) /\ aFM9' \in Seq(S)
        <4>1. aFM9 = SubSeq(AFM9(p), 0 + 1, k) /\ 0 \in Nat /\ 0 <= k /\ 0 + 1 = 1
          BY <1>6, <2>1
        <4> QED
          BY <4>1, <1>9
      <3> QED
        BY <1>1, <1>5, <1>10, <2>1, <3>1 DEF Copia
    <2>2. CASE /\ hiloFM9.paso = "partes" /\ deFM9 = <<>> /\ hiloFM9.paquete = p /\ hiloFM9.texto = <<>>
               /\ aFM9 = SubSeq(AFM9(p), 2, k)
      <3>1. aFM9' = SubSeq(AFM9(p), 2, Leidos(h)) /\ aFM9' \in Seq(S)
        <4>1. aFM9 = SubSeq(AFM9(p), 1 + 1, k) /\ 1 \in Nat /\ 1 <= k /\ 1 + 1 = 2
          BY <1>6, <2>2
        <4> QED
          BY <4>1, <1>9
      <3> QED
        BY <1>1, <1>5, <1>10, <2>2, <3>1 DEF Copia
    <2>3. CASE /\ hiloFM9.paso = "parte" /\ deFM9 = <<>> /\ hiloFM9.paquete = p
               /\ hiloFM9.partes \in q .. n
               /\ hiloFM9.texto = Copiado(f, hiloFM9.partes)
               /\ aFM9 = SubSeq(AFM9(p), Cuantos(n, hiloFM9.partes) + 1, k)
      <3> DEFINE j == Cuantos(n, hiloFM9.partes)
      <3>1. j \in Nat /\ j <= k
        BY <1>3, <1>6, <2>3, SMTT(30) DEF Cuantos
      <3>2. aFM9' = SubSeq(AFM9(p), j + 1, Leidos(h)) /\ aFM9' \in Seq(S)
        BY <1>9, <2>3, <3>1
      <3>3. hiloFM9.partes \in h.partes .. n
        BY <1>3, <1>5, <2>3
      <3> QED
        BY <1>1, <1>5, <1>10, <2>3, <3>2, <3>3 DEF Copia, n, f
    <2>4. q # 0
      BY <1>3
    <2> QED
      BY <1>11, <2>1, <2>2, <2>3, <2>4 DEF Copia, n, f, q, k
  <1>13. TransmisionFM9'
    <2>1. \A d \in CPUs : hilo'[d].paso = "copia" => d = c
      BY <1>1, <1>2, <1>10, SinMezcla, PasosDelHilo
    <2>2. hilo'[c].paso = "copia"
      BY <1>5, <1>10
    <2> QED
      BY <1>12, <2>1, <2>2 DEF TransmisionFM9
  <1>14. deMDJ' = SubSeq(Envio(h.paquete.archivo), Leidos(h) + 1, Len(Envio(h.paquete.archivo)))
    BY <1>5, <1>8 DEF e, f
  <1>15. h.partes \in 0 .. Partes(h.paquete.archivo)
    BY <1>3, <1>5 DEF n, f
  <1>16. UNCHANGED <<pedidos, aMDJ, deFM9, aSAFA, archivos, MDJVivo, dados, hiloFM9, segmentos>>
    BY <1>1
  <1> QED
    BY <1>1, <1>2, <1>5, <1>7, <1>12, <1>13, <1>14, <1>15, <1>16, PasoDeAbrir

LEMMA PasoEsperarFM9 ==
    ASSUME Invariante, NEW c \in CPUs, EsperarFM9(c)
    PROVE  Invariante'
  <1> DEFINE p == hilo[c].paquete
             h == [hilo[c] EXCEPT !.paso = "contestar", !.paquete = Head(deFM9)]
  <1>1. Sigue /\ hilo[c].paso = "copia" /\ hilo[c].partes = 0 /\ deFM9 # <<>> /\ deFM9' = Tail(deFM9)
        /\ hilo' = [hilo EXCEPT ![c].paso = "contestar", ![c].paquete = Head(deFM9)]
        /\ UNCHANGED <<pedidos, aMDJ, deMDJ, aFM9, aSAFA, archivos, MDJVivo, dados, hiloFM9, segmentos>>
    BY DEF EsperarFM9, En, vMDJ, vFM9
  <1>2. TypeOK /\ hilo \in [CPUs -> Hilos] /\ ~Transmite(c) /\ EnAbrir(c) /\ (\A d \in CPUs : HiloCoherente(d))
        /\ TransmisionMDJ /\ ResultadosMDJ /\ TransmisionFM9 /\ Cuenta /\ MDJVivo'
    BY <1>1, PasosDelHilo DEF Invariante, TypeOK, Sigue
  <1>3. p \in Paquetes /\ p.tipoOperacion = 1
    BY <1>1, <1>2, TipoDeHilo DEF HiloCoherente
  <1>4. Copia(c)
    BY <1>1, <1>2 DEF TransmisionFM9
  <1>5. hiloFM9.paso = "paquete" /\ aFM9 = <<>>
    BY <1>1, <1>4 DEF Copia
  <1>6. PICK r \in {0, 1} : /\ deFM9 = <<[p EXCEPT !.resultado = r]>>
                            /\ r = 1 => \E s \in segmentos : s.id = p.id
    BY <1>1, <1>4 DEF Copia
  <1> DEFINE x == [p EXCEPT !.resultado = r]
  <1>7. x \in Paquetes /\ x.tipoOperacion = 1 /\ x.id = p.id /\ x.resultado = r
    BY <1>3 DEF Paquetes
  <1>8. Head(deFM9) = x /\ Tail(deFM9) = <<>>
    BY <1>6
  <1>9. h \in Hilos /\ h.paso = "contestar" /\ h.paquete = x /\ hilo' = [hilo EXCEPT ![c] = h]
    BY <1>1, <1>2, <1>7, <1>8, ZenonT(60) DEF Hilos
  <1> HIDE DEF h, x
  <1>10. /\ hilo' \in [CPUs -> Hilos] /\ hilo'[c] = h
         /\ \A d \in CPUs : d # c => hilo'[d] = hilo[d] /\ (Transmite(d)' <=> Transmite(d)) /\ HiloCoherente(d)'
         /\ Transmite(c)' <=> (h.paso \in {"flag", "partes"} \/ (h.paso = "copia" /\ h.partes > 0))
    BY <1>1, <1>2, <1>9, SoloElHilo
  <1>11. TypeOK'
    <2>1. deFM9' \in Seq(Paquetes)
      BY <1>1, <1>8, EmptySeq
    <2> QED
      BY <1>1, <1>2, <1>10, <2>1 DEF TypeOK
  <1>12. HiloCoherente(c)'
    <2>1. h.paso # "libre" /\ h.paso # "copia" /\ h.paso # "resultado" /\ ~EnAbrir(c)'
      BY <1>9, <1>10 DEF EnAbrir
    <2>2. r = 1 => \E s \in segmentos' : s.id = x.id
      BY <1>1, <1>6, <1>7
    <2> QED
      BY <1>7, <1>9, <1>10, <2>1, <2>2 DEF HiloCoherente
  <1>13. Identificadores' /\ IdsHilo' = IdsHilo /\ IdsSAFA' = IdsSAFA
    <2>1. \A d \in CPUs : hilo'[d].paso = "libre" <=> hilo[d].paso = "libre"
      BY <1>1, <1>9, <1>10
    <2>2. \A d \in CPUs : hilo[d].paso # "libre" => hilo'[d].paquete.id = hilo[d].paquete.id
      BY <1>7, <1>9, <1>10
    <2> QED
      BY <1>1, <2>1, <2>2, MarcoIds DEF Invariante
  <1>14. \A d \in CPUs : Transmite(d)' <=> Transmite(d)
    BY <1>2, <1>9, <1>10
  <1>15. EnResultado' = EnResultado /\ PorContestar' = PorContestar
    BY <1>1, <1>7, <1>9, <1>10, ZenonT(60) DEF EnResultado, PorContestar
  <1>16. TransmisionMDJ' /\ ResultadosMDJ'
    <2>1. \A d \in CPUs : Transmite(d) \/ d \in EnResultado => hilo'[d] = hilo[d]
      BY <1>1, <1>2, <1>10 DEF EnResultado
    <2> QED
      BY <1>1, <1>2, <1>13, <1>14, <1>15, <2>1, MarcoMDJ
  <1>17. TransmisionFM9'
    <2>1. \A d \in CPUs : hilo'[d].paso # "copia"
      BY <1>1, <1>2, <1>9, <1>10, SinMezcla, PasosDelHilo
    <2> QED
      BY <1>1, <1>5, <1>8, <2>1 DEF TransmisionFM9
  <1>18. Cuenta'
    BY <1>1, <1>2, <1>14, <1>15, MarcoCuenta
  <1>19. ArchivoEntero'
    BY <1>1 DEF Invariante, ArchivoEntero
  <1>20. ResultadoPropio'
    <2>1. \A d \in CPUs : hilo'[d].paso = "contestar" /\ hilo'[d].paquete.tipoOperacion # 1 => hilo'[d] = hilo[d]
      BY <1>7, <1>9, <1>10
    <2>2. ResultadoPropio
      BY DEF Invariante
    <2> QED
      BY <1>1, <2>1, <2>2, MarcoPropio
  <1> QED
    BY <1>2, <1>10, <1>11, <1>12, <1>13, <1>16, <1>17, <1>18, <1>19, <1>20 DEF Invariante

LEMMA ConjuntosFinitos ==
    ASSUME TypeOK
    PROVE  /\ IsFiniteSet(EnResultado) /\ Cardinality(EnResultado) \in Nat
           /\ IsFiniteSet(PorContestar) /\ Cardinality(PorContestar) \in Nat
           /\ IsFiniteSet(Exitos) /\ Cardinality(Exitos) \in Nat
  <1>1. IsFiniteSet(CPUs) /\ EnResultado \in SUBSET CPUs /\ PorContestar \in SUBSET CPUs
    BY DAMHilosAssumption DEF EnResultado, PorContestar
  <1>2. IsFiniteSet(Ids)
    BY FS_Interval, DAMHilosAssumption DEF Ids
  <1>3. IsFiniteSet(Exitos)
    <2> DEFINE g == [i \in Ids |-> [id |-> i, resultado |-> 1]]
               T == {[id |-> i, resultado |-> 1] : i \in Ids}
    <2>1. g \in Surjection(Ids, T)
      BY DEF Surjection
    <2>2. IsFiniteSet(T)
      BY <1>2, <2>1, FS_Surjection
    <2>3. Exitos \in SUBSET T
      BY DEF TypeOK, Exitos
    <2> QED
      BY <2>2, <2>3, FS_Subset
  <1> QED
    BY <1>1, <1>3, FS_Subset, FS_CardinalityType

LEMMA SocketDePosiciones ==
    ASSUME \A c \in CPUs : ~Transmite(c)
    PROVE  EnSocket = Lugares(deMDJ, {Entero(1)})
  BY DEF EnSocket, Lugares

LEMMA PasoLeerResultado ==
    ASSUME Invariante, NEW c \in CPUs, LeerResultado(c)
    PROVE  Invariante'
  <1> DEFINE p == hilo[c].paquete
             v == Head(deMDJ).valor
             h == [hilo[c] EXCEPT !.paso = "contestar", !.partes = v, !.paquete = [@ EXCEPT !.resultado = v]]
  <1>1. Sigue /\ hilo[c].paso = "resultado" /\ deMDJ # <<>> /\ deMDJ' = Tail(deMDJ)
        /\ hilo' = [hilo EXCEPT ![c].paso = "contestar", ![c].partes = v, ![c].paquete.resultado = v]
        /\ UNCHANGED <<pedidos, aMDJ, aFM9, deFM9, aSAFA, archivos, MDJVivo, dados, hiloFM9, segmentos>>
    BY DEF LeerResultado, Leido, En, vMDJ, vFM9
  <1>2. TypeOK /\ hilo \in [CPUs -> Hilos] /\ ~EnAbrir(c) /\ (\A d \in CPUs : HiloCoherente(d))
        /\ ResultadosMDJ /\ TransmisionFM9 /\ Cuenta /\ MDJVivo' /\ deMDJ \in Seq(Mensajes) /\ aMDJ \in Seq(Paquetes)
    BY <1>1, PasosDelHilo DEF Invariante, TypeOK, Sigue
  <1>3. c \in EnResultado /\ \A d \in CPUs : ~Transmite(d)
    BY <1>1, SinMezcla DEF EnResultado
  <1>4. CrearYBorrar
    BY <1>2, <1>3 DEF ResultadosMDJ
  <1>5. p \in Paquetes /\ p.tipoOperacion # 1
    BY <1>1, <1>2, TipoDeHilo DEF HiloCoherente
  <1>6. /\ Len(deMDJ) \in Nat \ {0} /\ Len(aMDJ) \in Nat /\ Head(deMDJ) = deMDJ[1] /\ DOMAIN deMDJ = 1 .. Len(deMDJ)
        /\ deMDJ' \in Seq(Mensajes) /\ Len(deMDJ') = Len(deMDJ) - 1 /\ DOMAIN deMDJ' = 1 .. Len(deMDJ) - 1
        /\ \A k \in 1 .. Len(deMDJ) - 1 : deMDJ'[k] = deMDJ[k + 1]
    BY <1>1, <1>2, HeadTailProperties, LenProperties, EmptySeq
  <1>7. v \in {0, 1} /\ Head(deMDJ) = Entero(v)
    <2>1. deMDJ[1] \in {Entero(0), Entero(1)}
      BY <1>4, <1>6 DEF CrearYBorrar
    <2> QED
      BY <1>6, <2>1 DEF Entero
  <1> HIDE DEF v
  <1>8. /\ h \in Hilos /\ h.paso = "contestar" /\ h.paquete.id = p.id /\ h.paquete.tipoOperacion = p.tipoOperacion
        /\ h.paquete.resultado = v /\ h.paquete \in Paquetes /\ h.solapado = hilo[c].solapado
        /\ hilo' = [hilo EXCEPT ![c] = h]
    <2> DEFINE x == [p EXCEPT !.resultado = v]
    <2>1. v \in Nat /\ v \in {-1, 0, 1}
      BY <1>7
    <2>2. x \in Paquetes /\ x.id = p.id /\ x.tipoOperacion = p.tipoOperacion /\ x.resultado = v
      BY <1>5, <2>1 DEF Paquetes
    <2>3. hilo[c] \in Hilos
      BY <1>2
    <2>4. h = [hilo[c] EXCEPT !.paso = "contestar", !.partes = v, !.paquete = x]
      OBVIOUS
    <2>5. hilo' = [hilo EXCEPT ![c] = [hilo[c] EXCEPT !.paso = "contestar", !.partes = v, !.paquete = x]]
      BY <1>1, <1>2
    <2> HIDE DEF x, h
    <2>6. h \in Hilos /\ h.paso = "contestar" /\ h.paquete = x /\ h.solapado = hilo[c].solapado
      BY <2>1, <2>2, <2>3, <2>4 DEF Hilos
    <2> QED
      BY <2>2, <2>4, <2>5, <2>6
  <1> HIDE DEF h
  <1>9. /\ hilo' \in [CPUs -> Hilos] /\ hilo'[c] = h
        /\ \A d \in CPUs : d # c => hilo'[d] = hilo[d] /\ (Transmite(d)' <=> Transmite(d)) /\ HiloCoherente(d)'
        /\ Transmite(c)' <=> (h.paso \in {"flag", "partes"} \/ (h.paso = "copia" /\ h.partes > 0))
    BY <1>1, <1>2, <1>8, SoloElHilo, ZenonT(60)
  <1>10. TypeOK'
    BY <1>1, <1>2, <1>6, <1>9 DEF TypeOK
  <1>11. HiloCoherente(c)'
    <2>1. ~EnAbrir(c)'
      BY <1>8, <1>9 DEF EnAbrir
    <2> QED
      BY <1>5, <1>7, <1>8, <1>9, <2>1 DEF HiloCoherente
  <1>12. Identificadores' /\ IdsHilo' = IdsHilo /\ IdsSAFA' = IdsSAFA
    <2>1. \A d \in CPUs : hilo'[d].paso = "libre" <=> hilo[d].paso = "libre"
      BY <1>1, <1>8, <1>9
    <2>2. \A d \in CPUs : hilo[d].paso # "libre" => hilo'[d].paquete.id = hilo[d].paquete.id
      BY <1>8, <1>9
    <2> QED
      BY <1>1, <2>1, <2>2, MarcoIds DEF Invariante
  <1>13. \A d \in CPUs : ~Transmite(d)'
    BY <1>3, <1>8, <1>9
  <1>14. EnResultado' = EnResultado \ {c} /\ \A d \in EnResultado' : hilo'[d] = hilo[d] /\ d \in EnResultado
    BY <1>8, <1>9 DEF EnResultado
  <1>15. Cardinality(EnResultado') = Cardinality(EnResultado) - 1
    BY <1>2, <1>3, <1>14, ConjuntosFinitos, FS_RemoveElement
  <1>16. ASSUME NEW d \in EnResultado, ~hilo[d].solapado
         PROVE  d = c /\ aMDJ = <<>> /\ \E r \in {0, 1} : /\ deMDJ = <<Entero(r)>>
                                                          /\ [id |-> hilo[d].paquete.id, resultado |-> r] \in dados
    <2>1. Propio(d)
      BY <1>4, <1>16 DEF CrearYBorrar
    <2>2. aMDJ = <<>> /\ \E r \in {0, 1} : /\ deMDJ = <<Entero(r)>>
                                            /\ [id |-> hilo[d].paquete.id, resultado |-> r] \in dados
      BY <1>1, <2>1 DEF Propio
    <2>3. Len(aMDJ) = 0 /\ Len(deMDJ) = 1
      BY <2>2
    <2>4. Cardinality(EnResultado) = 1
      BY <1>4, <2>3 DEF CrearYBorrar
    <2>5. d = c
      BY <1>2, <1>3, <2>4, ConjuntosFinitos, FS_Singleton
    <2> QED
      BY <2>2, <2>5
  <1>17. CrearYBorrar'
    <2>1. Len(aMDJ') + Len(deMDJ') = Cardinality(EnResultado')
      BY <1>1, <1>4, <1>6, <1>15 DEF CrearYBorrar
    <2>2. \A k \in DOMAIN deMDJ' : deMDJ'[k] \in {Entero(0), Entero(1)}
      <3>1. \A k \in 1 .. Len(deMDJ) - 1 : k + 1 \in DOMAIN deMDJ
        BY <1>6
      <3> QED
        BY <1>4, <1>6, <3>1 DEF CrearYBorrar
    <2>3. \A d \in EnResultado' : hilo'[d].solapado
      BY <1>14, <1>16
    <2> QED
      BY <1>1, <1>4, <1>12, <2>1, <2>2, <2>3 DEF CrearYBorrar
  <1>18. TransmisionMDJ' /\ ResultadosMDJ'
    BY <1>13, <1>17 DEF TransmisionMDJ, ResultadosMDJ
  <1>19. TransmisionFM9'
    <2>1. \A d \in CPUs : hilo[d].paso = "copia" <=> hilo'[d].paso = "copia"
      BY <1>1, <1>8, <1>9
    <2>2. \A d \in CPUs : hilo[d].paso = "copia" => hilo'[d] = hilo[d]
      BY <1>1, <1>9
    <2> QED
      BY <1>1, <1>2, <2>1, <2>2, MarcoFM9
  <1>20. Cuenta'
    <2>1. EnSocket = Lugares(deMDJ, {Entero(1)})
      BY <1>3, SocketDePosiciones
    <2>2. EnSocket' = Lugares(deMDJ', {Entero(1)})
      BY <1>13 DEF EnSocket, Lugares
    <2>3. Cardinality(EnSocket') = Cardinality(EnSocket) - IF v = 1 THEN 1 ELSE 0
      <3>1. Head(deMDJ) \in {Entero(1)} <=> v = 1
        BY <1>7 DEF Entero
      <3>2. Cardinality(Lugares(Tail(deMDJ), {Entero(1)})) =
            Cardinality(Lugares(deMDJ, {Entero(1)})) - IF Head(deMDJ) \in {Entero(1)} THEN 1 ELSE 0
        BY <1>1, <1>2, PosicionesTail
      <3> QED
        BY <1>1, <2>1, <2>2, <3>1, <3>2
    <2>4. Cardinality(PorContestar') = Cardinality(PorContestar) + IF v = 1 THEN 1 ELSE 0
      <3>1. c \notin PorContestar
        BY <1>1 DEF PorContestar
      <3>2. v = 1 => PorContestar' = PorContestar \cup {c}
        BY <1>5, <1>8, <1>9 DEF PorContestar
      <3>3. v # 1 => PorContestar' = PorContestar
        BY <1>1, <1>5, <1>8, <1>9 DEF PorContestar
      <3>4. Cardinality(PorContestar \cup {c}) = Cardinality(PorContestar) + 1
        BY <1>2, <3>1, ConjuntosFinitos, FS_AddElement
      <3>5. Cardinality(PorContestar) \in Nat
        BY <1>2, ConjuntosFinitos
      <3>6. CASE v = 1
        BY <3>2, <3>4, <3>6
      <3>7. CASE v # 1
        <4>1. Cardinality(PorContestar') = Cardinality(PorContestar)
          BY <3>3, <3>7
        <4> QED
          BY <3>5, <3>7, <4>1
      <3> QED
        BY <3>6, <3>7
    <2>5. Cardinality(EnSocket) \in Nat /\ Cardinality(PorContestar) \in Nat
      BY <1>2, <2>1, PosicionesFinitas, ConjuntosFinitos
    <2>6. Exitos' = Exitos /\ Dichos' = Dichos
      BY <1>1 DEF Exitos, Dichos
    <2>7. Cardinality(EnSocket') + Cardinality(PorContestar') = Cardinality(EnSocket) + Cardinality(PorContestar)
      BY <2>3, <2>4, <2>5
    <2> QED
      BY <1>2, <2>6, <2>7 DEF Cuenta
  <1>21. ArchivoEntero'
    BY <1>1 DEF Invariante, ArchivoEntero
  <1>22. ResultadoPropio'
    <2>1. ~h.solapado => [id |-> h.paquete.id, resultado |-> h.paquete.resultado] \in dados
      <3> SUFFICES ASSUME ~h.solapado
                   PROVE  [id |-> h.paquete.id, resultado |-> h.paquete.resultado] \in dados
        OBVIOUS
      <3>1. PICK r \in {0, 1} : deMDJ = <<Entero(r)>> /\ [id |-> p.id, resultado |-> r] \in dados
        BY <1>3, <1>8, <1>16
      <3>2. r = v
        BY <1>7, <3>1 DEF Entero
      <3> QED
        BY <1>8, <3>1, <3>2
    <2>2. ResultadoPropio /\ dados' = dados
      BY <1>1 DEF Invariante
    <2> QED
      BY <1>9, <2>1, <2>2, MarcoPropio
  <1> QED
    BY <1>2, <1>9, <1>10, <1>11, <1>12, <1>18, <1>19, <1>20, <1>21, <1>22 DEF Invariante

LEMMA PasoContestar ==
    ASSUME Invariante, NEW c \in CPUs, Contestar(c)
    PROVE  Invariante'
  <1> DEFINE p == hilo[c].paquete
             h == [hilo[c] EXCEPT !.paso = "libre", !.paquete = Nada]
             a == [tipoOperacion |-> p.tipoOperacion, resultado |-> p.resultado, id |-> p.id]
             A == [tipoOperacion : {1, 8, 9}, resultado : {0, 1}, id : Ids]
             V == {x \in A : x.tipoOperacion # 1 /\ x.resultado = 1}
             n == Len(aSAFA)
  <1>1. Sigue /\ hilo[c].paso = "contestar" /\ aSAFA' = Append(aSAFA, a)
        /\ hilo' = [hilo EXCEPT ![c].paso = "libre", ![c].paquete = Nada]
        /\ UNCHANGED <<pedidos, aMDJ, deMDJ, aFM9, deFM9, archivos, MDJVivo, dados, hiloFM9, segmentos>>
    BY DEF Contestar, Contestado, En, vMDJ, vFM9
  <1>2. TypeOK /\ hilo \in [CPUs -> Hilos] /\ ~Transmite(c) /\ (\A d \in CPUs : HiloCoherente(d))
        /\ TransmisionMDJ /\ ResultadosMDJ /\ TransmisionFM9 /\ Cuenta /\ MDJVivo' /\ Identificadores
        /\ aSAFA \in Seq(A)
    BY <1>1, PasosDelHilo DEF Invariante, TypeOK, Sigue
  <1>3. p \in Paquetes /\ p.id \in Ids /\ p.tipoOperacion \in {1, 8, 9} /\ p.resultado \in {0, 1}
    BY <1>1, <1>2, TipoDeHilo DEF HiloCoherente
  <1>4. a \in A /\ a.id = p.id /\ a.tipoOperacion = p.tipoOperacion /\ a.resultado = p.resultado
    BY <1>3
  <1>5. h \in Hilos /\ h.paso = "libre" /\ hilo' = [hilo EXCEPT ![c] = h]
    BY <1>1, <1>2 DEF Hilos
  <1> HIDE DEF h, a
  <1>6. /\ hilo' \in [CPUs -> Hilos] /\ hilo'[c] = h
        /\ \A d \in CPUs : d # c => hilo'[d] = hilo[d] /\ (Transmite(d)' <=> Transmite(d)) /\ HiloCoherente(d)'
        /\ Transmite(c)' <=> (h.paso \in {"flag", "partes"} \/ (h.paso = "copia" /\ h.partes > 0))
    BY <1>1, <1>2, <1>5, SoloElHilo
  <1>7. /\ aSAFA' \in Seq(A) /\ n \in Nat /\ DOMAIN aSAFA = 1 .. n /\ DOMAIN aSAFA' = 1 .. n + 1
        /\ (\A k \in 1 .. n : aSAFA'[k] = aSAFA[k]) /\ aSAFA'[n + 1] = a
    <2> HIDE DEF A
    <2> QED
      BY <1>1, <1>2, <1>4, AppendProperties, LenProperties
  <1>8. TypeOK'
    BY <1>1, <1>2, <1>6, <1>7 DEF TypeOK
  <1>9. HiloCoherente(c)'
    <2>1. ~EnAbrir(c)'
      BY <1>5, <1>6 DEF EnAbrir
    <2> QED
      BY <1>5, <1>6, <2>1 DEF HiloCoherente
  <1>10. IdsSAFA' = IdsSAFA \cup {p.id}
    BY <1>4, <1>7 DEF IdsSAFA
  <1>11. IdsHilo' \subseteq IdsHilo /\ IdsHilo \subseteq IdsHilo' \cup {p.id} /\ p.id \in IdsHilo
    BY <1>1, <1>5, <1>6 DEF IdsHilo
  <1>12. IdsHilo' \cup IdsSAFA' = IdsHilo \cup IdsSAFA
    BY <1>10, <1>11
  <1>13. Identificadores'
    <2>1. \A d \in CPUs : hilo'[d].paso # "libre" => hilo'[d] = hilo[d]
      BY <1>5, <1>6
    <2> QED
      BY <1>1, <1>2, <1>12, <2>1 DEF Identificadores
  <1>14. \A d \in CPUs : Transmite(d)' <=> Transmite(d)
    BY <1>2, <1>5, <1>6
  <1>15. EnResultado' = EnResultado
    BY <1>1, <1>5, <1>6 DEF EnResultado
  <1>16. TransmisionMDJ' /\ ResultadosMDJ'
    <2>1. \A d \in CPUs : Transmite(d) \/ d \in EnResultado => hilo'[d] = hilo[d]
      BY <1>1, <1>2, <1>6 DEF EnResultado
    <2> QED
      BY <1>1, <1>2, <1>12, <1>14, <1>15, <2>1, MarcoMDJ
  <1>17. TransmisionFM9'
    <2>1. \A d \in CPUs : hilo[d].paso = "copia" <=> hilo'[d].paso = "copia"
      BY <1>1, <1>5, <1>6
    <2>2. \A d \in CPUs : hilo[d].paso = "copia" => hilo'[d] = hilo[d]
      BY <1>1, <1>6
    <2> QED
      BY <1>1, <1>2, <2>1, <2>2, MarcoFM9
  <1>18. Cuenta'
    <2>1. Exitos' = Exitos /\ EnSocket' = EnSocket
      BY <1>1, <1>14 DEF Exitos, EnSocket
    <2>2. Dichos = Lugares(aSAFA, V) /\ Dichos' = Lugares(aSAFA', V)
      <3>1. (\A k \in DOMAIN aSAFA : aSAFA[k] \in A) /\ (\A k \in DOMAIN aSAFA' : aSAFA'[k] \in A)
        <4> HIDE DEF A
        <4> QED
          BY <1>2, <1>7, LenProperties, ElementOfSeq
      <3> HIDE DEF A
      <3> QED
        BY <3>1 DEF Dichos, Lugares
    <2>3. Cardinality(Lugares(aSAFA', V)) = Cardinality(Lugares(aSAFA, V)) + IF a \in V THEN 1 ELSE 0
      <3> HIDE DEF A, V
      <3> QED
        BY <1>1, <1>2, <1>4, PosicionesAppend
    <2>4. a \in V <=> c \in PorContestar
      BY <1>1, <1>4 DEF PorContestar
    <2>5. PorContestar' = PorContestar \ {c}
      BY <1>5, <1>6 DEF PorContestar
    <2>6. Cardinality(PorContestar') = Cardinality(PorContestar) - IF c \in PorContestar THEN 1 ELSE 0
      <3>1. IsFiniteSet(PorContestar) /\ Cardinality(PorContestar) \in Nat
        BY <1>2, ConjuntosFinitos
      <3>2. Cardinality(PorContestar \ {c}) =
            IF c \in PorContestar THEN Cardinality(PorContestar) - 1 ELSE Cardinality(PorContestar)
        BY <3>1, FS_RemoveElement
      <3> QED
        BY <2>5, <3>1, <3>2
    <2>7. Cardinality(PorContestar) \in Nat /\ Cardinality(Lugares(aSAFA, V)) \in Nat
      <3> HIDE DEF A, V
      <3> QED
        BY <1>2, ConjuntosFinitos, PosicionesFinitas
    <2> HIDE DEF V
    <2>8. Cardinality(PorContestar') + Cardinality(Dichos') = Cardinality(PorContestar) + Cardinality(Dichos)
      BY <2>2, <2>3, <2>4, <2>6, <2>7
    <2>9. Cardinality(Exitos) = Cardinality(EnSocket) + Cardinality(PorContestar) + Cardinality(Dichos)
      BY <1>2 DEF Cuenta
    <2>10. Cardinality(EnSocket) \in Nat
      <3>1. CASE \E d \in CPUs : Transmite(d)
        BY <3>1, FS_EmptySet DEF EnSocket
      <3>2. CASE \A d \in CPUs : ~Transmite(d)
        BY <1>2, <3>2, SocketDePosiciones, PosicionesFinitas DEF TypeOK
      <3> QED
        BY <3>1, <3>2
    <2>11. Cardinality(PorContestar') \in Int /\ Cardinality(Dichos') \in Int
      BY <2>2, <2>3, <2>6, <2>7
    <2>12. Cardinality(Exitos') = Cardinality(EnSocket') + Cardinality(PorContestar') + Cardinality(Dichos')
      BY <2>1, <2>2, <2>7, <2>8, <2>9, <2>10, <2>11
    <2> QED
      BY <2>12 DEF Cuenta
  <1>19. ArchivoEntero'
    <2>1. ArchivoEntero
      BY DEF Invariante
    <2>2. a.tipoOperacion = 1 /\ a.resultado = 1 => \E s \in segmentos : s.id = a.id
      BY <1>1, <1>2, <1>4 DEF HiloCoherente
    <2>3. \A k \in DOMAIN aSAFA' : \/ k \in DOMAIN aSAFA /\ aSAFA'[k] = aSAFA[k]
                                   \/ aSAFA'[k] = a
      BY <1>7
    <2> QED
      BY <1>1, <2>1, <2>2, <2>3 DEF ArchivoEntero
  <1>20. ResultadoPropio'
    <2>1. ResultadoPropio /\ \A d \in CPUs : hilo'[d].paso = "contestar" => hilo'[d] = hilo[d]
      BY <1>5, <1>6 DEF Invariante
    <2> QED
      BY <1>1, <2>1, MarcoPropio
  <1> QED
    BY <1>2, <1>6, <1>8, <1>9, <1>13, <1>16, <1>17, <1>18, <1>19, <1>20 DEF Invariante

(* A new request: it may run into the conversation of another thread, and then only *)
(* what does not depend on the sockets goes on holding.                             *)
LEMMA PasoTomar ==
    ASSUME Invariante, NEW c \in CPUs, Tomar(c)
    PROVE  Invariante'
  <1> DEFINE p == Head(pedidos[c])
             abre == p.tipoOperacion = 1
             otros == {d \in CPUs \ {c} : hilo[d].paso = "resultado"}
             h == [hilo[c] EXCEPT !.paquete = p, !.paso = IF abre THEN "flag" ELSE "resultado",
                                  !.solapado = ~abre /\ otros # {}]
  <1>1. Sigue /\ hilo[c].paso = "libre" /\ pedidos[c] # <<>> /\ aMDJ' = Append(aMDJ, p)
        /\ pedidos' = [pedidos EXCEPT ![c] = Tail(@)]
        /\ UNCHANGED <<deMDJ, aFM9, deFM9, aSAFA, archivos, MDJVivo, dados, hiloFM9, segmentos>>
    BY DEF Tomar, En, vMDJ, vFM9
  <1>2. TypeOK /\ hilo \in [CPUs -> Hilos] /\ (\A d \in CPUs : HiloCoherente(d))
        /\ TransmisionMDJ /\ ResultadosMDJ /\ TransmisionFM9 /\ Cuenta /\ MDJVivo' /\ Identificadores
        /\ pedidos \in [CPUs -> Seq(Paquetes)] /\ aMDJ \in Seq(Paquetes) /\ deMDJ \in Seq(Mensajes)
    BY <1>1 DEF Invariante, TypeOK, Sigue
  <1>3. /\ p \in Paquetes /\ p = pedidos[c][1]
        /\ Tail(pedidos[c]) \in Seq(Paquetes) /\ Len(pedidos[c]) \in Nat \ {0} /\ DOMAIN pedidos[c] = 1 .. Len(pedidos[c])
        /\ DOMAIN Tail(pedidos[c]) = 1 .. Len(pedidos[c]) - 1
        /\ \A k \in 1 .. Len(pedidos[c]) - 1 : Tail(pedidos[c])[k] = pedidos[c][k + 1]
    <2>1. pedidos[c] \in Seq(Paquetes)
      BY <1>2
    <2>2. p \in Paquetes /\ p = pedidos[c][1] /\ Len(pedidos[c]) \in Nat \ {0} /\ DOMAIN pedidos[c] = 1 .. Len(pedidos[c])
      BY <1>1, <2>1, HeadTailProperties, LenProperties, EmptySeq
    <2>3. /\ Tail(pedidos[c]) \in Seq(Paquetes) /\ Len(Tail(pedidos[c])) = Len(pedidos[c]) - 1
          /\ \A k \in 1 .. Len(Tail(pedidos[c])) : Tail(pedidos[c])[k] = pedidos[c][k + 1]
      BY <1>1, <2>1, HeadTailProperties
    <2>4. DOMAIN Tail(pedidos[c]) = 1 .. Len(Tail(pedidos[c]))
      BY <2>3, LenProperties
    <2> QED
      BY <2>2, <2>3, <2>4
  <1>4. p.id \in Ids /\ p.tipoOperacion \in {1, 8, 9}
    BY <1>3 DEF Paquetes
  <1>5. /\ h \in Hilos /\ h.paquete = p /\ h.paso = (IF abre THEN "flag" ELSE "resultado")
        /\ h.solapado = (~abre /\ otros # {}) /\ h.partes = hilo[c].partes
    <2>1. hilo[c] \in Hilos
      BY <1>2
    <2>2. /\ h.paquete = p /\ h.paso = (IF abre THEN "flag" ELSE "resultado")
          /\ h.solapado = (~abre /\ otros # {}) /\ h.partes = hilo[c].partes
      BY <2>1 DEF Hilos
    <2>3. h \in Hilos
      BY <1>3, <2>1 DEF Hilos
    <2> QED
      BY <2>2, <2>3
  <1>6. hilo' \in [CPUs -> Hilos] /\ hilo'[c] = h
    <2>1. \A d \in CPUs : [hilo[d] EXCEPT !.solapado = @ \/ (~abre /\ d \in otros)] \in Hilos
      BY <1>2 DEF Hilos
    <2> QED
      BY <1>5, <2>1 DEF Tomar
  <1>7. \A d \in CPUs : d # c =>
            /\ hilo'[d].paso = hilo[d].paso /\ hilo'[d].paquete = hilo[d].paquete /\ hilo'[d].partes = hilo[d].partes
            /\ hilo[d].paso # "resultado" \/ abre => hilo'[d] = hilo[d]
            /\ hilo[d].paso = "resultado" /\ ~abre => hilo'[d].solapado
    <2> SUFFICES ASSUME NEW d \in CPUs, d # c
                 PROVE  /\ hilo'[d].paso = hilo[d].paso /\ hilo'[d].paquete = hilo[d].paquete
                        /\ hilo'[d].partes = hilo[d].partes
                        /\ hilo[d].paso # "resultado" \/ abre => hilo'[d] = hilo[d]
                        /\ hilo[d].paso = "resultado" /\ ~abre => hilo'[d].solapado
      OBVIOUS
    <2>1. hilo'[d] = [hilo[d] EXCEPT !.solapado = @ \/ (~abre /\ d \in otros)]
      BY DEF Tomar
    <2>2. hilo[d] \in Hilos /\ hilo[d].solapado \in BOOLEAN
      BY <1>2 DEF Hilos
    <2>3. (hilo[d].solapado \/ FALSE) = hilo[d].solapado
      BY <2>2
    <2>4. hilo[d].paso # "resultado" \/ abre => (~abre /\ d \in otros) = FALSE
      OBVIOUS
    <2>5. hilo[d].paso # "resultado" \/ abre => hilo'[d] = hilo[d]
      BY <2>1, <2>2, <2>3, <2>4 DEF Hilos
    <2> QED
      BY <2>1, <2>2, <2>5 DEF Hilos
  <1> HIDE DEF h
  <1>8. \A d \in CPUs : d # c => (Transmite(d)' <=> Transmite(d)) /\ (EnAbrir(d)' <=> EnAbrir(d)) /\ (EnMDJ(d)' <=> EnMDJ(d))
    BY <1>7 DEF Transmite, EnAbrir, EnMDJ
  <1>9. EnMDJ(c)' /\ (EnAbrir(c)' <=> abre) /\ (Transmite(c)' <=> abre) /\ ~Transmite(c)
    BY <1>1, <1>5, <1>6 DEF Transmite, EnAbrir, EnMDJ
  <1>10. /\ pedidos' \in [CPUs -> Seq(Paquetes)] /\ pedidos'[c] = Tail(pedidos[c])
         /\ \A d \in CPUs : d # c => pedidos'[d] = pedidos[d]
    BY <1>1, <1>2, <1>3
  <1>11. /\ aMDJ' \in Seq(Paquetes) /\ Len(aMDJ) \in Nat /\ Len(aMDJ') = Len(aMDJ) + 1
         /\ DOMAIN aMDJ = 1 .. Len(aMDJ) /\ DOMAIN aMDJ' = 1 .. Len(aMDJ) + 1
         /\ (\A k \in 1 .. Len(aMDJ) : aMDJ'[k] = aMDJ[k]) /\ aMDJ'[Len(aMDJ) + 1] = p
    BY <1>1, <1>2, <1>3, AppendProperties, LenProperties
  <1>12. TypeOK'
    BY <1>1, <1>2, <1>6, <1>10, <1>11 DEF TypeOK
  <1>13. \A d \in CPUs : HiloCoherente(d)'
    <2> TAKE d \in CPUs
    <2>1. CASE d = c
      BY <1>3, <1>5, <1>6, <1>9, <2>1 DEF HiloCoherente
    <2>2. CASE d # c
      <3>1. HiloCoherente(d) /\ (EnAbrir(d)' <=> EnAbrir(d)) /\ hilo'[d].paso = hilo[d].paso
            /\ hilo'[d].paquete = hilo[d].paquete /\ hilo'[d].partes = hilo[d].partes /\ segmentos' = segmentos
        BY <1>1, <1>2, <1>7, <1>8, <2>2
      <3> QED
        BY <3>1 DEF HiloCoherente
    <2> QED
      BY <2>1, <2>2
  <1>14. IdsHilo' = IdsHilo \cup {p.id} /\ IdsSAFA' = IdsSAFA
    <2>1. h.paso # "libre"
      BY <1>5
    <2>2. IdsHilo' = IdsHilo \cup {p.id}
      BY <1>1, <1>5, <1>6, <1>7, <2>1 DEF IdsHilo
    <2> QED
      BY <1>1, <2>2 DEF IdsSAFA
  <1>15. p.id \notin IdsHilo \cup IdsSAFA /\ \A d \in dados : d.id # p.id
    <2>1. 1 \in DOMAIN pedidos[c]
      BY <1>3
    <2> QED
      BY <1>2, <1>3, <2>1 DEF Identificadores
  <1>16. Identificadores'
    <2>1. \A d \in CPUs : \A k \in DOMAIN pedidos'[d] :
             \E m \in DOMAIN pedidos[d] : /\ pedidos'[d][k] = pedidos[d][m]
                                          /\ m = IF d = c THEN k + 1 ELSE k
      <3> SUFFICES ASSUME NEW d \in CPUs, NEW k \in DOMAIN pedidos'[d]
                   PROVE  \E m \in DOMAIN pedidos[d] : /\ pedidos'[d][k] = pedidos[d][m]
                                                       /\ m = IF d = c THEN k + 1 ELSE k
        OBVIOUS
      <3>1. CASE d = c
        <4>1. k + 1 \in DOMAIN pedidos[c] /\ pedidos'[c][k] = pedidos[c][k + 1]
          BY <1>3, <1>10, <3>1
        <4> QED
          BY <3>1, <4>1
      <3>2. CASE d # c
        BY <1>10, <3>2
      <3> QED
        BY <3>1, <3>2
    <2>2. \A d \in CPUs : \A k \in DOMAIN pedidos'[d] : pedidos'[d][k].id # p.id /\ k \in Int
      <3> SUFFICES ASSUME NEW d \in CPUs, NEW k \in DOMAIN pedidos'[d]
                   PROVE  pedidos'[d][k].id # p.id /\ k \in Int
        OBVIOUS
      <3>1. k \in Nat \ {0}
        <4>1. pedidos'[d] \in Seq(Paquetes)
          BY <1>10
        <4> QED
          BY <4>1, LenProperties
      <3>2. PICK m \in DOMAIN pedidos[d] : pedidos'[d][k] = pedidos[d][m] /\ m = IF d = c THEN k + 1 ELSE k
        BY <2>1
      <3>3. ~(d = c /\ m = 1)
        BY <3>1, <3>2
      <3>4. 1 \in DOMAIN pedidos[c]
        BY <1>3
      <3>5. pedidos[c][1].id = pedidos[d][m].id => c = d /\ 1 = m
        BY <1>2, <3>4 DEF Identificadores
      <3>6. p.id # pedidos[d][m].id
        BY <1>3, <3>3, <3>5
      <3> QED
        BY <3>1, <3>2, <3>6
    <2>3. \A d, e \in CPUs : \A k \in DOMAIN pedidos'[d], m \in DOMAIN pedidos'[e] :
             pedidos'[d][k].id = pedidos'[e][m].id => d = e /\ k = m
      <3> SUFFICES ASSUME NEW d \in CPUs, NEW e \in CPUs, NEW k \in DOMAIN pedidos'[d], NEW m \in DOMAIN pedidos'[e],
                          pedidos'[d][k].id = pedidos'[e][m].id
                   PROVE  d = e /\ k = m
        OBVIOUS
      <3>1. PICK i \in DOMAIN pedidos[d] : pedidos'[d][k] = pedidos[d][i] /\ i = IF d = c THEN k + 1 ELSE k
        BY <2>1
      <3>2. PICK j \in DOMAIN pedidos[e] : pedidos'[e][m] = pedidos[e][j] /\ j = IF e = c THEN m + 1 ELSE m
        BY <2>1
      <3>3. d = e /\ i = j
        BY <1>2, <3>1, <3>2 DEF Identificadores
      <3> QED
        BY <2>2, <3>1, <3>2, <3>3
    <2>4. \A d \in CPUs : \A k \in DOMAIN pedidos'[d] : pedidos'[d][k].id \notin IdsHilo \cup IdsSAFA
      BY <1>2, <2>1 DEF Identificadores
    <2>5. \A d, e \in CPUs : d # e /\ hilo'[d].paso # "libre" /\ hilo'[e].paso # "libre" =>
             hilo'[d].paquete.id # hilo'[e].paquete.id
      <3>1. \A d \in CPUs : d # c /\ hilo'[d].paso # "libre" =>
               hilo[d].paso # "libre" /\ hilo'[d].paquete.id = hilo[d].paquete.id /\ hilo[d].paquete.id # p.id
        BY <1>7, <1>15 DEF IdsHilo
      <3> SUFFICES ASSUME NEW d \in CPUs, NEW e \in CPUs, d # e, hilo'[d].paso # "libre", hilo'[e].paso # "libre"
                   PROVE  hilo'[d].paquete.id # hilo'[e].paquete.id
        OBVIOUS
      <3>2. hilo'[c].paquete.id = p.id
        BY <1>5, <1>6
      <3>3. CASE d # c /\ e # c
        <4>1. hilo[d].paquete.id # hilo[e].paquete.id
          BY <1>2, <3>1, <3>3 DEF Identificadores
        <4> QED
          BY <3>1, <3>3, <4>1
      <3>4. CASE d = c \/ e = c
        BY <3>1, <3>2, <3>4
      <3> QED
        BY <3>3, <3>4
    <2>6. \A d \in dados' : d.id \in IdsHilo' \cup IdsSAFA'
      BY <1>1, <1>2, <1>14 DEF Identificadores
    <2>7. \A d \in CPUs : \A k \in DOMAIN pedidos'[d] : pedidos'[d][k].id \notin IdsHilo' \cup IdsSAFA'
      BY <1>14, <2>2, <2>4
    <2> QED
      BY <2>3, <2>5, <2>6, <2>7 DEF Identificadores
  <1>17. TransmisionFM9'
    <2>1. \A d \in CPUs : hilo[d].paso = "copia" <=> hilo'[d].paso = "copia"
      BY <1>1, <1>5, <1>6, <1>7
    <2>2. \A d \in CPUs : hilo[d].paso = "copia" => hilo'[d] = hilo[d]
      BY <1>1, <1>7
    <2> QED
      BY <1>1, <1>2, <2>1, <2>2, MarcoFM9
  <1>18. PorContestar' = PorContestar
    BY <1>1, <1>5, <1>6, <1>7 DEF PorContestar
  <1>19. ASSUME Sigue' PROVE /\ \A d \in CPUs : ~Transmite(d)
                             /\ CrearYBorrar
                             /\ \A d \in CPUs : Transmite(d)' <=> d = c /\ abre
                             /\ abre => EnResultado = {}
    <2>1. \A d, e \in CPUs : d # e => ~(EnAbrir(d)' /\ (EnAbrir(e)' \/ (EnMDJ(d)' /\ EnMDJ(e)')))
      BY <1>19 DEF Sigue, Mezclado
    <2>2. \A d \in CPUs : d # c => ~(EnAbrir(d)' /\ EnMDJ(d)')
      BY <1>9, <2>1
    <2>3. \A d \in CPUs : ~Transmite(d)
      BY <1>8, <1>9, <2>2 DEF Transmite
    <2>4. \A d \in CPUs : Transmite(d)' <=> d = c /\ abre
      BY <1>8, <1>9, <2>3
    <2>5. abre => EnResultado = {}
      <3>1. abre => \A d \in CPUs : d # c => ~EnMDJ(d)'
        BY <1>9, <2>1
      <3>2. abre => \A d \in CPUs : d # c => hilo[d].paso # "resultado"
        BY <1>7, <3>1 DEF EnMDJ
      <3> QED
        BY <1>1, <3>2 DEF EnResultado
    <2> QED
      BY <1>2, <2>3, <2>4, <2>5 DEF ResultadosMDJ
  <1>20. ASSUME EnResultado = {}, CrearYBorrar
         PROVE  aMDJ = <<>> /\ deMDJ = <<>> /\ aMDJ' = <<p>>
    <2>1. Len(aMDJ) + Len(deMDJ) = 0 /\ Len(aMDJ) \in Nat /\ Len(deMDJ) \in Nat
      BY <1>2, <1>20, FS_EmptySet, LenProperties DEF CrearYBorrar
    <2>2. aMDJ = <<>> /\ deMDJ = <<>>
      BY <1>2, <2>1, EmptySeq
    <2> QED
      BY <1>1, <2>2
  <1>21. ASSUME Sigue' PROVE TransmisionMDJ' /\ ResultadosMDJ' /\ Cuenta'
    <2>1. CASE abre
      <3>1. aMDJ' = <<p>> /\ deMDJ = <<>> /\ deMDJ' = <<>>
        BY <1>1, <1>19, <1>20, <1>21, <2>1
      <3>2. TransmisionMDJ'
        BY <1>5, <1>6, <1>19, <1>21, <2>1, <3>1 DEF TransmisionMDJ
      <3>3. ResultadosMDJ'
        BY <1>19, <1>21, <2>1 DEF ResultadosMDJ
      <3>4. EnSocket = {} /\ EnSocket' = {}
        BY <1>19, <1>21, <2>1, <3>1, SinElementos DEF EnSocket
      <3> QED
        BY <1>1, <1>2, <1>18, <3>2, <3>3, <3>4 DEF Cuenta, Exitos, Dichos
    <2>2. CASE ~abre
      <3>1. CrearYBorrar /\ (\A d \in CPUs : ~Transmite(d)) /\ \A d \in CPUs : ~Transmite(d)'
        BY <1>19, <1>21, <2>2
      <3>2. EnResultado' = EnResultado \cup {c} /\ c \notin EnResultado
        BY <1>1, <1>5, <1>6, <1>7, <2>2 DEF EnResultado
      <3>3. Cardinality(EnResultado') = Cardinality(EnResultado) + 1
        BY <1>2, <3>2, ConjuntosFinitos, FS_AddElement
      <3>4. \A k \in DOMAIN aMDJ' : \/ k \in DOMAIN aMDJ /\ aMDJ'[k] = aMDJ[k] /\ aMDJ'[k].id # p.id
                                    \/ k = Len(aMDJ) + 1 /\ aMDJ'[k] = p
        BY <1>11, <1>15, <3>1 DEF CrearYBorrar
      <3>5. Len(aMDJ') + Len(deMDJ') = Cardinality(EnResultado')
        <4>1. Len(aMDJ) + Len(deMDJ) = Cardinality(EnResultado) /\ Len(deMDJ) \in Nat
          BY <1>2, <3>1, LenProperties DEF CrearYBorrar
        <4> QED
          BY <1>1, <1>11, <3>3, <4>1
      <3>6. \A k \in DOMAIN aMDJ' : aMDJ'[k].tipoOperacion # 1 /\ aMDJ'[k].id \in IdsHilo' \cup IdsSAFA'
        BY <1>14, <2>2, <3>1, <3>4 DEF CrearYBorrar
      <3>7. \A k, m \in DOMAIN aMDJ' : k # m => aMDJ'[k].id # aMDJ'[m].id
        BY <3>1, <3>4 DEF CrearYBorrar
      <3>8. \A k \in DOMAIN aMDJ' : \A d \in dados' : d.id # aMDJ'[k].id
        BY <1>1, <1>15, <3>1, <3>4 DEF CrearYBorrar
      <3>9. \A d \in EnResultado' : ~hilo'[d].solapado => Propio(d)'
        <4> SUFFICES ASSUME NEW d \in CPUs, d \in EnResultado', ~hilo'[d].solapado PROVE Propio(d)'
          BY DEF EnResultado
        <4>1. d = c
          BY <1>7, <2>2, <3>2 DEF EnResultado
        <4>2. otros = {}
          BY <1>5, <1>6, <2>2, <4>1
        <4>3. EnResultado = {}
          BY <3>2, <4>2 DEF EnResultado
        <4>4. aMDJ' = <<p>> /\ deMDJ' = <<>>
          BY <1>1, <1>20, <3>1, <4>3
        <4> QED
          BY <1>5, <1>6, <4>1, <4>4 DEF Propio
      <3>10. \A k \in DOMAIN deMDJ' : deMDJ'[k] \in {Entero(0), Entero(1)}
        BY <1>1, <3>1 DEF CrearYBorrar
      <3>11. CrearYBorrar'
        BY <3>5, <3>6, <3>7, <3>8, <3>9, <3>10 DEF CrearYBorrar
      <3>12. Cuenta'
        BY <1>1, <1>2, <1>18, <3>1, MarcoCuenta
      <3> QED
        BY <3>1, <3>11, <3>12 DEF TransmisionMDJ, ResultadosMDJ
    <2> QED
      BY <2>1, <2>2
  <1>22. ArchivoEntero'
    BY <1>1 DEF Invariante, ArchivoEntero
  <1>23. ResultadoPropio'
    <2>1. ResultadoPropio /\ \A d \in CPUs : hilo'[d].paso = "contestar" => hilo'[d] = hilo[d]
      BY <1>5, <1>6, <1>7 DEF Invariante
    <2> QED
      BY <1>1, <2>1, MarcoPropio
  <1> QED
    BY <1>2, <1>12, <1>13, <1>16, <1>17, <1>21, <1>22, <1>23 DEF Invariante

--------------------------------------------------------------------------------
(* The steps of MDJ *)

(* MDJ moves no thread of DAM and does not touch the socket of FM9. *)
LEMMA MarcoDeMDJ ==
    ASSUME Invariante, Sigue,
           UNCHANGED <<pedidos, hilo, aFM9, deFM9, aSAFA, hiloFM9, segmentos>>
    PROVE  /\ \A c \in CPUs : HiloCoherente(c)' /\ (Transmite(c)' <=> Transmite(c))
           /\ EnResultado' = EnResultado /\ PorContestar' = PorContestar
           /\ IdsHilo' = IdsHilo /\ IdsSAFA' = IdsSAFA /\ Dichos' = Dichos
           /\ TransmisionFM9' /\ ArchivoEntero'
  <1>1. \A c \in CPUs : EnAbrir(c)' <=> EnAbrir(c)
    BY DEF EnAbrir
  <1>2. \A c \in CPUs : HiloCoherente(c)'
    BY <1>1 DEF Invariante, HiloCoherente
  <1>3. \A c \in CPUs : Transmite(c)' <=> Transmite(c)
    BY DEF Transmite, EnAbrir, EnMDJ
  <1>4. TransmisionFM9'
    BY MarcoFM9 DEF Invariante
  <1>5. ArchivoEntero'
    BY DEF Invariante, ArchivoEntero
  <1> QED
    BY <1>2, <1>3, <1>4, <1>5 DEF EnResultado, PorContestar, IdsHilo, IdsSAFA, Dichos

(* What MDJ has to read: an abrir, alone, or requests to crear and borrar. *)
LEMMA LoQueRecibeMDJ ==
    ASSUME Invariante, Sigue, aMDJ # <<>>
    PROVE  /\ Head(aMDJ).tipoOperacion = 1 =>
                 \E c \in CPUs : /\ Transmite(c) /\ hilo[c].paso = "flag"
                                 /\ aMDJ = <<hilo[c].paquete>> /\ deMDJ = <<>>
           /\ Head(aMDJ).tipoOperacion # 1 => CrearYBorrar /\ \A c \in CPUs : ~Transmite(c)
  <1>1. TransmisionMDJ /\ ResultadosMDJ /\ TypeOK /\ \A c \in CPUs : HiloCoherente(c)
    BY DEF Invariante
  <1>2. \A c \in CPUs : Transmite(c) =>
           hilo[c].paso = "flag" /\ aMDJ = <<hilo[c].paquete>> /\ deMDJ = <<>>
    BY <1>1 DEF TransmisionMDJ
  <1>3. \A c \in CPUs : Transmite(c) => Head(aMDJ).tipoOperacion = 1
    BY <1>1, <1>2 DEF HiloCoherente, Transmite
  <1>4. (\A c \in CPUs : ~Transmite(c)) => CrearYBorrar
    BY <1>1 DEF ResultadosMDJ
  <1>5. CrearYBorrar => Head(aMDJ).tipoOperacion # 1
    <2>1. 1 \in DOMAIN aMDJ /\ Head(aMDJ) = aMDJ[1]
      BY <1>1, LenProperties, EmptySeq DEF TypeOK
    <2> QED
      BY <2>1 DEF CrearYBorrar
  <1> QED
    BY <1>2, <1>3, <1>4, <1>5

LEMMA PasoMDJAbrir ==
    ASSUME Invariante, MDJAbrir
    PROVE  Invariante'
  <1>1. Sigue /\ aMDJ # <<>> /\ Head(aMDJ).tipoOperacion = 1 /\ aMDJ' = Tail(aMDJ)
        /\ UNCHANGED <<pedidos, hilo, aFM9, deFM9, aSAFA, archivos, dados, hiloFM9, segmentos>>
    BY DEF MDJAbrir, Recibe, vFM9
  <1>2. TypeOK /\ (\A d \in CPUs : HiloCoherente(d)) /\ Cuenta /\ MDJVivo /\ Identificadores /\ ResultadoPropio
    BY <1>1 DEF Invariante, Sigue
  <1>3. PICK c \in CPUs : Transmite(c) /\ hilo[c].paso = "flag" /\ aMDJ = <<hilo[c].paquete>> /\ deMDJ = <<>>
    BY <1>1, LoQueRecibeMDJ
  <1> DEFINE f == hilo[c].paquete.archivo
             e == Envio(f)
  <1>4. aMDJ' = <<>> /\ f \in Nombres /\ Head(aMDJ) = hilo[c].paquete
    BY <1>1, <1>2, <1>3, TipoDeHilo
  <1>5. e \in Seq(Mensajes)
    BY <1>4, EnvioPorMensajes
  <1>6. /\ \A d \in CPUs : HiloCoherente(d)' /\ (Transmite(d)' <=> Transmite(d))
        /\ EnResultado' = EnResultado /\ PorContestar' = PorContestar
        /\ IdsHilo' = IdsHilo /\ IdsSAFA' = IdsSAFA /\ Dichos' = Dichos
        /\ TransmisionFM9' /\ ArchivoEntero'
    BY <1>1, MarcoDeMDJ
  <1>7. Identificadores' /\ ResultadoPropio'
    BY <1>1, <1>2, <1>6 DEF Identificadores, ResultadoPropio
  <1>8. CASE MDJVivo' = FALSE /\ deMDJ' = deMDJ
    <2>1. TypeOK'
      BY <1>1, <1>2, <1>4, <1>8, EmptySeq DEF TypeOK
    <2>2. ~Sigue'
      BY <1>8 DEF Sigue
    <2>3. hilo'[c].paso = "flag"
      BY <1>1, <1>3
    <2> QED
      BY <1>6, <1>7, <2>1, <2>2, <2>3 DEF Invariante
  <1>9. CASE deMDJ' = deMDJ \o Envio(Head(aMDJ).archivo) /\ MDJVivo' = MDJVivo
    <2>1. deMDJ' = e
      BY <1>3, <1>4, <1>5, <1>9, ConcatEmptySeq
    <2>2. TypeOK'
      BY <1>1, <1>2, <1>4, <1>5, <1>9, <2>1, EmptySeq DEF TypeOK
    <2>3. deMDJ' = SubSeq(e, Leidos(hilo[c]) + 1, Len(e))
      <3>1. SubSeq(e, 1, Len(e)) = e
        BY <1>5, SubSeqFull
      <3>2. Leidos(hilo[c]) = 0
        BY <1>3 DEF Leidos
      <3> QED
        BY <2>1, <3>1, <3>2
    <2>4. \A d \in CPUs : Transmite(d) => d = c
      BY <1>1, <1>3, SinMezcla DEF Transmite
    <2>5. TransmisionMDJ'
      BY <1>1, <1>4, <1>6, <2>3, <2>4 DEF TransmisionMDJ
    <2>6. ResultadosMDJ'
      BY <1>3, <1>6 DEF ResultadosMDJ
    <2>7. EnSocket = {} /\ EnSocket' = {}
      BY <1>3, <1>6 DEF EnSocket
    <2>8. Cuenta'
      BY <1>1, <1>2, <1>6, <2>7 DEF Cuenta, Exitos
    <2> QED
      BY <1>2, <1>6, <1>7, <1>9, <2>2, <2>5, <2>6, <2>8 DEF Invariante
  <1> QED
    BY <1>8, <1>9 DEF MDJAbrir

LEMMA PasoMDJResponde ==
    ASSUME Invariante, NEW op \in {8, 9}, NEW r \in {0, 1}, MDJResponde(op, r), archivos' \subseteq Nombres
    PROVE  Invariante'
  <1> DEFINE p == Head(aMDJ)
             x == [id |-> p.id, resultado |-> r]
             n == Len(aMDJ)
             m == Len(deMDJ)
  <1>1. Sigue /\ aMDJ # <<>> /\ p.tipoOperacion # 1 /\ aMDJ' = Tail(aMDJ)
        /\ deMDJ' = Append(deMDJ, Entero(r)) /\ dados' = dados \cup {x}
        /\ UNCHANGED <<pedidos, hilo, aFM9, deFM9, aSAFA, MDJVivo, hiloFM9, segmentos>>
    BY DEF MDJResponde, Recibe, vFM9
  <1>2. TypeOK /\ (\A d \in CPUs : HiloCoherente(d)) /\ Cuenta /\ MDJVivo' /\ Identificadores /\ ResultadoPropio
        /\ aMDJ \in Seq(Paquetes) /\ deMDJ \in Seq(Mensajes)
    BY <1>1 DEF Invariante, Sigue, TypeOK
  <1>3. CrearYBorrar /\ \A d \in CPUs : ~Transmite(d)
    BY <1>1, LoQueRecibeMDJ
  <1>4. /\ \A d \in CPUs : HiloCoherente(d)' /\ (Transmite(d)' <=> Transmite(d))
        /\ EnResultado' = EnResultado /\ PorContestar' = PorContestar
        /\ IdsHilo' = IdsHilo /\ IdsSAFA' = IdsSAFA /\ Dichos' = Dichos
        /\ TransmisionFM9' /\ ArchivoEntero'
    BY <1>1, MarcoDeMDJ
  <1>5. /\ n \in Nat \ {0} /\ DOMAIN aMDJ = 1 .. n /\ p = aMDJ[1] /\ p \in Paquetes
        /\ aMDJ' \in Seq(Paquetes) /\ Len(aMDJ') = n - 1 /\ DOMAIN aMDJ' = 1 .. n - 1
        /\ \A k \in 1 .. n - 1 : aMDJ'[k] = aMDJ[k + 1]
    <2>1. n \in Nat \ {0} /\ DOMAIN aMDJ = 1 .. n /\ p = aMDJ[1] /\ p \in Paquetes
      BY <1>1, <1>2, HeadTailProperties, LenProperties, EmptySeq
    <2>2. /\ Tail(aMDJ) \in Seq(Paquetes) /\ Len(Tail(aMDJ)) = n - 1
          /\ \A k \in 1 .. Len(Tail(aMDJ)) : Tail(aMDJ)[k] = aMDJ[k + 1]
      BY <1>1, <1>2, HeadTailProperties
    <2>3. DOMAIN Tail(aMDJ) = 1 .. Len(Tail(aMDJ))
      BY <2>2, LenProperties
    <2> QED
      BY <1>1, <2>1, <2>2, <2>3
  <1>6. Entero(r) \in Mensajes /\ Entero(r) \in {Entero(0), Entero(1)}
    BY DEF Entero, Mensajes
  <1>7. /\ m \in Nat /\ DOMAIN deMDJ = 1 .. m
        /\ deMDJ' \in Seq(Mensajes) /\ Len(deMDJ') = m + 1 /\ DOMAIN deMDJ' = 1 .. m + 1
        /\ (\A k \in 1 .. m : deMDJ'[k] = deMDJ[k]) /\ deMDJ'[m + 1] = Entero(r)
    BY <1>1, <1>2, <1>6, AppendProperties, LenProperties
  <1>8. x \in [id : Ids, resultado : {0, 1}] /\ x.id = p.id /\ x.resultado = r
    BY <1>5 DEF Paquetes
  <1>9. 1 \in DOMAIN aMDJ /\ p.id \in IdsHilo \cup IdsSAFA /\ \A d \in dados : d.id # p.id
    BY <1>3, <1>5 DEF CrearYBorrar
  <1>10. \A k \in DOMAIN aMDJ' : k + 1 \in DOMAIN aMDJ /\ aMDJ'[k] = aMDJ[k + 1] /\ k + 1 # 1 /\ k \in Int
    BY <1>5
  <1> HIDE DEF x, p, n, m
  <1>11. TypeOK'
    BY <1>1, <1>2, <1>5, <1>7, <1>8 DEF TypeOK
  <1>12. Identificadores'
    BY <1>1, <1>2, <1>4, <1>8, <1>9 DEF Identificadores
  <1>13. CrearYBorrar'
    <2>1. Len(aMDJ') + Len(deMDJ') = Cardinality(EnResultado')
      <3>1. n + m = Cardinality(EnResultado)
        BY <1>3 DEF CrearYBorrar, n, m
      <3> QED
        BY <1>4, <1>5, <1>7, <3>1
    <2>2. \A k \in DOMAIN aMDJ' : aMDJ'[k].tipoOperacion # 1 /\ aMDJ'[k].id \in IdsHilo' \cup IdsSAFA'
      BY <1>3, <1>4, <1>10 DEF CrearYBorrar
    <2>3. \A k, i \in DOMAIN aMDJ' : k # i => aMDJ'[k].id # aMDJ'[i].id
      <3>1. \A k, i \in DOMAIN aMDJ' : k # i => k + 1 # i + 1
        BY <1>10
      <3> QED
        BY <1>3, <1>10, <3>1 DEF CrearYBorrar
    <2>4. \A k \in DOMAIN aMDJ' : \A d \in dados' : d.id # aMDJ'[k].id
      <3>1. \A k \in DOMAIN aMDJ' : aMDJ'[k].id # p.id
        <4>1. \A k \in DOMAIN aMDJ : k # 1 => aMDJ[k].id # aMDJ[1].id
          BY <1>3, <1>9 DEF CrearYBorrar
        <4>2. aMDJ[1] = p
          BY <1>5
        <4> QED
          BY <1>10, <4>1, <4>2
      <3> QED
        BY <1>1, <1>3, <1>8, <1>10, <3>1 DEF CrearYBorrar
    <2>5. \A k \in DOMAIN deMDJ' : deMDJ'[k] \in {Entero(0), Entero(1)}
      <3>1. \A k \in DOMAIN deMDJ' : k \in DOMAIN deMDJ \/ k = m + 1
        BY <1>7
      <3> QED
        BY <1>3, <1>6, <1>7, <3>1 DEF CrearYBorrar
    <2>6. \A d \in EnResultado' : ~hilo'[d].solapado => Propio(d)'
      <3> SUFFICES ASSUME NEW d \in EnResultado, ~hilo[d].solapado PROVE Propio(d)'
        BY <1>1, <1>4
      <3>1. aMDJ = <<hilo[d].paquete>> /\ deMDJ = <<>>
        BY <1>1, <1>3 DEF CrearYBorrar, Propio
      <3>2. p = hilo[d].paquete /\ aMDJ' = <<>> /\ deMDJ' = <<Entero(r)>>
        BY <1>1, <3>1 DEF p
      <3>3. [id |-> hilo'[d].paquete.id, resultado |-> r] \in dados'
        BY <1>1, <3>2 DEF x
      <3> QED
        BY <3>2, <3>3 DEF Propio
    <2> QED
      BY <2>1, <2>2, <2>3, <2>4, <2>5, <2>6 DEF CrearYBorrar
  <1>14. TransmisionMDJ' /\ ResultadosMDJ'
    BY <1>3, <1>4, <1>13 DEF TransmisionMDJ, ResultadosMDJ
  <1>15. Cuenta'
    <2> DEFINE V == {Entero(1)}
    <2>1. EnSocket = Lugares(deMDJ, V) /\ EnSocket' = Lugares(deMDJ', V)
      BY <1>3, <1>4 DEF EnSocket, Lugares
    <2>2. Entero(r) \in V <=> r = 1
      BY DEF Entero
    <2> HIDE DEF V
    <2>3. Cardinality(Lugares(Append(deMDJ, Entero(r)), V)) =
          Cardinality(Lugares(deMDJ, V)) + IF Entero(r) \in V THEN 1 ELSE 0
      BY <1>2, <1>6, PosicionesAppend
    <2>4. Cardinality(EnSocket') = Cardinality(EnSocket) + IF r = 1 THEN 1 ELSE 0
      BY <1>1, <2>1, <2>2, <2>3
    <2>5. Cardinality(Exitos') = Cardinality(Exitos) + IF r = 1 THEN 1 ELSE 0
      <3>1. IsFiniteSet(Exitos) /\ Cardinality(Exitos) \in Nat /\ x \notin Exitos
        BY <1>2, <1>8, <1>9, ConjuntosFinitos DEF Exitos
      <3>2. CASE r = 1
        <4>1. Exitos' = Exitos \cup {x}
          BY <1>1, <1>8, <3>2 DEF Exitos
        <4>2. Cardinality(Exitos \cup {x}) = Cardinality(Exitos) + 1
          BY <3>1, FS_AddElement
        <4> QED
          BY <3>2, <4>1, <4>2
      <3>3. CASE r # 1
        <4>1. Exitos' = Exitos
          BY <1>1, <1>8, <3>3 DEF Exitos
        <4>2. Cardinality(Exitos') = Cardinality(Exitos)
          BY <4>1
        <4> QED
          BY <3>1, <3>3, <4>2
      <3> QED
        BY <3>2, <3>3
    <2>6. Cardinality(EnSocket) \in Nat /\ Cardinality(PorContestar) \in Nat /\ Cardinality(Exitos) \in Nat
      BY <1>2, <2>1, PosicionesFinitas, ConjuntosFinitos
    <2>7. Cardinality(Dichos) \in Nat
      <3>1. aSAFA \in Seq([tipoOperacion : {1, 8, 9}, resultado : {0, 1}, id : Ids])
        BY <1>2 DEF TypeOK
      <3>2. Dichos \in SUBSET (1 .. Len(aSAFA)) /\ Len(aSAFA) \in Nat
        BY <3>1, LenProperties DEF Dichos
      <3>3. IsFiniteSet(1 .. Len(aSAFA))
        BY <3>2, FS_Interval
      <3>4. IsFiniteSet(Dichos)
        BY <3>2, <3>3, FS_Subset
      <3> QED
        BY <3>4, FS_CardinalityType
    <2>8. Cardinality(Exitos) = Cardinality(EnSocket) + Cardinality(PorContestar) + Cardinality(Dichos)
      BY <1>2 DEF Cuenta
    <2>9. Cardinality(Exitos') = Cardinality(EnSocket') + Cardinality(PorContestar') + Cardinality(Dichos')
      BY <1>4, <2>4, <2>5, <2>6, <2>7, <2>8
    <2> QED
      BY <2>9 DEF Cuenta
  <1>16. ResultadoPropio'
    BY <1>1, <1>2, MarcoPropio
  <1> QED
    BY <1>2, <1>4, <1>11, <1>12, <1>14, <1>15, <1>16 DEF Invariante

--------------------------------------------------------------------------------
(* The steps of FM9 *)

LEMMA PasoDeFM9 ==
    ASSUME Invariante, Sigue,
           UNCHANGED <<pedidos, hilo, aMDJ, deMDJ, aSAFA, archivos, MDJVivo, dados>>,
           aFM9' \in Seq(Paquetes \cup Mensajes), deFM9' \in Seq(Paquetes), hiloFM9' \in HilosFM9,
           segmentos \subseteq segmentos',
           segmentos' \subseteq [id : Ids, archivo : Nombres, texto : Textos],
           TransmisionFM9', ArchivoEntero'
    PROVE  Invariante'
  <1>1. TypeOK /\ (\A d \in CPUs : HiloCoherente(d)) /\ TransmisionMDJ /\ ResultadosMDJ /\ Cuenta /\ MDJVivo'
        /\ Identificadores /\ ResultadoPropio
    BY DEF Invariante, Sigue
  <1>2. TypeOK'
    BY <1>1 DEF TypeOK
  <1>3. \A c \in CPUs : (EnAbrir(c)' <=> EnAbrir(c)) /\ (Transmite(c)' <=> Transmite(c))
    BY DEF EnAbrir, EnMDJ, Transmite
  <1>4. \A c \in CPUs : HiloCoherente(c)'
    BY <1>1, <1>3 DEF HiloCoherente
  <1>5. Identificadores' /\ IdsHilo' = IdsHilo /\ IdsSAFA' = IdsSAFA
    BY <1>1, MarcoIds
  <1>6. EnResultado' = EnResultado /\ PorContestar' = PorContestar
    BY DEF EnResultado, PorContestar
  <1>7. TransmisionMDJ' /\ ResultadosMDJ'
    BY <1>1, <1>3, <1>5, <1>6, MarcoMDJ
  <1>8. Cuenta'
    BY <1>1, <1>3, <1>6, MarcoCuenta
  <1>9. ResultadoPropio'
    BY <1>1, MarcoPropio
  <1> QED
    BY <1>1, <1>2, <1>4, <1>5, <1>7, <1>8, <1>9 DEF Invariante

(* FM9 hears only of the abrir of the one thread that copies a file. *)
LEMMA QuienCopia ==
    ASSUME Invariante, Sigue, aFM9 # <<>> \/ hiloFM9.paso # "paquete"
    PROVE  \E c \in CPUs :
              LET p == hilo[c].paquete
                  n == Partes(p.archivo)
              IN /\ hilo[c].paso = "copia" /\ Copia(c) /\ \A d \in CPUs : d # c => hilo[d].paso # "copia"
                 /\ p \in Paquetes /\ p.archivo \in Nombres /\ p.tipoOperacion = 1
                 /\ n \in Nat /\ hilo[c].partes \in 0 .. n
                 /\ Leidos(hilo[c]) = Cuantos(n, hilo[c].partes)
                 /\ Leidos(hilo[c]) \in 2 .. Cuantos(n, 0) /\ Len(AFM9(p)) = Cuantos(n, 0)
                 /\ AFM9(p) \in Seq(Paquetes \cup Mensajes) /\ Cuantos(n, 0) \in Nat
  <1>1. TypeOK /\ (\A d \in CPUs : HiloCoherente(d)) /\ TransmisionFM9
    BY DEF Invariante
  <1>2. PICK c \in CPUs : hilo[c].paso = "copia"
    BY <1>1 DEF TransmisionFM9
  <1> DEFINE p == hilo[c].paquete
             n == Partes(p.archivo)
  <1>3. Copia(c)
    BY <1>1, <1>2 DEF TransmisionFM9
  <1>4. \A d \in CPUs : d # c => hilo[d].paso # "copia"
    BY <1>2, SinMezcla, PasosDelHilo
  <1>5. p \in Paquetes /\ p.archivo \in Nombres /\ n \in Nat /\ hilo[c].partes \in 0 .. n /\ p.tipoOperacion = 1
    BY <1>1, <1>2, TipoDeHilo, PartesDeArchivo, PasosDelHilo DEF HiloCoherente
  <1>6. Leidos(hilo[c]) = Cuantos(n, hilo[c].partes)
    BY <1>2 DEF Leidos
  <1>7. Leidos(hilo[c]) \in 2 .. Cuantos(n, 0) /\ Cuantos(n, 0) \in Nat
    BY <1>5, <1>6 DEF Cuantos
  <1>8. Len(AFM9(p)) = Cuantos(n, 0) /\ AFM9(p) \in Seq(Paquetes \cup Mensajes)
    BY <1>5, AFM9PorMensajes, EnvioPorMensajes
  <1> QED
    BY <1>2, <1>3, <1>4, <1>5, <1>6, <1>7, <1>8

(* FM9 reads the first of what is left of a transmission. *)
LEMMA CabezaAFM9 ==
    ASSUME NEW S, NEW a \in Seq(S), NEW j \in Nat, NEW k \in Nat, k <= Len(a), SubSeq(a, j + 1, k) # <<>>
    PROVE  /\ j + 1 <= k /\ Len(SubSeq(a, j + 1, k)) = k - j
           /\ Head(SubSeq(a, j + 1, k)) = a[j + 1]
           /\ Tail(SubSeq(a, j + 1, k)) = SubSeq(a, j + 2, k) /\ SubSeq(a, j + 2, k) \in Seq(S)
  <1>1. Len(a) \in Nat
    BY LenProperties
  <1>2. j + 1 <= k
    <2>1. k < j + 1 => SubSeq(a, j + 1, k) = <<>>
      BY SubSeqEmpty
    <2> QED
      BY <2>1
  <1>3. j + 1 \in 1 .. Len(a) /\ k \in j + 1 .. Len(a)
    BY <1>1, <1>2
  <1>4. Head(SubSeq(a, j + 1, k)) = a[j + 1] /\ Tail(SubSeq(a, j + 1, k)) = SubSeq(a, j + 1 + 1, k)
    BY <1>3, HeadTailOfSubSeq
  <1>5. j + 1 + 1 = j + 2
    OBVIOUS
  <1>6. SubSeq(a, j + 2, k) \in Seq(S)
    BY ElementosDeSubSeq
  <1>7. Len(SubSeq(a, j + 1, k)) = k - j
    <2> DEFINE b == j + 1
    <2>1. b \in Nat \ {0} /\ b <= k /\ k - b + 1 = k - j
      BY <1>2
    <2> HIDE DEF b
    <2>2. Len(SubSeq(a, b, k)) = IF b <= k THEN k - b + 1 ELSE 0
      BY <2>1, ElementosDeSubSeq
    <2> QED
      BY <2>1, <2>2 DEF b
  <1> QED
    BY <1>2, <1>4, <1>5, <1>6, <1>7

LEMMA UnaCopia ==
    ASSUME NEW c \in CPUs, hilo' = hilo, hilo[c].paso = "copia", Copia(c)',
           \A d \in CPUs : d # c => hilo[d].paso # "copia"
    PROVE  TransmisionFM9'
  BY DEF TransmisionFM9

LEMMA PasoFM9Paquete ==
    ASSUME Invariante, FM9Paquete
    PROVE  Invariante'
  <1>1. Sigue /\ hiloFM9.paso = "paquete" /\ aFM9 # <<>> /\ aFM9' = Tail(aFM9)
        /\ hiloFM9' = [paso |-> "partes", paquete |-> Head(aFM9), partes |-> 0, texto |-> <<>>]
        /\ UNCHANGED <<pedidos, hilo, aMDJ, deMDJ, deFM9, aSAFA, archivos, MDJVivo, dados, segmentos>>
    BY DEF FM9Paquete, vMDJ
  <1>2. TypeOK
    BY DEF Invariante
  <1>3. PICK c \in CPUs :
              LET p == hilo[c].paquete
                  n == Partes(p.archivo)
              IN /\ hilo[c].paso = "copia" /\ Copia(c) /\ \A d \in CPUs : d # c => hilo[d].paso # "copia"
                 /\ p \in Paquetes /\ p.archivo \in Nombres /\ p.tipoOperacion = 1
                 /\ n \in Nat /\ hilo[c].partes \in 0 .. n
                 /\ Leidos(hilo[c]) = Cuantos(n, hilo[c].partes)
                 /\ Leidos(hilo[c]) \in 2 .. Cuantos(n, 0) /\ Len(AFM9(p)) = Cuantos(n, 0)
                 /\ AFM9(p) \in Seq(Paquetes \cup Mensajes) /\ Cuantos(n, 0) \in Nat
    BY <1>1, QuienCopia
  <1> DEFINE p == hilo[c].paquete
             k == Leidos(hilo[c])
             a == AFM9(p)
  <1>4. deFM9 = <<>> /\ aFM9 = SubSeq(a, 1, k)
    BY <1>1, <1>3 DEF Copia
  <1>5. k \in Nat /\ k <= Len(a) /\ a \in Seq(Paquetes \cup Mensajes) /\ a[1] = p
    BY <1>3, AFM9PorMensajes
  <1> HIDE DEF a, k
  <1>6. Head(aFM9) = p /\ Tail(aFM9) = SubSeq(a, 2, k) /\ SubSeq(a, 2, k) \in Seq(Paquetes \cup Mensajes)
    <2>1. SubSeq(a, 0 + 1, k) # <<>> /\ 0 + 1 = 1 /\ 0 + 2 = 2
      BY <1>1, <1>4
    <2>2. /\ Head(SubSeq(a, 0 + 1, k)) = a[0 + 1] /\ Tail(SubSeq(a, 0 + 1, k)) = SubSeq(a, 0 + 2, k)
          /\ SubSeq(a, 0 + 2, k) \in Seq(Paquetes \cup Mensajes)
      BY <1>5, <2>1, CabezaAFM9
    <2> QED
      BY <1>4, <1>5, <2>1, <2>2
  <1>7. hiloFM9' = [paso |-> "partes", paquete |-> p, partes |-> 0, texto |-> <<>>]
    BY <1>1, <1>6
  <1>8. hiloFM9' \in HilosFM9
    BY <1>3, <1>7, EmptySeq DEF HilosFM9, Textos
  <1>9. Copia(c)'
    BY <1>1, <1>4, <1>6, <1>7 DEF Copia, a, k
  <1>10. TransmisionFM9'
    BY <1>1, <1>3, <1>9, UnaCopia
  <1>11. ArchivoEntero'
    BY <1>1 DEF Invariante, ArchivoEntero
  <1> QED
    BY <1>1, <1>2, <1>6, <1>8, <1>10, <1>11, PasoDeFM9 DEF TypeOK

LEMMA PasoFM9Partes ==
    ASSUME Invariante, FM9Partes
    PROVE  Invariante'
  <1>1. Sigue /\ hiloFM9.paso = "partes" /\ aFM9 # <<>> /\ aFM9' = Tail(aFM9)
        /\ hiloFM9' = [hiloFM9 EXCEPT !.paso = "parte", !.partes = Head(aFM9).valor]
        /\ UNCHANGED <<pedidos, hilo, aMDJ, deMDJ, deFM9, aSAFA, archivos, MDJVivo, dados, segmentos>>
    BY DEF FM9Partes, vMDJ
  <1>2. TypeOK
    BY DEF Invariante
  <1>3. PICK c \in CPUs :
              LET p == hilo[c].paquete
                  n == Partes(p.archivo)
              IN /\ hilo[c].paso = "copia" /\ Copia(c) /\ \A d \in CPUs : d # c => hilo[d].paso # "copia"
                 /\ p \in Paquetes /\ p.archivo \in Nombres /\ p.tipoOperacion = 1
                 /\ n \in Nat /\ hilo[c].partes \in 0 .. n
                 /\ Leidos(hilo[c]) = Cuantos(n, hilo[c].partes)
                 /\ Leidos(hilo[c]) \in 2 .. Cuantos(n, 0) /\ Len(AFM9(p)) = Cuantos(n, 0)
                 /\ AFM9(p) \in Seq(Paquetes \cup Mensajes) /\ Cuantos(n, 0) \in Nat
    BY <1>1, QuienCopia
  <1> DEFINE p == hilo[c].paquete
             f == p.archivo
             n == Partes(f)
             k == Leidos(hilo[c])
             a == AFM9(p)
  <1>4. deFM9 = <<>> /\ aFM9 = SubSeq(a, 2, k) /\ hiloFM9.paquete = p /\ hiloFM9.texto = <<>>
    BY <1>1, <1>3 DEF Copia
  <1>5. k \in Nat /\ k <= Len(a) /\ a \in Seq(Paquetes \cup Mensajes) /\ 2 \in 2 .. Len(a)
    BY <1>3
  <1>6. a[2] = Entero(n)
    BY <1>3, <1>5, AFM9PorMensajes, EnvioPorMensajes
  <1> HIDE DEF a, k
  <1>7. Head(aFM9) = Entero(n) /\ Tail(aFM9) = SubSeq(a, 3, k) /\ SubSeq(a, 3, k) \in Seq(Paquetes \cup Mensajes)
    <2>1. SubSeq(a, 1 + 1, k) # <<>> /\ 1 + 1 = 2 /\ 1 + 2 = 3
      BY <1>1, <1>4
    <2>2. /\ Head(SubSeq(a, 1 + 1, k)) = a[1 + 1] /\ Tail(SubSeq(a, 1 + 1, k)) = SubSeq(a, 1 + 2, k)
          /\ SubSeq(a, 1 + 2, k) \in Seq(Paquetes \cup Mensajes)
      BY <1>5, <2>1, CabezaAFM9
    <2> QED
      BY <1>4, <1>6, <2>1, <2>2
  <1>8. hiloFM9 \in HilosFM9
    BY <1>2 DEF TypeOK
  <1>9. /\ hiloFM9'.paso = "parte" /\ hiloFM9'.paquete = p /\ hiloFM9'.partes = n /\ hiloFM9'.texto = <<>>
        /\ hiloFM9' \in HilosFM9
    <2>1. Head(aFM9).valor = n
      BY <1>7 DEF Entero
    <2>2. n \in Nat
      BY <1>3
    <2> HIDE DEF n
    <2> QED
      BY <1>1, <1>4, <1>8, <2>1, <2>2 DEF HilosFM9
  <1>10. Copia(c)'
    <2>1. n \in hilo[c].partes .. n /\ Cuantos(n, n) + 1 = 3
      BY <1>3 DEF Cuantos
    <2>2. Copiado(f, n) = <<>>
      BY <1>3, CopiadoEntero
    <2>3. aFM9' = SubSeq(a, Cuantos(n, n) + 1, k)
      BY <1>1, <1>7, <2>1
    <2> QED
      BY <1>1, <1>4, <1>9, <2>1, <2>2, <2>3 DEF Copia, a, k
  <1>11. TransmisionFM9'
    BY <1>1, <1>3, <1>10, UnaCopia
  <1>12. ArchivoEntero'
    BY <1>1 DEF Invariante, ArchivoEntero
  <1> QED
    BY <1>1, <1>2, <1>7, <1>9, <1>11, <1>12, PasoDeFM9 DEF TypeOK

(* What is left of a stretch of a sequence after its first m elements. *)
LEMMA RestoDeTramo ==
    ASSUME NEW S, NEW a \in Seq(S), NEW j \in Nat, NEW k \in Nat, k <= Len(a), NEW m \in Nat \ {0},
           NEW t, t = SubSeq(a, j + 1, k), Len(t) >= m
    PROVE  /\ j + m <= k /\ Len(t) = k - j /\ \A i \in 1 .. m : t[i] = a[j + i]
           /\ SubSeq(t, m + 1, Len(t)) = SubSeq(a, j + m + 1, k) /\ SubSeq(a, j + m + 1, k) \in Seq(S)
  <1> DEFINE b == j + 1
  <1>1. b \in Nat \ {0} /\ Len(a) \in Nat
    BY LenProperties
  <1>2. t = SubSeq(a, b, k) /\ k - b + 1 = k - j
    BY <1>1
  <1> HIDE DEF b
  <1>3. /\ Len(t) = (IF b <= k THEN k - b + 1 ELSE 0)
        /\ \A i \in 1 .. k - b + 1 : t[i] = a[b + i - 1]
    BY <1>1, <1>2, ElementosDeSubSeq
  <1>4. b <= k /\ Len(t) = k - j /\ j + m <= k
    BY <1>1, <1>2, <1>3
  <1>5. \A i \in 1 .. m : i \in 1 .. k - b + 1 /\ b + i - 1 = j + i
    BY <1>4 DEF b
  <1>6. SubSeq(t, m + 1, Len(t)) = SubSeq(a, j + m + 1, k)
    <2>1. CASE j + m = k
      <3>1. Len(t) < m + 1 /\ k < j + m + 1 /\ Len(t) \in Int
        BY <1>4, <2>1
      <3> QED
        BY <3>1, SubSeqEmpty
    <2>2. CASE j + m < k
      <3>1. b \in 1 .. Len(a) /\ k \in 1 .. Len(a) /\ m + 1 \in 1 .. k - b + 1 /\ k - j \in 1 .. k - b + 1
        BY <1>1, <1>2, <1>4, <2>2 DEF b
      <3>2. SubSeq(SubSeq(a, b, k), m + 1, k - j) = SubSeq(a, b + (m + 1) - 1, b + (k - j) - 1)
        BY <3>1, SubSeqOfSubSeq
      <3>3. b + (m + 1) - 1 = j + m + 1 /\ b + (k - j) - 1 = k
        BY DEF b
      <3> QED
        BY <1>2, <1>4, <3>2, <3>3
    <2> QED
      BY <1>4, <2>1, <2>2
  <1>7. SubSeq(a, j + m + 1, k) \in Seq(S)
    BY ElementosDeSubSeq
  <1> QED
    BY <1>3, <1>4, <1>5, <1>6, <1>7

(* Each part goes after the ones FM9 has put together. *)
LEMMA PasoFM9Parte ==
    ASSUME Invariante, FM9Parte
    PROVE  Invariante'
  <1> DEFINE q == hiloFM9.partes
             m == IF q = 1 THEN 2 ELSE 1
  <1>1. Sigue /\ hiloFM9.paso = "parte" /\ q > 0 /\ Len(aFM9) >= m
        /\ hiloFM9' = [hiloFM9 EXCEPT !.partes = q - 1,
                         !.texto = @ \o SubSeq(aFM9[m].bytes, 1, IF q = 1 THEN aFM9[1].valor ELSE TRANSFER_SIZE)]
        /\ aFM9' = SubSeq(aFM9, m + 1, Len(aFM9))
        /\ UNCHANGED <<pedidos, hilo, aMDJ, deMDJ, deFM9, aSAFA, archivos, MDJVivo, dados, segmentos>>
    BY DEF FM9Parte, vMDJ
  <1>2. TypeOK
    BY DEF Invariante
  <1>3. PICK c \in CPUs :
              LET p == hilo[c].paquete
                  n == Partes(p.archivo)
              IN /\ hilo[c].paso = "copia" /\ Copia(c) /\ \A d \in CPUs : d # c => hilo[d].paso # "copia"
                 /\ p \in Paquetes /\ p.archivo \in Nombres /\ p.tipoOperacion = 1
                 /\ n \in Nat /\ hilo[c].partes \in 0 .. n
                 /\ Leidos(hilo[c]) = Cuantos(n, hilo[c].partes)
                 /\ Leidos(hilo[c]) \in 2 .. Cuantos(n, 0) /\ Len(AFM9(p)) = Cuantos(n, 0)
                 /\ AFM9(p) \in Seq(Paquetes \cup Mensajes) /\ Cuantos(n, 0) \in Nat
    BY <1>1, QuienCopia
  <1> DEFINE p == hilo[c].paquete
             f == p.archivo
             n == Partes(f)
             k == Leidos(hilo[c])
             a == AFM9(p)
             e == Envio(f)
             j == Cuantos(n, q)
             i == n - q
             l == IF i = n - 1 THEN Resto(f) ELSE TRANSFER_SIZE
             t == Trozo(f, i, l)
  <1>4. /\ deFM9 = <<>> /\ hiloFM9.paquete = p /\ q \in hilo[c].partes .. n
        /\ hiloFM9.texto = Copiado(f, q) /\ aFM9 = SubSeq(a, j + 1, k)
    BY <1>1, <1>3 DEF Copia
  <1>5. k \in Nat /\ k <= Len(a) /\ a \in Seq(Paquetes \cup Mensajes)
    BY <1>3
  <1>6. q \in Nat \ {0} /\ n \in Nat /\ q <= n /\ i \in Nat /\ i < n /\ (i = n - 1 <=> q = 1)
    <2>1. hilo[c].partes \in 0 .. n /\ n \in Nat /\ q > 0 /\ q \in hilo[c].partes .. n
      BY <1>1, <1>3, <1>4
    <2> HIDE DEF q, n
    <2> QED
      BY <2>1
  <1>7. j \in Nat /\ j = 2 + n - q /\ Cuantos(n, q - 1) = j + m /\ m \in {1, 2}
    BY <1>6 DEF Cuantos
  <1>8. hilo[c].partes \in 0 .. n /\ k = Cuantos(n, hilo[c].partes)
    BY <1>3
  <1>9. /\ \A x \in 1 .. m : aFM9[x] = a[j + x]
        /\ SubSeq(aFM9, m + 1, Len(aFM9)) = SubSeq(a, j + m + 1, k)
        /\ SubSeq(a, j + m + 1, k) \in Seq(Paquetes \cup Mensajes) /\ j + m <= k
    <2>1. j \in Nat /\ m \in Nat \ {0} /\ Len(aFM9) >= m
      BY <1>1, <1>7
    <2> HIDE DEF j, m, k, a
    <2> QED
      BY <1>4, <1>5, <2>1, RestoDeTramo
  <1>10. /\ t.bytes \in Textos /\ SubSeq(t.bytes, 1, l) = t.bytes
         /\ Copiado(f, n - i) \o t.bytes = Copiado(f, n - i - 1)
    <2>1. f \in Nombres /\ i \in Nat /\ i < Partes(f)
      BY <1>3, <1>6
    <2>2. /\ Trozo(f, i, l) \in [bytes : Textos] /\ SubSeq(Trozo(f, i, l).bytes, 1, l) = Trozo(f, i, l).bytes
          /\ Copiado(f, Partes(f) - i) \o Trozo(f, i, l).bytes = Copiado(f, Partes(f) - i - 1)
      BY <2>1, TrozoEsMensaje
    <2> QED
      BY <2>2
  <1>11. n - i = q /\ n - i - 1 = q - 1
    BY <1>6
  <1>12. aFM9[m] = t /\ (q = 1 => aFM9[1].valor = l)
    <2>1. CASE q = 1
      <3>1. m = 2 /\ j = n + 1 /\ l = Resto(f) /\ i = n - 1 /\ n > 0
        BY <1>6, <1>7, <2>1
      <3>2. n + 2 \in 2 .. Len(a) /\ n + 3 \in 2 .. Len(a)
        BY <1>3, <3>1 DEF Cuantos
      <3>3. a[n + 2] = Entero(Resto(f)) /\ a[n + 3] = Trozo(f, n - 1, Resto(f))
        BY <1>3, <3>1, <3>2, AFM9PorMensajes, EnvioPorMensajes
      <3>4. aFM9[1] = a[n + 2] /\ aFM9[2] = a[n + 3]
        <4>1. 1 \in 1 .. m /\ 2 \in 1 .. m /\ j + 1 = n + 2 /\ j + 2 = n + 3
          BY <3>1, <1>6
        <4> HIDE DEF j, m
        <4> QED
          BY <1>9, <4>1
      <3> QED
        BY <3>1, <3>3, <3>4 DEF Entero
    <2>2. CASE q # 1
      <3>1. m = 1 /\ l = TRANSFER_SIZE /\ i \in 0 .. n - 2 /\ j + 1 = i + 3
        BY <1>6, <1>7, <2>2
      <3>2. i + 3 \in 2 .. Len(a)
        BY <1>3, <1>6, <3>1 DEF Cuantos
      <3>3. e[i + 3] = Trozo(f, i, TRANSFER_SIZE)
        BY <1>3, <3>1, EnvioPorMensajes
      <3>4. a[i + 3] = e[i + 3]
        BY <1>3, <3>2, AFM9PorMensajes
      <3>5. aFM9[1] = a[i + 3]
        <4>1. 1 \in 1 .. m
          BY <3>1
        <4> HIDE DEF j, m, i
        <4> QED
          BY <1>9, <4>1, <3>1
      <3> QED
        BY <2>2, <3>1, <3>3, <3>4, <3>5
    <2> QED
      BY <2>1, <2>2
  <1>13. SubSeq(aFM9[m].bytes, 1, IF q = 1 THEN aFM9[1].valor ELSE TRANSFER_SIZE) = t.bytes
    <2>1. (IF q = 1 THEN aFM9[1].valor ELSE TRANSFER_SIZE) = l
      BY <1>6, <1>12
    <2> HIDE DEF l, t, m
    <2> QED
      BY <1>10, <1>12, <2>1
  <1>14. hiloFM9 \in HilosFM9
    BY <1>2 DEF TypeOK
  <1>15. Copiado(f, q) \o t.bytes = Copiado(f, q - 1) /\ Copiado(f, q) \o t.bytes \in Textos
    <2>1. Copiado(f, q) \o t.bytes = Copiado(f, q - 1)
      BY <1>10, <1>11
    <2>2. Copiado(f, q) \in Textos
      BY <1>4, <1>14 DEF HilosFM9
    <2> HIDE DEF t
    <2> QED
      BY <1>10, <2>1, <2>2, ConcatProperties DEF Textos
  <1>16. hilo[c].partes <= q - 1
    <2>1. n \in Nat /\ q \in Nat \ {0} /\ hilo[c].partes \in 0 .. n /\ q <= n
      BY <1>6, <1>8
    <2>2. 2 + n - q + 1 <= Cuantos(n, hilo[c].partes)
      BY <1>7, <1>8, <1>9
    <2> HIDE DEF q, n
    <2>3. CASE hilo[c].partes = 0
      BY <2>1, <2>3
    <2>4. CASE hilo[c].partes # 0
      <3>1. 2 + n - q + 1 <= 2 + n - hilo[c].partes
        BY <2>2, <2>4 DEF Cuantos
      <3> QED
        BY <2>1, <3>1
    <2> QED
      BY <2>3, <2>4
  <1> HIDE DEF t, l, i, j, m, a, k, e
  <1>17. /\ hiloFM9'.paso = "parte" /\ hiloFM9'.paquete = p /\ hiloFM9'.partes = q - 1
         /\ hiloFM9'.texto = Copiado(f, q - 1) /\ hiloFM9' \in HilosFM9
    <2> DEFINE u == Copiado(f, q) \o t.bytes
    <2>1. hiloFM9' = [hiloFM9 EXCEPT !.partes = q - 1, !.texto = u]
      BY <1>1, <1>4, <1>13, <1>14 DEF HilosFM9
    <2>2. u \in Textos /\ u = Copiado(f, q - 1) /\ q - 1 \in Nat
      BY <1>6, <1>15
    <2> HIDE DEF u
    <2> QED
      BY <1>1, <1>4, <1>14, <2>1, <2>2 DEF HilosFM9
  <1>18. Copia(c)'
    <2>1. q - 1 \in hilo[c].partes .. n
      BY <1>3, <1>6, <1>16
    <2>2. aFM9' = SubSeq(a, Cuantos(n, q - 1) + 1, k)
      BY <1>1, <1>7, <1>9
    <2> HIDE DEF q
    <2> QED
      BY <1>1, <1>4, <1>17, <2>1, <2>2 DEF Copia, a, k
  <1>19. TransmisionFM9'
    BY <1>1, <1>3, <1>18, UnaCopia
  <1>20. ArchivoEntero'
    BY <1>1 DEF Invariante, ArchivoEntero
  <1>21. aFM9' \in Seq(Paquetes \cup Mensajes)
    BY <1>1, <1>9
  <1> QED
    BY <1>1, <1>2, <1>17, <1>19, <1>20, <1>21, PasoDeFM9 DEF TypeOK

LEMMA PasoFM9Guardar ==
    ASSUME Invariante, FM9Guardar
    PROVE  Invariante'
  <1>1. Sigue /\ hiloFM9.paso = "parte" /\ hiloFM9.partes = 0
        /\ hiloFM9' = [paso |-> "paquete", paquete |-> Nada, partes |-> 0, texto |-> <<>>]
        /\ UNCHANGED <<pedidos, hilo, aMDJ, deMDJ, aFM9, aSAFA, archivos, MDJVivo, dados>>
    BY DEF FM9Guardar, vMDJ
  <1>2. PICK r \in {0, 1} :
           /\ deFM9' = Append(deFM9, [hiloFM9.paquete EXCEPT !.resultado = r])
           /\ segmentos' = IF r = 0 THEN segmentos
                           ELSE segmentos \cup {[id |-> hiloFM9.paquete.id, archivo |-> hiloFM9.paquete.archivo,
                                                 texto |-> hiloFM9.texto]}
    BY DEF FM9Guardar, FM9Contesta
  <1>3. TypeOK /\ ArchivoEntero
    BY DEF Invariante
  <1>4. PICK c \in CPUs :
              LET p == hilo[c].paquete
                  n == Partes(p.archivo)
              IN /\ hilo[c].paso = "copia" /\ Copia(c) /\ \A d \in CPUs : d # c => hilo[d].paso # "copia"
                 /\ p \in Paquetes /\ p.archivo \in Nombres /\ p.tipoOperacion = 1
                 /\ n \in Nat /\ hilo[c].partes \in 0 .. n
                 /\ Leidos(hilo[c]) = Cuantos(n, hilo[c].partes)
                 /\ Leidos(hilo[c]) \in 2 .. Cuantos(n, 0) /\ Len(AFM9(p)) = Cuantos(n, 0)
                 /\ AFM9(p) \in Seq(Paquetes \cup Mensajes) /\ Cuantos(n, 0) \in Nat
    BY <1>1, QuienCopia
  <1> DEFINE p == hilo[c].paquete
             f == p.archivo
             n == Partes(f)
             x == [p EXCEPT !.resultado = r]
             s == [id |-> p.id, archivo |-> f, texto |-> Texto(f)]
  <1>5. /\ deFM9 = <<>> /\ hiloFM9.paquete = p /\ hiloFM9.partes \in hilo[c].partes .. n
        /\ hiloFM9.texto = Copiado(f, hiloFM9.partes)
        /\ aFM9 = SubSeq(AFM9(p), Cuantos(n, hiloFM9.partes) + 1, Leidos(hilo[c]))
    BY <1>1, <1>4 DEF Copia
  <1>6. hilo[c].partes = 0 /\ hiloFM9.texto = Texto(f)
    BY <1>1, <1>4, <1>5, CopiadoEntero, SMTT(30)
  <1>7. aFM9 = <<>>
    <2> DEFINE b == Cuantos(n, 0)
    <2>1. aFM9 = SubSeq(AFM9(p), b + 1, b) /\ b \in Nat
      BY <1>1, <1>4, <1>5, <1>6
    <2> HIDE DEF b
    <2> QED
      BY <2>1, SubSeqEmpty
  <1>8. x \in Paquetes /\ x.id = p.id /\ deFM9' = <<x>> /\ deFM9' \in Seq(Paquetes)
    <2>1. x \in Paquetes /\ x.id = p.id
      BY <1>4 DEF Paquetes
    <2>2. deFM9' = <<x>>
      BY <1>2, <1>5
    <2> HIDE DEF x
    <2> QED
      BY <2>1, <2>2
  <1>9. segmentos' = IF r = 0 THEN segmentos ELSE segmentos \cup {s}
    BY <1>2, <1>5, <1>6
  <1>10. s \in [id : Ids, archivo : Nombres, texto : Textos] /\ s.id = p.id /\ s.archivo = f /\ s.texto = Texto(f)
    BY <1>4, TextoEsTexto DEF Paquetes
  <1> HIDE DEF s
  <1>11. segmentos \subseteq segmentos' /\ segmentos' \subseteq [id : Ids, archivo : Nombres, texto : Textos]
    BY <1>3, <1>9, <1>10 DEF TypeOK
  <1>12. r = 1 => \E t \in segmentos' : t.id = p.id
    BY <1>9, <1>10
  <1>13. Copia(c)'
    <2>1. hiloFM9'.paso = "paquete"
      BY <1>1
    <2> QED
      BY <1>1, <1>6, <1>7, <1>8, <1>12, <2>1 DEF Copia
  <1>14. TransmisionFM9'
    BY <1>1, <1>4, <1>13, UnaCopia
  <1>15. ArchivoEntero'
    <2>1. \A t \in segmentos' : t.texto = Texto(t.archivo)
      BY <1>3, <1>9, <1>10 DEF ArchivoEntero
    <2> QED
      BY <1>1, <1>3, <1>11, <2>1 DEF ArchivoEntero
  <1>16. hiloFM9' \in HilosFM9
    BY <1>1, EmptySeq DEF HilosFM9, Textos
  <1>17. aFM9' \in Seq(Paquetes \cup Mensajes)
    BY <1>1, <1>3 DEF TypeOK
  <1> QED
    BY <1>1, <1>8, <1>11, <1>14, <1>15, <1>16, <1>17, PasoDeFM9
--------------------------------------------------------------------------------
(* Every step *)

LEMMA PasoMDJCrearBorrar ==
    ASSUME Invariante, MDJCrear \/ MDJBorrar
    PROVE  Invariante'
  <1>1. \E op \in {8, 9}, r \in {0, 1} :
           /\ MDJResponde(op, r)
           /\ archivos' \in {archivos, archivos \cup {Head(aMDJ).archivo}, archivos \ {Head(aMDJ).archivo}}
    BY DEF MDJCrear, MDJBorrar
  <1>2. PICK op \in {8, 9}, r \in {0, 1} :
           /\ MDJResponde(op, r)
           /\ archivos' \in {archivos, archivos \cup {Head(aMDJ).archivo}, archivos \ {Head(aMDJ).archivo}}
    BY <1>1
  <1>3. aMDJ # <<>> /\ aMDJ \in Seq(Paquetes) /\ archivos \subseteq Nombres
    BY <1>2 DEF MDJResponde, Recibe, Invariante, TypeOK
  <1>4. Head(aMDJ) \in Paquetes
    BY <1>3, HeadTailProperties
  <1>5. archivos' \subseteq Nombres
    BY <1>2, <1>3, <1>4 DEF Paquetes
  <1> QED
    BY <1>2, <1>5, PasoMDJResponde

LEMMA PasoQuieto ==
    ASSUME Invariante, UNCHANGED variables
    PROVE  Invariante'
  <1> USE DEF variables, vMDJ, vFM9
  <1>1. TypeOK' /\ (ArchivoEntero /\ ResultadoPropio)'
    BY DEF Invariante, TypeOK, ArchivoEntero, ResultadoPropio
  <1>2. \A c \in CPUs : HiloCoherente(c)'
    BY DEF Invariante, HiloCoherente, EnAbrir
  <1>3. Identificadores'
    BY DEF Invariante, Identificadores, IdsHilo, IdsSAFA
  <1>4. ~MDJVivo' => \E c \in CPUs : hilo'[c].paso = "flag"
    BY DEF Invariante
  <1>5. (\A c \in CPUs : Transmite(c)' <=> Transmite(c)) /\ EnResultado' = EnResultado
        /\ PorContestar' = PorContestar /\ IdsHilo' = IdsHilo /\ IdsSAFA' = IdsSAFA
    BY DEF Transmite, EnAbrir, EnMDJ, EnResultado, PorContestar, IdsHilo, IdsSAFA
  <1>6. Sigue' => Sigue
    BY DEF Sigue, Mezclado, EnAbrir, EnMDJ
  <1>7. ASSUME Sigue' PROVE TransmisionMDJ' /\ ResultadosMDJ' /\ TransmisionFM9' /\ Cuenta'
    <2>1. TransmisionMDJ /\ ResultadosMDJ /\ TransmisionFM9 /\ Cuenta
      BY <1>6, <1>7 DEF Invariante
    <2> QED
      BY <1>5, <2>1, MarcoMDJ, MarcoFM9, MarcoCuenta
  <1> QED
    BY <1>1, <1>2, <1>3, <1>4, <1>7 DEF Invariante

LEMMA InvarianteDelPaso == Invariante /\ [Next]_variables => Invariante'
  <1> SUFFICES ASSUME Invariante, [Next]_variables PROVE Invariante'
    OBVIOUS
  <1>1. CASE HiloMDJ
    BY <1>1, PasoMDJAbrir, PasoMDJCrearBorrar DEF HiloMDJ
  <1>2. CASE HiloDeFM9
    BY <1>2, PasoFM9Paquete, PasoFM9Partes, PasoFM9Parte, PasoFM9Guardar DEF HiloDeFM9
  <1>3. ASSUME NEW c \in CPUs, Pedir(c) PROVE Invariante'
    BY <1>3, PasoPedir
  <1>4. ASSUME NEW c \in CPUs, HiloDAM(c) PROVE Invariante'
    BY <1>4, PasoTomar, PasoLeerFlag, PasoLeerPartes, PasoCopiarParte, PasoEsperarFM9,
       PasoLeerResultado, PasoContestar DEF HiloDAM
  <1>5. CASE UNCHANGED variables
    BY <1>5, PasoQuieto
  <1> QED
    BY <1>1, <1>2, <1>3, <1>4, <1>5 DEF Next

THEOREM InvarianteSiempre == Spec => []Invariante
  <1> QED
    BY InvarianteAlInicio, InvarianteDelPaso, PTL DEF Spec

--------------------------------------------------------------------------------
(* What follows from it *)

(* The threads, their sockets and what MDJ and FM9 keep stay what the code declares,  *)
(* for any number of CPUs, of requests and of bytes.                                  *)
THEOREM TiposDAMHilos == Spec => []TypeOK
  <1>1. Invariante => TypeOK
    BY DEF Invariante
  <1> QED
    BY <1>1, InvarianteSiempre, PTL

(* Whatever the size of a file next to TRANSFER_SIZE, the one FM9 is told to keep is  *)
(* the whole file, and an abrir told as done left one.                                *)
THEOREM ElArchivoLlegaEntero == Spec => []ArchivoEntero
  <1>1. Invariante => ArchivoEntero
    BY DEF Invariante
  <1> QED
    BY <1>1, InvarianteSiempre, PTL

(* A crear or borrar that ran with no other gets the answer to its own request.       *)
THEOREM CadaUnoConSuResultado == Spec => []ResultadoPropio
  <1>1. Invariante => ResultadoPropio
    BY DEF Invariante
  <1> QED
    BY <1>1, InvarianteSiempre, PTL

LEMMA TodosLibres == Invariante => NingunoSePierde
  <1> SUFFICES ASSUME Invariante, \A c \in CPUs : hilo[c].paso = "libre"
               PROVE  Cardinality(Exitos) = Cardinality(Dichos)
    BY DEF NingunoSePierde, Exitos, Dichos
  <1>1. \A c \in CPUs : ~EnAbrir(c) /\ ~Transmite(c)
    BY PasosDelHilo
  <1>2. Sigue
    BY <1>1 DEF Invariante, Sigue, Mezclado
  <1>3. EnResultado = {} /\ PorContestar = {}
    BY DEF EnResultado, PorContestar
  <1>4. TypeOK /\ Cuenta /\ CrearYBorrar
    BY <1>1, <1>2 DEF Invariante, ResultadosMDJ
  <1>5. deMDJ = <<>>
    <2>1. Cardinality(EnResultado) = 0
      BY <1>3, FS_EmptySet
    <2>2. Len(aMDJ) + Len(deMDJ) = 0
      BY <1>4, <2>1 DEF CrearYBorrar
    <2>3. aMDJ \in Seq(Paquetes) /\ deMDJ \in Seq(Mensajes)
      BY <1>4 DEF TypeOK
    <2>4. Len(aMDJ) \in Nat /\ Len(deMDJ) \in Nat
      BY <2>3, LenProperties
    <2>5. Len(deMDJ) = 0
      BY <2>2, <2>4
    <2> QED
      BY <2>3, <2>5, EmptySeq
  <1>6. Cardinality(EnSocket) = 0
    BY <1>1, <1>5, SocketDePosiciones, PosicionesVacia
  <1>7. Cardinality(PorContestar) = 0
    BY <1>3, FS_EmptySet
  <1>8. IsFiniteSet(Dichos) /\ Cardinality(Dichos) \in Nat
    <2>1. aSAFA \in Seq([tipoOperacion : {1, 8, 9}, resultado : {0, 1}, id : Ids])
      BY <1>4 DEF TypeOK
    <2>2. Dichos \in SUBSET (1 .. Len(aSAFA)) /\ Len(aSAFA) \in Nat
      BY <2>1, LenProperties DEF Dichos
    <2>3. IsFiniteSet(1 .. Len(aSAFA))
      BY <2>2, FS_Interval
    <2>4. IsFiniteSet(Dichos)
      BY <2>2, <2>3, FS_Subset
    <2> QED
      BY <2>4, FS_CardinalityType
  <1> QED
    BY <1>4, <1>6, <1>7, <1>8 DEF Cuenta

(* Answers of MDJ may go to the wrong thread, but none is lost or made up: with all   *)
(* the threads free, S-AFA was told of as many successes as MDJ had.                  *)
THEOREM NingunaRespuestaSePierde == Spec => []NingunoSePierde
  <1> QED
    BY TodosLibres, InvarianteSiempre, PTL
--------------------------------------------------------------------------------
(* DAMHilos implements DAM: what a request is to S-AFA and to its CPU *)

Quien(p) == [tipoOperacion |-> p.tipoOperacion, id |-> p.id]
Cola(s) == [k \in DOMAIN s |-> Quien(s[k])]

LEMMA PendientesDe ==
    /\ Pendientes = [c \in CPUs |->
          (IF hilo[c].paso = "libre" THEN <<>> ELSE <<Quien(hilo[c].paquete)>>) \o Cola(pedidos[c])]
    /\ Pendientes' = [c \in CPUs |->
          (IF hilo'[c].paso = "libre" THEN <<>> ELSE <<Quien(hilo'[c].paquete)>>) \o Cola(pedidos'[c])]
  BY DEF Pendientes, Quien, Cola

LEMMA ColaDePedidos ==
    ASSUME NEW s \in Seq(Paquetes)
    PROVE  /\ Cola(s) \in Seq([tipoOperacion : {1, 8, 9}, id : Ids]) /\ <<>> \o Cola(s) = Cola(s)
           /\ s # <<>> => <<Quien(Head(s))>> \o Cola(Tail(s)) = Cola(s)
  <1> DEFINE Q == [tipoOperacion : {1, 8, 9}, id : Ids]
             n == Len(s)
  <1>1. \A p \in Paquetes : Quien(p) \in Q
    BY DEF Quien, Paquetes
  <1>2. n \in Nat /\ DOMAIN s = 1 .. n /\ \A k \in 1 .. n : s[k] \in Paquetes
    BY LenProperties, ElementOfSeq
  <1>3. Cola(s) \in Seq(Q) /\ Len(Cola(s)) = n /\ \A k \in 1 .. n : Cola(s)[k] = Quien(s[k])
    <2>1. Cola(s) = [k \in 1 .. n |-> Quien(s[k])] /\ \A k \in 1 .. n : Quien(s[k]) \in Q
      BY <1>1, <1>2 DEF Cola
    <2> HIDE DEF n, Q
    <2> QED
      BY <1>2, <2>1
  <1>4. <<>> \o Cola(s) = Cola(s)
    BY <1>3, ConcatEmptySeq
  <1>5. ASSUME s # <<>> PROVE <<Quien(Head(s))>> \o Cola(Tail(s)) = Cola(s)
    <2> DEFINE t == Tail(s)
               q == Quien(Head(s))
               u == <<q>> \o Cola(t)
    <2>1. t \in Seq(Paquetes) /\ Len(t) = n - 1 /\ n # 0 /\ Head(s) = s[1] /\ \A k \in 1 .. n - 1 : t[k] = s[k + 1]
      BY <1>5, HeadTailProperties, EmptySeq
    <2>2. DOMAIN t = 1 .. n - 1 /\ \A k \in 1 .. n - 1 : t[k] \in Paquetes
      BY <2>1, LenProperties, ElementOfSeq
    <2>3. Cola(t) \in Seq(Q) /\ Len(Cola(t)) = n - 1 /\ \A k \in 1 .. n - 1 : Cola(t)[k] = Quien(s[k + 1])
      <3>1. Cola(t) = [k \in 1 .. n - 1 |-> Quien(t[k])] /\ \A k \in 1 .. n - 1 : Quien(t[k]) \in Q
        BY <1>1, <2>2 DEF Cola
      <3> DEFINE m == n - 1
                 v == Cola(t)
      <3>2. m \in Nat /\ v = [k \in 1 .. m |-> Quien(t[k])] /\ \A k \in 1 .. m : Quien(t[k]) \in Q
        BY <1>2, <2>1, <3>1
      <3> HIDE DEF n, Q, t, m, v
      <3>3. v \in Seq(Q) /\ Len(v) = m /\ \A k \in 1 .. m : v[k] = Quien(t[k])
        BY <3>2
      <3> QED
        BY <2>1, <3>3 DEF m, v
    <2>4. q \in Q /\ q = Cola(s)[1]
      BY <1>1, <1>2, <1>3, <2>1
    <2> HIDE DEF n, Q, t, q
    <2>5. u \in Seq(Q) /\ Len(u) = n /\ u[1] = q /\ \A k \in 1 .. n - 1 : u[k + 1] = Cola(t)[k]
      <3>1. <<q>> \in Seq(Q) /\ Len(<<q>>) = 1 /\ <<q>>[1] = q
        BY <2>4
      <3>2. u \in Seq(Q) /\ Len(u) = 1 + (n - 1)
        BY <2>3, <3>1, ConcatProperties
      <3>3. \A k \in 1 .. 1 + (n - 1) : u[k] = IF k <= 1 THEN <<q>>[k] ELSE Cola(t)[k - 1]
        BY <2>3, <3>1, ConcatProperties
      <3> HIDE DEF u
      <3>4. u[1] = q
        BY <1>2, <2>1, <3>1, <3>3
      <3>5. \A k \in 1 .. n - 1 : u[k + 1] = Cola(t)[k]
        <4> SUFFICES ASSUME NEW k \in 1 .. n - 1 PROVE u[k + 1] = Cola(t)[k]
          OBVIOUS
        <4>1. k + 1 \in 1 .. 1 + (n - 1) /\ ~(k + 1 <= 1) /\ k + 1 - 1 = k
          BY <1>2
        <4> QED
          BY <3>3, <4>1
      <3> QED
        BY <1>2, <3>2, <3>4, <3>5
    <2>6. \A k \in 1 .. n : u[k] = Cola(s)[k]
      <3> SUFFICES ASSUME NEW k \in 1 .. n PROVE u[k] = Cola(s)[k]
        OBVIOUS
      <3>1. CASE k = 1
        BY <2>4, <2>5, <3>1
      <3>2. CASE k # 1
        <4>1. k - 1 \in 1 .. n - 1 /\ (k - 1) + 1 = k
          BY <1>2, <3>2
        <4> QED
          BY <1>3, <2>3, <2>5, <4>1
      <3> QED
        BY <3>1, <3>2
    <2> HIDE DEF u
    <2>7. u = Cola(s)
      BY <1>3, <2>5, <2>6, SeqEqual
    <2> QED
      BY <2>7 DEF u, q, t
  <1> QED
    BY <1>3, <1>4, <1>5

(* a step that neither takes a request nor answers one is nothing to S-AFA *)
LEMMA PendientesIguales ==
    ASSUME pedidos' = pedidos,
           \A c \in CPUs : hilo'[c].paso = "libre" <=> hilo[c].paso = "libre",
           \A c \in CPUs : hilo[c].paso # "libre" => Quien(hilo'[c].paquete) = Quien(hilo[c].paquete)
    PROVE  Pendientes' = Pendientes
  BY PendientesDe

LEMMA PendientesAlTomar ==
    ASSUME TypeOK, NEW c \in CPUs, Tomar(c)
    PROVE  Pendientes' = Pendientes
  <1> DEFINE q(d) == (IF hilo[d].paso = "libre" THEN <<>> ELSE <<Quien(hilo[d].paquete)>>) \o Cola(pedidos[d])
             r(d) == (IF hilo'[d].paso = "libre" THEN <<>> ELSE <<Quien(hilo'[d].paquete)>>) \o Cola(pedidos'[d])
  <1>1. Pendientes = [d \in CPUs |-> q(d)] /\ Pendientes' = [d \in CPUs |-> r(d)]
    BY PendientesDe
  <1>2. hilo[c].paso = "libre" /\ pedidos[c] # <<>> /\ pedidos[c] \in Seq(Paquetes)
        /\ pedidos' = [pedidos EXCEPT ![c] = Tail(@)] /\ pedidos \in [CPUs -> Seq(Paquetes)]
        /\ hilo \in [CPUs -> Hilos]
    BY DEF Tomar, En, TypeOK
  <1>3. hilo'[c].paso # "libre" /\ hilo'[c].paquete = Head(pedidos[c])
    <2>1. hilo[c] \in Hilos
      BY <1>2
    <2> QED
      BY <2>1 DEF Tomar, Hilos
  <1>4. \A d \in CPUs : d # c => hilo'[d].paso = hilo[d].paso /\ hilo'[d].paquete = hilo[d].paquete
    <2> SUFFICES ASSUME NEW d \in CPUs, d # c
                 PROVE  hilo'[d].paso = hilo[d].paso /\ hilo'[d].paquete = hilo[d].paquete
      OBVIOUS
    <2>1. \E b : hilo'[d] = [hilo[d] EXCEPT !.solapado = b]
      BY DEF Tomar
    <2>2. hilo[d] \in Hilos
      BY <1>2
    <2> QED
      BY <2>1, <2>2 DEF Hilos
  <1>5. q(c) = r(c)
    <2>1. q(c) = Cola(pedidos[c])
      BY <1>2, ColaDePedidos
    <2>2. r(c) = <<Quien(Head(pedidos[c]))>> \o Cola(Tail(pedidos[c]))
      BY <1>2, <1>3
    <2> QED
      BY <1>2, <2>1, <2>2, ColaDePedidos
  <1>6. \A d \in CPUs : d # c => q(d) = r(d)
    BY <1>2, <1>4
  <1> HIDE DEF q, r
  <1> QED
    BY <1>1, <1>5, <1>6

LEMMA ContestarEsAtender ==
    ASSUME Invariante, NEW c \in CPUs, Contestar(c)
    PROVE  D!Atender(c)
  <1> DEFINE p == hilo[c].paquete
             q(d) == (IF hilo[d].paso = "libre" THEN <<>> ELSE <<Quien(hilo[d].paquete)>>) \o Cola(pedidos[d])
             r(d) == (IF hilo'[d].paso = "libre" THEN <<>> ELSE <<Quien(hilo'[d].paquete)>>) \o Cola(pedidos'[d])
             Q == [tipoOperacion : {1, 8, 9}, id : Ids]
  <1>1. Pendientes = [d \in CPUs |-> q(d)] /\ Pendientes' = [d \in CPUs |-> r(d)]
    BY PendientesDe
  <1>2. hilo[c].paso = "contestar" /\ pedidos' = pedidos
        /\ aSAFA' = Append(aSAFA, [tipoOperacion |-> p.tipoOperacion, resultado |-> p.resultado, id |-> p.id])
        /\ hilo' = [hilo EXCEPT ![c] = [hilo[c] EXCEPT !.paso = "libre", !.paquete = Nada]]
    BY DEF Contestar, En, Contestado
  <1>3. TypeOK /\ hilo \in [CPUs -> Hilos] /\ hilo[c] \in Hilos /\ pedidos[c] \in Seq(Paquetes)
    BY DEF Invariante, TypeOK
  <1>4. p \in Paquetes /\ p.resultado \in {0, 1}
    BY <1>2 DEF Invariante, HiloCoherente
  <1>5. hilo'[c].paso = "libre" /\ \A d \in CPUs : d # c => hilo'[d] = hilo[d]
    BY <1>2, <1>3 DEF Hilos
  <1> DEFINE x == Quien(p)
             s == Cola(pedidos[c])
  <1>6. x \in Q /\ s \in Seq(Q) /\ <<>> \o s = s
    BY <1>3, <1>4, ColaDePedidos DEF Quien, Paquetes
  <1>7. q(c) = <<x>> \o s /\ r(c) = s
    <2>1. q(c) = <<x>> \o s /\ r(c) = <<>> \o s
      BY <1>2, <1>5
    <2> QED
      BY <1>6, <2>1
  <1>8. \A d \in CPUs : d # c => r(d) = q(d)
    BY <1>2, <1>5
  <1> HIDE DEF q, r, s, x, Q
  <1>9. Pendientes[c] # <<>> /\ Head(Pendientes[c]) = x /\ Tail(Pendientes[c]) = s
    <2>1. Pendientes[c] = <<x>> \o s
      BY <1>1, <1>7
    <2>2. <<x>> \o s # <<>> /\ Head(<<x>> \o s) = x /\ Tail(<<x>> \o s) = s
      BY <1>6
    <2> QED
      BY <2>1, <2>2
  <1>10. Pendientes' = [Pendientes EXCEPT ![c] = Tail(@)]
    BY <1>1, <1>7, <1>8, <1>9
  <1>11. x.tipoOperacion = p.tipoOperacion /\ x.id = p.id /\ x.tipoOperacion \in {1, 8, 9}
    BY <1>4 DEF x, Quien, Paquetes
  <1>12. D!Pedido(c, {1, 8, 9})
    BY <1>9, <1>10, <1>11 DEF D!Pedido, D!Consumir
  <1>13. D!Responder(c, p.resultado)
    <2>1. D!Contestado(c, p.resultado) = [tipoOperacion |-> p.tipoOperacion, resultado |-> p.resultado, id |-> p.id]
      BY <1>9, <1>11 DEF D!Contestado
    <2> QED
      BY <1>2, <2>1 DEF D!Responder
  <1> QED
    BY <1>4, <1>12, <1>13 DEF D!Atender

LEMMA PendientesAlEsperar ==
    ASSUME Invariante, NEW c \in CPUs, EsperarFM9(c)
    PROVE  Pendientes' = Pendientes
  <1> DEFINE p == hilo[c].paquete
  <1>1. Sigue /\ hilo[c].paso = "copia" /\ deFM9 # <<>> /\ pedidos' = pedidos
        /\ hilo' = [hilo EXCEPT ![c] = [hilo[c] EXCEPT !.paso = "contestar", !.paquete = Head(deFM9)]]
    BY DEF EsperarFM9, En
  <1>2. TypeOK /\ (\A d \in CPUs : HiloCoherente(d)) /\ Copia(c)
    BY <1>1 DEF Invariante, TransmisionFM9
  <1>3. hilo \in [CPUs -> Hilos] /\ hilo[c] \in Hilos /\ p \in Paquetes
    BY <1>1, <1>2, TipoDeHilo DEF TypeOK
  <1>4. PICK r \in {0, 1} : deFM9 = <<[p EXCEPT !.resultado = r]>>
    BY <1>1, <1>2 DEF Copia
  <1>5. Head(deFM9) = [p EXCEPT !.resultado = r]
    BY <1>4
  <1>6. Quien(Head(deFM9)) = Quien(p)
    BY <1>3, <1>5 DEF Quien, Paquetes
  <1>7. hilo'[c].paso = "contestar" /\ hilo'[c].paquete = Head(deFM9) /\ \A d \in CPUs : d # c => hilo'[d] = hilo[d]
    BY <1>1, <1>3 DEF Hilos
  <1> HIDE DEF p
  <1>8. /\ \A d \in CPUs : hilo'[d].paso = "libre" <=> hilo[d].paso = "libre"
        /\ \A d \in CPUs : Quien(hilo'[d].paquete) = Quien(hilo[d].paquete)
    BY <1>1, <1>6, <1>7 DEF p
  <1> QED
    BY <1>1, <1>8, PendientesIguales

LEMMA PendientesAlCopiar ==
    ASSUME TypeOK, NEW c \in CPUs, LeerFlag(c) \/ LeerPartes(c) \/ CopiarParte(c) \/ LeerResultado(c),
           \A d \in CPUs : HiloCoherente(d)
    PROVE  Pendientes' = Pendientes
  <1>1. hilo \in [CPUs -> Hilos] /\ hilo[c] \in Hilos /\ hilo[c].paso # "libre" /\ pedidos' = pedidos
    BY DEF TypeOK, LeerFlag, LeerPartes, CopiarParte, LeerResultado, En
  <1>2. hilo[c].paquete \in Paquetes
    BY <1>1, TipoDeHilo
  <1>3. \A d \in CPUs : d # c => hilo'[d] = hilo[d]
    BY <1>1 DEF LeerFlag, LeerPartes, CopiarParte, LeerResultado
  <1>4. hilo'[c].paso # "libre" /\ Quien(hilo'[c].paquete) = Quien(hilo[c].paquete)
    <2>1. CASE LeerFlag(c)
      BY <1>1, <2>1 DEF LeerFlag, Hilos
    <2>2. CASE LeerPartes(c)
      BY <1>1, <2>2 DEF LeerPartes, Hilos
    <2>3. CASE CopiarParte(c)
      BY <1>1, <2>3 DEF CopiarParte, Hilos
    <2>4. CASE LeerResultado(c)
      <3> DEFINE v == Head(deMDJ).valor
                 x == [hilo[c].paquete EXCEPT !.resultado = v]
                 h == [hilo[c] EXCEPT !.paso = "contestar", !.partes = v, !.paquete = x]
      <3>1. hilo' = [hilo EXCEPT ![c] = h]
        BY <1>1, <2>4 DEF LeerResultado, Hilos
      <3>2. Quien(x) = Quien(hilo[c].paquete)
        BY <1>2 DEF Quien, Paquetes
      <3> HIDE DEF x, v
      <3>3. h.paso = "contestar" /\ h.paquete = x
        BY <1>1 DEF Hilos
      <3>4. hilo'[c] = h
        BY <1>1, <3>1
      <3> QED
        BY <3>2, <3>3, <3>4
    <2> QED
      BY <2>1, <2>2, <2>3, <2>4
  <1> QED
    BY <1>1, <1>3, <1>4, PendientesIguales

LEMMA CadaPasoEsDeDAM ==
    Invariante /\ [Next]_variables => [\E c \in CPUs : D!Atender(c) \/ Pedir(c)]_<<Pendientes, aSAFA>>
  <1> SUFFICES ASSUME Invariante, [Next]_variables
               PROVE  (\E c \in CPUs : D!Atender(c) \/ Pedir(c)) \/ UNCHANGED <<Pendientes, aSAFA>>
    OBVIOUS
  <1>1. TypeOK /\ \A d \in CPUs : HiloCoherente(d)
    BY DEF Invariante
  <1>2. UNCHANGED <<pedidos, hilo>> => Pendientes' = Pendientes
    BY DEF Pendientes
  <1>3. CASE HiloMDJ
    BY <1>2, <1>3 DEF HiloMDJ, MDJAbrir, MDJCrear, MDJBorrar, MDJResponde
  <1>4. CASE HiloDeFM9
    BY <1>2, <1>4 DEF HiloDeFM9, FM9Paquete, FM9Partes, FM9Parte, FM9Guardar
  <1>5. ASSUME NEW c \in CPUs, HiloDAM(c) PROVE D!Atender(c) \/ UNCHANGED <<Pendientes, aSAFA>>
    <2>1. CASE Tomar(c)
      BY <1>1, <2>1, PendientesAlTomar DEF Tomar
    <2>2. CASE LeerFlag(c) \/ LeerPartes(c) \/ CopiarParte(c) \/ LeerResultado(c)
      BY <1>1, <2>2, PendientesAlCopiar DEF LeerFlag, LeerPartes, CopiarParte, LeerResultado
    <2>3. CASE EsperarFM9(c)
      BY <2>3, PendientesAlEsperar DEF EsperarFM9
    <2>4. CASE Contestar(c)
      BY <2>4, ContestarEsAtender
    <2> QED
      BY <1>5, <2>1, <2>2, <2>3, <2>4 DEF HiloDAM
  <1>6. CASE UNCHANGED variables
    BY <1>2, <1>6 DEF variables
  <1> QED
    BY <1>3, <1>4, <1>5, <1>6 DEF Next

(* The threads, MDJ and FM9, in any order and with any cut of the files, are the DAM  *)
(* of module DAM: each request is attended in one step, with one answer, in order.    *)
THEOREM LosHilosImplementanDAM == Spec => ImplementaDAM
  <1> QED
    BY CadaPasoEsDeDAM, InvarianteSiempre, PTL DEF ImplementaDAM, Spec
================================================================================
