------------------------------ MODULE MDJ_proofs ------------------------------
(* Proofs about MDJ, and that it implements Disco, for every disk, every set of   *)
(* files and every set of sizes.                                                  *)
EXTENDS MDJ, SequenceTheorems, TLAPS

(* A number of blocks is a natural number. *)
LEMMA NecesariosNat ==
    ASSUME NEW n \in Nat
    PROVE  Necesarios(n) \in Nat
  BY MDJAssumption DEF Necesarios

(* The first n free blocks: a sequence of n different blocks whose bit is 0. *)
LEMMA PrimerosLibres ==
    ASSUME NEW n \in Nat, NEW s, SonPrimerosLibres(s, n)
    PROVE  /\ s \in Seq(Bloques) /\ Len(s) = n /\ DOMAIN s = 1 .. n
           /\ \A k \in 1 .. n : s[k] \in Bloques /\ s[k] \notin bitmap
           /\ \A k, m \in 1 .. n : s[k] = s[m] => k = m
  <1>1. s \in [1 .. n -> Bloques] /\ \A k \in 1 .. n : s[k] \notin bitmap
    BY DEF SonPrimerosLibres, Libres
  <1>2. s \in Seq(Bloques)
    BY <1>1, SeqDef
  <1>3. Len(s) = n
    BY <1>1, <1>2, LenProperties
  <1>4. \A k, m \in 1 .. n : s[k] = s[m] => k = m
    <2>1. \A k \in 1 .. n : s[k] \in Int
      BY <1>1, MDJAssumption DEF Bloques
    <2>2. \A k, m \in 1 .. n : k < m => s[k] < s[m]
      BY DEF SonPrimerosLibres
    <2> QED
      BY <2>1, <2>2
  <1> QED
    BY <1>1, <1>2, <1>3, <1>4

(* What the type says of the metadata of a file. *)
LEMMA TipoDeArchivo ==
    ASSUME TypeOK, NEW f \in Nombres
    PROVE  /\ archivos[f] \in Archivos
           /\ archivos[f].BLOQUES \in Seq(Bloques)
           /\ Len(archivos[f].BLOQUES) \in Nat
           /\ DOMAIN archivos[f].BLOQUES = 1 .. Len(archivos[f].BLOQUES)
           /\ Ocupa(archivos[f]) \subseteq Bloques
  <1>1. archivos[f] \in Archivos /\ archivos[f].BLOQUES \in Seq(Bloques)
    BY DEF TypeOK, Archivos
  <1> QED
    BY <1>1, LenProperties, ElementOfSeq DEF Ocupa

(* How many blocks a file lacks, when it lacks any. *)
LEMMA FaltanNat ==
    ASSUME TypeOK, NEW f \in Nombres, NEW n \in Nat
    PROVE  /\ Faltan(f, n) \in Int
           /\ Faltan(f, n) > 0 => Faltan(f, n) \in Nat
  <1>1. Necesarios(n) \in Int /\ Len(archivos[f].BLOQUES) \in Int
    BY NecesariosNat, TipoDeArchivo
  <1> QED
    BY <1>1, SMTT(30) DEF Faltan

LEMMA AusenteEsArchivo ==
    /\ Ausente \in Archivos
    /\ Truncado \in Archivos
    /\ Ocupa(Ausente) = {}
    /\ Ocupa(Truncado) = {}
  BY EmptySeq DEF Ausente, Truncado, Archivos, Ocupa

--------------------------------------------------------------------------------
(* The type invariant *)

LEMMA TipoAlInicio == Init => TypeOK
  <1> SUFFICES ASSUME Init PROVE TypeOK
    OBVIOUS
  <1>1. archivos \in [Nombres -> Archivos] /\ vivo \in BOOLEAN
    BY MDJAssumption DEF Init
  <1>2. \A f \in Nombres : Ocupa(ArchivosIniciales[f]) \subseteq Bloques
    <2> TAKE f \in Nombres
    <2>1. ArchivosIniciales[f].BLOQUES \in Seq(Bloques)
      BY MDJAssumption DEF Archivos
    <2> QED
      BY <2>1, LenProperties, ElementOfSeq DEF Ocupa
  <1>3. bitmap \subseteq Bloques
    BY <1>2 DEF Init
  <1>4. datos \in [Bloques -> Datos]
    BY DEF Init, Datos
  <1>5. ultimo \in Pedidos
    BY DEF Init, Pedidos, Resultados
  <1> QED
    BY <1>1, <1>3, <1>4, <1>5 DEF TypeOK

LEMMA TipoDeEscribir ==
    ASSUME TypeOK, NEW f \in Nombres, NEW bs
    PROVE  Escribir(f, bs) \in [Bloques -> Datos]
  BY DEF TypeOK, Escribir, Datos

(* The answer to a request, or its lack, keeps the type. *)
LEMMA TipoDeRespuesta ==
    ASSUME NEW f \in Nombres, NEW r \in {0, 1},
           NEW op \in {"abrir", "crear", "borrar", "guardar"},
           Responder(op, f, r) \/ Morir(op, f)
    PROVE  vivo' \in BOOLEAN /\ ultimo' \in Pedidos
  <1>1. CASE Responder(op, f, r)
    <2>1. vivo' = TRUE /\ ultimo' = [op |-> op, archivo |-> f, resultado |-> r]
      BY <1>1 DEF Responder
    <2> QED
      BY <2>1 DEF Pedidos, Resultados
  <1>2. CASE Morir(op, f)
    <2>1. vivo' = FALSE /\ ultimo' = [op |-> op, archivo |-> f, resultado |-> Nada]
      BY <1>2 DEF Morir
    <2> QED
      BY <2>1 DEF Pedidos, Resultados
  <1> QED
    BY <1>1, <1>2

LEMMA TipoDelPaso == TypeOK /\ [Next]_vars => TypeOK'
  <1> SUFFICES ASSUME TypeOK, [Next]_vars PROVE TypeOK'
    OBVIOUS
  <1>1. CASE UNCHANGED vars
    BY <1>1 DEF TypeOK, vars
  <1>2. CASE Reiniciar
    BY <1>2 DEF TypeOK, Reiniciar
  <1>3. ASSUME NEW f \in Nombres,
               \/ Abrir(f) \/ AbrirMuere(f) \/ CrearExistente(f)
               \/ BorrarAusente(f) \/ BorrarIlegible(f)
               \/ GuardarAusente(f) \/ GuardarIlegible(f)
        PROVE  TypeOK'
    <2>1. UNCHANGED <<bitmap, archivos, datos>>
      BY <1>3 DEF Abrir, AbrirMuere, CrearExistente, BorrarAusente, BorrarIlegible,
                  GuardarAusente, GuardarIlegible, DiscoIgual
    <2>2. vivo' \in BOOLEAN /\ ultimo' \in Pedidos
      BY <1>3, TipoDeRespuesta DEF Abrir, AbrirMuere, CrearExistente, BorrarAusente,
                  BorrarIlegible, GuardarAusente, GuardarIlegible
    <2> QED
      BY <2>1, <2>2 DEF TypeOK
  <1>4. ASSUME NEW f \in Nombres, Borrar(f) PROVE TypeOK'
    <2>1. vivo' \in BOOLEAN /\ ultimo' \in Pedidos
      BY <1>4, TipoDeRespuesta DEF Borrar
    <2> QED
      BY <1>4, <2>1, AusenteEsArchivo DEF TypeOK, Borrar
  <1>5. ASSUME NEW f \in Nombres, BorrarCortado(f) PROVE TypeOK'
    <2>1. vivo' \in BOOLEAN /\ ultimo' \in Pedidos
      BY <1>5, TipoDeRespuesta DEF BorrarCortado
    <2> QED
      BY <1>5, <2>1 DEF TypeOK, BorrarCortado
  <1>6. ASSUME NEW f \in Nombres, NEW n \in Tamanios, CrearSinEspacio(f, n) PROVE TypeOK'
    <2>1. vivo' \in BOOLEAN /\ ultimo' \in Pedidos
      BY <1>6, TipoDeRespuesta DEF CrearSinEspacio
    <2> QED
      BY <1>6, <2>1 DEF TypeOK, CrearSinEspacio, DiscoIgual
  <1>7. ASSUME NEW f \in Nombres, NEW n \in Tamanios, Crear(f, n) PROVE TypeOK'
    <2> DEFINE N == Necesarios(n)
    <2>1. n \in Nat /\ N \in Nat
      BY MDJAssumption, NecesariosNat
    <2>2. PICK s \in Secuencias(N) :
                /\ SonPrimerosLibres(s, N)
                /\ Marcar({s[k] : k \in DOMAIN s})
                /\ datos' = Rellenar({s[k] : k \in DOMAIN s})
                /\ archivos' = [archivos EXCEPT ![f] =
                            IF N = 0
                            THEN [estado |-> "abierto", TAMANIO |-> n, BLOQUES |-> <<>>]
                            ELSE Completo(n, s)]
      BY <1>7 DEF Crear
    <2>3. s \in Seq(Bloques) /\ \A k \in DOMAIN s : s[k] \in Bloques
      BY <2>1, <2>2, PrimerosLibres
    <2>4. bitmap' \subseteq Bloques
      BY <2>2, <2>3 DEF TypeOK, Marcar
    <2>5. datos' \in [Bloques -> Datos]
      BY <2>2 DEF TypeOK, Rellenar, Datos
    <2>6. archivos' \in [Nombres -> Archivos]
      <3>1. Completo(n, s) \in Archivos
        BY <2>1, <2>3 DEF Completo, Archivos
      <3>2. [estado |-> "abierto", TAMANIO |-> n, BLOQUES |-> <<>>] \in Archivos
        BY <2>1, EmptySeq DEF Archivos
      <3> QED
        BY <2>2, <3>1, <3>2 DEF TypeOK
    <2>7. vivo' \in BOOLEAN /\ ultimo' \in Pedidos
      BY <1>7, TipoDeRespuesta DEF Crear
    <2> QED
      BY <2>4, <2>5, <2>6, <2>7 DEF TypeOK
  <1>8. ASSUME NEW f \in Nombres, NEW n \in Tamanios, CrearCortado(f, n) PROVE TypeOK'
    <2> DEFINE N == Necesarios(n)
    <2>1. n \in Nat /\ N \in Nat
      BY MDJAssumption, NecesariosNat
    <2>2. PICK s \in Secuencias(N), j \in 0 .. N :
                /\ SonPrimerosLibres(s, N)
                /\ Marcar({s[k] : k \in 1 .. j})
                /\ \/ UNCHANGED archivos
                   \/ archivos' = [archivos EXCEPT ![f] = Truncado]
      BY <1>8 DEF CrearCortado
    <2>3. \A k \in 1 .. j : s[k] \in Bloques
      BY <2>1, <2>2, PrimerosLibres
    <2>4. bitmap' \subseteq Bloques
      BY <2>2, <2>3 DEF TypeOK, Marcar
    <2>5. archivos' \in [Nombres -> Archivos]
      BY <2>2, AusenteEsArchivo DEF TypeOK
    <2>6. vivo' \in BOOLEAN /\ ultimo' \in Pedidos
      BY <1>8, TipoDeRespuesta DEF CrearCortado
    <2> QED
      BY <1>8, <2>4, <2>5, <2>6 DEF TypeOK, CrearCortado
  <1>9. ASSUME NEW f \in Nombres, NEW n \in Tamanios,
               GuardarIgual(f, n) \/ GuardarMenos(f, n) \/ GuardarSinEspacio(f, n)
        PROVE  TypeOK'
    <2>1. n \in Nat
      BY MDJAssumption
    <2>2. bitmap' = bitmap /\ datos' \in [Bloques -> Datos]
      BY <1>9, TipoDeEscribir DEF GuardarIgual, GuardarMenos, GuardarSinEspacio
    <2>3. archivos' \in [Nombres -> Archivos]
      <3>1. Completo(n + 1, archivos[f].BLOQUES) \in Archivos
        BY <2>1, TipoDeArchivo DEF Archivos, Completo
      <3> QED
        BY <1>9, <3>1 DEF TypeOK, GuardarIgual, GuardarMenos, GuardarSinEspacio
    <2>4. vivo' \in BOOLEAN /\ ultimo' \in Pedidos
      BY <1>9, TipoDeRespuesta DEF GuardarIgual, GuardarMenos, GuardarSinEspacio
    <2> QED
      BY <2>2, <2>3, <2>4 DEF TypeOK
  <1>10. ASSUME NEW f \in Nombres, NEW n \in Tamanios, Guardar(f, n) PROVE TypeOK'
    <2> DEFINE F == Faltan(f, n)
    <2>1. n \in Nat /\ F \in Nat
      BY <1>10, MDJAssumption, FaltanNat DEF Guardar
    <2>2. PICK s \in Secuencias(F) :
                /\ SonPrimerosLibres(s, F)
                /\ Marcar({s[k] : k \in DOMAIN s})
                /\ datos' = Escribir(f, archivos[f].BLOQUES \o s)
                /\ archivos' = [archivos EXCEPT ![f] = Completo(n + 1, archivos[f].BLOQUES \o s)]
      BY <1>10 DEF Guardar
    <2>3. s \in Seq(Bloques) /\ \A k \in DOMAIN s : s[k] \in Bloques
      BY <2>1, <2>2, PrimerosLibres
    <2>4. bitmap' \subseteq Bloques
      BY <2>2, <2>3 DEF TypeOK, Marcar
    <2>5. archivos' \in [Nombres -> Archivos]
      <3>1. archivos[f].BLOQUES \o s \in Seq(Bloques)
        BY <2>3, TipoDeArchivo, ConcatProperties
      <3>2. Completo(n + 1, archivos[f].BLOQUES \o s) \in Archivos
        BY <2>1, <3>1 DEF Completo, Archivos
      <3> QED
        BY <2>2, <3>2 DEF TypeOK
    <2>6. vivo' \in BOOLEAN /\ ultimo' \in Pedidos
      BY <1>10, TipoDeRespuesta DEF Guardar
    <2> QED
      BY <2>2, <2>4, <2>5, <2>6, TipoDeEscribir DEF TypeOK
  <1>11. ASSUME NEW f \in Nombres, NEW n \in Tamanios, GuardarCortado(f, n) PROVE TypeOK'
    <2> DEFINE F == Faltan(f, n)
    <2>1. n \in Nat /\ F \in Nat
      BY <1>11, MDJAssumption, FaltanNat DEF GuardarCortado
    <2>2. PICK s \in Secuencias(F), j \in 0 .. F :
                /\ SonPrimerosLibres(s, F)
                /\ Marcar({s[k] : k \in 1 .. j})
                /\ datos' = Escribir(f, archivos[f].BLOQUES \o SubSeq(s, 1, j))
                /\ \/ UNCHANGED archivos
                   \/ archivos' = [archivos EXCEPT ![f] = Truncado]
      BY <1>11 DEF GuardarCortado
    <2>3. \A k \in 1 .. j : s[k] \in Bloques
      BY <2>1, <2>2, PrimerosLibres
    <2>4. bitmap' \subseteq Bloques
      BY <2>2, <2>3 DEF TypeOK, Marcar
    <2>5. archivos' \in [Nombres -> Archivos]
      BY <2>2, AusenteEsArchivo DEF TypeOK
    <2>6. vivo' \in BOOLEAN /\ ultimo' \in Pedidos
      BY <1>11, TipoDeRespuesta DEF GuardarCortado
    <2> QED
      BY <2>2, <2>4, <2>5, <2>6, TipoDeEscribir DEF TypeOK
  <1> QED
    BY <1>1, <1>2, <1>3, <1>4, <1>5, <1>6, <1>7, <1>8, <1>9, <1>10, <1>11 DEF Next

(* MDJ's state is always well formed, kills and restarts included. *)
THEOREM Tipo == Spec => []TypeOK
  BY TipoAlInicio, TipoDelPaso, PTL DEF Spec

--------------------------------------------------------------------------------
(* No block in two files *)

(* What the invariant says of two blocks. *)
LEMMA DosBloques ==
    ASSUME Exclusividad, NEW f \in Nombres, NEW g \in Nombres,
           NEW k \in DOMAIN archivos[f].BLOQUES, NEW m \in DOMAIN archivos[g].BLOQUES,
           archivos[f].BLOQUES[k] = archivos[g].BLOQUES[m]
    PROVE  f = g /\ k = m
  BY DEF Exclusividad, SinCompartir

(* Replacing the metadata of one file keeps the invariant when the new list has no *)
(* block twice and every block in it was the file's or free, and is marked now.     *)
LEMMA UnoCambia ==
    ASSUME TypeOK, Exclusividad, NEW f \in Nombres, NEW a,
           archivos' = [archivos EXCEPT ![f] = a], bitmap \subseteq bitmap',
           \A k, m \in DOMAIN a.BLOQUES : a.BLOQUES[k] = a.BLOQUES[m] => k = m,
           \A k \in DOMAIN a.BLOQUES : /\ a.BLOQUES[k] \in bitmap'
                                       /\ \/ a.BLOQUES[k] \in Ocupa(archivos[f])
                                          \/ a.BLOQUES[k] \notin bitmap
    PROVE  Exclusividad'
  <1>1. archivos'[f] = a /\ \A g \in Nombres \ {f} : archivos'[g] = archivos[g]
    BY DEF TypeOK
  <1>2. ASSUME NEW g \in Nombres \ {f},
               NEW k \in DOMAIN a.BLOQUES, NEW m \in DOMAIN archivos[g].BLOQUES
        PROVE  a.BLOQUES[k] # archivos[g].BLOQUES[m]
    <2>1. archivos[g].BLOQUES[m] \in bitmap
      BY DEF Exclusividad, Ocupa
    <2>2. archivos[g].BLOQUES[m] \notin Ocupa(archivos[f])
      BY DosBloques DEF Ocupa
    <2> QED
      BY <2>1, <2>2
  <1>3. ASSUME NEW g \in Nombres, NEW h \in Nombres,
               NEW k \in DOMAIN archivos'[g].BLOQUES, NEW m \in DOMAIN archivos'[h].BLOQUES,
               archivos'[g].BLOQUES[k] = archivos'[h].BLOQUES[m]
        PROVE  g = h /\ k = m
    <2>1. CASE g = f /\ h = f
      BY <1>1, <1>3, <2>1
    <2>2. CASE g = f /\ h # f
      BY <1>1, <1>2, <1>3, <2>2
    <2>3. CASE g # f /\ h = f
      BY <1>1, <1>2, <1>3, <2>3
    <2>4. CASE g # f /\ h # f
      BY <1>1, <1>3, <2>4, DosBloques
    <2> QED
      BY <2>1, <2>2, <2>3, <2>4
  <1>4. SinCompartir(archivos')
    BY <1>3 DEF SinCompartir
  <1>5. ASSUME NEW g \in Nombres PROVE Ocupa(archivos'[g]) \subseteq bitmap'
    <2>1. CASE g = f
      BY <1>1, <2>1 DEF Ocupa
    <2>2. CASE g # f
      BY <1>1, <2>2 DEF Exclusividad
    <2> QED
      BY <2>1, <2>2
  <1> QED
    BY <1>4, <1>5 DEF Exclusividad, SinCompartir

(* The list of a file followed by blocks that were free and are marked now. *)
LEMMA AlargarLista ==
    ASSUME TypeOK, Exclusividad, NEW f \in Nombres, bitmap \subseteq bitmap',
           NEW s \in Seq(Bloques),
           \A k \in DOMAIN s : s[k] \notin bitmap /\ s[k] \in bitmap',
           \A k, m \in DOMAIN s : s[k] = s[m] => k = m,
           NEW l \in Seq(Bloques),
           Len(l) = Len(archivos[f].BLOQUES) + Len(s),
           \A k \in 1 .. Len(archivos[f].BLOQUES) + Len(s) :
               l[k] = IF k <= Len(archivos[f].BLOQUES) THEN archivos[f].BLOQUES[k]
                      ELSE s[k - Len(archivos[f].BLOQUES)]
    PROVE  /\ \A k, m \in DOMAIN l : l[k] = l[m] => k = m
           /\ \A k \in DOMAIN l : /\ l[k] \in bitmap'
                                  /\ l[k] \in Ocupa(archivos[f]) \/ l[k] \notin bitmap
  <1> DEFINE b == archivos[f].BLOQUES
             L == Len(b)
             n == Len(s)
  <1>1. /\ b \in Seq(Bloques) /\ L \in Nat /\ DOMAIN b = 1 .. L
        /\ n \in Nat /\ DOMAIN s = 1 .. n
    BY TipoDeArchivo, LenProperties
  <1>2. /\ \A k \in 1 .. n : s[k] \notin bitmap /\ s[k] \in bitmap'
        /\ \A k, m \in 1 .. n : s[k] = s[m] => k = m
    BY <1>1
  <1>3. \A k \in 1 .. L + n : l[k] = IF k <= L THEN b[k] ELSE s[k - L]
    OBVIOUS
  <1>4. DOMAIN l = 1 .. L + n
    BY LenProperties
  <1>5. ASSUME NEW k \in 1 .. L
        PROVE  l[k] = b[k] /\ b[k] \in Ocupa(archivos[f]) /\ b[k] \in bitmap
    <2>1. k \in DOMAIN b /\ k \in 1 .. L + n /\ k <= L
      BY <1>1
    <2>2. b[k] \in Ocupa(archivos[f])
      BY <2>1 DEF Ocupa
    <2> QED
      BY <1>3, <2>1, <2>2 DEF Exclusividad
  <1>6. ASSUME NEW k \in (L + 1) .. (L + n)
        PROVE  l[k] = s[k - L] /\ k - L \in 1 .. n /\ s[k - L] \notin bitmap
    BY <1>1, <1>2, <1>3
  <1>7. \A k \in 1 .. L + n : k \in 1 .. L \/ k \in (L + 1) .. (L + n)
    BY <1>1
  <1>8. ASSUME NEW k \in DOMAIN l, NEW m \in DOMAIN l, l[k] = l[m] PROVE k = m
    <2>1. CASE k \in 1 .. L /\ m \in 1 .. L
      BY <1>1, <1>5, <1>8, <2>1, DosBloques
    <2>2. CASE k \in (L + 1) .. (L + n) /\ m \in (L + 1) .. (L + n)
      <3>1. k - L = m - L
        BY <1>2, <1>6, <1>8, <2>2
      <3>2. k \in Int /\ m \in Int /\ L \in Int
        BY <1>1, <2>2
      <3> HIDE DEF L
      <3> QED
        BY <3>1, <3>2
    <2>3. ~(k \in 1 .. L /\ m \in (L + 1) .. (L + n))
      BY <1>5, <1>6, <1>8
    <2>4. ~(m \in 1 .. L /\ k \in (L + 1) .. (L + n))
      BY <1>5, <1>6, <1>8
    <2> QED
      BY <1>4, <1>7, <2>1, <2>2, <2>3, <2>4
  <1>9. ASSUME NEW k \in DOMAIN l
        PROVE  /\ l[k] \in bitmap'
               /\ l[k] \in Ocupa(archivos[f]) \/ l[k] \notin bitmap
    <2>1. CASE k \in 1 .. L
      BY <1>5, <2>1
    <2>2. CASE k \in (L + 1) .. (L + n)
      BY <1>2, <1>6, <2>2
    <2> QED
      BY <1>4, <1>7, <2>1, <2>2
  <1> QED
    BY <1>8, <1>9

(* When the number of blocks is a multiple of 8 the whole map is on disk. *)
LEMMA MapaEnDisco ==
    ASSUME MapaEntero
    PROVE  Persisten = Bloques
  <1>1. cantidadBloques \in Int /\ BitsPorByte \in Int /\ BitsPorByte > 0
    BY MDJAssumption
  <1>2. cantidadBloques = BitsPorByte * (cantidadBloques \div BitsPorByte)
    BY <1>1 DEF MapaEntero
  <1>3. \A b \in Bloques : b < cantidadBloques
    BY <1>1 DEF Bloques
  <1> QED
    BY <1>2, <1>3 DEF Persisten

LEMMA ExclusividadAlInicio == Init => Exclusividad
  BY MDJAssumption DEF Init, Exclusividad

(* A step of MDJ killed nowhere in borrar, on a map of whole bytes. *)
LEMMA ExclusividadDelPaso ==
    ASSUME "borrar" \notin Caidas, MapaEntero
    PROVE  TypeOK /\ Exclusividad /\ [Next]_vars => Exclusividad'
  <1> SUFFICES ASSUME TypeOK, Exclusividad, [Next]_vars PROVE Exclusividad'
    OBVIOUS
  <1>a. ASSUME archivos' = archivos, bitmap \subseteq bitmap' PROVE Exclusividad'
    BY <1>a DEF Exclusividad
  <1>b. ASSUME NEW f \in Nombres, bitmap \subseteq bitmap',
               archivos' = [archivos EXCEPT ![f] = Truncado]
        PROVE  Exclusividad'
    <2>1. DOMAIN Truncado.BLOQUES = {}
      BY EmptySeq DEF Truncado
    <2> QED
      BY <1>b, <2>1, UnoCambia
  <1>1. CASE UNCHANGED vars
    BY <1>1, <1>a DEF vars
  <1>2. CASE Reiniciar
    <2>1. bitmap' = bitmap
      BY <1>2, MapaEnDisco DEF Reiniciar, TypeOK
    <2> QED
      BY <1>2, <2>1, <1>a DEF Reiniciar
  <1>3. ASSUME NEW f \in Nombres,
               \/ Abrir(f) \/ AbrirMuere(f) \/ CrearExistente(f)
               \/ BorrarAusente(f) \/ BorrarIlegible(f)
               \/ GuardarAusente(f) \/ GuardarIlegible(f)
        PROVE  Exclusividad'
    BY <1>3, <1>a DEF Abrir, AbrirMuere, CrearExistente, BorrarAusente, BorrarIlegible,
                      GuardarAusente, GuardarIlegible, DiscoIgual
  <1>4. ASSUME NEW f \in Nombres, Borrar(f) PROVE Exclusividad'
    <2>1. /\ bitmap' = bitmap \ Ocupa(archivos[f])
          /\ archivos' = [archivos EXCEPT ![f] = Ausente]
      BY <1>4 DEF Borrar, Liberados
    <2>2. archivos'[f] = Ausente /\ \A g \in Nombres \ {f} : archivos'[g] = archivos[g]
      BY <2>1 DEF TypeOK
    <2>3. DOMAIN Ausente.BLOQUES = {}
      BY EmptySeq DEF Ausente
    <2>4. SinCompartir(archivos')
      BY <2>2, <2>3, DosBloques DEF SinCompartir
    <2>5. ASSUME NEW g \in Nombres PROVE Ocupa(archivos'[g]) \subseteq bitmap'
      <3>1. CASE g = f
        BY <2>2, <3>1, AusenteEsArchivo
      <3>2. CASE g # f
        <4>1. Ocupa(archivos[g]) \subseteq bitmap
          BY DEF Exclusividad
        <4>2. Ocupa(archivos[g]) \cap Ocupa(archivos[f]) = {}
          BY <3>2, DosBloques DEF Ocupa
        <4> QED
          BY <2>1, <2>2, <3>2, <4>1, <4>2
      <3> QED
        BY <3>1, <3>2
    <2> QED
      BY <2>4, <2>5 DEF Exclusividad, SinCompartir
  <1>5. ASSUME NEW f \in Nombres, BorrarCortado(f) PROVE Exclusividad'
    BY <1>5 DEF BorrarCortado
  <1>6. ASSUME NEW f \in Nombres, NEW n \in Tamanios, CrearSinEspacio(f, n)
        PROVE  Exclusividad'
    BY <1>6, <1>a DEF CrearSinEspacio, DiscoIgual
  <1>7. ASSUME NEW f \in Nombres, NEW n \in Tamanios, Crear(f, n) PROVE Exclusividad'
    <2> DEFINE N == Necesarios(n)
    <2>1. N \in Nat
      BY MDJAssumption, NecesariosNat
    <2>2. PICK s \in Secuencias(N) :
                /\ SonPrimerosLibres(s, N)
                /\ Marcar({s[k] : k \in DOMAIN s})
                /\ archivos' = [archivos EXCEPT ![f] =
                            IF N = 0
                            THEN [estado |-> "abierto", TAMANIO |-> n, BLOQUES |-> <<>>]
                            ELSE Completo(n, s)]
      BY <1>7 DEF Crear
    <2>3. bitmap \subseteq bitmap'
      BY <2>2 DEF Marcar
    <2>4. CASE N = 0
      <3> DEFINE a == [estado |-> "abierto", TAMANIO |-> n, BLOQUES |-> <<>>]
      <3>1. DOMAIN a.BLOQUES = {}
        BY EmptySeq
      <3>2. archivos' = [archivos EXCEPT ![f] = a]
        BY <2>2, <2>4
      <3> HIDE DEF a
      <3> QED
        BY <2>3, <3>1, <3>2, UnoCambia
    <2>5. CASE N # 0
      <3> DEFINE a == Completo(n, s)
      <3>1. a.BLOQUES = s
        BY DEF Completo
      <3>2. /\ \A k, m \in DOMAIN s : s[k] = s[m] => k = m
            /\ \A k \in DOMAIN s : s[k] \in bitmap' /\ s[k] \notin bitmap
        BY <2>1, <2>2, PrimerosLibres DEF Marcar
      <3>3. archivos' = [archivos EXCEPT ![f] = a]
        BY <2>2, <2>5
      <3> HIDE DEF a
      <3> QED
        BY <2>3, <3>1, <3>2, <3>3, UnoCambia
    <2> QED
      BY <2>4, <2>5
  <1>8. ASSUME NEW f \in Nombres, NEW n \in Tamanios, CrearCortado(f, n) PROVE Exclusividad'
    <2>1. bitmap \subseteq bitmap'
      BY <1>8 DEF CrearCortado, Marcar
    <2>2. archivos' = archivos \/ archivos' = [archivos EXCEPT ![f] = Truncado]
      BY <1>8 DEF CrearCortado
    <2> QED
      BY <2>1, <2>2, <1>a, <1>b
  <1>9. ASSUME NEW f \in Nombres, NEW n \in Tamanios, GuardarIgual(f, n) \/ GuardarSinEspacio(f, n)
        PROVE  Exclusividad'
    BY <1>9, <1>a DEF GuardarIgual, GuardarSinEspacio
  <1>10. ASSUME NEW f \in Nombres, NEW n \in Tamanios, GuardarMenos(f, n) PROVE Exclusividad'
    <2> DEFINE a == Completo(n + 1, archivos[f].BLOQUES)
    <2>1. archivos' = [archivos EXCEPT ![f] = a] /\ bitmap' = bitmap
      BY <1>10 DEF GuardarMenos
    <2>2. a.BLOQUES = archivos[f].BLOQUES
      BY DEF Completo
    <2>3. \A k \in DOMAIN archivos[f].BLOQUES :
              archivos[f].BLOQUES[k] \in Ocupa(archivos[f]) /\ archivos[f].BLOQUES[k] \in bitmap
      BY DEF Exclusividad, Ocupa
    <2>4. \A k, m \in DOMAIN archivos[f].BLOQUES :
              archivos[f].BLOQUES[k] = archivos[f].BLOQUES[m] => k = m
      BY DosBloques
    <2> HIDE DEF a
    <2> QED
      BY <2>1, <2>2, <2>3, <2>4, UnoCambia
  <1>11. ASSUME NEW f \in Nombres, NEW n \in Tamanios, Guardar(f, n) PROVE Exclusividad'
    <2>1. PICK F \in Nat : F = Faltan(f, n)
      BY <1>11, MDJAssumption, FaltanNat DEF Guardar
    <2>2. PICK s \in Secuencias(F) :
                /\ SonPrimerosLibres(s, F)
                /\ Marcar({s[k] : k \in DOMAIN s})
                /\ archivos' = [archivos EXCEPT ![f] = Completo(n + 1, archivos[f].BLOQUES \o s)]
      BY <1>11, <2>1 DEF Guardar
    <2> DEFINE a == Completo(n + 1, archivos[f].BLOQUES \o s)
    <2>3. bitmap \subseteq bitmap'
      BY <2>2 DEF Marcar
    <2>4. PICK l : l = archivos[f].BLOQUES \o s
      OBVIOUS
    <2>5. a.BLOQUES = l
      BY <2>4 DEF Completo
    <2>6. archivos' = [archivos EXCEPT ![f] = a]
      BY <2>2
    <2>7. /\ s \in Seq(Bloques)
          /\ \A k \in DOMAIN s : s[k] \notin bitmap /\ s[k] \in bitmap'
          /\ \A k, m \in DOMAIN s : s[k] = s[m] => k = m
      BY <2>2, PrimerosLibres DEF Marcar
    <2>8. /\ l \in Seq(Bloques)
          /\ Len(l) = Len(archivos[f].BLOQUES) + Len(s)
          /\ \A k \in 1 .. Len(archivos[f].BLOQUES) + Len(s) :
               l[k] = IF k <= Len(archivos[f].BLOQUES) THEN archivos[f].BLOQUES[k]
                      ELSE s[k - Len(archivos[f].BLOQUES)]
      BY <2>4, <2>7, TipoDeArchivo, ConcatProperties
    <2> HIDE DEF a
    <2>9. /\ \A k, m \in DOMAIN l : l[k] = l[m] => k = m
          /\ \A k \in DOMAIN l : /\ l[k] \in bitmap'
                                 /\ l[k] \in Ocupa(archivos[f]) \/ l[k] \notin bitmap
      BY <2>3, <2>7, <2>8, AlargarLista
    <2> QED
      BY <2>3, <2>5, <2>6, <2>9, UnoCambia
  <1>12. ASSUME NEW f \in Nombres, NEW n \in Tamanios, GuardarCortado(f, n) PROVE Exclusividad'
    <2>1. bitmap \subseteq bitmap'
      BY <1>12 DEF GuardarCortado, Marcar
    <2>2. archivos' = archivos \/ archivos' = [archivos EXCEPT ![f] = Truncado]
      BY <1>12 DEF GuardarCortado
    <2> QED
      BY <2>1, <2>2, <1>a, <1>b
  <1> QED
    BY <1>1, <1>2, <1>3, <1>4, <1>5, <1>6, <1>7, <1>8, <1>9, <1>10, <1>11, <1>12 DEF Next

(* No block is ever in two files or free while a file has it: whatever the requests *)
(* and the kills inside crear and flush, on any disk whose map has whole bytes and  *)
(* provided MDJ is never killed inside borrar.                                      *)
THEOREM SinBloquesCompartidos ==
    ASSUME "borrar" \notin Caidas, MapaEntero
    PROVE  Spec => []Exclusividad
  <1>1. TypeOK /\ Exclusividad /\ [Next]_vars => Exclusividad'
    BY ExclusividadDelPaso
  <1> QED
    BY <1>1, ExclusividadAlInicio, Tipo, PTL DEF Spec

--------------------------------------------------------------------------------
(* No block leaks *)

(* The strengthening: only a whole metadata file has blocks. *)
SoloCompletos == \A f \in Nombres : archivos[f].estado # "completo" => Ocupa(archivos[f]) = {}

LEMMA SoloCompletosAlInicio == Init => SoloCompletos
  BY MDJAssumption, AusenteEsArchivo DEF Init, SoloCompletos

(* Replacing the metadata of one file leaks nothing when every bit set afterwards is *)
(* that of a block of the new list, or was set and is not that of a block it lost.    *)
LEMMA UnoSinFugas ==
    ASSUME TypeOK, SinFugas, SoloCompletos, NEW f \in Nombres, NEW a,
           archivos' = [archivos EXCEPT ![f] = a],
           \A b \in bitmap' : b \in Ocupa(a) \/ (b \in bitmap /\ b \notin Ocupa(archivos[f])),
           a.estado # "completo" => Ocupa(a) = {}
    PROVE  SinFugas' /\ SoloCompletos'
  <1>1. archivos'[f] = a /\ \A g \in Nombres \ {f} : archivos'[g] = archivos[g]
    BY DEF TypeOK
  <1>2. ASSUME NEW b \in bitmap' PROVE \E g \in Nombres : b \in Ocupa(archivos'[g])
    <2>1. CASE b \in Ocupa(a)
      BY <1>1, <2>1
    <2>2. CASE b \in bitmap /\ b \notin Ocupa(archivos[f])
      <3>1. PICK g \in Nombres : b \in Ocupa(archivos[g])
        BY <2>2 DEF SinFugas
      <3> QED
        BY <1>1, <2>2, <3>1
    <2> QED
      BY <2>1, <2>2
  <1>3. SinFugas'
    BY <1>2 DEF SinFugas
  <1>4. ASSUME NEW g \in Nombres, archivos'[g].estado # "completo"
        PROVE  Ocupa(archivos'[g]) = {}
    <2>1. CASE g = f
      BY <1>1, <1>4, <2>1
    <2>2. CASE g # f
      BY <1>1, <1>4, <2>2 DEF SoloCompletos
    <2> QED
      BY <2>1, <2>2
  <1>5. SoloCompletos'
    BY <1>4 DEF SoloCompletos
  <1> QED
    BY <1>3, <1>5

LEMMA SinFugasDelPaso ==
    ASSUME Caidas \subseteq {"borrar"}
    PROVE  TypeOK /\ SinFugas /\ SoloCompletos /\ [Next]_vars => SinFugas' /\ SoloCompletos'
  <1> SUFFICES ASSUME TypeOK, SinFugas, SoloCompletos, [Next]_vars
               PROVE  SinFugas' /\ SoloCompletos'
    OBVIOUS
  <1>a. ASSUME archivos' = archivos, bitmap' \subseteq bitmap PROVE SinFugas' /\ SoloCompletos'
    BY <1>a DEF SinFugas, SoloCompletos
  <1>1. CASE UNCHANGED vars
    BY <1>1, <1>a DEF vars
  <1>2. CASE Reiniciar
    BY <1>2, <1>a DEF Reiniciar
  <1>3. ASSUME NEW f \in Nombres,
               \/ Abrir(f) \/ AbrirMuere(f) \/ CrearExistente(f)
               \/ BorrarAusente(f) \/ BorrarIlegible(f)
               \/ GuardarAusente(f) \/ GuardarIlegible(f)
        PROVE  SinFugas' /\ SoloCompletos'
    BY <1>3, <1>a DEF Abrir, AbrirMuere, CrearExistente, BorrarAusente, BorrarIlegible,
                      GuardarAusente, GuardarIlegible, DiscoIgual
  <1>4. ASSUME NEW f \in Nombres, Borrar(f) PROVE SinFugas' /\ SoloCompletos'
    <2>1. /\ bitmap' = bitmap \ Ocupa(archivos[f])
          /\ archivos' = [archivos EXCEPT ![f] = Ausente]
      BY <1>4 DEF Borrar, Liberados
    <2> QED
      BY <2>1, AusenteEsArchivo, UnoSinFugas
  <1>5. ASSUME NEW f \in Nombres, BorrarCortado(f) PROVE SinFugas' /\ SoloCompletos'
    BY <1>5, <1>a DEF BorrarCortado
  <1>6. ASSUME NEW f \in Nombres, NEW n \in Tamanios, CrearSinEspacio(f, n)
        PROVE  SinFugas' /\ SoloCompletos'
    BY <1>6, <1>a DEF CrearSinEspacio, DiscoIgual
  <1>7. ASSUME NEW f \in Nombres, NEW n \in Tamanios, Crear(f, n)
        PROVE  SinFugas' /\ SoloCompletos'
    <2> DEFINE N == Necesarios(n)
    <2>1. N \in Nat
      BY MDJAssumption, NecesariosNat
    <2>2. PICK s \in Secuencias(N) :
                /\ SonPrimerosLibres(s, N)
                /\ Marcar({s[k] : k \in DOMAIN s})
                /\ archivos' = [archivos EXCEPT ![f] =
                            IF N = 0
                            THEN [estado |-> "abierto", TAMANIO |-> n, BLOQUES |-> <<>>]
                            ELSE Completo(n, s)]
      BY <1>7 DEF Crear
    <2>3. DOMAIN s = 1 .. N
      BY <2>1, <2>2, PrimerosLibres
    <2>4. Ocupa(archivos[f]) = {}
      BY <1>7 DEF Crear, Existe, SoloCompletos
    <2>5. \A b \in bitmap' : (\E k \in DOMAIN s : b = s[k]) \/ b \in bitmap
      BY <2>2 DEF Marcar
    <2>6. CASE N = 0
      <3> DEFINE a == [estado |-> "abierto", TAMANIO |-> n, BLOQUES |-> <<>>]
      <3>1. Ocupa(a) = {}
        BY EmptySeq DEF Ocupa
      <3>2. archivos' = [archivos EXCEPT ![f] = a]
        BY <2>2, <2>6
      <3>3. DOMAIN s = {}
        BY <2>3, <2>6
      <3> HIDE DEF a
      <3> QED
        BY <2>4, <2>5, <3>1, <3>2, <3>3, UnoSinFugas
    <2>7. CASE N # 0
      <3> DEFINE a == Completo(n, s)
      <3>1. a.estado = "completo" /\ Ocupa(a) = {s[k] : k \in DOMAIN s}
        BY DEF Completo, Ocupa
      <3>2. archivos' = [archivos EXCEPT ![f] = a]
        BY <2>2, <2>7
      <3>3. \A b \in bitmap' : b \in Ocupa(a) \/ b \in bitmap
        BY <2>5, <3>1
      <3> HIDE DEF a
      <3> QED
        BY <2>4, <3>1, <3>2, <3>3, UnoSinFugas
    <2> QED
      BY <2>6, <2>7
  <1>8. ASSUME NEW f \in Nombres, NEW n \in Tamanios,
               CrearCortado(f, n) \/ GuardarCortado(f, n)
        PROVE  SinFugas' /\ SoloCompletos'
    BY <1>8 DEF CrearCortado, GuardarCortado
  <1>9. ASSUME NEW f \in Nombres, NEW n \in Tamanios, GuardarIgual(f, n) \/ GuardarSinEspacio(f, n)
        PROVE  SinFugas' /\ SoloCompletos'
    BY <1>9, <1>a DEF GuardarIgual, GuardarSinEspacio
  <1>10. ASSUME NEW f \in Nombres, NEW n \in Tamanios, GuardarMenos(f, n)
         PROVE  SinFugas' /\ SoloCompletos'
    <2> DEFINE a == Completo(n + 1, archivos[f].BLOQUES)
    <2>1. archivos' = [archivos EXCEPT ![f] = a] /\ bitmap' = bitmap
      BY <1>10 DEF GuardarMenos
    <2>2. a.estado = "completo" /\ Ocupa(a) = Ocupa(archivos[f])
      BY DEF Completo, Ocupa
    <2> HIDE DEF a
    <2> QED
      BY <2>1, <2>2, UnoSinFugas
  <1>11. ASSUME NEW f \in Nombres, NEW n \in Tamanios, Guardar(f, n)
         PROVE  SinFugas' /\ SoloCompletos'
    <2>1. PICK F \in Nat : F = Faltan(f, n)
      BY <1>11, MDJAssumption, FaltanNat DEF Guardar
    <2>2. PICK s \in Secuencias(F) :
                /\ SonPrimerosLibres(s, F)
                /\ Marcar({s[k] : k \in DOMAIN s})
                /\ archivos' = [archivos EXCEPT ![f] = Completo(n + 1, archivos[f].BLOQUES \o s)]
      BY <1>11, <2>1 DEF Guardar
    <2>3. PICK l : l = archivos[f].BLOQUES \o s
      OBVIOUS
    <2> DEFINE a == Completo(n + 1, l)
    <2>4. archivos' = [archivos EXCEPT ![f] = a]
      BY <2>2, <2>3
    <2>5. /\ s \in Seq(Bloques) /\ archivos[f].BLOQUES \in Seq(Bloques)
      BY <2>2, PrimerosLibres, TipoDeArchivo
    <2>6. a.estado = "completo" /\ a.BLOQUES = l
      BY DEF Completo
    <2>7. /\ \A k \in DOMAIN s : \E m \in DOMAIN l : l[m] = s[k]
          /\ \A k \in DOMAIN archivos[f].BLOQUES : \E m \in DOMAIN l : l[m] = archivos[f].BLOQUES[k]
      <3> DEFINE b == archivos[f].BLOQUES
                 L == Len(b)
                 M == Len(s)
      <3>1. /\ L \in Nat /\ DOMAIN b = 1 .. L
            /\ M \in Nat /\ DOMAIN s = 1 .. M
        BY <2>5, LenProperties
      <3>2. /\ l \in Seq(Bloques) /\ Len(l) = L + M
            /\ \A k \in 1 .. L + M : l[k] = IF k <= L THEN b[k] ELSE s[k - L]
        BY <2>3, <2>5, ConcatProperties
      <3>3. DOMAIN l = 1 .. L + M
        BY <3>2, LenProperties
      <3> HIDE DEF b, L, M
      <3>4. ASSUME NEW k \in 1 .. M PROVE k + L \in 1 .. L + M /\ l[k + L] = s[k]
        BY <3>1, <3>2
      <3>5. ASSUME NEW k \in 1 .. L PROVE k \in 1 .. L + M /\ l[k] = b[k]
        BY <3>1, <3>2
      <3> QED
        BY <3>1, <3>3, <3>4, <3>5 DEF b
    <2>8. \A b \in bitmap' : b \in Ocupa(a) \/ (b \in bitmap /\ b \notin Ocupa(archivos[f]))
      <3>1. Ocupa(archivos[f]) \subseteq Ocupa(a)
        BY <2>6, <2>7 DEF Ocupa
      <3>2. {s[k] : k \in DOMAIN s} \subseteq Ocupa(a)
        BY <2>6, <2>7 DEF Ocupa
      <3> QED
        BY <2>2, <3>1, <3>2 DEF Marcar
    <2> HIDE DEF a
    <2> QED
      BY <2>4, <2>6, <2>8, UnoSinFugas
  <1> QED
    BY <1>1, <1>2, <1>3, <1>4, <1>5, <1>6, <1>7, <1>8, <1>9, <1>10, <1>11 DEF Next

(* Every bit set is that of a block of some file: on any disk, whatever the requests  *)
(* and the kills inside borrar, provided MDJ is never killed inside crear or flush.    *)
THEOREM SinBloquesPerdidos ==
    ASSUME Caidas \subseteq {"borrar"}
    PROVE  Spec => []SinFugas
  <1>1. Init => SinFugas
    BY DEF Init, SinFugas
  <1>2. TypeOK /\ SinFugas /\ SoloCompletos /\ [Next]_vars => SinFugas' /\ SoloCompletos'
    BY SinFugasDelPaso
  <1> QED
    BY <1>1, <1>2, SoloCompletosAlInicio, Tipo, PTL DEF Spec

--------------------------------------------------------------------------------
(* Nobody writes in the blocks of another *)

(* A list of blocks that leaves the blocks of g alone: so does writing it. *)
LEMMA EscribirAfuera ==
    ASSUME TypeOK, NEW f \in Nombres, NEW g \in Nombres, NEW bs,
           \A i \in DOMAIN bs : bs[i] \notin Ocupa(archivos[g]),
           NEW k \in DOMAIN archivos[g].BLOQUES,
           datos' = Escribir(f, bs)
    PROVE  datos'[archivos[g].BLOQUES[k]] = datos[archivos[g].BLOQUES[k]]
  <1> DEFINE b == archivos[g].BLOQUES[k]
  <1>1. b \in Ocupa(archivos[g]) /\ b \in Bloques
    BY TipoDeArchivo DEF Ocupa
  <1>2. ~\E i \in DOMAIN bs : bs[i] = b
    BY <1>1
  <1> HIDE DEF b
  <1>3. datos'[b] = datos[b]
    BY <1>1, <1>2 DEF Escribir
  <1> QED
    BY <1>3 DEF b

(* The list of a file, followed by free blocks or not, has no block of another file. *)
LEMMA ListaAjena ==
    ASSUME TypeOK, Exclusividad, NEW f \in Nombres, NEW g \in Nombres, f # g,
           NEW t \in Seq(Bloques), \A i \in 1 .. Len(t) : t[i] \notin bitmap,
           NEW i \in DOMAIN (archivos[f].BLOQUES \o t)
    PROVE  (archivos[f].BLOQUES \o t)[i] \notin Ocupa(archivos[g])
  <1> DEFINE b == archivos[f].BLOQUES
             L == Len(b)
             M == Len(t)
             l == b \o t
  <1>1. /\ b \in Seq(Bloques) /\ L \in Nat /\ DOMAIN b = 1 .. L /\ M \in Nat
    BY TipoDeArchivo, LenProperties
  <1>2. /\ l \in Seq(Bloques) /\ Len(l) = L + M
        /\ \A k \in 1 .. L + M : l[k] = IF k <= L THEN b[k] ELSE t[k - L]
    BY <1>1, ConcatProperties
  <1>3. i \in 1 .. L + M
    BY <1>2, LenProperties
  <1>4. \A k \in 1 .. L : b[k] \notin Ocupa(archivos[g])
    BY <1>1, DosBloques DEF Ocupa
  <1>5. Ocupa(archivos[g]) \subseteq bitmap
    BY DEF Exclusividad
  <1> HIDE DEF b, l, L, M
  <1>6. CASE i <= L
    BY <1>1, <1>2, <1>3, <1>4, <1>6 DEF l, b
  <1>7. CASE ~(i <= L)
    <2>1. i - L \in 1 .. M
      BY <1>1, <1>3, <1>7
    <2>2. l[i] = t[i - L]
      BY <1>2, <1>3, <1>7
    <2> QED
      BY <1>5, <2>1, <2>2 DEF l, b, M
  <1> QED
    BY <1>6, <1>7

(* The disjunct of each flush that writes, and the list it writes along. *)
LEMMA EscribeSoloLoSuyoDelPaso ==
    TypeOK /\ Exclusividad /\ [Next]_vars =>
        [\A f \in Nombres \ {ultimo'.archivo} : \A k \in DOMAIN archivos[f].BLOQUES :
            ultimo'.op # "crear" =>
                datos'[archivos[f].BLOQUES[k]] = datos[archivos[f].BLOQUES[k]]]_vars
  <1> DEFINE Ajenos == \A f \in Nombres \ {ultimo'.archivo} : \A k \in DOMAIN archivos[f].BLOQUES :
                          ultimo'.op # "crear" =>
                             datos'[archivos[f].BLOQUES[k]] = datos[archivos[f].BLOQUES[k]]
  <1> SUFFICES ASSUME TypeOK, Exclusividad, Next PROVE Ajenos
    OBVIOUS
  <1>a. ASSUME datos' = datos PROVE Ajenos
    BY <1>a
  <1>b. ASSUME ultimo'.op = "crear" PROVE Ajenos
    BY <1>b
  <1>c. ASSUME NEW f \in Nombres, ultimo'.archivo = f, NEW bs, datos' = Escribir(f, bs),
               \A g \in Nombres \ {f} : \A i \in DOMAIN bs : bs[i] \notin Ocupa(archivos[g])
        PROVE  Ajenos
    BY <1>c, EscribirAfuera
  <1>1. CASE Reiniciar
    BY <1>1, <1>a DEF Reiniciar
  <1>2. ASSUME NEW f \in Nombres,
               \/ Abrir(f) \/ AbrirMuere(f) \/ CrearExistente(f)
               \/ BorrarAusente(f) \/ BorrarIlegible(f) \/ Borrar(f) \/ BorrarCortado(f)
               \/ GuardarAusente(f) \/ GuardarIlegible(f)
        PROVE  Ajenos
    BY <1>2, <1>a DEF Abrir, AbrirMuere, CrearExistente, BorrarAusente, BorrarIlegible, Borrar,
                      BorrarCortado, GuardarAusente, GuardarIlegible, DiscoIgual
  <1>3. ASSUME NEW f \in Nombres, NEW n \in Tamanios,
               CrearSinEspacio(f, n) \/ Crear(f, n) \/ CrearCortado(f, n)
        PROVE  Ajenos
    BY <1>3, <1>b DEF CrearSinEspacio, Crear, CrearCortado, Responder, Morir
  <1>4. ASSUME NEW f \in Nombres, NEW n \in Tamanios,
               GuardarIgual(f, n) \/ GuardarMenos(f, n) \/ GuardarSinEspacio(f, n)
        PROVE  Ajenos
    <2>1. ultimo'.archivo = f /\ datos' = Escribir(f, archivos[f].BLOQUES)
      BY <1>4 DEF GuardarIgual, GuardarMenos, GuardarSinEspacio, Responder
    <2>2. \A g \in Nombres \ {f} : \A i \in DOMAIN archivos[f].BLOQUES :
              archivos[f].BLOQUES[i] \notin Ocupa(archivos[g])
      BY DosBloques DEF Ocupa
    <2> QED
      BY <2>1, <2>2, <1>c
  <1>5. ASSUME NEW f \in Nombres, NEW n \in Tamanios, Guardar(f, n)
        PROVE  Ajenos
    <2>1. PICK F \in Nat : F = Faltan(f, n)
      BY <1>5, MDJAssumption, FaltanNat DEF Guardar
    <2>2. PICK s \in Secuencias(F) :
                SonPrimerosLibres(s, F) /\ datos' = Escribir(f, archivos[f].BLOQUES \o s)
      BY <1>5, <2>1 DEF Guardar
    <2>3. s \in Seq(Bloques) /\ \A i \in 1 .. Len(s) : s[i] \notin bitmap
      BY <2>2, PrimerosLibres
    <2>4. PICK bs : bs = archivos[f].BLOQUES \o s
      OBVIOUS
    <2>5. \A g \in Nombres \ {f} : \A i \in DOMAIN bs : bs[i] \notin Ocupa(archivos[g])
      BY <2>3, <2>4, ListaAjena
    <2>6. ultimo'.archivo = f
      BY <1>5 DEF Guardar, Responder
    <2> QED
      BY <2>2, <2>4, <2>5, <2>6, <1>c
  <1>6. ASSUME NEW f \in Nombres, NEW n \in Tamanios, GuardarCortado(f, n)
        PROVE  Ajenos
    <2>1. PICK F \in Nat : F = Faltan(f, n)
      BY <1>6, MDJAssumption, FaltanNat DEF GuardarCortado
    <2>2. PICK s \in Secuencias(F), j \in 0 .. F :
                /\ SonPrimerosLibres(s, F)
                /\ datos' = Escribir(f, archivos[f].BLOQUES \o SubSeq(s, 1, j))
      BY <1>6, <2>1 DEF GuardarCortado
    <2>3. \A i \in 1 .. j : s[i] \in Bloques /\ s[i] \notin bitmap
      BY <2>2, PrimerosLibres
    <2>4. PICK t : t = SubSeq(s, 1, j)
      OBVIOUS
    <2>5. t \in Seq(Bloques) /\ \A i \in 1 .. Len(t) : t[i] \notin bitmap
      <3>1. j \in Int /\ 1 \in Int
        OBVIOUS
      <3>2. /\ SubSeq(s, 1, j) \in Seq(Bloques)
            /\ Len(SubSeq(s, 1, j)) = IF 1 <= j THEN j - 1 + 1 ELSE 0
            /\ \A i \in 1 .. j - 1 + 1 : SubSeq(s, 1, j)[i] = s[1 + i - 1]
        BY <2>3, <3>1, SubSeqProperties
      <3>3. \A i \in 1 .. Len(t) : i \in 1 .. j /\ t[i] = s[i]
        BY <2>4, <3>1, <3>2
      <3> QED
        BY <2>3, <2>4, <3>2, <3>3
    <2>6. PICK bs : bs = archivos[f].BLOQUES \o t
      OBVIOUS
    <2>7. \A g \in Nombres \ {f} : \A i \in DOMAIN bs : bs[i] \notin Ocupa(archivos[g])
      BY <2>5, <2>6, ListaAjena
    <2>8. ultimo'.archivo = f
      BY <1>6 DEF GuardarCortado, Morir
    <2> QED
      BY <2>2, <2>4, <2>6, <2>7, <2>8, <1>c
  <1> QED
    BY <1>1, <1>2, <1>3, <1>4, <1>5, <1>6 DEF Next

(* A flush writes in blocks of its own file only, the one cut short included: on any *)
(* disk whose map has whole bytes, provided MDJ is never killed inside borrar.        *)
THEOREM BloquesAjenosIntactos ==
    ASSUME "borrar" \notin Caidas, MapaEntero
    PROVE  Spec => EscribeSoloLoSuyo
  <1>1. Spec => []Exclusividad
    BY SinBloquesCompartidos
  <1> QED
    BY <1>1, Tipo, EscribeSoloLoSuyoDelPaso, PTL DEF Spec, EscribeSoloLoSuyo

--------------------------------------------------------------------------------
(* MDJ implements Disco *)

(* The blocks of the files, the value of Disco's de. *)
De == [f \in Nombres |-> Ocupa(archivos[f])]

(* The metadata of one file changes: only its blocks do. *)
LEMMA UnoDe ==
    ASSUME TypeOK, NEW f \in Nombres, NEW a, archivos' = [archivos EXCEPT ![f] = a]
    PROVE  De' = [De EXCEPT ![f] = Ocupa(a)]
  <1>1. \A g \in Nombres : archivos'[g] = IF g = f THEN a ELSE archivos[g]
    BY DEF TypeOK
  <1>2. De' = [g \in Nombres |-> Ocupa(archivos'[g])]
    BY DEF De
  <1>3. De' = [g \in Nombres |-> IF g = f THEN Ocupa(a) ELSE De[g]]
    <2>1. \A g \in Nombres : Ocupa(archivos'[g]) = IF g = f THEN Ocupa(a) ELSE De[g]
      BY <1>1 DEF De
    <2> HIDE DEF De
    <2> QED
      BY <1>2, <2>1
  <1> QED
    BY <1>3 DEF De

(* Giving a file some of the free blocks. *)
LEMMA PasoTomar ==
    ASSUME TypeOK, NEW f \in Nombres, NEW a, NEW bs \in SUBSET Bloques, vivo, vivo' = TRUE,
           bs \cap bitmap = {}, bitmap' = bitmap \cup bs,
           archivos' = [archivos EXCEPT ![f] = a], Ocupa(a) = Ocupa(archivos[f]) \cup bs
    PROVE  D!Next
  <1>1. De' = [De EXCEPT ![f] = @ \cup bs]
    BY UnoDe DEF De
  <1>2. bs \subseteq Libres /\ Libres' = Libres \ bs
    BY DEF Libres
  <1>3. vivo' = vivo
    BY DEF TypeOK
  <1>4. D!Tomar(f, bs)
    BY <1>1, <1>2, <1>3 DEF D!Tomar, De
  <1> QED
    BY <1>4 DEF D!Next

(* Killed after marking some of the free blocks, with the metadata as it was or   *)
(* emptied.                                                                       *)
LEMMA PasoCaer ==
    ASSUME TypeOK, NEW f \in Nombres, NEW bs \in SUBSET Bloques, vivo, vivo' = FALSE,
           bs \cap bitmap = {}, bitmap' = bitmap \cup bs,
           archivos' = archivos \/ archivos' = [archivos EXCEPT ![f] = Truncado]
    PROVE  D!Next
  <1>1. De' = De \/ De' = [De EXCEPT ![f] = {}]
    BY UnoDe, AusenteEsArchivo DEF De
  <1>2. bs \subseteq Libres /\ Libres' = Libres \ bs
    BY DEF Libres
  <1>3. D!Caer(f, bs)
    BY <1>1, <1>2 DEF D!Caer, De
  <1> QED
    BY <1>3 DEF D!Next

(* Nothing moves on the disk: the step of Disco takes nothing, or loses nothing. *)
LEMMA PasoIgual ==
    ASSUME TypeOK, NEW f \in Nombres, vivo, De' = De, bitmap' = bitmap, vivo' \in BOOLEAN
    PROVE  [D!Next]_(D!disco)
  <1>1. Libres' = Libres
    BY DEF Libres
  <1>2. CASE vivo' = TRUE
    BY <1>1, <1>2 DEF D!disco, De, TypeOK
  <1>3. CASE vivo' = FALSE
    <2>1. D!Caer(f, {})
      BY <1>1, <1>3 DEF D!Caer, De
    <2> QED
      BY <2>1 DEF D!Next
  <1> QED
    BY <1>2, <1>3

(* The blocks s[1], ..., s[j] of the first n free ones. *)
LEMMA UnaParte ==
    ASSUME NEW n \in Nat, NEW s, SonPrimerosLibres(s, n), NEW j \in 0 .. n
    PROVE  /\ {s[k] : k \in 1 .. j} \in SUBSET Bloques
           /\ {s[k] : k \in 1 .. j} \cap bitmap = {}
  <1>1. \A k \in 1 .. j : k \in 1 .. n
    OBVIOUS
  <1> QED
    BY <1>1, PrimerosLibres

(* The blocks of a list put after the list of a file. *)
LEMMA OcupaConcatenada ==
    ASSUME TypeOK, NEW f \in Nombres, NEW s \in Seq(Bloques)
    PROVE  {(archivos[f].BLOQUES \o s)[k] : k \in DOMAIN (archivos[f].BLOQUES \o s)}
             = Ocupa(archivos[f]) \cup {s[k] : k \in 1 .. Len(s)}
  <1> DEFINE b == archivos[f].BLOQUES
             l == b \o s
  <1>1. /\ b \in Seq(Bloques) /\ Len(b) \in Nat /\ DOMAIN b = 1 .. Len(b) /\ Len(s) \in Nat
        /\ l \in Seq(Bloques) /\ Len(l) = Len(b) + Len(s) /\ DOMAIN l = 1 .. Len(b) + Len(s)
    BY TipoDeArchivo, ConcatProperties, LenProperties
  <1>2. \A k \in 1 .. Len(b) + Len(s) : l[k] = IF k <= Len(b) THEN b[k] ELSE s[k - Len(b)]
    BY <1>1, ConcatProperties
  <1> HIDE DEF l, b
  <1>3. \A k \in 1 .. Len(b) : k \in 1 .. Len(b) + Len(s) /\ l[k] = b[k]
    BY <1>1, <1>2
  <1>4. \A k \in 1 .. Len(s) : k + Len(b) \in 1 .. Len(b) + Len(s) /\ l[k + Len(b)] = s[k]
    BY <1>1, <1>2, SMTT(30)
  <1>5. \A k \in 1 .. Len(b) + Len(s) :
            \/ k \in 1 .. Len(b) /\ l[k] = b[k]
            \/ k - Len(b) \in 1 .. Len(s) /\ l[k] = s[k - Len(b)]
    BY <1>1, <1>2
  <1>6. {l[k] : k \in DOMAIN l} = {b[k] : k \in DOMAIN b} \cup {s[k] : k \in 1 .. Len(s)}
    <2> DEFINE A == {l[k] : k \in 1 .. Len(b) + Len(s)}
               B == {b[k] : k \in 1 .. Len(b)}
               C == {s[k] : k \in 1 .. Len(s)}
    <2>1. A \subseteq B \cup C
      BY <1>5
    <2>2. B \subseteq A
      BY <1>3
    <2>3. C \subseteq A
      BY <1>4
    <2>4. A = B \cup C
      BY <2>1, <2>2, <2>3
    <2> QED
      BY <1>1, <2>4
  <1> QED
    BY <1>6 DEF l, b, Ocupa

(* Only a whole metadata file has blocks, with the kills inside crear and flush too. *)
LEMMA SoloCompletosDelPaso == TypeOK /\ SoloCompletos /\ [Next]_vars => SoloCompletos'
  <1> SUFFICES ASSUME TypeOK, SoloCompletos, [Next]_vars PROVE SoloCompletos'
    OBVIOUS
  <1>a. ASSUME archivos' = archivos PROVE SoloCompletos'
    BY <1>a DEF SoloCompletos
  <1>b. ASSUME NEW f \in Nombres, NEW a, archivos' = [archivos EXCEPT ![f] = a],
               a.estado = "completo" \/ Ocupa(a) = {}
        PROVE  SoloCompletos'
    <2>1. \A g \in Nombres : archivos'[g] = IF g = f THEN a ELSE archivos[g]
      BY <1>b DEF TypeOK
    <2> QED
      BY <1>b, <2>1 DEF SoloCompletos
  <1>c. ASSUME NEW f \in Nombres, NEW n, NEW b, archivos' = [archivos EXCEPT ![f] = Completo(n, b)]
        PROVE  SoloCompletos'
    <2>1. Completo(n, b).estado = "completo"
      BY DEF Completo
    <2> QED
      BY <1>c, <2>1, <1>b
  <1>d. ASSUME NEW f \in Nombres,
               \/ archivos' = [archivos EXCEPT ![f] = Ausente]
               \/ archivos' = [archivos EXCEPT ![f] = Truncado]
        PROVE  SoloCompletos'
    BY <1>d, <1>b, AusenteEsArchivo
  <1>1. CASE UNCHANGED vars
    BY <1>1, <1>a DEF vars
  <1>2. CASE Reiniciar
    BY <1>2, <1>a DEF Reiniciar
  <1>3. ASSUME NEW f \in Nombres,
               \/ Abrir(f) \/ AbrirMuere(f) \/ CrearExistente(f)
               \/ BorrarAusente(f) \/ BorrarIlegible(f) \/ BorrarCortado(f)
               \/ GuardarAusente(f) \/ GuardarIlegible(f)
        PROVE  SoloCompletos'
    BY <1>3, <1>a DEF Abrir, AbrirMuere, CrearExistente, BorrarAusente, BorrarIlegible,
                      BorrarCortado, GuardarAusente, GuardarIlegible, DiscoIgual
  <1>4. ASSUME NEW f \in Nombres, Borrar(f) PROVE SoloCompletos'
    BY <1>4, <1>d DEF Borrar
  <1>5. ASSUME NEW f \in Nombres, NEW n \in Tamanios,
               CrearSinEspacio(f, n) \/ GuardarIgual(f, n) \/ GuardarSinEspacio(f, n)
        PROVE  SoloCompletos'
    BY <1>5, <1>a DEF CrearSinEspacio, GuardarIgual, GuardarSinEspacio, DiscoIgual
  <1>6. ASSUME NEW f \in Nombres, NEW n \in Tamanios, Crear(f, n) PROVE SoloCompletos'
    <2> DEFINE vacio == [estado |-> "abierto", TAMANIO |-> n, BLOQUES |-> <<>>]
    <2>1. PICK s : archivos' = [archivos EXCEPT ![f] =
                                  IF Necesarios(n) = 0 THEN vacio ELSE Completo(n, s)]
      BY <1>6 DEF Crear
    <2>2. Ocupa(vacio) = {}
      BY EmptySeq DEF Ocupa
    <2> HIDE DEF vacio
    <2>3. CASE Necesarios(n) = 0
      BY <2>1, <2>2, <2>3, <1>b
    <2>4. CASE Necesarios(n) # 0
      BY <2>1, <2>4, <1>c
    <2> QED
      BY <2>3, <2>4
  <1>7. ASSUME NEW f \in Nombres, NEW n \in Tamanios, CrearCortado(f, n) PROVE SoloCompletos'
    BY <1>7, <1>a, <1>d DEF CrearCortado
  <1>8. ASSUME NEW f \in Nombres, NEW n \in Tamanios, GuardarMenos(f, n) PROVE SoloCompletos'
    BY <1>8, <1>c DEF GuardarMenos
  <1>9. ASSUME NEW f \in Nombres, NEW n \in Tamanios, Guardar(f, n) PROVE SoloCompletos'
    <2>1. PICK s : archivos' = [archivos EXCEPT ![f] = Completo(n + 1, archivos[f].BLOQUES \o s)]
      BY <1>9 DEF Guardar
    <2> QED
      BY <2>1, <1>c
  <1>10. ASSUME NEW f \in Nombres, NEW n \in Tamanios, GuardarCortado(f, n) PROVE SoloCompletos'
    BY <1>10, <1>a, <1>d DEF GuardarCortado
  <1> QED
    BY <1>1, <1>2, <1>3, <1>4, <1>5, <1>6, <1>7, <1>8, <1>9, <1>10 DEF Next

(* The disk MDJ starts from, seen as one of Disco. *)
LEMMA DiscoAlInicio == Init => D!Init
  <1> SUFFICES ASSUME Init PROVE D!Init
    OBVIOUS
  <1>1. TypeOK /\ Exclusividad
    BY TipoAlInicio, ExclusividadAlInicio
  <1>2. De \in [Nombres -> SUBSET Bloques]
    BY <1>1, TipoDeArchivo DEF De
  <1>3. \A f, g \in Nombres : f # g => Ocupa(archivos[f]) \cap Ocupa(archivos[g]) = {}
    BY <1>1, DosBloques DEF Ocupa
  <1>4. Libres = Bloques \ UNION {De[f] : f \in Nombres}
    BY DEF Init, Libres, De
  <1> QED
    BY <1>2, <1>3, <1>4 DEF D!Init, D!Ajenos, De, Init

(* Every step of MDJ that is not cut short in borrar is a step of Disco. *)
LEMMA DiscoDelPaso ==
    ASSUME "borrar" \notin Caidas, MapaEntero
    PROVE  TypeOK /\ Exclusividad /\ SoloCompletos /\ [Next]_vars => [D!Next]_(D!disco)
  <1> SUFFICES ASSUME TypeOK, Exclusividad, SoloCompletos, [Next]_vars PROVE [D!Next]_(D!disco)
    OBVIOUS
  <1>1. CASE UNCHANGED vars
    BY <1>1 DEF vars, D!disco, Libres
  <1>2. CASE Reiniciar
    <2>1. bitmap' = bitmap
      BY <1>2, MapaEnDisco DEF Reiniciar, TypeOK
    <2>2. D!Reiniciar
      BY <1>2, <2>1 DEF D!Reiniciar, Reiniciar, Libres
    <2> QED
      BY <2>2 DEF D!Next
  <1>3. ASSUME NEW f \in Nombres,
               \/ Abrir(f) \/ AbrirMuere(f) \/ CrearExistente(f)
               \/ BorrarAusente(f) \/ BorrarIlegible(f)
               \/ GuardarAusente(f) \/ GuardarIlegible(f)
        PROVE  [D!Next]_(D!disco)
    <2>1. vivo /\ archivos' = archivos /\ bitmap' = bitmap /\ vivo' \in BOOLEAN
      BY <1>3 DEF Abrir, AbrirMuere, CrearExistente, BorrarAusente, BorrarIlegible,
                  GuardarAusente, GuardarIlegible, DiscoIgual, Responder, Morir
    <2> QED
      BY <2>1, PasoIgual DEF De
  <1>4. ASSUME NEW f \in Nombres, Borrar(f) PROVE [D!Next]_(D!disco)
    <2>1. /\ vivo /\ vivo' = TRUE
          /\ bitmap' = bitmap \ Ocupa(archivos[f])
          /\ archivos' = [archivos EXCEPT ![f] = Ausente]
      BY <1>4 DEF Borrar, Liberados, Responder
    <2>2. De' = [De EXCEPT ![f] = {}]
      BY <2>1, UnoDe, AusenteEsArchivo
    <2>3. Libres' = Libres \cup Ocupa(archivos[f])
      BY <2>1, TipoDeArchivo DEF Libres
    <2>4. D!Soltar(f)
      BY <2>1, <2>2, <2>3 DEF D!Soltar, De, TypeOK
    <2> QED
      BY <2>4 DEF D!Next
  <1>5. ASSUME NEW f \in Nombres, BorrarCortado(f) PROVE FALSE
    BY <1>5 DEF BorrarCortado
  <1>6. ASSUME NEW f \in Nombres, NEW n \in Tamanios,
               CrearSinEspacio(f, n) \/ GuardarIgual(f, n) \/ GuardarSinEspacio(f, n)
        PROVE  [D!Next]_(D!disco)
    <2>1. vivo /\ archivos' = archivos /\ bitmap' = bitmap /\ vivo' \in BOOLEAN
      BY <1>6 DEF CrearSinEspacio, GuardarIgual, GuardarSinEspacio, DiscoIgual, Responder
    <2> QED
      BY <2>1, PasoIgual DEF De
  <1>7. ASSUME NEW f \in Nombres, NEW n \in Tamanios, Crear(f, n) PROVE [D!Next]_(D!disco)
    <2> DEFINE N == Necesarios(n)
    <2>1. N \in Nat /\ vivo /\ vivo' = TRUE
      BY <1>7, MDJAssumption, NecesariosNat DEF Crear, Responder
    <2>2. PICK s \in Secuencias(N) :
                /\ SonPrimerosLibres(s, N)
                /\ Marcar({s[k] : k \in DOMAIN s})
                /\ archivos' = [archivos EXCEPT ![f] =
                            IF N = 0
                            THEN [estado |-> "abierto", TAMANIO |-> n, BLOQUES |-> <<>>]
                            ELSE Completo(n, s)]
      BY <1>7 DEF Crear
    <2> DEFINE bs == {s[k] : k \in 1 .. N}
               a == IF N = 0 THEN [estado |-> "abierto", TAMANIO |-> n, BLOQUES |-> <<>>]
                    ELSE Completo(n, s)
    <2>3. DOMAIN s = 1 .. N
      BY <2>1, <2>2, PrimerosLibres
    <2>4. bs \in SUBSET Bloques /\ bs \cap bitmap = {}
      BY <2>1, <2>2, UnaParte
    <2>5. Ocupa(a) = bs
      <3>1. CASE N = 0
        <4>1. DOMAIN a.BLOQUES = {}
          BY <3>1, EmptySeq
        <4> QED
          BY <2>1, <3>1, <4>1 DEF Ocupa
      <3>2. CASE N # 0
        BY <2>3, <3>2 DEF Ocupa, Completo
      <3> QED
        BY <3>1, <3>2
    <2>6. Ocupa(archivos[f]) = {}
      BY <1>7 DEF Crear, Existe, SoloCompletos
    <2>7. bitmap' = bitmap \cup bs
      BY <2>2, <2>3 DEF Marcar
    <2>8. archivos' = [archivos EXCEPT ![f] = a]
      BY <2>2
    <2> HIDE DEF a, bs, N
    <2> QED
      BY <2>1, <2>4, <2>5, <2>6, <2>7, <2>8, PasoTomar
  <1>8. ASSUME NEW f \in Nombres, NEW n \in Tamanios, CrearCortado(f, n)
        PROVE  [D!Next]_(D!disco)
    <2> DEFINE N == Necesarios(n)
    <2>1. N \in Nat /\ vivo /\ vivo' = FALSE
      BY <1>8, MDJAssumption, NecesariosNat DEF CrearCortado, Morir
    <2>2. PICK s \in Secuencias(N), j \in 0 .. N :
                /\ SonPrimerosLibres(s, N)
                /\ Marcar({s[k] : k \in 1 .. j})
                /\ archivos' = archivos \/ archivos' = [archivos EXCEPT ![f] = Truncado]
      BY <1>8 DEF CrearCortado
    <2> DEFINE bs == {s[k] : k \in 1 .. j}
    <2>3. bs \in SUBSET Bloques /\ bs \cap bitmap = {} /\ bitmap' = bitmap \cup bs
      BY <2>1, <2>2, UnaParte DEF Marcar
    <2> HIDE DEF bs, N
    <2> QED
      BY <2>1, <2>2, <2>3, PasoCaer
  <1>9. ASSUME NEW f \in Nombres, NEW n \in Tamanios, GuardarMenos(f, n)
        PROVE  [D!Next]_(D!disco)
    <2> DEFINE a == Completo(n + 1, archivos[f].BLOQUES)
    <2>1. vivo /\ archivos' = [archivos EXCEPT ![f] = a] /\ bitmap' = bitmap /\ vivo' = TRUE
      BY <1>9 DEF GuardarMenos, Responder
    <2>2. Ocupa(a) = Ocupa(archivos[f])
      BY DEF Completo, Ocupa
    <2> HIDE DEF a
    <2>3. De' = De
      BY <2>1, <2>2, UnoDe DEF De
    <2> QED
      BY <2>1, <2>3, PasoIgual
  <1>10. ASSUME NEW f \in Nombres, NEW n \in Tamanios, Guardar(f, n)
         PROVE  [D!Next]_(D!disco)
    <2>1. PICK F \in Nat : F = Faltan(f, n)
      BY <1>10, MDJAssumption, FaltanNat DEF Guardar
    <2>2. PICK s \in Secuencias(F) :
                /\ SonPrimerosLibres(s, F)
                /\ Marcar({s[k] : k \in DOMAIN s})
                /\ archivos' = [archivos EXCEPT ![f] = Completo(n + 1, archivos[f].BLOQUES \o s)]
      BY <1>10, <2>1 DEF Guardar
    <2> DEFINE bs == {s[k] : k \in 1 .. F}
               a == Completo(n + 1, archivos[f].BLOQUES \o s)
    <2>3. s \in Seq(Bloques) /\ Len(s) = F /\ DOMAIN s = 1 .. F
      BY <2>2, PrimerosLibres
    <2>4. bs \in SUBSET Bloques /\ bs \cap bitmap = {} /\ bitmap' = bitmap \cup bs
      BY <2>2, <2>3, UnaParte DEF Marcar
    <2>5. Ocupa(a) = Ocupa(archivos[f]) \cup bs
      <3>1. a.BLOQUES = archivos[f].BLOQUES \o s
        BY DEF Completo
      <3> HIDE DEF a
      <3>2. Ocupa(a) = {(archivos[f].BLOQUES \o s)[k] : k \in DOMAIN (archivos[f].BLOQUES \o s)}
        BY <3>1 DEF Ocupa
      <3> QED
        BY <2>3, <3>2, OcupaConcatenada
    <2>6. vivo /\ vivo' = TRUE /\ archivos' = [archivos EXCEPT ![f] = a]
      BY <1>10, <2>2 DEF Guardar, Responder
    <2> HIDE DEF a, bs
    <2> QED
      BY <2>4, <2>5, <2>6, PasoTomar
  <1>11. ASSUME NEW f \in Nombres, NEW n \in Tamanios, GuardarCortado(f, n)
         PROVE  [D!Next]_(D!disco)
    <2>1. PICK F \in Nat : F = Faltan(f, n)
      BY <1>11, MDJAssumption, FaltanNat DEF GuardarCortado
    <2>2. PICK s \in Secuencias(F), j \in 0 .. F :
                /\ SonPrimerosLibres(s, F)
                /\ Marcar({s[k] : k \in 1 .. j})
                /\ archivos' = archivos \/ archivos' = [archivos EXCEPT ![f] = Truncado]
      BY <1>11, <2>1 DEF GuardarCortado
    <2> DEFINE bs == {s[k] : k \in 1 .. j}
    <2>3. bs \in SUBSET Bloques /\ bs \cap bitmap = {} /\ bitmap' = bitmap \cup bs
      BY <2>2, UnaParte DEF Marcar
    <2>4. vivo /\ vivo' = FALSE
      BY <1>11 DEF GuardarCortado, Morir
    <2> HIDE DEF bs
    <2> QED
      BY <2>2, <2>3, <2>4, PasoCaer
  <1> QED
    BY <1>1, <1>2, <1>3, <1>4, <1>5, <1>6, <1>7, <1>8, <1>9, <1>10, <1>11 DEF Next

(* MDJ implements Disco: on any disk whose map has whole bytes, with any files, and   *)
(* provided MDJ is never killed inside borrar, whatever the requests, the kills       *)
(* inside crear and flush and the restarts.                                           *)
THEOREM DiscoImplementado ==
    ASSUME "borrar" \notin Caidas, MapaEntero
    PROVE  Spec => ImplementaDisco
  <1>1. TypeOK /\ Exclusividad /\ SoloCompletos /\ [Next]_vars => [D!Next]_(D!disco)
    BY DiscoDelPaso
  <1>2. TypeOK /\ SoloCompletos /\ [Next]_vars => SoloCompletos'
    BY SoloCompletosDelPaso
  <1>3. Spec => []TypeOK /\ []Exclusividad
    BY Tipo, SinBloquesCompartidos
  <1> QED
    BY <1>1, <1>2, <1>3, DiscoAlInicio, SoloCompletosAlInicio, PTL DEF Spec, ImplementaDisco, D!Spec
================================================================================
