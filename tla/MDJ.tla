---------------------------------- MODULE MDJ ----------------------------------
(* MDJ, the file system.  One thread serves one request of DAM at a time.  On    *)
(* disk there are a bitmap of blocks (mapped, so that each bit set is there at   *)
(* once), one metadata file per file (TAMANIO, BLOQUES) and one file of data per *)
(* block.  A request is one step; the process may also be killed inside one, and  *)
(* what is left then is a step too.                                              *)
EXTENDS Integers, Sequences, FiniteSets

CONSTANTS
    cantidadBloques, tamanioBloque,
    Nombres,            \* the paths the requests are about
    Tamanios,           \* bound: the sizes in bytes of the files asked for
    BitsPorByte,        \* 8; the bitmap has cantidadBloques / BitsPorByte bytes
    Cifra0,             \* 48, the code of the character "0"
    ConDatos,           \* the blocks whose data file exists from the start
    ArchivosIniciales,  \* the files on the disk when MDJ is first started
    Caidas,             \* the operations MDJ may be killed in
    Nada

Bloques == 0 .. (cantidadBloques - 1)

(* a metadata file: "completo"; "truncado", opened for writing and never written; *)
(* "abierto", with a list of blocks that was never closed with its bracket        *)
Archivos == [estado : {"ausente", "completo", "truncado", "abierto"},
             TAMANIO : Nat, BLOQUES : Seq(Bloques)]
Ausente == [estado |-> "ausente", TAMANIO |-> 0, BLOQUES |-> <<>>]
Truncado == [estado |-> "truncado", TAMANIO |-> 0, BLOQUES |-> <<>>]
Completo(n, b) == [estado |-> "completo", TAMANIO |-> n, BLOQUES |-> b]

Ocupa(a) == {a.BLOQUES[k] : k \in DOMAIN a.BLOQUES}

(* no block is in two files or twice in one *)
SinCompartir(as) ==
    \A f, g \in Nombres : \A k \in DOMAIN as[f].BLOQUES, m \in DOMAIN as[g].BLOQUES :
        as[f].BLOQUES[k] = as[g].BLOQUES[m] => f = g /\ k = m

ASSUME MDJAssumption ==
    /\ cantidadBloques \in Nat \ {0} /\ tamanioBloque \in Nat \ {0} /\ BitsPorByte \in Nat \ {0}
    /\ Tamanios \subseteq Nat /\ Cifra0 \in Nat
    /\ ConDatos \subseteq Bloques
    /\ ArchivosIniciales \in [Nombres -> Archivos]
    /\ \A f \in Nombres : ArchivosIniciales[f].estado # "completo" => ArchivosIniciales[f] = Ausente
    /\ SinCompartir(ArchivosIniciales)
    /\ Caidas \subseteq {"crear", "borrar", "guardar"}

VARIABLES
    bitmap,     \* the blocks whose bit is 1
    archivos,   \* the metadata file of each name
    datos,      \* what each block's file holds, Nada when there is no such file
    vivo,       \* MDJ is running
    ultimo      \* the last request, with the answer DAM got (Nada: none)

vars == <<bitmap, archivos, datos, vivo, ultimo>>

Resultados == {0, 1, Nada}
Pedidos == [op : {"ninguno", "abrir", "crear", "borrar", "guardar"},
            archivo : Nombres \cup {Nada}, resultado : Resultados]

(* the data of a block: of the file that saved it, or the filler of crear *)
Datos == Nombres \cup {"relleno", Nada}

TypeOK ==
    /\ bitmap \subseteq Bloques
    /\ archivos \in [Nombres -> Archivos]
    /\ datos \in [Bloques -> Datos]
    /\ vivo \in BOOLEAN
    /\ ultimo \in Pedidos

Init ==
    /\ archivos = ArchivosIniciales
    /\ bitmap = UNION {Ocupa(ArchivosIniciales[f]) : f \in Nombres}
    /\ datos = [b \in Bloques |-> IF b \in ConDatos THEN "relleno" ELSE Nada]
    /\ vivo = TRUE
    /\ ultimo = [op |-> "ninguno", archivo |-> Nada, resultado |-> Nada]

(* blocks for n bytes *)
Necesarios(n) == (n \div tamanioBloque) + (IF n % tamanioBloque # 0 THEN 1 ELSE 0)

Libres == Bloques \ bitmap

(* s is the sequence of the first n blocks whose bit is 0 *)
SonPrimeros(s, n) == s \in [1 .. n -> Bloques]    \* mutant: whatever their bit is
SonPrimerosLibres(s, n) ==
    /\ s \in [1 .. n -> Libres]
    /\ \A k, m \in 1 .. n : k < m => s[k] < s[m]
    /\ \A b \in Libres : (\E k \in 1 .. n : b < s[k]) => \E k \in 1 .. n : b = s[k]
Secuencias(n) == [1 .. n -> Bloques]

Responder(op, f, r) == vivo' = TRUE /\ ultimo' = [op |-> op, archivo |-> f, resultado |-> r]
Morir(op, f) == vivo' = FALSE /\ ultimo' = [op |-> op, archivo |-> f, resultado |-> Nada]
DiscoIgual == UNCHANGED <<bitmap, archivos, datos>>

(* validarArchivo reads TAMANIO of a file that is there, and dies of a truncated *)
(* one; whoever reads BLOQUES dies of an unclosed list                            *)
Existe(f) == archivos[f].estado # "ausente"
Completa(f) == archivos[f].estado = "completo"

--------------------------------------------------------------------------------
(* abrir: obtenerDatosArchivo is called before the answer is sent, whether or not *)
(* the file was found, and opens every block of it                                *)

SeLee(f) == Completa(f) /\ \A k \in DOMAIN archivos[f].BLOQUES : datos[archivos[f].BLOQUES[k]] # Nada

Abrir(f) ==
    /\ vivo
    /\ SeLee(f)
    /\ Responder("abrir", f, 1) /\ DiscoIgual

AbrirMuere(f) ==
    /\ vivo
    /\ ~SeLee(f)
    /\ Morir("abrir", f) /\ DiscoIgual

--------------------------------------------------------------------------------
(* crear *)

CrearExistente(f) ==
    /\ vivo /\ Existe(f)
    /\ IF archivos[f].estado = "truncado" THEN Morir("crear", f) ELSE Responder("crear", f, 0)
    /\ DiscoIgual

CrearSinEspacio(f, n) ==
    /\ vivo /\ ~Existe(f) /\ Cardinality(Libres) < Necesarios(n)
    /\ Responder("crear", f, 0) /\ DiscoIgual

(* The filler goes to the files named by the bytes of the block numbers: of those *)
(* only the numbers that are the code of a digit name a file of data.             *)
Rellenar(bs) ==
    [b \in Bloques |-> IF b + Cifra0 \in bs /\ b <= 9 THEN "relleno" ELSE datos[b]]

MarcarCorrido(bs) == bitmap' = bitmap \cup {b + 1 : b \in bs}    \* mutant: numbered from 1
MarcarNinguno(bs) == bitmap' = bitmap    \* mutant: the bits are not set
Marcar(bs) == bitmap' = bitmap \cup bs

(* a file of 0 bytes gets the list "[" *)
Crear(f, n) ==
    /\ vivo /\ ~Existe(f) /\ Cardinality(Libres) >= Necesarios(n)
    /\ \E s \in Secuencias(Necesarios(n)) :
          /\ SonPrimerosLibres(s, Necesarios(n))
          /\ Marcar({s[k] : k \in DOMAIN s})
          /\ datos' = Rellenar({s[k] : k \in DOMAIN s})
          /\ archivos' = [archivos EXCEPT ![f] =
                            IF Necesarios(n) = 0
                            THEN [estado |-> "abierto", TAMANIO |-> n, BLOQUES |-> <<>>]
                            ELSE Completo(n, s)]
    /\ Responder("crear", f, 1)

(* killed after setting some of the bits, with or without the empty metadata file *)
CrearCortado(f, n) ==
    /\ vivo /\ ~Existe(f) /\ Cardinality(Libres) >= Necesarios(n) /\ "crear" \in Caidas
    /\ \E s \in Secuencias(Necesarios(n)), j \in 0 .. Necesarios(n) :
          /\ SonPrimerosLibres(s, Necesarios(n))
          /\ Marcar({s[k] : k \in 1 .. j})
          /\ \/ UNCHANGED archivos
             \/ /\ j = Necesarios(n)
                /\ archivos' = [archivos EXCEPT ![f] = Truncado]
    /\ UNCHANGED datos
    /\ Morir("crear", f)

--------------------------------------------------------------------------------
(* borrar *)

LiberarUnaParte(f) == Ocupa(archivos[f]) \cap {archivos[f].BLOQUES[1]}    \* mutant: the first only
Liberados(f) == Ocupa(archivos[f])

BorrarAusente(f) ==
    /\ vivo /\ ~Existe(f)
    /\ Responder("borrar", f, 0) /\ DiscoIgual

BorrarIlegible(f) ==
    /\ vivo /\ Existe(f) /\ ~Completa(f)
    /\ Morir("borrar", f) /\ DiscoIgual

Borrar(f) ==
    /\ vivo /\ Completa(f)
    /\ bitmap' = bitmap \ Liberados(f)
    /\ archivos' = [archivos EXCEPT ![f] = Ausente]
    /\ UNCHANGED datos
    /\ Responder("borrar", f, 1)

(* killed with some of the bits cleared and the file still there *)
BorrarCortado(f) ==
    /\ vivo /\ Completa(f) /\ "borrar" \in Caidas
    /\ \E j \in 1 .. Len(archivos[f].BLOQUES) :
          bitmap' = bitmap \ {archivos[f].BLOQUES[k] : k \in 1 .. j}
    /\ UNCHANGED <<archivos, datos>>
    /\ Morir("borrar", f)

--------------------------------------------------------------------------------
(* guardar (flush): guardarDatosArchivo *)

GuardarAusente(f) ==
    /\ vivo /\ ~Existe(f)
    /\ Responder("guardar", f, 0) /\ DiscoIgual

GuardarIlegible(f) ==
    /\ vivo /\ Existe(f) /\ ~Completa(f)
    /\ Morir("guardar", f) /\ DiscoIgual

(* every block of bs is written with its part of the bytes, or with what follows *)
(* them in memory                                                                 *)
Escribir(f, bs) == [b \in Bloques |-> IF \E k \in DOMAIN bs : bs[k] = b THEN f ELSE datos[b]]

Faltan(f, n) == Necesarios(n) - Len(archivos[f].BLOQUES)

(* same number of blocks: the metadata is not touched.  guardarDatosArchivo ends  *)
(* without a return: the result is whatever the register held.                     *)
GuardarIgual(f, n) ==
    /\ vivo /\ Completa(f) /\ Faltan(f, n) = 0
    /\ datos' = Escribir(f, archivos[f].BLOQUES)
    /\ UNCHANGED <<bitmap, archivos>>
    /\ \E r \in {0, 1} : Responder("guardar", f, r)

(* fewer blocks: they are all kept *)
GuardarMenos(f, n) ==
    /\ vivo /\ Completa(f) /\ Faltan(f, n) < 0
    /\ datos' = Escribir(f, archivos[f].BLOQUES)
    /\ archivos' = [archivos EXCEPT ![f] = Completo(n + 1, archivos[f].BLOQUES)]
    /\ UNCHANGED bitmap
    /\ \E r \in {0, 1} : Responder("guardar", f, r)

(* no room for the rest: the blocks the file has are already overwritten *)
GuardarSinEspacio(f, n) ==
    /\ vivo /\ Completa(f) /\ Faltan(f, n) > 0 /\ Cardinality(Libres) < Faltan(f, n)
    /\ datos' = Escribir(f, archivos[f].BLOQUES)
    /\ UNCHANGED <<bitmap, archivos>>
    /\ Responder("guardar", f, 0)

Guardar(f, n) ==
    /\ vivo /\ Completa(f) /\ Faltan(f, n) > 0 /\ Cardinality(Libres) >= Faltan(f, n)
    /\ \E s \in Secuencias(Faltan(f, n)) :
          /\ SonPrimerosLibres(s, Faltan(f, n))
          /\ Marcar({s[k] : k \in DOMAIN s})
          /\ datos' = Escribir(f, archivos[f].BLOQUES \o s)
          /\ archivos' = [archivos EXCEPT ![f] = Completo(n + 1, archivos[f].BLOQUES \o s)]
    /\ \E r \in {0, 1} : Responder("guardar", f, r)

(* killed after taking some of the new blocks, or with the metadata emptied to be *)
(* written again                                                                  *)
GuardarCortado(f, n) ==
    /\ vivo /\ Completa(f) /\ Faltan(f, n) > 0 /\ Cardinality(Libres) >= Faltan(f, n)
    /\ "guardar" \in Caidas
    /\ \E s \in Secuencias(Faltan(f, n)), j \in 0 .. Faltan(f, n) :
          /\ SonPrimerosLibres(s, Faltan(f, n))
          /\ Marcar({s[k] : k \in 1 .. j})
          /\ datos' = Escribir(f, archivos[f].BLOQUES \o SubSeq(s, 1, j))
          /\ \/ UNCHANGED archivos
             \/ /\ j = Faltan(f, n)
                /\ archivos' = [archivos EXCEPT ![f] = Truncado]
    /\ Morir("guardar", f)

--------------------------------------------------------------------------------
(* started again: the bits beyond the last whole byte of the map are not on disk *)
MapaEntero == cantidadBloques % BitsPorByte = 0
Persisten == {b \in Bloques : b < BitsPorByte * (cantidadBloques \div BitsPorByte)}
Reiniciar ==
    /\ ~vivo
    /\ vivo' = TRUE
    /\ bitmap' = bitmap \cap Persisten
    /\ UNCHANGED <<archivos, datos, ultimo>>

Next ==
    \/ Reiniciar
    \/ \E f \in Nombres :
          \/ Abrir(f) \/ AbrirMuere(f)
          \/ CrearExistente(f)
          \/ BorrarAusente(f) \/ BorrarIlegible(f) \/ Borrar(f) \/ BorrarCortado(f)
          \/ GuardarAusente(f) \/ GuardarIlegible(f)
          \/ \E n \in Tamanios :
                \/ CrearSinEspacio(f, n) \/ Crear(f, n) \/ CrearCortado(f, n)
                \/ GuardarIgual(f, n) \/ GuardarMenos(f, n) \/ GuardarSinEspacio(f, n)
                \/ Guardar(f, n) \/ GuardarCortado(f, n)

Spec == Init /\ [][Next]_vars

--------------------------------------------------------------------------------
(* Properties *)

(* No block belongs to two files or twice to one, and every block of a file has   *)
(* its bit set: crear and flush never hand out a block somebody has, whatever was *)
(* freed, left half done by a kill, or lost from the map by a restart before.     *)
(* (Not so if MDJ is killed inside borrar, between the bits and the file.)        *)
Exclusividad ==
    /\ SinCompartir(archivos)
    /\ \A f \in Nombres : Ocupa(archivos[f]) \subseteq bitmap

(* Every bit set is that of a block of some file: no request leaks blocks, the     *)
(* failed ones and a borrar cut short included.  (Not so if MDJ is killed inside   *)
(* crear or flush, between the bits and the file.)                                 *)
SinFugas ==
    bitmap \subseteq UNION {Ocupa(archivos[f]) : f \in Nombres}

(* A request about one file never changes what is in the blocks of another: flush *)
(* writes into the blocks it has or takes only.  crear is left out: its filler     *)
(* lands in whatever block Rellenar says.                                          *)
EscribeSoloLoSuyo ==
    [][\A f \in Nombres \ {ultimo'.archivo} : \A k \in DOMAIN archivos[f].BLOQUES :
          ultimo'.op # "crear" =>
              datos'[archivos[f].BLOQUES[k]] = datos[archivos[f].BLOQUES[k]]]_vars

(* MDJ keeps the promise of Disco: read through their lists of blocks and the      *)
(* zeros of the bitmap, the steps of crear, borrar and flush, the kills inside     *)
(* crear and flush and the restarts are steps of it.  In particular a request that *)
(* is answered loses no block, a restart brings back none that is in use, and a    *)
(* block given to a file was free.                                                 *)
D == INSTANCE Disco WITH
        de <- [f \in Nombres |-> Ocupa(archivos[f])],
        libres <- Libres
ImplementaDisco == D!Spec
================================================================================
