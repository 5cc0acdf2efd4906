---------------------------------- MODULE FM9 ----------------------------------
(* FM9, the memory, with MODO = SEG.  One thread serves DAM and adds a segment for *)
(* each script it is sent; one thread per CPU looks segments up to give back       *)
(* sentences.  They share the table of segments and the globals of its searches,   *)
(* without a lock.  No segment is ever freed: close, asignar and flush look for    *)
(* the table of their process, which was never put in lista_procesos.              *)
EXTENDS Integers, Sequences

CONSTANTS
    CPUs, tamanioMemoria,
    Escriptorios,   \* the scripts DAM may send
    Bytes,          \* Bytes[e], their length
    Lineas,         \* Lineas[e], how many sentences they have
    Nada

Direcciones == 0 .. (tamanioMemoria - 1)

ASSUME FM9Assumption ==
    /\ tamanioMemoria \in Nat
    /\ Bytes \in [Escriptorios -> Nat] /\ Lineas \in [Escriptorios -> Nat]
    /\ Nada \notin Escriptorios

VARIABLES
    memoriaReal,        \* memoriaReal[d]: the byte <<e, k>>, the k-th of script e
    lista_segmentos,
    idGlobal,           \* the last number given to a segment
    numSegmentoAbuscar, \* the segment that every search under way looks for
    hiloDAM,            \* the script whose segment is in the table and not yet copied
    entregados,         \* the segments DAM has been told of, with their scripts
    hilo,               \* the thread of each CPU
    vivo

fm9 == <<memoriaReal, lista_segmentos, idGlobal, numSegmentoAbuscar, hiloDAM, entregados, hilo, vivo>>

Segmentos == [numeroSegmento : Nat, base : Nat, limite : Nat, CantBytes : Nat]
Contenido(e) == [k \in 1 .. Bytes[e] |-> <<e, k>>]

(* a thread waits for a packet ("libre"), walks the table (at element i), has found *)
(* element i, or has dropped a request for a line past the end ("callado": its CPU  *)
(* waits for ever).  sentencia is what it sent last: the text it cut it from, and   *)
(* the line.  pisada: another thread set numSegmentoAbuscar during the walk.        *)
Sentencias == {Nada} \cup [texto : Seq((Escriptorios \X Nat) \cup {Nada}), linea : Nat]
Hilos == [estado : {"libre", "busca", "hallado", "callado"}, numeroSegmento : Nat,
          programCounter : Nat, i : Nat, pisada : BOOLEAN,
          sentencia : Sentencias]

TypeOK ==
    /\ memoriaReal \in [Direcciones -> (Escriptorios \X Nat) \cup {Nada}]
    /\ lista_segmentos \in Seq(Segmentos)
    /\ idGlobal \in Nat /\ numSegmentoAbuscar \in Nat
    /\ hiloDAM \in Escriptorios \cup {Nada}
    /\ entregados \subseteq [numeroSegmento : Nat, escriptorio : Escriptorios]
    /\ hilo \in [CPUs -> Hilos]
    /\ vivo \in BOOLEAN

Init ==
    /\ memoriaReal = [d \in Direcciones |-> Nada]
    /\ lista_segmentos = <<>>
    /\ idGlobal = 0 /\ numSegmentoAbuscar = 0
    /\ hiloDAM = Nada
    /\ entregados = {}
    /\ hilo = [c \in CPUs |-> [estado |-> "libre", numeroSegmento |-> 0, programCounter |-> 0,
                               i |-> 0, pisada |-> FALSE, sentencia |-> Nada]]
    /\ vivo = TRUE

--------------------------------------------------------------------------------
(* conexionDAM, abrir: agregarSegmento *)

Ultimo == lista_segmentos[Len(lista_segmentos)]

(* no segment is free: the walk of entraArchivoEnSegmento ends behind the last one *)
BaseEnCero == 0    \* mutant: the walk does not move the base
BaseDelUltimo ==   \* mutant: the base of the last segment, not its end
    IF lista_segmentos = <<>> THEN 0 ELSE Ultimo.base
direccionBaseAusar ==
    IF lista_segmentos = <<>> THEN 0 ELSE Ultimo.base + Ultimo.CantBytes

Entra(e) == direccionBaseAusar + Bytes[e] <= tamanioMemoria

(* dameProximaDireccionBaseDisponible: the segment is in the table before its bytes *)
(* are in the memory; without room for it nothing changes and DAM gets a 0          *)
AgregarSegmento(e) ==
    /\ vivo /\ hiloDAM = Nada /\ Entra(e)
    /\ idGlobal' = idGlobal + 1
    /\ lista_segmentos' = Append(lista_segmentos,
            [numeroSegmento |-> idGlobal + 1, base |-> direccionBaseAusar,
             limite |-> Lineas[e], CantBytes |-> Bytes[e]])
    /\ hiloDAM' = e
    /\ UNCHANGED <<memoriaReal, numSegmentoAbuscar, entregados, hilo, vivo>>

(* the copy, and the packet that tells DAM the number *)
GuardarEscriptorio ==
    /\ vivo /\ hiloDAM # Nada
    /\ memoriaReal' = [d \in Direcciones |->
            IF d \in Ultimo.base .. (Ultimo.base + Bytes[hiloDAM] - 1)
            THEN Contenido(hiloDAM)[d - Ultimo.base + 1] ELSE memoriaReal[d]]
    /\ entregados' = entregados \cup
            {[numeroSegmento |-> Ultimo.numeroSegmento, escriptorio |-> hiloDAM]}
    /\ hiloDAM' = Nada
    /\ UNCHANGED <<lista_segmentos, idGlobal, numSegmentoAbuscar, hilo, vivo>>

--------------------------------------------------------------------------------
(* conexionCPU, sentence (39) *)

(* the other walks under way now look for the segment of this one *)
Buscando(c, n, linea) ==
    [d \in CPUs |->
        IF d = c THEN [hilo[c] EXCEPT !.estado = "busca", !.numeroSegmento = n,
                                      !.programCounter = linea, !.i = 1, !.pisada = FALSE]
        ELSE [hilo[d] EXCEPT !.pisada = @ \/ hilo[d].estado = "busca"]]

Pedir(c) ==
    /\ vivo /\ hilo[c].estado = "libre"
    /\ \E s \in entregados : \E linea \in 0 .. Lineas[s.escriptorio] :
          /\ numSegmentoAbuscar' = s.numeroSegmento
          /\ hilo' = Buscando(c, s.numeroSegmento, linea)
    /\ UNCHANGED <<memoriaReal, lista_segmentos, idGlobal, hiloDAM, entregados, vivo>>

(* segmentoEsIdABuscar, at one element: the global is read again *)
Mirar(c) ==
    /\ vivo /\ hilo[c].estado = "busca" /\ hilo[c].i <= Len(lista_segmentos)
    /\ hilo' = IF lista_segmentos[hilo[c].i].numeroSegmento = numSegmentoAbuscar
               THEN [hilo EXCEPT ![c].estado = "hallado"]
               ELSE [hilo EXCEPT ![c].i = @ + 1]
    /\ UNCHANGED <<memoriaReal, lista_segmentos, idGlobal, numSegmentoAbuscar, hiloDAM, entregados, vivo>>

(* list_find gives NULL, and its estaLibre is read *)
NoHallado(c) ==
    /\ vivo /\ hilo[c].estado = "busca" /\ hilo[c].i > Len(lista_segmentos)
    /\ vivo' = FALSE
    /\ UNCHANGED <<memoriaReal, lista_segmentos, idGlobal, numSegmentoAbuscar, hiloDAM, entregados, hilo>>

segmentoAgregado(c) == Ultimo    \* mutant: the last one, not the one found
segmentoBuscado(c) == lista_segmentos[hilo[c].i]
Texto(s) == [k \in 1 .. s.CantBytes |-> memoriaReal[s.base + k - 1]]

Responder(c) ==
    /\ vivo /\ hilo[c].estado = "hallado" /\ hilo[c].programCounter < segmentoBuscado(c).limite
    /\ hilo' = [hilo EXCEPT ![c].estado = "libre",
                            ![c].sentencia = [texto |-> Texto(segmentoBuscado(c)),
                                              linea |-> hilo[c].programCounter]]
    /\ UNCHANGED <<memoriaReal, lista_segmentos, idGlobal, numSegmentoAbuscar, hiloDAM, entregados, vivo>>

Callar(c) ==
    /\ vivo /\ hilo[c].estado = "hallado" /\ hilo[c].programCounter >= segmentoBuscado(c).limite
    /\ hilo' = [hilo EXCEPT ![c].estado = "callado"]
    /\ UNCHANGED <<memoriaReal, lista_segmentos, idGlobal, numSegmentoAbuscar, hiloDAM, entregados, vivo>>

--------------------------------------------------------------------------------
(* close (7) and asignar (3) from a CPU, flush (6) from DAM: the table of the       *)
(* process is NULL, and its list of segments is read                                *)
SinTabla ==
    /\ vivo
    /\ hiloDAM = Nada \/ \E c \in CPUs : hilo[c].estado = "libre"
    /\ vivo' = FALSE
    /\ UNCHANGED <<memoriaReal, lista_segmentos, idGlobal, numSegmentoAbuscar, hiloDAM, entregados, hilo>>

Next ==
    \/ GuardarEscriptorio \/ SinTabla
    \/ \E e \in Escriptorios : AgregarSegmento(e)
    \/ \E c \in CPUs : Pedir(c) \/ Mirar(c) \/ NoHallado(c) \/ Responder(c) \/ Callar(c)

Spec == Init /\ [][Next]_fm9

--------------------------------------------------------------------------------
(* Properties *)

Fin(s) == s.base + s.CantBytes

(* Segments do not overlap, stay inside the memory and have different numbers, so   *)
(* that dameProximaDireccionBaseDisponible may place a script behind the last       *)
(* segment and a number names one script.                                           *)
SegmentosDisjuntos ==
    \A i, j \in DOMAIN lista_segmentos :
        LET s == lista_segmentos[i]  t == lista_segmentos[j] IN
        /\ Fin(s) <= tamanioMemoria
        /\ i # j => /\ Fin(s) <= t.base \/ Fin(t) <= s.base
                    /\ s.numeroSegmento # t.numeroSegmento

(* What DAM was told is in the memory stays there: the segment of that number holds  *)
(* the whole script and nothing else, however many scripts come after it.           *)
EscriptoriosGuardados ==
    \A p \in entregados : \E i \in DOMAIN lista_segmentos :
        LET s == lista_segmentos[i] IN
        /\ s.numeroSegmento = p.numeroSegmento
        /\ s.limite = Lineas[p.escriptorio]
        /\ Texto(s) = Contenido(p.escriptorio)

(* A CPU gets the line it asked for of the script it asked for, unless another CPU   *)
(* asked while its search walked the table: the global it looks for is then that of  *)
(* the other.                                                                       *)
SentenciaPedida ==
    \A c \in CPUs :
        hilo[c].estado = "libre" /\ hilo[c].sentencia # Nada /\ ~hilo[c].pisada =>
            /\ hilo[c].sentencia.linea = hilo[c].programCounter
            /\ \E p \in entregados :
                  /\ p.numeroSegmento = hilo[c].numeroSegmento
                  /\ hilo[c].programCounter < Lineas[p.escriptorio]
                  /\ hilo[c].sentencia.texto = Contenido(p.escriptorio)
================================================================================
