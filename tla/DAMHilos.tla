-------------------------------- MODULE DAMHilos --------------------------------
(* The threads of DAM on the sockets they share.  Each serves one CPU; all of them *)
(* send to and read from one socket to MDJ and one to FM9, without a lock, so an    *)
(* answer goes to whoever reads first.  MDJ and FM9 serve one message at a time.    *)
(* crear and borrar are one packet and one int, which two threads may swap.  abrir  *)
(* is a stream of parts: once another conversation runs into it (Mezclado) threads  *)
(* read bytes as sizes and what they do is not defined; the model stops there.  It  *)
(* also stops when MDJ dies of an abrir of a file it lacks: module DAM goes on.     *)
EXTENDS Integers, Sequences, FiniteSets

CONSTANTS
    CPUs,
    MaxPedidos,         \* bound: the requests of all the CPUs
    Nombres, Tamanio,   \* Tamanio[f]: the bytes of file f
    ArchivosIniciales,  \* the files MDJ has at the start
    TRANSFER_SIZE,
    Nada

ASSUME DAMHilosAssumption ==
    /\ IsFiniteSet(CPUs) /\ MaxPedidos \in Nat /\ TRANSFER_SIZE \in Nat \ {0}
    /\ Tamanio \in [Nombres -> Nat] /\ ArchivosIniciales \subseteq Nombres

VARIABLES
    pedidos,        \* pedidos[c]: CPU c -> its thread of DAM
    hilo,           \* the thread of each CPU
    aMDJ, deMDJ,    \* the socket of MDJ, in each direction
    aFM9, deFM9,    \* the socket of FM9
    aSAFA,          \* the answers told to S-AFA
    archivos,       \* the files MDJ has
    MDJVivo,
    dados,          \* what MDJ answered to each crear and borrar
    hiloFM9,        \* FM9's thread for DAM
    segmentos       \* what FM9 stored for whom

variables == <<pedidos, hilo, aMDJ, deMDJ, aFM9, deFM9, aSAFA, archivos, MDJVivo, dados,
               hiloFM9, segmentos>>
vMDJ == <<archivos, MDJVivo, dados>>
vFM9 == <<hiloFM9, segmentos>>

Ids == 1 .. MaxPedidos
Paquetes == [tipoOperacion : {1, 8, 9}, id : Ids, archivo : Nombres, resultado : {-1, 0, 1}]

(* what goes over a socket besides packets *)
Entero(n) == [valor |-> n]
Parte(t) == [bytes |-> t]
Texto(f) == [k \in 1 .. Tamanio[f] |-> <<f, k>>]
Textos == Seq(Nombres \X Nat)
Mensajes == [valor : Nat] \cup [bytes : Textos]

(* paso: where the thread is in conexionCPU.  partes: its variable of that name,    *)
(* never initialised and kept from one request to the next; nobody reads it before  *)
(* it is received.  solapado: its crear or borrar ran together with another.        *)
Hilos == [paso : {"libre", "flag", "partes", "copia", "resultado", "contestar"},
          paquete : Paquetes \cup {Nada}, partes : Nat, solapado : BOOLEAN]
HilosFM9 == [paso : {"paquete", "partes", "parte"}, paquete : Paquetes \cup {Nada},
             partes : Nat, texto : Textos]

TypeOK ==
    /\ pedidos \in [CPUs -> Seq(Paquetes)] /\ hilo \in [CPUs -> Hilos]
    /\ aMDJ \in Seq(Paquetes) /\ deFM9 \in Seq(Paquetes)
    /\ deMDJ \in Seq(Mensajes)
    /\ aFM9 \in Seq(Paquetes \cup Mensajes)
    /\ aSAFA \in Seq([tipoOperacion : {1, 8, 9}, resultado : {0, 1}, id : Ids])
    /\ archivos \subseteq Nombres /\ MDJVivo \in BOOLEAN
    /\ dados \subseteq [id : Ids, resultado : {0, 1}]
    /\ hiloFM9 \in HilosFM9
    /\ segmentos \subseteq [id : Ids, archivo : Nombres, texto : Textos]

Init ==
    /\ pedidos = [c \in CPUs |-> <<>>]
    /\ hilo = [c \in CPUs |-> [paso |-> "libre", paquete |-> Nada, partes |-> 0, solapado |-> FALSE]]
    /\ aMDJ = <<>> /\ deMDJ = <<>> /\ aFM9 = <<>> /\ deFM9 = <<>> /\ aSAFA = <<>>
    /\ archivos = ArchivosIniciales /\ MDJVivo = TRUE /\ dados = {}
    /\ hiloFM9 = [paso |-> "paquete", paquete |-> Nada, partes |-> 0, texto |-> <<>>]
    /\ segmentos = {}

--------------------------------------------------------------------------------
(* Conversations that run into each other *)

EnAbrir(c) == hilo[c].paso \in {"flag", "partes", "copia"}
EnMDJ(c) ==
    \/ hilo[c].paso \in {"flag", "partes", "resultado"}
    \/ hilo[c].paso = "copia" /\ hilo[c].partes > 0

Mezclado ==
    \E c, d \in CPUs : c # d /\ EnAbrir(c) /\ (EnAbrir(d) \/ (EnMDJ(c) /\ EnMDJ(d)))

Sigue == MDJVivo /\ ~Mezclado

--------------------------------------------------------------------------------
(* The CPUs: each request is of another process, numbered as they come *)

Usados ==
    {aSAFA[k].id : k \in DOMAIN aSAFA}
    \cup {hilo[c].paquete.id : c \in {d \in CPUs : hilo[d].paso # "libre"}}
    \cup UNION {{pedidos[c][k].id : k \in DOMAIN pedidos[c]} : c \in CPUs}

Pedir(c) ==
    /\ Sigue
    /\ \E op \in {1, 8, 9}, f \in Nombres, id \in Ids \ Usados :
          /\ 1 .. (id - 1) \subseteq Usados
          /\ pedidos' = [pedidos EXCEPT ![c] = Append(@,
                [tipoOperacion |-> op, id |-> id, archivo |-> f, resultado |-> -1])]
    /\ UNCHANGED <<hilo, aMDJ, deMDJ, aFM9, deFM9, aSAFA, vMDJ, vFM9>>

--------------------------------------------------------------------------------
(* DAM, conexionCPU *)

En(c, paso) == Sigue /\ hilo[c].paso = paso

(* the request goes to MDJ whatever it is *)
Tomar(c) ==
    /\ En(c, "libre") /\ pedidos[c] # <<>>
    /\ LET p == Head(pedidos[c])
           otros == {d \in CPUs \ {c} : hilo[d].paso = "resultado"}
       IN /\ aMDJ' = Append(aMDJ, p)
          /\ hilo' = [d \in CPUs |->
                IF d = c THEN [hilo[c] EXCEPT !.paquete = p,
                                 !.paso = IF p.tipoOperacion = 1 THEN "flag" ELSE "resultado",
                                 !.solapado = p.tipoOperacion # 1 /\ otros # {}]
                ELSE [hilo[d] EXCEPT !.solapado = @ \/ (p.tipoOperacion # 1 /\ d \in otros)]]
    /\ pedidos' = [pedidos EXCEPT ![c] = Tail(@)]
    /\ UNCHANGED <<deMDJ, aFM9, deFM9, aSAFA, vMDJ, vFM9>>

(* MDJ only ever sends a 1 here *)
LeerFlag(c) ==
    /\ En(c, "flag") /\ deMDJ # <<>> /\ Head(deMDJ) = Entero(1)
    /\ hilo' = [hilo EXCEPT ![c].paso = "partes"]
    /\ deMDJ' = Tail(deMDJ)
    /\ UNCHANGED <<pedidos, aMDJ, aFM9, deFM9, aSAFA, vMDJ, vFM9>>

(* FM9 hears of the request only now *)
LeerPartes(c) ==
    /\ En(c, "partes") /\ deMDJ # <<>>
    /\ hilo' = [hilo EXCEPT ![c].paso = "copia", ![c].partes = Head(deMDJ).valor]
    /\ deMDJ' = Tail(deMDJ)
    /\ aFM9' = aFM9 \o <<hilo[c].paquete, Entero(Head(deMDJ).valor)>>
    /\ UNCHANGED <<pedidos, aMDJ, deFM9, aSAFA, vMDJ, vFM9>>

(* the last part comes after its size: two messages in, two out *)
CopiarParte(c) ==
    LET n == IF hilo[c].partes = 1 THEN 2 ELSE 1 IN
    /\ En(c, "copia") /\ hilo[c].partes > 0 /\ Len(deMDJ) >= n
    /\ aFM9' = aFM9 \o SubSeq(deMDJ, 1, n)
    /\ deMDJ' = SubSeq(deMDJ, n + 1, Len(deMDJ))
    /\ hilo' = [hilo EXCEPT ![c].partes = @ - 1]
    /\ UNCHANGED <<pedidos, aMDJ, deFM9, aSAFA, vMDJ, vFM9>>

(* FM9's packet takes the place of the request *)
EsperarFM9(c) ==
    /\ En(c, "copia") /\ hilo[c].partes = 0 /\ deFM9 # <<>>
    /\ hilo' = [hilo EXCEPT ![c].paso = "contestar", ![c].paquete = Head(deFM9)]
    /\ deFM9' = Tail(deFM9)
    /\ UNCHANGED <<pedidos, aMDJ, deMDJ, aFM9, aSAFA, vMDJ, vFM9>>

(* crear, borrar: the first int there is *)
SinLeer(s) == s    \* mutant: the int stays in the socket, as with MSG_PEEK
Leido(s) == Tail(s)

LeerResultado(c) ==
    /\ En(c, "resultado") /\ deMDJ # <<>>
    /\ hilo' = [hilo EXCEPT ![c].paso = "contestar", ![c].partes = Head(deMDJ).valor,
                            ![c].paquete.resultado = Head(deMDJ).valor]
    /\ deMDJ' = Leido(deMDJ)
    /\ UNCHANGED <<pedidos, aMDJ, aFM9, deFM9, aSAFA, vMDJ, vFM9>>

ContestarDosVeces(p) ==    \* mutant: it is sent twice
    aSAFA \o <<[tipoOperacion |-> p.tipoOperacion, resultado |-> p.resultado, id |-> p.id],
               [tipoOperacion |-> p.tipoOperacion, resultado |-> p.resultado, id |-> p.id]>>
Contestado(p) ==
    Append(aSAFA, [tipoOperacion |-> p.tipoOperacion, resultado |-> p.resultado, id |-> p.id])

Contestar(c) ==
    /\ En(c, "contestar")
    /\ aSAFA' = Contestado(hilo[c].paquete)
    /\ hilo' = [hilo EXCEPT ![c].paso = "libre", ![c].paquete = Nada]
    /\ UNCHANGED <<pedidos, aMDJ, deMDJ, aFM9, deFM9, vMDJ, vFM9>>

--------------------------------------------------------------------------------
(* MDJ: one request after the other *)

Recibe(op) == Sigue /\ aMDJ # <<>> /\ Head(aMDJ).tipoOperacion = op

(* how the file is cut: every part is a TRANSFER_SIZE but the last, which says its size *)
SinResto(f) == Tamanio[f] \div TRANSFER_SIZE    \* mutant: a shorter last part is not counted
Partes(f) == (Tamanio[f] \div TRANSFER_SIZE) + (IF Tamanio[f] % TRANSFER_SIZE # 0 THEN 1 ELSE 0)
Resto(f) == IF Tamanio[f] % TRANSFER_SIZE # 0 THEN Tamanio[f] % TRANSFER_SIZE ELSE TRANSFER_SIZE

Trozo(f, i, n) == Parte(SubSeq(Texto(f), i * TRANSFER_SIZE + 1, i * TRANSFER_SIZE + n))
Envio(f) ==
    LET n == Partes(f) IN
    <<Entero(1), Entero(n)>> \o [i \in 1 .. (n - 1) |-> Trozo(f, i - 1, TRANSFER_SIZE)]
    \o (IF n > 0 THEN <<Entero(Resto(f)), Trozo(f, n - 1, Resto(f))>> ELSE <<>>)

MDJAbrir ==
    /\ Recibe(1)
    /\ aMDJ' = Tail(aMDJ)
    /\ \/ /\ Head(aMDJ).archivo \in archivos
          /\ deMDJ' = deMDJ \o Envio(Head(aMDJ).archivo)
          /\ UNCHANGED MDJVivo
       \/ /\ Head(aMDJ).archivo \notin archivos
          /\ MDJVivo' = FALSE
          /\ UNCHANGED deMDJ
    /\ UNCHANGED <<pedidos, hilo, aFM9, deFM9, aSAFA, archivos, dados, vFM9>>

MDJResponde(op, resultado) ==
    /\ Recibe(op)
    /\ aMDJ' = Tail(aMDJ)
    /\ deMDJ' = Append(deMDJ, Entero(resultado))
    /\ dados' = dados \cup {[id |-> Head(aMDJ).id, resultado |-> resultado]}
    /\ UNCHANGED <<pedidos, hilo, aFM9, deFM9, aSAFA, MDJVivo, vFM9>>

(* a file that is there is not created again; there may be no room for a new one *)
MDJCrear ==
    \/ MDJResponde(8, 0) /\ UNCHANGED archivos
    \/ /\ MDJResponde(8, 1)
       /\ Head(aMDJ).archivo \notin archivos
       /\ archivos' = archivos \cup {Head(aMDJ).archivo}

MDJBorrar ==
    \/ /\ MDJResponde(9, 0)
       /\ Head(aMDJ).archivo \notin archivos
       /\ UNCHANGED archivos
    \/ /\ MDJResponde(9, 1)
       /\ Head(aMDJ).archivo \in archivos
       /\ archivos' = archivos \ {Head(aMDJ).archivo}

--------------------------------------------------------------------------------
(* FM9, conexionDAM: it puts the parts together and adds a segment *)

FM9Paquete ==
    /\ Sigue /\ hiloFM9.paso = "paquete" /\ aFM9 # <<>>
    /\ hiloFM9' = [paso |-> "partes", paquete |-> Head(aFM9), partes |-> 0, texto |-> <<>>]
    /\ aFM9' = Tail(aFM9)
    /\ UNCHANGED <<pedidos, hilo, aMDJ, deMDJ, deFM9, aSAFA, vMDJ, segmentos>>

FM9Partes ==
    /\ Sigue /\ hiloFM9.paso = "partes" /\ aFM9 # <<>>
    /\ hiloFM9' = [hiloFM9 EXCEPT !.paso = "parte", !.partes = Head(aFM9).valor]
    /\ aFM9' = Tail(aFM9)
    /\ UNCHANGED <<pedidos, hilo, aMDJ, deMDJ, deFM9, aSAFA, vMDJ, segmentos>>

(* as many bytes as a part has, or as the last one was said to have *)
FM9Parte ==
    LET ultima == hiloFM9.partes = 1 IN
    /\ Sigue /\ hiloFM9.paso = "parte" /\ hiloFM9.partes > 0
    /\ Len(aFM9) >= (IF ultima THEN 2 ELSE 1)
    /\ LET t == aFM9[IF ultima THEN 2 ELSE 1].bytes
           n == IF ultima THEN aFM9[1].valor ELSE TRANSFER_SIZE
       IN hiloFM9' = [hiloFM9 EXCEPT !.partes = @ - 1, !.texto = @ \o SubSeq(t, 1, n)]
    /\ aFM9' = SubSeq(aFM9, IF ultima THEN 3 ELSE 2, Len(aFM9))
    /\ UNCHANGED <<pedidos, hilo, aMDJ, deMDJ, deFM9, aSAFA, vMDJ, segmentos>>

SinResultado(r) == Append(deFM9, hiloFM9.paquete)    \* mutant: the packet as it came
SoloSiEntra(r) ==    \* mutant: no answer when there is no room
    IF r = 0 THEN deFM9 ELSE Append(deFM9, [hiloFM9.paquete EXCEPT !.resultado = r])
FM9Contesta(r) == Append(deFM9, [hiloFM9.paquete EXCEPT !.resultado = r])

(* agregarSegmento: there is room for it (module FM9) or not *)
FM9Guardar ==
    /\ Sigue /\ hiloFM9.paso = "parte" /\ hiloFM9.partes = 0
    /\ \E r \in {0, 1} :
          /\ deFM9' = FM9Contesta(r)
          /\ segmentos' = IF r = 0 THEN segmentos
                          ELSE segmentos \cup {[id |-> hiloFM9.paquete.id, archivo |-> hiloFM9.paquete.archivo,
                                                texto |-> hiloFM9.texto]}
    /\ hiloFM9' = [paso |-> "paquete", paquete |-> Nada, partes |-> 0, texto |-> <<>>]
    /\ UNCHANGED <<pedidos, hilo, aMDJ, deMDJ, aFM9, aSAFA, vMDJ>>

--------------------------------------------------------------------------------

HiloDAM(c) ==
    \/ Tomar(c) \/ LeerFlag(c) \/ LeerPartes(c) \/ CopiarParte(c) \/ EsperarFM9(c)
    \/ LeerResultado(c) \/ Contestar(c)
HiloMDJ == MDJAbrir \/ MDJCrear \/ MDJBorrar
HiloDeFM9 == FM9Paquete \/ FM9Partes \/ FM9Parte \/ FM9Guardar

Next == HiloMDJ \/ HiloDeFM9 \/ \E c \in CPUs : Pedir(c) \/ HiloDAM(c)

Spec == Init /\ [][Next]_variables

(* each is a thread of its process that blocks only in recv *)
FairSpec == Spec /\ WF_variables(HiloMDJ) /\ WF_variables(HiloDeFM9)
                 /\ \A c \in CPUs : WF_variables(HiloDAM(c))

--------------------------------------------------------------------------------
(* Properties *)

(* the request a thread is busy with is still to be answered *)
Pendientes ==
    LET deQuien(p) == [tipoOperacion |-> p.tipoOperacion, id |-> p.id]
    IN [c \in CPUs |->
          (IF hilo[c].paso = "libre" THEN <<>> ELSE <<deQuien(hilo[c].paquete)>>)
          \o [k \in DOMAIN pedidos[c] |-> deQuien(pedidos[c][k])]]

D == INSTANCE DAM WITH
        pedidos <- Pendientes, deDAM <- aSAFA, DAMVivo <- TRUE, MDJVivo <- TRUE, FM9Vivo <- TRUE,
        aCPU <- <<>>, deCPU <- <<>>,
        MaxProcesos <- MaxPedidos, Escriptorios <- {}, Codigo <- <<>>, LargoImpar <- {}, ConUno <- {}

(* Whatever the order in which the threads, MDJ and FM9 run, what S-AFA and a CPU see *)
(* of DAM is that a request is attended in one step, as module DAM says: one answer   *)
(* to each, in the order of its CPU, for its own process, though the packet of an     *)
(* abrir is replaced by the one FM9 sends back.                                       *)
ImplementaDAM == [][\E c \in CPUs : D!Atender(c) \/ Pedir(c)]_<<Pendientes, aSAFA>>

(* An abrir that S-AFA is told was done left the whole file in FM9, cut by MDJ, passed  *)
(* on by DAM and put together by FM9, whatever its size is next to TRANSFER_SIZE, and *)
(* FM9 stores nothing else.                                                           *)
ArchivoEntero ==
    /\ \A s \in segmentos : s.texto = Texto(s.archivo)
    /\ \A k \in DOMAIN aSAFA : aSAFA[k].tipoOperacion = 1 /\ aSAFA[k].resultado = 1 =>
          \E s \in segmentos : s.id = aSAFA[k].id

(* A crear or borrar that no other ran together with gets MDJ's answer to it, and the *)
(* swaps of those that did never reach it.                                            *)
ResultadoPropio ==
    \A c \in CPUs :
        LET h == hilo[c] IN
        h.paso = "contestar" /\ h.paquete.tipoOperacion # 1 /\ ~h.solapado =>
            [id |-> h.paquete.id, resultado |-> h.paquete.resultado] \in dados

(* Swapped or not, S-AFA is told of as many successes as MDJ had.                     *)
NingunoSePierde ==
    (\A c \in CPUs : hilo[c].paso = "libre") =>
        Cardinality({d \in dados : d.resultado = 1}) =
        Cardinality({k \in DOMAIN aSAFA : aSAFA[k].tipoOperacion # 1 /\ aSAFA[k].resultado = 1})

(* Every request is answered in the end, unless an abrir gets mixed up or kills MDJ.  *)
TodosContestados == \A c \in CPUs : Pendientes[c] # <<>> ~> Pendientes[c] = <<>> \/ ~Sigue

(* "termine el crear", "termine el borrar" (DAM.c:101, DAM.c:114): once its thread has *)
(* the int, MDJ has attended the request.                                             *)
TermineElCrear ==
    \A c \in CPUs :
        hilo[c].paso = "contestar" /\ hilo[c].paquete.tipoOperacion # 1 =>
            \E d \in dados : d.id = hilo[c].paquete.id
================================================================================
