---------------------------------- MODULE Red ----------------------------------
(* The TCP connections that join S-AFA, the CPUs and DAM, and the workload the  *)
(* three programs share.  A connection is reliable and ordered, so each         *)
(* direction is one sequence of messages.                                       *)
EXTENDS Integers, Sequences, FiniteSets

CONSTANTS
    CPUs,           \* the sockets of the CPUs, in the order they connected
    MaxProcesos,    \* bound: how many times the operator types "ejecutar"
    Escriptorios,   \* the scripts the operator may run
    Codigo,         \* Codigo[e] is the sequence of sentences of script e
    LargoImpar,     \* the scripts whose path has an odd number of characters
    ConUno,         \* those whose path has a '1' where it can be read as an order
    Nada            \* the C NULL

(* the words of the script language; "otra" is an empty or unknown sentence *)
Operaciones == {"concentrar", "abrir", "asignar", "wait", "signal", "flush", "close",
                "crear", "borrar", "comentario", "otra"}

ASSUME RedAssumption ==
    /\ CPUs \subseteq Nat /\ CPUs # {} /\ IsFiniteSet(CPUs)
    /\ MaxProcesos \in Nat
    /\ Codigo \in [Escriptorios -> Seq([op : Operaciones, arg : STRING])]
    /\ LargoImpar \subseteq Escriptorios /\ ConUno \subseteq Escriptorios
    /\ Nada \notin [id : Nat, flagInicializacion : {0, 1}]
    /\ Nada \notin [proceso : [id : Nat, flagInicializacion : {0, 1}]]

VARIABLES
    aCPU,           \* aCPU[c]: S-AFA -> CPU c
    deCPU,          \* deCPU[c]: CPU c -> S-AFA
    pedidos,        \* pedidos[c]: CPU c -> the DAM thread that serves it
    deDAM,          \* DAM -> S-AFA, one socket shared by all of DAM's threads
    FM9Vivo         \* FM9, which serves the CPUs and DAM, has not died

red == <<aCPU, deCPU, pedidos, deDAM>>

Ids == 1 .. MaxProcesos

(* A Proceso in S-AFA's heap.  The DTB dummy is another Proceso with the id of  *)
(* the one it loads: flagInicializacion (0 dummy, 1 not) tells them apart.      *)
Objetos == [id : Ids, flagInicializacion : {0, 1}]
Real(i) == [id |-> i, flagInicializacion |-> 1]
Dummy(i) == [id |-> i, flagInicializacion |-> 0]

Letras == {"d", "b", "r", "e", "f", "w", "s"}

(* Paquete_DAM: tipoOperacion 1 abrir, 6 flush, 8 crear, 9 borrar.  Id 0 stands *)
(* for an idProcesoSolicitante read from garbage.                               *)
Paquetes == [tipoOperacion : {1, 6, 8, 9}, resultado : {0, 1}, id : Ids \cup {0}]

Orden == [tipo |-> "orden"]
EnvioProceso(p, e) == [tipo |-> "proceso", proceso |-> p, escriptorio |-> e]
Mensajes == {Orden} \cup {EnvioProceso(p, e) : p \in Objetos, e \in Escriptorios}

RedTypeOK ==
    /\ aCPU \in [CPUs -> Seq(Mensajes)]
    /\ deCPU \in [CPUs -> Seq(Letras)]
    /\ pedidos \in [CPUs -> Seq(Paquetes)]
    /\ deDAM \in Seq(Paquetes)
    /\ FM9Vivo \in BOOLEAN

InitRed ==
    /\ aCPU = [c \in CPUs |-> <<>>]
    /\ deCPU = [c \in CPUs |-> <<>>]
    /\ pedidos = [c \in CPUs |-> <<>>]
    /\ deDAM = <<>>
    /\ FM9Vivo = TRUE

(* send on the connection ch[c]: the message queues behind what was sent before *)
Enviar(ch, c, m) == [ch EXCEPT ![c] = Append(@, m)]
Consumir(ch, c) == [ch EXCEPT ![c] = Tail(@)]
================================================================================
