---------------------------------- MODULE DAM ----------------------------------
(* DAM: one thread per CPU takes that CPU's requests in order, has MDJ and FM9  *)
(* carry them out and tells S-AFA the result.  Here the file system and the     *)
(* memory behind it only decide the result and who is left alive: MDJ dies of   *)
(* an abrir of a file it lacks or of a crear without a size, FM9 of a flush, and *)
(* DAM of a second send to either (SIGPIPE).                                     *)
EXTENDS Red

VARIABLES DAMVivo, MDJVivo    \* the process has not died

dam == <<DAMVivo, MDJVivo>>

InitDAM == DAMVivo = TRUE /\ MDJVivo = TRUE

Pedido(c, ops) ==
    /\ DAMVivo /\ pedidos[c] # <<>> /\ Head(pedidos[c]).tipoOperacion \in ops
    /\ pedidos' = Consumir(pedidos, c)
    /\ UNCHANGED <<aCPU, deCPU>>

(* the request itself, with its result *)
Contestado(c, resultado) ==
    [tipoOperacion |-> Head(pedidos[c]).tipoOperacion, resultado |-> resultado,
     id |-> Head(pedidos[c]).id]

ResponderDosVeces(c, resultado) ==    \* mutant: the answer is sent twice
    /\ deDAM' = deDAM \o <<Contestado(c, resultado), Contestado(c, resultado)>>
    /\ UNCHANGED DAMVivo
NoResponder(c, resultado) == UNCHANGED <<deDAM, DAMVivo>>    \* mutant: the answer is lost
Responder(c, resultado) ==
    /\ deDAM' = Append(deDAM, Contestado(c, resultado))
    /\ UNCHANGED DAMVivo

DAMMuere == DAMVivo' = FALSE /\ UNCHANGED deDAM

(* The result DAM reports when MDJ does not answer: abrir starts from 0, crear and *)
(* borrar from a variable of the thread that is not initialised.                  *)
SinRespuesta(c) == IF Head(pedidos[c]).tipoOperacion = 1 THEN {0} ELSE {0, 1}

(* crear, borrar: MDJ's answer; abrir: FM9 says whether it found room *)
Atender(c) ==
    /\ Pedido(c, {1, 8, 9}) /\ MDJVivo
    /\ FM9Vivo \/ Head(pedidos[c]).tipoOperacion # 1
    /\ \E resultado \in {0, 1} : Responder(c, resultado)
    /\ UNCHANGED <<FM9Vivo, MDJVivo>>

AtenderMuereMDJ(c) ==
    /\ Pedido(c, {1, 8, 9}) /\ MDJVivo
    /\ MDJVivo' = FALSE
    /\ \E resultado \in SinRespuesta(c) : Responder(c, resultado)
    /\ UNCHANGED FM9Vivo

AtenderSinMDJ(c) ==
    /\ Pedido(c, {1, 8, 9}) /\ ~MDJVivo
    /\ DAMMuere \/ \E resultado \in SinRespuesta(c) : Responder(c, resultado)
    /\ UNCHANGED <<FM9Vivo, MDJVivo>>

(* DAM sends S-AFA a packet whose operation it read from garbage: S-AFA drops it *)
RespuestaIlegible == UNCHANGED <<deDAM, DAMVivo>>

(* abrir of a file MDJ has, for an FM9 that is dead: what is sent to it may end   *)
(* DAM, and what is read of it has whatever the packet's memory held              *)
AtenderAbrirSinFM9(c) ==
    /\ Pedido(c, {1}) /\ MDJVivo /\ ~FM9Vivo
    /\ DAMMuere \/ Responder(c, 0) \/ RespuestaIlegible
    /\ UNCHANGED <<FM9Vivo, MDJVivo>>

(* flush kills FM9; DAM then sends MDJ as many parts as an uninitialised counter *)
(* says: it ends with some result, or never                                      *)
AtenderFlush(c) ==
    /\ Pedido(c, {6})
    /\ FM9Vivo' = FALSE
    /\ DAMMuere \/ \E resultado \in {0, 1} : Responder(c, resultado)
    /\ UNCHANGED MDJVivo

NextDAM(c) ==
    \/ Atender(c) \/ AtenderMuereMDJ(c) \/ AtenderSinMDJ(c)
    \/ AtenderAbrirSinFM9(c) \/ AtenderFlush(c)
================================================================================
