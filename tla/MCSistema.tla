------------------------------- MODULE MCSistema -------------------------------
(* Workloads for the model checker *)
EXTENDS Afirmaciones

Frase(o, a) == [op |-> o, arg |-> a]

Concentra2 == [e \in Escriptorios |-> <<Frase("concentrar", ""), Frase("concentrar", "")>>]

Programa(p) == [e \in Escriptorios |-> p]

UnaLinea == Programa(<<Frase("concentrar", "")>>)

(* a process that blocks: it creates and deletes files *)
CreaBorra == Programa(<<Frase("crear", "f"), Frase("borrar", "f"), Frase("concentrar", "")>>)

(* one script that blocks (and not in a crear, which hands back a second order), *)
(* one that does not and one that fails at once                                  *)
Mezcla == [calcula |-> <<Frase("concentrar", ""), Frase("concentrar", "")>>,
           borra   |-> <<Frase("borrar", "f"), Frase("concentrar", "")>>,
           falla   |-> <<Frase("asignar", "f")>>]

(* one script per way a sentence about files ends, named for it; a script's own   *)
(* name is the name of a file it has open                                         *)
Archivos ==
    [reabrir   |-> <<Frase("abrir", "reabrir"), Frase("flush", "reabrir"), Frase("otra", "")>>,
     cerrar    |-> <<Frase("abrir", "cerrar"), Frase("close", "cerrar"), Frase("otra", "")>>,
     abrir     |-> <<Frase("abrir", "f"), Frase("comentario", "")>>,
     sinNombre |-> <<Frase("close", "sinNombre")>>,
     noAbierto |-> <<Frase("crear", "f"), Frase("asignar", "f"), Frase("flush", "f")>>,
     asignar   |-> <<Frase("asignar", "asignar"), Frase("otra", "")>>,
     cerrarF   |-> <<Frase("crear", "f"), Frase("asignar", "f"), Frase("close", "f")>>,
     esperar   |-> <<Frase("wait", "r")>>,
     avisar    |-> <<Frase("signal", "r")>>,
     borrar    |-> <<Frase("borrar", "f"), Frase("otra", "")>>,
     recrear   |-> <<Frase("abrir", "recrear"), Frase("crear", "f"), Frase("flush", "recrear"),
                     Frase("otra", "")>>]
================================================================================
