---------------------------------- MODULE CPU ----------------------------------
(* A CPU process.  Its main thread receives processes; for a real one it starts *)
(* the thread that runs the script and waits for it, so one program counter,    *)
(* hilo, follows both.  A sentence is one step except that DAM and S-AFA are    *)
(* told about a blocking one by two sends.  FM9, asked for each sentence, is     *)
(* called synchronously: what it does to the CPU is in FM9Vivo.                 *)
EXTENDS Red

VARIABLES
    hilo,               \* hilo[c], one of Estados
    DTB,                \* the object and the script the CPU runs, or Nada
    instructionPointer, flagError,
    archivosAsociados,  \* names of the files the DTB has open
    archivoABuscar      \* the last name searched for, Nada until the first

memoria == <<DTB, instructionPointer, flagError, archivosAsociados, archivoABuscar>>
cpu == <<hilo, memoria>>

(* "proceso": in recibirProceso; "avisoD"/"avisoB": DAM has been told, S-AFA     *)
(* not yet; "orden": the script waits for its order; "colgada": in a recv        *)
(* nothing will answer; "muerta": dereferenced NULL.                             *)
Estados == {"proceso", "avisoD", "orden", "avisoB", "colgada", "muerta"}

Nombres == {s.arg : s \in UNION {{Codigo[e][k] : k \in DOMAIN Codigo[e]} : e \in Escriptorios}}
              \cup Escriptorios

CPUTypeOK ==
    /\ hilo \in [CPUs -> Estados]
    /\ DTB \in [CPUs -> [proceso : Objetos, escriptorio : Escriptorios] \cup {Nada}]
    /\ instructionPointer \in [CPUs -> Nat]
    /\ flagError \in [CPUs -> {0, 1}]
    /\ archivosAsociados \in [CPUs -> SUBSET Nombres]
    /\ archivoABuscar \in [CPUs -> Nombres \cup {Nada}]

InitCPU ==
    /\ hilo = [c \in CPUs |-> "proceso"]
    /\ DTB = [c \in CPUs |-> Nada]
    /\ instructionPointer = [c \in CPUs |-> 0]
    /\ flagError = [c \in CPUs |-> 0]
    /\ archivosAsociados = [c \in CPUs |-> {}]
    /\ archivoABuscar = [c \in CPUs |-> Nada]

Pedir(c, op, i) ==
    pedidos' = Enviar(pedidos, c, [tipoOperacion |-> op, resultado |-> 0, id |-> i])
AvisarDosVeces(c, letra) ==    \* mutant: the message is sent twice
    deCPU' = [deCPU EXCEPT ![c] = @ \o <<letra, letra>>]
Avisar(c, letra) == deCPU' = Enviar(deCPU, c, letra)
Pasar(c, h) == hilo' = [hilo EXCEPT ![c] = h]

--------------------------------------------------------------------------------
(* main *)

RecibeProceso(c) == hilo[c] = "proceso" /\ aCPU[c] # <<>> /\ Head(aCPU[c]) # Orden

RecibirDummy(c) ==
    /\ RecibeProceso(c) /\ Head(aCPU[c]).proceso.flagInicializacion = 0
    /\ aCPU' = Consumir(aCPU, c)
    /\ Pedir(c, 1, Head(aCPU[c]).proceso.id)
    /\ Pasar(c, "avisoD")
    /\ UNCHANGED <<deCPU, deDAM, memoria, FM9Vivo>>

AvisarDummy(c) ==
    /\ hilo[c] = "avisoD"
    /\ Avisar(c, "d") /\ Pasar(c, "proceso")
    /\ UNCHANGED <<aCPU, pedidos, deDAM, memoria, FM9Vivo>>

(* The process comes with its list of files, which holds just its script.  The  *)
(* instruction pointer and flagError are the ones the last script left.         *)
RecibirReal(c) ==
    LET m == Head(aCPU[c])
    IN /\ RecibeProceso(c) /\ m.proceso.flagInicializacion = 1
       /\ aCPU' = Consumir(aCPU, c)
       /\ DTB' = [DTB EXCEPT ![c] = [proceso |-> m.proceso, escriptorio |-> m.escriptorio]]
       /\ archivosAsociados' = [archivosAsociados EXCEPT ![c] = {m.escriptorio}]
       /\ Pasar(c, "orden")
       /\ UNCHANGED <<deCPU, pedidos, deDAM, instructionPointer, flagError, archivoABuscar,
                      FM9Vivo>>

(* An order that finds no script is read as the first two bytes of a process    *)
(* whose other 26 are whatever the heap held: it may be dropped, taken for a     *)
(* dummy of no process, or announce a path that never comes.                     *)
RecibirBasura(c) ==
    /\ hilo[c] = "proceso" /\ aCPU[c] # <<>> /\ Head(aCPU[c]) = Orden
    /\ aCPU' = Consumir(aCPU, c)
    /\ \/ UNCHANGED <<pedidos, hilo>>
       \/ Pedir(c, 1, 0) /\ Pasar(c, "avisoD")
       \/ UNCHANGED pedidos /\ Pasar(c, "colgada")
    /\ UNCHANGED <<deCPU, deDAM, memoria, FM9Vivo>>

--------------------------------------------------------------------------------
(* ejecutarCodigoEscriptorio *)

(* A process sent while the script runs is read two bytes at a time and ignored. *)
(* If its length is odd its last byte can pair with the '1' of the order behind  *)
(* it, which is then lost too; and a '1' that is the first of its pair is taken  *)
(* for an order nobody gave.                                                     *)
IgnorarProceso(c) ==
    /\ hilo[c] = "orden" /\ aCPU[c] # <<>> /\ Head(aCPU[c]) # Orden
    /\ \/ aCPU' = Consumir(aCPU, c)
       \/ /\ Head(aCPU[c]).escriptorio \in LargoImpar
          /\ Len(aCPU[c]) > 1 /\ aCPU[c][2] = Orden
          /\ aCPU' = [aCPU EXCEPT ![c] = Tail(Tail(@))]
       \/ /\ Head(aCPU[c]).escriptorio \in ConUno
          /\ aCPU' = [aCPU EXCEPT ![c] = <<Orden>> \o Tail(@)]
    /\ UNCHANGED <<deCPU, pedidos, deDAM, hilo, memoria, FM9Vivo>>

LlegaOrden(c) ==
    /\ hilo[c] = "orden" /\ aCPU[c] # <<>> /\ Head(aCPU[c]) = Orden
    /\ aCPU' = Consumir(aCPU, c)
    /\ UNCHANGED deDAM

ScriptAbierto(c) == DTB[c].escriptorio \in archivosAsociados[c]
Quedan(c) == instructionPointer[c] < Len(Codigo[DTB[c].escriptorio])
Sentencia(c) == Codigo[DTB[c].escriptorio][instructionPointer[c] + 1]

(* pedirSentencia when the script itself has been closed: NULL entry *)
PedirSinScript(c) ==
    /\ LlegaOrden(c) /\ ~ScriptAbierto(c)
    /\ Pasar(c, "muerta")
    /\ UNCHANGED <<deCPU, pedidos, memoria, FM9Vivo>>

(* FM9 does not answer for a line past the last one *)
PedirPasadoElFin(c) ==
    /\ LlegaOrden(c) /\ ScriptAbierto(c) /\ FM9Vivo /\ ~Quedan(c)
    /\ Pasar(c, "colgada")
    /\ UNCHANGED <<deCPU, pedidos, memoria, FM9Vivo>>

(* pedirSentencia returns NULL only when FM9's connection is gone; the next     *)
(* request on that connection kills the CPU (SIGPIPE)                           *)
PedirSinFM9(c) ==
    /\ LlegaOrden(c) /\ ScriptAbierto(c) /\ ~FM9Vivo /\ flagError[c] = 1
    /\ Pasar(c, "muerta")
    /\ UNCHANGED <<deCPU, pedidos, memoria, FM9Vivo>>

FinDelEscriptorio(c) ==
    /\ LlegaOrden(c) /\ ScriptAbierto(c) /\ ~FM9Vivo /\ flagError[c] = 0
    /\ flagError' = [flagError EXCEPT ![c] = 1]
    /\ Avisar(c, "f")
    /\ DTB' = [DTB EXCEPT ![c] = Nada]
    /\ Pasar(c, "proceso")
    /\ UNCHANGED <<pedidos, instructionPointer, archivosAsociados, archivoABuscar, FM9Vivo>>

(* parserSentencia of a sentence whose first word is in ops *)
Parsear(c, ops) ==
    /\ LlegaOrden(c) /\ ScriptAbierto(c) /\ FM9Vivo /\ Quedan(c)
    /\ Sentencia(c).op \in ops
    /\ instructionPointer' = [instructionPointer EXCEPT ![c] = @ + 1]

(* 'e', then the main thread, woken, sends 'f' too if flagError is still set *)
Abortar(c) ==
    /\ deCPU' = [deCPU EXCEPT ![c] = @ \o (IF flagError[c] = 1 THEN <<"e", "f">> ELSE <<"e">>)]
    /\ DTB' = [DTB EXCEPT ![c] = Nada]
    /\ Pasar(c, "proceso")

Concentrar(c) ==
    /\ Parsear(c, {"concentrar"})
    /\ Avisar(c, "r")
    /\ UNCHANGED <<pedidos, hilo, DTB, flagError, archivosAsociados, archivoABuscar, FM9Vivo>>

(* a comment, like an unknown word, ends the sentence without telling S-AFA *)
SinAviso(c) ==
    /\ Parsear(c, {"comentario", "otra"})
    /\ UNCHANGED <<deCPU, pedidos, hilo, DTB, flagError, archivosAsociados, archivoABuscar,
                   FM9Vivo>>

WaitSignal(c) ==
    /\ Parsear(c, {"wait", "signal"})
    /\ Avisar(c, IF Sentencia(c).op = "wait" THEN "w" ELSE "s")
    /\ UNCHANGED <<pedidos, hilo, DTB, flagError, archivosAsociados, archivoABuscar, FM9Vivo>>

CrearBorrar(c) ==
    /\ Parsear(c, {"crear", "borrar"})
    /\ Pedir(c, IF Sentencia(c).op = "crear" THEN 8 ELSE 9, DTB[c].proceso.id)
    /\ Pasar(c, "avisoB")
    /\ UNCHANGED <<deCPU, DTB, flagError, archivosAsociados, archivoABuscar, FM9Vivo>>

Abrir(c) ==
    LET a == Sentencia(c).arg
    IN /\ Parsear(c, {"abrir"})
       /\ archivoABuscar' = [archivoABuscar EXCEPT ![c] = a]
       /\ \/ /\ a \in archivosAsociados[c]
             /\ Avisar(c, "r")
             /\ UNCHANGED <<pedidos, hilo, archivosAsociados>>
          \/ /\ a \notin archivosAsociados[c]
             /\ archivosAsociados' = [archivosAsociados EXCEPT ![c] = @ \cup {a}]
             /\ Pedir(c, 1, DTB[c].proceso.id)
             /\ Pasar(c, "avisoB")
             /\ UNCHANGED deCPU
       /\ UNCHANGED <<DTB, flagError, FM9Vivo>>

AvisarBloqueo(c) ==
    /\ hilo[c] = "avisoB"
    /\ Avisar(c, "b") /\ Pasar(c, "orden")
    /\ UNCHANGED <<aCPU, pedidos, deDAM, memoria, FM9Vivo>>

(* The name compared is the rest of the sentence, line and data included.  FM9  *)
(* dies serving it: it never registers the tables of the processes.  The flag it *)
(* should have answered is then an uninitialised word, 20002 (abort) or anything *)
(* else (go on), after the CPU has read a packet whose lengths are garbage too,   *)
(* which may kill it.                                                            *)
Asignar(c) ==
    LET a == Sentencia(c).arg
    IN /\ Parsear(c, {"asignar"})
       /\ archivoABuscar' = [archivoABuscar EXCEPT ![c] = a]
       /\ \/ /\ a \in archivosAsociados[c]
             /\ FM9Vivo' = FALSE
             /\ \/ UNCHANGED <<deCPU, DTB, hilo>>
                \/ Abortar(c)
                \/ Pasar(c, "muerta") /\ UNCHANGED <<deCPU, DTB>>
          \/ /\ a \notin archivosAsociados[c]
             /\ Abortar(c)
             /\ UNCHANGED FM9Vivo
       /\ UNCHANGED <<pedidos, flagError, archivosAsociados>>

(* flush and close look for the name some earlier sentence left *)
BuscaNull(c) == archivosAsociados[c] # {} /\ archivoABuscar[c] = Nada
EstaAbierto(c) == archivoABuscar[c] \in archivosAsociados[c]

FlushCloseSinNombre(c) ==
    /\ Parsear(c, {"flush", "close"}) /\ BuscaNull(c)
    /\ Pasar(c, "muerta")
    /\ UNCHANGED <<deCPU, pedidos, DTB, flagError, archivosAsociados, archivoABuscar, FM9Vivo>>

FlushCloseNoAbierto(c) ==
    /\ Parsear(c, {"flush", "close"}) /\ ~BuscaNull(c) /\ ~EstaAbierto(c)
    /\ Abortar(c)
    /\ UNCHANGED <<pedidos, flagError, archivosAsociados, archivoABuscar, FM9Vivo>>

(* FM9 dies when DAM passes the flush on *)
Flush(c) ==
    /\ Parsear(c, {"flush"}) /\ ~BuscaNull(c) /\ EstaAbierto(c)
    /\ Pedir(c, 6, DTB[c].proceso.id)
    /\ Pasar(c, "avisoB")
    /\ UNCHANGED <<deCPU, DTB, flagError, archivosAsociados, archivoABuscar, FM9Vivo>>

(* FM9 dies serving it, and the flag it should have answered is an uninitialised *)
(* word: 40002 aborts, anything else counts as success                           *)
Close(c) ==
    LET a == Sentencia(c).arg
    IN /\ Parsear(c, {"close"}) /\ ~BuscaNull(c) /\ EstaAbierto(c)
       /\ FM9Vivo' = FALSE
       /\ \/ /\ Avisar(c, "r")
             /\ archivoABuscar' = [archivoABuscar EXCEPT ![c] = a]
             /\ archivosAsociados' = [archivosAsociados EXCEPT ![c] = @ \ {a}]
             /\ UNCHANGED <<DTB, hilo>>
          \/ /\ Abortar(c)
             /\ UNCHANGED <<archivoABuscar, archivosAsociados>>
       /\ UNCHANGED <<pedidos, flagError>>

NextCPU(c) ==
    \/ RecibirDummy(c) \/ AvisarDummy(c) \/ RecibirReal(c) \/ RecibirBasura(c)
    \/ IgnorarProceso(c)
    \/ PedirSinScript(c) \/ PedirPasadoElFin(c) \/ PedirSinFM9(c) \/ FinDelEscriptorio(c)
    \/ Concentrar(c) \/ SinAviso(c) \/ WaitSignal(c) \/ CrearBorrar(c) \/ Abrir(c)
    \/ AvisarBloqueo(c) \/ Asignar(c)
    \/ FlushCloseSinNombre(c) \/ FlushCloseNoAbierto(c) \/ Flush(c) \/ Close(c)
================================================================================
