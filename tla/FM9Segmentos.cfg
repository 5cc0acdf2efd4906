SPECIFICATION Spec
CONSTANTS
    CPUs = {1, 2}
    tamanioMemoria = 7
    Escriptorios = {"a", "b"}
    Bytes <- DosLargos
    Lineas <- UnaODos
    Nada = Nada
CHECK_DEADLOCK FALSE
INVARIANTS SegmentosDisjuntos EscriptoriosGuardados SentenciaPedida
