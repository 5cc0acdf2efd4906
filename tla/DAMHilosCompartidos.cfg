SPECIFICATION FairSpec
CONSTANTS
    CPUs = {1, 2}
    MaxPedidos = 3
    Nombres = {"a", "b"}
    Tamanio <- TresYCuatro
    ArchivosIniciales = {"a", "b"}
    TRANSFER_SIZE = 2
    Nada = Nada
CHECK_DEADLOCK FALSE
INVARIANTS TypeOK ArchivoEntero ResultadoPropio NingunoSePierde
PROPERTIES  TodosContestados
