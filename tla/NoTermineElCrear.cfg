SPECIFICATION Spec
CONSTANTS
    CPUs = {1, 2}
    MaxPedidos = 2
    Nombres = {"a"}
    Tamanio <- TresYCuatro
    ArchivosIniciales = {"a"}
    TRANSFER_SIZE = 2
    Nada = Nada
CHECK_DEADLOCK FALSE
INVARIANTS TermineElCrear
