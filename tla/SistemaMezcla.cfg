SPECIFICATION Spec
CONSTANTS
    CPUs = {1, 2}
    MaxProcesos = 2
    Escriptorios = {"calcula", "borra", "falla"}
    LargoImpar = {"calcula"}
    ConUno = {}
    Codigo <- Mezcla
    Nada = Nada
    Algoritmo = "FIFO"
    Quantum = 2
    Multiprogramacion = 1
    Comandos = {"ejecutar"}
CHECK_DEADLOCK FALSE
INVARIANTS Unicidad UnaSentenciaPorVez PedidoUnico EstadoCoherente CargaUnica  ReservaPropia
PROPERTIES ListosFIFO
