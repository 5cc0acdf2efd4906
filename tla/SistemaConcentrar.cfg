SPECIFICATION Spec
CONSTANTS
    CPUs = {1, 2}
    MaxProcesos = 2
    Escriptorios = {"s"}
    LargoImpar = {"s"}
    ConUno = {}
    Codigo <- Concentra2
    Nada = Nada
    Algoritmo = "RR"
    Quantum = 2
    Multiprogramacion = 3
    Comandos = {"ejecutar", "finalizar"}
CHECK_DEADLOCK FALSE
INVARIANTS Unicidad UnaSentenciaPorVez QuantumEnRango
PROPERTIES ListosFIFO
