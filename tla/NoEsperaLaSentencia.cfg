SPECIFICATION Spec
CONSTANTS
    CPUs = {1}
    MaxProcesos = 1
    Escriptorios = {"s"}
    LargoImpar = {}
    ConUno = {}
    Codigo <- CreaBorra
    Nada = Nada
    Algoritmo = "RR"
    Quantum = 2
    Multiprogramacion = 3
    Comandos = {"ejecutar"}
CHECK_DEADLOCK FALSE
PROPERTIES EsperaLaSentencia
