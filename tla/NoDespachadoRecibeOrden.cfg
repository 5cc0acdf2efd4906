SPECIFICATION FairSpec
CONSTANTS
    CPUs = {1}
    MaxProcesos = 1
    Escriptorios = {"s"}
    LargoImpar = {}
    ConUno = {}
    Codigo <- Concentra2
    Nada = Nada
    Algoritmo = "RR"
    Quantum = 1
    Multiprogramacion = 3
    Comandos = {"ejecutar"}
CHECK_DEADLOCK FALSE
PROPERTIES DespachadoRecibeOrden
