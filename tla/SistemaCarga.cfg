SPECIFICATION FairSpec
CONSTANTS
    CPUs = {1, 2}
    MaxProcesos = 3
    Escriptorios = {"s"}
    LargoImpar = {}
    ConUno = {}
    Codigo <- UnaLinea
    Nada = Nada
    Algoritmo = "RR"
    Quantum = 2
    Multiprogramacion = 3
    Comandos = {"ejecutar"}
CHECK_DEADLOCK FALSE
PROPERTIES  ImplementaCicloDeVida
