SPECIFICATION FairSpec
CONSTANTS
    CPUs = {1}
    MaxProcesos = 1
    Escriptorios = {"reabrir", "cerrar", "abrir", "sinNombre", "noAbierto", "asignar", "cerrarF", "esperar", "avisar", "recrear", "borrar"}
    LargoImpar = {}
    ConUno = {"noAbierto", "cerrarF"}
    Codigo <- Archivos
    Nada = Nada
    Algoritmo = "RR"
    Quantum = 3
    Multiprogramacion = 3
    Comandos = {"ejecutar", "status"}
CHECK_DEADLOCK FALSE
INVARIANTS TypeOK Unicidad EstadoCoherente
PROPERTIES DesbloqueoTermina ImplementaCicloDeVida
