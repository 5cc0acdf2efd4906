SPECIFICATION Spec
CONSTANTS
    cantidadBloques = 3
    tamanioBloque = 2
    Nombres = {"script", "a"}
    Tamanios = {0, 2, 3}
    BitsPorByte = 3
    Cifra0 = 2
    ConDatos = {0, 2}
    ArchivosIniciales <- DiscoConScript
    Caidas = {"borrar"}
    Nada = Nada
INVARIANTS SinFugas
