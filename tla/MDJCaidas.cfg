SPECIFICATION Spec
CONSTANTS
    cantidadBloques = 4
    tamanioBloque = 2
    Nombres = {"script", "a"}
    Tamanios = {0, 2, 5}
    BitsPorByte = 2
    Cifra0 = 2
    ConDatos = {0, 2}
    ArchivosIniciales <- DiscoConScript
    Caidas = {"crear", "guardar"}
    Nada = Nada
INVARIANTS TypeOK 
PROPERTIES EscribeSoloLoSuyo ImplementaDisco
