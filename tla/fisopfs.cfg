SPECIFICATION Spec
CONSTANTS
    Nombres = {"a", "b"}
    Inodes <- Direcciones
    Modos <- SoloEscritura
    MaxDepth = 2
    MaxSize = 2
    Bytes = {"x"}
    Basura = Basura
    NULL = NULL
    Ausente = Ausente
    Roto = Roto
    NoMontado = NoMontado
INVARIANTS
    TypeOK
    
    AtrasoDeUno
    ConsultasFieles
PROPERTIES
    Promesa
