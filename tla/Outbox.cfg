SPECIFICATION FairSpec
CONSTANTS
    cambiada = cambiada
    registro = registro
    in_app = in_app
    webhook = webhook
    MaxEventos = 2
    Tipos <- TiposMC
    Canales <- CanalesMC
    CanalesDe <- CanalesDeMC
    Repetibles <- RepetiblesMC
    Despachadores = {cierre, worker}
    Lote = 1
    MaxCaidas = 1
INVARIANTS
    UnaEntregaPorCanal
    SinFallosTodoLlega
    SinSolapeTodoReclamado
PROPERTY ColaSeVacia
