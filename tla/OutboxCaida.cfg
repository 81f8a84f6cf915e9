SPECIFICATION Spec
CONSTANTS
    cambiada = cambiada
    registro = registro
    in_app = in_app
    webhook = webhook
    MaxEventos = 1
    Tipos <- TiposMC
    Canales <- CanalesMC
    CanalesDe <- CanalesDeMC
    Repetibles <- RepetiblesMC
    Despachadores = {worker}
    Lote = 2
    MaxCaidas = 1
INVARIANT NadaSePierde
