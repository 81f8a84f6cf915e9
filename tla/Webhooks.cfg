SPECIFICATION FairSpec
CONSTANTS
    MaxEntregas = 2
    Emisores = {outbox}
    Reintentador = reintentador
    Lote = 2
    MaxIntentos = 3
    Umbral = 2
    MaxClics = 2
    MaxCaidas = 1
INVARIANTS
    NoSeEnviaSinContar
    IntentosAcotados
    SoloCuentaLoDefinitivo
PROPERTIES
    EntregadaEsFinal
    TodaEntregaTermina
CHECK_DEADLOCK FALSE
