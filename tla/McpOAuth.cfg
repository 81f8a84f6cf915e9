SPECIFICATION FairSpec
CONSTANTS
    MaxTokens = 5
    MaxCodigos = 1
    NProcesos = 3
    MaxTx = 4
    MaxPasadas = 5
    MaxCaducados = 1
    MaxAbortos = 1
INVARIANTS
    TypeOK
    UsoUnico
    FamiliaCerrada
    UsuarioRevocado
    FamiliaSinInterbloqueo
PROPERTIES
    TodaTransaccionTermina
CHECK_DEADLOCK FALSE
