SPECIFICATION FairSpec
CONSTANTS
    MaxJobs = 2
    Consumidores = {w1, w2}
    Nadie = Nadie
    Tipos = {demanda}
    TiposADemanda = {demanda}
    TTL = 2
    MaxIntentos = 2
    BackoffBase = 1
    Horizonte = 1
    MaxSilencio = 1
    MaxCaidas = 2
    MaxCortes = 1
INVARIANTS
    TypeOK
    LockDelEjecutor
    IntentoEsFicha
PROPERTIES
    CumplePromesa
    TodoTermina
