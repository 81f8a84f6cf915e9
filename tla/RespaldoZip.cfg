SPECIFICATION FairSpec
CONSTANTS
    e1 = e1
    e2 = e2
    Entradas <- EntradasMC
    MaxFilas = 2
    MaxReintentos = 2
    MaxAvisos = 3
    Expedientes <- ExpedientesMC
    ExpedienteDe <- ExpedienteDeMC
    MaxDias = 3
    MaxMes = 2
    MesDe <- MesDeMC
    Tope = 2
    TamLote = 1
    Ilegibles = {2}
    MaxAverias = 1
    Umbral = 2
    DiscoEfimero = TRUE
INVARIANTS
    TypeOK
    NadaSeSalta
PROPERTIES
    NoRegresa
    TodoAvisoEntra
