SPECIFICATION ReintentosFairSpec
CONSTANTS
    e1 = e1
    e2 = e2
    Entradas <- EntradasMC
    MaxFilas = 2
    MaxReintentos = 2
    MaxAvisos = 2
    Expedientes <- ExpedientesMC
    ExpedienteDe <- ExpedienteDeMC
    MaxDias = 1
    MaxMes = 1
    Tope = 3
    TamLote = 1
    Ilegibles = {2}
    MaxAverias = 1
    LoteReintentos = 1
    MaxOrdenes = 1
INVARIANT
    ReintentosTypeOK
PROPERTIES
    ResueltaEsFinal
    TodaEntradaSale
