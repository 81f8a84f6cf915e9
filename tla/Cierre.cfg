SPECIFICATION Spec
CONSTANTS
    watchlist_notify = watchlist_notify
    digests = digests
    Orden <- OrdenMC
    Deps <- DepsMC
    VueltasPorPaso = 2
    Nombres = {watchlist_notify, digests}
    Alertas = alerts
    Duenos = {alerts}
    Libre = Libre
    MaxTTL = 2
    Cooldown = 2
    Cierra = pipeline_cierre
    Consumidores = {pipeline_cierre}
    Nadie = Nadie
    Tipos = {paso_pipeline}
    MaxJobs = 5
    TTL = 1
    MaxIntentos = 2
    BackoffBase = 1
    Horizonte = 0
    MaxAverias = 2
    MaxCaidas = 2
CHECK_DEADLOCK FALSE
INVARIANTS
    TypeOK
    DependenciasPrimero
    CierreCompleto
PROPERTY
    CalladaSoloSiAvisada
