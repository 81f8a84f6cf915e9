SPECIFICATION FairSpec
CONSTANTS
    vieja = vieja
    nueva = nueva
    Instancias <- InstanciasMC
    Muerta = Muerta
    Cron = cron
    Nombres <- NombresMC
    Duenos <- DuenosMC
    Libre = Libre
    MaxTTL = 2
    TTL = 2
    MaxAverias = 2
    MaxCaidas = 2
INVARIANTS
    SolapeSoloSiTarda
PROPERTIES
    SiempreVuelve
