SPECIFICATION EncoladoSpec
CONSTANTS
    ficha = ficha
    o1 = o1
    k1 = k1
    MaxJobs = 4
    Consumidores = {w1, w2}
    Nadie = Nadie
    Tipos = {ficha}
    TTL = 1
    MaxIntentos = 2
    BackoffBase = 1
    Horizonte = 0
    Solicitantes = {s1, s2}
    Orgs = {o1}
    SinOrg = SinOrg
    Claves = {k1}
    SinClave = SinClave
    TiposConCuota = {ficha}
    MaxActivos = 1
    Pedibles <- PediblesMC
    MaxTomas = 3
SYMMETRY Simetria
INVARIANTS
    DuplicadosAcotados
    CuotaConCarrera
    DevuelveLoSuyo
