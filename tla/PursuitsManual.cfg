SPECIFICATION Spec
CONSTANTS
    h1 = h1
    h2 = h2
    Manejadores <- ManejadoresMC
    Sincronizador = Sincronizador
    Ediciones = {1, 2}
    ConClave = {1}
    Parches <- ParchesMC
    Iniciales <- InicialesMC
    Adelanto = 0
    MaxEnvios = 3
    MaxFuente = 2
    Importes = {1, 2}
    SinImporte = SinImporte
    MaxVersion = 4
CHECK_DEADLOCK FALSE
PROPERTIES
    LaManualSeQueda
