SPECIFICATION SpecB
CONSTANTS
  Pids = {p1, p2}
  SinPid = libre_
  Tamanios = {1, 2}
  Malloc = 5
  Algoritmos = {"FF"}
  MaxPedidos = 4
  Valores = {0, 1, 2}
  Basura = 0
  Bases = {0, 1, 2}
  Desplazamientos <- MCDesplazamientos
  Buffers <- MCBuffers
  Largos = {0, 2}
  Limite <- MCLimite
  Sentidos = {"adelante"}
  MaxEscrituras = 1
PROPERTIES
  EsMemoria
  ConservaDatos
SYMMETRY Simetria
CHECK_DEADLOCK FALSE
