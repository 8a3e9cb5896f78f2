SPECIFICATION FairSpec
CONSTANTS
  Pids = {p1, p2}
  SinPid = libre_
  Tamanios = {1, 2, 3}
  Malloc = 6
  Algoritmos = {"FF", "WF"}
  MaxPedidos = 4
INVARIANTS
  TypeOK
  SinSolape
  Conservacion
  SinHuecosDetras
  NodoVivo
PROPERTIES
  Responden
  CompactarConserva
  RechazoJustificado
CHECK_DEADLOCK FALSE
