SPECIFICATION FairSpec
CONSTANTS
  Cpus = {c1}
  Kernel = kernel
  Consola = consola
  Plp = plp
  Exit = exit
  Pids = {p1}
  SinPid = SinPid
  Caidas = {c1}
  MaxTurnos = 1
  MaxConsola = 2
  MaxCambios = 2
INVARIANT RespuestaPropia
PROPERTIES
  Responde
CHECK_DEADLOCK FALSE
