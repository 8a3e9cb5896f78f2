SPECIFICATION Spec
CONSTANTS
  Cpus = {c1}
  Kernel = kernel
  Consola = consola
  Plp = plp
  Exit = exit
  Pids = {p1, p2}
  SinPid = SinPid
  Caidas = {}
  MaxTurnos = 1
  MaxConsola = 0
  MaxCambios = 0
INVARIANT RespuestaPropia
CHECK_DEADLOCK FALSE
