SPECIFICATION Spec
CONSTANTS
  Cpus = {c1}
  Kernel = kernel
  Consola = consola
  Plp = plp
  Exit = exit
  Pids = {p1, p2}
  SinPid = SinPid
  Caidas = {}
  MaxTurnos = 1
  MaxConsola = 1
  MaxCambios = 1
SYMMETRY Simetria
INVARIANTS
  TypeOK
  Exclusion
  AtiendeAlProceso
  SinSegfault
  ExitAvanza
CHECK_DEADLOCK FALSE
