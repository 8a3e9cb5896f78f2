SPECIFICATION Spec
CONSTANTS
  MaxProg = 2
  Cpus = {c1, c2}
  SinCpu = nadie
  MultiProg = 2
  Quantum = 2
  Peso <- PesoMC
  Semaforos = {"b"}
  Valores <- ValoresMC
  Dispositivos = {"LPT1"}
  Pedidos = {"LPT1", "otro"}
  Instrucciones = {"wait", "signal", "io"}
  MaxInstr = 2
  Creaciones = {"creado"}
  Cortes = {}
  Carreras = {}
SYMMETRY Simetria
CHECK_DEADLOCK FALSE
INVARIANTS
  TypeOK
  NoSePierde
  NoSeDuplica
  GradoExacto
  OciosoDeVerdad
  OciososContados
  BloqueadosContados
  KernelVivo
PROPERTIES
  EsPlanificador
