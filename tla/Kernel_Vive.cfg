SPECIFICATION FairSpec
CONSTANTS
  MaxProg = 2
  Cpus = {c1}
  SinCpu = nadie
  MultiProg = 2
  Quantum = 2
  Peso <- PesoMC
  Semaforos = {"b"}
  Valores <- ValoresMC
  Dispositivos = {"LPT1"}
  Pedidos = {"LPT1"}
  Instrucciones = {"nada", "imprimir", "io", "error"}
  MaxInstr = 1
  Creaciones = {"creado"}
  Cortes = {}
  Carreras = {}
CHECK_DEADLOCK FALSE
PROPERTIES
  TodosAvisados
