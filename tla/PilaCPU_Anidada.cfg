SPECIFICATION Spec
CONSTANTS
  Nombres = {a}
  Indefinido = Indefinido
  Nada = Nada
  Valores <- MCValores
  Azar <- MCAzar
  Etiquetas <- MCEtiquetas
  Instrucciones <- MCInstrucciones
  Bases <- MCBases
  Tamanio = 40
  Byte = 256
  Limite = 65536
  Niveles = 3
  MaxNiveles = 3
PROPERTIES VuelveAlLlamador
CHECK_DEADLOCK FALSE
