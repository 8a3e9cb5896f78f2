SPECIFICATION Spec
CONSTANTS
  Nombres = {a, b}
  Indefinido = Indefinido
  Nada = Nada
  Valores <- MCValores
  Azar <- MCAzar
  Etiquetas <- MCEtiquetas
  Instrucciones <- MCInstrucciones
  Bases <- MCBases
  Tamanio = 24
  Byte = 256
  Limite = 65536
  Niveles = 2
  MaxNiveles = 3
INVARIANTS TypeOK ErrorJustificado DiccionarioFiel
PROPERTIES EsPila
SYMMETRY Simetria
CHECK_DEADLOCK FALSE
