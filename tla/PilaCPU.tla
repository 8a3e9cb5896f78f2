------------------------------- MODULE PilaCPU -------------------------------
(***************************************************************************)
(* One AnSISOP program on a CPU: the primitives that keep its variables    *)
(* and contexts in the stack segment of the UMV (Primitivas.c) and the     *)
(* main loop that takes and gives back its PCB (CPU.c, Cliente.c).  The    *)
(* parser is external: a line is any series of primitives.                 *)
(*                                                                         *)
(* The stack keeps every int in 4 bytes, as <<"entero", v, i>> for byte i  *)
(* of v, and a name in one, as <<"letra", n, 0>>.  Four bytes that are not *)
(* those of one int read as some member of Azar.                           *)
(***************************************************************************)
EXTENDS Integers, Sequences, FiniteSets

CONSTANTS
  Nombres, Indefinido, Nada, \* names of variables; see PilaAbstracta
  Valores,       \* ints a program assigns
  Azar,          \* ints that stray bytes may amount to
  Etiquetas,     \* program counters of the labels
  Instrucciones, \* where each line starts in the code segment
  Bases,         \* values of seg_stack
  Tamanio,       \* bytes of the stack segment
  Byte, Limite,  \* 2^8 and 2^32
  Niveles,       \* contexts for which PilaAbstracta promises something
  MaxNiveles     \* bound of the model: contexts piled up

ASSUME LimiteAssumption ==
  /\ Limite \in Nat /\ Limite % 8 = 0
  /\ Tamanio \in Nat /\ 2 * Tamanio + 32 < Limite
ASSUME NivelesAssumption == Niveles \in Nat /\ MaxNiveles \in Nat \ {0}
ASSUME ByteAssumption == Byte \in Nat \ {0, 1}
ASSUME EnterosAssumption ==
  Valores \cup Azar \cup Etiquetas \cup Bases \subseteq 0..(Limite - 1)
ASSUME BasesAssumption == \A b \in Bases : b + Tamanio < Limite
ASSUME InstruccionesAssumption ==
  Instrucciones \in Seq(Nat) /\ 8 * Len(Instrucciones) < Limite
ASSUME NadaAssumption == Nada \notin Nombres

VARIABLES
  seg, cursor, contexto, pc, \* the fields of the PCB that primitives use
  pila,       \* contents of the stack segment
  dic,        \* dic_variables: name -> offset
  operacion,  \* global of the CPU: why the burst ends
  fase,       \* "espera", "corre", "linea", "desaloja", "terminada", "cerrada", "caida"
  propias,    \* history: names the running function has defined
  llamadas,   \* history: the calls in progress, [con, propias, cursor, contexto, pc]
  rechazo,    \* history: TRUE once the UMV has refused a request
  anidada     \* history: TRUE once a context deeper than Niveles was opened

pcb == <<seg, cursor, contexto, pc>>
historia == <<propias, llamadas, rechazo, anidada>>
vars == <<pcb, pila, dic, operacion, fase, historia>>

Letra(n) == <<"letra", n, 0>>
Entero(v) == [i \in 1..4 |-> <<"entero", v, i - 1>>]
Basura == <<"basura", 0, 0>>
NuevaVariable(n) == <<Letra(n), Basura, Basura, Basura, Basura>>

Suma(a, b) == IF a + b >= Limite THEN a + b - Limite ELSE a + b
Resta(a, b) == IF a >= b THEN a - b ELSE a - b + Limite

-----------------------------------------------------------------------------
(* What the UMV answers (see UMVBytes); byte 0 of an answer equal to -1 is *)
(* taken for a refusal                                                     *)

SePuedeLeer(o, t) ==
  o <= Tamanio /\ Suma(o, t) <= Tamanio /\ t <= Tamanio /\ t > 0

SePuedeEscribir(o, t) == Suma(t, o) <= Tamanio

Escrita(o, b) ==
  [a \in 0..(Tamanio - 1) |->
     IF Resta(a, o) < Len(b) THEN b[Resta(a, o) + 1] ELSE pila[a]]

Peso == <<1, Byte, Byte * Byte, Byte * Byte * Byte>>

\* whether byte b may be, or must be, 0xFF
MenosUno(b) ==
  CASE b[1] = "basura" -> BOOLEAN
    [] b[1] = "entero" -> {(b[2] \div Peso[b[3] + 1]) % Byte = Byte - 1}
    [] OTHER           -> {FALSE}

\* the ints that the four bytes of mem at o may amount to
Leido(mem, o) ==
  IF mem[o][1] = "entero" /\ \A i \in 1..4 : mem[o + i - 1] = Entero(mem[o][2])[i]
    THEN {mem[o][2]} ELSE Azar

Refuta == operacion' = "ERROR"

Rechaza ==
  /\ Refuta
  /\ rechazo' = TRUE

-----------------------------------------------------------------------------
(* RecrearDiccionario: the names found every 5 bytes from the cursor.  A   *)
(* byte that is the name of no variable is a key nobody asks for.          *)

\* deviation: the last variable is left out
RehechoCorto(mem, c, n) ==
  LET lugares(x) == {i \in 0..(n - 2) : mem[Resta(c, seg) + 5 * i] = Letra(x)}
      ultimo(x) == CHOOSE i \in lugares(x) : \A j \in lugares(x) : j <= i
  IN  [x \in {y \in Nombres : lugares(y) # {}} |-> Resta(c, seg) + 5 * ultimo(x)]

Rehecho(mem, c, n) ==
  LET lugares(x) == {i \in 0..(n - 1) : mem[Resta(c, seg) + 5 * i] = Letra(x)}
      ultimo(x) == CHOOSE i \in lugares(x) : \A j \in lugares(x) : j <= i
  IN  [x \in {y \in Nombres : lugares(y) # {}} |-> Resta(c, seg) + 5 * ultimo(x)]

Ninguna == [x \in {} |-> 0]

\* with the cursor at c and n variables in the context; op and r are what
\* operacion and rechazo are before
RecrearDiccionario(mem, c, n, op, r) ==
  LET o == Resta(c, seg)
      t == (5 * n) % Limite
  IN  IF t = 0
        THEN dic' = Ninguna /\ operacion' = op /\ rechazo' = r
        ELSE IF SePuedeLeer(o, t)
          THEN \E mal \in MenosUno(mem[o]) :
                 /\ dic' = IF mal THEN Ninguna ELSE Rehecho(mem, c, n)
                 /\ operacion' = IF mal THEN "ERROR" ELSE op
                 /\ rechazo' = r
          ELSE dic' = Ninguna /\ Rechaza

-----------------------------------------------------------------------------
(* The primitives                                                          *)

EnLinea == fase = "linea" /\ operacion # "EXIT"

DefinirVariable(n) ==
  LET o == Suma(Resta(cursor, seg), 5 * contexto)
  IN  /\ EnLinea
      /\ propias' = propias \cup {n}
      /\ IF SePuedeEscribir(o, 5)
           THEN /\ pila' = Escrita(o, NuevaVariable(n))
                /\ dic' = [x \in DOMAIN dic \cup {n} |-> IF x = n THEN o ELSE dic[x]]
                /\ contexto' = contexto + 1
                /\ UNCHANGED <<operacion, rechazo>>
           ELSE Rechaza /\ UNCHANGED <<pila, dic, contexto>>
      /\ UNCHANGED <<seg, cursor, pc, fase, llamadas, anidada>>

\* obtenerPosicionVariable reads the entry before it knows there is one
SinVariable(n) ==
  /\ n \notin DOMAIN dic
  /\ fase' = "caida"
  /\ UNCHANGED <<pcb, pila, dic, operacion, historia>>

\* deviation: without the + 1 that skips the name
AsignarSinNombre(o, v) ==
  IF SePuedeEscribir(o, 4) THEN pila' = Escrita(o, Entero(v)) ELSE UNCHANGED pila

Asignar(o, v) ==
  IF SePuedeEscribir(o + 1, 4)
    THEN pila' = Escrita(o + 1, Entero(v))
    ELSE UNCHANGED pila

\* obtenerPosicionVariable and asignar
Asignacion(n, v) ==
  /\ EnLinea /\ n \in propias
  /\ \/ SinVariable(n)
     \/ /\ n \in DOMAIN dic
        /\ Asignar(dic[n], v)
        /\ IF SePuedeEscribir(dic[n] + 1, 4) THEN UNCHANGED <<operacion, rechazo>>
                                             ELSE Rechaza
        /\ UNCHANGED <<pcb, dic, fase, propias, llamadas, anidada>>

\* obtenerPosicionVariable and dereferenciar: the answer starts with the name
Dereferencia(n) ==
  /\ EnLinea /\ n \in propias
  /\ \/ SinVariable(n)
     \/ /\ n \in DOMAIN dic
        /\ IF SePuedeLeer(dic[n], 5)
             THEN /\ \E mal \in MenosUno(pila[dic[n]]) :
                       operacion' = IF mal THEN "ERROR" ELSE operacion
                  /\ UNCHANGED rechazo
             ELSE Rechaza
        /\ UNCHANGED <<pcb, pila, dic, fase, propias, llamadas, anidada>>

IrALabel(l) ==
  /\ EnLinea
  /\ pc' = l
  /\ UNCHANGED <<seg, cursor, contexto, pila, dic, operacion, fase, historia>>

\* deviations: a call with a result moves no further; ints with a sign
AvanzadoDeOcho(o, n) == Suma(cursor, Suma(o, 8))
ContadasConSigno(t, c) == (cursor - t - c) \div 5

\* the cursor after a call that saves n bytes at o
Avanzado(o, n) == Suma(cursor, Suma(o, n))

\* variables in the context whose cursor is c, when t bytes were saved
Contadas(t, c) == Resta(Resta(cursor, t), c) \div 5

\* llamarSinRetorno and llamarConRetorno: the context to come back to is
\* saved after the last variable, then RecrearDiccionario and irALabel
Llamar(l, datos, con) ==
  LET o == Suma(Resta(cursor, seg), 5 * contexto)
  IN  /\ EnLinea /\ Len(llamadas) + 1 < MaxNiveles
      /\ IF SePuedeEscribir(o, Len(datos))
           THEN /\ pila' = Escrita(o, datos)
                /\ cursor' = Avanzado(o, Len(datos))
                /\ contexto' = 0 /\ dic' = Ninguna
                /\ pc' = l
                /\ propias' = {}
                /\ llamadas' = Append(llamadas,
                     [con |-> con, propias |-> propias, cursor |-> cursor,
                      contexto |-> contexto, pc |-> pc])
                /\ anidada' = (anidada \/ (Len(llamadas) + 1 >= Niveles
                                             /\ operacion # "ERROR"))
                /\ UNCHANGED <<operacion, rechazo>>
           ELSE /\ Rechaza
                /\ UNCHANGED <<pila, cursor, contexto, dic, pc, propias, llamadas, anidada>>
      /\ UNCHANGED <<seg, fase>>

LlamarSinRetorno(l) == Llamar(l, Entero(cursor) \o Entero(pc), FALSE)

\* donde_retornar is the position of a variable of the caller
LlamarConRetorno(l, n) ==
  /\ n \in propias
  /\ \/ EnLinea /\ SinVariable(n)
     \/ /\ n \in DOMAIN dic
        /\ Llamar(l, Entero(cursor) \o Entero(pc) \o Entero(dic[n]), TRUE)

UltimaLlamada == llamadas[Len(llamadas)]

Desapila ==
  /\ propias' = UltimaLlamada.propias
  /\ llamadas' = SubSeq(llamadas, 1, Len(llamadas) - 1)

\* where a program may say "end", on a line of its own
EnFin == /\ EnLinea /\ operacion = "QUANTUM"
         /\ llamadas # <<>> => ~UltimaLlamada.con

\* finalizar with the cursor at the beginning of the stack
FinalizarPrograma ==
  /\ EnFin /\ cursor = seg
  /\ operacion' = "EXIT"
  /\ UNCHANGED <<pcb, pila, dic, fase, historia>>

\* the t bytes before the cursor are asked for: "rechazo" when the UMV refuses
\* them, "error" when they begin with 0xFF, "bien" otherwise
Recuperado(t) ==
  LET o == Resta(Resta(cursor, seg), t)
  IN  IF SePuedeLeer(o, t) THEN {IF mal THEN "error" ELSE "bien" : mal \in MenosUno(pila[o])}
                           ELSE {"rechazo"}

NoRecupera(r) ==
  /\ Refuta /\ rechazo' = (rechazo \/ r = "rechazo")
  /\ UNCHANGED <<pcb, pila, dic, propias, llamadas>>

\* finalizar, in a function without a result: the context saved 8 bytes before
\* the cursor is taken back
VuelveSinResultado ==
  LET o == Resta(Resta(cursor, seg), 8)
  IN  \E c \in Leido(pila, o), p \in Leido(pila, o + 4) :
        LET n == Contadas(8, c)
        IN  /\ cursor' = c /\ pc' = p /\ contexto' = n
            /\ RecrearDiccionario(pila, c, n, operacion, rechazo)
            /\ Desapila
            /\ UNCHANGED <<seg, pila>>

FinalizarFuncion ==
  /\ EnFin /\ cursor # seg /\ llamadas # <<>>
  /\ \E r \in Recuperado(8) :
       IF r = "bien" THEN VuelveSinResultado ELSE NoRecupera(r)
  /\ UNCHANGED <<fase, anidada>>

\* retornar, in a function with a result: the same, and the result goes to the
\* position saved with the context
VuelveConResultado(v) ==
  LET o == Resta(Resta(cursor, seg), 12)
  IN  \E c \in Leido(pila, o), p \in Leido(pila, o + 4), d \in Leido(pila, o + 8) :
        LET n == Contadas(12, c)
            entra == SePuedeEscribir(d + 1, 4)
        IN  /\ Asignar(d, v)
            /\ cursor' = c /\ pc' = p /\ contexto' = n
            /\ RecrearDiccionario(pila', c, n, IF entra THEN operacion ELSE "ERROR",
                                  rechazo \/ ~entra)
            /\ Desapila
            /\ UNCHANGED seg

Retornar(v) ==
  /\ EnLinea
  /\ llamadas # <<>> /\ UltimaLlamada.con
  /\ \E r \in Recuperado(12) :
       IF r = "bien" THEN VuelveConResultado(v) ELSE NoRecupera(r)
  /\ UNCHANGED <<fase, anidada>>

-----------------------------------------------------------------------------
(* The main loop                                                           *)

\* a CPU receives the PCB; a dictionary that cannot be read closes it
RecibirPCB ==
  /\ fase = "espera"
  /\ RecrearDiccionario(pila, cursor, contexto, "SUCCESS", rechazo)
  /\ fase' = IF operacion' = "ERROR" THEN "cerrada" ELSE "corre"
  /\ UNCHANGED <<pcb, pila, propias, llamadas, anidada>>

\* one turn of the burst up to the parser: the code index has 8 bytes a line,
\* that begin with the position of the line
ObtenerSentencia ==
  LET o == (8 * pc) % Limite
      i == o \div 8 + 1
  IN  /\ fase = "corre"
      /\ pc' = Suma(pc, 1)
      /\ IF i \in DOMAIN Instrucciones
           THEN /\ operacion' = IF Instrucciones[i] % Byte = Byte - 1
                                  THEN "ERROR" ELSE "QUANTUM"
                /\ UNCHANGED rechazo
           ELSE Rechaza
      /\ fase' = IF operacion' = "ERROR" THEN "desaloja" ELSE "linea"
      /\ UNCHANGED <<seg, cursor, contexto, pila, dic, propias, llamadas, anidada>>

\* the line is done and there is quantum left
OtraVuelta ==
  /\ fase = "linea" /\ operacion = "QUANTUM"
  /\ fase' = "corre"
  /\ UNCHANGED <<pcb, pila, dic, operacion, historia>>

\* CambioContexto: the dictionary is destroyed and the PCB goes to the PCP
CambioContexto ==
  /\ fase \in {"linea", "desaloja"}
  /\ fase' = IF operacion = "QUANTUM" THEN "espera" ELSE "terminada"
  /\ dic' = Ninguna
  /\ UNCHANGED <<pcb, pila, operacion, historia>>

-----------------------------------------------------------------------------
Init ==
  /\ seg \in Bases /\ cursor = seg /\ contexto = 0 /\ pc = 0
  /\ pila = [a \in 0..(Tamanio - 1) |-> Basura]
  /\ dic = Ninguna /\ operacion = "QUANTUM" /\ fase = "espera"
  /\ propias = {} /\ llamadas = <<>> /\ rechazo = FALSE /\ anidada = FALSE

Next ==
  \/ RecibirPCB \/ ObtenerSentencia \/ OtraVuelta \/ CambioContexto
  \/ FinalizarPrograma \/ FinalizarFuncion
  \/ \E v \in Valores : Retornar(v)
  \/ \E l \in Etiquetas : IrALabel(l) \/ LlamarSinRetorno(l)
  \/ \E n \in Nombres :
       \/ DefinirVariable(n) \/ Dereferencia(n)
       \/ \E v \in Valores : Asignacion(n, v)
       \/ \E l \in Etiquetas : LlamarConRetorno(l, n)

Spec == Init /\ [][Next]_vars

-----------------------------------------------------------------------------
(* Properties                                                              *)

TypeOK ==
  /\ seg \in Bases /\ {cursor, contexto, pc} \subseteq 0..(Limite - 1)
  /\ DOMAIN pila = 0..(Tamanio - 1)
  /\ DOMAIN dic \subseteq Nombres /\ \A n \in DOMAIN dic : dic[n] \in 0..(Limite - 1)
  /\ operacion \in {"SUCCESS", "QUANTUM", "EXIT", "ERROR"}
  /\ fase \in {"espera", "corre", "linea", "desaloja", "terminada", "cerrada", "caida"}
  /\ propias \subseteq Nombres /\ Len(llamadas) < MaxNiveles
  /\ {rechazo, anidada} \subseteq BOOLEAN

\* What a program sees of its stack: the variables of the running context
\* through the dictionary, those of the caller through the bytes saved.
Valor(o) ==
  IF pila[o][1] = "entero" /\ \A i \in 1..4 : pila[o + i - 1] = Entero(pila[o][2])[i]
    THEN pila[o][2] ELSE Indefinido

Variables(d) == [n \in DOMAIN d |-> Valor(d[n] + 1)]

EnCurso ==
  IF fase \in {"corre", "linea"} THEN dic ELSE Rehecho(pila, cursor, contexto)

\* where the last call saved its caller, and whether there is a caller there
Cabecera == cursor - seg - (IF UltimaLlamada.con THEN 12 ELSE 8)

HayLlamador ==
  /\ Cabecera >= 0 /\ Valor(Cabecera) \in seg..(seg + Cabecera)
  /\ UltimaLlamada.con => Valor(Cabecera + 8) \in 0..Cabecera

Marco(d, p, n) == [vars |-> Variables(d), vuelve |-> p, destino |-> n]

Marcos ==
  CASE llamadas = <<>> -> <<Marco(EnCurso, 0, Nada)>>
    [] llamadas # <<>> /\ HayLlamador ->
         LET c == Valor(Cabecera)
         IN  <<Marco(Rehecho(pila, c, (Cabecera - (c - seg)) \div 5), 0, Nada),
               Marco(EnCurso, Valor(Cabecera + 4),
                     IF UltimaLlamada.con THEN pila[Valor(Cabecera + 8)][2] ELSE Nada)>>
    [] OTHER -> <<>>

Estado == IF anidada THEN "rota"
          ELSE IF operacion = "ERROR" THEN "error"
          ELSE IF fase = "caida" THEN "caida"
          ELSE IF operacion = "EXIT" THEN "fin" ELSE "corre"

Abstracta ==
  INSTANCE PilaAbstracta WITH
    marcos <- IF Estado \in {"rota", "error"} THEN <<>> ELSE Marcos,
    pc     <- IF Estado \in {"rota", "error"} THEN 0 ELSE pc,
    estado <- Estado

\* The stack of bytes, the cursor and the dictionary are the stack of
\* contexts of PilaAbstracta, through calls, returns and changes of CPU.
EsPila == Abstracta!SpecA

\* A program is ended by ERROR only after the UMV refused a request, or when
\* a byte that is rightly 0xFF is taken for -1: the low byte of seg_stack,
\* saved by a call, or of the position of a line.
ErrorJustificado ==
  operacion = "ERROR" /\ ~anidada =>
    \/ rechazo
    \/ seg % Byte = Byte - 1
    \/ \E i \in DOMAIN Instrucciones : Instrucciones[i] % Byte = Byte - 1

\* While a program runs its dictionary is the one any other CPU would rebuild
\* from the PCB and the stack.
DiccionarioFiel ==
  fase \in {"corre", "linea"} /\ operacion # "ERROR" /\ ~anidada =>
    dic = Rehecho(pila, cursor, contexto)

\* A function goes back to the context that called it, however deep.
VuelveAlLlamador ==
  [][Len(llamadas') < Len(llamadas) =>
       /\ cursor' = UltimaLlamada.cursor /\ pc' = UltimaLlamada.pc
       /\ contexto' = UltimaLlamada.contexto]_vars
=============================================================================
