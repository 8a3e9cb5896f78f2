------------------------------- MODULE UMVBytes -------------------------------
(***************************************************************************)
(* The contents of the memory of UMVMemoria: solicitarBytes and            *)
(* enviarBytes (funcionesDeUMV.c), and the memcpy compactacion makes for   *)
(* every segment it moves.  Offsets and sizes are uint32_t and posMemoria  *)
(* an int, so the sums of the checks and of the addresses wrap at Limite.  *)
(***************************************************************************)
EXTENDS UMVMemoria

CONSTANTS
  Valores,         \* what a byte holds
  Basura,          \* what every byte holds before the first write
  Bases,           \* bases a client may name
  Desplazamientos, \* offsets a client may ask for
  Buffers,         \* what a client may write: sequences of Valores
  Largos,          \* sizes a client may read
  Limite,          \* 2^32
  Sentidos,        \* ways in which the memcpy of the C library may run
  MaxEscrituras    \* bound of the model: enviarBytes calls in a behaviour

ASSUME BasuraAssumption == Basura \in Valores
ASSUME BuffersAssumption ==
  \A d \in Buffers : d \in Seq(Valores) /\ Len(d) < Limite
ASSUME LargosAssumption ==
  Largos \subseteq 0..(Limite - 1) /\ Desplazamientos \subseteq 0..(Limite - 1)
ASSUME LimiteAssumption == Limite \in Nat /\ Limite > 2 * Malloc
ASSUME SentidosAssumption == Sentidos \subseteq {"adelante", "atras"}
ASSUME MaxEscriturasAssumption == MaxEscrituras \in Nat

VARIABLES
  bytes,       \* contents of the big malloc, from 0 to Malloc - 1
  leido,       \* buffer returned by the last solicitarBytes, <<>> for an error
  escrituras,  \* enviarBytes calls so far
  fuera        \* history: 1 once enviarBytes has written outside its segment

varsB == <<vars, bytes, leido, escrituras, fuera>>

Direcciones == 0..(Malloc - 1)

-----------------------------------------------------------------------------
(* memcpy.  The source is after the destination and the two may overlap,   *)
(* which leaves the result to the C library.                               *)

\* byte by byte from the first one: every source byte is read in time
Adelante(d, o, n) ==
  [a \in Direcciones |-> IF a \in d..(d + n - 1) THEN bytes[o + (a - d)]
                                                 ELSE bytes[a]]

\* byte by byte from the last one: a source byte that the copy has already
\* written is read with its new value
Atras(d, o, n) ==
  LET g == o - d
  IN  [a \in Direcciones |->
         IF a \in d..(d + n - 1)
           THEN bytes[o + (a - d) + g * ((n - 1 - (a - d)) \div g)]
           ELSE bytes[a]]

\* deviation: the copy runs from the last byte
CopiaAtras(r) ==
  bytes' = Atras(segs[nodo].mem, segs[r].mem, segs[r].size)

\* deviation: one byte is left behind
CopiaCorta(r) ==
  bytes' = Adelante(segs[nodo].mem, segs[r].mem, segs[r].size - 1)

\* compactacion copies the whole reserved segment r to the hole at nodo
Copia(r) ==
  LET d == segs[nodo].mem
      o == segs[r].mem
      n == segs[r].size
  IN  \/ "adelante" \in Sentidos /\ bytes' = Adelante(d, o, n)
      \/ "atras" \in Sentidos /\ bytes' = Atras(d, o, n)

-----------------------------------------------------------------------------
(* The two operations on contents, under the mutex of the list             *)

\* _buscoBase: the reserved segments of the active process at that base, and
\* the one list_find returns
Buscados(i) ==
  {k \in DOMAIN segs : /\ segs[k].res = 1
                       /\ segs[k].pid = i[1] /\ segs[k].base = i[2]}
Encontrado(i) == Primera(Buscados(i))

\* sum and difference of two uint32_t
Suma(a, b) == IF a + b >= Limite THEN a + b - Limite ELSE a + b
Resta(a, b) == IF a >= b THEN a - b ELSE a - b + Limite

Lee(a) == IF a \in Direcciones THEN bytes[a] ELSE Basura

\* deviation: without the first check, which the sum does not replace
SePuedeLeerSinOffset(k, o, t) ==
  /\ Suma(o, t) <= segs[k].size /\ t <= segs[k].size /\ t > 0

\* the four checks of solicitarBytes
SePuedeLeer(k, o, t) ==
  /\ o <= segs[k].size
  /\ Suma(o, t) <= segs[k].size
  /\ t <= segs[k].size
  /\ t > 0

Solicitar(i, o, t) ==
  /\ fase = "reposo"
  /\ \/ \E k \in Encontrado(i) :
          leido' = IF SePuedeLeer(k, o, t)
                     THEN [j \in 1..t |-> Lee(Suma(segs[k].mem, o) + j - 1)]
                     ELSE <<>>
     \/ Buscados(i) = {} /\ leido' = <<>>
  /\ UNCHANGED <<vars, bytes, escrituras, fuera>>

\* deviation: the offset is left out
SePuedeEnviarSinOffset(k, o, d) == Len(d) <= segs[k].size

\* the only check of enviarBytes
SePuedeEnviar(k, o, d) == Suma(Len(d), o) <= segs[k].size

\* when the sum of the check wraps the buffer lands before the segment
Escribe(k, o, d) ==
  LET lugar(a) == Resta(a, Suma(segs[k].mem, o))
  IN  /\ bytes' = [a \in Direcciones |->
                     IF lugar(a) < Len(d) THEN d[lugar(a) + 1] ELSE bytes[a]]
      /\ fuera' = IF o + Len(d) >= Limite THEN 1 ELSE fuera

Enviar(i, o, d) ==
  /\ fase = "reposo"
  /\ escrituras < MaxEscrituras /\ escrituras' = escrituras + 1
  /\ \/ \E k \in Encontrado(i) :
          IF SePuedeEnviar(k, o, d) THEN Escribe(k, o, d)
                                    ELSE UNCHANGED <<bytes, fuera>>
     \/ Buscados(i) = {} /\ UNCHANGED <<bytes, fuera>>
  /\ UNCHANGED <<vars, leido>>

-----------------------------------------------------------------------------
InitB ==
  /\ Init
  /\ bytes = [a \in Direcciones |-> Basura]
  /\ leido = <<>> /\ escrituras = 0 /\ fuera = 0

\* the steps of compactacion that move a segment, each with its memcpy
Muda ==
  \/ (MueveAMayor \/ MueveAMenor) /\ Copia(nodo + 1)
  \/ \E r \in DOMAIN segs :
       (MueveAIgual(r) \/ MueveSeparado(r) \/ AgrandaHueco(r)) /\ Copia(r)

NoMuda ==
  \/ SaltaReservado \/ NadaQueMover
  \/ RecortaSiguiente \/ ConsumeSiguiente \/ ConsumeExacto
  \/ DevuelveMemoria \/ TerminaDevolver
  \/ BorraSegmento \/ TerminaCompactacion

CompactarB == /\ Muda \/ (NoMuda /\ UNCHANGED bytes)
              /\ UNCHANGED <<leido, escrituras, fuera>>

Lista ==
  \/ \E p \in Pids, t \in Tamanios : PideSegmento(p, t)
  \/ Crear
  \/ \E p \in Pids : DestruyeSegmentos(p)
  \/ \E a \in Algoritmos : CambiaAlgoritmo(a)
  \/ ConsolaCompacta

ListaB == Lista /\ UNCHANGED <<bytes, leido, escrituras, fuera>>

NextB ==
  \/ ListaB
  \/ CompactarB
  \/ \E i \in Pids \X Bases, o \in Desplazamientos :
       \/ \E t \in Largos : Solicitar(i, o, t)
       \/ \E d \in Buffers : Enviar(i, o, d)

SpecB == InitB /\ [][NextB]_varsB

-----------------------------------------------------------------------------
(* Properties                                                              *)

\* while holes are consumed the segment that moved is in the list twice
Vivos == {k \in DOMAIN segs : segs[k].res = 1 /\ ~(fase = "consumir" /\ k = ocupado)}

NombreDe(k) == <<segs[k].pid, segs[k].base>>
Contenido(k) == [i \in 1..segs[k].size |-> bytes[segs[k].mem + i - 1]]
Archivo(k) ==
  [pid |-> segs[k].pid, base |-> segs[k].base, datos |-> Contenido(k)]
EsUnico(k) == \A j \in Vivos : NombreDe(j) = NombreDe(k) => j = k
Rota == desvio = 1 \/ fuera = 1

\* the refinement mapping
Archivos ==
  IF Rota THEN {}
  ELSE {Archivo(k) : k \in {j \in Vivos : EsUnico(j)}}
Repetidos ==
  IF Rota THEN {} ELSE {NombreDe(k) : k \in {j \in Vivos : ~EsUnico(j)}}

Abstracta == INSTANCE MemoriaAbstracta WITH
  Duenos <- Pids, archivos <- Archivos, repetidos <- Repetidos,
  salida <- leido, rota <- Rota

\* The UMV is the memory its clients see: whatever it fragments, frees and
\* moves, every read returns the bytes last written at that place of that
\* segment and no write reaches another one (up to the faulty paths of
\* compactacion.c:256-287 and to the wrap of funcionesDeUMV.c:171).
EsMemoria == Abstracta!SpecA

\* Compaction carries the bytes: a reserved segment is found after each step
\* with its identifier and with its contents at the head of its bytes.
ConservaDatos ==
  [][(fase \in FasesCompactacion /\ desvio' = 0) =>
       \A i \in DOMAIN segs : segs[i].res = 1 /\ i \in Vivos =>
         \E j \in DOMAIN segs' :
           /\ segs'[j].res = 1
           /\ segs'[j].pid = segs[i].pid /\ segs'[j].base = segs[i].base
           /\ segs'[j].size >= segs[i].size
           /\ \A b \in 0..(segs[i].size - 1) :
                bytes'[segs'[j].mem + b] = bytes[segs[i].mem + b]]_varsB
=============================================================================
