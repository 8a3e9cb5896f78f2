--------------------------- MODULE MemoriaAbstracta ---------------------------
(***************************************************************************)
(* What the UMV promises to its clients, with no addresses, no list and no *)
(* compaction: every program owns files, named by (pid, base), whose bytes *)
(* only a write of their owner changes.  A read returns what was last      *)
(* written there or nothing at all.                                        *)
(*                                                                         *)
(* Two limits of the code are part of the promise.  A name may be given    *)
(* twice (a segment that compaction moves keeps its posInicial): nothing   *)
(* is promised of a repeated name until its owner is destroyed.  And once  *)
(* the memory is broken (rota) nothing is promised at all.                 *)
(***************************************************************************)
EXTENDS Integers, Sequences

CONSTANTS
  Duenos,          \* pids
  Bases,           \* the second half of a name (posInicial)
  Tamanios,        \* sizes of a new file
  Buffers,         \* what may be written: sequences of byte values
  Desplazamientos, \* offsets a client may ask for
  Largos           \* sizes a client may read

VARIABLES
  archivos,   \* the files with a name of their own: [pid, base, datos]
  repetidos,  \* names given more than once
  salida,     \* bytes returned by the last read, <<>> when it was refused
  rota

varsA == <<archivos, repetidos, salida, rota>>

Nombre(a) == <<a.pid, a.base>>
Largo(a) == Len(a.datos)
Nombres == {Nombre(a) : a \in archivos} \cup repetidos

\* n is the file a with, possibly, more room at its end
Extiende(a, n) ==
  /\ Nombre(n) = Nombre(a) /\ Largo(n) >= Largo(a)
  /\ \A i \in 1..Largo(a) : n.datos[i] = a.datos[i]

Trozo(a, o, t) == [i \in 1..t |-> a.datos[o + i]]

Grabado(a, o, d) ==
  [a EXCEPT !.datos = [i \in 1..Largo(a) |->
     IF i \in (o + 1)..(o + Len(d)) THEN d[i - o] ELSE a.datos[i]]]

InitA == archivos = {} /\ repetidos = {} /\ salida = <<>> /\ rota = FALSE

\* a new file of t bytes, whatever they hold
CrearA(p, t) ==
  /\ \/ \E n \in archivos' : /\ n.pid = p /\ Nombre(n) \notin Nombres
                             /\ Largo(n) = t
                             /\ archivos' = archivos \cup {n}
                             /\ UNCHANGED repetidos
     \/ \E i \in Nombres : /\ i[1] = p
                           /\ archivos' = {a \in archivos : Nombre(a) # i}
                           /\ repetidos' = repetidos \cup {i}
  /\ UNCHANGED <<salida, rota>>

DestruirA(p) ==
  /\ archivos' = {a \in archivos : a.pid # p}
  /\ repetidos' = {i \in repetidos : i[1] # p}
  /\ UNCHANGED <<salida, rota>>

Llamado(i) == {a \in archivos : Nombre(a) = i}

\* a write that does not fit, or to no file, changes nothing
EscribirA(i, o, d) ==
  /\ \/ \E a \in Llamado(i) :
          archivos' = IF o + Len(d) <= Largo(a)
                        THEN (archivos \ {a}) \cup {Grabado(a, o, d)}
                        ELSE archivos
     \/ Llamado(i) = {} /\ UNCHANGED archivos
  /\ UNCHANGED <<repetidos, salida, rota>>

\* neither is there anything to read beyond the end; nothing is said of what
\* a repeated name reads
LeerA(i, o, t) ==
  /\ \/ \E a \in Llamado(i) :
          salida' = IF o + t <= Largo(a) THEN Trozo(a, o, t) ELSE <<>>
     \/ i \in repetidos
     \/ i \notin Nombres /\ salida' = <<>>
  /\ UNCHANGED <<archivos, repetidos, rota>>

CompactarA ==
  /\ \A a \in archivos : \E n \in archivos' : Extiende(a, n)
  /\ \A n \in archivos' : \E a \in archivos : Extiende(a, n)
  /\ UNCHANGED <<repetidos, salida, rota>>

\* the step that breaks the memory, and any step after it
RomperA == rota' = TRUE

NextA ==
  \/ \E p \in Duenos : DestruirA(p) \/ \E t \in Tamanios : CrearA(p, t)
  \/ \E i \in Duenos \X Bases, o \in Desplazamientos :
       \/ \E d \in Buffers : EscribirA(i, o, d)
       \/ \E t \in Largos : LeerA(i, o, t)
  \/ CompactarA
  \/ RomperA

SpecA == InitA /\ [][NextA]_varsA
=============================================================================
