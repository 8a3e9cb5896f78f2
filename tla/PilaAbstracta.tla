---------------------------- MODULE PilaAbstracta ----------------------------
(***************************************************************************)
(* What a CPU promises to an AnSISOP program, with no cursor, no offsets   *)
(* and no dictionary: a stack of contexts, each with its own variables, a  *)
(* program counter to come back to and the variable of the caller that     *)
(* takes the result.                                                       *)
(*                                                                         *)
(* The promise ends (estado "error", "rota") when the UMV or the CPU       *)
(* rejects a primitive, and when a program calls a function from a context *)
(* that is already Niveles deep.                                           *)
(***************************************************************************)
EXTENDS Integers, Sequences

CONSTANTS
  Nombres,     \* names of variables
  Valores,     \* what an assignment may store
  Indefinido,  \* value of a variable nobody has assigned
  Nada,        \* destination of a call without a result
  Etiquetas,   \* program counters the labels stand for
  Niveles      \* contexts a program may pile up

VARIABLES
  marcos,  \* the contexts, the running one last: [vars, vuelve, destino]
  pc,
  estado   \* "corre", "fin", "error" or "rota"

varsA == <<marcos, pc, estado>>

Hondo == Len(marcos)
Tope == marcos[Hondo]
Resto == SubSeq(marcos, 1, Hondo - 1)
Vacio == [n \in {} |-> Indefinido]

ConTope(vars) == [marcos EXCEPT ![Hondo].vars = vars]

InitA ==
  /\ marcos = <<[vars |-> Vacio, vuelve |-> 0, destino |-> Nada]>>
  /\ pc = 0 /\ estado = "corre"

AvanzarA == pc' = pc + 1 /\ UNCHANGED <<marcos, estado>>

SaltarA == pc' \in Etiquetas /\ UNCHANGED <<marcos, estado>>

\* a variable is born, or born again, with no value
DefinirA(n) ==
  /\ marcos' = ConTope([x \in DOMAIN Tope.vars \cup {n} |->
                          IF x = n THEN Indefinido ELSE Tope.vars[x]])
  /\ UNCHANGED <<pc, estado>>

AsignarA(n, v) ==
  /\ n \in DOMAIN Tope.vars
  /\ marcos' = ConTope([Tope.vars EXCEPT ![n] = v])
  /\ UNCHANGED <<pc, estado>>

LlamarA(d) ==
  /\ Hondo < Niveles
  /\ d \in DOMAIN Tope.vars \cup {Nada}
  /\ marcos' = Append(marcos, [vars |-> Vacio, vuelve |-> pc, destino |-> d])
  /\ pc' \in Etiquetas
  /\ UNCHANGED estado

\* the caller goes on with its own variables where it called
VolverA ==
  /\ Hondo > 1 /\ Tope.destino = Nada
  /\ marcos' = Resto /\ pc' = Tope.vuelve
  /\ UNCHANGED estado

RetornarA(v) ==
  /\ Hondo > 1 /\ Tope.destino # Nada
  /\ marcos' = [Resto EXCEPT ![Hondo - 1].vars[Tope.destino] = v]
  /\ pc' = Tope.vuelve
  /\ UNCHANGED estado

TerminarA == Hondo = 1 /\ estado' = "fin" /\ UNCHANGED <<marcos, pc>>

\* from here on nothing is promised
RomperA ==
  /\ estado' \in {"error"} \cup (IF Hondo >= Niveles THEN {"rota"} ELSE {})
  /\ marcos' = <<>> /\ pc' = 0

NextA ==
  /\ estado = "corre"
  /\ \/ AvanzarA \/ SaltarA \/ VolverA \/ TerminarA \/ RomperA
     \/ \E n \in Nombres : DefinirA(n) \/ (\E v \in Valores : AsignarA(n, v))
     \/ \E d \in Nombres \cup {Nada} : LlamarA(d)
     \/ \E v \in Valores : RetornarA(v)

SpecA == InitA /\ [][NextA]_varsA
=============================================================================
