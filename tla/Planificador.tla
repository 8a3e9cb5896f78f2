----------------------------- MODULE Planificador -----------------------------
(***************************************************************************)
(* What the Kernel promises when nothing fails, with no threads, sockets,  *)
(* semaphores of its own or lists of clients: a scheduler whose every      *)
(* operation is one step.                                                  *)
(***************************************************************************)
EXTENDS Listas

CONSTANTS
  Procesos,
  Procesadores,
  Libre,         \* what an idle processor runs
  Pesos,         \* weight of each process
  Grado,         \* processes inside at a time
  Contadores,    \* semaphores of the programs
  Iniciales,     \* value of each
  Aparatos       \* devices

VARIABLES
  conocidos,   \* processes that have arrived
  nuevos,      \* those that wait for a place
  lugares,     \* places left
  listos,      \* first come, first served
  corre,       \* what each processor runs
  creditos,    \* WAITs that each semaphore lets through
  dormidos,    \* those blocked on a semaphore, in the order they came
  pedidos,     \* of each device, the one it serves first
  terminados

varsA ==
  <<conocidos, nuevos, lugares, listos, corre, creditos, dormidos, pedidos, terminados>>

InitA ==
  /\ conocidos = {} /\ nuevos = {} /\ lugares = Grado /\ listos = <<>>
  /\ corre = [k \in Procesadores |-> Libre]
  /\ creditos = Iniciales /\ dormidos = <<>>
  /\ pedidos = [d \in Aparatos |-> <<>>] /\ terminados = {}

\* a process without memory does not wait for a place
LlegaA(p) ==
  /\ p \notin conocidos /\ conocidos' = conocidos \cup {p}
  /\ \/ nuevos' = nuevos \cup {p} /\ UNCHANGED terminados
     \/ terminados' = terminados \cup {p} /\ UNCHANGED nuevos
     \/ UNCHANGED <<nuevos, terminados>>
  /\ UNCHANGED <<lugares, listos, corre, creditos, dormidos, pedidos>>

\* the lightest of those that wait
AdmiteA(p) ==
  /\ lugares > 0 /\ lugares' = lugares - 1
  /\ p \in nuevos /\ \A q \in nuevos : Pesos[p] <= Pesos[q]
  /\ nuevos' = nuevos \ {p} /\ listos' = Append(listos, p)
  /\ UNCHANGED <<conocidos, corre, creditos, dormidos, pedidos, terminados>>

DespachaA(k) ==
  /\ corre[k] = Libre /\ listos # <<>>
  /\ corre' = [corre EXCEPT ![k] = Head(listos)] /\ listos' = Tail(listos)
  /\ UNCHANGED <<conocidos, nuevos, lugares, creditos, dormidos, pedidos, terminados>>

Deja(k) == corre[k] # Libre /\ corre' = [corre EXCEPT ![k] = Libre]

\* its turn is over, or it asked for a device that is not there
DesalojaA(k) ==
  /\ Deja(k) /\ listos' = Append(listos, corre[k])
  /\ UNCHANGED <<conocidos, nuevos, lugares, creditos, dormidos, pedidos, terminados>>

TerminaA(k) ==
  /\ Deja(k) /\ terminados' = terminados \cup {corre[k]} /\ lugares' = lugares + 1
  /\ UNCHANGED <<conocidos, nuevos, listos, creditos, dormidos, pedidos>>

\* WAIT
PasaA(k, s) ==
  /\ corre[k] # Libre
  /\ creditos[s] > 0 /\ creditos' = [creditos EXCEPT ![s] = @ - 1]
  /\ UNCHANGED <<conocidos, nuevos, lugares, listos, corre, dormidos, pedidos, terminados>>

DuermeA(k, s) ==
  /\ Deja(k) /\ creditos[s] = 0
  /\ dormidos' = Append(dormidos, [pcb |-> corre[k], sem |-> s])
  /\ UNCHANGED <<conocidos, nuevos, lugares, listos, creditos, pedidos, terminados>>

DormidosEn(s) == {j \in DOMAIN dormidos : dormidos[j].sem = s}

\* SIGNAL: the first that sleeps on s, or the next WAIT, goes through
AvisaA(k, s) ==
  /\ corre[k] # Libre
  /\ \/ \E j \in Primera(DormidosEn(s)) :
          /\ listos' = Append(listos, dormidos[j].pcb) /\ dormidos' = QuitaPos(dormidos, j)
          /\ UNCHANGED creditos
     \/ /\ DormidosEn(s) = {} /\ creditos' = [creditos EXCEPT ![s] = @ + 1]
        /\ UNCHANGED <<listos, dormidos>>
  /\ UNCHANGED <<conocidos, nuevos, lugares, corre, pedidos, terminados>>

PideA(k, d) ==
  /\ Deja(k) /\ pedidos' = [pedidos EXCEPT ![d] = Append(@, corre[k])]
  /\ UNCHANGED <<conocidos, nuevos, lugares, listos, creditos, dormidos, terminados>>

AtiendeA(d) ==
  /\ pedidos[d] # <<>>
  /\ listos' = Append(listos, Head(pedidos[d])) /\ pedidos' = [pedidos EXCEPT ![d] = Tail(@)]
  /\ UNCHANGED <<conocidos, nuevos, lugares, corre, creditos, dormidos, terminados>>

NextA ==
  \/ \E p \in Procesos : LlegaA(p) \/ AdmiteA(p)
  \/ \E k \in Procesadores :
       \/ DespachaA(k) \/ DesalojaA(k) \/ TerminaA(k)
       \/ \E s \in Contadores : PasaA(k, s) \/ DuermeA(k, s) \/ AvisaA(k, s)
       \/ \E d \in Aparatos : PideA(k, d)
  \/ \E d \in Aparatos : AtiendeA(d)

SpecA == InitA /\ [][NextA]_varsA
=============================================================================
