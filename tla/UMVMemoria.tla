----------------------------- MODULE UMVMemoria -----------------------------
(***************************************************************************)
(* The memory of the UMV: the segment list that crearSegmento,             *)
(* destruirSegmento and compactacion edit (funcionesDeUMV.c,               *)
(* compactacion.c), as one thread at a time sees it under the mutex        *)
(* escribirListaUMV.                                                       *)
(*                                                                         *)
(* The "nodo cero", element 0 of the C list, is not a segment: its size    *)
(* field is the free memory counter and is the variable libre here.        *)
(* Addresses are relative to the start of the big malloc.                  *)
(***************************************************************************)
EXTENDS Listas

CONSTANTS
  Pids,        \* program ids that own segments
  SinPid,      \* the pid of a free segment (-1 in the code)
  Tamanios,    \* sizes a client may ask for
  Malloc,      \* size of the memory (MALLOC in the configuration file)
  Algoritmos,  \* allocation algorithms the console may select
  MaxPedidos   \* bound of the model: crearSegmento calls in a behaviour

ASSUME PidsAssumption == SinPid \notin Pids
ASSUME TamaniosAssumption == Tamanios \subseteq Nat
ASSUME MallocAssumption == Malloc \in Nat
ASSUME AlgoritmosAssumption == Algoritmos \subseteq {"FF", "WF"}
ASSUME MaxPedidosAssumption == MaxPedidos \in Nat

VARIABLES
  segs,        \* segments in list order, the nodo cero left out
  libre,       \* nodoCero->size
  algoritmo,   \* tipoAlgoritmo
  fase,        \* where the thread that holds the mutex is
  pedido,      \* argument of the crearSegmento in progress
  yaCompacte,  \* yaCompacte of crearSegmento: this is the second pass
  pedidos,     \* crearSegmento calls so far
  respuesta,   \* value returned by the last operation
  nodo,        \* position of compactacion's nodo
  ocupado,     \* position of segmentoReservado, while a hole is consumed
  siguiente,   \* position of segmentoSiguienteAlLibre, idem
  dif,         \* diferenciaEntreSegmentos, idem
  cant,        \* cantidadDeSegmentosDeDiferencia
  vuelta,      \* the i of the loop of lines 222-291
  desvio       \* history: 1 once compactacion has mishandled a consumed segment

memoria == <<segs, libre>>
cursor  == <<nodo, ocupado, siguiente, dif, cant, vuelta>>
llamada == <<pedido, yaCompacte, pedidos, respuesta>>
vars    == <<memoria, algoritmo, fase, llamada, cursor, desvio>>

Segmento == [pid: Pids \cup {SinPid}, base: Int, mem: Int, size: Nat,
             res: {0, 1}]
SinPedido == [pid |-> SinPid, tam |-> 0]
Error == -1

FasesCompactacion == {"compactar", "consumir", "devolver", "borrar"}
Fases == {"reposo", "crear", "caida"} \cup FasesCompactacion

Reservado(p, b, m, t) ==
  [pid |-> p, base |-> b, mem |-> m, size |-> t, res |-> 1]
Hueco(b, m, t) ==
  [pid |-> SinPid, base |-> b, mem |-> m, size |-> t, res |-> 0]
Liberado(s) == Hueco(s.base, s.mem, s.size)

\* a segment that gives up its first d bytes
Corrido(s, d) ==
  [pid |-> s.pid, base |-> s.base + d, mem |-> s.mem + d, size |-> s.size - d,
   res |-> s.res]

Fin == IF segs = <<>> THEN 0 ELSE segs[Len(segs)].mem + segs[Len(segs)].size

-----------------------------------------------------------------------------
(* crearSegmento                                                           *)

\* deviation: any hole will do
HuecosCualquiera(t) == {k \in DOMAIN segs : segs[k].res = 0}
HuecosPara(t) == {k \in DOMAIN segs : segs[k].res = 0 /\ segs[k].size >= t}

\* list_find takes the first hole; list_sort + list_take the largest one
Elegibles(t) ==
  IF algoritmo = "FF"
    THEN {k \in HuecosPara(t) : \A j \in HuecosPara(t) : k <= j}
    ELSE {k \in HuecosPara(t) : \A j \in HuecosPara(t) :
                                  segs[j].size <= segs[k].size}

\* deviation: what is left of the hole is forgotten
OcupaSinResto(k, p, t) ==
  [segs EXCEPT ![k] = Reservado(p, segs[k].base, segs[k].mem, t)]

\* fragmentar, or the exact fit
Ocupa(k, p, t) ==
  LET h == segs[k]
      s == [segs EXCEPT ![k] = Reservado(p, h.base, h.mem, t)]
  IN  IF h.size > t
        THEN InsertaDespues(s, k, Hueco(h.base + t, h.mem + t, h.size - t))
        ELSE s

\* crearSegmentoLocal; the nodo cero has posInicial -1 but the caller resets
\* the first segment to base 0 and the start of the memory
AlFinal(p, t) ==
  IF segs = <<>> THEN Reservado(p, 0, 0, t)
  ELSE LET u == segs[Len(segs)]
       IN Reservado(p, u.base + u.size, u.mem + u.size, t)

\* the caller (Kernel connection or console) takes the mutex
PideSegmento(p, t) ==
  /\ fase = "reposo"
  /\ pedidos < MaxPedidos /\ pedidos' = pedidos + 1
  /\ fase' = "crear"
  /\ pedido' = [pid |-> p, tam |-> t]
  /\ yaCompacte' = 0
  /\ UNCHANGED <<memoria, algoritmo, respuesta, cursor, desvio>>

Responde(r) ==
  /\ fase' = "reposo"
  /\ pedido' = SinPedido
  /\ yaCompacte' = 0
  /\ respuesta' = r
  /\ UNCHANGED <<algoritmo, pedidos, cursor, desvio>>

CreaPrimero ==
  /\ fase = "crear"
  /\ segs = <<>> /\ libre >= pedido.tam
  /\ segs' = <<AlFinal(pedido.pid, pedido.tam)>>
  /\ libre' = libre - pedido.tam
  /\ Responde(0)

\* the search runs unless the list holds only a nodo cero with room
CreaEnHueco ==
  /\ fase = "crear"
  /\ \E k \in Elegibles(pedido.tam) :
       /\ segs' = Ocupa(k, pedido.pid, pedido.tam)
       /\ Responde(segs[k].base)
  /\ UNCHANGED libre

\* deviation: without asking the nodo cero
CreaAlFinalSinPreguntar ==
  /\ fase = "crear" /\ algoritmo = "FF"
  /\ segs # <<>> /\ HuecosPara(pedido.tam) = {}
  /\ LET s == AlFinal(pedido.pid, pedido.tam)
     IN  segs' = Append(segs, s) /\ Responde(s.base)
  /\ libre' = libre - pedido.tam

\* only first fit gets here: worst fit dereferences the empty list first
CreaAlFinal ==
  /\ fase = "crear" /\ algoritmo = "FF"
  /\ segs # <<>> /\ HuecosPara(pedido.tam) = {}
  /\ libre >= pedido.tam
  /\ LET s == AlFinal(pedido.pid, pedido.tam)
     IN  segs' = Append(segs, s) /\ Responde(s.base)
  /\ libre' = libre - pedido.tam

NoEntra == HuecosPara(pedido.tam) = {} /\ libre < pedido.tam

\* deviation: yaCompacte is not tested
MandaCompactarSiempre ==
  /\ fase = "crear" /\ algoritmo = "FF" /\ NoEntra
  /\ fase' = "compactar" /\ nodo' = 1 /\ cant' = 0
  /\ UNCHANGED <<memoria, algoritmo, llamada, ocupado, siguiente, dif, vuelta,
                 desvio>>

MandaCompactar ==
  /\ fase = "crear" /\ algoritmo = "FF" /\ NoEntra /\ yaCompacte = 0
  /\ fase' = "compactar" /\ nodo' = 1 /\ cant' = 0
  /\ UNCHANGED <<memoria, algoritmo, llamada, ocupado, siguiente, dif, vuelta,
                 desvio>>

\* deviation: the request is refused in the first pass
SinLugarSinCompactar ==
  /\ fase = "crear" /\ algoritmo = "FF" /\ NoEntra
  /\ Responde(Error)
  /\ UNCHANGED memoria

SinLugar ==
  /\ fase = "crear" /\ algoritmo = "FF" /\ NoEntra /\ yaCompacte = 1
  /\ Responde(Error)
  /\ UNCHANGED memoria

\* ptrAux->head is NULL when no hole is large enough: the process dies
CaeWorstFit ==
  /\ fase = "crear" /\ algoritmo = "WF"
  /\ HuecosPara(pedido.tam) = {}
  /\ segs # <<>> \/ libre < pedido.tam
  /\ fase' = "caida"
  /\ UNCHANGED <<memoria, algoritmo, llamada, cursor, desvio>>

-----------------------------------------------------------------------------
(* destruirSegmento, and the console command that sets tipoAlgoritmo,      *)
(* which takes no mutex                                                    *)

DestruyeSegmentos(p) ==
  /\ fase = "reposo"
  /\ segs' = [k \in DOMAIN segs |->
                IF segs[k].pid = p THEN Liberado(segs[k]) ELSE segs[k]]
  /\ respuesta' = IF \E k \in DOMAIN segs : segs[k].pid = p THEN 0 ELSE Error
  /\ UNCHANGED <<libre, algoritmo, fase, pedido, yaCompacte, pedidos, cursor,
                 desvio>>

CambiaAlgoritmo(a) ==
  /\ fase # "caida"
  /\ algoritmo' = a
  /\ UNCHANGED <<memoria, fase, llamada, cursor, desvio>>

-----------------------------------------------------------------------------
(* compactacion: one action per turn of the loop of lines 41-316, the      *)
(* inner loop of lines 222-291 unrolled one turn per action                *)

ConsolaCompacta ==
  /\ fase = "reposo"
  /\ fase' = "compactar" /\ nodo' = 1 /\ cant' = 0
  /\ UNCHANGED <<memoria, algoritmo, llamada, ocupado, siguiente, dif, vuelta,
                 desvio>>

\* nodo = nodo->next, and the error label when there is none
PasaAlSiguiente(s, k) ==
  IF k < Len(s) THEN fase' = "compactar" /\ nodo' = k + 1
                ELSE fase' = "devolver" /\ nodo' = 1

\* first reserved segment after the hole at nodo
EsPrimerReservado(r) ==
  /\ r \in DOMAIN segs /\ r > nodo /\ segs[r].res = 1
  /\ \A j \in (nodo + 1)..(r - 1) : segs[j].res = 0

SaltaReservado ==
  /\ fase = "compactar" /\ nodo \in DOMAIN segs /\ segs[nodo].res = 1
  /\ PasaAlSiguiente(segs, nodo)
  /\ UNCHANGED <<memoria, algoritmo, llamada, ocupado, siguiente, dif, cant,
                 vuelta, desvio>>

\* empty list, or a hole with no reserved segment after it: goto error
NadaQueMover ==
  /\ fase = "compactar"
  /\ \A j \in DOMAIN segs : j >= nodo => segs[j].res = 0
  /\ fase' = "devolver" /\ nodo' = 1
  /\ UNCHANGED <<memoria, algoritmo, llamada, ocupado, siguiente, dif, cant,
                 vuelta, desvio>>

\* nodo is a hole and r the segment that will fill it
HuecoPara(r) ==
  /\ fase = "compactar" /\ nodo \in DOMAIN segs /\ segs[nodo].res = 0
  /\ EsPrimerReservado(r)

\* deviations: isReservado is not set, posInicial is not copied
MovidoLibre(r, t) == Hueco(segs[r].base, segs[nodo].mem, t)
MovidoSinId(r, t) == Reservado(segs[r].pid, segs[nodo].base, segs[nodo].mem, t)
Movido(r, t) == Reservado(segs[r].pid, segs[r].base, segs[nodo].mem, t)

SoloMueve ==
  /\ PasaAlSiguiente(segs, nodo)
  /\ UNCHANGED <<libre, algoritmo, llamada, ocupado, siguiente, dif, vuelta,
                 desvio>>

\* lines 71-100: the reserved segment follows a larger hole.  The code
\* subtracts segmentoLibre->size from itself, so the difference is 0 and the
\* moved segment keeps the size of the hole.
MueveAMayor ==
  LET r == nodo + 1
      d == segs[nodo].size - segs[nodo].size
  IN  /\ HuecoPara(r) /\ segs[nodo].size > segs[r].size
      /\ segs' = [segs EXCEPT ![nodo] = Movido(r, segs[nodo].size - d),
                              ![r] = Corrido(Liberado(segs[r]), -d)]
      /\ SoloMueve /\ UNCHANGED cant

\* lines 105-131: it follows a smaller hole
MueveAMenor ==
  LET r == nodo + 1
      d == segs[r].size - segs[nodo].size
  IN  /\ HuecoPara(r) /\ segs[nodo].size < segs[r].size
      /\ segs' = [segs EXCEPT ![nodo] = Movido(r, segs[nodo].size + d),
                              ![r] = Corrido(Liberado(segs[r]), d)]
      /\ SoloMueve /\ UNCHANGED cant

\* lines 133-151 and 188-203: same size, next to it or not
MueveAIgual(r) ==
  /\ HuecoPara(r) /\ segs[nodo].size = segs[r].size
  /\ segs' = [segs EXCEPT
                ![nodo] = Movido(r, segs[nodo].size),
                ![r] = Hueco(segs[r].base + 1, segs[r].mem, segs[r].size)]
  /\ cant' = cant + (r - nodo - 1)
  /\ SoloMueve

\* lines 159-185: other holes in between, and the first one is larger; what
\* is left of it goes to the hole that follows
MueveSeparado(r) ==
  LET d == segs[nodo].size - segs[r].size
  IN  /\ HuecoPara(r) /\ r > nodo + 1 /\ d > 0
      /\ segs' = [segs EXCEPT ![nodo] = Movido(r, segs[nodo].size - d),
                              ![nodo + 1] = Corrido(segs[nodo + 1], -d),
                              ![r] = Liberado(segs[r])]
      /\ cant' = cant + (r - nodo - 1)
      /\ SoloMueve

\* lines 205-220: the hole takes the size of the reserved segment, and the
\* difference has to come from the segments that follow
AgrandaHueco(r) ==
  /\ HuecoPara(r) /\ r > nodo + 1
  /\ segs[nodo].size < segs[r].size
  /\ segs' = [segs EXCEPT ![nodo] = Movido(r, segs[r].size)]
  /\ dif' = segs[r].size - segs[nodo].size
  /\ siguiente' = nodo + 1 /\ ocupado' = r
  /\ cant' = cant + (r - nodo - 1) /\ vuelta' = 0
  /\ fase' = "consumir"
  /\ UNCHANGED <<libre, algoritmo, llamada, nodo, desvio>>

FinConsumo == ocupado' = 0 /\ siguiente' = 0 /\ dif' = 0 /\ vuelta' = 0

\* lines 224-238
RecortaSiguiente ==
  /\ fase = "consumir" /\ vuelta <= cant
  /\ segs[siguiente].size > dif
  /\ LET s == [segs EXCEPT ![siguiente] = Corrido(segs[siguiente], dif)]
     IN  segs' = [s EXCEPT ![ocupado] = Liberado(s[ocupado])]
  /\ PasaAlSiguiente(segs, nodo)
  /\ FinConsumo
  /\ UNCHANGED <<libre, algoritmo, llamada, cant, desvio>>

Baja(k, m) == IF k > m THEN k - 1 ELSE k

\* deviation: it compares with nodo itself
EsConsumidoNodo(m) ==
  LET a == segs[nodo]
      igual(j) == segs[j].base = a.base /\ segs[j].size = a.size
  IN  m \in DOMAIN segs /\ igual(m) /\ \A j \in 1..(m - 1) : ~igual(j)

\* list_remove_and_destroy_by_condition with the condition of lines 256-262:
\* the first segment with the base and the size of the one after nodo
EsConsumido(m) ==
  LET a == segs[nodo + 1]
      igual(j) == segs[j].base = a.base /\ segs[j].size = a.size
  IN  /\ m \in DOMAIN segs /\ igual(m)
      /\ \A j \in 1..(m - 1) : ~igual(j)

\* lines 241-267: the whole of the next hole is used, take the one after it
SigueConsumiendo ==
  /\ fase = "consumir"
  /\ segs[siguiente].size < dif
  /\ nodo + 2 \in DOMAIN segs
  /\ \E m \in DOMAIN segs :
       /\ EsConsumido(m)
       /\ segs' = QuitaPos(segs, m)
       /\ nodo' = Baja(nodo, m)
       /\ siguiente' = Baja(nodo + 2, m)
       /\ ocupado' = Baja(ocupado, m)
       /\ desvio' = (IF m = nodo + 1 THEN desvio ELSE 1)
  /\ dif' = dif - segs[siguiente].size
  /\ vuelta' = vuelta + 1
  /\ UNCHANGED <<libre, algoritmo, fase, llamada, cant>>

\* the same in the last round of lines 222-223: the loop ends with bytes still
\* missing, and the segment that moved keeps its old place too
SeAgota ==
  /\ fase = "consumir"
  /\ segs[siguiente].size < dif
  /\ nodo + 2 \in DOMAIN segs
  /\ \E m \in DOMAIN segs :
       /\ EsConsumido(m)
       /\ segs' = QuitaPos(segs, m)
       /\ PasaAlSiguiente(segs', Baja(nodo, m))
  /\ FinConsumo
  /\ desvio' = 1
  /\ UNCHANGED <<libre, algoritmo, llamada, cant>>

ConsumeSiguiente == IF vuelta < cant THEN SigueConsumiendo ELSE SeAgota

\* the condition of lines 275-281 compares posInicial with the size
EsConsumidoExacto(m) ==
  LET a == segs[siguiente]
      igual(j) == segs[j].base = a.base /\ segs[j].base = a.size
  IN  /\ m \in DOMAIN segs /\ igual(m)
      /\ \A j \in 1..(m - 1) : ~igual(j)

\* lines 270-287: the next hole is exactly what is missing
ConsumeExacto ==
  /\ fase = "consumir" /\ vuelta <= cant
  /\ segs[siguiente].size = dif
  /\ LET s == [segs EXCEPT ![ocupado] = Liberado(segs[ocupado])]
     IN  \/ \E m \in DOMAIN segs :
              /\ EsConsumidoExacto(m)
              /\ segs' = QuitaPos(s, m)
              /\ PasaAlSiguiente(segs', Baja(nodo, m))
              /\ desvio' = (IF m = siguiente THEN desvio ELSE 1)
         \/ /\ \A m \in DOMAIN segs : ~EsConsumidoExacto(m)
            /\ segs' = s
            /\ PasaAlSiguiente(s, nodo)
            /\ desvio' = 1
  /\ FinConsumo
  /\ UNCHANGED <<libre, algoritmo, llamada, cant>>

\* _devolverMemoria, one call of list_iterate per action
DevuelveMemoria ==
  /\ fase = "devolver" /\ nodo \in DOMAIN segs
  /\ libre' = IF segs[nodo].res = 1 THEN libre ELSE libre + segs[nodo].size
  /\ nodo' = nodo + 1
  /\ UNCHANGED <<segs, algoritmo, fase, llamada, ocupado, siguiente, dif, cant,
                 vuelta, desvio>>

TerminaDevolver ==
  /\ fase = "devolver" /\ nodo > Len(segs)
  /\ fase' = "borrar"
  /\ UNCHANGED <<memoria, algoritmo, llamada, cursor, desvio>>

\* _borrarSegmentos: each call removes the first free segment
BorraSegmento ==
  /\ fase = "borrar"
  /\ \E m \in DOMAIN segs :
       /\ segs[m].res = 0 /\ \A j \in 1..(m - 1) : segs[j].res = 1
       /\ segs' = QuitaPos(segs, m)
  /\ UNCHANGED <<libre, algoritmo, fase, llamada, cursor, desvio>>

\* back to the console, or to the second pass of crearSegmento
TerminaCompactacion ==
  /\ fase = "borrar" /\ \A k \in DOMAIN segs : segs[k].res = 1
  /\ IF pedido = SinPedido
       THEN fase' = "reposo" /\ respuesta' = 0 /\ UNCHANGED yaCompacte
       ELSE fase' = "crear" /\ yaCompacte' = 1 /\ UNCHANGED respuesta
  /\ nodo' = 0 /\ cant' = 0
  /\ UNCHANGED <<memoria, algoritmo, pedido, pedidos, ocupado, siguiente, dif,
                 vuelta, desvio>>

-----------------------------------------------------------------------------
Init ==
  /\ segs = <<>> /\ libre = Malloc
  /\ algoritmo = "FF"
  /\ fase = "reposo" /\ pedido = SinPedido /\ yaCompacte = 0
  /\ pedidos = 0 /\ respuesta = 0
  /\ nodo = 0 /\ ocupado = 0 /\ siguiente = 0 /\ dif = 0
  /\ cant = 0 /\ vuelta = 0
  /\ desvio = 0

Crear == CreaPrimero \/ CreaEnHueco \/ CreaAlFinal \/ MandaCompactar
           \/ SinLugar \/ CaeWorstFit

Compactar ==
  \/ SaltaReservado \/ NadaQueMover \/ MueveAMayor \/ MueveAMenor
  \/ \E r \in DOMAIN segs : MueveAIgual(r) \/ MueveSeparado(r) \/ AgrandaHueco(r)
  \/ RecortaSiguiente \/ ConsumeSiguiente \/ ConsumeExacto
  \/ DevuelveMemoria \/ TerminaDevolver
  \/ BorraSegmento \/ TerminaCompactacion

Next ==
  \/ \E p \in Pids, t \in Tamanios : PideSegmento(p, t)
  \/ Crear
  \/ \E p \in Pids : DestruyeSegmentos(p)
  \/ \E a \in Algoritmos : CambiaAlgoritmo(a)
  \/ ConsolaCompacta
  \/ Compactar

Spec == Init /\ [][Next]_vars

\* crearSegmento and compactacion are plain sequential code: the thread that
\* runs them goes on until they return
FairSpec == Spec /\ WF_vars(Crear) /\ WF_vars(Compactar)
-----------------------------------------------------------------------------
(* Properties                                                              *)

\* The list, the counter and the positions compactacion keeps are of the
\* shape the code relies on: no size nor free memory ever becomes negative.
TypeOK ==
  /\ segs \in Seq(Segmento)
  /\ libre \in Nat
  /\ algoritmo \in {"FF", "WF"}
  /\ fase \in Fases
  /\ pedido \in [pid: Pids \cup {SinPid}, tam: Nat]
  /\ yaCompacte \in {0, 1}
  /\ pedidos \in Nat /\ respuesta \in Int
  /\ nodo \in Nat /\ ocupado \in Nat /\ siguiente \in Nat
  /\ dif \in Nat /\ cant \in Nat /\ vuelta \in Nat
  /\ desvio \in {0, 1}

\* the list is complete and no compaction is rewriting it
Estable == fase \in {"reposo", "crear", "caida"}

\* Two segments never share a byte: whatever crearSegmento, destruirSegmento
\* and compactacion did, each segment of the list ends before the next ones
\* begin.  Holds as long as compactacion did not take the faulty path of
\* lines 256-287 (history variable desvio).
SinSolape ==
  (Estable /\ desvio = 0) =>
    \A i, j \in DOMAIN segs : i < j => segs[i].mem + segs[i].size <= segs[j].mem

\* The segments tile the memory from its first byte and the counter of the
\* nodo cero is exactly what is left after the last one: fragmenting,
\* appending, freeing and compacting neither leak memory nor count it twice.
Conservacion ==
  (Estable /\ desvio = 0) =>
    /\ segs # <<>> => segs[1].mem = 0
    /\ \A i \in 1..(Len(segs) - 1) : segs[i + 1].mem = segs[i].mem + segs[i].size
    /\ Fin + libre = Malloc

\* What compactacion has passed is reserved: it never leaves a hole behind,
\* so the memory it returns to the nodo cero is one block at the end.
SinHuecosDetras ==
  fase \in {"compactar", "consumir"} =>
    \A i \in DOMAIN segs : i < nodo => segs[i].res = 1

\* identifiers (pid, posInicial) by which the programs name their segments
Ids == {<<segs[i].pid, segs[i].base>> : i \in {k \in DOMAIN segs : segs[k].res = 1}}

\* Compaction is invisible to the programs: while it runs no identifier of a
\* reserved segment appears or disappears, and none is left with fewer bytes
\* than it had.  As SinSolape, up to the faulty path.
CompactarConserva ==
  [][(fase \in FasesCompactacion /\ desvio' = 0) =>
       /\ Ids' = Ids
       /\ \A i \in DOMAIN segs : segs[i].res = 1 =>
            \E j \in DOMAIN segs' : /\ segs'[j].res = 1
                                    /\ segs'[j].pid = segs[i].pid
                                    /\ segs'[j].base = segs[i].base
                                    /\ segs'[j].size >= segs[i].size]_vars

\* compactacion never frees the list node it is standing on, whose next
\* field it reads afterwards (line 299), even after the faulty path.  So it
\* is when nobody asks for 0 bytes, which crearSegmento does not refuse: a
\* segment that moves into an empty hole has its own old place next, with its
\* own posInicial, and line 279 may then find the node itself.
NodoVivo ==
  fase = "consumir" =>
    /\ segs[siguiente].size < dif => ~EsConsumido(nodo)
    /\ segs[siguiente].size = dif => ~EsConsumidoExacto(nodo)

\* Every crearSegmento and every compactacion returns: the restarted pass,
\* the nested loops and the two list traversals all end (or the process dies
\* of the empty list of worst fit).
Responden == (fase # "reposo") ~> (fase \in {"reposo", "caida"})

-----------------------------------------------------------------------------
(* Inductive invariant of the proofs (UMVMemoriaPruebas)                   *)

\* the positions compactacion keeps while it consumes holes are those of list
\* nodes, and what is still missing fits in the segment that moved
CursorValido ==
  /\ fase = "compactar" => nodo >= 1
  /\ fase = "devolver" => nodo >= 1
  /\ fase = "consumir" => /\ nodo >= 1 /\ nodo < siguiente
                          /\ siguiente <= ocupado /\ ocupado <= Len(segs)
                          /\ dif > 0 /\ dif <= segs[ocupado].size

\* first byte after the segments that precede position k
Inicio(s, k) == IF k = 1 THEN 0 ELSE s[k - 1].mem + s[k - 1].size

Contiguos(s) == \A k \in 1..Len(s) : s[k].mem = Inicio(s, k)

Ordenados(s) ==
  \A i, j \in 1..Len(s) : i < j => s[i].mem + s[i].size <= s[j].mem

\* the first f - 1 segments are reserved and the others are free
Corte(s, f) ==
  /\ f \in 1..(Len(s) + 1)
  /\ \A i \in 1..Len(s) : (s[i].res = 1) <=> (i < f)

\* while holes are consumed the enlarged one overlaps the next by dif bytes
Solapados(s, k, d) ==
  /\ \A i \in 1..Len(s) : s[i].mem = IF i = k + 1 THEN Inicio(s, i) - d
                                                  ELSE Inicio(s, i)
  /\ \A i, j \in 1..Len(s) : i < j =>
       s[i].mem + s[i].size - (IF i = k THEN d ELSE 0) <= s[j].mem

TeselaEntera ==
  /\ Contiguos(segs) /\ Ordenados(segs)
  /\ libre + Inicio(segs, Len(segs) + 1) = Malloc

TeselaCompactar ==
  /\ TeselaEntera
  /\ \A i \in 1..Len(segs) : i < nodo => segs[i].res = 1
  /\ nodo <= Len(segs) \/ (nodo = 1 /\ Len(segs) = 0)

TeselaConsumir ==
  /\ Solapados(segs, nodo, dif)
  /\ libre + Inicio(segs, Len(segs) + 1) = Malloc
  /\ siguiente = nodo + 1
  /\ \A i \in 1..Len(segs) : i <= nodo => segs[i].res = 1

TeselaDevolver ==
  /\ Contiguos(segs) /\ Ordenados(segs)
  /\ nodo <= Len(segs) + 1
  /\ \E f \in 1..(Len(segs) + 1) :
       /\ Corte(segs, f)
       /\ libre + Inicio(segs, Len(segs) + 1) =
            Malloc + (IF nodo > f THEN Inicio(segs, nodo) - Inicio(segs, f)
                                  ELSE 0)

TeselaBorrar ==
  /\ Ordenados(segs)
  /\ \E f \in 1..(Len(segs) + 1) :
       /\ Corte(segs, f)
       /\ \A k \in 1..Len(segs) : k < f => segs[k].mem = Inicio(segs, k)
       /\ libre + Inicio(segs, f) = Malloc

Teselado ==
  /\ Estable => TeselaEntera
  /\ fase = "compactar" => TeselaCompactar
  /\ fase = "consumir" => TeselaConsumir
  /\ fase = "devolver" => TeselaDevolver
  /\ fase = "borrar" => TeselaBorrar

InvMemoria == TypeOK /\ CursorValido /\ (desvio = 0 => Teselado)

\* While holes are consumed nodo already names the segment that ocupado still
\* holds, with all its bytes, and between the two there are only holes.
Mudado ==
  fase = "consumir" =>
    /\ segs[nodo].pid = segs[ocupado].pid
    /\ segs[nodo].base = segs[ocupado].base
    /\ segs[nodo].size = segs[ocupado].size
    /\ \A j \in 1..Len(segs) : (nodo < j /\ j < ocupado) => segs[j].res = 0

\* compactacion moves a segment down and leaves it its posInicial
Altas == \A k \in 1..Len(segs) : segs[k].base >= segs[k].mem

InvIdentidad == desvio = 0 => (Mudado /\ Altas)

\* What is still missing is less than what nodo has; and once the faulty path
\* has put another hole after it, so is that hole.
Ventaja ==
  fase = "consumir" =>
    /\ dif <= segs[nodo].size
    /\ siguiente # nodo + 1 => segs[nodo + 1].size < segs[nodo].size

\* when nobody asks for 0 bytes: no segment is empty, and nodo has always more
\* bytes than the holes after it still have to give
Llenas ==
  /\ \A k \in 1..Len(segs) : segs[k].size > 0
  /\ fase = "crear" => pedido # SinPedido
  /\ pedido # SinPedido => pedido.tam > 0
  /\ fase = "consumir" => dif < segs[nodo].size

InvLlenas == desvio = 0 => Llenas
=============================================================================
