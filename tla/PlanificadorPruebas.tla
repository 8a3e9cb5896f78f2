------------------------- MODULE PlanificadorPruebas -------------------------
(* Proofs about Planificador: a process is in one place at a time, no step   *)
(* loses one, and the places of the degree that are taken are those of the   *)
(* processes inside.                                                         *)
EXTENDS Planificador, Functions, FiniteSetTheorems, TLAPS

-----------------------------------------------------------------------------
(* Where the processes are                                                   *)

Corren == {corre[k] : k \in Procesadores} \ {Libre}
Duermen == {dormidos[j].pcb : j \in DOMAIN dormidos}
Piden == UNION {Range(pedidos[d]) : d \in Aparatos}

\* those that hold a place of the degree
Adentro == Range(listos) \cup Corren \cup Duermen \cup Piden

Situados == nuevos \cup Adentro \cup terminados

SinRepetir(s) == \A i, j \in DOMAIN s : s[i] = s[j] => i = j

TipoA ==
  /\ conocidos \subseteq Procesos /\ IsFiniteSet(conocidos) /\ Situados \subseteq conocidos
  /\ lugares \in Nat /\ listos \in Seq(Procesos)
  /\ corre \in [Procesadores -> Procesos \cup {Libre}]
  /\ dormidos \in Seq([pcb : Procesos, sem : Contadores])
  /\ pedidos \in [Aparatos -> Seq(Procesos)]

\* a process that waits for a place, one that is inside and one that has
\* ended are not the same, nor two of those inside
Separados ==
  /\ nuevos \cap Adentro = {} /\ nuevos \cap terminados = {} /\ Adentro \cap terminados = {}
  /\ Range(listos) \cap Corren = {} /\ Range(listos) \cap Duermen = {}
  /\ Range(listos) \cap Piden = {} /\ Corren \cap Duermen = {} /\ Corren \cap Piden = {}
  /\ Duermen \cap Piden = {}

CorreUna == \A k, l \in Procesadores : corre[k] = corre[l] /\ corre[k] # Libre => k = l

DuermeUna == \A i, j \in DOMAIN dormidos : dormidos[i].pcb = dormidos[j].pcb => i = j

PideUna ==
  /\ \A d \in Aparatos : SinRepetir(pedidos[d])
  /\ \A d, e \in Aparatos : d # e => Range(pedidos[d]) \cap Range(pedidos[e]) = {}

UnLugar == Separados /\ SinRepetir(listos) /\ CorreUna /\ DuermeUna /\ PideUna

LugaresBien == lugares + Cardinality(Adentro) = Grado

PlanBien == TipoA /\ UnLugar /\ LugaresBien

-----------------------------------------------------------------------------
(* Queues                                                                    *)

\* An element at the end of a queue.
LEMMA Agrega ==
  ASSUME NEW S, NEW s \in Seq(S), NEW e \in S
  PROVE  /\ Append(s, e) \in Seq(S) /\ Range(Append(s, e)) = Range(s) \cup {e}
         /\ DOMAIN Append(s, e) = DOMAIN s \cup {Len(s) + 1} /\ Len(s) + 1 \notin DOMAIN s
         /\ Append(s, e)[Len(s) + 1] = e
         /\ \A j \in DOMAIN s : Append(s, e)[j] = s[j]
         /\ SinRepetir(s) /\ e \notin Range(s) => SinRepetir(Append(s, e))
<1>1. /\ Append(s, e) \in Seq(S)
      /\ DOMAIN Append(s, e) = DOMAIN s \cup {Len(s) + 1} /\ Len(s) + 1 \notin DOMAIN s
      /\ Append(s, e)[Len(s) + 1] = e
      /\ \A j \in DOMAIN s : Append(s, e)[j] = s[j]
  OBVIOUS
<1>2. Range(Append(s, e)) = Range(s) \cup {e}
  BY <1>1 DEF Range
<1>3. SinRepetir(s) /\ e \notin Range(s) => SinRepetir(Append(s, e))
  BY <1>1 DEF SinRepetir, Range
<1>. QED  BY <1>1, <1>2, <1>3

\* The first of a queue leaves it.
LEMMA SacaPrimero ==
  ASSUME NEW S, NEW s \in Seq(S), s # <<>>, SinRepetir(s)
  PROVE  /\ Tail(s) \in Seq(S) /\ Head(s) \in S /\ Head(s) \in Range(s)
         /\ Range(Tail(s)) = Range(s) \ {Head(s)} /\ SinRepetir(Tail(s))
<1>1. /\ Tail(s) \in Seq(S) /\ Len(s) \in Nat /\ Len(s) >= 1 /\ Head(s) = s[1]
      /\ DOMAIN s = 1..Len(s) /\ DOMAIN Tail(s) = 1..(Len(s) - 1)
      /\ \A j \in 1..(Len(s) - 1) : Tail(s)[j] = s[j + 1]
      /\ \A j \in 1..Len(s) : s[j] \in S
  OBVIOUS
<1>2. /\ 1 \in DOMAIN s
      /\ \A j \in DOMAIN Tail(s) : j + 1 \in DOMAIN s /\ j + 1 # 1 /\ Tail(s)[j] = s[j + 1]
      /\ \A i \in DOMAIN s : i # 1 => i - 1 \in DOMAIN Tail(s) /\ Tail(s)[i - 1] = s[i]
      /\ \A i, j \in DOMAIN Tail(s) : i + 1 = j + 1 => i = j
  BY <1>1
<1>3. Range(Tail(s)) = Range(s) \ {Head(s)}
  <2>1. ASSUME NEW x \in Range(Tail(s)) PROVE x \in Range(s) \ {Head(s)}
    BY <1>1, <1>2 DEF Range, SinRepetir
  <2>2. ASSUME NEW x \in Range(s) \ {Head(s)} PROVE x \in Range(Tail(s))
    <3>1. PICK i \in DOMAIN s : s[i] = x
      BY DEF Range
    <3>2. i # 1
      BY <1>1, <3>1
    <3>. QED  BY <1>2, <3>1, <3>2 DEF Range
  <2>. QED  BY <2>1, <2>2
<1>4. SinRepetir(Tail(s))
  <2>1. SUFFICES ASSUME NEW i \in DOMAIN Tail(s), NEW j \in DOMAIN Tail(s),
                        Tail(s)[i] = Tail(s)[j]
                 PROVE  i = j
    BY DEF SinRepetir
  <2>2. i + 1 \in DOMAIN s /\ j + 1 \in DOMAIN s /\ s[i + 1] = s[j + 1]
    BY <1>2, <2>1
  <2>3. i + 1 = j + 1
    BY <2>2 DEF SinRepetir
  <2>. QED  BY <1>2, <2>3
<1>5. Head(s) \in Range(s)
  BY <1>1, <1>2 DEF Range
<1>. QED  BY <1>1, <1>2, <1>3, <1>4, <1>5

\* What is left of a list without one of its positions.
LEMMA SinPosicion ==
  ASSUME NEW S, NEW s \in Seq(S), NEW k \in DOMAIN s
  PROVE  /\ QuitaPos(s, k) \in Seq(S)
         /\ \A j \in DOMAIN QuitaPos(s, k) :
              \E i \in DOMAIN s : i # k /\ QuitaPos(s, k)[j] = s[i]
         /\ \A i \in DOMAIN s : i # k => \E j \in DOMAIN QuitaPos(s, k) : QuitaPos(s, k)[j] = s[i]
         /\ \A i, j \in DOMAIN QuitaPos(s, k) : i # j =>
              \E m, n \in DOMAIN s : /\ m # n /\ QuitaPos(s, k)[i] = s[m]
                                     /\ QuitaPos(s, k)[j] = s[n]
<1>. DEFINE t == QuitaPos(s, k)
            g(j) == IF j < k THEN j ELSE j + 1
            h(i) == IF i < k THEN i ELSE i - 1
<1>1. /\ Len(s) \in Nat /\ DOMAIN s = 1..Len(s) /\ k \in 1..Len(s)
      /\ \A i \in DOMAIN s : s[i] \in S
  OBVIOUS
<1>2. DOMAIN t = 1..(Len(s) - 1) /\ \A j \in 1..(Len(s) - 1) : t[j] = s[g(j)]
  BY DEF QuitaPos
<1>3. \A j \in 1..(Len(s) - 1) : g(j) \in 1..Len(s) /\ g(j) # k
  BY <1>1
<1>4. \A i \in 1..Len(s) : i # k => h(i) \in 1..(Len(s) - 1) /\ g(h(i)) = i
  BY <1>1
<1>5. \A i, j \in 1..(Len(s) - 1) : i # j => g(i) # g(j)
  BY <1>1
<1>6. t \in Seq(S)
  <2>1. t = [j \in 1..(Len(s) - 1) |-> s[g(j)]]
    BY DEF QuitaPos
  <2>2. \A j \in 1..(Len(s) - 1) : s[g(j)] \in S
    BY <1>1, <1>3
  <2>3. Len(s) - 1 \in Nat
    BY <1>1
  <2>4. \A n \in Nat : \A f \in [1..n -> S] : f \in Seq(S)
    OBVIOUS
  <2>5. t \in [1..(Len(s) - 1) -> S]
    BY <2>1, <2>2
  <2>. QED  BY <2>3, <2>4, <2>5
<1>. HIDE DEF t, g, h
<1>. SUFFICES /\ t \in Seq(S)
              /\ \A j \in DOMAIN t : \E i \in DOMAIN s : i # k /\ t[j] = s[i]
              /\ \A i \in DOMAIN s : i # k => \E j \in DOMAIN t : t[j] = s[i]
              /\ \A i, j \in DOMAIN t : i # j =>
                   \E m, n \in DOMAIN s : m # n /\ t[i] = s[m] /\ t[j] = s[n]
  BY DEF t
<1>7. \A j \in DOMAIN t : \E i \in DOMAIN s : i # k /\ t[j] = s[i]
  BY <1>1, <1>2, <1>3
<1>8. ASSUME NEW i \in DOMAIN s, i # k PROVE \E j \in DOMAIN t : t[j] = s[i]
  <2>1. h(i) \in DOMAIN t /\ t[h(i)] = s[i]
    BY <1>1, <1>2, <1>4, <1>8
  <2>. QED  BY <2>1
<1>9. ASSUME NEW i \in DOMAIN t, NEW j \in DOMAIN t, i # j
      PROVE  \E m, n \in DOMAIN s : m # n /\ t[i] = s[m] /\ t[j] = s[n]
  <2>1. /\ g(i) \in DOMAIN s /\ g(j) \in DOMAIN s /\ g(i) # g(j)
        /\ t[i] = s[g(i)] /\ t[j] = s[g(j)]
    BY <1>1, <1>2, <1>3, <1>5, <1>9
  <2>. QED  BY <2>1
<1>. QED  BY <1>6, <1>7, <1>8, <1>9

-----------------------------------------------------------------------------
(* The processors, those that sleep and the devices                          *)

LEMMA Dejado ==
  ASSUME TipoA, CorreUna, NEW k \in Procesadores, Deja(k)
  PROVE  /\ corre[k] \in Corren /\ corre[k] \in Procesos
         /\ corre' \in [Procesadores -> Procesos \cup {Libre}]
         /\ Corren' = Corren \ {corre[k]} /\ CorreUna'
<1>1. /\ corre \in [Procesadores -> Procesos \cup {Libre}] /\ corre[k] # Libre
      /\ corre' = [corre EXCEPT ![k] = Libre]
  BY DEF TipoA, Deja
<1>2. /\ corre' \in [Procesadores -> Procesos \cup {Libre}] /\ corre'[k] = Libre
      /\ \A l \in Procesadores : l # k => corre'[l] = corre[l] /\ corre[l] # corre[k]
  BY <1>1 DEF CorreUna
<1>. QED  BY <1>1, <1>2 DEF Corren, CorreUna

LEMMA Tomado ==
  ASSUME TipoA, CorreUna, NEW k \in Procesadores, corre[k] = Libre,
         NEW p \in Procesos, p # Libre, p \notin Corren, corre' = [corre EXCEPT ![k] = p]
  PROVE  /\ corre' \in [Procesadores -> Procesos \cup {Libre}]
         /\ Corren' = Corren \cup {p} /\ CorreUna'
<1>1. /\ corre' \in [Procesadores -> Procesos \cup {Libre}] /\ corre'[k] = p
      /\ \A l \in Procesadores : l # k => corre'[l] = corre[l] /\ corre[l] # p
  BY DEF TipoA, Corren
<1>. QED  BY <1>1 DEF Corren, CorreUna

LEMMA Dormido ==
  ASSUME TipoA, DuermeUna, NEW p \in Procesos, p \notin Duermen, NEW s \in Contadores,
         dormidos' = Append(dormidos, [pcb |-> p, sem |-> s])
  PROVE  /\ dormidos' \in Seq([pcb : Procesos, sem : Contadores])
         /\ Duermen' = Duermen \cup {p} /\ DuermeUna'
<1>. DEFINE S == [pcb : Procesos, sem : Contadores]
            e == [pcb |-> p, sem |-> s]
<1>1. e \in S /\ e.pcb = p /\ dormidos \in Seq(S)
  BY DEF TipoA
<1>. HIDE DEF e, S
<1>2. /\ dormidos' \in Seq(S)
      /\ DOMAIN dormidos' = DOMAIN dormidos \cup {Len(dormidos) + 1}
      /\ Len(dormidos) + 1 \notin DOMAIN dormidos
      /\ dormidos'[Len(dormidos) + 1] = e
      /\ \A j \in DOMAIN dormidos : dormidos'[j] = dormidos[j]
  BY <1>1, Agrega DEF e
<1>3. Duermen' = Duermen \cup {p}
  BY <1>1, <1>2 DEF Duermen
<1>4. DuermeUna'
  BY <1>1, <1>2 DEF DuermeUna, Duermen
<1>. QED  BY <1>2, <1>3, <1>4 DEF S

LEMMA Despierto ==
  ASSUME TipoA, DuermeUna, NEW k \in DOMAIN dormidos, dormidos' = QuitaPos(dormidos, k)
  PROVE  /\ dormidos[k].pcb \in Duermen /\ dormidos[k].pcb \in Procesos
         /\ dormidos' \in Seq([pcb : Procesos, sem : Contadores])
         /\ Duermen' = Duermen \ {dormidos[k].pcb} /\ DuermeUna'
<1>. DEFINE S == [pcb : Procesos, sem : Contadores]
<1>0. dormidos \in Seq(S) /\ \A e \in S : e.pcb \in Procesos
  BY DEF TipoA
<1>. HIDE DEF S
<1>1. dormidos \in Seq(S) /\ dormidos[k] \in S
  BY <1>0
<1>2. /\ dormidos' \in Seq(S)
      /\ \A j \in DOMAIN dormidos' : \E i \in DOMAIN dormidos : i # k /\ dormidos'[j] = dormidos[i]
      /\ \A i \in DOMAIN dormidos : i # k => \E j \in DOMAIN dormidos' : dormidos'[j] = dormidos[i]
      /\ \A i, j \in DOMAIN dormidos' : i # j =>
           \E m, n \in DOMAIN dormidos :
             m # n /\ dormidos'[i] = dormidos[m] /\ dormidos'[j] = dormidos[n]
  BY <1>1, SinPosicion
<1>3. DuermeUna'
  BY <1>2 DEF DuermeUna
<1>4. Duermen' = Duermen \ {dormidos[k].pcb}
  <2>1. ASSUME NEW x \in Duermen' PROVE x \in Duermen \ {dormidos[k].pcb}
    BY <1>2 DEF Duermen, DuermeUna
  <2>2. ASSUME NEW x \in Duermen \ {dormidos[k].pcb} PROVE x \in Duermen'
    BY <1>2 DEF Duermen
  <2>. QED  BY <2>1, <2>2
<1>. QED  BY <1>0, <1>1, <1>2, <1>3, <1>4 DEF Duermen, S

LEMMA Pedida ==
  ASSUME TipoA, PideUna, NEW d \in Aparatos, NEW p \in Procesos, p \notin Piden,
         pedidos' = [pedidos EXCEPT ![d] = Append(@, p)]
  PROVE  /\ pedidos' \in [Aparatos -> Seq(Procesos)]
         /\ Piden' = Piden \cup {p} /\ PideUna'
<1>1. /\ pedidos[d] \in Seq(Procesos) /\ SinRepetir(pedidos[d]) /\ p \notin Range(pedidos[d])
      /\ pedidos'[d] = Append(pedidos[d], p)
      /\ \A e \in Aparatos : e # d => pedidos'[e] = pedidos[e]
  BY DEF TipoA, PideUna, Piden
<1>2. /\ pedidos'[d] \in Seq(Procesos) /\ SinRepetir(pedidos'[d])
      /\ Range(pedidos'[d]) = Range(pedidos[d]) \cup {p}
  BY <1>1, Agrega
<1>3. \A e \in Aparatos : p \notin Range(pedidos[e])
  BY DEF Piden
<1>4. Piden' = Piden \cup {p}
  BY <1>1, <1>2 DEF Piden
<1>5. PideUna'
  <2>1. \A e \in Aparatos : SinRepetir(pedidos'[e])
    BY <1>1, <1>2 DEF PideUna
  <2>2. \A e \in Aparatos : e # d => Range(pedidos[d]) \cap Range(pedidos[e]) = {}
    BY DEF PideUna
  <2>3. \A e \in Aparatos : e # d => Range(pedidos'[d]) \cap Range(pedidos'[e]) = {}
    BY <1>1, <1>2, <1>3, <2>2
  <2>4. \A e, f \in Aparatos :
          e # d /\ f # d /\ e # f => Range(pedidos'[e]) \cap Range(pedidos'[f]) = {}
    BY <1>1 DEF PideUna
  <2>. QED  BY <2>1, <2>3, <2>4 DEF PideUna
<1>6. pedidos' \in [Aparatos -> Seq(Procesos)]
  BY <1>1, <1>2 DEF TipoA
<1>. QED  BY <1>4, <1>5, <1>6

LEMMA Servida ==
  ASSUME TipoA, PideUna, NEW d \in Aparatos, pedidos[d] # <<>>,
         pedidos' = [pedidos EXCEPT ![d] = Tail(@)]
  PROVE  /\ Head(pedidos[d]) \in Piden /\ Head(pedidos[d]) \in Procesos
         /\ pedidos' \in [Aparatos -> Seq(Procesos)]
         /\ Piden' = Piden \ {Head(pedidos[d])} /\ PideUna'
<1>1. /\ pedidos[d] \in Seq(Procesos) /\ SinRepetir(pedidos[d])
      /\ pedidos'[d] = Tail(pedidos[d])
      /\ \A e \in Aparatos : e # d => pedidos'[e] = pedidos[e]
  BY DEF TipoA, PideUna
<1>2. /\ pedidos'[d] \in Seq(Procesos) /\ SinRepetir(pedidos'[d])
      /\ Head(pedidos[d]) \in Procesos /\ Head(pedidos[d]) \in Range(pedidos[d])
      /\ Range(pedidos'[d]) = Range(pedidos[d]) \ {Head(pedidos[d])}
  BY <1>1, SacaPrimero
<1>3. \A e \in Aparatos : e # d => Head(pedidos[d]) \notin Range(pedidos[e])
  BY <1>2 DEF PideUna
<1>4. Piden' = Piden \ {Head(pedidos[d])}
  BY <1>1, <1>2, <1>3 DEF Piden
<1>5. PideUna'
  BY <1>1, <1>2 DEF PideUna
<1>6. pedidos' \in [Aparatos -> Seq(Procesos)]
  BY <1>1, <1>2 DEF TipoA
<1>. QED  BY <1>2, <1>4, <1>5, <1>6 DEF Piden

-----------------------------------------------------------------------------
(* The operations                                                            *)

LEMMA QuietoPlan ==
  /\ UNCHANGED corre => Corren' = Corren /\ (CorreUna => CorreUna')
  /\ UNCHANGED dormidos => Duermen' = Duermen /\ (DuermeUna => DuermeUna')
  /\ UNCHANGED pedidos => Piden' = Piden /\ (PideUna => PideUna')
BY DEF Corren, CorreUna, Duermen, DuermeUna, Piden, PideUna

LEMMA AdentroFinito ==
  ASSUME TipoA PROVE IsFiniteSet(Adentro) /\ Cardinality(Adentro) \in Nat
<1>1. Adentro \in SUBSET conocidos /\ IsFiniteSet(conocidos)
  BY DEF TipoA, Situados
<1>. QED  BY <1>1, FS_Subset, FS_CardinalityType

\* What holds after an operation that leaves the processes inside where they
\* are, as a set.
LEMMA MismosAdentro ==
  ASSUME PlanBien, Adentro' = Adentro, UNCHANGED lugares PROVE LugaresBien'
BY DEF PlanBien, LugaresBien

LEMMA LlegaPlan ==
  ASSUME PlanBien, NEW p \in Procesos, LlegaA(p)
  PROVE  PlanBien' /\ Situados \subseteq Situados'
<1>1. /\ p \notin conocidos /\ conocidos' = conocidos \cup {p}
      /\ UNCHANGED <<lugares, listos, corre, dormidos, pedidos>>
      /\ \/ nuevos' = nuevos \cup {p} /\ UNCHANGED terminados
         \/ terminados' = terminados \cup {p} /\ UNCHANGED nuevos
         \/ UNCHANGED <<nuevos, terminados>>
  BY DEF LlegaA
<1>2. TipoA /\ UnLugar /\ p \notin Situados
  BY <1>1 DEF PlanBien, TipoA
<1>3. /\ Corren' = Corren /\ Duermen' = Duermen /\ Piden' = Piden
      /\ CorreUna' /\ DuermeUna' /\ PideUna'
  BY <1>1, <1>2, QuietoPlan DEF UnLugar
<1>4. Adentro' = Adentro /\ SinRepetir(listos')
  BY <1>1, <1>2, <1>3 DEF Adentro, UnLugar
<1>5. Separados'
  BY <1>1, <1>2, <1>3, <1>4 DEF UnLugar, Separados, Situados
<1>6. Situados \subseteq Situados' /\ Situados' \subseteq Situados \cup {p}
  BY <1>1, <1>4 DEF Situados
<1>7. IsFiniteSet(conocidos')
  BY <1>1, <1>2, FS_AddElement DEF TipoA
<1>8. TipoA'
  BY <1>1, <1>2, <1>6, <1>7 DEF TipoA
<1>. QED  BY <1>1, <1>3, <1>4, <1>5, <1>6, <1>8, MismosAdentro DEF PlanBien, UnLugar

LEMMA AdmitePlan ==
  ASSUME PlanBien, NEW p \in Procesos, AdmiteA(p)
  PROVE  PlanBien' /\ Situados \subseteq Situados'
<1>1. /\ lugares > 0 /\ lugares' = lugares - 1 /\ p \in nuevos
      /\ nuevos' = nuevos \ {p} /\ listos' = Append(listos, p)
      /\ UNCHANGED <<conocidos, corre, dormidos, pedidos, terminados>>
  BY DEF AdmiteA
<1>2. /\ TipoA /\ UnLugar /\ p \notin Adentro /\ p \notin terminados
      /\ p \notin Range(listos) /\ p \notin Corren /\ p \notin Duermen /\ p \notin Piden
  BY <1>1 DEF PlanBien, UnLugar, Separados, Adentro
<1>3. /\ Corren' = Corren /\ Duermen' = Duermen /\ Piden' = Piden
      /\ CorreUna' /\ DuermeUna' /\ PideUna'
  BY <1>1, <1>2, QuietoPlan DEF UnLugar
<1>4. /\ listos' \in Seq(Procesos) /\ Range(listos') = Range(listos) \cup {p}
      /\ SinRepetir(listos')
  BY <1>1, <1>2, Agrega DEF TipoA, UnLugar
<1>5. Adentro' = Adentro \cup {p}
  BY <1>3, <1>4 DEF Adentro
<1>6. Separados'
  BY <1>1, <1>2, <1>3, <1>4, <1>5 DEF UnLugar, Separados
<1>7. Situados' = Situados
  BY <1>1, <1>5 DEF Situados
<1>8. TipoA'
  BY <1>1, <1>2, <1>4, <1>7 DEF TipoA
<1>9. LugaresBien'
  <2>1. IsFiniteSet(Adentro) /\ Cardinality(Adentro) \in Nat /\ lugares \in Nat
    BY <1>2, AdentroFinito DEF TipoA
  <2>2. Cardinality(Adentro') = Cardinality(Adentro) + 1
    BY <1>2, <1>5, <2>1, FS_AddElement
  <2>. QED  BY <1>1, <2>1, <2>2 DEF PlanBien, LugaresBien
<1>. QED  BY <1>3, <1>4, <1>6, <1>7, <1>8, <1>9 DEF PlanBien, UnLugar

LEMMA DespachaPlan ==
  ASSUME PlanBien, Libre \notin Procesos, NEW k \in Procesadores, DespachaA(k)
  PROVE  PlanBien' /\ Situados \subseteq Situados'
<1>. DEFINE p == Head(listos)
<1>1. /\ corre[k] = Libre /\ listos # <<>> /\ listos' = Tail(listos)
      /\ corre' = [corre EXCEPT ![k] = p]
      /\ UNCHANGED <<conocidos, nuevos, lugares, dormidos, pedidos, terminados>>
  BY DEF DespachaA
<1>2. TipoA /\ UnLugar
  BY DEF PlanBien
<1>3. /\ listos' \in Seq(Procesos) /\ p \in Procesos /\ p \in Range(listos)
      /\ Range(listos') = Range(listos) \ {p} /\ SinRepetir(listos')
  BY <1>1, <1>2, SacaPrimero DEF TipoA, UnLugar
<1>. HIDE DEF p
<1>4. p \notin Corren /\ p # Libre
  BY <1>2, <1>3 DEF UnLugar, Separados
<1>5. /\ corre' \in [Procesadores -> Procesos \cup {Libre}]
      /\ Corren' = Corren \cup {p} /\ CorreUna'
  BY <1>1, <1>2, <1>3, <1>4, Tomado DEF UnLugar
<1>6. Duermen' = Duermen /\ Piden' = Piden /\ DuermeUna' /\ PideUna'
  BY <1>1, <1>2, QuietoPlan DEF UnLugar
<1>7. Adentro' = Adentro
  BY <1>3, <1>5, <1>6 DEF Adentro
<1>8. Separados'
  BY <1>1, <1>2, <1>3, <1>5, <1>6, <1>7 DEF UnLugar, Separados
<1>9. Situados' = Situados
  BY <1>1, <1>7 DEF Situados
<1>10. TipoA'
  BY <1>1, <1>2, <1>3, <1>5, <1>9 DEF TipoA
<1>. QED
  BY <1>1, <1>3, <1>5, <1>6, <1>7, <1>8, <1>9, <1>10, MismosAdentro DEF PlanBien, UnLugar

\* A process that leaves its processor is in no other place.
LEMMA DejaPlan ==
  ASSUME PlanBien, NEW k \in Procesadores, Deja(k)
  PROVE  /\ TipoA /\ UnLugar /\ corre[k] \in Procesos
         /\ corre[k] \in Corren /\ corre[k] \in Adentro /\ corre[k] \notin Range(listos)
         /\ corre[k] \notin Duermen /\ corre[k] \notin Piden
         /\ corre[k] \notin nuevos /\ corre[k] \notin terminados
         /\ corre' \in [Procesadores -> Procesos \cup {Libre}]
         /\ Corren' = Corren \ {corre[k]} /\ CorreUna'
<1>1. TipoA /\ UnLugar /\ CorreUna /\ Separados
  BY DEF PlanBien, UnLugar
<1>2. /\ corre[k] \in Corren /\ corre[k] \in Procesos
      /\ corre' \in [Procesadores -> Procesos \cup {Libre}]
      /\ Corren' = Corren \ {corre[k]} /\ CorreUna'
  BY <1>1, Dejado
<1>. QED  BY <1>1, <1>2 DEF Separados, Adentro

LEMMA DesalojaPlan ==
  ASSUME PlanBien, NEW k \in Procesadores, DesalojaA(k)
  PROVE  PlanBien' /\ Situados \subseteq Situados'
<1>. DEFINE p == corre[k]
<1>1. /\ Deja(k) /\ listos' = Append(listos, p)
      /\ UNCHANGED <<conocidos, nuevos, lugares, dormidos, pedidos, terminados>>
  BY DEF DesalojaA
<1>2. /\ TipoA /\ UnLugar /\ p \in Procesos /\ p \in Corren /\ p \notin Range(listos)
      /\ p \notin Duermen /\ p \notin Piden /\ p \notin nuevos /\ p \notin terminados
      /\ corre' \in [Procesadores -> Procesos \cup {Libre}]
      /\ Corren' = Corren \ {p} /\ CorreUna'
  BY <1>1, DejaPlan
<1>. HIDE DEF p
<1>3. /\ listos' \in Seq(Procesos) /\ Range(listos') = Range(listos) \cup {p}
      /\ SinRepetir(listos')
  BY <1>1, <1>2, Agrega DEF TipoA, UnLugar
<1>6. Duermen' = Duermen /\ Piden' = Piden /\ DuermeUna' /\ PideUna'
  BY <1>1, <1>2, QuietoPlan DEF UnLugar
<1>7. Adentro' = Adentro
  BY <1>2, <1>3, <1>6 DEF Adentro
<1>8. Separados'
  BY <1>1, <1>2, <1>3, <1>6, <1>7 DEF UnLugar, Separados
<1>9. Situados' = Situados
  BY <1>1, <1>7 DEF Situados
<1>10. TipoA'
  BY <1>1, <1>2, <1>3, <1>9 DEF TipoA
<1>. QED
  BY <1>1, <1>2, <1>3, <1>6, <1>7, <1>8, <1>9, <1>10, MismosAdentro DEF PlanBien, UnLugar

LEMMA TerminaPlan ==
  ASSUME PlanBien, NEW k \in Procesadores, TerminaA(k)
  PROVE  PlanBien' /\ Situados \subseteq Situados'
<1>. DEFINE p == corre[k]
<1>1. /\ Deja(k) /\ terminados' = terminados \cup {p} /\ lugares' = lugares + 1
      /\ UNCHANGED <<conocidos, nuevos, listos, dormidos, pedidos>>
  BY DEF TerminaA
<1>2. /\ TipoA /\ UnLugar /\ p \in Procesos /\ p \in Corren /\ p \in Adentro
      /\ p \notin Range(listos)
      /\ p \notin Duermen /\ p \notin Piden /\ p \notin nuevos /\ p \notin terminados
      /\ corre' \in [Procesadores -> Procesos \cup {Libre}]
      /\ Corren' = Corren \ {p} /\ CorreUna'
  BY <1>1, DejaPlan
<1>. HIDE DEF p
<1>6. Duermen' = Duermen /\ Piden' = Piden /\ DuermeUna' /\ PideUna'
  BY <1>1, <1>2, QuietoPlan DEF UnLugar
<1>7. Adentro' = Adentro \ {p}
  BY <1>1, <1>2, <1>6 DEF Adentro
<1>8. Separados'
  BY <1>1, <1>2, <1>6, <1>7 DEF UnLugar, Separados
<1>9. Situados' = Situados
  BY <1>1, <1>2, <1>7 DEF Situados
<1>10. TipoA'
  BY <1>1, <1>2, <1>9 DEF TipoA
<1>11. LugaresBien'
  <2>1. IsFiniteSet(Adentro) /\ Cardinality(Adentro) \in Nat /\ lugares \in Nat
    BY <1>2, AdentroFinito DEF TipoA
  <2>2. Cardinality(Adentro') = Cardinality(Adentro) - 1
    BY <1>2, <1>7, <2>1, FS_RemoveElement
  <2>. QED  BY <1>1, <2>1, <2>2 DEF PlanBien, LugaresBien
<1>. QED  BY <1>1, <1>2, <1>6, <1>8, <1>9, <1>10, <1>11 DEF PlanBien, UnLugar

LEMMA DuermePlan ==
  ASSUME PlanBien, NEW k \in Procesadores, NEW s \in Contadores, DuermeA(k, s)
  PROVE  PlanBien' /\ Situados \subseteq Situados'
<1>. DEFINE p == corre[k]
<1>1. /\ Deja(k) /\ dormidos' = Append(dormidos, [pcb |-> p, sem |-> s])
      /\ UNCHANGED <<conocidos, nuevos, lugares, listos, pedidos, terminados>>
  BY DEF DuermeA
<1>2. /\ TipoA /\ UnLugar /\ p \in Procesos /\ p \in Corren /\ p \notin Range(listos)
      /\ p \notin Duermen /\ p \notin Piden /\ p \notin nuevos /\ p \notin terminados
      /\ corre' \in [Procesadores -> Procesos \cup {Libre}]
      /\ Corren' = Corren \ {p} /\ CorreUna'
  BY <1>1, DejaPlan
<1>. HIDE DEF p
<1>3. /\ dormidos' \in Seq([pcb : Procesos, sem : Contadores])
      /\ Duermen' = Duermen \cup {p} /\ DuermeUna'
  BY <1>1, <1>2, Dormido DEF UnLugar
<1>6. Piden' = Piden /\ PideUna'
  BY <1>1, <1>2, QuietoPlan DEF UnLugar
<1>7. Adentro' = Adentro
  BY <1>1, <1>2, <1>3, <1>6 DEF Adentro
<1>8. Separados'
  BY <1>1, <1>2, <1>3, <1>6, <1>7 DEF UnLugar, Separados
<1>9. Situados' = Situados
  BY <1>1, <1>7 DEF Situados
<1>10. TipoA'
  BY <1>1, <1>2, <1>3, <1>9 DEF TipoA
<1>. QED
  BY <1>1, <1>2, <1>3, <1>6, <1>7, <1>8, <1>9, <1>10, MismosAdentro DEF PlanBien, UnLugar

LEMMA PidePlan ==
  ASSUME PlanBien, NEW k \in Procesadores, NEW d \in Aparatos, PideA(k, d)
  PROVE  PlanBien' /\ Situados \subseteq Situados'
<1>. DEFINE p == corre[k]
<1>1. /\ Deja(k) /\ pedidos' = [pedidos EXCEPT ![d] = Append(@, p)]
      /\ UNCHANGED <<conocidos, nuevos, lugares, listos, dormidos, terminados>>
  BY DEF PideA
<1>2. /\ TipoA /\ UnLugar /\ p \in Procesos /\ p \in Corren /\ p \notin Range(listos)
      /\ p \notin Duermen /\ p \notin Piden /\ p \notin nuevos /\ p \notin terminados
      /\ corre' \in [Procesadores -> Procesos \cup {Libre}]
      /\ Corren' = Corren \ {p} /\ CorreUna'
  BY <1>1, DejaPlan
<1>. HIDE DEF p
<1>3. /\ pedidos' \in [Aparatos -> Seq(Procesos)]
      /\ Piden' = Piden \cup {p} /\ PideUna'
  BY <1>1, <1>2, Pedida DEF UnLugar
<1>6. Duermen' = Duermen /\ DuermeUna'
  BY <1>1, <1>2, QuietoPlan DEF UnLugar
<1>7. Adentro' = Adentro
  BY <1>1, <1>2, <1>3, <1>6 DEF Adentro
<1>8. Separados'
  BY <1>1, <1>2, <1>3, <1>6, <1>7 DEF UnLugar, Separados
<1>9. Situados' = Situados
  BY <1>1, <1>7 DEF Situados
<1>10. TipoA'
  BY <1>1, <1>2, <1>3, <1>9 DEF TipoA
<1>. QED
  BY <1>1, <1>2, <1>3, <1>6, <1>7, <1>8, <1>9, <1>10, MismosAdentro DEF PlanBien, UnLugar

LEMMA PasaPlan ==
  ASSUME PlanBien,
         UNCHANGED <<conocidos, nuevos, lugares, listos, corre, dormidos, pedidos, terminados>>
  PROVE  PlanBien' /\ Situados \subseteq Situados'
<1>1. /\ Corren' = Corren /\ Duermen' = Duermen /\ Piden' = Piden
      /\ CorreUna' /\ DuermeUna' /\ PideUna'
  BY QuietoPlan DEF PlanBien, UnLugar
<1>2. Adentro' = Adentro /\ Situados' = Situados
  BY <1>1 DEF Adentro, Situados
<1>. QED  BY <1>1, <1>2, MismosAdentro DEF PlanBien, TipoA, UnLugar, Separados

\* The one that is woken goes from the list of those that sleep to the queue.
LEMMA AvisaPlan ==
  ASSUME PlanBien, NEW k \in Procesadores, NEW s \in Contadores, AvisaA(k, s)
  PROVE  PlanBien' /\ Situados \subseteq Situados'
<1>1. CASE UNCHANGED <<listos, dormidos>>
  BY <1>1, PasaPlan DEF AvisaA
<1>2. ASSUME NEW j \in Primera(DormidosEn(s)),
             listos' = Append(listos, dormidos[j].pcb), dormidos' = QuitaPos(dormidos, j),
             UNCHANGED <<conocidos, nuevos, lugares, corre, pedidos, terminados>>
      PROVE  PlanBien' /\ Situados \subseteq Situados'
  <2>. DEFINE p == dormidos[j].pcb
  <2>1. TipoA /\ UnLugar /\ j \in DOMAIN dormidos
    BY DEF PlanBien, Primera, DormidosEn
  <2>2. /\ p \in Duermen /\ p \in Procesos
        /\ dormidos' \in Seq([pcb : Procesos, sem : Contadores])
        /\ Duermen' = Duermen \ {p} /\ DuermeUna'
    BY <1>2, <2>1, Despierto DEF UnLugar
  <2>. HIDE DEF p
  <2>3. p \notin Range(listos)
    BY <2>1, <2>2 DEF UnLugar, Separados
  <2>4. /\ listos' \in Seq(Procesos) /\ Range(listos') = Range(listos) \cup {p}
        /\ SinRepetir(listos')
    BY <1>2, <2>1, <2>2, <2>3, Agrega DEF TipoA, UnLugar, p
  <2>5. Corren' = Corren /\ Piden' = Piden /\ CorreUna' /\ PideUna'
    BY <1>2, <2>1, QuietoPlan DEF UnLugar
  <2>6. Adentro' = Adentro
    BY <2>2, <2>4, <2>5 DEF Adentro
  <2>7. Separados'
    BY <1>2, <2>1, <2>2, <2>4, <2>5, <2>6 DEF UnLugar, Separados
  <2>8. Situados' = Situados
    BY <1>2, <2>6 DEF Situados
  <2>9. TipoA'
    BY <1>2, <2>1, <2>2, <2>4, <2>8 DEF TipoA
  <2>. QED
    BY <1>2, <2>2, <2>4, <2>5, <2>6, <2>7, <2>8, <2>9, MismosAdentro DEF PlanBien, UnLugar
<1>. QED  BY <1>1, <1>2 DEF AvisaA

LEMMA AtiendePlan ==
  ASSUME PlanBien, NEW d \in Aparatos, AtiendeA(d)
  PROVE  PlanBien' /\ Situados \subseteq Situados'
<1>. DEFINE p == Head(pedidos[d])
<1>1. /\ pedidos[d] # <<>> /\ listos' = Append(listos, p)
      /\ pedidos' = [pedidos EXCEPT ![d] = Tail(@)]
      /\ UNCHANGED <<conocidos, nuevos, lugares, corre, dormidos, terminados>>
  BY DEF AtiendeA
<1>2. TipoA /\ UnLugar
  BY DEF PlanBien
<1>3. /\ p \in Piden /\ p \in Procesos /\ pedidos' \in [Aparatos -> Seq(Procesos)]
      /\ Piden' = Piden \ {p} /\ PideUna'
  BY <1>1, <1>2, Servida DEF UnLugar
<1>. HIDE DEF p
<1>4. p \notin Range(listos)
  BY <1>2, <1>3 DEF UnLugar, Separados
<1>5. /\ listos' \in Seq(Procesos) /\ Range(listos') = Range(listos) \cup {p}
      /\ SinRepetir(listos')
  BY <1>1, <1>2, <1>3, <1>4, Agrega DEF TipoA, UnLugar
<1>6. Corren' = Corren /\ Duermen' = Duermen /\ CorreUna' /\ DuermeUna'
  BY <1>1, <1>2, QuietoPlan DEF UnLugar
<1>7. Adentro' = Adentro
  BY <1>3, <1>5, <1>6 DEF Adentro
<1>8. Separados'
  BY <1>1, <1>2, <1>3, <1>5, <1>6, <1>7 DEF UnLugar, Separados
<1>9. Situados' = Situados
  BY <1>1, <1>7 DEF Situados
<1>10. TipoA'
  BY <1>1, <1>2, <1>3, <1>5, <1>9 DEF TipoA
<1>. QED
  BY <1>1, <1>3, <1>5, <1>6, <1>7, <1>8, <1>9, <1>10, MismosAdentro DEF PlanBien, UnLugar

-----------------------------------------------------------------------------
(* The theorems                                                              *)

LEMMA InicioPlan ==
  ASSUME Grado \in Nat, InitA PROVE PlanBien
<1>1. Range(listos) = {} /\ Corren = {} /\ Duermen = {} /\ Piden = {}
  BY DEF InitA, Range, Corren, Duermen, Piden
<1>2. Adentro = {} /\ Situados = {}
  BY <1>1 DEF InitA, Adentro, Situados
<1>3. TipoA
  BY <1>2, FS_EmptySet DEF InitA, TipoA
<1>4. UnLugar
  BY <1>1, <1>2
     DEF InitA, UnLugar, Separados, SinRepetir, CorreUna, DuermeUna, PideUna
<1>5. LugaresBien
  BY <1>2, FS_EmptySet DEF InitA, LugaresBien
<1>. QED  BY <1>3, <1>4, <1>5 DEF PlanBien

\* No operation of the scheduler loses a process.
LEMMA PasoPlan ==
  ASSUME PlanBien, Libre \notin Procesos, [NextA]_varsA
  PROVE  PlanBien' /\ Situados \subseteq Situados'
<1>1. CASE UNCHANGED varsA
  BY <1>1, PasaPlan DEF varsA
<1>2. CASE NextA
  <2>1. CASE \E p \in Procesos : LlegaA(p) \/ AdmiteA(p)
    BY <2>1, LlegaPlan, AdmitePlan
  <2>2. CASE \E d \in Aparatos : AtiendeA(d)
    BY <2>2, AtiendePlan
  <2>3. CASE \E k \in Procesadores : DespachaA(k) \/ DesalojaA(k) \/ TerminaA(k)
    BY <2>3, DespachaPlan, DesalojaPlan, TerminaPlan
  <2>4. CASE \E k \in Procesadores, s \in Contadores : PasaA(k, s)
    BY <2>4, PasaPlan DEF PasaA
  <2>5. CASE \E k \in Procesadores, s \in Contadores : DuermeA(k, s) \/ AvisaA(k, s)
    BY <2>5, DuermePlan, AvisaPlan
  <2>6. CASE \E k \in Procesadores, d \in Aparatos : PideA(k, d)
    BY <2>6, PidePlan
  <2>. QED  BY <1>2, <2>1, <2>2, <2>3, <2>4, <2>5, <2>6 DEF NextA
<1>. QED  BY <1>1, <1>2

\* In every scheduler a process is in one place at a time, and the places of
\* the degree are free or taken by the processes inside.
THEOREM PlanificadorCorrecto ==
  ASSUME Grado \in Nat, Libre \notin Procesos PROVE SpecA => []PlanBien
BY InicioPlan, PasoPlan, PTL DEF SpecA
=============================================================================
