---------------------------- MODULE PilaCPUPruebas ----------------------------
(* Proofs about PilaCPU: types for any stack, labels and code, and, while no *)
(* function that was called calls another, that the dictionary is the one    *)
(* the stack tells, that a program is ended by ERROR only for a reason, and  *)
(* that every step is one of PilaAbstracta, or none.                         *)
EXTENDS PilaCPU, SequenceTheorems, WellFoundedInduction, TLAPS

-----------------------------------------------------------------------------
(* What the steps keep                                                     *)

\* from the beginning of the stack to the running context, and to its end
Distancia == Resta(cursor, seg)
Fondo == Distancia + 5 * contexto

Enteros == 0..(Limite - 1)

Celdas ==
  {Letra(n) : n \in Nombres} \cup {<<"entero", v, i>> : v \in Enteros, i \in 0..3} \cup {Basura}

Llamada ==
  [con : BOOLEAN, propias : SUBSET Nombres, cursor : Enteros, contexto : Nat, pc : Enteros]

\* A context that ends after the end of the stack was reached through an int
\* that is not the cursor of a context; the next variable would not fit, or
\* is the first, or goes around 2^32.
Tipos ==
  /\ TypeOK /\ contexto \in Nat
  /\ pila \in [0..(Tamanio - 1) -> Celdas] /\ llamadas \in Seq(Llamada)
  /\ Fondo <= Limite + Tamanio
  /\ operacion # "ERROR" =>
       contexto = 0 \/ Fondo <= Tamanio \/ Distancia >= Limite - 5
  /\ fase = "espera" => operacion = "QUANTUM"
  /\ fase = "corre" => operacion # "ERROR"

LetrasEn(mem, o, n) == \A i \in 0..(n - 1) : \E x \in Nombres : mem[o + 5 * i] = Letra(x)

EnteroEn(mem, o, v) == \A i \in 1..4 : mem[o + i - 1] = Entero(v)[i]

\* what a call saved of its caller, whose context begins the stack
Cabecera1(mem, l) ==
  /\ LetrasEn(mem, 0, l.contexto)
  /\ EnteroEn(mem, 5 * l.contexto, seg) /\ EnteroEn(mem, 5 * l.contexto + 4, l.pc)
  /\ l.con => \E j \in 0..(l.contexto - 1) : EnteroEn(mem, 5 * l.contexto + 8, 5 * j)

Contextos ==
  /\ cursor >= seg /\ Fondo <= Tamanio /\ LetrasEn(pila, Distancia, contexto)
  /\ llamadas = <<>> => cursor = seg
  /\ llamadas # <<>> =>
       /\ Len(llamadas) = 1 /\ llamadas[1].cursor = seg
       /\ cursor = seg + 5 * llamadas[1].contexto + (IF llamadas[1].con THEN 12 ELSE 8)
       /\ Cabecera1(pila, llamadas[1])

Sana == operacion # "ERROR" /\ ~anidada

PilaBien == Sana => Contextos

-----------------------------------------------------------------------------
(* Arithmetic modulo Limite                                                *)

LEMMA Constantes ==
  /\ Limite \in Nat /\ Tamanio \in Nat /\ 2 * Tamanio + 32 < Limite
  /\ Valores \subseteq Enteros /\ Azar \subseteq Enteros /\ Etiquetas \subseteq Enteros
  /\ Bases \subseteq Enteros /\ \A b \in Bases : b + Tamanio < Limite
  /\ MaxNiveles \in Nat \ {0} /\ Niveles \in Nat
BY LimiteAssumption, EnterosAssumption, BasesAssumption, NivelesAssumption DEF Enteros

LEMMA RestaEs ==
  ASSUME NEW a \in Enteros, NEW b \in 0..Limite
  PROVE  /\ Resta(a, b) \in Enteros
         /\ Resta(a, b) = a - b \/ Resta(a, b) = a - b + Limite
         /\ a >= b => Resta(a, b) = a - b
<1>1. Limite \in Nat
  BY Constantes
<1>. QED  BY <1>1 DEF Resta, Enteros

LEMMA SumaEs ==
  ASSUME NEW a \in Enteros, NEW b \in 0..Limite
  PROVE  /\ Suma(a, b) \in Enteros
         /\ Suma(a, b) = a + b \/ Suma(a, b) = a + b - Limite
         /\ a + b < Limite => Suma(a, b) = a + b
<1>1. Limite \in Nat
  BY Constantes
<1>. QED  BY <1>1 DEF Suma, Enteros

\* Where the context ends, in the segment.
LEMMA FinDelContexto ==
  ASSUME Tipos
  PROVE  /\ Distancia \in Enteros /\ Suma(Distancia, 5 * contexto) \in Enteros
         /\ \/ Suma(Distancia, 5 * contexto) = Fondo
            \/ Suma(Distancia, 5 * contexto) = Fondo - Limite
         /\ seg \in Enteros /\ cursor \in Enteros
<1>1. seg \in Enteros /\ cursor \in Enteros
  BY Constantes DEF Tipos, TypeOK, Enteros
<1>2. Distancia \in Enteros
  BY <1>1, Constantes, RestaEs DEF Distancia, Enteros
<1>3. /\ contexto \in Nat /\ Fondo = Distancia + 5 * contexto /\ Fondo <= Limite + Tamanio
      /\ Limite \in Nat /\ Tamanio < Limite /\ Tamanio \in Nat
  BY Constantes DEF Tipos, Fondo
<1>4. Suma(Distancia, 5 * contexto) \in Enteros
  BY <1>2, <1>3 DEF Suma, Enteros
<1>5. \/ Suma(Distancia, 5 * contexto) = Fondo
      \/ Suma(Distancia, 5 * contexto) = Fondo - Limite
  BY <1>2, <1>3 DEF Suma, Enteros
<1>. QED  BY <1>1, <1>2, <1>4, <1>5

LEMMA QuintaParte ==
  ASSUME NEW n \in Enteros
  PROVE  n \div 5 \in Nat /\ 5 * (n \div 5) <= n /\ 5 * (n \div 5) < Limite
<1>1. n \in Nat /\ n < Limite /\ Limite \in Nat
  BY Constantes DEF Enteros
<1>2. n \div 5 \in Nat /\ 5 * (n \div 5) <= n
  BY <1>1
<1>. QED  BY <1>1, <1>2

\* A set of numbers below n has a greatest one.
LEMMA ElUltimo ==
  ASSUME NEW n \in Nat, NEW T \in SUBSET (0..(n - 1)), T # {}
  PROVE  \E i \in T : \A j \in T : j <= i
<1>. DEFINE S == {n - 1 - i : i \in T}
<1>1. S \subseteq Nat /\ S # {}
  <2>1. \A i \in T : i \in 0..(n - 1)
    OBVIOUS
  <2>2. \A i \in 0..(n - 1) : n - 1 - i \in Nat
    OBVIOUS
  <2>3. S \subseteq Nat
    BY <2>1, <2>2, Zenon
  <2>4. S # {}
    BY Zenon
  <2>. QED  BY <2>3, <2>4
<1>2. PICK x \in S : \A y \in S : ~(<<y, x>> \in OpToRel(<, Nat))
  BY <1>1, NatLessThanWellFounded, WFMin, Zenon
<1>3. \A y \in S : ~(y < x)
  <2>1. \A y \in S : <<y, x>> \in Nat \X Nat
    BY <1>1
  <2>2. \A y, z : <<y, z>> \in Nat \X Nat /\ y < z => <<y, z>> \in OpToRel(<, Nat)
    BY DEF OpToRel
  <2>. QED  BY <1>2, <2>1, <2>2
<1>4. PICK i \in T : x = n - 1 - i
  OBVIOUS
<1>5. \A j \in T : n - 1 - j \in S
  OBVIOUS
<1>. HIDE DEF S
<1>6. ASSUME NEW j \in T PROVE j <= i
  <2>1. ~(n - 1 - j < n - 1 - i)
    BY <1>3, <1>4, <1>5
  <2>. QED  BY <2>1
<1>. QED  BY <1>6

-----------------------------------------------------------------------------
(* What is written and what is read                                        *)

LEMMA FuncionEsSecuencia ==
  ASSUME NEW S, NEW n \in Nat, NEW f \in [1..n -> S] PROVE f \in Seq(S) /\ Len(f) = n
OBVIOUS

LEMMA UnoMenos == \A k \in Nat \ {0} : (IF 1 <= k - 1 THEN (k - 1) - 1 + 1 ELSE 0) = k - 1
OBVIOUS

LEMMA SinElUltimo ==
  ASSUME NEW S, NEW s \in Seq(S), s # <<>>
  PROVE  /\ SubSeq(s, 1, Len(s) - 1) \in Seq(S) /\ Len(SubSeq(s, 1, Len(s) - 1)) = Len(s) - 1
         /\ s[Len(s)] \in S /\ Len(s) \in Nat \ {0}
<1>1. /\ Len(s) \in Nat \ {0} /\ Len(s) - 1 \in Int /\ 1 \in Int
      /\ \A i \in 1..(Len(s) - 1) : s[i] \in S
      /\ s[Len(s)] \in S
  OBVIOUS
<1>2. /\ SubSeq(s, 1, Len(s) - 1) \in Seq(S)
      /\ Len(SubSeq(s, 1, Len(s) - 1)) = IF 1 <= Len(s) - 1 THEN (Len(s) - 1) - 1 + 1 ELSE 0
  <2>. DEFINE n == Len(s) - 1
  <2>1. n \in Int /\ \A i \in 1..n : s[i] \in S
    BY <1>1
  <2>. HIDE DEF n
  <2>2. /\ SubSeq(s, 1, n) \in Seq(S)
        /\ Len(SubSeq(s, 1, n)) = IF 1 <= n THEN n - 1 + 1 ELSE 0
    BY <2>1, SubSeqProperties
  <2>. QED  BY <2>2 DEF n
<1>3. (IF 1 <= Len(s) - 1 THEN (Len(s) - 1) - 1 + 1 ELSE 0) = Len(s) - 1
  BY <1>1, UnoMenos, Zenon
<1>. QED  BY <1>1, <1>2, <1>3, Zenon

LEMMA EnteroTipo ==
  ASSUME NEW v \in Enteros
  PROVE  /\ Entero(v) \in Seq(Celdas) /\ Len(Entero(v)) = 4 /\ DOMAIN Entero(v) = 1..4
         /\ \A i \in 1..4 : Entero(v)[i] = <<"entero", v, i - 1>>
<1>1. \A i \in 1..4 : i - 1 \in 0..3
  OBVIOUS
<1>2. \A i \in 1..4 : <<"entero", v, i - 1>> \in Celdas
  BY <1>1 DEF Celdas
<1>3. Entero(v) = [i \in 1..4 |-> <<"entero", v, i - 1>>]
  BY DEF Entero
<1>4. Entero(v) \in [1..4 -> Celdas]
  BY <1>2, <1>3
<1>5. Entero(v) \in Seq(Celdas) /\ Len(Entero(v)) = 4
  BY <1>4, FuncionEsSecuencia
<1>. QED  BY <1>3, <1>5

LEMMA NuevaTipo ==
  ASSUME NEW n \in Nombres
  PROVE  /\ NuevaVariable(n) \in Seq(Celdas) /\ Len(NuevaVariable(n)) = 5
         /\ NuevaVariable(n)[1] = Letra(n)
<1>1. Letra(n) \in Celdas /\ Basura \in Celdas
  BY DEF Celdas
<1>. QED  BY <1>1 DEF NuevaVariable

\* A write changes the positions it says and no other.
LEMMA EscritaEs ==
  ASSUME pila \in [0..(Tamanio - 1) -> Celdas], NEW o \in 0..Limite, NEW b \in Seq(Celdas)
  PROVE  /\ Escrita(o, b) \in [0..(Tamanio - 1) -> Celdas]
         /\ \A a \in 0..(Tamanio - 1) :
              /\ a < o /\ o + Len(b) <= Limite => Escrita(o, b)[a] = pila[a]
              /\ a >= o + Len(b) => Escrita(o, b)[a] = pila[a]
              /\ a >= o /\ a < o + Len(b) => Escrita(o, b)[a] = b[a - o + 1]
<1>1. \A a \in 0..(Tamanio - 1) :
        /\ Resta(a, o) \in Nat /\ a \in Nat /\ o \in Nat
        /\ a >= o => Resta(a, o) = a - o
        /\ a < o => Resta(a, o) = a - o + Limite
  BY Constantes DEF Resta
<1>2. \A a \in 0..(Tamanio - 1) : Resta(a, o) < Len(b) => b[Resta(a, o) + 1] \in Celdas
  BY <1>1
<1>3. /\ \A a \in 0..(Tamanio - 1) :
           Escrita(o, b)[a] = IF Resta(a, o) < Len(b) THEN b[Resta(a, o) + 1] ELSE pila[a]
      /\ DOMAIN Escrita(o, b) = 0..(Tamanio - 1)
      /\ Escrita(o, b) = [a \in 0..(Tamanio - 1) |-> Escrita(o, b)[a]]
  BY DEF Escrita
<1>4. Escrita(o, b) \in [0..(Tamanio - 1) -> Celdas]
  BY <1>2, <1>3
<1>5. ASSUME NEW a \in 0..(Tamanio - 1)
      PROVE  /\ a < o /\ o + Len(b) <= Limite => ~(Resta(a, o) < Len(b))
             /\ a >= o + Len(b) => ~(Resta(a, o) < Len(b))
             /\ a >= o /\ a < o + Len(b) => Resta(a, o) < Len(b) /\ Resta(a, o) = a - o
  BY <1>1, Constantes
<1>. QED  BY <1>3, <1>4, <1>5

\* Four bytes read as an int are an int of 32 bits.
LEMMA LeidoTipo ==
  ASSUME NEW mem \in [0..(Tamanio - 1) -> Celdas], NEW o \in 0..(Tamanio - 1),
         NEW v \in Leido(mem, o)
  PROVE  v \in Enteros
<1>1. mem[o] \in Celdas
  OBVIOUS
<1>2. mem[o][1] = "entero" => mem[o][2] \in Enteros
  <2>1. ASSUME NEW w \in Enteros, NEW i \in 0..3, mem[o] = <<"entero", w, i>>
        PROVE  mem[o][2] \in Enteros
    BY <2>1
  <2>2. ASSUME NEW n \in Nombres, mem[o] = Letra(n) PROVE mem[o][1] # "entero"
    BY <2>2 DEF Letra
  <2>3. ASSUME mem[o] = Basura PROVE mem[o][1] # "entero"
    BY <2>3 DEF Basura
  <2>. QED  BY <1>1, <2>1, <2>2, <2>3 DEF Celdas
<1>. QED  BY <1>2, Constantes DEF Leido

-----------------------------------------------------------------------------
(* The dictionary                                                          *)

\* d tells, of each letter in the n first variables from o, the last place
EsDiccionario(d, mem, o, n) ==
  /\ d = [x \in DOMAIN d |-> d[x]] /\ DOMAIN d \subseteq Nombres
  /\ \A x \in DOMAIN d : \E i \in 0..(n - 1) :
       /\ d[x] = o + 5 * i /\ mem[o + 5 * i] = Letra(x)
       /\ \A j \in 0..(n - 1) : mem[o + 5 * j] = Letra(x) => j <= i
  /\ \A x \in Nombres : \A i \in 0..(n - 1) : mem[o + 5 * i] = Letra(x) => x \in DOMAIN d

LEMMA RehechoEs ==
  ASSUME NEW mem, NEW c, NEW n \in Nat
  PROVE  EsDiccionario(Rehecho(mem, c, n), mem, Resta(c, seg), n)
<1>. DEFINE lugares(x) == {i \in 0..(n - 1) : mem[Resta(c, seg) + 5 * i] = Letra(x)}
            ultimo(x) == CHOOSE i \in lugares(x) : \A j \in lugares(x) : j <= i
<1>1. Rehecho(mem, c, n) =
        [x \in {y \in Nombres : lugares(y) # {}} |-> Resta(c, seg) + 5 * ultimo(x)]
  BY DEF Rehecho
<1>2. ASSUME NEW x, lugares(x) # {}
      PROVE  ultimo(x) \in lugares(x) /\ \A j \in lugares(x) : j <= ultimo(x)
  <2>1. lugares(x) \in SUBSET (0..(n - 1))
    OBVIOUS
  <2>2. \E i \in lugares(x) : \A j \in lugares(x) : j <= i
    BY <1>2, <2>1, ElUltimo
  <2>. QED  BY <2>2
<1>3. \A x \in Nombres : lugares(x) # {} <=> x \in DOMAIN Rehecho(mem, c, n)
  BY <1>1
<1>4. \A x : \A i : i \in lugares(x) <=> i \in 0..(n - 1) /\ mem[Resta(c, seg) + 5 * i] = Letra(x)
  OBVIOUS
<1>5. DOMAIN Rehecho(mem, c, n) \subseteq Nombres
  BY <1>1
<1>6. \A x \in DOMAIN Rehecho(mem, c, n) :
        lugares(x) # {} /\ Rehecho(mem, c, n)[x] = Resta(c, seg) + 5 * ultimo(x)
  BY <1>1
<1>. HIDE DEF lugares, ultimo
<1>7. ASSUME NEW x \in DOMAIN Rehecho(mem, c, n)
      PROVE  \E i \in 0..(n - 1) :
              /\ Rehecho(mem, c, n)[x] = Resta(c, seg) + 5 * i
              /\ mem[Resta(c, seg) + 5 * i] = Letra(x)
              /\ \A j \in 0..(n - 1) : mem[Resta(c, seg) + 5 * j] = Letra(x) => j <= i
  BY <1>2, <1>4, <1>6, <1>7
<1>8. ASSUME NEW x \in Nombres, NEW i \in 0..(n - 1), mem[Resta(c, seg) + 5 * i] = Letra(x)
      PROVE  x \in DOMAIN Rehecho(mem, c, n)
  BY <1>3, <1>4, <1>8
<1>9. Rehecho(mem, c, n) = [x \in DOMAIN Rehecho(mem, c, n) |-> Rehecho(mem, c, n)[x]]
  BY DEF Rehecho
<1>. QED  BY <1>5, <1>7, <1>8, <1>9 DEF EsDiccionario

\* What RecrearDiccionario leaves, with n variables that fit in 32 bits.
LEMMA RecreaEs ==
  ASSUME NEW mem \in [0..(Tamanio - 1) -> Celdas], NEW c \in Enteros, seg \in Enteros,
         NEW n \in Nat, 5 * n < Limite, NEW op, NEW r \in BOOLEAN,
         RecrearDiccionario(mem, c, n, op, r)
  PROVE  /\ DOMAIN dic' \subseteq Nombres /\ \A x \in DOMAIN dic' : dic'[x] \in Enteros
         /\ operacion' \in {op, "ERROR"} /\ rechazo' \in BOOLEAN /\ (r => rechazo')
         /\ op = "ERROR" => operacion' = "ERROR"
         /\ operacion' # "ERROR" =>
              dic' = Rehecho(mem, c, n) /\ (n = 0 \/ Resta(c, seg) + 5 * n <= Tamanio)
         /\ operacion' = "ERROR" =>
              \/ op = "ERROR" \/ rechazo'
              \/ n > 0 /\ \E mal \in MenosUno(mem[Resta(c, seg)]) : mal
<1>. DEFINE o == Resta(c, seg)
<1>1. /\ o \in Enteros /\ (5 * n) % Limite = 5 * n /\ Limite \in Nat /\ Tamanio \in Nat
      /\ 2 * Tamanio + 32 < Limite
  <2>1. seg \in 0..Limite /\ Limite \in Nat /\ Tamanio \in Nat /\ 2 * Tamanio + 32 < Limite
    BY Constantes DEF Enteros
  <2>2. o \in Enteros
    BY <2>1, RestaEs
  <2>. QED  BY <2>1, <2>2
<1>2. DOMAIN Ninguna = {}
  BY DEF Ninguna
<1>3. CASE n = 0
  <2>1. dic' = Ninguna /\ operacion' = op /\ rechazo' = r
    BY <1>1, <1>3 DEF RecrearDiccionario
  <2>2. Rehecho(mem, c, n) = Ninguna
    <3>1. \A i : i \notin 0..(n - 1)
      BY <1>3
    <3>. QED  BY <3>1 DEF Rehecho, Ninguna
  <2>. QED  BY <1>2, <1>3, <2>1, <2>2
<1>4. CASE n > 0 /\ SePuedeLeer(o, 5 * n)
  <2>1. o + 5 * n <= Tamanio
    BY <1>1, <1>4 DEF SePuedeLeer, Suma, Enteros
  <2>2. PICK mal \in MenosUno(mem[o]) :
          /\ dic' = IF mal THEN Ninguna ELSE Rehecho(mem, c, n)
          /\ operacion' = IF mal THEN "ERROR" ELSE op
          /\ rechazo' = r
    BY <1>1, <1>4 DEF RecrearDiccionario
  <2>3. ASSUME NEW x \in DOMAIN Rehecho(mem, c, n) PROVE Rehecho(mem, c, n)[x] \in Enteros
    <3>1. PICK i \in 0..(n - 1) : Rehecho(mem, c, n)[x] = o + 5 * i
      BY RehechoEs DEF EsDiccionario
    <3>. QED  BY <1>1, <2>1, <3>1 DEF Enteros
  <2>4. DOMAIN Rehecho(mem, c, n) \subseteq Nombres
    BY RehechoEs DEF EsDiccionario
  <2>. QED  BY <1>2, <1>4, <2>1, <2>2, <2>3, <2>4
<1>5. CASE n > 0 /\ ~SePuedeLeer(o, 5 * n)
  <2>1. dic' = Ninguna /\ operacion' = "ERROR" /\ rechazo' = TRUE
    BY <1>1, <1>5 DEF RecrearDiccionario, Rechaza, Refuta
  <2>. QED  BY <1>2, <2>1
<1>. QED  BY <1>3, <1>4, <1>5

-----------------------------------------------------------------------------
(* Types                                                                   *)

LEMMA DefinirTipos == ASSUME Tipos, NEW n \in Nombres, DefinirVariable(n) PROVE Tipos'
<1>. DEFINE o == Suma(Distancia, 5 * contexto)
<1>1. /\ o \in Enteros /\ (o = Fondo \/ o = Fondo - Limite) /\ Distancia \in Enteros
      /\ o \in 0..Limite /\ contexto \in Nat /\ Fondo = Distancia + 5 * contexto
  BY FinDelContexto, Constantes DEF Tipos, Enteros, Fondo
<1>2. /\ EnLinea /\ propias' = propias \cup {n}
      /\ UNCHANGED <<seg, cursor, pc, fase, llamadas, anidada>>
  BY DEF DefinirVariable
<1>3. CASE SePuedeEscribir(o, 5)
  <2>1. /\ pila' = Escrita(o, NuevaVariable(n)) /\ contexto' = contexto + 1
        /\ dic' = [x \in DOMAIN dic \cup {n} |-> IF x = n THEN o ELSE dic[x]]
        /\ UNCHANGED <<operacion, rechazo>>
    BY <1>3 DEF DefinirVariable, Distancia
  <2>2. pila' \in [0..(Tamanio - 1) -> Celdas]
    BY <1>1, <2>1, NuevaTipo, EscritaEs DEF Tipos
  <2>3. Fondo' = Fondo + 5 /\ Distancia' = Distancia
    <3>1. Distancia' = Distancia
      BY <1>2 DEF Distancia
    <3>2. Fondo' = Distancia' + 5 * contexto'
      BY DEF Fondo
    <3>. QED  BY <1>1, <2>1, <3>1, <3>2 DEF Enteros
  <2>4. /\ Fondo + 5 <= Limite + Tamanio
        /\ operacion # "ERROR" => Fondo + 5 <= Tamanio \/ Distancia >= Limite - 5
    <3>1. \/ o + 5 < Limite /\ o + 5 <= Tamanio
          \/ o + 5 >= Limite /\ o + 5 - Limite <= Tamanio
      BY <1>1, <1>3, Constantes DEF SePuedeEscribir, Suma, Enteros
    <3>. QED  BY SMTT(30), <1>1, <3>1, Constantes DEF Tipos, Enteros
  <2>5. contexto' \in Nat /\ contexto' \in Enteros
    BY <1>1, <2>1, <2>3, <2>4, Constantes DEF Enteros
  <2>6. DOMAIN dic' \subseteq Nombres /\ \A x \in DOMAIN dic' : dic'[x] \in Enteros
    BY <1>1, <2>1 DEF Tipos, TypeOK, Enteros
  <2>. QED  BY <1>2, <2>1, <2>2, <2>3, <2>4, <2>5, <2>6 DEF Tipos, TypeOK, Enteros, EnLinea
<1>4. CASE ~SePuedeEscribir(o, 5)
  <2>1. UNCHANGED <<pila, dic, contexto>> /\ operacion' = "ERROR" /\ rechazo' = TRUE
    BY <1>4 DEF DefinirVariable, Distancia, Rechaza, Refuta
  <2>2. Fondo' = Fondo
    BY <1>2, <2>1 DEF Fondo, Distancia
  <2>. QED  BY <1>2, <2>1, <2>2 DEF Tipos, TypeOK, EnLinea
<1>. QED  BY <1>3, <1>4

LEMMA AsignarTipos ==
  ASSUME Tipos, NEW d \in Enteros, NEW v \in Valores, Asignar(d, v)
  PROVE  pila' \in [0..(Tamanio - 1) -> Celdas]
<1>1. d + 1 \in 0..Limite /\ v \in Enteros
  BY Constantes DEF Enteros
<1>. QED  BY <1>1, EnteroTipo, EscritaEs DEF Tipos, Asignar

\* A primitive that leaves the PCB but for the program counter.
LEMMA QuedaTipos ==
  ASSUME Tipos, UNCHANGED <<seg, cursor, contexto, llamadas, anidada>>,
         pc' \in Enteros, pila' \in [0..(Tamanio - 1) -> Celdas], dic' \in {dic, Ninguna},
         operacion' \in {"SUCCESS", "QUANTUM", "EXIT", "ERROR"}, propias' = propias,
         fase' \in {"espera", "corre", "linea", "desaloja", "terminada", "cerrada", "caida"},
         rechazo' \in BOOLEAN, operacion = "ERROR" => operacion' = "ERROR",
         fase' = "espera" => operacion' = "QUANTUM", fase' = "corre" => operacion' # "ERROR"
  PROVE  Tipos'
<1>1. Fondo' = Fondo /\ Distancia' = Distancia
  BY DEF Fondo, Distancia
<1>2. DOMAIN dic' \subseteq Nombres /\ \A n \in DOMAIN dic' : dic'[n] \in 0..(Limite - 1)
  BY DEF Tipos, TypeOK, Ninguna
<1>3. TypeOK'
  BY <1>2 DEF Tipos, TypeOK, Enteros
<1>. QED  BY <1>1, <1>3 DEF Tipos

LEMMA LineaTipos ==
  ASSUME Tipos, NEW n \in Nombres,
         Dereferencia(n) \/ \E v \in Valores : Asignacion(n, v)
  PROVE  Tipos'
<1>1. /\ UNCHANGED <<pcb, propias, llamadas, anidada>> /\ dic' = dic
      /\ \/ fase' = "caida" /\ UNCHANGED <<pila, operacion, rechazo>>
         \/ fase' = fase /\ fase = "linea" /\ operacion' \in {operacion, "ERROR"}
  BY DEF Dereferencia, Asignacion, SinVariable, historia, EnLinea, Rechaza, Refuta
<1>2. rechazo' \in BOOLEAN
  BY DEF Dereferencia, Asignacion, SinVariable, historia, Rechaza, Tipos, TypeOK
<1>3. pila' \in [0..(Tamanio - 1) -> Celdas]
  <2>1. CASE UNCHANGED pila
    BY <2>1 DEF Tipos
  <2>2. CASE \E v \in Valores : n \in DOMAIN dic /\ Asignar(dic[n], v)
    BY <2>2, AsignarTipos DEF Tipos, TypeOK, Enteros
  <2>. QED  BY <2>1, <2>2 DEF Dereferencia, Asignacion, SinVariable
<1>4. pc' \in Enteros /\ UNCHANGED <<seg, cursor, contexto>>
  BY <1>1 DEF pcb, Tipos, TypeOK, Enteros
<1>. QED  BY <1>1, <1>2, <1>3, <1>4, QuedaTipos DEF Tipos, TypeOK

LEMMA LazoTipos ==
  ASSUME Tipos, OtraVuelta \/ CambioContexto \/ FinalizarPrograma
                  \/ (\E l \in Etiquetas : IrALabel(l))
  PROVE  Tipos'
<1>1. pc' \in Enteros /\ UNCHANGED <<seg, cursor, contexto, pila, historia>>
  BY Constantes
     DEF OtraVuelta, CambioContexto, FinalizarPrograma, IrALabel, pcb, Tipos, TypeOK, Enteros
<1>2. /\ dic' \in {dic, Ninguna} /\ operacion' \in {operacion, "EXIT"}
      /\ operacion = "ERROR" => operacion' = "ERROR"
      /\ fase' \in {"espera", "corre", "linea", "terminada"}
      /\ fase' = "espera" => operacion' = "QUANTUM"
      /\ fase' = "corre" => operacion' # "ERROR"
  BY DEF OtraVuelta, CambioContexto, FinalizarPrograma, IrALabel, EnFin, EnLinea
<1>. QED  BY <1>1, <1>2, QuedaTipos DEF historia, Tipos, TypeOK

LEMMA ObtenerTipos == ASSUME Tipos, ObtenerSentencia PROVE Tipos'
<1>1. /\ fase = "corre" /\ pc' = Suma(pc, 1)
      /\ UNCHANGED <<seg, cursor, contexto, pila, dic, propias, llamadas, anidada>>
      /\ operacion' \in {"ERROR", "QUANTUM"} /\ rechazo' \in {rechazo, TRUE}
      /\ fase' = IF operacion' = "ERROR" THEN "desaloja" ELSE "linea"
  BY DEF ObtenerSentencia, Rechaza, Refuta
<1>2. pc' \in Enteros
  <2>1. pc \in Enteros /\ 1 \in 0..Limite
    BY Constantes DEF Tipos, TypeOK, Enteros
  <2>. QED  BY <1>1, <2>1, SumaEs
<1>3. operacion # "ERROR" /\ rechazo' \in BOOLEAN /\ pila' \in [0..(Tamanio - 1) -> Celdas]
  BY <1>1 DEF Tipos, TypeOK
<1>. QED  BY <1>1, <1>2, <1>3, QuedaTipos

LEMMA RecibirTipos == ASSUME Tipos, RecibirPCB PROVE Tipos'
<1>1. /\ fase = "espera" /\ operacion = "QUANTUM"
      /\ RecrearDiccionario(pila, cursor, contexto, "SUCCESS", rechazo)
      /\ fase' = IF operacion' = "ERROR" THEN "cerrada" ELSE "corre"
      /\ UNCHANGED <<seg, cursor, contexto, pc, pila, propias, llamadas, anidada>>
  BY DEF RecibirPCB, pcb, Tipos
<1>2. /\ contexto \in Nat /\ 5 * contexto < Limite /\ cursor \in Enteros /\ seg \in Enteros
      /\ pila \in [0..(Tamanio - 1) -> Celdas] /\ rechazo \in BOOLEAN
  BY SMTT(30), <1>1, FinDelContexto, Constantes DEF Tipos, TypeOK, Fondo, Enteros
<1>3. /\ DOMAIN dic' \subseteq Nombres /\ \A x \in DOMAIN dic' : dic'[x] \in Enteros
      /\ operacion' \in {"SUCCESS", "ERROR"} /\ rechazo' \in BOOLEAN
  BY <1>1, <1>2, RecreaEs
<1>4. Fondo' = Fondo /\ Distancia' = Distancia
  BY <1>1 DEF Fondo, Distancia
<1>5. TypeOK'
  BY <1>1, <1>3 DEF Tipos, TypeOK, Enteros
<1>. QED  BY <1>1, <1>4, <1>5 DEF Tipos

\* A call leaves the cursor where the context saved ends.
LEMMA CursorLlamado ==
  ASSUME Tipos, NEW n \in {8, 12}
  PROVE  /\ Suma(Distancia, 5 * contexto) \in 0..Limite /\ n \in 0..Limite
         /\ Suma(cursor, Suma(Suma(Distancia, 5 * contexto), n)) \in Enteros
<1>. DEFINE o == Suma(Distancia, 5 * contexto)
<1>1. /\ o \in Enteros /\ cursor \in Enteros /\ n \in 0..Limite
      /\ Limite \in Nat /\ Enteros \subseteq 0..Limite
  BY FinDelContexto, Constantes DEF Enteros
<1>2. Suma(o, n) \in Enteros
  BY <1>1, SumaEs
<1>3. Suma(cursor, Suma(o, n)) \in Enteros
  BY <1>1, <1>2, SumaEs
<1>. QED  BY <1>1, <1>3

LEMMA FondoVacio ==
  ASSUME Tipos, cursor' \in Enteros, seg' = seg, contexto' = 0
  PROVE  Fondo' <= Limite + Tamanio
<1>1. seg \in 0..Limite /\ Limite \in Nat /\ Tamanio \in Nat
  BY FinDelContexto, Constantes DEF Enteros
<1>2. Resta(cursor', seg) \in Enteros
  BY <1>1, RestaEs
<1>3. Fondo' = Resta(cursor', seg) + 5 * contexto'
  BY DEF Fondo, Distancia
<1>. QED  BY <1>1, <1>2, <1>3 DEF Enteros

LEMMA LlamarTipos ==
  ASSUME Tipos, NEW l \in Etiquetas, NEW datos \in Seq(Celdas), Len(datos) \in {8, 12},
         NEW con \in BOOLEAN, Llamar(l, datos, con)
  PROVE  Tipos'
<1>. DEFINE o == Suma(Distancia, 5 * contexto)
<1>1. /\ o \in 0..Limite /\ l \in Enteros
      /\ Suma(cursor, Suma(o, Len(datos))) \in Enteros
  BY CursorLlamado, Constantes
<1>2. /\ EnLinea /\ Len(llamadas) + 1 < MaxNiveles /\ UNCHANGED <<seg, fase>>
  BY DEF Llamar
<1>3. CASE SePuedeEscribir(o, Len(datos))
  <2>1. /\ pila' = Escrita(o, datos) /\ cursor' = Suma(cursor, Suma(o, Len(datos)))
        /\ contexto' = 0 /\ dic' = Ninguna /\ pc' = l /\ propias' = {}
        /\ llamadas' = Append(llamadas,
             [con |-> con, propias |-> propias, cursor |-> cursor,
              contexto |-> contexto, pc |-> pc])
        /\ anidada' = (anidada \/ (Len(llamadas) + 1 >= Niveles /\ operacion # "ERROR"))
        /\ UNCHANGED <<operacion, rechazo>>
    BY <1>3 DEF Llamar, Distancia, Avanzado
  <2>2. pila' \in [0..(Tamanio - 1) -> Celdas]
    BY <1>1, <2>1, EscritaEs DEF Tipos
  <2>4. cursor' \in Enteros
    BY <1>1, <2>1
  <2>5. Fondo' <= Limite + Tamanio
    BY <1>2, <2>1, <2>4, FondoVacio
  <2>6. llamadas' \in Seq(Llamada) /\ Len(llamadas') < MaxNiveles
    <3>1. [con |-> con, propias |-> propias, cursor |-> cursor, contexto |-> contexto,
           pc |-> pc] \in Llamada
      BY DEF Tipos, TypeOK, Llamada, Enteros
    <3>2. llamadas \in Seq(Llamada)
      BY DEF Tipos
    <3>. QED  BY <1>2, <2>1, <3>1, <3>2
  <2>7. anidada' \in BOOLEAN /\ rechazo' \in BOOLEAN
    BY <2>1 DEF Tipos, TypeOK
  <2>8. DOMAIN dic' = {} /\ contexto' \in Nat /\ contexto' \in Enteros
    BY <2>1, Constantes DEF Ninguna, Enteros
  <2>9. TypeOK'
    BY <1>1, <1>2, <2>1, <2>2, <2>4, <2>6, <2>7, <2>8 DEF Tipos, TypeOK, Enteros
  <2>. QED  BY <1>2, <2>1, <2>2, <2>5, <2>6, <2>8, <2>9 DEF Tipos, EnLinea
<1>4. CASE ~SePuedeEscribir(o, Len(datos))
  <2>1. /\ UNCHANGED <<pila, cursor, contexto, dic, pc, propias, llamadas, anidada>>
        /\ operacion' = "ERROR" /\ rechazo' = TRUE
    BY <1>4 DEF Llamar, Distancia, Rechaza, Refuta
  <2>. QED  BY <1>2, <2>1, QuedaTipos DEF Tipos, TypeOK, Enteros, EnLinea
<1>. QED  BY <1>3, <1>4

\* What a call writes.
LEMMA DatosTipo ==
  ASSUME Tipos
  PROVE  /\ Entero(cursor) \o Entero(pc) \in Seq(Celdas) /\ Len(Entero(cursor) \o Entero(pc)) = 8
         /\ \A n \in DOMAIN dic :
              /\ Entero(cursor) \o Entero(pc) \o Entero(dic[n]) \in Seq(Celdas)
              /\ Len(Entero(cursor) \o Entero(pc) \o Entero(dic[n])) = 12
<1>1. cursor \in Enteros /\ pc \in Enteros /\ \A n \in DOMAIN dic : dic[n] \in Enteros
  BY DEF Tipos, TypeOK, Enteros
<1>2. \A v \in Enteros : Entero(v) \in Seq(Celdas) /\ Len(Entero(v)) = 4
  BY EnteroTipo
<1>3. \A s, r \in Seq(Celdas) : s \o r \in Seq(Celdas) /\ Len(s \o r) = Len(s) + Len(r)
  OBVIOUS
<1>4. /\ Entero(cursor) \o Entero(pc) \in Seq(Celdas)
      /\ Len(Entero(cursor) \o Entero(pc)) = 8
  <2>1. \A v \in Enteros : Len(Entero(v)) = 4 /\ Entero(v) \in Seq(Celdas)
    BY <1>2
  <2>2. Len(Entero(cursor) \o Entero(pc)) = Len(Entero(cursor)) + Len(Entero(pc))
    BY <1>1, <1>2, <1>3
  <2>3. Len(Entero(cursor)) = 4 /\ Len(Entero(pc)) = 4
    BY <1>1, <2>1
  <2>4. Len(Entero(cursor) \o Entero(pc)) = 4 + 4
    BY <2>2, <2>3, Zenon
  <2>5. Entero(cursor) \o Entero(pc) \in Seq(Celdas)
    BY <1>1, <1>3, <2>1
  <2>. QED  BY <2>4, <2>5
<1>5. ASSUME NEW n \in DOMAIN dic
      PROVE  /\ Entero(cursor) \o Entero(pc) \o Entero(dic[n]) \in Seq(Celdas)
             /\ Len(Entero(cursor) \o Entero(pc) \o Entero(dic[n])) = 12
  BY <1>1, <1>2, <1>3, <1>4
<1>. QED  BY <1>4, <1>5

LEMMA LlamadasTipos ==
  ASSUME Tipos, NEW l \in Etiquetas,
         LlamarSinRetorno(l) \/ \E n \in Nombres : LlamarConRetorno(l, n)
  PROVE  Tipos'
<1>1. CASE LlamarSinRetorno(l)
  BY <1>1, LlamarTipos, DatosTipo DEF LlamarSinRetorno
<1>2. CASE \E n \in Nombres : LlamarConRetorno(l, n)
  <2>1. PICK n \in Nombres : LlamarConRetorno(l, n)
    BY <1>2
  <2>2. CASE n \in DOMAIN dic /\ Llamar(l, Entero(cursor) \o Entero(pc) \o Entero(dic[n]), TRUE)
    BY <2>2, LlamarTipos, DatosTipo
  <2>3. CASE EnLinea /\ SinVariable(n)
    <3>1. UNCHANGED <<pcb, pila, dic, operacion, historia>> /\ fase' = "caida"
      BY <2>3 DEF SinVariable
    <3>2. pc' \in Enteros /\ UNCHANGED <<seg, cursor, contexto>>
      BY <3>1 DEF pcb, Tipos, TypeOK, Enteros
    <3>. QED  BY <3>1, <3>2, QuedaTipos DEF historia, Tipos, TypeOK
  <2>. QED  BY <2>1, <2>2, <2>3 DEF LlamarConRetorno
<1>. QED  BY <1>1, <1>2

\* Whatever int is taken for the cursor, with the variables that are counted
\* from it the context ends where the one that returns began.
LEMMA FondoDeVuelta ==
  ASSUME Tipos, NEW c \in Enteros, NEW t \in {8, 12}, Resta(Resta(cursor, seg), t) <= Tamanio
  PROVE  /\ Contadas(t, c) \in Nat /\ 5 * Contadas(t, c) < Limite
         /\ Resta(c, seg) + 5 * Contadas(t, c) <= Limite + Tamanio
<1>1. /\ cursor \in Enteros /\ seg \in Enteros /\ seg \in 0..Limite /\ t \in 0..Limite
      /\ c \in 0..Limite /\ Limite \in Nat /\ Tamanio \in Nat
  BY FinDelContexto, Constantes DEF Enteros
<1>2. Resta(cursor, t) \in Enteros
  BY <1>1, RestaEs
<1>3. Resta(Resta(cursor, t), c) \in Enteros
  BY <1>1, <1>2, RestaEs
<1>4. Resta(c, seg) + Resta(Resta(cursor, t), c) <= Limite + Tamanio
  BY <1>1 DEF Resta, Enteros
<1>5. /\ Contadas(t, c) \in Nat /\ 5 * Contadas(t, c) < Limite
      /\ 5 * Contadas(t, c) <= Resta(Resta(cursor, t), c)
  BY <1>3, QuintaParte DEF Contadas
<1>6. Resta(c, seg) \in Enteros
  BY <1>1, RestaEs
<1>. QED  BY <1>1, <1>3, <1>4, <1>5, <1>6 DEF Enteros

LEMMA VueltaTipos ==
  ASSUME Tipos, fase = "linea", llamadas # <<>>, NEW t \in {8, 12},
         Resta(Resta(cursor, seg), t) <= Tamanio, NEW c \in Enteros, NEW p \in Enteros,
         NEW op \in {operacion, "ERROR"}, NEW r \in BOOLEAN,
         pila' \in [0..(Tamanio - 1) -> Celdas], cursor' = c, pc' = p,
         contexto' = Contadas(t, c), RecrearDiccionario(pila', c, Contadas(t, c), op, r),
         Desapila, UNCHANGED <<seg, fase, anidada>>
  PROVE  Tipos'
<1>1. /\ contexto' \in Nat /\ 5 * contexto' < Limite
      /\ Resta(c, seg) + 5 * contexto' <= Limite + Tamanio
  BY FondoDeVuelta
<1>2. contexto' \in Enteros /\ seg \in Enteros
  BY <1>1, FinDelContexto, Constantes DEF Enteros
<1>3. /\ DOMAIN dic' \subseteq Nombres /\ \A x \in DOMAIN dic' : dic'[x] \in Enteros
      /\ operacion' \in {op, "ERROR"} /\ rechazo' \in BOOLEAN
      /\ operacion' # "ERROR" => (contexto' = 0 \/ Resta(c, seg) + 5 * contexto' <= Tamanio)
  BY <1>1, <1>2, RecreaEs
<1>4. Fondo' = Resta(c, seg) + 5 * contexto'
  BY DEF Fondo, Distancia
<1>5. /\ llamadas' \in Seq(Llamada) /\ Len(llamadas') < MaxNiveles /\ propias' \subseteq Nombres
  <2>1. llamadas \in Seq(Llamada) /\ Len(llamadas) \in Nat \ {0} /\ Len(llamadas) < MaxNiveles
    BY DEF Tipos, TypeOK
  <2>2. UltimaLlamada \in Llamada
    BY <2>1 DEF UltimaLlamada
  <2>3. /\ SubSeq(llamadas, 1, Len(llamadas) - 1) \in Seq(Llamada)
        /\ Len(SubSeq(llamadas, 1, Len(llamadas) - 1)) = Len(llamadas) - 1
    BY SinElUltimo DEF Tipos
  <2>. QED  BY SMTT(30), <2>1, <2>2, <2>3, Constantes DEF Desapila, Llamada
<1>6. TypeOK'
  BY <1>2, <1>3, <1>5 DEF Tipos, TypeOK, Enteros
<1>. QED  BY <1>1, <1>3, <1>4, <1>5, <1>6 DEF Tipos

\* The bytes saved by a call are there to be read, whatever they hold.
LEMMA RecuperadoEs ==
  ASSUME Tipos, NEW t \in {8, 12}, "bien" \in Recuperado(t)
  PROVE  /\ Resta(Resta(cursor, seg), t) \in Nat
         /\ Resta(Resta(cursor, seg), t) + t <= Tamanio
<1>. DEFINE o == Resta(Resta(cursor, seg), t)
<1>1. SePuedeLeer(o, t)
  BY DEF Recuperado
<1>2. o \in Enteros
  <2>1. Resta(cursor, seg) \in Enteros /\ t \in 0..Limite
    BY FinDelContexto, Constantes DEF Distancia
  <2>. QED  BY <2>1, RestaEs
<1>. QED  BY <1>1, <1>2, Constantes DEF SePuedeLeer, Suma, Enteros

LEMMA FinalizarFuncionTipos == ASSUME Tipos, FinalizarFuncion PROVE Tipos'
<1>1. /\ fase = "linea" /\ operacion = "QUANTUM" /\ llamadas # <<>> /\ UNCHANGED <<fase, anidada>>
  BY DEF FinalizarFuncion, EnFin, EnLinea
<1>2. PICK r \in Recuperado(8) : IF r = "bien" THEN VuelveSinResultado ELSE NoRecupera(r)
  BY DEF FinalizarFuncion
<1>3. CASE r = "bien"
  <2>. DEFINE o == Resta(Resta(cursor, seg), 8)
  <2>1. o \in Nat /\ o + 8 <= Tamanio
    BY <1>2, <1>3, RecuperadoEs
  <2>2. PICK c \in Leido(pila, o), p \in Leido(pila, o + 4) :
          /\ cursor' = c /\ pc' = p /\ contexto' = Contadas(8, c)
          /\ RecrearDiccionario(pila, c, Contadas(8, c), operacion, rechazo)
          /\ Desapila /\ UNCHANGED <<seg, pila>>
    BY <1>2, <1>3 DEF VuelveSinResultado
  <2>3. o \in 0..(Tamanio - 1) /\ o + 4 \in 0..(Tamanio - 1) /\ o <= Tamanio
    BY <2>1, Constantes
  <2>4. c \in Enteros /\ p \in Enteros
    BY <2>3, LeidoTipo DEF Tipos
  <2>5. pila' \in [0..(Tamanio - 1) -> Celdas] /\ rechazo \in BOOLEAN
        /\ RecrearDiccionario(pila', c, Contadas(8, c), operacion, rechazo)
    BY <2>2 DEF Tipos, TypeOK
  <2>. QED  BY <1>1, <2>2, <2>3, <2>4, <2>5, VueltaTipos
<1>4. CASE r # "bien"
  <2>1. NoRecupera(r)
    BY <1>2, <1>4
  <2>. QED  BY <1>1, <2>1, QuedaTipos DEF NoRecupera, Refuta, pcb, Tipos, TypeOK, Enteros
<1>. QED  BY <1>3, <1>4

LEMMA RetornarTipos == ASSUME Tipos, NEW v \in Valores, Retornar(v) PROVE Tipos'
<1>1. /\ fase = "linea" /\ llamadas # <<>> /\ UNCHANGED <<fase, anidada>>
  BY DEF Retornar, EnLinea
<1>2. PICK r \in Recuperado(12) : IF r = "bien" THEN VuelveConResultado(v) ELSE NoRecupera(r)
  BY DEF Retornar
<1>3. CASE r = "bien"
  <2>. DEFINE o == Resta(Resta(cursor, seg), 12)
  <2>1. o \in Nat /\ o + 12 <= Tamanio
    BY <1>2, <1>3, RecuperadoEs
  <2>2. PICK c \in Leido(pila, o), p \in Leido(pila, o + 4), d \in Leido(pila, o + 8) :
          LET entra == SePuedeEscribir(d + 1, 4)
          IN  /\ Asignar(d, v)
              /\ cursor' = c /\ pc' = p /\ contexto' = Contadas(12, c)
              /\ RecrearDiccionario(pila', c, Contadas(12, c),
                                    IF entra THEN operacion ELSE "ERROR", rechazo \/ ~entra)
              /\ Desapila /\ UNCHANGED seg
    BY <1>2, <1>3 DEF VuelveConResultado
  <2>3. /\ o \in 0..(Tamanio - 1) /\ o + 4 \in 0..(Tamanio - 1) /\ o <= Tamanio
        /\ o + 8 \in 0..(Tamanio - 1)
    BY <2>1, Constantes
  <2>4. c \in Enteros /\ p \in Enteros /\ d \in Enteros
    BY <2>3, LeidoTipo DEF Tipos
  <2>5. pila' \in [0..(Tamanio - 1) -> Celdas]
    BY <2>2, <2>4, AsignarTipos
  <2>6. (rechazo \/ ~SePuedeEscribir(d + 1, 4)) \in BOOLEAN
    OBVIOUS
  <2>. QED  BY <1>1, <2>2, <2>3, <2>4, <2>5, <2>6, VueltaTipos
<1>4. CASE r # "bien"
  <2>1. NoRecupera(r)
    BY <1>2, <1>4
  <2>. QED  BY <1>1, <2>1, QuedaTipos DEF NoRecupera, Refuta, pcb, Tipos, TypeOK, Enteros
<1>. QED  BY <1>3, <1>4

LEMMA InitTipos == Init => Tipos
<1>. SUFFICES ASSUME Init PROVE Tipos
  OBVIOUS
<1>1. seg \in Enteros /\ cursor = seg /\ contexto = 0 /\ llamadas = <<>>
  BY Constantes DEF Init
<1>2. Distancia = 0 /\ Fondo = 0
  BY <1>1 DEF Distancia, Fondo, Resta, Enteros
<1>3. pila \in [0..(Tamanio - 1) -> Celdas]
  BY DEF Init, Celdas
<1>4. TypeOK
  <2>1. Len(llamadas) < MaxNiveles
    BY <1>1, Constantes
  <2>2. DOMAIN dic = {}
    BY DEF Init, Ninguna
  <2>3. seg \in Bases /\ {cursor, contexto, pc} \subseteq 0..(Limite - 1)
    BY <1>1, Constantes DEF Init, Enteros
  <2>. QED  BY <2>1, <2>2, <2>3 DEF Init, TypeOK
<1>5. llamadas \in Seq(Llamada)
  BY <1>1
<1>. QED  BY <1>1, <1>2, <1>3, <1>4, <1>5, Constantes DEF Tipos, Init

LEMMA NextTipos == Tipos /\ [Next]_vars => Tipos'
<1>. SUFFICES ASSUME Tipos, [Next]_vars PROVE Tipos'
  OBVIOUS
<1>1. CASE UNCHANGED vars
  BY <1>1 DEF vars, pcb, historia, Tipos, TypeOK, Fondo, Distancia
<1>2. CASE Next
  BY <1>2, RecibirTipos, ObtenerTipos, LazoTipos, FinalizarFuncionTipos, RetornarTipos,
     LlamadasTipos, DefinirTipos, LineaTipos
     DEF Next
<1>. QED  BY <1>1, <1>2

LEMMA SpecTipos == Spec => []Tipos
BY InitTipos, NextTipos, PTL DEF Spec

\* Whatever the code of a program does with its labels, calls and returns,
\* and whatever ints its stray bytes amount to, the fields of its PCB are ints
\* of 32 bits, the dictionary holds positions, and the calls in progress are
\* fewer than the bound.
THEOREM TipoCorrecto == Spec => []TypeOK
BY SpecTipos, PTL DEF Tipos

-----------------------------------------------------------------------------
(* What lasts                                                              *)

\* The segment is the same, and a refusal, an error and a deep call are not
\* forgotten.
LEMMA Dura ==
  ASSUME Tipos, [Next]_vars
  PROVE  /\ seg' = seg /\ (rechazo => rechazo') /\ (anidada => anidada')
         /\ operacion = "ERROR" => operacion' = "ERROR"
<1>1. CASE UNCHANGED vars
  BY <1>1 DEF vars, pcb, historia
<1>2. ASSUME NEW mem, NEW c, NEW n, NEW op, NEW r, RecrearDiccionario(mem, c, n, op, r)
      PROVE  (r => rechazo') /\ (op = "ERROR" => operacion' = "ERROR")
  BY <1>2 DEF RecrearDiccionario, Rechaza, Refuta
<1>3. CASE RecibirPCB
  BY <1>2, <1>3 DEF RecibirPCB, pcb, Tipos
<1>4. CASE ObtenerSentencia
  BY <1>4 DEF ObtenerSentencia, Rechaza, Tipos
<1>5. CASE OtraVuelta \/ CambioContexto \/ FinalizarPrograma \/ \E l \in Etiquetas : IrALabel(l)
  BY <1>5 DEF OtraVuelta, CambioContexto, FinalizarPrograma, EnFin, IrALabel, pcb, historia
<1>6. CASE FinalizarFuncion
  BY <1>2, <1>6
     DEF FinalizarFuncion, VuelveSinResultado, NoRecupera, Refuta, EnFin, EnLinea, pcb
<1>7. CASE \E v \in Valores : Retornar(v)
  <2>1. PICK v \in Valores : Retornar(v)
    BY <1>7
  <2>2. PICK r \in Recuperado(12) : IF r = "bien" THEN VuelveConResultado(v) ELSE NoRecupera(r)
    BY <2>1 DEF Retornar
  <2>3. CASE r = "bien"
    BY <1>2, <2>1, <2>2, <2>3 DEF VuelveConResultado, Retornar
  <2>4. CASE r # "bien"
    BY <2>1, <2>2, <2>4 DEF NoRecupera, Refuta, Retornar, pcb
  <2>. QED  BY <2>3, <2>4
<1>8. CASE \E l \in Etiquetas : LlamarSinRetorno(l) \/ \E n \in Nombres : LlamarConRetorno(l, n)
  <2>1. ASSUME NEW l, NEW datos, NEW con, Llamar(l, datos, con)
        PROVE  /\ seg' = seg /\ (rechazo => rechazo') /\ (anidada => anidada')
               /\ operacion = "ERROR" => operacion' = "ERROR"
    BY <2>1 DEF Llamar, Rechaza, Refuta
  <2>2. PICK l \in Etiquetas : LlamarSinRetorno(l) \/ \E n \in Nombres : LlamarConRetorno(l, n)
    BY <1>8
  <2>3. CASE LlamarSinRetorno(l)
    BY <2>1, <2>3 DEF LlamarSinRetorno
  <2>4. ASSUME NEW n \in Nombres, LlamarConRetorno(l, n)
        PROVE  /\ seg' = seg /\ (rechazo => rechazo') /\ (anidada => anidada')
               /\ operacion = "ERROR" => operacion' = "ERROR"
    <3>1. CASE SinVariable(n)
      BY <3>1 DEF SinVariable, pcb, historia
    <3>2. CASE Llamar(l, Entero(cursor) \o Entero(pc) \o Entero(dic[n]), TRUE)
      BY <2>1, <3>2
    <3>. QED  BY <2>4, <3>1, <3>2 DEF LlamarConRetorno
  <2>. QED  BY <2>2, <2>3, <2>4
<1>9. CASE \E n \in Nombres :
             DefinirVariable(n) \/ Dereferencia(n) \/ \E v \in Valores : Asignacion(n, v)
  BY <1>9
     DEF DefinirVariable, Dereferencia, Asignacion, SinVariable, Rechaza, Refuta, pcb, historia
<1>. QED  BY <1>1, <1>3, <1>4, <1>5, <1>6, <1>7, <1>8, <1>9 DEF Next

-----------------------------------------------------------------------------
(* The dictionary after a write                                            *)

LEMMA LetraUna == \A x, y : Letra(x) = Letra(y) => x = y
BY DEF Letra

LEMMA DiccionarioUnico ==
  ASSUME NEW mem, NEW o \in Nat, NEW n \in Nat, NEW f, NEW g,
         EsDiccionario(f, mem, o, n), EsDiccionario(g, mem, o, n)
  PROVE  f = g
<1>1. DOMAIN g = DOMAIN f
  BY DEF EsDiccionario
<1>2. ASSUME NEW x \in DOMAIN g PROVE g[x] = f[x]
  <2>1. PICK i \in 0..(n - 1) : /\ g[x] = o + 5 * i /\ mem[o + 5 * i] = Letra(x)
                          /\ \A j \in 0..(n - 1) : mem[o + 5 * j] = Letra(x) => j <= i
    BY DEF EsDiccionario
  <2>2. PICK k \in 0..(n - 1) : /\ f[x] = o + 5 * k /\ mem[o + 5 * k] = Letra(x)
                          /\ \A j \in 0..(n - 1) : mem[o + 5 * j] = Letra(x) => j <= k
    BY <1>1 DEF EsDiccionario
  <2>3. i <= k /\ k <= i
    BY <2>1, <2>2
  <2>4. i = k
    BY <2>3
  <2>. QED  BY <2>1, <2>2, <2>4
<1>3. f = [x \in DOMAIN f |-> f[x]] /\ g = [x \in DOMAIN g |-> g[x]]
  BY DEF EsDiccionario
<1>. QED  BY <1>1, <1>2, <1>3

\* Two stacks that agree on the letters have the same dictionary.
Concuerdan(mem, otra, o, n) == \A i \in 0..(n - 1) : otra[o + 5 * i] = mem[o + 5 * i]

LEMMA RehechoIgual ==
  ASSUME NEW mem, NEW otra, NEW c, NEW n \in Nat, Resta(c, seg) \in Nat,
         Concuerdan(mem, otra, Resta(c, seg), n)
  PROVE  Rehecho(otra, c, n) = Rehecho(mem, c, n)
<1>. DEFINE f == Rehecho(mem, c, n)
            o == Resta(c, seg)
<1>1. EsDiccionario(f, mem, o, n)
  BY RehechoEs
<1>2. \A i \in 0..(n - 1) : otra[o + 5 * i] = mem[o + 5 * i]
  BY DEF Concuerdan
<1>. HIDE DEF f, o
<1>3. EsDiccionario(f, otra, o, n)
  BY <1>1, <1>2 DEF EsDiccionario
<1>. QED  BY <1>3, RehechoEs, DiccionarioUnico DEF f, o

\* One more variable after the last.
LEMMA RehechoConOtra ==
  ASSUME NEW mem, NEW otra, NEW c, Resta(c, seg) \in Nat, NEW n \in Nat, NEW y \in Nombres,
         \A i \in 0..(n - 1) : otra[Resta(c, seg) + 5 * i] = mem[Resta(c, seg) + 5 * i],
         otra[Resta(c, seg) + 5 * n] = Letra(y)
  PROVE  Rehecho(otra, c, n + 1) =
           [x \in DOMAIN Rehecho(mem, c, n) \cup {y} |->
              IF x = y THEN Resta(c, seg) + 5 * n ELSE Rehecho(mem, c, n)[x]]
<1>. DEFINE o == Resta(c, seg)
            f == Rehecho(mem, c, n)
            g == [x \in DOMAIN f \cup {y} |-> IF x = y THEN o + 5 * n ELSE f[x]]
            m == n + 1
<1>1. /\ m \in Nat /\ m - 1 = n /\ n \in 0..n
      /\ \A i \in 0..n : i = n \/ i \in 0..(n - 1)
      /\ \A i \in 0..(n - 1) : i \in 0..n
  OBVIOUS
<1>2. EsDiccionario(f, mem, o, n)
  BY RehechoEs
<1>3. /\ \A i \in 0..(n - 1) : otra[o + 5 * i] = mem[o + 5 * i]
      /\ otra[o + 5 * n] = Letra(y) /\ o \in Nat
  OBVIOUS
<1>. HIDE DEF f
<1>4. /\ g = [x \in DOMAIN g |-> g[x]] /\ DOMAIN g = DOMAIN f \cup {y} /\ g[y] = o + 5 * n
      /\ \A x \in DOMAIN f : x # y => g[x] = f[x]
  OBVIOUS
<1>. HIDE DEF g, o
<1>5. ASSUME NEW x \in DOMAIN g
      PROVE  \E i \in 0..n :
              /\ g[x] = o + 5 * i /\ otra[o + 5 * i] = Letra(x)
              /\ \A j \in 0..n : otra[o + 5 * j] = Letra(x) => j <= i
  <2>1. CASE x = y
    BY <1>1, <1>3, <1>4, <2>1
  <2>2. CASE x # y
    <3>1. x \in DOMAIN f
      BY <1>4, <2>2
    <3>2. PICK k \in 0..(n - 1) :
            /\ f[x] = o + 5 * k /\ mem[o + 5 * k] = Letra(x)
            /\ \A j \in 0..(n - 1) : mem[o + 5 * j] = Letra(x) => j <= k
      BY <1>2, <3>1 DEF EsDiccionario
    <3>3. ASSUME NEW j \in 0..n, otra[o + 5 * j] = Letra(x) PROVE j <= k
      BY <1>1, <1>3, <2>2, <3>2, <3>3, LetraUna
    <3>4. k \in 0..n /\ g[x] = o + 5 * k /\ otra[o + 5 * k] = Letra(x)
      BY <1>1, <1>3, <1>4, <2>2, <3>1, <3>2
    <3>. QED  BY <3>3, <3>4
  <2>. QED  BY <2>1, <2>2
<1>6. ASSUME NEW x \in Nombres, NEW i \in 0..n, otra[o + 5 * i] = Letra(x)
      PROVE  x \in DOMAIN g
  BY <1>1, <1>2, <1>3, <1>4, <1>6, LetraUna DEF EsDiccionario
<1>7. EsDiccionario(g, otra, o, m)
  BY <1>1, <1>2, <1>4, <1>5, <1>6 DEF EsDiccionario
<1>8. g = Rehecho(otra, c, m)
  <2>. HIDE DEF m
  <2>. QED  BY <1>1, <1>3, <1>7, RehechoEs, DiccionarioUnico DEF o
<1>. QED  BY <1>8 DEF f, g, o

-----------------------------------------------------------------------------
(* One context, or a function and its caller                               *)

Fiel == fase \in {"corre", "linea"} => dic = Rehecho(pila, cursor, contexto)

Justo ==
  \/ rechazo
  \/ seg % Byte = Byte - 1
  \/ \E i \in DOMAIN Instrucciones : Instrucciones[i] % Byte = Byte - 1

\* what a step does to a stack that was well
Bien == (operacion # "ERROR" => Contextos /\ Fiel) /\ (operacion = "ERROR" => Justo)

LEMMA Lugares ==
  ASSUME Tipos, Contextos
  PROVE  /\ seg \in Enteros /\ cursor \in Enteros /\ contexto \in Nat /\ seg + Tamanio < Limite
         /\ Distancia = cursor - seg /\ Distancia \in 0..Tamanio
         /\ Fondo \in 0..Tamanio /\ Fondo = Distancia + 5 * contexto
         /\ Suma(Distancia, 5 * contexto) = Fondo
<1>1. /\ seg \in Enteros /\ cursor \in Enteros /\ contexto \in Nat
      /\ Distancia \in Enteros
      /\ \/ Suma(Distancia, 5 * contexto) = Fondo
         \/ Suma(Distancia, 5 * contexto) = Fondo - Limite
  BY FinDelContexto DEF Tipos
<1>2. seg + Tamanio < Limite
  BY Constantes DEF Tipos, TypeOK
<1>3. cursor >= seg /\ Fondo <= Tamanio
  BY DEF Contextos
<1>4. Distancia = cursor - seg
  BY <1>1, <1>3 DEF Distancia, Resta, Enteros
<1>5. Suma(Distancia, 5 * contexto) \in Enteros
  BY FinDelContexto
<1>. QED  BY <1>1, <1>2, <1>3, <1>4, <1>5, Constantes DEF Fondo, Enteros

\* Letters, and ints, are where they were if what was written is elsewhere.
LEMMA LetrasQuedan ==
  ASSUME NEW mem, NEW otra, NEW o \in Nat, NEW n \in Nat, LetrasEn(mem, o, n),
         \A i \in 0..(n - 1) : otra[o + 5 * i] = mem[o + 5 * i]
  PROVE  LetrasEn(otra, o, n)
BY DEF LetrasEn

LEMMA EnteroQueda ==
  ASSUME NEW mem, NEW otra, NEW o \in Nat, NEW v, NEW d \in Nat, EnteroEn(mem, o, v),
         o + 4 <= d, \A a \in 0..(d - 1) : otra[a] = mem[a]
  PROVE  EnteroEn(otra, o, v)
<1>1. \A i \in 1..4 : o + i - 1 \in 0..(d - 1)
  OBVIOUS
<1>. QED  BY <1>1 DEF EnteroEn

LEMMA CabeceraQueda ==
  ASSUME NEW mem, NEW otra, NEW l \in Llamada, NEW d \in Nat, Cabecera1(mem, l),
         5 * l.contexto + (IF l.con THEN 12 ELSE 8) <= d, \A a \in 0..(d - 1) : otra[a] = mem[a]
  PROVE  Cabecera1(otra, l)
<1>1. l.contexto \in Nat /\ l.con \in BOOLEAN
  BY DEF Llamada
<1>. DEFINE o == 5 * l.contexto
<1>2. /\ LetrasEn(mem, 0, l.contexto) /\ EnteroEn(mem, o, seg) /\ EnteroEn(mem, o + 4, l.pc)
      /\ l.con => \E j \in 0..(l.contexto - 1) : EnteroEn(mem, o + 8, 5 * j)
  BY DEF Cabecera1
<1>3. o \in Nat /\ o + 8 <= d /\ (l.con => o + 12 <= d)
  BY <1>1
<1>4. LetrasEn(otra, 0, l.contexto)
  <2>1. \A i \in 0..(l.contexto - 1) : 0 + 5 * i \in 0..(d - 1)
    BY <1>1, <1>3
  <2>. QED  BY <1>1, <1>2, <2>1, LetrasQuedan
<1>. HIDE DEF o
<1>5. EnteroEn(otra, o, seg) /\ EnteroEn(otra, o + 4, l.pc)
  <2>1. EnteroEn(otra, o, seg)
    BY <1>2, <1>3, EnteroQueda
  <2>2. o + 4 \in Nat /\ (o + 4) + 4 <= d
    BY <1>3
  <2>3. EnteroEn(otra, o + 4, l.pc)
    BY <1>2, <2>2, EnteroQueda
  <2>. QED  BY <2>1, <2>3
<1>6. ASSUME l.con PROVE \E j \in 0..(l.contexto - 1) : EnteroEn(otra, o + 8, 5 * j)
  <2>1. PICK j \in 0..(l.contexto - 1) : EnteroEn(mem, o + 8, 5 * j)
    BY <1>2, <1>6
  <2>2. o + 8 \in Nat /\ (o + 8) + 4 <= d
    BY <1>3, <1>6
  <2>3. EnteroEn(otra, o + 8, 5 * j)
    BY <2>1, <2>2, EnteroQueda
  <2>. QED  BY <2>3
<1>. QED  BY <1>4, <1>5, <1>6 DEF Cabecera1, o

\* The context is well if neither the letters nor what a call saved change.
LEMMA ContextosQuedan ==
  ASSUME Tipos, Contextos, UNCHANGED <<seg, cursor, llamadas>>, contexto' \in Nat,
         Fondo' <= Tamanio, LetrasEn(pila', Distancia, contexto'),
         \A a \in 0..(Distancia - 1) : pila'[a] = pila[a]
  PROVE  Contextos'
<1>1. Distancia' = Distancia /\ Distancia \in Nat /\ Distancia = cursor - seg
  BY Lugares DEF Distancia
<1>2. ASSUME llamadas # <<>> PROVE Cabecera1(pila, llamadas[1])'
  <2>1. /\ llamadas[1] \in Llamada
        /\ 5 * llamadas[1].contexto + (IF llamadas[1].con THEN 12 ELSE 8) <= Distancia
        /\ Cabecera1(pila, llamadas[1])
    <3>1. llamadas[1] \in Llamada
      BY <1>2 DEF Tipos
    <3>2. llamadas[1].contexto \in Nat
      BY <3>1 DEF Llamada
    <3>3. /\ cursor = seg + 5 * llamadas[1].contexto + (IF llamadas[1].con THEN 12 ELSE 8)
          /\ Cabecera1(pila, llamadas[1])
      BY <1>2 DEF Contextos
    <3>4. seg \in Int
      BY Lugares, Constantes DEF Enteros
    <3>5. \A e \in {8, 12} : cursor = seg + 5 * llamadas[1].contexto + e
                            => 5 * llamadas[1].contexto + e <= Distancia
      BY <1>1, <3>2, <3>4
    <3>6. (IF llamadas[1].con THEN 12 ELSE 8) \in {8, 12}
      OBVIOUS
    <3>. QED  BY <3>1, <3>3, <3>5, <3>6
  <2>2. Cabecera1(pila', llamadas[1])
    BY <1>1, <2>1, CabeceraQueda
  <2>. QED  BY <2>2 DEF Cabecera1, LetrasEn
<1>3. LetrasEn(pila, Distancia, contexto)'
  BY <1>1 DEF LetrasEn
<1>4. /\ cursor >= seg /\ (llamadas = <<>> => cursor = seg)
      /\ llamadas # <<>> =>
       /\ Len(llamadas) = 1 /\ llamadas[1].cursor = seg
       /\ cursor = seg + 5 * llamadas[1].contexto + (IF llamadas[1].con THEN 12 ELSE 8)
  BY DEF Contextos
<1>. QED  BY <1>2, <1>3, <1>4, Zenon DEF Contextos

\* A name is not taken for -1, and an int is when its low byte is 0xFF.
LEMMA NombreNoEsMenosUno ==
  \A x : \A mal \in MenosUno(Letra(x)) : ~mal
BY DEF MenosUno, Letra

LEMMA EnteroMenosUno ==
  ASSUME NEW v \in Enteros, NEW mal \in MenosUno(<<"entero", v, 0>>), mal
  PROVE  v % Byte = Byte - 1
<1>1. v \in Nat
  BY Constantes DEF Enteros
<1>2. MenosUno(<<"entero", v, 0>>) = {(v \div Peso[0 + 1]) % Byte = Byte - 1}
  BY DEF MenosUno
<1>3. Peso[0 + 1] = 1
  BY DEF Peso
<1>4. v \div 1 = v
  BY <1>1
<1>. QED  BY <1>2, <1>3, <1>4

LEMMA LeidoEs ==
  ASSUME NEW mem, NEW o \in Nat, NEW v, EnteroEn(mem, o, v)
  PROVE  Leido(mem, o) = {v} /\ mem[o] = <<"entero", v, 0>>
<1>1. mem[o + 1 - 1] = Entero(v)[1] /\ o + 1 - 1 = o
  BY DEF EnteroEn
<1>2. Entero(v)[1] = <<"entero", v, 0>>
  BY DEF Entero
<1>3. mem[o] = <<"entero", v, 0>>
  BY <1>1, <1>2
<1>4. mem[o][1] = "entero" /\ mem[o][2] = v
  BY <1>3
<1>5. \A i \in 1..4 : mem[o + i - 1] = Entero(mem[o][2])[i]
  BY <1>4 DEF EnteroEn
<1>. QED  BY <1>3, <1>4, <1>5 DEF Leido

\* The first letter of a context is read when the dictionary is rebuilt.
LEMMA PrimeraLetra ==
  ASSUME NEW mem, NEW o \in Nat, NEW n \in Nat, n > 0, LetrasEn(mem, o, n)
  PROVE  \A mal \in MenosUno(mem[o]) : ~mal
<1>1. 0 \in 0..(n - 1) /\ o + 5 * 0 = o
  OBVIOUS
<1>2. PICK x \in Nombres : mem[o] = Letra(x)
  BY <1>1 DEF LetrasEn
<1>. QED  BY <1>2, NombreNoEsMenosUno

\* The dictionary of a context that is well can be rebuilt.
LEMMA RecreaBien ==
  ASSUME NEW mem \in [0..(Tamanio - 1) -> Celdas], NEW c \in Enteros, seg \in Enteros,
         NEW n \in Nat, 5 * n < Limite, NEW op, NEW r \in BOOLEAN, Resta(c, seg) \in Nat,
         RecrearDiccionario(mem, c, n, op, r), LetrasEn(mem, Resta(c, seg), n)
  PROVE  /\ operacion' # "ERROR" => dic' = Rehecho(mem, c, n)
         /\ operacion' = "ERROR" => op = "ERROR" \/ rechazo'
BY RecreaEs, PrimeraLetra

LEMMA PasoQuieto ==
  ASSUME Tipos, Contextos, Fiel, UNCHANGED <<seg, cursor, contexto, pila, dic, llamadas>>,
         fase' \in {"corre", "linea"} => fase \in {"corre", "linea"}
  PROVE  Contextos' /\ Fiel'
<1>1. Contextos'
  BY DEF Contextos, Fondo, Distancia, Cabecera1, LetrasEn
<1>. QED  BY <1>1 DEF Fiel, Rehecho

LEMMA PasoRecibir == ASSUME Tipos, Contextos, Fiel, RecibirPCB PROVE Bien'
<1>1. /\ RecrearDiccionario(pila, cursor, contexto, "SUCCESS", rechazo)
      /\ UNCHANGED <<pcb, pila, propias, llamadas, anidada>>
  BY DEF RecibirPCB
<1>2. Contextos'
  BY <1>1 DEF Contextos, Fondo, Distancia, Cabecera1, LetrasEn, pcb
<1>3. /\ cursor \in Enteros /\ seg \in Enteros /\ contexto \in Nat /\ 5 * contexto < Limite
      /\ Resta(cursor, seg) \in Nat
  BY Lugares, Constantes DEF Distancia
<1>4. LetrasEn(pila, Resta(cursor, seg), contexto)
  BY DEF Contextos, Distancia
<1>5. pila \in [0..(Tamanio - 1) -> Celdas] /\ rechazo \in BOOLEAN
  BY DEF Tipos, TypeOK
<1>6. /\ operacion' # "ERROR" => dic' = Rehecho(pila, cursor, contexto)
      /\ operacion' = "ERROR" => rechazo'
  BY <1>1, <1>3, <1>4, <1>5, RecreaBien
<1>7. operacion' # "ERROR" => Fiel'
  BY <1>1, <1>6 DEF Fiel, Rehecho, pcb
<1>. QED  BY <1>2, <1>6, <1>7 DEF Bien, Justo

LEMMA PasoLazo ==
  ASSUME Tipos, Contextos, Fiel, operacion # "ERROR",
         \/ ObtenerSentencia \/ OtraVuelta \/ CambioContexto \/ FinalizarPrograma
         \/ \E l \in Etiquetas : IrALabel(l)
  PROVE  Bien'
<1>1. CASE ObtenerSentencia
  <2>1. /\ fase = "corre"
        /\ UNCHANGED <<seg, cursor, contexto, pila, dic, propias, llamadas, anidada>>
    BY <1>1 DEF ObtenerSentencia
  <2>2. Contextos' /\ Fiel'
    BY <2>1, PasoQuieto
  <2>3. ASSUME operacion' = "ERROR"
        PROVE  rechazo' \/ \E i \in DOMAIN Instrucciones : Instrucciones[i] % Byte = Byte - 1
    BY <1>1, <2>3 DEF ObtenerSentencia, Rechaza
  <2>. QED  BY <2>2, <2>3 DEF Bien, Justo
<1>2. CASE CambioContexto
  <2>1. /\ UNCHANGED <<seg, cursor, contexto, pila, operacion, llamadas>>
        /\ fase' \notin {"corre", "linea"}
    BY <1>2 DEF CambioContexto, pcb, historia
  <2>2. Contextos'
    BY <2>1 DEF Contextos, Fondo, Distancia, Cabecera1, LetrasEn
  <2>. QED  BY <2>1, <2>2 DEF Bien, Fiel
<1>3. CASE OtraVuelta \/ FinalizarPrograma \/ \E l \in Etiquetas : IrALabel(l)
  <2>1. /\ UNCHANGED <<seg, cursor, contexto, pila, dic, llamadas>> /\ operacion' # "ERROR"
        /\ fase' \in {"corre", "linea"} => fase \in {"corre", "linea"}
    BY <1>3 DEF OtraVuelta, FinalizarPrograma, EnFin, EnLinea, IrALabel, pcb, historia
  <2>2. Contextos' /\ Fiel'
    BY <2>1, PasoQuieto
  <2>. QED  BY <2>1, <2>2 DEF Bien
<1>. QED  BY <1>1, <1>2, <1>3

LEMMA PasoSinVariable ==
  ASSUME Tipos, Contextos, Fiel, operacion # "ERROR", NEW n, SinVariable(n) PROVE Bien'
<1>1. /\ UNCHANGED <<seg, cursor, contexto, pila, dic, llamadas>> /\ operacion' # "ERROR"
      /\ fase' = "caida"
  BY DEF SinVariable, pcb, historia
<1>2. Contextos' /\ Fiel'
  BY <1>1, PasoQuieto
<1>. QED  BY <1>1, <1>2 DEF Bien

\* A variable of the dictionary is one of the running context.
LEMMA LugarDeVariable ==
  ASSUME Tipos, Contextos, Fiel, fase = "linea", NEW n \in DOMAIN dic
  PROVE  \E i \in 0..(contexto - 1) : dic[n] = Distancia + 5 * i /\ pila[dic[n]] = Letra(n)
<1>1. dic = Rehecho(pila, cursor, contexto)
  BY DEF Fiel
<1>2. EsDiccionario(dic, pila, Distancia, contexto)
  BY <1>1, RehechoEs DEF Tipos, Distancia
<1>. QED  BY <1>2 DEF EsDiccionario

LEMMA PasoDereferencia ==
  ASSUME Tipos, Contextos, Fiel, operacion # "ERROR", NEW n \in Nombres, Dereferencia(n)
  PROVE  Bien'
<1>1. CASE SinVariable(n)
  BY <1>1, PasoSinVariable
<1>2. CASE /\ n \in DOMAIN dic
           /\ IF SePuedeLeer(dic[n], 5)
                THEN /\ \E mal \in MenosUno(pila[dic[n]]) :
                          operacion' = IF mal THEN "ERROR" ELSE operacion
                     /\ UNCHANGED rechazo
                ELSE Rechaza
           /\ UNCHANGED <<pcb, pila, dic, fase, propias, llamadas, anidada>>
  <2>1. Contextos' /\ Fiel'
    BY <1>2, PasoQuieto DEF pcb
  <2>2. fase = "linea"
    BY DEF Dereferencia, EnLinea
  <2>3. \A mal \in MenosUno(pila[dic[n]]) : ~mal
    BY <1>2, <2>2, LugarDeVariable, NombreNoEsMenosUno
  <2>4. operacion' = "ERROR" => rechazo'
    BY <1>2, <2>3 DEF Rechaza
  <2>. QED  BY <2>1, <2>4 DEF Bien, Justo
<1>. QED  BY <1>1, <1>2 DEF Dereferencia

-----------------------------------------------------------------------------
(* What a step writes                                                      *)

LEMMA PasoDefinir ==
  ASSUME Tipos, Contextos, Fiel, operacion # "ERROR", NEW n \in Nombres, DefinirVariable(n)
  PROVE  Bien'
<1>. DEFINE o == Suma(Distancia, 5 * contexto)
<1>1. /\ EnLinea /\ UNCHANGED <<seg, cursor, fase, llamadas>>
      /\ IF SePuedeEscribir(o, 5)
           THEN /\ pila' = Escrita(o, NuevaVariable(n))
                /\ dic' = [x \in DOMAIN dic \cup {n} |-> IF x = n THEN o ELSE dic[x]]
                /\ contexto' = contexto + 1
           ELSE Rechaza
  BY DEF DefinirVariable, Distancia
<1>2. CASE ~SePuedeEscribir(o, 5)
  BY <1>1, <1>2 DEF Bien, Justo, Rechaza, Refuta
<1>3. CASE SePuedeEscribir(o, 5)
  <2>1. /\ o = Fondo /\ o \in 0..Tamanio /\ Fondo = Distancia + 5 * contexto
        /\ Distancia \in Nat /\ contexto \in Nat /\ Distancia \in 0..Tamanio
    BY Lugares
  <2>2. o + 5 <= Tamanio
    BY <1>3, <2>1, Constantes DEF SePuedeEscribir, Suma
  <2>3. /\ \A a \in 0..(o - 1) : pila'[a] = pila[a]
        /\ pila'[o] = Letra(n)
    <3>1. /\ pila \in [0..(Tamanio - 1) -> Celdas] /\ o \in 0..Limite
          /\ NuevaVariable(n) \in Seq(Celdas) /\ Len(NuevaVariable(n)) = 5
          /\ NuevaVariable(n)[1] = Letra(n)
      BY <2>1, Constantes, NuevaTipo DEF Tipos
    <3>2. pila' = Escrita(o, NuevaVariable(n))
      BY <1>1, <1>3
    <3>3. \A a \in 0..(Tamanio - 1) :
              /\ a < o /\ o + 5 <= Limite => pila'[a] = pila[a]
              /\ a >= o /\ a < o + 5 => pila'[a] = NuevaVariable(n)[a - o + 1]
      BY <3>1, <3>2, EscritaEs
    <3>4. /\ o + 5 <= Limite /\ o \in 0..(Tamanio - 1) /\ o - o + 1 = 1
          /\ \A a \in 0..(o - 1) : a \in 0..(Tamanio - 1) /\ a < o
      BY <2>1, <2>2, Constantes
    <3>5. pila'[o] = NuevaVariable(n)[o - o + 1]
      BY <3>3, <3>4
    <3>. QED  BY <3>1, <3>3, <3>4, <3>5
  <2>. HIDE DEF o
  <2>4. \A i \in 0..(contexto - 1) : Distancia + 5 * i \in 0..(o - 1)
    BY <2>1
  <2>5. LetrasEn(pila', Distancia, contexto + 1)
    <3>1. \A i \in 0..(contexto - 1) : \E x \in Nombres : pila'[Distancia + 5 * i] = Letra(x)
      BY <2>3, <2>4 DEF Contextos, LetrasEn
    <3>2. \A i \in 0..((contexto + 1) - 1) : i = contexto \/ i \in 0..(contexto - 1)
      BY <2>1
    <3>. QED  BY <2>1, <2>3, <3>1, <3>2 DEF LetrasEn
  <2>6. Contextos'
    <3>1. contexto' = contexto + 1
      BY <1>1, <1>3 DEF o
    <3>2. Fondo' <= Tamanio
      BY <1>1, <2>1, <2>2, <3>1 DEF Fondo, Distancia
    <3>3. \A a \in 0..(Distancia - 1) : pila'[a] = pila[a]
      <4>1. \A a \in 0..(Distancia - 1) : a \in 0..(o - 1)
        BY <2>1
      <4>. QED  BY <2>3, <4>1
    <3>. QED  BY <1>1, <2>1, <2>5, <3>1, <3>2, <3>3, ContextosQuedan
  <2>7. Fiel'
    <3>1. dic = Rehecho(pila, cursor, contexto)
      BY <1>1 DEF Fiel, EnLinea
    <3>2. Rehecho(pila', cursor, contexto + 1) =
            [x \in DOMAIN Rehecho(pila, cursor, contexto) \cup {n} |->
              IF x = n THEN Resta(cursor, seg) + 5 * contexto
                       ELSE Rehecho(pila, cursor, contexto)[x]]
      <4>1. /\ Resta(cursor, seg) = Distancia /\ Resta(cursor, seg) \in Nat
            /\ Resta(cursor, seg) + 5 * contexto = o
        BY <2>1 DEF Distancia
      <4>2. \A i \in 0..(contexto - 1) :
              pila'[Resta(cursor, seg) + 5 * i] = pila[Resta(cursor, seg) + 5 * i]
        BY <2>3, <2>4, <4>1
      <4>3. pila'[Resta(cursor, seg) + 5 * contexto] = Letra(n)
        BY <2>3, <4>1
      <4>. QED  BY <2>1, <4>1, <4>2, <4>3, RehechoConOtra
    <3>3. Resta(cursor, seg) + 5 * contexto = o
      BY <2>1 DEF Distancia
    <3>4. dic' = Rehecho(pila', cursor, contexto + 1)
      BY <1>1, <1>3, <3>1, <3>2, <3>3 DEF o
    <3>5. contexto' = contexto + 1
      BY <1>1, <1>3 DEF o
    <3>. QED  BY <1>1, <3>4, <3>5 DEF Fiel, Rehecho
  <2>8. operacion' = "ERROR" => Justo'
    BY <1>3 DEF DefinirVariable, EnLinea, Distancia, o
  <2>. QED  BY <2>6, <2>7, <2>8 DEF Bien
<1>. QED  BY <1>2, <1>3

\* The bytes of a variable are after its name and before the next name.
LEMMA EntreLetras ==
  ASSUME NEW o \in Nat, NEW i \in Nat, NEW j \in Nat
  PROVE  o + 5 * j < o + 5 * i + 1 \/ o + 5 * j >= o + 5 * i + 1 + 4
OBVIOUS

LEMMA ValorEscrito ==
  ASSUME pila \in [0..(Tamanio - 1) -> Celdas], NEW o \in Nat, NEW n \in Nat,
         NEW i \in 0..(n - 1), NEW v \in Enteros, o + 5 * i + 5 <= Tamanio, o + 5 * n <= Tamanio
  PROVE  /\ \A j \in 0..(n - 1) : Escrita(o + 5 * i + 1, Entero(v))[o + 5 * j] = pila[o + 5 * j]
         /\ \A a \in 0..(o - 1) : Escrita(o + 5 * i + 1, Entero(v))[a] = pila[a]
<1>. DEFINE d == o + 5 * i + 1
<1>1. d \in 0..Limite /\ d + 4 <= Limite /\ d > o
  BY Constantes
<1>2. Entero(v) \in Seq(Celdas) /\ Len(Entero(v)) = 4
  BY EnteroTipo
<1>3. \A a \in 0..(Tamanio - 1) : /\ a < d => Escrita(d, Entero(v))[a] = pila[a]
                                  /\ a >= d + 4 => Escrita(d, Entero(v))[a] = pila[a]
  BY <1>1, <1>2, EscritaEs
<1>4. ASSUME NEW j \in 0..(n - 1)
      PROVE  o + 5 * j \in 0..(Tamanio - 1) /\ (o + 5 * j < d \/ o + 5 * j >= d + 4)
  <2>1. j \in Nat /\ i \in Nat
    OBVIOUS
  <2>2. o + 5 * j < d \/ o + 5 * j >= d + 4
    BY <2>1, EntreLetras
  <2>3. o + 5 * j \in 0..(Tamanio - 1)
    BY Constantes
  <2>. QED  BY <2>2, <2>3
<1>5. \A a \in 0..(o - 1) : a \in 0..(Tamanio - 1) /\ a < d
  BY <1>1, Constantes
<1>. QED  BY <1>3, <1>4, <1>5

LEMMA PasoAsignacion ==
  ASSUME Tipos, Contextos, Fiel, operacion # "ERROR", NEW n \in Nombres, NEW v \in Valores,
         Asignacion(n, v)
  PROVE  Bien'
<1>1. CASE SinVariable(n)
  BY <1>1, PasoSinVariable
<1>2. CASE /\ n \in DOMAIN dic
           /\ Asignar(dic[n], v)
           /\ IF SePuedeEscribir(dic[n] + 1, 4) THEN UNCHANGED <<operacion, rechazo>>
                                                ELSE Rechaza
           /\ UNCHANGED <<pcb, dic, fase, propias, llamadas, anidada>>
  <2>1. CASE ~SePuedeEscribir(dic[n] + 1, 4)
    BY <1>2, <2>1 DEF Bien, Justo, Rechaza, Refuta
  <2>2. CASE SePuedeEscribir(dic[n] + 1, 4)
    <3>1. fase = "linea"
      BY DEF Asignacion, EnLinea
    <3>2. PICK i \in 0..(contexto - 1) : dic[n] = Distancia + 5 * i
      BY <1>2, <3>1, LugarDeVariable
    <3>3. /\ Distancia \in Nat /\ contexto \in Nat /\ Distancia + 5 * contexto <= Tamanio
          /\ Distancia + 5 * i + 5 <= Tamanio /\ v \in Enteros
          /\ pila \in [0..(Tamanio - 1) -> Celdas]
      BY Lugares, Constantes DEF Tipos
    <3>4. pila' = Escrita(Distancia + 5 * i + 1, Entero(v))
      BY <1>2, <2>2, <3>2 DEF Asignar
    <3>5. /\ \A j \in 0..(contexto - 1) : pila'[Distancia + 5 * j] = pila[Distancia + 5 * j]
          /\ \A a \in 0..(Distancia - 1) : pila'[a] = pila[a]
      BY <3>3, <3>4, ValorEscrito
    <3>6. UNCHANGED <<seg, cursor, contexto, dic, fase, llamadas, operacion>>
      BY <1>2, <2>2 DEF pcb
    <3>7. Contextos'
      <4>1. LetrasEn(pila', Distancia, contexto)
        BY <3>3, <3>5, LetrasQuedan DEF Contextos
      <4>2. Fondo' <= Tamanio
        BY <3>6 DEF Fondo, Distancia, Contextos
      <4>. QED  BY <3>3, <3>5, <3>6, <4>1, <4>2, ContextosQuedan
    <3>8. Rehecho(pila', cursor, contexto) = Rehecho(pila, cursor, contexto)
      <4>. DEFINE otra == pila'
                  c == cursor
                  n1 == contexto
      <4>1. Resta(c, seg) \in Nat /\ n1 \in Nat
        BY <3>3 DEF Distancia
      <4>2. \A j \in 0..(n1 - 1) : otra[Resta(c, seg) + 5 * j] = pila[Resta(c, seg) + 5 * j]
        BY <3>5 DEF Distancia
      <4>. HIDE DEF otra, c, n1
      <4>3. Concuerdan(pila, otra, Resta(c, seg), n1)
        BY <4>2 DEF Concuerdan
      <4>4. Rehecho(otra, c, n1) = Rehecho(pila, c, n1)
        BY <4>1, <4>3, RehechoIgual
      <4>. QED  BY <4>4 DEF otra, c, n1
    <3>9. Fiel'
      <4>1. Rehecho(pila, cursor, contexto)' = Rehecho(pila', cursor, contexto)
        BY <3>6 DEF Rehecho
      <4>2. dic' = Rehecho(pila, cursor, contexto)
        BY <3>1, <3>6 DEF Fiel
      <4>. QED  BY <3>8, <4>1, <4>2 DEF Fiel
    <3>. QED  BY <3>6, <3>7, <3>9 DEF Bien
  <2>. QED  BY <2>1, <2>2
<1>. QED  BY <1>1, <1>2 DEF Asignacion

-----------------------------------------------------------------------------
(* A call from the only context                                            *)

LEMMA PegadoEs ==
  ASSUME NEW S, NEW s \in Seq(S), NEW r \in Seq(S)
  PROVE  /\ \A i \in 1..Len(s) : (s \o r)[i] = s[i]
         /\ \A i \in 1..Len(r) : (s \o r)[Len(s) + i] = r[i]
<1>1. \A i \in 1..(Len(s) + Len(r)) : (s \o r)[i] = IF i <= Len(s) THEN s[i] ELSE r[i - Len(s)]
  BY ConcatProperties, Zenon
<1>2. Len(s) \in Nat /\ Len(r) \in Nat
  OBVIOUS
<1>3. ASSUME NEW i \in 1..Len(r)
      PROVE  Len(s) + i \in 1..(Len(s) + Len(r)) /\ ~(Len(s) + i <= Len(s))
             /\ (Len(s) + i) - Len(s) = i
  <2>. DEFINE a == Len(s)
              b == Len(r)
  <2>1. a \in Nat /\ b \in Nat /\ i \in 1..b
    BY <1>2
  <2>. HIDE DEF a, b
  <2>2. a + i \in 1..(a + b) /\ ~(a + i <= a) /\ (a + i) - a = i
    BY <2>1
  <2>. QED  BY <2>2 DEF a, b
<1>4. \A i \in 1..Len(s) : i \in 1..(Len(s) + Len(r)) /\ i <= Len(s)
  <2>. DEFINE a == Len(s)
              b == Len(r)
  <2>1. a \in Nat /\ b \in Nat
    BY <1>2
  <2>. HIDE DEF a, b
  <2>2. \A i \in 1..a : i \in 1..(a + b) /\ i <= a
    BY <2>1
  <2>. QED  BY <2>2 DEF a, b
<1>. QED  BY <1>1, <1>3, <1>4, Zenon

\* The ints that a call saves, one after the other.
LEMMA DatosSon ==
  ASSUME NEW a \in Enteros, NEW b \in Enteros
  PROVE  \A i \in 1..4 : /\ (Entero(a) \o Entero(b))[i] = Entero(a)[i]
                         /\ (Entero(a) \o Entero(b))[4 + i] = Entero(b)[i]
<1>. DEFINE s == Entero(a)
            r == Entero(b)
<1>0. Len(s) = 4 /\ Len(r) = 4
  BY EnteroTipo
<1>1. s \in Seq(Celdas) /\ r \in Seq(Celdas)
  BY EnteroTipo
<1>. HIDE DEF s, r
<1>2. \A i \in 1..Len(s) : (s \o r)[i] = s[i]
  BY <1>1, PegadoEs
<1>3. \A i \in 1..Len(r) : (s \o r)[Len(s) + i] = r[i]
  BY <1>1, PegadoEs
<1>. QED  BY <1>0, <1>2, <1>3, Zenon DEF s, r

LEMMA DatosConResultado ==
  ASSUME NEW a \in Enteros, NEW b \in Enteros, NEW c \in Enteros
  PROVE  \A i \in 1..4 : /\ (Entero(a) \o Entero(b) \o Entero(c))[i] = Entero(a)[i]
                         /\ (Entero(a) \o Entero(b) \o Entero(c))[4 + i] = Entero(b)[i]
                         /\ (Entero(a) \o Entero(b) \o Entero(c))[8 + i] = Entero(c)[i]
<1>. DEFINE s == Entero(a) \o Entero(b)
<1>1. s \in Seq(Celdas) /\ Len(s) = 8
  <2>1. /\ Entero(a) \in Seq(Celdas) /\ Len(Entero(a)) = 4
        /\ Entero(b) \in Seq(Celdas) /\ Len(Entero(b)) = 4
    BY EnteroTipo
  <2>2. \A q, r \in Seq(Celdas) : q \o r \in Seq(Celdas) /\ Len(q \o r) = Len(q) + Len(r)
    OBVIOUS
  <2>3. Len(s) = 4 + 4 /\ s \in Seq(Celdas)
    BY <2>1, <2>2, Zenon
  <2>. QED  BY <2>3
<1>2. Entero(c) \in Seq(Celdas) /\ Len(Entero(c)) = 4
  BY EnteroTipo
<1>3. \A i \in 1..4 : s[i] = Entero(a)[i] /\ s[4 + i] = Entero(b)[i]
  BY DatosSon
<1>. HIDE DEF s
<1>4. /\ \A i \in 1..8 : (s \o Entero(c))[i] = s[i]
      /\ \A i \in 1..4 : (s \o Entero(c))[8 + i] = Entero(c)[i]
  <2>1. /\ \A i \in 1..Len(s) : (s \o Entero(c))[i] = s[i]
        /\ \A i \in 1..Len(Entero(c)) : (s \o Entero(c))[Len(s) + i] = Entero(c)[i]
    <3>. DEFINE e == Entero(c)
    <3>1. s \in Seq(Celdas) /\ e \in Seq(Celdas)
      BY <1>1, <1>2
    <3>. HIDE DEF e
    <3>2. \A i \in 1..Len(s) : (s \o e)[i] = s[i]
      BY <3>1, PegadoEs
    <3>3. \A i \in 1..Len(e) : (s \o e)[Len(s) + i] = e[i]
      BY <3>1, PegadoEs
    <3>. QED  BY <3>2, <3>3 DEF e
  <2>. QED  BY <1>1, <1>2, <2>1, Zenon
<1>5. \A i \in 1..4 : i \in 1..8 /\ 4 + i \in 1..8
  OBVIOUS
<1>6. \A i \in 1..4 : /\ (s \o Entero(c))[i] = Entero(a)[i]
                      /\ (s \o Entero(c))[4 + i] = Entero(b)[i]
                      /\ (s \o Entero(c))[8 + i] = Entero(c)[i]
  BY <1>3, <1>4, <1>5
<1>. QED  BY <1>6 DEF s

Guardado(datos, con) ==
  /\ datos \in Seq(Celdas) /\ Len(datos) = IF con THEN 12 ELSE 8
  /\ \A i \in 1..4 : datos[i] = Entero(cursor)[i] /\ datos[4 + i] = Entero(pc)[i]
  /\ con => \E j \in 0..(contexto - 1) : \A i \in 1..4 :
              datos[8 + i] = Entero(Distancia + 5 * j)[i]

\* The context saved is where the return looks for it.
LEMMA PasoLlamar ==
  ASSUME Tipos, Contextos, Fiel, operacion # "ERROR", Niveles <= 2, ~anidada',
         NEW l \in Etiquetas, NEW con \in BOOLEAN, NEW datos, Guardado(datos, con),
         Llamar(l, datos, con)
  PROVE  Bien'
<1>. DEFINE o == Suma(Distancia, 5 * contexto)
            t == Len(datos)
<1>0. t = IF con THEN 12 ELSE 8
  BY DEF Guardado
<1>1. /\ UNCHANGED <<seg, fase>>
      /\ IF SePuedeEscribir(o, t)
           THEN /\ pila' = Escrita(o, datos)
                /\ cursor' = Avanzado(o, t)
                /\ contexto' = 0 /\ dic' = Ninguna
                /\ llamadas' = Append(llamadas,
                     [con |-> con, propias |-> propias, cursor |-> cursor,
                      contexto |-> contexto, pc |-> pc])
                /\ anidada' = (anidada \/ (Len(llamadas) + 1 >= Niveles
                                             /\ operacion # "ERROR"))
                /\ UNCHANGED <<operacion, rechazo>>
           ELSE Rechaza
  BY DEF Llamar, Distancia
<1>2. CASE ~SePuedeEscribir(o, t)
  BY <1>1, <1>2 DEF Bien, Justo, Rechaza, Refuta
<1>3. CASE SePuedeEscribir(o, t)
  <2>1. llamadas = <<>> /\ cursor = seg /\ Distancia = 0
    <3>1. ~(Len(llamadas) + 1 >= Niveles)
      BY <1>1, <1>3
    <3>2. Len(llamadas) \in Nat
      BY DEF Tipos
    <3>3. Len(llamadas) # 1
      BY <3>1, <3>2, Constantes
    <3>. QED  BY <3>3, Lugares, Constantes DEF Contextos, Enteros
  <2>2. /\ o = Fondo /\ o \in 0..Tamanio /\ Fondo = 5 * contexto /\ contexto \in Nat
        /\ seg \in Enteros /\ seg + Tamanio < Limite /\ seg \in Nat
    BY <2>1, Lugares, Constantes DEF Enteros
  <2>3. t \in {8, 12}
    BY <1>0
  <2>4. o + t <= Tamanio
    <3>1. SePuedeEscribir(o, t) /\ o \in 0..Tamanio
      BY <1>3, <2>2
    <3>. HIDE DEF o, t
    <3>. QED  BY <2>3, <3>1, Constantes DEF SePuedeEscribir, Suma
  <2>5. /\ \A a \in 0..(o - 1) : pila'[a] = pila[a]
        /\ \A i \in 1..t : pila'[o + i - 1] = datos[i]
    <3>1. \A a \in 0..(Tamanio - 1) :
              /\ a < o /\ o + t <= Limite => pila'[a] = pila[a]
              /\ a >= o /\ a < o + t => pila'[a] = datos[a - o + 1]
      <4>1. /\ datos \in Seq(Celdas) /\ pila \in [0..(Tamanio - 1) -> Celdas]
            /\ pila' = Escrita(o, datos)
        BY <1>1, <1>3 DEF Guardado, Tipos
      <4>2. o \in 0..Limite
        BY <2>2, Constantes
      <4>. HIDE DEF o
      <4>. QED  BY <4>1, <4>2, EscritaEs
    <3>. HIDE DEF o, t
    <3>2. /\ o + t <= Limite
          /\ \A a \in 0..(o - 1) : a \in 0..(Tamanio - 1) /\ a < o
          /\ \A i \in 1..t : /\ o + i - 1 \in 0..(Tamanio - 1) /\ o + i - 1 >= o
                             /\ o + i - 1 < o + t /\ (o + i - 1) - o + 1 = i
      BY <2>2, <2>3, <2>4, Constantes
    <3>. QED  BY <3>1, <3>2
  <2>6. cursor' = seg + o + t
    <3>1. cursor' = Suma(seg, Suma(o, t)) /\ o \in 0..Tamanio
      BY <1>1, <1>3, <2>1, <2>2 DEF Avanzado
    <3>. HIDE DEF o, t
    <3>. QED  BY <2>2, <2>3, <2>4, <3>1, Constantes DEF Suma
  <2>. DEFINE L == [con |-> con, propias |-> propias, cursor |-> cursor,
                    contexto |-> contexto, pc |-> pc]
  <2>7. Len(llamadas') = 1 /\ llamadas'[1] = L /\ llamadas' # <<>>
    <3>1. llamadas' = Append(<<>>, L)
      BY <1>1, <1>3, <2>1
    <3>. HIDE DEF L
    <3>2. llamadas' = <<L>>
      BY <3>1
    <3>. QED  BY <3>2
  <2>8. /\ L.con = con /\ L.contexto = contexto /\ L.pc = pc /\ L.cursor = seg
    BY <2>1
  <2>. HIDE DEF o, t, L
  <2>9. /\ LetrasEn(pila', 0, contexto)
        /\ EnteroEn(pila', 5 * contexto, seg) /\ EnteroEn(pila', 5 * contexto + 4, pc)
        /\ con => \E j \in 0..(contexto - 1) : EnteroEn(pila', 5 * contexto + 8, 5 * j)
    <3>1. LetrasEn(pila', 0, contexto)
      <4>1. \A i \in 0..(contexto - 1) : 0 + 5 * i \in 0..(o - 1)
        BY <2>2
      <4>2. LetrasEn(pila, 0, contexto)
        BY <2>1 DEF Contextos
      <4>. QED  BY <2>2, <2>5, <4>1, <4>2, LetrasQuedan
    <3>2. \A i \in 1..4 : /\ i \in 1..t /\ 4 + i \in 1..t
                          /\ 5 * contexto + i - 1 = o + i - 1
                          /\ (5 * contexto + 4) + i - 1 = o + (4 + i) - 1
                          /\ (5 * contexto + 8) + i - 1 = o + (8 + i) - 1
                          /\ con => 8 + i \in 1..t
      BY <1>0, <2>2, <2>3
    <3>3. \A i \in 1..4 : datos[i] = Entero(seg)[i] /\ datos[4 + i] = Entero(pc)[i]
      BY <2>1 DEF Guardado
    <3>4. EnteroEn(pila', 5 * contexto, seg)
      BY <2>5, <3>2, <3>3 DEF EnteroEn
    <3>5. EnteroEn(pila', 5 * contexto + 4, pc)
      BY <2>5, <3>2, <3>3 DEF EnteroEn
    <3>6. ASSUME con PROVE \E j \in 0..(contexto - 1) : EnteroEn(pila', 5 * contexto + 8, 5 * j)
      <4>1. PICK j \in 0..(contexto - 1) : \A i \in 1..4 :
                   datos[8 + i] = Entero(Distancia + 5 * j)[i]
        BY <3>6 DEF Guardado
      <4>2. Distancia + 5 * j = 5 * j
        BY <2>1
      <4>3. EnteroEn(pila', 5 * contexto + 8, 5 * j)
        BY <2>5, <3>2, <3>6, <4>1, <4>2 DEF EnteroEn
      <4>. QED  BY <4>3
    <3>. QED  BY <3>1, <3>4, <3>5, <3>6
  <2>10. Contextos'
    <3>1. Cabecera1(pila, llamadas[1])'
      BY <1>1, <2>7, <2>8, <2>9 DEF Cabecera1, LetrasEn
    <3>2. /\ cursor' >= seg' /\ llamadas'[1].cursor = seg'
          /\ cursor' = seg' + 5 * llamadas'[1].contexto + (IF llamadas'[1].con THEN 12 ELSE 8)
      <4>1. /\ seg' = seg /\ llamadas'[1].cursor = seg /\ llamadas'[1].contexto = contexto
            /\ llamadas'[1].con = con
        BY <1>1, <2>7, <2>8
      <4>2. cursor' = seg + 5 * contexto + t /\ cursor' >= seg
        BY <2>2, <2>3, <2>6
      <4>. QED  BY <1>0, <4>1, <4>2, Zenon
    <3>3. Fondo' <= Tamanio
      <4>1. contexto' = 0 /\ seg' = seg
        BY <1>1, <1>3 DEF o, t
      <4>2. Distancia' = o + t
        BY <2>2, <2>3, <2>6, <4>1 DEF Distancia, Resta
      <4>. QED  BY <2>2, <2>3, <2>4, <4>1, <4>2 DEF Fondo
    <3>4. LetrasEn(pila, Distancia, contexto)'
      <4>1. contexto' = 0
        BY <1>1, <1>3 DEF o, t
      <4>. QED  BY <4>1 DEF LetrasEn
    <3>. QED  BY <2>7, <3>1, <3>2, <3>3, <3>4 DEF Contextos
  <2>11. Fiel'
    <3>1. contexto' = 0 /\ dic' = Ninguna
      BY <1>1, <1>3 DEF o, t
    <3>2. \A i : i \notin 0..(0 - 1)
      OBVIOUS
    <3>3. Rehecho(pila, cursor, contexto)' = Ninguna
      BY <3>1, <3>2 DEF Rehecho, Ninguna
    <3>. QED  BY <3>1, <3>3 DEF Fiel
  <2>12. operacion' # "ERROR"
    BY <1>1, <1>3 DEF o, t
  <2>. QED  BY <2>10, <2>11, <2>12 DEF Bien
<1>. QED  BY <1>2, <1>3

LEMMA PasoLlamadas ==
  ASSUME Tipos, Contextos, Fiel, operacion # "ERROR", Niveles <= 2, ~anidada',
         NEW l \in Etiquetas,
         LlamarSinRetorno(l) \/ \E n \in Nombres : LlamarConRetorno(l, n)
  PROVE  Bien'
<1>1. cursor \in Enteros /\ pc \in Enteros /\ \A n \in DOMAIN dic : dic[n] \in Enteros
  BY DEF Tipos, TypeOK, Enteros
<1>2. CASE LlamarSinRetorno(l)
  <2>1. Guardado(Entero(cursor) \o Entero(pc), FALSE)
    BY <1>1, DatosTipo, DatosSon DEF Guardado
  <2>. QED  BY <1>2, <2>1, PasoLlamar DEF LlamarSinRetorno
<1>3. ASSUME NEW n \in Nombres, LlamarConRetorno(l, n) PROVE Bien'
  <2>1. CASE SinVariable(n)
    BY <2>1, PasoSinVariable
  <2>2. CASE n \in DOMAIN dic /\ Llamar(l, Entero(cursor) \o Entero(pc) \o Entero(dic[n]), TRUE)
    <3>1. fase = "linea"
      BY <2>2 DEF Llamar, EnLinea
    <3>2. PICK j \in 0..(contexto - 1) : dic[n] = Distancia + 5 * j
      BY <2>2, <3>1, LugarDeVariable
    <3>. DEFINE datos == Entero(cursor) \o Entero(pc) \o Entero(dic[n])
    <3>3. /\ datos \in Seq(Celdas) /\ Len(datos) = 12
          /\ \A i \in 1..4 : /\ datos[i] = Entero(cursor)[i] /\ datos[4 + i] = Entero(pc)[i]
                             /\ datos[8 + i] = Entero(Distancia + 5 * j)[i]
      <4>1. datos \in Seq(Celdas) /\ Len(datos) = 12
        BY <2>2, DatosTipo
      <4>2. \A i \in 1..4 : /\ datos[i] = Entero(cursor)[i] /\ datos[4 + i] = Entero(pc)[i]
                             /\ datos[8 + i] = Entero(dic[n])[i]
        <5>1. cursor \in Enteros /\ pc \in Enteros /\ dic[n] \in Enteros
          BY <1>1, <2>2
        <5>. DEFINE d == dic[n]
                    q == pc
                    c == cursor
        <5>2. c \in Enteros /\ q \in Enteros /\ d \in Enteros
          BY <5>1
        <5>. HIDE DEF d, q, c
        <5>3. \A i \in 1..4 : /\ (Entero(c) \o Entero(q) \o Entero(d))[i] = Entero(c)[i]
                              /\ (Entero(c) \o Entero(q) \o Entero(d))[4 + i] = Entero(q)[i]
                              /\ (Entero(c) \o Entero(q) \o Entero(d))[8 + i] = Entero(d)[i]
          BY <5>2, DatosConResultado, Zenon
        <5>. QED  BY <5>3 DEF d, q, c
      <4>. QED  BY <3>2, <4>1, <4>2
    <3>. HIDE DEF datos
    <3>4. Guardado(datos, TRUE)
      BY <3>3 DEF Guardado
    <3>5. Llamar(l, datos, TRUE)
      BY <2>2 DEF datos
    <3>. QED  BY <3>4, <3>5, PasoLlamar
  <2>. QED  BY <1>3, <2>1, <2>2 DEF LlamarConRetorno
<1>. QED  BY <1>2, <1>3

-----------------------------------------------------------------------------
(* The return to the only caller                                           *)

Gasto == IF UltimaLlamada.con THEN 12 ELSE 8

LEMMA Guardada ==
  ASSUME Tipos, Contextos, llamadas # <<>>
  PROVE  /\ Gasto \in {8, 12} /\ (Gasto = 12 <=> UltimaLlamada.con)
         /\ UltimaLlamada.contexto \in Nat /\ UltimaLlamada.cursor = seg
         /\ Resta(Resta(cursor, seg), Gasto) = 5 * UltimaLlamada.contexto
         /\ 5 * UltimaLlamada.contexto + Gasto <= Tamanio
         /\ Contadas(Gasto, seg) = UltimaLlamada.contexto
         /\ Cabecera1(pila, UltimaLlamada) /\ SubSeq(llamadas, 1, Len(llamadas) - 1) = <<>>
<1>1. llamadas \in Seq(Llamada) /\ Len(llamadas) = 1
  BY DEF Tipos, Contextos
<1>2. UltimaLlamada = llamadas[1] /\ UltimaLlamada \in Llamada
  BY <1>1 DEF UltimaLlamada
<1>3. SubSeq(llamadas, 1, Len(llamadas) - 1) = <<>>
  BY <1>1
<1>4. UltimaLlamada.contexto \in Nat /\ UltimaLlamada.con \in BOOLEAN
  BY <1>2 DEF Llamada
<1>5. Gasto \in {8, 12} /\ (Gasto = 12 <=> UltimaLlamada.con)
  BY <1>4 DEF Gasto
<1>6. /\ cursor = seg + 5 * UltimaLlamada.contexto + Gasto
      /\ UltimaLlamada.cursor = seg /\ Cabecera1(pila, UltimaLlamada)
  BY <1>2 DEF Contextos, Gasto
<1>. DEFINE k == UltimaLlamada.contexto
<1>. HIDE DEF k
<1>7. /\ k \in Nat /\ cursor = seg + 5 * k + Gasto /\ seg \in Nat
      /\ cursor \in Enteros /\ seg \in Enteros
  BY <1>4, <1>6, Lugares, Constantes DEF k, Enteros
<1>8. 5 * k + Gasto <= Tamanio
  BY <1>5, <1>7, Lugares
<1>9. Resta(cursor, seg) = 5 * k + Gasto /\ Resta(Resta(cursor, seg), Gasto) = 5 * k
  BY <1>5, <1>7 DEF Resta
<1>10. Contadas(Gasto, seg) = k
  <2>1. Resta(cursor, Gasto) = seg + 5 * k
    BY <1>5, <1>7 DEF Resta
  <2>2. Resta(seg + 5 * k, seg) = 5 * k
    BY <1>7 DEF Resta
  <2>3. (5 * k) \div 5 = k
    BY <1>7
  <2>. QED  BY <2>1, <2>2, <2>3 DEF Contadas
<1>. QED  BY <1>3, <1>4, <1>5, <1>6, <1>8, <1>9, <1>10 DEF k

\* What the return takes is what the call saved.
LEMMA LoGuardado ==
  ASSUME Tipos, Contextos, llamadas # <<>>, NEW o, o = Resta(Resta(cursor, seg), Gasto)
  PROVE  /\ Leido(pila, o) = {seg} /\ Leido(pila, o + 4) = {UltimaLlamada.pc}
         /\ pila[o] = <<"entero", seg, 0>>
         /\ UltimaLlamada.con =>
              \E j \in 0..(UltimaLlamada.contexto - 1) : Leido(pila, o + 8) = {5 * j}
         /\ LetrasEn(pila, 0, UltimaLlamada.contexto)
<1>1. /\ o = 5 * UltimaLlamada.contexto /\ o \in Nat /\ o + 4 \in Nat /\ o + 8 \in Nat
      /\ Cabecera1(pila, UltimaLlamada)
  BY Guardada
<1>2. /\ EnteroEn(pila, o, seg) /\ EnteroEn(pila, o + 4, UltimaLlamada.pc)
      /\ UltimaLlamada.con =>
           \E j \in 0..(UltimaLlamada.contexto - 1) : EnteroEn(pila, o + 8, 5 * j)
      /\ LetrasEn(pila, 0, UltimaLlamada.contexto)
  BY <1>1 DEF Cabecera1
<1>. QED  BY <1>1, <1>2, LeidoEs

\* A refusal, or 0xFF at the beginning of seg_stack.
LEMMA PasoNoRecupera ==
  ASSUME Tipos, Contextos, llamadas # <<>>, NEW r \in Recuperado(Gasto), r # "bien",
         NoRecupera(r)
  PROVE  operacion' = "ERROR" /\ Justo'
<1>. DEFINE o == Resta(Resta(cursor, seg), Gasto)
<1>1. operacion' = "ERROR" /\ rechazo' = (rechazo \/ r = "rechazo") /\ seg' = seg
  BY DEF NoRecupera, Refuta, pcb
<1>2. CASE r = "rechazo"
  BY <1>1, <1>2 DEF Justo
<1>3. CASE r # "rechazo"
  <2>1. PICK mal \in MenosUno(pila[o]) : r = IF mal THEN "error" ELSE "bien"
    BY <1>3 DEF Recuperado
  <2>2. mal
    BY <2>1
  <2>3. pila[o] = <<"entero", seg, 0>> /\ seg \in Enteros
    BY LoGuardado, Lugares
  <2>4. seg % Byte = Byte - 1
    BY <2>1, <2>2, <2>3, EnteroMenosUno
  <2>. QED  BY <1>1, <2>4 DEF Justo
<1>. QED  BY <1>2, <1>3

\* The caller's context, rebuilt, on a stack that keeps its letters.
LEMMA PasoVuelve ==
  ASSUME Tipos, Contextos, llamadas # <<>>, NEW op, NEW r \in BOOLEAN, op = "ERROR" => r,
         pila' \in [0..(Tamanio - 1) -> Celdas], cursor' = seg, UNCHANGED <<seg, fase>>,
         contexto' = UltimaLlamada.contexto, LetrasEn(pila', 0, UltimaLlamada.contexto),
         RecrearDiccionario(pila', seg, UltimaLlamada.contexto, op, r), Desapila
  PROVE  Bien'
<1>. DEFINE n == UltimaLlamada.contexto
<1>1. n \in Nat /\ 5 * n <= Tamanio /\ 5 * n < Limite /\ llamadas' = <<>>
  BY Guardada, Constantes DEF Desapila
<1>2. seg \in Enteros /\ Resta(seg, seg) = 0
  BY Lugares, Constantes DEF Resta, Enteros
<1>3. /\ operacion' # "ERROR" => dic' = Rehecho(pila', seg, n)
      /\ operacion' = "ERROR" => op = "ERROR" \/ rechazo'
      /\ r => rechazo'
  <2>1. LetrasEn(pila', Resta(seg, seg), n) /\ Resta(seg, seg) \in Nat
    BY <1>2
  <2>2. RecrearDiccionario(pila', seg, n, op, r)
    OBVIOUS
  <2>. HIDE DEF n
  <2>3. r => rechazo'
    BY <1>1, <1>2, <2>2, RecreaEs
  <2>. QED  BY <1>1, <1>2, <2>1, <2>2, <2>3, RecreaBien
<1>4. Contextos'
  <2>1. Distancia' = 0 /\ Fondo' = 5 * n
    BY <1>1, <1>2 DEF Distancia, Fondo
  <2>2. LetrasEn(pila, Distancia, contexto)'
    BY <2>1 DEF LetrasEn
  <2>3. cursor' >= seg'
    BY <1>2, Constantes DEF Enteros
  <2>. QED  BY <1>1, <2>1, <2>2, <2>3 DEF Contextos
<1>5. operacion' # "ERROR" => Fiel'
  BY <1>3 DEF Fiel, Rehecho
<1>. QED  BY <1>3, <1>4, <1>5 DEF Bien, Justo

LEMMA PasoFinalizarFuncion ==
  ASSUME Tipos, Contextos, operacion # "ERROR", FinalizarFuncion
  PROVE  /\ Bien'
         /\ Len(llamadas') < Len(llamadas) =>
              cursor' = seg /\ pc' = UltimaLlamada.pc /\ contexto' = UltimaLlamada.contexto
<1>1. llamadas # <<>> /\ ~UltimaLlamada.con /\ UNCHANGED fase
  BY DEF FinalizarFuncion, EnFin
<1>2. PICK r \in Recuperado(8) : IF r = "bien" THEN VuelveSinResultado ELSE NoRecupera(r)
  BY DEF FinalizarFuncion
<1>3. Gasto = 8
  BY <1>1 DEF Gasto
<1>4. CASE r = "bien"
  <2>. DEFINE o == Resta(Resta(cursor, seg), 8)
  <2>1. PICK c \in Leido(pila, o), p \in Leido(pila, o + 4) :
          /\ cursor' = c /\ pc' = p /\ contexto' = Contadas(8, c)
          /\ RecrearDiccionario(pila, c, Contadas(8, c), operacion, rechazo)
          /\ Desapila /\ UNCHANGED <<seg, pila>>
    BY <1>2, <1>4 DEF VuelveSinResultado
  <2>2. /\ Leido(pila, o) = {seg} /\ Leido(pila, o + 4) = {UltimaLlamada.pc}
        /\ LetrasEn(pila, 0, UltimaLlamada.contexto)
    BY <1>1, <1>3, LoGuardado
  <2>3. c = seg /\ p = UltimaLlamada.pc /\ Contadas(8, c) = UltimaLlamada.contexto
    BY <1>1, <1>3, <2>2, Guardada
  <2>4. rechazo \in BOOLEAN /\ pila' \in [0..(Tamanio - 1) -> Celdas]
    BY <2>1 DEF Tipos, TypeOK
  <2>5. RecrearDiccionario(pila', seg, UltimaLlamada.contexto, operacion, rechazo)
    BY <2>1, <2>3
  <2>. HIDE DEF o
  <2>6. Bien'
    BY <1>1, <2>1, <2>2, <2>3, <2>4, <2>5, PasoVuelve
  <2>. QED  BY <2>1, <2>3, <2>6
<1>5. CASE r # "bien"
  <2>1. NoRecupera(r) /\ UNCHANGED llamadas
    BY <1>2, <1>5 DEF NoRecupera
  <2>2. operacion' = "ERROR" /\ Justo'
    BY <1>1, <1>2, <1>3, <1>5, <2>1, PasoNoRecupera
  <2>3. ~(Len(llamadas') < Len(llamadas))
    BY <2>1 DEF Tipos
  <2>. QED  BY <2>2, <2>3 DEF Bien
<1>. QED  BY <1>4, <1>5

LEMMA PasoRetornar ==
  ASSUME Tipos, Contextos, operacion # "ERROR", NEW v \in Valores, Retornar(v)
  PROVE  /\ Bien'
         /\ Len(llamadas') < Len(llamadas) =>
              cursor' = seg /\ pc' = UltimaLlamada.pc /\ contexto' = UltimaLlamada.contexto
<1>1. llamadas # <<>> /\ UltimaLlamada.con /\ UNCHANGED fase
  BY DEF Retornar
<1>2. PICK r \in Recuperado(12) : IF r = "bien" THEN VuelveConResultado(v) ELSE NoRecupera(r)
  BY DEF Retornar
<1>3. Gasto = 12
  BY <1>1 DEF Gasto
<1>4. CASE r = "bien"
  <2>. DEFINE o == Resta(Resta(cursor, seg), 12)
              n == UltimaLlamada.contexto
  <2>1. PICK c \in Leido(pila, o), p \in Leido(pila, o + 4), d \in Leido(pila, o + 8) :
          LET entra == SePuedeEscribir(d + 1, 4)
          IN  /\ Asignar(d, v)
              /\ cursor' = c /\ pc' = p /\ contexto' = Contadas(12, c)
              /\ RecrearDiccionario(pila', c, Contadas(12, c),
                                    IF entra THEN operacion ELSE "ERROR", rechazo \/ ~entra)
              /\ Desapila /\ UNCHANGED seg
    BY <1>2, <1>4 DEF VuelveConResultado
  <2>2. /\ Leido(pila, o) = {seg} /\ Leido(pila, o + 4) = {UltimaLlamada.pc}
        /\ \E j \in 0..(n - 1) : Leido(pila, o + 8) = {5 * j}
        /\ LetrasEn(pila, 0, n)
    BY <1>1, <1>3, LoGuardado
  <2>3. PICK j \in 0..(n - 1) : d = 5 * j
    BY <2>2
  <2>4. c = seg /\ p = UltimaLlamada.pc /\ Contadas(12, c) = n
    BY <1>1, <1>3, <2>2, Guardada
  <2>5. n \in Nat /\ 5 * n + 12 <= Tamanio /\ v \in Enteros
        /\ pila \in [0..(Tamanio - 1) -> Celdas]
    BY <1>1, <1>3, Guardada, Constantes DEF Tipos
  <2>6. pila' \in [0..(Tamanio - 1) -> Celdas]
    <3>1. d \in Enteros
      BY SMTT(30), <2>3, <2>5, Constantes DEF Enteros
    <3>. QED  BY <2>1, <3>1, AsignarTipos
  <2>7. LetrasEn(pila', 0, n)
    <3>1. CASE SePuedeEscribir(d + 1, 4)
      <4>1. pila' = Escrita(0 + 5 * j + 1, Entero(v))
        BY <2>1, <2>3, <3>1 DEF Asignar
      <4>. HIDE DEF n
      <4>2. 0 + 5 * j + 5 <= Tamanio /\ 0 + 5 * n <= Tamanio /\ 0 \in Nat
        BY <2>5, Constantes
      <4>3. \A i \in 0..(n - 1) : pila'[0 + 5 * i] = pila[0 + 5 * i]
        BY <2>5, <4>1, <4>2, ValorEscrito
      <4>. QED  BY <2>2, <2>5, <4>3, LetrasQuedan
    <3>2. CASE ~SePuedeEscribir(d + 1, 4)
      BY <2>1, <2>2, <3>2 DEF Asignar
    <3>. QED  BY <3>1, <3>2
  <2>. DEFINE entra == SePuedeEscribir(d + 1, 4)
              op == IF entra THEN operacion ELSE "ERROR"
              r2 == rechazo \/ ~entra
  <2>8. RecrearDiccionario(pila', seg, n, op, r2)
    BY <2>1, <2>4
  <2>9. r2 \in BOOLEAN /\ (op = "ERROR" => r2)
    BY DEF Tipos, TypeOK
  <2>10. /\ cursor' = seg /\ UNCHANGED <<seg, fase>> /\ contexto' = n /\ Desapila
         /\ pc' = UltimaLlamada.pc
    BY <1>1, <2>1, <2>4
  <2>. HIDE DEF o, entra, op, r2
  <2>11. Bien'
    BY <1>1, <2>6, <2>7, <2>8, <2>9, <2>10, PasoVuelve
  <2>. QED  BY <2>10, <2>11
<1>5. CASE r # "bien"
  <2>1. NoRecupera(r) /\ UNCHANGED llamadas
    BY <1>2, <1>5 DEF NoRecupera
  <2>2. operacion' = "ERROR" /\ Justo'
    BY <1>1, <1>2, <1>3, <1>5, <2>1, PasoNoRecupera
  <2>3. ~(Len(llamadas') < Len(llamadas))
    BY <2>1 DEF Tipos
  <2>. QED  BY <2>2, <2>3 DEF Bien
<1>. QED  BY <1>4, <1>5

-----------------------------------------------------------------------------
(* The invariant                                                           *)

\* While no function that was called has called another: the stack is well, or
\* the program was ended by ERROR, with its reason.
UnaLlamada == ~anidada => Bien

LEMMA InitUna == Init => UnaLlamada
<1>. SUFFICES ASSUME Init PROVE UnaLlamada
  OBVIOUS
<1>1. Tipos /\ seg \in Enteros /\ cursor = seg /\ contexto = 0 /\ llamadas = <<>>
  BY InitTipos, Constantes DEF Init
<1>2. Distancia = 0 /\ Fondo = 0
  BY <1>1, Constantes DEF Distancia, Fondo, Resta, Enteros
<1>3. LetrasEn(pila, Distancia, contexto)
  BY <1>1 DEF LetrasEn
<1>4. Contextos
  BY <1>1, <1>2, <1>3, Constantes DEF Contextos, Enteros
<1>. QED  BY <1>4 DEF Init, UnaLlamada, Bien, Fiel

LEMMA NextUna ==
  ASSUME Niveles <= 2, Tipos, UnaLlamada, [Next]_vars PROVE UnaLlamada'
<1>. SUFFICES ASSUME ~anidada' PROVE Bien'
  BY DEF UnaLlamada
<1>1. ~anidada /\ Bien
  BY Dura DEF UnaLlamada
<1>2. CASE operacion = "ERROR"
  BY <1>1, <1>2, Dura DEF Bien, Justo
<1>3. CASE operacion # "ERROR"
  <2>1. Contextos /\ Fiel
    BY <1>1, <1>3 DEF Bien
  <2>2. CASE UNCHANGED vars
    <3>1. UNCHANGED <<seg, cursor, contexto, pila, dic, llamadas, fase, operacion>>
      BY <2>2 DEF vars, pcb, historia
    <3>. QED  BY <1>3, <2>1, <3>1, PasoQuieto DEF Bien
  <2>3. CASE Next
    BY <1>3, <2>1, <2>3, PasoRecibir, PasoLazo, PasoFinalizarFuncion, PasoRetornar,
       PasoLlamadas, PasoDefinir, PasoDereferencia, PasoAsignacion
       DEF Next
  <2>. QED  BY <2>2, <2>3
<1>. QED  BY <1>2, <1>3

LEMMA SpecUna == ASSUME Niveles <= 2 PROVE Spec => [](Tipos /\ UnaLlamada)
<1>1. Tipos /\ UnaLlamada /\ [Next]_vars => UnaLlamada'
  BY NextUna
<1>2. Init => UnaLlamada
  BY InitUna
<1>. QED  BY <1>1, <1>2, SpecTipos, PTL DEF Spec

\* While no function that was called has called another, the dictionary of a
\* program that runs is the one any other CPU would rebuild from its PCB and
\* its stack: whatever it defines, assigns, calls and returns, and wherever its
\* burst is cut.  (Deeper, the cursor of a call does not say where its caller
\* ends, and this fails.)
THEOREM DiccionarioFielSiempre == ASSUME Niveles <= 2 PROVE Spec => []DiccionarioFiel
<1>1. UnaLlamada => DiccionarioFiel
  BY DEF UnaLlamada, Bien, Fiel, DiccionarioFiel
<1>. QED  BY <1>1, SpecUna, PTL

\* A program is ended by ERROR only after the UMV refused something, or because
\* a byte 0xFF is taken for its -1: of seg_stack, saved by a call, or of the
\* position of a line.  Letters and the other ints are never confused with it.
THEOREM ErrorJustificadoSiempre == ASSUME Niveles <= 2 PROVE Spec => []ErrorJustificado
<1>1. UnaLlamada => ErrorJustificado
  BY DEF UnaLlamada, Bien, Justo, ErrorJustificado
<1>. QED  BY <1>1, SpecUna, PTL

\* A function called from the program itself goes back to the line after its
\* call with the variables that were there, also when the return is the step
\* that ends the program by ERROR.
THEOREM VuelveDeLaLlamada ==
  ASSUME Niveles <= 2
  PROVE  Spec => [][~anidada' /\ operacion # "ERROR" /\ Len(llamadas') < Len(llamadas) =>
                      /\ cursor' = UltimaLlamada.cursor /\ pc' = UltimaLlamada.pc
                      /\ contexto' = UltimaLlamada.contexto]_vars
<1>. DEFINE A == ~anidada' /\ operacion # "ERROR" /\ Len(llamadas') < Len(llamadas) =>
                      /\ cursor' = UltimaLlamada.cursor /\ pc' = UltimaLlamada.pc
                      /\ contexto' = UltimaLlamada.contexto
<1>1. ASSUME Tipos, UnaLlamada, [Next]_vars PROVE [A]_vars
  <2>. SUFFICES ASSUME Next, ~anidada', operacion # "ERROR", Len(llamadas') < Len(llamadas)
                PROVE  /\ cursor' = UltimaLlamada.cursor /\ pc' = UltimaLlamada.pc
                       /\ contexto' = UltimaLlamada.contexto
    BY <1>1
  <2>1. Contextos
    BY <1>1, Dura DEF UnaLlamada, Bien
  <2>2. llamadas \in Seq(Llamada) /\ ~UNCHANGED llamadas /\ llamadas # <<>>
    <3>1. llamadas \in Seq(Llamada) /\ llamadas' \in Seq(Llamada)
      BY <1>1, NextTipos DEF Tipos
    <3>. QED  BY <3>1
  <2>3. FinalizarFuncion \/ \E v \in Valores : Retornar(v)
    <3>1. ASSUME NEW l, NEW datos, NEW con, Llamar(l, datos, con) PROVE FALSE
      <4>1. llamadas' = llamadas \/ \E x : llamadas' = Append(llamadas, x)
        BY <3>1 DEF Llamar
      <4>2. \A x : Len(Append(llamadas, x)) = Len(llamadas) + 1
        BY <2>2
      <4>. QED  BY <2>2, <4>1, <4>2
    <3>. QED
      BY <2>2, <3>1
         DEF Next, RecibirPCB, ObtenerSentencia, OtraVuelta, CambioContexto, FinalizarPrograma,
             IrALabel, LlamarSinRetorno, LlamarConRetorno, SinVariable, DefinirVariable,
             Dereferencia, Asignacion, historia
  <2>4. cursor' = seg /\ pc' = UltimaLlamada.pc /\ contexto' = UltimaLlamada.contexto
    BY <1>1, <2>1, <2>3, PasoFinalizarFuncion, PasoRetornar
  <2>5. UltimaLlamada.cursor = seg
    BY <1>1, <2>1, <2>2, Guardada
  <2>. QED  BY <2>4, <2>5
<1>. QED  BY <1>1, SpecUna, PTL DEF Spec
-----------------------------------------------------------------------------
(* The stack of contexts that the bytes are                                *)

Corriente == Rehecho(pila, cursor, contexto)
Llamador == Rehecho(pila, seg, llamadas[1].contexto)

\* Every name the program has defined is in the stack, in its own context; the
\* result of a call goes to a variable of its caller.
Nombradas ==
  /\ propias = DOMAIN Corriente
  /\ llamadas # <<>> =>
       /\ llamadas[1].propias = DOMAIN Llamador
       /\ llamadas[1].con =>
            \E x \in DOMAIN Llamador : EnteroEn(pila, 5 * llamadas[1].contexto + 8, Llamador[x])
  /\ fase # "caida"
  /\ operacion = "EXIT" => fase \in {"linea", "terminada"}

ConNombres == ~anidada /\ operacion # "ERROR" => Nombradas

Corre == Estado = "corre"

\* The steps of the abstract stack, in the terms of the one of bytes.
LEMMA CorreEs ==
  Corre <=> ~anidada /\ operacion \notin {"ERROR", "EXIT"} /\ fase # "caida"
BY DEF Corre, Estado

LEMMA PasoRompe ==
  ASSUME Corre, \/ Estado' = "error"
                \/ Estado' = "rota" /\ Len(Marcos) >= Niveles
  PROVE  Abstracta!NextA
<1>1. Abstracta!RomperA
  BY DEF Abstracta!RomperA, Abstracta!Hondo, Corre
<1>. QED  BY <1>1 DEF Abstracta!NextA, Corre

LEMMA PasoIgual ==
  ASSUME \/ Estado' = Estado /\ Estado \in {"error", "rota"}
         \/ Estado' = Estado /\ Marcos' = Marcos /\ pc' = pc
  PROVE  UNCHANGED Abstracta!varsA
BY DEF Abstracta!varsA

LEMMA PasoAvanza ==
  ASSUME Corre, Corre', Marcos' = Marcos, pc' = pc + 1 PROVE Abstracta!NextA
<1>1. Abstracta!AvanzarA
  BY DEF Abstracta!AvanzarA, Corre
<1>. QED  BY <1>1 DEF Abstracta!NextA, Corre

LEMMA PasoSalta ==
  ASSUME Corre, Corre', Marcos' = Marcos, pc' \in Etiquetas PROVE Abstracta!NextA
<1>1. Abstracta!SaltarA
  BY DEF Abstracta!SaltarA, Corre
<1>. QED  BY <1>1 DEF Abstracta!NextA, Corre

LEMMA PasoTermina ==
  ASSUME Corre, Estado' = "fin", Len(Marcos) = 1, Marcos' = Marcos, pc' = pc
  PROVE  Abstracta!NextA
<1>1. Abstracta!TerminarA
  BY DEF Abstracta!TerminarA, Abstracta!Hondo, Corre
<1>. QED  BY <1>1 DEF Abstracta!NextA, Corre

\* marcos with vs as the variables of the running context
TopeCon(vs) == [Marcos EXCEPT ![Len(Marcos)].vars = vs]
VarsTope == Marcos[Len(Marcos)].vars

LEMMA PasoDefine ==
  ASSUME Corre, Corre', pc' = pc, NEW n \in Nombres,
         Marcos' = TopeCon([x \in DOMAIN VarsTope \cup {n} |->
                              IF x = n THEN Indefinido ELSE VarsTope[x]])
  PROVE  Abstracta!NextA
<1>1. Abstracta!DefinirA(n)
  BY DEF Abstracta!DefinirA, Abstracta!ConTope, Abstracta!Tope, Abstracta!Hondo, Corre,
         TopeCon, VarsTope
<1>. QED  BY <1>1 DEF Abstracta!NextA, Corre

LEMMA PasoAsigna ==
  ASSUME Corre, Corre', pc' = pc, NEW n \in Nombres, NEW v \in Valores,
         n \in DOMAIN VarsTope, Marcos' = TopeCon([VarsTope EXCEPT ![n] = v])
  PROVE  Abstracta!NextA
<1>1. Abstracta!AsignarA(n, v)
  BY DEF Abstracta!AsignarA, Abstracta!ConTope, Abstracta!Tope, Abstracta!Hondo, Corre,
         TopeCon, VarsTope
<1>. QED  BY <1>1 DEF Abstracta!NextA, Corre

LEMMA PasoLlama ==
  ASSUME Corre, Corre', pc' \in Etiquetas, Len(Marcos) < Niveles, NEW d \in Nombres \cup {Nada},
         d \in DOMAIN VarsTope \cup {Nada},
         Marcos' = Append(Marcos,
                     [vars |-> [x \in {} |-> Indefinido], vuelve |-> pc, destino |-> d])
  PROVE  Abstracta!NextA
<1>1. Abstracta!LlamarA(d)
  BY DEF Abstracta!LlamarA, Abstracta!Tope, Abstracta!Hondo, Abstracta!Vacio, Corre,
         VarsTope
<1>. QED  BY <1>1 DEF Abstracta!NextA, Corre

LEMMA ParPrimero == ASSUME NEW a, NEW b PROVE SubSeq(<<a, b>>, 1, 2 - 1) = <<a>>
<1>. DEFINE S == {a, b}
            s == <<a, b>>
            r == SubSeq(s, 1, 1)
<1>1. s \in Seq(S) /\ Len(s) = 2 /\ s[1] = a
  OBVIOUS
<1>2. \A i \in 1..1 : s[i] \in S
  BY <1>1
<1>. HIDE DEF s
<1>3. r \in Seq(S) /\ Len(r) = (IF 1 <= 1 THEN 1 - 1 + 1 ELSE 0) /\ r[1] = s[1]
  BY <1>2, SubSeqProperties
<1>. HIDE DEF r, S
<1>4. r = <<r[1]>>
  BY <1>3
<1>. QED  BY <1>1, <1>3, <1>4 DEF r, s

LEMMA PasoVuelta ==
  ASSUME Corre, Corre', NEW a, NEW b, Marcos = <<a, b>>, b.destino = Nada,
         Marcos' = <<a>>, pc' = b.vuelve
  PROVE  Abstracta!NextA
<1>1. Len(Marcos) = 2 /\ Marcos[2] = b /\ SubSeq(Marcos, 1, 2 - 1) = <<a>>
  BY ParPrimero
<1>2. Abstracta!VolverA
  BY <1>1 DEF Abstracta!VolverA, Abstracta!Tope, Abstracta!Hondo, Abstracta!Resto, Corre
<1>. QED  BY <1>2 DEF Abstracta!NextA, Corre

LEMMA PasoResultado ==
  ASSUME Corre, Corre', NEW a, NEW b, NEW v \in Valores, Marcos = <<a, b>>, b.destino # Nada,
         Marcos' = <<[a EXCEPT !.vars[b.destino] = v]>>, pc' = b.vuelve
  PROVE  Abstracta!NextA
<1>1. Len(Marcos) = 2 /\ Marcos[2] = b /\ SubSeq(Marcos, 1, 2 - 1) = <<a>>
  BY ParPrimero
<1>2. [<<a>> EXCEPT ![2 - 1].vars[b.destino] = v] = <<[a EXCEPT !.vars[b.destino] = v]>>
  <2>1. <<a>>[1] = a /\ 2 - 1 = 1
    OBVIOUS
  <2>2. \A x : [<<a>> EXCEPT ![1] = x] = <<x>>
    OBVIOUS
  <2>3. [<<a>> EXCEPT ![1].vars[b.destino] = v] = <<[a EXCEPT !.vars[b.destino] = v]>>
    OBVIOUS
  <2>. QED  BY <2>1, <2>3
<1>3. Abstracta!RetornarA(v)
  BY <1>1, <1>2
     DEF Abstracta!RetornarA, Abstracta!Tope, Abstracta!Hondo, Abstracta!Resto, Corre
<1>. QED  BY <1>3 DEF Abstracta!NextA, Corre

-----------------------------------------------------------------------------
(* The contexts that the bytes tell                                        *)

ValorEn(mem, o) ==
  IF mem[o][1] = "entero" /\ \A i \in 1..4 : mem[o + i - 1] = Entero(mem[o][2])[i]
    THEN mem[o][2] ELSE Indefinido

VariablesEn(mem, d) == [n \in DOMAIN d |-> ValorEn(mem, d[n] + 1)]

MarcoEn(mem, d, p, n) == [vars |-> VariablesEn(mem, d), vuelve |-> p, destino |-> n]

\* where the result of the call in progress goes
DestinoEs(d) ==
  IF llamadas[1].con
    THEN d \in DOMAIN Llamador /\ EnteroEn(pila, 5 * llamadas[1].contexto + 8, Llamador[d])
    ELSE d = Nada

LEMMA ValorDeEntero ==
  ASSUME NEW mem, NEW o \in Nat, NEW v, EnteroEn(mem, o, v) PROVE ValorEn(mem, o) = v
<1>1. mem[o] = <<"entero", v, 0>>
  BY LeidoEs
<1>2. mem[o][1] = "entero" /\ mem[o][2] = v
  BY <1>1
<1>. QED  BY <1>2 DEF EnteroEn, ValorEn

LEMMA ValorIgual ==
  ASSUME NEW mem, NEW otra, NEW o \in Nat, \A a \in o..(o + 3) : otra[a] = mem[a]
  PROVE  ValorEn(otra, o) = ValorEn(mem, o)
<1>1. \A i \in 1..4 : o + i - 1 \in o..(o + 3)
  OBVIOUS
<1>2. o \in o..(o + 3)
  OBVIOUS
<1>. QED  BY <1>1, <1>2 DEF ValorEn

LEMMA MarcoEs == \A d, p, n : Marco(d, p, n) = MarcoEn(pila, d, p, n)
BY DEF Marco, MarcoEn, Variables, VariablesEn, Valor, ValorEn

\* The variables of a context that is well are in the stack, each at its letter.
LEMMA LugarEnContexto ==
  ASSUME NEW mem, NEW c, NEW n \in Nat, NEW x \in DOMAIN Rehecho(mem, c, n)
  PROVE  /\ x \in Nombres
         /\ \E i \in 0..(n - 1) : /\ Rehecho(mem, c, n)[x] = Resta(c, seg) + 5 * i
                                  /\ mem[Rehecho(mem, c, n)[x]] = Letra(x)
BY RehechoEs DEF EsDiccionario

LEMMA EnCursoEs == Fiel => EnCurso = Corriente
BY DEF Fiel, EnCurso, Corriente

LEMMA MarcosUno ==
  Fiel /\ llamadas = <<>> => Marcos = <<MarcoEn(pila, Corriente, 0, Nada)>>
BY EnCursoEs, MarcoEs DEF Marcos

\* What the call in progress saved, read as ints.
LEMMA LlamadorGuardado ==
  Tipos /\ Contextos /\ llamadas # <<>> =>
    /\ UltimaLlamada = llamadas[1] /\ llamadas[1] \in Llamada /\ llamadas[1].contexto \in Nat
    /\ Cabecera = 5 * llamadas[1].contexto /\ seg \in Nat /\ Resta(seg, seg) = 0
    /\ Valor(Cabecera) = seg /\ Valor(Cabecera + 4) = llamadas[1].pc
    /\ 5 * llamadas[1].contexto + (IF llamadas[1].con THEN 12 ELSE 8) = Distancia
<1>. SUFFICES ASSUME Tipos, Contextos, llamadas # <<>>
              PROVE  /\ UltimaLlamada = llamadas[1] /\ llamadas[1] \in Llamada
                     /\ llamadas[1].contexto \in Nat
                     /\ Cabecera = 5 * llamadas[1].contexto /\ seg \in Nat
                     /\ Resta(seg, seg) = 0
                     /\ Valor(Cabecera) = seg /\ Valor(Cabecera + 4) = llamadas[1].pc
                     /\ 5 * llamadas[1].contexto + (IF llamadas[1].con THEN 12 ELSE 8) = Distancia
  OBVIOUS
<1>1. /\ llamadas \in Seq(Llamada) /\ Len(llamadas) = 1
      /\ cursor = seg + 5 * llamadas[1].contexto + (IF llamadas[1].con THEN 12 ELSE 8)
      /\ Cabecera1(pila, llamadas[1])
  BY DEF Tipos, Contextos
<1>2. UltimaLlamada = llamadas[1] /\ llamadas[1] \in Llamada
  BY <1>1 DEF UltimaLlamada
<1>3. llamadas[1].contexto \in Nat /\ seg \in Nat /\ Distancia = cursor - seg
  BY <1>2, Lugares, Constantes DEF Llamada, Enteros
<1>. DEFINE k == llamadas[1].contexto
            g == IF llamadas[1].con THEN 12 ELSE 8
<1>4. k \in Nat /\ g \in {8, 12} /\ cursor = seg + 5 * k + g
  BY <1>1, <1>3
<1>5. Cabecera = cursor - seg - g
  BY <1>2 DEF Cabecera
<1>. HIDE DEF k, g
<1>6. Cabecera = 5 * k /\ 5 * k + g = Distancia /\ Resta(seg, seg) = 0
  BY <1>3, <1>4, <1>5 DEF Resta
<1>7. EnteroEn(pila, 5 * k, seg) /\ EnteroEn(pila, 5 * k + 4, llamadas[1].pc)
  BY <1>1 DEF Cabecera1, k
<1>8. ValorEn(pila, 5 * k) = seg /\ ValorEn(pila, 5 * k + 4) = llamadas[1].pc
  BY <1>4, <1>7, ValorDeEntero
<1>9. Valor(Cabecera) = seg /\ Valor(Cabecera + 4) = llamadas[1].pc
  BY <1>6, <1>8 DEF Valor, ValorEn
<1>. QED  BY <1>2, <1>3, <1>6, <1>9 DEF k, g

LEMMA MarcosDos ==
  Tipos /\ Contextos /\ Fiel /\ llamadas # <<>> =>
    \A d : DestinoEs(d) =>
      Marcos = <<MarcoEn(pila, Llamador, 0, Nada),
                 MarcoEn(pila, Corriente, llamadas[1].pc, d)>>
<1>. SUFFICES ASSUME Tipos, Contextos, Fiel, llamadas # <<>>, NEW d, DestinoEs(d)
              PROVE  Marcos = <<MarcoEn(pila, Llamador, 0, Nada),
                                MarcoEn(pila, Corriente, llamadas[1].pc, d)>>
  OBVIOUS
<1>. DEFINE k == llamadas[1].contexto
<1>1. /\ UltimaLlamada = llamadas[1] /\ k \in Nat /\ Cabecera = 5 * k /\ seg \in Nat
      /\ Resta(seg, seg) = 0 /\ Valor(Cabecera) = seg /\ Valor(Cabecera + 4) = llamadas[1].pc
  BY LlamadorGuardado
<1>2. Llamador = Rehecho(pila, seg, k)
  BY DEF Llamador
<1>3. ASSUME llamadas[1].con
      PROVE  Valor(Cabecera + 8) \in 0..Cabecera /\ pila[Valor(Cabecera + 8)][2] = d
  <2>1. d \in DOMAIN Llamador /\ EnteroEn(pila, 5 * k + 8, Llamador[d])
    BY <1>3 DEF DestinoEs
  <2>. HIDE DEF k
  <2>2. ValorEn(pila, 5 * k + 8) = Llamador[d]
    BY <1>1, <2>1, ValorDeEntero
  <2>3. Valor(Cabecera + 8) = Llamador[d]
    BY <1>1, <2>2 DEF Valor, ValorEn
  <2>4. PICK i \in 0..(k - 1) : Llamador[d] = 0 + 5 * i /\ pila[Llamador[d]] = Letra(d)
    BY <1>1, <1>2, <2>1, LugarEnContexto
  <2>5. Letra(d)[2] = d
    BY DEF Letra
  <2>. QED  BY <1>1, <2>3, <2>4, <2>5
<1>4. (5 * k - (seg - seg)) \div 5 = k
  BY <1>1
<1>5. HayLlamador
  <2>1. Cabecera >= 0 /\ seg \in seg..(seg + Cabecera)
    BY <1>1
  <2>. QED  BY <1>1, <1>3, <2>1 DEF HayLlamador
<1>6. (IF UltimaLlamada.con THEN pila[Valor(Cabecera + 8)][2] ELSE Nada) = d
  BY <1>1, <1>3 DEF DestinoEs
<1>7. Marcos = <<Marco(Rehecho(pila, seg, (Cabecera - (seg - seg)) \div 5), 0, Nada),
                 Marco(EnCurso, llamadas[1].pc, d)>>
  BY <1>1, <1>5, <1>6 DEF Marcos
<1>8. Marcos = <<Marco(Llamador, 0, Nada), Marco(Corriente, llamadas[1].pc, d)>>
  BY <1>1, <1>2, <1>4, <1>7, EnCursoEs
<1>. QED  BY <1>8, MarcoEs

LEMMA HayDestino == Nombradas /\ llamadas # <<>> => \E d : DestinoEs(d)
BY DEF Nombradas, DestinoEs

LEMMA MarcosUnoPrima ==
  Fiel' /\ llamadas' = <<>> => Marcos' = <<MarcoEn(pila', Corriente', 0, Nada)>>
<1>1. (Fiel /\ llamadas = <<>> => Marcos = <<MarcoEn(pila, Corriente, 0, Nada)>>)'
  BY MarcosUno, PTL
<1>2. MarcoEn(pila, Corriente, 0, Nada)' = MarcoEn(pila', Corriente', 0, Nada)
  BY DEF MarcoEn, VariablesEn, ValorEn
<1>. QED  BY <1>1, <1>2

LEMMA MarcosDosPrima ==
  ASSUME Tipos', Contextos', Fiel', llamadas' # <<>>, NEW x, DestinoEs(x)'
  PROVE  Marcos' = <<MarcoEn(pila', Llamador', 0, Nada),
                     MarcoEn(pila', Corriente', llamadas'[1].pc, x)>>
<1>1. (Tipos /\ Contextos /\ Fiel /\ llamadas # <<>> =>
         \A d : DestinoEs(d) =>
           Marcos = <<MarcoEn(pila, Llamador, 0, Nada),
                      MarcoEn(pila, Corriente, llamadas[1].pc, d)>>)'
  BY MarcosDos, PTL
<1>2. Marcos' = <<MarcoEn(pila, Llamador, 0, Nada)',
                  MarcoEn(pila, Corriente, llamadas[1].pc, x)'>>
  BY <1>1
<1>3. /\ MarcoEn(pila, Llamador, 0, Nada)' = MarcoEn(pila', Llamador', 0, Nada)
      /\ MarcoEn(pila, Corriente, llamadas[1].pc, x)'
           = MarcoEn(pila', Corriente', llamadas'[1].pc, x)
  BY DEF MarcoEn, VariablesEn, ValorEn
<1>. QED  BY <1>2, <1>3

\* A context whose bytes do not change has the variables it had.
LEMMA VariablesQuedan ==
  ASSUME NEW mem, NEW otra, NEW c, NEW n \in Nat, Resta(c, seg) \in Nat,
         \A a \in Resta(c, seg)..(Resta(c, seg) + 5 * n - 1) : otra[a] = mem[a]
  PROVE  /\ Rehecho(otra, c, n) = Rehecho(mem, c, n)
         /\ VariablesEn(otra, Rehecho(mem, c, n)) = VariablesEn(mem, Rehecho(mem, c, n))
<1>. DEFINE o == Resta(c, seg)
            D == Rehecho(mem, c, n)
<1>1. \A i \in 0..(n - 1) : o + 5 * i \in o..(o + 5 * n - 1)
  OBVIOUS
<1>2. Concuerdan(mem, otra, o, n)
  BY <1>1 DEF Concuerdan
<1>3. Rehecho(otra, c, n) = D
  BY <1>2, RehechoIgual
<1>4. ASSUME NEW x \in DOMAIN D PROVE ValorEn(otra, D[x] + 1) = ValorEn(mem, D[x] + 1)
  <2>1. PICK i \in 0..(n - 1) : D[x] = o + 5 * i
    BY LugarEnContexto
  <2>. HIDE DEF D, o
  <2>2. o \in Nat
    BY DEF o
  <2>3. D[x] + 1 \in Nat /\ \A a \in (D[x] + 1)..(D[x] + 1 + 3) : a \in o..(o + 5 * n - 1)
    BY <2>1, <2>2
  <2>4. \A a \in (D[x] + 1)..(D[x] + 1 + 3) : otra[a] = mem[a]
    BY <2>3 DEF o
  <2>. QED  BY <2>3, <2>4, ValorIgual
<1>. QED  BY <1>3, <1>4 DEF VariablesEn

\* The caller does not see what happens after what was saved of it.
LEMMA LlamadorQueda ==
  ASSUME Tipos, Contextos, llamadas # <<>>, UNCHANGED <<seg, llamadas>>,
         \A a \in 0..(Distancia - 1) : pila'[a] = pila[a]
  PROVE  /\ Llamador' = Llamador
         /\ VariablesEn(pila', Llamador) = VariablesEn(pila, Llamador)
         /\ \A d : DestinoEs(d) => DestinoEs(d)'
<1>. DEFINE k == llamadas[1].contexto
<1>1. /\ k \in Nat /\ Resta(seg, seg) = 0
      /\ 5 * k + (IF llamadas[1].con THEN 12 ELSE 8) = Distancia
  BY LlamadorGuardado
<1>2. Llamador = Rehecho(pila, seg, k) /\ Llamador' = Rehecho(pila', seg, k)
  BY DEF Llamador, Rehecho
<1>. HIDE DEF k
<1>3. \A a \in 0..(0 + 5 * k - 1) : a \in 0..(Distancia - 1)
  BY <1>1
<1>4. /\ Rehecho(pila', seg, k) = Rehecho(pila, seg, k)
      /\ VariablesEn(pila', Rehecho(pila, seg, k)) = VariablesEn(pila, Rehecho(pila, seg, k))
  <2>. DEFINE otra == pila'
  <2>1. \A a \in Resta(seg, seg)..(Resta(seg, seg) + 5 * k - 1) : otra[a] = pila[a]
    BY <1>1, <1>3
  <2>. HIDE DEF otra
  <2>2. Resta(seg, seg) \in Nat
    BY <1>1
  <2>3. /\ Rehecho(otra, seg, k) = Rehecho(pila, seg, k)
        /\ VariablesEn(otra, Rehecho(pila, seg, k)) = VariablesEn(pila, Rehecho(pila, seg, k))
    BY <1>1, <2>1, <2>2, VariablesQuedan
  <2>. QED  BY <2>3 DEF otra
<1>5. ASSUME NEW d, DestinoEs(d) PROVE DestinoEs(d)'
  <2>1. CASE llamadas[1].con
    <3>1. d \in DOMAIN Llamador /\ EnteroEn(pila, 5 * k + 8, Llamador[d])
      BY <1>5, <2>1 DEF DestinoEs, k
    <3>2. 5 * k + 8 \in Nat /\ 5 * k + 8 + 4 <= Distancia /\ Distancia \in Nat
      BY <1>1, <2>1
    <3>3. EnteroEn(pila', 5 * k + 8, Llamador[d])
      BY <3>1, <3>2, EnteroQueda
    <3>4. EnteroEn(pila, 5 * llamadas[1].contexto + 8, Llamador[d])'
      BY <1>2, <1>4, <3>3 DEF EnteroEn, k
    <3>. QED  BY <1>2, <1>4, <2>1, <3>1, <3>4 DEF DestinoEs
  <2>2. CASE ~llamadas[1].con
    BY <1>5, <2>2 DEF DestinoEs
  <2>. QED  BY <2>1, <2>2
<1>. QED  BY <1>2, <1>4, <1>5

LEMMA UnoODos ==
  /\ \A a : Len(<<a>>) = 1 /\ <<a>>[1] = a
  /\ \A a, b : Len(<<a, b>>) = 2 /\ <<a, b>>[2] = b
  /\ \A a, vs : [<<a>> EXCEPT ![1].vars = vs] = <<[a EXCEPT !.vars = vs]>>
  /\ \A a, b, vs : [<<a, b>> EXCEPT ![2].vars = vs] = <<a, [b EXCEPT !.vars = vs]>>
OBVIOUS

\* How many contexts there are, and the variables of the one that runs.
LEMMA TopeEs ==
  ASSUME Tipos, Contextos, Fiel, Nombradas
  PROVE  /\ Len(Marcos) = Len(llamadas) + 1 /\ Len(llamadas) \in {0, 1}
         /\ VarsTope = VariablesEn(pila, Corriente)
<1>1. CASE llamadas = <<>>
  <2>1. Marcos = <<MarcoEn(pila, Corriente, 0, Nada)>>
    BY <1>1, MarcosUno
  <2>2. Len(Marcos) = 1 /\ Marcos[1] = MarcoEn(pila, Corriente, 0, Nada)
    BY <2>1, UnoODos
  <2>. QED  BY <1>1, <2>2 DEF VarsTope, MarcoEn
<1>2. CASE llamadas # <<>>
  <2>1. PICK d : DestinoEs(d)
    BY <1>2, HayDestino
  <2>2. Marcos = <<MarcoEn(pila, Llamador, 0, Nada),
                   MarcoEn(pila, Corriente, llamadas[1].pc, d)>>
    BY <1>2, <2>1, MarcosDos
  <2>3. Len(llamadas) = 1
    BY <1>2 DEF Contextos
  <2>. QED  BY <2>2, <2>3, UnoODos DEF VarsTope, MarcoEn
<1>. QED  BY <1>1, <1>2

\* A step that keeps what is before the running context changes only it.
LEMMA TopeCambia ==
  ASSUME Tipos, Contextos, Fiel, Nombradas, Tipos', Contextos', Fiel',
         UNCHANGED <<seg, cursor, llamadas>>,
         \A a \in 0..(Distancia - 1) : pila'[a] = pila[a],
         propias' = DOMAIN Corriente', fase' # "caida",
         operacion' = "EXIT" => fase' \in {"linea", "terminada"}
  PROVE  /\ Marcos' = TopeCon(VariablesEn(pila', Corriente')) /\ Nombradas'
<1>1. CASE llamadas = <<>>
  <2>1. Marcos = <<MarcoEn(pila, Corriente, 0, Nada)>>
    BY <1>1, MarcosUno
  <2>2. Marcos' = <<MarcoEn(pila', Corriente', 0, Nada)>>
    BY <1>1, MarcosUnoPrima
  <2>3. \A vs : TopeCon(vs) = <<[MarcoEn(pila, Corriente, 0, Nada) EXCEPT !.vars = vs]>>
    BY <2>1, UnoODos DEF TopeCon
  <2>4. [MarcoEn(pila, Corriente, 0, Nada) EXCEPT !.vars = VariablesEn(pila', Corriente')]
          = MarcoEn(pila', Corriente', 0, Nada)
    BY DEF MarcoEn
  <2>. QED  BY <1>1, <2>2, <2>3, <2>4 DEF Nombradas
<1>2. CASE llamadas # <<>>
  <2>1. PICK d : DestinoEs(d)
    BY <1>2, HayDestino
  <2>2. Marcos = <<MarcoEn(pila, Llamador, 0, Nada),
                   MarcoEn(pila, Corriente, llamadas[1].pc, d)>>
    BY <1>2, <2>1, MarcosDos
  <2>3. /\ Llamador' = Llamador
        /\ VariablesEn(pila', Llamador) = VariablesEn(pila, Llamador)
        /\ DestinoEs(d)'
    BY <1>2, <2>1, LlamadorQueda
  <2>4. Marcos' = <<MarcoEn(pila', Llamador', 0, Nada),
                    MarcoEn(pila', Corriente', llamadas'[1].pc, d)>>
    BY <1>2, <2>3, MarcosDosPrima
  <2>5. MarcoEn(pila', Llamador', 0, Nada) = MarcoEn(pila, Llamador, 0, Nada)
    BY <2>3 DEF MarcoEn
  <2>6. \A vs : TopeCon(vs) = <<MarcoEn(pila, Llamador, 0, Nada),
                  [MarcoEn(pila, Corriente, llamadas[1].pc, d) EXCEPT !.vars = vs]>>
    BY <2>2, UnoODos DEF TopeCon
  <2>7. [MarcoEn(pila, Corriente, llamadas[1].pc, d)
           EXCEPT !.vars = VariablesEn(pila', Corriente')]
          = MarcoEn(pila', Corriente', llamadas[1].pc, d)
    BY DEF MarcoEn
  <2>8. Marcos' = TopeCon(VariablesEn(pila', Corriente'))
    BY <2>4, <2>5, <2>6, <2>7
  <2>9. /\ llamadas'[1].propias = DOMAIN Llamador'
        /\ llamadas'[1].con =>
            \E x \in DOMAIN Llamador' :
              EnteroEn(pila', 5 * llamadas'[1].contexto + 8, Llamador'[x])
    <3>1. llamadas[1].propias = DOMAIN Llamador
      BY <1>2 DEF Nombradas
    <3>2. llamadas'[1].con =>
            d \in DOMAIN Llamador' /\ EnteroEn(pila', 5 * llamadas'[1].contexto + 8, Llamador'[d])
      BY <2>3 DEF DestinoEs, EnteroEn
    <3>. QED  BY <2>3, <3>1, <3>2
  <2>. QED  BY <2>8, <2>9 DEF Nombradas, EnteroEn
<1>. QED  BY <1>1, <1>2

-----------------------------------------------------------------------------
(* Step by step                                                            *)

Entera == Tipos /\ Contextos /\ Fiel /\ ~anidada /\ operacion # "ERROR"

LEMMA EstadoEs ==
  ASSUME ~anidada, operacion # "ERROR", fase # "caida"
  PROVE  Estado = IF operacion = "EXIT" THEN "fin" ELSE "corre"
BY DEF Estado

LEMMA EstadoPrima ==
  ASSUME ~anidada', operacion' # "ERROR", fase' # "caida"
  PROVE  Estado' = IF operacion' = "EXIT" THEN "fin" ELSE "corre"
BY DEF Estado

\* The loop and the primitives that write nothing leave the contexts alone.
LEMMA MarcosQuietos ==
  ASSUME Entera, Nombradas, Entera', UNCHANGED <<seg, cursor, contexto, pila, llamadas, propias>>,
         fase' # "caida", operacion' = "EXIT" => fase' \in {"linea", "terminada"}
  PROVE  Marcos' = Marcos /\ Nombradas'
<1>1. Corriente' = Corriente
  BY DEF Corriente, Rehecho
<1>2. Tipos /\ Contextos /\ Fiel /\ Tipos' /\ Contextos' /\ Fiel'
  BY DEF Entera
<1>3. propias' = DOMAIN Corriente'
  BY <1>1 DEF Nombradas
<1>4. \A a \in 0..(Distancia - 1) : pila'[a] = pila[a]
  OBVIOUS
<1>5. Nombradas'
  BY <1>2, <1>3, <1>4, TopeCambia
<1>6. CASE llamadas = <<>>
  <2>1. Marcos = <<MarcoEn(pila, Corriente, 0, Nada)>>
    BY <1>2, <1>6, MarcosUno
  <2>2. Marcos' = <<MarcoEn(pila', Corriente', 0, Nada)>>
    BY <1>2, <1>6, MarcosUnoPrima
  <2>. QED  BY <1>1, <1>5, <2>1, <2>2
<1>7. CASE llamadas # <<>>
  <2>1. PICK d : DestinoEs(d)
    BY <1>7, HayDestino
  <2>2. Marcos = <<MarcoEn(pila, Llamador, 0, Nada),
                   MarcoEn(pila, Corriente, llamadas[1].pc, d)>>
    BY <1>2, <1>7, <2>1, MarcosDos
  <2>3. Llamador' = Llamador /\ DestinoEs(d)'
    BY <1>2, <1>4, <1>7, <2>1, LlamadorQueda
  <2>4. Marcos' = <<MarcoEn(pila', Llamador', 0, Nada),
                    MarcoEn(pila', Corriente', llamadas'[1].pc, d)>>
    BY <1>2, <1>7, <2>3, MarcosDosPrima
  <2>. QED  BY <1>1, <1>5, <2>2, <2>3, <2>4
<1>. QED  BY <1>6, <1>7

LEMMA RestoDe == ASSUME NEW L \in Nat, L >= 8 PROVE (8 * L - 8) % L = L - 8
<1>. DEFINE x == 8 * L - 8
            q == x \div L
            r == x % L
<1>1. x \in Nat /\ L > 0 /\ x = 7 * L + (L - 8)
  OBVIOUS
<1>2. q \in Int /\ r \in 0..(L - 1) /\ x = L * q + r
  BY <1>1
<1>. HIDE DEF x, q, r
<1>3. \A k \in Int : (k <= 6 => L * k <= L * 6) /\ (k >= 8 => L * k >= L * 8)
  OBVIOUS
<1>4. q = 7
  BY <1>1, <1>2, <1>3
<1>. QED  BY <1>1, <1>2, <1>4 DEF r, x

\* The index of the code ends before 2^32: the program counter of a line that
\* was found does not go around.
LEMMA AvanzaUno ==
  ASSUME Tipos, ObtenerSentencia, operacion' # "ERROR" PROVE pc' = pc + 1
<1>. DEFINE o == (8 * pc) % Limite
<1>1. /\ pc \in Nat /\ pc < Limite /\ Limite \in Nat /\ Limite % 8 = 0
      /\ Len(Instrucciones) \in Nat /\ DOMAIN Instrucciones = 1..Len(Instrucciones)
      /\ 8 * Len(Instrucciones) < Limite
  <2>1. pc \in 0..(Limite - 1)
    BY DEF Tipos, TypeOK
  <2>2. Instrucciones \in Seq(Nat) /\ 8 * Len(Instrucciones) < Limite
    BY InstruccionesAssumption
  <2>3. Len(Instrucciones) \in Nat /\ DOMAIN Instrucciones = 1..Len(Instrucciones)
    BY <2>2
  <2>. QED  BY <2>1, <2>2, <2>3, LimiteAssumption
<1>2. pc' = Suma(pc, 1) /\ o \div 8 + 1 \in DOMAIN Instrucciones
  BY DEF ObtenerSentencia, Rechaza, Refuta
<1>3. ASSUME pc = Limite - 1 PROVE FALSE
  <2>. DEFINE L == Limite
              K == Len(Instrucciones)
  <2>1. L \in Nat /\ L % 8 = 0 /\ L > 0 /\ 8 * pc = 8 * L - 8 /\ K \in Nat /\ 8 * K < L
    BY <1>1, <1>3
  <2>. HIDE DEF L, K
  <2>2. L >= 8 /\ 8 * K + 8 <= L
    BY <2>1
  <2>3. (8 * L - 8) % L = L - 8
    BY <2>1, <2>2, RestoDe
  <2>4. o = L - 8
    BY <2>1, <2>3 DEF L
  <2>5. (L - 8) \div 8 + 1 > K
    BY <2>1, <2>2
  <2>. QED  BY <1>1, <1>2, <2>4, <2>5 DEF K
<1>. QED  BY <1>1, <1>2, <1>3 DEF Suma

\* What is shown of each step that does not end what is promised.
Imita == (Abstracta!NextA \/ UNCHANGED Abstracta!varsA) /\ Nombradas'

LEMMA CorreAhora ==
  ASSUME Entera, Nombradas PROVE /\ operacion # "EXIT" => Corre
                                 /\ operacion = "EXIT" => Estado = "fin"
BY EstadoEs DEF Entera, Nombradas, Corre

LEMMA CorreDespues ==
  ASSUME Entera', fase' # "caida"
  PROVE  (operacion' # "EXIT" => Corre') /\ (operacion' = "EXIT" => Estado' = "fin")
BY EstadoPrima DEF Entera, Corre

LEMMA ImitaLazo ==
  ASSUME Entera, Nombradas, Entera',
         \/ RecibirPCB \/ ObtenerSentencia \/ OtraVuelta \/ CambioContexto
         \/ FinalizarPrograma \/ \E l \in Etiquetas : IrALabel(l)
  PROVE  Imita
<1>1. CASE RecibirPCB
  <2>1. /\ UNCHANGED <<seg, cursor, contexto, pila, llamadas, propias>> /\ pc' = pc
        /\ fase' # "caida" /\ operacion = "QUANTUM" /\ operacion' \in {"SUCCESS", "ERROR"}
    BY <1>1 DEF RecibirPCB, RecrearDiccionario, Rechaza, Refuta, pcb, Entera, Tipos
  <2>2. Marcos' = Marcos /\ Nombradas'
    BY <2>1, MarcosQuietos
  <2>3. Corre /\ Corre' /\ Estado' = Estado
    BY <2>1, CorreAhora, CorreDespues DEF Corre, Entera
  <2>. QED  BY <2>1, <2>2, <2>3, PasoIgual DEF Imita
<1>2. CASE ObtenerSentencia
  <2>1. /\ UNCHANGED <<seg, cursor, contexto, pila, llamadas, propias>>
        /\ fase = "corre" /\ fase' # "caida" /\ operacion' = "QUANTUM"
    BY <1>2 DEF ObtenerSentencia, Rechaza, Refuta, Entera
  <2>2. Marcos' = Marcos /\ Nombradas'
    BY <2>1, MarcosQuietos
  <2>3. Corre /\ Corre'
    BY <2>1, CorreAhora, CorreDespues DEF Nombradas
  <2>4. pc' = pc + 1
    BY <1>2, <2>1, AvanzaUno DEF Entera
  <2>. QED  BY <2>2, <2>3, <2>4, PasoAvanza DEF Imita
<1>3. CASE OtraVuelta \/ CambioContexto
  <2>1. /\ UNCHANGED <<seg, cursor, contexto, pc, pila, llamadas, propias, operacion>>
        /\ fase' \in {"corre", "espera", "terminada"}
        /\ operacion' = "EXIT" => fase' \in {"linea", "terminada"}
    BY <1>3 DEF OtraVuelta, CambioContexto, pcb, historia
  <2>2. Marcos' = Marcos /\ Nombradas'
    BY <2>1, MarcosQuietos
  <2>3. Estado' = Estado
    BY <2>1, CorreAhora, CorreDespues DEF Corre
  <2>. QED  BY <2>1, <2>2, <2>3, PasoIgual DEF Imita
<1>4. CASE FinalizarPrograma
  <2>1. /\ UNCHANGED <<seg, cursor, contexto, pc, pila, llamadas, propias>>
        /\ fase' = "linea" /\ operacion' = "EXIT" /\ operacion = "QUANTUM" /\ cursor = seg
    BY <1>4 DEF FinalizarPrograma, EnFin, EnLinea, pcb, historia
  <2>2. Marcos' = Marcos /\ Nombradas'
    BY <2>1, MarcosQuietos
  <2>3. Corre /\ Estado' = "fin"
    BY <2>1, CorreAhora, CorreDespues
  <2>4. llamadas = <<>>
    <3>1. ASSUME llamadas # <<>> PROVE FALSE
      <4>1. /\ llamadas[1].contexto \in Nat /\ seg \in Nat
            /\ 5 * llamadas[1].contexto + (IF llamadas[1].con THEN 12 ELSE 8) = Distancia
        BY <3>1, LlamadorGuardado DEF Entera
      <4>2. Distancia = cursor - seg
        BY Lugares DEF Entera
      <4>3. Distancia = 0
        BY <2>1, <4>1, <4>2
      <4>. QED  BY <4>1, <4>3
    <3>. QED  BY <3>1
  <2>5. Len(Marcos) = 1
    BY <2>4, TopeEs DEF Entera
  <2>. QED  BY <2>1, <2>2, <2>3, <2>5, PasoTermina DEF Imita
<1>5. CASE \E l \in Etiquetas : IrALabel(l)
  <2>1. /\ UNCHANGED <<seg, cursor, contexto, pila, llamadas, propias>> /\ pc' \in Etiquetas
        /\ fase' = "linea" /\ operacion # "EXIT" /\ operacion' = operacion
    BY <1>5 DEF IrALabel, EnLinea, historia
  <2>2. Marcos' = Marcos /\ Nombradas'
    BY <2>1, MarcosQuietos
  <2>3. Corre /\ Corre'
    BY <2>1, CorreAhora, CorreDespues
  <2>. QED  BY <2>1, <2>2, <2>3, PasoSalta DEF Imita
<1>. QED  BY <1>1, <1>2, <1>3, <1>4, <1>5

\* A name that was defined is in the dictionary.
LEMMA ConVariable ==
  ASSUME Entera, Nombradas, fase = "linea", NEW n \in propias
  PROVE  n \in DOMAIN dic /\ dic = Corriente
BY DEF Entera, Fiel, Nombradas, Corriente

LEMMA ImitaDereferencia ==
  ASSUME Entera, Nombradas, Entera', NEW n \in Nombres, Dereferencia(n) PROVE Imita
<1>1. /\ n \in propias /\ fase = "linea" /\ operacion # "EXIT"
  BY DEF Dereferencia, EnLinea
<1>2. n \in DOMAIN dic
  BY <1>1, ConVariable
<1>3. /\ UNCHANGED <<pcb, pila, dic, fase, propias, llamadas, anidada>>
      /\ operacion' \in {"ERROR", operacion}
  BY <1>2 DEF Dereferencia, SinVariable, Rechaza, Refuta
<1>4. /\ UNCHANGED <<seg, cursor, contexto, pc, pila, llamadas, propias>>
      /\ fase' = "linea" /\ operacion' = operacion
  BY <1>1, <1>3 DEF pcb, Entera
<1>5. Marcos' = Marcos /\ Nombradas'
  BY <1>4, MarcosQuietos
<1>6. Corre /\ Corre'
  BY <1>1, <1>4, CorreAhora, CorreDespues
<1>. QED  BY <1>4, <1>5, <1>6, PasoIgual DEF Imita, Corre

\* A variable that is born takes the five bytes after the last one.
LEMMA DefinirEscribe ==
  ASSUME Entera, operacion' # "ERROR", NEW n \in Nombres, DefinirVariable(n)
  PROVE  /\ UNCHANGED <<seg, cursor, pc, fase, llamadas, operacion>> /\ fase = "linea"
         /\ operacion # "EXIT" /\ propias' = propias \cup {n}
         /\ dic' = [x \in DOMAIN dic \cup {n} |-> IF x = n THEN Fondo ELSE dic[x]]
         /\ Fondo \in Nat /\ Distancia \in Nat /\ Distancia + 5 * contexto = Fondo
         /\ \A a \in 0..(Fondo - 1) : pila'[a] = pila[a]
         /\ pila'[Fondo + 1] = Basura
<1>1. /\ Suma(Distancia, 5 * contexto) = Fondo /\ Fondo \in 0..Tamanio
      /\ Distancia + 5 * contexto = Fondo /\ Distancia \in Nat /\ Tamanio \in Nat
      /\ Tamanio < Limite /\ Limite \in Nat /\ Tamanio + 5 < Limite
  BY Lugares, Constantes DEF Entera
<1>2. /\ EnLinea /\ propias' = propias \cup {n}
      /\ SePuedeEscribir(Fondo, 5)
      /\ pila' = Escrita(Fondo, NuevaVariable(n))
      /\ dic' = [x \in DOMAIN dic \cup {n} |-> IF x = n THEN Fondo ELSE dic[x]]
      /\ UNCHANGED <<seg, cursor, pc, fase, llamadas, operacion>>
  BY <1>1 DEF DefinirVariable, Distancia, Rechaza, Refuta
<1>3. Fondo + 5 <= Tamanio
  BY <1>1, <1>2 DEF SePuedeEscribir, Suma
<1>. DEFINE o == Fondo
<1>4. o \in 0..Limite /\ o + 5 <= Limite /\ o \in Nat
  BY <1>1, <1>3
<1>5. /\ NuevaVariable(n) \in Seq(Celdas) /\ Len(NuevaVariable(n)) = 5
      /\ NuevaVariable(n)[2] = Basura
  BY NuevaTipo DEF NuevaVariable
<1>6. \A a \in 0..(Tamanio - 1) :
        /\ a < o /\ o + 5 <= Limite => pila'[a] = pila[a]
        /\ a >= o /\ a < o + 5 => pila'[a] = NuevaVariable(n)[a - o + 1]
  <2>1. pila \in [0..(Tamanio - 1) -> Celdas] /\ pila' = Escrita(o, NuevaVariable(n))
    BY <1>2 DEF Entera, Tipos
  <2>. HIDE DEF o
  <2>. QED  BY <1>4, <1>5, <2>1, EscritaEs
<1>7. /\ \A a \in 0..(o - 1) : a \in 0..(Tamanio - 1) /\ a < o
      /\ o + 1 \in 0..(Tamanio - 1) /\ o + 1 >= o /\ o + 1 < o + 5 /\ (o + 1) - o + 1 = 2
  BY <1>1, <1>3
<1>. HIDE DEF o
<1>8. \A a \in 0..(o - 1) : pila'[a] = pila[a]
  BY <1>4, <1>6, <1>7
<1>9. pila'[o + 1] = NuevaVariable(n)[(o + 1) - o + 1]
  BY <1>6, <1>7
<1>. QED  BY <1>1, <1>2, <1>4, <1>5, <1>7, <1>8, <1>9 DEF o, EnLinea

LEMMA ImitaDefinir ==
  ASSUME Entera, Nombradas, Entera', NEW n \in Nombres, DefinirVariable(n) PROVE Imita
<1>1. /\ UNCHANGED <<seg, cursor, pc, fase, llamadas, operacion>> /\ fase = "linea"
      /\ operacion # "EXIT" /\ propias' = propias \cup {n}
      /\ dic' = [x \in DOMAIN dic \cup {n} |-> IF x = n THEN Fondo ELSE dic[x]]
      /\ Fondo \in Nat /\ Distancia \in Nat /\ Distancia + 5 * contexto = Fondo
      /\ \A a \in 0..(Fondo - 1) : pila'[a] = pila[a]
      /\ pila'[Fondo + 1] = Basura
  BY DefinirEscribe DEF Entera
<1>2. Tipos /\ Contextos /\ Fiel /\ Tipos' /\ Contextos' /\ Fiel'
  BY DEF Entera
<1>3. dic = Corriente /\ dic' = Corriente'
  BY <1>1, <1>2 DEF Fiel, Corriente
<1>4. propias' = DOMAIN Corriente'
  BY <1>1, <1>3 DEF Nombradas
<1>5. contexto \in Nat
  BY <1>2 DEF Tipos
<1>6. \A a \in 0..(Distancia - 1) : pila'[a] = pila[a]
  <2>1. \A a \in 0..(Distancia - 1) : a \in 0..(Fondo - 1)
    BY <1>1, <1>5
  <2>. QED  BY <1>1, <2>1
<1>7. Marcos' = TopeCon(VariablesEn(pila', Corriente')) /\ Nombradas'
  BY <1>1, <1>2, <1>4, <1>6, TopeCambia
<1>8. VarsTope = VariablesEn(pila, dic)
  BY <1>2, <1>3, TopeEs
<1>9. ASSUME NEW x \in DOMAIN dic PROVE ValorEn(pila', dic[x] + 1) = ValorEn(pila, dic[x] + 1)
  <2>1. PICK i \in 0..(contexto - 1) : dic[x] = Distancia + 5 * i
    BY <1>1, <1>2, <1>9, LugarDeVariable
  <2>2. /\ dic[x] + 1 \in Nat
        /\ \A a \in (dic[x] + 1)..(dic[x] + 1 + 3) : a \in 0..(Fondo - 1)
    BY <1>1, <1>5, <2>1
  <2>3. \A a \in (dic[x] + 1)..(dic[x] + 1 + 3) : pila'[a] = pila[a]
    BY <1>1, <2>2
  <2>. QED  BY <2>2, <2>3, ValorIgual
<1>10. ValorEn(pila', Fondo + 1) = Indefinido
  <2>1. Basura[1] # "entero"
    BY DEF Basura
  <2>. QED  BY <1>1, <2>1 DEF ValorEn
<1>11. VariablesEn(pila', Corriente')
         = [x \in DOMAIN VarsTope \cup {n} |-> IF x = n THEN Indefinido ELSE VarsTope[x]]
  <2>1. /\ DOMAIN VarsTope = DOMAIN dic
        /\ \A x \in DOMAIN dic : VarsTope[x] = ValorEn(pila, dic[x] + 1)
    BY <1>8 DEF VariablesEn
  <2>2. /\ DOMAIN dic' = DOMAIN dic \cup {n} /\ dic'[n] = Fondo
        /\ \A x \in DOMAIN dic : x # n => dic'[x] = dic[x]
    BY <1>1
  <2>3. \A x \in DOMAIN dic \cup {n} :
          ValorEn(pila', dic'[x] + 1) = IF x = n THEN Indefinido ELSE VarsTope[x]
    BY <1>9, <1>10, <2>1, <2>2
  <2>. QED  BY <1>3, <2>1, <2>2, <2>3 DEF VariablesEn
<1>12. Corre /\ Corre'
  BY <1>1, CorreAhora, CorreDespues
<1>. QED  BY <1>1, <1>7, <1>11, <1>12, PasoDefine DEF Imita

\* An int written after a name is the value of that variable and of no other.
LEMMA BytesEscritos ==
  ASSUME pila \in [0..(Tamanio - 1) -> Celdas], NEW d \in Nat, d + 4 <= Tamanio,
         NEW v \in Enteros, NEW otra, otra = Escrita(d, Entero(v))
  PROVE  /\ EnteroEn(otra, d, v)
         /\ \A a \in 0..(Tamanio - 1) : a < d \/ a >= d + 4 => otra[a] = pila[a]
<1>1. d \in 0..Limite /\ d + 4 <= Limite /\ Tamanio \in Nat
  BY Constantes
<1>2. PICK b : b = Entero(v)
  OBVIOUS
<1>3. b \in Seq(Celdas) /\ Len(b) = 4 /\ otra = Escrita(d, b)
  BY <1>2, EnteroTipo
<1>4. \A a \in 0..(Tamanio - 1) :
        /\ a < d /\ d + Len(b) <= Limite => Escrita(d, b)[a] = pila[a]
        /\ a >= d + Len(b) => Escrita(d, b)[a] = pila[a]
        /\ a >= d /\ a < d + Len(b) => Escrita(d, b)[a] = b[a - d + 1]
  BY <1>1, <1>3, EscritaEs
<1>5. \A a \in 0..(Tamanio - 1) :
        /\ a < d \/ a >= d + 4 => otra[a] = pila[a]
        /\ a >= d /\ a < d + 4 => otra[a] = b[a - d + 1]
  BY <1>1, <1>3, <1>4
<1>6. \A k \in 1..4 : /\ d + k - 1 \in 0..(Tamanio - 1) /\ d + k - 1 >= d
                      /\ d + k - 1 < d + 4 /\ (d + k - 1) - d + 1 = k
  BY <1>1
<1>7. \A k \in 1..4 : otra[d + k - 1] = b[k]
  BY <1>5, <1>6
<1>. QED  BY <1>2, <1>5, <1>7 DEF EnteroEn

LEMMA EscritoEnDiccionario ==
  ASSUME pila \in [0..(Tamanio - 1) -> Celdas], NEW o \in Nat, NEW n \in Nat,
         o + 5 * n <= Tamanio, NEW D, EsDiccionario(D, pila, o, n), NEW x \in DOMAIN D,
         NEW v \in Enteros, NEW otra, otra = Escrita(D[x] + 1, Entero(v))
  PROVE  /\ ValorEn(otra, D[x] + 1) = v
         /\ \A y \in DOMAIN D : y # x => ValorEn(otra, D[y] + 1) = ValorEn(pila, D[y] + 1)
<1>. DEFINE d == D[x] + 1
<1>1. PICK i \in 0..(n - 1) : D[x] = o + 5 * i /\ pila[o + 5 * i] = Letra(x)
  BY DEF EsDiccionario
<1>2. d = o + 5 * i + 1 /\ i \in Nat /\ i <= n - 1
  BY <1>1
<1>. HIDE DEF d
<1>3. d \in Nat /\ d + 4 <= Tamanio /\ Tamanio \in Nat
  BY <1>2, Constantes
<1>4. otra = Escrita(d, Entero(v))
  BY DEF d
<1>5. /\ EnteroEn(otra, d, v)
      /\ \A a \in 0..(Tamanio - 1) : a < d \/ a >= d + 4 => otra[a] = pila[a]
  BY <1>3, <1>4, BytesEscritos
<1>6. ValorEn(otra, d) = v
  BY <1>3, <1>5, ValorDeEntero
<1>7. ASSUME NEW y \in DOMAIN D, y # x PROVE ValorEn(otra, D[y] + 1) = ValorEn(pila, D[y] + 1)
  <2>1. PICK j \in 0..(n - 1) : D[y] = o + 5 * j /\ pila[o + 5 * j] = Letra(y)
    BY DEF EsDiccionario
  <2>2. j # i
    BY <1>1, <1>7, <2>1, LetraUna
  <2>3. PICK e : e = D[y] + 1
    OBVIOUS
  <2>4. e = o + 5 * j + 1 /\ j \in Nat /\ j <= n - 1 /\ (j <= i - 1 \/ j >= i + 1)
    BY <1>2, <2>1, <2>2, <2>3
  <2>5. e \in Nat /\ e + 4 <= Tamanio /\ (e + 4 < d \/ e >= d + 4)
    BY <1>2, <1>3, <2>4
  <2>6. \A a \in e..(e + 3) : a \in 0..(Tamanio - 1) /\ (a < d \/ a >= d + 4)
    BY <1>3, <2>5
  <2>7. \A a \in e..(e + 3) : otra[a] = pila[a]
    BY <1>5, <2>6
  <2>8. ValorEn(otra, e) = ValorEn(pila, e)
    BY <2>5, <2>7, ValorIgual
  <2>. QED  BY <2>3, <2>8
<1>. QED  BY <1>6, <1>7 DEF d

LEMMA EscritoEntero ==
  ASSUME pila \in [0..(Tamanio - 1) -> Celdas], NEW c, NEW n \in Nat, Resta(c, seg) \in Nat,
         Resta(c, seg) + 5 * n <= Tamanio, NEW D, D = Rehecho(pila, c, n), NEW x \in DOMAIN D,
         NEW v \in Enteros, NEW otra, otra = Escrita(D[x] + 1, Entero(v))
  PROVE  VariablesEn(otra, D) = [VariablesEn(pila, D) EXCEPT ![x] = v]
<1>1. EsDiccionario(D, pila, Resta(c, seg), n)
  BY RehechoEs
<1>2. /\ ValorEn(otra, D[x] + 1) = v
      /\ \A y \in DOMAIN D : y # x => ValorEn(otra, D[y] + 1) = ValorEn(pila, D[y] + 1)
  <2>1. PICK o \in Nat : o = Resta(c, seg)
    OBVIOUS
  <2>2. EsDiccionario(D, pila, o, n) /\ o + 5 * n <= Tamanio
    BY <1>1, <2>1
  <2>. QED  BY <2>2, EscritoEnDiccionario
<1>. QED  BY <1>2 DEF VariablesEn

LEMMA ImitaAsignacion ==
  ASSUME Entera, Nombradas, Entera', NEW n \in Nombres, NEW v \in Valores, Asignacion(n, v)
  PROVE  Imita
<1>1. /\ n \in propias /\ fase = "linea" /\ operacion # "EXIT"
  BY DEF Asignacion, EnLinea
<1>2. n \in DOMAIN dic /\ dic = Corriente
  BY <1>1, ConVariable
<1>3. /\ Asignar(dic[n], v) /\ SePuedeEscribir(dic[n] + 1, 4)
      /\ UNCHANGED <<pcb, dic, fase, propias, llamadas, anidada, operacion>>
  BY <1>2 DEF Asignacion, SinVariable, Rechaza, Refuta, Entera
<1>4. /\ UNCHANGED <<seg, cursor, contexto, pc, dic, fase, propias, llamadas, operacion>>
      /\ pila' = Escrita(dic[n] + 1, Entero(v))
  BY <1>3 DEF pcb, Asignar
<1>5. Tipos /\ Contextos /\ Fiel /\ Tipos' /\ Contextos' /\ Fiel'
  BY DEF Entera
<1>6. dic' = Corriente'
  BY <1>1, <1>4, <1>5 DEF Fiel, Corriente
<1>7. /\ Distancia \in Nat /\ contexto \in Nat /\ Distancia + 5 * contexto <= Tamanio
      /\ v \in Enteros /\ pila \in [0..(Tamanio - 1) -> Celdas] /\ Distancia = Resta(cursor, seg)
  BY <1>5, Lugares, Constantes DEF Tipos, Distancia
<1>8. PICK i \in 0..(contexto - 1) : dic[n] = Distancia + 5 * i
  BY <1>1, <1>2, <1>5, LugarDeVariable
<1>9. \A a \in 0..(Distancia - 1) : pila'[a] = pila[a]
  <2>1. pila' = Escrita(Distancia + 5 * i + 1, Entero(v))
    BY <1>4, <1>8
  <2>. DEFINE o == Distancia
              n1 == contexto
  <2>2. o \in Nat /\ n1 \in Nat /\ o + 5 * n1 <= Tamanio /\ i \in 0..(n1 - 1)
    BY <1>7
  <2>3. /\ Tamanio \in Nat /\ v \in Enteros /\ pila \in [0..(Tamanio - 1) -> Celdas]
    BY <1>7, Constantes
  <2>. HIDE DEF o, n1
  <2>4. o + 5 * i + 5 <= Tamanio
    BY <2>2, <2>3
  <2>5. \A a \in 0..(o - 1) : Escrita(o + 5 * i + 1, Entero(v))[a] = pila[a]
    BY <2>2, <2>3, <2>4, ValorEscrito
  <2>. QED  BY <2>1, <2>5 DEF o
<1>10. propias' = DOMAIN Corriente'
  BY <1>2, <1>4, <1>6 DEF Nombradas
<1>11. Marcos' = TopeCon(VariablesEn(pila', Corriente')) /\ Nombradas'
  BY <1>1, <1>4, <1>5, <1>9, <1>10, TopeCambia
<1>12. VarsTope = VariablesEn(pila, dic)
  BY <1>2, <1>5, TopeEs
<1>13. VariablesEn(pila', dic) = [VariablesEn(pila, dic) EXCEPT ![n] = v]
  <2>1. PICK otra : otra = pila'
    OBVIOUS
  <2>2. PICK D : D = dic
    OBVIOUS
  <2>3. /\ D = Rehecho(pila, cursor, contexto) /\ n \in DOMAIN D
        /\ otra = Escrita(D[n] + 1, Entero(v))
        /\ Resta(cursor, seg) \in Nat /\ Resta(cursor, seg) + 5 * contexto <= Tamanio
    BY <1>2, <1>4, <1>7, <2>1, <2>2 DEF Corriente
  <2>4. VariablesEn(otra, D) = [VariablesEn(pila, D) EXCEPT ![n] = v]
    BY <1>7, <2>3, EscritoEntero
  <2>. QED  BY <2>1, <2>2, <2>4
<1>14. n \in DOMAIN VarsTope
  BY <1>2, <1>12 DEF VariablesEn
<1>15. Marcos' = TopeCon([VarsTope EXCEPT ![n] = v])
  BY <1>4, <1>6, <1>11, <1>12, <1>13
<1>16. Corre /\ Corre'
  BY <1>1, <1>4, CorreAhora, CorreDespues
<1>. QED  BY <1>4, <1>11, <1>14, <1>15, <1>16, PasoAsigna DEF Imita

Llamado(l, datos, L) ==
  /\ UNCHANGED <<seg, fase, operacion>> /\ fase = "linea" /\ operacion # "EXIT"
  /\ llamadas = <<>> /\ cursor = seg /\ Niveles = 2
  /\ contexto' = 0 /\ dic' = Ninguna /\ pc' = l /\ propias' = {}
  /\ llamadas' = <<L>>
  /\ \A a \in 0..(5 * contexto - 1) : pila'[a] = pila[a]
  /\ \A i \in 1..Len(datos) : pila'[5 * contexto + i - 1] = datos[i]

\* A call that is promised is made from the only context, and saves it whole.
LEMMA LlamarEscribe ==
  ASSUME Niveles <= 2, Entera, ~anidada', operacion' # "ERROR", NEW l, NEW datos \in Seq(Celdas),
         NEW con \in BOOLEAN, Len(datos) \in {8, 12}, Llamar(l, datos, con), NEW L,
         L = [con |-> con, propias |-> propias, cursor |-> cursor,
              contexto |-> contexto, pc |-> pc]
  PROVE  Llamado(l, datos, L)
<1>1. /\ Suma(Distancia, 5 * contexto) = Fondo /\ Fondo \in 0..Tamanio
      /\ Distancia + 5 * contexto = Fondo /\ Distancia \in Nat /\ contexto \in Nat
      /\ Distancia = cursor - seg /\ seg \in Nat /\ cursor \in Nat
      /\ Tamanio \in Nat /\ Limite \in Nat /\ 2 * Tamanio + 32 < Limite
  BY Lugares, Constantes DEF Entera, Enteros
<1>2. PICK t : t = Len(datos)
  OBVIOUS
<1>4. /\ EnLinea /\ UNCHANGED <<seg, fase, operacion>>
      /\ SePuedeEscribir(Fondo, t)
      /\ pila' = Escrita(Fondo, datos)
      /\ contexto' = 0 /\ dic' = Ninguna /\ pc' = l /\ propias' = {}
      /\ llamadas' = Append(llamadas, L)
      /\ ~(Len(llamadas) + 1 >= Niveles)
  BY <1>1, <1>2 DEF Llamar, Distancia, Rechaza, Refuta, Entera
<1>5. llamadas = <<>> /\ cursor = seg /\ Niveles = 2
  <2>1. PICK k : k = Len(llamadas)
    OBVIOUS
  <2>2. PICK N : N = Niveles
    OBVIOUS
  <2>3. k \in Nat /\ N \in Nat /\ N <= 2 /\ ~(k + 1 >= N)
    BY <1>4, <2>1, <2>2, Constantes DEF Entera, Tipos
  <2>4. k # 1 /\ N = 2
    BY <2>3
  <2>. QED  BY <2>1, <2>2, <2>4 DEF Entera, Contextos
<1>6. Fondo = 5 * contexto
  BY <1>1, <1>5
<1>7. llamadas' = <<L>>
  BY <1>4, <1>5
<1>8. t \in {8, 12} /\ Fondo + t <= Tamanio
  <2>1. PICK f \in 0..Tamanio : f = Fondo
    BY <1>1
  <2>2. t \in {8, 12} /\ Suma(t, f) <= Tamanio
    BY <1>2, <1>4, <2>1 DEF SePuedeEscribir
  <2>3. f + t <= Tamanio
    BY <1>1, <2>2 DEF Suma
  <2>. QED  BY <2>1, <2>2, <2>3
<1>. DEFINE o == Fondo
<1>9. \A a \in 0..(Tamanio - 1) :
        /\ a < o /\ o + t <= Limite => pila'[a] = pila[a]
        /\ a >= o /\ a < o + t => pila'[a] = datos[a - o + 1]
  <2>1. /\ pila \in [0..(Tamanio - 1) -> Celdas] /\ pila' = Escrita(o, datos)
        /\ o \in 0..Limite
    BY <1>1, <1>4 DEF Entera, Tipos
  <2>. HIDE DEF o
  <2>. QED  BY <1>2, <2>1, EscritaEs
<1>10. o \in Nat /\ o + t <= Tamanio /\ o + t <= Limite /\ Tamanio \in Nat /\ t \in {8, 12}
  BY <1>1, <1>8
<1>. HIDE DEF o
<1>11. /\ \A a \in 0..(o - 1) : a \in 0..(Tamanio - 1) /\ a < o
       /\ \A i \in 1..t : /\ o + i - 1 \in 0..(Tamanio - 1) /\ o + i - 1 >= o
                          /\ o + i - 1 < o + t /\ (o + i - 1) - o + 1 = i
  BY <1>10
<1>12. /\ \A a \in 0..(o - 1) : pila'[a] = pila[a]
       /\ \A i \in 1..t : pila'[o + i - 1] = datos[i]
  BY <1>9, <1>10, <1>11
<1>. QED  BY <1>2, <1>4, <1>5, <1>6, <1>7, <1>12 DEF o, EnLinea, Llamado

LEMMA ParAgregado == ASSUME NEW a, NEW b PROVE Append(<<a>>, b) = <<a, b>>
<1>1. <<a>> \in Seq({a, b}) /\ Len(<<a>>) = 1 /\ <<a>>[1] = a
  OBVIOUS
<1>2. PICK s : s = Append(<<a>>, b)
  OBVIOUS
<1>3. s \in Seq({a, b}) /\ Len(s) = 2 /\ s[1] = a /\ s[2] = b
  BY <1>1, <1>2, AppendProperties
<1>4. s = <<s[1], s[2]>>
  BY <1>3
<1>. QED  BY <1>2, <1>3, <1>4

LEMMA ImitaLlamar ==
  ASSUME Niveles <= 2, Entera, Nombradas, Entera', NEW l \in Etiquetas, NEW con \in BOOLEAN,
         NEW datos \in Seq(Celdas), Len(datos) = (IF con THEN 12 ELSE 8),
         NEW d \in Nombres \cup {Nada},
         con => d \in DOMAIN dic /\ \A i \in 1..4 : datos[8 + i] = Entero(dic[d])[i],
         ~con => d = Nada, Llamar(l, datos, con)
  PROVE  Imita
<1>1. PICK L : L = [con |-> con, propias |-> propias, cursor |-> cursor,
                    contexto |-> contexto, pc |-> pc]
  OBVIOUS
<1>2. /\ UNCHANGED <<seg, fase, operacion>> /\ fase = "linea" /\ operacion # "EXIT"
      /\ llamadas = <<>> /\ cursor = seg /\ Niveles = 2
      /\ contexto' = 0 /\ dic' = Ninguna /\ pc' = l /\ propias' = {}
      /\ llamadas' = <<L>>
      /\ \A a \in 0..(5 * contexto - 1) : pila'[a] = pila[a]
      /\ \A i \in 1..Len(datos) : pila'[5 * contexto + i - 1] = datos[i]
  <2>1. ~anidada' /\ operacion' # "ERROR" /\ Len(datos) \in {8, 12}
    BY DEF Entera
  <2>2. Llamado(l, datos, L)
    BY <1>1, <2>1, LlamarEscribe
  <2>. QED  BY <2>2 DEF Llamado
<1>3. /\ L.con = con /\ L.propias = propias /\ L.contexto = contexto /\ L.pc = pc
      /\ llamadas'[1] = L /\ llamadas' # <<>>
  <2>1. L.con = con /\ L.propias = propias /\ L.contexto = contexto /\ L.pc = pc
    BY <1>1
  <2>. QED  BY <1>2, <2>1
<1>4. /\ Tipos /\ Contextos /\ Fiel /\ Tipos' /\ Contextos' /\ Fiel'
      /\ ~anidada /\ operacion # "ERROR"
  BY DEF Entera
<1>5. /\ contexto \in Nat /\ seg \in Nat /\ Resta(seg, seg) = 0
  <2>1. contexto \in Nat /\ seg \in Enteros
    BY <1>4, Lugares
  <2>2. seg \in Nat
    BY <2>1, Constantes DEF Enteros
  <2>. QED  BY <2>1, <2>2 DEF Resta
<1>6. dic = Corriente /\ Corriente = Rehecho(pila, seg, contexto) /\ Corriente' = Ninguna
  BY <1>2, <1>4 DEF Fiel, Corriente
<1>7. /\ Rehecho(pila', seg, contexto) = Corriente
      /\ VariablesEn(pila', Corriente) = VariablesEn(pila, Corriente)
  <2>1. PICK otra : otra = pila'
    OBVIOUS
  <2>2. \A a \in Resta(seg, seg)..(Resta(seg, seg) + 5 * contexto - 1) : otra[a] = pila[a]
    BY <1>2, <1>5, <2>1
  <2>3. Resta(seg, seg) \in Nat
    BY <1>5
  <2>4. /\ Rehecho(otra, seg, contexto) = Rehecho(pila, seg, contexto)
        /\ VariablesEn(otra, Rehecho(pila, seg, contexto))
             = VariablesEn(pila, Rehecho(pila, seg, contexto))
    <3>1. PICK n \in Nat : n = contexto
      BY <1>5
    <3>2. \A a \in Resta(seg, seg)..(Resta(seg, seg) + 5 * n - 1) : otra[a] = pila[a]
      BY <2>2, <3>1
    <3>3. /\ Rehecho(otra, seg, n) = Rehecho(pila, seg, n)
          /\ VariablesEn(otra, Rehecho(pila, seg, n)) = VariablesEn(pila, Rehecho(pila, seg, n))
      BY <2>3, <3>2, VariablesQuedan
    <3>. QED  BY <3>1, <3>3
  <2>. QED  BY <1>6, <2>1, <2>4
<1>8. Llamador' = Corriente
  <2>1. Llamador' = Rehecho(pila', seg, llamadas'[1].contexto)
    BY <1>2 DEF Llamador, Rehecho
  <2>2. llamadas'[1].contexto = contexto
    BY <1>3
  <2>. QED  BY <1>7, <2>1, <2>2
<1>9. /\ DestinoEs(d)'
      /\ con => d \in DOMAIN Corriente /\ EnteroEn(pila', 5 * contexto + 8, Corriente[d])
  <2>1. CASE con
    <3>0. Len(datos) = 12
      BY <2>1
    <3>1. \A i \in 1..4 : /\ 8 + i \in 1..12
                          /\ 5 * contexto + (8 + i) - 1 = 5 * contexto + 8 + i - 1
      BY <1>5
    <3>2. \A i \in 1..4 : pila'[5 * contexto + 8 + i - 1] = Entero(dic[d])[i]
      BY <1>2, <2>1, <3>0, <3>1
    <3>3. EnteroEn(pila', 5 * contexto + 8, Corriente[d]) /\ d \in DOMAIN Corriente
      BY <1>6, <2>1, <3>2 DEF EnteroEn
    <3>4. EnteroEn(pila, 5 * llamadas[1].contexto + 8, Llamador[d])'
      BY <1>3, <1>8, <3>3 DEF EnteroEn
    <3>. QED  BY <1>3, <1>8, <2>1, <3>3, <3>4 DEF DestinoEs
  <2>2. CASE ~con
    BY <1>3, <2>2 DEF DestinoEs
  <2>. QED  BY <2>1, <2>2
<1>10. Marcos' = <<MarcoEn(pila', Corriente, 0, Nada), MarcoEn(pila', Ninguna, pc, d)>>
  <2>1. Marcos' = <<MarcoEn(pila', Llamador', 0, Nada),
                    MarcoEn(pila', Corriente', llamadas'[1].pc, d)>>
    BY <1>3, <1>4, <1>9, MarcosDosPrima
  <2>. QED  BY <1>3, <1>6, <1>8, <2>1
<1>11. Marcos = <<MarcoEn(pila, Corriente, 0, Nada)>>
  BY <1>2, <1>4, MarcosUno
<1>12. Marcos' = Append(Marcos, [vars |-> [x \in {} |-> Indefinido], vuelve |-> pc, destino |-> d])
  <2>1. VariablesEn(pila', Ninguna) = [x \in {} |-> Indefinido]
    BY DEF VariablesEn, Ninguna
  <2>2. MarcoEn(pila', Ninguna, pc, d)
          = [vars |-> [x \in {} |-> Indefinido], vuelve |-> pc, destino |-> d]
    BY <2>1 DEF MarcoEn
  <2>3. MarcoEn(pila', Corriente, 0, Nada) = MarcoEn(pila, Corriente, 0, Nada)
    BY <1>7 DEF MarcoEn
  <2>. QED  BY <1>10, <1>11, <2>2, <2>3, ParAgregado
<1>13. Nombradas'
  <2>1. propias' = DOMAIN Corriente'
    BY <1>2, <1>6 DEF Ninguna
  <2>2. llamadas'[1].propias = DOMAIN Llamador'
    BY <1>3, <1>8 DEF Nombradas
  <2>3. llamadas'[1].con => \E x \in DOMAIN Llamador' :
            EnteroEn(pila', 5 * llamadas'[1].contexto + 8, Llamador'[x])
    BY <1>3, <1>8, <1>9
  <2>4. fase' # "caida" /\ (operacion' = "EXIT" => fase' \in {"linea", "terminada"})
    BY <1>2
  <2>. QED  BY <2>1, <2>2, <2>3, <2>4 DEF Nombradas, EnteroEn
<1>14. Corre /\ Corre'
  BY <1>2, CorreAhora, CorreDespues
<1>15. Len(Marcos) < Niveles /\ d \in DOMAIN VarsTope \cup {Nada}
  <2>1. Len(Marcos) = 1
    BY <1>11, UnoODos
  <2>2. VarsTope = VariablesEn(pila, Corriente)
    BY <1>4, TopeEs
  <2>3. DOMAIN VarsTope = DOMAIN Corriente
    BY <2>2 DEF VariablesEn
  <2>. QED  BY <1>2, <1>9, <2>1, <2>3
<1>16. pc' \in Etiquetas
  BY <1>2
<1>. QED  BY <1>12, <1>13, <1>14, <1>15, <1>16, PasoLlama DEF Imita

\* What is common to both ways to come back.
Vuelto ==
  /\ llamadas # <<>> /\ llamadas[1].contexto \in Nat /\ llamadas[1].con \in BOOLEAN
  /\ UNCHANGED <<seg, fase, operacion>> /\ fase = "linea" /\ operacion # "EXIT"
  /\ cursor' = seg /\ pc' = llamadas[1].pc /\ contexto' = llamadas[1].contexto
  /\ propias' = llamadas[1].propias /\ llamadas' = <<>>

LEMMA DesapilaUna ==
  ASSUME Entera, llamadas # <<>>, Desapila
  PROVE  /\ llamadas' = <<>> /\ propias' = llamadas[1].propias /\ UltimaLlamada = llamadas[1]
         /\ Len(llamadas') < Len(llamadas) /\ llamadas[1].contexto \in Nat
         /\ llamadas[1].con \in BOOLEAN
<1>1. UltimaLlamada = llamadas[1] /\ llamadas[1] \in Llamada
  BY LlamadorGuardado DEF Entera
<1>2. SubSeq(llamadas, 1, Len(llamadas) - 1) = <<>>
  BY Guardada DEF Entera
<1>3. Len(llamadas) = 1
  BY DEF Entera, Contextos
<1>. QED  BY <1>1, <1>2, <1>3 DEF Desapila, Llamada

LEMMA FinalizarEscribe ==
  ASSUME Entera, operacion' # "ERROR", FinalizarFuncion
  PROVE  Vuelto /\ ~llamadas[1].con /\ pila' = pila
<1>1. /\ llamadas # <<>> /\ ~UltimaLlamada.con /\ UNCHANGED fase /\ fase = "linea"
      /\ operacion = "QUANTUM"
  BY DEF FinalizarFuncion, EnFin, EnLinea
<1>2. VuelveSinResultado
  BY DEF FinalizarFuncion, NoRecupera, Refuta
<1>3. /\ Desapila /\ UNCHANGED <<seg, pila>>
      /\ \E c, n : RecrearDiccionario(pila, c, n, operacion, rechazo)
  BY <1>2 DEF VuelveSinResultado
<1>4. operacion' = operacion
  BY <1>3 DEF RecrearDiccionario, Rechaza, Refuta
<1>5. /\ llamadas' = <<>> /\ propias' = llamadas[1].propias /\ UltimaLlamada = llamadas[1]
      /\ Len(llamadas') < Len(llamadas) /\ llamadas[1].contexto \in Nat
      /\ llamadas[1].con \in BOOLEAN
  BY <1>1, <1>3, DesapilaUna
<1>6. cursor' = seg /\ pc' = UltimaLlamada.pc /\ contexto' = UltimaLlamada.contexto
  BY <1>5, PasoFinalizarFuncion DEF Entera
<1>. QED  BY <1>1, <1>3, <1>4, <1>5, <1>6 DEF Vuelto

LEMMA RetornarEscribe ==
  ASSUME Entera, operacion' # "ERROR", NEW v \in Valores, Retornar(v)
  PROVE  /\ Vuelto /\ llamadas[1].con
         /\ \A x : DestinoEs(x) => pila' = Escrita(Llamador[x] + 1, Entero(v))
<1>1. /\ llamadas # <<>> /\ UltimaLlamada.con /\ UNCHANGED fase /\ fase = "linea"
      /\ operacion # "EXIT"
  BY DEF Retornar, EnLinea
<1>2. VuelveConResultado(v)
  BY DEF Retornar, NoRecupera, Refuta
<1>. DEFINE o == Resta(Resta(cursor, seg), 12)
<1>3. PICK d \in Leido(pila, o + 8) :
        /\ Asignar(d, v) /\ Desapila /\ UNCHANGED seg
        /\ \E c, n : RecrearDiccionario(pila', c, n,
                       IF SePuedeEscribir(d + 1, 4) THEN operacion ELSE "ERROR",
                       rechazo \/ ~SePuedeEscribir(d + 1, 4))
  BY <1>2 DEF VuelveConResultado
<1>4. operacion' = operacion /\ SePuedeEscribir(d + 1, 4)
  BY <1>3 DEF RecrearDiccionario, Rechaza, Refuta
<1>5. pila' = Escrita(d + 1, Entero(v))
  BY <1>3, <1>4 DEF Asignar
<1>6. /\ llamadas' = <<>> /\ propias' = llamadas[1].propias /\ UltimaLlamada = llamadas[1]
      /\ Len(llamadas') < Len(llamadas) /\ llamadas[1].contexto \in Nat
      /\ llamadas[1].con \in BOOLEAN
  BY <1>1, <1>3, DesapilaUna
<1>7. cursor' = seg /\ pc' = UltimaLlamada.pc /\ contexto' = UltimaLlamada.contexto
  BY <1>6, PasoRetornar DEF Entera
<1>8. ASSUME NEW x, DestinoEs(x) PROVE d = Llamador[x]
  <2>1. EnteroEn(pila, 5 * llamadas[1].contexto + 8, Llamador[x])
    BY <1>1, <1>6, <1>8 DEF DestinoEs
  <2>2. Gasto = 12 /\ Resta(Resta(cursor, seg), Gasto) = 5 * UltimaLlamada.contexto
    BY <1>1, Guardada DEF Entera
  <2>3. o = 5 * llamadas[1].contexto
    BY <1>6, <2>2
  <2>4. o + 8 \in Nat /\ EnteroEn(pila, o + 8, Llamador[x])
    BY <1>6, <2>1, <2>3
  <2>. QED  BY <2>4, LeidoEs
<1>. QED  BY <1>1, <1>3, <1>4, <1>5, <1>6, <1>7, <1>8 DEF Vuelto

\* The context that is left is the one of the caller.
LEMMA QuedaElLlamador ==
  ASSUME Entera, Nombradas, Entera', Vuelto, Llamador = Rehecho(pila', seg, llamadas[1].contexto)
  PROVE  /\ Corriente' = Llamador /\ Nombradas'
         /\ Marcos' = <<MarcoEn(pila', Llamador, 0, Nada)>>
         /\ Corre /\ Corre'
<1>1. /\ llamadas # <<>> /\ UNCHANGED <<seg, fase, operacion>> /\ fase = "linea"
      /\ cursor' = seg /\ contexto' = llamadas[1].contexto /\ operacion # "EXIT"
      /\ propias' = llamadas[1].propias /\ llamadas' = <<>>
  BY DEF Vuelto
<1>2. Corriente' = Llamador
  <2>1. Corriente' = Rehecho(pila', seg, llamadas[1].contexto)
    BY <1>1 DEF Corriente, Rehecho
  <2>. QED  BY <2>1
<1>3. Nombradas'
  <2>1. propias' = DOMAIN Corriente'
    BY <1>1, <1>2 DEF Nombradas
  <2>. QED  BY <1>1, <2>1 DEF Nombradas
<1>4. Marcos' = <<MarcoEn(pila', Llamador, 0, Nada)>>
  <2>1. Marcos' = <<MarcoEn(pila', Corriente', 0, Nada)>>
    BY <1>1, MarcosUnoPrima DEF Entera
  <2>. QED  BY <1>2, <2>1
<1>5. Corre /\ Corre'
  BY <1>1, CorreAhora, CorreDespues
<1>. QED  BY <1>2, <1>3, <1>4, <1>5

LEMMA ImitaFinalizar ==
  ASSUME Entera, Nombradas, Entera', FinalizarFuncion PROVE Imita
<1>1. Vuelto /\ ~llamadas[1].con /\ pila' = pila
  BY FinalizarEscribe DEF Entera
<1>2. llamadas # <<>> /\ pc' = llamadas[1].pc
  BY <1>1 DEF Vuelto
<1>3. Llamador = Rehecho(pila', seg, llamadas[1].contexto)
  BY <1>1 DEF Llamador
<1>4. /\ Nombradas' /\ Corre /\ Corre'
      /\ Marcos' = <<MarcoEn(pila, Llamador, 0, Nada)>>
  BY <1>1, <1>3, QuedaElLlamador
<1>5. PICK d : DestinoEs(d)
  BY <1>2, HayDestino
<1>6. d = Nada
  BY <1>1, <1>5 DEF DestinoEs
<1>7. PICK a, b : /\ a = MarcoEn(pila, Llamador, 0, Nada)
                  /\ b = MarcoEn(pila, Corriente, llamadas[1].pc, d)
  OBVIOUS
<1>8. Marcos = <<a, b>> /\ Marcos' = <<a>>
  BY <1>2, <1>4, <1>5, <1>7, MarcosDos DEF Entera
<1>9. b.destino = Nada /\ b.vuelve = pc'
  BY <1>2, <1>6, <1>7 DEF MarcoEn
<1>. QED  BY <1>4, <1>8, <1>9, PasoVuelta DEF Imita

LEMMA ImitaRetornar ==
  ASSUME Entera, Nombradas, Entera', NEW v \in Valores, Retornar(v) PROVE Imita
<1>1. /\ Vuelto /\ llamadas[1].con
      /\ \A x : DestinoEs(x) => pila' = Escrita(Llamador[x] + 1, Entero(v))
  BY RetornarEscribe DEF Entera
<1>2. llamadas # <<>> /\ pc' = llamadas[1].pc
  BY <1>1 DEF Vuelto
<1>3. PICK x : DestinoEs(x)
  BY <1>2, HayDestino
<1>4. PICK k \in Nat : k = llamadas[1].contexto
  BY <1>1 DEF Vuelto
<1>5. PICK D : D = Llamador
  OBVIOUS
<1>6. D = Rehecho(pila, seg, k) /\ x \in DOMAIN D
  BY <1>1, <1>3, <1>4, <1>5 DEF DestinoEs, Llamador
<1>7. PICK otra : otra = pila'
  OBVIOUS
<1>8. otra = Escrita(D[x] + 1, Entero(v))
  BY <1>1, <1>3, <1>5, <1>7
<1>9. /\ Resta(seg, seg) = 0 /\ Resta(seg, seg) \in Nat /\ 5 * k <= Tamanio
      /\ Resta(seg, seg) + 5 * k <= Tamanio
      /\ v \in Enteros /\ pila \in [0..(Tamanio - 1) -> Celdas]
  <2>1. /\ Resta(seg, seg) = 0
        /\ 5 * k + (IF llamadas[1].con THEN 12 ELSE 8) = Distancia
    BY <1>2, <1>4, LlamadorGuardado DEF Entera
  <2>2. Distancia \in 0..Tamanio
    BY Lugares DEF Entera
  <2>3. 5 * k <= Tamanio
    BY <1>1, <2>1, <2>2, Constantes
  <2>. QED  BY <2>1, <2>3, Constantes DEF Entera, Tipos
<1>10. VariablesEn(otra, D) = [VariablesEn(pila, D) EXCEPT ![x] = v]
  BY <1>6, <1>8, <1>9, EscritoEntero
<1>11. PICK i \in 0..(k - 1) : D[x] = 0 + 5 * i
  BY <1>6, <1>9, LugarEnContexto
<1>12. Rehecho(otra, seg, k) = D
  <2>1. PICK z \in Nat : z = 0
    OBVIOUS
  <2>2. i \in Nat /\ i <= k - 1 /\ k \in Nat /\ 5 * k <= Tamanio /\ Tamanio \in Nat
    BY <1>9, Constantes
  <2>3. z + 5 * i + 5 <= Tamanio /\ z + 5 * k <= Tamanio
    BY <2>1, <2>2
  <2>4. otra = Escrita(z + 5 * i + 1, Entero(v))
    BY <1>8, <1>11, <2>1
  <2>5. \A j \in 0..(k - 1) :
          Escrita(z + 5 * i + 1, Entero(v))[z + 5 * j] = pila[z + 5 * j]
    <3>1. PICK m \in Nat, h \in 0..(k - 1) : m = k /\ h = i
      OBVIOUS
    <3>2. h \in 0..(m - 1) /\ z + 5 * h + 5 <= Tamanio /\ z + 5 * m <= Tamanio
      BY <2>3, <3>1
    <3>3. v \in Enteros /\ pila \in [0..(Tamanio - 1) -> Celdas]
      BY <1>9
    <3>4. \A j \in 0..(m - 1) : Escrita(z + 5 * h + 1, Entero(v))[z + 5 * j] = pila[z + 5 * j]
      BY <3>2, <3>3, ValorEscrito
    <3>. QED  BY <3>1, <3>4
  <2>6. \A j \in 0..(k - 1) : otra[z + 5 * j] = pila[z + 5 * j]
    BY <2>4, <2>5
  <2>7. Resta(seg, seg) = z
    BY <1>9, <2>1
  <2>8. Concuerdan(pila, otra, Resta(seg, seg), k)
    BY <2>6, <2>7 DEF Concuerdan
  <2>. QED  BY <1>6, <1>9, <2>8, RehechoIgual
<1>13. Llamador = Rehecho(pila', seg, llamadas[1].contexto)
  BY <1>4, <1>5, <1>7, <1>12
<1>14. /\ Nombradas' /\ Corre /\ Corre'
       /\ Marcos' = <<MarcoEn(pila', Llamador, 0, Nada)>>
  BY <1>1, <1>13, QuedaElLlamador
<1>15. PICK a, b : /\ a = MarcoEn(pila, D, 0, Nada)
                   /\ b = MarcoEn(pila, Corriente, llamadas[1].pc, x)
  OBVIOUS
<1>16. Marcos = <<a, b>>
  BY <1>2, <1>3, <1>5, <1>15, MarcosDos DEF Entera
<1>17. x # Nada
  BY <1>6, LugarEnContexto, NadaAssumption
<1>18. b.destino = x /\ b.vuelve = pc'
  BY <1>2, <1>15 DEF MarcoEn
<1>19. [a EXCEPT !.vars[x] = v] = MarcoEn(otra, D, 0, Nada)
  <2>1. a.vars = VariablesEn(pila, D)
    BY <1>15 DEF MarcoEn
  <2>. QED  BY <1>10, <1>15, <2>1 DEF MarcoEn
<1>20. Marcos' = <<[a EXCEPT !.vars[b.destino] = v]>>
  BY <1>5, <1>7, <1>14, <1>18, <1>19
<1>. QED  BY <1>14, <1>16, <1>17, <1>18, <1>20, PasoResultado DEF Imita
LEMMA ImitaLlamadas ==
  ASSUME Niveles <= 2, Entera, Nombradas, Entera', NEW l \in Etiquetas,
         LlamarSinRetorno(l) \/ \E n \in Nombres : LlamarConRetorno(l, n)
  PROVE  Imita
<1>1. Tipos /\ cursor \in Enteros /\ pc \in Enteros /\ \A n \in DOMAIN dic : dic[n] \in Enteros
  BY DEF Entera, Tipos, TypeOK, Enteros
<1>2. CASE LlamarSinRetorno(l)
  <2>1. PICK datos : datos = Entero(cursor) \o Entero(pc)
    OBVIOUS
  <2>2. datos \in Seq(Celdas) /\ Len(datos) = 8
    BY <1>1, <2>1, DatosTipo
  <2>3. Llamar(l, datos, FALSE)
    BY <1>2, <2>1 DEF LlamarSinRetorno
  <2>4. PICK con \in BOOLEAN : con = FALSE
    OBVIOUS
  <2>. QED  BY <2>2, <2>3, <2>4, ImitaLlamar
<1>3. ASSUME NEW n \in Nombres, LlamarConRetorno(l, n) PROVE Imita
  <2>1. EnLinea /\ n \in propias
    BY <1>3 DEF LlamarConRetorno, Llamar
  <2>2. n \in DOMAIN dic
    BY <2>1, ConVariable DEF EnLinea
  <2>3. PICK datos : datos = Entero(cursor) \o Entero(pc) \o Entero(dic[n])
    OBVIOUS
  <2>4. Llamar(l, datos, TRUE)
    BY <1>3, <2>2, <2>3 DEF LlamarConRetorno, SinVariable
  <2>5. datos \in Seq(Celdas) /\ Len(datos) = 12
    BY <1>1, <2>2, <2>3, DatosTipo
  <2>6. \A i \in 1..4 : datos[8 + i] = Entero(dic[n])[i]
    <3>1. PICK c \in Enteros : c = dic[n]
      BY <1>1, <2>2
    <3>2. PICK a \in Enteros, b \in Enteros : a = cursor /\ b = pc
      BY <1>1
    <3>3. \A i \in 1..4 : /\ (Entero(a) \o Entero(b) \o Entero(c))[i] = Entero(a)[i]
                          /\ (Entero(a) \o Entero(b) \o Entero(c))[4 + i] = Entero(b)[i]
                          /\ (Entero(a) \o Entero(b) \o Entero(c))[8 + i] = Entero(c)[i]
      BY DatosConResultado, Zenon
    <3>. QED  BY <2>3, <3>1, <3>2, <3>3
  <2>7. PICK con \in BOOLEAN : con = TRUE
    OBVIOUS
  <2>. QED  BY <2>2, <2>4, <2>5, <2>6, <2>7, ImitaLlamar
<1>. QED  BY <1>2, <1>3

\* What is promised ends with an error, or with a call from a context that is
\* Niveles deep.
LEMMA SoloLlamarAnida ==
  ASSUME Tipos, Next, anidada' # anidada
  PROVE  /\ Len(llamadas) + 1 >= Niveles /\ operacion # "ERROR" /\ operacion # "EXIT"
         /\ anidada'
<1>1. PICK l, datos, con : Llamar(l, datos, con)
  BY DEF Next, RecibirPCB, ObtenerSentencia, OtraVuelta, CambioContexto, FinalizarPrograma,
         FinalizarFuncion, Retornar, IrALabel, DefinirVariable, Dereferencia, Asignacion,
         LlamarSinRetorno, LlamarConRetorno, SinVariable, historia
<1>2. anidada \in BOOLEAN
  BY DEF Tipos, TypeOK
<1>3. EnLinea /\ anidada' = (anidada \/ (Len(llamadas) + 1 >= Niveles /\ operacion # "ERROR"))
  BY <1>1 DEF Llamar
<1>. QED  BY <1>2, <1>3 DEF EnLinea

LEMMA RompeHondo ==
  ASSUME Entera, Nombradas, Next, anidada' PROVE Abstracta!NextA
<1>1. Len(llamadas) + 1 >= Niveles /\ operacion # "EXIT"
  BY SoloLlamarAnida DEF Entera
<1>2. Corre /\ Len(Marcos) = Len(llamadas) + 1
  BY <1>1, CorreAhora, TopeEs DEF Entera
<1>3. Estado' = "rota"
  BY DEF Estado
<1>. QED  BY <1>1, <1>2, <1>3, PasoRompe

LEMMA RompeError ==
  ASSUME Entera, Nombradas, Next, ~anidada', operacion' = "ERROR" PROVE Abstracta!NextA
<1>1. operacion # "EXIT"
  <2>1. ASSUME operacion = "EXIT" PROVE FALSE
    <3>1. fase \in {"linea", "terminada"} /\ ~EnLinea
      BY <2>1 DEF Nombradas, EnLinea
    <3>2. CambioContexto
      BY <2>1, <3>1
         DEF Next, RecibirPCB, ObtenerSentencia, OtraVuelta, FinalizarPrograma, EnFin,
             FinalizarFuncion, Retornar, IrALabel, DefinirVariable, Dereferencia, Asignacion,
             LlamarSinRetorno, LlamarConRetorno, Llamar
    <3>. QED  BY <2>1, <3>2 DEF CambioContexto
  <2>. QED  BY <2>1
<1>2. Corre /\ Estado' = "error"
  BY <1>1, CorreAhora DEF Estado
<1>. QED  BY <1>2, PasoRompe

\* What no longer is promised stays so.
LEMMA RotoSigueRoto ==
  ASSUME Tipos, [Next]_vars, anidada \/ operacion = "ERROR"
  PROVE  UNCHANGED Abstracta!varsA /\ ConNombres'
<1>1. (anidada => anidada') /\ (operacion = "ERROR" /\ ~anidada' => operacion' = "ERROR")
  BY Dura
<1>2. operacion = "ERROR" => anidada' = anidada
  <2>1. CASE Next
    BY <2>1, SoloLlamarAnida
  <2>2. CASE UNCHANGED vars
    BY <2>2 DEF vars, historia
  <2>. QED  BY <2>1, <2>2
<1>3. CASE anidada
  <2>1. Estado = "rota" /\ Estado' = "rota"
    BY <1>1, <1>3 DEF Estado
  <2>. QED  BY <1>1, <1>3, <2>1, PasoIgual DEF ConNombres
<1>4. CASE ~anidada
  <2>1. operacion = "ERROR" /\ ~anidada' /\ operacion' = "ERROR"
    BY <1>1, <1>2, <1>4
  <2>2. Estado = "error" /\ Estado' = "error"
    BY <1>4, <2>1 DEF Estado
  <2>. QED  BY <2>1, <2>2, PasoIgual DEF ConNombres
<1>. QED  BY <1>3, <1>4

LEMMA ImitaPaso ==
  ASSUME Niveles <= 2, Entera, Nombradas, Entera', Next PROVE Imita
<1>1. CASE \/ RecibirPCB \/ ObtenerSentencia \/ OtraVuelta \/ CambioContexto
           \/ FinalizarPrograma \/ \E l \in Etiquetas : IrALabel(l)
  BY <1>1, ImitaLazo
<1>2. CASE FinalizarFuncion
  BY <1>2, ImitaFinalizar
<1>3. CASE \E v \in Valores : Retornar(v)
  BY <1>3, ImitaRetornar
<1>4. CASE \E l \in Etiquetas : LlamarSinRetorno(l) \/ \E n \in Nombres : LlamarConRetorno(l, n)
  BY <1>4, ImitaLlamadas
<1>5. CASE \E n \in Nombres : DefinirVariable(n)
  BY <1>5, ImitaDefinir
<1>6. CASE \E n \in Nombres : Dereferencia(n)
  BY <1>6, ImitaDereferencia
<1>7. CASE \E n \in Nombres, v \in Valores : Asignacion(n, v)
  BY <1>7, ImitaAsignacion
<1>. QED  BY <1>1, <1>2, <1>3, <1>4, <1>5, <1>6, <1>7 DEF Next

\* Each step of the CPU is one of the abstract stack, or none.
LEMMA PasoAbstracto ==
  ASSUME Niveles <= 2, Tipos, UnaLlamada, ConNombres, [Next]_vars, Tipos', UnaLlamada'
  PROVE  (Abstracta!NextA \/ UNCHANGED Abstracta!varsA) /\ ConNombres'
<1>1. CASE anidada \/ operacion = "ERROR"
  BY <1>1, RotoSigueRoto
<1>2. CASE ~anidada /\ operacion # "ERROR"
  <2>1. Entera /\ Nombradas
    BY <1>2 DEF Entera, UnaLlamada, Bien, ConNombres
  <2>2. CASE UNCHANGED vars
    <3>1. Entera'
      BY <1>2, <2>2 DEF Entera, UnaLlamada, Bien, vars, historia
    <3>2. /\ UNCHANGED <<seg, cursor, contexto, pc, pila, llamadas, propias, operacion, fase,
                         anidada>>
      BY <2>2 DEF vars, pcb, historia
    <3>3. fase' # "caida" /\ (operacion' = "EXIT" => fase' \in {"linea", "terminada"})
      BY <2>1, <3>2 DEF Nombradas
    <3>4. Marcos' = Marcos /\ Nombradas'
      BY <2>1, <3>1, <3>2, <3>3, MarcosQuietos
    <3>5. Estado' = Estado
      BY <3>2 DEF Estado
    <3>. QED  BY <3>2, <3>4, <3>5, PasoIgual DEF ConNombres
  <2>3. CASE Next /\ anidada'
    BY <2>1, <2>3, RompeHondo DEF ConNombres
  <2>4. CASE Next /\ ~anidada' /\ operacion' = "ERROR"
    BY <2>1, <2>4, RompeError DEF ConNombres
  <2>5. CASE Next /\ ~anidada' /\ operacion' # "ERROR"
    <3>1. Entera'
      BY <2>5 DEF Entera, UnaLlamada, Bien
    <3>. QED  BY <2>1, <2>5, <3>1, ImitaPaso DEF Imita, ConNombres
  <2>. QED  BY <2>2, <2>3, <2>4, <2>5
<1>. QED  BY <1>1, <1>2

LEMMA InitAbstracto == Init => Abstracta!InitA /\ ConNombres
<1>. SUFFICES ASSUME Init PROVE Abstracta!InitA /\ ConNombres
  OBVIOUS
<1>1. /\ cursor = seg /\ contexto = 0 /\ pc = 0 /\ llamadas = <<>> /\ propias = {}
      /\ operacion = "QUANTUM" /\ fase = "espera" /\ ~anidada
  BY DEF Init
<1>2. Corriente = Ninguna
  BY <1>1 DEF Corriente, Rehecho, Ninguna
<1>3. DOMAIN Ninguna = {}
  BY DEF Ninguna
<1>4. ConNombres
  BY <1>1, <1>2, <1>3 DEF ConNombres, Nombradas
<1>5. Tipos /\ Contextos /\ Fiel
  BY <1>1, InitTipos, InitUna DEF UnaLlamada, Bien
<1>6. Marcos = <<MarcoEn(pila, Ninguna, 0, Nada)>>
  BY <1>1, <1>2, <1>5, MarcosUno
<1>7. VariablesEn(pila, Ninguna) = Abstracta!Vacio
  BY <1>3 DEF VariablesEn, Abstracta!Vacio
<1>8. Marcos = <<[vars |-> Abstracta!Vacio, vuelve |-> 0, destino |-> Nada]>>
  BY <1>6, <1>7 DEF MarcoEn
<1>9. Estado = "corre"
  BY <1>1 DEF Estado
<1>. QED  BY <1>1, <1>4, <1>8, <1>9 DEF Abstracta!InitA

\* The stack of bytes, the cursor and the dictionary of a CPU implement the
\* stack of contexts of PilaAbstracta, while what is promised is at most one
\* call in progress: every definition, assignment, call, return and change of
\* CPU is one step of the abstract stack, or none.
THEOREM ImplementaPila == ASSUME Niveles <= 2 PROVE Spec => EsPila
<1>1. Init => Abstracta!InitA /\ ConNombres
  BY InitAbstracto
<1>2. ASSUME Tipos, UnaLlamada, Tipos', UnaLlamada', ConNombres, [Next]_vars
      PROVE  [Abstracta!NextA]_(Abstracta!varsA) /\ ConNombres'
  BY <1>2, PasoAbstracto
<1>. QED  BY <1>1, <1>2, SpecUna, PTL DEF Spec, EsPila, Abstracta!SpecA
=============================================================================
