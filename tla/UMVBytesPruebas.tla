-------------------------- MODULE UMVBytesPruebas ---------------------------
(* Compaction carries the bytes of every segment, for every memory size:   *)
(* proof of ConservaDatos; and the memory of the UMV implements            *)
(* MemoriaAbstracta: proof of EsMemoria.                                   *)
(*                                                                         *)
(* Each step of compactacion is a transfer (Traslado): a one-to-one map of *)
(* the live positions of the list onto the live positions after the step   *)
(* that keeps identifier and contents.  Teselado says that the bytes a     *)
(* memcpy writes belong to no other segment.                               *)
EXTENDS UMVBytes, UMVMemoriaPruebas

USE LimiteAssumption

\* the segment in b is the one in a, with its contents
Iguala(a, b) ==
  /\ b.pid = a.pid /\ b.base = a.base /\ b.size >= a.size
  /\ \A x \in 0..(a.size - 1) : bytes'[b.mem + x] = bytes[a.mem + x]

Traslado(f) ==
  /\ f \in [Vivos -> Vivos']
  /\ \A i, j \in Vivos : f[i] = f[j] => i = j
  /\ \A j \in Vivos' : \E i \in Vivos : f[i] = j
  /\ \A i \in Vivos : Iguala(segs[i], segs'[f[i]])

\* between the hole that was enlarged and the segment that moved there are
\* only holes
HuecosEnMedio ==
  fase = "consumir" =>
    /\ segs[ocupado].res = 1
    /\ \A j \in (nodo + 1)..(ocupado - 1) : segs[j].res = 0

\* the request in progress is one a client made
PedidoReal ==
  /\ pedido = SinPedido \/ (pedido.pid \in Pids /\ pedido.tam \in Tamanios)
  /\ fase = "crear" => pedido.pid \in Pids /\ pedido.tam \in Tamanios

InvBytes == InvMemoria /\ PedidoReal /\ (desvio = 0 => HuecosEnMedio)

-----------------------------------------------------------------------------
(* Where the segments are                                                  *)

\* Every segment of a tiled memory is inside it.
LEMMA Acotados ==
  ASSUME NEW s, Numeros(s), Contiguos(s), Ordenados(s), NEW l \in Nat,
         l + Inicio(s, Len(s) + 1) = Malloc, NEW i \in 1..Len(s)
  PROVE  s[i].mem >= 0 /\ s[i].mem + s[i].size <= Malloc
<1>1. /\ Len(s) \in Nat /\ Len(s) >= 1
      /\ \A j \in 1..Len(s) : s[j].mem \in Int /\ s[j].size \in Nat
  BY DEF Numeros
<1>2. s[1].mem = 0
  BY <1>1 DEF Contiguos, Inicio
<1>3. s[i].mem >= 0
  <2>1. CASE i = 1
    BY <1>2, <2>1
  <2>2. CASE i # 1
    <3>1. s[1].mem + s[1].size <= s[i].mem
      BY <1>1, <2>2 DEF Ordenados
    <3>2. s[1].size \in Nat /\ s[i].mem \in Int
      BY <1>1
    <3>. QED  BY <1>2, <3>1, <3>2
  <2>. QED  BY <2>1, <2>2
<1>4. Inicio(s, Len(s) + 1) = s[Len(s)].mem + s[Len(s)].size
  BY <1>1 DEF Inicio
<1>5. s[i].mem + s[i].size <= s[Len(s)].mem + s[Len(s)].size
  <2>1. CASE i = Len(s)
    BY <1>1, <2>1
  <2>2. CASE i # Len(s)
    <3>1. s[i].mem + s[i].size <= s[Len(s)].mem
      BY <1>1, <2>2 DEF Ordenados
    <3>2. /\ s[i].mem + s[i].size \in Int /\ s[Len(s)].mem \in Int
          /\ s[Len(s)].size \in Nat
      BY <1>1
    <3>. QED  BY <3>1, <3>2
  <2>. QED  BY <2>1, <2>2
<1>6. /\ s[i].mem + s[i].size \in Int /\ s[Len(s)].mem + s[Len(s)].size \in Int
      /\ l + (s[Len(s)].mem + s[Len(s)].size) = Malloc
  BY <1>1, <1>4, SMTT(20)
<1>. QED  BY <1>3, <1>5, <1>6, MallocAssumption

-----------------------------------------------------------------------------
(* A segment moves to the hole at nodo                                     *)

\* r fills the hole at nodo; the segments that are neither keep their place
Llena(r) ==
  /\ fase = "compactar"
  /\ nodo \in 1..Len(segs) /\ r \in 1..Len(segs) /\ nodo < r
  /\ segs[nodo].res = 0 /\ segs[r].res = 1
  /\ \A j \in (nodo + 1)..(r - 1) : segs[j].res = 0
  /\ Len(segs') = Len(segs)
  /\ segs'[nodo].pid = segs[r].pid /\ segs'[nodo].base = segs[r].base
  /\ segs'[nodo].mem = segs[nodo].mem /\ segs'[nodo].size >= segs[r].size
  /\ segs'[nodo].res = 1
  /\ \A j \in 1..Len(segs) : j # nodo /\ j # r =>
       /\ segs'[j].res = segs[j].res
       /\ segs[j].res = 1 => segs'[j] = segs[j]
  /\ bytes' = Adelante(segs[nodo].mem, segs[r].mem, segs[r].size)

\* The bytes that are copied arrive, and no byte of another segment changes.
LEMMA LlenaIguala ==
  ASSUME TypeOK, Teselado, NEW r, Llena(r)
  PROVE  /\ Iguala(segs[r], segs'[nodo])
         /\ \A j \in 1..Len(segs) : j # r /\ segs[j].res = 1 =>
              Iguala(segs[j], segs'[j])
<1>1. /\ nodo \in 1..Len(segs) /\ r \in 1..Len(segs) /\ nodo < r
      /\ segs[nodo].res = 0
      /\ \A j \in (nodo + 1)..(r - 1) : segs[j].res = 0
      /\ segs'[nodo].pid = segs[r].pid /\ segs'[nodo].base = segs[r].base
      /\ segs'[nodo].mem = segs[nodo].mem /\ segs'[nodo].size >= segs[r].size
      /\ \A j \in 1..Len(segs) :
           j # nodo /\ j # r /\ segs[j].res = 1 => segs'[j] = segs[j]
      /\ bytes' = Adelante(segs[nodo].mem, segs[r].mem, segs[r].size)
  BY DEF Llena
<1>2. /\ Contiguos(segs) /\ Ordenados(segs)
      /\ libre + Inicio(segs, Len(segs) + 1) = Malloc
  BY DEF Llena, Teselado, TeselaCompactar, TeselaEntera
<1>3. Numeros(segs) /\ libre \in Nat
  BY NumerosTipo DEF TypeOK
<1>4. \A j \in 1..Len(segs) :
        /\ segs[j].mem \in Int /\ segs[j].size \in Nat
        /\ segs[j].mem >= 0 /\ segs[j].mem + segs[j].size <= Malloc
  BY <1>2, <1>3, Acotados DEF Numeros
<1>5. PICK d \in Int, o \in Int, n \in Nat, h \in Nat :
        /\ d = segs[nodo].mem /\ o = segs[r].mem /\ n = segs[r].size
        /\ h = segs[nodo].size
  BY <1>1, <1>4
<1>6. d >= 0 /\ d + h <= o /\ o + n <= Malloc
  BY <1>1, <1>2, <1>4, <1>5 DEF Ordenados
<1>7. \A a \in Direcciones :
        bytes'[a] = IF a \in d..(d + n - 1) THEN bytes[o + (a - d)] ELSE bytes[a]
  BY <1>1, <1>5 DEF Adelante
<1>8. Iguala(segs[r], segs'[nodo])
  <2>1. ASSUME NEW x \in 0..(n - 1)
        PROVE  bytes'[d + x] = bytes[o + x]
    <3>1. d + x \in Direcciones /\ d + x \in d..(d + n - 1)
      BY <1>6, MallocAssumption DEF Direcciones
    <3>2. o + ((d + x) - d) = o + x
      OBVIOUS
    <3>. QED  BY <1>7, <3>1, <3>2
  <2>. QED  BY <1>1, <1>5, <2>1 DEF Iguala
<1>9. ASSUME NEW j \in 1..Len(segs), j # r, segs[j].res = 1
      PROVE  Iguala(segs[j], segs'[j])
  <2>1. j # nodo /\ segs'[j] = segs[j]
    BY <1>1, <1>9
  <2>2. PICK m \in Int, t \in Nat :
          m = segs[j].mem /\ t = segs[j].size /\ m >= 0 /\ m + t <= Malloc
    BY <1>4
  <2>3. m + t <= d \/ m >= o + n
    <3>1. CASE j < nodo
      BY <1>1, <1>2, <1>5, <2>2, <3>1 DEF Ordenados
    <3>2. CASE j > r
      BY <1>1, <1>2, <1>5, <2>2, <3>2 DEF Ordenados
    <3>3. CASE j > nodo /\ j < r
      <4>1. j \in (nodo + 1)..(r - 1)
        BY <1>1, <3>3
      <4>. QED  BY <1>1, <1>9, <4>1
    <3>. QED  BY <1>1, <1>9, <2>1, <3>1, <3>2, <3>3
  <2>4. ASSUME NEW x \in 0..(t - 1)
        PROVE  bytes'[m + x] = bytes[m + x]
    <3>1. m + x \in Direcciones /\ m + x \notin d..(d + n - 1)
      <4>1. x \in Int /\ x >= 0 /\ x < t /\ m >= 0 /\ m + t <= Malloc
        BY <2>2
      <4>2. m + x \in Direcciones
        BY <4>1, MallocAssumption DEF Direcciones
      <4>3. d <= o
        BY <1>6
      <4>4. m + x < d \/ m + x >= d + n
        BY <2>3, <4>1, <4>3
      <4>. QED  BY <4>2, <4>4
    <3>. QED  BY <1>7, <3>1
  <2>. QED  BY <2>1, <2>2, <2>4 DEF Iguala
<1>. QED  BY <1>8, <1>9
\* What is known of a hole and of the segment that will fill it.
LEMMA HuecoYSegmento ==
  ASSUME TypeOK, NEW r, HuecoPara(r)
  PROVE  /\ fase = "compactar"
         /\ nodo \in 1..Len(segs) /\ r \in 1..Len(segs) /\ nodo < r
         /\ segs[nodo].res = 0 /\ segs[r].res = 1
         /\ \A j \in (nodo + 1)..(r - 1) : segs[j].res = 0
         /\ segs[nodo].mem \in Int /\ segs[nodo].size \in Nat
         /\ segs[r].size \in Nat
  BY HuecoTipo DEF HuecoPara, EsPrimerReservado

\* The list after a hole and, perhaps, what follows it are rewritten.
LEMMA DosCambios ==
  ASSUME TypeOK, NEW r, HuecoPara(r), NEW t \in Nat, t >= segs[r].size,
         Copia(r), "atras" \notin Sentidos,
         NEW u, Len(u) = Len(segs), segs' = u, u[nodo] = Movido(r, t),
         \A j \in 1..Len(segs) : j # nodo /\ j # r =>
           /\ u[j].res = segs[j].res
           /\ segs[j].res = 1 => u[j] = segs[j]
  PROVE  Llena(r)
<1>1. /\ Movido(r, t).pid = segs[r].pid /\ Movido(r, t).base = segs[r].base
      /\ Movido(r, t).mem = segs[nodo].mem /\ Movido(r, t).size = t
      /\ Movido(r, t).res = 1
  BY DEF Movido, Reservado
<1>2. bytes' = Adelante(segs[nodo].mem, segs[r].mem, segs[r].size)
  BY DEF Copia
<1>. QED  BY <1>1, <1>2, HuecoYSegmento DEF Llena

\* The five ways of filling a hole.
LEMMA MudaLlena ==
  ASSUME TypeOK, "atras" \notin Sentidos, Muda
  PROVE  \E r \in DOMAIN segs :
           /\ Llena(r)
           /\ \/ fase' # "consumir" /\ segs'[r].res = 0
              \/ /\ fase' = "consumir" /\ ocupado' = r /\ segs'[r].res = 1
                 /\ nodo' = nodo
<1>0. segs \in Seq(Segmento) /\ Len(segs) \in Nat /\ DOMAIN segs = 1..Len(segs)
  BY DEF TypeOK
<1>1. CASE MueveAMayor /\ Copia(nodo + 1)
  <2> DEFINE r == nodo + 1
             t == segs[nodo].size - (segs[nodo].size - segs[nodo].size)
             b == Corrido(Liberado(segs[r]), -(segs[nodo].size - segs[nodo].size))
  <2>1. /\ HuecoPara(r) /\ segs[nodo].size > segs[r].size
        /\ segs' = [segs EXCEPT ![nodo] = Movido(r, t), ![r] = b]
        /\ fase' # "consumir"
    BY <1>1 DEF MueveAMayor, SoloMueve, PasaAlSiguiente
  <2>2. segs[nodo].size \in Nat /\ segs[r].size \in Nat /\ r \in 1..Len(segs)
        /\ nodo \in 1..Len(segs) /\ nodo # r
    BY <2>1, HuecoYSegmento
  <2>3. t \in Nat /\ t >= segs[r].size
    BY <2>1, <2>2
  <2>4. b.res = 0
    BY DEF Corrido, Liberado, Hueco
  <2> HIDE DEF t, b
  <2>5. /\ Len([segs EXCEPT ![nodo] = Movido(r, t), ![r] = b]) = Len(segs)
        /\ [segs EXCEPT ![nodo] = Movido(r, t), ![r] = b][nodo] = Movido(r, t)
        /\ [segs EXCEPT ![nodo] = Movido(r, t), ![r] = b][r] = b
        /\ \A j \in 1..Len(segs) : j # nodo /\ j # r =>
             [segs EXCEPT ![nodo] = Movido(r, t), ![r] = b][j] = segs[j]
    BY <1>0, <2>2
  <2>6. Llena(r)
    BY <1>1, <2>1, <2>3, <2>5, DosCambios
  <2>. QED  BY <1>0, <2>1, <2>2, <2>4, <2>5, <2>6
<1>2. CASE MueveAMenor /\ Copia(nodo + 1)
  <2> DEFINE r == nodo + 1
             d == segs[r].size - segs[nodo].size
             t == segs[nodo].size + d
             b == Corrido(Liberado(segs[r]), d)
  <2>1. /\ HuecoPara(r) /\ segs' = [segs EXCEPT ![nodo] = Movido(r, t), ![r] = b]
        /\ fase' # "consumir"
    BY <1>2 DEF MueveAMenor, SoloMueve, PasaAlSiguiente
  <2>2. segs[nodo].size \in Nat /\ segs[r].size \in Nat /\ r \in 1..Len(segs)
        /\ nodo \in 1..Len(segs) /\ nodo # r
    BY <2>1, HuecoYSegmento
  <2>3. t \in Nat /\ t >= segs[r].size
    BY <2>2
  <2>4. b.res = 0
    BY DEF Corrido, Liberado, Hueco
  <2> HIDE DEF t, b, d
  <2>5. /\ Len([segs EXCEPT ![nodo] = Movido(r, t), ![r] = b]) = Len(segs)
        /\ [segs EXCEPT ![nodo] = Movido(r, t), ![r] = b][nodo] = Movido(r, t)
        /\ [segs EXCEPT ![nodo] = Movido(r, t), ![r] = b][r] = b
        /\ \A j \in 1..Len(segs) : j # nodo /\ j # r =>
             [segs EXCEPT ![nodo] = Movido(r, t), ![r] = b][j] = segs[j]
    BY <1>0, <2>2
  <2>6. Llena(r)
    BY <1>2, <2>1, <2>3, <2>5, DosCambios
  <2>. QED  BY <1>0, <2>1, <2>2, <2>4, <2>5, <2>6
<1>3. ASSUME NEW r \in DOMAIN segs, MueveAIgual(r), Copia(r)
      PROVE  Llena(r) /\ fase' # "consumir" /\ segs'[r].res = 0
  <2> DEFINE t == segs[nodo].size
             b == Hueco(segs[r].base + 1, segs[r].mem, segs[r].size)
  <2>1. /\ HuecoPara(r) /\ segs[nodo].size = segs[r].size
        /\ segs' = [segs EXCEPT ![nodo] = Movido(r, t), ![r] = b]
        /\ fase' # "consumir"
    BY <1>3 DEF MueveAIgual, SoloMueve, PasaAlSiguiente
  <2>2. segs[nodo].size \in Nat /\ segs[r].size \in Nat /\ r \in 1..Len(segs)
        /\ nodo \in 1..Len(segs) /\ nodo # r
    BY <2>1, HuecoYSegmento
  <2>3. t \in Nat /\ t >= segs[r].size
    BY <2>1, <2>2
  <2>4. b.res = 0
    BY DEF Hueco
  <2> HIDE DEF t, b
  <2>5. /\ Len([segs EXCEPT ![nodo] = Movido(r, t), ![r] = b]) = Len(segs)
        /\ [segs EXCEPT ![nodo] = Movido(r, t), ![r] = b][nodo] = Movido(r, t)
        /\ [segs EXCEPT ![nodo] = Movido(r, t), ![r] = b][r] = b
        /\ \A j \in 1..Len(segs) : j # nodo /\ j # r =>
             [segs EXCEPT ![nodo] = Movido(r, t), ![r] = b][j] = segs[j]
    BY <1>0, <2>2
  <2>6. Llena(r)
    BY <1>3, <2>1, <2>3, <2>5, DosCambios
  <2>. QED  BY <2>1, <2>4, <2>5, <2>6
<1>4. ASSUME NEW r \in DOMAIN segs, MueveSeparado(r), Copia(r)
      PROVE  Llena(r) /\ fase' # "consumir" /\ segs'[r].res = 0
  <2> DEFINE d == segs[nodo].size - segs[r].size
             t == segs[nodo].size - d
             q == nodo + 1
             c == Corrido(segs[q], -d)
             b == Liberado(segs[r])
  <2>1. /\ HuecoPara(r) /\ r > q
        /\ segs' = [segs EXCEPT ![nodo] = Movido(r, t), ![q] = c, ![r] = b]
        /\ fase' # "consumir"
    BY <1>4 DEF MueveSeparado, SoloMueve, PasaAlSiguiente
  <2>2. /\ segs[nodo].size \in Nat /\ segs[r].size \in Nat /\ r \in 1..Len(segs)
        /\ nodo \in 1..Len(segs) /\ nodo # r /\ q \in 1..Len(segs)
        /\ nodo # q /\ q # r /\ segs[q].res = 0
    BY <2>1, HuecoYSegmento, SMTT(20)
  <2>3. t \in Nat /\ t >= segs[r].size
    BY <2>2
  <2>4. b.res = 0 /\ c.res = 0
    BY <2>2 DEF Corrido, Liberado, Hueco
  <2> DEFINE u == [segs EXCEPT ![nodo] = Movido(r, t), ![q] = c, ![r] = b]
  <2>5. /\ Len(u) = Len(segs) /\ u[nodo] = Movido(r, t) /\ u[r] = b /\ u[q] = c
        /\ \A j \in 1..Len(segs) : j # nodo /\ j # r /\ j # q => u[j] = segs[j]
    <3> HIDE DEF t, b, c, d, q
    <3>. QED  BY <1>0, <2>2
  <2>6. /\ segs' = u
        /\ \A j \in 1..Len(segs) : j # nodo /\ j # r =>
             /\ u[j].res = segs[j].res
             /\ segs[j].res = 1 => u[j] = segs[j]
    <3> HIDE DEF t, b, c, d, q
    <3>1. segs' = u
      BY <2>1
    <3>. HIDE DEF u
    <3>. QED  BY <2>2, <2>4, <2>5, <3>1
  <2> HIDE DEF t, u
  <2>7. Llena(r)
    BY <1>4, <2>1, <2>3, <2>5, <2>6, DosCambios
  <2>. QED  BY <2>1, <2>4, <2>5, <2>6, <2>7
<1>5. ASSUME NEW r \in DOMAIN segs, AgrandaHueco(r), Copia(r)
      PROVE  /\ Llena(r) /\ fase' = "consumir" /\ ocupado' = r
             /\ segs'[r].res = 1 /\ nodo' = nodo
  <2> DEFINE t == segs[r].size
  <2>1. /\ HuecoPara(r) /\ segs' = [segs EXCEPT ![nodo] = Movido(r, t)]
        /\ fase' = "consumir" /\ ocupado' = r /\ nodo' = nodo
    BY <1>5 DEF AgrandaHueco
  <2>2. /\ segs[r].size \in Nat /\ r \in 1..Len(segs) /\ segs[r].res = 1
        /\ nodo \in 1..Len(segs) /\ nodo # r
    BY <2>1, HuecoYSegmento
  <2>3. t \in Nat /\ t >= segs[r].size
    BY <2>2
  <2> HIDE DEF t
  <2>4. /\ Len([segs EXCEPT ![nodo] = Movido(r, t)]) = Len(segs)
        /\ [segs EXCEPT ![nodo] = Movido(r, t)][nodo] = Movido(r, t)
        /\ \A j \in 1..Len(segs) : j # nodo =>
             [segs EXCEPT ![nodo] = Movido(r, t)][j] = segs[j]
    BY <1>0, <2>2
  <2>5. Llena(r)
    BY <1>5, <2>1, <2>3, <2>4, DosCambios
  <2>. QED  BY <2>1, <2>2, <2>4, <2>5
<1>. QED  BY <1>1, <1>2, <1>3, <1>4, <1>5 DEF Muda
\* Filling a hole is a transfer, and leaves only holes in between.
LEMMA MudaTraslada ==
  ASSUME TypeOK, Teselado, "atras" \notin Sentidos, Muda
  PROVE  (\E f : Traslado(f)) /\ HuecosEnMedio'
<1>1. PICK r \in DOMAIN segs :
        /\ Llena(r)
        /\ \/ fase' # "consumir" /\ segs'[r].res = 0
           \/ /\ fase' = "consumir" /\ ocupado' = r /\ segs'[r].res = 1
              /\ nodo' = nodo
  BY MudaLlena
<1>2. /\ fase = "compactar" /\ nodo \in 1..Len(segs) /\ r \in 1..Len(segs)
      /\ nodo < r /\ segs[nodo].res = 0 /\ segs[r].res = 1
      /\ \A j \in (nodo + 1)..(r - 1) : segs[j].res = 0
      /\ Len(segs') = Len(segs) /\ segs'[nodo].res = 1
      /\ \A j \in 1..Len(segs) : j # nodo /\ j # r => segs'[j].res = segs[j].res
  BY <1>1 DEF Llena
<1>3. DOMAIN segs = 1..Len(segs) /\ DOMAIN segs' = 1..Len(segs)
  <2>1. segs \in Seq(Segmento)
    BY DEF TypeOK
  <2>2. DOMAIN segs' = 1..Len(segs)
    BY <2>1 DEF Muda, MueveAMayor, MueveAMenor, MueveAIgual,
       MueveSeparado, AgrandaHueco
  <2>. QED  BY <2>1, <2>2
<1> DEFINE f == [i \in Vivos |-> IF i = r THEN nodo ELSE i]
<1>4. Vivos = {k \in 1..Len(segs) : segs[k].res = 1}
  BY <1>2, <1>3 DEF Vivos
<1>5. Vivos' = {k \in 1..Len(segs) : k = nodo \/ (k # r /\ segs[k].res = 1)}
  BY <1>1, <1>2, <1>3 DEF Vivos
<1>6. Iguala(segs[r], segs'[nodo])
      /\ \A j \in 1..Len(segs) : j # r /\ segs[j].res = 1 => Iguala(segs[j], segs'[j])
  BY <1>1, LlenaIguala
<1>7. f \in [Vivos -> Vivos']
  BY <1>2, <1>4, <1>5
<1>8. \A i, j \in Vivos : f[i] = f[j] => i = j
  BY <1>2, <1>4
<1>9. \A j \in Vivos' : \E i \in Vivos : f[i] = j
  <2>. SUFFICES ASSUME NEW j \in Vivos' PROVE \E i \in Vivos : f[i] = j
    OBVIOUS
  <2>1. CASE j = nodo
    <3>1. r \in Vivos /\ f[r] = nodo
      BY <1>2, <1>4
    <3>. QED  BY <2>1, <3>1
  <2>2. CASE j # nodo
    <3>1. j \in Vivos /\ f[j] = j
      BY <1>4, <1>5, <2>2
    <3>. QED  BY <3>1
  <2>. QED  BY <2>1, <2>2
<1>10. \A i \in Vivos : Iguala(segs[i], segs'[f[i]])
  <2>. SUFFICES ASSUME NEW i \in Vivos PROVE Iguala(segs[i], segs'[f[i]])
    OBVIOUS
  <2>1. CASE i = r
    <3>1. f[i] = nodo
      BY <2>1
    <3>. HIDE DEF f
    <3>. QED  BY <1>6, <2>1, <3>1
  <2>2. CASE i # r
    <3>1. f[i] = i /\ i \in 1..Len(segs) /\ segs[i].res = 1
      BY <1>4, <2>2
    <3>. HIDE DEF f
    <3>. QED  BY <1>6, <2>2, <3>1
  <2>. QED  BY <2>1, <2>2
<1>11. Traslado(f)
  <2>. HIDE DEF f
  <2>. QED  BY <1>7, <1>8, <1>9, <1>10 DEF Traslado
<1>12. HuecosEnMedio'
  <2>. SUFFICES ASSUME fase' = "consumir"
                PROVE  /\ segs'[ocupado'].res = 1
                       /\ \A j \in (nodo' + 1)..(ocupado' - 1) : segs'[j].res = 0
    BY DEF HuecosEnMedio
  <2>1. ocupado' = r /\ nodo' = nodo /\ segs'[r].res = 1
    BY <1>1
  <2>2. ASSUME NEW j \in (nodo + 1)..(r - 1)
        PROVE  segs'[j].res = 0
    <3>1. j \in 1..Len(segs) /\ j # nodo /\ j # r
      BY <1>2
    <3>. QED  BY <1>2, <3>1
  <2>. QED  BY <2>1, <2>2
<1>. QED  BY <1>11, <1>12

-----------------------------------------------------------------------------
(* The steps that copy nothing                                             *)

\* The segments that live keep identifier and bytes where nothing is written.
LEMMA MismoSegmento ==
  ASSUME NEW a, NEW b, b.pid = a.pid, b.base = a.base, b.mem = a.mem,
         b.size = a.size, a.size \in Nat, bytes' = bytes
  PROVE  Iguala(a, b)
  BY DEF Iguala

\* The list is left as it is.
LEMMA QuietaTraslada ==
  ASSUME TypeOK, bytes' = bytes, Vivos' = Vivos,
         \A i \in Vivos : segs'[i] = segs[i]
  PROVE  \E f : Traslado(f)
<1> DEFINE f == [i \in Vivos |-> i]
<1>1. \A i \in Vivos : Iguala(segs[i], segs'[f[i]])
  <2>. SUFFICES ASSUME NEW i \in Vivos PROVE Iguala(segs[i], segs'[f[i]])
    OBVIOUS
  <2>1. segs \in Seq(Segmento) /\ i \in 1..Len(segs)
    BY DEF TypeOK, Vivos
  <2>2. segs[i].size \in Nat
    BY <2>1, CamposTipo
  <2>. QED  BY <2>2, MismoSegmento
<1>2. Traslado(f)
  BY <1>1 DEF Traslado
<1>. QED  BY <1>2

\* A node that does not live leaves the list.
LEMMA QuitaTraslada ==
  ASSUME TypeOK, bytes' = bytes, NEW m \in 1..Len(segs), m \notin Vivos,
         Len(segs') = Len(segs) - 1, DOMAIN segs' = 1..(Len(segs) - 1),
         Vivos' = {j \in 1..(Len(segs) - 1) :
                     (IF j < m THEN j ELSE j + 1) \in Vivos},
         \A j \in Vivos' : segs'[j] = segs[IF j < m THEN j ELSE j + 1]
  PROVE  \E f : Traslado(f)
<1> DEFINE f == [i \in Vivos |-> IF i < m THEN i ELSE i - 1]
<1>1. segs \in Seq(Segmento) /\ Len(segs) \in Nat /\ Vivos \subseteq 1..Len(segs)
  BY DEF TypeOK, Vivos
<1>2. ASSUME NEW i \in Vivos
      PROVE  /\ f[i] \in Vivos'
             /\ (IF f[i] < m THEN f[i] ELSE f[i] + 1) = i
  <2>1. i \in 1..Len(segs) /\ i # m
    BY <1>1
  <2>2. CASE i < m
    BY <1>1, <2>1, <2>2
  <2>3. CASE i > m
    <3>1. f[i] = i - 1 /\ i - 1 >= m /\ (i - 1) + 1 = i /\ i - 1 \in 1..(Len(segs) - 1)
      BY <1>1, <2>1, <2>3
    <3>. HIDE DEF f
    <3>. QED  BY <1>1, <2>1, <2>3, <3>1
  <2>. QED  BY <2>1, <2>2, <2>3
<1>3. ASSUME NEW j \in Vivos'
      PROVE  \E i \in Vivos : f[i] = j
  <2>1. CASE j < m
    BY <2>1
  <2>2. CASE ~(j < m)
    <3>1. j + 1 \in Vivos /\ j \in Int
      BY <2>2
    <3>2. ~(j + 1 < m) /\ (j + 1) - 1 = j
      BY <2>2, <3>1
    <3>3. f[j + 1] = j
      BY <3>1, <3>2
    <3>. QED  BY <3>1, <3>3
  <2>. QED  BY <2>1, <2>2
<1>4. f = [i \in Vivos |-> f[i]]
  OBVIOUS
<1> HIDE DEF f
<1>5. f \in [Vivos -> Vivos']
  BY <1>2, <1>4
<1>6. \A i, j \in Vivos : f[i] = f[j] => i = j
  BY <1>2
<1>7. \A i \in Vivos : Iguala(segs[i], segs'[f[i]])
  <2>. SUFFICES ASSUME NEW i \in Vivos PROVE Iguala(segs[i], segs'[f[i]])
    OBVIOUS
  <2>1. segs'[f[i]] = segs[i]
    BY <1>2
  <2>2. segs[i].size \in Nat
    BY <1>1, CamposTipo
  <2>. QED  BY <2>1, <2>2, MismoSegmento
<1>8. Traslado(f)
  BY <1>3, <1>5, <1>6, <1>7 DEF Traslado
<1>. QED  BY <1>8
\* The last part of the difference comes from the front of the next hole.
LEMMA RecortaTraslada ==
  ASSUME TypeOK, CursorValido, Teselado, HuecosEnMedio, RecortaSiguiente,
         bytes' = bytes
  PROVE  (\E f : Traslado(f)) /\ HuecosEnMedio'
<1> DEFINE c == Corrido(segs[siguiente], dif)
           s == [segs EXCEPT ![siguiente] = c]
           b == Liberado(s[ocupado])
<1>1. /\ fase = "consumir" /\ segs' = [s EXCEPT ![ocupado] = b]
      /\ PasaAlSiguiente(segs, nodo)
  BY DEF RecortaSiguiente
<1>2. fase' # "consumir"
  BY <1>1 DEF PasaAlSiguiente
<1>3. /\ segs \in Seq(Segmento) /\ nodo \in 1..Len(segs)
      /\ siguiente \in 1..Len(segs) /\ ocupado \in 1..Len(segs)
      /\ siguiente = nodo + 1 /\ siguiente <= ocupado
      /\ segs[ocupado].res = 1
      /\ \A j \in (nodo + 1)..(ocupado - 1) : segs[j].res = 0
  BY <1>1, PosicionesTipo DEF HuecosEnMedio, Teselado, TeselaConsumir
<1>4. b.res = 0 /\ (siguiente # ocupado => segs[siguiente].res = 0 /\ c.res = 0)
  <2>1. b.res = 0
    BY DEF Liberado, Hueco
  <2>2. siguiente # ocupado => segs[siguiente].res = 0
    BY <1>3
  <2>3. c.res = segs[siguiente].res
    BY DEF Corrido
  <2>. QED  BY <2>1, <2>2, <2>3
<1> HIDE DEF b, c
<1>5. /\ DOMAIN segs' = 1..Len(segs) /\ segs'[ocupado] = b
      /\ siguiente # ocupado => segs'[siguiente] = c
      /\ \A j \in 1..Len(segs) : j # siguiente /\ j # ocupado => segs'[j] = segs[j]
  BY <1>1, <1>3
<1>6. Vivos = {k \in 1..Len(segs) : segs[k].res = 1 /\ k # ocupado}
  BY <1>1, <1>3 DEF Vivos
<1>7. Vivos' = {k \in 1..Len(segs) : segs'[k].res = 1}
  BY <1>2, <1>5 DEF Vivos
<1>8. Vivos' = Vivos /\ \A i \in Vivos : segs'[i] = segs[i]
  <2>1. ASSUME NEW k \in 1..Len(segs)
        PROVE  /\ segs'[k].res = 1 <=> segs[k].res = 1 /\ k # ocupado
               /\ segs[k].res = 1 /\ k # ocupado => segs'[k] = segs[k]
    <3>1. CASE k = ocupado
      BY <1>4, <1>5, <3>1
    <3>2. CASE k # ocupado /\ k = siguiente
      BY <1>4, <1>5, <3>2
    <3>3. CASE k # ocupado /\ k # siguiente
      BY <1>5, <3>3
    <3>. QED  BY <3>1, <3>2, <3>3
  <2>. QED  BY <1>6, <1>7, <2>1
<1>9. \E f : Traslado(f)
  BY <1>8, QuietaTraslada
<1>. QED  BY <1>2, <1>9 DEF HuecosEnMedio

\* The whole of the next hole is used and its node leaves the list.
LEMMA ConsumeTraslada ==
  ASSUME TypeOK, CursorValido, Teselado, HuecosEnMedio, SigueConsumiendo,
         desvio' = 0, bytes' = bytes
  PROVE  (\E f : Traslado(f)) /\ HuecosEnMedio'
<1> DEFINE m == nodo + 1
<1>1. /\ fase = "consumir" /\ fase' = "consumir"
      /\ m \in 1..Len(segs) /\ segs' = QuitaPos(segs, m)
      /\ nodo' = Baja(nodo, m) /\ ocupado' = Baja(ocupado, m)
      /\ siguiente < ocupado
  <2>1. fase = "consumir" /\ fase' = "consumir"
    BY DEF SigueConsumiendo
  <2>. QED  BY <2>1, EfectoConsumir
<1>2. /\ segs \in Seq(Segmento) /\ Len(segs) \in Nat /\ nodo \in 1..Len(segs)
      /\ ocupado \in 1..Len(segs) /\ siguiente = m
      /\ segs[ocupado].res = 1
      /\ \A j \in m..(ocupado - 1) : segs[j].res = 0
  BY <1>1, PosicionesTipo DEF HuecosEnMedio, Teselado, TeselaConsumir, TypeOK
<1>3. nodo' = nodo /\ ocupado' = ocupado - 1 /\ ocupado > m
  BY <1>1, <1>2 DEF Baja
<1>4. /\ Len(segs') = Len(segs) - 1 /\ DOMAIN segs' = 1..(Len(segs) - 1)
      /\ \A j \in 1..(Len(segs) - 1) :
           segs'[j] = segs[IF j < m THEN j ELSE j + 1]
  BY <1>1, <1>2, QuitaPosTipo DEF QuitaPos
<1>5. Vivos = {k \in 1..Len(segs) : segs[k].res = 1 /\ k # ocupado}
  BY <1>1, <1>2 DEF Vivos
<1>6. Vivos' = {j \in 1..(Len(segs) - 1) : segs'[j].res = 1 /\ j # ocupado - 1}
  BY <1>1, <1>3, <1>4 DEF Vivos
<1>7. m \notin Vivos
  BY <1>2, <1>3, <1>5
<1>8. Vivos' = {j \in 1..(Len(segs) - 1) : (IF j < m THEN j ELSE j + 1) \in Vivos}
  <2>1. ASSUME NEW j \in 1..(Len(segs) - 1)
        PROVE  segs'[j].res = 1 /\ j # ocupado - 1
                 <=> (IF j < m THEN j ELSE j + 1) \in Vivos
    <3>1. CASE j < m
      <4>1. j \in 1..Len(segs) /\ j # ocupado /\ j # ocupado - 1 /\ segs'[j] = segs[j]
        BY <1>2, <1>3, <1>4, <3>1
      <4>. QED  BY <1>5, <3>1, <4>1
    <3>2. CASE ~(j < m)
      <4>1. /\ j + 1 \in 1..Len(segs) /\ segs'[j] = segs[j + 1]
            /\ j + 1 = ocupado <=> j = ocupado - 1
        BY <1>2, <1>4, <3>2
      <4>. QED  BY <1>5, <3>2, <4>1
    <3>. QED  BY <3>1, <3>2
  <2>. QED  BY <1>6, <2>1
<1>9. \E f : Traslado(f)
  <2>1. \A j \in Vivos' : segs'[j] = segs[IF j < m THEN j ELSE j + 1]
    BY <1>4, <1>6
  <2>. QED  BY <1>1, <1>4, <1>7, <1>8, <2>1, QuitaTraslada
<1>10. HuecosEnMedio'
  <2>1. segs'[ocupado - 1] = segs[ocupado]
    BY <1>2, <1>3, <1>4
  <2>2. ASSUME NEW j \in (nodo + 1)..((ocupado - 1) - 1)
        PROVE  segs'[j].res = 0
    <3>1. /\ j \in 1..(Len(segs) - 1) /\ ~(j < m)
          /\ j + 1 \in m..(ocupado - 1)
      BY <1>2, <1>3
    <3>2. segs'[j] = segs[j + 1]
      BY <1>4, <3>1
    <3>. QED  BY <1>2, <3>1, <3>2
  <2>. QED  BY <1>2, <1>3, <2>1, <2>2 DEF HuecosEnMedio
<1>. QED  BY <1>9, <1>10

\* The next hole is exactly what was missing: it leaves the list and the place
\* where the segment was is free.
LEMMA ExactoTraslada ==
  ASSUME TypeOK, CursorValido, Teselado, HuecosEnMedio, ConsumeExacto,
         desvio' = 0, bytes' = bytes
  PROVE  (\E f : Traslado(f)) /\ HuecosEnMedio'
<1> DEFINE b == Liberado(segs[ocupado])
           s == [segs EXCEPT ![ocupado] = b]
           m == siguiente
<1>1. fase = "consumir" /\ segs' = QuitaPos(s, m) /\ fase' # "consumir"
  <2>. HIDE DEF b
  <2>1. fase = "consumir"
    BY DEF ConsumeExacto
  <2>2. \/ desvio' = 1
        \/ \E q \in DOMAIN segs :
             /\ segs' = QuitaPos(s, q) /\ PasaAlSiguiente(segs', Baja(nodo, q))
             /\ desvio' = IF q = siguiente THEN desvio ELSE 1
    BY DEF ConsumeExacto, b
  <2>. HIDE DEF s
  <2>3. segs' = QuitaPos(s, m) /\ PasaAlSiguiente(segs', Baja(nodo, m))
    BY <2>2
  <2>4. fase' # "consumir"
    BY <2>3 DEF PasaAlSiguiente
  <2>. QED  BY <2>1, <2>3, <2>4
<1>2. /\ segs \in Seq(Segmento) /\ Len(segs) \in Nat /\ nodo \in 1..Len(segs)
      /\ m \in 1..Len(segs) /\ m = nodo + 1 /\ m <= ocupado
      /\ ocupado \in 1..Len(segs)
      /\ segs[ocupado].res = 1
      /\ \A j \in m..(ocupado - 1) : segs[j].res = 0
  BY <1>1, PosicionesTipo DEF HuecosEnMedio, Teselado, TeselaConsumir, TypeOK
<1>3. b \in Segmento /\ b.res = 0
  <2>1. segs[ocupado] \in Segmento
    BY <1>2
  <2>. QED  BY <2>1, LiberadoTipo
<1> HIDE DEF b
<1>4. /\ s \in Seq(Segmento) /\ Len(s) = Len(segs)
      /\ \A j \in 1..Len(segs) : s[j] = IF j = ocupado THEN b ELSE segs[j]
  BY <1>2, <1>3
<1> HIDE DEF s
<1>5. /\ Len(segs') = Len(segs) - 1 /\ DOMAIN segs' = 1..(Len(segs) - 1)
      /\ \A j \in 1..(Len(segs) - 1) : segs'[j] = s[IF j < m THEN j ELSE j + 1]
  BY <1>1, <1>2, <1>4, QuitaPosTipo DEF QuitaPos
<1>6. Vivos = {k \in 1..Len(segs) : segs[k].res = 1 /\ k # ocupado}
  BY <1>1, <1>2 DEF Vivos
<1>7. Vivos' = {j \in 1..(Len(segs) - 1) : segs'[j].res = 1}
  BY <1>1, <1>5 DEF Vivos
<1>8. m \notin Vivos
  BY <1>2, <1>6
<1>9. ASSUME NEW k \in 1..Len(segs)
      PROVE  /\ s[k].res = 1 <=> k \in Vivos
             /\ k \in Vivos => s[k] = segs[k]
  BY <1>3, <1>4, <1>6
<1>10. ASSUME NEW j \in 1..(Len(segs) - 1)
       PROVE  /\ segs'[j].res = 1 <=> (IF j < m THEN j ELSE j + 1) \in Vivos
              /\ segs'[j].res = 1 => segs'[j] = segs[IF j < m THEN j ELSE j + 1]
  <2>1. (IF j < m THEN j ELSE j + 1) \in 1..Len(segs)
    BY <1>2
  <2>2. segs'[j] = s[IF j < m THEN j ELSE j + 1]
    BY <1>5
  <2>. QED  BY <1>9, <2>1, <2>2
<1>11. \E f : Traslado(f)
  <2>1. Vivos' = {j \in 1..(Len(segs) - 1) : (IF j < m THEN j ELSE j + 1) \in Vivos}
    BY <1>7, <1>10
  <2>2. \A j \in Vivos' : segs'[j] = segs[IF j < m THEN j ELSE j + 1]
    BY <1>7, <1>10
  <2>. QED  BY <1>2, <1>5, <1>8, <2>1, <2>2, QuitaTraslada
<1>. QED  BY <1>1, <1>11 DEF HuecosEnMedio

\* A free segment leaves the list at the end of the compaction.
LEMMA BorraTraslada ==
  ASSUME TypeOK, BorraSegmento, bytes' = bytes
  PROVE  (\E f : Traslado(f)) /\ HuecosEnMedio'
<1>1. fase = "borrar" /\ fase' = "borrar"
  BY DEF BorraSegmento
<1>2. PICK m \in DOMAIN segs : segs[m].res = 0 /\ segs' = QuitaPos(segs, m)
  BY DEF BorraSegmento
<1>3. segs \in Seq(Segmento) /\ Len(segs) \in Nat /\ m \in 1..Len(segs)
  BY <1>2 DEF TypeOK
<1>4. /\ Len(segs') = Len(segs) - 1 /\ DOMAIN segs' = 1..(Len(segs) - 1)
      /\ \A j \in 1..(Len(segs) - 1) :
           segs'[j] = segs[IF j < m THEN j ELSE j + 1]
  BY <1>2, <1>3, QuitaPosTipo DEF QuitaPos
<1>5. Vivos = {k \in 1..Len(segs) : segs[k].res = 1}
  BY <1>1, <1>3 DEF Vivos
<1>6. Vivos' = {j \in 1..(Len(segs) - 1) : segs'[j].res = 1}
  BY <1>1, <1>4 DEF Vivos
<1>7. Vivos' = {j \in 1..(Len(segs) - 1) : (IF j < m THEN j ELSE j + 1) \in Vivos}
  <2>1. ASSUME NEW j \in 1..(Len(segs) - 1)
        PROVE  segs'[j].res = 1 <=> (IF j < m THEN j ELSE j + 1) \in Vivos
    <3>1. (IF j < m THEN j ELSE j + 1) \in 1..Len(segs)
      BY <1>3
    <3>. QED  BY <1>4, <1>5, <3>1
  <2>. QED  BY <1>6, <2>1
<1>8. \E f : Traslado(f)
  <2>1. m \notin Vivos
    BY <1>2, <1>5
  <2>2. \A j \in Vivos' : segs'[j] = segs[IF j < m THEN j ELSE j + 1]
    BY <1>4, <1>6
  <2>. QED  BY <1>3, <1>4, <1>7, <2>1, <2>2, QuitaTraslada
<1>. QED  BY <1>1, <1>8 DEF HuecosEnMedio
\* Every step of compactacion that stays on the sound path is a transfer.
LEMMA CompactaTraslada ==
  ASSUME TypeOK, CursorValido, Teselado, HuecosEnMedio, "atras" \notin Sentidos,
         Muda \/ (NoMuda /\ bytes' = bytes), desvio' = 0
  PROVE  (\E f : Traslado(f)) /\ HuecosEnMedio'
<1>1. CASE Muda
  BY <1>1, MudaTraslada
<1>2. CASE SaltaReservado \/ NadaQueMover \/ DevuelveMemoria \/ TerminaDevolver
             \/ TerminaCompactacion
  <2>1. segs' = segs /\ fase # "consumir" /\ fase' # "consumir"
    BY <1>2 DEF SaltaReservado, NadaQueMover, DevuelveMemoria, TerminaDevolver,
       TerminaCompactacion, memoria, PasaAlSiguiente
  <2>2. Vivos' = Vivos
    BY <2>1 DEF Vivos
  <2>3. HuecosEnMedio'
    BY <2>1 DEF HuecosEnMedio
  <2>4. bytes' = bytes \/ Muda
    OBVIOUS
  <2>. QED  BY <1>1, <2>1, <2>2, <2>3, <2>4, QuietaTraslada
<1>3. CASE RecortaSiguiente /\ bytes' = bytes
  BY <1>3, RecortaTraslada
<1>4. CASE ConsumeSiguiente /\ bytes' = bytes
  BY <1>4, SinDesvioSigue, ConsumeTraslada
<1>5. CASE ConsumeExacto /\ bytes' = bytes
  BY <1>5, ExactoTraslada
<1>6. CASE BorraSegmento /\ bytes' = bytes
  BY <1>6, BorraTraslada
<1>. QED  BY <1>1, <1>2, <1>3, <1>4, <1>5, <1>6 DEF NoMuda

-----------------------------------------------------------------------------
(* The invariant and the theorem                                           *)

\* The memory with contents is the memory of UMVMemoria.
LEMMA PasoDeLista == [NextB]_varsB => [Next]_vars
<1>1. ASSUME ListaB PROVE Next
  BY <1>1 DEF ListaB, Lista, Next
<1>2. ASSUME CompactarB PROVE Next
  BY <1>2 DEF CompactarB, Muda, NoMuda, Next, Compactar
<1>3. ASSUME NEW i, NEW o, NEW t, Solicitar(i, o, t) PROVE UNCHANGED vars
  BY <1>3 DEF Solicitar
<1>4. ASSUME NEW i, NEW o, NEW d, Enviar(i, o, d) PROVE UNCHANGED vars
  BY <1>4 DEF Enviar
<1>5. UNCHANGED varsB => UNCHANGED vars
  BY DEF varsB
<1>. QED  BY <1>1, <1>2, <1>3, <1>4, <1>5 DEF NextB

\* A request stays what the client asked for until it is answered.
LEMMA PedidoPaso ==
  ASSUME PedidoReal, [Next]_vars
  PROVE  PedidoReal'
<1> USE DEF PedidoReal, llamada
<1>1. ASSUME NEW p \in Pids, NEW t \in Tamanios, PideSegmento(p, t)
      PROVE  PedidoReal'
  BY <1>1 DEF PideSegmento
<1>2. CASE \E r : Responde(r)
  BY <1>2 DEF Responde
<1>3. CASE CreaPrimero \/ CreaEnHueco \/ CreaAlFinal \/ SinLugar
  <2>1. \E r : Responde(r)
    BY <1>3 DEF CreaPrimero, CreaEnHueco, CreaAlFinal, SinLugar
  <2>. QED  BY <1>2, <2>1
<1>4. CASE fase' # "crear" /\ pedido' = pedido
  BY <1>4
<1>5. CASE MandaCompactar \/ CaeWorstFit \/ ConsolaCompacta \/ SaltaReservado
             \/ NadaQueMover \/ RecortaSiguiente \/ ConsumeSiguiente
             \/ ConsumeExacto \/ TerminaDevolver
  <2>1. fase' # "crear" /\ pedido' = pedido
    BY <1>5 DEF MandaCompactar, CaeWorstFit, ConsolaCompacta, SaltaReservado,
       NadaQueMover, RecortaSiguiente, ConsumeSiguiente, SigueConsumiendo, SeAgota,
       ConsumeExacto, TerminaDevolver, PasaAlSiguiente
  <2>. QED  BY <1>4, <2>1
<1>6. CASE \/ MueveAMayor \/ MueveAMenor
           \/ \E r \in DOMAIN segs : MueveAIgual(r) \/ MueveSeparado(r) \/ AgrandaHueco(r)
  <2>1. fase' # "crear" /\ pedido' = pedido
    BY <1>6 DEF MueveAMayor, MueveAMenor, MueveAIgual, MueveSeparado,
       AgrandaHueco, SoloMueve, PasaAlSiguiente
  <2>. QED  BY <1>4, <2>1
<1>7. CASE DevuelveMemoria \/ BorraSegmento
  BY <1>7 DEF DevuelveMemoria, BorraSegmento
<1>8. CASE TerminaCompactacion
  BY <1>8 DEF TerminaCompactacion
<1>9. ASSUME NEW p \in Pids, DestruyeSegmentos(p) PROVE PedidoReal'
  BY <1>9 DEF DestruyeSegmentos
<1>10. ASSUME NEW a \in Algoritmos, CambiaAlgoritmo(a) PROVE PedidoReal'
  BY <1>10 DEF CambiaAlgoritmo
<1>11. CASE UNCHANGED vars
  BY <1>11 DEF vars
<1>. QED
  BY <1>1, <1>3, <1>5, <1>6, <1>7, <1>8, <1>9, <1>10, <1>11 DEF Next, Crear, Compactar

\* Outside compactacion nobody is consuming holes; the algorithm may change
\* at any time.
LEMMA FueraDeCompactacion ==
  ASSUME [NextB]_varsB, ~CompactarB, HuecosEnMedio
  PROVE  /\ HuecosEnMedio'
         /\ fase \in FasesCompactacion =>
              UNCHANGED <<segs, bytes, fase, ocupado, desvio>>
<1> USE DEF HuecosEnMedio, FasesCompactacion
<1>1. CASE UNCHANGED <<segs, bytes, fase, cursor, desvio>>
  BY <1>1 DEF cursor
<1>2. CASE fase \notin FasesCompactacion /\ fase' # "consumir"
  BY <1>2
<1>3. CASE ListaB
  <2>1. ASSUME NEW p \in Pids, NEW t \in Tamanios, PideSegmento(p, t)
        PROVE  fase \notin FasesCompactacion /\ fase' # "consumir"
    BY <2>1 DEF PideSegmento
  <2>2. ASSUME NEW p \in Pids, DestruyeSegmentos(p)
        PROVE  fase \notin FasesCompactacion /\ fase' # "consumir"
    BY <2>2 DEF DestruyeSegmentos
  <2>3. ASSUME Crear \/ ConsolaCompacta
        PROVE  fase \notin FasesCompactacion /\ fase' # "consumir"
    BY <2>3 DEF Crear, CreaPrimero, CreaEnHueco, CreaAlFinal, SinLugar, Responde,
       MandaCompactar, CaeWorstFit, ConsolaCompacta
  <2>4. ASSUME NEW a \in Algoritmos, CambiaAlgoritmo(a)
        PROVE  UNCHANGED <<segs, bytes, fase, cursor, desvio>>
    BY <1>3, <2>4 DEF CambiaAlgoritmo, ListaB, memoria
  <2>. QED  BY <1>1, <1>2, <1>3, <2>1, <2>2, <2>3, <2>4 DEF ListaB, Lista
<1>4. ASSUME NEW i, NEW o, NEW t, Solicitar(i, o, t)
      PROVE  fase \notin FasesCompactacion /\ fase' # "consumir"
  BY <1>4 DEF Solicitar, vars
<1>5. ASSUME NEW i, NEW o, NEW d, Enviar(i, o, d)
      PROVE  fase \notin FasesCompactacion /\ fase' # "consumir"
  BY <1>5 DEF Enviar, vars
<1>6. UNCHANGED varsB => UNCHANGED <<segs, bytes, fase, cursor, desvio>>
  BY DEF varsB, vars, memoria
<1>. QED  BY <1>1, <1>2, <1>3, <1>4, <1>5, <1>6 DEF NextB

\* What holds at the start.
LEMMA BytesInicial == InitB => InvBytes
<1>. SUFFICES ASSUME InitB PROVE InvBytes
  OBVIOUS
<1>1. Init
  BY DEF InitB
<1>2. InvMemoria
  BY <1>1, TipoInicial, TeselaInicial DEF InvMemoria
<1>3. PedidoReal /\ HuecosEnMedio
  BY <1>1 DEF Init, PedidoReal, HuecosEnMedio
<1>. QED  BY <1>2, <1>3 DEF InvBytes

\* And after every step.
LEMMA BytesPaso ==
  ASSUME "atras" \notin Sentidos, InvBytes, [NextB]_varsB
  PROVE  InvBytes'
<1>1. [Next]_vars
  BY PasoDeLista
<1>2. TypeOK /\ CursorValido /\ (desvio = 0 => Teselado)
      /\ PedidoReal /\ (desvio = 0 => HuecosEnMedio)
  BY DEF InvBytes, InvMemoria
<1>3. TypeOK' /\ CursorValido'
  BY <1>1, <1>2, TipoPaso
<1>4. desvio' = 0 => Teselado'
  BY <1>1, <1>2, <1>3, TeselaPaso
<1>5. PedidoReal'
  BY <1>1, <1>2, PedidoPaso
<1>6. ASSUME desvio' = 0 PROVE HuecosEnMedio'
  <2>1. desvio = 0
    BY <1>1, <1>2, <1>6, DesvioPaso
  <2>2. CASE CompactarB
    BY <1>2, <1>6, <2>1, <2>2, CompactaTraslada DEF CompactarB
  <2>3. CASE ~CompactarB
    BY <1>2, <2>1, <2>3, FueraDeCompactacion
  <2>. QED  BY <2>2, <2>3
<1>. QED  BY <1>3, <1>4, <1>5, <1>6 DEF InvBytes, InvMemoria

\* The contents of every segment survive compactacion, whatever the size of
\* the memory and the segments in it, provided memcpy copies from the first
\* byte and the faulty path of lines 256-287 is not taken.
THEOREM DatosConservados ==
  ASSUME "atras" \notin Sentidos
  PROVE  SpecB => ConservaDatos
<1>1. InitB => InvBytes
  BY BytesInicial
<1>2. InvBytes /\ [NextB]_varsB => InvBytes'
  BY BytesPaso
<1> DEFINE Paso ==
      (fase \in FasesCompactacion /\ desvio' = 0) =>
        \A i \in DOMAIN segs : segs[i].res = 1 /\ i \in Vivos =>
          \E j \in DOMAIN segs' :
            /\ segs'[j].res = 1
            /\ segs'[j].pid = segs[i].pid /\ segs'[j].base = segs[i].base
            /\ segs'[j].size >= segs[i].size
            /\ \A b \in 0..(segs[i].size - 1) :
                 bytes'[segs'[j].mem + b] = bytes[segs[i].mem + b]
<1>3. InvBytes /\ [NextB]_varsB => [Paso]_varsB
  <2>. SUFFICES ASSUME InvBytes, NextB, fase \in FasesCompactacion, desvio' = 0,
                       NEW i \in DOMAIN segs, i \in Vivos
                PROVE  \E j \in DOMAIN segs' :
                         segs'[j].res = 1 /\ Iguala(segs[i], segs'[j])
    BY DEF Iguala
  <2>1. /\ TypeOK /\ CursorValido /\ (desvio = 0 => Teselado)
        /\ (desvio = 0 => HuecosEnMedio)
    BY DEF InvBytes, InvMemoria
  <2>2. desvio = 0
    BY <2>1, PasoDeLista, DesvioPaso
  <2>3. \E f : Traslado(f)
    <3>1. CASE CompactarB
      BY <2>1, <2>2, <3>1, CompactaTraslada DEF CompactarB
    <3>2. CASE ~CompactarB
      <4>1. UNCHANGED <<segs, bytes, fase, ocupado, desvio>>
        BY <2>1, <2>2, <3>2, FueraDeCompactacion
      <4>2. Vivos' = Vivos
        BY <4>1 DEF Vivos
      <4>. QED  BY <2>1, <4>1, <4>2, QuietaTraslada
    <3>. QED  BY <3>1, <3>2
  <2>4. PICK f : Traslado(f)
    BY <2>3
  <2>5. f[i] \in Vivos' /\ Iguala(segs[i], segs'[f[i]])
    BY <2>4 DEF Traslado
  <2>6. f[i] \in DOMAIN segs' /\ segs'[f[i]].res = 1
    BY <2>5 DEF Vivos
  <2>. QED  BY <2>5, <2>6
<1>. QED  BY <1>1, <1>2, <1>3, PTL DEF SpecB, ConservaDatos

-----------------------------------------------------------------------------
(* The memory of the UMV implements MemoriaAbstracta, for every memory, set*)
(* of programs, sizes and buffers.  Each step is mapped by what it does to *)
(* the live positions: a transfer is a compaction, a transfer plus one     *)
(* position a creation.                                                    *)

HIDE LimiteAssumption

-----------------------------------------------------------------------------
(* The refinement mapping                                                  *)

\* Live positions are positions of the list.
LEMMA VivosTipo ==
  ASSUME TypeOK
  PROVE  \A k \in Vivos : /\ k \in 1..Len(segs) /\ segs[k].res = 1
                          /\ segs[k].mem \in Int /\ segs[k].size \in Nat
<1>1. segs \in Seq(Segmento)
  BY DEF TypeOK
<1>. QED  BY <1>1, CamposTipo DEF Vivos

\* n bytes of b from m on, as a sequence.
LEMMA TablaTipo ==
  ASSUME NEW n \in Nat, NEW b, NEW m, NEW a, a = [i \in 1..n |-> b[m + i - 1]]
  PROVE  Len(a) = n /\ \A i \in 1..n : a[i] = b[m + i - 1]
<1>1. a \in [1..n -> {b[m + i - 1] : i \in 1..n}]
  OBVIOUS
<1>. QED  BY <1>1, FuncionEsSecuencia

\* A file is as long as its segment and holds its bytes, before a step
LEMMA ArchivoTipo ==
  ASSUME TypeOK, NEW k \in Vivos
  PROVE  /\ Len(Archivo(k).datos) = segs[k].size
         /\ \A i \in 1..segs[k].size :
              Archivo(k).datos[i] = bytes[segs[k].mem + i - 1]
         /\ <<Archivo(k).pid, Archivo(k).base>> = <<segs[k].pid, segs[k].base>>
<1>1. segs[k].size \in Nat
  BY VivosTipo
<1>2. Archivo(k).datos = [i \in 1..segs[k].size |-> bytes[segs[k].mem + i - 1]]
  BY DEF Archivo, Contenido
<1>. QED  BY <1>1, <1>2, TablaTipo DEF Archivo

\* and after it.
LEMMA ArchivoTipoDespues ==
  ASSUME TypeOK', NEW k \in Vivos'
  PROVE  /\ k \in 1..Len(segs') /\ segs'[k].size \in Nat /\ segs'[k].mem \in Int
         /\ Len(Archivo(k)'.datos) = segs'[k].size
         /\ \A i \in 1..segs'[k].size :
              Archivo(k)'.datos[i] = bytes'[segs'[k].mem + i - 1]
         /\ <<Archivo(k)'.pid, Archivo(k)'.base>> = <<segs'[k].pid, segs'[k].base>>
<1>0. segs' \in Seq(Segmento) /\ k \in 1..Len(segs')
  <2>1. segs' \in Seq(Segmento)
    BY DEF TypeOK
  <2>2. k \in DOMAIN segs'
    BY DEF Vivos
  <2>. QED  BY <2>1, <2>2
<1>1. segs'[k].size \in Nat /\ segs'[k].mem \in Int
  BY <1>0, CamposTipo
<1>2. Archivo(k)'.datos = [i \in 1..segs'[k].size |-> bytes'[segs'[k].mem + i - 1]]
  BY DEF Archivo, Contenido
<1>. QED  BY <1>0, <1>1, <1>2, TablaTipo DEF Archivo

\* The names of the abstract memory are those of the live positions.
LEMMA NombresTipo ==
  ASSUME TypeOK, ~Rota
  PROVE  Abstracta!Nombres = {NombreDe(k) : k \in Vivos}
<1>1. \A k \in Vivos : Abstracta!Nombre(Archivo(k)) = NombreDe(k)
  BY DEF Abstracta!Nombre, Archivo, NombreDe
<1>. QED  BY <1>1 DEF Abstracta!Nombres, Archivos, Repetidos

-----------------------------------------------------------------------------
(* The kinds of steps                                                      *)

\* A transfer is a step of the abstract compaction.
LEMMA TrasladoEsCompactar ==
  ASSUME TypeOK, TypeOK', ~Rota, ~Rota', leido' = leido, NEW f, Traslado(f)
  PROVE  Abstracta!CompactarA
<1> DEFINE N(k) == NombreDe(k)'
<1>0. /\ f \in [Vivos -> Vivos']
      /\ \A i, j \in Vivos : f[i] = f[j] => i = j
      /\ \A j \in Vivos' : \E i \in Vivos : f[i] = j
      /\ \A i \in Vivos : Iguala(segs[i], segs'[f[i]])
  BY DEF Traslado
<1>1. \A i \in Vivos : N(f[i]) = NombreDe(i)
  BY <1>0 DEF NombreDe, Iguala
<1>2. \A i \in Vivos : EsUnico(i) <=> EsUnico(f[i])'
  <2>1. \A k : EsUnico(k)' <=> \A j \in Vivos' : N(j) = N(k) => j = k
    BY DEF EsUnico
  <2>. HIDE DEF N
  <2>. QED  BY <1>0, <1>1, <2>1 DEF EsUnico
<1>3. Archivos = {Archivo(k) : k \in {j \in Vivos : EsUnico(j)}}
      /\ Repetidos = {NombreDe(k) : k \in {j \in Vivos : ~EsUnico(j)}}
  BY DEF Archivos, Repetidos
<1>4. Archivos' = {Archivo(k)' : k \in {j \in Vivos' : EsUnico(j)'}}
      /\ Repetidos' = {N(k) : k \in {j \in Vivos' : ~EsUnico(j)'}}
  BY DEF Archivos, Repetidos
<1>5. Repetidos' = Repetidos
  <2>. HIDE DEF N
  <2>. QED  BY <1>0, <1>1, <1>2, <1>3, <1>4
<1>6. ASSUME NEW i \in Vivos
      PROVE  Abstracta!Extiende(Archivo(i), Archivo(f[i])')
  <2>1. f[i] \in Vivos' /\ Iguala(segs[i], segs'[f[i]])
    BY <1>0
  <2>2. /\ segs[i].size \in Nat /\ segs[i].mem \in Int
        /\ Len(Archivo(i).datos) = segs[i].size
        /\ \A x \in 1..segs[i].size :
             Archivo(i).datos[x] = bytes[segs[i].mem + x - 1]
        /\ <<Archivo(i).pid, Archivo(i).base>> = <<segs[i].pid, segs[i].base>>
    BY ArchivoTipo, VivosTipo
  <2>3. /\ segs'[f[i]].size \in Nat /\ segs'[f[i]].mem \in Int
        /\ Len(Archivo(f[i])'.datos) = segs'[f[i]].size
        /\ \A x \in 1..segs'[f[i]].size :
             Archivo(f[i])'.datos[x] = bytes'[segs'[f[i]].mem + x - 1]
        /\ <<Archivo(f[i])'.pid, Archivo(f[i])'.base>>
             = <<segs'[f[i]].pid, segs'[f[i]].base>>
    BY <2>1, ArchivoTipoDespues
  <2>4. /\ segs'[f[i]].pid = segs[i].pid /\ segs'[f[i]].base = segs[i].base
        /\ segs'[f[i]].size >= segs[i].size
        /\ \A x \in 0..(segs[i].size - 1) :
             bytes'[segs'[f[i]].mem + x] = bytes[segs[i].mem + x]
    BY <2>1 DEF Iguala
  <2>5. ASSUME NEW x \in 1..segs[i].size
        PROVE  Archivo(f[i])'.datos[x] = Archivo(i).datos[x]
    <3>1. /\ x - 1 \in 0..(segs[i].size - 1) /\ x \in 1..segs'[f[i]].size
          /\ segs[i].mem + (x - 1) = segs[i].mem + x - 1
          /\ segs'[f[i]].mem + (x - 1) = segs'[f[i]].mem + x - 1
      BY <2>2, <2>3, <2>4
    <3>. QED  BY <2>2, <2>3, <2>4, <3>1
  <2>. QED
    BY <2>2, <2>3, <2>4, <2>5 DEF Abstracta!Extiende, Abstracta!Nombre, Abstracta!Largo
<1>7. /\ \A a \in Archivos : \E n \in Archivos' : Abstracta!Extiende(a, n)
      /\ \A n \in Archivos' : \E a \in Archivos : Abstracta!Extiende(a, n)
  <2>1. ASSUME NEW a \in Archivos
        PROVE  \E n \in Archivos' : Abstracta!Extiende(a, n)
    <3>1. PICK i \in Vivos : EsUnico(i) /\ a = Archivo(i)
      BY <1>3
    <3>2. f[i] \in Vivos' /\ EsUnico(f[i])'
      BY <1>0, <1>2, <3>1
    <3>3. Archivo(f[i])' \in Archivos'
      BY <1>4, <3>2
    <3>. QED  BY <1>6, <3>1, <3>3
  <2>2. ASSUME NEW n \in Archivos'
        PROVE  \E a \in Archivos : Abstracta!Extiende(a, n)
    <3>1. PICK j \in Vivos' : EsUnico(j)' /\ n = Archivo(j)'
      BY <1>4
    <3>2. PICK i \in Vivos : f[i] = j
      BY <1>0
    <3>3. Archivo(i) \in Archivos
      BY <1>2, <1>3, <3>1, <3>2
    <3>. QED  BY <1>6, <3>1, <3>2, <3>3
  <2>. QED  BY <2>1, <2>2
<1>8. Rota' = Rota
  <2>1. Rota \in BOOLEAN /\ Rota' \in BOOLEAN
    BY DEF Rota
  <2>. QED  BY <2>1
<1>. QED  BY <1>5, <1>7, <1>8 DEF Abstracta!CompactarA

-----------------------------------------------------------------------------
(* Creation                                                                *)

\* the live positions are as they were, and kn is one more, of t bytes of p
Alta(f, kn, p, t) ==
  /\ kn \in Vivos' /\ segs'[kn].pid = p /\ segs'[kn].size = t
  /\ f \in [Vivos -> Vivos']
  /\ \A i, j \in Vivos : f[i] = f[j] => i = j
  /\ \A i \in Vivos : f[i] # kn /\ Archivo(f[i])' = Archivo(i)
  /\ \A j \in Vivos' : j = kn \/ \E i \in Vivos : f[i] = j

\* One more position is one more file, or one more name that is repeated.
LEMMA AltaEsCrear ==
  ASSUME TypeOK, TypeOK', ~Rota, ~Rota', leido' = leido,
         NEW f, NEW kn, NEW p, NEW t, Alta(f, kn, p, t)
  PROVE  Abstracta!CrearA(p, t)
<1> DEFINE N(k) == NombreDe(k)'
           U(k) == EsUnico(k)'
           A(k) == Archivo(k)'
<1>0. /\ kn \in Vivos' /\ f \in [Vivos -> Vivos']
      /\ \A i, j \in Vivos : f[i] = f[j] => i = j
      /\ \A i \in Vivos : f[i] # kn /\ A(f[i]) = Archivo(i)
      /\ \A j \in Vivos' : j = kn \/ \E i \in Vivos : f[i] = j
  BY DEF Alta
<1>1. \A i \in Vivos : N(f[i]) = NombreDe(i)
  <2>1. /\ \A k : N(k) = <<A(k).pid, A(k).base>>
        /\ \A k : NombreDe(k) = <<Archivo(k).pid, Archivo(k).base>>
    BY DEF NombreDe, Archivo
  <2>. HIDE DEF N, A
  <2>. QED  BY <1>0, <2>1
<1>2. \A k : U(k) <=> \A j \in Vivos' : N(j) = N(k) => j = k
  BY DEF EsUnico
<1>3. Archivos = {Archivo(k) : k \in {j \in Vivos : EsUnico(j)}}
      /\ Repetidos = {NombreDe(k) : k \in {j \in Vivos : ~EsUnico(j)}}
  BY DEF Archivos, Repetidos
<1>4. Archivos' = {A(k) : k \in {j \in Vivos' : U(j)}}
      /\ Repetidos' = {N(k) : k \in {j \in Vivos' : ~U(j)}}
  BY DEF Archivos, Repetidos
<1>5. Rota' = Rota
  <2>1. Rota \in BOOLEAN /\ Rota' \in BOOLEAN
    BY DEF Rota
  <2>. QED  BY <2>1
<1>6. Abstracta!Nombres = {NombreDe(k) : k \in Vivos}
  BY NombresTipo
<1>7. \A k : Abstracta!Nombre(Archivo(k)) = NombreDe(k)
  BY DEF Abstracta!Nombre, Archivo, NombreDe
<1>8. Abstracta!Nombre(A(kn)) = N(kn) /\ A(kn).pid = p /\ Abstracta!Largo(A(kn)) = t
      /\ N(kn)[1] = p
  <2>1. Len(A(kn).datos) = segs'[kn].size
    BY <1>0, ArchivoTipoDespues
  <2>2. Abstracta!Nombre(A(kn)) = N(kn) /\ A(kn).pid = segs'[kn].pid /\ N(kn)[1] = segs'[kn].pid
    BY DEF Abstracta!Nombre, Archivo, NombreDe
  <2>. QED  BY <2>1, <2>2 DEF Alta, Abstracta!Largo
<1>. HIDE DEF N, U, A
<1>9. \A i \in Vivos : U(f[i]) <=> EsUnico(i) /\ NombreDe(i) # N(kn)
  BY <1>0, <1>1, <1>2 DEF EsUnico
<1>10. U(kn) <=> \A i \in Vivos : NombreDe(i) # N(kn)
  BY <1>0, <1>1, <1>2
<1>11. CASE N(kn) \notin Abstracta!Nombres
  <2>1. U(kn) /\ \A i \in Vivos : U(f[i]) <=> EsUnico(i)
    BY <1>6, <1>9, <1>10, <1>11
  <2>2. Archivos' = Archivos \cup {A(kn)}
    BY <1>0, <1>3, <1>4, <2>1
  <2>3. Repetidos' = Repetidos
    BY <1>0, <1>1, <1>3, <1>4, <2>1
  <2>. QED  BY <1>5, <1>8, <1>11, <2>2, <2>3 DEF Abstracta!CrearA
<1>12. CASE N(kn) \in Abstracta!Nombres
  <2>1. ~U(kn)
    BY <1>6, <1>10, <1>12
  <2>2. Archivos' = {a \in Archivos : Abstracta!Nombre(a) # N(kn)}
    BY <1>0, <1>3, <1>4, <1>7, <1>9, <2>1
  <2>3. Repetidos' = Repetidos \cup {N(kn)}
    <3>1. ASSUME NEW x \in Repetidos' PROVE x \in Repetidos \cup {N(kn)}
      BY <1>0, <1>1, <1>3, <1>4, <1>9, <2>1
    <3>2. ASSUME NEW x \in Repetidos PROVE x \in Repetidos'
      BY <1>0, <1>1, <1>3, <1>4, <1>9, <2>1
    <3>3. N(kn) \in Repetidos'
      BY <1>0, <1>4, <2>1
    <3>. QED  BY <3>1, <3>2, <3>3
  <2>. QED  BY <1>5, <1>8, <1>12, <2>2, <2>3 DEF Abstracta!CrearA
<1>. QED  BY <1>11, <1>12

\* A segment left where it was, as it was.
LEMMA MismoArchivo ==
  ASSUME NEW i, NEW j, segs'[j].pid = segs[i].pid, segs'[j].base = segs[i].base,
         segs'[j].mem = segs[i].mem, segs'[j].size = segs[i].size, bytes' = bytes
  PROVE  Archivo(j)' = Archivo(i)
  BY DEF Archivo, Contenido

\* While no hole is being consumed the reserved segments are the live ones.
LEMMA VivosReservados ==
  /\ fase # "consumir" => Vivos = {k \in DOMAIN segs : segs[k].res = 1}
  /\ fase' # "consumir" => Vivos' = {k \in DOMAIN segs' : segs'[k].res = 1}
  BY DEF Vivos

\* The first segment of all,
LEMMA CreaPrimeroAlta ==
  ASSUME TypeOK, TypeOK', CreaPrimero, bytes' = bytes, pedido.tam \in Nat
  PROVE  \E f, kn : Alta(f, kn, pedido.pid, pedido.tam)
<1> DEFINE e == Reservado(pedido.pid, 0, 0, pedido.tam)
<1>0. PICK f : f = [i \in Vivos |-> i]
  OBVIOUS
<1>1. segs = <<>> /\ segs' = <<e>> /\ fase # "consumir" /\ fase' # "consumir"
  BY DEF CreaPrimero, AlFinal, Responde
<1>2. e.pid = pedido.pid /\ e.size = pedido.tam /\ e.res = 1
  BY DEF Reservado
<1>3. Vivos = {}
  BY <1>1, VivosReservados
<1>4. DOMAIN segs' = {1} /\ segs'[1] = e
  <2>. HIDE DEF e
  <2>. QED  BY <1>1
<1>5. Vivos' = {1}
  BY <1>1, <1>2, <1>4, VivosReservados
<1>6. Alta(f, 1, pedido.pid, pedido.tam)
  <2>. HIDE DEF e
  <2>. QED  BY <1>0, <1>2, <1>3, <1>4, <1>5 DEF Alta
<1>. QED  BY <1>6

\* one at the end of the list
LEMMA CreaAlFinalAlta ==
  ASSUME TypeOK, TypeOK', CreaAlFinal, bytes' = bytes, pedido.pid \in Pids, pedido.tam \in Nat
  PROVE  \E f, kn : Alta(f, kn, pedido.pid, pedido.tam)
<1> DEFINE n == Len(segs)
           u == segs[n]
           e == Reservado(pedido.pid, u.base + u.size, u.mem + u.size, pedido.tam)
<1>0. PICK f : f = [i \in Vivos |-> i]
  OBVIOUS
<1>1. segs # <<>> /\ segs' = Append(segs, e) /\ fase # "consumir" /\ fase' # "consumir"
  BY DEF CreaAlFinal, AlFinal, Responde
<1>2. e.pid = pedido.pid /\ e.size = pedido.tam /\ e.res = 1
  BY DEF Reservado
<1>3. segs \in Seq(Segmento) /\ n \in Nat
  BY DEF TypeOK
<1>. HIDE DEF e
<1>4. /\ DOMAIN segs = 1..n /\ DOMAIN segs' = 1..(n + 1)
      /\ segs'[n + 1] = e
      /\ \A i \in 1..n : segs'[i] = segs[i]
  BY <1>1, <1>3
<1>. HIDE DEF n
<1>5. Vivos' = Vivos \cup {n + 1} /\ Vivos \subseteq 1..n
  BY <1>1, <1>2, <1>3, <1>4, VivosReservados
<1>6. ASSUME NEW i \in Vivos PROVE i # n + 1 /\ Archivo(i)' = Archivo(i)
  <2>1. i \in 1..n /\ segs'[i] = segs[i]
    BY <1>4, <1>5
  <2>2. /\ segs'[i].pid = segs[i].pid /\ segs'[i].base = segs[i].base
        /\ segs'[i].mem = segs[i].mem /\ segs'[i].size = segs[i].size
    BY <2>1
  <2>. QED  BY <1>3, <2>1, <2>2, MismoArchivo
<1>7. Alta(f, n + 1, pedido.pid, pedido.tam)
  BY <1>0, <1>2, <1>4, <1>5, <1>6 DEF Alta
<1>. QED  BY <1>7

\* and one in a hole, which may leave a smaller hole after it.
LEMMA CreaEnHuecoAlta ==
  ASSUME TypeOK, TypeOK', CreaEnHueco, bytes' = bytes, pedido.pid \in Pids, pedido.tam \in Nat
  PROVE  \E f, kn : Alta(f, kn, pedido.pid, pedido.tam)
<1>1. PICK k \in Elegibles(pedido.tam) :
        segs' = Ocupa(k, pedido.pid, pedido.tam) /\ \E r : Responde(r)
  BY DEF CreaEnHueco
<1> DEFINE n == Len(segs)
           h == segs[k]
           t == pedido.tam
           e == Reservado(pedido.pid, h.base, h.mem, t)
           s == [segs EXCEPT ![k] = e]
           g == Hueco(h.base + t, h.mem + t, h.size - t)
<1>2. fase # "consumir" /\ fase' # "consumir"
  BY <1>1 DEF CreaEnHueco, Responde
<1>3. segs \in Seq(Segmento) /\ n \in Nat /\ k \in 1..n /\ h.res = 0 /\ h.size >= t
  <2>1. segs \in Seq(Segmento)
    BY DEF TypeOK
  <2>2. k \in DOMAIN segs /\ h.res = 0 /\ h.size >= t
    BY <1>1 DEF Elegibles, HuecosPara
  <2>. QED  BY <2>1, <2>2
<1>4. h.base \in Int /\ h.mem \in Int /\ h.size \in Nat
  BY <1>3, CamposTipo
<1>5. e.pid = pedido.pid /\ e.size = t /\ e.res = 1 /\ e \in Segmento
  BY <1>4, ReservadoTipo DEF Reservado
<1>6. segs' = IF h.size > t THEN InsertaDespues(s, k, g) ELSE s
  BY <1>1 DEF Ocupa
<1>. HIDE DEF e
<1>7. s \in Seq(Segmento) /\ Len(s) = n /\ \A j \in 1..n : s[j] = IF j = k THEN e ELSE segs[j]
  BY <1>3, <1>5, CambiaTipo
<1>. HIDE DEF s
<1>8. Vivos \subseteq 1..n /\ k \notin Vivos
      /\ \A j \in 1..n : j \in Vivos <=> segs[j].res = 1
  BY <1>2, <1>3, VivosReservados
<1>9. CASE h.size > t
  <2>0. PICK f : f = [i \in Vivos |-> IF i < k THEN i ELSE i + 1]
    OBVIOUS
  <2>1. g \in Segmento /\ g.res = 0
    <3>1. h.base + t \in Int /\ h.mem + t \in Int /\ h.size - t \in Nat
      BY <1>3, <1>4, <1>9
    <3>. QED  BY <3>1, HuecoEsSegmento
  <2>. HIDE DEF g
  <2>2. /\ Len(segs') = n + 1 /\ DOMAIN segs' = 1..(n + 1)
        /\ \A j \in 1..(n + 1) :
             segs'[j] = IF j <= k THEN s[j] ELSE IF j = k + 1 THEN g ELSE s[j - 1]
    <3>1. k \in 1..Len(s)
      BY <1>3, <1>7
    <3>2. /\ InsertaDespues(s, k, g) \in Seq(Segmento)
          /\ Len(InsertaDespues(s, k, g)) = Len(s) + 1
          /\ \A j \in 1..(Len(s) + 1) :
               InsertaDespues(s, k, g)[j] =
                 IF j <= k THEN s[j] ELSE IF j = k + 1 THEN g ELSE s[j - 1]
      BY <1>7, <2>1, <3>1, InsertaDespuesTipo
    <3>3. segs' = InsertaDespues(s, k, g)
      BY <1>6, <1>9
    <3>4. segs' \in Seq(Segmento) /\ Len(segs') = n + 1
      BY <1>7, <3>2, <3>3
    <3>. HIDE DEF n, h, t
    <3>5. DOMAIN segs' = 1..(n + 1)
      BY <3>4
    <3>. QED  BY <1>7, <3>2, <3>3, <3>4, <3>5
  <2>. HIDE DEF n, h
  <2>3. segs'[k] = e /\ segs'[k + 1] = g
    BY <1>3, <1>7, <2>2
  <2>4. ASSUME NEW i \in 1..n, i # k
        PROVE  segs'[IF i < k THEN i ELSE i + 1] = segs[i]
    <3>1. CASE i < k
      BY <1>3, <1>7, <2>2, <3>1
    <3>2. CASE i > k
      <4>1. i + 1 \in 1..(n + 1) /\ ~(i + 1 <= k) /\ i + 1 # k + 1 /\ (i + 1) - 1 = i
        BY <1>3, <3>2
      <4>2. segs'[i + 1] = s[i]
        BY <2>2, <4>1
      <4>. QED  BY <1>3, <1>7, <3>2, <4>2
    <3>. QED  BY <1>3, <2>4, <3>1, <3>2
  <2>5. ASSUME NEW j \in 1..(n + 1)
        PROVE  j = k \/ j = k + 1 \/ \E i \in 1..n : i # k /\ j = IF i < k THEN i ELSE i + 1
    <3>1. CASE j < k
      BY <1>3, <3>1
    <3>2. CASE j > k + 1
      <4>1. j - 1 \in 1..n /\ j - 1 # k /\ ~(j - 1 < k) /\ j = (j - 1) + 1
        BY <1>3, <3>2
      <4>. QED  BY <4>1
    <3>. QED  BY <1>3, <3>1, <3>2
  <2>6. \A j \in 1..(n + 1) : j \in Vivos' <=> segs'[j].res = 1
    BY <1>2, <2>2, VivosReservados
  <2>7. Vivos' \subseteq 1..(n + 1)
    BY <1>2, <2>2, VivosReservados
  <2>8. ASSUME NEW i \in Vivos
        PROVE  f[i] \in Vivos' /\ f[i] # k /\ Archivo(f[i])' = Archivo(i)
    <3>1. i \in 1..n /\ i # k /\ segs[i].res = 1
      BY <1>8
    <3>2. PICK j : j = f[i] /\ j = IF i < k THEN i ELSE i + 1
      BY <2>0
    <3>3. j \in 1..(n + 1) /\ j # k
      BY <1>3, <3>1, <3>2
    <3>4. segs'[j] = segs[i]
      BY <2>4, <3>1, <3>2
    <3>5. /\ segs'[j].pid = segs[i].pid /\ segs'[j].base = segs[i].base
          /\ segs'[j].mem = segs[i].mem /\ segs'[j].size = segs[i].size
      BY <3>4
    <3>6. Archivo(j)' = Archivo(i)
      BY <3>5, MismoArchivo
    <3>. QED  BY <2>6, <3>1, <3>2, <3>3, <3>4, <3>6
  <2>9. ASSUME NEW i \in Vivos, NEW j \in Vivos, f[i] = f[j] PROVE i = j
    BY <1>3, <1>8, <2>0, <2>9
  <2>10. ASSUME NEW j \in Vivos', j # k PROVE \E i \in Vivos : f[i] = j
    <3>1. segs'[j].res = 1 /\ j \in 1..(n + 1)
      BY <2>6, <2>7, <2>10
    <3>2. j # k + 1
      BY <2>1, <2>3, <3>1
    <3>3. PICK i \in 1..n : i # k /\ j = IF i < k THEN i ELSE i + 1
      BY <2>5, <2>10, <3>1, <3>2
    <3>4. i \in Vivos
      BY <1>8, <2>4, <3>1, <3>3
    <3>. QED  BY <2>0, <3>3, <3>4
  <2>11. k \in Vivos' /\ segs'[k].pid = pedido.pid /\ segs'[k].size = t
    BY <1>3, <1>5, <2>2, <2>3, <2>6
  <2>12. f \in [Vivos -> Vivos']
    BY <2>0, <2>8
  <2>. HIDE DEF t
  <2>13. Alta(f, k, pedido.pid, t)
    BY <2>8, <2>9, <2>10, <2>11, <2>12 DEF Alta
  <2>. QED  BY <2>13 DEF t
<1>10. CASE ~(h.size > t)
  <2>0. PICK f : f = [i \in Vivos |-> i]
    OBVIOUS
  <2>1. segs' = s
    BY <1>6, <1>10
  <2>2. DOMAIN segs' = 1..n /\ segs'[k] = e /\ \A j \in 1..n : j # k => segs'[j] = segs[j]
    BY <1>3, <1>7, <2>1
  <2>. HIDE DEF n, h, t
  <2>3. Vivos' = Vivos \cup {k}
    BY <1>2, <1>3, <1>5, <1>8, <2>2, VivosReservados
  <2>4. ASSUME NEW i \in Vivos PROVE i # k /\ Archivo(i)' = Archivo(i)
    <3>1. i \in 1..n /\ i # k /\ segs'[i] = segs[i]
      BY <1>8, <2>2
    <3>2. /\ segs'[i].pid = segs[i].pid /\ segs'[i].base = segs[i].base
          /\ segs'[i].mem = segs[i].mem /\ segs'[i].size = segs[i].size
      BY <3>1
    <3>. QED  BY <3>1, <3>2, MismoArchivo
  <2>5. Alta(f, k, pedido.pid, t)
    BY <1>5, <2>0, <2>2, <2>3, <2>4 DEF Alta
  <2>. QED  BY <2>5 DEF t
<1>. QED  BY <1>9, <1>10

-----------------------------------------------------------------------------
(* Destruction, reads and writes                                           *)

\* destruirSegmento takes the files of p, and its repeated names.
LEMMA DestruyeEsDestruir ==
  ASSUME TypeOK, ~Rota, ~Rota', leido' = leido, bytes' = bytes,
         NEW p \in Pids, DestruyeSegmentos(p)
  PROVE  Abstracta!DestruirA(p)
<1> DEFINE N(k) == NombreDe(k)'
           U(k) == EsUnico(k)'
           A(k) == Archivo(k)'
<1>1. /\ fase = "reposo" /\ fase' = "reposo" /\ DOMAIN segs' = DOMAIN segs
      /\ \A k \in DOMAIN segs :
           segs'[k] = IF segs[k].pid = p THEN Liberado(segs[k]) ELSE segs[k]
  BY DEF DestruyeSegmentos
<1>2. \A k \in DOMAIN segs : Liberado(segs[k]).res = 0
  BY DEF Liberado, Hueco
<1>3. Vivos' = {k \in Vivos : segs[k].pid # p}
  BY <1>1, <1>2, VivosReservados
<1>4. \A k \in Vivos' : segs'[k] = segs[k]
  BY <1>1, <1>3 DEF Vivos
<1>5. ASSUME NEW k \in Vivos' PROVE N(k) = NombreDe(k) /\ A(k) = Archivo(k)
  <2>1. /\ segs'[k].pid = segs[k].pid /\ segs'[k].base = segs[k].base
        /\ segs'[k].mem = segs[k].mem /\ segs'[k].size = segs[k].size
    BY <1>4
  <2>2. Archivo(k)' = Archivo(k)
    BY <2>1, MismoArchivo
  <2>. QED  BY <2>1, <2>2 DEF NombreDe
<1>6. \A k : U(k) <=> \A j \in Vivos' : N(j) = N(k) => j = k
  BY DEF EsUnico
<1>7. \A k : NombreDe(k)[1] = segs[k].pid /\ Archivo(k).pid = segs[k].pid
  BY DEF NombreDe, Archivo
<1>8. Archivos = {Archivo(k) : k \in {j \in Vivos : EsUnico(j)}}
      /\ Repetidos = {NombreDe(k) : k \in {j \in Vivos : ~EsUnico(j)}}
  BY DEF Archivos, Repetidos
<1>9. Archivos' = {A(k) : k \in {j \in Vivos' : U(j)}}
      /\ Repetidos' = {N(k) : k \in {j \in Vivos' : ~U(j)}}
  BY DEF Archivos, Repetidos
<1>. HIDE DEF N, U, A
<1>10. ASSUME NEW k \in Vivos' PROVE U(k) <=> EsUnico(k)
  <2>1. \A j \in Vivos : NombreDe(j) = NombreDe(k) => j \in Vivos'
    BY <1>3, <1>7
  <2>. QED  BY <1>3, <1>5, <1>6, <2>1 DEF EsUnico
<1>11. Archivos' = {a \in Archivos : a.pid # p}
  <2>1. Archivos' = {Archivo(k) : k \in {j \in Vivos : segs[j].pid # p /\ EsUnico(j)}}
    BY <1>3, <1>5, <1>9, <1>10
  <2>. QED  BY <1>7, <1>8, <2>1
<1>12. Repetidos' = {i \in Repetidos : i[1] # p}
  <2>1. Repetidos' = {NombreDe(k) : k \in {j \in Vivos : segs[j].pid # p /\ ~EsUnico(j)}}
    BY <1>3, <1>5, <1>9, <1>10
  <2>. QED  BY <1>7, <1>8, <2>1
<1>13. Rota' = Rota
  <2>1. Rota \in BOOLEAN /\ Rota' \in BOOLEAN
    BY DEF Rota
  <2>. QED  BY <2>1
<1>. QED  BY <1>11, <1>12, <1>13 DEF Abstracta!DestruirA

\* The segment a client names, and its place in the abstract memory.
LEMMA EncontradoTipo ==
  ASSUME TypeOK, Teselado, ~Rota, fase = "reposo", NEW i \in Pids \X Bases
  PROVE  /\ \A k \in Encontrado(i) :
              /\ k \in Vivos /\ NombreDe(k) = i
              /\ segs[k].mem \in Nat /\ segs[k].size \in Nat
              /\ segs[k].mem + segs[k].size <= Malloc
              /\ EsUnico(k) => /\ Archivo(k) \in Abstracta!Llamado(i)
                               /\ Abstracta!Largo(Archivo(k)) = segs[k].size
              /\ ~EsUnico(k) => i \in Repetidos /\ Abstracta!Llamado(i) = {}
         /\ Buscados(i) = {} =>
              i \notin Abstracta!Nombres /\ Abstracta!Llamado(i) = {}
<1>1. i = <<i[1], i[2]>>
  OBVIOUS
<1>2. Buscados(i) = {k \in Vivos : NombreDe(k) = i}
  BY <1>1, VivosReservados DEF Buscados, NombreDe
<1>3. Archivos = {Archivo(k) : k \in {j \in Vivos : EsUnico(j)}}
      /\ Repetidos = {NombreDe(k) : k \in {j \in Vivos : ~EsUnico(j)}}
  BY DEF Archivos, Repetidos
<1>4. \A k : Abstracta!Nombre(Archivo(k)) = NombreDe(k)
  BY DEF Abstracta!Nombre, Archivo, NombreDe
<1>5. Abstracta!Llamado(i) = {a \in Archivos : Abstracta!Nombre(a) = i}
  BY DEF Abstracta!Llamado
<1>6. ASSUME NEW k \in Encontrado(i)
      PROVE  /\ k \in Vivos /\ NombreDe(k) = i
             /\ segs[k].mem \in Nat /\ segs[k].size \in Nat
             /\ segs[k].mem + segs[k].size <= Malloc
             /\ EsUnico(k) => /\ Archivo(k) \in Abstracta!Llamado(i)
                              /\ Abstracta!Largo(Archivo(k)) = segs[k].size
             /\ ~EsUnico(k) => i \in Repetidos /\ Abstracta!Llamado(i) = {}
  <2>1. k \in Vivos /\ NombreDe(k) = i
    BY <1>2 DEF Encontrado, Primera
  <2>2. /\ Contiguos(segs) /\ Ordenados(segs) /\ libre \in Nat /\ Numeros(segs)
        /\ libre + Inicio(segs, Len(segs) + 1) = Malloc
    BY NumerosTipo DEF TypeOK, Teselado, Estable, TeselaEntera
  <2>3. k \in 1..Len(segs) /\ segs[k].mem \in Int /\ segs[k].size \in Nat
    BY <2>1, VivosTipo
  <2>4. segs[k].mem >= 0 /\ segs[k].mem + segs[k].size <= Malloc
    BY <2>2, <2>3, Acotados
  <2>5. EsUnico(k) => /\ Archivo(k) \in Abstracta!Llamado(i)
                      /\ Abstracta!Largo(Archivo(k)) = segs[k].size
    BY <1>3, <1>4, <1>5, <2>1, ArchivoTipo DEF Abstracta!Largo
  <2>6. ASSUME ~EsUnico(k) PROVE i \in Repetidos /\ Abstracta!Llamado(i) = {}
    <3>1. \A j \in Vivos : NombreDe(j) = i => ~EsUnico(j)
      BY <2>1, <2>6 DEF EsUnico
    <3>. QED  BY <1>3, <1>4, <1>5, <2>1, <2>6, <3>1
  <2>. QED  BY <2>1, <2>3, <2>4, <2>5, <2>6
<1>7. ASSUME Buscados(i) = {}
      PROVE  i \notin Abstracta!Nombres /\ Abstracta!Llamado(i) = {}
  BY <1>2, <1>3, <1>4, <1>5, <1>7, NombresTipo
<1>. QED  BY <1>6, <1>7

\* What is not read or written does not change.
LEMMA MismosArchivos ==
  ASSUME UNCHANGED <<segs, fase, ocupado, desvio, fuera>>, bytes' = bytes
  PROVE  Archivos' = Archivos /\ Repetidos' = Repetidos /\ Rota' = Rota
<1>1. Vivos' = Vivos /\ \A k : NombreDe(k)' = NombreDe(k) /\ Archivo(k)' = Archivo(k)
  BY DEF Vivos, NombreDe, Archivo, Contenido
<1>2. \A k : EsUnico(k)' <=> EsUnico(k)
  BY <1>1 DEF EsUnico
<1>3. Rota' = Rota
  BY DEF Rota
<1>. QED  BY <1>1, <1>2, <1>3 DEF Archivos, Repetidos

\* A piece of a sequence, which is empty when its length is 0.
LEMMA TrozoTipo ==
  ASSUME NEW t \in Nat, NEW b, NEW c, \A j \in 1..t : b[j] = c[j]
  PROVE  [j \in 1..t |-> b[j]] = [j \in 1..t |-> c[j]]
  OBVIOUS

LEMMA Vacia ==
  ASSUME NEW b, NEW o
  PROVE  [j \in 1..0 |-> b[o + j]] = <<>>
<1>1. [j \in 1..0 |-> b[o + j]] \in [1..0 -> {}]
  OBVIOUS
<1>. QED  BY <1>1, FuncionEsSecuencia

\* A byte of another segment is none of the l that are written.
LEMMA DeOtroSegmento ==
  ASSUME NEW m \in Nat, NEW n \in Nat, NEW o \in Nat, NEW l \in Nat, o + l <= n,
         NEW mj \in Nat, NEW nj \in Nat, mj + nj <= Malloc, NEW x \in 1..nj,
         mj + nj <= m \/ m + n <= mj
  PROVE  /\ mj + x - 1 \in Direcciones
         /\ mj + x - 1 \notin (m + o)..(m + o + l - 1)
<1>1. x \in Int /\ x >= 1 /\ x <= nj /\ Malloc \in Int
  BY MallocAssumption
<1>. QED  BY <1>1 DEF Direcciones

\* The difference that enviarBytes compares does not wrap there.
LEMMA RestaTipo ==
  ASSUME NEW b \in Nat, NEW l \in Nat, NEW a \in Direcciones, b + l <= Malloc
  PROVE  /\ Resta(a, b) < l <=> a \in b..(b + l - 1)
         /\ a \in b..(b + l - 1) => Resta(a, b) = a - b
<1>1. a \in Int /\ a >= 0 /\ a < Malloc /\ Malloc \in Int
      /\ Limite \in Int /\ Limite > 2 * Malloc
  BY MallocAssumption, LimiteAssumption DEF Direcciones
<1>2. CASE a >= b
  <2>1. Resta(a, b) = a - b
    BY <1>2 DEF Resta
  <2>. QED  BY <1>1, <1>2, <2>1
<1>3. CASE ~(a >= b)
  <2>1. Resta(a, b) = a - b + Limite
    BY <1>3 DEF Resta
  <2>2. a - b + Limite >= l /\ ~(a \in b..(b + l - 1))
    BY <1>1, <1>3
  <2>. QED  BY <1>1, <2>1, <2>2
<1>. QED  BY <1>2, <1>3

\* solicitarBytes returns what the file holds there, or nothing.
LEMMA LecturaEsLeer ==
  ASSUME TypeOK, Teselado, ~Rota, NEW i \in Pids \X Bases,
         NEW o \in Desplazamientos, NEW t \in Largos, Solicitar(i, o, t)
  PROVE  Abstracta!LeerA(i, o, t)
<1>1. /\ fase = "reposo" /\ UNCHANGED <<vars, bytes, escrituras, fuera>>
      /\ \/ \E k \in Encontrado(i) :
              leido' = IF SePuedeLeer(k, o, t)
                         THEN [j \in 1..t |-> Lee(Suma(segs[k].mem, o) + j - 1)]
                         ELSE <<>>
         \/ Buscados(i) = {} /\ leido' = <<>>
  BY DEF Solicitar
<1>2. Archivos' = Archivos /\ Repetidos' = Repetidos /\ Rota' = Rota
  BY <1>1, MismosArchivos DEF vars, memoria, cursor
<1>3. CASE Buscados(i) = {} /\ leido' = <<>>
  BY <1>1, <1>2, <1>3, EncontradoTipo DEF Abstracta!LeerA
<1>4. ASSUME NEW k \in Encontrado(i),
             leido' = IF SePuedeLeer(k, o, t)
                        THEN [j \in 1..t |-> Lee(Suma(segs[k].mem, o) + j - 1)]
                        ELSE <<>>
      PROVE  Abstracta!LeerA(i, o, t)
  <2>1. CASE ~EsUnico(k)
    BY <1>1, <1>2, <2>1, EncontradoTipo DEF Abstracta!LeerA
  <2>2. CASE EsUnico(k)
    <3>1. /\ k \in Vivos /\ Archivo(k) \in Abstracta!Llamado(i)
          /\ Abstracta!Largo(Archivo(k)) = segs[k].size
      BY <1>1, <2>2, EncontradoTipo
    <3>2. PICK m \in Nat, n \in Nat : m = segs[k].mem /\ n = segs[k].size /\ m + n <= Malloc
      BY <1>1, EncontradoTipo
    <3>3. /\ o \in Nat /\ t \in Nat /\ Limite \in Nat /\ Limite > 2 * Malloc
          /\ Malloc \in Nat
      BY LargosAssumption, LimiteAssumption, MallocAssumption
    <3>4. \A j \in 1..n : Archivo(k).datos[j] = bytes[m + j - 1]
      BY <3>1, <3>2, ArchivoTipo
    <3>5. SePuedeLeer(k, o, t) <=> t > 0 /\ o + t <= n
      <4>1. o <= n /\ t <= n => Suma(o, t) = o + t
        BY <3>2, <3>3 DEF Suma
      <4>. QED  BY <3>2, <3>3, <4>1 DEF SePuedeLeer
    <3>6. leido' = IF o + t <= Abstracta!Largo(Archivo(k))
                     THEN Abstracta!Trozo(Archivo(k), o, t) ELSE <<>>
      <4>1. CASE o + t <= n /\ t > 0
        <5>1. Suma(m, o) = m + o
          BY <3>2, <3>3, <4>1 DEF Suma
        <5>2. ASSUME NEW j \in 1..t
              PROVE  Lee(m + o + j - 1) = Archivo(k).datos[o + j]
          <6>1. o + j \in 1..n /\ m + o + j - 1 \in Direcciones
                /\ m + (o + j) - 1 = m + o + j - 1
            <7>1. j \in Int /\ j >= 1 /\ j <= t
              BY <3>3
            <7>. QED  BY <3>2, <3>3, <4>1, <7>1 DEF Direcciones
          <6>. QED  BY <3>4, <6>1 DEF Lee
        <5>3. leido' = [j \in 1..t |-> Lee(m + o + j - 1)]
          BY <1>4, <3>2, <3>5, <4>1, <5>1
        <5>4. Abstracta!Trozo(Archivo(k), o, t) = [j \in 1..t |-> Archivo(k).datos[o + j]]
          BY DEF Abstracta!Trozo
        <5>5. [j \in 1..t |-> Lee(m + o + j - 1)] = [j \in 1..t |-> Archivo(k).datos[o + j]]
          BY <5>2
        <5>. QED  BY <3>1, <3>2, <4>1, <5>3, <5>4, <5>5
      <4>2. CASE t = 0
        <5>1. Abstracta!Trozo(Archivo(k), o, t) = <<>>
          BY <4>2, Vacia DEF Abstracta!Trozo
        <5>2. leido' = <<>>
          BY <1>4, <3>5, <4>2
        <5>. QED  BY <5>1, <5>2
      <4>3. CASE ~(o + t <= n)
        BY <1>4, <3>1, <3>2, <3>5, <4>3
      <4>. QED  BY <3>3, <4>1, <4>2, <4>3
    <3>. QED  BY <1>2, <3>1, <3>6 DEF Abstracta!LeerA
  <2>. QED  BY <2>1, <2>2
<1>. QED  BY <1>1, <1>3, <1>4

\* Moving an interval moves its elements.
LEMMA IntervaloMovido ==
  ASSUME NEW m \in Nat, NEW o \in Nat, NEW l \in Nat, NEW n \in Nat, NEW x \in 1..n
  PROVE  /\ m + x - 1 \in (m + o)..(m + o + l - 1) <=> x \in (o + 1)..(o + l)
         /\ (m + x - 1) - (m + o) + 1 = x - o
OBVIOUS

\* The bytes of a segment, and part of them, are inside the memory.
LEMMA DentroDeLaMemoria ==
  ASSUME NEW m \in Nat, NEW n \in Nat, Malloc \in Nat, m + n <= Malloc, NEW x \in 1..n
  PROVE  m + x - 1 \in Direcciones
BY DEF Direcciones

LEMMA ParteDeUnSegmento ==
  ASSUME NEW m \in Nat, NEW n \in Nat, NEW e \in Nat, m + n <= e,
         NEW o \in Nat, NEW l \in Nat, o + l <= n
  PROVE  m + o \in Nat /\ m + o + l <= e /\ m + o <= e /\ o + l <= e
OBVIOUS

\* A write inside a segment changes that file there and no other file.
LEMMA EscribeArchivo ==
  ASSUME TypeOK, TypeOK', Teselado, ~Rota, ~Rota', fase = "reposo", UNCHANGED vars,
         NEW k \in Vivos, NEW o \in Nat, NEW d \in Buffers,
         Suma(Len(d), o) <= segs[k].size, Escribe(k, o, d)
  PROVE  /\ o + Len(d) <= segs[k].size
         /\ Archivo(k)' = Abstracta!Grabado(Archivo(k), o, d)
         /\ \A j \in Vivos : j # k => Archivo(j)' = Archivo(j)
<1>1. /\ Contiguos(segs) /\ Ordenados(segs) /\ libre \in Nat /\ Numeros(segs)
      /\ libre + Inicio(segs, Len(segs) + 1) = Malloc
  BY NumerosTipo DEF TypeOK, Teselado, Estable, TeselaEntera
<1>2. \A j \in Vivos : /\ j \in 1..Len(segs) /\ segs[j].mem \in Int /\ segs[j].size \in Nat
                       /\ segs[j].mem >= 0 /\ segs[j].mem + segs[j].size <= Malloc
  BY <1>1, VivosTipo, Acotados
<1>3. PICK m \in Nat, n \in Nat : m = segs[k].mem /\ n = segs[k].size /\ m + n <= Malloc
  BY <1>2
<1>4. PICK l \in Nat : l = Len(d) /\ l < Limite
  BY BuffersAssumption
<1>5. Limite \in Nat /\ Limite > 2 * Malloc /\ Malloc \in Nat
  BY LimiteAssumption, MallocAssumption
<1>6. o + l < Limite
  BY <1>4, <1>5 DEF Escribe, Rota
<1>7. o + l <= n
  BY <1>3, <1>4, <1>5, <1>6 DEF Suma
<1>14. m + o \in Nat /\ m + o + l <= Malloc /\ m + o <= Malloc
  <2>1. m + n <= Malloc /\ Malloc \in Nat /\ o + l <= n
    BY <1>3, <1>5, <1>7, Zenon
  <2>. QED  BY <2>1, ParteDeUnSegmento, SMT
<1>8. Suma(m, o) = m + o
  BY <1>5, <1>14 DEF Suma
<1>9. \A a \in Direcciones :
        bytes'[a] = IF Resta(a, m + o) < l THEN d[Resta(a, m + o) + 1] ELSE bytes[a]
  BY <1>3, <1>4, <1>8 DEF Escribe
<1>10. ASSUME NEW a \in Direcciones
       PROVE  bytes'[a] = IF a \in (m + o)..(m + o + l - 1)
                            THEN d[a - (m + o) + 1] ELSE bytes[a]
  <2>1. m + o \in Nat /\ (m + o) + l <= Malloc
    BY <1>14
  <2>2. /\ Resta(a, m + o) < l <=> a \in (m + o)..(m + o + l - 1)
        /\ a \in (m + o)..(m + o + l - 1) => Resta(a, m + o) = a - (m + o)
    BY <1>4, <2>1, RestaTipo
  <2>. QED  BY <1>9, <2>2
<1>11. segs' = segs /\ Vivos' = Vivos
  BY DEF vars, memoria, cursor, Vivos
<1>12. ASSUME NEW j \in Vivos, j # k
       PROVE  Archivo(j)' = Archivo(j)
  <2>1. ASSUME NEW x \in 1..segs[j].size
        PROVE  bytes'[segs[j].mem + x - 1] = bytes[segs[j].mem + x - 1]
    <3>1. PICK mj \in Nat, nj \in Nat : mj = segs[j].mem /\ nj = segs[j].size /\ mj + nj <= Malloc
      BY <1>2
    <3>2. mj + nj <= m \/ m + n <= mj
      <4>1. j < k \/ k < j
        BY <1>2, <1>12
      <4>. QED  BY <1>1, <1>2, <1>3, <3>1, <4>1 DEF Ordenados
    <3>3. mj + x - 1 \in Direcciones /\ mj + x - 1 \notin (m + o)..(m + o + l - 1)
      BY <1>3, <1>4, <1>7, <3>1, <3>2, DeOtroSegmento
    <3>. QED  BY <1>10, <3>1, <3>3
  <2>. QED  BY <1>11, <2>1 DEF Archivo, Contenido
<1>13. Archivo(k)' = Abstracta!Grabado(Archivo(k), o, d)
  <2>1. Archivo(k) = [pid |-> segs[k].pid, base |-> segs[k].base, datos |-> Archivo(k).datos]
    BY DEF Archivo
  <2>2. Abstracta!Largo(Archivo(k)) = n
    BY <1>3, ArchivoTipo DEF Abstracta!Largo
  <2>3. Abstracta!Grabado(Archivo(k), o, d)
          = [pid |-> segs[k].pid, base |-> segs[k].base,
             datos |-> [x \in 1..n |-> IF x \in (o + 1)..(o + l) THEN d[x - o]
                                       ELSE Archivo(k).datos[x]]]
    <3> DEFINE g == [x \in 1..Abstracta!Largo(Archivo(k)) |->
                       IF x \in (o + 1)..(o + Len(d)) THEN d[x - o]
                       ELSE Archivo(k).datos[x]]
    <3>1. Abstracta!Grabado(Archivo(k), o, d) = [Archivo(k) EXCEPT !.datos = g]
      BY DEF Abstracta!Grabado
    <3>2. g = [x \in 1..n |-> IF x \in (o + 1)..(o + l) THEN d[x - o]
                               ELSE Archivo(k).datos[x]]
      BY <1>4, <2>2
    <3>. HIDE DEF g
    <3>3. [Archivo(k) EXCEPT !.datos = g]
            = [pid |-> segs[k].pid, base |-> segs[k].base, datos |-> g]
      BY <2>1
    <3>. QED  BY <3>1, <3>2, <3>3
  <2>4. Archivo(k)' = [pid |-> segs[k].pid, base |-> segs[k].base,
                       datos |-> [x \in 1..n |-> bytes'[m + x - 1]]]
    BY <1>3, <1>11 DEF Archivo, Contenido
  <2>5. ASSUME NEW x \in 1..n
        PROVE  bytes'[m + x - 1] = IF x \in (o + 1)..(o + l) THEN d[x - o]
                                   ELSE Archivo(k).datos[x]
    <3>1. /\ m + x - 1 \in Direcciones
          /\ m + x - 1 \in (m + o)..(m + o + l - 1) <=> x \in (o + 1)..(o + l)
          /\ (m + x - 1) - (m + o) + 1 = x - o
      <4>1. m + x - 1 \in Direcciones
        BY <1>3, <1>5, DentroDeLaMemoria, Zenon
      <4>2. /\ m + x - 1 \in (m + o)..(m + o + l - 1) <=> x \in (o + 1)..(o + l)
            /\ (m + x - 1) - (m + o) + 1 = x - o
        BY IntervaloMovido, SMT
      <4>. QED  BY <4>1, <4>2
    <3>2. Archivo(k).datos[x] = bytes[m + x - 1]
      BY <1>3, ArchivoTipo
    <3>. QED  BY <1>10, <3>1, <3>2
  <2>6. [x \in 1..n |-> bytes'[m + x - 1]]
          = [x \in 1..n |-> IF x \in (o + 1)..(o + l) THEN d[x - o]
                            ELSE Archivo(k).datos[x]]
    BY <2>5
  <2>. QED  BY <2>3, <2>4, <2>6
<1>. QED  BY <1>3, <1>4, <1>7, <1>12, <1>13

\* enviarBytes writes the file of that name, or changes nothing.
LEMMA EscrituraEsEscribir ==
  ASSUME TypeOK, TypeOK', Teselado, ~Rota, ~Rota', NEW i \in Pids \X Bases,
         NEW o \in Desplazamientos, NEW d \in Buffers, Enviar(i, o, d)
  PROVE  Abstracta!EscribirA(i, o, d)
<1>1. /\ fase = "reposo" /\ UNCHANGED vars /\ leido' = leido
      /\ \/ \E k \in Encontrado(i) :
              IF SePuedeEnviar(k, o, d) THEN Escribe(k, o, d)
                                        ELSE UNCHANGED <<bytes, fuera>>
         \/ Buscados(i) = {} /\ UNCHANGED <<bytes, fuera>>
  BY DEF Enviar
<1>2. ASSUME UNCHANGED <<bytes, fuera>>
      PROVE  Archivos' = Archivos /\ Repetidos' = Repetidos /\ Rota' = Rota
  BY <1>1, <1>2, MismosArchivos DEF vars, memoria, cursor
<1>3. Rota' = Rota
  <2>1. Rota \in BOOLEAN /\ Rota' \in BOOLEAN
    BY DEF Rota
  <2>. QED  BY <2>1
<1>4. o \in Nat
  BY LargosAssumption, LimiteAssumption
<1>5. CASE Buscados(i) = {} /\ UNCHANGED <<bytes, fuera>>
  BY <1>1, <1>2, <1>5, EncontradoTipo DEF Abstracta!EscribirA
<1>6. ASSUME NEW k \in Encontrado(i), ~SePuedeEnviar(k, o, d), UNCHANGED <<bytes, fuera>>
      PROVE  Abstracta!EscribirA(i, o, d)
  <2>1. Archivos' = Archivos /\ Repetidos' = Repetidos /\ Rota' = Rota
    BY <1>2, <1>6
  <2>2. CASE ~EsUnico(k)
    BY <1>1, <2>1, <2>2, EncontradoTipo DEF Abstracta!EscribirA
  <2>3. CASE EsUnico(k)
    <3>1. /\ Archivo(k) \in Abstracta!Llamado(i)
          /\ Abstracta!Largo(Archivo(k)) = segs[k].size
      BY <1>1, <2>3, EncontradoTipo
    <3>2. PICK m \in Nat, n \in Nat : m = segs[k].mem /\ n = segs[k].size /\ m + n <= Malloc
      BY <1>1, EncontradoTipo
    <3>3. PICK l \in Nat : l = Len(d)
      BY BuffersAssumption
    <3>4. Limite \in Nat /\ Limite > 2 * Malloc /\ Malloc \in Nat
      BY LimiteAssumption, MallocAssumption
    <3>5. ~(o + l <= n)
      <4>1. SUFFICES ASSUME o + l <= n PROVE FALSE
        OBVIOUS
      <4>2. o \in Nat /\ o + l < Limite
        BY <1>4, <3>2, <3>4, <4>1, ParteDeUnSegmento
      <4>. QED  BY <1>4, <1>6, <3>2, <3>3, <3>4, <4>1, <4>2 DEF SePuedeEnviar, Suma
    <3>. QED  BY <1>1, <2>1, <3>1, <3>2, <3>3, <3>5 DEF Abstracta!EscribirA
  <2>. QED  BY <2>2, <2>3
<1>7. ASSUME NEW k \in Encontrado(i), SePuedeEnviar(k, o, d), Escribe(k, o, d)
      PROVE  Abstracta!EscribirA(i, o, d)
  <2>1. k \in Vivos /\ NombreDe(k) = i
    BY <1>1, EncontradoTipo
  <2>2. /\ o + Len(d) <= segs[k].size
        /\ Archivo(k)' = Abstracta!Grabado(Archivo(k), o, d)
        /\ \A j \in Vivos : j # k => Archivo(j)' = Archivo(j)
    BY <1>1, <1>4, <1>7, <2>1, EscribeArchivo DEF SePuedeEnviar
  <2>3. Vivos' = Vivos /\ \A j : NombreDe(j)' = NombreDe(j)
    BY <1>1 DEF vars, memoria, cursor, Vivos, NombreDe
  <2>4. \A j : EsUnico(j)' <=> EsUnico(j)
    BY <2>3 DEF EsUnico
  <2>5. Repetidos' = Repetidos
    BY <2>3, <2>4 DEF Repetidos
  <2> DEFINE A(j) == Archivo(j)'
  <2>6. Archivos = {Archivo(j) : j \in {x \in Vivos : EsUnico(x)}}
        /\ Archivos' = {A(j) : j \in {x \in Vivos : EsUnico(x)}}
    BY <2>3, <2>4 DEF Archivos
  <2>7. A(k) = Abstracta!Grabado(Archivo(k), o, d)
        /\ \A j \in Vivos : j # k => A(j) = Archivo(j)
    BY <2>2
  <2>8. \A j : Abstracta!Nombre(Archivo(j)) = NombreDe(j)
    BY DEF Abstracta!Nombre, Archivo, NombreDe
  <2>. HIDE DEF A
  <2>9. CASE ~EsUnico(k)
    <3>1. Archivos' = Archivos
      BY <2>6, <2>7, <2>9
    <3>. QED  BY <1>1, <1>3, <2>5, <2>9, <3>1, EncontradoTipo DEF Abstracta!EscribirA
  <2>10. CASE EsUnico(k)
    <3>1. /\ Archivo(k) \in Abstracta!Llamado(i)
          /\ Abstracta!Largo(Archivo(k)) = segs[k].size
      BY <1>1, <2>10, EncontradoTipo
    <3>2. \A j \in Vivos : EsUnico(j) /\ j # k => Archivo(j) # Archivo(k)
      BY <2>1, <2>8 DEF EsUnico
    <3>3. Archivos' = (Archivos \ {Archivo(k)}) \cup {A(k)}
      BY <2>1, <2>6, <2>7, <2>10, <3>2
    <3>. QED  BY <1>1, <1>3, <2>2, <2>5, <2>7, <3>1, <3>3 DEF Abstracta!EscribirA
  <2>. QED  BY <2>9, <2>10
<1>. QED  BY <1>1, <1>5, <1>6, <1>7

-----------------------------------------------------------------------------
(* The theorem                                                             *)

\* Once the memory is broken it stays so.
LEMMA RotaPaso ==
  ASSUME TypeOK, CursorValido, fuera \in {0, 1}, [NextB]_varsB, ~Rota'
  PROVE  ~Rota /\ desvio = 0 /\ desvio' = 0 /\ fuera' = 0
<1>1. [Next]_vars
  BY PasoDeLista
<1>2. TypeOK' /\ CursorValido'
  BY <1>1, TipoPaso
<1>3. desvio' = 0 /\ desvio = 0
  BY <1>1, <1>2, DesvioPaso DEF Rota, TypeOK
<1>4. fuera' = fuera \/ fuera' = 1
  BY DEF NextB, ListaB, CompactarB, Solicitar, Enviar, Escribe, varsB
<1>. QED  BY <1>3, <1>4 DEF Rota

\* The history of the writes is a bit.
FueraBit == fuera \in {0, 1}

LEMMA FueraPaso == FueraBit /\ [NextB]_varsB => FueraBit'
  BY DEF FueraBit, NextB, ListaB, CompactarB, Solicitar, Enviar, Escribe, varsB

\* crearSegmento, before its turn of compaction and after it.
LEMMA CreaEsCrear ==
  ASSUME TypeOK, TypeOK', PedidoReal, ~Rota, ~Rota', leido' = leido, bytes' = bytes,
         CreaPrimero \/ CreaEnHueco \/ CreaAlFinal
  PROVE  \E p \in Pids, t \in Tamanios : Abstracta!CrearA(p, t)
<1>1. pedido.pid \in Pids /\ pedido.tam \in Tamanios
  BY DEF PedidoReal, CreaPrimero, CreaEnHueco, CreaAlFinal
<1>2. pedido.tam \in Nat
  BY <1>1, TamaniosAssumption
<1>3. \E f, kn : Alta(f, kn, pedido.pid, pedido.tam)
  BY <1>1, <1>2, CreaPrimeroAlta, CreaEnHuecoAlta, CreaAlFinalAlta
<1>4. PICK p \in Pids, t \in Tamanios : p = pedido.pid /\ t = pedido.tam
  BY <1>1
<1>5. PICK f, kn : Alta(f, kn, p, t)
  BY <1>3, <1>4
<1>6. Abstracta!CrearA(p, t)
  BY <1>5, AltaEsCrear
<1>. QED  BY <1>6

\* A step that leaves the list alone is a compaction that moves nothing.
LEMMA QuietaEsCompactar ==
  ASSUME TypeOK, TypeOK', ~Rota, ~Rota', leido' = leido, bytes' = bytes,
         segs' = segs, Vivos' = Vivos
  PROVE  Abstracta!CompactarA
<1>1. PICK f : Traslado(f)
  BY QuietaTraslada
<1>. QED  BY <1>1, TrasladoEsCompactar

\* The operations on the list, compactacion excepted.
LEMMA ListaImplementa ==
  ASSUME TypeOK, TypeOK', PedidoReal, ~Rota, ~Rota', ListaB
  PROVE  Abstracta!NextA
<1>1. bytes' = bytes /\ leido' = leido /\ Lista
  BY DEF ListaB
<1>2. CASE CreaPrimero \/ CreaEnHueco \/ CreaAlFinal
  BY <1>1, <1>2, CreaEsCrear DEF Abstracta!NextA
<1>3. ASSUME NEW p \in Pids, DestruyeSegmentos(p) PROVE Abstracta!NextA
  BY <1>1, <1>3, DestruyeEsDestruir DEF Abstracta!NextA
<1>4. ASSUME segs' = segs,
             (fase # "consumir" /\ fase' # "consumir") \/ UNCHANGED <<fase, ocupado>>
      PROVE  Abstracta!NextA
  <2>1. Vivos' = Vivos
    BY <1>4 DEF Vivos
  <2>. QED  BY <1>1, <1>4, <2>1, QuietaEsCompactar DEF Abstracta!NextA
<1>5. ASSUME NEW p \in Pids, NEW t \in Tamanios, PideSegmento(p, t)
      PROVE  segs' = segs /\ fase # "consumir" /\ fase' # "consumir"
  BY <1>5 DEF PideSegmento, memoria
<1>6. ASSUME MandaCompactar \/ SinLugar \/ CaeWorstFit \/ ConsolaCompacta
      PROVE  segs' = segs /\ fase # "consumir" /\ fase' # "consumir"
  BY <1>6 DEF MandaCompactar, SinLugar, CaeWorstFit, ConsolaCompacta, Responde, memoria
<1>7. ASSUME NEW a \in Algoritmos, CambiaAlgoritmo(a)
      PROVE  segs' = segs /\ UNCHANGED <<fase, ocupado>>
  BY <1>7 DEF CambiaAlgoritmo, memoria, cursor
<1>. QED  BY <1>1, <1>2, <1>3, <1>4, <1>5, <1>6, <1>7 DEF Lista, Crear

\* Every step is a step of the abstract memory.
LEMMA PasoImplementa ==
  ASSUME "atras" \notin Sentidos, InvBytes, FueraBit, [NextB]_varsB
  PROVE  [Abstracta!NextA]_Abstracta!varsA
<1>1. /\ TypeOK /\ CursorValido /\ (desvio = 0 => Teselado)
      /\ PedidoReal /\ (desvio = 0 => HuecosEnMedio)
  BY DEF InvBytes, InvMemoria
<1>2. TypeOK'
  BY <1>1, PasoDeLista, TipoPaso
<1>3. CASE Rota'
  <2>1. Rota' = TRUE
    BY <1>3 DEF Rota
  <2>. QED  BY <2>1 DEF Abstracta!NextA, Abstracta!RomperA
<1>4. CASE ~Rota'
  <2>1. ~Rota /\ desvio = 0 /\ desvio' = 0 /\ fuera' = 0
    BY <1>1, <1>4, RotaPaso DEF FueraBit
  <2>2. Teselado /\ HuecosEnMedio
    BY <1>1, <2>1
  <2>3. CASE ListaB
    BY <1>1, <1>2, <1>4, <2>1, <2>3, ListaImplementa
  <2>4. CASE CompactarB
    <3>1. PICK f : Traslado(f)
      BY <1>1, <2>1, <2>2, <2>4, CompactaTraslada DEF CompactarB
    <3>2. leido' = leido
      BY <2>4 DEF CompactarB
    <3>. QED  BY <1>1, <1>2, <1>4, <2>1, <3>1, <3>2, TrasladoEsCompactar DEF Abstracta!NextA
  <2>5. ASSUME NEW i \in Pids \X Bases, NEW o \in Desplazamientos,
               NEW t \in Largos, Solicitar(i, o, t)
        PROVE  Abstracta!NextA
    BY <1>1, <2>1, <2>2, <2>5, LecturaEsLeer DEF Abstracta!NextA
  <2>6. ASSUME NEW i \in Pids \X Bases, NEW o \in Desplazamientos,
               NEW d \in Buffers, Enviar(i, o, d)
        PROVE  Abstracta!NextA
    BY <1>1, <1>2, <1>4, <2>1, <2>2, <2>6, EscrituraEsEscribir DEF Abstracta!NextA
  <2>7. CASE UNCHANGED varsB
    <3>1. UNCHANGED <<segs, fase, ocupado, desvio, fuera>> /\ bytes' = bytes /\ leido' = leido
      BY <2>7 DEF varsB, vars, memoria, cursor
    <3>2. Archivos' = Archivos /\ Repetidos' = Repetidos /\ Rota' = Rota
      BY <3>1, MismosArchivos
    <3>. QED  BY <3>1, <3>2 DEF Abstracta!varsA
  <2>. QED  BY <2>3, <2>4, <2>5, <2>6, <2>7 DEF NextB
<1>. QED  BY <1>3, <1>4

\* The list, its counter and the memory below it implement the files their
\* clients see, for every memory, program, size and buffer: a read returns
\* what was last written there whatever was created, destroyed and compacted
\* in between, provided memcpy copies from the first byte.
THEOREM ImplementaMemoria ==
  ASSUME "atras" \notin Sentidos
  PROVE  SpecB => EsMemoria
<1>1. InitB => InvBytes /\ FueraBit
  BY BytesInicial DEF InitB, FueraBit
<1>2. InvBytes /\ FueraBit /\ [NextB]_varsB => (InvBytes /\ FueraBit)'
  BY BytesPaso, FueraPaso
<1>3. InitB => Abstracta!InitA
  <2>. SUFFICES ASSUME InitB PROVE Abstracta!InitA
    OBVIOUS
  <2>1. segs = <<>> /\ desvio = 0 /\ fuera = 0 /\ leido = <<>>
    BY DEF InitB, Init
  <2>2. Vivos = {} /\ Rota = FALSE
    BY <2>1 DEF Vivos, Rota
  <2>. QED  BY <2>1, <2>2 DEF Abstracta!InitA, Archivos, Repetidos
<1>4. InvBytes /\ FueraBit /\ [NextB]_varsB => [Abstracta!NextA]_Abstracta!varsA
  BY PasoImplementa
<1>. QED  BY <1>1, <1>2, <1>3, <1>4, PTL DEF SpecB, EsMemoria, Abstracta!SpecA
=============================================================================
