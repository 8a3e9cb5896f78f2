------------------------- MODULE UMVMemoriaPruebas --------------------------
(* Proofs about the memory of the UMV: types, the places of the nodes, that *)
(* the segments tile the memory (SinSolape, Conservacion), that compaction  *)
(* keeps the identifiers and the bytes of every segment (CompactarConserva),*)
(* leaves no hole behind (SinHuecosDetras) and does not free the node it    *)
(* stands on (NodoVivo).                                                    *)
EXTENDS UMVMemoria, TLAPS

USE PidsAssumption, TamaniosAssumption, MallocAssumption, AlgoritmosAssumption,
    MaxPedidosAssumption

-----------------------------------------------------------------------------
(* The three ways the code edits the list                                  *)

\* A function on 1..n is a sequence of length n.
LEMMA FuncionEsSecuencia ==
  ASSUME NEW S, NEW n \in Nat, NEW f \in [1..n -> S]
  PROVE  f \in Seq(S) /\ Len(f) = n /\ DOMAIN f = 1..n
  OBVIOUS

\* Removing a position (list_remove_and_destroy_by_condition).
LEMMA QuitaPosTipo ==
  ASSUME NEW S, NEW s \in Seq(S), NEW k \in 1..Len(s)
  PROVE  /\ QuitaPos(s, k) \in Seq(S)
         /\ Len(QuitaPos(s, k)) = Len(s) - 1
         /\ \A j \in 1..(Len(s) - 1) :
              QuitaPos(s, k)[j] = IF j < k THEN s[j] ELSE s[j + 1]
<1>1. Len(s) - 1 \in Nat /\ \A j \in 1..Len(s) : s[j] \in S
  OBVIOUS
<1>2. QuitaPos(s, k) \in [1..(Len(s) - 1) -> S]
  BY <1>1 DEF QuitaPos
<1>. QED
  BY <1>1, <1>2, FuncionEsSecuencia DEF QuitaPos

\* Inserting after a position (list_add_in_index).
LEMMA InsertaDespuesTipo ==
  ASSUME NEW S, NEW s \in Seq(S), NEW k \in 1..Len(s), NEW e \in S
  PROVE  /\ InsertaDespues(s, k, e) \in Seq(S)
         /\ Len(InsertaDespues(s, k, e)) = Len(s) + 1
         /\ \A j \in 1..(Len(s) + 1) :
              InsertaDespues(s, k, e)[j] =
                IF j <= k THEN s[j] ELSE IF j = k + 1 THEN e ELSE s[j - 1]
<1>1. Len(s) + 1 \in Nat /\ \A j \in 1..Len(s) : s[j] \in S
  OBVIOUS
<1>2. InsertaDespues(s, k, e) \in [1..(Len(s) + 1) -> S]
  BY <1>1 DEF InsertaDespues
<1>. QED
  BY <1>1, <1>2, FuncionEsSecuencia DEF InsertaDespues

\* Rewriting one position in place.
LEMMA CambiaTipo ==
  ASSUME NEW S, NEW s \in Seq(S), NEW k \in 1..Len(s), NEW e \in S
  PROVE  /\ [s EXCEPT ![k] = e] \in Seq(S)
         /\ Len([s EXCEPT ![k] = e]) = Len(s)
         /\ \A j \in 1..Len(s) : [s EXCEPT ![k] = e][j] = IF j = k THEN e ELSE s[j]
  OBVIOUS

-----------------------------------------------------------------------------
(* The sequences the actions write are lists of segments                   *)

\* What the fields of a list of segments range over.
LEMMA CamposTipo ==
  ASSUME NEW s \in Seq(Segmento), NEW j \in 1..Len(s)
  PROVE  /\ s[j] \in Segmento
         /\ s[j].pid \in Pids \cup {SinPid} /\ s[j].base \in Int /\ s[j].mem \in Int
         /\ s[j].size \in Nat /\ s[j].res \in {0, 1}
<1>1. s[j] \in Segmento
  OBVIOUS
<1>2. \A a \in Segmento : /\ a.pid \in Pids \cup {SinPid} /\ a.base \in Int
                          /\ a.mem \in Int /\ a.size \in Nat /\ a.res \in {0, 1}
  BY DEF Segmento
<1>. QED  BY <1>1, <1>2

\* The segments the actions build.
LEMMA ReservadoTipo ==
  ASSUME NEW p \in Pids \cup {SinPid}, NEW b \in Int, NEW m \in Int, NEW t \in Nat
  PROVE  /\ Reservado(p, b, m, t) \in Segmento
         /\ Reservado(p, b, m, t).base = b /\ Reservado(p, b, m, t).mem = m
         /\ Reservado(p, b, m, t).size = t /\ Reservado(p, b, m, t).res = 1
  BY DEF Reservado, Segmento

\* A free segment built by the actions is a segment.
LEMMA HuecoEsSegmento ==
  ASSUME NEW b \in Int, NEW m \in Int, NEW t \in Nat
  PROVE  /\ Hueco(b, m, t) \in Segmento
         /\ Hueco(b, m, t).base = b /\ Hueco(b, m, t).mem = m
         /\ Hueco(b, m, t).size = t /\ Hueco(b, m, t).res = 0
  BY DEF Hueco, Segmento

\* Freeing a segment changes neither its place nor its size.
LEMMA LiberadoTipo ==
  ASSUME NEW a \in Segmento
  PROVE  /\ Liberado(a) \in Segmento
         /\ Liberado(a).base = a.base /\ Liberado(a).mem = a.mem
         /\ Liberado(a).size = a.size /\ Liberado(a).res = 0
  BY DEF Liberado, Hueco, Segmento

\* A segment that gives up its first d bytes is still one.
LEMMA CorridoTipo ==
  ASSUME NEW a \in Segmento, NEW d \in Int, a.size >= d
  PROVE  /\ Corrido(a, d) \in Segmento
         /\ Corrido(a, d).base = a.base + d /\ Corrido(a, d).mem = a.mem + d
         /\ Corrido(a, d).size = a.size - d /\ Corrido(a, d).res = a.res
  BY DEF Corrido, Segmento

\* crearSegmento in a hole leaves a list of segments, fragmented or not.
LEMMA OcupaTipo ==
  ASSUME TypeOK, NEW k \in DOMAIN segs, NEW p \in Pids \cup {SinPid}, NEW t \in Nat,
         segs[k].size >= t
  PROVE  Ocupa(k, p, t) \in Seq(Segmento)
<1> DEFINE h == segs[k]
           e == Reservado(p, h.base, h.mem, t)
           s == [segs EXCEPT ![k] = e]
           f == Hueco(h.base + t, h.mem + t, h.size - t)
<1>1. segs \in Seq(Segmento) /\ k \in 1..Len(segs)
  BY DEF TypeOK
<1>2. h.base \in Int /\ h.mem \in Int /\ h.size \in Nat /\ h.size >= t
  BY <1>1, CamposTipo
<1>3. e \in Segmento
  BY <1>2, ReservadoTipo
<1>4. s \in Seq(Segmento) /\ Len(s) = Len(segs)
  <2>. HIDE DEF e
  <2>. QED  BY <1>1, <1>3
<1>5. CASE h.size > t
  <2>1. f \in Segmento
    <3>1. h.base + t \in Int /\ h.mem + t \in Int /\ h.size - t \in Nat
      BY <1>2
    <3>. QED  BY <3>1, HuecoEsSegmento
  <2>. HIDE DEF s, f
  <2>2. InsertaDespues(s, k, f) \in Seq(Segmento)
    BY <1>1, <2>1, <1>4, InsertaDespuesTipo
  <2>. QED  BY <1>5, <2>2 DEF Ocupa, s, f
<1>6. CASE ~(h.size > t)
  BY <1>4, <1>6 DEF Ocupa
<1>. QED  BY <1>5, <1>6

\* What filling the hole at nodo with segment r does to places, sizes and
\* owners, d being the bytes that pass from the next segment to the hole.
Mudanza(r, d) ==
  /\ nodo \in 1..Len(segs) /\ r \in 1..Len(segs) /\ r > nodo
  /\ segs[nodo].res = 0
  /\ segs' \in Seq(Segmento) /\ Len(segs') = Len(segs)
  /\ \A j \in 1..Len(segs) :
       /\ segs'[j].mem = segs[j].mem + (IF j = nodo + 1 THEN d ELSE 0)
       /\ segs'[j].size = segs[j].size + (IF j = nodo THEN d
                            ELSE IF j = nodo + 1 THEN -d ELSE 0)
       /\ segs'[j].res = IF j = nodo THEN 1
                         ELSE IF j = r THEN 0 ELSE segs[j].res

Mueve == \/ MueveAMayor \/ MueveAMenor
         \/ \E r \in DOMAIN segs : MueveAIgual(r) \/ MueveSeparado(r)

\* What compactacion knows when it stands on a hole it can fill.
LEMMA HuecoTipo ==
  ASSUME TypeOK, NEW r, HuecoPara(r)
  PROVE  /\ nodo \in 1..Len(segs) /\ r \in 1..Len(segs) /\ r > nodo
         /\ nodo + 1 \in 1..Len(segs) /\ segs[nodo].res = 0
         /\ \A j \in {nodo, nodo + 1, r} :
              /\ segs[j] \in Segmento
              /\ segs[j].pid \in Pids \cup {SinPid}
              /\ segs[j].base \in Int /\ segs[j].mem \in Int /\ segs[j].size \in Nat
<1>1. segs \in Seq(Segmento) /\ nodo \in 1..Len(segs) /\ r \in 1..Len(segs)
      /\ r > nodo /\ segs[nodo].res = 0
  BY DEF TypeOK, HuecoPara, EsPrimerReservado
<1>2. {nodo, nodo + 1, r} \subseteq 1..Len(segs)
  BY <1>1
<1>. QED  BY <1>1, <1>2, CamposTipo

\* The hole at nodo becomes a segment of the owner of r.
LEMMA MovidoTipo ==
  ASSUME TypeOK, NEW r, HuecoPara(r), NEW t \in Nat
  PROVE  /\ Movido(r, t) \in Segmento
         /\ Movido(r, t).mem = segs[nodo].mem /\ Movido(r, t).size = t
         /\ Movido(r, t).res = 1
<1>1. /\ segs[r].pid \in Pids \cup {SinPid} /\ segs[r].base \in Int
      /\ segs[nodo].mem \in Int
  BY HuecoTipo
<1>. QED  BY <1>1, ReservadoTipo DEF Movido

\* Two numbers that pass from one segment to the next one.
LEMMA Diferencia ==
  ASSUME NEW a \in Nat, NEW b \in Nat
  PROVE  a - b \in Int /\ b + (a - b) = a /\ a - (a - b) = b
  OBVIOUS

\* The four ways of filling a hole at once are all a Mudanza.
LEMMA EfectoMover ==
  ASSUME TypeOK, CursorValido, Mueve
  PROVE  \E r, d \in Int : Mudanza(r, d)
<1>0. segs \in Seq(Segmento) /\ nodo \in Nat
  BY DEF TypeOK
<1>. \A j \in 1..Len(segs) : segs[j].mem \in Int /\ segs[j].size \in Nat
  BY <1>0, CamposTipo
<1>1. CASE MueveAMayor
  <2> DEFINE r == nodo + 1
             a == Movido(r, segs[nodo].size - (segs[nodo].size - segs[nodo].size))
             b == Corrido(Liberado(segs[r]), -(segs[nodo].size - segs[nodo].size))
  <2>1. HuecoPara(r) /\ segs' = [segs EXCEPT ![nodo] = a, ![r] = b]
    BY <1>1 DEF MueveAMayor
  <2>2. /\ a \in Segmento /\ b \in Segmento
        /\ a.mem = segs[nodo].mem /\ a.size = segs[nodo].size /\ a.res = 1
        /\ b.mem = segs[r].mem /\ b.size = segs[r].size /\ b.res = 0
    <3>1. /\ segs[nodo].mem \in Int /\ segs[nodo].size \in Nat
          /\ segs[r].pid \in Pids \cup {SinPid} /\ segs[r].base \in Int
          /\ segs[r] \in Segmento /\ segs[r].mem \in Int /\ segs[r].size \in Nat
      BY <2>1, HuecoTipo
    <3>2. a \in Segmento /\ a.mem = segs[nodo].mem /\ a.size = segs[nodo].size
          /\ a.res = 1
      <4>1. segs[nodo].size - (segs[nodo].size - segs[nodo].size) = segs[nodo].size
        BY <3>1, Diferencia
      <4>. QED  BY <2>1, <3>1, <4>1, MovidoTipo
    <3>3. /\ Liberado(segs[r]) \in Segmento /\ Liberado(segs[r]).mem = segs[r].mem
          /\ Liberado(segs[r]).size = segs[r].size /\ Liberado(segs[r]).res = 0
      BY <3>1, LiberadoTipo
    <3>4. b \in Segmento /\ b.mem = segs[r].mem /\ b.size = segs[r].size /\ b.res = 0
      BY <3>1, <3>3, CorridoTipo
    <3>. QED  BY <3>2, <3>4
  <2> HIDE DEF a, b
  <2>3. Mudanza(r, 0)
    BY <1>0, <2>1, <2>2, HuecoTipo DEF Mudanza
  <2>. QED  BY <2>1, <2>3, HuecoTipo
<1>2. CASE MueveAMenor
  <2> DEFINE r == nodo + 1
             d == segs[r].size - segs[nodo].size
             a == Movido(r, segs[nodo].size + d)
             b == Corrido(Liberado(segs[r]), d)
  <2>1. /\ HuecoPara(r) /\ segs[nodo].size < segs[r].size
        /\ segs' = [segs EXCEPT ![nodo] = a, ![r] = b]
    BY <1>2 DEF MueveAMenor
  <2>2. /\ a \in Segmento /\ b \in Segmento /\ d \in Int
        /\ a.mem = segs[nodo].mem /\ a.size = segs[nodo].size + d /\ a.res = 1
        /\ b.mem = segs[r].mem + d /\ b.size = segs[r].size - d /\ b.res = 0
    <3>1. /\ segs[nodo].mem \in Int /\ segs[nodo].size \in Nat /\ d \in Nat
          /\ segs[r].pid \in Pids \cup {SinPid} /\ segs[r].base \in Int
          /\ segs[r] \in Segmento /\ segs[r].mem \in Int /\ segs[r].size \in Nat
      BY <2>1, HuecoTipo
    <3>2. a \in Segmento /\ a.mem = segs[nodo].mem /\ a.size = segs[nodo].size + d
          /\ a.res = 1
      <4>. HIDE DEF d
      <4>1. segs[nodo].size + d \in Nat
        BY <3>1
      <4>. QED  BY <2>1, <4>1, MovidoTipo
    <3>3. /\ Liberado(segs[r]) \in Segmento /\ Liberado(segs[r]).mem = segs[r].mem
          /\ Liberado(segs[r]).size = segs[r].size /\ Liberado(segs[r]).res = 0
      BY <3>1, LiberadoTipo
    <3>4. /\ b \in Segmento /\ b.mem = segs[r].mem + d
          /\ b.size = segs[r].size - d /\ b.res = 0
      <4>1. d <= segs[r].size
        BY <3>1
      <4>. HIDE DEF d
      <4>. QED  BY <3>1, <3>3, <4>1, CorridoTipo
    <3>. QED  BY <3>1, <3>2, <3>4
  <2> HIDE DEF a, b, d
  <2>3. Mudanza(r, d)
    <3>1. /\ nodo \in 1..Len(segs) /\ r \in 1..Len(segs) /\ r > nodo
          /\ segs[nodo].res = 0
      BY <2>1, HuecoTipo
    <3>2. /\ segs' \in Seq(Segmento) /\ Len(segs') = Len(segs)
          /\ \A j \in 1..Len(segs) :
               segs'[j] = IF j = r THEN b ELSE IF j = nodo THEN a ELSE segs[j]
      BY <1>0, <2>1, <2>2, <3>1
    <3>3. ASSUME NEW j \in 1..Len(segs)
          PROVE
            /\ segs'[j].mem = segs[j].mem + (IF j = nodo + 1 THEN d ELSE 0)
            /\ segs'[j].size = segs[j].size + (IF j = nodo THEN d
                                 ELSE IF j = nodo + 1 THEN -d ELSE 0)
            /\ segs'[j].res = IF j = nodo THEN 1
                              ELSE IF j = r THEN 0 ELSE segs[j].res
      <4>1. segs[j].mem \in Int /\ segs[j].size \in Nat
        OBVIOUS
      <4>2. CASE j = nodo
        BY <2>2, <3>1, <3>2, <4>1, <4>2
      <4>3. CASE j = nodo + 1
        BY <2>2, <3>1, <3>2, <4>1, <4>3
      <4>4. CASE j # nodo /\ j # nodo + 1
        BY <3>2, <4>1, <4>4
      <4>. QED  BY <4>2, <4>3, <4>4
    <3>. QED  BY <3>1, <3>2, <3>3 DEF Mudanza
  <2>. QED  BY <2>1, <2>2, <2>3, HuecoTipo
<1>3. ASSUME NEW r \in DOMAIN segs, MueveAIgual(r)
      PROVE  \E q, d \in Int : Mudanza(q, d)
  <2> DEFINE a == Movido(r, segs[nodo].size)
             b == Hueco(segs[r].base + 1, segs[r].mem, segs[r].size)
  <2>1. HuecoPara(r) /\ segs' = [segs EXCEPT ![nodo] = a, ![r] = b]
    BY <1>3 DEF MueveAIgual
  <2>2. /\ a \in Segmento /\ b \in Segmento
        /\ a.mem = segs[nodo].mem /\ a.size = segs[nodo].size /\ a.res = 1
        /\ b.mem = segs[r].mem /\ b.size = segs[r].size /\ b.res = 0
    <3>1. /\ segs[nodo].mem \in Int /\ segs[nodo].size \in Nat
          /\ segs[r].pid \in Pids \cup {SinPid} /\ segs[r].base \in Int
          /\ segs[r].base + 1 \in Int /\ segs[r].mem \in Int /\ segs[r].size \in Nat
      BY <2>1, HuecoTipo
    <3>2. a \in Segmento /\ a.mem = segs[nodo].mem /\ a.size = segs[nodo].size
          /\ a.res = 1
      BY <2>1, <3>1, MovidoTipo
    <3>3. b \in Segmento /\ b.mem = segs[r].mem /\ b.size = segs[r].size /\ b.res = 0
      <4>1. segs[r].base + 1 \in Int /\ segs[r].mem \in Int /\ segs[r].size \in Nat
        BY <3>1
      <4>. QED  BY <4>1, HuecoEsSegmento
    <3>. QED  BY <3>2, <3>3
  <2> HIDE DEF a, b
  <2>3. Mudanza(r, 0)
    BY <1>0, <2>1, <2>2, HuecoTipo, SMTT(20) DEF Mudanza
  <2>. QED  BY <2>1, <2>3, HuecoTipo
<1>4. ASSUME NEW r \in DOMAIN segs, MueveSeparado(r)
      PROVE  \E q, d \in Int : Mudanza(q, d)
  <2> DEFINE d == segs[nodo].size - segs[r].size
             a == Movido(r, segs[nodo].size - d)
             b == Corrido(segs[nodo + 1], -d)
             c == Liberado(segs[r])
  <2>1. /\ HuecoPara(r) /\ d > 0 /\ r > nodo + 1
        /\ segs' = [segs EXCEPT ![nodo] = a, ![nodo + 1] = b, ![r] = c]
    BY <1>4 DEF MueveSeparado
  <2>2. /\ a \in Segmento /\ b \in Segmento /\ c \in Segmento /\ d \in Int
        /\ a.mem = segs[nodo].mem /\ a.size = segs[nodo].size - d /\ a.res = 1
        /\ b.mem = segs[nodo + 1].mem - d /\ b.size = segs[nodo + 1].size + d
        /\ b.res = segs[nodo + 1].res
        /\ c.mem = segs[r].mem /\ c.size = segs[r].size /\ c.res = 0
    <3>1. /\ segs[nodo].mem \in Int /\ segs[nodo].size \in Nat /\ d \in Nat
          /\ segs[r].pid \in Pids \cup {SinPid} /\ segs[r].base \in Int
          /\ segs[r] \in Segmento /\ segs[r].mem \in Int /\ segs[r].size \in Nat
          /\ segs[nodo + 1] \in Segmento /\ segs[nodo + 1].mem \in Int
          /\ segs[nodo + 1].size \in Nat
      BY <2>1, HuecoTipo
    <3>2. a \in Segmento /\ a.mem = segs[nodo].mem /\ a.size = segs[nodo].size - d
          /\ a.res = 1
      <4>1. segs[nodo].size - d \in Nat
        BY <3>1, Diferencia
      <4>. HIDE DEF d
      <4>. QED  BY <2>1, <4>1, MovidoTipo
    <3>3. /\ c \in Segmento /\ c.mem = segs[r].mem
          /\ c.size = segs[r].size /\ c.res = 0
      BY <3>1, LiberadoTipo
    <3>4. /\ b \in Segmento /\ b.mem = segs[nodo + 1].mem - d
          /\ b.size = segs[nodo + 1].size + d /\ b.res = segs[nodo + 1].res
      <4>. HIDE DEF d
      <4>1. -d \in Int /\ -d <= segs[nodo + 1].size
        BY <3>1
      <4>2. /\ b \in Segmento /\ b.mem = segs[nodo + 1].mem + (-d)
            /\ b.size = segs[nodo + 1].size - (-d) /\ b.res = segs[nodo + 1].res
        BY <3>1, <4>1, CorridoTipo
      <4>. QED  BY <3>1, <4>2
    <3>. QED  BY <3>1, <3>2, <3>3, <3>4
  <2> HIDE DEF a, b, c, d
  <2>3. /\ segs' \in Seq(Segmento) /\ Len(segs') = Len(segs)
        /\ \A j \in 1..Len(segs) : segs'[j] = IF j = nodo THEN a
             ELSE IF j = r THEN c ELSE IF j = nodo + 1 THEN b ELSE segs[j]
    <3>1. nodo \in 1..Len(segs) /\ r \in 1..Len(segs) /\ nodo + 1 \in 1..Len(segs)
      BY <2>1, HuecoTipo
    <3> DEFINE s == [segs EXCEPT ![nodo] = a]
    <3>2. /\ s \in Seq(Segmento) /\ Len(s) = Len(segs)
          /\ \A j \in 1..Len(segs) : s[j] = IF j = nodo THEN a ELSE segs[j]
      BY <1>0, <2>2, <3>1, CambiaTipo
    <3>3. segs' = [[s EXCEPT ![nodo + 1] = b] EXCEPT ![r] = c]
      BY <2>1
    <3> HIDE DEF s
    <3> DEFINE u == [s EXCEPT ![nodo + 1] = b]
    <3>4. /\ u \in Seq(Segmento) /\ Len(u) = Len(segs)
          /\ \A j \in 1..Len(segs) : u[j] = IF j = nodo + 1 THEN b ELSE s[j]
      BY <2>2, <3>1, <3>2, CambiaTipo
    <3>5. segs' = [u EXCEPT ![r] = c] /\ u \in Seq(Segmento) /\ Len(u) = Len(segs)
      BY <3>3, <3>4
    <3> HIDE DEF u
    <3>6. /\ segs' \in Seq(Segmento) /\ Len(segs') = Len(segs)
          /\ \A j \in 1..Len(segs) : segs'[j] = IF j = r THEN c ELSE u[j]
      BY <2>2, <3>1, <3>5, CambiaTipo
    <3>7. r # nodo + 1 /\ r # nodo
      BY <2>1, HuecoTipo
    <3>. QED  BY <3>2, <3>4, <3>6, <3>7
  <2>4. /\ nodo \in 1..Len(segs) /\ r \in 1..Len(segs) /\ r > nodo
        /\ segs[nodo].res = 0
    BY <2>1, HuecoTipo
  <2>5. PICK q \in Int : q = -d
    BY <2>2
  <2>6. \A j \in 1..Len(segs) :
          /\ segs'[j].mem = segs[j].mem + (IF j = nodo + 1 THEN q ELSE 0)
          /\ segs'[j].size = segs[j].size + (IF j = nodo THEN q
                               ELSE IF j = nodo + 1 THEN -q ELSE 0)
          /\ segs'[j].res = IF j = nodo THEN 1
                            ELSE IF j = r THEN 0 ELSE segs[j].res
    <3>1. nodo # nodo + 1 /\ r # nodo /\ r # nodo + 1
      BY <2>1, <2>4
    <3>. SUFFICES ASSUME NEW j \in 1..Len(segs)
                  PROVE  /\ segs'[j].mem = segs[j].mem + (IF j = nodo + 1 THEN q ELSE 0)
                         /\ segs'[j].size = segs[j].size + (IF j = nodo THEN q
                                              ELSE IF j = nodo + 1 THEN -q ELSE 0)
                         /\ segs'[j].res = IF j = nodo THEN 1
                                           ELSE IF j = r THEN 0 ELSE segs[j].res
      OBVIOUS
    <3>2. segs[j].mem \in Int /\ segs[j].size \in Nat
      BY <1>0, CamposTipo
    <3>3. CASE j = nodo
      BY <2>2, <2>3, <2>5, <3>1, <3>2, <3>3
    <3>4. CASE j = nodo + 1
      BY <2>2, <2>3, <2>5, <3>1, <3>2, <3>4
    <3>5. CASE j = r
      BY <2>2, <2>3, <2>5, <3>1, <3>2, <3>5
    <3>6. CASE j \notin {nodo, nodo + 1, r}
      BY <2>3, <3>1, <3>2, <3>6
    <3>. QED  BY <3>3, <3>4, <3>5, <3>6
  <2>7. Mudanza(r, q)
    BY <2>3, <2>4, <2>6 DEF Mudanza
  <2>. QED  BY <2>4, <2>5, <2>7
<1>. QED  BY <1>1, <1>2, <1>3, <1>4 DEF Mueve

\* The hole that is too small takes the size of the segment that moves in.
LEMMA EfectoAgrandar ==
  ASSUME TypeOK, CursorValido, NEW r \in DOMAIN segs, AgrandaHueco(r)
  PROVE  /\ nodo \in 1..Len(segs) /\ r \in 1..Len(segs) /\ r > nodo + 1
         /\ segs[nodo].res = 0 /\ segs[nodo].size < segs[r].size
         /\ segs' \in Seq(Segmento) /\ Len(segs') = Len(segs)
         /\ \A j \in 1..Len(segs) :
              /\ segs'[j].mem = segs[j].mem
              /\ segs'[j].size = IF j = nodo THEN segs[r].size ELSE segs[j].size
              /\ segs'[j].res = IF j = nodo THEN 1 ELSE segs[j].res
<1> DEFINE a == Movido(r, segs[r].size)
<1>1. /\ HuecoPara(r) /\ r > nodo + 1 /\ segs[nodo].size < segs[r].size
      /\ segs' = [segs EXCEPT ![nodo] = a]
  BY DEF AgrandaHueco
<1>2. /\ segs \in Seq(Segmento) /\ nodo \in 1..Len(segs) /\ r \in 1..Len(segs)
      /\ segs[nodo].res = 0 /\ segs[nodo].mem \in Int
      /\ segs[r].pid \in Pids \cup {SinPid} /\ segs[r].base \in Int
      /\ segs[r].size \in Nat
  BY <1>1, HuecoTipo DEF TypeOK
<1>3. a \in Segmento /\ a.mem = segs[nodo].mem /\ a.size = segs[r].size /\ a.res = 1
  BY <1>1, <1>2, MovidoTipo
<1> HIDE DEF a
<1>. QED  BY <1>1, <1>2, <1>3

\* The positions compactacion keeps while it consumes are those of segments.
LEMMA PosicionesTipo ==
  ASSUME TypeOK, CursorValido, fase = "consumir"
  PROVE  /\ segs \in Seq(Segmento)
         /\ nodo \in 1..Len(segs) /\ siguiente \in 1..Len(segs)
         /\ ocupado \in 1..Len(segs) /\ nodo + 1 \in 1..Len(segs)
         /\ nodo < siguiente /\ siguiente <= ocupado
         /\ dif \in Nat /\ dif > 0 /\ dif <= segs[ocupado].size
  BY DEF TypeOK, CursorValido

\* The hole after the enlarged one gives up the bytes that were missing.
LEMMA EfectoRecortar ==
  ASSUME TypeOK, CursorValido, RecortaSiguiente
  PROVE  /\ segs' \in Seq(Segmento) /\ Len(segs') = Len(segs)
         /\ \A j \in 1..Len(segs) :
              /\ segs'[j].mem = segs[j].mem + (IF j = siguiente THEN dif ELSE 0)
              /\ segs'[j].size = segs[j].size - (IF j = siguiente THEN dif ELSE 0)
              /\ segs'[j].res = IF j = ocupado THEN 0 ELSE segs[j].res
<1> DEFINE a == Corrido(segs[siguiente], dif)
           s == [segs EXCEPT ![siguiente] = a]
           b == Liberado(s[ocupado])
<1>1. fase = "consumir" /\ segs[siguiente].size > dif /\ segs' = [s EXCEPT ![ocupado] = b]
  BY DEF RecortaSiguiente
<1>2. /\ segs \in Seq(Segmento) /\ siguiente \in 1..Len(segs)
      /\ ocupado \in 1..Len(segs) /\ dif \in Int
  BY <1>1, PosicionesTipo
<1>3. \A j \in 1..Len(segs) : /\ segs[j] \in Segmento /\ segs[j].mem \in Int
                              /\ segs[j].size \in Nat
  BY <1>2, CamposTipo
<1>4. /\ a \in Segmento /\ a.mem = segs[siguiente].mem + dif
      /\ a.size = segs[siguiente].size - dif /\ a.res = segs[siguiente].res
  BY <1>1, <1>2, <1>3, CorridoTipo
<1> HIDE DEF a
<1>5. /\ s \in Seq(Segmento) /\ Len(s) = Len(segs)
      /\ \A j \in 1..Len(segs) : s[j] = IF j = siguiente THEN a ELSE segs[j]
  BY <1>2, <1>4
<1>6. s[ocupado] \in Segmento
  BY <1>2, <1>5
<1> HIDE DEF s
<1>7. /\ b \in Segmento /\ b.mem = s[ocupado].mem
      /\ b.size = s[ocupado].size /\ b.res = 0
  BY <1>6, LiberadoTipo
<1> HIDE DEF b
<1>8. /\ segs' \in Seq(Segmento) /\ Len(segs') = Len(segs)
      /\ \A j \in 1..Len(segs) : segs'[j] = IF j = ocupado THEN b ELSE s[j]
  BY <1>1, <1>2, <1>5, <1>7
<1>. QED  BY <1>2, <1>3, <1>4, <1>5, <1>7, <1>8, SMTT(20)

\* On the sound path the loop does not end for lack of rounds.
LEMMA SinDesvioSigue ==
  ASSUME ConsumeSiguiente, desvio' = 0
  PROVE  SigueConsumiendo
BY DEF ConsumeSiguiente, SeAgota

\* A hole consumed whole: the segment removed is never one past it.
LEMMA EfectoConsumir ==
  ASSUME TypeOK, CursorValido, SigueConsumiendo
  PROVE  \E m \in 1..(nodo + 1) :
           /\ m \in 1..Len(segs) /\ nodo + 2 <= Len(segs)
           /\ siguiente < ocupado
           /\ segs[siguiente].size < dif /\ dif' = dif - segs[siguiente].size
           /\ segs' = QuitaPos(segs, m)
           /\ nodo' = Baja(nodo, m) /\ siguiente' = Baja(nodo + 2, m)
           /\ ocupado' = Baja(ocupado, m)
           /\ desvio' = IF m = nodo + 1 THEN desvio ELSE 1
<1>1. fase = "consumir" /\ segs[siguiente].size < dif /\ nodo + 2 \in DOMAIN segs
      /\ dif' = dif - segs[siguiente].size
  BY DEF SigueConsumiendo
<1>2. PICK m \in DOMAIN segs :
        /\ EsConsumido(m) /\ segs' = QuitaPos(segs, m)
        /\ nodo' = Baja(nodo, m) /\ siguiente' = Baja(nodo + 2, m)
        /\ ocupado' = Baja(ocupado, m)
        /\ desvio' = IF m = nodo + 1 THEN desvio ELSE 1
  BY DEF SigueConsumiendo
<1>3. m \in Nat /\ m >= 1 /\ m \in 1..Len(segs) /\ nodo + 2 \in 1..Len(segs)
  BY <1>1, PosicionesTipo, SMTT(20)
<1>4. m <= nodo + 1
  <2>1. SUFFICES ASSUME m > nodo + 1 PROVE FALSE
    BY <1>1, <1>3, PosicionesTipo
  <2>2. nodo + 1 \in 1..(m - 1)
    BY <1>1, <1>3, <2>1, PosicionesTipo
  <2>. QED  BY <1>2, <2>2 DEF EsConsumido
<1>5. siguiente # ocupado
  BY <1>1, PosicionesTipo, CamposTipo
<1>6. siguiente < ocupado
  BY <1>1, <1>5, PosicionesTipo
<1>7. m \in 1..(nodo + 1) /\ nodo + 2 <= Len(segs)
  BY <1>1, <1>3, <1>4, PosicionesTipo
<1>. QED  BY <1>1, <1>2, <1>3, <1>6, <1>7

\* Both outcomes of the exact fit start by freeing the segment that moved.
LEMMA LiberaOcupado ==
  ASSUME TypeOK, CursorValido, fase = "consumir"
  PROVE  LET s == [segs EXCEPT ![ocupado] = Liberado(segs[ocupado])]
         IN  /\ s \in Seq(Segmento) /\ Len(s) = Len(segs)
             /\ \A j \in 1..Len(segs) :
                  /\ s[j].mem = segs[j].mem /\ s[j].size = segs[j].size
                  /\ s[j].res = IF j = ocupado THEN 0 ELSE segs[j].res
<1> DEFINE a == Liberado(segs[ocupado])
<1>1. segs \in Seq(Segmento) /\ ocupado \in 1..Len(segs) /\ segs[ocupado] \in Segmento
  BY PosicionesTipo
<1>2. /\ a \in Segmento /\ a.mem = segs[ocupado].mem
      /\ a.size = segs[ocupado].size /\ a.res = 0
  BY <1>1, LiberadoTipo
<1> HIDE DEF a
<1>3. LET s == [segs EXCEPT ![ocupado] = a]
      IN  /\ s \in Seq(Segmento) /\ Len(s) = Len(segs)
          /\ \A j \in 1..Len(segs) :
               /\ s[j].mem = segs[j].mem /\ s[j].size = segs[j].size
               /\ s[j].res = IF j = ocupado THEN 0 ELSE segs[j].res
  BY <1>1, <1>2
<1>. QED  BY <1>3 DEF a

\* The empty memory is well typed.
LEMMA TipoInicial == Init => TypeOK /\ CursorValido
<1>1. Init => TypeOK
  BY DEF Init, TypeOK, Fases, FasesCompactacion, SinPedido
<1>2. Init => CursorValido
  BY DEF Init, CursorValido
<1>. QED  BY <1>1, <1>2

\* The next turn of the loop stands on a list position, or the loop ended.
LEMMA PasaTipo ==
  ASSUME NEW s \in Seq(Segmento), NEW k \in Nat, PasaAlSiguiente(s, k)
  PROVE  /\ fase' \in {"compactar", "devolver"}
         /\ nodo' \in Nat /\ nodo' >= 1
  BY DEF PasaAlSiguiente

\* The positions compactacion starts consuming holes with.
LEMMA PosicionesAgranda ==
  ASSUME TypeOK, CursorValido, NEW r \in DOMAIN segs, AgrandaHueco(r)
  PROVE  /\ segs' \in Seq(Segmento) /\ nodo' \in Nat /\ siguiente' \in Nat
         /\ ocupado' \in Nat /\ dif' \in Nat /\ cant' \in Nat
         /\ CursorValido'
<1>1. /\ nodo \in 1..Len(segs) /\ r \in 1..Len(segs) /\ r > nodo + 1
      /\ segs[nodo].size < segs[r].size /\ segs[nodo].size \in Nat
      /\ segs[r].size \in Nat /\ segs \in Seq(Segmento)
      /\ segs' \in Seq(Segmento) /\ Len(segs') = Len(segs)
      /\ segs'[r].size = segs[r].size
  <2>1. segs \in Seq(Segmento)
    BY DEF TypeOK
  <2>. QED  BY <2>1, EfectoAgrandar, CamposTipo
<1>2. /\ fase' = "consumir" /\ siguiente' = nodo + 1 /\ ocupado' = r
      /\ dif' = segs[r].size - segs[nodo].size
      /\ cant' = cant + (r - nodo - 1) /\ nodo' = nodo
  BY DEF AgrandaHueco
<1>3. cant \in Nat /\ r - nodo - 1 \in Nat
  BY <1>1 DEF TypeOK
<1>4. /\ nodo' \in Nat /\ siguiente' \in Nat /\ ocupado' \in Nat /\ dif' \in Nat
      /\ dif' > 0 /\ nodo' >= 1 /\ nodo' < siguiente' /\ siguiente' <= ocupado'
      /\ cant' \in Nat
  <2>1. nodo \in Nat /\ nodo >= 1 /\ r \in Nat /\ nodo + 1 <= r
    BY <1>1
  <2>2. segs[r].size - segs[nodo].size \in Nat /\ segs[r].size - segs[nodo].size > 0
    BY <1>1
  <2>3. cant + (r - nodo - 1) \in Nat
    BY <1>3
  <2>. QED  BY <1>2, <2>1, <2>2, <2>3
<1>5. ocupado' <= Len(segs') /\ segs'[ocupado'].size = segs[r].size
  BY <1>1, <1>2
<1>6. dif' <= segs'[ocupado'].size
  BY <1>1, <1>2, <1>5
<1>. QED  BY <1>1, <1>2, <1>4, <1>5, <1>6 DEF CursorValido

\* Those it goes on with after a hole has been consumed whole.
LEMMA PosicionesConsume ==
  ASSUME TypeOK, CursorValido, SigueConsumiendo
  PROVE  /\ segs' \in Seq(Segmento) /\ nodo' \in Nat /\ siguiente' \in Nat
         /\ ocupado' \in Nat /\ dif' \in Nat /\ vuelta' \in Nat
         /\ desvio' \in {0, 1} /\ CursorValido'
<1>1. PICK m \in 1..(nodo + 1) :
         /\ m \in 1..Len(segs) /\ nodo + 2 <= Len(segs)
         /\ siguiente < ocupado
         /\ segs[siguiente].size < dif /\ dif' = dif - segs[siguiente].size
         /\ segs' = QuitaPos(segs, m)
         /\ nodo' = Baja(nodo, m) /\ siguiente' = Baja(nodo + 2, m)
         /\ ocupado' = Baja(ocupado, m)
         /\ desvio' = IF m = nodo + 1 THEN desvio ELSE 1
  BY EfectoConsumir
<1>2. fase = "consumir" /\ fase' = "consumir" /\ vuelta' = vuelta + 1
  BY DEF SigueConsumiendo
<1>3. /\ segs \in Seq(Segmento) /\ nodo \in 1..Len(segs)
      /\ siguiente \in 1..Len(segs) /\ ocupado \in 1..Len(segs)
      /\ nodo < siguiente /\ dif \in Nat /\ dif <= segs[ocupado].size
  BY <1>2, PosicionesTipo
<1>4. segs[siguiente].size \in Nat /\ segs[ocupado].size \in Nat
  BY <1>3, CamposTipo
<1>5. /\ segs' \in Seq(Segmento) /\ Len(segs') = Len(segs) - 1
      /\ \A j \in 1..(Len(segs) - 1) :
            segs'[j] = IF j < m THEN segs[j] ELSE segs[j + 1]
  BY <1>1, <1>3, QuitaPosTipo, ZenonT(30)
<1>6. m \in Nat /\ m >= 1 /\ m <= nodo + 1 /\ ocupado >= nodo + 2 /\ nodo \in Nat
      /\ ocupado \in Nat /\ nodo >= 1 /\ ocupado <= Len(segs) /\ Len(segs) \in Nat
  BY <1>1, <1>3
<1>7. ocupado' = ocupado - 1 /\ siguiente' = nodo + 1
  BY <1>1, <1>6 DEF Baja
<1>8. nodo' \in Nat /\ nodo' >= 1 /\ nodo' <= nodo
  BY <1>1, <1>6 DEF Baja
<1>9. segs'[ocupado - 1] = segs[ocupado]
  <2>1. ocupado - 1 \in 1..(Len(segs) - 1) /\ ~(ocupado - 1 < m)
        /\ (ocupado - 1) + 1 = ocupado
    BY <1>6
  <2>. QED  BY <1>5, <2>1
<1>10. dif' \in Nat /\ dif' > 0 /\ dif' <= segs'[ocupado'].size
  <2>1. segs'[ocupado'].size = segs[ocupado].size
    BY <1>7, <1>9
  <2>2. dif - segs[siguiente].size > 0
        /\ dif - segs[siguiente].size <= segs[ocupado].size
    <3>1. PICK x \in Nat, y \in Nat : x = segs[siguiente].size /\ y = segs[ocupado].size
      BY <1>4
    <3>2. x < dif /\ dif <= y /\ dif \in Nat
      BY <1>1, <1>3, <3>1
    <3>3. dif - x > 0 /\ dif - x <= y
      BY <3>2
    <3>. QED  BY <3>1, <3>3
  <2>. QED  BY <1>1, <1>3, <1>4, <2>1, <2>2
<1>11. CursorValido'
  <2>1. nodo' < siguiente' /\ siguiente' <= ocupado' /\ ocupado' <= Len(segs')
    BY <1>5, <1>6, <1>7, <1>8
  <2>. QED  BY <1>2, <1>8, <1>10, <2>1 DEF CursorValido
<1>12. vuelta' \in Nat /\ desvio' \in {0, 1}
  BY <1>1, <1>2 DEF TypeOK
<1>. QED  BY <1>5, <1>6, <1>7, <1>8, <1>10, <1>11, <1>12, SMTT(20)

\* _devolverMemoria adds a natural number to the counter.
LEMMA LibreTipo ==
  ASSUME TypeOK, nodo \in DOMAIN segs
  PROVE  libre + segs[nodo].size \in Nat
<1>1. segs \in Seq(Segmento) /\ nodo \in 1..Len(segs) /\ libre \in Nat
  BY DEF TypeOK
<1>2. segs[nodo].size \in Nat
  BY <1>1, CamposTipo
<1>. QED  BY <1>1, <1>2

\* Every step preserves the types and the positions of compactacion.
LEMMA TipoPaso ==
  ASSUME TypeOK, CursorValido, [Next]_vars
  PROVE  TypeOK' /\ CursorValido'
<1> USE DEF TypeOK, CursorValido, Fases, FasesCompactacion, cursor, llamada, memoria
<1>1. ASSUME NEW p \in Pids, NEW t \in Tamanios, PideSegmento(p, t)
      PROVE  TypeOK' /\ CursorValido'
  BY <1>1 DEF PideSegmento
<1>2. CASE CreaPrimero
  <2>1. AlFinal(pedido.pid, pedido.tam) \in Segmento
    BY <1>2 DEF CreaPrimero, AlFinal, Reservado, Segmento
  <2>. QED  BY <1>2, <2>1 DEF CreaPrimero, Responde, SinPedido
<1>3. CASE CreaEnHueco
  <2>1. PICK k \in Elegibles(pedido.tam) :
          segs' = Ocupa(k, pedido.pid, pedido.tam) /\ Responde(segs[k].base)
    BY <1>3 DEF CreaEnHueco
  <2>2. k \in DOMAIN segs /\ segs[k].size >= pedido.tam
    BY DEF Elegibles, HuecosPara
  <2>3. segs' \in Seq(Segmento) /\ segs[k].base \in Int
    <3>1. k \in 1..Len(segs) /\ pedido.pid \in Pids \cup {SinPid} /\ pedido.tam \in Nat
      BY <2>2
    <3>. QED  BY <2>1, <2>2, <3>1, OcupaTipo, CamposTipo
  <2>. QED  BY <1>3, <2>1, <2>3 DEF CreaEnHueco, Responde, SinPedido
<1>4. CASE CreaAlFinal
  <2>1. AlFinal(pedido.pid, pedido.tam) \in Segmento
    <3>1. segs[Len(segs)] \in Segmento
      BY <1>4 DEF CreaAlFinal
    <3>. QED  BY <1>4, <3>1, SMTT(20) DEF CreaAlFinal, AlFinal, Reservado, Segmento
  <2>2. AlFinal(pedido.pid, pedido.tam).base \in Int
    BY <2>1 DEF Segmento
  <2>. QED  BY <1>4, <2>1, <2>2 DEF CreaAlFinal, Responde, SinPedido
<1>5. CASE MandaCompactar \/ ConsolaCompacta
  BY <1>5, SMTT(20) DEF MandaCompactar, ConsolaCompacta
<1>6. CASE SinLugar
  BY <1>6 DEF SinLugar, Responde, SinPedido, Error
<1>7. CASE CaeWorstFit
  BY <1>7 DEF CaeWorstFit
<1>8. ASSUME NEW p \in Pids, DestruyeSegmentos(p)
      PROVE  TypeOK' /\ CursorValido'
  <2>1. \A k \in DOMAIN segs : Liberado(segs[k]) \in Segmento /\ segs[k] \in Segmento
    BY CamposTipo, LiberadoTipo
  <2>2. segs' \in [1..Len(segs) -> Segmento]
    BY <1>8, <2>1 DEF DestruyeSegmentos
  <2>3. segs' \in Seq(Segmento)
    BY <2>2, FuncionEsSecuencia
  <2>. QED  BY <1>8, <2>3 DEF DestruyeSegmentos, Error
<1>9. ASSUME NEW a \in Algoritmos, CambiaAlgoritmo(a)
      PROVE  TypeOK' /\ CursorValido'
  BY <1>9 DEF CambiaAlgoritmo
<1>10. CASE SaltaReservado
  BY <1>10, PasaTipo DEF SaltaReservado
<1>11. CASE NadaQueMover
  BY <1>11 DEF NadaQueMover
<1>12. CASE Mueve
  <2>1. segs' \in Seq(Segmento)
    BY <1>12, EfectoMover DEF Mudanza
  <2>2. ASSUME NEW r \in DOMAIN segs, HuecoPara(r)
        PROVE  cant + (r - nodo - 1) \in Nat
    BY <2>2, HuecoTipo
  <2>. QED
    BY <1>12, <2>1, <2>2, PasaTipo
       DEF Mueve, MueveAMayor, MueveAMenor, MueveAIgual, MueveSeparado, SoloMueve
<1>13. ASSUME NEW r \in DOMAIN segs, AgrandaHueco(r)
       PROVE  TypeOK' /\ CursorValido'
  BY <1>13, PosicionesAgranda DEF AgrandaHueco
<1>14. CASE RecortaSiguiente
  <2>1. segs' \in Seq(Segmento)
    BY <1>14, EfectoRecortar
  <2>2. fase' \in {"compactar", "devolver"} /\ nodo' \in Nat /\ nodo' >= 1
    BY <1>14, PasaTipo DEF RecortaSiguiente
  <2>. QED  BY <1>14, <2>1, <2>2 DEF RecortaSiguiente, FinConsumo
<1>15. CASE ConsumeSiguiente
  <2>1. CASE SigueConsumiendo
    BY <2>1, PosicionesConsume DEF SigueConsumiendo
  <2>2. CASE SeAgota
    <3>1. PICK m \in DOMAIN segs :
            segs' = QuitaPos(segs, m) /\ PasaAlSiguiente(segs', Baja(nodo, m))
      BY <2>2 DEF SeAgota
    <3>2. fase = "consumir"
      BY <2>2 DEF SeAgota
    <3>3. segs \in Seq(Segmento) /\ m \in 1..Len(segs) /\ nodo \in 1..Len(segs)
      BY <3>2, PosicionesTipo
    <3>4. segs' \in Seq(Segmento)
      BY <3>1, <3>3, QuitaPosTipo
    <3>5. Baja(nodo, m) \in Nat
      BY <3>3 DEF Baja
    <3>6. fase' \in {"compactar", "devolver"} /\ nodo' \in Nat /\ nodo' >= 1
      BY <3>1, <3>4, <3>5, PasaTipo
    <3>. QED  BY <2>2, <3>4, <3>6 DEF SeAgota, FinConsumo
  <2>. QED  BY <1>15, <2>1, <2>2 DEF ConsumeSiguiente
<1>16. CASE ConsumeExacto
  <2>1. fase = "consumir"
    BY <1>16 DEF ConsumeExacto
  <2> DEFINE s == [segs EXCEPT ![ocupado] = Liberado(segs[ocupado])]
  <2>2. s \in Seq(Segmento) /\ Len(s) = Len(segs)
    BY <2>1, LiberaOcupado
  <2>3. /\ segs' \in Seq(Segmento)
        /\ fase' \in {"compactar", "devolver"} /\ nodo' \in Nat /\ nodo' >= 1
        /\ desvio' \in {0, 1}
    <3> HIDE DEF s
    <3>1. ASSUME NEW m \in DOMAIN segs, segs' = QuitaPos(s, m),
                 PasaAlSiguiente(segs', Baja(nodo, m))
          PROVE  /\ segs' \in Seq(Segmento)
                 /\ fase' \in {"compactar", "devolver"} /\ nodo' \in Nat /\ nodo' >= 1
      <4>1. m \in 1..Len(s)
        BY <2>2
      <4>2. segs' \in Seq(Segmento)
        BY <2>2, <3>1, <4>1, QuitaPosTipo
      <4>3. Baja(nodo, m) \in Nat
        BY <2>1, <4>1, PosicionesTipo DEF Baja
      <4>. QED  BY <3>1, <4>2, <4>3, PasaTipo
    <3>2. \/ /\ segs' = s /\ PasaAlSiguiente(s, nodo) /\ desvio' = 1
          \/ \E m \in DOMAIN segs :
               /\ segs' = QuitaPos(s, m) /\ PasaAlSiguiente(segs', Baja(nodo, m))
               /\ desvio' = IF m = siguiente THEN desvio ELSE 1
      BY <1>16 DEF ConsumeExacto, s
    <3>. QED  BY <2>2, <3>1, <3>2, PasaTipo
  <2>. QED  BY <1>16, <2>3 DEF ConsumeExacto, FinConsumo
<1>17. CASE DevuelveMemoria \/ TerminaDevolver
  <2>1. libre' \in Nat
    <3>1. nodo \in DOMAIN segs => libre + segs[nodo].size \in Nat
      BY LibreTipo
    <3>. QED  BY <1>17, <3>1 DEF DevuelveMemoria, TerminaDevolver
  <2>2. (nodo' \in Nat /\ nodo' >= 1) \/ UNCHANGED nodo
    BY <1>17, SMTT(20) DEF DevuelveMemoria, TerminaDevolver
  <2>. QED  BY <1>17, <2>1, <2>2 DEF DevuelveMemoria, TerminaDevolver
<1>18. CASE BorraSegmento
  <2>1. segs' \in Seq(Segmento)
    BY <1>18, QuitaPosTipo DEF BorraSegmento
  <2>. QED  BY <1>18, <2>1 DEF BorraSegmento
<1>19. CASE TerminaCompactacion
  BY <1>19 DEF TerminaCompactacion
<1>20. CASE UNCHANGED vars
  BY <1>20 DEF vars
<1>. QED
  BY <1>1, <1>2, <1>3, <1>4, <1>5, <1>6, <1>7, <1>8, <1>9, <1>10, <1>11, <1>12,
     <1>13, <1>14, <1>15, <1>16, <1>17, <1>18, <1>19, <1>20
     DEF Next, Crear, Compactar, Mueve

\* Every state the memory reaches is well typed: no size, counter nor address
\* the C code would read as garbage, and no list position out of the list.
THEOREM TipoCorrecto == Spec => []TypeOK
<1>1. Init => TypeOK /\ CursorValido
  BY TipoInicial
<1>2. TypeOK /\ CursorValido /\ [Next]_vars => (TypeOK /\ CursorValido)'
  BY TipoPaso
<1>. QED  BY <1>1, <1>2, PTL DEF Spec

-----------------------------------------------------------------------------
(* The segments tile the memory.  Teselado is preserved by every action as *)
(* long as compactacion stays on its sound path (desvio = 0).  Each kind of*)
(* edit of the list has a lemma about places and sizes only.               *)

\* places and sizes of a list of segments are numbers
Numeros(s) ==
  /\ Len(s) \in Nat
  /\ \A j \in 1..Len(s) : s[j].mem \in Int /\ s[j].size \in Nat

\* A list of segments has numeric places and sizes.
LEMMA NumerosTipo ==
  ASSUME NEW s \in Seq(Segmento)
  PROVE  Numeros(s)
  BY CamposTipo DEF Numeros

\* The same places and sizes, whatever the owners.
Calcada(s, u) ==
  /\ Len(u) = Len(s)
  /\ \A j \in 1..Len(s) : u[j].mem = s[j].mem /\ u[j].size = s[j].size

\* Changing owners only does not disturb the tiling.
LEMMA CalcadaTesela ==
  ASSUME NEW s, NEW u, Numeros(s), Calcada(s, u), Contiguos(s), Ordenados(s)
  PROVE  /\ Contiguos(u) /\ Ordenados(u)
         /\ Inicio(u, Len(u) + 1) = Inicio(s, Len(s) + 1)
<1>1. \A k \in 1..(Len(s) + 1) : Inicio(u, k) = Inicio(s, k)
  <2>. SUFFICES ASSUME NEW k \in 1..(Len(s) + 1)
                PROVE  Inicio(u, k) = Inicio(s, k)
    OBVIOUS
  <2>1. CASE k = 1
    BY <2>1 DEF Inicio
  <2>2. CASE k # 1
    <3>1. k - 1 \in 1..Len(s)
      BY <2>2 DEF Numeros
    <3>. QED  BY <2>2, <3>1 DEF Inicio, Calcada
  <2>. QED  BY <2>1, <2>2
<1>2. Contiguos(u)
  BY <1>1 DEF Contiguos, Calcada, Numeros
<1>3. Ordenados(u)
  BY DEF Ordenados, Calcada
<1>4. Len(s) + 1 \in 1..(Len(s) + 1) /\ Len(u) = Len(s)
  BY DEF Numeros, Calcada
<1>. QED  BY <1>1, <1>2, <1>3, <1>4

-----------------------------------------------------------------------------
(* crearSegmento                                                           *)

\* fragmentar: position k keeps its first t bytes, and a new segment after it
\* has the rest.
LEMMA PartidaTesela ==
  ASSUME NEW s, NEW u, Numeros(s), Contiguos(s), Ordenados(s),
         NEW k \in 1..Len(s), NEW t \in Nat, t <= s[k].size,
         Len(u) = Len(s) + 1,
         \A j \in 1..(Len(s) + 1) :
           /\ j < k => u[j].mem = s[j].mem /\ u[j].size = s[j].size
           /\ j = k => u[j].mem = s[k].mem /\ u[j].size = t
           /\ j = k + 1 => u[j].mem = s[k].mem + t /\ u[j].size = s[k].size - t
           /\ j > k + 1 => u[j].mem = s[j - 1].mem /\ u[j].size = s[j - 1].size
  PROVE  /\ Contiguos(u) /\ Ordenados(u)
         /\ Inicio(u, Len(u) + 1) = Inicio(s, Len(s) + 1)
<1>0. Len(s) \in Nat /\ k \in Nat /\ k >= 1 /\ k <= Len(s)
      /\ \A j \in 1..Len(s) : s[j].mem \in Int /\ s[j].size \in Nat
  BY DEF Numeros
<1>1. \A j \in 2..Len(s) : s[j].mem = s[j - 1].mem + s[j - 1].size
  BY <1>0 DEF Contiguos, Inicio
<1>2. s[1].mem = 0
  BY <1>0 DEF Contiguos, Inicio
<1>3. Contiguos(u)
  <2>. SUFFICES ASSUME NEW j \in 1..(Len(s) + 1)
                PROVE  u[j].mem = IF j = 1 THEN 0 ELSE u[j - 1].mem + u[j - 1].size
    BY DEF Contiguos, Inicio
  <2>1. CASE j = 1
    <3>1. 1 \in 1..(Len(s) + 1) /\ (1 < k \/ 1 = k)
      BY <1>0
    <3>2. u[1].mem = s[1].mem
      BY <3>1
    <3>. QED  BY <1>2, <2>1, <3>2
  <2>2. CASE j # 1 /\ j <= k
    <3>1. j - 1 \in 1..(Len(s) + 1) /\ j - 1 < k /\ j \in 2..Len(s) /\ j \in 1..Len(s)
      BY <1>0, <2>2
    <3>2. u[j - 1].mem = s[j - 1].mem /\ u[j - 1].size = s[j - 1].size
      BY <3>1
    <3>3. u[j].mem = s[j].mem
      BY <1>0, <2>2
    <3>. QED  BY <1>1, <2>2, <3>1, <3>2, <3>3
  <2>3. CASE j = k + 1
    <3>1. k \in 1..(Len(s) + 1) /\ j - 1 = k
      BY <1>0, <2>3
    <3>. QED  BY <1>0, <2>3, <3>1
  <2>4. CASE j > k + 1
    <3>1. j - 1 \in 1..(Len(s) + 1) /\ j - 1 \in 2..Len(s) /\ (j - 1) - 1 = j - 2
      BY <1>0, <2>4
    <3>2. u[j].mem = s[j - 1].mem
      BY <2>4
    <3>3. CASE j - 1 = k + 1
      <4>1. u[j - 1].mem = s[k].mem + t /\ u[j - 1].size = s[k].size - t
        BY <3>1, <3>3
      <4>2. s[j - 1].mem = s[k].mem + s[k].size
        <5>1. j - 2 = k
          BY <1>0, <3>3
        <5>. QED  BY <1>1, <3>1, <5>1
      <4>. QED  BY <1>0, <2>4, <3>2, <4>1, <4>2
    <3>4. CASE j - 1 > k + 1
      <4>1. u[j - 1].mem = s[(j - 1) - 1].mem /\ u[j - 1].size = s[(j - 1) - 1].size
        BY <3>1, <3>4
      <4>2. s[j - 1].mem = s[(j - 1) - 1].mem + s[(j - 1) - 1].size
        BY <1>1, <3>1
      <4>. QED  BY <1>0, <2>4, <3>2, <4>1, <4>2
    <3>. QED  BY <1>0, <2>4, <3>3, <3>4
  <2>. QED  BY <1>0, <2>1, <2>2, <2>3, <2>4
<1>4. Ordenados(u)
  <2>. SUFFICES ASSUME NEW i \in 1..(Len(s) + 1), NEW j \in 1..(Len(s) + 1), i < j
                PROVE  u[i].mem + u[i].size <= u[j].mem
    BY DEF Ordenados
  <2>7. PICK a \in Int, b \in Int : /\ a = IF i <= k THEN i ELSE i - 1
                                   /\ b = IF j <= k THEN j ELSE j - 1
    BY <1>0
  <2>1. a \in 1..Len(s) /\ b \in 1..Len(s)
    BY <1>0, <2>7
  <2>2. u[i].mem + u[i].size <= s[a].mem + s[a].size
    <3>1. CASE i < k
      BY <1>0, <2>1, <2>7, <3>1
    <3>2. CASE i = k
      <4>1. u[i].mem = s[k].mem /\ u[i].size = t /\ a = k
        BY <1>0, <2>7, <3>2
      <4>. QED  BY <1>0, <4>1
    <3>3. CASE i = k + 1
      <4>1. u[i].mem = s[k].mem + t /\ u[i].size = s[k].size - t /\ a = k
        BY <1>0, <2>7, <3>3
      <4>. QED  BY <1>0, <4>1, SMTT(60)
    <3>4. CASE i > k + 1
      BY <1>0, <2>1, <2>7, <3>4
    <3>. QED  BY <1>0, <3>1, <3>2, <3>3, <3>4
  <2>3. s[b].mem <= u[j].mem
    <3>1. CASE j < k
      BY <1>0, <2>1, <2>7, <3>1
    <3>2. CASE j = k
      BY <1>0, <2>1, <2>7, <3>2
    <3>3. CASE j = k + 1
      BY <1>0, <2>1, <2>7, <3>3
    <3>4. CASE j > k + 1
      BY <1>0, <2>1, <2>7, <3>4
    <3>. QED  BY <1>0, <3>1, <3>2, <3>3, <3>4
  <2>4. u[i].mem \in Int /\ u[i].size \in Int /\ u[j].mem \in Int
    <3>1. \A x \in 1..(Len(s) + 1) : u[x].mem \in Int /\ u[x].size \in Int
      <4>. SUFFICES ASSUME NEW x \in 1..(Len(s) + 1)
                    PROVE  u[x].mem \in Int /\ u[x].size \in Int
        OBVIOUS
      <4>1. CASE x < k
        BY <1>0, <4>1, SMTT(60)
      <4>2. CASE x = k
        BY <1>0, <4>2
      <4>3. CASE x = k + 1
        BY <1>0, <4>3, SMTT(60)
      <4>4. CASE x > k + 1
        <5>1. x - 1 \in 1..Len(s)
          BY <1>0, <4>4
        <5>2. u[x].mem = s[x - 1].mem /\ u[x].size = s[x - 1].size
          BY <4>4
        <5>. QED  BY <1>0, <5>1, <5>2
      <4>. QED  BY <1>0, <4>1, <4>2, <4>3, <4>4
    <3>. QED  BY <3>1
  <2>5. CASE a < b
    <3>1. s[a].mem + s[a].size <= s[b].mem
      BY <2>1, <2>5 DEF Ordenados
    <3>2. s[a].mem \in Int /\ s[a].size \in Int /\ s[b].mem \in Int
      BY <1>0, <2>1
    <3>3. \A v, w, x, y, z, o \in Int :
            v + w <= x + y /\ x + y <= z /\ z <= o => v + w <= o
      OBVIOUS
    <3>. QED  BY <2>2, <2>3, <2>4, <3>1, <3>2, <3>3
  <2>6. CASE ~(a < b)
    <3>1. i = k /\ j = k + 1
      BY <1>0, <2>6, <2>7
    <3>. QED  BY <1>0, <3>1
  <2>. QED  BY <2>5, <2>6
<1>5. Inicio(u, Len(u) + 1) = Inicio(s, Len(s) + 1)
  <2>1. Inicio(u, Len(u) + 1) = u[Len(s) + 1].mem + u[Len(s) + 1].size
    BY <1>0 DEF Inicio
  <2>2. Inicio(s, Len(s) + 1) = s[Len(s)].mem + s[Len(s)].size
    BY <1>0 DEF Inicio
  <2>3. CASE k = Len(s)
    <3>1. u[Len(s) + 1].mem = s[k].mem + t /\ u[Len(s) + 1].size = s[k].size - t
      BY <1>0, <2>3
    <3>. QED  BY <1>0, <2>1, <2>2, <2>3, <3>1
  <2>4. CASE k < Len(s)
    <3>1. Len(s) + 1 > k + 1 /\ Len(s) + 1 \in 1..(Len(s) + 1) /\ (Len(s) + 1) - 1 = Len(s)
      BY <1>0, <2>4
    <3>. QED  BY <2>1, <2>2, <3>1
  <2>. QED  BY <1>0, <2>3, <2>4
<1>. QED  BY <1>3, <1>4, <1>5
-----------------------------------------------------------------------------
(* The edits of compactacion                                               *)

\* With nothing left to take from the next segment there is no overlap.
LEMMA SolapadosCero ==
  ASSUME NEW s, NEW n \in Nat, Numeros(s)
  PROVE  Solapados(s, n, 0) <=> Contiguos(s) /\ Ordenados(s)
<1>1. \A i \in 1..Len(s) : s[i].mem \in Int /\ s[i].size \in Nat /\ Inicio(s, i) \in Int
  <2>. SUFFICES ASSUME NEW i \in 1..Len(s)
                PROVE  s[i].mem \in Int /\ s[i].size \in Nat /\ Inicio(s, i) \in Int
    OBVIOUS
  <2>1. CASE i = 1
    BY <2>1 DEF Numeros, Inicio
  <2>2. CASE i # 1
    <3>1. i - 1 \in 1..Len(s)
      BY <2>2 DEF Numeros
    <3>2. s[i - 1].mem \in Int /\ s[i - 1].size \in Nat
      BY <3>1 DEF Numeros
    <3>. QED  BY <2>2, <3>2 DEF Numeros, Inicio
  <2>. QED  BY <2>1, <2>2
<1>2. \A i \in 1..Len(s) :
         /\ (IF i = n + 1 THEN Inicio(s, i) - 0 ELSE Inicio(s, i)) = Inicio(s, i)
         /\ s[i].mem + s[i].size - (IF i = n THEN 0 ELSE 0) = s[i].mem + s[i].size
  BY <1>1
<1>. QED  BY <1>2 DEF Solapados, Contiguos, Ordenados

\* Segment n grows by b bytes and the one after it gives up its first c bytes.
Corrida(s, u, n, b, c) ==
  /\ Len(u) = Len(s)
  /\ \A j \in 1..Len(s) :
       /\ u[j].mem = s[j].mem + (IF j = n + 1 THEN c ELSE 0)
       /\ u[j].size = s[j].size + (IF j = n THEN b
                        ELSE IF j = n + 1 THEN -c ELSE 0)

\* The boundary after position n moves, and the overlap there with it.
LEMMA FronteraTesela ==
  ASSUME NEW s, NEW u, NEW n \in Nat, NEW b \in Int, NEW c \in Int, NEW d \in Int,
         Numeros(s), Numeros(u), n >= 1, n < Len(s),
         c >= 0 \/ d + b - c = 0, Solapados(s, n, d), Corrida(s, u, n, b, c)
  PROVE  /\ Solapados(u, n, d + b - c)
         /\ Inicio(u, Len(u) + 1) = Inicio(s, Len(s) + 1)
<1>0. /\ Len(s) \in Nat /\ n \in 1..Len(s) /\ n + 1 \in 1..Len(s)
      /\ Len(u) = Len(s)
      /\ \A j \in 1..Len(s) :
           /\ u[j].mem = s[j].mem + (IF j = n + 1 THEN c ELSE 0)
           /\ u[j].size = s[j].size + (IF j = n THEN b
                            ELSE IF j = n + 1 THEN -c ELSE 0)
  <2>1. Len(s) \in Nat /\ n \in 1..Len(s) /\ n + 1 \in 1..Len(s)
    BY DEF Numeros
  <2>. QED  BY <2>1 DEF Corrida
<1>1. \A j \in 1..Len(s) : /\ s[j].mem \in Int /\ s[j].size \in Nat
                           /\ u[j].mem \in Int /\ u[j].size \in Nat
  BY <1>0 DEF Numeros
<1>2. \A j \in 1..Len(s) : j # n /\ j # n + 1 =>
        u[j].mem = s[j].mem /\ u[j].size = s[j].size
  BY <1>0, <1>1, SMTT(20)
<1>3. PICK p \in Int, q \in Int, x \in Int, y \in Int :
        s[n].mem = p /\ s[n].size = q /\ s[n + 1].mem = x /\ s[n + 1].size = y
  <2>1. /\ s[n].mem \in Int /\ s[n].size \in Int
        /\ s[n + 1].mem \in Int /\ s[n + 1].size \in Int
    BY <1>0, <1>1
  <2>. QED  BY <2>1
<1>4. /\ u[n].mem = p /\ u[n].size = q + b
      /\ u[n + 1].mem = x + c /\ u[n + 1].size = y - c
      /\ q + b >= 0 /\ y - c >= 0
  <2>1. u[n].mem = p /\ u[n].size = q + b
    <3>1. u[n].mem = s[n].mem + 0 /\ u[n].size = s[n].size + b
      BY <1>0
    <3>. QED  BY <1>3, <3>1
  <2>2. u[n + 1].mem = x + c /\ u[n + 1].size = y - c
    <3>1. u[n + 1].mem = s[n + 1].mem + c /\ u[n + 1].size = s[n + 1].size + (-c)
      BY <1>0
    <3>. QED  BY <1>3, <3>1
  <2>3. u[n].size >= 0 /\ u[n + 1].size >= 0
    BY <1>0, <1>1
  <2>. QED  BY <2>1, <2>2, <2>3
<1>5. x = p + q - d
  <2>1. s[n + 1].mem = Inicio(s, n + 1) - d
    BY <1>0 DEF Solapados
  <2>2. Inicio(s, n + 1) = s[n].mem + s[n].size
    BY <1>0 DEF Inicio
  <2>. QED  BY <1>3, <2>1, <2>2
<1>6. \A j \in 1..Len(s) : u[j].mem = IF j = n + 1 THEN Inicio(u, j) - (d + b - c)
                                      ELSE Inicio(u, j)
  <2>. SUFFICES ASSUME NEW j \in 1..Len(s)
                PROVE  u[j].mem = IF j = n + 1 THEN Inicio(u, j) - (d + b - c)
                                  ELSE Inicio(u, j)
    OBVIOUS
  <2>1. CASE j = n + 1
    <3>1. Inicio(u, j) = p + (q + b)
      BY <1>0, <1>4, <2>1 DEF Inicio
    <3>2. u[j].mem = x + c
      BY <1>4, <2>1
    <3>. QED  BY <1>5, <2>1, <3>1, <3>2
  <2>2. CASE j # n + 1 /\ j = 1
    <3>1. s[1].mem = 0
      BY <2>2 DEF Solapados, Inicio
    <3>2. u[1].mem = s[1].mem
      BY <1>2, <1>3, <1>4, <2>2
    <3>. QED  BY <2>2, <3>1, <3>2 DEF Inicio
  <2>3. CASE j # n + 1 /\ j # 1
    <3>1. j - 1 \in 1..Len(s) /\ j - 1 # n
      BY <1>0, <2>3
    <3>2. s[j].mem = s[j - 1].mem + s[j - 1].size
      BY <2>3 DEF Solapados, Inicio
    <3>3. u[j].mem = s[j].mem
      BY <1>2, <1>3, <1>4, <2>3
    <3>4. u[j - 1].mem + u[j - 1].size = s[j - 1].mem + s[j - 1].size
      <4>1. CASE j - 1 = n + 1
        <5>1. (x + c) + (y - c) = x + y
          OBVIOUS
        <5>. QED  BY <1>4, <1>3, <4>1, <5>1
      <4>2. CASE j - 1 # n + 1
        BY <1>2, <3>1, <4>2
      <4>. QED  BY <4>1, <4>2
    <3>. QED  BY <2>3, <3>2, <3>3, <3>4 DEF Inicio
  <2>. QED  BY <2>1, <2>2, <2>3
<1>7. \A i, j \in 1..Len(s) : i < j =>
        u[i].mem + u[i].size - (IF i = n THEN d + b - c ELSE 0) <= u[j].mem
  <2>. SUFFICES ASSUME NEW i \in 1..Len(s), NEW j \in 1..Len(s), i < j
                PROVE  u[i].mem + u[i].size - (IF i = n THEN d + b - c ELSE 0)
                         <= u[j].mem
    OBVIOUS
  <2>1. PICK v \in Int, w \in Int, z \in Int :
          s[i].mem = v /\ s[i].size = w /\ s[j].mem = z
    BY <1>1, SMTT(20)
  <2>2. v + w - (IF i = n THEN d ELSE 0) <= z
    BY <2>1 DEF Solapados
  <2>3. CASE i = n /\ j = n + 1
    <3>1. u[i].mem = p /\ u[i].size = q + b /\ u[j].mem = x + c
      BY <1>4, <2>3
    <3>2. p + (q + b) - (d + b - c) <= x + c
      BY <1>5
    <3>. QED  BY <2>3, <3>1, <3>2
  <2>4. CASE i = n /\ j > n + 1
    <3>1. u[i].mem = p /\ u[i].size = q + b
      BY <1>4, <2>4
    <3>2. u[j].mem = z
      BY <1>0, <1>2, <2>1, <2>4
    <3>3. x + y <= z
      <4>1. s[n + 1].mem + s[n + 1].size - (IF n + 1 = n THEN d ELSE 0) <= s[j].mem
        BY <1>0, <2>4 DEF Solapados
      <4>. QED  BY <1>3, <2>1, <4>1
    <3>4. p + (q + b) - (d + b - c) <= z
      <4>1. x + c <= z
        BY <1>4, <3>3, SMTT(20)
      <4>2. p + (q + b) - (d + b - c) = x + c
        BY <1>5
      <4>. QED  BY <4>1, <4>2
    <3>5. (IF i = n THEN d + b - c ELSE 0) = d + b - c
      BY <2>4
    <3>. QED  BY <3>1, <3>2, <3>4, <3>5
  <2>5. CASE i = n + 1
    <3>1. u[i].mem = x + c /\ u[i].size = y - c /\ v = x /\ w = y
      BY <1>4, <1>3, <2>1, <2>5
    <3>2. u[j].mem = z
      BY <1>0, <1>2, <2>1, <2>5
    <3>3. (x + c) + (y - c) - 0 <= z
      <4>1. (x + c) + (y - c) - 0 = x + y
        OBVIOUS
      <4>2. x + y - 0 <= z
        BY <2>2, <2>5, <3>1
      <4>. QED  BY <4>1, <4>2
    <3>. QED  BY <2>5, <3>1, <3>2, <3>3
  <2>6. CASE i # n /\ i # n + 1 /\ j # n + 1
    <3>1. u[i].mem = v /\ u[i].size = w
      BY <1>2, <2>1, <2>6
    <3>2. u[j].mem = z
      BY <1>4, <1>2, <1>3, <2>1, <2>6
    <3>. QED  BY <2>2, <2>6, <3>1, <3>2
  <2>7. CASE i # n /\ i # n + 1 /\ j = n + 1
    <3>1. u[i].mem = v /\ u[i].size = w /\ u[j].mem = x + c /\ z = x
      BY <1>4, <1>2, <1>3, <2>1, <2>7
    <3>2. v + w <= x + c
      <4>1. CASE c >= 0
        BY <2>2, <2>7, <3>1, <4>1
      <4>2. CASE d + b - c = 0
        <5>1. s[i].mem + s[i].size - (IF i = n THEN d ELSE 0) <= s[n].mem
          BY <1>0, <2>7 DEF Solapados
        <5>2. v + w - 0 <= p
          BY <1>3, <2>1, <2>7, <5>1
        <5>. QED  BY <1>4, <1>5, <4>2, <5>2
      <4>. QED  BY <4>1, <4>2
    <3>3. v + w - 0 <= x + c
      BY <3>2
    <3>. QED  BY <2>7, <3>1, <3>3
  <2>. QED  BY <1>0, <2>3, <2>4, <2>5, <2>6, <2>7
<1>8. Inicio(u, Len(u) + 1) = Inicio(s, Len(s) + 1)
  <2>1. /\ Inicio(u, Len(u) + 1) = u[Len(s)].mem + u[Len(s)].size
        /\ Inicio(s, Len(s) + 1) = s[Len(s)].mem + s[Len(s)].size
    BY <1>0 DEF Inicio
  <2>2. Len(s) \in 1..Len(s) /\ Len(s) # n
    BY <1>0
  <2>3. CASE Len(s) = n + 1
    <3>1. (x + c) + (y - c) = x + y
      OBVIOUS
    <3>. QED  BY <1>4, <1>3, <2>1, <2>3, <3>1
  <2>4. CASE Len(s) # n + 1
    BY <1>2, <2>1, <2>2, <2>4
  <2>. QED  BY <2>3, <2>4
<1>. QED  BY <1>0, <1>6, <1>7, <1>8 DEF Solapados

\* The list s without the segment after n.
Quitada(s, u, n) ==
  /\ Len(u) = Len(s) - 1
  /\ \A j \in 1..(Len(s) - 1) :
       /\ j <= n => u[j].mem = s[j].mem /\ u[j].size = s[j].size
       /\ j > n => u[j].mem = s[j + 1].mem /\ u[j].size = s[j + 1].size

\* The segment after position n, overlapped by d bytes, is removed whole.
LEMMA QuitaTesela ==
  ASSUME NEW s, NEW u, NEW n \in Nat, NEW d \in Int, NEW e \in Nat,
         Numeros(s), Numeros(u), n >= 1, n < Len(s),
         Solapados(s, n, d), e = d - s[n + 1].size,
         n + 2 <= Len(s) \/ e = 0, Quitada(s, u, n)
  PROVE  /\ Solapados(u, n, e)
         /\ Inicio(u, Len(u) + 1) = Inicio(s, Len(s) + 1)
<1>0. /\ Len(s) \in Nat /\ n \in 1..Len(s) /\ n + 1 \in 1..Len(s)
      /\ n \in 1..(Len(s) - 1) /\ Len(u) = Len(s) - 1
      /\ \A j \in 1..(Len(s) - 1) :
           /\ j <= n => u[j].mem = s[j].mem /\ u[j].size = s[j].size
           /\ j > n => u[j].mem = s[j + 1].mem /\ u[j].size = s[j + 1].size
  <2>1. /\ Len(s) \in Nat /\ n \in 1..Len(s) /\ n + 1 \in 1..Len(s)
        /\ n \in 1..(Len(s) - 1)
    BY DEF Numeros
  <2>. QED  BY <2>1 DEF Quitada
<1>1. \A j \in 1..Len(s) : s[j].mem \in Int /\ s[j].size \in Nat
  BY DEF Numeros
<1>2. PICK p \in Int, q \in Int, x \in Int, y \in Int :
        s[n].mem = p /\ s[n].size = q /\ s[n + 1].mem = x /\ s[n + 1].size = y
  <2>1. /\ s[n].mem \in Int /\ s[n].size \in Int
        /\ s[n + 1].mem \in Int /\ s[n + 1].size \in Int
    BY <1>0, <1>1, SMTT(20)
  <2>. QED  BY <2>1
<1>3. e = d - y /\ y >= 0
  BY <1>0, <1>1, <1>2
<1>4. x = p + q - d /\ p + q - e = x + y
  <2>1. s[n + 1].mem = Inicio(s, n + 1) - d
    BY <1>0 DEF Solapados
  <2>2. Inicio(s, n + 1) = s[n].mem + s[n].size
    BY <1>0 DEF Inicio
  <2>3. x = p + q - d
    BY <1>2, <2>1, <2>2
  <2>. QED  BY <1>3, <2>3, SMTT(20)
<1>5. \A j \in 2..Len(s) : j # n + 1 => s[j].mem = s[j - 1].mem + s[j - 1].size
  BY <1>0, SMTT(30) DEF Solapados, Inicio
<1>6. \A j \in 1..Len(u) : u[j].mem = IF j = n + 1 THEN Inicio(u, j) - e
                                      ELSE Inicio(u, j)
  <2>. SUFFICES ASSUME NEW j \in 1..(Len(s) - 1)
                PROVE  u[j].mem = IF j = n + 1 THEN Inicio(u, j) - e
                                  ELSE Inicio(u, j)
    BY <1>0
  <2>1. CASE j = n + 1
    <3>1. u[n].mem = p /\ u[n].size = q
      <4>1. u[n].mem = s[n].mem /\ u[n].size = s[n].size
        BY <1>0
      <4>. QED  BY <1>2, <4>1
    <3>2. Inicio(u, j) = p + q
      BY <1>0, <2>1, <3>1 DEF Inicio
    <3>3. u[j].mem = s[n + 2].mem
      <4>1. j + 1 = n + 2 /\ j > n
        BY <1>0, <2>1
      <4>. QED  BY <1>0, <4>1
    <3>4. s[n + 2].mem = x + y
      <4>1. n + 2 \in 2..Len(s) /\ n + 2 # n + 1 /\ (n + 2) - 1 = n + 1
        BY <1>0, <2>1
      <4>. QED  BY <1>2, <1>5, <4>1
    <3>5. p + q - e = x + y
      BY <1>4
    <3>. QED  BY <2>1, <3>2, <3>3, <3>4, <3>5
  <2>2. CASE j = 1
    <3>1. s[1].mem = 0
      BY <1>0 DEF Solapados, Inicio
    <3>2. u[1].mem = s[1].mem
      <4>1. 1 \in 1..(Len(s) - 1) /\ 1 <= n
        BY <1>0
      <4>. QED  BY <1>0, <4>1
    <3>. QED  BY <1>0, <2>2, <3>1, <3>2 DEF Inicio
  <2>3. CASE j # 1 /\ j <= n
    <3>1. j \in 2..Len(s) /\ j - 1 \in 1..(Len(s) - 1) /\ j - 1 <= n
      BY <1>0, <2>3
    <3>2. u[j].mem = s[j].mem
      BY <1>0, <2>3
    <3>3. u[j - 1].mem = s[j - 1].mem /\ u[j - 1].size = s[j - 1].size
      BY <1>0, <3>1
    <3>4. s[j].mem = s[j - 1].mem + s[j - 1].size
      BY <1>0, <1>5, <2>3, <3>1
    <3>. QED  BY <1>0, <2>3, <3>2, <3>3, <3>4 DEF Inicio
  <2>4. CASE j > n + 1
    <3>1. /\ j + 1 \in 2..Len(s) /\ j - 1 \in 1..(Len(s) - 1) /\ j - 1 > n
          /\ (j - 1) + 1 = j /\ (j + 1) - 1 = j /\ j + 1 # n + 1 /\ j # 1
      BY <1>0, <2>4
    <3>2. u[j].mem = s[j + 1].mem
      <4>1. j > n
        BY <1>0, <2>4
      <4>. QED  BY <1>0, <4>1
    <3>3. u[j - 1].mem = s[j].mem /\ u[j - 1].size = s[j].size
      BY <1>0, <3>1
    <3>4. s[j + 1].mem = s[j].mem + s[j].size
      BY <1>5, <3>1
    <3>. QED  BY <1>0, <2>4, <3>1, <3>2, <3>3, <3>4 DEF Inicio
  <2>. QED  BY <1>0, <2>1, <2>2, <2>3, <2>4
<1>7. \A i, j \in 1..Len(u) : i < j =>
        u[i].mem + u[i].size - (IF i = n THEN e ELSE 0) <= u[j].mem
  <2>. SUFFICES ASSUME NEW i \in 1..(Len(s) - 1), NEW j \in 1..(Len(s) - 1), i < j
                PROVE  u[i].mem + u[i].size - (IF i = n THEN e ELSE 0) <= u[j].mem
    BY <1>0
  <2>1. PICK f \in 1..Len(s), g \in 1..Len(s) :
          f = (IF i <= n THEN i ELSE i + 1) /\ g = IF j <= n THEN j ELSE j + 1
    <3>1. i \in 1..Len(s) /\ i + 1 \in 1..Len(s)
      BY <1>0
    <3>2. j \in 1..Len(s) /\ j + 1 \in 1..Len(s)
      BY <1>0
    <3>3. /\ (IF i <= n THEN i ELSE i + 1) \in 1..Len(s)
          /\ (IF j <= n THEN j ELSE j + 1) \in 1..Len(s)
      BY <3>1, <3>2
    <3>. QED  BY <3>3
  <2>2. f < g /\ f # n + 1 /\ (f = n <=> i = n)
    BY <1>0, <2>1
  <2>3. PICK v \in Int, w \in Int, z \in Int :
          s[f].mem = v /\ s[f].size = w /\ s[g].mem = z
    <3>1. s[f].mem \in Int /\ s[f].size \in Int /\ s[g].mem \in Int
      BY <1>1, SMTT(20)
    <3>. QED  BY <3>1
  <2>4. u[i].mem = v /\ u[i].size = w /\ u[j].mem = z
    <3>1. u[i].mem = s[f].mem /\ u[i].size = s[f].size
      BY <1>0, <2>1
    <3>2. u[j].mem = s[g].mem
      BY <1>0, <2>1
    <3>. QED  BY <2>3, <3>1, <3>2
  <2>5. CASE i # n
    <3>1. s[f].mem + s[f].size - (IF f = n THEN d ELSE 0) <= s[g].mem
      BY <2>2 DEF Solapados
    <3>2. v + w - 0 <= z
      BY <2>2, <2>3, <2>5, <3>1
    <3>. QED  BY <2>4, <2>5, <3>2
  <2>6. CASE i = n
    <3>1. g > n + 1 /\ v = p /\ w = q
      BY <1>0, <1>2, <2>1, <2>2, <2>3, <2>6
    <3>2. s[n + 1].mem + s[n + 1].size - (IF n + 1 = n THEN d ELSE 0) <= s[g].mem
      BY <1>0, <3>1 DEF Solapados
    <3>3. x + y <= z
      BY <1>2, <2>3, <3>2, SMTT(20)
    <3>4. v + w - e <= z
      BY <1>4, <3>1, <3>3
    <3>5. (IF i = n THEN e ELSE 0) = e
      BY <2>6
    <3>. QED  BY <2>4, <3>4, <3>5
  <2>. QED  BY <2>5, <2>6
<1>8. Inicio(u, Len(u) + 1) = Inicio(s, Len(s) + 1)
  <2>1. /\ Inicio(u, Len(u) + 1) = u[Len(s) - 1].mem + u[Len(s) - 1].size
        /\ Inicio(s, Len(s) + 1) = s[Len(s)].mem + s[Len(s)].size
    <3>1. Len(u) + 1 = Len(s) /\ Len(s) # 1 /\ Len(s) + 1 # 1
          /\ (Len(s) + 1) - 1 = Len(s)
      BY <1>0
    <3>. QED  BY <3>1 DEF Inicio
  <2>2. CASE n + 1 = Len(s)
    <3>1. Len(s) - 1 = n /\ u[n].mem = p /\ u[n].size = q
      BY <1>0, <1>2, <2>2
    <3>2. p + q = x + y
      BY <1>0, <1>3, <1>4, <2>2, SMTT(20)
    <3>. QED  BY <1>2, <2>1, <2>2, <3>1, <3>2
  <2>3. CASE n + 1 # Len(s)
    <3>1. Len(s) - 1 \in 1..(Len(s) - 1) /\ Len(s) - 1 > n /\ (Len(s) - 1) + 1 = Len(s)
      BY <1>0, <2>3
    <3>. QED  BY <1>0, <2>1, <3>1
  <2>. QED  BY <2>2, <2>3
<1>. QED  BY <1>6, <1>7, <1>8 DEF Solapados

-----------------------------------------------------------------------------
(* Every step preserves Teselado                                           *)

\* What the type invariant says of a list, before and after a step.
LEMMA ListaTipo ==
  ASSUME TypeOK, TypeOK'
  PROVE  /\ Numeros(segs) /\ \A j \in 1..Len(segs) : segs[j].res \in {0, 1}
         /\ Numeros(segs') /\ \A j \in 1..Len(segs') : segs'[j].res \in {0, 1}
<1>1. segs \in Seq(Segmento) /\ segs' \in Seq(Segmento)
  BY DEF TypeOK
<1>. QED  BY <1>1, NumerosTipo, CamposTipo

\* A tiled list is a well formed one for the phases outside compactacion.
LEMMA EstableTesela ==
  ASSUME Estable', TeselaEntera'
  PROVE  Teselado'
<1>1. ~(fase' \in FasesCompactacion)
  BY DEF Estable, FasesCompactacion
<1>. QED  BY <1>1 DEF Teselado, FasesCompactacion

\* PasaAlSiguiente, after a turn that left everything up to k reserved.
LEMMA PasaTesela ==
  ASSUME Numeros(segs'), \A j \in 1..Len(segs') : segs'[j].res \in {0, 1},
         NEW k \in 1..Len(segs'), PasaAlSiguiente(segs', k), TeselaEntera',
         \A j \in 1..Len(segs') : j <= k => segs'[j].res = 1
  PROVE  Teselado'
<1>0. Len(segs') \in Nat /\ k \in Nat
  BY DEF Numeros
<1>1. CASE k < Len(segs')
  <2>1. fase' = "compactar" /\ nodo' = k + 1
    BY <1>1 DEF PasaAlSiguiente
  <2>2. nodo' <= Len(segs')
    BY <1>0, <1>1, <2>1
  <2>3. \A j \in 1..Len(segs') : j < nodo' => segs'[j].res = 1
    BY <1>0, <2>1
  <2>4. TeselaCompactar'
    BY <2>2, <2>3 DEF TeselaCompactar
  <2>. QED  BY <2>1, <2>4 DEF Teselado, Estable
<1>2. CASE ~(k < Len(segs'))
  <2>1. fase' = "devolver" /\ nodo' = 1
    BY <1>2 DEF PasaAlSiguiente
  <2>2. \A j \in 1..Len(segs') : segs'[j].res = 1
    BY <1>0, <1>2
  <2>3. PICK f \in 1..(Len(segs') + 1) : f = Len(segs') + 1
    BY <1>0
  <2>4. Corte(segs', f)
    BY <1>0, <2>2, <2>3 DEF Corte
  <2>5. TeselaDevolver'
    <3>1. ~(nodo' > f) /\ nodo' <= Len(segs') + 1
      BY <1>0, <2>1, <2>3
    <3>2. Contiguos(segs') /\ Ordenados(segs')
          /\ libre' + Inicio(segs', Len(segs') + 1) = Malloc
      BY DEF TeselaEntera
    <3>3. libre' + Inicio(segs', Len(segs') + 1) =
            Malloc + (IF nodo' > f THEN Inicio(segs', nodo') - Inicio(segs', f) ELSE 0)
      BY <3>1, <3>2, MallocAssumption
    <3>. QED  BY <2>4, <3>1, <3>2, <3>3 DEF TeselaDevolver
  <2>. QED  BY <2>1, <2>5 DEF Teselado, Estable
<1>. QED  BY <1>1, <1>2

\* The steps that leave the list and the counter as they are.
LEMMA QuietaTesela ==
  ASSUME TypeOK, CursorValido, Teselado, UNCHANGED memoria,
         \/ UNCHANGED <<fase, cursor>>
         \/ Estable /\ Estable'
         \/ Estable /\ fase' = "compactar" /\ nodo' = 1
  PROVE  Teselado'
<1>1. segs' = segs /\ libre' = libre /\ Len(segs) \in Nat
  BY DEF memoria, TypeOK
<1>2. CASE UNCHANGED <<fase, cursor>>
  BY <1>1, <1>2
     DEF Teselado, Estable, TeselaEntera, TeselaCompactar, TeselaConsumir,
         TeselaDevolver, TeselaBorrar, cursor
<1>3. CASE Estable
  <2>1. TeselaEntera'
    BY <1>1, <1>3 DEF Teselado, TeselaEntera
  <2>2. CASE Estable'
    BY <2>1, <2>2, EstableTesela
  <2>3. CASE fase' = "compactar" /\ nodo' = 1
    <3>1. TeselaCompactar'
      BY <1>1, <2>1, <2>3 DEF TeselaCompactar
    <3>. QED  BY <2>3, <3>1 DEF Teselado, Estable
  <2>. QED  BY <1>2, <2>2, <2>3
<1>. QED  BY <1>2, <1>3

\* The first segment starts at the first byte.
LEMMA CreaPrimeroTesela ==
  ASSUME TypeOK, Teselado, CreaPrimero
  PROVE  Teselado'
<1>1. /\ segs = <<>> /\ segs' = <<AlFinal(pedido.pid, pedido.tam)>>
      /\ libre' = libre - pedido.tam /\ fase = "crear" /\ fase' = "reposo"
  BY DEF CreaPrimero, Responde
<1>2. libre \in Int /\ pedido.tam \in Int
  BY DEF TypeOK
<1>3. libre = Malloc
  BY <1>1, <1>2 DEF Teselado, Estable, TeselaEntera, Inicio
<1>4. Len(segs') = 1 /\ segs'[1].mem = 0 /\ segs'[1].size = pedido.tam
  BY <1>1 DEF AlFinal, Reservado
<1>5. TeselaEntera'
  <2>1. Contiguos(segs') /\ Ordenados(segs')
    BY <1>4 DEF Contiguos, Ordenados, Inicio
  <2>2. Inicio(segs', Len(segs') + 1) = pedido.tam
    BY <1>2, <1>4 DEF Inicio
  <2>. QED  BY <1>1, <1>2, <1>3, <2>1, <2>2 DEF TeselaEntera
<1>. QED  BY <1>1, <1>5, EstableTesela DEF Estable

\* A segment created in a hole covers the hole, with the rest or exactly.
LEMMA CreaEnHuecoTesela ==
  ASSUME TypeOK, TypeOK', Teselado, CreaEnHueco
  PROVE  Teselado'
<1>1. PICK k \in Elegibles(pedido.tam) : segs' = Ocupa(k, pedido.pid, pedido.tam)
  BY DEF CreaEnHueco
<1>2. fase = "crear" /\ fase' = "reposo" /\ libre' = libre
  BY DEF CreaEnHueco, Responde
<1>3. k \in 1..Len(segs) /\ segs[k].size >= pedido.tam
  <2>1. k \in DOMAIN segs /\ segs[k].size >= pedido.tam
    BY DEF Elegibles, HuecosPara
  <2>2. DOMAIN segs = 1..Len(segs)
    BY DEF TypeOK
  <2>. QED  BY <2>1, <2>2
<1>4. PICK t \in Nat : t = pedido.tam
  BY DEF TypeOK
<1>5. /\ segs \in Seq(Segmento) /\ pedido.pid \in Pids \cup {SinPid}
      /\ segs[k].base \in Int /\ segs[k].mem \in Int /\ segs[k].size \in Nat
      /\ Numeros(segs) /\ Numeros(segs')
  <2>1. segs \in Seq(Segmento) /\ pedido.pid \in Pids \cup {SinPid}
    BY DEF TypeOK
  <2>2. segs[k].base \in Int /\ segs[k].mem \in Int /\ segs[k].size \in Nat
    BY <1>3, <2>1, CamposTipo
  <2>. QED  BY <2>1, <2>2, ListaTipo
<1>6. Contiguos(segs) /\ Ordenados(segs) /\ libre + Inicio(segs, Len(segs) + 1) = Malloc
  BY <1>2 DEF Teselado, Estable, TeselaEntera
<1> DEFINE e == Reservado(pedido.pid, segs[k].base, segs[k].mem, t)
           s == [segs EXCEPT ![k] = e]
           h == Hueco(segs[k].base + t, segs[k].mem + t, segs[k].size - t)
<1>7. e \in Segmento /\ e.mem = segs[k].mem /\ e.size = t
  <2>1. /\ pedido.pid \in Pids \cup {SinPid}
        /\ segs[k].base \in Int /\ segs[k].mem \in Int
    BY <1>5
  <2> HIDE DEF e
  <2>2. \A a, b \in Int : LET z == Reservado(pedido.pid, a, b, t)
                         IN  z \in Segmento /\ z.mem = b /\ z.size = t
    BY <2>1, ReservadoTipo
  <2>. QED  BY <2>1, <2>2 DEF e
<1>8. segs' = IF segs[k].size > t THEN InsertaDespues(s, k, h) ELSE s
  BY <1>1, <1>4 DEF Ocupa
<1>9. /\ s \in Seq(Segmento) /\ Len(s) = Len(segs)
      /\ \A j \in 1..Len(segs) : s[j] = IF j = k THEN e ELSE segs[j]
  <2> HIDE DEF e
  <2>. QED  BY <1>3, <1>5, <1>7
<1> HIDE DEF e, s
<1>10. CASE segs[k].size > t
  <2>1. h \in Segmento /\ h.mem = segs[k].mem + t /\ h.size = segs[k].size - t
    <3>1. segs[k].base + t \in Int /\ segs[k].mem + t \in Int /\ segs[k].size - t \in Nat
      BY <1>5, <1>10
    <3>. QED  BY <3>1, HuecoEsSegmento, SMTT(20)
  <2> HIDE DEF h
  <2>2. /\ Len(segs') = Len(segs) + 1
        /\ \A j \in 1..(Len(segs) + 1) :
             segs'[j] = IF j <= k THEN s[j] ELSE IF j = k + 1 THEN h ELSE s[j - 1]
    <3>1. segs' = InsertaDespues(s, k, h)
      BY <1>8, <1>10
    <3>2. k \in 1..Len(s) /\ s \in Seq(Segmento) /\ h \in Segmento
      BY <1>3, <1>9, <2>1
    <3>3. /\ Len(InsertaDespues(s, k, h)) = Len(s) + 1
          /\ \A j \in 1..(Len(s) + 1) : InsertaDespues(s, k, h)[j] =
               IF j <= k THEN s[j] ELSE IF j = k + 1 THEN h ELSE s[j - 1]
      BY <3>2, InsertaDespuesTipo
    <3>. QED  BY <1>9, <3>1, <3>3
  <2>3. Len(segs) \in Nat /\ k \in Nat /\ k <= Len(segs) /\ k >= 1
    BY <1>3, <1>5
  <2>4. \A j \in 1..(Len(segs) + 1) :
          /\ j < k => segs'[j].mem = segs[j].mem /\ segs'[j].size = segs[j].size
          /\ j = k => segs'[j].mem = segs[k].mem /\ segs'[j].size = t
          /\ j = k + 1 => /\ segs'[j].mem = segs[k].mem + t
                          /\ segs'[j].size = segs[k].size - t
          /\ j > k + 1 => /\ segs'[j].mem = segs[j - 1].mem
                          /\ segs'[j].size = segs[j - 1].size
    <3>. SUFFICES ASSUME NEW j \in 1..(Len(segs) + 1)
                  PROVE
          /\ j < k => segs'[j].mem = segs[j].mem /\ segs'[j].size = segs[j].size
          /\ j = k => segs'[j].mem = segs[k].mem /\ segs'[j].size = t
          /\ j = k + 1 => /\ segs'[j].mem = segs[k].mem + t
                          /\ segs'[j].size = segs[k].size - t
          /\ j > k + 1 => /\ segs'[j].mem = segs[j - 1].mem
                          /\ segs'[j].size = segs[j - 1].size
      OBVIOUS
    <3>1. j < k => segs'[j] = segs[j]
      BY <1>9, <2>2, <2>3
    <3>2. j = k => segs'[j] = e
      BY <1>9, <2>2, <2>3
    <3>3. j = k + 1 => segs'[j] = h
      BY <2>2, <2>3
    <3>4. j > k + 1 => segs'[j] = segs[j - 1]
      <4>1. j > k + 1 => j - 1 \in 1..Len(segs) /\ j - 1 # k
        BY <2>3
      <4>. QED  BY <1>9, <2>2, <2>3, <4>1
    <3>. QED  BY <1>7, <2>1, <3>1, <3>2, <3>3, <3>4
  <2>5. t <= segs[k].size
    BY <1>5, <1>10
  <2>6. /\ Contiguos(segs') /\ Ordenados(segs')
        /\ Inicio(segs', Len(segs') + 1) = Inicio(segs, Len(segs) + 1)
    BY <1>3, <1>5, <1>6, <2>2, <2>4, <2>5, PartidaTesela
  <2>. QED  BY <1>2, <1>6, <2>6, EstableTesela DEF TeselaEntera, Estable
<1>11. CASE ~(segs[k].size > t)
  <2>1. segs[k].size = t
    BY <1>3, <1>4, <1>5, <1>11
  <2>2. Calcada(segs, segs')
    BY <1>7, <1>8, <1>9, <1>11, <2>1 DEF Calcada
  <2>3. /\ Contiguos(segs') /\ Ordenados(segs')
        /\ Inicio(segs', Len(segs') + 1) = Inicio(segs, Len(segs) + 1)
    BY <1>5, <1>6, <2>2, CalcadaTesela
  <2>. QED  BY <1>2, <1>6, <2>3, EstableTesela DEF TeselaEntera, Estable
<1>. QED  BY <1>10, <1>11

\* crearSegmentoLocal puts the new segment right where the last one ends.
LEMMA CreaAlFinalTesela ==
  ASSUME TypeOK, Teselado, CreaAlFinal
  PROVE  Teselado'
<1>1. /\ segs # <<>> /\ segs' = Append(segs, AlFinal(pedido.pid, pedido.tam))
      /\ libre' = libre - pedido.tam /\ fase = "crear" /\ fase' = "reposo"
  BY DEF CreaAlFinal, Responde
<1>2. PICK n \in Nat : n = Len(segs)
  BY DEF TypeOK
<1>3. segs \in Seq(Segmento) /\ n >= 1 /\ libre \in Nat
  BY <1>1, <1>2 DEF TypeOK
<1>4. PICK t \in Nat : t = pedido.tam
  BY DEF TypeOK
<1>5. PICK x \in Int : x = Inicio(segs, n + 1)
  <2>1. segs[n].mem \in Int /\ segs[n].size \in Nat
    BY <1>2, <1>3, CamposTipo
  <2>. QED  BY <1>3, <2>1 DEF Inicio
<1>6. Contiguos(segs) /\ Ordenados(segs) /\ libre + x = Malloc
  BY <1>1, <1>2, <1>5 DEF Teselado, Estable, TeselaEntera
<1> DEFINE e == AlFinal(pedido.pid, pedido.tam)
<1>7. e.mem = x /\ e.size = t
  BY <1>1, <1>2, <1>3, <1>4, <1>5 DEF AlFinal, Reservado, Inicio
<1> HIDE DEF e
<1>8. /\ Len(segs') = n + 1 /\ segs'[n + 1] = e
      /\ \A j \in 1..n : segs'[j] = segs[j]
  BY <1>1, <1>2, <1>3 DEF e
<1>9. \A j \in 1..(n + 1) : Inicio(segs', j) = Inicio(segs, j)
  <2>. SUFFICES ASSUME NEW j \in 1..(n + 1)
                PROVE  Inicio(segs', j) = Inicio(segs, j)
    OBVIOUS
  <2>1. j # 1 => j - 1 \in 1..n
    OBVIOUS
  <2>. QED  BY <1>8, <2>1 DEF Inicio
<1>10. Contiguos(segs')
  <2>. SUFFICES ASSUME NEW j \in 1..(n + 1)
                PROVE  segs'[j].mem = Inicio(segs', j)
    BY <1>8 DEF Contiguos
  <2>1. CASE j = n + 1
    BY <1>5, <1>7, <1>8, <1>9, <2>1
  <2>2. CASE j # n + 1
    <3>1. j \in 1..n
      BY <2>2
    <3>. QED  BY <1>2, <1>6, <1>8, <1>9, <3>1 DEF Contiguos
  <2>. QED  BY <2>1, <2>2
<1>11. Ordenados(segs')
  <2>. SUFFICES ASSUME NEW i \in 1..(n + 1), NEW j \in 1..(n + 1), i < j
                PROVE  segs'[i].mem + segs'[i].size <= segs'[j].mem
    BY <1>8 DEF Ordenados
  <2>1. i \in 1..n /\ segs'[i] = segs[i] /\ i <= n
    BY <1>8
  <2>2. CASE j \in 1..n
    BY <1>2, <1>6, <1>8, <2>1, <2>2 DEF Ordenados
  <2>3. CASE j = n + 1
    <3>1. segs[n].mem \in Int /\ segs[n].size \in Nat /\ segs[i].mem \in Int
          /\ segs[i].size \in Nat
      BY <1>2, <1>3, <2>1, CamposTipo
    <3>2. x = segs[n].mem + segs[n].size
      BY <1>3, <1>5 DEF Inicio
    <3>3. segs[i].mem + segs[i].size <= x
      <4>1. CASE i = n
        BY <3>1, <3>2, <4>1
      <4>2. CASE i # n
        <5>1. i < n /\ n \in 1..n
          BY <1>3, <2>1, <4>2
        <5>2. segs[i].mem + segs[i].size <= segs[n].mem
          BY <1>2, <1>6, <2>1, <5>1 DEF Ordenados
        <5>. QED  BY <3>1, <3>2, <5>2
      <4>. QED  BY <4>1, <4>2
    <3>. QED  BY <1>7, <1>8, <2>1, <2>3, <3>3
  <2>. QED  BY <2>2, <2>3
<1>12. Inicio(segs', Len(segs') + 1) = x + t
  BY <1>7, <1>8 DEF Inicio
<1>13. libre' + Inicio(segs', Len(segs') + 1) = Malloc
  <2>1. libre' = libre - t
    BY <1>1, <1>4
  <2>. QED  BY <1>3, <1>6, <1>12, <2>1
<1>14. TeselaEntera'
  BY <1>10, <1>11, <1>13 DEF TeselaEntera
<1>. QED  BY <1>1, <1>14, EstableTesela DEF Estable

\* destruirSegmento frees segments in place.
LEMMA DestruyeTesela ==
  ASSUME TypeOK, Teselado, NEW p \in Pids, DestruyeSegmentos(p)
  PROVE  Teselado'
<1>1. fase = "reposo" /\ fase' = fase /\ libre' = libre
  BY DEF DestruyeSegmentos
<1>2. segs \in Seq(Segmento)
  BY DEF TypeOK
<1>3. \A j \in 1..Len(segs) :
        /\ Liberado(segs[j]).mem = segs[j].mem /\ Liberado(segs[j]).size = segs[j].size
  BY DEF Liberado, Hueco
<1>4. segs' = [k \in 1..Len(segs) |->
                 IF segs[k].pid = p THEN Liberado(segs[k]) ELSE segs[k]]
  BY <1>2 DEF DestruyeSegmentos
<1>5. Len(segs') = Len(segs)
  BY <1>2, <1>4
<1>6. Calcada(segs, segs')
  BY <1>3, <1>4, <1>5 DEF Calcada
<1>7. Contiguos(segs) /\ Ordenados(segs) /\ libre + Inicio(segs, Len(segs) + 1) = Malloc
  BY <1>1 DEF Teselado, Estable, TeselaEntera
<1>8. /\ Contiguos(segs') /\ Ordenados(segs')
      /\ Inicio(segs', Len(segs') + 1) = Inicio(segs, Len(segs) + 1)
  BY <1>2, <1>6, <1>7, NumerosTipo, CalcadaTesela
<1>. QED  BY <1>1, <1>7, <1>8, EstableTesela DEF TeselaEntera, Estable

\* Compaction goes past a reserved segment.
LEMMA SaltaTesela ==
  ASSUME TypeOK, TypeOK', Teselado, SaltaReservado
  PROVE  Teselado'
<1>1. /\ fase = "compactar" /\ nodo \in 1..Len(segs) /\ segs[nodo].res = 1
      /\ PasaAlSiguiente(segs, nodo) /\ segs' = segs /\ libre' = libre
  BY DEF SaltaReservado, memoria, TypeOK
<1>2. TeselaCompactar
  BY <1>1 DEF Teselado
<1>3. TeselaEntera'
  BY <1>1, <1>2 DEF TeselaCompactar, TeselaEntera
<1>4. \A j \in 1..Len(segs') : j <= nodo => segs'[j].res = 1
  BY <1>1, <1>2 DEF TeselaCompactar
<1>5. PasaAlSiguiente(segs', nodo) /\ nodo \in 1..Len(segs')
  BY <1>1
<1>. QED  BY <1>3, <1>4, <1>5, ListaTipo, PasaTesela

\* Nothing to move: the holes that are left are those from nodo on.
LEMMA NadaTesela ==
  ASSUME TypeOK, CursorValido, Teselado, NadaQueMover
  PROVE  Teselado'
<1>1. /\ fase = "compactar" /\ fase' = "devolver" /\ nodo' = 1
      /\ segs' = segs /\ libre' = libre
      /\ \A j \in DOMAIN segs : j >= nodo => segs[j].res = 0
  BY DEF NadaQueMover, memoria
<1>2. /\ TeselaEntera /\ \A i \in 1..Len(segs) : i < nodo => segs[i].res = 1
      /\ nodo <= Len(segs) \/ (nodo = 1 /\ Len(segs) = 0)
  BY <1>1 DEF Teselado, TeselaCompactar
<1>3. Len(segs) \in Nat /\ nodo \in Nat /\ nodo >= 1 /\ DOMAIN segs = 1..Len(segs)
  BY <1>1 DEF TypeOK, CursorValido
<1>4. nodo \in 1..(Len(segs) + 1)
  BY <1>2, <1>3
<1>5. Corte(segs, nodo)
  <2>. SUFFICES ASSUME NEW i \in 1..Len(segs)
                PROVE  (segs[i].res = 1) <=> (i < nodo)
    BY <1>4 DEF Corte
  <2>1. CASE i < nodo
    BY <1>2, <2>1
  <2>2. CASE ~(i < nodo)
    <3>1. i >= nodo
      BY <1>3, <2>2
    <3>. QED  BY <1>1, <1>3, <2>2, <3>1
  <2>. QED  BY <2>1, <2>2
<1>6. ~(nodo' > nodo) /\ nodo' <= Len(segs) + 1
  BY <1>1, <1>3
<1>7. libre' + Inicio(segs', Len(segs') + 1) =
        Malloc + (IF nodo' > nodo THEN Inicio(segs', nodo') - Inicio(segs', nodo)
                                  ELSE 0)
  BY <1>1, <1>2, <1>6, MallocAssumption DEF TeselaEntera
<1>8. Contiguos(segs') /\ Ordenados(segs')
  BY <1>1, <1>2 DEF TeselaEntera
<1>9. TeselaDevolver'
  BY <1>1, <1>4, <1>5, <1>6, <1>7, <1>8 DEF TeselaDevolver
<1>. QED  BY <1>1, <1>9 DEF Teselado, Estable

\* The four ways of filling a hole that need nothing from further segments.
LEMMA MueveTesela ==
  ASSUME TypeOK, TypeOK', CursorValido, Teselado, Mueve
  PROVE  Teselado'
<1>1. PICK r \in Int, d \in Int : Mudanza(r, d)
  BY EfectoMover
<1>2. fase = "compactar" /\ PasaAlSiguiente(segs, nodo) /\ libre' = libre
  BY DEF Mueve, MueveAMayor, MueveAMenor, MueveAIgual, MueveSeparado, SoloMueve,
         HuecoPara
<1>3. /\ nodo \in 1..Len(segs) /\ r \in 1..Len(segs) /\ r > nodo
      /\ Len(segs') = Len(segs)
      /\ \A j \in 1..Len(segs) :
           /\ segs'[j].mem = segs[j].mem + (IF j = nodo + 1 THEN d ELSE 0)
           /\ segs'[j].size = segs[j].size + (IF j = nodo THEN d
                                ELSE IF j = nodo + 1 THEN -d ELSE 0)
           /\ segs'[j].res = IF j = nodo THEN 1
                             ELSE IF j = r THEN 0 ELSE segs[j].res
  BY <1>1 DEF Mudanza
<1>4. Numeros(segs) /\ Numeros(segs')
      /\ \A j \in 1..Len(segs') : segs'[j].res \in {0, 1}
  BY ListaTipo
<1>5. nodo \in Nat /\ nodo >= 1 /\ nodo < Len(segs) /\ Len(segs) \in Nat
  BY <1>3, <1>4 DEF Numeros
<1>6. Contiguos(segs) /\ Ordenados(segs) /\ libre + Inicio(segs, Len(segs) + 1) = Malloc
      /\ \A i \in 1..Len(segs) : i < nodo => segs[i].res = 1
  BY <1>2 DEF Teselado, TeselaCompactar, TeselaEntera
<1>7. Solapados(segs, nodo, 0)
  BY <1>4, <1>5, <1>6, SolapadosCero
<1>8. 0 + d - d = 0 /\ Corrida(segs, segs', nodo, d, d)
  BY <1>3 DEF Corrida
<1>9. /\ Solapados(segs', nodo, 0 + d - d)
      /\ Inicio(segs', Len(segs') + 1) = Inicio(segs, Len(segs) + 1)
  BY <1>4, <1>5, <1>7, <1>8, FronteraTesela
<1>10. Contiguos(segs') /\ Ordenados(segs')
  BY <1>4, <1>5, <1>8, <1>9, SolapadosCero
<1>11. TeselaEntera'
  BY <1>2, <1>6, <1>9, <1>10 DEF TeselaEntera
<1>12. \A j \in 1..Len(segs') : j <= nodo => segs'[j].res = 1
  BY <1>3, <1>5, <1>6
<1>13. PasaAlSiguiente(segs', nodo) /\ nodo \in 1..Len(segs')
  BY <1>2, <1>3 DEF PasaAlSiguiente
<1>. QED  BY <1>4, <1>11, <1>12, <1>13, PasaTesela

\* The enlarged hole takes from the next one the bytes that dif counts.
LEMMA AgrandaTesela ==
  ASSUME TypeOK, TypeOK', CursorValido, Teselado,
         NEW r \in DOMAIN segs, AgrandaHueco(r)
  PROVE  Teselado'
<1>1. /\ fase = "compactar" /\ fase' = "consumir" /\ nodo' = nodo /\ libre' = libre
      /\ siguiente' = nodo + 1 /\ dif' = segs[r].size - segs[nodo].size
  BY DEF AgrandaHueco, HuecoPara
<1>2. /\ nodo \in 1..Len(segs) /\ r \in 1..Len(segs) /\ r > nodo + 1
      /\ Len(segs') = Len(segs)
      /\ \A j \in 1..Len(segs) :
           /\ segs'[j].mem = segs[j].mem
           /\ segs'[j].size = IF j = nodo THEN segs[r].size ELSE segs[j].size
           /\ segs'[j].res = IF j = nodo THEN 1 ELSE segs[j].res
  BY EfectoAgrandar
<1>3. Numeros(segs) /\ Numeros(segs')
  BY ListaTipo
<1>4. nodo \in Nat /\ nodo >= 1 /\ nodo < Len(segs) /\ Len(segs) \in Nat
  BY <1>2, <1>3 DEF Numeros
<1>5. Contiguos(segs) /\ Ordenados(segs) /\ libre + Inicio(segs, Len(segs) + 1) = Malloc
      /\ \A i \in 1..Len(segs) : i < nodo => segs[i].res = 1
  BY <1>1 DEF Teselado, TeselaCompactar, TeselaEntera
<1>6. Solapados(segs, nodo, 0)
  BY <1>3, <1>4, <1>5, SolapadosCero
<1>7. PICK d \in Nat : d = dif'
  BY DEF TypeOK
<1>8. \A j \in 1..Len(segs) :
        /\ segs'[j].mem = segs[j].mem + (IF j = nodo + 1 THEN 0 ELSE 0)
        /\ segs'[j].size = segs[j].size + (IF j = nodo THEN d
                             ELSE IF j = nodo + 1 THEN -0 ELSE 0)
  <2>. SUFFICES ASSUME NEW j \in 1..Len(segs)
                PROVE  /\ segs'[j].mem = segs[j].mem + (IF j = nodo + 1 THEN 0 ELSE 0)
                       /\ segs'[j].size = segs[j].size + (IF j = nodo THEN d
                             ELSE IF j = nodo + 1 THEN -0 ELSE 0)
    OBVIOUS
  <2>1. segs[j].mem \in Int /\ segs[j].size \in Int /\ segs[r].size \in Int
        /\ segs[nodo].size \in Int
    BY <1>2, <1>3 DEF Numeros
  <2>2. CASE j = nodo
    BY <1>1, <1>2, <1>7, <2>1, <2>2, SMTT(20)
  <2>3. CASE j # nodo
    BY <1>2, <2>1, <2>3
  <2>. QED  BY <2>2, <2>3
<1>9. 0 + d - 0 = d /\ Corrida(segs, segs', nodo, d, 0)
  BY <1>2, <1>8 DEF Corrida
<1>10. /\ Solapados(segs', nodo, 0 + d - 0)
       /\ Inicio(segs', Len(segs') + 1) = Inicio(segs, Len(segs) + 1)
  BY <1>3, <1>4, <1>6, <1>9, FronteraTesela
<1>11. \A j \in 1..Len(segs') : j <= nodo => segs'[j].res = 1
  BY <1>2, <1>4, <1>5
<1>12. TeselaConsumir'
  BY <1>1, <1>5, <1>7, <1>9, <1>10, <1>11 DEF TeselaConsumir
<1>. QED  BY <1>1, <1>12 DEF Teselado, Estable

\* The overlap disappears: the next hole had the bytes that were missing.
LEMMA RecortaTesela ==
  ASSUME TypeOK, TypeOK', CursorValido, Teselado, RecortaSiguiente
  PROVE  Teselado'
<1>1. fase = "consumir" /\ PasaAlSiguiente(segs, nodo) /\ libre' = libre
  BY DEF RecortaSiguiente
<1>2. /\ Len(segs') = Len(segs)
      /\ \A j \in 1..Len(segs) :
           /\ segs'[j].mem = segs[j].mem + (IF j = siguiente THEN dif ELSE 0)
           /\ segs'[j].size = segs[j].size - (IF j = siguiente THEN dif ELSE 0)
           /\ segs'[j].res = IF j = ocupado THEN 0 ELSE segs[j].res
  BY EfectoRecortar
<1>3. Numeros(segs) /\ Numeros(segs')
  BY ListaTipo
<1>4. /\ siguiente = nodo + 1 /\ Solapados(segs, nodo, dif)
      /\ libre + Inicio(segs, Len(segs) + 1) = Malloc
      /\ \A i \in 1..Len(segs) : i <= nodo => segs[i].res = 1
  BY <1>1 DEF Teselado, TeselaConsumir
<1>5. /\ nodo \in Nat /\ nodo >= 1 /\ nodo < Len(segs) /\ nodo \in 1..Len(segs)
      /\ ocupado > nodo /\ dif \in Nat
  <2>1. /\ nodo \in 1..Len(segs) /\ siguiente \in 1..Len(segs)
        /\ ocupado \in 1..Len(segs) /\ siguiente <= ocupado /\ dif \in Nat
    BY <1>1, PosicionesTipo
  <2>. QED  BY <1>4, <2>1
<1>6. Corrida(segs, segs', nodo, 0, dif)
  <2>. SUFFICES ASSUME NEW j \in 1..Len(segs)
                PROVE  /\ segs'[j].mem = segs[j].mem + (IF j = nodo + 1 THEN dif ELSE 0)
                       /\ segs'[j].size = segs[j].size + (IF j = nodo THEN 0
                             ELSE IF j = nodo + 1 THEN -dif ELSE 0)
    BY <1>2 DEF Corrida
  <2>1. segs[j].mem \in Int /\ segs[j].size \in Int
    BY <1>3 DEF Numeros
  <2>2. CASE j = nodo + 1
    BY <1>2, <1>4, <1>5, <2>1, <2>2
  <2>3. CASE j # nodo + 1
    BY <1>2, <1>4, <1>5, <2>1, <2>3
  <2>. QED  BY <2>2, <2>3
<1>7. dif + 0 - dif = 0
  BY <1>5
<1>8. /\ Solapados(segs', nodo, dif + 0 - dif)
      /\ Inicio(segs', Len(segs') + 1) = Inicio(segs, Len(segs) + 1)
  BY <1>3, <1>4, <1>5, <1>6, FronteraTesela
<1>9. Contiguos(segs') /\ Ordenados(segs')
  BY <1>3, <1>5, <1>7, <1>8, SolapadosCero
<1>10. TeselaEntera'
  BY <1>1, <1>4, <1>8, <1>9 DEF TeselaEntera
<1>11. \A j \in 1..Len(segs') : j <= nodo => segs'[j].res = 1
  BY <1>2, <1>4, <1>5
<1>12. PasaAlSiguiente(segs', nodo) /\ nodo \in 1..Len(segs')
  BY <1>1, <1>2, <1>5 DEF PasaAlSiguiente
<1>. QED  BY <1>10, <1>11, <1>12, ListaTipo, PasaTesela

\* A hole consumed whole, on the sound path: it is the one after nodo.
LEMMA ConsumeTesela ==
  ASSUME TypeOK, TypeOK', CursorValido, Teselado, SigueConsumiendo, desvio' = 0
  PROVE  Teselado'
<1>1. fase = "consumir" /\ fase' = "consumir" /\ libre' = libre
  BY DEF SigueConsumiendo
<1>2. PICK m \in 1..(nodo + 1) :
        /\ m \in 1..Len(segs) /\ nodo + 2 <= Len(segs)
        /\ segs[siguiente].size < dif /\ dif' = dif - segs[siguiente].size
        /\ segs' = QuitaPos(segs, m)
        /\ nodo' = Baja(nodo, m) /\ siguiente' = Baja(nodo + 2, m)
        /\ m = nodo + 1
  BY EfectoConsumir
<1>3. Numeros(segs) /\ Numeros(segs') /\ segs \in Seq(Segmento)
  BY ListaTipo DEF TypeOK
<1>4. /\ siguiente = nodo + 1 /\ Solapados(segs, nodo, dif)
      /\ libre + Inicio(segs, Len(segs) + 1) = Malloc
      /\ \A i \in 1..Len(segs) : i <= nodo => segs[i].res = 1
  BY <1>1 DEF Teselado, TeselaConsumir
<1>5. /\ nodo \in Nat /\ nodo >= 1 /\ nodo < Len(segs) /\ dif \in Int /\ dif' \in Nat
  BY <1>1, <1>2, PosicionesTipo DEF TypeOK
<1>6. nodo' = nodo /\ siguiente' = nodo + 1
  BY <1>2, <1>5 DEF Baja
<1>7. /\ Len(segs') = Len(segs) - 1
      /\ \A j \in 1..(Len(segs) - 1) :
           segs'[j] = IF j < nodo + 1 THEN segs[j] ELSE segs[j + 1]
  BY <1>2, <1>3, QuitaPosTipo
<1>8. Quitada(segs, segs', nodo)
  BY <1>5, <1>7 DEF Quitada
<1>9. /\ Solapados(segs', nodo, dif')
      /\ Inicio(segs', Len(segs') + 1) = Inicio(segs, Len(segs) + 1)
  BY <1>2, <1>3, <1>4, <1>5, <1>8, QuitaTesela, SMTT(20)
<1>10. \A j \in 1..Len(segs') : j <= nodo => segs'[j].res = 1
  BY <1>4, <1>5, <1>7
<1>11. TeselaConsumir'
  BY <1>1, <1>4, <1>6, <1>9, <1>10 DEF TeselaConsumir
<1>. QED  BY <1>1, <1>11 DEF Teselado, Estable

\* The next hole is exactly what was missing, and on the sound path it goes.
LEMMA ExactoTesela ==
  ASSUME TypeOK, TypeOK', CursorValido, Teselado, ConsumeExacto, desvio' = 0
  PROVE  Teselado'
<1> DEFINE s == [segs EXCEPT ![ocupado] = Liberado(segs[ocupado])]
<1>1. fase = "consumir" /\ segs[siguiente].size = dif /\ libre' = libre
  BY DEF ConsumeExacto
<1>2. PICK m \in DOMAIN segs :
        m = siguiente /\ segs' = QuitaPos(s, m) /\ PasaAlSiguiente(segs', Baja(nodo, m))
  <2> HIDE DEF s
  <2>1. \/ desvio' = 1
        \/ \E m \in DOMAIN segs :
             /\ segs' = QuitaPos(s, m) /\ PasaAlSiguiente(segs', Baja(nodo, m))
             /\ desvio' = IF m = siguiente THEN desvio ELSE 1
    BY DEF ConsumeExacto, s
  <2>. QED  BY <2>1
<1>3. /\ s \in Seq(Segmento) /\ Len(s) = Len(segs)
      /\ \A j \in 1..Len(segs) :
           /\ s[j].mem = segs[j].mem /\ s[j].size = segs[j].size
           /\ s[j].res = IF j = ocupado THEN 0 ELSE segs[j].res
  BY <1>1, LiberaOcupado
<1> HIDE DEF s
<1>4. Numeros(segs) /\ Numeros(segs')
  BY ListaTipo
<1>5. /\ siguiente = nodo + 1 /\ Solapados(segs, nodo, dif)
      /\ libre + Inicio(segs, Len(segs) + 1) = Malloc
      /\ \A i \in 1..Len(segs) : i <= nodo => segs[i].res = 1
  BY <1>1 DEF Teselado, TeselaConsumir
<1>6. /\ nodo \in Nat /\ nodo >= 1 /\ nodo < Len(segs) /\ dif \in Nat
      /\ ocupado > nodo /\ nodo + 1 \in 1..Len(segs) /\ Len(segs) \in Nat
  <2>1. /\ nodo \in 1..Len(segs) /\ siguiente \in 1..Len(segs)
        /\ ocupado \in 1..Len(segs) /\ siguiente <= ocupado /\ dif \in Nat
        /\ Len(segs) \in Nat
    BY <1>1, PosicionesTipo
  <2>. QED  BY <1>5, <2>1
<1>7. PasaAlSiguiente(segs', nodo) /\ segs' = QuitaPos(s, nodo + 1)
  BY <1>2, <1>5, <1>6 DEF Baja
<1>8. /\ Len(segs') = Len(segs) - 1
      /\ \A j \in 1..(Len(segs) - 1) :
           segs'[j] = IF j < nodo + 1 THEN s[j] ELSE s[j + 1]
  <2>1. nodo + 1 \in 1..Len(s)
    BY <1>3, <1>6
  <2>. QED  BY <1>3, <1>7, <2>1, QuitaPosTipo
<1>9. Quitada(segs, segs', nodo)
  <2>. SUFFICES ASSUME NEW j \in 1..(Len(segs) - 1)
                PROVE
           /\ j <= nodo => segs'[j].mem = segs[j].mem /\ segs'[j].size = segs[j].size
           /\ j > nodo => /\ segs'[j].mem = segs[j + 1].mem
                          /\ segs'[j].size = segs[j + 1].size
    BY <1>8 DEF Quitada
  <2>1. j \in 1..Len(segs) /\ j + 1 \in 1..Len(segs)
    BY <1>6
  <2>. QED  BY <1>3, <1>6, <1>8, <2>1
<1>10. PICK e \in Nat : e = 0 /\ e = dif - segs[nodo + 1].size
  BY <1>1, <1>5, <1>6
<1>11. /\ Solapados(segs', nodo, e)
       /\ Inicio(segs', Len(segs') + 1) = Inicio(segs, Len(segs) + 1)
  BY <1>4, <1>5, <1>6, <1>9, <1>10, QuitaTesela
<1>12. Contiguos(segs') /\ Ordenados(segs')
  BY <1>4, <1>6, <1>10, <1>11, SolapadosCero
<1>13. TeselaEntera'
  BY <1>1, <1>5, <1>11, <1>12 DEF TeselaEntera
<1>14. \A j \in 1..Len(segs') : j <= nodo => segs'[j].res = 1
  <2>. SUFFICES ASSUME NEW j \in 1..(Len(segs) - 1), j <= nodo
                PROVE  segs'[j].res = 1
    BY <1>8
  <2>1. j \in 1..Len(segs) /\ j < nodo + 1 /\ j # ocupado
    BY <1>6
  <2>. QED  BY <1>3, <1>5, <1>8, <2>1
<1>15. nodo \in 1..Len(segs')
  BY <1>6, <1>8
<1>. QED  BY <1>7, <1>13, <1>14, <1>15, ListaTipo, PasaTesela

\* The first byte after a prefix of the list is a number.
LEMMA InicioTipo ==
  ASSUME NEW s, Numeros(s), NEW k \in 1..(Len(s) + 1)
  PROVE  Inicio(s, k) \in Int
<1>1. CASE k = 1
  BY <1>1 DEF Inicio
<1>2. CASE k # 1
  <2>1. k - 1 \in 1..Len(s)
    BY <1>2 DEF Numeros
  <2>2. s[k - 1].mem \in Int /\ s[k - 1].size \in Int
    BY <2>1 DEF Numeros
  <2>. QED  BY <1>2, <2>2 DEF Inicio
<1>. QED  BY <1>1, <1>2

\* _devolverMemoria adds up the holes at the end of the list.
LEMMA DevuelveTesela ==
  ASSUME TypeOK, CursorValido, Teselado, DevuelveMemoria
  PROVE  Teselado'
<1>1. /\ fase = "devolver" /\ fase' = "devolver" /\ nodo \in DOMAIN segs
      /\ libre' = (IF segs[nodo].res = 1 THEN libre ELSE libre + segs[nodo].size)
      /\ nodo' = nodo + 1 /\ segs' = segs
  BY DEF DevuelveMemoria
<1>2. /\ segs \in Seq(Segmento) /\ nodo \in 1..Len(segs) /\ libre \in Int
      /\ Len(segs) \in Nat
  BY <1>1 DEF TypeOK
<1>3. Contiguos(segs) /\ Ordenados(segs)
  BY <1>1 DEF Teselado, TeselaDevolver
<1>4. PICK f \in 1..(Len(segs) + 1) :
        /\ Corte(segs, f)
        /\ libre + Inicio(segs, Len(segs) + 1) =
             Malloc + (IF nodo > f THEN Inicio(segs, nodo) - Inicio(segs, f) ELSE 0)
  BY <1>1 DEF Teselado, TeselaDevolver
<1>5. PICK a \in Int, b \in Int, c \in Int, t \in Int :
        /\ Inicio(segs, Len(segs) + 1) = a /\ Inicio(segs, f) = b
        /\ Inicio(segs, nodo) = c /\ segs[nodo].size = t
  <2>1. Numeros(segs)
    BY <1>2, NumerosTipo
  <2>2. Inicio(segs, Len(segs) + 1) \in Int /\ Inicio(segs, f) \in Int
        /\ Inicio(segs, nodo) \in Int
    BY <1>2, <2>1, InicioTipo
  <2>3. segs[nodo].size \in Int
    BY <1>2, CamposTipo
  <2>. QED  BY <2>2, <2>3
<1>6. Inicio(segs, nodo + 1) = c + t
  <2>1. segs[nodo].mem = c
    BY <1>2, <1>3, <1>5 DEF Contiguos
  <2>2. nodo + 1 # 1 /\ (nodo + 1) - 1 = nodo
    BY <1>2
  <2>. QED  BY <1>5, <2>1, <2>2 DEF Inicio
<1>7. libre' + a = Malloc + (IF nodo + 1 > f THEN (c + t) - b ELSE 0)
  <2>1. libre + a = Malloc + (IF nodo > f THEN c - b ELSE 0)
    BY <1>4, <1>5
  <2>2. CASE nodo < f
    <3>1. segs[nodo].res = 1
      BY <1>2, <1>4, <2>2 DEF Corte
    <3>2. ~(nodo > f) /\ ~(nodo + 1 > f)
      BY <1>2, <2>2
    <3>. QED  BY <1>1, <2>1, <3>1, <3>2
  <2>3. CASE ~(nodo < f)
    <3>1. segs[nodo].res # 1
      BY <1>2, <1>4, <2>3 DEF Corte
    <3>2. libre' = libre + t
      BY <1>1, <1>5, <3>1
    <3>3. nodo + 1 > f /\ (nodo > f \/ nodo = f)
      BY <1>2, <2>3
    <3>4. libre + a = Malloc + (c - b)
      <4>1. CASE nodo > f
        BY <2>1, <4>1
      <4>2. CASE ~(nodo > f)
        <5>1. c = b
          BY <1>5, <3>3, <4>2
        <5>. QED  BY <2>1, <4>2, <5>1
      <4>. QED  BY <4>1, <4>2
    <3>5. (libre + t) + a = Malloc + ((c + t) - b)
      BY <1>2, <3>4, MallocAssumption
    <3>. QED  BY <3>2, <3>3, <3>5
  <2>. QED  BY <2>2, <2>3
<1>8. TeselaDevolver'
  <2>1. nodo + 1 <= Len(segs) + 1
    BY <1>2
  <2>2. libre' + Inicio(segs, Len(segs) + 1) =
          Malloc + (IF nodo + 1 > f THEN Inicio(segs, nodo + 1) - Inicio(segs, f) ELSE 0)
    BY <1>5, <1>6, <1>7
  <2>. QED  BY <1>1, <1>3, <1>4, <2>1, <2>2 DEF TeselaDevolver
<1>. QED  BY <1>1, <1>8 DEF Teselado, Estable

\* All the holes are back in the counter, and still in the list.
LEMMA TerminaDevolverTesela ==
  ASSUME TypeOK, CursorValido, Teselado, TerminaDevolver
  PROVE  Teselado'
<1>1. /\ fase = "devolver" /\ fase' = "borrar" /\ nodo > Len(segs)
      /\ segs' = segs /\ libre' = libre
  BY DEF TerminaDevolver, memoria
<1>2. segs \in Seq(Segmento) /\ nodo \in Nat /\ libre \in Int /\ Len(segs) \in Nat
  BY DEF TypeOK
<1>3. Contiguos(segs) /\ Ordenados(segs) /\ nodo <= Len(segs) + 1
  BY <1>1 DEF Teselado, TeselaDevolver
<1>4. nodo = Len(segs) + 1
  BY <1>1, <1>2, <1>3
<1>5. PICK f \in 1..(Len(segs) + 1) :
        /\ Corte(segs, f)
        /\ libre + Inicio(segs, Len(segs) + 1) =
             Malloc + (IF nodo > f THEN Inicio(segs, nodo) - Inicio(segs, f) ELSE 0)
  BY <1>1 DEF Teselado, TeselaDevolver
<1>6. PICK a \in Int, b \in Int :
        Inicio(segs, Len(segs) + 1) = a /\ Inicio(segs, f) = b
  <2>1. Numeros(segs) /\ Len(segs) + 1 \in 1..(Len(segs) + 1)
    BY <1>2, NumerosTipo
  <2>2. Inicio(segs, Len(segs) + 1) \in Int /\ Inicio(segs, f) \in Int
    BY <2>1, InicioTipo
  <2>. QED  BY <2>2
<1>7. libre + b = Malloc
  <2>1. CASE nodo > f
    <3>1. libre + a = Malloc + (a - b)
      BY <1>4, <1>5, <1>6, <2>1
    <3>. QED  BY <1>2, <3>1, MallocAssumption
  <2>2. CASE ~(nodo > f)
    <3>1. f = Len(segs) + 1 /\ a = b
      BY <1>2, <1>4, <1>6, <2>2
    <3>. QED  BY <1>2, <1>5, <1>6, <2>2, <3>1, MallocAssumption
  <2>. QED  BY <2>1, <2>2
<1>8. TeselaBorrar'
  <2>1. \A k \in 1..Len(segs) : k < f => segs[k].mem = Inicio(segs, k)
    BY <1>3 DEF Contiguos
  <2>2. libre + Inicio(segs, f) = Malloc
    BY <1>6, <1>7
  <2>. QED  BY <1>1, <1>3, <1>5, <2>1, <2>2 DEF TeselaBorrar
<1>. QED  BY <1>1, <1>8 DEF Teselado, Estable

\* _borrarSegmentos takes a hole off the end; what precedes it stays.
LEMMA BorraTesela ==
  ASSUME TypeOK, CursorValido, Teselado, BorraSegmento
  PROVE  Teselado'
<1>1. fase = "borrar" /\ fase' = "borrar" /\ libre' = libre
  BY DEF BorraSegmento
<1>2. PICK m \in DOMAIN segs :
        /\ segs[m].res = 0 /\ \A j \in 1..(m - 1) : segs[j].res = 1
        /\ segs' = QuitaPos(segs, m)
  BY DEF BorraSegmento
<1>3. segs \in Seq(Segmento) /\ m \in 1..Len(segs) /\ Len(segs) \in Nat
  BY DEF TypeOK
<1>4. PICK f \in 1..(Len(segs) + 1) :
        /\ Corte(segs, f)
        /\ \A k \in 1..Len(segs) : k < f => segs[k].mem = Inicio(segs, k)
        /\ libre + Inicio(segs, f) = Malloc
  BY <1>1 DEF Teselado, TeselaBorrar
<1>5. Ordenados(segs)
  BY <1>1 DEF Teselado, TeselaBorrar
<1>6. \A i \in 1..Len(segs) : (segs[i].res = 1) <=> (i < f)
  BY <1>4 DEF Corte
<1>7. m = f
  <2>1. ~(m < f)
    BY <1>2, <1>3, <1>6
  <2>2. ~(f < m)
    <3>. SUFFICES ASSUME f < m PROVE FALSE
      OBVIOUS
    <3>1. f \in 1..(m - 1) /\ f \in 1..Len(segs)
      BY <1>3
    <3>. QED  BY <1>2, <1>6, <3>1
  <2>. QED  BY <1>3, <2>1, <2>2
<1>8. /\ Len(segs') = Len(segs) - 1
      /\ \A j \in 1..(Len(segs) - 1) :
           segs'[j] = IF j < f THEN segs[j] ELSE segs[j + 1]
  BY <1>2, <1>3, <1>7, QuitaPosTipo
<1>9. f \in 1..(Len(segs') + 1) /\ f \in Nat
  BY <1>3, <1>7, <1>8
<1>10. Corte(segs', f)
  <2>. SUFFICES ASSUME NEW i \in 1..(Len(segs) - 1)
                PROVE  (segs'[i].res = 1) <=> (i < f)
    BY <1>8, <1>9 DEF Corte
  <2>1. i \in 1..Len(segs) /\ i + 1 \in 1..Len(segs)
    BY <1>3
  <2>2. CASE i < f
    BY <1>6, <1>8, <2>1, <2>2
  <2>3. CASE ~(i < f)
    <3>1. ~(i + 1 < f) /\ segs'[i] = segs[i + 1]
      BY <1>8, <1>9, <2>3
    <3>. QED  BY <1>6, <2>1, <2>3, <3>1
  <2>. QED  BY <2>2, <2>3
<1>11. \A k \in 1..(Len(segs) - 1) : k <= f => Inicio(segs', k) = Inicio(segs, k)
  <2>. SUFFICES ASSUME NEW k \in 1..(Len(segs) - 1), k <= f
                PROVE  Inicio(segs', k) = Inicio(segs, k)
    OBVIOUS
  <2>1. CASE k = 1
    BY <2>1 DEF Inicio
  <2>2. CASE k # 1
    <3>1. k - 1 \in 1..(Len(segs) - 1) /\ k - 1 < f
      BY <1>3, <1>9, <2>2
    <3>. QED  BY <1>8, <2>2, <3>1 DEF Inicio
  <2>. QED  BY <2>1, <2>2
<1>12. \A k \in 1..Len(segs') : k < f => segs'[k].mem = Inicio(segs', k)
  <2>. SUFFICES ASSUME NEW k \in 1..(Len(segs) - 1), k < f
                PROVE  segs'[k].mem = Inicio(segs', k)
    BY <1>8
  <2>1. segs'[k] = segs[k] /\ k \in 1..Len(segs)
    BY <1>3, <1>8
  <2>2. Inicio(segs', k) = Inicio(segs, k)
    BY <1>9, <1>11
  <2>. QED  BY <1>4, <2>1, <2>2
<1>13. Inicio(segs', f) = Inicio(segs, f)
  <2>1. CASE f = 1
    BY <2>1 DEF Inicio
  <2>2. CASE f # 1
    <3>1. f - 1 \in 1..(Len(segs) - 1) /\ f - 1 < f
      BY <1>3, <1>7, <2>2
    <3>2. segs'[f - 1] = segs[f - 1]
      BY <1>8, <3>1
    <3>. QED  BY <2>2, <3>2 DEF Inicio
  <2>. QED  BY <2>1, <2>2
<1>14. Ordenados(segs')
  <2>. SUFFICES ASSUME NEW i \in 1..(Len(segs) - 1), NEW j \in 1..(Len(segs) - 1), i < j
                PROVE  segs'[i].mem + segs'[i].size <= segs'[j].mem
    BY <1>8 DEF Ordenados
  <2>1. PICK a \in 1..Len(segs) : a = IF i < f THEN i ELSE i + 1
    <3>1. (IF i < f THEN i ELSE i + 1) \in 1..Len(segs)
      BY <1>3
    <3>. QED  BY <3>1
  <2>2. PICK b \in 1..Len(segs) : b = IF j < f THEN j ELSE j + 1
    <3>1. (IF j < f THEN j ELSE j + 1) \in 1..Len(segs)
      BY <1>3
    <3>. QED  BY <3>1
  <2>3. a < b /\ segs'[i] = segs[a] /\ segs'[j] = segs[b]
    BY <1>8, <1>9, <2>1, <2>2
  <2>4. segs[a].mem + segs[a].size <= segs[b].mem
    BY <1>5, <2>3 DEF Ordenados
  <2>. QED  BY <2>3, <2>4
<1>15. TeselaBorrar'
  <2>1. libre' + Inicio(segs', f) = Malloc
    BY <1>1, <1>4, <1>13
  <2>. QED  BY <1>9, <1>10, <1>12, <1>14, <2>1 DEF TeselaBorrar
<1>. QED  BY <1>1, <1>15 DEF Teselado, Estable

\* With every hole deleted the list tiles the memory up to the counter again.
LEMMA TerminaTesela ==
  ASSUME TypeOK, CursorValido, Teselado, TerminaCompactacion
  PROVE  Teselado'
<1>1. /\ fase = "borrar" /\ fase' \in {"reposo", "crear"}
      /\ segs' = segs /\ libre' = libre
      /\ \A k \in DOMAIN segs : segs[k].res = 1
  BY DEF TerminaCompactacion, memoria
<1>2. Len(segs) \in Nat /\ DOMAIN segs = 1..Len(segs)
  BY DEF TypeOK
<1>3. PICK f \in 1..(Len(segs) + 1) :
        /\ Corte(segs, f)
        /\ \A k \in 1..Len(segs) : k < f => segs[k].mem = Inicio(segs, k)
        /\ libre + Inicio(segs, f) = Malloc
  BY <1>1 DEF Teselado, TeselaBorrar
<1>4. f = Len(segs) + 1
  <2>1. \A i \in 1..Len(segs) : i < f
    BY <1>1, <1>2, <1>3 DEF Corte
  <2>2. f \in 1..Len(segs) => f < f
    BY <2>1
  <2>. QED  BY <1>2, <2>2
<1>5. Contiguos(segs) /\ Ordenados(segs)
  <2>1. \A k \in 1..Len(segs) : k < f
    BY <1>2, <1>4
  <2>2. Contiguos(segs)
    BY <1>3, <2>1 DEF Contiguos
  <2>. QED  BY <1>1, <2>2 DEF Teselado, TeselaBorrar
<1>6. TeselaEntera'
  BY <1>1, <1>3, <1>4, <1>5 DEF TeselaEntera
<1>. QED  BY <1>1, <1>6, EstableTesela DEF Estable

\* The faulty path of lines 256-287 is never left behind.
LEMMA DesvioPaso ==
  ASSUME TypeOK, [Next]_vars, desvio' = 0
  PROVE  desvio = 0
<1>1. desvio' = desvio \/ ConsumeSiguiente \/ ConsumeExacto
  BY DEF Next, Crear, Compactar, vars, PideSegmento, CreaPrimero, CreaEnHueco,
         CreaAlFinal, MandaCompactar, SinLugar, CaeWorstFit, Responde,
         DestruyeSegmentos, CambiaAlgoritmo, ConsolaCompacta, SaltaReservado,
         NadaQueMover, MueveAMayor, MueveAMenor, MueveAIgual, MueveSeparado,
         SoloMueve, AgrandaHueco, RecortaSiguiente, DevuelveMemoria,
         TerminaDevolver, BorraSegmento, TerminaCompactacion
<1>2. ConsumeSiguiente => desvio' \in {desvio, 1}
  BY DEF ConsumeSiguiente, SigueConsumiendo, SeAgota
<1>3. ConsumeExacto => desvio' \in {desvio, 1}
  BY DEF ConsumeExacto
<1>. QED  BY <1>1, <1>2, <1>3

\* Every step preserves the tiling until the faulty path is taken.
LEMMA TeselaPaso ==
  ASSUME TypeOK, CursorValido, TypeOK', CursorValido', desvio = 0 => Teselado,
         [Next]_vars
  PROVE  desvio' = 0 => Teselado'
<1>. SUFFICES ASSUME desvio' = 0 PROVE Teselado'
  OBVIOUS
<1>0. Teselado
  BY DesvioPaso
<1>1. ASSUME NEW p \in Pids, NEW t \in Tamanios, PideSegmento(p, t)
      PROVE  Teselado'
  BY <1>0, <1>1, QuietaTesela DEF PideSegmento, Estable
<1>2. CASE CreaPrimero
  BY <1>0, <1>2, CreaPrimeroTesela
<1>3. CASE CreaEnHueco
  BY <1>0, <1>3, CreaEnHuecoTesela
<1>4. CASE CreaAlFinal
  BY <1>0, <1>4, CreaAlFinalTesela
<1>5. CASE MandaCompactar \/ ConsolaCompacta
  BY <1>0, <1>5, QuietaTesela DEF MandaCompactar, ConsolaCompacta, Estable
<1>6. CASE SinLugar \/ CaeWorstFit
  BY <1>0, <1>6, QuietaTesela DEF SinLugar, CaeWorstFit, Responde, Estable
<1>7. ASSUME NEW p \in Pids, DestruyeSegmentos(p)
      PROVE  Teselado'
  BY <1>0, <1>7, DestruyeTesela
<1>8. ASSUME NEW a \in Algoritmos, CambiaAlgoritmo(a)
      PROVE  Teselado'
  BY <1>0, <1>8, QuietaTesela DEF CambiaAlgoritmo
<1>9. CASE SaltaReservado \/ NadaQueMover
  BY <1>0, <1>9, SaltaTesela, NadaTesela
<1>10. CASE Mueve
  BY <1>0, <1>10, MueveTesela
<1>11. ASSUME NEW r \in DOMAIN segs, AgrandaHueco(r)
       PROVE  Teselado'
  BY <1>0, <1>11, AgrandaTesela
<1>12. CASE RecortaSiguiente \/ ConsumeSiguiente \/ ConsumeExacto
  BY <1>0, <1>12, RecortaTesela, SinDesvioSigue, ConsumeTesela, ExactoTesela
<1>13. CASE DevuelveMemoria \/ TerminaDevolver
  BY <1>0, <1>13, DevuelveTesela, TerminaDevolverTesela
<1>14. CASE BorraSegmento \/ TerminaCompactacion
  BY <1>0, <1>14, BorraTesela, TerminaTesela
<1>15. CASE UNCHANGED vars
  BY <1>0, <1>15, QuietaTesela DEF vars
<1>. QED
  BY <1>1, <1>2, <1>3, <1>4, <1>5, <1>6, <1>7, <1>8, <1>9, <1>10, <1>11, <1>12,
     <1>13, <1>14, <1>15 DEF Next, Crear, Compactar, Mueve

\* The empty memory is tiled.
LEMMA TeselaInicial == Init => (desvio = 0 => Teselado)
<1>. SUFFICES ASSUME Init PROVE Teselado
  OBVIOUS
<1>1. segs = <<>> /\ libre = Malloc /\ fase = "reposo" /\ Len(segs) = 0
  BY DEF Init
<1>2. TeselaEntera
  BY <1>1, MallocAssumption DEF TeselaEntera, Contiguos, Ordenados, Inicio
<1>. QED  BY <1>1, <1>2 DEF Teselado, Estable

-----------------------------------------------------------------------------
\* The inductive invariant: types, positions of compactacion, and tiling.
THEOREM Memoria == Spec => []InvMemoria
<1>1. Init => InvMemoria
  BY TipoInicial, TeselaInicial DEF InvMemoria
<1>2. InvMemoria /\ [Next]_vars => InvMemoria'
  <2>. SUFFICES ASSUME InvMemoria, [Next]_vars PROVE InvMemoria'
    OBVIOUS
  <2>1. TypeOK /\ CursorValido /\ (desvio = 0 => Teselado)
    BY DEF InvMemoria
  <2>2. TypeOK' /\ CursorValido'
    BY <2>1, TipoPaso
  <2>3. desvio' = 0 => Teselado'
    BY <2>1, <2>2, TeselaPaso
  <2>. QED  BY <2>2, <2>3 DEF InvMemoria
<1>. QED  BY <1>1, <1>2, PTL DEF Spec

\* No byte of the memory ever belongs to two segments, for every memory size,
\* every set of programs and sizes and both algorithms, on the sound path.
THEOREM NuncaSolapa == Spec => []SinSolape
<1>1. InvMemoria => SinSolape
  <2>. SUFFICES ASSUME InvMemoria, Estable, desvio = 0,
                       NEW i \in DOMAIN segs, NEW j \in DOMAIN segs, i < j
                PROVE  segs[i].mem + segs[i].size <= segs[j].mem
    BY DEF SinSolape
  <2>1. Ordenados(segs) /\ DOMAIN segs = 1..Len(segs)
    BY DEF InvMemoria, Teselado, TeselaEntera, TypeOK
  <2>. QED  BY <2>1 DEF Ordenados
<1>. QED  BY <1>1, Memoria, PTL

\* No byte is ever leaked or counted twice: the segments are contiguous from
\* the first byte, and the nodo cero counts exactly what they do not cover.
THEOREM SeConserva == Spec => []Conservacion
<1>1. InvMemoria => Conservacion
  <2>. SUFFICES ASSUME InvMemoria, Estable, desvio = 0
                PROVE  /\ segs # <<>> => segs[1].mem = 0
                       /\ \A i \in 1..(Len(segs) - 1) :
                            segs[i + 1].mem = segs[i].mem + segs[i].size
                       /\ Fin + libre = Malloc
    BY DEF Conservacion
  <2>1. /\ Contiguos(segs) /\ libre + Inicio(segs, Len(segs) + 1) = Malloc
        /\ segs \in Seq(Segmento) /\ Len(segs) \in Nat /\ libre \in Int
    BY DEF InvMemoria, Teselado, TeselaEntera, TypeOK
  <2>2. segs # <<>> => segs[1].mem = 0
    <3>1. segs # <<>> => 1 \in 1..Len(segs)
      BY <2>1
    <3>. QED  BY <2>1, <3>1 DEF Contiguos, Inicio
  <2>3. ASSUME NEW i \in 1..(Len(segs) - 1)
        PROVE  segs[i + 1].mem = segs[i].mem + segs[i].size
    <3>1. i + 1 \in 1..Len(segs) /\ i + 1 # 1 /\ (i + 1) - 1 = i
      BY <2>1
    <3>. QED  BY <2>1, <3>1 DEF Contiguos, Inicio
  <2>4. Fin + libre = Malloc
    <3>1. Fin = Inicio(segs, Len(segs) + 1)
      BY <2>1 DEF Fin, Inicio
    <3>2. Inicio(segs, Len(segs) + 1) \in Int
      BY <2>1, NumerosTipo, InicioTipo
    <3>. QED  BY <2>1, <3>1, <3>2
  <2>. QED  BY <2>2, <2>3, <2>4
<1>. QED  BY <1>1, Memoria, PTL

-----------------------------------------------------------------------------
(* Who the segments belong to while compactacion moves them                *)

\* Rewriting two positions in place.
LEMMA DosCambiados ==
  ASSUME NEW S, NEW s \in Seq(S), NEW i \in 1..Len(s), NEW j \in 1..Len(s),
         NEW a \in S, NEW b \in S, i # j
  PROVE  LET t == [s EXCEPT ![i] = a, ![j] = b]
         IN  /\ Len(t) = Len(s)
             /\ t[i] = a /\ t[j] = b
             /\ \A k \in 1..Len(s) : k \notin {i, j} => t[k] = s[k]
  OBVIOUS

\* Rewriting three.
LEMMA TresCambios ==
  ASSUME NEW S, NEW s \in Seq(S), NEW i \in 1..Len(s), NEW j \in 1..Len(s),
         NEW l \in 1..Len(s), NEW a \in S, NEW b \in S, NEW c \in S,
         i # j, i # l, j # l
  PROVE  LET t == [s EXCEPT ![i] = a, ![j] = b, ![l] = c]
         IN  /\ Len(t) = Len(s)
             /\ t[i] = a /\ t[j] = b /\ t[l] = c
             /\ \A k \in 1..Len(s) : k \notin {i, j, l} => t[k] = s[k]
  OBVIOUS

\* What a node gives up: it ends free, its posInicial does not fall behind its
\* place, and it is not left empty if it and the hole being filled were not.
Retirada(x, y, lleno) ==
  /\ y.res = 0
  /\ x.base >= x.mem => y.base >= y.mem
  /\ (lleno /\ x.size > 0) => y.size > 0

\* The hole at nodo is given to the segment of position r, whole; of the other
\* nodes only r and holes are rewritten, and they end free.
Pasada(r) ==
  /\ nodo \in 1..Len(segs) /\ r \in 1..Len(segs) /\ nodo < r
  /\ Len(segs') = Len(segs)
  /\ segs[nodo].res = 0 /\ segs[r].res = 1
  /\ segs'[nodo].pid = segs[r].pid /\ segs'[nodo].base = segs[r].base
  /\ segs'[nodo].mem = segs[nodo].mem /\ segs'[nodo].res = 1
  /\ segs'[nodo].size >= segs[r].size
  /\ \A j \in 1..Len(segs) : j # nodo =>
       \/ j # r /\ segs'[j] = segs[j]
       \/ /\ j = r \/ segs[j].res = 0
          /\ Retirada(segs[j], segs'[j], segs[nodo].size > 0)

\* What HuecoPara says of the two nodes, and of those in between.
LEMMA HuecoDueno ==
  ASSUME TypeOK, NEW r, HuecoPara(r)
  PROVE  /\ segs \in Seq(Segmento)
         /\ nodo \in 1..Len(segs) /\ r \in 1..Len(segs) /\ nodo < r
         /\ nodo + 1 \in 1..Len(segs)
         /\ segs[nodo].res = 0 /\ segs[r].res = 1
         /\ \A j \in 1..Len(segs) : (nodo < j /\ j < r) => segs[j].res = 0
<1>1. segs \in Seq(Segmento) /\ nodo \in 1..Len(segs) /\ r \in 1..Len(segs)
      /\ r > nodo /\ segs[nodo].res = 0 /\ segs[r].res = 1
      /\ \A j \in (nodo + 1)..(r - 1) : segs[j].res = 0
  BY DEF TypeOK, HuecoPara, EsPrimerReservado
<1>2. \A j \in 1..Len(segs) : (nodo < j /\ j < r) => j \in (nodo + 1)..(r - 1)
  BY <1>1
<1>. QED  BY <1>1, <1>2

\* The fields the moved segment and the freed nodes get.
LEMMA MovidoDueno ==
  ASSUME NEW r, NEW t
  PROVE  /\ Movido(r, t).pid = segs[r].pid /\ Movido(r, t).base = segs[r].base
         /\ Movido(r, t).mem = segs[nodo].mem /\ Movido(r, t).size = t
         /\ Movido(r, t).res = 1
  BY DEF Movido, Reservado

\* Freeing a node, then moving its start, leaves posInicial where it was with
\* respect to the place.
LEMMA RetiradaCorrida ==
  ASSUME NEW x \in Segmento, NEW d \in Int, NEW lleno \in BOOLEAN,
         (lleno /\ x.size > 0) => x.size > d, x.size >= d
  PROVE  Retirada(x, Corrido(Liberado(x), d), lleno)
<1>1. x.base \in Int /\ x.mem \in Int /\ x.size \in Nat
  BY DEF Segmento
<1> DEFINE y == Corrido(Liberado(x), d)
<1>2. y.base = x.base + d /\ y.mem = x.mem + d /\ y.size = x.size - d /\ y.res = 0
  BY <1>1 DEF Corrido, Liberado, Hueco
<1> HIDE DEF y
<1>3. x.base >= x.mem => y.base >= y.mem
  BY <1>1, <1>2
<1>4. (lleno /\ x.size > 0) => y.size > 0
  BY <1>1, <1>2
<1>5. Retirada(x, y, lleno)
  BY <1>2, <1>3, <1>4 DEF Retirada
<1>. QED  BY <1>5 DEF y

\* Each of the four ways of filling a hole at once is a Pasada.
LEMMA PasadaAMayor ==
  ASSUME TypeOK, MueveAMayor
  PROVE  Pasada(nodo + 1)
<1> DEFINE r == nodo + 1
           a == Movido(r, segs[nodo].size - (segs[nodo].size - segs[nodo].size))
           b == Corrido(Liberado(segs[r]), -(segs[nodo].size - segs[nodo].size))
<1>1. /\ HuecoPara(r) /\ segs[nodo].size > segs[r].size
      /\ segs' = [segs EXCEPT ![nodo] = a, ![r] = b]
  BY DEF MueveAMayor
<1>2. /\ segs \in Seq(Segmento) /\ nodo \in 1..Len(segs) /\ r \in 1..Len(segs)
      /\ nodo < r /\ segs[nodo].res = 0 /\ segs[r].res = 1
  BY <1>1, HuecoDueno
<1>3. /\ segs[nodo].size \in Nat /\ segs[r].size \in Nat /\ segs[r] \in Segmento
  BY <1>2, CamposTipo
<1>4. /\ segs[nodo].size - (segs[nodo].size - segs[nodo].size) = segs[nodo].size
      /\ -(segs[nodo].size - segs[nodo].size) = 0
  BY <1>3
<1>5. /\ a \in Segmento /\ a.pid = segs[r].pid /\ a.base = segs[r].base
      /\ a.mem = segs[nodo].mem /\ a.size = segs[nodo].size /\ a.res = 1
  BY <1>1, <1>3, <1>4, MovidoTipo, MovidoDueno
<1>6. b \in Segmento
  <2>1. Liberado(segs[r]) \in Segmento /\ Liberado(segs[r]).size = segs[r].size
    BY <1>3, LiberadoTipo
  <2>. QED  BY <1>3, <1>4, <2>1, CorridoTipo
<1>7. Retirada(segs[r], b, segs[nodo].size > 0)
  <2> DEFINE d == -(segs[nodo].size - segs[nodo].size)
             lleno == segs[nodo].size > 0
  <2>1. d = 0 /\ lleno \in BOOLEAN
    BY <1>4
  <2>2. b = Corrido(Liberado(segs[r]), d)
    OBVIOUS
  <2> HIDE DEF b, d, lleno
  <2>3. Retirada(segs[r], b, lleno)
    BY <1>3, <2>1, <2>2, RetiradaCorrida
  <2>. QED  BY <2>3 DEF lleno
<1> HIDE DEF a, b
<1>8. /\ Len(segs') = Len(segs) /\ segs'[nodo] = a /\ segs'[r] = b
      /\ \A k \in 1..Len(segs) : k \notin {nodo, r} => segs'[k] = segs[k]
  BY <1>1, <1>2, <1>5, <1>6, DosCambiados
<1>9. segs'[nodo].size >= segs[r].size
  BY <1>1, <1>3, <1>5, <1>8
<1>. QED  BY <1>2, <1>5, <1>7, <1>8, <1>9 DEF Pasada

\* It follows a smaller hole: the hole takes what it misses from the segment.
LEMMA PasadaAMenor ==
  ASSUME TypeOK, MueveAMenor
  PROVE  Pasada(nodo + 1)
<1> DEFINE r == nodo + 1
           d == segs[r].size - segs[nodo].size
           a == Movido(r, segs[nodo].size + d)
           b == Corrido(Liberado(segs[r]), d)
           lleno == segs[nodo].size > 0
<1>1. /\ HuecoPara(r) /\ segs[nodo].size < segs[r].size
      /\ segs' = [segs EXCEPT ![nodo] = a, ![r] = b]
  BY DEF MueveAMenor
<1>2. /\ segs \in Seq(Segmento) /\ nodo \in 1..Len(segs) /\ r \in 1..Len(segs)
      /\ nodo < r /\ segs[nodo].res = 0 /\ segs[r].res = 1
  BY <1>1, HuecoDueno
<1>3. /\ segs[nodo].size \in Nat /\ segs[r].size \in Nat /\ segs[r] \in Segmento
  BY <1>2, CamposTipo
<1>4. /\ d \in Nat /\ segs[nodo].size + d = segs[r].size /\ segs[r].size >= d
      /\ lleno \in BOOLEAN
      /\ (lleno /\ segs[r].size > 0) => segs[r].size > d
  BY <1>1, <1>3
<1>5. /\ a \in Segmento /\ a.pid = segs[r].pid /\ a.base = segs[r].base
      /\ a.mem = segs[nodo].mem /\ a.size = segs[r].size /\ a.res = 1
  BY <1>1, <1>3, <1>4, MovidoTipo, MovidoDueno
<1> HIDE DEF d, lleno
<1>6. b \in Segmento
  <2>1. Liberado(segs[r]) \in Segmento /\ Liberado(segs[r]).size = segs[r].size
    BY <1>3, LiberadoTipo
  <2>. QED  BY <1>4, <2>1, CorridoTipo
<1>7. Retirada(segs[r], b, lleno)
  BY <1>3, <1>4, RetiradaCorrida
<1> HIDE DEF a, b
<1>8. /\ Len(segs') = Len(segs) /\ segs'[nodo] = a /\ segs'[r] = b
      /\ \A k \in 1..Len(segs) : k \notin {nodo, r} => segs'[k] = segs[k]
  BY <1>1, <1>2, <1>5, <1>6, DosCambiados
<1>9. segs'[nodo].size >= segs[r].size
  BY <1>3, <1>5, <1>8
<1>10. Retirada(segs[r], b, segs[nodo].size > 0)
  BY <1>7 DEF lleno
<1>. QED  BY <1>2, <1>5, <1>8, <1>9, <1>10 DEF Pasada

\* Same size, next to the hole or not.
LEMMA PasadaAIgual ==
  ASSUME TypeOK, NEW r \in DOMAIN segs, MueveAIgual(r)
  PROVE  Pasada(r)
<1> DEFINE a == Movido(r, segs[nodo].size)
           b == Hueco(segs[r].base + 1, segs[r].mem, segs[r].size)
<1>1. /\ HuecoPara(r) /\ segs[nodo].size = segs[r].size
      /\ segs' = [segs EXCEPT ![nodo] = a, ![r] = b]
  BY DEF MueveAIgual
<1>2. /\ segs \in Seq(Segmento) /\ nodo \in 1..Len(segs) /\ r \in 1..Len(segs)
      /\ nodo < r /\ segs[nodo].res = 0 /\ segs[r].res = 1
  BY <1>1, HuecoDueno
<1>3. /\ segs[nodo].size \in Nat /\ segs[r].size \in Nat /\ segs[r] \in Segmento
      /\ segs[r].base \in Int /\ segs[r].mem \in Int /\ segs[r].base + 1 \in Int
  BY <1>2, CamposTipo
<1>4. /\ a \in Segmento /\ a.pid = segs[r].pid /\ a.base = segs[r].base
      /\ a.mem = segs[nodo].mem /\ a.size = segs[nodo].size /\ a.res = 1
  BY <1>1, <1>3, MovidoTipo, MovidoDueno
<1>5. /\ b \in Segmento /\ b.base = segs[r].base + 1 /\ b.mem = segs[r].mem
      /\ b.size = segs[r].size /\ b.res = 0
  <2>1. segs[r].base + 1 \in Int /\ segs[r].mem \in Int /\ segs[r].size \in Nat
    BY <1>3
  <2>. QED  BY <2>1, HuecoEsSegmento, SMTT(30)
<1> HIDE DEF a, b
<1>6. Retirada(segs[r], b, segs[nodo].size > 0)
  BY <1>3, <1>5 DEF Retirada
<1>7. /\ Len(segs') = Len(segs) /\ segs'[nodo] = a /\ segs'[r] = b
      /\ \A k \in 1..Len(segs) : k \notin {nodo, r} => segs'[k] = segs[k]
  BY <1>1, <1>2, <1>4, <1>5, DosCambiados
<1>8. segs'[nodo].size >= segs[r].size
  BY <1>1, <1>3, <1>4, <1>7
<1>. QED  BY <1>2, <1>4, <1>6, <1>7, <1>8 DEF Pasada

\* Other holes in between, and the first one is larger.
LEMMA PasadaSeparada ==
  ASSUME TypeOK, NEW r \in DOMAIN segs, MueveSeparado(r)
  PROVE  Pasada(r)
<1> DEFINE d == segs[nodo].size - segs[r].size
           s == nodo + 1
           a == Movido(r, segs[nodo].size - d)
           b == Corrido(segs[s], -d)
           c == Liberado(segs[r])
<1>1. /\ HuecoPara(r) /\ r > s /\ d > 0
      /\ segs' = [segs EXCEPT ![nodo] = a, ![s] = b, ![r] = c]
  BY DEF MueveSeparado
<1>2. /\ segs \in Seq(Segmento) /\ nodo \in 1..Len(segs) /\ r \in 1..Len(segs)
      /\ s \in 1..Len(segs) /\ nodo < r /\ segs[nodo].res = 0 /\ segs[r].res = 1
      /\ nodo # s /\ s # r /\ nodo # r /\ segs[s].res = 0
  <2>1. \A j \in 1..Len(segs) : (nodo < j /\ j < r) => segs[j].res = 0
    BY <1>1, HuecoDueno
  <2>. QED  BY <1>1, <2>1, HuecoDueno
<1>3. /\ segs[nodo].size \in Nat /\ segs[r].size \in Nat /\ segs[r] \in Segmento
      /\ segs[s] \in Segmento /\ segs[s].base \in Int /\ segs[s].mem \in Int
      /\ segs[s].size \in Nat
  BY <1>2, CamposTipo
<1>4. d \in Nat /\ -d \in Int /\ segs[nodo].size - d = segs[r].size /\ segs[s].size >= -d
  <2>1. d \in Nat /\ segs[nodo].size - d = segs[r].size
    <3>1. PICK x \in Nat, y \in Nat : x = segs[nodo].size /\ y = segs[r].size
      BY <1>3
    <3>2. x - y > 0
      BY <1>1, <3>1
    <3>3. x - y \in Nat /\ x - (x - y) = y
      BY <3>2
    <3>. QED  BY <3>1, <3>3
  <2> HIDE DEF d
  <2>. QED  BY <1>3, <2>1
<1>5. /\ a \in Segmento /\ a.pid = segs[r].pid /\ a.base = segs[r].base
      /\ a.mem = segs[nodo].mem /\ a.size = segs[r].size /\ a.res = 1
  BY <1>1, <1>3, <1>4, MovidoTipo, MovidoDueno
<1> HIDE DEF d, s
<1>6. /\ b \in Segmento /\ b.base = segs[s].base + (-d) /\ b.mem = segs[s].mem + (-d)
      /\ b.size = segs[s].size - (-d) /\ b.res = 0
  BY <1>2, <1>3, <1>4, CorridoTipo
<1>7. /\ c \in Segmento /\ c.base = segs[r].base /\ c.mem = segs[r].mem
      /\ c.size = segs[r].size /\ c.res = 0
  BY <1>3, LiberadoTipo
<1> HIDE DEF a, b, c
<1>8. Retirada(segs[s], b, segs[nodo].size > 0)
  BY <1>3, <1>4, <1>6 DEF Retirada
<1>9. Retirada(segs[r], c, segs[nodo].size > 0)
  BY <1>7 DEF Retirada
<1>10. /\ Len(segs') = Len(segs) /\ segs'[nodo] = a /\ segs'[s] = b /\ segs'[r] = c
       /\ \A k \in 1..Len(segs) : k \notin {nodo, s, r} => segs'[k] = segs[k]
  <2> DEFINE t == [segs EXCEPT ![nodo] = a, ![s] = b, ![r] = c]
  <2>1. a \in Segmento /\ b \in Segmento /\ c \in Segmento
    BY <1>5, <1>6, <1>7
  <2>2. /\ Len(t) = Len(segs) /\ t[nodo] = a /\ t[s] = b /\ t[r] = c
        /\ \A k \in 1..Len(segs) : k \notin {nodo, s, r} => t[k] = segs[k]
    <3>1. /\ segs \in Seq(Segmento) /\ nodo \in 1..Len(segs) /\ s \in 1..Len(segs)
          /\ r \in 1..Len(segs) /\ nodo # s /\ nodo # r /\ s # r
      BY <1>2
    <3>. QED  BY <2>1, <3>1, TresCambios, SMTT(30)
  <2>. QED  BY <1>1, <2>2
<1>11. segs'[nodo].size >= segs[r].size
  BY <1>3, <1>5, <1>10
<1>. QED  BY <1>2, <1>5, <1>8, <1>9, <1>10, <1>11 DEF Pasada

\* All four.
LEMMA MuevePasa ==
  ASSUME TypeOK, Mueve
  PROVE  \E r \in 1..Len(segs) : Pasada(r)
<1>1. ASSUME NEW r, Pasada(r)
      PROVE  \E q \in 1..Len(segs) : Pasada(q)
  <2>1. r \in 1..Len(segs)
    BY <1>1 DEF Pasada
  <2>. QED  BY <1>1, <2>1
<1>. QED  BY <1>1, PasadaAMayor, PasadaAMenor, PasadaAIgual, PasadaSeparada DEF Mueve

\* Every identifier of a reserved segment of s names one of u with at least as
\* many bytes, and u has no other.
Conserva(s, u) ==
  /\ \A i \in 1..Len(s) : s[i].res = 1 =>
       \E j \in 1..Len(u) : /\ u[j].res = 1 /\ u[j].pid = s[i].pid
                            /\ u[j].base = s[i].base /\ u[j].size >= s[i].size
  /\ \A j \in 1..Len(u) : u[j].res = 1 =>
       \E i \in 1..Len(s) : /\ s[i].res = 1 /\ s[i].pid = u[j].pid
                            /\ s[i].base = u[j].base

\* the sizes of a list are natural numbers
Medida(s) == \A k \in 1..Len(s) : s[k].size \in Nat

\* Nothing changes, or only the owner-less fields do.
LEMMA MismaConserva ==
  ASSUME NEW s, Medida(s)
  PROVE  Conserva(s, s)
  BY DEF Conserva, Medida

\* One edit after the other.
LEMMA DobleConserva ==
  ASSUME NEW s, NEW u, NEW w, Medida(s), Medida(u), Medida(w),
         Conserva(s, u), Conserva(u, w)
  PROVE  Conserva(s, w)
<1>1. ASSUME NEW i \in 1..Len(s), s[i].res = 1
      PROVE  \E j \in 1..Len(w) :
               /\ w[j].res = 1 /\ w[j].pid = s[i].pid
               /\ w[j].base = s[i].base /\ w[j].size >= s[i].size
  <2>1. PICK k \in 1..Len(u) : /\ u[k].res = 1 /\ u[k].pid = s[i].pid
                               /\ u[k].base = s[i].base /\ u[k].size >= s[i].size
    BY <1>1 DEF Conserva
  <2>2. PICK j \in 1..Len(w) : /\ w[j].res = 1 /\ w[j].pid = u[k].pid
                               /\ w[j].base = u[k].base /\ w[j].size >= u[k].size
    BY <2>1 DEF Conserva
  <2>3. w[j].size >= s[i].size
    BY <2>1, <2>2 DEF Medida
  <2>. QED  BY <2>1, <2>2, <2>3
<1>2. ASSUME NEW j \in 1..Len(w), w[j].res = 1
      PROVE  \E i \in 1..Len(s) : /\ s[i].res = 1 /\ s[i].pid = w[j].pid
                                  /\ s[i].base = w[j].base
  <2>1. PICK k \in 1..Len(u) : /\ u[k].res = 1 /\ u[k].pid = w[j].pid
                               /\ u[k].base = w[j].base
    BY <1>2 DEF Conserva
  <2>2. PICK i \in 1..Len(s) : /\ s[i].res = 1 /\ s[i].pid = u[k].pid
                               /\ s[i].base = u[k].base
    BY <2>1 DEF Conserva
  <2>. QED  BY <2>1, <2>2
<1>. QED  BY <1>1, <1>2 DEF Conserva

\* A hole leaves the list.
LEMMA QuitaConserva ==
  ASSUME NEW s \in Seq(Segmento), NEW m \in 1..Len(s), s[m].res = 0
  PROVE  Conserva(s, QuitaPos(s, m))
<1> DEFINE u == QuitaPos(s, m)
<1>1. /\ Len(u) = Len(s) - 1
      /\ \A j \in 1..(Len(s) - 1) : u[j] = IF j < m THEN s[j] ELSE s[j + 1]
  BY QuitaPosTipo
<1>2. Len(s) \in Nat /\ m \in Nat /\ \A i \in 1..Len(s) : s[i].size \in Nat
  BY CamposTipo
<1> HIDE DEF u
<1>3. ASSUME NEW i \in 1..Len(s), s[i].res = 1
      PROVE  \E j \in 1..Len(u) : u[j] = s[i]
  <2>1. i # m
    BY <1>3
  <2>2. CASE i < m
    <3>1. i \in 1..(Len(s) - 1) /\ u[i] = s[i]
      BY <1>1, <1>2, <2>2
    <3>. QED  BY <1>1, <3>1
  <2>3. CASE i > m
    <3>1. i - 1 \in 1..(Len(s) - 1) /\ ~(i - 1 < m) /\ (i - 1) + 1 = i
      BY <1>2, <2>3
    <3>. QED  BY <1>1, <3>1
  <2>. QED  BY <1>2, <2>1, <2>2, <2>3
<1>4. ASSUME NEW j \in 1..Len(u)
      PROVE  \E i \in 1..Len(s) : u[j] = s[i]
  <2>1. j \in 1..(Len(s) - 1) /\ j \in 1..Len(s) /\ j + 1 \in 1..Len(s)
    BY <1>1, <1>2
  <2>. QED  BY <1>1, <2>1
<1>5. Conserva(s, u)
  <2>1. ASSUME NEW i \in 1..Len(s), s[i].res = 1
        PROVE  \E j \in 1..Len(u) :
                 /\ u[j].res = 1 /\ u[j].pid = s[i].pid
                 /\ u[j].base = s[i].base /\ u[j].size >= s[i].size
    <3>1. PICK j \in 1..Len(u) : u[j] = s[i]
      BY <1>3, <2>1
    <3>2. s[i].size \in Nat
      BY <1>2
    <3>3. u[j].size >= s[i].size
      BY <3>1, <3>2
    <3>. QED  BY <2>1, <3>1, <3>3
  <2>2. ASSUME NEW j \in 1..Len(u), u[j].res = 1
        PROVE  \E i \in 1..Len(s) : /\ s[i].res = 1 /\ s[i].pid = u[j].pid
                                    /\ s[i].base = u[j].base
    BY <1>4, <2>2
  <2>. QED  BY <2>1, <2>2 DEF Conserva
<1>. QED  BY <1>5 DEF u

\* A hole filled at once.
LEMMA PasaConserva ==
  ASSUME NEW r, Pasada(r), Medida(segs)
  PROVE  Conserva(segs, segs')
<1>1. ASSUME NEW i \in 1..Len(segs), segs[i].res = 1
      PROVE  \E j \in 1..Len(segs') :
               /\ segs'[j].res = 1 /\ segs'[j].pid = segs[i].pid
               /\ segs'[j].base = segs[i].base /\ segs'[j].size >= segs[i].size
  <2>1. CASE i = r
    <3>1. /\ nodo \in 1..Len(segs') /\ segs'[nodo].res = 1
          /\ segs'[nodo].pid = segs[i].pid /\ segs'[nodo].base = segs[i].base
          /\ segs'[nodo].size >= segs[i].size
      BY <2>1 DEF Pasada
    <3>. QED  BY <3>1
  <2>2. CASE i # r
    <3>1. i # nodo /\ segs'[i] = segs[i] /\ i \in 1..Len(segs')
      BY <1>1, <2>2 DEF Pasada
    <3>2. segs[i].size >= segs[i].size
      BY DEF Medida
    <3>. QED  BY <1>1, <3>1, <3>2
  <2>. QED  BY <2>1, <2>2
<1>2. ASSUME NEW j \in 1..Len(segs'), segs'[j].res = 1
      PROVE  \E i \in 1..Len(segs) : /\ segs[i].res = 1 /\ segs[i].pid = segs'[j].pid
                                     /\ segs[i].base = segs'[j].base
  <2>1. CASE j = nodo
    BY <2>1 DEF Pasada
  <2>2. CASE j # nodo
    <3>1. j \in 1..Len(segs) /\ segs'[j] = segs[j]
      BY <1>2, <2>2 DEF Pasada, Retirada
    <3>. QED  BY <1>2, <3>1
  <2>. QED  BY <2>1, <2>2
<1>. QED  BY <1>1, <1>2 DEF Conserva

\* The enlarged hole: everything else stays.
LEMMA AgrandaDueno ==
  ASSUME TypeOK, CursorValido, NEW r \in DOMAIN segs, AgrandaHueco(r)
  PROVE  /\ segs'[nodo].pid = segs[r].pid /\ segs'[nodo].base = segs[r].base
         /\ segs'[nodo].mem = segs[nodo].mem
         /\ segs'[nodo].size = segs[r].size /\ segs'[nodo].res = 1
         /\ \A j \in 1..Len(segs) : j # nodo => segs'[j] = segs[j]
<1> DEFINE a == Movido(r, segs[r].size)
<1>1. HuecoPara(r) /\ segs' = [segs EXCEPT ![nodo] = a]
  BY DEF AgrandaHueco
<1>2. segs \in Seq(Segmento) /\ nodo \in 1..Len(segs) /\ r \in 1..Len(segs)
  BY <1>1, HuecoDueno
<1>3. segs[r].size \in Nat
  BY <1>2, CamposTipo
<1>4. /\ a \in Segmento /\ a.pid = segs[r].pid /\ a.base = segs[r].base
      /\ a.mem = segs[nodo].mem /\ a.size = segs[r].size /\ a.res = 1
  BY <1>1, <1>3, MovidoTipo, MovidoDueno
<1> HIDE DEF a
<1>. QED  BY <1>1, <1>2, <1>4, CambiaTipo

\* The enlarged hole is a Pasada too, with the segment not freed yet.
LEMMA AgrandaConserva ==
  ASSUME TypeOK, CursorValido, NEW r \in DOMAIN segs, AgrandaHueco(r)
  PROVE  Conserva(segs, segs')
<1>1. /\ segs \in Seq(Segmento) /\ nodo \in 1..Len(segs) /\ r \in 1..Len(segs)
      /\ segs[nodo].res = 0 /\ segs[r].res = 1
  BY HuecoDueno DEF AgrandaHueco
<1>2. Len(segs') = Len(segs)
  BY EfectoAgrandar
<1>3. \A i \in 1..Len(segs) : segs[i].size \in Nat
  BY <1>1, CamposTipo
<1>4. ASSUME NEW i \in 1..Len(segs), segs[i].res = 1
      PROVE  \E j \in 1..Len(segs') :
               /\ segs'[j].res = 1 /\ segs'[j].pid = segs[i].pid
               /\ segs'[j].base = segs[i].base /\ segs'[j].size >= segs[i].size
  <2>1. i # nodo
    BY <1>1, <1>4
  <2>2. segs'[i] = segs[i] /\ i \in 1..Len(segs')
    BY <1>2, <2>1, AgrandaDueno
  <2>. QED  BY <1>3, <1>4, <2>2
<1>5. ASSUME NEW j \in 1..Len(segs'), segs'[j].res = 1
      PROVE  \E i \in 1..Len(segs) : /\ segs[i].res = 1 /\ segs[i].pid = segs'[j].pid
                                     /\ segs[i].base = segs'[j].base
  <2>1. CASE j = nodo
    BY <1>1, <2>1, AgrandaDueno
  <2>2. CASE j # nodo
    <3>1. j \in 1..Len(segs) /\ segs'[j] = segs[j]
      BY <1>2, <2>2, AgrandaDueno
    <3>. QED  BY <1>5, <3>1
  <2>. QED  BY <2>1, <2>2
<1>. QED  BY <1>4, <1>5 DEF Conserva

\* The next hole gives up bytes: the segment that moved is freed, and the rest
\* of the list stays.
LEMMA RecortaDueno ==
  ASSUME TypeOK, CursorValido, RecortaSiguiente
  PROVE  /\ Len(segs') = Len(segs)
         /\ segs'[ocupado].res = 0
         /\ siguiente # ocupado => segs'[siguiente].res = segs[siguiente].res
         /\ \A j \in 1..Len(segs) :
              /\ j \notin {siguiente, ocupado} => segs'[j] = segs[j]
              /\ segs[j].base >= segs[j].mem => segs'[j].base >= segs'[j].mem
              /\ segs[j].size > 0 => segs'[j].size > 0
<1> DEFINE a == Corrido(segs[siguiente], dif)
           s == [segs EXCEPT ![siguiente] = a]
           b == Liberado(s[ocupado])
<1>1. fase = "consumir" /\ segs[siguiente].size > dif /\ segs' = [s EXCEPT ![ocupado] = b]
  BY DEF RecortaSiguiente
<1>2. /\ segs \in Seq(Segmento) /\ siguiente \in 1..Len(segs)
      /\ ocupado \in 1..Len(segs) /\ dif \in Int
  BY <1>1, PosicionesTipo
<1>3. /\ segs[siguiente] \in Segmento
      /\ segs[siguiente].base \in Int /\ segs[siguiente].mem \in Int
      /\ segs[siguiente].size \in Nat
  BY <1>2, CamposTipo
<1>4. /\ a \in Segmento /\ a.base = segs[siguiente].base + dif
      /\ a.mem = segs[siguiente].mem + dif
      /\ a.size = segs[siguiente].size - dif /\ a.res = segs[siguiente].res
  BY <1>1, <1>2, <1>3, CorridoTipo
<1>5. /\ a.res = segs[siguiente].res /\ a.size > 0
      /\ segs[siguiente].base >= segs[siguiente].mem => a.base >= a.mem
  BY <1>1, <1>2, <1>3, <1>4, SMTT(30)
<1>6. a \in Segmento
  BY <1>4
<1> HIDE DEF a
<1>7. /\ s \in Seq(Segmento) /\ Len(s) = Len(segs)
      /\ \A j \in 1..Len(segs) : s[j] = IF j = siguiente THEN a ELSE segs[j]
  BY <1>2, <1>6, CambiaTipo
<1>8. s[ocupado] \in Segmento
  BY <1>2, <1>7
<1> HIDE DEF s
<1>9. /\ b \in Segmento /\ b.base = s[ocupado].base /\ b.mem = s[ocupado].mem
      /\ b.size = s[ocupado].size /\ b.res = 0
  BY <1>8, LiberadoTipo
<1> HIDE DEF b
<1>10. /\ Len(segs') = Len(segs)
       /\ \A j \in 1..Len(segs) : segs'[j] = IF j = ocupado THEN b ELSE s[j]
  BY <1>1, <1>2, <1>7, <1>9, CambiaTipo
<1>11. \A j \in 1..Len(segs) :
         /\ segs[j].base >= segs[j].mem => s[j].base >= s[j].mem
         /\ segs[j].size > 0 => s[j].size > 0
  BY <1>5, <1>7
<1>12. \A j \in 1..Len(segs) :
         /\ segs[j].base >= segs[j].mem => segs'[j].base >= segs'[j].mem
         /\ segs[j].size > 0 => segs'[j].size > 0
  BY <1>9, <1>10, <1>11
<1>. QED  BY <1>2, <1>5, <1>7, <1>9, <1>10, <1>12

\* The same when nothing has to be cut: only the segment that moved changes.
LEMMA LiberaDueno ==
  ASSUME TypeOK, CursorValido, fase = "consumir"
  PROVE  LET s == [segs EXCEPT ![ocupado] = Liberado(segs[ocupado])]
         IN  /\ s \in Seq(Segmento) /\ Len(s) = Len(segs)
             /\ s[ocupado].res = 0
             /\ \A j \in 1..Len(segs) :
                  /\ j # ocupado => s[j] = segs[j]
                  /\ segs[j].base >= segs[j].mem => s[j].base >= s[j].mem
                  /\ segs[j].size > 0 => s[j].size > 0
<1> DEFINE a == Liberado(segs[ocupado])
           s == [segs EXCEPT ![ocupado] = a]
<1>1. segs \in Seq(Segmento) /\ ocupado \in 1..Len(segs) /\ segs[ocupado] \in Segmento
  BY PosicionesTipo
<1>2. /\ a \in Segmento /\ a.base = segs[ocupado].base /\ a.mem = segs[ocupado].mem
      /\ a.size = segs[ocupado].size /\ a.res = 0
  BY <1>1, LiberadoTipo
<1> HIDE DEF a
<1>3. /\ s \in Seq(Segmento) /\ Len(s) = Len(segs)
      /\ \A j \in 1..Len(segs) : s[j] = IF j = ocupado THEN a ELSE segs[j]
  BY <1>1, <1>2, CambiaTipo
<1> HIDE DEF s
<1>4. /\ s \in Seq(Segmento) /\ Len(s) = Len(segs)
      /\ s[ocupado].res = 0
      /\ \A j \in 1..Len(segs) :
           /\ j # ocupado => s[j] = segs[j]
           /\ segs[j].base >= segs[j].mem => s[j].base >= s[j].mem
           /\ segs[j].size > 0 => s[j].size > 0
  BY <1>1, <1>2, <1>3
<1>. QED  BY <1>4 DEF s, a

\* Freeing the segment that moved loses no identifier: nodo already has it.
LEMMA MudadaConserva ==
  ASSUME TypeOK, CursorValido, Mudado, fase = "consumir", segs[nodo].res = 1,
         NEW u, Len(u) = Len(segs), u[ocupado].res = 0,
         siguiente # ocupado => u[siguiente].res = 0,
         \A j \in 1..Len(segs) : j \notin {siguiente, ocupado} => u[j] = segs[j]
  PROVE  Conserva(segs, u)
<1>1. /\ nodo \in 1..Len(segs) /\ siguiente \in 1..Len(segs) /\ ocupado \in 1..Len(segs)
      /\ nodo # siguiente /\ nodo # ocupado /\ nodo < siguiente /\ siguiente <= ocupado
  BY PosicionesTipo
<1>2. \A i \in 1..Len(segs) : segs[i].size \in Nat
  BY CamposTipo DEF TypeOK
<1>3. u[nodo] = segs[nodo]
  BY <1>1
<1>4. siguiente # ocupado => segs[siguiente].res = 0
  BY <1>1 DEF Mudado
<1>5. ASSUME NEW i \in 1..Len(segs), segs[i].res = 1
      PROVE  \E j \in 1..Len(u) :
               /\ u[j].res = 1 /\ u[j].pid = segs[i].pid
               /\ u[j].base = segs[i].base /\ u[j].size >= segs[i].size
  <2>1. CASE i = ocupado
    <3>1. /\ segs[nodo].pid = segs[i].pid /\ segs[nodo].base = segs[i].base
          /\ segs[nodo].size >= segs[i].size
      BY <1>2, <2>1 DEF Mudado
    <3>. QED  BY <1>1, <1>3, <3>1
  <2>2. CASE i # ocupado
    <3>1. i # siguiente
      BY <1>4, <1>5, <2>2
    <3>2. u[i] = segs[i] /\ segs[i].size >= segs[i].size
      BY <1>2, <2>2, <3>1
    <3>. QED  BY <1>5, <3>2
  <2>. QED  BY <2>1, <2>2
<1>6. ASSUME NEW j \in 1..Len(u), u[j].res = 1
      PROVE  \E i \in 1..Len(segs) : /\ segs[i].res = 1 /\ segs[i].pid = u[j].pid
                                     /\ segs[i].base = u[j].base
  <2>1. j \notin {siguiente, ocupado} /\ j \in 1..Len(segs)
    BY <1>6
  <2>. QED  BY <1>6, <2>1
<1>. QED  BY <1>5, <1>6 DEF Conserva

\* Once the enlarged hole has all its bytes, the programs see nothing.
LEMMA RecortaConserva ==
  ASSUME TypeOK, CursorValido, Mudado, Teselado, RecortaSiguiente
  PROVE  Conserva(segs, segs')
<1>1. fase = "consumir"
  BY DEF RecortaSiguiente
<1>2. nodo \in 1..Len(segs) /\ siguiente \in 1..Len(segs) /\ ocupado \in 1..Len(segs)
      /\ nodo < siguiente /\ siguiente <= ocupado
  BY <1>1, PosicionesTipo
<1>3. segs[nodo].res = 1
  BY <1>1, <1>2 DEF Teselado, TeselaConsumir
<1>4. siguiente # ocupado => segs[siguiente].res = 0
  BY <1>1, <1>2 DEF Mudado
<1>5. siguiente # ocupado => segs'[siguiente].res = 0
  BY <1>4, RecortaDueno
<1>. QED  BY <1>1, <1>3, <1>5, RecortaDueno, MudadaConserva

\* A hole consumed whole is a hole.
LEMMA ConsumeConserva ==
  ASSUME TypeOK, CursorValido, Mudado, Teselado, SigueConsumiendo, desvio' = 0
  PROVE  /\ segs' = QuitaPos(segs, nodo + 1) /\ nodo + 1 \in 1..Len(segs)
         /\ nodo' = nodo /\ siguiente' = nodo + 1 /\ ocupado' = ocupado - 1
         /\ segs[nodo + 1].res = 0 /\ nodo + 1 < ocupado
         /\ Conserva(segs, segs')
<1>1. fase = "consumir"
  BY DEF SigueConsumiendo
<1>2. /\ segs \in Seq(Segmento) /\ nodo \in 1..Len(segs) /\ ocupado \in 1..Len(segs)
      /\ nodo + 1 \in 1..Len(segs)
  BY <1>1, PosicionesTipo
<1>3. PICK m \in 1..(nodo + 1) :
        /\ siguiente < ocupado /\ segs' = QuitaPos(segs, m)
        /\ nodo' = Baja(nodo, m) /\ siguiente' = Baja(nodo + 2, m)
        /\ ocupado' = Baja(ocupado, m) /\ m = nodo + 1
  BY EfectoConsumir
<1>4. siguiente = nodo + 1
  BY <1>1 DEF Teselado, TeselaConsumir
<1>5. segs[nodo + 1].res = 0
  BY <1>1, <1>2, <1>3, <1>4 DEF Mudado
<1>6. nodo' = nodo /\ siguiente' = nodo + 1 /\ ocupado' = ocupado - 1
  BY <1>2, <1>3, <1>4 DEF Baja
<1>7. Conserva(segs, segs')
  BY <1>2, <1>3, <1>5, QuitaConserva
<1>. QED  BY <1>2, <1>3, <1>4, <1>5, <1>6, <1>7

\* The exact fit frees the segment that moved and takes the hole away.
LEMMA ExactoConserva ==
  ASSUME TypeOK, CursorValido, Mudado, Teselado, ConsumeExacto, desvio' = 0
  PROVE  LET s == [segs EXCEPT ![ocupado] = Liberado(segs[ocupado])]
         IN  /\ segs' = QuitaPos(s, siguiente) /\ siguiente \in 1..Len(s)
             /\ Conserva(segs, segs')
<1> DEFINE s == [segs EXCEPT ![ocupado] = Liberado(segs[ocupado])]
<1>1. fase = "consumir"
  BY DEF ConsumeExacto
<1>2. /\ segs \in Seq(Segmento) /\ nodo \in 1..Len(segs) /\ ocupado \in 1..Len(segs)
      /\ siguiente \in 1..Len(segs) /\ nodo < siguiente /\ siguiente <= ocupado
  BY <1>1, PosicionesTipo
<1>3. segs' = QuitaPos(s, siguiente)
  <2>1. \/ \E m \in DOMAIN segs : /\ segs' = QuitaPos(s, m)
                                  /\ desvio' = (IF m = siguiente THEN desvio ELSE 1)
        \/ desvio' = 1
    BY DEF ConsumeExacto
  <2> HIDE DEF s
  <2>. QED  BY <2>1
<1>4. segs[nodo].res = 1
  BY <1>1, <1>2 DEF Teselado, TeselaConsumir
<1>5. siguiente # ocupado => segs[siguiente].res = 0
  BY <1>1, <1>2 DEF Mudado
<1>6. /\ s \in Seq(Segmento) /\ Len(s) = Len(segs)
      /\ s[ocupado].res = 0
      /\ \A j \in 1..Len(segs) : j # ocupado => s[j] = segs[j]
  BY <1>1, LiberaDueno
<1> HIDE DEF s
<1>7. siguiente # ocupado => s[siguiente].res = 0
  BY <1>2, <1>5, <1>6
<1>8. Conserva(segs, s)
  BY <1>1, <1>4, <1>6, <1>7, MudadaConserva
<1>9. s[siguiente].res = 0 /\ siguiente \in 1..Len(s)
  BY <1>2, <1>6, <1>7
<1>10. Conserva(s, segs')
  BY <1>3, <1>6, <1>9, QuitaConserva
<1>11. segs' \in Seq(Segmento)
  BY <1>3, <1>6, <1>9, QuitaPosTipo
<1>12. Medida(segs) /\ Medida(s) /\ Medida(segs')
  BY <1>2, <1>6, <1>11, CamposTipo DEF Medida
<1>13. Conserva(segs, segs')
  BY <1>8, <1>10, <1>12, DobleConserva
<1>. QED  BY <1>3, <1>9, <1>13 DEF s

\* Nobody has asked for 0 bytes.
SinVacios ==
  /\ \A k \in 1..Len(segs) : segs[k].size > 0
  /\ fase = "crear" => pedido.tam > 0

\* Every node of u is as high over its place as some node of the list was, and
\* none is empty if none was.
Hereda(u) ==
  \A j \in 1..Len(u) :
    /\ \E i \in 1..Len(segs) :
         segs[i].base >= segs[i].mem => u[j].base >= u[j].mem
    /\ SinVacios => u[j].size > 0

\* The nodes of u are nodes of the list.
LEMMA PartesHereda ==
  ASSUME NEW u, \A j \in 1..Len(u) : \E i \in 1..Len(segs) : u[j] = segs[i]
  PROVE  Hereda(u)
<1>1. ASSUME NEW j \in 1..Len(u)
      PROVE  /\ \E i \in 1..Len(segs) :
                  segs[i].base >= segs[i].mem => u[j].base >= u[j].mem
             /\ SinVacios => u[j].size > 0
  <2>1. PICK i \in 1..Len(segs) : u[j] = segs[i]
    OBVIOUS
  <2>2. SinVacios => segs[i].size > 0
    BY DEF SinVacios
  <2>. QED  BY <2>1, <2>2
<1>. QED  BY <1>1 DEF Hereda

\* The nodes of a list without one of them.
LEMMA QuitaPartes ==
  ASSUME NEW s \in Seq(Segmento), NEW m \in 1..Len(s),
         NEW j \in 1..Len(QuitaPos(s, m))
  PROVE  \E i \in 1..Len(s) : QuitaPos(s, m)[j] = s[i]
<1> DEFINE u == QuitaPos(s, m)
<1>1. /\ Len(u) = Len(s) - 1 /\ Len(s) \in Nat
      /\ \A k \in 1..(Len(s) - 1) : u[k] = IF k < m THEN s[k] ELSE s[k + 1]
  BY QuitaPosTipo
<1> HIDE DEF u
<1>2. j \in 1..(Len(s) - 1) /\ j \in 1..Len(s) /\ j + 1 \in 1..Len(s)
  BY <1>1 DEF u
<1>3. \E i \in 1..Len(s) : u[j] = s[i]
  BY <1>1, <1>2
<1>. QED  BY <1>3 DEF u

\* Those of a list with one more.
LEMMA InsertaPartes ==
  ASSUME NEW s \in Seq(Segmento), NEW k \in 1..Len(s), NEW e \in Segmento,
         NEW j \in 1..Len(InsertaDespues(s, k, e))
  PROVE  \/ InsertaDespues(s, k, e)[j] = e
         \/ \E i \in 1..Len(s) : InsertaDespues(s, k, e)[j] = s[i]
<1> DEFINE u == InsertaDespues(s, k, e)
<1>1. /\ Len(u) = Len(s) + 1 /\ Len(s) \in Nat
      /\ \A i \in 1..(Len(s) + 1) :
           u[i] = IF i <= k THEN s[i] ELSE IF i = k + 1 THEN e ELSE s[i - 1]
  <2>1. /\ Len(InsertaDespues(s, k, e)) = Len(s) + 1
        /\ \A i \in 1..(Len(s) + 1) : InsertaDespues(s, k, e)[i] =
             IF i <= k THEN s[i] ELSE IF i = k + 1 THEN e ELSE s[i - 1]
    BY InsertaDespuesTipo
  <2>. QED  BY <2>1
<1> HIDE DEF u
<1>2. j \in 1..(Len(s) + 1)
  BY <1>1 DEF u
<1>3. u[j] = e \/ \E i \in 1..Len(s) : u[j] = s[i]
  <2>1. CASE j <= k
    BY <1>1, <1>2, <2>1
  <2>2. CASE j = k + 1
    BY <1>1, <1>2, <2>2
  <2>3. CASE ~(j <= k) /\ j # k + 1
    <3>1. j - 1 \in 1..Len(s) /\ u[j] = s[j - 1]
      BY <1>1, <1>2, <2>3
    <3>. QED  BY <3>1
  <2>. QED  BY <2>1, <2>2, <2>3
<1>. QED  BY <1>3 DEF u

\* crearSegmento in a hole: both pieces start where the hole says.
LEMMA OcupaHereda ==
  ASSUME TypeOK, NEW k \in DOMAIN segs, NEW p \in Pids \cup {SinPid}, NEW t \in Nat,
         segs[k].size >= t, SinVacios => t > 0
  PROVE  Hereda(Ocupa(k, p, t))
<1> DEFINE h == segs[k]
           e == Reservado(p, h.base, h.mem, t)
           s == [segs EXCEPT ![k] = e]
           f == Hueco(h.base + t, h.mem + t, h.size - t)
<1>1. segs \in Seq(Segmento) /\ k \in 1..Len(segs)
  BY DEF TypeOK
<1>2. h.base \in Int /\ h.mem \in Int /\ h.size \in Nat /\ h.size >= t
  BY <1>1, CamposTipo
<1>3. e \in Segmento /\ e.base = h.base /\ e.mem = h.mem /\ e.size = t
  BY <1>2, ReservadoTipo
<1>4. /\ s \in Seq(Segmento) /\ Len(s) = Len(segs)
      /\ \A j \in 1..Len(segs) : s[j] = IF j = k THEN e ELSE segs[j]
  <2>. HIDE DEF e, h
  <2>. QED  BY <1>1, <1>3, CambiaTipo
<1>5. \A j \in 1..Len(segs) : /\ segs[j].base >= segs[j].mem => s[j].base >= s[j].mem
                              /\ SinVacios => s[j].size > 0
  <2>1. \A j \in 1..Len(segs) : SinVacios => segs[j].size > 0
    BY DEF SinVacios
  <2>. HIDE DEF s, e
  <2>. QED  BY <1>3, <1>4, <2>1
<1>6. CASE h.size > t
  <2>1. /\ f \in Segmento /\ f.base = h.base + t /\ f.mem = h.mem + t
        /\ f.size = h.size - t
    <3>1. h.base + t \in Int /\ h.mem + t \in Int /\ h.size - t \in Nat
      BY <1>2
    <3>. QED  BY <3>1, HuecoEsSegmento
  <2>2. f.size > 0 /\ (h.base >= h.mem => f.base >= f.mem)
    BY <1>2, <1>6, <2>1
  <2> DEFINE u == InsertaDespues(s, k, f)
  <2>3. f \in Segmento /\ k \in 1..Len(s)
    BY <1>1, <1>4, <2>1
  <2>. HIDE DEF s, f
  <2>4. \A j \in 1..Len(u) : u[j] = f \/ \E i \in 1..Len(s) : u[j] = s[i]
    BY <1>4, <2>3, InsertaPartes
  <2>. HIDE DEF u
  <2>5. ASSUME NEW j \in 1..Len(u)
        PROVE  /\ \E i \in 1..Len(segs) :
                    segs[i].base >= segs[i].mem => u[j].base >= u[j].mem
               /\ SinVacios => u[j].size > 0
    <3>1. CASE u[j] = f
      BY <1>1, <2>2, <3>1
    <3>2. CASE \E i \in 1..Len(s) : u[j] = s[i]
      BY <1>4, <1>5, <3>2
    <3>. QED  BY <2>4, <3>1, <3>2
  <2>6. Hereda(u)
    BY <2>5 DEF Hereda
  <2>. QED  BY <1>6, <2>6 DEF Ocupa, s, f, u, h
<1>7. CASE ~(h.size > t)
  <2>1. Hereda(s)
    <3>. HIDE DEF s
    <3>. QED  BY <1>4, <1>5 DEF Hereda
  <2>. QED  BY <1>7, <2>1 DEF Ocupa
<1>. QED  BY <1>6, <1>7

\* crearSegmento after the last segment.
LEMMA AlFinalHereda ==
  ASSUME TypeOK, CreaAlFinal
  PROVE  Hereda(segs')
<1> DEFINE e == AlFinal(pedido.pid, pedido.tam)
           n == Len(segs)
<1>1. segs' = Append(segs, e) /\ fase = "crear" /\ segs # <<>>
  BY DEF CreaAlFinal
<1>2. segs \in Seq(Segmento) /\ n \in Nat /\ n \in 1..Len(segs)
  BY <1>1 DEF TypeOK
<1>3. segs[n].base \in Int /\ segs[n].mem \in Int /\ segs[n].size \in Nat
  BY <1>2, CamposTipo
<1>4. /\ e.base = segs[n].base + segs[n].size /\ e.mem = segs[n].mem + segs[n].size
      /\ e.size = pedido.tam
  BY <1>1 DEF AlFinal, Reservado
<1>5. (segs[n].base >= segs[n].mem => e.base >= e.mem) /\ (SinVacios => e.size > 0)
  <2>1. segs[n].base >= segs[n].mem => e.base >= e.mem
    BY <1>3, <1>4
  <2>. QED  BY <1>1, <1>4, <2>1 DEF SinVacios
<1> HIDE DEF e
<1>6. /\ Len(segs') = n + 1 /\ segs'[n + 1] = e
      /\ \A j \in 1..n : segs'[j] = segs[j]
  BY <1>1, <1>2
<1>7. ASSUME NEW j \in 1..Len(segs')
      PROVE  /\ \E i \in 1..Len(segs) :
                  segs[i].base >= segs[i].mem => segs'[j].base >= segs'[j].mem
             /\ SinVacios => segs'[j].size > 0
  <2>1. CASE j = n + 1
    BY <1>2, <1>5, <1>6, <2>1
  <2>2. CASE j # n + 1
    <3>1. j \in 1..Len(segs) /\ segs'[j] = segs[j]
      BY <1>2, <1>6, <2>2
    <3>2. SinVacios => segs[j].size > 0
      BY <3>1 DEF SinVacios
    <3>. QED  BY <3>1, <3>2
  <2>. QED  BY <2>1, <2>2
<1>. QED  BY <1>7 DEF Hereda

\* A hole filled: the segment comes down, and keeps its posInicial.
LEMMA PasaHereda ==
  ASSUME TypeOK, TypeOK', Ordenados(segs), NEW r, Pasada(r)
  PROVE  Hereda(segs')
<1>1. /\ segs \in Seq(Segmento) /\ segs' \in Seq(Segmento) /\ Len(segs') = Len(segs)
      /\ nodo \in 1..Len(segs) /\ r \in 1..Len(segs) /\ nodo < r
  BY DEF TypeOK, Pasada
<1>2. /\ segs[nodo].mem \in Int /\ segs[nodo].size \in Nat /\ segs[r].mem \in Int
      /\ segs[r].base \in Int /\ segs[r].size \in Nat /\ segs'[nodo].size \in Nat
  BY <1>1, CamposTipo
<1>3. segs[nodo].mem + segs[nodo].size <= segs[r].mem
  BY <1>1 DEF Ordenados
<1>4. SinVacios => segs[r].size > 0 /\ segs[nodo].size > 0
  BY <1>1 DEF SinVacios
<1>5. ASSUME NEW j \in 1..Len(segs')
      PROVE  /\ \E i \in 1..Len(segs) :
                  segs[i].base >= segs[i].mem => segs'[j].base >= segs'[j].mem
             /\ SinVacios => segs'[j].size > 0
  <2>1. CASE j = nodo
    <3>1. /\ segs'[nodo].base = segs[r].base /\ segs'[nodo].mem = segs[nodo].mem
          /\ segs'[nodo].size >= segs[r].size
      BY DEF Pasada
    <3>2. segs[r].base >= segs[r].mem => segs'[nodo].base >= segs'[nodo].mem
      <4>1. PICK m \in Int, n \in Nat, q \in Int, b \in Int :
              /\ m = segs[nodo].mem /\ n = segs[nodo].size
              /\ q = segs[r].mem /\ b = segs[r].base
        BY <1>2
      <4>2. m + n <= q
        BY <1>3, <4>1
      <4>3. b >= q => b >= m
        BY <4>2
      <4>. QED  BY <3>1, <4>1, <4>3
    <3>3. SinVacios => segs'[nodo].size > 0
      BY <1>2, <1>4, <3>1
    <3>. QED  BY <1>1, <2>1, <3>2, <3>3
  <2>2. CASE j # nodo
    <3>1. j \in 1..Len(segs)
      BY <1>1
    <3>2. \/ segs'[j] = segs[j]
          \/ Retirada(segs[j], segs'[j], segs[nodo].size > 0)
      BY <2>2, <3>1 DEF Pasada
    <3>3. SinVacios => segs[j].size > 0
      BY <3>1 DEF SinVacios
    <3>. QED  BY <1>4, <3>1, <3>2, <3>3 DEF Retirada
  <2>. QED  BY <2>1, <2>2
<1>. QED  BY <1>5 DEF Hereda

\* The hole that takes the size of the segment.
LEMMA AgrandaHereda ==
  ASSUME TypeOK, TypeOK', CursorValido, Ordenados(segs),
         NEW r \in DOMAIN segs, AgrandaHueco(r)
  PROVE  Hereda(segs')
<1>1. /\ segs \in Seq(Segmento) /\ nodo \in 1..Len(segs) /\ r \in 1..Len(segs)
      /\ nodo < r
  BY HuecoDueno DEF AgrandaHueco
<1>2. /\ segs[nodo].mem \in Int /\ segs[nodo].size \in Nat /\ segs[r].mem \in Int
      /\ segs[r].base \in Int /\ segs[r].size \in Nat
  BY <1>1, CamposTipo
<1>3. segs[nodo].mem + segs[nodo].size <= segs[r].mem
  BY <1>1 DEF Ordenados
<1>4. Len(segs') = Len(segs)
  BY EfectoAgrandar
<1>5. \A j \in 1..Len(segs) : SinVacios => segs[j].size > 0
  BY DEF SinVacios
<1>6. ASSUME NEW j \in 1..Len(segs')
      PROVE  /\ \E i \in 1..Len(segs) :
                  segs[i].base >= segs[i].mem => segs'[j].base >= segs'[j].mem
             /\ SinVacios => segs'[j].size > 0
  <2>1. CASE j = nodo
    <3>1. /\ segs'[nodo].base = segs[r].base /\ segs'[nodo].mem = segs[nodo].mem
          /\ segs'[nodo].size = segs[r].size
      BY AgrandaDueno
    <3>2. segs[r].base >= segs[r].mem => segs'[nodo].base >= segs'[nodo].mem
      BY <1>2, <1>3, <3>1
    <3>. QED  BY <1>1, <1>5, <2>1, <3>1, <3>2
  <2>2. CASE j # nodo
    <3>1. j \in 1..Len(segs) /\ segs'[j] = segs[j]
      BY <1>4, <2>2, AgrandaDueno
    <3>. QED  BY <1>5, <3>1
  <2>. QED  BY <2>1, <2>2
<1>. QED  BY <1>6 DEF Hereda

\* The steps that consume holes, free programs and delete nodes.
LEMMA RecortaHereda ==
  ASSUME TypeOK, CursorValido, RecortaSiguiente
  PROVE  Hereda(segs')
<1>1. \A j \in 1..Len(segs) : SinVacios => segs[j].size > 0
  BY DEF SinVacios
<1>2. /\ Len(segs') = Len(segs)
      /\ \A j \in 1..Len(segs) :
           /\ segs[j].base >= segs[j].mem => segs'[j].base >= segs'[j].mem
           /\ segs[j].size > 0 => segs'[j].size > 0
  BY RecortaDueno
<1>. QED  BY <1>1, <1>2 DEF Hereda

\* Removing a node of the list, whichever.
LEMMA QuitaHereda ==
  ASSUME TypeOK, NEW m \in DOMAIN segs, segs' = QuitaPos(segs, m)
  PROVE  Hereda(segs')
<1>1. segs \in Seq(Segmento) /\ m \in 1..Len(segs)
  BY DEF TypeOK
<1>2. \A j \in 1..Len(segs') : \E i \in 1..Len(segs) : segs'[j] = segs[i]
  BY <1>1, QuitaPartes
<1>. QED  BY <1>2, PartesHereda

\* The exact fit frees the segment that moved and removes a node.
LEMMA ExactoHereda ==
  ASSUME TypeOK, CursorValido, Mudado, Teselado, ConsumeExacto, desvio' = 0
  PROVE  Hereda(segs')
<1> DEFINE s == [segs EXCEPT ![ocupado] = Liberado(segs[ocupado])]
<1>1. fase = "consumir"
  BY DEF ConsumeExacto
<1>2. segs' = QuitaPos(s, siguiente) /\ siguiente \in 1..Len(s)
  BY ExactoConserva
<1>3. /\ s \in Seq(Segmento) /\ Len(s) = Len(segs)
      /\ \A j \in 1..Len(segs) :
           /\ segs[j].base >= segs[j].mem => s[j].base >= s[j].mem
           /\ segs[j].size > 0 => s[j].size > 0
  BY <1>1, LiberaDueno
<1> HIDE DEF s
<1>4. \A j \in 1..Len(segs') : \E i \in 1..Len(s) : segs'[j] = s[i]
  BY <1>2, <1>3, QuitaPartes
<1>5. \A j \in 1..Len(segs) : SinVacios => segs[j].size > 0
  BY DEF SinVacios
<1>6. ASSUME NEW j \in 1..Len(segs')
      PROVE  /\ \E i \in 1..Len(segs) :
                  segs[i].base >= segs[i].mem => segs'[j].base >= segs'[j].mem
             /\ SinVacios => segs'[j].size > 0
  <2>1. PICK i \in 1..Len(segs) : segs'[j] = s[i]
    BY <1>3, <1>4
  <2>. QED  BY <1>3, <1>5, <2>1
<1>. QED  BY <1>6 DEF Hereda

\* destruirSegmento frees in place.
LEMMA DestruyeHereda ==
  ASSUME TypeOK, NEW p \in Pids, DestruyeSegmentos(p)
  PROVE  Hereda(segs')
<1>1. segs \in Seq(Segmento) /\ DOMAIN segs = 1..Len(segs) /\ Len(segs) \in Nat
  BY DEF TypeOK
<1>2. segs' = [k \in DOMAIN segs |->
                 IF segs[k].pid = p THEN Liberado(segs[k]) ELSE segs[k]]
  BY DEF DestruyeSegmentos
<1>3. Len(segs') = Len(segs)
  BY <1>1, <1>2
<1>4. ASSUME NEW j \in 1..Len(segs')
      PROVE  /\ \E i \in 1..Len(segs) :
                  segs[i].base >= segs[i].mem => segs'[j].base >= segs'[j].mem
             /\ SinVacios => segs'[j].size > 0
  <2>1. j \in 1..Len(segs)
    BY <1>3
  <2>2. segs'[j] = IF segs[j].pid = p THEN Liberado(segs[j]) ELSE segs[j]
    BY <1>1, <1>2, <2>1
  <2>3. segs[j] \in Segmento
    BY <1>1, <2>1
  <2>4. segs'[j].base = segs[j].base /\ segs'[j].mem = segs[j].mem
        /\ segs'[j].size = segs[j].size
    BY <2>2, <2>3, LiberadoTipo
  <2>5. SinVacios => segs[j].size > 0
    BY <2>1 DEF SinVacios
  <2>. QED  BY <2>1, <2>4, <2>5
<1>. QED  BY <1>4 DEF Hereda

\* A step that leaves the list alone.
LEMMA IgualHereda ==
  ASSUME segs' = segs
  PROVE  Hereda(segs')
<1>1. \A j \in 1..Len(segs') : \E i \in 1..Len(segs) : segs'[j] = segs[i]
  OBVIOUS
<1>. QED  BY <1>1, PartesHereda

\* On the sound path every step but the first creation inherits.
LEMMA HeredaPaso ==
  ASSUME TypeOK, TypeOK', CursorValido, Mudado, Teselado, [Next]_vars,
         desvio' = 0, ~CreaPrimero
  PROVE  Hereda(segs')
<1>1. CASE CreaEnHueco
  <2>1. PICK k \in Elegibles(pedido.tam) : segs' = Ocupa(k, pedido.pid, pedido.tam)
    BY <1>1 DEF CreaEnHueco
  <2>2. k \in DOMAIN segs /\ segs[k].size >= pedido.tam
    BY DEF Elegibles, HuecosPara
  <2>3. pedido.pid \in Pids \cup {SinPid} /\ pedido.tam \in Nat
    BY DEF TypeOK
  <2>4. SinVacios => pedido.tam > 0
    BY <1>1 DEF SinVacios, CreaEnHueco
  <2>5. Hereda(Ocupa(k, pedido.pid, pedido.tam))
    BY <2>2, <2>3, <2>4, OcupaHereda
  <2>. QED  BY <2>1, <2>5
<1>2. CASE CreaAlFinal
  BY <1>2, AlFinalHereda
<1>3. ASSUME NEW p \in Pids, DestruyeSegmentos(p)
      PROVE  Hereda(segs')
  BY <1>3, DestruyeHereda
<1>4. CASE Mueve
  <2>1. fase = "compactar"
    BY <1>4 DEF Mueve, MueveAMayor, MueveAMenor, MueveAIgual, MueveSeparado, HuecoPara
  <2>2. Ordenados(segs)
    BY <2>1 DEF Teselado, TeselaCompactar, TeselaEntera
  <2>3. PICK r \in 1..Len(segs) : Pasada(r)
    BY <1>4, MuevePasa
  <2>. QED  BY <2>2, <2>3, PasaHereda
<1>5. ASSUME NEW r \in DOMAIN segs, AgrandaHueco(r)
      PROVE  Hereda(segs')
  <2>1. fase = "compactar"
    BY <1>5 DEF AgrandaHueco, HuecoPara
  <2>2. Ordenados(segs)
    BY <2>1 DEF Teselado, TeselaCompactar, TeselaEntera
  <2>. QED  BY <1>5, <2>2, AgrandaHereda
<1>6. CASE RecortaSiguiente
  BY <1>6, RecortaHereda
<1>7. CASE ConsumeSiguiente
  BY <1>7, QuitaHereda DEF ConsumeSiguiente, SigueConsumiendo, SeAgota
<1>8. CASE ConsumeExacto
  BY <1>8, ExactoHereda
<1>9. CASE BorraSegmento
  BY <1>9, QuitaHereda DEF BorraSegmento
<1>10. ASSUME NEW p \in Pids, NEW t \in Tamanios, PideSegmento(p, t)
       PROVE  Hereda(segs')
  BY <1>10, IgualHereda DEF PideSegmento, memoria
<1>11. ASSUME NEW a \in Algoritmos, CambiaAlgoritmo(a)
       PROVE  Hereda(segs')
  BY <1>11, IgualHereda DEF CambiaAlgoritmo, memoria
<1>12. CASE \/ MandaCompactar \/ SinLugar \/ CaeWorstFit \/ ConsolaCompacta
            \/ SaltaReservado \/ NadaQueMover \/ DevuelveMemoria \/ TerminaDevolver
            \/ TerminaCompactacion \/ UNCHANGED vars
  BY <1>12, IgualHereda DEF MandaCompactar, SinLugar, CaeWorstFit, ConsolaCompacta,
     SaltaReservado, NadaQueMover, DevuelveMemoria, TerminaDevolver,
     TerminaCompactacion, memoria, vars
<1>. QED
  BY <1>1, <1>2, <1>3, <1>4, <1>5, <1>6, <1>7, <1>8, <1>9, <1>10, <1>11, <1>12
     DEF Next, Crear, Compactar, Mueve

\* Only two kinds of steps lead to the consumption of holes.
LEMMA MudadoPaso ==
  ASSUME TypeOK, CursorValido, Mudado, Teselado, [Next]_vars, desvio' = 0
  PROVE  Mudado'
<1>1. ASSUME NEW r \in DOMAIN segs, AgrandaHueco(r)
      PROVE  Mudado'
  <2>1. /\ nodo \in 1..Len(segs) /\ r \in 1..Len(segs) /\ nodo < r
        /\ \A j \in 1..Len(segs) : (nodo < j /\ j < r) => segs[j].res = 0
    BY <1>1, HuecoDueno DEF AgrandaHueco
  <2>2. nodo' = nodo /\ ocupado' = r
    BY <1>1 DEF AgrandaHueco
  <2>3. Len(segs') = Len(segs)
    BY <1>1, EfectoAgrandar
  <2>4. \A j \in 1..Len(segs) : j # nodo => segs'[j] = segs[j]
    BY <1>1, AgrandaDueno
  <2>5. segs'[r] = segs[r]
    BY <2>1, <2>4
  <2>6. /\ segs'[nodo].pid = segs'[r].pid /\ segs'[nodo].base = segs'[r].base
        /\ segs'[nodo].size = segs'[r].size
    BY <1>1, <2>5, AgrandaDueno
  <2>7. \A j \in 1..Len(segs') : (nodo < j /\ j < r) => segs'[j].res = 0
    BY <2>1, <2>3, <2>4
  <2>. QED  BY <2>2, <2>6, <2>7 DEF Mudado
<1>2. CASE SigueConsumiendo
  <2>1. fase = "consumir"
    BY <1>2 DEF SigueConsumiendo
  <2>2. /\ segs \in Seq(Segmento) /\ nodo \in 1..Len(segs) /\ ocupado \in 1..Len(segs)
    BY <2>1, PosicionesTipo
  <2>3. /\ segs' = QuitaPos(segs, nodo + 1) /\ nodo + 1 \in 1..Len(segs)
        /\ nodo' = nodo /\ ocupado' = ocupado - 1 /\ nodo + 1 < ocupado
    BY <1>2, ConsumeConserva
  <2>4. /\ Len(segs') = Len(segs) - 1
        /\ \A j \in 1..(Len(segs) - 1) :
             segs'[j] = IF j < nodo + 1 THEN segs[j] ELSE segs[j + 1]
    BY <2>2, <2>3, QuitaPosTipo
  <2>5. /\ nodo \in 1..(Len(segs) - 1) /\ nodo < nodo + 1
        /\ ocupado - 1 \in 1..(Len(segs) - 1) /\ ~(ocupado - 1 < nodo + 1)
        /\ (ocupado - 1) + 1 = ocupado
    BY <2>2, <2>3
  <2>6. segs'[nodo] = segs[nodo] /\ segs'[ocupado - 1] = segs[ocupado]
    BY <2>4, <2>5
  <2>7. ASSUME NEW j \in 1..Len(segs'), nodo < j, j < ocupado - 1
        PROVE  segs'[j].res = 0
    <3>1. /\ j \in 1..(Len(segs) - 1) /\ ~(j < nodo + 1) /\ j + 1 \in 1..Len(segs)
          /\ nodo < j + 1 /\ j + 1 < ocupado
      BY <2>2, <2>4, <2>7
    <3>. QED  BY <2>1, <2>4, <3>1 DEF Mudado
  <2>. QED  BY <2>1, <2>3, <2>6, <2>7 DEF Mudado
<1>3. CASE fase' = fase /\ segs' = segs /\ nodo' = nodo /\ ocupado' = ocupado
  BY <1>3 DEF Mudado
<1>4. CASE fase' # "consumir"
  BY <1>4 DEF Mudado
<1>5. \/ fase' # "consumir" \/ SigueConsumiendo
      \/ \E r \in DOMAIN segs : AgrandaHueco(r)
      \/ fase' = fase /\ segs' = segs /\ nodo' = nodo /\ ocupado' = ocupado
  BY DEF Next, Crear, Compactar, vars, memoria, cursor, PideSegmento, CreaPrimero,
         CreaEnHueco, CreaAlFinal, MandaCompactar, SinLugar, CaeWorstFit, Responde,
         DestruyeSegmentos, CambiaAlgoritmo, ConsolaCompacta, SaltaReservado,
         NadaQueMover, MueveAMayor, MueveAMenor, MueveAIgual, MueveSeparado,
         SoloMueve, RecortaSiguiente, ConsumeSiguiente, SeAgota, ConsumeExacto, PasaAlSiguiente,
         DevuelveMemoria, TerminaDevolver, BorraSegmento, TerminaCompactacion
<1>. QED  BY <1>1, <1>2, <1>3, <1>4, <1>5

\* posInicial never falls behind the place of its segment.
LEMMA AltasPaso ==
  ASSUME TypeOK, TypeOK', CursorValido, Mudado, Teselado, Altas, [Next]_vars,
         desvio' = 0
  PROVE  Altas'
<1>1. CASE CreaPrimero
  <2>1. Len(segs') = 1 /\ segs'[1].base = 0 /\ segs'[1].mem = 0
    BY <1>1 DEF CreaPrimero, AlFinal, Reservado
  <2>. QED  BY <2>1 DEF Altas
<1>2. CASE ~CreaPrimero
  <2>1. Hereda(segs')
    BY <1>2, HeredaPaso
  <2>2. ASSUME NEW j \in 1..Len(segs')
        PROVE  segs'[j].base >= segs'[j].mem
    BY <2>1, <2>2 DEF Hereda, Altas
  <2>. QED  BY <2>2 DEF Altas
<1>. QED  BY <1>1, <1>2

\* With these two, the invariant of the identities.
LEMMA Identidad == Spec => [](InvMemoria /\ InvIdentidad)
<1>1. Init => InvIdentidad
  <2>. SUFFICES ASSUME Init PROVE Mudado /\ Altas
    BY DEF InvIdentidad
  <2>. QED  BY DEF Init, Mudado, Altas
<1>2. ASSUME InvMemoria, InvMemoria', InvIdentidad, [Next]_vars
      PROVE  InvIdentidad'
  <2>. SUFFICES ASSUME desvio' = 0 PROVE Mudado' /\ Altas'
    BY DEF InvIdentidad
  <2>1. TypeOK /\ CursorValido /\ TypeOK'
    BY <1>2 DEF InvMemoria
  <2>2. desvio = 0
    BY <1>2, <2>1, DesvioPaso
  <2>3. Teselado /\ Mudado /\ Altas
    BY <1>2, <2>2 DEF InvMemoria, InvIdentidad
  <2>. QED  BY <1>2, <2>1, <2>3, MudadoPaso, AltasPaso
<1>. QED  BY <1>1, <1>2, Memoria, PTL DEF Spec

\* Every step of a compaction on the sound path keeps the identifiers.
LEMMA ConservaPaso ==
  ASSUME TypeOK, CursorValido, Mudado, Teselado, [Next]_vars, desvio' = 0,
         fase \in FasesCompactacion
  PROVE  Conserva(segs, segs')
<1>1. Medida(segs)
  BY CamposTipo DEF Medida, TypeOK
<1>2. CASE Mueve
  BY <1>1, <1>2, MuevePasa, PasaConserva
<1>3. ASSUME NEW r \in DOMAIN segs, AgrandaHueco(r)
      PROVE  Conserva(segs, segs')
  BY <1>3, AgrandaConserva
<1>4. CASE RecortaSiguiente
  BY <1>4, RecortaConserva
<1>5. CASE ConsumeSiguiente
  BY <1>5, SinDesvioSigue, ConsumeConserva
<1>6. CASE ConsumeExacto
  BY <1>6, ExactoConserva
<1>7. CASE BorraSegmento
  <2>1. PICK m \in DOMAIN segs : segs[m].res = 0 /\ segs' = QuitaPos(segs, m)
    BY <1>7 DEF BorraSegmento
  <2>2. segs \in Seq(Segmento) /\ m \in 1..Len(segs)
    BY DEF TypeOK
  <2>. QED  BY <2>1, <2>2, QuitaConserva
<1>8. CASE segs' = segs
  BY <1>1, <1>8, MismaConserva
<1>9. segs' = segs \/ Mueve \/ (\E r \in DOMAIN segs : AgrandaHueco(r))
      \/ RecortaSiguiente \/ ConsumeSiguiente \/ ConsumeExacto \/ BorraSegmento
  BY DEF Next, Crear, Compactar, Mueve, vars, memoria, PideSegmento, CreaPrimero,
         CreaEnHueco, CreaAlFinal, MandaCompactar, SinLugar, CaeWorstFit,
         DestruyeSegmentos, CambiaAlgoritmo, ConsolaCompacta, SaltaReservado,
         NadaQueMover, DevuelveMemoria, TerminaDevolver, TerminaCompactacion,
         FasesCompactacion
<1>. QED  BY <1>2, <1>3, <1>4, <1>5, <1>6, <1>7, <1>8, <1>9

\* Compaction is invisible to the programs, for every memory, every set of
\* programs and sizes, and every layout of holes: no identifier of a reserved
\* segment appears or disappears while it runs, and no segment loses a byte,
\* until the faulty path of lines 256-287 is taken.
THEOREM CompactaSinPerder == Spec => CompactarConserva
<1> DEFINE conserva ==
             /\ Ids' = Ids
             /\ \A i \in DOMAIN segs : segs[i].res = 1 =>
                  \E j \in DOMAIN segs' : /\ segs'[j].res = 1
                                          /\ segs'[j].pid = segs[i].pid
                                          /\ segs'[j].base = segs[i].base
                                          /\ segs'[j].size >= segs[i].size
<1>1. ASSUME InvMemoria, InvMemoria', InvIdentidad, [Next]_vars,
             fase \in FasesCompactacion, desvio' = 0
      PROVE  conserva
  <2>1. TypeOK /\ TypeOK' /\ CursorValido
    BY <1>1 DEF InvMemoria
  <2>2. desvio = 0
    BY <1>1, <2>1, DesvioPaso
  <2>3. Teselado /\ Mudado
    BY <1>1, <2>2 DEF InvMemoria, InvIdentidad
  <2>4. Conserva(segs, segs')
    BY <1>1, <2>1, <2>3, ConservaPaso
  <2>5. DOMAIN segs = 1..Len(segs) /\ DOMAIN segs' = 1..Len(segs')
    BY <2>1 DEF TypeOK
  <2>6. \A i \in DOMAIN segs : segs[i].res = 1 =>
          \E j \in DOMAIN segs' : /\ segs'[j].res = 1
                                  /\ segs'[j].pid = segs[i].pid
                                  /\ segs'[j].base = segs[i].base
                                  /\ segs'[j].size >= segs[i].size
    BY <2>4, <2>5 DEF Conserva
  <2>7. \A j \in DOMAIN segs' : segs'[j].res = 1 =>
          \E i \in DOMAIN segs : /\ segs[i].res = 1 /\ segs[i].pid = segs'[j].pid
                                 /\ segs[i].base = segs'[j].base
    BY <2>4, <2>5 DEF Conserva
  <2>8. Ids \subseteq Ids'
    BY <2>6 DEF Ids
  <2>9. Ids' \subseteq Ids
    BY <2>7 DEF Ids
  <2>. QED  BY <2>6, <2>8, <2>9
<1>2. InvMemoria /\ InvMemoria' /\ InvIdentidad /\ [Next]_vars
        => [(fase \in FasesCompactacion /\ desvio' = 0) => conserva]_vars
  BY <1>1
<1>. QED  BY <1>2, Identidad, PTL DEF CompactarConserva, Spec

\* What compactacion has passed is reserved, up to the same path: what it
\* gives back to the nodo cero is one block at the end of the list.
THEOREM SinHuecosAtras == Spec => [](desvio = 0 => SinHuecosDetras)
<1>1. InvMemoria => (desvio = 0 => SinHuecosDetras)
  <2>. SUFFICES ASSUME InvMemoria, desvio = 0, fase \in {"compactar", "consumir"},
                       NEW i \in DOMAIN segs, i < nodo
                PROVE  segs[i].res = 1
    BY DEF SinHuecosDetras
  <2>1. Teselado /\ DOMAIN segs = 1..Len(segs) /\ nodo \in Nat
    BY DEF InvMemoria, TypeOK
  <2>2. CASE fase = "compactar"
    BY <2>1, <2>2 DEF Teselado, TeselaCompactar
  <2>3. CASE fase = "consumir"
    BY <2>1, <2>3 DEF Teselado, TeselaConsumir
  <2>. QED  BY <2>2, <2>3
<1>. QED  BY <1>1, Memoria, PTL

-----------------------------------------------------------------------------
(* The node compactacion stands on                                         *)

\* A hole consumed whole is never the node compactacion stands on, whatever
\* path it is on.
LEMMA NodoNoConsumido ==
  ASSUME TypeOK, CursorValido, Ventaja, fase = "consumir",
         segs[siguiente].size < dif
  PROVE  ~EsConsumido(nodo)
<1>1. /\ nodo \in 1..Len(segs) /\ siguiente \in 1..Len(segs) /\ nodo + 1 \in 1..Len(segs)
      /\ segs \in Seq(Segmento) /\ dif \in Nat
  BY PosicionesTipo
<1>2. /\ segs[nodo].size \in Nat /\ segs[nodo + 1].size \in Nat
      /\ segs[siguiente].size \in Nat
  BY <1>1, CamposTipo
<1>3. segs[nodo + 1].size < segs[nodo].size
  <2>1. CASE siguiente = nodo + 1
    <3>1. dif <= segs[nodo].size
      BY DEF Ventaja
    <3>. QED  BY <1>1, <1>2, <2>1, <3>1
  <2>2. CASE siguiente # nodo + 1
    BY <2>2 DEF Ventaja
  <2>. QED  BY <2>1, <2>2
<1>4. segs[nodo].size # segs[nodo + 1].size
  BY <1>2, <1>3
<1>. QED  BY <1>4 DEF EsConsumido

\* Consuming a hole keeps the advantage of the node.
LEMMA VentajaPaso ==
  ASSUME TypeOK, CursorValido, Ventaja, [Next]_vars
  PROVE  Ventaja'
<1>1. ASSUME NEW r \in DOMAIN segs, AgrandaHueco(r)
      PROVE  Ventaja'
  <2>1. segs \in Seq(Segmento) /\ nodo \in 1..Len(segs) /\ r \in 1..Len(segs)
    BY <1>1, HuecoDueno DEF AgrandaHueco
  <2>2. segs[nodo].size \in Nat /\ segs[r].size \in Nat
    BY <2>1, CamposTipo
  <2>3. /\ nodo' = nodo /\ siguiente' = nodo + 1
        /\ dif' = segs[r].size - segs[nodo].size
    BY <1>1 DEF AgrandaHueco
  <2>4. segs'[nodo].size = segs[r].size
    BY <1>1, AgrandaDueno
  <2>5. dif' <= segs'[nodo'].size
    BY <2>2, <2>3, <2>4
  <2>. QED  BY <2>3, <2>5 DEF Ventaja
<1>2. CASE SigueConsumiendo
  <2>1. fase = "consumir" /\ segs[siguiente].size < dif
    BY <1>2 DEF SigueConsumiendo
  <2>2. /\ segs \in Seq(Segmento) /\ nodo \in 1..Len(segs) /\ siguiente \in 1..Len(segs)
        /\ nodo + 1 \in 1..Len(segs) /\ dif \in Nat
    BY <2>1, PosicionesTipo
  <2>3. PICK m \in DOMAIN segs :
          /\ EsConsumido(m) /\ segs' = QuitaPos(segs, m)
          /\ nodo' = Baja(nodo, m) /\ siguiente' = Baja(nodo + 2, m)
          /\ dif' = dif - segs[siguiente].size
    BY <1>2 DEF SigueConsumiendo
  <2>4. m # nodo
    BY <2>1, <2>3, NodoNoConsumido
  <2>5. m \in 1..Len(segs) /\ m <= nodo + 1
    <3>1. m \in 1..Len(segs) /\ m \in Nat /\ nodo \in Nat
      BY <2>2
    <3>2. SUFFICES ASSUME m > nodo + 1 PROVE FALSE
      BY <3>1
    <3>3. nodo + 1 \in 1..(m - 1)
      BY <2>2, <3>1, <3>2
    <3>. QED  BY <2>3, <3>3 DEF EsConsumido
  <2>6. /\ Len(segs') = Len(segs) - 1
        /\ \A j \in 1..(Len(segs) - 1) :
             segs'[j] = IF j < m THEN segs[j] ELSE segs[j + 1]
    BY <2>2, <2>3, <2>5, QuitaPosTipo
  <2>7. /\ segs[siguiente].size \in Nat /\ segs[nodo].size \in Nat
        /\ segs[nodo + 1].size \in Nat
    BY <2>2, CamposTipo
  <2>8. dif <= segs[nodo].size /\ dif' <= segs[nodo].size
    <3>1. dif <= segs[nodo].size
      BY <2>1 DEF Ventaja
    <3>. QED  BY <2>2, <2>3, <2>7, <3>1, SMTT(30)
  <2>9. CASE m = nodo + 1
    <3>1. nodo' = nodo /\ siguiente' = nodo + 1
      BY <2>2, <2>3, <2>9 DEF Baja
    <3>2. segs'[nodo] = segs[nodo]
      BY <2>2, <2>6, <2>9
    <3>. QED  BY <2>8, <3>1, <3>2 DEF Ventaja
  <2>10. CASE m < nodo
    <3>1. nodo' = nodo - 1 /\ siguiente' = nodo + 1
      BY <2>2, <2>3, <2>5, <2>10 DEF Baja
    <3>2. /\ nodo - 1 \in 1..(Len(segs) - 1) /\ ~(nodo - 1 < m) /\ (nodo - 1) + 1 = nodo
          /\ nodo \in 1..(Len(segs) - 1) /\ ~(nodo < m)
      BY <2>2, <2>5, <2>10
    <3>3. segs'[nodo - 1] = segs[nodo] /\ segs'[nodo] = segs[nodo + 1]
      BY <2>6, <3>2
    <3>4. segs[nodo + 1].size < segs[nodo].size
      <4>1. CASE siguiente = nodo + 1
        BY <2>1, <2>2, <2>7, <2>8, <4>1
      <4>2. CASE siguiente # nodo + 1
        BY <2>1, <4>2 DEF Ventaja
      <4>. QED  BY <4>1, <4>2
    <3>5. nodo' + 1 = nodo
      BY <3>1, <3>2
    <3>. QED  BY <2>8, <3>1, <3>3, <3>4, <3>5 DEF Ventaja
  <2>. QED  BY <2>2, <2>4, <2>5, <2>9, <2>10
<1>3. CASE \/ fase' # "consumir"
           \/ /\ fase' = fase /\ segs' = segs /\ nodo' = nodo /\ siguiente' = siguiente
              /\ dif' = dif
  BY <1>3 DEF Ventaja
<1>4. \/ fase' # "consumir" \/ SigueConsumiendo
      \/ \E r \in DOMAIN segs : AgrandaHueco(r)
      \/ /\ fase' = fase /\ segs' = segs /\ nodo' = nodo /\ siguiente' = siguiente
         /\ dif' = dif
  BY DEF Next, Crear, Compactar, vars, memoria, cursor, PideSegmento, CreaPrimero,
         CreaEnHueco, CreaAlFinal, MandaCompactar, SinLugar, CaeWorstFit, Responde,
         DestruyeSegmentos, CambiaAlgoritmo, ConsolaCompacta, SaltaReservado,
         NadaQueMover, MueveAMayor, MueveAMenor, MueveAIgual, MueveSeparado,
         SoloMueve, RecortaSiguiente, ConsumeSiguiente, SeAgota, ConsumeExacto, PasaAlSiguiente,
         DevuelveMemoria, TerminaDevolver, BorraSegmento, TerminaCompactacion
<1>. QED  BY <1>1, <1>2, <1>3, <1>4

\* list_remove_and_destroy_by_condition of lines 256-262 never frees the node
\* whose next field line 299 reads: even after the faulty path, and for
\* segments of 0 bytes too.
THEOREM NuncaConsumeElNodo ==
  Spec => [](fase = "consumir" => (segs[siguiente].size < dif => ~EsConsumido(nodo)))
<1>1. Init => Ventaja
  BY DEF Init, Ventaja
<1>2. InvMemoria /\ Ventaja /\ [Next]_vars => Ventaja'
  BY VentajaPaso DEF InvMemoria
<1>3. InvMemoria /\ Ventaja =>
        (fase = "consumir" => (segs[siguiente].size < dif => ~EsConsumido(nodo)))
  BY NodoNoConsumido DEF InvMemoria
<1>. QED  BY <1>1, <1>2, <1>3, Memoria, PTL DEF Spec

\* When nobody asks for 0 bytes no node is ever empty.
LEMMA LlenasPaso ==
  ASSUME TypeOK, TypeOK', CursorValido, Mudado, Teselado, Llenas, [Next]_vars,
         desvio' = 0, 0 \notin Tamanios
  PROVE  Llenas'
<1>0. SinVacios
  BY DEF Llenas, SinVacios
<1>1. \A k \in 1..Len(segs') : segs'[k].size > 0
  <2>1. CASE CreaPrimero
    <3>1. Len(segs') = 1 /\ segs'[1].size = pedido.tam /\ fase = "crear"
      BY <2>1 DEF CreaPrimero, AlFinal, Reservado
    <3>. QED  BY <3>1 DEF Llenas
  <2>2. CASE ~CreaPrimero
    BY <1>0, <2>2, HeredaPaso DEF Hereda
  <2>. QED  BY <2>1, <2>2
<1>2. (fase' = "crear" => pedido' # SinPedido) /\ (pedido' # SinPedido => pedido'.tam > 0)
  <2>1. ASSUME NEW p \in Pids, NEW t \in Tamanios, PideSegmento(p, t)
        PROVE  pedido' # SinPedido /\ pedido'.tam > 0
    <3>1. pedido' = [pid |-> p, tam |-> t] /\ t \in Nat /\ t # 0
      BY <2>1 DEF PideSegmento
    <3>2. pedido'.pid # SinPedido.pid
      BY <3>1 DEF SinPedido
    <3>. QED  BY <3>1, <3>2
  <2>2. \/ \E p \in Pids, t \in Tamanios : PideSegmento(p, t)
        \/ pedido' = SinPedido /\ fase' # "crear"
        \/ pedido' = pedido /\ (fase' = "crear" => (fase = "crear" \/ pedido # SinPedido))
    BY DEF Next, Crear, Compactar, vars, llamada, CreaPrimero,
         CreaEnHueco, CreaAlFinal, MandaCompactar, SinLugar, CaeWorstFit, Responde,
         DestruyeSegmentos, CambiaAlgoritmo, ConsolaCompacta, SaltaReservado,
         NadaQueMover, MueveAMayor, MueveAMenor, MueveAIgual, MueveSeparado,
         SoloMueve, AgrandaHueco, RecortaSiguiente, ConsumeSiguiente, SigueConsumiendo, SeAgota,
         ConsumeExacto,
         PasaAlSiguiente, DevuelveMemoria, TerminaDevolver, BorraSegmento,
         TerminaCompactacion
  <2>. QED  BY <2>1, <2>2 DEF Llenas
<1>3. ASSUME fase' = "consumir"
      PROVE  dif' < segs'[nodo'].size
  <2>1. ASSUME NEW r \in DOMAIN segs, AgrandaHueco(r)
        PROVE  dif' < segs'[nodo'].size
    <3>1. segs \in Seq(Segmento) /\ nodo \in 1..Len(segs) /\ r \in 1..Len(segs)
      BY <2>1, HuecoDueno DEF AgrandaHueco
    <3>2. segs[nodo].size \in Nat /\ segs[r].size \in Nat /\ segs[nodo].size > 0
      BY <3>1, CamposTipo DEF Llenas
    <3>3. nodo' = nodo /\ dif' = segs[r].size - segs[nodo].size
      BY <2>1 DEF AgrandaHueco
    <3>4. segs'[nodo].size = segs[r].size
      BY <2>1, AgrandaDueno
    <3>. QED  BY <3>2, <3>3, <3>4
  <2>2. CASE SigueConsumiendo
    <3>1. fase = "consumir" /\ dif' = dif - segs[siguiente].size
      BY <2>2 DEF SigueConsumiendo
    <3>2. /\ segs \in Seq(Segmento) /\ nodo \in 1..Len(segs) /\ siguiente \in 1..Len(segs)
          /\ dif \in Nat
      BY <3>1, PosicionesTipo
    <3>3. segs[nodo].size \in Nat /\ segs[siguiente].size \in Nat
      BY <3>2, CamposTipo
    <3>4. segs' = QuitaPos(segs, nodo + 1) /\ nodo + 1 \in 1..Len(segs) /\ nodo' = nodo
      BY <2>2, ConsumeConserva
    <3>5. \A j \in 1..(Len(segs) - 1) :
            segs'[j] = IF j < nodo + 1 THEN segs[j] ELSE segs[j + 1]
      BY <3>2, <3>4, QuitaPosTipo
    <3>6. segs'[nodo] = segs[nodo]
      BY <3>2, <3>4, <3>5
    <3>7. dif < segs[nodo].size
      BY <3>1 DEF Llenas
    <3>. QED  BY <3>1, <3>2, <3>3, <3>4, <3>6, <3>7
  <2>3. CASE fase' = fase /\ segs' = segs /\ nodo' = nodo /\ dif' = dif
    BY <1>3, <2>3 DEF Llenas
  <2>4. \/ SigueConsumiendo \/ \E r \in DOMAIN segs : AgrandaHueco(r)
        \/ fase' = fase /\ segs' = segs /\ nodo' = nodo /\ dif' = dif
    BY <1>3
       DEF Next, Crear, Compactar, vars, memoria, cursor, PideSegmento, CreaPrimero,
         CreaEnHueco, CreaAlFinal, MandaCompactar, SinLugar, CaeWorstFit, Responde,
         DestruyeSegmentos, CambiaAlgoritmo, ConsolaCompacta, SaltaReservado,
         NadaQueMover, MueveAMayor, MueveAMenor, MueveAIgual, MueveSeparado,
         SoloMueve, RecortaSiguiente, ConsumeSiguiente, SeAgota, ConsumeExacto, PasaAlSiguiente,
         DevuelveMemoria, TerminaDevolver, BorraSegmento, TerminaCompactacion
  <2>. QED  BY <2>1, <2>2, <2>3, <2>4
<1>. QED  BY <1>1, <1>2, <1>3 DEF Llenas

\* The exact fit does not find the node either: posInicial of the segment that
\* came down is not lower than the place it left, and before that place there
\* are more bytes than the ones that are missing.
LEMMA NodoNoExacto ==
  ASSUME TypeOK, CursorValido, Mudado, Teselado, Altas, Llenas, fase = "consumir",
         segs[siguiente].size = dif
  PROVE  ~EsConsumidoExacto(nodo)
<1>1. /\ segs \in Seq(Segmento) /\ nodo \in 1..Len(segs) /\ siguiente \in 1..Len(segs)
      /\ ocupado \in 1..Len(segs) /\ nodo < siguiente /\ siguiente <= ocupado
      /\ dif \in Nat
  BY PosicionesTipo
<1>2. /\ siguiente = nodo + 1 /\ Solapados(segs, nodo, dif)
  BY DEF Teselado, TeselaConsumir
<1>3. /\ dif < segs[nodo].size /\ segs[nodo].base = segs[ocupado].base
      /\ segs[nodo].size = segs[ocupado].size /\ segs[ocupado].base >= segs[ocupado].mem
  BY <1>1 DEF Llenas, Mudado, Altas
<1>4. \A j \in 1..Len(segs) : segs[j].base \in Int /\ segs[j].mem \in Int /\ segs[j].size \in Nat
  BY <1>1, CamposTipo
<1>5. siguiente # ocupado
  BY <1>3, <1>1, <1>4
<1>6. /\ segs[nodo].mem + segs[nodo].size - dif <= segs[siguiente].mem
      /\ segs[siguiente].mem + segs[siguiente].size <= segs[ocupado].mem
  <2>1. siguiente < ocupado /\ siguiente # nodo
    BY <1>1, <1>5
  <2>2. /\ segs[nodo].mem + segs[nodo].size - (IF nodo = nodo THEN dif ELSE 0)
             <= segs[siguiente].mem
        /\ segs[siguiente].mem + segs[siguiente].size - (IF siguiente = nodo THEN dif ELSE 0)
             <= segs[ocupado].mem
    BY <1>1, <1>2, <2>1 DEF Solapados
  <2>. QED  BY <1>1, <1>4, <2>1, <2>2
<1>7. segs[nodo].mem >= 0
  <2>1. 1 \in 1..Len(segs) /\ 1 # nodo + 1
    BY <1>1
  <2>2. segs[1].mem = 0
    BY <1>2, <2>1 DEF Solapados, Inicio
  <2>3. CASE nodo = 1
    BY <2>2, <2>3
  <2>4. CASE nodo # 1
    <3>1. 1 < nodo
      BY <1>1, <2>4
    <3>2. segs[1].mem + segs[1].size - (IF 1 = nodo THEN dif ELSE 0) <= segs[nodo].mem
      BY <1>1, <1>2, <2>1, <3>1 DEF Solapados
    <3>. QED  BY <1>1, <1>4, <2>1, <2>2, <2>4, <3>2
  <2>. QED  BY <2>3, <2>4
<1>8. segs[nodo].base # dif
  <2>1. PICK m \in Int, n \in Nat, u \in Int, o \in Int, b \in Int :
          /\ m = segs[nodo].mem /\ n = segs[nodo].size /\ u = segs[siguiente].mem
          /\ o = segs[ocupado].mem /\ b = segs[nodo].base
    BY <1>1, <1>4
  <2>2. m + n - dif <= u /\ u + dif <= o /\ b >= o /\ m >= 0 /\ dif < n
    BY <1>3, <1>5, <1>6, <1>7, <2>1
  <2>3. b > dif
    <3>1. dif \in Nat
      BY <1>1
    <3>. QED  BY <2>2, <3>1
  <2>. QED  BY <1>1, <2>1, <2>3
<1>. QED  BY <1>8 DEF EsConsumidoExacto

\* Nor does the removal of lines 270-287, on the sound path and when nobody
\* asks for 0 bytes: with an empty segment the comparison of posInicial with
\* the size can hit the node itself.
THEOREM NodoSigueVivo ==
  ASSUME 0 \notin Tamanios
  PROVE  Spec => [](desvio = 0 => NodoVivo)
<1>1. Init => InvLlenas
  <2>. SUFFICES ASSUME Init PROVE Llenas
    BY DEF InvLlenas
  <2>. QED  BY DEF Init, Llenas, SinPedido
<1>2. ASSUME InvMemoria, InvMemoria', InvIdentidad, InvLlenas, [Next]_vars
      PROVE  InvLlenas'
  <2>. SUFFICES ASSUME desvio' = 0 PROVE Llenas'
    BY DEF InvLlenas
  <2>1. TypeOK /\ CursorValido /\ TypeOK'
    BY <1>2 DEF InvMemoria
  <2>2. desvio = 0
    BY <1>2, <2>1, DesvioPaso
  <2>3. Teselado /\ Mudado /\ Llenas
    BY <1>2, <2>2 DEF InvMemoria, InvIdentidad, InvLlenas
  <2>. QED  BY <1>2, <2>1, <2>3, LlenasPaso
<1>3. ASSUME InvMemoria, InvIdentidad, InvLlenas, Ventaja
      PROVE  desvio = 0 => NodoVivo
  <2>. SUFFICES ASSUME desvio = 0, fase = "consumir"
                PROVE  /\ segs[siguiente].size < dif => ~EsConsumido(nodo)
                       /\ segs[siguiente].size = dif => ~EsConsumidoExacto(nodo)
    BY DEF NodoVivo
  <2>1. TypeOK /\ CursorValido /\ Teselado /\ Mudado /\ Altas /\ Llenas
    BY <1>3 DEF InvMemoria, InvIdentidad, InvLlenas
  <2>. QED  BY <1>3, <2>1, NodoNoConsumido, NodoNoExacto
<1>4. Init => Ventaja
  BY DEF Init, Ventaja
<1>5. InvMemoria /\ Ventaja /\ [Next]_vars => Ventaja'
  BY VentajaPaso DEF InvMemoria
<1>. QED  BY <1>1, <1>2, <1>3, <1>4, <1>5, Identidad, PTL DEF Spec
=============================================================================
