--------------------------- MODULE KernelSinFallas ---------------------------
(* Proofs about Kernel when nothing fails and no window inside a handler is *)
(* open: the conversation of each CPU with the Kernel, the CPUs that are    *)
(* free, the life of the Kernel itself, and that the Kernel implements the  *)
(* scheduler of Planificador.                                               *)
EXTENDS KernelPruebas

-----------------------------------------------------------------------------
(* The conversation of a CPU with the Kernel                               *)

Suelto(m) == m.op \in {"IMPRIMIR", "SIGNAL"}
Entrega(m, op) == m.op = op /\ m.pcb # Nadie
Anuncio(m, op) == m.op = op /\ m.pcb = Nadie

\* all but the last n messages expect no answer
Sueltos(q, n) == \A j \in 1..(Len(q) - n) : Suelto(q[j])

Ultimo(q) == q[Len(q)]

\* k: where the CPU is; op: its operacion; q and r: its messages to the Kernel
\* and the answers; s: what the server waits for from it; a: whether it is
\* marked as assigned

Ociosa(k, op, q, r, s, a) ==
  ~a /\ k \in {"apagada", "espera"} /\ q = <<>> /\ r = <<>> /\ s = "nada"

Despachada(k, op, q, r, s, a) ==
  a /\ k = "espera" /\ q = <<>> /\ Len(r) = 1 /\ r[1].pcb # Nadie /\ s = "nada"

EnRafaga(k, op, q, r, s, a) ==
  /\ a /\ r = <<>> /\ s = "nada" /\ Sueltos(q, 0)
  /\ \/ k = "corre" /\ op = "QUANTUM"
     \/ k = "desaloja" /\ op \in {"QUANTUM", "EXIT", "ERROR"}

Pregunta(k, op, q, r, s, a) ==
  /\ a /\ k = "respuesta" /\ op = "QUANTUM" /\ r = <<>> /\ s = "nada"
  /\ Len(q) >= 1 /\ Sueltos(q, 1) /\ Anuncio(Ultimo(q), "WAIT")

Contestada(k, op, q, r, s, a) ==
  /\ a /\ k = "respuesta" /\ op = "QUANTUM" /\ q = <<>> /\ Len(r) = 1
  /\ \/ Anuncio(r[1], "NOTHING") /\ s = "nada"
     \/ Anuncio(r[1], "WAIT") /\ s = "pcbWait"

PideES(k, op, q, r, s, a) ==
  /\ a /\ k = "desaloja" /\ op = "IO" /\ r = <<>>
  /\ \/ Len(q) >= 1 /\ Sueltos(q, 1) /\ Anuncio(Ultimo(q), "IO") /\ s = "nada"
     \/ q = <<>> /\ s = "pcbIO"

SeBloquea(k, op, q, r, s, a) ==
  /\ a /\ r = <<>> /\ s = "pcbWait"
  /\ \/ k = "desaloja" /\ op = "WAIT" /\ q = <<>>
     \/ k = "espera" /\ Len(q) = 1 /\ Entrega(q[1], "WAIT")

Devuelve(k, op, q, r, s, a) ==
  /\ a /\ k = "espera" /\ r = <<>> /\ s = "nada"
  /\ Len(q) >= 1 /\ Sueltos(q, 1) /\ Ultimo(q).op \in {"QUANTUM", "EXIT", "ERROR"}

DevuelveES(k, op, q, r, s, a) ==
  /\ a /\ k = "espera" /\ r = <<>>
  /\ Len(q) >= 1 /\ Entrega(Ultimo(q), "IO")
  /\ \/ Len(q) >= 2 /\ Sueltos(q, 2) /\ Anuncio(q[Len(q) - 1], "IO") /\ s = "nada"
     \/ Len(q) = 1 /\ s = "pcbIO"

Fase(k, op, q, r, s, a) ==
  \/ Ociosa(k, op, q, r, s, a) \/ Despachada(k, op, q, r, s, a)
  \/ EnRafaga(k, op, q, r, s, a) \/ Pregunta(k, op, q, r, s, a)
  \/ Contestada(k, op, q, r, s, a) \/ PideES(k, op, q, r, s, a)
  \/ SeBloquea(k, op, q, r, s, a) \/ Devuelve(k, op, q, r, s, a)
  \/ DevuelveES(k, op, q, r, s, a)

\* what the server waits for from c
EsperaDe(c) == IF servidor.cpu = c THEN servidor.pc ELSE "nada"

FaseCpu(c) ==
  Fase(cpu[c], operacion[c], haciaKernel[c], haciaCpu[c], EsperaDe(c), c \in fueAsignado)

-----------------------------------------------------------------------------
(* What a message taken or sent does to a conversation                     *)

LEMMA ColaPosiciones ==
  ASSUME NEW S, NEW q \in Seq(S)
  PROVE  /\ Len(q) \in Nat /\ (q = <<>> <=> Len(q) = 0)
         /\ q # <<>> => /\ Head(q) = q[1] /\ Len(Tail(q)) = Len(q) - 1
                        /\ \A j \in 1..(Len(q) - 1) : Tail(q)[j] = q[j + 1]
                        /\ Tail(q) \in Seq(S)
         /\ \A m : /\ Len(Append(q, m)) = Len(q) + 1
                   /\ Append(q, m)[Len(q) + 1] = m
                   /\ \A j \in 1..Len(q) : Append(q, m)[j] = q[j]
OBVIOUS

\* The head of the queue tells where the conversation is.
LEMMA Cabeza ==
  ASSUME NEW q \in Seq(AlKernel), q # <<>>, NEW k, NEW op, NEW r, NEW a,
         Fase(k, op, q, r, "nada", a)
  PROVE  /\ a
         /\ \/ Suelto(q[1])
            \/ /\ Pregunta(k, op, q, r, "nada", a)
               /\ Anuncio(q[1], "WAIT") /\ Len(q) = 1
            \/ /\ PideES(k, op, q, r, "nada", a)
               /\ Anuncio(q[1], "IO") /\ Len(q) = 1
            \/ /\ Devuelve(k, op, q, r, "nada", a)
               /\ q[1].op \in {"QUANTUM", "EXIT", "ERROR"} /\ Len(q) = 1
            \/ /\ DevuelveES(k, op, q, r, "nada", a)
               /\ Anuncio(q[1], "IO") /\ Len(q) = 2
<1>1. Len(q) \in Nat /\ Len(q) >= 1
  BY ColaPosiciones
<1>2. ASSUME Sueltos(q, 1), ~Suelto(q[1]) PROVE Len(q) = 1
  <2>1. SUFFICES ASSUME Len(q) # 1 PROVE FALSE
    OBVIOUS
  <2>2. \A n \in Nat : n >= 1 /\ n # 1 => 1 \in 1..(n - 1)
    OBVIOUS
  <2>3. 1 \in 1..(Len(q) - 1)
    BY <1>1, <2>1, <2>2
  <2>. QED  BY <1>2, <2>3 DEF Sueltos
<1>3. ASSUME Sueltos(q, 2), ~Suelto(q[1]), Len(q) >= 2 PROVE Len(q) = 2
  <2>1. SUFFICES ASSUME Len(q) # 2 PROVE FALSE
    OBVIOUS
  <2>2. \A n \in Nat : n >= 2 /\ n # 2 => 1 \in 1..(n - 2)
    OBVIOUS
  <2>3. 1 \in 1..(Len(q) - 2)
    BY <1>1, <1>3, <2>1, <2>2
  <2>. QED  BY <1>3, <2>3 DEF Sueltos
<1>4. ASSUME Sueltos(q, 0) PROVE Suelto(q[1])
  BY <1>1, <1>4 DEF Sueltos
<1>5. CASE EnRafaga(k, op, q, r, "nada", a)
  BY <1>4, <1>5 DEF EnRafaga
<1>6. CASE Pregunta(k, op, q, r, "nada", a)
  BY <1>2, <1>6 DEF Pregunta, Ultimo
<1>7. CASE PideES(k, op, q, r, "nada", a)
  BY <1>2, <1>7 DEF PideES, Ultimo
<1>8. CASE Devuelve(k, op, q, r, "nada", a)
  BY <1>2, <1>8 DEF Devuelve, Ultimo
<1>9. CASE DevuelveES(k, op, q, r, "nada", a)
  <2>1. Len(q) >= 2 /\ Sueltos(q, 2) /\ Anuncio(q[Len(q) - 1], "IO")
    BY <1>9 DEF DevuelveES
  <2>2. Len(q) = 2 => Anuncio(q[1], "IO")
    BY <2>1
  <2>. QED  BY <1>3, <1>9, <2>1, <2>2 DEF DevuelveES
<1>. QED
  BY <1>5, <1>6, <1>7, <1>8, <1>9 DEF Fase, Ociosa, Despachada, Contestada, SeBloquea

\* Taking a message that expects no answer leaves the conversation where it is.
LEMMA TomaSuelto ==
  ASSUME NEW q \in Seq(AlKernel), q # <<>>, Suelto(q[1]), NEW k, NEW op, NEW r, NEW a,
         Fase(k, op, q, r, "nada", a)
  PROVE  Fase(k, op, Tail(q), r, "nada", a)
<1>. DEFINE t == Tail(q)
<1>1. /\ Len(q) \in Nat /\ Len(q) >= 1 /\ Len(t) = Len(q) - 1
      /\ \A j \in 1..(Len(q) - 1) : t[j] = q[j + 1]
      /\ (t = <<>> <=> Len(t) = 0)
  <2>1. t \in Seq(AlKernel) /\ Len(t) = Len(q) - 1
        /\ \A j \in 1..(Len(q) - 1) : t[j] = q[j + 1]
    BY ColaPosiciones
  <2>2. Len(q) \in Nat /\ Len(q) # 0
    BY ColaPosiciones
  <2>3. t = <<>> <=> Len(t) = 0
    BY <2>1, ColaPosiciones
  <2>4. Len(q) >= 1
    BY <2>2
  <2>. HIDE DEF t
  <2>. QED  BY <2>1, <2>2, <2>3, <2>4
<1>2. \A n \in 0..2 : Sueltos(q, n) => Sueltos(t, n)
  <2>1. SUFFICES ASSUME NEW n \in 0..2, Sueltos(q, n), NEW j \in 1..(Len(t) - n)
                 PROVE  Suelto(t[j])
    BY DEF Sueltos
  <2>2. j + 1 \in 1..(Len(q) - n) /\ t[j] = q[j + 1]
    BY <1>1
  <2>. QED  BY <2>1, <2>2 DEF Sueltos
<1>. HIDE DEF t
<1>3. Len(q) >= 2 => Ultimo(t) = Ultimo(q)
  BY <1>1 DEF Ultimo
<1>4. Len(q) >= 3 => t[Len(t) - 1] = q[Len(q) - 1]
  BY <1>1
<1>5. ~Suelto(Ultimo(q)) => Len(q) >= 2
  BY <1>1 DEF Ultimo
<1>6. CASE EnRafaga(k, op, q, r, "nada", a)
  <2>1. Sueltos(q, 0) => Sueltos(t, 0)
    BY <1>2
  <2>2. EnRafaga(k, op, t, r, "nada", a)
    BY <1>6, <2>1 DEF EnRafaga
  <2>. QED  BY <2>2 DEF Fase, t
<1>7. CASE Pregunta(k, op, q, r, "nada", a)
  <2>1. Len(q) >= 2
    BY <1>5, <1>7 DEF Pregunta, Anuncio, Suelto
  <2>2. Pregunta(k, op, t, r, "nada", a)
    BY <1>1, <1>2, <1>3, <1>7, <2>1 DEF Pregunta
  <2>. QED  BY <2>2 DEF Fase, t
<1>8. CASE PideES(k, op, q, r, "nada", a)
  <2>1. Len(q) >= 2
    BY <1>1, <1>5, <1>8 DEF PideES, Anuncio, Suelto
  <2>2. PideES(k, op, t, r, "nada", a)
    BY <1>1, <1>2, <1>3, <1>8, <2>1 DEF PideES
  <2>. QED  BY <2>2 DEF Fase, t
<1>9. CASE Devuelve(k, op, q, r, "nada", a)
  <2>1. Len(q) >= 2
    BY <1>5, <1>9 DEF Devuelve, Suelto
  <2>2. Devuelve(k, op, t, r, "nada", a)
    BY <1>1, <1>2, <1>3, <1>9, <2>1 DEF Devuelve
  <2>. QED  BY <2>2 DEF Fase, t
<1>10. CASE DevuelveES(k, op, q, r, "nada", a)
  <2>1. Len(q) >= 3
    <3>1. Len(q) >= 2 /\ Anuncio(q[Len(q) - 1], "IO")
      BY <1>10 DEF DevuelveES
    <3>. QED  BY <1>1, <3>1 DEF Anuncio, Suelto
  <2>2. DevuelveES(k, op, t, r, "nada", a)
    BY <1>1, <1>2, <1>3, <1>4, <1>10, <2>1 DEF DevuelveES
  <2>. QED  BY <2>2 DEF Fase, t
<1>. QED
  BY <1>1, <1>6, <1>7, <1>8, <1>9, <1>10
     DEF Fase, Ociosa, Despachada, Contestada, SeBloquea

\* What a CPU in a burst sends.
LEMMA AgregaEnRafaga ==
  ASSUME NEW q \in Seq(AlKernel), Sueltos(q, 0), NEW m
  PROVE  /\ Suelto(m) => Sueltos(Append(q, m), 0)
         /\ Sueltos(Append(q, m), 1)
         /\ Len(Append(q, m)) >= 1 /\ Ultimo(Append(q, m)) = m
<1>1. /\ Len(q) \in Nat /\ Len(Append(q, m)) = Len(q) + 1
      /\ Append(q, m)[Len(q) + 1] = m
      /\ \A j \in 1..Len(q) : Append(q, m)[j] = q[j]
  BY ColaPosiciones
<1>. QED  BY <1>1 DEF Sueltos, Ultimo

-----------------------------------------------------------------------------
(* The invariant                                                           *)

\* nothing that only a failure or an open window brings
Sano ==
  /\ kernel = "vivo" /\ cpuAcerrar = SinCpu /\ programaCerrado = {} /\ cerrarCPU = {}
  /\ impresora.hilo = "nadie" /\ despacho.pc # "enviado"
  /\ \/ servidor = EnSelect
     \/ servidor.pc \in {"pcbWait", "pcbIO"} /\ servidor.cpu \in Cpus

\* listaClientes holds the CPUs that are on, once each
Registro ==
  /\ \A i, j \in DOMAIN listaClientes : listaClientes[i] = listaClientes[j] => i = j
  /\ \A c \in Cpus :
       cpu[c] # "apagada" <=> \E k \in DOMAIN listaClientes : listaClientes[k] = c

Fases == \A c \in Cpus : FaseCpu(c)

\* the CPU that was chosen is still free when the PCB is sent
OciososBien ==
  /\ OciososContados
  /\ despacho.pc = "saca" => /\ despacho.cpu \notin fueAsignado
                             /\ cpu[despacho.cpu] # "apagada"

ExitBien == semProgExit = Len(colaExit) /\ saliendo # Nulo

SinFallas == Cuentas /\ Sano /\ Registro /\ Fases /\ OciososBien /\ ExitBien

LEMMA QuietoSinFallas ==
  ASSUME SinFallas
  PROVE  /\ UNCHANGED <<kernel, cpuAcerrar, programaCerrado, cerrarCPU, impresora, despacho,
                        servidor>> => Sano'
         /\ UNCHANGED <<listaClientes, cpu>> => Registro'
         /\ UNCHANGED <<cpu, operacion, haciaKernel, haciaCpu, servidor, fueAsignado>>
              => Fases'
         /\ UNCHANGED <<listaClientes, fueAsignado, semClienteOcioso, cpu, despacho>>
              => OciososBien'
         /\ UNCHANGED <<salida, saliendo>> => ExitBien'
<1>1. UNCHANGED <<kernel, cpuAcerrar, programaCerrado, cerrarCPU, impresora, despacho,
                  servidor>> => Sano'
  BY DEF SinFallas, Sano
<1>2. UNCHANGED <<listaClientes, cpu>> => Registro'
  BY DEF SinFallas, Registro
<1>3. UNCHANGED <<cpu, operacion, haciaKernel, haciaCpu, servidor, fueAsignado>> => Fases'
  BY DEF SinFallas, Fases, FaseCpu, EsperaDe
<1>4. UNCHANGED <<listaClientes, fueAsignado, semClienteOcioso, cpu, despacho>>
        => OciososBien'
  BY DEF SinFallas, OciososBien, OciososContados, Ociosos
<1>5. UNCHANGED <<salida, saliendo>> => ExitBien'
  BY DEF SinFallas, ExitBien, salida
<1>. QED  BY <1>1, <1>2, <1>3, <1>4, <1>5

\* A step of one conversation leaves the others where they are.
LEMMA UnaFase ==
  ASSUME SinFallas, NEW c \in Cpus, FaseCpu(c)',
         \A d \in Cpus \ {c} :
           /\ cpu'[d] = cpu[d] /\ operacion'[d] = operacion[d]
           /\ haciaKernel'[d] = haciaKernel[d] /\ haciaCpu'[d] = haciaCpu[d]
           /\ EsperaDe(d)' = EsperaDe(d) /\ (d \in fueAsignado') = (d \in fueAsignado)
  PROVE  Fases'
<1>1. ASSUME NEW d \in Cpus \ {c} PROVE FaseCpu(d)'
  <2>1. Fase(cpu[d], operacion[d], haciaKernel[d], haciaCpu[d], EsperaDe(d), d \in fueAsignado)
    BY DEF SinFallas, Fases, FaseCpu
  <2>2. Fase(cpu'[d], operacion'[d], haciaKernel'[d], haciaCpu'[d], EsperaDe(d)',
             d \in fueAsignado')
    BY <2>1
  <2>. QED  BY <2>2 DEF FaseCpu
<1>. QED  BY <1>1 DEF Fases

\* The CPUs go on without the Kernel noticing.
LEMMA CPUSinFallas ==
  ASSUME SinFallas, NextCPU, "sigusr1" \notin Cortes, Fases',
         \A c \in Cpus : cpu'[c] = "apagada" <=> cpu[c] = "apagada"
  PROVE  SinFallas'
<1>1. UNCHANGED <<plpVars, pcpVars, comunes, kernel>>
  BY CPUAjena
<1>2. UNCHANGED cerrarCPU
  BY DEF NextCPU, Corre, RecibePcb, RecibeBasura, RecibeRespuesta, Nada, Imprimir, Falla,
         Finalizar, AnsisopWait, AnsisopSignal, EntradaSalida, CambioContexto, Sigusr1,
         CaeCpu, Instruccion
<1>3. Cuentas'
  BY CPUCuenta DEF SinFallas
<1>4. Sano' /\ ExitBien'
  BY <1>1, <1>2, QuietoSinFallas DEF pcpVars, plpVars, comunes, clientes, baja
<1>5. Registro'
  BY <1>1 DEF pcpVars, clientes, SinFallas, Registro
<1>6. OciososBien'
  <2>1. OciososContados'
    BY <1>1 DEF pcpVars, clientes, SinFallas, OciososBien, OciososContados, Ociosos
  <2>2. despacho.pc = "saca" => despacho.cpu \in Cpus
    BY DEF SinFallas, Cuentas, Tipos, TDespacho
  <2>. QED
    BY <1>1, <2>1, <2>2 DEF pcpVars, clientes, SinFallas, OciososBien
<1>. QED  BY <1>3, <1>4, <1>5, <1>6 DEF SinFallas

-----------------------------------------------------------------------------
(* The steps of a CPU                                                      *)

LEMMA Llamadas ==
  ASSUME SinFallas, NEW c \in Cpus
  PROVE  /\ haciaKernel[c] \in Seq(AlKernel) /\ haciaCpu[c] \in Seq(AlCpu)
         /\ cpu \in [Cpus -> {"apagada", "espera", "corre", "respuesta", "desaloja", "cerrada"}]
         /\ operacion \in [Cpus -> FinDeRafaga \cup {"WAIT"}]
         /\ haciaKernel \in [Cpus -> Seq(AlKernel)] /\ haciaCpu \in [Cpus -> Seq(AlCpu)]
         /\ FaseCpu(c)
BY DEF SinFallas, Cuentas, Tipos, TRed, TCpu, Fases

\* The only answer is taken.
LEMMA UnicaRespuesta ==
  ASSUME NEW r \in Seq(AlCpu), Len(r) = 1
  PROVE  Head(r) = r[1] /\ Tail(r) = <<>> /\ r # <<>>
<1>1. r # <<>>
  BY ColaPosiciones
<1>2. Tail(r) \in Seq(AlCpu) /\ Head(r) = r[1] /\ Len(Tail(r)) = 0
  BY <1>1, ColaPosiciones
<1>. QED  BY <1>1, <1>2, ColaPosiciones

LEMMA RecibePcbFase ==
  ASSUME SinFallas, NEW c \in Cpus, RecibePcb(c) PROVE FaseCpu(c)'
<1>1. /\ Despachada(cpu[c], operacion[c], haciaKernel[c], haciaCpu[c], EsperaDe(c),
                    c \in fueAsignado)
  BY Llamadas
     DEF RecibePcb, FaseCpu, Fase, Ociosa, Despachada, EnRafaga, Pregunta, Contestada,
         PideES, SeBloquea, Devuelve, DevuelveES
<1>2. haciaCpu'[c] = <<>>
  BY <1>1, Llamadas, UnicaRespuesta DEF RecibePcb, Despachada
<1>3. /\ cpu'[c] = "corre" /\ operacion'[c] = "QUANTUM"
      /\ haciaKernel'[c] = <<>> /\ EsperaDe(c)' = "nada" /\ c \in fueAsignado'
  BY <1>1, Llamadas DEF RecibePcb, Despachada, EsperaDe, pcpVars, clientes
<1>. QED
  BY <1>2, <1>3 DEF FaseCpu, Fase, EnRafaga, Sueltos

\* What an idle CPU receives is a PCB.
LEMMA SinBasura ==
  ASSUME SinFallas, NEW c \in Cpus PROVE ~RecibeBasura(c)
<1>. SUFFICES ASSUME RecibeBasura(c) PROVE FALSE
  OBVIOUS
<1>1. Despachada(cpu[c], operacion[c], haciaKernel[c], haciaCpu[c], EsperaDe(c),
                 c \in fueAsignado)
  BY Llamadas
     DEF RecibeBasura, FaseCpu, Fase, Ociosa, Despachada, EnRafaga, Pregunta, Contestada,
         PideES, SeBloquea, Devuelve, DevuelveES
<1>. QED
  BY <1>1, Llamadas, UnicaRespuesta DEF RecibeBasura, Despachada

LEMMA RecibeRespuestaFase ==
  ASSUME SinFallas, NEW c \in Cpus, RecibeRespuesta(c) PROVE FaseCpu(c)'
<1>1. Contestada(cpu[c], operacion[c], haciaKernel[c], haciaCpu[c], EsperaDe(c),
                 c \in fueAsignado)
  BY Llamadas
     DEF RecibeRespuesta, FaseCpu, Fase, Ociosa, Despachada, EnRafaga, Pregunta, Contestada,
         PideES, SeBloquea, Devuelve, DevuelveES
<1>2. haciaCpu'[c] = <<>> /\ Head(haciaCpu[c]) = haciaCpu[c][1]
  BY <1>1, Llamadas, UnicaRespuesta DEF RecibeRespuesta, Contestada
<1>3. /\ haciaKernel'[c] = <<>> /\ EsperaDe(c)' = EsperaDe(c) /\ c \in fueAsignado'
  BY <1>1, Llamadas DEF RecibeRespuesta, Contestada, EsperaDe, pcpVars, clientes
<1>4. CASE haciaCpu[c][1].op = "NOTHING"
  <2>1. /\ cpu'[c] \in {"corre", "desaloja"} /\ operacion'[c] = "QUANTUM"
        /\ EsperaDe(c) = "nada"
    BY <1>1, <1>2, <1>4, Llamadas DEF RecibeRespuesta, Sigue, Contestada, Anuncio
  <2>. QED
    BY <1>2, <1>3, <2>1 DEF FaseCpu, Fase, EnRafaga, Sueltos
<1>5. CASE haciaCpu[c][1].op # "NOTHING"
  <2>1. /\ cpu'[c] = "desaloja" /\ operacion'[c] = "WAIT" /\ EsperaDe(c) = "pcbWait"
    BY <1>1, <1>2, <1>5, Llamadas DEF RecibeRespuesta, Contestada, Anuncio
  <2>. QED
    BY <1>2, <1>3, <2>1 DEF FaseCpu, Fase, SeBloquea
<1>. QED  BY <1>4, <1>5

\* An instruction of the program.
LEMMA InstruccionFase ==
  ASSUME SinFallas, NEW c \in Cpus, cpu[c] = "corre"
  PROVE  /\ EnRafaga("corre", "QUANTUM", haciaKernel[c], haciaCpu[c], "nada", TRUE)
         /\ operacion[c] = "QUANTUM" /\ EsperaDe(c) = "nada" /\ c \in fueAsignado
BY Llamadas
   DEF FaseCpu, Fase, Ociosa, Despachada, EnRafaga, Pregunta, Contestada, PideES, SeBloquea,
       Devuelve, DevuelveES

LEMMA RafagaFase ==
  ASSUME SinFallas, NEW c \in Cpus,
         \/ Nada(c) \/ Imprimir(c) \/ Falla(c) \/ Finalizar(c)
         \/ \E s \in Semaforos : AnsisopSignal(c, s)
  PROVE  FaseCpu(c)'
<1>1. cpu[c] = "corre"
  BY DEF Nada, Imprimir, Falla, Finalizar, AnsisopSignal, Instruccion
<1>2. /\ operacion[c] = "QUANTUM" /\ EsperaDe(c) = "nada" /\ c \in fueAsignado
      /\ haciaCpu[c] = <<>> /\ Sueltos(haciaKernel[c], 0)
  BY <1>1, InstruccionFase DEF EnRafaga
<1>3. /\ EsperaDe(c)' = "nada" /\ c \in fueAsignado' /\ haciaCpu'[c] = <<>>
  BY <1>2 DEF Nada, Imprimir, Falla, Finalizar, AnsisopSignal, Instruccion, EsperaDe,
              pcpVars, clientes, red
<1>4. Sueltos(haciaKernel'[c], 0)
  <2>1. \/ haciaKernel' = haciaKernel
        \/ \E m : Suelto(m) /\ Pide(c, m)
    <3>1. Suelto(Texto(pcb[c])) /\ \A s : Suelto(Mensaje("SIGNAL", Nadie, s))
      BY DEF Texto, Mensaje, Suelto
    <3>. QED  BY <3>1 DEF Nada, Imprimir, Falla, Finalizar, AnsisopSignal, red
  <2>2. ASSUME NEW m, Suelto(m), Pide(c, m) PROVE Sueltos(haciaKernel'[c], 0)
    BY <1>2, <2>2, Llamadas, AgregaEnRafaga DEF Pide
  <2>. QED  BY <1>2, <2>1, <2>2
<1>5. \/ cpu'[c] \in {"corre", "desaloja"} /\ operacion'[c] = "QUANTUM"
      \/ cpu'[c] = "desaloja" /\ operacion'[c] \in {"EXIT", "ERROR"}
  BY <1>2, Llamadas DEF Nada, Imprimir, Falla, Finalizar, AnsisopSignal, Sigue
<1>. QED
  BY <1>3, <1>4, <1>5 DEF FaseCpu, Fase, EnRafaga

LEMMA PreguntaFase ==
  ASSUME SinFallas, NEW c \in Cpus,
         \/ \E s \in Semaforos : AnsisopWait(c, s)
         \/ \E d \in Pedidos : EntradaSalida(c, d)
  PROVE  FaseCpu(c)'
<1>1. cpu[c] = "corre"
  BY DEF AnsisopWait, EntradaSalida, Instruccion
<1>2. /\ operacion[c] = "QUANTUM" /\ EsperaDe(c) = "nada" /\ c \in fueAsignado
      /\ haciaCpu[c] = <<>> /\ Sueltos(haciaKernel[c], 0)
  BY <1>1, InstruccionFase DEF EnRafaga
<1>3. /\ EsperaDe(c)' = "nada" /\ c \in fueAsignado' /\ haciaCpu'[c] = <<>>
  BY <1>2 DEF AnsisopWait, EntradaSalida, Instruccion, EsperaDe, pcpVars, clientes
<1>4. PICK m : /\ Pide(c, m)
               /\ \/ /\ Anuncio(m, "WAIT")
                     /\ cpu'[c] = "respuesta" /\ operacion'[c] = "QUANTUM"
                  \/ /\ Anuncio(m, "IO")
                     /\ cpu'[c] = "desaloja" /\ operacion'[c] = "IO"
  <2>1. CASE \E s \in Semaforos : AnsisopWait(c, s)
    <3>1. PICK s \in Semaforos : AnsisopWait(c, s)
      BY <2>1
    <3>2. Anuncio(Mensaje("WAIT", Nadie, s), "WAIT")
      BY DEF Mensaje, Anuncio
    <3>. QED  BY <1>2, <3>1, <3>2, Llamadas DEF AnsisopWait
  <2>2. CASE \E d \in Pedidos : EntradaSalida(c, d)
    <3>1. PICK d \in Pedidos : EntradaSalida(c, d)
      BY <2>2
    <3>2. Anuncio(Mensaje("IO", Nadie, d), "IO")
      BY DEF Mensaje, Anuncio
    <3>. QED  BY <1>2, <3>1, <3>2, Llamadas DEF EntradaSalida
  <2>. QED  BY <2>1, <2>2
<1>5. /\ Sueltos(haciaKernel'[c], 1) /\ Len(haciaKernel'[c]) >= 1
      /\ Ultimo(haciaKernel'[c]) = m
  BY <1>2, <1>4, Llamadas, AgregaEnRafaga DEF Pide
<1>. QED
  BY <1>3, <1>4, <1>5 DEF FaseCpu, Fase, Pregunta, PideES
LEMMA CambioContextoFase ==
  ASSUME SinFallas, NEW c \in Cpus, CambioContexto(c) PROVE FaseCpu(c)'
<1>. DEFINE q == haciaKernel[c]
            m == Mensaje(operacion[c], pcb[c], SinArg)
<1>1. m.op = operacion[c] /\ m.pcb # Nadie
  <2>1. pcb[c] \in Pids
    BY DEF CambioContexto, SinFallas, Cuentas, Tipos, TCpu
  <2>. QED  BY <2>1, PidsTipo DEF Mensaje
<1>2. /\ q \in Seq(AlKernel) /\ haciaKernel'[c] = Append(q, m) /\ cpu'[c] = "espera"
      /\ operacion' = operacion /\ haciaCpu' = haciaCpu
      /\ EsperaDe(c)' = EsperaDe(c) /\ c \in fueAsignado' <=> c \in fueAsignado
  BY Llamadas
     DEF CambioContexto, Pide, EsperaDe, pcpVars, clientes, SinFallas, Sano
<1>3. /\ Len(q) \in Nat /\ Len(Append(q, m)) = Len(q) + 1
      /\ Append(q, m)[Len(q) + 1] = m
      /\ \A j \in 1..Len(q) : Append(q, m)[j] = q[j]
      /\ (q = <<>> => Len(q) = 0)
  BY <1>2, ColaPosiciones
<1>4. Ultimo(Append(q, m)) = m /\ Len(Append(q, m)) >= 1
  BY <1>3 DEF Ultimo
<1>. HIDE DEF m, q
<1>5. CASE EnRafaga(cpu[c], operacion[c], q, haciaCpu[c], EsperaDe(c), c \in fueAsignado)
  <2>1. operacion[c] \in {"QUANTUM", "EXIT", "ERROR"}
    BY <1>5 DEF EnRafaga, CambioContexto
  <2>2. Sueltos(Append(q, m), 1)
    BY <1>2, <1>5, AgregaEnRafaga DEF EnRafaga
  <2>3. Devuelve(cpu'[c], operacion'[c], haciaKernel'[c], haciaCpu'[c], EsperaDe(c)',
                 c \in fueAsignado')
    BY <1>1, <1>2, <1>4, <1>5, <2>1, <2>2 DEF Devuelve, EnRafaga
  <2>. QED  BY <2>3 DEF FaseCpu, Fase
<1>6. CASE PideES(cpu[c], operacion[c], q, haciaCpu[c], EsperaDe(c), c \in fueAsignado)
  <2>1. Entrega(m, "IO")
    BY <1>1, <1>6 DEF PideES, Entrega
  <2>2. CASE q = <<>> /\ EsperaDe(c) = "pcbIO"
    <3>1. DevuelveES(cpu'[c], operacion'[c], haciaKernel'[c], haciaCpu'[c], EsperaDe(c)',
                     c \in fueAsignado')
      BY <1>2, <1>3, <1>4, <1>6, <2>1, <2>2 DEF DevuelveES, PideES
    <3>. QED  BY <3>1 DEF FaseCpu, Fase
  <2>3. CASE Len(q) >= 1 /\ Sueltos(q, 1) /\ Anuncio(Ultimo(q), "IO") /\ EsperaDe(c) = "nada"
    <3>1. Sueltos(Append(q, m), 2)
      BY <1>3, <2>3 DEF Sueltos
    <3>2. Append(q, m)[Len(Append(q, m)) - 1] = Ultimo(q) /\ Len(Append(q, m)) >= 2
      BY <1>3, <2>3 DEF Ultimo
    <3>3. DevuelveES(cpu'[c], operacion'[c], haciaKernel'[c], haciaCpu'[c], EsperaDe(c)',
                     c \in fueAsignado')
      BY <1>2, <1>4, <1>6, <2>1, <2>3, <3>1, <3>2 DEF DevuelveES, PideES
    <3>. QED  BY <3>3 DEF FaseCpu, Fase
  <2>. QED  BY <1>6, <2>2, <2>3 DEF PideES
<1>7. CASE SeBloquea(cpu[c], operacion[c], q, haciaCpu[c], EsperaDe(c), c \in fueAsignado)
  <2>1. q = <<>> /\ operacion[c] = "WAIT"
    BY <1>7 DEF SeBloquea, CambioContexto
  <2>2. Len(Append(q, m)) = 1 /\ Append(q, m)[1] = m
    BY <1>3, <2>1
  <2>3. SeBloquea(cpu'[c], operacion'[c], haciaKernel'[c], haciaCpu'[c], EsperaDe(c)',
                  c \in fueAsignado')
    BY <1>1, <1>2, <1>7, <2>1, <2>2 DEF SeBloquea, Entrega
  <2>. QED  BY <2>3 DEF FaseCpu, Fase
<1>. QED
  BY <1>5, <1>6, <1>7, Llamadas
     DEF CambioContexto, FaseCpu, Fase, Ociosa, Despachada, Pregunta, Contestada, Devuelve,
         DevuelveES, q

LEMMA CPUFases ==
  ASSUME SinFallas, NextCPU, Cortes = {} PROVE SinFallas'
<1>1. PICK c \in Cpus : Corre(c)
  BY DEF NextCPU, Sigusr1, CaeCpu
<1>2. FaseCpu(c)'
  BY <1>1, RecibePcbFase, SinBasura, RecibeRespuestaFase, RafagaFase, PreguntaFase,
     CambioContextoFase DEF Corre
<1>3. \A d \in Cpus \ {c} :
        /\ cpu'[d] = cpu[d] /\ operacion'[d] = operacion[d]
        /\ haciaKernel'[d] = haciaKernel[d] /\ haciaCpu'[d] = haciaCpu[d]
  BY <1>1, Llamadas
     DEF Corre, RecibePcb, RecibeBasura, RecibeRespuesta, Nada, Imprimir, Falla, Finalizar,
         AnsisopWait, AnsisopSignal, EntradaSalida, CambioContexto, Instruccion, Sigue, Pide,
         red
<1>4. UNCHANGED <<servidor, fueAsignado>>
  BY CPUAjena DEF pcpVars, clientes
<1>5. Fases'
  BY <1>2, <1>3, <1>4, UnaFase DEF EsperaDe
<1>6. cpu[c] # "apagada" /\ cpu'[c] # "apagada"
  BY <1>1, Llamadas
     DEF Corre, RecibePcb, RecibeBasura, RecibeRespuesta, Nada, Imprimir, Falla, Finalizar,
         AnsisopWait, AnsisopSignal, EntradaSalida, CambioContexto, Instruccion, Sigue
<1>7. \A d \in Cpus : cpu'[d] = "apagada" <=> cpu[d] = "apagada"
  BY <1>3, <1>6
<1>. QED  BY <1>5, <1>7, CPUSinFallas

-----------------------------------------------------------------------------
(* The free CPUs                                                           *)

\* positions of the clients of T
LEMMA OciososSon ==
  ASSUME Tipos
  PROVE  /\ Ociosos = Donde1(listaClientes, Cpus \ fueAsignado)
         /\ IsFiniteSet(Ociosos) /\ Cardinality(Ociosos) \in Nat
<1>1. listaClientes \in Seq(Cpus)
  BY DEF Tipos, TClientes
<1>2. \A k \in DOMAIN listaClientes : listaClientes[k] \in Cpus
  BY <1>1
<1>3. Ociosos = Donde1(listaClientes, Cpus \ fueAsignado)
  BY <1>2 DEF Ociosos, Donde1
<1>. QED  BY <1>1, <1>3, PosicionesFinitas

\* A CPU that gives its PCB back is one more to choose.
LEMMA QuedaLibre ==
  ASSUME SinFallas, NEW c \in Cpus, c \in fueAsignado, QuedaOcioso(c),
         UNCHANGED <<listaClientes, cpu, despacho>>
  PROVE  OciososBien'
<1>1. PICK k \in DOMAIN listaClientes : listaClientes[k] = c
  <2>1. cpu[c] # "apagada"
    BY Llamadas
       DEF FaseCpu, Fase, Ociosa, Despachada, EnRafaga, Pregunta, Contestada, PideES,
           SeBloquea, Devuelve, DevuelveES
  <2>. QED  BY <2>1 DEF SinFallas, Registro
<1>2. Ociosos' = Ociosos \cup {k} /\ k \notin Ociosos
  BY <1>1 DEF Ociosos, QuedaOcioso, SinFallas, Registro
<1>3. IsFiniteSet(Ociosos) /\ Cardinality(Ociosos) \in Nat
  BY OciososSon DEF SinFallas, Cuentas
<1>4. Cardinality(Ociosos') = Cardinality(Ociosos) + 1
  BY <1>2, <1>3, FS_AddElement
<1>5. semClienteOcioso \in Nat
  BY DEF SinFallas, Cuentas, Tipos, TClientes
<1>6. OciososContados'
  BY <1>3, <1>4, <1>5 DEF OciososContados, SinFallas, OciososBien, QuedaOcioso
<1>7. despacho'.pc = "saca" => /\ despacho'.cpu \notin fueAsignado'
                               /\ cpu'[despacho'.cpu] # "apagada"
  BY DEF SinFallas, OciososBien, QuedaOcioso
<1>. QED  BY <1>6, <1>7 DEF OciososBien

\* A CPU that connects is one more to choose.
LEMMA NuevoClienteSinFallas ==
  ASSUME SinFallas, NEW c \in Cpus, NuevoCliente(c) PROVE SinFallas'
<1>1. Cuentas'
  BY AjenosCuenta DEF SinFallas
<1>2. Sano' /\ ExitBien'
  BY QuietoSinFallas DEF NuevoCliente, plpVars, comunes, baja, cpus
<1>3. Ociosa(cpu[c], operacion[c], haciaKernel[c], haciaCpu[c], EsperaDe(c),
            c \in fueAsignado)
  BY Llamadas
     DEF NuevoCliente, FaseCpu, Fase, Ociosa, Despachada, EnRafaga, Pregunta, Contestada,
         PideES, SeBloquea, Devuelve, DevuelveES
<1>4. listaClientes \in Seq(Cpus) /\ cpu' = [cpu EXCEPT ![c] = "espera"]
      /\ UNCHANGED <<operacion, haciaKernel, haciaCpu, servidor, fueAsignado, despacho>>
  BY DEF NuevoCliente, SinFallas, Cuentas, Tipos, TClientes, red
<1>5. Fases'
  <2>1. cpu'[c] = "espera" /\ EsperaDe(c)' = EsperaDe(c)
    BY <1>4, Llamadas DEF EsperaDe
  <2>2. FaseCpu(c)'
    BY <1>3, <1>4, <2>1 DEF Ociosa, FaseCpu, Fase
  <2>3. \A d \in Cpus \ {c} : cpu'[d] = cpu[d]
    BY <1>4, Llamadas
  <2>. QED  BY <1>4, <2>2, <2>3, UnaFase DEF EsperaDe
<1>6. /\ listaClientes' = Append(listaClientes, c)
      /\ DOMAIN listaClientes' = DOMAIN listaClientes \cup {Len(listaClientes) + 1}
      /\ \A k \in DOMAIN listaClientes : listaClientes'[k] = listaClientes[k]
      /\ listaClientes'[Len(listaClientes) + 1] = c
  BY <1>4 DEF NuevoCliente
<1>7. Registro'
  <2>1. \A k \in DOMAIN listaClientes : listaClientes[k] # c
    BY DEF NuevoCliente, SinFallas, Registro
  <2>2. \A i, j \in DOMAIN listaClientes' : listaClientes'[i] = listaClientes'[j] => i = j
    BY <1>6, <2>1 DEF SinFallas, Registro
  <2>3. \A d \in Cpus :
          cpu'[d] # "apagada" <=> \E k \in DOMAIN listaClientes' : listaClientes'[k] = d
    BY <1>4, <1>6, Llamadas DEF SinFallas, Registro
  <2>. QED  BY <2>2, <2>3 DEF Registro
<1>8. OciososBien'
  <2>1. Cardinality(Ociosos') = Cardinality(Ociosos) + 1 /\ Cardinality(Ociosos) \in Nat
    <3>1. Ociosos' = Donde1(listaClientes', Cpus \ fueAsignado)
      BY <1>1, <1>4, OciososSon DEF Cuentas, Tipos, TClientes, Ociosos, Donde1
    <3>2. Ociosos = Donde1(listaClientes, Cpus \ fueAsignado)
          /\ Cardinality(Ociosos) \in Nat
      BY OciososSon DEF SinFallas, Cuentas
    <3>3. c \in Cpus \ fueAsignado
      BY <1>3 DEF Ociosa
    <3>. QED  BY <1>4, <1>6, <3>1, <3>2, <3>3, AppendCuenta
  <2>2. semClienteOcioso' = semClienteOcioso + 1 /\ semClienteOcioso \in Nat
    BY DEF NuevoCliente, SinFallas, Cuentas, Tipos, TClientes
  <2>3. OciososContados'
    BY <1>4, <2>1, <2>2 DEF OciososContados, SinFallas, OciososBien
  <2>4. despacho.pc = "saca" => despacho.cpu \in Cpus
    BY DEF SinFallas, Cuentas, Tipos, TDespacho
  <2>. QED
    BY <1>4, <2>3, <2>4, Llamadas DEF OciososBien, SinFallas
<1>. QED  BY <1>1, <1>2, <1>5, <1>7, <1>8 DEF SinFallas

-----------------------------------------------------------------------------
(* The server of the CPUs                                                  *)

\* The server is not waiting for anybody when it takes a message.
LEMMA LlegaFase ==
  ASSUME SinFallas, NEW c \in Cpus, Llega(c)
  PROVE  /\ haciaKernel[c] \in Seq(AlKernel) /\ haciaKernel[c] # <<>>
         /\ Pedido(c) = haciaKernel[c][1]
         /\ \A d \in Cpus : EsperaDe(d) = "nada"
         /\ Fase(cpu[c], operacion[c], haciaKernel[c], haciaCpu[c], "nada", c \in fueAsignado)
         /\ c \in fueAsignado /\ c \notin programaCerrado /\ cpuAcerrar # c
<1>1. haciaKernel[c] \in Seq(AlKernel) /\ haciaKernel[c] # <<>>
  BY Llamadas DEF Llega
<1>2. \A d \in Cpus : EsperaDe(d) = "nada"
  BY CpusAssumption DEF Llega, EnSelect, EsperaDe
<1>3. Fase(cpu[c], operacion[c], haciaKernel[c], haciaCpu[c], "nada", c \in fueAsignado)
  BY <1>2, Llamadas DEF FaseCpu
<1>4. Pedido(c) = haciaKernel[c][1]
  BY <1>1, ColaPosiciones DEF Pedido
<1>5. c \in fueAsignado
  BY <1>1, <1>3
     DEF Fase, Ociosa, Despachada, EnRafaga, Pregunta, Contestada, PideES, SeBloquea,
         Devuelve, DevuelveES
<1>6. c \notin programaCerrado /\ cpuAcerrar # c
  BY CpusAssumption DEF SinFallas, Sano
<1>. QED  BY <1>1, <1>2, <1>3, <1>4, <1>5, <1>6

\* Taking the only message empties the queue.
LEMMA UnicoPedido ==
  ASSUME NEW q \in Seq(AlKernel), Len(q) = 1
  PROVE  Tail(q) = <<>> /\ q # <<>>
<1>1. q # <<>>
  BY ColaPosiciones
<1>2. Tail(q) \in Seq(AlKernel) /\ Len(Tail(q)) = 0
  BY <1>1, ColaPosiciones
<1>. QED  BY <1>1, <1>2, ColaPosiciones

\* A step of the server with c, that has a message in its queue or is waited
\* for.
LEMMA AtiendeFases ==
  ASSUME SinFallas, NEW c \in Cpus, FaseCpu(c)', UNCHANGED <<cpu, operacion>>,
         \A d \in Cpus \ {c} :
           /\ haciaKernel'[d] = haciaKernel[d] /\ haciaCpu'[d] = haciaCpu[d]
           /\ EsperaDe(d)' = EsperaDe(d) /\ (d \in fueAsignado') = (d \in fueAsignado)
  PROVE  Fases'
BY UnaFase

\* the messages that expect no answer
LEMMA SueltoSinFallas ==
  ASSUME SinFallas, NEW c \in Cpus, OperacionImprimir(c) \/ OperacionSignal(c)
  PROVE  SinFallas'
<1>1. Cuentas'
  BY AjenosCuenta, SignalCuenta DEF SinFallas
<1>2. Llega(c) /\ Consume(c) /\ Suelto(Pedido(c))
  BY DEF OperacionImprimir, OperacionSignal, Suelto
<1>3. UNCHANGED <<kernel, cpuAcerrar, programaCerrado, cerrarCPU, impresora, despacho,
                  servidor, listaClientes, cpu, operacion, haciaCpu, fueAsignado,
                  semClienteOcioso, salida, saliendo>>
  BY DEF OperacionImprimir, OperacionSignal, Ajeno, cpus, plpVars, baja
<1>4. Sano' /\ Registro' /\ OciososBien' /\ ExitBien'
  BY <1>3, QuietoSinFallas
<1>5. haciaKernel'[c] = Tail(haciaKernel[c])
      /\ \A d \in Cpus \ {c} : haciaKernel'[d] = haciaKernel[d]
  BY <1>2, Llamadas DEF Consume
<1>6. Fase(cpu[c], operacion[c], Tail(haciaKernel[c]), haciaCpu[c], "nada",
           c \in fueAsignado)
  BY <1>2, LlegaFase, TomaSuelto
<1>7. FaseCpu(c)'
  <2>1. EsperaDe(c)' = "nada"
    BY <1>2, <1>3, LlegaFase DEF EsperaDe
  <2>. QED  BY <1>3, <1>5, <1>6, <2>1 DEF FaseCpu
<1>8. Fases'
  BY <1>3, <1>5, <1>7, AtiendeFases DEF EsperaDe
<1>. QED  BY <1>1, <1>4, <1>8 DEF SinFallas

\* the PCB comes back with QUANTUM, EXIT or ERROR
LEMMA FinSinFallas ==
  ASSUME SinFallas, NEW c \in Cpus, OperacionQuantum(c) \/ OperacionFin(c)
  PROVE  SinFallas'
<1>1. Cuentas'
  BY AjenosCuenta, VueltaCuenta DEF SinFallas
<1>2. Llega(c) /\ Consume(c) /\ Pedido(c).op \in {"QUANTUM", "EXIT", "ERROR"}
  BY DEF OperacionQuantum, OperacionFin
<1>3. UNCHANGED <<kernel, cpuAcerrar, programaCerrado, cerrarCPU, impresora, despacho,
                  servidor, listaClientes, cpu, operacion, haciaCpu, saliendo>>
  BY DEF OperacionQuantum, OperacionFin, Ajeno, cpus, plpVars, baja
<1>4. QuedaOcioso(c) /\ c \in fueAsignado
  BY <1>2, LlegaFase DEF OperacionQuantum, OperacionFin, QuedaOciosoSalvoCierre
<1>5. Sano' /\ Registro' /\ OciososBien'
  BY <1>3, <1>4, QuietoSinFallas, QuedaLibre
<1>6. ExitBien'
  BY ColaTipo
     DEF OperacionQuantum, OperacionFin, MandaAExit, salida, Ajeno, plpVars, baja,
         SinFallas, ExitBien, Cuentas, Tipos, TSalida
<1>7. Devuelve(cpu[c], operacion[c], haciaKernel[c], haciaCpu[c], "nada",
               c \in fueAsignado)
      /\ Len(haciaKernel[c]) = 1
  BY <1>2, LlegaFase, Cabeza DEF Suelto, Anuncio
<1>8. haciaKernel'[c] = <<>>
      /\ \A d \in Cpus \ {c} : haciaKernel'[d] = haciaKernel[d]
  BY <1>2, <1>7, Llamadas, UnicoPedido DEF Consume
<1>9. FaseCpu(c)'
  <2>1. EsperaDe(c)' = "nada"
    BY <1>2, <1>3, LlegaFase DEF EsperaDe
  <2>. QED
    BY <1>3, <1>4, <1>7, <1>8, <2>1
       DEF FaseCpu, Fase, Ociosa, Devuelve, QuedaOcioso
<1>10. Fases'
  <2>1. \A d \in Cpus \ {c} : (d \in fueAsignado') = (d \in fueAsignado)
    BY <1>4 DEF QuedaOcioso
  <2>. QED  BY <1>3, <1>8, <1>9, <2>1, AtiendeFases DEF EsperaDe
<1>. QED  BY <1>1, <1>5, <1>6, <1>10 DEF SinFallas

LEMMA IOSinFallas ==
  ASSUME SinFallas, NEW c \in Cpus, OperacionIO(c) PROVE SinFallas'
<1>1. Cuentas'
  BY VueltaCuenta DEF SinFallas
<1>2. Llega(c) /\ Consume(c) /\ Anuncio(Pedido(c), "IO")
  BY DEF OperacionIO, Anuncio
<1>3. UNCHANGED <<kernel, cpuAcerrar, programaCerrado, cerrarCPU, impresora, despacho,
                  listaClientes, cpu, operacion, haciaCpu, fueAsignado, semClienteOcioso,
                  salida, saliendo>>
  BY DEF OperacionIO, Ajeno, cpus, plpVars, baja, comunes
<1>4. servidor'.pc = "pcbIO" /\ servidor'.cpu = c
  BY DEF OperacionIO
<1>5. Registro' /\ OciososBien' /\ ExitBien'
  BY <1>3, QuietoSinFallas
<1>6. Sano'
  BY <1>3, <1>4 DEF SinFallas, Sano
<1>. DEFINE q == haciaKernel[c]
<1>7. haciaKernel'[c] = Tail(q) /\ \A d \in Cpus \ {c} : haciaKernel'[d] = haciaKernel[d]
  BY <1>2, Llamadas DEF Consume
<1>8. q \in Seq(AlKernel) /\ q # <<>>
  BY <1>2, LlegaFase
<1>9. /\ c \in fueAsignado
      /\ \/ PideES(cpu[c], operacion[c], q, haciaCpu[c], "nada", c \in fueAsignado)
              /\ Len(q) = 1
         \/ DevuelveES(cpu[c], operacion[c], q, haciaCpu[c], "nada", c \in fueAsignado)
              /\ Len(q) = 2
  BY <1>2, LlegaFase, Cabeza DEF Suelto, Anuncio
<1>10. EsperaDe(c)' = "pcbIO" /\ \A d \in Cpus \ {c} : EsperaDe(d)' = EsperaDe(d)
  BY <1>2, <1>4, LlegaFase DEF EsperaDe
<1>11. FaseCpu(c)'
  <2>1. CASE /\ PideES(cpu[c], operacion[c], q, haciaCpu[c], "nada", c \in fueAsignado)
             /\ Len(q) = 1
    <3>1. Tail(q) = <<>>
      BY <1>8, <2>1, UnicoPedido
    <3>2. PideES(cpu'[c], operacion'[c], haciaKernel'[c], haciaCpu'[c], EsperaDe(c)',
                 c \in fueAsignado')
      BY <1>3, <1>7, <1>10, <2>1, <3>1 DEF PideES
    <3>. QED  BY <3>2 DEF FaseCpu, Fase
  <2>2. CASE /\ DevuelveES(cpu[c], operacion[c], q, haciaCpu[c], "nada", c \in fueAsignado)
             /\ Len(q) = 2
    <3>1. Len(Tail(q)) = 1 /\ Tail(q)[1] = q[2]
      BY <1>8, <2>2, ColaPosiciones
    <3>2. DevuelveES(cpu'[c], operacion'[c], haciaKernel'[c], haciaCpu'[c], EsperaDe(c)',
                     c \in fueAsignado')
      BY <1>3, <1>7, <1>10, <2>2, <3>1 DEF DevuelveES, Ultimo
    <3>. QED  BY <3>2 DEF FaseCpu, Fase
  <2>. QED  BY <1>9, <2>1, <2>2
<1>12. Fases'
  BY <1>3, <1>7, <1>10, <1>11, AtiendeFases
<1>. QED  BY <1>1, <1>5, <1>6, <1>12 DEF SinFallas

LEMMA WaitSinFallas ==
  ASSUME SinFallas, NEW c \in Cpus, OperacionWait(c) PROVE SinFallas'
<1>1. Cuentas'
  BY WaitCuenta DEF SinFallas
<1>2. Llega(c) /\ Consume(c) /\ Anuncio(Pedido(c), "WAIT")
  BY DEF OperacionWait, Anuncio
<1>3. UNCHANGED <<kernel, cpuAcerrar, programaCerrado, cerrarCPU, impresora, despacho,
                  listaClientes, cpu, operacion, fueAsignado, semClienteOcioso,
                  salida, saliendo>>
  BY DEF OperacionWait, Ajeno, cpus, plpVars, baja, comunes
<1>4. PICK op \in {"NOTHING", "WAIT"} :
        /\ Responde(c, op)
        /\ op = "NOTHING" => UNCHANGED servidor
        /\ op = "WAIT" => servidor'.pc = "pcbWait" /\ servidor'.cpu = c
  BY <1>2, LlegaFase DEF OperacionWait
<1>5. Registro' /\ OciososBien' /\ ExitBien'
  BY <1>3, QuietoSinFallas
<1>6. Sano'
  BY <1>3, <1>4 DEF SinFallas, Sano
<1>7. Pregunta(cpu[c], operacion[c], haciaKernel[c], haciaCpu[c], "nada",
               c \in fueAsignado)
      /\ Len(haciaKernel[c]) = 1
  BY <1>2, LlegaFase, Cabeza DEF Suelto, Anuncio
<1>8. haciaKernel'[c] = <<>>
      /\ \A d \in Cpus \ {c} : haciaKernel'[d] = haciaKernel[d]
  BY <1>2, <1>7, Llamadas, UnicoPedido DEF Consume
<1>9. /\ Len(haciaCpu'[c]) = 1 /\ Anuncio(haciaCpu'[c][1], op)
      /\ \A d \in Cpus \ {c} : haciaCpu'[d] = haciaCpu[d]
  <2>1. haciaCpu[c] = <<>>
    BY <1>7 DEF Pregunta
  <2>2. haciaCpu'[c] = <<Mensaje(op, Nadie, SinArg)>>
    BY <1>4, <2>1, Llamadas DEF Responde
  <2>3. Len(<<Mensaje(op, Nadie, SinArg)>>) = 1
        /\ <<Mensaje(op, Nadie, SinArg)>>[1] = Mensaje(op, Nadie, SinArg)
    OBVIOUS
  <2>4. Anuncio(Mensaje(op, Nadie, SinArg), op)
    BY DEF Mensaje, Anuncio
  <2>5. \A d \in Cpus \ {c} : haciaCpu'[d] = haciaCpu[d]
    BY <1>4, Llamadas DEF Responde
  <2>. QED  BY <2>2, <2>3, <2>4, <2>5
<1>10. /\ EsperaDe(c)' = IF op = "NOTHING" THEN "nada" ELSE "pcbWait"
       /\ \A d \in Cpus \ {c} : EsperaDe(d)' = EsperaDe(d)
  <2>1. \A d \in Cpus : EsperaDe(d) = "nada"
    BY <1>2, LlegaFase
  <2>2. CASE op = "NOTHING"
    BY <1>4, <2>1, <2>2 DEF EsperaDe
  <2>3. CASE op = "WAIT"
    BY <1>4, <2>1, <2>3 DEF EsperaDe
  <2>. QED  BY <1>4, <2>2, <2>3
<1>11. FaseCpu(c)'
  <2>1. Contestada(cpu'[c], operacion'[c], haciaKernel'[c], haciaCpu'[c], EsperaDe(c)',
                   c \in fueAsignado')
    BY <1>3, <1>7, <1>8, <1>9, <1>10 DEF Contestada, Pregunta
  <2>. QED  BY <2>1 DEF FaseCpu, Fase
<1>12. Fases'
  BY <1>3, <1>8, <1>9, <1>10, <1>11, AtiendeFases
<1>. QED  BY <1>1, <1>5, <1>6, <1>12 DEF SinFallas

\* the second message of WAIT or IO arrives
LEMMA PcbSinFallas ==
  ASSUME SinFallas, NEW c \in Cpus, RecibeBloqueado(c) \/ RecibeSolicitud(c)
  PROVE  SinFallas'
<1>1. Cuentas'
  BY BloqueaCuenta, VueltaCuenta DEF SinFallas
<1>2. EsperaPcb(c) /\ Consume(c) /\ haciaKernel[c] # <<>> /\ Pedido(c).pcb # Nadie
      /\ servidor' = EnSelect
  BY DEF RecibeBloqueado, RecibeSolicitud
<1>3. UNCHANGED <<kernel, cpuAcerrar, programaCerrado, cerrarCPU, impresora, despacho,
                  listaClientes, cpu, operacion, haciaCpu, salida, saliendo>>
  BY DEF RecibeBloqueado, RecibeSolicitud, Ajeno, cpus, plpVars, baja, comunes
<1>4. EsperaDe(c) \in {"pcbWait", "pcbIO"}
  BY <1>2 DEF EsperaPcb, EsperaDe
<1>5. /\ c \in fueAsignado /\ Len(haciaKernel[c]) = 1 /\ cpu[c] = "espera"
      /\ haciaCpu[c] = <<>>
  BY <1>2, <1>4, Llamadas
     DEF FaseCpu, Fase, Ociosa, Despachada, EnRafaga, Pregunta, Contestada, PideES,
         SeBloquea, Devuelve, DevuelveES
<1>6. QuedaOcioso(c)
  BY CpusAssumption
     DEF RecibeBloqueado, RecibeSolicitud, QuedaOciosoSalvoCierre, SinFallas, Sano
<1>7. Registro' /\ OciososBien' /\ ExitBien'
  BY <1>3, <1>5, <1>6, QuietoSinFallas, QuedaLibre
<1>8. Sano'
  BY <1>2, <1>3 DEF SinFallas, Sano
<1>9. haciaKernel'[c] = <<>>
      /\ \A d \in Cpus \ {c} : haciaKernel'[d] = haciaKernel[d]
  BY <1>2, <1>5, Llamadas, UnicoPedido DEF Consume
<1>10. \A d \in Cpus : EsperaDe(d)' = "nada" /\ (d # c => EsperaDe(d) = "nada")
  BY <1>2, CpusAssumption DEF EsperaDe, EnSelect, EsperaPcb
<1>11. FaseCpu(c)'
  BY <1>3, <1>5, <1>6, <1>9, <1>10 DEF FaseCpu, Fase, Ociosa, QuedaOcioso
<1>12. Fases'
  <2>1. \A d \in Cpus \ {c} : (d \in fueAsignado') = (d \in fueAsignado)
    BY <1>6 DEF QuedaOcioso
  <2>. QED  BY <1>3, <1>9, <1>10, <1>11, <2>1, AtiendeFases
<1>. QED  BY <1>1, <1>7, <1>8, <1>12 DEF SinFallas

\* What a failure would bring does not happen.
LEMMA AtiendeNada ==
  ASSUME SinFallas, NEW c \in Cpus
  PROVE  /\ ~DescartaPcb(c) /\ ~DescartaPedido(c) /\ ~OperacionSigusr(c)
         /\ ~MensajeDesfasado(c) /\ ~PcbDesfasado(c) /\ ~CierraConexion(c)
<1>1. ~DescartaPcb(c) /\ ~DescartaPedido(c)
  BY DEF DescartaPcb, DescartaPedido, SinFallas, Sano
<1>2. ~OperacionSigusr(c)
  <2>1. SUFFICES ASSUME OperacionSigusr(c) PROVE FALSE
    OBVIOUS
  <2>2. Llega(c) /\ Pedido(c).op = "SIGUSR"
    BY <2>1 DEF OperacionSigusr
  <2>. QED  BY <2>2, LlegaFase, Cabeza DEF Suelto, Anuncio
<1>3. ~MensajeDesfasado(c)
  <2>1. SUFFICES ASSUME MensajeDesfasado(c) PROVE FALSE
    OBVIOUS
  <2>2. Llega(c)
    BY <2>1 DEF MensajeDesfasado
  <2>3. Pedido(c).op \in {"WAIT", "IO"} => Pedido(c).pcb = Nadie
    BY <2>2, LlegaFase, Cabeza DEF Suelto, Anuncio
  <2>4. pcbAsignado[c] # Nulo
    BY <2>2, LlegaFase, PidsTipo DEF SinFallas, Cuentas, Tipos, TClientes
  <2>. QED  BY <2>1, <2>3, <2>4 DEF MensajeDesfasado
<1>4. cpu[c] # "cerrada"
  BY Llamadas
     DEF FaseCpu, Fase, Ociosa, Despachada, EnRafaga, Pregunta, Contestada, PideES,
         SeBloquea, Devuelve, DevuelveES
<1>5. ~PcbDesfasado(c)
  <2>1. SUFFICES ASSUME EsperaPcb(c), haciaKernel[c] # <<>>, Pedido(c).pcb = Nadie
                 PROVE  FALSE
    BY <1>4 DEF PcbDesfasado
  <2>2. EsperaDe(c) \in {"pcbWait", "pcbIO"}
    BY <2>1 DEF EsperaPcb, EsperaDe
  <2>3. Pedido(c) = haciaKernel[c][1]
    BY <2>1, Llamadas, ColaPosiciones DEF Pedido
  <2>4. haciaKernel[c][1].pcb # Nadie
    BY <2>1, <2>2, Llamadas
       DEF FaseCpu, Fase, Ociosa, Despachada, EnRafaga, Pregunta, Contestada, PideES,
           SeBloquea, Devuelve, DevuelveES, Entrega, Ultimo
  <2>. QED  BY <2>1, <2>3, <2>4
<1>6. ~CierraConexion(c)
  BY <1>4 DEF CierraConexion
<1>. QED  BY <1>1, <1>2, <1>3, <1>5, <1>6

LEMMA AtiendeSinFallas ==
  ASSUME SinFallas, NEW c \in Cpus, Atiende(c) PROVE SinFallas'
BY SueltoSinFallas, FinSinFallas, IOSinFallas, WaitSinFallas, PcbSinFallas, AtiendeNada
   DEF Atiende

-----------------------------------------------------------------------------
(* The dispatcher                                                          *)

LEMMA EligeSinFallas ==
  ASSUME SinFallas, EsperaReady \/ EligeOcioso PROVE SinFallas'
<1>1. Cuentas'
  BY DespachaCuenta DEF SinFallas
<1>2. UNCHANGED <<kernel, cpuAcerrar, programaCerrado, cerrarCPU, impresora, servidor,
                  listaClientes, cpu, operacion, haciaKernel, haciaCpu, fueAsignado, salida,
                  saliendo>>
  BY DEF EsperaReady, EligeOcioso, plpVars, baja, clientes, comunes, cpus, red
<1>3. Registro' /\ Fases' /\ ExitBien'
  BY <1>2, QuietoSinFallas
<1>4. Sano'
  BY <1>2 DEF EsperaReady, EligeOcioso, SinFallas, Sano
<1>5. Ociosos' = Ociosos
  BY <1>2 DEF Ociosos
<1>6. OciososBien'
  <2>1. CASE EsperaReady
    BY <1>2, <1>5, <2>1
       DEF EsperaReady, clientes, SinFallas, OciososBien, OciososContados
  <2>2. CASE EligeOcioso
    <3>1. PICK k \in Ociosos :
            despacho' = [pc |-> "saca", cpu |-> listaClientes[k], pcb |-> Nadie]
      BY <2>2 DEF EligeOcioso, Primera
    <3>2. listaClientes[k] \notin fueAsignado /\ listaClientes[k] \in Cpus
          /\ k \in DOMAIN listaClientes
      BY DEF Ociosos, SinFallas, Cuentas, Tipos, TClientes
    <3>3. cpu[listaClientes[k]] # "apagada"
      BY <3>2 DEF SinFallas, Registro
    <3>4. /\ semClienteOcioso' = semClienteOcioso - 1 /\ semClienteOcioso \in Nat
          /\ despacho.pc = "ocioso"
      BY <2>2 DEF EligeOcioso, SinFallas, Cuentas, Tipos, TClientes
    <3>5. semClienteOcioso = Cardinality(Ociosos)
      BY <3>4 DEF SinFallas, OciososBien, OciososContados
    <3>6. OciososContados'
      BY <1>5, <3>1, <3>4, <3>5 DEF OciososContados
    <3>. QED  BY <1>2, <3>1, <3>2, <3>3, <3>6 DEF OciososBien
  <2>. QED  BY <2>1, <2>2
<1>. QED  BY <1>1, <1>3, <1>4, <1>6 DEF SinFallas

\* The CPU that was chosen gets the PCB and the mark in the same step.
LEMMA EnviaPcbSinFallas ==
  ASSUME SinFallas, EnviaPcb, Carreras = {} PROVE SinFallas'
<1>1. Cuentas'
  BY DespachaCuenta DEF SinFallas
<1>2. PICK c \in Cpus : /\ c = despacho.cpu /\ c \notin fueAsignado /\ cpu[c] # "apagada"
                        /\ despacho.pc = "saca"
  BY DEF EnviaPcb, SinFallas, OciososBien, Cuentas, Tipos, TDespacho
<1>3. PICK p \in Pids : Envia(p) /\ Asigna(p)
  <2>1. Head(colaReady) \in Pids
    BY ColaTipo DEF EnviaPcb, SacaDeReady, SinFallas, Cuentas, Tipos, TListos
  <2>. QED  BY <2>1 DEF EnviaPcb
<1>4. UNCHANGED <<kernel, cpuAcerrar, programaCerrado, cerrarCPU, impresora, servidor,
                  listaClientes, cpu, operacion, haciaKernel, semClienteOcioso, salida,
                  saliendo>>
  BY DEF EnviaPcb, plpVars, baja, cpus
<1>5. Registro' /\ ExitBien'
  BY <1>4, QuietoSinFallas
<1>6. Sano'
  BY <1>3, <1>4 DEF Asigna, EnEspera, SinFallas, Sano
<1>7. Ociosa(cpu[c], operacion[c], haciaKernel[c], haciaCpu[c], EsperaDe(c),
            c \in fueAsignado)
  BY <1>2, Llamadas
     DEF FaseCpu, Fase, Ociosa, Despachada, EnRafaga, Pregunta, Contestada, PideES,
         SeBloquea, Devuelve, DevuelveES
<1>8. Fases'
  <2>1. haciaCpu'[c] = <<Mensaje("NOTHING", p, SinArg)>>
    BY <1>2, <1>3, <1>7, Llamadas DEF Envia, Ociosa
  <2>2. /\ Len(<<Mensaje("NOTHING", p, SinArg)>>) = 1
        /\ <<Mensaje("NOTHING", p, SinArg)>>[1] = Mensaje("NOTHING", p, SinArg)
    OBVIOUS
  <2>3. Mensaje("NOTHING", p, SinArg).pcb # Nadie
    BY PidsTipo DEF Mensaje
  <2>4. cpu[c] = "espera" /\ c \in fueAsignado'
    BY <1>2, <1>3, <1>7 DEF Ociosa, Asigna
  <2>5. Despachada(cpu'[c], operacion'[c], haciaKernel'[c], haciaCpu'[c], EsperaDe(c)',
                   c \in fueAsignado')
    BY <1>4, <1>7, <2>1, <2>2, <2>3, <2>4 DEF Despachada, Ociosa, EsperaDe
  <2>6. FaseCpu(c)'
    BY <2>5 DEF FaseCpu, Fase
  <2>7. \A d \in Cpus \ {c} : /\ haciaCpu'[d] = haciaCpu[d]
                              /\ (d \in fueAsignado') = (d \in fueAsignado)
    BY <1>2, <1>3, Llamadas DEF Envia, Asigna
  <2>. QED  BY <1>4, <2>6, <2>7, AtiendeFases DEF EsperaDe
<1>9. OciososBien'
  <2>1. PICK k \in DOMAIN listaClientes : listaClientes[k] = c
    BY <1>2 DEF SinFallas, Registro
  <2>2. Ociosos' = Ociosos \ {k} /\ k \in Ociosos
    BY <1>2, <1>3, <1>4, <2>1 DEF Ociosos, Asigna, SinFallas, Registro
  <2>3. IsFiniteSet(Ociosos) /\ Cardinality(Ociosos) \in Nat
    BY OciososSon DEF SinFallas, Cuentas
  <2>4. Cardinality(Ociosos') = Cardinality(Ociosos) - 1
    BY <2>2, <2>3, FS_RemoveElement
  <2>5. despacho'.pc = "espera"
    BY <1>3 DEF Asigna, EnEspera
  <2>6. semClienteOcioso + 1 = Cardinality(Ociosos) /\ semClienteOcioso \in Nat
    BY <1>2 DEF SinFallas, OciososBien, OciososContados, Cuentas, Tipos, TClientes
  <2>7. OciososContados'
    BY <1>4, <2>3, <2>4, <2>5, <2>6 DEF OciososContados
  <2>. QED  BY <2>5, <2>7 DEF OciososBien
<1>. QED  BY <1>1, <1>5, <1>6, <1>8, <1>9 DEF SinFallas

\* What is chosen and popped is there.
LEMMA DespachaNada ==
  ASSUME SinFallas PROVE ~DespachaNulo /\ ~AsignaPcb
<1>1. SUFFICES ASSUME DespachaNulo PROVE FALSE
  BY DEF AsignaPcb, SinFallas, Sano
<1>2. CASE despacho.pc = "ocioso" /\ semClienteOcioso > 0 /\ Ociosos = {}
  <2>1. semClienteOcioso + 0 = Cardinality({}) /\ Cardinality({}) = 0
    BY <1>2, FS_EmptySet DEF SinFallas, OciososBien, OciososContados
  <2>. QED  BY <1>2, <2>1 DEF SinFallas, Cuentas, Tipos, TClientes
<1>3. CASE despacho.pc = "saca" /\ colaReady = <<>>
  <2>1. impresora.cola = "ninguna"
    BY DEF SinFallas, Sano, Cuentas, Tipos, TImpresora
  <2>2. semNuevoPcbColaReady + 1 = Len(<<>>) + 0
    BY <1>3, <2>1 DEF SinFallas, Cuentas, ListosContados
  <2>. QED  BY <2>2 DEF SinFallas, Cuentas, Tipos, TListos
<1>. QED  BY <1>1, <1>2, <1>3 DEF DespachaNulo

-----------------------------------------------------------------------------
(* The devices, the PLP and the whole                                      *)

LEMMA DispositivoSinFallas ==
  ASSUME SinFallas, NEW d \in Dispositivos, TomaSolicitud(d) \/ TerminaIO(d)
  PROVE  SinFallas'
<1>1. Cuentas'
  BY DispositivoCuenta DEF SinFallas
<1>2. UNCHANGED <<kernel, clientes, cerrarCPU, impresora, despacho, servidor, cpu, operacion,
                  red, salida, saliendo>>
  BY DEF TomaSolicitud, TerminaIO, plpVars, baja, comunes, cpus
<1>. QED  BY <1>1, <1>2, QuietoSinFallas DEF SinFallas, clientes, red

LEMMA PLPSinFallas ==
  ASSUME SinFallas, NextPLP, "programa" \notin Cortes PROVE SinFallas'
<1>1. Cuentas'
  BY PLPCuenta DEF SinFallas
<1>2. ~DestruyeNulo
  BY DEF DestruyeNulo, SinFallas, ExitBien
<1>3. UNCHANGED <<kernel, clientes, cerrarCPU, impresora, despacho, servidor, cpu, operacion,
                  red>>
  BY <1>2
     DEF NextPLP, LlegaPrograma, NotaCierre, EsperaNuevo, Admite, EnviaMensaje, SacaDeExit,
         Destruye, CierraPrograma, CortaPrograma, pcpVars, cpus
<1>4. ExitBien'
  <2>1. colaExit \in Seq(Pids) /\ semProgExit \in Nat /\ Nulo \notin Pids
    BY PidsTipo DEF SinFallas, Cuentas, Tipos, TSalida
  <2>2. CASE SacaDeExit
    BY <2>1, <2>2, ColaTipo DEF SacaDeExit, vacia, SinFallas, ExitBien
  <2>3. CASE \E r \in Creaciones : LlegaPrograma(r)
    <3>1. UNCHANGED saliendo
      BY <2>3 DEF LlegaPrograma, baja
    <3>2. UNCHANGED salida \/ \E p : MandaAExit(p)
      BY <2>3 DEF LlegaPrograma, CrearPCB
    <3>3. CASE UNCHANGED salida
      BY <3>1, <3>3, QuietoSinFallas
    <3>4. CASE \E p : MandaAExit(p)
      BY <2>1, <3>1, <3>4 DEF MandaAExit, SinFallas, ExitBien
    <3>. QED  BY <3>2, <3>3, <3>4
  <2>4. CASE Destruye
    BY <2>4 DEF Destruye, comunes, salida, SinFallas, ExitBien, Nadie, Nulo
  <2>5. CASE \/ \E p \in Pids : NotaCierre(p) \/ CierraPrograma(p) \/ CortaPrograma(p)
             \/ EsperaNuevo \/ Admite \/ EnviaMensaje
    BY <2>5, QuietoSinFallas
       DEF NotaCierre, CierraPrograma, CortaPrograma, EsperaNuevo, Admite, EnviaMensaje,
           comunes, baja
  <2>. QED  BY <1>2, <2>2, <2>3, <2>4, <2>5 DEF NextPLP
<1>. QED  BY <1>1, <1>3, <1>4, QuietoSinFallas DEF SinFallas, clientes, red

LEMMA PCPSinFallas ==
  ASSUME SinFallas, NextPCP, Carreras = {} PROVE SinFallas'
<1>1. ~FinalizaPcb
  BY DEF FinalizaPcb, EsperaFinaliza, FinalizaBloqueado, FinalizaReady, FinalizaAsignado,
         FinalizaBasura, Finaliza, SinFallas, Cuentas, SinCierre
<1>2. ~DescuentaOcioso /\ ~ReponeCola /\ \A hilo, cola : ~VaciaCola(hilo, cola)
  BY DEF DescuentaOcioso, ReponeCola, VaciaCola, SinFallas, Sano, EnSelect
<1>. QED
  BY <1>1, <1>2, NuevoClienteSinFallas, AtiendeSinFallas, EligeSinFallas, EnviaPcbSinFallas,
     DespachaNada, DispositivoSinFallas DEF NextPCP, Despacha

LEMMA InitSinFallas == Init => SinFallas
<1>. SUFFICES ASSUME Init PROVE SinFallas
  OBVIOUS
<1>1. Cuentas
  BY InitCuentas
<1>2. Sano
  BY DEF Init, InitPCP, InitCPU, EnEspera, SinImpresion, Sano
<1>3. Registro
  BY DEF Init, InitPCP, InitCPU, Registro
<1>4. Fases
  <2>1. \A c \in Cpus : EsperaDe(c) = "nada"
    BY CpusAssumption DEF Init, InitPCP, EnSelect, EsperaDe
  <2>. QED
    BY <2>1 DEF Init, InitPCP, InitCPU, Fases, FaseCpu, Fase, Ociosa
<1>5. OciososBien
  <2>1. Ociosos = {}
    BY DEF Init, InitPCP, Ociosos
  <2>. QED
    BY <2>1, FS_EmptySet DEF Init, InitPCP, EnEspera, OciososBien, OciososContados
<1>6. ExitBien
  BY DEF Init, InitPLP, ExitBien, Nadie, Nulo
<1>. QED  BY <1>1, <1>2, <1>3, <1>4, <1>5, <1>6 DEF SinFallas

LEMMA NextSinFallas ==
  ASSUME Cortes = {}, Carreras = {}, SinFallas, [Next]_vars PROVE SinFallas'
<1>1. CASE UNCHANGED vars
  <2>1. Cuentas'
    BY NextCuentas DEF SinFallas
  <2>. QED
    BY <1>1, <2>1, QuietoSinFallas
       DEF vars, plpVars, pcpVars, comunes, cpus, clientes, red, baja, SinFallas
<1>2. CASE Next
  BY <1>2, PLPSinFallas, PCPSinFallas, CPUFases DEF Next
<1>. QED  BY <1>1, <1>2

LEMMA SpecSinFallas ==
  ASSUME Cortes = {}, Carreras = {} PROVE Spec => []SinFallas
BY InitSinFallas, NextSinFallas, PTL DEF Spec

-----------------------------------------------------------------------------
(* The theorems                                                            *)

\* When nothing fails no thread of the Kernel pops an empty queue, chooses a
\* client that is not there or takes one message for another.
THEOREM KernelNoCae ==
  ASSUME Cortes = {}, Carreras = {} PROVE Spec => []KernelVivo
<1>1. SinFallas => KernelVivo
  BY DEF SinFallas, Sano, KernelVivo
<1>. QED  BY <1>1, SpecSinFallas, PTL

\* When nothing fails semClienteOcioso counts the CPUs that may be chosen.
THEOREM OciososContadosSiempre ==
  ASSUME Cortes = {}, Carreras = {} PROVE Spec => []OciososContados
<1>1. SinFallas => OciososContados
  BY DEF SinFallas, OciososBien
<1>. QED  BY <1>1, SpecSinFallas, PTL

\* When nothing fails a CPU that may be chosen waits for a PCB and owes the
\* Kernel nothing.
THEOREM OciosoEspera ==
  ASSUME Cortes = {}, Carreras = {} PROVE Spec => []OciosoDeVerdad
<1>1. SinFallas => OciosoDeVerdad
  <2>1. SUFFICES ASSUME SinFallas, NEW c \in Range(listaClientes) \ fueAsignado
                 PROVE  cpu[c] = "espera" /\ haciaCpu[c] = <<>> /\ haciaKernel[c] = <<>>
    BY DEF OciosoDeVerdad
  <2>2. PICK k \in DOMAIN listaClientes : listaClientes[k] = c
    BY DEF Range
  <2>3. c \in Cpus
    BY <2>1, <2>2 DEF SinFallas, Cuentas, Tipos, TClientes
  <2>4. cpu[c] # "apagada"
    BY <2>1, <2>2, <2>3 DEF SinFallas, Registro
  <2>5. FaseCpu(c) /\ c \notin fueAsignado
    BY <2>1, <2>3 DEF SinFallas, Fases
  <2>. QED
    BY <2>4, <2>5
       DEF FaseCpu, Fase, Ociosa, Despachada, EnRafaga, Pregunta, Contestada, PideES,
           SeBloquea, Devuelve, DevuelveES
<1>. QED  BY <1>1, SpecSinFallas, PTL

-----------------------------------------------------------------------------
(* Where the PCB of a CPU is                                               *)

\* a CPU that waits or is off has given its PCB back
Manos == \A c \in Cpus : cpu[c] \in {"apagada", "espera"} => pcb[c] = Nadie

LEMMA InitManos == Init => Manos
BY DEF Init, InitCPU, Manos

LEMMA NextManos ==
  ASSUME SinFallas, Manos, [Next]_vars PROVE Manos'
<1>1. ASSUME UNCHANGED <<cpu, pcb>> PROVE Manos'
  BY <1>1 DEF Manos
<1>2. CASE UNCHANGED vars \/ NextPLP
  BY <1>1, <1>2
     DEF vars, cpus, NextPLP, LlegaPrograma, NotaCierre, EsperaNuevo, Admite, EnviaMensaje,
         SacaDeExit, Destruye, DestruyeNulo, Cae, CierraPrograma, CortaPrograma
<1>3. CASE NextCPU
  <2>1. PICK c \in Cpus : Corre(c) \/ Sigusr1(c) \/ CaeCpu(c)
    BY <1>3 DEF NextCPU
  <2>2. \/ cpu'[c] \notin {"apagada", "espera"} \/ pcb'[c] = Nadie
    BY <2>1, Llamadas
       DEF Corre, RecibePcb, RecibeBasura, RecibeRespuesta, Nada, Imprimir, Falla, Finalizar,
           AnsisopWait, AnsisopSignal, EntradaSalida, CambioContexto, Instruccion, Sigue,
           Sigusr1, CaeCpu, SinFallas, Cuentas, Tipos, TCpu
  <2>3. \A d \in Cpus \ {c} : cpu'[d] = cpu[d] /\ pcb'[d] = pcb[d]
    BY <2>1, Llamadas
       DEF Corre, RecibePcb, RecibeBasura, RecibeRespuesta, Nada, Imprimir, Falla, Finalizar,
           AnsisopWait, AnsisopSignal, EntradaSalida, CambioContexto, Instruccion, Sigue,
           Sigusr1, CaeCpu, SinFallas, Cuentas, Tipos, TCpu
  <2>. QED  BY <2>2, <2>3 DEF Manos
<1>4. CASE NextPCP
  <2>1. CASE \E c \in Cpus : NuevoCliente(c)
    BY <2>1, Llamadas DEF NuevoCliente, Manos
  <2>2. CASE \E c \in Cpus : Atiende(c)
    <3>1. PICK c \in Cpus : Atiende(c)
      BY <2>2
    <3>2. UNCHANGED <<cpu, pcb>>
      BY <3>1, AtiendeNada
         DEF Atiende, OperacionQuantum, OperacionIO, OperacionFin, OperacionImprimir,
             OperacionWait, OperacionSignal, RecibeBloqueado, RecibeSolicitud, Ajeno, cpus
    <3>. QED  BY <1>1, <3>2
  <2>3. CASE DescuentaOcioso \/ Despacha \/ FinalizaPcb \/ ReponeCola
    BY <1>1, <2>3
       DEF DescuentaOcioso, Despacha, EsperaReady, EligeOcioso, EnviaPcb, AsignaPcb,
           DespachaNulo, Cae, FinalizaPcb, EsperaFinaliza, FinalizaBloqueado, FinalizaReady,
           FinalizaAsignado, FinalizaBasura, Finaliza, ReponeCola, cpus
  <2>4. CASE \/ \E d \in Dispositivos : TomaSolicitud(d) \/ TerminaIO(d)
             \/ \E hilo \in {"servidor", "despacho"}, cola \in {"ready", "exit"} :
                  VaciaCola(hilo, cola)
    BY <1>1, <2>4 DEF TomaSolicitud, TerminaIO, VaciaCola, cpus
  <2>. QED  BY <1>4, <2>1, <2>2, <2>3, <2>4 DEF NextPCP
<1>. QED  BY <1>2, <1>3, <1>4 DEF Next

\* What the abstract processor runs, phase by phase.
LEMMA OcupaEs ==
  ASSUME SinFallas, Manos, NEW c \in Cpus
  PROVE  /\ cpu[c] \in {"corre", "respuesta", "desaloja"} =>
              pcb[c] # Nadie /\ pcb[c] \in Pids /\ Ocupa(c) = pcb[c]
         /\ cpu[c] \in {"apagada", "espera"} => pcb[c] = Nadie
         /\ haciaCpu[c] # <<>> => Head(haciaCpu[c]) = haciaCpu[c][1]
         /\ cpu[c] = "espera" /\ haciaKernel[c] # <<>> =>
              /\ Ocupa(c) = Ultimo(haciaKernel[c]).pcb
              /\ haciaCpu[c] = <<>> /\ Ultimo(haciaKernel[c]).pcb # Nadie
         /\ c \notin fueAsignado => Ocupa(c) = Nadie /\ pcb[c] = Nadie
         /\ c \in fueAsignado => Ocupa(c) # Nadie
<1>1. /\ haciaKernel[c] \in Seq(AlKernel) /\ haciaCpu[c] \in Seq(AlCpu) /\ FaseCpu(c)
  BY Llamadas
<1>2. cpu[c] \in {"corre", "respuesta", "desaloja"} =>
        pcb[c] # Nadie /\ pcb[c] \in Pids /\ Ocupa(c) = pcb[c]
  BY PidsTipo DEF SinFallas, Cuentas, Tipos, TCpu, Ocupa
<1>3. cpu[c] \in {"apagada", "espera"} => pcb[c] = Nadie
  BY DEF Manos
<1>4. haciaCpu[c] # <<>> => Head(haciaCpu[c]) = haciaCpu[c][1]
  BY <1>1, ColaPosiciones
<1>5. ASSUME haciaKernel[c] # <<>>
      PROVE  /\ Len(haciaKernel[c]) \in Nat /\ Len(haciaKernel[c]) >= 1
             /\ Ultimo(haciaKernel[c]) \in AlKernel
  BY <1>1, <1>5 DEF Ultimo
<1>6. ASSUME cpu[c] = "espera", haciaKernel[c] # <<>>
      PROVE  haciaCpu[c] = <<>> /\ Ultimo(haciaKernel[c]).pcb # Nadie
  <2>1. haciaCpu[c] = <<>>
    BY <1>1, <1>6
       DEF FaseCpu, Fase, Ociosa, Despachada, EnRafaga, Pregunta, Contestada, PideES,
           SeBloquea, Devuelve, DevuelveES
  <2>2. \/ Entrega(Ultimo(haciaKernel[c]), "WAIT") \/ Entrega(Ultimo(haciaKernel[c]), "IO")
        \/ Ultimo(haciaKernel[c]).op \in {"QUANTUM", "EXIT", "ERROR"}
    BY <1>1, <1>6
       DEF FaseCpu, Fase, Ociosa, Despachada, EnRafaga, Pregunta, Contestada, PideES,
           SeBloquea, Devuelve, DevuelveES, Ultimo
  <2>3. Ultimo(haciaKernel[c]).op \in {"QUANTUM", "EXIT", "ERROR"} =>
          Ultimo(haciaKernel[c]).pcb \in Pids
    BY <1>5, <1>6 DEF AlKernel
  <2>. QED  BY <2>1, <2>2, <2>3, PidsTipo DEF Entrega
<1>7. cpu[c] = "espera" /\ haciaKernel[c] # <<>> =>
        Ocupa(c) = Ultimo(haciaKernel[c]).pcb
  BY <1>3, <1>6 DEF Ocupa, Ultimo
<1>8. c \notin fueAsignado => Ocupa(c) = Nadie /\ pcb[c] = Nadie
  BY <1>1, <1>3
     DEF FaseCpu, Fase, Ociosa, Despachada, EnRafaga, Pregunta, Contestada, PideES,
         SeBloquea, Devuelve, DevuelveES, Ocupa
<1>9. ASSUME c \in fueAsignado PROVE Ocupa(c) # Nadie
  <2>1. CASE cpu[c] \in {"corre", "respuesta", "desaloja"}
    BY <1>2, <2>1
  <2>2. CASE cpu[c] = "espera" /\ haciaKernel[c] # <<>>
    BY <1>6, <1>7, <2>2
  <2>3. CASE Despachada(cpu[c], operacion[c], haciaKernel[c], haciaCpu[c], EsperaDe(c),
                        c \in fueAsignado)
    BY <1>1, <1>3, <1>4, <2>3, UnicaRespuesta DEF Despachada, Ocupa
  <2>. QED
    BY <1>1, <1>9, <2>1, <2>2, <2>3
       DEF FaseCpu, Fase, Ociosa, EnRafaga, Pregunta, Contestada, PideES, SeBloquea,
           Devuelve, DevuelveES
<1>. QED  BY <1>2, <1>3, <1>4, <1>6, <1>7, <1>8, <1>9

\* What a step leaves alone, as the abstract scheduler sees it.
LEMMA QuietoA ==
  /\ UNCHANGED <<pcb, haciaCpu, haciaKernel>> => Ocupacion' = Ocupacion
  /\ UNCHANGED valor => Creditos' = Creditos
  /\ UNCHANGED io => Solicitudes' = Solicitudes
  /\ UNCHANGED <<colaExit, saliendo, destruidos>> => Terminados' = Terminados
<1>1. UNCHANGED <<pcb, haciaCpu, haciaKernel>> => Ocupacion' = Ocupacion
  BY DEF Ocupacion, Ocupa
<1>2. UNCHANGED valor => Creditos' = Creditos
  BY DEF Creditos
<1>3. UNCHANGED io => Solicitudes' = Solicitudes
  BY DEF Solicitudes, io
<1>4. UNCHANGED <<colaExit, saliendo, destruidos>> => Terminados' = Terminados
  BY DEF Terminados
<1>. QED  BY <1>1, <1>2, <1>3, <1>4

-----------------------------------------------------------------------------
(* The CPUs and the PLP                                                    *)

\* While a CPU runs its burst nothing shows: its PCB is on the way, with it or
\* on the way back.
LEMMA CpuA ==
  ASSUME SinFallas, Manos, NextCPU, Cortes = {} PROVE UNCHANGED Abstracto!varsA
<1>1. PICK c \in Cpus : Corre(c)
  BY DEF NextCPU, Sigusr1, CaeCpu
<1>2. UNCHANGED <<plpVars, pcpVars, comunes>>
  BY CPUAjena
<1>3. \A d \in Cpus \ {c} : Ocupa(d)' = Ocupa(d)
  BY <1>1, Llamadas, ZenonT(30)
     DEF Corre, RecibePcb, RecibeBasura, RecibeRespuesta, Nada, Imprimir, Falla, Finalizar,
         AnsisopWait, AnsisopSignal, EntradaSalida, CambioContexto, Instruccion, Sigue, Pide,
         red, SinFallas, Cuentas, Tipos, TCpu, Ocupa
<1>4. ASSUME RecibePcb(c) PROVE Ocupa(c)' = Ocupa(c)
  <2>1. Ocupa(c) = Head(haciaCpu[c]).pcb
    BY <1>4, OcupaEs DEF RecibePcb, Ocupa
  <2>2. pcb'[c] = Head(haciaCpu[c]).pcb /\ pcb'[c] # Nadie
    BY <1>4 DEF RecibePcb, SinFallas, Cuentas, Tipos, TCpu
  <2>. QED  BY <2>1, <2>2 DEF Ocupa
<1>5. ASSUME CambioContexto(c) PROVE Ocupa(c)' = Ocupa(c)
  <2>. DEFINE m == Mensaje(operacion[c], pcb[c], SinArg)
  <2>1. /\ Ocupa(c) = pcb[c] /\ m.pcb = pcb[c] /\ pcb'[c] = Nadie
        /\ haciaKernel'[c] = Append(haciaKernel[c], m)
    BY <1>5, OcupaEs, Llamadas
       DEF CambioContexto, Pide, Mensaje, SinFallas, Cuentas, Tipos, TCpu
  <2>2. haciaCpu'[c] = <<>>
    BY <1>5, Llamadas
       DEF CambioContexto, FaseCpu, Fase, Ociosa, Despachada, EnRafaga, Pregunta, Contestada,
           PideES, SeBloquea, Devuelve, DevuelveES
  <2>. HIDE DEF m
  <2>3. haciaKernel'[c] # <<>> /\ haciaKernel'[c][Len(haciaKernel'[c])] = m
    <3>1. haciaKernel[c] \in Seq(AlKernel)
      BY Llamadas
    <3>2. Len(haciaKernel'[c]) = Len(haciaKernel[c]) + 1 /\ Len(haciaKernel[c]) \in Nat
          /\ haciaKernel'[c][Len(haciaKernel[c]) + 1] = m
      BY <2>1, <3>1, ColaPosiciones
    <3>3. Len(<<>>) = 0
      OBVIOUS
    <3>. QED  BY <3>2, <3>3
  <2>. QED  BY <2>1, <2>2, <2>3 DEF Ocupa
<1>6. ASSUME \/ RecibeRespuesta(c) \/ Nada(c) \/ Imprimir(c) \/ Falla(c) \/ Finalizar(c)
             \/ \E s \in Semaforos : AnsisopWait(c, s) \/ AnsisopSignal(c, s)
             \/ \E d \in Pedidos : EntradaSalida(c, d)
      PROVE  Ocupa(c)' = Ocupa(c)
  <2>1. cpu[c] \in {"corre", "respuesta"} /\ pcb' = pcb
    BY <1>6
       DEF RecibeRespuesta, Nada, Imprimir, Falla, Finalizar, AnsisopWait, AnsisopSignal,
           EntradaSalida, Instruccion
  <2>. QED  BY <2>1, OcupaEs DEF Ocupa
<1>7. Ocupacion' = Ocupacion
  BY <1>1, <1>3, <1>4, <1>5, <1>6, SinBasura DEF Corre, Ocupacion
<1>8. UNCHANGED <<nroProg, colaNew, semMultiProg, colaReady, valor, io, listaBloqueados,
                  colaExit, saliendo, destruidos>>
  BY <1>2 DEF plpVars, pcpVars, comunes, admision, baja, listos, salida, ansisop
<1>. QED  BY <1>7, <1>8, QuietoA DEF Abstracto!varsA

\* A PCB that goes to colaExit is that of a process that has ended.
LEMMA TerminadosAgrega ==
  ASSUME Tipos, NEW p \in Pids, MandaAExit(p), UNCHANGED <<saliendo, destruidos>>
  PROVE  Terminados' = Terminados \cup {p}
<1>1. colaExit \in Seq(Pids) /\ colaExit' = Append(colaExit, p)
  BY DEF Tipos, TSalida, MandaAExit
<1>2. /\ DOMAIN colaExit' = DOMAIN colaExit \cup {Len(colaExit) + 1}
      /\ \A j \in DOMAIN colaExit : colaExit'[j] = colaExit[j]
      /\ colaExit'[Len(colaExit) + 1] = p
  BY <1>1
<1>3. Range(colaExit') = Range(colaExit) \cup {p}
  BY <1>2 DEF Range
<1>. QED  BY <1>3 DEF Terminados

LEMMA LlegaPasoA ==
  ASSUME SinFallas, Manos, NEW r \in Creaciones, LlegaPrograma(r)
  PROVE  \E p \in Pids : Abstracto!LlegaA(p)
<1>. DEFINE p == nroProg + 1
<1>1. /\ p \in Pids /\ p \notin 1..nroProg /\ nroProg' = p
      /\ 1..nroProg' = (1..nroProg) \cup {p}
  BY DEF LlegaPrograma, CrearPCB, SinFallas, Cuentas, Tipos, TAdmision, Pids
<1>2. UNCHANGED <<semMultiProg, colaReady, pcb, red, valor, io, listaBloqueados, saliendo,
                  destruidos>>
  BY DEF LlegaPrograma, pcpVars, listos, ansisop, cpus, baja
<1>3. UNCHANGED <<Ocupacion, Creditos, Solicitudes>>
  BY <1>2, QuietoA DEF red
<1>4. CASE r = "creado"
  <2>1. colaNew' = colaNew \cup {p} /\ UNCHANGED colaExit
    BY <1>4 DEF LlegaPrograma, CrearPCB, salida
  <2>2. Terminados' = Terminados
    BY <1>2, <2>1, QuietoA
  <2>. QED  BY <1>1, <1>2, <1>3, <2>1, <2>2 DEF Abstracto!LlegaA
<1>5. CASE r = "parcial"
  <2>1. MandaAExit(p) /\ UNCHANGED colaNew
    BY <1>5 DEF LlegaPrograma, CrearPCB
  <2>2. Terminados' = Terminados \cup {p}
    BY <1>1, <1>2, <2>1, TerminadosAgrega DEF SinFallas, Cuentas
  <2>. QED  BY <1>1, <1>2, <1>3, <2>1, <2>2 DEF Abstracto!LlegaA
<1>6. CASE r \notin {"creado", "parcial"}
  <2>1. UNCHANGED <<colaNew, colaExit>>
    BY <1>6 DEF LlegaPrograma, CrearPCB, salida
  <2>2. Terminados' = Terminados
    BY <1>2, <2>1, QuietoA
  <2>. QED  BY <1>1, <1>2, <1>3, <2>1, <2>2 DEF Abstracto!LlegaA
<1>. QED  BY <1>4, <1>5, <1>6

LEMMA AdmitePasoA ==
  ASSUME SinFallas, Admite PROVE \E p \in Pids : Abstracto!AdmiteA(p)
<1>1. PICK p \in colaNew : /\ \A q \in colaNew : Peso[p] <= Peso[q]
                           /\ colaNew' = colaNew \ {p} /\ MandaAReady(p)
  BY DEF Admite
<1>2. p \in Pids
  BY DEF SinFallas, Cuentas, Tipos, TAdmision
<1>3. semMultiProg > 0 /\ semMultiProg' = semMultiProg - 1
      /\ colaReady' = Append(colaReady, p)
  BY <1>1 DEF Admite, TomaLugar, MandaAReady
<1>4. UNCHANGED <<nroProg, pcb, red, valor, io, listaBloqueados, colaExit, saliendo,
                  destruidos>>
  BY DEF Admite, pcpVars, ansisop, cpus, baja, salida
<1>5. UNCHANGED <<Ocupacion, Creditos, Solicitudes, Terminados>>
  BY <1>4, QuietoA DEF red
<1>. QED  BY <1>1, <1>2, <1>3, <1>4, <1>5 DEF Abstracto!AdmiteA

\* A process whose memory is given back has ended before.
LEMMA SalidaA ==
  ASSUME SinFallas, SacaDeExit \/ Destruye PROVE Terminados' = Terminados
<1>1. colaExit \in Seq(Pids) /\ destruidos \in [Pids -> Nat] /\ Nadie \notin Pids
  BY PidsTipo DEF SinFallas, Cuentas, Tipos, TSalida, TPrograma
<1>2. CASE SacaDeExit
  <2>1. colaExit # <<>> /\ saliendo = Nadie /\ UNCHANGED destruidos
    BY <1>1, <1>2 DEF SacaDeExit, SinFallas, ExitBien
  <2>2. saliendo' = Head(colaExit) /\ colaExit' = Tail(colaExit)
    BY <1>2, <2>1 DEF SacaDeExit, vacia
  <2>3. Range(colaExit) = Range(colaExit') \cup {Head(colaExit)}
    <3>1. /\ colaExit[1] = Head(colaExit) /\ DOMAIN colaExit = 1..Len(colaExit)
          /\ Len(colaExit) \in Nat \ {0} /\ DOMAIN Tail(colaExit) = 1..(Len(colaExit) - 1)
          /\ \A j \in 1..(Len(colaExit) - 1) : Tail(colaExit)[j] = colaExit[j + 1]
      BY <1>1, <2>1
    <3>2. \A j \in DOMAIN Tail(colaExit) :
            j + 1 \in DOMAIN colaExit /\ Tail(colaExit)[j] = colaExit[j + 1]
      BY <3>1
    <3>3. \A j \in DOMAIN colaExit :
            j = 1 \/ (j - 1 \in DOMAIN Tail(colaExit) /\ Tail(colaExit)[j - 1] = colaExit[j])
      BY <3>1
    <3>4. 1 \in DOMAIN colaExit
      BY <3>1
    <3>5. ASSUME NEW e \in Range(Tail(colaExit)) PROVE e \in Range(colaExit)
      BY <3>2 DEF Range
    <3>6. ASSUME NEW e \in Range(colaExit)
          PROVE  e \in Range(Tail(colaExit)) \/ e = Head(colaExit)
      BY <3>1, <3>3 DEF Range
    <3>7. Head(colaExit) \in Range(colaExit)
      BY <3>1, <3>4 DEF Range
    <3>. QED  BY <2>2, <3>5, <3>6, <3>7
  <2>. QED  BY <1>1, <2>1, <2>2, <2>3 DEF Terminados
<1>3. CASE Destruye
  <2>1. /\ saliendo \in Pids /\ saliendo' = Nadie /\ UNCHANGED colaExit
        /\ destruidos' = [destruidos EXCEPT ![saliendo] = @ + 1]
    BY <1>3 DEF Destruye, comunes, salida
  <2>2. \A p \in Pids : destruidos'[p] > 0 <=> (destruidos[p] > 0 \/ saliendo = p)
    BY <1>1, <2>1
  <2>. QED  BY <1>1, <2>1, <2>2 DEF Terminados
<1>. QED  BY <1>2, <1>3

LEMMA PlpA ==
  ASSUME SinFallas, Manos, NextPLP
  PROVE  Abstracto!NextA \/ UNCHANGED Abstracto!varsA
<1>1. CASE \E r \in Creaciones : LlegaPrograma(r)
  BY <1>1, LlegaPasoA DEF Abstracto!NextA
<1>2. CASE Admite
  BY <1>2, AdmitePasoA DEF Abstracto!NextA
<1>3. CASE SacaDeExit \/ Destruye
  <2>1. UNCHANGED <<nroProg, colaNew, semMultiProg, colaReady, pcb, red, valor, io,
                    listaBloqueados>>
    BY <1>3 DEF SacaDeExit, Destruye, admision, pcpVars, comunes, listos, ansisop, cpus
  <2>. QED  BY <1>3, <2>1, SalidaA, QuietoA DEF Abstracto!varsA, red
<1>4. CASE \/ EsperaNuevo \/ EnviaMensaje
           \/ \E p \in Pids : NotaCierre(p) \/ CierraPrograma(p) \/ CortaPrograma(p)
  <2>1. UNCHANGED <<nroProg, colaNew, semMultiProg, colaReady, pcb, red, valor, io,
                    listaBloqueados, colaExit, saliendo, destruidos>>
    BY <1>4
       DEF EsperaNuevo, EnviaMensaje, NotaCierre, CierraPrograma, CortaPrograma, admision,
           pcpVars, comunes, listos, salida, baja, ansisop, cpus
  <2>. QED  BY <2>1, QuietoA DEF Abstracto!varsA, red
<1>5. ~DestruyeNulo
  BY DEF DestruyeNulo, SinFallas, ExitBien
<1>. QED  BY <1>1, <1>2, <1>3, <1>4, <1>5 DEF NextPLP

-----------------------------------------------------------------------------
(* The server of the CPUs                                                  *)

\* The last element of a queue of two or more is the last one of its tail.
LEMMA UltimoDeCola ==
  ASSUME NEW S, NEW q \in Seq(S), Len(q) >= 2
  PROVE  Tail(q) # <<>> /\ Tail(q)[Len(Tail(q))] = q[Len(q)]
<1>1. q # <<>>
  BY ColaPosiciones
<1>2. /\ Tail(q) \in Seq(S) /\ Len(q) \in Nat
      /\ Len(Tail(q)) = Len(q) - 1
      /\ \A j \in 1..(Len(q) - 1) : Tail(q)[j] = q[j + 1]
  BY <1>1, ColaPosiciones
<1>3. \A n \in Nat : n >= 2 => n - 1 \in 1..(n - 1) /\ (n - 1) + 1 = n /\ n - 1 # 0
  OBVIOUS
<1>4. Len(q) - 1 \in 1..(Len(q) - 1) /\ (Len(q) - 1) + 1 = Len(q) /\ Len(q) - 1 # 0
  BY <1>2, <1>3
<1>5. Tail(q)[Len(q) - 1] = q[Len(q)]
  BY <1>2, <1>4, Zenon
<1>6. Tail(q) # <<>>
  <2>1. Tail(q) = <<>> <=> Len(Tail(q)) = 0
    BY <1>2, ColaPosiciones, Zenon
  <2>. QED  BY <2>1, <1>2, <1>4, Zenon
<1>. QED  BY <1>2, <1>5, <1>6

\* A message that is not a PCB leaves the PCB where it was.
LEMMA ConsumeA ==
  ASSUME SinFallas, Manos, NEW c \in Cpus, Llega(c), Consume(c), UNCHANGED pcb,
         Pedido(c).op \notin {"QUANTUM", "EXIT", "ERROR"},
         \A d \in Cpus : haciaCpu'[d] = haciaCpu[d] \/ pcb[d] # Nadie
  PROVE  Ocupacion' = Ocupacion /\ Ocupacion[c] # Nadie
<1>. DEFINE q == haciaKernel[c]
<1>1. /\ q \in Seq(AlKernel) /\ q # <<>> /\ Pedido(c) = q[1] /\ c \in fueAsignado
      /\ Fase(cpu[c], operacion[c], q, haciaCpu[c], "nada", c \in fueAsignado)
  BY LlegaFase
<1>2. haciaKernel'[c] = Tail(q) /\ \A d \in Cpus \ {c} : haciaKernel'[d] = haciaKernel[d]
  BY Llamadas DEF Consume
<1>3. Ocupacion[c] # Nadie
  BY <1>1, OcupaEs DEF Ocupacion
<1>4. ASSUME NEW d \in Cpus, d # c \/ pcb[c] # Nadie PROVE Ocupa(d)' = Ocupa(d)
  BY <1>2, <1>4 DEF Ocupa
<1>5. ASSUME pcb[c] = Nadie PROVE Ocupa(c)' = Ocupa(c)
  <2>1. cpu[c] \notin {"corre", "respuesta", "desaloja"}
    BY <1>5, OcupaEs
  <2>2. Len(q) >= 2 /\ haciaCpu[c] = <<>>
    BY <1>1, <2>1
       DEF Fase, Ociosa, Despachada, EnRafaga, Pregunta, Contestada, PideES, SeBloquea,
           Devuelve, DevuelveES, Ultimo
  <2>3. Tail(q) # <<>> /\ Tail(q)[Len(Tail(q))] = q[Len(q)]
    BY <1>1, <2>2, UltimoDeCola
  <2>4. haciaCpu'[c] = <<>>
    BY <1>5, <2>2
  <2>. QED  BY <1>1, <1>2, <1>5, <2>2, <2>3, <2>4 DEF Ocupa
<1>. QED  BY <1>3, <1>4, <1>5 DEF Ocupacion

\* A message that is a PCB leaves the CPU free.
LEMMA DevuelveA ==
  ASSUME SinFallas, Manos, NEW c \in Cpus, Consume(c), UNCHANGED <<pcb, haciaCpu>>,
         Len(haciaKernel[c]) = 1, cpu[c] = "espera"
  PROVE  /\ Ocupacion[c] = Pedido(c).pcb /\ Pedido(c).pcb \in Pids
         /\ Ocupacion[c] # Nadie /\ Ocupacion' = [Ocupacion EXCEPT ![c] = Nadie]
<1>1. /\ haciaKernel[c] \in Seq(AlKernel) /\ haciaKernel[c] # <<>>
      /\ haciaKernel'[c] = <<>> /\ Pedido(c) = haciaKernel[c][1]
      /\ \A d \in Cpus \ {c} : haciaKernel'[d] = haciaKernel[d]
  BY Llamadas, UnicoPedido, ColaPosiciones DEF Consume, Pedido
<1>2. /\ Ocupa(c) = Pedido(c).pcb /\ pcb[c] = Nadie /\ haciaCpu[c] = <<>>
      /\ Pedido(c).pcb # Nadie
  BY <1>1, OcupaEs DEF Ultimo
<1>3. Pedido(c).pcb \in Pids \cup {Nadie}
  BY <1>1 DEF AlKernel, Mensajes
<1>4. Ocupa(c)' = Nadie /\ \A d \in Cpus \ {c} : Ocupa(d)' = Ocupa(d)
  BY <1>1, <1>2 DEF Ocupa
<1>5. Ocupacion' = [Ocupacion EXCEPT ![c] = Nadie]
  BY <1>4 DEF Ocupacion
<1>. QED  BY <1>2, <1>3, <1>5 DEF Ocupacion

LEMMA SueltoA ==
  ASSUME SinFallas, Manos, NEW c \in Cpus, OperacionImprimir(c) \/ OperacionIO(c)
  PROVE  UNCHANGED Abstracto!varsA
<1>1. /\ Llega(c) /\ Consume(c) /\ UNCHANGED <<pcb, haciaCpu>>
      /\ Pedido(c).op \notin {"QUANTUM", "EXIT", "ERROR"}
  BY DEF OperacionImprimir, OperacionIO, Ajeno, cpus
<1>2. UNCHANGED <<nroProg, colaNew, semMultiProg, colaReady, valor, io, listaBloqueados,
                  colaExit, saliendo, destruidos>>
  BY DEF OperacionImprimir, OperacionIO, Ajeno, plpVars, admision, baja, comunes, listos,
         salida, ansisop, io
<1>3. Ocupacion' = Ocupacion
  BY <1>1, ConsumeA
<1>. QED  BY <1>2, <1>3, QuietoA DEF Abstracto!varsA

LEMMA FinA ==
  ASSUME SinFallas, Manos, NEW c \in Cpus, OperacionQuantum(c) \/ OperacionFin(c)
  PROVE  Abstracto!DesalojaA(c) \/ Abstracto!TerminaA(c)
<1>1. /\ Llega(c) /\ Consume(c) /\ Pedido(c).op \in {"QUANTUM", "EXIT", "ERROR"}
      /\ UNCHANGED <<pcb, haciaCpu, nroProg, colaNew, valor, io, listaBloqueados, saliendo,
                     destruidos>>
  BY DEF OperacionQuantum, OperacionFin, Ajeno, cpus, plpVars, admision, baja, ansisop, io
<1>2. Len(haciaKernel[c]) = 1 /\ cpu[c] = "espera"
  BY <1>1, LlegaFase, Cabeza DEF Suelto, Anuncio, Devuelve
<1>3. /\ Ocupacion[c] = Pedido(c).pcb /\ Pedido(c).pcb \in Pids
      /\ Ocupacion[c] # Nadie /\ Ocupacion' = [Ocupacion EXCEPT ![c] = Nadie]
  BY <1>1, <1>2, DevuelveA
<1>4. Abstracto!Deja(c)
  BY <1>3 DEF Abstracto!Deja
<1>5. UNCHANGED <<Creditos, Solicitudes>>
  BY <1>1, QuietoA
<1>6. CASE OperacionQuantum(c)
  <2>1. UNCHANGED <<semMultiProg, colaExit>> /\ colaReady' = Append(colaReady, Pedido(c).pcb)
    BY <1>6 DEF OperacionQuantum, salida, MandaAReady
  <2>2. Terminados' = Terminados
    BY <1>1, <2>1, QuietoA
  <2>. QED  BY <1>1, <1>3, <1>4, <1>5, <2>1, <2>2 DEF Abstracto!DesalojaA
<1>7. CASE OperacionFin(c)
  <2>1. /\ semMultiProg' = semMultiProg + 1 /\ UNCHANGED colaReady
        /\ MandaAExit(Pedido(c).pcb)
    BY <1>7 DEF OperacionFin, listos, DejaLugar
  <2>2. Terminados' = Terminados \cup {Pedido(c).pcb}
    BY <1>1, <1>3, <2>1, TerminadosAgrega DEF SinFallas, Cuentas
  <2>. QED  BY <1>1, <1>3, <1>4, <1>5, <2>1, <2>2 DEF Abstracto!TerminaA
<1>. QED  BY <1>6, <1>7

LEMMA WaitA ==
  ASSUME SinFallas, Manos, NEW c \in Cpus, OperacionWait(c)
  PROVE  (\E s \in Semaforos : Abstracto!PasaA(c, s)) \/ UNCHANGED Abstracto!varsA
<1>. DEFINE s == Pedido(c).arg
<1>1. /\ Llega(c) /\ Consume(c) /\ Pedido(c).op = "WAIT" /\ Pedido(c).pcb = Nadie
      /\ UNCHANGED <<pcb, nroProg, colaNew, semMultiProg, colaReady, io, listaBloqueados,
                     colaExit, saliendo, destruidos>>
  BY DEF OperacionWait, Ajeno, cpus, plpVars, admision, baja, comunes, listos, salida, io
<1>2. s \in Semaforos /\ valor \in [Semaforos -> Int]
  BY <1>1, PedidoTipo DEF Llega, AlKernel, SinFallas, Cuentas, Tipos, TAnsisop
<1>3. Ocupacion' = Ocupacion /\ Ocupacion[c] # Nadie
  <2>1. cpu[c] = "respuesta"
    BY <1>1, LlegaFase, Cabeza DEF Suelto, Anuncio, Pregunta
  <2>2. pcb[c] # Nadie /\ \A d \in Cpus \ {c} : haciaCpu'[d] = haciaCpu[d]
    BY <2>1, OcupaEs, Llamadas DEF OperacionWait, Responde
  <2>. QED  BY <1>1, <2>2, ConsumeA
<1>4. UNCHANGED <<Solicitudes, Terminados>>
  BY <1>1, QuietoA
<1>5. c \notin programaCerrado
  BY DEF SinFallas, Sano
<1>6. CASE valor[s] > 0
  <2>1. valor' = [valor EXCEPT ![s] = @ - 1]
    BY <1>2, <1>5, <1>6 DEF OperacionWait
  <2>2. Creditos[s] > 0 /\ Creditos' = [Creditos EXCEPT ![s] = @ - 1]
    BY <1>2, <1>6, <2>1 DEF Creditos
  <2>. QED  BY <1>1, <1>2, <1>3, <1>4, <2>2 DEF Abstracto!PasaA
<1>7. CASE ~(valor[s] > 0)
  <2>1. Creditos' = Creditos
    BY <1>2, <1>5, <1>7, QuietoA DEF OperacionWait
  <2>. QED  BY <1>1, <1>3, <1>4, <2>1 DEF Abstracto!varsA
<1>. QED  BY <1>6, <1>7

LEMMA SignalA ==
  ASSUME SinFallas, Manos, NEW c \in Cpus, OperacionSignal(c)
  PROVE  \E s \in Semaforos : Abstracto!AvisaA(c, s)
<1>. DEFINE s == Pedido(c).arg
<1>1. /\ Llega(c) /\ Consume(c) /\ Pedido(c).op = "SIGNAL"
      /\ UNCHANGED <<pcb, haciaCpu, nroProg, colaNew, semMultiProg, io, colaExit, saliendo,
                     destruidos>>
  BY DEF OperacionSignal, Ajeno, cpus, plpVars, admision, baja, salida, io
<1>2. s \in Semaforos /\ valor \in [Semaforos -> Int]
  BY <1>1, PedidoTipo DEF Llega, AlKernel, SinFallas, Cuentas, Tipos, TAnsisop
<1>3. Ocupacion' = Ocupacion /\ Ocupacion[c] # Nadie
  BY <1>1, ConsumeA
<1>4. UNCHANGED <<Solicitudes, Terminados>>
  BY <1>1, QuietoA
<1>5. valor' = [valor EXCEPT ![s] = @ + 1] /\ Abstracto!DormidosEn(s) = Esperando(s)
  BY DEF OperacionSignal, Abstracto!DormidosEn, Esperando
<1>6. CASE HayQueDespertar(s)
  <2>1. PICK k \in Primera(Esperando(s)) :
          /\ listaBloqueados' = QuitaPos(listaBloqueados, k)
          /\ colaReady' = Append(colaReady, listaBloqueados[k].pcb)
    BY <1>6 DEF OperacionSignal, MandaAReady
  <2>2. Creditos' = Creditos
    BY <1>2, <1>5, <1>6 DEF Creditos, HayQueDespertar
  <2>3. \E j \in Primera(Abstracto!DormidosEn(s)) :
          /\ colaReady' = Append(colaReady, listaBloqueados[j].pcb)
          /\ listaBloqueados' = QuitaPos(listaBloqueados, j)
    BY <1>5, <2>1
  <2>. QED  BY <1>1, <1>2, <1>3, <1>4, <2>2, <2>3 DEF Abstracto!AvisaA, Abstracto!Primera,
                Abstracto!QuitaPos, Primera, QuitaPos
<1>7. CASE ~HayQueDespertar(s)
  <2>1. UNCHANGED <<listaBloqueados, colaReady>>
    BY <1>7 DEF OperacionSignal, listos
  <2>2. IsFiniteSet(Esperando(s))
        /\ Cardinality(Esperando(s)) = IF valor[s] < 0 THEN -valor[s] ELSE 0
    BY <1>2, EsperandoEs DEF SinFallas, Cuentas, BloqueadosBien, BloqueadosContados
  <2>3. Esperando(s) = {} /\ valor[s] >= 0
    BY <1>2, <1>7, <2>2, FS_EmptySet DEF HayQueDespertar
  <2>4. Creditos' = [Creditos EXCEPT ![s] = @ + 1]
    BY <1>2, <1>5, <2>3 DEF Creditos
  <2>. QED  BY <1>1, <1>2, <1>3, <1>4, <1>5, <2>1, <2>3, <2>4 DEF Abstracto!AvisaA
<1>. QED  BY <1>6, <1>7

\* The second message of WAIT or IO brings the PCB.
LEMMA SegundoA ==
  ASSUME SinFallas, Manos, NEW c \in Cpus, RecibeBloqueado(c) \/ RecibeSolicitud(c)
  PROVE  /\ Ocupacion[c] = Pedido(c).pcb /\ Pedido(c).pcb \in Pids
         /\ Ocupacion' = [Ocupacion EXCEPT ![c] = Nadie]
         /\ Abstracto!Deja(c)
<1>1. EsperaPcb(c) /\ Consume(c) /\ haciaKernel[c] # <<>> /\ UNCHANGED <<pcb, haciaCpu>>
  BY DEF RecibeBloqueado, RecibeSolicitud, Ajeno, cpus
<1>2. EsperaDe(c) \in {"pcbWait", "pcbIO"}
  BY <1>1 DEF EsperaPcb, EsperaDe
<1>3. Len(haciaKernel[c]) = 1 /\ cpu[c] = "espera"
  BY <1>1, <1>2, Llamadas
     DEF FaseCpu, Fase, Ociosa, Despachada, EnRafaga, Pregunta, Contestada, PideES,
         SeBloquea, Devuelve, DevuelveES
<1>. QED  BY <1>1, <1>3, DevuelveA DEF Abstracto!Deja

LEMMA BloqueaA ==
  ASSUME SinFallas, Manos, NEW c \in Cpus, RecibeBloqueado(c)
  PROVE  \E s \in Semaforos : Abstracto!DuermeA(c, s)
<1>. DEFINE s == servidor.arg
<1>1. /\ servidor.pc = "pcbWait" /\ Bloquea(Pedido(c).pcb, s)
      /\ UNCHANGED <<nroProg, colaNew, semMultiProg, colaReady, io, colaExit, saliendo,
                     destruidos>>
  BY DEF RecibeBloqueado, Ajeno, plpVars, admision, baja, comunes, listos, salida, io
<1>2. s \in Semaforos /\ valor \in [Semaforos -> Int]
  BY <1>1 DEF SinFallas, Cuentas, Tipos, TServidor, TAnsisop
<1>3. valor[s] <= 0 /\ valor' = [valor EXCEPT ![s] = @ - 1]
  BY <1>1 DEF Bloquea, SinFallas, Cuentas, BloqueadosBien
<1>4. Creditos[s] = 0 /\ Creditos' = Creditos
  BY <1>2, <1>3 DEF Creditos
<1>5. UNCHANGED <<Solicitudes, Terminados>>
  BY <1>1, QuietoA
<1>6. listaBloqueados' = Append(listaBloqueados, [pcb |-> Ocupacion[c], sem |-> s])
  BY <1>1, SegundoA DEF Bloquea
<1>. QED  BY <1>1, <1>2, <1>4, <1>5, <1>6, SegundoA DEF Abstracto!DuermeA

LEMMA SolicitudA ==
  ASSUME SinFallas, Manos, NEW c \in Cpus, RecibeSolicitud(c)
  PROVE  Abstracto!DesalojaA(c) \/ \E d \in Dispositivos : Abstracto!PideA(c, d)
<1>. DEFINE d == servidor.arg
            p == Pedido(c).pcb
<1>1. UNCHANGED <<nroProg, colaNew, semMultiProg, valor, listaBloqueados, enCurso, colaExit,
                  saliendo, destruidos>>
  BY DEF RecibeSolicitud, plpVars, admision, baja, salida, ansisop
<1>2. UNCHANGED <<Creditos, Terminados>>
  BY <1>1, QuietoA
<1>3. p \in Pids /\ Ocupacion[c] = p
  BY SegundoA
<1>4. CASE d \in Dispositivos
  <2>1. colaSolicitudes' = [colaSolicitudes EXCEPT ![d] = Append(@, p)] /\ UNCHANGED colaReady
    BY <1>4 DEF RecibeSolicitud, listos
  <2>2. colaSolicitudes \in [Dispositivos -> Seq(Pids)]
        /\ enCurso \in [Dispositivos -> Pids \cup {Nadie}]
    BY DEF SinFallas, Cuentas, Tipos, TIo
  <2>3. Solicitudes' = [Solicitudes EXCEPT ![d] = Append(@, p)]
    <3>1. \A e, r \in Seq(Pids) : e \o Append(r, p) = Append(e \o r, p)
      BY <1>3
    <3>2. \A e \in Dispositivos :
            /\ (IF enCurso[e] = Nadie THEN <<>> ELSE <<enCurso[e]>>) \in Seq(Pids)
            /\ colaSolicitudes[e] \in Seq(Pids)
      BY <2>2
    <3>. QED  BY <1>1, <1>4, <2>1, <2>2, <3>1, <3>2 DEF Solicitudes
  <2>. QED  BY <1>1, <1>2, <1>3, <1>4, <2>1, <2>3, SegundoA DEF Abstracto!PideA
<1>5. CASE d \notin Dispositivos
  <2>1. UNCHANGED colaSolicitudes /\ colaReady' = Append(colaReady, p)
    BY <1>5 DEF RecibeSolicitud, MandaAReady
  <2>2. Solicitudes' = Solicitudes
    BY <1>1, <2>1, QuietoA DEF io
  <2>. QED  BY <1>1, <1>2, <1>3, <2>1, <2>2, SegundoA DEF Abstracto!DesalojaA
<1>. QED  BY <1>4, <1>5

LEMMA AtencionA ==
  ASSUME SinFallas, Manos, NEW c \in Cpus, Atiende(c)
  PROVE  Abstracto!NextA \/ UNCHANGED Abstracto!varsA
BY AtiendeNada, SueltoA, FinA, WaitA, SignalA, BloqueaA, SolicitudA
   DEF Atiende, Abstracto!NextA

-----------------------------------------------------------------------------
(* The dispatcher and the devices                                          *)

LEMMA DespachoA ==
  ASSUME SinFallas, Manos, EnviaPcb, Carreras = {}
  PROVE  \E c \in Cpus : Abstracto!DespachaA(c)
<1>1. PICK c \in Cpus : /\ c = despacho.cpu /\ c \notin fueAsignado
                        /\ cpu[c] # "apagada" /\ despacho.pc = "saca"
  BY DEF EnviaPcb, SinFallas, OciososBien, Cuentas, Tipos, TDespacho
<1>2. /\ colaReady # <<>> /\ colaReady' = Tail(colaReady) /\ Head(colaReady) \in Pids
      /\ Envia(Head(colaReady))
  BY ColaTipo DEF EnviaPcb, SacaDeReady, SinFallas, Cuentas, Tipos, TListos
<1>3. UNCHANGED <<nroProg, colaNew, semMultiProg, pcb, haciaKernel, valor, io,
                  listaBloqueados, colaExit, saliendo, destruidos>>
  BY DEF EnviaPcb, plpVars, admision, baja, salida, ansisop, cpus
<1>4. Ocupa(c) = Nadie /\ pcb[c] = Nadie /\ haciaCpu[c] = <<>>
  BY <1>1, OcupaEs, Llamadas
     DEF FaseCpu, Fase, Ociosa, Despachada, EnRafaga, Pregunta, Contestada, PideES,
         SeBloquea, Devuelve, DevuelveES
<1>5. haciaCpu'[c] = <<Mensaje("NOTHING", Head(colaReady), SinArg)>>
      /\ \A d \in Cpus \ {c} : haciaCpu'[d] = haciaCpu[d]
  BY <1>1, <1>2, <1>4, Llamadas DEF Envia
<1>6. Ocupa(c)' = Head(colaReady)
  <2>1. \A m : <<m>> # <<>> /\ Head(<<m>>) = m
    OBVIOUS
  <2>2. haciaCpu'[c] # <<>> /\ Head(haciaCpu'[c]).pcb = Head(colaReady)
    BY <1>5, <2>1 DEF Mensaje
  <2>. QED  BY <1>3, <1>4, <2>2 DEF Ocupa
<1>7. \A d \in Cpus \ {c} : Ocupa(d)' = Ocupa(d)
  BY <1>3, <1>5 DEF Ocupa
<1>8. /\ Ocupacion[c] = Nadie
      /\ Ocupacion' = [Ocupacion EXCEPT ![c] = Head(colaReady)]
  BY <1>4, <1>6, <1>7 DEF Ocupacion
<1>9. UNCHANGED <<Creditos, Solicitudes, Terminados>>
  BY <1>3, QuietoA
<1>. QED  BY <1>2, <1>3, <1>8, <1>9 DEF Abstracto!DespachaA

LEMMA DispositivoA ==
  ASSUME SinFallas, NEW d \in Dispositivos, TomaSolicitud(d) \/ TerminaIO(d)
  PROVE  Abstracto!AtiendeA(d) \/ UNCHANGED Abstracto!varsA
<1>1. UNCHANGED <<nroProg, colaNew, semMultiProg, pcb, red, valor, listaBloqueados, colaExit,
                  saliendo, destruidos>>
  BY DEF TomaSolicitud, TerminaIO, plpVars, admision, baja, comunes, salida, ansisop, cpus
<1>2. UNCHANGED <<Ocupacion, Creditos, Terminados>>
  BY <1>1, QuietoA DEF red
<1>3. colaSolicitudes \in [Dispositivos -> Seq(Pids)]
      /\ enCurso \in [Dispositivos -> Pids \cup {Nadie}] /\ Nadie \notin Pids
  BY PidsTipo DEF SinFallas, Cuentas, Tipos, TIo
<1>4. \A q \in Seq(Pids) : /\ <<>> \o q = q
                           /\ q # <<>> => <<Head(q)>> \o Tail(q) = q /\ Head(q) \in Pids
                           /\ \A p \in Pids : /\ <<p>> \o q # <<>> /\ Head(<<p>> \o q) = p
                                               /\ Tail(<<p>> \o q) = q
  OBVIOUS
<1>5. CASE TomaSolicitud(d)
  <2>1. /\ enCurso[d] = Nadie /\ colaSolicitudes[d] # <<>> /\ UNCHANGED colaReady
        /\ enCurso' = [enCurso EXCEPT ![d] = Head(colaSolicitudes[d])]
        /\ colaSolicitudes' = [colaSolicitudes EXCEPT ![d] = Tail(@)]
    BY <1>5 DEF TomaSolicitud, comunes, listos
  <2>2. ASSUME NEW e \in Dispositivos
        PROVE  (IF enCurso'[e] = Nadie THEN <<>> ELSE <<enCurso'[e]>>) \o colaSolicitudes'[e]
                 = (IF enCurso[e] = Nadie THEN <<>> ELSE <<enCurso[e]>>) \o colaSolicitudes[e]
    <3>1. CASE e = d
      <4>1. /\ colaSolicitudes[d] \in Seq(Pids) /\ Head(colaSolicitudes[d]) \in Pids
            /\ <<>> \o colaSolicitudes[d] = colaSolicitudes[d]
            /\ <<Head(colaSolicitudes[d])>> \o Tail(colaSolicitudes[d]) = colaSolicitudes[d]
        BY <1>3, <1>4, <2>1
      <4>2. /\ enCurso'[d] = Head(colaSolicitudes[d]) /\ enCurso'[d] # Nadie
            /\ colaSolicitudes'[d] = Tail(colaSolicitudes[d])
        BY <1>3, <2>1, <4>1
      <4>. QED  BY <2>1, <3>1, <4>1, <4>2
    <3>2. CASE e # d
      BY <1>3, <2>1, <3>2
    <3>. QED  BY <3>1, <3>2
  <2>3. Solicitudes' = Solicitudes
    BY <2>2 DEF Solicitudes
  <2>. QED  BY <1>1, <1>2, <2>1, <2>3 DEF Abstracto!varsA
<1>6. CASE TerminaIO(d)
  <2>1. /\ enCurso[d] # Nadie /\ UNCHANGED colaSolicitudes
        /\ enCurso' = [enCurso EXCEPT ![d] = Nadie]
        /\ colaReady' = Append(colaReady, enCurso[d])
    BY <1>6 DEF TerminaIO, MandaAReady
  <2>2. Solicitudes[d] # <<>> /\ Head(Solicitudes[d]) = enCurso[d]
    BY <1>3, <1>4, <2>1 DEF Solicitudes
  <2>3. Solicitudes' = [Solicitudes EXCEPT ![d] = Tail(@)]
    <3>1. Solicitudes'[d] = Tail(Solicitudes[d])
      <4>1. Solicitudes[d] = <<enCurso[d]>> \o colaSolicitudes[d]
        BY <2>1 DEF Solicitudes
      <4>2. Solicitudes'[d] = <<>> \o colaSolicitudes[d]
        BY <1>3, <2>1 DEF Solicitudes
      <4>3. colaSolicitudes[d] \in Seq(Pids) /\ enCurso[d] \in Pids
        BY <1>3, <2>1
      <4>. QED  BY <1>4, <4>1, <4>2, <4>3
    <3>2. \A e \in Dispositivos \ {d} : Solicitudes'[e] = Solicitudes[e]
      BY <1>3, <2>1 DEF Solicitudes
    <3>. QED  BY <3>1, <3>2 DEF Solicitudes
  <2>. QED  BY <1>1, <1>2, <2>1, <2>2, <2>3 DEF Abstracto!AtiendeA
<1>. QED  BY <1>5, <1>6

LEMMA PcpA ==
  ASSUME SinFallas, Manos, NextPCP, Carreras = {}
  PROVE  Abstracto!NextA \/ UNCHANGED Abstracto!varsA
<1>1. ~FinalizaPcb
  BY DEF FinalizaPcb, EsperaFinaliza, FinalizaBloqueado, FinalizaReady, FinalizaAsignado,
         FinalizaBasura, Finaliza, SinFallas, Cuentas, SinCierre
<1>2. ~DescuentaOcioso /\ ~ReponeCola /\ \A hilo, cola : ~VaciaCola(hilo, cola)
  BY DEF DescuentaOcioso, ReponeCola, VaciaCola, SinFallas, Sano, EnSelect
<1>3. CASE EsperaReady \/ EligeOcioso \/ \E c \in Cpus : NuevoCliente(c)
  <2>1. UNCHANGED <<nroProg, colaNew, semMultiProg, colaReady, pcb, red, valor, io,
                    listaBloqueados, colaExit, saliendo, destruidos>>
    BY <1>3 DEF EsperaReady, EligeOcioso, NuevoCliente, plpVars, admision, baja, comunes,
                listos, salida, ansisop, cpus
  <2>. QED  BY <2>1, QuietoA DEF Abstracto!varsA, red
<1>4. CASE \E c \in Cpus : Atiende(c)
  BY <1>4, AtencionA
<1>5. CASE EnviaPcb
  BY <1>5, DespachoA DEF Abstracto!NextA
<1>6. CASE \E d \in Dispositivos : TomaSolicitud(d) \/ TerminaIO(d)
  BY <1>6, DispositivoA DEF Abstracto!NextA
<1>. QED
  BY <1>1, <1>2, <1>3, <1>4, <1>5, <1>6, DespachaNada DEF NextPCP, Despacha

-----------------------------------------------------------------------------
(* The scheduler                                                           *)

LEMMA InicioA == Init => Abstracto!InitA
<1>. SUFFICES ASSUME Init PROVE Abstracto!InitA
  OBVIOUS
<1>1. /\ nroProg = 0 /\ colaNew = {} /\ semMultiProg = MultiProg /\ colaReady = <<>>
      /\ listaBloqueados = <<>> /\ valor = Valores
  BY DEF Init, InitPLP, InitPCP, SemaforosIniciales
<1>2. 1..nroProg = {}
  BY <1>1
<1>3. Ocupacion = [c \in Cpus |-> Nadie]
  BY DEF Init, InitCPU, Ocupacion, Ocupa
<1>4. Creditos = Valores
  BY <1>1, ValoresAssumption DEF Creditos
<1>5. Solicitudes = [d \in Dispositivos |-> <<>>]
  BY DEF Init, InitPCP, DispositivosIniciales, Solicitudes
<1>6. Terminados = {}
  <2>1. Range(colaExit) = {}
    BY DEF Init, InitPLP, Range
  <2>. QED  BY <2>1, PidsTipo DEF Init, InitPLP, Terminados
<1>. QED  BY <1>1, <1>2, <1>3, <1>4, <1>5, <1>6 DEF Abstracto!InitA

\* When nothing fails and no window is open the Kernel, its CPUs and the
\* sockets between them are a scheduler whose operations are one step each.
THEOREM ImplementaPlanificador ==
  ASSUME Cortes = {}, Carreras = {} PROVE Spec => EsPlanificador
<1>1. SinFallas /\ Manos /\ [Next]_vars => Manos'
  BY NextManos
<1>2. SinFallas /\ Manos /\ [Next]_vars => [Abstracto!NextA]_(Abstracto!varsA)
  <2>1. SUFFICES ASSUME SinFallas, Manos, [Next]_vars
                 PROVE  Abstracto!NextA \/ UNCHANGED Abstracto!varsA
    OBVIOUS
  <2>2. CASE UNCHANGED vars
    BY <2>2, QuietoA
       DEF vars, plpVars, pcpVars, comunes, cpus, red, admision, baja, listos, salida, ansisop,
           Abstracto!varsA
  <2>3. CASE Next
    BY <2>1, <2>3, CpuA, PlpA, PcpA DEF Next
  <2>. QED  BY <2>1, <2>2, <2>3
<1>. QED
  BY <1>1, <1>2, InitManos, InicioA, SpecSinFallas, PTL
     DEF Spec, EsPlanificador, Abstracto!SpecA
=============================================================================
