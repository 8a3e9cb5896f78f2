---------------------------- MODULE KernelPruebas ----------------------------
(* Proofs about Kernel, for any number of programs, CPUs, devices and      *)
(* semaphores, whatever fails and whichever windows are open: the types,    *)
(* and what the semaphore of the ready queue and those of the programs       *)
(* count as long as no program hangs up.                                     *)
EXTENDS Kernel, FiniteSetTheorems, TLAPS

-----------------------------------------------------------------------------
(* Types, owner by owner                                                   *)

Textos == [pid : Pids, tipo : {"IMPRIMIR", "EXIT", "ERROR"}, de : Pids]

\* what ends a process carries its PCB, what prints says who, and what asks
\* for a semaphore names it; a process that goes on keeps its PCB
AlKernel ==
  {m \in Mensajes :
     /\ m.op \in {"QUANTUM", "EXIT", "ERROR"} => m.pcb \in Pids
     /\ m.op = "IMPRIMIR" => m.de \in Pids
     /\ m.op \in {"IMPRIMIR", "SIGNAL"} => m.pcb = Nadie
     /\ (m.op = "SIGNAL" \/ (m.op = "WAIT" /\ m.pcb = Nadie)) => m.arg \in Semaforos}

AlCpu == {m \in Mensajes : m.op \in {"NOTHING", "WAIT", "ERROR"}}

Bloqueados == [pcb : Pids, sem : Semaforos]

TAdmision ==
  /\ nroProg \in 0..MaxProg /\ colaNew \subseteq Pids /\ semNuevoProg \in Nat
  /\ plp \in {"nuevo", "multi"}

TPrograma ==
  /\ programa \in [Pids -> {"ausente", "conectado", "avisado", "cerrado", "ido"}]
  /\ terminado \subseteq Pids
  /\ mensajero \in {"vivo", "muerto"}
  /\ saliendo \in Pids \cup {Nadie, Nulo} /\ mutex_exit \in {0, 1}
  /\ destruidos \in [Pids -> Nat]

TMensajes ==
  colaImprimibles \in Seq(Textos) /\ semMensajeImpresion = Len(colaImprimibles)

TSalida == colaExit \in Seq(Pids) /\ semProgExit \in Nat

TListos == colaReady \in Seq(Pids) /\ semNuevoPcbColaReady \in Nat

\* a client marked as assigned was given a PCB
TClientes ==
  /\ listaClientes \in Seq(Cpus)
  /\ pcbAsignado \in [Cpus -> Pids \cup {Nulo}]
  /\ fueAsignado \subseteq Cpus /\ programaCerrado \subseteq Cpus
  /\ semClienteOcioso \in Nat /\ cpuAcerrar \in Cpus \cup {SinCpu}
  /\ \A c \in fueAsignado : pcbAsignado[c] \in Pids

\* the process that waits for its PCB to be received asked for a semaphore
TServidor ==
  /\ servidor.pc \in {"select", "pcbWait", "pcbIO", "ocioso"}
  /\ servidor.pc = "pcbWait" => servidor.arg \in Semaforos

TDespacho ==
  /\ despacho \in [pc : {"espera", "ocioso", "saca", "enviado"},
                   cpu : Cpus \cup {SinCpu}, pcb : Pids \cup {Nadie}]
  /\ despacho.pc \in {"saca", "enviado"} => despacho.cpu \in Cpus
  /\ despacho.pc = "enviado" => despacho.pcb \in Pids

TCierre ==
  /\ pcbAFinalizar \in Pids \cup {Nadie} /\ semProgramaFinaliza \in Nat
  /\ finalizador \in {"espera", "busca"}

TAnsisop == valor \in [Semaforos -> Int] /\ listaBloqueados \in Seq(Bloqueados)

TIo ==
  /\ colaSolicitudes \in [Dispositivos -> Seq(Pids)]
  /\ enCurso \in [Dispositivos -> Pids \cup {Nadie}]

TImpresora ==
  /\ impresora \in [hilo : {"nadie", "servidor", "despacho"},
                    cola : {"ninguna", "ready", "exit"}, pcbs : Seq(Pids)]
  /\ (impresora.hilo = "nadie") <=> (impresora.cola = "ninguna")
  /\ impresora.hilo = "nadie" => impresora.pcbs = <<>>

\* a CPU in the middle of a burst has a PCB, and turns left if it goes on
TCpu ==
  /\ cpu \in [Cpus -> {"apagada", "espera", "corre", "respuesta", "desaloja", "cerrada"}]
  /\ pcb \in [Cpus -> Pids \cup {Nadie}]
  /\ operacion \in [Cpus -> FinDeRafaga \cup {"WAIT"}]
  /\ rafaga \in [Cpus -> 0..Quantum]
  /\ cerrarCPU \subseteq Cpus /\ restan \in [Pids -> 0..MaxInstr]
  /\ \A c \in Cpus : /\ cpu[c] \in {"corre", "respuesta", "desaloja"} => pcb[c] \in Pids
                     /\ cpu[c] \in {"corre", "respuesta"} => rafaga[c] >= 1

TRed ==
  haciaCpu \in [Cpus -> Seq(AlCpu)] /\ haciaKernel \in [Cpus -> Seq(AlKernel)]

TResto == semMultiProg \in Nat /\ kernel \in {"vivo", "caido"}

Tipos ==
  /\ TAdmision /\ TPrograma /\ TMensajes /\ TSalida /\ TListos
  /\ TClientes /\ TServidor /\ TDespacho /\ TCierre /\ TAnsisop /\ TIo /\ TImpresora
  /\ TCpu /\ TRed /\ TResto

-----------------------------------------------------------------------------
(* Lists                                                                   *)

LEMMA FuncionEsSecuencia ==
  ASSUME NEW S, NEW n \in Nat, NEW f \in [1..n -> S]
  PROVE  f \in Seq(S) /\ Len(f) = n
OBVIOUS

\* What the queues of the commons library give back.
LEMMA ColaTipo ==
  ASSUME NEW S, NEW q \in Seq(S)
  PROVE  /\ \A e \in S : /\ Append(q, e) \in Seq(S) /\ Len(Append(q, e)) = Len(q) + 1
         /\ q # <<>> => /\ Head(q) \in S /\ Tail(q) \in Seq(S)
                        /\ Len(Tail(q)) = Len(q) - 1 /\ Len(q) >= 1
         /\ \A r \in Seq(S) : q \o r \in Seq(S) /\ Len(q \o r) = Len(q) + Len(r)
         /\ <<>> \in Seq(S) /\ Len(q) \in Nat /\ (Len(q) = 0 => q = <<>>)
OBVIOUS

\* Taking a position out of a list (list_remove).
LEMMA QuitaPosTipo ==
  ASSUME NEW S, NEW s \in Seq(S), NEW k \in 1..Len(s)
  PROVE  /\ QuitaPos(s, k) \in Seq(S)
         /\ Len(QuitaPos(s, k)) = Len(s) - 1
         /\ \A j \in 1..(Len(s) - 1) :
              QuitaPos(s, k)[j] = IF j < k THEN s[j] ELSE s[j + 1]
<1>1. Len(s) - 1 \in Nat /\ \A j \in 1..Len(s) : s[j] \in S
  OBVIOUS
<1>2. QuitaPos(s, k) \in [1..(Len(s) - 1) -> S]
  BY <1>1 DEF QuitaPos
<1>. QED
  BY <1>1, <1>2, FuncionEsSecuencia DEF QuitaPos

LEMMA PidsTipo == Pids \subseteq Nat /\ Nadie \notin Pids /\ Nulo \notin Pids
BY MaxProgAssumption DEF Pids, Nadie, Nulo

-----------------------------------------------------------------------------
(* What a step leaves alone keeps its type                                 *)

LEMMA Quieto ==
  ASSUME Tipos
  PROVE  /\ UNCHANGED admision => TAdmision'
         /\ UNCHANGED <<programa, terminado, mensajero, baja>> => TPrograma'
         /\ UNCHANGED mensajes => TMensajes'
         /\ UNCHANGED salida => TSalida'
         /\ UNCHANGED listos => TListos'
         /\ UNCHANGED clientes => TClientes'
         /\ UNCHANGED servidor => TServidor'
         /\ UNCHANGED despacho => TDespacho'
         /\ UNCHANGED cierre => TCierre'
         /\ UNCHANGED ansisop => TAnsisop'
         /\ UNCHANGED io => TIo'
         /\ UNCHANGED impresora => TImpresora'
         /\ UNCHANGED cpus => TCpu'
         /\ UNCHANGED red => TRed'
         /\ UNCHANGED <<semMultiProg, kernel>> => TResto'
<1>1. UNCHANGED admision => TAdmision'
  BY DEF Tipos, TAdmision, admision
<1>2. UNCHANGED <<programa, terminado, mensajero, baja>> => TPrograma'
  BY DEF Tipos, TPrograma, baja
<1>3. UNCHANGED mensajes => TMensajes'
  BY DEF Tipos, TMensajes, mensajes
<1>4. UNCHANGED salida => TSalida'
  BY DEF Tipos, TSalida, salida
<1>5. UNCHANGED listos => TListos'
  BY DEF Tipos, TListos, listos
<1>6. UNCHANGED clientes => TClientes'
  BY DEF Tipos, TClientes, clientes
<1>7. UNCHANGED servidor => TServidor'
  BY DEF Tipos, TServidor
<1>8. UNCHANGED despacho => TDespacho'
  BY DEF Tipos, TDespacho
<1>9. UNCHANGED cierre => TCierre'
  BY DEF Tipos, TCierre, cierre
<1>10. UNCHANGED ansisop => TAnsisop'
  BY DEF Tipos, TAnsisop, ansisop
<1>11. UNCHANGED io => TIo'
  BY DEF Tipos, TIo, io
<1>12. UNCHANGED impresora => TImpresora'
  BY DEF Tipos, TImpresora
<1>13. UNCHANGED cpus => TCpu'
  BY DEF Tipos, TCpu, cpus
<1>14. UNCHANGED red => TRed'
  BY DEF Tipos, TRed, red
<1>15. UNCHANGED <<semMultiProg, kernel>> => TResto'
  BY DEF Tipos, TResto
<1>. QED
  BY <1>1, <1>2, <1>3, <1>4, <1>5, <1>6, <1>7, <1>8, <1>9, <1>10, <1>11, <1>12, <1>13,
     <1>14, <1>15

\* What adds to the queue of the printing thread, of the exit thread or of the
\* ready processes keeps its type.
LEMMA Encola ==
  ASSUME Tipos
  PROVE  /\ \A m \in Textos : Imprime(m) => TMensajes'
         /\ \A p \in Pids : MandaAExit(p) => TSalida'
         /\ \A p \in Pids : MandaAReady(p) => TListos'
<1>1. ASSUME NEW m \in Textos, Imprime(m) PROVE TMensajes'
  BY <1>1, ColaTipo DEF Tipos, TMensajes, Imprime
<1>2. ASSUME NEW p \in Pids, MandaAExit(p) PROVE TSalida'
  BY <1>2, ColaTipo DEF Tipos, TSalida, MandaAExit
<1>3. ASSUME NEW p \in Pids, MandaAReady(p) PROVE TListos'
  BY <1>3, ColaTipo DEF Tipos, TListos, MandaAReady
<1>. QED  BY <1>1, <1>2, <1>3

LEMMA CaeTipo ==
  ASSUME Tipos, Cae PROVE Tipos'
<1>1. TResto'
  BY DEF Tipos, TResto, Cae, comunes
<1>. QED
  BY <1>1, Quieto DEF Cae, plpVars, pcpVars, comunes, Tipos, cpus, red

-----------------------------------------------------------------------------
(* The PLP                                                                 *)

LEMMA LlegaProgramaTipo ==
  ASSUME Tipos, NEW r \in Creaciones, LlegaPrograma(r) PROVE Tipos'
<1>1. PICK p \in Pids : p = nroProg + 1
  BY DEF LlegaPrograma
<1>2. TAdmision'
  <2>1. nroProg' \in 0..MaxProg
    BY <1>1, MaxProgAssumption DEF LlegaPrograma, CrearPCB, Pids
  <2>2. colaNew' \subseteq Pids
    <3>1. colaNew' \subseteq colaNew \cup {p}
      BY <1>1 DEF LlegaPrograma
    <3>. QED  BY <3>1 DEF Tipos, TAdmision
  <2>3. semNuevoProg' \in Nat
    BY DEF LlegaPrograma, Tipos, TAdmision
  <2>. QED  BY <2>1, <2>2, <2>3 DEF LlegaPrograma, Tipos, TAdmision
<1>3. TPrograma'
  BY <1>1 DEF LlegaPrograma, Tipos, TPrograma, baja
<1>4. TMensajes'
  BY <1>1, Encola, Quieto DEF LlegaPrograma, Imprimible, Textos
<1>5. TSalida'
  BY <1>1, Encola, Quieto DEF LlegaPrograma, CrearPCB
<1>6. TResto'
  BY DEF LlegaPrograma, Tipos, TResto
<1>. QED
  BY <1>2, <1>3, <1>4, <1>5, <1>6, Quieto DEF LlegaPrograma, Tipos, pcpVars

LEMMA NotaCierreTipo ==
  ASSUME Tipos, NEW p \in Pids, NotaCierre(p) PROVE Tipos'
<1>1. TPrograma'
  BY DEF NotaCierre, Tipos, TPrograma, baja
<1>2. TCierre'
  BY DEF NotaCierre, Tipos, TCierre
<1>. QED
  BY <1>1, <1>2, Quieto DEF NotaCierre, Tipos, comunes

LEMMA AdmisionTipo ==
  ASSUME Tipos, EsperaNuevo \/ Admite PROVE Tipos'
<1>1. CASE EsperaNuevo
  <2>1. TAdmision'
    BY <1>1 DEF EsperaNuevo, Tipos, TAdmision
  <2>. QED
    BY <1>1, <2>1, Quieto DEF EsperaNuevo, Tipos, pcpVars, comunes
<1>2. CASE Admite
  <2>1. TAdmision'
    BY <1>2 DEF Admite, Tipos, TAdmision
  <2>2. TResto'
    BY <1>2 DEF Admite, TomaLugar, Tipos, TResto
  <2>3. TListos'
    BY <1>2, Encola DEF Admite, Tipos, TAdmision
  <2>. QED
    BY <1>2, <2>1, <2>2, <2>3, Quieto DEF Admite, Tipos, pcpVars
<1>. QED  BY <1>1, <1>2

LEMMA EnviaMensajeTipo ==
  ASSUME Tipos, EnviaMensaje PROVE Tipos'
<1>1. colaImprimibles # <<>> /\ Head(colaImprimibles) \in Textos
  BY ColaTipo DEF EnviaMensaje, Tipos, TMensajes
<1>2. TMensajes'
  BY <1>1, ColaTipo DEF EnviaMensaje, Tipos, TMensajes
<1>3. TPrograma'
  BY <1>1 DEF EnviaMensaje, Tipos, TPrograma, Textos
<1>. QED
  BY <1>2, <1>3, Quieto DEF EnviaMensaje, Tipos, TResto, pcpVars

LEMMA VaciarColaExitTipo ==
  ASSUME Tipos, SacaDeExit \/ Destruye \/ DestruyeNulo PROVE Tipos'
<1>1. CASE SacaDeExit
  <2>1. TPrograma'
    BY <1>1, ColaTipo DEF SacaDeExit, Tipos, TPrograma, TSalida, vacia
  <2>2. TSalida'
    BY <1>1, ColaTipo DEF SacaDeExit, Tipos, TSalida, vacia
  <2>. QED
    BY <1>1, <2>1, <2>2, Quieto DEF SacaDeExit, Tipos, pcpVars
<1>2. CASE Destruye
  <2>1. TPrograma'
    BY <1>2 DEF Destruye, Tipos, TPrograma
  <2>. QED
    BY <1>2, <2>1, Quieto DEF Destruye, Tipos, pcpVars, comunes
<1>3. CASE DestruyeNulo
  BY <1>3, CaeTipo DEF DestruyeNulo
<1>. QED  BY <1>1, <1>2, <1>3

LEMMA ProgramaTipo ==
  ASSUME Tipos, NEW p \in Pids, CierraPrograma(p) \/ CortaPrograma(p) PROVE Tipos'
<1>1. TPrograma'
  BY DEF CierraPrograma, CortaPrograma, Tipos, TPrograma, baja
<1>. QED
  BY <1>1, Quieto DEF CierraPrograma, CortaPrograma, Tipos, pcpVars, comunes

LEMMA PLPTipo ==
  ASSUME Tipos, NextPLP PROVE Tipos'
BY LlegaProgramaTipo, NotaCierreTipo, AdmisionTipo, EnviaMensajeTipo, VaciarColaExitTipo,
   ProgramaTipo DEF NextPLP

-----------------------------------------------------------------------------
(* The server of the CPUs                                                  *)

\* What the server finds in the socket of a CPU and what it leaves in it.
LEMMA PedidoTipo ==
  ASSUME Tipos, NEW c \in Cpus, haciaKernel[c] # <<>>
  PROVE  /\ Pedido(c) \in AlKernel
         /\ Pedido(c).pcb \in Pids \cup {Nadie}
         /\ Consume(c) /\ UNCHANGED haciaCpu => TRed'
         /\ \A op \in {"NOTHING", "WAIT", "ERROR"} : Consume(c) /\ Responde(c, op) => TRed'
<1>1. haciaKernel[c] \in Seq(AlKernel) /\ haciaCpu[c] \in Seq(AlCpu)
  BY DEF Tipos, TRed
<1>2. Pedido(c) \in AlKernel /\ Tail(haciaKernel[c]) \in Seq(AlKernel)
  BY <1>1, ColaTipo DEF Pedido
<1>3. Pedido(c).pcb \in Pids \cup {Nadie}
  BY <1>2 DEF AlKernel, Mensajes
<1>4. Consume(c) => haciaKernel' \in [Cpus -> Seq(AlKernel)]
  BY <1>2 DEF Tipos, TRed, Consume
<1>5. ASSUME NEW op \in {"NOTHING", "WAIT", "ERROR"}, Responde(c, op)
      PROVE  haciaCpu' \in [Cpus -> Seq(AlCpu)]
  <2>1. Mensaje(op, Nadie, SinArg) \in AlCpu
    BY DEF Mensaje, AlCpu, Mensajes, FinDeRafaga
  <2>2. Append(haciaCpu[c], Mensaje(op, Nadie, SinArg)) \in Seq(AlCpu)
    BY <1>1, <2>1, ColaTipo
  <2>. QED  BY <1>5, <2>2 DEF Tipos, TRed, Responde
<1>. QED  BY <1>2, <1>3, <1>4, <1>5 DEF Tipos, TRed

\* A CPU that is free again, or about to close.
LEMMA OciosoTipo ==
  ASSUME Tipos, NEW c \in Cpus, QuedaOcioso(c) \/ QuedaOciosoSalvoCierre(c),
         UNCHANGED <<listaClientes, pcbAsignado, cpuAcerrar>>,
         programaCerrado' \subseteq programaCerrado
  PROVE  TClientes'
BY DEF Tipos, TClientes, QuedaOcioso, QuedaOciosoSalvoCierre

LEMMA NuevoClienteTipo ==
  ASSUME Tipos, NEW c \in Cpus, NuevoCliente(c) PROVE Tipos'
<1>1. TClientes'
  BY ColaTipo DEF NuevoCliente, Tipos, TClientes
<1>2. TCpu'
  BY DEF NuevoCliente, Tipos, TCpu
<1>. QED
  BY <1>1, <1>2, Quieto DEF NuevoCliente, Tipos, plpVars, comunes

LEMMA DescartaTipo ==
  ASSUME Tipos, NEW c \in Cpus, DescartaPcb(c) \/ DescartaPedido(c) PROVE Tipos'
<1>1. TRed'
  BY PedidoTipo DEF DescartaPcb, DescartaPedido, Llega
<1>2. TClientes'
  BY OciosoTipo, Quieto DEF DescartaPcb, DescartaPedido, Ajeno, clientes
<1>. QED
  BY <1>1, <1>2, Quieto DEF DescartaPcb, DescartaPedido, Ajeno, Tipos, plpVars, comunes, io

LEMMA OperacionQuantumTipo ==
  ASSUME Tipos, NEW c \in Cpus, OperacionQuantum(c) PROVE Tipos'
<1>1. TRed' /\ Pedido(c).pcb \in Pids
  BY PedidoTipo DEF OperacionQuantum, Llega, AlKernel
<1>2. TClientes'
  BY OciosoTipo DEF OperacionQuantum, Ajeno
<1>3. TListos'
  BY <1>1, Encola DEF OperacionQuantum
<1>. QED
  BY <1>1, <1>2, <1>3, Quieto DEF OperacionQuantum, Ajeno, Tipos, plpVars, io, TResto

LEMMA OperacionIOTipo ==
  ASSUME Tipos, NEW c \in Cpus, OperacionIO(c) PROVE Tipos'
<1>1. TRed'
  BY PedidoTipo DEF OperacionIO, Llega
<1>2. TServidor'
  BY DEF OperacionIO, TServidor
<1>. QED
  BY <1>1, <1>2, Quieto
     DEF OperacionIO, Ajeno, Tipos, plpVars, comunes, io, clientes

LEMMA OperacionFinTipo ==
  ASSUME Tipos, NEW c \in Cpus, OperacionFin(c) PROVE Tipos'
<1>1. TRed' /\ Pedido(c).pcb \in Pids
  BY PedidoTipo DEF OperacionFin, Llega, AlKernel
<1>2. TClientes'
  BY OciosoTipo DEF OperacionFin, Ajeno
<1>3. TMensajes'
  BY <1>1, Encola DEF OperacionFin, Imprimible, Textos
<1>4. TSalida'
  BY <1>1, Encola DEF OperacionFin
<1>5. TResto'
  BY DEF OperacionFin, DejaLugar, Ajeno, Tipos, TResto
<1>. QED
  BY <1>1, <1>2, <1>3, <1>4, <1>5, Quieto DEF OperacionFin, Ajeno, Tipos, plpVars, io

LEMMA OperacionImprimirTipo ==
  ASSUME Tipos, NEW c \in Cpus, OperacionImprimir(c) PROVE Tipos'
<1>1. TRed' /\ Pedido(c).de \in Pids
  BY PedidoTipo DEF OperacionImprimir, Llega, AlKernel
<1>2. TMensajes'
  BY <1>1, Encola DEF OperacionImprimir, Imprimible, QuienImprime, Textos
<1>. QED
  BY <1>1, <1>2, Quieto
     DEF OperacionImprimir, Ajeno, Tipos, plpVars, io, clientes, TResto

LEMMA OperacionWaitTipo ==
  ASSUME Tipos, NEW c \in Cpus, OperacionWait(c) PROVE Tipos'
<1>1. TRed' /\ Pedido(c).arg \in Semaforos
  BY PedidoTipo DEF OperacionWait, Llega, AlKernel
<1>2. TServidor'
  BY <1>1 DEF OperacionWait, Tipos, TServidor
<1>3. TAnsisop'
  BY <1>1 DEF OperacionWait, Tipos, TAnsisop, Ajeno
<1>. QED
  BY <1>1, <1>2, <1>3, Quieto
     DEF OperacionWait, Ajeno, Tipos, plpVars, comunes, io, clientes

LEMMA OperacionSignalTipo ==
  ASSUME Tipos, NEW c \in Cpus, OperacionSignal(c) PROVE Tipos'
<1>1. TRed' /\ Pedido(c).arg \in Semaforos
  BY PedidoTipo DEF OperacionSignal, Llega, AlKernel
<1>2. valor' \in [Semaforos -> Int]
  BY <1>1 DEF OperacionSignal, Tipos, TAnsisop
<1>3. listaBloqueados' \in Seq(Bloqueados) /\ TListos'
  <2>1. CASE HayQueDespertar(Pedido(c).arg)
    <3>1. PICK k \in Primera(Esperando(Pedido(c).arg)) :
            /\ listaBloqueados' = QuitaPos(listaBloqueados, k)
            /\ MandaAReady(listaBloqueados[k].pcb)
      BY <2>1 DEF OperacionSignal
    <3>2. listaBloqueados \in Seq(Bloqueados)
      BY DEF Tipos, TAnsisop
    <3>3. k \in 1..Len(listaBloqueados)
      BY <3>2 DEF Primera, Esperando
    <3>4. listaBloqueados[k] \in Bloqueados
      BY <3>2, <3>3
    <3>5. listaBloqueados[k].pcb \in Pids
      BY <3>4 DEF Bloqueados
    <3>. QED  BY <3>1, <3>2, <3>3, <3>5, QuitaPosTipo, Encola
  <2>2. CASE ~HayQueDespertar(Pedido(c).arg)
    BY <2>2, Quieto DEF OperacionSignal, Tipos, TAnsisop
  <2>. QED  BY <2>1, <2>2
<1>4. TAnsisop'
  BY <1>2, <1>3 DEF TAnsisop
<1>. QED
  BY <1>1, <1>3, <1>4, Quieto
     DEF OperacionSignal, Ajeno, Tipos, plpVars, io, clientes, TResto

LEMMA OperacionSigusrTipo ==
  ASSUME Tipos, NEW c \in Cpus, OperacionSigusr(c) PROVE Tipos'
<1>1. TRed'
  BY PedidoTipo DEF OperacionSigusr, Llega
<1>2. TClientes'
  BY DEF OperacionSigusr, Ajeno, Tipos, TClientes
<1>. QED
  BY <1>1, <1>2, Quieto DEF OperacionSigusr, Ajeno, Tipos, plpVars, comunes, io

LEMMA RecibeBloqueadoTipo ==
  ASSUME Tipos, NEW c \in Cpus, RecibeBloqueado(c) PROVE Tipos'
<1>1. TRed' /\ Pedido(c).pcb \in Pids
  BY PedidoTipo DEF RecibeBloqueado
<1>2. servidor.arg \in Semaforos
  BY DEF RecibeBloqueado, Tipos, TServidor
<1>3. TClientes'
  BY OciosoTipo DEF RecibeBloqueado, Ajeno
<1>4. TServidor'
  BY DEF RecibeBloqueado, TServidor, EnSelect
<1>5. TAnsisop'
  BY <1>1, <1>2, ColaTipo DEF RecibeBloqueado, Bloquea, Bloqueados, Tipos, TAnsisop
<1>. QED
  BY <1>1, <1>3, <1>4, <1>5, Quieto
     DEF RecibeBloqueado, Ajeno, Tipos, plpVars, comunes, io

LEMMA RecibeSolicitudTipo ==
  ASSUME Tipos, NEW c \in Cpus, RecibeSolicitud(c) PROVE Tipos'
<1>1. TRed' /\ Pedido(c).pcb \in Pids
  BY PedidoTipo DEF RecibeSolicitud
<1>2. TClientes'
  BY OciosoTipo DEF RecibeSolicitud
<1>3. TServidor'
  BY DEF RecibeSolicitud, TServidor, EnSelect
<1>4. TListos'
  BY <1>1, Encola, Quieto DEF RecibeSolicitud
<1>5. TIo'
  <2>1. ASSUME servidor.arg \in Dispositivos
        PROVE  Append(colaSolicitudes[servidor.arg], Pedido(c).pcb) \in Seq(Pids)
    BY <1>1, <2>1, ColaTipo DEF Tipos, TIo
  <2>. QED  BY <2>1 DEF RecibeSolicitud, Tipos, TIo
<1>. QED
  BY <1>1, <1>2, <1>3, <1>4, <1>5, Quieto DEF RecibeSolicitud, Tipos, plpVars, TResto

LEMMA CierraConexionTipo ==
  ASSUME Tipos, NEW c \in Cpus, CierraConexion(c) PROVE Tipos'
<1>1. TSalida'
  <2>1. c \in fueAsignado => pcbAsignado[c] \in Pids
    BY DEF Tipos, TClientes
  <2>. QED  BY <2>1, Encola, Quieto DEF CierraConexion, TeniaPcb
<1>2. TPrograma'
  BY DEF CierraConexion, Tipos, TPrograma
<1>3. listaClientes' \in Seq(Cpus)
  <2>1. PICK k \in Primera({j \in DOMAIN listaClientes : listaClientes[j] = c}) :
          listaClientes' = QuitaPos(listaClientes, k)
    BY DEF CierraConexion
  <2>2. listaClientes \in Seq(Cpus)
    BY DEF Tipos, TClientes
  <2>. QED  BY <2>1, <2>2, QuitaPosTipo DEF Primera
<1>4. TClientes'
  BY <1>3 DEF CierraConexion, Tipos, TClientes
<1>5. TServidor'
  BY DEF CierraConexion, Tipos, TServidor
<1>6. TRed'
  BY DEF CierraConexion, Tipos, TRed
<1>7. TCpu'
  BY DEF CierraConexion, Tipos, TCpu
<1>. QED
  BY <1>1, <1>2, <1>4, <1>5, <1>6, <1>7, Quieto DEF CierraConexion, Tipos, TResto

LEMMA AtiendeTipo ==
  ASSUME Tipos, NEW c \in Cpus, Atiende(c) PROVE Tipos'
BY DescartaTipo, OperacionQuantumTipo, OperacionIOTipo, OperacionFinTipo,
   OperacionImprimirTipo, OperacionWaitTipo, OperacionSignalTipo, OperacionSigusrTipo,
   RecibeBloqueadoTipo, RecibeSolicitudTipo, CierraConexionTipo, CaeTipo
   DEF Atiende, MensajeDesfasado, PcbDesfasado

-----------------------------------------------------------------------------
(* The dispatcher, the devices, the end of a process and the printing      *)

LEMMA DescuentaOciosoTipo ==
  ASSUME Tipos, DescuentaOcioso PROVE Tipos'
<1>1. TClientes'
  BY DEF DescuentaOcioso, Tipos, TClientes
<1>2. TServidor'
  BY DEF DescuentaOcioso, TServidor, EnSelect
<1>. QED
  BY <1>1, <1>2, Quieto DEF DescuentaOcioso, Tipos, plpVars, comunes, TResto

LEMMA AsignaTipo ==
  ASSUME Tipos, NEW p \in Pids, Asigna(p), despacho.cpu \in Cpus,
         UNCHANGED <<listaClientes, programaCerrado, semClienteOcioso, cpuAcerrar>>
  PROVE  TClientes' /\ TDespacho'
<1>1. TClientes'
  BY DEF Asigna, Tipos, TClientes
<1>2. TDespacho'
  BY DEF Asigna, EnEspera, TDespacho
<1>. QED  BY <1>1, <1>2

LEMMA EligeTipo ==
  ASSUME Tipos, EsperaReady \/ EligeOcioso PROVE Tipos'
<1>1. CASE EsperaReady
  <2>1. TListos' /\ TDespacho'
    BY <1>1 DEF EsperaReady, Tipos, TListos, TDespacho
  <2>. QED
    BY <1>1, <2>1, Quieto DEF EsperaReady, Tipos, plpVars, TResto
<1>2. CASE EligeOcioso
  <2>1. PICK k \in DOMAIN listaClientes :
          despacho' = [pc |-> "saca", cpu |-> listaClientes[k], pcb |-> Nadie]
    BY <1>2 DEF EligeOcioso, Primera, Ociosos
  <2>2. listaClientes[k] \in Cpus
    BY DEF Tipos, TClientes
  <2>3. TDespacho'
    BY <2>1, <2>2 DEF TDespacho
  <2>4. TClientes'
    BY <1>2 DEF EligeOcioso, Tipos, TClientes
  <2>. QED
    BY <1>2, <2>3, <2>4, Quieto DEF EligeOcioso, Tipos, plpVars, comunes, TResto
<1>. QED  BY <1>1, <1>2

LEMMA EnviaPcbTipo ==
  ASSUME Tipos, EnviaPcb PROVE Tipos'
<1>1. colaReady # <<>> /\ Head(colaReady) \in Pids /\ Tail(colaReady) \in Seq(Pids)
      /\ colaReady' = Tail(colaReady)
  BY ColaTipo DEF EnviaPcb, SacaDeReady, Tipos, TListos
<1>2. despacho.cpu \in Cpus /\ despacho.pc = "saca"
  BY DEF EnviaPcb, Tipos, TDespacho
<1>3. TListos'
  BY <1>1 DEF EnviaPcb, Tipos, TListos
<1>4. TRed'
  <2>1. Mensaje("NOTHING", Head(colaReady), SinArg) \in AlCpu
    BY <1>1 DEF Mensaje, AlCpu, Mensajes, FinDeRafaga
  <2>2. haciaCpu[despacho.cpu] \in Seq(AlCpu)
    BY <1>2 DEF Tipos, TRed
  <2>3. Append(haciaCpu[despacho.cpu], Mensaje("NOTHING", Head(colaReady), SinArg))
          \in Seq(AlCpu)
    BY <2>1, <2>2, ColaTipo
  <2>. QED  BY <2>3 DEF EnviaPcb, Envia, Tipos, TRed
<1>5. TClientes' /\ TDespacho'
  <2>1. CASE "envio" \in Carreras
    <3>1. TDespacho'
      BY <1>1, <1>2, <2>1 DEF EnviaPcb, Tipos, TDespacho
    <3>. QED  BY <2>1, <3>1, Quieto DEF EnviaPcb, clientes
  <2>2. CASE "envio" \notin Carreras
    BY <1>1, <1>2, <2>2, AsignaTipo DEF EnviaPcb
  <2>. QED  BY <2>1, <2>2
<1>. QED
  BY <1>3, <1>4, <1>5, Quieto DEF EnviaPcb, Tipos, plpVars, TResto

LEMMA AsignaPcbTipo ==
  ASSUME Tipos, AsignaPcb PROVE Tipos'
<1>1. TClientes' /\ TDespacho'
  BY AsignaTipo DEF AsignaPcb, Tipos, TDespacho
<1>. QED
  BY <1>1, Quieto DEF AsignaPcb, Tipos, plpVars, comunes, TResto

LEMMA DespachaTipo ==
  ASSUME Tipos, Despacha PROVE Tipos'
BY EligeTipo, EnviaPcbTipo, AsignaPcbTipo, CaeTipo DEF Despacha, DespachaNulo

LEMMA DispositivoTipo ==
  ASSUME Tipos, NEW d \in Dispositivos, TomaSolicitud(d) \/ TerminaIO(d) PROVE Tipos'
<1>1. CASE TomaSolicitud(d)
  <2>1. Head(colaSolicitudes[d]) \in Pids /\ Tail(colaSolicitudes[d]) \in Seq(Pids)
    BY <1>1, ColaTipo DEF TomaSolicitud, Tipos, TIo
  <2>2. TIo'
    BY <1>1, <2>1 DEF TomaSolicitud, Tipos, TIo
  <2>. QED
    BY <1>1, <2>2, Quieto DEF TomaSolicitud, Tipos, plpVars, comunes
<1>2. CASE TerminaIO(d)
  <2>1. enCurso[d] \in Pids
    BY <1>2 DEF TerminaIO, Tipos, TIo
  <2>2. TListos'
    BY <1>2, <2>1, Encola DEF TerminaIO
  <2>3. TIo'
    BY <1>2 DEF TerminaIO, Tipos, TIo
  <2>. QED
    BY <1>2, <2>2, <2>3, Quieto DEF TerminaIO, Tipos, plpVars, TResto
<1>. QED  BY <1>1, <1>2

\* Putting a PCB in colaExit and giving its place back.
LEMMA FinalizaTipo ==
  ASSUME Tipos, NEW p \in Pids, Finaliza(p)
  PROVE  /\ TSalida' /\ TResto' /\ TPrograma' /\ TCierre' /\ TAdmision' /\ TServidor'
         /\ TDespacho' /\ TIo' /\ TImpresora' /\ TMensajes' /\ TCpu' /\ TRed'
<1>1. TSalida'
  BY Encola DEF Finaliza
<1>2. TResto'
  BY DEF Finaliza, DejaLugar, Tipos, TResto
<1>3. TPrograma' /\ TCierre'
  BY DEF Finaliza, Tipos, TPrograma, TCierre
<1>. QED  BY <1>1, <1>2, <1>3, Quieto DEF Finaliza

LEMMA FinalizaPcbTipo ==
  ASSUME Tipos, FinalizaPcb PROVE Tipos'
<1>1. CASE EsperaFinaliza
  <2>1. TCierre'
    BY <1>1 DEF EsperaFinaliza, Tipos, TCierre
  <2>. QED
    BY <1>1, <2>1, Quieto DEF EsperaFinaliza, Tipos, plpVars, comunes
<1>2. CASE FinalizaBloqueado
  <2>1. PICK k \in BloqueadoAFinalizar : /\ listaBloqueados' = QuitaPos(listaBloqueados, k)
                                         /\ Finaliza(listaBloqueados[k].pcb)
    BY <1>2 DEF FinalizaBloqueado
  <2>2. listaBloqueados \in Seq(Bloqueados) /\ k \in 1..Len(listaBloqueados)
    BY <2>1 DEF Tipos, TAnsisop, BloqueadoAFinalizar, Primera
  <2>3. listaBloqueados[k] \in Bloqueados
    BY <2>2
  <2>4. listaBloqueados[k].pcb \in Pids
    BY <2>3 DEF Bloqueados
  <2>5. TAnsisop'
    BY <1>2, <2>1, <2>2, QuitaPosTipo DEF FinalizaBloqueado, Tipos, TAnsisop
  <2>. QED
    BY <1>2, <2>1, <2>4, <2>5, FinalizaTipo, Quieto DEF FinalizaBloqueado, Tipos
<1>3. CASE FinalizaReady
  <2>1. PICK k \in ReadyAFinalizar : /\ colaReady' = QuitaPos(colaReady, k)
                                     /\ Finaliza(colaReady[k])
    BY <1>3 DEF FinalizaReady
  <2>2. colaReady \in Seq(Pids) /\ k \in 1..Len(colaReady)
    BY <2>1 DEF Tipos, TListos, ReadyAFinalizar, Primera
  <2>3. colaReady[k] \in Pids
    BY <2>2
  <2>4. TListos'
    BY <1>3, <2>1, <2>2, QuitaPosTipo DEF FinalizaReady, Tipos, TListos
  <2>. QED
    BY <1>3, <2>1, <2>3, <2>4, FinalizaTipo, Quieto DEF FinalizaReady, Tipos
<1>4. CASE FinalizaAsignado
  <2>1. PICK k \in DOMAIN listaClientes :
          /\ pcbAsignado[listaClientes[k]] = pcbAFinalizar
          /\ programaCerrado' = programaCerrado \cup {listaClientes[k]}
          /\ fueAsignado' = fueAsignado \ {listaClientes[k]}
          /\ Finaliza(pcbAsignado[listaClientes[k]])
    BY <1>4 DEF FinalizaAsignado, ClienteAFinalizar, Primera
  <2>2. listaClientes[k] \in Cpus
    BY DEF Tipos, TClientes
  <2>3. pcbAsignado[listaClientes[k]] \in Pids
    BY <2>1, <2>2, PidsTipo DEF Tipos, TClientes, TCierre, Nadie, Nulo
  <2>4. TClientes'
    BY <1>4, <2>1, <2>2 DEF FinalizaAsignado, Tipos, TClientes
  <2>. QED
    BY <1>4, <2>1, <2>3, <2>4, FinalizaTipo, Quieto DEF FinalizaAsignado, Tipos
<1>5. CASE FinalizaBasura
  BY <1>5, CaeTipo DEF FinalizaBasura
<1>. QED  BY <1>1, <1>2, <1>3, <1>4, <1>5 DEF FinalizaPcb

LEMMA ImpresionTipo ==
  ASSUME Tipos,
         ReponeCola \/ \E hilo \in {"servidor", "despacho"}, cola \in {"ready", "exit"} :
                         VaciaCola(hilo, cola)
  PROVE  Tipos'
<1>1. <<>> \in Seq(Pids) /\ colaReady \in Seq(Pids) /\ colaExit \in Seq(Pids)
      /\ impresora.pcbs \in Seq(Pids)
  BY DEF Tipos, TListos, TSalida, TImpresora
<1>2. ASSUME NEW hilo \in {"servidor", "despacho"}, NEW cola \in {"ready", "exit"},
             VaciaCola(hilo, cola)
      PROVE  Tipos'
  <2>1. TListos' /\ TSalida'
    BY <1>1, <1>2 DEF VaciaCola, Tipos, TListos, TSalida
  <2>2. TImpresora'
    BY <1>1, <1>2 DEF VaciaCola, TImpresora
  <2>. QED
    BY <1>2, <2>1, <2>2, Quieto DEF VaciaCola, Tipos, plpVars, TResto
<1>3. CASE ReponeCola
  <2>1. /\ colaReady \o impresora.pcbs \in Seq(Pids)
        /\ colaExit \o impresora.pcbs \in Seq(Pids)
    BY <1>1, ColaTipo
  <2>2. TListos' /\ TSalida'
    BY <1>1, <1>3, <2>1 DEF ReponeCola, Repuesta, Tipos, TListos, TSalida
  <2>3. TImpresora'
    BY <1>1, <1>3 DEF ReponeCola, SinImpresion, TImpresora
  <2>. QED
    BY <1>3, <2>2, <2>3, Quieto DEF ReponeCola, Tipos, plpVars, TResto
<1>. QED  BY <1>2, <1>3

LEMMA PCPTipo ==
  ASSUME Tipos, NextPCP PROVE Tipos'
BY NuevoClienteTipo, AtiendeTipo, DescuentaOciosoTipo, DespachaTipo, DispositivoTipo,
   FinalizaPcbTipo, ImpresionTipo DEF NextPCP

-----------------------------------------------------------------------------
(* The CPUs                                                                *)

\* What a CPU asks for, and what it takes from its socket.
LEMMA PideTipo ==
  ASSUME Tipos, NEW c \in Cpus
  PROVE  /\ \A m \in AlKernel : Pide(c, m) /\ UNCHANGED haciaCpu => TRed'
         /\ haciaCpu[c] # <<>> =>
              /\ Head(haciaCpu[c]) \in AlCpu
              /\ haciaCpu' = [haciaCpu EXCEPT ![c] = Tail(@)] /\ UNCHANGED haciaKernel
                   => TRed'
<1>1. haciaKernel[c] \in Seq(AlKernel) /\ haciaCpu[c] \in Seq(AlCpu)
  BY DEF Tipos, TRed
<1>2. ASSUME NEW m \in AlKernel, Pide(c, m), UNCHANGED haciaCpu PROVE TRed'
  <2>1. Append(haciaKernel[c], m) \in Seq(AlKernel)
    BY <1>1, ColaTipo
  <2>. QED  BY <1>2, <2>1 DEF Tipos, TRed, Pide
<1>3. ASSUME haciaCpu[c] # <<>>
      PROVE  Head(haciaCpu[c]) \in AlCpu /\ Tail(haciaCpu[c]) \in Seq(AlCpu)
  BY <1>1, <1>3, ColaTipo
<1>. QED  BY <1>2, <1>3 DEF Tipos, TRed

LEMMA RecibePcbTipo ==
  ASSUME Tipos, NEW c \in Cpus, RecibePcb(c) PROVE Tipos'
<1>1. TRed' /\ Head(haciaCpu[c]) \in AlCpu
  BY PideTipo DEF RecibePcb
<1>2. Head(haciaCpu[c]).pcb \in Pids
  BY <1>1 DEF AlCpu, Mensajes, RecibePcb
<1>3. TCpu'
  BY <1>2, QuantumAssumption DEF RecibePcb, Tipos, TCpu, FinDeRafaga
<1>. QED
  BY <1>1, <1>3, Quieto DEF RecibePcb, Tipos, plpVars, pcpVars, comunes, TResto

LEMMA RecibeBasuraTipo ==
  ASSUME Tipos, NEW c \in Cpus, RecibeBasura(c) PROVE Tipos'
<1>1. TRed'
  BY PideTipo DEF RecibeBasura
<1>2. TCpu'
  BY DEF RecibeBasura, Tipos, TCpu
<1>. QED
  BY <1>1, <1>2, Quieto DEF RecibeBasura, Tipos, plpVars, pcpVars, comunes, TResto

\* One more turn of the burst.
LEMMA SigueTipo ==
  ASSUME Tipos, NEW c \in Cpus, cpu[c] \in {"corre", "respuesta"}, Sigue(c),
         restan' \in [Pids -> 0..MaxInstr], UNCHANGED <<pcb, operacion, cerrarCPU>>
  PROVE  TCpu'
<1>1. rafaga[c] \in 0..Quantum /\ rafaga[c] >= 1 /\ Quantum \in Nat
  BY QuantumAssumption DEF Tipos, TCpu
<1>2. rafaga[c] - 1 \in 0..Quantum /\ (rafaga[c] # 1 => rafaga[c] - 1 >= 1)
  BY <1>1
<1>3. rafaga' \in [Cpus -> 0..Quantum]
  BY <1>2 DEF Sigue, Tipos, TCpu
<1>. QED  BY <1>2, <1>3 DEF Sigue, Tipos, TCpu

LEMMA InstruccionTipo ==
  ASSUME Tipos, NEW c \in Cpus, NEW i, Instruccion(c, i)
  PROVE  restan' \in [Pids -> 0..MaxInstr] /\ pcb[c] \in Pids
<1>1. pcb[c] \in Pids
  BY DEF Instruccion, Tipos, TCpu
<1>2. restan[pcb[c]] \in 0..MaxInstr /\ restan[pcb[c]] > 0
  BY <1>1 DEF Instruccion, Tipos, TCpu
<1>3. restan[pcb[c]] - 1 \in 0..MaxInstr
  BY <1>2, MaxInstrAssumption
<1>. QED  BY <1>1, <1>3 DEF Instruccion, Tipos, TCpu

LEMMA InstruccionesTipo ==
  ASSUME Tipos, NEW c \in Cpus, Nada(c) \/ Imprimir(c) \/ Falla(c) PROVE Tipos'
<1>1. restan' \in [Pids -> 0..MaxInstr] /\ pcb[c] \in Pids
  BY InstruccionTipo DEF Nada, Imprimir, Falla
<1>2. Texto(pcb[c]) \in AlKernel
  BY <1>1 DEF Texto, AlKernel, Mensajes
<1>3. TRed'
  BY <1>2, PideTipo, Quieto DEF Nada, Imprimir, Falla, Instruccion, red
<1>4. TCpu'
  <2>1. CASE Nada(c) \/ Imprimir(c)
    BY <1>1, <2>1, SigueTipo DEF Nada, Imprimir, Instruccion
  <2>2. CASE Falla(c)
    BY <1>1, <2>2 DEF Falla, Instruccion, Tipos, TCpu, FinDeRafaga
  <2>. QED  BY <2>1, <2>2
<1>. QED
  BY <1>3, <1>4, Quieto
     DEF Nada, Imprimir, Falla, Instruccion, Tipos, plpVars, pcpVars, comunes, TResto

LEMMA AnsisopTipo ==
  ASSUME Tipos, NEW c \in Cpus, NEW s \in Semaforos, AnsisopWait(c, s) \/ AnsisopSignal(c, s)
  PROVE  Tipos'
<1>1. restan' \in [Pids -> 0..MaxInstr] /\ pcb[c] \in Pids
  BY InstruccionTipo DEF AnsisopWait, AnsisopSignal
<1>2. Mensaje("WAIT", Nadie, s) \in AlKernel /\ Mensaje("SIGNAL", Nadie, s) \in AlKernel
  BY DEF Mensaje, AlKernel, Mensajes
<1>3. TRed'
  BY <1>2, PideTipo DEF AnsisopWait, AnsisopSignal, Instruccion
<1>4. TCpu'
  <2>1. CASE AnsisopWait(c, s)
    BY <1>1, <2>1 DEF AnsisopWait, Instruccion, Tipos, TCpu
  <2>2. CASE AnsisopSignal(c, s)
    BY <1>1, <2>2, SigueTipo DEF AnsisopSignal, Instruccion
  <2>. QED  BY <2>1, <2>2
<1>. QED
  BY <1>3, <1>4, Quieto
     DEF AnsisopWait, AnsisopSignal, Instruccion, Tipos, plpVars, pcpVars, comunes, TResto

LEMMA RecibeRespuestaTipo ==
  ASSUME Tipos, NEW c \in Cpus, RecibeRespuesta(c) PROVE Tipos'
<1>1. TRed' /\ Head(haciaCpu[c]) \in AlCpu
  BY PideTipo DEF RecibeRespuesta
<1>2. TCpu'
  <2>1. CASE Head(haciaCpu[c]).op = "NOTHING"
    BY <2>1, SigueTipo DEF RecibeRespuesta, Tipos, TCpu
  <2>2. CASE Head(haciaCpu[c]).op # "NOTHING"
    <3>1. Head(haciaCpu[c]).op \in {"WAIT", "ERROR"}
      BY <1>1, <2>2 DEF AlCpu
    <3>. QED  BY <2>2, <3>1 DEF RecibeRespuesta, Tipos, TCpu, FinDeRafaga
  <2>. QED  BY <2>1, <2>2
<1>. QED
  BY <1>1, <1>2, Quieto DEF RecibeRespuesta, Tipos, plpVars, pcpVars, comunes, TResto

LEMMA EntradaSalidaTipo ==
  ASSUME Tipos, NEW c \in Cpus, NEW d \in Pedidos, EntradaSalida(c, d) PROVE Tipos'
<1>1. restan' \in [Pids -> 0..MaxInstr] /\ pcb[c] \in Pids
  BY InstruccionTipo DEF EntradaSalida
<1>2. Mensaje("IO", Nadie, d) \in AlKernel
  BY DEF Mensaje, AlKernel, Mensajes, FinDeRafaga
<1>3. TRed'
  BY <1>2, PideTipo DEF EntradaSalida, Instruccion
<1>4. TCpu'
  BY <1>1 DEF EntradaSalida, Instruccion, Tipos, TCpu, FinDeRafaga
<1>. QED
  BY <1>3, <1>4, Quieto
     DEF EntradaSalida, Instruccion, Tipos, plpVars, pcpVars, comunes, TResto

LEMMA CambioContextoTipo ==
  ASSUME Tipos, NEW c \in Cpus, CambioContexto(c) PROVE Tipos'
<1>1. pcb[c] \in Pids /\ operacion[c] \in FinDeRafaga \cup {"WAIT"}
  BY DEF CambioContexto, Tipos, TCpu
<1>2. Mensaje(operacion[c], pcb[c], SinArg) \in AlKernel
  BY <1>1, PidsTipo DEF Mensaje, AlKernel, Mensajes, FinDeRafaga
<1>3. TRed'
  BY <1>2, PideTipo DEF CambioContexto
<1>4. TCpu'
  BY DEF CambioContexto, Tipos, TCpu
<1>. QED
  BY <1>3, <1>4, Quieto DEF CambioContexto, Tipos, plpVars, pcpVars, comunes, TResto

LEMMA CierresTipo ==
  ASSUME Tipos, NEW c \in Cpus, Finalizar(c) \/ Sigusr1(c) \/ CaeCpu(c) PROVE Tipos'
<1>1. Mensaje("SIGUSR", Nadie, SinArg) \in AlKernel
  BY DEF Mensaje, AlKernel, Mensajes
<1>2. TRed'
  BY <1>1, PideTipo, Quieto DEF Finalizar, Sigusr1, CaeCpu, red
<1>3. TCpu'
  BY DEF Finalizar, Sigusr1, CaeCpu, Tipos, TCpu, FinDeRafaga
<1>. QED
  BY <1>2, <1>3, Quieto
     DEF Finalizar, Sigusr1, CaeCpu, Tipos, plpVars, pcpVars, comunes, TResto

LEMMA CPUTipo ==
  ASSUME Tipos, NextCPU PROVE Tipos'
BY RecibePcbTipo, RecibeBasuraTipo, RecibeRespuestaTipo, InstruccionesTipo, AnsisopTipo,
   EntradaSalidaTipo, CambioContextoTipo, CierresTipo DEF NextCPU, Corre

-----------------------------------------------------------------------------
(* The theorem                                                             *)

LEMMA InitTipos == Init => Tipos
<1>. SUFFICES ASSUME Init PROVE Tipos
  OBVIOUS
<1>1. TAdmision /\ TPrograma /\ TMensajes /\ TSalida /\ TListos /\ TCierre /\ TResto
  BY MaxProgAssumption, MultiProgAssumption, PidsTipo
     DEF Init, InitPLP, InitPCP, TAdmision, TPrograma, TMensajes, TSalida, TListos,
         TCierre, TResto
<1>2. TClientes /\ TServidor /\ TDespacho /\ TIo /\ TImpresora
  BY DEF Init, InitPLP, InitPCP, EnSelect, EnEspera, SinImpresion, DispositivosIniciales,
         TClientes, TServidor, TDespacho, TIo, TImpresora
<1>3. TAnsisop
  BY ValoresAssumption DEF Init, InitPCP, SemaforosIniciales, TAnsisop
<1>4. TCpu /\ TRed
  BY QuantumAssumption, MaxInstrAssumption DEF Init, InitCPU, TCpu, TRed, FinDeRafaga
<1>. QED  BY <1>1, <1>2, <1>3, <1>4 DEF Tipos

LEMMA NextTipos == Tipos /\ [Next]_vars => Tipos'
<1>. SUFFICES ASSUME Tipos, [Next]_vars PROVE Tipos'
  OBVIOUS
<1>1. CASE UNCHANGED vars
  BY <1>1, Quieto DEF vars, plpVars, pcpVars, comunes, Tipos
<1>2. CASE Next
  BY <1>2, PLPTipo, PCPTipo, CPUTipo DEF Next
<1>. QED  BY <1>1, <1>2

\* The positions of a sequence of S hold elements of S.
LEMMA RangoTipo ==
  ASSUME NEW S, NEW q \in Seq(S) PROVE Range(q) \subseteq S
BY DEF Range

LEMMA TiposTypeOK == Tipos => TypeOK
<1>. SUFFICES ASSUME Tipos PROVE TypeOK
  OBVIOUS
<1>1. \A m \in Range(colaImprimibles) : m.pid \in Pids /\ m.de \in Pids
  BY RangoTipo DEF Tipos, TMensajes, Textos
<1>2. Range(colaExit) \subseteq Pids /\ Range(colaReady) \subseteq Pids
      /\ Range(listaClientes) \subseteq Cpus
  BY RangoTipo DEF Tipos, TSalida, TListos, TClientes
<1>3. \A i \in DOMAIN listaBloqueados :
        listaBloqueados[i].pcb \in Pids /\ listaBloqueados[i].sem \in Semaforos
  <2>1. \A i \in DOMAIN listaBloqueados : listaBloqueados[i] \in Bloqueados
    BY DEF Tipos, TAnsisop
  <2>. QED  BY <2>1 DEF Bloqueados
<1>4. \A d \in Dispositivos : Range(colaSolicitudes[d]) \subseteq Pids
  BY RangoTipo DEF Tipos, TIo
<1>5. \A c \in Cpus : /\ Range(haciaCpu[c]) \subseteq Mensajes
                      /\ Range(haciaKernel[c]) \subseteq Mensajes
  <2>1. \A c \in Cpus : Range(haciaCpu[c]) \subseteq AlCpu
                        /\ Range(haciaKernel[c]) \subseteq AlKernel
    BY RangoTipo DEF Tipos, TRed
  <2>. QED  BY <2>1 DEF AlCpu, AlKernel
<1>6. nroProg \in 0..MaxProg /\ TAdmision /\ TPrograma /\ TCierre /\ TCpu /\ TResto
  BY DEF Tipos, TAdmision
<1>. QED
  BY <1>1, <1>2, <1>3, <1>4, <1>5
     DEF TypeOK, Tipos, TAdmision, TPrograma, TMensajes, TSalida, TListos, TClientes,
         TServidor, TDespacho, TCierre, TAnsisop, TIo, TCpu, TResto

\* Every queue, semaphore, message and field of the Kernel, the CPUs and their
\* sockets holds a value of the shape the handlers assume, whatever fails.
THEOREM TipoCorrecto == Spec => []TypeOK
<1>1. Spec => []Tipos
  BY InitTipos, NextTipos, PTL DEF Spec
<1>. QED  BY <1>1, TiposTypeOK, PTL

-----------------------------------------------------------------------------
(* Counting the positions of a list                                        *)

Donde1(q, T) == {j \in DOMAIN q : q[j] \in T}

LEMMA PosicionesFinitas ==
  ASSUME NEW S, NEW q \in Seq(S), NEW T
  PROVE  IsFiniteSet(Donde1(q, T)) /\ Cardinality(Donde1(q, T)) \in Nat
<1>1. IsFiniteSet(1..Len(q))
  BY FS_Interval
<1>2. Donde1(q, T) \in SUBSET (1..Len(q))
  BY DEF Donde1
<1>. QED  BY <1>1, <1>2, FS_Subset, FS_CardinalityType

\* One more element at the end.
LEMMA AppendCuenta ==
  ASSUME NEW S, NEW q \in Seq(S), NEW e \in S, NEW T
  PROVE  Cardinality(Donde1(Append(q, e), T)) =
           Cardinality(Donde1(q, T)) + (IF e \in T THEN 1 ELSE 0)
<1>1. Donde1(Append(q, e), T) =
        IF e \in T THEN Donde1(q, T) \cup {Len(q) + 1} ELSE Donde1(q, T)
  <2>1. /\ DOMAIN Append(q, e) = DOMAIN q \cup {Len(q) + 1}
        /\ \A j \in DOMAIN q : Append(q, e)[j] = q[j]
        /\ Append(q, e)[Len(q) + 1] = e
    OBVIOUS
  <2>. QED  BY <2>1 DEF Donde1
<1>2. Len(q) + 1 \notin Donde1(q, T)
  BY DEF Donde1
<1>3. IsFiniteSet(Donde1(q, T)) /\ Cardinality(Donde1(q, T)) \in Nat
  BY PosicionesFinitas
<1>4. Cardinality(Donde1(q, T) \cup {Len(q) + 1}) = Cardinality(Donde1(q, T)) + 1
  BY <1>2, <1>3, FS_AddElement
<1>. QED  BY <1>1, <1>3, <1>4

\* One element taken out.
LEMMA QuitaPosCuenta ==
  ASSUME NEW S, NEW q \in Seq(S), NEW k \in 1..Len(q), NEW T
  PROVE  Cardinality(Donde1(QuitaPos(q, k), T)) =
           Cardinality(Donde1(q, T)) - (IF q[k] \in T THEN 1 ELSE 0)
<1>. DEFINE A == Donde1(q, T) \ {k}
            B == Donde1(QuitaPos(q, k), T)
            f == [j \in A |-> IF j < k THEN j ELSE j - 1]
<1>1. \A j \in A : j \in Nat /\ j >= 1 /\ j <= Len(q) /\ j # k /\ q[j] \in T
  BY DEF Donde1
<1>2. \A j : j \in B <=> /\ j \in Nat /\ j >= 1 /\ j <= Len(q) - 1
                         /\ (IF j < k THEN q[j] ELSE q[j + 1]) \in T
  BY QuitaPosTipo DEF Donde1, QuitaPos
<1>3. k \in Nat /\ k >= 1 /\ k <= Len(q) /\ Len(q) \in Nat
  OBVIOUS
<1>4. f \in [A -> B]
  <2>1. ASSUME NEW j \in A PROVE (IF j < k THEN j ELSE j - 1) \in B
    <3>1. CASE j < k
      BY <1>1, <1>2, <1>3, <3>1
    <3>2. CASE ~(j < k)
      <4>1. j - 1 \in Nat /\ j - 1 >= 1 /\ j - 1 <= Len(q) - 1 /\ ~(j - 1 < k)
            /\ (j - 1) + 1 = j
        BY <1>1, <1>3, <3>2
      <4>. QED  BY <1>1, <1>2, <3>2, <4>1
    <3>. QED  BY <3>1, <3>2
  <2>. QED  BY <2>1
<1>5. \A i, j \in A : f[i] = f[j] => i = j
  BY <1>1, <1>3
<1>6. \A b \in B : \E j \in A : f[j] = b
  <2>1. SUFFICES ASSUME NEW b \in B PROVE \E j \in A : f[j] = b
    BY Zenon
  <2>2. CASE b < k
    <3>1. b \in A
      BY <1>2, <1>3, <2>2 DEF Donde1
    <3>. QED  BY <2>2, <3>1
  <2>3. CASE ~(b < k)
    <3>1. b + 1 \in A /\ ~(b + 1 < k) /\ (b + 1) - 1 = b
      BY <1>2, <1>3, <2>3 DEF Donde1
    <3>. QED  BY <3>1
  <2>. QED  BY <2>2, <2>3
<1>7. ExistsBijection(A, B)
  BY <1>4, <1>5, <1>6
     DEF ExistsBijection, Bijection, Injection, Surjection, IsInjective
<1>8. IsFiniteSet(A) /\ Cardinality(A) = Cardinality(Donde1(q, T))
                                          - (IF q[k] \in T THEN 1 ELSE 0)
  <2>1. (k \in Donde1(q, T)) <=> (q[k] \in T)
    BY DEF Donde1
  <2>. QED  BY <2>1, PosicionesFinitas, FS_RemoveElement
<1>. QED  BY <1>7, <1>8, FS_Bijection

-----------------------------------------------------------------------------
(* What the semaphores count, when no program is closed before its end     *)

\* hiloPCBaFinalizar has nothing to do: a program is gone only after it was
\* told that its process ended
SinCierre ==
  /\ \A p \in Pids : programa[p] \in {"avisado", "cerrado"} => p \in terminado
  /\ semProgramaFinaliza = 0 /\ finalizador = "espera"

\* from the answer WAIT to the arrival of the PCB the value cannot grow
BloqueadosBien ==
  /\ BloqueadosContados
  /\ servidor.pc = "pcbWait" => valor[servidor.arg] <= 0

Cuentas == Tipos /\ SinCierre /\ ListosContados /\ BloqueadosBien

LEMMA CuentaQuieta ==
  ASSUME Cuentas
  PROVE  /\ UNCHANGED <<programa, terminado, cierre>> => SinCierre'
         /\ UNCHANGED <<listos, despacho, impresora>> => ListosContados'
         /\ UNCHANGED <<servidor, ansisop>> => BloqueadosBien'
<1>1. UNCHANGED <<programa, terminado, cierre>> => SinCierre'
  BY DEF Cuentas, SinCierre, cierre
<1>2. UNCHANGED <<listos, despacho, impresora>> => ListosContados'
  BY DEF Cuentas, ListosContados, listos
<1>3. UNCHANGED <<servidor, ansisop>> => BloqueadosBien'
  BY DEF Cuentas, BloqueadosBien, BloqueadosContados, Esperando, ansisop
<1>. QED  BY <1>1, <1>2, <1>3

\* the processes blocked on s, as positions that hold a member of a set
De(s) == {b \in Bloqueados : b.sem = s}

LEMMA EsperandoEs ==
  ASSUME Tipos, NEW s \in Semaforos
  PROVE  /\ Esperando(s) = Donde1(listaBloqueados, De(s))
         /\ IsFiniteSet(Esperando(s)) /\ Cardinality(Esperando(s)) \in Nat
<1>1. listaBloqueados \in Seq(Bloqueados)
  BY DEF Tipos, TAnsisop
<1>2. \A j \in DOMAIN listaBloqueados : listaBloqueados[j] \in Bloqueados
  BY <1>1
<1>3. Esperando(s) = Donde1(listaBloqueados, De(s))
  BY <1>2 DEF Esperando, Donde1, De
<1>. QED  BY <1>1, <1>3, PosicionesFinitas

-----------------------------------------------------------------------------
(* The PLP, the CPUs and the failures                                      *)

LEMMA CaeCuenta ==
  ASSUME Cuentas, Cae PROVE Cuentas'
BY CaeTipo, CuentaQuieta
   DEF Cuentas, Cae, plpVars, pcpVars, comunes, admision, baja, listos, cierre, ansisop

\* Who adds a PCB to colaReady says so.
LEMMA ReadyCuenta ==
  ASSUME Cuentas, NEW p \in Pids, MandaAReady(p), UNCHANGED <<despacho, impresora>>
  PROVE  ListosContados'
<1>1. Len(colaReady)' = Len(colaReady) + 1
      /\ semNuevoPcbColaReady' = semNuevoPcbColaReady + 1
      /\ Len(colaReady) \in Nat /\ semNuevoPcbColaReady \in Nat
  BY ColaTipo DEF MandaAReady, Cuentas, Tipos, TListos
<1>2. PICK a \in Nat : a = IF despacho.pc \in {"ocioso", "saca"} THEN 1 ELSE 0
  OBVIOUS
<1>3. PICK b \in Nat : b = IF impresora.cola = "ready" THEN Len(impresora.pcbs) ELSE 0
  BY ColaTipo DEF Cuentas, Tipos, TImpresora
<1>4. semNuevoPcbColaReady + a = Len(colaReady) + b
  BY <1>2, <1>3 DEF Cuentas, ListosContados
<1>5. semNuevoPcbColaReady' + a = Len(colaReady)' + b
  BY <1>1, <1>4
<1>. QED  BY <1>2, <1>3, <1>5 DEF ListosContados

LEMMA PLPCuenta ==
  ASSUME Cuentas, NextPLP, "programa" \notin Cortes PROVE Cuentas'
<1>1. Tipos'
  BY PLPTipo DEF Cuentas
<1>2. BloqueadosBien' /\ (~Admite => ListosContados')
  BY CuentaQuieta
     DEF NextPLP, LlegaPrograma, NotaCierre, EsperaNuevo, Admite, EnviaMensaje, SacaDeExit,
         Destruye, DestruyeNulo, Cae, CierraPrograma, CortaPrograma, pcpVars, comunes
<1>3. Admite => ListosContados'
  <2>1. SUFFICES ASSUME Admite PROVE ListosContados'
    OBVIOUS
  <2>2. PICK p \in Pids : MandaAReady(p)
    BY <2>1 DEF Admite, Cuentas, Tipos, TAdmision
  <2>3. UNCHANGED <<despacho, impresora>>
    BY <2>1 DEF Admite, pcpVars
  <2>. QED  BY <2>2, <2>3, ReadyCuenta
<1>4. SinCierre'
  <2>1. UNCHANGED cierre
    BY DEF NextPLP, LlegaPrograma, NotaCierre, EsperaNuevo, Admite, EnviaMensaje,
           SacaDeExit, Destruye, DestruyeNulo, Cae, CierraPrograma, CortaPrograma, pcpVars,
           cierre, Cuentas, SinCierre
  <2>2. \A p \in Pids : programa'[p] \in {"avisado", "cerrado"} => p \in terminado'
    <3>1. CASE \E r \in Creaciones : LlegaPrograma(r)
      BY <3>1 DEF LlegaPrograma, Cuentas, SinCierre, Tipos, TPrograma
    <3>2. CASE \E p \in Pids : NotaCierre(p) \/ CierraPrograma(p) \/ CortaPrograma(p)
      BY <3>2 DEF NotaCierre, CierraPrograma, CortaPrograma, Cuentas, SinCierre, Tipos,
                  TPrograma
    <3>3. CASE EnviaMensaje
      <4>1. \/ UNCHANGED <<programa, terminado>>
            \/ \E p \in Pids : /\ terminado' = terminado \cup {p}
                               /\ programa' = [programa EXCEPT ![p] =
                                     IF @ = "conectado" THEN "avisado" ELSE @]
        BY <3>3 DEF EnviaMensaje, ClientesProgramas
      <4>. QED  BY <4>1 DEF Cuentas, SinCierre, Tipos, TPrograma
    <3>4. CASE EsperaNuevo \/ Admite \/ SacaDeExit \/ Destruye \/ DestruyeNulo
      BY <3>4 DEF EsperaNuevo, Admite, SacaDeExit, Destruye, DestruyeNulo, Cae, plpVars,
                  Cuentas, SinCierre
    <3>. QED  BY <3>1, <3>2, <3>3, <3>4 DEF NextPLP
  <2>. QED  BY <2>1, <2>2 DEF Cuentas, SinCierre, cierre
<1>. QED  BY <1>1, <1>2, <1>3, <1>4 DEF Cuentas

LEMMA CPUAjena == ASSUME NextCPU PROVE UNCHANGED <<plpVars, pcpVars, comunes, kernel>>
BY DEF NextCPU, Corre, RecibePcb, RecibeBasura, RecibeRespuesta, Nada, Imprimir, Falla,
       Finalizar, AnsisopWait, AnsisopSignal, EntradaSalida, CambioContexto, Sigusr1,
       CaeCpu, Instruccion

LEMMA CPUCuenta ==
  ASSUME Cuentas, NextCPU PROVE Cuentas'
BY CPUTipo, CPUAjena, CuentaQuieta DEF Cuentas, plpVars, pcpVars, comunes

-----------------------------------------------------------------------------
(* The PCP                                                                 *)
LEMMA AjenosCuenta ==
  ASSUME Cuentas, NEW c \in Cpus,
         NuevoCliente(c) \/ DescartaPcb(c) \/ DescartaPedido(c) \/ OperacionFin(c)
           \/ OperacionImprimir(c) \/ OperacionSigusr(c)
  PROVE  Cuentas'
<1>1. UNCHANGED <<programa, terminado, cierre, listos, despacho, impresora, servidor, ansisop>>
  BY DEF NuevoCliente, DescartaPcb, DescartaPedido, OperacionFin, OperacionImprimir,
         OperacionSigusr, Ajeno, plpVars, comunes
<1>2. Tipos'
  BY NuevoClienteTipo, DescartaTipo, OperacionFinTipo, OperacionImprimirTipo,
     OperacionSigusrTipo DEF Cuentas
<1>. QED  BY <1>1, <1>2, CuentaQuieta DEF Cuentas

\* The server goes on without a word about semaphores.
LEMMA ServidorCuenta ==
  ASSUME Cuentas, UNCHANGED ansisop, servidor'.pc # "pcbWait"
  PROVE  BloqueadosBien'
BY DEF Cuentas, BloqueadosBien, BloqueadosContados, Esperando, ansisop

LEMMA VueltaCuenta ==
  ASSUME Cuentas, NEW c \in Cpus,
         OperacionQuantum(c) \/ OperacionIO(c) \/ RecibeSolicitud(c) \/ CierraConexion(c)
  PROVE  Cuentas'
<1>1. UNCHANGED <<programa, terminado, cierre, despacho, impresora, ansisop>>
  BY DEF OperacionQuantum, OperacionIO, RecibeSolicitud, CierraConexion, Ajeno, plpVars,
         comunes
<1>2. Tipos'
  BY OperacionQuantumTipo, OperacionIOTipo, RecibeSolicitudTipo, CierraConexionTipo
     DEF Cuentas
<1>3. BloqueadosBien'
  <2>1. CASE OperacionQuantum(c)
    BY <1>1, <2>1, CuentaQuieta DEF OperacionQuantum
  <2>2. CASE OperacionIO(c) \/ RecibeSolicitud(c)
    BY <1>1, <2>2, ServidorCuenta DEF OperacionIO, RecibeSolicitud, EnSelect
  <2>3. CASE CierraConexion(c)
    <3>1. servidor'.pc # "pcbWait"
      BY <2>3 DEF CierraConexion, EnSelect
    <3>. QED  BY <1>1, <3>1, ServidorCuenta
  <2>. QED  BY <2>1, <2>2, <2>3
<1>4. ListosContados'
  <2>1. CASE UNCHANGED listos
    BY <1>1, <2>1, CuentaQuieta
  <2>2. CASE ~UNCHANGED listos
    <3>1. MandaAReady(Pedido(c).pcb) /\ haciaKernel[c] # <<>>
      BY <2>2
         DEF OperacionQuantum, Llega, OperacionIO, RecibeSolicitud, CierraConexion, Ajeno,
             comunes
    <3>2. Pedido(c).pcb \in Pids
      <4>1. Pedido(c).pcb \in Pids \cup {Nadie} /\ Pedido(c) \in AlKernel
        BY <3>1, PedidoTipo DEF Cuentas
      <4>2. ~OperacionIO(c) /\ ~CierraConexion(c)
        BY <2>2 DEF OperacionIO, CierraConexion, Ajeno, comunes
      <4>. QED  BY <4>1, <4>2 DEF OperacionQuantum, RecibeSolicitud, AlKernel
    <3>. QED  BY <1>1, <3>1, <3>2, ReadyCuenta
  <2>. QED  BY <2>1, <2>2
<1>. QED  BY <1>1, <1>2, <1>3, <1>4, CuentaQuieta DEF Cuentas

\* A WAIT takes a positive value, or leaves the server waiting for the PCB
\* with a value that is not.
LEMMA WaitCuenta ==
  ASSUME Cuentas, NEW c \in Cpus, OperacionWait(c) PROVE Cuentas'
<1>1. UNCHANGED <<programa, terminado, cierre, listos, despacho, impresora, listaBloqueados>>
  BY DEF OperacionWait, Ajeno, plpVars, comunes
<1>2. Tipos'
  BY OperacionWaitTipo DEF Cuentas
<1>3. Pedido(c).arg \in Semaforos
  BY PedidoTipo DEF OperacionWait, Llega, AlKernel, Cuentas
<1>4. servidor.pc = "select" /\ valor \in [Semaforos -> Int]
  BY DEF OperacionWait, Llega, EnSelect, Cuentas, Tipos, TAnsisop
<1>5. BloqueadosContados'
  <2>1. SUFFICES ASSUME NEW s \in Semaforos
                 PROVE  Cardinality(Esperando(s)') = IF valor'[s] < 0 THEN -valor'[s] ELSE 0
    BY DEF BloqueadosContados
  <2>2. Esperando(s)' = Esperando(s)
    BY <1>1 DEF Esperando
  <2>3. \/ valor'[s] = valor[s]
        \/ valor[s] > 0 /\ valor'[s] = valor[s] - 1
    BY <1>3, <1>4 DEF OperacionWait
  <2>. QED
    BY <1>4, <2>2, <2>3 DEF Cuentas, BloqueadosBien, BloqueadosContados
<1>6. servidor'.pc = "pcbWait" => valor'[servidor'.arg] <= 0
  BY <1>3, <1>4 DEF OperacionWait
<1>. QED  BY <1>1, <1>2, <1>5, <1>6, CuentaQuieta DEF Cuentas, BloqueadosBien

\* The process of the PCB that arrives is one more blocked, and the value,
\* that was not positive, is one less.
LEMMA BloqueaCuenta ==
  ASSUME Cuentas, NEW c \in Cpus, RecibeBloqueado(c) PROVE Cuentas'
<1>1. UNCHANGED <<programa, terminado, cierre, listos, despacho, impresora>>
  BY DEF RecibeBloqueado, Ajeno, plpVars, comunes
<1>2. Tipos' /\ Tipos
  BY RecibeBloqueadoTipo DEF Cuentas
<1>3. /\ servidor.arg \in Semaforos /\ valor[servidor.arg] <= 0
      /\ valor \in [Semaforos -> Int] /\ listaBloqueados \in Seq(Bloqueados)
      /\ servidor'.pc # "pcbWait"
  BY DEF RecibeBloqueado, EnSelect, Cuentas, BloqueadosBien, Tipos, TServidor, TAnsisop
<1>4. PICK e \in Bloqueados : /\ e.sem = servidor.arg
                              /\ listaBloqueados' = Append(listaBloqueados, e)
  <2>1. Pedido(c).pcb \in Pids
    BY <1>2, PedidoTipo DEF RecibeBloqueado
  <2>. QED  BY <1>3, <2>1 DEF RecibeBloqueado, Bloquea, Bloqueados
<1>5. valor' = [valor EXCEPT ![servidor.arg] = @ - 1]
  BY DEF RecibeBloqueado, Bloquea
<1>6. BloqueadosContados'
  <2>1. SUFFICES ASSUME NEW s \in Semaforos
                 PROVE  Cardinality(Esperando(s)') = IF valor'[s] < 0 THEN -valor'[s] ELSE 0
    BY DEF BloqueadosContados
  <2>2. Esperando(s) = Donde1(listaBloqueados, De(s)) /\ Cardinality(Esperando(s)) \in Nat
    BY <1>2, EsperandoEs
  <2>3. Esperando(s)' = Donde1(listaBloqueados', De(s))
    <3>1. \A j \in DOMAIN listaBloqueados' : listaBloqueados'[j] \in Bloqueados
      BY <1>2 DEF Tipos, TAnsisop
    <3>. QED  BY <3>1 DEF Esperando, Donde1, De
  <2>4. Cardinality(Esperando(s)') =
          Cardinality(Esperando(s)) + (IF e \in De(s) THEN 1 ELSE 0)
    BY <1>3, <1>4, <2>2, <2>3, AppendCuenta
  <2>5. (e \in De(s)) <=> (s = servidor.arg)
    BY <1>4 DEF De
  <2>6. Cardinality(Esperando(s)) = IF valor[s] < 0 THEN -valor[s] ELSE 0
    BY DEF Cuentas, BloqueadosBien, BloqueadosContados
  <2>. QED  BY <1>3, <1>5, <2>2, <2>4, <2>5, <2>6
<1>. QED  BY <1>1, <1>2, <1>3, <1>6, CuentaQuieta DEF Cuentas, BloqueadosBien

\* A SIGNAL wakes exactly one process when the value is negative.
LEMMA SignalCuenta ==
  ASSUME Cuentas, NEW c \in Cpus, OperacionSignal(c) PROVE Cuentas'
<1>. DEFINE t == Pedido(c).arg
<1>1. UNCHANGED <<programa, terminado, cierre, despacho, impresora, servidor>>
  BY DEF OperacionSignal, Ajeno, plpVars, comunes
<1>2. Tipos' /\ Tipos
  BY OperacionSignalTipo DEF Cuentas
<1>3. /\ t \in Semaforos /\ valor \in [Semaforos -> Int]
      /\ listaBloqueados \in Seq(Bloqueados) /\ servidor.pc = "select"
  BY PedidoTipo DEF OperacionSignal, Llega, EnSelect, AlKernel, Cuentas, Tipos, TAnsisop
<1>4. valor' = [valor EXCEPT ![t] = @ + 1]
  BY DEF OperacionSignal
<1>5. \A s \in Semaforos : /\ Cardinality(Esperando(s)) = IF valor[s] < 0 THEN -valor[s] ELSE 0
                           /\ Cardinality(Esperando(s)) \in Nat
  BY <1>2, EsperandoEs DEF Cuentas, BloqueadosBien, BloqueadosContados
<1>6. CASE HayQueDespertar(t)
  <2>1. PICK k \in Primera(Esperando(t)) :
          /\ listaBloqueados' = QuitaPos(listaBloqueados, k)
          /\ MandaAReady(listaBloqueados[k].pcb)
    BY <1>6 DEF OperacionSignal
  <2>2. k \in 1..Len(listaBloqueados) /\ listaBloqueados[k].sem = t
    BY <1>3 DEF Primera, Esperando
  <2>3. listaBloqueados[k] \in Bloqueados
    BY <1>3, <2>2
  <2>4. listaBloqueados[k].pcb \in Pids
    BY <2>3 DEF Bloqueados
  <2>5. BloqueadosContados'
    <3>1. SUFFICES ASSUME NEW s \in Semaforos
                   PROVE  Cardinality(Esperando(s)') = IF valor'[s] < 0 THEN -valor'[s] ELSE 0
      BY DEF BloqueadosContados
    <3>2. Esperando(s) = Donde1(listaBloqueados, De(s))
      BY <1>2, EsperandoEs
    <3>3. Esperando(s)' = Donde1(listaBloqueados', De(s))
      <4>1. \A j \in DOMAIN listaBloqueados' : listaBloqueados'[j] \in Bloqueados
        BY <1>2 DEF Tipos, TAnsisop
      <4>. QED  BY <4>1 DEF Esperando, Donde1, De
    <3>4. Cardinality(Esperando(s)') =
            Cardinality(Esperando(s)) - (IF listaBloqueados[k] \in De(s) THEN 1 ELSE 0)
      BY <1>3, <2>1, <2>2, <3>2, <3>3, QuitaPosCuenta
    <3>5. (listaBloqueados[k] \in De(s)) <=> (s = t)
      BY <2>2, <2>3 DEF De
    <3>6. valor[t] < 0
      BY <1>6 DEF HayQueDespertar
    <3>. QED  BY <1>3, <1>4, <1>5, <3>4, <3>5, <3>6
  <2>6. ListosContados'
    BY <1>1, <2>1, <2>4, ReadyCuenta
  <2>. QED  BY <1>1, <1>2, <1>3, <2>5, <2>6, CuentaQuieta DEF Cuentas, BloqueadosBien
<1>7. CASE ~HayQueDespertar(t)
  <2>1. UNCHANGED <<listaBloqueados, listos>>
    BY <1>7 DEF OperacionSignal
  <2>2. valor[t] >= 0
    <3>1. SUFFICES ASSUME valor[t] < 0 PROVE FALSE
      BY <1>3
    <3>2. Cardinality(Esperando(t)) = -valor[t]
      BY <1>3, <1>5, <3>1
    <3>3. Esperando(t) # {}
      <4>1. Cardinality({}) = 0
        BY FS_EmptySet
      <4>2. valor[t] \in Int
        BY <1>3
      <4>. QED  BY <3>1, <3>2, <4>1, <4>2
    <3>. QED  BY <1>7, <3>1, <3>3 DEF HayQueDespertar
  <2>3. BloqueadosContados'
    <3>1. SUFFICES ASSUME NEW s \in Semaforos
                   PROVE  Cardinality(Esperando(s)') = IF valor'[s] < 0 THEN -valor'[s] ELSE 0
      BY DEF BloqueadosContados
    <3>2. Esperando(s)' = Esperando(s)
      BY <2>1 DEF Esperando
    <3>. QED  BY <1>3, <1>4, <1>5, <2>2, <3>2
  <2>. QED  BY <1>1, <1>2, <1>3, <2>1, <2>3, CuentaQuieta DEF Cuentas, BloqueadosBien
<1>. QED  BY <1>6, <1>7

LEMMA DespachaCuenta ==
  ASSUME Cuentas, EsperaReady \/ EligeOcioso \/ EnviaPcb \/ AsignaPcb PROVE Cuentas'
<1>1. UNCHANGED <<programa, terminado, cierre, impresora, servidor, ansisop>>
  BY DEF EsperaReady, EligeOcioso, EnviaPcb, AsignaPcb, plpVars
<1>2. Tipos'
  BY EligeTipo, EnviaPcbTipo, AsignaPcbTipo DEF Cuentas
<1>3. PICK b \in Nat : b = IF impresora.cola = "ready" THEN Len(impresora.pcbs) ELSE 0
  BY ColaTipo DEF Cuentas, Tipos, TImpresora
<1>4. /\ semNuevoPcbColaReady + (IF despacho.pc \in {"ocioso", "saca"} THEN 1 ELSE 0)
           = Len(colaReady) + b
      /\ Len(colaReady) \in Nat /\ semNuevoPcbColaReady \in Nat
  BY <1>3, ColaTipo DEF Cuentas, ListosContados, Tipos, TListos
<1>5. semNuevoPcbColaReady' + (IF despacho'.pc \in {"ocioso", "saca"} THEN 1 ELSE 0)
        = Len(colaReady)' + b
  <2>1. CASE EsperaReady \/ EligeOcioso \/ AsignaPcb
    BY <1>4, <2>1
       DEF EsperaReady, EligeOcioso, AsignaPcb, Asigna, EnEspera, comunes, listos, clientes
  <2>2. CASE EnviaPcb
    <3>1. despacho'.pc \in {"espera", "enviado"} /\ despacho.pc = "saca"
      <4>1. despacho.pc = "saca"
        BY <2>2 DEF EnviaPcb
      <4>2. CASE "envio" \in Carreras
        BY <2>2, <4>2 DEF EnviaPcb, Cuentas, Tipos, TDespacho
      <4>3. CASE "envio" \notin Carreras
        BY <2>2, <4>3 DEF EnviaPcb, Asigna, EnEspera
      <4>. QED  BY <4>1, <4>2, <4>3
    <3>2. Len(colaReady)' = Len(colaReady) - 1
          /\ UNCHANGED semNuevoPcbColaReady
      BY <2>2, ColaTipo DEF EnviaPcb, SacaDeReady, Cuentas, Tipos, TListos
    <3>. QED  BY <1>4, <3>1, <3>2
  <2>. QED  BY <2>1, <2>2
<1>6. ListosContados'
  BY <1>1, <1>3, <1>5 DEF ListosContados
<1>. QED  BY <1>1, <1>2, <1>6, CuentaQuieta DEF Cuentas

LEMMA DispositivoCuenta ==
  ASSUME Cuentas, NEW d \in Dispositivos, TomaSolicitud(d) \/ TerminaIO(d) PROVE Cuentas'
<1>1. UNCHANGED <<programa, terminado, cierre, despacho, impresora, servidor, ansisop>>
  BY DEF TomaSolicitud, TerminaIO, plpVars
<1>2. Tipos'
  BY DispositivoTipo DEF Cuentas
<1>3. ListosContados'
  <2>1. CASE TomaSolicitud(d)
    BY <1>1, <2>1, CuentaQuieta DEF TomaSolicitud, comunes
  <2>2. CASE TerminaIO(d)
    BY <1>1, <2>2, ReadyCuenta DEF TerminaIO, Cuentas, Tipos, TIo
  <2>. QED  BY <2>1, <2>2
<1>. QED  BY <1>1, <1>2, <1>3, CuentaQuieta DEF Cuentas

\* The PCBs printed are in the hands of the thread that prints them.
LEMMA ImpresionCuenta ==
  ASSUME Cuentas,
         ReponeCola \/ \E hilo \in {"servidor", "despacho"}, cola \in {"ready", "exit"} :
                         VaciaCola(hilo, cola)
  PROVE  Cuentas'
<1>1. UNCHANGED <<programa, terminado, cierre, despacho, servidor, ansisop,
                  semNuevoPcbColaReady>>
  BY DEF ReponeCola, VaciaCola, plpVars
<1>2. Tipos'
  BY ImpresionTipo DEF Cuentas
<1>3. Len(<<>>) = 0 /\ colaReady \in Seq(Pids) /\ impresora.pcbs \in Seq(Pids)
  BY DEF Cuentas, Tipos, TListos, TImpresora
<1>. DEFINE EnManos == IF impresora.cola = "ready" THEN Len(impresora.pcbs) ELSE 0
<1>4. Len(colaReady)' + EnManos' = Len(colaReady) + EnManos
  <2>1. ASSUME NEW hilo, NEW cola, VaciaCola(hilo, cola)
        PROVE  Len(colaReady)' + EnManos' = Len(colaReady) + EnManos
    <3>1. impresora.cola = "ninguna" /\ EnManos = 0
      BY <2>1 DEF VaciaCola, MutexLibre, Cuentas, Tipos, TImpresora
    <3>2. \/ colaReady' = colaReady /\ EnManos' = 0
          \/ colaReady' = <<>> /\ EnManos' = Len(colaReady)
      BY <2>1 DEF VaciaCola
    <3>. QED  BY <1>3, <3>1, <3>2, ColaTipo
  <2>2. CASE ReponeCola
    <3>1. impresora.cola \in {"ready", "exit"} /\ impresora' = SinImpresion
      BY <2>2 DEF ReponeCola, Cuentas, Tipos, TImpresora
    <3>2. EnManos' = 0
      BY <3>1 DEF SinImpresion
    <3>3. Len(colaReady)' = IF impresora.cola = "ready"
                              THEN Len(colaReady) + Len(impresora.pcbs) ELSE Len(colaReady)
      BY <1>3, <2>2, <3>1, ColaTipo DEF ReponeCola, Repuesta
    <3>4. Len(colaReady) \in Nat /\ Len(impresora.pcbs) \in Nat
      BY <1>3, ColaTipo
    <3>5. Len(colaReady)' = Len(colaReady) + EnManos
      BY <3>3, <3>4
    <3>6. Len(colaReady) + EnManos \in Nat
      BY <3>4
    <3>. HIDE DEF EnManos
    <3>. QED  BY <3>2, <3>5, <3>6
  <2>. QED  BY <2>1, <2>2
<1>5. ListosContados'
  BY <1>1, <1>4 DEF Cuentas, ListosContados
<1>. QED  BY <1>1, <1>2, <1>5, CuentaQuieta DEF Cuentas

LEMMA PCPCuenta ==
  ASSUME Cuentas, NextPCP PROVE Cuentas'
<1>1. ~FinalizaPcb
  BY DEF FinalizaPcb, EsperaFinaliza, FinalizaBloqueado, FinalizaReady, FinalizaAsignado,
         FinalizaBasura, Finaliza, Cuentas, SinCierre
<1>2. CASE DescuentaOcioso
  <2>1. BloqueadosBien'
    BY <1>2, ServidorCuenta DEF DescuentaOcioso, EnSelect
  <2>. QED
    BY <1>2, <2>1, DescuentaOciosoTipo, CuentaQuieta
       DEF DescuentaOcioso, Cuentas, plpVars, comunes
<1>3. CASE \E c \in Cpus : NuevoCliente(c) \/ Atiende(c)
  BY <1>3, AjenosCuenta, VueltaCuenta, WaitCuenta, BloqueaCuenta, SignalCuenta, CaeCuenta
     DEF Atiende, MensajeDesfasado, PcbDesfasado
<1>4. CASE Despacha
  BY <1>4, DespachaCuenta, CaeCuenta DEF Despacha, DespachaNulo
<1>5. CASE \E d \in Dispositivos : TomaSolicitud(d) \/ TerminaIO(d)
  BY <1>5, DispositivoCuenta
<1>. QED
  BY <1>1, <1>2, <1>3, <1>4, <1>5, ImpresionCuenta DEF NextPCP

-----------------------------------------------------------------------------
(* The theorems                                                            *)

LEMMA InitCuentas == Init => Cuentas
<1>. SUFFICES ASSUME Init PROVE Cuentas
  OBVIOUS
<1>1. Tipos
  BY InitTipos
<1>2. SinCierre
  BY DEF Init, InitPLP, InitPCP, SinCierre
<1>3. ListosContados
  BY DEF Init, InitPLP, InitPCP, EnEspera, SinImpresion, ListosContados
<1>4. BloqueadosBien
  <2>1. \A s \in Semaforos : Esperando(s) = {}
    BY DEF Init, InitPCP, SemaforosIniciales, Esperando
  <2>2. \A s \in Semaforos : valor[s] \in Nat
    BY ValoresAssumption DEF Init, InitPCP, SemaforosIniciales
  <2>3. BloqueadosContados
    BY <2>1, <2>2, FS_EmptySet DEF BloqueadosContados
  <2>. QED  BY <2>3 DEF BloqueadosBien, Init, InitPCP, EnSelect
<1>. QED  BY <1>1, <1>2, <1>3, <1>4 DEF Cuentas

LEMMA NextCuentas ==
  ASSUME "programa" \notin Cortes, Cuentas, [Next]_vars PROVE Cuentas'
<1>1. CASE UNCHANGED vars
  <2>1. Tipos'
    BY NextTipos DEF Cuentas
  <2>. QED
    BY <1>1, <2>1, CuentaQuieta DEF vars, plpVars, pcpVars, comunes, Cuentas
<1>2. CASE Next
  BY <1>2, PLPCuenta, PCPCuenta, CPUCuenta DEF Next
<1>. QED  BY <1>1, <1>2

LEMMA SpecCuentas ==
  ASSUME "programa" \notin Cortes PROVE Spec => []Cuentas
BY InitCuentas, NextCuentas, PTL DEF Spec

\* While no program is closed before its end, semNuevoPcbColaReady counts the
\* PCBs of colaReady, also with CPUs that die and while the queue is printed:
\* hiloClienteOcioso is not woken for a PCB that nobody queued.
THEOREM ReadyContada ==
  ASSUME "programa" \notin Cortes PROVE Spec => []ListosContados
<1>1. Cuentas => ListosContados
  BY DEF Cuentas
<1>. QED  BY <1>1, SpecCuentas, PTL

\* While no program is closed before its end, the negative value of an ANSISOP
\* semaphore is the number of processes blocked on it, also with CPUs that die
\* between the WAIT and the PCB.
THEOREM BloqueadosContadosSiempre ==
  ASSUME "programa" \notin Cortes PROVE Spec => []BloqueadosContados
<1>1. Cuentas => BloqueadosContados
  BY DEF Cuentas, BloqueadosBien
<1>. QED  BY <1>1, SpecCuentas, PTL
=============================================================================
