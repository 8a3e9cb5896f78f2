---------------------------- MODULE KernelDatos ----------------------------
(***************************************************************************)
(* The state the threads of the Kernel share (main.c, PCP.c, kernel.h) and *)
(* that of the processes connected to it.  PLP, PCP and CPU hold the       *)
(* actions and Kernel composes them.                                       *)
(*                                                                         *)
(* A PCB is its pcb_id: the rest of it is the business of the CPU and the  *)
(* UMV.  Program number p of the model is the p-th to send its code, so it *)
(* is the one that gets pcb_id p.                                          *)
(***************************************************************************)
EXTENDS Listas, Functions

CONSTANTS
  MaxProg,       \* bound of the model: programs that arrive
  Cpus,          \* CPU processes that may connect
  SinCpu,        \* no CPU
  MultiProg,     \* MULTIPROGRAMACION of the configuration file
  Quantum,       \* QUANTUM of the configuration file
  Peso,          \* weight of each program (calcularPeso)
  Semaforos,     \* SEMAFOROS of the configuration file
  Valores,       \* VALOR_SEMAFOROS: initial value of each
  Dispositivos,  \* ID_HIO of the configuration file
  Pedidos,       \* device names the programs use
  Instrucciones, \* instructions the programs use
  MaxInstr,      \* bound of the model: instructions of each program
  Creaciones,    \* outcomes of crearPCB to consider
  Cortes,        \* who may fail: "programa", "cpu", "sigusr1"
  Carreras       \* windows inside a handler left open: "envio", "impresion"

Pids == 1..MaxProg
Nadie == 0       \* no process
Nulo == -1       \* a NULL popped from an empty queue

ASSUME MaxProgAssumption == MaxProg \in Nat
ASSUME CpusAssumption == SinCpu \notin Cpus
ASSUME MultiProgAssumption == MultiProg \in Nat \ {0}
ASSUME QuantumAssumption == Quantum \in Nat \ {0}
ASSUME PesoAssumption == Peso \in [Pids -> Nat]
ASSUME ValoresAssumption == Valores \in [Semaforos -> Nat]
ASSUME InstruccionesAssumption ==
  Instrucciones \subseteq {"nada", "imprimir", "wait", "signal", "io", "error"}
ASSUME MaxInstrAssumption == MaxInstr \in Nat
ASSUME CreacionesAssumption == Creaciones \subseteq {"creado", "sinCodigo", "parcial"}
ASSUME CortesAssumption == Cortes \subseteq {"programa", "cpu", "sigusr1"}
ASSUME CarrerasAssumption == Carreras \subseteq {"envio", "impresion"}

VARIABLES
  (* PLP *)
  nroProg,               \* pids handed out
  colaNew,               \* a set: it is sorted again before every removal
  semNuevoProg,
  plp,                   \* where the loop of comienzaPLP is
  semMultiProg,
  programa,              \* state of each Programa and of its connection
  terminado,             \* the field of t_socket_pid
  colaImprimibles, semMensajeImpresion,
  mensajero,             \* the thread mensajesPrograma
  colaExit, semProgExit,
  saliendo,              \* what vaciarColaExit has popped
  mutex_exit,            \* 1 when unlocked
  destruidos,            \* DESTRUIR_SEGMENTO requests sent for each pid
  (* PCP *)
  colaReady, semNuevoPcbColaReady,
  listaClientes,         \* the connected CPUs, in order
  pcbAsignado, fueAsignado, programaCerrado,  \* fields of t_clienteCPU
  semClienteOcioso, cpuAcerrar,
  servidor,              \* where server_cpu is, and with which CPU
  despacho,              \* the same of hiloClienteOcioso, and the PCB it popped
  pcbAFinalizar, semProgramaFinaliza,
  finalizador,           \* the thread hiloPCBaFinalizar
  valor, listaBloqueados,
  colaSolicitudes,       \* of each device
  enCurso,               \* the request each hiloPorIO sleeps on
  impresora,             \* the queue imprimoInformacionGeneral has emptied
  (* CPU and network *)
  cpu,                   \* where each CPU is
  pcb, operacion, rafaga, cerrarCPU,
  haciaCpu, haciaKernel, \* messages in the socket of each CPU
  restan,                \* instructions each program has left
  (* the process *)
  kernel                 \* "vivo" or "caido"

(* The variables by owner, for UNCHANGED.                                  *)
admision == <<nroProg, colaNew, semNuevoProg, plp>>
salida   == <<colaExit, semProgExit>>
mensajes == <<colaImprimibles, semMensajeImpresion>>
baja     == <<saliendo, mutex_exit, destruidos>>
listos   == <<colaReady, semNuevoPcbColaReady>>
clientes == <<listaClientes, pcbAsignado, fueAsignado, programaCerrado,
              semClienteOcioso, cpuAcerrar>>
cierre   == <<pcbAFinalizar, semProgramaFinaliza, finalizador>>
ansisop  == <<valor, listaBloqueados>>
io       == <<colaSolicitudes, enCurso>>
cpus     == <<cpu, pcb, operacion, rafaga, cerrarCPU, restan>>
red      == <<haciaCpu, haciaKernel>>

plpVars == <<admision, programa, terminado, mensajero, baja>>
pcpVars == <<clientes, servidor, despacho, cierre, ansisop, io, impresora>>
comunes == <<semMultiProg, salida, mensajes, listos>>
vars    == <<plpVars, pcpVars, comunes, cpus, red, kernel>>

-----------------------------------------------------------------------------
\* t_imprimibles; "de" is not in the code: the program the text comes from
Imprimible(p, tipo, de) == [pid |-> p, tipo |-> tipo, de |-> de]
\* deviations of Imprime: the sem_post forgotten, the text put first
ImprimeSinAviso(m) ==
  colaImprimibles' = Append(colaImprimibles, m) /\ UNCHANGED semMensajeImpresion
ImprimePrimero(m) ==
  /\ colaImprimibles' = <<m>> \o colaImprimibles
  /\ semMensajeImpresion' = semMensajeImpresion + 1

Imprime(m) ==
  /\ colaImprimibles' = Append(colaImprimibles, m)
  /\ semMensajeImpresion' = semMensajeImpresion + 1

\* deviation: the PCB is not queued
MandaAExitSinPcb(p) == semProgExit' = semProgExit + 1 /\ UNCHANGED colaExit

\* queue_push(colaExit, pcb); sem_post(&semProgExit)
MandaAExit(p) ==
  /\ colaExit' = Append(colaExit, p)
  /\ semProgExit' = semProgExit + 1

\* deviation: the sem_post forgotten
MandaAReadySinAviso(p) ==
  colaReady' = Append(colaReady, p) /\ UNCHANGED semNuevoPcbColaReady

\* deviation: the PCB goes to the front
MandaAReadyPrimero(p) ==
  /\ colaReady' = <<p>> \o colaReady
  /\ semNuevoPcbColaReady' = semNuevoPcbColaReady + 1

\* queue_push(colaReady, pcb); sem_post(&semNuevoPcbColaReady)
MandaAReady(p) ==
  /\ colaReady' = Append(colaReady, p)
  /\ semNuevoPcbColaReady' = semNuevoPcbColaReady + 1

\* a message of the CPU protocol: operation, PCB it carries, name of a
\* semaphore or device; "de" is not in the code: the process a text comes from
Mensaje(op, p, arg) == [op |-> op, pcb |-> p, arg |-> arg, de |-> p]
SinArg == "sin"
Texto(p) == [op |-> "IMPRIMIR", pcb |-> Nadie, arg |-> SinArg, de |-> p]

\* a process leaves its place of the multiprogramming degree; deviation: it
\* keeps it
DejaLugarTomado == UNCHANGED semMultiProg
DejaLugar == semMultiProg' = semMultiProg + 1

\* the Kernel dies of a NULL or wild pointer
Cae == kernel' = "caido" /\ UNCHANGED <<plpVars, pcpVars, comunes, cpus, red>>
=============================================================================
