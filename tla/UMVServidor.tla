----------------------------- MODULE UMVServidor -----------------------------
(***************************************************************************)
(* The UMV as a server (UMV_Servidor.c): a thread for every connection and *)
(* one for the console, the mutex of the list, and the clients behind the  *)
(* sockets: the two threads of the Kernel that share one connection        *)
(* (crearPCB and vaciarColaExit of funcionesPLP.c) and the CPUs.           *)
(*                                                                         *)
(* The list itself is the business of UMVMemoria and UMVBytes.  Here it is *)
(* the set of the segments each program owns, and whether a new one fits   *)
(* is left open.                                                           *)
(***************************************************************************)
EXTENDS Integers, Sequences, FiniteSets

CONSTANTS
  Cpus,       \* connections of CPUs
  Kernel,     \* the connection of the Kernel
  Consola,    \* the thread of the console
  Plp, Exit,  \* the threads of the Kernel that use its connection
  Pids,       \* programs
  SinPid,     \* procesoActivo = -1
  Caidas,     \* CPUs that may die
  MaxTurnos,  \* bound of the model: requests and quanta of each program
  MaxConsola, \* bound of the model: commands of the operator
  MaxCambios  \* bound of the model: changes of algorithm among them

ASSUME ClientesAssumption ==
  /\ Kernel \notin Cpus /\ Consola \notin Cpus \cup {Kernel}
  /\ {Plp, Exit} \cap Cpus = {} /\ Plp # Exit
  /\ SinPid \notin Pids
ASSUME CotasAssumption ==
  {MaxTurnos, MaxConsola, MaxCambios} \subseteq Nat

VARIABLES
  \* clients
  vida,    \* of each program: nuevo, creando, listo, corre, exit, fin
  paso,    \* of crearPCB, in Guion; 0 when it is not running
  creado,  \* the program crearPCB is working for
  pcb,     \* the program each CPU runs
  espera,  \* of each client thread: nueva, libre, respuesta, cuerpo, perdida, muerta
  destruye,\* the program vaciarColaExit is working for
  turnos,  \* requests made for each program and quanta it has used up
  mutex_exit, \* 1 while open
  avisos,  \* last messages of programs, in colaImprimibles
  \* sockets
  ida,     \* of each connection: requests on their way
  regreso, \* of each connection: pieces of answers on their way
  \* threads of the UMV
  tipo, activo, \* of each connection: tipoProceso, procesoActivo
  hilo,    \* of each thread: what it is doing
  pedido,  \* of each thread: the request at hand
  pasada,  \* of each thread: i, yaCompacte, noHiceNada of crearSegmento
  \* shared by the threads of the UMV
  mutex, algoritmo, segmentos,
  caida,   \* the process has died
  \* history and bounds
  consolas, cambios, \* commands given
  suelta,  \* TRUE once a second pass of crearSegmento ran without the mutex
  basura,  \* TRUE once crearSegmento ended without a return
  borrados,\* programs that lost segments to a command of the operator
  perdidos,\* unlocks of mutex_exit that found it open
  cruzada  \* TRUE once a client took an answer that was not its own

finales == <<mutex_exit, avisos, perdidos>>
clientes == <<vida, paso, creado, pcb, espera, destruye, turnos, finales>>
sockets == <<ida, regreso>>
locales == <<tipo, activo, hilo, pedido, pasada>>
compartido == <<mutex, algoritmo, segmentos, caida>>
historia == <<consolas, cambios, suelta, basura, borrados>>
vars == <<clientes, sockets, locales, compartido, historia, cruzada>>

Conexiones == Cpus \cup {Kernel}
HilosUmv == Conexiones \cup {Consola}
HilosKernel == {Plp, Exit}
Clientes == Cpus \cup HilosKernel
Socket(t) == IF t \in Cpus THEN t ELSE Kernel

\* A program has a segment it writes and one it does not.  A request names
\* bytes of one of them, or bytes "fuera": past the end of a segment, or none.
\* "otro" is a segment the operator asks for.
Segs == {"codigo", "stack"}

Mensaje(op, p, s, t) == [op |-> op, pid |-> p, seg |-> s, de |-> t]
Ninguno == Mensaje("nada", SinPid, "nada", SinPid)
ConRespuesta == {"SOLICITAR_BYTES", "ENVIAR_BYTES", "CREAR_SEGMENTO", "DESTRUIR_SEGMENTO"}

-----------------------------------------------------------------------------
(* enviarOperacion: the whole request is written in one go; the answer is  *)
(* read in two, its header and its body.  HANDSHAKE and CAMBIO_PROC_ACTIVO *)
(* have no answer.                                                         *)

EnviarOperacion(t, op, p, s) ==
  /\ espera[t] \in {"nueva", "libre"} /\ ~caida
  /\ ida' = [ida EXCEPT ![Socket(t)] = Append(@, Mensaje(op, p, s, t))]
  /\ espera' = [espera EXCEPT ![t] = IF op \in ConRespuesta THEN "respuesta" ELSE "libre"]

\* recibirDatos, the 5 bytes of the header: the pieces of an answer to two
\* threads that read at once go to either
RecibirCabecera(t) ==
  LET c == Socket(t)
  IN  /\ espera[t] = "respuesta" /\ regreso[c] # <<>>
      /\ regreso' = [regreso EXCEPT ![c] = Tail(@)]
      /\ espera' = [espera EXCEPT ![t] =
                      IF Head(regreso[c]).parte = "cabecera" THEN "cuerpo" ELSE "perdida"]
      /\ UNCHANGED <<vida, paso, creado, pcb, destruye, turnos, finales, ida, locales,
                     compartido, historia, cruzada>>

\* recibirDatos, the body; ok is whether the answer is not -1
RecibirCuerpo(t, ok) ==
  LET c == Socket(t)
      m == Head(regreso[c])
  IN  /\ espera[t] = "cuerpo" /\ regreso[c] # <<>>
      /\ m.parte = "cuerpo" /\ ok = m.ok
      /\ regreso' = [regreso EXCEPT ![c] = Tail(@)]
      /\ espera' = [espera EXCEPT ![t] = "libre"]
      /\ cruzada' = (cruzada \/ m.de # t)

\* a body that is not there: the bytes read are those of a header
Pierde(t) ==
  LET c == Socket(t)
  IN  /\ espera[t] = "cuerpo" /\ regreso[c] # <<>> /\ Head(regreso[c]).parte = "cabecera"
      /\ regreso' = [regreso EXCEPT ![c] = Tail(@)]
      /\ espera' = [espera EXCEPT ![t] = "perdida"]
      /\ UNCHANGED <<vida, paso, creado, pcb, destruye, turnos, finales, ida, locales,
                     compartido, historia, cruzada>>

-----------------------------------------------------------------------------
(* The Kernel: crearPCB in the server thread                               *)

Guion == <<[op |-> "HANDSHAKE", seg |-> "nada"],
           [op |-> "CREAR_SEGMENTO", seg |-> "codigo"],
           [op |-> "CREAR_SEGMENTO", seg |-> "stack"],
           [op |-> "CAMBIO_PROC_ACTIVO", seg |-> "nada"],
           [op |-> "ENVIAR_BYTES", seg |-> "codigo"]>>

EmpiezaCrearPCB(p) ==
  /\ paso = 0 /\ vida[p] = "nuevo"
  /\ paso' = 1 /\ creado' = p
  /\ vida' = [vida EXCEPT ![p] = "creando"]
  /\ UNCHANGED <<pcb, espera, destruye, turnos, finales, sockets, locales, compartido,
                 historia, cruzada>>

CrearPCBPide ==
  LET g == Guion[paso]
  IN  /\ paso > 0
      /\ EnviarOperacion(Plp, g.op, creado, g.seg)
      /\ paso' = IF g.op \in ConRespuesta THEN paso ELSE paso + 1
      /\ UNCHANGED <<vida, creado, pcb, destruye, turnos, finales, regreso, locales,
                     compartido, historia, cruzada>>

\* an unlock of mutex_exit: one that finds it open is lost
AbreExit == mutex_exit' = 1 /\ perdidos' = perdidos + mutex_exit

\* the last message of a program goes to colaImprimibles
Avisa == avisos' = avisos + 1 /\ UNCHANGED <<mutex_exit, perdidos>>

\* an error sends the PCB to colaExit, but for the first segment
CrearPCBRecibe ==
  /\ \E ok \in BOOLEAN :
       /\ RecibirCuerpo(Plp, ok)
       /\ paso' = IF ok /\ paso < Len(Guion) THEN paso + 1 ELSE 0
       /\ creado' = IF ok /\ paso < Len(Guion) THEN creado ELSE SinPid
       /\ vida' = [vida EXCEPT ![creado] =
                     CASE ok /\ paso < Len(Guion) -> @
                       [] ok /\ paso = Len(Guion) -> "listo"
                       [] ~ok /\ paso > 2         -> "exit"
                       [] ~ok /\ paso <= 2        -> "fin"]
       /\ IF ok THEN UNCHANGED finales ELSE Avisa
  /\ UNCHANGED <<pcb, destruye, turnos, ida, locales, compartido, historia>>

\* deviation: the thread that sends the last message leaves mutex_exit as it is
MensajesSinAbrir ==
  /\ avisos > 0 /\ avisos' = avisos - 1
  /\ UNCHANGED <<vida, paso, creado, pcb, espera, destruye, turnos, mutex_exit, perdidos,
                 sockets, locales, compartido, historia, cruzada>>

\* mensajesPrograma tells the client of the program that it is over.  No client
\* closes early here, so the thread finds each of them.
MensajesPrograma ==
  /\ avisos > 0 /\ avisos' = avisos - 1
  /\ AbreExit
  /\ UNCHANGED <<vida, paso, creado, pcb, espera, destruye, turnos, sockets, locales,
                 compartido, historia, cruzada>>

(* vaciarColaExit and procDestruirSeg, which never looks at the answer: a  *)
(* PCB of colaExit, in any order, once mutex_exit is open                  *)

VaciarColaExitPide(p) ==
  /\ espera[Exit] = "libre" /\ vida[p] = "exit"
  /\ mutex_exit = 1 /\ mutex_exit' = 0
  /\ destruye' = p
  /\ EnviarOperacion(Exit, "DESTRUIR_SEGMENTO", p, "nada")
  /\ UNCHANGED <<vida, paso, creado, pcb, turnos, avisos, perdidos, regreso, locales,
                 compartido, historia, cruzada>>

VaciarColaExitRecibe ==
  /\ \E ok \in BOOLEAN : RecibirCuerpo(Exit, ok)
  /\ vida' = [vida EXCEPT ![destruye] = "fin"] /\ destruye' = SinPid
  /\ UNCHANGED <<paso, creado, pcb, turnos, finales, ida, locales, compartido, historia>>

-----------------------------------------------------------------------------
(* The CPUs                                                                *)

HandshakeUMV(c) ==
  /\ espera[c] = "nueva"
  /\ EnviarOperacion(c, "HANDSHAKE", SinPid, "nada")
  /\ UNCHANGED <<vida, paso, creado, pcb, destruye, turnos, finales, regreso, locales,
                 compartido, historia, cruzada>>

\* a PCB arrives and CambiarProcesoActivo tells the UMV
TomaPcb(c, p) ==
  /\ espera[c] = "libre" /\ pcb[c] = SinPid /\ vida[p] = "listo"
  /\ vida' = [vida EXCEPT ![p] = "corre"] /\ pcb' = [pcb EXCEPT ![c] = p]
  /\ EnviarOperacion(c, "CAMBIO_PROC_ACTIVO", p, "nada")
  /\ UNCHANGED <<paso, creado, destruye, turnos, finales, regreso, locales, compartido,
                 historia, cruzada>>

\* the requests of the primitives and of ObtenerSentencia
CpuPide(c, op, s) ==
  LET p == pcb[c]
  IN  /\ espera[c] = "libre" /\ p # SinPid /\ turnos[p] < MaxTurnos
      /\ turnos' = [turnos EXCEPT ![p] = @ + 1]
      /\ EnviarOperacion(c, op, p, s)
      /\ UNCHANGED <<vida, paso, creado, pcb, destruye, finales, regreso, locales,
                     compartido, historia, cruzada>>

\* an error ends the program
CpuRecibe(c) ==
  /\ \E ok \in BOOLEAN :
       /\ RecibirCuerpo(c, ok)
       /\ vida' = IF ok THEN vida ELSE [vida EXCEPT ![pcb[c]] = "exit"]
       /\ pcb' = IF ok THEN pcb ELSE [pcb EXCEPT ![c] = SinPid]
       /\ IF ok THEN UNCHANGED finales ELSE Avisa
  /\ UNCHANGED <<paso, creado, destruye, turnos, ida, locales, compartido, historia>>

\* CambioContexto: the quantum is over, or the program
CpuDevuelve(c, v) ==
  /\ espera[c] = "libre" /\ pcb[c] # SinPid
  /\ v = "listo" => turnos[pcb[c]] < MaxTurnos
  /\ turnos' = [turnos EXCEPT ![pcb[c]] = IF v = "listo" THEN @ + 1 ELSE @]
  /\ vida' = [vida EXCEPT ![pcb[c]] = v] /\ pcb' = [pcb EXCEPT ![c] = SinPid]
  /\ IF v = "exit" THEN Avisa ELSE UNCHANGED finales
  /\ UNCHANGED <<paso, creado, espera, destruye, sockets, locales, compartido,
                 historia, cruzada>>

\* the process dies: the Kernel ends its program, with no message for it
CaeCpu(c) ==
  /\ c \in Caidas /\ espera[c] # "muerta"
  /\ espera' = [espera EXCEPT ![c] = "muerta"]
  /\ pcb' = [pcb EXCEPT ![c] = SinPid]
  /\ vida' = [p \in Pids |-> IF p = pcb[c] THEN "exit" ELSE vida[p]]
  /\ regreso' = [regreso EXCEPT ![c] = <<>>]
  /\ IF pcb[c] = SinPid THEN UNCHANGED finales ELSE AbreExit /\ UNCHANGED avisos
  /\ UNCHANGED <<paso, creado, destruye, turnos, ida, locales, compartido, historia,
                 cruzada>>

-----------------------------------------------------------------------------
(* connection_handler and deserializarYejecutar                            *)

Va(h, f) == hilo' = [hilo EXCEPT ![h] = f]

PrimeraPasada == [i |-> 1, ya |-> 0, nada |-> 0]

\* the call is over and its variables with it
Termina(h) ==
  /\ Va(h, "escucha")
  /\ pedido' = [pedido EXCEPT ![h] = Ninguno]
  /\ pasada' = [pasada EXCEPT ![h] = PrimeraPasada]

\* enviarDatos of the answer to the request of thread h; the console prints it
Responder(h, ok) ==
  LET m == pedido[h]
  IN  regreso' =
        IF h = Consola \/ espera[m.de] = "muerta" THEN regreso
        ELSE [regreso EXCEPT ![h] = @ \o
                <<[parte |-> "cabecera", de |-> m.de, ok |-> ok],
                  [parte |-> "cuerpo",   de |-> m.de, ok |-> ok]>>]

\* deviation: procesoActivo is a global of the process
LeeAvisoGlobal(c) ==
  LET m == Head(ida[c])
  IN  /\ hilo[c] = "escucha" /\ ida[c] # <<>> /\ m.op \notin ConRespuesta
      /\ ida' = [ida EXCEPT ![c] = Tail(@)]
      /\ tipo' = IF m.op # "HANDSHAKE" THEN tipo
                 ELSE [tipo EXCEPT ![c] = IF c = Kernel THEN "KERNEL" ELSE "CPU"]
      /\ activo' = IF m.op = "CAMBIO_PROC_ACTIVO" /\ tipo[c] # "-1"
                     THEN [x \in Conexiones |-> m.pid] ELSE activo
      /\ UNCHANGED <<clientes, regreso, hilo, pedido, pasada, compartido,
                     historia, cruzada>>

\* handshake and cambiarProcesoActivo keep to the thread
LeeAviso(c) ==
  LET m == Head(ida[c])
  IN  /\ hilo[c] = "escucha" /\ ida[c] # <<>> /\ m.op \notin ConRespuesta
      /\ ida' = [ida EXCEPT ![c] = Tail(@)]
      /\ tipo' = IF m.op # "HANDSHAKE" THEN tipo
                 ELSE [tipo EXCEPT ![c] = IF c = Kernel THEN "KERNEL" ELSE "CPU"]
      /\ activo' = IF m.op = "CAMBIO_PROC_ACTIVO" /\ tipo[c] # "-1"
                     THEN [activo EXCEPT ![c] = m.pid] ELSE activo
      /\ UNCHANGED <<clientes, regreso, hilo, pedido, pasada, compartido,
                     historia, cruzada>>

\* deviation: CAMBIO_PROC_ACTIVO gets an answer too
LeePedidoYAvisa(c) ==
  LET m == Head(ida[c])
  IN  /\ hilo[c] = "escucha" /\ ida[c] # <<>> /\ m.op # "HANDSHAKE"
      /\ ida' = [ida EXCEPT ![c] = Tail(@)]
      /\ pedido' = [pedido EXCEPT ![c] = m]
      /\ hilo' = [hilo EXCEPT ![c] = IF m.op = "CAMBIO_PROC_ACTIVO" THEN "rechaza" ELSE "mutex"]
      /\ UNCHANGED <<clientes, regreso, tipo, activo, pasada, compartido,
                     historia, cruzada>>

\* who may ask for what
Permitido(c, op) ==
  IF op \in {"CREAR_SEGMENTO", "DESTRUIR_SEGMENTO"} THEN tipo[c] = "KERNEL"
                                                    ELSE tipo[c] # "-1"

LeePedido(c) ==
  LET m == Head(ida[c])
  IN  /\ hilo[c] = "escucha" /\ ida[c] # <<>> /\ m.op \in ConRespuesta
      /\ ida' = [ida EXCEPT ![c] = Tail(@)]
      /\ pedido' = [pedido EXCEPT ![c] = m]
      /\ Va(c, IF Permitido(c, m.op) THEN "mutex" ELSE "rechaza")
      /\ UNCHANGED <<clientes, regreso, tipo, activo, pasada, compartido,
                     historia, cruzada>>

Rechaza(c) ==
  /\ hilo[c] = "rechaza" /\ Termina(c)
  /\ Responder(c, FALSE)
  /\ UNCHANGED <<clientes, ida, tipo, activo, compartido, historia, cruzada>>

\* recibirDatos fails once the client is gone and its requests are read
Cierra(c) ==
  /\ hilo[c] = "escucha" /\ ida[c] = <<>> /\ c \in Cpus /\ espera[c] = "muerta"
  /\ Va(c, "cerrado")
  /\ UNCHANGED <<clientes, sockets, tipo, activo, pedido, pasada, compartido,
                 historia, cruzada>>

-----------------------------------------------------------------------------
(* The operations on the list                                              *)

Bloquea == mutex = 0 /\ mutex' = 1

\* deviation: the mutex is a semaphore
SueltaSemaforo == mutex' = mutex - 1

\* pthread_mutex_unlock of a default mutex: whoever calls it opens it
Suelta == mutex' = 0

Entra(h) ==
  /\ hilo[h] = "mutex" /\ Bloquea
  /\ Va(h, IF pedido[h].op = "CREAR_SEGMENTO" THEN "test1" ELSE "dentro")
  /\ UNCHANGED <<clientes, sockets, tipo, activo, pedido, pasada, algoritmo, segmentos,
                 caida, historia, cruzada>>

\* the process whose segments a request is about
Proceso(h) == IF h = Consola THEN pedido[h].pid ELSE activo[h]

\* deviation: the return of an error leaves the mutex taken
AccedeSinSoltar(h) ==
  LET ok == <<Proceso(h), pedido[h].seg>> \in segmentos
  IN  /\ hilo[h] = "dentro" /\ pedido[h].op \in {"SOLICITAR_BYTES", "ENVIAR_BYTES"}
      /\ IF ok THEN Suelta ELSE UNCHANGED mutex
      /\ Termina(h) /\ Responder(h, ok)
      /\ UNCHANGED <<clientes, ida, tipo, activo, algoritmo,
                     segmentos, caida, historia, cruzada>>

\* solicitarBytes and enviarBytes: -1 when the process has no such segment, and
\* when the bytes are not all inside it
Accede(h) ==
  /\ hilo[h] = "dentro" /\ pedido[h].op \in {"SOLICITAR_BYTES", "ENVIAR_BYTES"}
  /\ Suelta /\ Termina(h)
  /\ Responder(h, <<Proceso(h), pedido[h].seg>> \in segmentos)
  /\ UNCHANGED <<clientes, ida, tipo, activo, algoritmo,
                 segmentos, caida, historia, cruzada>>

\* the programs of the segments in suyos, when the operator takes them away
Borra(h, suyos) ==
  /\ borrados' = IF h = Consola THEN borrados \cup {x[1] : x \in suyos} ELSE borrados
  /\ UNCHANGED <<consolas, cambios, suelta, basura>>

\* deviation: the segments of the process of the connection, not of the pid
\* that came in the request
DestruirSegmentoActivo(h) ==
  LET suyos == {x \in segmentos : x[1] = Proceso(h)}
  IN  /\ hilo[h] = "dentro" /\ pedido[h].op = "DESTRUIR_SEGMENTO"
      /\ segmentos' = segmentos \ suyos
      /\ Suelta /\ Termina(h)
      /\ Responder(h, suyos # {})
      /\ Borra(h, suyos)
      /\ UNCHANGED <<clientes, ida, tipo, activo, algoritmo, caida, cruzada>>

DestruirSegmento(h) ==
  LET suyos == {x \in segmentos : x[1] = pedido[h].pid}
  IN  /\ hilo[h] = "dentro" /\ pedido[h].op = "DESTRUIR_SEGMENTO"
      /\ segmentos' = segmentos \ suyos
      /\ Suelta /\ Termina(h)
      /\ Responder(h, suyos # {})
      /\ Borra(h, suyos)
      /\ UNCHANGED <<clientes, ida, tipo, activo, algoritmo, caida, cruzada>>

(* crearSegmento: two passes, each with two tests of tipoAlgoritmo         *)

\* a hole, or room at the end of the memory, or the first segment of all
Crea(h) ==
  /\ segmentos' = segmentos \cup {<<pedido[h].pid, pedido[h].seg>>}
  /\ Suelta /\ Termina(h)
  /\ Responder(h, TRUE)
  /\ UNCHANGED <<clientes, ida, tipo, activo, algoritmo,
                 caida, historia, cruzada>>

CreaEn(h) == hilo[h] \in {"test1", "test2"} /\ Crea(h)

\* worst fit with no hole large enough reads a NULL
CaePorWorstFit(h) ==
  /\ hilo[h] = "test1" /\ algoritmo = "WF"
  /\ caida' = TRUE
  /\ UNCHANGED <<clientes, sockets, locales, mutex, algoritmo, segmentos, historia,
                 cruzada>>

PasaTest1(h) ==
  /\ hilo[h] = "test1" /\ algoritmo = "FF"
  /\ Va(h, "test2")
  /\ UNCHANGED <<clientes, sockets, tipo, activo, pedido, pasada, compartido,
                 historia, cruzada>>

\* first fit finds no hole; with worst fit by now nobody looks for one
PasaTest2(h) ==
  /\ hilo[h] = "test2"
  /\ pasada' = IF algoritmo = "FF" THEN [pasada EXCEPT ![h].nada = 1] ELSE pasada
  /\ Va(h, "resto")
  /\ UNCHANGED <<clientes, sockets, tipo, activo, pedido, compartido, historia, cruzada>>

CreaAlFinal(h) == hilo[h] = "resto" /\ pasada[h].nada = 1 /\ Crea(h)

MandaCompactar(h) ==
  /\ hilo[h] = "resto" /\ pasada[h].nada = 1 /\ pasada[h].ya = 0
  /\ Suelta /\ Va(h, "compactar")
  /\ UNCHANGED <<clientes, sockets, tipo, activo, pedido, pasada, algoritmo,
                 segmentos, caida, historia, cruzada>>

NoHayLugar(h) ==
  /\ hilo[h] = "resto" /\ pasada[h].nada = 1 /\ pasada[h].ya = 1
  /\ Suelta /\ Termina(h)
  /\ Responder(h, FALSE)
  /\ UNCHANGED <<clientes, ida, tipo, activo, algoritmo,
                 segmentos, caida, historia, cruzada>>

\* the end of the function, with no return and with the mutex as it is
SeCaeDelFinal(h) ==
  /\ Termina(h)
  /\ basura' = TRUE
  /\ \E ok \in BOOLEAN : Responder(h, ok)
  /\ UNCHANGED suelta

OtraPasada(h) ==
  /\ Va(h, "test1")
  /\ pasada' = [pasada EXCEPT ![h] =
                   [i |-> 2, ya |-> IF hilo[h] = "compacta" THEN 1 ELSE @.ya, nada |-> @.nada]]
  /\ suelta' = (suelta \/ hilo[h] = "compacta")
  /\ UNCHANGED <<pedido, regreso, basura>>

Sigue(h) == IF pasada[h].i = 1 THEN OtraPasada(h) ELSE SeCaeDelFinal(h)

NadieBusco(h) ==
  /\ hilo[h] = "resto" /\ pasada[h].nada = 0
  /\ Sigue(h)
  /\ UNCHANGED <<clientes, ida, tipo, activo, compartido, consolas, cambios, borrados,
                 cruzada>>

\* deviation: compactacion trusts its callers to have it
EntraCompactacionSinMutex(h) ==
  /\ hilo[h] = "compactar" /\ UNCHANGED mutex
  /\ Va(h, "compacta")
  /\ UNCHANGED <<clientes, sockets, tipo, activo, pedido, pasada, algoritmo,
                 segmentos, caida, historia, cruzada>>

\* compactacion takes the mutex itself
EntraCompactacion(h) ==
  /\ hilo[h] = "compactar" /\ Bloquea
  /\ Va(h, "compacta")
  /\ UNCHANGED <<clientes, sockets, tipo, activo, pedido, pasada, algoritmo,
                 segmentos, caida, historia, cruzada>>

\* and after it the next pass runs without it
SaleCompactacion(h) ==
  /\ hilo[h] = "compacta" /\ Suelta
  /\ IF pedido[h].op = "COMPACTACION"
       THEN Termina(h) /\ UNCHANGED <<regreso, suelta, basura>>
       ELSE Sigue(h)
  /\ UNCHANGED <<clientes, ida, tipo, activo, algoritmo, segmentos, caida, consolas,
                 cambios, borrados, cruzada>>

-----------------------------------------------------------------------------
(* The console                                                             *)

Comando ==
  /\ hilo[Consola] = "escucha" /\ consolas < MaxConsola /\ consolas' = consolas + 1
  /\ UNCHANGED <<clientes, sockets, tipo, activo, pasada, mutex, segmentos,
                 caida, suelta, basura, borrados, cruzada>>

\* on whatever pid is typed, that of a program that runs or of one that does
\* not; the answer is only printed
ComandoOperacion(op, p) ==
  /\ Comando
  /\ pedido' = [pedido EXCEPT ![Consola] = Mensaje(op, p, "otro", SinPid)]
  /\ Va(Consola, "mutex")
  /\ UNCHANGED <<algoritmo, cambios>>

ComandoCompactar ==
  /\ Comando
  /\ pedido' = [pedido EXCEPT ![Consola] = Mensaje("COMPACTACION", SinPid, "nada", SinPid)]
  /\ Va(Consola, "compactar")
  /\ UNCHANGED <<algoritmo, cambios>>

\* cambiarAlgoritmo takes no mutex
ComandoAlgoritmo(a) ==
  /\ Comando
  /\ a # algoritmo /\ algoritmo' = a
  /\ cambios < MaxCambios /\ cambios' = cambios + 1
  /\ UNCHANGED <<hilo, pedido>>

-----------------------------------------------------------------------------
Init ==
  /\ vida = [p \in Pids |-> "nuevo"] /\ paso = 0 /\ creado = SinPid
  /\ pcb = [c \in Cpus |-> SinPid]
  /\ espera = [t \in Clientes |-> IF t \in Cpus THEN "nueva" ELSE "libre"]
  /\ destruye = SinPid /\ turnos = [p \in Pids |-> 0]
  /\ mutex_exit = 1 /\ avisos = 0 /\ perdidos = 0
  /\ ida = [c \in Conexiones |-> <<>>] /\ regreso = [c \in Conexiones |-> <<>>]
  /\ tipo = [c \in Conexiones |-> "-1"] /\ activo = [c \in Conexiones |-> SinPid]
  /\ hilo = [h \in HilosUmv |-> "escucha"] /\ pedido = [h \in HilosUmv |-> Ninguno]
  /\ pasada = [h \in HilosUmv |-> PrimeraPasada]
  /\ mutex = 0 /\ algoritmo = "FF" /\ segmentos = {} /\ caida = FALSE
  /\ consolas = 0 /\ cambios = 0 /\ suelta = FALSE /\ basura = FALSE
  /\ borrados = {} /\ cruzada = FALSE

HiloUmv(h) ==
  /\ ~caida
  /\ \/ Entra(h) \/ Accede(h) \/ DestruirSegmento(h)
     \/ CreaEn(h) \/ CaePorWorstFit(h) \/ PasaTest1(h) \/ PasaTest2(h) \/ CreaAlFinal(h)
     \/ MandaCompactar(h) \/ NoHayLugar(h) \/ NadieBusco(h)
     \/ EntraCompactacion(h) \/ SaleCompactacion(h)

Conexion(c) == ~caida /\ (LeeAviso(c) \/ LeePedido(c) \/ Rechaza(c) \/ Cierra(c))

Operador ==
  /\ ~caida
  /\ \/ \E op \in ConRespuesta, p \in Pids : ComandoOperacion(op, p)
     \/ ComandoCompactar
     \/ \E a \in {"FF", "WF"} : ComandoAlgoritmo(a)

Cliente(t) == RecibirCabecera(t) \/ Pierde(t)

HiloPlp == CrearPCBPide \/ CrearPCBRecibe \/ Cliente(Plp)

HiloExit ==
  \/ \E p \in Pids : VaciarColaExitPide(p)
  \/ VaciarColaExitRecibe \/ Cliente(Exit)

Cpu(c) ==
  \/ HandshakeUMV(c) \/ CpuRecibe(c) \/ Cliente(c)
  \/ \E p \in Pids : TomaPcb(c, p)
  \/ \E s \in Segs \cup {"fuera"} : CpuPide(c, "SOLICITAR_BYTES", s)
  \/ \E s \in {"stack", "fuera"} : CpuPide(c, "ENVIAR_BYTES", s)
  \/ \E v \in {"listo", "exit"} : CpuDevuelve(c, v)

Next ==
  \/ \E h \in HilosUmv : HiloUmv(h)
  \/ \E c \in Conexiones : Conexion(c)
  \/ HiloPlp \/ HiloExit \/ MensajesPrograma \/ Operador
  \/ \E c \in Cpus : Cpu(c) \/ CaeCpu(c)
  \/ \E p \in Pids : EmpiezaCrearPCB(p)

Spec == Init /\ [][Next]_vars

\* threads run and sockets deliver; nothing forces programs to arrive, the
\* operator to type or CPUs to die
Fairness ==
  /\ \A h \in HilosUmv : WF_vars(HiloUmv(h))
  /\ \A c \in Conexiones : WF_vars(Conexion(c))
  /\ WF_vars(HiloPlp) /\ WF_vars(HiloExit) /\ WF_vars(MensajesPrograma)
  /\ \A c \in Cpus : WF_vars(Cpu(c))

FairSpec == Spec /\ Fairness

-----------------------------------------------------------------------------
(* Properties                                                              *)

TypeOK ==
  /\ vida \in [Pids -> {"nuevo", "creando", "listo", "corre", "exit", "fin"}]
  /\ paso \in 0..Len(Guion) /\ creado \in Pids \cup {SinPid}
  /\ pcb \in [Cpus -> Pids \cup {SinPid}] /\ destruye \in Pids \cup {SinPid}
  /\ espera \in [Clientes -> {"nueva", "libre", "respuesta", "cuerpo", "perdida", "muerta"}]
  /\ turnos \in [Pids -> 0..MaxTurnos]
  /\ mutex_exit \in 0..1 /\ avisos \in Nat /\ perdidos \in Nat
  /\ tipo \in [Conexiones -> {"-1", "KERNEL", "CPU"}]
  /\ activo \in [Conexiones -> Pids \cup {SinPid}]
  /\ hilo \in [HilosUmv -> {"escucha", "mutex", "rechaza", "dentro", "test1", "test2",
                            "resto", "compactar", "compacta", "cerrado"}]
  /\ pasada \in [HilosUmv -> [i : 1..2, ya : 0..1, nada : 0..1]]
  /\ mutex \in 0..1 /\ algoritmo \in {"FF", "WF"}
  /\ segmentos \subseteq Pids \X (Segs \cup {"otro"})
  /\ borrados \subseteq Pids
  /\ {caida, suelta, basura, cruzada} \subseteq BOOLEAN

Dentro == {h \in HilosUmv : hilo[h] \in {"dentro", "test1", "test2", "resto", "compacta"}}

\* Two threads are on the list at once only after crearSegmento has begun a
\* second pass, which it runs without the mutex and ends by opening it.
Exclusion == ~suelta => Cardinality(Dentro) <= mutex

\* Whoever reads or writes bytes does it as the process its client runs now.
AtiendeAlProceso ==
  \A c \in Cpus :
    hilo[c] = "dentro" /\ espera[c] # "muerta" => activo[c] = pcb[c]

\* The answer that arrives is the answer to the request of the thread that
\* takes it.
RespuestaPropia == ~cruzada /\ \A t \in Clientes : espera[t] # "perdida"

\* A request of a CPU that the UMV attends is one it may make and finds the
\* segment it names: the answer is -1 only for bytes past the end of a segment
\* or when a command of the operator destroyed the segments of the program,
\* unless crearSegmento ended without a return or the answers to the two
\* threads of the Kernel were mixed up.
SinSegfault ==
  ~basura /\ RespuestaPropia =>
    \A c \in Cpus :
      /\ hilo[c] \in {"dentro", "rechaza"} /\ espera[c] # "muerta"
      /\ pcb[c] \notin borrados /\ pedido[c].seg # "fuera"
      => hilo[c] = "dentro" /\ <<activo[c], pedido[c].seg>> \in segmentos

EnColaExit == {p \in Pids : vida[p] = "exit" /\ p # destruye}

\* As long as no more than one unlock of mutex_exit found it open, vaciarColaExit
\* never waits for an unlock that nobody will make: each program of colaExit has
\* one of its own, done or to be made by mensajesPrograma.  The mutex begins
\* open, so one may be lost without harm; the second leaves a program in
\* colaExit with its segments.
ExitAvanza == perdidos <= 1 => Cardinality(EnColaExit) <= mutex_exit + avisos

\* Every request is answered, unless the UMV dies, crearSegmento ended without
\* a return, which may leave the mutex taken for ever, or the answers to the
\* two threads of the Kernel were mixed up.
Responde ==
  \A t \in Clientes :
    espera[t] = "respuesta" ~>
      (espera[t] \in {"libre", "muerta"} \/ caida \/ basura \/ ~RespuestaPropia)
=============================================================================
