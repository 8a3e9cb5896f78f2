-------------------------------- MODULE PCP --------------------------------
(***************************************************************************)
(* The short term scheduler: the server of the CPUs, the thread that gives *)
(* PCBs to idle CPUs, the thread of each device and the one that finishes  *)
(* the process of a program that was closed (PCP.c, operacionesPCP.c).     *)
(***************************************************************************)
EXTENDS KernelDatos

EnSelect == [pc |-> "select", cpu |-> SinCpu, arg |-> SinArg]
EnEspera == [pc |-> "espera", cpu |-> SinCpu, pcb |-> Nadie]
SinImpresion == [hilo |-> "nadie", cola |-> "ninguna", pcbs |-> <<>>]

SemaforosIniciales == valor = Valores /\ listaBloqueados = <<>>
DispositivosIniciales ==
  /\ colaSolicitudes = [d \in Dispositivos |-> <<>>]
  /\ enCurso = [d \in Dispositivos |-> Nadie]

InitPCP ==
  /\ listaClientes = <<>> /\ pcbAsignado = [c \in Cpus |-> Nulo]
  /\ fueAsignado = {} /\ programaCerrado = {}
  /\ semClienteOcioso = 0 /\ cpuAcerrar = SinCpu
  /\ servidor = EnSelect /\ despacho = EnEspera
  /\ finalizador = "espera" /\ impresora = SinImpresion
  /\ SemaforosIniciales /\ DispositivosIniciales

FinDeRafaga == {"QUANTUM", "IO", "EXIT", "ERROR"}

-----------------------------------------------------------------------------
(* server_cpu: one action per message of a CPU                             *)

Pedido(c) == Head(haciaKernel[c])

\* the server is in its loop and a message of c is the next one it handles
Llega(c) ==
  /\ kernel = "vivo" /\ servidor = EnSelect /\ impresora.hilo # "servidor"
  /\ c \in Range(listaClientes)
  /\ haciaKernel[c] # <<>>

Consume(c) == haciaKernel' = [haciaKernel EXCEPT ![c] = Tail(@)]
Responde(c, op) == haciaCpu' = [haciaCpu EXCEPT ![c] = Append(@, Mensaje(op, Nadie, SinArg))]

MutexLibre == impresora.hilo = "nadie"

\* deviations of QuedaOcioso: one of its two steps left out
QuedaOciosoSinAviso(c) == fueAsignado' = fueAsignado \ {c} /\ UNCHANGED semClienteOcioso
QuedaOciosoSinMarca(c) == semClienteOcioso' = semClienteOcioso + 1 /\ UNCHANGED fueAsignado

\* unCliente->fueAsignado = false; sem_post(&semClienteOcioso)
QuedaOcioso(c) ==
  /\ fueAsignado' = fueAsignado \ {c}
  /\ semClienteOcioso' = semClienteOcioso + 1

\* a CPU about to close (SIGUSR1) is not given back
QuedaOciosoSalvoCierre(c) ==
  IF cpuAcerrar = c THEN UNCHANGED <<fueAsignado, semClienteOcioso>> ELSE QuedaOcioso(c)

\* what no handler of a message touches
Ajeno == UNCHANGED <<plpVars, despacho, cierre, colaSolicitudes, enCurso, impresora,
                     cpus, kernel, listaClientes, pcbAsignado>>

NuevoCliente(c) ==
  /\ kernel = "vivo" /\ servidor = EnSelect /\ impresora.hilo # "servidor"
  /\ cpu[c] = "apagada"
  /\ listaClientes' = Append(listaClientes, c)
  /\ semClienteOcioso' = semClienteOcioso + 1
  /\ cpu' = [cpu EXCEPT ![c] = "espera"]
  /\ UNCHANGED <<plpVars, pcbAsignado, fueAsignado, programaCerrado, cpuAcerrar, servidor,
                 despacho, cierre, ansisop, io, impresora, comunes, pcb, operacion,
                 rafaga, cerrarCPU, restan, red, kernel>>

\* the program of the process that c ran was closed: its PCB is dropped
DescartaPcb(c) ==
  /\ Llega(c) /\ Consume(c)
  /\ c \in programaCerrado /\ Pedido(c).op \in FinDeRafaga
  /\ programaCerrado' = programaCerrado \ {c}
  /\ QuedaOcioso(c)
  /\ Ajeno /\ UNCHANGED <<cpuAcerrar, servidor, ansisop, comunes, haciaCpu>>

DescartaPedido(c) ==
  /\ Llega(c) /\ Consume(c)
  /\ c \in programaCerrado /\ Pedido(c).op \in {"IMPRIMIR", "SIGNAL"}
  /\ Ajeno /\ UNCHANGED <<programaCerrado, fueAsignado, semClienteOcioso, cpuAcerrar,
                          servidor, ansisop, comunes, haciaCpu>>

OperacionQuantum(c) ==
  /\ Llega(c) /\ Consume(c)
  /\ c \notin programaCerrado /\ Pedido(c).op = "QUANTUM" /\ MutexLibre
  /\ MandaAReady(Pedido(c).pcb)
  /\ QuedaOciosoSalvoCierre(c)
  /\ Ajeno /\ UNCHANGED <<programaCerrado, cpuAcerrar, servidor, ansisop, semMultiProg,
                          salida, mensajes, haciaCpu>>

\* the server goes on to receive the PCB in the same handler
OperacionIO(c) ==
  /\ Llega(c) /\ Consume(c)
  /\ c \notin programaCerrado /\ Pedido(c).op = "IO" /\ Pedido(c).pcb = Nadie
  /\ servidor' = [pc |-> "pcbIO", cpu |-> c, arg |-> Pedido(c).arg]
  /\ Ajeno /\ UNCHANGED <<programaCerrado, fueAsignado, semClienteOcioso, cpuAcerrar,
                          ansisop, comunes, haciaCpu>>

\* operacionExit and operacionError, and the sem_post that follows them
OperacionFin(c) ==
  /\ Llega(c) /\ Consume(c)
  /\ c \notin programaCerrado /\ Pedido(c).op \in {"EXIT", "ERROR"}
  /\ Imprime(Imprimible(Pedido(c).pcb, Pedido(c).op, Pedido(c).pcb))
  /\ MandaAExit(Pedido(c).pcb) /\ DejaLugar
  /\ QuedaOciosoSalvoCierre(c)
  /\ Ajeno /\ UNCHANGED <<programaCerrado, cpuAcerrar, servidor, ansisop, listos, haciaCpu>>

\* the process assigned to the client; deviation: always the first client's
QuienImprimePrimero(c) == pcbAsignado[Head(listaClientes)]
QuienImprime(c) == pcbAsignado[c]

\* the handler takes the assigned process for the one that prints
OperacionImprimir(c) ==
  /\ Llega(c) /\ Consume(c)
  /\ c \notin programaCerrado /\ Pedido(c).op = "IMPRIMIR" /\ pcbAsignado[c] \in Pids
  /\ Imprime(Imprimible(QuienImprime(c), "IMPRIMIR", Pedido(c).de))
  /\ Ajeno /\ UNCHANGED <<programaCerrado, fueAsignado, semClienteOcioso, cpuAcerrar,
                          servidor, ansisop, semMultiProg, salida, listos, haciaCpu>>

\* operacionesConSemaforos, WAIT
OperacionWait(c) ==
  /\ Llega(c) /\ Consume(c)
  /\ Pedido(c).op = "WAIT" /\ Pedido(c).pcb = Nadie
  /\ \/ /\ c \in programaCerrado
        /\ Responde(c, "ERROR")
        /\ UNCHANGED <<servidor, valor>>
     \/ /\ c \notin programaCerrado /\ valor[Pedido(c).arg] > 0
        /\ Responde(c, "NOTHING")
        /\ valor' = [valor EXCEPT ![Pedido(c).arg] = @ - 1]
        /\ UNCHANGED servidor
     \/ /\ c \notin programaCerrado /\ valor[Pedido(c).arg] <= 0
        /\ Responde(c, "WAIT")
        /\ servidor' = [pc |-> "pcbWait", cpu |-> c, arg |-> Pedido(c).arg]
        /\ UNCHANGED valor
  /\ Ajeno /\ UNCHANGED <<programaCerrado, fueAsignado, semClienteOcioso, cpuAcerrar,
                          listaBloqueados, comunes>>

Esperando(s) == {k \in DOMAIN listaBloqueados : listaBloqueados[k].sem = s}

\* a SIGNAL wakes the first process blocked on s; deviation: off by one
HayQueDespertarTarde(s) == valor[s] < -1 /\ Esperando(s) # {}
HayQueDespertar(s) == valor[s] < 0 /\ Esperando(s) # {}

\* operacionesConSemaforos, SIGNAL
OperacionSignal(c) ==
  LET s == Pedido(c).arg
  IN  /\ Llega(c) /\ Consume(c)
      /\ c \notin programaCerrado /\ Pedido(c).op = "SIGNAL"
      /\ valor' = [valor EXCEPT ![s] = @ + 1]
      /\ IF HayQueDespertar(s)
           THEN /\ MutexLibre
                /\ \E k \in Primera(Esperando(s)) :
                     /\ listaBloqueados' = QuitaPos(listaBloqueados, k)
                     /\ MandaAReady(listaBloqueados[k].pcb)
           ELSE UNCHANGED <<listaBloqueados, listos>>
      /\ Ajeno /\ UNCHANGED <<programaCerrado, fueAsignado, semClienteOcioso, cpuAcerrar,
                              servidor, semMultiProg, salida, mensajes, haciaCpu>>

OperacionSigusr(c) ==
  /\ Llega(c) /\ Consume(c)
  /\ Pedido(c).op = "SIGUSR"
  /\ cpuAcerrar' = c
  /\ Ajeno /\ UNCHANGED <<programaCerrado, fueAsignado, semClienteOcioso, servidor,
                          ansisop, comunes, haciaCpu>>

\* a message read as what it is not (a PCB as the name of a semaphore or of a
\* device), or the output of a CPU that was never assigned a PCB
MensajeDesfasado(c) ==
  /\ Llega(c)
  /\ \/ Pedido(c).op = "WAIT" /\ Pedido(c).pcb # Nadie
     \/ Pedido(c).op = "IO" /\ Pedido(c).pcb # Nadie /\ c \notin programaCerrado
     \/ Pedido(c).op = "IMPRIMIR" /\ pcbAsignado[c] = Nulo /\ c \notin programaCerrado
  /\ Cae

-----------------------------------------------------------------------------
(* The second recibirDatos of WAIT and IO                                  *)

EsperaPcb(c) ==
  /\ kernel = "vivo" /\ servidor.pc \in {"pcbWait", "pcbIO"} /\ servidor.cpu = c

\* deviation: the value is not decremented
BloqueaSinRestar(p, s) ==
  listaBloqueados' = Append(listaBloqueados, [pcb |-> p, sem |-> s]) /\ UNCHANGED valor
Bloquea(p, s) ==
  /\ listaBloqueados' = Append(listaBloqueados, [pcb |-> p, sem |-> s])
  /\ valor' = [valor EXCEPT ![s] = @ - 1]

\* the process is blocked; valor-- comes after the PCB has arrived
RecibeBloqueado(c) ==
  /\ EsperaPcb(c) /\ servidor.pc = "pcbWait"
  /\ haciaKernel[c] # <<>> /\ Pedido(c).pcb # Nadie /\ Consume(c)
  /\ Bloquea(Pedido(c).pcb, servidor.arg)
  /\ QuedaOcioso(c)
  /\ servidor' = EnSelect
  /\ Ajeno /\ UNCHANGED <<programaCerrado, cpuAcerrar, comunes, haciaCpu>>

\* a device that is not in the configuration costs nothing: back to ready
RecibeSolicitud(c) ==
  LET d == servidor.arg
  IN  /\ EsperaPcb(c) /\ servidor.pc = "pcbIO"
      /\ haciaKernel[c] # <<>> /\ Pedido(c).pcb # Nadie /\ Consume(c)
      /\ IF d \in Dispositivos
           THEN /\ colaSolicitudes' = [colaSolicitudes EXCEPT ![d] = Append(@, Pedido(c).pcb)]
                /\ UNCHANGED listos
           ELSE MandaAReady(Pedido(c).pcb) /\ UNCHANGED colaSolicitudes
      /\ QuedaOciosoSalvoCierre(c)
      /\ servidor' = EnSelect
      /\ UNCHANGED <<plpVars, listaClientes, pcbAsignado, programaCerrado, cpuAcerrar,
                     despacho, cierre, ansisop, enCurso, impresora, semMultiProg, salida,
                     mensajes, cpus, haciaCpu, kernel>>

\* the bytes that arrive are not a PCB, or the CPU is gone
PcbDesfasado(c) ==
  /\ EsperaPcb(c)
  /\ \/ haciaKernel[c] # <<>> /\ Pedido(c).pcb = Nadie
     \/ haciaKernel[c] = <<>> /\ cpu[c] = "cerrada"
  /\ Cae

-----------------------------------------------------------------------------
(* cerrarConexionCliente                                                   *)

\* deviation: fueAsignado not tested
TeniaPcbSiempre(c) == cpuAcerrar # c
TeniaPcb(c) == c \in fueAsignado /\ cpuAcerrar # c

\* a CPU that announced it is not owed a semClienteOcioso
CierraConexion(c) ==
  /\ kernel = "vivo" /\ servidor = EnSelect /\ impresora.hilo # "servidor"
  /\ c \in Range(listaClientes) /\ haciaKernel[c] = <<>> /\ cpu[c] = "cerrada"
  /\ IF TeniaPcb(c)
       THEN MandaAExit(pcbAsignado[c]) /\ mutex_exit' = 1
       ELSE UNCHANGED <<salida, mutex_exit>>
  /\ \E k \in Primera({j \in DOMAIN listaClientes : listaClientes[j] = c}) :
       listaClientes' = QuitaPos(listaClientes, k)
  /\ haciaCpu' = [haciaCpu EXCEPT ![c] = <<>>] /\ pcb' = [pcb EXCEPT ![c] = Nadie]
  /\ IF cpuAcerrar = c
       THEN cpuAcerrar' = SinCpu /\ UNCHANGED servidor
       ELSE servidor' = [pc |-> "ocioso", cpu |-> c, arg |-> SinArg] /\ UNCHANGED cpuAcerrar
  /\ UNCHANGED <<admision, programa, terminado, mensajero, saliendo, destruidos,
                 pcbAsignado, fueAsignado, programaCerrado, semClienteOcioso, despacho,
                 cierre, ansisop, io, impresora, semMultiProg, mensajes, listos, cpu,
                 operacion, rafaga, cerrarCPU, restan, haciaKernel, kernel>>

\* sem_wait(&semClienteOcioso), in the thread of the server
DescuentaOcioso ==
  /\ kernel = "vivo" /\ servidor.pc = "ocioso"
  /\ semClienteOcioso > 0 /\ semClienteOcioso' = semClienteOcioso - 1
  /\ servidor' = EnSelect
  /\ UNCHANGED <<plpVars, listaClientes, pcbAsignado, fueAsignado, programaCerrado,
                 cpuAcerrar, despacho, cierre, ansisop, io, impresora, comunes, cpus,
                 red, kernel>>

-----------------------------------------------------------------------------
(* hiloClienteOcioso and envioPCBaClienteOcioso                            *)

EsperaReady ==
  /\ kernel = "vivo" /\ despacho.pc = "espera" /\ impresora.hilo # "despacho"
  /\ semNuevoPcbColaReady > 0 /\ semNuevoPcbColaReady' = semNuevoPcbColaReady - 1
  /\ despacho' = [pc |-> "ocioso", cpu |-> SinCpu, pcb |-> Nadie]
  /\ UNCHANGED <<plpVars, clientes, servidor, cierre, ansisop, io, impresora, colaReady,
                 semMultiProg, salida, mensajes, cpus, red, kernel>>

\* positions of listaClientes that _sinPCB accepts
Ociosos == {k \in DOMAIN listaClientes : listaClientes[k] \notin fueAsignado}

EligeOcioso ==
  /\ kernel = "vivo" /\ despacho.pc = "ocioso"
  /\ semClienteOcioso > 0 /\ semClienteOcioso' = semClienteOcioso - 1
  /\ \E k \in Primera(Ociosos) :
       despacho' = [pc |-> "saca", cpu |-> listaClientes[k], pcb |-> Nadie]
  /\ UNCHANGED <<plpVars, listaClientes, pcbAsignado, fueAsignado, programaCerrado,
                 cpuAcerrar, servidor, cierre, ansisop, io, impresora, comunes, cpus,
                 red, kernel>>

\* list_get of an empty list, or queue_pop of an empty queue
DespachaNulo ==
  /\ kernel = "vivo"
  /\ \/ despacho.pc = "ocioso" /\ semClienteOcioso > 0 /\ Ociosos = {}
     \/ despacho.pc = "saca" /\ MutexLibre /\ colaReady = <<>>
  /\ Cae

Envia(p) == haciaCpu' = [haciaCpu EXCEPT ![despacho.cpu] = Append(@, Mensaje("NOTHING", p, SinArg))]
\* deviation: fueAsignado is not set
AsignaSinMarca(p) ==
  /\ pcbAsignado' = [pcbAsignado EXCEPT ![despacho.cpu] = p]
  /\ despacho' = EnEspera /\ UNCHANGED fueAsignado
Asigna(p) ==
  /\ pcbAsignado' = [pcbAsignado EXCEPT ![despacho.cpu] = p]
  /\ fueAsignado' = fueAsignado \cup {despacho.cpu}
  /\ despacho' = EnEspera

\* queue_pop(colaReady); deviation: queue_peek
SacaDeReadySinQuitar == colaReady # <<>> /\ UNCHANGED colaReady
SacaDeReady == colaReady # <<>> /\ colaReady' = Tail(colaReady)

\* the fields of the client are written after the PCB was sent
EnviaPcb ==
  /\ kernel = "vivo" /\ despacho.pc = "saca" /\ MutexLibre
  /\ SacaDeReady
  /\ Envia(Head(colaReady))
  /\ IF "envio" \in Carreras
       THEN /\ despacho' = [despacho EXCEPT !.pc = "enviado", !.pcb = Head(colaReady)]
            /\ UNCHANGED <<pcbAsignado, fueAsignado>>
       ELSE Asigna(Head(colaReady))
  /\ UNCHANGED <<plpVars, listaClientes, programaCerrado, semClienteOcioso, cpuAcerrar,
                 servidor, cierre, ansisop, io, impresora, semNuevoPcbColaReady,
                 semMultiProg, salida, mensajes, cpus, haciaKernel, kernel>>

AsignaPcb ==
  /\ kernel = "vivo" /\ despacho.pc = "enviado"
  /\ Asigna(despacho.pcb)
  /\ UNCHANGED <<plpVars, listaClientes, programaCerrado, semClienteOcioso, cpuAcerrar,
                 servidor, cierre, ansisop, io, impresora, comunes, cpus, red, kernel>>

-----------------------------------------------------------------------------
(* hiloPorIO: its semaphore only wakes it up, the queue is what it tests   *)

TomaSolicitud(d) ==
  /\ kernel = "vivo" /\ enCurso[d] = Nadie /\ colaSolicitudes[d] # <<>>
  /\ enCurso' = [enCurso EXCEPT ![d] = Head(colaSolicitudes[d])]
  /\ colaSolicitudes' = [colaSolicitudes EXCEPT ![d] = Tail(@)]
  /\ UNCHANGED <<plpVars, clientes, servidor, despacho, cierre, ansisop, impresora,
                 comunes, cpus, red, kernel>>

TerminaIO(d) ==
  /\ kernel = "vivo" /\ enCurso[d] # Nadie
  /\ MandaAReady(enCurso[d])
  /\ enCurso' = [enCurso EXCEPT ![d] = Nadie]
  /\ UNCHANGED <<plpVars, clientes, servidor, despacho, cierre, ansisop, colaSolicitudes,
                 impresora, semMultiProg, salida, mensajes, cpus, red, kernel>>

-----------------------------------------------------------------------------
(* hiloPCBaFinalizar                                                       *)

EsperaFinaliza ==
  /\ kernel = "vivo" /\ finalizador = "espera"
  /\ semProgramaFinaliza > 0 /\ semProgramaFinaliza' = semProgramaFinaliza - 1
  /\ finalizador' = "busca"
  /\ UNCHANGED <<plpVars, clientes, servidor, despacho, pcbAFinalizar, ansisop, io,
                 impresora, comunes, cpus, red, kernel>>

BloqueadoAFinalizar ==
  Primera({k \in DOMAIN listaBloqueados : listaBloqueados[k].pcb = pcbAFinalizar})
ReadyAFinalizar ==
  Primera({k \in DOMAIN colaReady : colaReady[k] = pcbAFinalizar})
ClienteAFinalizar ==
  Primera({k \in DOMAIN listaClientes :
             pcbAsignado[listaClientes[k]] = pcbAFinalizar})

\* the PCB found goes to colaExit and the loop ends
Finaliza(p) ==
  /\ kernel = "vivo" /\ finalizador = "busca" /\ finalizador' = "espera"
  /\ MandaAExit(p) /\ DejaLugar
  /\ mutex_exit' = 1
  /\ UNCHANGED <<admision, programa, terminado, mensajero, saliendo, destruidos, servidor,
                 despacho, pcbAFinalizar, semProgramaFinaliza, io, impresora, mensajes,
                 cpus, red, kernel>>

FinalizaBloqueado ==
  /\ \E k \in BloqueadoAFinalizar :
       /\ listaBloqueados' = QuitaPos(listaBloqueados, k)
       /\ Finaliza(listaBloqueados[k].pcb)
  /\ UNCHANGED <<valor, listos, clientes>>

FinalizaReady ==
  /\ BloqueadoAFinalizar = {}
  /\ \E k \in ReadyAFinalizar :
       /\ colaReady' = QuitaPos(colaReady, k)
       /\ Finaliza(colaReady[k])
  /\ UNCHANGED <<ansisop, semNuevoPcbColaReady, clientes>>

\* whatever the CPU is doing: pcbAsignado outlives the assignment
FinalizaAsignado ==
  /\ BloqueadoAFinalizar = {} /\ ReadyAFinalizar = {}
  /\ \E k \in ClienteAFinalizar :
       /\ programaCerrado' = programaCerrado \cup {listaClientes[k]}
       /\ fueAsignado' = fueAsignado \ {listaClientes[k]}
       /\ Finaliza(pcbAsignado[listaClientes[k]])
  /\ UNCHANGED <<ansisop, listos, listaClientes, pcbAsignado, semClienteOcioso, cpuAcerrar>>

\* the search reads pcbAsignado of a CPU that never had one
FinalizaBasura ==
  /\ kernel = "vivo" /\ finalizador = "busca"
  /\ BloqueadoAFinalizar = {} /\ ReadyAFinalizar = {}
  /\ \E j \in DOMAIN listaClientes :
       /\ pcbAsignado[listaClientes[j]] = Nulo
       /\ \A k \in ClienteAFinalizar : j < k
  /\ Cae

-----------------------------------------------------------------------------
(* imprimoInformacionGeneral: recorrerUnaColaDePcbs empties the queue and  *)
(* fills it again, under a mutex most users of the queue do not take       *)

VaciaCola(hilo, cola) ==
  /\ "impresion" \in Carreras /\ kernel = "vivo" /\ MutexLibre
  /\ \/ hilo = "servidor" /\ servidor = EnSelect
     \/ hilo = "despacho" /\ despacho.pc \in {"espera", "saca"}
  /\ \/ /\ cola = "exit" /\ colaExit # <<>> /\ colaExit' = <<>> /\ UNCHANGED colaReady
        /\ impresora' = [hilo |-> hilo, cola |-> cola, pcbs |-> colaExit]
     \/ /\ cola = "ready" /\ colaReady # <<>> /\ colaReady' = <<>> /\ UNCHANGED colaExit
        /\ impresora' = [hilo |-> hilo, cola |-> cola, pcbs |-> colaReady]
  /\ UNCHANGED <<plpVars, clientes, servidor, despacho, cierre, ansisop, io, semProgExit,
                 semNuevoPcbColaReady, semMultiProg, mensajes, cpus, red, kernel>>

\* what the queue holds afterwards; deviation: the new elements are lost
RepuestaSola(cola) == impresora.pcbs
Repuesta(cola) == cola \o impresora.pcbs

ReponeCola ==
  /\ kernel = "vivo" /\ impresora.hilo # "nadie"
  /\ IF impresora.cola = "exit"
       THEN colaExit' = Repuesta(colaExit) /\ UNCHANGED colaReady
       ELSE colaReady' = Repuesta(colaReady) /\ UNCHANGED colaExit
  /\ impresora' = SinImpresion
  /\ UNCHANGED <<plpVars, clientes, servidor, despacho, cierre, ansisop, io, semProgExit,
                 semNuevoPcbColaReady, semMultiProg, mensajes, cpus, red, kernel>>

Atiende(c) ==
  \/ DescartaPcb(c) \/ DescartaPedido(c)
  \/ OperacionQuantum(c) \/ OperacionIO(c) \/ OperacionFin(c) \/ OperacionImprimir(c)
  \/ OperacionWait(c) \/ OperacionSignal(c) \/ OperacionSigusr(c)
  \/ MensajeDesfasado(c)
  \/ RecibeBloqueado(c) \/ RecibeSolicitud(c) \/ PcbDesfasado(c)
  \/ CierraConexion(c)

Despacha == EsperaReady \/ EligeOcioso \/ EnviaPcb \/ AsignaPcb \/ DespachaNulo

FinalizaPcb == EsperaFinaliza \/ FinalizaBloqueado \/ FinalizaReady \/ FinalizaAsignado
                 \/ FinalizaBasura

NextPCP ==
  \/ \E c \in Cpus : NuevoCliente(c) \/ Atiende(c)
  \/ DescuentaOcioso
  \/ Despacha
  \/ \E d \in Dispositivos : TomaSolicitud(d) \/ TerminaIO(d)
  \/ FinalizaPcb
  \/ \E hilo \in {"servidor", "despacho"}, cola \in {"ready", "exit"} : VaciaCola(hilo, cola)
  \/ ReponeCola
=============================================================================
