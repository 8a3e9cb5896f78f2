-------------------------------- MODULE PLP --------------------------------
(***************************************************************************)
(* The long term scheduler: the server of the programs, the loop that      *)
(* admits processes, the thread that empties colaExit and the one that     *)
(* sends the programs what their process prints (plp.c,                    *)
(* SocketServerPLP.c, funcionesPLP.c).                                     *)
(***************************************************************************)
EXTENDS KernelDatos

vacia(s) == s = <<>>

InitPLP ==
  /\ nroProg = 0 /\ colaNew = {} /\ semNuevoProg = 0 /\ plp = "nuevo"
  /\ semMultiProg = MultiProg
  /\ programa = [p \in Pids |-> "ausente"] /\ terminado = {}
  /\ colaImprimibles = <<>> /\ semMensajeImpresion = 0 /\ mensajero = "vivo"
  /\ colaExit = <<>> /\ semProgExit = 0 /\ saliendo = Nadie
  /\ mutex_exit = 1 /\ destruidos = [p \in Pids |-> 0]
  /\ colaReady = <<>> /\ semNuevoPcbColaReady = 0
  /\ pcbAFinalizar = Nadie /\ semProgramaFinaliza = 0

\* pids with an entry in listaClientesProgramas
ClientesProgramas == {p \in Pids : programa[p] \in {"conectado", "avisado", "cerrado"}}

\* When the code segment does not fit there is nothing to free; any later
\* failure leaves the PCB in colaExit.
CrearPCB(p, r) ==
  /\ nroProg' = p
  /\ IF r = "parcial" THEN MandaAExit(p) ELSE UNCHANGED salida

\* a program sends its code: crearPCB and what the server does with its result
LlegaPrograma(r) ==
  LET p == nroProg + 1
  IN  /\ kernel = "vivo" /\ p \in Pids
      /\ programa' = [programa EXCEPT ![p] = "conectado"]
      /\ CrearPCB(p, r)
      /\ IF r = "creado"
           THEN /\ colaNew' = colaNew \cup {p}
                /\ semNuevoProg' = semNuevoProg + 1
                /\ UNCHANGED <<terminado, mensajes>>
           ELSE /\ terminado' = terminado \cup {p}
                /\ Imprime(Imprimible(p, "ERROR", p))
                /\ UNCHANGED <<colaNew, semNuevoProg>>
      /\ UNCHANGED <<plp, mensajero, baja, pcpVars, semMultiProg, listos, cpus, red,
                     kernel>>

\* recibirDatos returns 0: the socket of the program is closed
NotaCierre(p) ==
  /\ kernel = "vivo" /\ programa[p] = "cerrado"
  /\ programa' = [programa EXCEPT ![p] = "ido"]
  /\ IF p \in terminado
       THEN UNCHANGED <<pcbAFinalizar, semProgramaFinaliza>>
       ELSE /\ pcbAFinalizar' = p
            /\ semProgramaFinaliza' = semProgramaFinaliza + 1
  /\ UNCHANGED <<admision, terminado, mensajero, baja, clientes, servidor, despacho,
                 finalizador, ansisop, io, impresora, comunes, cpus, red, kernel>>

-----------------------------------------------------------------------------
(* comienzaPLP                                                             *)

EsperaNuevo ==
  /\ kernel = "vivo" /\ plp = "nuevo"
  /\ semNuevoProg > 0 /\ semNuevoProg' = semNuevoProg - 1
  /\ plp' = "multi"
  /\ UNCHANGED <<nroProg, colaNew, programa, terminado, mensajero, baja, pcpVars,
                 comunes, cpus, red, kernel>>

\* sem_wait(&semMultiProg); deviation: left out
TomaLugarSinEsperar == UNCHANGED semMultiProg
TomaLugar == semMultiProg > 0 /\ semMultiProg' = semMultiProg - 1

\* list_sort by _menorPeso, and the first one goes to colaReady
Admite ==
  /\ kernel = "vivo" /\ plp = "multi"
  /\ TomaLugar
  /\ \E p \in colaNew :
       /\ \A q \in colaNew : Peso[p] <= Peso[q]
       /\ colaNew' = colaNew \ {p}
       /\ MandaAReady(p)
  /\ plp' = "nuevo"
  /\ UNCHANGED <<nroProg, semNuevoProg, programa, terminado, mensajero, baja, pcpVars,
                 salida, mensajes, cpus, red, kernel>>

-----------------------------------------------------------------------------
(* mensajesPrograma                                                        *)

\* the thread returns for good when the program is no longer connected
EnviaMensaje ==
  LET m == Head(colaImprimibles)
      final == m.tipo \in {"EXIT", "ERROR"} /\ m.pid \in ClientesProgramas
  IN  /\ kernel = "vivo" /\ mensajero = "vivo"
      /\ semMensajeImpresion > 0
      /\ semMensajeImpresion' = semMensajeImpresion - 1
      /\ colaImprimibles' = Tail(colaImprimibles)
      /\ mensajero' = IF m.pid \in ClientesProgramas THEN "vivo" ELSE "muerto"
      /\ IF final
           THEN /\ terminado' = terminado \cup {m.pid}
                /\ programa' = [programa EXCEPT ![m.pid] =
                                  IF @ = "conectado" THEN "avisado" ELSE @]
                /\ mutex_exit' = 1
           ELSE UNCHANGED <<terminado, programa, mutex_exit>>
      /\ UNCHANGED <<admision, saliendo, destruidos, pcpVars, semMultiProg, salida,
                     listos, cpus, red, kernel>>

-----------------------------------------------------------------------------
(* vaciarColaExit                                                          *)

\* deviation: queue_peek for queue_pop
SacaDeExitSinQuitar ==
  /\ kernel = "vivo" /\ saliendo = Nadie
  /\ semProgExit > 0 /\ semProgExit' = semProgExit - 1
  /\ saliendo' = (IF vacia(colaExit) THEN Nulo ELSE Head(colaExit)) /\ UNCHANGED colaExit
  /\ UNCHANGED <<admision, programa, terminado, mensajero, mutex_exit, destruidos,
                 pcpVars, semMultiProg, mensajes, listos, cpus, red, kernel>>

SacaDeExit ==
  /\ kernel = "vivo" /\ saliendo = Nadie
  /\ semProgExit > 0 /\ semProgExit' = semProgExit - 1
  /\ IF vacia(colaExit)
       THEN saliendo' = Nulo /\ UNCHANGED colaExit
       ELSE saliendo' = Head(colaExit) /\ colaExit' = Tail(colaExit)
  /\ UNCHANGED <<admision, programa, terminado, mensajero, mutex_exit, destruidos,
                 pcpVars, semMultiProg, mensajes, listos, cpus, red, kernel>>

Destruye ==
  /\ kernel = "vivo" /\ saliendo \in Pids /\ mutex_exit = 1
  /\ mutex_exit' = 0
  /\ destruidos' = [destruidos EXCEPT ![saliendo] = @ + 1]
  /\ saliendo' = Nadie
  /\ UNCHANGED <<admision, programa, terminado, mensajero, pcpVars, comunes, cpus,
                 red, kernel>>

\* queue_pop found the queue empty: aux->pcb_id
DestruyeNulo ==
  /\ kernel = "vivo" /\ saliendo = Nulo /\ mutex_exit = 1
  /\ Cae

-----------------------------------------------------------------------------
(* The process Programa                                                    *)

\* finalizarConexion after the EXIT or ERROR message
CierraPrograma(p) ==
  /\ programa[p] = "avisado"
  /\ programa' = [programa EXCEPT ![p] = "cerrado"]
  /\ UNCHANGED <<admision, terminado, mensajero, baja, pcpVars, comunes, cpus, red,
                 kernel>>

\* the user stops it before
CortaPrograma(p) ==
  /\ "programa" \in Cortes /\ programa[p] = "conectado"
  /\ programa' = [programa EXCEPT ![p] = "cerrado"]
  /\ UNCHANGED <<admision, terminado, mensajero, baja, pcpVars, comunes, cpus, red,
                 kernel>>

NextPLP ==
  \/ \E r \in Creaciones : LlegaPrograma(r)
  \/ \E p \in Pids : NotaCierre(p)
  \/ EsperaNuevo \/ Admite
  \/ EnviaMensaje
  \/ SacaDeExit \/ Destruye \/ DestruyeNulo
  \/ \E p \in Pids : CierraPrograma(p) \/ CortaPrograma(p)
=============================================================================
