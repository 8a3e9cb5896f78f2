------------------------------- MODULE Kernel -------------------------------
(***************************************************************************)
(* The Kernel: PLP and PCP share its queues and semaphores, the CPUs and   *)
(* the programs reach it through sockets.                                  *)
(***************************************************************************)
EXTENDS PLP, PCP, CPU, FiniteSetsExt

Init == InitPLP /\ InitPCP /\ InitCPU /\ kernel = "vivo"

Next == NextPLP \/ NextPCP \/ NextCPU

Spec == Init /\ [][Next]_vars

\* Each thread of the Kernel, each CPU and each program is scheduled.  The
\* server of the CPUs visits every client select reports, so none of them is
\* passed over for ever (strong fairness); signals, failures and arrivals
\* owe nothing.
Equidad ==
  /\ WF_vars(EsperaNuevo) /\ WF_vars(Admite) /\ WF_vars(EnviaMensaje)
  /\ WF_vars(SacaDeExit) /\ WF_vars(Destruye)
  /\ \A p \in Pids : WF_vars(NotaCierre(p)) /\ WF_vars(CierraPrograma(p))
  /\ \A c \in Cpus : /\ WF_vars(NuevoCliente(c)) /\ SF_vars(Atiende(c))
                     /\ WF_vars(Corre(c))
  /\ WF_vars(DescuentaOcioso) /\ WF_vars(Despacha) /\ WF_vars(FinalizaPcb)
  /\ \A d \in Dispositivos : WF_vars(TomaSolicitud(d)) /\ WF_vars(TerminaIO(d))
  /\ WF_vars(ReponeCola)

FairSpec == Spec /\ Equidad
-----------------------------------------------------------------------------
(* The scheduler that the threads, the sockets and the CPUs add up to      *)

\* the process that c runs: its PCB is with it or on the way, there or back
Ocupa(c) ==
  IF pcb[c] # Nadie THEN pcb[c]
  ELSE IF haciaCpu[c] # <<>> THEN Head(haciaCpu[c]).pcb
  ELSE IF haciaKernel[c] # <<>> THEN haciaKernel[c][Len(haciaKernel[c])].pcb
  ELSE Nadie

Ocupacion == [c \in Cpus |-> Ocupa(c)]

\* the WAITs that each semaphore still lets through
Creditos == [s \in Semaforos |-> IF valor[s] > 0 THEN valor[s] ELSE 0]

Solicitudes ==
  [d \in Dispositivos |->
     (IF enCurso[d] = Nadie THEN <<>> ELSE <<enCurso[d]>>) \o colaSolicitudes[d]]

Terminados == {p \in Pids : p \in Range(colaExit) \/ saliendo = p \/ destruidos[p] > 0}

Abstracto ==
  INSTANCE Planificador WITH
    Procesos <- Pids, Procesadores <- Cpus, Libre <- Nadie, Pesos <- Peso, Grado <- MultiProg,
    Contadores <- Semaforos, Iniciales <- Valores, Aparatos <- Dispositivos,
    conocidos <- 1..nroProg, nuevos <- colaNew, lugares <- semMultiProg, listos <- colaReady,
    corre <- Ocupacion, creditos <- Creditos, dormidos <- listaBloqueados,
    pedidos <- Solicitudes, terminados <- Terminados
-----------------------------------------------------------------------------
(* Properties                                                              *)

Mensajes == [op : FinDeRafaga \cup {"WAIT", "SIGNAL", "IMPRIMIR", "SIGUSR", "NOTHING"},
             pcb : Pids \cup {Nadie}, de : Pids \cup {Nadie},
             arg : Semaforos \cup Pedidos \cup {SinArg}]

\* Every queue, semaphore and field holds a value of the shape the handlers
\* assume.
TypeOK ==
  /\ nroProg \in 0..MaxProg /\ colaNew \subseteq Pids /\ semNuevoProg \in Nat
  /\ plp \in {"nuevo", "multi"} /\ semMultiProg \in Nat
  /\ programa \in [Pids -> {"ausente", "conectado", "avisado", "cerrado", "ido"}]
  /\ terminado \subseteq Pids
  /\ \A m \in Range(colaImprimibles) : m.pid \in Pids /\ m.de \in Pids
  /\ semMensajeImpresion = Len(colaImprimibles) /\ mensajero \in {"vivo", "muerto"}
  /\ Range(colaExit) \subseteq Pids /\ semProgExit \in Nat
  /\ saliendo \in Pids \cup {Nadie, Nulo} /\ mutex_exit \in {0, 1}
  /\ destruidos \in [Pids -> Nat]
  /\ Range(colaReady) \subseteq Pids /\ semNuevoPcbColaReady \in Nat
  /\ Range(listaClientes) \subseteq Cpus
  /\ pcbAsignado \in [Cpus -> Pids \cup {Nulo}]
  /\ fueAsignado \subseteq Cpus /\ programaCerrado \subseteq Cpus
  /\ semClienteOcioso \in Nat /\ cpuAcerrar \in Cpus \cup {SinCpu}
  /\ servidor.pc \in {"select", "pcbWait", "pcbIO", "ocioso"}
  /\ despacho.pc \in {"espera", "ocioso", "saca", "enviado"}
  /\ pcbAFinalizar \in Pids \cup {Nadie} /\ semProgramaFinaliza \in Nat
  /\ finalizador \in {"espera", "busca"}
  /\ valor \in [Semaforos -> Int]
  /\ \A i \in DOMAIN listaBloqueados :
       listaBloqueados[i].pcb \in Pids /\ listaBloqueados[i].sem \in Semaforos
  /\ \A d \in Dispositivos : Range(colaSolicitudes[d]) \subseteq Pids
  /\ enCurso \in [Dispositivos -> Pids \cup {Nadie}]
  /\ cpu \in [Cpus -> {"apagada", "espera", "corre", "respuesta", "desaloja", "cerrada"}]
  /\ pcb \in [Cpus -> Pids \cup {Nadie}] /\ rafaga \in [Cpus -> 0..Quantum]
  /\ cerrarCPU \subseteq Cpus /\ restan \in [Pids -> 0..MaxInstr]
  /\ \A c \in Cpus : /\ Range(haciaCpu[c]) \subseteq Mensajes
                     /\ Range(haciaKernel[c]) \subseteq Mensajes
  /\ kernel \in {"vivo", "caido"}

\* where a PCB can be: queues, hands and sockets, each place told apart
Donde(p) ==
  {<<"new", 0>> : x \in colaNew \cap {p}}
    \cup {<<"ready", k>> : k \in {j \in DOMAIN colaReady : colaReady[j] = p}}
    \cup {<<impresora.cola, "impresora", k>> :
             k \in {j \in DOMAIN impresora.pcbs : impresora.pcbs[j] = p}}
    \cup {<<"exit", k>> : k \in {j \in DOMAIN colaExit : colaExit[j] = p}}
    \cup {<<"saliendo", 0>> : x \in {saliendo} \cap {p}}
    \cup {<<"bloqueado", k>> : k \in {j \in DOMAIN listaBloqueados : listaBloqueados[j].pcb = p}}
    \cup (UNION {{<<"envio", c, k>> : k \in {j \in DOMAIN haciaCpu[c] : haciaCpu[c][j].pcb = p}}
                   : c \in Range(listaClientes)})
    \cup {<<"cpu", c>> : c \in {d \in Cpus : pcb[d] = p}}
    \cup (UNION {{<<"vuelta", c, k>> :
                    k \in {j \in DOMAIN haciaKernel[c] : haciaKernel[c][j].pcb = p}} : c \in Cpus})
    \cup (UNION {{<<"solicitud", d, k>> :
                    k \in {j \in DOMAIN colaSolicitudes[d] : colaSolicitudes[d][j] = p}}
                   : d \in Dispositivos})
    \cup {<<"io", d>> : d \in {e \in Dispositivos : enCurso[e] = p}}

\* A process never vanishes: until its memory is given back its PCB is in some
\* queue, in the hands of a thread, in a socket or with a CPU (a program whose
\* code did not fit has no PCB and is marked as ended from the start).
NoSePierde ==
  \A p \in 1..nroProg :
    (p \in terminado => "sinCodigo" \notin Creaciones) =>
      Cardinality(Donde(p)) + destruidos[p] >= 1

\* A process is never in two places: it does not run twice at a time, nor is
\* its memory given back while some PCB of it is left, nor twice.
NoSeDuplica ==
  \A p \in Pids : Cardinality(Donde(p)) + destruidos[p] <= 1

\* Whatever fails, a process that goes on has one PCB: it is never ready,
\* blocked, at a device or at a CPU twice.
UnSoloPcb ==
  \A p \in Pids : Cardinality({l \in Donde(p) : l[1] \notin {"exit", "saliendo"}}) <= 1

\* As NoSeDuplica, with CPUs that die and at most one that announces its close
\* (cpuAcerrar has room for one).
NoSeDuplicaConUnCierre == Cardinality(cerrarCPU) <= 1 => NoSeDuplica

Admitidos == {p \in Pids : \E l \in Donde(p) : l[1] \notin {"new", "exit", "saliendo"}}

\* The admission semaphore counts exactly the free places: every process that
\* the PLP let in takes one and gives it back once, whoever ends it.
GradoExacto == semMultiProg + Cardinality(Admitidos) = MultiProg

\* Whatever CPU fails, no more processes are admitted than MULTIPROGRAMACION,
\* as long as no program is closed before its end.
GradoRespetado == semMultiProg + Cardinality(Admitidos) <= MultiProg

\* A CPU the PCP may choose is really waiting for a PCB: the PCP never sends
\* one to a CPU that runs another process or still owes it a message.
OciosoDeVerdad ==
  \A c \in Range(listaClientes) \ fueAsignado :
    servidor.cpu # c => /\ cpu[c] = "espera"
                        /\ haciaCpu[c] = <<>> /\ haciaKernel[c] = <<>>

\* semClienteOcioso counts the clients _sinPCB accepts, so that choosing one
\* after the sem_wait always finds it.
OciososContados ==
  semClienteOcioso + (IF despacho.pc = "saca" THEN 1 ELSE 0) = Cardinality(Ociosos)

\* semNuevoPcbColaReady counts the PCBs in colaReady, so that the queue is
\* never empty when hiloClienteOcioso takes one.
ListosContados ==
  semNuevoPcbColaReady + (IF despacho.pc \in {"ocioso", "saca"} THEN 1 ELSE 0)
    = Len(colaReady) + (IF impresora.cola = "ready" THEN Len(impresora.pcbs) ELSE 0)

\* The negative value of an ANSISOP semaphore is the number of processes
\* blocked on it: no SIGNAL is spent on nobody and nobody is left behind.
BloqueadosContados ==
  \A s \in Semaforos :
    Cardinality(Esperando(s)) = IF valor[s] < 0 THEN -valor[s] ELSE 0

\* No thread of the Kernel follows a NULL or wild pointer: what each of them
\* pops, chooses or receives is there.
KernelVivo == kernel = "vivo"

\* What a process prints goes to the program it belongs to, whatever CPU fails,
\* as long as no program is closed before its end and the fields of a client
\* are written before its answer is handled.
ImprimeAlDuenio == \A m \in Range(colaImprimibles) : m.pid = m.de

\* A program is told that its process ended after everything it printed.
SalidaCompleta ==
  [][\A p \in Pids :
       (programa[p] = "conectado" /\ programa'[p] = "avisado") =>
         /\ \A m \in Range(colaImprimibles') : m.de # p
         /\ \A c \in Cpus : \A m \in Range(haciaKernel'[c]) :
              ~(m.op = "IMPRIMIR" /\ m.de = p)]_vars

\* When nothing fails the Kernel is a scheduler: processes are admitted lightest
\* first while there is a place, run and come back in order, a WAIT blocks
\* only when the semaphore has nothing left, a SIGNAL frees the first that
\* waits, and a process that ends leaves its place once.  No step of a thread, a
\* socket or a CPU shows in between.
EsPlanificador == Abstracto!SpecA

\* Every program that arrives is told how it ended.
TodosAvisados ==
  \A p \in Pids : (programa[p] = "conectado") ~> (programa[p] \in {"avisado", "cerrado", "ido"})
=============================================================================
