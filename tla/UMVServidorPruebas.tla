------------------------- MODULE UMVServidorPruebas -------------------------
(* Proofs about UMVServidor, for any number of CPUs, programs, requests,   *)
(* commands and changes of algorithm: types, the mutual exclusion of the   *)
(* threads that work on the list, and the connection of a CPU, from the    *)
(* request it writes to the body of the answer it reads: every request is  *)
(* served for the process the CPU runs.  At the end, the connection the    *)
(* two threads of the Kernel share and the life of a program: while nothing*)
(* was mixed up, a CPU finds the segments of the program it runs, but for  *)
(* those the operator destroyed; and while those two threads do not wait at*)
(* the same time, nothing is mixed up.                                     *)
EXTENDS UMVServidor, FiniteSetTheorems, TLAPS

-----------------------------------------------------------------------------
(* Types                                                                   *)

Ops == ConRespuesta \cup {"HANDSHAKE", "CAMBIO_PROC_ACTIVO", "COMPACTACION", "nada"}

Nombres == Segs \cup {"nada", "otro", "fuera"}

\* what is to be created names a program and a segment, and a change of process
\* names a program
Mensajes ==
  {m \in [op : Ops, pid : Pids \cup {SinPid}, seg : Nombres, de : Clientes \cup {SinPid}] :
     /\ m.op = "CREAR_SEGMENTO" => m.pid \in Pids /\ m.seg \in Segs \cup {"otro"}
     /\ m.op = "CAMBIO_PROC_ACTIVO" => m.pid \in Pids}

EnPasada == {"test1", "test2", "resto"}
EnCrear == EnPasada \cup {"compactar", "compacta"}

Vidas == {"nuevo", "creando", "listo", "corre", "exit", "fin"}
Esperas == {"nueva", "libre", "respuesta", "cuerpo", "perdida", "muerta"}
Hilos == {"escucha", "mutex", "rechaza", "dentro", "test1", "test2", "resto", "compactar",
          "compacta", "cerrado"}
Pasadas == [i : 1..2, ya : 0..1, nada : 0..1]

TiposClientes ==
  /\ vida \in [Pids -> Vidas]
  /\ paso \in 0..5 /\ creado \in Pids \cup {SinPid}
  /\ pcb \in [Cpus -> Pids \cup {SinPid}] /\ destruye \in Pids \cup {SinPid}
  /\ espera \in [Clientes -> Esperas]
  /\ turnos \in [Pids -> 0..MaxTurnos]
  /\ paso > 0 => creado \in Pids
  /\ espera[Plp] \in {"respuesta", "cuerpo"} => paso > 0

TiposFinales == mutex_exit \in 0..1 /\ avisos \in Nat /\ perdidos \in Nat

TiposConexion ==
  /\ ida \in [Conexiones -> Seq(Mensajes)]
  /\ tipo \in [Conexiones -> {"-1", "KERNEL", "CPU"}]
  /\ activo \in [Conexiones -> Pids \cup {SinPid}]

TiposHilo ==
  /\ hilo \in [HilosUmv -> Hilos]
  /\ pedido \in [HilosUmv -> Mensajes]
  /\ pasada \in [HilosUmv -> Pasadas]
  /\ \A h \in HilosUmv :
       /\ hilo[h] \in EnCrear => pedido[h].op \in {"CREAR_SEGMENTO", "COMPACTACION"}
       /\ hilo[h] \in EnPasada => pedido[h].op = "CREAR_SEGMENTO"

TiposLista ==
  /\ mutex \in 0..1 /\ algoritmo \in {"FF", "WF"}
  /\ segmentos \subseteq Pids \X (Segs \cup {"otro"})
  /\ borrados \subseteq Pids

Booleanos ==
  /\ caida \in BOOLEAN /\ suelta \in BOOLEAN /\ basura \in BOOLEAN /\ cruzada \in BOOLEAN

Tipos == TiposClientes /\ TiposFinales /\ TiposConexion /\ TiposHilo /\ TiposLista /\ Booleanos

LEMMA GuionTipo ==
  /\ Len(Guion) = 5
  /\ \A i \in 1..5 : Guion[i].op \in Ops \ {"COMPACTACION"}
  /\ \A i \in 1..5 : Guion[i].seg \in Segs \cup {"nada"}
  /\ \A i \in 1..5 : Guion[i].op = "CREAR_SEGMENTO" => Guion[i].seg \in Segs
  /\ Guion[5].op \in ConRespuesta
BY DEF Guion, Ops, ConRespuesta, Segs

LEMMA TiposDanTypeOK == Tipos => TypeOK
BY GuionTipo
   DEF Tipos, TiposClientes, TiposFinales, TiposConexion, TiposHilo, TiposLista, Booleanos,
       TypeOK, Vidas, Esperas, Hilos, Pasadas

LEMMA NingunoTipo == Ninguno \in Mensajes
BY DEF Ninguno, Mensaje, Mensajes, Ops, Nombres

LEMMA NombresSon ==
  /\ Segs \subseteq Nombres /\ {"codigo", "stack", "nada", "otro", "fuera"} \subseteq Nombres
  /\ Segs = {"codigo", "stack"}
BY DEF Nombres, Segs

LEMMA MensajeTipo ==
  ASSUME NEW op \in Ops, NEW p \in Pids \cup {SinPid}, NEW s \in Nombres,
         NEW t \in Clientes \cup {SinPid},
         op = "CREAR_SEGMENTO" => p \in Pids /\ s \in Segs \cup {"otro"},
         op = "CAMBIO_PROC_ACTIVO" => p \in Pids
  PROVE  Mensaje(op, p, s, t) \in Mensajes
BY DEF Mensaje, Mensajes

LEMMA PasadaTipo ==
  /\ PrimeraPasada \in Pasadas
  /\ \A x \in Pasadas : [x EXCEPT !.nada = 1] \in Pasadas
BY DEF PrimeraPasada, Pasadas

LEMMA TiposInit == Init => Tipos
<1> SUFFICES ASSUME Init PROVE Tipos
  OBVIOUS
<1>1. TiposClientes
  BY ClientesAssumption, CotasAssumption
     DEF Init, TiposClientes, Vidas, Esperas, Clientes, HilosKernel
<1>2. TiposConexion
  BY DEF Init, TiposConexion
<1>3. TiposHilo
  BY NingunoTipo, PasadaTipo DEF Init, TiposHilo, Hilos, EnCrear, EnPasada
<1>4. TiposLista
  BY DEF Init, TiposLista
<1>5. Booleanos
  BY DEF Init, Booleanos
<1>6. TiposFinales
  BY DEF Init, TiposFinales
<1> QED
  BY <1>1, <1>2, <1>3, <1>4, <1>5, <1>6 DEF Tipos

\* what the end of a call leaves
LEMMA TerminaTipo ==
  ASSUME TiposHilo, NEW h \in HilosUmv, Termina(h)
  PROVE  TiposHilo'
BY NingunoTipo, PasadaTipo DEF TiposHilo, Termina, Va, Hilos, EnCrear, EnPasada

LEMMA QuietoClientes ==
  ASSUME TiposClientes, UNCHANGED clientes
  PROVE  TiposClientes'
BY DEF TiposClientes, clientes, finales

LEMMA QuietoHilo ==
  ASSUME TiposHilo, UNCHANGED <<hilo, pedido, pasada>>
  PROVE  TiposHilo'
BY DEF TiposHilo

LEMMA QuietoConexion ==
  ASSUME TiposConexion, UNCHANGED <<ida, tipo, activo>>
  PROVE  TiposConexion'
BY DEF TiposConexion

\* the threads of the UMV leave the clients alone, and the clients those threads
LEMMA UmvDejaClientes ==
  /\ \A h \in HilosUmv : HiloUmv(h) => UNCHANGED clientes
  /\ \A c \in Conexiones : Conexion(c) => UNCHANGED clientes
  /\ Operador => UNCHANGED clientes
<1>1. ASSUME NEW h \in HilosUmv, HiloUmv(h) PROVE UNCHANGED clientes
  BY <1>1 DEF HiloUmv, Entra, Accede, DestruirSegmento, CreaEn, CaePorWorstFit, PasaTest1,
              PasaTest2, CreaAlFinal, Crea, MandaCompactar, NoHayLugar, NadieBusco,
              EntraCompactacion, SaleCompactacion
<1>2. ASSUME NEW c \in Conexiones, Conexion(c) PROVE UNCHANGED clientes
  BY <1>2 DEF Conexion, LeeAviso, LeePedido, Rechaza, Cierra
<1>3. Operador => UNCHANGED clientes
  BY DEF Operador, ComandoOperacion, ComandoCompactar, ComandoAlgoritmo, Comando
<1> QED
  BY <1>1, <1>2, <1>3

ClientesNext ==
  \/ HiloPlp \/ HiloExit
  \/ \E c \in Cpus : Cpu(c) \/ CaeCpu(c)
  \/ \E p \in Pids : EmpiezaCrearPCB(p)

LEMMA ClientesDejanUmv ==
  ClientesNext => UNCHANGED <<locales, compartido, historia>>
<1> SUFFICES ASSUME ClientesNext PROVE UNCHANGED <<locales, compartido, historia>>
  OBVIOUS
<1>1. CASE HiloPlp
  BY <1>1 DEF HiloPlp, CrearPCBPide, CrearPCBRecibe, Cliente, RecibirCabecera, Pierde
<1>2. CASE HiloExit
  BY <1>2 DEF HiloExit, VaciarColaExitPide, VaciarColaExitRecibe, Cliente, RecibirCabecera,
              Pierde
<1>3. CASE \E c \in Cpus : Cpu(c) \/ CaeCpu(c)
  BY <1>3 DEF Cpu, HandshakeUMV, CpuRecibe, Cliente, RecibirCabecera, Pierde, TomaPcb,
              CpuPide, CpuDevuelve, CaeCpu
<1>4. CASE \E p \in Pids : EmpiezaCrearPCB(p)
  BY <1>4 DEF EmpiezaCrearPCB
<1> QED
  BY <1>1, <1>2, <1>3, <1>4 DEF ClientesNext

\* mensajesPrograma touches nothing but the end of programs in the Kernel
Quieto ==
  UNCHANGED <<vida, paso, creado, pcb, espera, destruye, turnos, sockets, locales, compartido,
              historia, cruzada>>

\* every step is a step of one of the four, or leaves all but that as it is
LEMMA CasosDeNext ==
  ASSUME [Next]_vars
  PROVE  \/ \E h \in HilosUmv : HiloUmv(h)
         \/ \E c \in Conexiones : Conexion(c)
         \/ Operador
         \/ ClientesNext
         \/ Quieto /\ (MensajesPrograma \/ UNCHANGED clientes)
<1>1. MensajesPrograma => Quieto
  BY DEF MensajesPrograma, Quieto
<1>2. UNCHANGED vars => Quieto /\ UNCHANGED clientes
  BY DEF vars, clientes, Quieto
<1> QED
  BY <1>1, <1>2 DEF Next, ClientesNext

LEMMA SocketTipo ==
  ASSUME NEW t \in Clientes
  PROVE  Socket(t) \in Conexiones
BY DEF Socket, Conexiones

LEMMA EsperaDistintas ==
  /\ \A c \in Cpus : c # Plp /\ c # Exit /\ c \in Clientes
  /\ Plp # Exit /\ Plp \in Clientes /\ Exit \in Clientes
BY ClientesAssumption DEF Clientes, HilosKernel

\* the client's side of a request and of its answer
LEMMA EsperaTipo ==
  ASSUME TiposClientes, NEW t \in Clientes, NEW e \in Esperas,
         espera' = [espera EXCEPT ![t] = e],
         UNCHANGED paso
  PROVE  /\ espera' \in [Clientes -> Esperas]
         /\ t # Plp => (espera'[Plp] \in {"respuesta", "cuerpo"} => paso' > 0)
BY EsperaDistintas DEF TiposClientes

LEMMA TiposClientesCliente ==
  ASSUME TiposClientes, NEW t \in Clientes, Cliente(t)
  PROVE  TiposClientes'
<1> UNCHANGED <<vida, paso, creado, pcb, destruye, turnos>>
  BY DEF Cliente, RecibirCabecera, Pierde
<1>1. PICK e \in {"cuerpo", "perdida"} :
        espera' = [espera EXCEPT ![t] = e] /\ (e = "cuerpo" => espera[t] = "respuesta")
  BY DEF Cliente, RecibirCabecera, Pierde
<1>2. espera' \in [Clientes -> Esperas]
  BY <1>1 DEF TiposClientes, Esperas
<1>3. espera'[Plp] \in {"respuesta", "cuerpo"} => paso' > 0
  BY <1>1, EsperaDistintas DEF TiposClientes
<1> QED
  BY <1>2, <1>3 DEF TiposClientes

LEMMA TiposClientesPlp ==
  ASSUME TiposClientes, CrearPCBPide \/ CrearPCBRecibe \/ \E p \in Pids : EmpiezaCrearPCB(p)
  PROVE  TiposClientes'
<1>1. ASSUME NEW p \in Pids, EmpiezaCrearPCB(p) PROVE TiposClientes'
  <2>1. vida' \in [Pids -> Vidas]
    BY <1>1 DEF EmpiezaCrearPCB, TiposClientes, Vidas
  <2> QED
    BY <1>1, <2>1 DEF EmpiezaCrearPCB, TiposClientes
<1>2. CASE CrearPCBPide
  <2>1. espera' = [espera EXCEPT ![Plp] = IF Guion[paso].op \in ConRespuesta
                                            THEN "respuesta" ELSE "libre"]
    BY <1>2 DEF CrearPCBPide, EnviarOperacion
  <2>2. paso \in 1..5
    BY <1>2 DEF CrearPCBPide, TiposClientes
  <2>3. paso' = (IF Guion[paso].op \in ConRespuesta THEN paso ELSE paso + 1)
    BY <1>2 DEF CrearPCBPide
  <2>4. paso' \in 1..5
    BY <2>2, <2>3, GuionTipo
  <2>5. espera' \in [Clientes -> Esperas]
    BY <2>1 DEF TiposClientes, Esperas
  <2>6. creado \in Pids
    BY <2>2 DEF TiposClientes
  <2> QED
    BY <1>2, <2>4, <2>5, <2>6 DEF CrearPCBPide, TiposClientes
<1>3. CASE CrearPCBRecibe
  <2> DEFINE V(ok) == CASE ok /\ paso < Len(Guion) -> vida[creado]
                        [] ok /\ paso = Len(Guion) -> "listo"
                        [] ~ok /\ paso > 2         -> "exit"
                        [] ~ok /\ paso <= 2        -> "fin"
  <2>1. PICK ok \in BOOLEAN :
          /\ espera[Plp] = "cuerpo" /\ espera' = [espera EXCEPT ![Plp] = "libre"]
          /\ paso' = IF ok /\ paso < Len(Guion) THEN paso + 1 ELSE 0
          /\ creado' = IF ok /\ paso < Len(Guion) THEN creado ELSE SinPid
          /\ vida' = [vida EXCEPT ![creado] = V(ok)]
    BY <1>3, Zenon DEF CrearPCBRecibe, RecibirCuerpo
  <2>2. paso \in 1..5 /\ creado \in Pids
    BY <2>1 DEF TiposClientes
  <2>3. espera' \in [Clientes -> Esperas] /\ espera'[Plp] = "libre"
    BY <2>1, EsperaDistintas DEF TiposClientes, Esperas
  <2>4. vida' \in [Pids -> Vidas]
    <3>1. V(ok) \in Vidas
      <4>1. vida[creado] \in Vidas
        BY <2>2 DEF TiposClientes
      <4> QED
        BY <4>1, <2>2, GuionTipo DEF Vidas
    <3> HIDE DEF V
    <3> QED
      BY <3>1, <2>1 DEF TiposClientes
  <2>5. paso' \in 0..5 /\ (paso' > 0 => creado' \in Pids) /\ creado' \in Pids \cup {SinPid}
    BY <2>1, <2>2, GuionTipo
  <2> QED
    BY <1>3, <2>3, <2>4, <2>5 DEF CrearPCBRecibe, TiposClientes
<1> QED
  BY <1>1, <1>2, <1>3

LEMMA TiposClientesExit ==
  ASSUME TiposClientes, VaciarColaExitRecibe \/ \E p \in Pids : VaciarColaExitPide(p)
  PROVE  TiposClientes'
<1>1. ASSUME NEW p \in Pids, VaciarColaExitPide(p) PROVE TiposClientes'
  <2>1. PICK e \in {"respuesta", "libre"} : espera' = [espera EXCEPT ![Exit] = e]
    BY <1>1 DEF VaciarColaExitPide, EnviarOperacion
  <2>2. espera' \in [Clientes -> Esperas] /\ espera'[Plp] = espera[Plp]
    BY <2>1, EsperaDistintas DEF TiposClientes, Esperas
  <2> QED
    BY <1>1, <2>2 DEF VaciarColaExitPide, TiposClientes
<1>2. CASE VaciarColaExitRecibe
  <2>1. espera' = [espera EXCEPT ![Exit] = "libre"] /\ vida' = [vida EXCEPT ![destruye] = "fin"]
    BY <1>2 DEF VaciarColaExitRecibe, RecibirCuerpo
  <2>2. espera' \in [Clientes -> Esperas] /\ espera'[Plp] = espera[Plp]
    BY <2>1, EsperaDistintas DEF TiposClientes, Esperas
  <2>3. vida' \in [Pids -> Vidas]
    BY <2>1 DEF TiposClientes, Vidas
  <2> QED
    BY <1>2, <2>2, <2>3 DEF VaciarColaExitRecibe, TiposClientes
<1> QED
  BY <1>1, <1>2

LEMMA TiposClientesCpu ==
  ASSUME TiposClientes, NEW c \in Cpus, Cpu(c) \/ CaeCpu(c)
  PROVE  TiposClientes'
<1> DEFINE Mia(e) == espera' = [espera EXCEPT ![c] = e]
<1>1. ASSUME NEW e \in Esperas, Mia(e)
      PROVE  espera' \in [Clientes -> Esperas] /\ espera'[Plp] = espera[Plp]
  BY <1>1, EsperaDistintas DEF TiposClientes
<1> DEFINE Responde1(op) == IF op \in ConRespuesta THEN "respuesta" ELSE "libre"
<1>2. \A op : Responde1(op) \in Esperas
  BY DEF Esperas
<1> HIDE DEF Responde1
<1>3. CASE HandshakeUMV(c)
  <2>1. Mia(Responde1("HANDSHAKE"))
    BY <1>3 DEF HandshakeUMV, EnviarOperacion, Responde1
  <2> QED
    BY <2>1, <1>1, <1>2, <1>3 DEF HandshakeUMV, TiposClientes
<1>4. CASE CpuRecibe(c)
  <2>1. Mia("libre")
    BY <1>4 DEF CpuRecibe, RecibirCuerpo
  <2>2. vida' \in [Pids -> Vidas]
    BY <1>4 DEF CpuRecibe, TiposClientes, Vidas
  <2>3. pcb' \in [Cpus -> Pids \cup {SinPid}]
    BY <1>4 DEF CpuRecibe, TiposClientes
  <2>4. espera' \in [Clientes -> Esperas] /\ espera'[Plp] = espera[Plp]
    BY <2>1, <1>1 DEF Esperas
  <2> QED
    BY <2>2, <2>3, <2>4, <1>4 DEF CpuRecibe, TiposClientes
<1>5. CASE Cliente(c)
  BY <1>5, EsperaDistintas, TiposClientesCliente
<1>6. ASSUME NEW p \in Pids, TomaPcb(c, p) PROVE TiposClientes'
  <2>1. Mia(Responde1("CAMBIO_PROC_ACTIVO"))
    BY <1>6 DEF TomaPcb, EnviarOperacion, Responde1
  <2>2. vida' \in [Pids -> Vidas]
    BY <1>6 DEF TomaPcb, TiposClientes, Vidas
  <2>3. pcb' \in [Cpus -> Pids \cup {SinPid}]
    BY <1>6 DEF TomaPcb, TiposClientes
  <2> QED
    BY <2>1, <2>2, <2>3, <1>1, <1>2, <1>6 DEF TomaPcb, TiposClientes
<1>7. ASSUME NEW op, NEW s, CpuPide(c, op, s) PROVE TiposClientes'
  <2>1. Mia(Responde1(op))
    BY <1>7 DEF CpuPide, EnviarOperacion, Responde1
  <2>2. turnos' \in [Pids -> 0..MaxTurnos]
    <3>1. pcb[c] \in Pids
      BY <1>7 DEF CpuPide, TiposClientes
    <3>2. turnos[pcb[c]] + 1 \in 0..MaxTurnos
      BY <3>1, <1>7, CotasAssumption DEF CpuPide, TiposClientes
    <3>3. turnos' = [turnos EXCEPT ![pcb[c]] = turnos[pcb[c]] + 1]
      BY <1>7 DEF CpuPide
    <3> QED
      BY <3>2, <3>3 DEF TiposClientes
  <2> QED
    BY <2>1, <2>2, <1>1, <1>2, <1>7 DEF CpuPide, TiposClientes
<1>8. ASSUME NEW v \in {"listo", "exit"}, CpuDevuelve(c, v) PROVE TiposClientes'
  <2>1. pcb[c] \in Pids
    BY <1>8 DEF CpuDevuelve, TiposClientes
  <2>2. turnos' \in [Pids -> 0..MaxTurnos]
    <3>1. CASE v = "listo"
      <4>1. turnos[pcb[c]] + 1 \in 0..MaxTurnos
        BY <3>1, <2>1, <1>8, CotasAssumption DEF CpuDevuelve, TiposClientes
      <4>2. turnos' = [turnos EXCEPT ![pcb[c]] = turnos[pcb[c]] + 1]
        BY <1>8, <3>1 DEF CpuDevuelve
      <4> QED
        BY <4>1, <4>2 DEF TiposClientes
    <3>2. CASE v = "exit"
      BY <3>2, <1>8 DEF CpuDevuelve, TiposClientes
    <3> QED
      BY <3>1, <3>2
  <2>3. vida' \in [Pids -> Vidas]
    BY <1>8 DEF CpuDevuelve, TiposClientes, Vidas
  <2>4. pcb' \in [Cpus -> Pids \cup {SinPid}]
    BY <1>8 DEF CpuDevuelve, TiposClientes
  <2> QED
    BY <2>2, <2>3, <2>4, <1>8 DEF CpuDevuelve, TiposClientes
<1>9. CASE CaeCpu(c)
  <2>1. Mia("muerta")
    BY <1>9 DEF CaeCpu
  <2>2. vida' \in [Pids -> Vidas]
    BY <1>9 DEF CaeCpu, TiposClientes, Vidas
  <2>3. pcb' \in [Cpus -> Pids \cup {SinPid}]
    BY <1>9 DEF CaeCpu, TiposClientes
  <2>4. espera' \in [Clientes -> Esperas] /\ espera'[Plp] = espera[Plp]
    BY <2>1, <1>1 DEF Esperas
  <2> QED
    BY <2>2, <2>3, <2>4, <1>9 DEF CaeCpu, TiposClientes
<1> QED
  BY <1>3, <1>4, <1>5, <1>6, <1>7, <1>8, <1>9 DEF Cpu

LEMMA TiposClientesPaso == TiposClientes /\ [Next]_vars => TiposClientes'
<1> SUFFICES ASSUME TiposClientes, [Next]_vars PROVE TiposClientes'
  OBVIOUS
<1>1. CASE UNCHANGED clientes
  BY <1>1, QuietoClientes
<1>2. CASE ClientesNext
  BY <1>2, TiposClientesPlp, TiposClientesExit, TiposClientesCpu, TiposClientesCliente,
     EsperaDistintas
     DEF ClientesNext, HiloPlp, HiloExit
<1>3. CASE MensajesPrograma
  BY <1>3 DEF MensajesPrograma, TiposClientes
<1> QED
  BY <1>1, <1>2, <1>3, CasosDeNext, UmvDejaClientes

\* the messages of the end of programs, and mutex_exit
LEMMA FinalesAvisan ==
  ASSUME TiposFinales, (AbreExit /\ avisos' \in Nat) \/ Avisa \/ UNCHANGED finales
  PROVE  TiposFinales'
<1>1. \A n \in Nat, m \in 0..1 : n + m \in Nat
  OBVIOUS
<1> QED
  BY <1>1 DEF TiposFinales, AbreExit, Avisa, finales

LEMMA TiposFinalesPaso ==
  ASSUME TiposFinales, [Next]_vars
  PROVE  TiposFinales'
<1>1. CASE UNCHANGED clientes
  BY <1>1, FinalesAvisan DEF clientes
<1>2. CASE HiloPlp
  <2>1. Avisa \/ UNCHANGED finales
    BY <1>2, Zenon DEF HiloPlp, CrearPCBPide, CrearPCBRecibe, Cliente, RecibirCabecera, Pierde
  <2> QED
    BY <2>1, FinalesAvisan
<1>3. CASE HiloExit
  <2>1. CASE \E p \in Pids : VaciarColaExitPide(p)
    BY <2>1 DEF VaciarColaExitPide, TiposFinales
  <2>2. CASE ~(\E p \in Pids : VaciarColaExitPide(p))
    <3>1. UNCHANGED finales
      BY <1>3, <2>2 DEF HiloExit, VaciarColaExitRecibe, Cliente, RecibirCabecera, Pierde
    <3> QED
      BY <3>1, FinalesAvisan
  <2> QED
    BY <2>1, <2>2
<1>4. ASSUME NEW c \in Cpus, Cpu(c) \/ CaeCpu(c) PROVE TiposFinales'
  <2>1. CASE CaeCpu(c)
    <3>1. (AbreExit /\ UNCHANGED avisos) \/ UNCHANGED finales
      BY <2>1, Zenon DEF CaeCpu
    <3> QED
      BY <3>1, FinalesAvisan DEF TiposFinales
  <2>2. CASE Cpu(c)
    <3>1. Avisa \/ UNCHANGED finales
      BY <2>2, Zenon DEF Cpu, HandshakeUMV, CpuRecibe, Cliente, RecibirCabecera, Pierde, TomaPcb,
                         CpuPide, CpuDevuelve
    <3> QED
      BY <3>1, FinalesAvisan
  <2> QED
    BY <1>4, <2>1, <2>2
<1>5. CASE \E p \in Pids : EmpiezaCrearPCB(p)
  BY <1>5, FinalesAvisan DEF EmpiezaCrearPCB
<1>6. CASE MensajesPrograma
  <2>1. AbreExit /\ avisos' \in Nat
    BY <1>6 DEF MensajesPrograma, TiposFinales
  <2> QED
    BY <2>1, FinalesAvisan
<1> QED
  BY <1>1, <1>2, <1>3, <1>4, <1>5, <1>6, CasosDeNext, UmvDejaClientes DEF ClientesNext

\* the messages the clients put on their connections
LEMMA EnviarTipo ==
  ASSUME TiposConexion, NEW t \in Clientes, NEW op \in Ops,
         NEW p \in Pids \cup {SinPid}, NEW s \in Nombres,
         EnviarOperacion(t, op, p, s),
         op = "CREAR_SEGMENTO" => p \in Pids /\ s \in Segs \cup {"otro"},
         op = "CAMBIO_PROC_ACTIVO" => p \in Pids,
         UNCHANGED <<tipo, activo>>
  PROVE  TiposConexion'
<1> DEFINE m == Mensaje(op, p, s, t)
<1>1. m \in Mensajes
  BY MensajeTipo
<1>2. ida' = [ida EXCEPT ![Socket(t)] = Append(@, m)]
  BY DEF EnviarOperacion
<1> HIDE DEF m
<1>3. Append(ida[Socket(t)], m) \in Seq(Mensajes)
  BY <1>1, SocketTipo DEF TiposConexion
<1> QED
  BY <1>2, <1>3 DEF TiposConexion

LEMMA TiposConexionClientes ==
  ASSUME TiposClientes, TiposConexion, ClientesNext
  PROVE  TiposConexion'
<1> UNCHANGED <<tipo, activo>>
  BY ClientesDejanUmv DEF locales
<1>1. ASSUME UNCHANGED ida PROVE TiposConexion'
  BY <1>1, QuietoConexion
<1>2. CASE HiloPlp
  <2>1. CASE CrearPCBPide
    <3>1. paso \in 1..5 /\ creado \in Pids
      BY <2>1 DEF CrearPCBPide, TiposClientes
    <3>2. EnviarOperacion(Plp, Guion[paso].op, creado, Guion[paso].seg)
      BY <2>1 DEF CrearPCBPide
    <3>3. Guion[paso].op \in Ops \ {"COMPACTACION"} /\ Guion[paso].seg \in Nombres
      BY <3>1, GuionTipo, NombresSon
    <3> QED
      BY <3>1, <3>2, <3>3, GuionTipo, EnviarTipo, EsperaDistintas, NombresSon
  <2>2. CASE CrearPCBRecibe
    BY <2>2, <1>1 DEF CrearPCBRecibe
  <2>3. CASE Cliente(Plp)
    BY <2>3, <1>1 DEF Cliente, RecibirCabecera, Pierde
  <2> QED
    BY <1>2, <2>1, <2>2, <2>3 DEF HiloPlp
<1>3. CASE HiloExit
  <2>1. ASSUME NEW p \in Pids, VaciarColaExitPide(p) PROVE TiposConexion'
    <3>1. EnviarOperacion(Exit, "DESTRUIR_SEGMENTO", p, "nada")
      BY <2>1 DEF VaciarColaExitPide
    <3> QED
      BY <3>1, EnviarTipo, EsperaDistintas, NombresSon DEF Ops, ConRespuesta
  <2>2. CASE VaciarColaExitRecibe
    BY <2>2, <1>1 DEF VaciarColaExitRecibe
  <2>3. CASE Cliente(Exit)
    BY <2>3, <1>1 DEF Cliente, RecibirCabecera, Pierde
  <2> QED
    BY <1>3, <2>1, <2>2, <2>3 DEF HiloExit
<1>4. ASSUME NEW c \in Cpus, Cpu(c) \/ CaeCpu(c) PROVE TiposConexion'
  <2>1. CASE HandshakeUMV(c)
    <3>1. EnviarOperacion(c, "HANDSHAKE", SinPid, "nada")
      BY <2>1 DEF HandshakeUMV
    <3> QED
      BY <3>1, EnviarTipo, EsperaDistintas, NombresSon DEF Ops
  <2>2. ASSUME NEW p \in Pids, TomaPcb(c, p) PROVE TiposConexion'
    <3>1. EnviarOperacion(c, "CAMBIO_PROC_ACTIVO", p, "nada")
      BY <2>2 DEF TomaPcb
    <3> QED
      BY <3>1, EnviarTipo, EsperaDistintas, NombresSon DEF Ops
  <2>3. ASSUME NEW s \in Segs \cup {"fuera"}, NEW op \in {"SOLICITAR_BYTES", "ENVIAR_BYTES"},
               CpuPide(c, op, s)
        PROVE  TiposConexion'
    <3>1. EnviarOperacion(c, op, pcb[c], s) /\ pcb[c] \in Pids
      BY <2>3 DEF CpuPide, TiposClientes
    <3> QED
      BY <3>1, EnviarTipo, EsperaDistintas, NombresSon DEF Ops, ConRespuesta
  <2>4. CASE \/ CpuRecibe(c) \/ Cliente(c) \/ CaeCpu(c)
             \/ \E v \in {"listo", "exit"} : CpuDevuelve(c, v)
    BY <2>4, <1>1 DEF CpuRecibe, Cliente, RecibirCabecera, Pierde, CaeCpu, CpuDevuelve, sockets
  <2>5. "stack" \in Segs
    BY DEF Segs
  <2> QED
    BY <1>4, <2>1, <2>2, <2>3, <2>4, <2>5 DEF Cpu
<1>5. CASE \E p \in Pids : EmpiezaCrearPCB(p)
  BY <1>5, <1>1 DEF EmpiezaCrearPCB, sockets
<1> QED
  BY <1>2, <1>3, <1>4, <1>5 DEF ClientesNext

LEMMA TiposConexionUmv ==
  ASSUME TiposConexion, NEW c \in Conexiones, Conexion(c)
  PROVE  TiposConexion'
<1>1. ASSUME ida[c] # <<>>, ida' = [ida EXCEPT ![c] = Tail(@)]
      PROVE  ida' \in [Conexiones -> Seq(Mensajes)] /\ Head(ida[c]) \in Mensajes
  <2>1. ida[c] \in Seq(Mensajes)
    BY DEF TiposConexion
  <2>2. Tail(ida[c]) \in Seq(Mensajes) /\ Head(ida[c]) \in Mensajes
    BY <1>1, <2>1
  <2> QED
    BY <1>1, <2>2 DEF TiposConexion
<1>2. CASE LeeAviso(c)
  <2>1. tipo' \in [Conexiones -> {"-1", "KERNEL", "CPU"}]
    BY <1>2 DEF LeeAviso, TiposConexion
  <2>2. activo' \in [Conexiones -> Pids \cup {SinPid}]
    <3>1. Head(ida[c]).op = "CAMBIO_PROC_ACTIVO" => Head(ida[c]).pid \in Pids
      BY <1>1, <1>2 DEF LeeAviso, Mensajes
    <3> QED
      BY <3>1, <1>2 DEF LeeAviso, TiposConexion
  <2> QED
    BY <1>1, <1>2, <2>1, <2>2 DEF LeeAviso, TiposConexion
<1>3. CASE LeePedido(c)
  BY <1>1, <1>3 DEF LeePedido, TiposConexion
<1>4. CASE Rechaza(c) \/ Cierra(c)
  BY <1>4 DEF Rechaza, Cierra, TiposConexion, sockets
<1> QED
  BY <1>2, <1>3, <1>4 DEF Conexion

LEMMA TiposConexionPaso ==
  ASSUME TiposClientes, TiposConexion, [Next]_vars
  PROVE  TiposConexion'
<1>1. ASSUME NEW h \in HilosUmv, HiloUmv(h) PROVE UNCHANGED <<ida, tipo, activo>>
  BY <1>1 DEF HiloUmv, Entra, Accede, DestruirSegmento, CreaEn, CaePorWorstFit, PasaTest1,
              PasaTest2, CreaAlFinal, Crea, MandaCompactar, NoHayLugar, NadieBusco,
              EntraCompactacion, SaleCompactacion, locales, sockets
<1>2. Operador => UNCHANGED <<ida, tipo, activo>>
  BY DEF Operador, ComandoOperacion, ComandoCompactar, ComandoAlgoritmo, Comando, sockets
<1>3. Quieto => UNCHANGED <<ida, tipo, activo>>
  BY DEF Quieto, sockets, locales
<1> QED
  BY <1>1, <1>2, <1>3, CasosDeNext, TiposConexionClientes, TiposConexionUmv, QuietoConexion

\* a step of thread h that only moves it, to where nothing is created
LEMMA VaTipo ==
  ASSUME TiposHilo, NEW h \in HilosUmv, NEW f \in Hilos, Va(h, f), UNCHANGED <<pedido, pasada>>,
         f \in EnCrear => pedido[h].op \in {"CREAR_SEGMENTO", "COMPACTACION"},
         f \in EnPasada => pedido[h].op = "CREAR_SEGMENTO"
  PROVE  TiposHilo'
BY DEF TiposHilo, Va

\* the next pass of crearSegmento, and its end
LEMMA SigueTipo ==
  ASSUME TiposHilo, NEW h \in HilosUmv, Sigue(h), pedido[h].op = "CREAR_SEGMENTO"
  PROVE  TiposHilo'
<1>1. CASE OtraPasada(h)
  <2> DEFINE n == IF hilo[h] = "compacta" THEN 1 ELSE pasada[h].ya
             x == [i |-> 2, ya |-> n, nada |-> pasada[h].nada]
  <2>1. pasada' = [pasada EXCEPT ![h] = x]
    BY <1>1, Zenon DEF OtraPasada
  <2>2. pasada[h].ya \in 0..1 /\ pasada[h].nada \in 0..1
    BY DEF TiposHilo, Pasadas
  <2>3. x \in Pasadas
    BY <2>2 DEF Pasadas
  <2> HIDE DEF x
  <2>4. pasada' \in [HilosUmv -> Pasadas]
    BY <2>1, <2>3 DEF TiposHilo
  <2>5. "test1" \in Hilos
    BY DEF Hilos
  <2> QED
    BY <1>1, <2>4, <2>5 DEF OtraPasada, TiposHilo, Va
<1>2. CASE SeCaeDelFinal(h)
  BY <1>2, TerminaTipo DEF SeCaeDelFinal
<1> QED
  BY <1>1, <1>2 DEF Sigue

LEMMA TiposHiloUmv ==
  ASSUME TiposHilo, NEW h \in HilosUmv, HiloUmv(h)
  PROVE  TiposHilo'
<1> USE DEF EnCrear, EnPasada
<1>0. Hilos = {"escucha", "mutex", "rechaza", "dentro", "test1", "test2", "resto", "compactar",
               "compacta", "cerrado"}
  BY DEF Hilos
<1>1. CASE Entra(h)
  <2>1. PICK f \in {"test1", "dentro"} :
          Va(h, f) /\ (f = "test1" => pedido[h].op = "CREAR_SEGMENTO")
    BY <1>1 DEF Entra
  <2> QED
    BY <1>0, <1>1, <2>1, VaTipo DEF Entra
<1>2. CASE Accede(h) \/ DestruirSegmento(h) \/ CreaEn(h) \/ CreaAlFinal(h) \/ NoHayLugar(h)
  BY <1>2, TerminaTipo DEF Accede, DestruirSegmento, CreaEn, CreaAlFinal, Crea, NoHayLugar
<1>3. CASE CaePorWorstFit(h)
  BY <1>3, QuietoHilo DEF CaePorWorstFit, locales
<1>4. CASE PasaTest1(h)
  <2>1. hilo[h] = "test1" /\ Va(h, "test2") /\ UNCHANGED <<pedido, pasada>>
    BY <1>4 DEF PasaTest1
  <2> QED
    BY <1>0, <2>1, VaTipo DEF TiposHilo
<1>5. CASE PasaTest2(h)
  <2>1. hilo[h] = "test2" /\ Va(h, "resto") /\ UNCHANGED pedido
    BY <1>5 DEF PasaTest2
  <2>2. pasada' \in [HilosUmv -> Pasadas]
    <3>1. pasada[h] \in Pasadas /\ [pasada[h] EXCEPT !.nada = 1] \in Pasadas
      BY PasadaTipo DEF TiposHilo
    <3>2. pasada' = pasada \/ pasada' = [pasada EXCEPT ![h] = [pasada[h] EXCEPT !.nada = 1]]
      BY <1>5 DEF PasaTest2
    <3> QED
      BY <3>1, <3>2 DEF TiposHilo
  <2> QED
    BY <1>0, <2>1, <2>2 DEF TiposHilo, Va
<1>6. CASE MandaCompactar(h)
  <2>1. hilo[h] = "resto" /\ Va(h, "compactar") /\ UNCHANGED <<pedido, pasada>>
    BY <1>6 DEF MandaCompactar
  <2> QED
    BY <1>0, <2>1, VaTipo DEF TiposHilo
<1>7. CASE NadieBusco(h)
  BY <1>7, SigueTipo DEF NadieBusco, TiposHilo
<1>8. CASE EntraCompactacion(h)
  <2>1. hilo[h] = "compactar" /\ Va(h, "compacta") /\ UNCHANGED <<pedido, pasada>>
    BY <1>8 DEF EntraCompactacion
  <2> QED
    BY <1>0, <2>1, VaTipo DEF TiposHilo
<1>9. CASE SaleCompactacion(h)
  <2>1. pedido[h].op = "COMPACTACION" \/ pedido[h].op = "CREAR_SEGMENTO"
    BY <1>9 DEF SaleCompactacion, TiposHilo
  <2> QED
    BY <1>9, <2>1, SigueTipo, TerminaTipo DEF SaleCompactacion
<1> QED
  BY <1>1, <1>2, <1>3, <1>4, <1>5, <1>6, <1>7, <1>8, <1>9 DEF HiloUmv

LEMMA TiposHiloConexion ==
  ASSUME TiposConexion, TiposHilo, NEW c \in Conexiones, Conexion(c)
  PROVE  TiposHilo'
<1>0. c \in HilosUmv /\ {"mutex", "rechaza", "cerrado"} \subseteq Hilos \ (EnCrear \cup EnPasada)
  BY DEF HilosUmv, Hilos, EnCrear, EnPasada
<1>1. CASE LeeAviso(c)
  BY <1>1, QuietoHilo DEF LeeAviso
<1>2. CASE LeePedido(c)
  <2>1. Head(ida[c]) \in Mensajes
    BY <1>2 DEF LeePedido, TiposConexion
  <2> DEFINE m == Head(ida[c])
  <2>2. PICK f \in {"mutex", "rechaza"} : hilo' = [hilo EXCEPT ![c] = f]
    BY <1>2 DEF LeePedido, Va
  <2>3. pedido' = [pedido EXCEPT ![c] = m] /\ UNCHANGED pasada
    BY <1>2 DEF LeePedido
  <2> HIDE DEF m
  <2> QED
    BY <1>0, <2>1, <2>2, <2>3 DEF TiposHilo, m
<1>3. CASE Rechaza(c)
  BY <1>0, <1>3, TerminaTipo DEF Rechaza
<1>4. CASE Cierra(c)
  BY <1>0, <1>4, VaTipo DEF Cierra
<1> QED
  BY <1>1, <1>2, <1>3, <1>4 DEF Conexion

LEMMA TiposHiloOperador ==
  ASSUME TiposHilo, Operador
  PROVE  TiposHilo'
<1>0. Consola \in HilosUmv /\ {"mutex", "compactar"} \subseteq Hilos
      /\ "mutex" \notin EnCrear \cup EnPasada /\ "compactar" \notin EnPasada
  BY DEF HilosUmv, Hilos, EnCrear, EnPasada
<1>1. ASSUME NEW op \in ConRespuesta, NEW p \in Pids, ComandoOperacion(op, p)
      PROVE  TiposHilo'
  <2> DEFINE m == Mensaje(op, p, "otro", SinPid)
  <2>1. m \in Mensajes
    BY MensajeTipo, NombresSon DEF Ops, ConRespuesta
  <2>2. hilo' = [hilo EXCEPT ![Consola] = "mutex"]
    BY <1>1 DEF ComandoOperacion, Va
  <2>3. pedido' = [pedido EXCEPT ![Consola] = m] /\ UNCHANGED pasada
    BY <1>1 DEF ComandoOperacion, Comando
  <2> HIDE DEF m
  <2> QED
    BY <1>0, <2>1, <2>2, <2>3 DEF TiposHilo
<1>2. CASE ComandoCompactar
  <2> DEFINE m == Mensaje("COMPACTACION", SinPid, "nada", SinPid)
  <2>1. m \in Mensajes /\ m.op = "COMPACTACION"
    BY MensajeTipo, NombresSon DEF Ops, Mensaje
  <2>2. hilo' = [hilo EXCEPT ![Consola] = "compactar"]
    BY <1>2 DEF ComandoCompactar, Va
  <2>3. pedido' = [pedido EXCEPT ![Consola] = m] /\ UNCHANGED pasada
    BY <1>2 DEF ComandoCompactar, Comando
  <2> HIDE DEF m
  <2> QED
    BY <1>0, <2>1, <2>2, <2>3 DEF TiposHilo
<1>3. ASSUME NEW a, ComandoAlgoritmo(a) PROVE TiposHilo'
  BY <1>3, QuietoHilo DEF ComandoAlgoritmo, Comando
<1> QED
  BY <1>1, <1>2, <1>3 DEF Operador

LEMMA TiposHiloPaso ==
  ASSUME TiposConexion, TiposHilo, [Next]_vars
  PROVE  TiposHilo'
<1>1. ClientesNext => UNCHANGED <<hilo, pedido, pasada>>
  BY ClientesDejanUmv DEF locales
<1>2. Quieto => UNCHANGED <<hilo, pedido, pasada>>
  BY DEF Quieto, locales
<1> QED
  BY <1>1, <1>2, CasosDeNext, TiposHiloUmv, TiposHiloConexion, TiposHiloOperador, QuietoHilo

-----------------------------------------------------------------------------
LEMMA TiposListaPaso ==
  ASSUME TiposHilo, TiposLista, [Next]_vars
  PROVE  TiposLista'
<1>0. ASSUME UNCHANGED <<algoritmo, segmentos, borrados>>,
             UNCHANGED mutex \/ mutex' = 0 \/ mutex' = 1
      PROVE  TiposLista'
  BY <1>0 DEF TiposLista
<1>1. ASSUME NEW h \in HilosUmv, HiloUmv(h) PROVE TiposLista'
  <2>1. CASE Crea(h) /\ hilo[h] \in EnPasada
    <3>1. pedido[h] \in Mensajes /\ pedido[h].op = "CREAR_SEGMENTO"
      BY <2>1 DEF TiposHilo
    <3>2. <<pedido[h].pid, pedido[h].seg>> \in Pids \X (Segs \cup {"otro"})
      BY <3>1 DEF Mensajes
    <3> QED
      BY <2>1, <3>2 DEF Crea, Suelta, TiposLista, historia
  <2>2. CASE DestruirSegmento(h)
    <3>1. segmentos' \subseteq segmentos /\ mutex' = 0 /\ UNCHANGED algoritmo
      BY <2>2 DEF DestruirSegmento, Suelta
    <3>2. borrados' \subseteq borrados \cup {x[1] : x \in segmentos}
      BY <2>2 DEF DestruirSegmento, Borra
    <3>3. \A x \in segmentos : x[1] \in Pids
      BY DEF TiposLista
    <3> QED
      BY <3>1, <3>2, <3>3 DEF TiposLista
  <2>3. CASE CreaEn(h) \/ CreaAlFinal(h)
    BY <2>1, <2>3 DEF CreaEn, CreaAlFinal, EnPasada
  <2>4. CASE Entra(h) \/ Accede(h) \/ CaePorWorstFit(h) \/ PasaTest1(h) \/ PasaTest2(h)
             \/ MandaCompactar(h) \/ NoHayLugar(h) \/ NadieBusco(h)
             \/ EntraCompactacion(h) \/ SaleCompactacion(h)
    BY <1>0, <2>4 DEF Entra, Accede, CaePorWorstFit, PasaTest1, PasaTest2, MandaCompactar,
          NoHayLugar, NadieBusco, EntraCompactacion, SaleCompactacion, Suelta, Bloquea,
          compartido, historia
  <2> QED
    BY <1>1, <2>2, <2>3, <2>4 DEF HiloUmv
<1>2. ASSUME NEW c \in Conexiones, Conexion(c) PROVE TiposLista'
  BY <1>0, <1>2 DEF Conexion, LeeAviso, LeePedido, Rechaza, Cierra, compartido, historia
<1>3. CASE Operador
  BY <1>3 DEF Operador, ComandoOperacion, ComandoCompactar, ComandoAlgoritmo, Comando, TiposLista
<1>4. CASE ClientesNext
  BY <1>0, <1>4, ClientesDejanUmv DEF compartido, historia
<1>5. CASE Quieto
  BY <1>0, <1>5 DEF Quieto, compartido, historia
<1> QED
  BY <1>1, <1>2, <1>3, <1>4, <1>5, CasosDeNext

LEMMA BooleanosPaso ==
  ASSUME Booleanos, [Next]_vars
  PROVE  Booleanos'
<1>0. ASSUME UNCHANGED <<caida, suelta, basura>>, UNCHANGED cruzada PROVE Booleanos'
  BY <1>0 DEF Booleanos
<1>1. ASSUME NEW h \in HilosUmv, HiloUmv(h) PROVE Booleanos'
  <2>1. UNCHANGED cruzada /\ (caida' = TRUE \/ UNCHANGED caida)
    BY <1>1, Zenon
       DEF HiloUmv, Entra, Accede, DestruirSegmento, Borra, CreaEn, CaePorWorstFit, PasaTest1,
           PasaTest2, CreaAlFinal, Crea, MandaCompactar, NoHayLugar, NadieBusco,
           EntraCompactacion, SaleCompactacion, compartido
  <2>2. basura' = TRUE \/ UNCHANGED basura
    BY <1>1, Zenon
       DEF HiloUmv, Entra, Accede, DestruirSegmento, Borra, CreaEn, CaePorWorstFit, PasaTest1,
           PasaTest2, CreaAlFinal, Crea, MandaCompactar, NoHayLugar, NadieBusco, Sigue,
           OtraPasada, SeCaeDelFinal, EntraCompactacion, SaleCompactacion, historia
  <2>3. suelta' \in BOOLEAN
    BY <1>1, Zenon
       DEF HiloUmv, Entra, Accede, DestruirSegmento, Borra, CreaEn, CaePorWorstFit, PasaTest1,
           PasaTest2, CreaAlFinal, Crea, MandaCompactar, NoHayLugar, NadieBusco, Sigue,
           OtraPasada, SeCaeDelFinal, EntraCompactacion, SaleCompactacion, historia, Booleanos
  <2> QED
    BY <2>1, <2>2, <2>3, Zenon DEF Booleanos
<1>2. ASSUME NEW c \in Conexiones, Conexion(c) PROVE Booleanos'
  BY <1>0, <1>2 DEF Conexion, LeeAviso, LeePedido, Rechaza, Cierra, compartido, historia
<1>3. CASE Operador
  BY <1>0, <1>3 DEF Operador, ComandoOperacion, ComandoCompactar, ComandoAlgoritmo, Comando
<1>4. CASE ClientesNext
  <2>1. UNCHANGED <<caida, suelta, basura>>
    BY <1>4, ClientesDejanUmv DEF compartido, historia
  <2>2. ASSUME NEW t, \E ok \in BOOLEAN : RecibirCuerpo(t, ok) PROVE cruzada' \in BOOLEAN
    BY <2>2, Zenon DEF RecibirCuerpo
  <2>3. cruzada' \in BOOLEAN
    <3>1. CASE HiloPlp
      BY <1>0, <2>2, <3>1, Zenon
         DEF HiloPlp, CrearPCBPide, CrearPCBRecibe, Cliente, RecibirCabecera, Pierde, Booleanos
    <3>2. CASE HiloExit
      BY <2>2, <3>2, Zenon
         DEF HiloExit, VaciarColaExitPide, VaciarColaExitRecibe, Cliente, RecibirCabecera,
             Pierde, Booleanos
    <3>3. ASSUME NEW c \in Cpus, Cpu(c) \/ CaeCpu(c) PROVE cruzada' \in BOOLEAN
      BY <2>2, <3>3, Zenon
         DEF Cpu, HandshakeUMV, CpuRecibe, Cliente, RecibirCabecera, Pierde, TomaPcb, CpuPide,
             CpuDevuelve, CaeCpu, Booleanos
    <3>4. CASE \E p \in Pids : EmpiezaCrearPCB(p)
      BY <3>4, Zenon DEF EmpiezaCrearPCB, Booleanos
    <3> QED
      BY <1>4, <3>1, <3>2, <3>3, <3>4 DEF ClientesNext
  <2> QED
    BY <2>1, <2>3, Zenon DEF Booleanos
<1>5. CASE Quieto
  BY <1>0, <1>5 DEF Quieto, compartido, historia
<1> QED
  BY <1>1, <1>2, <1>3, <1>4, <1>5, CasosDeNext

LEMMA TiposPaso == Tipos /\ [Next]_vars => Tipos'
BY TiposClientesPaso, TiposFinalesPaso, TiposConexionPaso, TiposHiloPaso, TiposListaPaso,
   BooleanosPaso
   DEF Tipos

LEMMA TiposSiempre == Spec => []Tipos
BY TiposInit, TiposPaso, PTL DEF Spec

\* Every variable of the server and of its clients keeps to its type: no thread
\* of the Kernel asks for a program that is not there, no CPU goes past its
\* requests, and no thread of the UMV is anywhere but in crearSegmento,
\* compactacion, one operation or its recv.
THEOREM TipoCorrecto == Spec => []TypeOK
BY TiposSiempre, TiposDanTypeOK, PTL

-----------------------------------------------------------------------------
(* Mutual exclusion                                                        *)

\* the inductive form of Exclusion: whoever is on the list is alone there and
\* holds the mutex
Solo ==
  ~suelta =>
    /\ \A g, h \in Dentro : g = h
    /\ Dentro # {} => mutex = 1

LEMMA DentroEs ==
  /\ Dentro \subseteq HilosUmv
  /\ \A h \in HilosUmv :
       h \in Dentro <=> hilo[h] \in {"dentro", "test1", "test2", "resto", "compacta"}
BY DEF Dentro

\* one thread goes from hilo[h] to f: the rest are on the list if they were
LEMMA DentroDespues ==
  ASSUME TiposHilo, NEW h \in HilosUmv, NEW f, Va(h, f)
  PROVE  /\ Dentro' \subseteq HilosUmv
         /\ h \in Dentro' <=> f \in {"dentro", "test1", "test2", "resto", "compacta"}
         /\ \A g \in HilosUmv : g # h => (g \in Dentro' <=> g \in Dentro)
BY DEF Dentro, TiposHilo, Va

LEMMA SoloSale ==
  ASSUME TiposHilo, Solo, NEW h \in HilosUmv, NEW f, Va(h, f),
         f \notin {"dentro", "test1", "test2", "resto", "compacta"},
         UNCHANGED mutex \/ h \in Dentro, suelta => suelta'
  PROVE  Solo'
BY DentroDespues, DentroEs DEF Solo

LEMMA SoloEntra ==
  ASSUME TiposHilo, Solo, NEW h \in HilosUmv, NEW f, Va(h, f), Bloquea, suelta => suelta'
  PROVE  Solo'
BY DentroDespues, DentroEs DEF Solo, Bloquea

LEMMA SoloQueda ==
  ASSUME TiposHilo, Solo, NEW h \in HilosUmv, NEW f, Va(h, f), h \in Dentro,
         UNCHANGED mutex, suelta => suelta'
  PROVE  Solo'
BY DentroDespues, DentroEs DEF Solo

LEMMA SoloQuieto ==
  ASSUME Solo, UNCHANGED <<hilo, mutex, suelta>>
  PROVE  Solo'
BY DEF Solo, Dentro

\* the end of an operation: the thread leaves the list and opens the mutex, or
\* was not on it
LEMMA SoloTermina ==
  ASSUME TiposHilo, Solo, NEW h \in HilosUmv, Termina(h), UNCHANGED mutex \/ h \in Dentro,
         suelta => suelta'
  PROVE  Solo'
BY SoloSale DEF Termina

LEMMA SoloSigue ==
  ASSUME TiposHilo, Solo, NEW h \in HilosUmv, h \in Dentro, Sigue(h),
         UNCHANGED mutex \/ hilo[h] = "compacta"
  PROVE  Solo'
<1>1. CASE OtraPasada(h)
  <2>1. CASE hilo[h] = "compacta"
    BY <1>1, <2>1, Zenon DEF OtraPasada, Solo
  <2>2. CASE hilo[h] # "compacta"
    <3>1. Va(h, "test1")
      BY <1>1 DEF OtraPasada
    <3>2. suelta => suelta'
      BY <1>1, Zenon DEF OtraPasada
    <3> QED
      BY <2>2, <3>1, <3>2, SoloQueda
  <2> QED
    BY <2>1, <2>2
<1>2. CASE SeCaeDelFinal(h)
  BY <1>2, SoloTermina DEF SeCaeDelFinal
<1> QED
  BY <1>1, <1>2 DEF Sigue

LEMMA SoloUmv ==
  ASSUME TiposHilo, Solo, NEW h \in HilosUmv, HiloUmv(h)
  PROVE  Solo'
<1>0. hilo[h] \in {"dentro", "test1", "test2", "resto", "compacta"} => h \in Dentro
  BY DentroEs
<1>1. CASE Entra(h)
  <2>1. PICK f \in {"test1", "dentro"} : Va(h, f)
    BY <1>1 DEF Entra
  <2> QED
    BY <1>1, <2>1, SoloEntra DEF Entra, historia
<1>2. CASE Accede(h) \/ DestruirSegmento(h)
  BY <1>0, <1>2, SoloTermina DEF Accede, DestruirSegmento, Borra, historia
<1>3. CASE CreaEn(h) \/ CreaAlFinal(h) \/ NoHayLugar(h)
  <2>1. h \in Dentro
    BY <1>0, <1>3 DEF CreaEn, CreaAlFinal, NoHayLugar
  <2>2. Termina(h) /\ UNCHANGED suelta
    BY <1>3 DEF CreaEn, CreaAlFinal, Crea, NoHayLugar, historia
  <2> QED
    BY <2>1, <2>2, SoloTermina
<1>4. CASE CaePorWorstFit(h)
  BY <1>4, SoloQuieto DEF CaePorWorstFit, locales, historia
<1>5. CASE PasaTest1(h)
  BY <1>0, <1>5, SoloQueda DEF PasaTest1, compartido, historia
<1>6. CASE PasaTest2(h)
  BY <1>0, <1>6, SoloQueda DEF PasaTest2, compartido, historia
<1>7. CASE MandaCompactar(h)
  BY <1>0, <1>7, SoloSale DEF MandaCompactar, historia
<1>8. CASE NadieBusco(h)
  BY <1>0, <1>8, SoloSigue DEF NadieBusco, compartido
<1>9. CASE EntraCompactacion(h)
  BY <1>9, SoloEntra DEF EntraCompactacion, historia
<1>10. CASE SaleCompactacion(h)
  BY <1>0, <1>10, SoloSigue, SoloTermina DEF SaleCompactacion
<1> QED
  BY <1>1, <1>2, <1>3, <1>4, <1>5, <1>6, <1>7, <1>8, <1>9, <1>10 DEF HiloUmv

LEMMA SoloConexion ==
  ASSUME TiposHilo, Solo, NEW c \in Conexiones, Conexion(c)
  PROVE  Solo'
<1>0. c \in HilosUmv
  BY DEF HilosUmv
<1>1. CASE LeeAviso(c)
  BY <1>1, SoloQuieto DEF LeeAviso, compartido, historia
<1>2. CASE LeePedido(c)
  <2>1. PICK f \in {"mutex", "rechaza"} : Va(c, f)
    BY <1>2 DEF LeePedido
  <2> QED
    BY <1>0, <1>2, <2>1, SoloSale DEF LeePedido, compartido, historia
<1>3. CASE Rechaza(c)
  BY <1>0, <1>3, SoloTermina DEF Rechaza, compartido, historia
<1>4. CASE Cierra(c)
  BY <1>0, <1>4, SoloSale DEF Cierra, compartido, historia
<1> QED
  BY <1>1, <1>2, <1>3, <1>4 DEF Conexion

LEMMA SoloOperador ==
  ASSUME TiposHilo, Solo, Operador
  PROVE  Solo'
<1>1. ASSUME ComandoCompactar \/ \E op \in ConRespuesta, p \in Pids : ComandoOperacion(op, p)
      PROVE  Solo'
  <2>1. PICK f \in {"mutex", "compactar"} : Va(Consola, f)
    BY <1>1 DEF ComandoOperacion, ComandoCompactar
  <2>2. Consola \in HilosUmv
    BY DEF HilosUmv
  <2> QED
    BY <1>1, <2>1, <2>2, SoloSale DEF ComandoOperacion, ComandoCompactar, Comando
<1>2. ASSUME NEW a, ComandoAlgoritmo(a) PROVE Solo'
  BY <1>2, SoloQuieto DEF ComandoAlgoritmo, Comando
<1> QED
  BY <1>1, <1>2 DEF Operador

LEMMA SoloPaso ==
  ASSUME TiposHilo, Solo, [Next]_vars
  PROVE  Solo'
<1>1. ClientesNext => UNCHANGED <<hilo, mutex, suelta>>
  BY ClientesDejanUmv DEF locales, compartido, historia
<1>2. Quieto => UNCHANGED <<hilo, mutex, suelta>>
  BY DEF Quieto, locales, compartido, historia
<1> QED
  BY <1>1, <1>2, CasosDeNext, SoloUmv, SoloConexion, SoloOperador, SoloQuieto

LEMMA SoloInit == Init => Solo
BY DEF Init, Solo, Dentro

LEMMA SoloDaExclusion == TiposLista /\ Solo => Exclusion
<1> SUFFICES ASSUME TiposLista, Solo, ~suelta PROVE Cardinality(Dentro) <= mutex
  BY DEF Exclusion
<1>1. CASE Dentro = {}
  BY <1>1, FS_EmptySet DEF TiposLista
<1>2. ASSUME NEW g \in Dentro PROVE Cardinality(Dentro) <= mutex
  <2>1. Dentro = {g} /\ mutex = 1
    BY <1>2 DEF Solo
  <2>2. Cardinality({g}) = 1
    BY FS_Singleton
  <2> QED
    BY <2>1, <2>2
<1> QED
  BY <1>1, <1>2

LEMMA SoloSiempre == Spec => []Solo
<1>1. Init => Solo
  BY SoloInit
<1>2. Tipos /\ Solo /\ [Next]_vars => Solo'
  BY SoloPaso DEF Tipos
<1> QED
  BY <1>1, <1>2, TiposSiempre, PTL DEF Spec

\* Two threads of the UMV are on the list at once only after crearSegmento has
\* begun a second pass, whatever the number of connections: until then every
\* operation that touches the list has the mutex, and the ones that do not end
\* in a return keep it.
THEOREM ExclusionMutua == Spec => []Exclusion
<1>1. TiposLista /\ Solo => Exclusion
  BY SoloDaExclusion
<1>2. Tipos => TiposLista
  BY DEF Tipos
<1> QED
  BY <1>1, <1>2, TiposSiempre, SoloSiempre, PTL

-----------------------------------------------------------------------------
(* The connection of a CPU                                                 *)

\* p is the process after all the messages of q, when a is the one before
UltimoCambio(q, a, p) ==
  \/ \E i \in 1..Len(q) :
       /\ q[i].op = "CAMBIO_PROC_ACTIVO" /\ q[i].pid = p
       /\ \A j \in (i + 1)..Len(q) : q[j].op # "CAMBIO_PROC_ACTIVO"
  \/ a = p /\ \A j \in 1..Len(q) : q[j].op # "CAMBIO_PROC_ACTIVO"

\* e, p are espera and pcb of CPU c; q, r its ida and regreso; t, a, h, d the
\* tipo, activo, hilo and sender of the request at hand of its thread
CanalBien(c, e, p, q, r, t, a, h, d) ==
  /\ e # "perdida"
  /\ \A i \in 1..Len(q) :
       /\ q[i].de = c
       /\ q[i].op = "HANDSHAKE" => i = 1 /\ t = "-1"
       /\ q[i].op \in ConRespuesta =>
            i = Len(q) /\ e = "respuesta" /\ h = "escucha" /\ r = <<>>
  /\ e = "nueva" => q = <<>> /\ h = "escucha" /\ p = SinPid /\ r = <<>> /\ t = "-1"
  /\ t = "-1" /\ e # "nueva" => q # <<>> /\ q[1].op = "HANDSHAKE"
  /\ h # "escucha" => q = <<>> /\ e = "respuesta" /\ r = <<>> /\ d = c
  /\ e \in {"respuesta", "cuerpo"} => p # SinPid
  /\ e = "libre" => r = <<>>
  /\ e = "cuerpo" => Len(r) = 1 /\ r[1].parte = "cuerpo"
  /\ e = "respuesta" /\ r # <<>> =>
       Len(r) = 2 /\ r[1].parte = "cabecera" /\ r[2].parte = "cuerpo"
  /\ p # SinPid => UltimoCambio(q, a, p)

Canal(c) ==
  espera[c] # "muerta" =>
    CanalBien(c, espera[c], pcb[c], ida[c], regreso[c], tipo[c], activo[c], hilo[c],
              pedido[c].de)

Canales == \A c \in Cpus : Canal(c)

-----------------------------------------------------------------------------
(* The answers on their way                                                *)

Respuestas ==
  [parte : {"cabecera", "cuerpo"}, de : Clientes \cup {SinPid}, ok : BOOLEAN]

TiposRegreso == regreso \in [Conexiones -> Seq(Respuestas)]

\* what Responder adds to a connection
Respuesta(d, ok) ==
  <<[parte |-> "cabecera", de |-> d, ok |-> ok], [parte |-> "cuerpo", de |-> d, ok |-> ok]>>

LEMMA RespuestaTipo ==
  ASSUME NEW d \in Clientes \cup {SinPid}, NEW ok \in BOOLEAN
  PROVE  Respuesta(d, ok) \in Seq(Respuestas)
<1>1. [parte |-> "cabecera", de |-> d, ok |-> ok] \in Respuestas
  BY DEF Respuestas
<1>2. [parte |-> "cuerpo", de |-> d, ok |-> ok] \in Respuestas
  BY DEF Respuestas
<1> QED
  BY <1>1, <1>2 DEF Respuesta

LEMMA ResponderTipo ==
  ASSUME TiposHilo, TiposRegreso, NEW h \in HilosUmv, NEW ok \in BOOLEAN, Responder(h, ok)
  PROVE  TiposRegreso'
<1>1. CASE regreso' = regreso
  BY <1>1 DEF TiposRegreso
<1>2. CASE h \in Conexiones
  <2> DEFINE s == Respuesta(pedido[h].de, ok)
  <2>1. pedido[h].de \in Clientes \cup {SinPid}
    BY DEF TiposHilo, Mensajes
  <2>2. s \in Seq(Respuestas)
    BY <2>1, RespuestaTipo
  <2>3. UNCHANGED regreso \/ regreso' = [regreso EXCEPT ![h] = @ \o s]
    BY DEF Responder, Respuesta
  <2> HIDE DEF s
  <2>4. regreso[h] \o s \in Seq(Respuestas)
    BY <1>2, <2>2 DEF TiposRegreso
  <2> QED
    BY <1>1, <2>3, <2>4 DEF TiposRegreso
<1> QED
  BY <1>1, <1>2 DEF Responder, HilosUmv

LEMMA TiposRegresoPaso ==
  ASSUME TiposHilo, TiposRegreso, [Next]_vars
  PROVE  TiposRegreso'
<1>0. UNCHANGED regreso => TiposRegreso'
  BY DEF TiposRegreso
<1>1. ASSUME NEW t \in Clientes, regreso[Socket(t)] # <<>>,
             regreso' = [regreso EXCEPT ![Socket(t)] = Tail(@)]
      PROVE  TiposRegreso'
  <2>1. Tail(regreso[Socket(t)]) \in Seq(Respuestas)
    BY <1>1, SocketTipo DEF TiposRegreso
  <2> QED
    BY <1>1, <2>1 DEF TiposRegreso
<1>2. ASSUME NEW t \in Clientes, Cliente(t) \/ \E ok \in BOOLEAN : RecibirCuerpo(t, ok)
      PROVE  TiposRegreso'
  BY <1>1, <1>2 DEF Cliente, RecibirCabecera, Pierde, RecibirCuerpo
<1>3. ASSUME NEW h \in HilosUmv, HiloUmv(h) PROVE TiposRegreso'
  <2>1. CASE Accede(h)
    <3> DEFINE ok == <<Proceso(h), pedido[h].seg>> \in segmentos
    <3>1. Responder(h, ok) /\ ok \in BOOLEAN
      BY <2>1 DEF Accede
    <3> HIDE DEF ok
    <3> QED
      BY <3>1, ResponderTipo
  <2>2. CASE DestruirSegmento(h)
    BY <2>2, ResponderTipo DEF DestruirSegmento
  <2>3. CASE CreaEn(h) \/ CreaAlFinal(h) \/ NoHayLugar(h)
    BY <2>3, ResponderTipo DEF CreaEn, CreaAlFinal, Crea, NoHayLugar
  <2>4. Sigue(h) => TiposRegreso'
    BY <1>0, ResponderTipo DEF Sigue, OtraPasada, SeCaeDelFinal
  <2>5. CASE NadieBusco(h) \/ SaleCompactacion(h)
    BY <1>0, <2>4, <2>5 DEF NadieBusco, SaleCompactacion
  <2>6. CASE Entra(h) \/ CaePorWorstFit(h) \/ PasaTest1(h) \/ PasaTest2(h)
             \/ MandaCompactar(h) \/ EntraCompactacion(h)
    BY <1>0, <2>6 DEF Entra, CaePorWorstFit, PasaTest1, PasaTest2, MandaCompactar,
          EntraCompactacion, sockets
  <2> QED
    BY <1>3, <2>1, <2>2, <2>3, <2>5, <2>6 DEF HiloUmv
<1>4. ASSUME NEW c \in Conexiones, Conexion(c) PROVE TiposRegreso'
  <2>1. c \in HilosUmv
    BY DEF HilosUmv
  <2> QED
    BY <1>0, <1>4, <2>1, ResponderTipo DEF Conexion, LeeAviso, LeePedido, Rechaza, Cierra, sockets
<1>5. CASE Operador
  BY <1>0, <1>5 DEF Operador, ComandoOperacion, ComandoCompactar, ComandoAlgoritmo, Comando, sockets
<1>6. CASE ClientesNext
  <2>1. CASE HiloPlp
    BY <1>0, <1>2, <2>1, EsperaDistintas DEF HiloPlp, CrearPCBPide, CrearPCBRecibe
  <2>2. CASE HiloExit
    BY <1>0, <1>2, <2>2, EsperaDistintas DEF HiloExit, VaciarColaExitPide, VaciarColaExitRecibe
  <2>3. ASSUME NEW c \in Cpus, Cpu(c) \/ CaeCpu(c) PROVE TiposRegreso'
    <3>1. CASE CaeCpu(c)
      <4>1. regreso' = [regreso EXCEPT ![c] = <<>>] /\ <<>> \in Seq(Respuestas)
        BY <3>1 DEF CaeCpu
      <4> QED
        BY <4>1 DEF TiposRegreso
    <3>2. CASE CpuRecibe(c) \/ Cliente(c)
      BY <1>2, <3>2, EsperaDistintas DEF CpuRecibe
    <3>3. CASE ~(CaeCpu(c) \/ CpuRecibe(c) \/ Cliente(c))
      BY <1>0, <2>3, <3>3 DEF Cpu, HandshakeUMV, TomaPcb, CpuPide, CpuDevuelve, sockets
    <3> QED
      BY <3>1, <3>2, <3>3
  <2>4. CASE \E p \in Pids : EmpiezaCrearPCB(p)
    BY <1>0, <2>4 DEF EmpiezaCrearPCB, sockets
  <2> QED
    BY <1>6, <2>1, <2>2, <2>3, <2>4 DEF ClientesNext
<1>7. Quieto => UNCHANGED regreso
  BY DEF Quieto, sockets
<1> QED
  BY <1>0, <1>3, <1>4, <1>5, <1>6, <1>7, CasosDeNext

LEMMA TiposRegresoSiempre == Spec => []TiposRegreso
<1>1. Init => TiposRegreso
  BY DEF Init, TiposRegreso
<1>2. Tipos /\ TiposRegreso /\ [Next]_vars => TiposRegreso'
  BY TiposRegresoPaso DEF Tipos
<1> QED
  BY <1>1, <1>2, TiposSiempre, PTL DEF Spec

-----------------------------------------------------------------------------
(* The changes of process on their way                                     *)

LEMMA CambioAlFinal ==
  ASSUME NEW q \in Seq(Mensajes), NEW m \in Mensajes, NEW a, NEW p,
         IF m.op = "CAMBIO_PROC_ACTIVO" THEN m.pid = p ELSE UltimoCambio(q, a, p)
  PROVE  UltimoCambio(Append(q, m), a, p)
<1> DEFINE r == Append(q, m)
<1>1. r \in Seq(Mensajes) /\ Len(r) = Len(q) + 1 /\ r[Len(r)] = m
  OBVIOUS
<1>2. \A i \in 1..Len(q) : r[i] = q[i]
  OBVIOUS
<1>3. Len(q) \in Nat
  OBVIOUS
<1> HIDE DEF r
<1>4. CASE m.op = "CAMBIO_PROC_ACTIVO"
  BY <1>1, <1>3, <1>4 DEF UltimoCambio, r
<1>5. CASE m.op # "CAMBIO_PROC_ACTIVO" /\ UltimoCambio(q, a, p)
  <2>1. CASE a = p /\ \A j \in 1..Len(q) : q[j].op # "CAMBIO_PROC_ACTIVO"
    <3>1. \A j \in 1..Len(r) : r[j].op # "CAMBIO_PROC_ACTIVO"
      BY <1>1, <1>2, <1>3, <1>5, <2>1
    <3> QED
      BY <2>1, <3>1 DEF UltimoCambio, r
  <2>2. ASSUME NEW i \in 1..Len(q), q[i].op = "CAMBIO_PROC_ACTIVO", q[i].pid = p,
               \A j \in (i + 1)..Len(q) : q[j].op # "CAMBIO_PROC_ACTIVO"
        PROVE  UltimoCambio(r, a, p)
    <3>1. i \in 1..Len(r) /\ r[i] = q[i]
      BY <1>1, <1>2, <1>3, <2>2
    <3>2. \A j \in (i + 1)..Len(r) : r[j].op # "CAMBIO_PROC_ACTIVO"
      BY <1>1, <1>2, <1>3, <1>5, <2>2
    <3> QED
      BY <2>2, <3>1, <3>2 DEF UltimoCambio
  <2> QED
    BY <1>5, <2>1, <2>2 DEF UltimoCambio, r
<1> QED
  BY <1>4, <1>5 DEF r

LEMMA CambioAlPrincipio ==
  ASSUME NEW q \in Seq(Mensajes), q # <<>>, NEW a, NEW p, UltimoCambio(q, a, p)
  PROVE  UltimoCambio(Tail(q), IF q[1].op = "CAMBIO_PROC_ACTIVO" THEN q[1].pid ELSE a, p)
<1> DEFINE r == Tail(q)
           b == IF q[1].op = "CAMBIO_PROC_ACTIVO" THEN q[1].pid ELSE a
<1>1. Len(r) = Len(q) - 1 /\ Len(q) \in Nat /\ Len(q) >= 1
  OBVIOUS
<1>2. \A i \in 1..Len(r) : r[i] = q[i + 1]
  OBVIOUS
<1> HIDE DEF r
<1>3. CASE a = p /\ \A j \in 1..Len(q) : q[j].op # "CAMBIO_PROC_ACTIVO"
  <2>1. \A j \in 1..Len(r) : r[j].op # "CAMBIO_PROC_ACTIVO"
    BY <1>1, <1>2, <1>3
  <2>2. b = p
    BY <1>1, <1>3
  <2> QED
    BY <2>1, <2>2 DEF UltimoCambio, r
<1>4. ASSUME NEW i \in 1..Len(q), q[i].op = "CAMBIO_PROC_ACTIVO", q[i].pid = p,
             \A j \in (i + 1)..Len(q) : q[j].op # "CAMBIO_PROC_ACTIVO"
      PROVE  UltimoCambio(r, b, p)
  <2>1. \A j \in i..Len(r) : r[j].op # "CAMBIO_PROC_ACTIVO"
    <3> TAKE j \in i..Len(r)
    <3>1. j + 1 \in (i + 1)..Len(q) /\ j \in 1..Len(r)
      BY <1>1
    <3> QED
      BY <1>2, <1>4, <3>1
  <2>2. CASE i = 1
    BY <1>4, <2>1, <2>2 DEF UltimoCambio
  <2>3. CASE i # 1
    <3> DEFINE k == i - 1
    <3>1. k \in 1..Len(r) /\ r[k] = q[i] /\ k + 1 = i
      BY <1>1, <1>2, <2>3
    <3> HIDE DEF k
    <3> QED
      BY <1>4, <2>1, <3>1 DEF UltimoCambio
  <2> QED
    BY <2>2, <2>3
<1> QED
  BY <1>3, <1>4 DEF UltimoCambio, r

-----------------------------------------------------------------------------
(* What a step of either end does to a connection                          *)

\* the CPU sends a request
LEMMA CanalEnvia ==
  ASSUME NEW c, NEW e, NEW p, NEW q \in Seq(Mensajes), NEW r, NEW t, NEW a, NEW h, NEW d,
         CanalBien(c, e, p, q, r, t, a, h, d),
         NEW m \in Mensajes, m.de = c, NEW f, NEW x,
         f = (IF m.op \in ConRespuesta THEN "respuesta" ELSE "libre"),
         e = "nueva" => m.op = "HANDSHAKE" /\ x = p,
         e # "nueva" => e = "libre" /\ m.op # "HANDSHAKE",
         m.op \in ConRespuesta => p # SinPid,
         IF m.op = "CAMBIO_PROC_ACTIVO" THEN m.pid = x ELSE x = p
  PROVE  CanalBien(c, f, x, Append(q, m), r, t, a, h, d)
<1> DEFINE s == Append(q, m)
<1>1. s \in Seq(Mensajes) /\ Len(s) = Len(q) + 1 /\ s[Len(s)] = m /\ Len(q) \in Nat
  OBVIOUS
<1>2. \A i \in 1..Len(q) : s[i] = q[i]
  OBVIOUS
<1>3. "HANDSHAKE" \notin ConRespuesta
  BY DEF ConRespuesta
<1> HIDE DEF s
<1>4. h = "escucha" /\ r = <<>> /\ e \in {"nueva", "libre"}
  BY DEF CanalBien
<1>5. \A i \in 1..Len(q) : q[i].op \notin ConRespuesta
  BY <1>4 DEF CanalBien
<1>6. ASSUME NEW i \in 1..Len(s)
      PROVE  /\ s[i].de = c
             /\ s[i].op = "HANDSHAKE" => i = 1 /\ t = "-1"
             /\ s[i].op \in ConRespuesta =>
                  i = Len(s) /\ f = "respuesta" /\ h = "escucha" /\ r = <<>>
  <2>1. CASE i \in 1..Len(q)
    BY <1>2, <1>5, <2>1 DEF CanalBien
  <2>2. CASE i = Len(s)
    <3>1. m.op = "HANDSHAKE" => i = 1 /\ t = "-1"
      <4>1. ASSUME m.op = "HANDSHAKE" PROVE e = "nueva" /\ q = <<>> /\ t = "-1"
        BY <4>1 DEF CanalBien
      <4> QED
        BY <4>1, <1>1, <2>2
    <3> QED
      BY <1>1, <1>4, <2>2, <3>1
  <2> QED
    BY <1>1, <2>1, <2>2
<1>7. t = "-1" => s # <<>> /\ s[1].op = "HANDSHAKE"
  <2>1. CASE e = "nueva"
    <3>1. Len(q) = 0
      BY <2>1 DEF CanalBien
    <3> QED
      BY <1>1, <2>1, <3>1, SMTT(20)
  <2>2. CASE e # "nueva"
    <3> SUFFICES ASSUME t = "-1" PROVE s # <<>> /\ s[1].op = "HANDSHAKE"
      OBVIOUS
    <3>1. q # <<>> /\ q[1].op = "HANDSHAKE"
      BY <2>2 DEF CanalBien
    <3>2. 1 \in 1..Len(q)
      BY <3>1
    <3> QED
      BY <1>1, <1>2, <3>1, <3>2
  <2> QED
    BY <2>1, <2>2
<1>8. x # SinPid => UltimoCambio(s, a, x)
  <2>1. CASE m.op = "CAMBIO_PROC_ACTIVO"
    BY <2>1, CambioAlFinal DEF s
  <2>2. CASE m.op # "CAMBIO_PROC_ACTIVO" /\ p # SinPid
    <3>1. UltimoCambio(q, a, p)
      BY <2>2 DEF CanalBien
    <3> QED
      BY <2>2, <3>1, CambioAlFinal DEF s
  <2> QED
    BY <2>1, <2>2
<1>9. f = "respuesta" => x # SinPid
  <2>1. "CAMBIO_PROC_ACTIVO" \notin ConRespuesta
    BY DEF ConRespuesta
  <2> QED
    BY <2>1
<1> QED
  BY <1>4, <1>6, <1>7, <1>8, <1>9 DEF CanalBien, s

LEMMA ColaDe ==
  ASSUME NEW S, NEW r \in Seq(S), r # <<>>
  PROVE  /\ Head(r) = r[1] /\ Tail(r) \in Seq(S) /\ Len(Tail(r)) = Len(r) - 1
         /\ \A i \in 1..Len(Tail(r)) : Tail(r)[i] = r[i + 1]
         /\ Len(r) = 1 => Tail(r) = <<>>
OBVIOUS

\* the CPU reads the header of the answer: there is one whole
LEMMA CanalCabecera ==
  ASSUME NEW c, NEW e, NEW p, NEW q \in Seq(Mensajes), NEW r \in Seq(Respuestas), NEW t, NEW a,
         NEW h, NEW d, CanalBien(c, e, p, q, r, t, a, h, d), e = "respuesta", r # <<>>
  PROVE  /\ Head(r).parte = "cabecera"
         /\ CanalBien(c, "cuerpo", p, q, Tail(r), t, a, h, d)
<1> DEFINE s == Tail(r)
<1>1. Len(r) = 2 /\ r[1].parte = "cabecera" /\ r[2].parte = "cuerpo"
  BY DEF CanalBien
<1>2. Len(s) = 1 /\ s[1] = r[2] /\ Head(r) = r[1]
  <2>1. /\ Head(r) = r[1] /\ Len(s) = Len(r) - 1
        /\ \A i \in 1..Len(s) : s[i] = r[i + 1]
    BY ColaDe, Zenon
  <2>2. Len(s) = 1
    BY <1>1, <2>1
  <2> HIDE DEF s
  <2>3. 1 + 1 = 2 /\ 1 \in 1..1
    OBVIOUS
  <2>4. s[1] = r[1 + 1]
    BY <2>1, <2>2, <2>3, Zenon
  <2> QED
    BY <2>1, <2>2, <2>3, <2>4, Zenon
<1>3. \A i \in 1..Len(q) : q[i].op \notin ConRespuesta
  BY DEF CanalBien
<1> HIDE DEF s
<1> QED
  BY <1>1, <1>2, <1>3 DEF CanalBien, s

\* and its body: the process goes on or not
LEMMA CanalCuerpo ==
  ASSUME NEW c, NEW e, NEW p, NEW q \in Seq(Mensajes), NEW r \in Seq(Respuestas), NEW t, NEW a,
         NEW h, NEW d, CanalBien(c, e, p, q, r, t, a, h, d), e = "cuerpo",
         NEW x \in {p, SinPid}
  PROVE  /\ r # <<>> /\ Head(r).parte = "cuerpo"
         /\ CanalBien(c, "libre", x, q, Tail(r), t, a, h, d)
<1>1. Len(r) = 1 /\ r[1].parte = "cuerpo"
  BY DEF CanalBien
<1>2. Tail(r) = <<>> /\ Head(r) = r[1] /\ r # <<>>
  <2>1. r # <<>>
    BY <1>1
  <2>2. Tail(r) = <<>> /\ Head(r) = r[1]
    BY <1>1, <2>1, ColaDe, Zenon
  <2> QED
    BY <2>1, <2>2
<1>3. \A i \in 1..Len(q) : q[i].op \notin ConRespuesta
  BY DEF CanalBien
<1>4. h = "escucha"
  BY DEF CanalBien
<1> QED
  BY <1>1, <1>2, <1>3, <1>4 DEF CanalBien

LEMMA CanalDevuelve ==
  ASSUME NEW c, NEW p, NEW q, NEW r, NEW t, NEW a, NEW h, NEW d,
         CanalBien(c, "libre", p, q, r, t, a, h, d)
  PROVE  CanalBien(c, "libre", SinPid, q, r, t, a, h, d)
BY DEF CanalBien

\* the thread reads a message with no answer
LEMMA CanalAviso ==
  ASSUME NEW c, NEW e, NEW p, NEW q \in Seq(Mensajes), NEW r, NEW t, NEW a, NEW h, NEW d,
         CanalBien(c, e, p, q, r, t, a, h, d), q # <<>>, q[1].op \notin ConRespuesta,
         NEW u, NEW b,
         u = (IF q[1].op # "HANDSHAKE" THEN t ELSE "CPU"),
         b = (IF q[1].op = "CAMBIO_PROC_ACTIVO" /\ t # "-1" THEN q[1].pid ELSE a)
  PROVE  CanalBien(c, e, p, Tail(q), r, u, b, h, d)
<1> DEFINE s == Tail(q)
<1>1. Len(s) = Len(q) - 1 /\ Len(q) \in Nat /\ Len(q) >= 1
  OBVIOUS
<1>2. \A i \in 1..Len(s) : s[i] = q[i + 1]
  OBVIOUS
<1> HIDE DEF s
<1>3. e # "nueva" /\ h = "escucha"
  BY DEF CanalBien
<1>4. t = "-1" => q[1].op = "HANDSHAKE"
  BY <1>3 DEF CanalBien
<1>5. u # "-1"
  BY <1>4
<1>6. ASSUME NEW i \in 1..Len(s)
      PROVE  /\ s[i].de = c
             /\ s[i].op # "HANDSHAKE"
             /\ s[i].op \in ConRespuesta =>
                  i = Len(s) /\ e = "respuesta" /\ h = "escucha" /\ r = <<>>
  <2>1. i + 1 \in 1..Len(q) /\ i + 1 # 1 /\ (i + 1 = Len(q) => i = Len(s))
    BY <1>1
  <2> DEFINE k == i + 1
  <2>2. s[i] = q[k] /\ k \in 1..Len(q) /\ k # 1 /\ (k = Len(q) => i = Len(s))
    BY <1>2, <2>1
  <2> HIDE DEF k
  <2> QED
    BY <2>2 DEF CanalBien
<1>7. p # SinPid => UltimoCambio(s, b, p)
  <2>1. b = (IF q[1].op = "CAMBIO_PROC_ACTIVO" THEN q[1].pid ELSE a)
    BY <1>4
  <2>2. p # SinPid => UltimoCambio(q, a, p)
    BY DEF CanalBien
  <2> QED
    BY <2>1, <2>2, CambioAlPrincipio DEF s
<1>8. /\ e \in {"respuesta", "cuerpo"} => p # SinPid
      /\ e = "libre" => r = <<>>
      /\ e = "cuerpo" => Len(r) = 1 /\ r[1].parte = "cuerpo"
      /\ e = "respuesta" /\ r # <<>> =>
           Len(r) = 2 /\ r[1].parte = "cabecera" /\ r[2].parte = "cuerpo"
      /\ e # "perdida"
  BY DEF CanalBien
<1> QED
  BY <1>3, <1>5, <1>6, <1>7, <1>8 DEF CanalBien, s

\* the thread takes a request, the last message there is
LEMMA CanalPedido ==
  ASSUME NEW c, NEW e, NEW p, NEW q \in Seq(Mensajes), NEW r, NEW t, NEW a, NEW h, NEW d,
         CanalBien(c, e, p, q, r, t, a, h, d), q # <<>>, q[1].op \in ConRespuesta,
         NEW f
  PROVE  CanalBien(c, e, p, Tail(q), r, t, a, f, q[1].de)
<1>1. "HANDSHAKE" \notin ConRespuesta /\ "CAMBIO_PROC_ACTIVO" \notin ConRespuesta
  BY DEF ConRespuesta
<1>2. 1 \in 1..Len(q)
  OBVIOUS
<1>3. Len(q) = 1 /\ e = "respuesta" /\ r = <<>> /\ q[1].de = c
  BY <1>2 DEF CanalBien
<1>4. Tail(q) = <<>> /\ Len(q) = 1
  BY <1>3, ColaDe
<1>5. t # "-1"
  BY <1>1, <1>3 DEF CanalBien
<1>6. p # SinPid /\ UltimoCambio(q, a, p)
  BY <1>3 DEF CanalBien
<1>7. UltimoCambio(Tail(q), a, p)
  <2>1. q[1].op # "CAMBIO_PROC_ACTIVO"
    BY <1>1
  <2> QED
    BY <1>6, <2>1, CambioAlPrincipio
<1> DEFINE s == Tail(q)
           g == q[1].de
<1>8. s = <<>> /\ Len(s) = 0 /\ g = c /\ UltimoCambio(s, a, p)
  BY <1>3, <1>4, <1>7
<1> HIDE DEF s, g
<1>9. CanalBien(c, e, p, s, r, t, a, f, g)
  BY <1>3, <1>5, <1>6, <1>8 DEF CanalBien
<1> QED
  BY <1>9 DEF s, g

\* the thread goes from one part of an operation to another
LEMMA CanalMueve ==
  ASSUME NEW c, NEW e, NEW p, NEW q, NEW r, NEW t, NEW a, NEW h, NEW d,
         CanalBien(c, e, p, q, r, t, a, h, d), h # "escucha", NEW f
  PROVE  CanalBien(c, e, p, q, r, t, a, f, d)
<1>1. q = <<>>
  BY DEF CanalBien
<1>2. Len(q) = 0
  BY <1>1
<1> QED
  BY <1>2 DEF CanalBien

\* the thread answers, or the answer is for one that is gone
LEMMA CanalContesta ==
  ASSUME NEW c, NEW e, NEW p, NEW q, NEW r, NEW t, NEW a, NEW h, NEW d,
         CanalBien(c, e, p, q, r, t, a, h, d), h # "escucha",
         NEW x, NEW ok, NEW y
  PROVE  CanalBien(c, e, p, q, r \o Respuesta(x, ok), t, a, "escucha", y)
<1>1. q = <<>> /\ r = <<>> /\ e = "respuesta"
  BY DEF CanalBien
<1>2. Len(q) = 0
  BY <1>1
<1> DEFINE s == Respuesta(x, ok)
<1>3. Len(s) = 2 /\ s[1].parte = "cabecera" /\ s[2].parte = "cuerpo"
  BY DEF Respuesta
<1>4. r \o s = s
  BY <1>1 DEF Respuesta
<1> HIDE DEF s
<1> QED
  BY <1>1, <1>2, <1>3, <1>4 DEF CanalBien, s

-----------------------------------------------------------------------------
(* The steps of the system                                                 *)

\* what CanalBien says of c, before and after a step that leaves it alone
Intacto(c) ==
  /\ espera'[c] = espera[c] /\ pcb'[c] = pcb[c] /\ ida'[c] = ida[c]
  /\ regreso'[c] = regreso[c] /\ tipo'[c] = tipo[c] /\ activo'[c] = activo[c]
  /\ hilo'[c] = hilo[c] /\ pedido'[c].de = pedido[c].de

LEMMA CanalIntacto ==
  ASSUME NEW c \in Cpus, Canal(c), Intacto(c)
  PROVE  Canal(c)'
BY DEF Canal, Intacto

LEMMA UmvIntacta ==
  ASSUME ClientesNext, NEW c
  PROVE  tipo'[c] = tipo[c] /\ activo'[c] = activo[c] /\ hilo'[c] = hilo[c]
         /\ pedido'[c].de = pedido[c].de
BY ClientesDejanUmv DEF locales

LEMMA SocketDeOtro ==
  /\ \A c \in Cpus : Socket(c) = c
  /\ \A c \in Cpus, t \in Clientes : t # c => Socket(t) # c
BY ClientesAssumption DEF Socket

\* a request or an answer of another client
LEMMA OtroEnvia ==
  ASSUME TiposClientes, NEW c \in Cpus, NEW t \in Clientes, t # c,
         NEW op, NEW p, NEW s, EnviarOperacion(t, op, p, s)
  PROVE  espera'[c] = espera[c] /\ ida'[c] = ida[c]
BY SocketDeOtro, EsperaDistintas DEF EnviarOperacion, TiposClientes

LEMMA OtroRecibe ==
  ASSUME TiposClientes, NEW c \in Cpus, NEW t \in Clientes, t # c,
         Cliente(t) \/ \E ok \in BOOLEAN : RecibirCuerpo(t, ok)
  PROVE  espera'[c] = espera[c] /\ regreso'[c] = regreso[c]
<1>1. c \in Clientes /\ Socket(t) # c
  BY SocketDeOtro, EsperaDistintas
<1>2. regreso' = [regreso EXCEPT ![Socket(t)] = Tail(@)]
  BY DEF Cliente, RecibirCabecera, Pierde, RecibirCuerpo
<1>3. PICK e : espera' = [espera EXCEPT ![t] = e]
  BY DEF Cliente, RecibirCabecera, Pierde, RecibirCuerpo
<1> QED
  BY <1>1, <1>2, <1>3 DEF TiposClientes

LEMMA CanalKernel ==
  ASSUME Tipos, NEW c \in Cpus, Canal(c),
         HiloPlp \/ HiloExit \/ \E p \in Pids : EmpiezaCrearPCB(p)
  PROVE  Canal(c)'
<1>0. ClientesNext /\ c # Plp /\ c # Exit /\ TiposClientes
  BY EsperaDistintas DEF ClientesNext, Tipos
<1>1. espera'[c] = espera[c] /\ pcb'[c] = pcb[c] /\ ida'[c] = ida[c] /\ regreso'[c] = regreso[c]
  <2>1. CASE CrearPCBPide
    BY <1>0, <2>1, OtroEnvia, EsperaDistintas DEF CrearPCBPide
  <2>2. CASE CrearPCBRecibe
    BY <1>0, <2>2, OtroRecibe, EsperaDistintas DEF CrearPCBRecibe
  <2>3. CASE Cliente(Plp) \/ Cliente(Exit)
    <3>1. UNCHANGED <<pcb, ida>>
      BY <2>3 DEF Cliente, RecibirCabecera, Pierde
    <3> QED
      BY <1>0, <2>3, <3>1, OtroRecibe, EsperaDistintas
  <2>4. ASSUME NEW p \in Pids, VaciarColaExitPide(p)
        PROVE  espera'[c] = espera[c] /\ pcb'[c] = pcb[c] /\ ida'[c] = ida[c]
               /\ regreso'[c] = regreso[c]
    BY <1>0, <2>4, OtroEnvia, EsperaDistintas DEF VaciarColaExitPide
  <2>5. CASE VaciarColaExitRecibe
    BY <1>0, <2>5, OtroRecibe, EsperaDistintas DEF VaciarColaExitRecibe
  <2>6. CASE \E p \in Pids : EmpiezaCrearPCB(p)
    BY <2>6 DEF EmpiezaCrearPCB, sockets
  <2> QED
    BY <2>1, <2>2, <2>3, <2>4, <2>5, <2>6 DEF HiloPlp, HiloExit
<1> QED
  BY <1>0, <1>1, UmvIntacta, CanalIntacto DEF Intacto

LEMMA CanalOtraCpu ==
  ASSUME Tipos, NEW c \in Cpus, Canal(c), NEW b \in Cpus, b # c, Cpu(b) \/ CaeCpu(b)
  PROVE  Canal(c)'
<1>0. ClientesNext /\ TiposClientes /\ b \in Clientes
  BY EsperaDistintas DEF ClientesNext, Tipos
<1>1. pcb'[c] = pcb[c]
  BY <1>0 DEF Cpu, HandshakeUMV, CpuRecibe, Cliente, RecibirCabecera, Pierde, TomaPcb, CpuPide,
              CpuDevuelve, CaeCpu, TiposClientes
<1>2. espera'[c] = espera[c] /\ ida'[c] = ida[c] /\ regreso'[c] = regreso[c]
  <2>1. CASE HandshakeUMV(b)
    BY <1>0, <2>1, OtroEnvia DEF HandshakeUMV
  <2>2. CASE CpuRecibe(b)
    BY <1>0, <2>2, OtroRecibe DEF CpuRecibe
  <2>3. CASE Cliente(b)
    <3>1. UNCHANGED ida
      BY <2>3 DEF Cliente, RecibirCabecera, Pierde
    <3> QED
      BY <1>0, <2>3, <3>1, OtroRecibe
  <2>4. ASSUME NEW p \in Pids, TomaPcb(b, p)
        PROVE  espera'[c] = espera[c] /\ ida'[c] = ida[c] /\ regreso'[c] = regreso[c]
    BY <1>0, <2>4, OtroEnvia DEF TomaPcb
  <2>5. ASSUME NEW op, NEW s, CpuPide(b, op, s)
        PROVE  espera'[c] = espera[c] /\ ida'[c] = ida[c] /\ regreso'[c] = regreso[c]
    BY <1>0, <2>5, OtroEnvia DEF CpuPide
  <2>6. ASSUME NEW v, CpuDevuelve(b, v)
        PROVE  espera'[c] = espera[c] /\ ida'[c] = ida[c] /\ regreso'[c] = regreso[c]
    BY <2>6 DEF CpuDevuelve, sockets
  <2>7. CASE CaeCpu(b)
    BY <2>7, EsperaDistintas DEF CaeCpu, TiposClientes
  <2> QED
    BY <2>1, <2>2, <2>3, <2>4, <2>5, <2>6, <2>7 DEF Cpu
<1> QED
  BY <1>0, <1>1, <1>2, UmvIntacta, CanalIntacto DEF Intacto

\* the CPU sends: its process becomes x
LEMMA CanalEnviar ==
  ASSUME Tipos, NEW c \in Cpus, Canal(c), NEW op \in Ops, NEW p, NEW s, NEW x,
         EnviarOperacion(c, op, p, s), Mensaje(op, p, s, c) \in Mensajes,
         ClientesNext, regreso'[c] = regreso[c], pcb'[c] = x,
         espera[c] = "nueva" => op = "HANDSHAKE" /\ x = pcb[c],
         espera[c] # "nueva" => op # "HANDSHAKE",
         op \in ConRespuesta => pcb[c] # SinPid,
         IF op = "CAMBIO_PROC_ACTIVO" THEN p = x ELSE x = pcb[c]
  PROVE  Canal(c)'
<1> DEFINE m == Mensaje(op, p, s, c)
           f == IF op \in ConRespuesta THEN "respuesta" ELSE "libre"
<1>1. m.op = op /\ m.pid = p /\ m.de = c
  BY DEF Mensaje
<1>2. c \in Clientes /\ Socket(c) = c /\ c \in Conexiones
  BY EsperaDistintas, SocketDeOtro DEF Conexiones
<1>3. espera[c] \in {"nueva", "libre"} /\ ida[c] \in Seq(Mensajes)
  BY <1>2 DEF EnviarOperacion, Tipos, TiposConexion
<1>4. ida'[c] = Append(ida[c], m) /\ espera'[c] = f
  BY <1>2 DEF EnviarOperacion, Tipos, TiposConexion, TiposClientes
<1>5. CanalBien(c, espera[c], pcb[c], ida[c], regreso[c], tipo[c], activo[c], hilo[c],
                pedido[c].de)
  BY <1>3 DEF Canal
<1>6. m \in Mensajes
  OBVIOUS
<1>7. f = IF m.op \in ConRespuesta THEN "respuesta" ELSE "libre"
  BY <1>1
<1> HIDE DEF m, f
<1>8. CanalBien(c, f, x, Append(ida[c], m), regreso[c], tipo[c], activo[c], hilo[c],
                pedido[c].de)
  BY <1>1, <1>3, <1>5, <1>6, <1>7, CanalEnvia
<1> QED
  BY <1>4, <1>8, UmvIntacta DEF Canal

\* the CPU reads the body of the answer, and its process becomes x
LEMMA CanalRecibir ==
  ASSUME Tipos, TiposRegreso, NEW c \in Cpus, Canal(c), CpuRecibe(c)
  PROVE  Canal(c)'
<1>1. c \in Clientes /\ Socket(c) = c /\ c \in Conexiones /\ ClientesNext
  BY EsperaDistintas, SocketDeOtro DEF Conexiones, ClientesNext, Cpu
<1>2. /\ espera[c] = "cuerpo" /\ espera' = [espera EXCEPT ![c] = "libre"]
      /\ regreso' = [regreso EXCEPT ![c] = Tail(@)] /\ ida' = ida
      /\ pcb' = pcb \/ pcb' = [pcb EXCEPT ![c] = SinPid]
  BY <1>1 DEF CpuRecibe, RecibirCuerpo
<1>3. pcb'[c] \in {pcb[c], SinPid} /\ espera'[c] = "libre" /\ regreso'[c] = Tail(regreso[c])
  BY <1>1, <1>2 DEF Tipos, TiposClientes, TiposRegreso
<1>4. CanalBien(c, espera[c], pcb[c], ida[c], regreso[c], tipo[c], activo[c], hilo[c],
                pedido[c].de)
  BY <1>2 DEF Canal
<1>5. ida[c] \in Seq(Mensajes) /\ regreso[c] \in Seq(Respuestas)
  BY <1>1 DEF Tipos, TiposConexion, TiposRegreso
<1>6. CanalBien(c, "libre", pcb'[c], ida[c], Tail(regreso[c]), tipo[c], activo[c], hilo[c],
                pedido[c].de)
  BY <1>2, <1>3, <1>4, <1>5, CanalCuerpo
<1> QED
  BY <1>1, <1>2, <1>3, <1>6, UmvIntacta DEF Canal

LEMMA CanalLeerCabecera ==
  ASSUME Tipos, TiposRegreso, NEW c \in Cpus, Canal(c), Cliente(c)
  PROVE  Canal(c)'
<1>1. c \in Clientes /\ Socket(c) = c /\ c \in Conexiones /\ ClientesNext
  BY EsperaDistintas, SocketDeOtro DEF Conexiones, ClientesNext, Cpu
<1>2. /\ espera[c] \in {"respuesta", "cuerpo"} /\ regreso[c] # <<>>
      /\ UNCHANGED <<ida, pcb>> /\ regreso' = [regreso EXCEPT ![c] = Tail(@)]
  BY <1>1 DEF Cliente, RecibirCabecera, Pierde
<1>3. CanalBien(c, espera[c], pcb[c], ida[c], regreso[c], tipo[c], activo[c], hilo[c],
                pedido[c].de)
  BY <1>2 DEF Canal
<1>4. ida[c] \in Seq(Mensajes) /\ regreso[c] \in Seq(Respuestas)
  BY <1>1 DEF Tipos, TiposConexion, TiposRegreso
<1>5. CASE espera[c] = "respuesta"
  <2>1. /\ Head(regreso[c]).parte = "cabecera"
        /\ CanalBien(c, "cuerpo", pcb[c], ida[c], Tail(regreso[c]), tipo[c], activo[c], hilo[c],
                     pedido[c].de)
    BY <1>2, <1>3, <1>4, <1>5, CanalCabecera
  <2>2. espera' = [espera EXCEPT ![c] = "cuerpo"]
    BY <1>1, <1>5, <2>1 DEF Cliente, RecibirCabecera, Pierde
  <2>3. espera'[c] = "cuerpo" /\ regreso'[c] = Tail(regreso[c])
    BY <1>1, <1>2, <2>2 DEF Tipos, TiposClientes, TiposRegreso
  <2> QED
    BY <1>1, <1>2, <2>1, <2>3, UmvIntacta DEF Canal
<1>6. CASE espera[c] = "cuerpo"
  <2>1. Head(regreso[c]).parte = "cuerpo"
    BY <1>3, <1>4, <1>6, CanalCuerpo
  <2>2. Head(regreso[c]).parte = "cabecera"
    BY <1>1, <1>6 DEF Cliente, RecibirCabecera, Pierde
  <2> QED
    BY <2>1, <2>2
<1> QED
  BY <1>2, <1>5, <1>6

LEMMA CanalEstaCpu ==
  ASSUME Tipos, TiposRegreso, NEW c \in Cpus, Canal(c), Cpu(c) \/ CaeCpu(c)
  PROVE  Canal(c)'
<1>0. ClientesNext /\ c \in Clientes /\ c \in Cpus
  BY EsperaDistintas DEF ClientesNext
<1>1. CASE HandshakeUMV(c)
  <2>1. Mensaje("HANDSHAKE", SinPid, "nada", c) \in Mensajes
    BY <1>0, MensajeTipo, NombresSon DEF Ops
  <2>2. "HANDSHAKE" \notin ConRespuesta /\ "HANDSHAKE" \in Ops
    BY DEF ConRespuesta, Ops
  <2>3. /\ EnviarOperacion(c, "HANDSHAKE", SinPid, "nada") /\ espera[c] = "nueva"
        /\ UNCHANGED <<pcb, regreso>>
    BY <1>1 DEF HandshakeUMV
  <2> QED
    BY <1>0, <2>1, <2>2, <2>3, CanalEnviar
<1>2. ASSUME NEW p \in Pids, TomaPcb(c, p) PROVE Canal(c)'
  <2>1. Mensaje("CAMBIO_PROC_ACTIVO", p, "nada", c) \in Mensajes
    BY <1>0, MensajeTipo, NombresSon DEF Ops
  <2>2. "CAMBIO_PROC_ACTIVO" \notin ConRespuesta /\ "CAMBIO_PROC_ACTIVO" \in Ops
    BY DEF ConRespuesta, Ops
  <2>3. /\ EnviarOperacion(c, "CAMBIO_PROC_ACTIVO", p, "nada") /\ espera[c] = "libre"
        /\ UNCHANGED regreso /\ pcb' = [pcb EXCEPT ![c] = p]
    BY <1>2 DEF TomaPcb
  <2>4. pcb'[c] = p
    BY <1>0, <2>3 DEF Tipos, TiposClientes
  <2> QED
    BY <1>0, <2>1, <2>2, <2>3, <2>4, CanalEnviar
<1>3. ASSUME NEW op \in {"SOLICITAR_BYTES", "ENVIAR_BYTES"}, NEW s \in Segs \cup {"fuera"},
             CpuPide(c, op, s)
      PROVE  Canal(c)'
  <2>1. pcb[c] \in Pids /\ pcb[c] # SinPid
    BY <1>0, <1>3 DEF CpuPide, Tipos, TiposClientes
  <2>2. Mensaje(op, pcb[c], s, c) \in Mensajes /\ op \in Ops
    BY <1>0, <2>1, MensajeTipo, NombresSon DEF Ops, ConRespuesta
  <2>3. /\ EnviarOperacion(c, op, pcb[c], s) /\ espera[c] = "libre"
        /\ UNCHANGED <<pcb, regreso>>
    BY <1>3 DEF CpuPide
  <2> QED
    BY <1>0, <2>1, <2>2, <2>3, CanalEnviar
<1>4. CASE CpuRecibe(c)
  BY <1>4, CanalRecibir
<1>5. CASE Cliente(c)
  BY <1>5, CanalLeerCabecera
<1>6. ASSUME NEW v, CpuDevuelve(c, v) PROVE Canal(c)'
  <2>1. espera[c] = "libre" /\ UNCHANGED <<espera, ida, regreso>> /\ pcb'[c] = SinPid
    BY <1>0, <1>6 DEF CpuDevuelve, sockets, Tipos, TiposClientes
  <2>2. CanalBien(c, "libre", pcb[c], ida[c], regreso[c], tipo[c], activo[c], hilo[c],
                  pedido[c].de)
    BY <2>1 DEF Canal
  <2>3. CanalBien(c, "libre", SinPid, ida[c], regreso[c], tipo[c], activo[c], hilo[c],
                  pedido[c].de)
    BY <2>2, CanalDevuelve
  <2> QED
    BY <1>0, <2>1, <2>3, UmvIntacta DEF Canal
<1>7. CASE CaeCpu(c)
  BY <1>0, <1>7 DEF CaeCpu, Canal, Tipos, TiposClientes
<1>8. {"stack", "fuera"} \subseteq Segs \cup {"fuera"}
  BY DEF Segs
<1> QED
  BY <1>1, <1>2, <1>3, <1>4, <1>5, <1>6, <1>7, <1>8 DEF Cpu

\* the answer of thread h to its own connection and to another
LEMMA CanalResponde ==
  ASSUME Tipos, TiposRegreso, NEW c \in Cpus, Canal(c), NEW h \in HilosUmv, hilo[h] # "escucha",
         Termina(h), NEW ok, Responder(h, ok), UNCHANGED <<clientes, ida, tipo, activo>>
  PROVE  Canal(c)'
<1>1. c \in HilosUmv /\ c \in Conexiones /\ c # Consola
  BY ClientesAssumption DEF HilosUmv, Conexiones
<1>2. hilo' = [hilo EXCEPT ![h] = "escucha"] /\ pedido' = [pedido EXCEPT ![h] = Ninguno]
  BY DEF Termina, Va
<1>3. UNCHANGED <<espera, pcb>>
  BY DEF clientes
<1>4. CASE h # c
  <2>1. regreso'[c] = regreso[c]
    BY <1>4 DEF Responder
  <2>2. hilo'[c] = hilo[c] /\ pedido'[c] = pedido[c]
    BY <1>1, <1>2, <1>4 DEF Tipos, TiposHilo
  <2> QED
    BY <1>3, <2>1, <2>2, CanalIntacto DEF Intacto
<1>5. CASE h = c
  <2> SUFFICES ASSUME espera[c] # "muerta" PROVE Canal(c)'
    BY <1>3 DEF Canal
  <2>1. CanalBien(c, espera[c], pcb[c], ida[c], regreso[c], tipo[c], activo[c], hilo[c],
                  pedido[c].de)
    BY DEF Canal
  <2>2. pedido[c].de = c
    BY <1>5, <2>1 DEF CanalBien
  <2>3. regreso' = [regreso EXCEPT ![c] = @ \o Respuesta(pedido[c].de, ok)]
    BY <1>1, <1>5, <2>2 DEF Responder, Respuesta
  <2>4. regreso'[c] = regreso[c] \o Respuesta(pedido[c].de, ok)
    BY <1>1, <2>3 DEF TiposRegreso
  <2>5. hilo'[c] = "escucha"
    BY <1>1, <1>2, <1>5 DEF Tipos, TiposHilo
  <2>6. CanalBien(c, espera[c], pcb[c], ida[c], regreso[c] \o Respuesta(pedido[c].de, ok),
                  tipo[c], activo[c], "escucha", pedido'[c].de)
    BY <1>5, <2>1, CanalContesta
  <2> QED
    BY <1>3, <2>4, <2>5, <2>6 DEF Canal
<1> QED
  BY <1>4, <1>5

\* thread h moves on in an operation
LEMMA CanalAvanza ==
  ASSUME Tipos, NEW c \in Cpus, Canal(c), NEW h \in HilosUmv, hilo[h] # "escucha" \/ h \notin Cpus,
         NEW f, Va(h, f), UNCHANGED <<clientes, sockets, tipo, activo>>,
         UNCHANGED pedido \/ h \notin Cpus,
         \A g \in HilosUmv : g # h => pedido'[g] = pedido[g]
  PROVE  Canal(c)'
<1>1. c \in HilosUmv
  BY DEF HilosUmv, Conexiones
<1>2. UNCHANGED <<espera, pcb, ida, regreso>>
  BY DEF clientes, sockets
<1>3. CASE h # c
  BY <1>1, <1>2, <1>3, CanalIntacto DEF Intacto, Va, Tipos, TiposHilo
<1>4. CASE h = c
  <2>1. hilo'[c] = f /\ UNCHANGED pedido
    BY <1>1, <1>4 DEF Va, Tipos, TiposHilo
  <2> SUFFICES ASSUME espera[c] # "muerta" PROVE Canal(c)'
    BY <1>2 DEF Canal
  <2>2. CanalBien(c, espera[c], pcb[c], ida[c], regreso[c], tipo[c], activo[c], hilo[c],
                  pedido[c].de)
    BY DEF Canal
  <2>3. CanalBien(c, espera[c], pcb[c], ida[c], regreso[c], tipo[c], activo[c], f,
                  pedido[c].de)
    BY <1>4, <2>2, CanalMueve
  <2> QED
    BY <1>2, <2>1, <2>3 DEF Canal
<1> QED
  BY <1>3, <1>4

\* the end of crearSegmento or of compactacion with no answer
LEMMA CanalCalla ==
  ASSUME Tipos, NEW c \in Cpus, Canal(c), NEW h \in HilosUmv, hilo[h] # "escucha",
         Termina(h), UNCHANGED <<clientes, sockets, tipo, activo>>
  PROVE  Canal(c)'
<1>1. c \in HilosUmv
  BY DEF HilosUmv, Conexiones
<1>2. UNCHANGED <<espera, pcb, ida, regreso>>
  BY DEF clientes, sockets
<1>3. hilo' = [hilo EXCEPT ![h] = "escucha"] /\ pedido' = [pedido EXCEPT ![h] = Ninguno]
  BY DEF Termina, Va
<1>4. CASE h # c
  BY <1>1, <1>2, <1>3, <1>4, CanalIntacto DEF Intacto, Tipos, TiposHilo
<1>5. CASE h = c
  <2> SUFFICES ASSUME espera[c] # "muerta" PROVE Canal(c)'
    BY <1>2 DEF Canal
  <2>1. hilo'[c] = "escucha"
    BY <1>1, <1>3, <1>5 DEF Tipos, TiposHilo
  <2> DEFINE y == pedido'[c].de
  <2>2. CanalBien(c, espera[c], pcb[c], ida[c], regreso[c], tipo[c], activo[c], hilo[c],
                  pedido[c].de)
    BY DEF Canal
  <2>3. ida[c] = <<>>
    BY <1>5, <2>2 DEF CanalBien
  <2>4. Len(ida[c]) = 0
    BY <2>3
  <2> HIDE DEF y
  <2>5. CanalBien(c, espera[c], pcb[c], ida[c], regreso[c], tipo[c], activo[c], "escucha", y)
    BY <2>2, <2>3, <2>4 DEF CanalBien
  <2> QED
    BY <1>2, <2>1, <2>5 DEF Canal, y
<1> QED
  BY <1>4, <1>5

LEMMA CanalUmv ==
  ASSUME Tipos, TiposRegreso, NEW c \in Cpus, Canal(c), NEW h \in HilosUmv, HiloUmv(h)
  PROVE  Canal(c)'
<1>0. UNCHANGED clientes
  BY UmvDejaClientes
<1>1. Sigue(h) /\ UNCHANGED <<clientes, ida, tipo, activo>> /\ hilo[h] # "escucha" => Canal(c)'
  <2>1. CASE OtraPasada(h) /\ UNCHANGED <<clientes, ida, tipo, activo>> /\ hilo[h] # "escucha"
    BY <2>1, CanalAvanza DEF OtraPasada, sockets
  <2>2. CASE SeCaeDelFinal(h) /\ UNCHANGED <<clientes, ida, tipo, activo>> /\ hilo[h] # "escucha"
    BY <2>2, CanalResponde DEF SeCaeDelFinal
  <2> QED
    BY <2>1, <2>2 DEF Sigue
<1>2. CASE Accede(h) \/ DestruirSegmento(h)
  BY <1>2, CanalResponde DEF Accede, DestruirSegmento
<1>3. CASE CreaEn(h) \/ CreaAlFinal(h) \/ NoHayLugar(h)
  BY <1>3, CanalResponde DEF CreaEn, CreaAlFinal, Crea, NoHayLugar
<1>4. CASE NadieBusco(h)
  BY <1>1, <1>4 DEF NadieBusco
<1>5. CASE SaleCompactacion(h)
  <2>1. CASE pedido[h].op = "COMPACTACION"
    BY <1>5, <2>1, CanalCalla DEF SaleCompactacion, sockets
  <2>2. CASE pedido[h].op # "COMPACTACION"
    BY <1>1, <1>5, <2>2 DEF SaleCompactacion
  <2> QED
    BY <2>1, <2>2
<1>6. CASE CaePorWorstFit(h)
  BY <1>0, <1>6, CanalIntacto DEF CaePorWorstFit, Intacto, clientes, sockets, locales
<1>7. CASE Entra(h)
  <2>1. PICK f \in {"test1", "dentro"} : Va(h, f)
    BY <1>7 DEF Entra
  <2> QED
    BY <1>7, <2>1, CanalAvanza DEF Entra
<1>8. CASE PasaTest1(h) \/ PasaTest2(h)
  BY <1>8, CanalAvanza DEF PasaTest1, PasaTest2
<1>9. CASE MandaCompactar(h) \/ EntraCompactacion(h)
  BY <1>9, CanalAvanza DEF MandaCompactar, EntraCompactacion
<1> QED
  BY <1>2, <1>3, <1>4, <1>5, <1>6, <1>7, <1>8, <1>9 DEF HiloUmv

LEMMA CanalLee ==
  ASSUME Tipos, NEW c \in Cpus, Canal(c), LeeAviso(c) \/ LeePedido(c)
  PROVE  Canal(c)'
<1>1. c \in HilosUmv /\ c \in Conexiones /\ c # Kernel
  BY ClientesAssumption DEF HilosUmv, Conexiones
<1>2. UNCHANGED <<espera, pcb, regreso>> /\ ida' = [ida EXCEPT ![c] = Tail(@)] /\ ida[c] # <<>>
  BY DEF LeeAviso, LeePedido, clientes
<1>3. ida[c] \in Seq(Mensajes) /\ ida'[c] = Tail(ida[c])
  BY <1>1, <1>2 DEF Tipos, TiposConexion
<1>4. Head(ida[c]) = ida[c][1]
  BY <1>2, <1>3
<1> SUFFICES ASSUME espera[c] # "muerta" PROVE Canal(c)'
  BY <1>2 DEF Canal
<1>5. CanalBien(c, espera[c], pcb[c], ida[c], regreso[c], tipo[c], activo[c], hilo[c],
                pedido[c].de)
  BY DEF Canal
<1>6. CASE LeeAviso(c)
  <2> DEFINE u == IF ida[c][1].op # "HANDSHAKE" THEN tipo[c] ELSE "CPU"
             b == IF ida[c][1].op = "CAMBIO_PROC_ACTIVO" /\ tipo[c] # "-1"
                    THEN ida[c][1].pid ELSE activo[c]
  <2>1. tipo'[c] = u
    BY <1>1, <1>4, <1>6 DEF LeeAviso, Tipos, TiposConexion
  <2>2. activo'[c] = b
    BY <1>1, <1>4, <1>6 DEF LeeAviso, Tipos, TiposConexion
  <2>3. ida[c][1].op \notin ConRespuesta /\ UNCHANGED <<hilo, pedido>>
    BY <1>4, <1>6 DEF LeeAviso
  <2>4. CanalBien(c, espera[c], pcb[c], Tail(ida[c]), regreso[c], u, b, hilo[c], pedido[c].de)
    BY <1>2, <1>3, <1>5, <2>3, CanalAviso
  <2> HIDE DEF u, b
  <2> QED
    BY <1>2, <1>3, <2>1, <2>2, <2>3, <2>4 DEF Canal
<1>7. CASE LeePedido(c)
  <2>1. ida[c][1].op \in ConRespuesta /\ UNCHANGED <<tipo, activo>>
        /\ pedido' = [pedido EXCEPT ![c] = ida[c][1]]
    BY <1>4, <1>7 DEF LeePedido
  <2>2. PICK f : hilo' = [hilo EXCEPT ![c] = f]
    BY <1>7 DEF LeePedido, Va
  <2>3. hilo'[c] = f /\ pedido'[c] = ida[c][1]
    BY <1>1, <2>1, <2>2 DEF Tipos, TiposHilo
  <2>4. CanalBien(c, espera[c], pcb[c], Tail(ida[c]), regreso[c], tipo[c], activo[c], f,
                  ida[c][1].de)
    BY <1>2, <1>3, <1>5, <2>1, CanalPedido
  <2> QED
    BY <1>2, <1>3, <2>1, <2>3, <2>4 DEF Canal
<1> QED
  BY <1>6, <1>7

LEMMA CanalConexion ==
  ASSUME Tipos, TiposRegreso, NEW c \in Cpus, Canal(c), NEW b \in Conexiones, Conexion(b)
  PROVE  Canal(c)'
<1>1. c \in HilosUmv /\ c \in Conexiones /\ b \in HilosUmv
  BY DEF HilosUmv, Conexiones
<1>2. CASE (LeeAviso(b) \/ LeePedido(b)) /\ b = c
  BY <1>2, CanalLee
<1>3. CASE (LeeAviso(b) \/ LeePedido(b)) /\ b # c
  <2>1. UNCHANGED <<espera, pcb, regreso>>
    BY <1>3 DEF LeeAviso, LeePedido, clientes
  <2>2. ida'[c] = ida[c] /\ tipo'[c] = tipo[c] /\ activo'[c] = activo[c]
    BY <1>1, <1>3 DEF LeeAviso, LeePedido, Tipos, TiposConexion
  <2>3. hilo'[c] = hilo[c] /\ pedido'[c] = pedido[c]
    BY <1>1, <1>3 DEF LeeAviso, LeePedido, Va, Tipos, TiposHilo
  <2> QED
    BY <2>1, <2>2, <2>3, CanalIntacto DEF Intacto
<1>4. CASE Rechaza(b)
  BY <1>1, <1>4, CanalResponde DEF Rechaza
<1>5. CASE Cierra(b)
  <2>1. CASE b = c
    <3>1. espera[c] = "muerta" /\ UNCHANGED espera
      BY <1>5, <2>1 DEF Cierra, clientes
    <3> QED
      BY <3>1 DEF Canal
  <2>2. CASE b # c
    <3>1. UNCHANGED <<clientes, sockets, tipo, activo, pedido>>
          /\ hilo' = [hilo EXCEPT ![b] = "cerrado"]
      BY <1>5 DEF Cierra, Va
    <3>2. hilo'[c] = hilo[c]
      BY <1>1, <2>2, <3>1 DEF Tipos, TiposHilo
    <3> QED
      BY <3>1, <3>2, CanalIntacto DEF Intacto, clientes, sockets
  <2> QED
    BY <2>1, <2>2
<1> QED
  BY <1>2, <1>3, <1>4, <1>5 DEF Conexion

LEMMA CanalOperador ==
  ASSUME Tipos, NEW c \in Cpus, Canal(c), Operador
  PROVE  Canal(c)'
<1>1. c \in HilosUmv /\ c # Consola
  BY ClientesAssumption DEF HilosUmv, Conexiones
<1>2. UNCHANGED <<clientes, sockets, tipo, activo>>
  BY DEF Operador, ComandoOperacion, ComandoCompactar, ComandoAlgoritmo, Comando
<1>3. hilo'[c] = hilo[c] /\ pedido'[c] = pedido[c]
  <2>1. ASSUME ComandoCompactar \/ \E op \in ConRespuesta, p \in Pids : ComandoOperacion(op, p)
        PROVE  hilo'[c] = hilo[c] /\ pedido'[c] = pedido[c]
    BY <1>1, <2>1 DEF ComandoOperacion, ComandoCompactar, Va, Tipos, TiposHilo
  <2>2. ASSUME NEW a, ComandoAlgoritmo(a)
        PROVE  hilo'[c] = hilo[c] /\ pedido'[c] = pedido[c]
    BY <2>2 DEF ComandoAlgoritmo
  <2> QED
    BY <2>1, <2>2 DEF Operador
<1> QED
  BY <1>2, <1>3, CanalIntacto DEF Intacto, clientes, sockets

LEMMA CanalesPaso ==
  ASSUME Tipos, TiposRegreso, Canales, [Next]_vars
  PROVE  Canales'
<1> SUFFICES ASSUME NEW c \in Cpus PROVE Canal(c)'
  BY DEF Canales
<1>0. Canal(c)
  BY DEF Canales
<1>1. ASSUME NEW h \in HilosUmv, HiloUmv(h) PROVE Canal(c)'
  BY <1>0, <1>1, CanalUmv
<1>2. ASSUME NEW b \in Conexiones, Conexion(b) PROVE Canal(c)'
  BY <1>0, <1>2, CanalConexion
<1>3. CASE Operador
  BY <1>0, <1>3, CanalOperador
<1>4. CASE ClientesNext
  <2>1. ASSUME NEW b \in Cpus, Cpu(b) \/ CaeCpu(b) PROVE Canal(c)'
    BY <1>0, <2>1, CanalEstaCpu, CanalOtraCpu
  <2> QED
    BY <1>0, <1>4, <2>1, CanalKernel DEF ClientesNext
<1>5. CASE Quieto
  BY <1>0, <1>5, CanalIntacto DEF Quieto, sockets, locales, Intacto
<1> QED
  BY <1>1, <1>2, <1>3, <1>4, <1>5, CasosDeNext

LEMMA CanalesInit == Init => Canales
<1> SUFFICES ASSUME Init, NEW c \in Cpus PROVE Canal(c)
  BY DEF Canales
<1>1. c \in Clientes /\ c \in Conexiones /\ c \in HilosUmv
  BY EsperaDistintas DEF Conexiones, HilosUmv
<1>2. espera[c] = "nueva" /\ pcb[c] = SinPid /\ ida[c] = <<>> /\ regreso[c] = <<>>
      /\ tipo[c] = "-1" /\ hilo[c] = "escucha"
  BY <1>1 DEF Init
<1>3. Len(ida[c]) = 0
  BY <1>2
<1> QED
  BY <1>2, <1>3 DEF Canal, CanalBien

LEMMA CanalesAtienden == Canales => AtiendeAlProceso
<1> SUFFICES ASSUME NEW c \in Cpus, Canal(c), hilo[c] = "dentro", espera[c] # "muerta"
             PROVE  activo[c] = pcb[c]
  BY DEF Canales, AtiendeAlProceso
<1>1. ida[c] = <<>> /\ pcb[c] # SinPid /\ UltimoCambio(ida[c], activo[c], pcb[c])
  BY DEF Canal, CanalBien
<1>2. Len(ida[c]) = 0
  BY <1>1
<1> QED
  BY <1>1, <1>2 DEF UltimoCambio

\* Whoever reads or writes bytes does it as the process its client runs now:
\* the CPU has no request in flight when it changes its process, and the change
\* reaches the thread before the next request of the new one.
THEOREM AtiendeBien == Spec => []AtiendeAlProceso
<1>1. Init => Canales
  BY CanalesInit
<1>2. Tipos /\ TiposRegreso /\ Canales /\ [Next]_vars => Canales'
  BY CanalesPaso
<1>3. Canales => AtiendeAlProceso
  BY CanalesAtienden
<1> QED
  BY <1>1, <1>2, <1>3, TiposSiempre, TiposRegresoSiempre, PTL DEF Spec

-----------------------------------------------------------------------------
(* What the connections carry                                              *)

Sin(q, X) == \A i \in 1..Len(q) : q[i] \notin X
Uno(q, X) == \A i, j \in 1..Len(q) : q[i] \in X /\ q[j] \in X => i = j
Todos(q, X) == \A i \in 1..Len(q) : q[i] \in X

LEMMA AlAgregar ==
  ASSUME NEW S, NEW q \in Seq(S), NEW m \in S, NEW X
  PROVE  /\ Sin(q, X) /\ m \notin X => Sin(Append(q, m), X)
         /\ Uno(q, X) /\ (m \notin X \/ Sin(q, X)) => Uno(Append(q, m), X)
         /\ Todos(q, X) /\ m \in X => Todos(Append(q, m), X)
<1> DEFINE r == Append(q, m)
           n == Len(q)
<1>1. /\ Len(r) = n + 1 /\ n \in Nat /\ r[n + 1] = m
      /\ \A i \in 1..n : r[i] = q[i]
  OBVIOUS
<1> HIDE DEF r, n
<1>2. \A i \in 1..(n + 1) : i \in 1..n \/ i = n + 1
  BY <1>1
<1>3. Sin(q, X) /\ m \notin X => Sin(r, X)
  BY <1>1, <1>2 DEF Sin, n
<1>4. Uno(q, X) /\ (m \notin X \/ Sin(q, X)) => Uno(r, X)
  BY <1>1, <1>2 DEF Sin, Uno, n
<1>5. Todos(q, X) /\ m \in X => Todos(r, X)
  BY <1>1, <1>2 DEF Todos, n
<1> QED
  BY <1>3, <1>4, <1>5 DEF r

LEMMA AlSacar ==
  ASSUME NEW S, NEW q \in Seq(S), q # <<>>, NEW X
  PROVE  /\ Sin(q, X) => Sin(Tail(q), X) /\ Head(q) \notin X
         /\ Uno(q, X) => Uno(Tail(q), X)
         /\ Uno(q, X) /\ Head(q) \in X => Sin(Tail(q), X)
         /\ Todos(q, X) => Todos(Tail(q), X) /\ Head(q) \in X
<1> DEFINE r == Tail(q)
           n == Len(q)
<1>1. /\ n \in Nat \ {0} /\ Len(r) = n - 1 /\ Head(q) = q[1]
      /\ \A i \in 1..(n - 1) : r[i] = q[i + 1]
  OBVIOUS
<1> HIDE DEF r, n
<1>2. 1 \in 1..n /\ \A i \in 1..(n - 1) : i + 1 \in 1..n /\ i + 1 # 1
  BY <1>1
<1>3. Sin(q, X) => Sin(r, X) /\ Head(q) \notin X
  BY <1>1, <1>2 DEF Sin, n
<1>4. Uno(q, X) => Uno(r, X)
  <2> SUFFICES ASSUME Uno(q, X), NEW i \in 1..(n - 1), NEW j \in 1..(n - 1),
                      r[i] \in X, r[j] \in X
               PROVE  i = j
    BY <1>1 DEF Uno
  <2>1. i + 1 = j + 1
    BY <1>1, <1>2 DEF Uno, n
  <2> QED
    BY <2>1
<1>5. Uno(q, X) /\ Head(q) \in X => Sin(r, X)
  BY <1>1, <1>2 DEF Uno, Sin, n
<1>6. Todos(q, X) => Todos(r, X) /\ Head(q) \in X
  BY <1>1, <1>2 DEF Todos, n
<1> QED
  BY <1>3, <1>4, <1>5, <1>6 DEF r

\* an answer puts a header and a body at the end
LEMMA AlResponder ==
  ASSUME NEW q \in Seq(Respuestas), NEW d \in Clientes \cup {SinPid}, NEW ok \in BOOLEAN, NEW X,
         [parte |-> "cabecera", de |-> d, ok |-> ok] \notin X
  PROVE  LET b == [parte |-> "cuerpo", de |-> d, ok |-> ok]
         IN  /\ Sin(q, X) /\ b \notin X => Sin(q \o Respuesta(d, ok), X)
             /\ Uno(q, X) /\ (b \notin X \/ Sin(q, X)) => Uno(q \o Respuesta(d, ok), X)
<1> DEFINE a == [parte |-> "cabecera", de |-> d, ok |-> ok]
           b == [parte |-> "cuerpo", de |-> d, ok |-> ok]
<1>1. a \in Respuestas /\ b \in Respuestas
  BY DEF Respuestas
<1> HIDE DEF a, b
<1>2. q \o <<a, b>> = Append(Append(q, a), b) /\ Append(q, a) \in Seq(Respuestas)
  BY <1>1
<1>3. Respuesta(d, ok) = <<a, b>>
  BY DEF Respuesta, a, b
<1>4. a \notin X
  BY DEF a
<1>5. /\ Sin(q, X) => Sin(Append(q, a), X)
      /\ Uno(q, X) => Uno(Append(q, a), X)
  BY <1>1, <1>4, AlAgregar
<1>6. /\ Sin(Append(q, a), X) /\ b \notin X => Sin(Append(Append(q, a), b), X)
      /\ Uno(Append(q, a), X) /\ (b \notin X \/ Sin(Append(q, a), X))
           => Uno(Append(Append(q, a), b), X)
  BY <1>1, <1>2, AlAgregar
<1> QED
  BY <1>2, <1>3, <1>5, <1>6 DEF b

LEMMA AlResponderTodos ==
  ASSUME NEW q \in Seq(Respuestas), NEW d \in Clientes \cup {SinPid}, NEW ok \in BOOLEAN, NEW X,
         [parte |-> "cabecera", de |-> d, ok |-> ok] \in X,
         [parte |-> "cuerpo", de |-> d, ok |-> ok] \in X, Todos(q, X)
  PROVE  Todos(q \o Respuesta(d, ok), X)
<1> DEFINE a == [parte |-> "cabecera", de |-> d, ok |-> ok]
           b == [parte |-> "cuerpo", de |-> d, ok |-> ok]
<1>1. a \in Respuestas /\ b \in Respuestas
  BY DEF Respuestas
<1>4. a \in X /\ b \in X
  OBVIOUS
<1> HIDE DEF a, b
<1>2. q \o <<a, b>> = Append(Append(q, a), b) /\ Append(q, a) \in Seq(Respuestas)
  BY <1>1
<1>3. Respuesta(d, ok) = <<a, b>>
  BY DEF Respuesta, a, b
<1>5. Todos(Append(q, a), X)
  BY <1>1, <1>4, AlAgregar
<1>6. Todos(Append(Append(q, a), b), X)
  BY <1>1, <1>2, <1>4, <1>5, AlAgregar
<1> QED
  BY <1>2, <1>3, <1>6

-----------------------------------------------------------------------------
(* The steps of the threads of the UMV, by what they do to the connections  *)

\* thread h goes on with its operation
Avanza(h) ==
  /\ hilo[h] \notin {"escucha", "cerrado", "rechaza"}
  /\ \E f \in EnCrear \cup {"dentro"} :
       Va(h, f) /\ (f # "dentro" => hilo[h] \in EnCrear \/ pedido[h].op = "CREAR_SEGMENTO")
  /\ UNCHANGED <<pedido, regreso, segmentos>>

\* it ends the operation and answers
Contesta(h, ok) ==
  /\ hilo[h] \notin {"escucha", "cerrado"}
  /\ Termina(h) /\ Responder(h, ok)

\* or ends it in silence
Calla(h) ==
  /\ hilo[h] \notin {"escucha", "cerrado"}
  /\ Termina(h) /\ UNCHANGED <<regreso, segmentos>>

LEMMA UmvDejaLaIda ==
  ASSUME NEW h \in HilosUmv, HiloUmv(h)
  PROVE  UNCHANGED <<ida, tipo, activo, cruzada>>
BY DEF HiloUmv, Entra, Accede, DestruirSegmento, CreaEn, CaePorWorstFit, PasaTest1,
       PasaTest2, CreaAlFinal, Crea, MandaCompactar, NoHayLugar, NadieBusco,
       EntraCompactacion, SaleCompactacion, locales, sockets

\* a step of an operation that is not the end of crearSegmento without a return
LEMMA PasosDeUmv ==
  ASSUME TiposHilo, NEW h \in HilosUmv, HiloUmv(h)
  PROVE  \/ Avanza(h)
         \/ UNCHANGED <<hilo, pedido, regreso, segmentos>>
         \/ Calla(h)
         \/ Accede(h)
         \/ DestruirSegmento(h)
         \/ Crea(h) /\ hilo[h] \in EnCrear
         \/ Contesta(h, FALSE) /\ hilo[h] = "resto" /\ UNCHANGED segmentos
         \/ SeCaeDelFinal(h) /\ hilo[h] \in EnCrear
<1>1. CASE Entra(h)
  BY <1>1 DEF Entra, Avanza, EnCrear, EnPasada, sockets, Va
<1>2. CASE Accede(h) \/ DestruirSegmento(h)
  BY <1>2
<1>3. CASE CreaEn(h) \/ CreaAlFinal(h)
  BY <1>3 DEF CreaEn, CreaAlFinal, EnCrear, EnPasada
<1>4. CASE CaePorWorstFit(h)
  BY <1>4 DEF CaePorWorstFit, sockets, locales
<1>5. CASE PasaTest1(h) \/ PasaTest2(h)
  BY <1>5 DEF PasaTest1, PasaTest2, Avanza, EnCrear, EnPasada, sockets, compartido
<1>6. CASE MandaCompactar(h) \/ EntraCompactacion(h)
  BY <1>6 DEF MandaCompactar, EntraCompactacion, Avanza, EnCrear, EnPasada, sockets
<1>7. CASE NoHayLugar(h)
  BY <1>7 DEF NoHayLugar, Contesta
<1>8. ASSUME Sigue(h), hilo[h] \in EnCrear, UNCHANGED segmentos
      PROVE  Avanza(h) \/ SeCaeDelFinal(h)
  BY <1>8 DEF Sigue, OtraPasada, Avanza, EnCrear, EnPasada
<1>9. CASE NadieBusco(h)
  BY <1>8, <1>9 DEF NadieBusco, EnCrear, EnPasada, compartido
<1>10. CASE SaleCompactacion(h)
  BY <1>8, <1>10 DEF SaleCompactacion, Calla, EnCrear, EnPasada
<1> QED
  BY <1>1, <1>2, <1>3, <1>4, <1>5, <1>6, <1>7, <1>9, <1>10 DEF HiloUmv

-----------------------------------------------------------------------------
(* Who asks for what                                                       *)

\* what a CPU sends, and the Kernel
DeCpu(c) ==
  {m \in Mensajes :
     /\ m.op \in {"HANDSHAKE", "CAMBIO_PROC_ACTIVO", "SOLICITAR_BYTES", "ENVIAR_BYTES"}
     /\ m.op \in ConRespuesta => m.seg \in Segs \cup {"fuera"}
     /\ m.de = c}
DelKernel == {m \in Mensajes : m.de \in HilosKernel}

OrigenCpu(c) ==
  /\ Todos(ida[c], DeCpu(c))
  /\ hilo[c] \notin {"escucha", "cerrado"} =>
       /\ pedido[c] \in DeCpu(c) /\ pedido[c].op \in ConRespuesta
       /\ hilo[c] \in {"mutex", "dentro", "rechaza"}
  /\ hilo[c] = "rechaza" => tipo[c] = "-1"

OrigenKernel ==
  /\ Todos(ida[Kernel], DelKernel)
  /\ hilo[Kernel] # "cerrado"
  /\ hilo[Kernel] # "escucha" =>
       pedido[Kernel] \in DelKernel /\ pedido[Kernel].op \in ConRespuesta

Origenes == (\A c \in Cpus : OrigenCpu(c)) /\ OrigenKernel

LEMMA HilosDistintos ==
  /\ \A c \in Cpus : c # Kernel /\ c # Consola /\ c \in Conexiones /\ c \in HilosUmv
  /\ Kernel # Consola /\ Kernel \in Conexiones /\ Kernel \in HilosUmv /\ Consola \in HilosUmv
  /\ \A h \in HilosUmv : h \in Cpus \/ h = Kernel \/ h = Consola
  /\ Conexiones \subseteq HilosUmv /\ \A c \in Conexiones : c \in Cpus \/ c = Kernel
BY ClientesAssumption DEF Conexiones, HilosUmv

LEMMA TodosVacia == ASSUME NEW X PROVE Todos(<<>>, X)
BY DEF Todos

LEMMA OrigenesInit == Init => Origenes
<1> SUFFICES ASSUME Init PROVE Origenes
  OBVIOUS
<1>1. ASSUME NEW c \in Cpus PROVE OrigenCpu(c)
  <2>1. ida[c] = <<>> /\ hilo[c] = "escucha"
    BY HilosDistintos DEF Init
  <2> QED
    BY <2>1, TodosVacia DEF OrigenCpu
<1>2. ida[Kernel] = <<>> /\ hilo[Kernel] = "escucha"
  BY HilosDistintos DEF Init
<1>3. OrigenKernel
  BY <1>2, TodosVacia DEF OrigenKernel
<1> QED
  BY <1>1, <1>3 DEF Origenes

\* what a thread has at hand, in terms of h: where it is, m: its request
OrigenHilo(t) ==
  /\ t \in Cpus => OrigenCpu(t)
  /\ t = Kernel => OrigenKernel

LEMMA OrigenesEs == Origenes <=> \A t \in HilosUmv : OrigenHilo(t)
BY HilosDistintos DEF Origenes, OrigenHilo

LEMMA OrigenIntacto ==
  ASSUME NEW t \in HilosUmv, OrigenHilo(t),
         t \in Conexiones => ida'[t] = ida[t] /\ tipo'[t] = tipo[t],
         hilo'[t] = hilo[t], pedido'[t] = pedido[t]
  PROVE  OrigenHilo(t)'
BY HilosDistintos DEF OrigenHilo, OrigenCpu, OrigenKernel

LEMMA OrigenTermina ==
  ASSUME TiposHilo, NEW t \in HilosUmv, OrigenHilo(t), Termina(t), UNCHANGED <<ida, tipo>>
  PROVE  OrigenHilo(t)'
<1>1. hilo'[t] = "escucha"
  BY DEF Termina, Va, TiposHilo
<1> QED
  BY <1>1, HilosDistintos DEF OrigenHilo, OrigenCpu, OrigenKernel

LEMMA OrigenAvanza ==
  ASSUME TiposHilo, NEW t \in HilosUmv, OrigenHilo(t), Avanza(t), UNCHANGED <<ida, tipo>>
  PROVE  OrigenHilo(t)'
<1>1. PICK f \in EnCrear \cup {"dentro"} :
        Va(t, f) /\ (f # "dentro" => hilo[t] \in EnCrear \/ pedido[t].op = "CREAR_SEGMENTO")
  BY DEF Avanza
<1>2. hilo'[t] = f /\ UNCHANGED pedido /\ hilo[t] \notin {"escucha", "cerrado", "rechaza"}
  BY <1>1 DEF Va, TiposHilo, Avanza
<1>3. f \notin {"escucha", "cerrado", "rechaza"}
  BY DEF EnCrear, EnPasada
<1>4. t \in Cpus => f = "dentro"
  BY <1>1, <1>2 DEF OrigenHilo, OrigenCpu, DeCpu, EnCrear, EnPasada, ConRespuesta
<1> QED
  BY <1>2, <1>3, <1>4, HilosDistintos DEF OrigenHilo, OrigenCpu, OrigenKernel

LEMMA OrigenUmv ==
  ASSUME TiposHilo, Origenes, NEW h \in HilosUmv, HiloUmv(h)
  PROVE  Origenes'
<1>0. UNCHANGED <<ida, tipo>>
  BY UmvDejaLaIda
<1>1. Termina(h) \/ Avanza(h) \/ UNCHANGED <<hilo, pedido>>
  BY PasosDeUmv DEF Calla, Accede, DestruirSegmento, Crea, Contesta, SeCaeDelFinal
<1> SUFFICES ASSUME NEW t \in HilosUmv PROVE OrigenHilo(t)'
  BY HilosDistintos DEF Origenes, OrigenHilo
<1>2. OrigenHilo(t)
  BY OrigenesEs
<1>3. CASE t = h
  BY <1>0, <1>1, <1>2, <1>3, OrigenTermina, OrigenAvanza, OrigenIntacto
<1>4. CASE t # h
  <2>1. hilo'[t] = hilo[t] /\ pedido'[t] = pedido[t]
    BY <1>1, <1>4 DEF Termina, Avanza, Va, TiposHilo
  <2> QED
    BY <1>0, <1>2, <2>1, OrigenIntacto
<1> QED
  BY <1>3, <1>4

LEMMA OrigenConexion ==
  ASSUME Tipos, Origenes, NEW c \in Conexiones, Conexion(c)
  PROVE  Origenes'
<1>0. TiposHilo /\ TiposConexion /\ c \in HilosUmv
  BY HilosDistintos DEF Tipos
<1>1. ida[c] \in Seq(Mensajes)
  BY <1>0 DEF TiposConexion
<1> SUFFICES ASSUME NEW t \in HilosUmv PROVE OrigenHilo(t)'
  BY HilosDistintos DEF Origenes, OrigenHilo
<1>2. OrigenHilo(t)
  BY OrigenesEs
<1>3. CASE t # c
  <2>1. hilo'[t] = hilo[t] /\ pedido'[t] = pedido[t]
    BY <1>0, <1>3 DEF Conexion, LeeAviso, LeePedido, Rechaza, Cierra, Termina, Va, TiposHilo
  <2>2. t \in Conexiones => ida'[t] = ida[t] /\ tipo'[t] = tipo[t]
    BY <1>0, <1>3 DEF Conexion, LeeAviso, LeePedido, Rechaza, Cierra, TiposConexion, sockets
  <2> QED
    BY <1>2, <2>1, <2>2, OrigenIntacto
<1>4. ASSUME t = c, ida[c] # <<>>, ida' = [ida EXCEPT ![c] = Tail(@)]
      PROVE  /\ ida'[c] = Tail(ida[c])
             /\ t \in Cpus => Todos(ida'[c], DeCpu(c)) /\ Head(ida[c]) \in DeCpu(c)
             /\ t = Kernel => Todos(ida'[c], DelKernel) /\ Head(ida[c]) \in DelKernel
  <2>1. ida'[c] = Tail(ida[c])
    BY <1>0, <1>4 DEF TiposConexion
  <2>2. ASSUME t \in Cpus PROVE Todos(ida'[c], DeCpu(c)) /\ Head(ida[c]) \in DeCpu(c)
    BY <1>1, <1>2, <1>4, <2>1, <2>2, AlSacar DEF OrigenHilo, OrigenCpu
  <2>3. ASSUME t = Kernel PROVE Todos(ida'[c], DelKernel) /\ Head(ida[c]) \in DelKernel
    BY <1>1, <1>2, <1>4, <2>1, <2>3, AlSacar DEF OrigenHilo, OrigenKernel
  <2> QED
    BY <2>1, <2>2, <2>3
<1>5. CASE t = c /\ LeeAviso(c)
  <2>1. hilo[c] = "escucha" /\ UNCHANGED <<hilo, pedido>>
        /\ ida[c] # <<>> /\ ida' = [ida EXCEPT ![c] = Tail(@)]
    BY <1>5 DEF LeeAviso
  <2>2. /\ t \in Cpus => Todos(ida'[c], DeCpu(c))
        /\ t = Kernel => Todos(ida'[c], DelKernel)
    BY <1>4, <1>5, <2>1
  <2>3. CASE c \in Cpus
    BY <1>5, <2>1, <2>2, <2>3, HilosDistintos DEF OrigenHilo, OrigenCpu
  <2>4. CASE c = Kernel
    BY <1>5, <2>1, <2>2, <2>4, HilosDistintos DEF OrigenHilo, OrigenKernel
  <2> QED
    BY <2>3, <2>4, HilosDistintos
<1>6. CASE t = c /\ LeePedido(c)
  <2> DEFINE m == Head(ida[c])
  <2>1. /\ m.op \in ConRespuesta /\ hilo[c] = "escucha" /\ UNCHANGED tipo
        /\ hilo'[c] = IF Permitido(c, m.op) THEN "mutex" ELSE "rechaza"
        /\ pedido'[c] = m
    BY <1>0, <1>6 DEF LeePedido, Va, TiposHilo
  <2>2. t \in Cpus /\ m \in DeCpu(c) => m.op \notin {"CREAR_SEGMENTO", "DESTRUIR_SEGMENTO"}
    BY DEF DeCpu
  <2>3. ida[c] # <<>> /\ ida' = [ida EXCEPT ![c] = Tail(@)]
    BY <1>6 DEF LeePedido
  <2>4. /\ t \in Cpus => Todos(ida'[c], DeCpu(c)) /\ m \in DeCpu(c)
        /\ t = Kernel => Todos(ida'[c], DelKernel) /\ m \in DelKernel
    BY <1>4, <1>6, <2>3
  <2>5. t \in Cpus /\ hilo'[c] = "rechaza" => tipo'[c] = "-1"
    BY <2>1, <2>2, <2>4 DEF Permitido
  <2> HIDE DEF m
  <2>6. CASE c \in Cpus
    BY <1>6, <2>1, <2>4, <2>5, <2>6, HilosDistintos DEF OrigenHilo, OrigenCpu
  <2>7. CASE c = Kernel
    BY <1>6, <2>1, <2>4, <2>7, HilosDistintos DEF OrigenHilo, OrigenKernel
  <2> QED
    BY <2>6, <2>7, HilosDistintos
<1>7. CASE t = c /\ Rechaza(c)
  BY <1>0, <1>2, <1>7, OrigenTermina DEF Rechaza
<1>8. CASE t = c /\ Cierra(c)
  <2>1. hilo'[c] = "cerrado" /\ c \in Cpus /\ UNCHANGED ida
    BY <1>0, <1>8 DEF Cierra, Va, TiposHilo, sockets
  <2> QED
    BY <1>2, <1>8, <2>1, HilosDistintos DEF OrigenHilo, OrigenCpu
<1> QED
  BY <1>3, <1>5, <1>6, <1>7, <1>8 DEF Conexion

LEMMA OrigenOperador ==
  ASSUME TiposHilo, Origenes, Operador
  PROVE  Origenes'
<1>0. UNCHANGED <<ida, tipo>>
  BY DEF Operador, ComandoOperacion, ComandoCompactar, ComandoAlgoritmo, Comando, sockets
<1> SUFFICES ASSUME NEW t \in HilosUmv PROVE OrigenHilo(t)'
  BY HilosDistintos DEF Origenes, OrigenHilo
<1>1. OrigenHilo(t)
  BY OrigenesEs
<1>2. ASSUME NEW a, ComandoAlgoritmo(a) PROVE OrigenHilo(t)'
  BY <1>0, <1>1, <1>2, OrigenIntacto DEF ComandoAlgoritmo
<1>3. ASSUME ComandoCompactar \/ \E op \in ConRespuesta, p \in Pids : ComandoOperacion(op, p)
      PROVE  OrigenHilo(t)'
  <2>1. CASE t = Consola
    BY <2>1, HilosDistintos DEF OrigenHilo
  <2>2. CASE t # Consola
    <3>1. hilo'[t] = hilo[t] /\ pedido'[t] = pedido[t]
      BY <1>3, <2>2 DEF ComandoOperacion, ComandoCompactar, Va, TiposHilo
    <3> QED
      BY <1>0, <1>1, <3>1, OrigenIntacto
  <2> QED
    BY <2>1, <2>2
<1> QED
  BY <1>2, <1>3 DEF Operador

\* a client sends: t, its connection q, and the message m
LEMMA OrigenEnvia ==
  ASSUME Tipos, Origenes, ClientesNext, NEW t \in Clientes, NEW op, NEW p, NEW s,
         EnviarOperacion(t, op, p, s), Mensaje(op, p, s, t) \in Mensajes,
         t \in Cpus => Mensaje(op, p, s, t) \in DeCpu(t)
  PROVE  Origenes'
<1> DEFINE m == Mensaje(op, p, s, t)
           q == Socket(t)
<1>0. UNCHANGED <<hilo, pedido, tipo>> /\ TiposConexion
  BY ClientesDejanUmv DEF locales, Tipos
<1>1. q \in Conexiones /\ ida[q] \in Seq(Mensajes)
  BY <1>0, SocketTipo DEF TiposConexion
<1>2. ida' = [ida EXCEPT ![q] = Append(ida[q], m)]
  BY DEF EnviarOperacion
<1>3. m \in Mensajes /\ (t \in Cpus => m \in DeCpu(t)) /\ m.de = t
  BY DEF Mensaje
<1>4. (t \in Cpus => q = t) /\ (t \notin Cpus => q = Kernel /\ t \in HilosKernel)
  BY DEF Socket, Clientes
<1> HIDE DEF m, q
<1> SUFFICES ASSUME NEW h \in HilosUmv PROVE OrigenHilo(h)'
  BY HilosDistintos DEF Origenes, OrigenHilo
<1>5. OrigenHilo(h)
  BY OrigenesEs
<1>6. CASE h # q
  <2>1. h \in Conexiones => ida'[h] = ida[h]
    BY <1>0, <1>2, <1>6 DEF TiposConexion
  <2> QED
    BY <1>0, <1>5, <2>1, OrigenIntacto
<1>7. CASE h = q
  <2>1. ida'[q] = Append(ida[q], m)
    BY <1>0, <1>1, <1>2 DEF TiposConexion
  <2>2. CASE t \in Cpus
    <3>1. Todos(ida'[q], DeCpu(q))
      BY <1>1, <1>3, <1>4, <1>5, <1>7, <2>1, <2>2, AlAgregar DEF OrigenHilo, OrigenCpu
    <3> QED
      BY <1>0, <1>4, <1>5, <1>7, <2>2, <3>1, HilosDistintos DEF OrigenHilo, OrigenCpu
  <2>3. CASE t \notin Cpus
    <3>1. m \in DelKernel
      BY <1>3, <1>4, <2>3 DEF DelKernel
    <3>2. Todos(ida'[q], DelKernel)
      BY <1>1, <1>3, <1>4, <1>5, <1>7, <2>1, <2>3, <3>1, AlAgregar DEF OrigenHilo, OrigenKernel
    <3> QED
      BY <1>0, <1>4, <1>5, <1>7, <2>3, <3>2, HilosDistintos DEF OrigenHilo, OrigenKernel
  <2> QED
    BY <2>2, <2>3
<1> QED
  BY <1>6, <1>7

LEMMA OrigenQuieto ==
  ASSUME Origenes, UNCHANGED <<ida, tipo, hilo, pedido>>
  PROVE  Origenes'
<1> SUFFICES ASSUME NEW t \in HilosUmv PROVE OrigenHilo(t)'
  BY HilosDistintos DEF Origenes, OrigenHilo
<1>1. OrigenHilo(t)
  BY OrigenesEs
<1> QED
  BY <1>1, OrigenIntacto

LEMMA OrigenClientes ==
  ASSUME Tipos, Origenes, ClientesNext
  PROVE  Origenes'
<1>0. UNCHANGED <<hilo, pedido, tipo>>
  BY ClientesDejanUmv DEF locales
<1>1. UNCHANGED ida => Origenes'
  BY <1>0, OrigenQuieto
<1>2. CASE HiloPlp
  <2>1. CASE CrearPCBPide
    <3>1. paso \in 1..5 /\ creado \in Pids
      BY <2>1 DEF CrearPCBPide, Tipos, TiposClientes
    <3>2. EnviarOperacion(Plp, Guion[paso].op, creado, Guion[paso].seg)
      BY <2>1 DEF CrearPCBPide
    <3>3. Guion[paso].op \in Ops \ {"COMPACTACION"} /\ Guion[paso].seg \in Segs \cup {"nada"}
          /\ (Guion[paso].op = "CREAR_SEGMENTO" => Guion[paso].seg \in Segs)
      BY <3>1, GuionTipo
    <3>4. Mensaje(Guion[paso].op, creado, Guion[paso].seg, Plp) \in Mensajes
      BY <3>1, <3>3, MensajeTipo, NombresSon, EsperaDistintas
    <3>5. Plp \in Clientes /\ Plp \notin Cpus
      BY EsperaDistintas
    <3> QED
      BY <3>2, <3>4, <3>5, OrigenEnvia
  <2>2. CASE CrearPCBRecibe \/ Cliente(Plp)
    BY <2>2, <1>1 DEF CrearPCBRecibe, Cliente, RecibirCabecera, Pierde
  <2> QED
    BY <1>2, <2>1, <2>2 DEF HiloPlp
<1>3. CASE HiloExit
  <2>1. ASSUME NEW p \in Pids, VaciarColaExitPide(p) PROVE Origenes'
    <3>1. EnviarOperacion(Exit, "DESTRUIR_SEGMENTO", p, "nada")
      BY <2>1 DEF VaciarColaExitPide
    <3>2. Mensaje("DESTRUIR_SEGMENTO", p, "nada", Exit) \in Mensajes
      BY MensajeTipo, NombresSon, EsperaDistintas DEF Ops, ConRespuesta
    <3>3. Exit \in Clientes /\ Exit \notin Cpus
      BY EsperaDistintas
    <3> QED
      BY <3>1, <3>2, <3>3, OrigenEnvia
  <2>2. CASE VaciarColaExitRecibe \/ Cliente(Exit)
    BY <2>2, <1>1 DEF VaciarColaExitRecibe, Cliente, RecibirCabecera, Pierde
  <2> QED
    BY <1>3, <2>1, <2>2 DEF HiloExit
<1>4. ASSUME NEW c \in Cpus, Cpu(c) \/ CaeCpu(c) PROVE Origenes'
  <2>0. c \in Clientes
    BY EsperaDistintas
  <2>1. ASSUME NEW op \in {"HANDSHAKE", "CAMBIO_PROC_ACTIVO", "SOLICITAR_BYTES", "ENVIAR_BYTES"},
               NEW p \in Pids \cup {SinPid}, NEW s \in Nombres,
               EnviarOperacion(c, op, p, s),
               op \in ConRespuesta => s \in Segs \cup {"fuera"},
               op = "CAMBIO_PROC_ACTIVO" => p \in Pids
        PROVE  Origenes'
    <3>1. Mensaje(op, p, s, c) \in Mensajes
      BY <2>0, <2>1, MensajeTipo, NombresSon DEF Ops, ConRespuesta
    <3>2. Mensaje(op, p, s, c) \in DeCpu(c)
      BY <2>1, <3>1 DEF DeCpu, Mensaje
    <3> QED
      BY <2>0, <2>1, <3>1, <3>2, OrigenEnvia
  <2>2. CASE HandshakeUMV(c)
    BY <2>1, <2>2, NombresSon DEF HandshakeUMV, ConRespuesta
  <2>3. ASSUME NEW p \in Pids, TomaPcb(c, p) PROVE Origenes'
    BY <2>1, <2>3, NombresSon DEF TomaPcb, ConRespuesta
  <2>4. ASSUME NEW s \in Segs \cup {"fuera"}, NEW op \in {"SOLICITAR_BYTES", "ENVIAR_BYTES"},
               CpuPide(c, op, s)
        PROVE  Origenes'
    <3>1. EnviarOperacion(c, op, pcb[c], s) /\ pcb[c] \in Pids
      BY <2>4 DEF CpuPide, Tipos, TiposClientes
    <3> QED
      BY <2>1, <3>1, NombresSon
  <2>5. CASE \/ CpuRecibe(c) \/ Cliente(c) \/ CaeCpu(c)
             \/ \E v \in {"listo", "exit"} : CpuDevuelve(c, v)
    BY <2>5, <1>1 DEF CpuRecibe, Cliente, RecibirCabecera, Pierde, CaeCpu, CpuDevuelve, sockets
  <2>6. {"stack", "fuera"} \subseteq Segs \cup {"fuera"}
    BY DEF Segs
  <2> QED
    BY <1>4, <2>2, <2>3, <2>4, <2>5, <2>6 DEF Cpu
<1>5. CASE \E p \in Pids : EmpiezaCrearPCB(p)
  BY <1>5, <1>1 DEF EmpiezaCrearPCB, sockets
<1> QED
  BY <1>2, <1>3, <1>4, <1>5 DEF ClientesNext

LEMMA OrigenesPaso ==
  ASSUME Tipos, Origenes, [Next]_vars
  PROVE  Origenes'
<1>1. TiposHilo
  BY DEF Tipos
<1>2. CASE Quieto
  BY <1>2, OrigenQuieto DEF Quieto, sockets, locales
<1> QED
  BY <1>1, <1>2, CasosDeNext, OrigenUmv, OrigenConexion, OrigenOperador, OrigenClientes

LEMMA OrigenesSiempre == Spec => []Origenes
BY OrigenesInit, OrigenesPaso, TiposSiempre, PTL DEF Spec

-----------------------------------------------------------------------------
(* The connection of the Kernel: one request of each thread at a time      *)

PedidosDe(t) == {m \in Mensajes : m.op \in ConRespuesta /\ m.de = t}
CuerposDe(t) == {m \in Respuestas : m.parte = "cuerpo" /\ m.de = t}

\* thread t waits for one answer at most: q, r are the requests and the answers
\* on their way, e its espera, a whether the UMV works for it
TurnoBien(t, q, r, e, a) ==
  /\ Uno(q, PedidosDe(t)) /\ Uno(r, CuerposDe(t))
  /\ Sin(q, PedidosDe(t)) \/ (Sin(r, CuerposDe(t)) /\ ~a)
  /\ a => Sin(r, CuerposDe(t))
  /\ e \notin {"respuesta", "cuerpo"} =>
       Sin(q, PedidosDe(t)) /\ Sin(r, CuerposDe(t)) /\ ~a

\* the thread sends, or the other one does
LEMMA TurnoEnvia ==
  ASSUME NEW t, NEW q \in Seq(Mensajes), NEW r, NEW e, NEW a, TurnoBien(t, q, r, e, a),
         NEW m \in Mensajes, NEW f,
         m \in PedidosDe(t) => e \notin {"respuesta", "cuerpo"} /\ f = "respuesta",
         m \notin PedidosDe(t) => f = e \/ e \notin {"respuesta", "cuerpo"}
  PROVE  TurnoBien(t, Append(q, m), r, f, a)
<1> DEFINE X == PedidosDe(t)
<1>1. /\ Sin(q, X) /\ m \notin X => Sin(Append(q, m), X)
      /\ Uno(q, X) /\ (m \notin X \/ Sin(q, X)) => Uno(Append(q, m), X)
  BY AlAgregar
<1> QED
  BY <1>1 DEF TurnoBien

\* the UMV takes a message from the connection: its own thread's request or not
LEMMA TurnoLee ==
  ASSUME NEW t, NEW q \in Seq(Mensajes), q # <<>>, NEW r, NEW e, TurnoBien(t, q, r, e, FALSE),
         NEW b \in BOOLEAN, b => Head(q) \in PedidosDe(t)
  PROVE  TurnoBien(t, Tail(q), r, e, b)
<1> DEFINE X == PedidosDe(t)
<1>1. /\ Sin(q, X) => Sin(Tail(q), X) /\ Head(q) \notin X
      /\ Uno(q, X) => Uno(Tail(q), X)
      /\ Uno(q, X) /\ Head(q) \in X => Sin(Tail(q), X)
  BY AlSacar
<1> QED
  BY <1>1 DEF TurnoBien

\* it answers the request it has at hand, of thread d
LEMMA TurnoContesta ==
  ASSUME NEW t, NEW q, NEW r \in Seq(Respuestas), NEW e, NEW a \in BOOLEAN,
         TurnoBien(t, q, r, e, a),
         NEW d \in Clientes \cup {SinPid}, d = t => a, NEW ok \in BOOLEAN
  PROVE  TurnoBien(t, q, r \o Respuesta(d, ok), e, FALSE)
<1> DEFINE Y == CuerposDe(t)
           b == [parte |-> "cuerpo", de |-> d, ok |-> ok]
           s == r \o Respuesta(d, ok)
<1>1. [parte |-> "cabecera", de |-> d, ok |-> ok] \notin Y
  BY DEF CuerposDe
<1>2. b \in Y => d = t
  BY DEF CuerposDe
<1>3. /\ Sin(r, Y) /\ b \notin Y => Sin(s, Y)
      /\ Uno(r, Y) /\ (b \notin Y \/ Sin(r, Y)) => Uno(s, Y)
  <2> HIDE DEF Y
  <2> QED
    BY <1>1, AlResponder
<1> HIDE DEF Y, b, s
<1>4. CASE a
  BY <1>2, <1>3, <1>4 DEF TurnoBien, Y, s
<1>5. CASE ~a
  BY <1>2, <1>3, <1>5 DEF TurnoBien, Y, s
<1> QED
  BY <1>4, <1>5

LEMMA TurnoCalla ==
  ASSUME NEW t, NEW q, NEW r, NEW e, NEW a, TurnoBien(t, q, r, e, a)
  PROVE  TurnoBien(t, q, r, e, FALSE)
BY DEF TurnoBien

\* a piece of an answer is read: a header, or the body of its own answer, or
\* one of the other thread
LEMMA TurnoRecibe ==
  ASSUME NEW t, NEW q, NEW r \in Seq(Respuestas), r # <<>>, NEW e, NEW a \in BOOLEAN,
         TurnoBien(t, q, r, e, a),
         NEW f, f \in {"respuesta", "cuerpo"} \/ f = e \/ Head(r) \in CuerposDe(t)
  PROVE  TurnoBien(t, q, Tail(r), f, a)
<1> DEFINE Y == CuerposDe(t)
<1>1. /\ Sin(r, Y) => Sin(Tail(r), Y) /\ Head(r) \notin Y
      /\ Uno(r, Y) => Uno(Tail(r), Y)
      /\ Uno(r, Y) /\ Head(r) \in Y => Sin(Tail(r), Y)
  BY AlSacar
<1> QED
  BY <1>1 DEF TurnoBien

-----------------------------------------------------------------------------
(* What the Kernel's requests and the programs are while nothing went wrong *)

Propia == ~cruzada /\ espera[Plp] # "perdida" /\ espera[Exit] # "perdida"
Sano == ~basura /\ Propia

Atiende(t) == hilo[Kernel] # "escucha" /\ pedido[Kernel].de = t
Turno(t) == TurnoBien(t, ida[Kernel], regreso[Kernel], espera[t], Atiende(t))

\* the request of crearPCB is the one of its step k for program p, and that of
\* vaciarColaExit is for program d
Esperables(k, p, d) ==
  {m \in Mensajes : m.op \in ConRespuesta =>
     /\ m.de = Plp => k \in 1..5 /\ m.op = Guion[k].op /\ m.seg = Guion[k].seg /\ m.pid = p
     /\ m.de = Exit => m.op = "DESTRUIR_SEGMENTO" /\ m.pid = d}

ElKernelPide ==
  /\ Turno(Plp) /\ Turno(Exit)
  /\ Todos(ida[Kernel], Esperables(paso, creado, destruye))
  /\ hilo[Kernel] # "escucha" => pedido[Kernel] \in Esperables(paso, creado, destruye)

Logradas == {m \in CuerposDe(Plp) : m.ok}

\* the segments crearPCB has got, unless the operator took them away
CrearBien ==
  /\ paso > 0 => vida[creado] = "creando"
  /\ creado \notin borrados =>
       /\ paso > 2 => <<creado, "codigo">> \in segmentos
       /\ paso > 3 => <<creado, "stack">> \in segmentos
       /\ paso \in {2, 3} /\ <<creado, Guion[paso].seg>> \notin segmentos =>
            Sin(regreso[Kernel], Logradas)

ExitBien ==
  espera[Exit] \in {"respuesta", "cuerpo"} => destruye \in Pids /\ vida[destruye] = "exit"

\* a program that is ready or runs has its segments, with the same exception,
\* and it runs on one CPU
Programas ==
  /\ \A p \in Pids :
       vida[p] \in {"listo", "corre"} /\ p \notin borrados =>
         \A s \in Segs : <<p, s>> \in segmentos
  /\ \A c \in Cpus : pcb[c] # SinPid => vida[pcb[c]] = "corre"
  /\ \A c, d \in Cpus : pcb[c] = pcb[d] /\ pcb[c] # SinPid => c = d

Marcha == ElKernelPide /\ CrearBien /\ ExitBien /\ Programas

\* nothing that went wrong is undone
LEMMA SanoAntes ==
  ASSUME Tipos, [Next]_vars, Sano'
  PROVE  Sano
<1>0. Plp \in Clientes /\ Exit \in Clientes /\ TiposClientes
  BY EsperaDistintas DEF Tipos
<1>1. UNCHANGED <<clientes, cruzada>> /\ (basura => basura') => Sano
  BY DEF Sano, Propia, clientes
<1>2. ASSUME NEW h \in HilosUmv, HiloUmv(h) PROVE Sano
  <2>1. basura => basura'
    BY <1>2, Zenon
       DEF HiloUmv, Entra, Accede, DestruirSegmento, Borra, CreaEn, CaePorWorstFit, PasaTest1,
           PasaTest2, CreaAlFinal, Crea, MandaCompactar, NoHayLugar, NadieBusco, Sigue,
           OtraPasada, SeCaeDelFinal, EntraCompactacion, SaleCompactacion, historia
  <2> QED
    BY <1>1, <1>2, <2>1, UmvDejaClientes, UmvDejaLaIda
<1>3. ASSUME NEW c \in Conexiones, Conexion(c) PROVE Sano
  <2>1. UNCHANGED <<cruzada, historia>>
    BY <1>3 DEF Conexion, LeeAviso, LeePedido, Rechaza, Cierra
  <2> QED
    BY <1>1, <1>3, <2>1, UmvDejaClientes DEF historia
<1>4. CASE Operador
  BY <1>1, <1>4, UmvDejaClientes 
     DEF Operador, ComandoOperacion, ComandoCompactar, ComandoAlgoritmo, Comando
<1>5. CASE ClientesNext
  <2>1. UNCHANGED basura
    BY <1>5, ClientesDejanUmv DEF historia
  <2>2. ASSUME NEW t, NEW ok, RecibirCuerpo(t, ok)
        PROVE  /\ cruzada => cruzada'
               /\ espera[t] = "cuerpo" /\ espera' = [espera EXCEPT ![t] = "libre"]
    BY <2>2, Zenon DEF RecibirCuerpo
  <2>3. ASSUME NEW t, Cliente(t)
        PROVE  /\ cruzada => cruzada'
               /\ espera[t] # "perdida" /\ \E e : espera' = [espera EXCEPT ![t] = e]
    BY <2>3 DEF Cliente, RecibirCabecera, Pierde
  <2>4. ASSUME NEW t, NEW op, NEW p, NEW s, EnviarOperacion(t, op, p, s)
        PROVE  espera[t] # "perdida" /\ \E e : espera' = [espera EXCEPT ![t] = e]
    BY <2>4 DEF EnviarOperacion
  <2>5. ASSUME NEW t \in Clientes, espera[t] # "perdida",
               \E e : espera' = [espera EXCEPT ![t] = e]
        PROVE  \A u \in {Plp, Exit} : espera[u] = "perdida" => espera'[u] = "perdida"
    BY <1>0, <2>5 DEF TiposClientes
  <2>6. ASSUME cruzada => cruzada',
               \A u \in {Plp, Exit} : espera[u] = "perdida" => espera'[u] = "perdida"
        PROVE  Sano
    BY <2>1, <2>6 DEF Sano, Propia
  <2>7. CASE HiloPlp
    <3>1. CASE CrearPCBPide
      BY <1>0, <2>4, <2>5, <2>6, <3>1 DEF CrearPCBPide
    <3>2. CASE CrearPCBRecibe
      BY <1>0, <2>2, <2>5, <2>6, <3>2 DEF CrearPCBRecibe
    <3>3. CASE Cliente(Plp)
      BY <1>0, <2>3, <2>5, <2>6, <3>3
    <3> QED
      BY <2>7, <3>1, <3>2, <3>3 DEF HiloPlp
  <2>8. CASE HiloExit
    <3>1. ASSUME NEW p \in Pids, VaciarColaExitPide(p) PROVE Sano
      BY <1>0, <2>4, <2>5, <2>6, <3>1 DEF VaciarColaExitPide
    <3>2. CASE VaciarColaExitRecibe
      BY <1>0, <2>2, <2>5, <2>6, <3>2 DEF VaciarColaExitRecibe
    <3>3. CASE Cliente(Exit)
      BY <1>0, <2>3, <2>5, <2>6, <3>3
    <3> QED
      BY <2>8, <3>1, <3>2, <3>3 DEF HiloExit
  <2>9. ASSUME NEW c \in Cpus, Cpu(c) \/ CaeCpu(c) PROVE Sano
    <3>0. espera'[Plp] = espera[Plp] /\ espera'[Exit] = espera[Exit]
      BY <1>0, <2>9, EsperaDistintas
         DEF Cpu, HandshakeUMV, CpuRecibe, RecibirCuerpo, Cliente, RecibirCabecera, Pierde,
             TomaPcb, CpuPide, CpuDevuelve, CaeCpu, EnviarOperacion, TiposClientes
    <3>1. cruzada => cruzada'
      <4>1. CpuRecibe(c) => (cruzada => cruzada')
        BY <2>2 DEF CpuRecibe
      <4>2. CASE ~CpuRecibe(c)
        BY <2>9, <4>2
           DEF Cpu, HandshakeUMV, Cliente, RecibirCabecera, Pierde, TomaPcb, CpuPide,
               CpuDevuelve, CaeCpu
      <4> QED
        BY <4>1, <4>2
    <3> QED
      BY <2>6, <3>0, <3>1
  <2>10. CASE \E p \in Pids : EmpiezaCrearPCB(p)
    BY <2>6, <2>10 DEF EmpiezaCrearPCB
  <2> QED
    BY <1>5, <2>7, <2>8, <2>9, <2>10 DEF ClientesNext
<1>6. CASE Quieto
  BY <1>6 DEF Quieto, historia, Sano, Propia
<1> QED
  BY <1>2, <1>3, <1>4, <1>5, <1>6, CasosDeNext

Base == Tipos /\ TiposRegreso /\ Canales /\ Origenes

LEMMA MarchaInit == Init => Marcha
<1> SUFFICES ASSUME Init PROVE Marcha
  OBVIOUS
<1>1. /\ ida[Kernel] = <<>> /\ regreso[Kernel] = <<>> /\ hilo[Kernel] = "escucha"
      /\ espera[Plp] = "libre" /\ espera[Exit] = "libre" /\ paso = 0
  BY HilosDistintos, EsperaDistintas DEF Init
<1>2. \A X : Sin(<<>>, X) /\ Uno(<<>>, X) /\ Todos(<<>>, X)
  BY DEF Sin, Uno, Todos
<1>3. ElKernelPide
  BY <1>1, <1>2 DEF ElKernelPide, Turno, TurnoBien, Atiende
<1>4. CrearBien /\ ExitBien
  BY <1>1 DEF CrearBien, ExitBien
<1>5. Programas
  BY DEF Init, Programas
<1> QED
  BY <1>3, <1>4, <1>5 DEF Marcha

\* the Kernel's side of the connection as it was, and the work at hand too
LEMMA KernelQuieto ==
  ASSUME ElKernelPide, UNCHANGED <<paso, creado, destruye>>,
         ida'[Kernel] = ida[Kernel], regreso'[Kernel] = regreso[Kernel],
         espera'[Plp] = espera[Plp], espera'[Exit] = espera[Exit],
         (hilo'[Kernel] = "escucha") = (hilo[Kernel] = "escucha"),
         pedido'[Kernel] = pedido[Kernel]
  PROVE  ElKernelPide'
<1>1. Atiende(Plp)' = Atiende(Plp) /\ Atiende(Exit)' = Atiende(Exit)
  BY DEF Atiende
<1>2. Turno(Plp)' /\ Turno(Exit)'
  BY <1>1 DEF ElKernelPide, Turno
<1> QED
  BY <1>2 DEF ElKernelPide

\* it ends the operation, with the answer of r or without one
LEMMA KernelTermina ==
  ASSUME Base, ElKernelPide, UNCHANGED <<clientes, ida>>, hilo[Kernel] # "escucha",
         Termina(Kernel), NEW ok \in BOOLEAN,
         regreso'[Kernel] = regreso[Kernel]
           \/ regreso'[Kernel] = regreso[Kernel] \o Respuesta(pedido[Kernel].de, ok)
  PROVE  ElKernelPide'
<1>1. hilo'[Kernel] = "escucha" /\ regreso[Kernel] \in Seq(Respuestas)
  BY HilosDistintos DEF Termina, Va, Base, Tipos, TiposHilo, TiposRegreso
<1>2. pedido[Kernel].de \in Clientes \cup {SinPid}
  BY HilosDistintos DEF Base, Tipos, TiposHilo, Mensajes
<1>3. ASSUME NEW t \in {Plp, Exit}, Turno(t) PROVE Turno(t)'
  <2> DEFINE d == pedido[Kernel].de
             r == regreso[Kernel]
             a == Atiende(t)
  <2>1. d = t => a
    BY DEF Atiende
  <2>2. a \in BOOLEAN /\ TurnoBien(t, ida[Kernel], r, espera[t], a)
    BY <1>3 DEF Turno, Atiende
  <2>3. UNCHANGED <<ida, espera>> /\ Atiende(t)' = FALSE
    BY <1>1 DEF clientes, Atiende
  <2> HIDE DEF d, r, a
  <2>4. TurnoBien(t, ida[Kernel], r, espera[t], FALSE)
    BY <2>2, TurnoCalla
  <2>5. TurnoBien(t, ida[Kernel], r \o Respuesta(d, ok), espera[t], FALSE)
    BY <1>1, <1>2, <2>1, <2>2, TurnoContesta DEF d, r
  <2>6. TurnoBien(t, ida[Kernel], regreso'[Kernel], espera[t], FALSE)
    BY <2>4, <2>5 DEF d, r
  <2> QED
    BY <2>3, <2>6 DEF Turno
<1>4. Turno(Plp)' /\ Turno(Exit)'
  BY <1>3 DEF ElKernelPide
<1> QED
  BY <1>1, <1>4 DEF ElKernelPide, clientes

LEMMA KernelResponde ==
  ASSUME Base, ElKernelPide, UNCHANGED <<clientes, ida>>,
         NEW ok \in BOOLEAN, Contesta(Kernel, ok)
  PROVE  ElKernelPide'
<1>1. \/ regreso' = regreso
      \/ regreso' = [regreso EXCEPT ![Kernel] = @ \o Respuesta(pedido[Kernel].de, ok)]
  BY HilosDistintos DEF Contesta, Responder, Respuesta
<1>2. \/ regreso'[Kernel] = regreso[Kernel]
      \/ regreso'[Kernel] = regreso[Kernel] \o Respuesta(pedido[Kernel].de, ok)
  BY <1>1, HilosDistintos DEF Base, TiposRegreso
<1> QED
  BY <1>2, KernelTermina DEF Contesta

\* the threads of the other connections leave the Kernel's alone
LEMMA OtroHilo ==
  ASSUME TiposHilo, TiposRegreso, NEW h \in HilosUmv, NEW g \in Conexiones, g # h,
         \/ Avanza(h) \/ Calla(h) \/ UNCHANGED <<hilo, pedido, regreso>>
         \/ \E ok \in BOOLEAN : Contesta(h, ok)
  PROVE  hilo'[g] = hilo[g] /\ pedido'[g] = pedido[g] /\ regreso'[g] = regreso[g]
<1>1. hilo'[g] = hilo[g] /\ pedido'[g] = pedido[g]
  BY HilosDistintos DEF TiposHilo, Avanza, Calla, Contesta, Termina, Va
<1>2. regreso'[g] = regreso[g]
  <2>1. ASSUME NEW ok, Responder(h, ok) PROVE regreso'[g] = regreso[g]
    BY <2>1 DEF Responder, TiposRegreso
  <2> QED
    BY <2>1 DEF Avanza, Calla, Contesta
<1> QED
  BY <1>1, <1>2

\* a step of an operation, in those terms
LEMMA PasosEnTerminos ==
  ASSUME TiposHilo, NEW h \in HilosUmv, HiloUmv(h)
  PROVE  \/ Avanza(h) \/ Calla(h) \/ UNCHANGED <<hilo, pedido, regreso>>
         \/ \E ok \in BOOLEAN : Contesta(h, ok)
<1>1. Accede(h) => \E ok \in BOOLEAN : Contesta(h, ok)
  <2> DEFINE ok == <<Proceso(h), pedido[h].seg>> \in segmentos
  <2>1. Accede(h) => Termina(h) /\ Responder(h, ok) /\ hilo[h] = "dentro"
    BY DEF Accede
  <2>2. ok \in BOOLEAN
    OBVIOUS
  <2> HIDE DEF ok
  <2> QED
    BY <2>1, <2>2 DEF Contesta
<1>2. DestruirSegmento(h) => \E ok \in BOOLEAN : Contesta(h, ok)
  BY DEF DestruirSegmento, Contesta
<1>3. Crea(h) /\ hilo[h] \in EnCrear => Contesta(h, TRUE)
  BY DEF Crea, Contesta, EnCrear, EnPasada
<1>4. SeCaeDelFinal(h) /\ hilo[h] \in EnCrear => \E ok \in BOOLEAN : Contesta(h, ok)
  BY DEF SeCaeDelFinal, Contesta, EnCrear, EnPasada
<1> QED
  BY <1>1, <1>2, <1>3, <1>4, PasosDeUmv

LEMMA KernelPideUmv ==
  ASSUME Base, ElKernelPide, NEW h \in HilosUmv, HiloUmv(h)
  PROVE  ElKernelPide'
<1>0. UNCHANGED <<clientes, ida>> /\ TiposHilo
  BY UmvDejaClientes, UmvDejaLaIda DEF Base, Tipos
<1>1. \/ Avanza(h) \/ Calla(h) \/ UNCHANGED <<hilo, pedido, regreso>>
      \/ \E ok \in BOOLEAN : Contesta(h, ok)
  BY <1>0, PasosEnTerminos
<1> TiposRegreso
  BY DEF Base
<1>2. CASE h # Kernel \/ UNCHANGED <<hilo, pedido, regreso>>
  <2>1. hilo'[Kernel] = hilo[Kernel] /\ pedido'[Kernel] = pedido[Kernel]
        /\ regreso'[Kernel] = regreso[Kernel]
    BY <1>0, <1>1, <1>2, OtroHilo, HilosDistintos
  <2> QED
    BY <1>0, <2>1, KernelQuieto DEF clientes
<1>3. CASE h = Kernel /\ Avanza(h)
  <2>1. hilo[Kernel] # "escucha" /\ hilo'[Kernel] # "escucha" /\ UNCHANGED <<pedido, regreso>>
    BY <1>0, <1>3 DEF Avanza, Va, TiposHilo, EnCrear, EnPasada
  <2> QED
    BY <1>0, <2>1, KernelQuieto DEF clientes
<1>4. CASE h = Kernel /\ Calla(h)
  BY <1>0, <1>4, KernelTermina DEF Calla
<1>5. ASSUME h = Kernel, NEW ok \in BOOLEAN, Contesta(h, ok) PROVE ElKernelPide'
  BY <1>0, <1>5, KernelResponde
<1> QED
  BY <1>1, <1>2, <1>3, <1>4, <1>5

LEMMA KernelLee ==
  ASSUME Base, ElKernelPide, LeeAviso(Kernel) \/ LeePedido(Kernel)
  PROVE  ElKernelPide'
<1> DEFINE q == ida[Kernel]
           m == Head(ida[Kernel])
<1>0. TiposConexion /\ TiposHilo /\ OrigenKernel
  BY DEF Base, Tipos, Origenes
<1>1. q \in Seq(Mensajes) /\ q # <<>> /\ ida' = [ida EXCEPT ![Kernel] = Tail(@)]
  BY <1>0, HilosDistintos DEF TiposConexion, LeeAviso, LeePedido
<1>2. ida'[Kernel] = Tail(q)
  BY <1>0, <1>1, HilosDistintos DEF TiposConexion
<1>3. UNCHANGED <<clientes, regreso>> /\ hilo[Kernel] = "escucha"
  BY DEF LeeAviso, LeePedido
<1>4. m \in DelKernel
  BY <1>0, <1>1, AlSacar DEF OrigenKernel
<1>5. Todos(Tail(q), Esperables(paso, creado, destruye)) /\ m \in Esperables(paso, creado, destruye)
  BY <1>1, AlSacar DEF ElKernelPide
<1>6. ASSUME NEW t \in {Plp, Exit}, Turno(t), NEW b \in BOOLEAN, b => m \in PedidosDe(t),
             Atiende(t)' = b
      PROVE  Turno(t)'
  <2>1. TurnoBien(t, q, regreso[Kernel], espera[t], FALSE)
    BY <1>3, <1>6 DEF Turno, Atiende
  <2>2. TurnoBien(t, Tail(q), regreso[Kernel], espera[t], b)
    BY <1>1, <1>6, <2>1, TurnoLee
  <2>3. UNCHANGED <<espera, regreso>>
    BY <1>3 DEF clientes
  <2> QED
    BY <1>2, <1>6, <2>2, <2>3 DEF Turno
<1>7. CASE LeeAviso(Kernel)
  <2>1. UNCHANGED <<hilo, pedido>>
    BY <1>7 DEF LeeAviso
  <2>2. Atiende(Plp)' = FALSE /\ Atiende(Exit)' = FALSE
    BY <1>3, <2>1 DEF Atiende
  <2>3. Turno(Plp)' /\ Turno(Exit)'
    BY <1>6, <2>2 DEF ElKernelPide
  <2> QED
    BY <1>2, <1>3, <1>5, <2>1, <2>3 DEF ElKernelPide, clientes
<1>8. CASE LeePedido(Kernel)
  <2>1. pedido'[Kernel] = m /\ hilo'[Kernel] # "escucha" /\ m.op \in ConRespuesta
    BY <1>0, <1>8, HilosDistintos DEF LeePedido, Va, TiposHilo
  <2> HIDE DEF m, q
  <2>2. Atiende(Plp)' = (m.de = Plp) /\ Atiende(Exit)' = (m.de = Exit)
    BY <2>1 DEF Atiende
  <2>3. (m.de = Plp => m \in PedidosDe(Plp)) /\ (m.de = Exit => m \in PedidosDe(Exit))
    BY <1>4, <2>1 DEF DelKernel, PedidosDe
  <2>4. Turno(Plp)'
    BY <1>6, <2>2, <2>3 DEF ElKernelPide
  <2>5. Turno(Exit)'
    BY <1>6, <2>2, <2>3 DEF ElKernelPide
  <2> QED
    BY <1>2, <1>3, <1>5, <2>1, <2>4, <2>5 DEF ElKernelPide, clientes
<1> QED
  BY <1>7, <1>8

LEMMA KernelPideConexion ==
  ASSUME Base, ElKernelPide, NEW c \in Conexiones, Conexion(c)
  PROVE  ElKernelPide'
<1>0. UNCHANGED clientes /\ TiposHilo /\ TiposConexion /\ TiposRegreso /\ c \in HilosUmv
  BY UmvDejaClientes, HilosDistintos DEF Base, Tipos
<1>1. CASE c = Kernel /\ (LeeAviso(c) \/ LeePedido(c))
  BY <1>1, KernelLee
<1>2. CASE c # Kernel /\ (LeeAviso(c) \/ LeePedido(c) \/ Cierra(c))
  <2>1. ida'[Kernel] = ida[Kernel] /\ UNCHANGED regreso
    BY <1>0, <1>2, HilosDistintos DEF LeeAviso, LeePedido, Cierra, TiposConexion, sockets
  <2>2. hilo'[Kernel] = hilo[Kernel] /\ pedido'[Kernel] = pedido[Kernel]
    BY <1>0, <1>2, HilosDistintos DEF LeeAviso, LeePedido, Cierra, Va, TiposHilo
  <2> QED
    BY <1>0, <2>1, <2>2, KernelQuieto DEF clientes
<1>3. CASE Rechaza(c)
  <2>1. Contesta(c, FALSE) /\ UNCHANGED ida
    BY <1>3 DEF Rechaza, Contesta
  <2>2. CASE c = Kernel
    BY <1>0, <2>1, <2>2, KernelResponde
  <2>3. CASE c # Kernel
    BY <1>0, <2>1, <2>3, OtroHilo, KernelQuieto, HilosDistintos DEF clientes
  <2> QED
    BY <2>2, <2>3
<1>4. CASE c = Kernel /\ Cierra(c)
  BY <1>4, HilosDistintos DEF Cierra
<1> QED
  BY <1>1, <1>2, <1>3, <1>4 DEF Conexion

LEMMA OperadorDeja ==
  ASSUME TiposHilo, Operador
  PROVE  /\ UNCHANGED <<clientes, sockets, segmentos, tipo, activo>>
         /\ \A c \in Conexiones : hilo'[c] = hilo[c] /\ pedido'[c] = pedido[c]
<1>1. UNCHANGED <<clientes, sockets, segmentos, tipo, activo>>
  BY DEF Operador, ComandoOperacion, ComandoCompactar, ComandoAlgoritmo, Comando
<1>2. ASSUME NEW c \in Conexiones PROVE hilo'[c] = hilo[c] /\ pedido'[c] = pedido[c]
  <2>1. c # Consola /\ c \in HilosUmv
    BY HilosDistintos
  <2>2. ASSUME ComandoCompactar \/ \E op \in ConRespuesta, p \in Pids : ComandoOperacion(op, p)
        PROVE  hilo'[c] = hilo[c] /\ pedido'[c] = pedido[c]
    BY <2>1, <2>2 DEF ComandoOperacion, ComandoCompactar, Va, TiposHilo
  <2>3. ASSUME NEW a, ComandoAlgoritmo(a) PROVE hilo'[c] = hilo[c] /\ pedido'[c] = pedido[c]
    BY <2>3 DEF ComandoAlgoritmo
  <2> QED
    BY <2>2, <2>3 DEF Operador
<1> QED
  BY <1>1, <1>2

LEMMA KernelPideOperador ==
  ASSUME Base, ElKernelPide, Operador
  PROVE  ElKernelPide'
<1>1. TiposHilo
  BY DEF Base, Tipos
<1> QED
  BY <1>1, OperadorDeja, KernelQuieto, HilosDistintos DEF clientes, sockets

\* with no request of a thread on the connection, any other it may send is as
\* good
LEMMA OtroEsperable ==
  ASSUME NEW q, NEW k, NEW p, NEW d, Todos(q, Esperables(k, p, d)), NEW x, NEW y
  PROVE  /\ Sin(q, PedidosDe(Plp)) => Todos(q, Esperables(x, y, d))
         /\ Sin(q, PedidosDe(Exit)) => Todos(q, Esperables(k, p, x))
BY EsperaDistintas DEF Todos, Sin, Esperables, PedidosDe

LEMMA OtroEsperado ==
  ASSUME NEW k, NEW p, NEW d, NEW m \in Esperables(k, p, d), NEW x, NEW y
  PROVE  /\ m.de # Plp => m \in Esperables(x, y, d)
         /\ m.de # Exit => m \in Esperables(k, p, x)
BY DEF Esperables

\* the UMV's thread of the Kernel while a thread of the Kernel runs
LEMMA KernelClientes ==
  ASSUME Base, ClientesNext
  PROVE  /\ UNCHANGED <<hilo, pedido, segmentos, basura, borrados>>
         /\ Atiende(Plp)' = Atiende(Plp) /\ Atiende(Exit)' = Atiende(Exit)
         /\ ida[Kernel] \in Seq(Mensajes) /\ regreso[Kernel] \in Seq(Respuestas)
         /\ Socket(Plp) = Kernel /\ Socket(Exit) = Kernel
         /\ \A t \in {Plp, Exit} : t \in Clientes /\ Atiende(t) \in BOOLEAN
<1>1. UNCHANGED <<hilo, pedido, segmentos, basura, borrados>>
  BY ClientesDejanUmv DEF locales, compartido, historia
<1>2. ida[Kernel] \in Seq(Mensajes) /\ regreso[Kernel] \in Seq(Respuestas)
  BY HilosDistintos DEF Base, Tipos, TiposConexion, TiposRegreso
<1> QED
  BY <1>1, <1>2, EsperaDistintas DEF Atiende, Socket

LEMMA KernelPideEmpieza ==
  ASSUME Base, ElKernelPide, NEW p \in Pids, EmpiezaCrearPCB(p)
  PROVE  ElKernelPide'
<1>0. ClientesNext
  BY DEF ClientesNext
<1>1. UNCHANGED <<espera, destruye, ida, regreso>> /\ paso = 0
  BY DEF EmpiezaCrearPCB, sockets
<1>2. espera[Plp] \notin {"respuesta", "cuerpo"}
  BY <1>1 DEF Base, Tipos, TiposClientes
<1>3. Turno(Plp)' /\ Turno(Exit)'
  BY <1>0, <1>1, KernelClientes DEF ElKernelPide, Turno
<1>4. Sin(ida[Kernel], PedidosDe(Plp)) /\ ~Atiende(Plp)
  BY <1>2 DEF ElKernelPide, Turno, TurnoBien
<1>5. Todos(ida[Kernel], Esperables(paso', creado', destruye))
  BY <1>4, OtroEsperable DEF ElKernelPide
<1>6. hilo[Kernel] # "escucha" => pedido[Kernel] \in Esperables(paso', creado', destruye)
  BY <1>4, OtroEsperado DEF ElKernelPide, Atiende
<1> QED
  BY <1>0, <1>1, <1>3, <1>5, <1>6, KernelClientes DEF ElKernelPide

LEMMA KernelPideCrear ==
  ASSUME Base, ElKernelPide, CrearPCBPide
  PROVE  ElKernelPide'
<1> DEFINE g == Guion[paso]
           m == Mensaje(g.op, creado, g.seg, Plp)
           q == ida[Kernel]
           f == IF g.op \in ConRespuesta THEN "respuesta" ELSE "libre"
<1>0. ClientesNext /\ TiposClientes /\ TiposConexion
  BY DEF ClientesNext, HiloPlp, Base, Tipos
<1>1. paso \in 1..5 /\ creado \in Pids /\ UNCHANGED <<creado, destruye, regreso>>
      /\ paso' = IF g.op \in ConRespuesta THEN paso ELSE paso + 1
  BY <1>0 DEF CrearPCBPide, TiposClientes
<1>2. espera[Plp] \in {"nueva", "libre"} /\ espera' = [espera EXCEPT ![Plp] = f]
      /\ ida' = [ida EXCEPT ![Kernel] = Append(@, m)]
  BY <1>0, KernelClientes DEF CrearPCBPide, EnviarOperacion
<1>3. ida'[Kernel] = Append(q, m) /\ espera'[Plp] = f /\ espera'[Exit] = espera[Exit]
  BY <1>0, <1>2, HilosDistintos, EsperaDistintas DEF TiposConexion, TiposClientes
<1>4. m \in Mensajes
  BY <1>1, GuionTipo, MensajeTipo, EsperaDistintas, NombresSon
<1>5. /\ m.op = g.op /\ m.seg = g.seg /\ m.pid = creado /\ m.de = Plp
      /\ m \in PedidosDe(Plp) <=> g.op \in ConRespuesta
      /\ m \notin PedidosDe(Exit)
  BY <1>4, EsperaDistintas DEF Mensaje, PedidosDe
<1>6. m \in Esperables(paso', creado, destruye)
  BY <1>1, <1>4, <1>5, EsperaDistintas DEF Esperables
<1>7. Sin(q, PedidosDe(Plp)) /\ ~Atiende(Plp)
  BY <1>2 DEF ElKernelPide, Turno, TurnoBien
<1>8. Todos(q, Esperables(paso', creado, destruye))
  BY <1>7, OtroEsperable DEF ElKernelPide
<1>9. hilo[Kernel] # "escucha" => pedido[Kernel] \in Esperables(paso', creado, destruye)
  BY <1>7, OtroEsperado DEF ElKernelPide, Atiende
<1> HIDE DEF m, f, g, q
<1>10. Todos(Append(q, m), Esperables(paso', creado, destruye))
  BY <1>0, <1>4, <1>6, <1>8, KernelClientes, AlAgregar DEF q
<1>11. q \in Seq(Mensajes)
  BY <1>0, KernelClientes DEF q
<1>12. TurnoBien(Plp, Append(q, m), regreso[Kernel], f, Atiende(Plp))
  <2>1. TurnoBien(Plp, q, regreso[Kernel], espera[Plp], Atiende(Plp))
    BY DEF ElKernelPide, Turno, q
  <2>2. /\ m \in PedidosDe(Plp) => espera[Plp] \notin {"respuesta", "cuerpo"} /\ f = "respuesta"
        /\ m \notin PedidosDe(Plp) => f = espera[Plp] \/ espera[Plp] \notin {"respuesta", "cuerpo"}
    BY <1>2, <1>5 DEF f
  <2> QED
    BY <1>4, <1>11, <2>1, <2>2, TurnoEnvia
<1>13. TurnoBien(Exit, Append(q, m), regreso[Kernel], espera[Exit], Atiende(Exit))
  <2>1. TurnoBien(Exit, q, regreso[Kernel], espera[Exit], Atiende(Exit))
    BY DEF ElKernelPide, Turno, q
  <2> QED
    BY <1>4, <1>5, <1>11, <2>1, TurnoEnvia
<1>14. Turno(Plp)' /\ Turno(Exit)'
  BY <1>0, <1>1, <1>3, <1>12, <1>13, KernelClientes DEF Turno
<1> QED
  BY <1>0, <1>1, <1>3, <1>9, <1>10, <1>14, KernelClientes DEF ElKernelPide

LEMMA KernelPideVaciar ==
  ASSUME Base, ElKernelPide, NEW p \in Pids, VaciarColaExitPide(p)
  PROVE  ElKernelPide'
<1> DEFINE m == Mensaje("DESTRUIR_SEGMENTO", p, "nada", Exit)
           q == ida[Kernel]
<1>0. ClientesNext /\ TiposClientes /\ TiposConexion
  BY DEF ClientesNext, HiloExit, Base, Tipos
<1>1. UNCHANGED <<paso, creado, regreso>> /\ destruye' = p
  BY DEF VaciarColaExitPide
<1>2. espera[Exit] \in {"nueva", "libre"} /\ espera' = [espera EXCEPT ![Exit] = "respuesta"]
      /\ ida' = [ida EXCEPT ![Kernel] = Append(@, m)]
  BY <1>0, KernelClientes DEF VaciarColaExitPide, EnviarOperacion, ConRespuesta
<1>3. ida'[Kernel] = Append(q, m) /\ espera'[Exit] = "respuesta" /\ espera'[Plp] = espera[Plp]
  BY <1>0, <1>2, HilosDistintos, EsperaDistintas DEF TiposConexion, TiposClientes
<1>4. m \in Mensajes
  BY MensajeTipo, EsperaDistintas, NombresSon DEF Ops, ConRespuesta
<1>5. /\ m.op = "DESTRUIR_SEGMENTO" /\ m.pid = p /\ m.de = Exit
      /\ m \in PedidosDe(Exit) /\ m \notin PedidosDe(Plp)
  BY <1>4, EsperaDistintas DEF Mensaje, PedidosDe, ConRespuesta
<1>6. m \in Esperables(paso, creado, p)
  BY <1>4, <1>5, EsperaDistintas DEF Esperables
<1>7. Sin(q, PedidosDe(Exit)) /\ ~Atiende(Exit)
  BY <1>2 DEF ElKernelPide, Turno, TurnoBien
<1>8. Todos(q, Esperables(paso, creado, p))
  BY <1>7, OtroEsperable DEF ElKernelPide
<1>9. hilo[Kernel] # "escucha" => pedido[Kernel] \in Esperables(paso, creado, p)
  BY <1>7, OtroEsperado DEF ElKernelPide, Atiende
<1> HIDE DEF m, q
<1>10. Todos(Append(q, m), Esperables(paso, creado, p))
  BY <1>0, <1>4, <1>6, <1>8, KernelClientes, AlAgregar DEF q
<1>11. q \in Seq(Mensajes)
  BY <1>0, KernelClientes DEF q
<1>12. TurnoBien(Exit, Append(q, m), regreso[Kernel], "respuesta", Atiende(Exit))
  <2>1. TurnoBien(Exit, q, regreso[Kernel], espera[Exit], Atiende(Exit))
    BY DEF ElKernelPide, Turno, q
  <2>2. m \in PedidosDe(Exit) => espera[Exit] \notin {"respuesta", "cuerpo"}
    BY <1>2
  <2> QED
    BY <1>4, <1>5, <1>11, <2>1, <2>2, TurnoEnvia
<1>13. TurnoBien(Plp, Append(q, m), regreso[Kernel], espera[Plp], Atiende(Plp))
  <2>1. TurnoBien(Plp, q, regreso[Kernel], espera[Plp], Atiende(Plp))
    BY DEF ElKernelPide, Turno, q
  <2> QED
    BY <1>4, <1>5, <1>11, <2>1, TurnoEnvia
<1>14. Turno(Plp)' /\ Turno(Exit)'
  BY <1>0, <1>1, <1>3, <1>12, <1>13, KernelClientes DEF Turno
<1> QED
  BY <1>0, <1>1, <1>3, <1>9, <1>10, <1>14, KernelClientes DEF ElKernelPide

\* thread t reads a piece of an answer: its espera becomes f
LEMMA TurnosReciben ==
  ASSUME Base, ElKernelPide, ClientesNext, NEW t \in {Plp, Exit}, NEW f,
         regreso[Kernel] # <<>>, regreso' = [regreso EXCEPT ![Kernel] = Tail(@)],
         espera' = [espera EXCEPT ![t] = f], UNCHANGED ida,
         f \in {"respuesta", "cuerpo"} \/ Head(regreso[Kernel]) \in CuerposDe(t)
  PROVE  Turno(Plp)' /\ Turno(Exit)'
<1> DEFINE r == regreso[Kernel]
<1>1. r \in Seq(Respuestas) /\ r # <<>>
  BY KernelClientes
<1>2. regreso'[Kernel] = Tail(r)
  BY HilosDistintos DEF Base, TiposRegreso
<1>3. espera'[t] = f /\ \A u \in {Plp, Exit} : u # t => espera'[u] = espera[u]
  BY EsperaDistintas DEF Base, Tipos, TiposClientes
<1> SUFFICES ASSUME NEW u \in {Plp, Exit} PROVE Turno(u)'
  OBVIOUS
<1>4. TurnoBien(u, ida[Kernel], r, espera[u], Atiende(u)) /\ Atiende(u) \in BOOLEAN
  BY KernelClientes DEF ElKernelPide, Turno
<1>5. \/ espera'[u] \in {"respuesta", "cuerpo"} \/ espera'[u] = espera[u]
      \/ Head(r) \in CuerposDe(u)
  BY <1>3
<1> HIDE DEF r
<1>6. TurnoBien(u, ida[Kernel], Tail(r), espera'[u], Atiende(u))
  BY <1>1, <1>4, <1>5, TurnoRecibe
<1>7. Atiende(u)' = Atiende(u)
  BY KernelClientes
<1> QED
  BY <1>2, <1>6, <1>7 DEF Turno

LEMMA KernelPideCabecera ==
  ASSUME Base, ElKernelPide, NEW t \in {Plp, Exit}, Cliente(t), Propia'
  PROVE  ElKernelPide'
<1>0. ClientesNext
  BY DEF ClientesNext, HiloPlp, HiloExit
<1>1. /\ regreso[Kernel] # <<>> /\ regreso' = [regreso EXCEPT ![Kernel] = Tail(@)]
      /\ UNCHANGED <<ida, paso, creado, destruye>>
  BY <1>0, KernelClientes DEF Cliente, RecibirCabecera, Pierde
<1>2. espera' = [espera EXCEPT ![t] = "cuerpo"]
  <2>1. espera'[t] # "perdida"
    BY DEF Propia
  <2>2. \/ espera' = [espera EXCEPT ![t] = "cuerpo"]
        \/ espera' = [espera EXCEPT ![t] = "perdida"]
    BY DEF Cliente, RecibirCabecera, Pierde
  <2> QED
    BY <1>0, <2>1, <2>2, KernelClientes DEF Base, Tipos, TiposClientes
<1>3. Turno(Plp)' /\ Turno(Exit)'
  BY <1>0, <1>1, <1>2, TurnosReciben
<1> QED
  BY <1>0, <1>1, <1>3, KernelClientes DEF ElKernelPide

LEMMA KernelPideCuerpo ==
  ASSUME Base, ElKernelPide, NEW t \in {Plp, Exit}, NEW ok, RecibirCuerpo(t, ok), Propia',
         ClientesNext, UNCHANGED ida,
         t = Plp => UNCHANGED destruye, t = Exit => UNCHANGED <<paso, creado>>
  PROVE  ElKernelPide' /\ Head(regreso[Kernel]) \in CuerposDe(t)
<1> DEFINE r == regreso[Kernel]
<1>0. Socket(t) = Kernel /\ t \in Clientes
  BY KernelClientes
<1>1. /\ r # <<>> /\ regreso' = [regreso EXCEPT ![Kernel] = Tail(@)]
      /\ Head(r).parte = "cuerpo" /\ espera' = [espera EXCEPT ![t] = "libre"]
  BY <1>0 DEF RecibirCuerpo
<1>2. Head(r).de = t
  <2>1. ~cruzada'
    BY DEF Propia
  <2> QED
    BY <1>0, <2>1, Zenon DEF RecibirCuerpo
<1>3. Head(r) \in Respuestas
  <2>1. r \in Seq(Respuestas)
    BY KernelClientes
  <2> HIDE DEF r
  <2> QED
    BY <1>1, <2>1
<1>4. Head(r) \in CuerposDe(t)
  BY <1>1, <1>2, <1>3 DEF CuerposDe
<1>5. Turno(Plp)' /\ Turno(Exit)'
  BY <1>1, <1>4, TurnosReciben
<1>6. Sin(ida[Kernel], PedidosDe(t)) /\ ~Atiende(t)
  <2>1. espera'[t] = "libre"
    BY <1>0, <1>1 DEF Base, Tipos, TiposClientes
  <2>2. Atiende(t)' = Atiende(t)
    BY KernelClientes
  <2> QED
    BY <1>5, <2>1, <2>2 DEF Turno, TurnoBien
<1>7. Todos(ida[Kernel], Esperables(paso', creado', destruye'))
  BY <1>6, OtroEsperable DEF ElKernelPide
<1>8. hilo[Kernel] # "escucha" => pedido[Kernel] \in Esperables(paso', creado', destruye')
  BY <1>6, OtroEsperado DEF ElKernelPide, Atiende
<1> QED
  BY <1>4, <1>5, <1>7, <1>8, KernelClientes DEF ElKernelPide

\* the CPUs leave the Kernel's connection and its threads alone
LEMMA CpuDejaKernel ==
  ASSUME Base, NEW c \in Cpus, Cpu(c) \/ CaeCpu(c)
  PROVE  /\ ida'[Kernel] = ida[Kernel] /\ regreso'[Kernel] = regreso[Kernel]
         /\ espera'[Plp] = espera[Plp] /\ espera'[Exit] = espera[Exit]
         /\ UNCHANGED <<paso, creado, destruye>>
<1>0. TiposClientes /\ TiposConexion /\ TiposRegreso /\ c \in Clientes
      /\ c # Plp /\ c # Exit /\ Socket(c) = c /\ c # Kernel
  BY EsperaDistintas, SocketDeOtro, HilosDistintos DEF Base, Tipos
<1>1. UNCHANGED <<paso, creado, destruye>>
  BY DEF Cpu, HandshakeUMV, CpuRecibe, Cliente, RecibirCabecera, Pierde, TomaPcb, CpuPide,
         CpuDevuelve, CaeCpu
<1>2. UNCHANGED espera \/ \E e : espera' = [espera EXCEPT ![c] = e]
  BY DEF Cpu, HandshakeUMV, CpuRecibe, RecibirCuerpo, Cliente, RecibirCabecera, Pierde,
         TomaPcb, CpuPide, CpuDevuelve, CaeCpu, EnviarOperacion
<1>3. UNCHANGED ida \/ \E x : ida' = [ida EXCEPT ![c] = x]
  BY <1>0 DEF Cpu, HandshakeUMV, CpuRecibe, Cliente, RecibirCabecera, Pierde,
         TomaPcb, CpuPide, CpuDevuelve, CaeCpu, EnviarOperacion, sockets
<1>4. UNCHANGED regreso \/ \E x : regreso' = [regreso EXCEPT ![c] = x]
  BY <1>0 DEF Cpu, HandshakeUMV, CpuRecibe, RecibirCuerpo, Cliente, RecibirCabecera, Pierde,
         TomaPcb, CpuPide, CpuDevuelve, CaeCpu, sockets
<1>5. espera'[Plp] = espera[Plp] /\ espera'[Exit] = espera[Exit]
  BY <1>0, <1>2, EsperaDistintas DEF TiposClientes
<1>6. ida'[Kernel] = ida[Kernel]
  BY <1>0, <1>3, HilosDistintos DEF TiposConexion
<1>7. regreso'[Kernel] = regreso[Kernel]
  BY <1>0, <1>4, HilosDistintos DEF TiposRegreso
<1> QED
  BY <1>1, <1>5, <1>6, <1>7

LEMMA KernelPideClientes ==
  ASSUME Base, ElKernelPide, ClientesNext, Propia'
  PROVE  ElKernelPide'
<1>1. CASE HiloPlp
  <2>1. CASE CrearPCBRecibe
    <3>1. PICK ok \in BOOLEAN : RecibirCuerpo(Plp, ok)
      BY <2>1 DEF CrearPCBRecibe
    <3>2. UNCHANGED <<ida, destruye>>
      BY <2>1 DEF CrearPCBRecibe
    <3> QED
      BY <3>1, <3>2, KernelPideCuerpo, EsperaDistintas
  <2> QED
    BY <1>1, <2>1, KernelPideCrear, KernelPideCabecera DEF HiloPlp
<1>2. CASE HiloExit
  <2>1. CASE VaciarColaExitRecibe
    <3>1. PICK ok \in BOOLEAN : RecibirCuerpo(Exit, ok)
      BY <2>1 DEF VaciarColaExitRecibe
    <3>2. UNCHANGED <<ida, paso, creado>>
      BY <2>1 DEF VaciarColaExitRecibe
    <3> QED
      BY <3>1, <3>2, KernelPideCuerpo, EsperaDistintas
  <2> QED
    BY <1>2, <2>1, KernelPideVaciar, KernelPideCabecera DEF HiloExit
<1>3. ASSUME NEW c \in Cpus, Cpu(c) \/ CaeCpu(c) PROVE ElKernelPide'
  <2>1. UNCHANGED <<hilo, pedido>>
    BY KernelClientes
  <2> QED
    BY <1>3, <2>1, CpuDejaKernel, KernelQuieto
<1> QED
  BY <1>1, <1>2, <1>3, KernelPideEmpieza DEF ClientesNext

LEMMA KernelPidePaso ==
  ASSUME Base, ElKernelPide, [Next]_vars, Propia'
  PROVE  ElKernelPide'
<1>1. CASE Quieto
  BY <1>1, KernelQuieto DEF Quieto, sockets, locales
<1> QED
  BY <1>1, CasosDeNext, KernelPideUmv, KernelPideConexion, KernelPideOperador,
     KernelPideClientes

-----------------------------------------------------------------------------
(* The programs and their segments                                         *)

LEMMA GuionCrea ==
  /\ \A i \in 1..5 : Guion[i].op # "DESTRUIR_SEGMENTO"
  /\ \A i \in {2, 3} : Guion[i].op = "CREAR_SEGMENTO"
  /\ Guion[2].seg = "codigo" /\ Guion[3].seg = "stack" /\ Segs = {"codigo", "stack"}
BY DEF Guion, Segs

\* what the operator destroyed is not forgotten
LEMMA BorradosCrecen ==
  ASSUME NEW h \in HilosUmv, HiloUmv(h)
  PROVE  borrados \subseteq borrados'
<1>1. CASE DestruirSegmento(h)
  BY <1>1 DEF DestruirSegmento, Borra
<1>2. CASE ~DestruirSegmento(h)
  <2>1. UNCHANGED borrados
    BY <1>2 DEF HiloUmv, Entra, Accede, CreaEn, CaePorWorstFit, PasaTest1, PasaTest2, CreaAlFinal,
                Crea, MandaCompactar, NoHayLugar, NadieBusco, EntraCompactacion,
                SaleCompactacion, historia
  <2> QED
    BY <2>1
<1> QED
  BY <1>1, <1>2

\* only a program that ends loses a segment, or one the operator destroys
LEMMA SegmentosQuedan ==
  ASSUME Base, Marcha, NEW h \in HilosUmv, HiloUmv(h), NEW p \in Pids, vida[p] # "exit",
         p \notin borrados', NEW s, <<p, s>> \in segmentos, ~basura'
  PROVE  <<p, s>> \in segmentos'
<1>1. CASE UNCHANGED segmentos
  BY <1>1
<1>2. CASE Crea(h)
  BY <1>2 DEF Crea
<1>3. CASE DestruirSegmento(h)
  <2>1. hilo[h] = "dentro" /\ pedido[h].op = "DESTRUIR_SEGMENTO"
        /\ segmentos' = segmentos \ {x \in segmentos : x[1] = pedido[h].pid}
    BY <1>3 DEF DestruirSegmento
  <2>2. pedido[h].pid # p
    <3>1. CASE h \in Cpus
      BY <2>1, <3>1 DEF Base, Origenes, OrigenCpu, DeCpu
    <3>2. CASE h = Consola
      <4> SUFFICES ASSUME pedido[h].pid = p PROVE p \in borrados'
        OBVIOUS
      <4>1. borrados' = borrados \cup {x[1] : x \in {y \in segmentos : y[1] = p}}
        BY <1>3, <3>2 DEF DestruirSegmento, Borra
      <4>2. <<p, s>>[1] = p
        OBVIOUS
      <4> QED
        BY <4>1, <4>2
    <3>3. CASE h = Kernel
      <4>1. pedido[h] \in DelKernel /\ pedido[h] \in Esperables(paso, creado, destruye)
        BY <2>1, <3>3 DEF Base, Origenes, OrigenKernel, Marcha, ElKernelPide
      <4>2. pedido[h].de = Exit /\ pedido[h].pid = destruye
        <5>1. pedido[h].de # Plp
          BY <2>1, <4>1, GuionCrea DEF Esperables, ConRespuesta
        <5>2. pedido[h].de = Exit
          BY <4>1, <5>1 DEF DelKernel, HilosKernel
        <5> QED
          BY <2>1, <4>1, <5>2 DEF Esperables, ConRespuesta
      <4>3. espera[Exit] \in {"respuesta", "cuerpo"}
        BY <2>1, <3>3, <4>2 DEF Marcha, ElKernelPide, Turno, TurnoBien, Atiende
      <4> QED
        BY <4>2, <4>3 DEF Marcha, ExitBien
    <3> QED
      BY <3>1, <3>2, <3>3, HilosDistintos
  <2>3. <<p, s>>[1] = p
    OBVIOUS
  <2> QED
    BY <2>1, <2>2, <2>3
<1> QED
  BY <1>1, <1>2, <1>3, PasosDeUmv DEF Avanza, Calla, Accede, SeCaeDelFinal, Base, Tipos

LEMMA ProgramasUmv ==
  ASSUME Base, Marcha, NEW h \in HilosUmv, HiloUmv(h), ~basura'
  PROVE  Programas' /\ ExitBien'
<1>1. UNCHANGED clientes
  BY UmvDejaClientes
<1>2. \A p \in Pids :
        vida[p] \in {"listo", "corre"} /\ p \notin borrados' =>
          \A s \in Segs : <<p, s>> \in segmentos'
  BY SegmentosQuedan, BorradosCrecen DEF Marcha, Programas
<1> QED
  BY <1>1, <1>2 DEF Marcha, Programas, ExitBien, clientes

\* an answer that is not a success to crearPCB
LEMMA OtraRespuesta ==
  ASSUME NEW r \in Seq(Respuestas), Sin(r, Logradas), NEW d \in Clientes \cup {SinPid},
         NEW ok \in BOOLEAN, ~(d = Plp /\ ok)
  PROVE  Sin(r \o Respuesta(d, ok), Logradas)
<1>1. [parte |-> "cabecera", de |-> d, ok |-> ok] \notin Logradas
  BY DEF Logradas, CuerposDe
<1>2. [parte |-> "cuerpo", de |-> d, ok |-> ok] \notin Logradas
  BY DEF Logradas, CuerposDe
<1> HIDE DEF Logradas
<1> QED
  BY <1>1, <1>2, AlResponder

LEMMA LogradasContesta ==
  ASSUME Base, Sin(regreso[Kernel], Logradas), NEW ok \in BOOLEAN, Responder(Kernel, ok),
         ~(pedido[Kernel].de = Plp /\ ok)
  PROVE  Sin(regreso'[Kernel], Logradas)
<1>1. regreso[Kernel] \in Seq(Respuestas) /\ pedido[Kernel].de \in Clientes \cup {SinPid}
  BY HilosDistintos DEF Base, Tipos, TiposRegreso, TiposHilo, Mensajes
<1>2. \/ regreso' = regreso
      \/ regreso' = [regreso EXCEPT ![Kernel] = @ \o Respuesta(pedido[Kernel].de, ok)]
  BY HilosDistintos DEF Responder, Respuesta
<1>3. \/ regreso'[Kernel] = regreso[Kernel]
      \/ regreso'[Kernel] = regreso[Kernel] \o Respuesta(pedido[Kernel].de, ok)
  BY <1>2, HilosDistintos DEF Base, TiposRegreso
<1> QED
  BY <1>1, <1>3, OtraRespuesta

\* what the UMV answers crearPCB about the segment it does not have
LEMMA LogradasUmv ==
  ASSUME Base, Marcha, NEW h \in HilosUmv, HiloUmv(h), ~basura', paso \in {2, 3},
         <<creado, Guion[paso].seg>> \notin segmentos', Sin(regreso[Kernel], Logradas)
  PROVE  Sin(regreso'[Kernel], Logradas)
<1>0. TiposHilo /\ TiposRegreso
  BY DEF Base, Tipos
<1>1. CASE h # Kernel
  <2>1. regreso'[Kernel] = regreso[Kernel]
    BY <1>0, <1>1, PasosEnTerminos, OtroHilo, HilosDistintos
  <2> QED
    BY <2>1
<1>2. CASE h = Kernel
  <2>1. hilo[Kernel] # "escucha" =>
          /\ pedido[Kernel] \in Esperables(paso, creado, destruye)
          /\ pedido[Kernel].op \in ConRespuesta
    BY DEF Marcha, ElKernelPide, Base, Origenes, OrigenKernel
  <2>2. hilo[Kernel] # "escucha" /\ pedido[Kernel].de = Plp =>
          pedido[Kernel].op = "CREAR_SEGMENTO" /\ pedido[Kernel].pid = creado
            /\ pedido[Kernel].seg = Guion[paso].seg
    BY <2>1, GuionCrea DEF Esperables
  <2>3. CASE Accede(Kernel)
    <3> DEFINE ok == <<Proceso(Kernel), pedido[Kernel].seg>> \in segmentos
    <3>1. Responder(Kernel, ok) /\ pedido[Kernel].de # Plp /\ ok \in BOOLEAN
      BY <2>2, <2>3 DEF Accede
    <3> HIDE DEF ok
    <3> QED
      BY <3>1, LogradasContesta
  <2>4. CASE DestruirSegmento(Kernel)
    BY <2>2, <2>4, LogradasContesta DEF DestruirSegmento
  <2>5. CASE Crea(Kernel) /\ hilo[Kernel] \in EnCrear
    <3>1. pedido[Kernel].de # Plp
      BY <2>2, <2>5 DEF Crea, EnCrear, EnPasada
    <3> QED
      BY <2>5, <3>1, LogradasContesta DEF Crea
  <2>6. CASE Contesta(Kernel, FALSE)
    BY <2>6, LogradasContesta DEF Contesta
  <2>7. CASE UNCHANGED regreso
    BY <2>7
  <2> QED
    BY <1>0, <1>2, <2>3, <2>4, <2>5, <2>6, <2>7, PasosDeUmv
       DEF Avanza, Calla, SeCaeDelFinal
<1> QED
  BY <1>1, <1>2

LEMMA CrearUmv ==
  ASSUME Base, Marcha, NEW h \in HilosUmv, HiloUmv(h), ~basura'
  PROVE  CrearBien'
<1>1. UNCHANGED clientes
  BY UmvDejaClientes
<1>2. CASE paso = 0
  BY <1>1, <1>2 DEF CrearBien, clientes
<1>3. CASE paso > 0
  <2>1. creado \in Pids /\ vida[creado] = "creando"
    BY <1>3 DEF Base, Tipos, TiposClientes, Marcha, CrearBien
  <2>2. ASSUME creado \notin borrados'
        PROVE  creado \notin borrados
               /\ \A s : <<creado, s>> \in segmentos => <<creado, s>> \in segmentos'
    BY <2>1, <2>2, SegmentosQuedan, BorradosCrecen
  <2>3. creado \notin borrados' /\ paso \in {2, 3} /\ <<creado, Guion[paso].seg>> \notin segmentos'
          => Sin(regreso'[Kernel], Logradas)
    BY <2>2, LogradasUmv DEF Marcha, CrearBien
  <2>4. creado \notin borrados' =>
          /\ paso > 2 => <<creado, "codigo">> \in segmentos'
          /\ paso > 3 => <<creado, "stack">> \in segmentos'
    BY <2>2 DEF Marcha, CrearBien
  <2> QED
    BY <1>1, <2>1, <2>3, <2>4 DEF CrearBien, clientes
<1> QED
  BY <1>2, <1>3 DEF Base, Tipos, TiposClientes

LEMMA RestoConexion ==
  ASSUME Base, Marcha, NEW c \in Conexiones, Conexion(c)
  PROVE  CrearBien' /\ ExitBien' /\ Programas'
<1>0. UNCHANGED <<clientes, segmentos, borrados>>
  <2>1. UNCHANGED <<segmentos, borrados>>
    BY DEF Conexion, LeeAviso, LeePedido, Rechaza, Cierra, compartido, historia
  <2> QED
    BY <2>1, UmvDejaClientes
<1>1. ExitBien' /\ Programas'
  BY <1>0 DEF Marcha, ExitBien, Programas, clientes
<1>2. Sin(regreso[Kernel], Logradas) => Sin(regreso'[Kernel], Logradas)
  <2>1. CASE UNCHANGED regreso
    BY <2>1
  <2>2. CASE Rechaza(c) /\ c = Kernel
    BY <2>2, LogradasContesta DEF Rechaza
  <2>3. CASE Rechaza(c) /\ c # Kernel
    <3>1. Responder(c, FALSE) /\ TiposRegreso
      BY <2>3 DEF Rechaza, Base
    <3>2. regreso'[Kernel] = regreso[Kernel]
      BY <2>3, <3>1, HilosDistintos DEF Responder, TiposRegreso
    <3> QED
      BY <3>2
  <2> QED
    BY <2>1, <2>2, <2>3 DEF Conexion, LeeAviso, LeePedido, Cierra, sockets
<1> QED
  BY <1>0, <1>1, <1>2 DEF Marcha, CrearBien, clientes

LEMMA RestoOperador ==
  ASSUME Base, Marcha, Operador
  PROVE  CrearBien' /\ ExitBien' /\ Programas'
<1>1. UNCHANGED <<clientes, sockets, segmentos>>
  BY OperadorDeja DEF Base, Tipos
<1>2. UNCHANGED borrados
  BY DEF Operador, ComandoOperacion, ComandoCompactar, ComandoAlgoritmo, Comando
<1> QED
  BY <1>1, <1>2 DEF Marcha, CrearBien, ExitBien, Programas, clientes, sockets

\* a body that is not on its way is not a success either
LEMMA SinCuerpo ==
  ASSUME NEW r, Sin(r, CuerposDe(Plp))
  PROVE  Sin(r, Logradas)
BY DEF Sin, Logradas

LEMMA RestoEmpieza ==
  ASSUME Base, Marcha, NEW p \in Pids, EmpiezaCrearPCB(p)
  PROVE  CrearBien' /\ ExitBien' /\ Programas'
<1>1. /\ vida[p] = "nuevo" /\ vida' = [vida EXCEPT ![p] = "creando"] /\ paso' = 1 /\ creado' = p
      /\ UNCHANGED <<pcb, espera, destruye, segmentos, borrados>>
  BY DEF EmpiezaCrearPCB, compartido, historia
<1>2. TiposClientes
  BY DEF Base, Tipos
<1>3. vida'[p] = "creando" /\ \A x \in Pids : x # p => vida'[x] = vida[x]
  BY <1>1, <1>2 DEF TiposClientes
<1>4. CrearBien'
  BY <1>1, <1>3 DEF CrearBien
<1>5. ExitBien'
  BY <1>1, <1>3 DEF Marcha, ExitBien
<1>6. Programas'
  BY <1>1, <1>2, <1>3 DEF Marcha, Programas, TiposClientes
<1> QED
  BY <1>4, <1>5, <1>6

LEMMA RestoCrear ==
  ASSUME Base, Marcha, CrearPCBPide
  PROVE  CrearBien' /\ ExitBien' /\ Programas'
<1>0. ClientesNext /\ TiposClientes
  BY DEF ClientesNext, HiloPlp, Base, Tipos
<1>1. /\ UNCHANGED <<vida, creado, pcb, destruye, regreso, segmentos, borrados>>
      /\ paso' = paso \/ (paso' = paso + 1 /\ Guion[paso].op \notin ConRespuesta)
      /\ paso \in 1..5 /\ espera[Plp] \in {"nueva", "libre"}
      /\ \E e : espera' = [espera EXCEPT ![Plp] = e]
  <2>1. UNCHANGED <<vida, creado, pcb, destruye, regreso>> /\ paso \in 1..5
    BY <1>0 DEF CrearPCBPide, TiposClientes
  <2>2. UNCHANGED <<segmentos, borrados>>
    BY <1>0, KernelClientes
  <2>3. paso' = paso \/ (paso' = paso + 1 /\ Guion[paso].op \notin ConRespuesta)
    BY DEF CrearPCBPide
  <2>4. EnviarOperacion(Plp, Guion[paso].op, creado, Guion[paso].seg)
    BY DEF CrearPCBPide
  <2>5. espera[Plp] \in {"nueva", "libre"} /\ \E e : espera' = [espera EXCEPT ![Plp] = e]
    BY <2>4 DEF EnviarOperacion
  <2> QED
    BY <2>1, <2>2, <2>3, <2>5
<1>2. Sin(regreso[Kernel], Logradas)
  BY <1>1, SinCuerpo DEF Marcha, ElKernelPide, Turno, TurnoBien
<1>3. Guion[2].op \in ConRespuesta /\ Guion[3].op \in ConRespuesta
  BY GuionCrea DEF ConRespuesta
<1>4. (paso' > 2 => paso > 2) /\ (paso' > 3 => paso > 3)
  BY <1>1, <1>3
<1>5. CrearBien'
  BY <1>1, <1>2, <1>4 DEF Marcha, CrearBien
<1>6. ExitBien'
  BY <1>0, <1>1, EsperaDistintas DEF Marcha, ExitBien, TiposClientes
<1>7. Programas'
  BY <1>1 DEF Marcha, Programas
<1> QED
  BY <1>5, <1>6, <1>7

LEMMA RestoCrearRecibe ==
  ASSUME Base, Marcha, CrearPCBRecibe, Sano'
  PROVE  CrearBien' /\ ExitBien' /\ Programas'
<1>0. ClientesNext /\ TiposClientes
  BY DEF ClientesNext, HiloPlp, Base, Tipos
<1> DEFINE V(ok) == CASE ok /\ paso < Len(Guion) -> vida[creado]
                      [] ok /\ paso = Len(Guion) -> "listo"
                      [] ~ok /\ paso > 2         -> "exit"
                      [] ~ok /\ paso <= 2        -> "fin"
<1>1. PICK ok \in BOOLEAN :
        /\ RecibirCuerpo(Plp, ok)
        /\ paso' = IF ok /\ paso < Len(Guion) THEN paso + 1 ELSE 0
        /\ creado' = IF ok /\ paso < Len(Guion) THEN creado ELSE SinPid
        /\ vida' = [vida EXCEPT ![creado] = V(ok)]
  BY Zenon DEF CrearPCBRecibe
<1>2. UNCHANGED <<pcb, destruye, ida, segmentos, borrados>>
  BY DEF CrearPCBRecibe, compartido, historia
<1>3. /\ espera[Plp] = "cuerpo" /\ ok = Head(regreso[Kernel]).ok
      /\ regreso[Kernel] # <<>> /\ espera' = [espera EXCEPT ![Plp] = "libre"]
  BY <1>0, <1>1, KernelClientes DEF RecibirCuerpo
<1>4. paso \in 1..5 /\ creado \in Pids /\ vida[creado] = "creando"
  BY <1>0, <1>3 DEF TiposClientes, Marcha, CrearBien
<1>5. ElKernelPide' /\ Head(regreso[Kernel]) \in CuerposDe(Plp)
  BY <1>0, <1>1, <1>2, KernelPideCuerpo, EsperaDistintas DEF Marcha, Sano
<1>6. espera'[Plp] = "libre" /\ espera'[Exit] = espera[Exit]
  BY <1>0, <1>3, EsperaDistintas DEF TiposClientes
<1>7. Sin(regreso'[Kernel], Logradas)
  BY <1>5, <1>6, SinCuerpo DEF ElKernelPide, Turno, TurnoBien
<1>8. ok /\ paso \in {2, 3} /\ creado \notin borrados =>
        <<creado, Guion[paso].seg>> \in segmentos
  <2> SUFFICES ASSUME ok, paso \in {2, 3}, Sin(regreso[Kernel], Logradas) PROVE FALSE
    BY DEF Marcha, CrearBien
  <2>1. Head(regreso[Kernel]) \in Logradas
    BY <1>3, <1>5 DEF Logradas
  <2>2. regreso[Kernel] \in Seq(Respuestas)
    BY <1>0, KernelClientes
  <2> HIDE DEF Logradas
  <2> QED
    BY <1>3, <2>1, <2>2, AlSacar
<1>9. V(ok) \in {"creando", "listo", "exit", "fin"} /\ (V(ok) = "listo" => ok /\ paso = 5)
      /\ (ok /\ paso < 5 => V(ok) = "creando")
  BY <1>4, GuionTipo
<1> HIDE DEF V
<1>10. vida'[creado] = V(ok) /\ \A x \in Pids : x # creado => vida'[x] = vida[x]
  BY <1>0, <1>1, <1>4 DEF TiposClientes
<1>11. CrearBien'
  <2>1. CASE ok /\ paso < 5
    <3>1. paso' = paso + 1 /\ creado' = creado /\ vida'[creado] = "creando"
      BY <1>1, <1>9, <1>10, <2>1, GuionTipo
    <3>2. creado \notin borrados => (paso' > 2 => <<creado, "codigo">> \in segmentos)
      BY <1>4, <1>8, <2>1, <3>1, GuionCrea DEF Marcha, CrearBien
    <3>3. creado \notin borrados => (paso' > 3 => <<creado, "stack">> \in segmentos)
      BY <1>4, <1>8, <2>1, <3>1, GuionCrea DEF Marcha, CrearBien
    <3> QED
      BY <1>2, <1>7, <3>1, <3>2, <3>3 DEF CrearBien
  <2>2. CASE ~(ok /\ paso < 5)
    <3>1. paso' = 0
      BY <1>1, <2>2, GuionTipo
    <3> QED
      BY <3>1 DEF CrearBien
  <2> QED
    BY <2>1, <2>2
<1>12. ExitBien'
  BY <1>2, <1>4, <1>6, <1>10 DEF Marcha, ExitBien
<1>13. Programas'
  <2>1. ok /\ paso = 5 /\ creado \notin borrados => \A s \in Segs : <<creado, s>> \in segmentos
    BY GuionCrea DEF Marcha, CrearBien
  <2>2. \A x \in Pids :
          vida'[x] \in {"listo", "corre"} /\ x \notin borrados =>
            \A s \in Segs : <<x, s>> \in segmentos
    <3> SUFFICES ASSUME NEW x \in Pids, vida'[x] \in {"listo", "corre"}, x \notin borrados,
                        NEW s \in Segs
                 PROVE  <<x, s>> \in segmentos
      OBVIOUS
    <3>1. CASE x = creado
      BY <1>9, <1>10, <2>1, <3>1
    <3>2. CASE x # creado
      BY <1>10, <3>2 DEF Marcha, Programas
    <3> QED
      BY <3>1, <3>2
  <2>3. \A c \in Cpus : pcb[c] # SinPid => vida'[pcb[c]] = "corre"
    BY <1>0, <1>4, <1>10 DEF Marcha, Programas, TiposClientes
  <2> QED
    BY <1>2, <2>2, <2>3 DEF Marcha, Programas
<1> QED
  BY <1>11, <1>12, <1>13

LEMMA RestoCabecera ==
  ASSUME Base, Marcha, NEW t \in {Plp, Exit}, Cliente(t)
  PROVE  CrearBien' /\ ExitBien' /\ Programas'
<1>0. ClientesNext /\ TiposClientes /\ TiposRegreso
  BY DEF ClientesNext, HiloPlp, HiloExit, Base, Tipos
<1>1. /\ regreso[Kernel] # <<>> /\ regreso' = [regreso EXCEPT ![Kernel] = Tail(@)]
      /\ UNCHANGED <<vida, paso, creado, pcb, destruye, segmentos, borrados>>
      /\ espera[t] \in {"respuesta", "cuerpo"} /\ \E e : espera' = [espera EXCEPT ![t] = e]
  BY <1>0, KernelClientes DEF Cliente, RecibirCabecera, Pierde
<1>2. regreso'[Kernel] = Tail(regreso[Kernel]) /\ regreso[Kernel] \in Seq(Respuestas)
  BY <1>0, <1>1, HilosDistintos DEF TiposRegreso
<1>3. Sin(regreso[Kernel], Logradas) => Sin(regreso'[Kernel], Logradas)
  BY <1>1, <1>2, AlSacar
<1>4. espera'[Exit] \in {"respuesta", "cuerpo"} => espera[Exit] \in {"respuesta", "cuerpo"}
  BY <1>0, <1>1, EsperaDistintas DEF TiposClientes
<1> QED
  BY <1>1, <1>3, <1>4 DEF Marcha, CrearBien, ExitBien, Programas

LEMMA RestoVaciar ==
  ASSUME Base, Marcha, NEW p \in Pids, VaciarColaExitPide(p)
  PROVE  CrearBien' /\ ExitBien' /\ Programas'
<1>1. /\ UNCHANGED <<vida, paso, creado, pcb, regreso, segmentos, borrados>>
      /\ destruye' = p /\ vida[p] = "exit"
  BY DEF VaciarColaExitPide, compartido, historia
<1> QED
  BY <1>1 DEF Marcha, CrearBien, ExitBien, Programas

LEMMA RestoVaciarRecibe ==
  ASSUME Base, Marcha, VaciarColaExitRecibe
  PROVE  CrearBien' /\ ExitBien' /\ Programas'
<1>0. ClientesNext /\ TiposClientes /\ TiposRegreso
  BY DEF ClientesNext, HiloExit, Base, Tipos
<1>1. PICK ok \in BOOLEAN : RecibirCuerpo(Exit, ok)
  BY DEF VaciarColaExitRecibe
<1>2. /\ vida' = [vida EXCEPT ![destruye] = "fin"]
      /\ UNCHANGED <<paso, creado, pcb, segmentos, borrados>>
  BY DEF VaciarColaExitRecibe, compartido, historia
<1>3. /\ espera[Exit] = "cuerpo" /\ espera' = [espera EXCEPT ![Exit] = "libre"]
      /\ regreso[Kernel] # <<>> /\ regreso' = [regreso EXCEPT ![Kernel] = Tail(@)]
  BY <1>0, <1>1, KernelClientes DEF RecibirCuerpo
<1>4. destruye \in Pids /\ vida[destruye] = "exit"
  BY <1>3 DEF Marcha, ExitBien
<1>5. vida'[destruye] = "fin" /\ \A x \in Pids : x # destruye => vida'[x] = vida[x]
  BY <1>0, <1>2, <1>4 DEF TiposClientes
<1>6. ExitBien'
  BY <1>0, <1>3, EsperaDistintas DEF ExitBien, TiposClientes
<1>7. Programas'
  BY <1>0, <1>2, <1>4, <1>5 DEF Marcha, Programas, TiposClientes
<1>8. Sin(regreso[Kernel], Logradas) => Sin(regreso'[Kernel], Logradas)
  <2>1. regreso'[Kernel] = Tail(regreso[Kernel]) /\ regreso[Kernel] \in Seq(Respuestas)
    BY <1>0, <1>3, HilosDistintos DEF TiposRegreso
  <2> QED
    BY <1>3, <2>1, AlSacar
<1>9. CrearBien'
  BY <1>0, <1>2, <1>4, <1>5, <1>8 DEF Marcha, CrearBien, TiposClientes
<1> QED
  BY <1>6, <1>7, <1>9

\* what a step of a CPU does to the programs, when the rest stays as it was
LEMMA RestoCpu ==
  ASSUME Base, Marcha, NEW c \in Cpus, Cpu(c) \/ CaeCpu(c), Programas',
         \A p \in Pids : vida[p] \in {"creando", "exit"} => vida'[p] = vida[p]
  PROVE  CrearBien' /\ ExitBien' /\ Programas'
<1>0. ClientesNext /\ TiposClientes
  BY DEF ClientesNext, Base, Tipos
<1>1. /\ UNCHANGED <<paso, creado, destruye, segmentos, borrados>>
      /\ regreso'[Kernel] = regreso[Kernel]
      /\ espera'[Exit] = espera[Exit]
  BY <1>0, CpuDejaKernel, KernelClientes
<1>2. paso > 0 => creado \in Pids
  BY <1>0 DEF TiposClientes
<1>3. CrearBien'
  BY <1>1, <1>2 DEF Marcha, CrearBien
<1>4. ExitBien'
  BY <1>1 DEF Marcha, ExitBien
<1> QED
  BY <1>3, <1>4

\* the program p the CPU ran becomes v, and the CPU is free
LEMMA ProgramaSale ==
  ASSUME TiposClientes, Programas, UNCHANGED <<segmentos, borrados>>,
         NEW c \in Cpus, pcb[c] # SinPid,
         NEW v \in {"listo", "exit"}, vida' = [vida EXCEPT ![pcb[c]] = v],
         pcb' = [pcb EXCEPT ![c] = SinPid]
  PROVE  /\ Programas'
         /\ \A p \in Pids : vida[p] \in {"creando", "exit"} => vida'[p] = vida[p]
<1>1. pcb[c] \in Pids /\ vida[pcb[c]] = "corre"
  BY DEF TiposClientes, Programas
<1>2. vida'[pcb[c]] = v /\ \A p \in Pids : p # pcb[c] => vida'[p] = vida[p]
  BY <1>1 DEF TiposClientes
<1>3. pcb'[c] = SinPid /\ \A d \in Cpus : d # c => pcb'[d] = pcb[d]
  BY DEF TiposClientes
<1>4. \A p \in Pids :
        vida'[p] \in {"listo", "corre"} /\ p \notin borrados =>
          \A s \in Segs : <<p, s>> \in segmentos
  BY <1>1, <1>2 DEF Programas
<1>5. \A d \in Cpus : pcb'[d] # SinPid => pcb[d] # pcb[c] /\ pcb'[d] = pcb[d] /\ pcb[d] \in Pids
  BY <1>3 DEF Programas, TiposClientes
<1>6. \A d \in Cpus : pcb'[d] # SinPid => vida'[pcb'[d]] = "corre"
  BY <1>2, <1>5 DEF Programas
<1>7. \A d, e \in Cpus : pcb'[d] = pcb'[e] /\ pcb'[d] # SinPid => d = e
  BY <1>5 DEF Programas
<1> QED
  BY <1>1, <1>2, <1>4, <1>6, <1>7 DEF Programas

LEMMA RestoEstaCpu ==
  ASSUME Base, Marcha, NEW c \in Cpus, Cpu(c) \/ CaeCpu(c)
  PROVE  CrearBien' /\ ExitBien' /\ Programas'
<1>0. ClientesNext /\ TiposClientes /\ Programas /\ TiposRegreso /\ c \in Clientes
      /\ Socket(c) = c
  BY EsperaDistintas, SocketDeOtro DEF ClientesNext, Base, Tipos, Marcha
<1>1. UNCHANGED <<segmentos, borrados>>
  BY <1>0, KernelClientes
<1>2. UNCHANGED <<vida, pcb>> => CrearBien' /\ ExitBien' /\ Programas'
  <2> SUFFICES ASSUME UNCHANGED <<vida, pcb>> PROVE CrearBien' /\ ExitBien' /\ Programas'
    OBVIOUS
  <2>1. Programas'
    BY <1>0, <1>1 DEF Programas
  <2> QED
    BY <2>1, RestoCpu
<1>3. ASSUME NEW p \in Pids, TomaPcb(c, p) PROVE CrearBien' /\ ExitBien' /\ Programas'
  <2>1. /\ vida[p] = "listo" /\ pcb[c] = SinPid
        /\ vida' = [vida EXCEPT ![p] = "corre"] /\ pcb' = [pcb EXCEPT ![c] = p]
    BY <1>3 DEF TomaPcb
  <2>2. vida'[p] = "corre" /\ \A x \in Pids : x # p => vida'[x] = vida[x]
    BY <1>0, <2>1 DEF TiposClientes
  <2>3. pcb'[c] = p /\ \A d \in Cpus : d # c => pcb'[d] = pcb[d]
    BY <1>0, <2>1 DEF TiposClientes
  <2>4. \A d \in Cpus : pcb[d] # SinPid => pcb[d] # p /\ pcb[d] \in Pids
    BY <1>0, <2>1 DEF Programas, TiposClientes
  <2>5. \A x \in Pids :
          vida'[x] \in {"listo", "corre"} /\ x \notin borrados =>
            \A s \in Segs : <<x, s>> \in segmentos
    BY <1>0, <2>1, <2>2 DEF Programas
  <2>6. \A d \in Cpus : pcb'[d] # SinPid => vida'[pcb'[d]] = "corre"
    BY <1>0, <2>2, <2>3, <2>4 DEF Programas
  <2>7. \A d, e \in Cpus : pcb'[d] = pcb'[e] /\ pcb'[d] # SinPid => d = e
    BY <1>0, <2>3, <2>4 DEF Programas
  <2>8. Programas'
    BY <1>1, <2>5, <2>6, <2>7 DEF Programas
  <2>9. \A x \in Pids : vida[x] \in {"creando", "exit"} => vida'[x] = vida[x]
    BY <2>1, <2>2
  <2> QED
    BY <2>8, <2>9, RestoCpu
<1>4. CASE CpuRecibe(c)
  <2>1. PICK ok \in BOOLEAN :
          /\ RecibirCuerpo(c, ok)
          /\ vida' = IF ok THEN vida ELSE [vida EXCEPT ![pcb[c]] = "exit"]
          /\ pcb' = IF ok THEN pcb ELSE [pcb EXCEPT ![c] = SinPid]
    BY <1>4 DEF CpuRecibe
  <2>2. espera[c] = "cuerpo"
    BY <2>1 DEF RecibirCuerpo
  <2>3. pcb[c] # SinPid
    BY <2>2 DEF Base, Canales, Canal, CanalBien
  <2>4. CASE ok
    BY <1>2, <2>1, <2>4
  <2>5. CASE ~ok
    BY <1>0, <1>1, <2>1, <2>3, <2>5, ProgramaSale, RestoCpu
  <2> QED
    BY <2>4, <2>5
<1>5. ASSUME NEW v \in {"listo", "exit"}, CpuDevuelve(c, v)
      PROVE  CrearBien' /\ ExitBien' /\ Programas'
  <2>1. /\ pcb[c] # SinPid /\ vida' = [vida EXCEPT ![pcb[c]] = v]
        /\ pcb' = [pcb EXCEPT ![c] = SinPid]
    BY <1>5 DEF CpuDevuelve
  <2> QED
    BY <1>0, <1>1, <2>1, ProgramaSale, RestoCpu
<1>6. CASE CaeCpu(c)
  <2>1. /\ vida' = [p \in Pids |-> IF p = pcb[c] THEN "exit" ELSE vida[p]]
        /\ pcb' = [pcb EXCEPT ![c] = SinPid]
    BY <1>6 DEF CaeCpu
  <2>2. CASE pcb[c] = SinPid
    <3>1. vida' = vida /\ pcb' = pcb
      BY <1>0, <2>1, <2>2, ClientesAssumption DEF TiposClientes
    <3> QED
      BY <1>2, <3>1
  <2>3. CASE pcb[c] # SinPid
    <3>1. vida' = [vida EXCEPT ![pcb[c]] = "exit"]
      BY <1>0, <2>1 DEF TiposClientes
    <3> QED
      BY <1>0, <1>1, <2>1, <2>3, <3>1, ProgramaSale, RestoCpu
  <2> QED
    BY <2>2, <2>3
<1>7. CASE HandshakeUMV(c) \/ Cliente(c)
  BY <1>2, <1>7 DEF HandshakeUMV, Cliente, RecibirCabecera, Pierde
<1>8. ASSUME NEW op, NEW s, CpuPide(c, op, s) PROVE CrearBien' /\ ExitBien' /\ Programas'
  BY <1>2, <1>8 DEF CpuPide
<1> QED
  BY <1>3, <1>4, <1>5, <1>6, <1>7, <1>8 DEF Cpu

LEMMA MarchaPaso ==
  ASSUME Base, Marcha, [Next]_vars, Sano'
  PROVE  Marcha'
<1>0. ~basura' /\ ElKernelPide'
  BY KernelPidePaso DEF Sano, Marcha
<1> SUFFICES CrearBien' /\ ExitBien' /\ Programas'
  BY <1>0 DEF Marcha
<1>1. ASSUME NEW h \in HilosUmv, HiloUmv(h)
      PROVE  CrearBien' /\ ExitBien' /\ Programas'
  BY <1>0, <1>1, CrearUmv, ProgramasUmv
<1>2. ASSUME NEW c \in Conexiones, Conexion(c)
      PROVE  CrearBien' /\ ExitBien' /\ Programas'
  BY <1>2, RestoConexion
<1>3. CASE Operador
  BY <1>3, RestoOperador
<1>4. CASE ClientesNext
  BY <1>4, RestoEmpieza, RestoCrear, RestoCrearRecibe, RestoCabecera, RestoVaciar,
     RestoVaciarRecibe, RestoEstaCpu
     DEF ClientesNext, HiloPlp, HiloExit
<1>5. CASE Quieto
  BY <1>5 DEF Marcha, CrearBien, ExitBien, Programas, Quieto, sockets, compartido, historia
<1> QED
  BY <1>1, <1>2, <1>3, <1>4, <1>5, CasosDeNext

LEMMA CanalesSiempre == Spec => []Canales
<1>1. Tipos /\ TiposRegreso /\ Canales /\ [Next]_vars => Canales'
  BY CanalesPaso
<1> QED
  BY <1>1, CanalesInit, TiposSiempre, TiposRegresoSiempre, PTL DEF Spec

LEMMA MarchaSiempre == Spec => [](Sano => Marcha)
<1>1. Tipos /\ TiposRegreso /\ Canales /\ Origenes /\ (Sano => Marcha) /\ [Next]_vars
        => (Sano => Marcha)'
  BY SanoAntes, MarchaPaso DEF Base
<1> QED
  BY <1>1, MarchaInit, TiposSiempre, TiposRegresoSiempre, CanalesSiempre, OrigenesSiempre, PTL
     DEF Spec

\* For any number of CPUs and programs, and whatever the operator types: a CPU
\* asks for bytes only when the UMV takes it for a CPU, and the segment it names
\* is there, of the program it runs, unless the operator destroyed the segments
\* of that program or the bytes are past the end of one.  No crearSegmento may
\* have ended without a return, and no thread of the Kernel have read the answer
\* of the other.  The UMV works for the program the CPU has; that program got
\* its segments one by one in crearPCB; and but for the operator only
\* vaciarColaExit takes segments back, from a program no CPU can have.
THEOREM SinSegfaultSiempre == Spec => []SinSegfault
<1>1. Tipos /\ Canales /\ Origenes /\ (Sano => Marcha) => SinSegfault
  <2> SUFFICES ASSUME Tipos, Canales, Origenes, Sano => Marcha, ~basura, RespuestaPropia,
                      NEW c \in Cpus, hilo[c] \in {"dentro", "rechaza"}, espera[c] # "muerta",
                      pcb[c] \notin borrados, pedido[c].seg # "fuera"
               PROVE  hilo[c] = "dentro" /\ <<activo[c], pedido[c].seg>> \in segmentos
    BY DEF SinSegfault
  <2>1. Programas
    BY EsperaDistintas DEF Sano, Propia, RespuestaPropia, Marcha
  <2>2. CanalBien(c, espera[c], pcb[c], ida[c], regreso[c], tipo[c], activo[c], hilo[c],
                  pedido[c].de)
    BY DEF Canales, Canal
  <2>3. ida[c] = <<>> /\ espera[c] = "respuesta" /\ pcb[c] # SinPid
    BY <2>2 DEF CanalBien
  <2>4. hilo[c] = "dentro"
    <3>1. hilo[c] = "rechaza" => tipo[c] = "-1"
      BY DEF Origenes, OrigenCpu
    <3>2. tipo[c] # "-1"
      BY <2>2, <2>3 DEF CanalBien
    <3> QED
      BY <3>1, <3>2
  <2>5. activo[c] = pcb[c]
    BY <2>4, CanalesAtienden DEF AtiendeAlProceso
  <2>6. pcb[c] \in Pids /\ vida[pcb[c]] = "corre"
    BY <2>1, <2>3 DEF Tipos, TiposClientes, Programas
  <2>7. pedido[c].seg \in Segs
    BY <2>4 DEF Origenes, OrigenCpu, DeCpu
  <2> QED
    BY <2>1, <2>4, <2>5, <2>6, <2>7 DEF Programas
<1> QED
  BY <1>1, TiposSiempre, CanalesSiempre, OrigenesSiempre, MarchaSiempre, PTL

-----------------------------------------------------------------------------
(* Whose the answers are                                                   *)

\* the answers of a connection are for the clients behind it
Suyas ==
  \A c \in Conexiones :
    Todos(regreso[c], {m \in Respuestas : m.de \in Clientes /\ Socket(m.de) = c})

LEMMA SuyasResponde ==
  ASSUME Base, Suyas, NEW h \in HilosUmv, NEW ok \in BOOLEAN, Contesta(h, ok)
  PROVE  Suyas'
<1>1. CASE UNCHANGED regreso
  BY <1>1 DEF Suyas
<1>2. CASE h \in Conexiones /\ regreso' = [regreso EXCEPT ![h] = @ \o Respuesta(pedido[h].de, ok)]
  <2>1. pedido[h].de \in Clientes /\ Socket(pedido[h].de) = h
    <3>1. CASE h \in Cpus
      BY <3>1, EsperaDistintas, SocketDeOtro DEF Contesta, Base, Origenes, OrigenCpu, DeCpu
    <3>2. CASE h = Kernel
      <4>1. pedido[Kernel].de \in HilosKernel
        BY <3>2 DEF Contesta, Base, Origenes, OrigenKernel, DelKernel
      <4> QED
        BY <3>2, <4>1, ClientesAssumption DEF HilosKernel, Clientes, Socket
    <3> QED
      BY <1>2, <3>1, <3>2, HilosDistintos
  <2> SUFFICES ASSUME NEW c \in Conexiones
               PROVE  Todos(regreso'[c], {m \in Respuestas : m.de \in Clientes /\ Socket(m.de) = c})
    BY DEF Suyas
  <2> DEFINE X == {m \in Respuestas : m.de \in Clientes /\ Socket(m.de) = c}
  <2>2. Todos(regreso[c], X) /\ regreso[c] \in Seq(Respuestas)
    BY DEF Suyas, Base, TiposRegreso
  <2>3. CASE c # h
    <3>1. regreso'[c] = regreso[c]
      BY <1>2, <2>3 DEF Base, TiposRegreso
    <3> QED
      BY <2>2, <3>1
  <2>4. CASE c = h
    <3>1. PICK d \in Clientes : d = pedido[h].de
      BY <2>1
    <3>2. /\ [parte |-> "cabecera", de |-> d, ok |-> ok] \in X
          /\ [parte |-> "cuerpo", de |-> d, ok |-> ok] \in X
      BY <2>1, <2>4, <3>1 DEF Respuestas
    <3>3. regreso'[c] = regreso[c] \o Respuesta(d, ok)
      BY <1>2, <2>4, <3>1 DEF Base, TiposRegreso
    <3> HIDE DEF X
    <3>4. Todos(regreso'[c], X)
      BY <2>2, <3>2, <3>3, AlResponderTodos
    <3> QED
      BY <3>4 DEF X
  <2> QED
    BY <2>3, <2>4
<1> QED
  BY <1>1, <1>2, HilosDistintos DEF Contesta, Responder, Respuesta

\* a piece of an answer is read
LEMMA SuyasRecibe ==
  ASSUME TiposRegreso, Suyas, NEW t \in Clientes, regreso[Socket(t)] # <<>>,
         regreso' = [regreso EXCEPT ![Socket(t)] = Tail(@)]
  PROVE  Suyas'
<1> SUFFICES ASSUME NEW c \in Conexiones
             PROVE  Todos(regreso'[c], {m \in Respuestas : m.de \in Clientes /\ Socket(m.de) = c})
  BY DEF Suyas
<1> DEFINE X == {m \in Respuestas : m.de \in Clientes /\ Socket(m.de) = c}
<1>1. Todos(regreso[c], X) /\ regreso[c] \in Seq(Respuestas)
  BY DEF Suyas, TiposRegreso
<1>2. regreso'[c] = regreso[c] \/ (regreso[c] # <<>> /\ regreso'[c] = Tail(regreso[c]))
  BY DEF TiposRegreso
<1> HIDE DEF X
<1>3. Todos(regreso'[c], X)
  BY <1>1, <1>2, AlSacar
<1> QED
  BY <1>3 DEF X

\* and it is a piece for a client of that connection
LEMMA CabezaSuya ==
  ASSUME TiposRegreso, Suyas, NEW c \in Conexiones, regreso[c] # <<>>
  PROVE  Head(regreso[c]).de \in Clientes /\ Socket(Head(regreso[c]).de) = c
<1> DEFINE X == {m \in Respuestas : m.de \in Clientes /\ Socket(m.de) = c}
<1>1. Todos(regreso[c], X) /\ regreso[c] \in Seq(Respuestas)
  BY DEF Suyas, TiposRegreso
<1>2. Head(regreso[c]) \in X
  <2> HIDE DEF X
  <2> QED
    BY <1>1, AlSacar
<1> QED
  BY <1>2

LEMMA SuyasPaso ==
  ASSUME Base, Suyas, [Next]_vars
  PROVE  Suyas'
<1>0. UNCHANGED regreso => Suyas'
  BY DEF Suyas
<1> TiposRegreso /\ TiposHilo
  BY DEF Base, Tipos
<1>1. ASSUME NEW h \in HilosUmv, HiloUmv(h) PROVE Suyas'
  BY <1>0, <1>1, PasosEnTerminos, SuyasResponde DEF Avanza, Calla
<1>2. ASSUME NEW c \in Conexiones, Conexion(c) PROVE Suyas'
  <2>1. Rechaza(c) => Contesta(c, FALSE) /\ c \in HilosUmv
    BY HilosDistintos DEF Rechaza, Contesta
  <2> QED
    BY <1>0, <1>2, <2>1, SuyasResponde DEF Conexion, LeeAviso, LeePedido, Cierra, sockets
<1>3. CASE Operador
  BY <1>0, <1>3, OperadorDeja DEF sockets
<1>4. ASSUME NEW t \in Clientes, Cliente(t) \/ \E ok \in BOOLEAN : RecibirCuerpo(t, ok)
      PROVE  Suyas'
  BY <1>4, SuyasRecibe DEF Cliente, RecibirCabecera, Pierde, RecibirCuerpo
<1>5. CASE HiloPlp \/ HiloExit \/ \E p \in Pids : EmpiezaCrearPCB(p)
  BY <1>0, <1>4, <1>5, EsperaDistintas
     DEF HiloPlp, HiloExit, CrearPCBPide, CrearPCBRecibe, VaciarColaExitPide,
         VaciarColaExitRecibe, EmpiezaCrearPCB, sockets
<1>6. ASSUME NEW c \in Cpus, Cpu(c) PROVE Suyas'
  BY <1>0, <1>4, <1>6, EsperaDistintas
     DEF Cpu, HandshakeUMV, CpuRecibe, TomaPcb, CpuPide, CpuDevuelve, sockets
<1>7. ASSUME NEW c \in Cpus, CaeCpu(c) PROVE Suyas'
  <2>1. regreso' = [regreso EXCEPT ![c] = <<>>]
    BY <1>7 DEF CaeCpu
  <2>2. \A d \in Conexiones : regreso'[d] = regreso[d] \/ regreso'[d] = <<>>
    BY <2>1 DEF TiposRegreso
  <2> QED
    BY <2>2, TodosVacia DEF Suyas
<1>8. Quieto => UNCHANGED regreso
  BY DEF Quieto, sockets
<1> QED
  BY <1>0, <1>1, <1>2, <1>3, <1>5, <1>6, <1>7, <1>8, CasosDeNext DEF ClientesNext

LEMMA BaseSiempre == Spec => []Base
BY TiposSiempre, TiposRegresoSiempre, CanalesSiempre, OrigenesSiempre, PTL DEF Base

LEMMA SuyasSiempre == Spec => []Suyas
<1>1. Init => Suyas
  BY TodosVacia DEF Init, Suyas
<1> QED
  BY <1>1, SuyasPaso, BaseSiempre, PTL DEF Spec

-----------------------------------------------------------------------------
(* What each program is doing                                              *)

\* a program that is being created is the one crearPCB works for, one whose
\* segments are given back is in colaExit, and one a CPU has runs there alone
Papeles ==
  /\ paso > 0 => vida[creado] = "creando"
  /\ espera[Exit] \in {"respuesta", "cuerpo"} => destruye \in Pids /\ vida[destruye] = "exit"
  /\ \A c \in Cpus : pcb[c] # SinPid => vida[pcb[c]] = "corre"
  /\ \A c, d \in Cpus : pcb[c] = pcb[d] /\ pcb[c] # SinPid => c = d

LEMMA PapelesQuieto ==
  ASSUME Papeles, UNCHANGED <<vida, pcb, paso, creado, destruye>>,
         espera'[Exit] \in {"respuesta", "cuerpo"} => espera[Exit] \in {"respuesta", "cuerpo"}
  PROVE  Papeles'
BY DEF Papeles

\* a program that neither is being created nor waits in colaExit leaves its CPU
LEMMA PapelesSale ==
  ASSUME TiposClientes, Papeles, NEW c \in Cpus, pcb[c] # SinPid, NEW v,
         vida' = [vida EXCEPT ![pcb[c]] = v], pcb' = [pcb EXCEPT ![c] = SinPid],
         UNCHANGED <<paso, creado, destruye>>, espera'[Exit] = espera[Exit]
  PROVE  Papeles'
<1>1. pcb[c] \in Pids /\ vida[pcb[c]] = "corre"
  BY DEF TiposClientes, Papeles
<1>2. \A p \in Pids : p # pcb[c] => vida'[p] = vida[p]
  BY DEF TiposClientes
<1>3. pcb'[c] = SinPid /\ \A d \in Cpus : d # c => pcb'[d] = pcb[d]
  BY DEF TiposClientes
<1>4. \A d \in Cpus : pcb'[d] # SinPid => pcb[d] # pcb[c] /\ pcb'[d] = pcb[d] /\ pcb[d] \in Pids
  BY <1>3 DEF Papeles, TiposClientes
<1>5. paso > 0 => creado # pcb[c] /\ creado \in Pids
  BY <1>1 DEF Papeles, TiposClientes
<1>6. espera[Exit] \in {"respuesta", "cuerpo"} => destruye # pcb[c]
  BY <1>1 DEF Papeles
<1>7. \A d \in Cpus : pcb'[d] # SinPid => vida'[pcb'[d]] = "corre"
  BY <1>2, <1>4 DEF Papeles
<1>8. \A d, e \in Cpus : pcb'[d] = pcb'[e] /\ pcb'[d] # SinPid => d = e
  BY <1>4 DEF Papeles
<1> QED
  BY <1>2, <1>5, <1>6, <1>7, <1>8 DEF Papeles

LEMMA PapelesPlp ==
  ASSUME TiposClientes, Papeles, HiloPlp
  PROVE  Papeles'
<1>1. CASE CrearPCBPide
  <2>1. /\ UNCHANGED <<vida, creado, pcb, destruye>> /\ paso > 0
        /\ \E e : espera' = [espera EXCEPT ![Plp] = e]
    BY <1>1 DEF CrearPCBPide, EnviarOperacion
  <2>2. espera'[Exit] = espera[Exit]
    BY <2>1, EsperaDistintas DEF TiposClientes
  <2> QED
    BY <2>1, <2>2 DEF Papeles
<1>2. CASE CrearPCBRecibe
  <2>1. PICK ok \in BOOLEAN :
          /\ RecibirCuerpo(Plp, ok)
          /\ paso' = IF ok /\ paso < Len(Guion) THEN paso + 1 ELSE 0
          /\ creado' = IF ok /\ paso < Len(Guion) THEN creado ELSE SinPid
          /\ vida' = [vida EXCEPT ![creado] =
                        CASE ok /\ paso < Len(Guion) -> @
                          [] ok /\ paso = Len(Guion) -> "listo"
                          [] ~ok /\ paso > 2         -> "exit"
                          [] ~ok /\ paso <= 2        -> "fin"]
    BY <1>2, Zenon DEF CrearPCBRecibe
  <2>2. espera[Plp] = "cuerpo" /\ espera' = [espera EXCEPT ![Plp] = "libre"]
        /\ UNCHANGED <<pcb, destruye>>
    BY <1>2, <2>1 DEF CrearPCBRecibe, RecibirCuerpo
  <2>3. paso \in 1..5 /\ creado \in Pids /\ vida[creado] = "creando" /\ Len(Guion) = 5
    BY <2>2, GuionTipo DEF TiposClientes, Papeles
  <2>4. espera'[Exit] = espera[Exit]
    BY <2>2, EsperaDistintas DEF TiposClientes
  <2>5. \A p \in Pids : p # creado => vida'[p] = vida[p]
    BY <2>1 DEF TiposClientes
  <2>6. paso' > 0 => vida'[creado'] = "creando"
    <3>1. CASE ok /\ paso < 5
      BY <2>1, <2>3, <3>1 DEF TiposClientes
    <3>2. CASE ~(ok /\ paso < 5)
      BY <2>1, <2>3, <3>2
    <3> QED
      BY <3>1, <3>2
  <2>7. \A c \in Cpus : pcb[c] # SinPid => pcb[c] \in Pids /\ pcb[c] # creado
    BY <2>3 DEF Papeles, TiposClientes
  <2>8. espera[Exit] \in {"respuesta", "cuerpo"} => destruye # creado
    BY <2>3 DEF Papeles
  <2> QED
    BY <2>2, <2>4, <2>5, <2>6, <2>7, <2>8 DEF Papeles
<1>3. CASE Cliente(Plp)
  <2>1. UNCHANGED <<vida, paso, creado, pcb, destruye>>
        /\ \E e : espera' = [espera EXCEPT ![Plp] = e]
    BY <1>3 DEF Cliente, RecibirCabecera, Pierde
  <2>2. espera'[Exit] = espera[Exit]
    BY <2>1, EsperaDistintas DEF TiposClientes
  <2> QED
    BY <2>1, <2>2, PapelesQuieto
<1> QED
  BY <1>1, <1>2, <1>3 DEF HiloPlp

LEMMA PapelesExit ==
  ASSUME TiposClientes, Papeles, HiloExit
  PROVE  Papeles'
<1>1. ASSUME NEW p \in Pids, VaciarColaExitPide(p) PROVE Papeles'
  <2>1. UNCHANGED <<vida, paso, creado, pcb>> /\ destruye' = p /\ vida[p] = "exit"
    BY <1>1 DEF VaciarColaExitPide
  <2> QED
    BY <2>1 DEF Papeles
<1>2. CASE VaciarColaExitRecibe
  <2>1. PICK ok \in BOOLEAN : RecibirCuerpo(Exit, ok)
    BY <1>2 DEF VaciarColaExitRecibe
  <2>2. /\ vida' = [vida EXCEPT ![destruye] = "fin"] /\ UNCHANGED <<paso, creado, pcb>>
        /\ espera[Exit] = "cuerpo" /\ espera' = [espera EXCEPT ![Exit] = "libre"]
    BY <1>2, <2>1 DEF VaciarColaExitRecibe, RecibirCuerpo
  <2>3. destruye \in Pids /\ vida[destruye] = "exit"
    BY <2>2 DEF Papeles
  <2>4. \A p \in Pids : p # destruye => vida'[p] = vida[p]
    BY <2>2 DEF TiposClientes
  <2>5. espera'[Exit] = "libre"
    BY <2>2, EsperaDistintas DEF TiposClientes
  <2>6. paso > 0 => creado \in Pids /\ creado # destruye
    BY <2>3 DEF Papeles, TiposClientes
  <2>7. \A c \in Cpus : pcb[c] # SinPid => pcb[c] \in Pids /\ pcb[c] # destruye
    BY <2>3 DEF Papeles, TiposClientes
  <2> QED
    BY <2>2, <2>4, <2>5, <2>6, <2>7 DEF Papeles
<1>3. CASE Cliente(Exit)
  <2>1. /\ UNCHANGED <<vida, paso, creado, pcb, destruye>>
        /\ espera[Exit] \in {"respuesta", "cuerpo"}
    BY <1>3 DEF Cliente, RecibirCabecera, Pierde
  <2> QED
    BY <2>1, PapelesQuieto
<1> QED
  BY <1>1, <1>2, <1>3 DEF HiloExit

LEMMA PapelesCpu ==
  ASSUME Base, Papeles, NEW c \in Cpus, Cpu(c) \/ CaeCpu(c)
  PROVE  Papeles'
<1>0. /\ UNCHANGED <<paso, creado, destruye>> /\ espera'[Exit] = espera[Exit]
      /\ TiposClientes
  BY CpuDejaKernel DEF Base, Tipos
<1>1. UNCHANGED <<vida, pcb>> => Papeles'
  BY <1>0, PapelesQuieto
<1>2. CASE HandshakeUMV(c) \/ Cliente(c)
  BY <1>1, <1>2 DEF HandshakeUMV, Cliente, RecibirCabecera, Pierde
<1>3. ASSUME NEW op, NEW s, CpuPide(c, op, s) PROVE Papeles'
  BY <1>1, <1>3 DEF CpuPide
<1>4. ASSUME NEW p \in Pids, TomaPcb(c, p) PROVE Papeles'
  <2>1. /\ vida[p] = "listo" /\ vida' = [vida EXCEPT ![p] = "corre"]
        /\ pcb' = [pcb EXCEPT ![c] = p]
    BY <1>4 DEF TomaPcb
  <2>2. vida'[p] = "corre" /\ \A x \in Pids : x # p => vida'[x] = vida[x]
    BY <1>0, <2>1 DEF TiposClientes
  <2>3. pcb'[c] = p /\ \A d \in Cpus : d # c => pcb'[d] = pcb[d]
    BY <1>0, <2>1 DEF TiposClientes
  <2>4. \A d \in Cpus : pcb[d] # SinPid => pcb[d] # p /\ pcb[d] \in Pids
    BY <1>0, <2>1 DEF Papeles, TiposClientes
  <2>5. paso > 0 => creado \in Pids /\ creado # p
    BY <1>0, <2>1 DEF Papeles, TiposClientes
  <2>6. espera[Exit] \in {"respuesta", "cuerpo"} => destruye # p
    BY <2>1 DEF Papeles
  <2> QED
    BY <1>0, <2>2, <2>3, <2>4, <2>5, <2>6 DEF Papeles
<1>5. CASE CpuRecibe(c)
  <2>1. PICK ok \in BOOLEAN :
          /\ RecibirCuerpo(c, ok)
          /\ vida' = IF ok THEN vida ELSE [vida EXCEPT ![pcb[c]] = "exit"]
          /\ pcb' = IF ok THEN pcb ELSE [pcb EXCEPT ![c] = SinPid]
    BY <1>5 DEF CpuRecibe
  <2>2. pcb[c] # SinPid
    <3>1. espera[c] = "cuerpo"
      BY <2>1 DEF RecibirCuerpo
    <3> QED
      BY <3>1 DEF Base, Canales, Canal, CanalBien
  <2> QED
    BY <1>0, <1>1, <2>1, <2>2, PapelesSale
<1>6. ASSUME NEW v \in {"listo", "exit"}, CpuDevuelve(c, v) PROVE Papeles'
  BY <1>0, <1>6, PapelesSale DEF CpuDevuelve
<1>7. CASE CaeCpu(c)
  <2>1. /\ vida' = [p \in Pids |-> IF p = pcb[c] THEN "exit" ELSE vida[p]]
        /\ pcb' = [pcb EXCEPT ![c] = SinPid]
    BY <1>7 DEF CaeCpu
  <2>2. CASE pcb[c] = SinPid
    <3>1. vida' = vida /\ pcb' = pcb
      BY <1>0, <2>1, <2>2, ClientesAssumption DEF TiposClientes
    <3> QED
      BY <1>1, <3>1
  <2>3. CASE pcb[c] # SinPid
    <3>1. vida' = [vida EXCEPT ![pcb[c]] = "exit"]
      BY <1>0, <2>1 DEF TiposClientes
    <3> QED
      BY <1>0, <2>1, <2>3, <3>1, PapelesSale
  <2> QED
    BY <2>2, <2>3
<1> QED
  BY <1>2, <1>3, <1>4, <1>5, <1>6, <1>7 DEF Cpu

LEMMA PapelesPaso ==
  ASSUME Base, Papeles, [Next]_vars
  PROVE  Papeles'
<1>0. TiposClientes
  BY DEF Base, Tipos
<1>1. UNCHANGED clientes => Papeles'
  BY PapelesQuieto DEF clientes
<1>2. ASSUME NEW p \in Pids, EmpiezaCrearPCB(p) PROVE Papeles'
  <2>1. /\ vida[p] = "nuevo" /\ vida' = [vida EXCEPT ![p] = "creando"] /\ creado' = p
        /\ UNCHANGED <<pcb, espera, destruye>>
    BY <1>2 DEF EmpiezaCrearPCB
  <2>2. vida'[p] = "creando" /\ \A x \in Pids : x # p => vida'[x] = vida[x]
    BY <1>0, <2>1 DEF TiposClientes
  <2>3. \A c \in Cpus : pcb[c] # SinPid => pcb[c] # p /\ pcb[c] \in Pids
    BY <1>0, <2>1 DEF Papeles, TiposClientes
  <2> QED
    BY <2>1, <2>2, <2>3 DEF Papeles
<1>3. Quieto => Papeles'
  BY PapelesQuieto DEF Quieto
<1> QED
  BY <1>0, <1>1, <1>2, <1>3, CasosDeNext, UmvDejaClientes, PapelesPlp, PapelesExit, PapelesCpu
     DEF ClientesNext

LEMMA PapelesSiempre == Spec => []Papeles
<1>1. Init => Papeles
  BY EsperaDistintas DEF Init, Papeles
<1> QED
  BY <1>1, PapelesPaso, BaseSiempre, PTL DEF Spec

-----------------------------------------------------------------------------
(* The answers to the two threads of the Kernel                            *)

\* a thread of the Kernel waits for an answer; only one does, as a lock around
\* enviarOperacion would have it
Espera(t) == espera[t] \in {"respuesta", "cuerpo"}
PorTurnos == ~Espera(Plp) \/ ~Espera(Exit)

\* what is on its way to the Kernel: nothing, the two pieces of the answer of a
\* thread that has read neither, or the second of them for one that has read
\* the first
Partes ==
  \/ regreso[Kernel] = <<>> /\ \A u \in HilosKernel : espera[u] # "cuerpo"
  \/ \E t \in HilosKernel, ok \in BOOLEAN :
       \/ /\ regreso[Kernel] = Respuesta(t, ok) /\ espera[t] = "respuesta"
          /\ \A u \in HilosKernel : espera[u] # "cuerpo"
       \/ regreso[Kernel] = Tail(Respuesta(t, ok)) /\ espera[t] = "cuerpo"

LEMMA PartesQuieto ==
  ASSUME Partes, regreso'[Kernel] = regreso[Kernel],
         \A t \in HilosKernel : espera'[t] = espera[t]
  PROVE  Partes'
BY DEF Partes

\* a thread that waits for nothing sends
LEMMA PartesEnvia ==
  ASSUME TiposClientes, Partes, NEW t \in HilosKernel, ~Espera(t),
         NEW f \in {"respuesta", "libre"}, espera' = [espera EXCEPT ![t] = f],
         UNCHANGED regreso
  PROVE  Partes'
<1>1. espera'[t] = f /\ \A u \in HilosKernel : u # t => espera'[u] = espera[u]
  BY DEF TiposClientes, Clientes
<1>2. \A u \in HilosKernel : espera[u] # "cuerpo" => espera'[u] # "cuerpo"
  BY <1>1
<1>3. \A u \in HilosKernel : Espera(u) => espera'[u] = espera[u]
  BY <1>1
<1> QED
  BY <1>2, <1>3 DEF Partes, Espera

\* the two pieces of an answer
LEMMA RespuestaPartes ==
  ASSUME NEW d, NEW ok
  PROVE  /\ Respuesta(d, ok) # <<>> /\ Head(Respuesta(d, ok)).parte = "cabecera"
         /\ Tail(Respuesta(d, ok)) # <<>> /\ Tail(Tail(Respuesta(d, ok))) = <<>>
         /\ Head(Tail(Respuesta(d, ok))).parte = "cuerpo"
         /\ Head(Tail(Respuesta(d, ok))).de = d
<1> DEFINE a == [parte |-> "cabecera", de |-> d, ok |-> ok]
           b == [parte |-> "cuerpo", de |-> d, ok |-> ok]
<1>1. a.parte = "cabecera" /\ b.parte = "cuerpo" /\ b.de = d
  OBVIOUS
<1>2. Respuesta(d, ok) = <<a, b>>
  BY DEF Respuesta
<1> HIDE DEF a, b
<1>3. Tail(<<a, b>>) = <<b>> /\ Tail(<<b>>) = <<>> /\ Head(<<a, b>>) = a /\ Head(<<b>>) = b
  OBVIOUS
<1> QED
  BY <1>1, <1>2, <1>3

\* the UMV answers the one thread that waits
LEMMA PartesResponde ==
  ASSUME Base, ElKernelPide, Partes, PorTurnos, UNCHANGED clientes,
         NEW ok \in BOOLEAN, Contesta(Kernel, ok)
  PROVE  Partes'
<1> DEFINE r == regreso[Kernel]
<1>1. PICK d : d = pedido[Kernel].de
  OBVIOUS
<1>2. d \in HilosKernel /\ Atiende(d) /\ Turno(d)
  BY <1>1 DEF Contesta, Base, Origenes, OrigenKernel, DelKernel, Atiende, ElKernelPide,
              HilosKernel
<1>3. Espera(d) /\ Sin(r, CuerposDe(d)) /\ r \in Seq(Respuestas)
  BY <1>2, HilosDistintos DEF Turno, TurnoBien, Espera, Base, TiposRegreso
<1>4. \A t \in HilosKernel : Espera(t) => t = d
  BY <1>2, <1>3 DEF PorTurnos, HilosKernel
<1>5. r = <<>> /\ \A u \in HilosKernel : espera[u] # "cuerpo"
  <2>1. ASSUME NEW t \in HilosKernel, NEW o \in BOOLEAN,
               r = Respuesta(t, o) \/ r = Tail(Respuesta(t, o)), Espera(t)
        PROVE  FALSE
    <3> DEFINE b == [parte |-> "cuerpo", de |-> t, ok |-> o]
               a == [parte |-> "cabecera", de |-> t, ok |-> o]
    <3>1. t = d
      BY <1>4, <2>1
    <3>2. b \in CuerposDe(t)
      BY EsperaDistintas DEF CuerposDe, Respuestas, HilosKernel
    <3>3. Respuesta(t, o) = <<a, b>>
      BY DEF Respuesta
    <3> HIDE DEF a, b, r
    <3>4. r = <<a, b>> \/ r = <<b>>
      BY <2>1, <3>3
    <3>5. (r = <<a, b>> => Len(r) = 2 /\ r[2] = b) /\ (r = <<b>> => Len(r) = 1 /\ r[1] = b)
      OBVIOUS
    <3> QED
      BY <1>3, <3>1, <3>2, <3>4, <3>5 DEF Sin
  <2> QED
    BY <2>1 DEF Partes, Espera
<1>6. espera[d] = "respuesta"
  BY <1>2, <1>3, <1>5 DEF Espera
<1>7. regreso' = [regreso EXCEPT ![Kernel] = @ \o Respuesta(d, ok)]
  BY <1>1, <1>6, HilosDistintos DEF Contesta, Responder, Respuesta
<1>8. regreso'[Kernel] = r \o Respuesta(d, ok)
  BY <1>7, HilosDistintos DEF Base, TiposRegreso
<1>9. <<>> \o Respuesta(d, ok) = Respuesta(d, ok)
  BY DEF Respuesta
<1> QED
  BY <1>2, <1>5, <1>6, <1>8, <1>9 DEF Partes, clientes

\* the thread that reads is the one the pieces are for
LEMMA PartesDe ==
  ASSUME Partes, PorTurnos, NEW t \in HilosKernel, Espera(t), regreso[Kernel] # <<>>
  PROVE  \E ok \in BOOLEAN :
           \/ /\ regreso[Kernel] = Respuesta(t, ok) /\ espera[t] = "respuesta"
              /\ \A u \in HilosKernel : espera[u] # "cuerpo"
           \/ regreso[Kernel] = Tail(Respuesta(t, ok)) /\ espera[t] = "cuerpo"
<1>1. \A u \in HilosKernel : Espera(u) => u = t
  BY DEF PorTurnos, HilosKernel
<1> QED
  BY <1>1 DEF Partes, Espera

LEMMA PartesCabecera ==
  ASSUME Base, Partes, PorTurnos, NEW t \in HilosKernel, Cliente(t)
  PROVE  Partes' /\ espera'[t] = "cuerpo"
<1>1. Socket(t) = Kernel /\ t \in Clientes /\ ClientesNext
  BY EsperaDistintas, ClientesAssumption
     DEF Socket, HilosKernel, ClientesNext, HiloPlp, HiloExit
<1>2. Espera(t) /\ regreso[Kernel] # <<>> /\ regreso' = [regreso EXCEPT ![Kernel] = Tail(@)]
  BY <1>1 DEF Cliente, RecibirCabecera, Pierde, Espera
<1>3. regreso'[Kernel] = Tail(regreso[Kernel])
  BY <1>2, HilosDistintos DEF Base, TiposRegreso
<1>4. PICK ok \in BOOLEAN :
        \/ /\ regreso[Kernel] = Respuesta(t, ok) /\ espera[t] = "respuesta"
           /\ \A u \in HilosKernel : espera[u] # "cuerpo"
        \/ regreso[Kernel] = Tail(Respuesta(t, ok)) /\ espera[t] = "cuerpo"
  BY <1>2, PartesDe
<1>5. /\ regreso[Kernel] = Respuesta(t, ok) => Head(regreso[Kernel]).parte = "cabecera"
      /\ regreso[Kernel] = Tail(Respuesta(t, ok)) => Head(regreso[Kernel]).parte = "cuerpo"
  <2>1. PICK x : x = Respuesta(t, ok)
    OBVIOUS
  <2>2. Head(x).parte = "cabecera" /\ Head(Tail(x)).parte = "cuerpo"
    BY <2>1, RespuestaPartes
  <2> QED
    BY <2>1, <2>2
<1>6. Pierde(t) => espera[t] = "cuerpo" /\ Head(regreso[Kernel]).parte = "cabecera"
  BY <1>1 DEF Pierde
<1>7. RecibirCabecera(t) /\ regreso[Kernel] = Respuesta(t, ok)
  BY <1>4, <1>5, <1>6 DEF Cliente, RecibirCabecera
<1>8. espera' = [espera EXCEPT ![t] = "cuerpo"]
  <2>1. espera' = [espera EXCEPT ![t] =
                     IF Head(regreso[Kernel]).parte = "cabecera" THEN "cuerpo" ELSE "perdida"]
    BY <1>1, <1>7 DEF RecibirCabecera
  <2> QED
    BY <1>5, <1>7, <2>1
<1>9. espera'[t] = "cuerpo"
  BY <1>1, <1>8 DEF Base, Tipos, TiposClientes
<1> QED
  BY <1>3, <1>7, <1>9 DEF Partes

LEMMA PartesCuerpo ==
  ASSUME Base, Partes, PorTurnos, NEW t \in HilosKernel, NEW ok \in BOOLEAN,
         RecibirCuerpo(t, ok)
  PROVE  Partes' /\ UNCHANGED cruzada
<1>1. Socket(t) = Kernel /\ t \in Clientes
  BY EsperaDistintas, ClientesAssumption DEF Socket, HilosKernel
<1>2. /\ espera[t] = "cuerpo" /\ regreso[Kernel] # <<>>
      /\ regreso' = [regreso EXCEPT ![Kernel] = Tail(@)]
      /\ espera' = [espera EXCEPT ![t] = "libre"]
      /\ cruzada' = (cruzada \/ Head(regreso[Kernel]).de # t)
  BY <1>1, Zenon DEF RecibirCuerpo
<1>3. regreso'[Kernel] = Tail(regreso[Kernel])
  BY <1>2, HilosDistintos DEF Base, TiposRegreso
<1>4. PICK o \in BOOLEAN : regreso[Kernel] = Tail(Respuesta(t, o))
  BY <1>2, PartesDe DEF Espera
<1>5. regreso'[Kernel] = <<>> /\ Head(regreso[Kernel]).de = t
  BY <1>3, <1>4, RespuestaPartes
<1>6. \A u \in HilosKernel : espera'[u] # "cuerpo"
  BY <1>1, <1>2 DEF PorTurnos, Espera, HilosKernel, Base, Tipos, TiposClientes
<1>7. cruzada' = cruzada
  BY <1>2, <1>5 DEF Base, Tipos, Booleanos
<1> QED
  BY <1>5, <1>6, <1>7 DEF Partes

LEMMA PartesUmv ==
  ASSUME Base, ElKernelPide, Partes, PorTurnos,
         \/ \E h \in HilosUmv : HiloUmv(h)
         \/ \E c \in Conexiones : Conexion(c)
         \/ Operador
  PROVE  Partes'
<1>0. UNCHANGED clientes /\ TiposHilo /\ TiposRegreso
  BY UmvDejaClientes DEF Base, Tipos
<1>1. regreso'[Kernel] = regreso[Kernel] => Partes'
  BY <1>0, PartesQuieto DEF clientes
<1>2. ASSUME NEW h \in HilosUmv, HiloUmv(h) PROVE Partes'
  <2>1. CASE h # Kernel
    BY <1>0, <1>1, <1>2, <2>1, PasosEnTerminos, OtroHilo, HilosDistintos
  <2>2. CASE h = Kernel
    BY <1>0, <1>1, <1>2, <2>2, PasosEnTerminos, PartesResponde DEF Avanza, Calla
  <2> QED
    BY <2>1, <2>2
<1>3. ASSUME NEW c \in Conexiones, Conexion(c) PROVE Partes'
  <2>1. CASE ~Rechaza(c)
    BY <1>1, <1>3, <2>1 DEF Conexion, LeeAviso, LeePedido, Cierra, sockets
  <2>2. CASE Rechaza(c)
    <3>1. Contesta(c, FALSE) /\ c \in HilosUmv
      BY <2>2, HilosDistintos DEF Rechaza, Contesta
    <3> QED
      BY <1>0, <1>1, <3>1, PartesResponde, OtroHilo, HilosDistintos
  <2> QED
    BY <2>1, <2>2
<1>4. CASE Operador
  BY <1>0, <1>1, <1>4, OperadorDeja DEF sockets
<1> QED
  BY <1>2, <1>3, <1>4

\* a CPU takes its own answers
LEMMA CpuPropia ==
  ASSUME Base, Suyas, NEW c \in Cpus, Cpu(c) \/ CaeCpu(c)
  PROVE  UNCHANGED cruzada
<1>1. CASE CpuRecibe(c)
  <2>1. PICK ok \in BOOLEAN : RecibirCuerpo(c, ok)
    BY <1>1 DEF CpuRecibe
  <2>2. Socket(c) = c /\ c \in Conexiones
    BY SocketDeOtro, HilosDistintos
  <2>3. regreso[c] # <<>> /\ cruzada' = (cruzada \/ Head(regreso[c]).de # c)
    BY <2>1, <2>2, Zenon DEF RecibirCuerpo
  <2>4. Head(regreso[c]).de \in Clientes /\ Socket(Head(regreso[c]).de) = c
    BY <2>2, <2>3, CabezaSuya DEF Base
  <2>5. Head(regreso[c]).de = c
    BY <2>4, SocketDeOtro
  <2> QED
    BY <2>3, <2>5 DEF Base, Tipos, Booleanos
<1>2. CASE ~CpuRecibe(c)
  BY <1>2 DEF Cpu, HandshakeUMV, Cliente, RecibirCabecera, Pierde, TomaPcb, CpuPide,
              CpuDevuelve, CaeCpu
<1> QED
  BY <1>1, <1>2

Propias == Propia /\ Partes /\ ElKernelPide

LEMMA PropiaClientes ==
  ASSUME Base, Suyas, Propias, PorTurnos, ClientesNext
  PROVE  Propia' /\ Partes'
<1>0. TiposClientes /\ HilosKernel = {Plp, Exit} /\ Propia /\ Partes
  BY DEF Base, Tipos, HilosKernel, Propias
<1>1. ASSUME NEW t \in HilosKernel, Cliente(t) PROVE Propia' /\ Partes'
  <2>1. Partes' /\ espera'[t] = "cuerpo"
    BY <1>0, <1>1, PartesCabecera
  <2>2. UNCHANGED cruzada /\ \E e : espera' = [espera EXCEPT ![t] = e]
    BY <1>1 DEF Cliente, RecibirCabecera, Pierde
  <2>3. \A u \in HilosKernel : u # t => espera'[u] = espera[u]
    BY <1>0, <2>2, EsperaDistintas DEF TiposClientes
  <2> QED
    BY <1>0, <2>1, <2>2, <2>3 DEF Propia
<1>2. ASSUME NEW t \in HilosKernel, NEW ok \in BOOLEAN, RecibirCuerpo(t, ok)
      PROVE  Propia' /\ Partes'
  <2>1. Partes' /\ UNCHANGED cruzada
    BY <1>0, <1>2, PartesCuerpo
  <2>2. espera' = [espera EXCEPT ![t] = "libre"]
    BY <1>2 DEF RecibirCuerpo
  <2>3. \A u \in HilosKernel : espera'[u] = espera[u] \/ espera'[u] = "libre"
    BY <1>0, <2>2, EsperaDistintas DEF TiposClientes
  <2> QED
    BY <1>0, <2>1, <2>3 DEF Propia
<1>3. ASSUME NEW t \in HilosKernel, NEW op, NEW p, NEW s, EnviarOperacion(t, op, p, s),
             UNCHANGED <<regreso, cruzada>>
      PROVE  Propia' /\ Partes'
  <2>1. PICK f \in {"respuesta", "libre"} : espera' = [espera EXCEPT ![t] = f]
    BY <1>3 DEF EnviarOperacion
  <2>2. ~Espera(t)
    BY <1>3 DEF EnviarOperacion, Espera
  <2>3. Partes'
    BY <1>0, <1>3, <2>1, <2>2, PartesEnvia
  <2>4. \A u \in HilosKernel : espera'[u] = espera[u] \/ espera'[u] = f
    BY <1>0, <2>1, EsperaDistintas DEF TiposClientes
  <2> QED
    BY <1>0, <1>3, <2>3, <2>4 DEF Propia
<1>4. CASE HiloPlp
  <2>1. CASE CrearPCBPide
    BY <1>0, <1>3, <2>1 DEF CrearPCBPide
  <2>2. CASE CrearPCBRecibe
    <3>1. PICK ok \in BOOLEAN : RecibirCuerpo(Plp, ok)
      BY <2>2 DEF CrearPCBRecibe
    <3> QED
      BY <1>0, <1>2, <3>1
  <2> QED
    BY <1>0, <1>1, <1>4, <2>1, <2>2 DEF HiloPlp
<1>5. CASE HiloExit
  <2>1. ASSUME NEW p \in Pids, VaciarColaExitPide(p) PROVE Propia' /\ Partes'
    BY <1>0, <1>3, <2>1 DEF VaciarColaExitPide
  <2>2. CASE VaciarColaExitRecibe
    BY <1>0, <1>2, <2>2 DEF VaciarColaExitRecibe
  <2> QED
    BY <1>0, <1>1, <1>5, <2>1, <2>2 DEF HiloExit
<1>6. ASSUME NEW c \in Cpus, Cpu(c) \/ CaeCpu(c) PROVE Propia' /\ Partes'
  <2>1. regreso'[Kernel] = regreso[Kernel] /\ \A t \in HilosKernel : espera'[t] = espera[t]
    BY <1>0, <1>6, CpuDejaKernel
  <2>2. UNCHANGED cruzada
    BY <1>6, CpuPropia
  <2> QED
    BY <1>0, <2>1, <2>2, PartesQuieto DEF Propia
<1>7. CASE \E p \in Pids : EmpiezaCrearPCB(p)
  BY <1>0, <1>7, PartesQuieto DEF EmpiezaCrearPCB, Propia, sockets
<1> QED
  BY <1>4, <1>5, <1>6, <1>7 DEF ClientesNext

LEMMA PropiasPaso ==
  ASSUME Base, Suyas, PorTurnos, Propias, [Next]_vars
  PROVE  Propias'
<1>1. Propia' /\ Partes'
  <2>1. UNCHANGED clientes /\ UNCHANGED cruzada => Propia'
    BY DEF Propias, Propia, clientes
  <2>2. ASSUME \/ \E h \in HilosUmv : HiloUmv(h)
               \/ \E c \in Conexiones : Conexion(c)
               \/ Operador
        PROVE  Propia' /\ Partes'
    <3>1. UNCHANGED clientes
      BY <2>2, UmvDejaClientes
    <3>2. UNCHANGED cruzada
      BY <2>2, UmvDejaLaIda
         DEF Conexion, LeeAviso, LeePedido, Rechaza, Cierra, Operador, ComandoOperacion,
             ComandoCompactar, ComandoAlgoritmo, Comando
    <3> QED
      BY <2>1, <2>2, <3>1, <3>2, PartesUmv DEF Propias
  <2>3. CASE Quieto
    BY <2>3, PartesQuieto DEF Quieto, sockets, Propias, Propia
  <2> QED
    BY <2>2, <2>3, CasosDeNext, PropiaClientes
<1> QED
  BY <1>1, KernelPidePaso DEF Propias

LEMMA PropiasInit == Init => Propias
<1> SUFFICES ASSUME Init PROVE Propias
  OBVIOUS
<1>1. ElKernelPide
  BY MarchaInit DEF Marcha
<1>2. regreso[Kernel] = <<>> /\ ~cruzada /\ \A t \in HilosKernel : espera[t] = "libre"
  BY HilosDistintos, ClientesAssumption DEF Init, Clientes, HilosKernel
<1> QED
  BY <1>1, <1>2 DEF Propias, Propia, Partes, HilosKernel

\* While the two threads of the Kernel do not wait for an answer at the same
\* time, which is what the lock enviarOperacion lacks would give, every client
\* takes the answer to its own request and no piece of one is lost: for any
\* number of CPUs and programs, whatever the operator types, also when a
\* crearSegmento ends without a return.
THEOREM RespuestaPropiaPorTurnos == Spec /\ []PorTurnos => []RespuestaPropia
<1>1. Propias /\ Base => RespuestaPropia
  <2> SUFFICES ASSUME Propias, Base, NEW t \in Clientes PROVE ~cruzada /\ espera[t] # "perdida"
    BY EsperaDistintas DEF RespuestaPropia
  <2>1. CASE t \in Cpus
    BY <2>1 DEF Propias, Propia, Base, Canales, Canal, CanalBien
  <2>2. CASE t \in HilosKernel
    BY <2>2 DEF Propias, Propia, HilosKernel
  <2> QED
    BY <2>1, <2>2 DEF Clientes
<1>2. Base /\ Suyas /\ PorTurnos /\ Propias /\ [Next]_vars => Propias'
  BY PropiasPaso
<1> QED
  BY <1>1, <1>2, PropiasInit, BaseSiempre, SuyasSiempre, PTL DEF Spec

\* With one program that is so at all times: when it is in colaExit its
\* crearPCB is over.
LEMMA UnoPorTurnos ==
  ASSUME \A p, q \in Pids : p = q, TiposClientes, Papeles
  PROVE  PorTurnos
<1> SUFFICES ASSUME Espera(Plp), Espera(Exit) PROVE FALSE
  BY DEF PorTurnos
<1>1. paso > 0 /\ creado \in Pids /\ vida[creado] = "creando"
  BY DEF Espera, TiposClientes, Papeles
<1>2. destruye \in Pids /\ vida[destruye] = "exit"
  BY DEF Espera, Papeles
<1> QED
  BY <1>1, <1>2

\* So no client of a UMV that serves one program, with any number of CPUs that
\* may die, ever takes the answer of another.
THEOREM RespuestaPropiaUnPrograma ==
  ASSUME \A p, q \in Pids : p = q
  PROVE  Spec => []RespuestaPropia
<1>1. Base /\ Papeles => PorTurnos
  BY UnoPorTurnos DEF Base, Tipos
<1> QED
  BY <1>1, BaseSiempre, PapelesSiempre, RespuestaPropiaPorTurnos, PTL
=============================================================================
