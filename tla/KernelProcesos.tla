--------------------------- MODULE KernelProcesos ---------------------------
(* Proofs about where the Kernel keeps each process.                        *)
(* First, when nothing fails and no window inside a handler is open: no     *)
(* process is lost, none is in two places, and the semaphore of the degree  *)
(* counts the places that are free.  They hold of every scheduler           *)
(* (PlanificadorPruebas) and the Kernel is one (KernelSinFallas); what is   *)
(* left is where the Kernel keeps each process and what follows its end.    *)
(* Then, with what fails: one PCB for each process, the degree with CPUs    *)
(* that die, the program that a text is printed in, the last message, and   *)
(* the end of a process, once, while one CPU at most announces its close.   *)
(* Nothing of the first part holds there, so each of them has an invariant  *)
(* of its own over the places of a PCB.                                     *)
EXTENDS KernelSinFallas

Promesa ==
  INSTANCE PlanificadorPruebas WITH
    Procesos <- Pids, Procesadores <- Cpus, Libre <- Nadie, Pesos <- Peso, Grado <- MultiProg,
    Contadores <- Semaforos, Iniciales <- Valores, Aparatos <- Dispositivos,
    conocidos <- 1..nroProg, nuevos <- colaNew, lugares <- semMultiProg, listos <- colaReady,
    corre <- Ocupacion, creditos <- Creditos, dormidos <- listaBloqueados,
    pedidos <- Solicitudes, terminados <- Terminados

-----------------------------------------------------------------------------
(* The end of a process                                                    *)

\* what has ended waits once in colaExit, or is in the hands of the thread
\* that empties it, or has given its memory back
SalidaUna ==
  /\ \A i, j \in DOMAIN colaExit : colaExit[i] = colaExit[j] => i = j
  /\ \A j \in DOMAIN colaExit : colaExit[j] # saliendo
  /\ \A p \in Pids :
       /\ destruidos[p] <= 1
       /\ destruidos[p] = 1 => saliendo # p /\ \A j \in DOMAIN colaExit : colaExit[j] # p

\* a process that is nowhere had no room for its code
NadieFalta ==
  \A p \in 1..nroProg :
    p \in Promesa!Situados \/ (p \in terminado /\ "sinCodigo" \in Creaciones)

Procesos == Promesa!PlanBien /\ SalidaUna /\ NadieFalta

LEMMA PasoA ==
  ASSUME Cortes = {}, Carreras = {}, SinFallas, Manos, [Next]_vars
  PROVE  [Abstracto!NextA]_(Abstracto!varsA)
<1>1. CASE UNCHANGED vars
  BY <1>1, QuietoA
     DEF vars, plpVars, pcpVars, comunes, cpus, red, admision, baja, listos, salida, ansisop,
         Abstracto!varsA
<1>2. CASE Next
  BY <1>2, CpuA, PlpA, PcpA DEF Next
<1>. QED  BY <1>1, <1>2

LEMMA MismoPaso ==
  ASSUME [Abstracto!NextA]_(Abstracto!varsA) PROVE [Promesa!NextA]_(Promesa!varsA)
<1>1. CASE UNCHANGED Abstracto!varsA
  BY <1>1, Zenon DEF Abstracto!varsA, Promesa!varsA
<1>2. CASE Abstracto!NextA
  BY <1>2, Zenon
     DEF Abstracto!NextA, Abstracto!LlegaA, Abstracto!AdmiteA, Abstracto!DespachaA,
         Abstracto!DesalojaA, Abstracto!TerminaA, Abstracto!PasaA, Abstracto!DuermeA,
         Abstracto!AvisaA, Abstracto!PideA, Abstracto!AtiendeA, Abstracto!Deja,
         Abstracto!DormidosEn, Abstracto!Primera, Abstracto!QuitaPos,
         Promesa!NextA, Promesa!LlegaA, Promesa!AdmiteA, Promesa!DespachaA,
         Promesa!DesalojaA, Promesa!TerminaA, Promesa!PasaA, Promesa!DuermeA,
         Promesa!AvisaA, Promesa!PideA, Promesa!AtiendeA, Promesa!Deja,
         Promesa!DormidosEn, Promesa!Primera, Promesa!QuitaPos
<1>. QED  BY <1>1, <1>2

LEMMA PasoPromesa ==
  ASSUME Cortes = {}, Carreras = {}, SinFallas, Manos, Promesa!PlanBien, [Next]_vars
  PROVE  Promesa!PlanBien' /\ Promesa!Situados \subseteq Promesa!Situados'
<1>1. [Promesa!NextA]_(Promesa!varsA)
  BY PasoA, MismoPaso
<1>2. Nadie \notin Pids
  BY PidsTipo
<1>. QED  BY <1>1, <1>2, Promesa!PasoPlan

LEMMA MismaCuenta == \A S : Promesa!Cardinality(S) = Cardinality(S)
BY DEF Promesa!Cardinality, Cardinality

LEMMA MismoRango == \A s : Promesa!Range(s) = Range(s)
BY DEF Promesa!Range, Range

\* The PCP and the CPUs leave what is the PLP's alone, but for the process that
\* ends.
LEMMA PcpAjeno ==
  ASSUME SinFallas, NextPCP, Carreras = {}
  PROVE  UNCHANGED plpVars /\ (UNCHANGED colaExit \/ \E c \in Cpus : OperacionFin(c))
<1>1. ~FinalizaPcb /\ ~DescuentaOcioso /\ ~ReponeCola
      /\ \A hilo, cola : ~VaciaCola(hilo, cola)
  BY DEF FinalizaPcb, EsperaFinaliza, FinalizaBloqueado, FinalizaReady, FinalizaAsignado,
         FinalizaBasura, Finaliza, DescuentaOcioso, ReponeCola, VaciaCola, SinFallas, Sano,
         EnSelect, Cuentas, SinCierre
<1>2. CASE \E c \in Cpus : NuevoCliente(c) \/ Atiende(c)
  <2>1. PICK c \in Cpus : NuevoCliente(c) \/ Atiende(c)
    BY <1>2
  <2>2. CASE NuevoCliente(c)
    BY <2>2 DEF NuevoCliente, comunes, salida
  <2>3. CASE Atiende(c)
    BY <2>3, AtiendeNada
       DEF Atiende, OperacionQuantum, OperacionIO, OperacionFin, OperacionImprimir,
           OperacionWait, OperacionSignal, RecibeBloqueado, RecibeSolicitud, Ajeno, comunes,
           salida
  <2>. QED  BY <2>1, <2>2, <2>3
<1>3. CASE Despacha
  BY <1>3, DespachaNada DEF Despacha, EsperaReady, EligeOcioso, EnviaPcb, comunes, salida
<1>4. CASE \E d \in Dispositivos : TomaSolicitud(d) \/ TerminaIO(d)
  BY <1>4 DEF TomaSolicitud, TerminaIO, comunes, salida
<1>. QED  BY <1>1, <1>2, <1>3, <1>4 DEF NextPCP

\* A process goes to colaExit once.
LEMMA ExitRecibe ==
  ASSUME Tipos, SalidaUna, NEW p \in Pids, p \notin Terminados, MandaAExit(p),
         UNCHANGED <<saliendo, destruidos>>
  PROVE  SalidaUna'
<1>1. colaExit \in Seq(Pids) /\ colaExit' = Append(colaExit, p)
  BY DEF Tipos, TSalida, MandaAExit
<1>2. /\ DOMAIN colaExit' = DOMAIN colaExit \cup {Len(colaExit) + 1}
      /\ \A j \in DOMAIN colaExit : colaExit'[j] = colaExit[j]
      /\ colaExit'[Len(colaExit) + 1] = p
  BY <1>1
<1>3. saliendo # p /\ ~(destruidos[p] > 0) /\ \A j \in DOMAIN colaExit : colaExit[j] # p
  BY DEF Terminados, Range
<1>. QED  BY <1>2, <1>3 DEF SalidaUna

LEMMA ExitSaca ==
  ASSUME SinFallas, SalidaUna, SacaDeExit PROVE SalidaUna'
<1>1. colaExit \in Seq(Pids) /\ colaExit # <<>>
  BY DEF SacaDeExit, SinFallas, Cuentas, Tipos, TSalida, ExitBien
<1>2. saliendo' = Head(colaExit) /\ colaExit' = Tail(colaExit) /\ UNCHANGED destruidos
  BY <1>1 DEF SacaDeExit, vacia
<1>3. /\ colaExit[1] = Head(colaExit) /\ DOMAIN colaExit = 1..Len(colaExit)
      /\ Len(colaExit) \in Nat \ {0} /\ DOMAIN Tail(colaExit) = 1..(Len(colaExit) - 1)
      /\ \A j \in 1..(Len(colaExit) - 1) : Tail(colaExit)[j] = colaExit[j + 1]
  BY <1>1
<1>4. 1 \in DOMAIN colaExit
  BY <1>3
<1>5. \A j \in DOMAIN colaExit' :
        j + 1 \in DOMAIN colaExit /\ j + 1 # 1 /\ colaExit'[j] = colaExit[j + 1]
  BY <1>2, <1>3
<1>6. \A i, j \in DOMAIN colaExit' : i + 1 = j + 1 => i = j
  BY <1>2, <1>3
<1>. QED  BY <1>2, <1>3, <1>4, <1>5, <1>6 DEF SalidaUna

LEMMA ExitDestruye ==
  ASSUME SinFallas, SalidaUna, Destruye PROVE SalidaUna'
<1>1. /\ colaExit \in Seq(Pids) /\ destruidos \in [Pids -> Nat]
      /\ saliendo \in Pids /\ saliendo' = Nadie /\ UNCHANGED colaExit
      /\ destruidos' = [destruidos EXCEPT ![saliendo] = @ + 1]
  BY DEF Destruye, comunes, salida, SinFallas, Cuentas, Tipos, TSalida, TPrograma
<1>2. destruidos[saliendo] = 0
  BY <1>1 DEF SalidaUna
<1>3. /\ destruidos'[saliendo] = 1
      /\ \A p \in Pids : p # saliendo => destruidos'[p] = destruidos[p]
  BY <1>1, <1>2
<1>4. \A j \in DOMAIN colaExit : colaExit[j] # Nadie
  BY <1>1, PidsTipo
<1>. QED  BY <1>1, <1>3, <1>4, PidsTipo DEF SalidaUna

LEMMA NextSalidaUna ==
  ASSUME Cortes = {}, Carreras = {}, SinFallas, Manos, Procesos, [Next]_vars
  PROVE  SalidaUna'
<1>1. ASSUME UNCHANGED <<colaExit, saliendo, destruidos>> PROVE SalidaUna'
  BY <1>1 DEF Procesos, SalidaUna
<1>2. Tipos /\ SalidaUna /\ Promesa!TipoA /\ Promesa!UnLugar
  BY DEF SinFallas, Cuentas, Procesos, Promesa!PlanBien
<1>3. CASE UNCHANGED vars
  BY <1>1, <1>3 DEF vars, plpVars, comunes, salida, baja
<1>4. CASE NextCPU
  BY <1>1, <1>4, CPUAjena DEF plpVars, comunes, salida, baja
<1>5. CASE NextPCP
  <2>1. UNCHANGED <<saliendo, destruidos>>
    BY <1>5, PcpAjeno DEF plpVars, baja
  <2>2. ASSUME NEW c \in Cpus, OperacionFin(c) PROVE SalidaUna'
    <3>1. /\ Llega(c) /\ Consume(c) /\ Pedido(c).op \in {"EXIT", "ERROR"}
          /\ UNCHANGED <<pcb, haciaCpu>> /\ MandaAExit(Pedido(c).pcb)
      BY <2>2 DEF OperacionFin, Ajeno, cpus
    <3>2. Len(haciaKernel[c]) = 1 /\ cpu[c] = "espera"
      BY <3>1, LlegaFase, Cabeza DEF Suelto, Anuncio, Devuelve
    <3>3. Ocupacion[c] = Pedido(c).pcb /\ Pedido(c).pcb \in Pids /\ Ocupacion[c] # Nadie
      BY <3>1, <3>2, DevuelveA
    <3>4. Pedido(c).pcb \notin Terminados
      BY <1>2, <3>3
         DEF Promesa!UnLugar, Promesa!Separados, Promesa!Adentro, Promesa!Corren
    <3>. QED  BY <1>2, <2>1, <3>1, <3>3, <3>4, ExitRecibe
  <2>. QED  BY <1>1, <1>5, <2>1, <2>2, PcpAjeno
<1>6. CASE NextPLP
  <2>1. CASE \E r \in Creaciones : LlegaPrograma(r)
    <3>1. PICK r \in Creaciones : LlegaPrograma(r)
      BY <2>1
    <3>2. /\ nroProg + 1 \in Pids /\ nroProg + 1 \notin 1..nroProg
          /\ UNCHANGED <<saliendo, destruidos>>
      BY <1>2, <3>1 DEF LlegaPrograma, baja, Tipos, TAdmision
    <3>3. nroProg + 1 \notin Terminados
      BY <1>2, <3>2 DEF Promesa!TipoA, Promesa!Situados
    <3>4. MandaAExit(nroProg + 1) \/ UNCHANGED colaExit
      BY <3>1 DEF LlegaPrograma, CrearPCB, salida
    <3>. QED  BY <1>1, <1>2, <3>2, <3>3, <3>4, ExitRecibe
  <2>2. CASE SacaDeExit \/ Destruye
    BY <1>2, <2>2, ExitSaca, ExitDestruye
  <2>3. CASE \/ EsperaNuevo \/ Admite \/ EnviaMensaje
             \/ \E p \in Pids : NotaCierre(p) \/ CierraPrograma(p) \/ CortaPrograma(p)
    BY <1>1, <2>3
       DEF EsperaNuevo, Admite, EnviaMensaje, NotaCierre, CierraPrograma, CortaPrograma,
           comunes, salida, baja
  <2>4. ~DestruyeNulo
    BY DEF DestruyeNulo, SinFallas, ExitBien
  <2>. QED  BY <1>6, <2>1, <2>2, <2>3, <2>4 DEF NextPLP
<1>. QED  BY <1>3, <1>4, <1>5, <1>6 DEF Next

LEMMA NextNadieFalta ==
  ASSUME Cortes = {}, Carreras = {}, SinFallas, Manos, Procesos, [Next]_vars,
         Promesa!Situados \subseteq Promesa!Situados'
  PROVE  NadieFalta'
<1>1. ASSUME nroProg' = nroProg, terminado \subseteq terminado' PROVE NadieFalta'
  BY <1>1 DEF Procesos, NadieFalta
<1>2. CASE UNCHANGED vars
  BY <1>1, <1>2 DEF vars, plpVars, admision
<1>3. CASE NextCPU
  BY <1>1, <1>3, CPUAjena DEF plpVars, admision
<1>4. CASE NextPCP
  BY <1>1, <1>4, PcpAjeno DEF plpVars, admision
<1>5. CASE NextPLP
  <2>1. CASE \E r \in Creaciones : LlegaPrograma(r)
    <3>1. PICK r \in Creaciones : LlegaPrograma(r)
      BY <2>1
    <3>. DEFINE p == nroProg + 1
    <3>2. /\ nroProg' = p /\ p \in Pids /\ terminado \subseteq terminado'
          /\ 1..nroProg' = (1..nroProg) \cup {p}
      BY <3>1 DEF LlegaPrograma, CrearPCB, SinFallas, Cuentas, Tipos, TAdmision, Pids
    <3>3. \/ p \in Promesa!Situados' \/ (p \in terminado' /\ "sinCodigo" \in Creaciones)
      <4>1. CASE r = "creado"
        BY <3>1, <4>1 DEF LlegaPrograma, Promesa!Situados
      <4>2. CASE r = "parcial"
        <5>1. MandaAExit(p) /\ UNCHANGED <<saliendo, destruidos>>
          BY <3>1, <4>2 DEF LlegaPrograma, CrearPCB, baja
        <5>2. p \in Terminados'
          BY <3>2, <5>1, TerminadosAgrega DEF SinFallas, Cuentas
        <5>. QED  BY <5>2 DEF Promesa!Situados
      <4>3. CASE r = "sinCodigo"
        BY <3>1, <4>3 DEF LlegaPrograma
      <4>. QED  BY <4>1, <4>2, <4>3, CreacionesAssumption
    <3>. QED  BY <3>2, <3>3 DEF Procesos, NadieFalta
  <2>2. CASE EsperaNuevo \/ Admite \/ EnviaMensaje \/ SacaDeExit \/ Destruye \/ DestruyeNulo
    BY <1>1, <2>2
       DEF EsperaNuevo, Admite, EnviaMensaje, SacaDeExit, Destruye, DestruyeNulo, Cae, plpVars,
           admision
  <2>3. CASE \E p \in Pids : NotaCierre(p) \/ CierraPrograma(p) \/ CortaPrograma(p)
    BY <1>1, <2>3 DEF NotaCierre, CierraPrograma, CortaPrograma, admision
  <2>. QED  BY <1>5, <2>1, <2>2, <2>3 DEF NextPLP
<1>. QED  BY <1>2, <1>3, <1>4, <1>5 DEF Next

LEMMA InitProcesos == Init => Procesos
<1>. SUFFICES ASSUME Init PROVE Procesos
  OBVIOUS
<1>1. Promesa!InitA
  BY InicioA, Zenon DEF Abstracto!InitA, Promesa!InitA
<1>2. Promesa!PlanBien
  <2>1. MultiProg \in Nat /\ Nadie \notin Pids
    BY MultiProgAssumption, PidsTipo
  <2>. QED  BY <1>1, <2>1, Promesa!InicioPlan
<1>3. /\ colaExit = <<>> /\ saliendo = Nadie /\ destruidos = [p \in Pids |-> 0]
      /\ nroProg = 0
  BY DEF Init, InitPLP
<1>4. SalidaUna
  BY <1>3 DEF SalidaUna
<1>5. NadieFalta
  BY <1>3 DEF NadieFalta
<1>. QED  BY <1>2, <1>4, <1>5 DEF Procesos

LEMMA SpecProcesos ==
  ASSUME Cortes = {}, Carreras = {} PROVE Spec => [](SinFallas /\ Manos /\ Procesos)
<1>1. SinFallas /\ Manos /\ Procesos /\ [Next]_vars => Manos' /\ Procesos'
  <2>1. SUFFICES ASSUME SinFallas, Manos, Procesos, [Next]_vars PROVE Manos' /\ Procesos'
    OBVIOUS
  <2>2. Promesa!PlanBien' /\ Promesa!Situados \subseteq Promesa!Situados'
    BY <2>1, PasoPromesa DEF Procesos
  <2>. QED  BY <2>1, <2>2, NextManos, NextSalidaUna, NextNadieFalta DEF Procesos
<1>. QED  BY <1>1, InitManos, InitProcesos, SpecSinFallas, PTL DEF Spec

-----------------------------------------------------------------------------
(* Where the PCB of each process is                                        *)

EnReady(p) == {<<"ready", k>> : k \in {j \in DOMAIN colaReady : colaReady[j] = p}}

EnExit(p) ==
  {<<"exit", k>> : k \in {j \in DOMAIN colaExit : colaExit[j] = p}}
    \cup {<<"saliendo", 0>> : x \in {saliendo} \cap {p}}

EnBloqueados(p) ==
  {<<"bloqueado", k>> : k \in {j \in DOMAIN listaBloqueados : listaBloqueados[j].pcb = p}}

\* with c, or on the way there or back
ConCpu(p, c) ==
  {<<"envio", c, k>> : k \in {j \in DOMAIN haciaCpu[c] :
                                c \in Range(listaClientes) /\ haciaCpu[c][j].pcb = p}}
    \cup {<<"cpu", c>> : x \in {pcb[c]} \cap {p}}
    \cup {<<"vuelta", c, k>> : k \in {j \in DOMAIN haciaKernel[c] : haciaKernel[c][j].pcb = p}}

EnCpus(p) == UNION {ConCpu(p, c) : c \in Cpus}

EnAparato(p, d) ==
  {<<"solicitud", d, k>> : k \in {j \in DOMAIN colaSolicitudes[d] : colaSolicitudes[d][j] = p}}
    \cup {<<"io", d>> : x \in {enCurso[d]} \cap {p}}

EnAparatos(p) == UNION {EnAparato(p, d) : d \in Dispositivos}

Nuevo(p) == {<<"new", 0>> : x \in colaNew \cap {p}}

LEMMA DondeEs ==
  ASSUME SinFallas, NEW p \in Pids
  PROVE  Donde(p) = Nuevo(p) \cup EnReady(p) \cup EnExit(p) \cup EnBloqueados(p)
                      \cup EnCpus(p) \cup EnAparatos(p)
<1>1. impresora.pcbs = <<>>
  BY DEF SinFallas, Sano, Cuentas, Tipos, TImpresora
<1>2. {<<impresora.cola, "impresora", k>> :
         k \in {j \in DOMAIN impresora.pcbs : impresora.pcbs[j] = p}} = {}
  BY <1>1
<1>3. Range(listaClientes) \subseteq Cpus
  BY RangoTipo DEF SinFallas, Cuentas, Tipos, TClientes
<1>. DEFINE Envios ==
              UNION {{<<"envio", c, k>> : k \in {j \in DOMAIN haciaCpu[c] : haciaCpu[c][j].pcb = p}}
                       : c \in Range(listaClientes)}
            Quedan == {<<"cpu", c>> : c \in {d \in Cpus : pcb[d] = p}}
            Vueltas ==
              UNION {{<<"vuelta", c, k>> :
                        k \in {j \in DOMAIN haciaKernel[c] : haciaKernel[c][j].pcb = p}}
                       : c \in Cpus}
            Solicitados ==
              UNION {{<<"solicitud", d, k>> :
                        k \in {j \in DOMAIN colaSolicitudes[d] : colaSolicitudes[d][j] = p}}
                       : d \in Dispositivos}
            Servidos == {<<"io", d>> : d \in {e \in Dispositivos : enCurso[e] = p}}
<1>4. EnCpus(p) = Envios \cup Quedan \cup Vueltas
  <2>1. ASSUME NEW l \in EnCpus(p) PROVE l \in Envios \cup Quedan \cup Vueltas
    <3>1. PICK c \in Cpus : l \in ConCpu(p, c)
      BY <2>1 DEF EnCpus
    <3>. QED  BY <3>1 DEF ConCpu
  <2>2. ASSUME NEW l \in Envios PROVE l \in EnCpus(p)
    <3>1. PICK c \in Range(listaClientes) :
            l \in {<<"envio", c, k>> : k \in {j \in DOMAIN haciaCpu[c] : haciaCpu[c][j].pcb = p}}
      BY <2>2
    <3>2. c \in Cpus /\ l \in ConCpu(p, c)
      BY <1>3, <3>1 DEF ConCpu
    <3>. QED  BY <3>2 DEF EnCpus
  <2>3. ASSUME NEW l \in Quedan PROVE l \in EnCpus(p)
    <3>1. PICK c \in Cpus : pcb[c] = p /\ l = <<"cpu", c>>
      BY <2>3
    <3>2. l \in ConCpu(p, c)
      BY <3>1 DEF ConCpu
    <3>. QED  BY <3>2 DEF EnCpus
  <2>4. ASSUME NEW l \in Vueltas PROVE l \in EnCpus(p)
    <3>1. PICK c \in Cpus :
            l \in {<<"vuelta", c, k>> :
                     k \in {j \in DOMAIN haciaKernel[c] : haciaKernel[c][j].pcb = p}}
      BY <2>4
    <3>2. l \in ConCpu(p, c)
      BY <3>1 DEF ConCpu
    <3>. QED  BY <3>2 DEF EnCpus
  <2>. QED  BY <2>1, <2>2, <2>3, <2>4
<1>5. EnAparatos(p) = Solicitados \cup Servidos
  <2>1. ASSUME NEW l \in EnAparatos(p) PROVE l \in Solicitados \cup Servidos
    <3>1. PICK d \in Dispositivos : l \in EnAparato(p, d)
      BY <2>1 DEF EnAparatos
    <3>. QED  BY <3>1 DEF EnAparato
  <2>2. ASSUME NEW l \in Solicitados PROVE l \in EnAparatos(p)
    <3>1. PICK d \in Dispositivos :
            l \in {<<"solicitud", d, k>> :
                     k \in {j \in DOMAIN colaSolicitudes[d] : colaSolicitudes[d][j] = p}}
      BY <2>2
    <3>2. l \in EnAparato(p, d)
      BY <3>1 DEF EnAparato
    <3>. QED  BY <3>2 DEF EnAparatos
  <2>3. ASSUME NEW l \in Servidos PROVE l \in EnAparatos(p)
    <3>1. PICK d \in Dispositivos : enCurso[d] = p /\ l = <<"io", d>>
      BY <2>3
    <3>2. l \in EnAparato(p, d)
      BY <3>1 DEF EnAparato
    <3>. QED  BY <3>2 DEF EnAparatos
  <2>. QED  BY <2>1, <2>2, <2>3
<1>. DEFINE Impresos == {<<impresora.cola, "impresora", k>> :
                           k \in {j \in DOMAIN impresora.pcbs : impresora.pcbs[j] = p}}
            Salidos == {<<"exit", k>> : k \in {j \in DOMAIN colaExit : colaExit[j] = p}}
            Sale == {<<"saliendo", 0>> : x \in {saliendo} \cap {p}}
<1>6. Donde(p) = Nuevo(p) \cup EnReady(p) \cup Impresos \cup Salidos \cup Sale
                   \cup EnBloqueados(p) \cup Envios \cup Quedan \cup Vueltas \cup Solicitados
                   \cup Servidos
  BY Zenon DEF Donde, Nuevo, EnReady, EnBloqueados
<1>7. EnExit(p) = Salidos \cup Sale /\ Impresos = {}
  BY <1>2 DEF EnExit
<1>. HIDE DEF Envios, Quedan, Vueltas, Solicitados, Servidos, Impresos, Salidos, Sale
<1>. QED  BY <1>4, <1>5, <1>6, <1>7

-----------------------------------------------------------------------------
(* One place of each kind                                                  *)

UnaSola(S) == \A l, m \in S : l = m

LEMMA NuevoEs ==
  ASSUME NEW p PROVE UnaSola(Nuevo(p)) /\ (Nuevo(p) # {} <=> p \in colaNew)
BY DEF UnaSola, Nuevo

LEMMA ReadyEs ==
  ASSUME NEW p, Promesa!UnLugar
  PROVE  UnaSola(EnReady(p)) /\ (EnReady(p) # {} <=> p \in Range(colaReady))
<1>1. \A i, j \in DOMAIN colaReady : colaReady[i] = p /\ colaReady[j] = p => i = j
  BY DEF Promesa!UnLugar, Promesa!SinRepetir
<1>2. UnaSola(EnReady(p))
  BY <1>1 DEF UnaSola, EnReady
<1>3. EnReady(p) # {} <=> \E j \in DOMAIN colaReady : colaReady[j] = p
  BY DEF EnReady
<1>. QED  BY <1>2, <1>3 DEF Range

LEMMA BloqueadosEs ==
  ASSUME NEW p, Promesa!UnLugar
  PROVE  UnaSola(EnBloqueados(p)) /\ (EnBloqueados(p) # {} <=> p \in Promesa!Duermen)
<1>1. \A i, j \in DOMAIN listaBloqueados :
        listaBloqueados[i].pcb = p /\ listaBloqueados[j].pcb = p => i = j
  BY DEF Promesa!UnLugar, Promesa!DuermeUna
<1>2. UnaSola(EnBloqueados(p))
  BY <1>1 DEF UnaSola, EnBloqueados
<1>3. EnBloqueados(p) # {} <=> \E j \in DOMAIN listaBloqueados : listaBloqueados[j].pcb = p
  BY DEF EnBloqueados
<1>. QED  BY <1>2, <1>3 DEF Promesa!Duermen

LEMMA ExitEs ==
  ASSUME NEW p \in Pids, SalidaUna
  PROVE  /\ UnaSola(EnExit(p)) /\ (destruidos[p] = 1 => EnExit(p) = {})
         /\ EnExit(p) # {} <=> p \in Range(colaExit) \/ saliendo = p
<1>1. /\ \A i, j \in DOMAIN colaExit : colaExit[i] = p /\ colaExit[j] = p => i = j
      /\ \A j \in DOMAIN colaExit : colaExit[j] = p => saliendo # p
  BY DEF SalidaUna
<1>. DEFINE A == {<<"exit", k>> : k \in {j \in DOMAIN colaExit : colaExit[j] = p}}
            B == {<<"saliendo", 0>> : x \in {saliendo} \cap {p}}
<1>2. /\ UnaSola(A) /\ UnaSola(B) /\ (B # {} <=> saliendo = p)
      /\ A # {} <=> \E j \in DOMAIN colaExit : colaExit[j] = p
  BY <1>1 DEF UnaSola
<1>3. EnExit(p) = A \cup B
  BY DEF EnExit
<1>. HIDE DEF A, B
<1>4. A = {} \/ B = {}
  BY <1>1, <1>2
<1>5. destruidos[p] = 1 => A = {} /\ B = {}
  BY <1>2 DEF SalidaUna
<1>6. A # {} <=> p \in Range(colaExit)
  BY <1>2 DEF Range
<1>. QED  BY <1>2, <1>3, <1>4, <1>5, <1>6 DEF UnaSola

-----------------------------------------------------------------------------
(* The PCB of a CPU is in one message or in its hands                      *)

\* Of the messages of a CPU only one can carry a PCB, and none does while the
\* CPU holds it.
LEMMA MensajesDe ==
  ASSUME SinFallas, Manos, NEW c \in Cpus
  PROVE  /\ pcb[c] # Nadie =>
              /\ \A j \in DOMAIN haciaCpu[c] : haciaCpu[c][j].pcb = Nadie
              /\ \A j \in DOMAIN haciaKernel[c] : haciaKernel[c][j].pcb = Nadie
         /\ pcb[c] = Nadie /\ haciaCpu[c] # <<>> =>
              /\ haciaKernel[c] = <<>> /\ DOMAIN haciaCpu[c] = {1}
              /\ Head(haciaCpu[c]) = haciaCpu[c][1] /\ c \in Range(listaClientes)
         /\ pcb[c] = Nadie /\ haciaKernel[c] # <<>> =>
              /\ haciaCpu[c] = <<>> /\ Len(haciaKernel[c]) \in DOMAIN haciaKernel[c]
              /\ \A j \in DOMAIN haciaKernel[c] :
                   j # Len(haciaKernel[c]) => haciaKernel[c][j].pcb = Nadie
<1>. DEFINE q == haciaKernel[c]
            r == haciaCpu[c]
<1>1. /\ q \in Seq(AlKernel) /\ r \in Seq(AlCpu)
      /\ Fase(cpu[c], operacion[c], q, r, EsperaDe(c), c \in fueAsignado)
  BY Llamadas DEF FaseCpu
<1>2. /\ DOMAIN q = 1..Len(q) /\ Len(q) \in Nat /\ DOMAIN r = 1..Len(r) /\ Len(r) \in Nat
      /\ \A j \in DOMAIN q : q[j] \in AlKernel
      /\ (q = <<>> <=> Len(q) = 0) /\ (r = <<>> <=> Len(r) = 0)
  BY <1>1
<1>. HIDE DEF q, r
<1>3. \A m \in AlKernel : Suelto(m) => m.pcb = Nadie
  BY DEF AlKernel, Suelto
<1>4. \A n \in 0..2 : Sueltos(q, n) => \A j \in DOMAIN q : j <= Len(q) - n => q[j].pcb = Nadie
  BY <1>2, <1>3 DEF Sueltos
<1>5. ASSUME pcb[c] # Nadie
      PROVE  /\ \A j \in DOMAIN r : r[j].pcb = Nadie
             /\ \A j \in DOMAIN q : q[j].pcb = Nadie
  <2>1. cpu[c] \in {"corre", "respuesta", "desaloja"}
    BY <1>1, <1>5
       DEF Manos, Fase, Ociosa, Despachada, EnRafaga, Pregunta, Contestada, PideES, SeBloquea,
           Devuelve, DevuelveES
  <2>2. \/ r = <<>>
        \/ Len(r) = 1 /\ (Anuncio(r[1], "NOTHING") \/ Anuncio(r[1], "WAIT"))
    BY <1>1, <2>1
       DEF Fase, Ociosa, Despachada, EnRafaga, Pregunta, Contestada, PideES, SeBloquea,
           Devuelve, DevuelveES
  <2>3. \/ q = <<>> \/ Sueltos(q, 0)
        \/ /\ Len(q) >= 1 /\ Sueltos(q, 1)
           /\ Anuncio(Ultimo(q), "WAIT") \/ Anuncio(Ultimo(q), "IO")
    BY <1>1, <2>1
       DEF Fase, Ociosa, Despachada, EnRafaga, Pregunta, Contestada, PideES, SeBloquea,
           Devuelve, DevuelveES
  <2>4. \A j \in DOMAIN r : r[j].pcb = Nadie
    BY <1>2, <2>2 DEF Anuncio
  <2>5. \A j \in DOMAIN q : q[j].pcb = Nadie
    <3>1. CASE q = <<>>
      BY <1>2, <3>1
    <3>2. CASE Sueltos(q, 0)
      BY <1>2, <1>4, <3>2
    <3>3. CASE Sueltos(q, 1) /\ Ultimo(q).pcb = Nadie
      <4>1. \A j \in DOMAIN q : j = Len(q) \/ j <= Len(q) - 1
        BY <1>2
      <4>2. 1 \in 0..2
        OBVIOUS
      <4>. QED  BY <1>4, <3>3, <4>1, <4>2 DEF Ultimo
    <3>. QED  BY <2>3, <3>1, <3>2, <3>3 DEF Anuncio
  <2>. QED  BY <2>4, <2>5
<1>6. ASSUME pcb[c] = Nadie, r # <<>>
      PROVE  /\ q = <<>> /\ DOMAIN r = {1} /\ Head(r) = r[1] /\ c \in Range(listaClientes)
  <2>1. cpu[c] \notin {"corre", "respuesta", "desaloja"}
    BY <1>6, OcupaEs
  <2>2. cpu[c] = "espera" /\ q = <<>> /\ Len(r) = 1
    BY <1>1, <1>6, <2>1
       DEF Fase, Ociosa, Despachada, EnRafaga, Pregunta, Contestada, PideES, SeBloquea,
           Devuelve, DevuelveES
  <2>3. c \in Range(listaClientes)
    BY <2>2 DEF SinFallas, Registro, Range
  <2>4. Head(r) = r[1]
    BY <1>1, <2>2, UnicaRespuesta
  <2>. QED  BY <1>2, <2>2, <2>3, <2>4
<1>7. ASSUME pcb[c] = Nadie, q # <<>>
      PROVE  /\ r = <<>> /\ Len(q) \in DOMAIN q
             /\ \A j \in DOMAIN q : j # Len(q) => q[j].pcb = Nadie
  <2>1. cpu[c] \notin {"corre", "respuesta", "desaloja"}
    BY <1>7, OcupaEs
  <2>2. \/ Len(q) = 1 /\ r = <<>>
        \/ Sueltos(q, 1) /\ r = <<>>
        \/ Sueltos(q, 2) /\ r = <<>> /\ Anuncio(q[Len(q) - 1], "IO")
    BY <1>1, <1>7, <2>1
       DEF Fase, Ociosa, Despachada, EnRafaga, Pregunta, Contestada, PideES, SeBloquea,
           Devuelve, DevuelveES
  <2>3. \A j \in DOMAIN q : j # Len(q) =>
          (j <= Len(q) - 1 /\ Len(q) # 1 /\ (j = Len(q) - 1 \/ j <= Len(q) - 2))
    BY <1>2
  <2>4. 1 \in 0..2 /\ 2 \in 0..2
    OBVIOUS
  <2>5. \A j \in DOMAIN q : j # Len(q) => q[j].pcb = Nadie
    BY <1>4, <2>2, <2>3, <2>4 DEF Anuncio
  <2>6. Len(q) \in DOMAIN q
    BY <1>2, <1>7
  <2>. QED  BY <2>2, <2>5, <2>6
<1>. QED  BY <1>5, <1>6, <1>7 DEF q, r

\* The places of the PCB of p around c are one, and only when c runs p.
LEMMA CpuEs ==
  ASSUME SinFallas, Manos, NEW c \in Cpus, NEW p \in Pids
  PROVE  UnaSola(ConCpu(p, c)) /\ (ConCpu(p, c) # {} <=> Ocupa(c) = p)
<1>. DEFINE A == {<<"envio", c, k>> : k \in {j \in DOMAIN haciaCpu[c] :
                                c \in Range(listaClientes) /\ haciaCpu[c][j].pcb = p}}
            B == {<<"cpu", c>> : x \in {pcb[c]} \cap {p}}
            C == {<<"vuelta", c, k>> :
                    k \in {j \in DOMAIN haciaKernel[c] : haciaKernel[c][j].pcb = p}}
<1>1. ConCpu(p, c) = A \cup B \cup C /\ p # Nadie
  BY PidsTipo DEF ConCpu
<1>2. UnaSola(B) /\ (B # {} <=> pcb[c] = p)
  BY DEF UnaSola
<1>3. (\A j \in DOMAIN haciaCpu[c] : haciaCpu[c][j].pcb # p) => A = {}
  OBVIOUS
<1>4. (\A j \in DOMAIN haciaKernel[c] : haciaKernel[c][j].pcb # p) => C = {}
  OBVIOUS
<1>5. ASSUME DOMAIN haciaCpu[c] = {1}, c \in Range(listaClientes)
      PROVE  UnaSola(A) /\ (A # {} <=> haciaCpu[c][1].pcb = p)
  BY <1>5 DEF UnaSola
<1>6. ASSUME NEW n \in DOMAIN haciaKernel[c],
             \A j \in DOMAIN haciaKernel[c] : j # n => haciaKernel[c][j].pcb = Nadie
      PROVE  UnaSola(C) /\ (C # {} <=> haciaKernel[c][n].pcb = p)
  <2>1. \A j \in DOMAIN haciaKernel[c] : haciaKernel[c][j].pcb = p => j = n
    BY <1>1, <1>6
  <2>2. UnaSola(C)
    BY <2>1 DEF UnaSola
  <2>3. C # {} <=> \E j \in DOMAIN haciaKernel[c] : haciaKernel[c][j].pcb = p
    OBVIOUS
  <2>. QED  BY <2>1, <2>2, <2>3
<1>7. DOMAIN <<>> = {}
  OBVIOUS
<1>. HIDE DEF A, B, C
<1>8. CASE pcb[c] # Nadie
  <2>1. A = {} /\ C = {} /\ Ocupa(c) = pcb[c]
    BY <1>1, <1>3, <1>4, <1>8, MensajesDe DEF Ocupa
  <2>. QED  BY <1>1, <1>2, <2>1 DEF UnaSola
<1>9. CASE pcb[c] = Nadie /\ haciaCpu[c] # <<>>
  <2>1. /\ haciaKernel[c] = <<>> /\ DOMAIN haciaCpu[c] = {1} /\ c \in Range(listaClientes)
        /\ Ocupa(c) = haciaCpu[c][1].pcb
    BY <1>9, MensajesDe DEF Ocupa
  <2>2. C = {} /\ B = {}
    BY <1>1, <1>2, <1>4, <1>7, <1>9, <2>1
  <2>. QED  BY <1>1, <1>5, <2>1, <2>2 DEF UnaSola
<1>10. CASE pcb[c] = Nadie /\ haciaCpu[c] = <<>> /\ haciaKernel[c] # <<>>
  <2>1. /\ Len(haciaKernel[c]) \in DOMAIN haciaKernel[c]
        /\ \A j \in DOMAIN haciaKernel[c] :
             j # Len(haciaKernel[c]) => haciaKernel[c][j].pcb = Nadie
        /\ Ocupa(c) = haciaKernel[c][Len(haciaKernel[c])].pcb
    BY <1>10, MensajesDe DEF Ocupa
  <2>2. A = {} /\ B = {}
    BY <1>1, <1>2, <1>3, <1>7, <1>10
  <2>. QED  BY <1>1, <1>6, <2>1, <2>2 DEF UnaSola
<1>11. CASE pcb[c] = Nadie /\ haciaCpu[c] = <<>> /\ haciaKernel[c] = <<>>
  <2>1. A = {} /\ B = {} /\ C = {} /\ Ocupa(c) = Nadie
    BY <1>1, <1>2, <1>3, <1>4, <1>7, <1>11 DEF Ocupa
  <2>. QED  BY <1>1, <2>1 DEF UnaSola
<1>. QED  BY <1>8, <1>9, <1>10, <1>11

LEMMA CpusEs ==
  ASSUME SinFallas, Manos, Promesa!UnLugar, NEW p \in Pids
  PROVE  UnaSola(EnCpus(p)) /\ (EnCpus(p) # {} <=> p \in Promesa!Corren)
<1>1. \A c \in Cpus : Ocupacion[c] = Ocupa(c)
  BY DEF Ocupacion
<1>2. \A c, d \in Cpus : Ocupa(c) = p /\ Ocupa(d) = p => c = d
  BY <1>1, PidsTipo DEF Promesa!UnLugar, Promesa!CorreUna
<1>3. \A c \in Cpus : UnaSola(ConCpu(p, c)) /\ (ConCpu(p, c) # {} <=> Ocupa(c) = p)
  BY CpuEs
<1>4. UnaSola(EnCpus(p))
  <2>1. SUFFICES ASSUME NEW l \in EnCpus(p), NEW m \in EnCpus(p) PROVE l = m
    BY DEF UnaSola
  <2>2. PICK c \in Cpus : l \in ConCpu(p, c)
    BY DEF EnCpus
  <2>3. PICK d \in Cpus : m \in ConCpu(p, d)
    BY DEF EnCpus
  <2>4. c = d
    BY <1>2, <1>3, <2>2, <2>3
  <2>. QED  BY <1>3, <2>2, <2>3, <2>4 DEF UnaSola
<1>5. EnCpus(p) # {} <=> \E c \in Cpus : ConCpu(p, c) # {}
  BY DEF EnCpus
<1>6. p \in Promesa!Corren <=> \E c \in Cpus : Ocupa(c) = p
  BY <1>1, PidsTipo DEF Promesa!Corren
<1>. QED  BY <1>3, <1>4, <1>5, <1>6

-----------------------------------------------------------------------------
(* The PCB of a device is the one it serves or in its queue                *)

LEMMA AparatoEs ==
  ASSUME SinFallas, NEW d \in Dispositivos, NEW p \in Pids, Promesa!SinRepetir(Solicitudes[d])
  PROVE  UnaSola(EnAparato(p, d)) /\ (EnAparato(p, d) # {} <=> p \in Range(Solicitudes[d]))
<1>. DEFINE q == colaSolicitudes[d]
            A == {<<"solicitud", d, k>> : k \in {j \in DOMAIN q : q[j] = p}}
            B == {<<"io", d>> : x \in {enCurso[d]} \cap {p}}
            s == Solicitudes[d]
<1>1. /\ q \in Seq(Pids) /\ enCurso[d] \in Pids \cup {Nadie} /\ p # Nadie /\ Nadie \notin Pids
      /\ s = (IF enCurso[d] = Nadie THEN <<>> ELSE <<enCurso[d]>>) \o q
      /\ EnAparato(p, d) = A \cup B
  BY PidsTipo DEF SinFallas, Cuentas, Tipos, TIo, Solicitudes, EnAparato
<1>2. UnaSola(B) /\ (B # {} <=> enCurso[d] = p)
  BY DEF UnaSola
<1>3. A # {} <=> \E j \in DOMAIN q : q[j] = p
  OBVIOUS
<1>4. (\A i, j \in DOMAIN q : q[i] = p /\ q[j] = p => i = j) => UnaSola(A)
  BY DEF UnaSola
<1>5. \A i, j \in DOMAIN s : s[i] = s[j] => i = j
  BY DEF Promesa!SinRepetir
<1>6. p \in Range(s) <=> \E j \in DOMAIN s : s[j] = p
  BY DEF Range
<1>. HIDE DEF A, B, q, s
<1>7. CASE enCurso[d] = Nadie
  <2>1. s = q
    BY <1>1, <1>7
  <2>2. B = {} /\ UnaSola(A)
    BY <1>1, <1>2, <1>4, <1>5, <1>7, <2>1
  <2>. QED  BY <1>1, <1>3, <1>6, <2>1, <2>2 DEF s
<1>8. CASE enCurso[d] # Nadie
  <2>1. s = <<enCurso[d]>> \o q
    BY <1>1, <1>8
  <2>2. /\ 1 \in DOMAIN s /\ s[1] = enCurso[d]
        /\ \A j \in DOMAIN q : j + 1 \in DOMAIN s /\ s[j + 1] = q[j] /\ j + 1 # 1
        /\ \A i \in DOMAIN s : i = 1 \/ (i - 1 \in DOMAIN q /\ s[i] = q[i - 1])
        /\ \A i, j \in DOMAIN q : i + 1 = j + 1 => i = j
    <3>1. /\ DOMAIN q = 1..Len(q) /\ Len(q) \in Nat /\ DOMAIN s = 1..(Len(q) + 1)
          /\ s[1] = enCurso[d] /\ \A i \in DOMAIN s : i # 1 => s[i] = q[i - 1]
      BY <1>1, <1>8, <2>1
    <3>. QED  BY <3>1
  <2>3. UnaSola(A)
    BY <1>4, <1>5, <2>2
  <2>4. B = {} \/ A = {}
    BY <1>2, <1>3, <1>5, <2>2
  <2>5. p \in Range(s) <=> B # {} \/ A # {}
    BY <1>2, <1>3, <1>6, <2>2
  <2>. QED  BY <1>1, <1>2, <2>3, <2>4, <2>5 DEF UnaSola, s
<1>. QED  BY <1>7, <1>8

LEMMA AparatosEs ==
  ASSUME SinFallas, Promesa!UnLugar, NEW p \in Pids
  PROVE  UnaSola(EnAparatos(p)) /\ (EnAparatos(p) # {} <=> p \in Promesa!Piden)
<1>1. /\ \A d \in Dispositivos : Promesa!SinRepetir(Solicitudes[d])
      /\ \A d, e \in Dispositivos :
           d # e => Range(Solicitudes[d]) \cap Range(Solicitudes[e]) = {}
  BY MismoRango, Zenon DEF Promesa!UnLugar, Promesa!PideUna
<1>2. \A d \in Dispositivos :
        UnaSola(EnAparato(p, d)) /\ (EnAparato(p, d) # {} <=> p \in Range(Solicitudes[d]))
  BY <1>1, AparatoEs
<1>3. UnaSola(EnAparatos(p))
  <2>1. SUFFICES ASSUME NEW l \in EnAparatos(p), NEW m \in EnAparatos(p) PROVE l = m
    BY DEF UnaSola
  <2>2. PICK d \in Dispositivos : l \in EnAparato(p, d)
    BY DEF EnAparatos
  <2>3. PICK e \in Dispositivos : m \in EnAparato(p, e)
    BY DEF EnAparatos
  <2>4. d = e
    BY <1>1, <1>2, <2>2, <2>3
  <2>. QED  BY <1>2, <2>2, <2>3, <2>4 DEF UnaSola
<1>4. EnAparatos(p) # {} <=> \E d \in Dispositivos : EnAparato(p, d) # {}
  BY DEF EnAparatos
<1>5. p \in Promesa!Piden <=> \E d \in Dispositivos : p \in Range(Solicitudes[d])
  BY MismoRango DEF Promesa!Piden
<1>. QED  BY <1>2, <1>3, <1>4, <1>5

-----------------------------------------------------------------------------
(* One place for each process                                              *)

LEMMA Rangos ==
  /\ Range(colaReady) = Promesa!Range(colaReady)
  /\ \A p \in Pids : p \in Terminados <=> p \in Range(colaExit) \/ saliendo = p \/ destruidos[p] > 0
BY MismoRango DEF Terminados

\* In how many kinds of place a process is.
LEMMA UnaClase ==
  ASSUME SinFallas, Manos, Procesos, NEW p \in Pids
  PROVE  /\ p \in colaNew => /\ p \notin Range(colaReady) /\ p \notin Promesa!Corren
                             /\ p \notin Promesa!Duermen /\ p \notin Promesa!Piden
         /\ p \in Range(colaReady) => /\ p \notin Promesa!Corren /\ p \notin Promesa!Duermen
                                      /\ p \notin Promesa!Piden
         /\ p \in Promesa!Corren => p \notin Promesa!Duermen /\ p \notin Promesa!Piden
         /\ p \in Promesa!Duermen => p \notin Promesa!Piden
         /\ p \in Terminados => /\ p \notin colaNew /\ p \notin Range(colaReady)
                                /\ p \notin Promesa!Corren /\ p \notin Promesa!Duermen
                                /\ p \notin Promesa!Piden
<1>1. Promesa!Separados
  BY DEF Procesos, Promesa!PlanBien, Promesa!UnLugar
<1>. QED  BY <1>1, Rangos DEF Promesa!Separados, Promesa!Adentro

LEMMA DondeUno ==
  ASSUME SinFallas, Manos, Procesos, NEW p \in Pids
  PROVE  /\ UnaSola(Donde(p))
         /\ destruidos[p] = 0 \/ (destruidos[p] = 1 /\ Donde(p) = {})
         /\ p \in Promesa!Situados => Donde(p) # {} \/ destruidos[p] = 1
<1>1. /\ Promesa!UnLugar /\ SalidaUna /\ destruidos[p] \in Nat
      /\ destruidos[p] <= 1
  BY DEF Procesos, Promesa!PlanBien, SalidaUna, SinFallas, Cuentas, Tipos, TSalida, TPrograma
<1>2. destruidos[p] = 0 \/ destruidos[p] = 1
  BY <1>1
<1>. DEFINE N == Nuevo(p)
            R == EnReady(p)
            X == EnExit(p)
            B == EnBloqueados(p)
            C == EnCpus(p)
            D == EnAparatos(p)
<1>3. /\ UnaSola(N) /\ (N # {} <=> p \in colaNew)
      /\ UnaSola(R) /\ (R # {} <=> p \in Range(colaReady))
      /\ UnaSola(B) /\ (B # {} <=> p \in Promesa!Duermen)
  BY <1>1, NuevoEs, ReadyEs, BloqueadosEs
<1>4. /\ UnaSola(X) /\ (destruidos[p] = 1 => X = {})
      /\ X # {} <=> p \in Range(colaExit) \/ saliendo = p
  BY <1>1, ExitEs
<1>5. UnaSola(C) /\ (C # {} <=> p \in Promesa!Corren)
  BY <1>1, CpusEs
<1>6. UnaSola(D) /\ (D # {} <=> p \in Promesa!Piden)
  BY <1>1, AparatosEs
<1>7. Donde(p) = N \cup R \cup X \cup B \cup C \cup D
  BY DondeEs
<1>. HIDE DEF N, R, X, B, C, D
<1>8. p \in Terminados <=> X # {} \/ destruidos[p] = 1
  BY <1>2, <1>4, Rangos
<1>9. /\ N # {} => R = {} /\ B = {} /\ C = {} /\ D = {} /\ X = {}
      /\ R # {} => B = {} /\ C = {} /\ D = {} /\ X = {}
      /\ B # {} => C = {} /\ D = {} /\ X = {}
      /\ C # {} => D = {} /\ X = {}
      /\ D # {} => X = {}
      /\ destruidos[p] = 1 => N = {} /\ R = {} /\ B = {} /\ C = {} /\ D = {} /\ X = {}
  BY <1>3, <1>4, <1>5, <1>6, <1>8, UnaClase
<1>10. UnaSola(Donde(p))
  BY <1>3, <1>4, <1>5, <1>6, <1>7, <1>9 DEF UnaSola
<1>11. destruidos[p] = 1 => Donde(p) = {}
  BY <1>7, <1>9
<1>12. p \in Promesa!Situados => Donde(p) # {} \/ destruidos[p] = 1
  <2>1. p \in Promesa!Situados =>
          \/ p \in colaNew \/ p \in Range(colaReady) \/ p \in Promesa!Corren
          \/ p \in Promesa!Duermen \/ p \in Promesa!Piden \/ p \in Terminados
    BY Rangos DEF Promesa!Situados, Promesa!Adentro
  <2>. QED  BY <1>3, <1>5, <1>6, <1>7, <1>8, <2>1
<1>. QED  BY <1>2, <1>10, <1>11, <1>12

LEMMA CuentaUna ==
  ASSUME NEW S, UnaSola(S)
  PROVE  Cardinality(S) \in 0..1 /\ (S = {} <=> Cardinality(S) = 0)
<1>1. CASE S = {}
  BY <1>1, FS_EmptySet
<1>2. CASE S # {}
  <2>1. PICK x \in S : S = {x}
    BY <1>2 DEF UnaSola
  <2>. QED  BY <1>2, <2>1, FS_Singleton
<1>. QED  BY <1>1, <1>2

LEMMA ProcesosUno == SinFallas /\ Manos /\ Procesos => NoSeDuplica /\ NoSePierde
<1>. SUFFICES ASSUME SinFallas, Manos, Procesos PROVE NoSeDuplica /\ NoSePierde
  OBVIOUS
<1>1. NoSeDuplica
  <2>1. SUFFICES ASSUME NEW p \in Pids PROVE Cardinality(Donde(p)) + destruidos[p] <= 1
    BY DEF NoSeDuplica
  <2>2. /\ Cardinality(Donde(p)) \in 0..1
        /\ destruidos[p] = 0 \/ (destruidos[p] = 1 /\ Cardinality(Donde(p)) = 0)
    BY DondeUno, CuentaUna
  <2>. QED  BY <2>2
<1>2. NoSePierde
  <2>1. SUFFICES ASSUME NEW p \in 1..nroProg, p \in terminado => "sinCodigo" \notin Creaciones
                 PROVE  Cardinality(Donde(p)) + destruidos[p] >= 1
    BY DEF NoSePierde
  <2>2. p \in Pids /\ p \in Promesa!Situados
    BY <2>1 DEF Procesos, NadieFalta, Promesa!PlanBien, Promesa!TipoA
  <2>3. /\ Cardinality(Donde(p)) \in 0..1
        /\ \/ destruidos[p] = 0 /\ Cardinality(Donde(p)) # 0
           \/ destruidos[p] = 1
    BY <2>2, DondeUno, CuentaUna
  <2>. QED  BY <2>3
<1>. QED  BY <1>1, <1>2

-----------------------------------------------------------------------------
(* The degree                                                              *)

\* Those that hold a place of the degree are those inside the scheduler.
LEMMA AdmitidosSon ==
  ASSUME SinFallas, Manos, Procesos PROVE Admitidos = Promesa!Adentro
<1>1. Promesa!Adentro \subseteq Pids /\ Promesa!UnLugar
  BY DEF Procesos, Promesa!PlanBien, Promesa!TipoA, Promesa!Situados
<1>2. ASSUME NEW p \in Pids
      PROVE  (\E l \in Donde(p) : l[1] \notin {"new", "exit", "saliendo"}) <=> p \in Promesa!Adentro
  <2>. DEFINE dentro(l) == l[1] \notin {"new", "exit", "saliendo"}
  <2>1. /\ \A l \in Nuevo(p) \cup EnExit(p) : ~dentro(l)
        /\ \A l \in EnReady(p) \cup EnBloqueados(p) : dentro(l)
    BY DEF Nuevo, EnExit, EnReady, EnBloqueados
  <2>2. \A l \in EnCpus(p) : dentro(l)
    <3>1. \A c \in Cpus : \A l \in ConCpu(p, c) : dentro(l)
      BY DEF ConCpu
    <3>. QED  BY <3>1 DEF EnCpus
  <2>3. \A l \in EnAparatos(p) : dentro(l)
    <3>1. \A d \in Dispositivos : \A l \in EnAparato(p, d) : dentro(l)
      BY DEF EnAparato
    <3>. QED  BY <3>1 DEF EnAparatos
  <2>4. Donde(p) = Nuevo(p) \cup EnReady(p) \cup EnExit(p) \cup EnBloqueados(p)
                     \cup EnCpus(p) \cup EnAparatos(p)
    BY DondeEs
  <2>5. /\ EnReady(p) # {} <=> p \in Range(colaReady)
        /\ EnBloqueados(p) # {} <=> p \in Promesa!Duermen
        /\ EnCpus(p) # {} <=> p \in Promesa!Corren
        /\ EnAparatos(p) # {} <=> p \in Promesa!Piden
    BY <1>1, ReadyEs, BloqueadosEs, CpusEs, AparatosEs
  <2>6. p \in Promesa!Adentro <=>
          \/ p \in Range(colaReady) \/ p \in Promesa!Corren
          \/ p \in Promesa!Duermen \/ p \in Promesa!Piden
    BY Rangos DEF Promesa!Adentro
  <2>. HIDE DEF dentro
  <2>7. (\E l \in Donde(p) : dentro(l)) <=>
          \/ EnReady(p) # {} \/ EnBloqueados(p) # {} \/ EnCpus(p) # {} \/ EnAparatos(p) # {}
    BY <2>1, <2>2, <2>3, <2>4
  <2>. QED  BY <2>5, <2>6, <2>7 DEF dentro
<1>. QED  BY <1>1, <1>2 DEF Admitidos

LEMMA GradoBien == SinFallas /\ Manos /\ Procesos => GradoExacto
BY AdmitidosSon, MismaCuenta DEF GradoExacto, Procesos, Promesa!PlanBien, Promesa!LugaresBien

-----------------------------------------------------------------------------
(* Theorems                                                                *)

\* When nothing fails no process is in two places of the Kernel, its queues,
\* its threads, the sockets and the CPUs: it does not run twice at a time, and
\* the memory of each is given back once, when no PCB of it is left.
THEOREM NoSeDuplicaSiempre ==
  ASSUME Cortes = {}, Carreras = {} PROVE Spec => []NoSeDuplica
BY SpecProcesos, ProcesosUno, PTL

\* When nothing fails no process vanishes: until its memory is given back its
\* PCB is somewhere, whatever order the threads of the PLP, the PCP and the
\* devices and the CPUs take their steps in.
THEOREM NoSePierdeSiempre ==
  ASSUME Cortes = {}, Carreras = {} PROVE Spec => []NoSePierde
BY SpecProcesos, ProcesosUno, PTL

\* When nothing fails semMultiProg is always the number of places that are
\* free: MULTIPROGRAMACION less the processes that the loop of plp.c let in and
\* that no operation of the PCP has ended yet.
THEOREM GradoExactoSiempre ==
  ASSUME Cortes = {}, Carreras = {} PROVE Spec => []GradoExacto
BY SpecProcesos, GradoBien, PTL

-----------------------------------------------------------------------------
(* Whatever fails: where the PCB of a process that goes on can be          *)

SNew == <<"new", 0>>
SReady == <<"ready", 0>>
SImpresora == <<"impresora", 0>>
SBloqueado == <<"bloqueado", 0>>
SEnvio(c) == <<"envio", c>>
SCpu(c) == <<"cpu", c>>
SVuelta(c) == <<"vuelta", c>>
SSolicitud(d) == <<"solicitud", d>>
SIo(d) == <<"io", d>>

Sitios ==
  {SNew, SReady, SImpresora, SBloqueado}
    \cup {SEnvio(c) : c \in Cpus} \cup {SCpu(c) : c \in Cpus} \cup {SVuelta(c) : c \in Cpus}
    \cup {SSolicitud(d) : d \in Dispositivos} \cup {SIo(d) : d \in Dispositivos}

Lleva(p) == {m \in AlKernel \cup AlCpu \cup Bloqueados : m.pcb = p}

Si(p, S) == {x \in {0} : p \in S}

\* the positions of p in a place
Puestos(h, p) ==
  CASE h[1] = "new" -> Si(p, colaNew)
    [] h[1] = "ready" -> Donde1(colaReady, {p})
    [] h[1] = "impresora" -> {k \in Donde1(impresora.pcbs, {p}) : impresora.cola = "ready"}
    [] h[1] = "bloqueado" -> Donde1(listaBloqueados, Lleva(p))
    [] h[1] = "envio" -> Donde1(haciaCpu[h[2]], Lleva(p))
    [] h[1] = "cpu" -> Si(p, {pcb[h[2]]})
    [] h[1] = "vuelta" -> Donde1(haciaKernel[h[2]], Lleva(p))
    [] h[1] = "solicitud" -> Donde1(colaSolicitudes[h[2]], {p})
    [] h[1] = "io" -> Si(p, {enCurso[h[2]]})

UnPuesto(p) ==
  \A g, h \in Sitios : \A i \in Puestos(g, p), j \in Puestos(h, p) : g = h /\ i = j

Conocido(p) == (\E h \in Sitios : Puestos(h, p) # {}) => p <= nroProg

\* every process has one PCB, and those that have not arrived have none
PcbUnico == \A p \in Pids : UnPuesto(p) /\ Conocido(p)

\* what a step does to the positions of p in a place: it can take them away
Mengua(S, T) == (S = {} => T = {}) /\ (UnaSola(S) => UnaSola(T))

MenguaEn(h, p) == Mengua(Puestos(h, p), Puestos(h, p)')

Queda(p) == \A h \in Sitios : MenguaEn(h, p)

\* or it moves them from a to b
Viaja(p, a, b) ==
  /\ a # b /\ Puestos(a, p) # {}
  /\ UnaSola(Puestos(a, p)) => Puestos(a, p)' = {}
  /\ UnaSola(Puestos(a, p)) /\ Puestos(b, p) = {} => UnaSola(Puestos(b, p)')
  /\ \A h \in Sitios \ {a, b} : MenguaEn(h, p)

PasoPcb(p, S) == Queda(p) \/ \E a, b \in S : Viaja(p, a, b)

LEMMA ViajaUno ==
  ASSUME NEW p, NEW S \in SUBSET Sitios, UnPuesto(p), PasoPcb(p, S) PROVE UnPuesto(p)'
<1>1. \A h \in Sitios : UnaSola(Puestos(h, p))
  BY DEF UnPuesto, UnaSola
<1>2. ASSUME NEW g \in Sitios, NEW h \in Sitios, g # h
      PROVE  Puestos(g, p) = {} \/ Puestos(h, p) = {}
  BY <1>2 DEF UnPuesto
<1>3. ASSUME \A h \in Sitios : UnaSola(Puestos(h, p)'),
             \A g, h \in Sitios : g # h => Puestos(g, p)' = {} \/ Puestos(h, p)' = {}
      PROVE  UnPuesto(p)'
  BY <1>3 DEF UnPuesto, UnaSola
<1>4. CASE Queda(p)
  BY <1>1, <1>2, <1>3, <1>4 DEF Queda, MenguaEn, Mengua
<1>5. CASE \E a, b \in S : Viaja(p, a, b)
  <2>1. PICK a \in Sitios, b \in Sitios : Viaja(p, a, b)
    BY <1>5
  <2>2. \A h \in Sitios : h # a => Puestos(h, p) = {}
    BY <1>2, <2>1 DEF Viaja
  <2>3. \A h \in Sitios : h # b => Puestos(h, p)' = {}
    BY <1>1, <2>1, <2>2 DEF Viaja, MenguaEn, Mengua
  <2>4. UnaSola(Puestos(b, p)')
    BY <1>1, <2>1, <2>2 DEF Viaja
  <2>5. \A h \in Sitios : UnaSola(Puestos(h, p)')
    BY <2>3, <2>4 DEF UnaSola
  <2>. QED  BY <1>3, <2>3, <2>5
<1>. QED  BY <1>4, <1>5 DEF PasoPcb

LEMMA ViajaConocido ==
  ASSUME NEW p \in Pids, NEW S \in SUBSET Sitios, UnPuesto(p), Conocido(p), PasoPcb(p, S),
         nroProg' = nroProg
  PROVE  Conocido(p)'
<1>1. ASSUME NEW h \in Sitios, Puestos(h, p)' # {} PROVE \E g \in Sitios : Puestos(g, p) # {}
  <2>1. CASE Queda(p)
    BY <1>1, <2>1 DEF Queda, MenguaEn, Mengua
  <2>2. CASE \E a, b \in S : Viaja(p, a, b)
    BY <2>2 DEF Viaja
  <2>. QED  BY <2>1, <2>2 DEF PasoPcb
<1>. QED  BY <1>1 DEF Conocido

-----------------------------------------------------------------------------
(* The positions of an element in a list that changes                      *)

LEMMA MenguaIgual == \A S, T : S = T => Mengua(S, T)
BY DEF Mengua

LEMMA MenguaCabeza ==
  ASSUME NEW S, NEW q \in Seq(S), q # <<>>, NEW T
  PROVE  /\ Mengua(Donde1(q, T), Donde1(Tail(q), T))
         /\ Head(q) \in T =>
              /\ Donde1(q, T) # {}
              /\ UnaSola(Donde1(q, T)) => Donde1(Tail(q), T) = {}
<1>1. /\ DOMAIN q = 1..Len(q) /\ Len(q) \in Nat \ {0} /\ Head(q) = q[1]
      /\ DOMAIN Tail(q) = 1..(Len(q) - 1)
      /\ \A j \in 1..(Len(q) - 1) : Tail(q)[j] = q[j + 1]
  OBVIOUS
<1>2. \A j \in Donde1(Tail(q), T) : j + 1 \in Donde1(q, T) /\ j + 1 # 1 /\ j \in Nat
  BY <1>1 DEF Donde1
<1>3. \A i, j \in Donde1(Tail(q), T) : i + 1 = j + 1 => i = j
  BY <1>2
<1>4. Head(q) \in T => 1 \in Donde1(q, T)
  BY <1>1 DEF Donde1
<1>. QED  BY <1>2, <1>3, <1>4 DEF Mengua, UnaSola

LEMMA MenguaQuita ==
  ASSUME NEW S, NEW q \in Seq(S), NEW k \in 1..Len(q), NEW T
  PROVE  /\ Mengua(Donde1(q, T), Donde1(QuitaPos(q, k), T))
         /\ q[k] \in T =>
              /\ Donde1(q, T) # {}
              /\ UnaSola(Donde1(q, T)) => Donde1(QuitaPos(q, k), T) = {}
<1>1. DOMAIN q = 1..Len(q) /\ Len(q) \in Nat \ {0} /\ k \in Nat
  OBVIOUS
<1>2. \A j : j \in Donde1(QuitaPos(q, k), T) <=>
               /\ j \in 1..(Len(q) - 1)
               /\ (IF j < k THEN q[j] ELSE q[j + 1]) \in T
  BY QuitaPosTipo DEF Donde1, QuitaPos
<1>. DEFINE f(j) == IF j < k THEN j ELSE j + 1
<1>3. \A j \in Donde1(QuitaPos(q, k), T) : f(j) \in Donde1(q, T) /\ f(j) # k /\ j \in Nat
  BY <1>1, <1>2 DEF Donde1
<1>4. \A i, j \in Nat : f(i) = f(j) => i = j
  BY <1>1
<1>5. q[k] \in T => k \in Donde1(q, T)
  BY <1>1 DEF Donde1
<1>. HIDE DEF f
<1>. QED  BY <1>3, <1>4, <1>5 DEF Mengua, UnaSola

LEMMA MenguaAgrega ==
  ASSUME NEW S, NEW q \in Seq(S), NEW e, NEW T
  PROVE  /\ e \notin T => Donde1(Append(q, e), T) = Donde1(q, T)
         /\ Donde1(q, T) = {} => UnaSola(Donde1(Append(q, e), T))
<1>1. /\ DOMAIN Append(q, e) = DOMAIN q \cup {Len(q) + 1}
      /\ \A j \in DOMAIN q : Append(q, e)[j] = q[j]
      /\ Append(q, e)[Len(q) + 1] = e
  OBVIOUS
<1>. QED  BY <1>1 DEF Donde1, UnaSola

LEMMA MenguaUne ==
  ASSUME NEW S, NEW q \in Seq(S), NEW r \in Seq(S), NEW T
  PROVE  /\ Donde1(r, T) = {} => Donde1(q \o r, T) = Donde1(q, T)
         /\ Donde1(q, T) = {} /\ UnaSola(Donde1(r, T)) => UnaSola(Donde1(q \o r, T))
<1>1. /\ Len(q) \in Nat /\ Len(r) \in Nat /\ DOMAIN (q \o r) = 1..(Len(q) + Len(r))
      /\ DOMAIN q = 1..Len(q) /\ DOMAIN r = 1..Len(r)
      /\ \A j \in 1..(Len(q) + Len(r)) : (q \o r)[j] = IF j <= Len(q) THEN q[j] ELSE r[j - Len(q)]
  OBVIOUS
<1>2. \A j \in Donde1(q \o r, T) :
        \/ j \in Donde1(q, T)
        \/ j - Len(q) \in Donde1(r, T) /\ j \in Nat
  BY <1>1 DEF Donde1
<1>3. \A j \in Donde1(q, T) : j \in Donde1(q \o r, T)
  BY <1>1 DEF Donde1
<1>4. \A i, j \in Nat : i - Len(q) = j - Len(q) => i = j
  BY <1>1
<1>. QED  BY <1>2, <1>3, <1>4 DEF UnaSola

LEMMA UneNada ==
  ASSUME NEW q \in Seq(Pids), NEW r \in Seq(Pids), NEW p, Donde1(r, {p}) = {}
  PROVE  Donde1(q \o r, {p}) = Donde1(q, {p})
<1>1. PICK T : T = {p}
  OBVIOUS
<1>2. PICK S : S = Pids
  OBVIOUS
<1>3. q \in Seq(S) /\ r \in Seq(S) /\ Donde1(r, T) = {}
  BY <1>1, <1>2
<1>4. Donde1(q \o r, T) = Donde1(q, T)
  BY <1>3, MenguaUne
<1>. QED  BY <1>1, <1>4

-----------------------------------------------------------------------------
(* The places, one by one                                                  *)

LEMMA SitiosSon ==
  /\ {SNew, SReady, SImpresora, SBloqueado} \subseteq Sitios
  /\ \A c \in Cpus : {SEnvio(c), SCpu(c), SVuelta(c)} \subseteq Sitios
  /\ \A d \in Dispositivos : {SSolicitud(d), SIo(d)} \subseteq Sitios
  /\ \A h \in Sitios :
       \/ h \in {SNew, SReady, SImpresora, SBloqueado}
       \/ \E c \in Cpus : h \in {SEnvio(c), SCpu(c), SVuelta(c)}
       \/ \E d \in Dispositivos : h \in {SSolicitud(d), SIo(d)}
BY DEF Sitios

LEMMA PuestosNew ==
  ASSUME NEW p
  PROVE  /\ Puestos(SNew, p) = Si(p, colaNew)
         /\ Puestos(SNew, p)' =
              Si(p, colaNew')
BY DEF Puestos, SNew

LEMMA PuestosReady ==
  ASSUME NEW p
  PROVE  /\ Puestos(SReady, p) = Donde1(colaReady, {p})
         /\ Puestos(SReady, p)' =
              Donde1(colaReady', {p})
BY DEF Puestos, SReady

LEMMA PuestosImpresora ==
  ASSUME NEW p
  PROVE  /\ Puestos(SImpresora, p) = {k \in Donde1(impresora.pcbs, {p}) : impresora.cola = "ready"}
         /\ Puestos(SImpresora, p)' =
              {k \in Donde1(impresora'.pcbs, {p}) : impresora'.cola = "ready"}
BY DEF Puestos, SImpresora

LEMMA PuestosBloqueado ==
  ASSUME NEW p
  PROVE  /\ Puestos(SBloqueado, p) = Donde1(listaBloqueados, Lleva(p))
         /\ Puestos(SBloqueado, p)' =
              Donde1(listaBloqueados', Lleva(p))
BY DEF Puestos, SBloqueado

LEMMA PuestosEnvio ==
  ASSUME NEW p, NEW c
  PROVE  /\ Puestos(SEnvio(c), p) = Donde1(haciaCpu[c], Lleva(p))
         /\ Puestos(SEnvio(c), p)' =
              Donde1(haciaCpu'[c], Lleva(p))
BY DEF Puestos, SEnvio

LEMMA PuestosCpu ==
  ASSUME NEW p, NEW c
  PROVE  /\ Puestos(SCpu(c), p) = Si(p, {pcb[c]})
         /\ Puestos(SCpu(c), p)' =
              Si(p, {pcb'[c]})
BY DEF Puestos, SCpu

LEMMA PuestosVuelta ==
  ASSUME NEW p, NEW c
  PROVE  /\ Puestos(SVuelta(c), p) = Donde1(haciaKernel[c], Lleva(p))
         /\ Puestos(SVuelta(c), p)' =
              Donde1(haciaKernel'[c], Lleva(p))
BY DEF Puestos, SVuelta

LEMMA PuestosSolicitud ==
  ASSUME NEW p, NEW d
  PROVE  /\ Puestos(SSolicitud(d), p) = Donde1(colaSolicitudes[d], {p})
         /\ Puestos(SSolicitud(d), p)' =
              Donde1(colaSolicitudes'[d], {p})
BY DEF Puestos, SSolicitud

LEMMA PuestosIo ==
  ASSUME NEW p, NEW d
  PROVE  /\ Puestos(SIo(d), p) = Si(p, {enCurso[d]})
         /\ Puestos(SIo(d), p)' =
              Si(p, {enCurso'[d]})
BY DEF Puestos, SIo

SinNuevo == Sitios \ {SNew}

LEMMA SitiosSin ==
  /\ SReady \in SinNuevo /\ SImpresora \in SinNuevo /\ SBloqueado \in SinNuevo
  /\ \A c \in Cpus : SEnvio(c) \in SinNuevo /\ SCpu(c) \in SinNuevo /\ SVuelta(c) \in SinNuevo
  /\ \A d \in Dispositivos : SSolicitud(d) \in SinNuevo /\ SIo(d) \in SinNuevo
BY DEF Sitios, SinNuevo, SNew, SReady, SImpresora, SBloqueado, SEnvio, SCpu, SVuelta, SSolicitud,
       SIo

LEMMA SitiosDistintos ==
  /\ \A c : /\ SReady # SEnvio(c) /\ SReady # SVuelta(c) /\ SBloqueado # SVuelta(c)
            /\ SCpu(c) # SVuelta(c) /\ SEnvio(c) # SCpu(c)
            /\ \A d : SVuelta(c) # SSolicitud(d)
  /\ \A d : SSolicitud(d) # SIo(d) /\ SIo(d) # SReady
  /\ SNew # SReady /\ SBloqueado # SReady /\ SImpresora # SReady
BY DEF SNew, SReady, SImpresora, SBloqueado, SEnvio, SCpu, SVuelta, SSolicitud, SIo

LEMMA PuestosIguales ==
  ASSUME NEW p
  PROVE  /\ colaNew' = colaNew => Puestos(SNew, p)' = Puestos(SNew, p)
         /\ colaReady' = colaReady => Puestos(SReady, p)' = Puestos(SReady, p)
         /\ impresora' = impresora => Puestos(SImpresora, p)' = Puestos(SImpresora, p)
         /\ listaBloqueados' = listaBloqueados =>
              Puestos(SBloqueado, p)' = Puestos(SBloqueado, p)
         /\ \A c : /\ haciaCpu'[c] = haciaCpu[c] => Puestos(SEnvio(c), p)' = Puestos(SEnvio(c), p)
                   /\ pcb'[c] = pcb[c] => Puestos(SCpu(c), p)' = Puestos(SCpu(c), p)
                   /\ haciaKernel'[c] = haciaKernel[c] =>
                        Puestos(SVuelta(c), p)' = Puestos(SVuelta(c), p)
         /\ \A d : /\ colaSolicitudes'[d] = colaSolicitudes[d] =>
                        Puestos(SSolicitud(d), p)' = Puestos(SSolicitud(d), p)
                   /\ enCurso'[d] = enCurso[d] => Puestos(SIo(d), p)' = Puestos(SIo(d), p)
<1>1. colaNew' = colaNew => Puestos(SNew, p)' = Puestos(SNew, p)
  BY PuestosNew
<1>2. colaReady' = colaReady => Puestos(SReady, p)' = Puestos(SReady, p)
  BY PuestosReady
<1>3. impresora' = impresora => Puestos(SImpresora, p)' = Puestos(SImpresora, p)
  BY PuestosImpresora
<1>4. listaBloqueados' = listaBloqueados => Puestos(SBloqueado, p)' = Puestos(SBloqueado, p)
  BY PuestosBloqueado
<1>5. \A c : haciaCpu'[c] = haciaCpu[c] => Puestos(SEnvio(c), p)' = Puestos(SEnvio(c), p)
  BY PuestosEnvio
<1>6. \A c : pcb'[c] = pcb[c] => Puestos(SCpu(c), p)' = Puestos(SCpu(c), p)
  BY PuestosCpu
<1>7. \A c : haciaKernel'[c] = haciaKernel[c] => Puestos(SVuelta(c), p)' = Puestos(SVuelta(c), p)
  BY PuestosVuelta
<1>8. \A d : colaSolicitudes'[d] = colaSolicitudes[d] =>
               Puestos(SSolicitud(d), p)' = Puestos(SSolicitud(d), p)
  BY PuestosSolicitud
<1>9. \A d : enCurso'[d] = enCurso[d] => Puestos(SIo(d), p)' = Puestos(SIo(d), p)
  BY PuestosIo
<1>. QED  BY <1>1, <1>2, <1>3, <1>4, <1>5, <1>6, <1>7, <1>8, <1>9

LEMMA Resto ==
  ASSUME NEW p, NEW X,
         colaNew' = colaNew \/ SNew \in X,
         colaReady' = colaReady \/ SReady \in X,
         impresora' = impresora \/ SImpresora \in X,
         listaBloqueados' = listaBloqueados \/ SBloqueado \in X,
         \A c \in Cpus : haciaCpu'[c] = haciaCpu[c] \/ SEnvio(c) \in X,
         \A c \in Cpus : pcb'[c] = pcb[c] \/ SCpu(c) \in X,
         \A c \in Cpus : haciaKernel'[c] = haciaKernel[c] \/ SVuelta(c) \in X,
         \A d \in Dispositivos : colaSolicitudes'[d] = colaSolicitudes[d] \/ SSolicitud(d) \in X,
         \A d \in Dispositivos : enCurso'[d] = enCurso[d] \/ SIo(d) \in X
  PROVE  \A h \in Sitios \ X : MenguaEn(h, p)
<1>1. SUFFICES ASSUME NEW h \in Sitios, h \notin X PROVE Puestos(h, p)' = Puestos(h, p)
  BY DEF MenguaEn, Mengua
<1>2. CASE h \in {SNew, SReady, SImpresora, SBloqueado}
  BY <1>1, <1>2, PuestosIguales
<1>3. CASE \E c \in Cpus : h \in {SEnvio(c), SCpu(c), SVuelta(c)}
  BY <1>1, <1>3, PuestosIguales
<1>4. CASE \E d \in Dispositivos : h \in {SSolicitud(d), SIo(d)}
  BY <1>1, <1>4, PuestosIguales
<1>. QED  BY <1>2, <1>3, <1>4, SitiosSon

\* the server takes a message of c
LEMMA ConsumePuestos ==
  ASSUME Tipos, NEW c \in Cpus, haciaKernel[c] # <<>>, Consume(c), NEW p
  PROVE  /\ \A d \in Cpus : haciaKernel'[d] = haciaKernel[d] \/ SVuelta(d) = SVuelta(c)
         /\ MenguaEn(SVuelta(c), p)
         /\ Pedido(c).pcb = p =>
              /\ Puestos(SVuelta(c), p) # {}
              /\ UnaSola(Puestos(SVuelta(c), p)) => Puestos(SVuelta(c), p)' = {}
<1>1. haciaKernel[c] \in Seq(AlKernel) /\ haciaKernel \in [Cpus -> Seq(AlKernel)]
  BY DEF Tipos, TRed
<1>2. haciaKernel'[c] = Tail(haciaKernel[c])
      /\ \A d \in Cpus : haciaKernel'[d] = haciaKernel[d] \/ d = c
  BY <1>1 DEF Consume
<1>3. Pedido(c).pcb = p => Head(haciaKernel[c]) \in Lleva(p)
  BY <1>1 DEF Pedido, Lleva
<1>4. /\ Puestos(SVuelta(c), p) = Donde1(haciaKernel[c], Lleva(p))
      /\ Puestos(SVuelta(c), p)' = Donde1(Tail(haciaKernel[c]), Lleva(p))
  BY <1>2, PuestosVuelta
<1>. QED  BY <1>1, <1>2, <1>3, <1>4, MenguaCabeza DEF MenguaEn

\* a CPU takes a message of the Kernel
LEMMA TomaPuestos ==
  ASSUME Tipos, NEW c \in Cpus, haciaCpu[c] # <<>>,
         haciaCpu' = [haciaCpu EXCEPT ![c] = Tail(@)], NEW p
  PROVE  /\ \A d \in Cpus : haciaCpu'[d] = haciaCpu[d] \/ SEnvio(d) = SEnvio(c)
         /\ MenguaEn(SEnvio(c), p)
         /\ Head(haciaCpu[c]).pcb = p =>
              /\ Puestos(SEnvio(c), p) # {}
              /\ UnaSola(Puestos(SEnvio(c), p)) => Puestos(SEnvio(c), p)' = {}
<1>1. haciaCpu[c] \in Seq(AlCpu) /\ haciaCpu \in [Cpus -> Seq(AlCpu)]
  BY DEF Tipos, TRed
<1>2. haciaCpu'[c] = Tail(haciaCpu[c])
      /\ \A d \in Cpus : haciaCpu'[d] = haciaCpu[d] \/ d = c
  BY <1>1
<1>3. Head(haciaCpu[c]).pcb = p => Head(haciaCpu[c]) \in Lleva(p)
  BY <1>1 DEF Lleva
<1>4. /\ Puestos(SEnvio(c), p) = Donde1(haciaCpu[c], Lleva(p))
      /\ Puestos(SEnvio(c), p)' = Donde1(Tail(haciaCpu[c]), Lleva(p))
  BY <1>2, PuestosEnvio
<1>. QED  BY <1>1, <1>2, <1>3, <1>4, MenguaCabeza DEF MenguaEn

\* c sends a message, with or without a PCB
LEMMA PidePuestos ==
  ASSUME Tipos, NEW c \in Cpus, NEW m, Pide(c, m), NEW p
  PROVE  /\ \A d \in Cpus : haciaKernel'[d] = haciaKernel[d] \/ SVuelta(d) = SVuelta(c)
         /\ m.pcb # p => MenguaEn(SVuelta(c), p)
         /\ Puestos(SVuelta(c), p) = {} => UnaSola(Puestos(SVuelta(c), p)')
<1>1. haciaKernel[c] \in Seq(AlKernel) /\ haciaKernel \in [Cpus -> Seq(AlKernel)]
  BY DEF Tipos, TRed
<1>2. haciaKernel'[c] = Append(haciaKernel[c], m)
      /\ \A d \in Cpus : haciaKernel'[d] = haciaKernel[d] \/ d = c
  BY <1>1 DEF Pide
<1>3. m.pcb # p => m \notin Lleva(p)
  BY DEF Lleva
<1>4. /\ Puestos(SVuelta(c), p) = Donde1(haciaKernel[c], Lleva(p))
      /\ Puestos(SVuelta(c), p)' = Donde1(Append(haciaKernel[c], m), Lleva(p))
  BY <1>2, PuestosVuelta
<1>. QED  BY <1>1, <1>2, <1>3, <1>4, MenguaAgrega, MenguaIgual DEF MenguaEn

\* the Kernel sends c a message
LEMMA EnviaPuestos ==
  ASSUME Tipos, NEW c \in Cpus, NEW m, haciaCpu' = [haciaCpu EXCEPT ![c] = Append(@, m)], NEW p
  PROVE  /\ \A d \in Cpus : haciaCpu'[d] = haciaCpu[d] \/ SEnvio(d) = SEnvio(c)
         /\ m.pcb # p => MenguaEn(SEnvio(c), p)
         /\ Puestos(SEnvio(c), p) = {} => UnaSola(Puestos(SEnvio(c), p)')
<1>1. haciaCpu[c] \in Seq(AlCpu) /\ haciaCpu \in [Cpus -> Seq(AlCpu)]
  BY DEF Tipos, TRed
<1>2. haciaCpu'[c] = Append(haciaCpu[c], m)
      /\ \A d \in Cpus : haciaCpu'[d] = haciaCpu[d] \/ d = c
  BY <1>1
<1>3. m.pcb # p => m \notin Lleva(p)
  BY DEF Lleva
<1>4. /\ Puestos(SEnvio(c), p) = Donde1(haciaCpu[c], Lleva(p))
      /\ Puestos(SEnvio(c), p)' = Donde1(Append(haciaCpu[c], m), Lleva(p))
  BY <1>2, PuestosEnvio
<1>. QED  BY <1>1, <1>2, <1>3, <1>4, MenguaAgrega, MenguaIgual DEF MenguaEn

LEMMA ReadyPuestos ==
  ASSUME Tipos, NEW q, MandaAReady(q), NEW p
  PROVE  /\ q # p => MenguaEn(SReady, p)
         /\ Puestos(SReady, p) = {} => UnaSola(Puestos(SReady, p)')
<1>1. colaReady \in Seq(Pids) /\ colaReady' = Append(colaReady, q)
  BY DEF Tipos, TListos, MandaAReady
<1>2. q # p => q \notin {p}
  OBVIOUS
<1>3. /\ Puestos(SReady, p) = Donde1(colaReady, {p})
      /\ Puestos(SReady, p)' = Donde1(Append(colaReady, q), {p})
  BY <1>1, PuestosReady
<1>4. q # p => Donde1(Append(colaReady, q), {p}) = Donde1(colaReady, {p})
  BY <1>1, <1>2, MenguaAgrega
<1>5. Donde1(colaReady, {p}) = {} => UnaSola(Donde1(Append(colaReady, q), {p}))
  BY <1>1, MenguaAgrega
<1>. QED  BY <1>3, <1>4, <1>5, MenguaIgual DEF MenguaEn

LEMMA QuitaPuestos ==
  ASSUME Tipos, NEW k \in DOMAIN listaBloqueados,
         listaBloqueados' = QuitaPos(listaBloqueados, k), NEW p
  PROVE  /\ MenguaEn(SBloqueado, p)
         /\ listaBloqueados[k].pcb = p =>
              /\ Puestos(SBloqueado, p) # {}
              /\ UnaSola(Puestos(SBloqueado, p)) => Puestos(SBloqueado, p)' = {}
<1>1. listaBloqueados \in Seq(Bloqueados) /\ k \in 1..Len(listaBloqueados)
  BY DEF Tipos, TAnsisop
<1>2. listaBloqueados[k].pcb = p => listaBloqueados[k] \in Lleva(p)
  BY <1>1 DEF Lleva
<1>3. /\ Puestos(SBloqueado, p) = Donde1(listaBloqueados, Lleva(p))
      /\ Puestos(SBloqueado, p)' = Donde1(QuitaPos(listaBloqueados, k), Lleva(p))
  BY PuestosBloqueado
<1>. QED  BY <1>1, <1>2, <1>3, MenguaQuita DEF MenguaEn

-----------------------------------------------------------------------------
(* The PCB in each step                                                    *)

\* a step that moves no PCB and loses none
LEMMA NadaPcb ==
  ASSUME UNCHANGED <<colaNew, colaReady, impresora, listaBloqueados, haciaCpu, pcb,
                     haciaKernel, colaSolicitudes, enCurso>>, NEW p
  PROVE  Queda(p)
<1>1. \A h \in Sitios \ {} : MenguaEn(h, p)
  BY Resto
<1>. QED  BY <1>1 DEF Queda

\* the server takes a message and keeps nothing of it
LEMMA PedidoPcb ==
  ASSUME Tipos, NEW c \in Cpus, NEW p \in Pids,
         \/ DescartaPcb(c) \/ DescartaPedido(c) \/ OperacionIO(c) \/ OperacionFin(c)
         \/ OperacionImprimir(c) \/ OperacionWait(c) \/ OperacionSigusr(c)
  PROVE  Queda(p)
<1>1. /\ haciaKernel[c] # <<>> /\ Consume(c)
      /\ UNCHANGED <<colaNew, colaReady, impresora, listaBloqueados, pcb, colaSolicitudes, enCurso>>
      /\ haciaCpu' = haciaCpu \/ \E op : Responde(c, op)
  BY DEF DescartaPcb, DescartaPedido, OperacionIO, OperacionFin, OperacionImprimir,
         OperacionWait, OperacionSigusr, Llega, Ajeno, plpVars, admision, comunes, listos,
         ansisop, cpus
<1>2. /\ MenguaEn(SVuelta(c), p)
      /\ \A d \in Cpus : haciaKernel'[d] = haciaKernel[d] \/ SVuelta(d) = SVuelta(c)
  BY <1>1, ConsumePuestos
<1>3. ASSUME haciaCpu' = haciaCpu PROVE \A h \in Sitios \ {SVuelta(c)} : MenguaEn(h, p)
  BY <1>1, <1>2, <1>3, Resto
<1>4. ASSUME NEW op, Responde(c, op)
      PROVE  /\ MenguaEn(SEnvio(c), p)
             /\ \A h \in Sitios \ {SVuelta(c), SEnvio(c)} : MenguaEn(h, p)
  <2>1. /\ haciaCpu' = [haciaCpu EXCEPT ![c] = Append(@, Mensaje(op, Nadie, SinArg))]
        /\ Mensaje(op, Nadie, SinArg).pcb # p
    BY <1>4, PidsTipo DEF Responde, Mensaje
  <2>2. /\ MenguaEn(SEnvio(c), p)
        /\ \A d \in Cpus : haciaCpu'[d] = haciaCpu[d] \/ SEnvio(d) = SEnvio(c)
    BY <2>1, EnviaPuestos
  <2>. QED  BY <1>1, <1>2, <2>2, Resto
<1>. QED  BY <1>1, <1>2, <1>3, <1>4 DEF Queda

\* a step that moves the PCB of q from a to b
LEMMA MuevePcb ==
  ASSUME NEW p, NEW q, NEW S, NEW a \in S, NEW b \in S, a # b,
         q # p => MenguaEn(a, p) /\ MenguaEn(b, p),
         q = p => /\ Puestos(a, p) # {}
                  /\ UnaSola(Puestos(a, p)) => Puestos(a, p)' = {},
         Puestos(b, p) = {} => UnaSola(Puestos(b, p)'),
         \A h \in Sitios \ {a, b} : MenguaEn(h, p)
  PROVE  PasoPcb(p, S)
<1>1. CASE q = p
  BY <1>1 DEF PasoPcb, Viaja
<1>2. CASE q # p
  BY <1>2 DEF PasoPcb, Queda
<1>. QED  BY <1>1, <1>2

LEMMA QuantumPcb ==
  ASSUME Tipos, NEW c \in Cpus, OperacionQuantum(c), NEW p \in Pids PROVE PasoPcb(p, SinNuevo)
<1>. DEFINE q == Pedido(c).pcb
<1>1. /\ haciaKernel[c] # <<>> /\ Consume(c) /\ MandaAReady(q)
      /\ UNCHANGED <<colaNew, impresora, listaBloqueados, haciaCpu, pcb, colaSolicitudes, enCurso>>
  BY DEF OperacionQuantum, Llega, Ajeno, plpVars, admision, ansisop, cpus
<1>2. /\ MenguaEn(SVuelta(c), p)
      /\ \A d \in Cpus : haciaKernel'[d] = haciaKernel[d] \/ SVuelta(d) = SVuelta(c)
      /\ q = p => /\ Puestos(SVuelta(c), p) # {}
                  /\ UnaSola(Puestos(SVuelta(c), p)) => Puestos(SVuelta(c), p)' = {}
  BY <1>1, ConsumePuestos
<1>3. /\ q # p => MenguaEn(SReady, p)
      /\ Puestos(SReady, p) = {} => UnaSola(Puestos(SReady, p)')
  BY <1>1, ReadyPuestos
<1>. HIDE DEF q
<1>4. \A h \in Sitios \ {SVuelta(c), SReady} : MenguaEn(h, p)
  BY <1>1, <1>2, Resto
<1>5. SVuelta(c) \in SinNuevo /\ SReady \in SinNuevo /\ SVuelta(c) # SReady
  BY SitiosSin, SitiosDistintos
<1>. QED  BY <1>2, <1>3, <1>4, <1>5, MuevePcb

LEMMA BloqueadoPcb ==
  ASSUME Tipos, NEW c \in Cpus, RecibeBloqueado(c), NEW p \in Pids PROVE PasoPcb(p, SinNuevo)
<1>. DEFINE q == Pedido(c).pcb
            e == [pcb |-> q, sem |-> servidor.arg]
<1>1. /\ haciaKernel[c] # <<>> /\ Consume(c)
      /\ listaBloqueados' = Append(listaBloqueados, e)
      /\ UNCHANGED <<colaNew, colaReady, impresora, haciaCpu, pcb, colaSolicitudes, enCurso>>
  BY DEF RecibeBloqueado, Bloquea, Ajeno, plpVars, admision, comunes, listos, cpus
<1>2. /\ MenguaEn(SVuelta(c), p)
      /\ \A d \in Cpus : haciaKernel'[d] = haciaKernel[d] \/ SVuelta(d) = SVuelta(c)
      /\ q = p => /\ Puestos(SVuelta(c), p) # {}
                  /\ UnaSola(Puestos(SVuelta(c), p)) => Puestos(SVuelta(c), p)' = {}
  BY <1>1, ConsumePuestos
<1>3. /\ q # p => MenguaEn(SBloqueado, p)
      /\ Puestos(SBloqueado, p) = {} => UnaSola(Puestos(SBloqueado, p)')
  <2>1. listaBloqueados \in Seq(Bloqueados) /\ (q # p => e \notin Lleva(p))
    BY DEF Tipos, TAnsisop, Lleva
  <2>. HIDE DEF e
  <2>2. /\ q # p => Donde1(Append(listaBloqueados, e), Lleva(p))
                      = Donde1(listaBloqueados, Lleva(p))
        /\ Donde1(listaBloqueados, Lleva(p)) = {}
             => UnaSola(Donde1(Append(listaBloqueados, e), Lleva(p)))
    BY <2>1, MenguaAgrega
  <2>3. /\ Puestos(SBloqueado, p) = Donde1(listaBloqueados, Lleva(p))
        /\ Puestos(SBloqueado, p)' = Donde1(Append(listaBloqueados, e), Lleva(p))
    BY <1>1, PuestosBloqueado
  <2>. QED  BY <2>2, <2>3, MenguaIgual DEF MenguaEn
<1>. HIDE DEF q
<1>4. \A h \in Sitios \ {SVuelta(c), SBloqueado} : MenguaEn(h, p)
  BY <1>1, <1>2, Resto
<1>5. SVuelta(c) \in SinNuevo /\ SBloqueado \in SinNuevo /\ SVuelta(c) # SBloqueado
  BY SitiosSin, SitiosDistintos
<1>. QED  BY <1>2, <1>3, <1>4, <1>5, MuevePcb

LEMMA SolicitudPcb ==
  ASSUME Tipos, NEW c \in Cpus, RecibeSolicitud(c), NEW p \in Pids PROVE PasoPcb(p, SinNuevo)
<1>. DEFINE q == Pedido(c).pcb
<1>1. /\ haciaKernel[c] # <<>> /\ Consume(c)
      /\ UNCHANGED <<colaNew, impresora, listaBloqueados, haciaCpu, pcb, enCurso>>
  BY DEF RecibeSolicitud, plpVars, admision, ansisop, cpus
<1>2. /\ MenguaEn(SVuelta(c), p)
      /\ \A b \in Cpus : haciaKernel'[b] = haciaKernel[b] \/ SVuelta(b) = SVuelta(c)
      /\ q = p => /\ Puestos(SVuelta(c), p) # {}
                  /\ UnaSola(Puestos(SVuelta(c), p)) => Puestos(SVuelta(c), p)' = {}
  BY <1>1, ConsumePuestos
<1>3. ASSUME NEW d \in Dispositivos, servidor.arg = d PROVE PasoPcb(p, SinNuevo)
  <2>1. /\ colaSolicitudes' = [colaSolicitudes EXCEPT ![d] = Append(@, q)]
        /\ colaReady' = colaReady
    BY <1>3 DEF RecibeSolicitud, listos
  <2>2. colaSolicitudes[d] \in Seq(Pids) /\ colaSolicitudes \in [Dispositivos -> Seq(Pids)]
    BY <1>3 DEF Tipos, TIo
  <2>. HIDE DEF q
  <2>3. /\ colaSolicitudes'[d] = Append(colaSolicitudes[d], q)
        /\ \A e \in Dispositivos : colaSolicitudes'[e] = colaSolicitudes[e]
                                     \/ SSolicitud(e) = SSolicitud(d)
    BY <1>3, <2>1, <2>2
  <2>4. /\ q # p => Donde1(Append(colaSolicitudes[d], q), {p}) = Donde1(colaSolicitudes[d], {p})
        /\ Donde1(colaSolicitudes[d], {p}) = {}
             => UnaSola(Donde1(Append(colaSolicitudes[d], q), {p}))
    BY <2>2, MenguaAgrega
  <2>5. /\ Puestos(SSolicitud(d), p) = Donde1(colaSolicitudes[d], {p})
        /\ Puestos(SSolicitud(d), p)' = Donde1(Append(colaSolicitudes[d], q), {p})
    BY <2>3, PuestosSolicitud
  <2>6. /\ q # p => MenguaEn(SSolicitud(d), p)
        /\ Puestos(SSolicitud(d), p) = {} => UnaSola(Puestos(SSolicitud(d), p)')
    BY <2>4, <2>5, MenguaIgual DEF MenguaEn
  <2>7. \A h \in Sitios \ {SVuelta(c), SSolicitud(d)} : MenguaEn(h, p)
    BY <1>1, <1>2, <2>1, <2>3, Resto
  <2>8. SVuelta(c) \in SinNuevo /\ SSolicitud(d) \in SinNuevo /\ SVuelta(c) # SSolicitud(d)
    BY <1>3, SitiosSin, SitiosDistintos
  <2>. QED  BY <1>2, <2>6, <2>7, <2>8, MuevePcb
<1>4. CASE servidor.arg \notin Dispositivos
  <2>1. MandaAReady(q) /\ colaSolicitudes' = colaSolicitudes
    BY <1>4 DEF RecibeSolicitud
  <2>2. /\ q # p => MenguaEn(SReady, p)
        /\ Puestos(SReady, p) = {} => UnaSola(Puestos(SReady, p)')
    BY <2>1, ReadyPuestos
  <2>. HIDE DEF q
  <2>3. \A h \in Sitios \ {SVuelta(c), SReady} : MenguaEn(h, p)
    BY <1>1, <1>2, <2>1, Resto
  <2>4. SVuelta(c) \in SinNuevo /\ SReady \in SinNuevo /\ SVuelta(c) # SReady
    BY SitiosSin, SitiosDistintos
  <2>. QED  BY <1>2, <2>2, <2>3, <2>4, MuevePcb
<1>. QED  BY <1>3, <1>4

LEMMA SignalPcb ==
  ASSUME Tipos, NEW c \in Cpus, OperacionSignal(c), NEW p \in Pids PROVE PasoPcb(p, SinNuevo)
<1>1. /\ haciaKernel[c] # <<>> /\ Consume(c)
      /\ UNCHANGED <<colaNew, impresora, haciaCpu, pcb, colaSolicitudes, enCurso>>
  BY DEF OperacionSignal, Llega, Ajeno, plpVars, admision, cpus
<1>2. /\ MenguaEn(SVuelta(c), p)
      /\ \A b \in Cpus : haciaKernel'[b] = haciaKernel[b] \/ SVuelta(b) = SVuelta(c)
  BY <1>1, ConsumePuestos
<1>3. CASE UNCHANGED <<listaBloqueados, colaReady>>
  <2>1. \A h \in Sitios \ {SVuelta(c)} : MenguaEn(h, p)
    BY <1>1, <1>2, <1>3, Resto
  <2>. QED  BY <1>2, <2>1 DEF PasoPcb, Queda
<1>4. ASSUME NEW k \in DOMAIN listaBloqueados,
             listaBloqueados' = QuitaPos(listaBloqueados, k),
             MandaAReady(listaBloqueados[k].pcb)
      PROVE  PasoPcb(p, SinNuevo)
  <2>. DEFINE q == listaBloqueados[k].pcb
  <2>1. /\ MenguaEn(SBloqueado, p)
        /\ q = p => /\ Puestos(SBloqueado, p) # {}
                    /\ UnaSola(Puestos(SBloqueado, p)) => Puestos(SBloqueado, p)' = {}
    BY <1>4, QuitaPuestos
  <2>2. /\ q # p => MenguaEn(SReady, p)
        /\ Puestos(SReady, p) = {} => UnaSola(Puestos(SReady, p)')
    BY <1>4, ReadyPuestos
  <2>. HIDE DEF q
  <2>3. \A h \in Sitios \ {SVuelta(c), SBloqueado, SReady} : MenguaEn(h, p)
    BY <1>1, <1>2, Resto
  <2>4. \A h \in Sitios \ {SBloqueado, SReady} : MenguaEn(h, p)
    BY <1>2, <2>3
  <2>5. SBloqueado \in SinNuevo /\ SReady \in SinNuevo /\ SBloqueado # SReady
    BY SitiosSin, SitiosDistintos
  <2>. QED  BY <2>1, <2>2, <2>4, <2>5, MuevePcb
<1>5. \/ UNCHANGED <<listaBloqueados, colaReady>>
      \/ \E k \in DOMAIN listaBloqueados :
           /\ listaBloqueados' = QuitaPos(listaBloqueados, k)
           /\ MandaAReady(listaBloqueados[k].pcb)
  BY DEF OperacionSignal, Primera, Esperando, listos
<1>. QED  BY <1>3, <1>4, <1>5

\* a CPU that closes takes with it what it had
LEMMA ConexionPcb ==
  ASSUME Tipos, NEW c \in Cpus, CierraConexion(c), NEW p \in Pids PROVE Queda(p)
<1>1. /\ UNCHANGED <<colaNew, colaReady, impresora, listaBloqueados, haciaKernel,
                     colaSolicitudes, enCurso>>
      /\ haciaCpu' = [haciaCpu EXCEPT ![c] = <<>>] /\ pcb' = [pcb EXCEPT ![c] = Nadie]
  BY DEF CierraConexion, admision, listos, ansisop, io
<1>2. haciaCpu \in [Cpus -> Seq(AlCpu)] /\ pcb \in [Cpus -> Pids \cup {Nadie}]
  BY DEF Tipos, TRed, TCpu
<1>3. haciaCpu'[c] = <<>> /\ pcb'[c] = Nadie /\ Nadie # p
  BY <1>1, <1>2, PidsTipo
<1>4. MenguaEn(SEnvio(c), p)
  <2>1. Donde1(<<>>, Lleva(p)) = {}
    BY DEF Donde1
  <2>2. Puestos(SEnvio(c), p)' = {}
    BY <1>3, <2>1, PuestosEnvio
  <2>. QED  BY <2>2 DEF MenguaEn, Mengua, UnaSola
<1>5. MenguaEn(SCpu(c), p)
  <2>1. Si(p, {Nadie}) = {}
    BY <1>3 DEF Si
  <2>2. Puestos(SCpu(c), p)' = {}
    BY <1>3, <2>1, PuestosCpu
  <2>. QED  BY <2>2 DEF MenguaEn, Mengua, UnaSola
<1>6. /\ \A d \in Cpus : haciaCpu'[d] = haciaCpu[d] \/ SEnvio(d) = SEnvio(c)
      /\ \A d \in Cpus : pcb'[d] = pcb[d] \/ SCpu(d) = SCpu(c)
  BY <1>1, <1>2
<1>7. \A h \in Sitios \ {SEnvio(c), SCpu(c)} : MenguaEn(h, p)
  BY <1>1, <1>6, Resto
<1>. QED  BY <1>4, <1>5, <1>7 DEF Queda

LEMMA AdmitePcb ==
  ASSUME Tipos, Admite, NEW p \in Pids PROVE PasoPcb(p, Sitios)
<1>1. PICK q \in colaNew : colaNew' = colaNew \ {q} /\ MandaAReady(q)
  BY DEF Admite
<1>2. UNCHANGED <<impresora, listaBloqueados, haciaCpu, pcb, haciaKernel, colaSolicitudes, enCurso>>
  BY DEF Admite, pcpVars, ansisop, io, cpus, red
<1>3. /\ Puestos(SNew, p) = Si(p, colaNew) /\ Puestos(SNew, p)' = Si(p, colaNew \ {q})
  BY <1>1, PuestosNew
<1>4. /\ q # p => MenguaEn(SNew, p)
      /\ q = p => Puestos(SNew, p) # {} /\ Puestos(SNew, p)' = {}
  BY <1>3 DEF Si, MenguaEn, Mengua
<1>5. /\ q # p => MenguaEn(SReady, p)
      /\ Puestos(SReady, p) = {} => UnaSola(Puestos(SReady, p)')
  BY <1>1, ReadyPuestos
<1>6. \A h \in Sitios \ {SNew, SReady} : MenguaEn(h, p)
  BY <1>2, Resto
<1>7. SNew \in Sitios /\ SReady \in Sitios /\ SNew # SReady
  BY SitiosSon, SitiosDistintos
<1>. QED  BY <1>4, <1>5, <1>6, <1>7, MuevePcb

LEMMA EnvioPcb ==
  ASSUME Tipos, EnviaPcb, NEW p \in Pids PROVE PasoPcb(p, SinNuevo)
<1>1. PICK c \in Cpus, q \in Pids : c = despacho.cpu /\ q = Head(colaReady)
  BY ColaTipo DEF EnviaPcb, SacaDeReady, Tipos, TDespacho, TListos
<1>2. /\ colaReady # <<>> /\ colaReady' = Tail(colaReady) /\ colaReady \in Seq(Pids)
      /\ haciaCpu' = [haciaCpu EXCEPT ![c] = Append(@, Mensaje("NOTHING", q, SinArg))]
      /\ UNCHANGED <<colaNew, impresora, listaBloqueados, pcb, haciaKernel, colaSolicitudes,
                     enCurso>>
  BY <1>1 DEF EnviaPcb, SacaDeReady, Envia, Tipos, TListos, plpVars, admision, ansisop, io, cpus
<1>3. /\ MenguaEn(SReady, p)
      /\ q = p => /\ Puestos(SReady, p) # {}
                  /\ UnaSola(Puestos(SReady, p)) => Puestos(SReady, p)' = {}
  <2>1. /\ Mengua(Donde1(colaReady, {p}), Donde1(Tail(colaReady), {p}))
        /\ Head(colaReady) \in {p} =>
             /\ Donde1(colaReady, {p}) # {}
             /\ UnaSola(Donde1(colaReady, {p})) => Donde1(Tail(colaReady), {p}) = {}
    BY <1>2, MenguaCabeza
  <2>2. /\ Puestos(SReady, p) = Donde1(colaReady, {p})
        /\ Puestos(SReady, p)' = Donde1(Tail(colaReady), {p})
    BY <1>2, PuestosReady
  <2>. QED  BY <1>1, <2>1, <2>2 DEF MenguaEn
<1>4. Mensaje("NOTHING", q, SinArg).pcb = q
  BY DEF Mensaje
<1>5. /\ \A d \in Cpus : haciaCpu'[d] = haciaCpu[d] \/ SEnvio(d) = SEnvio(c)
      /\ q # p => MenguaEn(SEnvio(c), p)
      /\ Puestos(SEnvio(c), p) = {} => UnaSola(Puestos(SEnvio(c), p)')
  BY <1>2, <1>4, EnviaPuestos
<1>6. \A h \in Sitios \ {SReady, SEnvio(c)} : MenguaEn(h, p)
  BY <1>2, <1>5, Resto
<1>7. SReady \in SinNuevo /\ SEnvio(c) \in SinNuevo /\ SReady # SEnvio(c)
  BY SitiosSin, SitiosDistintos
<1>. QED  BY <1>3, <1>5, <1>6, <1>7, MuevePcb

LEMMA TomaSolicitudPcb ==
  ASSUME Tipos, NEW d \in Dispositivos, TomaSolicitud(d), NEW p \in Pids
  PROVE  PasoPcb(p, SinNuevo)
<1>. DEFINE q == Head(colaSolicitudes[d])
<1>1. /\ colaSolicitudes[d] # <<>>
      /\ enCurso' = [enCurso EXCEPT ![d] = q]
      /\ colaSolicitudes' = [colaSolicitudes EXCEPT ![d] = Tail(@)]
      /\ UNCHANGED <<colaNew, colaReady, impresora, listaBloqueados, haciaCpu, pcb, haciaKernel>>
  BY DEF TomaSolicitud, plpVars, admision, comunes, listos, ansisop, cpus, red
<1>2. /\ colaSolicitudes[d] \in Seq(Pids) /\ colaSolicitudes \in [Dispositivos -> Seq(Pids)]
      /\ enCurso \in [Dispositivos -> Pids \cup {Nadie}]
  BY DEF Tipos, TIo
<1>3. /\ colaSolicitudes'[d] = Tail(colaSolicitudes[d]) /\ enCurso'[d] = q
      /\ \A e \in Dispositivos : /\ colaSolicitudes'[e] = colaSolicitudes[e]
                                      \/ SSolicitud(e) = SSolicitud(d)
                                 /\ enCurso'[e] = enCurso[e] \/ SIo(e) = SIo(d)
  BY <1>1, <1>2
<1>4. /\ MenguaEn(SSolicitud(d), p)
      /\ q = p => /\ Puestos(SSolicitud(d), p) # {}
                  /\ UnaSola(Puestos(SSolicitud(d), p)) => Puestos(SSolicitud(d), p)' = {}
  <2>1. /\ Mengua(Donde1(colaSolicitudes[d], {p}), Donde1(Tail(colaSolicitudes[d]), {p}))
        /\ q \in {p} =>
             /\ Donde1(colaSolicitudes[d], {p}) # {}
             /\ UnaSola(Donde1(colaSolicitudes[d], {p}))
                  => Donde1(Tail(colaSolicitudes[d]), {p}) = {}
    BY <1>1, <1>2, MenguaCabeza
  <2>2. /\ Puestos(SSolicitud(d), p) = Donde1(colaSolicitudes[d], {p})
        /\ Puestos(SSolicitud(d), p)' = Donde1(Tail(colaSolicitudes[d]), {p})
    BY <1>3, PuestosSolicitud
  <2>. QED  BY <2>1, <2>2 DEF MenguaEn
<1>. HIDE DEF q
<1>5. /\ q # p => MenguaEn(SIo(d), p)
      /\ Puestos(SIo(d), p) = {} => UnaSola(Puestos(SIo(d), p)')
  <2>1. Puestos(SIo(d), p)' = Si(p, {q})
    BY <1>3, PuestosIo
  <2>. QED  BY <2>1 DEF MenguaEn, Mengua, UnaSola, Si
<1>6. \A h \in Sitios \ {SSolicitud(d), SIo(d)} : MenguaEn(h, p)
  BY <1>1, <1>3, Resto
<1>7. SSolicitud(d) \in SinNuevo /\ SIo(d) \in SinNuevo /\ SSolicitud(d) # SIo(d)
  BY SitiosSin, SitiosDistintos
<1>. QED  BY <1>4, <1>5, <1>6, <1>7, MuevePcb

LEMMA TerminaIOPcb ==
  ASSUME Tipos, NEW d \in Dispositivos, TerminaIO(d), NEW p \in Pids
  PROVE  PasoPcb(p, SinNuevo)
<1>. DEFINE q == enCurso[d]
<1>1. /\ MandaAReady(q) /\ enCurso' = [enCurso EXCEPT ![d] = Nadie]
      /\ UNCHANGED <<colaNew, impresora, listaBloqueados, haciaCpu, pcb, haciaKernel,
                     colaSolicitudes>>
  BY DEF TerminaIO, plpVars, admision, ansisop, cpus, red
<1>2. /\ enCurso'[d] = Nadie /\ Nadie # p
      /\ \A e \in Dispositivos : enCurso'[e] = enCurso[e] \/ SIo(e) = SIo(d)
  BY <1>1, PidsTipo DEF Tipos, TIo
<1>3. /\ MenguaEn(SIo(d), p)
      /\ q = p => Puestos(SIo(d), p) # {} /\ Puestos(SIo(d), p)' = {}
  <2>1. Puestos(SIo(d), p)' = Si(p, {Nadie}) /\ Puestos(SIo(d), p) = Si(p, {q})
    BY <1>2, PuestosIo
  <2>. QED  BY <1>2, <2>1 DEF MenguaEn, Mengua, UnaSola, Si
<1>4. /\ q # p => MenguaEn(SReady, p)
      /\ Puestos(SReady, p) = {} => UnaSola(Puestos(SReady, p)')
  BY <1>1, ReadyPuestos
<1>. HIDE DEF q
<1>5. \A h \in Sitios \ {SIo(d), SReady} : MenguaEn(h, p)
  BY <1>1, <1>2, Resto
<1>6. SIo(d) \in SinNuevo /\ SReady \in SinNuevo /\ SIo(d) # SReady
  BY SitiosSin, SitiosDistintos
<1>. QED  BY <1>3, <1>4, <1>5, <1>6, MuevePcb

LEMMA RecibePcbPcb ==
  ASSUME Tipos, NEW c \in Cpus, RecibePcb(c), NEW p \in Pids PROVE PasoPcb(p, SinNuevo)
<1>. DEFINE q == Head(haciaCpu[c]).pcb
<1>1. /\ haciaCpu[c] # <<>> /\ haciaCpu' = [haciaCpu EXCEPT ![c] = Tail(@)]
      /\ pcb' = [pcb EXCEPT ![c] = q]
      /\ UNCHANGED <<colaNew, colaReady, impresora, listaBloqueados, haciaKernel,
                     colaSolicitudes, enCurso>>
  BY DEF RecibePcb, plpVars, admision, pcpVars, ansisop, io, comunes, listos
<1>2. /\ MenguaEn(SEnvio(c), p)
      /\ \A b \in Cpus : haciaCpu'[b] = haciaCpu[b] \/ SEnvio(b) = SEnvio(c)
      /\ q = p => /\ Puestos(SEnvio(c), p) # {}
                  /\ UnaSola(Puestos(SEnvio(c), p)) => Puestos(SEnvio(c), p)' = {}
  BY <1>1, TomaPuestos
<1>. HIDE DEF q
<1>3. pcb'[c] = q /\ \A b \in Cpus : pcb'[b] = pcb[b] \/ SCpu(b) = SCpu(c)
  BY <1>1 DEF Tipos, TCpu
<1>4. /\ q # p => MenguaEn(SCpu(c), p)
      /\ Puestos(SCpu(c), p) = {} => UnaSola(Puestos(SCpu(c), p)')
  <2>1. Puestos(SCpu(c), p)' = Si(p, {q})
    BY <1>3, PuestosCpu
  <2>. QED  BY <2>1 DEF MenguaEn, Mengua, UnaSola, Si
<1>5. \A h \in Sitios \ {SEnvio(c), SCpu(c)} : MenguaEn(h, p)
  BY <1>1, <1>2, <1>3, Resto
<1>6. SEnvio(c) \in SinNuevo /\ SCpu(c) \in SinNuevo /\ SEnvio(c) # SCpu(c)
  BY SitiosSin, SitiosDistintos
<1>. QED  BY <1>2, <1>4, <1>5, <1>6, MuevePcb

LEMMA CambioContextoPcb ==
  ASSUME Tipos, NEW c \in Cpus, CambioContexto(c), NEW p \in Pids PROVE PasoPcb(p, SinNuevo)
<1>1. PICK q \in Pids : q = pcb[c]
  BY DEF CambioContexto, Tipos, TCpu
<1>2. PICK m : m = Mensaje(operacion[c], pcb[c], SinArg)
  OBVIOUS
<1>3. /\ Pide(c, m) /\ m.pcb = q /\ pcb' = [pcb EXCEPT ![c] = Nadie]
      /\ UNCHANGED <<colaNew, colaReady, impresora, listaBloqueados, haciaCpu, colaSolicitudes,
                     enCurso>>
  BY <1>1, <1>2
     DEF CambioContexto, Mensaje, plpVars, admision, pcpVars, ansisop, io, comunes, listos
<1>4. /\ pcb'[c] = Nadie /\ Nadie # p
      /\ \A b \in Cpus : pcb'[b] = pcb[b] \/ SCpu(b) = SCpu(c)
  BY <1>3, PidsTipo DEF Tipos, TCpu
<1>5. /\ MenguaEn(SCpu(c), p)
      /\ q = p => Puestos(SCpu(c), p) # {} /\ Puestos(SCpu(c), p)' = {}
  <2>1. Puestos(SCpu(c), p)' = Si(p, {Nadie}) /\ Puestos(SCpu(c), p) = Si(p, {q})
    BY <1>1, <1>4, PuestosCpu
  <2>. QED  BY <1>4, <2>1 DEF MenguaEn, Mengua, UnaSola, Si
<1>6. /\ \A d \in Cpus : haciaKernel'[d] = haciaKernel[d] \/ SVuelta(d) = SVuelta(c)
      /\ q # p => MenguaEn(SVuelta(c), p)
      /\ Puestos(SVuelta(c), p) = {} => UnaSola(Puestos(SVuelta(c), p)')
  BY <1>3, PidePuestos
<1>7. \A h \in Sitios \ {SCpu(c), SVuelta(c)} : MenguaEn(h, p)
  BY <1>3, <1>4, <1>6, Resto
<1>8. SCpu(c) \in SinNuevo /\ SVuelta(c) \in SinNuevo /\ SCpu(c) # SVuelta(c)
  BY SitiosSin, SitiosDistintos
<1>. QED  BY <1>5, <1>6, <1>7, <1>8, MuevePcb

\* the rest of what a CPU does leaves its PCB where it is
LEMMA CpuPcb ==
  ASSUME Tipos, NextCPU, NEW p \in Pids PROVE PasoPcb(p, SinNuevo)
<1>1. PICK c \in Cpus : Corre(c) \/ Sigusr1(c) \/ CaeCpu(c)
  BY DEF NextCPU
<1>2. UNCHANGED <<colaNew, colaReady, impresora, listaBloqueados, colaSolicitudes, enCurso>>
  BY CPUAjena DEF plpVars, admision, pcpVars, ansisop, io, comunes, listos
<1>3. ASSUME haciaCpu[c] # <<>>, haciaCpu' = [haciaCpu EXCEPT ![c] = Tail(@)],
             UNCHANGED <<pcb, haciaKernel>>
      PROVE  Queda(p)
  <2>1. /\ MenguaEn(SEnvio(c), p)
        /\ \A b \in Cpus : haciaCpu'[b] = haciaCpu[b] \/ SEnvio(b) = SEnvio(c)
    BY <1>3, TomaPuestos
  <2>2. \A h \in Sitios \ {SEnvio(c)} : MenguaEn(h, p)
    BY <1>2, <1>3, <2>1, Resto
  <2>. QED  BY <2>1, <2>2 DEF Queda
<1>4. ASSUME NEW m, m.pcb = Nadie, Pide(c, m), UNCHANGED <<pcb, haciaCpu>> PROVE Queda(p)
  <2>1. m.pcb # p
    BY <1>4, PidsTipo
  <2>2. /\ MenguaEn(SVuelta(c), p)
        /\ \A b \in Cpus : haciaKernel'[b] = haciaKernel[b] \/ SVuelta(b) = SVuelta(c)
    BY <1>4, <2>1, PidePuestos
  <2>3. \A h \in Sitios \ {SVuelta(c)} : MenguaEn(h, p)
    BY <1>2, <1>4, <2>2, Resto
  <2>. QED  BY <2>2, <2>3 DEF Queda
<1>5. ASSUME UNCHANGED <<pcb, haciaCpu, haciaKernel>> PROVE Queda(p)
  BY <1>2, <1>5, NadaPcb
<1>6. CASE RecibePcb(c)
  BY <1>6, RecibePcbPcb
<1>7. CASE CambioContexto(c)
  BY <1>7, CambioContextoPcb
<1>8. CASE RecibeBasura(c) \/ RecibeRespuesta(c)
  BY <1>3, <1>8 DEF RecibeBasura, RecibeRespuesta, PasoPcb
<1>9. CASE Nada(c) \/ Falla(c) \/ Finalizar(c) \/ CaeCpu(c)
  BY <1>5, <1>9 DEF Nada, Falla, Finalizar, CaeCpu, Instruccion, PasoPcb, red
<1>10. CASE Imprimir(c)
  BY <1>4, <1>10 DEF Imprimir, Instruccion, Texto, PasoPcb
<1>11. CASE \E s \in Semaforos : AnsisopWait(c, s) \/ AnsisopSignal(c, s)
  BY <1>4, <1>11 DEF AnsisopWait, AnsisopSignal, Instruccion, Mensaje, PasoPcb
<1>12. CASE \E d \in Pedidos : EntradaSalida(c, d)
  BY <1>4, <1>12 DEF EntradaSalida, Instruccion, Mensaje, PasoPcb
<1>13. CASE Sigusr1(c)
  BY <1>4, <1>5, <1>13 DEF Sigusr1, Mensaje, PasoPcb
<1>. QED
  BY <1>1, <1>6, <1>7, <1>8, <1>9, <1>10, <1>11, <1>12, <1>13 DEF Corre

\* a PCB taken out of a queue by hiloPCBaFinalizar goes on no more
LEMMA FinalizaPcbPcb ==
  ASSUME Tipos, FinalizaPcb, NEW p \in Pids PROVE Queda(p)
<1>1. ASSUME NEW k \in DOMAIN listaBloqueados,
             listaBloqueados' = QuitaPos(listaBloqueados, k),
             UNCHANGED <<colaNew, colaReady, impresora, haciaCpu, pcb, haciaKernel,
                         colaSolicitudes, enCurso>>
      PROVE  Queda(p)
  <2>1. MenguaEn(SBloqueado, p)
    BY <1>1, QuitaPuestos
  <2>2. \A h \in Sitios \ {SBloqueado} : MenguaEn(h, p)
    BY <1>1, Resto
  <2>. QED  BY <2>1, <2>2 DEF Queda
<1>2. ASSUME NEW k \in DOMAIN colaReady, colaReady' = QuitaPos(colaReady, k),
             UNCHANGED <<colaNew, listaBloqueados, impresora, haciaCpu, pcb, haciaKernel,
                         colaSolicitudes, enCurso>>
      PROVE  Queda(p)
  <2>1. colaReady \in Seq(Pids) /\ k \in 1..Len(colaReady)
    BY DEF Tipos, TListos
  <2>2. Mengua(Donde1(colaReady, {p}), Donde1(QuitaPos(colaReady, k), {p}))
    BY <2>1, MenguaQuita
  <2>3. /\ Puestos(SReady, p) = Donde1(colaReady, {p})
        /\ Puestos(SReady, p)' = Donde1(QuitaPos(colaReady, k), {p})
    BY <1>2, PuestosReady
  <2>4. MenguaEn(SReady, p)
    BY <2>2, <2>3 DEF MenguaEn
  <2>5. \A h \in Sitios \ {SReady} : MenguaEn(h, p)
    BY <1>2, Resto
  <2>. QED  BY <2>4, <2>5 DEF Queda
<1>3. CASE FinalizaBloqueado
  BY <1>1, <1>3
     DEF FinalizaBloqueado, Finaliza, BloqueadoAFinalizar, Primera, admision, listos, io, cpus, red
<1>4. CASE FinalizaReady
  BY <1>2, <1>4
     DEF FinalizaReady, Finaliza, ReadyAFinalizar, Primera, admision, ansisop, io, cpus, red
<1>5. CASE EsperaFinaliza \/ FinalizaAsignado \/ FinalizaBasura
  BY <1>5, NadaPcb
     DEF EsperaFinaliza, FinalizaAsignado, FinalizaBasura, Finaliza, Cae, plpVars, admision,
         pcpVars, ansisop, io, comunes, listos, cpus, red
<1>. QED  BY <1>3, <1>4, <1>5 DEF FinalizaPcb

\* printing a queue takes all its PCBs out and puts them back
LEMMA ImpresionPcb ==
  ASSUME Tipos, NEW p \in Pids,
         ReponeCola \/ \E hilo \in {"servidor", "despacho"}, cola \in {"ready", "exit"} :
                         VaciaCola(hilo, cola)
  PROVE  PasoPcb(p, SinNuevo)
<1>1. UNCHANGED <<colaNew, listaBloqueados, haciaCpu, pcb, haciaKernel, colaSolicitudes, enCurso>>
  BY DEF ReponeCola, VaciaCola, plpVars, admision, ansisop, io, cpus, red
<1>2. \A h \in Sitios \ {SImpresora, SReady} : MenguaEn(h, p)
  BY <1>1, Resto
<1>3. ASSUME MenguaEn(SImpresora, p), MenguaEn(SReady, p) PROVE PasoPcb(p, SinNuevo)
  BY <1>2, <1>3 DEF PasoPcb, Queda
<1>4. /\ Puestos(SReady, p) = Donde1(colaReady, {p})
      /\ Puestos(SReady, p)' = Donde1(colaReady', {p})
  BY PuestosReady
<1>5. /\ Puestos(SImpresora, p)
           = {k \in Donde1(impresora.pcbs, {p}) : impresora.cola = "ready"}
      /\ Puestos(SImpresora, p)'
           = {k \in Donde1(impresora'.pcbs, {p}) : impresora'.cola = "ready"}
  BY PuestosImpresora
<1>6. SReady \in SinNuevo /\ SImpresora \in SinNuevo /\ SImpresora # SReady
  BY SitiosSin, SitiosDistintos
<1>7. colaReady \in Seq(Pids) /\ impresora.pcbs \in Seq(Pids) /\ Donde1(<<>>, {p}) = {}
  BY DEF Tipos, TListos, TImpresora, Donde1
<1>8. ASSUME UNCHANGED colaReady, impresora'.cola # "ready" PROVE PasoPcb(p, SinNuevo)
  <2>1. MenguaEn(SReady, p)
    BY <1>4, <1>8 DEF MenguaEn, Mengua
  <2>2. Puestos(SImpresora, p)' = {}
    BY <1>5, <1>8
  <2>. QED  BY <1>3, <2>1, <2>2 DEF MenguaEn, Mengua, UnaSola
<1>9. ASSUME NEW hilo, VaciaCola(hilo, "ready") PROVE PasoPcb(p, SinNuevo)
  <2>1. /\ colaReady' = <<>>
        /\ impresora' = [hilo |-> hilo, cola |-> "ready", pcbs |-> colaReady]
    BY <1>9 DEF VaciaCola
  <2>2. Puestos(SReady, p)' = {} /\ Puestos(SImpresora, p)' = Puestos(SReady, p)
    BY <1>4, <1>5, <1>7, <2>1
  <2>3. CASE Puestos(SReady, p) = {}
    BY <1>3, <2>2, <2>3 DEF MenguaEn, Mengua, UnaSola
  <2>4. CASE Puestos(SReady, p) # {}
    <3>1. Viaja(p, SReady, SImpresora)
      BY <1>2, <1>6, <2>2, <2>4 DEF Viaja
    <3>. QED  BY <1>6, <3>1 DEF PasoPcb
  <2>. QED  BY <2>3, <2>4
<1>10. ASSUME ReponeCola, impresora.cola = "ready" PROVE PasoPcb(p, SinNuevo)
  <2>0. PICK r \in Seq(Pids) : r = impresora.pcbs
    BY <1>7
  <2>1. colaReady' = colaReady \o r /\ impresora' = SinImpresion
    BY <1>10, <2>0 DEF ReponeCola, Repuesta
  <2>2. Puestos(SImpresora, p) = Donde1(r, {p}) /\ Puestos(SImpresora, p)' = {}
    BY <1>5, <1>10, <2>0, <2>1 DEF SinImpresion
  <2>3. CASE Puestos(SImpresora, p) = {}
    <3>1. Donde1(r, {p}) = {}
      BY <2>2, <2>3
    <3>2. PICK q \in Seq(Pids) : q = colaReady
      BY <1>7
    <3>3. Donde1(q \o r, {p}) = Donde1(q, {p})
      BY <3>1, <3>2, UneNada
    <3>. QED  BY <1>3, <1>4, <2>1, <2>2, <2>3, <3>2, <3>3 DEF MenguaEn, Mengua
  <2>4. CASE Puestos(SImpresora, p) # {}
    <3>1. Donde1(colaReady, {p}) = {} /\ UnaSola(Donde1(r, {p}))
            => UnaSola(Donde1(colaReady \o r, {p}))
      BY <1>7, <2>0, MenguaUne
    <3>2. Viaja(p, SImpresora, SReady)
      BY <1>2, <1>4, <1>6, <2>1, <2>2, <2>4, <3>1 DEF Viaja
    <3>. QED  BY <1>6, <3>2 DEF PasoPcb
  <2>. QED  BY <2>3, <2>4
<1>11. CASE ReponeCola
  <2>1. impresora.cola \in {"ready", "exit"}
    BY <1>11 DEF ReponeCola, Tipos, TImpresora
  <2>2. CASE impresora.cola = "exit"
    BY <1>8, <1>11, <2>2 DEF ReponeCola, SinImpresion
  <2>. QED  BY <1>10, <1>11, <2>1, <2>2
<1>12. ASSUME NEW hilo, VaciaCola(hilo, "exit") PROVE PasoPcb(p, SinNuevo)
  BY <1>8, <1>12 DEF VaciaCola
<1>. QED  BY <1>9, <1>11, <1>12

LEMMA AtiendePcb ==
  ASSUME Tipos, NEW c \in Cpus, Atiende(c), NEW p \in Pids PROVE PasoPcb(p, SinNuevo)
<1>1. CASE MensajeDesfasado(c) \/ PcbDesfasado(c)
  BY <1>1, NadaPcb
     DEF MensajeDesfasado, PcbDesfasado, Cae, PasoPcb, plpVars, admision, pcpVars, ansisop, io,
         comunes, listos, cpus, red
<1>. QED
  BY <1>1, PedidoPcb, QuantumPcb, SignalPcb, BloqueadoPcb, SolicitudPcb, ConexionPcb
     DEF Atiende, PasoPcb

LEMMA PcpPcb ==
  ASSUME Tipos, NextPCP, NEW p \in Pids PROVE PasoPcb(p, SinNuevo)
<1>1. ASSUME NEW c \in Cpus, NuevoCliente(c) PROVE PasoPcb(p, SinNuevo)
  BY <1>1, NadaPcb
     DEF NuevoCliente, PasoPcb, plpVars, admision, ansisop, io, comunes, listos, red
<1>2. CASE DescuentaOcioso
  BY <1>2, NadaPcb
     DEF DescuentaOcioso, PasoPcb, plpVars, admision, ansisop, io, comunes, listos, cpus, red
<1>3. CASE Despacha
  <2>1. CASE EsperaReady \/ EligeOcioso \/ AsignaPcb \/ DespachaNulo
    BY <2>1, NadaPcb
       DEF EsperaReady, EligeOcioso, AsignaPcb, DespachaNulo, Cae, PasoPcb, plpVars, admision,
           pcpVars, ansisop, io, comunes, listos, cpus, red
  <2>. QED  BY <1>3, <2>1, EnvioPcb DEF Despacha
<1>4. CASE FinalizaPcb
  BY <1>4, FinalizaPcbPcb DEF PasoPcb
<1>. QED
  BY <1>1, <1>2, <1>3, <1>4, AtiendePcb, TomaSolicitudPcb, TerminaIOPcb, ImpresionPcb DEF NextPCP

LEMMA PcpAdmision == NextPCP => UNCHANGED admision
<1>. SUFFICES ASSUME NextPCP PROVE UNCHANGED admision
  OBVIOUS
<1>1. CASE \E c \in Cpus : NuevoCliente(c) \/ Atiende(c)
  BY <1>1
     DEF NuevoCliente, Atiende, DescartaPcb, DescartaPedido, OperacionQuantum, OperacionIO,
         OperacionFin, OperacionImprimir, OperacionWait, OperacionSignal, OperacionSigusr,
         MensajeDesfasado, RecibeBloqueado, RecibeSolicitud, PcbDesfasado, CierraConexion, Cae,
         Ajeno, plpVars
<1>2. CASE Despacha \/ DescuentaOcioso
  BY <1>2
     DEF Despacha, DescuentaOcioso, EsperaReady, EligeOcioso, EnviaPcb, AsignaPcb, DespachaNulo,
         Cae, plpVars
<1>3. CASE \/ FinalizaPcb \/ ReponeCola
           \/ \E d \in Dispositivos : TomaSolicitud(d) \/ TerminaIO(d)
           \/ \E hilo \in {"servidor", "despacho"}, cola \in {"ready", "exit"} :
                VaciaCola(hilo, cola)
  BY <1>3
     DEF FinalizaPcb, ReponeCola, TomaSolicitud, TerminaIO, VaciaCola, EsperaFinaliza,
         FinalizaBloqueado, FinalizaReady, FinalizaAsignado, FinalizaBasura, Finaliza, Cae,
         plpVars
<1>. QED  BY <1>1, <1>2, <1>3 DEF NextPCP

LEMMA PlpPcb ==
  ASSUME Tipos, NextPLP, ~Admite, \A r \in Creaciones : ~LlegaPrograma(r), NEW p \in Pids
  PROVE  PasoPcb(p, SinNuevo) /\ nroProg' = nroProg
<1>1. UNCHANGED <<colaNew, colaReady, impresora, listaBloqueados, haciaCpu, pcb, haciaKernel,
                  colaSolicitudes, enCurso, nroProg>>
  BY DEF NextPLP, NotaCierre, EsperaNuevo, EnviaMensaje, SacaDeExit, Destruye, DestruyeNulo,
         CierraPrograma, CortaPrograma, Cae, plpVars, admision, pcpVars, ansisop, io, comunes,
         listos, cpus, red
<1>. QED  BY <1>1, NadaPcb DEF PasoPcb

\* Only the admission takes a process out of colaNew, and only a program that
\* arrives puts one there.
LEMMA NextPasoPcb ==
  ASSUME Tipos, [Next]_vars, \A r \in Creaciones : ~LlegaPrograma(r), NEW p \in Pids
  PROVE  /\ nroProg' = nroProg /\ PasoPcb(p, Sitios)
         /\ ~Admite => PasoPcb(p, SinNuevo)
<1>1. PasoPcb(p, SinNuevo) => PasoPcb(p, Sitios)
  BY DEF PasoPcb, SinNuevo
<1>2. CASE UNCHANGED vars
  BY <1>1, <1>2, NadaPcb
     DEF PasoPcb, vars, plpVars, admision, pcpVars, ansisop, io, comunes, listos, cpus, red
<1>3. CASE Admite
  BY <1>3, AdmitePcb DEF Admite
<1>4. CASE NextPLP /\ ~Admite
  BY <1>1, <1>4, PlpPcb
<1>5. CASE NextCPU
  BY <1>1, <1>5, CpuPcb, CPUAjena DEF plpVars, admision
<1>6. CASE NextPCP
  <2>1. nroProg' = nroProg
    BY <1>6, PcpAdmision DEF admision
  <2>. QED  BY <1>1, <1>6, <2>1, PcpPcb
<1>. QED  BY <1>2, <1>3, <1>4, <1>5, <1>6 DEF Next

\* The first to arrive with its number brings the only PCB that has it.
LEMMA LlegaPcb ==
  ASSUME Tipos, PcbUnico, NEW r \in Creaciones, LlegaPrograma(r) PROVE PcbUnico'
<1>. DEFINE n == nroProg + 1
<1>1. /\ n \in Pids /\ nroProg \in Nat /\ nroProg' = n
      /\ colaNew' = colaNew \cup {n} \/ colaNew' = colaNew
      /\ UNCHANGED <<colaReady, impresora, listaBloqueados, haciaCpu, pcb, haciaKernel,
                     colaSolicitudes, enCurso>>
  BY DEF LlegaPrograma, CrearPCB, pcpVars, ansisop, io, listos, cpus, red, Tipos, TAdmision
<1>2. SUFFICES ASSUME NEW p \in Pids PROVE UnPuesto(p)' /\ Conocido(p)'
  BY DEF PcbUnico
<1>3. p \in Nat /\ UnPuesto(p) /\ Conocido(p)
  BY PidsTipo DEF PcbUnico
<1>4. /\ Puestos(SNew, p) = Si(p, colaNew) /\ Puestos(SNew, p)' = Si(p, colaNew')
      /\ SNew \in Sitios
  BY PuestosNew, SitiosSon
<1>5. \A h \in Sitios \ {SNew} : MenguaEn(h, p)
  BY <1>1, Resto
<1>6. CASE p # n
  <2>1. MenguaEn(SNew, p)
    BY <1>1, <1>4, <1>6 DEF MenguaEn, Mengua, Si, UnaSola
  <2>2. PasoPcb(p, Sitios)
    BY <1>5, <2>1 DEF PasoPcb, Queda
  <2>3. UnPuesto(p)'
    BY <1>3, <2>2, ViajaUno
  <2>4. (\E h \in Sitios : Puestos(h, p)' # {}) => \E h \in Sitios : Puestos(h, p) # {}
    BY <1>5, <2>1 DEF MenguaEn, Mengua
  <2>. QED  BY <1>1, <1>3, <2>3, <2>4 DEF Conocido
<1>7. CASE p = n
  <2>1. \A h \in Sitios : Puestos(h, p) = {}
    BY <1>1, <1>3, <1>7 DEF Conocido
  <2>2. \A h \in Sitios \ {SNew} : Puestos(h, p)' = {}
    BY <1>5, <2>1 DEF MenguaEn, Mengua
  <2>3. UnaSola(Puestos(SNew, p)')
    BY <1>4 DEF Si, UnaSola
  <2>4. UnPuesto(p)'
    BY <2>2, <2>3 DEF UnPuesto, UnaSola
  <2>. QED  BY <1>1, <1>3, <1>7, <2>4 DEF Conocido
<1>. QED  BY <1>6, <1>7

LEMMA NextPcb == ASSUME Tipos, PcbUnico, [Next]_vars PROVE PcbUnico'
<1>1. CASE \E r \in Creaciones : LlegaPrograma(r)
  BY <1>1, LlegaPcb
<1>2. CASE \A r \in Creaciones : ~LlegaPrograma(r)
  <2>1. SUFFICES ASSUME NEW p \in Pids PROVE UnPuesto(p)' /\ Conocido(p)'
    BY DEF PcbUnico
  <2>2. nroProg' = nroProg /\ PasoPcb(p, Sitios)
    BY <1>2, NextPasoPcb
  <2>. QED  BY <2>2, ViajaUno, ViajaConocido DEF PcbUnico
<1>. QED  BY <1>1, <1>2

LEMMA InitVacio ==
  ASSUME Init, NEW p \in Pids, NEW h \in Sitios PROVE Puestos(h, p) = {}
<1>1. /\ colaNew = {} /\ colaReady = <<>> /\ impresora.pcbs = <<>> /\ listaBloqueados = <<>>
      /\ \A c \in Cpus : haciaCpu[c] = <<>> /\ pcb[c] = Nadie /\ haciaKernel[c] = <<>>
      /\ \A d \in Dispositivos : colaSolicitudes[d] = <<>> /\ enCurso[d] = Nadie
  BY DEF Init, InitPLP, InitPCP, InitCPU, SemaforosIniciales, DispositivosIniciales, SinImpresion
<1>2. (\A T : Donde1(<<>>, T) = {}) /\ Si(p, {}) = {} /\ Si(p, {Nadie}) = {}
  BY PidsTipo DEF Donde1, Si
<1>3. CASE h \in {SNew, SReady, SImpresora, SBloqueado}
  BY <1>1, <1>2, <1>3, PuestosNew, PuestosReady, PuestosImpresora, PuestosBloqueado
<1>4. ASSUME NEW c \in Cpus
      PROVE  Puestos(SEnvio(c), p) = {} /\ Puestos(SCpu(c), p) = {} /\ Puestos(SVuelta(c), p) = {}
  <2>1. haciaCpu[c] = <<>> /\ pcb[c] = Nadie /\ haciaKernel[c] = <<>>
    BY <1>1
  <2>2. Puestos(SEnvio(c), p) = Donde1(<<>>, Lleva(p))
    BY <2>1, PuestosEnvio
  <2>3. Puestos(SCpu(c), p) = Si(p, {Nadie})
    BY <2>1, PuestosCpu
  <2>4. Puestos(SVuelta(c), p) = Donde1(<<>>, Lleva(p))
    BY <2>1, PuestosVuelta
  <2>. QED  BY <1>2, <2>2, <2>3, <2>4
<1>5. ASSUME NEW d \in Dispositivos
      PROVE  Puestos(SSolicitud(d), p) = {} /\ Puestos(SIo(d), p) = {}
  <2>1. colaSolicitudes[d] = <<>> /\ enCurso[d] = Nadie
    BY <1>1
  <2>2. Puestos(SSolicitud(d), p) = Donde1(<<>>, {p})
    BY <2>1, PuestosSolicitud
  <2>3. Puestos(SIo(d), p) = Si(p, {Nadie})
    BY <2>1, PuestosIo
  <2>. QED  BY <1>2, <2>2, <2>3
<1>. QED  BY <1>3, <1>4, <1>5, SitiosSon

LEMMA InitPcb == Init => PcbUnico
BY InitVacio DEF PcbUnico, UnPuesto, Conocido

LEMMA SpecPcb == Spec => [](Tipos /\ PcbUnico)
<1>1. Tipos /\ PcbUnico /\ [Next]_vars => Tipos' /\ PcbUnico'
  BY NextTipos, NextPcb
<1>. QED  BY <1>1, InitTipos, InitPcb, PTL DEF Spec

-----------------------------------------------------------------------------
(* One PCB for each process                                                *)

\* the place of Donde at a position
Lugar(h, k) ==
  CASE h[1] = "impresora" -> <<"ready", "impresora", k>>
    [] h[1] \in {"envio", "vuelta", "solicitud"} -> <<h[1], h[2], k>>
    [] h[1] \in {"cpu", "io"} -> h
    [] h[1] \in {"new", "ready", "bloqueado"} -> <<h[1], k>>

\* what is left aside of Donde is what is leaving the system
EnSistema(p) == {l \in Donde(p) : l[1] \notin {"exit", "saliendo"}}

LEMMA LugarDe ==
  ASSUME Tipos, NEW p \in Pids, NEW l \in EnSistema(p)
  PROVE  \E h \in Sitios : \E k \in Puestos(h, p) : l = Lugar(h, k)
<1>1. l \in Donde(p) /\ l[1] \notin {"exit", "saliendo"}
  BY DEF EnSistema
<1>2. CASE l \in {<<"new", 0>> : x \in colaNew \cap {p}}
  <2>1. p \in colaNew /\ l = <<"new", 0>>
    BY <1>2
  <2>2. 0 \in Puestos(SNew, p) /\ l = Lugar(SNew, 0)
    BY <2>1, PuestosNew DEF Si, Lugar, SNew
  <2>. QED  BY <2>2, SitiosSon
<1>3. CASE l \in {<<"ready", k>> : k \in {j \in DOMAIN colaReady : colaReady[j] = p}}
  <2>1. PICK k \in DOMAIN colaReady : colaReady[k] = p /\ l = <<"ready", k>>
    BY <1>3
  <2>2. k \in Puestos(SReady, p) /\ l = Lugar(SReady, k)
    BY <2>1, PuestosReady DEF Donde1, Lugar, SReady
  <2>. QED  BY <2>2, SitiosSon
<1>4. CASE l \in {<<impresora.cola, "impresora", k>> :
                    k \in {j \in DOMAIN impresora.pcbs : impresora.pcbs[j] = p}}
  <2>1. PICK k \in DOMAIN impresora.pcbs :
          impresora.pcbs[k] = p /\ l = <<impresora.cola, "impresora", k>>
    BY <1>4
  <2>2. impresora.cola = "ready"
    BY <1>1, <2>1 DEF Tipos, TImpresora
  <2>3. k \in Puestos(SImpresora, p) /\ l = Lugar(SImpresora, k)
    BY <2>1, <2>2, PuestosImpresora DEF Donde1, Lugar, SImpresora
  <2>. QED  BY <2>3, SitiosSon
<1>5. CASE l \in {<<"bloqueado", k>> :
                    k \in {j \in DOMAIN listaBloqueados : listaBloqueados[j].pcb = p}}
  <2>1. PICK k \in DOMAIN listaBloqueados :
          listaBloqueados[k].pcb = p /\ l = <<"bloqueado", k>>
    BY <1>5
  <2>2. listaBloqueados[k] \in Bloqueados
    BY <2>1 DEF Tipos, TAnsisop
  <2>3. k \in Puestos(SBloqueado, p) /\ l = Lugar(SBloqueado, k)
    BY <2>1, <2>2, PuestosBloqueado DEF Donde1, Lleva, Lugar, SBloqueado
  <2>. QED  BY <2>3, SitiosSon
<1>6. CASE l \in UNION {{<<"envio", c, k>> :
                           k \in {j \in DOMAIN haciaCpu[c] : haciaCpu[c][j].pcb = p}}
                          : c \in Range(listaClientes)}
  <2>0. PICK c \in Cpus : \E k \in DOMAIN haciaCpu[c] :
                             haciaCpu[c][k].pcb = p /\ l = <<"envio", c, k>>
    <3>1. Range(listaClientes) \subseteq Cpus
      BY RangoTipo DEF Tipos, TClientes
    <3>2. PICK c \in Range(listaClientes) :
            l \in {<<"envio", c, k>> : k \in {j \in DOMAIN haciaCpu[c] : haciaCpu[c][j].pcb = p}}
      BY <1>6
    <3>. QED  BY <3>1, <3>2
  <2>1. PICK k \in DOMAIN haciaCpu[c] : haciaCpu[c][k].pcb = p /\ l = <<"envio", c, k>>
    BY <2>0
  <2>2. haciaCpu[c][k] \in AlCpu
    BY <2>1 DEF Tipos, TRed
  <2>3. k \in Puestos(SEnvio(c), p)
    BY <2>1, <2>2, PuestosEnvio DEF Donde1, Lleva
  <2>4. Lugar(SEnvio(c), k) = <<"envio", c, k>>
    BY DEF Lugar, SEnvio
  <2>. QED  BY <2>1, <2>3, <2>4, SitiosSon
<1>7. CASE l \in {<<"cpu", c>> : c \in {d \in Cpus : pcb[d] = p}}
  <2>1. PICK c \in Cpus : pcb[c] = p /\ l = <<"cpu", c>>
    BY <1>7
  <2>2. 0 \in Puestos(SCpu(c), p)
    BY <2>1, PuestosCpu DEF Si
  <2>3. Lugar(SCpu(c), 0) = <<"cpu", c>>
    BY DEF Lugar, SCpu
  <2>. QED  BY <2>1, <2>2, <2>3, SitiosSon
<1>8. CASE l \in UNION {{<<"vuelta", c, k>> :
                           k \in {j \in DOMAIN haciaKernel[c] : haciaKernel[c][j].pcb = p}}
                          : c \in Cpus}
  <2>0. PICK c \in Cpus : \E k \in DOMAIN haciaKernel[c] :
                             haciaKernel[c][k].pcb = p /\ l = <<"vuelta", c, k>>
    <3>1. PICK c \in Cpus :
            l \in {<<"vuelta", c, k>> :
                     k \in {j \in DOMAIN haciaKernel[c] : haciaKernel[c][j].pcb = p}}
      BY <1>8
    <3>. QED  BY <3>1
  <2>1. PICK k \in DOMAIN haciaKernel[c] : haciaKernel[c][k].pcb = p /\ l = <<"vuelta", c, k>>
    BY <2>0
  <2>2. haciaKernel[c][k] \in AlKernel
    BY <2>1 DEF Tipos, TRed
  <2>3. k \in Puestos(SVuelta(c), p)
    BY <2>1, <2>2, PuestosVuelta DEF Donde1, Lleva
  <2>4. Lugar(SVuelta(c), k) = <<"vuelta", c, k>>
    BY DEF Lugar, SVuelta
  <2>. QED  BY <2>1, <2>3, <2>4, SitiosSon
<1>9. CASE l \in UNION {{<<"solicitud", d, k>> :
                           k \in {j \in DOMAIN colaSolicitudes[d] : colaSolicitudes[d][j] = p}}
                          : d \in Dispositivos}
  <2>0. PICK d \in Dispositivos : \E k \in DOMAIN colaSolicitudes[d] :
                             colaSolicitudes[d][k] = p /\ l = <<"solicitud", d, k>>
    <3>1. PICK d \in Dispositivos :
            l \in {<<"solicitud", d, k>> :
                     k \in {j \in DOMAIN colaSolicitudes[d] : colaSolicitudes[d][j] = p}}
      BY <1>9
    <3>. QED  BY <3>1
  <2>1. PICK k \in DOMAIN colaSolicitudes[d] :
          colaSolicitudes[d][k] = p /\ l = <<"solicitud", d, k>>
    BY <2>0
  <2>2. k \in Puestos(SSolicitud(d), p)
    BY <2>1, PuestosSolicitud DEF Donde1
  <2>3. Lugar(SSolicitud(d), k) = <<"solicitud", d, k>>
    BY DEF Lugar, SSolicitud
  <2>. QED  BY <2>1, <2>2, <2>3, SitiosSon
<1>10. CASE l \in {<<"io", d>> : d \in {e \in Dispositivos : enCurso[e] = p}}
  <2>1. PICK d \in Dispositivos : enCurso[d] = p /\ l = <<"io", d>>
    BY <1>10
  <2>2. 0 \in Puestos(SIo(d), p)
    BY <2>1, PuestosIo DEF Si
  <2>3. Lugar(SIo(d), 0) = <<"io", d>>
    BY DEF Lugar, SIo
  <2>. QED  BY <2>1, <2>2, <2>3, SitiosSon
<1>11. CASE \/ l \in {<<"exit", k>> : k \in {j \in DOMAIN colaExit : colaExit[j] = p}}
            \/ l \in {<<"saliendo", 0>> : x \in {saliendo} \cap {p}}
  <2>1. l[1] \in {"exit", "saliendo"}
    BY <1>11
  <2>. QED  BY <1>1, <2>1
<1>. QED
  BY <1>1, <1>2, <1>3, <1>4, <1>5, <1>6, <1>7, <1>8, <1>9, <1>10, <1>11 DEF Donde

LEMMA SistemaUno ==
  ASSUME Tipos, PcbUnico, NEW p \in Pids PROVE UnaSola(EnSistema(p))
<1>1. ASSUME NEW l \in EnSistema(p), NEW m \in EnSistema(p) PROVE l = m
  <2>1. PICK g \in Sitios : \E i \in Puestos(g, p) : l = Lugar(g, i)
    BY LugarDe
  <2>2. PICK i \in Puestos(g, p) : l = Lugar(g, i)
    BY <2>1
  <2>3. PICK h \in Sitios : \E j \in Puestos(h, p) : m = Lugar(h, j)
    BY LugarDe
  <2>4. PICK j \in Puestos(h, p) : m = Lugar(h, j)
    BY <2>3
  <2>5. g = h /\ i = j
    BY <2>2, <2>4 DEF PcbUnico, UnPuesto
  <2>. QED  BY <2>2, <2>4, <2>5
<1>. QED  BY <1>1 DEF UnaSola

LEMMA UnSoloPcbUno == Tipos /\ PcbUnico => UnSoloPcb
<1>. SUFFICES ASSUME Tipos, PcbUnico, NEW p \in Pids PROVE Cardinality(EnSistema(p)) <= 1
  BY DEF UnSoloPcb, EnSistema
<1>1. Cardinality(EnSistema(p)) \in 0..1
  BY SistemaUno, CuentaUna
<1>. QED  BY <1>1

\* Whatever CPUs, programs and the UMV fail, however a program is closed and
\* whatever steps of two threads fall inside a handler, a process that goes on
\* has one PCB: no operation of the PCP leaves it in one queue and puts it in
\* another, and no CPU runs what another one has.
THEOREM UnSoloPcbSiempre == Spec => []UnSoloPcb
BY SpecPcb, UnSoloPcbUno, PTL

-----------------------------------------------------------------------------
(* The degree, whatever CPU fails                                          *)

\* those with a PCB somewhere past colaNew
Circulan == {p \in Pids : \E h \in SinNuevo : Puestos(h, p) # {}}

GradoBajo == semMultiProg + Cardinality(Circulan) <= MultiProg

LEMMA Circulacion ==
  /\ IsFiniteSet(Circulan) /\ Cardinality(Circulan) \in Nat
  /\ IsFiniteSet(Circulan)' /\ Cardinality(Circulan)' \in Nat
<1>1. IsFiniteSet(Pids)
  BY MaxProgAssumption, FS_Interval DEF Pids
<1>2. Circulan \in SUBSET Pids /\ Circulan' \in SUBSET Pids
  BY DEF Circulan
<1>. QED  BY <1>1, <1>2, FS_Subset, FS_CardinalityType

\* Between an admission and the next no other process enters.
LEMMA CirculaBaja ==
  ASSUME NEW p \in Pids, PasoPcb(p, SinNuevo), p \in Circulan' PROVE p \in Circulan
<1>1. PICK h \in SinNuevo : Puestos(h, p)' # {}
  BY DEF Circulan
<1>2. CASE Queda(p)
  <2>1. Puestos(h, p) # {}
    BY <1>1, <1>2 DEF Queda, MenguaEn, Mengua, SinNuevo
  <2>. QED  BY <2>1 DEF Circulan
<1>3. CASE \E a, b \in SinNuevo : Viaja(p, a, b)
  BY <1>3 DEF Viaja, Circulan
<1>. QED  BY <1>2, <1>3 DEF PasoPcb

LEMMA GradoIgual ==
  ASSUME Tipos, GradoBajo, UNCHANGED semMultiProg, \A p \in Pids : p \in Circulan' => p \in Circulan
  PROVE  GradoBajo'
<1>1. Circulan' \in SUBSET Circulan
  BY DEF Circulan
<1>2. Cardinality(Circulan') <= Cardinality(Circulan)
  BY <1>1, Circulacion, FS_Subset
<1>. QED  BY <1>2, Circulacion, MultiProgAssumption DEF GradoBajo, Tipos, TResto

\* The one admitted takes the place that the loop of the PLP waited for.
LEMMA GradoAdmite ==
  ASSUME Tipos, PcbUnico, GradoBajo, Admite PROVE GradoBajo'
<1>1. PICK q \in colaNew : colaNew' = colaNew \ {q} /\ MandaAReady(q)
  BY DEF Admite
<1>2. q \in Pids /\ semMultiProg \in Nat /\ semMultiProg' = semMultiProg - 1
  BY DEF Admite, TomaLugar, Tipos, TAdmision, TResto
<1>3. UNCHANGED <<impresora, listaBloqueados, haciaCpu, pcb, haciaKernel, colaSolicitudes, enCurso>>
  BY DEF Admite, pcpVars, ansisop, io, cpus, red
<1>4. q \notin Circulan
  <2>1. 0 \in Puestos(SNew, q)
    BY PuestosNew DEF Si
  <2>2. \A h \in SinNuevo : Puestos(h, q) = {}
    BY <1>2, <2>1, SitiosSon DEF PcbUnico, UnPuesto, SinNuevo
  <2>. QED  BY <2>2 DEF Circulan
<1>5. ASSUME NEW p \in Pids, p # q, p \in Circulan' PROVE p \in Circulan
  <2>1. MenguaEn(SReady, p)
    BY <1>1, <1>5, ReadyPuestos
  <2>2. \A h \in Sitios \ {SNew, SReady} : MenguaEn(h, p)
    BY <1>3, Resto
  <2>3. \A h \in SinNuevo : MenguaEn(h, p)
    BY <2>1, <2>2 DEF SinNuevo
  <2>. QED  BY <1>5, <2>3 DEF Circulan, MenguaEn, Mengua
<1>6. Circulan' \in SUBSET (Circulan \cup {q})
  BY <1>5 DEF Circulan
<1>7. Cardinality(Circulan') <= Cardinality(Circulan) + 1
  <2>1. /\ IsFiniteSet(Circulan \cup {q})
        /\ Cardinality(Circulan \cup {q}) = Cardinality(Circulan) + 1
    BY <1>4, Circulacion, FS_AddElement
  <2>2. Cardinality(Circulan') <= Cardinality(Circulan \cup {q})
    BY <1>6, <2>1, FS_Subset
  <2>. QED  BY <2>1, <2>2
<1>. QED  BY <1>2, <1>7, Circulacion, MultiProgAssumption DEF GradoBajo

\* a process with no PCB left
SinPcb(p) == \A h \in Sitios : Puestos(h, p) = {}

\* The one that ends had its only PCB in the message that the server takes.
LEMMA FinSinPcb ==
  ASSUME Tipos, PcbUnico, NEW c \in Cpus, OperacionFin(c)
  PROVE  \E q \in Pids : /\ q = Pedido(c).pcb /\ Puestos(SVuelta(c), q) # {}
                         /\ SVuelta(c) \in SinNuevo /\ SinPcb(q)'
<1>1. haciaKernel[c] # <<>> /\ Consume(c) /\ Pedido(c).op \in {"EXIT", "ERROR"}
  BY DEF OperacionFin, Llega
<1>2. PICK q \in Pids : q = Pedido(c).pcb
  <2>1. haciaKernel[c] \in Seq(AlKernel)
    BY DEF Tipos, TRed
  <2>2. Pedido(c) \in AlKernel
    BY <1>1, <2>1 DEF Pedido
  <2>. QED  BY <1>1, <2>2 DEF AlKernel
<1>3. /\ Puestos(SVuelta(c), q) # {}
      /\ UnaSola(Puestos(SVuelta(c), q)) => Puestos(SVuelta(c), q)' = {}
  BY <1>1, <1>2, ConsumePuestos
<1>4. SVuelta(c) \in SinNuevo /\ SVuelta(c) \in Sitios
  BY SitiosSin, SitiosSon
<1>5. \A h \in Sitios : Puestos(h, q) # {} => h = SVuelta(c)
  BY <1>3, <1>4 DEF PcbUnico, UnPuesto
<1>6. UnaSola(Puestos(SVuelta(c), q))
  BY <1>4 DEF PcbUnico, UnPuesto, UnaSola
<1>7. \A h \in Sitios : MenguaEn(h, q)
  BY PedidoPcb DEF Queda
<1>8. \A h \in Sitios : Puestos(h, q)' = {}
  BY <1>3, <1>5, <1>6, <1>7 DEF MenguaEn, Mengua
<1>. QED  BY <1>2, <1>3, <1>4, <1>8 DEF SinPcb

LEMMA GradoFin ==
  ASSUME Tipos, PcbUnico, GradoBajo, NEW c \in Cpus, OperacionFin(c) PROVE GradoBajo'
<1>1. semMultiProg' = semMultiProg + 1
  BY DEF OperacionFin, DejaLugar
<1>2. PICK q \in Pids : Puestos(SVuelta(c), q) # {} /\ SVuelta(c) \in SinNuevo /\ SinPcb(q)'
  BY FinSinPcb
<1>3. q \in Circulan /\ q \notin Circulan'
  BY <1>2 DEF Circulan, SinPcb, SinNuevo
<1>4. \A p \in Pids : p \in Circulan' => p \in Circulan
  BY PedidoPcb, CirculaBaja DEF PasoPcb
<1>5. Circulan' \in SUBSET (Circulan \ {q})
  BY <1>3, <1>4 DEF Circulan
<1>6. /\ IsFiniteSet(Circulan \ {q})
      /\ Cardinality(Circulan \ {q}) = Cardinality(Circulan) - 1
  BY <1>3, Circulacion, FS_RemoveElement
<1>7. Cardinality(Circulan') <= Cardinality(Circulan) - 1
  BY <1>5, <1>6, FS_Subset
<1>. QED  BY <1>1, <1>7, Circulacion, MultiProgAssumption DEF GradoBajo, Tipos, TResto

\* Nobody else touches semMultiProg while no program is closed.
LEMMA LugaresQuietos ==
  ASSUME [Next]_vars, SinCierre, ~Admite, \A c \in Cpus : ~OperacionFin(c)
  PROVE  UNCHANGED semMultiProg
<1>1. CASE UNCHANGED vars
  BY <1>1 DEF vars, comunes
<1>2. CASE NextPLP
  BY <1>2
     DEF NextPLP, LlegaPrograma, NotaCierre, EsperaNuevo, EnviaMensaje, SacaDeExit, Destruye,
         DestruyeNulo, CierraPrograma, CortaPrograma, Cae, comunes
<1>3. CASE NextCPU
  BY <1>3, CPUAjena DEF comunes
<1>4. CASE \E c \in Cpus : NuevoCliente(c) \/ Atiende(c)
  BY <1>4
     DEF NuevoCliente, Atiende, DescartaPcb, DescartaPedido, OperacionQuantum, OperacionIO,
         OperacionImprimir, OperacionWait, OperacionSignal, OperacionSigusr,
         MensajeDesfasado, RecibeBloqueado, RecibeSolicitud, PcbDesfasado, CierraConexion, Cae,
         comunes
<1>5. CASE Despacha \/ DescuentaOcioso
  BY <1>5
     DEF Despacha, DescuentaOcioso, EsperaReady, EligeOcioso, EnviaPcb, AsignaPcb, DespachaNulo,
         Cae, comunes
<1>6. CASE \/ FinalizaPcb \/ ReponeCola
           \/ \E d \in Dispositivos : TomaSolicitud(d) \/ TerminaIO(d)
           \/ \E hilo \in {"servidor", "despacho"}, cola \in {"ready", "exit"} :
                VaciaCola(hilo, cola)
  BY <1>6
     DEF FinalizaPcb, ReponeCola, TomaSolicitud, TerminaIO, VaciaCola, EsperaFinaliza,
         FinalizaBloqueado, FinalizaReady, FinalizaAsignado, FinalizaBasura, Finaliza, Cae,
         SinCierre, comunes
<1>. QED  BY <1>1, <1>2, <1>3, <1>4, <1>5, <1>6 DEF Next, NextPCP

LEMMA GradoLlega ==
  ASSUME Tipos, NEW r \in Creaciones, LlegaPrograma(r), NEW p \in Pids, p \in Circulan'
  PROVE  p \in Circulan
<1>1. UNCHANGED <<colaReady, impresora, listaBloqueados, haciaCpu, pcb, haciaKernel,
                  colaSolicitudes, enCurso>>
  BY DEF LlegaPrograma, pcpVars, ansisop, io, listos, cpus, red
<1>2. \A h \in Sitios \ {SNew} : MenguaEn(h, p)
  BY <1>1, Resto
<1>. QED  BY <1>2 DEF MenguaEn, Mengua, Circulan, SinNuevo

LEMMA NextGrado ==
  ASSUME Cuentas, PcbUnico, GradoBajo, [Next]_vars PROVE GradoBajo'
<1>1. Tipos /\ SinCierre
  BY DEF Cuentas
<1>2. CASE Admite
  BY <1>1, <1>2, GradoAdmite
<1>3. CASE \E c \in Cpus : OperacionFin(c)
  BY <1>1, <1>3, GradoFin
<1>4. CASE ~Admite /\ \A c \in Cpus : ~OperacionFin(c)
  <2>1. UNCHANGED semMultiProg
    BY <1>1, <1>4, LugaresQuietos
  <2>2. ASSUME NEW p \in Pids, p \in Circulan' PROVE p \in Circulan
    <3>1. CASE \E r \in Creaciones : LlegaPrograma(r)
      BY <1>1, <2>2, <3>1, GradoLlega
    <3>2. CASE \A r \in Creaciones : ~LlegaPrograma(r)
      BY <1>1, <1>4, <2>2, <3>2, NextPasoPcb, CirculaBaja
    <3>. QED  BY <3>1, <3>2
  <2>. QED  BY <1>1, <2>1, <2>2, GradoIgual
<1>. QED  BY <1>2, <1>3, <1>4

LEMMA InitGrado == Init => GradoBajo
<1>. SUFFICES ASSUME Init PROVE GradoBajo
  OBVIOUS
<1>1. \A p \in Pids, h \in Sitios : Puestos(h, p) = {}
  BY InitVacio
<1>2. Circulan = {}
  BY <1>1 DEF Circulan, SinNuevo
<1>. QED  BY <1>2, FS_EmptySet, MultiProgAssumption DEF GradoBajo, Init, InitPLP

\* Those of Admitidos have a PCB past colaNew.
LEMMA AdmitidosCirculan == Tipos => Admitidos \in SUBSET Circulan
<1>. SUFFICES ASSUME Tipos, NEW p \in Admitidos PROVE p \in Circulan
  OBVIOUS
<1>1. PICK l \in Donde(p) : l[1] \notin {"new", "exit", "saliendo"}
  BY DEF Admitidos
<1>2. p \in Pids /\ l \in EnSistema(p)
  BY <1>1 DEF Admitidos, EnSistema
<1>3. PICK h \in Sitios : \E k \in Puestos(h, p) : l = Lugar(h, k)
  BY <1>2, LugarDe
<1>4. h # SNew
  BY <1>1, <1>3 DEF Lugar, SNew
<1>. QED  BY <1>2, <1>3, <1>4 DEF Circulan, SinNuevo

LEMMA GradoRespeta == Tipos /\ GradoBajo => GradoRespetado
<1>. SUFFICES ASSUME Tipos, GradoBajo PROVE GradoRespetado
  OBVIOUS
<1>1. /\ Cardinality(Admitidos) \in Nat
      /\ Cardinality(Admitidos) <= Cardinality(Circulan)
  BY AdmitidosCirculan, Circulacion, FS_Subset, FS_CardinalityType
<1>. QED  BY <1>1, Circulacion, MultiProgAssumption DEF GradoBajo, GradoRespetado, Tipos, TResto

\* Whatever CPU dies or announces its close, in the middle of a burst or of a
\* WAIT, and whatever steps fall inside a handler, semMultiProg never lets in
\* more processes than MULTIPROGRAMACION: a place is given back once for each
\* process, by the handler of its EXIT or ERROR, and the process whose CPU died
\* keeps it.
THEOREM GradoRespetadoSiempre ==
  ASSUME "programa" \notin Cortes PROVE Spec => []GradoRespetado
<1>1. Cuentas /\ PcbUnico /\ GradoBajo /\ [Next]_vars => GradoBajo'
  BY NextGrado
<1>2. Tipos /\ GradoBajo => GradoRespetado
  BY GradoRespeta
<1>. QED  BY <1>1, <1>2, InitGrado, SpecCuentas, SpecPcb, PTL DEF Spec

-----------------------------------------------------------------------------
(* Whose text a CPU sends, when no program is closed before its end        *)

\* c works for the process that it was assigned: x is the PCB it holds, cq and
\* kq are the messages from and to the Kernel; nothing is left of an assignment
\* that is over, and the PCB is the last thing that comes back
CanalBien(c, F, a, x, cq, kq) ==
  /\ x \in {Nadie, a}
  /\ \A i \in DOMAIN cq : cq[i].pcb \in {Nadie, a}
  /\ \A i \in DOMAIN kq :
       kq[i].pcb \in {Nadie, a} /\ (kq[i].op = "IMPRIMIR" => kq[i].de = a)
  /\ \A i, j \in DOMAIN kq : i < j /\ kq[i].pcb # Nadie => kq[j].op # "IMPRIMIR"
  /\ c \notin F =>
       /\ x = Nadie
       /\ \A i \in DOMAIN cq : cq[i].pcb = Nadie
       /\ \A i \in DOMAIN kq : kq[i].pcb = Nadie /\ kq[i].op # "IMPRIMIR"

LEMMA ColaDe ==
  ASSUME NEW S, NEW q \in Seq(S), q # <<>>
  PROVE  /\ 1 \in DOMAIN q /\ q[1] = Head(q)
         /\ DOMAIN q \subseteq Int /\ DOMAIN Tail(q) \subseteq Int
         /\ \A i \in DOMAIN Tail(q) : i + 1 \in DOMAIN q /\ Tail(q)[i] = q[i + 1] /\ 1 < i + 1
OBVIOUS

LEMMA AgregaDe ==
  ASSUME NEW S, NEW q \in Seq(S), NEW m
  PROVE  /\ DOMAIN Append(q, m) = DOMAIN q \cup {Len(q) + 1}
         /\ \A i \in DOMAIN q : i \in Int /\ Append(q, m)[i] = q[i] /\ i < Len(q) + 1
         /\ Append(q, m)[Len(q) + 1] = m /\ Len(q) + 1 \in Int
OBVIOUS

\* the server takes a message
LEMMA CanalConsume ==
  ASSUME NEW c, NEW F, NEW a, NEW x, NEW cq, NEW S, NEW kq \in Seq(S), kq # <<>>,
         CanalBien(c, F, a, x, cq, kq)
  PROVE  CanalBien(c, F, a, x, cq, Tail(kq))
<1>1. \A i \in DOMAIN Tail(kq) : i \in Int /\ i + 1 \in DOMAIN kq /\ Tail(kq)[i] = kq[i + 1]
  BY ColaDe
<1>2. \A i, j \in DOMAIN Tail(kq) : i < j => i + 1 < j + 1
  BY <1>1
<1>. QED  BY <1>1, <1>2 DEF CanalBien

\* the message it takes is the PCB: nothing of the assignment is left
LEMMA CanalSuelta ==
  ASSUME NEW c, NEW F, NEW a, NEW cq, NEW S, NEW kq \in Seq(S), kq # <<>>,
         CanalBien(c, F, a, Nadie, cq, kq), Head(kq).pcb # Nadie,
         \A i \in DOMAIN cq : cq[i].pcb = Nadie,
         \A i \in DOMAIN kq : kq[i].pcb # Nadie => i = 1
  PROVE  CanalBien(c, F \ {c}, a, Nadie, cq, Tail(kq))
<1>1. CanalBien(c, F, a, Nadie, cq, Tail(kq))
  BY CanalConsume
<1>2. \A i \in DOMAIN Tail(kq) : Tail(kq)[i].pcb = Nadie /\ Tail(kq)[i].op # "IMPRIMIR"
  <2>1. ASSUME NEW i \in DOMAIN Tail(kq)
        PROVE  Tail(kq)[i].pcb = Nadie /\ Tail(kq)[i].op # "IMPRIMIR"
    <3>1. PICK j \in DOMAIN kq : Tail(kq)[i] = kq[j] /\ 1 < j /\ j # 1
      BY <2>1, ColaDe
    <3>2. 1 \in DOMAIN kq /\ kq[1].pcb # Nadie
      BY ColaDe
    <3>. QED  BY <3>1, <3>2 DEF CanalBien
  <2>. QED  BY <2>1
<1>. QED  BY <1>1, <1>2 DEF CanalBien

\* the Kernel answers
LEMMA CanalContesta ==
  ASSUME NEW c, NEW F, NEW a, NEW x, NEW S, NEW cq \in Seq(S), NEW kq,
         CanalBien(c, F, a, x, cq, kq), NEW m, m.pcb = Nadie
  PROVE  CanalBien(c, F, a, x, Append(cq, m), kq)
BY AgregaDe DEF CanalBien

\* the CPU takes a message, and keeps its PCB or not
LEMMA CanalToma ==
  ASSUME NEW c, NEW F, NEW a, NEW x, NEW S, NEW cq \in Seq(S), cq # <<>>, NEW kq,
         CanalBien(c, F, a, x, cq, kq)
  PROVE  /\ CanalBien(c, F, a, x, Tail(cq), kq)
         /\ CanalBien(c, F, a, Head(cq).pcb, Tail(cq), kq)
BY ColaDe DEF CanalBien

\* the CPU asks for something
LEMMA CanalPide ==
  ASSUME NEW c, NEW F, NEW a, NEW x, NEW cq, NEW S, NEW kq \in Seq(S),
         CanalBien(c, F, a, x, cq, kq), NEW m, m.pcb = Nadie, m.op # "IMPRIMIR"
  PROVE  CanalBien(c, F, a, x, cq, Append(kq, m))
BY AgregaDe DEF CanalBien

\* it prints
LEMMA CanalImprime ==
  ASSUME NEW c, NEW F, NEW a, NEW x, NEW cq, NEW S, NEW kq \in Seq(S),
         CanalBien(c, F, a, x, cq, kq), x # Nadie, \A i \in DOMAIN kq : kq[i].pcb = Nadie,
         NEW m, m.pcb = Nadie, m.de = x
  PROVE  CanalBien(c, F, a, x, cq, Append(kq, m))
BY AgregaDe DEF CanalBien

\* it gives the PCB back
LEMMA CanalCambia ==
  ASSUME NEW c, NEW F, NEW a, NEW x, NEW cq, NEW S, NEW kq \in Seq(S),
         CanalBien(c, F, a, x, cq, kq), NEW m, m.pcb = x, m.op # "IMPRIMIR"
  PROVE  CanalBien(c, F, a, Nadie, cq, Append(kq, m))
BY AgregaDe DEF CanalBien

\* it is assigned a process
LEMMA CanalAsigna ==
  ASSUME NEW c, NEW F, c \notin F, NEW a, NEW x, NEW S, NEW cq \in Seq(S), NEW kq,
         CanalBien(c, F, a, x, cq, kq), NEW m
  PROVE  CanalBien(c, F \cup {c}, m.pcb, x, Append(cq, m), kq)
BY AgregaDe DEF CanalBien

\* its connection is closed
LEMMA CanalCierra ==
  ASSUME NEW c, NEW F, NEW a, NEW x, NEW cq, NEW kq, CanalBien(c, F, a, x, cq, kq)
  PROVE  CanalBien(c, F, a, Nadie, <<>>, kq)
BY DEF CanalBien

\* the assignments of the others are not its business
LEMMA CanalAjeno ==
  ASSUME NEW c, NEW d, c # d, NEW F, NEW a, NEW x, NEW cq, NEW kq, CanalBien(d, F, a, x, cq, kq)
  PROVE  CanalBien(d, F \ {c}, a, x, cq, kq) /\ CanalBien(d, F \cup {c}, a, x, cq, kq)
BY DEF CanalBien

Canal(c) ==
  CanalBien(c, fueAsignado, pcbAsignado[c], pcb[c], haciaCpu[c], haciaKernel[c])

\* the client that hiloClienteOcioso chose has no process assigned
Dirigido ==
  despacho.pc # "enviado" /\ (despacho.pc = "saca" => despacho.cpu \notin fueAsignado)

Duenios ==
  programaCerrado = {} /\ Dirigido /\ (\A c \in Cpus : Canal(c)) /\ ImprimeAlDuenio

\* The PCB that c was assigned is in one place only.
LEMMA CanalSolo ==
  ASSUME Tipos, PcbUnico, NEW c \in Cpus, Canal(c)
  PROVE  /\ \A i \in DOMAIN haciaKernel[c] :
              haciaKernel[c][i].pcb # Nadie =>
                /\ pcb[c] = Nadie /\ \A k \in DOMAIN haciaCpu[c] : haciaCpu[c][k].pcb = Nadie
                /\ \A j \in DOMAIN haciaKernel[c] : haciaKernel[c][j].pcb # Nadie => j = i
         /\ pcb[c] # Nadie => \A i \in DOMAIN haciaKernel[c] : haciaKernel[c][i].pcb = Nadie
<1>. DEFINE a == pcbAsignado[c]
<1>1. /\ \A i \in DOMAIN haciaKernel[c] :
           haciaKernel[c][i] \in AlKernel /\ haciaKernel[c][i].pcb \in Pids \cup {Nadie}
      /\ \A k \in DOMAIN haciaCpu[c] :
           haciaCpu[c][k] \in AlCpu /\ haciaCpu[c][k].pcb \in Pids \cup {Nadie}
      /\ pcb[c] \in Pids \cup {Nadie}
  <2>1. /\ haciaKernel[c] \in Seq(AlKernel) /\ haciaCpu[c] \in Seq(AlCpu)
        /\ pcb[c] \in Pids \cup {Nadie}
    BY DEF Tipos, TRed, TCpu
  <2>2. \A m \in AlKernel \cup AlCpu : m.pcb \in Pids \cup {Nadie}
    BY DEF AlKernel, AlCpu, Mensajes
  <2>. QED  BY <2>1, <2>2
<1>2. /\ \A i \in DOMAIN haciaKernel[c] : haciaKernel[c][i].pcb \in {Nadie, a}
      /\ \A k \in DOMAIN haciaCpu[c] : haciaCpu[c][k].pcb \in {Nadie, a}
      /\ pcb[c] \in {Nadie, a}
  BY DEF Canal, CanalBien
<1>. HIDE DEF a
<1>3. /\ \A i \in DOMAIN haciaKernel[c] : haciaKernel[c][i].pcb = a => i \in Puestos(SVuelta(c), a)
      /\ \A k \in DOMAIN haciaCpu[c] : haciaCpu[c][k].pcb = a => k \in Puestos(SEnvio(c), a)
      /\ pcb[c] = a => 0 \in Puestos(SCpu(c), a)
  <2>1. \A i \in DOMAIN haciaKernel[c] : haciaKernel[c][i].pcb = a => i \in Puestos(SVuelta(c), a)
    BY <1>1, PuestosVuelta DEF Donde1, Lleva
  <2>2. \A k \in DOMAIN haciaCpu[c] : haciaCpu[c][k].pcb = a => k \in Puestos(SEnvio(c), a)
    BY <1>1, PuestosEnvio DEF Donde1, Lleva
  <2>3. pcb[c] = a => 0 \in Puestos(SCpu(c), a)
    BY PuestosCpu DEF Si
  <2>. QED  BY <2>1, <2>2, <2>3
<1>4. /\ SVuelta(c) \in Sitios /\ SEnvio(c) \in Sitios /\ SCpu(c) \in Sitios
      /\ SCpu(c) # SVuelta(c) /\ SEnvio(c) # SCpu(c) /\ SEnvio(c) # SVuelta(c)
  BY SitiosSon, SitiosDistintos DEF SEnvio, SVuelta
<1>5. CASE a \in Pids
  <2>1. UnPuesto(a)
    BY <1>5 DEF PcbUnico
  <2>. QED  BY <1>2, <1>3, <1>4, <2>1 DEF UnPuesto
<1>6. CASE a \notin Pids
  BY <1>1, <1>2, <1>6
<1>. QED  BY <1>5, <1>6

\* A step about c leaves the other CPUs alone.
LEMMA CanalesSalvo ==
  ASSUME NEW c \in Cpus, \A d \in Cpus : Canal(d),
         \A d \in Cpus : d # c => UNCHANGED <<pcbAsignado[d], pcb[d], haciaCpu[d], haciaKernel[d]>>,
         fueAsignado' \in {fueAsignado, fueAsignado \ {c}, fueAsignado \cup {c}}, Canal(c)'
  PROVE  \A d \in Cpus : Canal(d)'
<1>. SUFFICES ASSUME NEW d \in Cpus, d # c PROVE Canal(d)'
  OBVIOUS
<1>1. /\ Canal(d)' <=> CanalBien(d, fueAsignado', pcbAsignado[d], pcb[d], haciaCpu[d],
                                 haciaKernel[d])
      /\ CanalBien(d, fueAsignado, pcbAsignado[d], pcb[d], haciaCpu[d], haciaKernel[d])
  BY DEF Canal
<1>2. /\ CanalBien(d, fueAsignado \ {c}, pcbAsignado[d], pcb[d], haciaCpu[d], haciaKernel[d])
      /\ CanalBien(d, fueAsignado \cup {c}, pcbAsignado[d], pcb[d], haciaCpu[d], haciaKernel[d])
  BY <1>1, CanalAjeno
<1>. QED  BY <1>1, <1>2

LEMMA CanalesIguales ==
  ASSUME \A d \in Cpus : Canal(d), UNCHANGED <<fueAsignado, pcbAsignado, pcb, red>>
  PROVE  \A d \in Cpus : Canal(d)'
BY DEF Canal, red

\* The server takes a message that is not the end of a burst.
LEMMA PedidoCanal ==
  ASSUME Tipos, \A d \in Cpus : Canal(d), NEW c \in Cpus,
         \/ OperacionIO(c) \/ OperacionImprimir(c) \/ OperacionWait(c)
         \/ OperacionSignal(c) \/ OperacionSigusr(c)
  PROVE  \A d \in Cpus : Canal(d)'
<1>1. /\ haciaKernel[c] # <<>> /\ Consume(c)
      /\ UNCHANGED <<fueAsignado, pcbAsignado, pcb>>
      /\ haciaCpu' = haciaCpu \/ \E op : Responde(c, op)
  BY DEF OperacionIO, OperacionImprimir, OperacionWait, OperacionSignal, OperacionSigusr, Llega,
         Ajeno, cpus
<1>2. /\ haciaKernel[c] \in Seq(AlKernel) /\ haciaCpu[c] \in Seq(AlCpu)
      /\ haciaKernel' = [haciaKernel EXCEPT ![c] = Tail(haciaKernel[c])]
      /\ DOMAIN haciaKernel = Cpus /\ DOMAIN haciaCpu = Cpus
  BY <1>1 DEF Tipos, TRed, Consume
<1>3. CanalBien(c, fueAsignado, pcbAsignado[c], pcb[c], haciaCpu[c], Tail(haciaKernel[c]))
  BY <1>1, <1>2, CanalConsume DEF Canal
<1>4. CASE haciaCpu' = haciaCpu
  <2>1. Canal(c)'
    BY <1>1, <1>2, <1>3, <1>4 DEF Canal
  <2>. QED  BY <1>1, <1>2, <1>4, <2>1, CanalesSalvo
<1>5. CASE \E op : Responde(c, op)
  <2>1. PICK op : Responde(c, op)
    BY <1>5
  <2>2. PICK m : m.pcb = Nadie /\ haciaCpu' = [haciaCpu EXCEPT ![c] = Append(haciaCpu[c], m)]
    BY <2>1 DEF Responde, Mensaje
  <2>3. CanalBien(c, fueAsignado, pcbAsignado[c], pcb[c], Append(haciaCpu[c], m),
                  Tail(haciaKernel[c]))
    BY <1>2, <1>3, <2>2, CanalContesta
  <2>4. Canal(c)'
    BY <1>1, <1>2, <2>2, <2>3 DEF Canal
  <2>. QED  BY <1>1, <1>2, <2>2, <2>4, CanalesSalvo
<1>. QED  BY <1>1, <1>4, <1>5

\* It takes the PCB, and c is idle again.
LEMMA RegresaCanal ==
  ASSUME Tipos, PcbUnico, \A d \in Cpus : Canal(d), NEW c \in Cpus,
         OperacionQuantum(c) \/ OperacionFin(c) \/ RecibeBloqueado(c) \/ RecibeSolicitud(c)
  PROVE  \A d \in Cpus : Canal(d)'
<1>1. /\ haciaKernel[c] # <<>> /\ Consume(c)
      /\ UNCHANGED <<pcbAsignado, pcb, haciaCpu>>
      /\ fueAsignado' \in {fueAsignado, fueAsignado \ {c}}
  BY DEF OperacionQuantum, OperacionFin, RecibeBloqueado, RecibeSolicitud, Llega, Ajeno, cpus,
         QuedaOcioso, QuedaOciosoSalvoCierre
<1>2. /\ haciaKernel[c] \in Seq(AlKernel)
      /\ haciaKernel' = [haciaKernel EXCEPT ![c] = Tail(haciaKernel[c])]
      /\ DOMAIN haciaKernel = Cpus
  BY <1>1 DEF Tipos, TRed, Consume
<1>3. Head(haciaKernel[c]).pcb # Nadie
  <2>1. Head(haciaKernel[c]) \in AlKernel
    BY <1>1, <1>2
  <2>. QED
    BY <2>1, PidsTipo
       DEF OperacionQuantum, OperacionFin, RecibeBloqueado, RecibeSolicitud, Pedido, AlKernel
<1>4. Canal(c) /\ 1 \in DOMAIN haciaKernel[c] /\ haciaKernel[c][1] = Head(haciaKernel[c])
  BY <1>1, <1>2, ColaDe
<1>5. /\ pcb[c] = Nadie /\ \A k \in DOMAIN haciaCpu[c] : haciaCpu[c][k].pcb = Nadie
      /\ \A j \in DOMAIN haciaKernel[c] : haciaKernel[c][j].pcb # Nadie => j = 1
  BY <1>3, <1>4, CanalSolo
<1>6. CanalBien(c, fueAsignado, pcbAsignado[c], Nadie, haciaCpu[c], haciaKernel[c])
  BY <1>4, <1>5 DEF Canal
<1>7. /\ CanalBien(c, fueAsignado, pcbAsignado[c], Nadie, haciaCpu[c], Tail(haciaKernel[c]))
      /\ CanalBien(c, fueAsignado \ {c}, pcbAsignado[c], Nadie, haciaCpu[c], Tail(haciaKernel[c]))
  BY <1>1, <1>2, <1>3, <1>5, <1>6, CanalConsume, CanalSuelta
<1>8. Canal(c)'
  BY <1>1, <1>2, <1>5, <1>7 DEF Canal
<1>. QED  BY <1>1, <1>2, <1>8, CanalesSalvo

LEMMA ConexionCanal ==
  ASSUME Tipos, \A d \in Cpus : Canal(d), NEW c \in Cpus, CierraConexion(c)
  PROVE  \A d \in Cpus : Canal(d)'
<1>1. /\ UNCHANGED <<fueAsignado, pcbAsignado, haciaKernel>>
      /\ haciaCpu' = [haciaCpu EXCEPT ![c] = <<>>] /\ pcb' = [pcb EXCEPT ![c] = Nadie]
      /\ haciaCpu \in [Cpus -> Seq(AlCpu)] /\ pcb \in [Cpus -> Pids \cup {Nadie}]
  BY DEF CierraConexion, Tipos, TRed, TCpu
<1>2. CanalBien(c, fueAsignado, pcbAsignado[c], Nadie, <<>>, haciaKernel[c])
  BY CanalCierra DEF Canal
<1>3. Canal(c)'
  BY <1>1, <1>2 DEF Canal
<1>. QED  BY <1>1, <1>3, CanalesSalvo

LEMMA EnviaCanal ==
  ASSUME Tipos, Dirigido, \A d \in Cpus : Canal(d), EnviaPcb, "envio" \notin Carreras
  PROVE  (\A d \in Cpus : Canal(d)') /\ Dirigido'
<1>1. PICK c \in Cpus, q \in {Head(colaReady)} : c = despacho.cpu
  BY DEF EnviaPcb, Tipos, TDespacho
<1>. DEFINE m == Mensaje("NOTHING", q, SinArg)
<1>2. /\ c \notin fueAsignado /\ fueAsignado' = fueAsignado \cup {c} /\ despacho' = EnEspera
      /\ haciaCpu' = [haciaCpu EXCEPT ![c] = Append(haciaCpu[c], m)]
      /\ pcbAsignado' = [pcbAsignado EXCEPT ![c] = q]
      /\ UNCHANGED <<pcb, haciaKernel>>
  BY <1>1 DEF EnviaPcb, Envia, Asigna, Dirigido, cpus
<1>3. /\ haciaCpu \in [Cpus -> Seq(AlCpu)] /\ DOMAIN pcbAsignado = Cpus /\ m.pcb = q
  BY DEF Tipos, TRed, TClientes, Mensaje
<1>. HIDE DEF m
<1>4. CanalBien(c, fueAsignado \cup {c}, m.pcb, pcb[c], Append(haciaCpu[c], m), haciaKernel[c])
  BY <1>2, <1>3, CanalAsigna DEF Canal
<1>5. Canal(c)'
  BY <1>2, <1>3, <1>4 DEF Canal
<1>6. \A d \in Cpus : Canal(d)'
  BY <1>2, <1>3, <1>5, CanalesSalvo
<1>. QED  BY <1>2, <1>6 DEF Dirigido, EnEspera

LEMMA CpuCanal ==
  ASSUME Tipos, PcbUnico, \A d \in Cpus : Canal(d), NextCPU PROVE \A d \in Cpus : Canal(d)'
<1>1. PICK c \in Cpus : Corre(c) \/ Sigusr1(c) \/ CaeCpu(c)
  BY DEF NextCPU
<1>2. /\ UNCHANGED <<fueAsignado, pcbAsignado>> /\ Canal(c)
      /\ haciaCpu \in [Cpus -> Seq(AlCpu)] /\ haciaKernel \in [Cpus -> Seq(AlKernel)]
      /\ pcb \in [Cpus -> Pids \cup {Nadie}]
  BY CPUAjena DEF pcpVars, clientes, Tipos, TRed, TCpu
<1>3. ASSUME UNCHANGED <<pcb, haciaCpu, haciaKernel>> PROVE \A d \in Cpus : Canal(d)'
  BY <1>2, <1>3, CanalesIguales DEF red
<1>4. ASSUME haciaCpu[c] # <<>>, haciaCpu' = [haciaCpu EXCEPT ![c] = Tail(@)],
             pcb' = pcb \/ pcb' = [pcb EXCEPT ![c] = Head(haciaCpu[c]).pcb],
             UNCHANGED haciaKernel
      PROVE  \A d \in Cpus : Canal(d)'
  <2>1. /\ CanalBien(c, fueAsignado, pcbAsignado[c], pcb[c], Tail(haciaCpu[c]), haciaKernel[c])
        /\ CanalBien(c, fueAsignado, pcbAsignado[c], Head(haciaCpu[c]).pcb, Tail(haciaCpu[c]),
                     haciaKernel[c])
    BY <1>2, <1>4, CanalToma DEF Canal
  <2>2. Canal(c)'
    BY <1>2, <1>4, <2>1 DEF Canal
  <2>. QED  BY <1>2, <1>4, <2>2, CanalesSalvo
<1>5. ASSUME NEW m, m.pcb = Nadie, Pide(c, m), UNCHANGED <<pcb, haciaCpu>>,
             m.op # "IMPRIMIR" \/ (m.de = pcb[c] /\ pcb[c] # Nadie)
      PROVE  \A d \in Cpus : Canal(d)'
  <2>1. CASE m.op # "IMPRIMIR"
    <3>1. CanalBien(c, fueAsignado, pcbAsignado[c], pcb[c], haciaCpu[c], Append(haciaKernel[c], m))
      BY <1>2, <1>5, <2>1, CanalPide DEF Canal
    <3>2. Canal(c)'
      BY <1>2, <1>5, <3>1 DEF Canal, Pide
    <3>. QED  BY <1>2, <1>5, <3>2, CanalesSalvo DEF Pide
  <2>2. CASE m.de = pcb[c] /\ pcb[c] # Nadie
    <3>1. \A i \in DOMAIN haciaKernel[c] : haciaKernel[c][i].pcb = Nadie
      BY <1>2, <2>2, CanalSolo
    <3>2. CanalBien(c, fueAsignado, pcbAsignado[c], pcb[c], haciaCpu[c], Append(haciaKernel[c], m))
      BY <1>2, <1>5, <2>2, <3>1, CanalImprime DEF Canal
    <3>3. Canal(c)'
      BY <1>2, <1>5, <3>2 DEF Canal, Pide
    <3>. QED  BY <1>2, <1>5, <3>3, CanalesSalvo DEF Pide
  <2>. QED  BY <1>5, <2>1, <2>2
<1>6. CASE CambioContexto(c)
  <2>1. PICK m : m = Mensaje(operacion[c], pcb[c], SinArg)
    OBVIOUS
  <2>2. m.pcb = pcb[c] /\ m.op # "IMPRIMIR"
    BY <2>1 DEF Mensaje, Tipos, TCpu, FinDeRafaga
  <2>3. /\ haciaKernel' = [haciaKernel EXCEPT ![c] = Append(haciaKernel[c], m)]
        /\ pcb' = [pcb EXCEPT ![c] = Nadie] /\ UNCHANGED haciaCpu
    BY <1>6, <2>1 DEF CambioContexto, Pide
  <2>4. CanalBien(c, fueAsignado, pcbAsignado[c], Nadie, haciaCpu[c], Append(haciaKernel[c], m))
    BY <1>2, <2>2, CanalCambia DEF Canal
  <2>5. Canal(c)'
    BY <1>2, <2>3, <2>4 DEF Canal
  <2>. QED  BY <1>2, <2>3, <2>5, CanalesSalvo
<1>7. CASE RecibePcb(c) \/ RecibeBasura(c) \/ RecibeRespuesta(c)
  BY <1>4, <1>7 DEF RecibePcb, RecibeBasura, RecibeRespuesta
<1>8. CASE Nada(c) \/ Falla(c) \/ Finalizar(c) \/ CaeCpu(c)
  BY <1>3, <1>8 DEF Nada, Falla, Finalizar, CaeCpu, Instruccion, red
<1>9. CASE Imprimir(c)
  <2>1. pcb[c] \in Pids
    BY <1>9 DEF Imprimir, Instruccion, Tipos, TCpu
  <2>2. pcb[c] # Nadie
    BY <2>1, PidsTipo
  <2>3. Pide(c, Texto(pcb[c])) /\ UNCHANGED <<pcb, haciaCpu>>
    BY <1>9 DEF Imprimir, Instruccion
  <2>4. Texto(pcb[c]).pcb = Nadie /\ Texto(pcb[c]).de = pcb[c]
    BY DEF Texto
  <2>. QED  BY <1>5, <2>2, <2>3, <2>4
<1>10. CASE \E s \in Semaforos : AnsisopWait(c, s) \/ AnsisopSignal(c, s)
  BY <1>5, <1>10 DEF AnsisopWait, AnsisopSignal, Instruccion, Mensaje
<1>11. CASE \E d \in Pedidos : EntradaSalida(c, d)
  BY <1>5, <1>11 DEF EntradaSalida, Instruccion, Mensaje
<1>12. CASE Sigusr1(c)
  BY <1>3, <1>5, <1>12 DEF Sigusr1, Mensaje
<1>. QED
  BY <1>1, <1>6, <1>7, <1>8, <1>9, <1>10, <1>11, <1>12 DEF Corre

\* Any other step of the PCP: no message, no assignment.
LEMMA PcpCanal ==
  ASSUME Tipos, PcbUnico, SinCierre, Dirigido, programaCerrado = {}, \A d \in Cpus : Canal(d),
         NextPCP, "envio" \notin Carreras
  PROVE  (\A d \in Cpus : Canal(d)') /\ Dirigido' /\ programaCerrado' = {}
<1>1. ASSUME NEW c \in Cpus, NuevoCliente(c)
      PROVE  (\A d \in Cpus : Canal(d)') /\ Dirigido' /\ programaCerrado' = {}
  BY <1>1, CanalesIguales DEF NuevoCliente, Dirigido, red
<1>2. ASSUME NEW c \in Cpus, Atiende(c)
      PROVE  (\A d \in Cpus : Canal(d)') /\ Dirigido' /\ programaCerrado' = {}
  <2>1. /\ despacho' = despacho
        /\ fueAsignado' \in {fueAsignado, fueAsignado \ {c}}
        /\ programaCerrado' = {}
    BY <1>2
       DEF Atiende, DescartaPcb, DescartaPedido, OperacionQuantum, OperacionIO, OperacionFin,
           OperacionImprimir, OperacionWait, OperacionSignal, OperacionSigusr, MensajeDesfasado,
           RecibeBloqueado, RecibeSolicitud, PcbDesfasado, CierraConexion, Cae, Ajeno, pcpVars,
           clientes, QuedaOcioso, QuedaOciosoSalvoCierre
  <2>2. Dirigido'
    BY <2>1 DEF Dirigido
  <2>3. ~DescartaPcb(c) /\ ~DescartaPedido(c)
    BY DEF DescartaPcb, DescartaPedido
  <2>4. MensajeDesfasado(c) \/ PcbDesfasado(c) => \A d \in Cpus : Canal(d)'
    BY CanalesIguales DEF MensajeDesfasado, PcbDesfasado, Cae, pcpVars, clientes, cpus
  <2>5. \A d \in Cpus : Canal(d)'
    BY <1>2, <2>3, <2>4, PedidoCanal, RegresaCanal, ConexionCanal DEF Atiende
  <2>. QED  BY <2>1, <2>2, <2>5
<1>3. CASE Despacha
  <2>1. CASE EsperaReady \/ DespachaNulo \/ EligeOcioso
    <3>1. (\A d \in Cpus : Canal(d)') /\ programaCerrado' = {}
      BY <2>1, CanalesIguales
         DEF EsperaReady, DespachaNulo, EligeOcioso, Cae, pcpVars, clientes, cpus
    <3>2. CASE EsperaReady \/ DespachaNulo
      BY <3>1, <3>2 DEF EsperaReady, DespachaNulo, Cae, pcpVars, clientes, Dirigido
    <3>3. CASE EligeOcioso
      <4>1. PICK k \in Ociosos :
              despacho' = [pc |-> "saca", cpu |-> listaClientes[k], pcb |-> Nadie]
        BY <3>3 DEF EligeOcioso, Primera
      <4>2. listaClientes[k] \notin fueAsignado /\ fueAsignado' = fueAsignado
        BY <3>3 DEF EligeOcioso, Ociosos
      <4>. QED  BY <3>1, <4>1, <4>2 DEF Dirigido
    <3>. QED  BY <2>1, <3>2, <3>3
  <2>2. CASE EnviaPcb
    BY <2>2, EnviaCanal DEF EnviaPcb
  <2>3. ~AsignaPcb
    BY DEF AsignaPcb, Dirigido
  <2>. QED  BY <1>3, <2>1, <2>2, <2>3 DEF Despacha
<1>4. ~FinalizaPcb
  BY DEF FinalizaPcb, EsperaFinaliza, FinalizaBloqueado, FinalizaReady, FinalizaAsignado,
         FinalizaBasura, Finaliza, SinCierre
<1>5. CASE \/ ReponeCola \/ DescuentaOcioso
           \/ \E d \in Dispositivos : TomaSolicitud(d) \/ TerminaIO(d)
           \/ \E hilo \in {"servidor", "despacho"}, cola \in {"ready", "exit"} :
                VaciaCola(hilo, cola)
  <2>1. UNCHANGED <<fueAsignado, pcbAsignado, programaCerrado, despacho, pcb, red>>
    BY <1>5 DEF ReponeCola, DescuentaOcioso, TomaSolicitud, TerminaIO, VaciaCola, clientes, cpus
  <2>. QED  BY <2>1, CanalesIguales DEF Dirigido
<1>. QED  BY <1>1, <1>2, <1>3, <1>4, <1>5 DEF NextPCP

LEMMA NextCanal ==
  ASSUME Cuentas, PcbUnico, Dirigido, programaCerrado = {}, \A d \in Cpus : Canal(d),
         [Next]_vars, "envio" \notin Carreras
  PROVE  (\A d \in Cpus : Canal(d)') /\ Dirigido' /\ programaCerrado' = {}
<1>1. Tipos /\ SinCierre
  BY DEF Cuentas
<1>2. CASE UNCHANGED vars
  BY <1>2, CanalesIguales DEF vars, pcpVars, clientes, cpus, Dirigido
<1>3. CASE NextPLP
  <2>1. UNCHANGED <<fueAsignado, pcbAsignado, programaCerrado, despacho, pcb, red>>
    BY <1>3
       DEF NextPLP, LlegaPrograma, NotaCierre, EsperaNuevo, Admite, EnviaMensaje, SacaDeExit,
           Destruye, DestruyeNulo, CierraPrograma, CortaPrograma, Cae, pcpVars, clientes, cpus
  <2>. QED  BY <2>1, CanalesIguales DEF Dirigido
<1>4. CASE NextPCP
  BY <1>1, <1>4, PcpCanal
<1>5. CASE NextCPU
  BY <1>1, <1>5, CpuCanal, CPUAjena DEF pcpVars, clientes, Dirigido
<1>. QED  BY <1>2, <1>3, <1>4, <1>5 DEF Next

\* A text that joins the queue is of the program it goes to.
LEMMA ImprimeDuenio ==
  ASSUME Tipos, ImprimeAlDuenio, NEW p, NEW tipo, Imprime(Imprimible(p, tipo, p))
  PROVE  ImprimeAlDuenio'
<1>1. colaImprimibles \in Seq(Textos)
      /\ colaImprimibles' = Append(colaImprimibles, Imprimible(p, tipo, p))
  BY DEF Tipos, TMensajes, Imprime
<1>2. PICK m : m = Imprimible(p, tipo, p) /\ m.pid = m.de
  BY DEF Imprimible
<1>3. \A i \in DOMAIN colaImprimibles' :
        \/ colaImprimibles'[i] = m
        \/ \E j \in DOMAIN colaImprimibles : colaImprimibles'[i] = colaImprimibles[j]
  BY <1>1, <1>2, AgregaDe
<1>. QED  BY <1>2, <1>3 DEF ImprimeAlDuenio, Range

LEMMA PedidoDuenio ==
  ASSUME Tipos, ImprimeAlDuenio, \A d \in Cpus : Canal(d), NEW c \in Cpus, OperacionImprimir(c)
  PROVE  ImprimeAlDuenio'
<1>1. haciaKernel[c] \in Seq(AlKernel) /\ haciaKernel[c] # <<>> /\ Pedido(c).op = "IMPRIMIR"
  BY DEF OperacionImprimir, Llega, Tipos, TRed
<1>2. 1 \in DOMAIN haciaKernel[c] /\ haciaKernel[c][1] = Pedido(c)
  BY <1>1, ColaDe DEF Pedido
<1>3. Pedido(c).de = pcbAsignado[c]
  BY <1>1, <1>2 DEF Canal, CanalBien
<1>. QED  BY <1>3, ImprimeDuenio DEF OperacionImprimir, QuienImprime

LEMMA AtiendeDuenio ==
  ASSUME Tipos, ImprimeAlDuenio, \A d \in Cpus : Canal(d), NEW c \in Cpus, Atiende(c)
  PROVE  ImprimeAlDuenio'
<1>1. CASE OperacionImprimir(c)
  BY <1>1, PedidoDuenio
<1>2. CASE OperacionFin(c)
  BY <1>2, ImprimeDuenio DEF OperacionFin
<1>3. ASSUME UNCHANGED colaImprimibles PROVE ImprimeAlDuenio'
  BY <1>3 DEF ImprimeAlDuenio
<1>. QED
  BY <1>1, <1>2, <1>3
     DEF Atiende, DescartaPcb, DescartaPedido, OperacionQuantum, OperacionIO, OperacionWait,
         OperacionSignal, OperacionSigusr, MensajeDesfasado, RecibeBloqueado, RecibeSolicitud,
         PcbDesfasado, CierraConexion, Cae, comunes, mensajes

LEMMA PlpDuenio == ASSUME Tipos, ImprimeAlDuenio, NextPLP PROVE ImprimeAlDuenio'
<1>1. ASSUME UNCHANGED mensajes PROVE ImprimeAlDuenio'
  BY <1>1 DEF ImprimeAlDuenio, mensajes
<1>2. CASE \E r \in Creaciones : LlegaPrograma(r)
  BY <1>1, <1>2, ImprimeDuenio DEF LlegaPrograma
<1>3. CASE EnviaMensaje
  <2>1. /\ colaImprimibles \in Seq(Textos) /\ colaImprimibles # <<>>
        /\ colaImprimibles' = Tail(colaImprimibles)
    BY <1>3 DEF EnviaMensaje, Tipos, TMensajes
  <2>2. \A i \in DOMAIN colaImprimibles' :
          \E j \in DOMAIN colaImprimibles : colaImprimibles'[i] = colaImprimibles[j]
    BY <2>1, ColaDe
  <2>. QED  BY <2>2 DEF ImprimeAlDuenio, Range
<1>. QED
  BY <1>1, <1>2, <1>3
     DEF NextPLP, NotaCierre, EsperaNuevo, Admite, SacaDeExit, Destruye, DestruyeNulo,
         CierraPrograma, CortaPrograma, Cae, comunes

LEMMA NextDuenio ==
  ASSUME Cuentas, PcbUnico, Duenios, [Next]_vars, "envio" \notin Carreras PROVE Duenios'
<1>1. Tipos /\ SinCierre /\ ImprimeAlDuenio /\ \A c \in Cpus : Canal(c)
  BY DEF Cuentas, Duenios
<1>2. (\A c \in Cpus : Canal(c)') /\ Dirigido' /\ programaCerrado' = {}
  BY NextCanal DEF Duenios
<1>3. ASSUME UNCHANGED mensajes PROVE ImprimeAlDuenio'
  BY <1>1, <1>3 DEF ImprimeAlDuenio, mensajes
<1>4. ImprimeAlDuenio'
  <2>1. CASE \E c \in Cpus : Atiende(c)
    BY <1>1, <2>1, AtiendeDuenio
  <2>2. CASE NextPLP
    BY <1>1, <2>2, PlpDuenio
  <2>3. CASE NextCPU
    BY <1>3, <2>3, CPUAjena DEF comunes
  <2>4. CASE UNCHANGED vars
    BY <1>3, <2>4 DEF vars, comunes
  <2>5. CASE NextPCP /\ ~\E c \in Cpus : Atiende(c)
    <3>1. ~FinalizaPcb
      BY <1>1
         DEF FinalizaPcb, EsperaFinaliza, FinalizaBloqueado, FinalizaReady, FinalizaAsignado,
             FinalizaBasura, Finaliza, SinCierre
    <3>. QED
      BY <1>3, <2>5, <3>1
         DEF NextPCP, NuevoCliente, Despacha, DescuentaOcioso, EsperaReady, EligeOcioso, EnviaPcb,
             AsignaPcb, DespachaNulo, ReponeCola, TomaSolicitud, TerminaIO, VaciaCola, Cae, comunes
  <2>. QED  BY <2>1, <2>2, <2>3, <2>4, <2>5 DEF Next
<1>. QED  BY <1>2, <1>4 DEF Duenios

LEMMA InitDuenio == Init => Duenios
<1>. SUFFICES ASSUME Init PROVE Duenios
  OBVIOUS
<1>1. \A c \in Cpus : pcb[c] = Nadie /\ haciaCpu[c] = <<>> /\ haciaKernel[c] = <<>>
  BY DEF Init, InitCPU
<1>2. \A c \in Cpus : Canal(c)
  BY <1>1 DEF Canal, CanalBien
<1>3. programaCerrado = {} /\ despacho.pc = "espera" /\ colaImprimibles = <<>>
  BY DEF Init, InitPCP, InitPLP, EnEspera
<1>. QED  BY <1>2, <1>3 DEF Duenios, Dirigido, ImprimeAlDuenio, Range

\* While no program is closed before its end and the fields of the client are
\* written before its answer can be handled, what a process prints goes to its
\* own program, whatever CPU dies or announces its close: the handler takes
\* pcbAsignado for the process that prints, and from the PCB sent to the PCB
\* received the CPU sends no text of another.
THEOREM ImprimeAlDuenioSiempre ==
  ASSUME "programa" \notin Cortes, "envio" \notin Carreras PROVE Spec => []ImprimeAlDuenio
<1>1. Cuentas /\ PcbUnico /\ Duenios /\ [Next]_vars => Duenios'
  BY NextDuenio
<1>2. Duenios => ImprimeAlDuenio
  BY DEF Duenios
<1>. QED  BY <1>1, <1>2, InitDuenio, SpecCuentas, SpecPcb, PTL DEF Spec

-----------------------------------------------------------------------------
(* What a program is told last, whatever fails                             *)

\* the texts in the socket come before the PCB they were printed with, or it
\* is still with the CPU
TextosBien(x, kq) ==
  \A i \in DOMAIN kq :
    kq[i].op = "IMPRIMIR" =>
      x = kq[i].de \/ \E j \in DOMAIN kq : i < j /\ kq[j].pcb = kq[i].de

\* a CPU that waits for a PCB has none
TextosDe(c) ==
  /\ TextosBien(pcb[c], haciaKernel[c])
  /\ cpu[c] \in {"apagada", "espera"} => pcb[c] = Nadie

\* those that have ended for good
Fuera == {p \in Pids : SinPcb(p) /\ p <= nroProg}

\* nothing of a process follows the message of its end
FinalBien(q, F) ==
  \A i \in DOMAIN q :
    q[i].tipo \in {"EXIT", "ERROR"} =>
      q[i].pid \in F /\ \A j \in DOMAIN q : i < j => q[j].de # q[i].pid

Finales == (\A c \in Cpus : TextosDe(c)) /\ FinalBien(colaImprimibles, Fuera)

LEMMA TextosConsume ==
  ASSUME NEW x, NEW S, NEW kq \in Seq(S), kq # <<>>, TextosBien(x, kq)
  PROVE  TextosBien(x, Tail(kq))
<1>1. SUFFICES ASSUME NEW i \in DOMAIN Tail(kq), Tail(kq)[i].op = "IMPRIMIR", x # Tail(kq)[i].de
               PROVE  \E j \in DOMAIN Tail(kq) : i < j /\ Tail(kq)[j].pcb = Tail(kq)[i].de
  BY DEF TextosBien
<1>2. i \in Nat /\ i + 1 \in DOMAIN kq /\ Tail(kq)[i] = kq[i + 1]
  OBVIOUS
<1>3. PICK k \in DOMAIN kq : i + 1 < k /\ kq[k].pcb = kq[i + 1].de
  BY <1>1, <1>2 DEF TextosBien
<1>4. k - 1 \in DOMAIN Tail(kq) /\ Tail(kq)[k - 1] = kq[k] /\ i < k - 1
  BY <1>2, <1>3
<1>. QED  BY <1>2, <1>3, <1>4

LEMMA TextosPide ==
  ASSUME NEW x, NEW S, NEW kq \in Seq(S), TextosBien(x, kq), NEW m,
         m.op # "IMPRIMIR" \/ m.de = x
  PROVE  TextosBien(x, Append(kq, m))
BY AgregaDe DEF TextosBien

LEMMA TextosCambia ==
  ASSUME NEW x, NEW S, NEW kq \in Seq(S), TextosBien(x, kq), NEW m, m.op # "IMPRIMIR", m.pcb = x
  PROVE  TextosBien(Nadie, Append(kq, m))
BY AgregaDe DEF TextosBien

LEMMA TextosToma ==
  ASSUME NEW kq \in Seq(AlKernel), TextosBien(Nadie, kq), NEW x PROVE TextosBien(x, kq)
<1>1. \A i \in DOMAIN kq : kq[i].op = "IMPRIMIR" => kq[i].de # Nadie
  BY PidsTipo DEF AlKernel
<1>. QED  BY <1>1 DEF TextosBien

LEMMA FinalTail ==
  ASSUME NEW S, NEW q \in Seq(S), q # <<>>, NEW F, NEW G, F \subseteq G, FinalBien(q, F)
  PROVE  FinalBien(Tail(q), G)
<1>1. \A i \in DOMAIN Tail(q) : i \in Int /\ i + 1 \in DOMAIN q /\ Tail(q)[i] = q[i + 1]
  BY ColaDe
<1>2. \A i, j \in DOMAIN Tail(q) : i < j => i + 1 < j + 1
  BY <1>1
<1>. QED  BY <1>1, <1>2 DEF FinalBien

LEMMA FinalAppend ==
  ASSUME NEW S, NEW q \in Seq(S), NEW F, NEW G, F \subseteq G, FinalBien(q, F), NEW m,
         m.de \notin F, m.tipo \in {"EXIT", "ERROR"} => m.pid \in G
  PROVE  FinalBien(Append(q, m), G)
<1>1. \A i, j \in DOMAIN Append(q, m) : i < j => i \in DOMAIN q
  OBVIOUS
<1>2. SUFFICES ASSUME NEW i \in DOMAIN Append(q, m), Append(q, m)[i].tipo \in {"EXIT", "ERROR"}
               PROVE  /\ Append(q, m)[i].pid \in G
                      /\ \A j \in DOMAIN Append(q, m) :
                           i < j => Append(q, m)[j].de # Append(q, m)[i].pid
  BY DEF FinalBien
<1>3. CASE i \in DOMAIN q
  <2>1. q[i].pid \in F /\ (\A j \in DOMAIN q : i < j => q[j].de # q[i].pid)
    BY <1>2, <1>3, AgregaDe DEF FinalBien
  <2>2. \A j \in DOMAIN Append(q, m) : j \in DOMAIN q \/ Append(q, m)[j] = m
    BY AgregaDe
  <2>. QED  BY <1>3, <2>1, <2>2, AgregaDe
<1>4. CASE i \notin DOMAIN q
  <2>1. Append(q, m)[i] = m
    BY <1>2, <1>4, AgregaDe
  <2>. QED  BY <1>1, <1>2, <1>4, <2>1
<1>. QED  BY <1>3, <1>4

LEMMA FinalCrece ==
  ASSUME NEW q, NEW F, NEW G, F \subseteq G, FinalBien(q, F) PROVE FinalBien(q, G)
BY DEF FinalBien

\* A process whose text is in the socket has a PCB.
LEMMA TextoConPcb ==
  ASSUME Tipos, NEW c \in Cpus, TextosDe(c), NEW i \in DOMAIN haciaKernel[c],
         haciaKernel[c][i].op = "IMPRIMIR"
  PROVE  haciaKernel[c][i].de \in Pids /\ ~SinPcb(haciaKernel[c][i].de)
<1>1. PICK p : p = haciaKernel[c][i].de
  OBVIOUS
<1>2. haciaKernel[c] \in Seq(AlKernel)
  BY DEF Tipos, TRed
<1>3. p \in Pids
  BY <1>1, <1>2 DEF AlKernel
<1>4. SCpu(c) \in Sitios /\ SVuelta(c) \in Sitios
  BY SitiosSon
<1>5. CASE pcb[c] = p
  <2>1. 0 \in Puestos(SCpu(c), p)
    BY <1>5, PuestosCpu DEF Si
  <2>. QED  BY <1>1, <1>3, <1>4, <2>1 DEF SinPcb
<1>6. CASE \E j \in DOMAIN haciaKernel[c] : haciaKernel[c][j].pcb = p
  <2>1. PICK j \in DOMAIN haciaKernel[c] : haciaKernel[c][j].pcb = p
    BY <1>6
  <2>2. j \in Puestos(SVuelta(c), p)
    BY <1>2, <2>1, PuestosVuelta DEF Donde1, Lleva
  <2>. QED  BY <1>1, <1>3, <1>4, <2>2 DEF SinPcb
<1>. QED  BY <1>1, <1>5, <1>6 DEF TextosDe, TextosBien

LEMMA TextosSalvo ==
  ASSUME NEW c \in Cpus, \A d \in Cpus : TextosDe(d),
         \A d \in Cpus : d # c => UNCHANGED <<cpu[d], pcb[d], haciaKernel[d]>>, TextosDe(c)'
  PROVE  \A d \in Cpus : TextosDe(d)'
BY DEF TextosDe

LEMMA TextosIguales ==
  ASSUME \A d \in Cpus : TextosDe(d), UNCHANGED <<cpu, pcb, haciaKernel>>
  PROVE  \A d \in Cpus : TextosDe(d)'
BY DEF TextosDe

LEMMA AtiendeTextos ==
  ASSUME Tipos, \A d \in Cpus : TextosDe(d), NEW c \in Cpus, Atiende(c)
  PROVE  \A d \in Cpus : TextosDe(d)'
<1>1. haciaKernel \in [Cpus -> Seq(AlKernel)] /\ pcb \in [Cpus -> Pids \cup {Nadie}] /\ TextosDe(c)
  BY DEF Tipos, TRed, TCpu
<1>2. CASE MensajeDesfasado(c) \/ PcbDesfasado(c)
  BY <1>2, TextosIguales DEF MensajeDesfasado, PcbDesfasado, Cae, cpus, red
<1>3. CASE CierraConexion(c)
  <2>1. /\ haciaKernel[c] = <<>> /\ UNCHANGED <<haciaKernel, cpu>>
        /\ pcb' = [pcb EXCEPT ![c] = Nadie]
    BY <1>3 DEF CierraConexion
  <2>2. TextosDe(c)'
    BY <1>1, <2>1 DEF TextosDe, TextosBien
  <2>. QED  BY <1>1, <2>1, <2>2, TextosSalvo
<1>4. ASSUME haciaKernel[c] # <<>>, Consume(c), UNCHANGED cpus PROVE \A d \in Cpus : TextosDe(d)'
  <2>1. haciaKernel' = [haciaKernel EXCEPT ![c] = Tail(haciaKernel[c])] /\ UNCHANGED <<cpu, pcb>>
    BY <1>4 DEF Consume, cpus
  <2>2. TextosBien(pcb[c], Tail(haciaKernel[c]))
    BY <1>1, <1>4, TextosConsume DEF TextosDe
  <2>3. TextosDe(c)'
    BY <1>1, <2>1, <2>2 DEF TextosDe
  <2>. QED  BY <1>1, <2>1, <2>3, TextosSalvo
<1>. QED
  BY <1>2, <1>3, <1>4
     DEF Atiende, DescartaPcb, DescartaPedido, OperacionQuantum, OperacionIO, OperacionFin,
         OperacionImprimir, OperacionWait, OperacionSignal, OperacionSigusr, RecibeBloqueado,
         RecibeSolicitud, Llega, Ajeno

LEMMA CpuTextos ==
  ASSUME Tipos, \A d \in Cpus : TextosDe(d), NextCPU PROVE \A d \in Cpus : TextosDe(d)'
<1>1. PICK c \in Cpus : Corre(c) \/ Sigusr1(c) \/ CaeCpu(c)
  BY DEF NextCPU
<1>2. /\ haciaKernel \in [Cpus -> Seq(AlKernel)] /\ pcb \in [Cpus -> Pids \cup {Nadie}]
      /\ DOMAIN cpu = Cpus /\ TextosDe(c)
  BY DEF Tipos, TRed, TCpu
<1>. DEFINE Pasa == /\ \A d \in Cpus : d # c => cpu'[d] = cpu[d]
                    /\ cpu'[c] = cpu[c] \/ cpu'[c] \notin {"apagada", "espera"}
                    /\ UNCHANGED pcb
<1>3. Pasa /\ haciaKernel' = haciaKernel => \A d \in Cpus : TextosDe(d)'
  <2>. SUFFICES ASSUME Pasa, haciaKernel' = haciaKernel PROVE \A d \in Cpus : TextosDe(d)'
    OBVIOUS
  <2>1. TextosDe(c)'
    BY <1>2 DEF TextosDe
  <2>. QED  BY <1>2, <2>1, TextosSalvo
<1>4. ASSUME Pasa, NEW m, Pide(c, m), m.op # "IMPRIMIR" \/ m.de = pcb[c]
      PROVE  \A d \in Cpus : TextosDe(d)'
  <2>1. haciaKernel' = [haciaKernel EXCEPT ![c] = Append(haciaKernel[c], m)]
    BY <1>4 DEF Pide
  <2>2. TextosBien(pcb[c], Append(haciaKernel[c], m))
    BY <1>2, <1>4, TextosPide DEF TextosDe
  <2>3. TextosDe(c)'
    BY <1>2, <1>4, <2>1, <2>2 DEF TextosDe
  <2>. QED  BY <1>2, <1>4, <2>1, <2>3, TextosSalvo
<1>5. CASE RecibePcb(c)
  <2>1. PICK p : p = Head(haciaCpu[c]).pcb
    OBVIOUS
  <2>2. /\ cpu' = [cpu EXCEPT ![c] = "corre"] /\ pcb' = [pcb EXCEPT ![c] = p]
        /\ UNCHANGED haciaKernel /\ cpu[c] = "espera"
    BY <1>5, <2>1 DEF RecibePcb
  <2>3. TextosBien(p, haciaKernel[c])
    BY <1>2, <2>2, TextosToma DEF TextosDe
  <2>4. TextosDe(c)'
    BY <1>2, <2>2, <2>3 DEF TextosDe
  <2>. QED  BY <1>2, <2>2, <2>4, TextosSalvo
<1>6. CASE CambioContexto(c)
  <2>1. PICK m : m = Mensaje(operacion[c], pcb[c], SinArg)
    OBVIOUS
  <2>2. m.pcb = pcb[c] /\ m.op # "IMPRIMIR"
    BY <2>1 DEF Mensaje, Tipos, TCpu, FinDeRafaga
  <2>3. /\ haciaKernel' = [haciaKernel EXCEPT ![c] = Append(haciaKernel[c], m)]
        /\ pcb' = [pcb EXCEPT ![c] = Nadie] /\ \E e : cpu' = [cpu EXCEPT ![c] = e]
    BY <1>6, <2>1 DEF CambioContexto, Pide
  <2>4. TextosBien(Nadie, Append(haciaKernel[c], m))
    BY <1>2, <2>2, TextosCambia DEF TextosDe
  <2>5. TextosDe(c)'
    BY <1>2, <2>3, <2>4 DEF TextosDe
  <2>. QED  BY <1>2, <2>3, <2>5, TextosSalvo
<1>7. CASE \/ Nada(c) \/ RecibeRespuesta(c) \/ RecibeBasura(c) \/ CaeCpu(c)
           \/ Finalizar(c) \/ Falla(c)
  <2>1. Pasa /\ haciaKernel' = haciaKernel
    BY <1>2, <1>7
       DEF Nada, RecibeRespuesta, RecibeBasura, CaeCpu, Finalizar, Falla, Instruccion, Sigue, red
  <2>. QED  BY <1>3, <2>1
<1>8. CASE Imprimir(c)
  <2>1. Pasa /\ Pide(c, Texto(pcb[c]))
    BY <1>2, <1>8 DEF Imprimir, Instruccion, Sigue
  <2>2. Texto(pcb[c]).de = pcb[c]
    BY DEF Texto
  <2>. QED  BY <1>4, <2>1, <2>2
<1>9. CASE \/ \E s \in Semaforos : AnsisopWait(c, s) \/ AnsisopSignal(c, s)
           \/ \E d \in Pedidos : EntradaSalida(c, d)
  <2>1. Pasa
    BY <1>2, <1>9 DEF AnsisopWait, AnsisopSignal, EntradaSalida, Instruccion, Sigue
  <2>2. PICK op \in {"WAIT", "SIGNAL", "IO"}, a \in Semaforos \cup Pedidos :
          Pide(c, Mensaje(op, Nadie, a))
    BY <1>9 DEF AnsisopWait, AnsisopSignal, EntradaSalida
  <2>3. Mensaje(op, Nadie, a).op # "IMPRIMIR"
    BY DEF Mensaje
  <2>. HIDE DEF Pasa
  <2>. QED  BY <1>4, <2>1, <2>2, <2>3
<1>10. CASE Sigusr1(c)
  <2>1. /\ Pasa
        /\ haciaKernel' = haciaKernel \/ \E m : Pide(c, m) /\ m.op # "IMPRIMIR"
    BY <1>2, <1>10 DEF Sigusr1, Mensaje
  <2>. QED  BY <1>3, <1>4, <2>1
<1>. QED
  BY <1>1, <1>5, <1>6, <1>7, <1>8, <1>9, <1>10 DEF Corre

LEMMA NextTextos ==
  ASSUME Tipos, \A d \in Cpus : TextosDe(d), [Next]_vars PROVE \A d \in Cpus : TextosDe(d)'
<1>1. CASE \E c \in Cpus : Atiende(c)
  BY <1>1, AtiendeTextos
<1>2. CASE NextCPU
  BY <1>2, CpuTextos
<1>3. ASSUME NEW c \in Cpus, NuevoCliente(c) PROVE \A d \in Cpus : TextosDe(d)'
  <2>1. /\ cpu' = [cpu EXCEPT ![c] = "espera"] /\ cpu[c] = "apagada"
        /\ UNCHANGED <<pcb, haciaKernel>>
        /\ DOMAIN cpu = Cpus
    BY <1>3 DEF NuevoCliente, red, Tipos, TCpu
  <2>2. TextosDe(c)'
    BY <2>1 DEF TextosDe
  <2>. QED  BY <2>1, <2>2, TextosSalvo
<1>4. ASSUME UNCHANGED <<cpus, haciaKernel>> PROVE \A d \in Cpus : TextosDe(d)'
  BY <1>4, TextosIguales DEF cpus
<1>5. CASE NextPLP \/ UNCHANGED vars
  BY <1>4, <1>5
     DEF NextPLP, LlegaPrograma, NotaCierre, EsperaNuevo, Admite, EnviaMensaje, SacaDeExit,
         Destruye, DestruyeNulo, CierraPrograma, CortaPrograma, Cae, red, vars
<1>6. CASE NextPCP /\ ~\E c \in Cpus : NuevoCliente(c) \/ Atiende(c)
  BY <1>4, <1>6
     DEF NextPCP, FinalizaPcb, Despacha, DescuentaOcioso, EsperaReady, EligeOcioso, EnviaPcb,
         AsignaPcb, DespachaNulo, ReponeCola, TomaSolicitud, TerminaIO, VaciaCola, Cae,
         EsperaFinaliza, FinalizaBloqueado, FinalizaReady, FinalizaAsignado, FinalizaBasura,
         Finaliza, red
<1>. QED  BY <1>1, <1>2, <1>3, <1>5, <1>6 DEF Next, NextPCP

LEMMA SinPcbLlega ==
  ASSUME Tipos, NEW r \in Creaciones, LlegaPrograma(r), NEW p \in Pids, SinPcb(p),
         p # nroProg + 1 \/ colaNew' = colaNew
  PROVE  SinPcb(p)'
<1>1. UNCHANGED <<colaReady, impresora, listaBloqueados, haciaCpu, pcb, haciaKernel,
                  colaSolicitudes, enCurso>>
      /\ (colaNew' = colaNew \/ colaNew' = colaNew \cup {nroProg + 1})
  BY DEF LlegaPrograma, pcpVars, ansisop, io, listos, cpus, red
<1>2. \A h \in Sitios \ {SNew} : MenguaEn(h, p)
  BY <1>1, Resto
<1>3. Puestos(SNew, p) = Si(p, colaNew) /\ Puestos(SNew, p)' = Si(p, colaNew')
  BY PuestosNew
<1>4. MenguaEn(SNew, p)
  BY <1>1, <1>3 DEF MenguaEn, Mengua, Si, UnaSola
<1>. QED  BY <1>2, <1>4 DEF SinPcb, MenguaEn, Mengua

\* A process that has ended does not come back.
LEMMA FueraCrece == ASSUME Tipos, [Next]_vars PROVE Fuera \subseteq Fuera'
<1>. SUFFICES ASSUME NEW p \in Pids, SinPcb(p), p <= nroProg
              PROVE  SinPcb(p)' /\ p <= nroProg'
  BY DEF Fuera
<1>1. p \in Nat /\ nroProg \in Nat
  BY PidsTipo DEF Tipos, TAdmision
<1>2. CASE \E r \in Creaciones : LlegaPrograma(r)
  <2>1. p # nroProg + 1 /\ nroProg' = nroProg + 1
    BY <1>1, <1>2 DEF LlegaPrograma, CrearPCB
  <2>. QED  BY <1>1, <1>2, <2>1, SinPcbLlega
<1>3. CASE \A r \in Creaciones : ~LlegaPrograma(r)
  <2>1. nroProg' = nroProg /\ PasoPcb(p, Sitios)
    BY <1>3, NextPasoPcb
  <2>2. Queda(p)
    BY <2>1 DEF PasoPcb, Viaja, SinPcb
  <2>. QED  BY <2>1, <2>2 DEF Queda, MenguaEn, Mengua, SinPcb
<1>. QED  BY <1>2, <1>3

\* A message that joins the queue is of a process that had not ended.
LEMMA ImprimeFinal ==
  ASSUME Tipos, NEW F, NEW G, F \subseteq G, FinalBien(colaImprimibles, F), NEW m, Imprime(m),
         m.de \notin F, m.tipo \in {"EXIT", "ERROR"} => m.pid \in G
  PROVE  FinalBien(colaImprimibles', G)
<1>1. colaImprimibles \in Seq(Textos) /\ colaImprimibles' = Append(colaImprimibles, m)
  BY DEF Tipos, TMensajes, Imprime
<1>2. FinalBien(Append(colaImprimibles, m), G)
  BY <1>1, FinalAppend
<1>. QED  BY <1>1, <1>2

\* The process without a place in the UMV never had a PCB.
LEMMA LlegaFinal ==
  ASSUME Tipos, PcbUnico, FinalBien(colaImprimibles, Fuera), Fuera \subseteq Fuera',
         NEW r \in Creaciones, LlegaPrograma(r)
  PROVE  FinalBien(colaImprimibles, Fuera)'
<1>. DEFINE n == nroProg + 1
<1>1. n \in Pids /\ nroProg \in Nat /\ nroProg' = n
  BY DEF LlegaPrograma, CrearPCB, Tipos, TAdmision
<1>2. CASE UNCHANGED mensajes
  BY <1>2, FinalCrece DEF mensajes
<1>3. CASE colaNew' = colaNew /\ Imprime(Imprimible(n, "ERROR", n))
  <2>1. SinPcb(n)
    BY <1>1 DEF PcbUnico, Conocido, SinPcb
  <2>2. n \in Fuera' /\ n \notin Fuera
    BY <1>1, <1>3, <2>1, SinPcbLlega DEF Fuera
  <2>3. /\ Imprimible(n, "ERROR", n).de = n /\ Imprimible(n, "ERROR", n).pid = n
    BY DEF Imprimible
  <2>. QED  BY <1>3, <2>2, <2>3, ImprimeFinal
<1>. QED  BY <1>2, <1>3 DEF LlegaPrograma

LEMMA FinFinal ==
  ASSUME Tipos, PcbUnico, FinalBien(colaImprimibles, Fuera), Fuera \subseteq Fuera',
         NEW c \in Cpus, OperacionFin(c)
  PROVE  FinalBien(colaImprimibles, Fuera)'
<1>1. PICK q \in Pids : /\ q = Pedido(c).pcb /\ Puestos(SVuelta(c), q) # {}
                        /\ SVuelta(c) \in SinNuevo /\ SinPcb(q)'
  BY FinSinPcb
<1>2. ~SinPcb(q)
  BY <1>1 DEF SinPcb, SinNuevo
<1>3. q <= nroProg /\ nroProg' = nroProg
  BY <1>1 DEF PcbUnico, Conocido, SinNuevo, OperacionFin, Ajeno, plpVars, admision
<1>4. q \notin Fuera /\ q \in Fuera'
  BY <1>1, <1>2, <1>3 DEF Fuera
<1>5. Imprime(Imprimible(q, Pedido(c).op, q))
  BY <1>1 DEF OperacionFin
<1>6. PICK o : o = Pedido(c).op
  OBVIOUS
<1>7. Imprimible(q, o, q).de = q /\ Imprimible(q, o, q).pid = q
  BY DEF Imprimible
<1>8. Imprime(Imprimible(q, o, q))
  BY <1>5, <1>6
<1>. QED  BY <1>4, <1>7, <1>8, ImprimeFinal

LEMMA TextoFinal ==
  ASSUME Tipos, \A d \in Cpus : TextosDe(d), FinalBien(colaImprimibles, Fuera),
         Fuera \subseteq Fuera', NEW c \in Cpus, OperacionImprimir(c)
  PROVE  FinalBien(colaImprimibles, Fuera)'
<1>1. haciaKernel[c] \in Seq(AlKernel) /\ haciaKernel[c] # <<>> /\ Pedido(c).op = "IMPRIMIR"
  BY DEF OperacionImprimir, Llega, Tipos, TRed
<1>2. 1 \in DOMAIN haciaKernel[c] /\ haciaKernel[c][1] = Pedido(c)
  BY <1>1, ColaDe DEF Pedido
<1>3. ~SinPcb(Pedido(c).de)
  BY <1>1, <1>2, TextoConPcb
<1>4. Pedido(c).de \notin Fuera
  BY <1>3 DEF Fuera
<1>5. PICK d : d = Pedido(c).de
  OBVIOUS
<1>6. PICK q : q = QuienImprime(c)
  OBVIOUS
<1>7. Imprimible(q, "IMPRIMIR", d).de = d /\ Imprimible(q, "IMPRIMIR", d).tipo = "IMPRIMIR"
  BY DEF Imprimible
<1>8. Imprime(Imprimible(q, "IMPRIMIR", d)) /\ d \notin Fuera
  BY <1>4, <1>5, <1>6 DEF OperacionImprimir
<1>. QED  BY <1>7, <1>8, ImprimeFinal

LEMMA EnviaFinal ==
  ASSUME Tipos, FinalBien(colaImprimibles, Fuera), Fuera \subseteq Fuera', EnviaMensaje
  PROVE  FinalBien(colaImprimibles, Fuera)'
<1>1. /\ colaImprimibles \in Seq(Textos) /\ colaImprimibles # <<>>
      /\ colaImprimibles' = Tail(colaImprimibles)
  BY DEF EnviaMensaje, Tipos, TMensajes
<1>. QED  BY <1>1, FinalTail

LEMMA NextFinal ==
  ASSUME Tipos, PcbUnico, Finales, [Next]_vars PROVE Finales'
<1>1. (\A c \in Cpus : TextosDe(c)) /\ FinalBien(colaImprimibles, Fuera) /\ Fuera \subseteq Fuera'
  BY FueraCrece DEF Finales
<1>2. \A c \in Cpus : TextosDe(c)'
  BY <1>1, NextTextos
<1>3. ASSUME UNCHANGED mensajes PROVE FinalBien(colaImprimibles, Fuera)'
  BY <1>1, <1>3, FinalCrece DEF mensajes
<1>4. FinalBien(colaImprimibles, Fuera)'
  <2>1. ASSUME NEW c \in Cpus, Atiende(c) PROVE FinalBien(colaImprimibles, Fuera)'
    <3>1. CASE OperacionFin(c)
      BY <1>1, <3>1, FinFinal
    <3>2. CASE OperacionImprimir(c)
      BY <1>1, <3>2, TextoFinal
    <3>. QED
      BY <1>3, <2>1, <3>1, <3>2
         DEF Atiende, DescartaPcb, DescartaPedido, OperacionQuantum, OperacionIO, OperacionWait,
             OperacionSignal, OperacionSigusr, MensajeDesfasado, RecibeBloqueado, RecibeSolicitud,
             PcbDesfasado, CierraConexion, Cae, comunes
  <2>2. CASE NextPLP
    <3>1. CASE \E r \in Creaciones : LlegaPrograma(r)
      BY <1>1, <3>1, LlegaFinal
    <3>2. CASE EnviaMensaje
      BY <1>1, <3>2, EnviaFinal
    <3>. QED
      BY <1>3, <2>2, <3>1, <3>2
         DEF NextPLP, NotaCierre, EsperaNuevo, Admite, SacaDeExit, Destruye, DestruyeNulo,
             CierraPrograma, CortaPrograma, Cae, comunes
  <2>3. CASE NextCPU
    BY <1>3, <2>3, CPUAjena DEF comunes
  <2>4. CASE UNCHANGED vars
    BY <1>3, <2>4 DEF vars, comunes
  <2>5. CASE NextPCP /\ ~\E c \in Cpus : Atiende(c)
    BY <1>3, <2>5
       DEF NextPCP, NuevoCliente, FinalizaPcb, Despacha, DescuentaOcioso, EsperaReady, EligeOcioso,
           EnviaPcb, AsignaPcb, DespachaNulo, ReponeCola, TomaSolicitud, TerminaIO, VaciaCola, Cae,
           EsperaFinaliza, FinalizaBloqueado, FinalizaReady, FinalizaAsignado, FinalizaBasura,
           Finaliza, comunes
  <2>. QED  BY <2>1, <2>2, <2>3, <2>4, <2>5 DEF Next
<1>. QED  BY <1>2, <1>4 DEF Finales

LEMMA InitFinal == Init => Finales
<1>. SUFFICES ASSUME Init PROVE Finales
  OBVIOUS
<1>1. \A c \in Cpus : pcb[c] = Nadie /\ haciaKernel[c] = <<>>
  BY DEF Init, InitCPU
<1>2. colaImprimibles = <<>>
  BY DEF Init, InitPLP
<1>. QED  BY <1>1, <1>2 DEF Finales, TextosDe, TextosBien, FinalBien

\* The step that tells a program that its process ended.
AvisaAlFinal ==
  \A p \in Pids :
    (programa[p] = "conectado" /\ programa'[p] = "avisado") =>
      /\ \A m \in Range(colaImprimibles') : m.de # p
      /\ \A c \in Cpus : \A m \in Range(haciaKernel'[c]) :
           ~(m.op = "IMPRIMIR" /\ m.de = p)

LEMMA PcpPrograma == NextPCP => UNCHANGED programa
<1>. SUFFICES ASSUME NextPCP PROVE UNCHANGED programa
  OBVIOUS
<1>1. CASE \E c \in Cpus : NuevoCliente(c) \/ Atiende(c)
  BY <1>1
     DEF NuevoCliente, Atiende, DescartaPcb, DescartaPedido, OperacionQuantum, OperacionIO,
         OperacionFin, OperacionImprimir, OperacionWait, OperacionSignal, OperacionSigusr,
         MensajeDesfasado, RecibeBloqueado, RecibeSolicitud, PcbDesfasado, CierraConexion, Cae,
         Ajeno, plpVars
<1>2. CASE Despacha \/ DescuentaOcioso
  BY <1>2
     DEF Despacha, DescuentaOcioso, EsperaReady, EligeOcioso, EnviaPcb, AsignaPcb, DespachaNulo,
         Cae, plpVars
<1>3. CASE \/ FinalizaPcb \/ ReponeCola
           \/ \E d \in Dispositivos : TomaSolicitud(d) \/ TerminaIO(d)
           \/ \E hilo \in {"servidor", "despacho"}, cola \in {"ready", "exit"} :
                VaciaCola(hilo, cola)
  BY <1>3
     DEF FinalizaPcb, ReponeCola, TomaSolicitud, TerminaIO, VaciaCola, EsperaFinaliza,
         FinalizaBloqueado, FinalizaReady, FinalizaAsignado, FinalizaBasura, Finaliza, Cae,
         plpVars
<1>. QED  BY <1>1, <1>2, <1>3 DEF NextPCP

LEMMA SoloAvisa ==
  ASSUME Tipos, Next, NEW p \in Pids, programa[p] = "conectado", programa'[p] = "avisado"
  PROVE  EnviaMensaje /\ Head(colaImprimibles).pid = p
         /\ Head(colaImprimibles).tipo \in {"EXIT", "ERROR"}
<1>1. DOMAIN programa = Pids
  BY DEF Tipos, TPrograma
<1>2. CASE NextPLP
  <2>1. CASE EnviaMensaje
    BY <1>1, <2>1 DEF EnviaMensaje
  <2>2. CASE ~EnviaMensaje
    <3>1. programa' = programa \/ \E q \in Pids, e \in {"conectado", "ido", "cerrado"} :
                                    programa' = [programa EXCEPT ![q] = e]
      BY <1>2, <2>2
         DEF NextPLP, LlegaPrograma, NotaCierre, EsperaNuevo, Admite, SacaDeExit, Destruye,
             DestruyeNulo, CierraPrograma, CortaPrograma, Cae, plpVars
    <3>2. CASE programa' = programa
      BY <3>2
    <3>3. CASE programa' # programa
      BY <1>1, <3>1, <3>3
    <3>. QED  BY <3>2, <3>3
  <2>. QED  BY <2>1, <2>2
<1>3. programa' # programa
  OBVIOUS
<1>4. CASE NextCPU
  BY <1>3, <1>4, CPUAjena DEF plpVars
<1>5. CASE NextPCP
  BY <1>3, <1>5, PcpPrograma
<1>. QED  BY <1>2, <1>4, <1>5 DEF Next

LEMMA AvisaBien == Tipos /\ Finales /\ [Next]_vars => [AvisaAlFinal]_vars
<1>. SUFFICES ASSUME Tipos, Finales, Next, NEW p \in Pids,
                     programa[p] = "conectado", programa'[p] = "avisado"
              PROVE  /\ \A m \in Range(colaImprimibles') : m.de # p
                     /\ \A c \in Cpus : \A m \in Range(haciaKernel'[c]) :
                          ~(m.op = "IMPRIMIR" /\ m.de = p)
  BY DEF AvisaAlFinal
<1>1. /\ EnviaMensaje /\ Head(colaImprimibles).pid = p
      /\ Head(colaImprimibles).tipo \in {"EXIT", "ERROR"}
  BY SoloAvisa
<1>2. /\ colaImprimibles \in Seq(Textos) /\ colaImprimibles # <<>>
      /\ colaImprimibles' = Tail(colaImprimibles) /\ UNCHANGED haciaKernel
  BY <1>1 DEF EnviaMensaje, red, Tipos, TMensajes
<1>3. 1 \in DOMAIN colaImprimibles /\ colaImprimibles[1] = Head(colaImprimibles)
  BY <1>2, ColaDe
<1>4. p \in Fuera /\ \A j \in DOMAIN colaImprimibles : 1 < j => colaImprimibles[j].de # p
  BY <1>1, <1>3 DEF Finales, FinalBien
<1>5. \A m \in Range(colaImprimibles') : m.de # p
  <2>1. \A i \in DOMAIN Tail(colaImprimibles) : Tail(colaImprimibles)[i].de # p
    BY <1>2, <1>4, ColaDe
  <2>. QED  BY <1>2, <2>1 DEF Range
<1>6. ASSUME NEW c \in Cpus, NEW i \in DOMAIN haciaKernel[c], haciaKernel[c][i].op = "IMPRIMIR"
      PROVE  haciaKernel[c][i].de # p
  <2>1. ~SinPcb(haciaKernel[c][i].de)
    BY <1>6, TextoConPcb DEF Finales
  <2>. QED  BY <1>4, <2>1 DEF Fuera
<1>. QED  BY <1>2, <1>5, <1>6 DEF Range

\* Whatever fails, however a program is closed and whatever steps of two threads
\* fall inside a handler, the message that its process ended is the last one
\* that a program can get from it: the text of a process waits in the socket of
\* its CPU in front of the PCB, and nothing of it runs after its EXIT or ERROR
\* was queued.
THEOREM SalidaCompletaSiempre == Spec => SalidaCompleta
<1>1. Tipos /\ PcbUnico /\ Finales /\ [Next]_vars => Finales'
  BY NextFinal
<1>2. Tipos /\ Finales /\ [Next]_vars => [AvisaAlFinal]_vars
  BY AvisaBien
<1>3. Spec => [][AvisaAlFinal]_vars
  BY <1>1, <1>2, InitFinal, SpecPcb, PTL DEF Spec
<1>. QED  BY <1>3 DEF AvisaAlFinal, SalidaCompleta

-----------------------------------------------------------------------------
(* The end of a process, with CPUs that die and one that announces it       *)

Unico == UnaSola(cerrarCPU)

\* who says it is about to close: each of them once, and cpuAcerrar is the last
Anuncios ==
  /\ IsFiniteSet(cerrarCPU) /\ cpuAcerrar \in cerrarCPU \cup {SinCpu}
  /\ \A c \in Cpus : \A k \in DOMAIN haciaKernel[c] :
       haciaKernel[c][k].op = "SIGUSR" => c \in cerrarCPU

\* a CPU connects once, and has nothing before
Conectados ==
  /\ \A i, j \in DOMAIN listaClientes : listaClientes[i] = listaClientes[j] => i = j
  /\ \A c \in Cpus : cpu[c] = "apagada" => c \notin Range(listaClientes) /\ c \notin fueAsignado
  /\ despacho.pc \in {"saca", "enviado"} => cpu[despacho.cpu] # "apagada"

LEMMA UnicoCuenta ==
  ASSUME NEW S, IsFiniteSet(S), Cardinality(S) <= 1 PROVE UnaSola(S)
<1>1. SUFFICES ASSUME NEW l \in S, NEW m \in S, l # m PROVE FALSE
  BY DEF UnaSola
<1>2. /\ IsFiniteSet(S \ {l}) /\ Cardinality(S \ {l}) = Cardinality(S) - 1
      /\ Cardinality(S) \in Nat
  BY FS_RemoveElement, FS_CardinalityType
<1>3. /\ IsFiniteSet((S \ {l}) \ {m})
      /\ Cardinality((S \ {l}) \ {m}) = Cardinality(S \ {l}) - 1
  BY <1>1, <1>2, FS_RemoveElement
<1>4. Cardinality((S \ {l}) \ {m}) \in Nat
  BY <1>3, FS_CardinalityType
<1>. QED  BY <1>2, <1>3, <1>4

\* c says what it says; the only announcement is the one of sig_handler
LEMMA PideAnuncia ==
  ASSUME Tipos, Anuncios, NEW c \in Cpus, NEW m, Pide(c, m), UNCHANGED cpuAcerrar,
         cerrarCPU' = cerrarCPU \/ cerrarCPU' = cerrarCPU \cup {c},
         m.op = "SIGUSR" => c \in cerrarCPU'
  PROVE  Anuncios'
<1>1. haciaKernel \in [Cpus -> Seq(AlKernel)]
  BY DEF Tipos, TRed
<1>2. IsFiniteSet(cerrarCPU')
  BY FS_AddElement DEF Anuncios
<1>3. ASSUME NEW d \in Cpus, NEW k \in DOMAIN haciaKernel'[d], haciaKernel'[d][k].op = "SIGUSR"
      PROVE  d \in cerrarCPU'
  <2>1. CASE d # c
    BY <1>1, <1>3, <2>1 DEF Pide, Anuncios
  <2>2. CASE d = c
    <3>1. haciaKernel'[c] = Append(haciaKernel[c], m) /\ haciaKernel[c] \in Seq(AlKernel)
      BY <1>1 DEF Pide
    <3>2. haciaKernel'[c][k] = m
            \/ (k \in DOMAIN haciaKernel[c] /\ haciaKernel'[c][k] = haciaKernel[c][k])
      BY <1>3, <2>2, <3>1, AgregaDe
    <3>. QED  BY <1>3, <2>2, <3>2 DEF Anuncios
  <2>. QED  BY <2>1, <2>2
<1>. QED  BY <1>2, <1>3 DEF Anuncios

LEMMA ConsumeAnuncia ==
  ASSUME Tipos, Anuncios, NEW c \in Cpus, haciaKernel[c] # <<>>, Consume(c), UNCHANGED cerrarCPU,
         cpuAcerrar' = cpuAcerrar \/ (cpuAcerrar' = c /\ Pedido(c).op = "SIGUSR")
  PROVE  Anuncios'
<1>1. haciaKernel \in [Cpus -> Seq(AlKernel)]
  BY DEF Tipos, TRed
<1>2. /\ haciaKernel'[c] = Tail(haciaKernel[c]) /\ haciaKernel[c] \in Seq(AlKernel)
      /\ \A d \in Cpus : d # c => haciaKernel'[d] = haciaKernel[d]
  BY <1>1 DEF Consume
<1>3. 1 \in DOMAIN haciaKernel[c] /\ haciaKernel[c][1] = Pedido(c)
  BY <1>2, ColaDe DEF Pedido
<1>4. \A k \in DOMAIN haciaKernel'[c] :
        k + 1 \in DOMAIN haciaKernel[c] /\ haciaKernel'[c][k] = haciaKernel[c][k + 1]
  BY <1>2, ColaDe
<1>5. \A k \in DOMAIN haciaKernel'[c] : haciaKernel'[c][k].op = "SIGUSR" => c \in cerrarCPU
  BY <1>4 DEF Anuncios
<1>6. \A d \in Cpus : \A k \in DOMAIN haciaKernel'[d] :
        haciaKernel'[d][k].op = "SIGUSR" => d \in cerrarCPU
  BY <1>2, <1>5 DEF Anuncios
<1>7. cpuAcerrar' \in cerrarCPU \cup {SinCpu}
  BY <1>3 DEF Anuncios
<1>. QED  BY <1>6, <1>7 DEF Anuncios

LEMMA AnunciosIguales ==
  ASSUME Anuncios, UNCHANGED <<cerrarCPU, haciaKernel>>, cpuAcerrar' \in {cpuAcerrar, SinCpu}
  PROVE  Anuncios'
BY DEF Anuncios

LEMMA NextAnuncios == ASSUME Tipos, Anuncios, [Next]_vars PROVE Anuncios'
<1>1. CASE UNCHANGED vars
  BY <1>1, AnunciosIguales DEF vars, pcpVars, clientes, cpus, red
<1>2. CASE NextPLP
  BY <1>2, AnunciosIguales
     DEF NextPLP, LlegaPrograma, NotaCierre, EsperaNuevo, Admite, EnviaMensaje, SacaDeExit,
         Destruye, DestruyeNulo, CierraPrograma, CortaPrograma, Cae, pcpVars, clientes, cpus, red
<1>3. ASSUME NEW c \in Cpus, Corre(c) \/ Sigusr1(c) \/ CaeCpu(c) PROVE Anuncios'
  <2>1. cpuAcerrar' = cpuAcerrar
    BY <1>3, CPUAjena DEF NextCPU, pcpVars, clientes
  <2>2. CASE \/ RecibePcb(c) \/ RecibeBasura(c) \/ RecibeRespuesta(c) \/ Nada(c) \/ Falla(c)
             \/ Finalizar(c) \/ CaeCpu(c)
    BY <2>1, <2>2, AnunciosIguales
       DEF RecibePcb, RecibeBasura, RecibeRespuesta, Nada, Falla, Finalizar, CaeCpu, Instruccion,
           red
  <2>3. CASE Imprimir(c)
    BY <2>1, <2>3, PideAnuncia DEF Imprimir, Instruccion, Texto
  <2>4. CASE \E s \in Semaforos : AnsisopWait(c, s) \/ AnsisopSignal(c, s)
    BY <2>1, <2>4, PideAnuncia DEF AnsisopWait, AnsisopSignal, Instruccion, Mensaje
  <2>5. CASE \E d \in Pedidos : EntradaSalida(c, d)
    BY <2>1, <2>5, PideAnuncia DEF EntradaSalida, Instruccion, Mensaje
  <2>6. CASE CambioContexto(c)
    <3>1. operacion[c] # "SIGUSR"
      BY DEF Tipos, TCpu, FinDeRafaga
    <3>. QED  BY <2>1, <2>6, <3>1, PideAnuncia DEF CambioContexto, Mensaje
  <2>7. CASE Sigusr1(c)
    BY <2>1, <2>7, PideAnuncia, AnunciosIguales DEF Sigusr1, Mensaje
  <2>. QED  BY <1>3, <2>2, <2>3, <2>4, <2>5, <2>6, <2>7 DEF Corre
<1>4. ASSUME NEW c \in Cpus, Atiende(c) PROVE Anuncios'
  <2>1. CASE MensajeDesfasado(c) \/ PcbDesfasado(c) \/ CierraConexion(c)
    BY <2>1, AnunciosIguales
       DEF MensajeDesfasado, PcbDesfasado, CierraConexion, Cae, pcpVars, clientes, cpus, red
  <2>2. CASE \/ DescartaPcb(c) \/ DescartaPedido(c) \/ OperacionQuantum(c) \/ OperacionIO(c)
             \/ OperacionFin(c) \/ OperacionImprimir(c) \/ OperacionWait(c)
             \/ OperacionSignal(c) \/ OperacionSigusr(c)
    BY <2>2, ConsumeAnuncia
       DEF DescartaPcb, DescartaPedido, OperacionQuantum, OperacionIO, OperacionFin,
           OperacionImprimir, OperacionWait, OperacionSignal, OperacionSigusr, Llega, Ajeno, cpus
  <2>3. CASE RecibeBloqueado(c) \/ RecibeSolicitud(c)
    BY <2>3, ConsumeAnuncia DEF RecibeBloqueado, RecibeSolicitud, Ajeno, cpus
  <2>. QED  BY <1>4, <2>1, <2>2, <2>3 DEF Atiende
<1>5. ASSUME NEW c \in Cpus, NuevoCliente(c) PROVE Anuncios'
  BY <1>5, AnunciosIguales DEF NuevoCliente, red
<1>6. CASE Despacha \/ DescuentaOcioso
  BY <1>6, AnunciosIguales
     DEF Despacha, DescuentaOcioso, EsperaReady, EligeOcioso, EnviaPcb, AsignaPcb, DespachaNulo,
         Cae, pcpVars, clientes, cpus, red
<1>7. CASE \/ FinalizaPcb \/ ReponeCola
           \/ \E d \in Dispositivos : TomaSolicitud(d) \/ TerminaIO(d)
           \/ \E hilo \in {"servidor", "despacho"}, cola \in {"ready", "exit"} :
                VaciaCola(hilo, cola)
  BY <1>7, AnunciosIguales
     DEF FinalizaPcb, ReponeCola, TomaSolicitud, TerminaIO, VaciaCola, EsperaFinaliza,
         FinalizaBloqueado, FinalizaReady, FinalizaAsignado, FinalizaBasura, Finaliza, Cae,
         pcpVars, clientes, cpus, red
<1>. QED  BY <1>1, <1>2, <1>3, <1>4, <1>5, <1>6, <1>7 DEF Next, NextPCP, NextCPU

LEMMA InitAnuncios == Init => Anuncios
BY FS_EmptySet DEF Init, InitPCP, InitCPU, Anuncios

\* a CPU that is on does not go back to how it was before it connected
LEMMA Encendidas ==
  ASSUME Tipos, [Next]_vars
  PROVE  /\ \A c \in Cpus : cpu'[c] = "apagada" => cpu[c] = "apagada"
         /\ cpu' = cpu \/ NextCPU \/ \E c \in Cpus : NuevoCliente(c)
<1>1. cpu \in [Cpus -> {"apagada", "espera", "corre", "respuesta", "desaloja", "cerrada"}]
  BY DEF Tipos, TCpu
<1>2. CASE UNCHANGED vars
  BY <1>2 DEF vars, cpus
<1>3. CASE NextPLP
  BY <1>3
     DEF NextPLP, LlegaPrograma, NotaCierre, EsperaNuevo, Admite, EnviaMensaje, SacaDeExit,
         Destruye, DestruyeNulo, CierraPrograma, CortaPrograma, Cae, cpus
<1>4. CASE NextCPU
  <2>1. PICK c \in Cpus : Corre(c) \/ Sigusr1(c) \/ CaeCpu(c)
    BY <1>4 DEF NextCPU
  <2>2. \/ cpu' = cpu
        \/ \E x \in {"espera", "corre", "respuesta", "desaloja", "cerrada"} :
             cpu' = [cpu EXCEPT ![c] = x]
    BY <2>1
       DEF Corre, RecibePcb, RecibeBasura, RecibeRespuesta, Nada, Imprimir, Falla, Finalizar,
           AnsisopWait, AnsisopSignal, EntradaSalida, CambioContexto, Sigue, Sigusr1, CaeCpu
  <2>. QED  BY <1>1, <1>4, <2>2
<1>5. ASSUME NEW c \in Cpus, NuevoCliente(c)
      PROVE  \A d \in Cpus : cpu'[d] = "apagada" => cpu[d] = "apagada"
  BY <1>1, <1>5 DEF NuevoCliente
<1>6. ASSUME NEW c \in Cpus, Atiende(c) PROVE cpu' = cpu
  BY <1>6
     DEF Atiende, DescartaPcb, DescartaPedido, OperacionQuantum, OperacionIO,
         OperacionFin, OperacionImprimir, OperacionWait, OperacionSignal, OperacionSigusr,
         MensajeDesfasado, RecibeBloqueado, RecibeSolicitud, PcbDesfasado, CierraConexion, Cae,
         Ajeno, cpus
<1>7. CASE Despacha \/ DescuentaOcioso
  BY <1>7
     DEF Despacha, DescuentaOcioso, EsperaReady, EligeOcioso, EnviaPcb, AsignaPcb, DespachaNulo,
         Cae, cpus
<1>8. CASE \/ FinalizaPcb \/ ReponeCola
           \/ \E d \in Dispositivos : TomaSolicitud(d) \/ TerminaIO(d)
           \/ \E hilo \in {"servidor", "despacho"}, cola \in {"ready", "exit"} :
                VaciaCola(hilo, cola)
  BY <1>8
     DEF FinalizaPcb, ReponeCola, TomaSolicitud, TerminaIO, VaciaCola, EsperaFinaliza,
         FinalizaBloqueado, FinalizaReady, FinalizaAsignado, FinalizaBasura, Finaliza, Cae, cpus
<1>. QED  BY <1>2, <1>3, <1>4, <1>5, <1>6, <1>7, <1>8 DEF Next, NextPCP

LEMMA ConectadosIgual ==
  ASSUME Conectados, UNCHANGED listaClientes, fueAsignado' \subseteq fueAsignado,
         UNCHANGED despacho, \A c \in Cpus : cpu'[c] = "apagada" => cpu[c] = "apagada", Tipos
  PROVE  Conectados'
BY DEF Conectados, Tipos, TDespacho

LEMMA NuevoConectado ==
  ASSUME Tipos, Conectados, NEW c \in Cpus, NuevoCliente(c) PROVE Conectados'
<1>1. /\ cpu[c] = "apagada" /\ c \notin Range(listaClientes)
      /\ listaClientes \in Seq(Cpus) /\ listaClientes' = Append(listaClientes, c)
      /\ cpu' = [cpu EXCEPT ![c] = "espera"] /\ UNCHANGED <<fueAsignado, despacho>>
      /\ cpu \in [Cpus -> {"apagada", "espera", "corre", "respuesta", "desaloja", "cerrada"}]
  BY DEF NuevoCliente, Conectados, Tipos, TClientes, TCpu
<1>2. /\ DOMAIN listaClientes' = DOMAIN listaClientes \cup {Len(listaClientes) + 1}
      /\ \A i \in DOMAIN listaClientes : listaClientes'[i] = listaClientes[i]
      /\ listaClientes'[Len(listaClientes) + 1] = c
  BY <1>1, AgregaDe
<1>3. \A i \in DOMAIN listaClientes : listaClientes[i] # c
  BY <1>1 DEF Range
<1>4. \A i, j \in DOMAIN listaClientes' : listaClientes'[i] = listaClientes'[j] => i = j
  BY <1>2, <1>3 DEF Conectados
<1>5. \A d \in Range(listaClientes') : d \in Range(listaClientes) \/ d = c
  BY <1>2 DEF Range
<1>6. \A d \in Cpus : cpu'[d] = "apagada" => d \notin Range(listaClientes') /\ d \notin fueAsignado'
  BY <1>1, <1>5 DEF Conectados
<1>7. despacho'.pc \in {"saca", "enviado"} => cpu'[despacho'.cpu] # "apagada"
  BY <1>1 DEF Conectados, Tipos, TDespacho
<1>. QED  BY <1>4, <1>6, <1>7 DEF Conectados

\* the client that goes takes its only place in the list
LEMMA CierraConectado ==
  ASSUME Tipos, Conectados, NEW c \in Cpus, CierraConexion(c)
  PROVE  /\ Conectados'
         /\ Range(listaClientes') \subseteq Range(listaClientes) /\ c \notin Range(listaClientes')
<1>1. PICK k \in DOMAIN listaClientes :
        listaClientes[k] = c /\ listaClientes' = QuitaPos(listaClientes, k)
  BY DEF CierraConexion, Primera
<1>2. listaClientes \in Seq(Cpus) /\ UNCHANGED <<fueAsignado, despacho, cpu>>
  BY DEF CierraConexion, Tipos, TClientes
<1>3. /\ DOMAIN listaClientes = 1..Len(listaClientes) /\ Len(listaClientes) \in Nat
      /\ k \in 1..Len(listaClientes) /\ k \in Nat
  BY <1>1, <1>2
<1>. DEFINE f(j) == IF j < k THEN j ELSE j + 1
<1>4. \A j \in DOMAIN listaClientes' :
        /\ j \in Nat /\ f(j) \in DOMAIN listaClientes /\ f(j) # k
        /\ listaClientes'[j] = listaClientes[f(j)]
  BY <1>1, <1>3 DEF QuitaPos
<1>5. \A i, j \in Nat : f(i) = f(j) => i = j
  BY <1>3
<1>. HIDE DEF f
<1>6. \A i, j \in DOMAIN listaClientes' : listaClientes'[i] = listaClientes'[j] => i = j
  BY <1>4, <1>5 DEF Conectados
<1>7. \A j \in DOMAIN listaClientes' : listaClientes'[j] # c
  BY <1>1, <1>4 DEF Conectados
<1>8. /\ Range(listaClientes') \subseteq Range(listaClientes)
      /\ c \notin Range(listaClientes')
  BY <1>4, <1>7 DEF Range
<1>9. \A d \in Cpus : cpu'[d] = "apagada" => d \notin Range(listaClientes') /\ d \notin fueAsignado'
  BY <1>2, <1>8 DEF Conectados
<1>10. despacho'.pc \in {"saca", "enviado"} => cpu'[despacho'.cpu] # "apagada"
  BY <1>2 DEF Conectados
<1>. QED  BY <1>6, <1>8, <1>9, <1>10 DEF Conectados

LEMMA NextConectados == ASSUME Tipos, Conectados, [Next]_vars PROVE Conectados'
<1>1. \A c \in Cpus : cpu'[c] = "apagada" => cpu[c] = "apagada"
  BY Encendidas
<1>2. CASE UNCHANGED vars
  BY <1>1, <1>2, ConectadosIgual DEF vars, pcpVars, clientes
<1>3. CASE NextPLP
  BY <1>1, <1>3, ConectadosIgual
     DEF NextPLP, LlegaPrograma, NotaCierre, EsperaNuevo, Admite, EnviaMensaje, SacaDeExit,
         Destruye, DestruyeNulo, CierraPrograma, CortaPrograma, Cae, pcpVars, clientes
<1>4. CASE NextCPU
  BY <1>1, <1>4, CPUAjena, ConectadosIgual DEF pcpVars, clientes
<1>5. ASSUME NEW c \in Cpus, Atiende(c), ~CierraConexion(c) PROVE Conectados'
  <2>1. /\ UNCHANGED <<listaClientes, despacho>>
        /\ fueAsignado' \in {fueAsignado, fueAsignado \ {c}}
    BY <1>5
       DEF Atiende, DescartaPcb, DescartaPedido, OperacionQuantum, OperacionIO, OperacionFin,
           OperacionImprimir, OperacionWait, OperacionSignal, OperacionSigusr, MensajeDesfasado,
           RecibeBloqueado, RecibeSolicitud, PcbDesfasado, Cae, Ajeno, pcpVars,
           clientes, QuedaOcioso, QuedaOciosoSalvoCierre
  <2>. QED  BY <1>1, <2>1, ConectadosIgual
<1>6. CASE EsperaReady \/ DespachaNulo \/ DescuentaOcioso
  BY <1>1, <1>6, ConectadosIgual
     DEF EsperaReady, DespachaNulo, DescuentaOcioso, Cae, pcpVars, clientes, Conectados
<1>7. CASE EligeOcioso
  <2>1. PICK k \in DOMAIN listaClientes :
          despacho' = [pc |-> "saca", cpu |-> listaClientes[k], pcb |-> Nadie]
    BY <1>7 DEF EligeOcioso, Primera, Ociosos
  <2>2. listaClientes[k] \in Range(listaClientes) /\ listaClientes[k] \in Cpus
    BY DEF Range, Tipos, TClientes
  <2>3. UNCHANGED <<listaClientes, fueAsignado, cpu>>
    BY <1>7 DEF EligeOcioso, cpus
  <2>. QED  BY <2>1, <2>2, <2>3 DEF Conectados
<1>8. CASE EnviaPcb \/ AsignaPcb
  <2>1. /\ despacho.pc \in {"saca", "enviado"} /\ despacho.cpu \in Cpus
        /\ UNCHANGED <<listaClientes, cpu>>
        /\ fueAsignado' \in {fueAsignado, fueAsignado \cup {despacho.cpu}}
        /\ despacho' \in {EnEspera, [despacho EXCEPT !.pc = "enviado", !.pcb = Head(colaReady)]}
    BY <1>8 DEF EnviaPcb, AsignaPcb, Asigna, Tipos, TDespacho, cpus
  <2>2. despacho'.pc \in {"saca", "enviado"} => despacho'.cpu = despacho.cpu
    <3>1. CASE despacho' = EnEspera
      BY <3>1 DEF EnEspera
    <3>2. CASE despacho' = [despacho EXCEPT !.pc = "enviado", !.pcb = Head(colaReady)]
      BY <3>2 DEF Tipos, TDespacho
    <3>. QED  BY <2>1, <3>1, <3>2
  <2>. QED  BY <2>1, <2>2 DEF Conectados
<1>9. CASE FinalizaPcb
  <2>1. UNCHANGED <<listaClientes, despacho>> /\ fueAsignado' \subseteq fueAsignado
    BY <1>9
       DEF FinalizaPcb, EsperaFinaliza, FinalizaBloqueado, FinalizaReady, FinalizaAsignado,
           FinalizaBasura, Finaliza, Cae, pcpVars, clientes
  <2>. QED  BY <1>1, <2>1, ConectadosIgual
<1>10. CASE \/ ReponeCola
            \/ \E d \in Dispositivos : TomaSolicitud(d) \/ TerminaIO(d)
            \/ \E hilo \in {"servidor", "despacho"}, cola \in {"ready", "exit"} :
                VaciaCola(hilo, cola)
  BY <1>1, <1>10, ConectadosIgual DEF ReponeCola, TomaSolicitud, TerminaIO, VaciaCola, clientes
<1>11. ASSUME NEW c \in Cpus, NuevoCliente(c) \/ Atiende(c) PROVE Conectados'
  BY <1>5, <1>11, NuevoConectado, CierraConectado
<1>12. CASE Despacha
  BY <1>6, <1>7, <1>8, <1>12 DEF Despacha
<1>. QED
  BY <1>2, <1>3, <1>4, <1>6, <1>9, <1>10, <1>11, <1>12 DEF Next, NextPCP

LEMMA InitConectados == Init => Conectados
BY DEF Init, InitPCP, InitCPU, EnEspera, Conectados, Range

-----------------------------------------------------------------------------
(* The CPUs whose process goes to colaExit if their connection is lost      *)

\* TeniaPcb, of a client that is still in the list
Deben == {c \in Range(listaClientes) \cap fueAsignado : cpuAcerrar # c}

DeCpu(c) == {SEnvio(c), SCpu(c), SVuelta(c)}

\* the PCB of p, if any is left, is on its way to c, with c or on its way back
Lejos(c, p) == \A h \in Sitios \ DeCpu(c) : Puestos(h, p) = {}

Debido(c) == pcbAsignado[c] <= nroProg /\ Lejos(c, pcbAsignado[c])

Debidos ==
  /\ \A c \in Deben : Debido(c)
  /\ \A c, e \in Deben : pcbAsignado[c] = pcbAsignado[e] => c = e

LEMMA DebenTipo ==
  ASSUME Tipos PROVE \A c \in Deben : c \in Cpus /\ c \in fueAsignado /\ pcbAsignado[c] \in Pids
BY DEF Deben, Tipos, TClientes

\* A step that gives no PCB leaves no other CPU owing one: while only one CPU
\* announces its close, cpuAcerrar leaves none of the others behind.
LEMMA DebenMengua ==
  ASSUME Tipos, Unico, Anuncios, Conectados, SinCierre, Dirigido, [Next]_vars, ~EnviaPcb
  PROVE  \A c \in Deben' : c \in Deben /\ pcbAsignado'[c] = pcbAsignado[c]
<1>1. ASSUME UNCHANGED <<listaClientes, fueAsignado, cpuAcerrar, pcbAsignado>>
      PROVE  \A c \in Deben' : c \in Deben /\ pcbAsignado'[c] = pcbAsignado[c]
  BY <1>1 DEF Deben
<1>2. CASE UNCHANGED vars
  BY <1>1, <1>2 DEF vars, pcpVars, clientes
<1>3. CASE NextPLP
  BY <1>1, <1>3
     DEF NextPLP, LlegaPrograma, NotaCierre, EsperaNuevo, Admite, EnviaMensaje, SacaDeExit,
         Destruye, DestruyeNulo, CierraPrograma, CortaPrograma, Cae, pcpVars, clientes
<1>4. CASE NextCPU
  BY <1>1, <1>4, CPUAjena DEF pcpVars, clientes
<1>5. ASSUME NEW d \in Cpus, NuevoCliente(d)
      PROVE  \A c \in Deben' : c \in Deben /\ pcbAsignado'[c] = pcbAsignado[c]
  <2>1. /\ d \notin fueAsignado /\ listaClientes' = Append(listaClientes, d)
        /\ UNCHANGED <<fueAsignado, cpuAcerrar, pcbAsignado>>
    BY <1>5 DEF NuevoCliente, Conectados
  <2>2. \A c \in Range(listaClientes') : c \in Range(listaClientes) \/ c = d
    BY <2>1, AgregaDe DEF Range, Tipos, TClientes
  <2>. QED  BY <2>1, <2>2 DEF Deben
<1>6. ASSUME NEW d \in Cpus, Atiende(d)
      PROVE  \A c \in Deben' : c \in Deben /\ pcbAsignado'[c] = pcbAsignado[c]
  <2>1. UNCHANGED pcbAsignado /\ fueAsignado' \in {fueAsignado, fueAsignado \ {d}}
    BY <1>6
       DEF Atiende, DescartaPcb, DescartaPedido, OperacionQuantum, OperacionIO, OperacionFin,
           OperacionImprimir, OperacionWait, OperacionSignal, OperacionSigusr, MensajeDesfasado,
           RecibeBloqueado, RecibeSolicitud, PcbDesfasado, CierraConexion, Cae, Ajeno, pcpVars,
           clientes, QuedaOcioso, QuedaOciosoSalvoCierre
  <2>2. CASE CierraConexion(d)
    <3>1. /\ Range(listaClientes') \subseteq Range(listaClientes)
          /\ d \notin Range(listaClientes')
      BY <2>2, CierraConectado
    <3>2. cpuAcerrar' = cpuAcerrar \/ cpuAcerrar = d
      BY <2>2 DEF CierraConexion
    <3>. QED  BY <2>1, <3>1, <3>2 DEF Deben
  <2>3. CASE OperacionSigusr(d)
    <3>1. UNCHANGED listaClientes /\ cpuAcerrar' = d
      BY <2>3 DEF OperacionSigusr, Ajeno
    <3>2. d \in cerrarCPU
      <4>1. haciaKernel[d] # <<>> /\ haciaKernel[d] \in Seq(AlKernel) /\ Pedido(d).op = "SIGUSR"
        BY <2>3 DEF OperacionSigusr, Llega, Tipos, TRed
      <4>2. 1 \in DOMAIN haciaKernel[d] /\ haciaKernel[d][1].op = "SIGUSR"
        BY <4>1, ColaDe DEF Pedido
      <4>. QED  BY <4>2 DEF Anuncios
    <3>3. cpuAcerrar \in {d, SinCpu}
      BY <3>2 DEF Anuncios, Unico, UnaSola
    <3>4. \A c \in Deben' : c \in Cpus
      BY <2>1, <3>1 DEF Deben, Tipos, TClientes
    <3>. QED  BY <2>1, <3>1, <3>3, <3>4, CpusAssumption DEF Deben
  <2>4. CASE ~CierraConexion(d) /\ ~OperacionSigusr(d)
    <3>1. UNCHANGED <<listaClientes, cpuAcerrar>>
      BY <1>6, <2>4
         DEF Atiende, DescartaPcb, DescartaPedido, OperacionQuantum, OperacionIO, OperacionFin,
             OperacionImprimir, OperacionWait, OperacionSignal, MensajeDesfasado,
             RecibeBloqueado, RecibeSolicitud, PcbDesfasado, Cae, Ajeno, pcpVars, clientes
    <3>. QED  BY <2>1, <3>1 DEF Deben
  <2>. QED  BY <2>2, <2>3, <2>4
<1>7. CASE EsperaReady \/ EligeOcioso \/ DespachaNulo \/ DescuentaOcioso
  BY <1>1, <1>7
     DEF EsperaReady, EligeOcioso, DespachaNulo, DescuentaOcioso, Cae, pcpVars, clientes
<1>8. CASE \/ ReponeCola
           \/ \E d \in Dispositivos : TomaSolicitud(d) \/ TerminaIO(d)
           \/ \E hilo \in {"servidor", "despacho"}, cola \in {"ready", "exit"} :
                VaciaCola(hilo, cola)
  BY <1>1, <1>8 DEF ReponeCola, TomaSolicitud, TerminaIO, VaciaCola, clientes
<1>9. ~FinalizaPcb /\ ~AsignaPcb
  BY DEF FinalizaPcb, EsperaFinaliza, FinalizaBloqueado, FinalizaReady, FinalizaAsignado,
         FinalizaBasura, Finaliza, SinCierre, AsignaPcb, Dirigido
<1>10. CASE Despacha
  BY <1>7, <1>9, <1>10 DEF Despacha
<1>. QED
  BY <1>2, <1>3, <1>4, <1>5, <1>6, <1>7, <1>8, <1>9, <1>10 DEF Next, NextPCP

-----------------------------------------------------------------------------
(* What the others do leaves the PCB of c where it is                       *)

LEMMA LejosIgual ==
  ASSUME NEW c \in Cpus, NEW p \in Pids, PcbUnico, Lejos(c, p), PasoPcb(p, Sitios),
         UNCHANGED <<haciaCpu[c], pcb[c], haciaKernel[c]>>
  PROVE  Lejos(c, p)'
<1>1. \A h \in DeCpu(c) : Puestos(h, p)' = Puestos(h, p)
  BY PuestosIguales DEF DeCpu
<1>2. CASE Queda(p)
  BY <1>2 DEF Queda, MenguaEn, Mengua, Lejos
<1>3. ASSUME NEW a \in Sitios, NEW b \in Sitios, Viaja(p, a, b) PROVE FALSE
  <2>1. Puestos(a, p) # {}
    BY <1>3 DEF Viaja
  <2>2. a \in DeCpu(c)
    BY <2>1 DEF Lejos
  <2>3. UnaSola(Puestos(a, p))
    BY DEF PcbUnico, UnPuesto, UnaSola
  <2>. QED  BY <1>1, <1>3, <2>1, <2>2, <2>3 DEF Viaja
<1>. QED  BY <1>2, <1>3 DEF PasoPcb

\* nor does c itself, while it runs
LEMMA LejosCorre ==
  ASSUME NEW c \in Cpus, Corre(c) \/ Sigusr1(c) \/ CaeCpu(c), NEW p, Lejos(c, p), Tipos
  PROVE  Lejos(c, p)'
<1>1. UNCHANGED <<colaNew, colaReady, impresora, listaBloqueados, colaSolicitudes, enCurso>>
  BY CPUAjena DEF NextCPU, plpVars, admision, pcpVars, ansisop, io, comunes, listos
<1>2. /\ \A d \in Cpus : d # c => /\ haciaCpu'[d] = haciaCpu[d] /\ pcb'[d] = pcb[d]
                                  /\ haciaKernel'[d] = haciaKernel[d]
  <2>1. /\ haciaCpu' = haciaCpu \/ haciaCpu' = [haciaCpu EXCEPT ![c] = Tail(@)]
        /\ pcb' = pcb \/ \E x : pcb' = [pcb EXCEPT ![c] = x]
        /\ haciaKernel' = haciaKernel \/ \E m : Pide(c, m)
    BY DEF Corre, RecibePcb, RecibeBasura, RecibeRespuesta, Nada, Imprimir, Falla, Finalizar,
           AnsisopWait, AnsisopSignal, EntradaSalida, CambioContexto, Sigusr1, CaeCpu,
           Instruccion, red
  <2>. QED  BY <2>1 DEF Tipos, TRed, TCpu, Pide
<1>3. \A h \in Sitios \ DeCpu(c) : MenguaEn(h, p)
  BY <1>1, <1>2, Resto DEF DeCpu
<1>. QED  BY <1>3 DEF Lejos, MenguaEn, Mengua

\* nor do its requests, all but the ones that give the PCB back
LEMMA LejosPedido ==
  ASSUME NEW c \in Cpus, NEW p \in Pids, Lejos(c, p), Tipos,
         \/ OperacionIO(c) \/ OperacionImprimir(c) \/ OperacionWait(c) \/ OperacionSigusr(c)
  PROVE  Lejos(c, p)'
BY PedidoPcb DEF Queda, MenguaEn, Mengua, Lejos

LEMMA LejosSignal ==
  ASSUME NEW c \in Cpus, NEW p \in Pids, Lejos(c, p), Tipos, OperacionSignal(c)
  PROVE  Lejos(c, p)'
<1>1. /\ haciaKernel[c] # <<>> /\ Consume(c)
      /\ UNCHANGED <<colaNew, impresora, haciaCpu, pcb, colaSolicitudes, enCurso>>
  BY DEF OperacionSignal, Llega, Ajeno, plpVars, admision, cpus
<1>2. \A b \in Cpus : haciaKernel'[b] = haciaKernel[b] \/ SVuelta(b) = SVuelta(c)
  BY <1>1, ConsumePuestos
<1>3. CASE UNCHANGED <<listaBloqueados, colaReady>>
  <2>1. \A h \in Sitios \ {SVuelta(c)} : MenguaEn(h, p)
    BY <1>1, <1>2, <1>3, Resto
  <2>. QED  BY <2>1 DEF Lejos, MenguaEn, Mengua, DeCpu
<1>4. ASSUME NEW k \in DOMAIN listaBloqueados,
             listaBloqueados' = QuitaPos(listaBloqueados, k),
             MandaAReady(listaBloqueados[k].pcb)
      PROVE  Lejos(c, p)'
  <2>1. SBloqueado \in Sitios \ DeCpu(c)
    BY SitiosSon DEF DeCpu, SBloqueado, SEnvio, SCpu, SVuelta
  <2>2. MenguaEn(SBloqueado, p) /\ listaBloqueados[k].pcb # p
    BY <1>4, <2>1, QuitaPuestos DEF Lejos
  <2>3. MenguaEn(SReady, p)
    BY <1>4, <2>2, ReadyPuestos
  <2>4. \A h \in Sitios \ {SVuelta(c), SBloqueado, SReady} : MenguaEn(h, p)
    BY <1>1, <1>2, Resto
  <2>. QED  BY <2>2, <2>3, <2>4 DEF Lejos, MenguaEn, Mengua, DeCpu
<1>5. \/ UNCHANGED <<listaBloqueados, colaReady>>
      \/ \E k \in DOMAIN listaBloqueados :
           /\ listaBloqueados' = QuitaPos(listaBloqueados, k)
           /\ MandaAReady(listaBloqueados[k].pcb)
  BY DEF OperacionSignal, Primera, Esperando, listos
<1>. QED  BY <1>3, <1>4, <1>5

\* the server handles a message of d, or the end of its connection
LEMMA LejosAtiende ==
  ASSUME NEW c \in Cpus, NEW d \in Cpus, Atiende(d), c \in Deben', programaCerrado = {},
         NEW p \in Pids, Lejos(c, p), Tipos, PcbUnico, Conectados
  PROVE  Lejos(c, p)'
<1>1. CASE c # d
  <2>1. /\ haciaKernel' = haciaKernel \/ Consume(d)
        /\ \/ haciaCpu' = haciaCpu \/ \E op : Responde(d, op)
           \/ haciaCpu' = [haciaCpu EXCEPT ![d] = <<>>]
        /\ pcb' = pcb \/ pcb' = [pcb EXCEPT ![d] = Nadie]
    BY DEF Atiende, DescartaPcb, DescartaPedido, OperacionQuantum, OperacionIO, OperacionFin,
           OperacionImprimir, OperacionWait, OperacionSignal, OperacionSigusr, MensajeDesfasado,
           RecibeBloqueado, RecibeSolicitud, PcbDesfasado, CierraConexion, Cae, Ajeno, cpus, red
  <2>2. UNCHANGED <<haciaCpu[c], pcb[c], haciaKernel[c]>>
    BY <1>1, <2>1 DEF Consume, Responde, Tipos, TRed, TCpu
  <2>3. PasoPcb(p, SinNuevo)
    BY AtiendePcb
  <2>4. PasoPcb(p, Sitios)
    BY <2>3 DEF PasoPcb, SinNuevo
  <2>. QED  BY <2>2, <2>4, LejosIgual
<1>2. CASE c = d
  <2>1. /\ c \in Range(listaClientes') /\ c \in fueAsignado' /\ cpuAcerrar' # c
        /\ ~DescartaPcb(c) /\ ~DescartaPedido(c)
    BY DEF Deben, DescartaPcb, DescartaPedido
  <2>2. ~OperacionQuantum(c) /\ ~OperacionFin(c) /\ ~RecibeBloqueado(c) /\ ~RecibeSolicitud(c)
    BY <2>1
       DEF OperacionQuantum, OperacionFin, RecibeBloqueado, RecibeSolicitud,
           QuedaOciosoSalvoCierre, QuedaOcioso
  <2>3. ~CierraConexion(c)
    BY <2>1, CierraConectado
  <2>4. CASE MensajeDesfasado(c) \/ PcbDesfasado(c)
    <3>1. Queda(p)
      BY <2>4, NadaPcb
         DEF MensajeDesfasado, PcbDesfasado, Cae, plpVars, admision, pcpVars, ansisop, io, comunes,
             listos, cpus, red
    <3>. QED  BY <3>1 DEF Queda, MenguaEn, Mengua, Lejos
  <2>. QED
    BY <1>2, <2>1, <2>2, <2>3, <2>4, LejosPedido, LejosSignal DEF Atiende
<1>. QED  BY <1>1, <1>2

\* every other step of the PCP but the one that sends a PCB, and those of the PLP
LEMMA CanalesQuietos ==
  ASSUME NextPLP \/ NextPCP, ~EnviaPcb, \A d \in Cpus : ~Atiende(d)
  PROVE  UNCHANGED <<pcb, haciaCpu, haciaKernel>>
<1>1. CASE NextPLP
  BY <1>1
     DEF NextPLP, LlegaPrograma, NotaCierre, EsperaNuevo, Admite, EnviaMensaje, SacaDeExit,
         Destruye, DestruyeNulo, CierraPrograma, CortaPrograma, Cae, cpus, red
<1>2. CASE Despacha \/ DescuentaOcioso \/ \E c \in Cpus : NuevoCliente(c)
  BY <1>2
     DEF Despacha, DescuentaOcioso, EsperaReady, EligeOcioso, AsignaPcb, DespachaNulo,
         NuevoCliente, Cae, cpus, red
<1>3. CASE \/ FinalizaPcb \/ ReponeCola
           \/ \E d \in Dispositivos : TomaSolicitud(d) \/ TerminaIO(d)
           \/ \E hilo \in {"servidor", "despacho"}, cola \in {"ready", "exit"} :
                VaciaCola(hilo, cola)
  BY <1>3
     DEF FinalizaPcb, ReponeCola, TomaSolicitud, TerminaIO, VaciaCola, EsperaFinaliza,
         FinalizaBloqueado, FinalizaReady, FinalizaAsignado, FinalizaBasura, Finaliza, Cae,
         cpus, red
<1>. QED  BY <1>1, <1>2, <1>3 DEF NextPCP

LEMMA LejosNext ==
  ASSUME NEW c \in Cpus, c \in Deben', programaCerrado = {}, NEW p \in Pids, p <= nroProg,
         Lejos(c, p), Tipos, PcbUnico, Conectados, [Next]_vars, ~EnviaPcb
  PROVE  Lejos(c, p)' /\ p <= nroProg'
<1>1. CASE \E r \in Creaciones : LlegaPrograma(r)
  <2>1. PICK n : n = nroProg + 1
    OBVIOUS
  <2>2. /\ p # n /\ nroProg' = n /\ nroProg \in Nat /\ p \in Nat
        /\ (colaNew' = colaNew \/ colaNew' = colaNew \cup {n})
        /\ UNCHANGED <<colaReady, impresora, listaBloqueados, haciaCpu, pcb, haciaKernel,
                       colaSolicitudes, enCurso>>
    BY <1>1, <2>1, PidsTipo
       DEF LlegaPrograma, CrearPCB, pcpVars, ansisop, io, listos, cpus, red, Tipos, TAdmision
  <2>3. \A h \in Sitios \ {SNew} : MenguaEn(h, p)
    BY <2>2, Resto
  <2>4. MenguaEn(SNew, p)
    BY <2>2, PuestosNew DEF MenguaEn, Mengua, Si, UnaSola
  <2>5. Lejos(c, p)'
    BY <2>3, <2>4 DEF Lejos, MenguaEn, Mengua
  <2>. QED  BY <2>1, <2>2, <2>5
<1>2. CASE \A r \in Creaciones : ~LlegaPrograma(r)
  <2>1. nroProg' = nroProg /\ PasoPcb(p, Sitios)
    BY <1>2, NextPasoPcb
  <2>2. ASSUME UNCHANGED <<pcb, haciaCpu, haciaKernel>> PROVE Lejos(c, p)'
    BY <2>1, <2>2, LejosIgual
  <2>3. ASSUME UNCHANGED vars PROVE Lejos(c, p)'
    BY <2>2, <2>3 DEF vars, cpus, red
  <2>4. ASSUME NEW d \in Cpus, Atiende(d) PROVE Lejos(c, p)'
    BY <2>4, LejosAtiende
  <2>5. ASSUME NEW d \in Cpus, Corre(d) \/ Sigusr1(d) \/ CaeCpu(d) PROVE Lejos(c, p)'
    <3>1. CASE d = c
      BY <2>5, <3>1, LejosCorre
    <3>2. CASE d # c
      <4>1. /\ haciaCpu' = haciaCpu \/ haciaCpu' = [haciaCpu EXCEPT ![d] = Tail(@)]
            /\ pcb' = pcb \/ \E x : pcb' = [pcb EXCEPT ![d] = x]
            /\ haciaKernel' = haciaKernel \/ \E m : Pide(d, m)
        BY <2>5
           DEF Corre, RecibePcb, RecibeBasura, RecibeRespuesta, Nada, Imprimir, Falla, Finalizar,
               AnsisopWait, AnsisopSignal, EntradaSalida, CambioContexto, Sigusr1, CaeCpu,
               Instruccion, red
      <4>2. UNCHANGED <<haciaCpu[c], pcb[c], haciaKernel[c]>>
        BY <3>2, <4>1 DEF Tipos, TRed, TCpu, Pide
      <4>. QED  BY <2>1, <4>2, LejosIgual
    <3>. QED  BY <3>1, <3>2
  <2>6. ASSUME NextPLP \/ NextPCP, \A d \in Cpus : ~Atiende(d) PROVE Lejos(c, p)'
    BY <2>2, <2>6, CanalesQuietos
  <2>7. Lejos(c, p)'
    BY <2>3, <2>4, <2>5, <2>6 DEF Next, NextCPU
  <2>. QED  BY <2>1, <2>7
<1>. QED  BY <1>1, <1>2

\* The CPU chosen is the only one that has what it is given.
LEMMA EnviaDebidos ==
  ASSUME Tipos, PcbUnico, Debidos, EnviaPcb, "envio" \notin Carreras
  PROVE  /\ Debidos'
         /\ \A c \in Deben' : \/ c \in Deben /\ pcbAsignado'[c] = pcbAsignado[c]
                              \/ ~SinPcb(pcbAsignado'[c])
<1>1. PICK d \in Cpus, q \in Pids : d = despacho.cpu /\ q = Head(colaReady)
  BY ColaTipo DEF EnviaPcb, SacaDeReady, Tipos, TDespacho, TListos
<1>2. /\ colaReady # <<>> /\ colaReady' = Tail(colaReady) /\ colaReady \in Seq(Pids)
      /\ haciaCpu' = [haciaCpu EXCEPT ![d] = Append(@, Mensaje("NOTHING", q, SinArg))]
      /\ UNCHANGED <<colaNew, impresora, listaBloqueados, pcb, haciaKernel, colaSolicitudes,
                     enCurso>>
  BY <1>1 DEF EnviaPcb, SacaDeReady, Envia, Tipos, TListos, plpVars, admision, ansisop, io, cpus
<1>3. /\ pcbAsignado' = [pcbAsignado EXCEPT ![d] = q] /\ DOMAIN pcbAsignado = Cpus
      /\ fueAsignado' = fueAsignado \cup {d} /\ UNCHANGED <<listaClientes, cpuAcerrar, nroProg>>
  BY <1>1 DEF EnviaPcb, Asigna, Tipos, TClientes, plpVars, admision
<1>4. \A c \in Deben' : c # d => c \in Deben /\ pcbAsignado'[c] = pcbAsignado[c]
  BY <1>3, DebenTipo DEF Deben
<1>5. pcbAsignado'[d] = q
  BY <1>3
<1>6. 1 \in Puestos(SReady, q)
  BY <1>1, <1>2, PuestosReady, ColaDe DEF Donde1
<1>7. SReady \in Sitios /\ \A c : SReady \notin DeCpu(c)
  BY SitiosSon DEF DeCpu, SReady, SEnvio, SCpu, SVuelta
<1>8. \A h \in Sitios : h # SReady => Puestos(h, q) = {}
  BY <1>6, <1>7 DEF PcbUnico, UnPuesto
<1>9. q <= nroProg'
  BY <1>3, <1>6, <1>7 DEF PcbUnico, Conocido
<1>10. Puestos(SReady, q)' = {}
  <2>1. UnaSola(Donde1(colaReady, {q}))
    BY <1>7, PuestosReady DEF PcbUnico, UnPuesto, UnaSola
  <2>2. Donde1(Tail(colaReady), {q}) = {}
    BY <1>1, <1>2, <2>1, MenguaCabeza
  <2>. QED  BY <1>2, <2>2, PuestosReady
<1>11. \A c \in Cpus : haciaCpu'[c] = haciaCpu[c] \/ SEnvio(c) = SEnvio(d)
  BY <1>2 DEF Tipos, TRed
<1>12. Lejos(d, q)'
  <2>1. \A h \in Sitios \ {SReady, SEnvio(d)} : MenguaEn(h, q)
    BY <1>2, <1>11, Resto
  <2>. QED  BY <1>8, <1>10, <2>1 DEF Lejos, DeCpu, MenguaEn, Mengua
<1>13. ASSUME NEW c \in Deben', c # d
       PROVE  pcbAsignado[c] # q /\ pcbAsignado[c] <= nroProg /\ Lejos(c, pcbAsignado[c])'
  <2>1. PICK p \in Pids : p = pcbAsignado[c]
    BY <1>4, <1>13, DebenTipo
  <2>2. c \in Cpus /\ Lejos(c, p) /\ p <= nroProg
    BY <1>4, <1>13, <2>1, DebenTipo DEF Debidos, Debido
  <2>3. p # q
    BY <1>6, <1>7, <2>2 DEF Lejos
  <2>4. UNCHANGED <<haciaCpu[c], pcb[c], haciaKernel[c]>>
    BY <1>2, <1>13, <2>2 DEF Tipos, TRed
  <2>5. PasoPcb(p, Sitios)
    BY EnvioPcb DEF PasoPcb, SinNuevo
  <2>6. Lejos(c, p)'
    BY <2>2, <2>4, <2>5, LejosIgual
  <2>7. Lejos(c, pcbAsignado[c])'
    BY <1>4, <1>13, <2>1, <2>6 DEF Lejos
  <2>. QED  BY <2>1, <2>2, <2>3, <2>7
<1>14. \A c \in Deben' : Debido(c)'
  BY <1>3, <1>4, <1>5, <1>9, <1>12, <1>13 DEF Debido, Lejos
<1>15. \A c, e \in Deben' : pcbAsignado'[c] = pcbAsignado'[e] => c = e
  BY <1>4, <1>5, <1>13 DEF Debidos
<1>16. ~SinPcb(q)
  BY <1>6, <1>7 DEF SinPcb
<1>. QED  BY <1>4, <1>5, <1>14, <1>15, <1>16 DEF Debidos

LEMMA NextDebidos ==
  ASSUME Tipos, PcbUnico, SinCierre, Duenios, Unico, Anuncios, Conectados, Debidos, [Next]_vars,
         "envio" \notin Carreras
  PROVE  Debidos'
<1>1. CASE EnviaPcb
  BY <1>1, EnviaDebidos
<1>2. CASE ~EnviaPcb
  <2>1. \A c \in Deben' : c \in Deben /\ pcbAsignado'[c] = pcbAsignado[c]
    BY <1>2, DebenMengua DEF Duenios
  <2>2. ASSUME NEW c \in Deben' PROVE Debido(c)'
    <3>1. PICK p \in Pids : p = pcbAsignado[c]
      BY <2>1, <2>2, DebenTipo
    <3>2. c \in Cpus /\ Lejos(c, p) /\ p <= nroProg
      BY <2>1, <2>2, <3>1, DebenTipo DEF Debidos, Debido
    <3>3. Lejos(c, p)' /\ p <= nroProg'
      BY <1>2, <2>2, <3>2, LejosNext DEF Duenios
    <3>4. pcbAsignado'[c] = p
      BY <2>1, <2>2, <3>1
    <3>. QED  BY <3>3, <3>4 DEF Debido, Lejos
  <2>. QED  BY <2>1, <2>2 DEF Debidos
<1>. QED  BY <1>1, <1>2

-----------------------------------------------------------------------------
(* What leaves the system, leaves it once                                   *)

\* in colaExit, in the copy of it that is being printed
EnCola(p) == Donde1(colaExit, {p})
EnCopia(p) == {k \in Donde1(impresora.pcbs, {p}) : impresora.cola = "exit"}

HaSalido(p) == EnCola(p) # {} \/ EnCopia(p) # {} \/ saliendo = p \/ destruidos[p] > 0

SaleUna(p) ==
  /\ UnaSola(EnCola(p)) /\ UnaSola(EnCopia(p)) /\ destruidos[p] <= 1
  /\ EnCola(p) # {} => EnCopia(p) = {} /\ saliendo # p /\ ~(destruidos[p] > 0)
  /\ EnCopia(p) # {} => saliendo # p /\ ~(destruidos[p] > 0)
  /\ saliendo = p => ~(destruidos[p] > 0)

\* a CPU that is lost would send p to colaExit
Pendiente(p) == \E c \in Deben : pcbAsignado[c] = p

SalidaBien(p) == SaleUna(p) /\ (HaSalido(p) => p \in Fuera /\ ~Pendiente(p))

\* the ways in which a process ends while no program is closed before
Termina(q) ==
  /\ MandaAExit(q) /\ UNCHANGED <<impresora, saliendo, destruidos, colaReady>>
  /\ \/ q = nroProg + 1 /\ "parcial" \in Creaciones /\ LlegaPrograma("parcial")
     \/ \E c \in Cpus : OperacionFin(c) /\ q = Pedido(c).pcb
     \/ \E c \in Cpus : CierraConexion(c) /\ TeniaPcb(c) /\ q = pcbAsignado[c]

\* what a step does to p if it sends nothing to colaExit
Avanza(p) == SaleUna(p)' /\ (HaSalido(p)' => HaSalido(p))

LEMMA SalidaIgual ==
  ASSUME NEW p, SaleUna(p), UNCHANGED <<colaExit, impresora, saliendo, destruidos>>
  PROVE  Avanza(p)
BY DEF Avanza, SaleUna, HaSalido, EnCola, EnCopia

LEMMA SalidaManda ==
  ASSUME Tipos, NEW p \in Pids, SaleUna(p), NEW q \in Pids, MandaAExit(q),
         UNCHANGED <<impresora, saliendo, destruidos>>, ~HaSalido(q)
  PROVE  SaleUna(p)' /\ (HaSalido(p)' => HaSalido(p) \/ p = q)
<1>1. colaExit \in Seq(Pids) /\ colaExit' = Append(colaExit, q)
  BY DEF MandaAExit, Tipos, TSalida
<1>2. EnCopia(p)' = EnCopia(p)
  BY DEF EnCopia
<1>3. CASE p = q
  <2>1. EnCola(p) = {} /\ EnCopia(p) = {} /\ saliendo # p /\ ~(destruidos[p] > 0)
    BY <1>3 DEF HaSalido
  <2>2. UnaSola(Donde1(Append(colaExit, q), {p}))
    BY <1>1, <2>1, MenguaAgrega DEF EnCola
  <2>. QED  BY <1>1, <1>2, <1>3, <2>1, <2>2 DEF SaleUna, EnCola
<1>4. CASE p # q
  <2>1. Donde1(Append(colaExit, q), {p}) = Donde1(colaExit, {p})
    BY <1>1, <1>4, MenguaAgrega
  <2>2. EnCola(p)' = EnCola(p)
    BY <1>1, <2>1 DEF EnCola
  <2>. QED  BY <1>2, <2>2 DEF SaleUna, HaSalido
<1>. QED  BY <1>3, <1>4

LEMMA SalidaSaca ==
  ASSUME Tipos, NEW p \in Pids, SaleUna(p), SacaDeExit PROVE Avanza(p)
<1>1. UNCHANGED <<impresora, destruidos>> /\ saliendo = Nadie /\ p # Nadie /\ p # Nulo
  BY PidsTipo DEF SacaDeExit, pcpVars
<1>2. EnCopia(p)' = EnCopia(p)
  BY <1>1 DEF EnCopia
<1>3. CASE colaExit = <<>>
  <2>1. saliendo' # p /\ EnCola(p)' = EnCola(p)
    BY <1>1, <1>3 DEF SacaDeExit, vacia, EnCola
  <2>. QED  BY <1>1, <1>2, <2>1 DEF Avanza, SaleUna, HaSalido
<1>4. CASE colaExit # <<>>
  <2>1. /\ colaExit \in Seq(Pids) /\ saliendo' = Head(colaExit) /\ colaExit' = Tail(colaExit)
    BY <1>4 DEF SacaDeExit, vacia, Tipos, TSalida
  <2>2. PICK T : T = {p}
    OBVIOUS
  <2>3. /\ Mengua(Donde1(colaExit, T), Donde1(Tail(colaExit), T))
        /\ Head(colaExit) \in T =>
             /\ Donde1(colaExit, T) # {}
             /\ UnaSola(Donde1(colaExit, T)) => Donde1(Tail(colaExit), T) = {}
    BY <1>4, <2>1, MenguaCabeza
  <2>4. /\ Mengua(EnCola(p), EnCola(p)')
        /\ saliendo' = p => EnCola(p) # {} /\ (UnaSola(EnCola(p)) => EnCola(p)' = {})
    BY <2>1, <2>2, <2>3 DEF EnCola
  <2>. QED  BY <1>1, <1>2, <2>4 DEF Avanza, SaleUna, HaSalido, Mengua
<1>. QED  BY <1>3, <1>4

LEMMA SalidaDestruye ==
  ASSUME Tipos, NEW p \in Pids, SaleUna(p), Destruye PROVE Avanza(p)
<1>1. /\ UNCHANGED <<colaExit, impresora>> /\ saliendo \in Pids /\ saliendo' = Nadie
      /\ destruidos' = [destruidos EXCEPT ![saliendo] = @ + 1]
      /\ destruidos \in [Pids -> Nat] /\ p # Nadie
  BY PidsTipo DEF Destruye, pcpVars, comunes, salida, Tipos, TPrograma
<1>2. EnCola(p)' = EnCola(p) /\ EnCopia(p)' = EnCopia(p)
  BY <1>1 DEF EnCola, EnCopia
<1>3. /\ saliendo = p => destruidos'[p] = destruidos[p] + 1
      /\ saliendo # p => destruidos'[p] = destruidos[p]
      /\ destruidos[p] \in Nat
  BY <1>1
<1>. QED  BY <1>1, <1>2, <1>3 DEF Avanza, SaleUna, HaSalido

LEMMA SalidaImprime ==
  ASSUME Tipos, NEW p \in Pids, SaleUna(p),
         ReponeCola \/ \E hilo \in {"servidor", "despacho"}, cola \in {"ready", "exit"} :
                         VaciaCola(hilo, cola)
  PROVE  Avanza(p)
<1>1. UNCHANGED <<saliendo, destruidos>> /\ colaExit \in Seq(Pids) /\ impresora.pcbs \in Seq(Pids)
  BY DEF ReponeCola, VaciaCola, plpVars, baja, Tipos, TSalida, TImpresora
<1>2. ASSUME EnCola(p)' = EnCola(p), EnCopia(p) = {}, EnCopia(p)' = {} PROVE Avanza(p)
  BY <1>1, <1>2 DEF Avanza, SaleUna, HaSalido
<1>3. ASSUME NEW hilo \in {"servidor", "despacho"}, NEW cola \in {"ready", "exit"},
             VaciaCola(hilo, cola)
      PROVE  Avanza(p)
  <2>1. EnCopia(p) = {}
    BY <1>3 DEF VaciaCola, MutexLibre, Tipos, TImpresora, EnCopia
  <2>2. CASE cola = "ready"
    <3>1. EnCola(p)' = EnCola(p) /\ EnCopia(p)' = {}
      BY <1>3, <2>2 DEF VaciaCola, EnCola, EnCopia
    <3>. QED  BY <1>2, <2>1, <3>1
  <2>3. CASE cola = "exit"
    <3>1. colaExit' = <<>> /\ impresora'.cola = "exit" /\ impresora'.pcbs = colaExit
      BY <1>3, <2>3 DEF VaciaCola
    <3>2. EnCola(p)' = {} /\ EnCopia(p)' = EnCola(p)
      BY <3>1 DEF EnCola, EnCopia, Donde1
    <3>. QED  BY <1>1, <2>1, <3>2 DEF Avanza, SaleUna, HaSalido
  <2>. QED  BY <1>3, <2>2, <2>3
<1>4. CASE ReponeCola
  <2>1. impresora' = SinImpresion /\ EnCopia(p)' = {}
    BY <1>4 DEF ReponeCola, SinImpresion, EnCopia
  <2>2. CASE impresora.cola # "exit"
    <3>1. EnCola(p)' = EnCola(p) /\ EnCopia(p) = {}
      BY <1>4, <2>2 DEF ReponeCola, EnCola, EnCopia
    <3>. QED  BY <1>2, <2>1, <3>1
  <2>3. CASE impresora.cola = "exit"
    <3>1. PICK q \in Seq(Pids), r \in Seq(Pids), T \in SUBSET Pids :
            q = colaExit /\ r = impresora.pcbs /\ T = {p}
      BY <1>1
    <3>2. colaExit' = q \o r
      BY <1>4, <2>3, <3>1 DEF ReponeCola, Repuesta
    <3>3. /\ EnCola(p) = Donde1(q, T) /\ EnCopia(p) = Donde1(r, T)
          /\ EnCola(p)' = Donde1(q \o r, T)
      BY <2>3, <3>1, <3>2 DEF EnCola, EnCopia
    <3>4. /\ Donde1(r, T) = {} => Donde1(q \o r, T) = Donde1(q, T)
          /\ Donde1(q, T) = {} /\ UnaSola(Donde1(r, T)) => UnaSola(Donde1(q \o r, T))
      BY MenguaUne
    <3>. QED  BY <1>1, <2>1, <3>3, <3>4 DEF Avanza, SaleUna, HaSalido
  <2>. QED  BY <2>2, <2>3
<1>. QED  BY <1>3, <1>4

LEMMA SinManda == ASSUME UNCHANGED colaReady, Tipos PROVE ~EnviaPcb
<1>1. SUFFICES ASSUME colaReady # <<>>, colaReady' = Tail(colaReady) PROVE FALSE
  BY DEF EnviaPcb, SacaDeReady
<1>2. colaReady \in Seq(Pids)
  BY DEF Tipos, TListos
<1>. QED  BY <1>1, <1>2

LEMMA AtiendeSalida ==
  ASSUME Tipos, NEW c \in Cpus, Atiende(c)
  PROVE  \/ UNCHANGED <<colaExit, impresora, saliendo, destruidos>>
         \/ \E q \in Pids : Termina(q)
<1>1. CASE OperacionFin(c)
  <2>1. PICK q : q = Pedido(c).pcb
    OBVIOUS
  <2>2. /\ haciaKernel[c] # <<>> /\ haciaKernel[c] \in Seq(AlKernel)
        /\ Pedido(c).op \in {"EXIT", "ERROR"}
    BY <1>1 DEF OperacionFin, Llega, Tipos, TRed
  <2>3. Pedido(c) \in AlKernel
    BY <2>2 DEF Pedido
  <2>4. q \in Pids
    BY <2>1, <2>2, <2>3 DEF AlKernel
  <2>5. MandaAExit(q) /\ UNCHANGED <<impresora, saliendo, destruidos, colaReady>>
    BY <1>1, <2>1 DEF OperacionFin, Ajeno, plpVars, baja, listos
  <2>. QED  BY <1>1, <2>1, <2>4, <2>5 DEF Termina
<1>2. CASE CierraConexion(c)
  <2>1. UNCHANGED <<impresora, saliendo, destruidos, colaReady>>
    BY <1>2 DEF CierraConexion, listos
  <2>2. CASE TeniaPcb(c)
    <3>1. PICK q \in Pids : q = pcbAsignado[c]
      BY <2>2 DEF TeniaPcb, Tipos, TClientes
    <3>2. MandaAExit(q)
      BY <1>2, <2>2, <3>1 DEF CierraConexion
    <3>. QED  BY <1>2, <2>1, <2>2, <3>1, <3>2 DEF Termina
  <2>3. CASE ~TeniaPcb(c)
    BY <1>2, <2>1, <2>3 DEF CierraConexion, salida
  <2>. QED  BY <2>2, <2>3
<1>3. CASE ~OperacionFin(c) /\ ~CierraConexion(c)
  BY <1>3
     DEF Atiende, DescartaPcb, DescartaPedido, OperacionQuantum, OperacionIO, OperacionImprimir,
         OperacionWait, OperacionSignal, OperacionSigusr, MensajeDesfasado, RecibeBloqueado,
         RecibeSolicitud, PcbDesfasado, Cae, Ajeno, plpVars, pcpVars, baja, comunes, salida
<1>. QED  BY <1>1, <1>2, <1>3

LEMMA PasoSalida ==
  ASSUME Tipos, SinCierre, [Next]_vars
  PROVE  (\A p \in Pids : SaleUna(p) => Avanza(p)) \/ \E q \in Pids : Termina(q)
<1>1. ASSUME UNCHANGED <<colaExit, impresora, saliendo, destruidos>>
      PROVE  \A p \in Pids : SaleUna(p) => Avanza(p)
  BY <1>1, SalidaIgual
<1>2. CASE UNCHANGED vars
  BY <1>1, <1>2 DEF vars, plpVars, pcpVars, baja, comunes, salida
<1>3. CASE NextCPU
  BY <1>1, <1>3, CPUAjena DEF plpVars, pcpVars, baja, comunes, salida
<1>4. CASE SacaDeExit \/ Destruye
  BY <1>4, SalidaSaca, SalidaDestruye
<1>5. ASSUME NEW r \in Creaciones, LlegaPrograma(r)
      PROVE  (\A p \in Pids : SaleUna(p) => Avanza(p)) \/ \E q \in Pids : Termina(q)
  <2>1. PICK q \in Pids : q = nroProg + 1
    BY <1>5 DEF LlegaPrograma
  <2>2. UNCHANGED <<impresora, saliendo, destruidos, colaReady>>
    BY <1>5 DEF LlegaPrograma, baja, pcpVars, listos
  <2>3. CASE r = "parcial"
    <3>1. MandaAExit(q)
      BY <1>5, <2>1, <2>3 DEF LlegaPrograma, CrearPCB
    <3>. QED  BY <1>5, <2>1, <2>2, <2>3, <3>1 DEF Termina
  <2>4. CASE r # "parcial"
    BY <1>1, <1>5, <2>2, <2>4 DEF LlegaPrograma, CrearPCB, salida
  <2>. QED  BY <2>3, <2>4
<1>6. CASE \/ EsperaNuevo \/ Admite \/ EnviaMensaje \/ DestruyeNulo
           \/ \E p \in Pids : NotaCierre(p) \/ CierraPrograma(p) \/ CortaPrograma(p)
  BY <1>1, <1>6
     DEF EsperaNuevo, Admite, EnviaMensaje, DestruyeNulo, NotaCierre, CierraPrograma,
         CortaPrograma, Cae, plpVars, pcpVars, baja, comunes, salida
<1>7. CASE \E c \in Cpus : Atiende(c)
  BY <1>1, <1>7, AtiendeSalida
<1>8. CASE \/ \E c \in Cpus : NuevoCliente(c)
           \/ \E d \in Dispositivos : TomaSolicitud(d) \/ TerminaIO(d)
  BY <1>1, <1>8 DEF NuevoCliente, TomaSolicitud, TerminaIO, plpVars, baja, comunes, salida
<1>9. CASE Despacha \/ DescuentaOcioso
  BY <1>1, <1>9
     DEF Despacha, DescuentaOcioso, EsperaReady, EligeOcioso, EnviaPcb, AsignaPcb, DespachaNulo,
         Cae, plpVars, pcpVars, baja, comunes, salida
<1>10. ~FinalizaPcb
  BY DEF FinalizaPcb, EsperaFinaliza, FinalizaBloqueado, FinalizaReady, FinalizaAsignado,
         FinalizaBasura, Finaliza, SinCierre
<1>11. CASE \/ ReponeCola
            \/ \E hilo \in {"servidor", "despacho"}, cola \in {"ready", "exit"} :
                 VaciaCola(hilo, cola)
  BY <1>11, SalidaImprime
<1>. QED
  BY <1>2, <1>3, <1>4, <1>5, <1>6, <1>7, <1>8, <1>9, <1>10, <1>11 DEF Next, NextPLP, NextPCP

-----------------------------------------------------------------------------
(* The one that ends has no PCB left, and no CPU owes it                    *)

\* what has ended before cannot end again: q had a PCB or a CPU owed it
Acaba(q) == /\ q \in Fuera' /\ ~Pendiente(q)'
            /\ q \notin Fuera \/ Pendiente(q)

\* a CPU that owes after the step owed before
SinNuevas == \A c \in Deben' : c \in Deben /\ pcbAsignado'[c] = pcbAsignado[c]

LEMMA LlegaAcaba ==
  ASSUME Tipos, PcbUnico, Debidos, SinNuevas, NEW q \in Pids, q = nroProg + 1,
         "parcial" \in Creaciones, LlegaPrograma("parcial")
  PROVE  Acaba(q)
<1>1. nroProg \in Nat /\ nroProg' = q /\ colaNew' = colaNew /\ ~(q <= nroProg)
  BY DEF LlegaPrograma, CrearPCB, Tipos, TAdmision
<1>2. SinPcb(q)
  BY <1>1 DEF PcbUnico, Conocido, SinPcb
<1>3. SinPcb(q)'
  BY <1>1, <1>2, SinPcbLlega
<1>4. \A c \in Deben : pcbAsignado[c] # q
  BY <1>1 DEF Debidos, Debido
<1>5. ~Pendiente(q)'
  BY <1>4 DEF Pendiente, SinNuevas
<1>. QED  BY <1>1, <1>3, <1>5 DEF Acaba, Fuera

LEMMA FinAcaba ==
  ASSUME Tipos, PcbUnico, Debidos, SinNuevas, NEW d \in Cpus, OperacionFin(d),
         NEW q \in Pids, q = Pedido(d).pcb
  PROVE  Acaba(q)
<1>1. Puestos(SVuelta(d), q) # {} /\ SVuelta(d) \in Sitios /\ SinPcb(q)'
  BY FinSinPcb, SitiosSon
<1>2. q <= nroProg /\ nroProg' = nroProg
  BY <1>1 DEF PcbUnico, Conocido, OperacionFin, Ajeno, plpVars, admision
<1>3. ~SinPcb(q)
  BY <1>1 DEF SinPcb
<1>4. ASSUME NEW e \in Deben', pcbAsignado'[e] = q PROVE FALSE
  <2>1. e \in Deben /\ pcbAsignado[e] = q /\ e \in Cpus
    BY <1>4, DebenTipo DEF SinNuevas
  <2>2. SVuelta(d) \in DeCpu(e)
    BY <1>1, <2>1 DEF Debidos, Debido, Lejos
  <2>3. e = d
    BY <2>2 DEF DeCpu, SVuelta, SEnvio, SCpu
  <2>4. cpuAcerrar' # d /\ d \in fueAsignado' /\ cpuAcerrar' = cpuAcerrar
    BY <1>4, <2>3 DEF Deben, OperacionFin
  <2>. QED  BY <2>4 DEF OperacionFin, QuedaOciosoSalvoCierre, QuedaOcioso
<1>. QED  BY <1>1, <1>2, <1>3, <1>4 DEF Acaba, Fuera, Pendiente

LEMMA CierraAcaba ==
  ASSUME Tipos, PcbUnico, Conectados, Debidos, SinNuevas, NEW c \in Cpus, CierraConexion(c),
         TeniaPcb(c), NEW q \in Pids, q = pcbAsignado[c]
  PROVE  Acaba(q)
<1>1. c \in Deben
  BY DEF Deben, TeniaPcb, CierraConexion
<1>2. q <= nroProg /\ Lejos(c, q)
  BY <1>1 DEF Debidos, Debido
<1>3. /\ nroProg' = nroProg /\ haciaKernel[c] = <<>> /\ UNCHANGED haciaKernel
      /\ haciaCpu' = [haciaCpu EXCEPT ![c] = <<>>] /\ pcb' = [pcb EXCEPT ![c] = Nadie]
  BY DEF CierraConexion, admision
<1>4. haciaCpu'[c] = <<>> /\ pcb'[c] = Nadie /\ haciaKernel'[c] = <<>> /\ q # Nadie
  BY <1>3, PidsTipo DEF Tipos, TRed, TCpu
<1>5. Donde1(<<>>, Lleva(q)) = {} /\ Si(q, {Nadie}) = {}
  BY <1>4 DEF Donde1, Si
<1>6. \A h \in DeCpu(c) : Puestos(h, q)' = {}
  <2>1. Puestos(SEnvio(c), q)' = {}
    BY <1>4, <1>5, PuestosEnvio
  <2>2. Puestos(SCpu(c), q)' = {}
    BY <1>4, <1>5, PuestosCpu
  <2>3. Puestos(SVuelta(c), q)' = {}
    BY <1>4, <1>5, PuestosVuelta
  <2>. QED  BY <2>1, <2>2, <2>3 DEF DeCpu
<1>7. \A h \in Sitios \ DeCpu(c) : Puestos(h, q)' = {}
  BY <1>2, ConexionPcb DEF Lejos, Queda, MenguaEn, Mengua
<1>8. SinPcb(q)'
  BY <1>6, <1>7 DEF SinPcb
<1>9. c \notin Deben'
  BY CierraConectado DEF Deben
<1>10. ~Pendiente(q)'
  BY <1>1, <1>9 DEF Pendiente, Debidos, SinNuevas
<1>. QED  BY <1>1, <1>2, <1>3, <1>8, <1>10 DEF Acaba, Fuera, Pendiente

LEMMA TerminaAcaba ==
  ASSUME Tipos, PcbUnico, Conectados, Debidos, SinNuevas, NEW q \in Pids, Termina(q)
  PROVE  Acaba(q)
BY LlegaAcaba, FinAcaba, CierraAcaba DEF Termina

-----------------------------------------------------------------------------
(* The invariant: it holds while there is one announcement, and there was   *)
(* no other before                                                          *)

\* While one CPU at most has announced that it closes, a process leaves once.
Salidas == Unico => Debidos /\ \A p \in Pids : SalidaBien(p)

\* an announcement is never taken back
LEMMA CerrarCrece == ASSUME Tipos, [Next]_vars PROVE cerrarCPU \subseteq cerrarCPU'
<1>1. CASE UNCHANGED vars
  BY <1>1 DEF vars, cpus
<1>2. CASE NextPLP
  BY <1>2
     DEF NextPLP, LlegaPrograma, NotaCierre, EsperaNuevo, Admite, EnviaMensaje, SacaDeExit,
         Destruye, DestruyeNulo, CierraPrograma, CortaPrograma, Cae, cpus
<1>3. CASE NextCPU
  BY <1>3
     DEF NextCPU, Corre, RecibePcb, RecibeBasura, RecibeRespuesta, Nada, Imprimir, Falla,
         Finalizar, AnsisopWait, AnsisopSignal, EntradaSalida, CambioContexto, Sigusr1, CaeCpu,
         Instruccion
<1>4. CASE \E c \in Cpus : NuevoCliente(c) \/ Atiende(c)
  BY <1>4
     DEF NuevoCliente, Atiende, DescartaPcb, DescartaPedido, OperacionQuantum, OperacionIO,
         OperacionFin, OperacionImprimir, OperacionWait, OperacionSignal, OperacionSigusr,
         MensajeDesfasado, RecibeBloqueado, RecibeSolicitud, PcbDesfasado, CierraConexion, Cae,
         Ajeno, cpus
<1>5. CASE Despacha \/ DescuentaOcioso
  BY <1>5
     DEF Despacha, DescuentaOcioso, EsperaReady, EligeOcioso, EnviaPcb, AsignaPcb, DespachaNulo,
         Cae, cpus
<1>6. CASE \/ FinalizaPcb \/ ReponeCola
           \/ \E d \in Dispositivos : TomaSolicitud(d) \/ TerminaIO(d)
           \/ \E hilo \in {"servidor", "despacho"}, cola \in {"ready", "exit"} :
                VaciaCola(hilo, cola)
  BY <1>6
     DEF FinalizaPcb, ReponeCola, TomaSolicitud, TerminaIO, VaciaCola, EsperaFinaliza,
         FinalizaBloqueado, FinalizaReady, FinalizaAsignado, FinalizaBasura, Finaliza, Cae, cpus
<1>. QED  BY <1>1, <1>2, <1>3, <1>4, <1>5, <1>6 DEF Next, NextPCP

\* No step makes a CPU owe what has ended.
LEMMA FueraSinDeuda ==
  ASSUME Tipos, SinCierre, PcbUnico, Duenios, Unico, Anuncios, Conectados, Debidos, [Next]_vars,
         "envio" \notin Carreras, NEW p \in Pids, p \in Fuera, ~Pendiente(p)
  PROVE  ~Pendiente(p)'
<1>1. SUFFICES ASSUME NEW c \in Deben', pcbAsignado'[c] = p PROVE FALSE
  BY DEF Pendiente
<1>2. (c \in Deben /\ pcbAsignado'[c] = pcbAsignado[c]) \/ ~SinPcb(p)
  <2>1. CASE EnviaPcb
    BY <1>1, <2>1, EnviaDebidos
  <2>2. CASE ~EnviaPcb
    BY <1>1, <2>2, DebenMengua DEF Duenios
  <2>. QED  BY <2>1, <2>2
<1>. QED  BY <1>1, <1>2 DEF Pendiente, Fuera

LEMMA NextSalidas ==
  ASSUME Cuentas, PcbUnico, Duenios, Anuncios, Conectados, Salidas, [Next]_vars,
         "envio" \notin Carreras
  PROVE  Salidas'
<1>1. Tipos /\ SinCierre
  BY DEF Cuentas
<1>2. SUFFICES ASSUME Unico' PROVE Debidos' /\ \A p \in Pids : SalidaBien(p)'
  BY DEF Salidas
<1>3. Unico
  BY <1>1, <1>2, CerrarCrece DEF Unico, UnaSola
<1>4. Debidos /\ \A p \in Pids : SalidaBien(p)
  BY <1>3 DEF Salidas
<1>5. Debidos'
  BY <1>1, <1>3, <1>4, NextDebidos
<1>6. ASSUME NEW p \in Pids, HaSalido(p) PROVE p \in Fuera' /\ ~Pendiente(p)'
  <2>1. p \in Fuera /\ ~Pendiente(p)
    BY <1>4, <1>6 DEF SalidaBien
  <2>. QED  BY <1>1, <1>3, <1>4, <2>1, FueraCrece, FueraSinDeuda
<1>7. CASE \A p \in Pids : SaleUna(p) => Avanza(p)
  BY <1>4, <1>5, <1>6, <1>7 DEF SalidaBien, Avanza
<1>8. ASSUME NEW q \in Pids, Termina(q) PROVE \A p \in Pids : SalidaBien(p)'
  <2>1. SinNuevas
    <3>1. ~EnviaPcb
      BY <1>1, <1>8, SinManda DEF Termina
    <3>. QED  BY <1>1, <1>3, <3>1, DebenMengua DEF Duenios, SinNuevas
  <2>2. Acaba(q)
    BY <1>1, <1>4, <1>8, <2>1, TerminaAcaba
  <2>3. ~HaSalido(q)
    BY <1>4, <2>2 DEF SalidaBien, Acaba
  <2>4. MandaAExit(q) /\ UNCHANGED <<impresora, saliendo, destruidos>>
    BY <1>8 DEF Termina
  <2>5. ASSUME NEW p \in Pids PROVE SalidaBien(p)'
    <3>1. SaleUna(p)' /\ (HaSalido(p)' => HaSalido(p) \/ p = q)
      BY <1>1, <1>4, <2>3, <2>4, SalidaManda DEF SalidaBien
    <3>. QED  BY <1>6, <2>2, <3>1 DEF SalidaBien, Acaba
  <2>. QED  BY <2>5
<1>. QED  BY <1>1, <1>5, <1>7, <1>8, PasoSalida

LEMMA InitSalidas == Init => Salidas
<1>. SUFFICES ASSUME Init PROVE Debidos /\ \A p \in Pids : SalidaBien(p)
  BY DEF Salidas
<1>1. /\ listaClientes = <<>> /\ colaExit = <<>> /\ impresora.pcbs = <<>> /\ saliendo = Nadie
      /\ \A p \in Pids : destruidos[p] = 0
  BY DEF Init, InitPLP, InitPCP, SinImpresion
<1>2. Debidos
  BY <1>1 DEF Debidos, Deben, Range
<1>3. ASSUME NEW p \in Pids PROVE SalidaBien(p)
  <2>1. EnCola(p) = {} /\ EnCopia(p) = {} /\ saliendo # p /\ destruidos[p] = 0
    BY <1>1, PidsTipo DEF EnCola, EnCopia, Donde1
  <2>. QED  BY <2>1 DEF SalidaBien, SaleUna, HaSalido, UnaSola
<1>. QED  BY <1>2, <1>3

-----------------------------------------------------------------------------
(* The places of Donde, with what is leaving                                *)

\* the places of Donde where p is leaving the system
Saliendo(p) == {l \in Donde(p) : l[1] \in {"exit", "saliendo"}}

LEMMA SaliendoDe ==
  ASSUME Tipos, NEW p \in Pids, NEW l \in Saliendo(p)
  PROVE  \/ \E k \in EnCola(p) : l = <<"exit", k>>
         \/ \E k \in EnCopia(p) : l = <<"exit", "impresora", k>>
         \/ saliendo = p /\ l = <<"saliendo", 0>>
<1>1. l \in Donde(p) /\ l[1] \in {"exit", "saliendo"}
  BY DEF Saliendo
<1>2. CASE l \in {<<"exit", k>> : k \in {j \in DOMAIN colaExit : colaExit[j] = p}}
  BY <1>2 DEF EnCola, Donde1
<1>3. CASE l \in {<<impresora.cola, "impresora", k>> :
                    k \in {j \in DOMAIN impresora.pcbs : impresora.pcbs[j] = p}}
  <2>1. PICK k \in DOMAIN impresora.pcbs :
          impresora.pcbs[k] = p /\ l = <<impresora.cola, "impresora", k>>
    BY <1>3
  <2>2. impresora.cola = "exit"
    BY <1>1, <2>1 DEF Tipos, TImpresora
  <2>. QED  BY <2>1, <2>2 DEF EnCopia, Donde1
<1>4. CASE l \in {<<"saliendo", 0>> : x \in {saliendo} \cap {p}}
  BY <1>4
<1>5. CASE \/ l \in {<<"new", 0>> : x \in colaNew \cap {p}}
           \/ l \in {<<"ready", k>> : k \in {j \in DOMAIN colaReady : colaReady[j] = p}}
           \/ l \in {<<"bloqueado", k>> :
                       k \in {j \in DOMAIN listaBloqueados : listaBloqueados[j].pcb = p}}
           \/ l \in {<<"cpu", c>> : c \in {d \in Cpus : pcb[d] = p}}
           \/ l \in {<<"io", d>> : d \in {e \in Dispositivos : enCurso[e] = p}}
  <2>1. l[1] \notin {"exit", "saliendo"}
    BY <1>5
  <2>. QED  BY <1>1, <2>1
<1>6. CASE \/ l \in UNION {{<<"envio", c, k>> :
                               k \in {j \in DOMAIN haciaCpu[c] : haciaCpu[c][j].pcb = p}}
                              : c \in Range(listaClientes)}
           \/ l \in UNION {{<<"vuelta", c, k>> :
                               k \in {j \in DOMAIN haciaKernel[c] : haciaKernel[c][j].pcb = p}}
                              : c \in Cpus}
           \/ l \in UNION {{<<"solicitud", d, k>> :
                               k \in {j \in DOMAIN colaSolicitudes[d] : colaSolicitudes[d][j] = p}}
                              : d \in Dispositivos}
  <2>1. l[1] \notin {"exit", "saliendo"}
    BY <1>6
  <2>. QED  BY <1>1, <2>1
<1>. QED  BY <1>1, <1>2, <1>3, <1>4, <1>5, <1>6, Zenon DEF Donde

LEMMA SalidasUno ==
  ASSUME Tipos, PcbUnico, NEW p \in Pids, SalidaBien(p)
  PROVE  Cardinality(Donde(p)) + destruidos[p] <= 1
<1>1. Donde(p) = EnSistema(p) \cup Saliendo(p)
  BY DEF EnSistema, Saliendo
<1>2. destruidos[p] \in Nat /\ SaleUna(p)
  BY DEF Tipos, TPrograma, SalidaBien
<1>3. CASE ~HaSalido(p)
  <2>1. destruidos[p] = 0 /\ Saliendo(p) = {}
    BY <1>2, <1>3, SaliendoDe DEF HaSalido
  <2>2. Donde(p) = EnSistema(p)
    BY <1>1, <2>1
  <2>3. Cardinality(Donde(p)) \in 0..1
    BY <2>2, SistemaUno, CuentaUna
  <2>. QED  BY <2>1, <2>3
<1>4. CASE HaSalido(p)
  <2>1. SinPcb(p)
    BY <1>4 DEF SalidaBien, Fuera
  <2>2. EnSistema(p) = {}
    BY <2>1, LugarDe DEF SinPcb
  <2>3. UnaSola(Saliendo(p)) /\ (destruidos[p] > 0 => Saliendo(p) = {})
    BY <1>2, SaliendoDe DEF SaleUna, UnaSola
  <2>4. Cardinality(Donde(p)) \in 0..1 /\ (destruidos[p] > 0 => Cardinality(Donde(p)) = 0)
    BY <1>1, <2>2, <2>3, CuentaUna
  <2>. QED  BY <1>2, <2>4 DEF SaleUna
<1>. QED  BY <1>3, <1>4

LEMMA SalidasBastan ==
  Tipos /\ PcbUnico /\ Anuncios /\ Salidas => NoSeDuplicaConUnCierre
<1>. SUFFICES ASSUME Tipos, PcbUnico, Anuncios, Salidas, Cardinality(cerrarCPU) <= 1
              PROVE  NoSeDuplica
  BY DEF NoSeDuplicaConUnCierre
<1>1. Unico
  BY UnicoCuenta DEF Anuncios, Unico
<1>. QED  BY <1>1, SalidasUno DEF Salidas, NoSeDuplica

\* While no program is closed before its end and the fields of the client are
\* written before its answer can be handled, whatever CPU dies, in the middle of
\* a burst too, and whatever queue is being printed, a process is in one place
\* of the Kernel and its memory is given back once, as long as one CPU at most
\* has announced its close: the process that cerrarConexionCliente sends to
\* colaExit is the one that the lost CPU still owed, and no other thread has it.
THEOREM NoSeDuplicaConUnCierreSiempre ==
  ASSUME "programa" \notin Cortes, "envio" \notin Carreras
  PROVE  Spec => []NoSeDuplicaConUnCierre
<1>1. Cuentas /\ PcbUnico /\ Duenios /\ [Next]_vars => Duenios'
  BY NextDuenio
<1>2. Tipos /\ Anuncios /\ [Next]_vars => Anuncios'
  BY NextAnuncios
<1>3. Tipos /\ Conectados /\ [Next]_vars => Conectados'
  BY NextConectados
<1>4. Cuentas /\ PcbUnico /\ Duenios /\ Anuncios /\ Conectados /\ Salidas /\ [Next]_vars => Salidas'
  BY NextSalidas
<1>5. Tipos /\ PcbUnico /\ Anuncios /\ Salidas => NoSeDuplicaConUnCierre
  BY SalidasBastan
<1>. QED
  BY <1>1, <1>2, <1>3, <1>4, <1>5, InitDuenio, InitAnuncios, InitConectados, InitSalidas,
     SpecCuentas, SpecPcb, PTL DEF Spec
=============================================================================
