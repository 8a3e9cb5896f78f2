-------------------------------- MODULE CPU --------------------------------
(***************************************************************************)
(* A CPU as the PCP sees it: it receives a PCB, runs a burst of            *)
(* instructions, asks the Kernel for what the primitives need and sends    *)
(* the PCB back (CPU.c, Cliente.c, Primitivas.c).  The primitives that     *)
(* only talk to the UMV are the instruction "nada".                        *)
(***************************************************************************)
EXTENDS KernelDatos

InitCPU ==
  /\ cpu = [c \in Cpus |-> "apagada"] /\ pcb = [c \in Cpus |-> Nadie]
  /\ operacion = [c \in Cpus |-> "QUANTUM"] /\ rafaga = [c \in Cpus |-> 0]
  /\ cerrarCPU = {} /\ restan = [p \in Pids |-> MaxInstr]
  /\ haciaCpu = [c \in Cpus |-> <<>>] /\ haciaKernel = [c \in Cpus |-> <<>>]

Pide(c, m) == haciaKernel' = [haciaKernel EXCEPT ![c] = Append(@, m)]

\* RecibirPCB, and operacion = QUANTUM of the first turn of the burst
RecibePcb(c) ==
  /\ cpu[c] = "espera" /\ haciaCpu[c] # <<>> /\ Head(haciaCpu[c]).pcb # Nadie
  /\ haciaCpu' = [haciaCpu EXCEPT ![c] = Tail(@)]
  /\ cpu' = [cpu EXCEPT ![c] = "corre"]
  /\ pcb' = [pcb EXCEPT ![c] = Head(haciaCpu[c]).pcb]
  /\ rafaga' = [rafaga EXCEPT ![c] = Quantum]
  /\ operacion' = [operacion EXCEPT ![c] = "QUANTUM"]
  /\ UNCHANGED <<cerrarCPU, restan, haciaKernel, plpVars, pcpVars, comunes, kernel>>

\* an answer to WAIT that comes too late is taken for a PCB: the fields read
\* are not those of a process and the UMV rejects the first request
RecibeBasura(c) ==
  /\ cpu[c] = "espera" /\ haciaCpu[c] # <<>> /\ Head(haciaCpu[c]).pcb = Nadie
  /\ haciaCpu' = [haciaCpu EXCEPT ![c] = Tail(@)]
  /\ cpu' = [cpu EXCEPT ![c] = "cerrada"]
  /\ UNCHANGED <<pcb, operacion, rafaga, cerrarCPU, restan, haciaKernel, plpVars, pcpVars,
                 comunes, kernel>>

\* the burst goes on while operacion is QUANTUM and there are turns left
Sigue(c) ==
  /\ rafaga' = [rafaga EXCEPT ![c] = @ - 1]
  /\ cpu' = [cpu EXCEPT ![c] = IF rafaga[c] = 1 THEN "desaloja" ELSE "corre"]

\* one more instruction of the program that c runs
Instruccion(c, i) ==
  /\ cpu[c] = "corre" /\ i \in Instrucciones /\ restan[pcb[c]] > 0
  /\ restan' = [restan EXCEPT ![pcb[c]] = @ - 1]
  /\ UNCHANGED <<pcb, cerrarCPU, haciaCpu, plpVars, pcpVars, comunes, kernel>>

Nada(c) ==
  /\ Instruccion(c, "nada")
  /\ Sigue(c)
  /\ UNCHANGED <<operacion, haciaKernel>>

Imprimir(c) ==
  /\ Instruccion(c, "imprimir")
  /\ Pide(c, Texto(pcb[c]))
  /\ Sigue(c)
  /\ UNCHANGED operacion

AnsisopSignal(c, s) ==
  /\ Instruccion(c, "signal")
  /\ Pide(c, Mensaje("SIGNAL", Nadie, s))
  /\ Sigue(c)
  /\ UNCHANGED operacion

AnsisopWait(c, s) ==
  /\ Instruccion(c, "wait")
  /\ Pide(c, Mensaje("WAIT", Nadie, s))
  /\ cpu' = [cpu EXCEPT ![c] = "respuesta"]
  /\ UNCHANGED <<operacion, rafaga>>

\* any answer but NOTHING ends the burst (a PCB is sent as NOTHING too)
RecibeRespuesta(c) ==
  LET op == Head(haciaCpu[c]).op
  IN  /\ cpu[c] = "respuesta" /\ haciaCpu[c] # <<>>
      /\ haciaCpu' = [haciaCpu EXCEPT ![c] = Tail(@)]
      /\ IF op = "NOTHING"
           THEN Sigue(c) /\ UNCHANGED operacion
           ELSE /\ operacion' = [operacion EXCEPT ![c] = op]
                /\ cpu' = [cpu EXCEPT ![c] = "desaloja"]
                /\ UNCHANGED rafaga
      /\ UNCHANGED <<pcb, cerrarCPU, restan, haciaKernel, plpVars, pcpVars, comunes, kernel>>

EntradaSalida(c, d) ==
  /\ Instruccion(c, "io")
  /\ Pide(c, Mensaje("IO", Nadie, d))
  /\ operacion' = [operacion EXCEPT ![c] = "IO"]
  /\ cpu' = [cpu EXCEPT ![c] = "desaloja"]
  /\ UNCHANGED rafaga

\* a reference the UMV rejects
Falla(c) ==
  /\ Instruccion(c, "error")
  /\ operacion' = [operacion EXCEPT ![c] = "ERROR"]
  /\ cpu' = [cpu EXCEPT ![c] = "desaloja"]
  /\ UNCHANGED <<rafaga, haciaKernel>>

\* finalizar in the main context; a program may be shorter than the bound
Finalizar(c) ==
  /\ cpu[c] = "corre"
  /\ operacion' = [operacion EXCEPT ![c] = "EXIT"]
  /\ cpu' = [cpu EXCEPT ![c] = "desaloja"]
  /\ UNCHANGED <<pcb, rafaga, cerrarCPU, restan, red, plpVars, pcpVars, comunes, kernel>>

CambioContexto(c) ==
  /\ cpu[c] = "desaloja"
  /\ Pide(c, Mensaje(operacion[c], pcb[c], SinArg))
  /\ cpu' = [cpu EXCEPT ![c] = IF c \in cerrarCPU THEN "cerrada" ELSE "espera"]
  /\ pcb' = [pcb EXCEPT ![c] = Nadie]
  /\ UNCHANGED <<operacion, rafaga, cerrarCPU, restan, haciaCpu, plpVars, pcpVars,
                 comunes, kernel>>

-----------------------------------------------------------------------------
(* sig_handler: with no PCB the CPU closes at once, else after the burst   *)

Sigusr1(c) ==
  /\ "sigusr1" \in Cortes
  /\ \/ /\ cpu[c] = "espera"
        /\ cpu' = [cpu EXCEPT ![c] = "cerrada"]
        /\ UNCHANGED <<cerrarCPU, haciaKernel>>
     \/ /\ cpu[c] \in {"corre", "respuesta", "desaloja"} /\ c \notin cerrarCPU
        /\ cerrarCPU' = cerrarCPU \cup {c}
        /\ Pide(c, Mensaje("SIGUSR", Nadie, SinArg))
        /\ UNCHANGED cpu
  /\ UNCHANGED <<pcb, operacion, rafaga, restan, haciaCpu, plpVars, pcpVars, comunes,
                 kernel>>

\* the process dies, or leaves main because RecrearDiccionario failed; the
\* PCB it holds dies with the connection
CaeCpu(c) ==
  /\ "cpu" \in Cortes /\ cpu[c] \notin {"apagada", "cerrada"}
  /\ cpu' = [cpu EXCEPT ![c] = "cerrada"]
  /\ UNCHANGED <<pcb, operacion, rafaga, cerrarCPU, restan, red, plpVars, pcpVars, comunes,
                 kernel>>

\* what the CPU does of its own accord
Corre(c) ==
  \/ RecibePcb(c) \/ RecibeBasura(c) \/ RecibeRespuesta(c)
  \/ Nada(c) \/ Imprimir(c) \/ Falla(c) \/ Finalizar(c)
  \/ \E s \in Semaforos : AnsisopWait(c, s) \/ AnsisopSignal(c, s)
  \/ \E d \in Pedidos : EntradaSalida(c, d)
  \/ CambioContexto(c)

NextCPU == \E c \in Cpus : Corre(c) \/ Sigusr1(c) \/ CaeCpu(c)
=============================================================================
