# BreakingC in TLA+

BreakingC simulates a small operating system with four kinds of process that
talk over TCP: a **Kernel** (long and short term schedulers), a **UMV** (the
memory), any number of **CPU**s that interpret ANSISOP programs, and one
**Programa** per user program. This directory is a model of its core logic: the
memory's segment list with its compaction, the contents of its segments and the
threads that serve them, the Kernel with the CPUs and programs connected to it, and
the stack a CPU keeps in the memory for the program it runs.

## 1. Inventory

### UMV memory (`UMV/funcionesDeUMV.c`, `UMV/compactacion.c`)

- **State**: `listaSegmentos`, a linked list in address order whose element 0
  (the *nodo cero*) is not a segment but holds the free memory counter in its
  `size`; `tipoAlgoritmo`; the mutex `escribirListaUMV`.
- **Operations**: `crearSegmento` (first fit or worst fit, then a new segment at
  the end, then compaction and a second pass, then -1), `destruirSegmento`
  (every segment of a pid becomes a hole), `compactacion` (moves each reserved
  segment into the hole before it, consuming the holes in between, then returns
  the holes to the nodo cero and removes them), `solicitarBytes`, `enviarBytes`,
  `cambiarAlgoritmo`.
- **Interaction**: called by one thread per connection (Kernel, CPUs) and by the
  console, under the mutex except for the second pass and `cambiarAlgoritmo`.
  Compaction copies every segment it moves with `memcpy`; offsets and sizes are
  `uint32_t`.
- **Hard**: compaction edits `base`, `mem` and `size` of three nodes at a time
  inside two nested loops with `goto`, and looks up the node to remove by value;
  the invariant everybody relies on (segments tile the memory) is broken and
  restored in the middle of it.
- **Correct when**: segments never overlap, no byte is lost or counted twice,
  compaction is invisible to the programs, a read returns what was last written
  there, a request is refused only for lack of memory, every call returns.

### UMV server (`UMV/UMV_Servidor/UMV_Servidor.c`) and its clients

- **State**: for each connection a thread with `tipoProceso` and `procesoActivo`;
  the mutex `escribirListaUMV`, `tipoAlgoritmo` and the list are shared.
- **Operations**: SOLICITAR_BYTES, ENVIAR_BYTES, HANDSHAKE, CAMBIO_PROC_ACTIVO,
  CREAR_SEGMENTO, DESTRUIR_SEGMENTO; HANDSHAKE and CAMBIO_PROC_ACTIVO have no answer.
- **Interaction**: `enviarOperacion` (`Libraries/comun/UMV_Structs.c`) writes a request
  and reads the answer in two reads, a header and a body (`Libraries/sockets/Socket.c`).
  The Kernel has one connection for two threads (`crearPCB`, `vaciarColaExit`), each
  CPU has its own, the console calls the operations itself.
- **Hard**: the mutex is dropped and taken by other functions in the middle of
  `crearSegmento`; the console changes `tipoAlgoritmo` between two tests of it; two
  readers of one socket; a CPU dies with a request under way.
- **Correct when**: one thread at a time is on the list, each request is served for
  the process its client runs, each answer reaches who asked, every request is
  answered, a program on a CPU is refused its own segments only when the operator
  destroyed them.

### Kernel: PLP (`Kernel/PLP`)

- **State**: `colaNew`, `colaExit`, `colaImprimibles`,
  `listaClientesProgramas`, the semaphores `semNuevoProg`, `semMultiProg`,
  `semProgExit`, `semMensajeImpresion`, the mutex `mutex_exit`.
- **Operations / threads**: the server of the programs (`serverPLP`: new
  program, `crearPCB`, closed program), `comienzaPLP` (admission, lightest
  first), `mensajesPrograma` (prints and ends), `vaciarColaExit` (releases the
  memory of ended processes).
- **Hard**: four threads and the PCP share the queues; `mutex_exit` is used as a
  binary semaphore by threads that do not own it.
- **Correct when**: at most MULTIPROGRAMACION processes are admitted, memory is
  released exactly once, a program hears of its end once and after all its
  output.

### Kernel: PCP (`Kernel/PCP`)

- **State**: `colaReady`, `listaClientes` (the connected CPUs with
  `pcbAsignado`, `fueAsignado`, `programaCerrado`), `cpuAcerrar`, the ANSISOP
  semaphores with `listaBloqueados`, the queues of the devices, shared variables,
  `semNuevoPcbColaReady`, `semClienteOcioso`, `semProgramaFinaliza`.
- **Operations / threads**: `server_cpu` (QUANTUM, IO, EXIT, ERROR, IMPRIMIR,
  WAIT, SIGNAL, SIGUSR, shared variables, disconnection), `hiloClienteOcioso`
  (gives PCBs to idle CPUs), one `hiloPorIO` per device, `hiloPCBaFinalizar`
  (ends the process of a program that was closed).
- **Hard**: fields of a client are written by two threads, semaphores count
  things that lists also say, a PCB travels outside any queue between messages,
  CPUs and programs go away at any time.
- **Correct when**: each process has one PCB in one place until it ends, each
  semaphore counts what it stands for, no thread pops an empty queue, the degree
  is given back once per process.

### CPU (`CPU/src`)

- **State**: the PCB it runs, what is left of the quantum, `operacion`,
  `cerrarCPU`, the dictionary of variables, the cursor of the stack.
- **Operations**: receive a PCB, run up to QUANTUM instructions, ask the Kernel
  (WAIT, SIGNAL, IO, IMPRIMIR, shared variables) or the UMV, send the PCB back
  (`CambioContexto`), close on SIGUSR1.
- **Correct when**: it gives back exactly the PCB it was given, once, with the
  reason; its requests and its last message are never confused.

### CPU primitives (`CPU/src/Primitivas.c`)

- **State**: in the PCB `seg_stack`, `cursor_stack`, `tamanio_contexto`, `PC`; in the
  stack segment of the UMV 5 bytes per variable (its name and an int) and, per call, the
  cursor and PC to come back to and where the result goes; `dic_variables`, from names
  to offsets, which dies with each burst.
- **Operations**: define, assign and read a variable, jump, call with and without a
  result, return, end; `RecrearDiccionario` rebuilds the dictionary from the stack.
- **Hard**: the dictionary, the cursor and the bytes say the same thing three times;
  a program goes on in another CPU at any line; the UMV's error is the first byte of
  the answer being -1, which data may be too.
- **Correct when**: a program sees a stack of contexts, each with its own variables.

### The rest

Programa (`Programa/src`: sends its code, prints, ends), the UMV console (parses
commands and calls the memory), the socket library, serialisation
(`Libraries/comun/Structs.c`).

## 2. Modules

| Module | What it models |
|---|---|
| `Listas` | the list operations of the commons library that the code uses: insert after a position, remove a position, first position of a set |
| `UMVMemoria` | the segment list under `escribirListaUMV`: `crearSegmento`, `destruirSegmento`, `compactacion`, the console |
| `MCUMVMemoria` | its instances, and the properties that sum sizes |
| `UMVMemoriaPruebas` | proofs about `UMVMemoria`: types, the tiling, the identities of the segments, the node the compaction stands on |
| `MemoriaAbstracta` | what the UMV promises: files named by (pid, base), reads and writes, with no addresses, no list and no compaction |
| `UMVBytes` | `UMVMemoria` with the contents of the memory: `solicitarBytes`, `enviarBytes`, the copies of `compactacion` |
| `MCUMVBytes` | its instances |
| `UMVBytesPruebas` | proofs about `UMVBytes`: the compaction carries the bytes, and it implements `MemoriaAbstracta` |
| `UMVServidor` | the threads of the UMV, the mutex, the two passes of `crearSegmento`, the console, and the clients behind the sockets |
| `MCUMVServidor` | its instances |
| `UMVServidorPruebas` | proofs about `UMVServidor`: types, mutual exclusion, the connection of a CPU, the Kernel's connection and the life of a program, the owner of each answer |
| `PilaAbstracta` | what a CPU promises a program: a stack of contexts |
| `PilaCPU` | the stack primitives and the main loop of the CPU for one program |
| `MCPilaCPU` | its instances |
| `PilaCPUPruebas` | proofs about `PilaCPU`: types, the dictionary, the ends by ERROR, the return of a call, and that it implements `PilaAbstracta` |
| `Planificador` | what the Kernel promises when nothing fails: a scheduler whose every operation is one step |
| `PlanificadorPruebas` | proofs about `Planificador`: one place per process, and the places of the degree |
| `KernelDatos` | the state shared by the Kernel's threads, the CPUs and the sockets; what every handler does to the queues |
| `PLP`, `PCP`, `CPU` | the actions of each |
| `Kernel` | the composition, its fairness and its properties |
| `MCKernel` | its instances |
| `KernelPruebas` | proofs about `Kernel`: types, the semaphore of the ready queue, the processes blocked on each semaphore |
| `KernelSinFallas` | proofs about `Kernel` when nothing fails: the conversation of each CPU, the idle clients, no crash, and that it implements `Planificador` |
| `KernelProcesos` | proofs about where `Kernel` keeps each process: when nothing fails, none lost, none twice, the degree; with what fails, one PCB each, the degree, whose text is printed, the last message, each process leaving once |

### UMVMemoria

`segs` is the list without the nodo cero, `libre` is the nodo cero's `size`.
A segment is `[pid, base, mem, size, res]`: `posInicial`, the offset of
`inicio_segmento` from the big malloc, `size`, `isReservado`. `fase` is where the
thread that holds the mutex stands; `crearSegmento` is one action per outcome of
each of its passes and `compactacion` one action per turn of its loops, with its
locals in `nodo`, `ocupado`, `siguiente`, `dif`, `cant`, `vuelta`. The positions
stand for the C pointers: when a node is removed, those behind it move by one
(`Baja`). Each arm of the `if` chain of lines 55-291 is an action, named after
what it does, with the line numbers beside it.

The arithmetic is the code's, including three places where it is not what it
seems to be: line 80 subtracts a size from itself (the moved segment keeps the size
of the hole), lines 256-262 look for the consumed hole by `posInicial` and `size`,
and lines 275-281 compare `posInicial` with a size. The last two may remove another
node or none. The history variable `desvio` becomes 1 when that happens; properties
that cannot hold afterwards are stated for `desvio = 0`. What happens on that path
TLC shows with the guards taken away: a segment of a program is removed from the list
with the hole, or a hole is kept and its bytes are counted twice.

`_borrarSegmentos` removes and frees nodes of the list `list_iterate` is walking.
The `next` field of a node just freed is still readable in the builds of the
project, so the walk goes on; the model follows that.

### UMVBytes and MemoriaAbstracta

`bytes` is the big malloc. `Copia` is the `memcpy` of each arm of `compactacion` that
moves a segment; source and destination overlap when the hole is smaller than the
segment, which C leaves undefined, so `Sentidos` says in which directions the library
may copy. With `"atras"` (last byte first) TLC loses bytes: that is the deviation
`CopiaAtras`. The runs and proofs are for a copy from the first byte, what a `memcpy`
to a lower address does in the builds of the project. The checks of `solicitarBytes`
and `enviarBytes` add in `Limite` = 2^32; `fuera` records that the sum of
funcionesDeUMV.c:171 has wrapped and bytes were written outside the segment.

`MemoriaAbstracta` has files `[pid, base, datos]`. The mapping takes each reserved
segment to its file, except the moved segment's old node while holes are consumed (it
is in the list twice then). A `posInicial` may be given twice to one program, because
a moved segment keeps its own; those names go to `repetidos`, of which nothing is
promised until their owner is destroyed.

### UMVServidor

Each connection has a thread with `tipo`, `activo`, the request at hand (`pedido`) and,
inside `crearSegmento`, the locals of its two passes (`pasada`: `i`, `yaCompacte`,
`noHiceNada`). `hilo[h]` is where the thread stands: `test1` is line 253 (worst fit),
`test2` line 309 (first fit), `resto` line 349, `compactar` after the unlock of line
368, `compacta` inside `compactacion`. The mutex is opened by whoever unlocks it, as a
default `pthread_mutex_t` does. The list is the set of the (program, segment) pairs;
whether a new segment fits is a free choice, since `UMVMemoria` says when it does.

The clients are the conversation of `crearPCB` (`Guion`), `vaciarColaExit`, and CPUs
that take a PCB, ask for bytes of the code and of the stack, and give the PCB back or
die. An answer is two pieces, header and body; a thread of the Kernel that finds a piece
that is not the one it waits for is lost (`"perdida"`).

A request names a segment, or `"fuera"`: bytes that are not all inside one, which
`solicitarBytes` and `enviarBytes` refuse although the segment is there
(funcionesDeUMV.c:68-106, 171). The operator types commands about any program, one that
is being created or runs on a CPU included; `borrados` are the programs whose segments a
command has destroyed.

`mutex_exit` is the Kernel's, and is here because of what `vaciarColaExit` asks the UMV
for: it takes it before each DESTRUIR_SEGMENTO and never opens it. `AbreExit` is an unlock
by whoever ends a program: `MensajesPrograma`, when it sends a program its last message
(`avisos` counts those of `colaImprimibles`), or the server, when a CPU dies with a
program. An unlock that finds it open changes nothing, and `perdidos` counts those.

### PilaCPU and PilaAbstracta

One program, whatever CPU runs it: `RecibirPCB` and `CambioContexto` end and begin a
burst after any line. `pila` is the stack segment byte by byte, where an int is four
bytes `<<"entero", v, i>>` and a name is one: four bytes that are not those of one int
read as any of `Azar`, the same bytes never compare equal by chance. `MenosUno` says
when the first byte of an answer is 0xFF. A program that asks for a variable its
function has not defined is not modelled (the parser gives no such guarantee, the
language does); one that loses a variable it did define reads a `NULL` (`SinVariable`).

`PilaAbstracta` is a sequence of contexts with their variables. `Marcos` rebuilds it
from the cursor, the bytes and the dictionary. Its promise is for `Niveles` contexts:
with 2, every call from the main program is right; a call inside a function is where
`cursor_stack += offset + 12` goes wrong (`PilaCPU_Anidada`).

### KernelDatos, PLP, PCP, CPU, Kernel

A PCB is its `pcb_id`; program number *p* is the *p*-th to send its code.
Every queue is a sequence, except `colaNew`, which is sorted by weight before
every removal and is a set with `Peso`. A semaphore is a counter, `mutex_exit` is
0 or 1 (an unlock of an unlocked mutex is lost). A socket is a FIFO in each
direction, `haciaCpu[c]` and `haciaKernel[c]`.

Each handler of a message is one action of the thread that runs it. A handler
that waits in the middle (a second `recibirDatos`, a `sem_wait`) is split there:
`servidor`, `despacho`, `plp`, `finalizador` say where each thread stands, so that
others run in between. Two windows inside handlers without a wait are also modelled,
when `Carreras` says so: `envio`, between the PCB being sent to a CPU
(PCP.c:308) and the fields of its client being written (312-313), and
`impresion`, while `imprimoInformacionGeneral` holds the contents of a queue it has
emptied to print.

What brings the Kernel down (a pop of an empty queue, a `NULL` client, a message
read as what it is not) is an action (`Cae`) that sets `kernel` to `"caido"`; the
property `KernelVivo` says where none of them can happen.

In `CPU`, the primitives that only talk to the UMV are the instruction `"nada"`;
a request the UMV rejects is `"error"`. `Cortes` says who may fail: a program
closed by its user, a CPU that dies, a CPU that gets SIGUSR1.

### Planificador

The scheduler that the threads, the sockets and the CPUs add up to: a process arrives,
is admitted (the lightest first, while there is a place), gets a processor in order of
arrival, and leaves it preempted, ended, asleep on a semaphore or waiting for a device.
It has no semaphores of the Kernel, messages or lists of clients. `Kernel!Abstracto`
maps onto it:

- a CPU runs the process whose PCB is with it, on the way to it or on the way back
  (`Ocupa`), so a dispatch is the `sem_wait`s, the choice of a client and the `send`
  seen as one step, and the end of a burst is the step of the server that takes the PCB;
- the credits of a semaphore are the positive part of `valor`; its negative part is
  the length of the list of the blocked;
- the requests of a device are the one its thread has in hand and then its queue;
- a process has ended when it is in `colaExit`, in the hands of the thread that
  releases its memory, or released.

Everything else stutters: the instructions of a burst, printing, the announcement of a
block or of an IO before its PCB arrives, taking a request to serve it, releasing memory,
telling the programs. The mapping holds only when nothing fails: a CPU that dies takes its
place with it, and a closed program takes SIGNALs and places that are not its own.

### Deviations

Some definitions are preceded by another one marked *deviation*, with a plausible
mistake in that piece of code (a `sem_post` forgotten, a peek for a pop, a guard
dropped). Nothing uses them in the specifications; each documents a bug that a
property catches: replace the definition by its deviation and the run of
that property reports it. `PROJECT.json` pairs them under `mutants`.

## 3. Runs

Runs that find no error:

| Run | Question | Bounds |
|---|---|---|
| `Kernel_Normal` | With no failures, do the queues, the semaphores, the degree and the list of clients agree, is no process lost or duplicated, and do they add up to a scheduler with one step per operation? | 2 programs, 2 CPUs, degree 2, quantum 2, semaphore `b` (initially 1), a device and an unknown device name, up to 2 instructions of {wait, signal, io} each |
| `Kernel_Salida` | Is everything printed before the end is announced, with failed creations and errors, and do the two windows inside handlers lose or duplicate a process? | the same, 1 instruction of {wait, imprimir, error}, all outcomes of `crearPCB`, both windows open |
| `Kernel_Vive` | Is every program told how it ended? | 2 programs, 1 CPU, {nada, imprimir, io, error}, with fairness |
| `Kernel_Fallas` | CPUs that die or leave on SIGUSR1 anywhere: does a text go to the wrong program, is a process freed twice, is the degree exceeded, are ready and blocked processes miscounted? | as the first, 1 instruction, also imprimir |
| `Kernel_Programa` | Programs closed anywhere: is a process that goes on ever in two places? | as the first, 1 instruction of {wait, imprimir} |
| `UMVMemoria` | Any sequence of creations, destructions, compactions and changes of algorithm: no overlap, no byte lost or counted twice, compaction invisible, refusals justified, no dangling node, every call returns | 2 pids, sizes 1 to 3, 6 bytes, 4 creations |
| `UMVBytes` | Is the UMV a memory: does every read return the bytes last written there, whatever is created, destroyed and compacted in between? | 2 pids, sizes 1 and 2, 5 bytes, 4 creations, a write of two distinct marks, offsets 0, 1 and -1 |
| `UMVServidor` | Who is on the list at once and for which process, when is a program on a CPU refused its segments, with an operator who may destroy, create, read and write those of any program, and may `vaciarColaExit` wait for ever on `mutex_exit`? | 2 programs, 1 CPU, 1 command of the operator |
| `UMVServidor_Vive` | Does each answer reach who asked, and is every request answered? | 1 program, 1 CPU that may die, 2 commands, changes of algorithm among them, with fairness |
| `PilaCPU` | Do bytes, cursor and dictionary implement a stack of contexts, through calls, returns and changes of CPU, and is a program ended by ERROR only with a reason? | 2 names, 24 bytes of stack, bases 16 and 255, up to 3 contexts, promises for 2 |

Runs that show a disagreement between the code and what it says of itself:

| Run | What it shows |
|---|---|
| `UMVServidor_Socket` | the two threads of the Kernel that share a connection read each other's answers |
| `PilaCPU_Anidada` | a return from a function called by a function does not go back to its caller |

Seven more divergences that TLC shows on these models, by dropping a hypothesis of a
property or by opening `Cortes` or `Carreras`: closing a program whose process is done or
running gives its place back too often (`GradoRespetado` with closed programs, PCP.c:176);
a text is printed in another program (`ImprimeAlDuenio`: with closed programs, because
PCP.c:179 takes the CPU for idle while it still runs the process, seen from three programs
on; and in the window of PCP.c:312, when the text comes before `pcbAsignado`); the
server of the CPUs waits for ever on `semClienteOcioso` after a busy CPU dies
(PCP.c:398); `mensajesPrograma` returns for good at the first message for a program that
is gone (funcionesPLP.c:341); `vaciarColaExit` waits for ever at `mutex_exit` with the
last program in its hand when two unlocks have found it open, although nothing fails
(funcionesPLP.c:303; `ExitAvanza` without its hypothesis); the removal of a consumed hole may remove a segment of a
program (compactacion.c:256); a program may own two segments with one `posInicial`
(compactacion.c:149).

**Why the bounds are enough.** Two programs and two CPUs are what the races need: one
process at a CPU while another is ready, blocked, at a device or ending, and a second
client that an idle CPU, `cpuAcerrar` or the search by `pcbAsignado` may confuse with
the first. Two instructions let a process come back after a WAIT, a SIGNAL or an IO and
do another; a quantum of 2 lets a burst end both by quantum and before it. `Pedidos` has
a name that is not a device because the code treats it as one that costs nothing. In the
memory, 6 bytes and sizes 1 to 3 give up to six segments and every arm of the
compaction: larger, smaller, equal, separated by several holes, and the consumption of
one, several or exactly enough of them (coverage shows every action fires). `MaxPedidos`
bounds the creations of a behaviour; destructions and compactions are unbounded. In
`UMVServidor` two programs are what the two threads of the Kernel and a CPU that changes
process need, and two unlocks of `mutex_exit` are the first that can be lost with harm; the
sockets and threads bound themselves, `MaxTurnos`, `MaxConsola` and
`MaxCambios` bound only what the programs and the operator ask for: one command is enough
to destroy, or to create, at any moment of the life of a program; two changes of algorithm
make `crearSegmento` fall off its end, and with three TLC finds the mutex left taken. A
CPU dies in `UMVServidor_Vive` only; `AtiendeBien` and `SinSegfaultSiempre` are proved for
CPUs that die at any point. In
`PilaCPU` 24 bytes hold a variable, a call with its 12 bytes and another variable, and
are too few for the next, so refusals happen; base 255 and value 255 have the low byte
that is taken for -1. The deadlocks of the runs with `CHECK_DEADLOCK FALSE` are real
stops: all programs have ended, a process waits for ever on a semaphore nobody signals,
or the process modelled has died.

Symmetry (`Permutations` of the CPUs or of the pids) is used in safety runs only.

### Fairness

`Kernel!Equidad`: each thread of the Kernel, each CPU and each program that has
something to do does it (weak fairness), since the operating system schedules them.
The server of the CPUs attends with `list_iterate` every client that `select`
reports, so a client with a message is not passed over for ever (strong fairness of
`Atiende(c)`, which is disabled and enabled again as the server visits others). New
programs, failures and signals owe nothing. `UMVMemoria!FairSpec`: `crearSegmento`
and `compactacion` are sequential code that runs on until it returns.
`UMVServidor!FairSpec`: each thread of the UMV and of its clients that can go on does
(weak fairness), `mensajesPrograma` included; the mutex needs no more because every holder
lets it go and the requests are bounded. The arrival of programs, the operator and the death of CPUs owe
nothing.

### Properties

`KernelDatos` to `Kernel`:

- `NoSePierde`, `NoSeDuplica`: `Donde(p)` is the set of all the places where a PCB
  is (queues, hands of threads, sockets, CPUs); until its memory is released it
  has at least one element, and with the releases never more than one.
  `UnSoloPcb` is what is left of it whatever fails (it leaves out what is on its way
  out), and `NoSeDuplicaConUnCierre` when CPUs fail.
- `GradoExacto`: `semMultiProg` plus the admitted processes is MULTIPROGRAMACION
  (`GradoRespetado`: never more, whatever CPU fails).
- `OciososContados`, `ListosContados`, `BloqueadosContados`: each semaphore, and
  the value of each ANSISOP semaphore, against the list it stands for.
- `OciosoDeVerdad`: a client the PCP may choose is waiting, and its socket is empty.
- `EsPlanificador`: with no failures, `Kernel` implements `Planificador`.
- `KernelVivo`, `ImprimeAlDuenio`, `SalidaCompleta`, `TodosAvisados`.

`UMVMemoria`: `SinSolape`, `Conservacion`, `SinHuecosDetras`, `CompactarConserva` (an
action property over each step of the compaction), `NodoVivo` (the node the loop stands
on is never freed, when nobody asks for 0 bytes), `RechazoJustificado`, `Responden`.

`UMVBytes`: `EsMemoria` (refinement of `MemoriaAbstracta`), `ConservaDatos` (each step of
the compaction leaves every segment findable with its bytes).

`UMVServidor`: `Exclusion` (only a second pass of `crearSegmento` breaks the mutual
exclusion), `AtiendeAlProceso` (a CPU is served for the process it runs),
`SinSegfault` (what a CPU asks for is there, unless the operator destroyed it or the bytes
are outside the segment), `RespuestaPropia`, `Responde`, and `ExitAvanza` (each program of `colaExit` has an unlock of `mutex_exit`, made
or to be made, unless two have been lost: it begins open and each program opens it once,
so losing one leaves as many as needed). With fair threads that is what gives the segments
of a program back.

`PilaCPU`: `EsPila` (refinement of `PilaAbstracta`), `DiccionarioFiel` (the dictionary is
what another CPU would rebuild), `ErrorJustificado` (an ERROR has a refusal or a 0xFF
behind it), `VuelveAlLlamador`.

## 4. Proofs

`UMVMemoriaPruebas` proves, for any set of programs, any sizes, any memory and any
number of calls:

- `TipoCorrecto == Spec => []TypeOK`. No size, counter or remainder ever becomes
  negative. `TypeOK` is not inductive: `dif`, `ocupado` and `siguiente` are used as
  positions and amounts while holes are consumed, so the invariant is
  `TypeOK /\ CursorValido`, where `CursorValido` says that those positions are nodes of
  the list in order and that what is missing fits in the moved segment. `TipoPaso`
  has one step per action; the effect of each kind of edit of the list on its nodes
  is a lemma (`EfectoMover`, `EfectoAgrandar`, `EfectoRecortar`, `EfectoConsumir`).
- `Memoria == Spec => []InvMemoria`, the inductive invariant `TypeOK /\ CursorValido /\
  (desvio = 0 => Teselado)`.
- `NuncaSolapa == Spec => []SinSolape` and `SeConserva == Spec => []Conservacion`.
- `CompactaSinPerder == Spec => CompactarConserva`.
- `SinHuecosAtras == Spec => [](desvio = 0 => SinHuecosDetras)`.
- `NuncaConsumeElNodo`, the first half of `NodoVivo`, on every path and for every size;
  and `NodoSigueVivo`: if `0 \notin Tamanios`, `Spec => [](desvio = 0 => NodoVivo)`.

Neither `SinSolape` nor `Conservacion` is inductive: while it compacts, the code breaks
both and repairs them later. `Teselado` says what holds in each phase instead. Outside
the compaction the segments are contiguous from byte 0 and the counter is the rest
(`TeselaEntera`). While it moves segments that still holds, and everything before `nodo`
is reserved (`TeselaCompactar`). While it consumes holes, the enlarged segment overlaps
the next one by exactly `dif` bytes and nothing else is out of place (`TeselaConsumir`).
While the counter is updated it is ahead by the holes already counted, from the first
hole `f` to `nodo` (`TeselaDevolver`); while the holes are deleted the tiling is that of
the segments before `f` (`TeselaBorrar`), which is `TeselaEntera` again when none is
left. Order (`Ordenados`) is a conjunct of its own because it does not follow from
contiguity without an induction over the list. The geometry is in lemmas about places
and sizes only: one segment split in two (`PartidaTesela`), the boundary between two
segments moved (`FronteraTesela`), a segment removed from under an overlap
(`QuitaTesela`), owners changed (`CalcadaTesela`); each action has a lemma that reduces
it to one of them, and `TeselaPaso` has one step per action.

The hypothesis `desvio = 0` is needed: on the faulty path of compactacion.c:256-287 the
tiling is lost (the findings). `DesvioPaso` proves that the path, once taken, stays
recorded.

`CompactarConserva` needs to know more of the middle of the compaction. While holes are
consumed the list has the moved segment twice, in `nodo` and in `ocupado`; `Mudado` says
that both have its name and its bytes and that only holes lie between them, so freeing
`ocupado` or removing the holes loses nothing. A segment that fits at once takes the
hole whole (`Pasada`), otherwise it is enlarged over it and holes are removed one by
one; `ConservaPaso` goes through the arms, and each keeps the identifiers and the bytes
(`Conserva`).

`NodoVivo` has two halves. A hole smaller than what is missing is removed by
`posInicial` and size, and `nodo` never has that size: what is missing is at most what
`nodo` has (`Ventaja`), on the faulty path too. A hole that is exactly what is missing
is looked for by comparing `posInicial` with a size (compactacion.c:279), and there TLC
shows a counterexample that the runs do not reach. It needs a segment of 0 bytes (asked
for by the console, UMV_Consola.c:139, or for a program without instructions,
funcionesPLP.c:83; `crearSegmento` does not refuse it). Once that segment is destroyed,
its empty hole has the `posInicial` of the segment behind it and gives it no byte when
it moves: what is missing is the whole segment and the next node is its own old place.
If its `posInicial` is also its size, line 279 finds first the node the loop stands on,
whose `next` is read after `free`. So the theorem has the hypothesis that no size is 0;
with it `nodo` always has more bytes than are missing (`Llenas`), and its `posInicial`,
which is never below the address it came from (`Altas`), is larger than what is missing.
Past the faulty path, with sizes from 1, a TLC simulation finds no violation of this
half.

`UMVBytesPruebas` proves `DatosConservados`: if `memcpy` copies from the first byte
(`"atras" \notin Sentidos`; otherwise TLC shows a loss when source and destination
overlap), `SpecB => ConservaDatos`. Every step of the compaction is a *transfer*
(`Traslado`): a one-to-one map between the live positions of the list before and after
it that keeps pid, `posInicial` and bytes. The five moves are one lemma (`Llena`): the
bytes that are written belong to the hole and to the segment that moves, by the tiling of
`UMVMemoriaPruebas`, so no other segment changes. Removing a node renumbers those
behind it (`QuitaTraslada`); while holes are consumed the node the segment moved from is
not live, and `HuecosEnMedio` says that what lies before it is free.

It also proves `ImplementaMemoria`: under the same hypothesis
`SpecB => EsMemoria`, the refinement that the run checks on small instances. A step
after which the memory is broken is `RomperA`. Otherwise a transfer is a step of
`CompactarA` (`TrasladoEsCompactar`), a transfer plus one position a step of `CrearA`,
whether the new name is new or repeated (`AltaEsCrear`, which the first segment, one in
a hole and one at the end of the list reduce to), and destroying a program takes its
files only. For a read, a name that is found is a live position inside the memory
(`EncontradoTipo`), so the sums of `solicitarBytes` do not wrap and its four checks say
the same as the abstract one. For a write, a sum that does not wrap keeps the
bytes inside the segment and, by the order of the segments, out of every other one
(`EscribeArchivo`).

`UMVServidorPruebas` proves, for any programs, CPUs and bounds:

- `TipoCorrecto == Spec => []TypeOK`, of the threads, the requests and the sockets;
- `ExclusionMutua == Spec => []Exclusion`. The mutex alone is not an invariant, because
  `crearSegmento` unlocks it and goes on: the invariant is that whoever is on the list
  holds the mutex and is alone there until some thread has let it go inside
  `crearSegmento` (`Solo`).
- `AtiendeBien == Spec => []AtiendeAlProceso`, with CPUs that die at any point. The
  invariant (`Canales`) describes the connection of one CPU: at most one request that has
  an answer is in it, the messages before it have none, the answer is in two pieces in
  order, and the process the thread will have after the messages under way
  (`UltimoCambio`) is the one the CPU runs.
- `SinSegfaultSiempre == Spec => []SinSegfault`, whatever the operator types and whichever
  CPUs die. It is not a fact about one connection: the segments are created on the
  Kernel's and used on a CPU's. The invariant has three layers. `Origenes`: each
  connection carries only what its clients write. `Turno`: each thread of the Kernel has one request or
  one answer on the shared connection (`TurnoBien`), and that request is the one of the
  step of `crearPCB` or of `vaciarColaExit` it is at (`Esperables`). `Marcha`: a program
  that is ready or runs has its segments and runs on one CPU (`Programas`), `crearPCB`
  goes on only after the segment it asked for is in the list (`CrearBien`), and what is
  destroyed for the Kernel belongs to a program that has ended (`ExitBien`). What the
  operator destroys is in `borrados`, which only grows (`BorradosCrecen`): `Programas` and
  `CrearBien` leave those programs out, and so does `SinSegfault`. The last two layers hold
  while the system is `Sano`: no `crearSegmento` has ended without a return, no thread of
  the Kernel has read a piece of the other's answer. `SinSegfault` has both as
  hypotheses, because the code does both (run `UMVServidor_Socket`), and `SanoAntes`
  proves that neither is ever undone. That the CPU's own requests are answered well is then
  `AtiendeAlProceso` with the list seen by a thread inside the mutex.
- `RespuestaPropiaPorTurnos == Spec /\ []PorTurnos => []RespuestaPropia` and, for one
  program, `RespuestaPropiaUnPrograma`: `Spec => []RespuestaPropia` with no other
  hypothesis. `PorTurnos` says that the two threads of the Kernel do not wait for an answer
  at the same time, which a lock around `enviarOperacion` would give and the code does not
  have; without it TLC shows the violation (`UMVServidor_Socket`), with more than one
  program. It is a hypothesis about behaviours and not about a constant, because
  no constant says it. The invariant follows the answers: those of a connection are for the
  clients behind it (`Suyas`), and what is on its way to the Kernel (`Partes`) is nothing,
  the two pieces of the answer of a thread that has read neither, or the second for the
  thread that read the first. With one program `PorTurnos` is an invariant: `Papeles` says
  that the program `crearPCB` works for is being created and the one `vaciarColaExit` works
  for has ended, so both threads never work at once.

`KernelPruebas` proves, for any programs, CPUs, devices and semaphores:

- `TipoCorrecto == Spec => []TypeOK`, whatever fails. `TypeOK` is not inductive: what a
  thread takes out of a message depends on the kind of message. `Tipos` says it owner by
  owner: a message to the Kernel that ends a burst carries a PCB, one that asks for a
  semaphore names it (`AlKernel`), a client marked as assigned has a PCB (`TClientes`),
  and `semMensajeImpresion` is the length of its queue (`TMensajes`).
- If no program hangs up (`"programa" \notin Cortes`; with it TLC shows the findings of
  `pcbAFinalizar`), `ReadyContada == Spec => []ListosContados` and
  `BloqueadosContadosSiempre == Spec => []BloqueadosContados`, with CPUs that die, with
  SIGUSR1 and with both windows. The invariant is `Cuentas`: the types, the thread that
  finishes closed programs never wakes (`SinCierre`), the two counts, and, from the
  answer WAIT to the arrival of the PCB, the value of that semaphore is not positive
  (`BloqueadosBien`), for otherwise the process that is added would be one too many. The
  number of positions of a list that satisfy a condition, after adding at the end and
  after removing from the middle, is two lemmas (`AppendCuenta`, `QuitaPosCuenta`).

`KernelSinFallas` proves, when nothing fails and no window is open
(`Cortes = {}`, `Carreras = {}`), `KernelNoCae == Spec => []KernelVivo`,
`OciososContadosSiempre == Spec => []OciososContados` and `OciosoEspera ==
Spec => []OciosoDeVerdad`. That a handler finds what it expects depends on where the CPU
is, so the invariant `SinFallas` adds to `Cuentas` the conversation of each CPU
with the Kernel (`Fases`): it is free, has been sent a PCB, runs, asks for a semaphore,
has been answered, asks for a device, blocks, or gives its PCB back in one message or in
two, and in each phase `Fase` says what its socket may hold in both directions, what the
server waits for and whether it is marked as assigned. Two lemmas carry the argument:
the head of the socket tells the phase (`Cabeza`), and a message that expects no
answer can be taken without leaving it (`TomaSuelto`). `Registro` says that
`listaClientes` has each CPU that is on once, `OciososBien` that the chosen
CPU is still free when the PCB is sent, `ExitBien` that `colaExit` has what
`semProgExit` counts. One step of one CPU leaves the phases of the others (`UnaFase`).

The same module proves, under the same hypotheses, `ImplementaPlanificador == Spec =>
EsPlanificador`. The invariant is `SinFallas` with `Manos` (a CPU that waits or is off
has given its PCB back). `OcupaEs` reads from the phase of a CPU the process it runs,
and with it each step is a step of the scheduler or a stutter: what the CPU does moves
the PCB from its hands to the end of its socket (`CpuA`); what the server takes from the
socket leaves the last message, which has the PCB, in its place (`ConsumeA`) or is that
message (`DevuelveA`, then `FinA`, `BloqueaA` or `SolicitudA`); a WAIT is answered "no"
only when no credit is left, and between that answer and the PCB `valor` cannot rise
(`BloqueadosBien`), so blocking takes effect where the PCB arrives; a dispatch is the
`send` (`DespachoA`); the request a device ends was the first of its queue
(`DispositivoA`).

`PlanificadorPruebas` and `KernelProcesos` prove what the Kernel keeps of each process,
on the scheduler it implements and not on its threads.
`PlanificadorCorrecto == SpecA => []PlanBien`: a process is in one place (waiting for a
place, ready, running, asleep, at a device, ended), once in it, and the free
places plus the processes inside are the degree. `PlanBien` is inductive there, with
ten short actions. The refinement carries it to the Kernel (`Promesa!PlanBien`), and
what is left is small: where the mapping says a process runs, its PCB is in one socket,
thread or CPU and not in two (from `Fases`), and what follows its end, which the
scheduler does not see (`SalidaUna`: once in `colaExit`, in hand, or released;
`NadieFalta`: a process that is nowhere had no room for its code). From these, when
nothing fails and no window is open:

- `NoSeDuplicaSiempre == Spec => []NoSeDuplica`;
- `NoSePierdeSiempre == Spec => []NoSePierde`;
- `GradoExactoSiempre == Spec => []GradoExacto`.

The second part of `KernelProcesos` is about what fails. There is no refinement to rest
on, so it goes through the steps of the Kernel itself:

- `UnSoloPcbSiempre == Spec => []UnSoloPcb`, with no hypothesis at all. The places where a
  PCB can be are a set (`Sitios`: the queues, the list that is being printed, and the two
  directions of the socket and the hands of each CPU and device), and `Puestos(h, p)` is
  the positions of `p` in one of them. The invariant `PcbUnico` says that every
  process has one position in one place and that those that have not arrived have none;
  without the latter a new PCB could be a second one. Every step either takes PCBs away
  or moves one between two places, leaving the first (`PasoPcb`), and one lemma says
  that such a step keeps it (`ViajaUno`): what remains is one lemma per operation.
- `GradoRespetadoSiempre`: if no program is closed before its end, `Spec =>
  []GradoRespetado`, with CPUs that die, SIGUSR1 and both windows. The
  invariant (`GradoBajo`) counts the processes with a PCB anywhere past `colaNew`
  (`Circulan`), which no step but the loop of the PLP adds to. That loop waits for
  `semMultiProg` and lets one in. Only the handler of EXIT and ERROR posts it (with
  closed programs the thread that finishes them does too), and by `PcbUnico` the PCB it
  takes was the only one of that process, so the process leaves the count (`FinSinPcb`).
- `ImprimeAlDuenioSiempre`: if no program is closed before its end and the window of
  PCP.c:312 is shut, `Spec => []ImprimeAlDuenio`, with CPUs that die and SIGUSR1. TLC
  violates it without either hypothesis. The invariant (`Duenios`) describes both
  directions of the socket of each CPU (`CanalBien`): all of it is about the
  process in `pcbAsignado`, no text follows the PCB, and a client that is not marked as
  assigned has nothing of any process under way.
- `SalidaCompletaSiempre == Spec => SalidaCompleta`, an action property, with no
  hypothesis. `pcbAsignado` says nothing here, since a closed program leaves it stale, so
  the argument follows the process: a text in the socket of a CPU has behind it, or in
  the CPU, the PCB of who printed it (`TextosBien`), which by `PcbUnico` is the only one;
  a process whose end is queued has no PCB anywhere and will not get another (`Fuera`,
  which only grows); and behind the message of an end the queue has nothing of that
  process (`FinalBien`).
- `NoSeDuplicaConUnCierreSiempre`: if no program is closed before its end and the window
  of PCP.c:312 is shut, `Spec => []NoSeDuplicaConUnCierre`, with CPUs that die at any point
  and while a queue is being printed. What is on its way out is now part of the question,
  and `cerrarConexionCliente` sends a process there by name, from `pcbAsignado`, with no PCB
  in hand (PCP.c:388). `Debidos` says what that name is worth: a client that is
  marked as assigned and is not about to close (`Deben`) owes a process whose PCB is
  nowhere but in its own socket or hands (`Lejos`), and no two owe the same.
  `Conectados` (a CPU connects once and has nothing before) is what a dispatch needs for
  it. `SalidaBien` says that what has left, in `colaExit`, in the copy that is being
  printed, in the hands of the thread that empties it or with its memory given back, is
  there once, has no PCB and is owed by nobody. A process ends in three ways (`Termina`: a
  creation that found no room, the handler of EXIT and ERROR, a lost connection); each takes
  a process that had a PCB or was owed and leaves it with neither (`Acaba`), so it cannot
  end again. Both hold while at most one CPU has announced its close: `Anuncios` says that
  the CPU in `cpuAcerrar` and every SIGUSR under way come from one that did, and as
  announcements are never taken back, "at most one now" includes every state before. With
  two, the second overwrites `cpuAcerrar` (PCP.c:370) and the process of the first is freed
  twice.

`PilaCPUPruebas` proves, for any names, values, labels, code, segment and stack size:

- `TipoCorrecto == Spec => []TypeOK`, whatever the ints that stray bytes amount to. The
  sums are modulo 2^32; `Tipos` adds that a context ends inside the stack or so near to
  2^32 that the next variable is refused, and never in between.
- If the promise is for two contexts (`Niveles <= 2`), `DiccionarioFielSiempre` and
  `ErrorJustificadoSiempre`. The invariant (`UnaLlamada`) holds until a function that was
  called calls another: the letters of the running context are in the stack
  (`Contextos`), what the call saved of its caller is where the return will read it
  (`Cabecera1`), the dictionary is the one `RecrearDiccionario` would make (`Fiel`) and an
  ERROR has a reason (`Justo`). The dictionary is rebuilt by a loop over the variables;
  instead of its steps the proof uses what it makes (`EsDiccionario`: of each letter, the
  last place), which one dictionary only satisfies (`DiccionarioUnico`), so what a
  definition adds and what a rebuild gives are the same.
- `VuelveDeLaLlamada`: such a call goes back to the cursor, the line and the variables
  of its caller. For deeper calls it is false (run `PilaCPU_Anidada`), which is why the
  hypothesis is there.
- `ImplementaPila`: if `Niveles <= 2`, `Spec => EsPila`, the refinement that the run
  `PilaCPU` checks. The invariant adds that the names of the abstract contexts are those
  in the bytes (`Nombradas`). A definition adds its name where the abstract one does, an
  assignment writes the value of that variable and of no other, a call saves what the
  return reads back, and a change of CPU, which throws the dictionary away and rebuilds it,
  is a stutter: one lemma per operation (`Imita...`), and what goes past the promise is
  `PasoRompe`. It also corrected the model: the states of the mapping were a
  CASE two of whose guards could hold at once, so its value was not determined; they are an
  IF now.

The proofs rest on the assumptions about the constants named in the modules (sizes and
memory are natural numbers, the pid of a free segment is no program's, twice the memory
is below 2^32; the width of the sums of the CPU, 2^32 in the code, is a multiple of 8).

Only model-checked:

- liveness (`Responden`, `TodosAvisados`, `Responde`) and everything
  that needs ENABLED, which TLAPS does not reason about;
- of the Kernel, `NoSePierde`, `NoSeDuplica` and `GradoExacto` with the windows open
  (`Kernel_Salida`), since the conversation of each CPU (`Fases`) is proved with them shut;
- `ExitAvanza`, which counts programs;
- of the stack, everything that concerns more than two contexts;
- `RechazoJustificado`, which sums over the list: an induction over data;
- `SinHuecosDetras` and the second half of `NodoVivo` past the faulty path, where the
  tiling is gone.

## 5. Not modelled, and why

- **Shared variables** of the PCP: a request and an answer each, with no effect on
  the queues, the semaphores or the PCBs.
- **The linked lists below one operation**: `queue_push` on `colaReady` by several
  threads without one mutex is atomic here.
- **The parser** (`ansisop_analizador`, a library) and the text of the programs: a
  program is the choices its instructions offer.
- **Sockets and serialisation** (`Libraries/sockets/Socket.c`,
  `Libraries/comun/Structs.c`): a message is received whole and in order, except the
  answers of the UMV, which are two reads; a `send` to a peer that is gone succeeds
  (in the code SIGPIPE may end the process).
- Console parsing, dumps, logs, configuration files: input and output.

## 6. Plan

Order: what the most components rest on first.

1. *(done)* `UMVMemoria` with the proofs of its types and tiling; `Kernel` and its parts.
2. *(done)* `UMVServidor`: one thread per connection, the mutex, the unlocked second
   pass, `cambiarAlgoritmo` between the tests of lines 253 and 309, the socket the
   Kernel's threads share with the UMV; its mutual exclusion, the connection of a CPU
   and `SinSegfault` proved.
3. *(done)* `UMVBytes` and `MemoriaAbstracta`, with the refinement proved; `PilaCPU` and
   `PilaAbstracta`.
4. *(done)* `Planificador`, which `Kernel` implements when nothing fails, with the proof.
5. `Compartidas`: shared variables. `ColaCompartida`: the linked list of
   `colaReady` with two writers.
6. Runs for divergences met while modelling and not given a run yet:
   - PCP.c:308, a PCB sent to a client removed after it was chosen is lost
     (`NoSePierde` with CPUs that die);
   - PCP.c:388, the process of a CPU that died does not give its place back
     (`GradoExacto` with CPUs that die);
   - PCP.c:312, a CPU that answers before `fueAsignado` is set stays marked as busy
     (an idle client exists when `semClienteOcioso > 0`, window `envio`);
   - PCP.c:370, two SIGUSR1 overwrite `cpuAcerrar` and a process is freed twice;
   - funcionesAdministrativas.c:188, `vaciarColaExit` pops the queue while it is
     emptied to print it (`saliendo # Nulo`, window `impresion`);
   - funcionesPLP.c:303, two lost unlocks of `mutex_exit` leave a process in `colaExit`
     (`ExitAvanza` without its hypothesis);
   - compactacion.c:279, a hole that is exactly what is missing is kept and its
     bytes are counted twice (`libre` plus all sizes is MALLOC);
   - funcionesDeUMV.c:276, worst fit with no hole large enough dereferences NULL
     (`fase # "caida"`).
7. The window of SIGUSR1 in CPU.c:85-136; a program that connects and closes; the
   overwritten `pcbAFinalizar`; WAIT, SIGNAL and shared variables on unknown names.
   In `UMVMemoria`, a size of 0 (compactacion.c:279 frees the node the loop stands on).
8. *(done)* Proofs of the identities under compaction, of the Kernel's places and owners
   through `Planificador`, of the dictionary of the CPU, of `SinSegfault`.
9. *(done)* Proofs with what fails: `UnSoloPcb`, `GradoRespetado`, `ImprimeAlDuenio`,
   `SalidaCompleta`, from the places of a PCB.
10. *(done)* Proofs: `NoSeDuplicaConUnCierre`, from `UnSoloPcb` and the places on the way
    out; `RespuestaPropia` when one thread at a time uses the connection; `EsPila`, step by
    step, from `UnaLlamada`.
