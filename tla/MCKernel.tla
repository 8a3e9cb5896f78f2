------------------------------ MODULE MCKernel ------------------------------
(* Instances of Kernel for TLC.                                            *)
EXTENDS Kernel, TLC

Simetria == Permutations(Cpus)

\* the last program to arrive is the lightest one
PesoMC == [p \in Pids |-> MaxProg - p]

\* as in Config_Kernel.txt: one semaphore starts at 1, the others at 0
ValoresMC == [s \in Semaforos |-> IF s = "b" THEN 1 ELSE 0]
=============================================================================
