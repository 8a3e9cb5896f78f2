------------------------------- MODULE MCPilaCPU -------------------------------
(* Instances of PilaCPU for TLC.                                           *)
EXTENDS PilaCPU, TLC

MCInstrucciones == <<0, 9>>
MCBases == {16, 255}
MCValores == {255}
MCAzar == {0, 65535}
MCEtiquetas == {1}
Simetria == Permutations(Nombres)
=============================================================================
