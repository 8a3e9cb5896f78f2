------------------------------ MODULE MCUMVBytes ------------------------------
(* Instance of UMVBytes for TLC.  The marks that are written differ from   *)
(* what the memory holds and from one another, so that a byte which is     *)
(* lost, moved or swapped shows.                                           *)
EXTENDS UMVBytes, TLC

MCBuffers == {<<1>>, <<1, 2>>}
Simetria == Permutations(Pids)
MCLimite == 16
\* offset -1 is what the console sends for a negative offset
MCDesplazamientos == {0, 1, MCLimite - 1}
=============================================================================
