----------------------------- MODULE MCUMVServidor -----------------------------
(* Instances of UMVServidor for TLC.                                       *)
EXTENDS UMVServidor, TLC

Simetria == Permutations(Pids)
=============================================================================
