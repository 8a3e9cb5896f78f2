---------------------------- MODULE MCUMVMemoria ----------------------------
(* Instances of UMVMemoria for TLC, and the properties that need sums over *)
(* the segment list.                                                       *)
EXTENDS UMVMemoria, TLC, FiniteSetsExt

Simetria == Permutations(Pids)

Bytes(S) == MapThenSumSet(LAMBDA k : segs[k].size, S)

\* crearSegmento answers -1 only when the request does not fit in the bytes
\* that no reserved segment owns: never because of fragmentation, which the
\* compaction between its two passes has removed.
RechazoJustificado ==
  [][(fase = "crear" /\ respuesta' = Error /\ fase' = "reposo" /\ desvio = 0) =>
       Malloc - Bytes({k \in DOMAIN segs : segs[k].res = 1}) < pedido.tam]_vars
=============================================================================
