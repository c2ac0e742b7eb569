------------------------- MODULE MCDocumentSettings -------------------------
(***************************************************************************)
(* Two documents, one of which has a sidecar of an earlier version beside  *)
(* it, with the bands and without the margins or the other way round.      *)
(***************************************************************************)
EXTENDS DocumentSettings

CONSTANTS d1, d2, b0, b1, m0, m1, none, absent

MCPaths   == {d1, d2}
MCBands   == {b0, b1}
MCMargins == {m0, m1}

MCSidecar(kept, bands, margins) ==
  [kept |-> kept, hasSource |-> FALSE, missing |-> -1,
   bands |-> bands, margins |-> margins]

MCSidecars ==
  {[p \in MCPaths |-> IF p = d2 THEN s ELSE MCSidecar(FALSE, absent, absent)] :
     s \in {MCSidecar(TRUE, b1, absent), MCSidecar(TRUE, absent, m1)}}
=============================================================================
