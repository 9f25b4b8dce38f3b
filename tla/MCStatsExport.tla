--------------------------- MODULE MCStatsExport ---------------------------
(***************************************************************************)
(* Instance of StatsExport: three clusters, one of which is always in the  *)
(* credentials file, and one slot that all workers wait for.               *)
(***************************************************************************)
EXTENDS StatsExport

CONSTANTS c1, c2, c3

Three      == {c1, c2, c3}
TwoConfigs == {{c1, c2}, {c2, c3}}
=============================================================================
