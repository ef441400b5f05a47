------------------------- MODULE MCMetricsExporter --------------------------
(* MetricsExporter with a function in each of two namespaces. *)
EXTENDS MetricsExporter, TLC

CONSTANTS f1, f2, n1, n2

OneEach == (f1 :> n1) @@ (f2 :> n2)
=============================================================================
