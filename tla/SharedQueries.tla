--------------------------- MODULE SharedQueries ----------------------------
(***************************************************************************)
(* The two layers of package scaling that make one call out of many for    *)
(* whoever asks them: SingleFlight and CachedFunctionQuery.  They share    *)
(* nothing; layer says which of the two is asked, once and for all.        *)
(***************************************************************************)
EXTENDS SingleFlight, CachedQuery

VARIABLE layer

layerVars == <<layer, flightVars, queryVars>>

Init == FlightInit /\ QueryInit /\ layer \in {"flight", "query"}

OnFlight == layer = "flight" /\ UNCHANGED <<layer, queryVars>>
OnQuery  == layer = "query" /\ UNCHANGED <<layer, flightVars>>

Next ==
  \/ FlightNext /\ OnFlight
  \/ QueryNext /\ OnQuery

(* Goroutines are scheduled.  One that waits for s.lock gets it: a mutex   *)
(* of Go that has kept someone waiting is handed over.  f returns, and a   *)
(* query ends, one way or the other, which is up to them.                  *)
Fairness ==
  /\ \A c \in Callers : SF_layerVars(Do(c) /\ OnFlight)
  /\ \A o \in Objects :
       /\ SF_layerVars(StoreResult(o) /\ OnFlight)
       /\ WF_layerVars((FReturns(o) \/ FPanics(o) \/ Wake(o) \/ Forget(o)) /\ OnFlight)
  /\ \A c \in Clients : WF_layerVars(Get(c) /\ OnQuery)
  /\ \A f \in Queried : WF_layerVars(SharedQuery(f) /\ OnQuery)

Spec == Init /\ [][Next]_layerVars /\ Fairness

------------------------------------------------------------------------------
(* Properties *)

LayerTypeOK == FlightTypeOK /\ QueryTypeOK

(* Whoever asks either layer is answered, whatever its calls come to and   *)
(* whoever it shares them with: nobody waits for a call that has ended.    *)
EveryCallerReturns ==
  /\ \A c \in Callers : at[c] = "asking" ~> at[c] = "out"
  /\ \A c \in Clients : stage[c] = "lookup" ~> stage[c] \in {"answered", "refused"}
=============================================================================
