---------------------------- MODULE FunctionList ----------------------------
(***************************************************************************)
(* metrics/add_metrics.go: GET /system/functions lists the functions of a  *)
(* namespace, as the provider gives them, with the number of calls that    *)
(* Prometheus has counted for each.  Prometheus reads the gateway's        *)
(* counters now and then, so its numbers are those of some earlier time.   *)
(***************************************************************************)
EXTENDS ForwardingProxy

CONSTANTS
  Deployed,        \* what the provider lists, under full names
  ProviderCounts   \* what it may say of invocations itself

ASSUME ListAssumption ==
  /\ Deployed \subseteq Seq(Segments) \ {<<>>}
  /\ ProviderCounts \subseteq Nat

VARIABLES
  scraped,     \* Prometheus' copy of the counters, summed up over the codes
  listed,      \* what the provider has listed, for each request
  counts,      \* InvocationCount of each function in the list
  before       \* history: scraped when the request arrived

listVars == <<scraped, listed, counts, before>>

NamespaceOf(d) == d[Len(d)]

ListOf(ns) == {d \in Deployed : NamespaceOf(d) = ns}

ListTypeOK ==
  /\ scraped \in [Labels -> Nat]
  /\ listed \in [Requests -> SUBSET Deployed]
  /\ counts \in [Requests -> [Deployed -> Nat]]
  /\ before \in [Requests -> [Labels -> Nat]]

ListInit ==
  /\ scraped = [l \in Labels |-> 0]
  /\ listed = [r \in Requests |-> {}]
  /\ counts = [r \in Requests |-> [d \in Deployed |-> 0]]
  /\ before = [r \in Requests |-> [l \in Labels |-> 0]]

(* n summed up over D: the size of a union of disjoint sets, of which,     *)
(* unlike a fold, it can be proved that it is a number.                    *)
Total(n, D) == Cardinality(UNION {{x} \X (1..n[x]) : x \in D})

(* Prometheus' own interval *)
Scrape ==
  /\ scraped' = [l \in Labels |-> Total(completed[l], Codes)]
  /\ UNCHANGED <<listed, counts, before>>

------------------------------------------------------------------------------
List(r) ==
  /\ Move(r, "new", "listing")
  /\ before' = [before EXCEPT ![r] = scraped]
  /\ UNCHANGED <<status, scraped, listed, counts>>

(* The answer of the proxy, 502 when the provider cannot be reached, is    *)
(* passed on.                                                              *)
ListRefused(r) ==
  /\ \E c \in (UpstreamCodes \cup {502}) \ {200} : Answer(r, "listing", "listed", c)
  /\ UNCHANGED listVars

ListUnparsable(r) ==
  /\ Answer(r, "listing", "listed", 500)
  /\ UNCHANGED listVars

(* The counts that the provider sends are left in. *)
ListReceivedAsSent(r) ==
  /\ Move(r, "listing", "counting")
  /\ \E d \in Deployed : listed' = [listed EXCEPT ![r] = ListOf(NamespaceOf(d))]
  /\ \E n \in ProviderCounts : counts' = [counts EXCEPT ![r] = [d \in Deployed |-> n]]
  /\ UNCHANGED <<status, scraped, before>>

(* The functions of one namespace.  Whatever counts the provider sends are *)
(* reset.                                                                  *)
ListReceived(r) ==
  /\ Move(r, "listing", "counting")
  /\ \E d \in Deployed : listed' = [listed EXCEPT ![r] = ListOf(NamespaceOf(d))]
  /\ counts' = [counts EXCEPT ![r] = [d \in Deployed |-> 0]]
  /\ UNCHANGED <<status, scraped, before>>

(* A namespace without functions: nothing is queried.                      *)
EmptyListReceived(r) ==
  /\ Answer(r, "listing", "listed", 200)
  /\ UNCHANGED listVars

(* mixIn: what Prometheus has under "name.namespace". *)
MixedIn(d) == Total(scraped, {l \in Labels : l = d})

Counted(r) ==
  /\ Answer(r, "counting", "listed", 200)
  /\ counts' = [counts EXCEPT ![r] = [d \in Deployed |->
                  counts[r][d] + IF d \in listed[r] THEN MixedIn(d) ELSE 0]]
  /\ UNCHANGED <<scraped, listed, before>>

(* Prometheus fails, or answers what is no result: Fetch returns nil, and  *)
(* mixIn dereferences it.  net/http drops the connection.                  *)
CountingBroke(r) ==
  /\ Move(r, "counting", "listed")
  /\ UNCHANGED <<status, listVars>>

Listing(r) ==
  \/ ListRefused(r) \/ ListUnparsable(r) \/ ListReceived(r) \/ EmptyListReceived(r)
  \/ Counted(r) \/ CountingBroke(r)
=============================================================================
