-------------------------- MODULE MetricsExporter ---------------------------
(***************************************************************************)
(* metrics/exporter.go: one goroutine, the watcher, polls the provider for *)
(* the functions of every namespace and stores the list in e.services;     *)
(* every scrape of /metrics runs Collect on a goroutine of its own, which  *)
(* empties a shared gauge and fills it again from e.services.  No lock     *)
(* guards e.services, and none holds one Collect together.                 *)
(*                                                                         *)
(* A list of functions is a map from functions to counts: Absent functions *)
(* are not in it.                                                          *)
(***************************************************************************)
EXTENDS Integers, FiniteSets

CONSTANTS
  Functions,
  Namespaces,
  DefaultNamespace,   \* FunctionNamespace
  HomeOf,             \* the namespace of each function
  Counts,             \* replica counts the provider may report
  Scrapes             \* calls of Collect that may overlap

ASSUME ExporterAssumption ==
  /\ IsFiniteSet(Functions)
  /\ DefaultNamespace \in Namespaces
  /\ HomeOf \in [Functions -> Namespaces]
  /\ Counts \subseteq Nat

VARIABLES
  world,        \* what the provider would report of each function
  namespaces,   \* those the provider knows; none when it has no such notion
  watch,        \* the watcher: sleeping, fetching, publishing; dead
  todo,         \* namespaces it has still to ask for
  wholesale,    \* it asks for the default namespace only
  fetched,      \* services, the list of this poll
  unwritten,    \* words of e.services it has still to store
  services,     \* e.services: its array
  size,         \*   and its length
  seen,         \* history: counts the provider had since the poll began
  gauge,        \* the children of ServiceReplicasGauge
  scrape,       \* idle, reset, or filling
  snap,         \* what range e.services iterates over
  left,         \* the functions of it still to be set
  hand,         \* the child WithLabelValues returned to the scrape
  attached,     \* that child is still in the gauge
  alone         \* history: no other scrape has been under way meanwhile

providerVars == <<world, namespaces>>
watcherVars  == <<watch, todo, wholesale, fetched, unwritten, seen>>
sharedVars   == <<services, size>>
scrapeVars   == <<gauge, scrape, snap, left, hand, attached, alone>>
vars == <<providerVars, watcherVars, sharedVars, scrapeVars>>

Absent == -1
None == "none"

Lists   == [Functions -> Counts \cup {Absent}]
Nothing == [f \in Functions |-> Absent]

Present(list)    == {f \in Functions : list[f] # Absent}
Only(list, kept) == [f \in Functions |-> IF f \in kept THEN list[f] ELSE Absent]

TypeOK ==
  /\ world \in Lists
  /\ namespaces \in {Namespaces, {}}
  /\ watch \in {"sleeping", "fetching", "publishing", "dead"}
  /\ todo \subseteq Namespaces
  /\ wholesale \in BOOLEAN
  /\ fetched \in Lists
  /\ unwritten \subseteq {"array", "length"}
  /\ services \in Lists
  /\ size \in 0..Cardinality(Functions)
  /\ seen \in [Functions -> SUBSET Counts]
  /\ gauge \in [Functions -> Counts \cup {Absent, 0}]
  /\ scrape \in [Scrapes -> {"idle", "reset", "filling"}]
  /\ snap \in [Scrapes -> Lists]
  /\ left \in [Scrapes -> SUBSET Functions]
  /\ hand \in [Scrapes -> Functions \cup {None}]
  /\ \A s \in Scrapes : hand[s] \in left[s] \cup {None}
  /\ attached \in [Scrapes -> BOOLEAN]
  /\ alone \in [Scrapes -> BOOLEAN]

Init ==
  /\ world \in Lists
  /\ namespaces \in {Namespaces, {}}
  /\ watch = "sleeping"
  /\ todo = {}
  /\ wholesale = FALSE
  /\ fetched = Nothing
  /\ unwritten = {}
  /\ services = Nothing
  /\ size = 0
  /\ seen = [f \in Functions |-> {}]
  /\ gauge = Nothing
  /\ scrape = [s \in Scrapes |-> "idle"]
  /\ snap = [s \in Scrapes |-> Nothing]
  /\ left = [s \in Scrapes |-> {}]
  /\ hand = [s \in Scrapes |-> None]
  /\ attached = [s \in Scrapes |-> FALSE]
  /\ alone = [s \in Scrapes |-> FALSE]

------------------------------------------------------------------------------
(* The provider: a function is deployed, scaled or deleted. *)
Change(f) ==
  /\ \E n \in (Counts \cup {Absent}) \ {world[f]} :
       /\ world' = [world EXCEPT ![f] = n]
       /\ seen' = [seen EXCEPT ![f] = @ \cup ({n} \ {Absent})]
  /\ UNCHANGED <<namespaces, watch, todo, wholesale, fetched, unwritten,
                 sharedVars, scrapeVars>>

------------------------------------------------------------------------------
(* The watcher *)

(* A tick, and what getNamespaces returned: a list, or the empty list of a *)
(* provider without namespaces (404).                                      *)
StartPoll(found, list) ==
  /\ watch = "sleeping"
  /\ watch' = "fetching"
  /\ todo' = IF found = {} THEN {DefaultNamespace} ELSE found
  /\ wholesale' = (found = {})
  /\ fetched' = list
  /\ seen' = [f \in Functions |-> {world[f]} \ {Absent}]
  /\ UNCHANGED <<providerVars, unwritten, sharedVars, scrapeVars>>

(* services declared outside the loop. *)
PollAccumulating == StartPoll(namespaces, fetched)

Poll == StartPoll(namespaces, Nothing)

(* An error is only logged: the poll goes on with what came with it,       *)
(* nothing or the names that were decoded.                                 *)
PollPartly == \E found \in SUBSET namespaces : StartPoll(found, Nothing)

(* What getFunctions returns of a namespace. *)
Listed(ns) ==
  [f \in Functions |-> IF namespaces = {} \/ HomeOf[f] = ns THEN world[f] ELSE Absent]

Fetch(ns) ==
  /\ watch = "fetching"
  /\ ns \in todo
  /\ todo' = todo \ {ns}
  /\ fetched' = [f \in Functions |->
                   IF Listed(ns)[f] # Absent THEN Listed(ns)[f] ELSE fetched[f]]
  /\ UNCHANGED <<providerVars, watch, wholesale, unwritten, seen, sharedVars, scrapeVars>>

(* One namespace less in this poll's list, or no list at all. *)
FetchFailed(ns) ==
  /\ watch = "fetching"
  /\ ns \in todo
  /\ todo' = todo \ {ns}
  /\ watch' = IF wholesale THEN "sleeping" ELSE "fetching"
  /\ UNCHANGED <<providerVars, wholesale, fetched, unwritten, seen, sharedVars, scrapeVars>>

(* Publishes only a list that has something in it. *)
PublishUnlessEmpty ==
  /\ watch = "fetching"
  /\ todo = {}
  /\ watch' = IF fetched = Nothing THEN "sleeping" ELSE "publishing"
  /\ unwritten' = IF fetched = Nothing THEN {} ELSE {"array", "length"}
  /\ UNCHANGED <<providerVars, todo, wholesale, fetched, seen, sharedVars, scrapeVars>>

Publish ==
  /\ watch = "fetching"
  /\ todo = {}
  /\ watch' = "publishing"
  /\ unwritten' = {"array", "length"}
  /\ UNCHANGED <<providerVars, todo, wholesale, fetched, seen, sharedVars, scrapeVars>>

(* e.services = services stores the words of a slice one by one.  Line 106 *)
(* does so too, with the same list.                                        *)
Store(word) ==
  /\ watch = "publishing"
  /\ word \in unwritten
  /\ unwritten' = unwritten \ {word}
  /\ services' = IF word = "array" THEN fetched ELSE services
  /\ size' = IF word = "length" THEN Cardinality(Present(fetched)) ELSE size
  /\ watch' = IF unwritten' = {} THEN "sleeping" ELSE "publishing"
  /\ UNCHANGED <<providerVars, todo, wholesale, fetched, seen, scrapeVars>>

------------------------------------------------------------------------------
(* Collect, run by scrape s *)

Others(s) == {t \in Scrapes \ {s} : scrape[t] # "idle"}

(* Starts on what the last scrape left in the gauge. *)
ResetNothing(s) ==
  /\ watch # "dead"
  /\ scrape[s] = "idle"
  /\ scrape' = [scrape EXCEPT ![s] = "reset"]
  /\ alone' = [t \in Scrapes |-> t = s /\ Others(s) = {}]
  /\ UNCHANGED <<providerVars, watcherVars, sharedVars, gauge, snap, left, hand, attached>>

(* GaugeVec.Reset drops every child; a scrape that holds one sets it in    *)
(* vain.                                                                   *)
Reset(s) ==
  /\ watch # "dead"
  /\ scrape[s] = "idle"
  /\ scrape' = [scrape EXCEPT ![s] = "reset"]
  /\ alone' = [t \in Scrapes |-> t = s /\ Others(s) = {}]
  /\ gauge' = Nothing
  /\ attached' = [t \in Scrapes |-> FALSE]
  /\ UNCHANGED <<providerVars, watcherVars, sharedVars, snap, left, hand>>

(* range reads the slice once, without a lock: the words it finds may      *)
(* belong to two lists.                                                    *)
Read(s) ==
  /\ scrape[s] = "reset"
  /\ \E kept \in SUBSET Present(services) :
       /\ Cardinality(kept) = size
       /\ snap' = [snap EXCEPT ![s] = Only(services, kept)]
       /\ left' = [left EXCEPT ![s] = kept]
  /\ scrape' = [scrape EXCEPT ![s] = "filling"]
  /\ UNCHANGED <<providerVars, watcherVars, sharedVars, gauge, hand, attached, alone>>

(* A length beyond the list: the array may have room to spare.  Its zero   *)
(* elements come last, and are taken for functions without a name, whose   *)
(* child is left out here.                                                 *)
ReadSpare(s) ==
  /\ scrape[s] = "reset"
  /\ size > Cardinality(Present(services))
  /\ snap' = [snap EXCEPT ![s] = services]
  /\ left' = [left EXCEPT ![s] = Present(services)]
  /\ scrape' = [scrape EXCEPT ![s] = "filling"]
  /\ UNCHANGED <<providerVars, watcherVars, sharedVars, gauge, hand, attached, alone>>

(* Without that room the iteration runs into foreign memory, and the       *)
(* process dies of it.                                                     *)
ReadPastEnd(s) ==
  /\ scrape[s] = "reset"
  /\ size > Cardinality(Present(services))
  /\ watch' = "dead"
  /\ scrape' = [t \in Scrapes |-> "idle"]
  /\ UNCHANGED <<providerVars, todo, wholesale, fetched, unwritten, seen, sharedVars,
                 gauge, snap, left, hand, attached, alone>>

(* Counts the child as set before Set. *)
TakeChildEarly(s) ==
  /\ scrape[s] = "filling"
  /\ hand[s] = None
  /\ \E f \in left[s] :
       /\ hand' = [hand EXCEPT ![s] = f]
       /\ left' = [left EXCEPT ![s] = @ \ {f}]
       /\ gauge' = IF gauge[f] = Absent THEN [gauge EXCEPT ![f] = 0] ELSE gauge
  /\ attached' = [attached EXCEPT ![s] = TRUE]
  /\ UNCHANGED <<providerVars, watcherVars, sharedVars, scrape, snap, alone>>

(* WithLabelValues: a child that is not there starts at zero. *)
TakeChild(s) ==
  /\ scrape[s] = "filling"
  /\ hand[s] = None
  /\ \E f \in left[s] :
       /\ hand' = [hand EXCEPT ![s] = f]
       /\ gauge' = IF gauge[f] = Absent THEN [gauge EXCEPT ![f] = 0] ELSE gauge
  /\ attached' = [attached EXCEPT ![s] = TRUE]
  /\ UNCHANGED <<providerVars, watcherVars, sharedVars, scrape, snap, left, alone>>

SetChild(s) ==
  /\ scrape[s] = "filling"
  /\ hand[s] # None
  /\ gauge' = IF attached[s] THEN [gauge EXCEPT ![hand[s]] = snap[s][hand[s]]] ELSE gauge
  /\ left' = [left EXCEPT ![s] = @ \ {hand[s]}]
  /\ hand' = [hand EXCEPT ![s] = None]
  /\ attached' = [attached EXCEPT ![s] = FALSE]
  /\ UNCHANGED <<providerVars, watcherVars, sharedVars, scrape, snap, alone>>

(* The scrape reports what is in the gauge. *)
CollectGauge(s) ==
  /\ scrape[s] = "filling"
  /\ left[s] = {}
  /\ scrape' = [scrape EXCEPT ![s] = "idle"]
  /\ snap' = [snap EXCEPT ![s] = Nothing]
  /\ alone' = [alone EXCEPT ![s] = FALSE]
  /\ UNCHANGED <<providerVars, watcherVars, sharedVars, gauge, left, hand, attached>>

------------------------------------------------------------------------------
Watch == Poll \/ (\E ns \in Namespaces : Fetch(ns)) \/ Publish
              \/ (\E word \in {"array", "length"} : Store(word))

Collect(s) == Reset(s) \/ Read(s) \/ ReadSpare(s) \/ TakeChild(s) \/ SetChild(s)
                \/ CollectGauge(s)

Quiet == Watch \/ \E s \in Scrapes : Collect(s)

Next ==
  \/ Quiet
  \/ \E f \in Functions : Change(f)
  \/ PollPartly
  \/ \E ns \in Namespaces : FetchFailed(ns)
  \/ \E s \in Scrapes : ReadPastEnd(s)

(* The ticker ticks, and every call to the provider ends. *)
Spec == Init /\ [][Next]_vars /\ WF_vars(Watch)

------------------------------------------------------------------------------
(* Properties *)

(* What a scrape that overlapped no other reports of the functions is what *)
(* it read of e.services, torn or not: a function that is not in there     *)
(* leaves nothing behind from earlier scrapes.                             *)
LoneScrapeIsExact ==
  [][\A s \in Scrapes : CollectGauge(s) /\ alone[s] => gauge = snap[s]]_vars

(* Whatever calls fail, a poll publishes only counts that the provider had *)
(* at some time since that poll began.                                     *)
PublishedIsRecent ==
  [][services' # services =>
       \A f \in Present(services') : services'[f] \in seen[f]]_vars

(* Once functions stop changing and calls stop failing, the exporter knows *)
(* every function and forgets every deleted one.                           *)
SettlesWhenQuiet ==
  [](watch # "dead") /\ <>[][Quiet]_vars => <>[](services = world)
=============================================================================
