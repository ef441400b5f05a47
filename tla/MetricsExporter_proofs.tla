----------------------- MODULE MetricsExporter_proofs -----------------------
(***************************************************************************)
(* Type correctness of MetricsExporter and its two action properties, for  *)
(* any functions, namespaces and counts and any number of scrapes: what is *)
(* published is recent, and a scrape that overlaps no other is exact.      *)
(***************************************************************************)
EXTENDS MetricsExporter, FiniteSetTheorems, TLAPS

PolledTypeOK ==
  /\ world \in Lists
  /\ namespaces \in {Namespaces, {}}
  /\ watch \in {"sleeping", "fetching", "publishing", "dead"}
  /\ todo \subseteq Namespaces
  /\ wholesale \in BOOLEAN
  /\ fetched \in Lists
  /\ unwritten \subseteq {"array", "length"}
  /\ services \in Lists
  /\ size \in 0..Cardinality(Functions)
  /\ seen \in [Functions -> SUBSET Counts]

ScrapedTypeOK ==
  /\ gauge \in [Functions -> Counts \cup {Absent, 0}]
  /\ scrape \in [Scrapes -> {"idle", "reset", "filling"}]
  /\ snap \in [Scrapes -> Lists]
  /\ left \in [Scrapes -> SUBSET Functions]
  /\ hand \in [Scrapes -> Functions \cup {None}]
  /\ \A s \in Scrapes : hand[s] \in left[s] \cup {None}
  /\ attached \in [Scrapes -> BOOLEAN]
  /\ alone \in [Scrapes -> BOOLEAN]

(* During a poll, the counts the provider has had since the poll began     *)
(* include those it has, and those the watcher has been given.             *)
RecentInv ==
  watch \in {"fetching", "publishing"} =>
    \A f \in Functions :
      /\ world[f] # Absent => world[f] \in seen[f]
      /\ fetched[f] # Absent => fetched[f] \in seen[f]

(* No scrape outlives the process; one that has not read holds nothing.    *)
IdleInv ==
  /\ watch = "dead" => \A s \in Scrapes : scrape[s] = "idle"
  /\ watch # "dead" => \A s \in Scrapes : scrape[s] # "filling" => hand[s] = None

(* A scrape that is alone finds the gauge as it left it: empty before it   *)
(* has read, and then as in what it read but for the functions left to     *)
(* set.                                                                    *)
AloneInv ==
  \A s \in Scrapes :
    scrape[s] # "idle" /\ alone[s] =>
      /\ \A t \in Scrapes : t # s => scrape[t] = "idle"
      /\ scrape[s] = "reset" => gauge = Nothing
      /\ hand[s] # None => attached[s]
      /\ scrape[s] = "filling" =>
           \A f \in Functions : f \notin left[s] => gauge[f] = snap[s][f]

ExporterInv == TypeOK /\ RecentInv /\ IdleInv /\ AloneInv

------------------------------------------------------------------------------
(* Lists *)

LEMMA TypeParts == TypeOK <=> PolledTypeOK /\ ScrapedTypeOK
BY DEF TypeOK, PolledTypeOK, ScrapedTypeOK

LEMMA AbsentCount == Absent \notin Counts /\ Absent # 0
BY ExporterAssumption DEF Absent

LEMMA NothingType == Nothing \in Lists /\ \A f \in Functions : Nothing[f] = Absent
BY DEF Nothing, Lists

LEMMA OnlyType ==
  ASSUME NEW list \in Lists, NEW kept
  PROVE  /\ Only(list, kept) \in Lists
         /\ \A f \in Functions : Only(list, kept)[f] = IF f \in kept THEN list[f] ELSE Absent
BY DEF Only, Lists

(* The length of a list is that of a set of functions. *)
LEMMA LengthType ==
  ASSUME NEW list
  PROVE  Cardinality(Present(list)) \in 0..Cardinality(Functions)
<1>1. IsFiniteSet(Functions) /\ Present(list) \subseteq Functions
  BY ExporterAssumption DEF Present
<1>2. IsFiniteSet(Present(list)) /\ Cardinality(Present(list)) <= Cardinality(Functions)
  BY <1>1, FS_Subset
<1> QED
  BY <1>1, <1>2, FS_CardinalityType

(* What getFunctions lists, and the poll's list with it added. *)
LEMMA ListedType ==
  ASSUME PolledTypeOK, NEW ns
  PROVE  /\ Listed(ns) \in Lists
         /\ \A f \in Functions : Listed(ns)[f] \in {world[f], Absent}
BY DEF PolledTypeOK, Listed, Lists

------------------------------------------------------------------------------
(* Steps of the watcher and of the provider *)

LEMMA ChangeInv ==
  ASSUME ExporterInv, NEW f \in Functions, Change(f)
  PROVE  PolledTypeOK' /\ RecentInv' /\ UNCHANGED <<watch, services>>
<1>1. PICK n \in (Counts \cup {Absent}) \ {world[f]} :
        /\ world' = [world EXCEPT ![f] = n]
        /\ seen' = [seen EXCEPT ![f] = @ \cup ({n} \ {Absent})]
  BY DEF Change
<1>2. UNCHANGED <<namespaces, watch, todo, wholesale, fetched, unwritten, services, size>>
  BY DEF Change, sharedVars
<1>3. PolledTypeOK
  BY TypeParts DEF ExporterInv
<1>4. seen[f] \cup ({n} \ {Absent}) \in SUBSET Counts
  BY <1>1, <1>3 DEF PolledTypeOK
<1>5. PolledTypeOK'
  BY <1>1, <1>2, <1>3, <1>4 DEF PolledTypeOK, Lists
<1>6. RecentInv'
  BY <1>1, <1>2, <1>3 DEF ExporterInv, RecentInv, PolledTypeOK, Lists
<1> QED
  BY <1>2, <1>5, <1>6

LEMMA StartPollInv ==
  ASSUME ExporterInv, NEW found \in SUBSET Namespaces, StartPoll(found, Nothing)
  PROVE  PolledTypeOK' /\ RecentInv' /\ UNCHANGED services /\ watch # "dead" /\ watch' # "dead"
<1>1. PolledTypeOK
  BY TypeParts DEF ExporterInv
<1>2. seen' \in [Functions -> SUBSET Counts]
  BY <1>1 DEF StartPoll, PolledTypeOK, Lists
<1>3. PolledTypeOK'
  BY <1>1, <1>2, NothingType, ExporterAssumption
     DEF StartPoll, PolledTypeOK, providerVars, sharedVars
<1>4. RecentInv'
  BY <1>1, NothingType DEF StartPoll, RecentInv, providerVars, PolledTypeOK, Lists
<1> QED
  BY <1>3, <1>4 DEF StartPoll, sharedVars

LEMMA FetchInv ==
  ASSUME ExporterInv, NEW ns \in Namespaces, Fetch(ns) \/ FetchFailed(ns)
  PROVE  PolledTypeOK' /\ RecentInv' /\ UNCHANGED services /\ watch # "dead" /\ watch' # "dead"
<1>1. PolledTypeOK
  BY TypeParts DEF ExporterInv
<1>2. CASE Fetch(ns)
  <2>1. \A f \in Functions : fetched'[f] \in {world[f], fetched[f]}
    BY <1>1, <1>2, ListedType DEF Fetch
  <2>2. fetched' \in Lists
    BY <1>1, <1>2, <2>1 DEF Fetch, PolledTypeOK, Lists
  <2>3. PolledTypeOK'
    BY <1>1, <1>2, <2>2 DEF Fetch, PolledTypeOK, providerVars, sharedVars
  <2>4. RecentInv'
    BY <1>2, <2>1 DEF Fetch, ExporterInv, RecentInv, providerVars
  <2> QED
    BY <1>2, <2>3, <2>4 DEF Fetch, sharedVars
<1>3. CASE FetchFailed(ns)
  BY <1>1, <1>3
     DEF FetchFailed, ExporterInv, RecentInv, PolledTypeOK, providerVars, sharedVars
<1> QED
  BY <1>2, <1>3

LEMMA PublishInv ==
  ASSUME ExporterInv, Publish
  PROVE  PolledTypeOK' /\ RecentInv' /\ UNCHANGED services /\ watch # "dead" /\ watch' # "dead"
<1>1. PolledTypeOK
  BY TypeParts DEF ExporterInv
<1> QED
  BY <1>1 DEF Publish, ExporterInv, RecentInv, PolledTypeOK, providerVars, sharedVars

LEMMA StoreInv ==
  ASSUME ExporterInv, NEW word \in {"array", "length"}, Store(word)
  PROVE  /\ PolledTypeOK' /\ RecentInv'
         /\ services' \in {services, fetched}
         /\ watch = "publishing" /\ watch' # "dead"
<1>1. PolledTypeOK
  BY TypeParts DEF ExporterInv
<1>2. size' \in 0..Cardinality(Functions)
  BY <1>1, LengthType DEF Store, PolledTypeOK
<1>3. PolledTypeOK'
  BY <1>1, <1>2 DEF Store, PolledTypeOK, providerVars
<1>4. RecentInv'
  BY DEF Store, ExporterInv, RecentInv, providerVars
<1> QED
  BY <1>3, <1>4 DEF Store

------------------------------------------------------------------------------
(* What the watcher and the provider do leaves the scrapes alone, and the  *)
(* scrapes leave the poll alone.                                           *)

LEMMA ScrapesUndisturbed ==
  ASSUME ExporterInv, UNCHANGED scrapeVars, PolledTypeOK', RecentInv',
         watch = "dead" <=> watch' = "dead"
  PROVE  ExporterInv'
<1>1. UNCHANGED <<gauge, scrape, snap, left, hand, attached, alone>>
  BY DEF scrapeVars
<1>2. ScrapedTypeOK'
  BY <1>1, TypeParts DEF ExporterInv, ScrapedTypeOK
<1>3. IdleInv' /\ AloneInv'
  BY <1>1 DEF ExporterInv, IdleInv, AloneInv
<1> QED
  BY <1>2, <1>3, TypeParts DEF ExporterInv, TypeOK, PolledTypeOK, ScrapedTypeOK

LEMMA PollUndisturbed ==
  ASSUME ExporterInv, UNCHANGED <<providerVars, watcherVars, sharedVars>>
  PROVE  PolledTypeOK' /\ RecentInv' /\ UNCHANGED <<watch, services, size>>
<1>1. UNCHANGED <<world, namespaces, watch, todo, wholesale, fetched, unwritten, seen,
                  services, size>>
  BY DEF providerVars, watcherVars, sharedVars
<1>2. PolledTypeOK
  BY TypeParts DEF ExporterInv
<1>3. PolledTypeOK'
  BY <1>1, <1>2 DEF PolledTypeOK
<1>4. RecentInv'
  BY <1>1 DEF ExporterInv, RecentInv
<1> QED
  BY <1>1, <1>3, <1>4

LEMMA PolledTogether ==
  ASSUME PolledTypeOK', RecentInv', ScrapedTypeOK', IdleInv', AloneInv'
  PROVE  ExporterInv'
BY DEF ExporterInv, TypeOK, PolledTypeOK, ScrapedTypeOK

------------------------------------------------------------------------------
(* Steps of a scrape *)

LEMMA ResetInv ==
  ASSUME ExporterInv, NEW s \in Scrapes, Reset(s)
  PROVE  ExporterInv'
<1>1. ScrapedTypeOK
  BY TypeParts DEF ExporterInv
<1>2. PolledTypeOK' /\ RecentInv' /\ UNCHANGED watch
  BY PollUndisturbed DEF Reset
<1>3. /\ gauge' = Nothing
      /\ \A t \in Scrapes : scrape'[t] = IF t = s THEN "reset" ELSE scrape[t]
      /\ \A t \in Scrapes : alone'[t] <=> t = s /\ Others(s) = {}
      /\ UNCHANGED <<snap, left, hand>>
  BY <1>1 DEF Reset, ScrapedTypeOK
<1>4. ScrapedTypeOK'
  <2>1. gauge' \in [Functions -> Counts \cup {Absent, 0}]
    BY <1>3, NothingType DEF Lists
  <2> QED
    BY <1>1, <1>3, <2>1 DEF Reset, ScrapedTypeOK
<1>5. IdleInv'
  BY <1>2, <1>3 DEF Reset, ExporterInv, IdleInv
<1>6. AloneInv'
  BY <1>3 DEF Reset, ExporterInv, IdleInv, AloneInv, Others
<1> QED
  BY <1>2, <1>4, <1>5, <1>6, PolledTogether

(* Whatever the scrape found, what is not left to set is absent from it.   *)
LEMMA FoundInv ==
  ASSUME ExporterInv, NEW s \in Scrapes, NEW found \in Lists, NEW rest \in SUBSET Functions,
         \A f \in Functions : f \notin rest => found[f] = Absent,
         scrape[s] = "reset",
         scrape' = [scrape EXCEPT ![s] = "filling"],
         snap' = [snap EXCEPT ![s] = found],
         left' = [left EXCEPT ![s] = rest],
         UNCHANGED <<providerVars, watcherVars, sharedVars, gauge, hand, attached, alone>>
  PROVE  ExporterInv'
<1>1. ScrapedTypeOK /\ PolledTypeOK
  BY TypeParts DEF ExporterInv
<1>2. PolledTypeOK' /\ RecentInv' /\ UNCHANGED watch
  BY PollUndisturbed
<1>3. watch # "dead"
  BY DEF ExporterInv, IdleInv
<1>4. hand[s] = None
  BY <1>3 DEF ExporterInv, IdleInv
<1>5. ScrapedTypeOK'
  BY <1>1, <1>4 DEF ScrapedTypeOK
<1>6. IdleInv'
  BY <1>1, <1>2 DEF ExporterInv, IdleInv, ScrapedTypeOK
<1>7. AloneInv'
  BY <1>1, NothingType DEF ExporterInv, AloneInv, ScrapedTypeOK
<1> QED
  BY <1>2, <1>5, <1>6, <1>7, PolledTogether

LEMMA ReadInv ==
  ASSUME ExporterInv, NEW s \in Scrapes, Read(s)
  PROVE  ExporterInv'
<1>1. services \in Lists
  BY DEF ExporterInv, TypeOK
<1>2. PICK kept \in SUBSET Present(services) :
        /\ snap' = [snap EXCEPT ![s] = Only(services, kept)]
        /\ left' = [left EXCEPT ![s] = kept]
  BY DEF Read
<1>3. kept \in SUBSET Functions
  BY DEF Present
<1>4. /\ Only(services, kept) \in Lists
      /\ \A f \in Functions : f \notin kept => Only(services, kept)[f] = Absent
  BY <1>1, OnlyType
<1> QED
  BY <1>2, <1>3, <1>4, FoundInv DEF Read

LEMMA ReadSpareInv ==
  ASSUME ExporterInv, NEW s \in Scrapes, ReadSpare(s)
  PROVE  ExporterInv'
<1>1. services \in Lists
  BY DEF ExporterInv, TypeOK
<1>2. /\ Present(services) \in SUBSET Functions
      /\ \A f \in Functions : f \notin Present(services) => services[f] = Absent
  BY DEF Present
<1> QED
  BY <1>1, <1>2, FoundInv DEF ReadSpare

LEMMA TakeChildInv ==
  ASSUME ExporterInv, NEW s \in Scrapes, TakeChild(s)
  PROVE  ExporterInv'
<1>1. ScrapedTypeOK
  BY TypeParts DEF ExporterInv
<1>2. PolledTypeOK' /\ RecentInv' /\ UNCHANGED watch
  BY PollUndisturbed DEF TakeChild
<1>3. PICK f \in left[s] :
        /\ hand' = [hand EXCEPT ![s] = f]
        /\ gauge' = IF gauge[f] = Absent THEN [gauge EXCEPT ![f] = 0] ELSE gauge
  BY DEF TakeChild
<1>4. /\ scrape[s] = "filling" /\ hand[s] = None
      /\ attached' = [attached EXCEPT ![s] = TRUE]
      /\ UNCHANGED <<scrape, snap, left, alone>>
  BY DEF TakeChild
<1>5. f \in Functions /\ \A g \in Functions : g # f => gauge'[g] = gauge[g]
  BY <1>1, <1>3 DEF ScrapedTypeOK
<1>6. ScrapedTypeOK'
  BY <1>1, <1>3, <1>4, <1>5 DEF ScrapedTypeOK
<1>7. IdleInv'
  BY <1>1, <1>2, <1>3, <1>4 DEF ExporterInv, IdleInv, ScrapedTypeOK
<1>8. AloneInv'
  BY <1>1, <1>3, <1>4, <1>5 DEF ExporterInv, AloneInv, ScrapedTypeOK
<1> QED
  BY <1>2, <1>6, <1>7, <1>8, PolledTogether

LEMMA SetChildInv ==
  ASSUME ExporterInv, NEW s \in Scrapes, SetChild(s)
  PROVE  ExporterInv'
<1>1. ScrapedTypeOK
  BY TypeParts DEF ExporterInv
<1>2. PolledTypeOK' /\ RecentInv' /\ UNCHANGED watch
  BY PollUndisturbed DEF SetChild
<1>3. hand[s] \in left[s] /\ hand[s] \in Functions
  BY <1>1 DEF SetChild, ScrapedTypeOK
<1>4. /\ scrape[s] = "filling"
      /\ gauge' = IF attached[s] THEN [gauge EXCEPT ![hand[s]] = snap[s][hand[s]]] ELSE gauge
      /\ left' = [left EXCEPT ![s] = left[s] \ {hand[s]}]
      /\ hand' = [hand EXCEPT ![s] = None]
      /\ attached' = [attached EXCEPT ![s] = FALSE]
      /\ hand[s] # None
      /\ UNCHANGED <<scrape, snap, alone>>
  BY DEF SetChild
<1>5. snap[s][hand[s]] \in Counts \cup {Absent}
  BY <1>1, <1>3 DEF ScrapedTypeOK, Lists
<1>6. ScrapedTypeOK'
  BY <1>1, <1>3, <1>4, <1>5 DEF ScrapedTypeOK
<1>7. IdleInv'
  BY <1>1, <1>2, <1>4 DEF ExporterInv, IdleInv, ScrapedTypeOK
<1>8. AloneInv'
  BY <1>1, <1>3, <1>4 DEF ExporterInv, AloneInv, ScrapedTypeOK
<1> QED
  BY <1>2, <1>6, <1>7, <1>8, PolledTogether

LEMMA CollectGaugeInv ==
  ASSUME ExporterInv, NEW s \in Scrapes, CollectGauge(s)
  PROVE  ExporterInv'
<1>1. ScrapedTypeOK
  BY TypeParts DEF ExporterInv
<1>2. PolledTypeOK' /\ RecentInv' /\ UNCHANGED watch
  BY PollUndisturbed DEF CollectGauge
<1>3. /\ left[s] = {}
      /\ scrape[s] = "filling"
      /\ scrape' = [scrape EXCEPT ![s] = "idle"]
      /\ snap' = [snap EXCEPT ![s] = Nothing]
      /\ alone' = [alone EXCEPT ![s] = FALSE]
      /\ UNCHANGED <<gauge, left, hand, attached>>
  BY DEF CollectGauge
<1>4. hand[s] = None
  BY <1>1, <1>3 DEF ScrapedTypeOK
<1>5. ScrapedTypeOK'
  BY <1>1, <1>3, NothingType DEF ScrapedTypeOK
<1>6. IdleInv'
  BY <1>1, <1>2, <1>3, <1>4 DEF ExporterInv, IdleInv, ScrapedTypeOK
<1>7. AloneInv'
  BY <1>1, <1>3 DEF ExporterInv, AloneInv, ScrapedTypeOK
<1> QED
  BY <1>2, <1>5, <1>6, <1>7, PolledTogether

(* The process dies, and every scrape with it. *)
LEMMA ReadPastEndInv ==
  ASSUME ExporterInv, NEW s \in Scrapes, ReadPastEnd(s)
  PROVE  ExporterInv'
<1>1. ScrapedTypeOK /\ PolledTypeOK
  BY TypeParts DEF ExporterInv
<1>2. /\ watch' = "dead"
      /\ scrape' = [t \in Scrapes |-> "idle"]
      /\ UNCHANGED <<world, namespaces, todo, wholesale, fetched, unwritten, seen, services,
                     size, gauge, snap, left, hand, attached, alone>>
  BY DEF ReadPastEnd, providerVars, sharedVars
<1>3. PolledTypeOK'
  BY <1>1, <1>2 DEF PolledTypeOK
<1>4. ScrapedTypeOK'
  BY <1>1, <1>2 DEF ScrapedTypeOK
<1>5. RecentInv' /\ IdleInv' /\ AloneInv'
  BY <1>2 DEF RecentInv, IdleInv, AloneInv
<1> QED
  BY <1>3, <1>4, <1>5, PolledTogether

------------------------------------------------------------------------------
LEMMA ExporterInitInv == Init => ExporterInv
<1> SUFFICES ASSUME Init PROVE ExporterInv
  OBVIOUS
<1>1. Cardinality(Functions) \in Nat
  BY ExporterAssumption, FS_CardinalityType
<1>2. PolledTypeOK
  <2>1. size \in 0..Cardinality(Functions) /\ seen \in [Functions -> SUBSET Counts]
    BY <1>1 DEF Init
  <2>2. fetched \in Lists /\ services \in Lists
    BY NothingType DEF Init
  <2>3. todo \subseteq Namespaces /\ unwritten \subseteq {"array", "length"}
    BY DEF Init
  <2> QED
    BY <2>1, <2>2, <2>3 DEF Init, PolledTypeOK
<1>3. ScrapedTypeOK
  <2>1. gauge \in [Functions -> Counts \cup {Absent, 0}]
    BY NothingType DEF Init, Lists
  <2> QED
    BY <2>1, NothingType DEF Init, ScrapedTypeOK
<1>4. RecentInv /\ IdleInv /\ AloneInv
  BY DEF Init, RecentInv, IdleInv, AloneInv
<1> QED
  BY <1>2, <1>3, <1>4, TypeParts DEF ExporterInv

LEMMA ExporterNextInv == ExporterInv /\ [Next]_vars => ExporterInv'
<1> SUFFICES ASSUME ExporterInv, [Next]_vars PROVE ExporterInv'
  OBVIOUS
<1>1. CASE \E f \in Functions : Change(f)
  <2>1. PICK f \in Functions : Change(f)
    BY <1>1
  <2>2. PolledTypeOK' /\ RecentInv' /\ watch' = watch
    BY <2>1, ChangeInv
  <2>3. UNCHANGED scrapeVars
    BY <2>1 DEF Change
  <2> QED
    BY <2>2, <2>3, ScrapesUndisturbed
<1>2. CASE Poll \/ PollPartly
  <2>1. namespaces \in {Namespaces, {}}
    BY DEF ExporterInv, TypeOK
  <2>2. PICK found \in SUBSET Namespaces : StartPoll(found, Nothing)
    BY <1>2, <2>1 DEF Poll, PollPartly
  <2> QED
    BY <2>2, StartPollInv, ScrapesUndisturbed DEF StartPoll
<1>3. CASE \E ns \in Namespaces : Fetch(ns) \/ FetchFailed(ns)
  BY <1>3, FetchInv, ScrapesUndisturbed DEF Fetch, FetchFailed
<1>4. CASE Publish
  BY <1>4, PublishInv, ScrapesUndisturbed DEF Publish
<1>5. CASE \E word \in {"array", "length"} : Store(word)
  BY <1>5, StoreInv, ScrapesUndisturbed DEF Store
<1>6. CASE \E s \in Scrapes : Collect(s) \/ ReadPastEnd(s)
  BY <1>6, ResetInv, ReadInv, ReadSpareInv, TakeChildInv, SetChildInv, CollectGaugeInv,
     ReadPastEndInv
     DEF Collect
<1>7. CASE UNCHANGED vars
  BY <1>7, PollUndisturbed, ScrapesUndisturbed DEF vars
<1> QED
  BY <1>1, <1>2, <1>3, <1>4, <1>5, <1>6, <1>7 DEF Next, Quiet, Watch

LEMMA ExporterInvariance == Spec => []ExporterInv
BY ExporterInitInv, ExporterNextInv, PTL DEF Spec

(* The exporter's variables keep their types; in particular a scrape only  *)
(* ever holds the child of a function that is still to be set (exporter.go *)
(* 63-74).                                                                 *)
THEOREM ExporterTypeCorrect == Spec => []TypeOK
<1>1. ExporterInv => TypeOK
  BY DEF ExporterInv
<1> QED
  BY <1>1, ExporterInvariance, PTL

(* Whatever calls fail and however the namespaces come and go, the watcher *)
(* stores only counts the provider had since the poll began.               *)
THEOREM PublishesRecent == Spec => PublishedIsRecent
<1>1. ExporterInv /\ [Next]_vars =>
        [services' # services =>
           \A f \in Present(services') : services'[f] \in seen[f]]_vars
  <2> SUFFICES ASSUME ExporterInv, [Next]_vars, services' # services
               PROVE  \A f \in Present(services') : services'[f] \in seen[f]
    OBVIOUS
  <2>1. PICK word \in {"array", "length"} : Store(word)
    BY DEF Next, Quiet, Watch, Collect, Poll, PollPartly, StartPoll, Fetch, FetchFailed,
           Publish, Change, Reset, Read, ReadSpare, TakeChild, SetChild, CollectGauge,
           ReadPastEnd, vars, sharedVars
  <2>2. services' = fetched /\ watch = "publishing"
    BY <2>1, StoreInv
  <2> QED
    BY <2>2 DEF ExporterInv, RecentInv, Present
<1> QED
  BY <1>1, ExporterInvariance, PTL DEF Spec, PublishedIsRecent

(* When a scrape that overlapped no other reports, the gauge is what that  *)
(* scrape read of e.services, although the gauge is shared and no lock is  *)
(* held from the Reset to the Collect (exporter.go 62-78).  What it read   *)
(* may itself be torn: the array of one list, the length of another.       *)
THEOREM LoneScrapesAreExact == Spec => LoneScrapeIsExact
<1>1. ExporterInv => [\A s \in Scrapes : CollectGauge(s) /\ alone[s] => gauge = snap[s]]_vars
  <2> SUFFICES ASSUME ExporterInv, NEW s \in Scrapes, CollectGauge(s), alone[s]
               PROVE  gauge = snap[s]
    OBVIOUS
  <2>1. left[s] = {} /\ scrape[s] = "filling"
    BY DEF CollectGauge
  <2>2. \A f \in Functions : gauge[f] = snap[s][f]
    BY <2>1 DEF ExporterInv, AloneInv
  <2>3. /\ gauge \in [Functions -> Counts \cup {Absent, 0}]
        /\ snap[s] \in [Functions -> Counts \cup {Absent}]
    BY DEF ExporterInv, TypeOK, Lists
  <2> QED
    BY <2>2, <2>3
<1> QED
  BY <1>1, ExporterInvariance, PTL DEF LoneScrapeIsExact
=============================================================================
