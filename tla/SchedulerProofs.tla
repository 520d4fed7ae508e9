-------------------------- MODULE SchedulerProofs --------------------------
(***************************************************************************)
(* Proofs about Scheduler, for any clusters, clouds, metrics, constraints, *)
(* limits of retries and scenarios: the state is well typed, no second     *)
(* cluster is created for an application that has none yet, unless users   *)
(* interfere while it is handled or the scheduler is restarted, and what   *)
(* is chosen fulfils the constraints.                                      *)
(*                                                                         *)
(* As long as the application has no cluster, one version of it is under   *)
(* way: an event, a queued or delayed version, or the one that is being    *)
(* handled; it names the cluster that was created, if any.  When the       *)
(* application has been bound, versions without a cluster remain in the    *)
(* queue.  With migration they are overtaken by the event of the binding   *)
(* before they are due; without, they wait for a cluster and so cause none *)
(* to be created.                                                          *)
(***************************************************************************)
EXTENDS Scheduler, FiniteSetTheorems, WellFoundedInduction, TLAPS

-----------------------------------------------------------------------------
(* What is chosen                                                          *)

\* select_maximum picks from what was scored.
LEMMA ChosenAmong ==
    ASSUME NEW scores, NEW places
    PROVE  Chosen(scores, places).names \subseteq DOMAIN scores
  <1> DEFINE values == [n \in DOMAIN scores |-> scores[n].value]
             best == {n \in DOMAIN values : \A o \in DOMAIN values : ~Below(values[n], values[o])}
             clusters == {n \in best : places[n].kind = "cluster"}
  <1>1. best \subseteq DOMAIN scores /\ clusters \subseteq DOMAIN scores
    OBVIOUS
  <1>2. SelectMaximum(values, places) =
          IF best = {} THEN Crash ELSE Outcome("place", IF clusters = {} THEN best ELSE clusters)
    BY DEF SelectMaximum
  <1>3. Chosen(scores, places) = Crash \/ Chosen(scores, places) = SelectMaximum(values, places)
    BY DEF Chosen
  <1> HIDE DEF best, clusters, values
  <1> QED BY <1>1, <1>2, <1>3 DEF Crash, Outcome

\* Scores are given to places whose metrics can be read, or to all of them.
LEMMA ScoredAmong ==
    ASSUME NEW names, NEW refs, NEW second, NEW wish
    PROVE  DOMAIN Ranked(names, refs, second, wish) \subseteq names
             /\ DOMAIN Unranked(names, wish) = names
  BY DEF Ranked, Unranked

\* A cloud that is chosen for a cluster is one of those that were listed, is not in
\* deletion and matches.
LEMMA CloudMatches ==
    ASSUME NEW wish, NEW clouds, NEW first, NEW second,
           NEW n \in SelectCloud(wish, clouds, first, second).names
    PROVE  /\ n \in DOMAIN clouds /\ ~clouds[n].deleted
           /\ Matches(wish, clouds[n], MetricsOf(clouds[n], first)) = "yes"
  <1> DEFINE refs == [k \in DOMAIN clouds |-> clouds[k].refs]
             verdicts == [k \in {m \in DOMAIN clouds : ~clouds[m].deleted} |->
                            Matches(wish, clouds[k], MetricsOf(clouds[k], first))]
             with == {k \in Yes(verdicts) : refs[k] # <<>>}
             ranked == Ranked(with, refs, second, wish)
             scores == IF ranked = <<>> THEN Unranked(Yes(verdicts), wish) ELSE ranked
             o == SelectCloud(wish, clouds, first, second)
             A == \/ \E k \in DOMAIN clouds : Crashes(refs[k], first)
                  \/ "crash" \in {verdicts[k] : k \in DOMAIN verdicts}
             B == Yes(verdicts) = {}
             C == \E k \in with : Crashes(refs[k], second)
  <1>1. \A k \in Yes(verdicts) : /\ k \in DOMAIN clouds /\ ~clouds[k].deleted
                               /\ Matches(wish, clouds[k], MetricsOf(clouds[k], first)) = "yes"
    BY DEF Yes
  <1>2. with \subseteq Yes(verdicts)
    OBVIOUS
  <1>3. o = Crash \/ o = None \/ o = Chosen(scores, clouds)
    <2>1. o = IF A THEN Crash ELSE IF B THEN None ELSE IF C THEN Crash ELSE Chosen(scores, clouds)
      BY DEF SelectCloud
    <2> HIDE DEF A, B, C, scores, o
    <2> QED BY <2>1
  <1>4. n \in o.names
    OBVIOUS
  <1> HIDE DEF refs, verdicts, with, o
  <1>5. DOMAIN scores \subseteq Yes(verdicts)
    BY <1>2, ScoredAmong
  <1> HIDE DEF scores
  <1>6. CASE o = Chosen(scores, clouds)
    BY <1>1, <1>4, <1>5, <1>6, ChosenAmong
  <1> QED BY <1>3, <1>4, <1>6 DEF Crash, None, Outcome

\* A cloud that is chosen for a cluster is one of those that were listed.
LEMMA CloudAmong ==
    ASSUME NEW wish, NEW clouds, NEW first, NEW second
    PROVE  SelectCloud(wish, clouds, first, second).names \subseteq DOMAIN clouds
  BY CloudMatches

\* Clouds are those of the namespace and the global ones.
LEMMA CloudsUnion == DOMAIN Clouds = DOMAIN Namespaced \cup DOMAIN Global
  BY DEF Clouds, Over

\* Inherited values and failed metrics leave a cluster in one of its states.
LEMMA StateAfterFetch ==
    ASSUME NEW p, NEW cl, NEW r, {"state"} \subseteq DOMAIN p, p.state \in ClusterStates
    PROVE  AfterFetch(Inherited(p, cl), r) \in ClusterStates
  <1> DEFINE q == Inherited(p, cl)
  <1>1. q.state = p.state
    BY DEF Inherited
  <1> HIDE DEF q
  <1>2. AfterFetch(q, r) \in {q.state, "ONLINE", "FAILING_METRICS"}
    BY DEF AfterFetch
  <1> QED BY <1>1, <1>2 DEF ClusterStates, q

\* A listing at the start tells of clusters that are in the database.
LEMMA ListingTyped ==
    ASSUME NEW es \in [Clusters -> Entries \cup {Null}]
    PROVE  Listing(es) \in Seq([cluster: Clusters, entry: Entries])
  <1> DEFINE S == {Change(c, es[c]) : c \in {d \in Clusters : es[d] # Null /\ Accepted(es[d])}}
             D == {d \in Clusters : es[d] # Null /\ Accepted(es[d])}
  <1>1. S \subseteq [cluster: Clusters, entry: Entries]
    BY DEF Change
  <1>2. IsFiniteSet(D)
    BY SchedulerAssumption, FS_Subset
  <1>3. IsFiniteSet(S)
    <2> DEFINE f == [c \in D |-> Change(c, es[c])]
    <2>1. f \in Surjection(D, S)
      BY DEF Surjection
    <2> QED BY <1>2, <2>1, FS_Surjection
  <1>4. Cardinality(S) \in Nat /\ ExistsBijection(1..Cardinality(S), S)
    BY <1>3, FS_CardinalityType
  <1>5. \E f \in [1..Cardinality(S) -> S] : IsInjective(f)
    BY <1>4 DEF ExistsBijection, Bijection, Injection
  <1> HIDE DEF S
  <1>6. SetToSeq(S) \in [1..Cardinality(S) -> S]
    BY <1>5 DEF SetToSeq
  <1>7. Listing(es) = SetToSeq(S)
    BY DEF Listing, S
  <1> DEFINE n == Cardinality(S)
             T == [cluster: Clusters, entry: Entries]
             l == SetToSeq(S)
  <1> HIDE DEF n, l, T
  <1>8. n \in Nat /\ l \in [1..n -> T]
    BY <1>1, <1>4, <1>6 DEF n, l, T
  <1>9. l \in Seq(T)
    BY <1>8
  <1> QED BY <1>7, <1>9 DEF l, T

-----------------------------------------------------------------------------
(* Types                                                                   *)

\* The types that are carried along include those that are stated.
LEMMA TypedIsType == Typed => TypeOK
  <1> SUFFICES ASSUME Typed PROVE TypeOK
    OBVIOUS
  <1>1. app # Null /\ app.retries = Unlimited => scenario.limit = Unlimited
    BY DEF Typed, AppOK, Counts, Counted
  <1>2. appQueue \in [dirty: Apps \cup {Null}, timer: Apps \cup {Null}]
    BY DEF Typed, QueueOK, Counts
  <1> QED BY <1>1, <1>2 DEF Typed, TypeOK, AppOK, Counts, EntriesOK, HandlersOK, AroundOK

\* The fields of a scenario, from SchedulerAssumption.
LEMMA ScenarioTyped ==
    ASSUME scenario \in Scenarios
    PROVE  /\ scenario.limit \in Nat \cup {Unlimited} /\ scenario.limit # Null
           /\ scenario.orderly \in BOOLEAN /\ scenario.migration \in BOOLEAN
           /\ scenario.auto \in BOOLEAN /\ scenario.neighbour \in BOOLEAN
           /\ scenario.budget \in [Kinds -> Nat]
           /\ scenario.clusters \in [Clusters -> Entries \cup {Null}]
           /\ \A c \in Spare : scenario.clusters[c] = Null
  <1>1. Null # Unlimited /\ Null \notin Nat
    BY SchedulerAssumption DEF Unlimited
  <1> QED BY <1>1, SchedulerAssumption DEF AllScenarios

\* The limit of retries is a part of the scenario, which stays.
LEMMA SameCounts == UNCHANGED scenario => Counts' = Counts /\ Live' = Live
  BY DEF Counts, Live, Counted

\* What a step leaves alone keeps its type: the application and its events, ...
LEMMA SameApp == AppOK /\ UNCHANGED <<app, events, scenario>> => AppOK'
  BY SameCounts DEF AppOK

\* ... the queue, ...
LEMMA SameQueue == QueueOK /\ UNCHANGED <<appQueue, scenario>> => QueueOK'
  BY SameCounts DEF QueueOK

\* ... the handler of the application, ...
LEMMA SameWorker == WorkerOK /\ UNCHANGED <<worker, scenario>> => WorkerOK'
  BY SameCounts DEF WorkerOK

\* ... the clusters and their events, ...
LEMMA SameEntries == EntriesOK /\ UNCHANGED <<entries, changes>> => EntriesOK'
  BY DEF EntriesOK

\* ... the handlers of clusters, ...
LEMMA SameHandlers == HandlersOK /\ UNCHANGED <<queues, workers>> => HandlersOK'
  BY DEF HandlersOK

\* ... and what happens around.
LEMMA SameAround == AroundOK /\ UNCHANGED <<readings, clock, scenario, budget>> => AroundOK'
  BY DEF AroundOK

\* An update of the application is stored and told to the watcher.
LEMMA WriteAppTyped ==
    ASSUME AppOK, UNCHANGED scenario, NEW a \in Counts, a.modified > 0, WriteApp(a)
    PROVE  AppOK'
  <1>1. app' = a /\ events' = Append(events, a) /\ events \in Seq(Counts)
    BY DEF AppOK, WriteApp
  <1>2. events' \in Seq(Counts)
    BY <1>1
  <1> QED BY <1>1, <1>2, SameCounts DEF AppOK

\* An update of a cluster is stored and told to the watcher.
LEMMA WriteEntryTyped ==
    ASSUME EntriesOK, NEW c \in Clusters, NEW e \in Entries, WriteEntry(c, e)
    PROVE  EntriesOK'
  <1> DEFINE T == [cluster: Clusters, entry: Entries]
  <1>1. changes \in Seq(T) /\ Change(c, e) \in T
    BY DEF EntriesOK, Change
  <1> HIDE DEF T
  <1>2. Append(changes, Change(c, e)) \in Seq(T)
    BY <1>1
  <1>3. changes' \in Seq(T)
    BY <1>1, <1>2 DEF WriteEntry
  <1>4. entries' \in [Clusters -> Entries \cup {Null}]
    BY DEF EntriesOK, WriteEntry
  <1> QED BY <1>3, <1>4 DEF EntriesOK, T

\* A handler that is done.
LEMMA IdleTyped == worker' = Idle => WorkerOK'
  BY DEF WorkerOK

\* A handler at one of its steps, with the version that it works on.
LEMMA AtTyped ==
    ASSUME UNCHANGED scenario, NEW a \in Live,
           NEW pc \in {"list", "confirm", "error", "create", "wait"}, worker' = At(pc, a)
    PROVE  WorkerOK'
  BY SameCounts DEF WorkerOK, At

\* reschedule_kubernetes_application puts a version with a delay, or leaves the queue.
LEMMA RescheduleTyped ==
    ASSUME QueueOK, NEW a \in Counts, NEW q \in [dirty: Counts \cup {Null}, timer: Counts \cup {Null}]
    PROVE  Reschedule(a, q) \in [dirty: Counts \cup {Null}, timer: Counts \cup {Null}]
  BY DEF Reschedule

\* The fields of a version that the handler works on.
LEMMA LiveFields ==
    ASSUME NEW a \in Live
    PROVE  /\ a \in Counts /\ a \in Apps
           /\ a.retries \in Nat \cup {Unlimited} /\ a.scheduled_to \in Clusters \cup {Nowhere}
           /\ a.waits \in Clusters \cup {Nowhere}
           /\ a.modified \in Nat /\ a.triggered \in Nat
  BY DEF Live, Counts, Apps

\* A successful attempt sets the number of retries back to the limit.
LEMMA ResetTyped ==
    ASSUME scenario \in Scenarios, NEW a \in Counts
    PROVE  [a EXCEPT !.retries = scenario.limit] \in Live
  BY ScenarioTyped DEF Live, Counts, Counted, Apps

\* The end of an attempt that raised nothing.
LEMMA HandledTyped ==
    ASSUME scenario \in Scenarios, UNCHANGED scenario, QueueOK, NEW a \in Counts, Handled(a)
    PROVE  QueueOK' /\ WorkerOK'
  <1>1. [a EXCEPT !.retries = scenario.limit] \in Counts
    BY ResetTyped, LiveFields
  <1> QED BY <1>1, RescheduleTyped, IdleTyped, SameCounts DEF Handled, QueueOK

\* A status report stores the application as it was, with the reported status.
LEMMA StatusTyped ==
    ASSUME AppOK, app # Null, NEW a \in Live
    PROVE  StatusOfApp(a) \in Counts /\ StatusOfApp(a).modified > 0
  BY DEF AppOK, StatusOfApp, Live, Counts, Counted, Apps

-----------------------------------------------------------------------------
(* Types: the handler of applications                                      *)

\* The state after the application was submitted.
LEMMA InitTyped == Init => Typed
  <1> SUFFICES ASSUME Init PROVE Typed
    OBVIOUS
  <1> USE DEF Init
  <1>0. scenario \in Scenarios
    OBVIOUS
  <1>1. app \in Counts /\ app.modified > 0
    <2>1. Null # Unlimited
      BY SchedulerAssumption DEF Unlimited
    <2> QED BY <2>1 DEF Submitted, Counts, Counted, Apps, AppStates, Unlimited
  <1>2. AppOK
    <2>1. events \in Seq(Counts)
      BY <1>1
    <2> QED BY <1>1, <2>1 DEF AppOK
  <1>3. QueueOK
    BY DEF QueueOK, NoVersion
  <1>4. WorkerOK
    BY DEF WorkerOK
  <1>5. EntriesOK
    BY <1>0, ScenarioTyped, ListingTyped DEF EntriesOK
  <1>6. HandlersOK
    BY DEF HandlersOK, WorkerStates, NoVersion
  <1>7. AroundOK
    BY <1>0, ScenarioTyped DEF AroundOK, Kinds
  <1> QED BY <1>2, <1>3, <1>4, <1>5, <1>6, <1>7 DEF Typed

\* received_kubernetes_app puts, delays or drops the version.
LEMMA ReceiveAppTyped == Typed /\ ReceiveApp => Typed'
  <1> SUFFICES ASSUME Typed, ReceiveApp PROVE Typed'
    OBVIOUS
  <1> USE DEF ReceiveApp
  <1> USE DEF Typed
  <1>1. Head(events) \in Counts /\ Tail(events) \in Seq(Counts)
    BY DEF AppOK
  <1>2. AppOK'
    BY <1>1, SameCounts DEF AppOK
  <1>3. Received(Head(events), appQueue) \in [dirty: Counts \cup {Null}, timer: Counts \cup {Null}]
    BY <1>1, RescheduleTyped DEF Received, QueueOK
  <1>4. QueueOK'
    BY <1>3, SameCounts DEF QueueOK
  <1> QED BY <1>2, <1>4, SameWorker, SameEntries, SameHandlers, SameAround DEF clusterVars

\* A timer hands its version over.
LEMMA FireAppTyped == Typed /\ FireApp => Typed'
  <1> SUFFICES ASSUME Typed, FireApp PROVE Typed'
    OBVIOUS
  <1> USE DEF FireApp
  <1> USE DEF Typed
  <1>1. QueueOK'
    BY SameCounts DEF QueueOK
  <1> QED BY <1>1, SameApp, SameWorker, SameEntries, SameHandlers, SameAround DEF clusterVars

\* The handler initialises the number of retries.
LEMMA TakenTyped ==
    ASSUME scenario \in Scenarios, NEW a \in Counts
    PROVE  [a EXCEPT !.retries = IF @ = Null THEN scenario.limit ELSE @] \in Live
  BY ScenarioTyped DEF Live, Counts, Counted, Apps

\* The handler takes a version that it may work on, or drops it.
LEMMA TakeAppTyped == Typed /\ TakeApp => Typed'
  <1> SUFFICES ASSUME Typed, TakeApp PROVE Typed'
    OBVIOUS
  <1> DEFINE a == [appQueue.dirty EXCEPT !.retries = IF @ = Null THEN scenario.limit ELSE @]
             rest == [appQueue EXCEPT !.dirty = Null]
             Q == [dirty: Counts \cup {Null}, timer: Counts \cup {Null}]
  <1>0. UNCHANGED <<app, events, clusterVars, readings, clock, scenario, budget>>
    BY DEF TakeApp
  <1>1. appQueue.dirty \in Counts /\ appQueue \in Q
    BY DEF TakeApp, Typed, QueueOK
  <1>2. a \in Live /\ [a EXCEPT !.retries = scenario.limit] \in Counts
    <2>1. a \in Live
      BY <1>1, TakenTyped DEF Typed, AroundOK
    <2> HIDE DEF a
    <2> QED BY <2>1, ResetTyped, LiveFields DEF Typed, AroundOK
  <1>3. rest \in Q
    BY <1>1
  <1>4. \/ UNCHANGED worker /\ (appQueue' = rest \/ appQueue' = Reschedule([a EXCEPT !.retries = scenario.limit], rest))
        \/ appQueue' = rest /\ worker' = At("list", a)
    BY DEF TakeApp
  <1> HIDE DEF a, rest, Q
  <1>5. appQueue' \in Q
    BY <1>1, <1>2, <1>3, <1>4, RescheduleTyped DEF Q, Typed
  <1>6. QueueOK'
    BY <1>0, <1>5, SameCounts DEF QueueOK, Q
  <1>7. WorkerOK'
    BY <1>0, <1>2, <1>4, AtTyped, SameWorker DEF Typed
  <1> QED BY <1>0, <1>6, <1>7, SameApp, SameEntries, SameHandlers, SameAround DEF clusterVars, Typed

\* With a cluster chosen the handler binds, confirms or is done.
LEMMA TargetTyped ==
    ASSUME AppOK, QueueOK, scenario \in Scenarios, UNCHANGED scenario, NEW a \in Live,
           NEW c \in Clusters, Target(a, c)
    PROVE  QueueOK' /\ WorkerOK'
  <1>1. CASE a.scheduled_to # c /\ worker' = To("bind", a, c) /\ UNCHANGED appQueue
    BY <1>1, SameQueue, SameCounts DEF WorkerOK, To
  <1>2. CASE worker' = At("confirm", [a EXCEPT !.triggered = Now]) /\ UNCHANGED appQueue
    <2>1. Now \in Nat
      BY DEF Now, AppOK, Counts, Apps
    <2>2. [a EXCEPT !.triggered = Now] \in Live
      BY <2>1 DEF Live, Counts, Counted, Apps
    <2> QED BY <1>2, <2>2, AtTyped, SameQueue
  <1>3. CASE Handled(a)
    BY <1>3, LiveFields, HandledTyped
  <1> QED BY <1>1, <1>2, <1>3 DEF Target

\* Clusters as the ranking sees them are in one of their states and at a cloud.
LEMMA PlaceOfTyped ==
    ASSUME EntriesOK
    PROVE  PlacesOK(PlaceOf(entries))
  <1> DEFINE p == PlaceOf(entries)
  <1>1. DOMAIN p = {d \in Clusters : entries[d] # Null}
    BY DEF PlaceOf
  <1>2. ASSUME NEW c \in DOMAIN p
        PROVE  /\ {"state", "deleted", "cloud"} \subseteq DOMAIN p[c]
               /\ p[c].state \in ClusterStates /\ p[c].cloud \in Homes
    <2>1. c \in Clusters /\ entries[c] \in Entries
      BY <1>1, <1>2 DEF EntriesOK
    <2>2. p[c] = [Described[c] EXCEPT !.state = entries[c].state, !.deleted = entries[c].deleted,
                                      !.cloud = entries[c].cloud]
      BY <1>1, <1>2 DEF PlaceOf
    <2>3. {"state", "deleted", "cloud"} \subseteq DOMAIN Described[c]
      BY <2>1, SchedulerAssumption
    <2> HIDE DEF p
    <2>4. p[c].state = entries[c].state /\ p[c].cloud = entries[c].cloud
            /\ DOMAIN p[c] = DOMAIN Described[c]
      BY <2>2, <2>3
    <2> QED BY <2>1, <2>3, <2>4 DEF Entries, Homes
  <1> HIDE DEF p
  <1>3. PlacesOK(p)
    BY <1>1, <1>2 DEF PlacesOK
  <1> QED BY <1>3 DEF p

\* The listing of clusters starts the ranking, an attempt to wait or an error.
LEMMA ListClustersTyped == Typed /\ ListClusters => Typed'
  <1> SUFFICES ASSUME Typed, ListClusters PROVE Typed'
    OBVIOUS
  <1> DEFINE a == worker.app
             places == PlaceOf(entries)
  <1>0. UNCHANGED <<app, events, clusterVars, readings, clock, scenario, budget>>
    BY DEF ListClusters
  <1>1. a \in Live /\ a \in Counts /\ a.waits \in Clusters \cup {Nowhere}
    <2>1. a \in Live
      BY DEF ListClusters, Typed, WorkerOK, Idle
    <2> HIDE DEF a
    <2> QED BY <2>1, LiveFields
  <1>2. [a EXCEPT !.waits = Nowhere] \in Live
    BY <1>1 DEF Live, Counts, Counted, Apps
  <1>3. \/ a.waits # Nowhere /\ Target([a EXCEPT !.waits = Nowhere], a.waits)
        \/ worker' = Idle /\ appQueue' = [appQueue EXCEPT !.timer = a]
        \/ /\ worker' = [pc |-> "fetched", app |-> a, places |-> places,
                         first |-> readings, left |-> Reported(places, readings)]
           /\ UNCHANGED appQueue
    BY DEF ListClusters
  <1>4. QueueOK' /\ WorkerOK'
    <2> HIDE DEF a
    <2>1. CASE a.waits # Nowhere /\ Target([a EXCEPT !.waits = Nowhere], a.waits)
      BY <1>0, <1>1, <1>2, <2>1, TargetTyped DEF Typed, AroundOK
    <2>2. CASE worker' = Idle /\ appQueue' = [appQueue EXCEPT !.timer = a]
      BY <1>0, <1>1, <2>2, SameCounts, IdleTyped DEF Typed, QueueOK
    <2>3. CASE /\ worker' = [pc |-> "fetched", app |-> a, places |-> places,
                            first |-> readings, left |-> Reported(places, readings)]
               /\ UNCHANGED appQueue
      <3>1. PlacesOK(places) /\ Reported(places, readings) \subseteq DOMAIN places
        BY PlaceOfTyped DEF Typed, Reported
      <3> HIDE DEF places
      <3>2. WorkerOK'
        BY <1>0, <1>1, <2>3, <3>1, SameCounts DEF WorkerOK
      <3> QED BY <1>0, <2>3, <3>2, SameQueue DEF Typed
    <2> QED BY <1>3, <2>1, <2>2, <2>3
  <1> QED BY <1>0, <1>4, SameApp, SameEntries, SameHandlers, SameAround DEF clusterVars, Typed

\* What the handler keeps while the metrics of clusters are fetched and ranked.
LEMMA FetchingTyped ==
    ASSUME WorkerOK, worker.pc \in {"fetched", "ranked"}
    PROVE  /\ {"pc", "app", "places", "left"} \subseteq DOMAIN worker
           /\ worker.app \in Live
           /\ PlacesOK(worker.places) /\ worker.left \subseteq DOMAIN worker.places
  BY DEF WorkerOK, Idle

\* A report of metrics writes the status of one of the listed clusters back.
LEMMA ReportTyped ==
    ASSUME NEW c \in Clusters
    PROVE  Typed /\ Report(c) => Typed'
  <1> SUFFICES ASSUME Typed, Report(c) PROVE Typed'
    OBVIOUS
  <1> DEFINE p == worker.places
             r == IF worker.pc = "fetched" THEN worker.first ELSE worker.second
             state == AfterFetch(Inherited(p[c], Clouds), r)
             e == [StatusOfCluster(c, p[c]) EXCEPT !.state = state]
  <1>0. UNCHANGED <<app, events, queues, workers, readings, clock, scenario, budget>>
    BY DEF Report
  <1>1. /\ {"pc", "app", "places", "left"} \subseteq DOMAIN worker
        /\ worker.pc \in {"fetched", "ranked"} /\ worker.app \in Live
        /\ PlacesOK(p) /\ worker.left \subseteq DOMAIN p /\ c \in worker.left
    BY FetchingTyped DEF Report, Typed
  <1>2. /\ c \in DOMAIN p /\ {"state", "deleted", "cloud"} \subseteq DOMAIN p[c]
        /\ p[c].state \in ClusterStates /\ p[c].cloud \in Homes
    BY <1>1 DEF PlacesOK
  <1>3. state \in ClusterStates
    BY <1>2, StateAfterFetch
  <1>4. CASE Dropped /\ UNCHANGED <<entries, changes>>
    BY <1>0, <1>4, IdleTyped, SameApp, SameQueue, SameEntries, SameHandlers, SameAround
    DEF Dropped, Typed
  <1>5. CASE /\ entries[c] # Null /\ WriteEntry(c, e) /\ UNCHANGED appQueue
             /\ worker' = [worker EXCEPT !.left = @ \ {c}, !.places[c].state = state]
    <2> HIDE DEF state
    <2>1. entries[c] \in Entries
      BY <1>5 DEF Typed, EntriesOK
    <2>2. e \in Entries
      BY <1>2, <1>3, <2>1 DEF StatusOfCluster, Entries, Homes
    <2>3. EntriesOK'
      <3> HIDE DEF e
      <3> QED BY <1>5, <2>2, WriteEntryTyped DEF Typed
    <2> DEFINE q == [p EXCEPT ![c] = [p[c] EXCEPT !.state = state]]
    <2>4. /\ DOMAIN worker' = DOMAIN worker /\ worker'.pc = worker.pc /\ worker'.app = worker.app
          /\ worker'.left = worker.left \ {c} /\ worker'.places = q
      BY <1>1, <1>5
    <2>5. PlacesOK(q) /\ DOMAIN q = DOMAIN p
      BY <1>1, <1>2, <1>3 DEF PlacesOK
    <2> HIDE DEF q, p
    <2>6. WorkerOK'
      BY <1>0, <1>1, <2>4, <2>5, SameCounts DEF WorkerOK
    <2> QED BY <1>0, <1>5, <2>3, <2>6, SameApp, SameQueue, SameHandlers, SameAround DEF Typed
  <1> QED BY <1>4, <1>5 DEF Report

\* The second reading of the metrics.
LEMMA RankTyped == Typed /\ Rank => Typed'
  <1> SUFFICES ASSUME Typed, Rank PROVE Typed'
    OBVIOUS
  <1> DEFINE again == FetchedAgain(WishOf(worker.app), worker.places, Clouds, worker.first)
  <1>0. UNCHANGED <<app, appQueue, events, clusterVars, readings, clock, scenario, budget>>
    BY DEF Rank
  <1>1. worker.app \in Live /\ PlacesOK(worker.places)
    BY FetchingTyped DEF Rank, Typed
  <1>2. worker' = [pc |-> "ranked", app |-> worker.app, places |-> worker.places,
                   first |-> worker.first, second |-> readings,
                   left |-> again \cap Reported(worker.places, readings)]
    BY DEF Rank
  <1>3. Reported(worker.places, readings) \subseteq DOMAIN worker.places
    BY DEF Reported
  <1> HIDE DEF again
  <1>4. WorkerOK'
    BY <1>0, <1>1, <1>2, <1>3, SameCounts DEF WorkerOK
  <1> QED BY <1>0, <1>4, SameApp, SameQueue, SameEntries, SameHandlers, SameAround
    DEF clusterVars, Typed

\* What _update_retry_fields and update_kubernetes_applications_binding write is an
\* application.
RetriedAs(a, s, r, n) == [a EXCEPT !.state = s, !.retry = r, !.retries = n]
BoundAs(a, t, n, m) == [a EXCEPT !.scheduled_to = t, !.binding = n, !.triggered = m]

\* What _update_retry_fields writes is an application ...
LEMMA RetryTyped ==
    ASSUME NEW a \in Apps, NEW s \in AppStates, NEW r \in Nat, NEW n \in Nat \cup {Unlimited}
    PROVE  RetriedAs(a, s, r, n) \in Apps /\ RetriedAs(a, s, r, n).retries = n
  BY DEF Apps, RetriedAs

\* ... and so is what update_kubernetes_applications_binding writes.
LEMMA BindingTyped ==
    ASSUME NEW a \in Apps, NEW t \in Clusters, NEW n \in Nat, NEW m \in Nat
    PROVE  /\ BoundAs(a, t, n, m) \in Apps
           /\ BoundAs(a, t, n, m).retries = a.retries
           /\ BoundAs(a, t, n, m).modified = a.modified
  BY DEF Apps, BoundAs

\* A failed attempt: the retries are counted down, up to none.
LEMMA FailedTyped ==
    ASSUME AroundOK, NEW a \in Live
    PROVE  Failed(a) \in Live
  <1>1. /\ a \in Apps /\ a.retries \in Nat \cup {Unlimited} /\ a.retries # Null /\ Counted(a)
        /\ clock.retry \in Nat /\ scenario.limit \in Nat \cup {Unlimited}
    BY LiveFields, ScenarioTyped DEF AroundOK, Live, Counts
  <1>2. Null \notin Int
    BY SchedulerAssumption
  <1>3. CASE a.retries > 0 \/ scenario.limit = Unlimited
    <2> DEFINE n == IF scenario.limit > 0 THEN a.retries - 1 ELSE a.retries
    <2>1. n \in Nat \cup {Unlimited} /\ (n = Unlimited => scenario.limit = Unlimited)
      BY <1>1, <1>3 DEF Unlimited, Counted
    <2>2. n # Null
      BY <1>2, <2>1 DEF Unlimited
    <2>3. Failed(a) = RetriedAs(a, "DEGRADED", clock.retry + 1, n)
      BY <1>1, <1>3 DEF Failed, RetriedAs
    <2> HIDE DEF n
    <2>4. Failed(a) \in Apps /\ Failed(a).retries = n
      <3>1. clock.retry + 1 \in Nat /\ "DEGRADED" \in AppStates
        BY <1>1 DEF AppStates
      <3> DEFINE r == clock.retry + 1
      <3>2. a \in Apps /\ r \in Nat /\ n \in Nat \cup {Unlimited}
        BY <1>1, <2>1, <3>1
      <3> HIDE DEF r
      <3>3. RetriedAs(a, "DEGRADED", r, n) \in Apps /\ RetriedAs(a, "DEGRADED", r, n).retries = n
        BY <3>1, <3>2, RetryTyped
      <3> QED BY <2>3, <3>3 DEF r
    <2> QED BY <2>1, <2>2, <2>4 DEF Live, Counts, Counted
  <1>4. CASE ~(a.retries > 0 \/ scenario.limit = Unlimited)
    BY <1>1, <1>4 DEF Failed, Live, Counts, Counted, Apps, AppStates
  <1> QED BY <1>3, <1>4

\* The decision about where the application goes.
LEMMA DecideTyped == Typed /\ Decide => Typed'
  <1> SUFFICES ASSUME Typed, Decide PROVE Typed'
    OBVIOUS
  <1> DEFINE a == worker.app
  <1>0. UNCHANGED <<app, events, clusterVars, readings, clock, scenario, budget>>
    BY DEF Decide
  <1>1. a \in Live
    BY FetchingTyped DEF Decide, Typed
  <1>2. \/ Dropped
        \/ worker' = At("error", Failed(a)) /\ UNCHANGED appQueue
        \/ \E n \in Clusters : Target(a, n)
        \/ worker' = At("create", a) /\ UNCHANGED appQueue
    BY DEF Decide
  <1> HIDE DEF a
  <1>3. QueueOK' /\ WorkerOK'
    <2>1. CASE Dropped
      BY <1>0, <2>1, IdleTyped, SameQueue DEF Dropped, Typed
    <2>2. CASE worker' = At("error", Failed(a)) /\ UNCHANGED appQueue
      BY <1>0, <1>1, <2>2, FailedTyped, AtTyped, SameQueue DEF Typed
    <2>3. CASE \E n \in Clusters : Target(a, n)
      BY <1>0, <1>1, <2>3, TargetTyped DEF Typed, AroundOK
    <2>4. CASE worker' = At("create", a) /\ UNCHANGED appQueue
      BY <1>0, <1>1, <2>4, AtTyped, SameQueue DEF Typed
    <2> QED BY <1>2, <2>1, <2>2, <2>3, <2>4
  <1> QED BY <1>0, <1>3, SameApp, SameEntries, SameHandlers, SameAround DEF clusterVars, Typed

\* A bound application counts its retries as before.
LEMMA BindIsTyped ==
    ASSUME AppOK, app # Null, NEW c \in Clusters
    PROVE  LET b == [app EXCEPT !.scheduled_to = c, !.binding = @ + 1, !.triggered = app.modified]
           IN  b \in Counts /\ b.modified > 0
  <1> DEFINE b == [app EXCEPT !.scheduled_to = c, !.binding = @ + 1, !.triggered = app.modified]
  <1>1. app \in Apps /\ Counted(app) /\ app.modified > 0
    BY DEF AppOK, Counts
  <1>2. app.binding + 1 \in Nat /\ app.modified \in Nat
    BY <1>1 DEF Apps
  <1>3. b = BoundAs(app, c, app.binding + 1, app.modified)
    BY DEF BoundAs
  <1>4. b \in Apps /\ b.retries = app.retries /\ b.modified = app.modified
    BY <1>1, <1>2, <1>3, BindingTyped
  <1> HIDE DEF b
  <1>5. b \in Counts /\ b.modified > 0
    BY <1>1, <1>4 DEF Counts, Counted
  <1> QED BY <1>5 DEF b

\* update_application_binding.
LEMMA BindTyped == Typed /\ Bind => Typed'
  <1> SUFFICES ASSUME Typed, Bind PROVE Typed'
    OBVIOUS
  <1>0. UNCHANGED <<clusterVars, readings, clock, scenario, budget>>
    BY DEF Bind
  <1>1. worker.app \in Live /\ worker.target \in Clusters
    BY DEF Bind, Typed, WorkerOK, Idle
  <1>2. CASE app = Null
    BY <1>0, <1>2, IdleTyped, SameApp, SameQueue, SameEntries, SameHandlers, SameAround
    DEF Bind, Dropped, clusterVars, Typed
  <1>3. CASE app # Null
    <2> DEFINE b == [app EXCEPT !.scheduled_to = worker.target, !.binding = @ + 1,
                                !.triggered = app.modified]
    <2>1. b \in Counts /\ b.modified > 0
      BY <1>1, <1>3, BindIsTyped DEF Typed
    <2>2. WriteApp(b) /\ Handled(worker.app)
      BY <1>3 DEF Bind
    <2> HIDE DEF b
    <2>3. AppOK'
      BY <1>0, <2>1, <2>2, WriteAppTyped DEF Typed
    <2>4. QueueOK' /\ WorkerOK'
      BY <1>0, <1>1, <2>2, LiveFields, HandledTyped DEF Typed, AroundOK
    <2> QED BY <1>0, <2>3, <2>4, SameEntries, SameHandlers, SameAround DEF clusterVars, Typed
  <1> QED BY <1>2, <1>3

\* The application stays where it is, and says when it was confirmed.
LEMMA ConfirmTyped == Typed /\ Confirm => Typed'
  <1> SUFFICES ASSUME Typed, Confirm PROVE Typed'
    OBVIOUS
  <1>0. UNCHANGED <<clusterVars, readings, clock, scenario, budget>>
    BY DEF Confirm
  <1>1. worker.app \in Live
    BY DEF Confirm, Typed, WorkerOK, Idle
  <1>2. CASE app = Null
    BY <1>0, <1>2, IdleTyped, SameApp, SameQueue, SameEntries, SameHandlers, SameAround
    DEF Confirm, Dropped, clusterVars, Typed
  <1>3. CASE app # Null
    <2>1. WriteApp(StatusOfApp(worker.app)) /\ Handled(worker.app)
      BY <1>3 DEF Confirm
    <2>2. AppOK'
      BY <1>0, <1>1, <1>3, <2>1, StatusTyped, WriteAppTyped DEF Typed
    <2>3. QueueOK' /\ WorkerOK'
      BY <1>0, <1>1, <2>1, LiveFields, HandledTyped DEF Typed, AroundOK
    <2> QED BY <1>0, <2>2, <2>3, SameEntries, SameHandlers, SameAround DEF clusterVars, Typed
  <1> QED BY <1>2, <1>3

\* An error is written to the status.
LEMMA ReportErrorTyped == Typed /\ ReportError => Typed'
  <1> SUFFICES ASSUME Typed, ReportError PROVE Typed'
    OBVIOUS
  <1>0. UNCHANGED <<appQueue, clusterVars, readings, clock, scenario, budget>> /\ worker' = Idle
    BY DEF ReportError, Dropped
  <1>1. worker.app \in Live
    BY DEF ReportError, Typed, WorkerOK, Idle
  <1>2. AppOK'
    BY <1>0, <1>1, StatusTyped, WriteAppTyped, SameApp DEF ReportError, Typed
  <1> QED BY <1>0, <1>2, IdleTyped, SameQueue, SameEntries, SameHandlers, SameAround
    DEF clusterVars, Typed

\* create_cluster for an application.
LEMMA CreateClusterTyped == Typed /\ CreateCluster => Typed'
  <1> SUFFICES ASSUME Typed, CreateCluster PROVE Typed'
    OBVIOUS
  <1>0. UNCHANGED <<app, appQueue, events, queues, workers, readings, clock, scenario, budget>>
    BY DEF CreateCluster
  <1>1. worker.app \in Live
    BY DEF CreateCluster, Typed, WorkerOK, Idle
  <1> DEFINE b(c) == [worker.app EXCEPT !.waits = c, !.state = "WAITING_FOR_CLUSTER_CREATION"]
  <1>2. PICK c \in Spare : /\ WriteEntry(c, Entry("PENDING", Nowhere, TRUE, FALSE))
                           /\ worker' = At("wait", b(c))
    BY DEF CreateCluster
  <1>3. c \in Clusters
    BY SchedulerAssumption
  <1>4. Entry("PENDING", Nowhere, TRUE, FALSE) \in Entries
    BY DEF Entry, Entries, ClusterStates
  <1>5. b(c) \in Live
    BY <1>1, <1>3 DEF Live, Counts, Counted, Apps, AppStates
  <1> HIDE DEF b
  <1>6. EntriesOK' /\ WorkerOK'
    BY <1>0, <1>2, <1>3, <1>4, <1>5, WriteEntryTyped, AtTyped DEF Typed
  <1> QED BY <1>0, <1>6, SameApp, SameQueue, SameHandlers, SameAround DEF Typed

\* The application waits for the cluster that was created for it.
LEMMA WaitTyped == Typed /\ Wait => Typed'
  <1> SUFFICES ASSUME Typed, Wait PROVE Typed'
    OBVIOUS
  <1>0. UNCHANGED <<clusterVars, readings, clock, scenario, budget>> /\ worker' = Idle
    BY DEF Wait, Dropped
  <1>1. worker.app \in Live
    BY DEF Wait, Typed, WorkerOK, Idle
  <1>2. CASE app = Null
    BY <1>0, <1>2, IdleTyped, SameApp, SameQueue, SameEntries, SameHandlers, SameAround
    DEF Wait, Dropped, clusterVars, Typed
  <1>3. CASE app # Null
    <2>1. WriteApp(StatusOfApp(worker.app)) /\ appQueue' = [appQueue EXCEPT !.timer = worker.app]
      BY <1>3 DEF Wait
    <2>2. AppOK'
      BY <1>0, <1>1, <1>3, <2>1, StatusTyped, WriteAppTyped DEF Typed
    <2>3. QueueOK'
      BY <1>0, <1>1, <2>1, LiveFields, SameCounts DEF QueueOK, Typed
    <2> QED BY <1>0, <2>2, <2>3, IdleTyped, SameEntries, SameHandlers, SameAround
      DEF clusterVars, Typed
  <1> QED BY <1>2, <1>3

-----------------------------------------------------------------------------
(* Types: the handler of clusters, and what happens around                 *)

\* received_kubernetes_cluster puts the version or drops it.
LEMMA ReceiveClusterTyped == Typed /\ ReceiveCluster => Typed'
  <1> SUFFICES ASSUME Typed, ReceiveCluster PROVE Typed'
    OBVIOUS
  <1> DEFINE T == [cluster: Clusters, entry: Entries]
  <1>0. UNCHANGED <<appVars, entries, workers, readings, clock, scenario, budget>>
    BY DEF ReceiveCluster
  <1>1. changes \in Seq(T) /\ changes # <<>>
    BY DEF ReceiveCluster, Typed, EntriesOK
  <1>2. Head(changes) \in T /\ Tail(changes) \in Seq(T)
    <2> HIDE DEF T
    <2> QED BY <1>1
  <1>3. EntriesOK'
    BY <1>0, <1>2 DEF ReceiveCluster, Typed, EntriesOK
  <1>4. HandlersOK'
    BY <1>0, <1>2 DEF ReceiveCluster, Typed, HandlersOK
  <1> QED BY <1>0, <1>3, <1>4, SameApp, SameQueue, SameWorker, SameAround DEF appVars, Typed

\* Steps that change queues and handlers of clusters only.
LEMMA HandlersStepTyped ==
    ASSUME Typed, HandlersOK', UNCHANGED <<appVars, entries, changes, readings, clock, scenario, budget>>
    PROVE  Typed'
  BY SameApp, SameQueue, SameWorker, SameEntries, SameAround DEF appVars, Typed

\* A timer of a cluster hands its version over.
LEMMA FireClusterTyped ==
    ASSUME NEW c \in Clusters
    PROVE  Typed /\ FireCluster(c) => Typed'
  <1> SUFFICES ASSUME Typed, FireCluster(c) PROVE Typed'
    OBVIOUS
  <1>1. HandlersOK'
    BY DEF FireCluster, Typed, HandlersOK
  <1> QED BY <1>1, HandlersStepTyped DEF FireCluster

\* The handler of clusters takes a version.
LEMMA TakeClusterTyped ==
    ASSUME NEW c \in Clusters
    PROVE  Typed /\ TakeCluster(c) => Typed'
  <1> SUFFICES ASSUME Typed, TakeCluster(c) PROVE Typed'
    OBVIOUS
  <1>1. HandlersOK'
    BY DEF TakeCluster, Typed, HandlersOK, WorkerStates
  <1> QED BY <1>1, HandlersStepTyped DEF TakeCluster

\* The handler of clusters looks for applications that use the cluster.
LEMMA ListAppsTyped ==
    ASSUME NEW c \in Clusters
    PROVE  Typed /\ ListApps(c) => Typed'
  <1> SUFFICES ASSUME Typed, ListApps(c) PROVE Typed'
    OBVIOUS
  <1>1. PICK pc \in {"delete", "choose"} :
          workers' = [workers EXCEPT ![c] = [pc |-> pc, entry |-> workers[c].entry, first |-> readings]]
    BY DEF ListApps
  <1>2. workers[c].entry \in Entries /\ readings \in Readings
    BY DEF ListApps, Typed, HandlersOK, AroundOK, WorkerStates, Idle
  <1>3. HandlersOK'
    BY <1>1, <1>2 DEF ListApps, Typed, HandlersOK, WorkerStates
  <1> QED BY <1>3, HandlersStepTyped DEF ListApps

\* A cluster that was made for applications and has none left is deleted.
LEMMA DeleteUnusedTyped ==
    ASSUME NEW c \in Clusters
    PROVE  Typed /\ DeleteUnused(c) => Typed'
  <1> SUFFICES ASSUME Typed, DeleteUnused(c) PROVE Typed'
    OBVIOUS
  <1>0. UNCHANGED <<appVars, queues, readings, clock, scenario, budget>>
    BY DEF DeleteUnused
  <1>1. workers[c] \in [pc: {"delete", "choose"}, entry: Entries, first: Readings]
    BY DEF DeleteUnused, Typed, HandlersOK, WorkerStates, Idle
  <1>2. HandlersOK'
    <2> DEFINE next == [workers[c] EXCEPT !.pc = "choose"]
    <2>1. next \in WorkerStates /\ Idle \in WorkerStates
      BY <1>1 DEF WorkerStates
    <2>2. workers' = [workers EXCEPT ![c] = Idle] \/ workers' = [workers EXCEPT ![c] = next]
      BY DEF DeleteUnused, Stop
    <2> HIDE DEF next
    <2> QED BY <1>0, <2>1, <2>2 DEF Typed, HandlersOK
  <1>3. EntriesOK'
    <2>1. CASE UNCHANGED <<entries, changes>>
      BY <2>1, SameEntries DEF Typed
    <2>2. CASE entries[c] # Null /\ WriteEntry(c, [entries[c] EXCEPT !.deleted = TRUE])
      <3>1. [entries[c] EXCEPT !.deleted = TRUE] \in Entries
        BY <2>2 DEF Typed, EntriesOK, Entries
      <3> QED BY <2>2, <3>1, WriteEntryTyped DEF Typed
    <2> QED BY <2>1, <2>2 DEF DeleteUnused
  <1> QED BY <1>0, <1>2, <1>3, SameApp, SameQueue, SameWorker, SameAround DEF appVars, Typed

\* A cloud is chosen for a cluster, or the attempt fails.
LEMMA ChooseCloudTyped ==
    ASSUME NEW c \in Clusters
    PROVE  Typed /\ ChooseCloud(c) => Typed'
  <1> SUFFICES ASSUME Typed, ChooseCloud(c) PROVE Typed'
    OBVIOUS
  <1> DEFINE w == workers[c]
             demand == IF w.entry.auto THEN scenario.wish ELSE Demands[c]
             wish == [labels |-> demand.labels, custom |-> <<>>, metrics |-> demand.metrics,
                      scheduled_to |-> Nowhere]
             near == SelectCloud(wish, Namespaced, w.first, readings)
             far == SelectCloud(wish, Global, w.first, readings)
             o == IF near = None THEN far ELSE near
  <1>1. workers[c].entry \in Entries
    BY DEF ChooseCloud, Typed, HandlersOK, WorkerStates, Idle
  <1>2. \/ workers' = [workers EXCEPT ![c] = Idle]
        \/ workers' = [workers EXCEPT ![c] = [pc |-> "fail", entry |-> w.entry, cloud |-> Nowhere]]
        \/ /\ o.kind = "place"
           /\ \E n \in o.names :
                workers' = [workers EXCEPT ![c] = [pc |-> "bind", entry |-> w.entry, cloud |-> n]]
    BY DEF ChooseCloud, Stop
  <1>3. o.kind = "place" => o.names \subseteq Homes
    <2>1. near.kind = "place" => near.names \subseteq DOMAIN Namespaced
      BY CloudAmong
    <2>2. far.kind = "place" => far.names \subseteq DOMAIN Global
      BY CloudAmong
    <2> HIDE DEF near, far
    <2> QED BY <2>1, <2>2, CloudsUnion DEF Homes
  <1> HIDE DEF o
  <1>4. HandlersOK'
    <2>1. \E s \in WorkerStates : workers' = [workers EXCEPT ![c] = s]
      BY <1>1, <1>2, <1>3 DEF WorkerStates, Homes
    <2> QED BY <2>1 DEF ChooseCloud, Typed, HandlersOK
  <1> QED BY <1>4, HandlersStepTyped DEF ChooseCloud

\* update_cluster_binding.
LEMMA BindClusterTyped ==
    ASSUME NEW c \in Clusters
    PROVE  Typed /\ BindCluster(c) => Typed'
  <1> SUFFICES ASSUME Typed, BindCluster(c) PROVE Typed'
    OBVIOUS
  <1>0. UNCHANGED <<appVars, readings, clock, scenario, budget>>
    BY DEF BindCluster
  <1>1. workers[c] \in [pc: {"bind", "fail"}, entry: Entries, cloud: Homes]
    BY DEF BindCluster, Typed, HandlersOK, WorkerStates, Idle
  <1>2. HandlersOK'
    BY <1>0, <1>1 DEF BindCluster, Stop, Typed, HandlersOK, WorkerStates
  <1>3. EntriesOK'
    <2>1. CASE UNCHANGED <<entries, changes>>
      BY <2>1, SameEntries DEF Typed
    <2>2. CASE entries[c] # Null /\ WriteEntry(c, [entries[c] EXCEPT !.cloud = workers[c].cloud])
      <3>1. [entries[c] EXCEPT !.cloud = workers[c].cloud] \in Entries
        BY <1>1, <2>2 DEF Typed, EntriesOK, Entries, Homes
      <3> QED BY <2>2, <3>1, WriteEntryTyped DEF Typed
    <2> QED BY <2>1, <2>2 DEF BindCluster
  <1> QED BY <1>0, <1>2, <1>3, SameApp, SameQueue, SameWorker, SameAround DEF appVars, Typed

\* An error about a cluster is written to its status.
LEMMA FailClusterTyped ==
    ASSUME NEW c \in Clusters
    PROVE  Typed /\ FailCluster(c) => Typed'
  <1> SUFFICES ASSUME Typed, FailCluster(c) PROVE Typed'
    OBVIOUS
  <1>0. UNCHANGED <<appVars, queues, readings, clock, scenario, budget>>
    BY DEF FailCluster
  <1>1. workers[c].entry \in Entries
    BY DEF FailCluster, Typed, HandlersOK, WorkerStates, Idle
  <1>2. HandlersOK'
    BY <1>0 DEF FailCluster, Stop, Typed, HandlersOK, WorkerStates
  <1>3. EntriesOK'
    <2> DEFINE e == [StatusOfCluster(c, workers[c].entry) EXCEPT !.state = "FAILED"]
    <2>1. CASE UNCHANGED <<entries, changes>>
      BY <2>1, SameEntries DEF Typed
    <2>2. CASE entries[c] # Null /\ WriteEntry(c, e)
      <3>1. e \in Entries
        BY <1>1, <2>2 DEF Typed, EntriesOK, Entries, StatusOfCluster, ClusterStates
      <3> QED BY <2>2, <3>1, WriteEntryTyped DEF Typed
    <2> QED BY <2>1, <2>2 DEF FailCluster
  <1> QED BY <1>0, <1>2, <1>3, SameApp, SameQueue, SameWorker, SameAround DEF appVars, Typed

\* A disturbance uses up its budget.
LEMMA SpendTyped ==
    ASSUME AroundOK, NEW k \in Kinds, Spend(k)
    PROVE  /\ budget' \in [Kinds -> Nat] /\ budget'["crash"] <= budget["crash"]
           /\ budget'["crash"] <= scenario.budget["crash"]
  <1>1. scenario.budget["crash"] \in Nat /\ "crash" \in Kinds
    BY ScenarioTyped DEF AroundOK, Kinds
  <1>2. budget \in [Kinds -> Nat] /\ budget' = [budget EXCEPT ![k] = budget[k] - 1] /\ budget[k] > 0
    BY DEF AroundOK, Spend
  <1>3. budget' \in [Kinds -> Nat]
    BY <1>2
  <1>4. budget'["crash"] <= budget["crash"]
    BY <1>1, <1>2
  <1> QED BY <1>1, <1>2, <1>3, <1>4 DEF AroundOK

\* A disturbance of the application or a cluster leaves the rest around as it is.
LEMMA SpentTyped ==
    ASSUME AroundOK, NEW k \in Kinds, Spend(k), UNCHANGED <<readings, clock, scenario>>
    PROVE  AroundOK'
  BY SpendTyped DEF AroundOK

\* A step that only writes the application.
LEMMA WrittenTyped ==
    ASSUME Typed, NEW a \in Counts, a.modified > 0, WriteApp(a),
           UNCHANGED <<appQueue, worker, clusterVars, scenario>>, AroundOK'
    PROVE  Typed'
  BY WriteAppTyped, SameQueue, SameWorker, SameEntries, SameHandlers DEF clusterVars, Typed

\* A step that only writes a cluster.
LEMMA EnteredTyped ==
    ASSUME Typed, NEW c \in Clusters, NEW e \in Entries, WriteEntry(c, e),
           UNCHANGED <<appVars, queues, workers, scenario>>, AroundOK'
    PROVE  Typed'
  BY WriteEntryTyped, SameApp, SameQueue, SameWorker, SameHandlers DEF appVars, Typed

\* The application that is stored.
LEMMA AppIsTyped ==
    ASSUME Typed, app # Null
    PROVE  app \in Apps /\ app \in Counts /\ Counted(app) /\ app.modified > 0
  BY DEF Typed, AppOK, Counts

\* Users and the application controller write the application.
LEMMA UsersTyped == Typed /\ (UserUpdate \/ UserDelete \/ AppRuns \/ MigrationFails) => Typed'
  <1>1. ASSUME Typed, UserUpdate PROVE Typed'
    <2> DEFINE a == [app EXCEPT !.modified = @ + 1]
    <2>1. a \in Counts /\ a.modified > 0
      BY <1>1, AppIsTyped DEF UserUpdate, Counts, Counted, Apps
    <2>2. AroundOK'
      BY <1>1, SpentTyped DEF UserUpdate, Kinds, Typed
    <2>3. WriteApp(a) /\ UNCHANGED <<appQueue, worker, clusterVars, scenario>>
      BY <1>1 DEF UserUpdate
    <2> HIDE DEF a
    <2> QED BY <1>1, <2>1, <2>2, <2>3, WrittenTyped
  <1>2. ASSUME Typed, UserDelete PROVE Typed'
    <2> DEFINE a == [app EXCEPT !.deleted = TRUE]
    <2>1. a \in Counts /\ a.modified > 0
      BY <1>2, AppIsTyped DEF UserDelete, Counts, Counted, Apps
    <2>2. AroundOK'
      BY <1>2, SpentTyped DEF UserDelete, Kinds, Typed
    <2>3. WriteApp(a) /\ UNCHANGED <<appQueue, worker, clusterVars, scenario>>
      BY <1>2 DEF UserDelete
    <2> HIDE DEF a
    <2> QED BY <1>2, <2>1, <2>2, <2>3, WrittenTyped
  <1>3. ASSUME Typed, AppRuns PROVE Typed'
    <2> DEFINE a == [app EXCEPT !.state = "RUNNING"]
    <2>1. a \in Counts /\ a.modified > 0
      BY <1>3, AppIsTyped DEF AppRuns, Counts, Counted, Apps, AppStates
    <2>2. AroundOK'
      BY <1>3, SameAround DEF AppRuns, Typed
    <2>3. WriteApp(a) /\ UNCHANGED <<appQueue, worker, clusterVars, scenario>>
      BY <1>3 DEF AppRuns
    <2> HIDE DEF a
    <2> QED BY <1>3, <2>1, <2>2, <2>3, WrittenTyped
  <1>4. ASSUME Typed, MigrationFails PROVE Typed'
    <2> DEFINE a == [app EXCEPT !.fence = clock.fence + 1]
    <2>0. clock.fence + 1 \in Nat
      BY <1>4 DEF Typed, AroundOK
    <2>1. a \in Counts /\ a.modified > 0
      BY <1>4, <2>0, AppIsTyped DEF MigrationFails, Counts, Counted, Apps
    <2>2. AroundOK'
      BY <1>4, SpentTyped DEF MigrationFails, Kinds, Typed
    <2>3. WriteApp(a) /\ UNCHANGED <<appQueue, worker, clusterVars, scenario>>
      BY <1>4 DEF MigrationFails
    <2> HIDE DEF a
    <2> QED BY <1>4, <2>1, <2>2, <2>3, WrittenTyped
  <1> QED BY <1>1, <1>2, <1>3, <1>4

\* Users and the other controllers write clusters.
LEMMA EditsTyped ==
    ASSUME NEW c \in Clusters
    PROVE  Typed /\ (UserEdit(c) \/ Provision(c) \/ Health(c)) => Typed'
  <1> SUFFICES ASSUME Typed, UserEdit(c) \/ Provision(c) \/ Health(c) PROVE Typed'
    OBVIOUS
  <1>1. entries[c] \in Entries
    BY DEF UserEdit, Provision, Health, Typed, EntriesOK
  <1>2. AroundOK'
    BY SpentTyped, SameAround DEF UserEdit, Provision, Health, Kinds, Typed
  <1>3. \E e \in Entries : WriteEntry(c, e)
    <2>1. CASE UserEdit(c)
      BY <1>1, <2>1 DEF UserEdit
    <2>2. CASE Provision(c)
      <3>1. [entries[c] EXCEPT !.kubeconfig = TRUE, !.state = "ONLINE"] \in Entries
        BY <1>1 DEF Entries, ClusterStates
      <3> QED BY <2>2, <3>1 DEF Provision
    <2>3. CASE Health(c)
      <3>1. [entries[c] EXCEPT !.state = IF @ = "OFFLINE" THEN "ONLINE" ELSE "OFFLINE"] \in Entries
        BY <1>1 DEF Entries, ClusterStates
      <3> QED BY <2>3, <3>1 DEF Health
    <2> QED BY <2>1, <2>2, <2>3
  <1> QED BY <1>2, <1>3, EnteredTyped DEF UserEdit, Provision, Health

\* What is deleted is gone, metrics change, and time passes.
LEMMA AroundTyped ==
    Typed /\ (AppGone \/ (\E c \in Clusters : ClusterGone(c)) \/ NewReadings \/ Elapse) => Typed'
  <1>1. ASSUME Typed, AppGone PROVE Typed'
    <2>1. AppOK'
      BY <1>1, SameCounts DEF AppGone, Typed, AppOK
    <2> QED BY <1>1, <2>1, SameQueue, SameWorker, SameEntries, SameHandlers, SameAround
      DEF AppGone, clusterVars, Typed
  <1>2. ASSUME Typed, NEW c \in Clusters, ClusterGone(c) PROVE Typed'
    <2>1. EntriesOK'
      BY <1>2 DEF ClusterGone, Typed, EntriesOK
    <2> QED BY <1>2, <2>1, SameApp, SameQueue, SameWorker, SameHandlers, SameAround
      DEF ClusterGone, appVars, Typed
  <1>3. ASSUME Typed, NewReadings PROVE Typed'
    <2>1. AroundOK'
      <3>1. AroundOK /\ Spend("metrics") /\ "metrics" \in Kinds
        BY <1>3 DEF NewReadings, Typed, Kinds
      <3> QED BY <1>3, <3>1, SpendTyped DEF NewReadings, AroundOK
    <2> QED BY <1>3, <2>1, SameApp, SameQueue, SameWorker, SameEntries, SameHandlers
      DEF NewReadings, appVars, clusterVars, Typed
  <1>4. ASSUME Typed, Elapse PROVE Typed'
    <2>1. AroundOK'
      BY <1>4 DEF Elapse, Typed, AroundOK
    <2> QED BY <1>4, <2>1, SameApp, SameQueue, SameWorker, SameEntries, SameHandlers
      DEF Elapse, appVars, clusterVars, Typed
  <1> QED BY <1>1, <1>2, <1>3, <1>4

\* A restarted scheduler lists everything anew.
LEMMA RestartTyped == Typed /\ Restart => Typed'
  <1> SUFFICES ASSUME Typed, Restart PROVE Typed'
    OBVIOUS
  <1> USE DEF Restart
  <1>1. AppOK'
    <2>1. (IF app = Null THEN <<>> ELSE <<app>>) \in Seq(Counts)
      BY DEF Typed, AppOK
    <2> QED BY <2>1, SameCounts DEF Typed, AppOK
  <1>2. QueueOK'
    BY DEF QueueOK, NoVersion
  <1>3. EntriesOK'
    BY ListingTyped DEF Typed, EntriesOK
  <1>4. HandlersOK'
    BY DEF HandlersOK, WorkerStates, NoVersion
  <1>5. AroundOK'
    BY SpentTyped DEF Typed, Kinds
  <1> QED BY <1>1, <1>2, <1>3, <1>4, <1>5, IdleTyped DEF Typed

\* Types are kept by every step.
LEMMA NextTyped == Typed /\ [Next]_vars => Typed'
  <1> SUFFICES ASSUME Typed, [Next]_vars PROVE Typed'
    OBVIOUS
  <1>1. CASE AppHandler
    BY <1>1, TakeAppTyped, ListClustersTyped, ReportTyped, RankTyped, DecideTyped, BindTyped,
       ConfirmTyped, ReportErrorTyped, CreateClusterTyped, WaitTyped DEF AppHandler
  <1>2. ASSUME NEW c \in Clusters, ClusterHandler(c) PROVE Typed'
    BY <1>2, FireClusterTyped, TakeClusterTyped, ListAppsTyped, DeleteUnusedTyped,
       ChooseCloudTyped, BindClusterTyped, FailClusterTyped DEF ClusterHandler
  <1>3. CASE ReceiveApp \/ FireApp \/ ReceiveCluster
    BY <1>3, ReceiveAppTyped, FireAppTyped, ReceiveClusterTyped
  <1>4. CASE \E c \in Clusters : Provision(c) \/ ClusterGone(c) \/ Health(c) \/ UserEdit(c)
    BY <1>4, EditsTyped, AroundTyped
  <1>5. CASE \/ UserUpdate \/ UserDelete \/ AppRuns \/ AppGone \/ MigrationFails \/ NewReadings
             \/ Elapse \/ Restart
    BY <1>5, UsersTyped, AroundTyped, RestartTyped
  <1>6. CASE UNCHANGED vars
    BY <1>6, SameApp, SameQueue, SameWorker, SameEntries, SameHandlers, SameAround
    DEF vars, appVars, clusterVars, Typed
  <1> QED BY <1>1, <1>2, <1>3, <1>4, <1>5, <1>6 DEF Next

-----------------------------------------------------------------------------
(* One cluster is created                                                  *)

\* Where the application stands, and what a step has to keep of it.
Phase == IF app.scheduled_to = Nowhere THEN Unbound ELSE Bound
CreationThen == Waiting' /\ (Undisturbed' => Phase')
Before == Typed /\ Waiting /\ (Undisturbed => Phase)

\* The invariant as the steps below take it.
LEMMA CreationInvIs == CreationInv <=> Before
  BY DEF CreationInv, Before, Phase

\* Setting a field of a queue leaves the other one.
LEMMA QueueFields ==
    ASSUME QueueOK, NEW v
    PROVE  /\ [appQueue EXCEPT !.dirty = v].dirty = v
           /\ [appQueue EXCEPT !.dirty = v].timer = appQueue.timer
           /\ [appQueue EXCEPT !.timer = v].timer = v
           /\ [appQueue EXCEPT !.timer = v].dirty = appQueue.dirty
  BY DEF QueueOK

\* Steps that neither touch the versions of the application nor create a cluster.
LEMMA FrameStep ==
    ASSUME Before, UNCHANGED <<appVars, scenario>>,
           \A c \in Spare : entries'[c] # Null => entries[c] # Null
    PROVE  CreationThen
  <1>1. Waiting'
    BY DEF Before, Waiting, appVars
  <1>2. ASSUME Undisturbed' PROVE Phase'
    <2>1. Undisturbed /\ Phase
      BY <1>2 DEF Before, Undisturbed, appVars
    <2>2. Bound => Bound'
      BY DEF Bound, Overtaken, Placed, appVars
    <2>3. OneToken /\ Agreed => OneToken' /\ Agreed'
      BY DEF OneToken, Agreed, Current, appVars
    <2>4. Created => Created'
      BY DEF Created, appVars
    <2> QED BY <2>1, <2>2, <2>3, <2>4 DEF Phase, Unbound, appVars
  <1> QED BY <1>1, <1>2 DEF CreationThen

\* An update of a cluster creates none.
LEMMA KeptByWrite ==
    ASSUME EntriesOK, NEW c \in Clusters, NEW e, entries[c] # Null, WriteEntry(c, e)
    PROVE  \A d \in Spare : entries'[d] # Null => entries[d] # Null
  BY SchedulerAssumption DEF EntriesOK, WriteEntry

\* Nobody but the handler of the application creates clusters for it.
LEMMA ClusterStepKeeps ==
    ASSUME Before, NEW c \in Clusters,
           ClusterHandler(c) \/ Provision(c) \/ ClusterGone(c) \/ Health(c) \/ UserEdit(c)
    PROVE  CreationThen
  <1>1. UNCHANGED <<appVars, scenario>>
    BY DEF ClusterHandler, FireCluster, TakeCluster, ListApps, DeleteUnused, ChooseCloud,
           BindCluster, FailCluster, Provision, ClusterGone, Health, UserEdit
  <1>2. \/ entries' = entries
        \/ entries[c] # Null /\ \E e : WriteEntry(c, e)
        \/ entries' = [entries EXCEPT ![c] = Null]
    BY DEF ClusterHandler, FireCluster, TakeCluster, ListApps, DeleteUnused, ChooseCloud,
           BindCluster, FailCluster, Provision, ClusterGone, Health, UserEdit
  <1>3. \A d \in Spare : entries'[d] # Null => entries[d] # Null
    <2>1. entries \in [Clusters -> Entries \cup {Null}]
      BY DEF Before, Typed, EntriesOK
    <2> QED BY <1>2, <2>1, KeptByWrite, SchedulerAssumption DEF Before, Typed
  <1> QED BY <1>1, <1>3, FrameStep

\* Nor do steps that have no part in it.
LEMMA OtherStepKeeps ==
    ASSUME Before, ReceiveCluster \/ NewReadings \/ Elapse \/ UNCHANGED vars
    PROVE  CreationThen
  <1>1. UNCHANGED <<appVars, entries, scenario>>
    BY DEF ReceiveCluster, NewReadings, Elapse, vars, appVars, clusterVars
  <1> QED BY <1>1, FrameStep

\* The one event of an unbound application becomes its queued version; an event that
\* tells of a cluster replaces what waits in the queue.
LEMMA ReceiveAppKeeps == Before /\ ReceiveApp => CreationThen
  <1> SUFFICES ASSUME Before, ReceiveApp PROVE CreationThen
    OBVIOUS
  <1> DEFINE h == Head(events)
  <1>0. UNCHANGED <<app, worker, entries, scenario>> /\ events # <<>> /\ events' = Tail(events)
    BY DEF ReceiveApp, clusterVars
  <1>1. /\ h = events[1] /\ 1 \in DOMAIN events
        /\ \A i \in DOMAIN Tail(events) : Tail(events)[i] = events[i + 1] /\ i + 1 \in DOMAIN events
        /\ Len(events) = 1 => Tail(events) = <<>>
    BY <1>0 DEF Before, Typed, AppOK
  <1>2. \/ appQueue' = [appQueue EXCEPT !.timer = Null]
        \/ appQueue' = appQueue /\ ~Overtaken
        \/ scenario.migration /\ appQueue' = [appQueue EXCEPT !.timer = h]
        \/ appQueue' = [appQueue EXCEPT !.dirty = h] /\ ~Overtaken
    <2>1. h \in Apps
      BY <1>0 DEF Before, Typed, AppOK, Counts
    <2>2. h.triggered \in Nat /\ h.modified \in Nat /\ h.deleted \in BOOLEAN
      BY <2>1 DEF Apps
    <2>3. appQueue' = Received(h, appQueue)
      BY DEF ReceiveApp
    <2>4. Overtaken => h.triggered # 0 /\ h.modified <= h.triggered /\ appQueue.dirty = Null
                       /\ scenario.migration
      BY DEF Overtaken
    <2> HIDE DEF h
    <2>5. CASE h.deleted
      BY <2>3, <2>5 DEF Received
    <2>6. CASE ~h.deleted /\ h.triggered # 0 /\ h.modified <= h.triggered
      BY <2>2, <2>3, <2>4, <2>6 DEF Received, Reschedule
    <2>7. CASE ~h.deleted /\ ~(h.triggered # 0 /\ h.modified <= h.triggered)
      BY <2>2, <2>3, <2>4, <2>7 DEF Received
    <2> QED BY <2>5, <2>6, <2>7
  <1> HIDE DEF h
  <1>3. \/ appQueue'.dirty = appQueue.dirty /\ appQueue'.timer = Null
        \/ appQueue'.dirty = appQueue.dirty /\ appQueue'.timer = appQueue.timer /\ ~Overtaken
        \/ scenario.migration /\ appQueue'.dirty = appQueue.dirty /\ appQueue'.timer = h
        \/ appQueue'.dirty = h /\ appQueue'.timer = appQueue.timer /\ ~Overtaken
    <2>1. QueueOK
      BY DEF Before, Typed
    <2>2. CASE appQueue' = [appQueue EXCEPT !.timer = Null]
      BY <2>1, <2>2, QueueFields
    <2>3. CASE scenario.migration /\ appQueue' = [appQueue EXCEPT !.timer = h]
      BY <2>1, <2>3, QueueFields
    <2>4. CASE appQueue' = [appQueue EXCEPT !.dirty = h] /\ ~Overtaken
      BY <2>1, <2>4, QueueFields
    <2> QED BY <1>2, <2>2, <2>3, <2>4
  <1>4. Waiting'
    BY <1>0, <1>3 DEF Before, Waiting
  <1>5. ASSUME Undisturbed' PROVE Phase'
    <2>1. Undisturbed /\ Phase
      BY <1>0, <1>5 DEF Before, Undisturbed
    <2>2. CASE app.scheduled_to = Nowhere
      <3>1. Unbound
        BY <2>1, <2>2 DEF Phase
      <3>2. Tail(events) = <<>> /\ Current(h) /\ appQueue.dirty = Null /\ worker = Idle
        BY <1>0, <1>1, <3>1 DEF Unbound, OneToken, Agreed
      <3>3. OneToken'
        BY <1>0, <3>2 DEF OneToken
      <3>4. Agreed'
        BY <1>0, <1>3, <3>1, <3>2 DEF Unbound, Agreed, Current
      <3>5. Created'
        BY <1>0, <3>1 DEF Unbound, Created
      <3> QED BY <1>0, <2>2, <3>3, <3>4, <3>5 DEF Phase, Unbound
    <2>3. CASE app.scheduled_to # Nowhere
      <3>1. Bound
        BY <2>1, <2>3 DEF Phase
      <3>2. \A i \in DOMAIN events' : Placed(events'[i])
        BY <1>0, <1>1, <3>1 DEF Bound
      <3>3. Placed(h)
        BY <1>1, <3>1 DEF Bound
      <3>4. Bound'
        BY <1>0, <1>3, <3>1, <3>2, <3>3 DEF Bound, Placed
      <3> QED BY <1>0, <2>3, <3>4 DEF Phase
    <2> QED BY <2>2, <2>3
  <1> QED BY <1>4, <1>5 DEF CreationThen

\* A timer's version is the only one, or tells of a cluster, or waits.
LEMMA FireAppKeeps == Before /\ FireApp => CreationThen
  <1> SUFFICES ASSUME Before, FireApp PROVE CreationThen
    OBVIOUS
  <1>0. /\ UNCHANGED <<app, events, worker, entries, scenario>>
        /\ events = <<>> /\ worker = Idle /\ appQueue.timer # Null
        /\ appQueue'.dirty = appQueue.timer /\ appQueue'.timer = Null
    BY DEF FireApp, clusterVars
  <1>1. Waiting'
    BY <1>0 DEF Waiting
  <1>2. ASSUME Undisturbed' PROVE Phase'
    <2>1. Undisturbed /\ Phase
      BY <1>0, <1>2 DEF Before, Undisturbed
    <2>2. Unbound => Unbound'
      BY <1>0 DEF Unbound, OneToken, Agreed, Current, Created
    <2>3. Bound => Bound'
      BY <1>0 DEF Before, Waiting, Bound, Placed, Overtaken
    <2> QED BY <1>0, <2>1, <2>2, <2>3 DEF Phase
  <1> QED BY <1>1, <1>2 DEF CreationThen

\* The handler works on the only version, or drops it.
LEMMA TakeAppKeeps == Before /\ TakeApp => CreationThen
  <1> SUFFICES ASSUME Before, TakeApp PROVE CreationThen
    OBVIOUS
  <1> DEFINE a == [appQueue.dirty EXCEPT !.retries = IF @ = Null THEN scenario.limit ELSE @]
             b == [a EXCEPT !.retries = scenario.limit]
             rest == [appQueue EXCEPT !.dirty = Null]
  <1>0. /\ UNCHANGED <<app, events, entries, scenario>>
        /\ worker = Idle /\ appQueue.dirty # Null
    BY DEF TakeApp, clusterVars
  <1>1. appQueue.dirty \in Apps
    BY <1>0 DEF Before, Typed, QueueOK, Counts
  <1>2. /\ a.scheduled_to = appQueue.dirty.scheduled_to /\ a.waits = appQueue.dirty.waits
        /\ b.scheduled_to = appQueue.dirty.scheduled_to /\ b.waits = appQueue.dirty.waits
    BY <1>1 DEF Apps
  <1>3. \/ UNCHANGED worker /\ (appQueue' = rest \/ appQueue' = Reschedule(b, rest))
        \/ appQueue' = rest /\ worker' = At("list", a)
    BY DEF TakeApp
  <1> HIDE DEF a, b
  <1>4. /\ appQueue'.dirty = Null
        /\ \/ appQueue'.timer = appQueue.timer
           \/ scenario.migration /\ appQueue'.timer = b
        /\ \/ worker' = Idle
           \/ worker'.pc = "list" /\ worker'.app = a
    <2>1. rest.dirty = Null /\ rest.timer = appQueue.timer
      BY QueueFields DEF Before, Typed
    <2>2. rest \in [dirty: Counts \cup {Null}, timer: Counts \cup {Null}]
      BY DEF Before, Typed, QueueOK
    <2> HIDE DEF rest
    <2>3. [rest EXCEPT !.timer = b].dirty = Null /\ [rest EXCEPT !.timer = b].timer = b
      BY <2>1, <2>2
    <2>4. appQueue' = rest \/ (scenario.migration /\ appQueue' = [rest EXCEPT !.timer = b])
      BY <1>3 DEF Reschedule
    <2>5. worker' = Idle \/ (worker'.pc = "list" /\ worker'.app = a)
      BY <1>0, <1>3 DEF At
    <2> QED BY <2>1, <2>3, <2>4, <2>5
  <1>5. Waiting'
    BY <1>0, <1>4 DEF Before, Waiting
  <1>6. ASSUME Undisturbed' PROVE Phase'
    <2>1. Undisturbed /\ Phase
      BY <1>0, <1>6 DEF Before, Undisturbed
    <2>2. Unbound => Unbound'
      BY <1>0, <1>2, <1>4 DEF Unbound, OneToken, Agreed, Current, Created
    <2>3. Bound => Bound'
      BY <1>0, <1>2, <1>4 DEF Bound, Placed, Overtaken
    <2> QED BY <1>0, <2>1, <2>2, <2>3 DEF Phase
  <1> QED BY <1>5, <1>6 DEF CreationThen

\* What the handler does about a cluster that was found.
LEMMA TargetOutcome ==
    ASSUME QueueOK, NEW a \in Live, NEW c \in Clusters, Target(a, c)
    PROVE  \/ /\ worker'.pc = "bind" /\ worker'.app = a /\ UNCHANGED appQueue
           \/ /\ Placed(a) /\ worker'.pc = "confirm" /\ UNCHANGED appQueue
              /\ Placed(worker'.app)
           \/ /\ Placed(a) /\ worker' = Idle /\ appQueue'.dirty = appQueue.dirty
              /\ \/ appQueue'.timer = appQueue.timer
                 \/ scenario.migration /\ Placed(appQueue'.timer)
  <1>0. Nowhere \notin Clusters
    BY SchedulerAssumption
  <1>1. CASE worker' = To("bind", a, c) /\ UNCHANGED appQueue
    BY <1>1 DEF To
  <1>2. CASE a.scheduled_to = c /\ UNCHANGED appQueue
             /\ worker' = At("confirm", [a EXCEPT !.triggered = Now])
    <2>1. [a EXCEPT !.triggered = Now].scheduled_to = c
      BY <1>2 DEF Live, Counts, Apps
    <2> QED BY <1>0, <1>2, <2>1 DEF At, Placed
  <1>3. CASE a.scheduled_to = c /\ Handled(a)
    <2> DEFINE b == [a EXCEPT !.retries = scenario.limit]
    <2>1. b.scheduled_to = c
      BY <1>3 DEF Live, Counts, Apps
    <2> HIDE DEF b
    <2>2. worker' = Idle /\ (appQueue' = appQueue \/ (scenario.migration /\ appQueue' = [appQueue EXCEPT !.timer = b]))
      BY <1>3 DEF Handled, Reschedule, b
    <2>3. [appQueue EXCEPT !.timer = b].timer = b /\ [appQueue EXCEPT !.timer = b].dirty = appQueue.dirty
      BY QueueFields
    <2>4. Placed(a) /\ Placed(b)
      BY <1>0, <1>3, <2>1 DEF Placed
    <2> QED BY <2>2, <2>3, <2>4
  <1> QED BY <1>1, <1>2, <1>3 DEF Target

\* What a decision leaves for an application without cluster, ...
LEMMA TargetUnbound ==
    ASSUME QueueOK, NEW a \in Live, NEW c \in Clusters, Target(a, c), a.scheduled_to = Nowhere,
           worker # Idle, worker.pc # "wait", Unbound, UNCHANGED <<app, events, entries>>
    PROVE  Unbound'
  <1>1. worker'.pc = "bind" /\ worker'.app = a /\ UNCHANGED appQueue
    BY TargetOutcome DEF Placed
  <1>2. OneToken' /\ Created'
    BY <1>1 DEF Unbound, OneToken, Created
  <1>3. Agreed'
    BY <1>1 DEF Unbound, Agreed, Current
  <1> QED BY <1>2, <1>3 DEF Unbound

\* ... for one with one, ...
LEMMA TargetBound ==
    ASSUME QueueOK, NEW a \in Live, NEW c \in Clusters, Target(a, c),
           Placed(a) \/ ~scenario.migration,
           worker # Idle, Bound, UNCHANGED <<app, events, scenario>>
    PROVE  Bound'
  <1>1. ~Overtaken
    BY DEF Overtaken
  <1>2. CASE worker'.pc = "bind" /\ worker'.app = a /\ UNCHANGED appQueue
    BY <1>1, <1>2 DEF Bound, Placed
  <1>3. CASE worker'.pc = "confirm" /\ UNCHANGED appQueue /\ Placed(worker'.app)
    BY <1>1, <1>3 DEF Bound, Placed
  <1>4. CASE /\ worker' = Idle /\ appQueue'.dirty = appQueue.dirty
             /\ \/ appQueue'.timer = appQueue.timer
                \/ scenario.migration /\ Placed(appQueue'.timer)
    BY <1>1, <1>4 DEF Bound, Placed
  <1> QED BY <1>2, <1>3, <1>4, TargetOutcome

\* ... and for one that waits.
LEMMA TargetWaiting ==
    ASSUME QueueOK, NEW a \in Live, NEW c \in Clusters, Target(a, c), Waiting, UNCHANGED scenario
    PROVE  Waiting'
  BY TargetOutcome DEF Waiting, Idle

\* A cluster is created, later, only for a version that waits for none.
LEMMA ListClustersKeeps == Before /\ ListClusters => CreationThen
  <1> SUFFICES ASSUME Before, ListClusters PROVE CreationThen
    OBVIOUS
  <1> DEFINE a == worker.app
             b == [a EXCEPT !.waits = Nowhere]
  <1>0. UNCHANGED <<app, events, entries, scenario>> /\ worker # Idle /\ worker.pc = "list"
    BY DEF ListClusters, clusterVars, Idle
  <1>1. a \in Live /\ QueueOK
    BY <1>0 DEF Before, Typed, WorkerOK
  <1>2. b \in Live /\ b.scheduled_to = a.scheduled_to
    BY <1>1 DEF Live, Counts, Counted, Apps
  <1>3. a.waits \in Clusters \cup {Nowhere}
    <2> HIDE DEF a
    <2> QED BY <1>1, LiveFields
  <1>4. \/ a.waits # Nowhere /\ Target(b, a.waits)
        \/ a.waits # Nowhere /\ worker' = Idle /\ appQueue' = [appQueue EXCEPT !.timer = a]
        \/ /\ a.waits = Nowhere /\ worker'.pc = "fetched" /\ worker'.app = a
           /\ UNCHANGED appQueue
    BY DEF ListClusters
  <1> HIDE DEF b
  <1>5. Waiting'
    <2>1. CASE a.waits # Nowhere /\ Target(b, a.waits)
      BY <1>0, <1>1, <1>2, <1>3, <2>1, TargetWaiting DEF Before
    <2>2. CASE a.waits # Nowhere /\ worker' = Idle /\ appQueue' = [appQueue EXCEPT !.timer = a]
      BY <1>0, <1>1, <2>2, QueueFields DEF Waiting
    <2>3. CASE worker'.pc = "fetched" /\ UNCHANGED appQueue
      BY <1>0, <2>3 DEF Before, Waiting
    <2> QED BY <1>4, <2>1, <2>2, <2>3
  <1>6. ASSUME Undisturbed' PROVE Phase'
    <2>1. Undisturbed /\ Phase
      BY <1>0, <1>6 DEF Before, Undisturbed
    <2>2. ASSUME Unbound, app.scheduled_to = Nowhere PROVE Unbound'
      <3>0. Current(a)
        BY <1>0, <2>2 DEF Unbound, Agreed
      <3>1. CASE a.waits # Nowhere /\ Target(b, a.waits)
        BY <1>0, <1>1, <1>2, <1>3, <2>2, <3>0, <3>1, TargetUnbound DEF Current
      <3>2. CASE worker' = Idle /\ appQueue' = [appQueue EXCEPT !.timer = a]
        <4>1. appQueue'.dirty = appQueue.dirty /\ appQueue'.timer = a
          BY <1>1, <3>2, QueueFields
        <4> QED BY <1>0, <2>2, <3>0, <3>2, <4>1 DEF Unbound, OneToken, Agreed, Current, Created
      <3>3. CASE a.waits = Nowhere /\ worker'.pc = "fetched" /\ worker'.app = a /\ UNCHANGED appQueue
        BY <1>0, <2>2, <3>0, <3>3 DEF Unbound, OneToken, Agreed, Current, Created
      <3> QED BY <1>4, <3>1, <3>2, <3>3
    <2>3. ASSUME Bound PROVE Bound'
      <3>0. /\ ~Overtaken
            /\ \/ Placed(a)
               \/ ~scenario.migration /\ a.waits # Nowhere
        BY <1>0, <2>3 DEF Bound, Overtaken
      <3>1. CASE a.waits # Nowhere /\ Target(b, a.waits)
        BY <1>0, <1>1, <1>2, <1>3, <2>3, <3>0, <3>1, TargetBound DEF Placed
      <3>2. CASE worker' = Idle /\ appQueue' = [appQueue EXCEPT !.timer = a]
        <4>1. appQueue'.dirty = appQueue.dirty /\ appQueue'.timer = a
          BY <1>1, <3>2, QueueFields
        <4> QED BY <1>0, <2>3, <3>0, <3>2, <4>1 DEF Bound, Placed
      <3>3. CASE a.waits = Nowhere /\ worker'.pc = "fetched" /\ worker'.app = a /\ UNCHANGED appQueue
        BY <1>0, <2>3, <3>0, <3>3 DEF Bound, Placed
      <3> QED BY <1>4, <3>1, <3>2, <3>3
    <2> QED BY <1>0, <2>1, <2>2, <2>3 DEF Phase
  <1> QED BY <1>5, <1>6 DEF CreationThen

\* Steps of fetching and ranking.
LEMMA FetchKeeps ==
    ASSUME Before, UNCHANGED <<app, appQueue, events, scenario>>, worker # Idle,
           worker.pc \in {"fetched", "ranked"},
           \A c \in Spare : entries'[c] # Null => entries[c] # Null,
           \/ worker' = Idle
           \/ worker'.pc \in {"fetched", "ranked"} /\ worker'.app = worker.app
    PROVE  CreationThen
  <1>1. Waiting'
    BY DEF Before, Waiting
  <1>2. ASSUME Undisturbed' PROVE Phase'
    <2>1. Undisturbed /\ Phase
      BY <1>2 DEF Before, Undisturbed
    <2>2. Unbound => Unbound'
      BY DEF Unbound, OneToken, Agreed, Current, Created
    <2>3. Bound => Bound'
      BY DEF Bound, Placed, Overtaken
    <2> QED BY <2>1, <2>2, <2>3 DEF Phase
  <1> QED BY <1>1, <1>2 DEF CreationThen

\* Reports of metrics.
LEMMA ReportKeeps ==
    ASSUME NEW c \in Clusters, Before, Report(c)
    PROVE  CreationThen
  <1>1. UNCHANGED <<app, events, scenario>> /\ UNCHANGED appQueue
    BY DEF Report, Dropped
  <1>2. worker # Idle /\ worker.pc \in {"fetched", "ranked"}
    BY DEF Report, Idle
  <1>3. \A d \in Spare : entries'[d] # Null => entries[d] # Null
    BY KeptByWrite DEF Report, Before, Typed
  <1>4. \/ worker' = Idle
        \/ worker'.pc \in {"fetched", "ranked"} /\ worker'.app = worker.app
    <2>1. {"pc", "app", "places", "left"} \subseteq DOMAIN worker
      BY <1>2, FetchingTyped DEF Before, Typed
    <2> QED BY <1>2, <2>1 DEF Report, Dropped
  <1> QED BY <1>1, <1>2, <1>3, <1>4, FetchKeeps

\* The second reading.
LEMMA RankKeeps == Before /\ Rank => CreationThen
  <1> SUFFICES ASSUME Before, Rank PROVE CreationThen
    OBVIOUS
  <1>1. UNCHANGED <<app, appQueue, events, entries, scenario>>
    BY DEF Rank, clusterVars
  <1>2. worker # Idle /\ worker.pc \in {"fetched", "ranked"}
    BY DEF Rank, Idle
  <1>3. worker'.pc \in {"fetched", "ranked"} /\ worker'.app = worker.app
    BY DEF Rank
  <1> QED BY <1>1, <1>2, <1>3, FetchKeeps

\* The decision, which may be to create a cluster.
LEMMA DecideKeeps == Before /\ Decide => CreationThen
  <1> SUFFICES ASSUME Before, Decide PROVE CreationThen
    OBVIOUS
  <1> DEFINE a == worker.app
  <1>0. UNCHANGED <<app, events, entries, scenario>> /\ worker # Idle /\ worker.pc = "ranked"
    BY DEF Decide, clusterVars, Idle
  <1>1. a \in Live /\ QueueOK
    BY <1>0, FetchingTyped DEF Before, Typed
  <1>2. \/ worker' = Idle /\ UNCHANGED appQueue
        \/ worker'.pc = "error" /\ worker'.app = Failed(a) /\ UNCHANGED appQueue
        \/ \E n \in Clusters : Target(a, n)
        \/ worker'.pc = "create" /\ worker'.app = a /\ UNCHANGED appQueue
    BY DEF Decide, Dropped, At
  <1>3. Failed(a).scheduled_to = a.scheduled_to /\ Failed(a).waits = a.waits
    <2>1. a \in Apps
      BY <1>1 DEF Live, Counts
    <2> QED BY <2>1 DEF Failed, Apps
  <1>4. Waiting'
    BY <1>0, <1>1, <1>2, TargetWaiting DEF Before, Waiting
  <1>5. ASSUME Undisturbed' PROVE Phase'
    <2>1. Undisturbed /\ Phase
      BY <1>0, <1>5 DEF Before, Undisturbed
    <2>2. ASSUME Unbound PROVE Unbound'
      <3>1. a.scheduled_to = Nowhere /\ a.waits = Nowhere /\ app.waits = Nowhere
        BY <1>0, <2>2 DEF Unbound, Agreed
      <3>2. CASE \E n \in Clusters : Target(a, n)
        BY <1>0, <1>1, <2>2, <3>1, <3>2, TargetUnbound
      <3>3. CASE worker' = Idle /\ UNCHANGED appQueue
        BY <1>0, <2>2, <3>3 DEF Unbound, OneToken, Agreed, Current, Created
      <3>4. CASE worker'.pc = "error" /\ worker'.app = Failed(a) /\ UNCHANGED appQueue
        BY <1>0, <1>3, <2>2, <3>1, <3>4 DEF Unbound, OneToken, Agreed, Current, Created
      <3>5. CASE worker'.pc = "create" /\ worker'.app = a /\ UNCHANGED appQueue
        BY <1>0, <2>2, <3>1, <3>5 DEF Unbound, OneToken, Agreed, Current, Created
      <3> QED BY <1>2, <3>2, <3>3, <3>4, <3>5
    <2>3. ASSUME Bound PROVE Bound'
      <3>1. ~Overtaken /\ Placed(a)
        BY <1>0, <2>3 DEF Bound, Overtaken
      <3>2. CASE \E n \in Clusters : Target(a, n)
        BY <1>0, <1>1, <2>3, <3>1, <3>2, TargetBound
      <3>3. CASE worker' = Idle /\ UNCHANGED appQueue
        BY <1>0, <2>3, <3>1, <3>3 DEF Bound, Placed
      <3>4. CASE worker'.app \in {Failed(a), a} /\ UNCHANGED appQueue
        BY <1>0, <1>3, <2>3, <3>1, <3>4 DEF Bound, Placed
      <3> QED BY <1>2, <3>2, <3>3, <3>4
    <2> QED BY <1>0, <2>1, <2>2, <2>3 DEF Phase
  <1> QED BY <1>4, <1>5 DEF CreationThen

\* The events after an update of an application that has a cluster.
LEMMA AppendPlaced ==
    ASSUME AppOK, NEW a, Placed(a), WriteApp(a), \A i \in DOMAIN events : Placed(events[i])
    PROVE  \A i \in DOMAIN events' : Placed(events'[i])
  <1>1. events \in Seq(Counts) /\ events' = Append(events, a)
    BY DEF AppOK, WriteApp
  <1>2. ASSUME NEW i \in DOMAIN events' PROVE events'[i] = a \/ (i \in DOMAIN events /\ events'[i] = events[i])
    BY <1>1, <1>2
  <1> QED BY <1>2

\* The events after an update that nothing else is on its way before.
LEMMA AppendFirst ==
    ASSUME AppOK, NEW a \in Counts, WriteApp(a)
    PROVE  /\ events' # <<>> /\ app' = a
           /\ events = <<>> => events' = <<a>>
           /\ events # <<>> => Head(events') = Head(events)
  <1>1. events \in Seq(Counts) /\ events' = Append(events, a) /\ app' = a
    BY DEF AppOK, WriteApp
  <1>2. events' # <<>>
    BY <1>1
  <1>3. events = <<>> => events' = <<a>>
    BY <1>1
  <1>4. events # <<>> => Head(events') = Head(events)
    BY <1>1
  <1> QED BY <1>1, <1>2, <1>3, <1>4

\* The binding: the version that is put back without the binding is overtaken by the
\* event of the binding.
LEMMA BindKeeps == Before /\ Bind => CreationThen
  <1> SUFFICES ASSUME Before, Bind PROVE CreationThen
    OBVIOUS
  <1> DEFINE a == worker.app
             b == [app EXCEPT !.scheduled_to = worker.target, !.binding = @ + 1,
                              !.triggered = app.modified]
             r == [a EXCEPT !.retries = scenario.limit]
  <1>0. UNCHANGED <<entries, scenario>> /\ worker # Idle /\ worker.pc = "bind" /\ worker' = Idle
    BY DEF Bind, clusterVars, Idle, Dropped, Handled
  <1>1. a \in Live /\ QueueOK /\ AppOK /\ worker.target \in Clusters
    BY <1>0 DEF Before, Typed, WorkerOK
  <1>2. r.scheduled_to = a.scheduled_to
    BY <1>1 DEF Live, Counts, Apps
  <1>3. app = Null => app' = Null /\ UNCHANGED appQueue
    BY DEF Bind, Dropped
  <1>4. app # Null => WriteApp(b) /\ appQueue' = Reschedule(r, appQueue)
    BY DEF Bind, Handled
  <1>5. app # Null => /\ Placed(b) /\ b.modified = app.modified /\ b.triggered = app.modified
                     /\ app.modified \in Nat /\ app.modified > 0
    <2>1. app # Null => app \in Apps /\ app.modified > 0
      BY <1>1 DEF AppOK, Counts
    <2>2. Nowhere # worker.target
      BY <1>1, SchedulerAssumption
    <2> QED BY <2>1, <2>2 DEF Apps, Placed
  <1> HIDE DEF b, r
  <1>6. \/ UNCHANGED appQueue /\ (app = Null \/ ~scenario.migration \/ appQueue.dirty # Null)
        \/ /\ scenario.migration /\ appQueue.dirty = Null /\ appQueue'.dirty = Null
           /\ appQueue'.timer = r
    <2>1. [appQueue EXCEPT !.timer = r].timer = r /\ [appQueue EXCEPT !.timer = r].dirty = appQueue.dirty
      BY <1>1, QueueFields
    <2> QED BY <1>3, <1>4, <2>1 DEF Reschedule
  <1>7. app # Null => b \in Counts
    BY <1>1, BindIsTyped DEF b
  <1>8. Waiting'
    BY <1>0, <1>6 DEF Before, Waiting
  <1>9. ASSUME Undisturbed' PROVE Phase'
    <2>1. app # Null /\ Undisturbed /\ Phase
      BY <1>0, <1>3, <1>9 DEF Before, Undisturbed
    <2>2. WriteApp(b) /\ app' = b /\ Placed(app')
      BY <1>4, <1>5, <2>1 DEF WriteApp
    <2>3. ASSUME Unbound PROVE Bound'
      <3>1. events = <<>> /\ appQueue.dirty = Null
        BY <1>0, <2>3 DEF Unbound, OneToken
      <3>2. events' = <<b>> /\ Head(events') = b
        BY <1>1, <1>7, <2>1, <2>2, <3>1, AppendFirst
      <3>3. scenario.migration => Overtaken'
        BY <1>0, <1>5, <1>6, <2>1, <3>1, <3>2 DEF Overtaken
      <3> QED BY <1>0, <1>5, <1>6, <2>1, <3>1, <3>2, <3>3 DEF Bound, Placed
    <2>4. ASSUME Bound PROVE Bound'
      <3>1. ~Overtaken /\ (Placed(a) \/ ~scenario.migration)
        BY <1>0, <2>4 DEF Bound, Overtaken
      <3>2. \A i \in DOMAIN events' : Placed(events'[i])
        BY <1>1, <1>5, <2>1, <2>2, <2>4, AppendPlaced DEF Bound
      <3> QED BY <1>0, <1>2, <1>6, <2>4, <3>1, <3>2 DEF Bound, Placed
    <2> QED BY <2>1, <2>2, <2>3, <2>4 DEF Phase, Placed
  <1> QED BY <1>8, <1>9 DEF CreationThen

\* A confirmation is about an application that has a cluster.
LEMMA ConfirmKeeps == Before /\ Confirm => CreationThen
  <1> SUFFICES ASSUME Before, Confirm PROVE CreationThen
    OBVIOUS
  <1> DEFINE a == worker.app
             b == StatusOfApp(a)
             r == [a EXCEPT !.retries = scenario.limit]
  <1>0. UNCHANGED <<entries, scenario>> /\ worker # Idle /\ worker.pc = "confirm" /\ worker' = Idle
    BY DEF Confirm, clusterVars, Idle, Dropped, Handled
  <1>1. a \in Live /\ QueueOK /\ AppOK
    BY <1>0 DEF Before, Typed, WorkerOK
  <1>2. r.scheduled_to = a.scheduled_to /\ b.scheduled_to = a.scheduled_to
    BY <1>1 DEF StatusOfApp, Live, Counts, Apps
  <1>3. app = Null => app' = Null /\ UNCHANGED appQueue
    BY DEF Confirm, Dropped
  <1>4. app # Null => WriteApp(b) /\ appQueue' = Reschedule(r, appQueue)
    BY DEF Confirm, Handled
  <1> HIDE DEF b, r
  <1>5. \/ UNCHANGED appQueue
        \/ scenario.migration /\ appQueue'.dirty = appQueue.dirty /\ appQueue'.timer = r
    <2>1. [appQueue EXCEPT !.timer = r].timer = r /\ [appQueue EXCEPT !.timer = r].dirty = appQueue.dirty
      BY <1>1, QueueFields
    <2> QED BY <1>3, <1>4, <2>1 DEF Reschedule
  <1>6. Waiting'
    BY <1>0, <1>5 DEF Before, Waiting
  <1>7. ASSUME Undisturbed' PROVE Phase'
    <2>1. app # Null /\ Undisturbed /\ Phase
      BY <1>0, <1>3, <1>7 DEF Before, Undisturbed
    <2>2. ~Unbound
      BY <1>0 DEF Unbound, Agreed
    <2>3. Bound
      BY <2>1, <2>2 DEF Phase
    <2>4. ~Overtaken /\ Placed(a)
      BY <1>0, <2>3 DEF Bound, Overtaken
    <2>5. WriteApp(b) /\ app' = b /\ Placed(b)
      BY <1>2, <1>4, <2>1, <2>4 DEF WriteApp, Placed
    <2>6. \A i \in DOMAIN events' : Placed(events'[i])
      BY <1>1, <2>3, <2>5, AppendPlaced DEF Bound
    <2>7. Bound'
      BY <1>0, <1>2, <1>5, <2>3, <2>4, <2>6 DEF Bound, Placed
    <2> QED BY <2>5, <2>7 DEF Phase, Placed
  <1> QED BY <1>6, <1>7 DEF CreationThen

\* The report of an error is the only version, and is not about one that waits.
LEMMA ReportErrorKeeps == Before /\ ReportError => CreationThen
  <1> SUFFICES ASSUME Before, ReportError PROVE CreationThen
    OBVIOUS
  <1> DEFINE a == worker.app
             b == StatusOfApp(a)
  <1>0. /\ UNCHANGED <<appQueue, entries, scenario>>
        /\ worker # Idle /\ worker.pc = "error" /\ worker' = Idle
    BY DEF ReportError, clusterVars, Idle, Dropped
  <1>1. a \in Live /\ AppOK
    BY <1>0 DEF Before, Typed, WorkerOK
  <1>2. b.scheduled_to = a.scheduled_to /\ b.waits = a.waits
    BY <1>1 DEF StatusOfApp, Live, Counts, Apps
  <1>3. app = Null => app' = Null
    BY DEF ReportError
  <1>4. app # Null => WriteApp(b) /\ b \in Counts
    BY <1>1, StatusTyped DEF ReportError
  <1> HIDE DEF b
  <1>5. Waiting'
    BY <1>0 DEF Before, Waiting
  <1>6. ASSUME Undisturbed' PROVE Phase'
    <2>1. app # Null /\ Undisturbed /\ Phase
      BY <1>0, <1>3, <1>6 DEF Before, Undisturbed
    <2>2. WriteApp(b) /\ app' = b /\ b \in Counts
      BY <1>4, <2>1 DEF WriteApp
    <2>3. ASSUME Unbound PROVE Unbound' /\ app'.scheduled_to = Nowhere
      <3>1. /\ events = <<>> /\ appQueue.dirty = Null
            /\ a.scheduled_to = Nowhere /\ a.waits = Nowhere /\ app.waits = Nowhere
        BY <1>0, <2>3 DEF Unbound, OneToken, Agreed
      <3>2. events' = <<b>>
        BY <1>1, <2>2, <3>1, AppendFirst
      <3>3. OneToken'
        BY <1>0, <3>1, <3>2 DEF OneToken
      <3>4. Agreed'
        BY <1>0, <1>2, <2>2, <2>3, <3>1, <3>2 DEF Unbound, Agreed, Current
      <3>5. Created'
        BY <1>0, <1>2, <2>2, <2>3, <3>1 DEF Unbound, Created
      <3> QED BY <1>2, <2>2, <3>1, <3>3, <3>4, <3>5 DEF Unbound
    <2>4. ASSUME Bound PROVE Bound' /\ app'.scheduled_to # Nowhere
      <3>1. ~Overtaken /\ Placed(a)
        BY <1>0, <2>4 DEF Bound, Overtaken
      <3>2. \A i \in DOMAIN events' : Placed(events'[i])
        BY <1>1, <1>2, <2>2, <2>4, <3>1, AppendPlaced DEF Bound, Placed
      <3>3. Bound'
        BY <1>0, <2>4, <3>1, <3>2 DEF Bound, Placed
      <3> QED BY <1>2, <2>2, <3>1, <3>3 DEF Placed
    <2> QED BY <2>1, <2>3, <2>4 DEF Phase
  <1> QED BY <1>5, <1>6 DEF CreationThen

\* The cluster is created for the only version, which waited for none.
LEMMA CreateClusterKeeps == Before /\ CreateCluster => CreationThen
  <1> SUFFICES ASSUME Before, CreateCluster PROVE CreationThen
    OBVIOUS
  <1> DEFINE a == worker.app
             b(c) == [a EXCEPT !.waits = c, !.state = "WAITING_FOR_CLUSTER_CREATION"]
  <1>0. /\ UNCHANGED <<app, appQueue, events, scenario>>
        /\ worker # Idle /\ worker.pc = "create"
    BY DEF CreateCluster, Idle
  <1>1. a \in Live /\ entries \in [Clusters -> Entries \cup {Null}]
    BY <1>0 DEF Before, Typed, WorkerOK, EntriesOK
  <1>2. PICK c \in Spare : /\ WriteEntry(c, Entry("PENDING", Nowhere, TRUE, FALSE))
                           /\ worker' = At("wait", b(c))
    BY DEF CreateCluster
  <1>3. b(c).scheduled_to = a.scheduled_to /\ b(c).waits = c
    BY <1>1 DEF Live, Counts, Apps
  <1> HIDE DEF b
  <1>4. worker'.pc = "wait" /\ worker'.app.scheduled_to = a.scheduled_to /\ worker'.app.waits = c
        /\ worker' # Idle
    BY <1>2, <1>3 DEF At, Idle
  <1>5. c # Nowhere /\ \A d \in Spare : d # Nowhere /\ d \in Clusters
    BY SchedulerAssumption
  <1>6. \A d \in Spare : d # c /\ entries'[d] # Null => entries[d] # Null
    BY <1>1, <1>2, <1>5 DEF WriteEntry
  <1>7. Waiting'
    BY <1>0, <1>4, <1>5 DEF Before, Waiting
  <1>8. ASSUME Undisturbed' PROVE Phase'
    <2>1. Undisturbed /\ Phase
      BY <1>0, <1>8 DEF Before, Undisturbed
    <2>2. ASSUME Unbound PROVE Unbound'
      <3>1. app.waits = Nowhere /\ a.scheduled_to = Nowhere
        BY <1>0, <2>2 DEF Unbound, Agreed
      <3>2. OneToken' /\ Agreed'
        BY <1>0, <1>4, <2>2, <3>1 DEF Unbound, OneToken, Agreed, Current
      <3>3. Created'
        BY <1>0, <1>4, <1>5, <1>6, <2>2, <3>1 DEF Unbound, Created
      <3> QED BY <3>2, <3>3 DEF Unbound
    <2>3. ASSUME Bound PROVE Bound'
      <3>1. ~Overtaken /\ Placed(a)
        BY <1>0, <2>3 DEF Bound, Overtaken
      <3> QED BY <1>0, <1>4, <2>3, <3>1 DEF Bound, Placed
    <2> QED BY <1>0, <2>1, <2>2, <2>3 DEF Phase
  <1> QED BY <1>7, <1>8 DEF CreationThen

\* From here on all versions say that the application waits for the new cluster.
LEMMA WaitKeeps == Before /\ Wait => CreationThen
  <1> SUFFICES ASSUME Before, Wait PROVE CreationThen
    OBVIOUS
  <1> DEFINE a == worker.app
             b == StatusOfApp(a)
  <1>0. UNCHANGED <<entries, scenario>> /\ worker # Idle /\ worker.pc = "wait" /\ worker' = Idle
    BY DEF Wait, clusterVars, Idle, Dropped
  <1>1. a \in Live /\ AppOK /\ QueueOK /\ a.waits # Nowhere
    BY <1>0 DEF Before, Typed, WorkerOK, Waiting
  <1>2. b.scheduled_to = a.scheduled_to /\ b.waits = a.waits
    BY <1>1 DEF StatusOfApp, Live, Counts, Apps
  <1>3. app = Null => app' = Null /\ UNCHANGED appQueue
    BY DEF Wait, Dropped
  <1>4. app # Null => WriteApp(b) /\ b \in Counts /\ appQueue'.timer = a /\ appQueue'.dirty = appQueue.dirty
    <2>1. app # Null => appQueue' = [appQueue EXCEPT !.timer = a]
      BY DEF Wait
    <2> QED BY <1>1, <2>1, StatusTyped, QueueFields DEF Wait
  <1> HIDE DEF b
  <1>5. Waiting'
    BY <1>0, <1>1, <1>3, <1>4 DEF Before, Waiting
  <1>6. ASSUME Undisturbed' PROVE Phase'
    <2>1. app # Null /\ Undisturbed /\ Phase
      BY <1>0, <1>3, <1>6 DEF Before, Undisturbed
    <2>2. WriteApp(b) /\ app' = b /\ b \in Counts
      BY <1>4, <2>1 DEF WriteApp
    <2>3. ASSUME Unbound PROVE Unbound' /\ app'.scheduled_to = Nowhere
      <3>1. /\ events = <<>> /\ appQueue.dirty = Null
            /\ a.scheduled_to = Nowhere /\ app.waits = Nowhere
        BY <1>0, <2>3 DEF Unbound, OneToken, Agreed
      <3>2. events' = <<b>>
        BY <1>1, <2>2, <3>1, AppendFirst
      <3>3. OneToken'
        BY <1>0, <1>4, <2>1, <3>1, <3>2 DEF OneToken
      <3>4. Agreed'
        BY <1>0, <1>2, <1>4, <2>1, <2>2, <3>1, <3>2 DEF Agreed, Current
      <3>5. Created'
        BY <1>0, <1>2, <2>2, <2>3, <3>1, SchedulerAssumption DEF Unbound, Created
      <3> QED BY <1>2, <2>2, <3>1, <3>3, <3>4, <3>5 DEF Unbound
    <2>4. ASSUME Bound PROVE Bound' /\ app'.scheduled_to # Nowhere
      <3>1. ~Overtaken /\ Placed(a)
        BY <1>0, <2>4 DEF Bound, Overtaken
      <3>2. \A i \in DOMAIN events' : Placed(events'[i])
        BY <1>1, <1>2, <2>2, <2>4, <3>1, AppendPlaced DEF Bound, Placed
      <3>3. Bound'
        BY <1>0, <1>4, <2>1, <2>4, <3>1, <3>2 DEF Bound, Placed
      <3> QED BY <1>2, <2>2, <3>1, <3>3 DEF Placed
    <2> QED BY <2>1, <2>3, <2>4 DEF Phase
  <1> QED BY <1>5, <1>6 DEF CreationThen

\* Users that interfere are not part of an orderly scenario while the application is
\* handled; the application controller writes an application that has a cluster.
LEMMA UsersKeep ==
    ASSUME Before, UserUpdate \/ UserDelete \/ AppRuns \/ MigrationFails
    PROVE  CreationThen
  <1>0. /\ UNCHANGED <<appQueue, worker, entries, scenario>> /\ app # Null
    BY DEF UserUpdate, UserDelete, AppRuns, MigrationFails, clusterVars
  <1>1. AppOK /\ app \in Apps
    BY <1>0, AppIsTyped DEF Before, Typed
  <1>2. PICK a : /\ WriteApp(a)
                 /\ a.scheduled_to = app.scheduled_to /\ a.waits = app.waits
    <2>1. CASE UserUpdate
      <3> DEFINE a == [app EXCEPT !.modified = @ + 1]
      <3>1. a.scheduled_to = app.scheduled_to /\ a.waits = app.waits
        BY <1>1 DEF Apps
      <3> QED BY <2>1, <3>1 DEF UserUpdate
    <2>2. CASE UserDelete
      <3> DEFINE a == [app EXCEPT !.deleted = TRUE]
      <3>1. a.scheduled_to = app.scheduled_to /\ a.waits = app.waits
        BY <1>1 DEF Apps
      <3> QED BY <2>2, <3>1 DEF UserDelete
    <2>3. CASE AppRuns
      <3> DEFINE a == [app EXCEPT !.state = "RUNNING"]
      <3>1. a.scheduled_to = app.scheduled_to /\ a.waits = app.waits
        BY <1>1 DEF Apps
      <3> QED BY <2>3, <3>1 DEF AppRuns
    <2>4. CASE MigrationFails
      <3> DEFINE a == [app EXCEPT !.fence = clock.fence + 1]
      <3>1. a.scheduled_to = app.scheduled_to /\ a.waits = app.waits
        BY <1>1 DEF Apps
      <3> QED BY <2>4, <3>1 DEF MigrationFails
    <2> QED BY <2>1, <2>2, <2>3, <2>4
  <1>3. app' = a /\ events' = Append(events, a) /\ events \in Seq(Counts)
    BY <1>1, <1>2 DEF WriteApp, AppOK
  <1>4. Waiting'
    BY <1>0 DEF Before, Waiting
  <1>5. ASSUME Undisturbed' PROVE Phase'
    <2>1. Undisturbed /\ Phase
      BY <1>0, <1>5 DEF Before, Undisturbed
    <2>2. ASSUME Unbound, app.scheduled_to = Nowhere PROVE Unbound'
      <3>1. events = <<>> /\ appQueue.dirty = Null /\ worker = Idle
        BY <2>1, <2>2 DEF UserUpdate, UserDelete, AppRuns, MigrationFails, Ready, AtRest, Undisturbed
      <3>2. events' = <<a>>
        BY <1>3, <3>1
      <3>3. OneToken'
        BY <1>0, <3>1, <3>2 DEF OneToken
      <3>4. Agreed'
        BY <1>0, <1>2, <1>3, <2>2, <3>1, <3>2 DEF Unbound, Agreed, Current
      <3>5. Created'
        BY <1>0, <1>2, <1>3, <2>2 DEF Unbound, Created
      <3> QED BY <3>3, <3>4, <3>5 DEF Unbound
    <2>3. ASSUME Bound, app.scheduled_to # Nowhere PROVE Bound'
      <3>1. \A i \in DOMAIN events' : Placed(events'[i])
        BY <1>1, <1>2, <2>3, AppendPlaced DEF Bound, Placed
      <3>2. events # <<>> => events' # <<>> /\ Head(events') = Head(events)
        BY <1>3
      <3>3. Overtaken => Overtaken'
        BY <1>0, <3>2 DEF Overtaken
      <3> QED BY <1>0, <2>3, <3>1, <3>3 DEF Bound, Placed
    <2> QED BY <1>2, <1>3, <2>1, <2>2, <2>3 DEF Phase
  <1> QED BY <1>4, <1>5 DEF CreationThen

\* Nothing is claimed of an application that is gone.
LEMMA AppGoneKeeps == Before /\ AppGone => CreationThen
  BY DEF AppGone, Before, Waiting, CreationThen, Undisturbed

\* Nor of a scheduler that is restarted.
LEMMA RestartKeeps == Before /\ Restart => CreationThen
  <1> SUFFICES ASSUME Before, Restart PROVE CreationThen
    OBVIOUS
  <1>1. Waiting'
    BY DEF Restart, Waiting, NoVersion
  <1>2. ~Undisturbed'
    <2>1. budget["crash"] > 0 /\ scenario' = scenario
      BY DEF Restart, Spend
    <2>2. budget["crash"] <= scenario.budget["crash"] /\ budget["crash"] \in Nat
      BY DEF Before, Typed, AroundOK, Kinds
    <2> QED BY <2>1, <2>2 DEF Undisturbed
  <1> QED BY <1>1, <1>2 DEF CreationThen

\* Every step keeps what OneCreatedCluster rests on.
LEMMA NextKeeps == Before /\ [Next]_vars => CreationThen
  <1> SUFFICES ASSUME Before, [Next]_vars PROVE CreationThen
    OBVIOUS
  <1>1. CASE AppHandler
    BY <1>1, TakeAppKeeps, ListClustersKeeps, ReportKeeps, RankKeeps, DecideKeeps, BindKeeps,
       ConfirmKeeps, ReportErrorKeeps, CreateClusterKeeps, WaitKeeps DEF AppHandler
  <1>2. CASE ReceiveApp \/ FireApp \/ ReceiveCluster
    BY <1>2, ReceiveAppKeeps, FireAppKeeps, OtherStepKeeps
  <1>3. CASE \E c \in Clusters : \/ ClusterHandler(c)
                                \/ Provision(c) \/ ClusterGone(c) \/ Health(c) \/ UserEdit(c)
    BY <1>3, ClusterStepKeeps
  <1>4. CASE \/ UserUpdate \/ UserDelete \/ AppRuns \/ AppGone \/ MigrationFails \/ NewReadings
             \/ Elapse \/ Restart
    BY <1>4, UsersKeep, AppGoneKeeps, OtherStepKeeps, RestartKeeps
  <1>5. CASE UNCHANGED vars
    BY <1>5, OtherStepKeeps
  <1> QED BY <1>1, <1>2, <1>3, <1>4, <1>5 DEF Next

\* A submitted application is the only version, and no cluster was created for it.
LEMMA InitCreation == Init => CreationInv
  <1> SUFFICES ASSUME Init PROVE CreationInv
    OBVIOUS
  <1>1. Typed
    BY InitTyped
  <1>2. app.scheduled_to = Nowhere /\ app.waits = Nowhere
    BY DEF Init, Submitted
  <1>3. Waiting
    BY DEF Init, Waiting, NoVersion
  <1>4. OneToken /\ Agreed
    <2>1. events = <<app>> /\ appQueue = NoVersion /\ worker = Idle
      BY DEF Init
    <2> QED BY <1>2, <2>1 DEF OneToken, Agreed, Current, NoVersion
  <1>5. Created
    BY ScenarioTyped DEF Init, Created
  <1> QED BY <1>1, <1>2, <1>3, <1>4, <1>5 DEF CreationInv, Unbound

\* Two clusters would both be the one that all versions name.
LEMMA CreationImplies == CreationInv => SchedulerInv
  <1> SUFFICES ASSUME CreationInv PROVE SchedulerInv
    OBVIOUS
  <1>1. TypeOK
    BY TypedIsType DEF CreationInv
  <1>2. ASSUME scenario.orderly, scenario.budget["crash"] = 0, app # Null, app.scheduled_to = Nowhere
        PROVE  Cardinality({c \in Spare : entries[c] # Null}) <= 1
    <2> DEFINE S == {c \in Spare : entries[c] # Null}
    <2>1. Unbound
      BY <1>2 DEF CreationInv, Undisturbed
    <2>2. \A c, d \in S : c = d
      <3>1. Nowhere \notin Spare
        BY SchedulerAssumption
      <3>2. worker # Idle /\ worker.pc = "wait" => app.waits = Nowhere
        BY <2>1 DEF Unbound, Agreed
      <3>3. \A c \in S : c = app.waits \/ (worker # Idle /\ worker.pc = "wait" /\ worker.app.waits = c)
        BY <2>1 DEF Unbound, Created
      <3> QED BY <3>1, <3>2, <3>3
    <2>3. S = {} \/ \E c : S = {c}
      BY <2>2
    <2> HIDE DEF S
    <2>4. Cardinality(S) <= 1
      <3>1. CASE S = {}
        BY <3>1, FS_EmptySet
      <3>2. CASE \E c : S = {c}
        <4>1. PICK c : S = {c}
          BY <3>2
        <4>2. Cardinality({c}) = 1
          BY FS_Singleton
        <4> QED BY <4>1, <4>2
      <3> QED BY <2>3, <3>1, <3>2
    <2> QED BY <2>4 DEF S
  <1> QED BY <1>1, <1>2 DEF SchedulerInv, OneCreatedCluster

\* The state is well typed, and an application without a cluster gets one made for it,
\* not several (schedule_kubernetes_application), whatever the order in which events,
\* timers, handlers and the other controllers run.
THEOREM SchedulerInvariant == Spec => []SchedulerInv
  <1>1. Init => CreationInv
    BY InitCreation
  <1>2. CreationInv /\ [Next]_vars => CreationInv'
    <2>1. CreationInv /\ [Next]_vars => Typed' /\ CreationThen
      BY CreationInvIs, NextTyped, NextKeeps DEF Before
    <2> QED BY <2>1 DEF CreationInv, CreationThen, Phase
  <1> QED BY <1>1, <1>2, CreationImplies, PTL DEF Spec

-----------------------------------------------------------------------------
(* What is chosen fulfils the constraints                                  *)

\* A set of naturals that is not empty has a least element.
LEMMA LeastNumber ==
    ASSUME NEW T, T \subseteq Nat, T # {}
    PROVE  \E x \in T : \A y \in T : x <= y
  <1> DEFINE R == {ss \in Nat \X Nat : ss[1] < ss[2]}
  <1>1. IsWellFoundedOn(R, Nat)
    BY NatLessThanWellFounded DEF OpToRel
  <1>2. \A x, y \in Nat : (<<y, x>> \in R) <=> y < x
    OBVIOUS
  <1> HIDE DEF R
  <1>3. PICK x \in T : \A y \in T : ~(<<y, x>> \in R)
    BY <1>1, WFMin
  <1>4. ASSUME NEW y \in T PROVE x <= y
    <2>1. x \in Nat /\ y \in Nat /\ ~(<<y, x>> \in R)
      BY <1>3
    <2>2. ~(y < x)
      BY <1>2, <2>1
    <2> QED BY <2>1, <2>2
  <1> QED BY <1>4

\* _evaluate says yes only if no constraint is left that does not hold.
LEMMA EvaluateYes ==
    ASSUME NEW V, NEW verdicts \in Seq(V), Evaluate(verdicts) = "yes"
    PROVE  \A i \in 1..Len(verdicts) : verdicts[i] = "yes"
  <1> DEFINE I == {i \in 1..Len(verdicts) : verdicts[i] # "yes"}
  <1>1. SelectInSeq(verdicts, LAMBDA v : v # "yes") = IF I # {} THEN Min(I) ELSE 0
    BY DEF SelectInSeq
  <1>2. ASSUME I # {} PROVE FALSE
    <2>1. I \subseteq Nat
      OBVIOUS
    <2> HIDE DEF I
    <2>2. Min(I) \in I
      BY <1>2, <2>1, LeastNumber DEF Min
    <2>3. Min(I) # 0 /\ verdicts[Min(I)] # "yes"
      BY <2>2 DEF I
    <2> QED BY <1>1, <1>2, <2>3 DEF Evaluate
  <1> QED BY <1>2

VerdictKinds == {"yes", "no", "crash"}

\* The constraints of an application or a cluster.
ListsConstraints(wish) ==
    \E C : wish.labels \in Seq(C) /\ wish.custom \in Seq(C) /\ wish.metrics \in Seq(C)

\* All the constraints hold: on labels, on custom resources, which only clusters have,
\* and on metrics, which could be read.
Fulfils(wish, place, metrics) ==
    /\ \A i \in DOMAIN wish.labels : Match(wish.labels[i], place.labels)
    /\ \A i \in DOMAIN wish.custom : place.kind = "cluster" /\ wish.custom[i] \in place.custom
    /\ \A i \in DOMAIN wish.metrics : metrics # <<>> /\ MetricVerdict(wish.metrics[i], metrics) = "yes"

\* What holds of all elements of two lists that are joined holds of those of each.
LEMMA ConcatAll ==
    ASSUME NEW V, NEW a \in Seq(V), NEW b \in Seq(V), \A i \in 1..Len(a \o b) : (a \o b)[i] = "yes"
    PROVE  (\A i \in 1..Len(a) : a[i] = "yes") /\ (\A i \in 1..Len(b) : b[i] = "yes")
  <1>1. Len(a \o b) = Len(a) + Len(b) /\ Len(a) \in Nat /\ Len(b) \in Nat
    OBVIOUS
  <1>2. ASSUME NEW i \in 1..Len(a) PROVE a[i] = "yes"
    <2>1. i \in 1..Len(a \o b) /\ (a \o b)[i] = a[i]
      BY <1>1
    <2> QED BY <2>1
  <1>3. ASSUME NEW i \in 1..Len(b) PROVE b[i] = "yes"
    <2>1. Len(a) + i \in 1..Len(a \o b)
      BY <1>1
    <2>2. (a \o b)[Len(a) + i] = b[i]
      BY <1>1
    <2> QED BY <2>1, <2>2
  <1> QED BY <1>2, <1>3

\* match_application_constraints and match_cluster_constraints say yes only if all the
\* constraints hold.
LEMMA MatchesFulfils ==
    ASSUME NEW wish, NEW place, NEW metrics, ListsConstraints(wish),
           Matches(wish, place, metrics) = "yes"
    PROVE  Fulfils(wish, place, metrics)
  <1> DEFINE l == LabelVerdicts(wish.labels, place)
             c == [i \in DOMAIN wish.custom |-> CustomVerdict(wish.custom[i], place)]
             m == [i \in DOMAIN wish.metrics |-> MetricVerdict(wish.metrics[i], metrics)]
  <1>0. /\ \A x : MetricVerdict(x, metrics) \in VerdictKinds
        /\ \A x : metrics = <<>> => MetricVerdict(x, metrics) = "crash"
    BY DEF MetricVerdict, VerdictKinds
  <1>1. /\ DOMAIN wish.labels = 1..Len(wish.labels) /\ Len(wish.labels) \in Nat
        /\ DOMAIN wish.custom = 1..Len(wish.custom) /\ Len(wish.custom) \in Nat
        /\ DOMAIN wish.metrics = 1..Len(wish.metrics) /\ Len(wish.metrics) \in Nat
    BY DEF ListsConstraints
  <1>2. l \in Seq(VerdictKinds) /\ Len(l) = Len(wish.labels)
    BY <1>1 DEF LabelVerdicts, VerdictKinds
  <1>3. c \in Seq(VerdictKinds) /\ Len(c) = Len(wish.custom)
    BY <1>1 DEF CustomVerdict, VerdictKinds
  <1>4. m \in Seq(VerdictKinds) /\ Len(m) = Len(wish.metrics)
    BY <1>0, <1>1
  <1>5. Matches(wish, place, metrics) = Evaluate(l \o c \o m)
    BY DEF Matches
  <1>6. \A i \in DOMAIN wish.labels : l[i] = "yes" => Match(wish.labels[i], place.labels)
    BY DEF LabelVerdicts
  <1>7. \A i \in DOMAIN wish.custom :
          c[i] = "yes" => place.kind = "cluster" /\ wish.custom[i] \in place.custom
    <2>1. \A x : CustomVerdict(x, place) = "yes" => place.kind = "cluster" /\ x \in place.custom
      BY DEF CustomVerdict
    <2> QED BY <2>1
  <1>8. \A i \in DOMAIN wish.metrics :
          m[i] = "yes" => metrics # <<>> /\ MetricVerdict(wish.metrics[i], metrics) = "yes"
    BY <1>0
  <1> HIDE DEF l, c, m
  <1>9. l \o c \in Seq(VerdictKinds) /\ (l \o c) \o m \in Seq(VerdictKinds)
    BY <1>2, <1>3, <1>4
  <1>10. \A i \in 1..Len((l \o c) \o m) : ((l \o c) \o m)[i] = "yes"
    BY <1>5, <1>9, EvaluateYes
  <1>11. (\A i \in 1..Len(l \o c) : (l \o c)[i] = "yes") /\ (\A i \in 1..Len(m) : m[i] = "yes")
    BY <1>4, <1>9, <1>10, ConcatAll
  <1>12. (\A i \in 1..Len(l) : l[i] = "yes") /\ (\A i \in 1..Len(c) : c[i] = "yes")
    BY <1>2, <1>3, <1>11, ConcatAll
  <1> QED BY <1>1, <1>2, <1>3, <1>4, <1>6, <1>7, <1>8, <1>11, <1>12 DEF Fulfils

\* The clusters and clouds that are scored for an application match it.
LEMMA ScoredMatch ==
    ASSUME NEW wish, NEW clusters, NEW clouds, NEW prepared, NEW matching, NEW first, NEW second
    PROVE  /\ DOMAIN ClusterScores(wish, clusters, clouds, prepared, matching, second)
                \subseteq matching
           /\ \A n \in DOMAIN CloudScores(wish, clouds, first, second) :
                /\ n \in DOMAIN clouds
                /\ Matches(wish, clouds[n], MetricsOf(clouds[n], first)) = "yes"
  <1> DEFINE refs == [n \in DOMAIN clusters |-> RankRefs(clusters[n], clouds)]
             with == {n \in matching : prepared[n].refs # <<>>}
             fit == {n \in DOMAIN clouds :
                       Matches(wish, clouds[n], MetricsOf(clouds[n], first)) = "yes"}
             measured == {n \in fit : clouds[n].refs # <<>>}
             costs == [n \in DOMAIN clouds |-> clouds[n].refs]
  <1>1. ClusterScores(wish, clusters, clouds, prepared, matching, second)
          \in {Unranked(matching, wish), Ranked(with, refs, second, wish)}
    BY DEF ClusterScores
  <1>2. CloudScores(wish, clouds, first, second)
          \in {Unranked(fit, wish), Ranked(measured, costs, second, wish)}
    BY DEF CloudScores
  <1>3. /\ DOMAIN Unranked(matching, wish) \subseteq matching
        /\ DOMAIN Ranked(with, refs, second, wish) \subseteq matching
    <2> HIDE DEF refs
    <2> QED BY ScoredAmong
  <1>4. /\ DOMAIN Unranked(fit, wish) \subseteq fit
        /\ DOMAIN Ranked(measured, costs, second, wish) \subseteq fit
    <2> HIDE DEF costs, fit
    <2> QED BY ScoredAmong
  <1> HIDE DEF refs, with, measured, costs
  <1>5. DOMAIN ClusterScores(wish, clusters, clouds, prepared, matching, second) \subseteq matching
    BY <1>1, <1>3
  <1>6. DOMAIN CloudScores(wish, clouds, first, second) \subseteq fit
    <2> HIDE DEF fit
    <2> QED BY <1>2, <1>4
  <1> QED BY <1>5, <1>6

\* Where an application goes: to a usable cluster that matches, or, if it may have a
\* cluster made, to a cloud that matches.
LEMMA LocationMatches ==
    ASSUME NEW wish, NEW clusters, NEW clouds, NEW first, NEW second,
           NEW n \in SelectLocation(wish, clusters, clouds, first, second).names
    PROVE  \/ /\ n \in DOMAIN clusters
              /\ LET place == Prepared(clusters, clouds, first)[n]
                 IN  /\ Usable(place)
                     /\ Matches(wish, place, MetricsOf(place, first)) = "yes"
           \/ /\ wish.auto /\ n \in DOMAIN clouds
              /\ Matches(wish, clouds[n], MetricsOf(clouds[n], first)) = "yes"
  <1> DEFINE prepared == Prepared(clusters, clouds, first)
             verdicts == Verdicts(wish, prepared, first)
             matching == Yes(verdicts)
             scores == ClusterScores(wish, clusters, clouds, prepared, matching, second)
             offers == CloudScores(wish, clouds, first, second)
             all == IF wish.auto THEN Over(scores, offers) ELSE scores
             o == SelectLocation(wish, clusters, clouds, first, second)
             A == \/ \E k \in DOMAIN prepared : Crashes(prepared[k].refs, first)
                  \/ "crash" \in {verdicts[k] : k \in DOMAIN verdicts}
             B == matching = {} /\ ~wish.auto
             C == wish.scheduled_to \in matching /\ wish.recent
             D == \/ \E k \in matching : Crashes(prepared[k].refs, second)
                  \/ wish.auto /\ CloudsCrash(wish, clouds, first, second)
             stay == Outcome("place", {wish.scheduled_to})
             best == Chosen(all, Over(clusters, clouds))
             good == \/ /\ n \in DOMAIN clusters
                        /\ Usable(prepared[n])
                        /\ Matches(wish, prepared[n], MetricsOf(prepared[n], first)) = "yes"
                     \/ /\ wish.auto /\ n \in DOMAIN clouds
                        /\ Matches(wish, clouds[n], MetricsOf(clouds[n], first)) = "yes"
  <1> SUFFICES good
    OBVIOUS
  <1>1. n \in matching => good
    <2>1. DOMAIN prepared = DOMAIN clusters
      BY DEF Prepared
    <2> HIDE DEF prepared
    <2> QED BY <2>1 DEF Yes, Verdicts
  <1>2. DOMAIN scores \subseteq matching
    <2> HIDE DEF prepared, matching
    <2> QED BY ScoredMatch
  <1>3. \A k \in DOMAIN offers :
          k \in DOMAIN clouds /\ Matches(wish, clouds[k], MetricsOf(clouds[k], first)) = "yes"
    BY ScoredMatch
  <1>4. \/ o = Crash \/ o = None \/ o = best
        \/ o = stay /\ wish.scheduled_to \in matching
    <2>1. o = IF A THEN Crash ELSE IF B THEN None ELSE IF C THEN stay ELSE IF D THEN Crash ELSE best
      BY DEF SelectLocation
    <2>2. C => wish.scheduled_to \in matching
      OBVIOUS
    <2> HIDE DEF A, B, C, D, stay, best, matching, o
    <2> QED BY <2>1, <2>2
  <1>5. n \in o.names
    OBVIOUS
  <1> HIDE DEF prepared, matching, scores, offers, o
  <1>6. \A k \in DOMAIN all : k \in DOMAIN scores \/ (wish.auto /\ k \in DOMAIN offers)
    <2>1. DOMAIN Over(scores, offers) = DOMAIN scores \cup DOMAIN offers
      BY DEF Over
    <2>2. CASE wish.auto
      <3>1. all = Over(scores, offers)
        BY <2>2
      <3> QED BY <2>1, <2>2, <3>1
    <2>3. CASE ~wish.auto
      <3>1. all = scores
        BY <2>3
      <3> QED BY <3>1
    <2> QED BY <2>2, <2>3
  <1>7. CASE o = best
    <2>1. n \in DOMAIN all
      <3> HIDE DEF all
      <3> QED BY <1>5, <1>7, ChosenAmong
    <2> HIDE DEF all
    <2>2. n \in DOMAIN scores \/ (wish.auto /\ n \in DOMAIN offers)
      BY <1>6, <2>1
    <2>3. ASSUME wish.auto, n \in DOMAIN offers PROVE good
      BY <1>3, <2>3
    <2> HIDE DEF good
    <2> QED BY <1>1, <1>2, <2>2, <2>3
  <1>8. CASE o = stay /\ wish.scheduled_to \in matching
    <2>1. n = wish.scheduled_to
      BY <1>5, <1>8 DEF Outcome
    <2> HIDE DEF good
    <2> QED BY <1>1, <1>8, <2>1
  <1>9. o # Crash /\ o # None
    BY <1>5 DEF Crash, None, Outcome
  <1> HIDE DEF good, best, stay
  <1> QED BY <1>4, <1>7, <1>8, <1>9

\* A cluster that is online after its metrics were fetched has none that failed.
LEMMA UsableReads ==
    ASSUME NEW clusters, NEW clouds, NEW first, NEW n \in DOMAIN clusters,
           {"refs", "state"} \subseteq DOMAIN clusters[n],
           Usable(Prepared(clusters, clouds, first)[n])
    PROVE  ~Fails(Prepared(clusters, clouds, first)[n].refs, first)
  <1> DEFINE c == Inherited(clusters[n], clouds)
             p == [c EXCEPT !.state = AfterFetch(c, first)]
  <1>1. Prepared(clusters, clouds, first)[n] = p
    BY DEF Prepared
  <1>2. ASSUME Fails(c.refs, first) PROVE AfterFetch(c, first) = "FAILING_METRICS"
    BY <1>2 DEF AfterFetch
  <1>3. {"refs", "state"} \subseteq DOMAIN c
    BY DEF Inherited
  <1> HIDE DEF c
  <1>4. p.refs = c.refs /\ p.state = AfterFetch(c, first)
    BY <1>3
  <1> HIDE DEF p
  <1> QED BY <1>1, <1>2, <1>4 DEF Usable

\* match_project_constraints says yes only if all the constraints hold.
LEMMA ProjectFulfils ==
    ASSUME NEW wish, NEW C, wish.labels \in Seq(C), NEW projects, NEW measured,
           NEW n \in SelectProject(wish, projects, measured).names
    PROVE  /\ n \in DOMAIN projects /\ ~projects[n].deleted
           /\ \A i \in DOMAIN wish.labels : Match(wish.labels[i], projects[n].labels)
  <1> DEFINE matching == {k \in DOMAIN projects :
                            ~projects[k].deleted /\ MatchesProject(wish, projects[k])}
             refs == [k \in DOMAIN projects |-> projects[k].refs]
             with == {k \in matching : refs[k] # <<>>}
             scores == IF with = {} THEN Unranked(matching, wish)
                       ELSE Ranked(with, refs, measured, wish)
             o == SelectProject(wish, projects, measured)
             B == matching = {}
             C1 == \E k \in with : Crashes(refs[k], measured)
             D == scores = <<>>
             best == Chosen(scores, projects)
  <1>1. DOMAIN scores \subseteq matching
    <2> HIDE DEF matching, refs
    <2> QED BY ScoredAmong
  <1>2. o = Crash \/ o = None \/ o = best
    <2>1. o = IF B THEN None ELSE IF C1 THEN Crash ELSE IF D THEN None ELSE best
      BY DEF SelectProject
    <2> HIDE DEF o, B, C1, D, best
    <2> QED BY <2>1
  <1>3. n \in o.names
    OBVIOUS
  <1>4. n \in matching
    <2>1. o # Crash /\ o # None
      BY <1>3 DEF Crash, None, Outcome
    <2> HIDE DEF matching, scores, o
    <2> QED BY <1>1, <1>2, <1>3, <2>1, ChosenAmong
  <1>5. Evaluate(LabelVerdicts(wish.labels, projects[n])) = "yes"
    BY <1>4 DEF MatchesProject
  <1> DEFINE l == LabelVerdicts(wish.labels, projects[n])
  <1>6. DOMAIN wish.labels = 1..Len(wish.labels) /\ Len(wish.labels) \in Nat
    OBVIOUS
  <1>7. l \in Seq(VerdictKinds) /\ Len(l) = Len(wish.labels)
    BY <1>6 DEF LabelVerdicts, VerdictKinds
  <1>8. \A i \in DOMAIN wish.labels : l[i] = "yes" => Match(wish.labels[i], projects[n].labels)
    BY DEF LabelVerdicts
  <1>9. \A i \in 1..Len(l) : l[i] = "yes"
    <2> HIDE DEF l
    <2> QED BY <1>5, <1>7, EvaluateYes DEF l
  <1> HIDE DEF l
  <1> QED BY <1>4, <1>6, <1>7, <1>8, <1>9

\* Wherever the scheduler sends an application, a cluster or a Magnum cluster, whatever
\* is wished, whatever the places are, inherit and measure, and whatever changed between
\* the two readings of the metrics, all the constraints hold there: for an application on
\* a cluster that is online, not in deletion and whose metrics could be read, with what it
\* inherits, or on a cloud if it may have a cluster made; for a cluster on a cloud that is
\* not in deletion; for a Magnum cluster on a project that is not in deletion
\* (match_application_constraints, match_cluster_constraints, match_project_constraints
\* and the selections in scheduler.py).
THEOREM ChosenFulfils ==
    ASSUME NEW wish, ListsConstraints(wish), NEW clusters, NEW clouds, NEW first, NEW second,
           \A n \in DOMAIN clusters : {"refs", "state"} \subseteq DOMAIN clusters[n]
    PROVE  /\ \A n \in SelectLocation(wish, clusters, clouds, first, second).names :
                \/ /\ n \in DOMAIN clusters
                   /\ LET place == Prepared(clusters, clouds, first)[n]
                      IN  /\ Usable(place) /\ ~Fails(place.refs, first)
                          /\ Fulfils(wish, place, MetricsOf(place, first))
                \/ /\ wish.auto /\ n \in DOMAIN clouds
                   /\ Fulfils(wish, clouds[n], MetricsOf(clouds[n], first))
           /\ \A n \in SelectCloud(wish, clouds, first, second).names :
                /\ n \in DOMAIN clouds /\ ~clouds[n].deleted
                /\ Fulfils(wish, clouds[n], MetricsOf(clouds[n], first))
           /\ \A n \in SelectProject(wish, clouds, second).names :
                /\ n \in DOMAIN clouds /\ ~clouds[n].deleted
                /\ \A i \in DOMAIN wish.labels : Match(wish.labels[i], clouds[n].labels)
  <1>1. ASSUME NEW n \in SelectLocation(wish, clusters, clouds, first, second).names
        PROVE  \/ /\ n \in DOMAIN clusters
                  /\ LET place == Prepared(clusters, clouds, first)[n]
                     IN  /\ Usable(place) /\ ~Fails(place.refs, first)
                         /\ Fulfils(wish, place, MetricsOf(place, first))
               \/ /\ wish.auto /\ n \in DOMAIN clouds
                  /\ Fulfils(wish, clouds[n], MetricsOf(clouds[n], first))
    BY <1>1, LocationMatches, MatchesFulfils, UsableReads
  <1>2. ASSUME NEW n \in SelectCloud(wish, clouds, first, second).names
        PROVE  /\ n \in DOMAIN clouds /\ ~clouds[n].deleted
               /\ Fulfils(wish, clouds[n], MetricsOf(clouds[n], first))
    BY <1>2, CloudMatches, MatchesFulfils
  <1>3. ASSUME NEW n \in SelectProject(wish, clouds, second).names
        PROVE  /\ n \in DOMAIN clouds /\ ~clouds[n].deleted
               /\ \A i \in DOMAIN wish.labels : Match(wish.labels[i], clouds[n].labels)
    BY <1>3, ProjectFulfils DEF ListsConstraints
  <1> QED BY <1>1, <1>2, <1>3
=============================================================================
