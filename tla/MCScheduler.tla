---------------------------- MODULE MCScheduler ----------------------------
(* Instances of Scheduler for TLC: two registered clusters with a metric   *)
(* each, a cluster to be provisioned, names for created clusters, and two  *)
(* clouds.  Beside the lives of an application there are cases: single     *)
(* constraints, pairs of them, and choices between two places, for which   *)
(* the operators of Selection are compared with what they promise.         *)
EXTENDS Scheduler

VARIABLE case   \* a case, or Null in the life of an application

MCStickiness == <<1, 10>>

NoLabels == <<>>
Ref(n) == [name |-> n, weight |-> 1]
ClusterPlace(labels, refs, inherits) ==
    Place("cluster", "ONLINE", FALSE, labels, {}, refs, "none", inherits, <<>>)
CloudPlace(refs) == Place("cloud", "ONLINE", FALSE, NoLabels, {}, refs, "none", {}, <<>>)

MCDescribed ==
    [near |-> ClusterPlace(NoLabels, <<Ref("m")>>, {}),
     far |-> ClusterPlace(NoLabels, <<Ref("n")>>, {}),
     own |-> ClusterPlace(NoLabels, <<>>, {}),
     mine |-> ClusterPlace(NoLabels, <<Ref("m")>>, {}),
     auto |-> ClusterPlace(NoLabels, <<>>, {"labels", "metrics"}),
     more |-> ClusterPlace(NoLabels, <<>>, {"labels", "metrics"})]
Anything == [labels |-> <<>>, custom |-> <<>>, metrics |-> <<>>]
MCDemands == [c \in DOMAIN MCDescribed |-> Anything]
MCNamespaced == [home |-> CloudPlace(<<Ref("k")>>), port |-> CloudPlace(<<Ref("n")>>)]
MCGlobal == [wide |-> CloudPlace(<<>>)]

\* Metrics are high, low, or cannot be read
High == Value(<<3, 4>>)
Low == Value(<<1, 4>>)
Reading(m, n, k) == [m |-> m, n |-> n, k |-> k]
MCReadings ==
    {Reading(High, Low, High), Reading(Low, High, Low),
     Reading(ReasonFromErr("metric not found"), Low, Low)}

Registered == Entry("ONLINE", "none", FALSE, TRUE)
Only(cs) == [c \in DOMAIN MCDescribed |-> IF c \in DOMAIN cs THEN cs[c] ELSE Null]
Budget(ks) == [k \in Kinds |-> IF k \in ks THEN 1 ELSE 0]
Life(cs, auto, migration, limit, neighbour, orderly, ks) ==
    [clusters |-> Only(cs), wish |-> Anything, auto |-> auto, migration |-> migration,
     limit |-> limit, neighbour |-> neighbour, orderly |-> orderly, budget |-> Budget(ks)]
Two == [near |-> Registered, far |-> Registered]

\* Periodic rescheduling with changing metrics, updates and restarts
Wandering == Life(Two, FALSE, TRUE, 1, FALSE, TRUE, {"update", "metrics", "fence"})
Pinned(ks) == Life(Two, FALSE, FALSE, 1, FALSE, TRUE, ks)
Deleted == Life(Two, FALSE, TRUE, 1, FALSE, FALSE, {"update", "delete"})
\* Clusters that come and go
Shaky == Life([near |-> Registered], FALSE, TRUE, Unlimited, FALSE, TRUE, {"update", "health"})
\* A cluster is created for the application
Creating == Life(<<>>, TRUE, TRUE, 0, FALSE, TRUE, {"update", "metrics"})
CreatingAgain == Life(<<>>, TRUE, TRUE, 0, TRUE, FALSE, {"crash"})
CreatedForNobody == Life(<<>>, TRUE, TRUE, 0, FALSE, FALSE, {"delete"})
\* A user has a cluster provisioned
Provisioned == Life([own |-> Entry("PENDING", "none", FALSE, FALSE)], FALSE, TRUE, 0, TRUE,
                    TRUE, {"edit", "metrics"})
\* The same with a metric of its own
Measurable == Life([mine |-> Entry("PENDING", "none", FALSE, FALSE)], FALSE, TRUE, 0, TRUE,
                   TRUE, {"edit", "metrics"})

Lives == {Wandering, Pinned({"metrics", "crash"}), Deleted, Shaky, Creating, CreatingAgain, CreatedForNobody,
          Provisioned, Measurable}
\* An application that must not migrate is updated
PinnedUpdate == {Pinned({"update"})}
\* The only cluster is offline and comes back
Outage == {Life([near |-> [Registered EXCEPT !.state = "OFFLINE"]], FALSE, TRUE, 1, FALSE, TRUE,
                {"health"})}

-----------------------------------------------------------------------------
(* Cases                                                                   *)

Words == {"x", "not", "in"}
ListValues == {<<v>> : v \in Words} \cup {<<v, w>> : v, w \in Words}
LabelConstraints ==
    [class: {"Equal", "NotEqual"}, key: {"l", "is"}, values: {<<v>> : v \in Words}]
        \cup [class: Lists, key: {"l", "not"}, values: ListValues]
MetricConstraints == [class: MetricClasses, key: {"m", "n"}, values: {<<d>> : d \in Digits}]
Sentences == [kind: {"sentence"}, constraint: LabelConstraints \cup MetricConstraints]
Pairs == [kind: {"pair"}, left: LabelConstraints, right: LabelConstraints]

\* The replies of providers for a metric between 0 and 2
Unit == Metric(0, 2, {0, 1, 2, 3})
Reads(providers, replies) == {FetchQuery(Unit, p, r) : p \in providers, r \in replies}
Numbers(ns) == {Number(n) : n \in ns}
Both == {[m |-> m, n |-> n] :
           m \in Reads({"prometheus", "kafka"}, Numbers(0..3) \cup {Refused, Text}),
           n \in Reads({"influx"}, Numbers({1})) \cup Reads({"static"}, {Absent})}
Labels == {NoLabels, [l |-> "x"]}
RefLists == {<<>>, <<Ref("m")>>, <<[name |-> "n", weight |-> 2], Ref("m")>>}
OtherPlaces(kind) == {Place(kind, "ONLINE", FALSE, l, {}, r, "none", {}, <<>>) :
                        l \in Labels, r \in {<<>>, <<Ref("n")>>}}
FirstPlaces(kind) == {Place(kind, s, FALSE, l, {}, r, "none", {}, <<>>) :
                        s \in {"ONLINE", "OFFLINE"}, l \in Labels, r \in RefLists}
LabelWishes == {<<>>, <<Constraint("Equal", "l", <<"x">>)>>,
                <<Constraint("NotEqual", "l", <<"x">>), Constraint("In", "l", <<"x", "in">>)>>}
MetricWishes == {<<>>, <<Constraint("GreaterThan", "m", <<"0">>)>>}
Wishes(places) ==
    {[labels |-> l, custom |-> <<>>, metrics |-> m, auto |-> FALSE, scheduled_to |-> at,
      recent |-> FALSE] : l \in LabelWishes, m \in MetricWishes, at \in places}
\* What a choice is for decides its kind of places; second: what the metrics may read
\* when the places are ranked
Later == [m |-> Value(One), n |-> ReasonFromErr("provider not found")]
Selections(of, kind, places) ==
    {[kind |-> "choice", of |-> of, wish |-> w, here |-> h, there |-> t, first |-> r,
      second |-> Later] :
        w \in Wishes(places), h \in FirstPlaces(kind), t \in OtherPlaces(kind), r \in Both}
CasesOf(topic) ==
    CASE topic = "language"    -> Sentences \cup Pairs
      [] topic = "application" -> Selections("application", "cluster", {"none", "here"})
      [] topic = "cluster"     -> Selections("cluster", "cloud", {"none"})
      [] topic = "magnum"      -> Selections("magnum", "project", {"none"})

PlacesOf(k) == [here |-> k.here, there |-> k.there]
ChoiceOf(k, second) ==
    CASE k.of = "application" -> SelectLocation(k.wish, PlacesOf(k), <<>>, k.first, second)
      [] k.of = "cluster"     -> SelectCloud(k.wish, PlacesOf(k), k.first, second)
      [] k.of = "magnum"      -> SelectProject(k.wish, PlacesOf(k), second)

MCInit ==
    /\ Init
    /\ scenario.auto => readings = Reading(High, Low, High)
    /\ \/ case = Null
       \/ /\ scenario = Wandering /\ readings = CHOOSE r \in Readings : TRUE
          /\ case \in [kind: {"topic"}, topic: {"language", "application", "cluster", "magnum"}]
Pick ==
    /\ case # Null /\ case.kind = "topic"
    /\ case' \in CasesOf(case.topic)
    /\ UNCHANGED vars
MCNext == (case = Null /\ Next /\ UNCHANGED case) \/ Pick
MCSpec == MCInit /\ [][MCNext]_<<vars, case>> /\ Fairness

IsCase(kind) == case # Null /\ case.kind = kind

\* The sentence that a constraint is written as stands for this constraint and no
\* other, whatever its key and values are (data/constraints.py: __str__, parse).
SentenceRoundTrip ==
    IsCase("sentence") =>
        \A classes \in {LabelClasses, MetricClasses} : case.constraint.class \in classes
            => Parse(classes, Str(case.constraint)) = {case.constraint}

\* Constraints that are equal match the same labels, so that an update that changes
\* the meaning of a constraint is not taken for none (data/constraints.py: __eq__).
EqualMeansSame ==
    IsCase("pair") /\ Equals(case.left, case.right)
    => \A v \in Words \cup {"y"} : \A k \in {"l", "is", "not"} :
          Match(case.left, k :> v) <=> Match(case.right, k :> v)

\* A constraint that is written as a sentence and parsed again is the same
\* (LabelConstraint.parse, __str__), and constraints that compare equal mean the same
\* (__eq__, match).
LanguageSound == SentenceRoundTrip /\ EqualMeansSame

\* The scores of a choice are fractions between 0 and 1, as the metrics are, with
\* and without the weight of staying (metrics.py: normalize).
ScoresInRange ==
    IsCase("choice") =>
        \A n \in {"here", "there"} :
            LET refs == PlacesOf(case)[n].refs
                score == Score(Fetched(refs, case.first), StickyFor(case.wish, n))
            IN  ~Fails(refs, case.first) => ~Below(score.value, Zero) /\ ~Below(One, score.value)

\* What a constraint of the choices means
Holds(c, place, first) ==
    CASE c.class = "Equal"       -> "l" \in DOMAIN place.labels /\ place.labels["l"] = "x"
      [] c.class = "NotEqual"    -> "l" \in DOMAIN place.labels /\ place.labels["l"] # "x"
      [] c.class = "In"          -> "l" \in DOMAIN place.labels
      [] c.class = "GreaterThan" -> /\ \E i \in DOMAIN place.refs : place.refs[i].name = "m"
                                    /\ first["m"].why = "none" /\ first["m"].value[1] > 0

\* What is chosen fulfils all the constraints; a cluster is online, and what was read
\* of its metrics at first is valid, even if they cannot be read any more when the
\* places are ranked (scheduler/constraints.py: match_application_constraints,
\* match_cluster_constraints, match_project_constraints).
ChosenIsAllowed ==
    IsCase("choice") =>
        \A second \in {case.first, case.second} : \A n \in ChoiceOf(case, second).names :
            LET place == PlacesOf(case)[n]
                wished == ToSet(case.wish.labels)
                            \cup (IF case.of = "magnum" THEN {} ELSE ToSet(case.wish.metrics))
            IN  /\ \A c \in wished : Holds(c, place, case.first)
                /\ case.of = "application"
                     => place.state = "ONLINE" /\ ~Fails(place.refs, case.first)

Plain(n) == Score(Fetched(PlacesOf(case)[n].refs, case.first), Zero).value
\* Both places allow the application, which runs here, and have metrics that can be read
Comparable ==
    /\ IsCase("choice") /\ case.of = "application" /\ case.wish.scheduled_to = "here"
    /\ case.here.state = "ONLINE"
    /\ \A n \in {"here", "there"} :
         LET place == PlacesOf(case)[n] IN
         /\ place.refs # <<>> /\ ~Fails(place.refs, case.first)
         /\ \A c \in ToSet(case.wish.labels) \cup ToSet(case.wish.metrics) :
               Holds(c, place, case.first)

\* An application leaves its cluster only for one whose metrics are not worse, and not
\* for an equal one either, unless its own has the best score there is, where the
\* weight of staying adds nothing (select_maximum and
\* calculate_kubernetes_cluster_stickiness).
MovesOnlyToBetter ==
    Comparable =>
        LET chosen == ChoiceOf(case, case.first).names
        IN  /\ "there" \in chosen => ~Below(Plain("there"), Plain("here"))
            /\ ~Below(Plain("here"), Plain("there")) /\ Below(Plain("here"), One)
               => chosen = {"here"}

\* Scores stay between 0 and 1 and so compare with each other
\* (calculate_kubernetes_cluster_score), and an application leaves its cluster for a better one only
\* (select_maximum with stickiness).
RankingSound == ScoresInRange /\ MovesOnlyToBetter
=============================================================================
