----------------------------- MODULE Selection -----------------------------
(***************************************************************************)
(* How the scheduler chooses (krake/controller/scheduler/constraints.py,   *)
(* metrics.py and the ranking in scheduler.py): constraints, metric        *)
(* values, scores, stickiness and the best place for an application, a     *)
(* cluster or a Magnum cluster.                                            *)
(*                                                                         *)
(* Places are clusters, clouds and projects, in functions from their       *)
(* names.  Numbers are fractions <<numerator, denominator>>.  A Python     *)
(* exception that the workers of the scheduler do not handle is a crash.   *)
(***************************************************************************)
EXTENDS ConstraintLanguage

CONSTANT Stickiness   \* a fraction: the weight of staying

\* refs: the metrics of a place, [name, weight]; cloud: the cloud of a cluster, "none"
\* without one; inherits: what the cluster takes over from it; wants: the values of
\* its constraints on the metrics of the cloud
Place(kind, state, deleted, labels, custom, refs, cloud, inherits, wants) ==
    [kind |-> kind, state |-> state, deleted |-> deleted, labels |-> labels,
     custom |-> custom, refs |-> refs, cloud |-> cloud, inherits |-> inherits,
     wants |-> wants]

\* f, and g where f has no value: @@, which the provers do not expand
Over(f, g) == [x \in DOMAIN f \cup DOMAIN g |-> IF x \in DOMAIN f THEN f[x] ELSE g[x]]

Plus(a, b) == <<a[1] * b[2] + b[1] * a[2], a[2] * b[2]>>
Scaled(n, a) == <<n * a[1], a[2]>>
Below(a, b) == a[1] * b[2] < b[1] * a[2]
Zero == <<0, 1>>
One == <<1, 1>>
SumOf(fractions) == FoldLeft(Plus, Zero, fractions)

-----------------------------------------------------------------------------
(* Metrics                                                                 *)

\* A metric: its range and the allowed values, if any
Metric(min, max, allowed) == [min |-> min, max |-> max, allowed |-> allowed]

\* What a provider replies: nothing, something without the metric, a text, or a number
Refused == [kind |-> "refused"]
Absent == [kind |-> "absent"]
Text == [kind |-> "text"]
Number(n) == [kind |-> "number", number |-> n]

Failure(why) == [why |-> why]
Value(v) == [why |-> "none", value |-> v]

\* query of the providers: the error that it raises
QueryPrometheus(reply) ==
    CASE reply = Refused -> "MetricsProviderError"
      [] reply \in {Absent, Text} -> "MetricError"
      [] OTHER -> "none"
QueryKafka(reply) ==
    CASE reply = Refused -> "MetricsProviderError"
      [] reply = Absent -> "MetricError"
      [] reply = Text -> "ValueError"
      [] OTHER -> "none"
QueryInflux(reply) ==
    CASE reply \in {Refused, Text} -> "MetricsProviderError"
      [] reply = Absent -> "MetricError"
      [] OTHER -> "none"
QueryStatic(reply) == IF reply = Absent THEN "MetricError" ELSE "none"
Query(provider, reply) ==
    CASE provider = "prometheus" -> QueryPrometheus(reply)
      [] provider = "kafka"      -> QueryKafka(reply)
      [] provider = "influx"     -> QueryInflux(reply)
      [] provider = "static"     -> QueryStatic(reply)

\* metrics_reason_from_err: errors without a reason are raised again
ReasonFromErr(error) ==
    CASE error = "MetricsProviderError"     -> Failure("UNREACHABLE_METRICS_PROVIDER")
      [] error = "MetricError"              -> Failure("INVALID_METRIC")
      [] error = "metric not found"         -> Failure("UNKNOWN_METRIC")
      [] error = "provider not found"       -> Failure("UNKNOWN_METRICS_PROVIDER")
      [] OTHER                              -> Failure("crash")

\* Faulty variant of Normalize: an answer out of range is accepted
NormalizeAny(m, raw) == Value(<<raw - m.min, m.max - m.min>>)

\* normalize
Normalize(m, raw) ==
    IF raw < m.min \/ raw > m.max \/ (m.allowed # {} /\ raw \notin m.allowed)
      THEN ReasonFromErr("MetricError")
      ELSE IF m.min = m.max THEN ReasonFromErr("ZeroDivisionError")
           ELSE Value(<<raw - m.min, m.max - m.min>>)

\* fetch_query
FetchQuery(m, provider, reply) ==
    LET error == Query(provider, reply)
    IN  IF error = "none" THEN Normalize(m, reply.number) ELSE ReasonFromErr(error)

\* fetch_metrics, first half: the readings of the metrics of a place.  The reasons of
\* failed ones are collected, other exceptions are not
Whys(refs, readings) == {readings[refs[i].name].why : i \in DOMAIN refs}
Crashes(refs, readings) == "crash" \in Whys(refs, readings)
Fails(refs, readings) == Whys(refs, readings) \notin {{}, {"none"}}

\* The metrics that fetch_metrics yields
Fetched(refs, readings) ==
    [i \in DOMAIN refs |-> [name |-> refs[i].name, weight |-> refs[i].weight,
                            value |-> readings[refs[i].name].value]]

\* fetch_metrics, second half: the state of a cluster or cloud that it writes
AfterFetch(place, readings) ==
    IF Fails(place.refs, readings) THEN "FAILING_METRICS"
    ELSE IF /\ place.refs # <<>>
            /\ \/ place.kind = "cloud"
               \/ place.kind = "cluster" /\ place.state = "FAILING_METRICS"
           THEN "ONLINE" ELSE place.state

\* Metrics of a cloud that a cluster inherits, and those its constraints name
FromCloud(c, clouds) ==
    IF c.cloud = "none" THEN <<>>
    ELSE SelectSeq(clouds[c.cloud].refs,
                   LAMBDA r : "metrics" \in c.inherits \/ r.name \in ToSet(c.wants))

\* update_inherited_cluster_values: all labels of the cloud, or, with constraints on
\* its labels, those that the values of the metric constraints name; the cloud wins
Inherited(c, clouds) ==
    LET from == clouds[c.cloud].labels
        taken == IF c.cloud = "none" THEN {}
                 ELSE {l \in DOMAIN from :
                         \/ "labels" \in c.inherits
                         \/ "label constraints" \in c.inherits /\ l \in ToSet(c.wants)}
    IN  [c EXCEPT !.refs = @ \o FromCloud(c, clouds),
                  !.labels = Over([l \in taken |-> from[l]], @)]

\* rank_kubernetes_clusters: the same metrics, none of them twice
RankRefs(c, clouds) ==
    c.refs \o SelectSeq(FromCloud(c, clouds), LAMBDA r : r \notin ToSet(c.refs))

-----------------------------------------------------------------------------
(* Constraints                                                             *)

\* _condition_metric: values times weights; a place without fetched metrics and a
\* limit that is not a number are errors
MetricVerdict(c, metrics) ==
    LET values == [n \in {metrics[i].name : i \in DOMAIN metrics} |->
                     LET i == SelectLastInSeq(metrics, LAMBDA m : m.name = n)
                     IN  Scaled(metrics[i].weight, metrics[i].value)]
    IN  CASE metrics = <<>> -> "crash"
          [] metrics # <<>> /\ c.key \in DOMAIN values /\ c.values[1] \notin Digits -> "crash"
          [] OTHER -> IF MatchMetric(c, values) THEN "yes" ELSE "no"

\* _condition_custom_resources: a cloud has none to look into
CustomVerdict(name, place) ==
    IF place.kind # "cluster" THEN "crash"
    ELSE IF name \in place.custom THEN "yes" ELSE "no"

\* Faulty variant of Evaluate: one constraint that holds is enough
EvaluateAny(verdicts) == IF verdicts = <<>> \/ "yes" \in ToSet(verdicts) THEN "yes" ELSE "no"

\* _evaluate: up to the first constraint that does not hold
Evaluate(verdicts) ==
    LET i == SelectInSeq(verdicts, LAMBDA v : v # "yes")
    IN  IF i = 0 THEN "yes" ELSE verdicts[i]

LabelVerdicts(constraints, place) ==
    [i \in DOMAIN constraints |-> IF Match(constraints[i], place.labels) THEN "yes" ELSE "no"]

\* match_application_constraints, and match_cluster_constraints for a cluster, which
\* has no constraints on custom resources; metrics: what was fetched for the place
Matches(wish, place, metrics) ==
    Evaluate(LabelVerdicts(wish.labels, place)
               \o [i \in DOMAIN wish.custom |-> CustomVerdict(wish.custom[i], place)]
               \o [i \in DOMAIN wish.metrics |-> MetricVerdict(wish.metrics[i], metrics)])

\* match_project_constraints
MatchesProject(wish, project) == Evaluate(LabelVerdicts(wish.labels, project)) = "yes"

-----------------------------------------------------------------------------
(* Scores                                                                  *)

\* calculate_kubernetes_cluster_score, calculate_cloud_score and
\* calculate_openstack_project_scores (sticky: Zero)
Score(metrics, sticky) ==
    LET norm == Plus(SumOf([i \in DOMAIN metrics |-> <<metrics[i].weight, 1>>]), sticky)
        sum == Plus(SumOf([i \in DOMAIN metrics |-> Scaled(metrics[i].weight, metrics[i].value)]),
                    sticky)
    IN  CASE metrics = <<>> -> Value(sticky)
          [] metrics # <<>> /\ norm[1] = 0 -> Failure("crash")
          [] OTHER -> Value(<<sum[1] * norm[2], sum[2] * norm[1]>>)

\* Faulty variant of StickyFor: staying has no weight
StickyNever(app, n) == Zero

\* calculate_kubernetes_cluster_stickiness
StickyFor(app, n) == IF app.scheduled_to = n THEN Stickiness ELSE Zero

Outcome(kind, names) == [kind |-> kind, names |-> names]
Crash == Outcome("crash", {})
None == Outcome("none", {})

\* select_maximum: one of the best at random, clusters before clouds.  The maximum of
\* nothing is an error
SelectMaximum(scores, places) ==
    LET best == {n \in DOMAIN scores : \A o \in DOMAIN scores : ~Below(scores[n], scores[o])}
        clusters == {n \in best : places[n].kind = "cluster"}
    IN  IF best = {} THEN Crash
        ELSE Outcome("place", IF clusters = {} THEN best ELSE clusters)

\* Scores of the places whose metrics can be read, refs giving those metrics; the
\* others are skipped
Ranked(names, refs, readings, app) ==
    LET ok == {n \in names : ~Fails(refs[n], readings)}
    IN  [n \in ok |-> Score(Fetched(refs[n], readings), StickyFor(app, n))]
Unranked(names, app) == [n \in names |-> Score(<<>>, StickyFor(app, n))]

\* The outcome of scores, one of which may have been an error
Chosen(scores, places) ==
    IF \E n \in DOMAIN scores : scores[n].why = "crash" THEN Crash
    ELSE SelectMaximum([n \in DOMAIN scores |-> scores[n].value], places)

-----------------------------------------------------------------------------
(* Choices.  Metrics are fetched once to filter the places and again to     *)
(* rank them: first and second are the readings of the two times.           *)

\* fetch_kubernetes_cluster_scores: the clusters with inherited values and the states
\* that fetching their metrics left
Prepared(clusters, clouds, first) ==
    [n \in DOMAIN clusters |->
       LET c == Inherited(clusters[n], clouds)
       IN  [c EXCEPT !.state = AfterFetch(c, first)]]
MetricsOf(place, first) ==
    IF Fails(place.refs, first) THEN <<>> ELSE Fetched(place.refs, first)
\* a cluster that is online and not in deletion
Usable(place) == ~place.deleted /\ place.state = "ONLINE"
Verdicts(app, prepared, first) ==
    [n \in {m \in DOMAIN prepared : Usable(prepared[m])} |->
       Matches(app, prepared[n], MetricsOf(prepared[n], first))]
Yes(verdicts) == {n \in DOMAIN verdicts : verdicts[n] = "yes"}

\* fetch_cloud_scores
CloudScores(app, clouds, first, second) ==
    LET matching == {n \in DOMAIN clouds :
                       Matches(app, clouds[n], MetricsOf(clouds[n], first)) = "yes"}
        with == {n \in matching : clouds[n].refs # <<>>}
        refs == [n \in DOMAIN clouds |-> clouds[n].refs]
    IN  IF with # {} THEN Ranked(with, refs, second, app)
        ELSE Unranked(matching, app)
CloudsCrash(app, clouds, first, second) ==
    \E n \in DOMAIN clouds :
        \/ Crashes(clouds[n].refs, first) \/ Crashes(clouds[n].refs, second)
        \/ Matches(app, clouds[n], MetricsOf(clouds[n], first)) = "crash"

\* The scores of the matching clusters: clusters with metrics are preferred; if none
\* can be read any more, all that match are compared without metrics
ClusterScores(app, clusters, clouds, prepared, matching, second) ==
    LET refs == [n \in DOMAIN clusters |-> RankRefs(clusters[n], clouds)]
        with == {n \in matching : prepared[n].refs # <<>>}
        ranked == Ranked(with, refs, second, app)
    IN  IF ranked = <<>> THEN Unranked(matching, app) ELSE ranked

\* The clusters whose metrics are fetched again: those that match, unless the choice is
\* made already
FetchedAgain(app, clusters, clouds, first) ==
    LET prepared == Prepared(clusters, clouds, first)
        verdicts == Verdicts(app, prepared, first)
    IN  IF \/ \E n \in DOMAIN prepared : Crashes(prepared[n].refs, first)
           \/ "crash" \in {verdicts[n] : n \in DOMAIN verdicts}
           \/ app.scheduled_to \in Yes(verdicts) /\ app.recent
          THEN {} ELSE {n \in Yes(verdicts) : prepared[n].refs # <<>>}

\* select_scheduling_location
SelectLocation(app, clusters, clouds, first, second) ==
    LET prepared == Prepared(clusters, clouds, first)
        verdicts == Verdicts(app, prepared, first)
        matching == Yes(verdicts)
        scores == ClusterScores(app, clusters, clouds, prepared, matching, second)
        all == IF app.auto THEN Over(scores, CloudScores(app, clouds, first, second)) ELSE scores
    IN  IF \/ \E n \in DOMAIN prepared : Crashes(prepared[n].refs, first)
           \/ "crash" \in {verdicts[n] : n \in DOMAIN verdicts} THEN Crash
        ELSE IF matching = {} /\ ~app.auto THEN None
        ELSE IF app.scheduled_to \in matching /\ app.recent
          THEN Outcome("place", {app.scheduled_to})
        ELSE IF \/ \E n \in matching : Crashes(prepared[n].refs, second)
                \/ app.auto /\ CloudsCrash(app, clouds, first, second) THEN Crash
        ELSE Chosen(all, Over(clusters, clouds))

\* select_cloud, for the clouds of a namespace or, if none matches, the global ones
SelectCloud(wish, clouds, first, second) ==
    LET refs == [n \in DOMAIN clouds |-> clouds[n].refs]
        verdicts == [n \in {m \in DOMAIN clouds : ~clouds[m].deleted} |->
                       Matches(wish, clouds[n], MetricsOf(clouds[n], first))]
        with == {n \in Yes(verdicts) : refs[n] # <<>>}
        ranked == Ranked(with, refs, second, wish)
    IN  IF \/ \E n \in DOMAIN clouds : Crashes(refs[n], first)
           \/ "crash" \in {verdicts[n] : n \in DOMAIN verdicts} THEN Crash
        ELSE IF Yes(verdicts) = {} THEN None
        ELSE IF \E n \in with : Crashes(refs[n], second) THEN Crash
        ELSE Chosen(IF ranked = <<>> THEN Unranked(Yes(verdicts), wish) ELSE ranked, clouds)

\* select_openstack_project: projects whose metrics cannot be read are no fallback
SelectProject(wish, projects, readings) ==
    LET matching == {n \in DOMAIN projects :
                       ~projects[n].deleted /\ MatchesProject(wish, projects[n])}
        refs == [n \in DOMAIN projects |-> projects[n].refs]
        with == {n \in matching : refs[n] # <<>>}
        scores == IF with = {} THEN Unranked(matching, wish)
                  ELSE Ranked(with, refs, readings, wish)
    IN  IF matching = {} THEN None
        ELSE IF \E n \in with : Crashes(refs[n], readings) THEN Crash
        ELSE IF scores = <<>> THEN None ELSE Chosen(scores, projects)
=============================================================================
