---------------------------- MODULE MCCatalogue ----------------------------
(***************************************************************************)
(* Settings for the model checker: commands on one resource of each kind,  *)
(* requests under role-based access control while the roles change, and    *)
(* the bootstrap tool next to a user of the API.                           *)
(***************************************************************************)
EXTENDS Catalogue

CONSTANTS first, second   \* the clients

Open == [strategy |-> "static", tls |-> FALSE, allow_anonymous |-> TRUE,
         authorization |-> "always-allow"]
Nobody == [certificate |-> Null, token |-> Null]
Env == [user_id |-> "e", password |-> "e", project_id |-> "e", auth_url |-> "e"]

Begin(config, credentials, bindings, commands, rows, bootstrap) ==
    [setting |-> [config |-> config, credentials |-> credentials, env |-> Env,
                  bindings |-> bindings, initial |-> rows],
     commands |-> commands, rows |-> rows, tool |-> bootstrap]

Existing(content) == [obj |-> Resource(1, 1, FALSE, {}, {}, content, Fresh), mod |-> 1]

-----------------------------------------------------------------------------
(* Commands on a resource                                                  *)

gm(name) == [name |-> name, global |-> TRUE]
lm(name) == [name |-> name, global |-> FALSE]

Im == [type |-> "im", url |-> "1", username |-> "1", password |-> "1"]
Stack == [type |-> "openstack", url |-> "1", username |-> "1", project |-> "1"]
Config == [current |-> "x", contexts |-> ("x" :> "x" @@ "y" :> "y")]
File(form, text) == [form |-> form, text |-> text]
Label(value) == "l" :> value

\* Options of creations of a kind
CreateOptions(kind) ==
    CASE kind \in {Metric, GlobalMetric} ->
           {[min |-> "1", max |-> "1", mp_name |-> "1"],
            [min |-> "1", max |-> "1", mp_name |-> "1", metric_name |-> "1", allowed_values |-> <<2, 1>>]}
      [] kind \in {MetricsProvider, GlobalMetricsProvider} ->
           {[type |-> "prometheus", url |-> "1"], [type |-> "static", metrics |-> "1"],
            [type |-> "kafka", url |-> "1"],
            [type |-> "kafka", url |-> "1", comparison_column |-> "1", value_column |-> "1", table |-> "1"],
            [type |-> "influx", url |-> "1", token |-> "1", org |-> "1", bucket |-> "1"]}
      [] kind \in {InfrastructureProvider, GlobalInfrastructureProvider} ->
           {Im, [type |-> "im", url |-> "1", token |-> "1"], [type |-> "im", url |-> "1"],
            [type |-> "other", url |-> "1"]}
      [] kind = Cloud ->
           {Stack, Stack @@ [infra_provider |-> "p", metrics |-> <<lm("1")>>, global_metrics |-> <<gm("1")>>],
            Stack @@ [global_infra_provider |-> "p", labels |-> Label("1")]}
      [] kind = GlobalCloud ->
           {Stack @@ [global_infra_provider |-> "p"],
            Stack @@ [global_infra_provider |-> "p", global_metrics |-> <<gm("1")>>],
            [Stack EXCEPT !.type = "other"] @@ [global_infra_provider |-> "p"]}
      [] kind = Project ->
           {[template |-> "1", application_credential |-> "1"], [template |-> "1", user_id |-> "1"],
            [template |-> "1", auth_url |-> "1", labels |-> Label("1"), metrics |-> <<lm("1")>>]}
      [] kind = MagnumCluster ->
           {<<>>, [master_count |-> "1", node_count |-> "1", metrics |-> <<lm("1")>>,
                   project_label_constraints |-> <<"1">>]}
      [] kind = Cluster ->
           {[kubeconfig |-> Config, labels |-> Label("1"), metrics |-> <<lm("1")>>, backoff |-> "2"],
            [kubeconfig |-> Config, context |-> "z"], [kubeconfig |-> Config, context |-> "y"],
            [file |-> "1", metrics |-> <<lm("1")>>, global_metrics |-> <<gm("1")>>,
             cloud_label_constraints |-> <<"1">>, inherit_labels |-> TRUE]}
      [] kind = Application ->
           {[file |-> File("manifest", "1"), labels |-> Label("1")],
            [file |-> File("tosca", "1"), cluster_label_constraints |-> <<"1">>, disable_migration |-> TRUE],
            [url |-> File("csar", "1"), hooks |-> <<"complete">>, cluster_metric_constraints |-> <<"1">>],
            [url |-> File("other", "1")]}
      [] kind \in {Role, RoleBinding} -> {[content |-> "1"]}

\* Options of updates of a kind
UpdateOptions(kind) ==
    CASE kind \in {Metric, GlobalMetric} ->
           {[metric_name |-> "2"], [mp_name |-> "2", max |-> "2"], [allowed_values |-> <<2>>]}
      [] kind \in {MetricsProvider, GlobalMetricsProvider} ->
           {[url |-> "1"], [url |-> "2"], [metrics |-> "2"], [table |-> "2"],
            [url |-> "2", token |-> "2", org |-> "1", bucket |-> "1"]}
      [] kind \in {InfrastructureProvider, GlobalInfrastructureProvider} ->
           {[url |-> "2"], [username |-> "2", password |-> "2"], [token |-> "2"]}
      [] kind = Cloud ->
           {[infra_provider |-> "q", global_infra_provider |-> "q"], [infra_provider |-> "q"],
            [global_infra_provider |-> "q", password |-> "2"], [global_metrics |-> <<gm("2")>>]}
      [] kind = GlobalCloud ->
           {[global_infra_provider |-> "q"], [global_metrics |-> <<gm("2")>>, labels |-> Label("2")]}
      [] kind = Project ->
           {[template |-> "2"], [application_credential |-> "2", auth_url |-> "2"]}
      [] kind = MagnumCluster -> {[node_count |-> "2"], [project_label_constraints |-> <<"2">>]}
      [] kind = Cluster ->
           {[kubeconfig |-> Config, context |-> "y"], [kubeconfig |-> Config, context |-> "z"],
            [labels |-> Label("2"), metrics |-> <<lm("1"), lm("2")>>],
            [remove_existing_metrics |-> TRUE, global_metrics |-> <<gm("2")>>, file |-> "2"],
            [remove_existing_labels |-> TRUE, cloud_label_constraints |-> <<"2">>]}
      [] kind = Application ->
           {[file |-> File("manifest", "2")], [file |-> File("tosca", "2"), labels |-> Label("2")],
            [url |-> File("csar", "2"), cluster_metric_constraints |-> <<"2">>],
            [url |-> File("other", "2")], [hooks |-> <<"shutdown">>],
            [remove_existing_labels |-> TRUE, cluster_label_constraints |-> <<"2">>]}
      [] kind \in {Role, RoleBinding} -> {[content |-> "2"]}

Creates(kind, o) ==
    LET content == ContentOf(kind, "n", o, Env) IN content # Null /\ Valid(kind, content)

\* What the first client does, while the second one creates or updates
Disturbances(kind, cmd(_, _)) ==
    {cmd("delete", <<>>), cmd("list", <<>>), cmd("read", <<>>)}
      \cup (IF kind.namespaced THEN {cmd("list_all", <<>>)} ELSE {})
      \cup (IF "status" \in kind.sub THEN {cmd("status", <<>>)} ELSE {})
      \cup (IF "binding" \in kind.sub THEN {cmd("binding", [target |-> "t"])} ELSE {})
      \cup (IF kind.force THEN {cmd("delete", [force |-> TRUE])} ELSE {})
      \cup {cmd("create", CHOOSE o \in CreateOptions(kind) : Creates(kind, o))}
      \cup {cmd("update", CHOOSE o \in UpdateOptions(kind) : TRUE)}

Cases(kind) ==
    LET namespace == IF kind.namespaced THEN "ns" ELSE Null
        key == KeyOf(kind, namespace, "n")
        cmd(op, o) == Command(op, kind, "ns", "n", o)
        rows == {key :> Null} \cup
                {key :> Existing(ContentOf(kind, "n", o, Env)) :
                   o \in {o \in CreateOptions(kind) : Creates(kind, o)}}
        first_does  == Disturbances(kind, cmd)
        second_does == {cmd("create", o) : o \in CreateOptions(kind)}
                         \cup {cmd("update", o) : o \in UpdateOptions(kind)}
    IN  {Begin(Open, Nobody, <<>>, first :> first_does @@ second :> second_does, r, ToolOff) : r \in rows}

-----------------------------------------------------------------------------
(* Role-based access control                                               *)

Guarded == [strategy |-> "keystone", tls |-> TRUE, allow_anonymous |-> FALSE,
            authorization |-> "RBAC"]
Configs == {Guarded, [Guarded EXCEPT !.strategy = "keycloak", !.allow_anonymous = TRUE]}
Others == {[Guarded EXCEPT !.strategy = "static", !.authorization = "always-deny"],
           [Guarded EXCEPT !.strategy = "none"]}
Token(token) == [certificate |-> Null, token |-> token]

Rule(api, verbs, resources, namespaces) ==
    [api |-> api, verbs |-> verbs, resources |-> resources, namespaces |-> namespaces]
AnyVerb == {"get", "list", "create", "update", "delete"}
Reader == [rules |-> {Rule("core", {"get", "list"}, {<<"metrics">>}, {"ns"}),
                      Rule("infrastructure", AnyVerb, {<<"clouds">>, <<"metrics">>}, {"ns"})}]
Admin  == [rules |-> {Rule("", AnyVerb, {<<"">>}, {""})}]
Binding(users, roles) == [users |-> users, roles |-> roles]

AccessRows(b1, b2) ==
    KeyOf(Role, Null, "reader") :> Existing(Reader)
      @@ KeyOf(Role, Null, "admin") :> Existing(Admin)
      @@ KeyOf(RoleBinding, Null, "b1") :> Existing(b1)
      @@ KeyOf(RoleBinding, Null, "b2") :> b2
      @@ KeyOf(Metric, "ns", "n") :> Null
      @@ KeyOf(Metric, "else", "n") :> Null
      @@ KeyOf(GlobalMetric, Null, "n") :> Null

\* The first client uses metrics, the second one changes roles and bindings;
\* or the tool replaces them
Requests ==
    {Command("read", Metric, ns, "n", <<>>) : ns \in {"ns", "else"}}
      \cup {Command("list_all", Metric, "ns", "n", <<>>), Command("read", GlobalMetric, Null, "n", <<>>)}
Changes ==
    {Command("delete", Role, Null, "reader", <<>>), Command("delete", RoleBinding, Null, "b1", <<>>),
     Command("update", RoleBinding, Null, "b1", [users |-> {"u"}, roles |-> <<"admin">>]),
     Command("create", RoleBinding, Null, "b2", [users |-> {"u"}, roles |-> <<"reader", "admin">>]),
     Command("update", Role, Null, "reader", [rules |-> {}])}

Bindings ==
    {<<Binding({"u"}, <<"reader", "admin">>), Null>>,
     <<Binding({"v"}, <<"reader">>), Existing(Binding({"u"}, <<"reader">>))>>,
     <<Binding({"u"}, <<"reader">>), Existing(Binding({"u", "v"}, <<"reader", "admin">>))>>}

AccessCases ==
    {Begin(config, Token(token), <<"b1", "b2">>, first :> Requests @@ second :> Changes,
       AccessRows(b[1], b[2]), ToolOff) :
       config \in Configs, token \in {"u", "invalid", Null}, b \in Bindings}
    \cup
    {Begin(config, [certificate |-> name, token |-> Null], <<"b1", "b2">>,
       first :> Requests @@ second :> {}, AccessRows(b[1], b[2]), tools) :
       config \in Others, name \in {"u", Null}, b \in Bindings,
       tools \in {ToolOff,
                  Tool(TRUE, <<Job(KeyOf(Role, Null, "reader"), Admin, "good"),
                               Job(KeyOf(RoleBinding, Null, "b1"), Binding({"u"}, <<"admin">>), "good")>>)}}

-----------------------------------------------------------------------------
(* The bootstrap tool                                                      *)

RoleKey == KeyOf(Role, Null, "n")
MetricKey == KeyOf(GlobalMetric, Null, "n")
Rows == {RoleKey :> r @@ MetricKey :> m :
           r \in {Null, Existing([content |-> "1"])}, m \in {Null, Existing([content |-> "1"])}}
Third == {Job(MetricKey, [content |-> "3"], d) : d \in {"good", "no kind", "unknown", "invalid"}}
BootstrapCases ==
    {Begin(Open, Nobody, <<>>,
       first :> {Command("update", Role, Null, "n", [content |-> "4"]),
                 Command("delete", Role, Null, "n", <<>>),
                 Command("create", Role, Null, "n", [content |-> "5"])} @@ second :> {},
       r, Tool(force, <<Job(RoleKey, [content |-> "2"], "good"), j>>)) :
       force \in BOOLEAN, j \in Third, r \in Rows}
    \cup
    {Begin(Open, Nobody, <<>>, first :> {} @@ second :> {}, r,
       Tool(TRUE, <<Job(RoleKey, [content |-> "2"], "good"), Job(RoleKey, [content |-> "6"], "good"),
                    Job(MetricKey, [content |-> "3"], "invalid")>>)) : r \in Rows}

-----------------------------------------------------------------------------
MCStarts == UNION {Cases(kind) : kind \in Kinds} \cup AccessCases \cup BootstrapCases
=============================================================================
