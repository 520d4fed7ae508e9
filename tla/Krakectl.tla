------------------------------ MODULE Krakectl ------------------------------
(***************************************************************************)
(* The commands of krakectl that create and update resources               *)
(* (krakectl/core.py, infrastructure.py, openstack.py, kubernetes.py).     *)
(* A creation posts a body made of the options; an update gets the         *)
(* resource, edits it as the options say and puts it back as a whole.      *)
(*                                                                         *)
(* o is a function from the options that were given to their values; the   *)
(* content of a resource is a function from fields to values, "" standing  *)
(* for None.  A command that exits with an error is Null.                  *)
(***************************************************************************)
EXTENDS ResourceKinds, TLC

Given(o, p) == p \in DOMAIN o
Value(o, p, default) == IF Given(o, p) THEN o[p] ELSE default

\* "if option: resource[field] = option" for each option of the table
Assign(c, o, table) ==
    [f \in DOMAIN c |->
       LET by == {p \in DOMAIN o \cap DOMAIN table : table[p] = f}
       IN  IF by = {} THEN c[f] ELSE o[CHOOSE p \in by : TRUE]]

\* dict.update
Merged(old, new) == new @@ old

\* The user is asked for a password that was not given
Password(o) == Value(o, "password", "prompted")

\* --metric and --global-metric
Metrics(o) == Value(o, "metrics", <<>>) \o Value(o, "global_metrics", <<>>)
MetricsGiven(o) == Given(o, "metrics") \/ Given(o, "global_metrics")

-----------------------------------------------------------------------------
(* Metrics and metrics providers (core.py)                                 *)

MetricOptions == [max |-> "max", min |-> "min", allowed_values |-> "allowed_values",
                  mp_name |-> "provider", metric_name |-> "metric"]

\* _create_base_metric
NewMetric(name, o) ==
    [min |-> o.min, max |-> o.max, provider |-> o.mp_name,
     metric |-> Value(o, "metric_name", name),
     allowed_values |-> SortSeq(Value(o, "allowed_values", <<>>), <)]

\* Faulty variant of EditMetric: values that are not given again are dropped
EditMetricFresh(c, o) ==
    IF DOMAIN o \cap {"max", "min", "mp_name", "metric_name"} = {} THEN Null
    ELSE [Assign(c, o, MetricOptions) EXCEPT !.allowed_values = Value(o, "allowed_values", <<>>)]

\* _update_base_metric
EditMetric(c, o) ==
    IF DOMAIN o \cap {"max", "min", "mp_name", "metric_name"} = {} THEN Null
    ELSE Assign(c, o, MetricOptions)

ProviderFields == {"url", "metrics", "comparison_column", "value_column", "table",
                   "token", "org", "bucket"}
ProviderOptions == [p \in ProviderFields |-> p]

\* The parameters of a type of metrics provider
FieldsOf(type) ==
    CASE type = "prometheus" -> {"url"}
      [] type = "static" -> {"metrics"}
      [] type = "kafka" -> {"url", "comparison_column", "value_column", "table"}
      [] type = "influx" -> {"url", "token", "org", "bucket"}

\* _validate_for_create_base_mp
ValidForCreate(type, o) == FieldsOf(type) \subseteq DOMAIN o

\* _validate_for_update_base_mp: Kafka requires nothing
ValidForUpdate(type, o) ==
    /\ type = "kafka" \/ FieldsOf(type) \subseteq DOMAIN o
    /\ DOMAIN o \cap ProviderFields \subseteq FieldsOf(type)

\* _create_base_metrics_provider
NewMetricsProvider(o) ==
    IF ~ValidForCreate(o.type, o) THEN Null
    ELSE [f \in ProviderFields |-> IF f \in FieldsOf(o.type) THEN o[f] ELSE ""]
           @@ [type |-> o.type]

\* _update_base_metrics_provider
EditMetricsProvider(c, o) ==
    IF ~ValidForUpdate(c.type, o) THEN Null ELSE Assign(c, o, ProviderOptions)

-----------------------------------------------------------------------------
(* Infrastructure providers and clouds (infrastructure.py)                 *)

NewProvider(o) ==
    IF o.type # "im" THEN Null
    ELSE [type |-> "im", url |-> o.url, username |-> Value(o, "username", ""),
          password |-> Password(o), token |-> Value(o, "token", "")]

\* register_globalinfrastructureprovider and register_infrastructureprovider
RegisterGlobalInfrastructureProvider(o) == NewProvider(o)
RegisterInfrastructureProvider(o) == NewProvider(o)

\* The password is written on every update, the rest as the options say
EditProvider(c, o) ==
    LET d == [c EXCEPT !.password = Password(o)]
    IN  IF d.type = "im"
          THEN Assign(d, o, [url |-> "url", username |-> "username", token |-> "token"])
          ELSE d

\* update_globalinfrastructureprovider and update_infrastructureprovider
UpdateGlobalInfrastructureProvider(c, o) == EditProvider(c, o)
UpdateInfrastructureProvider(c, o) == EditProvider(c, o)

NewCloudOf(o, metrics, provider, namespaced) ==
    IF o.type # "openstack" THEN Null
    ELSE [type |-> "openstack", labels |-> Value(o, "labels", <<>>), url |-> o.url,
          metrics |-> metrics, provider |-> provider, namespaced |-> namespaced,
          username |-> o.username, password |-> Password(o),
          domain_name |-> Value(o, "domain_name", "Default"), project |-> o.project,
          domain_id |-> Value(o, "domain_id", "default")]

CloudOptions == [labels |-> "labels", url |-> "url", username |-> "username",
                 domain_name |-> "domain_name", project |-> "project",
                 domain_id |-> "domain_id"]

\* register_globalcloud
RegisterGlobalCloud(o) ==
    NewCloudOf(o, Value(o, "global_metrics", <<>>), o.global_infra_provider, FALSE)

\* register_cloud: exactly one provider must be named
RegisterCloud(o) ==
    IF Given(o, "infra_provider") = Given(o, "global_infra_provider") THEN Null
    ELSE IF Given(o, "infra_provider")
           THEN NewCloudOf(o, Metrics(o), o.infra_provider, TRUE)
           ELSE NewCloudOf(o, Metrics(o), o.global_infra_provider, FALSE)

\* update_globalcloud: the password goes to a field of the metadata that the
\* schema of the server does not have and drops
UpdateGlobalCloud(c, o) ==
    IF c.type # "openstack" THEN c
    ELSE Assign([c EXCEPT !.provider = Value(o, "global_infra_provider", @),
                          !.namespaced = IF Given(o, "global_infra_provider") THEN FALSE ELSE @],
                o, CloudOptions @@ [global_metrics |-> "metrics"])

\* Faulty variant of UpdateCloud: whose provider it is, is not brought up to date
UpdateCloudNameOnly(c, o) ==
    IF Given(o, "infra_provider") /\ Given(o, "global_infra_provider") THEN Null
    ELSE Assign([c EXCEPT !.metrics = IF MetricsGiven(o) THEN Metrics(o) ELSE @,
                          !.provider = Value(o, "infra_provider", Value(o, "global_infra_provider", @))],
                o, CloudOptions)

\* update_cloud
UpdateCloud(c, o) ==
    IF Given(o, "infra_provider") /\ Given(o, "global_infra_provider") THEN Null
    ELSE IF c.type # "openstack" THEN c
    ELSE Assign([c EXCEPT !.metrics = IF MetricsGiven(o) THEN Metrics(o) ELSE @,
                          !.provider = Value(o, "infra_provider", Value(o, "global_infra_provider", @)),
                          !.namespaced = IF Given(o, "infra_provider") THEN TRUE
                                         ELSE IF Given(o, "global_infra_provider") THEN FALSE ELSE @],
                o, CloudOptions)

-----------------------------------------------------------------------------
(* Projects and Magnum clusters (openstack.py)                             *)

\* The authentication of a project is made anew by every command: from the
\* credential, or from the options and the environment of the user
Auth(o, env) ==
    IF Given(o, "application_credential")
      THEN <<"application_credential", o.application_credential>>
      ELSE LET of == o @@ env
           IN  IF {"user_id", "password", "project_id"} \subseteq DOMAIN of
                 THEN <<"password", of["user_id"], of["password"], of["project_id"]>>
                 ELSE Null

CreateProject(o, env) ==
    IF Auth(o, env) = Null \/ "auth_url" \notin DOMAIN env \cup DOMAIN o THEN Null
    ELSE [labels |-> Value(o, "labels", <<>>), url |-> (o @@ env)["auth_url"],
          auth |-> Auth(o, env), template |-> o.template, metrics |-> Value(o, "metrics", <<>>)]

UpdateProject(c, o, env) ==
    IF Auth(o, env) = Null THEN Null
    ELSE Assign([c EXCEPT !.auth = Auth(o, env)], o,
                [template |-> "template", auth_url |-> "url", labels |-> "labels",
                 metrics |-> "metrics"])

\* create_cluster: the constraints are put where the server does not look
CreateMagnumCluster(o) ==
    [labels |-> Value(o, "labels", <<>>), master_count |-> Value(o, "master_count", ""),
     node_count |-> Value(o, "node_count", ""), metrics |-> Value(o, "metrics", <<>>),
     constraints |-> <<>>]

EditMagnumCluster(c, o) ==
    Assign(c, o, [node_count |-> "node_count", metrics |-> "metrics",
                  project_label_constraints |-> "constraints"])

-----------------------------------------------------------------------------
(* Clusters and applications (kubernetes.py)                               *)

\* The options of parser.py that have a default are given on every command
Backoff(o) == [backoff |-> Value(o, "backoff", "1"),
               backoff_delay |-> Value(o, "backoff_delay", "1"),
               backoff_limit |-> Value(o, "backoff_limit", "-1")]

NewCluster(o, kubeconfig, tosca) ==
    [labels |-> Value(o, "labels", <<>>), kubeconfig |-> kubeconfig, tosca |-> tosca,
     metrics |-> Metrics(o), custom_resources |-> Value(o, "custom_resources", <<>>),
     inherit_labels |-> Given(o, "inherit_labels"), inherit_metrics |-> Given(o, "inherit_metrics"),
     cloud_label_constraints |-> Value(o, "cloud_label_constraints", <<>>),
     cloud_metric_constraints |-> Value(o, "cloud_metric_constraints", <<>>)] @@ Backoff(o)

\* create_cluster_config: the context that was named, or the current one; only
\* its cluster and its user are kept
ClusterConfig(o) ==
    LET context == Value(o, "context", o.kubeconfig.current)
    IN  IF context \in DOMAIN o.kubeconfig.contexts THEN o.kubeconfig.contexts[context] ELSE Null

RegisterCluster(o) == IF ClusterConfig(o) = Null THEN Null ELSE NewCluster(o, ClusterConfig(o), "")
CreateCluster(o) == NewCluster(o, "", o.file)

\* A "remove existing" flag empties the field before anything is added to it
Kept(c, o, flag, field) == IF Given(o, flag) THEN <<>> ELSE c[field]
\* Faulty variant of Missing: everything is added again
AllOf(old, new) == new
\* The metrics that are not there yet
Missing(old, new) == SelectSeq(new, LAMBDA m : \A i \in DOMAIN old : old[i] # m)

\* update_cluster
UpdateCluster(c, o) ==
    IF Given(o, "kubeconfig") /\ ClusterConfig(o) = Null THEN Null
    ELSE LET kept == Kept(c, o, "remove_existing_metrics", "metrics") IN
         [Assign(c, Backoff(o) @@ o, [custom_resources |-> "custom_resources", file |-> "tosca"]
                                       @@ [b \in DOMAIN Backoff(o) |-> b]) EXCEPT
            !.kubeconfig = IF Given(o, "kubeconfig") THEN ClusterConfig(o) ELSE @,
            !.labels = Merged(Kept(c, o, "remove_existing_labels", "labels"), Value(o, "labels", <<>>)),
            !.metrics = kept \o Missing(kept, Metrics(o)),
            !.cloud_label_constraints =
               Kept(c, o, "remove_existing_cloud_label_constraints", "cloud_label_constraints")
                 \o Value(o, "cloud_label_constraints", <<>>),
            !.cloud_metric_constraints =
               Kept(c, o, "remove_existing_cloud_metric_constraints", "cloud_metric_constraints")
                 \o Value(o, "cloud_metric_constraints", <<>>)]

\* --file holds a manifest or a TOSCA template; --url ends in yaml, csar or
\* something else
Definition(o) ==
    IF Given(o, "file") THEN o.file
    ELSE IF Given(o, "url") THEN o.url ELSE [form |-> "none", text |-> ""]

\* create_application
CreateApplication(o) ==
    LET d == Definition(o)
        as(form) == IF d.form = form THEN d.text ELSE ""
    IN  IF d.form \notin {"manifest", "tosca", "csar"} THEN Null
        ELSE [labels |-> Value(o, "labels", <<>>), manifest |-> as("manifest"),
              tosca |-> as("tosca"), csar |-> as("csar"),
              observer_schema |-> Value(o, "observer_schema_file", ""),
              migration |-> ~Given(o, "disable_migration"),
              label_constraints |-> Value(o, "cluster_label_constraints", <<>>),
              resource_constraints |-> Value(o, "cluster_resource_constraints", <<>>),
              metric_constraints |-> Value(o, "cluster_metric_constraints", <<>>),
              hooks |-> Value(o, "hooks", <<>>),
              auto_cluster_create |-> Given(o, "auto_cluster_create")] @@ Backoff(o)

\* A template or an archive replaces the definitions that would win over it
Defined(c, d) ==
    CASE d.form = "manifest" -> [c EXCEPT !.manifest = d.text]
      [] d.form = "tosca" -> [c EXCEPT !.manifest = "", !.tosca = d.text]
      [] d.form = "csar" -> [c EXCEPT !.manifest = "", !.tosca = "", !.csar = d.text]
      [] OTHER -> c

\* update_application: hooks are put as lists, which the server does not
\* accept; metric constraints are added, the other constraints replaced
UpdateApplication(c, o) ==
    LET d == Definition(o) IN
    IF d.form = "other" THEN Null
    ELSE [Assign(Defined(c, d), Backoff(o) @@ o,
                 [observer_schema_file |-> "observer_schema",
                  cluster_label_constraints |-> "label_constraints",
                  cluster_resource_constraints |-> "resource_constraints"]
                   @@ [b \in DOMAIN Backoff(o) |-> b]) EXCEPT
            !.labels = Merged(Kept(c, o, "remove_existing_labels", "labels"), Value(o, "labels", <<>>)),
            !.hooks = IF Given(o, "hooks") THEN [i \in DOMAIN o.hooks |-> "list"] ELSE @,
            !.label_constraints =
               IF Given(o, "cluster_label_constraints") THEN @
               ELSE Kept(c, o, "remove_existing_label_constraints", "label_constraints"),
            !.resource_constraints =
               IF Given(o, "cluster_resource_constraints") THEN @
               ELSE Kept(c, o, "remove_existing_resource_constraints", "resource_constraints"),
            !.metric_constraints =
               Kept(c, o, "remove_existing_metric_constraints", "metric_constraints")
                 \o Value(o, "cluster_metric_constraints", <<>>),
            !.migration = IF Given(o, "disable_migration") THEN FALSE
                          ELSE IF Given(o, "enable_migration") THEN TRUE ELSE @]

-----------------------------------------------------------------------------
(* The commands by kind.  Roles and role bindings have none: a script uses *)
(* the client library, and changes the fields it names.                    *)

ContentOf(kind, name, o, env) ==
    CASE kind \in {Metric, GlobalMetric} -> NewMetric(name, o)
      [] kind \in {MetricsProvider, GlobalMetricsProvider} -> NewMetricsProvider(o)
      [] kind = InfrastructureProvider -> RegisterInfrastructureProvider(o)
      [] kind = GlobalInfrastructureProvider -> RegisterGlobalInfrastructureProvider(o)
      [] kind = Cloud -> RegisterCloud(o)
      [] kind = GlobalCloud -> RegisterGlobalCloud(o)
      [] kind = Project -> CreateProject(o, env)
      [] kind = MagnumCluster -> CreateMagnumCluster(o)
      [] kind = Cluster -> IF Given(o, "kubeconfig") THEN RegisterCluster(o) ELSE CreateCluster(o)
      [] kind = Application -> CreateApplication(o)
      [] OTHER -> o

Edited(kind, c, o, env) ==
    CASE kind \in {Metric, GlobalMetric} -> EditMetric(c, o)
      [] kind \in {MetricsProvider, GlobalMetricsProvider} -> EditMetricsProvider(c, o)
      [] kind = InfrastructureProvider -> UpdateInfrastructureProvider(c, o)
      [] kind = GlobalInfrastructureProvider -> UpdateGlobalInfrastructureProvider(c, o)
      [] kind = Cloud -> UpdateCloud(c, o)
      [] kind = GlobalCloud -> UpdateGlobalCloud(c, o)
      [] kind = Project -> UpdateProject(c, o, env)
      [] kind = MagnumCluster -> EditMagnumCluster(c, o)
      [] kind = Cluster -> UpdateCluster(c, o)
      [] kind = Application -> UpdateApplication(c, o)
      [] OTHER -> o @@ c

\* What the schema of the server demands of the parts together
Valid(kind, c) ==
    CASE kind \in {InfrastructureProvider, GlobalInfrastructureProvider} ->
           c.token # "" \/ (c.username # "" /\ c.password # "")
      [] kind = GlobalCloud ->
           ~c.namespaced /\ \A i \in DOMAIN c.metrics : c.metrics[i].global
      [] kind = Cluster -> c.kubeconfig # "" \/ c.tosca # ""
      [] kind = Application ->
           /\ c.manifest # "" \/ c.tosca # "" \/ c.csar # ""
           /\ \A i \in DOMAIN c.hooks : c.hooks[i] \in {"complete", "shutdown"}
      [] OTHER -> TRUE
=============================================================================
