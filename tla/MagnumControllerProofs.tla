----------------------- MODULE MagnumControllerProofs ----------------------
(***************************************************************************)
(* Proofs about MagnumController, for any ids, projects, lags and          *)
(* scenarios: nothing that runs in OpenStack is lost, and at most one      *)
(* Kubernetes cluster is made of a Magnum cluster.                         *)
(***************************************************************************)
EXTENDS MagnumController, SequenceTheorems, WellFoundedInduction, TLAPS

-----------------------------------------------------------------------------
(* Sequences of finalizers                                                 *)

Finalizers == {DeletionFinalizer, CascadeFinalizer}
Both == <<DeletionFinalizer, CascadeFinalizer>>

\* A set of naturals that is not empty has a least element.
LEMMA LeastNatural ==
    ASSUME NEW T, T \subseteq Nat, T # {}
    PROVE  Min(T) \in T
  <1> DEFINE Less == {mn \in Nat \X Nat : mn[1] < mn[2]}
  <1>1. IsWellFoundedOn(Less, Nat)
    BY NatLessThanWellFounded DEF OpToRel
  <1>2. \A m, n \in Nat : (<<n, m>> \in Less) <=> n < m
    OBVIOUS
  <1> HIDE DEF Less
  <1>3. PICK m \in T : \A n \in T : ~(<<n, m>> \in Less)
    BY <1>1, WFMin
  <1>4. ASSUME NEW n \in T PROVE m <= n
    <2>1. m \in Nat /\ n \in Nat /\ ~(n < m)
      BY <1>2, <1>3
    <2> QED BY <2>1
  <1> QED BY <1>4 DEF Min

\* Sequences of one or two elements.
LEMMA ShortSequences ==
    ASSUME NEW S, NEW a \in S, NEW b \in S
    PROVE  /\ Append(<<>>, a) = <<a>> /\ Append(<<a>>, b) = <<a, b>>
           /\ Head(<<a>>) = a /\ Tail(<<a>>) = <<>> /\ <<a>> # <<>>
           /\ Front(<<a>>) = <<>> /\ Front(<<a, b>>) = <<a>>
           /\ Last(<<a>>) = a /\ Last(<<a, b>>) = b
  <1>1. <<a>> \in Seq(S) /\ <<a, b>> \in Seq(S) /\ <<>> \in Seq(S)
    OBVIOUS
  <1>2. Append(<<>>, a) = <<a>>
    <2>1. Append(<<>>, a) \in Seq(S) /\ Len(Append(<<>>, a)) = 1 /\ Append(<<>>, a)[1] = a
      BY <1>1
    <2>2. Len(<<a>>) = 1 /\ <<a>>[1] = a
      OBVIOUS
    <2>3. \A i \in 1..Len(Append(<<>>, a)) : Append(<<>>, a)[i] = <<a>>[i]
      BY <2>1, <2>2
    <2> QED BY <1>1, <2>1, <2>2, <2>3, SeqEqual
  <1>3. Append(<<a>>, b) = <<a, b>>
    <2>1. /\ Append(<<a>>, b) \in Seq(S) /\ Len(Append(<<a>>, b)) = 2
          /\ Append(<<a>>, b)[1] = a /\ Append(<<a>>, b)[2] = b
      BY <1>1
    <2>2. Len(<<a, b>>) = 2 /\ <<a, b>>[1] = a /\ <<a, b>>[2] = b
      OBVIOUS
    <2>3. \A i \in 1..2 : Append(<<a>>, b)[i] = <<a, b>>[i]
      <3>1. \A i \in 1..2 : i = 1 \/ i = 2
        OBVIOUS
      <3> QED BY <2>1, <2>2, <3>1
    <2> QED BY <1>1, <2>1, <2>2, <2>3, SeqEqual
  <1>4. Tail(<<a>>) = <<>>
    BY <1>1, EmptySeq, HeadTailProperties
  <1>5. Front(<<a>>) = <<>>
    <2>1. Front(<<a>>) \in Seq(S) /\ Len(Front(<<a>>)) = 0
      BY <1>1 DEF Front
    <2> QED BY <2>1, EmptySeq
  <1>6. Front(<<a, b>>) = <<a>>
    <2>1. /\ Front(<<a, b>>) \in Seq(S) /\ Len(Front(<<a, b>>)) = 1
          /\ Front(<<a, b>>)[1] = a
      BY <1>1 DEF Front
    <2> QED BY <1>1, <2>1, SeqEqual
  <1> QED BY <1>2, <1>3, <1>4, <1>5, <1>6 DEF Last

\* list.remove leaves a sequence over the same elements, and takes a sole element away.
LEMMA RemoveFirstFacts ==
    ASSUME NEW A, NEW s \in Seq(A), NEW e
    PROVE  /\ RemoveFirst(s, e) \in Seq(A)
           /\ s = <<e>> => RemoveFirst(s, e) = <<>>
  <1>1. CASE \E i \in 1..Len(s) : s[i] = e
    <2> DEFINE T == {i \in 1..Len(s) : s[i] = e}
    <2>1. T \subseteq 1..Len(s) /\ T \subseteq Nat /\ T # {}
      BY <1>1
    <2>2. Min(T) \in T
      BY <2>1, LeastNatural
    <2>3. RemoveFirst(s, e) = RemoveAt(s, Min(T))
      BY <1>1 DEF RemoveFirst, SelectInSeq
    <2> HIDE DEF T
    <2>4. PICK n \in 1..Len(s) :
            RemoveFirst(s, e) = SubSeq(s, 1, n - 1) \o SubSeq(s, n + 1, Len(s))
      BY <2>1, <2>2, <2>3 DEF RemoveAt
    <2>5. SubSeq(s, 1, n - 1) \in Seq(A) /\ SubSeq(s, n + 1, Len(s)) \in Seq(A)
      OBVIOUS
    <2>6. ASSUME s = <<e>> PROVE RemoveFirst(s, e) = <<>>
      <3>1. n = 1 /\ Len(s) = 1
        BY <2>6
      <3>2. Len(SubSeq(s, 1, n - 1)) = 0 /\ Len(SubSeq(s, n + 1, Len(s))) = 0
        BY <3>1
      <3> QED BY <2>4, <2>5, <3>2
    <2> QED BY <2>4, <2>5, <2>6
  <1>2. CASE ~ \E i \in 1..Len(s) : s[i] = e
    <2>1. s # <<e>>
      BY <1>2
    <2> QED BY <1>2, <2>1 DEF RemoveFirst
  <1> QED BY <1>1, <1>2

\* The lists of finalizers that a Magnum cluster has.
LEMMA FinalizerLists ==
    /\ Append(<<>>, DeletionFinalizer) = Ours
    /\ Append(<<>>, CascadeFinalizer) = <<CascadeFinalizer>>
    /\ Append(Ours, CascadeFinalizer) = Both
    /\ Front(<<CascadeFinalizer>>) = <<>>
    /\ Front(Both) = Ours
    /\ Last(Ours) = DeletionFinalizer
    /\ Last(<<CascadeFinalizer>>) = CascadeFinalizer
    /\ Last(Both) = CascadeFinalizer
    /\ DeletionFinalizer \in ToSet(Ours)
    /\ ToSet(<<>>) = {}
    /\ Ours # <<>> /\ Both # <<>> /\ <<CascadeFinalizer>> # <<>>
    /\ Ours # Both /\ Ours # <<CascadeFinalizer>> /\ Both # <<CascadeFinalizer>>
    /\ RemoveFirst(Ours, DeletionFinalizer) = <<>>
  <1>1. RemoveFirst(Ours, DeletionFinalizer) = <<>>
    BY RemoveFirstFacts, Ours \in Seq(Finalizers) DEF Ours, Finalizers
  <1>2. /\ Append(<<>>, DeletionFinalizer) = Ours
        /\ Append(<<>>, CascadeFinalizer) = <<CascadeFinalizer>>
        /\ Append(Ours, CascadeFinalizer) = Both
        /\ Front(<<CascadeFinalizer>>) = <<>> /\ Front(Both) = Ours
        /\ Last(Ours) = DeletionFinalizer
        /\ Last(<<CascadeFinalizer>>) = CascadeFinalizer
        /\ Last(Both) = CascadeFinalizer
    BY ShortSequences, DeletionFinalizer \in Finalizers, CascadeFinalizer \in Finalizers
       DEF Ours, Both, Finalizers
  <1>3. DeletionFinalizer \in ToSet(Ours) /\ ToSet(<<>>) = {}
    <2>1. Ours[1] = DeletionFinalizer /\ 1 \in DOMAIN Ours /\ DOMAIN <<>> = {}
      BY DEF Ours
    <2> QED BY <2>1 DEF ToSet
  <1>4. /\ Ours # <<>> /\ Both # <<>> /\ <<CascadeFinalizer>> # <<>>
        /\ Ours # Both /\ Ours # <<CascadeFinalizer>> /\ Both # <<CascadeFinalizer>>
    BY DEF Ours, Both, DeletionFinalizer, CascadeFinalizer
  <1> QED BY <1>1, <1>2, <1>3, <1>4

\* The operations of the API and of the handlers keep lists of finalizers.
LEMMA FinalizersTyped ==
    ASSUME NEW s \in Seq(Finalizers)
    PROVE  /\ Front(s) \in Seq(Finalizers)
           /\ RemoveFirst(s, DeletionFinalizer) \in Seq(Finalizers)
           /\ \A f \in Finalizers : Append(s, f) \in Seq(Finalizers)
  <1>1. Front(s) \in Seq(Finalizers)
    BY DEF Front
  <1> QED BY <1>1, RemoveFirstFacts

-----------------------------------------------------------------------------
(* Types                                                                   *)

\* The changes that the handlers and the API make to a version.
LEMMA VersionsTyped ==
    ASSUME NEW c \in MagnumVersions
    PROVE  /\ \A s \in MagnumStates : [c EXCEPT !.status.state = s] \in MagnumVersions
           /\ \A p \in Projects : [c EXCEPT !.status.project = p] \in MagnumVersions
           /\ \A d \in MagnumVersions : [c EXCEPT !.status = d.status] \in MagnumVersions
           /\ \A d \in MagnumVersions :
                [c EXCEPT !.deleted = d.deleted, !.status = d.status] \in MagnumVersions
           /\ \A n \in Names : [c EXCEPT !.status.state = "CREATING", !.status.cluster = n]
                                 \in MagnumVersions
           /\ \A id \in Ids : [c EXCEPT !.status.cluster_id = id] \in MagnumVersions
           /\ [c EXCEPT !.status.cluster_id = Null, !.status.state = "PENDING"]
                \in MagnumVersions
           /\ \A m \in NodeCounts : [c EXCEPT !.status.state = "RUNNING",
                                              !.status.node_count = m] \in MagnumVersions
           /\ [c EXCEPT !.node_count = 2] \in MagnumVersions
           /\ \A b \in BOOLEAN : [c EXCEPT !.inherited = @ \/ b] \in MagnumVersions
  <1>1. c.status \in MagnumStatuses /\ c.deleted \in BOOLEAN /\ c.inherited \in BOOLEAN
    BY DEF MagnumVersions
  <1>2. \A s \in MagnumStates : [c EXCEPT !.status.state = s] \in MagnumVersions
    BY <1>1 DEF MagnumVersions, MagnumStatuses
  <1>3. \A p \in Projects : [c EXCEPT !.status.project = p] \in MagnumVersions
    BY <1>1 DEF MagnumVersions, MagnumStatuses
  <1>4. \A d \in MagnumVersions :
          /\ [c EXCEPT !.status = d.status] \in MagnumVersions
          /\ [c EXCEPT !.deleted = d.deleted, !.status = d.status] \in MagnumVersions
    BY DEF MagnumVersions
  <1>5. \A n \in Names : [c EXCEPT !.status.state = "CREATING", !.status.cluster = n]
                           \in MagnumVersions
    BY <1>1 DEF MagnumVersions, MagnumStatuses, MagnumStates
  <1>6. \A id \in Ids : [c EXCEPT !.status.cluster_id = id] \in MagnumVersions
    BY <1>1 DEF MagnumVersions, MagnumStatuses
  <1>7. [c EXCEPT !.status.cluster_id = Null, !.status.state = "PENDING"] \in MagnumVersions
    BY <1>1 DEF MagnumVersions, MagnumStatuses, MagnumStates
  <1>8. \A m \in NodeCounts : [c EXCEPT !.status.state = "RUNNING",
                                        !.status.node_count = m] \in MagnumVersions
    BY <1>1 DEF MagnumVersions, MagnumStatuses, MagnumStates
  <1>9. [c EXCEPT !.node_count = 2] \in MagnumVersions
    BY DEF MagnumVersions, NodeCounts
  <1>10. \A b \in BOOLEAN : [c EXCEPT !.inherited = @ \/ b] \in MagnumVersions
    BY <1>1 DEF MagnumVersions
  <1> QED BY <1>2, <1>3, <1>4, <1>5, <1>6, <1>7, <1>8, <1>9, <1>10

\* The changes of finalizers.
LEMMA FinalizedTyped ==
    ASSUME NEW c \in MagnumVersions
    PROVE  /\ [c EXCEPT !.finalizers = Append(@, DeletionFinalizer)] \in MagnumVersions
           /\ [c EXCEPT !.deleted = TRUE, !.finalizers = Append(@, CascadeFinalizer)]
                \in MagnumVersions
           /\ [c EXCEPT !.finalizers = Front(@)] \in MagnumVersions
           /\ [c EXCEPT !.finalizers = RemoveFirst(@, DeletionFinalizer)] \in MagnumVersions
  <1>1. c.finalizers \in Seq(Finalizers)
    BY DEF MagnumVersions, Finalizers
  <1>2. /\ Append(c.finalizers, DeletionFinalizer) \in Seq(Finalizers)
        /\ Append(c.finalizers, CascadeFinalizer) \in Seq(Finalizers)
        /\ Front(c.finalizers) \in Seq(Finalizers)
        /\ RemoveFirst(c.finalizers, DeletionFinalizer) \in Seq(Finalizers)
    BY <1>1, FinalizersTyped DEF Finalizers
  <1> QED BY <1>2 DEF MagnumVersions, Finalizers

\* Handlers with a copy.
LEMMA WorkersTyped ==
    ASSUME NEW c \in MagnumVersions
    PROVE  /\ \A pc \in CopyPcs : MAt(pc, c) \in MagnumWorkers
           /\ MFailWith(c) \in MagnumWorkers
           /\ Released(c) \in MagnumWorkers
           /\ MIdle \in MagnumWorkers
  <1>1. \A d \in MagnumVersions : \A pc \in CopyPcs : MAt(pc, d) \in MagnumWorkers
    BY DEF MAt, MagnumWorkers
  <1>2. [c EXCEPT !.status.state = "FAILED"] \in MagnumVersions
    BY VersionsTyped DEF MagnumStates
  <1>3. [c EXCEPT !.finalizers = RemoveFirst(@, DeletionFinalizer)] \in MagnumVersions
    BY FinalizedTyped
  <1>4. MFailWith(c) \in MagnumWorkers
    BY <1>1, <1>2 DEF MFailWith, CopyPcs
  <1>5. Released(c) \in MagnumWorkers
    BY <1>1, <1>3 DEF Released, CopyPcs
  <1> QED BY <1>1, <1>4, <1>5 DEF MagnumWorkers

\* A handler that is not idle has a copy.
LEMMA WorkerCopies ==
    ASSUME MagnumTypeOK
    PROVE  /\ mworker # MIdle <=> mworker.pc # "idle"
           /\ mworker # MIdle => mworker.copy \in MagnumVersions
           /\ mworker.pc \in {"kubeconfig", "publish"} =>
                mworker \in [pc: {"kubeconfig", "publish"}, copy: MagnumVersions, kube: BOOLEAN]
           /\ sworker # MIdle <=> sworker.pc # "idle"
           /\ sworker # MIdle => sworker.copy \in MagnumVersions
           /\ sworker.pc \in {"idle", "none", "inherit", "bind"}
           /\ sworker.pc \in {"inherit", "bind"} =>
                sworker \in [pc: {"inherit", "bind"}, project: Projects, copy: MagnumVersions]
  <1>1. mworker \in MagnumWorkers /\ sworker \in SchedulerWorkers /\ MIdle.pc = "idle"
    BY DEF MagnumTypeOK, MIdle
  <1> QED BY <1>1 DEF MagnumWorkers, SchedulerWorkers, CopyPcs, MIdle

\* A write to the database.
LEMMA PutTyped ==
    ASSUME MagnumTypeOK, NEW c \in MagnumVersions, Put(c)
    PROVE  /\ DatabaseTyped'
           /\ magnum' = c /\ magnum' # Null
           /\ \A k \in Watches : mfeeds'[k] = Append(mfeeds[k], c)
           /\ \A k \in Watches : mfeeds[k] = <<>> => mfeeds'[k] = <<c>>
  <1>1. /\ magnum' = c
        /\ mfeeds' = [k \in Watches |-> Append(mfeeds[k], c)]
        /\ \A k \in Watches : mfeeds[k] \in Seq(MagnumVersions)
    BY DEF Put, MagnumTypeOK, DatabaseTyped
  <1>2. mfeeds' \in [Watches -> Seq(MagnumVersions)]
    BY <1>1
  <1>3. Append(<<>>, c) = <<c>>
    BY ShortSequences
  <1> QED BY <1>1, <1>2, <1>3, MagnumAssumption DEF DatabaseTyped

LEMMA UpdateTyped ==
    ASSUME MagnumTypeOK, magnum # Null, NEW c \in MagnumVersions, UpdateMagnumCluster(c)
    PROVE  DatabaseTyped'
  <1>1. magnum \in MagnumVersions /\ \A k \in Watches : mfeeds[k] \in Seq(MagnumVersions)
    BY DEF MagnumTypeOK, DatabaseTyped
  <1>2. CASE magnum.deleted /\ c.finalizers = <<>>
    <2>1. magnum' = Null /\ mfeeds' = [mfeeds EXCEPT !["magnum"] = Append(@, magnum)]
      BY <1>2 DEF UpdateMagnumCluster
    <2>2. mfeeds' \in [Watches -> Seq(MagnumVersions)]
      BY <1>1, <2>1 DEF MagnumTypeOK, DatabaseTyped, Watches
    <2> QED BY <2>1, <2>2 DEF DatabaseTyped
  <1>3. CASE ~(magnum.deleted /\ c.finalizers = <<>>)
    <2>1. Put([c EXCEPT !.deleted = magnum.deleted, !.status = magnum.status])
      BY <1>3 DEF UpdateMagnumCluster
    <2>2. [c EXCEPT !.deleted = magnum.deleted, !.status = magnum.status] \in MagnumVersions
      BY <1>1, VersionsTyped
    <2> QED BY <2>1, <2>2, PutTyped
  <1> QED BY <1>2, <1>3

LEMMA StatusTyped ==
    ASSUME MagnumTypeOK, magnum # Null, NEW c \in MagnumVersions, UpdateMagnumStatus(c)
    PROVE  DatabaseTyped'
  <1>1. [magnum EXCEPT !.status = c.status] \in MagnumVersions
    BY VersionsTyped DEF MagnumTypeOK, DatabaseTyped
  <1> QED BY <1>1, PutTyped DEF UpdateMagnumStatus

\* What an update leaves behind, refused or not.
LEMMA SaveTyped ==
    ASSUME MagnumTypeOK, NEW c \in MagnumVersions, NEW worker, NEW next,
           SaveMagnum(worker, c, next) \/ SaveMagnumAgain(worker, c, next)
    PROVE  DatabaseTyped' /\ worker \in {MIdle, next}
  <1>1. \/ UNCHANGED <<magnum, mfeeds>>
        \/ magnum # Null /\ UpdateMagnumCluster(c)
    BY DEF SaveMagnum, SaveMagnumAgain, Asks
  <1>2. worker \in {MIdle, next}
    BY DEF SaveMagnum, SaveMagnumAgain, Asks
  <1> QED BY <1>1, <1>2, UpdateTyped DEF MagnumTypeOK, DatabaseTyped

\* The first action of the state machine.
LEMMA FirstActionsCases ==
    ASSUME NEW c \in MagnumVersions, NEW a \in FirstActions(c)
    PROVE  \/ /\ c.status.state = "PENDING"
              /\ \E n \in Names :
                   /\ c.status.cluster \in {n, Null}
                   /\ a = MAt("pending", [c EXCEPT !.status.state = "CREATING",
                                                   !.status.cluster = n])
           \/ a = MAt("wait", c)
           \/ a = MAt("running", [c EXCEPT !.status.state = "RECONCILING"])
           \/ a = MAt("kube", c)
           \/ a = MIdle
  <1>1. c.status.cluster \in Names \cup {Null}
    BY DEF MagnumVersions, MagnumStatuses
  <1>2. CASE c.status.state = "PENDING"
    <2>1. a \in {MAt("pending", [c EXCEPT !.status.state = "CREATING", !.status.cluster = n]) :
                   n \in IF c.status.cluster # Null THEN {c.status.cluster}
                         ELSE {n \in Names : kubes[n] = Null}}
      BY <1>2, Zenon DEF FirstActions
    <2>2. PICK n \in IF c.status.cluster # Null THEN {c.status.cluster}
                     ELSE {n \in Names : kubes[n] = Null} :
            a = MAt("pending", [c EXCEPT !.status.state = "CREATING", !.status.cluster = n])
      BY <2>1
    <2>3. n \in Names /\ c.status.cluster \in {n, Null}
      BY <1>1, <2>2
    <2> QED BY <1>2, <2>2, <2>3
  <1>3. CASE c.status.state \in {"CREATING", "RECONCILING"}
    <2>1. c.status.state # "PENDING"
      BY <1>3
    <2>2. a \in {MAt("wait", c)}
      BY <1>3, <2>1, Zenon DEF FirstActions
    <2> QED BY <2>2
  <1>4. CASE c.status.state = "RUNNING"
    <2>1. c.status.state # "PENDING" /\ c.status.state \notin {"CREATING", "RECONCILING"}
      BY <1>4
    <2>2. a \in {IF c.status.node_count # c.node_count
                 THEN MAt("running", [c EXCEPT !.status.state = "RECONCILING"])
                 ELSE MAt("kube", c)}
      BY <1>4, <2>1, Zenon DEF FirstActions
    <2> QED BY <2>2
  <1>5. CASE c.status.state \notin {"PENDING", "CREATING", "RECONCILING", "RUNNING"}
    <2>1. /\ c.status.state # "PENDING" /\ c.status.state \notin {"CREATING", "RECONCILING"}
          /\ c.status.state # "RUNNING"
      BY <1>5
    <2>2. a \in {MIdle}
      BY <2>1, Zenon DEF FirstActions
    <2> QED BY <2>2
  <1> QED BY <1>2, <1>3, <1>4, <1>5

LEMMA FirstActionsTyped ==
    ASSUME NEW c \in MagnumVersions, NEW a \in FirstActions(c)
    PROVE  a \in MagnumWorkers
  <1>1. /\ \A n \in Names : [c EXCEPT !.status.state = "CREATING", !.status.cluster = n]
                              \in MagnumVersions
        /\ [c EXCEPT !.status.state = "RECONCILING"] \in MagnumVersions
    BY VersionsTyped DEF MagnumStates
  <1>2. \A d \in MagnumVersions : /\ MAt("pending", d) \in MagnumWorkers
                                  /\ MAt("wait", d) \in MagnumWorkers
                                  /\ MAt("running", d) \in MagnumWorkers
                                  /\ MAt("kube", d) \in MagnumWorkers
    BY WorkersTyped DEF CopyPcs
  <1>3. MIdle \in MagnumWorkers
    BY WorkersTyped
  <1>4. \/ \E n \in Names : a = MAt("pending", [c EXCEPT !.status.state = "CREATING",
                                                       !.status.cluster = n])
        \/ a = MAt("wait", c)
        \/ a = MAt("running", [c EXCEPT !.status.state = "RECONCILING"])
        \/ a = MAt("kube", c)
        \/ a = MIdle
    BY FirstActionsCases
  <1> QED BY <1>1, <1>2, <1>3, <1>4

\* A step of the handler that asks the API for nothing.
LEMMA MovesTyped ==
    ASSUME MagnumTypeOK, UNCHANGED <<magnum, mfeeds, inside, mscenario>>,
           mworker' \in MagnumWorkers, openstack' \in [Ids -> OpenstackClusters],
           kubes' \in [Names -> Ids \cup {Null}], mbudget' \in [Stories -> Nat]
    PROVE  MagnumTypeOK'
  BY DEF MagnumTypeOK, DatabaseTyped, inside

\* A step of the handler that writes to the database.
LEMMA SavesTyped ==
    ASSUME MagnumTypeOK, DatabaseTyped', mworker' \in MagnumWorkers, UNCHANGED <<inside, outside>>
    PROVE  MagnumTypeOK'
  BY DEF MagnumTypeOK, inside, outside

LEMMA SpendTyped ==
    ASSUME MagnumTypeOK, NEW k \in Stories, MSpend(k)
    PROVE  /\ mbudget' \in [Stories -> Nat]
           /\ \A i \in Stories : mbudget[i] = 0 => mbudget'[i] = 0
           /\ mbudget[k] # 0
  BY DEF MagnumTypeOK, MSpend

\* Consumed versions, and what follows from the copy alone.
LEMMA CopyMovesTyped ==
    ASSUME MagnumTypeOK,
           \/ ReconcileMagnumCluster \/ WaitForRunning \/ ReconcileKubernetesResource
           \/ MakeKubeconfig \/ ReadMagnumCluster \/ CreateClient \/ WaitGone
    PROVE  MagnumTypeOK'
  <1> DEFINE c == mworker.copy
  <1>1. mworker # MIdle /\ c \in MagnumVersions
    BY WorkerCopies DEF ReconcileMagnumCluster, WaitForRunning, ReconcileKubernetesResource,
       MakeKubeconfig, ReadMagnumCluster, CreateClient, WaitGone
  <1>2. SUFFICES ASSUME NEW a \in MagnumWorkers, MGoes(a) PROVE MagnumTypeOK'
    <2>0. /\ MIdle \in MagnumWorkers /\ MFailWith(c) \in MagnumWorkers
          /\ Released(c) \in MagnumWorkers /\ \A pc \in CopyPcs : MAt(pc, c) \in MagnumWorkers
      BY <1>1, WorkersTyped
    <2>1. CASE ReconcileMagnumCluster
      <3>1. [c EXCEPT !.finalizers = Append(@, DeletionFinalizer)] \in MagnumVersions
        BY <1>1, FinalizedTyped
      <3>2. MAt("finalize", [c EXCEPT !.finalizers = Append(@, DeletionFinalizer)])
              \in MagnumWorkers
        BY <3>1, WorkersTyped DEF CopyPcs
      <3>3. \E a \in MagnumWorkers : MGoes(a)
        BY <1>1, <2>1, <3>2, FirstActionsTyped DEF ReconcileMagnumCluster
      <3> QED BY <1>2, <3>3
    <2>2. CASE WaitForRunning
      <3>1. CASE ReadIn(c) = "NotFound"
        <4>1. [c EXCEPT !.status.cluster_id = Null, !.status.state = "PENDING"]
                \in MagnumVersions
          BY <1>1, VersionsTyped
        <4>2. MAt("forget", [c EXCEPT !.status.cluster_id = Null, !.status.state = "PENDING"])
                \in MagnumWorkers
          BY <4>1, WorkersTyped DEF CopyPcs
        <4> QED BY <1>2, <2>2, <3>1, <4>2 DEF WaitForRunning
      <3>2. CASE ReadIn(c) \in {"CREATE_FAILED", "UPDATE_FAILED", "DELETE_FAILED"}
        BY <1>2, <2>0, <2>2, <3>2 DEF WaitForRunning
      <3>3. CASE ReadIn(c) \in {"CREATE_COMPLETE", "UPDATE_COMPLETE"}
        <4>1. c.status.cluster_id \in Ids
          BY <1>1, <3>3 DEF ReadIn, Runs, MagnumVersions, MagnumStatuses
        <4>2. openstack[c.status.cluster_id].nodes \in NodeCounts
          BY <4>1 DEF MagnumTypeOK, OpenstackClusters
        <4>3. [c EXCEPT !.status.state = "RUNNING",
                        !.status.node_count = openstack[c.status.cluster_id].nodes]
                \in MagnumVersions
          BY <1>1, <4>2, VersionsTyped
        <4>4. MAt("complete", [c EXCEPT !.status.state = "RUNNING",
                                 !.status.node_count = openstack[c.status.cluster_id].nodes])
                \in MagnumWorkers
          BY <4>3, WorkersTyped DEF CopyPcs
        <4> QED BY <1>2, <2>2, <3>3, <4>4 DEF WaitForRunning
      <3>4. CASE ReadIn(c) = "listing"
        BY <1>2, <2>0, <2>2, <3>4 DEF WaitForRunning
      <3> QED BY <2>2, <3>1, <3>2, <3>3, <3>4 DEF WaitForRunning
    <2>3. CASE ReconcileKubernetesResource
      <3>1. [pc |-> "kubeconfig", copy |-> c, kube |-> kubes[c.status.cluster] # Null]
              \in MagnumWorkers
        BY <1>1 DEF MagnumWorkers
      <3> QED BY <1>2, <2>0, <2>3, <3>1 DEF ReconcileKubernetesResource
    <2>4. CASE MakeKubeconfig
      <3>1. [mworker EXCEPT !.pc = "publish"] \in MagnumWorkers
        BY <2>4, WorkerCopies DEF MakeKubeconfig, MagnumWorkers
      <3> QED BY <1>2, <2>0, <2>4, <3>1 DEF MakeKubeconfig
    <2>5. CASE ReadMagnumCluster
      <3>1. \/ MGoes(MIdle) \/ MGoes(MAt("delete client", c)) \/ MGoes(Released(c))
        BY <2>5, Zenon DEF ReadMagnumCluster
      <3> QED BY <1>2, <2>0, <3>1 DEF CopyPcs
    <2>6. CASE CreateClient
      BY <1>2, <2>0, <2>6 DEF CreateClient, CopyPcs
    <2>7. CASE WaitGone
      BY <1>2, <2>0, <2>7 DEF WaitGone
    <2> QED BY <2>1, <2>2, <2>3, <2>4, <2>5, <2>6, <2>7
  <1> QED BY <1>2, MovesTyped DEF MGoes, outside, MagnumTypeOK, inside

\* The handler fetches a version, or uses OpenStack.
LEMMA OutsideMovesTyped ==
    ASSUME MagnumTypeOK,
           \/ Consume \/ CreateMagnumCluster \/ ResizeMagnumCluster \/ Publish
           \/ DeleteMagnumCluster \/ OpenstackError
    PROVE  MagnumTypeOK'
  <1> DEFINE c == mworker.copy
  <1>1. \A id \in Ids : openstack[id] \in OpenstackClusters
    BY DEF MagnumTypeOK
  <1>2. CASE Consume
    <2>1. mqueue.dirty \in MagnumVersions
      BY <1>2 DEF Consume, MagnumTypeOK
    <2>2. mworker' \in MagnumWorkers
      BY <1>2, <2>1, WorkersTyped DEF Consume, CopyPcs
    <2> QED BY <1>2, <2>2 DEF Consume, MagnumTypeOK, DatabaseTyped, outside
  <1>3. ASSUME mworker # MIdle
        PROVE  /\ c \in MagnumVersions /\ MFailWith(c) \in MagnumWorkers
               /\ MIdle \in MagnumWorkers /\ MAt("wait", c) \in MagnumWorkers
    BY <1>3, WorkerCopies, WorkersTyped DEF CopyPcs
  <1>4. CASE CreateMagnumCluster
    <2>1. mworker # MIdle
      BY <1>4, WorkerCopies DEF CreateMagnumCluster
    <2>2. CASE mworker' = MFailWith(c) /\ UNCHANGED <<openstack, mbudget>>
      BY <1>3, <1>4, <2>1, <2>2, MovesTyped DEF CreateMagnumCluster, MagnumTypeOK
    <2>3. ASSUME NEW id \in Ids, CreateIn(c.status.project, c.node_count, id),
                 \/ /\ mworker' = MAt("created", [c EXCEPT !.status.cluster_id = id])
                    /\ UNCHANGED mbudget
                 \/ MSpend("lost") /\ mworker' = MFailWith(c)
          PROVE  MagnumTypeOK'
      <3>1. c.status.project \in Projects \cup {Null} /\ c.node_count \in NodeCounts
        BY <1>3, <2>1 DEF MagnumVersions, MagnumStatuses
      <3>2. openstack' \in [Ids -> OpenstackClusters]
        BY <2>3, <3>1 DEF CreateIn, MagnumTypeOK, OpenstackClusters, OpenstackStates
      <3>3. [c EXCEPT !.status.cluster_id = id] \in MagnumVersions
        BY <1>3, <2>1, VersionsTyped
      <3>4. mworker' \in MagnumWorkers
        BY <1>3, <2>1, <2>3, <3>3, WorkersTyped DEF CopyPcs
      <3>5. mbudget' \in [Stories -> Nat]
        BY <2>3, SpendTyped DEF MagnumTypeOK, Stories
      <3> QED BY <1>4, <3>2, <3>4, <3>5, MovesTyped DEF CreateMagnumCluster, MagnumTypeOK
    <2> QED BY <1>4, <2>2, <2>3 DEF CreateMagnumCluster
  <1>5. CASE ResizeMagnumCluster
    <2>1. mworker # MIdle
      BY <1>5, WorkerCopies DEF ResizeMagnumCluster
    <2>2. mworker' \in MagnumWorkers
      BY <1>3, <1>5, <2>1 DEF ResizeMagnumCluster
    <2>3. c.node_count \in NodeCounts
      BY <1>3, <2>1 DEF MagnumVersions
    <2>4. openstack' \in [Ids -> OpenstackClusters]
      BY <1>1, <1>5, <2>3
         DEF ResizeMagnumCluster, ResizeTo, MagnumTypeOK, OpenstackClusters, OpenstackStates
    <2> QED BY <1>5, <2>2, <2>4, MovesTyped DEF ResizeMagnumCluster, MagnumTypeOK
  <1>6. CASE Publish
    <2>1. mworker # MIdle
      BY <1>6, WorkerCopies DEF Publish
    <2>2. c.status.cluster_id \in Ids \cup {Null}
      BY <1>3, <2>1 DEF MagnumVersions, MagnumStatuses
    <2>3. kubes' \in [Names -> Ids \cup {Null}]
      BY <1>6, <2>2 DEF Publish, MagnumTypeOK
    <2> QED BY <1>3, <1>6, <2>1, <2>3, MovesTyped DEF Publish, MagnumTypeOK
  <1>7. CASE DeleteMagnumCluster
    <2>1. mworker # MIdle
      BY <1>7, WorkerCopies DEF DeleteMagnumCluster
    <2>2. [c EXCEPT !.status.state = "DELETING"] \in MagnumVersions
      BY <1>3, <2>1, VersionsTyped DEF MagnumStates
    <2>3. mworker' \in MagnumWorkers
      <3>1. MAt("deleting", [c EXCEPT !.status.state = "DELETING"]) \in MagnumWorkers
        BY <2>2, WorkersTyped DEF CopyPcs
      <3> QED BY <1>3, <1>7, <2>1, <3>1 DEF DeleteMagnumCluster
    <2>4. openstack' \in [Ids -> OpenstackClusters]
      BY <1>1, <1>7
         DEF DeleteMagnumCluster, DeleteIn, MagnumTypeOK, OpenstackClusters, OpenstackStates
    <2> QED BY <1>7, <2>3, <2>4, MovesTyped DEF DeleteMagnumCluster, MagnumTypeOK
  <1>8. CASE OpenstackError
    <2>1. mworker # MIdle
      BY <1>8, WorkerCopies DEF OpenstackError
    <2>2. mbudget' \in [Stories -> Nat]
      BY <1>8, SpendTyped DEF OpenstackError, Stories
    <2> QED BY <1>3, <1>8, <2>1, <2>2, MovesTyped DEF OpenstackError, MagnumTypeOK
  <1> QED BY <1>2, <1>4, <1>5, <1>6, <1>7, <1>8

\* The handler writes to the database.
LEMMA SaveMovesTyped ==
    ASSUME MagnumTypeOK,
           \/ MFinalize \/ OnPending \/ SaveId \/ OnRunning \/ SaveWaited
           \/ SaveMagnumDeleting \/ ReleaseMagnum \/ ProcessCluster
    PROVE  MagnumTypeOK'
  <1> DEFINE c == mworker.copy
  <1>1. mworker # MIdle /\ c \in MagnumVersions
    BY WorkerCopies DEF MFinalize, OnPending, SaveId, OnRunning, SaveWaited,
       SaveMagnumDeleting, ReleaseMagnum, ProcessCluster
  <1>2. ASSUME NEW a \in MagnumWorkers, MSaveStatus(c, a) PROVE MagnumTypeOK'
    <2>1. mworker' \in MagnumWorkers
      BY <1>2, WorkersTyped, <1>1 DEF MSaveStatus, Asks
    <2>2. DatabaseTyped'
      BY <1>1, <1>2, StatusTyped DEF MSaveStatus, Asks, MagnumTypeOK, DatabaseTyped
    <2> QED BY <1>2, <2>1, <2>2, SavesTyped DEF MSaveStatus
  <1>3. /\ MIdle \in MagnumWorkers /\ MAt("create", c) \in MagnumWorkers
        /\ MAt("wait", c) \in MagnumWorkers /\ MAt("resize", c) \in MagnumWorkers
        /\ MAt("kube", c) \in MagnumWorkers /\ MAt("leaving", c) \in MagnumWorkers
    BY <1>1, WorkersTyped DEF CopyPcs
  <1>4. CASE OnPending \/ SaveId \/ OnRunning \/ SaveWaited \/ SaveMagnumDeleting
             \/ ProcessCluster
    BY <1>2, <1>3, <1>4
       DEF OnPending, SaveId, OnRunning, SaveWaited, SaveMagnumDeleting, ProcessCluster
  <1>5. CASE MFinalize \/ ReleaseMagnum
    <2>1. PICK a \in MagnumWorkers : SaveMagnum(mworker', c, a) \/ SaveMagnumAgain(mworker', c, a)
      BY <1>1, <1>3, <1>5, FirstActionsTyped DEF MFinalize, ReleaseMagnum
    <2>2. DatabaseTyped' /\ mworker' \in MagnumWorkers
      BY <1>1, <1>3, <2>1, SaveTyped
    <2> QED BY <1>5, <2>2, SavesTyped DEF MFinalize, ReleaseMagnum
  <1> QED BY <1>4, <1>5

\* Versions are received.
LEMMA EnqueueCases ==
    ASSUME NEW c, NEW q
    PROVE  LET ours == c.finalizers # <<>> /\ Last(c.finalizers) = DeletionFinalizer
               failed == c.status.state = "FAILED"
           IN  \/ c.deleted /\ ours /\ failed /\ MEnqueue(c, q) = [q EXCEPT !.timer = c]
               \/ c.deleted /\ ours /\ ~failed /\ MEnqueue(c, q) = [q EXCEPT !.dirty = c]
               \/ /\ ~c.deleted /\ ~failed /\ c.status.project # Null
                  /\ MEnqueue(c, q) = [q EXCEPT !.dirty = c]
               \/ /\ ~(c.deleted /\ ours)
                  /\ ~(~c.deleted /\ ~failed /\ c.status.project # Null)
                  /\ MEnqueue(c, q) = q
  <1> DEFINE ours == c.finalizers # <<>> /\ Last(c.finalizers) = DeletionFinalizer
             failed == c.status.state = "FAILED"
             one == c.deleted /\ ours /\ failed
             two == c.deleted /\ ours /\ ~failed
             three == ~c.deleted /\ ~failed /\ c.status.project # Null
  <1>1. MEnqueue(c, q) = CASE one -> [q EXCEPT !.timer = c]
                           [] two -> [q EXCEPT !.dirty = c]
                           [] three -> [q EXCEPT !.dirty = c]
                           [] OTHER -> q
    BY DEF MEnqueue
  <1>2. /\ one => MEnqueue(c, q) = [q EXCEPT !.timer = c]
        /\ two => MEnqueue(c, q) = [q EXCEPT !.dirty = c]
        /\ three => MEnqueue(c, q) = [q EXCEPT !.dirty = c]
        /\ ~one /\ ~two /\ ~three => MEnqueue(c, q) = q
    BY <1>1, Zenon
  <1> QED BY <1>2

LEMMA ReceivesTyped ==
    ASSUME MagnumTypeOK, MReceive \/ MFire \/ MRestart \/ ReceivedMagnumCluster
    PROVE  MagnumTypeOK'
  <1>1. /\ \A k \in Watches : mfeeds[k] \in Seq(MagnumVersions)
        /\ mfeeds \in [Watches -> Seq(MagnumVersions)]
        /\ "magnum" \in Watches /\ "scheduler" \in Watches
    BY DEF MagnumTypeOK, DatabaseTyped, Watches
  <1>2. CASE MReceive
    <2>1. /\ Head(mfeeds["magnum"]) \in MagnumVersions
          /\ Tail(mfeeds["magnum"]) \in Seq(MagnumVersions)
      BY <1>1, <1>2 DEF MReceive
    <2>2. \E c \in MagnumVersions : mqueue' \in {mqueue, [mqueue EXCEPT !.timer = c],
                                                 [mqueue EXCEPT !.dirty = c]}
      BY <1>2, <2>1, EnqueueCases DEF MReceive
    <2>3. mfeeds' \in [Watches -> Seq(MagnumVersions)]
      BY <1>1, <1>2, <2>1 DEF MReceive
    <2> QED BY <1>2, <2>2, <2>3 DEF MReceive, MagnumTypeOK, DatabaseTyped, outside
  <1>3. CASE MFire
    BY <1>3 DEF MFire, MagnumTypeOK, DatabaseTyped, outside
  <1>4. CASE MRestart
    <2>1. mbudget' \in [Stories -> Nat]
      BY <1>4, SpendTyped DEF MRestart, Stories
    <2>2. mfeeds' \in [Watches -> Seq(MagnumVersions)]
      BY <1>1, <1>4 DEF MRestart, MagnumTypeOK, DatabaseTyped
    <2>3. mworker' \in MagnumWorkers
      BY <1>4 DEF MRestart, MagnumWorkers
    <2> QED BY <1>4, <2>1, <2>2, <2>3 DEF MRestart, MagnumTypeOK, DatabaseTyped
  <1>5. CASE ReceivedMagnumCluster
    <2>1. /\ Head(mfeeds["scheduler"]) \in MagnumVersions
          /\ Tail(mfeeds["scheduler"]) \in Seq(MagnumVersions)
      BY <1>1, <1>5 DEF ReceivedMagnumCluster
    <2>2. mfeeds' \in [Watches -> Seq(MagnumVersions)]
      BY <1>1, <1>5, <2>1 DEF ReceivedMagnumCluster
    <2>3. squeue' \in MagnumVersions \cup {Null}
      BY <1>5, <2>1 DEF ReceivedMagnumCluster, MagnumTypeOK
    <2> QED BY <1>5, <2>2, <2>3 DEF ReceivedMagnumCluster, MagnumTypeOK, DatabaseTyped, outside
  <1> QED BY <1>2, <1>3, <1>4, <1>5

\* The scheduler.
LEMMA SchedulerTyped ==
    ASSUME MagnumTypeOK, SchedulerHandler
    PROVE  MagnumTypeOK'
  <1>1. mscenario.projects \subseteq Projects /\ mscenario.labels \in BOOLEAN
    BY MagnumAssumption DEF MagnumTypeOK, AllMagnumScenarios
  <1>2. CASE HandleMagnumClusters
    <2>1. squeue \in MagnumVersions
      BY <1>2 DEF HandleMagnumClusters, MagnumTypeOK
    <2>2. /\ [squeue EXCEPT !.status.state = "FAILED"] \in MagnumVersions
          /\ [squeue EXCEPT !.inherited = @ \/ mscenario.labels] \in MagnumVersions
      BY <1>1, <2>1, VersionsTyped DEF MagnumStates
    <2>3. sworker' \in SchedulerWorkers
      BY <1>1, <1>2, <2>2 DEF HandleMagnumClusters, SchedulerWorkers, MAt
    <2> QED BY <1>2, <2>3 DEF HandleMagnumClusters, MagnumTypeOK, DatabaseTyped, outside
  <1>3. CASE ScheduleMagnumCluster
    <2>1. sworker.pc \in {"inherit", "bind", "none"} /\ sworker.copy \in MagnumVersions
      BY <1>3, WorkerCopies DEF ScheduleMagnumCluster
    <2>2. CASE sworker.pc = "inherit"
      <3> DEFINE next == [sworker EXCEPT !.pc = "bind"]
      <3>1. next \in SchedulerWorkers
        BY <2>2, WorkerCopies DEF SchedulerWorkers
      <3>2. SaveMagnum(sworker', sworker.copy, next) \/ SaveMagnumAgain(sworker', sworker.copy, next)
        BY <1>3, <2>2 DEF ScheduleMagnumCluster
      <3>3. DatabaseTyped' /\ sworker' \in {MIdle, next}
        BY <2>1, <3>2, SaveTyped
      <3>4. sworker' \in SchedulerWorkers
        BY <3>1, <3>3 DEF SchedulerWorkers
      <3> QED BY <1>3, <3>3, <3>4 DEF ScheduleMagnumCluster, MagnumTypeOK, outside
    <2>3. CASE sworker.pc = "bind"
      <3>1. sworker.project \in Projects
        BY <2>3, WorkerCopies
      <3>2. Asks(sworker', MIdle, UpdateBinding(sworker.project))
        BY <1>3, <2>3 DEF ScheduleMagnumCluster
      <3>3. sworker' \in SchedulerWorkers
        BY <3>2 DEF Asks, SchedulerWorkers
      <3>4. ASSUME magnum # Null, UpdateBinding(sworker.project) PROVE DatabaseTyped'
        <4>1. [magnum EXCEPT !.status.project = sworker.project] \in MagnumVersions
          BY <3>1, <3>4, VersionsTyped DEF MagnumTypeOK, DatabaseTyped
        <4> QED BY <3>4, <4>1, PutTyped DEF UpdateBinding
      <3>5. DatabaseTyped'
        BY <3>2, <3>4 DEF Asks, MagnumTypeOK, DatabaseTyped
      <3> QED BY <1>3, <3>3, <3>5 DEF ScheduleMagnumCluster, MagnumTypeOK, outside
    <2>4. CASE sworker.pc = "none"
      <3>1. Asks(sworker', MIdle, UpdateMagnumStatus(sworker.copy))
        BY <1>3, <2>4 DEF ScheduleMagnumCluster
      <3>2. sworker' \in SchedulerWorkers
        BY <3>1 DEF Asks, SchedulerWorkers
      <3>3. DatabaseTyped'
        BY <2>1, <3>1, StatusTyped DEF Asks, MagnumTypeOK, DatabaseTyped
      <3> QED BY <1>3, <3>2, <3>3 DEF ScheduleMagnumCluster, MagnumTypeOK, outside
    <2> QED BY <2>1, <2>2, <2>3, <2>4
  <1> QED BY <1>2, <1>3 DEF SchedulerHandler

\* What OpenStack does by itself.
LEMMA OpenstackTyped ==
    ASSUME MagnumTypeOK, NEW id \in Ids, Completes(id) \/ Breaks(id)
    PROVE  /\ MagnumTypeOK'
           /\ \A i \in Ids : openstack'[i].project = openstack[i].project
           /\ \A i \in Ids : openstack[i].status \in {"absent", "gone"}
                               => openstack'[i].status \in {"absent", "gone"}
           /\ UNCHANGED <<magnum, mfeeds, inside, mworker, kubes, mscenario>>
           /\ \A k \in Stories : mbudget[k] = 0 => mbudget'[k] = 0
  <1>1. \A i \in Ids : openstack[i] \in OpenstackClusters
    BY DEF MagnumTypeOK
  <1>2. PICK s \in OpenstackStates : openstack' = [openstack EXCEPT ![id].status = s]
    <2>1. /\ openstack[id].status \in DOMAIN Complete => Complete[openstack[id].status] \in OpenstackStates
          /\ openstack[id].status \in DOMAIN Failing => Failing[openstack[id].status] \in OpenstackStates
      BY DEF Complete, Failing, OpenstackStates
    <2>2. "gone" \in OpenstackStates
      BY DEF OpenstackStates
    <2> QED BY <2>1, <2>2 DEF Completes, Breaks
  <1>3. openstack[id].status \notin {"absent", "gone"}
    BY DEF Completes, Breaks, Complete, Failing, Runs
  <1>4. openstack' \in [Ids -> OpenstackClusters]
    BY <1>1, <1>2 DEF MagnumTypeOK, OpenstackClusters
  <1>5. mbudget' \in [Stories -> Nat] /\ \A k \in Stories : mbudget[k] = 0 => mbudget'[k] = 0
    BY SpendTyped DEF Completes, Breaks, Stories, MagnumTypeOK
  <1>6. UNCHANGED <<magnum, mfeeds, inside, mworker, kubes, mscenario>>
    BY DEF Completes, Breaks, inside
  <1>7. MagnumTypeOK'
    BY <1>4, <1>5, <1>6 DEF MagnumTypeOK, DatabaseTyped, inside
  <1>8. \A i \in Ids : /\ openstack'[i].project = openstack[i].project
                       /\ openstack[i].status \in {"absent", "gone"}
                            => openstack'[i].status \in {"absent", "gone"}
    BY <1>1, <1>2, <1>3 DEF MagnumTypeOK, OpenstackClusters
  <1> QED BY <1>5, <1>6, <1>7, <1>8

\* Users and the garbage collector.
LEMMA OthersTyped ==
    ASSUME MagnumTypeOK, UserResizes \/ UserDeletes \/ CollectMagnum
    PROVE  MagnumTypeOK'
  <1>1. magnum \in MagnumVersions /\ magnum # Null
    BY DEF UserResizes, UserDeletes, CollectMagnum, MagnumTypeOK, DatabaseTyped
  <1>2. CASE UserResizes
    <2>1. [magnum EXCEPT !.node_count = 2] \in MagnumVersions
      BY <1>1, VersionsTyped
    <2>2. DatabaseTyped'
      BY <1>2, <2>1, PutTyped DEF UserResizes
    <2>3. mbudget' \in [Stories -> Nat]
      BY <1>2, SpendTyped DEF UserResizes, Stories
    <2> QED BY <1>2, <2>2, <2>3 DEF UserResizes, MagnumTypeOK, inside
  <1>3. CASE UserDeletes
    <2>1. [magnum EXCEPT !.deleted = TRUE, !.finalizers = Append(@, CascadeFinalizer)]
            \in MagnumVersions
      BY <1>1, FinalizedTyped
    <2>2. DatabaseTyped'
      BY <1>3, <2>1, PutTyped DEF UserDeletes, DeleteMagnum
    <2>3. mbudget' \in [Stories -> Nat]
      BY <1>3, SpendTyped DEF UserDeletes, Stories
    <2> QED BY <1>3, <2>2, <2>3 DEF UserDeletes, MagnumTypeOK, inside
  <1>4. CASE CollectMagnum
    <2>1. [magnum EXCEPT !.finalizers = Front(@)] \in MagnumVersions
      BY <1>1, FinalizedTyped
    <2>2. DatabaseTyped'
      BY <1>1, <1>4, <2>1, UpdateTyped DEF CollectMagnum, MagnumTypeOK, DatabaseTyped
    <2>3. kubes' \in [Names -> Ids \cup {Null}]
      BY <1>4 DEF CollectMagnum, MagnumTypeOK
    <2> QED BY <1>4, <2>2, <2>3 DEF CollectMagnum, MagnumTypeOK, inside
  <1> QED BY <1>2, <1>3, <1>4

LEMMA TypeStep ==
    ASSUME MagnumTypeOK, [MagnumNext]_magnumVars
    PROVE  MagnumTypeOK'
  <1>1. CASE MagnumHandler
    <2>1. \/ \/ ReconcileMagnumCluster \/ WaitForRunning \/ ReconcileKubernetesResource
             \/ MakeKubeconfig \/ ReadMagnumCluster \/ CreateClient \/ WaitGone
          \/ \/ Consume \/ CreateMagnumCluster \/ ResizeMagnumCluster \/ Publish
             \/ DeleteMagnumCluster
          \/ \/ MFinalize \/ OnPending \/ SaveId \/ OnRunning \/ SaveWaited
             \/ SaveMagnumDeleting \/ ReleaseMagnum \/ ProcessCluster
      BY <1>1 DEF MagnumHandler
    <2> QED BY <2>1, CopyMovesTyped, OutsideMovesTyped, SaveMovesTyped
  <1>2. CASE UNCHANGED magnumVars
    BY <1>2 DEF magnumVars, MagnumTypeOK, DatabaseTyped
  <1> QED BY <1>1, <1>2, OutsideMovesTyped, ReceivesTyped, SchedulerTyped, OpenstackTyped,
             OthersTyped DEF MagnumNext

-----------------------------------------------------------------------------
(* The handler, in regular scenarios                                       *)

Kept ==
    SchedulerFirst /\ FeedsCurrent /\ QueueCurrent /\ CopyCurrent /\ RunsKnown /\ KubesNamed
NoneRuns == \A id \in Ids : ~Runs(id)

\* While the handler is busy the scheduler is done, and the cluster bound.
LEMMA BusyBound ==
    ASSUME MagnumTypeOK, Kept, mworker # MIdle
    PROVE  /\ squeue = Null /\ sworker = MIdle
           /\ Exists => magnum \in MagnumVersions /\ magnum.status.project # Null
           /\ mworker.copy \in MagnumVersions
           /\ CopyFits(mworker.pc, mworker.copy)
  <1>1. mworker.copy \in MagnumVersions
    BY WorkerCopies
  <1> QED BY <1>1 DEF Kept, SchedulerFirst, CopyCurrent, Exists, MagnumTypeOK, DatabaseTyped

\* What does not concern the handler stays when only the handler moves.
LEMMA MovesKeep ==
    ASSUME MagnumTypeOK, Kept, mworker # MIdle, UNCHANGED <<magnum, mfeeds, inside, mscenario>>
    PROVE  SchedulerFirst' /\ FeedsCurrent' /\ QueueCurrent'
  <1>1. UNCHANGED <<magnum, mfeeds, squeue, sworker, mqueue, mscenario>>
    BY DEF inside
  <1>2. SchedulerFirst'
    <2>1. /\ squeue' = Null /\ sworker' = MIdle
          /\ Exists' => magnum'.status.project # Null
          /\ Exists' => Exists
      BY <1>1, BusyBound DEF Exists
    <2>2. sworker'.pc # "none"
      BY <2>1 DEF MIdle
    <2>3. Exists' => mscenario'.projects # {}
      BY <1>1, <2>1 DEF Kept, SchedulerFirst, Exists
    <2> QED BY <2>1, <2>2, <2>3 DEF SchedulerFirst
  <1>3. FeedsCurrent'
    BY <1>1 DEF Kept, FeedsCurrent, Exists, Leaving, Honest, Parting, Agrees
  <1>4. QueueCurrent'
    BY <1>1 DEF Kept, QueueCurrent, Exists, Leaving, Honest, Releasing, Parting, Agrees
  <1> QED BY <1>2, <1>3, <1>4

\* A copy fits the same when the database did not change.
LEMMA FitsKept ==
    ASSUME NEW pc, NEW c, magnum' = magnum
    PROVE  CopyFits(pc, c)' <=> CopyFits(pc, c)
  BY DEF CopyFits, Exists, Leaving, Honest, Agrees, Parting

\* The handler goes on with a copy that fits, and with what runs as it was.
LEMMA GoesKeep ==
    ASSUME MagnumTypeOK, Kept, mworker # MIdle, mworker.pc # "created",
           UNCHANGED <<magnum, mfeeds, inside, mscenario, openstack, kubes>>,
           \/ mworker' = MIdle
           \/ /\ mworker'.pc # "created"
              /\ CopyFits(mworker'.pc, mworker'.copy)
              /\ mworker'.pc \in {"forget", "release"} => NoneRuns
    PROVE  Kept'
  <1>1. SchedulerFirst' /\ FeedsCurrent' /\ QueueCurrent'
    BY MovesKeep
  <1>2. CopyCurrent'
    <2>1. CASE mworker' = MIdle
      BY <2>1 DEF CopyCurrent
    <2>2. CASE CopyFits(mworker'.pc, mworker'.copy)
      <3>1. PICK pc, c : pc = mworker'.pc /\ c = mworker'.copy
        OBVIOUS
      <3>2. CopyFits(pc, c)'
        BY <2>2, <3>1, FitsKept
      <3> QED BY <3>1, <3>2 DEF CopyCurrent
    <2> QED BY <2>1, <2>2
  <1>3. RunsKnown'
    <2>1. \A id \in Ids : Runs(id)' => Runs(id)
      BY DEF Runs
    <2>2. mworker'.pc # "created"
      BY DEF MIdle
    <2>3. mworker'.pc \in {"forget", "release"} => NoneRuns
      BY DEF MIdle
    <2> QED BY <2>1, <2>2, <2>3 DEF Kept, RunsKnown, NoneRuns, Exists
  <1>4. KubesNamed'
    BY DEF Kept, KubesNamed, Exists
  <1> QED BY <1>1, <1>2, <1>3, <1>4 DEF Kept

\* OpenStack is only asked about a cluster in its project, so what it does not find
\* does not run.
LEMMA NotFoundGone ==
    ASSUME MagnumTypeOK, Kept, mworker # MIdle, mworker.pc # "created",
           Exists, Agrees(mworker.copy), ~Found(mworker.copy)
    PROVE  NoneRuns
  <1> DEFINE c == mworker.copy
  <1>1. /\ c.status.cluster_id = magnum.status.cluster_id
        /\ c.status.project = magnum.status.project
    BY DEF Agrees
  <1>2. \/ ~Runs(c.status.cluster_id)
        \/ openstack[c.status.cluster_id].project # c.status.project
    <2>1. CASE c.status.cluster_id = Null
      BY <2>1 DEF Runs
    <2>2. CASE c.status.cluster_id # Null
      <3> DEFINE runs == Runs(c.status.cluster_id)
                         /\ openstack[c.status.cluster_id].project = c.status.project
                 answer == openstack[c.status.cluster_id].status
      <3>1. runs => ReadIn(c) = answer
        <4>1. ASSUME runs PROVE ReadIn(c) = answer
          BY <2>2, <4>1, Zenon DEF ReadIn
        <4> QED BY <4>1
      <3>2. runs => answer \notin {"NotFound", "listing"}
        BY BusyBound DEF Runs, MagnumVersions, MagnumStatuses, MagnumTypeOK,
                         OpenstackClusters, OpenstackStates
      <3> QED BY <3>1, <3>2 DEF Found
    <2> QED BY <2>1, <2>2
  <1> QED BY <1>1, <1>2 DEF Kept, RunsKnown, NoneRuns

\* An error of OpenStack, or of the controller.
LEMMA FailFits ==
    ASSUME MagnumTypeOK, Kept, mworker # MIdle,
           mworker.pc \notin {"pending", "created", "forget", "read"}
    PROVE  /\ CopyFits(MFailWith(mworker.copy).pc, MFailWith(mworker.copy).copy)
           /\ MFailWith(mworker.copy).pc = "fail"
  <1> DEFINE c == mworker.copy
             d == [c EXCEPT !.status.state = "FAILED"]
  <1>1. c \in MagnumVersions /\ CopyFits(mworker.pc, c)
    BY BusyBound
  <1>2. /\ d.deleted = c.deleted /\ d.finalizers = c.finalizers
        /\ d.status.state = "FAILED" /\ d.status.project = c.status.project
        /\ d.status.cluster_id = c.status.cluster_id /\ d.status.cluster = c.status.cluster
    BY <1>1 DEF MagnumVersions, MagnumStatuses
  <1>3. MFailWith(c).pc = "fail" /\ MFailWith(c).copy = d
    BY DEF MFailWith, MAt
  <1>4. mworker.pc \in Reconciling \cup Deleting \cup {"fail"}
    BY DEF MagnumTypeOK, MagnumWorkers, CopyPcs, Reconciling, Creating, Deleting, MIdle
  <1> HIDE DEF d
  <1>5. CopyFits("fail", d)
    BY <1>1, <1>2, <1>4
       DEF CopyFits, Agrees, Honest, Parting, Leaving, Exists, Reconciling, Creating, Deleting
  <1> QED BY <1>3, <1>5

\* The first action fits when the finalizer is in the database.
LEMMA FirstActionsFit ==
    ASSUME NEW c \in MagnumVersions, NEW a \in FirstActions(c),
           Exists', ~magnum'.deleted, magnum'.finalizers = Ours,
           Agrees(c)', Honest(c), ~c.deleted, c.finalizers \in {<<>>, Ours}
    PROVE  /\ a # MIdle => CopyFits(a.pc, a.copy)'
           /\ a.pc \in {"idle", "pending", "wait", "running", "kube"}
  <1>1. ASSUME NEW d, NEW pc \in {"wait", "running", "kube"}, a = MAt(pc, d),
               d.deleted = c.deleted, d.finalizers = c.finalizers,
               d.status.project = c.status.project, d.status.cluster = c.status.cluster,
               d.status.cluster_id = c.status.cluster_id,
               d.status.state = "PENDING" => d.status.cluster_id = Null
        PROVE  a.pc = pc /\ CopyFits(a.pc, a.copy)'
    <2>1. a.pc = pc /\ a.copy = d
      BY <1>1 DEF MAt
    <2>2. CopyFits(pc, d)'
      BY <1>1
         DEF CopyFits, Agrees, Honest, Exists, Reconciling, Creating, Deleting
    <2> QED BY <2>1, <2>2
  <1>2. CASE a = MAt("wait", c) \/ a = MAt("kube", c)
    BY <1>1, <1>2 DEF Honest
  <1>3. CASE a = MAt("running", [c EXCEPT !.status.state = "RECONCILING"])
    <2> DEFINE d == [c EXCEPT !.status.state = "RECONCILING"]
    <2>1. /\ d.deleted = c.deleted /\ d.finalizers = c.finalizers
          /\ d.status.project = c.status.project /\ d.status.cluster = c.status.cluster
          /\ d.status.cluster_id = c.status.cluster_id /\ d.status.state = "RECONCILING"
      BY DEF MagnumVersions, MagnumStatuses
    <2> HIDE DEF d
    <2>2. a = MAt("running", d)
      BY <1>3 DEF d
    <2> QED BY <1>1, <2>1, <2>2
  <1>4. ASSUME NEW n \in Names, c.status.state = "PENDING", c.status.cluster \in {n, Null},
               a = MAt("pending", [c EXCEPT !.status.state = "CREATING", !.status.cluster = n])
        PROVE  a.pc = "pending" /\ CopyFits(a.pc, a.copy)'
    <2> DEFINE d == [c EXCEPT !.status.state = "CREATING", !.status.cluster = n]
    <2>1. /\ d.deleted = c.deleted /\ d.finalizers = c.finalizers
          /\ d.status.project = c.status.project /\ d.status.cluster = n
          /\ d.status.cluster_id = c.status.cluster_id /\ d.status.state = "CREATING"
      BY DEF MagnumVersions, MagnumStatuses
    <2>2. a.pc = "pending" /\ a.copy = d
      BY <1>4 DEF MAt
    <2> HIDE DEF d
    <2>3. CopyFits("pending", d)'
      BY <1>4, <2>1
         DEF CopyFits, Agrees, Honest, Exists, Reconciling, Creating, Deleting
    <2> QED BY <2>2, <2>3
  <1>5. CASE a = MIdle
    BY <1>5 DEF MIdle
  <1>6. \/ a = MAt("wait", c) \/ a = MAt("kube", c) \/ a = MIdle
        \/ a = MAt("running", [c EXCEPT !.status.state = "RECONCILING"])
        \/ /\ c.status.state = "PENDING"
           /\ \E n \in Names :
                /\ c.status.cluster \in {n, Null}
                /\ a = MAt("pending", [c EXCEPT !.status.state = "CREATING",
                                                !.status.cluster = n])
    BY FirstActionsCases
  <1>7. CASE \E n \in Names :
               /\ c.status.state = "PENDING" /\ c.status.cluster \in {n, Null}
               /\ a = MAt("pending", [c EXCEPT !.status.state = "CREATING",
                                               !.status.cluster = n])
    BY <1>4, <1>7
  <1>8. CASE a = MAt("wait", c) \/ a = MAt("kube", c)
             \/ a = MAt("running", [c EXCEPT !.status.state = "RECONCILING"])
    <2>1. a.pc \in {"wait", "kube", "running"}
      BY <1>8 DEF MAt
    <2> QED BY <1>2, <1>3, <1>8, <2>1
  <1> QED BY <1>5, <1>6, <1>7, <1>8

LEMMA ReconcileStep ==
    ASSUME MagnumTypeOK, Kept, ReconcileMagnumCluster
    PROVE  Kept'
  <1> DEFINE c == mworker.copy
  <1>1. mworker # MIdle /\ mworker.pc = "client"
    BY WorkerCopies DEF ReconcileMagnumCluster
  <1>2. /\ c \in MagnumVersions /\ CopyFits("client", c) /\ Exists /\ magnum \in MagnumVersions
        /\ ~magnum.deleted /\ ~c.deleted /\ Agrees(c) /\ Honest(c)
        /\ c.finalizers \in {<<>>, Ours} /\ (c.finalizers = Ours => magnum.finalizers = Ours)
    BY <1>1, BusyBound DEF CopyFits, Reconciling
  <1>3. CASE DeletionFinalizer \in ToSet(c.finalizers)
    <2>1. PICK a \in FirstActions(c) : MGoes(a)
      BY <1>3 DEF ReconcileMagnumCluster
    <2>2. c.finalizers = Ours
      BY <1>2, <1>3, FinalizerLists
    <2>3. /\ Exists' /\ ~magnum'.deleted /\ magnum'.finalizers = Ours /\ magnum' = magnum
      BY <1>2, <2>1, <2>2 DEF MGoes, Exists
    <2>4. \A d : Agrees(d)' <=> Agrees(d)
      BY <2>3 DEF Agrees
    <2>5. PICK d : d = c
      OBVIOUS
    <2>6. /\ a # MIdle => CopyFits(a.pc, a.copy)'
          /\ a.pc \in {"idle", "pending", "wait", "running", "kube"}
      BY <1>2, <2>1, <2>3, <2>4, <2>5, FirstActionsFit
    <2>7. a # MIdle => CopyFits(a.pc, a.copy)
      BY <2>3, <2>6, FitsKept
    <2>8. /\ mworker' = a
          /\ UNCHANGED <<magnum, mfeeds, inside, mscenario, openstack, kubes>>
      BY <2>1 DEF MGoes, outside
    <2> QED BY <1>1, <2>6, <2>7, <2>8, GoesKeep
  <1>4. CASE DeletionFinalizer \notin ToSet(c.finalizers)
    <2> DEFINE d == [c EXCEPT !.finalizers = Append(@, DeletionFinalizer)]
    <2>1. c.finalizers = <<>>
      BY <1>2, <1>4, FinalizerLists
    <2>2. d.deleted = c.deleted /\ d.status = c.status /\ d.finalizers = Ours
      BY <1>2, <2>1, FinalizerLists DEF MagnumVersions
    <2>3. MGoes(MAt("finalize", d))
      BY <1>4 DEF ReconcileMagnumCluster
    <2> HIDE DEF d
    <2>4. CopyFits("finalize", d)
      BY <1>2, <2>2
         DEF CopyFits, Agrees, Honest, Exists, Reconciling, Creating, Deleting
    <2>5. /\ mworker'.pc = "finalize" /\ mworker'.copy = d
          /\ UNCHANGED <<magnum, mfeeds, inside, mscenario, openstack, kubes>>
      BY <2>3 DEF MGoes, MAt, outside
    <2> QED BY <1>1, <2>4, <2>5, GoesKeep
  <1> QED BY <1>3, <1>4

LEMMA WaitStep ==
    ASSUME MagnumTypeOK, Kept, WaitForRunning
    PROVE  Kept'
  <1> DEFINE c == mworker.copy
  <1>1. mworker # MIdle /\ mworker.pc = "wait"
    BY WorkerCopies DEF WaitForRunning
  <1>2. /\ c \in MagnumVersions /\ CopyFits("wait", c) /\ Exists /\ magnum \in MagnumVersions
        /\ Agrees(c)
    BY <1>1, BusyBound DEF CopyFits, Reconciling
  <1>3. UNCHANGED <<magnum, mfeeds, inside, mscenario, openstack, kubes>>
    BY DEF WaitForRunning, MGoes, outside
  <1>4. CASE ReadIn(c) = "NotFound"
    <2> DEFINE d == [c EXCEPT !.status.cluster_id = Null, !.status.state = "PENDING"]
    <2>1. /\ d.deleted = c.deleted /\ d.finalizers = c.finalizers
          /\ d.status.project = c.status.project /\ d.status.cluster = c.status.cluster
          /\ d.status.cluster_id = Null /\ d.status.state = "PENDING"
      BY <1>2 DEF MagnumVersions, MagnumStatuses
    <2>2. mworker'.pc = "forget" /\ mworker'.copy = d
      BY <1>4 DEF WaitForRunning, MGoes, MAt
    <2> HIDE DEF d
    <2>3. CopyFits("forget", d)
      BY <1>2, <2>1
         DEF CopyFits, Agrees, Honest, Exists, Reconciling, Creating, Deleting
    <2>4. NoneRuns
      BY <1>1, <1>2, <1>4, NotFoundGone DEF Found
    <2> QED BY <1>1, <1>3, <2>2, <2>3, <2>4, GoesKeep
  <1>5. CASE ReadIn(c) \in {"CREATE_FAILED", "UPDATE_FAILED", "DELETE_FAILED"}
    <2>1. mworker' = MFailWith(c)
      BY <1>5 DEF WaitForRunning, MGoes
    <2> QED BY <1>1, <1>3, <2>1, FailFits, GoesKeep
  <1>6. CASE ReadIn(c) \in {"CREATE_COMPLETE", "UPDATE_COMPLETE"}
    <2> DEFINE d == [c EXCEPT !.status.state = "RUNNING",
                              !.status.node_count = openstack[c.status.cluster_id].nodes]
    <2>1. /\ d.deleted = c.deleted /\ d.finalizers = c.finalizers
          /\ d.status.project = c.status.project /\ d.status.cluster = c.status.cluster
          /\ d.status.cluster_id = c.status.cluster_id /\ d.status.state = "RUNNING"
      BY <1>2 DEF MagnumVersions, MagnumStatuses
    <2>2. mworker'.pc = "complete" /\ mworker'.copy = d
      BY <1>6 DEF WaitForRunning, MGoes, MAt
    <2> HIDE DEF d
    <2>3. CopyFits("complete", d)
      BY <1>2, <2>1
         DEF CopyFits, Agrees, Honest, Exists, Reconciling, Creating, Deleting
    <2> QED BY <1>1, <1>3, <2>2, <2>3, GoesKeep
  <1>7. CASE ReadIn(c) = "listing"
    <2>1. mworker' = MIdle
      BY <1>7 DEF WaitForRunning, MGoes
    <2> QED BY <1>1, <1>3, <2>1, GoesKeep
  <1> QED BY <1>4, <1>5, <1>6, <1>7 DEF WaitForRunning

\* The resource of the Kubernetes cluster
LEMMA KubeSteps ==
    ASSUME MagnumTypeOK, Kept, ReconcileKubernetesResource \/ MakeKubeconfig
    PROVE  Kept'
  <1> DEFINE c == mworker.copy
  <1>1. mworker # MIdle /\ mworker.pc \in {"kube", "kubeconfig"}
    BY WorkerCopies DEF ReconcileKubernetesResource, MakeKubeconfig
  <1>2. c \in MagnumVersions /\ CopyFits(mworker.pc, c)
    BY <1>1, BusyBound
  <1>3. UNCHANGED <<magnum, mfeeds, inside, mscenario, openstack, kubes>>
    BY DEF ReconcileKubernetesResource, MakeKubeconfig, MGoes, outside
  <1>4. CopyFits("kubeconfig", c) /\ CopyFits("publish", c)
    BY <1>1, <1>2 DEF CopyFits, Reconciling, Creating, Deleting
  <1>5. CASE ReconcileKubernetesResource
    <2>1. \/ mworker' = MIdle \/ (mworker'.pc = "kubeconfig" /\ mworker'.copy = c)
      BY <1>5 DEF ReconcileKubernetesResource, MGoes
    <2> QED BY <1>1, <1>3, <1>4, <2>1, GoesKeep
  <1>6. CASE MakeKubeconfig
    <2>1. \/ mworker' = MFailWith(c) \/ (mworker'.pc = "publish" /\ mworker'.copy = c)
      BY <1>6, WorkerCopies DEF MakeKubeconfig, MGoes
    <2>2. \/ mworker'.pc = "publish" /\ mworker'.copy = c
          \/ CopyFits(mworker'.pc, mworker'.copy) /\ mworker'.pc = "fail"
      BY <1>1, <2>1, FailFits
    <2> QED BY <1>1, <1>3, <1>4, <2>2, GoesKeep
  <1> QED BY <1>5, <1>6

LEMMA PublishStep ==
    ASSUME MagnumTypeOK, Kept, Publish
    PROVE  Kept'
  <1> DEFINE c == mworker.copy
  <1>1. mworker # MIdle /\ mworker.pc = "publish"
    BY WorkerCopies DEF Publish
  <1>2. Exists /\ ~magnum.deleted /\ Agrees(c)
    BY <1>1, BusyBound DEF CopyFits, Reconciling
  <1>3. UNCHANGED <<magnum, mfeeds, inside, mscenario, openstack>> /\ mworker' = MIdle
    BY DEF Publish
  <1>4. SchedulerFirst' /\ FeedsCurrent' /\ QueueCurrent'
    BY <1>1, <1>3, MovesKeep
  <1>5. CopyCurrent'
    BY <1>3 DEF CopyCurrent
  <1>6. RunsKnown'
    BY <1>1, <1>3 DEF Kept, RunsKnown, Runs, Exists, MIdle
  <1>7. KubesNamed'
    <2>1. \A n \in Names : kubes'[n] # Null => kubes[n] # Null \/ n = c.status.cluster
      BY DEF Publish, MagnumTypeOK
    <2> QED BY <1>2, <1>3, <2>1 DEF Kept, KubesNamed, Exists, Agrees
  <1> QED BY <1>4, <1>5, <1>6, <1>7 DEF Kept

\* A cluster that nothing runs for is released.
LEMMA ReleaseFits ==
    ASSUME MagnumTypeOK, Kept, mworker # MIdle, Exists,
           mworker.pc \in {"read", "leaving"}
    PROVE  /\ CopyFits(Released(mworker.copy).pc, Released(mworker.copy).copy)
           /\ Released(mworker.copy).pc = "release"
  <1> DEFINE c == mworker.copy
             d == [c EXCEPT !.finalizers = RemoveFirst(@, DeletionFinalizer)]
  <1>1. /\ c \in MagnumVersions /\ CopyFits(mworker.pc, c)
    BY BusyBound
  <1>2. c.finalizers = Ours /\ Parting(c) /\ Honest(c) /\ magnum.finalizers = Ours
    BY <1>1 DEF CopyFits, Deleting
  <1>3. d.deleted = c.deleted /\ d.status = c.status /\ d.finalizers = <<>>
    BY <1>1, <1>2, FinalizerLists DEF MagnumVersions
  <1>4. Released(c).pc = "release" /\ Released(c).copy = d
    BY DEF Released, MAt
  <1> HIDE DEF d
  <1>5. CopyFits("release", d)
    BY <1>2, <1>3
       DEF CopyFits, Agrees, Honest, Parting, Leaving, Exists, Reconciling, Creating, Deleting
  <1> QED BY <1>4, <1>5

LEMMA LeavingSteps ==
    ASSUME MagnumTypeOK, Kept, ReadMagnumCluster \/ CreateClient \/ WaitGone
    PROVE  Kept'
  <1> DEFINE c == mworker.copy
  <1>1. mworker # MIdle /\ mworker.pc \in {"read", "delete client", "leaving"}
    BY WorkerCopies DEF ReadMagnumCluster, CreateClient, WaitGone
  <1>2. /\ c \in MagnumVersions /\ CopyFits(mworker.pc, c)
        /\ Exists => magnum.status.project # Null
    BY <1>1, BusyBound
  <1>3. UNCHANGED <<magnum, mfeeds, inside, mscenario, openstack, kubes>>
    BY DEF ReadMagnumCluster, CreateClient, WaitGone, MGoes, outside
  <1>4. Exists => Agrees(c)
    BY <1>1, <1>2 DEF CopyFits, Parting
  <1>5. CASE ReadMagnumCluster
    <2>1. mworker.pc = "read"
      BY <1>5 DEF ReadMagnumCluster
    <2>2. \/ mworker' = MIdle
          \/ Exists /\ mworker' = MAt("delete client", c)
          \/ /\ Exists /\ mworker' = Released(c)
             /\ ~(c.status.project # Null /\ c.status.state # "PENDING")
      <3> DEFINE client == magnum # Null /\ c.status.project # Null /\ c.status.state # "PENDING"
      <3>1. mworker' = CASE magnum = Null -> MIdle [] client -> MAt("delete client", c)
                         [] OTHER -> Released(c)
        BY <1>5 DEF ReadMagnumCluster, MGoes
      <3>2. /\ magnum = Null => mworker' = MIdle
            /\ client => mworker' = MAt("delete client", c)
            /\ magnum # Null /\ ~client => mworker' = Released(c)
        BY <3>1, Zenon
      <3> QED BY <3>2 DEF Exists
    <2>3. CASE mworker' = MIdle
      BY <1>1, <1>3, <2>1, <2>3, GoesKeep
    <2>4. CASE Exists /\ mworker' = MAt("delete client", c)
      <3>1. mworker'.pc = "delete client" /\ mworker'.copy = c
        BY <2>4 DEF MAt
      <3>2. CopyFits("delete client", c)
        BY <1>2, <2>1, <2>4 DEF CopyFits, Reconciling, Creating, Deleting, Parting
      <3> QED BY <1>1, <1>3, <2>1, <3>1, <3>2, GoesKeep
    <2>5. CASE /\ Exists /\ mworker' = Released(c)
               /\ ~(c.status.project # Null /\ c.status.state # "PENDING")
      <3>1. c.status.project # Null /\ c.status.state = "PENDING" /\ c.status.cluster_id = Null
        BY <1>2, <1>4, <2>5 DEF Agrees, CopyFits, Honest
      <3>2. NoneRuns
        BY <1>4, <2>1, <2>5, <3>1 DEF Kept, RunsKnown, NoneRuns, Agrees, Runs
      <3>3. CopyFits(mworker'.pc, mworker'.copy) /\ mworker'.pc = "release"
        BY <1>1, <2>1, <2>5, ReleaseFits
      <3> QED BY <1>1, <1>3, <2>1, <3>2, <3>3, GoesKeep
    <2> QED BY <2>2, <2>3, <2>4, <2>5
  <1>6. CASE CreateClient
    <2>1. mworker.pc = "delete client" /\ mworker'.pc \in {"leaving", "delete"} /\ mworker'.copy = c
      BY <1>6 DEF CreateClient, MGoes, MAt
    <2>2. CopyFits(mworker'.pc, c)
      BY <1>2, <2>1 DEF CopyFits, Reconciling, Creating, Deleting
    <2> QED BY <1>1, <1>3, <2>1, <2>2, GoesKeep
  <1>7. CASE WaitGone
    <2>1. mworker.pc = "leaving" /\ Exists
      BY <1>2, <1>7 DEF WaitGone, CopyFits
    <2>2. CASE ~Found(c) /\ mworker' = Released(c)
      <3>1. NoneRuns
        BY <1>1, <1>4, <2>1, <2>2, NotFoundGone
      <3>2. CopyFits(mworker'.pc, mworker'.copy) /\ mworker'.pc = "release"
        BY <1>1, <2>1, <2>2, ReleaseFits
      <3> QED BY <1>1, <1>3, <2>1, <3>1, <3>2, GoesKeep
    <2>3. CASE mworker' = MFailWith(c)
      <3>1. CopyFits(mworker'.pc, mworker'.copy) /\ mworker'.pc = "fail"
        BY <1>1, <2>1, <2>3, FailFits
      <3> QED BY <1>1, <1>3, <2>1, <3>1, GoesKeep
    <2>4. CASE mworker' = MIdle
      BY <1>1, <1>3, <2>1, <2>4, GoesKeep
    <2> QED BY <1>7, <2>2, <2>3, <2>4 DEF WaitGone, MGoes, Found
  <1> QED BY <1>5, <1>6, <1>7

LEMMA ErrorStep ==
    ASSUME MagnumTypeOK, Kept, OpenstackError
    PROVE  Kept'
  <1>1. /\ mworker # MIdle
        /\ mworker.pc \in {"client", "create", "resize", "wait", "kubeconfig", "delete client",
                           "delete", "leaving"}
    BY WorkerCopies DEF OpenstackError
  <1>2. /\ mworker' = MFailWith(mworker.copy)
        /\ UNCHANGED <<magnum, mfeeds, inside, mscenario, openstack, kubes>>
    BY DEF OpenstackError
  <1>3. CopyFits(mworker'.pc, mworker'.copy) /\ mworker'.pc = "fail"
    BY <1>1, <1>2, FailFits
  <1> QED BY <1>1, <1>2, <1>3, GoesKeep

\* The handler goes on after OpenStack changed a cluster that runs.
LEMMA OpenstackMovesKeep ==
    ASSUME MagnumTypeOK, Kept, mworker # MIdle, mworker.pc # "created",
           UNCHANGED <<magnum, mfeeds, inside, mscenario, kubes>>,
           \A i \in Ids : Runs(i)' => Runs(i) /\ openstack'[i].project = openstack[i].project,
           mworker' # MIdle, mworker'.pc \notin {"created", "forget", "release"},
           CopyFits(mworker'.pc, mworker'.copy)
    PROVE  Kept'
  <1>1. SchedulerFirst' /\ FeedsCurrent' /\ QueueCurrent'
    BY MovesKeep
  <1>2. CopyCurrent'
    <2>1. PICK pc, c : pc = mworker'.pc /\ c = mworker'.copy
      OBVIOUS
    <2>2. CopyFits(pc, c)'
      BY <2>1, FitsKept
    <2> QED BY <2>1, <2>2 DEF CopyCurrent
  <1>3. RunsKnown'
    BY DEF Kept, RunsKnown, Exists
  <1>4. KubesNamed'
    BY DEF Kept, KubesNamed, Exists
  <1> QED BY <1>1, <1>2, <1>3, <1>4 DEF Kept

LEMMA ResizeStep ==
    ASSUME MagnumTypeOK, Kept, ResizeMagnumCluster
    PROVE  Kept'
  <1> DEFINE c == mworker.copy
  <1>1. mworker # MIdle /\ mworker.pc = "resize"
    BY WorkerCopies DEF ResizeMagnumCluster
  <1>2. c \in MagnumVersions /\ CopyFits("resize", c)
    BY <1>1, BusyBound
  <1>3. CASE mworker' = MAt("wait", c) /\ ResizeTo(c.node_count, c.status.cluster_id)
    <2>1. \A i \in Ids : Runs(i)' => Runs(i) /\ openstack'[i].project = openstack[i].project
      BY <1>3 DEF ResizeTo, Runs, MagnumTypeOK, OpenstackClusters
    <2>2. mworker'.pc = "wait" /\ mworker'.copy = c
      BY <1>3 DEF MAt
    <2>3. CopyFits("wait", c)
      BY <1>2 DEF CopyFits, Reconciling, Creating, Deleting
    <2>4. mworker' # MIdle
      BY <2>2 DEF MIdle
    <2>5. UNCHANGED <<magnum, mfeeds, inside, mscenario, kubes>>
      BY DEF ResizeMagnumCluster
    <2> QED BY <1>1, <2>1, <2>2, <2>3, <2>4, <2>5, OpenstackMovesKeep
  <1>4. CASE mworker' = MFailWith(c) /\ UNCHANGED openstack
    <2>1. CopyFits(mworker'.pc, mworker'.copy) /\ mworker'.pc = "fail"
      BY <1>1, <1>4, FailFits
    <2> QED BY <1>1, <1>4, <2>1, GoesKeep DEF ResizeMagnumCluster
  <1> QED BY <1>3, <1>4 DEF ResizeMagnumCluster

LEMMA DeleteStep ==
    ASSUME MagnumTypeOK, Kept, DeleteMagnumCluster
    PROVE  Kept'
  <1> DEFINE c == mworker.copy
             d == [c EXCEPT !.status.state = "DELETING"]
  <1>1. mworker # MIdle /\ mworker.pc = "delete"
    BY WorkerCopies DEF DeleteMagnumCluster
  <1>2. c \in MagnumVersions /\ CopyFits("delete", c)
    BY <1>1, BusyBound
  <1>3. /\ d.deleted = c.deleted /\ d.finalizers = c.finalizers
        /\ d.status.project = c.status.project /\ d.status.cluster = c.status.cluster
        /\ d.status.cluster_id = c.status.cluster_id /\ d.status.state = "DELETING"
    BY <1>2 DEF MagnumVersions, MagnumStatuses
  <1>4. \/ mworker' = MAt("deleting", d)
        \/ mworker' = MFailWith(c) /\ UNCHANGED openstack
    BY DEF DeleteMagnumCluster, Found
  <1> HIDE DEF d
  <1>5. UNCHANGED <<magnum, mfeeds, inside, mscenario, kubes>>
    BY DEF DeleteMagnumCluster
  <1>6. CASE mworker' = MAt("deleting", d)
    <2>1. mworker'.pc = "deleting" /\ mworker'.copy = d
      BY <1>6 DEF MAt
    <2>2. CopyFits("deleting", d)
      BY <1>2, <1>3
         DEF CopyFits, Agrees, Honest, Parting, Leaving, Exists, Reconciling, Creating,
             Deleting
    <2>3. \A i \in Ids : Runs(i)' => Runs(i) /\ openstack'[i].project = openstack[i].project
      BY DEF DeleteMagnumCluster, DeleteIn, Runs, MagnumTypeOK, OpenstackClusters
    <2>4. mworker' # MIdle
      BY <2>1 DEF MIdle
    <2> QED BY <1>1, <1>5, <2>1, <2>2, <2>3, <2>4, OpenstackMovesKeep
  <1>7. CASE mworker' = MFailWith(c) /\ UNCHANGED openstack
    <2>1. CopyFits(mworker'.pc, mworker'.copy) /\ mworker'.pc = "fail"
      BY <1>1, <1>7, FailFits
    <2> QED BY <1>1, <1>5, <1>7, <2>1, GoesKeep
  <1> QED BY <1>4, <1>6, <1>7

\* A cluster is created when none runs, and under the finalizer.
LEMMA CreateStep ==
    ASSUME MagnumTypeOK, Kept, mbudget["lost"] = 0, CreateMagnumCluster
    PROVE  Kept'
  <1> DEFINE c == mworker.copy
  <1>1. mworker # MIdle /\ mworker.pc = "create"
    BY WorkerCopies DEF CreateMagnumCluster
  <1>2. c \in MagnumVersions /\ CopyFits("create", c)
    BY <1>1, BusyBound
  <1>3. CASE mworker' = MFailWith(c) /\ UNCHANGED <<openstack, mbudget>>
    <2>1. CopyFits(mworker'.pc, mworker'.copy) /\ mworker'.pc = "fail"
      BY <1>1, <1>3, FailFits
    <2> QED BY <1>1, <1>3, <2>1, GoesKeep DEF CreateMagnumCluster
  <1>4. ASSUME NEW id \in Ids, CreateIn(c.status.project, c.node_count, id),
               mworker' = MAt("created", [c EXCEPT !.status.cluster_id = id])
        PROVE  Kept'
    <2> DEFINE d == [c EXCEPT !.status.cluster_id = id]
    <2>1. /\ d.deleted = c.deleted /\ d.finalizers = c.finalizers
          /\ d.status.project = c.status.project /\ d.status.cluster = c.status.cluster
          /\ d.status.cluster_id = id /\ d.status.state = c.status.state
      BY <1>2 DEF MagnumVersions, MagnumStatuses
    <2>2. mworker'.pc = "created" /\ mworker'.copy = d
      BY <1>4 DEF MAt
    <2> HIDE DEF d
    <2>3. UNCHANGED <<magnum, mfeeds, inside, mscenario, kubes>>
      BY DEF CreateMagnumCluster
    <2>4. c.status.state = "CREATING"
      BY <1>2 DEF CopyFits, Creating
    <2>5. CopyFits("created", d)
      BY <1>2, <2>1, <2>4
         DEF CopyFits, Agrees, Honest, Exists, Reconciling, Creating, Deleting
    <2>6. CopyCurrent'
      <3>1. PICK e : e = d
        OBVIOUS
      <3>2. CopyFits("created", e)'
        BY <2>3, <2>5, <3>1, FitsKept
      <3> QED BY <2>2, <3>1, <3>2 DEF CopyCurrent
    <2>7. SchedulerFirst' /\ FeedsCurrent' /\ QueueCurrent'
      BY <1>1, <2>3, MovesKeep
    <2>8. NoneRuns
      BY <1>1, <1>2 DEF Kept, RunsKnown, NoneRuns, CopyFits, Creating, Runs
    <2>9. \A i \in Ids : Runs(i)' => i = id
      BY <1>4, <2>8 DEF CreateIn, Runs, NoneRuns, MagnumTypeOK
    <2>10. openstack'[id].project = c.status.project
      BY <1>4 DEF CreateIn, MagnumTypeOK
    <2>11. Exists /\ magnum.finalizers = Ours /\ c.status.project = magnum.status.project
      BY <1>2 DEF CopyFits, Reconciling, Creating
    <2>12. RunsKnown'
      BY <2>1, <2>2, <2>3, <2>9, <2>10, <2>11 DEF RunsKnown, Exists
    <2>13. KubesNamed'
      BY <2>3 DEF Kept, KubesNamed, Exists
    <2> QED BY <2>6, <2>7, <2>12, <2>13 DEF Kept
  <1>5. ~MSpend("lost")
    BY DEF MSpend
  <1> QED BY <1>3, <1>4, <1>5 DEF CreateMagnumCluster

\* OpenStack by itself only ends what runs.
LEMMA OpenstackStep ==
    ASSUME MagnumTypeOK, Kept, NEW id \in Ids, Completes(id) \/ Breaks(id)
    PROVE  Kept'
  <1>1. /\ \A i \in Ids : openstack'[i].project = openstack[i].project
        /\ \A i \in Ids : Runs(i)' => Runs(i)
        /\ UNCHANGED <<magnum, mfeeds, squeue, sworker, mqueue, mworker, kubes, mscenario>>
    BY OpenstackTyped DEF Runs, inside
  <1>2. SchedulerFirst' /\ FeedsCurrent'
    BY <1>1 DEF Kept, SchedulerFirst, FeedsCurrent, Exists, Leaving, Honest, Parting, Agrees,
                Blank
  <1>3. QueueCurrent'
    BY <1>1 DEF Kept, QueueCurrent, Exists, Leaving, Honest, Releasing, Parting, Agrees
  <1>4. CopyCurrent'
    <2>1. PICK pc, c : pc = mworker.pc /\ c = mworker.copy
      OBVIOUS
    <2> QED BY <1>1, <2>1, FitsKept DEF Kept, CopyCurrent
  <1>5. RunsKnown'
    BY <1>1 DEF Kept, RunsKnown, Exists
  <1>6. KubesNamed'
    BY <1>1 DEF Kept, KubesNamed, Exists
  <1> QED BY <1>2, <1>3, <1>4, <1>5, <1>6 DEF Kept

\* The version that is fetched tells what the database has: all that is under way has
\* arrived.
LEMMA ConsumeStep ==
    ASSUME MagnumTypeOK, Kept, Consume, squeue = Null, sworker = MIdle,
           \A k \in Watches : mfeeds[k] = <<>>
    PROVE  Kept'
  <1> DEFINE c == mqueue.dirty
  <1>1. /\ mworker = MIdle /\ c # Null /\ c \in MagnumVersions
        /\ mworker'.pc = (IF c.deleted THEN "read" ELSE "client") /\ mworker'.copy = c
        /\ mqueue' = [mqueue EXCEPT !.dirty = Null]
        /\ UNCHANGED <<magnum, mfeeds, squeue, sworker, openstack, kubes, mscenario>>
    BY DEF Consume, MagnumTypeOK, MAt, outside
  <1>2. mqueue'.dirty = Null /\ mqueue'.timer = mqueue.timer
    BY <1>1 DEF MagnumTypeOK
  <1>3. Exists => magnum.status.project # Null
    BY <1>1 DEF Kept, SchedulerFirst
  <1>4. SchedulerFirst'
    <2>1. sworker' = MIdle /\ sworker'.pc # "none" /\ squeue' = Null
      BY <1>1 DEF MIdle
    <2>2. Exists' => magnum'.status.project # Null /\ mscenario'.projects # {}
      BY <1>1, <1>3 DEF Kept, SchedulerFirst, Exists
    <2> QED BY <2>1, <2>2 DEF SchedulerFirst
  <1>5. FeedsCurrent'
    BY <1>1 DEF Kept, FeedsCurrent, Exists, Leaving, Honest, Parting, Agrees
  <1>6. QueueCurrent'
    BY <1>1, <1>2 DEF Kept, QueueCurrent, Exists, Leaving, Honest, Releasing, Parting, Agrees
  <1>7. CopyCurrent'
    <2>1. CopyFits(mworker'.pc, c)
      <3>1. CASE Leaving \/ ~Exists
        <4>1. Releasing(c) /\ Honest(c)
          BY <1>1, <3>1 DEF Kept, QueueCurrent
        <4>2. mworker'.pc = "read"
          BY <1>1, <4>1 DEF Releasing, Parting
        <4> QED BY <4>1, <4>2 DEF CopyFits, Releasing, Reconciling, Creating, Deleting
      <3>2. CASE Exists /\ ~magnum.deleted
        <4>1. /\ ~c.deleted /\ c.finalizers \in {<<>>, Ours} /\ Honest(c) /\ Agrees(c)
              /\ c.finalizers = Ours => magnum.finalizers = Ours
          BY <1>1, <3>2 DEF Kept, QueueCurrent, Watches
        <4>2. mworker'.pc = "client"
          BY <1>1, <4>1
        <4> QED BY <3>2, <4>1, <4>2
                DEF CopyFits, Reconciling, Creating, Deleting, Agrees
      <3> QED BY <3>1, <3>2 DEF Leaving
    <2>2. PICK pc, d : pc = mworker'.pc /\ d = c
      OBVIOUS
    <2>3. CopyFits(pc, d)'
      BY <1>1, <2>1, <2>2, FitsKept
    <2> QED BY <1>1, <2>2, <2>3 DEF CopyCurrent
  <1>8. RunsKnown'
    <2>1. mworker.pc # "created" /\ mworker'.pc \notin {"created", "forget", "release"}
      BY <1>1 DEF MIdle
    <2> QED BY <1>1, <2>1 DEF Kept, RunsKnown, Runs, Exists
  <1>9. KubesNamed'
    BY <1>1 DEF Kept, KubesNamed, Exists
  <1> QED BY <1>4, <1>5, <1>6, <1>7, <1>8, <1>9 DEF Kept

\* A version that is written when nothing is under way is all that is.
LEMMA WriteArrives ==
    ASSUME MagnumTypeOK, NEW v \in MagnumVersions, Put(v), \A k \in Watches : mfeeds[k] = <<>>
    PROVE  /\ magnum' = v /\ Exists'
           /\ \A k \in Watches : mfeeds'[k] = <<v>>
           /\ \A k \in Watches : \A i \in DOMAIN mfeeds'[k] : mfeeds'[k][i] = v
           /\ mfeeds'["magnum"] # <<>>
  <1>1. /\ magnum' = v /\ magnum' # Null
        /\ \A k \in Watches : mfeeds'[k] = <<v>>
    BY PutTyped
  <1>2. \A i \in DOMAIN <<v>> : <<v>>[i] = v
    OBVIOUS
  <1>3. <<v>> # <<>>
    OBVIOUS
  <1> QED BY <1>1, <1>2, <1>3 DEF Exists, Watches

\* The status that the handler saves, and where it goes on.
LEMMA SaveStatusKeeps ==
    ASSUME MagnumTypeOK, Kept, mworker # MIdle, \A k \in Watches : mfeeds[k] = <<>>,
           NEW next, MSaveStatus(mworker.copy, next),
           \/ mworker.pc = "pending" /\ next = MAt("create", mworker.copy)
           \/ mworker.pc = "created" /\ next = MAt("wait", mworker.copy)
           \/ mworker.pc = "running" /\ next = MAt("resize", mworker.copy)
           \/ mworker.pc = "complete" /\ next = MAt("kube", mworker.copy)
           \/ mworker.pc = "deleting" /\ next = MAt("leaving", mworker.copy)
           \/ mworker.pc \in {"forget", "fail"} /\ next = MIdle
    PROVE  Kept'
  <1> DEFINE c == mworker.copy
             v == [magnum EXCEPT !.status = c.status]
  <1>1. /\ squeue = Null /\ sworker = MIdle /\ c \in MagnumVersions
        /\ CopyFits(mworker.pc, c)
        /\ Exists => magnum \in MagnumVersions /\ magnum.status.project # Null
    BY BusyBound
  <1>2. Exists /\ magnum \in MagnumVersions
    BY <1>1 DEF CopyFits
  <1>3. /\ Put(v) /\ mworker' = next
        /\ UNCHANGED <<squeue, sworker, mqueue, openstack, kubes, mscenario>>
    BY <1>2 DEF MSaveStatus, Asks, UpdateMagnumStatus, Exists, inside, outside
  <1>4. /\ v \in MagnumVersions /\ v.deleted = magnum.deleted
        /\ v.finalizers = magnum.finalizers /\ v.status = c.status
    BY <1>1, <1>2, VersionsTyped DEF MagnumVersions
  <1> HIDE DEF v
  <1>5. /\ magnum' = v /\ Exists'
        /\ \A k \in Watches : mfeeds'[k] = <<v>>
        /\ \A k \in Watches : \A i \in DOMAIN mfeeds'[k] : mfeeds'[k][i] = v
        /\ mfeeds'["magnum"] # <<>>
    BY <1>3, <1>4, WriteArrives
  <1>6. c.status.project = magnum.status.project
    BY <1>1 DEF CopyFits, Reconciling, Creating, Agrees
  <1>7. \/ Agrees(c)
        \/ ~magnum.deleted /\ c.status.state # "FAILED" /\ mworker.pc \in {"pending", "created", "forget"}
    BY <1>1 DEF CopyFits, Reconciling, Creating
  <1>8. SchedulerFirst'
    <2>1. squeue' = Null /\ sworker' = MIdle /\ sworker'.pc # "none"
      BY <1>1, <1>3 DEF MIdle
    <2>2. magnum'.status.project # Null /\ mscenario'.projects # {}
      BY <1>1, <1>2, <1>3, <1>4, <1>5, <1>6 DEF Kept, SchedulerFirst
    <2> QED BY <2>1, <2>2 DEF SchedulerFirst
  <1>9. FeedsCurrent'
    <2>1. Honest(v)
      BY <1>1, <1>4 DEF CopyFits, Honest
    <2>2. ~magnum.deleted => magnum.finalizers \in {<<>>, Ours}
      BY <1>2 DEF Kept, FeedsCurrent
    <2>3. magnum.deleted => magnum.finalizers \in {Ours, <<CascadeFinalizer>>,
                                                   <<DeletionFinalizer, CascadeFinalizer>>}
      BY <1>2 DEF Kept, FeedsCurrent, Leaving
    <2> QED BY <1>4, <1>5, <2>1, <2>2, <2>3
            DEF FeedsCurrent, Leaving, Exists, Parting, Agrees, Honest
  <1>10. QueueCurrent'
    <2>1. ASSUME Agrees(c), NEW d, Agrees(d) PROVE Agrees(d)'
      BY <1>4, <1>5, <2>1 DEF Agrees
    <2>2. ASSUME mqueue.dirty # Null
          PROVE  /\ Honest(mqueue.dirty)
                 /\ Leaving => Releasing(mqueue.dirty)
                 /\ ~magnum.deleted =>
                      /\ ~mqueue.dirty.deleted /\ mqueue.dirty.status.project # Null
                      /\ mqueue.dirty.finalizers \in {<<>>, Ours}
                      /\ mqueue.dirty.finalizers = Ours => magnum.finalizers = Ours
                      /\ Agrees(mqueue.dirty)
      BY <1>2, <2>2 DEF Kept, QueueCurrent, Watches
    <2>3. mqueue.timer # Null => Honest(mqueue.timer) /\ Releasing(mqueue.timer)
      BY DEF Kept, QueueCurrent
    <2>4. PICK d, t : d = mqueue.dirty /\ t = mqueue.timer
      OBVIOUS
    <2>5. CASE Agrees(c)
      <3>1. d # Null => (Agrees(d) => Agrees(d)')
        BY <2>1, <2>5
      <3>2. t # Null => (Agrees(t) => Agrees(t)')
        BY <2>1, <2>5
      <3>3. ASSUME t # Null PROVE Honest(t)' /\ Releasing(t)'
        BY <1>2, <1>4, <1>5, <2>3, <2>4, <3>2, <3>3 DEF Releasing, Parting, Exists, Honest
      <3>4. ASSUME d # Null, Leaving PROVE Honest(d)' /\ Releasing(d)'
        BY <1>2, <1>4, <1>5, <2>2, <2>4, <3>1, <3>4 DEF Releasing, Parting, Exists, Honest
      <3>5. ASSUME d # Null, ~magnum.deleted
            PROVE  /\ Honest(d)' /\ ~d.deleted /\ d.status.project # Null
                   /\ d.finalizers \in {<<>>, Ours}
                   /\ d.finalizers = Ours => magnum'.finalizers = Ours
                   /\ Agrees(d)'
        BY <1>4, <1>5, <2>2, <2>4, <3>1, <3>5 DEF Honest
      <3>6. mqueue'.dirty = d /\ mqueue'.timer = t
        BY <1>3, <2>4
      <3>7. (Leaving <=> magnum'.deleted) /\ Exists' /\ (Leaving' <=> magnum'.deleted)
        BY <1>2, <1>4, <1>5 DEF Leaving
      <3> QED BY <1>4, <1>5, <3>3, <3>4, <3>5, <3>6, <3>7 DEF QueueCurrent
    <2>6. CASE ~magnum.deleted /\ c.status.state # "FAILED"
      <3>1. t = Null
        BY <1>2, <2>3, <2>4, <2>6 DEF Releasing, Parting
      <3>2. mqueue'.dirty = d /\ mqueue'.timer = t
        BY <1>3, <2>4
      <3>3. Exists' /\ ~magnum'.deleted /\ ~Leaving' /\ magnum'.status.state # "FAILED"
        BY <1>4, <1>5, <2>6 DEF Leaving
      <3>4. ASSUME d # Null
            PROVE  /\ Honest(d)' /\ ~d.deleted /\ d.status.project # Null
                   /\ d.finalizers \in {<<>>, Ours}
                   /\ d.finalizers = Ours => magnum'.finalizers = Ours
        BY <1>4, <1>5, <2>2, <2>4, <2>6, <3>4 DEF Honest
      <3> QED BY <1>5, <3>1, <3>2, <3>3, <3>4 DEF QueueCurrent
    <2> QED BY <1>7, <2>5, <2>6
  <1>11. CopyCurrent'
    <2>1. PICK d : d = c
      OBVIOUS
    <2>2. Agrees(d)'
      BY <1>4, <1>5, <2>1 DEF Agrees
    <2>3. ASSUME NEW pc \in {"create", "wait", "resize", "kube"}, next = MAt(pc, c),
                 pc = "create" => mworker.pc = "pending",
                 mworker.pc \in {"pending", "created", "running", "complete"}
          PROVE  CopyCurrent'
      <3>1. mworker'.pc = pc /\ mworker'.copy = d
        BY <1>3, <2>1, <2>3 DEF MAt
      <3>2. /\ ~magnum'.deleted /\ magnum'.finalizers = Ours /\ ~d.deleted
            /\ d.finalizers \in {<<>>, Ours} /\ Honest(d)'
        BY <1>1, <1>4, <1>5, <2>1, <2>3 DEF CopyFits, Reconciling, Creating, Honest
      <3>3. pc = "create" => d.status.cluster_id = Null /\ d.status.state = "CREATING"
        BY <1>1, <2>1, <2>3 DEF CopyFits, Creating
      <3>4. CopyFits(pc, d)'
        BY <1>5, <2>2, <2>3, <3>2, <3>3
           DEF CopyFits, Agrees, Reconciling, Creating, Deleting
      <3> QED BY <3>1, <3>4 DEF CopyCurrent
    <2>4. CASE mworker.pc = "deleting" /\ next = MAt("leaving", c)
      <3>1. mworker'.pc = "leaving" /\ mworker'.copy = d
        BY <1>3, <2>1, <2>4 DEF MAt
      <3>2. /\ magnum'.deleted /\ magnum'.finalizers = Ours /\ d.deleted
            /\ d.finalizers = Ours /\ Honest(d)'
        BY <1>1, <1>2, <1>4, <1>5, <2>1, <2>4 DEF CopyFits, Deleting, Honest, Parting
      <3>3. CopyFits("leaving", d)'
        BY <1>5, <2>2, <3>2 DEF CopyFits, Parting, Reconciling, Creating, Deleting
      <3> QED BY <3>1, <3>3 DEF CopyCurrent
    <2>5. CASE next = MIdle
      BY <1>3, <2>5 DEF CopyCurrent
    <2> QED BY <2>3, <2>4, <2>5
  <1>12. RunsKnown'
    <2>1. \A i \in Ids : Runs(i)' => Runs(i) /\ openstack'[i] = openstack[i]
      BY <1>3 DEF Runs
    <2>2. mworker'.pc \notin {"created", "forget", "release"}
      BY <1>3 DEF MAt, MIdle
    <2>3. \A i \in Ids : Runs(i) => i = c.status.cluster_id
      <3>1. CASE mworker.pc = "created"
        BY <3>1 DEF Kept, RunsKnown
      <3>2. CASE mworker.pc # "created" /\ Agrees(c)
        BY <3>2 DEF Kept, RunsKnown, Agrees
      <3>3. CASE mworker.pc \in {"pending", "forget"}
        BY <1>1, <3>3 DEF Kept, RunsKnown, CopyFits, Creating
      <3> QED BY <1>7, <3>1, <3>2, <3>3
    <2> QED BY <1>4, <1>5, <1>6, <2>1, <2>2, <2>3 DEF Kept, RunsKnown
  <1>13. KubesNamed'
    <2>1. \A n \in Names : n = magnum.status.cluster => n = c.status.cluster
      BY <1>1, <1>7, MagnumAssumption DEF CopyFits, Agrees
    <2> QED BY <1>3, <1>4, <1>5, <2>1 DEF Kept, KubesNamed
  <1> QED BY <1>8, <1>9, <1>10, <1>11, <1>12, <1>13 DEF Kept

LEMMA SaveStatusSteps ==
    ASSUME MagnumTypeOK, Kept, \A k \in Watches : mfeeds[k] = <<>>,
           OnPending \/ SaveId \/ OnRunning \/ SaveWaited \/ SaveMagnumDeleting \/ ProcessCluster
    PROVE  Kept'
  <1>1. mworker # MIdle
    BY WorkerCopies DEF OnPending, SaveId, OnRunning, SaveWaited, SaveMagnumDeleting,
       ProcessCluster
  <1> QED BY <1>1, SaveStatusKeeps
          DEF OnPending, SaveId, OnRunning, SaveWaited, SaveMagnumDeleting, ProcessCluster

\* The finalizer is saved before anything is created.
LEMMA FinalizeStep ==
    ASSUME MagnumTypeOK, Kept, \A k \in Watches : mfeeds[k] = <<>>, MFinalize
    PROVE  Kept'
  <1> DEFINE c == mworker.copy
             v == [c EXCEPT !.deleted = magnum.deleted, !.status = magnum.status]
  <1>1. mworker # MIdle /\ mworker.pc = "finalize"
    BY WorkerCopies DEF MFinalize
  <1>2. /\ squeue = Null /\ sworker = MIdle /\ c \in MagnumVersions
        /\ CopyFits("finalize", c)
        /\ Exists => magnum \in MagnumVersions /\ magnum.status.project # Null
    BY <1>1, BusyBound
  <1>3. /\ Exists /\ magnum \in MagnumVersions /\ ~magnum.deleted
        /\ ~c.deleted /\ c.finalizers = Ours /\ Agrees(c) /\ Honest(c)
    BY <1>2 DEF CopyFits, Reconciling
  <1>4. PICK a \in FirstActions(c) :
          \/ SaveMagnum(mworker', c, a)
          \/ SaveMagnumAgain(mworker', c, a)
    BY DEF MFinalize
  <1>5. UNCHANGED <<squeue, sworker, mqueue, openstack, kubes, mscenario>>
    BY DEF MFinalize, inside, outside
  <1>6. CASE mworker' = MIdle /\ UNCHANGED <<magnum, mfeeds>>
    BY <1>1, <1>5, <1>6, GoesKeep DEF inside
  <1>7. CASE mworker' = a /\ Put(v)
    <2>1. /\ v \in MagnumVersions /\ ~v.deleted /\ v.finalizers = Ours
          /\ v.status = magnum.status
      BY <1>2, <1>3, VersionsTyped DEF MagnumVersions
    <2> HIDE DEF v
    <2>2. /\ magnum' = v /\ Exists'
          /\ \A k \in Watches : mfeeds'[k] = <<v>>
          /\ mfeeds'["magnum"] # <<>>
      BY <1>7, <2>1, WriteArrives
    <2>3. \A d : (Agrees(d)' <=> Agrees(d)) /\ (Honest(d)' <=> Honest(d))
      BY <2>1, <2>2 DEF Agrees, Honest
    <2>4. SchedulerFirst'
      <3>1. squeue' = Null /\ sworker' = MIdle /\ sworker'.pc # "none"
        BY <1>2, <1>5 DEF MIdle
      <3>2. magnum'.status.project # Null /\ mscenario'.projects # {}
        BY <1>2, <1>3, <1>5, <2>1, <2>2 DEF Kept, SchedulerFirst
      <3> QED BY <3>1, <3>2 DEF SchedulerFirst
    <2>5. FeedsCurrent'
      BY <1>3, <2>1, <2>2 DEF Kept, FeedsCurrent, Leaving, Honest
    <2>6. QueueCurrent'
      <3>1. mqueue.timer = Null
        BY <1>3 DEF Kept, QueueCurrent, Releasing, Parting
      <3>2. ASSUME mqueue.dirty # Null
            PROVE  /\ Honest(mqueue.dirty) /\ ~mqueue.dirty.deleted
                   /\ mqueue.dirty.status.project # Null
                   /\ mqueue.dirty.finalizers \in {<<>>, Ours} /\ Agrees(mqueue.dirty)
        BY <1>3, <3>2 DEF Kept, QueueCurrent, Watches
      <3>3. PICK d : d = mqueue.dirty
        OBVIOUS
      <3>4. d # Null => Honest(d)' /\ Agrees(d)'
        BY <2>3, <3>2, <3>3
      <3>5. mqueue'.dirty = d /\ mqueue'.timer = Null
        BY <1>5, <3>1, <3>3
      <3> QED BY <2>1, <2>2, <3>2, <3>3, <3>4, <3>5 DEF QueueCurrent, Leaving
    <2>7. PICK e : e = c
      OBVIOUS
    <2>8. /\ a # MIdle => CopyFits(a.pc, a.copy)'
          /\ a.pc \in {"idle", "pending", "wait", "running", "kube"}
      <3>1. /\ Exists' /\ ~magnum'.deleted /\ magnum'.finalizers = Ours
            /\ Agrees(e)' /\ Honest(e) /\ ~e.deleted /\ e.finalizers \in {<<>>, Ours}
            /\ e \in MagnumVersions /\ a \in FirstActions(e)
        BY <1>2, <1>3, <1>4, <2>1, <2>2, <2>3, <2>7
      <3> QED BY <3>1, FirstActionsFit
    <2>9. CopyCurrent'
      BY <1>7, <2>8 DEF CopyCurrent
    <2>10. RunsKnown'
      <3>1. \A i \in Ids : Runs(i)' => Runs(i) /\ openstack'[i] = openstack[i]
        BY <1>5 DEF Runs
      <3> QED BY <1>1, <1>7, <2>1, <2>2, <2>8, <3>1 DEF Kept, RunsKnown
    <2>11. KubesNamed'
      BY <1>5, <2>1, <2>2 DEF Kept, KubesNamed
    <2> QED BY <2>4, <2>5, <2>6, <2>9, <2>10, <2>11 DEF Kept
  <1>8. \/ mworker' = MIdle /\ UNCHANGED <<magnum, mfeeds>>
        \/ mworker' = a /\ Put(v)
    BY <1>3, <1>4 DEF SaveMagnum, SaveMagnumAgain, Asks, Unfinalizable, UpdateMagnumCluster, Exists
  <1> QED BY <1>6, <1>7, <1>8

\* The end of a cluster for which nothing is left.
LEMMA EndKeeps ==
    ASSUME MagnumTypeOK, Kept, Leaving, NoneRuns, \A n \in Names : kubes[n] = Null,
           magnum' = Null, mworker' = MIdle,
           mfeeds' = [mfeeds EXCEPT !["magnum"] = Append(@, magnum)],
           UNCHANGED <<inside, openstack, kubes, mscenario>>
    PROVE  Kept'
  <1>1. squeue = Null /\ sworker = MIdle /\ Exists /\ magnum.deleted /\ magnum \in MagnumVersions
    BY DEF Kept, SchedulerFirst, Blank, Leaving, MagnumTypeOK, DatabaseTyped, Exists
  <1>2. UNCHANGED <<squeue, sworker, mqueue>> /\ ~Exists' /\ ~Leaving'
    BY DEF inside, Exists, Leaving
  <1>3. SchedulerFirst'
    <2>1. squeue' = Null /\ sworker' = MIdle /\ sworker'.pc # "none"
      BY <1>1, <1>2 DEF MIdle
    <2> QED BY <1>2, <2>1 DEF SchedulerFirst
  <1>4. FeedsCurrent'
    <2> DEFINE Good(v) == /\ v.deleted /\ (v.status.state = "PENDING" => v.status.cluster_id = Null)
                          /\ v.finalizers \in {Ours, <<CascadeFinalizer>>,
                                               <<DeletionFinalizer, CascadeFinalizer>>}
    <2>1. \A k \in Watches : \A i \in DOMAIN mfeeds[k] : Good(mfeeds[k][i])
      BY DEF Kept, FeedsCurrent, Parting, Honest
    <2>2. Good(magnum)
      BY <1>1 DEF Kept, FeedsCurrent, Honest, Leaving
    <2> HIDE DEF Good
    <2>3. \A k \in Watches : mfeeds[k] \in Seq(MagnumVersions)
      BY DEF MagnumTypeOK, DatabaseTyped
    <2>4. ASSUME NEW k \in Watches, NEW i \in DOMAIN mfeeds'[k]
          PROVE  Good(mfeeds'[k][i])
      <3>1. CASE k = "magnum"
        <4>1. mfeeds'[k] = Append(mfeeds[k], magnum)
          BY <3>1 DEF MagnumTypeOK, DatabaseTyped
        <4>2. mfeeds'[k][i] = magnum \/ (i \in DOMAIN mfeeds[k] /\ mfeeds'[k][i] = mfeeds[k][i])
          BY <1>1, <2>3, <4>1
        <4> QED BY <2>1, <2>2, <4>2
      <3>2. CASE k # "magnum"
        <4>1. mfeeds'[k] = mfeeds[k]
          BY <3>2 DEF MagnumTypeOK, DatabaseTyped
        <4> QED BY <2>1, <2>4, <4>1
      <3> QED BY <3>1, <3>2
    <2> QED BY <1>2, <2>4 DEF FeedsCurrent, Good, Parting, Honest
  <1>5. QueueCurrent'
    <2>1. mqueue.dirty # Null => Honest(mqueue.dirty) /\ Releasing(mqueue.dirty)
      BY DEF Kept, QueueCurrent
    <2>2. mqueue.timer # Null => Honest(mqueue.timer) /\ Releasing(mqueue.timer)
      BY DEF Kept, QueueCurrent
    <2> QED BY <1>2, <2>1, <2>2 DEF QueueCurrent, Honest, Releasing, Parting
  <1>6. CopyCurrent'
    BY DEF CopyCurrent
  <1>7. RunsKnown' /\ KubesNamed'
    BY DEF RunsKnown, KubesNamed, NoneRuns, Runs
  <1> QED BY <1>3, <1>4, <1>5, <1>6, <1>7 DEF Kept

\* A cluster is released when nothing runs for it, and no Kubernetes cluster is left.
LEMMA ReleaseStep ==
    ASSUME MagnumTypeOK, Kept, ReleaseMagnum
    PROVE  Kept'
  <1> DEFINE c == mworker.copy
  <1>1. mworker # MIdle /\ mworker.pc = "release"
    BY WorkerCopies DEF ReleaseMagnum
  <1>2. c \in MagnumVersions /\ CopyFits("release", c)
    BY <1>1, BusyBound
  <1>3. Exists /\ magnum.deleted /\ magnum.finalizers = Ours /\ c.finalizers = <<>>
    BY <1>2 DEF CopyFits, Deleting, Parting
  <1>4. ~Unfinalizable(c) /\ c # magnum
    BY <1>3, FinalizerLists DEF Unfinalizable
  <1>5. UpdateMagnumCluster(c) /\ mworker' = MIdle
    BY <1>3, <1>4 DEF ReleaseMagnum, SaveMagnum, SaveMagnumAgain, Asks, Exists
  <1>6. magnum' = Null /\ mfeeds' = [mfeeds EXCEPT !["magnum"] = Append(@, magnum)]
    BY <1>3, <1>5 DEF UpdateMagnumCluster
  <1>7. NoneRuns
    BY <1>1 DEF Kept, RunsKnown, NoneRuns
  <1>8. \A n \in Names : kubes[n] = Null
    BY <1>3 DEF Kept, KubesNamed
  <1>9. UNCHANGED <<inside, openstack, kubes, mscenario>>
    BY DEF ReleaseMagnum, outside
  <1> QED BY <1>3, <1>5, <1>6, <1>7, <1>8, <1>9, EndKeeps DEF Leaving

-----------------------------------------------------------------------------
(* Versions arrive                                                         *)

\* What is still under way after a version has arrived.
LEMMA FeedShrinks ==
    ASSUME MagnumTypeOK, Kept, NEW w \in Watches, mfeeds[w] # <<>>,
           mfeeds' = [mfeeds EXCEPT ![w] = Tail(@)], magnum' = magnum
    PROVE  /\ FeedsCurrent'
           /\ Head(mfeeds[w]) \in MagnumVersions
           /\ Exists /\ ~magnum.deleted => Head(mfeeds[w]) = magnum
           /\ Leaving \/ ~Exists =>
                /\ Parting(Head(mfeeds[w])) /\ Honest(Head(mfeeds[w]))
                /\ Head(mfeeds[w]).finalizers \in {Ours, <<CascadeFinalizer>>, Both}
                /\ Exists /\ magnum.finalizers # Ours => Head(mfeeds[w]).finalizers # Ours
  <1>1. /\ mfeeds[w] \in Seq(MagnumVersions) /\ mfeeds'[w] = Tail(mfeeds[w])
        /\ \A k \in Watches : k # w => mfeeds'[k] = mfeeds[k]
    BY DEF MagnumTypeOK, DatabaseTyped
  <1>2. /\ 1 \in DOMAIN mfeeds[w] /\ Head(mfeeds[w]) = mfeeds[w][1]
        /\ Head(mfeeds[w]) \in MagnumVersions
    BY <1>1
  <1>3. \A i \in DOMAIN mfeeds'[w] : i + 1 \in DOMAIN mfeeds[w] /\ mfeeds'[w][i] = mfeeds[w][i + 1]
    <2>1. PICK s \in Seq(MagnumVersions) : s = mfeeds[w] /\ s # <<>> /\ mfeeds'[w] = Tail(s)
      BY <1>1
    <2>2. \A i \in DOMAIN Tail(s) : i + 1 \in DOMAIN s /\ Tail(s)[i] = s[i + 1]
      OBVIOUS
    <2> QED BY <2>1, <2>2
  <1>4. CASE Exists /\ ~magnum.deleted
    <2>1. mfeeds[w] = <<magnum>>
      BY <1>4 DEF Kept, FeedsCurrent
    <2>2. magnum \in MagnumVersions
      BY <1>4 DEF Exists, MagnumTypeOK, DatabaseTyped
    <2>3. mfeeds'[w] = <<>> /\ Head(mfeeds[w]) = magnum
      BY <1>1, <2>1, <2>2, ShortSequences
    <2>4. FeedsCurrent'
      BY <1>1, <1>4, <2>3 DEF Kept, FeedsCurrent, Exists, Leaving, Honest
    <2> QED BY <1>2, <1>4, <2>3, <2>4 DEF Leaving
  <1>5. CASE Leaving \/ ~Exists
    <2> DEFINE Good(v) == /\ Parting(v) /\ Honest(v)
                          /\ v.finalizers \in {Ours, <<CascadeFinalizer>>,
                                               <<DeletionFinalizer, CascadeFinalizer>>}
                          /\ Exists /\ magnum.finalizers # Ours => v.finalizers # Ours
    <2>1. \A k \in Watches : \A i \in DOMAIN mfeeds[k] : Good(mfeeds[k][i])
      BY <1>5 DEF Kept, FeedsCurrent
    <2>2. Good(Head(mfeeds[w]))
      BY <1>2, <2>1
    <2> HIDE DEF Good
    <2>3. \A k \in Watches : \A i \in DOMAIN mfeeds'[k] : Good(mfeeds'[k][i])
      BY <1>1, <1>3, <2>1
    <2>4. FeedsCurrent'
      BY <1>5, <2>3 DEF Kept, FeedsCurrent, Good, Exists, Leaving, Honest, Parting, Agrees
    <2> QED BY <1>2, <1>5, <2>2, <2>4 DEF Good, Leaving, Both
  <1> QED BY <1>4, <1>5 DEF Leaving

\* Receiving changes neither the handler nor what is outside.
LEMMA ReceivesKeep ==
    ASSUME MagnumTypeOK, Kept, UNCHANGED <<magnum, mworker, openstack, kubes>>
    PROVE  CopyCurrent' /\ RunsKnown' /\ KubesNamed'
  <1>1. CopyCurrent'
    <2>1. PICK pc, c : pc = mworker.pc /\ c = mworker.copy
      OBVIOUS
    <2> QED BY <2>1, FitsKept DEF Kept, CopyCurrent
  <1>2. RunsKnown' /\ KubesNamed'
    BY DEF Kept, RunsKnown, KubesNamed, Exists, Runs
  <1> QED BY <1>1, <1>2

LEMMA ReceiveStep ==
    ASSUME MagnumTypeOK, Kept, MReceive
    PROVE  Kept'
  <1> DEFINE v == Head(mfeeds["magnum"])
  <1>1. /\ mfeeds["magnum"] # <<>> /\ "magnum" \in Watches
        /\ mfeeds' = [mfeeds EXCEPT !["magnum"] = Tail(@)]
        /\ UNCHANGED <<magnum, squeue, sworker, mworker, openstack, kubes, mscenario>>
    BY DEF MReceive, outside, Watches
  <1>2. /\ FeedsCurrent' /\ v \in MagnumVersions
        /\ Exists /\ ~magnum.deleted => v = magnum
        /\ Leaving \/ ~Exists =>
             /\ Parting(v) /\ Honest(v)
             /\ v.finalizers \in {Ours, <<CascadeFinalizer>>, Both}
             /\ Exists /\ magnum.finalizers # Ours => v.finalizers # Ours
    BY <1>1, FeedShrinks
  <1>3. CopyCurrent' /\ RunsKnown' /\ KubesNamed'
    BY <1>1, ReceivesKeep
  <1>4. \A d : (Agrees(d)' <=> Agrees(d)) /\ (Honest(d)' <=> Honest(d))
               /\ (Releasing(d)' <=> Releasing(d))
    BY <1>1 DEF Agrees, Honest, Releasing, Parting, Exists
  <1>5. (Exists' <=> Exists) /\ (Leaving' <=> Leaving)
    BY <1>1 DEF Exists, Leaving
  <1>6. v # Null
    BY <1>2, MagnumAssumption
  <1>7. LET ours == v.finalizers # <<>> /\ Last(v.finalizers) = DeletionFinalizer
            failed == v.status.state = "FAILED"
        IN  \/ v.deleted /\ ours /\ failed /\ mqueue' = [mqueue EXCEPT !.timer = v]
            \/ v.deleted /\ ours /\ ~failed /\ mqueue' = [mqueue EXCEPT !.dirty = v]
            \/ /\ ~v.deleted /\ ~failed /\ v.status.project # Null
               /\ mqueue' = [mqueue EXCEPT !.dirty = v]
            \/ /\ ~(v.deleted /\ ours)
               /\ ~(~v.deleted /\ ~failed /\ v.status.project # Null)
               /\ mqueue' = mqueue
    BY EnqueueCases DEF MReceive
  <1> HIDE DEF v
  <1>8. CASE Leaving \/ ~Exists
    <2>1. v.deleted /\ Honest(v)
      BY <1>2, <1>8 DEF Parting
    <2>2. v.finalizers # <<>> /\ Last(v.finalizers) = DeletionFinalizer => Releasing(v)
      BY <1>2, <1>8, FinalizerLists DEF Releasing, DeletionFinalizer, CascadeFinalizer
    <2>3. \/ Releasing(v) /\ mqueue'.dirty = v /\ mqueue'.timer = mqueue.timer
          \/ Releasing(v) /\ mqueue'.timer = v /\ mqueue'.dirty = mqueue.dirty
          \/ mqueue' = mqueue
      BY <1>7, <2>1, <2>2 DEF MagnumTypeOK
    <2>4. /\ mqueue.dirty # Null => Honest(mqueue.dirty) /\ Releasing(mqueue.dirty)
          /\ mqueue.timer # Null => Honest(mqueue.timer) /\ Releasing(mqueue.timer)
      BY <1>8 DEF Kept, QueueCurrent
    <2>5. PICK d, t : d = mqueue'.dirty /\ t = mqueue'.timer
      OBVIOUS
    <2>6. (d # Null => Honest(d) /\ Releasing(d)) /\ (t # Null => Honest(t) /\ Releasing(t))
      BY <2>1, <2>3, <2>4, <2>5
    <2>7. (d # Null => Honest(d)' /\ Releasing(d)') /\ (t # Null => Honest(t)' /\ Releasing(t)')
      BY <1>4, <2>6
    <2>8. QueueCurrent'
      BY <1>5, <1>8, <2>5, <2>7 DEF QueueCurrent, Leaving
    <2>9. SchedulerFirst'
      <3>1. ASSUME Exists, magnum.status.project = Null
            PROVE  mqueue' = mqueue
        <4>1. magnum.finalizers # Ours
          BY <1>8, <3>1, FinalizerLists DEF Kept, SchedulerFirst, Leaving
        <4>2. ~Releasing(v)
          BY <3>1, <4>1 DEF Releasing
        <4> QED BY <1>7, <2>1, <2>2, <4>2
      <3> QED BY <1>1, <1>5, <3>1 DEF Kept, SchedulerFirst, Blank, Exists
    <2> QED BY <1>2, <1>3, <2>8, <2>9 DEF Kept
  <1>9. CASE Exists /\ ~magnum.deleted
    <2>1. v = magnum /\ ~v.deleted /\ Honest(v)
      BY <1>2, <1>9 DEF Kept, FeedsCurrent
    <2>2. mqueue.timer = Null
      BY <1>9 DEF Kept, QueueCurrent, Releasing, Parting
    <2>3. CASE v.status.state # "FAILED" /\ v.status.project # Null
      <3>1. mqueue'.dirty = v /\ mqueue'.timer = Null
        BY <1>7, <2>1, <2>2, <2>3 DEF MagnumTypeOK
      <3>0. PICK u : u = v
        OBVIOUS
      <3>2. Honest(u)' /\ Agrees(u)'
        BY <1>1, <2>1, <3>0 DEF Honest, Agrees
      <3>3. magnum.finalizers \in {<<>>, Ours}
        BY <1>9 DEF Kept, FeedsCurrent
      <3>4. ~Leaving' /\ Exists' /\ magnum' = u /\ mqueue'.dirty = u
        BY <1>1, <1>5, <1>9, <2>1, <3>0, <3>1 DEF Leaving
      <3>5. QueueCurrent'
        BY <2>1, <2>3, <3>0, <3>1, <3>2, <3>3, <3>4 DEF QueueCurrent
      <3>6. SchedulerFirst'
        BY <1>1, <1>5, <2>1, <2>3 DEF Kept, SchedulerFirst, Blank, Exists
      <3> QED BY <1>2, <1>3, <3>5, <3>6 DEF Kept
    <2>4. CASE v.status.state = "FAILED" \/ v.status.project = Null
      <3>1. mqueue' = mqueue
        BY <1>7, <2>1, <2>4
      <3>2. SchedulerFirst'
        BY <1>1, <1>5, <3>1 DEF Kept, SchedulerFirst, Blank, Exists
      <3>3. PICK d : d = mqueue.dirty
        OBVIOUS
      <3>4. d # Null => /\ Honest(d) /\ ~d.deleted /\ d.status.project # Null
                        /\ d.finalizers \in {<<>>, Ours}
                        /\ d.finalizers = Ours => magnum.finalizers = Ours
                        /\ Agrees(d)
        BY <1>9, <2>1, <2>4, <3>3 DEF Kept, QueueCurrent, SchedulerFirst
      <3>5. d # Null => Honest(d)' /\ Agrees(d)'
        BY <1>4, <3>4
      <3>6. mqueue'.dirty = d /\ mqueue'.timer = Null /\ ~Leaving' /\ Exists' /\ magnum' = magnum
        BY <1>1, <1>5, <1>9, <2>2, <3>1, <3>3 DEF Leaving
      <3>7. QueueCurrent'
        BY <1>9, <3>4, <3>5, <3>6 DEF QueueCurrent
      <3> QED BY <1>2, <1>3, <3>2, <3>7 DEF Kept
    <2> QED BY <2>3, <2>4
  <1> QED BY <1>8, <1>9 DEF Leaving

LEMMA FireStep ==
    ASSUME MagnumTypeOK, Kept, MFire
    PROVE  Kept'
  <1>1. /\ mqueue.timer # Null /\ mqueue'.dirty = mqueue.timer /\ mqueue'.timer = Null
        /\ UNCHANGED <<magnum, mfeeds, squeue, sworker, mworker, openstack, kubes, mscenario>>
    BY DEF MFire, outside
  <1>2. Honest(mqueue.timer) /\ Releasing(mqueue.timer)
    BY <1>1 DEF Kept, QueueCurrent
  <1>3. FeedsCurrent'
    BY <1>1 DEF Kept, FeedsCurrent, Exists, Leaving, Honest, Parting, Agrees
  <1>4. QueueCurrent'
    <2>1. PICK d : d = mqueue.timer
      OBVIOUS
    <2>2. Honest(d)' /\ Releasing(d)'
      BY <1>1, <1>2, <2>1 DEF Honest, Releasing, Parting, Agrees, Exists
    <2>3. ~(Exists' /\ ~magnum'.deleted)
      BY <1>1, <1>2 DEF Releasing, Parting, Exists
    <2> QED BY <1>1, <2>1, <2>2, <2>3 DEF QueueCurrent
  <1>5. SchedulerFirst'
    <2>1. Exists => magnum.status.project # Null
      BY <1>1 DEF Kept, SchedulerFirst
    <2> QED BY <1>1, <2>1 DEF Kept, SchedulerFirst, Blank, Exists
  <1> QED BY <1>1, <1>3, <1>4, <1>5, ReceivesKeep DEF Kept

\* The scheduler only gets a version to handle before anything was done for the cluster.
LEMMA ReceivedStep ==
    ASSUME MagnumTypeOK, Kept, ReceivedMagnumCluster
    PROVE  Kept'
  <1> DEFINE v == Head(mfeeds["scheduler"])
  <1>1. /\ mfeeds["scheduler"] # <<>> /\ "scheduler" \in Watches
        /\ mfeeds' = [mfeeds EXCEPT !["scheduler"] = Tail(@)]
        /\ squeue' = IF ~v.deleted /\ v.status.project = Null THEN v ELSE squeue
        /\ UNCHANGED <<magnum, sworker, mqueue, mworker, openstack, kubes, mscenario>>
    BY DEF ReceivedMagnumCluster, outside, Watches
  <1>2. /\ FeedsCurrent' /\ v \in MagnumVersions
        /\ Exists /\ ~magnum.deleted => v = magnum
        /\ Leaving \/ ~Exists => v.deleted
    BY <1>1, FeedShrinks DEF Parting
  <1>3. CopyCurrent' /\ RunsKnown' /\ KubesNamed'
    BY <1>1, ReceivesKeep
  <1>4. QueueCurrent'
    <2>1. mfeeds'["magnum"] = mfeeds["magnum"]
      BY <1>1 DEF MagnumTypeOK, DatabaseTyped, Watches
    <2> QED BY <1>1, <2>1 DEF Kept, QueueCurrent, Exists, Leaving, Honest, Releasing, Parting,
                              Agrees
  <1> HIDE DEF v
  <1>5. SchedulerFirst'
    <2>1. CASE ~v.deleted /\ v.status.project = Null
      <3>1. Exists /\ v = magnum /\ squeue' = v
        BY <1>1, <1>2, <2>1 DEF Leaving
      <3>2. Blank(magnum) /\ mworker = MIdle
        BY <2>1, <3>1 DEF Kept, SchedulerFirst, Blank
      <3> QED BY <1>1, <2>1, <3>1, <3>2 DEF Kept, SchedulerFirst, Blank, Exists
    <2>2. CASE ~(~v.deleted /\ v.status.project = Null)
      BY <1>1, <2>2 DEF Kept, SchedulerFirst, Blank, Exists
    <2> QED BY <2>1, <2>2
  <1> QED BY <1>2, <1>3, <1>4, <1>5 DEF Kept

-----------------------------------------------------------------------------
(* The scheduler, users and the garbage collector                          *)

LEMMA HandleStep ==
    ASSUME MagnumTypeOK, Kept, HandleMagnumClusters
    PROVE  Kept'
  <1>1. /\ sworker = MIdle /\ squeue # Null /\ squeue \in MagnumVersions /\ squeue' = Null
        /\ UNCHANGED <<magnum, mfeeds, mqueue, mworker, openstack, kubes, mscenario>>
    BY DEF HandleMagnumClusters, MagnumTypeOK, outside
  <1>2. /\ Blank(squeue) /\ squeue.status.project = Null
        /\ Exists /\ Blank(magnum) /\ mworker = MIdle
        /\ mscenario.projects # {} => magnum.status.state = "PENDING"
    BY <1>1 DEF Kept, SchedulerFirst
  <1>3. FeedsCurrent' /\ QueueCurrent'
    BY <1>1 DEF Kept, FeedsCurrent, QueueCurrent, Exists, Leaving, Honest, Releasing, Parting,
                Agrees
  <1>4. /\ Blank(sworker'.copy) /\ sworker'.copy.status.project = Null
        /\ sworker'.pc = "none" <=> mscenario.projects = {}
        /\ sworker' # MIdle
    <2>1. CASE /\ mscenario.projects = {}
               /\ sworker' = MAt("none", [squeue EXCEPT !.status.state = "FAILED"])
      <3> DEFINE d == [squeue EXCEPT !.status.state = "FAILED"]
      <3>1. Blank(d) /\ d.status.project = Null
        BY <1>1, <1>2 DEF Blank, MagnumVersions, MagnumStatuses
      <3>2. sworker'.pc = "none" /\ sworker'.copy = d
        BY <2>1 DEF MAt
      <3>3. sworker' # MIdle
        BY <3>2 DEF MIdle
      <3> HIDE DEF d
      <3> QED BY <2>1, <3>1, <3>2, <3>3
    <2>2. ASSUME NEW p \in mscenario.projects,
                 sworker' = [pc |-> "inherit", project |-> p,
                             copy |-> [squeue EXCEPT !.inherited = @ \/ mscenario.labels]]
          PROVE  /\ Blank(sworker'.copy) /\ sworker'.copy.status.project = Null
                 /\ sworker'.pc = "none" <=> mscenario.projects = {}
                 /\ sworker' # MIdle
      <3> DEFINE d == [squeue EXCEPT !.inherited = @ \/ mscenario.labels]
      <3>1. Blank(d) /\ d.status.project = Null
        BY <1>1, <1>2 DEF Blank, MagnumVersions
      <3>2. sworker'.pc = "inherit" /\ sworker'.copy = d
        BY <2>2
      <3> QED BY <2>2, <3>1, <3>2 DEF MIdle
    <2> QED BY <2>1, <2>2 DEF HandleMagnumClusters
  <1>5. SchedulerFirst'
    BY <1>1, <1>2, <1>4 DEF Kept, SchedulerFirst, Blank, Exists
  <1> QED BY <1>1, <1>3, <1>5, ReceivesKeep DEF Kept

\* A write of the scheduler, which has nothing but the project and labels to add.
LEMMA ScheduledKeeps ==
    ASSUME MagnumTypeOK, Kept, sworker # MIdle, \A k \in Watches : mfeeds[k] = <<>>,
           NEW v \in MagnumVersions, Put(v), Blank(v),
           v.status.project = Null => magnum.status.project = Null,
           v.status.project # Null => mscenario.projects # {},
           mscenario.projects # {} => v.status.state = "PENDING",
           \/ sworker' = MIdle
           \/ /\ sworker.pc = "inherit" /\ sworker'.pc = "bind" /\ sworker'.copy = sworker.copy
              /\ sworker' # MIdle,
           UNCHANGED <<squeue, mqueue, mworker, openstack, kubes, mscenario>>
    PROVE  Kept'
  <1>1. /\ Exists /\ Blank(magnum) /\ mworker = MIdle
        /\ Blank(sworker.copy) /\ sworker.copy.status.project = Null
        /\ mscenario.projects # {} => magnum.status.state = "PENDING"
    BY DEF Kept, SchedulerFirst
  <1>2. /\ magnum' = v /\ Exists'
        /\ \A k \in Watches : mfeeds'[k] = <<v>>
        /\ mfeeds'["magnum"] # <<>>
    BY WriteArrives
  <1>3. ~magnum.deleted /\ ~v.deleted /\ v.finalizers = <<>> /\ magnum.finalizers = <<>>
    BY <1>1 DEF Blank
  <1>4. SchedulerFirst'
    <2>1. sworker' # MIdle => sworker'.pc = "bind" /\ mscenario.projects # {}
      BY DEF Kept, SchedulerFirst
    <2>2. sworker' = MIdle => sworker'.pc = "idle"
      BY DEF MIdle
    <2>3. v.status.project = Null => mqueue.dirty = Null /\ mqueue.timer = Null
      BY <1>1 DEF Kept, SchedulerFirst
    <2>4. squeue # Null => Blank(squeue) /\ squeue.status.project = Null
      BY DEF Kept, SchedulerFirst
    <2> QED BY <1>1, <1>2, <1>3, <2>1, <2>2, <2>3, <2>4 DEF SchedulerFirst, Blank, Exists
  <1>5. FeedsCurrent'
    BY <1>2, <1>3 DEF FeedsCurrent, Leaving, Honest, Blank
  <1>6. QueueCurrent'
    <2>1. mqueue.timer = Null
      BY <1>1, <1>3 DEF Kept, QueueCurrent, Releasing, Parting
    <2>2. ASSUME mqueue.dirty # Null
          PROVE  /\ Honest(mqueue.dirty) /\ ~mqueue.dirty.deleted
                 /\ mqueue.dirty.status.project # Null
                 /\ mqueue.dirty.finalizers = <<>> /\ v.status.state = "PENDING"
      <3>1. magnum.status.project # Null /\ mscenario.projects # {}
        BY <1>1, <2>2 DEF Kept, SchedulerFirst
      <3>2. /\ Honest(mqueue.dirty) /\ ~mqueue.dirty.deleted
            /\ mqueue.dirty.status.project # Null
            /\ mqueue.dirty.finalizers \in {<<>>, Ours}
            /\ mqueue.dirty.finalizers = Ours => magnum.finalizers = Ours
        BY <1>1, <1>3, <2>2 DEF Kept, QueueCurrent
      <3> QED BY <1>3, <3>1, <3>2, FinalizerLists
    <2>3. PICK d : d = mqueue.dirty
      OBVIOUS
    <2>4. mqueue'.dirty = d /\ mqueue'.timer = Null /\ ~Leaving' /\ Exists'
      BY <1>2, <1>3, <2>1, <2>3 DEF Leaving
    <2>5. d # Null => Honest(d)'
      BY <2>2, <2>3 DEF Honest
    <2> QED BY <1>2, <1>3, <2>2, <2>3, <2>4, <2>5, FinalizerLists DEF QueueCurrent
  <1>7. CopyCurrent'
    BY <1>1 DEF CopyCurrent
  <1>8. RunsKnown'
    <2>1. NoneRuns
      BY <1>3, FinalizerLists DEF Kept, RunsKnown, NoneRuns, Both
    <2> QED BY <2>1 DEF RunsKnown, NoneRuns, Runs
  <1>9. KubesNamed'
    <2>1. magnum.status.cluster \notin Names
      BY <1>1, MagnumAssumption DEF Blank
    <2> QED BY <2>1 DEF Kept, KubesNamed
  <1> QED BY <1>4, <1>5, <1>6, <1>7, <1>8, <1>9 DEF Kept

LEMMA ScheduleStep ==
    ASSUME MagnumTypeOK, Kept, ScheduleMagnumCluster, \A k \in Watches : mfeeds[k] = <<>>
    PROVE  Kept'
  <1> DEFINE c == sworker.copy
  <1>1. /\ sworker # MIdle /\ sworker.pc \in {"inherit", "bind", "none"} /\ c \in MagnumVersions
        /\ sworker.pc \in {"inherit", "bind"} => sworker \in
             [pc: {"inherit", "bind"}, project: Projects, copy: MagnumVersions]
    BY WorkerCopies DEF ScheduleMagnumCluster
  <1>2. /\ Exists /\ Blank(magnum) /\ mworker = MIdle /\ magnum \in MagnumVersions
        /\ Blank(c) /\ c.status.project = Null
        /\ mscenario.projects # {} => magnum.status.state = "PENDING"
        /\ sworker.pc = "none" <=> mscenario.projects = {}
        /\ magnum.status.project # Null => mscenario.projects # {}
    BY <1>1 DEF Kept, SchedulerFirst, Exists, MagnumTypeOK, DatabaseTyped
  <1>3. UNCHANGED <<squeue, mqueue, mworker, openstack, kubes, mscenario>>
    BY DEF ScheduleMagnumCluster, outside
  <1>4. CASE sworker.pc = "inherit"
    <2> DEFINE next == [sworker EXCEPT !.pc = "bind"]
               v == [c EXCEPT !.deleted = magnum.deleted, !.status = magnum.status]
    <2>1. SaveMagnum(sworker', c, next) \/ SaveMagnumAgain(sworker', c, next)
      BY <1>4 DEF ScheduleMagnumCluster
    <2>2. next.pc = "bind" /\ next.copy = c /\ next # MIdle
      BY <1>1, <1>4 DEF MIdle
    <2>3. \/ sworker' = MIdle /\ UNCHANGED <<magnum, mfeeds>>
          \/ sworker' = next /\ Put(v)
      BY <1>2, <2>1 DEF SaveMagnum, SaveMagnumAgain, Asks, Unfinalizable, UpdateMagnumCluster,
                        Exists, Blank
    <2>4. v \in MagnumVersions /\ v.status = magnum.status /\ Blank(v)
      BY <1>1, <1>2, VersionsTyped DEF MagnumVersions, Blank
    <2>5. CASE sworker' = MIdle /\ UNCHANGED <<magnum, mfeeds>>
      <3>1. SchedulerFirst'
        <4>1. sworker'.pc # "none"
          BY <2>5 DEF MIdle
        <4> QED BY <1>2, <1>3, <2>5, <4>1 DEF Kept, SchedulerFirst, Blank, Exists
      <3>2. FeedsCurrent' /\ QueueCurrent'
        BY <1>3, <2>5 DEF Kept, FeedsCurrent, QueueCurrent, Exists, Leaving, Honest, Releasing,
                          Parting, Agrees
      <3> QED BY <1>3, <2>5, <3>1, <3>2, ReceivesKeep DEF Kept
    <2>6. CASE sworker' = next /\ Put(v)
      <3> HIDE DEF v, next
      <3> QED BY <1>1, <1>2, <1>3, <1>4, <2>2, <2>4, <2>6, ScheduledKeeps
    <2> QED BY <2>3, <2>5, <2>6
  <1>5. CASE sworker.pc = "bind"
    <2> DEFINE v == [magnum EXCEPT !.status.project = sworker.project]
    <2>1. sworker' = MIdle /\ Put(v)
      BY <1>2, <1>5 DEF ScheduleMagnumCluster, Asks, UpdateBinding, Exists
    <2>2. sworker.project \in Projects
      BY <1>1, <1>5
    <2>3. /\ v.status.project = sworker.project /\ v.status.state = magnum.status.state
          /\ v.deleted = magnum.deleted /\ v.finalizers = magnum.finalizers
          /\ v.status.cluster_id = magnum.status.cluster_id
          /\ v.status.cluster = magnum.status.cluster
      BY <1>2 DEF MagnumVersions, MagnumStatuses
    <2>4. v \in MagnumVersions
      BY <1>2, <2>2, VersionsTyped
    <2>5. /\ v \in MagnumVersions /\ Blank(v) /\ v.status.project # Null
          /\ v.status.state = magnum.status.state
      BY <1>2, <2>2, <2>3, <2>4, MagnumAssumption DEF Blank
    <2>6. mscenario.projects # {}
      BY <1>2, <1>5
    <2> HIDE DEF v
    <2> QED BY <1>1, <1>2, <1>3, <2>1, <2>5, <2>6, ScheduledKeeps
  <1>6. CASE sworker.pc = "none"
    <2> DEFINE v == [magnum EXCEPT !.status = c.status]
    <2>1. sworker' = MIdle /\ Put(v)
      BY <1>2, <1>6 DEF ScheduleMagnumCluster, Asks, UpdateMagnumStatus, Exists
    <2>2. v \in MagnumVersions /\ Blank(v) /\ v.status.project = Null
      BY <1>1, <1>2, VersionsTyped DEF MagnumVersions, Blank
    <2>3. mscenario.projects = {} /\ magnum.status.project = Null
      BY <1>2, <1>6
    <2> HIDE DEF v
    <2> QED BY <1>1, <1>2, <1>3, <2>1, <2>2, <2>3, ScheduledKeeps
  <1> QED BY <1>1, <1>4, <1>5, <1>6

\* Users wait until all is done.
LEMMA UserSteps ==
    ASSUME MagnumTypeOK, Kept, MAtRest, UserResizes \/ UserDeletes
    PROVE  Kept'
  <1>1. /\ mworker = MIdle /\ sworker = MIdle /\ mqueue.dirty = Null /\ squeue = Null
        /\ \A k \in Watches : mfeeds[k] = <<>>
        /\ Exists /\ ~magnum.deleted /\ magnum \in MagnumVersions
        /\ UNCHANGED <<squeue, sworker, mqueue, mworker, openstack, kubes, mscenario>>
    BY DEF MAtRest, UserResizes, UserDeletes, Exists, inside, MagnumTypeOK, DatabaseTyped
  <1>2. mqueue.timer = Null
    BY <1>1 DEF Kept, QueueCurrent, Releasing, Parting
  <1>3. magnum.finalizers \in {<<>>, Ours} /\ Honest(magnum)
    BY <1>1 DEF Kept, FeedsCurrent
  <1>4. PICK v \in MagnumVersions :
          /\ Put(v) /\ v.status = magnum.status
          /\ \/ ~v.deleted /\ v.finalizers = magnum.finalizers
             \/ v.deleted /\ v.finalizers = Append(magnum.finalizers, CascadeFinalizer)
    <2>1. CASE UserResizes
      <3> DEFINE v == [magnum EXCEPT !.node_count = 2]
      <3>1. /\ v \in MagnumVersions /\ Put(v) /\ v.status = magnum.status /\ ~v.deleted
            /\ v.finalizers = magnum.finalizers
        BY <1>1, <2>1, VersionsTyped DEF UserResizes, MagnumVersions
      <3> QED BY <3>1
    <2>2. CASE UserDeletes
      <3> DEFINE v == [magnum EXCEPT !.deleted = TRUE, !.finalizers = Append(@, CascadeFinalizer)]
      <3>1. /\ v \in MagnumVersions /\ Put(v) /\ v.status = magnum.status /\ v.deleted
            /\ v.finalizers = Append(magnum.finalizers, CascadeFinalizer)
        BY <1>1, <2>2, FinalizedTyped DEF UserDeletes, DeleteMagnum, MagnumVersions
      <3> QED BY <3>1
    <2> QED BY <2>1, <2>2
  <1>5. /\ magnum' = v /\ Exists'
        /\ \A k \in Watches : mfeeds'[k] = <<v>>
        /\ \A k \in Watches : \A i \in DOMAIN mfeeds'[k] : mfeeds'[k][i] = v
    BY <1>1, <1>4, WriteArrives
  <1>6. /\ v.deleted => v.finalizers \in {<<CascadeFinalizer>>, Both}
        /\ v.deleted /\ magnum.finalizers = Ours => v.finalizers = Both
        /\ v.deleted /\ magnum.finalizers = <<>> => v.finalizers = <<CascadeFinalizer>>
        /\ ~v.deleted => v.finalizers = magnum.finalizers
    BY <1>3, <1>4, FinalizerLists
  <1>7. SchedulerFirst'
    <2>1. sworker'.pc # "none"
      BY <1>1 DEF MIdle
    <2> QED BY <1>1, <1>4, <1>5, <1>6, <2>1 DEF Kept, SchedulerFirst, Exists
  <1>8. FeedsCurrent'
    <2>1. Honest(v) /\ (v.deleted => v.finalizers # Ours)
      BY <1>3, <1>4, <1>6, FinalizerLists DEF Honest
    <2> QED BY <1>3, <1>5, <1>6, <2>1
            DEF FeedsCurrent, Leaving, Exists, Parting, Agrees, Honest, Both
  <1>9. QueueCurrent' /\ CopyCurrent'
    BY <1>1, <1>2 DEF QueueCurrent, CopyCurrent
  <1>10. RunsKnown'
    <2>1. \A i \in Ids : Runs(i)' => Runs(i) /\ openstack'[i] = openstack[i]
      BY <1>1 DEF Runs
    <2>2. mworker'.pc \notin {"created", "forget", "release"} /\ mworker.pc # "created"
      BY <1>1 DEF MIdle
    <2>3. \A i \in Ids : Runs(i) => magnum.finalizers = Ours
      BY <1>3, FinalizerLists DEF Kept, RunsKnown, Both
    <2>4. \A i \in Ids : Runs(i) => v.finalizers \in {Ours, <<DeletionFinalizer, CascadeFinalizer>>}
      BY <1>6, <2>3 DEF Both
    <2> QED BY <1>4, <1>5, <2>1, <2>2, <2>4 DEF Kept, RunsKnown
  <1>11. KubesNamed'
    BY <1>1, <1>4, <1>5, <1>6, FinalizerLists DEF Kept, KubesNamed
  <1> QED BY <1>7, <1>8, <1>9, <1>10, <1>11 DEF Kept

\* The garbage collector leaves a cluster to the controller, or removes it if nothing
\* was created for it.
LEMMA CollectStep ==
    ASSUME MagnumTypeOK, Kept, CollectMagnum
    PROVE  Kept'
  <1>1. /\ Leaving /\ Exists /\ magnum.deleted /\ magnum \in MagnumVersions
        /\ Last(magnum.finalizers) = CascadeFinalizer
        /\ UNCHANGED <<squeue, sworker, mqueue, mworker, openstack, mscenario>>
    BY DEF CollectMagnum, Leaving, Exists, inside, MagnumTypeOK, DatabaseTyped
  <1>2. magnum.finalizers \in {<<CascadeFinalizer>>, Both}
    BY <1>1, FinalizerLists DEF Kept, FeedsCurrent, Both, DeletionFinalizer, CascadeFinalizer
  <1>3. magnum.finalizers # Ours
    BY <1>2, FinalizerLists
  <1>4. /\ squeue = Null /\ sworker = MIdle /\ mqueue.dirty = Null /\ mqueue.timer = Null
    BY <1>1, <1>3 DEF Kept, SchedulerFirst, Blank, QueueCurrent, Releasing
  <1>5. mworker = MIdle
    <2>1. SUFFICES ASSUME mworker # MIdle PROVE FALSE
      OBVIOUS
    <2>2. mworker.pc \in Reconciling \cup Deleting \cup {"read", "fail"}
      BY <2>1 DEF MagnumTypeOK, MagnumWorkers, CopyPcs, Reconciling, Creating, Deleting
    <2> QED BY <1>1, <1>3, <2>1, <2>2 DEF Kept, CopyCurrent, CopyFits
  <1>6. CASE kubes' = [n \in Names |-> Null] /\ UNCHANGED <<magnum, mfeeds>>
    <2>1. SchedulerFirst'
      BY <1>1, <1>6 DEF Kept, SchedulerFirst, Blank, Exists
    <2>2. FeedsCurrent' /\ QueueCurrent'
      BY <1>1, <1>6 DEF Kept, FeedsCurrent, QueueCurrent, Exists, Leaving, Honest, Releasing,
                        Parting, Agrees
    <2>3. CopyCurrent'
      BY <1>1, <1>5 DEF CopyCurrent
    <2>4. RunsKnown'
      BY <1>1, <1>6 DEF Kept, RunsKnown, Exists, Runs
    <2>5. KubesNamed'
      BY <1>6 DEF KubesNamed
    <2> QED BY <2>1, <2>2, <2>3, <2>4, <2>5 DEF Kept
  <1>7. CASE /\ \A n \in Names : kubes[n] = Null
             /\ UNCHANGED kubes
             /\ UpdateMagnumCluster([magnum EXCEPT !.finalizers = Front(@)])
    <2> DEFINE b == [magnum EXCEPT !.finalizers = Front(@)]
               v == [b EXCEPT !.deleted = magnum.deleted, !.status = magnum.status]
    <2>1. b \in MagnumVersions /\ b.finalizers = Front(magnum.finalizers)
      BY <1>1, FinalizedTyped DEF MagnumVersions
    <2> HIDE DEF b
    <2>2. CASE magnum.finalizers = <<CascadeFinalizer>>
      <3>1. b.finalizers = <<>>
        BY <2>1, <2>2, FinalizerLists
      <3>2. magnum' = Null /\ mfeeds' = [mfeeds EXCEPT !["magnum"] = Append(@, magnum)]
        BY <1>1, <1>7, <3>1 DEF UpdateMagnumCluster, b
      <3>3. NoneRuns
        BY <2>2, FinalizerLists DEF Kept, RunsKnown, NoneRuns, Both
      <3>4. mworker' = MIdle /\ \A n \in Names : kubes[n] = Null
        BY <1>1, <1>5, <1>7
      <3>5. UNCHANGED <<inside, openstack, kubes, mscenario>>
        BY <1>1, <1>7 DEF inside
      <3> QED BY <1>1, <3>2, <3>3, <3>4, <3>5, EndKeeps
    <2>3. CASE magnum.finalizers = Both
      <3>1. b.finalizers = Ours /\ b.finalizers # <<>>
        BY <2>1, <2>3, FinalizerLists
      <3>2. Put(v)
        BY <1>7, <3>1 DEF UpdateMagnumCluster, b
      <3>3. /\ v \in MagnumVersions /\ v.finalizers = Ours /\ v.deleted
            /\ v.status = magnum.status
        <4>1. v \in MagnumVersions
          BY <1>1, <2>1, VersionsTyped
        <4>2. /\ v.finalizers = b.finalizers /\ v.deleted = magnum.deleted
              /\ v.status = magnum.status
          BY <2>1 DEF MagnumVersions
        <4> QED BY <1>1, <3>1, <4>1, <4>2
      <3> HIDE DEF v
      <3>4. /\ magnum' = v /\ magnum' # Null
            /\ \A k \in Watches : mfeeds'[k] = Append(mfeeds[k], v)
        BY <3>2, <3>3, PutTyped
      <3>5. Exists' /\ Leaving' /\ \A d : Agrees(d)' <=> Agrees(d)
        BY <3>3, <3>4 DEF Exists, Leaving, Agrees
      <3>6. SchedulerFirst'
        <4>1. magnum.status.project # Null /\ mscenario.projects # {}
          BY <1>1, <2>3, FinalizerLists DEF Kept, SchedulerFirst
        <4>2. sworker'.pc # "none"
          BY <1>1, <1>4 DEF MIdle
        <4> QED BY <1>1, <1>4, <3>3, <3>4, <4>1, <4>2 DEF SchedulerFirst
      <3>7. FeedsCurrent'
        <4> DEFINE Good(d) == /\ d.deleted /\ Agrees(d) /\ Honest(d)
                              /\ d.finalizers \in {Ours, <<CascadeFinalizer>>,
                                                   <<DeletionFinalizer, CascadeFinalizer>>}
        <4>1. \A k \in Watches : \A i \in DOMAIN mfeeds[k] : Good(mfeeds[k][i])
          BY <1>1 DEF Kept, FeedsCurrent, Parting
        <4>2. Good(v)
          BY <1>1, <3>3 DEF Kept, FeedsCurrent, Honest, Agrees
        <4>3. \A k \in Watches : mfeeds[k] \in Seq(MagnumVersions)
          BY DEF MagnumTypeOK, DatabaseTyped
        <4> HIDE DEF Good
        <4>4. \A k \in Watches : \A i \in DOMAIN mfeeds'[k] : Good(mfeeds'[k][i])
          <5>1. ASSUME NEW k \in Watches, NEW i \in DOMAIN mfeeds'[k]
                PROVE  Good(mfeeds'[k][i])
            <6>1. \/ mfeeds'[k][i] = v
                  \/ i \in DOMAIN mfeeds[k] /\ mfeeds'[k][i] = mfeeds[k][i]
              BY <3>3, <3>4, <4>3
            <6> QED BY <4>1, <4>2, <6>1
          <5> QED BY <5>1
        <4>5. \A d : Good(d) => /\ Parting(d)' /\ Honest(d)'
                                /\ d.finalizers \in {Ours, <<CascadeFinalizer>>,
                                                     <<DeletionFinalizer, CascadeFinalizer>>}
          BY <3>3, <3>4, <3>5 DEF Good, Parting, Honest
        <4>6. /\ magnum'.deleted /\ magnum'.finalizers = Ours
              /\ magnum'.status.state = "PENDING" => magnum'.status.cluster_id = Null
          BY <3>3, <3>4, <4>2 DEF Good, Honest
        <4>7. \A k \in Watches : \A i \in DOMAIN mfeeds'[k] :
                /\ Parting(mfeeds[k][i])' /\ Honest(mfeeds[k][i])'
                /\ mfeeds'[k][i].finalizers \in {Ours, <<CascadeFinalizer>>,
                                                 <<DeletionFinalizer, CascadeFinalizer>>}
          <5>1. ASSUME NEW k \in Watches, NEW i \in DOMAIN mfeeds'[k]
                PROVE  /\ Parting(mfeeds[k][i])' /\ Honest(mfeeds[k][i])'
                       /\ mfeeds'[k][i].finalizers \in {Ours, <<CascadeFinalizer>>,
                                                        <<DeletionFinalizer, CascadeFinalizer>>}
            <6>1. PICK d : d = mfeeds'[k][i]
              OBVIOUS
            <6>2. Good(d)
              BY <4>4, <6>1
            <6>3. Parting(d)' /\ Honest(d)'
              BY <4>5, <6>2
            <6> QED BY <4>5, <6>1, <6>2, <6>3 DEF Parting, Honest, Agrees
          <5> QED BY <5>1
        <4> QED BY <3>5, <4>6, <4>7 DEF FeedsCurrent, Honest
      <3>8. QueueCurrent' /\ CopyCurrent'
        BY <1>1, <1>4, <1>5 DEF QueueCurrent, CopyCurrent
      <3>9. RunsKnown'
        <4>1. \A i \in Ids : Runs(i)' => Runs(i) /\ openstack'[i] = openstack[i]
          BY <1>1 DEF Runs
        <4>2. mworker'.pc \notin {"created", "forget", "release"} /\ mworker.pc # "created"
          BY <1>1, <1>5 DEF MIdle
        <4> QED BY <3>3, <3>4, <3>5, <4>1, <4>2 DEF Kept, RunsKnown
      <3>10. KubesNamed'
        BY <1>7 DEF KubesNamed
      <3> QED BY <3>6, <3>7, <3>8, <3>9, <3>10 DEF Kept
    <2> QED BY <1>2, <2>2, <2>3
  <1> QED BY <1>6, <1>7 DEF CollectMagnum

-----------------------------------------------------------------------------
(* The invariant                                                           *)

LEMMA InitInvariant ==
    ASSUME MagnumInit
    PROVE  MagnumTypeOK /\ MagnumKept
  <1>1. /\ magnum = NewMagnum /\ mworker = MIdle /\ sworker = MIdle /\ squeue = Null
        /\ mqueue.dirty = Null /\ mqueue.timer = Null
        /\ mfeeds = [k \in Watches |-> <<NewMagnum>>]
        /\ mscenario \in MagnumScenarios /\ mbudget = mscenario.budget
        /\ openstack = [id \in Ids |-> Absent] /\ kubes = [n \in Names |-> Null]
    BY DEF MagnumInit
  <1>2. /\ NewMagnum \in MagnumVersions
        /\ ~NewMagnum.deleted /\ NewMagnum.finalizers = <<>>
        /\ NewMagnum.status.state = "PENDING" /\ NewMagnum.status.project = Null
        /\ NewMagnum.status.cluster_id = Null /\ NewMagnum.status.cluster = Null
    BY DEF NewMagnum, MagnumVersions, MagnumStatuses, MagnumStates, NodeCounts
  <1>3. mbudget \in [Stories -> Nat]
    BY <1>1, MagnumAssumption DEF AllMagnumScenarios
  <1>4. MagnumTypeOK
    <2>1. Absent \in OpenstackClusters
      BY DEF Absent, OpenstackClusters, OpenstackStates, NodeCounts
    <2>2. mfeeds \in [Watches -> Seq(MagnumVersions)]
      BY <1>1, <1>2
    <2>3. mqueue \in [dirty: MagnumVersions \cup {Null}, timer: MagnumVersions \cup {Null}]
      BY DEF MagnumInit
    <2> QED BY <1>1, <1>2, <1>3, <2>1, <2>2, <2>3
            DEF MagnumTypeOK, DatabaseTyped, MagnumWorkers, SchedulerWorkers
  <1>5. ASSUME Regular PROVE mbudget["lost"] = 0 /\ mbudget["crash"] = 0
    BY <1>1, <1>3, <1>5 DEF Regular, MFails, Stories
  <1>6. Exists /\ ~magnum.deleted /\ ~Leaving
    BY <1>1, <1>2, MagnumAssumption DEF Exists, Leaving
  <1>7. SchedulerFirst
    <2>1. sworker.pc # "none"
      BY <1>1 DEF MIdle
    <2> QED BY <1>1, <1>2, <2>1 DEF SchedulerFirst
  <1>8. FeedsCurrent
    BY <1>1, <1>2, <1>6 DEF FeedsCurrent, Honest
  <1>9. QueueCurrent /\ CopyCurrent
    BY <1>1 DEF QueueCurrent, CopyCurrent
  <1>10. RunsKnown
    BY <1>1 DEF RunsKnown, Runs, Absent
  <1>11. KubesNamed
    BY <1>1 DEF KubesNamed
  <1> QED BY <1>4, <1>5, <1>7, <1>8, <1>9, <1>10, <1>11 DEF MagnumKept

\* The scenario stays, and no story happens more often than it may.
LEMMA ScenarioStays ==
    ASSUME MagnumTypeOK, MagnumNext
    PROVE  /\ mscenario' = mscenario
           /\ \A k \in Stories : mbudget[k] = 0 => mbudget'[k] = 0
  <1>1. CASE MagnumHandler
    <2>1. CASE CreateMagnumCluster
      BY <2>1, SpendTyped DEF CreateMagnumCluster, Stories
    <2>2. CASE ~CreateMagnumCluster
      BY <1>1, <2>2 DEF MagnumHandler, Consume, ReconcileMagnumCluster, MFinalize, OnPending, SaveId,
         OnRunning, ResizeMagnumCluster, WaitForRunning, SaveWaited,
         ReconcileKubernetesResource, MakeKubeconfig, Publish, ReadMagnumCluster, CreateClient,
         DeleteMagnumCluster, SaveMagnumDeleting, WaitGone, ReleaseMagnum, ProcessCluster,
         MSaveStatus, MGoes, outside
    <2> QED BY <2>1, <2>2
  <1>2. CASE MReceive \/ MFire \/ ReceivedMagnumCluster \/ SchedulerHandler \/ CollectMagnum
    BY <1>2 DEF MReceive, MFire, ReceivedMagnumCluster, SchedulerHandler, HandleMagnumClusters,
       ScheduleMagnumCluster, CollectMagnum, outside
  <1>3. CASE OpenstackError \/ MRestart \/ UserResizes \/ UserDeletes
    BY <1>3, SpendTyped DEF OpenstackError, MRestart, UserResizes, UserDeletes, Stories
  <1>4. CASE \E id \in Ids : Completes(id) \/ Breaks(id)
    BY <1>4, OpenstackTyped
  <1> QED BY <1>1, <1>2, <1>3, <1>4 DEF MagnumNext

LEMMA KeptStep ==
    ASSUME MagnumTypeOK, Regular, mbudget["lost"] = 0, mbudget["crash"] = 0, Kept, MagnumNext
    PROVE  Kept'
  <1>1. mscenario.orderly /\ mscenario.prompt
    BY DEF Regular
  <1>2. CASE MagnumHandler
    <2>1. (\A k \in Watches : mfeeds[k] = <<>>) /\ squeue = Null /\ sworker = MIdle
      BY <1>1, <1>2 DEF MagnumHandler, MNoticed
    <2>2. CASE Consume
      BY <2>1, <2>2, ConsumeStep
    <2>3. CASE ReconcileMagnumCluster
      BY <2>3, ReconcileStep
    <2>4. CASE MFinalize
      BY <2>1, <2>4, FinalizeStep
    <2>5. CASE OnPending \/ SaveId \/ OnRunning \/ SaveWaited \/ SaveMagnumDeleting
               \/ ProcessCluster
      BY <2>1, <2>5, SaveStatusSteps
    <2>6. CASE CreateMagnumCluster
      BY <2>6, CreateStep
    <2>7. CASE ResizeMagnumCluster
      BY <2>7, ResizeStep
    <2>8. CASE WaitForRunning
      BY <2>8, WaitStep
    <2>9. CASE ReconcileKubernetesResource \/ MakeKubeconfig
      BY <2>9, KubeSteps
    <2>10. CASE Publish
      BY <2>10, PublishStep
    <2>11. CASE ReadMagnumCluster \/ CreateClient \/ WaitGone
      BY <2>11, LeavingSteps
    <2>12. CASE DeleteMagnumCluster
      BY <2>12, DeleteStep
    <2>13. CASE ReleaseMagnum
      BY <2>13, ReleaseStep
    <2> QED BY <1>2, <2>2, <2>3, <2>4, <2>5, <2>6, <2>7, <2>8, <2>9, <2>10, <2>11, <2>12,
               <2>13 DEF MagnumHandler
  <1>3. CASE SchedulerHandler
    <2>1. \A k \in Watches : mfeeds[k] = <<>>
      BY <1>1, <1>3 DEF SchedulerHandler, MNoticed
    <2> QED BY <1>3, <2>1, HandleStep, ScheduleStep DEF SchedulerHandler
  <1>4. CASE UserResizes \/ UserDeletes
    BY <1>1, <1>4, UserSteps DEF UserResizes, UserDeletes, MReady
  <1>5. ~MRestart
    BY DEF MRestart, MSpend
  <1>6. CASE \E id \in Ids : Completes(id) \/ Breaks(id)
    BY <1>6, OpenstackStep
  <1>7. CASE OpenstackError \/ MReceive \/ MFire \/ ReceivedMagnumCluster \/ CollectMagnum
    BY <1>7, ErrorStep, ReceiveStep, FireStep, ReceivedStep, CollectStep
  <1> QED BY <1>2, <1>3, <1>4, <1>5, <1>6, <1>7 DEF MagnumNext

LEMMA NextInvariant ==
    ASSUME MagnumTypeOK, MagnumKept, [MagnumNext]_magnumVars
    PROVE  MagnumTypeOK' /\ MagnumKept'
  <1>1. MagnumTypeOK'
    BY TypeStep
  <1>2. CASE MagnumNext
    <2>1. /\ mscenario' = mscenario
          /\ mbudget["lost"] = 0 => mbudget'["lost"] = 0
          /\ mbudget["crash"] = 0 => mbudget'["crash"] = 0
      BY <1>2, ScenarioStays DEF Stories
    <2>2. Regular' <=> Regular
      BY <2>1 DEF Regular, MFails
    <2>3. ASSUME Regular
          PROVE  mbudget'["lost"] = 0 /\ mbudget'["crash"] = 0 /\ Kept'
      <3>1. mbudget["lost"] = 0 /\ mbudget["crash"] = 0 /\ Kept
        BY <2>3 DEF MagnumKept, Kept
      <3> QED BY <1>2, <2>1, <2>3, <3>1, KeptStep
    <2> QED BY <1>1, <2>2, <2>3 DEF MagnumKept, Kept
  <1>3. CASE UNCHANGED magnumVars
    <2>1. UNCHANGED <<magnum, mfeeds, squeue, sworker, mqueue, mworker, openstack, kubes,
                      mscenario, mbudget>>
      BY <1>3 DEF magnumVars
    <2>2. Regular' <=> Regular
      BY <2>1 DEF Regular, MFails
    <2>3. ASSUME Regular
          PROVE  mbudget'["lost"] = 0 /\ mbudget'["crash"] = 0 /\ Kept'
      <3>1. mbudget["lost"] = 0 /\ mbudget["crash"] = 0 /\ Kept
        BY <2>3 DEF MagnumKept, Kept
      <3>2. SchedulerFirst' /\ FeedsCurrent' /\ QueueCurrent'
        BY <2>1, <3>1 DEF Kept, SchedulerFirst, FeedsCurrent, QueueCurrent, Blank, Exists,
           Leaving, Honest, Releasing, Parting, Agrees
      <3> QED BY <2>1, <3>1, <3>2, ReceivesKeep DEF Kept
    <2> QED BY <1>1, <2>2, <2>3 DEF MagnumKept, Kept
  <1> QED BY <1>2, <1>3

\* What the parts of the invariant come to.
LEMMA KeptSuffices ==
    ASSUME MagnumTypeOK, MagnumKept
    PROVE  MagnumNoneLost /\ OneKubernetesCluster
  <1>1. MagnumNoneLost
    BY WorkerCopies DEF MagnumKept, RunsKnown, MagnumNoneLost
  <1>2. OneKubernetesCluster
    <2>1. ASSUME Regular, NEW n \in Names, kubes[n] # Null
          PROVE  Exists /\ {m \in Names : kubes[m] # Null} = {magnum.status.cluster}
      BY <2>1 DEF MagnumKept, KubesNamed
    <2> QED BY <2>1 DEF OneKubernetesCluster
  <1> QED BY <1>1, <1>2

\* The invariant of Magnum clusters: in every scenario the types; in those where replies
\* get through, the controller runs on, versions arrive in time and users wait, what runs
\* in OpenStack is known, in the project that the cluster is bound to, and at most one
\* Kubernetes cluster is made of it (on_pending, wait_for_running, delete_magnum_cluster,
\* reconcile_kubernetes_resource, received_magnum_cluster).
THEOREM MagnumInvariant == MagnumSpec => []MagnumInv
  <1>1. MagnumInit => MagnumTypeOK /\ MagnumKept
    BY InitInvariant
  <1>2. MagnumTypeOK /\ MagnumKept /\ [MagnumNext]_magnumVars => (MagnumTypeOK /\ MagnumKept)'
    BY NextInvariant
  <1>3. MagnumTypeOK /\ MagnumKept => MagnumInv
    BY KeptSuffices DEF MagnumInv
  <1> QED BY <1>1, <1>2, <1>3, PTL DEF MagnumSpec
=============================================================================
