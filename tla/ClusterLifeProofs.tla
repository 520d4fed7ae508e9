-------------------------- MODULE ClusterLifeProofs -------------------------
(***************************************************************************)
(* Proofs about ClusterLife, for any ids, templates, lags and scenarios:   *)
(* the invariant of the two controllers of a cluster, that infrastructure  *)
(* is created only under the finalizer, that none of it is lost, and that  *)
(* no unfinished cluster is observed.                                      *)
(***************************************************************************)
EXTENDS ClusterLife, WellFoundedInduction, SequenceTheorems, TLAPS

-----------------------------------------------------------------------------
(* Sequences of finalizers                                                 *)

\* A set of naturals that is not empty has a least element.
LEMMA LeastNatural ==
    ASSUME NEW T, T \subseteq Nat, T # {}
    PROVE  Min(T) \in T
  <1> DEFINE R == {ss \in Nat \X Nat : ss[1] < ss[2]}
  <1>1. IsWellFoundedOn(R, Nat)
    BY NatLessThanWellFounded DEF OpToRel
  <1>2. \A x, y \in Nat : (<<y, x>> \in R) <=> y < x
    OBVIOUS
  <1> HIDE DEF R
  <1>3. PICK x \in T : \A y \in T : ~(<<y, x>> \in R)
    BY <1>1, WFMin
  <1>4. ASSUME NEW y \in T PROVE x <= y
    <2>1. x \in Nat /\ y \in Nat /\ ~(<<y, x>> \in R)
      BY <1>3
    <2>2. ~(y < x)
      BY <1>2, <2>1
    <2> QED BY <2>1, <2>2
  <1> QED BY <1>4 DEF Min

\* list.remove leaves a sequence over the same elements.
LEMMA RemoveFirstTyped ==
    ASSUME NEW A, NEW s \in Seq(A), NEW e
    PROVE  RemoveFirst(s, e) \in Seq(A)
  <1>1. CASE \E i \in 1..Len(s) : s[i] = e
    <2> DEFINE T == {i \in 1..Len(s) : s[i] = e}
    <2>1. T \subseteq 1..Len(s) /\ T \subseteq Nat /\ T # {}
      BY <1>1
    <2>2. Min(T) \in T
      BY <2>1, LeastNatural
    <2>3. RemoveFirst(s, e) = RemoveAt(s, Min(T))
      BY <1>1 DEF RemoveFirst, SelectInSeq
    <2> HIDE DEF T
    <2>4. PICK n \in 1..Len(s) :
            RemoveFirst(s, e) = SubSeq(s, 1, n - 1) \o SubSeq(s, n + 1, Len(s))
      BY <2>1, <2>2, <2>3 DEF RemoveAt
    <2>5. SubSeq(s, 1, n - 1) \in Seq(A) /\ SubSeq(s, n + 1, Len(s)) \in Seq(A)
      OBVIOUS
    <2> QED BY <2>4, <2>5
  <1>2. CASE ~ \E i \in 1..Len(s) : s[i] = e
    BY <1>2 DEF RemoveFirst
  <1> QED BY <1>1, <1>2

Finalizers == {Finalizer, Cascade}

\* Appending a finalizer keeps the others, and so does taking the last one away.
LEMMA FinalizersTyped ==
    ASSUME NEW s \in Seq(Finalizers)
    PROVE  /\ Front(s) \in Seq(Finalizers)
           /\ s # <<>> /\ Last(s) = Cascade /\ Finalizer \in ToSet(s)
                => Finalizer \in ToSet(Front(s))
           /\ Finalizer \in ToSet(Append(s, Finalizer))
           /\ \A f \in Finalizers :
                Append(s, f) \in Seq(Finalizers) /\ ToSet(s) \subseteq ToSet(Append(s, f))
  <1>1. Front(s) \in Seq(Finalizers)
    BY DEF Front
  <1>2. ASSUME s # <<>>, Last(s) = Cascade, Finalizer \in ToSet(s)
        PROVE  Finalizer \in ToSet(Front(s))
    <2>1. PICK i \in 1..Len(s) : s[i] = Finalizer
      BY <1>2 DEF ToSet
    <2>2. i # Len(s)
      BY <1>2, <2>1 DEF Last, Finalizer, Cascade
    <2>3. i \in DOMAIN Front(s) /\ Front(s)[i] = s[i]
      BY <2>1, <2>2 DEF Front
    <2> QED BY <2>1, <2>3 DEF ToSet
  <1>3. Finalizer \in ToSet(Append(s, Finalizer))
    BY DEF ToSet, Finalizers
  <1>4. ASSUME NEW f \in Finalizers
        PROVE  Append(s, f) \in Seq(Finalizers) /\ ToSet(s) \subseteq ToSet(Append(s, f))
    BY <1>4 DEF ToSet, Finalizers
  <1> QED BY <1>1, <1>2, <1>3, <1>4

-----------------------------------------------------------------------------
(* Writes to the database                                                  *)

\* What a write does to the versions under way: those added are the one stored, or the
\* last one of a cluster that was removed.  A cluster in deletion stays there, and
\* one that is not keeps the finalizer once it has it.
Writes ==
    /\ cluster' \in Versions \cup {Null}
    /\ feeds' \in [Controllers -> Seq(Versions)]
    /\ \A i \in DOMAIN feeds'["infrastructure"] :
         LET v == feeds'["infrastructure"][i] IN
         \/ i \in DOMAIN feeds["infrastructure"] /\ v = feeds["infrastructure"][i]
         \/ /\ i > Len(feeds["infrastructure"])
            /\ v.deleted <=> Ended'
            /\ ~v.deleted => v = cluster'
    /\ \A i \in DOMAIN feeds'["kubernetes"] :
         LET v == feeds'["kubernetes"][i] IN
         (\E j \in DOMAIN feeds["kubernetes"] : v = feeds["kubernetes"][j]) \/ v = cluster'
    /\ Ended => Ended'
    /\ Held => Held' \/ Ended'
    /\ HasId(cluster') => Held' \/ Ended'

\* A version that is stored in place of the present one
LEMMA StoreWrites ==
    ASSUME ClusterTypeOK, NEW a \in Versions, cluster # Null, Store(a),
           cluster.deleted => a.deleted,
           Held \/ HasId(a) => HasFinalizer(a) \/ a.deleted
    PROVE  Writes /\ (HasFinalizer(a) => Held')
  <1>1. /\ cluster' = a /\ a # Null
        /\ feeds' = [k \in Controllers |-> Append(feeds[k], a)]
        /\ \A k \in Controllers : feeds[k] \in Seq(Versions)
    BY ClusterAssumption DEF Store, ClusterTypeOK
  <1>2. /\ Ended' <=> a.deleted
        /\ Held' <=> HasFinalizer(a)
        /\ Ended <=> cluster.deleted
    BY <1>1 DEF Ended, Held, HasFinalizer
  <1>3. ASSUME NEW k \in Controllers
        PROVE  /\ feeds'[k] \in Seq(Versions)
               /\ \A i \in DOMAIN feeds'[k] :
                    \/ i \in DOMAIN feeds[k] /\ feeds'[k][i] = feeds[k][i]
                    \/ i > Len(feeds[k]) /\ feeds'[k][i] = a
    BY <1>1
  <1>4. feeds' \in [Controllers -> Seq(Versions)]
    BY <1>1, <1>3
  <1> QED BY <1>1, <1>2, <1>3, <1>4 DEF Writes, Controllers

\* update_cluster_status keeps the finalizers.
LEMMA UpdateStatusWrites ==
    ASSUME ClusterInv, NEW b \in Versions, cluster # Null, UpdateStatus(b),
           HasId(b) => Held \/ Ended
    PROVE  Writes /\ (Held => Held')
  <1> DEFINE a == [cluster EXCEPT !.status = b.status]
  <1>1. ClusterTypeOK /\ cluster \in Versions /\ Store(a)
    BY DEF ClusterInv, ClusterTypeOK, UpdateStatus
  <1>2. /\ a \in Versions /\ a.deleted = cluster.deleted /\ a.finalizers = cluster.finalizers
        /\ a.status = b.status
    BY <1>1 DEF Versions
  <1> HIDE DEF a
  <1>3. Held <=> HasFinalizer(a)
    BY <1>2 DEF Held, HasFinalizer
  <1>4. HasId(a) => HasFinalizer(a) \/ a.deleted
    BY <1>2, <1>3, ClusterAssumption DEF HasId, Ended
  <1> QED BY <1>1, <1>2, <1>3, <1>4, StoreWrites

\* update_cluster stores the finalizers of its body, or removes the cluster.
LEMMA UpdateWrites ==
    ASSUME ClusterInv, NEW b \in Versions, cluster # Null, Update(b),
           Held => HasFinalizer(b) \/ cluster.deleted
    PROVE  Writes /\ (HasFinalizer(b) => Held')
  <1>1. ClusterTypeOK /\ cluster \in Versions
    BY DEF ClusterInv, ClusterTypeOK
  <1>2. CASE cluster.deleted /\ b.finalizers = <<>>
    <2>1. /\ cluster' = Null /\ ~HasFinalizer(b)
          /\ feeds' = [feeds EXCEPT !["infrastructure"] = Append(@, cluster)]
      BY <1>2 DEF Update, Erase, HasFinalizer, ToSet
    <2>2. /\ \A k \in Controllers : feeds[k] \in Seq(Versions)
          /\ feeds'["infrastructure"] = Append(feeds["infrastructure"], cluster)
          /\ feeds'["kubernetes"] = feeds["kubernetes"]
          /\ feeds' \in [Controllers -> Seq(Versions)]
      BY <1>1, <2>1 DEF ClusterTypeOK, Controllers
    <2>3. Ended' /\ ~HasId(cluster')
      BY <2>1 DEF Ended, HasId
    <2> QED BY <1>2, <2>1, <2>2, <2>3 DEF Writes, Controllers
  <1>3. CASE ~(cluster.deleted /\ b.finalizers = <<>>)
    <2> DEFINE a == [b EXCEPT !.deleted = cluster.deleted, !.status = cluster.status]
    <2>1. Store(a)
      BY <1>3 DEF Update
    <2>2. /\ a \in Versions /\ a.deleted = cluster.deleted /\ a.finalizers = b.finalizers
          /\ a.status = cluster.status
      BY <1>1 DEF Versions
    <2> HIDE DEF a
    <2>3. HasFinalizer(a) <=> HasFinalizer(b)
      BY <2>2 DEF HasFinalizer
    <2>4. HasId(a) => Held \/ cluster.deleted
      BY <2>2 DEF ClusterInv, FinalizerKept, HasId, Ended
    <2> QED BY <1>1, <2>1, <2>2, <2>3, <2>4, StoreWrites
  <1> QED BY <1>2, <1>3

\* No write at all
LEMMA IdleWrites ==
    ASSUME ClusterInv, UNCHANGED db
    PROVE  Writes /\ (Held => Held')
  <1>1. UNCHANGED <<cluster, feeds>>
    BY DEF db
  <1>2. (Held' <=> Held) /\ (Ended' <=> Ended) /\ (HasId(cluster') <=> HasId(cluster))
    BY <1>1 DEF Held, Ended, HasId
  <1> QED BY <1>1, <1>2 DEF Writes, ClusterInv, ClusterTypeOK, FinalizerKept

-----------------------------------------------------------------------------
(* The invariant across a step                                             *)

\* What a step does to everything but the database and the infrastructure controller
RestTyped ==
    /\ im' \in [Ids -> Replies \cup {Unused, Gone}]
    /\ scenario' = scenario /\ budget' \in [Kinds -> Nat]
    /\ kqueue' \in Versions \cup {Null}
    /\ observer' \in Observers \cup {Null}
    /\ health' \in {"ok", "pressure", "notready", "down"}

\* The ids that the controller of clusters may write back are those of a cluster that
\* has the finalizer, or is in deletion.
SeenIds == HasId(kqueue) \/ (observer # Null /\ HasId(observer.resource))

\* What a version vouches for after a step
VouchesThen(v) ==
    ~v.deleted =>
      /\ HasFinalizer(v) => Held'
      /\ v.status.cluster_id # Null => HasFinalizer(v)

\* A step that leaves the queue alone: writes keep the order of versions, and the
\* finalizer is lost only to a handler of a version in deletion.
LEMMA StepKeeps ==
    ASSUME ClusterInv, Writes, RestTyped, UNCHANGED queue,
           SeenIds' => Held' \/ Ended',
           worker' \in {Idle} \cup [pc: Points, copy: Versions], CopyFits',
           worker' # Idle /\ worker'.copy.deleted => worker # Idle /\ worker.copy.deleted,
           (Held => Held') \/ (worker # Idle /\ worker.copy.deleted)
    PROVE  ClusterInv'
  <1> DEFINE feed == feeds["infrastructure"]
             next == feeds'["infrastructure"]
  <1>1. feed \in Seq(Versions) /\ next \in Seq(Versions)
    BY DEF ClusterInv, ClusterTypeOK, Writes, Controllers
  <1>2. \A i \in DOMAIN next :
          \/ i \in DOMAIN feed /\ next[i] = feed[i]
          \/ i > Len(feed) /\ (next[i].deleted <=> Ended') /\ (~next[i].deleted => next[i] = cluster')
    BY DEF Writes
  <1>3. DOMAIN feed = 1 .. Len(feed) /\ DOMAIN next \subseteq Nat /\ Len(feed) \in Nat
    BY <1>1
  <1>4. /\ \A i, j \in DOMAIN feed : i < j /\ feed[i].deleted => feed[j].deleted
        /\ \A i \in DOMAIN feed : feed[i].deleted => Ended
        /\ AllDeleted <=> \A i \in DOMAIN feed : feed[i].deleted
        /\ AllDeleted' <=> \A i \in DOMAIN next : next[i].deleted
    BY DEF ClusterInv, DeletionIsLast, AllDeleted
  <1>5. Ended => Ended'
    BY DEF Writes
  <1>6. ClusterTypeOK'
    BY DEF ClusterInv, ClusterTypeOK, Writes, RestTyped
  <1> HIDE DEF feed, next
  <1>7. AllDeleted /\ Ended => AllDeleted'
    BY <1>2, <1>4, <1>5
  <1>8. DeletionIsLast'
    <2>1. ASSUME NEW i \in DOMAIN next, NEW j \in DOMAIN next, i < j, next[i].deleted
          PROVE  next[j].deleted
      BY <1>2, <1>3, <1>4, <1>5, <2>1
    <2>2. ASSUME NEW i \in DOMAIN next, next[i].deleted
          PROVE  Ended'
      BY <1>2, <1>4, <1>5, <2>2
    <2>3. queue'.timer # Null => queue'.timer.deleted /\ Ended' /\ AllDeleted'
      BY <1>5, <1>7 DEF ClusterInv, DeletionIsLast
    <2>4. queue'.dirty # Null /\ queue'.dirty.deleted => Ended' /\ AllDeleted'
      BY <1>5, <1>7 DEF ClusterInv, DeletionIsLast
    <2>5. worker' # Idle /\ worker'.copy.deleted =>
            Ended' /\ AllDeleted' /\ (queue'.dirty # Null => queue'.dirty.deleted)
      BY <1>5, <1>7 DEF ClusterInv, DeletionIsLast
    <2> QED BY <2>1, <2>2, <2>3, <2>4, <2>5 DEF DeletionIsLast, next
  <1>9. /\ \A i \in DOMAIN feed : Vouches(feed[i])
        /\ queue.dirty # Null => Vouches(queue.dirty)
    BY DEF ClusterInv, FinalizerKept, feed
  <1>10. \/ Held => Held'
         \/ /\ \A i \in DOMAIN feed : feed[i].deleted
            /\ queue.dirty # Null => queue.dirty.deleted
    BY <1>4 DEF ClusterInv, DeletionIsLast
  <1>11. ASSUME NEW i \in DOMAIN next
         PROVE  VouchesThen(next[i])
    <2>1. SUFFICES ASSUME ~next[i].deleted
                   PROVE  /\ HasFinalizer(next[i]) => Held'
                          /\ next[i].status.cluster_id # Null => HasFinalizer(next[i])
      BY DEF VouchesThen
    <2>2. CASE i \in DOMAIN feed /\ next[i] = feed[i]
      BY <1>9, <1>10, <2>1, <2>2 DEF Vouches, HasFinalizer
    <2>3. CASE next[i] = cluster' /\ ~Ended'
      <3>1. HasId(cluster') => Held'
        BY <2>3 DEF Writes
      <3> QED BY <2>3, <3>1 DEF Held, HasId, Ended, HasFinalizer
    <2> QED BY <1>2, <2>1, <2>2, <2>3
  <1>12. queue'.dirty # Null => VouchesThen(queue'.dirty)
    BY <1>9, <1>10 DEF Vouches, VouchesThen, HasFinalizer
  <1>13. Held \/ Ended => Held' \/ Ended'
    BY DEF Writes
  <1>14. ASSUME NEW i \in DOMAIN feeds'["kubernetes"], HasId(feeds'["kubernetes"][i])
         PROVE  Held' \/ Ended'
    <2>1. CASE \E j \in DOMAIN feeds["kubernetes"] :
                 feeds'["kubernetes"][i] = feeds["kubernetes"][j]
      BY <1>13, <1>14, <2>1 DEF ClusterInv, FinalizerKept
    <2>2. CASE feeds'["kubernetes"][i] = cluster'
      BY <1>14, <2>2 DEF Writes
    <2> QED BY <2>1, <2>2 DEF Writes
  <1>15. HasId(cluster') => Held' \/ Ended'
    BY DEF Writes
  <1>16. FinalizerKept'
    <2>1. \A i \in DOMAIN feeds'["infrastructure"] : VouchesThen(feeds'["infrastructure"][i])
      BY <1>11 DEF next
    <2>2. \/ HasId(cluster') \/ HasId(kqueue') \/ (observer' # Null /\ HasId(observer'.resource))
          \/ \E i \in DOMAIN feeds'["kubernetes"] : HasId(feeds'["kubernetes"][i])
          => Held' \/ Ended'
      BY <1>14, <1>15 DEF SeenIds
    <2> QED BY <1>12, <2>1, <2>2 DEF FinalizerKept, HasId, Vouches, VouchesThen, HasFinalizer
  <1> QED BY <1>6, <1>8, <1>16 DEF ClusterInv

-----------------------------------------------------------------------------
(* The handler of the infrastructure controller                            *)

DeletePoints == {"read", "delete", "deleting", "leaving", "release"}
CreatePoints == {"finalize", "apply", "create", "reconcile", "created", "reconfigure",
                 "poll", "connect", "kubeconfig", "hand over"}
WithPoints == {"finalize", "apply", "create", "reconcile", "connect", "kubeconfig", "hand over"}

\* What a step of the handler does to the rest
HandlerFrame ==
    /\ UNCHANGED <<queue, scenario, kubeVars>>
    /\ im' \in [Ids -> Replies \cup {Unused, Gone}]
    /\ budget' \in [Kinds -> Nat]

\* A handler that is not idle has a copy, which fits the point where it is.
LEMMA CopyTyped ==
    ASSUME ClusterInv, worker.pc \in Points
    PROVE  /\ worker # Idle /\ worker.copy \in Versions
           /\ worker = At(worker.pc, worker.copy)
           /\ worker.pc \in DeletePoints => worker.copy.deleted
           /\ worker.pc \in CreatePoints => ~worker.copy.deleted
           /\ worker.pc \in WithPoints => HasFinalizer(worker.copy)
           /\ worker.pc = "finalize" => worker.copy.status.cluster_id = Null
           /\ worker.pc # "finalize" => Vouches(worker.copy)
  <1>1. worker # Idle
    <2>1. Idle.pc = "idle"
      BY DEF Idle
    <2> QED BY <2>1 DEF Points
  <1>2. worker \in [pc: Points, copy: Versions]
    BY <1>1 DEF ClusterInv, ClusterTypeOK
  <1> QED BY <1>1, <1>2 DEF ClusterInv, FinalizerKept, CopyFits, DeletePoints, CreatePoints,
                            WithPoints, HasFinalizer, At

\* The steps of the handler do not concern the other controller.
LEMMA FrameKeeps ==
    ASSUME ClusterInv, Writes, HandlerFrame,
           worker' \in {Idle} \cup [pc: Points, copy: Versions], CopyFits',
           worker' # Idle /\ worker'.copy.deleted => worker # Idle /\ worker.copy.deleted,
           (Held => Held') \/ (worker # Idle /\ worker.copy.deleted)
    PROVE  ClusterInv'
  <1>1. RestTyped
    BY DEF ClusterInv, ClusterTypeOK, HandlerFrame, RestTyped, kubeVars
  <1>2. SeenIds' => Held' \/ Ended'
    <2>1. SeenIds' => SeenIds
      BY DEF SeenIds, HasId, HandlerFrame, kubeVars
    <2>2. SeenIds => Held \/ Ended
      BY DEF SeenIds, ClusterInv, FinalizerKept
    <2> QED BY <2>1, <2>2 DEF Writes
  <1> QED BY <1>1, <1>2, StepKeeps DEF HandlerFrame

\* The handler goes on with a copy of the same metadata; an id is new only in a copy
\* that has the finalizer.
LEMMA CopyGoes ==
    ASSUME ClusterInv, Writes, Held => Held', HandlerFrame,
           worker.pc \in Points \ {"finalize"},
           NEW pc \in Points \ {"finalize"}, NEW c \in Versions, worker' = At(pc, c),
           c.deleted = worker.copy.deleted,
           c.finalizers = worker.copy.finalizers \/ c.deleted,
           c.status.cluster_id \in {Null, worker.copy.status.cluster_id} \/ HasFinalizer(c),
           pc \in DeletePoints => c.deleted,
           pc \in CreatePoints => ~c.deleted,
           pc \in WithPoints => HasFinalizer(c)
    PROVE  ClusterInv'
  <1>1. worker # Idle /\ worker.copy \in Versions /\ Vouches(worker.copy)
    BY CopyTyped
  <1>2. /\ worker' \in [pc: Points, copy: Versions]
        /\ worker'.pc = pc /\ worker'.copy = c
    BY DEF At
  <1>3. VouchesThen(c)
    BY <1>1 DEF Vouches, VouchesThen, HasFinalizer
  <1>4. CopyFits'
    BY <1>2, <1>3
       DEF CopyFits, Vouches, VouchesThen, HasFinalizer, DeletePoints, CreatePoints, WithPoints
  <1> QED BY <1>1, <1>2, <1>4, FrameKeeps

\* The handler ends.
LEMMA HandlerStops ==
    ASSUME ClusterInv, Writes, HandlerFrame, worker.pc \in Points, worker' = Idle,
           (Held => Held') \/ worker.copy.deleted
    PROVE  ClusterInv'
  <1>1. CopyFits'
    BY DEF CopyFits
  <1> QED BY <1>1, CopyTyped, FrameKeeps

\* A copy with another state
LEMMA StateTyped ==
    ASSUME NEW c \in Versions, NEW st \in ClusterStates
    PROVE  LET d == [c EXCEPT !.status.state = st] IN
           /\ d \in Versions /\ d.deleted = c.deleted /\ d.finalizers = c.finalizers
           /\ d.status.cluster_id = c.status.cluster_id /\ d.tosca = c.tosca
  BY DEF Versions, Statuses

\* process_cluster reports an error with the copy it has.
LEMMA FailsWith ==
    ASSUME ClusterInv, Writes, Held => Held', HandlerFrame,
           worker.pc \in Points \ {"finalize"},
           worker' = FailWith(worker.copy)
    PROVE  ClusterInv'
  <1> DEFINE c == [worker.copy EXCEPT !.status.state = "FAILED"]
  <1>1. worker.copy \in Versions
    BY CopyTyped
  <1>2. /\ c \in Versions /\ c.deleted = worker.copy.deleted
        /\ c.finalizers = worker.copy.finalizers
        /\ c.status.cluster_id = worker.copy.status.cluster_id
    BY <1>1, StateTyped DEF ClusterStates
  <1>3. worker' = At("fail", c)
    BY DEF FailWith
  <1> HIDE DEF c
  <1> QED BY <1>2, <1>3, CopyGoes DEF Points, DeletePoints, CreatePoints, WithPoints

\* A status update with the id of the copy, or none
LEMMA SaveStatusWrites ==
    ASSUME ClusterInv, worker.pc \in Points \ {"finalize"}, NEW c \in Versions, NEW next,
           c.status.cluster_id \in {Null, worker.copy.status.cluster_id},
           SaveStatus(c, next)
    PROVE  Writes /\ (Held => Held') /\ (worker' = Idle \/ worker' = next)
  <1>1. CASE cluster = Null
    BY <1>1, IdleWrites DEF SaveStatus, Dropped
  <1>2. CASE cluster # Null
    <2>1. UpdateStatus(c) /\ worker' = next
      BY <1>2 DEF SaveStatus
    <2>2. worker # Idle /\ worker.copy \in Versions /\ Vouches(worker.copy)
      BY CopyTyped
    <2>3. HasId(c) => Held \/ Ended
      BY <2>2 DEF Vouches, HasId, ClusterInv, DeletionIsLast
    <2> QED BY <1>2, <2>1, <2>3, UpdateStatusWrites
  <1> QED BY <1>1, <1>2

\* A status update after which the handler goes on with the copy it sent
LEMMA SaveStatusGoes ==
    ASSUME ClusterInv, HandlerFrame, worker.pc \in Points \ {"finalize"},
           NEW pc \in Points \ {"finalize"}, NEW c \in Versions, SaveStatus(c, At(pc, c)),
           c.deleted = worker.copy.deleted, c.finalizers = worker.copy.finalizers,
           c.status.cluster_id = worker.copy.status.cluster_id,
           pc \in DeletePoints => c.deleted,
           pc \in CreatePoints => ~c.deleted,
           pc \in WithPoints => HasFinalizer(c)
    PROVE  ClusterInv'
  <1>1. Writes /\ (Held => Held') /\ (worker' = Idle \/ worker' = At(pc, c))
    BY SaveStatusWrites
  <1>2. CASE worker' = Idle
    BY <1>1, <1>2, HandlerStops
  <1>3. CASE worker' = At(pc, c)
    BY <1>1, <1>3, CopyGoes
  <1> QED BY <1>1, <1>2, <1>3

\* What may happen only so often can happen that often.
LEMMA SpendTyped ==
    ASSUME ClusterInv, NEW k \in Kinds, Spend(k)
    PROVE  budget' \in [Kinds -> Nat]
  BY DEF ClusterInv, ClusterTypeOK, Spend

\* Replies of IM that the requests of the handler lead to
LEMMA ImTyped ==
    ASSUME ClusterInv
    PROVE  /\ UNCHANGED im => im' \in [Ids -> Replies \cup {Unused, Gone}]
           /\ \A id : ImCreate(id) \/ ImWork(id) \/ ImDelete(id)
                => im' \in [Ids -> Replies \cup {Unused, Gone}]
  <1>1. im \in [Ids -> Replies \cup {Unused, Gone}]
    BY DEF ClusterInv, ClusterTypeOK
  <1>2. Configuring \in Replies /\ Leaving \in Replies
    BY DEF Replies
  <1> QED BY <1>1, <1>2 DEF ImCreate, ImWork, ImDelete

\* The worker takes a version from the queue.
LEMMA TakeStep ==
    ASSUME ClusterInv, Take, UNCHANGED kubeVars
    PROVE  ClusterInv'
  <1>1. /\ worker = Idle /\ queue.dirty # Null
        /\ worker' = At("resolve", queue.dirty) /\ queue' = [queue EXCEPT !.dirty = Null]
        /\ UNCHANGED <<cluster, feeds, im, scenario, budget, kqueue, observer, health>>
    BY DEF Take, db, kubeVars
  <1>2. queue \in [dirty: Versions \cup {Null}, timer: Versions \cup {Null}]
    BY DEF ClusterInv, ClusterTypeOK
  <1>3. /\ queue.dirty \in Versions
        /\ queue' \in [dirty: Versions \cup {Null}, timer: Versions \cup {Null}]
        /\ queue'.dirty = Null /\ queue'.timer = queue.timer
    BY <1>1, <1>2
  <1>4. /\ worker' \in [pc: Points, copy: Versions]
        /\ worker'.pc = "resolve" /\ worker'.copy = queue.dirty
    BY <1>1, <1>3 DEF At, Points
  <1>5. (Ended' <=> Ended) /\ (Held' <=> Held) /\ (AllDeleted' <=> AllDeleted)
    BY <1>1 DEF Ended, Held, AllDeleted
  <1>6. ClusterTypeOK'
    BY <1>1, <1>3, <1>4 DEF ClusterInv, ClusterTypeOK
  <1>7. DeletionIsLast'
    BY <1>1, <1>3, <1>4, <1>5 DEF ClusterInv, DeletionIsLast
  <1>8. CopyFits'
    <2>1. ~queue.dirty.deleted =>
            /\ Finalizer \in ToSet(queue.dirty.finalizers) => Held'
            /\ queue.dirty.status.cluster_id # Null =>
                 Finalizer \in ToSet(queue.dirty.finalizers)
      BY <1>1, <1>5 DEF ClusterInv, FinalizerKept, Vouches
    <2> QED BY <1>4, <2>1 DEF CopyFits, Vouches
  <1>9. FinalizerKept'
    BY <1>1, <1>3, <1>5, <1>8 DEF ClusterInv, FinalizerKept, Vouches, HasId
  <1> QED BY <1>6, <1>7, <1>9 DEF ClusterInv

\* reconcile_cluster goes on with what it was given; only the finalizer is new.
LEMMA ReconciledFits ==
    ASSUME ClusterInv, NEW c \in Versions, ~c.deleted, Vouches(c), Reconciled(c) # Idle
    PROVE  LET w == Reconciled(c) IN
           \/ w = At("finalize", [c EXCEPT !.finalizers = Append(@, Finalizer)])
                /\ c.status.cluster_id = Null
           \/ w = At("apply", c) /\ HasFinalizer(c)
           \/ w \in {At("reconfigure", c), At("poll", c)}
  BY DEF Reconciled, Vouches, HasFinalizer

\* get_cloud and get_infrastructure_provider
LEMMA ResolveStep ==
    ASSUME ClusterInv, Resolve, UNCHANGED kubeVars
    PROVE  ClusterInv'
  <1> DEFINE c == worker.copy
  <1>1. /\ worker.pc = "resolve" /\ UNCHANGED <<db, queue, im, scenario, budget>>
        /\ \/ worker' = FailWith(c)
           \/ c.deleted /\ worker' = At("read", c)
           \/ ~c.deleted /\ worker' = Reconciled(c)
    BY DEF Resolve
  <1>2. worker.pc \in Points \ {"finalize"}
    BY <1>1 DEF Points
  <1>3. c \in Versions /\ Vouches(c) /\ worker # Idle
    BY <1>2, CopyTyped
  <1>4. Writes /\ (Held => Held') /\ HandlerFrame
    BY <1>1, IdleWrites, ImTyped DEF HandlerFrame, ClusterInv, ClusterTypeOK
  <1> HIDE DEF c
  <1>5. CASE worker' = FailWith(c)
    BY <1>2, <1>4, <1>5, FailsWith DEF c
  <1>6. CASE c.deleted /\ worker' = At("read", c)
    BY <1>2, <1>3, <1>4, <1>6, CopyGoes DEF Points, DeletePoints, CreatePoints, WithPoints, c
  <1>7. CASE ~c.deleted /\ worker' = Reconciled(c)
    <2>1. CASE worker' = Idle
      BY <1>2, <1>4, <2>1, HandlerStops
    <2>2. CASE /\ c.status.cluster_id = Null
               /\ worker' = At("finalize", [c EXCEPT !.finalizers = Append(@, Finalizer)])
      <3> DEFINE d == [c EXCEPT !.finalizers = Append(@, Finalizer)]
      <3>1. c.finalizers \in Seq(Finalizers)
        BY <1>3 DEF Versions, Finalizers
      <3>2. /\ Append(c.finalizers, Finalizer) \in Seq({Finalizer, Cascade})
            /\ Finalizer \in ToSet(Append(c.finalizers, Finalizer))
        BY <3>1, FinalizersTyped DEF Finalizers
      <3>3. /\ d \in Versions /\ d.deleted = c.deleted /\ d.status = c.status
            /\ d.finalizers = Append(c.finalizers, Finalizer)
        BY <1>3, <3>2 DEF Versions
      <3> HIDE DEF d
      <3>4. /\ worker' \in [pc: Points, copy: Versions]
            /\ worker'.pc = "finalize" /\ worker'.copy = d
        BY <2>2, <3>3 DEF At, Points, d
      <3>5. CopyFits'
        BY <1>7, <2>2, <3>2, <3>3, <3>4 DEF CopyFits
      <3> QED BY <1>4, <1>7, <3>3, <3>4, <3>5, FrameKeeps
    <2>3. CASE HasFinalizer(c) /\ worker' = At("apply", c)
      BY <1>2, <1>3, <1>4, <1>7, <2>3, CopyGoes
         DEF Points, DeletePoints, CreatePoints, WithPoints, c
    <2>4. CASE worker' \in {At("reconfigure", c), At("poll", c)}
      BY <1>2, <1>3, <1>4, <1>7, <2>4, CopyGoes
         DEF Points, DeletePoints, CreatePoints, WithPoints, c
    <2> QED BY <1>3, <1>7, <2>1, <2>2, <2>3, <2>4, ReconciledFits
  <1> QED BY <1>1, <1>5, <1>6, <1>7

\* The finalizer is in the database before infrastructure is created: update_cluster
\* adds it to the copy and to the cluster, or the handler ends.
LEMMA FinalizeStep ==
    ASSUME ClusterInv, Finalize, UNCHANGED kubeVars
    PROVE  ClusterInv'
  <1> DEFINE c == worker.copy
  <1>1. /\ worker.pc = "finalize" /\ SaveResource(c, At("apply", c), Idle)
        /\ UNCHANGED <<queue, im, scenario, budget>>
    BY DEF Finalize
  <1>2. worker.pc \in Points
    BY <1>1 DEF Points
  <1>3. c \in Versions /\ worker # Idle /\ HasFinalizer(c) /\ ~c.deleted
          /\ c.status.cluster_id = Null
    BY <1>1, <1>2, CopyTyped DEF CreatePoints, WithPoints
  <1>4. HandlerFrame
    BY <1>1, ImTyped DEF HandlerFrame, ClusterInv, ClusterTypeOK
  <1>5. CASE worker' = Idle /\ UNCHANGED db
    BY <1>2, <1>4, <1>5, IdleWrites, HandlerStops
  <1>6. CASE cluster # Null /\ Update(c) /\ worker' = At("apply", c)
    <2>1. Writes /\ Held'
      BY <1>3, <1>6, UpdateWrites
    <2>2. /\ worker' \in [pc: Points, copy: Versions]
          /\ worker'.pc = "apply" /\ worker'.copy = c
      BY <1>3, <1>6 DEF At, Points
    <2>3. CopyFits'
      <3> HIDE DEF c
      <3> QED BY <1>3, <2>1, <2>2 DEF CopyFits, Vouches, HasFinalizer
    <2> HIDE DEF c
    <2> QED BY <1>3, <1>4, <2>1, <2>2, <2>3, FrameKeeps
  <1> QED BY <1>1, <1>5, <1>6 DEF SaveResource, Dropped

\* on_create and on_reconcile report before they ask IM.
LEMMA ApplyStep ==
    ASSUME ClusterInv, Apply, UNCHANGED kubeVars
    PROVE  ClusterInv'
  <1>1. worker.pc = "apply" /\ UNCHANGED <<queue, im, scenario, budget>>
    BY DEF Apply
  <1>2. worker.pc \in Points \ {"finalize"}
    BY <1>1 DEF Points
  <1>3. worker.copy \in Versions /\ ~worker.copy.deleted /\ HasFinalizer(worker.copy)
    BY <1>1, <1>2, CopyTyped DEF CreatePoints, WithPoints
  <1>4. HandlerFrame
    BY <1>1, ImTyped DEF HandlerFrame, ClusterInv, ClusterTypeOK
  <1>5. PICK st \in ClusterStates, pc \in {"create", "reconcile"} :
          LET c == [worker.copy EXCEPT !.status.state = st] IN SaveStatus(c, At(pc, c))
    BY DEF Apply, ClusterStates
  <1> DEFINE c == [worker.copy EXCEPT !.status.state = st]
  <1>6. /\ c \in Versions /\ c.deleted = worker.copy.deleted
        /\ c.finalizers = worker.copy.finalizers
        /\ c.status.cluster_id = worker.copy.status.cluster_id
    BY <1>3, StateTyped
  <1>7. SaveStatus(c, At(pc, c))
    BY <1>5
  <1> HIDE DEF c
  <1>8. HasFinalizer(c) /\ pc \in Points \ {"finalize"} /\ pc \notin DeletePoints
    BY <1>3, <1>6 DEF HasFinalizer, Points, DeletePoints
  <1> QED BY <1>2, <1>3, <1>4, <1>6, <1>7, <1>8, SaveStatusGoes

\* create: the copy has the finalizer when it is given its id.
LEMMA CreateStep ==
    ASSUME ClusterInv, Create, UNCHANGED kubeVars
    PROVE  ClusterInv'
  <1> DEFINE c == worker.copy
             d(id) == [c EXCEPT !.status.cluster_id = id, !.status.running_on = TRUE,
                                !.status.last_applied = c.tosca]
  <1>1. worker.pc = "create" /\ UNCHANGED <<db, queue, scenario>>
    BY DEF Create
  <1>2. worker.pc \in Points \ {"finalize"}
    BY <1>1 DEF Points
  <1>3. c \in Versions /\ ~c.deleted /\ HasFinalizer(c)
    BY <1>1, <1>2, CopyTyped DEF CreatePoints, WithPoints
  <1>4. Writes /\ (Held => Held')
    BY <1>1, IdleWrites
  <1>5. CASE \E id \in Ids : ImCreate(id) /\ worker' = At("created", d(id)) /\ UNCHANGED budget
    <2>1. PICK id \in Ids : ImCreate(id) /\ worker' = At("created", d(id)) /\ UNCHANGED budget
      BY <1>5
    <2>2. HandlerFrame
      BY <1>1, <2>1, ImTyped DEF HandlerFrame, ClusterInv, ClusterTypeOK
    <2>3. /\ d(id) \in Versions /\ d(id).deleted = c.deleted
          /\ d(id).finalizers = c.finalizers
      BY <1>3 DEF Versions, Statuses
    <2> HIDE DEF d
    <2>4. HasFinalizer(d(id))
      BY <1>3, <2>3 DEF HasFinalizer
    <2> QED BY <1>2, <1>3, <1>4, <2>1, <2>2, <2>3, <2>4, CopyGoes
            DEF Points, DeletePoints, WithPoints
  <1>6. CASE /\ \/ \E id \in Ids : ImCreate(id) /\ Spend("lost")
                \/ UNCHANGED im /\ Spend("refuse")
             /\ worker' = FailWith(c)
    <2>1. HandlerFrame
      BY <1>1, <1>6, ImTyped, SpendTyped DEF HandlerFrame, Kinds
    <2> QED BY <1>2, <1>4, <1>6, <2>1, FailsWith
  <1> QED BY <1>5, <1>6 DEF Create

\* reconcile
LEMMA ReconcileStep ==
    ASSUME ClusterInv, Reconcile, UNCHANGED kubeVars
    PROVE  ClusterInv'
  <1> DEFINE c == worker.copy
             d == [c EXCEPT !.status.last_applied = c.tosca]
  <1>1. worker.pc = "reconcile" /\ UNCHANGED <<db, queue, scenario>>
    BY DEF Reconcile
  <1>2. worker.pc \in Points \ {"finalize"}
    BY <1>1 DEF Points
  <1>3. c \in Versions /\ ~c.deleted
    BY <1>1, <1>2, CopyTyped DEF CreatePoints
  <1>4. Writes /\ (Held => Held')
    BY <1>1, IdleWrites
  <1>5. CASE /\ ImWork(c.status.cluster_id)
             /\ worker' = At("created", d) /\ UNCHANGED budget
    <2>1. HandlerFrame
      BY <1>1, <1>5, ImTyped DEF HandlerFrame, ClusterInv, ClusterTypeOK
    <2>2. /\ d \in Versions /\ d.deleted = c.deleted /\ d.finalizers = c.finalizers
          /\ d.status.cluster_id = c.status.cluster_id
      BY <1>3 DEF Versions, Statuses
    <2> HIDE DEF d
    <2> QED BY <1>2, <1>3, <1>4, <1>5, <2>1, <2>2, CopyGoes DEF Points, DeletePoints, WithPoints
  <1>6. CASE /\ UNCHANGED <<im, budget>> \/ (UNCHANGED im /\ Spend("refuse"))
             /\ worker' = FailWith(c)
    <2>1. HandlerFrame
      BY <1>1, <1>6, ImTyped, SpendTyped DEF HandlerFrame, Kinds, ClusterInv, ClusterTypeOK
    <2> QED BY <1>2, <1>4, <1>6, <2>1, FailsWith
  <1> QED BY <1>5, <1>6 DEF Reconcile

\* The status updates that the handler waits for: those of on_create and on_reconcile,
\* of wait_for_connecting, of delete_cluster and of process_cluster
LEMMA SaveSteps ==
    ASSUME ClusterInv, SaveApplied \/ SaveGiveUp \/ Connect \/ SaveDeleting \/ Fail,
           UNCHANGED kubeVars
    PROVE  ClusterInv'
  <1> DEFINE c == worker.copy
  <1>1. /\ worker.pc \in {"created", "give up", "connect", "deleting", "fail"}
        /\ UNCHANGED <<queue, im, scenario, budget>>
    BY DEF SaveApplied, SaveGiveUp, Connect, SaveDeleting, Fail
  <1>2. worker.pc \in Points \ {"finalize"}
    BY <1>1 DEF Points
  <1>3. c \in Versions
    BY <1>2, CopyTyped
  <1>4. HandlerFrame
    BY <1>1, ImTyped DEF HandlerFrame, ClusterInv, ClusterTypeOK
  <1>5. CASE SaveApplied
    <2>1. worker.pc = "created" /\ SaveStatus(c, At("poll", c)) /\ ~c.deleted
      BY <1>2, <1>5, CopyTyped DEF SaveApplied, CreatePoints
    <2> QED BY <1>2, <1>3, <1>4, <2>1, SaveStatusGoes DEF Points, DeletePoints, WithPoints
  <1>6. CASE SaveGiveUp
    <2>1. SaveStatus(c, FailWith(c))
      BY <1>6 DEF SaveGiveUp
    <2>2. Writes /\ (Held => Held') /\ (worker' = Idle \/ worker' = FailWith(c))
      BY <1>2, <1>3, <2>1, SaveStatusWrites
    <2> QED BY <1>2, <1>4, <2>2, FailsWith, HandlerStops
  <1>7. CASE Connect
    <2>1. worker.pc = "connect" /\ SaveStatus(c, At("kubeconfig", c))
            /\ ~c.deleted /\ HasFinalizer(c)
      BY <1>2, <1>7, CopyTyped DEF Connect, CreatePoints, WithPoints
    <2> QED BY <1>2, <1>3, <1>4, <2>1, SaveStatusGoes DEF Points, DeletePoints
  <1>8. CASE SaveDeleting
    <2>1. worker.pc = "deleting" /\ SaveStatus(c, At("leaving", c)) /\ c.deleted
      BY <1>2, <1>8, CopyTyped DEF SaveDeleting, DeletePoints
    <2> QED BY <1>2, <1>3, <1>4, <2>1, SaveStatusGoes DEF Points, CreatePoints, WithPoints
  <1>9. CASE Fail
    <2>1. SaveStatus(c, Idle)
      BY <1>9 DEF Fail
    <2>2. Writes /\ (Held => Held') /\ worker' = Idle
      BY <1>2, <1>3, <2>1, SaveStatusWrites
    <2> QED BY <1>2, <1>4, <2>2, HandlerStops
  <1> QED BY <1>5, <1>6, <1>7, <1>8, <1>9

\* on_reconfigure: the copy gets another state.
LEMMA ReconfigureStep ==
    ASSUME ClusterInv, Reconfigure, UNCHANGED kubeVars
    PROVE  ClusterInv'
  <1> DEFINE c == worker.copy
  <1>1. worker.pc = "reconfigure" /\ UNCHANGED <<db, queue, scenario>>
    BY DEF Reconfigure
  <1>2. worker.pc \in Points \ {"finalize"}
    BY <1>1 DEF Points
  <1>3. c \in Versions /\ ~c.deleted
    BY <1>1, <1>2, CopyTyped DEF CreatePoints
  <1>4. Writes /\ (Held => Held')
    BY <1>1, IdleWrites
  <1>5. HandlerFrame
    <2>1. \/ UNCHANGED <<im, budget>> \/ (UNCHANGED im /\ Spend("refuse"))
          \/ (ImWork(c.status.cluster_id) /\ UNCHANGED budget)
      BY DEF Reconfigure
    <2> QED BY <1>1, <2>1, ImTyped, SpendTyped
            DEF HandlerFrame, Kinds, ClusterInv, ClusterTypeOK
  <1>6. \/ worker' = Idle
        \/ \E st \in ClusterStates, pc \in {"created", "give up"} :
             worker' = At(pc, [c EXCEPT !.status.state = st])
    BY DEF Reconfigure, GiveUp, ClusterStates
  <1>7. CASE worker' = Idle
    BY <1>2, <1>4, <1>5, <1>7, HandlerStops
  <1>8. ASSUME NEW st \in ClusterStates, NEW pc \in {"created", "give up"},
               worker' = At(pc, [c EXCEPT !.status.state = st])
        PROVE  ClusterInv'
    <2> DEFINE d == [c EXCEPT !.status.state = st]
    <2>1. /\ d \in Versions /\ d.deleted = c.deleted /\ d.finalizers = c.finalizers
          /\ d.status.cluster_id = c.status.cluster_id
      BY <1>3, StateTyped
    <2>2. worker' = At(pc, d)
      BY <1>8
    <2> HIDE DEF d
    <2>3. pc \in Points \ {"finalize"} /\ pc \notin DeletePoints /\ pc \notin WithPoints
      BY DEF Points, DeletePoints, WithPoints
    <2> QED BY <1>2, <1>3, <1>4, <1>5, <2>1, <2>2, <2>3, CopyGoes
  <1> QED BY <1>6, <1>7, <1>8

\* wait_for_connecting goes on to the kubeconfig only with an id, hence a finalizer.
LEMMA PollStep ==
    ASSUME ClusterInv, Poll, UNCHANGED kubeVars
    PROVE  ClusterInv'
  <1> DEFINE c == worker.copy
             forgotten == [c EXCEPT !.status.cluster_id = Null, !.status.running_on = FALSE,
                                    !.status.last_applied = 0, !.status.state = "PENDING"]
  <1>1. worker.pc = "poll" /\ UNCHANGED <<db, queue, im, scenario>>
    BY DEF Poll
  <1>2. worker.pc \in Points \ {"finalize"}
    BY <1>1 DEF Points
  <1>3. c \in Versions /\ ~c.deleted /\ Vouches(c)
    BY <1>1, <1>2, CopyTyped DEF CreatePoints
  <1>4. Writes /\ (Held => Held')
    BY <1>1, IdleWrites
  <1>5. HandlerFrame
    <2>1. UNCHANGED budget \/ Spend("refuse")
      BY DEF Poll
    <2> QED BY <1>1, <2>1, ImTyped, SpendTyped
            DEF HandlerFrame, Kinds, ClusterInv, ClusterTypeOK
  <1>6. \/ worker' = At("give up", forgotten)
        \/ worker' = FailWith(c)
        \/ worker' = At("give up", [c EXCEPT !.status.state = "FAILING_RECONCILIATION"])
        \/ /\ GetState(c.status.cluster_id) = "CONFIGURED"
           /\ worker' = At("connect", [c EXCEPT !.status.state = "CONNECTING"])
    BY DEF Poll, GiveUp
  <1>7. CASE worker' = At("give up", forgotten)
    <2>1. /\ forgotten \in Versions /\ forgotten.deleted = c.deleted
          /\ forgotten.finalizers = c.finalizers /\ forgotten.status.cluster_id = Null
      BY <1>3, ClusterAssumption DEF Versions, Statuses, ClusterStates
    <2> HIDE DEF forgotten
    <2> QED BY <1>2, <1>3, <1>4, <1>5, <1>7, <2>1, CopyGoes
            DEF Points, DeletePoints, CreatePoints, WithPoints
  <1>8. CASE worker' = FailWith(c)
    BY <1>2, <1>4, <1>5, <1>8, FailsWith
  <1>9. CASE worker' = At("give up", [c EXCEPT !.status.state = "FAILING_RECONCILIATION"])
    <2> DEFINE d == [c EXCEPT !.status.state = "FAILING_RECONCILIATION"]
    <2>1. /\ d \in Versions /\ d.deleted = c.deleted /\ d.finalizers = c.finalizers
          /\ d.status.cluster_id = c.status.cluster_id
      BY <1>3, StateTyped DEF ClusterStates
    <2>2. worker' = At("give up", d)
      BY <1>9
    <2> HIDE DEF d
    <2> QED BY <1>2, <1>4, <1>5, <2>1, <2>2, CopyGoes
            DEF Points, DeletePoints, CreatePoints, WithPoints
  <1>10. CASE /\ GetState(c.status.cluster_id) = "CONFIGURED"
              /\ worker' = At("connect", [c EXCEPT !.status.state = "CONNECTING"])
    <2> DEFINE d == [c EXCEPT !.status.state = "CONNECTING"]
    <2>1. /\ d \in Versions /\ d.deleted = c.deleted /\ d.finalizers = c.finalizers
          /\ d.status.cluster_id = c.status.cluster_id
      BY <1>3, StateTyped DEF ClusterStates
    <2>2. worker' = At("connect", d)
      BY <1>10
    <2>3. c.status.cluster_id # Null
      BY <1>10 DEF GetState
    <2> HIDE DEF d
    <2>4. HasFinalizer(d)
      BY <1>3, <2>1, <2>3 DEF Vouches, HasFinalizer
    <2> QED BY <1>2, <1>3, <1>4, <1>5, <2>1, <2>2, <2>4, CopyGoes DEF Points, DeletePoints
  <1> QED BY <1>6, <1>7, <1>8, <1>9, <1>10

\* get_kubeconfig
LEMMA GetKubeconfigStep ==
    ASSUME ClusterInv, GetKubeconfig, UNCHANGED kubeVars
    PROVE  ClusterInv'
  <1> DEFINE c == worker.copy
             d == [c EXCEPT !.kubeconfig = c.status.cluster_id]
  <1>1. worker.pc = "kubeconfig" /\ UNCHANGED <<db, queue, im, scenario>>
    BY DEF GetKubeconfig
  <1>2. worker.pc \in Points \ {"finalize"}
    BY <1>1 DEF Points
  <1>3. c \in Versions /\ ~c.deleted /\ HasFinalizer(c)
    BY <1>1, <1>2, CopyTyped DEF CreatePoints, WithPoints
  <1>4. Writes /\ (Held => Held')
    BY <1>1, IdleWrites
  <1>5. HandlerFrame
    <2>1. UNCHANGED budget \/ Spend("refuse")
      BY DEF GetKubeconfig
    <2> QED BY <1>1, <2>1, ImTyped, SpendTyped
            DEF HandlerFrame, Kinds, ClusterInv, ClusterTypeOK
  <1>6. CASE worker' = At("hand over", d)
    <2>1. /\ d \in Versions /\ d.deleted = c.deleted /\ d.finalizers = c.finalizers
          /\ d.status.cluster_id = c.status.cluster_id
      BY <1>3 DEF Versions, Statuses
    <2> HIDE DEF d
    <2>2. HasFinalizer(d)
      BY <1>3, <2>1 DEF HasFinalizer
    <2> QED BY <1>2, <1>3, <1>4, <1>5, <1>6, <2>1, <2>2, CopyGoes DEF Points, DeletePoints
  <1>7. CASE worker' = FailWith(c)
    BY <1>2, <1>4, <1>5, <1>7, FailsWith
  <1> QED BY <1>6, <1>7 DEF GetKubeconfig

\* The kubeconfig is handed over with the finalizer; a release removes it from a cluster
\* in deletion.
LEMMA ResourceSteps ==
    ASSUME ClusterInv, HandOver \/ Release, UNCHANGED kubeVars
    PROVE  ClusterInv'
  <1> DEFINE c == worker.copy
  <1>1. /\ worker.pc \in {"hand over", "release"} /\ SaveResource(c, Idle, Idle)
        /\ UNCHANGED <<queue, im, scenario, budget>>
    BY DEF HandOver, Release
  <1>2. worker.pc \in Points
    BY <1>1 DEF Points
  <1>3. c \in Versions /\ worker # Idle /\ (HasFinalizer(c) \/ c.deleted)
    BY <1>1, <1>2, CopyTyped DEF WithPoints, DeletePoints
  <1>4. HandlerFrame
    BY <1>1, ImTyped DEF HandlerFrame, ClusterInv, ClusterTypeOK
  <1>5. worker' = Idle
    BY <1>1 DEF SaveResource, Dropped
  <1>6. CASE UNCHANGED db
    BY <1>2, <1>4, <1>5, <1>6, IdleWrites, HandlerStops
  <1>7. CASE cluster # Null /\ Update(c)
    <2>1. c.deleted => cluster.deleted
      BY <1>3, <1>7 DEF ClusterInv, DeletionIsLast, Ended
    <2>2. Writes /\ (HasFinalizer(c) => Held')
      BY <1>3, <1>7, <2>1, UpdateWrites
    <2> QED BY <1>2, <1>3, <1>4, <1>5, <2>2, HandlerStops
  <1> QED BY <1>1, <1>6, <1>7 DEF SaveResource, Dropped

\* A copy without the finalizer of the controller
LEMMA ReleaseTyped ==
    ASSUME NEW c \in Versions
    PROVE  LET d == [c EXCEPT !.finalizers = RemoveFirst(@, Finalizer)] IN
           /\ d \in Versions /\ d.deleted = c.deleted
           /\ d.status.cluster_id = c.status.cluster_id
  <1> DEFINE fs == RemoveFirst(c.finalizers, Finalizer)
  <1>1. c.finalizers \in Seq({Finalizer, Cascade})
    BY DEF Versions
  <1>2. fs \in Seq({Finalizer, Cascade})
    BY <1>1, RemoveFirstTyped
  <1> HIDE DEF fs
  <1>3. LET d == [c EXCEPT !.finalizers = fs] IN
        /\ d \in Versions /\ d.deleted = c.deleted /\ d.status.cluster_id = c.status.cluster_id
    BY <1>2 DEF Versions
  <1> QED BY <1>3 DEF fs

\* delete_cluster, up to the first request to IM, and after the last
LEMMA DeletionSteps ==
    ASSUME ClusterInv, Read \/ DeleteInfrastructure \/ WaitDeleted, UNCHANGED kubeVars
    PROVE  ClusterInv'
  <1> DEFINE c == worker.copy
             released == [c EXCEPT !.finalizers = RemoveFirst(@, Finalizer)]
             deleting == [c EXCEPT !.status.state = "DELETING"]
  <1>1. /\ worker.pc \in {"read", "delete", "leaving"} /\ UNCHANGED <<db, queue, scenario>>
    BY DEF Read, DeleteInfrastructure, WaitDeleted
  <1>2. worker.pc \in Points \ {"finalize"}
    BY <1>1 DEF Points
  <1>3. c \in Versions /\ c.deleted
    BY <1>1, <1>2, CopyTyped DEF DeletePoints
  <1>4. Writes /\ (Held => Held')
    BY <1>1, IdleWrites
  <1>5. HandlerFrame
    <2>1. /\ UNCHANGED im \/ ImDelete(c.status.cluster_id)
          /\ UNCHANGED budget \/ Spend("refuse")
      BY DEF Read, DeleteInfrastructure, WaitDeleted
    <2> QED BY <1>1, <2>1, ImTyped, SpendTyped
            DEF HandlerFrame, Kinds, ClusterInv, ClusterTypeOK
  <1>6. /\ released \in Versions /\ released.deleted
        /\ released.status.cluster_id = c.status.cluster_id
        /\ deleting \in Versions /\ deleting.deleted
        /\ deleting.status.cluster_id = c.status.cluster_id
    <2>1. "DELETING" \in ClusterStates
      BY DEF ClusterStates
    <2> QED BY <1>3, <2>1, ReleaseTyped, StateTyped
  <1>7. \/ worker' = Idle \/ worker' = FailWith(c)
        \/ worker' = At("release", released) \/ worker' = At("deleting", deleting)
        \/ worker' \in {At("leaving", c), At("delete", c)}
    BY DEF Read, DeleteInfrastructure, WaitDeleted
  <1> HIDE DEF released, deleting
  <1>8. CASE worker' = Idle
    BY <1>2, <1>4, <1>5, <1>8, HandlerStops
  <1>9. CASE worker' = FailWith(c)
    BY <1>2, <1>4, <1>5, <1>9, FailsWith
  <1>10. ASSUME NEW pc \in {"release", "deleting", "leaving", "delete"},
                NEW d \in {released, deleting, c}, worker' = At(pc, d)
         PROVE  ClusterInv'
    <2>1. pc \in Points \ {"finalize"} /\ pc \notin CreatePoints /\ pc \notin WithPoints
      BY DEF Points, CreatePoints, WithPoints
    <2>2. /\ d \in Versions /\ d.deleted /\ d.deleted = c.deleted
          /\ d.status.cluster_id = c.status.cluster_id
      BY <1>3, <1>6 DEF Versions
    <2> QED BY <1>2, <1>4, <1>5, <1>10, <2>1, <2>2, CopyGoes
  <1> QED BY <1>7, <1>8, <1>9, <1>10

\* Every step of the handler
LEMMA HandlerStep ==
    ASSUME ClusterInv, Handler, UNCHANGED kubeVars
    PROVE  ClusterInv'
  BY TakeStep, ResolveStep, FinalizeStep, ApplyStep, CreateStep, ReconcileStep, SaveSteps,
     ReconfigureStep, PollStep, GetKubeconfigStep, ResourceSteps, DeletionSteps DEF Handler

-----------------------------------------------------------------------------
(* Versions on their way to the infrastructure controller                  *)

\* enqueue keeps versions in deletion for later, and others if they are scheduled.
LEMMA EnqueueTyped ==
    ASSUME ClusterTypeOK, NEW c \in Versions
    PROVE  LET q == Enqueue(c, queue) IN
           /\ q \in [dirty: Versions \cup {Null}, timer: Versions \cup {Null}]
           /\ q.timer = queue.timer \/ (q.timer = c /\ c.deleted)
           /\ q.dirty = queue.dirty \/ (q.dirty = c /\ ~c.deleted)
  <1>1. queue \in [dirty: Versions \cup {Null}, timer: Versions \cup {Null}]
    BY DEF ClusterTypeOK
  <1>2. c.deleted \in BOOLEAN
    BY DEF Versions
  <1>3. \/ Enqueue(c, queue) = queue
        \/ Enqueue(c, queue) = [queue EXCEPT !.timer = c] /\ c.deleted
        \/ Enqueue(c, queue) = [queue EXCEPT !.dirty = c] /\ ~c.deleted
    BY <1>2 DEF Enqueue
  <1> QED BY <1>1, <1>3

\* The controller receives the oldest version.
LEMMA ReceiveStep ==
    ASSUME ClusterInv, Receive, UNCHANGED kubeVars
    PROVE  ClusterInv'
  <1> DEFINE feed == feeds["infrastructure"]
             next == feeds'["infrastructure"]
             c == Head(feed)
  <1>1. /\ feed # <<>> /\ queue' = Enqueue(c, queue)
        /\ feeds' = [feeds EXCEPT !["infrastructure"] = Tail(@)]
        /\ UNCHANGED <<cluster, worker, im, scenario, budget, kqueue, observer, health>>
    BY DEF Receive, kubeVars
  <1>2. feeds \in [Controllers -> Seq(Versions)] /\ feed \in Seq(Versions)
    BY DEF ClusterInv, ClusterTypeOK, Controllers
  <1>3. /\ feeds' \in [Controllers -> Seq(Versions)] /\ next = Tail(feed)
        /\ feeds'["kubernetes"] = feeds["kubernetes"]
    BY <1>1, <1>2 DEF Controllers
  <1> HIDE DEF feed, next
  <1>4. /\ c \in Versions /\ c = feed[1] /\ 1 \in DOMAIN feed
        /\ \A i \in DOMAIN next :
             i \in Nat /\ i + 1 \in DOMAIN feed /\ 1 < i + 1 /\ next[i] = feed[i + 1]
    BY <1>1, <1>2, <1>3
  <1> HIDE DEF c
  <1>5. /\ queue' \in [dirty: Versions \cup {Null}, timer: Versions \cup {Null}]
        /\ queue'.timer = queue.timer \/ (queue'.timer = c /\ c.deleted)
        /\ queue'.dirty = queue.dirty \/ (queue'.dirty = c /\ ~c.deleted)
    BY <1>1, <1>4, EnqueueTyped DEF ClusterInv
  <1>6. (Ended' <=> Ended) /\ (Held' <=> Held)
    BY <1>1 DEF Ended, Held
  <1>7. /\ \A i, j \in DOMAIN feed : i < j /\ feed[i].deleted => feed[j].deleted
        /\ \A i \in DOMAIN feed : feed[i].deleted => Ended
        /\ AllDeleted <=> \A i \in DOMAIN feed : feed[i].deleted
        /\ AllDeleted' <=> \A i \in DOMAIN next : next[i].deleted
        /\ \A i \in DOMAIN feed : Vouches(feed[i])
    BY DEF ClusterInv, DeletionIsLast, FinalizerKept, AllDeleted, feed, next
  <1>8. (AllDeleted => AllDeleted') /\ (c.deleted => AllDeleted' /\ Ended)
          /\ (AllDeleted => c.deleted)
    BY <1>4, <1>7
  <1>9. ClusterTypeOK'
    BY <1>1, <1>3, <1>5 DEF ClusterInv, ClusterTypeOK
  <1>10. DeletionIsLast'
    <2>1. ASSUME NEW i \in DOMAIN next, NEW j \in DOMAIN next, i < j, next[i].deleted
          PROVE  next[j].deleted
      <3>1. i + 1 < j + 1
        BY <1>4, <2>1
      <3> QED BY <1>4, <1>7, <2>1, <3>1
    <2>2. ASSUME NEW i \in DOMAIN next, next[i].deleted
          PROVE  Ended'
      BY <1>4, <1>6, <1>7, <2>2
    <2>3. queue'.timer # Null => queue'.timer.deleted /\ Ended' /\ AllDeleted'
      BY <1>5, <1>6, <1>8 DEF ClusterInv, DeletionIsLast
    <2>4. queue'.dirty # Null /\ queue'.dirty.deleted => Ended' /\ AllDeleted'
      BY <1>5, <1>6, <1>8 DEF ClusterInv, DeletionIsLast
    <2>5. worker' # Idle /\ worker'.copy.deleted =>
            Ended' /\ AllDeleted' /\ (queue'.dirty # Null => queue'.dirty.deleted)
      BY <1>1, <1>5, <1>6, <1>8 DEF ClusterInv, DeletionIsLast
    <2> QED BY <2>1, <2>2, <2>3, <2>4, <2>5 DEF DeletionIsLast, next
  <1>11. FinalizerKept'
    <2>1. \A i \in DOMAIN next : VouchesThen(next[i])
      BY <1>4, <1>6, <1>7 DEF Vouches, VouchesThen, HasFinalizer
    <2>2. queue'.dirty # Null => VouchesThen(queue'.dirty)
      BY <1>4, <1>5, <1>6, <1>7 DEF Vouches, VouchesThen, HasFinalizer, ClusterInv, FinalizerKept
    <2>3. CopyFits'
      BY <1>1, <1>6 DEF ClusterInv, FinalizerKept, CopyFits, Vouches
    <2>4. \/ HasId(cluster') \/ HasId(kqueue') \/ (observer' # Null /\ HasId(observer'.resource))
          \/ \E i \in DOMAIN feeds'["kubernetes"] : HasId(feeds'["kubernetes"][i])
          => Held' \/ Ended'
      BY <1>1, <1>3, <1>6 DEF ClusterInv, FinalizerKept, HasId
    <2> QED BY <2>1, <2>2, <2>3, <2>4
            DEF FinalizerKept, Vouches, VouchesThen, HasFinalizer, HasId, next
  <1> QED BY <1>9, <1>10, <1>11 DEF ClusterInv

\* The delay of a deletion is over.
LEMMA FireStep ==
    ASSUME ClusterInv, Fire, UNCHANGED kubeVars
    PROVE  ClusterInv'
  <1>1. /\ queue.timer # Null /\ queue' = [dirty |-> queue.timer, timer |-> Null]
        /\ UNCHANGED <<cluster, feeds, worker, im, scenario, budget, kqueue, observer, health>>
    BY DEF Fire, kubeVars, db
  <1>2. /\ queue.timer \in Versions
        /\ queue' \in [dirty: Versions \cup {Null}, timer: Versions \cup {Null}]
        /\ queue'.dirty = queue.timer /\ queue'.timer = Null
    BY <1>1 DEF ClusterInv, ClusterTypeOK
  <1>3. queue.timer.deleted /\ Ended /\ AllDeleted
    BY <1>1 DEF ClusterInv, DeletionIsLast
  <1>4. (Ended' <=> Ended) /\ (Held' <=> Held) /\ (AllDeleted' <=> AllDeleted)
    BY <1>1 DEF Ended, Held, AllDeleted
  <1>5. ClusterTypeOK'
    BY <1>1, <1>2 DEF ClusterInv, ClusterTypeOK
  <1>6. DeletionIsLast'
    BY <1>1, <1>2, <1>3, <1>4 DEF ClusterInv, DeletionIsLast
  <1>7. CopyFits'
    BY <1>1, <1>4 DEF ClusterInv, FinalizerKept, CopyFits, Vouches
  <1>8. FinalizerKept'
    BY <1>1, <1>2, <1>3, <1>4, <1>7 DEF ClusterInv, FinalizerKept, Vouches, HasId
  <1> QED BY <1>5, <1>6, <1>8 DEF ClusterInv

\* A new controller lists the cluster.
LEMMA RestartStep ==
    ASSUME ClusterInv, Restart, UNCHANGED kubeVars
    PROVE  ClusterInv'
  <1> DEFINE next == feeds'["infrastructure"]
  <1>1. /\ queue' = [dirty |-> Null, timer |-> Null] /\ worker' = Idle
        /\ feeds' = [feeds EXCEPT !["infrastructure"] =
                       IF cluster = Null THEN <<>> ELSE <<cluster>>]
        /\ UNCHANGED <<cluster, im, scenario, kqueue, observer, health>>
    BY DEF Restart, kubeVars
  <1>2. budget' \in [Kinds -> Nat]
    BY SpendTyped DEF Restart, Kinds
  <1>3. cluster \in Versions \cup {Null} /\ feeds \in [Controllers -> Seq(Versions)]
    BY DEF ClusterInv, ClusterTypeOK
  <1>4. /\ next = IF cluster = Null THEN <<>> ELSE <<cluster>>
        /\ feeds'["kubernetes"] = feeds["kubernetes"]
        /\ feeds' \in [Controllers -> Seq(Versions)]
    BY <1>1, <1>3 DEF Controllers
  <1>5. \A i \in DOMAIN next : i = 1 /\ next[i] = cluster /\ cluster # Null
    BY <1>3, <1>4
  <1>6. (Ended' <=> Ended) /\ (Held' <=> Held)
    BY <1>1 DEF Ended, Held
  <1>7. ClusterTypeOK'
    BY <1>1, <1>2, <1>4 DEF ClusterInv, ClusterTypeOK
  <1>8. DeletionIsLast'
    BY <1>1, <1>5, <1>6 DEF DeletionIsLast, Ended
  <1>9. FinalizerKept'
    <2>1. HasId(cluster) => Held \/ Ended
      BY DEF ClusterInv, FinalizerKept
    <2>2. \A i \in DOMAIN next : VouchesThen(next[i])
      BY <1>5, <1>6, <2>1 DEF VouchesThen, HasFinalizer, Held, Ended, HasId
    <2>3. CopyFits'
      BY <1>1 DEF CopyFits
    <2>4. \/ HasId(cluster') \/ HasId(kqueue') \/ (observer' # Null /\ HasId(observer'.resource))
          \/ \E i \in DOMAIN feeds'["kubernetes"] : HasId(feeds'["kubernetes"][i])
          => Held' \/ Ended'
      BY <1>1, <1>4, <1>6 DEF ClusterInv, FinalizerKept, HasId
    <2>5. queue'.dirty = Null
      BY <1>1
    <2> HIDE DEF next
    <2> QED BY <2>2, <2>3, <2>4, <2>5
            DEF FinalizerKept, Vouches, VouchesThen, HasFinalizer, HasId, next
  <1> QED BY <1>7, <1>8, <1>9 DEF ClusterInv
-----------------------------------------------------------------------------
(* IM, the controller of clusters and the others                           *)

\* Steps that leave the infrastructure controller alone
LEMMA OthersKeep ==
    ASSUME ClusterInv, Writes, RestTyped, UNCHANGED <<queue, worker>>,
           SeenIds' => Held' \/ Ended', Held => Held'
    PROVE  ClusterInv'
  <1>1. CopyFits'
    BY DEF ClusterInv, FinalizerKept, CopyFits, Vouches
  <1>2. worker' \in {Idle} \cup [pc: Points, copy: Versions]
    BY DEF ClusterInv, ClusterTypeOK
  <1> QED BY <1>1, <1>2, StepKeeps

\* The ids that were seen still are allowed after a write.
LEMMA SeenStay ==
    ASSUME ClusterInv, Writes, SeenIds' => SeenIds \/ HasId(cluster')
    PROVE  SeenIds' => Held' \/ Ended'
  <1>1. SeenIds => Held \/ Ended
    BY DEF SeenIds, ClusterInv, FinalizerKept
  <1> QED BY <1>1 DEF Writes

\* IM gets done with something, or fails.
LEMMA ImStepsKeep ==
    ASSUME ClusterInv, ImSteps, UNCHANGED kubeVars
    PROVE  ClusterInv'
  <1>1. PICK id \in Ids : ImConfigures(id) \/ ImDeletes(id) \/ ImBreaks(id)
    BY DEF ImSteps
  <1>2. UNCHANGED <<cluster, feeds, queue, worker, scenario, kqueue, observer, health>>
    BY <1>1 DEF ImConfigures, ImDeletes, ImBreaks, db, kubeVars
  <1>3. \E r \in Replies \cup {Unused, Gone} : im' = [im EXCEPT ![id] = r]
    BY <1>1 DEF ImConfigures, ImDeletes, ImBreaks, Replies
  <1>4. im' \in [Ids -> Replies \cup {Unused, Gone}]
    BY <1>3 DEF ClusterInv, ClusterTypeOK
  <1>5. budget' \in [Kinds -> Nat]
    <2>1. UNCHANGED budget \/ Spend("break") \/ Spend("vanish")
      BY <1>1 DEF ImConfigures, ImDeletes, ImBreaks
    <2> QED BY <2>1, SpendTyped DEF Kinds, ClusterInv, ClusterTypeOK
  <1>6. RestTyped
    BY <1>2, <1>4, <1>5 DEF RestTyped, ClusterInv, ClusterTypeOK
  <1>7. Writes /\ (Held => Held')
    BY <1>2, IdleWrites DEF db
  <1>8. SeenIds' => SeenIds
    BY <1>2 DEF SeenIds, HasId
  <1> QED BY <1>2, <1>6, <1>7, <1>8, SeenStay, OthersKeep

\* The controller of clusters receives a version.
LEMMA KReceiveStep ==
    ASSUME ClusterInv, KReceive
    PROVE  ClusterInv'
  <1> DEFINE feed == feeds["kubernetes"]
             c == Head(feed)
  <1>1. /\ feed # <<>> /\ kqueue' \in {c, kqueue}
        /\ feeds' = [feeds EXCEPT !["kubernetes"] = Tail(@)]
        /\ UNCHANGED <<cluster, queue, worker, im, scenario, budget, observer, health>>
    BY DEF KReceive
  <1>2. feeds \in [Controllers -> Seq(Versions)] /\ feed \in Seq(Versions)
    BY DEF ClusterInv, ClusterTypeOK, Controllers
  <1>3. /\ feeds' \in [Controllers -> Seq(Versions)] /\ feeds'["kubernetes"] = Tail(feed)
        /\ feeds'["infrastructure"] = feeds["infrastructure"]
    BY <1>1, <1>2 DEF Controllers
  <1>4. /\ c \in Versions /\ c = feed[1] /\ 1 \in DOMAIN feed
        /\ \A i \in DOMAIN Tail(feed) : \E j \in DOMAIN feed : Tail(feed)[i] = feed[j]
    <2>1. ASSUME NEW i \in DOMAIN Tail(feed)
          PROVE  i + 1 \in DOMAIN feed /\ Tail(feed)[i] = feed[i + 1]
      BY <1>1, <1>2
    <2> QED BY <1>1, <1>2, <2>1
  <1>5. /\ (Ended' <=> Ended) /\ (Held' <=> Held)
        /\ HasId(cluster') <=> HasId(cluster)
    BY <1>1 DEF Ended, Held, HasId
  <1>6. HasId(cluster) \/ HasId(c) => Held \/ Ended
    BY <1>4 DEF ClusterInv, FinalizerKept
  <1>7. Writes
    BY <1>1, <1>3, <1>4, <1>5, <1>6 DEF Writes, ClusterInv, ClusterTypeOK
  <1>8. RestTyped
    BY <1>1, <1>4 DEF RestTyped, ClusterInv, ClusterTypeOK
  <1> HIDE DEF c
  <1>9. SeenIds' => SeenIds \/ HasId(c)
    BY <1>1 DEF SeenIds, HasId
  <1>10. SeenIds => Held \/ Ended
    BY DEF SeenIds, ClusterInv, FinalizerKept
  <1> QED BY <1>1, <1>5, <1>6, <1>7, <1>8, <1>9, <1>10, OthersKeep

\* An observer has the shape of one.
LEMMA ObserverTyped ==
    ASSUME NEW c \in Versions
    PROVE  Observer(c) \in Observers /\ Observer(c).resource = c
  BY DEF Observer, Observers, Versions, Statuses

\* A version is handled: an observer is kept, replaced or stopped.
LEMMA KHandleStep ==
    ASSUME ClusterInv, KHandle
    PROVE  ClusterInv'
  <1>1. /\ kqueue # Null /\ kqueue' = Null /\ observer' = Observed(kqueue, observer)
        /\ UNCHANGED <<cluster, feeds, queue, worker, im, scenario, budget, health>>
    BY DEF KHandle, db
  <1>2. kqueue \in Versions /\ observer \in Observers \cup {Null}
    BY <1>1 DEF ClusterInv, ClusterTypeOK
  <1>3. kqueue.deleted \in BOOLEAN
    BY <1>2 DEF Versions
  <1>4. observer' = Null \/ observer' = observer \/ observer' = Observer(kqueue)
    BY <1>1, <1>3 DEF Observed
  <1>5. RestTyped
    BY <1>1, <1>2, <1>4, ObserverTyped DEF RestTyped, ClusterInv, ClusterTypeOK
  <1>6. SeenIds' => SeenIds
    BY <1>1, <1>2, <1>4, ObserverTyped DEF SeenIds, HasId
  <1>7. Writes /\ (Held => Held')
    BY <1>1, IdleWrites DEF db
  <1> QED BY <1>1, <1>5, <1>6, <1>7, SeenStay, OthersKeep

\* The observer finds another state.
LEMMA ObserveStep ==
    ASSUME ClusterInv, Observe
    PROVE  ClusterInv'
  <1>1. PICK found : /\ observer # Null
                     /\ found = PollResource(observer.resource, Nodes(observer.resource))
                     /\ observer' = [observer EXCEPT !.pc = "write", !.found = found]
    BY DEF Observe
  <1>2. found \in ClusterStates
    BY <1>1 DEF PollResource, ClusterStates
  <1>3. UNCHANGED <<cluster, feeds, queue, worker, im, scenario, budget, kqueue, health>>
    BY DEF Observe, db
  <1>4. observer \in Observers
    BY <1>1 DEF ClusterInv, ClusterTypeOK
  <1>5. observer' \in Observers /\ observer'.resource = observer.resource
    BY <1>1, <1>2, <1>4 DEF Observers
  <1>6. RestTyped
    BY <1>3, <1>5 DEF RestTyped, ClusterInv, ClusterTypeOK
  <1>7. SeenIds' => SeenIds
    BY <1>1, <1>3, <1>5 DEF SeenIds, HasId
  <1>8. Writes /\ (Held => Held')
    BY <1>3, IdleWrites DEF db
  <1> QED BY <1>3, <1>6, <1>7, <1>8, SeenStay, OthersKeep

\* The observer writes back the status it has seen, with the state it found.
LEMMA ReportStep ==
    ASSUME ClusterInv, Report
    PROVE  ClusterInv'
  <1> DEFINE c == [observer.resource EXCEPT !.status.state = observer.found,
                                            !.status.triggered = TRUE]
  <1>1. observer # Null /\ UNCHANGED <<queue, worker, im, scenario, kqueue, health>>
    BY DEF Report
  <1>2. observer \in Observers
    BY <1>1 DEF ClusterInv, ClusterTypeOK
  <1>3. observer.resource \in Versions /\ observer.found \in ClusterStates
    BY <1>2 DEF Observers
  <1>4. c \in Versions /\ c.status.cluster_id = observer.resource.status.cluster_id
    BY <1>3 DEF Versions, Statuses
  <1>5. \/ observer' = Dead(observer) /\ UNCHANGED db
        \/ cluster # Null /\ UpdateStatus(c) /\ observer' = Observer(cluster')
    BY DEF Report
  <1>6. budget' \in [Kinds -> Nat]
    <2>1. UNCHANGED budget \/ Spend("observer")
      BY DEF Report
    <2> QED BY <2>1, SpendTyped DEF Kinds, ClusterInv, ClusterTypeOK
  <1> HIDE DEF c
  <1>7. CASE observer' = Dead(observer) /\ UNCHANGED db
    <2>1. observer' \in Observers /\ observer'.resource = observer.resource
      BY <1>2, <1>7 DEF Dead, Observers
    <2>2. RestTyped
      BY <1>1, <1>6, <2>1 DEF RestTyped, ClusterInv, ClusterTypeOK
    <2>3. SeenIds' => SeenIds
      BY <1>1, <2>1 DEF SeenIds, HasId
    <2>4. Writes /\ (Held => Held')
      BY <1>7, IdleWrites
    <2> QED BY <1>1, <2>2, <2>3, <2>4, SeenStay, OthersKeep
  <1>8. CASE cluster # Null /\ UpdateStatus(c) /\ observer' = Observer(cluster')
    <2>1. HasId(c) => Held \/ Ended
      BY <1>1, <1>3, <1>4, ClusterAssumption DEF HasId, ClusterInv, FinalizerKept
    <2>2. Writes /\ (Held => Held')
      BY <1>4, <1>8, <2>1, UpdateStatusWrites
    <2>3. cluster' \in Versions
      <3>1. cluster' = [cluster EXCEPT !.status = c.status] /\ cluster \in Versions
        BY <1>8 DEF UpdateStatus, Store, ClusterInv, ClusterTypeOK
      <3> QED BY <1>4, <3>1 DEF Versions
    <2>4. observer' \in Observers /\ observer'.resource = cluster'
      BY <1>8, <2>3, ObserverTyped
    <2>5. RestTyped
      BY <1>1, <1>6, <2>4 DEF RestTyped, ClusterInv, ClusterTypeOK
    <2>6. SeenIds' => SeenIds \/ HasId(cluster')
      BY <1>1, <2>4 DEF SeenIds, HasId
    <2> QED BY <1>1, <2>2, <2>5, <2>6, SeenStay, OthersKeep
  <1> QED BY <1>5, <1>7, <1>8

\* A new controller of clusters lists the cluster.
LEMMA KRestartStep ==
    ASSUME ClusterInv, KRestart
    PROVE  ClusterInv'
  <1>1. /\ kqueue' = Null
        /\ observer' = IF cluster # Null /\ cluster.status.triggered THEN Observer(cluster)
                       ELSE Null
        /\ feeds' = [feeds EXCEPT !["kubernetes"] = IF cluster = Null THEN <<>> ELSE <<cluster>>]
        /\ UNCHANGED <<cluster, queue, worker, im, scenario, health>>
    BY DEF KRestart
  <1>2. budget' \in [Kinds -> Nat]
    BY SpendTyped DEF KRestart, Kinds
  <1>3. cluster \in Versions \cup {Null} /\ feeds \in [Controllers -> Seq(Versions)]
    BY DEF ClusterInv, ClusterTypeOK
  <1>4. /\ feeds'["kubernetes"] = IF cluster = Null THEN <<>> ELSE <<cluster>>
        /\ feeds'["infrastructure"] = feeds["infrastructure"]
        /\ feeds' \in [Controllers -> Seq(Versions)]
    BY <1>1, <1>3 DEF Controllers
  <1>5. \A i \in DOMAIN feeds'["kubernetes"] : feeds'["kubernetes"][i] = cluster
    BY <1>3, <1>4
  <1>6. /\ (Ended' <=> Ended) /\ (Held' <=> Held)
        /\ HasId(cluster') <=> HasId(cluster)
    BY <1>1 DEF Ended, Held, HasId
  <1>7. Writes
    BY <1>1, <1>3, <1>4, <1>5, <1>6 DEF Writes, ClusterInv, FinalizerKept
  <1>8. observer' = Null \/ (cluster \in Versions /\ observer' = Observer(cluster))
    BY <1>1, <1>3
  <1>9. RestTyped
    BY <1>1, <1>2, <1>8, ObserverTyped DEF RestTyped, ClusterInv, ClusterTypeOK
  <1>10. SeenIds' => HasId(cluster')
    BY <1>1, <1>8, ObserverTyped DEF SeenIds, HasId
  <1> QED BY <1>1, <1>6, <1>7, <1>9, <1>10, SeenStay, OthersKeep

\* The nodes get better or worse.
LEMMA HealthStep ==
    ASSUME ClusterInv, HealthChanges
    PROVE  ClusterInv'
  <1>1. /\ health' \in {"ok", "pressure", "notready", "down"}
        /\ UNCHANGED <<cluster, feeds, queue, worker, im, scenario, kqueue, observer>>
    BY DEF HealthChanges, db
  <1>2. budget' \in [Kinds -> Nat]
    BY SpendTyped DEF HealthChanges, Kinds
  <1>3. RestTyped
    BY <1>1, <1>2 DEF RestTyped, ClusterInv, ClusterTypeOK
  <1>4. Writes /\ (Held => Held')
    BY <1>1, IdleWrites DEF db
  <1>5. SeenIds' => SeenIds
    BY <1>1 DEF SeenIds, HasId
  <1> QED BY <1>1, <1>3, <1>4, <1>5, SeenStay, OthersKeep

\* A write of somebody else, who keeps the finalizers there are
LEMMA OthersWrite ==
    ASSUME ClusterInv, Writes, Held => Held', UNCHANGED others, budget' \in [Kinds -> Nat]
    PROVE  ClusterInv'
  <1>1. UNCHANGED <<queue, worker, im, scenario, kqueue, observer, health>>
    BY DEF others, kubeVars
  <1>2. RestTyped
    BY <1>1 DEF RestTyped, ClusterInv, ClusterTypeOK
  <1>3. SeenIds' => SeenIds
    BY <1>1 DEF SeenIds, HasId
  <1> QED BY <1>1, <1>2, <1>3, SeenStay, OthersKeep

\* The scheduler binds the cluster, or finds its metrics.
LEMMA SchedulerSteps ==
    ASSUME ClusterInv, Schedule \/ MetricsChange
    PROVE  ClusterInv'
  <1>1. UNCHANGED others /\ cluster # Null
    BY DEF Schedule, MetricsChange
  <1>2. cluster \in Versions
    BY <1>1 DEF ClusterInv, ClusterTypeOK
  <1>3. budget' \in [Kinds -> Nat]
    <2>1. UNCHANGED budget \/ Spend("metrics")
      BY DEF Schedule, MetricsChange
    <2> QED BY <2>1, SpendTyped DEF Kinds, ClusterInv, ClusterTypeOK
  <1>4. HasId(cluster) => Held \/ Ended
    BY DEF ClusterInv, FinalizerKept
  <1>5. CASE Schedule
    <2> DEFINE a == [cluster EXCEPT !.status.scheduled_to = TRUE]
    <2>1. /\ a \in Versions /\ a.deleted = cluster.deleted /\ a.finalizers = cluster.finalizers
          /\ a.status.cluster_id = cluster.status.cluster_id
      BY <1>2 DEF Versions, Statuses
    <2>2. Store(a)
      BY <1>5 DEF Schedule, Bind
    <2> HIDE DEF a
    <2>3. Held <=> HasFinalizer(a)
      BY <1>1, <2>1 DEF Held, HasFinalizer
    <2>4. HasId(a) => HasFinalizer(a) \/ a.deleted
      BY <1>1, <1>4, <2>1, <2>3 DEF HasId, Ended
    <2>5. Writes /\ (Held => Held')
      BY <1>1, <2>1, <2>2, <2>3, <2>4, StoreWrites DEF ClusterInv
    <2> QED BY <1>1, <1>3, <2>5, OthersWrite
  <1>6. CASE MetricsChange
    <2>1. PICK st \in {"FAILING_METRICS", "ONLINE"} :
            UpdateStatus([cluster EXCEPT !.status.state = st])
      BY <1>6 DEF MetricsChange
    <2> DEFINE b == [cluster EXCEPT !.status.state = st]
    <2>2. st \in ClusterStates
      BY DEF ClusterStates
    <2>3. b \in Versions /\ b.status.cluster_id = cluster.status.cluster_id
      BY <1>2, <2>2, StateTyped
    <2>4. UpdateStatus(b)
      BY <2>1
    <2> HIDE DEF b
    <2>5. HasId(b) => Held \/ Ended
      BY <1>1, <1>4, <2>3 DEF HasId
    <2>6. Writes /\ (Held => Held')
      BY <1>1, <2>3, <2>4, <2>5, UpdateStatusWrites
    <2> QED BY <1>1, <1>3, <2>6, OthersWrite
  <1> QED BY <1>5, <1>6

\* A user changes the template, or deletes the cluster.
LEMMA UserSteps ==
    ASSUME ClusterInv, UserUpdate \/ UserDelete
    PROVE  ClusterInv'
  <1>1. UNCHANGED others /\ cluster # Null /\ ~cluster.deleted
    BY DEF UserUpdate, UserDelete
  <1>2. cluster \in Versions
    BY <1>1 DEF ClusterInv, ClusterTypeOK
  <1>3. budget' \in [Kinds -> Nat]
    BY SpendTyped DEF UserUpdate, UserDelete, Kinds
  <1>4. CASE UserUpdate
    <2> DEFINE b == [cluster EXCEPT !.tosca = @ + 1]
    <2>1. b \in Versions /\ b.finalizers = cluster.finalizers
      BY <1>2, <1>4 DEF Versions, UserUpdate
    <2>2. Update(b)
      BY <1>4 DEF UserUpdate
    <2> HIDE DEF b
    <2>3. Held <=> HasFinalizer(b)
      BY <1>1, <2>1 DEF Held, HasFinalizer
    <2>4. Writes /\ (Held => Held')
      BY <1>1, <2>1, <2>2, <2>3, UpdateWrites
    <2> QED BY <1>1, <1>3, <2>4, OthersWrite
  <1>5. CASE UserDelete
    <2> DEFINE fs == Append(cluster.finalizers, Cascade)
               a == [cluster EXCEPT !.deleted = TRUE, !.finalizers = Append(@, Cascade)]
    <2>1. cluster.finalizers \in Seq(Finalizers)
      BY <1>2 DEF Versions, Finalizers
    <2>2. fs \in Seq(Finalizers) /\ ToSet(cluster.finalizers) \subseteq ToSet(fs)
      BY <2>1, FinalizersTyped DEF Finalizers
    <2>3. Store(a)
      BY <1>5 DEF UserDelete, Delete
    <2>4. a = [cluster EXCEPT !.deleted = TRUE, !.finalizers = fs]
      BY <1>2 DEF Versions
    <2> HIDE DEF fs, a
    <2>5. a \in Versions /\ a.deleted /\ a.finalizers = fs
      BY <1>2, <2>2, <2>4 DEF Versions, Finalizers
    <2>6. Held => HasFinalizer(a)
      BY <2>2, <2>5 DEF Held, HasFinalizer
    <2>7. Writes /\ (Held => Held')
      BY <1>1, <2>3, <2>5, <2>6, StoreWrites DEF ClusterInv
    <2> QED BY <1>1, <1>3, <2>7, OthersWrite
  <1> QED BY <1>4, <1>5

\* The garbage collector removes its own finalizer.
LEMMA GarbageStep ==
    ASSUME ClusterInv, Garbage
    PROVE  ClusterInv'
  <1> DEFINE fs == Front(cluster.finalizers)
             b == [cluster EXCEPT !.finalizers = Front(@)]
  <1>1. /\ UNCHANGED others /\ UNCHANGED budget /\ cluster # Null /\ cluster.deleted
        /\ cluster.finalizers # <<>> /\ Last(cluster.finalizers) = Cascade /\ Update(b)
    BY DEF Garbage, Collect
  <1>2. cluster \in Versions /\ budget' \in [Kinds -> Nat]
    BY <1>1 DEF ClusterInv, ClusterTypeOK
  <1>3. cluster.finalizers \in Seq(Finalizers)
    BY <1>2 DEF Versions, Finalizers
  <1>4. fs \in Seq(Finalizers) /\ (Held => Finalizer \in ToSet(fs))
    BY <1>1, <1>3, FinalizersTyped DEF Held
  <1>5. b = [cluster EXCEPT !.finalizers = fs]
    BY <1>2 DEF Versions
  <1> HIDE DEF fs, b
  <1>6. b \in Versions /\ b.finalizers = fs
    BY <1>2, <1>4, <1>5 DEF Versions, Finalizers
  <1>7. Held => HasFinalizer(b)
    BY <1>4, <1>6 DEF HasFinalizer
  <1>8. Writes /\ (Held => Held')
    BY <1>1, <1>6, <1>7, UpdateWrites
  <1> QED BY <1>1, <1>2, <1>8, OthersWrite

-----------------------------------------------------------------------------
(* The theorems                                                            *)

\* A new cluster has no finalizers and no infrastructure.
LEMMA InitInvariant ==
    ASSUME Init
    PROVE  ClusterInv
  <1>1. PICK t \in Toscas, k \in {Own, Null} : cluster = Created(t, k)
    BY LifeAssumption DEF Init
  <1>2. cluster \in Versions /\ ~cluster.deleted /\ cluster.finalizers = <<>>
          /\ cluster.status.cluster_id = Null /\ cluster # Null
    <2>1. <<>> \in Seq({Finalizer, Cascade}) /\ "PENDING" \in ClusterStates
      BY DEF ClusterStates
    <2>2. Created(t, k) \in Versions
      BY <2>1, ClusterAssumption DEF Created, Versions, Statuses
    <2> QED BY <1>1, <2>2, ClusterAssumption DEF Created
  <1>3. /\ feeds = [k2 \in Controllers |-> <<cluster>>]
        /\ queue = [dirty |-> Null, timer |-> Null] /\ worker = Idle
        /\ kqueue = Null /\ observer = Null
    BY DEF Init
  <1>4. \A k2 \in Controllers : feeds[k2] = <<cluster>>
    BY <1>3
  <1>5. \A k2 \in Controllers : \A i \in DOMAIN feeds[k2] : i = 1 /\ feeds[k2][i] = cluster
    BY <1>4
  <1>6. ClusterTypeOK
    <2>1. budget \in [Kinds -> Nat] /\ scenario \in Scenarios
      BY LifeAssumption DEF Init, AllScenarios
    <2>2. im \in [Ids -> Replies \cup {Unused, Gone}] /\ health = "ok"
      BY DEF Init
    <2>3. feeds \in [Controllers -> Seq(Versions)]
      BY <1>2, <1>3, <1>4
    <2> QED BY <1>2, <1>3, <2>1, <2>2, <2>3 DEF ClusterTypeOK
  <1>7. DeletionIsLast
    BY <1>2, <1>3, <1>5 DEF DeletionIsLast, Controllers
  <1>8. FinalizerKept
    <2>1. ~HasId(cluster) /\ ~HasId(kqueue) /\ Vouches(cluster)
      BY <1>2, <1>3 DEF HasId, Vouches, ToSet
    <2> QED BY <1>3, <1>5, <2>1 DEF FinalizerKept, CopyFits, Controllers
  <1> QED BY <1>6, <1>7, <1>8 DEF ClusterInv

\* Every step keeps the invariant.
LEMMA NextInvariant ==
    ASSUME ClusterInv, [Next]_vars
    PROVE  ClusterInv'
  <1>1. CASE InfrastructureSteps
    BY <1>1, ReceiveStep, FireStep, ImStepsKeep, RestartStep, HandlerStep
       DEF InfrastructureSteps
  <1>2. CASE KubernetesSteps
    BY <1>2, KReceiveStep, KHandleStep, ObserveStep, ReportStep, KRestartStep, HealthStep
       DEF KubernetesSteps
  <1>3. CASE Schedule \/ MetricsChange \/ UserUpdate \/ UserDelete \/ Garbage
    BY <1>3, SchedulerSteps, UserSteps, GarbageStep
  <1>4. CASE UNCHANGED vars
    <2>1. UNCHANGED others /\ UNCHANGED budget /\ UNCHANGED db
      BY <1>4 DEF vars, others
    <2>2. budget' \in [Kinds -> Nat]
      BY <2>1 DEF ClusterInv, ClusterTypeOK
    <2> QED BY <2>1, <2>2, IdleWrites, OthersWrite
  <1> QED BY <1>1, <1>2, <1>3, <1>4 DEF Next

\* What the two controllers of a cluster rely on holds always: a deletion is for good
\* where versions are received, and an infrastructure has a cluster with the finalizer
\* or in deletion (ClusterInv).
THEOREM ClusterInvariant == Spec => []ClusterInv
  <1>1. Init => ClusterInv
    BY InitInvariant
  <1>2. ClusterInv /\ [Next]_vars => ClusterInv'
    BY NextInvariant
  <1> QED BY <1>1, <1>2, PTL DEF Spec

\* An infrastructure comes to be by a request of on_create, and then the cluster is in
\* the database with the finalizer.
LEMMA CreatedUnderFinalizerStep ==
    ASSUME ClusterInv, [Next]_vars, NEW id \in Ids, im[id] = Unused, im'[id] # Unused
    PROVE  cluster # Null /\ Finalizer \in ToSet(cluster.finalizers)
  <1>1. im \in [Ids -> Replies \cup {Unused, Gone}]
    BY DEF ClusterInv, ClusterTypeOK
  <1>2. ~UNCHANGED im
    OBVIOUS
  <1>3. \A other \in Ids : \A r : im' = [im EXCEPT ![other] = r] => other = id
    BY <1>1
  <1>4. ~Exists(id) /\ Configuring # Unused /\ Leaving # Unused
    BY DEF Exists, Configuring, Leaving, Unused, Reply
  <1>5. \A other : ~ImWork(other) /\ ~ImDelete(other)
    BY <1>1, <1>3, <1>4 DEF ImWork, ImDelete
  <1>6. ~ImSteps
    BY <1>3, <1>4 DEF ImSteps, ImConfigures, ImDeletes, ImBreaks
  <1>7. Create
    BY <1>2, <1>5, <1>6
       DEF Next, InfrastructureSteps, KubernetesSteps, Receive, Fire, Restart, Handler, Take,
           Resolve, Finalize, Apply, Reconcile, SaveApplied, Reconfigure, Poll, SaveGiveUp,
           Connect, GetKubeconfig, HandOver, Read, DeleteInfrastructure, SaveDeleting,
           WaitDeleted, Release, Fail, KReceive, KHandle, Observe, Report, KRestart,
           HealthChanges, Schedule, MetricsChange, UserUpdate, UserDelete, Garbage, others, vars
  <1>8. worker.pc = "create"
    BY <1>7 DEF Create
  <1>9. ~worker.copy.deleted /\ HasFinalizer(worker.copy) /\ Vouches(worker.copy)
    BY <1>8, CopyTyped DEF Points, CreatePoints, WithPoints
  <1>10. Held
    BY <1>9 DEF Vouches, HasFinalizer
  <1> QED BY <1>10 DEF Held

\* Infrastructure is only created under the finalizer of the controller
\* (reconcile_cluster, CreatedUnderFinalizer).
THEOREM InfrastructureUnderFinalizer == Spec => CreatedUnderFinalizer
  <1>1. ClusterInv /\ [Next]_vars
          => [\A id \in Ids : im[id] = Unused /\ im'[id] # Unused
                => cluster # Null /\ Finalizer \in ToSet(cluster.finalizers)]_vars
    BY CreatedUnderFinalizerStep
  <1> QED BY <1>1, ClusterInvariant, PTL DEF Spec, CreatedUnderFinalizer

-----------------------------------------------------------------------------
(* The copies of the cluster across a step                                 *)

\* The elements of the lists that versions are put into and taken from
LEMMA ElementsOf ==
    /\ ToSet(<<>>) = {}
    /\ \A a : ToSet(<<a>>) = {a}
    /\ \A A : \A s \in Seq(A), a \in A : ToSet(Append(s, a)) = ToSet(s) \cup {a}
    /\ \A A : \A s \in Seq(A) : s # <<>> =>
         /\ Head(s) \in ToSet(s) /\ ToSet(s) = {Head(s)} \cup ToSet(Tail(s))
         /\ Tail(s) # <<>> => Last(Tail(s)) = Last(s)
         /\ Tail(s) = <<>> => Last(s) = Head(s)
  <1>1. ToSet(<<>>) = {} /\ \A a : ToSet(<<a>>) = {a}
    BY DEF ToSet
  <1>2. ASSUME NEW A, NEW s \in Seq(A), NEW a \in A
        PROVE  ToSet(Append(s, a)) = ToSet(s) \cup {a}
    <2> DEFINE t == Append(s, a)
    <2>1. /\ t \in Seq(A) /\ Len(t) = Len(s) + 1 /\ t[Len(s) + 1] = a
          /\ \A i \in 1 .. Len(s) : t[i] = s[i]
      OBVIOUS
    <2>2. DOMAIN t = 1 .. Len(s) + 1 /\ DOMAIN s = 1 .. Len(s) /\ Len(s) \in Nat
      BY <2>1
    <2> HIDE DEF t
    <2>3. ToSet(t) \subseteq ToSet(s) \cup {a}
      BY <2>1, <2>2 DEF ToSet
    <2>4. ToSet(s) \subseteq ToSet(t)
      BY <2>1, <2>2 DEF ToSet
    <2>5. a \in ToSet(t)
      BY <2>1, <2>2 DEF ToSet
    <2> QED BY <2>3, <2>4, <2>5 DEF t
  <1>3. ASSUME NEW A, NEW s \in Seq(A), s # <<>>
        PROVE  /\ Head(s) \in ToSet(s) /\ ToSet(s) = {Head(s)} \cup ToSet(Tail(s))
               /\ Tail(s) # <<>> => Last(Tail(s)) = Last(s)
               /\ Tail(s) = <<>> => Last(s) = Head(s)
    <2> DEFINE t == Tail(s)
    <2>1. /\ t \in Seq(A) /\ Len(t) = Len(s) - 1 /\ Len(s) \in Nat \ {0}
          /\ \A i \in 1 .. Len(s) - 1 : t[i] = s[i + 1]
          /\ Head(s) = s[1]
      BY <1>3
    <2>2. DOMAIN t = 1 .. Len(s) - 1 /\ DOMAIN s = 1 .. Len(s)
      BY <2>1
    <2> HIDE DEF t
    <2>3. Head(s) \in ToSet(s)
      BY <2>1, <2>2 DEF ToSet
    <2>4. ToSet(t) \subseteq ToSet(s)
      BY <2>1, <2>2 DEF ToSet
    <2>5. ASSUME NEW x \in ToSet(s), x # Head(s)
          PROVE  x \in ToSet(t)
      <3>1. PICK i \in 1 .. Len(s) : x = s[i]
        BY <2>2 DEF ToSet
      <3>2. i - 1 \in 1 .. Len(s) - 1 /\ t[i - 1] = x
        BY <2>1, <2>5, <3>1
      <3> QED BY <2>2, <3>2 DEF ToSet
    <2>6. t # <<>> => Last(t) = Last(s)
      BY <2>1 DEF Last
    <2>7. ASSUME t = <<>>
          PROVE  Last(s) = Head(s)
      <3>1. Len(t) = 0
        BY <2>7
      <3>2. Len(s) = 1
        BY <2>1, <3>1
      <3> QED BY <2>1, <3>2 DEF Last
    <2> QED BY <2>3, <2>4, <2>5, <2>6, <2>7 DEF t
  <1> QED BY <1>1, <1>2, <1>3

\* What a step does to the database: nothing, or a version is stored, or the cluster is
\* removed.
Stored ==
    /\ cluster # Null /\ cluster' # Null
    /\ feeds' = [k \in Controllers |-> Append(feeds[k], cluster')]
Erased ==
    /\ cluster # Null /\ cluster.deleted /\ cluster' = Null
    /\ feeds' = [feeds EXCEPT !["infrastructure"] = Append(@, cluster)]
DbMoves == UNCHANGED db \/ Stored \/ Erased

\* The feeds after that
LEMMA FeedsThen ==
    ASSUME ClusterInv, ClusterInv', DbMoves
    PROVE  /\ UNCHANGED db => feeds' = feeds /\ cluster' = cluster
           /\ Stored =>
                \A k \in Controllers :
                  /\ feeds'[k] # <<>> /\ Last(feeds'[k]) = cluster'
                  /\ ToSet(feeds'[k]) = ToSet(feeds[k]) \cup {cluster'}
           /\ Erased =>
                /\ ToSet(feeds'["infrastructure"]) = ToSet(feeds["infrastructure"]) \cup {cluster}
                /\ feeds'["kubernetes"] = feeds["kubernetes"]
           /\ \A k \in Controllers :
                ToSet(feeds'[k]) \subseteq ToSet(feeds[k]) \cup ({cluster, cluster'} \ {Null})
  <1>1. /\ \A k \in Controllers : feeds[k] \in Seq(Versions)
        /\ feeds \in [Controllers -> Seq(Versions)]
        /\ cluster \in Versions \cup {Null} /\ cluster' \in Versions \cup {Null}
    BY DEF ClusterInv, ClusterTypeOK
  <1>2. UNCHANGED db => feeds' = feeds /\ cluster' = cluster
    BY DEF db
  <1>3. ASSUME Stored, NEW k \in Controllers
        PROVE  /\ feeds'[k] # <<>> /\ Last(feeds'[k]) = cluster'
               /\ ToSet(feeds'[k]) = ToSet(feeds[k]) \cup {cluster'}
    <2>1. feeds'[k] = Append(feeds[k], cluster') /\ feeds[k] \in Seq(Versions)
            /\ cluster' \in Versions
      BY <1>1, <1>3 DEF Stored
    <2>2. feeds'[k] # <<>> /\ Last(feeds'[k]) = cluster'
      BY <2>1 DEF Last
    <2> QED BY <2>1, <2>2, ElementsOf
  <1>4. ASSUME Erased
        PROVE  /\ ToSet(feeds'["infrastructure"]) = ToSet(feeds["infrastructure"]) \cup {cluster}
               /\ feeds'["kubernetes"] = feeds["kubernetes"]
    <2>1. /\ feeds'["infrastructure"] = Append(feeds["infrastructure"], cluster)
          /\ feeds'["kubernetes"] = feeds["kubernetes"]
          /\ feeds["infrastructure"] \in Seq(Versions) /\ cluster \in Versions
      BY <1>1, <1>4 DEF Erased, Controllers
    <2> QED BY <2>1, ElementsOf
  <1>5. ASSUME NEW k \in Controllers
        PROVE  ToSet(feeds'[k]) \subseteq ToSet(feeds[k]) \cup ({cluster, cluster'} \ {Null})
    BY <1>2, <1>3, <1>4 DEF DbMoves, Stored, Erased, Controllers
  <1> QED BY <1>2, <1>3, <1>4, <1>5

\* The requests to the API are such steps.
LEMMA RequestsMove ==
    ASSUME ClusterInv
    PROVE  /\ \A c \in Versions : \A next : SaveStatus(c, next) => DbMoves
           /\ \A c \in Versions : \A next, equal : SaveResource(c, next, equal) => DbMoves
           /\ \A b \in Versions : cluster # Null /\ (Update(b) \/ UpdateStatus(b)) => DbMoves
           /\ \A a \in Versions : cluster # Null /\ Store(a) => DbMoves
  <1>1. cluster # Null => cluster \in Versions
    BY DEF ClusterInv, ClusterTypeOK
  <1>2. \A a \in Versions : cluster # Null /\ Store(a) => Stored
    BY ClusterAssumption DEF Store, Stored
  <1>3. cluster # Null /\ cluster.deleted /\ Erase => Erased
    BY DEF Erase, Erased
  <1>4. ASSUME NEW b \in Versions, cluster # Null, Update(b)
        PROVE  DbMoves
    <2>1. [b EXCEPT !.deleted = cluster.deleted, !.status = cluster.status] \in Versions
      BY <1>1, <1>4 DEF Versions
    <2> QED BY <1>2, <1>3, <1>4, <2>1 DEF Update, DbMoves
  <1>5. ASSUME NEW b \in Versions, cluster # Null, UpdateStatus(b)
        PROVE  DbMoves
    <2>1. [cluster EXCEPT !.status = b.status] \in Versions
      BY <1>1, <1>5 DEF Versions
    <2> QED BY <1>2, <1>5, <2>1 DEF UpdateStatus, DbMoves
  <1>6. ASSUME NEW c \in Versions, NEW next, SaveStatus(c, next)
        PROVE  DbMoves
    BY <1>5, <1>6 DEF SaveStatus, Dropped, DbMoves
  <1>7. ASSUME NEW c \in Versions, NEW next, NEW equal, SaveResource(c, next, equal)
        PROVE  DbMoves
    BY <1>4, <1>7 DEF SaveResource, Dropped, DbMoves
  <1> QED BY <1>2, <1>4, <1>5, <1>6, <1>7 DEF DbMoves

\* So are the steps of the handler,
LEMMA HandlerMoves ==
    ASSUME ClusterInv, Handler
    PROVE  /\ DbMoves
           /\ Take \/ (worker.pc \in Points /\ UNCHANGED queue)
  <1>1. CASE Take
    BY <1>1 DEF Take, DbMoves
  <1>2. CASE Resolve \/ Create \/ Reconcile \/ Reconfigure \/ Poll \/ GetKubeconfig \/ Read
             \/ DeleteInfrastructure \/ WaitDeleted
    BY <1>2 DEF Resolve, Create, Reconcile, Reconfigure, Poll, GetKubeconfig, Read,
                DeleteInfrastructure, WaitDeleted, DbMoves, Points
  <1>3. CASE Finalize \/ SaveApplied \/ SaveGiveUp \/ Connect \/ HandOver \/ SaveDeleting
             \/ Release \/ Fail
    <2>1. worker.pc \in Points /\ UNCHANGED queue
      BY <1>3 DEF Finalize, SaveApplied, SaveGiveUp, Connect, HandOver, SaveDeleting,
                  Release, Fail, Points
    <2>2. worker.copy \in Versions
      BY <2>1, CopyTyped
    <2>3. \/ \E next : SaveStatus(worker.copy, next)
          \/ \E next, equal : SaveResource(worker.copy, next, equal)
      BY <1>3 DEF Finalize, SaveApplied, SaveGiveUp, Connect, HandOver, SaveDeleting, Release,
                  Fail
    <2> QED BY <2>1, <2>2, <2>3, RequestsMove
  <1>4. CASE Apply
    <2>1. worker.pc \in Points /\ UNCHANGED queue
      BY <1>4 DEF Apply, Points
    <2>2. worker.copy \in Versions
      BY <2>1, CopyTyped
    <2>3. \E st \in ClusterStates : \E next :
            SaveStatus([worker.copy EXCEPT !.status.state = st], next)
      BY <1>4 DEF Apply, ClusterStates
    <2> QED BY <2>1, <2>2, <2>3, RequestsMove, StateTyped
  <1> QED BY <1>1, <1>2, <1>3, <1>4 DEF Handler

\* and of the scheduler, the users, the collector and the observer.
LEMMA OthersMove ==
    ASSUME ClusterInv
    PROVE  /\ Schedule \/ MetricsChange \/ UserUpdate \/ UserDelete \/ Garbage =>
                Stored \/ Erased
           /\ Report => DbMoves
  <1>1. cluster # Null => cluster \in Versions
    BY DEF ClusterInv, ClusterTypeOK
  <1>2. \A a \in Versions : cluster # Null /\ Store(a) => Stored
    BY ClusterAssumption DEF Store, Stored
  <1>3. cluster # Null /\ cluster.deleted /\ Erase => Erased
    BY DEF Erase, Erased
  <1>4. ASSUME Schedule PROVE Stored
    <2>1. cluster # Null /\ Store([cluster EXCEPT !.status.scheduled_to = TRUE])
      BY <1>4 DEF Schedule, Bind
    <2>2. [cluster EXCEPT !.status.scheduled_to = TRUE] \in Versions
      BY <1>1, <2>1 DEF Versions, Statuses
    <2> QED BY <1>2, <2>1, <2>2
  <1>5. ASSUME MetricsChange PROVE Stored
    <2>1. PICK st \in {"FAILING_METRICS", "ONLINE"} :
            cluster # Null /\ UpdateStatus([cluster EXCEPT !.status.state = st])
      BY <1>5 DEF MetricsChange
    <2>2. st \in ClusterStates
      BY DEF ClusterStates
    <2>3. [cluster EXCEPT !.status = [cluster EXCEPT !.status.state = st].status] \in Versions
      BY <1>1, <2>1, <2>2 DEF Versions, Statuses
    <2> QED BY <1>2, <2>1, <2>3 DEF UpdateStatus
  <1>6. ASSUME UserUpdate PROVE Stored
    <2> DEFINE b == [cluster EXCEPT !.tosca = @ + 1]
    <2>1. cluster # Null /\ ~cluster.deleted /\ cluster.tosca + 1 \in Toscas /\ Update(b)
      BY <1>6 DEF UserUpdate
    <2>2. [b EXCEPT !.deleted = cluster.deleted, !.status = cluster.status] \in Versions
      BY <1>1, <2>1 DEF Versions
    <2> HIDE DEF b
    <2> QED BY <1>2, <2>1, <2>2 DEF Update
  <1>7. ASSUME UserDelete PROVE Stored
    <2>1. cluster # Null
          /\ Store([cluster EXCEPT !.deleted = TRUE, !.finalizers = Append(@, Cascade)])
      BY <1>7 DEF UserDelete, Delete
    <2>2. Append(cluster.finalizers, Cascade) \in Seq({Finalizer, Cascade})
      BY <1>1, <2>1, FinalizersTyped DEF Versions, Finalizers
    <2>3. [cluster EXCEPT !.deleted = TRUE, !.finalizers = Append(@, Cascade)] \in Versions
      BY <1>1, <2>1, <2>2 DEF Versions
    <2> QED BY <1>2, <2>1, <2>3
  <1>8. ASSUME Garbage PROVE Stored \/ Erased
    <2> DEFINE b == [cluster EXCEPT !.finalizers = Front(@)]
    <2>1. cluster # Null /\ cluster.deleted /\ Update(b)
      BY <1>8 DEF Garbage, Collect
    <2>2. Front(cluster.finalizers) \in Seq({Finalizer, Cascade})
      BY <1>1, <2>1, FinalizersTyped DEF Versions, Finalizers
    <2>3. [b EXCEPT !.deleted = cluster.deleted, !.status = cluster.status] \in Versions
      BY <1>1, <2>1, <2>2 DEF Versions
    <2> HIDE DEF b
    <2> QED BY <1>2, <1>3, <2>1, <2>3 DEF Update
  <1>9. ASSUME Report PROVE DbMoves
    <2> DEFINE c == [observer.resource EXCEPT !.status.state = observer.found,
                                              !.status.triggered = TRUE]
    <2>1. observer # Null /\ (UNCHANGED db \/ (cluster # Null /\ UpdateStatus(c)))
      BY <1>9 DEF Report
    <2>2. observer \in Observers
      BY <2>1 DEF ClusterInv, ClusterTypeOK
    <2>3. observer.resource \in Versions /\ observer.found \in ClusterStates
      BY <2>2 DEF Observers
    <2>4. c \in Versions
      BY <2>3 DEF Versions, Statuses
    <2> HIDE DEF c
    <2> QED BY <2>1, <2>4, RequestsMove DEF DbMoves
  <1> QED BY <1>4, <1>5, <1>6, <1>7, <1>8, <1>9

\* The copies that other copies are made of: every one was there before, or is the one in
\* the database or in the hands of the handler.
Arises(v) == v \in Copies \/ v = cluster' \/ (worker' # Idle /\ v = worker'.copy)

\* After a step, every copy was one before, or is the present version or the handler's.
LEMMA CopiesArise ==
    ASSUME ClusterInv, ClusterInv', [Next]_vars
    PROVE  \A v \in Copies' : Arises(v)
  <1> DEFINE inf == "infrastructure"
             kub == "kubernetes"
  <1>1. /\ \A k \in Controllers : feeds[k] \in Seq(Versions)
        /\ inf \in Controllers /\ kub \in Controllers
        /\ feeds \in [Controllers -> Seq(Versions)]
    BY DEF ClusterInv, ClusterTypeOK, Controllers
  <1>2. SUFFICES
          /\ ToSet(feeds'[inf]) \subseteq Copies \cup {cluster'}
          /\ ToSet(feeds'[kub]) \subseteq Copies \cup {cluster'}
          /\ {queue'.dirty, queue'.timer, kqueue'} \ {Null} \subseteq Copies
          /\ observer' # Null => observer'.resource \in Copies \cup {cluster'}
    BY DEF Copies, Arises
  <1>3. /\ ToSet(feeds[inf]) \subseteq Copies /\ ToSet(feeds[kub]) \subseteq Copies
        /\ {queue.dirty, queue.timer, kqueue, cluster} \ {Null} \subseteq Copies
        /\ observer # Null => observer.resource \in Copies
    BY DEF Copies
  <1>4. DbMoves => \A k \in Controllers : ToSet(feeds'[k]) \subseteq Copies \cup {cluster'}
    <2>1. \A k \in Controllers : ToSet(feeds[k]) \subseteq Copies
      BY <1>3 DEF Controllers
    <2> QED BY <1>3, <2>1, FeedsThen
  <1>5. CASE Handler /\ UNCHANGED kubeVars
    <2>1. DbMoves /\ UNCHANGED <<kqueue, observer>>
      BY <1>5, HandlerMoves DEF kubeVars
    <2>2. {queue'.dirty, queue'.timer} \ {Null} \subseteq Copies
      <3>1. CASE Take
        <4>1. queue' = [queue EXCEPT !.dirty = Null]
          BY <3>1 DEF Take
        <4>2. queue \in [dirty: Versions \cup {Null}, timer: Versions \cup {Null}]
          BY DEF ClusterInv, ClusterTypeOK
        <4>3. queue'.dirty = Null /\ queue'.timer = queue.timer
          BY <4>1, <4>2
        <4> QED BY <1>3, <4>3
      <3>2. CASE UNCHANGED queue
        BY <1>3, <3>2
      <3> QED BY <1>5, <3>1, <3>2, HandlerMoves
    <2> QED BY <1>1, <1>3, <1>4, <2>1, <2>2
  <1>6. CASE Receive /\ UNCHANGED kubeVars
    <2>1. /\ feeds[inf] # <<>> /\ feeds' = [feeds EXCEPT ![inf] = Tail(@)]
          /\ queue' = Enqueue(Head(feeds[inf]), queue)
          /\ UNCHANGED <<kqueue, observer>>
      BY <1>6 DEF Receive, kubeVars
    <2>2. feeds'[inf] = Tail(feeds[inf]) /\ feeds'[kub] = feeds[kub]
      BY <1>1, <2>1
    <2>3. Head(feeds[inf]) \in Copies /\ ToSet(feeds'[inf]) \subseteq Copies
      BY <1>1, <1>3, <2>1, <2>2, ElementsOf
    <2>4. Head(feeds[inf]) \in Versions
      BY <1>1, <2>1
    <2>5. {queue'.dirty, queue'.timer} \ {Null} \subseteq Copies
      BY <1>3, <2>1, <2>3, <2>4, EnqueueTyped DEF ClusterInv
    <2> QED BY <1>3, <2>1, <2>2, <2>3, <2>5
  <1>7. CASE (Fire \/ ImSteps) /\ UNCHANGED kubeVars
    <2>1. /\ UNCHANGED <<cluster, feeds, kqueue, observer>>
          /\ UNCHANGED queue \/ queue' = [dirty |-> queue.timer, timer |-> Null]
      BY <1>7 DEF Fire, ImSteps, ImConfigures, ImDeletes, ImBreaks, kubeVars, db
    <2> QED BY <1>3, <2>1
  <1>8. CASE Restart /\ UNCHANGED kubeVars
    <2>1. /\ feeds' = [feeds EXCEPT ![inf] = IF cluster = Null THEN <<>> ELSE <<cluster>>]
          /\ queue' = [dirty |-> Null, timer |-> Null]
          /\ UNCHANGED <<cluster, kqueue, observer>>
      BY <1>8 DEF Restart, kubeVars
    <2>2. /\ feeds'[inf] = IF cluster = Null THEN <<>> ELSE <<cluster>>
          /\ feeds'[kub] = feeds[kub]
      BY <1>1, <2>1
    <2>3. ToSet(feeds'[inf]) \subseteq Copies
      BY <1>3, <2>2, ElementsOf
    <2> QED BY <1>3, <2>1, <2>2, <2>3
  <1>9. CASE KReceive
    <2>1. /\ feeds[kub] # <<>> /\ feeds' = [feeds EXCEPT ![kub] = Tail(@)]
          /\ kqueue' \in {Head(feeds[kub]), kqueue}
          /\ UNCHANGED <<queue, observer>>
      BY <1>9 DEF KReceive
    <2>2. feeds'[kub] = Tail(feeds[kub]) /\ feeds'[inf] = feeds[inf]
      BY <1>1, <2>1
    <2>3. Head(feeds[kub]) \in Copies /\ ToSet(feeds'[kub]) \subseteq Copies
      BY <1>1, <1>3, <2>1, <2>2, ElementsOf
    <2> QED BY <1>3, <2>1, <2>2, <2>3
  <1>10. CASE KHandle
    <2>1. /\ kqueue # Null /\ kqueue' = Null /\ observer' = Observed(kqueue, observer)
          /\ UNCHANGED <<feeds, queue>>
      BY <1>10 DEF KHandle, db
    <2>2. kqueue \in Versions
      BY <2>1 DEF ClusterInv, ClusterTypeOK
    <2>3. kqueue.deleted \in BOOLEAN
      BY <2>2 DEF Versions
    <2>4. observer' = Null \/ observer' = observer \/ observer' = Observer(kqueue)
      BY <2>1, <2>3 DEF Observed
    <2> QED BY <1>3, <2>1, <2>2, <2>4, ObserverTyped
  <1>11. CASE Observe
    <2>1. /\ observer # Null /\ UNCHANGED <<feeds, queue, kqueue>>
          /\ \E found : observer' = [observer EXCEPT !.pc = "write", !.found = found]
      BY <1>11 DEF Observe, db
    <2>2. observer \in Observers
      BY <2>1 DEF ClusterInv, ClusterTypeOK
    <2>3. observer'.resource = observer.resource
      BY <2>1, <2>2 DEF Observers
    <2> QED BY <1>3, <2>1, <2>3
  <1>12. CASE Report
    <2>1. /\ observer # Null /\ UNCHANGED <<queue, kqueue>>
          /\ observer' \in {Dead(observer), Observer(cluster')}
      BY <1>12 DEF Report
    <2>2. observer \in Observers
      BY <2>1 DEF ClusterInv, ClusterTypeOK
    <2>3. observer'.resource \in {observer.resource, cluster'}
      BY <2>1, <2>2 DEF Observers, Dead, Observer
    <2> QED BY <1>1, <1>3, <1>4, <1>12, <2>1, <2>3, OthersMove
  <1>13. CASE KRestart
    <2>1. /\ feeds' = [feeds EXCEPT ![kub] = IF cluster = Null THEN <<>> ELSE <<cluster>>]
          /\ kqueue' = Null /\ UNCHANGED <<cluster, queue>>
          /\ observer' = Null \/ observer' = Observer(cluster)
      BY <1>13 DEF KRestart
    <2>2. /\ feeds'[kub] = IF cluster = Null THEN <<>> ELSE <<cluster>>
          /\ feeds'[inf] = feeds[inf]
      BY <1>1, <2>1
    <2>3. ToSet(feeds'[kub]) \subseteq Copies
      BY <1>3, <2>2, ElementsOf
    <2>4. observer' # Null => observer'.resource = cluster'
      BY <2>1 DEF Observer
    <2> QED BY <1>3, <2>1, <2>2, <2>3, <2>4
  <1>14. CASE HealthChanges \/ UNCHANGED vars
    <2>1. UNCHANGED <<feeds, queue, kqueue, observer>>
      BY <1>14 DEF HealthChanges, vars, db, kubeVars
    <2> QED BY <1>3, <2>1
  <1>15. CASE Schedule \/ MetricsChange \/ UserUpdate \/ UserDelete \/ Garbage
    <2>1. UNCHANGED <<queue, kqueue, observer>>
      BY <1>15 DEF Schedule, MetricsChange, UserUpdate, UserDelete, Garbage, others, kubeVars
    <2>2. DbMoves
      BY <1>15, OthersMove DEF DbMoves
    <2> QED BY <1>1, <1>3, <1>4, <2>1, <2>2
  <1> QED BY <1>5, <1>6, <1>7, <1>8, <1>9, <1>10, <1>11, <1>12, <1>13, <1>14, <1>15
          DEF Next, InfrastructureSteps, KubernetesSteps

-----------------------------------------------------------------------------
(* Lists of finalizers                                                     *)

\* Sequences of one or two elements.
LEMMA ShortSequences ==
    ASSUME NEW S, NEW a \in S, NEW b \in S
    PROVE  /\ Append(<<>>, a) = <<a>> /\ Append(<<a>>, b) = <<a, b>>
           /\ Head(<<a>>) = a /\ Tail(<<a>>) = <<>> /\ <<a>> # <<>>
           /\ Front(<<a>>) = <<>> /\ Front(<<a, b>>) = <<a>>
           /\ Last(<<a>>) = a /\ Last(<<a, b>>) = b
  <1>1. <<a>> \in Seq(S) /\ <<a, b>> \in Seq(S) /\ <<>> \in Seq(S)
    OBVIOUS
  <1>2. Append(<<>>, a) = <<a>>
    <2>1. Append(<<>>, a) \in Seq(S) /\ Len(Append(<<>>, a)) = 1 /\ Append(<<>>, a)[1] = a
      BY <1>1
    <2>2. Len(<<a>>) = 1 /\ <<a>>[1] = a
      OBVIOUS
    <2>3. \A i \in 1..Len(Append(<<>>, a)) : Append(<<>>, a)[i] = <<a>>[i]
      BY <2>1, <2>2
    <2> QED BY <1>1, <2>1, <2>2, <2>3, SeqEqual
  <1>3. Append(<<a>>, b) = <<a, b>>
    <2>1. /\ Append(<<a>>, b) \in Seq(S) /\ Len(Append(<<a>>, b)) = 2
          /\ Append(<<a>>, b)[1] = a /\ Append(<<a>>, b)[2] = b
      BY <1>1
    <2>2. Len(<<a, b>>) = 2 /\ <<a, b>>[1] = a /\ <<a, b>>[2] = b
      OBVIOUS
    <2>3. \A i \in 1..2 : Append(<<a>>, b)[i] = <<a, b>>[i]
      <3>1. \A i \in 1..2 : i = 1 \/ i = 2
        OBVIOUS
      <3> QED BY <2>1, <2>2, <3>1
    <2> QED BY <1>1, <2>1, <2>2, <2>3, SeqEqual
  <1>4. Tail(<<a>>) = <<>>
    BY <1>1, EmptySeq, HeadTailProperties
  <1>5. Front(<<a>>) = <<>>
    <2>1. Front(<<a>>) \in Seq(S) /\ Len(Front(<<a>>)) = 0
      BY <1>1 DEF Front
    <2> QED BY <2>1, EmptySeq
  <1>6. Front(<<a, b>>) = <<a>>
    <2>1. /\ Front(<<a, b>>) \in Seq(S) /\ Len(Front(<<a, b>>)) = 1
          /\ Front(<<a, b>>)[1] = a
      BY <1>1 DEF Front
    <2> QED BY <1>1, <2>1, SeqEqual
  <1> QED BY <1>2, <1>3, <1>4, <1>5, <1>6 DEF Last

\* The lists of finalizers that a cluster has (Coherent).
LEMMA FinalizerLists ==
    /\ Append(<<>>, Finalizer) = <<Finalizer>>
    /\ Append(<<>>, Cascade) = <<Cascade>>
    /\ Append(<<Finalizer>>, Cascade) = <<Finalizer, Cascade>>
    /\ Front(<<Cascade>>) = <<>> /\ Front(<<Finalizer, Cascade>>) = <<Finalizer>>
    /\ Last(<<Finalizer>>) = Finalizer /\ Last(<<Cascade>>) = Cascade
    /\ Last(<<Finalizer, Cascade>>) = Cascade
    /\ RemoveFirst(<<Finalizer>>, Finalizer) = <<>>
    /\ Finalizer \in ToSet(<<Finalizer>>) /\ Finalizer \in ToSet(<<Finalizer, Cascade>>)
    /\ Finalizer \notin ToSet(<<Cascade>>) /\ ToSet(<<>>) = {}
    /\ <<Finalizer>> # <<>> /\ <<Cascade>> # <<>> /\ <<Finalizer, Cascade>> # <<>>
    /\ <<Finalizer>> # <<Cascade>> /\ <<Finalizer>> # <<Finalizer, Cascade>>
    /\ <<Cascade>> # <<Finalizer, Cascade>>
  <1>1. /\ Append(<<>>, Finalizer) = <<Finalizer>>
        /\ Append(<<>>, Cascade) = <<Cascade>>
        /\ Append(<<Finalizer>>, Cascade) = <<Finalizer, Cascade>>
        /\ Front(<<Cascade>>) = <<>> /\ Front(<<Finalizer, Cascade>>) = <<Finalizer>>
        /\ Last(<<Finalizer>>) = Finalizer /\ Last(<<Cascade>>) = Cascade
        /\ Last(<<Finalizer, Cascade>>) = Cascade
    BY ShortSequences, Finalizer \in Finalizers, Cascade \in Finalizers DEF Finalizers
  <1>2. RemoveFirst(<<Finalizer>>, Finalizer) = <<>>
    <2> DEFINE s == <<Finalizer>>
               T == {i \in 1..Len(s) : s[i] = Finalizer}
    <2>1. Len(s) = 1 /\ s[1] = Finalizer /\ s \in Seq(Finalizers)
      BY DEF Finalizers
    <2>2. T \subseteq Nat /\ T # {}
      BY <2>1
    <2>3. Min(T) \in T
      BY <2>2, LeastNatural
    <2>4. Min(T) = 1
      BY <2>1, <2>3
    <2>5. RemoveFirst(s, Finalizer) = RemoveAt(s, Min(T))
      BY <2>1 DEF RemoveFirst, SelectInSeq
    <2> HIDE DEF T, s
    <2>6. RemoveFirst(s, Finalizer) = SubSeq(s, 1, 0) \o SubSeq(s, 2, 1)
      BY <2>1, <2>4, <2>5 DEF RemoveAt
    <2>7. /\ SubSeq(s, 1, 0) \in Seq(Finalizers) /\ SubSeq(s, 2, 1) \in Seq(Finalizers)
          /\ Len(SubSeq(s, 1, 0)) = 0 /\ Len(SubSeq(s, 2, 1)) = 0
      BY <2>1
    <2>8. RemoveFirst(s, Finalizer) = <<>>
      BY <2>6, <2>7
    <2> QED BY <2>8 DEF s
  <1>3. /\ Finalizer \in ToSet(<<Finalizer>>) /\ Finalizer \in ToSet(<<Finalizer, Cascade>>)
        /\ Finalizer \notin ToSet(<<Cascade>>) /\ ToSet(<<>>) = {}
    <2>1. ToSet(<<Finalizer>>) = {Finalizer} /\ ToSet(<<Cascade>>) = {Cascade} /\ ToSet(<<>>) = {}
      BY ElementsOf
    <2>2. <<Finalizer, Cascade>>[1] = Finalizer /\ 1 \in DOMAIN <<Finalizer, Cascade>>
      OBVIOUS
    <2> QED BY <2>1, <2>2 DEF ToSet, Finalizer, Cascade
  <1>4. /\ <<Finalizer>> # <<>> /\ <<Cascade>> # <<>> /\ <<Finalizer, Cascade>> # <<>>
        /\ <<Finalizer>> # <<Cascade>> /\ <<Finalizer>> # <<Finalizer, Cascade>>
        /\ <<Cascade>> # <<Finalizer, Cascade>>
    BY DEF Finalizer, Cascade
  <1> QED BY <1>1, <1>2, <1>3, <1>4

-----------------------------------------------------------------------------
(* What the handler does to its copy                                       *)

WithIdPoints == {"reconcile", "created", "connect", "kubeconfig", "hand over", "delete",
                 "deleting", "leaving"}

\* From version c to d: what no step of the handler changes, and what most do not
Carries(c, d) ==
    /\ d.deleted = c.deleted
    /\ d.status.scheduled_to = c.status.scheduled_to
    /\ d.status.triggered = c.status.triggered
SameId(c, d) ==
    d.status.cluster_id = c.status.cluster_id /\ d.status.running_on = c.status.running_on
SameSpec(c, d) == d.finalizers = c.finalizers /\ d.kubeconfig = c.kubeconfig

\* From point p with c to q with d: at most the state changes,
Marks(p, c, q, d) ==
    /\ Carries(c, d) /\ SameId(c, d) /\ SameSpec(c, d)
    /\ d.status.state = c.status.state \/ d.status.state # "PENDING"
    /\ q \in Points \ {"resolve", "finalize", "hand over", "release"}
    /\ q = "create" => p = "apply" /\ ~c.status.running_on /\ d.status.state = "CREATING"
    /\ q \in {"reconcile", "created"} => d.status.state = "RECONCILING"
    /\ q \in WithIdPoints => d.status.cluster_id # Null
\* the finalizer is added,
Finalizes(p, c, q, d) ==
    /\ p = "resolve" /\ q = "finalize"
    /\ Carries(c, d) /\ SameId(c, d) /\ d.status.state = c.status.state
    /\ d.kubeconfig = c.kubeconfig
    /\ ~c.deleted /\ ~HasFinalizer(c) /\ d.finalizers = Append(c.finalizers, Finalizer)
\* there is a new infrastructure,
Creates(p, c, q, d) ==
    /\ p = "create" /\ q = "created"
    /\ Carries(c, d) /\ SameSpec(c, d) /\ d.status.state = c.status.state
    /\ d.status.running_on
    /\ d.status.cluster_id \in Ids /\ ImCreate(d.status.cluster_id)
\* it is not there any more,
Forgets(p, c, q, d) ==
    /\ p = "poll" /\ q = "give up"
    /\ Carries(c, d) /\ SameSpec(c, d)
    /\ c.status.cluster_id # Null /\ ~Exists(c.status.cluster_id)
    /\ d.status.cluster_id = Null /\ ~d.status.running_on
\* its kubeconfig is read,
Obtains(p, c, q, d) ==
    /\ p = "kubeconfig" /\ q = "hand over"
    /\ Carries(c, d) /\ SameId(c, d) /\ d.status.state = c.status.state
    /\ d.finalizers = c.finalizers
    /\ d.kubeconfig = c.status.cluster_id /\ Exists(c.status.cluster_id)
    /\ c.status.cluster_id # Null
\* or it is gone, and the finalizer taken away.
Releases(p, c, q, d) ==
    /\ p \in {"read", "leaving"} /\ q = "release"
    /\ Carries(c, d) /\ SameId(c, d) /\ d.status.state = c.status.state
    /\ d.kubeconfig = c.kubeconfig /\ d.finalizers = RemoveFirst(c.finalizers, Finalizer)
    /\ \/ c.status.cluster_id = Null \/ c.status.state = "PENDING"
       \/ ~Exists(c.status.cluster_id)
Goes(p, c, q, d) ==
    \/ Marks(p, c, q, d) \/ Finalizes(p, c, q, d) \/ Creates(p, c, q, d)
    \/ Forgets(p, c, q, d) \/ Obtains(p, c, q, d) \/ Releases(p, c, q, d)

\* A copy as it is, or with another state
LEMMA MarkedCopies ==
    ASSUME NEW c \in Versions
    PROVE  /\ Carries(c, c) /\ SameId(c, c) /\ SameSpec(c, c)
           /\ \A st \in ClusterStates :
                LET d == [c EXCEPT !.status.state = st] IN
                /\ d \in Versions /\ d.status.state = st
                /\ Carries(c, d) /\ SameId(c, d) /\ SameSpec(c, d)
  BY DEF Carries, SameId, SameSpec, Versions, Statuses

\* The parts of the handler's place
LEMMA PlacesOf ==
    ASSUME NEW pc, NEW c
    PROVE  At(pc, c).pc = pc /\ At(pc, c).copy = c
  BY DEF At

\* An error is written to the status.
LEMMA FailMarks ==
    ASSUME NEW c \in Versions, NEW p, worker' = FailWith(c)
    PROVE  Marks(p, c, worker'.pc, worker'.copy)
  <1> DEFINE d == [c EXCEPT !.status.state = "FAILED"]
  <1>1. worker'.pc = "fail" /\ worker'.copy = d
    BY PlacesOf DEF FailWith
  <1>2. Carries(c, d) /\ SameId(c, d) /\ SameSpec(c, d) /\ d.status.state = "FAILED"
    BY MarkedCopies DEF ClusterStates
  <1> HIDE DEF d
  <1> QED BY <1>1, <1>2 DEF Marks, Points, WithIdPoints

\* The copy goes on as it is,
LEMMA GoesSame ==
    ASSUME NEW c \in Versions, NEW p, NEW q \in Points, worker' = At(q, c),
           q \notin {"resolve", "finalize", "create", "reconcile", "created",
                     "hand over", "release"},
           q \in WithIdPoints => c.status.cluster_id # Null
    PROVE  Marks(p, c, worker'.pc, worker'.copy)
  <1>1. worker'.pc = q /\ worker'.copy = c
    BY PlacesOf
  <1>2. Carries(c, c) /\ SameId(c, c) /\ SameSpec(c, c)
    BY MarkedCopies
  <1> QED BY <1>1, <1>2 DEF Marks

\* or with another state.
LEMMA GoesMarked ==
    ASSUME NEW c \in Versions, NEW p, NEW q \in Points, NEW st \in ClusterStates \ {"PENDING"},
           worker' = At(q, [c EXCEPT !.status.state = st]),
           q \notin {"resolve", "finalize", "hand over", "release"},
           q = "create" => p = "apply" /\ ~c.status.running_on /\ st = "CREATING",
           q \in {"reconcile", "created"} => st = "RECONCILING",
           q \in WithIdPoints => c.status.cluster_id # Null
    PROVE  Marks(p, c, worker'.pc, worker'.copy)
  <1> DEFINE d == [c EXCEPT !.status.state = st]
  <1>1. worker'.pc = q /\ worker'.copy = d
    BY PlacesOf
  <1>2. Carries(c, d) /\ SameId(c, d) /\ SameSpec(c, d) /\ d.status.state = st
    BY MarkedCopies
  <1> HIDE DEF d
  <1> QED BY <1>1, <1>2 DEF Marks, SameId

\* What IM is understood to say
LEMMA StateSays ==
    ASSUME ClusterInv, NEW id \in Ids \cup {Null}
    PROVE  /\ GetState(id) = "not found" => id # Null /\ ~Exists(id)
           /\ GetState(id) = "CONFIGURED" => id # Null
  <1>1. ASSUME id # Null, Exists(id)
        PROVE  GetState(id) # "not found"
    <2>1. im[id] \in Replies
      BY <1>1 DEF ClusterInv, ClusterTypeOK, Exists
    <2>2. im[id].overall \in {"configured", "running", "failed", "deleting"}
      BY <2>1 DEF Replies, Configured, Configuring, Partly, Broken, Leaving, Reply
    <2>3. GetState(id) = IF "unconfigured" \in im[id].vms THEN StateMapping["unconfigured"]
                         ELSE StateMapping[im[id].overall]
      BY <1>1 DEF GetState
    <2>4. StateMapping["unconfigured"] # "not found" /\ StateMapping[im[id].overall] # "not found"
      <3>1. /\ StateMapping["unconfigured"] = "UNCONFIGURED"
            /\ StateMapping["configured"] = "CONFIGURED" /\ StateMapping["running"] = "CREATING"
            /\ StateMapping["failed"] = "FAILED" /\ StateMapping["deleting"] = "DELETING"
        BY DEF StateMapping
      <3> QED BY <2>2, <3>1
    <2> QED BY <2>3, <2>4
  <1>2. id = Null => GetState(id) = "retrieve error"
    BY DEF GetState
  <1> QED BY <1>1, <1>2

\* A status that is saved lets the handler go on, if it does.
LEMMA SavedGoes ==
    ASSUME NEW c, NEW next, SaveStatus(c, next), worker' # Idle
    PROVE  worker' = next
  BY DEF SaveStatus, Dropped

\* The steps of the handler are these.
LEMMA HandlerGoes ==
    ASSUME ClusterInv, CopiesCoherent, Handler, worker # Idle, worker' # Idle
    PROVE  Goes(worker.pc, worker.copy, worker'.pc, worker'.copy)
  <1> DEFINE c == worker.copy
  <1>1. worker.pc \in Points /\ c \in Versions
    BY DEF ClusterInv, ClusterTypeOK
  <1>2. c \in Copies
    BY DEF Copies
  <1>3. /\ c.status.running_on <=> c.status.cluster_id # Null
        /\ worker.pc \in WithIdPoints => c.status.cluster_id # Null
        /\ worker.pc = "reconcile" => c.status.state = "RECONCILING"
        /\ c.status.state \in ClusterStates
    BY <1>1, <1>2 DEF CopiesCoherent, Coherent, WithIdPoints, Versions, Statuses
  <1>4. CASE Resolve
    <2>1. /\ worker.pc = "resolve"
          /\ worker' = FailWith(c) \/ (c.deleted /\ worker' = At("read", c))
             \/ (~c.deleted /\ worker' = Reconciled(c))
      BY <1>4 DEF Resolve
    <2>2. CASE worker' = FailWith(c)
      BY <1>1, <2>2, FailMarks DEF Goes
    <2>3. CASE worker' = At("read", c)
      <3>1. Marks(worker.pc, c, worker'.pc, worker'.copy)
        BY <1>1, <2>3, GoesSame DEF Points, WithIdPoints
      <3> QED BY <3>1 DEF Goes
    <2>4. CASE ~c.deleted /\ worker' = Reconciled(c)
      <3> DEFINE d == [c EXCEPT !.finalizers = Append(@, Finalizer)]
      <3>1. \/ ~HasFinalizer(c) /\ worker' = At("finalize", d)
            \/ worker' \in {At("apply", c), At("reconfigure", c), At("poll", c)}
        BY <2>4 DEF Reconciled, HasFinalizer
      <3>2. CASE ~HasFinalizer(c) /\ worker' = At("finalize", d)
        <4>1. worker'.pc = "finalize" /\ worker'.copy = d
          BY <3>2, PlacesOf
        <4>2. /\ Carries(c, d) /\ SameId(c, d) /\ d.status.state = c.status.state
              /\ d.kubeconfig = c.kubeconfig /\ d.finalizers = Append(c.finalizers, Finalizer)
          BY <1>1 DEF Carries, SameId, Versions
        <4> HIDE DEF d
        <4> QED BY <2>1, <2>4, <3>2, <4>1, <4>2 DEF Goes, Finalizes
      <3>3. ASSUME NEW q \in {"apply", "reconfigure", "poll"}, worker' = At(q, c)
            PROVE  Marks(worker.pc, c, worker'.pc, worker'.copy)
        BY <1>1, <3>3, GoesSame DEF Points, WithIdPoints
      <3> QED BY <3>1, <3>2, <3>3 DEF Goes
    <2> QED BY <2>1, <2>2, <2>3, <2>4
  <1>5. CASE Finalize
    <2>1. worker.pc = "finalize" /\ worker' = At("apply", c)
      BY <1>5 DEF Finalize, SaveResource, Dropped
    <2>2. Marks(worker.pc, c, worker'.pc, worker'.copy)
      BY <1>1, <2>1, GoesSame DEF Points, WithIdPoints
    <2> QED BY <2>2 DEF Goes
  <1>6. CASE Apply
    <2>1. PICK st \in {"CREATING", "RECONCILING"}, q \in {"create", "reconcile"} :
            /\ worker.pc = "apply"
            /\ SaveStatus([c EXCEPT !.status.state = st], At(q, [c EXCEPT !.status.state = st]))
            /\ q = "create" => ~c.status.running_on /\ st = "CREATING"
            /\ q = "reconcile" => c.status.running_on /\ st = "RECONCILING"
      BY <1>6 DEF Apply
    <2>2. worker' = At(q, [c EXCEPT !.status.state = st])
      BY <2>1, SavedGoes
    <2>3. Marks(worker.pc, c, worker'.pc, worker'.copy)
      BY <1>1, <1>3, <2>1, <2>2, GoesMarked DEF Points, WithIdPoints, ClusterStates
    <2> QED BY <2>3 DEF Goes
  <1>7. CASE Create
    <2>1. /\ worker.pc = "create"
          /\ \/ worker' = FailWith(c)
             \/ \E id \in Ids : ImCreate(id) /\ worker' =
                  At("created", [c EXCEPT !.status.cluster_id = id, !.status.running_on = TRUE,
                                          !.status.last_applied = c.tosca])
      BY <1>7 DEF Create
    <2>2. CASE worker' = FailWith(c)
      BY <1>1, <2>2, FailMarks DEF Goes
    <2>3. ASSUME NEW id \in Ids, ImCreate(id), worker' =
                  At("created", [c EXCEPT !.status.cluster_id = id, !.status.running_on = TRUE,
                                          !.status.last_applied = c.tosca])
          PROVE  Creates(worker.pc, c, worker'.pc, worker'.copy)
      <3> DEFINE d == [c EXCEPT !.status.cluster_id = id, !.status.running_on = TRUE,
                                !.status.last_applied = c.tosca]
      <3>1. worker'.pc = "created" /\ worker'.copy = d
        BY <2>3, PlacesOf
      <3>2. /\ Carries(c, d) /\ SameSpec(c, d) /\ d.status.state = c.status.state
            /\ d.status.running_on /\ d.status.cluster_id = id
        BY <1>1 DEF Carries, SameSpec, Versions, Statuses
      <3> HIDE DEF d
      <3> QED BY <2>1, <2>3, <3>1, <3>2 DEF Creates
    <2> QED BY <2>1, <2>2, <2>3 DEF Goes
  <1>8. CASE Reconcile
    <2>1. /\ worker.pc = "reconcile"
          /\ \/ worker' = FailWith(c)
             \/ worker' = At("created", [c EXCEPT !.status.last_applied = c.tosca])
      BY <1>8 DEF Reconcile
    <2>2. CASE worker' = FailWith(c)
      BY <1>1, <2>2, FailMarks DEF Goes
    <2>3. CASE worker' = At("created", [c EXCEPT !.status.last_applied = c.tosca])
      <3> DEFINE d == [c EXCEPT !.status.last_applied = c.tosca]
      <3>1. worker'.pc = "created" /\ worker'.copy = d
        BY <2>3, PlacesOf
      <3>2. /\ Carries(c, d) /\ SameSpec(c, d) /\ SameId(c, d)
            /\ d.status.state = c.status.state
        BY <1>1 DEF Carries, SameSpec, SameId, Versions, Statuses
      <3> HIDE DEF d
      <3>3. c.status.cluster_id # Null /\ d.status.state = "RECONCILING"
        BY <1>3, <2>1, <3>2 DEF WithIdPoints
      <3>4. Marks(worker.pc, c, "created", d)
        BY <3>2, <3>3 DEF Marks, Points, SameId
      <3> QED BY <3>1, <3>4 DEF Goes
    <2> QED BY <2>1, <2>2, <2>3
  <1>9. CASE Reconfigure
    <2>1. /\ worker.pc = "reconfigure" /\ c.status.cluster_id # Null
          /\ \/ worker' = At("created", [c EXCEPT !.status.state = "RECONCILING"])
             \/ worker' = At("give up", [c EXCEPT !.status.state = "FAILING_RECONCILIATION"])
      BY <1>9 DEF Reconfigure, GiveUp
    <2>2. Marks(worker.pc, c, worker'.pc, worker'.copy)
      <3>1. CASE worker' = At("created", [c EXCEPT !.status.state = "RECONCILING"])
        BY <1>1, <1>3, <2>1, <3>1, GoesMarked DEF Points, WithIdPoints, ClusterStates
      <3>2. CASE worker' = At("give up", [c EXCEPT !.status.state = "FAILING_RECONCILIATION"])
        BY <1>1, <1>3, <3>2, GoesMarked DEF Points, WithIdPoints, ClusterStates
      <3> QED BY <2>1, <3>1, <3>2
    <2> QED BY <2>2 DEF Goes
  <1>10. CASE Poll
    <2> DEFINE state == GetState(c.status.cluster_id)
               forgotten == [c EXCEPT !.status.cluster_id = Null, !.status.running_on = FALSE,
                                      !.status.last_applied = 0, !.status.state = "PENDING"]
    <2>1. /\ worker.pc = "poll"
          /\ \/ state = "not found" /\ worker' = At("give up", forgotten)
             \/ worker' = At("give up", [c EXCEPT !.status.state = "FAILING_RECONCILIATION"])
             \/ worker' = FailWith(c)
             \/ /\ state = "CONFIGURED"
                /\ worker' = At("connect", [c EXCEPT !.status.state = "CONNECTING"])
      BY <1>10 DEF Poll, GiveUp
    <2>2. /\ state = "not found" => c.status.cluster_id # Null /\ ~Exists(c.status.cluster_id)
          /\ state = "CONFIGURED" => c.status.cluster_id # Null
      BY <1>1, StateSays DEF Versions, Statuses
    <2>3. CASE worker' = FailWith(c)
      BY <1>1, <2>3, FailMarks DEF Goes
    <2>4. CASE worker' = At("give up", [c EXCEPT !.status.state = "FAILING_RECONCILIATION"])
      <3>1. Marks(worker.pc, c, worker'.pc, worker'.copy)
        BY <1>1, <1>3, <2>4, GoesMarked DEF Points, WithIdPoints, ClusterStates
      <3> QED BY <3>1 DEF Goes
    <2>5. CASE /\ state = "CONFIGURED"
               /\ worker' = At("connect", [c EXCEPT !.status.state = "CONNECTING"])
      <3>1. Marks(worker.pc, c, worker'.pc, worker'.copy)
        <4>1. c.status.cluster_id # Null
          BY <2>2, <2>5
        <4> HIDE DEF state
        <4> QED BY <1>1, <1>3, <4>1, <2>5, GoesMarked DEF Points, WithIdPoints, ClusterStates
      <3> QED BY <3>1 DEF Goes
    <2>6. CASE state = "not found" /\ worker' = At("give up", forgotten)
      <3>1. worker'.pc = "give up" /\ worker'.copy = forgotten
        BY <2>6, PlacesOf
      <3>2. /\ Carries(c, forgotten) /\ SameSpec(c, forgotten)
            /\ forgotten.status.cluster_id = Null /\ ~forgotten.status.running_on
        BY <1>1 DEF Carries, SameSpec, Versions, Statuses
      <3> HIDE DEF forgotten, state
      <3> QED BY <2>1, <2>2, <2>6, <3>1, <3>2 DEF Goes, Forgets
    <2> QED BY <2>1, <2>3, <2>4, <2>5, <2>6
  <1>11. CASE GetKubeconfig
    <2> DEFINE d == [c EXCEPT !.kubeconfig = c.status.cluster_id]
    <2>1. /\ worker.pc = "kubeconfig"
          /\ \/ worker' = FailWith(c)
             \/ Exists(c.status.cluster_id) /\ worker' = At("hand over", d)
      BY <1>11 DEF GetKubeconfig
    <2>2. CASE worker' = FailWith(c)
      BY <1>1, <2>2, FailMarks DEF Goes
    <2>3. CASE Exists(c.status.cluster_id) /\ worker' = At("hand over", d)
      <3>1. worker'.pc = "hand over" /\ worker'.copy = d
        BY <2>3, PlacesOf
      <3>2. /\ Carries(c, d) /\ SameId(c, d) /\ d.status.state = c.status.state
            /\ d.finalizers = c.finalizers /\ d.kubeconfig = c.status.cluster_id
        BY <1>1 DEF Carries, SameId, Versions, Statuses
      <3>3. c.status.cluster_id # Null
        BY <1>3, <2>1 DEF WithIdPoints
      <3> HIDE DEF d
      <3> QED BY <2>1, <2>3, <3>1, <3>2, <3>3 DEF Goes, Obtains
    <2> QED BY <2>1, <2>2, <2>3
  <1>12. CASE SaveApplied \/ Connect \/ SaveDeleting
    <2>1. PICK p \in {"created", "connect", "deleting"}, q \in {"poll", "kubeconfig", "leaving"} :
            /\ worker.pc = p /\ SaveStatus(c, At(q, c))
            /\ q \in WithIdPoints => p \in WithIdPoints
      BY <1>12 DEF SaveApplied, Connect, SaveDeleting, WithIdPoints
    <2>2. worker' = At(q, c)
      BY <2>1, SavedGoes
    <2>3. Marks(worker.pc, c, worker'.pc, worker'.copy)
      <3>1. q \in Points
        BY DEF Points
      <3>2. q \in WithIdPoints => c.status.cluster_id # Null
        BY <1>3, <2>1
      <3> QED BY <1>1, <2>2, <3>1, <3>2, GoesSame
    <2> QED BY <2>3 DEF Goes
  <1>13. CASE SaveGiveUp
    <2>1. worker' = FailWith(c)
      BY <1>13, SavedGoes DEF SaveGiveUp
    <2> QED BY <1>1, <2>1, FailMarks DEF Goes
  <1>14. CASE HandOver \/ Release \/ Fail
    BY <1>14 DEF HandOver, Release, Fail, SaveResource, SaveStatus, Dropped
  <1>15. CASE Read
    <2> DEFINE d == [c EXCEPT !.finalizers = RemoveFirst(@, Finalizer)]
               exists == c.status.cluster_id # Null /\ c.status.state # "PENDING"
    <2>1. /\ worker.pc = "read"
          /\ \/ ~exists /\ worker' = At("release", d)
             \/ exists /\ worker' \in {At("leaving", c), At("delete", c)}
      BY <1>15 DEF Read
    <2>2. CASE ~exists /\ worker' = At("release", d)
      <3>1. worker'.pc = "release" /\ worker'.copy = d
        BY <2>2, PlacesOf
      <3>2. /\ Carries(c, d) /\ SameId(c, d) /\ d.status.state = c.status.state
            /\ d.kubeconfig = c.kubeconfig /\ d.finalizers = RemoveFirst(c.finalizers, Finalizer)
        BY <1>1 DEF Carries, SameId, Versions
      <3> HIDE DEF d
      <3> QED BY <2>1, <2>2, <3>1, <3>2 DEF Goes, Releases
    <2>3. ASSUME exists, NEW q \in {"leaving", "delete"}, worker' = At(q, c)
          PROVE  Marks(worker.pc, c, worker'.pc, worker'.copy)
      BY <1>1, <2>3, GoesSame DEF Points, WithIdPoints
    <2> QED BY <2>1, <2>2, <2>3 DEF Goes
  <1>16. CASE DeleteInfrastructure
    <2>1. /\ worker.pc = "delete"
          /\ \/ worker' = FailWith(c)
             \/ worker' = At("deleting", [c EXCEPT !.status.state = "DELETING"])
      BY <1>16 DEF DeleteInfrastructure
    <2>2. CASE worker' = FailWith(c)
      BY <1>1, <2>2, FailMarks DEF Goes
    <2>3. CASE worker' = At("deleting", [c EXCEPT !.status.state = "DELETING"])
      <3>1. c.status.cluster_id # Null
        BY <1>3, <2>1 DEF WithIdPoints
      <3>2. Marks(worker.pc, c, worker'.pc, worker'.copy)
        BY <1>1, <2>3, <3>1, GoesMarked DEF Points, ClusterStates
      <3> QED BY <3>2 DEF Goes
    <2> QED BY <2>1, <2>2, <2>3
  <1>17. CASE WaitDeleted
    <2> DEFINE d == [c EXCEPT !.finalizers = RemoveFirst(@, Finalizer)]
               state == GetState(c.status.cluster_id)
    <2>1. /\ worker.pc = "leaving"
          /\ \/ worker' = FailWith(c)
             \/ state = "not found" /\ worker' = At("release", d)
      BY <1>17 DEF WaitDeleted
    <2>2. state = "not found" => ~Exists(c.status.cluster_id)
      BY <1>1, StateSays DEF Versions, Statuses
    <2>3. CASE worker' = FailWith(c)
      BY <1>1, <2>3, FailMarks DEF Goes
    <2>4. CASE state = "not found" /\ worker' = At("release", d)
      <3>1. worker'.pc = "release" /\ worker'.copy = d
        BY <2>4, PlacesOf
      <3>2. /\ Carries(c, d) /\ SameId(c, d) /\ d.status.state = c.status.state
            /\ d.kubeconfig = c.kubeconfig /\ d.finalizers = RemoveFirst(c.finalizers, Finalizer)
        BY <1>1 DEF Carries, SameId, Versions
      <3> HIDE DEF d, state
      <3> QED BY <2>1, <2>2, <2>4, <3>1, <3>2 DEF Goes, Releases
    <2> QED BY <2>1, <2>3, <2>4
  <1>18. ~Take
    BY DEF Take
  <1> QED BY <1>4, <1>5, <1>6, <1>7, <1>8, <1>9, <1>10, <1>11, <1>12, <1>13, <1>14, <1>15,
             <1>16, <1>17, <1>18 DEF Handler

-----------------------------------------------------------------------------
(* What the steps do to the cluster in the database                        *)

\* The status of b is written, or metadata and spec of b.
StatusOf(b) ==
    /\ Stored /\ cluster'.deleted = cluster.deleted
    /\ SameSpec(cluster, cluster') /\ cluster'.status = b.status
BodyOf(b) ==
    /\ Stored /\ cluster'.deleted = cluster.deleted
    /\ SameSpec(b, cluster') /\ cluster'.status = cluster.status

\* What the two requests of the API leave in the database
LEMMA RequestsWrite ==
    ASSUME ClusterInv, NEW b \in Versions, cluster # Null
    PROVE  /\ UpdateStatus(b) => StatusOf(b)
           /\ Update(b) => \/ Erased /\ b.finalizers = <<>>
                           \/ BodyOf(b) /\ ~(cluster.deleted /\ b.finalizers = <<>>)
  <1>1. cluster \in Versions
    BY DEF ClusterInv, ClusterTypeOK
  <1>2. \A a \in Versions : Store(a) => Stored /\ cluster' = a
    BY ClusterAssumption DEF Store, Stored
  <1>3. ASSUME UpdateStatus(b) PROVE StatusOf(b)
    <2> DEFINE a == [cluster EXCEPT !.status = b.status]
    <2>1. /\ a \in Versions /\ a.deleted = cluster.deleted /\ a.finalizers = cluster.finalizers
          /\ a.kubeconfig = cluster.kubeconfig /\ a.status = b.status
      BY <1>1 DEF Versions
    <2>2. Store(a)
      BY <1>3 DEF UpdateStatus
    <2> HIDE DEF a
    <2> QED BY <1>2, <2>1, <2>2 DEF StatusOf, SameSpec
  <1>4. ASSUME Update(b)
        PROVE  \/ Erased /\ b.finalizers = <<>>
               \/ BodyOf(b) /\ ~(cluster.deleted /\ b.finalizers = <<>>)
    <2> DEFINE a == [b EXCEPT !.deleted = cluster.deleted, !.status = cluster.status]
    <2>1. /\ a \in Versions /\ a.deleted = cluster.deleted /\ a.finalizers = b.finalizers
          /\ a.kubeconfig = b.kubeconfig /\ a.status = cluster.status
      BY <1>1 DEF Versions
    <2>2. IF cluster.deleted /\ b.finalizers = <<>> THEN Erase ELSE Store(a)
      BY <1>4 DEF Update
    <2> HIDE DEF a
    <2>3. Store(a) => BodyOf(b)
      BY <1>2, <2>1 DEF BodyOf, SameSpec
    <2>4. Erase /\ cluster.deleted => Erased
      BY DEF Erase, Erased
    <2> QED BY <2>2, <2>3, <2>4
  <1> QED BY <1>3, <1>4

\* The requests of the handler: a status, with its copy; the finalizer or the kubeconfig,
\* unless that is refused; and the last request in a deletion, which removes the cluster
StatusPoints == {"apply", "created", "give up", "connect", "deleting", "fail"}
WritesStatus ==
    /\ worker.pc \in StatusPoints
    /\ \E b \in Versions :
         /\ StatusOf(b)
         /\ Carries(worker.copy, b) /\ SameId(worker.copy, b) /\ SameSpec(worker.copy, b)
         /\ \/ worker.pc # "apply" /\ b.status.state = worker.copy.status.state
            \/ /\ worker.pc = "apply" /\ b.status.state \in {"CREATING", "RECONCILING"}
               /\ worker'.pc \in {"create", "reconcile"}
               /\ worker'.pc = "create" => b.status.state = "CREATING"
WritesBody ==
    /\ worker.pc \in {"finalize", "hand over"} /\ ~worker.copy.deleted
    /\ cluster # Null /\ ~Refuses(worker.copy) /\ BodyOf(worker.copy)
Removes == worker.pc = "release" /\ Erased /\ worker' = Idle

\* The handler writes by these requests only, and a status whenever it is at such a point
\* and the cluster is there.
LEMMA HandlerDb ==
    ASSUME ClusterInv, CopiesCoherent, Handler
    PROVE  \/ UNCHANGED db /\ (worker.pc \in StatusPoints => cluster = Null)
           \/ WritesStatus \/ WritesBody \/ Removes
  <1> DEFINE c == worker.copy
  <1>1. CASE Take \/ Resolve \/ Create \/ Reconcile \/ Reconfigure \/ Poll \/ GetKubeconfig
             \/ Read \/ DeleteInfrastructure \/ WaitDeleted
    <2>1. /\ UNCHANGED db
          /\ worker.pc \in {"idle", "resolve", "create", "reconcile", "reconfigure", "poll",
                           "kubeconfig", "read", "delete", "leaving"}
      <3>1. Idle.pc = "idle"
        BY DEF Idle
      <3> QED BY <1>1, <3>1 DEF Take, Resolve, Create, Reconcile, Reconfigure, Poll, GetKubeconfig,
                      Read, DeleteInfrastructure, WaitDeleted
    <2> QED BY <2>1 DEF StatusPoints
  <1>2. CASE SaveApplied \/ SaveGiveUp \/ Connect \/ SaveDeleting \/ Fail
    <2>1. /\ worker.pc \in {"created", "give up", "connect", "deleting", "fail"}
          /\ \E next : SaveStatus(c, next)
      BY <1>2 DEF SaveApplied, SaveGiveUp, Connect, SaveDeleting, Fail
    <2>2. c \in Versions
      BY <2>1, CopyTyped DEF Points
    <2>3. (UNCHANGED db /\ cluster = Null) \/ StatusOf(c)
      BY <2>1, <2>2, RequestsWrite DEF SaveStatus, Dropped
    <2>4. Carries(c, c) /\ SameId(c, c) /\ SameSpec(c, c)
      BY <2>2, MarkedCopies
    <2> QED BY <2>1, <2>2, <2>3, <2>4 DEF WritesStatus, StatusPoints
  <1>3. CASE Apply
    <2>1. PICK st \in {"CREATING", "RECONCILING"}, q \in {"create", "reconcile"} :
            /\ worker.pc = "apply"
            /\ SaveStatus([c EXCEPT !.status.state = st], At(q, [c EXCEPT !.status.state = st]))
            /\ q = "create" => st = "CREATING"
      BY <1>3 DEF Apply
    <2>2. c \in Versions
      BY <2>1, CopyTyped DEF Points
    <2> DEFINE b == [c EXCEPT !.status.state = st]
    <2>3. b \in Versions /\ Carries(c, b) /\ SameId(c, b) /\ SameSpec(c, b) /\ b.status.state = st
      <3>1. st \in ClusterStates
        BY DEF ClusterStates
      <3> QED BY <2>2, <3>1, MarkedCopies
    <2>4. SaveStatus(b, At(q, b))
      BY <2>1
    <2> HIDE DEF b
    <2>5. (UNCHANGED db /\ cluster = Null) \/ (StatusOf(b) /\ worker' = At(q, b))
      BY <2>3, <2>4, RequestsWrite DEF SaveStatus, Dropped
    <2>6. worker' = At(q, b) => worker'.pc = q
      BY PlacesOf
    <2> QED BY <2>1, <2>3, <2>5, <2>6 DEF WritesStatus, StatusPoints
  <1>4. CASE Finalize \/ HandOver
    <2>1. /\ worker.pc \in {"finalize", "hand over"}
          /\ \E next, equal : SaveResource(c, next, equal)
      BY <1>4 DEF Finalize, HandOver
    <2>2. c \in Versions /\ ~c.deleted /\ HasFinalizer(c)
      BY <2>1, CopyTyped DEF Points, CreatePoints, WithPoints
    <2>3. UNCHANGED db \/ (cluster # Null /\ ~Refuses(c) /\ Update(c))
      BY <2>1 DEF SaveResource, Dropped
    <2>4. c.finalizers # <<>>
      BY <2>2, ElementsOf DEF HasFinalizer
    <2> QED BY <2>1, <2>2, <2>3, <2>4, RequestsWrite DEF WritesBody, StatusPoints
  <1>5. CASE Release
    <2>1. worker.pc = "release" /\ SaveResource(c, Idle, Idle)
      BY <1>5 DEF Release
    <2>2. c \in Versions /\ c.deleted /\ worker # Idle
      BY <2>1, CopyTyped DEF Points, DeletePoints
    <2>3. c.finalizers = <<>> /\ Ended
      BY <2>1, <2>2 DEF CopiesCoherent, ClusterInv, DeletionIsLast
    <2>4. UNCHANGED db \/ (cluster # Null /\ Update(c) /\ worker' = Idle)
      BY <2>1 DEF SaveResource, Dropped
    <2> QED BY <2>1, <2>2, <2>3, <2>4, RequestsWrite DEF Removes, Ended, StatusPoints
  <1> QED BY <1>1, <1>2, <1>3, <1>4, <1>5 DEF Handler

\* The steps of the others
Reports ==
    /\ observer # Null /\ observer.pc = "write" /\ observer' = Observer(cluster')
    /\ \E b \in Versions :
         /\ StatusOf(b) /\ SameId(observer.resource, b) /\ SameSpec(observer.resource, b)
         /\ b.deleted = observer.resource.deleted
         /\ b.status.scheduled_to = observer.resource.status.scheduled_to
         /\ b.status.triggered /\ b.status.state = observer.found
KeepsStatus == Stored /\ cluster'.kubeconfig = cluster.kubeconfig
    /\ cluster'.status = cluster.status

\* What the scheduler, users, the garbage collector and the observer write
LEMMA OthersDb ==
    ASSUME ClusterInv
    PROVE  /\ Schedule =>
                /\ Stored /\ SameSpec(cluster, cluster') /\ SameId(cluster, cluster')
                /\ cluster'.deleted = cluster.deleted /\ ~cluster.deleted
                /\ cluster.kubeconfig = Null
                /\ cluster'.status.triggered = cluster.status.triggered
                /\ cluster'.status.state = cluster.status.state
                /\ ~cluster.status.scheduled_to /\ cluster'.status.scheduled_to
           /\ MetricsChange =>
                /\ Stored /\ SameSpec(cluster, cluster') /\ SameId(cluster, cluster')
                /\ Carries(cluster, cluster')
                /\ cluster.status.state \in {"ONLINE", "FAILING_METRICS"}
                /\ cluster'.status.state \in {"ONLINE", "FAILING_METRICS"}
           /\ UserUpdate =>
                KeepsStatus /\ SameSpec(cluster, cluster')
                  /\ cluster'.deleted = cluster.deleted /\ ~cluster.deleted
           /\ UserDelete =>
                KeepsStatus /\ cluster'.deleted /\ ~cluster.deleted
                  /\ cluster'.finalizers = Append(cluster.finalizers, Cascade)
           /\ Garbage =>
                /\ cluster # Null /\ cluster.deleted
                /\ cluster.finalizers # <<>> /\ Last(cluster.finalizers) = Cascade
                /\ \/ Erased /\ Front(cluster.finalizers) = <<>>
                   \/ KeepsStatus /\ cluster'.deleted = cluster.deleted
                        /\ cluster'.finalizers = Front(cluster.finalizers)
                        /\ Front(cluster.finalizers) # <<>>
           /\ Report => (UNCHANGED db /\ observer # Null /\ observer.pc = "write"
                           /\ observer' = Dead(observer)) \/ Reports
  <1>1. cluster # Null => cluster \in Versions
    BY DEF ClusterInv, ClusterTypeOK
  <1>2. \A a \in Versions : cluster # Null /\ Store(a) => Stored /\ cluster' = a
    BY ClusterAssumption DEF Store, Stored
  <1>3. ASSUME Schedule
        PROVE  /\ Stored /\ SameSpec(cluster, cluster') /\ SameId(cluster, cluster')
               /\ cluster'.deleted = cluster.deleted /\ ~cluster.deleted
               /\ cluster.kubeconfig = Null
               /\ cluster'.status.triggered = cluster.status.triggered
               /\ cluster'.status.state = cluster.status.state
               /\ ~cluster.status.scheduled_to /\ cluster'.status.scheduled_to
    <2> DEFINE a == [cluster EXCEPT !.status.scheduled_to = TRUE]
    <2>1. /\ cluster # Null /\ ~cluster.deleted /\ cluster.kubeconfig = Null
          /\ ~cluster.status.scheduled_to /\ Store(a)
      BY <1>3 DEF Schedule, Bind
    <2>2. /\ a \in Versions /\ SameSpec(cluster, a) /\ SameId(cluster, a)
          /\ a.deleted = cluster.deleted /\ a.status.triggered = cluster.status.triggered
          /\ a.status.state = cluster.status.state /\ a.status.scheduled_to
      BY <1>1, <2>1 DEF Versions, Statuses, SameSpec, SameId
    <2> HIDE DEF a
    <2> QED BY <1>2, <2>1, <2>2
  <1>4. ASSUME MetricsChange
        PROVE  /\ Stored /\ SameSpec(cluster, cluster') /\ SameId(cluster, cluster')
               /\ Carries(cluster, cluster')
               /\ cluster.status.state \in {"ONLINE", "FAILING_METRICS"}
               /\ cluster'.status.state \in {"ONLINE", "FAILING_METRICS"}
    <2>1. PICK st \in {"FAILING_METRICS", "ONLINE"} :
            /\ cluster # Null /\ UpdateStatus([cluster EXCEPT !.status.state = st])
            /\ cluster.status.state \in {"ONLINE", "FAILING_METRICS"}
      BY <1>4 DEF MetricsChange
    <2> DEFINE b == [cluster EXCEPT !.status.state = st]
    <2>2. b \in Versions /\ Carries(cluster, b) /\ SameId(cluster, b) /\ b.status.state = st
      <3>1. st \in ClusterStates
        BY DEF ClusterStates
      <3> QED BY <1>1, <2>1, <3>1, MarkedCopies
    <2> HIDE DEF b
    <2>3. StatusOf(b)
      BY <2>1, <2>2, RequestsWrite DEF b
    <2> QED BY <2>1, <2>2, <2>3 DEF StatusOf, Carries, SameId
  <1>5. ASSUME UserUpdate
        PROVE  KeepsStatus /\ SameSpec(cluster, cluster')
                 /\ cluster'.deleted = cluster.deleted /\ ~cluster.deleted
    <2> DEFINE b == [cluster EXCEPT !.tosca = @ + 1]
    <2>1. cluster # Null /\ ~cluster.deleted /\ cluster.tosca + 1 \in Toscas /\ Update(b)
      BY <1>5 DEF UserUpdate
    <2>2. b \in Versions /\ SameSpec(cluster, b)
      BY <1>1, <2>1 DEF Versions, SameSpec
    <2> HIDE DEF b
    <2>3. BodyOf(b)
      BY <2>1, <2>2, RequestsWrite DEF Erased
    <2> QED BY <2>1, <2>2, <2>3 DEF BodyOf, KeepsStatus, SameSpec
  <1>6. ASSUME UserDelete
        PROVE  KeepsStatus /\ cluster'.deleted /\ ~cluster.deleted
                  /\ cluster'.finalizers = Append(cluster.finalizers, Cascade)
    <2> DEFINE a == [cluster EXCEPT !.deleted = TRUE, !.finalizers = Append(@, Cascade)]
    <2>1. cluster # Null /\ ~cluster.deleted /\ Store(a)
      BY <1>6 DEF UserDelete, Delete
    <2>2. Append(cluster.finalizers, Cascade) \in Seq({Finalizer, Cascade})
      BY <1>1, <2>1, FinalizersTyped DEF Versions, Finalizers
    <2>3. /\ a \in Versions /\ a.deleted /\ a.finalizers = Append(cluster.finalizers, Cascade)
          /\ a.kubeconfig = cluster.kubeconfig /\ a.status = cluster.status
      BY <1>1, <2>1, <2>2 DEF Versions
    <2> HIDE DEF a
    <2> QED BY <1>2, <2>1, <2>3 DEF KeepsStatus
  <1>7. ASSUME Garbage
        PROVE  /\ cluster # Null /\ cluster.deleted
               /\ cluster.finalizers # <<>> /\ Last(cluster.finalizers) = Cascade
               /\ \/ Erased /\ Front(cluster.finalizers) = <<>>
                  \/ KeepsStatus /\ cluster'.deleted = cluster.deleted
                       /\ cluster'.finalizers = Front(cluster.finalizers)
                       /\ Front(cluster.finalizers) # <<>>
    <2> DEFINE b == [cluster EXCEPT !.finalizers = Front(@)]
    <2>1. /\ cluster # Null /\ cluster.deleted /\ Update(b)
          /\ cluster.finalizers # <<>> /\ Last(cluster.finalizers) = Cascade
      BY <1>7 DEF Garbage, Collect
    <2>2. Front(cluster.finalizers) \in Seq({Finalizer, Cascade})
      BY <1>1, <2>1, FinalizersTyped DEF Versions, Finalizers
    <2>3. /\ b \in Versions /\ b.finalizers = Front(cluster.finalizers)
          /\ b.kubeconfig = cluster.kubeconfig
      BY <1>1, <2>1, <2>2 DEF Versions
    <2> HIDE DEF b
    <2>4. (Erased /\ b.finalizers = <<>>) \/ (BodyOf(b) /\ b.finalizers # <<>>)
      BY <2>1, <2>3, RequestsWrite
    <2> QED BY <2>1, <2>3, <2>4 DEF BodyOf, KeepsStatus, SameSpec
  <1>8. ASSUME Report
        PROVE  (UNCHANGED db /\ observer # Null /\ observer.pc = "write"
                  /\ observer' = Dead(observer)) \/ Reports
    <2> DEFINE b == [observer.resource EXCEPT !.status.state = observer.found,
                                              !.status.triggered = TRUE]
    <2>1. /\ observer # Null /\ observer.pc = "write"
          /\ \/ UNCHANGED db /\ observer' = Dead(observer)
             \/ cluster # Null /\ UpdateStatus(b) /\ observer' = Observer(cluster')
      BY <1>8 DEF Report
    <2>2. observer.resource \in Versions /\ observer.found \in ClusterStates
      BY <2>1 DEF ClusterInv, ClusterTypeOK, Observers
    <2>3. /\ b \in Versions
          /\ SameId(observer.resource, b) /\ SameSpec(observer.resource, b)
          /\ b.deleted = observer.resource.deleted
          /\ b.status.scheduled_to = observer.resource.status.scheduled_to
          /\ b.status.triggered /\ b.status.state = observer.found
      BY <2>2 DEF Versions, Statuses, SameId, SameSpec
    <2> HIDE DEF b
    <2> QED BY <2>1, <2>3, RequestsWrite DEF Reports
  <1> QED BY <1>3, <1>4, <1>5, <1>6, <1>7, <1>8

-----------------------------------------------------------------------------
(* What the steps do to the infrastructure                                 *)

\* IM is asked to work on an infrastructure that exists, or for a new one; it goes on.
ImChanges ==
    \/ UNCHANGED im
    \/ \E x : \E r \in Replies \cup {Gone} :
         im' = [im EXCEPT ![x] = r] /\ (Exists(x) \/ (Create /\ x \in Ids /\ im[x] = Unused))

\* The replies of IM are told apart.
LEMMA RepliesDiffer ==
    /\ Unused # Gone /\ Unused \notin Replies /\ Gone \notin Replies
    /\ Configuring \in Replies /\ Leaving \in Replies /\ Configured \in Replies
    /\ Partly \in Replies /\ Broken \in Replies
  BY DEF Unused, Gone, Replies, Configured, Configuring, Partly, Broken, Leaving, Reply

\* An infrastructure comes to be by a creation only, and no id is used again.
LEMMA ImMoves ==
    ASSUME ClusterInv, [Next]_vars
    PROVE  /\ scenario' = scenario
           /\ \A id \in Ids :
                /\ im[id] # Unused => im'[id] # Unused
                /\ (im'[id] \notin {Unused, Gone}) => Exists(id) \/ (Create /\ im[id] = Unused)
           /\ \A k \in Kinds : budget[k] = 0 => budget'[k] = 0
  <1>1. scenario' = scenario /\ ImChanges /\ (UNCHANGED budget \/ \E k \in Kinds : Spend(k))
    <2>1. CASE Take \/ Resolve \/ Finalize \/ Apply \/ SaveApplied \/ Poll \/ SaveGiveUp \/ Connect
               \/ GetKubeconfig \/ HandOver \/ Read \/ SaveDeleting \/ WaitDeleted \/ Release
               \/ Fail \/ Receive \/ Fire \/ Restart
      <3>1. scenario' = scenario /\ UNCHANGED im
            /\ (UNCHANGED budget \/ Spend("refuse") \/ Spend("crash"))
        BY <2>1 DEF Take, Resolve, Finalize, Apply, SaveApplied, Poll, SaveGiveUp, Connect,
                    GetKubeconfig, HandOver, Read, SaveDeleting, WaitDeleted, Release, Fail,
                    Receive, Fire, Restart
      <3> QED BY <3>1 DEF ImChanges, Kinds
    <2>2. CASE Create
      <3>1. /\ scenario' = scenario
            /\ UNCHANGED im \/ \E id \in Ids : ImCreate(id)
            /\ UNCHANGED budget \/ Spend("refuse") \/ Spend("lost")
        BY <2>2 DEF Create
      <3>2. ImChanges
        BY <2>2, <3>1, RepliesDiffer DEF ImChanges, ImCreate
      <3> QED BY <3>1, <3>2 DEF Kinds
    <2>3. CASE Reconcile \/ Reconfigure
      <3>1. /\ scenario' = scenario
            /\ UNCHANGED im \/ ImWork(worker.copy.status.cluster_id)
            /\ UNCHANGED budget \/ Spend("refuse")
        BY <2>3 DEF Reconcile, Reconfigure
      <3>2. ImChanges
        BY <3>1, RepliesDiffer DEF ImChanges, ImWork
      <3> QED BY <3>1, <3>2 DEF Kinds
    <2>4. CASE DeleteInfrastructure
      <3>1. /\ scenario' = scenario
            /\ UNCHANGED im \/ ImDelete(worker.copy.status.cluster_id)
            /\ UNCHANGED budget \/ Spend("refuse")
        BY <2>4 DEF DeleteInfrastructure
      <3>2. ImChanges
        BY <3>1, RepliesDiffer DEF ImChanges, ImDelete
      <3> QED BY <3>1, <3>2 DEF Kinds
    <2>5. CASE ImSteps
      <3>1. PICK id \in Ids : ImConfigures(id) \/ ImDeletes(id) \/ ImBreaks(id)
        BY <2>5 DEF ImSteps
      <3>2. /\ scenario' = scenario
            /\ UNCHANGED budget \/ Spend("break") \/ Spend("vanish")
            /\ Exists(id)
            /\ \E r \in Replies \cup {Gone} : im' = [im EXCEPT ![id] = r]
        BY <3>1, RepliesDiffer DEF ImConfigures, ImDeletes, ImBreaks, Exists
      <3> QED BY <3>2 DEF ImChanges, Kinds
    <2>6. CASE KReceive \/ KHandle \/ Observe \/ Report \/ KRestart \/ HealthChanges
      <3>1. scenario' = scenario /\ UNCHANGED im
            /\ (UNCHANGED budget \/ Spend("observer") \/ Spend("observer crash") \/ Spend("health"))
        BY <2>6 DEF KReceive, KHandle, Observe, Report, KRestart, HealthChanges
      <3> QED BY <3>1 DEF ImChanges, Kinds
    <2>7. CASE Schedule \/ MetricsChange \/ UserUpdate \/ UserDelete \/ Garbage \/ UNCHANGED vars
      <3>1. scenario' = scenario /\ UNCHANGED im
            /\ (UNCHANGED budget \/ Spend("metrics") \/ Spend("update") \/ Spend("delete"))
        BY <2>7 DEF Schedule, MetricsChange, UserUpdate, UserDelete, Garbage, vars, others
      <3> QED BY <3>1 DEF ImChanges, Kinds
    <2> QED BY <2>1, <2>2, <2>3, <2>4, <2>5, <2>6, <2>7
            DEF Next, InfrastructureSteps, KubernetesSteps, Handler
  <1>2. im \in [Ids -> Replies \cup {Unused, Gone}] /\ budget \in [Kinds -> Nat]
    BY DEF ClusterInv, ClusterTypeOK
  <1>3. ASSUME NEW id \in Ids
        PROVE  /\ im[id] # Unused => im'[id] # Unused
               /\ (im'[id] \notin {Unused, Gone}) => Exists(id) \/ (Create /\ im[id] = Unused)
    <2>1. CASE UNCHANGED im
      BY <2>1 DEF Exists
    <2>2. ASSUME NEW x, NEW r \in Replies \cup {Gone}, im' = [im EXCEPT ![x] = r],
                 Exists(x) \/ (Create /\ x \in Ids /\ im[x] = Unused)
          PROVE  /\ im[id] # Unused => im'[id] # Unused
                 /\ (im'[id] \notin {Unused, Gone}) => Exists(id) \/ (Create /\ im[id] = Unused)
      <3>1. CASE x = id
        <4>1. im'[id] = r
          BY <1>2, <2>2, <3>1
        <4> QED BY <2>2, <3>1, <4>1, RepliesDiffer
      <3>2. CASE x # id
        <4>1. im'[id] = im[id]
          BY <1>2, <2>2, <3>2
        <4> QED BY <4>1 DEF Exists
      <3> QED BY <3>1, <3>2
    <2> QED BY <1>1, <2>1, <2>2 DEF ImChanges
  <1>4. ASSUME NEW k \in Kinds, budget[k] = 0 PROVE budget'[k] = 0
    BY <1>1, <1>2, <1>4 DEF Spend
  <1> QED BY <1>1, <1>3, <1>4

-----------------------------------------------------------------------------
(* The copies stay coherent                                                *)

\* A version that was coherent still is,
LEMMA CoherentStays ==
    ASSUME ClusterInv, [Next]_vars, NEW v, Coherent(v)
    PROVE  Coherent(v)'
  BY ImMoves DEF Coherent, IsRegistered

\* and one with the spec of one and the status of another that is coherent, if that was
\* scheduled, or only marked.
LEMMA CoherentParts ==
    ASSUME NEW v \in Versions, NEW b \in Versions, NEW w \in Versions,
           Coherent(v), Coherent(b), w.deleted = v.deleted, SameSpec(v, w), SameId(b, w),
           w.status.state = b.status.state \/ w.status.state # "PENDING",
           w.status.scheduled_to = b.status.scheduled_to,
           w.status.triggered = b.status.triggered
             \/ (w.status.scheduled_to \/ IsRegistered),
           v.status.scheduled_to => b.status.scheduled_to
    PROVE  Coherent(w)
  BY DEF Coherent, SameSpec, SameId, HasFinalizer

\* Copies that are there
LEMMA CopiesAre ==
    /\ cluster # Null => cluster \in Copies
    /\ queue.dirty # Null => queue.dirty \in Copies
    /\ queue.timer # Null => queue.timer \in Copies
    /\ kqueue # Null => kqueue \in Copies
    /\ worker # Idle => worker.copy \in Copies
    /\ observer # Null => observer.resource \in Copies
    /\ ToSet(feeds["infrastructure"]) \subseteq Copies
    /\ ToSet(feeds["kubernetes"]) \subseteq Copies
  BY DEF Copies

\* The cluster is scheduled for good, and stays coherent,
LEMMA ClusterCoherent ==
    ASSUME ClusterInv, ClusterInv', CopiesCoherent, [Next]_vars, cluster' # Null
    PROVE  /\ cluster # Null
           /\ cluster.status.scheduled_to => cluster'.status.scheduled_to
           /\ cluster' = cluster \/ Coherent(cluster')
  <1> DEFINE Good == /\ cluster # Null
                     /\ cluster.status.scheduled_to => cluster'.status.scheduled_to
                     /\ cluster' = cluster \/ Coherent(cluster')
  <1>1. /\ cluster # Null => cluster \in Versions /\ Coherent(cluster)
        /\ cluster' \in Versions
    BY CopiesAre DEF ClusterInv, ClusterTypeOK, CopiesCoherent
  <1>2. UNCHANGED cluster => Good
    OBVIOUS
  <1>3. ASSUME NEW b \in Versions, StatusOf(b), Coherent(b),
               cluster.status.scheduled_to => b.status.scheduled_to
        PROVE  Good
    <2>1. /\ cluster # Null /\ cluster'.deleted = cluster.deleted /\ SameSpec(cluster, cluster')
          /\ cluster'.status = b.status
      BY <1>3 DEF StatusOf, Stored
    <2>2. Coherent(cluster')
      <3>1. SameId(b, cluster')
        BY <2>1 DEF SameId
      <3> QED BY <1>1, <1>3, <2>1, <3>1, CoherentParts
    <2> QED BY <1>3, <2>1, <2>2
  <1>4. \A b \in Versions : b \in Copies /\ (b.status.scheduled_to \/ IsRegistered)
           /\ cluster # Null /\ cluster.status.scheduled_to => b.status.scheduled_to
    BY <1>1 DEF Coherent
  <1>5. CASE Handler
    <2>1. CASE UNCHANGED db
      BY <1>2, <2>1 DEF db
    <2>2. CASE WritesStatus
      <3>1. /\ worker # Idle /\ worker.copy \in Versions
        BY <2>2, CopyTyped DEF WritesStatus, StatusPoints, Points
      <3>2. Coherent(worker.copy) /\ worker.copy.status.scheduled_to
        BY <3>1, CopiesAre DEF CopiesCoherent
      <3>3. PICK b \in Versions :
              /\ StatusOf(b)
              /\ Carries(worker.copy, b) /\ SameId(worker.copy, b) /\ SameSpec(worker.copy, b)
              /\ b.status.state = worker.copy.status.state \/ b.status.state # "PENDING"
        BY <2>2 DEF WritesStatus
      <3>4. Coherent(b) /\ b.status.scheduled_to
        BY <3>1, <3>2, <3>3, CoherentParts DEF Carries
      <3> QED BY <1>3, <3>3, <3>4
    <2>3. CASE WritesBody
      <3>1. /\ worker # Idle /\ worker.copy \in Versions
            /\ ~worker.copy.deleted /\ BodyOf(worker.copy)
        BY <2>3, CopyTyped DEF WritesBody, Points
      <3>2. /\ Coherent(worker.copy) /\ worker.copy.status.scheduled_to /\ cluster # Null
            /\ cluster.status.scheduled_to
        BY <2>3, <3>1, CopiesAre DEF CopiesCoherent, WritesBody
      <3>3. Coherent(cluster')
        BY <1>1, <3>1, <3>2 DEF Coherent, BodyOf, SameSpec, HasFinalizer
      <3> QED BY <3>2, <3>3, <3>1 DEF BodyOf
    <2>4. CASE Removes
      BY <2>4 DEF Removes, Erased
    <2> QED BY <1>5, <2>1, <2>2, <2>3, <2>4, HandlerDb
  <1>6. CASE Receive \/ Fire \/ ImSteps \/ Restart \/ KReceive \/ KHandle \/ Observe \/ KRestart
             \/ HealthChanges \/ UNCHANGED vars
    BY <1>2, <1>6 DEF Receive, Fire, ImSteps, ImConfigures, ImDeletes, ImBreaks, Restart,
                KReceive, KHandle, Observe, KRestart, HealthChanges, vars, db
  <1>7. CASE Report
    <2>1. CASE UNCHANGED db
      BY <1>2, <2>1 DEF db
    <2>2. CASE Reports
      <3>1. PICK b \in Versions :
             /\ StatusOf(b) /\ SameId(observer.resource, b) /\ SameSpec(observer.resource, b)
             /\ b.deleted = observer.resource.deleted
             /\ b.status.scheduled_to = observer.resource.status.scheduled_to
             /\ b.status.triggered /\ b.status.state = observer.found
             /\ observer # Null /\ observer.pc = "write"
        BY <2>2 DEF Reports
      <3>2. /\ Coherent(observer.resource) /\ observer.resource \in Versions
            /\ observer.resource.status.scheduled_to \/ IsRegistered
            /\ observer.found # "PENDING"
        BY <3>1, CopiesAre DEF CopiesCoherent, ClusterInv, ClusterTypeOK, Observers
      <3>3. Coherent(b)
        BY <3>1, <3>2, CoherentParts
      <3>4. cluster.status.scheduled_to => b.status.scheduled_to
        <4>1. cluster # Null
          BY <3>1 DEF StatusOf, Stored
        <4> QED BY <1>1, <3>1, <3>2, <4>1 DEF Coherent
      <3> QED BY <1>3, <3>1, <3>3, <3>4
    <2> QED BY <1>7, <2>1, <2>2, OthersDb
  <1>8. CASE Schedule
    <2>1. /\ Stored /\ SameSpec(cluster, cluster') /\ SameId(cluster, cluster')
          /\ cluster'.deleted = cluster.deleted /\ ~cluster.deleted
          /\ cluster.kubeconfig = Null
          /\ cluster'.status.triggered = cluster.status.triggered
          /\ cluster'.status.state = cluster.status.state
          /\ ~cluster.status.scheduled_to /\ cluster'.status.scheduled_to
      BY <1>8, OthersDb
    <2>2. Coherent(cluster')
      BY <1>1, <2>1, ClusterAssumption DEF Coherent, SameSpec, SameId, HasFinalizer, Stored
    <2> QED BY <2>1, <2>2 DEF Stored
  <1>9. CASE MetricsChange
    <2>1. /\ Stored /\ SameSpec(cluster, cluster') /\ SameId(cluster, cluster')
          /\ Carries(cluster, cluster')
          /\ cluster'.status.state \in {"ONLINE", "FAILING_METRICS"}
      BY <1>9, OthersDb
    <2>2. Coherent(cluster')
      BY <1>1, <2>1, CoherentParts DEF Carries, Stored
    <2> QED BY <2>1, <2>2 DEF Stored, Carries
  <1>10. CASE UserUpdate
    <2>1. KeepsStatus /\ SameSpec(cluster, cluster') /\ cluster'.deleted = cluster.deleted
      BY <1>10, OthersDb
    <2>2. Coherent(cluster')
      BY <1>1, <2>1 DEF KeepsStatus, Coherent, SameSpec, HasFinalizer, Stored
    <2> QED BY <2>1, <2>2 DEF KeepsStatus, Stored
  <1>11. CASE UserDelete
    <2>1. KeepsStatus /\ cluster'.deleted /\ ~cluster.deleted
                  /\ cluster'.finalizers = Append(cluster.finalizers, Cascade)
      BY <1>11, OthersDb
    <2>2. cluster.finalizers \in {<<>>, <<Finalizer>>}
      BY <1>1, <2>1 DEF Coherent, KeepsStatus, Stored
    <2>3. /\ cluster'.finalizers \in {<<Cascade>>, <<Finalizer, Cascade>>}
          /\ HasFinalizer(cluster') => HasFinalizer(cluster)
      BY <2>1, <2>2, FinalizerLists DEF HasFinalizer
    <2>4. Coherent(cluster')
      BY <1>1, <2>1, <2>3 DEF Coherent, KeepsStatus, Stored
    <2> QED BY <2>1, <2>4 DEF KeepsStatus, Stored
  <1>12. CASE Garbage
    <2>1. /\ cluster # Null /\ cluster.deleted
          /\ cluster.finalizers # <<>> /\ Last(cluster.finalizers) = Cascade
          /\ KeepsStatus /\ cluster'.deleted = cluster.deleted
          /\ cluster'.finalizers = Front(cluster.finalizers)
      BY <1>12, OthersDb DEF Erased
    <2>2. cluster.finalizers \in {<<>>, <<Finalizer>>, <<Cascade>>, <<Finalizer, Cascade>>}
      BY <1>1, <2>1 DEF Coherent
    <2>3. cluster.finalizers \in {<<Cascade>>, <<Finalizer, Cascade>>}
      BY <2>1, <2>2, FinalizerLists DEF Finalizer, Cascade
    <2>4. /\ cluster'.finalizers \in {<<>>, <<Finalizer>>}
          /\ HasFinalizer(cluster') => HasFinalizer(cluster)
      BY <2>1, <2>3, FinalizerLists DEF HasFinalizer
    <2>5. Coherent(cluster')
      BY <1>1, <2>1, <2>4 DEF Coherent, KeepsStatus, Stored
    <2> QED BY <2>1, <2>5 DEF KeepsStatus, Stored
  <1> QED BY <1>5, <1>6, <1>7, <1>8, <1>9, <1>10, <1>11, <1>12
          DEF Next, InfrastructureSteps, KubernetesSteps

\* The copy of the handler is coherent, and fits the point where it is.
CopyReady(pc, c) ==
    /\ c.status.scheduled_to
    /\ c.deleted => c.finalizers = IF pc = "release" THEN <<>> ELSE <<Finalizer>>
    /\ pc = "create" => c.status.cluster_id = Null /\ c.status.state = "CREATING"
    /\ pc = "reconcile" => c.status.state = "RECONCILING"
    /\ pc \in WithIdPoints => c.status.cluster_id # Null
    /\ pc = "hand over" => c.kubeconfig \in Ids

\* The last request of a deletion ends the handler.
LEMMA ReleaseEnds ==
    ASSUME Handler, worker.pc = "release"
    PROVE  worker' = Idle
  <1>1. worker # Idle
    BY DEF Idle
  <1>2. Release
    BY <1>1 DEF Handler, Take, Resolve, Finalize, Apply, Create,
                Reconcile, SaveApplied, Reconfigure,
           Poll, SaveGiveUp, Connect, GetKubeconfig, HandOver, Read, DeleteInfrastructure,
           SaveDeleting, WaitDeleted, Fail
  <1> QED BY <1>2 DEF Release, SaveResource, Dropped

\* The handler's copy stays coherent, and fits its point.
LEMMA HandlerCoherent ==
    ASSUME ClusterInv, ClusterInv', CopiesCoherent, Handler, worker' # Idle
    PROVE  Coherent(worker'.copy) /\ CopyReady(worker'.pc, worker'.copy)
  <1>1. CASE worker = Idle
    <2>1. Take
      <3>1. worker.pc = "idle"
        BY <1>1 DEF Idle
      <3> QED BY <3>1 DEF Handler, Resolve, Finalize, Apply, Create, Reconcile, SaveApplied,
                 Reconfigure, Poll, SaveGiveUp, Connect, GetKubeconfig, HandOver, Read,
                 DeleteInfrastructure, SaveDeleting, WaitDeleted, Release, Fail
    <2>2. queue.dirty # Null /\ worker'.pc = "resolve" /\ worker'.copy = queue.dirty
      BY <2>1, PlacesOf DEF Take
    <2> QED BY <2>2, CopiesAre DEF CopiesCoherent, CopyReady, WithIdPoints
  <1>2. CASE worker # Idle
    <2>1. PICK p, c, q, d : p = worker.pc /\ c = worker.copy /\ q = worker'.pc /\ d = worker'.copy
      OBVIOUS
    <2>2. /\ p \in Points /\ c \in Versions /\ d \in Versions
          /\ Coherent(c) /\ CopyReady(p, c) /\ Goes(p, c, q, d) /\ p # "release"
      BY <1>2, <2>1, CopiesAre, HandlerGoes, ReleaseEnds
         DEF ClusterInv, ClusterTypeOK, CopiesCoherent, CopyReady, WithIdPoints
    <2>3. SUFFICES Coherent(d) /\ CopyReady(q, d)
      BY <2>1
    <2>4. /\ c.status.scheduled_to /\ ~IsRegistered
          /\ c.status.running_on <=> c.status.cluster_id # Null
      BY <2>2 DEF CopyReady, Coherent
    <2>5. CASE Marks(p, c, q, d)
      <3>1. Coherent(d)
        BY <2>2, <2>5, CoherentParts DEF Marks, Carries
      <3> QED BY <2>2, <2>4, <2>5, <3>1
              DEF Marks, Carries, SameId, SameSpec, CopyReady, WithIdPoints
    <2>6. CASE Finalizes(p, c, q, d)
      <3>1. c.finalizers = <<>>
        BY <2>2, <2>6, FinalizerLists DEF Finalizes, Coherent, HasFinalizer
      <3>2. d.finalizers = <<Finalizer>>
        BY <2>6, <3>1, FinalizerLists DEF Finalizes
      <3>3. Coherent(d)
        BY <2>2, <2>4, <2>6, <3>2 DEF Finalizes, Coherent, Carries, SameId
      <3> QED BY <2>2, <2>4, <2>6, <3>2, <3>3 DEF Finalizes, Carries, CopyReady, WithIdPoints
    <2>7. CASE Creates(p, c, q, d)
      <3>1. /\ c.status.state = "CREATING" /\ d.status.cluster_id # Null
        BY <2>2, <2>7, ClusterAssumption DEF Creates, CopyReady
      <3>2. Coherent(d)
        BY <2>2, <2>4, <2>7, <3>1 DEF Creates, Coherent, Carries, SameSpec, HasFinalizer
      <3> QED BY <2>2, <2>4, <2>7, <3>1, <3>2 DEF Creates, Carries, SameSpec, CopyReady, WithIdPoints
    <2>8. CASE Forgets(p, c, q, d)
      <3>1. Coherent(d)
        BY <2>2, <2>4, <2>8 DEF Forgets, Coherent, Carries, SameSpec, HasFinalizer
      <3> QED BY <2>2, <2>4, <2>8, <3>1 DEF Forgets, Carries, SameSpec, CopyReady, WithIdPoints
    <2>9. CASE Obtains(p, c, q, d)
      <3>1. d.kubeconfig \in Ids /\ im[d.kubeconfig] # Unused /\ d.kubeconfig # Own
        BY <2>2, <2>9, ClusterAssumption DEF Obtains, Exists, Versions, Statuses
      <3>2. Coherent(d)
        BY <2>2, <2>4, <2>9, <3>1 DEF Obtains, Coherent, Carries, SameId, HasFinalizer
      <3> QED BY <2>2, <2>4, <2>9, <3>1, <3>2 DEF Obtains, Carries, SameId, CopyReady, WithIdPoints
    <2>10. CASE Releases(p, c, q, d)
      <3>1. c.deleted
        <4>1. p \in DeletePoints
          BY <2>10 DEF Releases, DeletePoints
        <4> QED BY <2>1, <2>2, <4>1, CopyTyped
      <3>2. c.finalizers = <<Finalizer>>
        BY <2>2, <3>1 DEF CopyReady
      <3>3. d.finalizers = <<>> /\ ~HasFinalizer(d)
        BY <2>10, <3>2, FinalizerLists DEF Releases, HasFinalizer
      <3>4. Coherent(d)
        BY <2>2, <2>4, <2>10, <3>3 DEF Releases, Coherent, Carries, SameId
      <3> QED BY <2>2, <2>4, <2>10, <3>3, <3>4 DEF Releases, Carries, CopyReady, WithIdPoints
    <2> QED BY <2>2, <2>5, <2>6, <2>7, <2>8, <2>9, <2>10 DEF Goes
  <1> QED BY <1>1, <1>2

\* enqueue takes what is scheduled and has not failed, and what is only held by the
\* controller.
LEMMA EnqueueTakes ==
    ASSUME ClusterTypeOK, NEW c \in Versions
    PROVE  LET q == Enqueue(c, queue) IN
           /\ \/ q.timer = queue.timer
              \/ q.timer = c /\ c.deleted /\ c.finalizers # <<>> /\ Last(c.finalizers) = Finalizer
           /\ (q.dirty = c /\ Accepts(c)) \/ (q.dirty = queue.dirty /\ ~Accepts(c))
  <1>1. queue \in [dirty: Versions \cup {Null}, timer: Versions \cup {Null}]
    BY DEF ClusterTypeOK
  <1> DEFINE dq == [queue EXCEPT !.dirty = c]
             tq == [queue EXCEPT !.timer = c]
  <1>2. /\ dq.dirty = c /\ dq.timer = queue.timer
        /\ tq.dirty = queue.dirty /\ tq.timer = c
    BY <1>1
  <1> HIDE DEF dq, tq
  <1>3. CASE c.deleted
    <2>1. \/ Enqueue(c, queue) = queue
          \/ Enqueue(c, queue) = tq /\ c.finalizers # <<>> /\ Last(c.finalizers) = Finalizer
      BY <1>3 DEF Enqueue, tq
    <2> QED BY <1>2, <1>3, <2>1 DEF Accepts
  <1>4. CASE ~c.deleted /\ c.status.state = "FAILED"
    <2>1. Enqueue(c, queue) = queue
      BY <1>4 DEF Enqueue
    <2> QED BY <1>4, <2>1 DEF Accepts
  <1>5. CASE ~c.deleted /\ c.status.state # "FAILED"
    <2>1. Enqueue(c, queue) = IF c.status.scheduled_to THEN dq ELSE queue
      BY <1>5 DEF Enqueue, dq
    <2> QED BY <1>2, <1>5, <2>1 DEF Accepts
  <1> QED BY <1>3, <1>4, <1>5

\* Copies are versions.
LEMMA CopiesTyped == ClusterInv => Copies \subseteq Versions
  <1>1. ASSUME ClusterInv, NEW k \in Controllers PROVE ToSet(feeds[k]) \subseteq Versions
    BY <1>1 DEF ClusterInv, ClusterTypeOK, ToSet
  <1> QED BY <1>1 DEF Copies, ClusterInv, ClusterTypeOK, Controllers, Observers

\* The copies stay coherent.
CopiesAgree ==
    \A v \in Copies :
      Coherent(v) /\ (v.status.scheduled_to /\ cluster # Null => cluster.status.scheduled_to)

\* A step keeps CopiesAgree.
LEMMA CopiesAgreeStep ==
    ASSUME ClusterInv, ClusterInv', CopiesCoherent, [Next]_vars
    PROVE  CopiesAgree'
  <1>1. SUFFICES ASSUME NEW v \in Copies'
                 PROVE  /\ Coherent(v)'
                        /\ v.status.scheduled_to /\ cluster' # Null => cluster'.status.scheduled_to
    BY DEF CopiesAgree
  <1>2. SUFFICES /\ Coherent(v)
                 /\ v.status.scheduled_to /\ cluster' # Null => cluster'.status.scheduled_to
    BY CoherentStays
  <1>3. CASE v \in Copies
    BY <1>3, ClusterCoherent DEF CopiesCoherent
  <1>4. CASE v = cluster' /\ v \notin Copies
    <2>1. cluster' # Null
      <3>1. ClusterInv' => (Copies \subseteq Versions)'
        BY CopiesTyped, PTL
      <3> QED BY <1>1, <1>4, <3>1, ClusterAssumption
    <2>2. cluster' # cluster
      BY <1>4, <2>1, CopiesAre
    <2> QED BY <1>4, <2>1, <2>2, ClusterCoherent
  <1>5. CASE worker' # Idle /\ v = worker'.copy /\ v \notin Copies
    <2>1. Handler
      <3>2. ~UNCHANGED worker
        BY <1>5, CopiesAre
      <3> QED BY <1>5, <3>2 DEF Next, InfrastructureSteps, KubernetesSteps, Receive, Fire, ImSteps,
              ImConfigures, ImDeletes, ImBreaks, Restart, KReceive, KHandle, Observe, Report,
              KRestart, HealthChanges, Schedule, MetricsChange, UserUpdate, UserDelete, Garbage,
              vars, others
    <2>2. Coherent(v) /\ v.status.scheduled_to
      BY <1>5, <2>1, HandlerCoherent DEF CopyReady
    <2>3. \E u \in Copies : u.status.scheduled_to
      <3>1. CASE worker # Idle
        BY <3>1, CopiesAre DEF CopiesCoherent
      <3>2. CASE worker = Idle
        <4>1. worker.pc = "idle"
          BY <3>2 DEF Idle
        <4>2. queue.dirty # Null
          BY <2>1, <4>1 DEF Handler, Take, Resolve, Finalize, Apply, Create, Reconcile, SaveApplied,
                 Reconfigure, Poll, SaveGiveUp, Connect, GetKubeconfig, HandOver, Read,
                 DeleteInfrastructure, SaveDeleting, WaitDeleted, Release, Fail
        <4> QED BY <4>2, CopiesAre DEF CopiesCoherent
      <3> QED BY <3>1, <3>2
    <2>4. cluster' # Null => cluster'.status.scheduled_to
      BY <2>3, ClusterCoherent DEF CopiesCoherent
    <2> QED BY <2>2, <2>4
  <1> QED BY <1>3, <1>4, <1>5, CopiesArise DEF Arises

\* A step that leaves the queue alone, or the controller of clusters
LEMMA QueueMoves ==
    ASSUME ClusterInv, [Next]_vars
    PROVE  \/ UNCHANGED queue
           \/ queue'.dirty = Null /\ queue'.timer = Null
           \/ Take /\ queue'.dirty = Null /\ queue'.timer = queue.timer
           \/ Fire /\ queue'.dirty = queue.timer /\ queue'.timer = Null
           \/ Receive
  <1>1. CASE Handler
    <2>1. CASE Take
      <3>1. queue' = [queue EXCEPT !.dirty = Null]
        BY <2>1 DEF Take
      <3> QED BY <2>1, <3>1 DEF ClusterInv, ClusterTypeOK
    <2> QED BY <1>1, <2>1, HandlerMoves
  <1>2. CASE Fire
    BY <1>2 DEF Fire
  <1>3. CASE Restart
    BY <1>3 DEF Restart
  <1> QED BY <1>1, <1>2, <1>3
          DEF Next, InfrastructureSteps, KubernetesSteps, ImSteps, ImConfigures, ImDeletes,
              ImBreaks, KReceive, KHandle, Observe, Report, KRestart, HealthChanges,
              Schedule, MetricsChange, UserUpdate, UserDelete, Garbage, vars, others

\* Only the handler and a restart move the worker.
LEMMA WorkerMoves ==
    ASSUME [Next]_vars
    PROVE  \/ UNCHANGED worker
           \/ Handler /\ Noticed /\ UNCHANGED kubeVars
           \/ Restart /\ worker' = Idle
  BY DEF Next, InfrastructureSteps, KubernetesSteps, Receive, Fire,
         ImSteps, ImConfigures, ImDeletes,
         ImBreaks, Restart, KReceive, KHandle, Observe, Report, KRestart, HealthChanges,
         Schedule, MetricsChange, UserUpdate, UserDelete, Garbage, vars, others

\* Only the controller of clusters moves its queue and its observer.
LEMMA ObserverMoves ==
    ASSUME [Next]_vars
    PROVE  \/ UNCHANGED <<kqueue, observer>>
           \/ KReceive \/ KHandle \/ Observe \/ Report \/ KRestart
  BY DEF Next, InfrastructureSteps, KubernetesSteps, HealthChanges,
         Schedule, MetricsChange, UserUpdate, UserDelete, Garbage, vars, others, kubeVars

\* What handling a version leaves of the observer
LEMMA ObservedIs ==
    ASSUME ClusterInv, NEW c \in Versions
    PROVE  /\ \/ Observed(c, observer) = Null
              \/ Observed(c, observer) = observer /\ observer # Null /\ observer.resource = c
                   /\ c.status.state \notin {"CREATING", "RECONCILING"}
              \/ Observed(c, observer) = Observer(c)
                   /\ c.status.state \notin {"CREATING", "RECONCILING"}
  <1>1. c.deleted \in BOOLEAN
    BY DEF Versions
  <1> DEFINE stops == c.deleted \/ c.status.state \in {"CREATING", "RECONCILING"}
             dead == observer # Null /\ observer.pc = "dead"
  <1>2. CASE dead /\ (stops \/ observer.resource # c)
    BY <1>2 DEF Observed
  <1>3. CASE dead /\ ~(stops \/ observer.resource # c)
    BY <1>3 DEF Observed
  <1>4. CASE ~dead /\ stops
    BY <1>4 DEF Observed
  <1>5. CASE ~dead /\ ~stops
    <2>1. Observed(c, observer) =
            IF observer # Null /\ observer.resource = c THEN observer ELSE Observer(c)
      BY <1>5 DEF Observed
    <2> QED BY <1>5, <2>1
  <1> QED BY <1>2, <1>3, <1>4, <1>5

\* The queue holds what was accepted, and the observer what can be observed.
LEMMA QueueReadyStep ==
    ASSUME ClusterInv, ClusterInv', CopiesCoherent, [Next]_vars
    PROVE  /\ queue'.timer # Null => queue'.timer.finalizers = <<Finalizer>>
           /\ queue'.dirty # Null =>
                /\ queue'.dirty.status.scheduled_to
                /\ queue'.dirty.deleted => queue'.dirty.finalizers = <<Finalizer>>
  <1>1. /\ queue.timer # Null => queue.timer.finalizers = <<Finalizer>>
        /\ queue.dirty # Null =>
             /\ queue.dirty.status.scheduled_to
             /\ queue.dirty.deleted => queue.dirty.finalizers = <<Finalizer>>
    BY DEF CopiesCoherent
  <1>2. queue.timer # Null => queue.timer.status.scheduled_to
    BY <1>1, CopiesAre, FinalizerLists DEF CopiesCoherent, Coherent, HasFinalizer
  <1>3. CASE Receive
    <2>1. PICK c : /\ c = Head(feeds["infrastructure"]) /\ feeds["infrastructure"] # <<>>
                   /\ queue' = Enqueue(c, queue)
      BY <1>3 DEF Receive
    <2>2. feeds["infrastructure"] \in Seq(Versions)
      BY DEF ClusterInv, ClusterTypeOK, Controllers
    <2>3. c \in Versions /\ c \in Copies
      BY <2>1, <2>2, CopiesAre, ElementsOf
    <2>4. /\ \/ queue'.timer = queue.timer
             \/ queue'.timer = c /\ c.deleted /\ c.finalizers # <<>> /\ Last(c.finalizers) = Finalizer
          /\ (queue'.dirty = c /\ Accepts(c)) \/ queue'.dirty = queue.dirty
      BY <2>1, <2>3, EnqueueTakes DEF ClusterInv
    <2>5. c.finalizers # <<>> /\ Last(c.finalizers) = Finalizer => c.finalizers = <<Finalizer>>
      BY <2>3, FinalizerLists DEF CopiesCoherent, Coherent, Finalizer, Cascade
    <2> QED BY <1>1, <2>4, <2>5 DEF Accepts
  <1> QED BY <1>1, <1>2, <1>3, QueueMoves

\* What the controller of clusters holds was accepted.
LEMMA ObserverReadyStep ==
    ASSUME ClusterInv, ClusterInv', CopiesCoherent, CopiesAgree', [Next]_vars
    PROVE  /\ kqueue' # Null => kqueue'.status.state # "FAILED" /\ kqueue'.kubeconfig # Null
           /\ observer' # Null =>
                /\ observer'.resource.status.scheduled_to \/ IsRegistered
                /\ observer'.pc = "write" => observer'.found \notin {"PENDING", "FAILED"}
  <1>1. /\ kqueue # Null => kqueue.status.state # "FAILED" /\ kqueue.kubeconfig # Null
        /\ observer # Null =>
             /\ observer.resource.status.scheduled_to \/ IsRegistered
             /\ observer.pc = "write" => observer.found \notin {"PENDING", "FAILED"}
    BY DEF CopiesCoherent, AcceptAccessible
  <1>2. CASE KReceive
    <2>1. /\ UNCHANGED observer
          /\ \/ kqueue' = kqueue
             \/ kqueue' = Head(feeds["kubernetes"]) /\ AcceptAccessible(Head(feeds["kubernetes"]))
      BY <1>2 DEF KReceive
    <2> QED BY <1>1, <2>1 DEF AcceptAccessible
  <1>3. CASE KHandle
    <2>1. /\ kqueue # Null /\ kqueue' = Null /\ observer' = Observed(kqueue, observer)
      BY <1>3 DEF KHandle
    <2>2. kqueue \in Versions /\ Coherent(kqueue)
      BY <2>1, CopiesAre DEF ClusterInv, ClusterTypeOK, CopiesCoherent
    <2>3. observer' = Null \/ (observer' = observer /\ observer # Null) \/ observer' = Observer(kqueue)
      BY <2>1, <2>2, ObservedIs
    <2>4. kqueue.status.scheduled_to \/ IsRegistered
      BY <1>1, <2>1, <2>2 DEF Versions, Coherent
    <2> QED BY <1>1, <2>1, <2>3, <2>4 DEF Observer
  <1>4. CASE Observe
    <2>1. PICK nodes : /\ UNCHANGED kqueue /\ observer # Null
                       /\ observer' = [observer EXCEPT !.pc = "write",
                            !.found = PollResource(observer.resource, nodes)]
      BY <1>4 DEF Observe
    <2>2. /\ observer'.resource = observer.resource
          /\ observer'.found = PollResource(observer.resource, nodes)
      BY <2>1 DEF ClusterInv, ClusterTypeOK, Observers
    <2>3. PollResource(observer.resource, nodes) \notin {"PENDING", "FAILED"}
      BY DEF PollResource
    <2> QED BY <1>1, <2>1, <2>2, <2>3
  <1>5. CASE Report
    <2>1. UNCHANGED kqueue
      BY <1>5 DEF Report
    <2>2. CASE observer # Null /\ observer' = Dead(observer)
      <3>1. observer'.pc = "dead" /\ observer'.resource = observer.resource
        BY <2>2 DEF Dead, ClusterInv, ClusterTypeOK, Observers
      <3> QED BY <1>1, <2>1, <2>2, <3>1
    <2>3. CASE Reports
      <3>1. /\ observer' = Observer(cluster') /\ cluster' # Null /\ cluster'.status.triggered
        BY <2>3 DEF Reports, StatusOf, Stored
      <3>2. Coherent(cluster)'
        BY <3>1 DEF CopiesAgree, Copies
      <3>3. cluster'.status.scheduled_to \/ IsRegistered
        BY <3>1, <3>2, ImMoves DEF Coherent, IsRegistered
      <3> QED BY <1>1, <2>1, <3>1, <3>3 DEF Observer
    <2> QED BY <1>5, <2>2, <2>3, OthersDb
  <1>6. CASE KRestart
    <2>1. /\ kqueue' = Null
          /\ \/ observer' = Null
             \/ observer' = Observer(cluster) /\ cluster # Null /\ cluster.status.triggered
      BY <1>6 DEF KRestart
    <2>2. cluster # Null /\ cluster.status.triggered => cluster.status.scheduled_to \/ IsRegistered
      BY CopiesAre DEF CopiesCoherent, Coherent
    <2> QED BY <2>1, <2>2 DEF Observer
  <1> QED BY <1>1, <1>2, <1>3, <1>4, <1>5, <1>6, ObserverMoves

\* A step keeps CopiesCoherent.
LEMMA CopiesCoherentStep ==
    ASSUME ClusterInv, ClusterInv', CopiesCoherent, [Next]_vars
    PROVE  CopiesCoherent'
  <1>1. CopiesAgree'
    BY CopiesAgreeStep
  <1>2. worker' # Idle => CopyReady(worker'.pc, worker'.copy)
    <2>1. UNCHANGED worker /\ worker # Idle => CopyReady(worker'.pc, worker'.copy)
      BY DEF CopiesCoherent, CopyReady, WithIdPoints
    <2> QED BY <2>1, WorkerMoves, HandlerCoherent
  <1>3. scenario' = scenario
    BY ImMoves
  <1>4. observer' # Null => (observer'.resource.status.scheduled_to \/ IsRegistered')
    BY <1>1, <1>3, ObserverReadyStep DEF IsRegistered
  <1>5. kqueue' # Null => AcceptAccessible(kqueue)'
    BY <1>1, ObserverReadyStep DEF AcceptAccessible
  <1>6. observer' # Null /\ observer'.pc = "write" => observer'.found \notin {"PENDING", "FAILED"}
    BY <1>1, ObserverReadyStep
  <1> QED BY <1>1, <1>2, <1>4, <1>5, <1>6, QueueReadyStep
          DEF CopiesCoherent, CopiesAgree, CopyReady, WithIdPoints

-----------------------------------------------------------------------------
(* The controller of clusters is informed                                  *)

\* A step keeps ObserverInformed: the last version that is under way is the present one.
LEMMA ObserverInformedStep ==
    ASSUME ClusterInv, ClusterInv', CopiesCoherent, ObserverInformed, [Next]_vars
    PROVE  ObserverInformed'
  <1> DEFINE feed == feeds["kubernetes"]
             next == feeds'["kubernetes"]
  <1>1. feed \in Seq(Versions) /\ feeds \in [Controllers -> Seq(Versions)]
        /\ "kubernetes" \in Controllers /\ "infrastructure" \in Controllers
    BY DEF ClusterInv, ClusterTypeOK, Controllers
  <1>2. SUFFICES ASSUME cluster' # Null, cluster'.status.state # "FAILED", cluster'.kubeconfig # Null
                 PROVE  /\ next # <<>> => Last(next) = cluster'
                        /\ next = <<>> /\ kqueue' # Null => kqueue' = cluster'
                        /\ next = <<>> /\ kqueue' = Null /\ observer' # Null =>
                             /\ observer'.resource = cluster'
                             /\ cluster'.status.state \notin {"CREATING", "RECONCILING"}
    BY DEF ObserverInformed, AcceptAccessible
  <1>3. UNCHANGED cluster =>
          /\ feed # <<>> => Last(feed) = cluster'
          /\ feed = <<>> /\ kqueue # Null => kqueue = cluster'
          /\ feed = <<>> /\ kqueue = Null /\ observer # Null =>
               /\ observer.resource = cluster'
               /\ cluster'.status.state \notin {"CREATING", "RECONCILING"}
    BY <1>2 DEF ObserverInformed, AcceptAccessible
  <1>4. CASE Stored
    <2>1. next # <<>> /\ Last(next) = cluster'
      BY <1>1, <1>4, FeedsThen DEF DbMoves
    <2> QED BY <2>1
  <1>5. CASE cluster' = cluster /\ next = feed /\ UNCHANGED <<kqueue, observer>>
    BY <1>3, <1>5
  <1>6. CASE KReceive
    <2>1. /\ feed # <<>> /\ next = Tail(feed) /\ UNCHANGED <<cluster, observer>>
          /\ kqueue' = IF AcceptAccessible(Head(feed)) THEN Head(feed) ELSE kqueue
      BY <1>1, <1>6 DEF KReceive
    <2>2. Last(feed) = cluster'
      BY <1>3, <2>1
    <2>3. CASE next # <<>>
      BY <1>1, <2>1, <2>2, <2>3, ElementsOf
    <2>4. CASE next = <<>>
      <3>1. Head(feed) = cluster'
        BY <1>1, <2>1, <2>2, <2>4, ElementsOf
      <3>2. kqueue' = cluster'
        BY <1>2, <2>1, <3>1 DEF AcceptAccessible
      <3> QED BY <1>2, <2>4, <3>2
    <2> QED BY <2>3, <2>4
  <1>7. CASE KHandle
    <2>1. /\ kqueue # Null /\ kqueue' = Null /\ observer' = Observed(kqueue, observer)
          /\ UNCHANGED <<cluster, feeds>>
      BY <1>7 DEF KHandle, db
    <2>2. kqueue \in Versions
      BY <2>1 DEF ClusterInv, ClusterTypeOK
    <2>3. observer' # Null => observer'.resource = kqueue
                              /\ kqueue.status.state \notin {"CREATING", "RECONCILING"}
      BY <2>1, <2>2, ObservedIs, ObserverTyped
    <2> QED BY <1>3, <2>1, <2>3
  <1>8. CASE Observe
    <2>1. /\ UNCHANGED <<cluster, feeds, kqueue>> /\ observer # Null
          /\ \E found : observer' = [observer EXCEPT !.pc = "write", !.found = found]
      BY <1>8 DEF Observe, db
    <2>2. observer'.resource = observer.resource
      BY <2>1 DEF ClusterInv, ClusterTypeOK, Observers
    <2> QED BY <1>3, <2>1, <2>2
  <1>9. CASE Report
    <2>1. CASE UNCHANGED db /\ observer # Null /\ observer' = Dead(observer)
      <3>1. /\ UNCHANGED <<cluster, feeds, kqueue>>
            /\ observer'.resource = observer.resource
        BY <1>9, <2>1 DEF Report, db, Dead, ClusterInv, ClusterTypeOK, Observers
      <3> QED BY <1>3, <2>1, <3>1
    <2>2. CASE Reports
      BY <1>4, <2>2 DEF Reports, StatusOf
    <2> QED BY <1>9, <2>1, <2>2, OthersDb
  <1>10. CASE KRestart
    <2>1. /\ next = IF cluster = Null THEN <<>> ELSE <<cluster>>
          /\ UNCHANGED cluster
      BY <1>1, <1>10 DEF KRestart
    <2>2. next = <<cluster'>> /\ cluster' \in Versions
      BY <1>2, <2>1 DEF ClusterInv, ClusterTypeOK
    <2>3. next # <<>> /\ Last(next) = cluster'
      BY <2>2, ShortSequences
    <2> QED BY <2>3
  <1>11. CASE Handler /\ UNCHANGED kubeVars
    <2>1. UNCHANGED db \/ Stored \/ cluster' = Null
      BY <1>11, HandlerMoves DEF DbMoves, Erased
    <2> QED BY <1>2, <1>4, <1>5, <1>11, <2>1 DEF db, kubeVars
  <1>12. CASE (Receive \/ Fire \/ ImSteps \/ Restart) /\ UNCHANGED kubeVars
    <2>1. cluster' = cluster /\ next = feed
      BY <1>1, <1>12 DEF Receive, Fire, ImSteps, ImConfigures, ImDeletes, ImBreaks, Restart, db
    <2> QED BY <1>5, <1>12, <2>1 DEF kubeVars
  <1>13. CASE HealthChanges \/ UNCHANGED vars
    BY <1>5, <1>13 DEF HealthChanges, vars, db, kubeVars
  <1>14. CASE Schedule \/ MetricsChange \/ UserUpdate \/ UserDelete \/ Garbage
    BY <1>2, <1>4, <1>14, OthersMove DEF Erased
  <1> QED BY <1>6, <1>7, <1>8, <1>9, <1>10, <1>11, <1>12, <1>13, <1>14
          DEF Next, InfrastructureSteps, KubernetesSteps

-----------------------------------------------------------------------------
(* The cluster, the feeds and the copy of the handler across a step        *)

\* What is under way was so before, or is the cluster.
LEMMA FeedsMove ==
    ASSUME ClusterInv, ClusterInv', [Next]_vars
    PROVE  /\ \A k \in Controllers :
                ToSet(feeds'[k]) \subseteq ToSet(feeds[k]) \cup ({cluster, cluster'} \ {Null})
           /\ ~Receive /\ ~Restart =>
                ToSet(feeds["infrastructure"]) \subseteq ToSet(feeds'["infrastructure"])
  <1> DEFINE inf == "infrastructure"
             kub == "kubernetes"
  <1>1. /\ \A k \in Controllers : feeds[k] \in Seq(Versions)
        /\ inf \in Controllers /\ kub \in Controllers
        /\ feeds \in [Controllers -> Seq(Versions)]
    BY DEF ClusterInv, ClusterTypeOK, Controllers
  <1>2. \A k \in Controllers : k = inf \/ k = kub
    BY DEF Controllers
  <1>3. ASSUME DbMoves
        PROVE  /\ \A k \in Controllers :
                    ToSet(feeds'[k]) \subseteq ToSet(feeds[k]) \cup ({cluster, cluster'} \ {Null})
               /\ ToSet(feeds[inf]) \subseteq ToSet(feeds'[inf])
    BY <1>1, <1>3, FeedsThen DEF DbMoves
  <1>4. CASE Handler
    BY <1>3, <1>4, HandlerMoves
  <1>5. CASE Receive \/ KReceive
    <2>1. PICK k \in Controllers : feeds[k] # <<>> /\ feeds' = [feeds EXCEPT ![k] = Tail(@)]
                                   /\ (k = inf => Receive)
      BY <1>1, <1>5 DEF Receive, KReceive
    <2>2. feeds'[k] = Tail(feeds[k]) /\ \A j \in Controllers : j # k => feeds'[j] = feeds[j]
      BY <1>1, <2>1
    <2>3. ToSet(feeds'[k]) \subseteq ToSet(feeds[k])
      BY <1>1, <2>1, <2>2, ElementsOf
    <2> QED BY <1>1, <2>1, <2>2, <2>3
  <1>6. CASE Restart \/ KRestart
    <2>1. PICK k \in Controllers :
            /\ feeds' = [feeds EXCEPT ![k] = IF cluster = Null THEN <<>> ELSE <<cluster>>]
            /\ k = inf => Restart
      BY <1>1, <1>6 DEF Restart, KRestart
    <2>2. /\ feeds'[k] = IF cluster = Null THEN <<>> ELSE <<cluster>>
          /\ \A j \in Controllers : j # k => feeds'[j] = feeds[j]
      BY <1>1, <2>1
    <2>3. ToSet(feeds'[k]) \subseteq {cluster} \ {Null}
      BY <2>2, ElementsOf
    <2> QED BY <1>1, <2>1, <2>2, <2>3
  <1>7. CASE UNCHANGED db
    BY <1>3, <1>7 DEF DbMoves
  <1>8. CASE Fire \/ ImSteps \/ KHandle \/ Observe \/ HealthChanges \/ UNCHANGED vars
    BY <1>7, <1>8 DEF Fire, ImSteps, ImConfigures, ImDeletes, ImBreaks, KHandle, Observe,
                HealthChanges, vars
  <1>9. CASE Report \/ Schedule \/ MetricsChange \/ UserUpdate \/ UserDelete \/ Garbage
    BY <1>3, <1>9, OthersMove DEF DbMoves
  <1> QED BY <1>4, <1>5, <1>6, <1>8, <1>9 DEF Next, InfrastructureSteps, KubernetesSteps

\* The copy of the handler comes from the queue, or is the one it had.
LEMMA WorkerCarries ==
    ASSUME ClusterInv, CopiesCoherent, Handler, worker' # Idle
    PROVE  \/ Take /\ queue.dirty # Null /\ worker' = At("resolve", queue.dirty)
           \/ /\ worker # Idle /\ worker.pc \in Points /\ worker.pc # "release"
              /\ UNCHANGED queue
              /\ Carries(worker.copy, worker'.copy)
              /\ Goes(worker.pc, worker.copy, worker'.pc, worker'.copy)
  <1>1. CASE Take
    BY <1>1 DEF Take
  <1>2. CASE ~Take
    <2>1. worker.pc \in Points /\ UNCHANGED queue
      BY <1>2, HandlerMoves
    <2>2. worker # Idle /\ worker.pc # "release"
      BY <2>1, CopyTyped, ReleaseEnds
    <2>3. Goes(worker.pc, worker.copy, worker'.pc, worker'.copy)
      BY <2>2, HandlerGoes
    <2>4. Carries(worker.copy, worker'.copy)
      BY <2>3 DEF Goes, Marks, Finalizes, Creates, Forgets, Obtains, Releases
    <2> QED BY <2>1, <2>2, <2>3, <2>4
  <1> QED BY <1>1, <1>2

\* The cluster after a step that stores a version, unless the handler adds the finalizer
\* or the kubeconfig
ClusterKept ==
    /\ cluster'.kubeconfig = cluster.kubeconfig
    /\ HasFinalizer(cluster') <=> HasFinalizer(cluster)
    /\ cluster'.deleted = cluster.deleted \/ (UserDelete /\ cluster'.deleted)
    /\ cluster'.status.triggered =>
         \/ cluster.status.triggered \/ observer # Null
         \/ (worker # Idle /\ worker.copy.status.triggered)
    /\ cluster'.status.state = "FAILED" =>
         cluster.status.state = "FAILED" \/ (Handler /\ worker.pc \notin {"resolve", "finalize"})
    /\ \/ cluster'.status.cluster_id = cluster.status.cluster_id
       \/ Handler /\ WritesStatus /\ worker # Idle
            /\ cluster'.status.cluster_id = worker.copy.status.cluster_id
       \/ Reports /\ cluster'.status.cluster_id = observer.resource.status.cluster_id

\* How a step changes the cluster: a cluster with the finalizer is removed by the handler
\* only.
LEMMA ClusterMoves ==
    ASSUME ClusterInv, ClusterInv', CopiesCoherent, [Next]_vars
    PROVE  \/ UNCHANGED cluster
           \/ Erased /\ (~Held \/ (Handler /\ Removes))
           \/ Handler /\ WritesBody /\ Noticed
           \/ Stored /\ ClusterKept
  <1>1. cluster # Null => cluster \in Versions /\ Coherent(cluster)
    BY CopiesAre DEF ClusterInv, ClusterTypeOK, CopiesCoherent
  <1>2. CASE Handler /\ Noticed
    <2>1. CASE UNCHANGED db
      BY <2>1 DEF db
    <2>2. CASE WritesStatus
      <3>1. worker # Idle
        BY <2>2, CopyTyped DEF WritesStatus, StatusPoints, Points
      <3>2. PICK b \in Versions :
              StatusOf(b) /\ Carries(worker.copy, b) /\ SameId(worker.copy, b)
        BY <2>2 DEF WritesStatus
      <3>3. worker.pc \notin {"resolve", "finalize"}
        BY <2>2 DEF WritesStatus, StatusPoints
      <3>4. /\ Stored /\ cluster'.kubeconfig = cluster.kubeconfig
            /\ HasFinalizer(cluster') <=> HasFinalizer(cluster)
            /\ cluster'.deleted = cluster.deleted
            /\ cluster'.status.triggered = worker.copy.status.triggered
            /\ cluster'.status.cluster_id = worker.copy.status.cluster_id
        BY <3>2 DEF StatusOf, Carries, SameId, SameSpec, HasFinalizer
      <3> QED BY <1>2, <2>2, <3>1, <3>3, <3>4 DEF ClusterKept
    <2>3. CASE WritesBody
      BY <1>2, <2>3
    <2>4. CASE Removes
      BY <1>2, <2>4 DEF Removes
    <2> QED BY <1>2, <2>1, <2>2, <2>3, <2>4, HandlerDb
  <1>3. CASE Receive \/ Fire \/ ImSteps \/ Restart \/ KReceive \/ KHandle \/ Observe \/ KRestart
             \/ HealthChanges \/ UNCHANGED vars
    BY <1>3 DEF Receive, Fire, ImSteps, ImConfigures, ImDeletes, ImBreaks, Restart,
                KReceive, KHandle, Observe, KRestart, HealthChanges, vars, db
  <1>4. CASE Report
    <2>1. CASE UNCHANGED db
      BY <2>1 DEF db
    <2>2. CASE Reports
      <3>1. PICK b \in Versions :
             /\ StatusOf(b) /\ SameId(observer.resource, b)
             /\ b.status.state = observer.found
             /\ observer # Null /\ observer.pc = "write"
        BY <2>2 DEF Reports
      <3>2. observer.found # "FAILED"
        BY <3>1 DEF CopiesCoherent
      <3> QED BY <2>2, <3>1, <3>2
              DEF ClusterKept, StatusOf, SameId, SameSpec, HasFinalizer
    <2> QED BY <1>4, <2>1, <2>2, OthersDb
  <1>5. CASE Schedule
    BY <1>5, OthersDb DEF ClusterKept, SameSpec, SameId, HasFinalizer
  <1>6. CASE MetricsChange
    BY <1>6, OthersDb DEF ClusterKept, SameSpec, SameId, HasFinalizer, Carries
  <1>7. CASE UserUpdate
    BY <1>7, OthersDb DEF ClusterKept, KeepsStatus, SameSpec, HasFinalizer
  <1>8. CASE UserDelete
    <2>1. KeepsStatus /\ cluster'.deleted /\ ~cluster.deleted
                  /\ cluster'.finalizers = Append(cluster.finalizers, Cascade)
      BY <1>8, OthersDb
    <2>2. cluster.finalizers \in {<<>>, <<Finalizer>>}
      BY <1>1, <2>1 DEF Coherent, KeepsStatus, Stored
    <2>3. HasFinalizer(cluster') <=> HasFinalizer(cluster)
      BY <2>1, <2>2, FinalizerLists DEF HasFinalizer
    <2> QED BY <1>8, <2>1, <2>3 DEF ClusterKept, KeepsStatus
  <1>9. CASE Garbage
    <2>1. CASE Erased
      <3>1. /\ cluster # Null /\ cluster.deleted /\ Front(cluster.finalizers) = <<>>
        BY <1>9, <2>1, OthersDb DEF Erased, KeepsStatus, Stored
      <3>2. cluster.finalizers \in {<<>>, <<Finalizer>>, <<Cascade>>, <<Finalizer, Cascade>>}
        BY <1>1, <3>1 DEF Coherent
      <3>3. cluster.finalizers \in {<<>>, <<Cascade>>}
        BY <1>9, <3>1, <3>2, FinalizerLists, OthersDb DEF Finalizer, Cascade
      <3> QED BY <2>1, <3>3, FinalizerLists DEF Held
    <2>2. CASE ~Erased
      <3>1. /\ cluster # Null /\ cluster.deleted
            /\ cluster.finalizers # <<>> /\ Last(cluster.finalizers) = Cascade
            /\ KeepsStatus /\ cluster'.deleted = cluster.deleted
            /\ cluster'.finalizers = Front(cluster.finalizers)
        BY <1>9, <2>2, OthersDb
      <3>2. cluster.finalizers \in {<<>>, <<Finalizer>>, <<Cascade>>, <<Finalizer, Cascade>>}
        BY <1>1, <3>1 DEF Coherent
      <3>3. cluster.finalizers \in {<<Cascade>>, <<Finalizer, Cascade>>}
        BY <3>1, <3>2, FinalizerLists DEF Finalizer, Cascade
      <3>4. HasFinalizer(cluster') <=> HasFinalizer(cluster)
        BY <3>1, <3>3, FinalizerLists DEF HasFinalizer
      <3> QED BY <3>1, <3>4 DEF ClusterKept, KeepsStatus
    <2> QED BY <2>1, <2>2
  <1> QED BY <1>2, <1>3, <1>4, <1>5, <1>6, <1>7, <1>8, <1>9
          DEF Next, InfrastructureSteps, KubernetesSteps

-----------------------------------------------------------------------------
(* A kubeconfig stays                                                      *)

\* The parts of KubeconfigStays
UnknownYet ==
    cluster # Null /\ cluster.kubeconfig = Null =>
      /\ \A v \in Copies : ~v.status.triggered
      /\ \A v \in ToSet(feeds["kubernetes"]) : v.kubeconfig = Null
      /\ kqueue = Null /\ observer = Null
ObservedKnown == observer # Null => observer.resource.kubeconfig # Null
KnownHeld == cluster # Null /\ cluster.kubeconfig \in Ids => Held \/ cluster.deleted
HeldNoticed ==
    Held =>
      /\ \A v \in ToSet(feeds["infrastructure"]) : v.deleted \/ HasFinalizer(v)
      /\ queue.dirty # Null => queue.dirty.deleted \/ HasFinalizer(queue.dirty) \/ Comes
      /\ worker.pc = "resolve" => worker.copy.deleted \/ HasFinalizer(worker.copy)
      /\ worker.pc # "finalize"
FailedOver ==
    worker.pc \in {"resolve", "finalize"} /\ cluster # Null /\ cluster.status.state = "FAILED"
    => (queue.dirty # Null => queue.dirty.deleted) /\ ~Comes

\* The parts make up the whole.
LEMMA KubeconfigParts ==
    KubeconfigStays <=>
      (scenario.prompt => UnknownYet /\ ObservedKnown /\ KnownHeld /\ HeldNoticed /\ FailedOver)
  BY DEF KubeconfigStays, UnknownYet, ObservedKnown, KnownHeld, HeldNoticed, FailedOver

\* The handler adds the finalizer to a cluster that does not have it and is not in
\* deletion, or the kubeconfig to one that has the finalizer.
LEMMA BodyWritten ==
    ASSUME ClusterInv, CopiesCoherent, HeldNoticed, KnownHeld, Handler, WritesBody
    PROVE  /\ HasFinalizer(cluster') /\ cluster.status.scheduled_to /\ cluster # Null
           /\ \/ worker.pc = "hand over" /\ Held /\ cluster'.kubeconfig \in Ids
              \/ /\ worker.pc = "finalize" /\ ~Held /\ ~cluster'.deleted
                 /\ cluster.kubeconfig = Null
  <1>1. /\ worker.pc \in {"finalize", "hand over"} /\ worker.pc \in Points
        /\ cluster # Null /\ ~Refuses(worker.copy) /\ BodyOf(worker.copy) /\ ~worker.copy.deleted
    BY DEF WritesBody, Points
  <1>2. /\ worker # Idle /\ worker.copy \in Versions /\ HasFinalizer(worker.copy)
        /\ worker.pc = "hand over" => Vouches(worker.copy)
    BY <1>1, CopyTyped DEF WithPoints
  <1>3. /\ worker.copy.status.scheduled_to /\ cluster.status.scheduled_to
        /\ Coherent(cluster) /\ Coherent(worker.copy)
        /\ worker.pc = "hand over" => worker.copy.kubeconfig \in Ids
    BY <1>1, <1>2, CopiesAre DEF CopiesCoherent
  <1>4. HasFinalizer(cluster')
    BY <1>1, <1>2 DEF BodyOf, SameSpec, HasFinalizer
  <1>5. worker.pc = "hand over" => Held /\ cluster'.kubeconfig \in Ids
    BY <1>1, <1>2, <1>3 DEF Vouches, HasFinalizer, BodyOf, SameSpec
  <1>6. ASSUME worker.pc = "finalize"
        PROVE  ~Held /\ ~cluster'.deleted /\ cluster.kubeconfig = Null
    <2>1. ~Held
      BY <1>6 DEF HeldNoticed
    <2>2. ~cluster.deleted
      BY <1>1, <1>2, <2>1 DEF Refuses, Held, HasFinalizer
    <2>3. cluster.kubeconfig # Own
      BY <1>3 DEF Coherent
    <2>4. cluster \in Versions
      BY <1>1 DEF ClusterInv, ClusterTypeOK
    <2>5. cluster.kubeconfig = Null
      BY <1>1, <2>1, <2>2, <2>3, <2>4 DEF KnownHeld, Versions
    <2> QED BY <1>1, <2>1, <2>2, <2>5 DEF BodyOf
  <1> QED BY <1>1, <1>3, <1>4, <1>5, <1>6

\* Without a kubeconfig in the database, the controller of clusters has nothing to write back.
LEMMA UnknownYetStep ==
    ASSUME ClusterInv, ClusterInv', CopiesCoherent, [Next]_vars,
           UnknownYet, KnownHeld, HeldNoticed
    PROVE  UnknownYet'
  <1>1. SUFFICES ASSUME cluster' # Null, cluster'.kubeconfig = Null
                 PROVE  /\ \A v \in Copies' : ~v.status.triggered
                        /\ \A v \in ToSet(feeds'["kubernetes"]) : v.kubeconfig = Null
                        /\ kqueue' = Null /\ observer' = Null
    BY DEF UnknownYet
  <1>2. cluster # Null /\ cluster.kubeconfig = Null
    <2>1. CASE UNCHANGED cluster
      BY <1>1, <2>1
    <2>2. CASE Erased
      BY <1>1, <2>2 DEF Erased
    <2>3. CASE Handler /\ WritesBody
      BY <1>1, <2>3, BodyWritten, ClusterAssumption
    <2>4. CASE Stored /\ ClusterKept
      BY <1>1, <2>4 DEF Stored, ClusterKept
    <2> QED BY <2>1, <2>2, <2>3, <2>4, ClusterMoves
  <1>3. /\ \A v \in Copies : ~v.status.triggered
        /\ \A v \in ToSet(feeds["kubernetes"]) : v.kubeconfig = Null
        /\ kqueue = Null /\ observer = Null
    BY <1>2 DEF UnknownYet
  <1>4. ~cluster'.status.triggered
    <2>1. ~cluster.status.triggered /\ (worker # Idle => ~worker.copy.status.triggered)
      BY <1>2, <1>3, CopiesAre
    <2>2. CASE Handler /\ WritesBody
      BY <2>1, <2>2 DEF WritesBody, BodyOf
    <2>3. CASE Stored /\ ClusterKept
      BY <1>3, <2>1, <2>3 DEF ClusterKept
    <2> QED BY <1>1, <2>1, <2>2, <2>3, ClusterMoves DEF Erased
  <1>5. worker' # Idle => ~worker'.copy.status.triggered
    <2>1. CASE UNCHANGED worker
      BY <1>3, <2>1, CopiesAre
    <2>2. CASE Handler /\ worker' # Idle
      <3>1. \/ queue.dirty # Null /\ worker'.copy = queue.dirty
            \/ worker # Idle /\ Carries(worker.copy, worker'.copy)
        BY <2>2, WorkerCarries, PlacesOf
      <3> QED BY <1>3, <3>1, CopiesAre DEF Carries
    <2> QED BY <2>1, <2>2, WorkerMoves
  <1>6. \A v \in Copies' : ~v.status.triggered
    BY <1>3, <1>4, <1>5, CopiesArise DEF Arises
  <1>7. \A v \in ToSet(feeds'["kubernetes"]) : v.kubeconfig = Null
    <2>1. ToSet(feeds'["kubernetes"]) \subseteq
            ToSet(feeds["kubernetes"]) \cup ({cluster, cluster'} \ {Null})
      BY FeedsMove DEF Controllers
    <2> QED BY <1>1, <1>2, <1>3, <2>1
  <1>8. kqueue' = Null /\ observer' = Null
    <2>1. CASE KReceive
      <3>1. /\ feeds["kubernetes"] # <<>> /\ UNCHANGED observer
            /\ kqueue' = IF AcceptAccessible(Head(feeds["kubernetes"]))
                           THEN Head(feeds["kubernetes"]) ELSE kqueue
        BY <2>1 DEF KReceive
      <3>2. feeds["kubernetes"] \in Seq(Versions)
        BY DEF ClusterInv, ClusterTypeOK, Controllers
      <3>3. Head(feeds["kubernetes"]).kubeconfig = Null
        BY <1>3, <3>1, <3>2, ElementsOf
      <3> QED BY <1>3, <3>1, <3>3 DEF AcceptAccessible
    <2>2. CASE KRestart
      BY <1>2, <1>3, <2>2, CopiesAre DEF KRestart
    <2> QED BY <1>3, <2>1, <2>2, ObserverMoves DEF KHandle, Observe, Report
  <1> QED BY <1>6, <1>7, <1>8

\* What is observed has a kubeconfig.
LEMMA ObservedKnownStep ==
    ASSUME ClusterInv, ClusterInv', CopiesCoherent, [Next]_vars, UnknownYet, ObservedKnown
    PROVE  ObservedKnown'
  <1>1. SUFFICES ASSUME observer' # Null PROVE observer'.resource.kubeconfig # Null
    BY DEF ObservedKnown
  <1>2. CASE UNCHANGED observer
    BY <1>1, <1>2 DEF ObservedKnown
  <1>3. CASE KReceive
    BY <1>2, <1>3 DEF KReceive
  <1>4. CASE KHandle
    <2>1. kqueue # Null /\ observer' = Observed(kqueue, observer)
      BY <1>4 DEF KHandle
    <2>2. kqueue \in Versions /\ kqueue.kubeconfig # Null
      BY <2>1 DEF ClusterInv, ClusterTypeOK, CopiesCoherent, AcceptAccessible
    <2>3. observer'.resource = kqueue
      BY <1>1, <2>1, <2>2, ObservedIs, ObserverTyped
    <2> QED BY <2>2, <2>3
  <1>5. CASE Observe
    <2>1. /\ observer # Null
          /\ \E found : observer' = [observer EXCEPT !.pc = "write", !.found = found]
      BY <1>5 DEF Observe
    <2>2. observer'.resource = observer.resource
      BY <2>1 DEF ClusterInv, ClusterTypeOK, Observers
    <2> QED BY <2>1, <2>2 DEF ObservedKnown
  <1>6. CASE Report
    <2>1. CASE observer # Null /\ observer' = Dead(observer)
      <3>1. observer'.resource = observer.resource
        BY <2>1 DEF Dead, ClusterInv, ClusterTypeOK, Observers
      <3> QED BY <2>1, <3>1 DEF ObservedKnown
    <2>2. CASE Reports
      <3>1. /\ observer' = Observer(cluster') /\ observer # Null /\ cluster # Null
            /\ cluster'.kubeconfig = cluster.kubeconfig
        BY <2>2 DEF Reports, StatusOf, Stored, SameSpec
      <3>2. cluster.kubeconfig # Null
        BY <3>1 DEF UnknownYet
      <3> QED BY <3>1, <3>2 DEF Observer
    <2> QED BY <1>6, <2>1, <2>2, OthersDb
  <1>7. CASE KRestart
    <2>1. observer' = Observer(cluster) /\ cluster # Null /\ cluster.status.triggered
      BY <1>1, <1>7 DEF KRestart
    <2>2. cluster.kubeconfig # Null
      BY <2>1, CopiesAre DEF UnknownYet
    <2> QED BY <2>1, <2>2 DEF Observer
  <1> QED BY <1>2, <1>3, <1>4, <1>5, <1>6, <1>7, ObserverMoves

\* A cluster with a kubeconfig from IM has the finalizer or is in deletion.
LEMMA KnownHeldStep ==
    ASSUME ClusterInv, ClusterInv', CopiesCoherent, [Next]_vars, KnownHeld, HeldNoticed
    PROVE  KnownHeld'
  <1>1. SUFFICES ASSUME cluster' # Null, cluster'.kubeconfig \in Ids
                 PROVE  HasFinalizer(cluster') \/ cluster'.deleted
    BY DEF KnownHeld, Held, HasFinalizer
  <1>2. CASE UNCHANGED cluster
    BY <1>1, <1>2 DEF KnownHeld, Held, HasFinalizer
  <1>3. CASE Handler /\ WritesBody
    BY <1>3, BodyWritten
  <1>4. CASE Stored /\ ClusterKept
    BY <1>1, <1>4 DEF Stored, ClusterKept, KnownHeld, Held, HasFinalizer
  <1> QED BY <1>1, <1>2, <1>3, <1>4, ClusterMoves DEF Erased

\* The finalizer is added once.
LEMMA HeldNoticedStep ==
    ASSUME ClusterInv, ClusterInv', CopiesCoherent, [Next]_vars, scenario.prompt,
           KnownHeld, HeldNoticed, FailedOver
    PROVE  HeldNoticed'
  <1> DEFINE feed == feeds["infrastructure"]
             next == feeds'["infrastructure"]
  <1>1. SUFFICES ASSUME cluster' # Null, HasFinalizer(cluster')
                 PROVE  /\ \A v \in ToSet(next) : v.deleted \/ HasFinalizer(v)
                        /\ queue'.dirty # Null =>
                             queue'.dirty.deleted \/ HasFinalizer(queue'.dirty)
                               \/ \E v \in ToSet(next) : Accepts(v)
                        /\ worker'.pc = "resolve" =>
                             worker'.copy.deleted \/ HasFinalizer(worker'.copy)
                        /\ worker'.pc # "finalize"
    BY DEF HeldNoticed, Held, HasFinalizer, Comes, Accepts
  <1>2. feed \in Seq(Versions) /\ next \in Seq(Versions)
    BY DEF ClusterInv, ClusterTypeOK, Controllers
  <1>3. ToSet(next) \subseteq ToSet(feed) \cup ({cluster, cluster'} \ {Null})
    BY FeedsMove DEF Controllers
  <1>4. Handler /\ Noticed => feed = <<>> /\ ToSet(feed) = {} /\ ~Comes
    BY ElementsOf DEF Noticed, Controllers, Comes
  <1>5. CASE Held
    <2>1. /\ \A v \in ToSet(feed) : v.deleted \/ HasFinalizer(v)
          /\ queue.dirty # Null => queue.dirty.deleted \/ HasFinalizer(queue.dirty) \/ Comes
          /\ worker.pc = "resolve" => worker.copy.deleted \/ HasFinalizer(worker.copy)
          /\ worker.pc # "finalize"
          /\ cluster # Null /\ HasFinalizer(cluster)
      BY <1>5 DEF HeldNoticed, Held, HasFinalizer
    <2>2. \A v \in ToSet(next) : v.deleted \/ HasFinalizer(v)
      BY <1>1, <1>3, <2>1
    <2>3. queue'.dirty # Null =>
            queue'.dirty.deleted \/ HasFinalizer(queue'.dirty) \/ \E v \in ToSet(next) : Accepts(v)
      <3>1. CASE Receive
        <4>1. PICK c : /\ c = Head(feed) /\ feed # <<>> /\ queue' = Enqueue(c, queue)
                       /\ next = Tail(feed)
          BY <1>2, <3>1 DEF Receive, ClusterInv, ClusterTypeOK, Controllers
        <4>2. c \in Versions /\ c \in ToSet(feed) /\ ToSet(feed) = {c} \cup ToSet(next)
          BY <1>2, <4>1, ElementsOf
        <4>3. (queue'.dirty = c /\ Accepts(c)) \/ (queue'.dirty = queue.dirty /\ ~Accepts(c))
          BY <4>1, <4>2, EnqueueTakes DEF ClusterInv
        <4> QED BY <2>1, <4>2, <4>3 DEF Comes
      <3>2. CASE UNCHANGED queue /\ ~Receive
        <4>1. CASE Restart
          BY <4>1 DEF Restart
        <4>2. CASE ~Restart
          <5>1. ToSet(feed) \subseteq ToSet(next)
            BY <3>2, <4>2, FeedsMove
          <5> QED BY <2>1, <3>2, <5>1 DEF Comes
        <4> QED BY <4>1, <4>2
      <3>3. CASE Fire /\ queue'.dirty = queue.timer
        BY <3>3 DEF ClusterInv, DeletionIsLast
      <3> QED BY <3>1, <3>2, <3>3, QueueMoves
    <2>4. /\ worker'.pc = "resolve" => worker'.copy.deleted \/ HasFinalizer(worker'.copy)
          /\ worker'.pc # "finalize"
      <3>1. CASE UNCHANGED worker
        BY <2>1, <3>1
      <3>2. CASE worker' = Idle
        BY <3>2 DEF Idle
      <3>3. CASE Handler /\ Noticed /\ worker' # Idle
        <4>1. CASE queue.dirty # Null /\ worker' = At("resolve", queue.dirty)
          <5>1. worker'.pc = "resolve" /\ worker'.copy = queue.dirty
            BY <4>1, PlacesOf
          <5> QED BY <1>4, <2>1, <3>3, <4>1, <5>1
        <4>2. CASE Goes(worker.pc, worker.copy, worker'.pc, worker'.copy)
          BY <2>1, <4>2 DEF Goes, Marks, Finalizes, Creates, Forgets, Obtains, Releases
        <4> QED BY <3>3, <4>1, <4>2, WorkerCarries
      <3> QED BY <3>1, <3>2, <3>3, WorkerMoves
    <2> QED BY <2>2, <2>3, <2>4
  <1>6. CASE ~Held
    <2>1. Handler /\ WritesBody /\ Noticed
      <3>1. ~UNCHANGED cluster
        BY <1>1, <1>6 DEF Held, HasFinalizer
      <3>2. ~Erased
        BY <1>1 DEF Erased
      <3>3. ~(Stored /\ ClusterKept)
        BY <1>1, <1>6 DEF Stored, ClusterKept, Held, HasFinalizer
      <3> QED BY <3>1, <3>2, <3>3, ClusterMoves
    <2>2. worker.pc = "finalize" /\ ~cluster'.deleted /\ cluster.status.scheduled_to
      BY <1>6, <2>1, BodyWritten
    <2>3. /\ BodyOf(worker.copy) /\ Stored /\ cluster'.status = cluster.status /\ cluster # Null
      BY <2>1 DEF WritesBody, BodyOf, Stored
    <2>4. ToSet(next) = {cluster'}
      <3>1. DbMoves
        BY <2>3 DEF DbMoves
      <3> QED BY <1>4, <2>1, <2>3, <3>1, FeedsThen DEF Controllers
    <2>5. UNCHANGED queue
      <3>1. worker.pc # "idle"
        BY <2>2
      <3> QED BY <2>1, <2>2, <3>1, HandlerMoves DEF Take, Idle
    <2>6. queue.dirty # Null => queue.dirty.deleted \/ Accepts(cluster')
      BY <2>2, <2>3 DEF FailedOver, Accepts
    <2>7. worker'.pc \notin {"resolve", "finalize"}
      <3>1. CASE worker' = Idle
        BY <3>1 DEF Idle
      <3>2. CASE worker' # Idle
        <4>1. ~Take
          BY <2>2 DEF Take, Idle
        <4>2. Goes(worker.pc, worker.copy, worker'.pc, worker'.copy)
          BY <2>1, <3>2, <4>1, WorkerCarries
        <4> QED BY <2>2, <4>2 DEF Goes, Marks, Finalizes, Creates, Forgets, Obtains, Releases
      <3> QED BY <3>1, <3>2
    <2> QED BY <1>1, <2>4, <2>5, <2>6, <2>7
  <1> QED BY <1>5, <1>6

\* A failed cluster is not handled again, unless in deletion.
LEMMA FailedOverStep ==
    ASSUME ClusterInv, ClusterInv', CopiesCoherent, [Next]_vars, scenario.prompt, FailedOver
    PROVE  FailedOver'
  <1> DEFINE feed == feeds["infrastructure"]
             next == feeds'["infrastructure"]
  <1>1. SUFFICES ASSUME worker'.pc \in {"resolve", "finalize"}, cluster' # Null,
                        cluster'.status.state = "FAILED"
                 PROVE  /\ queue'.dirty # Null => queue'.dirty.deleted
                        /\ \A v \in ToSet(next) : ~Accepts(v)
    BY DEF FailedOver, Comes, Accepts
  <1>2. feed \in Seq(Versions) /\ next \in Seq(Versions)
    BY DEF ClusterInv, ClusterTypeOK, Controllers
  <1>3. worker' # Idle
    BY <1>1 DEF Idle
  <1>4. CASE Take /\ Noticed
    <2>1. queue' = [queue EXCEPT !.dirty = Null] /\ feeds' = feeds
      BY <1>4 DEF Take, db
    <2>2. queue'.dirty = Null
      BY <2>1 DEF ClusterInv, ClusterTypeOK
    <2>3. next = <<>>
      BY <1>4, <2>1 DEF Noticed, Controllers
    <2> QED BY <2>2, <2>3, ElementsOf
  <1>5. CASE ~Take
    <2>1. worker.pc \in {"resolve", "finalize"}
      <3>1. CASE Handler
        <4>1. Goes(worker.pc, worker.copy, worker'.pc, worker'.copy)
          BY <1>3, <1>5, <3>1, WorkerCarries
        <4> QED BY <1>1, <4>1 DEF Goes, Marks, Finalizes, Creates, Forgets, Obtains, Releases
      <3> QED BY <1>1, <1>3, <3>1, WorkerMoves
    <2>2. cluster # Null /\ cluster.status.state = "FAILED"
      <3>1. CASE UNCHANGED cluster
        BY <1>1, <3>1
      <3>2. CASE Handler /\ WritesBody
        BY <1>1, <3>2 DEF WritesBody, BodyOf
      <3>3. CASE Stored /\ ClusterKept
        BY <1>1, <2>1, <3>3 DEF Stored, ClusterKept
      <3> QED BY <1>1, <3>1, <3>2, <3>3, ClusterMoves DEF Erased
    <2>3. (queue.dirty # Null => queue.dirty.deleted) /\ ~Comes
      BY <2>1, <2>2 DEF FailedOver
    <2>4. \A v \in ToSet(next) : ~Accepts(v)
      <3>1. ToSet(next) \subseteq ToSet(feed) \cup ({cluster, cluster'} \ {Null})
        BY FeedsMove DEF Controllers
      <3> QED BY <1>1, <2>2, <2>3, <3>1 DEF Comes, Accepts
    <2>5. queue'.dirty # Null => queue'.dirty.deleted
      <3>1. CASE Receive
        <4>1. PICK c : c = Head(feed) /\ feed # <<>> /\ queue' = Enqueue(c, queue)
          BY <3>1 DEF Receive
        <4>2. c \in Versions /\ c \in ToSet(feed)
          BY <1>2, <4>1, ElementsOf
        <4>3. (queue'.dirty = c /\ Accepts(c)) \/ queue'.dirty = queue.dirty
          BY <4>1, <4>2, EnqueueTakes DEF ClusterInv
        <4> QED BY <2>3, <4>2, <4>3 DEF Comes
      <3>2. CASE Fire /\ queue'.dirty = queue.timer
        BY <3>2 DEF ClusterInv, DeletionIsLast
      <3> QED BY <2>3, <3>1, <3>2, QueueMoves
    <2> QED BY <2>4, <2>5
  <1>6. Take => Noticed
    <2>1. Take => ~UNCHANGED worker
      BY <1>3 DEF Take
    <2> QED BY <1>3, <2>1, WorkerMoves
  <1> QED BY <1>4, <1>5, <1>6

\* A step keeps KubeconfigStays.
LEMMA KubeconfigStaysStep ==
    ASSUME ClusterInv, ClusterInv', CopiesCoherent, [Next]_vars, KubeconfigStays
    PROVE  KubeconfigStays'
  <1>1. scenario' = scenario
    BY ImMoves
  <1>2. KubeconfigStays' <=>
      (scenario.prompt => UnknownYet /\ ObservedKnown /\ KnownHeld /\ HeldNoticed /\ FailedOver)'
    BY KubeconfigParts, PTL
  <1> QED BY <1>1, <1>2, KubeconfigParts, UnknownYetStep, ObservedKnownStep, KnownHeldStep,
             HeldNoticedStep, FailedOverStep

-----------------------------------------------------------------------------
(* The ids of infrastructures are known                                    *)

\* The parts of IdsTracked
NeverLost == budget["lost"] = 0 /\ budget["crash"] = 0
EndSeen ==
    Ended =>
      /\ AllDeleted /\ (queue.dirty # Null => queue.dirty.deleted)
      /\ worker # Idle => worker.copy.deleted
CreatesAlone ==
    worker.pc = "create" \/ Fresh =>
      /\ cluster.status.state \in {"CREATING", "OFFLINE"}
      /\ observer # Null /\ observer.pc = "write" => observer.found = "OFFLINE"
      /\ \A v \in Copies : Down(v)
NothingLeft == worker.pc \in {"create", "release"} => Alive = {}
Named(id) ==
    /\ cluster.status.cluster_id = id
    /\ \A v \in ToSet(feeds["infrastructure"]) \cup ToSet(feeds["kubernetes"])
                  \cup ({queue.timer, kqueue} \ {Null}) :
         v.status.cluster_id = id
    /\ queue.dirty # Null => queue.dirty.status.cluster_id = id \/ Comes
    /\ observer # Null => observer.resource.status.cluster_id = id \/ Blind(observer)
AliveKnown ==
    \A id \in Alive :
      /\ Held
      /\ worker # Idle => worker.copy.status.cluster_id = id
      /\ ~Fresh => Named(id)

\* The parts make up the whole.
LEMMA TrackedParts ==
    IdsTracked <=>
      (Regular => NeverLost /\ EndSeen /\ CreatesAlone /\ NothingLeft /\ AliveKnown)
  BY DEF IdsTracked, NeverLost, EndSeen, CreatesAlone, NothingLeft, AliveKnown, Named

OtherSteps ==
    \/ Receive \/ Fire \/ ImSteps \/ KReceive \/ KHandle \/ Observe \/ Report \/ KRestart
    \/ HealthChanges \/ Schedule \/ MetricsChange \/ UserUpdate \/ UserDelete \/ Garbage
    \/ UNCHANGED vars

\* Without crashes, the handler goes on until it is done.
LEMMA RegularMoves ==
    ASSUME ClusterInv, [Next]_vars, NeverLost
    PROVE  /\ ~Restart /\ NeverLost'
           /\ (OtherSteps /\ UNCHANGED worker) \/ (Handler /\ Noticed /\ UNCHANGED kubeVars)
  <1>1. ~Restart
    BY DEF NeverLost, Restart, Spend
  <1>2. NeverLost'
    BY ImMoves DEF NeverLost, Kinds
  <1>3. OtherSteps \/ (Handler /\ Noticed /\ UNCHANGED kubeVars)
    BY <1>1 DEF Next, InfrastructureSteps, KubernetesSteps, OtherSteps
  <1>4. OtherSteps => UNCHANGED worker
    BY DEF OtherSteps, Receive, Fire, ImSteps, ImConfigures, ImDeletes, ImBreaks, KReceive, KHandle,
           Observe, Report, KRestart, HealthChanges, Schedule, MetricsChange, UserUpdate,
           UserDelete, Garbage, vars, others
  <1> QED BY <1>1, <1>2, <1>3, <1>4

\* If no reply is lost, the handler knows what it has created.
LEMMA AliveMoves ==
    ASSUME ClusterInv, ClusterInv', [Next]_vars, NeverLost, NEW id \in Alive'
    PROVE  /\ id \in Ids
           /\ \/ id \in Alive /\ im[id] # Unused
              \/ /\ Create /\ worker.pc = "create" /\ im[id] = Unused /\ id \notin Alive
                 /\ worker'.pc = "created" /\ worker'.copy.status.cluster_id = id
                 /\ worker'.copy.status.state = worker.copy.status.state
  <1>1. id \in Ids /\ im'[id] \notin {Unused, Gone}
    BY DEF Alive, Exists
  <1>2. CASE Exists(id)
    BY <1>1, <1>2 DEF Alive, Exists
  <1>3. CASE ~Exists(id)
    <2>1. Create /\ im[id] = Unused
      BY <1>1, <1>3, ImMoves
    <2>2. im \in [Ids -> Replies \cup {Unused, Gone}]
      BY DEF ClusterInv, ClusterTypeOK
    <2>3. ~Spend("lost") /\ worker.pc = "create" /\ ~UNCHANGED im
      <3>1. ~Spend("lost")
        BY DEF NeverLost, Spend
      <3>2. worker.pc = "create"
        BY <2>1 DEF Create
      <3>3. ~UNCHANGED im
        BY <1>1, <2>1
      <3> QED BY <3>1, <3>2, <3>3
    <2>4. PICK x \in Ids :
            /\ ImCreate(x)
            /\ worker' = At("created", [worker.copy EXCEPT !.status.cluster_id = x,
                                          !.status.running_on = TRUE,
                                          !.status.last_applied = worker.copy.tosca])
      BY <2>1, <2>3 DEF Create
    <2>5. x = id
      <3>1. SUFFICES ASSUME x # id PROVE FALSE
        OBVIOUS
      <3>2. im'[id] = im[id]
        BY <1>1, <2>2, <2>4, <3>1 DEF ImCreate
      <3> QED BY <1>1, <2>1, <3>2
    <2>6. worker.copy \in Versions
      BY <2>3, CopyTyped DEF Points
    <2> DEFINE d == [worker.copy EXCEPT !.status.cluster_id = x, !.status.running_on = TRUE,
                                        !.status.last_applied = worker.copy.tosca]
    <2>7. d.status.cluster_id = x /\ d.status.state = worker.copy.status.state
      BY <2>6 DEF Versions, Statuses
    <2>8. worker'.pc = "created" /\ worker'.copy = d
      BY <2>4, PlacesOf
    <2> HIDE DEF d
    <2> QED BY <1>1, <1>3, <2>1, <2>3, <2>5, <2>7, <2>8 DEF Alive
  <1> QED BY <1>2, <1>3

\* AllDeleted, by the elements of the feed
LEMMA AllDeletedIs ==
    AllDeleted <=> \A v \in ToSet(feeds["infrastructure"]) : v.deleted
  BY DEF AllDeleted, ToSet

\* The end of a cluster is seen, since users wait.
LEMMA EndSeenStep ==
    ASSUME ClusterInv, ClusterInv', CopiesCoherent, [Next]_vars, scenario.orderly,
           NeverLost, EndSeen
    PROVE  EndSeen'
  <1> DEFINE feed == feeds["infrastructure"]
             next == feeds'["infrastructure"]
  <1>1. AllDeleted' <=> \A v \in ToSet(next) : v.deleted
    BY DEF AllDeleted, ToSet
  <1>2. SUFFICES ASSUME Ended'
                 PROVE  /\ \A v \in ToSet(next) : v.deleted
                        /\ queue'.dirty # Null => queue'.dirty.deleted
                        /\ worker' # Idle => worker'.copy.deleted
    BY <1>1 DEF EndSeen
  <1>3. feed \in Seq(Versions) /\ next \in Seq(Versions)
    BY DEF ClusterInv, ClusterTypeOK, Controllers
  <1>4. CASE ~Ended
    <2>1. UserDelete /\ Stored /\ cluster'.deleted
      <3>1. CASE Handler /\ WritesBody
        BY <1>2, <1>4, <3>1 DEF WritesBody, BodyOf, Stored, Ended
      <3>2. CASE Stored /\ ClusterKept
        BY <1>2, <1>4, <3>2 DEF Stored, ClusterKept, Ended
      <3> QED BY <1>2, <1>4, <3>1, <3>2, ClusterMoves DEF Erased, Ended
    <2>2. /\ worker = Idle /\ queue.dirty = Null /\ feed = <<>>
          /\ UNCHANGED <<worker, queue>>
      BY <2>1 DEF UserDelete, Ready, AtRest, others
    <2>3. DbMoves /\ "infrastructure" \in Controllers
      BY <2>1 DEF DbMoves, Controllers
    <2>4. ToSet(next) = ToSet(feed) \cup {cluster'}
      BY <2>1, <2>3, FeedsThen
    <2> QED BY <2>1, <2>2, <2>4, ElementsOf
  <1>5. CASE Ended
    <2>1. /\ \A v \in ToSet(feed) : v.deleted
          /\ queue.dirty # Null => queue.dirty.deleted
          /\ worker # Idle => worker.copy.deleted
      BY <1>5, AllDeletedIs DEF EndSeen
    <2>2. \A v \in ToSet(next) : v.deleted
      <3>1. ToSet(next) \subseteq ToSet(feed) \cup ({cluster, cluster'} \ {Null})
        BY FeedsMove DEF Controllers
      <3> QED BY <1>2, <1>5, <2>1, <3>1 DEF Ended
    <2>3. queue'.dirty # Null => queue'.dirty.deleted
      <3>1. CASE Receive
        <4>1. PICK c : c = Head(feed) /\ feed # <<>> /\ queue' = Enqueue(c, queue)
          BY <3>1 DEF Receive
        <4>2. c \in Versions /\ c \in ToSet(feed)
          BY <1>3, <4>1, ElementsOf
        <4>3. (queue'.dirty = c /\ Accepts(c)) \/ queue'.dirty = queue.dirty
          BY <4>1, <4>2, EnqueueTakes DEF ClusterInv
        <4> QED BY <2>1, <4>2, <4>3
      <3>2. CASE Fire /\ queue'.dirty = queue.timer
        BY <3>2 DEF ClusterInv, DeletionIsLast
      <3> QED BY <2>1, <3>1, <3>2, QueueMoves
    <2>4. worker' # Idle => worker'.copy.deleted
      <3>1. CASE Handler /\ worker' # Idle
        BY <2>1, <3>1, WorkerCarries, PlacesOf DEF Carries
      <3> QED BY <2>1, <3>1, RegularMoves
    <2> QED BY <2>2, <2>3, <2>4
  <1> QED BY <1>4, <1>5

\* Nothing is left when the handler creates an infrastructure or takes the finalizer away.
LEMMA NothingLeftStep ==
    ASSUME ClusterInv, ClusterInv', CopiesCoherent, [Next]_vars,
           NeverLost, NothingLeft, AliveKnown
    PROVE  NothingLeft'
  <1>1. SUFFICES ASSUME worker'.pc \in {"create", "release"} PROVE \A id \in Alive' : FALSE
    BY DEF NothingLeft
  <1>2. SUFFICES ASSUME NEW id \in Alive' PROVE FALSE
    OBVIOUS
  <1>3. id \in Alive /\ id \in Ids
    BY <1>1, AliveMoves
  <1>4. CASE UNCHANGED worker
    BY <1>1, <1>3, <1>4 DEF NothingLeft
  <1>5. CASE Handler
    <2>1. worker' # Idle
      BY <1>1 DEF Idle
    <2>2. ~(worker' = At("resolve", queue.dirty))
      BY <1>1, PlacesOf
    <2>3. /\ worker # Idle /\ Goes(worker.pc, worker.copy, worker'.pc, worker'.copy)
          /\ Coherent(worker.copy)
      BY <1>5, <2>1, <2>2, WorkerCarries, CopiesAre DEF CopiesCoherent
    <2>4. worker.copy.status.cluster_id = id /\ id # Null /\ Exists(id)
      BY <1>3, <2>3, ClusterAssumption DEF AliveKnown, Alive
    <2> QED BY <1>1, <2>3, <2>4
            DEF Goes, Marks, Finalizes, Creates, Forgets, Obtains, Releases, Coherent
  <1> QED BY <1>4, <1>5, RegularMoves

\* While the handler is not done, others only report to the cluster.
LEMMA BusyMoves ==
    ASSUME ClusterInv, CopiesCoherent, scenario.orderly, OtherSteps,
           worker # Idle, cluster # Null, ~cluster.deleted,
           cluster.status.state \notin {"ONLINE", "FAILING_METRICS"}
    PROVE  UNCHANGED cluster \/ Reports
  <1>1. ~UserUpdate /\ ~UserDelete
    BY DEF UserUpdate, UserDelete, Ready, AtRest
  <1>2. ~Schedule
    <2>1. cluster.status.scheduled_to
      BY CopiesAre DEF CopiesCoherent
    <2> QED BY <2>1 DEF Schedule
  <1>3. ~MetricsChange
    BY DEF MetricsChange
  <1>4. ~Garbage
    BY DEF Garbage, Collect
  <1>5. Report => UNCHANGED cluster \/ Reports
    BY OthersDb DEF db
  <1>6. CASE Receive \/ Fire \/ ImSteps \/ KReceive \/ KHandle \/ Observe \/ KRestart
             \/ HealthChanges \/ UNCHANGED vars
    BY <1>6 DEF Receive, Fire, ImSteps, ImConfigures, ImDeletes, ImBreaks, KReceive, KHandle,
                Observe, KRestart, HealthChanges, vars, db
  <1> QED BY <1>1, <1>2, <1>3, <1>4, <1>5, <1>6 DEF OtherSteps

\* An observer whose infrastructure is gone finds it offline.
LEMMA DownIsOffline ==
    ASSUME NEW c, c.kubeconfig \in Ids, ~Exists(c.kubeconfig)
    PROVE  PollResource(c, Nodes(c)) = "OFFLINE"
  <1>1. Nodes(c) = "down"
    BY DEF Nodes
  <1> QED BY <1>1 DEF PollResource

\* While an infrastructure is created, there is no other.
LEMMA CreatesAloneStep ==
    ASSUME ClusterInv, ClusterInv', CopiesCoherent, [Next]_vars, scenario.orderly, scenario.prompt,
           ObservedKnown, NeverLost, EndSeen, EndSeen', CreatesAlone, NothingLeft'
    PROVE  CreatesAlone'
  <1>1. SUFFICES ASSUME worker'.pc = "create"
                          \/ (worker'.pc = "created" /\ worker'.copy.status.state = "CREATING")
                 PROVE  /\ cluster'.status.state \in {"CREATING", "OFFLINE"}
                        /\ observer' # Null /\ observer'.pc = "write" => observer'.found = "OFFLINE"
                        /\ \A v \in Copies' : v.kubeconfig \in Ids =>
                             im'[v.kubeconfig] \in {Unused, Gone}
    BY DEF CreatesAlone, Fresh, Down, Exists
  <1>2. worker' # Idle /\ cluster' # Null /\ ~cluster'.deleted
    <2>1. worker' # Idle
      BY <1>1 DEF Idle
    <2>2. ~worker'.copy.deleted
      BY <1>1, <2>1 DEF ClusterInv, FinalizerKept, CopyFits
    <2> QED BY <2>1, <2>2 DEF EndSeen, Ended
  <1>3. CASE Handler /\ Noticed /\ UNCHANGED kubeVars
    <2>1. ~(worker' = At("resolve", queue.dirty))
      BY <1>1, PlacesOf
    <2>2. worker # Idle /\ Goes(worker.pc, worker.copy, worker'.pc, worker'.copy)
      BY <1>2, <1>3, <2>1, WorkerCarries
    <2>3. UNCHANGED observer /\ (observer # Null => observer.pc # "write")
      BY <1>3 DEF Noticed, kubeVars
    <2>4. CASE worker'.pc = "create"
      <3>1. worker.pc = "apply"
        BY <2>2, <2>4 DEF Goes, Marks, Finalizes, Creates, Forgets, Obtains, Releases
      <3>2. WritesStatus
        <4>1. ~WritesBody /\ ~Removes
          BY <3>1 DEF WritesBody, Removes
        <4>2. ~(UNCHANGED db /\ cluster = Null)
          BY <1>2 DEF db
        <4> QED BY <1>3, <3>1, <4>1, <4>2, HandlerDb DEF StatusPoints
      <3>3. cluster'.status.state = "CREATING"
        BY <2>4, <3>1, <3>2 DEF WritesStatus, StatusOf
      <3>4. \A id \in Ids : im'[id] \in {Unused, Gone}
        BY <2>4 DEF NothingLeft, Alive, Exists
      <3> QED BY <2>3, <3>3, <3>4
    <2>5. CASE worker'.pc = "created" /\ worker'.copy.status.state = "CREATING"
      <3>1. /\ worker.pc = "create" /\ SameSpec(worker.copy, worker'.copy)
        BY <2>2, <2>5 DEF Goes, Marks, Finalizes, Creates, Forgets, Obtains, Releases
      <3>2. UNCHANGED cluster
        BY <1>3, <3>1, HandlerDb DEF StatusPoints, WritesStatus, WritesBody, Removes, db
      <3>3. /\ cluster.status.state \in {"CREATING", "OFFLINE"}
            /\ \A v \in Copies : v.kubeconfig \in Ids =>
                 im[v.kubeconfig] # Unused /\ ~Exists(v.kubeconfig)
        BY <3>1 DEF CreatesAlone, Down, CopiesCoherent, Coherent
      <3>4. \A v \in Copies : v.kubeconfig \in Ids => im'[v.kubeconfig] \in {Unused, Gone}
        BY <3>3, ImMoves
      <3>5. \A v \in Copies' : v \in Copies \/ v.kubeconfig = worker.copy.kubeconfig
        BY <1>2, <3>1, <3>2, CopiesArise, CopiesAre DEF Arises, SameSpec
      <3> QED BY <2>2, <2>3, <3>2, <3>3, <3>4, <3>5, CopiesAre
    <2> QED BY <1>1, <2>4, <2>5
  <1>4. CASE OtherSteps /\ UNCHANGED worker
    <2>1. /\ worker # Idle /\ worker.copy.status.scheduled_to
          /\ worker.pc = "create" \/ Fresh
      BY <1>1, <1>2, <1>4 DEF Fresh, CopiesCoherent
    <2>2. /\ cluster.status.state \in {"CREATING", "OFFLINE"}
          /\ observer # Null /\ observer.pc = "write" => observer.found = "OFFLINE"
          /\ \A v \in Copies : Down(v)
      BY <2>1 DEF CreatesAlone
    <2>3. cluster # Null /\ ~cluster.deleted
      <3>1. worker.pc \in {"create", "created"}
        BY <2>1 DEF Fresh
      <3>2. ~worker.copy.deleted
        BY <2>1, <3>1 DEF ClusterInv, FinalizerKept, CopyFits
      <3> QED BY <2>1, <3>2 DEF EndSeen, Ended
    <2>4. UNCHANGED cluster \/ Reports
      BY <1>4, <2>1, <2>2, <2>3, BusyMoves
    <2>5. ~Create
      <3>1. Create => worker.pc = "create" /\ \E c : worker' \in {At("created", c), At("fail", c)}
        BY DEF Create, FailWith
      <3>2. Create => worker'.pc \in {"created", "fail"} /\ worker.pc = "create"
        BY <3>1, PlacesOf
      <3> QED BY <1>4, <3>2
    <2>6. /\ cluster'.status.state \in {"CREATING", "OFFLINE"}
          /\ cluster'.kubeconfig = cluster.kubeconfig
      <3>1. CASE Reports
        BY <2>2, <3>1 DEF Reports, StatusOf, SameSpec
      <3> QED BY <2>2, <2>4, <3>1
    <2>7. \A v \in Copies' : v.kubeconfig \in Ids => im'[v.kubeconfig] \in {Unused, Gone}
      <3>1. \A v \in Copies' : v \in Copies \/ v = cluster'
        BY <1>4, <2>1, CopiesArise, CopiesAre DEF Arises
      <3>2. \A v \in Copies' : Down(v)
        BY <2>2, <2>3, <2>6, <3>1, CopiesAre DEF Down
      <3> QED BY <2>5, <3>2, ImMoves DEF Down
    <2>8. observer' # Null /\ observer'.pc = "write" => observer'.found = "OFFLINE"
      <3>1. CASE KHandle
        <4>1. /\ kqueue # Null /\ observer' = Observed(kqueue, observer)
          BY <3>1 DEF KHandle
        <4>2. kqueue \in Versions
          BY <4>1 DEF ClusterInv, ClusterTypeOK
        <4>3. observer' = Null \/ (observer' = observer /\ observer # Null)
                \/ observer' = Observer(kqueue)
          BY <4>1, <4>2, ObservedIs
        <4> QED BY <2>2, <4>3 DEF Observer
      <3>2. CASE Observe
        <4>1. /\ observer # Null
              /\ observer' = [observer EXCEPT !.pc = "write",
                   !.found = PollResource(observer.resource, Nodes(observer.resource))]
          BY <3>2 DEF Observe
        <4>2. observer'.found = PollResource(observer.resource, Nodes(observer.resource))
              /\ observer.resource \in Versions
          BY <4>1 DEF ClusterInv, ClusterTypeOK, Observers
        <4>3. observer.resource.kubeconfig \in Ids
          <5>1. observer.resource.kubeconfig # Null
            BY <4>1 DEF ObservedKnown
          <5>2. ~IsRegistered
            BY <2>1, CopiesAre DEF CopiesCoherent, Coherent
          <5>3. observer.resource.kubeconfig # Own
            BY <4>1, <5>2, CopiesAre DEF CopiesCoherent, Coherent
          <5> QED BY <4>2, <5>1, <5>3 DEF Versions
        <4>4. ~Exists(observer.resource.kubeconfig)
          BY <2>2, <4>1, <4>3, CopiesAre DEF Down
        <4> QED BY <4>2, <4>3, <4>4, DownIsOffline
      <3>3. CASE Report
        <4>1. CASE observer # Null /\ observer' = Dead(observer)
          <5>1. observer'.pc = "dead"
            BY <4>1 DEF Dead, ClusterInv, ClusterTypeOK, Observers
          <5> QED BY <5>1
        <4>2. CASE Reports
          BY <4>2 DEF Reports, Observer
        <4> QED BY <3>3, <4>1, <4>2, OthersDb
      <3>4. CASE KRestart
        BY <3>4 DEF KRestart, Observer
      <3>5. CASE KReceive \/ UNCHANGED observer
        BY <2>2, <3>5 DEF KReceive
      <3> QED BY <3>1, <3>2, <3>3, <3>4, <3>5, ObserverMoves
    <2> QED BY <2>6, <2>7, <2>8
  <1> QED BY <1>3, <1>4, RegularMoves

\* An infrastructure that is created belongs to a cluster with the finalizer, and only the
\* handler knows it.
LEMMA CreatedKnown ==
    ASSUME ClusterInv, CopiesCoherent, Create, worker'.pc = "created",
           worker'.copy.status.state = worker.copy.status.state
    PROVE  Held' /\ Fresh'
  <1>1. worker.pc = "create" /\ UNCHANGED cluster
    BY DEF Create, db
  <1>2. worker # Idle /\ ~worker.copy.deleted /\ HasFinalizer(worker.copy) /\ Vouches(worker.copy)
    BY <1>1, CopyTyped DEF Points, CreatePoints, WithPoints
  <1>3. Held /\ worker.copy.status.state = "CREATING"
    BY <1>1, <1>2 DEF Vouches, HasFinalizer, CopiesCoherent
  <1> QED BY <1>1, <1>3 DEF Held, Fresh

\* A cluster keeps the finalizer while its infrastructure exists,
LEMMA AliveHeld ==
    ASSUME ClusterInv, ClusterInv', CopiesCoherent, [Next]_vars, KnownHeld, HeldNoticed,
           NothingLeft, AliveKnown, Alive # {}
    PROVE  Held'
  <1>1. Held /\ HasFinalizer(cluster)
    BY DEF AliveKnown, Held, HasFinalizer
  <1>2. ~Removes
    BY DEF NothingLeft, Removes
  <1>3. CASE Handler /\ WritesBody
    <2>1. HasFinalizer(cluster') /\ cluster' # Null
      BY <1>3, BodyWritten DEF WritesBody, BodyOf, Stored
    <2> QED BY <2>1 DEF Held, HasFinalizer
  <1>4. CASE Stored /\ ClusterKept
    BY <1>1, <1>4 DEF Stored, ClusterKept, Held, HasFinalizer
  <1> QED BY <1>1, <1>2, <1>3, <1>4, ClusterMoves DEF Held

\* and the handler works with its id.
LEMMA CopyNames ==
    ASSUME ClusterInv, ClusterInv', CopiesCoherent, [Next]_vars, scenario.prompt,
           NeverLost, NothingLeft, AliveKnown, NEW id \in Alive, worker' # Idle
    PROVE  worker'.copy.status.cluster_id = id
  <1>1. CASE UNCHANGED worker
    BY <1>1 DEF AliveKnown
  <1>2. CASE Handler /\ Noticed
    <2>1. CASE Take /\ queue.dirty # Null /\ worker' = At("resolve", queue.dirty)
      <3>1. worker = Idle /\ feeds["infrastructure"] = <<>>
        BY <1>2, <2>1 DEF Take, Noticed, Controllers
      <3>2. ~Fresh /\ ~Comes
        BY <3>1, ElementsOf DEF Fresh, Idle, Comes
      <3>3. queue.dirty.status.cluster_id = id
        BY <2>1, <3>2 DEF AliveKnown, Named
      <3> QED BY <2>1, <3>3, PlacesOf
    <2>2. CASE worker # Idle /\ Goes(worker.pc, worker.copy, worker'.pc, worker'.copy)
      <3>1. worker.copy.status.cluster_id = id /\ Exists(id) /\ worker.pc # "create"
        BY <2>2 DEF AliveKnown, Alive, NothingLeft
      <3> QED BY <2>2, <3>1
              DEF Goes, Marks, Finalizes, Creates, Forgets, Obtains, Releases, SameId
    <2> QED BY <1>2, <2>1, <2>2, WorkerCarries
  <1> QED BY <1>1, <1>2, RegularMoves

\* An observer that has nothing to report has nothing to report later.
LEMMA BlindStays ==
    ASSUME ClusterInv, [Next]_vars, worker.pc # "create", NEW o, Blind(o)
    PROVE  Blind(o)'
  <1>1. ~Create
    BY DEF Create
  <1>2. o.resource.kubeconfig \in Ids => ~Exists(o.resource.kubeconfig)'
    BY <1>1, ImMoves DEF Blind, Down, Exists
  <1> QED BY <1>2 DEF Blind, Down

\* Before the id of a new infrastructure is saved, the observer sees nothing.
LEMMA FreshBlind ==
    ASSUME ClusterInv, CopiesCoherent, ObserverInformed, scenario.prompt, UnknownYet,
           ObservedKnown, CreatesAlone, Fresh, Noticed, cluster # Null, observer # Null
    PROVE  Blind(observer)
  <1>1. /\ feeds["kubernetes"] = <<>> /\ kqueue = Null /\ observer.pc # "write"
    BY DEF Noticed, Controllers
  <1>2. /\ cluster.status.state \in {"CREATING", "OFFLINE"}
        /\ \A v \in Copies : Down(v)
    BY DEF CreatesAlone
  <1>3. cluster.kubeconfig # Null
    BY DEF UnknownYet
  <1>4. observer.resource = cluster /\ cluster.status.state = "OFFLINE"
    BY <1>1, <1>2, <1>3 DEF ObserverInformed, AcceptAccessible
  <1>5. worker # Idle
    BY DEF Fresh, Idle
  <1>6. ~IsRegistered
    BY <1>5, CopiesAre DEF CopiesCoherent, Coherent
  <1>7. cluster.kubeconfig # Own /\ cluster \in Versions
    BY <1>6, CopiesAre DEF CopiesCoherent, Coherent, ClusterInv, ClusterTypeOK
  <1>8. cluster.kubeconfig \in Ids
    BY <1>3, <1>7 DEF Versions
  <1> QED BY <1>1, <1>2, <1>4, <1>8, CopiesAre DEF Blind

\* The id of a new infrastructure is saved, and everybody is going to know it.
LEMMA FreshNamed ==
    ASSUME ClusterInv, ClusterInv', CopiesCoherent, ObserverInformed, [Next]_vars,
           scenario.prompt, UnknownYet, ObservedKnown, NeverLost, EndSeen, CreatesAlone,
           AliveKnown, NEW id \in Alive, Fresh, ~Fresh'
    PROVE  Named(id)'
  <1>1. Handler /\ Noticed /\ UNCHANGED kubeVars
    BY RegularMoves DEF Fresh
  <1>2. worker.pc = "created" /\ worker # Idle /\ worker.copy \in Versions /\ ~worker.copy.deleted
    BY CopyTyped DEF Fresh, Points, CreatePoints
  <1>3. /\ worker.copy.status.cluster_id = id /\ worker.copy.status.scheduled_to
        /\ worker.copy.status.state = "CREATING"
    BY <1>2 DEF AliveKnown, CopiesCoherent, Fresh
  <1>4. cluster # Null /\ ~Ended
    BY <1>2 DEF EndSeen, Ended
  <1>5. PICK b \in Versions :
          StatusOf(b) /\ Carries(worker.copy, b) /\ SameId(worker.copy, b)
            /\ b.status.state = worker.copy.status.state
    <2>1. WritesStatus
      BY <1>1, <1>2, <1>4, HandlerDb DEF StatusPoints, WritesBody, Removes
    <2> QED BY <1>2, <2>1 DEF WritesStatus
  <1>6. /\ Stored /\ cluster'.status.cluster_id = id /\ cluster'.status.state = "CREATING"
        /\ ~cluster'.deleted /\ cluster'.status.scheduled_to
    BY <1>3, <1>4, <1>5 DEF StatusOf, SameId, Carries, Ended
  <1>7. \A k \in Controllers : ToSet(feeds'[k]) = {cluster'}
    <2>1. \A k \in Controllers : feeds[k] = <<>>
      BY <1>1 DEF Noticed
    <2> QED BY <1>1, <1>6, <2>1, HandlerMoves, FeedsThen, ElementsOf
  <1>8. queue' = queue /\ queue.timer = Null /\ kqueue' = Null
    <2>1. ~Take
      BY <1>2 DEF Take
    <2>2. queue.timer = Null
      BY <1>4 DEF ClusterInv, DeletionIsLast
    <2> QED BY <1>1, <2>1, <2>2, HandlerMoves DEF Noticed, kubeVars
  <1>9. Comes'
    <2>1. cluster' \in ToSet(feeds'["infrastructure"])
      BY <1>7 DEF Controllers
    <2>2. Accepts(cluster')
      BY <1>6 DEF Accepts
    <2> QED BY <2>1, <2>2 DEF Comes, Accepts
  <1>10. observer' # Null => Blind(observer)'
    <2>1. observer' = observer
      BY <1>1 DEF kubeVars
    <2>2. SUFFICES ASSUME observer # Null PROVE Blind(observer)'
      BY <2>1 DEF Blind
    <2>3. Blind(observer)
      BY <1>1, <1>4, <2>2, FreshBlind
    <2>4. PICK o : o = observer
      OBVIOUS
    <2>5. Blind(o)'
      BY <1>2, <2>3, <2>4, BlindStays
    <2> QED BY <2>1, <2>4, <2>5 DEF Blind, Down, Exists
  <1> QED BY <1>6, <1>7, <1>8, <1>9, <1>10 DEF Named, Controllers

\* The id stays in the database and in what is received from it,
LEMMA FeedsName ==
    ASSUME ClusterInv, ClusterInv', CopiesCoherent, [Next]_vars, KnownHeld, HeldNoticed,
           NothingLeft, AliveKnown, NEW id \in Alive, Named(id)
    PROVE  /\ cluster'.status.cluster_id = id
           /\ \A v \in ToSet(feeds'["infrastructure"]) \cup ToSet(feeds'["kubernetes"]) :
                v.status.cluster_id = id
  <1>1. cluster # Null /\ cluster' # Null
    BY AliveHeld DEF AliveKnown, Held
  <1>2. cluster'.status.cluster_id = id
    <2>1. CASE Handler /\ WritesBody
      BY <2>1 DEF WritesBody, BodyOf, Named
    <2>2. CASE Stored /\ ClusterKept
      <3>1. worker # Idle => worker.copy.status.cluster_id = id
        BY DEF AliveKnown
      <3>2. Reports => observer.resource.status.cluster_id = id
        BY DEF Reports, Named, Blind
      <3> QED BY <2>2, <3>1, <3>2 DEF ClusterKept, Named
    <2> QED BY <1>1, <2>1, <2>2, ClusterMoves DEF Erased, Named
  <1>3. \A k \in Controllers : \A v \in ToSet(feeds'[k]) : v.status.cluster_id = id
    <2>1. \A k \in Controllers : \A v \in ToSet(feeds[k]) : v.status.cluster_id = id
      BY DEF Named, Controllers
    <2>2. cluster.status.cluster_id = id
      BY DEF Named
    <2> QED BY <1>2, <2>1, <2>2, FeedsMove
  <1> QED BY <1>2, <1>3 DEF Controllers

\* in the queue, unless it is about to come,
LEMMA QueueNames ==
    ASSUME ClusterInv, ClusterInv', [Next]_vars, NeverLost, NEW id, Named(id)
    PROVE  /\ queue'.timer # Null => queue'.timer.status.cluster_id = id
           /\ queue'.dirty # Null => queue'.dirty.status.cluster_id = id \/ Comes'
  <1> DEFINE feed == feeds["infrastructure"]
             next == feeds'["infrastructure"]
  <1>1. /\ queue.timer # Null => queue.timer.status.cluster_id = id
        /\ queue.dirty # Null => queue.dirty.status.cluster_id = id \/ Comes
        /\ \A v \in ToSet(feed) : v.status.cluster_id = id
    BY DEF Named
  <1>2. Comes' <=> \E v \in ToSet(next) : Accepts(v)
    BY DEF Comes, Accepts
  <1>3. CASE Receive
    <2>1. PICK c : /\ c = Head(feed) /\ feed # <<>> /\ queue' = Enqueue(c, queue)
                   /\ next = Tail(feed)
      BY <1>3 DEF Receive, ClusterInv, ClusterTypeOK, Controllers
    <2>2. c \in Versions /\ c \in ToSet(feed) /\ ToSet(feed) = {c} \cup ToSet(next)
      BY <2>1, ElementsOf DEF ClusterInv, ClusterTypeOK, Controllers
    <2>3. /\ queue'.timer \in {queue.timer, c}
          /\ (queue'.dirty = c /\ Accepts(c)) \/ (queue'.dirty = queue.dirty /\ ~Accepts(c))
      BY <2>1, <2>2, EnqueueTakes DEF ClusterInv
    <2>4. Comes /\ ~Accepts(c) => Comes'
      BY <1>2, <2>2 DEF Comes
    <2> QED BY <1>1, <2>2, <2>3, <2>4
  <1>4. CASE ~Receive
    <2>1. Comes => Comes'
      BY <1>2, <1>4, RegularMoves, FeedsMove DEF Comes
    <2> QED BY <1>1, <1>4, <2>1, QueueMoves
  <1> QED BY <1>3, <1>4

\* and with the controller of clusters, unless its observer has nothing to report.
LEMMA ObserverNames ==
    ASSUME ClusterInv, ClusterInv', [Next]_vars, worker.pc # "create", NEW id, Named(id),
           cluster'.status.cluster_id = id
    PROVE  /\ kqueue' # Null => kqueue'.status.cluster_id = id
           /\ observer' # Null => observer'.resource.status.cluster_id = id \/ Blind(observer)'
  <1> DEFINE feed == feeds["kubernetes"]
  <1>1. /\ cluster.status.cluster_id = id
        /\ kqueue # Null => kqueue.status.cluster_id = id
        /\ \A v \in ToSet(feed) : v.status.cluster_id = id
        /\ observer # Null => observer.resource.status.cluster_id = id \/ Blind(observer)
    BY DEF Named
  <1>2. observer # Null => observer \in Observers
    BY DEF ClusterInv, ClusterTypeOK
  <1>3. observer' = observer /\ observer # Null =>
          observer'.resource.status.cluster_id = id \/ Blind(observer)'
    <2>1. SUFFICES ASSUME observer' = observer, Blind(observer) PROVE Blind(observer)'
      BY <1>1
    <2>2. PICK o : o = observer
      OBVIOUS
    <2>3. Blind(o)'
      BY <2>1, <2>2, BlindStays
    <2> QED BY <2>1, <2>2, <2>3 DEF Blind, Down, Exists
  <1>4. CASE KReceive
    <2>1. feed # <<>> /\ observer' = observer /\ kqueue' \in {kqueue, Head(feed)}
      BY <1>4 DEF KReceive
    <2>2. Head(feed) \in ToSet(feed)
      BY <2>1, ElementsOf DEF ClusterInv, ClusterTypeOK, Controllers
    <2> QED BY <1>1, <1>3, <2>1, <2>2
  <1>5. CASE KHandle
    <2>1. kqueue \in Versions /\ kqueue # Null /\ kqueue' = Null
            /\ observer' = Observed(kqueue, observer)
      BY <1>5 DEF KHandle, ClusterInv, ClusterTypeOK
    <2>2. \/ observer' = Null \/ (observer' = observer /\ observer.resource = kqueue)
          \/ observer' = Observer(kqueue)
      BY <2>1, ObservedIs
    <2> QED BY <1>1, <2>1, <2>2 DEF Observer
  <1>6. CASE Observe
    <2>1. /\ observer # Null /\ kqueue' = kqueue
          /\ observer'.resource = observer.resource
          /\ PollResource(observer.resource, Nodes(observer.resource))
               # observer.resource.status.state
      BY <1>2, <1>6 DEF Observe, Observers
    <2>2. ~Blind(observer)
      BY <2>1, DownIsOffline DEF Blind, Down
    <2> QED BY <1>1, <2>1, <2>2
  <1>7. CASE Report
    <2>1. observer # Null /\ observer.pc = "write" /\ kqueue' = kqueue
      BY <1>7 DEF Report
    <2>2. observer' = Dead(observer) \/ observer' = Observer(cluster')
      BY <1>7, OthersDb DEF Reports
    <2>3. observer'.resource \in {observer.resource, cluster'}
      BY <1>2, <2>1, <2>2 DEF Dead, Observer, Observers
    <2> QED BY <1>1, <2>1, <2>3 DEF Blind
  <1>8. CASE KRestart
    BY <1>1, <1>8 DEF KRestart, Observer
  <1>9. CASE UNCHANGED <<kqueue, observer>>
    BY <1>1, <1>3, <1>9
  <1> QED BY <1>4, <1>5, <1>6, <1>7, <1>8, <1>9, ObserverMoves

\* An infrastructure that exists is known.
LEMMA AliveKnownStep ==
    ASSUME ClusterInv, ClusterInv', CopiesCoherent, ObserverInformed, [Next]_vars,
           scenario.prompt, UnknownYet, ObservedKnown, KnownHeld, HeldNoticed,
           NeverLost, EndSeen, CreatesAlone, NothingLeft, AliveKnown
    PROVE  AliveKnown'
  <1>1. SUFFICES ASSUME NEW id \in Alive'
                 PROVE  /\ Held'
                        /\ worker' # Idle => worker'.copy.status.cluster_id = id
                        /\ ~Fresh' => Named(id)'
    BY DEF AliveKnown, Named
  <1>2. CASE id \in Alive
    <2>1. Held' /\ (worker' # Idle => worker'.copy.status.cluster_id = id)
      BY <1>2, AliveHeld, CopyNames
    <2>2. CASE Fresh
      BY <1>2, <2>1, <2>2, FreshNamed
    <2>3. CASE ~Fresh
      <3>1. Named(id) /\ worker.pc # "create"
        BY <1>2, <2>3 DEF AliveKnown, NothingLeft
      <3>2. Named(id)'
        BY <1>2, <3>1, FeedsName, QueueNames, ObserverNames DEF Named
      <3> QED BY <2>1, <3>2
    <2> QED BY <2>2, <2>3
  <1>3. CASE Create /\ worker'.pc = "created" /\ worker'.copy.status.cluster_id = id
               /\ worker'.copy.status.state = worker.copy.status.state
    BY <1>3, CreatedKnown
  <1> QED BY <1>2, <1>3, AliveMoves

\* The ids stay tracked.
LEMMA IdsTrackedStep ==
    ASSUME ClusterInv, ClusterInv', CopiesCoherent, ObserverInformed, KubeconfigStays,
           [Next]_vars, IdsTracked
    PROVE  IdsTracked'
  <1>1. scenario' = scenario
    BY ImMoves
  <1>2. Regular' <=> Regular
    BY <1>1 DEF Regular, Fails
  <1>3. IdsTracked' <=>
          (Regular => NeverLost /\ EndSeen /\ CreatesAlone /\ NothingLeft /\ AliveKnown)'
    BY TrackedParts, PTL
  <1>4. SUFFICES ASSUME Regular
                 PROVE  (NeverLost /\ EndSeen /\ CreatesAlone /\ NothingLeft /\ AliveKnown)'
    BY <1>2, <1>3
  <1>5. /\ NeverLost /\ EndSeen /\ CreatesAlone /\ NothingLeft /\ AliveKnown
        /\ scenario.prompt /\ scenario.orderly
    BY <1>4, TrackedParts DEF Regular
  <1>6. UnknownYet /\ ObservedKnown /\ KnownHeld /\ HeldNoticed
    BY <1>5, KubeconfigParts
  <1>7. NeverLost' /\ EndSeen' /\ NothingLeft'
    BY <1>5, RegularMoves, EndSeenStep, NothingLeftStep
  <1>8. CreatesAlone' /\ AliveKnown'
    BY <1>5, <1>6, <1>7, CreatesAloneStep, AliveKnownStep
  <1> QED BY <1>7, <1>8

\* What is tracked is known.
LEMMA TrackedKnown ==
    ASSUME IdsTracked
    PROVE  NoneLost
  <1>1. SUFFICES ASSUME Regular, NEW id \in Alive PROVE id \in Known
    BY DEF NoneLost, Regular
  <1>2. Held /\ (worker # Idle => worker.copy.status.cluster_id = id) /\ (~Fresh => Named(id))
    BY <1>1, TrackedParts DEF AliveKnown
  <1>3. CASE Fresh
    <2>1. worker # Idle
      BY <1>3 DEF Fresh, Idle
    <2> QED BY <1>2, <2>1 DEF Known
  <1>4. CASE ~Fresh
    BY <1>2, <1>4 DEF Named, Known, Held
  <1> QED BY <1>3, <1>4

\* A cluster that its controller accepts is observed only if it is finished, and one
\* without kubeconfig is not.
LEMMA InformedUnobserved ==
    ASSUME ObserverInformed, KubeconfigStays
    PROVE  UnfinishedUnobserved
  <1>1. SUFFICES ASSUME scenario.prompt, cluster # Null,
                        cluster.status.state \in {"CREATING", "RECONCILING"},
                        feeds["kubernetes"] = <<>>, kqueue = Null
                 PROVE  observer = Null
    BY DEF UnfinishedUnobserved
  <1>2. CASE cluster.kubeconfig = Null
    BY <1>1, <1>2, KubeconfigParts DEF UnknownYet
  <1>3. CASE cluster.kubeconfig # Null
    BY <1>1, <1>3 DEF ObserverInformed, AcceptAccessible
  <1> QED BY <1>2, <1>3

\* A cluster that was just created has no infrastructure, and nobody has handled it.
LEMMA InitProvisioning ==
    ASSUME Init
    PROVE  CopiesCoherent /\ ObserverInformed /\ KubeconfigStays /\ IdsTracked
  <1>1. PICK t \in Toscas, k \in {Own, Null} : cluster = Created(t, k)
    BY LifeAssumption DEF Init
  <1>2. /\ cluster # Null /\ cluster \in Versions
        /\ ~cluster.deleted /\ cluster.finalizers = <<>> /\ cluster.kubeconfig \in {Own, Null}
        /\ cluster.status.state = "PENDING" /\ ~cluster.status.scheduled_to
        /\ cluster.status.cluster_id = Null /\ ~cluster.status.running_on
        /\ ~cluster.status.triggered
    <2>1. cluster \in Versions
      <3>1. <<>> \in Seq({Finalizer, Cascade}) /\ "PENDING" \in ClusterStates
        BY DEF ClusterStates
      <3> QED BY <1>1, <3>1, ClusterAssumption DEF Created, Versions, Statuses
    <2> QED BY <1>1, <2>1, ClusterAssumption DEF Created
  <1>3. /\ queue.dirty = Null /\ queue.timer = Null /\ worker = Idle /\ worker.pc = "idle"
        /\ kqueue = Null /\ observer = Null /\ cluster = scenario.start
        /\ feeds["infrastructure"] = <<cluster>> /\ feeds["kubernetes"] = <<cluster>>
    BY DEF Init, Controllers, Idle
  <1>4. /\ ToSet(<<cluster>>) = {cluster} /\ Last(<<cluster>>) = cluster
        /\ <<cluster>> # <<>> /\ ToSet(<<>>) = {}
    BY <1>2, ElementsOf, ShortSequences
  <1>5. Copies = {cluster}
    BY <1>2, <1>3, <1>4 DEF Copies
  <1>6. cluster.kubeconfig \notin Ids /\ ~HasFinalizer(cluster) /\ ~Held /\ ~Ended
    BY <1>2, <1>4, ClusterAssumption DEF HasFinalizer, Held, Ended
  <1>7. Coherent(cluster)
    BY <1>2, <1>3, <1>6 DEF Coherent, IsRegistered
  <1>8. CopiesCoherent
    BY <1>3, <1>5, <1>7 DEF CopiesCoherent
  <1>9. ObserverInformed
    BY <1>3, <1>4 DEF ObserverInformed
  <1>10. KubeconfigStays
    BY <1>2, <1>3, <1>4, <1>5, <1>6
       DEF KubeconfigStays
  <1>11. IdsTracked
    <2>1. Alive = {}
      BY DEF Init, Alive, Exists
    <2>2. Regular => budget["lost"] = 0 /\ budget["crash"] = 0
      <3>1. budget \in [Kinds -> Nat] /\ budget = scenario.budget
        BY LifeAssumption DEF Init, AllScenarios
      <3>2. budget["lost"] \in Nat /\ budget["crash"] \in Nat
        BY <3>1 DEF Kinds
      <3>3. Regular => ~(budget["lost"] > 0) /\ ~(budget["crash"] > 0)
        BY <3>1 DEF Regular, Fails
      <3> QED BY <3>2, <3>3
    <2> QED BY <1>3, <1>6, <2>1, <2>2 DEF IdsTracked, Fresh
  <1> QED BY <1>8, <1>9, <1>10, <1>11

\* No infrastructure is lost and no unfinished cluster is observed, for any number of
\* infrastructures, templates, versions under way and failures: ProvisioningInv is an
\* invariant (on_create, delete_cluster, resource_received).
THEOREM ProvisioningInvariant == Spec => []ProvisioningInv
  <1>1. Init => ProvisioningInv
    BY InitInvariant, InitProvisioning, TrackedKnown, InformedUnobserved DEF ProvisioningInv
  <1>2. /\ IdsTracked => NoneLost
        /\ ObserverInformed /\ KubeconfigStays => UnfinishedUnobserved
    BY TrackedKnown, InformedUnobserved
  <1>3. /\ IdsTracked' => NoneLost'
        /\ ObserverInformed' /\ KubeconfigStays' => UnfinishedUnobserved'
    BY <1>2, PTL
  <1>4. ASSUME ProvisioningInv, [Next]_vars
        PROVE  ProvisioningInv'
    <2>1. ClusterInv /\ CopiesCoherent /\ ObserverInformed /\ KubeconfigStays /\ IdsTracked
      BY <1>4 DEF ProvisioningInv
    <2>2. ClusterInv'
      BY <1>4, <2>1, NextInvariant
    <2>3. CopiesCoherent' /\ ObserverInformed' /\ KubeconfigStays' /\ IdsTracked'
      BY <1>4, <2>1, <2>2, CopiesCoherentStep, ObserverInformedStep, KubeconfigStaysStep,
         IdsTrackedStep
    <2> QED BY <1>3, <2>2, <2>3 DEF ProvisioningInv
  <1> QED BY <1>1, <1>4, PTL DEF Spec
=============================================================================
