----------------------- MODULE GarbageCollectorProofs -----------------------
(***************************************************************************)
(* Proofs about GarbageCollector, for any resources, owners, reflectors,   *)
(* workers, scenarios and failures of connections: the collector takes up  *)
(* nothing but what is in deletion for good.                               *)
(***************************************************************************)
EXTENDS GarbageCollector, FiniteSetTheorems, WellFoundedInduction, TLAPS

-----------------------------------------------------------------------------
(* What the handlers do                                                    *)

\* delete_application keeps uid and owners, marks the entity and only adds the

\* collector's finalizer, so its outcome is a well-typed, faithful successor.
LEMMA DeleteFaithful ==
    ASSUME NEW e \in Entities, NEW force \in BOOLEAN
    PROVE  Faithful(e, DeleteEntity(e, force))
  <1>1. CASE force \/ e.metadata.deleted
    BY <1>1 DEF DeleteEntity, Faithful, Erase, Answer
  <1>2. CASE ~force /\ ~e.metadata.deleted
    <2>1. Append(e.metadata.finalizers, Cascade) \in Seq(Finalizers)
      BY HandlersAssumption DEF Entities, Metadata
    <2> DEFINE st == IF e.spec \in Hooked
                       THEN StatusOf("WAITING_FOR_CLEANING", e.status.scheduled_to)
                       ELSE e.status
               m == Meta(e.metadata.uid, TRUE, Append(e.metadata.finalizers, Cascade),
                         e.metadata.owners)
    <2>2. st \in Status
      BY DEF Entities, Status, StatusOf, AppStates
    <2>3. m \in Metadata /\ m.uid = e.metadata.uid
      BY <2>1 DEF Entities, Metadata, Meta
    <2>4. DeleteEntity(e, force) = Store(Entity(m, e.spec, st))
      BY <1>2 DEF DeleteEntity
    <2> HIDE DEF st, m
    <2>5. Entity(m, e.spec, st) \in Entities /\ Entity(m, e.spec, st).metadata = m
      BY <2>2, <2>3 DEF Entity, Entities
    <2> QED BY <1>2, <2>3, <2>4, <2>5 DEF Faithful, Store
  <1> QED BY <1>1, <1>2

\* update_application stores a well-typed successor: never unmarked, and in
\* deletion without new finalizers.
LEMMA UpdateFaithful ==
    ASSUME NEW e \in Entities, NEW body \in Entities, NEW stamped \in BOOLEAN
    PROVE  Faithful(e, UpdateEntity(e, body, stamped))
  <1> DEFINE new == Merge(e, body)
  <1>1. /\ new \in Entities
        /\ new.metadata.uid = e.metadata.uid
        /\ new.metadata.deleted = e.metadata.deleted
        /\ new.metadata.finalizers = body.metadata.finalizers
    BY DEF Merge, Entity, Meta, Entities, Metadata
  <1> DEFINE grows == e.metadata.deleted
                   /\ ~(Range(body.metadata.finalizers) \subseteq Range(e.metadata.finalizers))
  <1>2. CASE grows \/ (body = e /\ stamped)
    BY <1>2 DEF UpdateEntity, Faithful, Reject
  <1>3. CASE ~grows /\ ~(body = e /\ stamped)
    <2>1. UpdateEntity(e, body, stamped) = IF new.metadata.deleted /\ new.metadata.finalizers = <<>>
                                    THEN Erase ELSE Store(new)
      BY <1>3 DEF UpdateEntity
    <2> HIDE DEF new
    <2> QED BY <1>1, <1>3, <2>1 DEF Faithful, Erase, Store
  <1> QED BY <1>2, <1>3

\* A binding only adds an owner and the place.
LEMMA BindFaithful ==
    ASSUME NEW e \in Entities, NEW c \in Refs
    PROVE  Faithful(e, BindEntity(e, c))
  <1> DEFINE m == Meta(e.metadata.uid, e.metadata.deleted, e.metadata.finalizers,
                       e.metadata.owners \cup {c})
             st == StatusOf(e.status.state, c)
             new == Entity(m, e.spec, st)
  <1>1. /\ e.metadata \in Metadata /\ e.status \in Status /\ e.spec \in Specs
        /\ m \in Metadata /\ st \in Status
    BY DEF Entities, Meta, Metadata, StatusOf, Status
  <1>2. m.uid = e.metadata.uid /\ m.finalizers = e.metadata.finalizers
          /\ m.deleted = e.metadata.deleted
    BY DEF Meta
  <1>3. BindEntity(e, c) = Store(new)
    BY DEF BindEntity
  <1> HIDE DEF m, st
  <1>4. new \in Entities /\ new.metadata = m
    BY <1>1 DEF Entity, Entities
  <1> HIDE DEF new
  <1> QED BY <1>2, <1>3, <1>4 DEF Faithful, Store

-----------------------------------------------------------------------------
(* Lists of dependents                                                     *)

\* A set of naturals that is not empty has a least element.
LEMMA LeastElement ==
    ASSUME NEW T, T \subseteq Nat, T # {}
    PROVE  \E x \in T : \A y \in T : x <= y
  <1> DEFINE R == {ss \in Nat \X Nat : ss[1] < ss[2]}
  <1>1. IsWellFoundedOn(R, Nat)
    BY NatLessThanWellFounded DEF OpToRel
  <1>2. \A x, y \in Nat : (<<y, x>> \in R) <=> y < x
    OBVIOUS
  <1> HIDE DEF R
  <1>3. PICK x \in T : \A y \in T : ~(<<y, x>> \in R)
    BY <1>1, WFMin
  <1>4. ASSUME NEW y \in T PROVE x <= y
    <2>1. x \in Nat /\ y \in Nat /\ ~(<<y, x>> \in R)
      BY <1>3
    <2>2. ~(y < x)
      BY <1>2, <2>1
    <2> QED BY <2>1, <2>2
  <1> QED BY <1>4

\* list.remove leaves a list over the same elements.
LEMMA RemoveFirstTyped ==
    ASSUME NEW A, NEW s \in Seq(A), NEW e
    PROVE  RemoveFirst(s, e) \in Seq(A)
  <1>1. CASE \E i \in 1..Len(s) : s[i] = e
    <2> DEFINE T == {i \in 1..Len(s) : s[i] = e}
    <2>1. T \subseteq 1..Len(s) /\ T \subseteq Nat /\ T # {}
      BY <1>1
    <2>2. Min(T) \in T
      BY <2>1, LeastElement DEF Min
    <2>3. RemoveFirst(s, e) = RemoveAt(s, Min(T))
      BY <1>1 DEF RemoveFirst, SelectInSeq
    <2> HIDE DEF T
    <2>4. PICK n \in 1..Len(s) :
            RemoveFirst(s, e) = SubSeq(s, 1, n - 1) \o SubSeq(s, n + 1, Len(s))
      BY <2>1, <2>2, <2>3 DEF RemoveAt
    <2>5. SubSeq(s, 1, n - 1) \in Seq(A) /\ SubSeq(s, n + 1, Len(s)) \in Seq(A)
      OBVIOUS
    <2> QED BY <2>4, <2>5
  <1>2. CASE ~ \E i \in 1..Len(s) : s[i] = e
    BY <1>2 DEF RemoveFirst
  <1> QED BY <1>1, <1>2

Upto(K, i) == {k \in K : k <= i}

\* A set of m positions has one with j positions up to it, for every j from 1 to m.
LEMMA PositionExists ==
    ASSUME NEW n \in Nat, NEW K, K \subseteq 1..n, NEW j \in 1..Cardinality(K)
    PROVE  \E i \in K : Cardinality(Upto(K, i)) = j
  <1> DEFINE Up == [i \in 0..n |-> {k \in K : k <= i}]
             T == {i \in 1..n : Cardinality(Up[i]) >= j}
  <1>0. \A k \in K : k \in Nat /\ 1 <= k /\ k <= n
    OBVIOUS
  <1>1. IsFiniteSet(1..n)
    BY FS_Interval
  <1>2. IsFiniteSet(K) /\ Cardinality(K) \in Nat
    BY <1>1, FS_Subset, FS_CardinalityType
  <1>3. \A i \in 0..n : Up[i] \in SUBSET K /\ \A k : k \in Up[i] <=> k \in K /\ k <= i
    OBVIOUS
  <1>4. \A i \in K : i \in 0..n /\ Up[i] = Upto(K, i)
    BY <1>0 DEF Upto
  <1> HIDE DEF Up
  <1>5. ASSUME NEW i \in 0..n
        PROVE  IsFiniteSet(Up[i]) /\ Cardinality(Up[i]) \in Nat
    <2>1. Up[i] \in SUBSET K
      BY <1>3
    <2> QED BY <1>2, <2>1, FS_Subset, FS_CardinalityType
  <1>6. n \in T
    <2>1. n \in 0..n
      OBVIOUS
    <2>2. Up[n] = K
      BY <1>0, <1>3, <2>1
    <2>3. K # {}
      BY <1>2, FS_EmptySet
    <2>4. PICK k \in K : TRUE
      BY <2>3
    <2>5. k \in Nat /\ 1 <= k /\ k <= n
      BY <1>0
    <2>6. n \in 1..n
      BY <2>5
    <2> QED BY <1>2, <2>2, <2>6
  <1>7. T \subseteq Nat
    OBVIOUS
  <1>8. PICK i \in T : \A y \in T : i <= y
    <2> HIDE DEF T
    <2> QED BY <1>6, <1>7, LeastElement
  <1>9. /\ i \in 1..n /\ i \in 0..n /\ i - 1 \in 0..n
        /\ Cardinality(Up[i]) >= j
    BY <1>8
  <1>10. Cardinality(Up[i - 1]) < j
    <2>1. CASE i = 1
      <3>1. i - 1 = 0 /\ 0 \in 0..n
        BY <2>1
      <3>2. ASSUME NEW k \in Up[0] PROVE FALSE
        <4>1. k \in K /\ k <= 0
          BY <1>3, <3>1
        <4>2. k \in Nat /\ 1 <= k
          BY <1>0, <4>1
        <4> QED BY <4>1, <4>2
      <3>3. Up[i - 1] = {}
        BY <3>1, <3>2
      <3> QED BY <3>3, FS_EmptySet
    <2>2. CASE i # 1
      <3>1. i - 1 \in 1..n /\ ~(i <= i - 1)
        BY <1>9, <2>2
      <3>2. i - 1 \notin T
        BY <1>8, <3>1
      <3> QED BY <1>5, <1>9, <3>1, <3>2
    <2> QED BY <2>1, <2>2
  <1>11. CASE i \in K
    <2>1. ASSUME NEW k PROVE k \in Up[i] <=> k \in Up[i - 1] \cup {i}
      <3>1. CASE k \in K
        <4>1. k <= i <=> k <= i - 1 \/ k = i
          BY <1>0, <1>9, <3>1
        <4> QED BY <1>3, <1>9, <3>1, <4>1
      <3>2. CASE k \notin K
        BY <1>3, <1>9, <1>11, <3>2
      <3> QED BY <3>1, <3>2
    <2>2. Up[i] = Up[i - 1] \cup {i}
      BY <2>1
    <2>3. i \notin Up[i - 1]
      BY <1>3, <1>9
    <2> HIDE DEF T
    <2>4. Cardinality(Up[i]) = Cardinality(Up[i - 1]) + 1
      BY <1>5, <1>9, <2>2, <2>3, FS_AddElement
    <2>5. Cardinality(Up[i]) = j
      BY <1>5, <1>9, <1>10, <2>4
    <2> QED BY <1>4, <1>11, <2>5
  <1>12. CASE i \notin K
    <2>1. ASSUME NEW k \in K PROVE k <= i <=> k <= i - 1
      <3>1. k \in Nat /\ k # i
        BY <1>0, <1>12
      <3> QED BY <1>9, <3>1
    <2>2. Up[i] = Up[i - 1]
      BY <1>3, <1>9, <2>1
    <2>3. Cardinality(Up[i]) \in Nat /\ j \in Nat
      BY <1>2, <1>5, <1>9
    <2> HIDE DEF T
    <2> QED BY <1>9, <1>10, <2>2, <2>3
  <1> QED BY <1>11, <1>12

\* A list from which some elements are taken is a list.
LEMMA WithoutTyped ==
    ASSUME NEW A, NEW s \in Seq(A), NEW S
    PROVE  Without(s, S) \in Seq(A)
  <1> DEFINE K == {i \in DOMAIN s : s[i] \notin S}
             Pos(j) == CHOOSE i \in K : Cardinality(Upto(K, i)) = j
  <1>1. Len(s) \in Nat /\ K \subseteq 1..Len(s) /\ \A i \in K : s[i] \in A
    OBVIOUS
  <1>2. IsFiniteSet(K)
    BY <1>1, FS_Interval, FS_Subset
  <1>3. Cardinality(K) \in Nat
    BY <1>2, FS_CardinalityType
  <1>4. Without(s, S) = [j \in 1..Cardinality(K) |-> s[Pos(j)]]
    BY DEF Without, Upto
  <1>5. ASSUME NEW j \in 1..Cardinality(K)
        PROVE  s[Pos(j)] \in A
    <2> HIDE DEF K
    <2>0. PICK m \in Nat : K \subseteq 1..m
      BY <1>1
    <2>1. \E i \in K : Cardinality(Upto(K, i)) = j
      BY <2>0, PositionExists
    <2>2. Pos(j) \in K
      BY <2>1
    <2> QED BY <1>1, <2>2
  <1> HIDE DEF K, Pos
  <1> QED BY <1>3, <1>4, <1>5

\* The operations on the graph leave lists of resources.
LEMMA GraphTyped ==
    ASSUME NEW g \in [Refs -> Seq(Refs)], NEW n \in Refs, NEW owners, NEW cycle
    PROVE  /\ AddEdges(g, n, owners) \in [Refs -> Seq(Refs)]
           /\ RemoveResource(g, n) \in [Refs -> Seq(Refs)]
           /\ UpdateResource(g, n, owners) \in [Refs -> Seq(Refs)]
           /\ CleanCycle(g, cycle) \in [Refs -> Seq(Refs)]
  <1>1. ASSUME NEW h \in [Refs -> Seq(Refs)]
        PROVE  AddEdges(h, n, owners) \in [Refs -> Seq(Refs)]
    BY <1>1 DEF AddEdges
  <1>2. RemoveResource(g, n) \in [Refs -> Seq(Refs)]
    <2>1. \A o \in Refs : RemoveFirst(g[o], n) \in Seq(Refs)
      BY RemoveFirstTyped
    <2> QED BY <2>1 DEF RemoveResource
  <1>3. UpdateResource(g, n, owners) \in [Refs -> Seq(Refs)]
    BY <1>1, <1>2 DEF UpdateResource
  <1>4. CleanCycle(g, cycle) \in [Refs -> Seq(Refs)]
    <2>1. \A o \in Refs : Without(g[o], cycle) \in Seq(Refs)
      BY WithoutTyped
    <2> QED BY <2>1 DEF CleanCycle
  <1> QED BY <1>1, <1>2, <1>3, <1>4

\* The list of a set of resources is a list of resources.
LEMMA ListOfTyped ==
    ASSUME NEW S, S \subseteq Refs
    PROVE  SetToSeq(S) \in Seq(Refs)
  <1>1. IsFiniteSet(S)
    BY CollectorAssumption, FS_Subset
  <1>2. Cardinality(S) \in Nat /\ ExistsBijection(1..Cardinality(S), S)
    BY <1>1, FS_CardinalityType
  <1>3. \E f \in [1..Cardinality(S) -> S] : IsInjective(f)
    BY <1>2 DEF ExistsBijection, Bijection, Injection
  <1>4. SetToSeq(S) \in [1..Cardinality(S) -> S]
    BY <1>3 DEF SetToSeq
  <1> QED BY <1>2, <1>4

-----------------------------------------------------------------------------
(* The parts of the invariant after a step                                 *)

SpentThen(n) == n \in scenario'.present \/ [op |-> "create", ref |-> n] \notin intents'
OverThen(n) == SpentThen(n) /\ (db'[n] = Null \/ db'[n].metadata.deleted)

DbSpentThen == \A n \in Refs : db'[n] # Null => SpentThen(n)
StreamSeenThen ==
    \A r \in Reflectors : \A i \in DOMAIN stream'[r] :
        stream'[r][i].obj.metadata.deleted => OverThen(stream'[r][i].ref)
ItemsSeenThen ==
    \A r \in Reflectors : \A i \in items'[r] : i.obj.metadata.deleted => OverThen(i.ref)
OwnerSeenThen ==
    \A r \in Reflectors : deletion'[r] # Null /\ deletion'[r].got # Null
        => (deletion'[r].got.obj.metadata.deleted => OverThen(deletion'[r].got.ref))
PendingFinalThen ==
    \A n \in Refs : pending'[n] # Null => IsInDeletion(pending'[n]) /\ OverThen(n)
WorkFinalThen ==
    \A w \in Workers : work'[w] # Null =>
        /\ holding'[w] \in Refs
        /\ work'[w].call = "update" => work'[w].body # Null /\ OverThen(work'[w].target)

\* The parts after a step are the invariant after the step.
LEMMA MarksThen ==
    ASSUME DbSpentThen, StreamSeenThen, ItemsSeenThen, OwnerSeenThen,
           PendingFinalThen, WorkFinalThen
    PROVE  MarksAreFinal'
  <1>1. DbSpent'
    BY DEF DbSpentThen, DbSpent, SpentThen, Spent
  <1>2. StreamSeen'
    BY DEF StreamSeenThen, StreamSeen, Seen, OverThen, SpentThen, Over, Spent
  <1>3. ItemsSeen'
    BY DEF ItemsSeenThen, ItemsSeen, Seen, OverThen, SpentThen, Over, Spent
  <1>4. OwnerSeen'
    BY DEF OwnerSeenThen, OwnerSeen, Seen, OverThen, SpentThen, Over, Spent
  <1>5. PendingFinal'
    BY DEF PendingFinalThen, PendingFinal, OverThen, SpentThen, Over, Spent
  <1>6. WorkFinal'
    BY DEF WorkFinalThen, WorkFinal, OverThen, SpentThen, Over, Spent
  <1> QED BY <1>1, <1>2, <1>3, <1>4, <1>5, <1>6 DEF MarksAreFinal

\* What a step does not touch keeps its part of the invariant, provided that what is over
\* stays over.
LEMMA PartsKept ==
    ASSUME TypeOK, MarksAreFinal, \A n \in Refs : Over(n) => OverThen(n)
    PROVE  /\ UNCHANGED stream => StreamSeenThen
           /\ UNCHANGED items => ItemsSeenThen
           /\ UNCHANGED deletion => OwnerSeenThen
           /\ UNCHANGED pending => PendingFinalThen
           /\ UNCHANGED <<holding, work>> => WorkFinalThen
  <1>1. ASSUME UNCHANGED stream PROVE StreamSeenThen
    <2>1. ASSUME NEW r \in Reflectors, NEW i \in DOMAIN stream[r]
          PROVE  stream[r][i].ref \in Refs
      <3>1. stream[r] \in Seq(Events)
        BY DEF TypeOK
      <3>2. stream[r][i] \in Events
        BY <3>1
      <3> QED BY <3>2 DEF Events
    <2> QED BY <1>1, <2>1 DEF MarksAreFinal, StreamSeen, StreamSeenThen, Seen
  <1>2. ASSUME UNCHANGED items PROVE ItemsSeenThen
    <2>1. ASSUME NEW r \in Reflectors, NEW i \in items[r]
          PROVE  i.ref \in Refs
      BY DEF TypeOK, Items
    <2> QED BY <1>2, <2>1 DEF MarksAreFinal, ItemsSeen, ItemsSeenThen, Seen
  <1>3. ASSUME UNCHANGED deletion PROVE OwnerSeenThen
    <2>1. ASSUME NEW r \in Reflectors, deletion[r] # Null, deletion[r].got # Null
          PROVE  deletion[r].got.ref \in Refs
      BY <2>1 DEF TypeOK, Deletions, Items
    <2> QED BY <1>3, <2>1 DEF MarksAreFinal, OwnerSeen, OwnerSeenThen, Seen
  <1>4. ASSUME UNCHANGED pending PROVE PendingFinalThen
    BY <1>4 DEF MarksAreFinal, PendingFinal, PendingFinalThen
  <1>5. ASSUME UNCHANGED <<holding, work>> PROVE WorkFinalThen
    <2>1. ASSUME NEW w \in Workers, work[w] # Null
          PROVE  work[w].target \in Refs
      BY <2>1 DEF TypeOK, Works
    <2> QED BY <1>5, <2>1 DEF MarksAreFinal, WorkFinal, WorkFinalThen
  <1> QED BY <1>1, <1>2, <1>3, <1>4, <1>5

-----------------------------------------------------------------------------
(* The API                                                                 *)

\* What a request does to the database and to the watches
Goes ==
    /\ db' \in [Refs -> Entities \cup {Null}]
    /\ stream' \in [Reflectors -> Seq(Events)]
    /\ \A n \in Refs : Over(n) => OverThen(n)
    /\ DbSpentThen
    /\ StreamSeenThen

\* A write keeps what is over over, provided that it does not take a mark back.
LEMMA WriteGoes ==
    ASSUME TypeOK, MarksAreFinal, intents' \subseteq intents, UNCHANGED scenario,
           NEW n \in Refs, NEW e \in Entities \cup {Null}, db[n] # Null \/ e # Null,
           Over(n) => e = Null \/ e.metadata.deleted, SpentThen(n), Write(n, e)
    PROVE  Goes
  <1>1. /\ db' \in [Refs -> Entities \cup {Null}] /\ db'[n] = e
        /\ \A m \in Refs \ {n} : db'[m] = db[m]
    BY DEF TypeOK, Write
  <1>2. ASSUME NEW m \in Refs, Spent(m) PROVE SpentThen(m)
    BY <1>2 DEF Spent, SpentThen
  <1>3. ASSUME NEW m \in Refs, Over(m) PROVE OverThen(m)
    <2>1. CASE m = n
      BY <1>1, <1>3, <2>1 DEF OverThen
    <2>2. CASE m # n
      BY <1>1, <1>2, <1>3, <2>2 DEF Over, OverThen
    <2> QED BY <2>1, <2>2
  <1>4. DbSpentThen
    <2>1. ASSUME NEW m \in Refs, db'[m] # Null PROVE SpentThen(m)
      <3>1. CASE m = n
        BY <3>1
      <3>2. CASE m # n
        BY <1>1, <1>2, <2>1, <3>2 DEF MarksAreFinal, DbSpent
      <3> QED BY <3>1, <3>2
    <2> QED BY <2>1 DEF DbSpentThen
  <1>5. /\ EventOf(n, e) \in Events /\ EventOf(n, e).ref = n
        /\ EventOf(n, e).obj.metadata.deleted => OverThen(n)
    <2>1. CASE db[n] = Null
      <3>1. EventOf(n, e) = [type |-> "ADDED", ref |-> n, obj |-> e]
        BY <2>1 DEF EventOf
      <3> QED BY <1>1, <2>1, <3>1 DEF Events, OverThen
    <2>2. CASE db[n] # Null /\ e = Null
      <3>1. EventOf(n, e) = [type |-> "DELETED", ref |-> n, obj |-> db[n]]
        BY <2>2 DEF EventOf
      <3>2. db[n] \in Entities
        BY <2>2 DEF TypeOK
      <3> QED BY <1>1, <2>2, <3>1, <3>2 DEF Events, OverThen
    <2>3. CASE db[n] # Null /\ e # Null
      <3>1. EventOf(n, e) = [type |-> "MODIFIED", ref |-> n, obj |-> e]
        BY <2>3 DEF EventOf
      <3> QED BY <1>1, <2>3, <3>1 DEF Events, OverThen
    <2> QED BY <2>1, <2>2, <2>3
  <1>6. CASE mode[KindOf[n]] = "down"
    <2>1. UNCHANGED stream
      BY <1>6 DEF Write
    <2>2. StreamSeenThen
      BY <1>3, <2>1, PartsKept
    <2> QED BY <1>1, <1>3, <1>4, <2>1, <2>2 DEF Goes, TypeOK
  <1>7. CASE mode[KindOf[n]] # "down"
    <2> DEFINE k == KindOf[n]
               v == EventOf(n, e)
    <2>1. k \in Reflectors
      BY CollectorAssumption
    <2>2. stream' = [stream EXCEPT ![k] = Append(@, v)]
      BY <1>7 DEF Write
    <2>3. v \in Events /\ v.ref = n /\ (v.obj.metadata.deleted => OverThen(n))
      BY <1>5
    <2> HIDE DEF k, v
    <2>4. stream' \in [Reflectors -> Seq(Events)]
      BY <2>1, <2>2, <2>3 DEF TypeOK
    <2>5. ASSUME NEW r \in Reflectors, NEW i \in DOMAIN stream'[r],
                 stream'[r][i].obj.metadata.deleted
          PROVE  OverThen(stream'[r][i].ref)
      <3>1. stream[r] \in Seq(Events)
        BY DEF TypeOK
      <3>2. stream'[r] = IF r = k THEN Append(stream[r], v) ELSE stream[r]
        BY <2>1, <2>2 DEF TypeOK
      <3>3. CASE i \in DOMAIN stream[r]
        <4>1. stream'[r][i] = stream[r][i] /\ stream[r][i] \in Events
          BY <2>3, <3>1, <3>2, <3>3
        <4>2. Over(stream[r][i].ref)
          BY <2>5, <3>3, <4>1 DEF MarksAreFinal, StreamSeen, Seen
        <4>3. stream[r][i].ref \in Refs
          BY <4>1 DEF Events
        <4> QED BY <1>3, <4>1, <4>2, <4>3
      <3>4. CASE i \notin DOMAIN stream[r]
        <4>1. stream'[r][i] = v
          BY <2>3, <3>1, <3>2, <3>4
        <4> QED BY <2>3, <2>5, <4>1
      <3> QED BY <3>3, <3>4
    <2>6. StreamSeenThen
      BY <2>5 DEF StreamSeenThen
    <2> QED BY <1>1, <1>3, <1>4, <2>4, <2>6 DEF Goes
  <1> QED BY <1>6, <1>7

\* A handler's outcome is written, or nothing is.
LEMMA ApplyGoes ==
    ASSUME TypeOK, MarksAreFinal, intents' \subseteq intents, UNCHANGED scenario,
           NEW n \in Refs, NEW o, db[n] # Null, Faithful(db[n], o), Apply(n, o)
    PROVE  Goes
  <1>1. Spent(n) /\ db[n] \in Entities
    BY DEF MarksAreFinal, DbSpent, TypeOK
  <1>2. SpentThen(n)
    BY <1>1 DEF Spent, SpentThen
  <1>3. CASE o.kind = "store" /\ Write(n, o.obj)
    <2>1. o.obj \in Entities \cup {Null} /\ (db[n].metadata.deleted => o.obj.metadata.deleted)
      BY <1>3 DEF Faithful
    <2>2. Over(n) => o.obj.metadata.deleted
      BY <2>1 DEF Over
    <2> QED BY <1>2, <1>3, <2>1, <2>2, WriteGoes
  <1>4. CASE o.kind = "remove" /\ Write(n, Null)
    BY <1>2, <1>4, WriteGoes
  <1>5. CASE UNCHANGED <<db, stream>>
    <2>1. \A m \in Refs : Spent(m) => SpentThen(m)
      BY DEF Spent, SpentThen
    <2>2. \A m \in Refs : Over(m) => OverThen(m)
      BY <1>5, <2>1 DEF Over, OverThen
    <2>3. DbSpentThen
      BY <1>5, <2>1 DEF MarksAreFinal, DbSpent, DbSpentThen
    <2>4. StreamSeenThen
      BY <1>5, <2>2, PartsKept
    <2> QED BY <1>5, <2>2, <2>3, <2>4 DEF Goes, TypeOK
  <1> QED BY <1>3, <1>4, <1>5 DEF Apply

\* The requests leave the collector alone, but for the worker that asked.
LEMMA ApiStep ==
    ASSUME TypeOK, MarksAreFinal, Goes, intents' \subseteq intents,
           UNCHANGED <<mode, items, deletion, graph, queueVars, scenario, outages>>,
           work' \in [Workers -> Works \cup {Null}], WorkFinalThen
    PROVE  TypeOK' /\ MarksAreFinal'
  <1> USE DEF queueVars
  <1>1. TypeOK'
    BY DEF TypeOK, Goes
  <1>2. ItemsSeenThen /\ OwnerSeenThen /\ PendingFinalThen
    BY PartsKept DEF Goes
  <1>3. MarksAreFinal'
    BY <1>2, MarksThen DEF Goes
  <1> QED BY <1>1, <1>3

\* A body made of an entity is one.
LEMMA BodyTyped ==
    ASSUME NEW e \in Entities, NEW f \in Seq(Finalizers), NEW o \in SUBSET Refs
    PROVE  BodyOf(e, f, o) \in Entities
  BY DEF BodyOf, Entity, Meta, Entities, Metadata

\* The list of finalizers without the last one is a list.
LEMMA FrontTyped ==
    ASSUME NEW e \in Entities
    PROVE  /\ Front(e.metadata.finalizers) \in Seq(Finalizers)
           /\ e.metadata.finalizers \in Seq(Finalizers)
           /\ e.metadata.owners \in SUBSET Refs
  <1>1. e.metadata.finalizers \in Seq(Finalizers) /\ e.metadata.owners \in SUBSET Refs
    BY DEF Entities, Metadata
  <1>2. ASSUME NEW s \in Seq(Finalizers) PROVE Front(s) \in Seq(Finalizers)
    BY DEF Front
  <1> QED BY <1>1, <1>2

\* A resource is created unmarked.
LEMMA CreatedTyped ==
    ASSUME NEW n \in Refs, NEW o \in SUBSET Refs
    PROVE  Created(n, o) \in Entities /\ ~Created(n, o).metadata.deleted
  <1> DEFINE f == IF n \in Guarded THEN <<Foreign>> ELSE <<>>
  <1>1. f \in Seq(Finalizers)
    BY CollectorAssumption
  <1>2. AnySpec \in Specs
    BY CollectorAssumption DEF AnySpec
  <1> DEFINE m == Meta(1, FALSE, f, o)
             st == StatusOf("PENDING", Null)
  <1>3. Created(n, o) = Entity(m, AnySpec, st)
    BY DEF Created, NewEntity, Entity, Meta
  <1> HIDE DEF f
  <1>4. m \in Metadata /\ ~m.deleted
    BY <1>1 DEF Meta, Metadata
  <1>5. st \in Status
    BY DEF StatusOf, Status, AppStates
  <1> HIDE DEF m, st
  <1> QED BY <1>2, <1>3, <1>4, <1>5 DEF Entity, Entities

\* Ask: a resource is created at most once, and no other request takes a mark back.
LEMMA AskStep ==
    ASSUME TypeOK, MarksAreFinal, NEW i \in intents, Ask(i)
    PROVE  TypeOK' /\ MarksAreFinal'
  <1> DEFINE n == i.ref
  <1>1. scenario \in AllScenarios /\ i \in Wishes
    BY CollectorAssumption DEF TypeOK, AllScenarios
  <1>2. /\ n \in Refs
        /\ i.op = "create" => i = [op |-> "create", ref |-> n]
        /\ i.op \in {"bind", "unbind"} => i.owner \in Refs
    BY <1>1 DEF Wishes
  <1>3. intents' = intents \ {i} /\ intents' \subseteq intents /\ UNCHANGED scenario
    BY DEF Ask
  <1>4. scenario.owners[n] \in SUBSET Refs
    BY <1>1, <1>2 DEF AllScenarios
  <1>5. CASE i.op = "create"
    <2> DEFINE e == Created(n, scenario.owners[n])
    <2>1. db[n] = Null /\ n \notin scenario.present /\ Write(n, e)
      BY <1>5 DEF Ask
    <2>2. ~Over(n)
      BY <1>2, <1>5, <2>1 DEF Over, Spent
    <2>3. SpentThen(n)
      BY <1>2, <1>3, <1>5 DEF SpentThen
    <2>4. e \in Entities
      BY <1>2, <1>4, CreatedTyped
    <2>5. e # Null
      BY <2>4, HandlersAssumption
    <2> HIDE DEF n, e
    <2>6. Goes
      BY <1>2, <1>3, <2>1, <2>2, <2>3, <2>4, <2>5, WriteGoes
    <2> QED BY <1>3, <2>6, PartsKept, ApiStep DEF Ask, Goes, TypeOK, queueVars
  <1>6. CASE i.op # "create"
    <2>0. db[n] # Null /\ db[n] \in Entities
      <3>1. db[n] # Null
        BY <1>6 DEF Ask
      <3> QED BY <1>2, <3>1 DEF TypeOK
    <2>1. \E o : Faithful(db[n], o) /\ Apply(n, o)
      <3> DEFINE e == db[n]
                 b == BodyOf(e, e.metadata.finalizers, e.metadata.owners \ {i.owner})
      <3>1. e \in Entities
        BY <2>0
      <3>2. Faithful(e, DeleteEntity(e, FALSE)) /\ Faithful(e, DeleteEntity(e, TRUE))
        BY <3>1, DeleteFaithful
      <3>3. ASSUME i.op = "bind" PROVE Faithful(e, BindEntity(e, i.owner))
        BY <1>2, <3>1, <3>3, BindFaithful
      <3>4. ASSUME i.op = "unbind" PROVE Faithful(e, UpdateEntity(e, b, TRUE))
        <4>1. e.metadata.owners \ {i.owner} \in SUBSET Refs
          BY <3>1, FrontTyped
        <4>2. b \in Entities
          BY <3>1, <4>1, FrontTyped, BodyTyped
        <4> QED BY <3>1, <4>2, UpdateFaithful
      <3>5. \/ i.op = "delete" /\ Apply(n, DeleteEntity(e, FALSE))
            \/ i.op = "force" /\ Apply(n, DeleteEntity(e, TRUE))
            \/ i.op = "bind" /\ Apply(n, BindEntity(e, i.owner))
            \/ i.op = "unbind" /\ Apply(n, UpdateEntity(e, b, TRUE))
        BY <1>6 DEF Ask
      <3> HIDE DEF e, b, n
      <3> QED BY <3>2, <3>3, <3>4, <3>5 DEF e
    <2> HIDE DEF n
    <2>2. Goes
      BY <1>2, <1>3, <2>0, <2>1, ApplyGoes
    <2> QED BY <1>3, <2>2, PartsKept, ApiStep DEF Ask, Goes, TypeOK, queueVars
  <1> QED BY <1>5, <1>6

\* Finalize: the body only lacks the last finalizer.
LEMMA FinalizeStep ==
    ASSUME TypeOK, MarksAreFinal, NEW n \in Refs, Finalize(n)
    PROVE  TypeOK' /\ MarksAreFinal'
  <1> DEFINE e == db[n]
             b == BodyOf(e, Front(e.metadata.finalizers), e.metadata.owners)
  <1>1. e # Null /\ e \in Entities
    BY DEF Finalize, TypeOK
  <1>2. b \in Entities
    BY <1>1, FrontTyped, BodyTyped
  <1>3. Faithful(e, UpdateEntity(e, b, TRUE))
    BY <1>1, <1>2, UpdateFaithful
  <1>4. Apply(n, UpdateEntity(e, b, TRUE))
    BY DEF Finalize
  <1>5. UNCHANGED <<intents, scenario>>
    BY DEF Finalize
  <1> HIDE DEF b
  <1>6. Goes
    BY <1>1, <1>3, <1>4, <1>5, ApplyGoes
  <1> QED BY <1>5, <1>6, PartsKept, ApiStep DEF Finalize, Goes, TypeOK, queueVars

\* How a request went does not change what the worker asked for.
LEMMA AnsweredTyped ==
    ASSUME TypeOK, MarksAreFinal, NEW w \in Workers, work[w] # Null,
           NEW how \in {"answered", "failed"}, Answered(w, how), UNCHANGED queueVars,
           \A n \in Refs : Over(n) => OverThen(n)
    PROVE  work' \in [Workers -> Works \cup {Null}] /\ WorkFinalThen
  <1> DEFINE c == Calling(how, work[w].target, work[w].body, work[w].next, work[w].list)
  <1>1. work[w] \in Works
    BY DEF TypeOK
  <1>2. c \in Works /\ c.call = how
    BY <1>1 DEF Calling, Works
  <1>3. work' = [work EXCEPT ![w] = c]
    BY DEF Answered
  <1> HIDE DEF c
  <1>4. work' \in [Workers -> Works \cup {Null}]
    BY <1>2, <1>3 DEF TypeOK
  <1>5. ASSUME NEW v \in Workers, work'[v] # Null
        PROVE  /\ holding'[v] \in Refs
               /\ work'[v].call = "update" => work'[v].body # Null /\ OverThen(work'[v].target)
    <2>1. CASE v = w
      BY <1>2, <1>3, <2>1 DEF MarksAreFinal, WorkFinal, queueVars, TypeOK
    <2>2. CASE v # w
      <3>1. work'[v] = work[v]
        BY <1>3, <2>2 DEF TypeOK
      <3>2. work[v].target \in Refs
        BY <1>5, <3>1 DEF TypeOK, Works
      <3> QED BY <1>5, <3>1, <3>2 DEF MarksAreFinal, WorkFinal, queueVars
    <2> QED BY <2>1, <2>2
  <1> QED BY <1>4, <1>5 DEF WorkFinalThen

\* Serve: the request of a worker is a request like the others.
LEMMA ServeStep ==
    ASSUME TypeOK, MarksAreFinal, NEW w \in Workers, Serve(w)
    PROVE  TypeOK' /\ MarksAreFinal'
  <1> DEFINE n == work[w].target
             o == IF work[w].call = "delete" THEN DeleteEntity(db[n], FALSE)
                  ELSE UpdateEntity(db[n], work[w].body, TRUE)
  <1>1. work[w] # Null /\ work[w] \in Works /\ work[w].call \in {"delete", "update"}
    BY DEF Serve, TypeOK
  <1>2. n \in Refs /\ (work[w].call = "update" => work[w].body \in Entities)
    BY <1>1 DEF Works, MarksAreFinal, WorkFinal
  <1>3. UNCHANGED <<intents, scenario, queueVars>>
    BY DEF Serve
  <1>4. \E how \in {"answered", "failed"} : Answered(w, how)
    BY DEF Serve
  <1>5. Goes
    <2>1. CASE db[n] = Null /\ UNCHANGED <<db, stream>>
      <3>1. \A m \in Refs : Spent(m) => SpentThen(m)
        BY <1>3 DEF Spent, SpentThen
      <3>2. \A m \in Refs : Over(m) => OverThen(m)
        BY <2>1, <3>1 DEF Over, OverThen
      <3>3. DbSpentThen
        BY <2>1, <3>1 DEF MarksAreFinal, DbSpent, DbSpentThen
      <3>4. StreamSeenThen
        BY <2>1, <3>2, PartsKept
      <3> QED BY <2>1, <3>2, <3>3, <3>4 DEF Goes, TypeOK
    <2>2. CASE db[n] # Null /\ Apply(n, o)
      <3>1. db[n] \in Entities
        BY <1>2, <2>2 DEF TypeOK
      <3>2. CASE work[w].call = "delete"
        <4>1. Faithful(db[n], o)
          BY <3>1, <3>2, DeleteFaithful
        <4> HIDE DEF o, n
        <4> QED BY <1>2, <1>3, <2>2, <4>1, ApplyGoes
      <3>3. CASE work[w].call = "update"
        <4>1. Faithful(db[n], o)
          BY <1>2, <3>1, <3>3, UpdateFaithful
        <4> HIDE DEF o, n
        <4> QED BY <1>2, <1>3, <2>2, <4>1, ApplyGoes
      <3> QED BY <1>1, <3>2, <3>3
    <2> QED BY <2>1, <2>2 DEF Serve
  <1>6. work' \in [Workers -> Works \cup {Null}] /\ WorkFinalThen
    BY <1>1, <1>3, <1>4, <1>5, AnsweredTyped DEF Goes
  <1> QED BY <1>3, <1>5, <1>6, ApiStep DEF Serve

-----------------------------------------------------------------------------
(* Reflectors and workers                                                  *)

\* A step that leaves the database and the users alone
Inner == UNCHANGED <<db, intents, scenario>>

\* Such a step makes nothing over, and nothing not over.
LEMMA InnerKeeps ==
    ASSUME MarksAreFinal, Inner
    PROVE  (\A n : Over(n) <=> OverThen(n)) /\ DbSpentThen
  BY DEF Inner, MarksAreFinal, DbSpent, DbSpentThen, Spent, SpentThen, Over, OverThen

\* A list that the graph drops becomes the worker's own.
LEMMA DetachGoes ==
    ASSUME TypeOK, MarksAreFinal, Inner, UNCHANGED holding,
           NEW g \in [Refs -> Seq(Refs)], NEW cycle, Detach(g, cycle)
    PROVE  work' \in [Workers -> Works \cup {Null}] /\ WorkFinalThen
  <1>1. PICK first \in SUBSET cycle :
          work' = [w \in Workers |->
                     IF work[w] # Null /\ holding[w] \in cycle /\ work[w].list = Null
                       THEN [call |-> work[w].call, target |-> work[w].target,
                             body |-> work[w].body, next |-> work[w].next,
                             list |-> Without(g[holding[w]], first)]
                       ELSE work[w]]
    BY DEF Detach
  <1>2. ASSUME NEW w \in Workers, work[w] # Null
        PROVE  /\ holding'[w] \in Refs
               /\ work'[w] \in Works
               /\ work'[w].call = work[w].call /\ work'[w].target = work[w].target
               /\ work'[w].body = work[w].body
    <2>1. holding[w] \in Refs
      BY <1>2 DEF MarksAreFinal, WorkFinal
    <2>2. g[holding[w]] \in Seq(Refs)
      BY <2>1
    <2>3. Without(g[holding[w]], first) \in Seq(Refs)
      BY <2>2, WithoutTyped
    <2>4. work[w] \in Works
      BY <1>2 DEF TypeOK
    <2>5. CASE holding[w] \in cycle /\ work[w].list = Null
      <3>1. work'[w] = [call |-> work[w].call, target |-> work[w].target,
                        body |-> work[w].body, next |-> work[w].next,
                        list |-> Without(g[holding[w]], first)]
        BY <1>1, <1>2, <2>5
      <3> QED BY <2>1, <2>3, <2>4, <3>1 DEF Works
    <2>6. CASE ~(holding[w] \in cycle /\ work[w].list = Null)
      BY <1>1, <2>1, <2>4, <2>6
    <2> QED BY <2>5, <2>6
  <1>3. ASSUME NEW w \in Workers, work[w] = Null PROVE work'[w] = Null
    BY <1>1, <1>3
  <1>4. work' \in [Workers -> Works \cup {Null}]
    <2>1. DOMAIN work' = Workers /\ work' = [w \in Workers |-> work'[w]]
      BY <1>1
    <2>2. \A w \in Workers : work'[w] \in Works \cup {Null}
      BY <1>2, <1>3
    <2> QED BY <2>1, <2>2
  <1>5. WorkFinalThen
    BY <1>2, <1>3, InnerKeeps DEF WorkFinalThen, MarksAreFinal, WorkFinal
  <1> QED BY <1>4, <1>5

\* What the graph, the queue and the workers are after a step
CoreGoes ==
    /\ graph' \in [Refs -> Seq(Refs)]
    /\ pending' \in [Refs -> Entities \cup {Null}]
    /\ holding' \in [Workers -> Refs \cup {Null}]
    /\ work' \in [Workers -> Works \cup {Null}]
    /\ PendingFinalThen
    /\ WorkFinalThen

\* An offered copy is in deletion, so the resource is over.
LEMMA OfferGoes ==
    ASSUME TypeOK, MarksAreFinal, Inner, NEW n \in Refs, NEW e \in Entities, Seen(n, e),
           SimpleOnReceive(n, e)
    PROVE  /\ pending' \in [Refs -> Entities \cup {Null}]
           /\ UNCHANGED holding
           /\ PendingFinalThen
  <1>1. CASE IsInDeletion(e)
    <2>1. pending' = [pending EXCEPT ![n] = e] /\ UNCHANGED holding
      BY <1>1 DEF SimpleOnReceive, Queue!Offer
    <2>2. Over(n)
      BY <1>1 DEF IsInDeletion, Seen
    <2>3. PendingFinalThen
      BY <1>1, <2>1, <2>2, InnerKeeps DEF PendingFinalThen, MarksAreFinal, PendingFinal, TypeOK
    <2> QED BY <2>1, <2>3 DEF TypeOK
  <1>2. CASE ~IsInDeletion(e)
    <2>1. UNCHANGED <<pending, holding>>
      BY <1>2 DEF SimpleOnReceive, queueVars
    <2>2. PendingFinalThen
      BY <2>1, InnerKeeps, PartsKept
    <2> QED BY <2>1, <2>2 DEF TypeOK
  <1> QED BY <1>1, <1>2

\* on_received_new and on_received_update.
LEMMA ReceivedGoes ==
    ASSUME TypeOK, MarksAreFinal, Inner, NEW n \in Refs, NEW e \in Entities, Seen(n, e),
           NEW g \in [Refs -> Seq(Refs)], Received(n, e, g)
    PROVE  CoreGoes
  <1>1. CASE graph' = g /\ SimpleOnReceive(n, e) /\ UNCHANGED work
    <2>1. pending' \in [Refs -> Entities \cup {Null}] /\ UNCHANGED holding /\ PendingFinalThen
      BY <1>1, OfferGoes
    <2>2. WorkFinalThen
      BY <1>1, <2>1, InnerKeeps, PartsKept
    <2> QED BY <1>1, <2>1, <2>2 DEF CoreGoes, TypeOK
  <1>2. CASE \E cycle : /\ graph' = CleanCycle(g, cycle) /\ Detach(g, cycle)
                        /\ UNCHANGED queueVars
    <2>1. PICK cycle : graph' = CleanCycle(g, cycle) /\ Detach(g, cycle)
      BY <1>2
    <2>2. UNCHANGED <<pending, holding>>
      BY <1>2 DEF queueVars
    <2>3. graph' \in [Refs -> Seq(Refs)]
      BY <2>1, GraphTyped
    <2>4. work' \in [Workers -> Works \cup {Null}] /\ WorkFinalThen
      BY <2>1, <2>2, DetachGoes
    <2>5. PendingFinalThen
      BY <2>2, InnerKeeps, PartsKept
    <2> QED BY <2>2, <2>3, <2>4, <2>5 DEF CoreGoes, TypeOK
  <1> QED BY <1>1, <1>2 DEF Received

\* The two handlers update the graph in different ways.
LEMMA NewGoes ==
    ASSUME TypeOK, MarksAreFinal, Inner, NEW n \in Refs, NEW e \in Entities, Seen(n, e),
           OnReceivedNew(n, e) \/ OnReceivedUpdate(n, e)
    PROVE  CoreGoes
  <1> DEFINE new == AddEdges(graph, n, e.metadata.owners)
             upd == UpdateResource(graph, n, e.metadata.owners)
  <1>1. new \in [Refs -> Seq(Refs)] /\ upd \in [Refs -> Seq(Refs)]
    BY GraphTyped DEF TypeOK
  <1>2. Received(n, e, new) \/ Received(n, e, upd)
    BY DEF OnReceivedNew, OnReceivedUpdate
  <1> HIDE DEF new, upd
  <1> QED BY <1>1, <1>2, ReceivedGoes

\* The end of on_received_deleted.
LEMMA RemoveGoes ==
    ASSUME TypeOK, MarksAreFinal, Inner, UNCHANGED holding, NEW n \in Refs, RemoveFromGraph(n)
    PROVE  /\ graph' \in [Refs -> Seq(Refs)]
           /\ work' \in [Workers -> Works \cup {Null}]
           /\ WorkFinalThen
  <1>1. graph \in [Refs -> Seq(Refs)]
    BY DEF TypeOK
  <1>2. CASE graph' = RemoveResource(graph, n) /\ Detach(graph, {n})
    BY <1>1, <1>2, GraphTyped, DetachGoes
  <1>3. CASE UNCHANGED <<graph, work>>
    BY <1>1, <1>3, InnerKeeps, PartsKept DEF TypeOK
  <1> QED BY <1>2, <1>3 DEF RemoveFromGraph

\* The parts of a step of the collector make the invariant.
LEMMA InnerStep ==
    ASSUME TypeOK, MarksAreFinal, Inner, CoreGoes, outages' \in 0..Outages,
           stream' \in [Reflectors -> Seq(Events)], StreamSeenThen,
           mode' \in [Reflectors -> {"down", "listing", "up"}],
           items' \in [Reflectors -> SUBSET Items], ItemsSeenThen,
           deletion' \in [Reflectors -> Deletions \cup {Null}], OwnerSeenThen
    PROVE  TypeOK' /\ MarksAreFinal'
  <1>1. TypeOK'
    BY DEF TypeOK, Inner, CoreGoes
  <1>2. MarksAreFinal'
    BY InnerKeeps, MarksThen DEF CoreGoes
  <1> QED BY <1>1, <1>2

\* A step of a reflector that leaves the graph, the queue and the workers alone.
LEMMA CoreKept ==
    ASSUME TypeOK, MarksAreFinal, Inner, UNCHANGED <<graph, queueVars, work>>
    PROVE  CoreGoes
  <1>1. UNCHANGED <<pending, holding>>
    BY DEF queueVars
  <1>2. PendingFinalThen /\ WorkFinalThen
    BY <1>1, InnerKeeps, PartsKept
  <1> QED BY <1>1, <1>2 DEF CoreGoes, TypeOK

\* A step that leaves the reflectors alone.
LEMMA ReflectorsKept ==
    ASSUME TypeOK, MarksAreFinal, Inner, UNCHANGED reflectorVars, CoreGoes,
           outages' \in 0..Outages
    PROVE  TypeOK' /\ MarksAreFinal'
  <1>1. UNCHANGED <<stream, mode, items, deletion>>
    BY DEF reflectorVars
  <1>2. StreamSeenThen /\ ItemsSeenThen /\ OwnerSeenThen
    BY <1>1, InnerKeeps, PartsKept
  <1> QED BY <1>1, <1>2, InnerStep DEF TypeOK

\* OnEvent: the next event.
LEMMA OnEventStep ==
    ASSUME TypeOK, MarksAreFinal, NEW r \in Reflectors, OnEvent(r)
    PROVE  TypeOK' /\ MarksAreFinal'
  <1> DEFINE v == Head(stream[r])
             owners == v.obj.metadata.owners
  <1>0. Inner /\ UNCHANGED <<mode, items, outages>>
    BY DEF OnEvent, Inner
  <1>1. stream[r] \in Seq(Events) /\ stream[r] # <<>>
    BY DEF OnEvent, TypeOK
  <1>2. v = stream[r][1] /\ 1 \in DOMAIN stream[r] /\ v \in Events
    BY <1>1
  <1>3. v.ref \in Refs /\ v.obj \in Entities /\ Seen(v.ref, v.obj)
    BY <1>2 DEF Events, MarksAreFinal, StreamSeen
  <1>4. owners \in SUBSET Refs
    BY <1>3, FrontTyped
  <1>5. stream' = [stream EXCEPT ![r] = Tail(@)]
    BY DEF OnEvent
  <1>6. stream' \in [Reflectors -> Seq(Events)]
    BY <1>1, <1>5 DEF TypeOK
  <1>7. ASSUME NEW q \in Reflectors, NEW i \in DOMAIN stream'[q],
               stream'[q][i].obj.metadata.deleted
        PROVE  OverThen(stream'[q][i].ref)
    <2>1. \E j \in DOMAIN stream[q] : stream'[q][i] = stream[q][j]
      <3>1. CASE q = r
        <4>1. stream'[q] = Tail(stream[r]) /\ i \in DOMAIN Tail(stream[r])
          BY <1>5, <3>1 DEF TypeOK
        <4>2. i + 1 \in DOMAIN stream[r] /\ Tail(stream[r])[i] = stream[r][i + 1]
          BY <1>1, <4>1
        <4> QED BY <3>1, <4>1, <4>2
      <3>2. CASE q # r
        BY <1>5, <3>2 DEF TypeOK
      <3> QED BY <3>1, <3>2
    <2> QED BY <1>0, <1>7, <2>1, InnerKeeps DEF MarksAreFinal, StreamSeen, Seen
  <1>8. StreamSeenThen
    BY <1>7 DEF StreamSeenThen
  <1>9. ItemsSeenThen
    BY <1>0, InnerKeeps, PartsKept
  <1>10. mode' \in [Reflectors -> {"down", "listing", "up"}]
           /\ items' \in [Reflectors -> SUBSET Items] /\ outages' \in 0..Outages
    BY <1>0 DEF TypeOK
  <1>11. CASE UNCHANGED deletion
    <2>1. OwnerSeenThen /\ deletion' \in [Reflectors -> Deletions \cup {Null}]
      BY <1>0, <1>11, InnerKeeps, PartsKept DEF TypeOK
    <2>2. \/ OnReceivedNew(v.ref, v.obj) \/ OnReceivedUpdate(v.ref, v.obj)
          \/ RemoveFromGraph(v.ref) /\ UNCHANGED queueVars
          \/ UNCHANGED <<graph, queueVars, work>>
      BY DEF OnEvent
    <2>3. CoreGoes
      <3> HIDE DEF v, owners
      <3>1. CASE OnReceivedNew(v.ref, v.obj) \/ OnReceivedUpdate(v.ref, v.obj)
        BY <1>0, <1>3, <3>1, NewGoes
      <3>2. CASE RemoveFromGraph(v.ref) /\ UNCHANGED queueVars
        <4>1. UNCHANGED <<pending, holding>>
          BY <3>2 DEF queueVars
        <4>2. PendingFinalThen
          BY <1>0, <4>1, InnerKeeps, PartsKept
        <4> QED BY <1>0, <1>3, <3>2, <4>1, <4>2, RemoveGoes DEF CoreGoes, TypeOK
      <3>3. CASE UNCHANGED <<graph, queueVars, work>>
        BY <1>0, <3>3, CoreKept
      <3> QED BY <2>2, <3>1, <3>2, <3>3
    <2> QED BY <1>0, <1>6, <1>8, <1>9, <1>10, <2>1, <2>3, InnerStep
  <1>12. CASE /\ deletion' = [deletion EXCEPT ![r] =
                                [ref |-> v.ref, left |-> owners, got |-> Null]]
              /\ UNCHANGED <<graph, queueVars, work>>
    <2> DEFINE d == [ref |-> v.ref, left |-> owners, got |-> Null]
    <2>1. d \in Deletions /\ d.got = Null
      BY <1>3, <1>4 DEF Deletions
    <2>2. deletion' = [deletion EXCEPT ![r] = d]
      BY <1>12
    <2> HIDE DEF d
    <2>3. deletion' \in [Reflectors -> Deletions \cup {Null}]
      BY <2>1, <2>2 DEF TypeOK
    <2>4. OwnerSeenThen
      BY <1>0, <2>1, <2>2, InnerKeeps DEF OwnerSeenThen, MarksAreFinal, OwnerSeen, Seen, TypeOK
    <2>5. CoreGoes
      BY <1>0, <1>12, CoreKept
    <2> QED BY <1>0, <1>6, <1>8, <1>9, <1>10, <2>3, <2>4, <2>5, InnerStep
  <1> QED BY <1>11, <1>12 DEF OnEvent

\* Down: nothing is left of what the reflector had received.
LEMMA DownStep ==
    ASSUME TypeOK, MarksAreFinal, Inner, NEW r \in Reflectors, Down(r),
           UNCHANGED <<graph, queueVars, work>>, outages' \in 0..Outages
    PROVE  TypeOK' /\ MarksAreFinal'
  <1>1. /\ mode' \in [Reflectors -> {"down", "listing", "up"}]
        /\ stream' \in [Reflectors -> Seq(Events)]
        /\ items' \in [Reflectors -> SUBSET Items]
        /\ deletion' \in [Reflectors -> Deletions \cup {Null}]
    BY DEF Down, TypeOK
  <1>2. ASSUME NEW q \in Reflectors
        PROVE  /\ stream'[q] = stream[q] \/ stream'[q] = <<>>
               /\ items'[q] = items[q] \/ items'[q] = {}
               /\ deletion'[q] = deletion[q] \/ deletion'[q] = Null
    BY DEF Down, TypeOK
  <1>3. StreamSeenThen
    BY <1>2, InnerKeeps DEF StreamSeenThen, MarksAreFinal, StreamSeen, Seen
  <1>4. ItemsSeenThen
    BY <1>2, InnerKeeps DEF ItemsSeenThen, MarksAreFinal, ItemsSeen, Seen
  <1>5. OwnerSeenThen
    BY <1>2, InnerKeeps DEF OwnerSeenThen, MarksAreFinal, OwnerSeen, Seen
  <1> QED BY <1>1, <1>3, <1>4, <1>5, CoreKept, InnerStep

\* ReadOwner: the answer carries the owner as it is in the database.
LEMMA ReadOwnerStep ==
    ASSUME TypeOK, MarksAreFinal, NEW r \in Reflectors, ReadOwner(r)
    PROVE  TypeOK' /\ MarksAreFinal'
  <1>0. Inner /\ UNCHANGED <<graph, queueVars, work, outages>>
    BY DEF ReadOwner, Inner
  <1>1. deletion[r] # Null /\ deletion[r] \in Deletions
    BY DEF ReadOwner, TypeOK
  <1>2. PICK o \in deletion[r].left :
          \/ db[o] = Null /\ Down(r)
          \/ /\ db[o] # Null
             /\ deletion' = [deletion EXCEPT ![r].got = [ref |-> o, obj |-> db[o]]]
             /\ UNCHANGED <<stream, mode, items>>
    BY DEF ReadOwner
  <1>3. CASE Down(r)
    BY <1>0, <1>3, DownStep DEF TypeOK
  <1>4. CASE /\ db[o] # Null
             /\ deletion' = [deletion EXCEPT ![r].got = [ref |-> o, obj |-> db[o]]]
             /\ UNCHANGED <<stream, mode, items>>
    <2> DEFINE g == [ref |-> o, obj |-> db[o]]
               d == [deletion[r] EXCEPT !.got = g]
    <2>1. o \in Refs
      BY <1>1 DEF Deletions
    <2>2. db[o] \in Entities
      BY <1>4, <2>1 DEF TypeOK
    <2>3. Spent(o)
      BY <1>4, <2>1 DEF MarksAreFinal, DbSpent
    <2>4. g \in Items /\ (g.obj.metadata.deleted => Over(g.ref))
      BY <2>1, <2>2, <2>3 DEF Items, Over
    <2>5. deletion' = [deletion EXCEPT ![r] = d]
      BY <1>4
    <2> HIDE DEF g
    <2>6. d \in Deletions /\ d.got = g
      BY <1>1, <2>4 DEF Deletions
    <2> HIDE DEF d
    <2>7. deletion' \in [Reflectors -> Deletions \cup {Null}]
      BY <2>5, <2>6 DEF TypeOK
    <2>8. OwnerSeenThen
      BY <1>0, <2>4, <2>5, <2>6, InnerKeeps
         DEF OwnerSeenThen, MarksAreFinal, OwnerSeen, Seen, TypeOK
    <2>9. StreamSeenThen /\ ItemsSeenThen
      BY <1>0, <1>4, InnerKeeps, PartsKept
    <2> QED BY <1>0, <1>4, <2>7, <2>8, <2>9, CoreKept, InnerStep DEF TypeOK
  <1> QED BY <1>2, <1>3, <1>4

\* GotOwner: the owner is offered as it was read.
LEMMA GotOwnerStep ==
    ASSUME TypeOK, MarksAreFinal, NEW r \in Reflectors, GotOwner(r)
    PROVE  TypeOK' /\ MarksAreFinal'
  <1> DEFINE gone == deletion[r]
             left == gone.left \ {gone.got.ref}
             d == [ref |-> gone.ref, left |-> left, got |-> Null]
  <1>0. Inner /\ UNCHANGED <<stream, mode, items, outages>>
    BY DEF GotOwner, Inner
  <1>1. gone \in Deletions /\ gone # Null /\ gone.got # Null
    BY DEF GotOwner, TypeOK
  <1>2. gone.got \in Items /\ Seen(gone.got.ref, gone.got.obj)
    BY <1>1 DEF Deletions, MarksAreFinal, OwnerSeen
  <1>3. gone.ref \in Refs /\ gone.got.ref \in Refs /\ gone.got.obj \in Entities
    BY <1>1, <1>2 DEF Deletions, Items
  <1>4. d \in Deletions /\ d.got = Null
    BY <1>1 DEF Deletions
  <1>5. SimpleOnReceive(gone.got.ref, gone.got.obj)
    BY DEF GotOwner
  <1>6. \/ deletion' = [deletion EXCEPT ![r] = Null] /\ RemoveFromGraph(gone.ref)
        \/ deletion' = [deletion EXCEPT ![r] = d] /\ UNCHANGED <<graph, work>>
    BY DEF GotOwner
  <1> HIDE DEF gone, d
  <1>7. pending' \in [Refs -> Entities \cup {Null}] /\ UNCHANGED holding /\ PendingFinalThen
    BY <1>0, <1>2, <1>3, <1>5, OfferGoes
  <1>8. /\ graph' \in [Refs -> Seq(Refs)]
        /\ work' \in [Workers -> Works \cup {Null}]
        /\ WorkFinalThen
    <2>1. CASE RemoveFromGraph(gone.ref)
      BY <1>0, <1>3, <1>7, <2>1, RemoveGoes
    <2>2. CASE UNCHANGED <<graph, work>>
      BY <1>0, <1>7, <2>2, InnerKeeps, PartsKept DEF TypeOK
    <2> QED BY <1>6, <2>1, <2>2
  <1>9. CoreGoes
    BY <1>7, <1>8 DEF CoreGoes, TypeOK
  <1>10. /\ deletion' \in [Reflectors -> Deletions \cup {Null}]
         /\ deletion'[r] = Null \/ deletion'[r].got = Null
         /\ \A q \in Reflectors \ {r} : deletion'[q] = deletion[q]
    BY <1>4, <1>6 DEF TypeOK
  <1>11. OwnerSeenThen
    BY <1>0, <1>10, InnerKeeps DEF OwnerSeenThen, MarksAreFinal, OwnerSeen, Seen
  <1>12. StreamSeenThen /\ ItemsSeenThen
    BY <1>0, InnerKeeps, PartsKept
  <1> QED BY <1>0, <1>9, <1>10, <1>11, <1>12, InnerStep DEF TypeOK

\* Disconnect and Reopen.
LEMMA ConnectionStep ==
    ASSUME TypeOK, MarksAreFinal, NEW r \in Reflectors, Disconnect(r) \/ Reopen(r)
    PROVE  TypeOK' /\ MarksAreFinal'
  <1>1. CASE Disconnect(r)
    <2>1. Inner /\ UNCHANGED <<graph, queueVars, work>> /\ Down(r)
      BY <1>1 DEF Disconnect, Inner
    <2>2. outages' \in 0..Outages
      BY <1>1, CollectorAssumption DEF Disconnect, TypeOK
    <2> QED BY <2>1, <2>2, DownStep
  <1>2. CASE Reopen(r)
    <2>1. Inner /\ UNCHANGED <<stream, items, deletion, graph, queueVars, work, outages>>
      BY <1>2 DEF Reopen, Inner
    <2>2. mode' \in [Reflectors -> {"down", "listing", "up"}]
      BY <1>2 DEF Reopen, TypeOK
    <2>3. StreamSeenThen /\ ItemsSeenThen /\ OwnerSeenThen
      BY <2>1, InnerKeeps, PartsKept
    <2> QED BY <2>1, <2>2, <2>3, CoreKept, InnerStep DEF TypeOK
  <1> QED BY <1>1, <1>2

\* List: the listing carries the resources as they are in the database.
LEMMA ListStep ==
    ASSUME TypeOK, MarksAreFinal, NEW r \in Reflectors, List(r)
    PROVE  TypeOK' /\ MarksAreFinal'
  <1> DEFINE L == {[ref |-> n, obj |-> db[n]] :
                     n \in {m \in Refs : KindOf[m] = r /\ db[m] # Null}}
  <1>0. Inner /\ UNCHANGED <<stream, deletion, graph, queueVars, work, outages>>
    BY DEF List, Inner
  <1>1. ASSUME NEW i \in L PROVE i \in Items /\ (i.obj.metadata.deleted => Over(i.ref))
    <2>1. PICK n \in Refs : db[n] # Null /\ i = [ref |-> n, obj |-> db[n]]
      OBVIOUS
    <2>2. db[n] \in Entities
      BY <2>1 DEF TypeOK
    <2>3. Spent(n)
      BY <2>1 DEF MarksAreFinal, DbSpent
    <2> QED BY <2>1, <2>2, <2>3 DEF Items, Over
  <1>2. items' = [items EXCEPT ![r] = L] /\ mode' = [mode EXCEPT ![r] = "up"]
    BY DEF List
  <1> HIDE DEF L
  <1>3. /\ items' \in [Reflectors -> SUBSET Items]
        /\ mode' \in [Reflectors -> {"down", "listing", "up"}]
    BY <1>1, <1>2 DEF TypeOK
  <1>4. ItemsSeenThen
    <2>1. ASSUME NEW q \in Reflectors, NEW i \in items'[q], i.obj.metadata.deleted
          PROVE  OverThen(i.ref)
      <3>1. CASE q = r
        BY <1>0, <1>1, <1>2, <2>1, <3>1, InnerKeeps DEF TypeOK
      <3>2. CASE q # r
        BY <1>0, <1>2, <2>1, <3>2, InnerKeeps DEF TypeOK, MarksAreFinal, ItemsSeen, Seen
      <3> QED BY <3>1, <3>2
    <2> QED BY <2>1 DEF ItemsSeenThen
  <1>5. StreamSeenThen /\ OwnerSeenThen
    BY <1>0, InnerKeeps, PartsKept
  <1> QED BY <1>0, <1>3, <1>4, <1>5, CoreKept, InnerStep DEF TypeOK

\* OnList: a listed resource is handled like a new one.
LEMMA OnListStep ==
    ASSUME TypeOK, MarksAreFinal, NEW r \in Reflectors, OnList(r)
    PROVE  TypeOK' /\ MarksAreFinal'
  <1>0. Inner /\ UNCHANGED <<stream, mode, deletion, outages>>
    BY DEF OnList, Inner
  <1>1. PICK i \in items[r] : /\ items' = [items EXCEPT ![r] = @ \ {i}]
                              /\ OnReceivedNew(i.ref, i.obj)
    BY DEF OnList
  <1>2. i \in Items /\ Seen(i.ref, i.obj)
    BY DEF TypeOK, MarksAreFinal, ItemsSeen
  <1>3. i.ref \in Refs /\ i.obj \in Entities
    BY <1>2 DEF Items
  <1>4. CoreGoes
    BY <1>0, <1>1, <1>2, <1>3, NewGoes
  <1>5. items' \in [Reflectors -> SUBSET Items] /\ \A q \in Reflectors : items'[q] \subseteq items[q]
    BY <1>1 DEF TypeOK
  <1>6. ItemsSeenThen
    BY <1>0, <1>5, InnerKeeps DEF ItemsSeenThen, MarksAreFinal, ItemsSeen, Seen
  <1>7. StreamSeenThen /\ OwnerSeenThen
    BY <1>0, InnerKeeps, PartsKept
  <1> QED BY <1>0, <1>4, <1>5, <1>6, <1>7, InnerStep DEF TypeOK

\* A step of a worker that sets its request to c.
LEMMA WorkGoes ==
    ASSUME TypeOK, MarksAreFinal, Inner, NEW w \in Workers, NEW c \in Works \cup {Null},
           work' = [work EXCEPT ![w] = c],
           \A v \in Workers \ {w} : holding'[v] = holding[v],
           c # Null => /\ holding'[w] \in Refs
                       /\ c.call = "update" => c.body # Null /\ Over(c.target)
    PROVE  work' \in [Workers -> Works \cup {Null}] /\ WorkFinalThen
  <1>1. work' \in [Workers -> Works \cup {Null}]
    BY DEF TypeOK
  <1>2. ASSUME NEW v \in Workers, work'[v] # Null
        PROVE  /\ holding'[v] \in Refs
               /\ work'[v].call = "update" => work'[v].body # Null /\ OverThen(work'[v].target)
    <2>1. CASE v = w
      BY <1>2, <2>1, InnerKeeps DEF TypeOK
    <2>2. CASE v # w
      BY <1>2, <2>2, InnerKeeps DEF TypeOK, MarksAreFinal, WorkFinal
    <2> QED BY <2>1, <2>2
  <1> QED BY <1>1, <1>2 DEF WorkFinalThen

\* Handle: what waited in the queue is in deletion for good.
LEMMA HandleStep ==
    ASSUME TypeOK, MarksAreFinal, NEW w \in Workers, NEW n \in Refs, Handle(w, n)
    PROVE  TypeOK' /\ MarksAreFinal'
  <1> DEFINE e == pending[n]
             b == BodyOf(e, Front(e.metadata.finalizers), e.metadata.owners)
             c == IF graph[n] # <<>> THEN Calling("delete", Head(graph[n]), Null, 2, Null)
                  ELSE Calling("update", n, b, 1, Null)
  <1>0. Inner /\ UNCHANGED <<reflectorVars, graph, outages>>
    BY DEF Handle, Inner
  <1>1. /\ pending' = [pending EXCEPT ![n] = Null]
        /\ holding' = [holding EXCEPT ![w] = n]
        /\ e # Null
    BY DEF Handle, Queue!Take
  <1>2. e \in Entities /\ Over(n)
    BY <1>1 DEF TypeOK, MarksAreFinal, PendingFinal
  <1>3. b \in Entities /\ b # Null
    BY <1>2, FrontTyped, BodyTyped, HandlersAssumption
  <1>4. work' = [work EXCEPT ![w] = c]
    BY DEF Handle
  <1> HIDE DEF b
  <1>5. c \in Works /\ (c.call = "update" => c.body # Null /\ Over(c.target))
    <2>1. CASE graph[n] # <<>>
      <3>1. Head(graph[n]) \in Refs
        BY <2>1 DEF TypeOK
      <3>2. c = Calling("delete", Head(graph[n]), Null, 2, Null)
        BY <2>1
      <3> QED BY <3>1, <3>2 DEF Calling, Works
    <2>2. CASE graph[n] = <<>>
      <3>1. c = Calling("update", n, b, 1, Null)
        BY <2>2
      <3> QED BY <1>2, <1>3, <3>1 DEF Calling, Works
    <2> QED BY <2>1, <2>2
  <1> HIDE DEF c
  <1>6. /\ pending' \in [Refs -> Entities \cup {Null}]
        /\ holding' \in [Workers -> Refs \cup {Null}]
        /\ holding'[w] = n /\ \A v \in Workers \ {w} : holding'[v] = holding[v]
    BY <1>1 DEF TypeOK
  <1>7. PendingFinalThen
    BY <1>0, <1>1, InnerKeeps DEF PendingFinalThen, MarksAreFinal, PendingFinal, TypeOK
  <1>8. work' \in [Workers -> Works \cup {Null}] /\ WorkFinalThen
    BY <1>0, <1>4, <1>5, <1>6, WorkGoes
  <1>9. CoreGoes
    BY <1>0, <1>6, <1>7, <1>8 DEF CoreGoes, TypeOK
  <1> QED BY <1>0, <1>9, ReflectorsKept DEF TypeOK

\* CallLost: the exception leaves everything else as it is.
LEMMA CallLostStep ==
    ASSUME TypeOK, MarksAreFinal, NEW w \in Workers, CallLost(w)
    PROVE  TypeOK' /\ MarksAreFinal'
  <1>0. Inner /\ UNCHANGED <<reflectorVars, graph, queueVars>> /\ work[w] # Null
    BY DEF CallLost, Inner
  <1>1. UNCHANGED <<pending, holding>>
    BY <1>0 DEF queueVars
  <1>2. outages' \in 0..Outages
    BY CollectorAssumption DEF CallLost, TypeOK
  <1>3. work' \in [Workers -> Works \cup {Null}] /\ WorkFinalThen
    BY <1>0, InnerKeeps, AnsweredTyped DEF CallLost
  <1>4. PendingFinalThen
    BY <1>0, <1>1, InnerKeeps, PartsKept
  <1>5. CoreGoes
    BY <1>0, <1>1, <1>3, <1>4 DEF CoreGoes, TypeOK
  <1> QED BY <1>0, <1>2, <1>5, ReflectorsKept

\* MarkNext: the next dependent is a resource.
LEMMA MarkNextStep ==
    ASSUME TypeOK, MarksAreFinal, NEW w \in Workers, MarkNext(w)
    PROVE  TypeOK' /\ MarksAreFinal'
  <1> DEFINE d == Dependents(w)
             c == Calling("delete", d[work[w].next], Null, work[w].next + 1, work[w].list)
  <1>0. Inner /\ UNCHANGED <<reflectorVars, graph, queueVars, outages>> /\ work[w] # Null
    BY DEF MarkNext, Inner
  <1>1. UNCHANGED <<pending, holding>>
    BY <1>0 DEF queueVars
  <1>2. work[w] \in Works /\ holding[w] \in Refs
    BY <1>0 DEF TypeOK, MarksAreFinal, WorkFinal
  <1>3. d \in Seq(Refs)
    <2>1. CASE work[w].list = Null
      BY <1>2, <2>1 DEF Dependents, TypeOK
    <2>2. CASE work[w].list # Null
      BY <1>2, <2>2 DEF Dependents, Works
    <2> QED BY <2>1, <2>2
  <1>4. work[w].next <= Len(d) /\ work' = [work EXCEPT ![w] = c]
    BY DEF MarkNext
  <1>5. work[w].next \in Nat \ {0} /\ work[w].list \in Seq(Refs) \cup {Null}
    BY <1>2 DEF Works
  <1> HIDE DEF d
  <1>6. d[work[w].next] \in Refs
    BY <1>3, <1>4, <1>5
  <1>7. c \in Works /\ c.call = "delete"
    BY <1>5, <1>6 DEF Calling, Works
  <1> HIDE DEF c
  <1>8. work' \in [Workers -> Works \cup {Null}] /\ WorkFinalThen
    BY <1>0, <1>1, <1>2, <1>4, <1>7, WorkGoes
  <1>9. PendingFinalThen
    BY <1>0, <1>1, InnerKeeps, PartsKept
  <1>10. CoreGoes
    BY <1>0, <1>1, <1>8, <1>9 DEF CoreGoes, TypeOK
  <1> QED BY <1>0, <1>10, ReflectorsKept DEF TypeOK

\* Finish: the worker is free.
LEMMA FinishStep ==
    ASSUME TypeOK, MarksAreFinal, NEW w \in Workers, Finish(w)
    PROVE  TypeOK' /\ MarksAreFinal'
  <1>0. Inner /\ UNCHANGED <<reflectorVars, graph, outages, pending>>
    BY DEF Finish, Inner, Queue!Release
  <1>1. holding' = [holding EXCEPT ![w] = Null] /\ work' = [work EXCEPT ![w] = Null]
    BY DEF Finish, Queue!Release
  <1>2. holding' \in [Workers -> Refs \cup {Null}]
          /\ \A v \in Workers \ {w} : holding'[v] = holding[v]
    BY <1>1 DEF TypeOK
  <1>3. work' \in [Workers -> Works \cup {Null}] /\ WorkFinalThen
    BY <1>0, <1>1, <1>2, WorkGoes
  <1>4. PendingFinalThen
    BY <1>0, InnerKeeps, PartsKept
  <1>5. CoreGoes
    BY <1>0, <1>2, <1>3, <1>4 DEF CoreGoes, TypeOK
  <1> QED BY <1>0, <1>5, ReflectorsKept DEF TypeOK

-----------------------------------------------------------------------------
(* The invariant                                                           *)

\* What waits or is handled is over, so it is gone or marked.
LEMMA FinalIsInDeletion ==
    ASSUME MarksAreFinal PROVE OnlyInDeletion
  BY DEF MarksAreFinal, PendingFinal, WorkFinal, OnlyInDeletion, Over

\* The start: the collector knows what is present, and nothing is marked.
LEMMA CollectorInit ==
    ASSUME Init PROVE TypeOK /\ MarksAreFinal
  <1>1. scenario \in Scenarios /\ scenario \in AllScenarios
    BY CollectorAssumption DEF Init
  <1>2. /\ scenario.owners \in [Refs -> SUBSET Refs] /\ scenario.present \subseteq Refs
        /\ scenario.outages \in 0..Outages
    BY <1>1 DEF AllScenarios
  <1>3. \A n \in Refs : Created(n, scenario.owners[n]) \in Entities
    BY <1>2, CreatedTyped
  <1>4. db \in [Refs -> Entities \cup {Null}]
    BY <1>3 DEF Init
  <1>5. graph \in [Refs -> Seq(Refs)]
    <2>1. ASSUME NEW o \in Refs
          PROVE  SetToSeq({n \in scenario.present : o \in scenario.owners[n]}) \in Seq(Refs)
      <3>1. {n \in scenario.present : o \in scenario.owners[n]} \subseteq Refs
        BY <1>2
      <3> QED BY <3>1, ListOfTyped
    <2> QED BY <2>1 DEF Init
  <1>6. TypeOK
    BY <1>1, <1>2, <1>4, <1>5 DEF Init, TypeOK, Queue!AbsInit
  <1>7. DbSpent
    BY DEF Init, DbSpent, Spent
  <1>8. StreamSeen /\ ItemsSeen /\ OwnerSeen
    BY DEF Init, StreamSeen, ItemsSeen, OwnerSeen
  <1>9. PendingFinal /\ WorkFinal
    BY DEF Init, PendingFinal, WorkFinal, Queue!AbsInit
  <1> QED BY <1>6, <1>7, <1>8, <1>9 DEF MarksAreFinal

\* Whatever connections fail, whoever forces deletions and however late the copies are
\* that the collector works with, what it puts into its queue and what its workers remove
\* the finalizer from is in deletion for good (CollectorInv).
THEOREM CollectorInvariant == Spec => []CollectorInv
  <1>1. Init => CollectorInv
    BY CollectorInit, FinalIsInDeletion DEF CollectorInv
  <1>2. CollectorInv /\ [Next]_vars => CollectorInv'
    <2> SUFFICES ASSUME CollectorInv, [Next]_vars PROVE CollectorInv'
      OBVIOUS
    <2>0. TypeOK /\ MarksAreFinal
      BY DEF CollectorInv
    <2>1. TypeOK' /\ MarksAreFinal'
      <3>1. CASE \E i \in intents : Ask(i)
        BY <2>0, <3>1, AskStep
      <3>2. CASE \E n \in Refs : Finalize(n)
        BY <2>0, <3>2, FinalizeStep
      <3>3. CASE \E r \in Reflectors : OnEvent(r) \/ ReadOwner(r) \/ GotOwner(r)
        BY <2>0, <3>3, OnEventStep, ReadOwnerStep, GotOwnerStep
      <3>4. CASE \E r \in Reflectors : Disconnect(r) \/ Reopen(r) \/ List(r) \/ OnList(r)
        BY <2>0, <3>4, ConnectionStep, ListStep, OnListStep
      <3>5. CASE \E w \in Workers : \E n \in Refs : Handle(w, n)
        BY <2>0, <3>5, HandleStep
      <3>6. CASE \E w \in Workers : Serve(w) \/ CallLost(w) \/ MarkNext(w) \/ Finish(w)
        BY <2>0, <3>6, ServeStep, CallLostStep, MarkNextStep, FinishStep
      <3>7. CASE UNCHANGED vars
        <4>1. Inner /\ UNCHANGED <<reflectorVars, graph, queueVars, work, outages>>
          BY <3>7 DEF vars, Inner
        <4> QED BY <2>0, <4>1, CoreKept, ReflectorsKept DEF TypeOK
      <3> QED BY <3>1, <3>2, <3>3, <3>4, <3>5, <3>6, <3>7 DEF Next
    <2>2. MarksAreFinal' => OnlyInDeletion'
      BY DEF MarksAreFinal, PendingFinal, WorkFinal, OnlyInDeletion, Over
    <2> QED BY <2>1, <2>2 DEF CollectorInv
  <1> QED BY <1>1, <1>2, PTL DEF Spec
=============================================================================
