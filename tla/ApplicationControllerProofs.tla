-------------------- MODULE ApplicationControllerProofs --------------------
(***************************************************************************)
(* Proofs about ApplicationController, for any number of clusters, objects *)
(* and versions under way, and any scenario: the invariant that the        *)
(* handlers rely on; that objects are created only while the finalizer of  *)
(* the controller is in the database; and, in sheltered scenarios, that    *)
(* the objects are on one cluster, which owns the application.  For the    *)
(* latter, an application without the finalizer has no objects; until it   *)
(* is deleted, every copy of it explains what exists; and once it is in    *)
(* deletion, every copy knows what is left.                                *)
(***************************************************************************)
EXTENDS ApplicationController, TLAPS

-----------------------------------------------------------------------------
(* Copies of an application                                                *)

\* Changes of the status of a copy leave its metadata alone.
SameMeta(a, b) == b \in Apps /\ b.finalizers = a.finalizers /\ b.deleted = a.deleted

\* update_last_applied_manifest_from_spec, _delete_manifest_async and the states a
\* handler sets do not touch the finalizers or the deletion mark of a copy.
LEMMA CopiesTyped ==
    ASSUME NEW a \in Apps
    PROVE  /\ SameMeta(a, UpdateLastApplied(a))
           /\ SameMeta(a, Leave(a))
           /\ SameMeta(a, Running(a))
           /\ SameMeta(a, Migrated(a))
  <1>1. SameMeta(a, UpdateLastApplied(a))
    BY DEF SameMeta, UpdateLastApplied, Apps, Statuses
  <1>2. SameMeta(a, Leave(a))
    BY DEF SameMeta, Leave, Apps, Statuses, Places
  <1>3. SameMeta(a, Running(a))
    BY DEF SameMeta, Running, Apps, Statuses, States
  <1>4. SameMeta(a, Migrated(a))
    BY <1>3 DEF SameMeta, Migrated, Running, Apps, Statuses, States
  <1> QED BY <1>1, <1>2, <1>3, <1>4

\* The copy that a status update sends is that of the coroutine, but for the status.
LEMMA MarkedTyped ==
    ASSUME NEW w \in Coroutines
    PROVE  SameMeta(IF w.pc = "failed" THEN w.orig ELSE w.app, Marked(w))
  <1>1. w.app \in Apps /\ w.orig \in Apps
    BY DEF Coroutines
  <1>2. \A a \in Apps : \A st \in States : SameMeta(a, [a EXCEPT !.status.state = st])
    BY DEF SameMeta, Apps, Statuses
  <1>3. \A a \in Apps : SameMeta(a, [a EXCEPT !.status.grace = TRUE])
    BY DEF SameMeta, Apps, Statuses
  <1>4. \A a \in Apps : SameMeta(a, a)
    BY DEF SameMeta
  <1> QED BY <1>1, <1>2, <1>3, <1>4 DEF Marked, States

\* Removing the last finalizer leaves a sequence of finalizers, with every other one.
LEMMA FrontTyped ==
    ASSUME NEW s \in Seq({Guard, Cascade})
    PROVE  /\ Front(s) \in Seq({Guard, Cascade})
           /\ s # <<>> /\ Last(s) = Cascade /\ Guard \in ToSet(s) => Guard \in ToSet(Front(s))
           /\ Guard \in ToSet(Append(s, Guard))
           /\ \A f \in {Guard, Cascade} :
                Append(s, f) \in Seq({Guard, Cascade}) /\ ToSet(s) \subseteq ToSet(Append(s, f))
  <1>1. Front(s) \in Seq({Guard, Cascade})
    BY DEF Front
  <1>2. s # <<>> /\ Last(s) = Cascade /\ Guard \in ToSet(s) => Guard \in ToSet(Front(s))
    <2> SUFFICES ASSUME s # <<>>, Last(s) = Cascade, Guard \in ToSet(s)
                 PROVE  Guard \in ToSet(Front(s))
      OBVIOUS
    <2>1. PICK i \in 1..Len(s) : s[i] = Guard
      BY DEF ToSet
    <2>2. i # Len(s)
      BY <2>1 DEF Last, Guard, Cascade
    <2>3. i \in DOMAIN Front(s) /\ Front(s)[i] = s[i]
      BY <2>1, <2>2 DEF Front
    <2> QED BY <2>1, <2>3 DEF ToSet
  <1>3. Guard \in ToSet(Append(s, Guard))
    BY DEF ToSet
  <1>4. ASSUME NEW f \in {Guard, Cascade}
        PROVE  Append(s, f) \in Seq({Guard, Cascade}) /\ ToSet(s) \subseteq ToSet(Append(s, f))
    BY <1>4 DEF ToSet
  <1> QED BY <1>1, <1>2, <1>3, <1>4

-----------------------------------------------------------------------------
(* Coroutines                                                              *)

\* What a coroutine keeps on its way: the version it was started with, and, in a
\* migration, the finalizers that it writes back at the end.
Goes(w, v) ==
    /\ v \in Coroutines /\ Phases(v)
    /\ v.orig = w.orig /\ v.job = w.job
    /\ v.app.finalizers = w.app.finalizers \/ v.job # "migrate"
    /\ Creating(v) => Creating(w)

\* A record of a coroutine is changed in one or two components.
LEMMA CoroutineTyped ==
    ASSUME NEW w \in Coroutines, NEW pc \in Points, NEW a \in Apps
    PROVE  /\ [w EXCEPT !.pc = pc] \in Coroutines
           /\ [w EXCEPT !.pc = pc, !.app = a] \in Coroutines
           /\ [w EXCEPT !.pc = pc, !.app = a, !.old = a] \in Coroutines
  BY DEF Coroutines

\* _delete_manifest_async is left with a copy that keeps its metadata (the deletion
\* alone drops the finalizer), or in an error.
LEMMA RemovedTyped ==
    ASSUME NEW w \in Coroutines, Phases(w), w.pc = "remove"
    PROVE  Goes(w, Removed(w)) /\ Removed(w).pc \in {"apply", "status", "error"}
  <1>1. /\ w.app \in Apps /\ w.old \in Apps \cup {Null}
        /\ w.job \in {"reconcile", "migrate", "delete", "volumes", "rollback"}
        /\ w.job = "rollback" => w.old \in Apps
    BY DEF Coroutines, Phases, Jobs
  <1>2. CASE w.job # "reconcile"
              /\ Vacated(w).status.running_on \notin Vacated(w).owners \cup {Null}
    <2>1. Removed(w) = [w EXCEPT !.pc = "error"]
      BY <1>2 DEF Removed
    <2> QED BY <1>1, <1>2, <2>1 DEF Goes, Coroutines, Points, Phases, Creating
  <1>3. CASE ~(w.job # "reconcile"
                 /\ Vacated(w).status.running_on \notin Vacated(w).owners \cup {Null})
    <2>1. CASE w.job = "reconcile"
      <3>1. Removed(w) = [w EXCEPT !.pc = "apply"]
        BY <1>3, <2>1 DEF Removed
      <3> QED BY <2>1, <3>1 DEF Goes, Coroutines, Points, Phases, Creating
    <2>2. CASE w.job = "migrate"
      <3> DEFINE a == UpdateLastApplied(Leave(w.app))
      <3>1. Removed(w) = [w EXCEPT !.pc = "apply", !.app = a]
        BY <1>3, <2>2 DEF Removed
      <3>2. SameMeta(w.app, a)
        BY <1>1, CopiesTyped DEF SameMeta
      <3> HIDE DEF a
      <3> QED BY <2>2, <3>1, <3>2 DEF Goes, Coroutines, Points, Phases, Creating, SameMeta
    <2>3. CASE w.job = "delete"
      <3> DEFINE a == [Leave(w.app) EXCEPT !.finalizers = Front(@)]
      <3>1. Removed(w) = [w EXCEPT !.pc = "status", !.app = a]
        BY <1>3, <2>3 DEF Removed
      <3>2. Leave(w.app) \in Apps
        BY <1>1, CopiesTyped DEF SameMeta
      <3>3. a \in Apps
        BY <3>2, FrontTyped DEF Apps
      <3> HIDE DEF a
      <3> QED BY <2>3, <3>1, <3>3 DEF Goes, Coroutines, Points, Phases, Creating
    <2>4. CASE w.job = "volumes"
      <3> DEFINE a == Migrated(w.app)
      <3>1. Removed(w) = [w EXCEPT !.pc = "status", !.app = a]
        BY <1>3, <2>4 DEF Removed
      <3>2. a \in Apps
        BY <1>1, CopiesTyped DEF SameMeta
      <3> HIDE DEF a
      <3> QED BY <2>4, <3>1, <3>2 DEF Goes, Coroutines, Points, Phases, Creating
    <2>5. CASE w.job = "rollback"
      <3> DEFINE a == [Migrated(w.old) EXCEPT !.status.scheduled_to = w.old.status.running_on]
      <3>1. Removed(w) = [w EXCEPT !.pc = "status", !.app = a]
        BY <1>3, <2>5 DEF Removed
      <3>2. Migrated(w.old) \in Apps /\ w.old.status.running_on \in Places
        BY <1>1, <2>5, CopiesTyped DEF SameMeta, Apps, Statuses
      <3>3. a \in Apps
        BY <3>2 DEF Apps, Statuses
      <3> HIDE DEF a
      <3> QED BY <2>5, <3>1, <3>3 DEF Goes, Coroutines, Points, Phases, Creating
    <2> QED BY <1>1, <2>1, <2>2, <2>3, <2>4, <2>5
  <1> QED BY <1>2, <1>3

\* _apply_manifest leaves the application running where it was scheduled to.
LEMMA AppliedTyped ==
    ASSUME NEW w \in Coroutines, Phases(w), w.pc = "apply"
    PROVE  Goes(w, Applied(w))
  <1> DEFINE here == [w.app EXCEPT !.status.running_on = w.app.status.scheduled_to]
  <1>1. w.job \in {"reconcile", "migrate", "volumes"}
    BY DEF Coroutines, Phases, Jobs
  <1>2. SameMeta(w.app, here)
    BY DEF SameMeta, Coroutines, Apps, Statuses
  <1> HIDE DEF here
  <1>3. SameMeta(w.app, Running(here)) /\ SameMeta(w.app, Migrated(here))
    BY <1>2, CopiesTyped DEF SameMeta
  <1>4. Applied(w) = CASE w.job = "reconcile" -> [w EXCEPT !.pc = "status", !.app = Running(here)]
                       [] w.job = "migrate"   -> [w EXCEPT !.pc = "status", !.app = Migrated(here)]
                       [] w.job = "volumes"   -> [w EXCEPT !.pc = "transfer", !.app = here]
    BY DEF Applied, here
  <1>5. CASE w.job = "reconcile"
    BY <1>3, <1>4, <1>5 DEF Goes, Coroutines, Points, Phases, Creating, SameMeta
  <1>6. CASE w.job = "migrate"
    BY <1>3, <1>4, <1>6 DEF Goes, Coroutines, Points, Phases, Creating, SameMeta
  <1>7. CASE w.job = "volumes"
    BY <1>2, <1>4, <1>7 DEF Goes, Coroutines, Points, Phases, Creating, SameMeta
  <1> QED BY <1>1, <1>5, <1>6, <1>7

\* The code between two requests keeps what Goes says.
LEMMA SettledTyped ==
    ASSUME NEW w \in Coroutines, Phases(w)
    PROVE  Goes(w, Settled(w))
  <1> DEFINE r == IF w.pc = "remove" /\ w.rm = {} THEN Removed(w) ELSE w
  <1>1. Goes(w, r)
    BY RemovedTyped DEF Goes
  <1> HIDE DEF r
  <1>2. r.pc = "apply" => Goes(r, Applied(r))
    BY <1>1, AppliedTyped DEF Goes
  <1>3. r.pc = "apply" => Goes(w, Applied(r))
    BY <1>1, <1>2 DEF Goes
  <1>4. Settled(w) = IF r.pc = "apply" /\ r.add = {} THEN Applied(r) ELSE r
    BY DEF Settled, r
  <1> QED BY <1>1, <1>3, <1>4

\* What resource_received starts with a version: the jobs that create objects with one
\* that is not in deletion, and a deletion with one that is.
LEMMA DispatchTyped ==
    ASSUME NEW a \in Apps, Dispatch(a) # Null
    PROVE  LET w == Dispatch(a) IN
           /\ w \in Coroutines /\ Phases(w)
           /\ w.orig = a /\ SameMeta(a, w.app)
           /\ w.app = a \/ w.app = UpdateLastApplied(a)
           /\ w.job = "shutdown" => Hooked
           /\ w.job = "delete" => a.deleted
           /\ w.job \in {"reconcile", "migrate", "volumes", "rollback"} => ~a.deleted
           /\ Creating(w) => Guard \in ToSet(a.finalizers)
  <1>1. \A job \in Jobs, pc \in Points, rm, add \in SUBSET Objects :
          Coroutine(job, pc, a, rm, add) \in Coroutines
    BY DEF Coroutine, Coroutines
  <1>2. /\ a.status.observed \in SUBSET Objects /\ a.manifest \in SUBSET Objects
        /\ ResourceDelta(a).new \in SUBSET Objects
        /\ ResourceDelta(a).deleted \in SUBSET Objects
    BY DEF Apps, Statuses, ResourceDelta
  <1> DEFINE Begun(job, pc, rm, add) ==
               IF job = "reconcile" /\ pc # "failed"
                 THEN [Coroutine(job, pc, a, rm, add) EXCEPT !.app = UpdateLastApplied(a)]
               ELSE Coroutine(job, pc, a, rm, add)
  <1>3. \A job \in Jobs, pc \in Points, rm, add \in SUBSET Objects :
          LET w == Begun(job, pc, rm, add) IN
          /\ w \in Coroutines /\ w.job = job /\ w.pc = pc /\ w.orig = a
          /\ w.app = a \/ w.app = UpdateLastApplied(a)
    <2> SUFFICES ASSUME NEW job \in Jobs, NEW pc \in Points,
                        NEW rm \in SUBSET Objects, NEW add \in SUBSET Objects
                 PROVE  LET w == Begun(job, pc, rm, add) IN
                        /\ w \in Coroutines /\ w.job = job /\ w.pc = pc /\ w.orig = a
                        /\ w.app = a \/ w.app = UpdateLastApplied(a)
      OBVIOUS
    <2> DEFINE w == Coroutine(job, pc, a, rm, add)
    <2>1. w \in Coroutines /\ w.job = job /\ w.pc = pc /\ w.orig = a /\ w.app = a
      BY <1>1 DEF Coroutine
    <2>2. UpdateLastApplied(a) \in Apps
      BY CopiesTyped DEF SameMeta
    <2> HIDE DEF w
    <2>3. [w EXCEPT !.app = UpdateLastApplied(a)] \in Coroutines
      BY <2>1, <2>2 DEF Coroutines
    <2> QED BY <2>1, <2>2, <2>3 DEF Coroutines, w
  <1>4. FirstPoint(a) \in {"mark", "finalizer"}
          /\ (FirstPoint(a) = "mark" => Guard \in ToSet(a.finalizers))
    BY DEF FirstPoint
  <1> DEFINE s == a.status
             moved == s.running_on # Null /\ s.running_on # s.scheduled_to
             Starts(job, pc) == \E rm, add \in SUBSET Objects :
                                  Dispatch(a) = Begun(job, pc, rm, add)
  <1>5. \/ Hooked /\ (Starts("shutdown", "mark") \/ Starts("shutdown", "trigger"))
        \/ a.deleted /\ Starts("delete", "mark")
        \/ /\ ~a.deleted
           /\ \/ Starts("volumes", "read") \/ Starts("migrate", FirstPoint(a))
              \/ Starts("reconcile", FirstPoint(a)) \/ Starts("reconcile", "failed")
    <2>1. CASE a.deleted /\ Hooked /\ s.state = "WAITING_FOR_CLEANING"
      <3>1. Dispatch(a) = Coroutine("shutdown", "trigger", a, {}, {})
        BY <2>1 DEF Dispatch
      <3> QED BY <2>1, <3>1
    <2>2. CASE a.deleted /\ (~Hooked \/ s.state = "READY_FOR_ACTION")
      <3>1. Dispatch(a) = Coroutine("delete", "mark", a,
                                    IF s.running_on = Null THEN {} ELSE s.observed, {})
        BY <2>2 DEF Dispatch
      <3> QED BY <1>2, <2>2, <3>1
    <2>3. CASE ~a.deleted /\ moved /\ Hooked /\ s.state \in {"RUNNING", "RECONCILING"}
      <3>1. Dispatch(a) = Coroutine("shutdown", "mark", a, {}, {})
        BY <2>3 DEF Dispatch
      <3> QED BY <2>3, <3>1
    <2>4. CASE ~a.deleted /\ moved /\ Hooked /\ s.state = "WAITING_FOR_CLEANING"
      <3>1. Dispatch(a) = Coroutine("shutdown", "trigger", a, {}, {})
        BY <2>4 DEF Dispatch
      <3> QED BY <2>4, <3>1
    <2>5. CASE ~a.deleted /\ moved /\ (~Hooked \/ s.state = "READY_FOR_ACTION")
      <3>1. Dispatch(a) = IF scenario.volumes THEN Coroutine("volumes", "read", a, {}, {})
                          ELSE Coroutine("migrate", FirstPoint(a), a, s.observed, a.manifest)
        BY <2>5 DEF Dispatch
      <3>2. CASE scenario.volumes
        BY <2>5, <3>1, <3>2
      <3>3. CASE ~scenario.volumes
        BY <1>2, <2>5, <3>1, <3>3
      <3> QED BY <3>2, <3>3
    <2>6. CASE ~a.deleted /\ ~moved
      <3> DEFINE delta == ResourceDelta(a)
      <3>1. Dispatch(a) = IF s.scheduled_to = Null
                            THEN Coroutine("reconcile", "failed", a, {}, {})
                          ELSE [Coroutine("reconcile", FirstPoint(a), a, delta.deleted, delta.new)
                                  EXCEPT !.app = UpdateLastApplied(a)]
        BY <2>6 DEF Dispatch
      <3>2. CASE s.scheduled_to = Null
        BY <2>6, <3>1, <3>2
      <3>3. CASE s.scheduled_to # Null
        <4>1. Dispatch(a) = Begun("reconcile", FirstPoint(a), delta.deleted, delta.new)
          BY <1>4, <3>1, <3>3
        <4> HIDE DEF s, moved
        <4> QED BY <1>2, <2>6, <4>1
      <3> QED BY <3>2, <3>3
    <2> QED BY <2>1, <2>2, <2>3, <2>4, <2>5, <2>6 DEF Dispatch
  <1>6. \A job \in Jobs, pc \in Points : Starts(job, pc) =>
          LET w == Dispatch(a) IN
          /\ w \in Coroutines /\ w.orig = a /\ SameMeta(a, w.app) /\ w.job = job /\ w.pc = pc
          /\ w.app = a \/ w.app = UpdateLastApplied(a)
    <2>1. SameMeta(a, a) /\ SameMeta(a, UpdateLastApplied(a))
      BY CopiesTyped DEF SameMeta
    <2> HIDE DEF Begun
    <2> QED BY <1>3, <2>1
  <1>7. PICK job \in Jobs, pc \in Points :
          /\ Starts(job, pc)
          /\ \/ job = "shutdown" /\ Hooked /\ pc \in {"mark", "trigger"}
             \/ job = "delete" /\ pc = "mark" /\ a.deleted
             \/ job = "volumes" /\ pc = "read" /\ ~a.deleted
             \/ job \in {"migrate", "reconcile"} /\ pc = FirstPoint(a) /\ ~a.deleted
             \/ job = "reconcile" /\ pc = "failed" /\ ~a.deleted
    <2> HIDE DEF Starts
    <2> QED BY <1>4, <1>5 DEF Jobs, Points
  <1>8. LET w == Dispatch(a) IN
        /\ w \in Coroutines /\ w.orig = a /\ SameMeta(a, w.app) /\ w.job = job /\ w.pc = pc
        /\ w.app = a \/ w.app = UpdateLastApplied(a)
    BY <1>6, <1>7
  <1> QED BY <1>4, <1>7, <1>8 DEF Phases, Creating

-----------------------------------------------------------------------------
(* Writes to the database                                                  *)

\* A write leaves an application in deletion there, and is sent to the reflector
\* unless it removes the application.
Advances ==
    /\ db' \in Apps \cup {Null}
    /\ stream' = stream \/ (db' # Null /\ stream' = Append(stream, db'))
    /\ Gone => Gone'
    /\ UNCHANGED scenario
\* One that also keeps the finalizer of the controller
Keeps == Advances /\ (Guarded => Guarded')

\* Any version stored in place of the present one, with its deletion mark and the
\* finalizer of the controller
LEMMA SaveKeeps ==
    ASSUME TypeOK, NEW a \in Apps, db # Null, Save(a), db.deleted => a.deleted,
           UNCHANGED scenario
    PROVE  /\ Advances
           /\ (Guard \in ToSet(db.finalizers) => Guard \in ToSet(a.finalizers)) => Keeps
           /\ Guard \in ToSet(a.finalizers) => Guarded'
  <1>1. Null \notin Apps
    BY ApplicationAssumption
  <1> QED BY <1>1 DEF Save, Advances, Keeps, Gone, Guarded

\* update_application_status changes nothing but the status.
LEMMA UpdateStatusKeeps ==
    ASSUME TypeOK, NEW st \in Statuses, UpdateStatus(st), UNCHANGED scenario
    PROVE  Keeps
  <1> DEFINE a == [db EXCEPT !.status = st]
  <1>1. db # Null /\ db \in Apps /\ Save(a)
    BY DEF UpdateStatus, TypeOK
  <1>2. a \in Apps /\ a.deleted = db.deleted /\ a.finalizers = db.finalizers
    BY <1>1 DEF Apps
  <1> QED BY <1>1, <1>2, SaveKeeps

\* update_application stores the finalizers it is given, and removes an application
\* in deletion that has none left.
LEMMA UpdateApplicationKeeps ==
    ASSUME TypeOK, NEW b \in Apps, UpdateApplication(b), UNCHANGED scenario
    PROVE  /\ Advances
           /\ Guard \in ToSet(b.finalizers) => Guarded' /\ Keeps
           /\ (Guard \in ToSet(db.finalizers) => Guard \in ToSet(b.finalizers)) => Keeps
  <1>1. db # Null /\ db \in Apps
    BY DEF UpdateApplication, Allowed, TypeOK
  <1>2. CASE db.deleted /\ b.finalizers = <<>>
    <2>1. Erase /\ ToSet(b.finalizers) = {}
      BY <1>2 DEF UpdateApplication, ToSet
    <2> QED BY <2>1, <1>1 DEF Erase, Advances, Keeps, Gone, Guarded
  <1>3. CASE ~(db.deleted /\ b.finalizers = <<>>)
    <2> DEFINE a == [db EXCEPT !.finalizers = b.finalizers, !.owners = b.owners,
                               !.manifest = b.manifest, !.modified = @ + 1]
    <2>1. Save(a)
      BY <1>3 DEF UpdateApplication
    <2>2. db.modified + 1 \in Nat
      BY <1>1 DEF Apps
    <2>3. a \in Apps /\ a.deleted = db.deleted /\ a.finalizers = b.finalizers
      <3> DEFINE n == db.modified + 1
      <3>1. a = [db EXCEPT !.finalizers = b.finalizers, !.owners = b.owners,
                           !.manifest = b.manifest, !.modified = n]
        OBVIOUS
      <3>2. n \in Nat
        BY <2>2
      <3> HIDE DEF a, n
      <3> QED BY <1>1, <3>1, <3>2 DEF Apps
    <2> HIDE DEF a
    <2> QED BY <1>1, <2>1, <2>3, SaveKeeps DEF Keeps
  <1> QED BY <1>2, <1>3

\* What a write and a step of the worker may do to the versions under way
LEMMA VersionsKept ==
    ASSUME AppInv, Advances, UNCHANGED pending,
           NEW w, w = proc["worker"], NEW v, v = proc'["worker"],
           v # Null => w # Null /\ v.orig = w.orig /\ (v.job = "delete" => w.job = "delete"),
           WorkerReleases =>
             /\ v # Null /\ Creating(v) =>
                  Guarded' /\ (v.job = "migrate" => Guard \in ToSet(v.app.finalizers))
             /\ (Guarded => Guarded') \/ (v = Null /\ w # Null /\ w.orig.deleted)
    PROVE  DeletionIsLast' /\ FinalizerHeld'
  <1>1. stream \in Seq(Apps) /\ stream' \in Seq(Apps)
    BY DEF AppInv, TypeOK, Advances
  <1>2. \A i \in DOMAIN stream' :
          \/ i \in DOMAIN stream /\ stream'[i] = stream[i]
          \/ i \notin DOMAIN stream /\ i > Len(stream) /\ stream'[i] = db' /\ db' # Null
    BY <1>1 DEF Advances
  <1>3. DOMAIN stream = 1 .. Len(stream) /\ DOMAIN stream' \subseteq Nat
    BY <1>1
  <1>4. DeletionIsLast'
    <2>1. ASSUME NEW i \in DOMAIN stream', NEW j \in DOMAIN stream', i < j, stream'[i].deleted
          PROVE  stream'[j].deleted
      BY <1>2, <1>3, <2>1 DEF AppInv, DeletionIsLast, Advances, Gone
    <2>2. ASSUME NEW i \in DOMAIN stream', stream'[i].deleted
          PROVE  Gone'
      BY <1>2, <2>2 DEF AppInv, DeletionIsLast, Advances, Gone
    <2>3. ASSUME pending' # Null, pending'.deleted
          PROVE  Gone' /\ \A i \in DOMAIN stream' : stream'[i].deleted
      BY <1>2, <2>3 DEF AppInv, DeletionIsLast, Advances, Gone
    <2>4. ASSUME v # Null
          PROVE  /\ v.job = "delete" => v.orig.deleted
                 /\ v.orig.deleted =>
                      /\ Gone'
                      /\ \A i \in DOMAIN stream' : stream'[i].deleted
                      /\ pending' # Null => pending'.deleted
      BY <1>2, <2>4 DEF AppInv, DeletionIsLast, Advances, Gone
    <2> QED BY <2>1, <2>2, <2>3, <2>4 DEF DeletionIsLast
  <1>5. FinalizerHeld'
    <2> SUFFICES ASSUME WorkerReleases' PROVE
          /\ \A i \in DOMAIN stream' :
               ~stream'[i].deleted /\ Guard \in ToSet(stream'[i].finalizers) => Guarded'
          /\ pending' # Null /\ ~pending'.deleted /\ Guard \in ToSet(pending'.finalizers) => Guarded'
          /\ v # Null /\ Creating(v) =>
               Guarded' /\ (v.job = "migrate" => Guard \in ToSet(v.app.finalizers))
      BY DEF FinalizerHeld
    <2>1. WorkerReleases
      BY DEF WorkerReleases, Advances
    <2>2. CASE Guarded => Guarded'
      <3>1. ASSUME NEW i \in DOMAIN stream', ~stream'[i].deleted,
                   Guard \in ToSet(stream'[i].finalizers)
            PROVE  Guarded'
        BY <1>2, <2>1, <2>2, <3>1 DEF AppInv, FinalizerHeld, Guarded
      <3>2. ASSUME pending' # Null, ~pending'.deleted, Guard \in ToSet(pending'.finalizers)
            PROVE  Guarded'
        BY <2>1, <2>2, <3>2 DEF AppInv, FinalizerHeld
      <3> QED BY <2>1, <3>1, <3>2
    <2>3. CASE v = Null /\ w # Null /\ w.orig.deleted
      <3>1. /\ \A i \in DOMAIN stream : stream[i].deleted
            /\ pending # Null => pending.deleted
            /\ Gone
        BY <2>3 DEF AppInv, DeletionIsLast
      <3>2. \A i \in DOMAIN stream' : stream'[i].deleted
        BY <1>2, <3>1 DEF Advances, Gone
      <3> QED BY <2>3, <3>1, <3>2
    <2> QED BY <2>1, <2>2, <2>3
  <1> QED BY <1>4, <1>5

\* The versions under way stay versions of the application.
LEMMA AdvancesTyped ==
    ASSUME TypeOK, Advances
    PROVE  stream' \in Seq(Apps) /\ db' \in Apps \cup {Null} /\ scenario' \in Scenarios
  BY DEF TypeOK, Advances

\* What a step does to everything but the database, the queue and the coroutines
RestTyped ==
    /\ objects' \in [Clusters -> SUBSET Objects]
    /\ observer' \in Observers \cup {Null}
    /\ sched' \in Apps \cup {Null}
    /\ left' \in [Kinds -> Nat]

\* A write by someone else than the controller's coroutines
LEMMA OthersWrite ==
    ASSUME AppInv, RestTyped, Keeps, UNCHANGED <<pending, proc>>
    PROVE  AppInv'
  <1>1. TypeOK'
    BY AdvancesTyped DEF AppInv, TypeOK, RestTyped, Keeps
  <1>2. JobsInPhase'
    BY DEF AppInv, JobsInPhase, Keeps, Advances, Hooked
  <1>3. DeletionIsLast' /\ FinalizerHeld'
    <2> DEFINE w == proc["worker"]
    <2>1. proc'["worker"] = w
      OBVIOUS
    <2>2. WorkerReleases => (w # Null /\ Creating(w) =>
             Guarded' /\ (w.job = "migrate" => Guard \in ToSet(w.app.finalizers)))
      BY DEF AppInv, FinalizerHeld, Keeps
    <2>3. Advances /\ (Guarded => Guarded')
      BY DEF Keeps
    <2> HIDE DEF w
    <2> QED BY <2>1, <2>2, <2>3, VersionsKept DEF w
  <1> QED BY <1>1, <1>2, <1>3 DEF AppInv

\* A coroutine goes on.
LEMMA CoroutineContinues ==
    ASSUME AppInv, RestTyped, Keeps, UNCHANGED pending,
           NEW p \in Procs, proc[p] # Null,
           NEW v \in Coroutines, Phases(v), Continue(p, v),
           v.orig = proc[p].orig,
           v.job = "shutdown" => proc[p].job = "shutdown",
           p = "worker" /\ v.job = "delete" => proc[p].job = "delete",
           p = "task" =>
             v.job = "shutdown" \/ (v.job = "delete" /\ scenario.strategy = "delete"),
           p = "worker" /\ WorkerReleases /\ Creating(v) =>
             Guarded' /\ (v.job = "migrate" => Guard \in ToSet(v.app.finalizers))
    PROVE  AppInv'
  <1> DEFINE u == Settled(v)
  <1>1. Goes(v, u)
    BY SettledTyped
  <1>2. /\ proc \in [Procs -> Coroutines \cup {Null}]
        /\ proc' = [proc EXCEPT ![p] = u]
    BY DEF AppInv, TypeOK, Continue
  <1> HIDE DEF u
  <1>3. TypeOK'
    <2>1. proc' \in [Procs -> Coroutines \cup {Null}]
      BY <1>1, <1>2 DEF Goes
    <2> QED BY <2>1, AdvancesTyped DEF AppInv, TypeOK, RestTyped, Keeps
  <1>4. JobsInPhase'
    <2>1. ASSUME NEW q \in Procs, proc'[q] # Null
          PROVE  Phases(proc'[q]) /\ (proc'[q].job = "shutdown" \/ q = "task" => Hooked')
      BY <1>1, <1>2, <2>1 DEF AppInv, JobsInPhase, Keeps, Advances, Hooked, Goes
    <2>2. ASSUME proc'["task"] # Null
          PROVE  \/ proc'["task"].job = "shutdown"
                 \/ proc'["task"].job = "delete" /\ scenario'.strategy = "delete"
      BY <1>1, <1>2, <2>2 DEF AppInv, JobsInPhase, Keeps, Advances, Goes, Procs
    <2> QED BY <2>1, <2>2 DEF JobsInPhase
  <1>5. DeletionIsLast' /\ FinalizerHeld'
    <2>1. Advances /\ (Guarded => Guarded')
      BY DEF Keeps
    <2>2. CASE p = "worker"
      <3>1. proc'["worker"] = u
        BY <1>2, <2>2
      <3> QED BY <1>1, <2>1, <2>2, <3>1, VersionsKept DEF Goes
    <2>3. CASE p = "task"
      <3> DEFINE w == proc["worker"]
      <3>1. proc'["worker"] = w
        BY <1>2, <2>3 DEF Procs
      <3>2. WorkerReleases => (w # Null /\ Creating(w) =>
               Guarded' /\ (w.job = "migrate" => Guard \in ToSet(w.app.finalizers)))
        BY <2>1 DEF AppInv, FinalizerHeld
      <3> HIDE DEF w
      <3> QED BY <2>1, <3>1, <3>2, VersionsKept DEF w
    <2> QED BY <2>2, <2>3 DEF Procs
  <1> QED BY <1>3, <1>4, <1>5 DEF AppInv

\* A coroutine ends; only a deletion, which rests on a version in deletion, may have
\* removed the finalizer of the controller.
LEMMA CoroutineReturns ==
    ASSUME AppInv, RestTyped, Advances, UNCHANGED pending,
           NEW p \in Procs, proc[p] # Null, Return(p),
           WorkerReleases =>
             (Guarded => Guarded') \/ (p = "worker" /\ proc[p].orig.deleted)
    PROVE  AppInv'
  <1>1. /\ proc \in [Procs -> Coroutines \cup {Null}]
        /\ proc' = [proc EXCEPT ![p] = Null]
    BY DEF AppInv, TypeOK, Return
  <1>2. TypeOK'
    <2>1. proc' \in [Procs -> Coroutines \cup {Null}]
      BY <1>1
    <2> QED BY <2>1, AdvancesTyped DEF AppInv, TypeOK, RestTyped
  <1>3. JobsInPhase'
    BY <1>1 DEF AppInv, JobsInPhase, Advances, Hooked, Procs
  <1>4. DeletionIsLast' /\ FinalizerHeld'
    <2>1. CASE p = "worker"
      <3>1. proc'["worker"] = Null
        BY <1>1, <2>1
      <3> QED BY <2>1, <3>1, VersionsKept
    <2>2. CASE p = "task"
      <3> DEFINE w == proc["worker"]
      <3>1. proc'["worker"] = w
        BY <1>1, <2>2 DEF Procs
      <3>2. WorkerReleases => (Guarded => Guarded')
        BY <2>2
      <3>3. WorkerReleases => (w # Null /\ Creating(w) =>
               Guarded' /\ (w.job = "migrate" => Guard \in ToSet(w.app.finalizers)))
        BY <3>2 DEF AppInv, FinalizerHeld
      <3> HIDE DEF w
      <3> QED BY <3>1, <3>2, <3>3, VersionsKept DEF w
    <2> QED BY <2>1, <2>2 DEF Procs
  <1> QED BY <1>2, <1>3, <1>4 DEF AppInv

\* register_observer leaves an observer or none.
LEMMA WatchingTyped ==
    ASSUME NEW a \in Apps
    PROVE  Watching(a) \in Observers \cup {Null}
  BY DEF Watching, Observers

\* The end of resource_received
LEMMA FinishTyped ==
    ASSUME TypeOK, NEW p \in Procs, NEW w \in Coroutines, Finish(p, w)
    PROVE  Return(p) /\ observer' \in Observers \cup {Null}
  <1>1. w.app \in Apps /\ w.orig \in Apps /\ observer \in Observers \cup {Null}
    BY DEF TypeOK, Coroutines
  <1> QED BY <1>1, WatchingTyped DEF Finish, Register

\* Whatever may happen only so often can happen that often.
LEMMA SpendTyped ==
    ASSUME TypeOK, NEW k \in Kinds, Spend(k)
    PROVE  left' \in [Kinds -> Nat]
  BY DEF TypeOK, Spend

-----------------------------------------------------------------------------
(* The reflector, restarts and the work queue                              *)

\* A step that writes nothing
LEMMA IdleKeeps ==
    ASSUME TypeOK, UNCHANGED <<db, stream, scenario>>
    PROVE  Keeps
  BY DEF TypeOK, Keeps, Advances, Gone, Guarded

\* simple_on_receive hands on the oldest version of the stream.
LEMMA ReceiveStep ==
    ASSUME AppInv, Receive
    PROVE  AppInv'
  <1>1. /\ stream \in Seq(Apps) /\ stream # <<>> /\ stream' = Tail(stream)
        /\ UNCHANGED <<db, objects, scenario, proc, observer, sched, left>>
        /\ pending' = pending \/ pending' = Head(stream)
    BY DEF AppInv, TypeOK, Receive, world
  <1>2. /\ stream' \in Seq(Apps)
        /\ Head(stream) \in Apps /\ Head(stream) = stream[1] /\ 1 \in DOMAIN stream
        /\ \A i \in DOMAIN stream' :
             i \in Nat /\ i + 1 \in DOMAIN stream /\ 1 < i + 1 /\ stream'[i] = stream[i + 1]
    BY <1>1
  <1>3. TypeOK'
    BY <1>1, <1>2 DEF AppInv, TypeOK
  <1>4. JobsInPhase'
    BY <1>1 DEF AppInv, JobsInPhase, Hooked
  <1>5. (Gone' <=> Gone) /\ (Guarded' <=> Guarded) /\ (WorkerReleases' <=> WorkerReleases)
    BY <1>1 DEF Gone, Guarded, WorkerReleases
  <1>6. DeletionIsLast'
    <2>1. ASSUME NEW i \in DOMAIN stream', NEW j \in DOMAIN stream', i < j, stream'[i].deleted
          PROVE  stream'[j].deleted
      <3>1. i + 1 < j + 1
        BY <1>2, <2>1
      <3> QED BY <1>2, <2>1, <3>1 DEF AppInv, DeletionIsLast
    <2>2. ASSUME NEW i \in DOMAIN stream', stream'[i].deleted
          PROVE  Gone'
      BY <1>2, <1>5, <2>2 DEF AppInv, DeletionIsLast
    <2>3. ASSUME pending' # Null, pending'.deleted
          PROVE  Gone' /\ \A i \in DOMAIN stream' : stream'[i].deleted
      BY <1>1, <1>2, <1>5, <2>3 DEF AppInv, DeletionIsLast
    <2>4. LET w == proc'["worker"] IN
          w # Null =>
            /\ w.job = "delete" => w.orig.deleted
            /\ w.orig.deleted =>
                 /\ Gone'
                 /\ \A i \in DOMAIN stream' : stream'[i].deleted
                 /\ pending' # Null => pending'.deleted
      BY <1>1, <1>2, <1>5 DEF AppInv, DeletionIsLast
    <2> QED BY <2>1, <2>2, <2>3, <2>4 DEF DeletionIsLast
  <1>7. FinalizerHeld'
    BY <1>1, <1>2, <1>5 DEF AppInv, FinalizerHeld
  <1> QED BY <1>3, <1>4, <1>6, <1>7 DEF AppInv

\* After a restart there is nothing but what list_app returns.
LEMMA RestartStep ==
    ASSUME AppInv, Restart
    PROVE  AppInv'
  <1>1. /\ db \in Apps \cup {Null} /\ UNCHANGED <<db, objects, scenario, sched>>
        /\ stream' = <<>> /\ proc' = [p \in Procs |-> Null]
        /\ pending' \in {db, Null}
        /\ pending' = db \/ pending' = Null
        /\ observer' = IF db = Null THEN Null ELSE Watching(db)
    BY DEF AppInv, TypeOK, Restart, world
  <1>2. left' \in [Kinds -> Nat] /\ observer' \in Observers \cup {Null}
    BY <1>1, SpendTyped, WatchingTyped DEF AppInv, Restart, Kinds
  <1>3. TypeOK'
    BY <1>1, <1>2 DEF AppInv, TypeOK
  <1>4. JobsInPhase'
    BY <1>1 DEF JobsInPhase, Procs
  <1>5. DeletionIsLast' /\ FinalizerHeld'
    BY <1>1 DEF DeletionIsLast, FinalizerHeld, Gone, Guarded, Procs
  <1> QED BY <1>3, <1>4, <1>5 DEF AppInv

\* The worker takes a version: what it then does fits that version.
LEMMA GetStep ==
    ASSUME AppInv, Get
    PROVE  AppInv'
  <1> DEFINE d == Dispatch(pending)
  <1>1. /\ pending \in Apps /\ proc["worker"] = Null /\ pending' = Null
        /\ pending # Null
        /\ proc \in [Procs -> Coroutines \cup {Null}]
        /\ UNCHANGED <<db, objects, scenario, stream, sched, left>>
    BY DEF AppInv, TypeOK, Get, world
  <1>2. d # Null =>
          /\ d \in Coroutines /\ Phases(d) /\ d.orig = pending
          /\ SameMeta(pending, d.app)
          /\ d.job = "shutdown" => Hooked
          /\ d.job = "delete" => pending.deleted
          /\ d.job \in {"reconcile", "migrate", "volumes", "rollback"} => ~pending.deleted
          /\ Creating(d) => Guard \in ToSet(pending.finalizers)
    BY <1>1, DispatchTyped
  <1>3. /\ proc' = [proc EXCEPT !["worker"] = d] \/ proc' = proc
        /\ observer' \in Observers \cup {Null}
    <2>1. UpdateLastApplied(pending) \in Apps
      BY <1>1, CopiesTyped DEF SameMeta
    <2> HIDE DEF d
    <2>2. /\ proc' = [proc EXCEPT !["worker"] = d] \/ proc' = proc
          /\ observer' \in {observer, Null, Watching(UpdateLastApplied(pending))}
      BY DEF Get, Register, d
    <2> QED BY <2>1, <2>2, WatchingTyped DEF AppInv, TypeOK
  <1> HIDE DEF d
  <1>4. /\ proc' \in [Procs -> Coroutines \cup {Null}]
        /\ proc'["task"] = proc["task"]
        /\ proc'["worker"] = d \/ proc'["worker"] = Null
    BY <1>1, <1>2, <1>3 DEF Procs
  <1>5. TypeOK'
    BY <1>1, <1>3, <1>4 DEF AppInv, TypeOK
  <1>6. JobsInPhase'
    BY <1>1, <1>2, <1>4 DEF AppInv, JobsInPhase, Hooked, Procs
  <1>7. (Gone' <=> Gone) /\ (Guarded' <=> Guarded) /\ (WorkerReleases' <=> WorkerReleases)
    BY <1>1 DEF Gone, Guarded, WorkerReleases
  <1>8. DeletionIsLast'
    BY <1>1, <1>2, <1>4, <1>7 DEF AppInv, DeletionIsLast
  <1>9. FinalizerHeld'
    BY <1>1, <1>2, <1>4, <1>7 DEF AppInv, FinalizerHeld, Creating, SameMeta
  <1> QED BY <1>5, <1>6, <1>8, <1>9 DEF AppInv

-----------------------------------------------------------------------------
(* The steps of a coroutine                                                *)

\* A coroutine that keeps what Goes says
LEMMA CoroutineGoesOn ==
    ASSUME AppInv, RestTyped, Keeps, UNCHANGED pending,
           NEW p \in Procs, proc[p] # Null, NEW v, Goes(proc[p], v), Continue(p, v)
    PROVE  AppInv'
  <1>1. v \in Coroutines /\ Phases(v) /\ v.orig = proc[p].orig /\ v.job = proc[p].job
    BY DEF Goes
  <1>2. p = "task" => v.job = "shutdown" \/ (v.job = "delete" /\ scenario.strategy = "delete")
    BY <1>1 DEF AppInv, JobsInPhase
  <1>3. p = "worker" /\ WorkerReleases /\ Creating(v) =>
          Guarded' /\ (v.job = "migrate" => Guard \in ToSet(v.app.finalizers))
    BY <1>1 DEF AppInv, FinalizerHeld, Goes, Keeps
  <1> QED BY <1>1, <1>2, <1>3, CoroutineContinues

\* The type of a coroutine that runs
LEMMA RunningTyped ==
    ASSUME AppInv, NEW p \in Procs, proc[p] # Null
    PROVE  /\ proc[p] \in Coroutines /\ Phases(proc[p])
           /\ proc[p].app \in Apps /\ proc[p].orig \in Apps
           /\ p = "task" => proc[p].job \in {"shutdown", "delete"}
           /\ p = "task" /\ WorkerReleases => proc[p].job = "shutdown"
  <1>1. proc[p] \in Coroutines
    BY DEF AppInv, TypeOK
  <1> QED BY <1>1 DEF AppInv, JobsInPhase, Coroutines, WorkerReleases, Hooked

\* _migrate_application_with_volumes works on with the application it has read, whose
\* finalizers tell whether one has to be added.
LEMMA ReloadStep ==
    ASSUME AppInv, NEW p \in Procs, Reload(p)
    PROVE  AppInv'
  <1> DEFINE w == proc[p]
  <1>1. /\ w # Null /\ w.pc = "read" /\ db # Null
        /\ UNCHANGED <<db, objects, scenario, stream, pending, sched, left>>
    BY DEF Reload, world
  <1>2. /\ w \in Coroutines /\ Phases(w) /\ w.app \in Apps /\ w.orig \in Apps
        /\ w.job = "volumes" /\ p = "worker" /\ db \in Apps
    BY <1>1, RunningTyped DEF Phases, Coroutines, Jobs, Procs, AppInv, TypeOK
  <1>3. Keeps
    BY <1>1, IdleKeeps DEF AppInv
  <1>4. CASE db.status.scheduled_to = db.status.running_on
    <2>1. Finish(p, w)
      BY <1>4 DEF Reload
    <2>2. Return(p) /\ RestTyped
      BY <1>1, <1>2, <2>1, FinishTyped DEF AppInv, TypeOK, RestTyped
    <2> QED BY <1>1, <1>3, <2>2, CoroutineReturns DEF Keeps
  <1>5. CASE db.status.scheduled_to # db.status.running_on
    <2> DEFINE v == [w EXCEPT !.pc = FirstPoint(db), !.app = db]
    <2>1. Continue(p, v) /\ UNCHANGED observer
      BY <1>5 DEF Reload
    <2>2. RestTyped
      BY <1>1, <2>1 DEF AppInv, TypeOK, RestTyped
    <2>3. /\ v \in Coroutines /\ v.pc \in {"mark", "finalizer"}
          /\ v.orig = w.orig /\ v.job = "volumes"
          /\ v.pc = "mark" => Guard \in ToSet(db.finalizers)
      BY <1>2 DEF Coroutines, FirstPoint, Points
    <2> HIDE DEF v, w
    <2>4. Phases(v)
      BY <2>3 DEF Phases
    <2>5. Creating(v) => Guarded'
      BY <1>1, <2>3 DEF Creating, Guarded
    <2> QED BY <1>1, <1>2, <1>3, <2>1, <2>2, <2>3, <2>4, <2>5, CoroutineContinues DEF w
  <1> QED BY <1>4, <1>5

\* What a coroutine does after its first report
AfterMark(w, a) ==
    CASE w.job = "shutdown" -> [w EXCEPT !.pc = "trigger", !.app = a]
      [] w.job = "volumes" -> [w EXCEPT !.pc = "apply", !.old = a, !.add = a.manifest,
                                        !.app = UpdateLastApplied(a)]
      [] OTHER -> [w EXCEPT !.pc = "remove", !.app = a]

\* It keeps what Goes says.
LEMMA AfterMarkGoes ==
    ASSUME NEW w \in Coroutines, Phases(w), w.pc = "mark",
           NEW a \in Apps, SameMeta(w.app, a)
    PROVE  Goes(w, AfterMark(w, a))
  <1>1. /\ SameMeta(w.app, UpdateLastApplied(a)) /\ a.manifest \in SUBSET Objects
        /\ a # Null
    BY CopiesTyped, ApplicationAssumption DEF SameMeta, Apps
  <1>2. CASE w.job = "shutdown"
    <2>1. AfterMark(w, a) = [w EXCEPT !.pc = "trigger", !.app = a]
      BY <1>2 DEF AfterMark
    <2> QED BY <1>2, <2>1 DEF Goes, Coroutines, Points, Phases, Creating
  <1>3. CASE w.job = "volumes"
    <2> DEFINE b == UpdateLastApplied(a)
    <2>1. AfterMark(w, a) = [w EXCEPT !.pc = "apply", !.old = a, !.add = a.manifest, !.app = b]
      BY <1>3 DEF AfterMark
    <2>2. b \in Apps
      BY <1>1 DEF SameMeta
    <2> HIDE DEF b
    <2> QED BY <1>1, <1>3, <2>1, <2>2 DEF Goes, Coroutines, Points, Phases, Creating
  <1>4. CASE w.job \notin {"shutdown", "volumes"}
    <2>1. AfterMark(w, a) = [w EXCEPT !.pc = "remove", !.app = a]
      BY <1>4 DEF AfterMark
    <2>2. w.job \in {"reconcile", "migrate", "delete"}
      BY <1>4 DEF Coroutines, Jobs, Phases
    <2> QED BY <2>1, <2>2 DEF Goes, Coroutines, Points, Phases, Creating, SameMeta
  <1> QED BY <1>2, <1>3, <1>4

\* update_application_status by a coroutine: the finalizers in the database stay.
LEMMA SendStatusStep ==
    ASSUME AppInv, NEW p \in Procs, SendStatus(p)
    PROVE  AppInv'
  <1> DEFINE w == proc[p]
             a == Marked(w)
  <1>1. /\ w # Null /\ w.pc \in {"mark", "trigger", "status", "give_up", "failed"}
        /\ UpdateStatus(a.status)
        /\ UNCHANGED <<objects, scenario, pending, sched, left>>
    BY DEF SendStatus, world
  <1>2. /\ w \in Coroutines /\ Phases(w) /\ w.app \in Apps /\ w.orig \in Apps
        /\ SameMeta(IF w.pc = "failed" THEN w.orig ELSE w.app, a)
    BY <1>1, RunningTyped, MarkedTyped
  <1>3. a \in Apps /\ a.status \in Statuses
    BY <1>2 DEF SameMeta, Apps
  <1>4. Keeps
    BY <1>1, <1>3, UpdateStatusKeeps DEF AppInv
  <1>5. UNCHANGED observer => RestTyped
    BY <1>1 DEF AppInv, TypeOK, RestTyped
  <1>6. CASE Return(p) /\ UNCHANGED observer
    BY <1>1, <1>4, <1>5, <1>6, CoroutineReturns DEF Keeps
  <1>7. CASE w.pc = "mark" /\ Continue(p, AfterMark(w, a)) /\ UNCHANGED observer
    <2>1. Goes(w, AfterMark(w, a))
      BY <1>2, <1>3, <1>7, AfterMarkGoes
    <2> QED BY <1>1, <1>4, <1>5, <1>7, <2>1, CoroutineGoesOn
  <1>8. CASE /\ w.pc = "trigger" /\ proc["task"] = Null
             /\ proc' = [proc EXCEPT ![p] = Null,
                            !["task"] = [w EXCEPT !.pc = "check", !.app = a,
                                                  !.tries = ShutdownRetries + 1]]
             /\ UNCHANGED observer
    <2> DEFINE v == [w EXCEPT !.pc = "check", !.app = a, !.tries = ShutdownRetries + 1]
    <2>1. p = "worker" /\ w.job = "shutdown"
      BY <1>1, <1>2, <1>8 DEF Procs, Phases, Coroutines, Jobs
    <2>2. ShutdownRetries + 1 \in Nat
      BY ApplicationAssumption
    <2>3. v \in Coroutines /\ v.job = "shutdown" /\ v.pc = "check"
      BY <1>2, <1>3, <2>1, <2>2 DEF Coroutines, Points
    <2> HIDE DEF v
    <2>4. /\ proc' \in [Procs -> Coroutines \cup {Null}]
          /\ proc'["worker"] = Null /\ proc'["task"] = v
      <3>1. proc \in [Procs -> Coroutines \cup {Null}]
        BY DEF AppInv, TypeOK
      <3>2. proc' = [proc EXCEPT ![p] = Null, !["task"] = v]
        BY <1>8 DEF v
      <3> QED BY <2>1, <2>3, <3>1, <3>2 DEF Procs
    <2>5. TypeOK'
      BY <1>4, <1>5, <1>8, <1>1, <2>4, AdvancesTyped DEF AppInv, TypeOK, RestTyped, Keeps
    <2>6. Hooked'
      BY <1>1, <2>1 DEF AppInv, JobsInPhase, Hooked, Procs
    <2>7. JobsInPhase'
      BY <2>3, <2>4, <2>6 DEF JobsInPhase, Phases, Procs
    <2>8. DeletionIsLast' /\ FinalizerHeld'
      BY <1>1, <1>4, <2>4, VersionsKept DEF Keeps
    <2> QED BY <2>5, <2>7, <2>8 DEF AppInv
  <1>9. CASE /\ w.pc = "status" /\ w.job \in {"migrate", "delete"}
             /\ Continue(p, [w EXCEPT !.pc = "update"])
             /\ UNCHANGED observer
    <2>1. Goes(w, [w EXCEPT !.pc = "update"])
      BY <1>2, <1>9 DEF Goes, Coroutines, Points, Phases, Creating
    <2> QED BY <1>1, <1>4, <1>5, <1>9, <2>1, CoroutineGoesOn
  <1>10. CASE Finish(p, w)
    <2>1. Return(p) /\ RestTyped
      BY <1>1, <1>2, <1>10, FinishTyped DEF AppInv, TypeOK, RestTyped
    <2> QED BY <1>1, <1>4, <2>1, CoroutineReturns DEF Keeps
  <1> QED BY <1>1, <1>6, <1>7, <1>8, <1>9, <1>10 DEF SendStatus, AfterMark

\* update_application by a coroutine: the finalizer of the controller is added, is
\* written back by a migration, or is removed by a deletion.
LEMMA SendUpdateStep ==
    ASSUME AppInv, NEW p \in Procs, SendUpdate(p)
    PROVE  AppInv'
  <1> DEFINE w == proc[p]
             a == [w.app EXCEPT !.finalizers = Append(@, Guard)]
  <1>1. /\ w # Null /\ w.pc \in {"finalizer", "update"}
        /\ UNCHANGED <<objects, scenario, pending, sched, left>>
    BY DEF SendUpdate, world
  <1>2. /\ w \in Coroutines /\ Phases(w) /\ w.app \in Apps /\ w.orig \in Apps
        /\ p = "task" => w.job \in {"shutdown", "delete"}
        /\ p = "task" /\ WorkerReleases => w.job = "shutdown"
    BY <1>1, RunningTyped
  <1>3. CASE w.pc = "finalizer"
    <2> DEFINE v == [w EXCEPT !.pc = "mark", !.app = a]
    <2>1. UpdateApplication(a) /\ Continue(p, v) /\ UNCHANGED observer
      BY <1>3 DEF SendUpdate
    <2>2. a \in Apps /\ Guard \in ToSet(a.finalizers)
      <3>1. w.app.finalizers \in Seq({Guard, Cascade})
        BY <1>2 DEF Apps
      <3>2. /\ Append(w.app.finalizers, Guard) \in Seq({Guard, Cascade})
            /\ Guard \in ToSet(Append(w.app.finalizers, Guard))
        BY <3>1, FrontTyped
      <3> QED BY <1>2, <3>2 DEF Apps
    <2> HIDE DEF a
    <2>3. Keeps /\ Guarded'
      BY <1>1, <2>1, <2>2, UpdateApplicationKeeps DEF AppInv
    <2>4. /\ v \in Coroutines /\ v.pc = "mark" /\ v.app = a /\ v.orig = w.orig /\ v.job = w.job
          /\ w.job \in {"reconcile", "migrate", "volumes"}
      BY <1>2, <1>3, <2>2 DEF Coroutines, Points, Phases, Jobs
    <2>5. RestTyped
      BY <1>1, <2>1 DEF AppInv, TypeOK, RestTyped
    <2>6. p = "worker"
      BY <1>2, <2>4 DEF Procs
    <2> HIDE DEF v, w
    <2>7. Phases(v)
      BY <2>4 DEF Phases
    <2> QED BY <1>1, <2>1, <2>2, <2>3, <2>4, <2>5, <2>6, <2>7, CoroutineContinues DEF w
  <1>4. CASE w.pc = "update"
    <2>1. UpdateApplication(w.app) /\ Finish(p, w)
      BY <1>4 DEF SendUpdate
    <2>2. Return(p) /\ RestTyped
      BY <1>1, <1>2, <2>1, FinishTyped DEF AppInv, TypeOK, RestTyped
    <2>3. Advances /\ (Guard \in ToSet(w.app.finalizers) => Keeps)
      BY <1>1, <1>2, <2>1, UpdateApplicationKeeps DEF AppInv
    <2>4. w.job \in {"migrate", "delete"}
      BY <1>2, <1>4 DEF Coroutines, Phases, Jobs
    <2>5. ASSUME WorkerReleases
          PROVE  (Guarded => Guarded') \/ (p = "worker" /\ w.orig.deleted)
      <3>1. p = "worker"
        BY <1>2, <2>4, <2>5 DEF Procs
      <3>2. CASE w.job = "migrate"
        <4>1. Guard \in ToSet(w.app.finalizers)
          BY <1>1, <1>4, <2>5, <3>1, <3>2 DEF AppInv, FinalizerHeld, Creating
        <4> QED BY <2>3, <4>1 DEF Keeps
      <3>3. CASE w.job = "delete"
        BY <1>1, <3>1, <3>3 DEF AppInv, DeletionIsLast
      <3> QED BY <2>4, <3>2, <3>3
    <2> QED BY <1>1, <2>2, <2>3, <2>5, CoroutineReturns
  <1> QED BY <1>1, <1>3, <1>4

\* A refused request ends the coroutine.
LEMMA RefusedStep ==
    ASSUME AppInv, NEW p \in Procs, Refused(p)
    PROVE  AppInv'
  <1>1. /\ proc[p] # Null /\ Return(p)
        /\ UNCHANGED <<db, objects, scenario, stream, pending, observer, sched, left>>
    BY DEF Refused, world
  <1>2. Keeps /\ RestTyped
    BY <1>1, IdleKeeps DEF AppInv, TypeOK, RestTyped
  <1> QED BY <1>1, <1>2, CoroutineReturns DEF Keeps

\* kube.delete_async: one object less, and the copy says so.
LEMMA KubeDeleteStep ==
    ASSUME AppInv, NEW p \in Procs, KubeDelete(p)
    PROVE  AppInv'
  <1> DEFINE w == proc[p]
             c == IF w.job = "reconcile" THEN w.app.status.scheduled_to
                  ELSE Vacated(w).status.running_on
  <1>1. /\ w # Null /\ w.pc = "remove"
        /\ UNCHANGED <<db, stream, pending, observer, sched, scenario, left>>
    BY DEF KubeDelete
  <1>2. w \in Coroutines /\ Phases(w) /\ w.app \in Apps
    BY <1>1, RunningTyped
  <1>3. PICK o \in w.rm :
          /\ objects' = [objects EXCEPT ![c] = @ \ {o}]
          /\ Continue(p, [w EXCEPT !.rm = @ \ {o},
                            !.app.status.observed = IF w.job = "volumes" THEN @ ELSE @ \ {o}])
    BY DEF KubeDelete
  <1> DEFINE seen == IF w.job = "volumes" THEN w.app.status.observed
                     ELSE w.app.status.observed \ {o}
             b == [w.app EXCEPT !.status.observed = seen]
             v == [w EXCEPT !.rm = @ \ {o}, !.app = b]
  <1>4. Continue(p, v)
    BY <1>3
  <1>5. SameMeta(w.app, b)
    <2>1. seen \in SUBSET Objects
      BY <1>2 DEF Apps, Statuses
    <2> HIDE DEF seen
    <2> QED BY <1>2, <2>1 DEF SameMeta, Apps, Statuses
  <1> HIDE DEF b
  <1>6. Goes(w, v)
    BY <1>1, <1>2, <1>5 DEF Goes, Coroutines, Phases, Creating, SameMeta
  <1>7. Keeps /\ RestTyped
    BY <1>1, <1>3, IdleKeeps DEF AppInv, TypeOK, RestTyped
  <1> HIDE DEF v
  <1> QED BY <1>1, <1>4, <1>6, <1>7, CoroutineGoesOn

\* kube.apply: one object more, and the copy says so.
LEMMA KubeApplyStep ==
    ASSUME AppInv, NEW p \in Procs, KubeApply(p)
    PROVE  AppInv'
  <1> DEFINE w == proc[p]
  <1>1. /\ w # Null /\ w.pc = "apply"
        /\ UNCHANGED <<db, stream, pending, observer, sched, scenario, left>>
    BY DEF KubeApply
  <1>2. w \in Coroutines /\ Phases(w) /\ w.app \in Apps
    BY <1>1, RunningTyped
  <1>3. PICK o \in w.add :
          /\ objects' = [objects EXCEPT ![w.app.status.scheduled_to] = @ \cup {o}]
          /\ Continue(p, [w EXCEPT !.add = @ \ {o}, !.app.status.observed = @ \cup {o}])
    BY DEF KubeApply
  <1>4. o \in Objects
    BY <1>2 DEF Coroutines
  <1> DEFINE b == [w.app EXCEPT !.status.observed = @ \cup {o}]
             v == [w EXCEPT !.add = @ \ {o}, !.app = b]
  <1>5. Continue(p, v)
    BY <1>3
  <1>6. SameMeta(w.app, b)
    <2> DEFINE seen == w.app.status.observed \cup {o}
    <2>1. seen \in SUBSET Objects
      BY <1>2, <1>4 DEF Apps, Statuses
    <2> HIDE DEF seen
    <2>2. SameMeta(w.app, [w.app EXCEPT !.status.observed = seen])
      BY <1>2, <2>1 DEF SameMeta, Apps, Statuses
    <2> QED BY <2>2 DEF seen
  <1> HIDE DEF b
  <1>7. Goes(w, v)
    BY <1>1, <1>2, <1>6 DEF Goes, Coroutines, Phases, Creating, SameMeta
  <1>8. Keeps /\ RestTyped
    BY <1>1, <1>3, <1>4, IdleKeeps DEF AppInv, TypeOK, RestTyped
  <1> HIDE DEF v
  <1> QED BY <1>1, <1>5, <1>7, <1>8, CoroutineGoesOn

\* transfer_data: the migration goes on, or back.
LEMMA TransferStep ==
    ASSUME AppInv, NEW p \in Procs, Transfer(p)
    PROVE  AppInv'
  <1>1. /\ proc[p] # Null /\ proc[p].pc = "transfer"
        /\ UNCHANGED <<db, objects, scenario, stream, pending, observer, sched, left>>
    BY DEF Transfer, world
  <1>2. /\ proc[p] \in Coroutines /\ Phases(proc[p])
        /\ p = "task" => proc[p].job \in {"shutdown", "delete"}
    BY <1>1, RunningTyped
  <1>3. /\ proc[p].job = "volumes" /\ proc[p].old # Null /\ proc[p].old \in Apps /\ p = "worker"
        /\ proc[p].app \in Apps
    BY <1>1, <1>2 DEF Phases, Coroutines, Jobs, Procs
  <1>4. PICK job \in {"volumes", "rollback"} :
          LET u == [proc[p] EXCEPT !.pc = "remove", !.job = job]
          IN  Continue(p, [u EXCEPT !.rm = Vacated(u).status.observed])
    BY DEF Transfer
  <1> DEFINE u == [proc[p] EXCEPT !.pc = "remove", !.job = job]
             v == [u EXCEPT !.rm = Vacated(u).status.observed]
  <1>5. u \in Coroutines /\ u.app = proc[p].app /\ u.old = proc[p].old
    BY <1>2 DEF Coroutines, Points, Jobs
  <1>6. Vacated(u).status.observed \in SUBSET Objects
    BY <1>3, <1>5 DEF Vacated, Apps, Statuses
  <1>7. /\ v \in Coroutines /\ v.pc = "remove" /\ v.job = job
        /\ v.orig = proc[p].orig /\ v.old = proc[p].old
    BY <1>2, <1>6 DEF Coroutines, Points, Jobs
  <1>8. Continue(p, v)
    BY <1>4
  <1> HIDE DEF v, u
  <1>9. Phases(v)
    BY <1>3, <1>7 DEF Phases
  <1>10. Keeps /\ RestTyped
    BY <1>1, IdleKeeps DEF AppInv, TypeOK, RestTyped
  <1>11. WorkerReleases => Guarded'
    <2>1. WorkerReleases => Guarded
      BY <1>1, <1>3 DEF AppInv, FinalizerHeld, Creating
    <2> QED BY <1>10, <2>1 DEF Keeps
  <1> QED BY <1>1, <1>3, <1>7, <1>8, <1>9, <1>10, <1>11, CoroutineContinues

\* An error of a cluster is reported on the version taken from the queue.
LEMMA ClusterErrorStep ==
    ASSUME AppInv, NEW p \in Procs, ClusterError(p)
    PROVE  AppInv'
  <1> DEFINE w == proc[p]
             v == [w EXCEPT !.pc = "failed"]
  <1>1. /\ w # Null /\ w.pc \in {"remove", "apply"}
        /\ IF p = "worker" THEN Continue(p, v) ELSE Return(p)
        /\ UNCHANGED <<db, objects, scenario, stream, pending, observer, sched>>
    BY DEF ClusterError, world
  <1>2. w \in Coroutines /\ Phases(w)
    BY <1>1, RunningTyped
  <1>3. Goes(w, v)
    BY <1>1, <1>2 DEF Goes, Coroutines, Points, Jobs, Phases, Creating
  <1>4. left' \in [Kinds -> Nat]
    BY SpendTyped DEF ClusterError, AppInv, Kinds
  <1>5. Keeps /\ RestTyped
    BY <1>1, <1>4, IdleKeeps DEF AppInv, TypeOK, RestTyped
  <1> HIDE DEF v
  <1>6. CASE p = "worker"
    BY <1>1, <1>3, <1>5, <1>6, CoroutineGoesOn
  <1>7. CASE p # "worker"
    BY <1>1, <1>5, <1>7, CoroutineReturns DEF Keeps
  <1> QED BY <1>6, <1>7

\* The shutdown task turns into a deletion only under the strategy "delete".
LEMMA CheckShutdownStep ==
    ASSUME AppInv, CheckShutdown
    PROVE  AppInv'
  <1> DEFINE w == proc["task"]
             rm == IF w.app.status.running_on = Null THEN {} ELSE w.app.status.observed
             v == IF w.tries > 1 THEN [w EXCEPT !.tries = @ - 1]
                  ELSE IF scenario.strategy = "delete"
                    THEN [w EXCEPT !.tries = 0, !.job = "delete", !.pc = "mark", !.rm = rm]
                    ELSE [w EXCEPT !.tries = 0, !.pc = "give_up"]
  <1>1. /\ w # Null /\ w.pc = "check" /\ "task" \in Procs
        /\ IF db = Null THEN Return("task") ELSE Continue("task", v)
        /\ UNCHANGED <<db, objects, scenario, stream, pending, observer, sched, left>>
    BY DEF CheckShutdown, world, Procs
  <1>2. w \in Coroutines /\ Phases(w) /\ w.app \in Apps /\ w.job = "shutdown"
    BY <1>1, RunningTyped DEF Phases, Coroutines, Jobs
  <1>3. Keeps /\ RestTyped
    BY <1>1, IdleKeeps DEF AppInv, TypeOK, RestTyped
  <1>4. /\ v \in Coroutines /\ v.orig = w.orig
        /\ \/ v.job = "shutdown" /\ v.pc \in {"check", "give_up"}
           \/ v.job = "delete" /\ v.pc = "mark" /\ scenario.strategy = "delete"
    <2>1. CASE w.tries > 1
      <3>1. v = [w EXCEPT !.tries = w.tries - 1]
        BY <2>1
      <3>2. w.tries - 1 \in Nat
        BY <1>2, <2>1 DEF Coroutines
      <3> QED BY <1>1, <1>2, <3>1, <3>2 DEF Coroutines
    <2>2. CASE ~(w.tries > 1) /\ scenario.strategy = "delete"
      <3>1. rm \in SUBSET Objects
        BY <1>2 DEF Apps, Statuses
      <3>2. v = [w EXCEPT !.tries = 0, !.job = "delete", !.pc = "mark", !.rm = rm]
        BY <2>2
      <3> HIDE DEF v, rm
      <3> QED BY <1>2, <2>2, <3>1, <3>2 DEF Coroutines, Points, Jobs
    <2>3. CASE ~(w.tries > 1) /\ scenario.strategy # "delete"
      <3>1. v = [w EXCEPT !.tries = 0, !.pc = "give_up"]
        BY <2>3
      <3> HIDE DEF v
      <3> QED BY <1>2, <3>1 DEF Coroutines, Points
    <2> QED BY <2>1, <2>2, <2>3
  <1> HIDE DEF v, rm
  <1>5. Phases(v)
    BY <1>4 DEF Phases
  <1>6. CASE db = Null
    BY <1>1, <1>3, <1>6, CoroutineReturns DEF Keeps
  <1>7. CASE db # Null
    BY <1>1, <1>2, <1>3, <1>4, <1>5, <1>7, CoroutineContinues
  <1> QED BY <1>6, <1>7

-----------------------------------------------------------------------------
(* The observer, the scheduler, users and the garbage collector            *)

\* poll_resource changes nothing but the observer.
LEMMA PollStep ==
    ASSUME AppInv, Poll
    PROVE  AppInv'
  <1> DEFINE s == observer.app.status
             seen == objects[s.running_on] \cap s.applied
  <1>1. /\ observer # Null
        /\ UNCHANGED <<db, objects, scenario, stream, pending, proc, sched>>
    BY DEF Poll, world
  <1>2. observer \in Observers /\ s \in Statuses
    BY <1>1 DEF AppInv, TypeOK, Observers, Apps
  <1>3. PICK state \in {s.state, "RUNNING", "RESTARTING", "DEGRADED"} :
          /\ UNCHANGED left \/ Spend("health") \/ Spend("degrade")
          /\ observer' = [observer EXCEPT !.poll = [s EXCEPT !.observed = seen, !.state = state]]
    BY DEF Poll
  <1>4. seen \in SUBSET Objects /\ state \in States
    BY <1>2 DEF Statuses, States
  <1> HIDE DEF seen
  <1>5. [s EXCEPT !.observed = seen, !.state = state] \in Statuses
    BY <1>2, <1>4 DEF Statuses
  <1>6. observer' \in Observers
    BY <1>2, <1>3, <1>5 DEF Observers
  <1>7. left' \in [Kinds -> Nat]
    BY <1>3, SpendTyped DEF AppInv, TypeOK, Kinds
  <1>8. Keeps /\ RestTyped
    BY <1>1, <1>6, <1>7, IdleKeeps DEF AppInv, TypeOK, RestTyped
  <1> QED BY <1>1, <1>8, OthersWrite

\* on_status_update writes a status.
LEMMA ObserveStep ==
    ASSUME AppInv, Observe
    PROVE  AppInv'
  <1> DEFINE st == [observer.poll EXCEPT !.triggered = db.modified]
  <1>1. /\ observer # Null /\ observer.poll # Null /\ db # Null
        /\ UpdateStatus(st) /\ Register([db EXCEPT !.status = st])
        /\ UNCHANGED <<objects, scenario, pending, proc, sched, left>>
    BY DEF Observe, world
  <1>2. observer.poll \in Statuses /\ db \in Apps
    BY <1>1 DEF AppInv, TypeOK, Observers
  <1>3. st \in Statuses
    BY <1>2 DEF Statuses, Apps
  <1> HIDE DEF st
  <1>4. [db EXCEPT !.status = st] \in Apps
    BY <1>2, <1>3 DEF Apps
  <1>5. observer' \in Observers \cup {Null}
    BY <1>1, <1>4, WatchingTyped DEF Register
  <1>6. Keeps /\ RestTyped
    BY <1>1, <1>3, <1>5, UpdateStatusKeeps DEF AppInv, TypeOK, RestTyped
  <1> QED BY <1>1, <1>6, OthersWrite

\* update_application_binding keeps the finalizers.
LEMMA BindKeeps ==
    ASSUME TypeOK, NEW c \in Clusters, Bind(c), UNCHANGED scenario
    PROVE  Keeps
  <1> DEFINE o == db.owners \cup {c}
             st == [db.status EXCEPT !.scheduled_to = c, !.triggered = db.modified]
             a == [db EXCEPT !.owners = o, !.status = st]
  <1>1. db # Null /\ db \in Apps /\ Save(a)
    BY DEF Bind, TypeOK
  <1>2. o \in SUBSET Clusters /\ db.modified \in Nat /\ db.status \in Statuses
    BY <1>1 DEF Apps
  <1>3. st \in Statuses
    BY <1>2 DEF Statuses, Places
  <1> HIDE DEF o, st
  <1>4. a \in Apps /\ a.deleted = db.deleted /\ a.finalizers = db.finalizers
    BY <1>1, <1>2, <1>3 DEF Apps
  <1> HIDE DEF a
  <1> QED BY <1>1, <1>4, SaveKeeps

\* The scheduler takes a version, and binds it or confirms its place.
LEMMA SchedulerStep ==
    ASSUME AppInv, SchedulerTake \/ Schedule
    PROVE  AppInv'
  <1>1. CASE SchedulerTake
    <2>1. /\ UNCHANGED <<db, objects, scenario, stream, pending, proc, observer, left>>
          /\ sched' \in Apps \cup {Null}
      BY <1>1 DEF SchedulerTake, world, AppInv, TypeOK
    <2>2. Keeps /\ RestTyped
      BY <2>1, IdleKeeps DEF AppInv, TypeOK, RestTyped
    <2> QED BY <2>1, <2>2, OthersWrite
  <1>2. CASE Schedule
    <2>1. /\ UNCHANGED <<objects, scenario, pending, proc, observer, left>> /\ sched' = Null
          /\ Version # Null
          /\ \/ \E c \in Clusters : Bind(c)
             \/ db # Null /\ UpdateStatus([Version.status EXCEPT !.triggered = db.modified])
             \/ UNCHANGED <<db, stream>>
      BY <1>2 DEF Schedule, world
    <2>2. Version \in Apps
      BY <2>1 DEF Version, AppInv, TypeOK
    <2>3. db # Null => [Version.status EXCEPT !.triggered = db.modified] \in Statuses
      BY <2>2 DEF Apps, Statuses, AppInv, TypeOK
    <2>4. Keeps
      BY <2>1, <2>3, BindKeeps, UpdateStatusKeeps, IdleKeeps DEF AppInv
    <2>5. RestTyped
      BY <2>1 DEF AppInv, TypeOK, RestTyped
    <2> QED BY <2>1, <2>4, <2>5, OthersWrite
  <1> QED BY <1>1, <1>2

\* Migrations, updates, deletions, confirmations and retries are writes that keep the
\* finalizer of the controller, and so is the last one of the garbage collector.
LEMMA UserStep ==
    ASSUME AppInv,
           \/ \E c \in Clusters : Move(c) \/ Drift(c)
           \/ \E m \in Manifests : UserUpdate(m)
           \/ UserDelete \/ Confirm \/ Retry \/ Collect
    PROVE  AppInv'
  <1>1. TypeOK
    BY DEF AppInv
  <1>2. ASSUME NEW k \in Kinds, Spend(k) PROVE left' \in [Kinds -> Nat]
    BY <1>1, <1>2, SpendTyped
  <1>3. ASSUME NEW c \in Clusters, Move(c) PROVE AppInv'
    <2>1. Bind(c) /\ UNCHANGED <<objects, scenario, pending, proc, observer, sched>>
      BY <1>3 DEF Move, world
    <2>2. left' \in [Kinds -> Nat]
      BY <1>2, <1>3 DEF Move, Kinds
    <2>3. Keeps /\ RestTyped
      BY <1>1, <2>1, <2>2, BindKeeps DEF TypeOK, RestTyped
    <2> QED BY <2>1, <2>3, OthersWrite
  <1>4. ASSUME NEW c \in Clusters, Drift(c) PROVE AppInv'
    <2>1. UNCHANGED <<db, stream, pending, proc, observer, sched, scenario>>
      BY <1>4 DEF Drift
    <2>2. objects' \in [Clusters -> SUBSET Objects]
      BY <1>1, <1>4 DEF Drift, TypeOK
    <2>3. left' \in [Kinds -> Nat]
      BY <1>2, <1>4 DEF Drift, Kinds
    <2>4. Keeps /\ RestTyped
      BY <1>1, <2>1, <2>2, <2>3, IdleKeeps DEF TypeOK, RestTyped
    <2> QED BY <2>1, <2>4, OthersWrite
  <1>5. ASSUME NEW m \in Manifests, UserUpdate(m) PROVE AppInv'
    <2> DEFINE b == [db EXCEPT !.manifest = m]
    <2>1. /\ db # Null /\ db \in Apps /\ UpdateApplication(b)
          /\ UNCHANGED <<objects, scenario, pending, proc, observer, sched>>
      BY <1>1, <1>5 DEF UserUpdate, world, TypeOK
    <2>2. b \in Apps /\ b.finalizers = db.finalizers
      BY <2>1, ApplicationAssumption DEF Apps
    <2>3. left' \in [Kinds -> Nat]
      BY <1>2, <1>5 DEF UserUpdate, Kinds
    <2> HIDE DEF b
    <2>4. Keeps /\ RestTyped
      BY <1>1, <2>1, <2>2, <2>3, UpdateApplicationKeeps DEF TypeOK, RestTyped
    <2> QED BY <2>1, <2>4, OthersWrite
  <1>6. ASSUME UserDelete PROVE AppInv'
    <2> DEFINE fs == Append(db.finalizers, Cascade)
               st == [db.status EXCEPT !.state = IF Hooked THEN "WAITING_FOR_CLEANING" ELSE @]
               a == [db EXCEPT !.deleted = TRUE, !.finalizers = fs, !.status = st]
    <2>1. /\ db # Null /\ db \in Apps /\ Save(a)
          /\ UNCHANGED <<objects, scenario, pending, proc, observer, sched>>
      BY <1>1, <1>6 DEF UserDelete, world, TypeOK
    <2>2. db.finalizers \in Seq({Guard, Cascade}) /\ db.status \in Statuses
      BY <2>1 DEF Apps
    <2>3. /\ fs \in Seq({Guard, Cascade})
          /\ Guard \in ToSet(db.finalizers) => Guard \in ToSet(fs)
      BY <2>2, FrontTyped
    <2>4. st \in Statuses
      BY <2>2 DEF Statuses, States
    <2> HIDE DEF fs, st
    <2>5. a \in Apps /\ a.deleted /\ a.finalizers = fs
      BY <2>1, <2>3, <2>4 DEF Apps
    <2>6. left' \in [Kinds -> Nat]
      BY <1>2, <1>6 DEF UserDelete, Kinds
    <2> HIDE DEF a
    <2>7. Keeps /\ RestTyped
      BY <1>1, <2>1, <2>3, <2>5, <2>6, SaveKeeps DEF TypeOK, RestTyped
    <2> QED BY <2>1, <2>7, OthersWrite
  <1>7. ASSUME Confirm \/ Retry PROVE AppInv'
    <2>1. /\ db # Null /\ db \in Apps
          /\ UNCHANGED <<objects, scenario, pending, proc, observer, sched>>
      BY <1>1, <1>7 DEF Confirm, Retry, world, TypeOK
    <2>2. PICK a : Save(a) /\ \/ a = db
                              \/ \E s \in States :
                                   a = [db EXCEPT !.status.state = s, !.status.grace = FALSE]
      BY <1>7 DEF Confirm, Retry, States
    <2>3. \A s \in States : LET b == [db EXCEPT !.status.state = s, !.status.grace = FALSE] IN
            b \in Apps /\ b.deleted = db.deleted /\ b.finalizers = db.finalizers
      BY <2>1 DEF Apps, Statuses
    <2>4. a \in Apps /\ a.deleted = db.deleted /\ a.finalizers = db.finalizers
      <3>1. CASE a = db
        BY <2>1, <3>1
      <3>2. ASSUME NEW s \in States,
                   a = [db EXCEPT !.status.state = s, !.status.grace = FALSE]
            PROVE  a \in Apps /\ a.deleted = db.deleted /\ a.finalizers = db.finalizers
        BY <2>3, <3>2
      <3> QED BY <2>2, <3>1, <3>2
    <2>5. left' \in [Kinds -> Nat]
      BY <1>2, <1>7 DEF Confirm, Retry, Kinds
    <2>6. Keeps /\ RestTyped
      BY <1>1, <2>1, <2>2, <2>4, <2>5, SaveKeeps DEF TypeOK, RestTyped
    <2> QED BY <2>1, <2>6, OthersWrite
  <1>8. ASSUME Collect PROVE AppInv'
    <2> DEFINE b == [db EXCEPT !.finalizers = Front(@)]
    <2>1. /\ db # Null /\ db \in Apps /\ UpdateApplication(b)
          /\ db.finalizers # <<>> /\ Last(db.finalizers) = Cascade
          /\ UNCHANGED <<objects, scenario, pending, proc, observer, sched, left>>
      BY <1>1, <1>8 DEF Collect, world, TypeOK
    <2>2. db.finalizers \in Seq({Guard, Cascade})
      BY <2>1 DEF Apps
    <2>3. /\ Front(db.finalizers) \in Seq({Guard, Cascade})
          /\ Guard \in ToSet(db.finalizers) => Guard \in ToSet(Front(db.finalizers))
      BY <2>1, <2>2, FrontTyped
    <2>4. b \in Apps /\ b.finalizers = Front(db.finalizers)
      BY <2>1, <2>3 DEF Apps
    <2> HIDE DEF b
    <2>5. Keeps /\ RestTyped
      BY <1>1, <2>1, <2>3, <2>4, UpdateApplicationKeeps DEF TypeOK, RestTyped
    <2> QED BY <2>1, <2>5, OthersWrite
  <1> QED BY <1>3, <1>4, <1>5, <1>6, <1>7, <1>8

-----------------------------------------------------------------------------
(* The theorems                                                            *)

\* A new application is in deletion nowhere.
LEMMA InitInvariant == Init => AppInv
  <1> SUFFICES ASSUME Init PROVE AppInv
    OBVIOUS
  <1>1. scenario \in AllScenarios
    BY ApplicationAssumption DEF Init
  <1>2. scenario.manifest \in SUBSET Objects /\ left \in [Kinds -> Nat]
    BY <1>1, ApplicationAssumption DEF Init, AllScenarios
  <1>3. db \in Apps
    BY <1>2 DEF Init, Submitted, Apps, Statuses, States, Places
  <1>4. TypeOK
    BY <1>2, <1>3 DEF Init, TypeOK
  <1>5. JobsInPhase /\ DeletionIsLast /\ FinalizerHeld
    BY DEF Init, JobsInPhase, DeletionIsLast, FinalizerHeld, Procs
  <1> QED BY <1>4, <1>5 DEF AppInv

\* Every step of the controller and of those who write to the application keeps the
\* invariant.
LEMMA NextInvariant == AppInv /\ [Next]_vars => AppInv'
  <1> SUFFICES ASSUME AppInv, [Next]_vars PROVE AppInv'
    OBVIOUS
  <1>1. CASE Next
    <2>1. CASE Receive \/ Restart \/ Get
      BY <2>1, ReceiveStep, RestartStep, GetStep
    <2>2. ASSUME NEW p \in Procs, Step(p) \/ ClusterError(p) PROVE AppInv'
      BY <2>2, ReloadStep, SendStatusStep, SendUpdateStep, RefusedStep, KubeDeleteStep,
         KubeApplyStep, TransferStep, ClusterErrorStep DEF Step
    <2>3. CASE CheckShutdown \/ Poll \/ Observe \/ SchedulerTake \/ Schedule
      BY <2>3, CheckShutdownStep, PollStep, ObserveStep, SchedulerStep
    <2>4. CASE \/ \E c \in Clusters : Move(c) \/ Drift(c)
               \/ \E m \in Manifests : UserUpdate(m)
               \/ UserDelete \/ Confirm \/ Retry \/ Collect
      BY <2>4, UserStep
    <2> QED BY <1>1, <2>1, <2>2, <2>3, <2>4 DEF Next
  <1>2. CASE UNCHANGED vars
    <2>1. Keeps /\ RestTyped /\ UNCHANGED <<pending, proc>>
      BY <1>2, IdleKeeps DEF vars, AppInv, TypeOK, RestTyped
    <2> QED BY <2>1, OthersWrite
  <1> QED BY <1>1, <1>2

\* For any clusters, objects, manifests and scenarios, restarts and errors of clusters
\* included, the coroutines of the application controller are at the points their jobs
\* allow, nothing follows a version in deletion, and every version that vouches for
\* the finalizer of the controller is right.
THEOREM ApplicationInvariant == Spec => []AppInv
  <1>1. Init => AppInv
    BY InitInvariant
  <1>2. AppInv /\ [Next]_vars => AppInv'
    BY NextInvariant
  <1> QED BY <1>1, <1>2, PTL DEF Spec

\* Objects are created on a cluster only by the worker, and only while the finalizer of
\* the controller is in the database (_ensure_finalizer, _apply_manifest): a deletion
\* that comes in between cannot complete without the controller.
THEOREM ObjectsAreGuarded == Spec => GuardedApply
  <1> DEFINE A == WorkerReleases =>
                    \A c \in Clusters : ~(objects'[c] \subseteq objects[c]) => Guarded
  <1>1. AppInv /\ [Next]_vars => [A]_vars
    <2> SUFFICES ASSUME AppInv, Next, WorkerReleases,
                        NEW c \in Clusters, ~(objects'[c] \subseteq objects[c])
                 PROVE  Guarded
      BY DEF A
    <2>1. objects \in [Clusters -> SUBSET Objects]
      BY DEF AppInv, TypeOK
    <2>2. ASSUME NEW p \in Procs, KubeDelete(p) PROVE objects'[c] \subseteq objects[c]
      BY <2>1, <2>2 DEF KubeDelete
    <2>3. ASSUME NEW d \in Clusters, Drift(d) PROVE objects'[c] \subseteq objects[c]
      BY <2>1, <2>3 DEF Drift
    <2>4. PICK p \in Procs : KubeApply(p)
      <3>1. UNCHANGED objects \/ (\E p \in Procs : KubeApply(p) \/ KubeDelete(p))
              \/ (\E d \in Clusters : Drift(d))
        BY DEF Next, Step, world, Receive, Restart, Get, Reload, SendStatus, SendUpdate,
               Refused, Transfer, ClusterError, CheckShutdown, Poll, Observe, SchedulerTake,
               Schedule, Move, UserUpdate, UserDelete, Confirm, Retry, Collect
      <3> QED BY <2>2, <2>3, <3>1
    <2>5. /\ proc[p] # Null /\ proc[p].pc = "apply"
          /\ proc[p].job \in {"reconcile", "migrate", "volumes"} /\ p = "worker"
      <3>1. proc[p] # Null /\ proc[p].pc = "apply"
        BY <2>4 DEF KubeApply
      <3>2. proc[p] \in Coroutines /\ Phases(proc[p])
              /\ (p = "task" => proc[p].job \in {"shutdown", "delete"})
        BY <3>1, RunningTyped
      <3> QED BY <3>1, <3>2 DEF Phases, Coroutines, Jobs, Procs
    <2> QED BY <2>5 DEF AppInv, FinalizerHeld, Creating
  <1>2. Spec => []AppInv
    BY ApplicationInvariant
  <1> QED BY <1>1, <1>2, PTL DEF Spec, GuardedApply, A

-----------------------------------------------------------------------------
(* The versions that the worker may take                                   *)

\* Every one of them is a version that was accepted, and there is none if nothing is
\* under way.
LEMMA ComingIsAccepted ==
    ASSUME TypeOK, NewestLast
    PROVE  /\ \A v \in Coming : v \in Apps /\ v # Null /\ ScheduledOrDeleting(v)
           /\ ~Awaited => Coming = {}
           /\ stream = <<>> /\ pending = Null => ~Awaited
  <1>1. \A i \in DOMAIN stream : stream[i] \in Apps
    BY DEF TypeOK
  <1>2. pending # Null => pending \in Apps /\ ScheduledOrDeleting(pending)
    BY DEF TypeOK, NewestLast
  <1>3. Null \notin Apps
    BY ApplicationAssumption
  <1>4. \A v \in Coming : v \in Apps /\ ScheduledOrDeleting(v)
    BY <1>1, <1>2 DEF Coming, Accepted
  <1>5. ~Awaited => Coming = {}
    BY DEF Awaited, Coming
  <1>6. stream = <<>> => Accepted(stream) = {}
    BY DEF Accepted
  <1> QED BY <1>3, <1>4, <1>5, <1>6 DEF Awaited

\* What a write adds: an accepted version, which supersedes all others for a prompt
\* controller.
LEMMA ComingAfterSave ==
    ASSUME TypeOK, NEW a \in Apps, stream' = Append(stream, a), UNCHANGED <<pending, scenario>>
    PROVE  /\ Coming' \subseteq Coming \cup {a}
           /\ ScheduledOrDeleting(a) => Awaited' /\ (scenario.prompt => Coming' = {a})
           /\ Awaited => Awaited'
           /\ ~ScheduledOrDeleting(a) => Coming' = Coming /\ Awaited' = Awaited
  <1> DEFINE n == Len(stream) + 1
             A == Accepted(stream)
  <1>1. /\ stream \in Seq(Apps) /\ DOMAIN stream = 1 .. Len(stream) /\ Len(stream) \in Nat
        /\ DOMAIN stream' = 1 .. n
        /\ stream'[n] = a /\ \A i \in DOMAIN stream : stream'[i] = stream[i]
    BY DEF TypeOK
  <1>2. A \subseteq 1 .. Len(stream)
    BY <1>1 DEF Accepted
  <1>3. Accepted(stream') = A \cup (IF ScheduledOrDeleting(a) THEN {n} ELSE {})
    BY <1>1 DEF Accepted
  <1>4. \A i \in A : stream'[i] = stream[i] /\ i < n
    BY <1>1, <1>2
  <1> HIDE DEF A
  <1>5. CASE ScheduledOrDeleting(a)
    <2>1. Accepted(stream') = A \cup {n}
      BY <1>3, <1>5
    <2>2. Coming' = {stream'[i] : i \in {j \in A \cup {n} :
                         scenario.prompt => \A k \in A \cup {n} : k <= j}}
                      \cup (IF scenario.prompt THEN {} ELSE {pending} \ {Null})
      BY <2>1 DEF Coming
    <2>3. n \in Nat /\ n <= n
      BY <1>1
    <2>4. CASE scenario.prompt
      <3>1. {j \in A \cup {n} : \A k \in A \cup {n} : k <= j} = {n}
        <4>1. \A k \in A : k \in Nat /\ k <= n /\ ~(n <= k)
          BY <1>1, <1>2
        <4> QED BY <2>3, <4>1
      <3>2. Coming' = {stream'[i] : i \in {n}}
        BY <2>2, <2>4, <3>1
      <3> QED BY <1>1, <1>5, <2>1, <3>2, <2>4 DEF Awaited
    <2>5. CASE ~scenario.prompt
      <3>1. Coming = {stream[i] : i \in A} \cup ({pending} \ {Null})
        BY <2>5 DEF Coming, A
      <3>2. Coming' = {stream'[i] : i \in A \cup {n}} \cup ({pending} \ {Null})
        BY <2>2, <2>5
      <3> QED BY <1>1, <1>4, <1>5, <2>1, <2>5, <3>1, <3>2 DEF Awaited
    <2> QED BY <2>4, <2>5
  <1>6. CASE ~ScheduledOrDeleting(a)
    <2>1. Accepted(stream') = A
      BY <1>3, <1>6
    <2>2. Coming' = {stream'[i] : i \in {j \in A : scenario.prompt => \A k \in A : k <= j}}
                      \cup (IF scenario.prompt /\ A # {} THEN {} ELSE {pending} \ {Null})
      BY <2>1 DEF Coming
    <2>3. Coming = {stream[i] : i \in {j \in A : scenario.prompt => \A k \in A : k <= j}}
                     \cup (IF scenario.prompt /\ A # {} THEN {} ELSE {pending} \ {Null})
      BY DEF Coming, A
    <2>4. Coming' = Coming
      BY <1>4, <2>2, <2>3
    <2>5. Awaited' = Awaited
      BY <2>1 DEF Awaited, A
    <2> QED BY <1>6, <2>4, <2>5
  <1> QED BY <1>5, <1>6

\* Receiving a version changes nothing but where it waits, and may drop an older one.
LEMMA ComingAfterReceive ==
    ASSUME TypeOK, NewestLast, Receive
    PROVE  /\ Coming' \subseteq Coming
           /\ Awaited' = Awaited
           /\ NewestLast'
  <1> DEFINE A == Accepted(stream)
             B == Accepted(stream')
             h == Head(stream)
  <1>1. /\ stream \in Seq(Apps) /\ stream # <<>> /\ stream' = Tail(stream)
        /\ pending' = IF ScheduledOrDeleting(h) THEN h ELSE pending
        /\ UNCHANGED <<db, scenario>>
        /\ h \in Apps /\ h # Null /\ h = stream[1] /\ 1 \in DOMAIN stream
    BY ApplicationAssumption DEF TypeOK, Receive, world
  <1>2. /\ stream' \in Seq(Apps) /\ Len(stream) \in Nat
        /\ \A i \in DOMAIN stream' :
             i \in Nat /\ i + 1 \in DOMAIN stream /\ stream'[i] = stream[i + 1]
        /\ \A i \in DOMAIN stream :
             i # 1 => i \in Nat /\ i - 1 \in DOMAIN stream' /\ i = (i - 1) + 1
    BY <1>1
  <1>3. \A i \in B : i + 1 \in A
    BY <1>2 DEF Accepted
  <1>4. \A i \in A : i # 1 => i - 1 \in B
    BY <1>2 DEF Accepted
  <1>5. 1 \in A <=> ScheduledOrDeleting(h)
    BY <1>1 DEF Accepted
  <1>6. A \subseteq Nat /\ B \subseteq DOMAIN stream' /\ B \subseteq Nat
    BY <1>1, <1>2 DEF Accepted
  <1> HIDE DEF A, B, h
  <1>7. Awaited' = Awaited
    <2>1. Awaited <=> pending # Null \/ A # {}
      BY DEF Awaited, A
    <2>2. Awaited' <=> pending' # Null \/ B # {}
      BY DEF Awaited, B
    <2>3. A # {} => ScheduledOrDeleting(h) \/ B # {}
      BY <1>4, <1>5
    <2>4. B # {} => A # {}
      BY <1>3
    <2>5. Awaited' <=> Awaited
      BY <1>1, <1>5, <2>1, <2>2, <2>3, <2>4
    <2> QED BY <2>5 DEF Awaited
  <1>8. Coming' \subseteq Coming
    <2> SUFFICES ASSUME NEW v \in Coming' PROVE v \in Coming
      OBVIOUS
    <2>1. Coming = {stream[i] : i \in {j \in A : scenario.prompt => \A k \in A : k <= j}}
                     \cup (IF scenario.prompt /\ A # {} THEN {} ELSE {pending} \ {Null})
      BY DEF Coming, A
    <2>2. Coming' = {stream'[i] : i \in {j \in B : scenario.prompt => \A k \in B : k <= j}}
                      \cup (IF scenario.prompt /\ B # {} THEN {} ELSE {pending'} \ {Null})
      BY <1>1 DEF Coming, B
    <2>3. ASSUME NEW i \in B, scenario.prompt => \A k \in B : k <= i, v = stream'[i]
          PROVE  v \in Coming
      <3>1. i + 1 \in A /\ v = stream[i + 1]
        BY <1>2, <1>3, <1>6, <2>3
      <3>2. ASSUME scenario.prompt, NEW k \in A PROVE k <= i + 1
        <4>1. k # 1 => k - 1 <= i
          BY <1>4, <2>3, <3>2
        <4>2. k \in Nat /\ i \in Nat
          BY <1>6
        <4> QED BY <4>1, <4>2
      <3> QED BY <2>1, <3>1, <3>2
    <2>4. ASSUME ~(scenario.prompt /\ B # {}), v = pending', v # Null
          PROVE  v \in Coming
      <3>1. CASE ScheduledOrDeleting(h)
        <4>1. v = stream[1] /\ 1 \in A
          BY <1>1, <1>5, <2>4, <3>1
        <4>2. scenario.prompt => \A k \in A : k = 1
          BY <1>4, <2>4
        <4>3. scenario.prompt => \A k \in A : k <= 1
          BY <4>2
        <4> QED BY <2>1, <4>1, <4>3
      <3>2. CASE ~ScheduledOrDeleting(h)
        <4>1. v = pending
          BY <1>1, <2>4, <3>2
        <4>2. B = {} => A = {}
          BY <1>4, <1>5, <3>2
        <4> QED BY <2>1, <2>4, <4>1, <4>2
      <3> QED BY <3>1, <3>2
    <2> QED BY <2>2, <2>3, <2>4
  <1>9. NewestLast'
    <2>1. stream' # <<>> => Last(stream') = Last(stream)
      BY <1>1 DEF Last
    <2>2. stream' = <<>> => Last(stream) = h
      <3>1. Len(stream') = Len(stream) - 1 /\ Len(stream) \in Nat
        BY <1>1
      <3>2. stream' = <<>> => Len(stream) = 1
        BY <3>1
      <3> QED BY <1>1, <3>2 DEF Last
    <2>3. pending' # Null => ScheduledOrDeleting(pending')
      BY <1>1 DEF NewestLast
    <2>4. db # Null => Last(stream) = db
      BY <1>1 DEF NewestLast
    <2> QED BY <1>1, <2>1, <2>2, <2>3, <2>4 DEF NewestLast
  <1> QED BY <1>7, <1>8, <1>9

\* What the worker takes is one of them; a prompt controller then has none left.
LEMMA ComingAfterGet ==
    ASSUME TypeOK, NewestLast, Get
    PROVE  /\ pending \in Coming
           /\ Coming' \subseteq Coming
           /\ NewestLast'
           /\ ~Awaited' /\ db # Null /\ ScheduledOrDeleting(db) => stream = <<>> /\ pending = db
           /\ db # Null /\ ScheduledOrDeleting(db) => Awaited' \/ pending = db
           /\ scenario.prompt => ~Awaited' /\ Coming' = {}
  <1>1. /\ pending # Null /\ pending' = Null /\ (scenario.prompt => stream = <<>>)
        /\ UNCHANGED <<db, stream, scenario>> /\ stream \in Seq(Apps)
    BY DEF Get, world, TypeOK
  <1>2. stream = <<>> => Accepted(stream) = {}
    BY DEF Accepted
  <1>3. Coming' = {stream[i] : i \in {j \in Accepted(stream) :
                                       scenario.prompt => \A k \in Accepted(stream) : k <= j}}
    BY <1>1 DEF Coming
  <1>4. pending \in Coming /\ Coming' \subseteq Coming
    BY <1>1, <1>2, <1>3 DEF Coming
  <1>5. NewestLast'
    BY <1>1 DEF NewestLast
  <1>6. Awaited' <=> Accepted(stream) # {}
    BY <1>1 DEF Awaited
  <1>7. ASSUME db # Null, ScheduledOrDeleting(db), ~Awaited'
        PROVE  stream = <<>> /\ pending = db
    <2>1. ASSUME stream # <<>> PROVE FALSE
      <3>1. Last(stream) = db
        BY <1>7, <2>1 DEF NewestLast
      <3>2. Len(stream) \in DOMAIN stream /\ stream[Len(stream)] = db
        BY <1>1, <2>1, <3>1 DEF Last
      <3> QED BY <1>6, <1>7, <3>2 DEF Accepted
    <2> QED BY <1>1, <1>7, <2>1 DEF NewestLast
  <1> QED BY <1>1, <1>2, <1>3, <1>4, <1>5, <1>6, <1>7

\* A step that leaves the versions alone
LEMMA ComingUnchanged ==
    ASSUME UNCHANGED <<db, stream, pending, scenario>>
    PROVE  Coming' = Coming /\ Awaited' = Awaited /\ (NewestLast => NewestLast')
  BY DEF Coming, Awaited, NewestLast

\* After a restart it is the present version, if it is accepted.
LEMMA ComingAfterRestart ==
    ASSUME TypeOK, Restart
    PROVE  /\ Coming' \subseteq {db} /\ NewestLast'
           /\ Awaited' <=> db # Null /\ ScheduledOrDeleting(db)
  <1>1. /\ stream' = <<>> /\ UNCHANGED <<db, scenario>>
        /\ pending' = IF db # Null /\ ScheduledOrDeleting(db) THEN db ELSE Null
    BY DEF Restart, world
  <1>2. Accepted(stream') = {}
    BY <1>1 DEF Accepted
  <1> QED BY <1>1, <1>2 DEF Coming, Awaited, NewestLast

\* A write ends the queue with the present version.
LEMMA NewestAfterSave ==
    ASSUME TypeOK, NewestLast, NEW a \in Apps, Save(a), UNCHANGED pending
    PROVE  NewestLast'
  <1>1. db' = a /\ stream' = Append(stream, a) /\ stream \in Seq(Apps)
    BY DEF Save, TypeOK
  <1>2. stream' # <<>> /\ Last(stream') = a
    BY <1>1 DEF Last
  <1> QED BY <1>1, <1>2 DEF NewestLast

-----------------------------------------------------------------------------
(* Objects and copies                                                      *)

\* What is known of objects stays true when some of them are deleted.
LEMMA Shrinking ==
    ASSUME NEW x, NEW y, \A c \in Clusters : y[c] \subseteq x[c]
    PROVE  /\ \A place, set : Within(x, place, set) => Within(y, place, set)
           /\ \A s : Known(x, s) => Known(y, s)
           /\ \A s, m, set : Explained(x, s, m, set) => Explained(y, s, m, set)
           /\ \A a : Sound(x, a) => Sound(y, a)
           /\ \A o : Reports(x, o) => Reports(y, o)
           /\ \A o, b : Observing(x, o, b) => Observing(y, o, b)
           /\ \A w : Cleaning(x, w) => Cleaning(y, w)
           /\ \A w, b : Working(x, w, b) => Working(y, w, b)
  <1>1. \A place, set : Within(x, place, set) => Within(y, place, set)
    BY DEF Within
  <1>2. \A s : Known(x, s) => Known(y, s)
    BY <1>1 DEF Known
  <1>3. \A s, m, set : Explained(x, s, m, set) => Explained(y, s, m, set)
    <2> SUFFICES ASSUME NEW s, NEW m, NEW set, Explained(x, s, m, set), NEW c \in Clusters
                 PROVE  y[c] \subseteq (IF c = s.scheduled_to THEN m ELSE {})
                                          \cup (IF c = s.running_on THEN set ELSE {})
      BY DEF Explained
    <2> QED BY DEF Explained
  <1>4. \A a : Sound(x, a) => Sound(y, a)
    BY <1>3 DEF Sound
  <1>5. \A o : Reports(x, o) => Reports(y, o)
    BY <1>1, <1>2 DEF Reports
  <1>6. \A o, b : Observing(x, o, b) => Observing(y, o, b)
    BY <1>3 DEF Observing
  <1>7. \A w : Cleaning(x, w) => Cleaning(y, w)
    <2>1. (\A c \in Clusters : x[c] = {}) => \A c \in Clusters : y[c] = {}
      OBVIOUS
    <2> QED BY <1>1, <1>2, <2>1 DEF Cleaning
  <1>8. \A w, b : Working(x, w, b) => Working(y, w, b)
    BY <1>1, <1>2, <1>4 DEF Working, Reconciling, Migrating
  <1> QED BY <1>1, <1>2, <1>3, <1>4, <1>5, <1>6, <1>7, <1>8

\* update_application_status
LEMMA StatusSaved ==
    ASSUME TypeOK, NEW st \in Statuses, UpdateStatus(st)
    PROVE  /\ db # Null /\ db \in Apps /\ db' \in Apps /\ Save(db')
           /\ db' = [db EXCEPT !.status = st] /\ db'.status = st
           /\ db'.deleted = db.deleted /\ db'.finalizers = db.finalizers
           /\ db'.owners = db.owners /\ db'.manifest = db.manifest
           /\ db'.modified = db.modified
  <1>1. db # Null /\ db \in Apps /\ db' = [db EXCEPT !.status = st] /\ Save(db')
    BY DEF TypeOK, UpdateStatus, Save
  <1> QED BY <1>1 DEF Apps

\* update_application, which may remove an application in deletion
LEMMA ApplicationSaved ==
    ASSUME TypeOK, NEW b \in Apps, UpdateApplication(b)
    PROVE  /\ db # Null /\ db \in Apps
           /\ \/ db.deleted /\ b.finalizers = <<>> /\ Erase
              \/ /\ db' \in Apps /\ Save(db') /\ db'.status = db.status
                 /\ db'.deleted = db.deleted /\ db'.finalizers = b.finalizers
                 /\ db'.owners = b.owners /\ db'.manifest = b.manifest
                 /\ db'.modified = db.modified + 1
  <1>1. db # Null /\ db \in Apps
    BY DEF UpdateApplication, Allowed, TypeOK
  <1>2. CASE db.deleted /\ b.finalizers = <<>>
    BY <1>1, <1>2 DEF UpdateApplication
  <1>3. CASE ~(db.deleted /\ b.finalizers = <<>>)
    <2> DEFINE n == db.modified + 1
               a == [db EXCEPT !.finalizers = b.finalizers, !.owners = b.owners,
                               !.manifest = b.manifest, !.modified = n]
    <2>1. Save(a)
      BY <1>3 DEF UpdateApplication
    <2>2. n \in Nat
      BY <1>1 DEF Apps
    <2> HIDE DEF n
    <2>3. /\ a \in Apps /\ a.status = db.status
          /\ a.deleted = db.deleted /\ a.finalizers = b.finalizers
          /\ a.owners = b.owners /\ a.manifest = b.manifest /\ a.modified = n
      BY <1>1, <2>2 DEF Apps
    <2> HIDE DEF a
    <2>4. db' = a
      BY <2>1 DEF Save
    <2> QED BY <1>1, <2>1, <2>3, <2>4 DEF n
  <1> QED BY <1>2, <1>3

\* What a write changes in the queue
LEMMA WriteQueued ==
    ASSUME TypeOK, NewestLast, db # Null, UNCHANGED <<pending, scenario>>,
           Erase \/ (db' \in Apps /\ Save(db'))
    PROVE  /\ NewestLast'
           /\ \A v \in Coming' : v \in Coming \/ (v = db' /\ db' # Null)
           /\ Awaited => Awaited'
  <1>1. CASE Erase
    <2>1. Coming' = Coming /\ Awaited' = Awaited
      BY <1>1 DEF Erase, Coming, Awaited
    <2>2. NewestLast'
      BY <1>1 DEF Erase, NewestLast
    <2> QED BY <2>1, <2>2
  <1>2. CASE db' \in Apps /\ Save(db')
    <2>1. stream' = Append(stream, db') /\ db' # Null
      BY <1>2, ApplicationAssumption DEF Save
    <2>2. \A a \in Apps : a = db' =>
            Coming' \subseteq Coming \cup {a} /\ (Awaited => Awaited')
      BY <2>1, ComingAfterSave
    <2>3. NewestLast'
      BY <1>2, NewestAfterSave
    <2> QED BY <1>2, <2>1, <2>2, <2>3
  <1> QED BY <1>1, <1>2

-----------------------------------------------------------------------------
(* An application in deletion                                              *)

\* What all steps of a sheltered scenario start from
Lawful == AppInv /\ Sheltered /\ Accounted

\* A step on an application in deletion leaves nothing unknown that was known.
Removes ==
    /\ UNCHANGED scenario
    /\ Gone'
    /\ \A c \in Clusters : objects'[c] \subseteq objects[c]
    /\ ~Guarded' => \A c \in Clusters : objects'[c] = {}
    /\ db' # Null => /\ Known(objects', db'.status)
                     /\ \A c \in Clusters : objects'[c] # {} => c \in db'.owners
    /\ \A v \in Coming' : v \in Coming \/ (v = db' /\ db' # Null)
    /\ \A p \in Procs : proc'[p] # Null => Cleaning(objects', proc'[p])
    /\ observer' # Null => Reports(objects', observer')

\* It keeps the account of what exists.
LEMMA RemovesKeeps ==
    ASSUME Lawful, Gone, Removes
    PROVE  Dying'
  <1>1. \A s : Known(objects, s) => Known(objects', s)
    BY Shrinking DEF Removes
  <1>2. \A v \in Coming' : v.deleted /\ Known(objects', v.status)
    BY <1>1 DEF Lawful, Accounted, Dying, Removes, Gone
  <1> QED BY <1>2 DEF Removes, Dying

\* Where the objects are in deletion, nothing else changes.
LEMMA RemovesObserver ==
    ASSUME Lawful, Gone,
           UNCHANGED <<db, stream, pending, proc, scenario>>,
           \A c \in Clusters : objects'[c] \subseteq objects[c],
           observer' # Null => Reports(objects', observer')
    PROVE  Removes
  <1>1. Gone' = Gone /\ Guarded' = Guarded
    BY DEF Gone, Guarded
  <1>2. Coming' = Coming
    BY ComingUnchanged
  <1>3. /\ \A s : Known(objects, s) => Known(objects', s)
        /\ \A w : Cleaning(objects, w) => Cleaning(objects', w)
    BY Shrinking
  <1> QED BY <1>1, <1>2, <1>3 DEF Lawful, Accounted, Dying, Removes

\* What the account says of an application in deletion
LEMMA DyingFacts ==
    ASSUME Lawful, Gone
    PROVE  /\ AppInv /\ TypeOK /\ NewestLast
           /\ ~Guarded => \A c \in Clusters : objects[c] = {}
           /\ db # Null => /\ db \in Apps /\ db.deleted /\ Known(objects, db.status)
                           /\ \A c \in Clusters : objects[c] # {} => c \in db.owners
           /\ \A v \in Coming : v \in Apps /\ v.deleted /\ Known(objects, v.status)
           /\ \A p \in Procs : proc[p] # Null =>
                /\ Cleaning(objects, proc[p]) /\ proc[p] \in Coroutines /\ Phases(proc[p])
                /\ proc[p].app \in Apps
           /\ observer # Null => Reports(objects, observer) /\ observer \in Observers
  <1>1. AppInv /\ TypeOK /\ NewestLast
    BY DEF Lawful, Accounted, AppInv
  <1>2. \A v \in Coming : v \in Apps
    BY <1>1, ComingIsAccepted
  <1>3. \A p \in Procs : proc[p] # Null =>
          proc[p] \in Coroutines /\ Phases(proc[p]) /\ proc[p].app \in Apps
    BY <1>1, RunningTyped
  <1> QED BY <1>1, <1>2, <1>3 DEF Lawful, Accounted, Dying, Gone, TypeOK

\* The end of the deletion of objects leaves none.
LEMMA CleaningSettled ==
    ASSUME NEW objs, NEW w \in Coroutines, Phases(w), Cleaning(objs, w)
    PROVE  Cleaning(objs, Settled(w))
  <1>1. w.pc # "apply" /\ (w.pc = "remove" => w.job = "delete")
    BY DEF Phases, Cleaning
  <1>2. CASE w.pc = "remove" /\ w.rm = {}
    <2>1. \A c \in Clusters : objs[c] = {}
      BY <1>1, <1>2 DEF Cleaning, Within
    <2>2. Removed(w).pc \in {"apply", "status", "error"} /\ Removed(w).job = "delete"
      BY <1>1, <1>2, RemovedTyped DEF Goes
    <2>3. Removed(w).pc # "apply"
      BY <2>2, <1>1, <1>2, RemovedTyped DEF Goes, Phases
    <2>4. Settled(w) = Removed(w)
      BY <1>2, <2>3 DEF Settled
    <2> QED BY <2>1, <2>2, <2>3, <2>4 DEF Cleaning
  <1>3. CASE ~(w.pc = "remove" /\ w.rm = {})
    <2>1. Settled(w) = w
      BY <1>1, <1>3 DEF Settled
    <2> QED BY <2>1
  <1> QED BY <1>2, <1>3

\* What is known is what _delete_application removes.
LEMMA KnownToRemove ==
    ASSUME NEW objs, NEW s, Known(objs, s)
    PROVE  Within(objs, s.running_on, IF s.running_on = Null THEN {} ELSE s.observed)
  BY ApplicationAssumption DEF Known, Within

\* A deletion begins with a version that is known.
LEMMA DyingQueue ==
    ASSUME Lawful, Gone, Receive \/ Restart \/ Get
    PROVE  Removes /\ NewestLast'
  <1> USE DyingFacts
  <1>1. CASE Receive
    <2>1. Coming' \subseteq Coming /\ NewestLast'
      BY <1>1, ComingAfterReceive
    <2>2. UNCHANGED <<db, objects, scenario, proc, observer>>
      BY <1>1 DEF Receive, world
    <2>3. Gone' = Gone /\ Guarded' = Guarded
      BY <2>2 DEF Gone, Guarded
    <2> QED BY <2>1, <2>2, <2>3 DEF Removes
  <1>2. CASE Restart
    <2>1. Coming' \subseteq {db} /\ NewestLast' /\ (Awaited' => db # Null)
      BY <1>2, ComingAfterRestart
    <2>2. /\ UNCHANGED <<db, objects, scenario>> /\ proc' = [p \in Procs |-> Null]
          /\ observer' = IF db = Null THEN Null ELSE Watching(db)
          /\ stream' = <<>> /\ (pending' # Null => db # Null)
      BY <1>2 DEF Restart, world
    <2>3. Gone' = Gone /\ Guarded' = Guarded
      BY <2>2 DEF Gone, Guarded
    <2>4. db # Null => Within(objects, db.status.running_on, db.status.applied)
      BY DEF Known, Within
    <2>5. observer' # Null => Reports(objects', observer')
      BY <2>2, <2>4 DEF Reports, Watching
    <2>6. db = Null => Coming' = {}
      BY <2>2 DEF Coming, Accepted
    <2> QED BY <2>1, <2>2, <2>3, <2>5, <2>6 DEF Removes
  <1>3. CASE Get
    <2> DEFINE d == Dispatch(pending)
    <2>1. Coming' \subseteq Coming /\ NewestLast' /\ pending \in Coming
      BY <1>3, ComingAfterGet
    <2>2. UNCHANGED <<db, objects, scenario>>
      BY <1>3 DEF Get, world
    <2>3. Gone' = Gone /\ Guarded' = Guarded
      BY <2>2 DEF Gone, Guarded
    <2>4. pending \in Apps /\ pending.deleted /\ Known(objects, pending.status)
      BY <2>1
    <2>5. d # Null => /\ d.job \in {"shutdown", "delete"} /\ d.pc \in {"trigger", "mark"}
                      /\ d.app = pending
                      /\ d.job = "delete" => d.rm = IF pending.status.running_on = Null THEN {}
                                                    ELSE pending.status.observed
      BY <2>4 DEF Dispatch, Coroutine
    <2>7. d # Null => ~UpToDate(d)
      BY <2>5 DEF UpToDate
    <2> HIDE DEF d
    <2>6. d # Null => Cleaning(objects, d)
      BY <2>4, <2>5, KnownToRemove DEF Cleaning
    <2>8. proc' = [proc EXCEPT !["worker"] = d] /\ (observer' = observer \/ observer' = Null)
      BY <1>3, <2>7 DEF Get, Touches, d
    <2>9. \A p \in Procs : proc'[p] = proc[p] \/ proc'[p] = d
      BY <2>8 DEF TypeOK
    <2> QED BY <2>1, <2>2, <2>3, <2>6, <2>8, <2>9 DEF Removes
  <1> QED BY <1>1, <1>2, <1>3

\* The copy that a status update sends tells the same of the objects.
LEMMA MarkedKeeps ==
    ASSUME NEW w \in Coroutines, w.pc # "failed"
    PROVE  LET a == Marked(w) IN
           /\ a \in Apps /\ a.status \in Statuses
           /\ a.deleted = w.app.deleted /\ a.finalizers = w.app.finalizers
           /\ a.owners = w.app.owners /\ a.manifest = w.app.manifest
           /\ a.status.scheduled_to = w.app.status.scheduled_to
           /\ a.status.running_on = w.app.status.running_on
           /\ a.status.applied = w.app.status.applied
           /\ a.status.observed = w.app.status.observed
           /\ a.status.triggered = w.app.status.triggered
           /\ w.pc \notin {"mark", "trigger", "give_up"} => a = w.app
           /\ w.pc # "trigger" => a.status.grace = w.app.status.grace
           /\ w.pc = "mark" /\ w.job = "reconcile" => a.status.state \in {"CREATING", "RECONCILING"}
           /\ w.pc = "mark" /\ w.job = "migrate" => a.status.state = "MIGRATING"
  <1>1. w.app \in Apps
    BY DEF Coroutines
  <1>2. \A a \in Apps : \A st \in States :
          LET b == [a EXCEPT !.status.state = st] IN
          /\ b \in Apps /\ b.status \in Statuses /\ b.status.state = st
          /\ b.deleted = a.deleted /\ b.finalizers = a.finalizers
          /\ b.owners = a.owners /\ b.manifest = a.manifest
          /\ b.status.scheduled_to = a.status.scheduled_to
          /\ b.status.running_on = a.status.running_on
          /\ b.status.applied = a.status.applied
          /\ b.status.observed = a.status.observed
          /\ b.status.triggered = a.status.triggered
          /\ b.status.grace = a.status.grace
    BY DEF Apps, Statuses
  <1>3. \A a \in Apps :
          LET b == [a EXCEPT !.status.grace = TRUE] IN
          /\ b \in Apps /\ b.status \in Statuses
          /\ b.deleted = a.deleted /\ b.finalizers = a.finalizers
          /\ b.owners = a.owners /\ b.manifest = a.manifest
          /\ b.status.scheduled_to = a.status.scheduled_to
          /\ b.status.running_on = a.status.running_on
          /\ b.status.applied = a.status.applied
          /\ b.status.observed = a.status.observed
          /\ b.status.triggered = a.status.triggered
    BY DEF Apps, Statuses
  <1>4. w.app.status \in Statuses
    BY <1>1 DEF Apps
  <1>5. CASE w.pc = "mark"
    <2>1. PICK st \in States :
            /\ Marked(w) = [w.app EXCEPT !.status.state = st]
            /\ w.job = "reconcile" => st \in {"CREATING", "RECONCILING"}
            /\ w.job = "migrate" => st = "MIGRATING"
      BY <1>5 DEF Marked, States
    <2> QED BY <1>1, <1>2, <1>5, <2>1
  <1>6. CASE w.pc = "give_up"
    <2>1. Marked(w) = [w.app EXCEPT !.status.state = "DEGRADED"] /\ "DEGRADED" \in States
      BY <1>6 DEF Marked, States
    <2> QED BY <1>1, <1>2, <1>6, <2>1
  <1>7. CASE w.pc = "trigger"
    <2>1. Marked(w) = [w.app EXCEPT !.status.grace = TRUE]
      BY <1>7 DEF Marked
    <2> QED BY <1>1, <1>3, <1>7, <2>1
  <1>8. CASE w.pc \notin {"mark", "trigger", "give_up"}
    <2>1. Marked(w) = w.app
      BY <1>8 DEF Marked
    <2> QED BY <1>1, <1>4, <1>8, <2>1
  <1> QED BY <1>5, <1>6, <1>7, <1>8

\* Each report of a shutdown or deletion tells what is left.
LEMMA DyingStatus ==
    ASSUME Lawful, Gone, NEW p \in Procs, SendStatus(p)
    PROVE  Removes /\ NewestLast'
  <1> USE DyingFacts
  <1> DEFINE w == proc[p]
             a == Marked(w)
  <1>1. /\ w # Null /\ w.pc \in {"mark", "trigger", "status", "give_up", "failed"}
        /\ UpdateStatus(a.status)
        /\ UNCHANGED <<objects, scenario, pending>>
    BY DEF SendStatus, world
  <1>2. /\ w \in Coroutines /\ Phases(w) /\ w.app \in Apps /\ Cleaning(objects, w)
        /\ w.pc # "failed" /\ w.job \in {"shutdown", "delete"}
    BY <1>1 DEF Cleaning
  <1>3. /\ a \in Apps /\ a.status \in Statuses
        /\ a.deleted = w.app.deleted /\ a.finalizers = w.app.finalizers
        /\ a.status.running_on = w.app.status.running_on
        /\ a.status.applied = w.app.status.applied
        /\ a.status.observed = w.app.status.observed
    BY <1>2, MarkedKeeps
  <1> HIDE DEF a, w
  <1>4. Known(objects, a.status)
    <2>1. CASE w.pc = "status"
      <3>1. w.job = "delete"
        BY <1>2, <2>1 DEF Phases
      <3> QED BY <1>2, <2>1, <3>1 DEF Cleaning, Known, Within
    <2>2. CASE w.pc # "status"
      <3>1. Known(objects, w.app.status)
        BY <1>1, <1>2, <2>2 DEF Cleaning
      <3> QED BY <1>3, <3>1 DEF Known
    <2> QED BY <2>1, <2>2
  <1>5. /\ db' \in Apps /\ Save(db') /\ db'.status = a.status /\ db'.deleted = db.deleted
        /\ db'.finalizers = db.finalizers /\ db'.owners = db.owners
        /\ db # Null /\ db' # Null
    BY <1>1, <1>3, StatusSaved, ApplicationAssumption
  <1>6. NewestLast' /\ \A v \in Coming' : v \in Coming \/ (v = db' /\ db' # Null)
    BY <1>1, <1>5, WriteQueued
  <1>7. Gone' /\ (Guarded' <=> Guarded)
    BY <1>5 DEF Gone, Guarded
  <1>8. /\ proc \in [Procs -> Coroutines \cup {Null}]
        /\ observer' = observer
        /\ \/ Return(p)
           \/ /\ w.pc = "mark"
              /\ Continue(p, AfterMark(w, a))
           \/ /\ w.pc = "trigger"
              /\ proc' = [proc EXCEPT ![p] = Null,
                            !["task"] = [w EXCEPT !.pc = "check", !.app = a,
                                                  !.tries = ShutdownRetries + 1]]
           \/ /\ w.pc = "status" /\ w.job = "delete"
              /\ Continue(p, [w EXCEPT !.pc = "update"])
    <2>1. proc \in [Procs -> Coroutines \cup {Null}]
      BY DEF TypeOK
    <2>2. Finish(p, w) => Return(p) /\ observer' = observer
      BY <1>2 DEF Finish
    <2> QED BY <1>2, <2>1, <2>2 DEF SendStatus, AfterMark, a, w
  <1>9. \A q \in Procs : proc'[q] # Null => Cleaning(objects, proc'[q])
    <2>1. CASE Return(p)
      BY <1>8, <2>1 DEF Return
    <2>2. CASE w.pc = "mark" /\ Continue(p, AfterMark(w, a))
      <3> DEFINE v == AfterMark(w, a)
      <3>1. v \in Coroutines /\ Phases(v)
        BY <1>2, <1>3, <2>2, AfterMarkGoes DEF SameMeta, Goes
      <3>2. /\ v.job = w.job /\ v.rm = w.rm /\ v.app = a
            /\ v.pc = IF w.job = "shutdown" THEN "trigger" ELSE "remove"
        BY <1>2 DEF AfterMark, Coroutines
      <3> HIDE DEF v
      <3>3. Cleaning(objects, v)
        BY <1>2, <1>3, <1>4, <2>2, <3>2 DEF Cleaning
      <3>4. Cleaning(objects, Settled(v))
        BY <3>1, <3>3, CleaningSettled
      <3> QED BY <1>8, <2>2, <3>4 DEF Continue, v
    <2>3. CASE /\ w.pc = "trigger"
               /\ proc' = [proc EXCEPT ![p] = Null,
                            !["task"] = [w EXCEPT !.pc = "check", !.app = a,
                                                  !.tries = ShutdownRetries + 1]]
      <3> DEFINE v == [w EXCEPT !.pc = "check", !.app = a, !.tries = ShutdownRetries + 1]
      <3>1. v.pc = "check" /\ v.app = a /\ v.job = w.job /\ w.job = "shutdown"
        BY <1>2, <2>3 DEF Coroutines, Phases
      <3> HIDE DEF v
      <3>2. Cleaning(objects, v)
        BY <1>4, <3>1 DEF Cleaning
      <3>3. \A q \in Procs : proc'[q] \in {proc[q], Null, v}
        BY <1>8, <2>3 DEF v, Procs
      <3> QED BY <3>2, <3>3
    <2>4. CASE w.pc = "status" /\ w.job = "delete" /\ Continue(p, [w EXCEPT !.pc = "update"])
      <3> DEFINE v == [w EXCEPT !.pc = "update"]
      <3>1. v.pc = "update" /\ v.job = "delete" /\ Settled(v) = v
        BY <1>2, <2>4 DEF Coroutines, Settled
      <3> HIDE DEF v
      <3>2. Cleaning(objects, v)
        BY <1>2, <2>4, <3>1 DEF Cleaning
      <3> QED BY <1>8, <2>4, <3>1, <3>2 DEF Continue, v
    <2> QED BY <1>8, <2>1, <2>2, <2>3, <2>4
  <1> QED BY <1>1, <1>4, <1>5, <1>6, <1>7, <1>8, <1>9 DEF Removes

\* The last write of a deletion, after the objects are gone, removes the finalizer.
LEMMA DyingUpdate ==
    ASSUME Lawful, Gone, NEW p \in Procs, SendUpdate(p)
    PROVE  Removes /\ NewestLast'
  <1> USE DyingFacts
  <1> DEFINE w == proc[p]
  <1>1. w # Null /\ w.pc \in {"finalizer", "update"} /\ UNCHANGED <<objects, scenario, pending>>
    BY DEF SendUpdate, world
  <1>2. /\ w \in Coroutines /\ w.app \in Apps /\ w.job = "delete" /\ w.pc = "update"
        /\ \A c \in Clusters : objects[c] = {}
    BY <1>1 DEF Cleaning, Phases
  <1>3. UpdateApplication(w.app) /\ Finish(p, w)
    BY <1>2 DEF SendUpdate
  <1>4. Return(p) /\ observer' = observer
    BY <1>2, <1>3 DEF Finish
  <1>5. \A q \in Procs : proc'[q] # Null => Cleaning(objects, proc'[q])
    BY <1>4 DEF Return, TypeOK
  <1> HIDE DEF w
  <1>6. db # Null /\ (Erase \/ (db' \in Apps /\ Save(db') /\ db'.deleted = db.deleted))
    <2> DEFINE b == w.app
    <2>1. b \in Apps /\ UpdateApplication(b) /\ TypeOK
      BY <1>2, <1>3
    <2> HIDE DEF b
    <2> QED BY <2>1, ApplicationSaved
  <1>7. NewestLast' /\ \A v \in Coming' : v \in Coming \/ (v = db' /\ db' # Null)
    BY <1>1, <1>6, WriteQueued
  <1>8. Gone'
    BY <1>6 DEF Gone, Erase
  <1> QED BY <1>1, <1>2, <1>4, <1>5, <1>6, <1>7, <1>8 DEF Removes, Known, Within

\* A refused request ends the handling; in deletion nothing is created, transferred or
\* read again.
LEMMA DyingCoroutine ==
    ASSUME Lawful, Gone, NEW p \in Procs,
           \/ Refused(p) \/ KubeDelete(p) \/ KubeApply(p) \/ Transfer(p) \/ Reload(p)
           \/ ClusterError(p)
    PROVE  Removes /\ NewestLast'
  <1> USE DyingFacts
  <1> DEFINE w == proc[p]
  <1>1. /\ w # Null /\ w \in Coroutines /\ Phases(w) /\ w.app \in Apps /\ Cleaning(objects, w)
        /\ w.job \in {"shutdown", "delete"} /\ w.pc \notin {"read", "apply", "transfer"}
        /\ w.job = "shutdown" => w.pc # "remove"
    <2>1. w # Null
      BY DEF Refused, KubeDelete, KubeApply, Transfer, Reload, ClusterError
    <2> QED BY <2>1 DEF Cleaning, Phases
  <1>2. ~KubeApply(p) /\ ~Transfer(p) /\ ~Reload(p)
    BY <1>1 DEF KubeApply, Transfer, Reload
  <1>3. ~ClusterError(p)
    BY DEF Lawful, Sheltered, Accounted, ClusterError, Spend, Kinds
  <1>4. CASE Refused(p)
    <2>1. /\ UNCHANGED <<db, objects, scenario, stream, pending, observer>>
          /\ proc' = [proc EXCEPT ![p] = Null]
      BY <1>4 DEF Refused, Return, world
    <2>2. Coming' = Coming /\ NewestLast'
      BY <2>1, ComingUnchanged
    <2>3. Gone' = Gone /\ Guarded' = Guarded
      BY <2>1 DEF Gone, Guarded
    <2>4. \A q \in Procs : proc'[q] # Null => Cleaning(objects, proc'[q])
      BY <2>1 DEF TypeOK
    <2> QED BY <2>1, <2>2, <2>3, <2>4 DEF Removes
  <1>5. CASE KubeDelete(p)
    <2> DEFINE c == w.app.status.running_on
    <2>1. w.job = "delete" /\ w.pc = "remove"
      BY <1>1, <1>5 DEF KubeDelete
    <2>2. PICK o \in w.rm :
            /\ objects' = [objects EXCEPT ![c] = @ \ {o}]
            /\ Continue(p, [w EXCEPT !.rm = @ \ {o},
                               !.app.status.observed = IF w.job = "volumes" THEN @ ELSE @ \ {o}])
      BY <1>5, <2>1 DEF KubeDelete, Vacated
    <2> DEFINE v == [w EXCEPT !.rm = w.rm \ {o},
                              !.app.status.observed = w.app.status.observed \ {o}]
    <2>3. UNCHANGED <<db, stream, pending, observer, scenario>> /\ Continue(p, v)
      BY <1>5, <2>1, <2>2 DEF KubeDelete
    <2>4. /\ v \in Coroutines /\ v.pc = "remove" /\ v.job = "delete" /\ v.rm = w.rm \ {o}
          /\ v.app.status.running_on = c /\ v.app.status.applied = w.app.status.applied
          /\ v.app.status.observed = w.app.status.observed \ {o}
      BY <1>1, <2>1 DEF Coroutines, Apps, Statuses
    <2> HIDE DEF v, w
    <2>5. objects \in [Clusters -> SUBSET Objects]
      BY DEF TypeOK
    <2>6. /\ \A d \in Clusters : objects'[d] \subseteq objects[d]
          /\ \A d \in Clusters : d = c => objects'[d] = objects[d] \ {o}
      BY <2>2, <2>5
    <2>7. /\ Within(objects, c, w.rm)
          /\ Within(objects, c, w.app.status.observed \cap w.app.status.applied)
      BY <1>1, <2>1 DEF Cleaning, Known
    <2> HIDE DEF c
    <2>8. /\ Within(objects', c, w.rm \ {o})
          /\ Within(objects', c, (w.app.status.observed \ {o}) \cap w.app.status.applied)
      <3>1. \A set : Within(objects, c, set) => Within(objects', c, set \ {o})
        BY <2>6 DEF Within
      <3>2. Within(objects', c, (w.app.status.observed \cap w.app.status.applied) \ {o})
        BY <2>7, <3>1
      <3> QED BY <2>7, <3>1, <3>2 DEF Within
    <2>9. Phases(v)
      BY <2>4 DEF Phases
    <2>10. Cleaning(objects', v)
      BY <2>4, <2>8 DEF Cleaning, Known
    <2>11. Cleaning(objects', Settled(v))
      BY <2>4, <2>9, <2>10, CleaningSettled
    <2>12. \A q \in Procs : proc'[q] # Null => Cleaning(objects', proc'[q])
      <3>1. proc \in [Procs -> Coroutines \cup {Null}]
        BY DEF TypeOK
      <3>2. \A u : Cleaning(objects, u) => Cleaning(objects', u)
        BY <2>6, Shrinking
      <3> QED BY <2>3, <2>11, <3>1, <3>2 DEF Continue
    <2>13. Coming' = Coming /\ NewestLast'
      BY <2>3, ComingUnchanged
    <2>14. Gone' = Gone /\ Guarded' = Guarded
      BY <2>3 DEF Gone, Guarded
    <2>15. /\ \A s : Known(objects, s) => Known(objects', s)
           /\ \A u : Reports(objects, u) => Reports(objects', u)
      BY <2>6, Shrinking
    <2> QED BY <2>3, <2>6, <2>12, <2>13, <2>14, <2>15 DEF Removes
  <1> QED BY <1>2, <1>3, <1>4, <1>5

\* The shutdown task goes on or begins the deletion.
LEMMA DyingTask ==
    ASSUME Lawful, Gone, CheckShutdown
    PROVE  Removes /\ NewestLast'
  <1> USE DyingFacts
  <1> DEFINE w == proc["task"]
             rm == IF w.app.status.running_on = Null THEN {} ELSE w.app.status.observed
             v == IF w.tries > 1 THEN [w EXCEPT !.tries = @ - 1]
                  ELSE IF scenario.strategy = "delete"
                    THEN [w EXCEPT !.tries = 0, !.job = "delete", !.pc = "mark", !.rm = rm]
                    ELSE [w EXCEPT !.tries = 0, !.pc = "give_up"]
  <1>1. /\ w # Null /\ w.pc = "check" /\ "task" \in Procs
        /\ UNCHANGED <<db, objects, scenario, stream, pending, observer>>
        /\ Return("task") \/ Continue("task", v)
    BY DEF CheckShutdown, world, Procs
  <1>2. w \in Coroutines /\ Known(objects, w.app.status) /\ w.job = "shutdown"
    BY <1>1 DEF Cleaning, Phases
  <1>3. /\ v.app = w.app /\ v.pc \in {"check", "mark", "give_up"}
        /\ v.job = "shutdown" \/ (v.job = "delete" /\ v.rm = rm)
    <2>1. CASE w.tries > 1
      BY <1>1, <1>2, <2>1 DEF Coroutines
    <2>2. CASE ~(w.tries > 1)
      BY <1>1, <1>2, <2>2 DEF Coroutines
    <2> QED BY <2>1, <2>2
  <1>4. Within(objects, w.app.status.running_on, rm)
    BY <1>2, KnownToRemove
  <1> HIDE DEF v, w, rm
  <1>5. Cleaning(objects, v) /\ Settled(v) = v
    BY <1>2, <1>3, <1>4 DEF Cleaning, Settled
  <1>6. \A q \in Procs : proc'[q] # Null => Cleaning(objects, proc'[q])
    BY <1>1, <1>5 DEF TypeOK, Return, Continue
  <1>7. Coming' = Coming /\ NewestLast' /\ Gone' = Gone /\ Guarded' = Guarded
    BY <1>1, ComingUnchanged DEF Gone, Guarded
  <1> QED BY <1>1, <1>6, <1>7 DEF Removes

\* poll_resource: the status that is going to be reported, and the copy it is made of
LEMMA PollResult ==
    ASSUME TypeOK, Poll
    PROVE  /\ observer # Null /\ observer \in Observers /\ observer' \in Observers
           /\ observer' # Null /\ observer'.app = observer.app /\ observer'.poll # Null
           /\ LET s == observer.app.status
                  q == observer'.poll IN
              /\ s \in Statuses /\ q \in Statuses
              /\ q.state = s.state \/ q.state \in {"RUNNING", "RESTARTING", "DEGRADED"}
              /\ q.scheduled_to = s.scheduled_to /\ q.running_on = s.running_on
              /\ q.applied = s.applied /\ q.grace = s.grace /\ q.triggered = s.triggered
              /\ q.observed = objects[s.running_on] \cap s.applied
           /\ UNCHANGED <<db, objects, scenario, stream, pending, proc, sched>>
           /\ UNCHANGED left \/ Spend("health") \/ Spend("degrade")
  <1> DEFINE s == observer.app.status
             seen == objects[s.running_on] \cap s.applied
  <1>1. /\ observer # Null
        /\ UNCHANGED <<db, objects, scenario, stream, pending, proc, sched>>
    BY DEF Poll, world
  <1>2. observer \in Observers /\ s \in Statuses
    BY <1>1 DEF TypeOK, Observers, Apps
  <1>3. PICK state \in {s.state, "RUNNING", "RESTARTING", "DEGRADED"} :
          /\ UNCHANGED left \/ Spend("health") \/ Spend("degrade")
          /\ observer' = [observer EXCEPT !.poll = [s EXCEPT !.observed = seen, !.state = state]]
    BY DEF Poll
  <1>4. seen \in SUBSET Objects /\ state \in States
    BY <1>2 DEF Statuses, States
  <1> DEFINE q == [s EXCEPT !.observed = seen, !.state = state]
  <1> HIDE DEF seen, s
  <1>5. /\ q \in Statuses /\ q.state = state /\ q.observed = seen
        /\ q.scheduled_to = s.scheduled_to /\ q.running_on = s.running_on
        /\ q.applied = s.applied /\ q.grace = s.grace /\ q.triggered = s.triggered
    BY <1>2, <1>4 DEF Statuses
  <1>6. observer' = [observer EXCEPT !.poll = q]
    BY <1>3
  <1> HIDE DEF q
  <1>7. /\ observer' \in Observers /\ observer'.app = observer.app /\ observer'.poll = q
        /\ q # Null /\ observer' # Null
    BY <1>2, <1>5, <1>6, ApplicationAssumption DEF Observers
  <1> QED BY <1>1, <1>2, <1>3, <1>5, <1>7 DEF s, seen

\* register_observer for an application that runs somewhere
LEMMA WatchingIs ==
    ASSUME NEW a \in Apps, a.status.running_on # Null
    PROVE  Watching(a) # Null /\ Watching(a).app = a /\ Watching(a).poll = Null
  <1>1. Watching(a) = [app |-> a, poll |-> Null] /\ Watching(a) \in Observers
    BY DEF Watching, Observers
  <1> QED BY <1>1, ApplicationAssumption

\* What an observer that is registered with a status that is known reports is known.
LEMMA WatchingReports ==
    ASSUME NEW objs, NEW a, Known(objs, a.status)
    PROVE  Watching(a) # Null => Reports(objs, Watching(a))
  BY DEF Watching, Reports, Known, Within

\* poll_resource sees what is there of the objects that were applied.
LEMMA PollReports ==
    ASSUME TypeOK, Poll, Reports(objects, observer)
    PROVE  Reports(objects', observer')
  <1> DEFINE s == observer.app.status
             q == observer'.poll
  <1>1. /\ objects' = objects /\ observer'.app = observer.app
        /\ q.running_on = s.running_on /\ q.applied = s.applied
        /\ q.observed = objects[s.running_on] \cap s.applied
    BY PollResult
  <1> HIDE DEF q
  <1>2. Within(objects, s.running_on, s.applied)
    BY DEF Reports
  <1> HIDE DEF s
  <1>3. Known(objects, q)
    BY <1>1, <1>2 DEF Known, Within
  <1> QED BY <1>1, <1>2, <1>3 DEF Reports, q, s

\* on_status_update: the version that is stored, and the copy the observer goes on with
LEMMA ObserveResult ==
    ASSUME TypeOK, Observe
    PROVE  /\ observer # Null /\ observer.poll # Null /\ db # Null /\ db \in Apps
           /\ db' \in Apps /\ Save(db') /\ db' # Null
           /\ db'.deleted = db.deleted /\ db'.finalizers = db.finalizers
           /\ db'.owners = db.owners /\ db'.manifest = db.manifest /\ db'.modified = db.modified
           /\ db'.status \in Statuses
           /\ LET s == db'.status
                  q == observer.poll IN
              /\ s.state = q.state /\ s.scheduled_to = q.scheduled_to
              /\ s.running_on = q.running_on /\ s.applied = q.applied /\ s.observed = q.observed
              /\ s.grace = q.grace /\ s.triggered = db.modified
           /\ observer' = Watching(db')
           /\ UNCHANGED <<objects, scenario, pending, proc, sched, left>>
  <1> DEFINE st == [observer.poll EXCEPT !.triggered = db.modified]
  <1>1. /\ observer # Null /\ observer.poll # Null /\ db # Null
        /\ UpdateStatus(st) /\ Register([db EXCEPT !.status = st])
        /\ UNCHANGED <<objects, scenario, pending, proc, sched, left>>
    BY DEF Observe, world
  <1>2. observer.poll \in Statuses /\ db \in Apps
    BY <1>1 DEF TypeOK, Observers
  <1>3. /\ st \in Statuses
        /\ st.state = observer.poll.state /\ st.scheduled_to = observer.poll.scheduled_to
        /\ st.running_on = observer.poll.running_on /\ st.applied = observer.poll.applied
        /\ st.observed = observer.poll.observed
        /\ st.grace = observer.poll.grace /\ st.triggered = db.modified
    BY <1>2 DEF Statuses, Apps
  <1> HIDE DEF st
  <1>4. /\ db' \in Apps /\ Save(db') /\ db' = [db EXCEPT !.status = st] /\ db'.status = st
        /\ db'.deleted = db.deleted /\ db'.finalizers = db.finalizers
        /\ db'.owners = db.owners /\ db'.manifest = db.manifest /\ db'.modified = db.modified
    BY <1>1, <1>3, StatusSaved
  <1>5. observer' = Watching(db')
    BY <1>1, <1>4 DEF Register
  <1> QED BY <1>1, <1>2, <1>3, <1>4, <1>5, ApplicationAssumption

\* The observer of an application in deletion reports what is left.
LEMMA DyingObserver ==
    ASSUME Lawful, Gone, Poll \/ Observe
    PROVE  Removes /\ NewestLast'
  <1> USE DyingFacts
  <1>1. CASE Poll
    <2>1. /\ observer # Null /\ observer' # Null
          /\ UNCHANGED <<db, objects, scenario, stream, pending, proc>>
      BY <1>1, PollResult
    <2>2. Reports(objects', observer')
      BY <1>1, <2>1, PollReports
    <2>3. Coming' = Coming /\ NewestLast' /\ Gone' = Gone /\ Guarded' = Guarded
      BY <2>1, ComingUnchanged DEF Gone, Guarded
    <2> QED BY <2>1, <2>2, <2>3 DEF Removes
  <1>2. CASE Observe
    <2>1. /\ observer # Null /\ observer.poll # Null /\ db # Null /\ db' # Null
          /\ db' \in Apps /\ Save(db')
          /\ db'.deleted = db.deleted /\ db'.finalizers = db.finalizers /\ db'.owners = db.owners
          /\ db'.status.running_on = observer.poll.running_on
          /\ db'.status.applied = observer.poll.applied
          /\ db'.status.observed = observer.poll.observed
          /\ observer' = Watching(db')
          /\ UNCHANGED <<objects, scenario, pending, proc>>
      BY <1>2, ObserveResult
    <2>2. Known(objects, db'.status)
      BY <2>1 DEF Reports, Known
    <2>3. observer' # Null => Reports(objects', observer')
      BY <2>1, <2>2, WatchingReports
    <2>4. NewestLast' /\ \A v \in Coming' : v \in Coming \/ (v = db' /\ db' # Null)
      BY <2>1, WriteQueued
    <2>5. Gone' /\ Guarded' = Guarded
      BY <2>1 DEF Gone, Guarded
    <2> QED BY <2>1, <2>2, <2>3, <2>4, <2>5 DEF Removes
  <1> QED BY <1>1, <1>2

\* Users, the application and the garbage collector change nothing that the deletion
\* needs; it is neither scheduled nor migrated.
LEMMA DyingOthers ==
    ASSUME Lawful, Gone,
           \/ SchedulerTake \/ Schedule
           \/ \E c \in Clusters : Move(c) \/ Drift(c)
           \/ \E m \in Manifests : UserUpdate(m)
           \/ UserDelete \/ Confirm \/ Retry \/ Collect
    PROVE  Removes /\ NewestLast'
  <1> USE DyingFacts
  <1>1. ~SchedulerTake /\ ~UserDelete /\ \A c \in Clusters : ~Move(c)
    BY DEF SchedulerTake, UserDelete, Move, Lawful, Sheltered
  <1>2. ~Schedule
    BY DEF Schedule, Version, Unscheduled, Lawful, Sheltered
  <1>3. ASSUME NEW c \in Clusters, Drift(c) PROVE Removes /\ NewestLast'
    <2>1. UNCHANGED <<db, stream, pending, proc, observer, scenario>>
      BY <1>3 DEF Drift
    <2>2. \A d \in Clusters : objects'[d] \subseteq objects[d]
      BY <1>3 DEF Drift, TypeOK
    <2>3. observer' # Null => Reports(objects', observer')
      BY <2>1, <2>2, Shrinking
    <2>4. NewestLast'
      BY <2>1, ComingUnchanged
    <2> QED BY <2>1, <2>2, <2>3, <2>4, RemovesObserver
  <1>4. ASSUME db # Null, UNCHANGED <<objects, scenario, pending, proc, observer>>,
               \/ Erase /\ ~Guarded
               \/ /\ db' \in Apps /\ Save(db') /\ db'.deleted /\ db'.owners = db.owners
                  /\ Guarded => Guard \in ToSet(db'.finalizers)
                  /\ db'.status.running_on = db.status.running_on
                  /\ db'.status.applied = db.status.applied
                  /\ db'.status.observed = db.status.observed
        PROVE  Removes /\ NewestLast'
    <2>1. Erase \/ (db' \in Apps /\ Save(db'))
      BY <1>4
    <2>2. NewestLast' /\ \A v \in Coming' : v \in Coming \/ (v = db' /\ db' # Null)
      BY <1>4, <2>1, WriteQueued
    <2>3. Gone' /\ (Guarded => Guarded' \/ db' = Null)
      BY <1>4, ApplicationAssumption DEF Gone, Guarded, Erase
    <2>4. ~Guarded' => \A c \in Clusters : objects[c] = {}
      BY <1>4, <2>3, ApplicationAssumption DEF Guarded, Erase
    <2>5. db' # Null => /\ Known(objects, db'.status)
                       /\ \A c \in Clusters : objects[c] # {} => c \in db'.owners
      BY <1>4 DEF Known, Erase
    <2> QED BY <1>4, <2>2, <2>3, <2>4, <2>5 DEF Removes
  <1>5. ASSUME NEW b \in Apps, UpdateApplication(b), b.owners = db.owners,
               Guarded => Guard \in ToSet(b.finalizers),
               UNCHANGED <<objects, scenario, pending, proc, observer>>
        PROVE  Removes /\ NewestLast'
    <2>1. /\ db # Null
          /\ \/ b.finalizers = <<>> /\ Erase
             \/ /\ db' \in Apps /\ Save(db') /\ db'.status = db.status
                /\ db'.deleted = db.deleted /\ db'.finalizers = b.finalizers /\ db'.owners = b.owners
      BY <1>5, ApplicationSaved
    <2>2. b.finalizers = <<>> => ~Guarded
      BY <1>5 DEF ToSet
    <2> QED BY <1>4, <1>5, <2>1, <2>2
  <1>6. ASSUME NEW m \in Manifests, UserUpdate(m) PROVE Removes /\ NewestLast'
    <2> DEFINE b == [db EXCEPT !.manifest = m]
    <2>1. /\ db # Null /\ db \in Apps /\ UpdateApplication(b)
          /\ UNCHANGED <<objects, scenario, pending, proc, observer>>
      BY <1>6 DEF UserUpdate, world
    <2>2. b \in Apps /\ b.finalizers = db.finalizers /\ b.owners = db.owners
      BY <2>1, ApplicationAssumption DEF Apps
    <2> HIDE DEF b
    <2> QED BY <1>5, <2>1, <2>2 DEF Guarded
  <1>7. ASSUME Collect PROVE Removes /\ NewestLast'
    <2> DEFINE b == [db EXCEPT !.finalizers = Front(@)]
    <2>1. /\ db # Null /\ db \in Apps /\ UpdateApplication(b)
          /\ db.finalizers # <<>> /\ Last(db.finalizers) = Cascade
          /\ UNCHANGED <<objects, scenario, pending, proc, observer>>
      BY <1>7 DEF Collect, world
    <2>2. db.finalizers \in Seq({Guard, Cascade})
      BY <2>1 DEF Apps
    <2>3. /\ Front(db.finalizers) \in Seq({Guard, Cascade})
          /\ Guard \in ToSet(db.finalizers) => Guard \in ToSet(Front(db.finalizers))
      BY <2>1, <2>2, FrontTyped
    <2>4. b \in Apps /\ b.finalizers = Front(db.finalizers) /\ b.owners = db.owners
      BY <2>1, <2>3 DEF Apps
    <2> HIDE DEF b
    <2> QED BY <1>5, <2>1, <2>3, <2>4 DEF Guarded
  <1>8. ASSUME Confirm \/ Retry PROVE Removes /\ NewestLast'
    <2>1. /\ db # Null /\ db \in Apps
          /\ UNCHANGED <<objects, scenario, pending, proc, observer>>
      BY <1>8 DEF Confirm, Retry, world
    <2>2. PICK a : Save(a) /\ \/ a = db
                              \/ \E s \in States :
                                   a = [db EXCEPT !.status.state = s, !.status.grace = FALSE]
      BY <1>8 DEF Confirm, Retry, States
    <2>3. \A s \in States : LET b == [db EXCEPT !.status.state = s, !.status.grace = FALSE] IN
            /\ b \in Apps /\ b.deleted = db.deleted /\ b.finalizers = db.finalizers
            /\ b.owners = db.owners /\ b.status.running_on = db.status.running_on
            /\ b.status.applied = db.status.applied /\ b.status.observed = db.status.observed
      BY <2>1 DEF Apps, Statuses
    <2>4. /\ a \in Apps /\ a.deleted = db.deleted /\ a.finalizers = db.finalizers
          /\ a.owners = db.owners /\ a.status.running_on = db.status.running_on
          /\ a.status.applied = db.status.applied /\ a.status.observed = db.status.observed
      BY <2>1, <2>2, <2>3
    <2>5. db' = a
      BY <2>2 DEF Save
    <2> QED BY <1>4, <2>1, <2>2, <2>4, <2>5 DEF Guarded
  <1> QED BY <1>1, <1>2, <1>3, <1>6, <1>7, <1>8

\* Until the application is gone, everything that exists is known, and with the last
\* object goes the finalizer.
LEMMA DyingStep ==
    ASSUME Lawful, Gone, Next
    PROVE  Dying' /\ Gone' /\ NewestLast'
  <1>1. Removes /\ NewestLast'
    <2>1. CASE Receive \/ Restart \/ Get
      BY <2>1, DyingQueue
    <2>2. ASSUME NEW p \in Procs, Step(p) \/ ClusterError(p) PROVE Removes /\ NewestLast'
      BY <2>2, DyingStatus, DyingUpdate, DyingCoroutine DEF Step
    <2>3. CASE CheckShutdown \/ Poll \/ Observe
      BY <2>3, DyingTask, DyingObserver
    <2>4. CASE \/ SchedulerTake \/ Schedule
               \/ \E c \in Clusters : Move(c) \/ Drift(c)
               \/ \E m \in Manifests : UserUpdate(m)
               \/ UserDelete \/ Confirm \/ Retry \/ Collect
      BY <2>4, DyingOthers
    <2> QED BY <2>1, <2>2, <2>3, <2>4 DEF Next
  <1> QED BY <1>1, RemovesKeeps DEF Removes

-----------------------------------------------------------------------------
(* An application that is not in deletion                                  *)

\* Once the finalizer is there
Grown == Alive /\ Guarded

\* What the account says of an application that has the finalizer
LEMMA GrownFacts ==
    ASSUME Lawful, Grown
    PROVE  LET w == proc["worker"] IN
           /\ AppInv /\ TypeOK /\ NewestLast /\ scenario.orderly /\ ~scenario.volumes
           /\ sched = Null /\ \A kind \in Kinds : Never(kind) => left[kind] = 0
           /\ Never("move") \/ (scenario.prompt /\ ~Hooked)
           /\ db # Null /\ db \in Apps /\ ~db.deleted /\ Guard \in ToSet(db.finalizers)
           /\ db.manifest # {} /\ db.modified > 0 /\ Sound(objects, db)
           /\ db.status.scheduled_to # Null /\ db.status.scheduled_to \in Clusters
           /\ proc["task"] = Null
           /\ \A v \in Coming :
                v \in Apps /\ ScheduledOrDeleting(v) /\ Sound(objects, v) /\ Agrees(v, db)
           /\ w # Null =>
                /\ Working(objects, w, db) /\ observer = Null
                /\ w \in Coroutines /\ Phases(w) /\ w.app \in Apps
                /\ w.job = "migrate" => scenario.prompt /\ ~Hooked /\ ~Never("move")
                /\ w.pc = "update" => \A v \in Coming : ~Moved(v.status)
           /\ observer # Null => Observing(objects, observer, db) /\ observer \in Observers
           /\ Stuck => w = Null /\ ~Awaited
           /\ Moved(db.status) => db.status.triggered >= db.modified /\ (Awaited \/ w # Null)
           /\ Never("move") => Unmoved
           /\ w = Null /\ ~Awaited /\ ~Unscheduled(db) =>
                Known(objects, db.status) /\ (observer # Null => Reports(objects, observer))
           /\ Complete(w, db) /\ Growing
  <1>1. AppInv /\ TypeOK /\ NewestLast
    BY DEF Lawful, Accounted, AppInv
  <1>2. \A v \in Coming : v \in Apps /\ ScheduledOrDeleting(v)
    BY <1>1, ComingIsAccepted
  <1>3. proc["worker"] # Null =>
          LET w == proc["worker"] IN w \in Coroutines /\ Phases(w) /\ w.app \in Apps
    BY <1>1, RunningTyped DEF Procs
  <1>4. Sheltered /\ Living /\ Growing /\ Alive /\ Guarded
    BY DEF Lawful, Accounted, Grown
  <1>5. sched = Null /\ \A kind \in Kinds : Never(kind) => left[kind] = 0
    BY DEF Lawful, Accounted
  <1>6. db \in Apps
    BY <1>1, <1>4 DEF Alive, TypeOK
  <1>7. db.status.scheduled_to # Null => db.status.scheduled_to \in Clusters
    BY <1>6 DEF Apps, Statuses, Places
  <1>8. observer # Null => observer \in Observers
    BY <1>1 DEF TypeOK
  <1> QED BY <1>1, <1>2, <1>3, <1>4, <1>5, <1>6, <1>7, <1>8
      DEF Living, Sheltered, Hooked, Alive, Guarded

\* Which versions scheduled_or_deleting accepts, of those that are not in deletion
LEMMA AcceptedAlive ==
    ASSUME NEW a \in Apps, ~a.deleted, a.modified > 0, Sane(a.status)
    PROVE  /\ ScheduledOrDeleting(a) <=> a.status.triggered >= a.modified
           /\ ~Unscheduled(a) <=> a.status.triggered >= a.modified \/ a.status.state = "DEGRADED"
  <1>1. a.status.triggered \in Nat /\ a.modified \in Nat
    BY DEF Apps, Statuses
  <1>2. a.status.state # "FAILED"
    BY DEF Sane
  <1> QED BY <1>1, <1>2 DEF ScheduledOrDeleting, Unscheduled

\* A version agrees with itself.
LEMMA AgreesItself ==
    ASSUME NEW objs, NEW a, ~a.deleted, Guard \in ToSet(a.finalizers), Sound(objs, a),
           Moved(a.status) => a.status.triggered >= a.modified
    PROVE  Agrees(a, a)
  BY DEF Agrees, Sound

\* A step that writes nothing, and at most loses objects and versions
LEMMA LivingIdle ==
    ASSUME Lawful, Grown, UNCHANGED <<db, proc, observer, scenario>>,
           \A c \in Clusters : objects'[c] \subseteq objects[c],
           Coming' \subseteq Coming, Awaited' = Awaited
    PROVE  Living' /\ Grown'
  <1> USE GrownFacts
  <1>1. /\ \A s : Known(objects, s) => Known(objects', s)
        /\ \A a : Sound(objects, a) => Sound(objects', a)
        /\ \A o : Reports(objects, o) => Reports(objects', o)
        /\ \A o, b : Observing(objects, o, b) => Observing(objects', o, b)
        /\ \A w, b : Working(objects, w, b) => Working(objects', w, b)
    BY Shrinking
  <1>2. Grown' /\ (Stuck' <=> Stuck) /\ (Unscheduled(db)' <=> Unscheduled(db))
        /\ (Never("move")' <=> Never("move"))
    BY DEF Grown, Alive, Guarded, Stuck, Unscheduled, Never
  <1>3. Unmoved => Unmoved'
    BY DEF Unmoved
  <1> QED BY <1>1, <1>2, <1>3 DEF Living, Hooked, Complete

\* After a restart, the observer has the present version, and so has the worker, unless
\* the version waits for the scheduler.
LEMMA LivingRestart ==
    ASSUME Lawful, Grown, Restart
    PROVE  Living' /\ Grown' /\ NewestLast'
  <1> USE GrownFacts
  <1>1. Coming' \subseteq {db} /\ NewestLast' /\ (Awaited' <=> ScheduledOrDeleting(db))
    BY ComingAfterRestart
  <1>2. /\ UNCHANGED <<db, objects, scenario>> /\ proc' = [p \in Procs |-> Null]
        /\ observer' = Watching(db)
    BY DEF Restart, world
  <1>3. Grown' /\ (Stuck' <=> Stuck) /\ (Unscheduled(db)' <=> Unscheduled(db))
        /\ (Never("move")' <=> Never("move"))
    BY <1>2 DEF Grown, Alive, Guarded, Stuck, Unscheduled, Never
  <1>4. Agrees(db, db)
    BY AgreesItself
  <1>5. /\ Sane(db.status)
        /\ ScheduledOrDeleting(db) <=> db.status.triggered >= db.modified
        /\ ~Unscheduled(db) <=> db.status.triggered >= db.modified \/ db.status.state = "DEGRADED"
        /\ db.status.triggered \in Nat /\ db.modified \in Nat
    BY AcceptedAlive DEF Sound, Apps, Statuses
  <1>6. db.status.observed \subseteq db.status.applied
    <2>1. ~Never("crash")
      BY DEF Restart, Spend, Kinds
    <2> QED BY <2>1 DEF Growing, Nested, Grown
  <1>12. Complete(Null, db) /\ (observer' # Null => Observing(objects, observer', db))
    BY <1>2, <1>6 DEF Watching, Observing, Sound, Sane, Explained, Complete
  <1>7. Stuck => ~Awaited'
    BY <1>1, <1>5 DEF Stuck
  <1>8. ~Awaited' /\ ~Unscheduled(db) => Known(objects, db.status)
    BY <1>1, <1>5 DEF Stuck
  <1>9. observer' # Null /\ Known(objects, db.status) => Reports(objects, observer')
    BY <1>2, WatchingReports
  <1>10. Unmoved => Unmoved'
    BY <1>1, <1>2 DEF Unmoved, Watching
  <1>11. \A p \in Procs : proc'[p] = Null
    BY <1>2
  <1> QED BY <1>1, <1>2, <1>3, <1>4, <1>5, <1>6, <1>7, <1>8, <1>9, <1>10, <1>11, <1>12
      DEF Living, Procs

\* What the worker begins with a version, and what it knows then
LEMMA DispatchAlive ==
    ASSUME NEW a \in Apps, ~scenario.volumes, ~a.deleted, Guard \in ToSet(a.finalizers),
           a.status.scheduled_to # Null, Moved(a.status) => ~Hooked
    PROVE  LET d == Dispatch(a) IN
           /\ d # Null /\ d.pc = "mark"
           /\ Moved(a.status) =>
                /\ d.job = "migrate" /\ d.app = a
                /\ d.rm = a.status.observed /\ d.add = a.manifest
           /\ ~Moved(a.status) =>
                /\ d.job = "reconcile" /\ d.app = UpdateLastApplied(a)
                /\ d.rm = a.status.observed \ a.manifest
                /\ d.add = a.manifest \ a.status.observed
  <1>1. FirstPoint(a) = "mark"
    BY DEF FirstPoint
  <1>2. CASE Moved(a.status)
    <2>1. Dispatch(a) = Coroutine("migrate", FirstPoint(a), a, a.status.observed, a.manifest)
      BY <1>2 DEF Dispatch, Moved
    <2>2. Dispatch(a) \in Coroutines
      BY <1>1, <2>1 DEF Coroutine, Coroutines, Jobs, Points, Apps, Statuses
    <2>3. Dispatch(a) # Null
      BY <2>2, ApplicationAssumption
    <2> QED BY <1>1, <1>2, <2>1, <2>3 DEF Coroutine
  <1>3. CASE ~Moved(a.status)
    <2> DEFINE delta == ResourceDelta(a)
               c == Coroutine("reconcile", "mark", a, delta.deleted, delta.new)
    <2>1. Dispatch(a) = [c EXCEPT !.app = UpdateLastApplied(a)]
      BY <1>1, <1>3 DEF Dispatch, Moved
    <2>2. /\ delta.deleted = a.status.observed \ a.manifest
          /\ delta.new = a.manifest \ a.status.observed
      BY DEF ResourceDelta
    <2> HIDE DEF delta
    <2>3. /\ c \in Coroutines /\ c.job = "reconcile" /\ c.pc = "mark"
          /\ c.rm = delta.deleted /\ c.add = delta.new
      BY <2>2 DEF Coroutine, Coroutines, Jobs, Points, Apps, Statuses
    <2>4. UpdateLastApplied(a) \in Apps
      BY CopiesTyped DEF SameMeta
    <2> HIDE DEF c
    <2>5. Dispatch(a) \in Coroutines
      BY <2>1, <2>3, <2>4 DEF Coroutines
    <2>6. Dispatch(a) # Null
      BY <2>5, ApplicationAssumption
    <2> QED BY <1>3, <2>1, <2>2, <2>3, <2>6 DEF Coroutines
  <1> QED BY <1>2, <1>3

\* The worker begins with a version that explains what exists; if nothing is to be
\* done, the observer begins with what is there.
LEMMA LivingGet ==
    ASSUME Lawful, Grown, Get
    PROVE  Living' /\ Grown' /\ NewestLast'
  <1> USE GrownFacts
  <1> DEFINE a == pending
             d == Dispatch(a)
             u == UpdateLastApplied(a)
  <1>1. /\ pending \in Coming /\ Coming' \subseteq Coming /\ NewestLast'
        /\ ScheduledOrDeleting(db) => Awaited' \/ pending = db
        /\ scenario.prompt => Coming' = {}
    BY ComingAfterGet
  <1>2. /\ pending # Null /\ proc["worker"] = Null /\ UNCHANGED <<db, objects, scenario>>
        /\ Awaited
    BY DEF Get, world, Awaited
  <1>3. Grown' /\ (Stuck' <=> Stuck) /\ (Unscheduled(db)' <=> Unscheduled(db))
        /\ (Never("move")' <=> Never("move")) /\ Hooked' = Hooked
    BY <1>2 DEF Grown, Alive, Guarded, Stuck, Unscheduled, Never, Hooked
  <1>4. /\ a \in Apps /\ Sound(objects, a) /\ Agrees(a, db) /\ ~a.deleted
        /\ Guard \in ToSet(a.finalizers) /\ a.status.scheduled_to # Null /\ Sane(a.status)
        /\ a.manifest = db.manifest /\ a.status \in Statuses /\ a.manifest \in SUBSET Objects
    BY <1>1 DEF Agrees, Sound, Apps
  <1>5. Moved(a.status) => ~Hooked /\ scenario.prompt /\ ~Never("move")
    BY <1>1 DEF Unmoved
  <1>6. /\ d # Null /\ d.pc = "mark"
        /\ Moved(a.status) =>
             /\ d.job = "migrate" /\ d.app = a
             /\ d.rm = a.status.observed /\ d.add = a.manifest
        /\ ~Moved(a.status) =>
             /\ d.job = "reconcile" /\ d.app = u /\ d.rm = a.status.observed \ a.manifest
             /\ d.add = a.manifest \ a.status.observed
    BY <1>4, <1>5, DispatchAlive
  <1>7. Touches(d)
    BY <1>6 DEF Touches
  <1>8. /\ ScheduledOrDeleting(db) <=> db.status.triggered >= db.modified
        /\ ~Unscheduled(db) <=> db.status.triggered >= db.modified \/ db.status.state = "DEGRADED"
        /\ db.status.triggered \in Nat /\ db.modified \in Nat
    BY AcceptedAlive DEF Sound, Apps, Statuses
  <1>9. ~Stuck
    BY <1>2
  <1>10. Moved(db.status) => Awaited' \/ Moved(a.status)
    BY <1>1, <1>8
  <1>11. ~Awaited' /\ ~Unscheduled(db) => a = db
    BY <1>1, <1>8, <1>9 DEF Stuck
  <1>14. /\ u \in Apps /\ u.status.applied = a.manifest
         /\ u.status.observed = a.status.observed
         /\ u.status.running_on = a.status.running_on
         /\ u.status.scheduled_to = a.status.scheduled_to
         /\ u.status.grace = a.status.grace /\ u.status.state = a.status.state
         /\ u.status.triggered = a.status.triggered
         /\ u.deleted = a.deleted /\ u.finalizers = a.finalizers
         /\ u.owners = a.owners /\ u.manifest = a.manifest
    BY <1>4 DEF UpdateLastApplied, Apps, Statuses
  <1>15. db.status.observed \subseteq db.status.applied
    BY <1>2 DEF Complete
  <1>12. CASE UpToDate(d)
    <2>1. proc' = proc /\ observer' = Watching(u)
      BY <1>7, <1>12 DEF Get, Register
    <2>2. ~Moved(a.status) /\ a.status.observed = a.manifest
      BY <1>4, <1>6, <1>12 DEF UpToDate, Statuses
    <2>3. a.status.running_on = a.status.scheduled_to
      BY <1>4, <2>2 DEF Sane, Moved
    <2>4. Within(objects, a.status.running_on, a.manifest)
      BY <1>4, <2>2, <2>3 DEF Sound, Explained, Within
    <2> HIDE DEF u, d
    <2>6. observer' # Null /\ observer'.app = u /\ observer'.poll = Null
      BY <1>4, <2>1, <2>3, <1>14, WatchingIs
    <2>7. Observing(objects, observer', db)
      <3>1. Sane(u.status)
        BY <1>4, <2>2, <1>14 DEF Sane
      <3>2. PlacesOf(u.status) \subseteq db.owners
        BY <1>4, <1>14 DEF PlacesOf, Agrees
      <3>3. Explained(objects, u.status, db.manifest, u.status.applied)
        BY <2>4, <1>14 DEF Explained, Within
      <3> QED BY <1>4, <2>3, <1>14, <2>6, <3>1, <3>2, <3>3 DEF Observing
    <2>8. Reports(objects, observer')
      BY <2>4, <1>14, <2>6 DEF Reports
    <2>9. a = db => Known(objects, db.status)
      BY <1>4, <1>15, <2>2, <2>4 DEF Known, Within
    <2>10. Unmoved => Unmoved'
      BY <1>1, <1>2, <1>4, <2>2, <1>14, <2>6 DEF Unmoved, Agrees, Moved
    <2>11. Moved(db.status) => Awaited'
      BY <1>10, <2>2
    <2> QED BY <1>1, <1>2, <1>3, <1>9, <1>11, <2>1, <2>7, <2>8, <2>9, <2>10, <2>11
            DEF Living, Complete
  <1>13. CASE ~UpToDate(d)
    <2>1. proc' = [proc EXCEPT !["worker"] = d] /\ observer' = Null
      BY <1>7, <1>13 DEF Get
    <2>2. Working(objects, d, db)
      <3> HIDE DEF d, a
      <3>1. a.status.scheduled_to \in a.owners
        BY <1>4 DEF Sound, PlacesOf
      <3>2. CASE Moved(a.status)
        <4>1. Migrating(objects, d, db)
          BY <1>4, <1>6, <3>2 DEF Migrating, Agrees
        <4> QED BY <1>4, <1>6, <3>1, <3>2, <4>1 DEF Working, Sane
      <3>3. CASE ~Moved(a.status)
        <4> HIDE DEF u
        <4>1. Sound(objects, u) /\ ~Moved(u.status)
          BY <1>4, <1>14, <3>3 DEF Sound, Sane, PlacesOf, Explained, Moved
        <4>2. Reconciling(objects, d)
          BY <1>6, <1>14, <3>3, <4>1 DEF Reconciling
        <4>3. Agrees(u, db)
          BY <1>4, <1>14, <4>1 DEF Agrees, PlacesOf
        <4> QED BY <1>4, <1>6, <1>14, <3>1, <3>3, <4>2, <4>3 DEF Working, Sane
      <3> QED BY <3>2, <3>3
    <2>3. d.job = "migrate" => scenario.prompt /\ ~Hooked /\ ~Never("move")
      BY <1>5, <1>6
    <2>4. Unmoved => Unmoved'
      BY <1>1, <1>2, <2>1 DEF Unmoved
    <2> HIDE DEF d
    <2>5. proc'["worker"] = d /\ proc'["task"] = Null
      BY <2>1 DEF TypeOK, Procs
    <2> QED BY <1>1, <1>2, <1>3, <1>6, <1>9, <1>15, <2>1, <2>2, <2>3, <2>4, <2>5
            DEF Living, Complete
  <1> QED BY <1>12, <1>13

\* _delete_manifest_async is left with nothing outside of the place to create objects on.
LEMMA WorkingRemoved ==
    ASSUME NEW objs, NEW b, NEW w \in Coroutines, Phases(w), Working(objs, w, b),
           w.pc = "remove", w.rm = {}
    PROVE  /\ Working(objs, Removed(w), b) /\ Removed(w).pc = "apply" /\ Removed(w).job = w.job
           /\ Removed(w) \in Coroutines /\ Phases(Removed(w))
  <1> DEFINE a == w.app
  <1>1. a \in Apps /\ a.status \in Statuses
    BY DEF Coroutines, Apps
  <1>2. Goes(w, Removed(w))
    BY RemovedTyped
  <1>3. CASE w.job = "reconcile"
    <2>1. Removed(w) = [w EXCEPT !.pc = "apply"]
      BY <1>3 DEF Removed
    <2>2. LET r == Removed(w) IN
          r.pc = "apply" /\ r.job = w.job /\ r.app = a /\ r.rm = w.rm /\ r.add = w.add
      BY <2>1 DEF Coroutines
    <2>3. Reconciling(objs, w)
      BY <1>3 DEF Working
    <2>4. /\ Within(objs, a.status.scheduled_to, a.manifest)
          /\ a.status.observed \cup w.add = a.manifest /\ a.status.applied = a.manifest
      BY <2>3, <1>1 DEF Reconciling
    <2>5. Reconciling(objs, Removed(w))
      BY <2>2, <2>3 DEF Reconciling
    <2> QED BY <1>2, <1>3, <2>2, <2>4, <2>5 DEF Working, Goes
  <1>4. CASE w.job = "migrate"
    <2> DEFINE l == Leave(a)
               u == UpdateLastApplied(l)
    <2>1. Migrating(objs, w, b)
      BY <1>4 DEF Working
    <2>2. /\ Moved(a.status) /\ Sound(objs, a) /\ a.status.observed = {} /\ w.add = a.manifest
          /\ a.status.triggered >= b.modified
      BY <2>1 DEF Migrating
    <2>3. a.status.running_on \in a.owners
      BY <2>2 DEF Sound, PlacesOf, Moved
    <2>4. Removed(w) = [w EXCEPT !.pc = "apply", !.app = u]
      BY <1>4, <2>3 DEF Removed, Vacated
    <2>5. /\ l \in Apps /\ l.status \in Statuses /\ l.status.running_on = Null
          /\ l.owners = a.owners \ {a.status.running_on}
          /\ l.deleted = a.deleted /\ l.finalizers = a.finalizers /\ l.manifest = a.manifest
          /\ l.status.scheduled_to = a.status.scheduled_to
          /\ l.status.observed = a.status.observed /\ l.status.grace = a.status.grace
          /\ l.status.state = a.status.state /\ l.status.triggered = a.status.triggered
      BY <1>1 DEF Leave, Apps, Statuses, Places
    <2> HIDE DEF l
    <2>6. /\ u.status.running_on = Null /\ u.owners = l.owners
          /\ u.deleted = l.deleted /\ u.finalizers = l.finalizers /\ u.manifest = l.manifest
          /\ u.status.scheduled_to = l.status.scheduled_to /\ u.status.applied = l.manifest
          /\ u.status.observed = l.status.observed /\ u.status.grace = l.status.grace
          /\ u.status.state = l.status.state /\ u.status.triggered = l.status.triggered
      BY <2>5 DEF UpdateLastApplied, Apps, Statuses
    <2>7. LET r == Removed(w) IN
          r.pc = "apply" /\ r.job = w.job /\ r.app = u /\ r.rm = w.rm /\ r.add = w.add
      BY <2>4, <2>5, CopiesTyped DEF Coroutines, SameMeta
    <2> HIDE DEF u
    <2>8. Agrees(u, b) /\ ~Moved(u.status)
      BY <2>5, <2>6 DEF Working, Agrees, Moved, PlacesOf
    <2>9. Within(objs, a.status.scheduled_to, a.manifest)
      BY <2>2 DEF Sound, Explained, Within
    <2>10. Migrating(objs, Removed(w), b)
      BY <2>2, <2>5, <2>6, <2>7 DEF Migrating
    <2>11. a.status.scheduled_to \in u.owners
      BY <2>2, <2>5, <2>6 DEF Working, Moved
    <2> HIDE DEF a
    <2> QED BY <1>2, <1>4, <2>2, <2>5, <2>6, <2>7, <2>8, <2>9, <2>10, <2>11 DEF Working, Goes, a
  <1> QED BY <1>3, <1>4 DEF Working

\* _apply_manifest is left with an application that runs where it was scheduled to.
LEMMA WorkingApplied ==
    ASSUME NEW objs, NEW b, NEW w \in Coroutines, Phases(w), Working(objs, w, b),
           w.pc = "apply", w.add = {}
    PROVE  /\ Working(objs, Applied(w), b) /\ Applied(w).pc = "status"
           /\ Applied(w).job = w.job
           /\ Applied(w) \in Coroutines /\ Phases(Applied(w))
  <1> DEFINE a == w.app
             here == [a EXCEPT !.status.running_on = a.status.scheduled_to]
             r == Applied(w)
  <1>1. a \in Apps /\ a.status \in Statuses
    BY DEF Coroutines, Apps
  <1>2. Goes(w, r)
    BY AppliedTyped
  <1>3. /\ here \in Apps /\ here.status \in Statuses
        /\ here.status.running_on = a.status.scheduled_to
        /\ here.deleted = a.deleted /\ here.finalizers = a.finalizers
        /\ here.manifest = a.manifest /\ here.owners = a.owners
        /\ here.status.scheduled_to = a.status.scheduled_to
        /\ here.status.applied = a.status.applied /\ here.status.observed = a.status.observed
        /\ here.status.grace = a.status.grace /\ here.status.triggered = a.status.triggered
    BY <1>1 DEF Apps, Statuses
  <1>4. w.job \in {"reconcile", "migrate"}
    BY DEF Working
  <1> HIDE DEF here
  <1>5. r = [w EXCEPT !.pc = "status",
                      !.app = IF w.job = "reconcile" THEN Running(here) ELSE Migrated(here)]
    BY <1>4 DEF Applied, here
  <1>6. Running(here) \in Apps /\ Migrated(here) \in Apps
    BY <1>3, CopiesTyped DEF SameMeta
  <1>7. /\ r.pc = "status" /\ r.job = w.job /\ r.rm = w.rm /\ r.add = w.add
        /\ r.app = IF w.job = "reconcile" THEN Running(here) ELSE Migrated(here)
    BY <1>5, <1>6 DEF Coroutines
  <1>8. /\ r.app.status.running_on = a.status.scheduled_to
        /\ r.app.deleted = a.deleted /\ r.app.finalizers = a.finalizers
        /\ r.app.manifest = a.manifest /\ r.app.owners = a.owners
        /\ r.app.status.scheduled_to = a.status.scheduled_to
        /\ r.app.status.applied = a.status.applied /\ r.app.status.observed = a.status.observed
        /\ r.app.status.grace = a.status.grace \/ r.app.status.grace = FALSE
        /\ r.app.status.triggered = a.status.triggered
        /\ r.app.status.state = "RUNNING"
    <2>1. CASE w.job = "reconcile"
      <3>1. r.app = Running(here)
        BY <1>7, <2>1
      <3> HIDE DEF r
      <3> QED BY <1>3, <3>1 DEF Running, Apps, Statuses
    <2>2. CASE w.job = "migrate"
      <3> DEFINE q == Running(here)
      <3>1. r.app = [q EXCEPT !.status.grace = FALSE]
        BY <1>7, <2>2 DEF Migrated
      <3>2. /\ q \in Apps /\ q.status \in Statuses
            /\ q.status.running_on = here.status.running_on
            /\ q.deleted = here.deleted /\ q.finalizers = here.finalizers
            /\ q.manifest = here.manifest /\ q.owners = here.owners
            /\ q.status.scheduled_to = here.status.scheduled_to
            /\ q.status.applied = here.status.applied
            /\ q.status.observed = here.status.observed
            /\ q.status.triggered = here.status.triggered
            /\ q.status.state = "RUNNING"
        BY <1>3 DEF Running, Apps, Statuses, States
      <3> HIDE DEF r, q
      <3> QED BY <1>3, <3>1, <3>2 DEF Apps, Statuses
    <2> QED BY <1>4, <2>1, <2>2
  <1> HIDE DEF a, r
  <1>9. Agrees(r.app, b) /\ ~Moved(r.app.status)
    BY <1>8 DEF Working, Agrees, Moved, PlacesOf, a
  <1>12. w.job = "reconcile" => a.status.applied = a.manifest
    BY DEF Working, Reconciling, a
  <1>10. w.job = "reconcile" => Reconciling(objs, r)
    BY <1>7, <1>8, <1>9, <1>12 DEF Reconciling
  <1>11. w.job = "migrate" => Migrating(objs, r, b)
    BY <1>7, <1>8 DEF Working, Migrating, a
  <1> QED BY <1>2, <1>4, <1>7, <1>8, <1>9, <1>10, <1>11 DEF Working, Goes, a, r

\* The code between two requests
LEMMA WorkingSettled ==
    ASSUME NEW objs, NEW b, NEW w \in Coroutines, Phases(w), Working(objs, w, b)
    PROVE  /\ Working(objs, Settled(w), b) /\ Settled(w).job = w.job
           /\ w.pc \in {"remove", "apply"} => Settled(w).pc \in {"remove", "apply", "status"}
           /\ w.pc \notin {"remove", "apply"} => Settled(w) = w
           /\ Settled(w) \in Coroutines
  <1> DEFINE r == IF w.pc = "remove" /\ w.rm = {} THEN Removed(w) ELSE w
  <1>1. /\ Working(objs, r, b) /\ r \in Coroutines /\ Phases(r) /\ r.job = w.job
        /\ r.pc = w.pc \/ (w.pc = "remove" /\ r.pc = "apply")
        /\ w.pc # "remove" => r = w
    BY WorkingRemoved
  <1>2. Settled(w) = IF r.pc = "apply" /\ r.add = {} THEN Applied(r) ELSE r
    BY DEF Settled
  <1> HIDE DEF r
  <1>3. CASE r.pc = "apply" /\ r.add = {}
    <2>1. /\ Working(objs, Applied(r), b) /\ Applied(r).pc = "status" /\ Applied(r).job = r.job
          /\ Applied(r) \in Coroutines
      BY <1>1, <1>3, WorkingApplied
    <2>2. w.pc \in {"remove", "apply"}
      BY <1>1, <1>3
    <2> QED BY <1>1, <1>2, <1>3, <2>1, <2>2
  <1>4. CASE ~(r.pc = "apply" /\ r.add = {})
    <2>1. Settled(w) = r
      BY <1>2, <1>4
    <2> QED BY <1>1, <2>1
  <1> QED BY <1>3, <1>4

\* The worker goes on with the next object.
LEMMA LivingProgress ==
    ASSUME Lawful, Grown, UNCHANGED <<db, stream, pending, observer, scenario>>,
           NEW w, w = proc["worker"], w # Null,
           NEW v \in Coroutines, Phases(v), v.job = w.job, v.pc \in {"remove", "apply"},
           Working(objects', v, db), Continue("worker", v),
           Sound(objects', db), \A a \in Coming : Sound(objects', a)
    PROVE  Living' /\ Grown' /\ NewestLast'
  <1> USE GrownFacts
  <1>1. Coming' = Coming /\ Awaited' = Awaited /\ NewestLast'
    BY ComingUnchanged
  <1>2. /\ Working(objects', Settled(v), db) /\ Settled(v).job = w.job
        /\ Settled(v).pc \in {"remove", "apply", "status"} /\ Settled(v) # Null
    BY WorkingSettled, ApplicationAssumption
  <1>3. proc'["worker"] = Settled(v) /\ proc'["task"] = Null
    BY DEF Continue, TypeOK, Procs
  <1>4. Grown' /\ (Stuck' <=> Stuck) /\ (Never("move")' <=> Never("move")) /\ Hooked' = Hooked
    BY DEF Grown, Alive, Guarded, Stuck, Never, Hooked
  <1>5. observer' = Null
    OBVIOUS
  <1>6. Unmoved => Unmoved'
    BY <1>1 DEF Unmoved
  <1>7. ~Stuck
    OBVIOUS
  <1> QED BY <1>1, <1>2, <1>3, <1>4, <1>5, <1>6, <1>7 DEF Living, Complete

\* An object that is deleted was not asked for, or the application leaves its cluster.
LEMMA LivingDelete ==
    ASSUME Lawful, Grown, NEW p \in Procs, KubeDelete(p)
    PROVE  Living' /\ Grown' /\ NewestLast'
  <1> USE GrownFacts
  <1> DEFINE w == proc["worker"]
             a == w.app
             c == IF w.job = "reconcile" THEN a.status.scheduled_to ELSE a.status.running_on
  <1>1. /\ p = "worker" /\ w # Null /\ w.pc = "remove"
        /\ UNCHANGED <<db, stream, pending, observer, scenario>>
    BY DEF KubeDelete, Procs
  <1>2. /\ w \in Coroutines /\ Phases(w) /\ Working(objects, w, db)
        /\ w.job \in {"reconcile", "migrate"}
    BY <1>1 DEF Working
  <1>3. PICK o \in w.rm :
          /\ objects' = [objects EXCEPT ![c] = @ \ {o}]
          /\ Continue(p, [w EXCEPT !.rm = @ \ {o},
                             !.app.status.observed = IF w.job = "volumes" THEN @ ELSE @ \ {o}])
    BY <1>1, <1>2 DEF KubeDelete, Vacated
  <1> DEFINE v == [w EXCEPT !.rm = w.rm \ {o}, !.app.status.observed = a.status.observed \ {o}]
  <1>4. Continue("worker", v)
    BY <1>1, <1>2, <1>3
  <1>5. a \in Apps /\ a.status \in Statuses /\ w.rm \in SUBSET Objects
    BY <1>2 DEF Coroutines, Apps
  <1>6. /\ v \in Coroutines /\ v.pc = "remove" /\ v.job = w.job
        /\ v.rm = w.rm \ {o} /\ v.add = w.add
        /\ v.app.status.observed = a.status.observed \ {o}
        /\ v.app.deleted = a.deleted /\ v.app.finalizers = a.finalizers
        /\ v.app.manifest = a.manifest /\ v.app.owners = a.owners
        /\ v.app.status.scheduled_to = a.status.scheduled_to
        /\ v.app.status.running_on = a.status.running_on
        /\ v.app.status.applied = a.status.applied
        /\ v.app.status.grace = a.status.grace /\ v.app.status.state = a.status.state
        /\ v.app.status.triggered = a.status.triggered
    BY <1>1, <1>2 DEF Coroutines, Apps, Statuses
  <1>7. Phases(v)
    BY <1>1, <1>2, <1>6 DEF Phases
  <1>8. /\ \A d \in Clusters : objects'[d] \subseteq objects[d]
        /\ \A d \in Clusters : d = c => objects'[d] = objects[d] \ {o}
    BY <1>3 DEF TypeOK
  <1> HIDE DEF v, w, a, c
  <1>9. Agrees(v.app, db)
    BY <1>2, <1>6 DEF Working, Agrees, Moved, PlacesOf, a
  <1>10. CASE w.job = "reconcile"
    <2>1. c = a.status.scheduled_to
      BY <1>10 DEF c, a
    <2>2. Reconciling(objects, w)
      BY <1>2, <1>10 DEF Working
    <2>3. Within(objects, c, a.manifest \cup w.rm)
      BY <1>1, <2>1, <2>2 DEF Reconciling, a
    <2>4. Within(objects', c, a.manifest \cup (w.rm \ {o}))
      BY <1>8, <2>3 DEF Within
    <2>5. (a.status.observed \ w.rm) \cup w.add = a.manifest /\ a.status.applied = a.manifest
            /\ ~Moved(a.status)
      BY <1>1, <2>2 DEF Reconciling, a
    <2>6. (a.status.observed \ {o}) \ (w.rm \ {o}) = a.status.observed \ w.rm
      OBVIOUS
    <2>7. Reconciling(objects', v)
      BY <1>6, <2>1, <2>4, <2>5, <2>6 DEF Reconciling, Moved
    <2>8. Working(objects', v, db)
      BY <1>1, <1>2, <1>6, <1>9, <1>10, <2>7 DEF Working, a
    <2> QED BY <1>1, <1>4, <1>6, <1>7, <1>8, <2>8, LivingProgress, Shrinking DEF w
  <1>11. CASE w.job = "migrate"
    <2>1. c = a.status.running_on
      BY <1>11 DEF c, a
    <2>2. Migrating(objects, w, db)
      BY <1>2, <1>11 DEF Working
    <2>3. /\ Moved(a.status) /\ Sound(objects, a) /\ w.rm = a.status.observed /\ w.add = a.manifest
          /\ a.status.triggered >= db.modified
      BY <1>1, <2>2 DEF Migrating, a
    <2>4. Explained(objects', v.app.status, v.app.manifest, v.app.status.observed)
      <3> SUFFICES ASSUME NEW d \in Clusters
                   PROVE  objects'[d] \subseteq
                            (IF d = a.status.scheduled_to THEN a.manifest ELSE {})
                              \cup (IF d = a.status.running_on THEN a.status.observed \ {o} ELSE {})
        BY <1>6 DEF Explained
      <3>1. objects[d] \subseteq (IF d = a.status.scheduled_to THEN a.manifest ELSE {})
                              \cup (IF d = a.status.running_on THEN a.status.observed ELSE {})
        BY <2>3 DEF Sound, Explained
      <3> QED BY <1>8, <2>1, <3>1
    <2>5. Sound(objects', v.app)
      BY <1>6, <2>3, <2>4 DEF Sound, Sane, PlacesOf
    <2>6. Migrating(objects', v, db)
      BY <1>6, <2>3, <2>5 DEF Migrating, Moved
    <2>7. Working(objects', v, db)
      BY <1>1, <1>2, <1>6, <1>9, <1>11, <2>6 DEF Working, a
    <2> QED BY <1>1, <1>4, <1>6, <1>7, <1>8, <2>7, LivingProgress, Shrinking DEF w
  <1> QED BY <1>2, <1>10, <1>11

\* An object that is applied is one of the manifest, on the cluster that the scheduler
\* wants.
LEMMA LivingApply ==
    ASSUME Lawful, Grown, NEW p \in Procs, KubeApply(p)
    PROVE  /\ Living' /\ Grown' /\ NewestLast'
           /\ \E c \in Clusters : \A d \in Clusters : objects'[d] # {} => d = c
  <1> USE GrownFacts
  <1> DEFINE w == proc["worker"]
             a == w.app
             c == a.status.scheduled_to
  <1>1. /\ p = "worker" /\ w # Null /\ w.pc = "apply"
        /\ UNCHANGED <<db, stream, pending, observer, scenario>>
    BY DEF KubeApply, Procs
  <1>2. /\ w \in Coroutines /\ Phases(w) /\ Working(objects, w, db)
        /\ w.job \in {"reconcile", "migrate"}
    BY <1>1 DEF Working
  <1>3. PICK o \in w.add :
          /\ objects' = [objects EXCEPT ![c] = @ \cup {o}]
          /\ Continue(p, [w EXCEPT !.add = @ \ {o}, !.app.status.observed = @ \cup {o}])
    BY <1>1 DEF KubeApply
  <1> DEFINE v == [w EXCEPT !.add = w.add \ {o}, !.app.status.observed = a.status.observed \cup {o}]
  <1>4. Continue("worker", v)
    BY <1>1, <1>3
  <1>5. a \in Apps /\ a.status \in Statuses /\ w.add \in SUBSET Objects
    BY <1>2 DEF Coroutines, Apps
  <1>6. /\ v \in Coroutines /\ v.pc = "apply" /\ v.job = w.job /\ v.rm = w.rm /\ v.add = w.add \ {o}
        /\ v.app.status.observed = a.status.observed \cup {o}
        /\ v.app.deleted = a.deleted /\ v.app.finalizers = a.finalizers
        /\ v.app.manifest = a.manifest /\ v.app.owners = a.owners
        /\ v.app.status.scheduled_to = a.status.scheduled_to
        /\ v.app.status.running_on = a.status.running_on
        /\ v.app.status.applied = a.status.applied
        /\ v.app.status.grace = a.status.grace /\ v.app.status.state = a.status.state
        /\ v.app.status.triggered = a.status.triggered
    <2> DEFINE set == a.status.observed \cup {o}
               u == [a EXCEPT !.status.observed = set]
    <2>1. set \in SUBSET Objects /\ w.add \ {o} \in SUBSET Objects
      BY <1>5 DEF Statuses
    <2>2. /\ u \in Apps /\ u.status.observed = set
          /\ u.deleted = a.deleted /\ u.finalizers = a.finalizers
          /\ u.manifest = a.manifest /\ u.owners = a.owners
          /\ u.status.scheduled_to = a.status.scheduled_to
          /\ u.status.running_on = a.status.running_on
          /\ u.status.applied = a.status.applied
          /\ u.status.grace = a.status.grace /\ u.status.state = a.status.state
          /\ u.status.triggered = a.status.triggered
      <3> HIDE DEF set, a
      <3> QED BY <1>5, <2>1 DEF Apps, Statuses
    <2>3. v = [w EXCEPT !.add = w.add \ {o}, !.app = u]
      BY <1>2 DEF Coroutines
    <2> HIDE DEF u, set
    <2>4. /\ v \in Coroutines /\ v.pc = w.pc /\ v.job = w.job /\ v.rm = w.rm
          /\ v.add = w.add \ {o} /\ v.app = u
      <3> HIDE DEF v, w, a
      <3> QED BY <1>2, <2>1, <2>2, <2>3 DEF Coroutines
    <2> QED BY <1>1, <2>2, <2>4 DEF set
  <1>7. Phases(v)
    BY <1>1, <1>2, <1>6 DEF Phases
  <1>8. /\ \A d \in Clusters : d # c => objects'[d] = objects[d]
        /\ \A d \in Clusters : d = c => objects'[d] = objects[d] \cup {o}
    BY <1>3 DEF TypeOK
  <1> HIDE DEF v, w, a, c
  <1>9. Agrees(v.app, db) /\ Agrees(a, db)
    BY <1>2, <1>6 DEF Working, Agrees, Moved, PlacesOf, a
  <1>10. /\ Within(objects, c, a.manifest) /\ w.rm = {}
         /\ a.status.observed \cup w.add = a.manifest /\ a.status.applied = a.manifest
    BY <1>1, <1>2 DEF Working, a, c
  <1>11. o \in a.manifest
    BY <1>10
  <1>12. Within(objects', c, a.manifest)
    BY <1>8, <1>10, <1>11 DEF Within
  <1>13. a.status.observed \cup {o} \cup (w.add \ {o}) = a.manifest
    BY <1>10
  <1>14. w.job = "reconcile" => Reconciling(objects', v)
    BY <1>1, <1>2, <1>6 DEF Working, Reconciling, Moved, a
  <1>15. w.job = "migrate" => Migrating(objects', v, db)
    BY <1>1, <1>2, <1>6 DEF Working, Migrating, a
  <1>16. Working(objects', v, db)
    BY <1>1, <1>2, <1>6, <1>9, <1>10, <1>12, <1>13, <1>14, <1>15 DEF Working, a, c
  <1>17. \A u : Sound(objects, u) /\ u.manifest = a.manifest /\ u.status.scheduled_to = c
                 => Sound(objects', u)
    BY <1>8, <1>11 DEF Sound, Explained
  <1>18. Sound(objects', db) /\ \A u \in Coming : Sound(objects', u)
    BY <1>9, <1>17 DEF Agrees, c
  <1>19. Living' /\ Grown' /\ NewestLast'
    BY <1>1, <1>4, <1>6, <1>7, <1>16, <1>18, LivingProgress DEF w
  <1>20. c \in Clusters
    BY <1>9 DEF Agrees, c
  <1> QED BY <1>12, <1>19, <1>20 DEF Within

\* What a write to an application that is not in deletion has to leave: what is stored
\* explains what exists, and so do the copies that are kept.
Writes ==
    LET w == proc'["worker"] IN
    /\ UNCHANGED <<objects, pending, scenario>>
    /\ db' \in Apps /\ Save(db') /\ ~db'.deleted /\ Guard \in ToSet(db'.finalizers)
    /\ db'.manifest # {} /\ db'.modified > 0 /\ db'.status.scheduled_to # Null
    /\ Sound(objects, db')
    /\ Moved(db'.status) => db'.status.triggered >= db'.modified
    /\ \/ \A v \in Coming : Agrees(v, db')
       \/ scenario.prompt /\ db'.status.triggered >= db'.modified
    /\ proc'["task"] = Null
    /\ w # Null =>
         /\ Working(objects, w, db') /\ observer' = Null
         /\ w.job = "migrate" => scenario.prompt /\ ~Hooked /\ ~Never("move")
         /\ w.pc = "update" =>
              scenario.prompt /\ db'.status.triggered >= db'.modified /\ ~Moved(db'.status)
    /\ observer' # Null => Observing(objects, observer', db')
    /\ Complete(w, db')
    /\ Stuck' => /\ w = Null /\ ~Awaited /\ Known(objects, db'.status)
                 /\ observer' # Null => Reports(objects, observer')
    /\ Never("move") =>
         /\ ~Moved(db'.status)
         /\ observer' # Null =>
              LET s == observer'.app.status IN
              ~Moved(s) /\ s.scheduled_to = db'.status.scheduled_to

\* It keeps the account of what exists.
LEMMA LivingWrite ==
    ASSUME Lawful, Grown, Writes
    PROVE  Living' /\ Grown' /\ NewestLast'
  <1> USE GrownFacts
  <1> DEFINE n == db'
             w == proc'["worker"]
             o == observer'
  <1>1. /\ UNCHANGED <<objects, pending, scenario>>
        /\ n \in Apps /\ n # Null /\ Save(n) /\ ~n.deleted /\ Guard \in ToSet(n.finalizers)
        /\ n.manifest # {} /\ n.modified > 0 /\ n.status.scheduled_to # Null
        /\ Sound(objects, n)
        /\ Moved(n.status) => n.status.triggered >= n.modified
        /\ \/ \A v \in Coming : Agrees(v, n)
           \/ scenario.prompt /\ n.status.triggered >= n.modified
        /\ proc'["task"] = Null
        /\ w # Null =>
             /\ Working(objects, w, n) /\ o = Null
             /\ w.job = "migrate" => scenario.prompt /\ ~Hooked /\ ~Never("move")
             /\ w.pc = "update" =>
                  scenario.prompt /\ n.status.triggered >= n.modified /\ ~Moved(n.status)
        /\ o # Null => Observing(objects, o, n)
        /\ Complete(w, n)
    BY ApplicationAssumption DEF Writes
  <1>2. /\ Stuck' => /\ w = Null /\ ~Awaited /\ Known(objects, n.status)
                     /\ o # Null => Reports(objects, o)
        /\ Never("move") =>
             /\ ~Moved(n.status)
             /\ o # Null =>
                  LET s == o.app.status IN ~Moved(s) /\ s.scheduled_to = n.status.scheduled_to
    BY DEF Writes
  <1>3. NewestLast'
    BY <1>1, NewestAfterSave
  <1>4. /\ Stuck' <=> n.status.state = "DEGRADED" /\ n.status.triggered < n.modified
        /\ Grown'
        /\ Never("move")' <=> Never("move")
        /\ Hooked' = Hooked
        /\ Unscheduled(db)' <=> Unscheduled(n)
    BY <1>1 DEF Stuck, Grown, Alive, Guarded, Never, Hooked, Unscheduled
  <1>5. stream' = Append(stream, n)
    BY <1>1 DEF Save
  <1>6. /\ ScheduledOrDeleting(n) <=> n.status.triggered >= n.modified
        /\ ~Unscheduled(n) <=> n.status.triggered >= n.modified \/ n.status.state = "DEGRADED"
        /\ n.status.triggered \in Nat /\ n.modified \in Nat
    BY <1>1, AcceptedAlive DEF Sound, Apps, Statuses
  <1> HIDE DEF n, w, o
  <1>7. /\ Coming' \subseteq Coming \cup {n}
        /\ ScheduledOrDeleting(n) => Awaited' /\ (scenario.prompt => Coming' = {n})
        /\ Awaited => Awaited'
        /\ ~ScheduledOrDeleting(n) => Coming' = Coming /\ Awaited' = Awaited
    BY <1>1, <1>5, ComingAfterSave
  <1>8. Agrees(n, n)
    BY <1>1, AgreesItself
  <1>9. \A v \in Coming' : Sound(objects, v) /\ Agrees(v, n)
    BY <1>1, <1>6, <1>7, <1>8
  <1>10. Stuck' => ~Awaited'
    BY <1>2, <1>4, <1>6, <1>7
  <1>11. Moved(n.status) => Awaited'
    BY <1>1, <1>6, <1>7
  <1>12. w # Null /\ w.pc = "update" => \A v \in Coming' : ~Moved(v.status)
    BY <1>1, <1>6, <1>7
  <1>13. ~Awaited' /\ ~Unscheduled(n) => Stuck'
    BY <1>4, <1>6, <1>7
  <1>14. Never("move") => Unmoved'
    BY <1>1, <1>2, <1>7 DEF Unmoved, n, o
  <1> QED BY <1>1, <1>2, <1>3, <1>4, <1>9, <1>10, <1>11, <1>12, <1>13, <1>14 DEF Living, n, w, o

\* Versions that are received, and objects that vanish
LEMMA LivingOutside ==
    ASSUME Lawful, Grown, Receive \/ \E c \in Clusters : Drift(c)
    PROVE  Living' /\ Grown' /\ NewestLast'
  <1> USE GrownFacts
  <1>1. CASE Receive
    <2>1. Coming' \subseteq Coming /\ Awaited' = Awaited /\ NewestLast'
      BY <1>1, ComingAfterReceive
    <2>2. UNCHANGED <<db, proc, observer, scenario, objects>>
      BY <1>1 DEF Receive, world
    <2> QED BY <2>1, <2>2, LivingIdle
  <1>2. CASE \E c \in Clusters : Drift(c)
    <2>1. UNCHANGED <<db, stream, pending, proc, observer, scenario>>
      BY <1>2 DEF Drift
    <2>2. \A d \in Clusters : objects'[d] \subseteq objects[d]
      BY <1>2 DEF Drift, TypeOK
    <2>3. Coming' = Coming /\ Awaited' = Awaited /\ NewestLast'
      BY <2>1, ComingUnchanged
    <2> QED BY <2>1, <2>2, <2>3, LivingIdle
  <1> QED BY <1>1, <1>2

\* The status that the worker sends, at the beginning or at the end, explains what exists.
LEMMA LivingReported ==
    ASSUME Lawful, Grown, proc["worker"] # Null, proc["worker"].pc \in {"mark", "status"},
           UpdateStatus(Marked(proc["worker"]).status),
           UNCHANGED <<objects, pending, scenario>>
    PROVE  /\ db' \in Apps /\ Save(db') /\ ~db'.deleted /\ Guard \in ToSet(db'.finalizers)
           /\ db'.manifest # {} /\ db'.modified > 0 /\ db'.status.scheduled_to # Null
           /\ db'.status = Marked(proc["worker"]).status
           /\ db'.modified = db.modified /\ db'.owners = db.owners /\ db'.manifest = db.manifest
           /\ Sound(objects, db')
           /\ Moved(db'.status) => db'.status.triggered >= db'.modified
           /\ \A v \in Coming : Agrees(v, db')
           /\ db'.status.state # "DEGRADED"
           /\ Never("move") => ~Moved(db'.status)
  <1> USE GrownFacts
  <1> DEFINE w == proc["worker"]
             a == Marked(w)
             s == w.app.status
             t == a.status
             n == db'
  <1>1. /\ w \in Coroutines /\ Working(objects, w, db) /\ w.pc \in {"mark", "status"}
        /\ w.job \in {"reconcile", "migrate"} /\ w.app \in Apps /\ s \in Statuses
        /\ w.job = "migrate" => ~Never("move")
    BY DEF Working, Apps
  <1>2. /\ a \in Apps /\ t \in Statuses
        /\ t.scheduled_to = s.scheduled_to /\ t.running_on = s.running_on
        /\ t.applied = s.applied /\ t.observed = s.observed /\ t.triggered = s.triggered
        /\ t.grace = s.grace
        /\ w.pc = "status" => a = w.app
        /\ w.pc = "mark" /\ w.job = "reconcile" => t.state \in {"CREATING", "RECONCILING"}
        /\ w.pc = "mark" /\ w.job = "migrate" => t.state = "MIGRATING"
    BY <1>1, MarkedKeeps
  <1>3. /\ n \in Apps /\ Save(n) /\ n.status = t
        /\ n.deleted = db.deleted /\ n.finalizers = db.finalizers
        /\ n.owners = db.owners /\ n.manifest = db.manifest /\ n.modified = db.modified
    BY <1>2, StatusSaved
  <1> HIDE DEF n, a, w, s, t
  <1>4. Agrees(w.app, db) /\ s.scheduled_to # Null /\ ~s.grace
    BY <1>1 DEF Working, s
  <1>5. t.state # "DEGRADED" /\ t.state # "FAILED"
    BY <1>1, <1>2 DEF Working, t
  <1>6. Sane(t)
    <2>1. CASE w.pc = "mark"
      <3>1. Sane(s)
        BY <1>1, <2>1 DEF Working, Reconciling, Migrating, Sound, s
      <3> QED BY <1>2, <1>5, <3>1 DEF Sane
    <2>2. CASE w.pc = "status"
      <3>1. s.observed = s.applied /\ s.running_on = s.scheduled_to
        BY <1>1, <2>2 DEF Working, s
      <3> QED BY <1>2, <1>4, <1>5, <3>1 DEF Sane
    <2> QED BY <1>1, <2>1, <2>2
  <1>7. PlacesOf(t) \subseteq db.owners /\ (Moved(t) => t.triggered >= db.modified)
    BY <1>2, <1>4 DEF Agrees, PlacesOf, Moved, s
  <1>8. Explained(objects, t, db.manifest, t.observed)
    <2>1. CASE w.pc = "mark"
      <3>1. Sound(objects, w.app)
        BY <1>1, <2>1 DEF Working, Reconciling, Migrating
      <3> QED BY <1>2, <1>4, <3>1 DEF Sound, Explained, Agrees, s
    <2>2. CASE w.pc = "status"
      <3>1. Within(objects, s.scheduled_to, db.manifest)
        BY <1>1, <1>4, <2>2 DEF Working, Agrees, s
      <3> QED BY <1>2, <3>1 DEF Explained, Within
    <2> QED BY <1>1, <2>1, <2>2
  <1>9. Sound(objects, n)
    BY <1>3, <1>6, <1>7, <1>8 DEF Sound
  <1>10. \A v \in Coming : Agrees(v, n)
    BY <1>2, <1>3, <1>4 DEF Agrees, s
  <1>11. Never("move") => ~Moved(t)
    BY <1>1, <1>2 DEF Working, Reconciling, Moved, s
  <1> QED BY <1>2, <1>3, <1>4, <1>5, <1>7, <1>9, <1>10, <1>11 DEF n, a, w, s, t

\* After the first report the worker deletes what is not asked for, or what it knows of
\* the cluster that the application leaves.
LEMMA WorkingMarked ==
    ASSUME NEW objs, NEW b, NEW n, NEW w \in Coroutines, Phases(w), Working(objs, w, b),
           w.pc = "mark", Sane(Marked(w).status),
           n.manifest = b.manifest, n.owners = b.owners, n.modified = b.modified,
           n.status.scheduled_to = b.status.scheduled_to, n.status.state # "DEGRADED"
    PROVE  LET v == AfterMark(w, Marked(w)) IN
           /\ Working(objs, v, n) /\ v.job = w.job /\ v.pc = "remove"
           /\ v \in Coroutines /\ Phases(v)
  <1> DEFINE a == Marked(w)
             v == AfterMark(w, a)
             s == w.app.status
  <1>1. /\ w.job \in {"reconcile", "migrate"} /\ w.app \in Apps /\ s \in Statuses
        /\ Agrees(w.app, b) /\ s.scheduled_to # Null /\ s.scheduled_to \in w.app.owners
        /\ ~s.grace
    BY DEF Working, Coroutines, Apps
  <1>2. /\ a \in Apps /\ a.status \in Statuses /\ SameMeta(w.app, a)
        /\ a.deleted = w.app.deleted /\ a.finalizers = w.app.finalizers
        /\ a.owners = w.app.owners /\ a.manifest = w.app.manifest
        /\ a.status.scheduled_to = s.scheduled_to /\ a.status.running_on = s.running_on
        /\ a.status.applied = s.applied /\ a.status.observed = s.observed
        /\ a.status.triggered = s.triggered /\ a.status.grace = s.grace
    BY MarkedKeeps DEF SameMeta
  <1>3. Goes(w, v)
    BY <1>2, AfterMarkGoes
  <1> HIDE DEF a
  <1>4. a.status.state # "FAILED" /\ Sane(a.status)
    BY DEF Sane, a
  <1>5. CASE w.job = "reconcile"
    <2>2. v.pc = "remove" /\ v.job = w.job /\ v.rm = w.rm /\ v.add = w.add /\ v.app = a
      BY <1>5 DEF AfterMark, Coroutines
    <2> HIDE DEF v, s
    <2>3. Reconciling(objs, w)
      BY <1>5 DEF Working
    <2>4. /\ Sound(objs, w.app) /\ w.rm = s.observed \ w.app.manifest
          /\ w.add = w.app.manifest \ s.observed /\ ~Moved(s) /\ s.applied = w.app.manifest
      BY <2>3 DEF Reconciling, s
    <2>5. Within(objs, s.scheduled_to, w.app.manifest \cup w.rm)
      <3> SUFFICES ASSUME NEW c \in Clusters
                   PROVE  objs[c] \subseteq
                            (IF c = s.scheduled_to THEN w.app.manifest \cup w.rm ELSE {})
        BY DEF Within
      <3>1. objs[c] \subseteq (IF c = s.scheduled_to THEN w.app.manifest ELSE {})
                                \cup (IF c = s.running_on THEN s.observed ELSE {})
        BY <2>4 DEF Sound, Explained, s
      <3>2. c = s.running_on => c = s.scheduled_to
        BY <2>4, ApplicationAssumption DEF Moved
      <3> QED BY <2>4, <3>1, <3>2
    <2>6. (s.observed \ w.rm) \cup w.add = w.app.manifest
      BY <2>4
    <2>7. ~Moved(a.status) /\ Agrees(a, n)
      BY <1>1, <1>2, <2>4 DEF Agrees, Moved, PlacesOf, s
    <2>8. Reconciling(objs, v)
      BY <1>2, <2>2, <2>4, <2>5, <2>6, <2>7 DEF Reconciling, s
    <2> QED BY <1>1, <1>2, <1>3, <1>4, <1>5, <2>2, <2>7, <2>8 DEF Working, Goes, v, a
  <1>6. CASE w.job = "migrate"
    <2>1. v.pc = "remove" /\ v.job = w.job /\ v.rm = w.rm /\ v.add = w.add /\ v.app = a
      BY <1>6 DEF AfterMark, Coroutines
    <2> HIDE DEF v, s
    <2>2. Migrating(objs, w, b)
      BY <1>6 DEF Working
    <2>3. /\ Sound(objs, w.app) /\ w.rm = s.observed /\ w.add = w.app.manifest /\ Moved(s)
          /\ s.triggered >= b.modified
      BY <2>2 DEF Migrating, s
    <2>4. Sound(objs, a) /\ Moved(a.status) /\ Agrees(a, n)
      BY <1>1, <1>2, <1>4, <2>3 DEF Sound, Explained, Agrees, Moved, PlacesOf, s
    <2>5. Migrating(objs, v, n)
      BY <1>2, <2>1, <2>3, <2>4 DEF Migrating
    <2> QED BY <1>1, <1>2, <1>3, <1>4, <1>6, <2>1, <2>4, <2>5 DEF Working, Goes, v, a
  <1> QED BY <1>1, <1>5, <1>6

\* update_application_status by the worker, before and after it changes objects
LEMMA LivingStatus ==
    ASSUME Lawful, Grown, NEW p \in Procs, SendStatus(p)
    PROVE  Living' /\ Grown' /\ NewestLast'
  <1> USE GrownFacts
  <1> DEFINE w == proc["worker"]
             a == Marked(w)
             n == db'
             x == proc'["worker"]
             o == observer'
  <1>1. /\ p = "worker" /\ w # Null
        /\ UpdateStatus(a.status) /\ UNCHANGED <<objects, pending, scenario>>
        /\ w.pc \in {"mark", "trigger", "status", "give_up", "failed"}
    BY DEF SendStatus, Procs, world
  <1>2. /\ w \in Coroutines /\ Phases(w) /\ w.app \in Apps /\ Working(objects, w, db)
        /\ w.job \in {"reconcile", "migrate"} /\ w.pc \in {"mark", "status"} /\ observer = Null
        /\ w.job = "migrate" => scenario.prompt /\ ~Hooked /\ ~Never("move")
        /\ proc["task"] = Null
    BY <1>1 DEF Working, Reconciling, Migrating
  <1>3. /\ n \in Apps /\ Save(n) /\ ~n.deleted /\ Guard \in ToSet(n.finalizers)
        /\ n.manifest # {} /\ n.modified > 0 /\ n.status.scheduled_to # Null
        /\ n.status = a.status
        /\ n.modified = db.modified /\ n.owners = db.owners /\ n.manifest = db.manifest
        /\ Sound(objects, n)
        /\ Moved(n.status) => n.status.triggered >= n.modified
        /\ \A v \in Coming : Agrees(v, n)
        /\ n.status.state # "DEGRADED"
        /\ Never("move") => ~Moved(n.status)
    BY <1>1, <1>2, LivingReported
  <1>4. n.status.scheduled_to = w.app.status.scheduled_to /\ Agrees(w.app, db)
    BY <1>2, <1>3, MarkedKeeps DEF Working
  <1>5. ~Stuck'
    BY <1>3 DEF Stuck
  <1>6. SUFFICES /\ proc'["task"] = Null
                 /\ x # Null =>
                      /\ Working(objects, x, n) /\ o = Null
                      /\ x.job = "migrate" => scenario.prompt /\ ~Hooked /\ ~Never("move")
                      /\ x.pc = "update" =>
                           scenario.prompt /\ n.status.triggered >= n.modified /\ ~Moved(n.status)
                 /\ o # Null => Observing(objects, o, n)
                 /\ Complete(x, n)
                 /\ Never("move") /\ o # Null =>
                      ~Moved(o.app.status) /\ o.app.status.scheduled_to = n.status.scheduled_to
    <2> HIDE DEF a, w
    <2>1. Writes
      BY <1>1, <1>3, <1>5, <1>6 DEF Writes
    <2> QED BY <2>1, LivingWrite
  <1>7. CASE w.pc = "mark"
    <2> DEFINE v == AfterMark(w, a)
    <2>1. Continue("worker", v) /\ o = Null
      BY <1>1, <1>2, <1>7 DEF SendStatus, AfterMark
    <2>2. proc'["task"] = Null /\ x = Settled(v)
      BY <1>2, <2>1 DEF Continue, TypeOK, Procs
    <2>3. n.status.scheduled_to = db.status.scheduled_to /\ Sane(a.status)
      BY <1>3, <1>4 DEF Agrees, Sound
    <2> HIDE DEF w, n, x, o
    <2>4. /\ Working(objects, v, n) /\ v.job = w.job /\ v.pc = "remove"
          /\ v \in Coroutines /\ Phases(v)
      BY <1>2, <1>3, <1>7, <2>3, WorkingMarked
    <2> HIDE DEF v
    <2>5. /\ Working(objects, Settled(v), n) /\ Settled(v).job = w.job
          /\ Settled(v).pc \in {"remove", "apply", "status"}
      BY <2>4, WorkingSettled
    <2>6. Settled(v) # Null
      BY <2>4, WorkingSettled, ApplicationAssumption
    <2>7. Complete(x, n)
      BY <2>2, <2>5, <2>6 DEF Complete
    <2> QED BY <1>2, <2>1, <2>2, <2>5, <2>7
  <1>8. CASE w.pc = "status" /\ w.job = "migrate"
    <2> DEFINE v == [w EXCEPT !.pc = "update"]
    <2>1. Continue("worker", v) /\ o = Null
      BY <1>1, <1>2, <1>8 DEF SendStatus
    <2>2. /\ v \in Coroutines /\ v.pc = "update" /\ v.job = "migrate" /\ v.app = w.app
          /\ v.rm = w.rm /\ v.add = w.add
      BY <1>2, <1>8 DEF Coroutines, Points
    <2>3. Settled(v) = v
      BY <2>2 DEF Settled
    <2>4. proc'["task"] = Null /\ x = v
      BY <1>2, <2>1, <2>3 DEF Continue, TypeOK, Procs
    <2>5. n.status = w.app.status
      BY <1>2, <1>3, <1>8, MarkedKeeps
    <2> HIDE DEF v, w, n, x, o, a
    <2>6. /\ w.app.status.triggered >= n.modified /\ ~Moved(w.app.status)
          /\ w.app.status.running_on = w.app.status.scheduled_to
          /\ w.app.status.observed = w.app.manifest /\ w.app.status.applied = w.app.manifest
          /\ Within(objects, w.app.status.scheduled_to, w.app.manifest)
      BY <1>2, <1>3, <1>8 DEF Working, Migrating, Moved
    <2>7. Known(objects, n.status)
      BY <2>5, <2>6 DEF Known
    <2>8. Agrees(w.app, n)
      BY <1>3, <1>4, <2>5 DEF Agrees, PlacesOf
    <2>9. Migrating(objects, v, n)
      BY <2>2, <2>5, <2>6, <2>7 DEF Migrating
    <2>10. Working(objects, v, n)
      BY <1>2, <1>3, <1>8, <2>2, <2>6, <2>8, <2>9 DEF Working
    <2>11. Complete(x, n)
      BY <2>5, <2>6 DEF Complete
    <2> QED BY <1>2, <1>8, <2>1, <2>2, <2>4, <2>5, <2>6, <2>10, <2>11
  <1>9. CASE w.pc = "status" /\ w.job = "reconcile"
    <2>1. Finish("worker", w)
      BY <1>1, <1>2, <1>9 DEF SendStatus
    <2>2. proc'["task"] = Null /\ x = Null /\ o = Watching(w.app)
      BY <1>2, <1>9, <2>1 DEF Finish, Return, Register, TypeOK, Procs
    <2>3. n.status = w.app.status
      BY <1>2, <1>3, <1>9, MarkedKeeps
    <2> HIDE DEF w, n, x, o, a
    <2>4. /\ w.app.status.running_on = w.app.status.scheduled_to
          /\ w.app.status.applied = w.app.manifest /\ w.app.status.observed = w.app.manifest
          /\ Within(objects, w.app.status.scheduled_to, w.app.manifest)
          /\ w.app.status.scheduled_to # Null
      BY <1>2, <1>9 DEF Working
    <2>5. o # Null /\ o.app = w.app /\ o.poll = Null
      BY <1>2, <2>2, <2>4, WatchingIs
    <2>6. Sane(w.app.status) /\ PlacesOf(w.app.status) \subseteq n.owners
      BY <1>3, <2>3 DEF Sound
    <2>7. Explained(objects, w.app.status, n.manifest, w.app.status.applied)
      BY <1>3, <1>4, <2>4 DEF Explained, Within, Agrees
    <2>8. Observing(objects, o, n)
      BY <2>4, <2>5, <2>6, <2>7 DEF Observing
    <2> QED BY <2>2, <2>3, <2>4, <2>5, <2>8 DEF Moved, Complete
  <1> QED BY <1>2, <1>7, <1>8, <1>9

\* update_application at the end of a migration: the former cluster is no owner any more,
\* and no version that may still come runs there.
LEMMA LivingUpdate ==
    ASSUME Lawful, Grown, NEW p \in Procs, SendUpdate(p)
    PROVE  Living' /\ Grown' /\ NewestLast'
  <1> USE GrownFacts
  <1> DEFINE w == proc["worker"]
             b == w.app
             s == b.status
             n == db'
             o == observer'
  <1>1. /\ p = "worker" /\ w # Null /\ w.pc \in {"finalizer", "update"}
        /\ UNCHANGED <<objects, pending, scenario>>
    BY DEF SendUpdate, Procs, world
  <1>2. /\ w \in Coroutines /\ b \in Apps /\ Working(objects, w, db)
        /\ w.job = "migrate" /\ w.pc = "update" /\ ~Never("move")
        /\ proc["task"] = Null /\ \A v \in Coming : ~Moved(v.status)
    BY <1>1 DEF Working, Reconciling, Migrating
  <1>3. UpdateApplication(b) /\ Finish("worker", w)
    BY <1>1, <1>2 DEF SendUpdate
  <1>4. proc'["task"] = Null /\ proc'["worker"] = Null /\ o = Watching(b)
    BY <1>2, <1>3 DEF Finish, Return, Register, TypeOK, Procs
  <1> HIDE DEF w, b, n, o, s
  <1>5. /\ n \in Apps /\ Save(n) /\ n.status = db.status /\ ~n.deleted
        /\ n.finalizers = b.finalizers /\ n.owners = b.owners /\ n.manifest = b.manifest
        /\ n.modified = db.modified + 1
    BY <1>2, <1>3, ApplicationSaved DEF n
  <1>6. /\ Agrees(b, db) /\ s.scheduled_to # Null /\ s.scheduled_to \in b.owners
        /\ ~s.grace /\ s.state = "RUNNING" /\ s.running_on = s.scheduled_to
        /\ s.observed = b.manifest /\ s.applied = b.manifest
        /\ Within(objects, s.scheduled_to, b.manifest)
        /\ db.status.state # "DEGRADED" /\ db.status.running_on = s.scheduled_to
        /\ db.status.observed \subseteq db.status.applied
    BY <1>2 DEF Working, Migrating, b, s
  <1>7. /\ db.status.scheduled_to = s.scheduled_to /\ b.manifest = db.manifest
        /\ Guard \in ToSet(b.finalizers)
    BY <1>6 DEF Agrees, s
  <1>8. Sound(objects, n)
    BY <1>5, <1>6, <1>7 DEF Sound, PlacesOf
  <1>9. \A v \in Coming : Agrees(v, n)
    <2> SUFFICES ASSUME NEW v \in Coming PROVE Agrees(v, n)
      OBVIOUS
    <2>1. Agrees(v, db) /\ ~Moved(v.status)
      BY <1>2
    <2>2. PlacesOf(v.status) \subseteq n.owners
      BY <1>5, <1>6, <1>7, <2>1 DEF Agrees, PlacesOf, Moved
    <2> QED BY <1>5, <1>7, <2>1, <2>2 DEF Agrees
  <1>10. o # Null /\ o.app = b /\ o.poll = Null
    BY <1>2, <1>4, <1>6, WatchingIs DEF s
  <1>11. Observing(objects, o, n)
    <2>1. Sane(s) /\ PlacesOf(s) \subseteq n.owners
      BY <1>5, <1>6 DEF Sane, PlacesOf
    <2>2. Explained(objects, s, n.manifest, s.applied)
      BY <1>5, <1>6 DEF Explained, Within
    <2> QED BY <1>6, <1>10, <2>1, <2>2 DEF Observing, s
  <1>12. ~Stuck' /\ ~Moved(n.status)
    BY <1>5, <1>6, <1>7 DEF Stuck, Moved, n
  <1>13. n.manifest # {} /\ n.modified > 0 /\ n.status.scheduled_to # Null
    <2>1. db.modified \in Nat /\ db.manifest # {} /\ db.status.scheduled_to # Null
      BY DEF Apps
    <2> QED BY <1>5, <1>7, <2>1
  <1>15. Complete(proc'["worker"], n)
    BY <1>5, <1>6 DEF Complete
  <1>14. Writes
    BY <1>1, <1>2, <1>4, <1>5, <1>7, <1>8, <1>9, <1>11, <1>12, <1>13, <1>15 DEF Writes, n, o
  <1> QED BY <1>14, LivingWrite

\* Requests of the worker are refused only at the end of a migration that changed
\* nothing: the status was saved before.
LEMMA LivingRefused ==
    ASSUME Lawful, Grown, NEW p \in Procs, Refused(p)
    PROVE  Living' /\ Grown' /\ NewestLast'
  <1> USE GrownFacts
  <1> DEFINE w == proc["worker"]
  <1>1. /\ p = "worker" /\ w # Null /\ proc' = [proc EXCEPT !["worker"] = Null]
        /\ UNCHANGED <<db, objects, stream, pending, observer, scenario>>
    BY DEF Refused, Return, Procs, world
  <1>2. /\ w.pc = "update" /\ w.job = "migrate" /\ Migrating(objects, w, db)
        /\ Agrees(w.app, db)
    BY <1>1 DEF Refused, Working, Reconciling, Migrating
  <1>3. /\ Known(objects, db.status) /\ db.status.running_on = db.status.scheduled_to
        /\ db.status.observed \subseteq db.status.applied
    BY <1>2 DEF Migrating, Agrees
  <1>4. proc'["worker"] = Null /\ proc'["task"] = Null
    BY <1>1 DEF TypeOK, Procs
  <1>5. Coming' = Coming /\ Awaited' = Awaited /\ NewestLast'
    BY <1>1, ComingUnchanged
  <1>6. Grown' /\ (Stuck' <=> Stuck) /\ (Unscheduled(db)' <=> Unscheduled(db))
        /\ (Never("move")' <=> Never("move"))
    BY <1>1 DEF Grown, Alive, Guarded, Stuck, Unscheduled, Never
  <1>7. Unmoved => Unmoved'
    BY <1>1, <1>5 DEF Unmoved
  <1> QED BY <1>1, <1>3, <1>4, <1>5, <1>6, <1>7 DEF Living, Moved, Complete

\* A write that changes only the state or the trigger
LEMMA LivingTouched ==
    ASSUME Lawful, Grown, UNCHANGED <<objects, pending, scenario, proc, observer>>,
           db' \in Apps, Save(db'), db'.deleted = db.deleted, db'.finalizers = db.finalizers,
           db'.owners = db.owners, db'.manifest = db.manifest, db'.modified = db.modified,
           db'.status.scheduled_to = db.status.scheduled_to,
           db'.status.running_on = db.status.running_on,
           db'.status.applied = db.status.applied, db'.status.observed = db.status.observed,
           Sane(db'.status), db'.status.state # "DEGRADED",
           db'.status.triggered >= db.status.triggered,
           db'.status.triggered >= db.modified \/ db.status.state = "DEGRADED"
    PROVE  Living' /\ Grown' /\ NewestLast'
  <1> USE GrownFacts
  <1> DEFINE n == db'
             w == proc["worker"]
  <1>1. /\ n.status.triggered \in Nat /\ db.status.triggered \in Nat /\ db.modified \in Nat
        /\ n.modified = db.modified
    BY DEF Apps, Statuses
  <1>2. Sound(objects, n)
    BY DEF Sound, PlacesOf, Explained
  <1>3. /\ Moved(n.status) <=> Moved(db.status)
        /\ Moved(n.status) => n.status.triggered >= n.modified
    BY <1>1 DEF Moved
  <1>4. \A v \in Coming : Agrees(v, n)
    BY DEF Agrees
  <1>5. w # Null => /\ Working(objects, w, n)
                    /\ w.pc = "update" => n.status.triggered >= n.modified /\ ~Moved(n.status)
    <2> SUFFICES ASSUME w # Null
                 PROVE  /\ Working(objects, w, n)
                        /\ w.pc = "update" => n.status.triggered >= n.modified /\ ~Moved(n.status)
      OBVIOUS
    <2> HIDE DEF n, w
    <2>1. Working(objects, w, db)
      BY DEF w
    <2>2. Agrees(w.app, db) /\ Agrees(w.app, n)
      BY <2>1 DEF Working, Agrees, n
    <2>3. Known(objects, db.status) <=> Known(objects, n.status)
      BY DEF Known, n
    <2>4. Migrating(objects, w, db) => Migrating(objects, w, n)
      BY <2>3 DEF Migrating, n
    <2>5. Working(objects, w, n)
      BY <2>1, <2>2, <2>4 DEF Working, n
    <2>6. w.pc = "update" => db.status.state # "DEGRADED" /\ ~Moved(db.status)
      BY <2>1, <2>2 DEF Working, Migrating, Reconciling, Agrees, Moved
    <2> QED BY <1>1, <1>3, <2>5, <2>6 DEF n
  <1>6. observer # Null => Observing(objects, observer, n)
    BY DEF Observing
  <1>7. ~Stuck'
    BY DEF Stuck
  <1>8. w # Null /\ w.pc = "update" => scenario.prompt
    BY DEF Working, Reconciling
  <1>9. Never("move") =>
         /\ ~Moved(n.status)
         /\ observer # Null =>
              LET s == observer.app.status IN
              ~Moved(s) /\ s.scheduled_to = n.status.scheduled_to
    BY <1>3 DEF Unmoved
  <1>11. Complete(w, n)
    BY DEF Complete
  <1>10. Writes
    BY <1>1, <1>2, <1>3, <1>4, <1>5, <1>6, <1>7, <1>8, <1>9, <1>11 DEF Writes
  <1> QED BY <1>10, LivingWrite

\* The observer polls, and reports; its report may undo a decision of the scheduler that
\* no version vouches for any more.
LEMMA LivingPoll ==
    ASSUME Lawful, Grown, Poll
    PROVE  Living' /\ Grown' /\ NewestLast'
  <1> USE GrownFacts
  <1> DEFINE s == observer.app.status
             o == observer'
             q == o.poll
  <1>1. /\ observer # Null /\ o # Null /\ o.app = observer.app /\ q # Null
        /\ q.state = s.state \/ q.state \in {"RUNNING", "RESTARTING", "DEGRADED"}
        /\ q.scheduled_to = s.scheduled_to /\ q.running_on = s.running_on
        /\ q.applied = s.applied /\ q.grace = s.grace /\ q.triggered = s.triggered
        /\ q.observed = objects[s.running_on] \cap s.applied
        /\ UNCHANGED <<db, objects, scenario, stream, pending, proc>>
    BY PollResult
  <1>2. Observing(objects, observer, db) /\ proc["worker"] = Null
    BY <1>1
  <1>3. Reports(objects, observer) => Reports(objects', o)
    BY PollReports
  <1> HIDE DEF o, q, s
  <1>4. Sane(q) /\ q.observed \subseteq q.applied
    BY <1>1, <1>2 DEF Sane, Observing, s
  <1>5. Explained(objects, q, db.manifest, q.observed)
    <2> SUFFICES ASSUME NEW c \in Clusters
                 PROVE  objects[c] \subseteq (IF c = q.scheduled_to THEN db.manifest ELSE {})
                                               \cup (IF c = q.running_on THEN q.observed ELSE {})
      BY DEF Explained
    <2>1. objects[c] \subseteq (IF c = s.scheduled_to THEN db.manifest ELSE {})
                                  \cup (IF c = s.running_on THEN s.applied ELSE {})
      BY <1>2 DEF Observing, Explained, s
    <2> QED BY <1>1, <2>1
  <1>6. Observing(objects, o, db)
    BY <1>1, <1>2, <1>4, <1>5 DEF Observing, q, s
  <1>7. Coming' = Coming /\ Awaited' = Awaited /\ NewestLast'
    BY <1>1, ComingUnchanged
  <1>8. Grown' /\ (Stuck' <=> Stuck) /\ (Unscheduled(db)' <=> Unscheduled(db))
        /\ (Never("move")' <=> Never("move"))
    BY <1>1 DEF Grown, Alive, Guarded, Stuck, Unscheduled, Never
  <1>9. Unmoved => Unmoved'
    BY <1>1, <1>7 DEF Unmoved, o
  <1> QED BY <1>1, <1>2, <1>3, <1>6, <1>7, <1>8, <1>9 DEF Living, o, Complete

\* The observer sends its own copy of the status, which explains what exists as well.
LEMMA LivingObserve ==
    ASSUME Lawful, Grown, Observe
    PROVE  Living' /\ Grown' /\ NewestLast'
  <1> USE GrownFacts
  <1> DEFINE q == observer.poll
             n == db'
             o == observer'
             s == observer.app.status
  <1>1. /\ observer # Null /\ q # Null
        /\ n \in Apps /\ Save(n) /\ n # Null
        /\ n.deleted = db.deleted /\ n.finalizers = db.finalizers
        /\ n.owners = db.owners /\ n.manifest = db.manifest /\ n.modified = db.modified
        /\ n.status.state = q.state /\ n.status.scheduled_to = q.scheduled_to
        /\ n.status.running_on = q.running_on /\ n.status.applied = q.applied
        /\ n.status.observed = q.observed
        /\ n.status.grace = q.grace /\ n.status.triggered = db.modified
        /\ o = Watching(n)
        /\ UNCHANGED <<objects, scenario, pending, proc>>
    BY ObserveResult
  <1>2. Observing(objects, observer, db) /\ proc["worker"] = Null /\ proc["task"] = Null
    BY <1>1
  <1> HIDE DEF q, n, o, s
  <1>3. /\ Sane(q) /\ q.observed \subseteq q.applied /\ q.running_on = s.running_on /\ q.running_on # Null
        /\ q.scheduled_to = s.scheduled_to
        /\ PlacesOf(s) \subseteq db.owners /\ Explained(objects, q, db.manifest, q.observed)
    BY <1>1, <1>2 DEF Observing, q, s
  <1>4. q.scheduled_to # Null /\ q.observed \subseteq q.applied
    BY <1>3 DEF Sane
  <1>5. Sound(objects, n)
    <2>1. Sane(n.status)
      BY <1>1, <1>3, <1>4 DEF Sane
    <2>2. PlacesOf(n.status) \subseteq n.owners
      BY <1>1, <1>3 DEF PlacesOf
    <2>3. Explained(objects, n.status, n.manifest, n.status.observed)
      BY <1>1, <1>3 DEF Explained
    <2> QED BY <2>1, <2>2, <2>3 DEF Sound
  <1>6. Never("move") => ~Moved(n.status) /\ n.status.scheduled_to = db.status.scheduled_to
    BY <1>1, <1>3 DEF Unmoved, Moved, s
  <1>7. Never("move") => \A v \in Coming : Agrees(v, n)
    BY <1>1, <1>6 DEF Agrees
  <1>8. n.modified \in Nat /\ n.status.triggered = n.modified
    BY <1>1 DEF Apps
  <1>9. o # Null /\ o.app = n /\ o.poll = Null
    BY <1>1, <1>3, WatchingIs
  <1>10. Observing(objects, o, n)
    <2>1. Explained(objects, n.status, n.manifest, n.status.applied)
      BY <1>1, <1>3, <1>4 DEF Explained
    <2> QED BY <1>1, <1>3, <1>5, <1>9, <2>1 DEF Observing, Sound
  <1>11. ~Stuck'
    BY <1>8 DEF Stuck, n
  <1>12. /\ ~n.deleted /\ Guard \in ToSet(n.finalizers)
         /\ n.manifest # {} /\ n.modified > 0 /\ n.status.scheduled_to # Null
         /\ n.status.triggered >= n.modified
    BY <1>1, <1>3, <1>4, <1>8
  <1>13. (\A v \in Coming : Agrees(v, n)) \/ scenario.prompt
    BY <1>7
  <1>14. proc'["worker"] = Null /\ proc'["task"] = Null
    BY <1>1, <1>2
  <1>16. Complete(proc'["worker"], n)
    BY <1>1, <1>4 DEF Complete
  <1>15. Writes
    BY <1>1, <1>5, <1>6, <1>9, <1>16, <1>10, <1>11, <1>12, <1>13, <1>14 DEF Writes, n, o
  <1> QED BY <1>15, LivingWrite

\* The scheduler confirms its decision, and a shutdown is retried.
LEMMA LivingScheduled ==
    ASSUME Lawful, Grown, Schedule \/ Retry
    PROVE  Living' /\ Grown' /\ NewestLast'
  <1> USE GrownFacts
  <1>1. /\ db.status \in Statuses /\ db.modified \in Nat
        /\ Sane(db.status) /\ db.status.triggered \in Nat
    BY DEF Apps, Sound, Statuses
  <1>2. CASE Schedule
    <2> DEFINE st == [db.status EXCEPT !.triggered = db.modified]
    <2>1. /\ Unscheduled(db) /\ UpdateStatus(st)
          /\ UNCHANGED <<objects, pending, scenario, proc, observer>>
      BY <1>2 DEF Schedule, Version, world
    <2>2. /\ st \in Statuses /\ st.triggered = db.modified
          /\ st.scheduled_to = db.status.scheduled_to /\ st.running_on = db.status.running_on
          /\ st.applied = db.status.applied /\ st.observed = db.status.observed
          /\ st.state = db.status.state /\ st.grace = db.status.grace
      BY <1>1 DEF Statuses
    <2> HIDE DEF st
    <2>3. /\ db' \in Apps /\ Save(db') /\ db'.status = st
          /\ db'.deleted = db.deleted /\ db'.finalizers = db.finalizers
          /\ db'.owners = db.owners /\ db'.manifest = db.manifest /\ db'.modified = db.modified
      BY <2>1, <2>2, StatusSaved
    <2>4. Sane(st)
      BY <1>1, <2>2 DEF Sane
    <2>5. db.status.state # "DEGRADED" /\ db.status.triggered < db.modified
      BY <2>1 DEF Unscheduled
    <2>6. db.modified >= db.status.triggered /\ db.modified >= db.modified
      BY <1>1, <2>5
    <2> QED BY <2>1, <2>2, <2>3, <2>4, <2>5, <2>6, LivingTouched
  <1>3. CASE Retry
    <2> DEFINE a == [db EXCEPT !.status.state = "WAITING_FOR_CLEANING", !.status.grace = FALSE]
    <2>1. /\ db.status.state = "DEGRADED" /\ Save(a)
          /\ UNCHANGED <<objects, pending, scenario, proc, observer>>
      BY <1>3 DEF Retry, world
    <2>2. /\ a \in Apps /\ a.deleted = db.deleted /\ a.finalizers = db.finalizers
          /\ a.owners = db.owners /\ a.manifest = db.manifest /\ a.modified = db.modified
          /\ a.status.state = "WAITING_FOR_CLEANING" /\ a.status.grace = FALSE
          /\ a.status.scheduled_to = db.status.scheduled_to
          /\ a.status.running_on = db.status.running_on
          /\ a.status.applied = db.status.applied /\ a.status.observed = db.status.observed
          /\ a.status.triggered = db.status.triggered
      BY DEF Apps, Statuses, States
    <2> HIDE DEF a
    <2>3. Sane(a.status) /\ db.status.triggered >= db.status.triggered
      BY <1>1, <2>2 DEF Sane
    <2>4. db' = a
      BY <2>1 DEF Save
    <2> QED BY <2>1, <2>2, <2>3, <2>4, LivingTouched
  <1> QED BY <1>2, <1>3

\* What holds while nothing is under way
LEMMA LivingAtRest ==
    ASSUME Lawful, Grown, AtRest
    PROVE  /\ ~Awaited /\ Coming = {} /\ \A p \in Procs : proc[p] = Null
           /\ Known(objects, db.status) /\ ~Moved(db.status)
           /\ observer # Null => Reports(objects, observer)
  <1> USE GrownFacts
  <1>1. stream = <<>> /\ pending = Null /\ (\A p \in Procs : proc[p] = Null) /\ ~Unscheduled(db)
    BY DEF AtRest
  <1>2. ~Awaited /\ Coming = {}
    BY <1>1, ComingIsAccepted
  <1>3. proc["worker"] = Null
    BY <1>1 DEF Procs
  <1> QED BY <1>1, <1>2, <1>3

\* An application at rest is moved to another cluster, which becomes an owner.
LEMMA LivingMove ==
    ASSUME Lawful, Grown, NEW c \in Clusters, Move(c)
    PROVE  Living' /\ Grown' /\ NewestLast'
  <1> USE GrownFacts
  <1> DEFINE s == db.status
             n == db'
  <1>1. /\ AtRest /\ Bind(c) /\ ~Never("move")
        /\ UNCHANGED <<objects, scenario, pending, proc, observer>>
    BY DEF Move, Timely, Spend, Kinds, world
  <1>2. /\ ~Awaited /\ Coming = {} /\ proc["worker"] = Null /\ proc["task"] = Null
        /\ Known(objects, s) /\ (observer # Null => Reports(objects, observer))
    BY <1>1, LivingAtRest DEF Procs
  <1>3. Save([db EXCEPT !.owners = @ \cup {c}, !.status.scheduled_to = c,
                        !.status.triggered = db.modified])
    BY <1>1 DEF Bind
  <1>4. s \in Statuses /\ db.modified \in Nat /\ db.owners \in SUBSET Clusters
    BY DEF Apps
  <1>5. /\ n \in Apps /\ Save(n) /\ n.deleted = db.deleted /\ n.finalizers = db.finalizers
        /\ n.owners = db.owners \cup {c} /\ n.manifest = db.manifest /\ n.modified = db.modified
        /\ n.status.scheduled_to = c /\ n.status.triggered = db.modified
        /\ n.status.running_on = s.running_on
        /\ n.status.applied = s.applied /\ n.status.observed = s.observed
        /\ n.status.state = s.state /\ n.status.grace = s.grace
    <2> DEFINE a == [db EXCEPT !.owners = @ \cup {c}, !.status.scheduled_to = c,
                               !.status.triggered = db.modified]
    <2>1. /\ a \in Apps /\ a.deleted = db.deleted /\ a.finalizers = db.finalizers
          /\ a.owners = db.owners \cup {c} /\ a.manifest = db.manifest /\ a.modified = db.modified
          /\ a.status.scheduled_to = c /\ a.status.triggered = db.modified
          /\ a.status.running_on = s.running_on
          /\ a.status.applied = s.applied /\ a.status.observed = s.observed
          /\ a.status.state = s.state /\ a.status.grace = s.grace
      BY <1>4 DEF Apps, Statuses, Places
    <2> HIDE DEF a
    <2>2. db' = a /\ Save(a)
      BY <1>3 DEF Save, a
    <2> QED BY <2>1, <2>2
  <1> HIDE DEF n, s
  <1>6. Sane(s) /\ PlacesOf(s) \subseteq db.owners /\ c # Null
    BY ApplicationAssumption DEF Sound, s
  <1>7. Sound(objects, n)
    <2>1. Sane(n.status)
      BY <1>5, <1>6 DEF Sane
    <2>2. PlacesOf(n.status) \subseteq n.owners
      BY <1>5, <1>6 DEF PlacesOf
    <2>3. Explained(objects, n.status, n.manifest, n.status.observed)
      BY <1>2, <1>5 DEF Explained, Known, Within
    <2> QED BY <2>1, <2>2, <2>3 DEF Sound
  <1>8. observer # Null => Observing(objects, observer, n)
    BY <1>5 DEF Observing
  <1>9. n.status.triggered >= n.modified /\ ~(n.status.triggered < n.modified)
    BY <1>4, <1>5
  <1>10. ~Stuck'
    BY <1>9 DEF Stuck, n
  <1>11. proc'["worker"] = Null /\ proc'["task"] = Null
    BY <1>1, <1>2
  <1>12. /\ ~n.deleted /\ Guard \in ToSet(n.finalizers)
         /\ n.manifest # {} /\ n.modified > 0 /\ n.status.scheduled_to # Null
    BY <1>5, <1>6
  <1>14. Complete(proc'["worker"], n)
    BY <1>2, <1>5 DEF Complete, s
  <1>13. Writes
    BY <1>1, <1>2, <1>5, <1>14, <1>7, <1>8, <1>9, <1>10, <1>11, <1>12 DEF Writes, n
  <1> QED BY <1>13, LivingWrite

\* The manifest of an application at rest is replaced.
LEMMA LivingUserUpdate ==
    ASSUME Lawful, Grown, NEW m \in Manifests, UserUpdate(m)
    PROVE  Living' /\ Grown' /\ NewestLast'
  <1> USE GrownFacts
  <1> DEFINE b == [db EXCEPT !.manifest = m]
             n == db'
             s == n.status
  <1>1. AtRest /\ UpdateApplication(b) /\ UNCHANGED <<objects, scenario, pending, proc, observer>>
    BY DEF UserUpdate, Timely, world
  <1>2. /\ ~Awaited /\ Coming = {} /\ proc["worker"] = Null /\ proc["task"] = Null
        /\ Known(objects, db.status) /\ (observer # Null => Reports(objects, observer))
        /\ ~Moved(db.status)
    BY <1>1, LivingAtRest DEF Procs
  <1>3. b \in Apps /\ b.finalizers = db.finalizers /\ b.owners = db.owners /\ b.manifest = m
        /\ m # {} /\ db.modified \in Nat
    BY ApplicationAssumption DEF Apps
  <1> HIDE DEF b
  <1>4. /\ n \in Apps /\ Save(n) /\ s = db.status
        /\ n.deleted = db.deleted /\ n.finalizers = db.finalizers
        /\ n.owners = db.owners /\ n.manifest = m /\ n.modified = db.modified + 1
    BY <1>1, <1>3, ApplicationSaved
  <1> HIDE DEF n, s
  <1>5. Sound(objects, n)
    <2>1. Explained(objects, s, n.manifest, s.observed)
      BY <1>2, <1>4 DEF Explained, Known, Within
    <2> QED BY <1>4, <2>1 DEF Sound, s
  <1>6. observer # Null => Observing(objects, observer, n)
    <2> SUFFICES ASSUME observer # Null PROVE Observing(objects, observer, n)
      OBVIOUS
    <2> DEFINE t == observer.app.status
               q == observer.poll
    <2>1. Within(objects, t.running_on, t.applied) /\ (q # Null => Known(objects, q))
      BY <1>2 DEF Reports
    <2>2. Observing(objects, observer, db)
      OBVIOUS
    <2> HIDE DEF t, q
    <2>3. Explained(objects, t, n.manifest, t.applied)
      BY <2>1 DEF Explained, Within
    <2>4. q # Null => Explained(objects, q, n.manifest, q.observed)
      BY <2>1 DEF Explained, Known, Within
    <2> QED BY <1>4, <2>2, <2>3, <2>4 DEF Observing, t, q
  <1>7. Never("move") /\ observer # Null =>
         LET t == observer.app.status IN ~Moved(t) /\ t.scheduled_to = s.scheduled_to
    BY <1>4 DEF Unmoved
  <1>8. proc'["worker"] = Null /\ proc'["task"] = Null /\ ~Moved(s)
    BY <1>1, <1>2, <1>4
  <1>9. /\ ~n.deleted /\ Guard \in ToSet(n.finalizers)
        /\ n.manifest # {} /\ n.modified > 0 /\ s.scheduled_to # Null
    BY <1>3, <1>4
  <1>11. Complete(proc'["worker"], n)
    BY <1>2, <1>4 DEF Complete, s
  <1>10. Writes
    BY <1>1, <1>2, <1>4, <1>5, <1>6, <1>7, <1>8, <1>9, <1>11 DEF Writes, n, s
  <1> QED BY <1>10, LivingWrite

\* The deletion of an application at rest finds everything known.
LEMMA LivingUserDelete ==
    ASSUME Lawful, Grown, UserDelete
    PROVE  Dying' /\ Gone' /\ NewestLast'
  <1> USE GrownFacts
  <1> DEFINE st == IF Hooked THEN "WAITING_FOR_CLEANING" ELSE db.status.state
             a == [db EXCEPT !.deleted = TRUE, !.finalizers = Append(@, Cascade),
                             !.status.state = st]
             n == db'
  <1>1. AtRest /\ Save(a) /\ UNCHANGED <<objects, scenario, pending, proc, observer>>
    BY DEF UserDelete, Timely, world
  <1>2. /\ Coming = {} /\ (\A p \in Procs : proc[p] = Null)
        /\ Known(objects, db.status) /\ (observer # Null => Reports(objects, observer))
    BY <1>1, LivingAtRest
  <1>3. /\ db.status \in Statuses /\ db.finalizers \in Seq({Guard, Cascade})
        /\ st \in States
    BY DEF Apps, Statuses, States
  <1>4. /\ Append(db.finalizers, Cascade) \in Seq({Guard, Cascade})
        /\ ToSet(db.finalizers) \subseteq ToSet(Append(db.finalizers, Cascade))
    BY <1>3, FrontTyped
  <1> HIDE DEF st
  <1>5. /\ a \in Apps /\ a.deleted /\ a.finalizers = Append(db.finalizers, Cascade)
        /\ a.owners = db.owners
        /\ a.status.running_on = db.status.running_on
        /\ a.status.applied = db.status.applied /\ a.status.observed = db.status.observed
    BY <1>3, <1>4 DEF Apps, Statuses
  <1> HIDE DEF a
  <1>6. n = a /\ n # Null /\ Save(n)
    BY <1>1, <1>5, ApplicationAssumption DEF Save
  <1>7. Known(objects, n.status) /\ Guarded' /\ Gone'
    BY <1>2, <1>4, <1>5, <1>6 DEF Known, Guarded, Gone
  <1> HIDE DEF n
  <1>8. \A c \in Clusters : objects[c] # {} => c \in n.owners
    <2>1. \A c \in Clusters : objects[c] # {} => c = db.status.running_on
      BY <1>2 DEF Known, Within
    <2>2. PlacesOf(db.status) \subseteq db.owners
      BY DEF Sound
    <2> QED BY <1>5, <1>6, <2>1, <2>2, ApplicationAssumption DEF PlacesOf
  <1>9. NewestLast' /\ \A v \in Coming' : v \in Coming \/ v = n
    BY <1>1, <1>5, <1>6, WriteQueued DEF n
  <1>10. \A v \in Coming' : v.deleted /\ Known(objects, v.status)
    BY <1>2, <1>5, <1>6, <1>7, <1>9
  <1> QED BY <1>1, <1>2, <1>7, <1>8, <1>9, <1>10 DEF Dying, n

\* Until it is deleted, what exists stays explained.
LEMMA LivingStep ==
    ASSUME Lawful, Grown, Next
    PROVE  NewestLast' /\ ((Living' /\ Grown') \/ (Dying' /\ Gone'))
  <1> USE GrownFacts
  <1>1. CASE Receive \/ Restart \/ Get
    BY <1>1, LivingOutside, LivingRestart, LivingGet
  <1>2. ASSUME NEW p \in Procs, Step(p) \/ ClusterError(p) PROVE NewestLast' /\ Living' /\ Grown'
    <2>1. ~ClusterError(p)
      BY DEF Lawful, Sheltered, ClusterError, Spend, Kinds
    <2>2. ~Reload(p) /\ ~Transfer(p)
      <3>1. proc[p] # Null => p = "worker" /\ Working(objects, proc[p], db)
        BY DEF Procs
      <3>2. proc[p] # Null => proc[p].pc \notin {"read", "transfer"}
        BY <3>1 DEF Working, Reconciling, Migrating
      <3> QED BY <3>2 DEF Reload, Transfer
    <2> QED BY <1>2, <2>1, <2>2, LivingStatus, LivingUpdate, LivingRefused, LivingDelete,
               LivingApply DEF Step
  <1>3. CASE CheckShutdown \/ Poll \/ Observe
    BY <1>3, LivingPoll, LivingObserve DEF CheckShutdown
  <1>4. CASE SchedulerTake \/ Schedule
    BY <1>4, LivingScheduled DEF SchedulerTake
  <1>5. CASE \E c \in Clusters : Move(c) \/ Drift(c)
    BY <1>5, LivingMove, LivingOutside
  <1>6. CASE \E m \in Manifests : UserUpdate(m)
    BY <1>6, LivingUserUpdate
  <1>7. CASE UserDelete \/ Confirm \/ Retry \/ Collect
    <2>1. ~Confirm /\ ~Collect
      BY DEF Confirm, Collect, Sound, Sane
    <2> QED BY <1>7, <2>1, LivingUserDelete, LivingScheduled
  <1> QED BY <1>1, <1>2, <1>3, <1>4, <1>5, <1>6, <1>7 DEF Next

-----------------------------------------------------------------------------
(* An application without the finalizer                                    *)

Young == Alive /\ ~Guarded

\* What the account says of an application without the finalizer
LEMMA YoungFacts ==
    ASSUME Lawful, Young
    PROVE  LET w == proc["worker"] IN
           /\ AppInv /\ TypeOK /\ NewestLast /\ scenario.orderly /\ ~scenario.volumes
           /\ db # Null /\ db \in Apps /\ ~db.deleted /\ Guard \notin ToSet(db.finalizers)
           /\ db.manifest # {} /\ db.modified > 0 /\ db.modified \in Nat /\ Sound(objects, db)
           /\ db.status \in Statuses /\ db.status.observed = {}
           /\ proc["task"] = Null /\ (\A c \in Clusters : objects[c] = {})
           /\ db.status.state = "PENDING" /\ db.status.running_on = Null /\ observer = Null
           /\ db.status.scheduled_to = Null =>
                stream = <<>> /\ pending = Null /\ w = Null /\ db.status.triggered = 0
           /\ db.status.scheduled_to # Null =>
                /\ ScheduledOrDeleting(db)
                /\ \/ stream = <<>> /\ pending = Null /\ w # Null /\ w.pc = "finalizer"
                        /\ w.app = UpdateLastApplied(db) /\ w.job = "reconcile" /\ w.rm = {} /\ w.add = db.manifest
                   \/ stream = <<>> /\ pending = db /\ w = Null
                   \/ stream = <<db>> /\ pending = Null /\ w = Null
           /\ ~AtRest
  <1>1. AppInv /\ TypeOK /\ NewestLast /\ Sheltered /\ Living /\ Beginning /\ Alive /\ ~Guarded
    BY DEF Lawful, Accounted, AppInv, Young
  <1>2. db \in Apps /\ db # Null
    BY <1>1 DEF Alive, TypeOK
  <1>3. db.status \in Statuses /\ db.modified \in Nat
    BY <1>2 DEF Apps
  <1>4. db.status.state = "PENDING" /\ db.status.running_on = Null /\ Sane(db.status)
    BY <1>1 DEF Beginning, Living, Sound
  <1>5. db.modified > 0 /\ db.status.triggered \in Nat
    BY <1>1, <1>3 DEF Living, Statuses
  <1>6. ~AtRest
    <2>1. CASE db.status.scheduled_to = Null
      <3>1. db.status.triggered = 0
        BY <1>1, <2>1 DEF Beginning
      <3>2. Unscheduled(db)
        BY <1>1, <1>3, <1>4, <1>5, <3>1 DEF Unscheduled, Alive
      <3> QED BY <1>2, <3>2 DEF AtRest
    <2>2. CASE db.status.scheduled_to # Null
      <3>1. stream # <<>> \/ pending # Null \/ proc["worker"] # Null
        BY <1>1, <1>2, <2>2 DEF Beginning
      <3> QED BY <3>1 DEF AtRest, Procs
    <2> QED BY <2>1, <2>2
  <1>7. db.status.observed = {}
    BY <1>4 DEF Sane
  <1>8. db.manifest # {} /\ Sound(objects, db) /\ proc["task"] = Null
    BY <1>1 DEF Living
  <1> QED BY <1>1, <1>2, <1>3, <1>4, <1>5, <1>6, <1>7, <1>8
      DEF Beginning, Alive, Guarded, Sheltered

\* What a step that does not add the finalizer has to leave
LEMMA YoungKeeps ==
    ASSUME db' \in Apps, db' # Null, ~db'.deleted, Guard \notin ToSet(db'.finalizers),
           db'.manifest # {}, db'.modified > 0,
           Sane(db'.status), PlacesOf(db'.status) \subseteq db'.owners,
           proc'["task"] = Null, \A c \in Clusters : objects'[c] = {},
           db'.status.state = "PENDING", db'.status.running_on = Null, observer' = Null,
           LET w == proc'["worker"] IN
           \/ /\ db'.status.scheduled_to = Null /\ stream' = <<>> /\ pending' = Null /\ w = Null
              /\ db'.status.triggered = 0
           \/ /\ db'.status.scheduled_to # Null /\ ScheduledOrDeleting(db')
              /\ \/ stream' = <<>> /\ pending' = Null /\ w # Null /\ w.pc = "finalizer"
                      /\ w.app = UpdateLastApplied(db') /\ w.job = "reconcile" /\ w.rm = {} /\ w.add = db'.manifest
                 \/ stream' = <<>> /\ pending' = db' /\ w = Null
                 \/ stream' = <<db'>> /\ pending' = Null /\ w = Null
    PROVE  Living' /\ Beginning' /\ Young' /\ NewestLast'
  <1> DEFINE n == db'
  <1>1. Beginning' /\ Young' /\ ~Guarded'
    BY DEF Beginning, Young, Alive, Guarded
  <1>2. Sound(objects', n) /\ ~Moved(n.status) /\ ~Stuck'
    BY DEF Sound, Explained, Moved, Stuck
  <1>3. \A v \in Coming' : v = n
    <2>1. stream' = <<>> => Accepted(stream') = {}
      BY DEF Accepted
    <2>2. stream' = <<n>> => \A i \in Accepted(stream') : stream'[i] = n
      BY DEF Accepted
    <2> QED BY <2>1, <2>2 DEF Coming
  <1>4. Known(objects', n.status)
    BY DEF Known, Within
  <1>5. Unmoved'
    BY <1>2, <1>3 DEF Unmoved
  <1>6. NewestLast'
    <2>1. stream' = <<n>> => stream' # <<>> /\ Last(stream') = n
      BY DEF Last
    <2> QED BY <2>1 DEF NewestLast
  <1>7. n.status.observed = {}
    BY DEF Sane
  <1> QED BY <1>1, <1>2, <1>4, <1>5, <1>6, <1>7 DEF Living, Complete

\* The first version is received, taken and handled, again after a restart.
LEMMA YoungQueue ==
    ASSUME Lawful, Young, Receive \/ Restart \/ Get
    PROVE  Living' /\ Beginning' /\ Young' /\ NewestLast'
  <1> USE YoungFacts
  <1>1. UNCHANGED <<db, objects>> /\ Sane(db.status) /\ PlacesOf(db.status) \subseteq db.owners
    BY DEF Receive, Restart, Get, world, Sound
  <1>2. CASE Receive
    <2>1. /\ stream # <<>> /\ stream' = Tail(stream) /\ UNCHANGED <<proc, observer>>
          /\ pending' = IF ScheduledOrDeleting(Head(stream)) THEN Head(stream) ELSE pending
      BY <1>2 DEF Receive
    <2>2. /\ stream = <<db>> /\ db.status.scheduled_to # Null /\ proc["worker"] = Null
          /\ ScheduledOrDeleting(db)
      BY <2>1
    <2>3. stream' = <<>> /\ pending' = db
      BY <2>1, <2>2
    <2> QED BY <1>1, <2>1, <2>2, <2>3, YoungKeeps
  <1>3. CASE Restart
    <2>1. /\ proc' = [p \in Procs |-> Null] /\ stream' = <<>>
          /\ pending' = IF ScheduledOrDeleting(db) THEN db ELSE Null
          /\ observer' = Null
      BY <1>3 DEF Restart, Watching
    <2>2. proc'["worker"] = Null /\ proc'["task"] = Null
      BY <2>1 DEF Procs
    <2>3. db.status.scheduled_to = Null => ~ScheduledOrDeleting(db)
      BY DEF ScheduledOrDeleting
    <2> QED BY <1>1, <2>1, <2>2, <2>3, YoungKeeps
  <1>4. CASE Get
    <2> DEFINE delta == ResourceDelta(db)
               c == Coroutine("reconcile", "finalizer", db, delta.deleted, delta.new)
               d == [c EXCEPT !.app = UpdateLastApplied(db)]
    <2>1. /\ pending = db /\ stream = <<>> /\ db.status.scheduled_to # Null
          /\ ScheduledOrDeleting(db) /\ proc["worker"] = Null
          /\ pending' = Null /\ UNCHANGED stream
      BY <1>4 DEF Get
    <2>2. Dispatch(db) = d
      <3>1. FirstPoint(db) = "finalizer"
        BY DEF FirstPoint
      <3> QED BY <2>1, <3>1 DEF Dispatch
    <2>3. delta.deleted = {} /\ delta.new = db.manifest
      BY DEF ResourceDelta
    <2> HIDE DEF delta
    <2>4. /\ d.pc = "finalizer" /\ d.app = UpdateLastApplied(db) /\ d.job = "reconcile"
          /\ d.rm = {} /\ d.add = db.manifest /\ d \in Coroutines
      <3>1. /\ c \in Coroutines /\ c.pc = "finalizer" /\ c.job = "reconcile" /\ c.rm = {}
            /\ c.add = db.manifest
        BY <2>3 DEF Coroutine, Coroutines, Jobs, Points, Apps
      <3>2. UpdateLastApplied(db) \in Apps
        BY CopiesTyped DEF SameMeta
      <3> HIDE DEF c
      <3> QED BY <3>1, <3>2 DEF Coroutines
    <2>5. d # Null /\ Touches(d) /\ ~UpToDate(d)
      BY <2>4, ApplicationAssumption DEF Touches, UpToDate
    <2> HIDE DEF d
    <2>6. proc' = [proc EXCEPT !["worker"] = d] /\ observer' = Null
      BY <1>4, <2>1, <2>2, <2>5 DEF Get
    <2>7. proc'["worker"] = d /\ proc'["task"] = Null
      BY <2>6 DEF TypeOK, Procs
    <2> QED BY <1>1, <2>1, <2>4, <2>5, <2>6, <2>7, YoungKeeps
  <1> QED BY <1>2, <1>3, <1>4

\* The first decision of the scheduler
LEMMA YoungSchedule ==
    ASSUME Lawful, Young, Schedule
    PROVE  Living' /\ Beginning' /\ Young' /\ NewestLast'
  <1> USE YoungFacts
  <1> DEFINE s == db.status
             n == db'
  <1>1. Unscheduled(db) /\ UNCHANGED <<objects, scenario, pending, proc, observer>>
    BY DEF Schedule, Version, world
  <1>2. s.scheduled_to = Null
    <2>1. s.triggered \in Nat
      BY DEF Statuses
    <2> QED BY <1>1, <2>1 DEF Unscheduled, ScheduledOrDeleting
  <1>3. PICK c \in Clusters : Bind(c)
    BY <1>2 DEF Schedule, Version
  <1> DEFINE a == [db EXCEPT !.owners = @ \cup {c}, !.status.scheduled_to = c,
                             !.status.triggered = db.modified]
  <1>4. db.owners \in SUBSET Clusters
    BY DEF Apps
  <1>5. /\ a \in Apps /\ a.deleted = db.deleted /\ a.finalizers = db.finalizers
        /\ a.owners = db.owners \cup {c} /\ a.manifest = db.manifest /\ a.modified = db.modified
        /\ a.status.scheduled_to = c /\ a.status.triggered = db.modified
        /\ a.status.running_on = s.running_on /\ a.status.observed = s.observed
        /\ a.status.applied = s.applied
        /\ a.status.state = s.state /\ a.status.grace = s.grace
    BY <1>4 DEF Apps, Statuses, Places
  <1> HIDE DEF a
  <1>6. n = a /\ n # Null /\ stream' = <<n>>
    <2>1. Append(stream, a) = <<a>>
      BY <1>2
    <2> QED BY <1>3, <1>5, <2>1, ApplicationAssumption DEF Bind, Save, a
  <1>7. c # Null /\ Sane(s)
    BY ApplicationAssumption DEF Sound
  <1>8. Sane(n.status) /\ PlacesOf(n.status) \subseteq n.owners /\ ScheduledOrDeleting(n)
    BY <1>5, <1>6, <1>7 DEF Sane, PlacesOf, ScheduledOrDeleting
  <1> HIDE DEF n
  <1>9. /\ n \in Apps /\ n # Null /\ ~n.deleted /\ Guard \notin ToSet(n.finalizers)
        /\ n.manifest # {} /\ n.modified > 0 /\ n.status.state = "PENDING"
        /\ n.status.running_on = Null /\ n.status.scheduled_to # Null
    BY <1>5, <1>6, <1>7
  <1>10. /\ proc'["task"] = Null /\ proc'["worker"] = Null /\ observer' = Null
         /\ pending' = Null /\ \A d \in Clusters : objects'[d] = {}
    BY <1>1, <1>2
  <1> QED BY <1>6, <1>8, <1>9, <1>10, YoungKeeps DEF n

\* _ensure_finalizer: the worker goes on with the version it has.
LEMMA YoungUpdate ==
    ASSUME Lawful, Young, NEW p \in Procs, SendUpdate(p)
    PROVE  Living' /\ Grown' /\ NewestLast' /\ objects' = objects
  <1> USE YoungFacts
  <1> DEFINE w == proc["worker"]
             a == [w.app EXCEPT !.finalizers = Append(@, Guard)]
             v == [w EXCEPT !.pc = "mark", !.app = a]
             n == db'
             s == n.status
  <1>1. /\ p = "worker" /\ w # Null /\ w.pc = "finalizer" /\ w.app = UpdateLastApplied(db)
        /\ w.job = "reconcile" /\ w.rm = {} /\ w.add = db.manifest
        /\ db.status.scheduled_to # Null /\ stream = <<>> /\ pending = Null
    BY DEF SendUpdate, Procs
  <1>2. /\ UpdateApplication(a) /\ Continue("worker", v) /\ observer' = Null
        /\ UNCHANGED <<objects, scenario, pending>>
    BY <1>1 DEF SendUpdate, world
  <1>3. w \in Coroutines
    BY <1>1, RunningTyped DEF Procs
  <1>4. /\ Append(db.finalizers, Guard) \in Seq({Guard, Cascade})
        /\ Guard \in ToSet(Append(db.finalizers, Guard))
    <2>1. db.finalizers \in Seq({Guard, Cascade})
      BY DEF Apps
    <2> QED BY <2>1, FrontTyped
  <1>5. /\ a \in Apps /\ a.deleted = db.deleted /\ Guard \in ToSet(a.finalizers)
        /\ a.owners = db.owners /\ a.manifest = db.manifest /\ a.modified = db.modified
        /\ a.status = [db.status EXCEPT !.applied = db.manifest] /\ a.status \in Statuses
    <2> DEFINE st == [db.status EXCEPT !.applied = db.manifest]
               b == [db EXCEPT !.status = st]
    <2>1. w.app = b
      BY <1>1 DEF UpdateLastApplied
    <2>2. st \in Statuses
      BY DEF Apps, Statuses
    <2> HIDE DEF st
    <2>3. /\ b \in Apps /\ b.deleted = db.deleted /\ b.finalizers = db.finalizers
          /\ b.owners = db.owners /\ b.manifest = db.manifest /\ b.modified = db.modified
          /\ b.status = st
      BY <2>2 DEF Apps
    <2> HIDE DEF b
    <2>4. a = [b EXCEPT !.finalizers = Append(db.finalizers, Guard)]
      BY <2>1, <2>3
    <2> HIDE DEF a
    <2>5. /\ a \in Apps /\ a.deleted = b.deleted
          /\ a.finalizers = Append(db.finalizers, Guard)
          /\ a.owners = b.owners /\ a.manifest = b.manifest /\ a.modified = b.modified
          /\ a.status = b.status
      BY <1>4, <2>3, <2>4 DEF Apps
    <2> QED BY <1>4, <2>2, <2>3, <2>5 DEF st
  <1>19. /\ a.status.scheduled_to = db.status.scheduled_to
         /\ a.status.running_on = db.status.running_on
         /\ a.status.applied = db.manifest /\ a.status.observed = db.status.observed
         /\ a.status.triggered = db.status.triggered
         /\ a.status.grace = db.status.grace /\ a.status.state = db.status.state
    BY <1>5 DEF Statuses
  <1> HIDE DEF a
  <1>6. /\ v \in Coroutines /\ v.pc = "mark" /\ v.app = a /\ v.job = "reconcile"
        /\ v.rm = {} /\ v.add = db.manifest
    BY <1>1, <1>3, <1>5 DEF Coroutines, Points
  <1> HIDE DEF v
  <1>7. Settled(v) = v /\ v # Null
    BY <1>6, ApplicationAssumption DEF Settled
  <1>8. proc'["worker"] = v /\ proc'["task"] = Null
    BY <1>2, <1>7 DEF Continue, TypeOK, Procs
  <1>9. /\ n \in Apps /\ Save(n) /\ n.status = db.status /\ n.deleted = db.deleted
        /\ n.finalizers = a.finalizers /\ n.owners = a.owners /\ n.manifest = a.manifest
        /\ n.modified = db.modified + 1
    BY <1>2, <1>5, ApplicationSaved
  <1>10. n # Null
    BY <1>9, ApplicationAssumption
  <1> HIDE DEF n, s
  <1>11. Sane(s) /\ PlacesOf(s) \subseteq n.owners /\ ~Moved(s) /\ s.scheduled_to # Null
    BY <1>1, <1>5, <1>9 DEF Sound, Moved, s
  <1>12. Sound(objects, n) /\ Sound(objects, a)
    <2>1. Explained(objects, s, n.manifest, s.observed)
      BY DEF Explained
    <2>2. Explained(objects, a.status, a.manifest, a.status.observed)
      BY DEF Explained
    <2> QED BY <1>5, <1>9, <1>11, <1>19, <2>1, <2>2 DEF Sound, Sane, PlacesOf, s
  <1>13. Agrees(n, n) /\ Agrees(a, n)
    BY <1>5, <1>9, <1>11, <1>19 DEF Agrees, PlacesOf, Moved, s
  <1>14. Working(objects, v, n)
    <2>1. s.scheduled_to \in n.owners
      BY <1>11 DEF PlacesOf
    <2>2. Reconciling(objects, v)
      BY <1>5, <1>6, <1>9, <1>11, <1>12, <1>19 DEF Reconciling, Moved, s
    <2> QED BY <1>5, <1>6, <1>9, <1>11, <1>13, <1>19, <2>1, <2>2 DEF Working, Sane, s
  <1>15. NewestLast' /\ \A u \in Coming' : u = n
    <2>1. Coming = {}
      BY <1>1, ComingIsAccepted
    <2> QED BY <1>2, <1>9, <2>1, WriteQueued DEF n
  <1>16. Grown'
    BY <1>5, <1>9, <1>10 DEF Grown, Alive, Guarded, n
  <1>17. ~Stuck' /\ Unmoved'
    BY <1>2, <1>9, <1>11, <1>15 DEF Stuck, Unmoved, n, s
  <1>18. n.manifest # {} /\ n.modified > 0 /\ Complete(v, n)
    BY <1>5, <1>9 DEF Complete
  <1> QED BY <1>2, <1>6, <1>7, <1>8, <1>11, <1>12, <1>13, <1>14, <1>15, <1>16, <1>17, <1>18
          DEF Living, n, s

\* Nothing else happens before the finalizer is there.
LEMMA YoungStep ==
    ASSUME Lawful, Young, Next
    PROVE  Living' /\ NewestLast' /\ (Grown' \/ (Beginning' /\ Young'))
  <1> USE YoungFacts
  <1>1. CASE Receive \/ Restart \/ Get
    BY <1>1, YoungQueue
  <1>2. ASSUME NEW p \in Procs, Step(p) \/ ClusterError(p) PROVE Living' /\ NewestLast' /\ Grown'
    <2> DEFINE w == proc[p]
    <2>1. w # Null => p = "worker" /\ w.pc = "finalizer" /\ w.app = UpdateLastApplied(db)
      BY DEF Procs
    <2>2. ~ClusterError(p) /\ ~Reload(p) /\ ~Transfer(p) /\ ~SendStatus(p) /\ ~KubeDelete(p)
            /\ ~KubeApply(p)
      BY <2>1 DEF ClusterError, Reload, Transfer, SendStatus, KubeDelete, KubeApply
    <2>3. ~Refused(p)
      <3> SUFFICES ASSUME w # Null, w.pc = "finalizer", w.app = UpdateLastApplied(db),
                          ~Allowed([w.app EXCEPT !.finalizers = Append(@, Guard)])
                   PROVE  FALSE
        BY <2>1 DEF Refused
      <3> DEFINE b == [w.app EXCEPT !.finalizers = Append(@, Guard)]
      <3>1. db.finalizers \in Seq({Guard, Cascade})
        BY DEF Apps
      <3>2. Guard \in ToSet(Append(db.finalizers, Guard))
        BY <3>1, FrontTyped
      <3>3. b.finalizers = Append(db.finalizers, Guard)
        BY CopiesTyped DEF SameMeta, Apps
      <3> HIDE DEF b
      <3>4. b # db
        BY <3>2, <3>3
      <3>5. Allowed(b)
        BY <3>4 DEF Allowed
      <3> QED BY <3>5 DEF b
    <2> QED BY <1>2, <2>2, <2>3, YoungUpdate DEF Step
  <1>3. CASE CheckShutdown \/ Poll \/ Observe
    BY <1>3 DEF CheckShutdown, Poll, Observe
  <1>4. CASE SchedulerTake \/ Schedule
    BY <1>4, YoungSchedule DEF SchedulerTake
  <1>5. CASE \E c \in Clusters : Move(c) \/ Drift(c)
    BY <1>5 DEF Move, Timely, Drift
  <1>6. CASE \E m \in Manifests : UserUpdate(m)
    BY <1>6 DEF UserUpdate, Timely
  <1>7. CASE UserDelete \/ Confirm \/ Retry \/ Collect
    BY <1>7 DEF UserDelete, Timely, Confirm, Retry, Collect, Sound, Sane
  <1> QED BY <1>1, <1>2, <1>3, <1>4, <1>5, <1>6, <1>7 DEF Next

-----------------------------------------------------------------------------
(* What a controller that is started again relies on                       *)

\* What a step may change of the rest of the state
LEMMA StepFrame ==
    ASSUME TypeOK, Next
    PROVE  /\ UNCHANGED scenario
           /\ UNCHANGED left \/ \E kind \in Kinds : Spend(kind)
           /\ UNCHANGED sched \/ sched' = Null \/ SchedulerTake
           /\ \/ \E p \in Procs : KubeApply(p)
              \/ \A c \in Clusters : objects'[c] \subseteq objects[c]
  <1>1. CASE Receive \/ Restart \/ Get
    BY <1>1 DEF Receive, Restart, Get, world, Kinds
  <1>2. ASSUME NEW p \in Procs, Reload(p) \/ SendStatus(p) \/ SendUpdate(p) \/ Refused(p)
                                  \/ Transfer(p) \/ ClusterError(p)
        PROVE  UNCHANGED <<scenario, sched, objects>> /\ (UNCHANGED left \/ Spend("fail"))
    BY <1>2 DEF Reload, SendStatus, SendUpdate, Refused, Transfer, ClusterError, world
  <1>3. ASSUME NEW p \in Procs, KubeDelete(p)
        PROVE  /\ UNCHANGED <<scenario, sched, left>>
               /\ \A c \in Clusters : objects'[c] \subseteq objects[c]
    BY <1>3 DEF KubeDelete, TypeOK
  <1>4. ASSUME NEW p \in Procs, KubeApply(p) PROVE UNCHANGED <<scenario, sched, left>>
    BY <1>4 DEF KubeApply
  <1>5. CASE CheckShutdown \/ Poll \/ Observe
    <2>1. CheckShutdown \/ Observe => UNCHANGED <<scenario, sched, left, objects>>
      BY DEF CheckShutdown, Observe, world
    <2>2. Poll => /\ UNCHANGED <<scenario, sched, objects>>
                  /\ UNCHANGED left \/ Spend("health") \/ Spend("degrade")
      BY DEF Poll, world
    <2> QED BY <1>5, <2>1, <2>2 DEF Kinds
  <1>6. CASE SchedulerTake \/ Schedule
    BY <1>6 DEF SchedulerTake, Schedule, world
  <1>7. ASSUME NEW c \in Clusters, Move(c) \/ Drift(c)
        PROVE  /\ UNCHANGED <<scenario, sched>> /\ \E kind \in Kinds : Spend(kind)
               /\ \A d \in Clusters : objects'[d] \subseteq objects[d]
    BY <1>7 DEF Move, Drift, TypeOK, world, Kinds
  <1>8. CASE \E m \in Manifests : UserUpdate(m)
    BY <1>8 DEF UserUpdate, world, Kinds
  <1>9. CASE UserDelete \/ Confirm \/ Retry \/ Collect
    BY <1>9 DEF UserDelete, Confirm, Retry, Collect, world, Kinds
  <1>10. "fail" \in Kinds
    BY DEF Kinds
  <1> QED BY <1>1, <1>2, <1>3, <1>4, <1>5, <1>6, <1>7, <1>8, <1>9, <1>10 DEF Next, Step

\* What it says of an application that is not in deletion
LEMMA GrowingFacts ==
    ASSUME Lawful, Alive, ~Never("crash")
    PROVE  LET w == proc["worker"]
               m == db.manifest IN
           /\ AppInv /\ TypeOK /\ NewestLast /\ db \in Apps /\ db.status \in Statuses
           /\ left["shrink"] = 0 /\ proc["task"] = Null
           /\ Nested(db.status, m)
           /\ \A v \in Coming : v \in Apps /\ v.manifest = m /\ Nested(v.status, m)
           /\ w # Null => /\ w \in Coroutines /\ Phases(w) /\ Nested(w.app.status, m)
                          /\ w.app.manifest = m /\ w.job \in {"reconcile", "migrate"}
                          /\ w.pc \in {"finalizer", "mark", "remove", "apply", "status", "update"}
           /\ observer # Null => /\ observer \in Observers /\ Observing(objects, observer, db)
                                 /\ observer.app.status.applied \subseteq m
  <1>1. AppInv /\ TypeOK /\ NewestLast /\ Sheltered /\ Living /\ Growing /\ Beginning
    BY DEF Lawful, Accounted, AppInv
  <1>2. db \in Apps /\ db.status \in Statuses
    BY <1>1 DEF Alive, TypeOK, Apps
  <1>3. Never("shrink") /\ "shrink" \in Kinds
    BY <1>1 DEF Sheltered, Kinds
  <1>4. left["shrink"] = 0
    BY <1>3 DEF Lawful, Accounted
  <1>5. \A v \in Coming : v \in Apps /\ v.manifest = db.manifest
    <2>1. CASE Guarded
      BY <1>1, <2>1, ComingIsAccepted DEF Living, Agrees
    <2>2. CASE ~Guarded
      <3>1. \A v \in Coming : v = db
        <4>1. \/ stream = <<>> /\ (pending = db \/ pending = Null)
              \/ stream = <<db>> /\ pending = Null
          BY <1>1, <2>2 DEF Beginning
        <4>2. stream = <<>> => Accepted(stream) = {}
          BY DEF Accepted
        <4>3. stream = <<db>> => \A i \in Accepted(stream) : stream[i] = db
          BY DEF Accepted
        <4> QED BY <4>1, <4>2, <4>3 DEF Coming
      <3> QED BY <1>2, <3>1
    <2> QED BY <2>1, <2>2
  <1>6. proc["worker"] # Null =>
          LET w == proc["worker"] IN
          /\ w.app.manifest = db.manifest /\ w.job \in {"reconcile", "migrate"}
          /\ w.pc \in {"finalizer", "mark", "remove", "apply", "status", "update"}
    <2> SUFFICES ASSUME proc["worker"] # Null
                 PROVE  LET w == proc["worker"] IN
                        /\ w.app.manifest = db.manifest /\ w.job \in {"reconcile", "migrate"}
                        /\ w.pc \in {"finalizer", "mark", "remove", "apply", "status", "update"}
      OBVIOUS
    <2>1. CASE Guarded
      BY <1>1, <2>1 DEF Living, Working, Agrees, Reconciling, Migrating
    <2>2. CASE ~Guarded
      <3>1. UpdateLastApplied(db).manifest = db.manifest
        BY <1>2 DEF UpdateLastApplied, Apps
      <3> QED BY <1>1, <2>2, <3>1 DEF Beginning
    <2> QED BY <2>1, <2>2
  <1>7. proc["worker"] # Null => proc["worker"] \in Coroutines /\ Phases(proc["worker"])
    BY <1>1, RunningTyped DEF Procs
  <1>8. observer # Null => observer \in Observers
    BY <1>1 DEF TypeOK
  <1> QED BY <1>1, <1>2, <1>4, <1>5, <1>6, <1>7, <1>8 DEF Growing, Living

\* What a step has to leave
Grows ==
    LET m == db'.manifest
        w == proc'["worker"] IN
    /\ db.manifest \subseteq m
    /\ Nested(db'.status, m)
    /\ \A v \in Coming' : v \in Coming \/ v = db'
    /\ w # Null => Nested(w.app.status, m)
    /\ observer' # Null => observer'.app.status.applied \subseteq m

\* It keeps what a restart relies on.
LEMMA GrowsKeeps ==
    ASSUME Lawful, Alive, ~Never("crash"), Grows
    PROVE  Growing'
  <1>1. \A v \in Coming : Nested(v.status, db.manifest)
    BY GrowingFacts
  <1>2. \A s : Nested(s, db.manifest) => Nested(s, db'.manifest)
    BY DEF Grows, Nested
  <1>3. Nested(db'.status, db'.manifest) /\ \A v \in Coming' : Nested(v.status, db'.manifest)
    BY <1>1, <1>2 DEF Grows
  <1> QED BY <1>3 DEF Grows, Growing

\* A worker that has done with deleting takes all of the manifest for applied.
LEMMA GrowingWorker ==
    ASSUME Living', Beginning', Alive', db' \in Apps,
           NEW w, w = proc'["worker"], w # Null,
           w.pc \in {"finalizer", "mark", "remove"} => Nested(w.app.status, db'.manifest)
    PROVE  Nested(w.app.status, db'.manifest)
  <1>1. CASE Guarded'
    <2>1. Working(objects', w, db')
      BY <1>1 DEF Living
    <2>2. w.app.manifest = db'.manifest
            /\ w.pc \in {"mark", "remove", "apply", "status", "update"}
      BY <2>1 DEF Working, Agrees, Reconciling, Migrating
    <2>3. CASE w.pc \in {"apply", "status", "update"}
      <3>1. w.app.status.observed \cup w.add = w.app.manifest
              /\ w.app.status.applied = w.app.manifest
        BY <2>1, <2>3 DEF Working
      <3> QED BY <2>2, <3>1 DEF Nested
    <2> QED BY <2>2, <2>3
  <1>2. CASE ~Guarded'
    BY <1>2 DEF Beginning
  <1> QED BY <1>1, <1>2

\* A worker that still deletes after the code between two requests has not gone on.
LEMMA SettledRemoves ==
    ASSUME NEW w \in Coroutines, Phases(w), w.pc \in {"remove", "apply"},
           w.job \in {"reconcile", "migrate"}
    PROVE  Settled(w) = w \/ Settled(w).pc \notin {"finalizer", "mark", "remove"}
  <1> DEFINE r == IF w.pc = "remove" /\ w.rm = {} THEN Removed(w) ELSE w
  <1>1. r = w \/ (Goes(w, r) /\ r.pc \in {"apply", "status", "error"})
    BY RemovedTyped
  <1>2. Settled(w) = IF r.pc = "apply" /\ r.add = {} THEN Applied(r) ELSE r
    BY DEF Settled
  <1> HIDE DEF r
  <1>3. r \in Coroutines /\ r.job \in {"reconcile", "migrate"}
    BY <1>1 DEF Goes
  <1>4. Applied(r).pc = "status"
    <2> DEFINE here == [r.app EXCEPT !.status.running_on = r.app.status.scheduled_to]
               x == IF r.job = "reconcile" THEN Running(here) ELSE Migrated(here)
    <2>1. Applied(r) = [r EXCEPT !.pc = "status", !.app = x]
      BY <1>3 DEF Applied
    <2> HIDE DEF x
    <2> QED BY <1>3, <2>1 DEF Coroutines
  <1> QED BY <1>1, <1>2, <1>4

\* Versions that are received, restarts, and versions that are taken
LEMMA GrowingQueue ==
    ASSUME Lawful, Alive, ~Never("crash"), Receive \/ Restart \/ Get
    PROVE  Grows
  <1> USE GrowingFacts
  <1>1. db' = db
    BY DEF Receive, Restart, Get
  <1>2. CASE Receive
    <2>1. Coming' \subseteq Coming /\ UNCHANGED <<proc, observer>>
      BY <1>2, ComingAfterReceive DEF Receive
    <2> QED BY <1>1, <2>1 DEF Grows
  <1>3. CASE Restart
    <2>1. /\ Coming' \subseteq {db} /\ proc'["worker"] = Null /\ db # Null
          /\ observer' = Watching(db)
      BY <1>3, ComingAfterRestart DEF Restart, Procs, Alive
    <2>2. observer' # Null => observer'.app = db
      BY <2>1, WatchingIs DEF Watching
    <2> QED BY <1>1, <2>1, <2>2 DEF Grows, Nested
  <1>4. CASE Get
    <2> DEFINE a == pending
               u == UpdateLastApplied(a)
               d == Dispatch(a)
    <2>1. a \in Coming /\ Coming' \subseteq Coming
      BY <1>4, ComingAfterGet
    <2>2. a \in Apps /\ a.manifest = db.manifest /\ Nested(a.status, db.manifest)
      BY <2>1
    <2>3. u \in Apps /\ Nested(u.status, db.manifest) /\ u.status.running_on = a.status.running_on
      BY <2>2 DEF UpdateLastApplied, Apps, Statuses, Nested
    <2>4. d # Null => d.app = a \/ d.app = u
      BY <2>2, DispatchTyped
    <2>5. \/ proc' = [proc EXCEPT !["worker"] = d] /\ (observer' = observer \/ observer' = Null)
          \/ observer' = Watching(u) /\ UNCHANGED proc
      BY <1>4 DEF Get, Register
    <2>6. observer' # Null => observer' = observer \/ observer'.app = u
      BY <2>3, <2>5, WatchingIs DEF Watching
    <2> HIDE DEF u, d, a
    <2>7. proc'["worker"] = d \/ proc'["worker"] = proc["worker"]
      BY <2>5 DEF TypeOK, Procs
    <2> QED BY <1>1, <2>1, <2>2, <2>3, <2>4, <2>6, <2>7 DEF Grows, Nested
  <1> QED BY <1>2, <1>3, <1>4

\* Objects that are deleted and applied
LEMMA GrowingObjects ==
    ASSUME Lawful, Alive, ~Never("crash"), Living', Beginning',
           NEW p \in Procs, KubeDelete(p) \/ KubeApply(p)
    PROVE  Grows
  <1> USE GrowingFacts
  <1> DEFINE w == proc["worker"]
             s == w.app.status
             x == proc'["worker"]
  <1>1. /\ p = "worker" /\ w # Null /\ w.pc \in {"remove", "apply"}
        /\ UNCHANGED <<db, stream, pending, observer, scenario>>
    BY DEF KubeDelete, KubeApply, Procs
  <1>2. Coming' = Coming
    BY <1>1, ComingUnchanged
  <1>3. /\ w \in Coroutines /\ Phases(w) /\ w.job \in {"reconcile", "migrate"} /\ w.app \in Apps
        /\ s \in Statuses /\ w.rm \in SUBSET Objects /\ w.add \in SUBSET Objects
    BY <1>1 DEF Coroutines, Apps
  <1>4. Alive' /\ db' \in Apps
    BY <1>1 DEF Alive
  <1>5. x # Null => (x.pc \in {"finalizer", "mark", "remove"} => Nested(x.app.status, db'.manifest))
    <2>1. CASE KubeDelete(p)
      <3>1. PICK o \in w.rm :
              Continue("worker", [w EXCEPT !.rm = @ \ {o},
                   !.app.status.observed = IF w.job = "volumes" THEN @ ELSE @ \ {o}])
        BY <1>1, <2>1 DEF KubeDelete
      <3> DEFINE v == [w EXCEPT !.rm = w.rm \ {o}, !.app.status.observed = s.observed \ {o}]
      <3>2. x = Settled(v)
        BY <1>3, <3>1 DEF Continue, TypeOK, Procs
      <3>3. /\ v \in Coroutines /\ v.pc = "remove" /\ v.job = w.job
            /\ v.app.status.observed = s.observed \ {o} /\ v.app.status.applied = s.applied
        BY <1>1, <1>3, <2>1 DEF Coroutines, Apps, Statuses, KubeDelete
      <3>4. Phases(v)
        BY <1>3, <3>3 DEF Phases
      <3> HIDE DEF v
      <3>5. x = v \/ x.pc \notin {"finalizer", "mark", "remove"}
        BY <1>3, <3>2, <3>3, <3>4, SettledRemoves
      <3> QED BY <1>1, <3>3, <3>5 DEF Nested
    <2>2. CASE KubeApply(p)
      <3>1. PICK o \in w.add :
              Continue("worker", [w EXCEPT !.add = @ \ {o}, !.app.status.observed = @ \cup {o}])
        BY <1>1, <2>2 DEF KubeApply
      <3> DEFINE v == [w EXCEPT !.add = w.add \ {o}, !.app.status.observed = s.observed \cup {o}]
      <3>2. x = Settled(v)
        BY <3>1 DEF Continue, TypeOK, Procs
      <3>3. v \in Coroutines /\ v.pc = "apply" /\ v.job = w.job
        <4> DEFINE b == [w.app EXCEPT !.status.observed = s.observed \cup {o}]
        <4>1. o \in Objects /\ s.observed \in SUBSET Objects /\ w.pc = "apply"
          <5>1. w.pc = "apply"
            BY <1>1, <2>2 DEF KubeApply
          <5>2. s.observed \in SUBSET Objects
            <6> HIDE DEF s
            <6> QED BY <1>3 DEF Statuses
          <5> QED BY <1>3, <5>1, <5>2
        <4>2. b \in Apps
          <5>1. \A a \in Apps, set \in SUBSET Objects : [a EXCEPT !.status.observed = set] \in Apps
            BY DEF Apps, Statuses
          <5>2. s.observed \cup {o} \in SUBSET Objects
            BY <4>1
          <5> QED BY <1>3, <5>1, <5>2
        <4>3. v = [w EXCEPT !.add = w.add \ {o}, !.app = b]
          BY <1>3 DEF Coroutines
        <4> HIDE DEF v, b
        <4> QED BY <1>3, <4>1, <4>2, <4>3 DEF Coroutines
      <3>4. Phases(v)
        BY <1>3, <3>3 DEF Phases
      <3> HIDE DEF v
      <3>5. x.pc \notin {"finalizer", "mark", "remove"}
        BY <1>3, <3>2, <3>3, <3>4, SettledRemoves
      <3> QED BY <3>5
    <2> QED BY <2>1, <2>2
  <1>6. x # Null => Nested(x.app.status, db'.manifest)
    BY <1>4, <1>5, GrowingWorker
  <1> QED BY <1>1, <1>2, <1>6 DEF Grows

\* Reports and updates of the worker
LEMMA GrowingRequests ==
    ASSUME Lawful, Alive, ~Never("crash"), Living', Beginning', Alive', db' \in Apps,
           NEW p \in Procs, SendStatus(p) \/ SendUpdate(p) \/ Refused(p)
    PROVE  Grows
  <1> USE GrowingFacts
  <1> DEFINE w == proc["worker"]
             x == proc'["worker"]
             n == db'
  <1>1. p = "worker" /\ w # Null /\ w.app \in Apps /\ UNCHANGED <<scenario, pending>>
        /\ w.app.status \in Statuses
    BY DEF SendStatus, SendUpdate, Refused, Procs, world, Coroutines, Apps
  <1>2. CASE Refused(p)
    <2>1. x = Null /\ UNCHANGED <<db, stream, observer>>
      BY <1>1, <1>2 DEF Refused, Return, TypeOK, Procs
    <2>2. Coming' = Coming
      BY <1>1, <2>1, ComingUnchanged
    <2> QED BY <2>1, <2>2 DEF Grows
  <1>3. CASE SendStatus(p)
    <2> DEFINE a == Marked(w)
               v == AfterMark(w, a)
    <2>1. UpdateStatus(a.status) /\ w.pc \in {"mark", "status"}
      BY <1>1, <1>3 DEF SendStatus
    <2>2. /\ a \in Apps /\ a.status \in Statuses /\ SameMeta(w.app, a)
          /\ a.status.applied = w.app.status.applied /\ a.status.observed = w.app.status.observed
      BY <1>1, <2>1, MarkedKeeps DEF SameMeta
    <2>3. n.status = a.status /\ n.manifest = db.manifest /\ Save(n) /\ db # Null
      BY <2>1, <2>2, StatusSaved
    <2>4. \A u \in Coming' : u \in Coming \/ u = n
      BY <1>1, <2>3, WriteQueued
    <2>5. observer' # Null => observer' = observer \/ observer'.app = w.app
      <3>1. observer' = observer \/ observer' = Watching(w.app)
        BY <1>1, <1>3, <2>1 DEF SendStatus, Finish, Register
      <3> QED BY <1>1, <3>1, WatchingIs DEF Watching
    <2>6. x # Null => (x.pc \in {"finalizer", "mark", "remove"} => Nested(x.app.status, n.manifest))
      <3>1. CASE w.pc = "mark"
        <4>1. proc' = [proc EXCEPT !["worker"] = Settled(v)]
          BY <1>1, <1>3, <3>1 DEF SendStatus, Continue, AfterMark
        <4>2. Goes(w, v)
          BY <1>1, <2>2, <3>1, AfterMarkGoes
        <4>3. v.pc = "remove" /\ v.app = a
          BY <1>1, <2>2 DEF AfterMark, Coroutines
        <4> HIDE DEF v, a
        <4>4. x = Settled(v)
          BY <4>1 DEF TypeOK, Procs
        <4>5. x = v \/ x.pc \notin {"finalizer", "mark", "remove"}
          BY <1>1, <4>2, <4>3, <4>4, SettledRemoves DEF Goes
        <4> QED BY <1>1, <2>2, <2>3, <4>3, <4>5 DEF Nested
      <3>2. CASE w.pc = "status"
        <4>1. \/ x = Settled([w EXCEPT !.pc = "update"])
              \/ x = Null
          BY <1>1, <1>3, <3>2 DEF SendStatus, Continue, Finish, Return, TypeOK, Procs
        <4> DEFINE v2 == [w EXCEPT !.pc = "update"]
        <4>2. v2.pc = "update"
          BY <1>1 DEF Coroutines
        <4>3. Settled(v2) = v2
          BY <4>2 DEF Settled
        <4> QED BY <4>1, <4>2, <4>3
      <3> QED BY <2>1, <3>1, <3>2
    <2>7. x # Null => Nested(x.app.status, n.manifest)
      BY <2>6, GrowingWorker
    <2> QED BY <1>1, <2>2, <2>3, <2>4, <2>5, <2>7 DEF Grows, Nested
  <1>4. CASE SendUpdate(p)
    <2> DEFINE b == IF w.pc = "finalizer" THEN [w.app EXCEPT !.finalizers = Append(@, Guard)]
                    ELSE w.app
    <2>1. UpdateApplication(b) /\ w.pc \in {"finalizer", "update"}
      BY <1>1, <1>4 DEF SendUpdate
    <2>2. /\ b \in Apps /\ b.manifest = db.manifest /\ b.status = w.app.status
      <3>1. w.app.finalizers \in Seq({Guard, Cascade})
        BY <1>1 DEF Apps
      <3>2. Append(w.app.finalizers, Guard) \in Seq({Guard, Cascade})
        BY <3>1, FrontTyped
      <3> QED BY <1>1, <3>2 DEF Apps
    <2> HIDE DEF b
    <2>3. /\ n.status = db.status /\ n.manifest = db.manifest /\ Save(n) /\ db # Null
      <3>1. ~db.deleted
        BY DEF Alive
      <3> QED BY <2>1, <2>2, <3>1, ApplicationSaved
    <2>4. \A u \in Coming' : u \in Coming \/ u = n
      BY <1>1, <2>3, WriteQueued
    <2>5. CASE w.pc = "finalizer"
      <3> DEFINE v == [w EXCEPT !.pc = "mark", !.app = b]
      <3>1. Continue("worker", v) /\ UNCHANGED observer
        BY <1>1, <1>4, <2>5 DEF SendUpdate, b
      <3>2. v.pc = "mark" /\ v.app = b
        BY <1>1, <2>2 DEF Coroutines
      <3> HIDE DEF v
      <3>3. x = v
        BY <3>1, <3>2 DEF Continue, Settled, TypeOK, Procs
      <3> QED BY <1>1, <2>2, <2>3, <2>4, <3>1, <3>2, <3>3 DEF Grows
    <2>6. CASE w.pc = "update"
      <3>1. x = Null /\ (observer' = observer \/ observer' = Watching(w.app))
        BY <1>1, <1>4, <2>6 DEF SendUpdate, Finish, Return, Register, TypeOK, Procs
      <3>2. observer' # Null => observer' = observer \/ observer'.app = w.app
        BY <1>1, <3>1, WatchingIs DEF Watching
      <3> QED BY <1>1, <2>3, <2>4, <3>1, <3>2 DEF Grows, Nested
    <2> QED BY <2>1, <2>5, <2>6
  <1> QED BY <1>2, <1>3, <1>4

\* Writes that keep what is known of the objects
LEMMA GrowingSaved ==
    ASSUME Lawful, Alive, ~Never("crash"), UNCHANGED <<scenario, pending, proc, observer>>,
           db' \in Apps, Save(db'), db.manifest \subseteq db'.manifest,
           db'.status.applied = db.status.applied, db'.status.observed = db.status.observed
    PROVE  Grows
  <1> USE GrowingFacts
  <1>1. \A v \in Coming' : v \in Coming \/ v = db'
    BY WriteQueued DEF Alive
  <1>2. \A s : Nested(s, db.manifest) => Nested(s, db'.manifest)
    BY DEF Nested
  <1>3. Nested(db'.status, db'.manifest)
    BY DEF Nested
  <1> QED BY <1>1, <1>2, <1>3 DEF Grows

\* What the observer, the scheduler and users write
LEMMA GrowingOthers ==
    ASSUME Lawful, Alive, ~Never("crash"), Alive', db' \in Apps,
           \/ Poll \/ Observe \/ Schedule \/ Retry \/ Confirm \/ Collect
           \/ \E c \in Clusters : Move(c) \/ Drift(c)
           \/ \E m \in Manifests : UserUpdate(m)
    PROVE  Grows
  <1> USE GrowingFacts
  <1>1. db # Null /\ ~db.deleted /\ db.modified \in Nat /\ db.owners \in SUBSET Clusters
    BY DEF Alive, Apps
  <1>2. CASE Poll
    <2>1. UNCHANGED <<db, stream, pending, proc, scenario>> /\ observer'.app = observer.app
            /\ observer # Null
      BY <1>2, PollResult
    <2>2. Coming' = Coming
      BY <2>1, ComingUnchanged
    <2> QED BY <2>1, <2>2 DEF Grows
  <1>3. CASE Observe
    <2>1. /\ observer # Null /\ observer.poll # Null
          /\ Save(db') /\ db'.manifest = db.manifest
          /\ db'.status.applied = observer.poll.applied
          /\ db'.status.observed = observer.poll.observed
          /\ observer' = Watching(db') /\ UNCHANGED <<scenario, pending, proc>>
      BY <1>3, ObserveResult
    <2>2. /\ observer.poll.applied = observer.app.status.applied
          /\ observer.poll.observed \subseteq observer.poll.applied
      BY <2>1 DEF Observing
    <2>3. observer' # Null => observer'.app = db'
      BY <2>1, WatchingIs DEF Watching
    <2>4. \A v \in Coming' : v \in Coming \/ v = db'
      BY <1>1, <2>1, WriteQueued
    <2> QED BY <2>1, <2>2, <2>3, <2>4 DEF Grows, Nested
  <1>4. ASSUME NEW c \in Clusters, Bind(c), UNCHANGED <<scenario, pending, proc, observer>>
        PROVE  Grows
    <2> DEFINE st == [db.status EXCEPT !.scheduled_to = c, !.triggered = db.modified]
               a == [db EXCEPT !.owners = db.owners \cup {c}, !.status = st]
    <2>1. db' = a /\ Save(db')
      BY <1>4 DEF Bind, Save
    <2>2. st.applied = db.status.applied /\ st.observed = db.status.observed
      BY DEF Statuses
    <2> HIDE DEF st
    <2>3. a.manifest = db.manifest /\ a.status = st
      BY DEF Apps
    <2> HIDE DEF a
    <2> QED BY <1>4, <2>1, <2>2, <2>3, GrowingSaved
  <1>5. ASSUME NEW st \in Statuses, UpdateStatus(st), UNCHANGED <<scenario, pending, proc, observer>>,
               st.applied = db.status.applied, st.observed = db.status.observed
        PROVE  Grows
    <2>1. Save(db') /\ db'.status = st /\ db'.manifest = db.manifest
      BY <1>5, StatusSaved
    <2> QED BY <1>5, <2>1, GrowingSaved
  <1>6. CASE Schedule
    <2> DEFINE st == [db.status EXCEPT !.triggered = db.modified]
    <2>1. /\ UNCHANGED <<scenario, pending, proc, observer>>
          /\ (\E c \in Clusters : Bind(c)) \/ UpdateStatus(st)
      BY <1>1, <1>6 DEF Schedule, Version, world, Lawful, Sheltered
    <2>2. st \in Statuses /\ st.applied = db.status.applied /\ st.observed = db.status.observed
      BY <1>1 DEF Statuses
    <2> HIDE DEF st
    <2> QED BY <1>4, <1>5, <2>1, <2>2
  <1>7. CASE Retry
    <2> DEFINE a == [db EXCEPT !.status.state = "WAITING_FOR_CLEANING", !.status.grace = FALSE]
    <2>1. Save(a) /\ db' = a /\ UNCHANGED <<scenario, pending, proc, observer>>
      BY <1>7 DEF Retry, world, Save
    <2>2. /\ a.manifest = db.manifest
          /\ a.status.applied = db.status.applied /\ a.status.observed = db.status.observed
      BY DEF Apps, Statuses
    <2> HIDE DEF a
    <2> QED BY <2>1, <2>2, GrowingSaved
  <1>8. CASE Confirm \/ Collect
    <2>1. Sane(db.status)
      BY DEF Lawful, Accounted, Living, Sound
    <2> QED BY <1>1, <1>8, <2>1 DEF Confirm, Collect, Sane
  <1>9. CASE \E c \in Clusters : Drift(c)
    <2>1. UNCHANGED <<db, stream, pending, proc, observer, scenario>>
      BY <1>9 DEF Drift
    <2>2. Coming' = Coming
      BY <2>1, ComingUnchanged
    <2> QED BY <2>1, <2>2 DEF Grows
  <1>10. CASE \E c \in Clusters : Move(c)
    BY <1>4, <1>10 DEF Move, world
  <1>11. ASSUME NEW m \in Manifests, UserUpdate(m) PROVE Grows
    <2> DEFINE b == [db EXCEPT !.manifest = m]
    <2>1. UpdateApplication(b) /\ UNCHANGED <<scenario, pending, proc, observer>>
            /\ db.manifest \subseteq m
      BY <1>11 DEF UserUpdate, world, Spend
    <2>2. b \in Apps /\ b.manifest = m
      BY ApplicationAssumption DEF Apps
    <2> HIDE DEF b
    <2>3. Save(db') /\ db'.status = db.status /\ db'.manifest = m
      BY <1>1, <2>1, <2>2, ApplicationSaved
    <2> QED BY <2>1, <2>3, GrowingSaved
  <1> QED BY <1>2, <1>3, <1>6, <1>7, <1>8, <1>9, <1>10, <1>11

\* No step takes away what a restart relies on.
LEMMA GrowingStep ==
    ASSUME Lawful, Next, Living', Beginning'
    PROVE  Growing'
  <1> SUFFICES ASSUME Alive', ~Never("crash")' PROVE Growing'
    BY DEF Growing
  <1>1. AppInv /\ AppInv' /\ TypeOK
    BY NextInvariant DEF Lawful, AppInv
  <1>2. Alive /\ db' \in Apps
    <2>1. db' \in Apps
      BY <1>1 DEF Alive, AppInv, TypeOK
    <2>2. Gone => Gone'
      BY DyingStep
    <2> QED BY <2>1, <2>2 DEF Alive, Gone
  <1>3. ~Never("crash")
    BY <1>1, StepFrame DEF Never
  <1> USE <1>2, <1>3
  <1>4. CASE Receive \/ Restart \/ Get
    BY <1>4, GrowingQueue, GrowsKeeps
  <1>5. ASSUME NEW p \in Procs, Step(p) \/ ClusterError(p) PROVE Growing'
    <2>1. ~ClusterError(p)
      BY DEF Lawful, Sheltered, Accounted, Never, ClusterError, Spend, Kinds
    <2>2. ~Reload(p) /\ ~Transfer(p)
      <3>1. proc[p] # Null => p = "worker" /\ proc[p].pc \notin {"read", "transfer"}
        BY GrowingFacts DEF Procs
      <3> QED BY <3>1 DEF Reload, Transfer
    <2> QED BY <1>5, <2>1, <2>2, GrowingObjects, GrowingRequests, GrowsKeeps DEF Step
  <1>6. ~CheckShutdown
    BY GrowingFacts DEF CheckShutdown
  <1>7. ~SchedulerTake
    BY DEF Lawful, Sheltered, SchedulerTake
  <1>8. ~UserDelete
    <2>1. UserDelete => db'.deleted
      BY GrowingFacts DEF UserDelete, Save, Apps
    <2> QED BY <2>1 DEF Alive
  <1> QED BY <1>4, <1>5, <1>6, <1>7, <1>8, GrowingOthers, GrowsKeeps DEF Next

-----------------------------------------------------------------------------
(* Placement                                                               *)

\* At the beginning nothing exists.
LEMMA PlacementInit == Init => PlacementInv
  <1> SUFFICES ASSUME Init PROVE PlacementInv
    OBVIOUS
  <1> DEFINE s == db.status
  <1>1. /\ scenario \in AllScenarios /\ db = Submitted(scenario.manifest)
        /\ left = scenario.budget /\ (\A c \in Clusters : objects[c] = {})
        /\ stream = <<>> /\ pending = Null /\ observer = Null /\ sched = Null
        /\ \A p \in Procs : proc[p] = Null
    BY ApplicationAssumption DEF Init
  <1>2. scenario.manifest \in Manifests
    BY <1>1 DEF AllScenarios
  <1>3. /\ db \in Apps /\ ~db.deleted /\ db.finalizers = <<>> /\ db.owners = {}
        /\ db.modified = 1 /\ db.manifest = scenario.manifest
        /\ s.state = "PENDING" /\ s.scheduled_to = Null /\ s.running_on = Null
        /\ s.applied = {} /\ s.observed = {} /\ s.triggered = 0 /\ ~s.grace
    BY <1>1, <1>2, ApplicationAssumption DEF Submitted, Apps, Statuses, States, Places
  <1>4. db # Null
    BY <1>3, ApplicationAssumption
  <1> HIDE DEF s
  <1>5. Alive /\ ~Guarded /\ ~Gone
    BY <1>3, <1>4 DEF Alive, Guarded, Gone, ToSet
  <1>6. OneCluster /\ OwnersCover /\ RecoveryLeavesNone
    BY <1>1 DEF OneCluster, OwnersCover, RecoveryLeavesNone, NoOrphans
  <1>7. NewestLast /\ Dying
    BY <1>1, <1>5 DEF NewestLast, Dying
  <1>8. Beginning
    BY <1>1, <1>3 DEF Beginning, Procs, s
  <1>9. Coming = {} /\ ~Awaited
    BY <1>1 DEF Coming, Awaited, Accepted
  <1>10. Sane(s) /\ ~Moved(s)
    BY <1>3 DEF Sane, Moved
  <1>11. Sound(objects, db)
    BY <1>1, <1>3, <1>10 DEF Sound, Explained, PlacesOf, s
  <1>12. Living
    <2>1. db.manifest # {} /\ db.modified > 0 /\ proc["task"] = Null /\ proc["worker"] = Null
      BY <1>1, <1>2, <1>3, ApplicationAssumption DEF Procs
    <2>2. Unmoved /\ ~Stuck
      BY <1>1, <1>3, <1>9, <1>10 DEF Unmoved, Stuck, s
    <2>3. Known(objects, s)
      BY <1>1 DEF Known, Within
    <2> QED BY <1>1, <1>3, <1>5, <1>9, <1>10, <1>11, <2>1, <2>2, <2>3 DEF Living, Complete, s
  <1>14. Growing
    BY <1>1, <1>3, <1>9 DEF Growing, Nested, Procs, s
  <1>13. Accounted
    BY <1>1, <1>7, <1>8, <1>12, <1>14 DEF Accounted, Never
  <1> QED BY <1>6, <1>13 DEF PlacementInv

\* Every step keeps the account of what exists, hence the placement.
LEMMA PlacementNext ==
    ASSUME AppInv, PlacementInv, Next
    PROVE  PlacementInv'
  <1>1. TypeOK /\ UNCHANGED scenario /\ (Sheltered' <=> Sheltered)
        /\ \A kind : Never(kind)' <=> Never(kind)
    BY StepFrame DEF AppInv, Sheltered, Never
  <1>2. CASE ~Sheltered
    BY <1>1, <1>2 DEF PlacementInv, OneCluster, OwnersCover, RecoveryLeavesNone, Accounted
  <1>3. CASE Sheltered
    <2>1. Lawful
      BY <1>3 DEF Lawful, PlacementInv
    <2>2. /\ NewestLast'
          /\ \/ Living' /\ (Grown' \/ (Beginning' /\ Young'))
             \/ Dying' /\ Gone'
          /\ \/ \E c \in Clusters : \A d \in Clusters : objects'[d] # {} => d = c
             \/ \A c \in Clusters : objects'[c] \subseteq objects[c]
      <3>1. CASE Gone
        <4>1. ~\E p \in Procs : KubeApply(p)
          <5> SUFFICES ASSUME NEW p \in Procs, KubeApply(p) PROVE FALSE
            OBVIOUS
          <5>1. proc[p] # Null /\ proc[p].pc = "apply"
            BY DEF KubeApply
          <5>2. Cleaning(objects, proc[p]) /\ Phases(proc[p])
            BY <2>1, <3>1, <5>1, DyingFacts
          <5> QED BY <5>1, <5>2 DEF Cleaning, Phases
        <4> QED BY <1>1, <2>1, <3>1, <4>1, StepFrame, DyingStep
      <3>2. CASE Grown
        BY <1>1, <2>1, <3>2, StepFrame, LivingStep, LivingApply
      <3>3. CASE Young
        <4>1. ~\E p \in Procs : KubeApply(p)
          BY <2>1, <3>3, YoungFacts DEF KubeApply, Procs
        <4> QED BY <1>1, <2>1, <3>3, <4>1, StepFrame, YoungStep
      <3> QED BY <3>1, <3>2, <3>3 DEF Gone, Grown, Young, Alive
    <2>3. OneCluster'
      <3>1. \A c, d \in Clusters : objects[c] # {} /\ objects[d] # {} => c = d
        BY <1>3 DEF PlacementInv, OneCluster
      <3>2. \A c, d \in Clusters : objects'[c] # {} /\ objects'[d] # {} => c = d
        <4>1. CASE \E e \in Clusters : \A d \in Clusters : objects'[d] # {} => d = e
          BY <4>1
        <4>2. CASE \A c \in Clusters : objects'[c] \subseteq objects[c]
          BY <3>1, <4>2
        <4> QED BY <2>2, <4>1, <4>2
      <3> QED BY <3>2 DEF OneCluster
    <2>4. (Gone' <=> ~Alive') /\ (Grown' => Guarded' /\ Alive') /\ (Young' => Alive' /\ ~Guarded')
      BY DEF Gone, Alive, Grown, Young
    <2>5. Living' /\ Beginning' /\ Dying'
      BY <2>2, <2>4 DEF Living, Beginning, Dying
    <2>6. OwnersCover' /\ RecoveryLeavesNone'
      <3> SUFFICES ASSUME NEW c \in Clusters, objects'[c] # {}
                   PROVE  db' # Null /\ c \in db'.owners /\ Guarded'
        BY DEF OwnersCover, RecoveryLeavesNone, NoOrphans
      <3>1. CASE Gone'
        <4>1. Guarded'
          BY <2>5, <3>1 DEF Dying
        <4> QED BY <2>5, <3>1, <4>1 DEF Dying, Guarded
      <3>2. CASE Alive'
        <4>1. Guarded' /\ db' # Null
          BY <2>5, <3>2 DEF Beginning, Alive
        <4>2. Sound(objects', db')
          BY <2>5, <3>2 DEF Living
        <4>3. c \in PlacesOf(db'.status)
          BY <4>2, ApplicationAssumption DEF Sound, Explained, PlacesOf
        <4> QED BY <4>1, <4>2, <4>3 DEF Sound
      <3> QED BY <2>4, <3>1, <3>2
    <2>7. sched' = Null /\ \A kind \in Kinds : Never(kind)' => left'[kind] = 0
      <3>1. sched' = Null
        BY <1>1, <2>1, StepFrame DEF Lawful, Sheltered, Accounted, SchedulerTake
      <3>2. ASSUME NEW kind \in Kinds, Never(kind)' PROVE left'[kind] = 0
        <4>1. left[kind] = 0 /\ left \in [Kinds -> Nat]
          BY <1>1, <2>1, <3>2 DEF Lawful, Accounted, TypeOK
        <4>2. \A k \in Kinds : Spend(k) => left'[kind] = 0
          BY <4>1 DEF Spend
        <4> QED BY <1>1, <4>1, <4>2, StepFrame
      <3> QED BY <3>1, <3>2
    <2>8. Growing'
      BY <2>1, <2>5, GrowingStep
    <2>9. Accounted'
      BY <2>2, <2>5, <2>7, <2>8 DEF Accounted
    <2> QED BY <2>3, <2>6, <2>9 DEF PlacementInv
  <1> QED BY <1>2, <1>3

\* In sheltered scenarios, with any number of clusters, objects and versions under way,
\* the objects of an application are on one cluster at a time, also when the controller
\* is restarted in the middle of a migration (_migrate_application); every cluster that
\* holds some is an owner (update_application_binding, _delete_manifest_async); and none
\* is left without the finalizer (_delete_application).
THEOREM PlacementInvariant == Spec => []PlacementInv
  <1>1. AppInv /\ PlacementInv /\ [Next]_vars => PlacementInv'
    <2> SUFFICES ASSUME AppInv, PlacementInv, [Next]_vars PROVE PlacementInv'
      OBVIOUS
    <2>1. CASE Next
      BY <2>1, PlacementNext
    <2>2. CASE UNCHANGED vars
      <3>1. UNCHANGED <<db, objects, stream, pending, proc, observer, sched, scenario, left>>
        BY <2>2 DEF vars, world
      <3>2. /\ Sheltered' = Sheltered /\ Guarded' = Guarded /\ Gone' = Gone /\ Alive' = Alive
            /\ Stuck' = Stuck /\ Unscheduled(db)' = Unscheduled(db) /\ Hooked' = Hooked
            /\ \A kind : Never(kind)' = Never(kind)
        BY <3>1 DEF Sheltered, Guarded, Gone, Alive, Stuck, Unscheduled, Hooked, Never
      <3>3. Coming' = Coming /\ Awaited' = Awaited /\ (NewestLast => NewestLast')
        BY <3>1, ComingUnchanged
      <3>4. Unmoved' = Unmoved
        BY <3>1, <3>3 DEF Unmoved
      <3>5. Beginning' = Beginning
        BY <3>1, <3>2 DEF Beginning
      <3>6. Living' = Living
        BY <3>1, <3>2, <3>3, <3>4 DEF Living
      <3>7. Dying' = Dying
        BY <3>1, <3>2, <3>3 DEF Dying
      <3>8. Growing' = Growing
        BY <3>1, <3>2, <3>3 DEF Growing, Nested
      <3>9. Accounted'
        BY <3>1, <3>2, <3>3, <3>5, <3>6, <3>7, <3>8 DEF PlacementInv, Accounted
      <3> QED BY <3>1, <3>2, <3>9
              DEF PlacementInv, OneCluster, OwnersCover, RecoveryLeavesNone, NoOrphans
    <2> QED BY <2>1, <2>2
  <1> QED BY <1>1, PlacementInit, ApplicationInvariant, PTL DEF Spec
=============================================================================
