----------------------------- MODULE Bootstrap -----------------------------
(***************************************************************************)
(* krake_bootstrap_db (krake/tools/bootstrap_db.py): inserts the resources *)
(* of its files into the database, without the API.  The insertions run    *)
(* concurrently; when one reports an error, the others are undone.  An     *)
(* exception of the database is not an error that is reported: it ends the *)
(* tool where it is.                                                       *)
(*                                                                         *)
(* db holds the resource of each key with the revision of its last         *)
(* modification; a write compares the revision (Session.put and            *)
(* Session.delete of krake/api/database.py).                               *)
(***************************************************************************)
EXTENDS ResourceKinds

VARIABLES
    db,        \* [keys -> [obj, mod] or Null]
    revision,  \* revision of the database
    tool       \* the tool, see ToolOff

\* Session.put and Session.delete
Row(obj) == [obj |-> obj, mod |-> revision + 1]
Put(key, obj) == db' = [db EXCEPT ![key] = Row(obj)] /\ revision' = revision + 1
Erase(key) == db' = [db EXCEPT ![key] = Null] /\ revision' = revision + 1
Same(key, row) == db[key] # Null /\ db[key].mod = row.mod

\* jobs: one per resource of the files, in their order
ToolOff == [phase |-> "off", force |-> FALSE, jobs |-> <<>>, next |-> 1]
Tool(force, jobs) == [phase |-> "inserting", force |-> force, jobs |-> jobs, next |-> 1]
\* A resource to insert.  document: "good", without a "kind", of a kind that is
\* "unknown" to the tool, or "invalid"
Job(key, content, document) ==
    [key |-> key, content |-> content, document |-> document, at |-> "start",
     previous |-> Null, inserted |-> Null, error |-> FALSE]

JobIs(i, job) == tool' = [tool EXCEPT !.jobs[i] = job]
Abort == tool' = [tool EXCEPT !.phase = "aborted"] /\ UNCHANGED <<db, revision>>

\* insert_resource up to the answer of the database about what is stored
BeginInsert(i) ==
    LET job == tool.jobs[i]
        stored == db[job.key]
    IN  /\ tool.phase = "inserting" /\ job.at = "start"
        /\ CASE job.document = "no kind" -> Abort
             [] job.document \in {"unknown", "invalid"} ->
                  JobIs(i, [job EXCEPT !.at = "end", !.error = TRUE]) /\ UNCHANGED <<db, revision>>
             [] OTHER ->
                  /\ JobIs(i, IF stored = Null THEN [job EXCEPT !.at = "put"]
                              ELSE IF tool.force
                                THEN [job EXCEPT !.at = "delete", !.previous = stored]
                                ELSE [job EXCEPT !.at = "end", !.error = TRUE, !.previous = stored])
                  /\ UNCHANGED <<db, revision>>

\* Faulty variant of RemoveStored: what was stored is forgotten
RemoveForgetting(i) ==
    LET job == tool.jobs[i] IN
    /\ tool.phase = "inserting" /\ job.at = "delete"
    /\ IF Same(job.key, job.previous)
         THEN Erase(job.key) /\ JobIs(i, [job EXCEPT !.at = "put", !.previous = Null])
         ELSE Abort

\* --force: the stored resource is deleted first
RemoveStored(i) ==
    LET job == tool.jobs[i] IN
    /\ tool.phase = "inserting" /\ job.at = "delete"
    /\ IF Same(job.key, job.previous)
         THEN Erase(job.key) /\ JobIs(i, [job EXCEPT !.at = "put"])
         ELSE Abort

Insert(i) ==
    LET job == tool.jobs[i]
        new == Resource(revision + 1, revision + 1, FALSE, {}, {}, job.content, Fresh)
    IN  /\ tool.phase = "inserting" /\ job.at = "put"
        /\ IF db[job.key] = Null
             THEN Put(job.key, new) /\ JobIs(i, [job EXCEPT !.at = "end", !.inserted = Row(new)])
             ELSE Abort

\* process_resources, once every insertion has its result
Gathered ==
    /\ tool.phase = "inserting"
    /\ \A i \in DOMAIN tool.jobs : tool.jobs[i].at = "end"
    /\ tool' = [tool EXCEPT !.phase = IF \E i \in DOMAIN tool.jobs : tool.jobs[i].error
                                        THEN "rollback" ELSE "done"]
    /\ UNCHANGED <<db, revision>>

\* rollback: the results in order; a resource that was replaced is put back in
\* a step of its own
Rollback ==
    /\ tool.phase = "rollback"
    /\ tool.next \in DOMAIN tool.jobs
    /\ LET job == tool.jobs[tool.next]
           on  == [tool EXCEPT !.next = @ + 1]
       IN  CASE job.inserted = Null -> tool' = on /\ UNCHANGED <<db, revision>>
             [] job.inserted # Null /\ job.at = "end" ->
                  IF Same(job.key, job.inserted)
                    THEN /\ Erase(job.key)
                         /\ tool' = IF job.previous = Null THEN on
                                    ELSE [tool EXCEPT !.jobs[tool.next].at = "restore"]
                    ELSE Abort
             [] job.inserted # Null /\ job.at = "restore" ->
                  IF db[job.key] = Null THEN Put(job.key, job.previous.obj) /\ tool' = on ELSE Abort

RolledBack ==
    /\ tool.phase = "rollback"
    /\ tool.next \notin DOMAIN tool.jobs
    /\ tool' = [tool EXCEPT !.phase = "failed"]
    /\ UNCHANGED <<db, revision>>

ToolStep ==
    \/ \E i \in DOMAIN tool.jobs : BeginInsert(i) \/ RemoveStored(i) \/ Insert(i)
    \/ Gathered \/ Rollback \/ RolledBack
=============================================================================
