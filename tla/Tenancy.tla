------------------------------ MODULE Tenancy ------------------------------
(***************************************************************************)
(* A tenant, its stores and the rows that belong to them, under the three  *)
(* ways of removing them: the safe delete that first counts dependencies   *)
(* (routers/admin.py), the purge (services/tenant_purge.py) and the wipe   *)
(* of contents (services/content_wipe.py), while the tenant's users keep   *)
(* writing.                                                                *)
(*                                                                         *)
(* A purge is one transaction of many DELETE statements.  Under READ       *)
(* COMMITTED each statement sees what has been committed by then, so a row *)
(* committed between two of them is met by the second only.  Point-of-sale *)
(* tables have no foreign key to stores or tenants; the others do, and the *)
(* DELETE of the store then fails while such a row is left.                *)
(***************************************************************************)
EXTENDS FiniteSets

CONSTANTS
  Tenant,   \* the tenant
  Stores,   \* the stores it can have
  Writers,  \* requests that write rows
  Jobs      \* requests that delete, purge or wipe

Places == {Tenant} \cup Stores

ASSUME PlacesAssumption == Tenant \notin Stores

VARIABLES
  place,    \* Places -> "none", "here" or "gone"
  rows,     \* the committed rows
  writer,   \* Writers -> how far the request is
  job,      \* Jobs -> how far the deletion is
  locks,    \* purge_locks: <<resource, id>>
  audit,    \* audit events of purges and wipes: <<job, outcome>>
  overlap   \* history: <<writer, job>> that ran at the same time

vars == <<place, rows, writer, job, locks, audit, overlap>>

----------------------------------------------------------------------------
\* What one request writes.  "ai" is the confirmation of an extraction, whose
\* row then refers to the preload session.
Written == [sale |-> {"sale", "line"}, stock |-> {"stock"}, preload |-> {"preload"},
            ai |-> {"preload", "extraction"}, user |-> {"user"}]

Kinds == UNION {Written[k] : k \in DOMAIN Written}
Rows  == [kind : Kinds, store : Stores, by : Writers]

\* Kinds whose tables refer to stores and tenants.
Referring == {"stock", "preload", "extraction", "user"}

\* TENANT_PURGE_ORDER and its siblings: what a purge and a wipe delete.
Known(op) ==
  CASE op = "purge"  -> {"sale", "line", "stock", "user"}
    [] op = "wipe"   -> {"sale", "line", "stock", "preload"}
    [] op = "delete" -> {}

\* Counts that forget the sales.
DependenciesShort(p) == IF p = Tenant THEN {"user", "stock"} ELSE {"user"}

\* _tenant_dependency_counts and _store_dependency_counts.
Dependencies(p) == IF p = Tenant THEN {"user", "stock", "sale", "line"} ELSE {"user", "sale"}

At(p) == {x \in rows : p = Tenant \/ x.store = p}

NoJob    == [phase |-> "idle"]
NoWriter == [phase |-> "idle"]
Answered == [phase |-> "done"]

\* Before the commit: the transaction can still be rolled back.
RunningLonger == {"checked", "locked", "lines", "rows", "committed"}
Running == {"checked", "locked", "lines", "rows"}
Holding == {"locked", "lines", "rows", "committed", "failed", "audited"}

Deletions ==
  [phase : Running \cup Holding \cup {"done", "crashed"}, op : {"delete", "purge", "wipe"},
   at : Places, doomed : SUBSET Rows, before : SUBSET Rows, committed : BOOLEAN]
Writes == [phase : {"begun"}, store : Stores, writes : DOMAIN Written]

Init ==
  /\ place = [p \in Places |-> "none"]
  /\ rows = {}
  /\ writer = [w \in Writers |-> NoWriter]
  /\ job = [j \in Jobs |-> NoJob]
  /\ locks = {}
  /\ audit = {}
  /\ overlap = {}

----------------------------------------------------------------------------
CreateTenant ==
  /\ place[Tenant] = "none"
  /\ place' = [place EXCEPT ![Tenant] = "here"]
  /\ UNCHANGED <<rows, writer, job, locks, audit, overlap>>

\* create_store; the foreign key refuses a tenant that has gone.
CreateStore(s) ==
  /\ place[s] = "none" /\ place[Tenant] = "here"
  /\ place' = [place EXCEPT ![s] = "here"]
  /\ UNCHANGED <<rows, writer, job, locks, audit, overlap>>

\* A request is authenticated and its store found ...
WriteBegin(w, s, k) ==
  /\ writer[w] = NoWriter /\ place[s] = "here"
  /\ writer' = [writer EXCEPT ![w] = [phase |-> "begun", store |-> s, writes |-> k]]
  /\ overlap' = overlap \cup {<<w, j>> : j \in {i \in Jobs : job[i].phase \in Running}}
  /\ UNCHANGED <<place, rows, job, locks, audit>>

\* ... and commits later: only a foreign key looks for the store again.
WriteCommit(w) ==
  LET new == [kind : Written[writer[w].writes], store : {writer[w].store}, by : {w}] IN
  /\ writer[w].phase = "begun"
  /\ rows' = IF place[writer[w].store] # "here" /\ \E x \in new : x.kind \in Referring
               THEN rows ELSE rows \cup new
  /\ writer' = [writer EXCEPT ![w] = Answered]
  /\ UNCHANGED <<place, job, locks, audit, overlap>>

----------------------------------------------------------------------------
Move(j, ph) == job' = [job EXCEPT ![j].phase = ph]

\* The transaction is rolled back.
Rollback(j, ph) ==
  job' = [job EXCEPT ![j].phase = ph, ![j].doomed = {},
                     ![j].before = IF job[j].committed THEN @ ELSE {}]

Starting(j, op, p, ph) ==
  /\ job' = [job EXCEPT ![j] = [phase |-> ph, op |-> op, at |-> p, doomed |-> {}, before |-> {},
                                committed |-> FALSE]]
  /\ overlap' = overlap \cup {<<w, j>> : w \in {v \in Writers : writer[v].phase = "begun"}}

\* A safe delete is refused while it counts a dependency.
DeleteCheck(j, p) ==
  /\ job[j] = NoJob /\ place[p] = "here"
  /\ \A x \in At(p) : x.kind \notin Dependencies(p)
  /\ Starting(j, "delete", p, "checked")
  /\ UNCHANGED <<place, rows, writer, locks, audit>>

DeleteStore(j, s) == DeleteCheck(j, s)

\* The stores of the tenant count among its dependencies.
DeleteTenant(j) == (\A s \in Stores : place[s] # "here") /\ DeleteCheck(j, Tenant)

\* A lock whose unique constraint is missing.
AcquireAnyway(j, op, p) ==
  /\ job[j] = NoJob /\ place[p] = "here"
  /\ locks' = locks \cup {<<op, p>>}
  /\ Starting(j, op, p, "locked")
  /\ UNCHANGED <<place, rows, writer, audit>>

\* _acquire_lock: a committed row, unique for the resource and its id; a purge
\* and a wipe of one place take different ones.
Acquire(j, op, p) ==
  /\ job[j] = NoJob /\ place[p] = "here"
  /\ <<op, p>> \notin locks
  /\ locks' = locks \cup {<<op, p>>}
  /\ Starting(j, op, p, "locked")
  /\ UNCHANGED <<place, rows, writer, audit>>

PurgeTenant(j)   == Acquire(j, "purge", Tenant)
PurgeStore(j, s) == Acquire(j, "purge", s)
WipeTenant(j)    == Acquire(j, "wipe", Tenant)
WipeStore(j, s)  == Acquire(j, "wipe", s)

\* The statement that deletes lines and payments: a tenant's by tenant, a
\* store's by the sales it has just read.
LinesOf(p) ==
  {x \in At(p) : /\ x.kind = "line"
                 /\ p = Tenant \/ [x EXCEPT !.kind = "sale"] \in rows}

DeleteLines(j) ==
  /\ job[j].phase = "locked"
  /\ job' = [job EXCEPT ![j].phase = "lines", ![j].doomed = LinesOf(job[j].at),
                ![j].before = {x \in At(job[j].at) : x.kind \in Known(job[j].op)}]
  /\ UNCHANGED <<place, rows, writer, locks, audit, overlap>>

\* The statements after it.  The preload session of a confirmed extraction is
\* referred to by that extraction, which no wipe deletes.
DeleteRows(j) ==
  LET more == {x \in At(job[j].at) : x.kind \in Known(job[j].op) \ {"line"}} IN
  /\ job[j].phase = "lines"
  /\ IF \E x \in more : x.kind = "preload" /\ [x EXCEPT !.kind = "extraction"] \in rows
       THEN Rollback(j, "failed")
       ELSE job' = [job EXCEPT ![j].phase = "rows", ![j].doomed = @ \cup more]
  /\ UNCHANGED <<place, rows, writer, locks, audit, overlap>>

Left(j) == rows \ job[j].doomed

\* The DELETE of the place, with its foreign keys, and the commit.  A wipe
\* deletes no place.
DeletePlace(j) ==
  LET p == job[j].at IN
  /\ job[j].phase \in {"checked", "rows"}
  /\ IF \/ job[j].op # "wipe" /\ \E x \in At(p) \cap Left(j) : x.kind \in Referring
        \/ job[j].op = "delete" /\ p = Tenant /\ \E s \in Stores : place[s] = "here"
       THEN Rollback(j, "failed") /\ UNCHANGED <<rows, place>>
       ELSE /\ job' = [job EXCEPT ![j].phase = "committed", ![j].committed = TRUE, ![j].doomed = {}]
            /\ rows' = Left(j)
            /\ place' = [q \in Places |->
                 IF job[j].op # "wipe" /\ place[q] = "here" /\ p \in {q, Tenant}
                   THEN "gone" ELSE place[q]]
  /\ UNCHANGED <<writer, locks, audit, overlap>>

\* Any statement before the commit may fail: a deadlock, a lost connection, a
\* foreign key met by a row that came in between.
Fail(j) ==
  /\ job[j].phase \in Running
  /\ Rollback(j, "failed")
  /\ UNCHANGED <<place, rows, writer, locks, audit, overlap>>

\* The event of the outcome; record_event swallows its own failures, so the
\* event may be missing.  A failed wipe and a failed delete write none.
Record(j, kept) ==
  LET outcome == IF job[j].phase = "committed" THEN "completed" ELSE "failed" IN
  /\ job[j].phase \in {"committed", "failed"}
  /\ audit' = IF kept /\ (job[j].op = "purge" \/ outcome = "completed")
                THEN audit \cup {<<j, outcome>>} ELSE audit
  /\ Move(j, IF job[j].op = "delete" THEN "done" ELSE "audited")
  /\ UNCHANGED <<place, rows, writer, locks, overlap>>

\* A release that only follows a success.
ReleaseOnSuccess(j) ==
  /\ job[j].phase = "audited" /\ job[j].committed
  /\ locks' = locks \ {<<job[j].op, job[j].at>>}
  /\ Move(j, "done")
  /\ UNCHANGED <<place, rows, writer, audit, overlap>>

\* _release_lock, in the finally.
Release(j) ==
  /\ job[j].phase = "audited"
  /\ locks' = locks \ {<<job[j].op, job[j].at>>}
  /\ Move(j, "done")
  /\ UNCHANGED <<place, rows, writer, audit, overlap>>

\* The process dies: its transaction is rolled back, its lock row stays.  A
\* release whose error is swallowed ends in the same state.
Crash(j) ==
  /\ job[j].phase \in Running \cup Holding
  /\ Rollback(j, "crashed")
  /\ UNCHANGED <<place, rows, writer, locks, audit, overlap>>

Work(j) ==
  \/ DeleteLines(j) \/ DeleteRows(j) \/ DeletePlace(j)
  \/ \E kept \in BOOLEAN : Record(j, kept)
  \/ Release(j)

Next ==
  \/ CreateTenant
  \/ \E s \in Stores : CreateStore(s)
  \/ \E w \in Writers : \/ \E s \in Stores, k \in DOMAIN Written : WriteBegin(w, s, k)
                        \/ WriteCommit(w)
  \/ \E j \in Jobs : \/ DeleteTenant(j) \/ PurgeTenant(j) \/ WipeTenant(j)
                     \/ \E s \in Stores : DeleteStore(j, s) \/ PurgeStore(j, s) \/ WipeStore(j, s)
                     \/ Work(j) \/ Fail(j) \/ Crash(j)

Spec == Init /\ [][Next]_vars

FairSpec == Spec /\ \A j \in Jobs : WF_vars(Work(j))

----------------------------------------------------------------------------
\* Places, rows, requests, locks and events are ones the code can write.
TypeOK ==
  /\ place \in [Places -> {"none", "here", "gone"}]
  /\ rows \subseteq Rows
  /\ writer \in [Writers -> {NoWriter, Answered} \cup Writes]
  /\ job \in [Jobs -> {NoJob} \cup Deletions]
  /\ locks \subseteq {"purge", "wipe"} \X Places
  /\ audit \subseteq Jobs \X {"completed", "failed"}
  /\ overlap \subseteq Writers \X Jobs

\* References hold: a row of a referring table is in a store that is there,
\* and the tenant is there while a store is, whatever was deleted meanwhile.
ReferencesHold ==
  /\ \A x \in rows : x.kind \in Referring => place[x.store] = "here"
  /\ \A s \in Stores : place[s] = "here" => place[Tenant] = "here"

\* A sale or a line whose store is gone, and a line whose sale is gone, were
\* written by a request that ran during a deletion: no safe delete, purge or
\* wipe that runs alone leaves one behind.
LeftoversOverlapped ==
  \A x \in rows :
    \/ x.kind \in {"sale", "line"} /\ place[x.store] = "gone"
    \/ x.kind = "line" /\ [x EXCEPT !.kind = "sale"] \notin rows
    => \E j \in Jobs : <<x.by, j>> \in overlap

\* The audit trail tells what happened: "completed" means that the rows the
\* deletion knows and that were there when it began are gone (but for lines a
\* store's deletion cannot find), "failed" that it deleted nothing.
AuditTellsOutcome ==
  \A j \in Jobs :
    /\ <<j, "failed">> \in audit => ~job[j].committed
    /\ <<j, "completed">> \in audit =>
         /\ job[j].op # "wipe" => place[job[j].at] = "gone"
         /\ \A x \in job[j].before \cap rows :
              x.kind = "line" /\ [x EXCEPT !.kind = "sale"] \notin job[j].before

\* Two purges, or two wipes, of one place never run at the same time, and the
\* lock of one that runs is not taken away under it.
OneAtATime ==
  \A i \in Jobs : job[i].phase \in Holding /\ job[i].op # "delete" =>
    /\ <<job[i].op, job[i].at>> \in locks
    /\ \A j \in Jobs \ {i} : job[j].phase \in Holding =>
         <<job[i].op, job[i].at>> # <<job[j].op, job[j].at>>

\* The lock of a deletion that neither crashes nor fails to release it is
\* released, also after an error.
LockReleased ==
  \A j \in Jobs : job[j].phase \in Holding ~> job[j].phase \in {"done", "crashed"}
=============================================================================
