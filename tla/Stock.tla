------------------------------- MODULE Stock -------------------------------
(***************************************************************************)
(* The stock rows of one tenant and the RFID tags (EPCs) on them:          *)
(* imports, migration, stock actions, preload lines, assignment, release   *)
(* and issues (routers/stock.py), with what sales and refunds do to a row  *)
(* and its tag (routers/pos_sales.py).                                     *)
(*                                                                         *)
(* The preload and issue handlers read their rows without a lock and write *)
(* them at the commit; imports, migration and REPLACE_EPC look for the new *)
(* EPC without a lock and leave the rest to a unique constraint.  Such a   *)
(* request is a read and, later, a commit.  The ORM writes only the        *)
(* columns whose value differs from the one it read (Flush).  An item is   *)
(* named by its item_uid, which a preload line hands to the row it saves.  *)
(***************************************************************************)
EXTENDS Naturals, FiniteSets

CONSTANTS
  Items,     \* item_uids
  Epcs,      \* tags
  NoEpc,     \* the null EPC
  Issues,    \* issue_state values
  Requests   \* the requests of two steps of a behaviour

ASSUME NoEpcAssumption == NoEpc \notin Epcs
ASSUME IssuesAssumption ==
  Issues \cap {"none", "PENDING", "PENDING_EPC", "ACTIVE", "SOLD"} = {}

VARIABLES
  row,       \* Items -> row of stock_items
  line,      \* Items -> row of preload_lines
  assigned,  \* the rows of epc_assignments that are active
  req,       \* Requests -> what the request has read and answered
  out,       \* history: the items that were sold and not returned
  revived,   \* history: the items put back in stock by no return
  orphaned   \* history: the assignments whose item lost its tag unnoticed

vars == <<row, line, assigned, req, out, revived, orphaned>>

----------------------------------------------------------------------------
(***************************************************************************)
(* Rows.  A row that was never created is NONE, one that was deleted GONE. *)
(* life is item_status; by, the request that wrote an assignment, is its   *)
(* primary key.                                                            *)
(***************************************************************************)
Rows == [epc : Epcs \cup {NoEpc}, status : {"NONE", "PENDING", "RFID", "SOLD", "GONE"},
         life : {"PENDING", "PENDING_EPC", "ACTIVE", "SOLD"} \cup Issues,
         issue : Issues \cup {"none"}]
NoRow == [epc |-> NoEpc, status |-> "NONE", life |-> "PENDING", issue |-> "none"]

Lines == [state : {"NONE", "STAGING", "PENDING_EPC", "SAVED_EPC_FINAL"},
          epc : Epcs \cup {NoEpc}]
NoLine == [state |-> "NONE", epc |-> NoEpc]

Assignments == [epc : Epcs, item : Items, by : Requests]

Ops     == {"Import", "Migrate", "Replace", "Save", "Assign", "Release", "Mark", "Resolve"}
\* conflict: 400 or 409; taken: 500 from a unique EPC; stale: any other 500.
Answers == {"ok", "conflict", "taken", "stale"}
Idle    == [op |-> "Idle"]

\* What a request keeps from its read to its commit, and what is left of it.
Kept(ops, asked) == [op : ops, item : Items, epc : Epcs \cup {NoEpc}, seen : Rows,
                     asked : asked, answer : {"none"}]
Plain     == Kept({"Import", "Migrate", "Replace", "Save", "Assign"}, {"none"})
Releasing == Kept({"Release"}, SUBSET Assignments)
Marking   == Kept({"Mark"}, [issue : Issues, keep : BOOLEAN, free : SUBSET Assignments])
Resolving == Kept({"Resolve"}, {"ACTIVE", "PENDING"})
Answered  == [op : Ops, answer : Answers]

Exists(u) == row[u].status \notin {"NONE", "GONE"}
InStock(u) == row[u].status \in {"PENDING", "RFID"}
Holder(e) == {u \in Items : Exists(u) /\ row[u].epc = e}
Active(e, u) == {a \in assigned : a.epc = e /\ a.item = u}
Saved(u) == line[u].state \in {"PENDING_EPC", "SAVED_EPC_FINAL"}

\* A stock_items table without its unique constraint on the EPC.
TakenNever(e, u) == FALSE

\* uq_stock_items_tenant_epc refuses the EPC e on row u.
Taken(e, u) == e # NoEpc /\ Holder(e) \ {u} # {}

\* What the row becomes when a request that read old writes new.
Flush(old, new, cur) == [c \in DOMAIN cur |-> IF new[c] = old[c] THEN cur[c] ELSE new[c]]

Init ==
  /\ row = [u \in Items |-> NoRow]
  /\ line = [u \in Items |-> NoLine]
  /\ assigned = {}
  /\ req = [r \in Requests |-> Idle]
  /\ out = {} /\ revived = {} /\ orphaned = {}

----------------------------------------------------------------------------
\* The read of a request: it keeps the row it read and its inputs.
Begin(r, op, u, e, asked) ==
  /\ req[r] = Idle
  /\ req' = [req EXCEPT ![r] = [op |-> op, item |-> u, epc |-> e, seen |-> row[u],
                                asked |-> asked, answer |-> "none"]]
  /\ UNCHANGED <<row, line, assigned, out, revived, orphaned>>

Reading(r, op) == req[r].op = op /\ req[r].answer = "none"
Answer(r, a) == req' = [req EXCEPT ![r] = [op |-> @.op, answer |-> a]]

\* A uuid no row, line or import has yet.
Fresh(u) ==
  /\ row[u].status = "NONE" /\ line[u].state = "NONE"
  /\ ~\E r \in Requests : Reading(r, "Import") /\ req[r].item = u

\* A commit that the database refuses: everything is rolled back.
Fail(r, a) == Answer(r, a) /\ UNCHANGED <<row, line, assigned, out, revived, orphaned>>

\* import_stock_epc: the row of a new item with its tag, status RFID.
ImportRead(r, u, e) ==
  /\ Fresh(u) /\ Holder(e) = {}
  /\ Begin(r, "Import", u, e, "none")

ImportCommit(r) ==
  LET q == req[r] IN
  /\ Reading(r, "Import")
  /\ IF Taken(q.epc, q.item) THEN Fail(r, "conflict")
     ELSE /\ row' = [row EXCEPT ![q.item].epc = q.epc, ![q.item].status = "RFID"]
          /\ Answer(r, "ok")
          /\ UNCHANGED <<line, assigned, out, revived, orphaned>>

\* import_stock_sku: rows without a tag, status PENDING.
ImportSku(u) ==
  /\ Fresh(u)
  /\ row' = [row EXCEPT ![u].status = "PENDING"]
  /\ UNCHANGED <<line, assigned, req, out, revived, orphaned>>

\* migrate_stock_sku_to_epc: a tag for the pending row u that the filters find.
MigrateRead(r, u, e) == Holder(e) = {} /\ Begin(r, "Migrate", u, e, "none")

MigrateCommit(r) ==
  LET q == req[r] IN
  /\ Reading(r, "Migrate")
  /\ IF row[q.item].status # "PENDING" \/ row[q.item].epc # NoEpc THEN Fail(r, "conflict")
     ELSE IF Taken(q.epc, q.item) THEN Fail(r, "taken")
     ELSE /\ row' = [row EXCEPT ![q.item].epc = q.epc, ![q.item].status = "RFID"]
          /\ Answer(r, "ok")
          /\ UNCHANGED <<line, assigned, out, revived, orphaned>>

----------------------------------------------------------------------------
(***************************************************************************)
(* stock_actions.  REPRICE, MARKDOWN_BY_AGE and REPRINT_LABEL change no    *)
(* row.  A row that a preload line points to cannot be deleted: the        *)
(* foreign key has no ON DELETE.  No action touches epc_assignments.       *)
(***************************************************************************)
\* WRITE_OFF that deletes the row under the preload line that saved it.
WriteOffAnyway(u) ==
  /\ \/ row[u].status = "RFID" /\ row[u].epc # NoEpc
     \/ row[u].status = "PENDING" /\ row[u].epc = NoEpc
  /\ row' = [row EXCEPT ![u] = [NoRow EXCEPT !.status = "GONE"]]
  /\ UNCHANGED <<line, assigned, req, out, revived, orphaned>>

\* WRITE_OFF: a tagged row by its EPC, an untagged one by the match filter.
WriteOff(u) ==
  /\ \/ row[u].status = "RFID" /\ row[u].epc # NoEpc
     \/ row[u].status = "PENDING" /\ row[u].epc = NoEpc
  /\ ~Saved(u)
  /\ row' = [row EXCEPT ![u] = [NoRow EXCEPT !.status = "GONE"]]
  /\ UNCHANGED <<line, assigned, req, out, revived, orphaned>>

ReplaceRead(r, u, e) ==
  /\ row[u].epc \notin {NoEpc, e} /\ Holder(e) = {}
  /\ Begin(r, "Replace", u, e, "none")

\* The row is found by current_epc, the tag the request read, and locked.
ReplaceCommit(r) ==
  LET q == req[r]
      u == q.item
  IN
  /\ Reading(r, "Replace")
  /\ IF row[u].epc # q.seen.epc \/ row[u].status # "RFID" THEN Fail(r, "conflict")
     ELSE IF Taken(q.epc, u) THEN Fail(r, "taken")
     ELSE /\ row' = [row EXCEPT ![u].epc = q.epc]
          /\ orphaned' = orphaned \cup Active(row[u].epc, u)
          /\ Answer(r, "ok")
          /\ UNCHANGED <<line, assigned, out, revived>>

\* The EPC actions without the test that the row is RFID.
DropTagAny(u) ==
  /\ row[u].epc # NoEpc
  /\ row' = [row EXCEPT ![u].epc = NoEpc, ![u].status = "PENDING"]
  /\ orphaned' = orphaned \cup Active(row[u].epc, u)
  /\ UNCHANGED <<line, assigned, req, out, revived>>

\* MARK_EPC_DAMAGED, RETIRE_EPC and RETURN_EPC_TO_POOL.
DropTag(u) ==
  /\ row[u].epc # NoEpc /\ row[u].status = "RFID"
  /\ row' = [row EXCEPT ![u].epc = NoEpc, ![u].status = "PENDING"]
  /\ orphaned' = orphaned \cup Active(row[u].epc, u)
  /\ UNCHANGED <<line, assigned, req, out, revived>>

----------------------------------------------------------------------------
(***************************************************************************)
(* Preload lines.                                                          *)
(***************************************************************************)
\* create_preload_session and confirm_ai_preload: a line per unit.
CreateLine(u, e) ==
  /\ Fresh(u)
  /\ line' = [line EXCEPT ![u] = [state |-> "STAGING", epc |-> e]]
  /\ UNCHANGED <<row, assigned, req, out, revived, orphaned>>

\* patch_preload_line: in any state of the line.
PatchLine(u, e) ==
  /\ line[u].state # "NONE" /\ line[u].epc # e
  /\ line' = [line EXCEPT ![u].epc = e]
  /\ UNCHANGED <<row, assigned, req, out, revived, orphaned>>

\* _assert_epc_available
EpcAvailable(e) ==
  /\ ~\E a \in assigned : a.epc = e
  /\ ~\E u \in Holder(e) : row[u].life = "ACTIVE"

\* save_preload_line: no test of the line's state.
SaveRead(r, u) ==
  /\ line[u].state # "NONE"
  /\ line[u].epc # NoEpc => EpcAvailable(line[u].epc)
  /\ Begin(r, "Save", u, line[u].epc, "none")

\* The flush of the row meets the constraints of stock_items outside the try.
SaveCommit(r) ==
  LET q == req[r]
      u == q.item
  IN
  /\ Reading(r, "Save")
  /\ IF row[u].status # "NONE" THEN Fail(r, "stale")
     ELSE IF Taken(q.epc, u) THEN Fail(r, "taken")
     ELSE IF \E a \in assigned : a.epc = q.epc THEN Fail(r, "conflict")
     ELSE /\ row' = [row EXCEPT ![u] = IF q.epc = NoEpc
                       THEN [NoRow EXCEPT !.status = "PENDING", !.life = "PENDING_EPC"]
                       ELSE [NoRow EXCEPT !.status = "RFID", !.life = "ACTIVE", !.epc = q.epc]]
          /\ line' = [line EXCEPT ![u].state =
                       IF q.epc = NoEpc THEN "PENDING_EPC" ELSE "SAVED_EPC_FINAL"]
          /\ assigned' = IF q.epc = NoEpc THEN assigned
                         ELSE assigned \cup {[epc |-> q.epc, item |-> u, by |-> r]}
          /\ Answer(r, "ok")
          /\ UNCHANGED <<out, revived, orphaned>>

\* assign_pending_epc
AssignRead(r, u, e) ==
  /\ line[u].state = "PENDING_EPC" /\ EpcAvailable(e)
  /\ Begin(r, "Assign", u, e, "none")

\* No test of the row: one that was sold comes back with a tag.  A second
\* assignment of the line that read it in time takes the tag of the first, and
\* one that read the tag on the row already does not write it again.
AssignCommit(r) ==
  LET q == req[r]
      u == q.item
      new == [q.seen EXCEPT !.epc = q.epc, !.status = "RFID", !.life = "ACTIVE"]
      next == Flush(q.seen, new, row[u])
      made == [epc |-> q.epc, item |-> u, by |-> r]
  IN
  /\ Reading(r, "Assign")
  /\ IF Taken(q.epc, u) \/ \E a \in assigned : a.epc = q.epc THEN Fail(r, "conflict")
     ELSE /\ row' = [row EXCEPT ![u] = next]
          /\ line' = [line EXCEPT ![u] = [state |-> "SAVED_EPC_FINAL", epc |-> q.epc]]
          /\ assigned' = assigned \cup {made}
          /\ revived' = IF row[u].status = "SOLD" /\ next.status # "SOLD"
                        THEN revived \cup {u} ELSE revived
          /\ orphaned' = orphaned
               \cup (IF line[u].state = "SAVED_EPC_FINAL" THEN Active(row[u].epc, u) ELSE {})
               \cup (IF next.epc # q.epc THEN {made} ELSE {})
          /\ Answer(r, "ok")
          /\ UNCHANGED out

\* release_epc
ReleaseRead(r, u, e) == Active(e, u) # {} /\ Begin(r, "Release", u, e, Active(e, u))

\* The row loses whatever tag it has: an assignment of it that the request had
\* not read is orphaned.
ReleaseCommit(r) ==
  LET q == req[r]
      u == q.item
      new == [q.seen EXCEPT !.epc = NoEpc]
      next == Flush(q.seen, new, row[u])
  IN
  /\ Reading(r, "Release")
  /\ row' = [row EXCEPT ![u] = next]
  /\ assigned' = assigned \ q.asked
  /\ orphaned' = IF next.epc # row[u].epc
                 THEN orphaned \cup (Active(row[u].epc, u) \ q.asked) ELSE orphaned
  /\ Answer(r, "ok")
  /\ UNCHANGED <<line, out, revived>>

----------------------------------------------------------------------------
(***************************************************************************)
(* Issues.                                                                 *)
(***************************************************************************)
\* mark_issue with issue i; rel releases the tag, keep leaves it on the row.
MarkRead(r, u, i, rel, keep) ==
  /\ Exists(u) /\ row[u].life # "SOLD"
  /\ Begin(r, "Mark", u, row[u].epc,
           [issue |-> i, keep |-> keep \/ ~rel \/ row[u].epc = NoEpc,
            free |-> IF rel THEN Active(row[u].epc, u) ELSE {}])

MarkCommit(r) ==
  LET q == req[r]
      u == q.item
      marked == [q.seen EXCEPT !.issue = q.asked.issue, !.life = q.asked.issue]
      new == IF q.asked.keep THEN marked
             ELSE [marked EXCEPT !.epc = NoEpc, !.status = "PENDING"]
      next == Flush(q.seen, new, row[u])
  IN
  /\ Reading(r, "Mark")
  /\ IF row[u].status = "GONE" THEN Fail(r, "stale")
     ELSE /\ row' = [row EXCEPT ![u] = next]
          /\ assigned' = assigned \ q.asked.free
          /\ revived' = IF row[u].status = "SOLD" /\ next.status # "SOLD"
                        THEN revived \cup {u} ELSE revived
          /\ orphaned' = IF next.epc # row[u].epc
                         THEN orphaned \cup (Active(row[u].epc, u) \ q.asked.free) ELSE orphaned
          /\ Answer(r, "ok")
          /\ UNCHANGED <<line, out>>

\* resolve_issue to item_status life
ResolveRead(r, u, life) ==
  /\ Exists(u) /\ row[u].issue # "none"
  /\ Begin(r, "Resolve", u, NoEpc, life)

\* No test of a sale since the issue was marked.
ResolveCommit(r) ==
  LET q == req[r]
      u == q.item
      closed == [q.seen EXCEPT !.issue = "none", !.life = q.asked]
      new == IF q.asked = "ACTIVE" THEN [closed EXCEPT !.status = "RFID"] ELSE closed
      next == Flush(q.seen, new, row[u])
  IN
  /\ Reading(r, "Resolve")
  /\ IF row[u].status = "GONE" THEN Fail(r, "stale")
     ELSE /\ row' = [row EXCEPT ![u] = next]
          /\ revived' = IF row[u].status = "SOLD" /\ next.status # "SOLD"
                        THEN revived \cup {u} ELSE revived
          /\ Answer(r, "ok")
          /\ UNCHANGED <<line, assigned, out, orphaned>>

----------------------------------------------------------------------------
(***************************************************************************)
(* Sales and returns.                                                      *)
(***************************************************************************)
\* A sale that leaves the assignment of the tag active.
SellTagAssigned(u, exchange) ==
  /\ InStock(u) /\ row[u].epc # NoEpc
  /\ row' = [row EXCEPT ![u].status = "SOLD", ![u].life = "SOLD",
                        ![u].epc = IF exchange THEN @ ELSE NoEpc]
  /\ out' = out \cup {u}
  /\ UNCHANGED <<line, assigned, req, revived, orphaned>>

\* The EPC line of a checkout; that of an exchange leaves the tag on the row.
SellTag(u, exchange) ==
  /\ InStock(u) /\ row[u].epc # NoEpc
  /\ row' = [row EXCEPT ![u].status = "SOLD", ![u].life = "SOLD",
                        ![u].epc = IF exchange THEN @ ELSE NoEpc]
  /\ assigned' = assigned \ Active(row[u].epc, u)
  /\ out' = out \cup {u}
  /\ UNCHANGED <<line, req, revived, orphaned>>

SellSku(u) ==
  /\ InStock(u) /\ row[u].epc = NoEpc
  /\ row' = [row EXCEPT ![u].status = "SOLD", ![u].life = "SOLD"]
  /\ out' = out \cup {u}
  /\ UNCHANGED <<line, assigned, req, revived, orphaned>>

\* A returned EPC line finds its row by the tag; a SKU line takes any sold row.
TakeBack(u, status) ==
  /\ row[u].status = "SOLD"
  /\ status = "RFID" => row[u].epc # NoEpc
  /\ row' = [row EXCEPT ![u].status = status]
  /\ out' = out \ {u}
  /\ UNCHANGED <<line, assigned, req, revived, orphaned>>

Commit(r) ==
  \/ ImportCommit(r) \/ MigrateCommit(r) \/ ReplaceCommit(r) \/ SaveCommit(r)
  \/ AssignCommit(r) \/ ReleaseCommit(r) \/ MarkCommit(r) \/ ResolveCommit(r)

Next ==
  \/ \E r \in Requests : Commit(r)
  \/ \E r \in Requests, u \in Items :
       \/ \E e \in Epcs : \/ ImportRead(r, u, e) \/ MigrateRead(r, u, e)
                          \/ ReplaceRead(r, u, e) \/ AssignRead(r, u, e)
                          \/ ReleaseRead(r, u, e)
       \/ SaveRead(r, u)
       \/ \E i \in Issues, rel, keep \in BOOLEAN : MarkRead(r, u, i, rel, keep)
       \/ \E life \in {"ACTIVE", "PENDING"} : ResolveRead(r, u, life)
  \/ \E u \in Items :
       \/ ImportSku(u) \/ WriteOff(u) \/ DropTag(u) \/ SellSku(u)
       \/ \E exchange \in BOOLEAN : SellTag(u, exchange)
       \/ \E status \in {"RFID", "PENDING"} : TakeBack(u, status)
       \/ \E e \in Epcs \cup {NoEpc} : CreateLine(u, e) \/ PatchLine(u, e)

Spec == Init /\ [][Next]_vars

----------------------------------------------------------------------------
\* Every row, line, assignment and answer is one the code can write.
TypeOK ==
  /\ row \in [Items -> Rows] /\ line \in [Items -> Lines]
  /\ assigned \subseteq Assignments /\ orphaned \subseteq Assignments
  /\ out \subseteq Items /\ revived \subseteq Items
  /\ req \in [Requests -> {Idle} \cup Plain \cup Releasing \cup Marking \cup Resolving
                           \cup Answered]

\* One tag names one item: no two rows carry the same EPC and no two active
\* assignments do, however imports, migrations, replacements, saves and
\* assignments that looked for the EPC at the same time interleave.
TagOnOneItem ==
  \A e \in Epcs : /\ Cardinality(Holder(e)) <= 1
                  /\ Cardinality({a \in assigned : a.epc = e}) <= 1

\* An active assignment names the item that carries the tag, unless an action
\* of stock_actions, a second assignment of the line, or a release or an issue
\* that had not read it took the tag away: no sale, save or migration does.
AssignmentBacked ==
  \A a \in assigned : row[a.item].epc = a.epc \/ a \in orphaned

\* An item a customer has is not in stock again, unless assign_pending_epc,
\* resolve_issue or a mark_issue that had read it unsold put it there.
SoldStaysSold == \A u \in out : row[u].status = "SOLD" \/ u \in revived

\* The stock row a preload line saved is there as long as the line, and the
\* line was saved once: its state never goes back.
SavedLineKeepsItem == \A u \in Items : Saved(u) => Exists(u)

=============================================================================
