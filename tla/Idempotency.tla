----------------------------- MODULE Idempotency -----------------------------
(***************************************************************************)
(* The idempotency protocol of the mutating endpoints: IdempotencyService, *)
(* IdempotencyRepository, the unique constraint uq_idempotency and the     *)
(* exception handlers that record failures.  Each HTTP request is a        *)
(* process; one action is one database transaction, so that requests       *)
(* carrying the same key interleave at every commit.                       *)
(*                                                                         *)
(* The endpoint's own work is one commit (Apply) or a rollback (Reject):   *)
(* what the work does to the business tables is the matter of the other    *)
(* modules.  A stored response body is the record [kind, by]: who produced *)
(* it and whether it reports a result or an error.                         *)
(***************************************************************************)
EXTENDS Naturals

CONSTANTS
  Requests,   \* HTTP requests, retries of one another included
  Keys,       \* Idempotency-Key values under one (tenant, endpoint, method)
  Payloads,   \* request fingerprints
  Nobody,     \* the owner of a row that does not exist
  Faults,     \* which of "crash", "db" and "wipe" may happen
  MaxWipes    \* bound on the content wipes

ASSUME RequestsAssumption == Nobody \notin Requests
ASSUME FaultsAssumption == Faults \subseteq {"crash", "db", "wipe"}
ASSUME BoundAssumption == MaxWipes \in Nat

VARIABLES
  records,    \* Keys -> row of idempotency_records
  asked,      \* Requests -> the key and the fingerprint the client sent
  pc,         \* Requests -> where the handler is
  answer,     \* Requests -> the response the client received
  applied,    \* history: the requests whose business commit succeeded
  gen,        \* history: the generation of the row a request inserted, 0: none
  epoch       \* the current generation: 1 + the number of wipes

vars == <<records, asked, pc, answer, applied, gen, epoch>>

(***************************************************************************)
(* Rows and responses                                                      *)
(***************************************************************************)
Kinds == {"none", "result", "failure", "key_reused", "in_progress", "unrecorded"}
Answers == [kind : Kinds, by : Requests \cup {Nobody}]

NoAnswer   == [kind |-> "none", by |-> Nobody]
Result(r)  == [kind |-> "result", by |-> r]
Failure(r) == [kind |-> "failure", by |-> r]
KeyReused  == [kind |-> "key_reused", by |-> Nobody]
InProgress == [kind |-> "in_progress", by |-> Nobody]
Unrecorded == [kind |-> "unrecorded", by |-> Nobody]

States == {"absent", "in_progress", "succeeded", "failed"}
Rows == [owner : Requests \cup {Nobody}, hash : Payloads \cup {Nobody},
         state : States, response : Answers]

NoRow == [owner |-> Nobody, hash |-> Nobody, state |-> "absent", response |-> NoAnswer]

NewRow(r) == [owner |-> r, hash |-> asked[r].hash,
              state |-> "in_progress", response |-> NoAnswer]

Key(r) == asked[r].key

\* The UPDATE of record_success and record_failure is by primary key: it finds
\* the row only if it is still the one this request inserted.
Owns(r) == records[Key(r)].owner = r

Locations == {"start", "insert", "reread", "work", "committed", "recorded",
              "failing", "done", "crashed"}
Running == Locations \ {"start", "done", "crashed"}

TypeOK ==
  /\ records \in [Keys -> Rows]
  /\ asked \in [Requests -> [key : Keys, hash : Payloads]]
  /\ pc \in [Requests -> Locations]
  /\ answer \in [Requests -> Answers]
  /\ applied \in SUBSET Requests
  /\ gen \in [Requests -> Nat]
  /\ epoch \in Nat \ {0}

Init ==
  /\ records = [k \in Keys |-> NoRow]
  /\ asked \in [Requests -> [key : Keys, hash : Payloads]]
  /\ pc = [r \in Requests |-> "start"]
  /\ answer = [r \in Requests |-> NoAnswer]
  /\ applied = {}
  /\ gen = [r \in Requests |-> 0]
  /\ epoch = 1

Goto(r, from, to) ==
  /\ pc[r] = from
  /\ pc' = [pc EXCEPT ![r] = to]

Respond(r, from, a) ==
  /\ Goto(r, from, "done")
  /\ answer' = [answer EXCEPT ![r] = a]

(***************************************************************************)
(* IdempotencyService.start                                                *)
(***************************************************************************)

\* Bug: the payload is not compared.
StoredAnswerAnyPayload(row, hash) ==
  IF row.owner = Nobody \/ row.state = "in_progress" THEN InProgress ELSE row.response

\* _handle_existing: what a request learns from a row it did not insert.
StoredAnswer(row, hash) ==
  IF row.owner = Nobody THEN InProgress
  ELSE IF row.hash # hash THEN KeyReused
  ELSE IF row.state = "in_progress" THEN InProgress
  ELSE row.response

HandleExisting(r, from) ==
  Respond(r, from, StoredAnswer(records[Key(r)], asked[r].hash))

\* get_by_key found a row.
LookupHit(r) ==
  /\ records[Key(r)].owner # Nobody
  /\ HandleExisting(r, "start")
  /\ UNCHANGED <<records, asked, applied, gen, epoch>>

\* get_by_key found none: the request goes on to INSERT.
LookupMiss(r) ==
  /\ records[Key(r)].owner = Nobody
  /\ Goto(r, "start", "insert")
  /\ UNCHANGED <<records, asked, answer, applied, gen, epoch>>

\* Bugs: no unique constraint; a failed row does not count as existing.
InsertUnconstrained(r) ==
  /\ Goto(r, "insert", "work")
  /\ records' = [records EXCEPT ![Key(r)] = NewRow(r)]
  /\ gen' = [gen EXCEPT ![r] = epoch]
  /\ UNCHANGED <<asked, answer, applied, epoch>>
InsertOverFailed(r) ==
  /\ records[Key(r)].owner = Nobody \/ records[Key(r)].state = "failed"
  /\ InsertUnconstrained(r)

\* repo.create commits the row, unless uq_idempotency refuses it.
Insert(r) ==
  /\ records[Key(r)].owner = Nobody
  /\ Goto(r, "insert", "work")
  /\ records' = [records EXCEPT ![Key(r)] = NewRow(r)]
  /\ gen' = [gen EXCEPT ![r] = epoch]
  /\ UNCHANGED <<asked, answer, applied, epoch>>

\* Bug: the IntegrityError is swallowed and the work goes on.
InsertRefusedIgnored(r) ==
  /\ records[Key(r)].owner # Nobody
  /\ Goto(r, "insert", "work")
  /\ UNCHANGED <<records, asked, answer, applied, gen, epoch>>

InsertRefused(r) ==
  /\ records[Key(r)].owner # Nobody
  /\ Goto(r, "insert", "reread")
  /\ UNCHANGED <<records, asked, answer, applied, gen, epoch>>

\* After the IntegrityError: rollback, get_by_key again, _handle_existing.
Reread(r) ==
  /\ HandleExisting(r, "reread")
  /\ UNCHANGED <<records, asked, applied, gen, epoch>>

(***************************************************************************)
(* The endpoint's work and the recording of its outcome                    *)
(***************************************************************************)

\* db.commit() of the endpoint.
Apply(r) ==
  /\ Goto(r, "work", "committed")
  /\ applied' = applied \cup {r}
  /\ UNCHANGED <<records, asked, answer, gen, epoch>>

\* An AppError, a lock timeout or any other exception before that commit.
Reject(r) ==
  /\ Goto(r, "work", "failing")
  /\ UNCHANGED <<records, asked, answer, applied, gen, epoch>>

RecordSuccess(r) ==
  /\ Owns(r)
  /\ Goto(r, "committed", "recorded")
  /\ records' = [records EXCEPT ![Key(r)].state = "succeeded",
                                ![Key(r)].response = Result(r)]
  /\ UNCHANGED <<asked, answer, applied, gen, epoch>>

\* record_success raises: the row is gone (StaleDataError) or the database
\* fails.  The effect of the request is already committed.
RecordSuccessRaises(r) ==
  /\ ~Owns(r) \/ "db" \in Faults
  /\ Goto(r, "committed", "failing")
  /\ UNCHANGED <<records, asked, answer, applied, gen, epoch>>

\* The audit event is best effort; then the response leaves.
RespondSuccess(r) ==
  /\ Respond(r, "recorded", Result(r))
  /\ UNCHANGED <<records, asked, applied, gen, epoch>>

\* A database error after record_success (its refresh, the reload of the
\* expired current_user for the audit payload) reaches the exception handler.
RaiseAfterRecord(r) ==
  /\ "db" \in Faults
  /\ Goto(r, "recorded", "failing")
  /\ UNCHANGED <<records, asked, answer, applied, gen, epoch>>

\* Bug: the exception handler does not record the failure.
RecordFailureSkipped(r) ==
  /\ Owns(r)
  /\ Respond(r, "failing", Failure(r))
  /\ UNCHANGED <<records, asked, applied, gen, epoch>>

\* _record_idempotency_failure, then the error response.
RecordFailure(r) ==
  /\ Owns(r)
  /\ Respond(r, "failing", Failure(r))
  /\ records' = [records EXCEPT ![Key(r)].state = "failed",
                                ![Key(r)].response = Failure(r)]
  /\ UNCHANGED <<asked, applied, gen, epoch>>

\* Bug: the handler waits for a row that is gone.
RecordFailureWaits(r) ==
  /\ "db" \in Faults
  /\ Respond(r, "failing", Unrecorded)
  /\ UNCHANGED <<records, asked, applied, gen, epoch>>

\* The handler itself raises: a bare 500, and the row is left as it was.
RecordFailureRaises(r) ==
  /\ ~Owns(r) \/ "db" \in Faults
  /\ Respond(r, "failing", Unrecorded)
  /\ UNCHANGED <<records, asked, applied, gen, epoch>>

(***************************************************************************)
(* The environment                                                         *)
(***************************************************************************)

\* The worker process dies; the transaction in progress is rolled back.
Crash(r) ==
  /\ "crash" \in Faults
  /\ pc[r] \in Running
  /\ pc' = [pc EXCEPT ![r] = "crashed"]
  /\ UNCHANGED <<records, asked, answer, applied, gen, epoch>>

\* execute_tenant with delete_tenant_idempotency_records, while requests run.
WipeRecords ==
  /\ "wipe" \in Faults
  /\ epoch <= MaxWipes
  /\ records' = [k \in Keys |-> NoRow]
  /\ epoch' = epoch + 1
  /\ UNCHANGED <<asked, pc, answer, applied, gen>>

Serve(r) ==
  \/ LookupHit(r) \/ LookupMiss(r) \/ Insert(r) \/ InsertRefused(r) \/ Reread(r)
  \/ Apply(r) \/ Reject(r)
  \/ RecordSuccess(r) \/ RecordSuccessRaises(r)
  \/ RespondSuccess(r) \/ RaiseAfterRecord(r)
  \/ RecordFailure(r) \/ RecordFailureRaises(r)

Next ==
  \/ \E r \in Requests : Serve(r) \/ Crash(r)
  \/ WipeRecords

Spec == Init /\ [][Next]_vars

\* A worker that has taken a request runs it (asyncio schedules a ready task);
\* clients owe nothing, a request may never be sent.
FairSpec == Spec /\ \A r \in Requests : WF_vars(pc[r] # "start" /\ Serve(r))

(***************************************************************************)
(* Safety                                                                  *)
(***************************************************************************)

\* Of all the requests that carry one key, whatever their order, crashes and
\* retries, at most one commits its work for each generation of the key's row
\* (start inserts the row before any work and uq_idempotency admits one).
AtMostOneEffect ==
  \A r, s \in applied : Key(r) = Key(s) /\ gen[r] = gen[s] => r = s

\* A stored outcome is replayed only to requests with the key and the payload
\* of the one that produced it, and a result only if its work was committed:
\* no client is told of another payload's result or of work rolled back.
ReplayIsFaithful ==
  \A r \in Requests : answer[r].kind \in {"result", "failure"} =>
    /\ answer[r].by \in Requests
    /\ asked[answer[r].by] = asked[r]
    /\ answer[r].kind = "result" => answer[r].by \in applied

\* Work is committed only under a row the request inserted itself and whose
\* outcome is still open, unless a wipe has taken that row meanwhile: never
\* under a key that already answers, or that another request holds.
EffectUnderOpenRow ==
  [][\A r \in applied' \ applied :
       \/ 0 < gen[r] /\ gen[r] < epoch
       \/ Owns(r) /\ records[Key(r)].state = "in_progress"]_vars

\* A step never turns a stored outcome back: a row keeps its owner and its
\* fingerprint as long as it exists, a failed row stays failed, and no row
\* returns to in_progress under a request that has already been answered.
RowLifecycle ==
  [][\A k \in Keys :
       records[k].owner # Nobody /\ epoch' = epoch =>
         /\ records'[k].owner = records[k].owner
         /\ records'[k].hash = records[k].hash
         /\ records[k].state = "failed" => records'[k] = records[k]
         /\ records'[k].state = "in_progress" => records[k].state = "in_progress"]_vars

(***************************************************************************)
(* Liveness                                                                *)
(***************************************************************************)

\* Without a crash every request that reached the server is answered, the
\* losers of the race for the unique constraint included.
EveryRequestAnswered ==
  \A r \in Requests : pc[r] \in Running ~> pc[r] = "done"

\* No row is left in_progress for ever: the integrity script fails the
\* deployment if one is.
NoRowStaysInProgress ==
  \A k \in Keys : records[k].state = "in_progress" ~> records[k].state # "in_progress"

(***************************************************************************)
(* The protocol implements the promise of AtMostOnce: the owner of the row *)
(* is the claimant of the key, and the ticket lasts while the work runs.   *)
(***************************************************************************)
Promise == INSTANCE AtMostOnce WITH
  claim <- [k \in Keys |-> records[k].owner],
  tickets <- {r \in Requests : pc[r] = "work"}

\* Every behaviour of the handlers is one of AtMostOnce.
ImplementsAtMostOnce == Promise!Spec
=============================================================================
