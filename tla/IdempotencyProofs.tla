-------------------------- MODULE IdempotencyProofs --------------------------
(***************************************************************************)
(* The safety of the idempotency protocol for any number of requests, keys *)
(* and payloads, with crashes, database errors and wipes.                  *)
(***************************************************************************)
EXTENDS Idempotency, TLAPS

(***************************************************************************)
(* The inductive invariant.                                                *)
(***************************************************************************)

\* A row is held by the request that inserted it in the current generation,
\* and keeps what that request asked.
RowsHeld ==
  \A k \in Keys : records[k].owner # Nobody =>
    /\ records[k].owner \in Requests
    /\ Key(records[k].owner) = k
    /\ gen[records[k].owner] = epoch
    /\ records[k].hash = asked[records[k].owner].hash

\* Who inserted a row in the current generation still holds it, and nobody is
\* ahead of the current generation.
HoldersStand ==
  \A r \in Requests : gen[r] <= epoch /\ (gen[r] = epoch => Owns(r))

\* A request gets past start only by inserting, and commits only past it.
PastStart ==
  \A r \in Requests :
    /\ pc[r] \in {"work", "committed", "recorded", "failing"} => gen[r] # 0
    /\ pc[r] \in {"committed", "recorded"} => r \in applied
    /\ r \in applied => gen[r] # 0

\* Two requests with one key never inserted in the same generation.
OneInsertion ==
  \A r, s \in Requests :
    gen[r] # 0 /\ gen[r] = gen[s] /\ Key(r) = Key(s) => r = s

\* What a row stores, according to its state.
RowsStore ==
  \A k \in Keys : records[k].owner # Nobody =>
    /\ records[k].state # "absent"
    /\ records[k].state = "succeeded" =>
         records[k].response = Result(records[k].owner) /\ records[k].owner \in applied
    /\ records[k].state = "failed" =>
         records[k].response = Failure(records[k].owner)
    /\ pc[records[k].owner] = "work" => records[k].state = "in_progress"

\* What the answers say, ReplayIsFaithful, follows from the rest at each step
\* that answers.
Core ==
  TypeOK /\ RowsHeld /\ HoldersStand /\ PastStart /\ OneInsertion /\ RowsStore

IInv == Core /\ ReplayIsFaithful

\* The states the program starts in are typed and satisfy the invariant.
LEMMA InitIInv == Init => IInv
  BY RequestsAssumption
  DEF Init, IInv, Core, TypeOK, RowsHeld, HoldersStand, PastStart, OneInsertion, RowsStore,
      ReplayIsFaithful, NoRow, NoAnswer, Rows, Answers, Kinds, States, Locations, Owns, Key

\* A request answered from a row it did not insert is answered faithfully.
LEMMA StoredAnswerFaithful ==
  ASSUME IInv, NEW r \in Requests
  PROVE  LET a == StoredAnswer(records[Key(r)], asked[r].hash)
         IN  /\ a \in Answers
             /\ a.kind \in {"result", "failure"} =>
                  /\ a.by \in Requests
                  /\ asked[a.by] = asked[r]
                  /\ a.kind = "result" => a.by \in applied
  <1> DEFINE row == records[Key(r)]
  <1>1. Key(r) \in Keys /\ row \in Rows
    BY DEF IInv, Core, TypeOK, Key
  <1>2. InProgress \in Answers /\ KeyReused \in Answers
    BY DEF InProgress, KeyReused, Answers, Kinds
  <1>3. CASE row.owner = Nobody \/ row.hash # asked[r].hash \/ row.state = "in_progress"
    BY <1>1, <1>2, <1>3 DEF StoredAnswer, InProgress, KeyReused
  <1>4. CASE row.owner # Nobody /\ row.hash = asked[r].hash /\ row.state # "in_progress"
    <2>1. row.owner \in Requests /\ asked[row.owner] = asked[r]
      <3>1. /\ row.owner \in Requests
            /\ asked[row.owner].key = asked[r].key
            /\ asked[row.owner].hash = asked[r].hash
        BY <1>1, <1>4 DEF IInv, Core, RowsHeld, Key
      <3>2. asked[row.owner] \in [key : Keys, hash : Payloads]
            /\ asked[r] \in [key : Keys, hash : Payloads]
        BY <3>1 DEF IInv, Core, TypeOK
      <3> HIDE DEF row
      <3> QED
        BY <3>1, <3>2
    <2>2. \/ row.response = Result(row.owner) /\ row.owner \in applied
          \/ row.response = Failure(row.owner)
      BY <1>1, <1>4 DEF IInv, Core, RowsStore, Rows, States
    <2>3. StoredAnswer(row, asked[r].hash) = row.response
      BY <1>4 DEF StoredAnswer
    <2>4. row.response \in Answers
      BY <1>1 DEF Rows
    <2> QED
      BY <2>1, <2>2, <2>3, <2>4 DEF Result, Failure
  <1> QED
    BY <1>3, <1>4

\* Types and responses used throughout.
LEMMA AnswerTypes ==
  ASSUME NEW r \in Requests
  PROVE  /\ Result(r) \in Answers
         /\ Failure(r) \in Answers
         /\ Unrecorded \in Answers
         /\ NoAnswer \in Answers
  BY DEF Result, Failure, Unrecorded, NoAnswer, Answers, Kinds

\* A step that only moves r from one place to another keeps the core.
LEMMA MoveCore ==
  ASSUME Core, NEW r \in Requests,
         NEW from \in Locations, NEW to \in Locations,
         Goto(r, from, to),
         to = "work" => from = "work",
         to \in {"committed", "recorded", "failing"} =>
           from \in {"work", "committed", "recorded", "failing"},
         to \in {"committed", "recorded"} => r \in applied',
         applied' = applied \/ (applied' = applied \cup {r} /\ gen[r] # 0),
         answer' \in [Requests -> Answers],
         UNCHANGED <<records, asked, gen, epoch>>
  PROVE  Core'
  <1>1. TypeOK'
    BY DEF Core, TypeOK, Goto
  <1>2. RowsHeld' /\ HoldersStand' /\ OneInsertion'
    BY DEF Core, TypeOK, RowsHeld, HoldersStand, OneInsertion, Owns, Key
  <1>3. PastStart'
    BY DEF Core, TypeOK, PastStart, Goto
  <1>4. RowsStore'
    BY DEF Core, TypeOK, RowsHeld, RowsStore, Goto
  <1> QED
    BY <1>1, <1>2, <1>3, <1>4 DEF Core

\* A response to r that says no more than the core allows stays faithful, and
\* so do the responses already given: committed work stays committed.
LEMMA RespondFaithful ==
  ASSUME IInv, NEW r \in Requests, NEW from, NEW a \in Answers,
         Respond(r, from, a),
         a.kind \in {"result", "failure"} =>
           /\ a.by \in Requests
           /\ asked[a.by] = asked[r]
           /\ a.kind = "result" => a.by \in applied,
         UNCHANGED <<asked, applied>>
  PROVE  ReplayIsFaithful' /\ answer' \in [Requests -> Answers]
  <1>1. answer \in [Requests -> Answers]
    BY DEF IInv, Core, TypeOK
  <1>2. answer' = [answer EXCEPT ![r] = a]
    BY DEF Respond
  <1>3. ASSUME NEW s \in Requests, answer'[s].kind \in {"result", "failure"}
        PROVE  /\ answer'[s].by \in Requests
               /\ asked'[answer'[s].by] = asked'[s]
               /\ answer'[s].kind = "result" => answer'[s].by \in applied'
    <2>1. CASE s = r
      BY <1>1, <1>2, <1>3, <2>1
    <2>2. CASE s # r
      <3>1. answer'[s] = answer[s]
        BY <1>1, <1>2, <2>2
      <3> QED
        BY <1>3, <3>1 DEF IInv, ReplayIsFaithful
    <2> QED
      BY <2>1, <2>2
  <1> QED
    BY <1>1, <1>2, <1>3 DEF ReplayIsFaithful

\* Steps that give no answer keep the given ones faithful.
LEMMA SilentFaithful ==
  ASSUME IInv, applied \subseteq applied', UNCHANGED <<asked, answer>>
  PROVE  ReplayIsFaithful'
  BY DEF IInv, ReplayIsFaithful

\* r settles the row it holds: what record_success and record_failure write.
Settled(r, state, response) ==
  /\ Owns(r)
  /\ records' = [records EXCEPT ![Key(r)].state = state, ![Key(r)].response = response]

LEMMA SettledCore ==
  ASSUME Core, NEW r \in Requests, NEW to \in {"recorded", "done"},
         NEW state \in {"succeeded", "failed"}, NEW response \in Answers,
         Settled(r, state, response),
         state = "succeeded" => response = Result(r) /\ r \in applied,
         state = "failed" => response = Failure(r),
         pc' = [pc EXCEPT ![r] = to],
         answer' \in [Requests -> Answers],
         UNCHANGED <<asked, applied, gen, epoch>>
  PROVE  TypeOK' /\ RowsHeld' /\ HoldersStand' /\ RowsStore'
  <1>1. TypeOK /\ Key(r) \in Keys /\ records[Key(r)] \in Rows /\ records[Key(r)].owner = r
    BY DEF Core, TypeOK, Key, Settled, Owns
  <1>2. /\ records'[Key(r)] = [owner |-> r, hash |-> records[Key(r)].hash,
                               state |-> state, response |-> response]
        /\ \A k \in Keys \ {Key(r)} : records'[k] = records[k]
        /\ records' \in [Keys -> Rows]
    BY <1>1 DEF TypeOK, Settled, Rows, States
  <1>3. TypeOK'
    BY <1>1, <1>2 DEF TypeOK, Locations
  <1>4. \A k \in Keys : records'[k].owner = records[k].owner /\ records'[k].hash = records[k].hash
    BY <1>1, <1>2
  <1>5. RowsHeld' /\ HoldersStand'
    BY <1>1, <1>4 DEF Core, TypeOK, RowsHeld, HoldersStand, Owns, Key
  <1>6. RowsStore'
    <2> SUFFICES ASSUME NEW k \in Keys, records'[k].owner # Nobody
                 PROVE  RowsStore!(k)!2'
      BY DEF RowsStore
    <2>1. CASE k = Key(r)
      BY <1>1, <1>2, <2>1 DEF TypeOK, Rows, States, Locations
    <2>2. CASE k # Key(r)
      <3>1. records'[k] = records[k] /\ records[k].owner \in Requests \ {r}
        BY <1>1, <1>2, <2>2 DEF Core, RowsHeld
      <3> QED
        BY <1>1, <3>1 DEF Core, TypeOK, RowsStore
    <2> QED
      BY <2>1, <2>2
  <1> QED
    BY <1>3, <1>5, <1>6

\* Every step of a handler preserves the invariant.
LEMMA ServeIInv ==
  ASSUME IInv, NEW r \in Requests, Serve(r)
  PROVE  IInv'
  <1> USE DEF Locations
  <1>c. Core /\ TypeOK
    BY DEF IInv, Core
  <1>a. Result(r) \in Answers /\ Failure(r) \in Answers /\ Unrecorded \in Answers
    BY AnswerTypes
  <1>1. CASE LookupHit(r)
    <2>1. Respond(r, "start", StoredAnswer(records[Key(r)], asked[r].hash))
      BY <1>1 DEF LookupHit, HandleExisting
    <2>2. ReplayIsFaithful' /\ answer' \in [Requests -> Answers]
      BY <1>1, <2>1, StoredAnswerFaithful, RespondFaithful DEF LookupHit
    <2> QED
      BY <1>1, <1>c, <2>1, <2>2, MoveCore DEF LookupHit, Respond, IInv
  <1>2. CASE LookupMiss(r)
    BY <1>2, <1>c, MoveCore, SilentFaithful DEF LookupMiss, IInv, TypeOK
  <1>3. CASE Insert(r)
    <2>1. /\ records[Key(r)].owner = Nobody
          /\ Key(r) \in Keys
          /\ records' = [records EXCEPT ![Key(r)] = NewRow(r)]
          /\ gen' = [gen EXCEPT ![r] = epoch]
          /\ pc' = [pc EXCEPT ![r] = "work"]
          /\ UNCHANGED <<asked, answer, applied, epoch>>
      BY <1>3, <1>c DEF Insert, Goto, TypeOK, Key
    <2>2. /\ NewRow(r) \in Rows
          /\ NewRow(r).owner = r
          /\ NewRow(r).hash = asked[r].hash
          /\ NewRow(r).state = "in_progress"
      BY <1>c, AnswerTypes DEF NewRow, Rows, States, TypeOK
    <2>3. \A s \in Requests : gen[s] = epoch => Key(s) # Key(r)
      BY <1>c, <2>1, RequestsAssumption DEF Core, HoldersStand, Owns
    <2>4. TypeOK'
      BY <1>c, <2>1, <2>2 DEF TypeOK
    <2>5. RowsHeld'
      BY <1>c, <2>1, <2>2, <2>3 DEF Core, TypeOK, RowsHeld, Key
    <2>6. HoldersStand'
      BY <1>c, <2>1, <2>2, <2>3 DEF Core, TypeOK, HoldersStand, Owns, Key
    <2>7. PastStart'
      BY <1>c, <2>1 DEF Core, TypeOK, PastStart
    <2>8. OneInsertion'
      BY <1>c, <2>1, <2>3 DEF Core, TypeOK, OneInsertion, Key
    <2>9. RowsStore'
      BY <1>c, <2>1, <2>2, <2>3 DEF Core, TypeOK, RowsHeld, RowsStore
    <2> QED
      BY <2>1, <2>4, <2>5, <2>6, <2>7, <2>8, <2>9, SilentFaithful DEF IInv, Core
  <1>4. CASE InsertRefused(r)
    BY <1>4, <1>c, MoveCore, SilentFaithful DEF InsertRefused, IInv, TypeOK
  <1>5. CASE Reread(r)
    <2>1. Respond(r, "reread", StoredAnswer(records[Key(r)], asked[r].hash))
      BY <1>5 DEF Reread, HandleExisting
    <2>2. ReplayIsFaithful' /\ answer' \in [Requests -> Answers]
      BY <1>5, <2>1, StoredAnswerFaithful, RespondFaithful DEF Reread
    <2> QED
      BY <1>5, <1>c, <2>1, <2>2, MoveCore DEF Reread, Respond, IInv
  <1>6. CASE Apply(r)
    <2>1. gen[r] # 0
      BY <1>6, <1>c DEF Core, PastStart, Apply, Goto
    <2> QED
      BY <1>6, <1>c, <2>1, MoveCore, SilentFaithful DEF Apply, IInv, TypeOK
  <1>7. CASE Reject(r)
    BY <1>7, <1>c, MoveCore, SilentFaithful DEF Reject, IInv, TypeOK
  <1>8. CASE RecordSuccess(r)
    <2>1. /\ pc[r] = "committed"
          /\ pc' = [pc EXCEPT ![r] = "recorded"]
          /\ Settled(r, "succeeded", Result(r))
          /\ UNCHANGED <<asked, answer, applied, gen, epoch>>
      BY <1>8 DEF RecordSuccess, Goto, Settled
    <2>2. r \in applied
      BY <1>c, <2>1 DEF Core, PastStart
    <2>3. TypeOK' /\ RowsHeld' /\ HoldersStand' /\ RowsStore'
      BY <1>a, <1>c, <2>1, <2>2, SettledCore DEF TypeOK
    <2>4. PastStart' /\ OneInsertion'
      BY <1>c, <2>1, <2>2 DEF Core, TypeOK, PastStart, OneInsertion, Key
    <2> QED
      BY <2>1, <2>3, <2>4, SilentFaithful DEF IInv, Core
  <1>9. CASE RecordSuccessRaises(r)
    BY <1>9, <1>c, MoveCore, SilentFaithful DEF RecordSuccessRaises, IInv, TypeOK
  <1>10. CASE RespondSuccess(r)
    <2>1. Respond(r, "recorded", Result(r)) /\ r \in applied
      BY <1>10, <1>c DEF RespondSuccess, Respond, Goto, Core, PastStart
    <2>2. ReplayIsFaithful' /\ answer' \in [Requests -> Answers]
      BY <1>10, <1>a, <2>1, RespondFaithful DEF RespondSuccess, Result
    <2> QED
      BY <1>10, <1>c, <2>1, <2>2, MoveCore DEF RespondSuccess, Respond, IInv
  <1>11. CASE RaiseAfterRecord(r)
    BY <1>11, <1>c, MoveCore, SilentFaithful DEF RaiseAfterRecord, IInv, TypeOK
  <1>12. CASE RecordFailure(r)
    <2>1. /\ pc[r] = "failing"
          /\ pc' = [pc EXCEPT ![r] = "done"]
          /\ Respond(r, "failing", Failure(r))
          /\ Settled(r, "failed", Failure(r))
          /\ UNCHANGED <<asked, applied, gen, epoch>>
      BY <1>12 DEF RecordFailure, Respond, Goto, Settled
    <2>2. ReplayIsFaithful' /\ answer' \in [Requests -> Answers]
      BY <1>a, <2>1, RespondFaithful DEF Failure
    <2>3. TypeOK' /\ RowsHeld' /\ HoldersStand' /\ RowsStore'
      BY <1>a, <1>c, <2>1, <2>2, SettledCore
    <2>4. PastStart' /\ OneInsertion'
      BY <1>c, <2>1 DEF Core, TypeOK, PastStart, OneInsertion, Key
    <2> QED
      BY <2>2, <2>3, <2>4 DEF IInv, Core
  <1>13. CASE RecordFailureRaises(r)
    <2>1. Respond(r, "failing", Unrecorded)
      BY <1>13 DEF RecordFailureRaises
    <2>2. ReplayIsFaithful' /\ answer' \in [Requests -> Answers]
      BY <1>13, <1>a, <2>1, RespondFaithful DEF RecordFailureRaises, Unrecorded
    <2> QED
      BY <1>13, <1>c, <2>1, <2>2, MoveCore DEF RecordFailureRaises, Respond, IInv
  <1> QED
    BY <1>1, <1>2, <1>3, <1>4, <1>5, <1>6, <1>7, <1>8, <1>9, <1>10, <1>11, <1>12, <1>13
    DEF Serve

\* So do a crash and a wipe.
LEMMA CrashIInv ==
  ASSUME IInv, NEW r \in Requests, Crash(r)
  PROVE  IInv'
  <1>1. TypeOK'
    BY DEF Crash, IInv, Core, TypeOK, Locations
  <1>2. RowsHeld' /\ HoldersStand' /\ OneInsertion' /\ PastStart' /\ RowsStore'
    BY DEF Crash, IInv, Core, TypeOK, RowsHeld, HoldersStand, OneInsertion, PastStart,
           RowsStore, Owns, Key
  <1> QED
    BY <1>1, <1>2, SilentFaithful DEF Crash, IInv, Core

LEMMA WipeIInv ==
  ASSUME IInv, WipeRecords
  PROVE  IInv'
  <1>1. TypeOK'
    BY AnswerTypes DEF WipeRecords, IInv, Core, TypeOK, NoRow, NoAnswer, Rows, States,
                       Answers, Kinds
  <1>2. RowsHeld' /\ RowsStore'
    BY DEF WipeRecords, RowsHeld, RowsStore, NoRow
  <1>3. HoldersStand' /\ OneInsertion' /\ PastStart'
    BY DEF WipeRecords, IInv, Core, TypeOK, HoldersStand, OneInsertion, PastStart, Key
  <1> QED
    BY <1>1, <1>2, <1>3, SilentFaithful DEF WipeRecords, IInv, Core

LEMMA NextIInv == IInv /\ [Next]_vars => IInv'
  <1> SUFFICES ASSUME IInv, [Next]_vars PROVE IInv'
    OBVIOUS
  <1>1. CASE UNCHANGED vars
    BY <1>1 DEF vars, IInv, Core, TypeOK, RowsHeld, HoldersStand, PastStart, OneInsertion,
                RowsStore, ReplayIsFaithful, Owns, Key
  <1>2. CASE Next
    BY <1>2, ServeIInv, CrashIInv, WipeIInv DEF Next
  <1> QED
    BY <1>1, <1>2

\* IInv is an invariant of the protocol.
THEOREM SpecIInv == Spec => []IInv
  BY InitIInv, NextIInv, PTL DEF Spec

\* The variables keep their types.
THEOREM SpecTypeOK == Spec => []TypeOK
  <1>1. IInv => TypeOK
    BY DEF IInv, Core
  <1> QED
    BY <1>1, SpecIInv, PTL

\* At most one request per key and generation of its row has an effect.
THEOREM SpecAtMostOneEffect == Spec => []AtMostOneEffect
  <1>1. IInv => AtMostOneEffect
    BY DEF IInv, Core, TypeOK, PastStart, OneInsertion, AtMostOneEffect
  <1> QED
    BY <1>1, SpecIInv, PTL

\* Replays are faithful: same key, same payload, and results were committed.
THEOREM SpecReplayIsFaithful == Spec => []ReplayIsFaithful
  <1>1. IInv => ReplayIsFaithful
    BY DEF IInv
  <1> QED
    BY <1>1, SpecIInv, PTL

\* Work is committed only under an open row of the request's own.
THEOREM SpecEffectUnderOpenRow == Spec => EffectUnderOpenRow
  <1>1. ASSUME IInv, Next, NEW r \in applied' \ applied
        PROVE  (0 < gen[r] /\ gen[r] < epoch) \/ (Owns(r) /\ records[Key(r)].state = "in_progress")
    <2>1. r \in Requests /\ Apply(r)
      <3>1. PICK q \in Requests : Serve(q) \/ Crash(q) \/ WipeRecords
        BY <1>1 DEF Next, WipeRecords
      <3> QED
        BY <1>1, <3>1 DEF Serve, Crash, WipeRecords, LookupHit, LookupMiss, Insert,
             InsertRefused, Reread, Apply, Reject, RecordSuccess, RecordSuccessRaises,
             RespondSuccess, RaiseAfterRecord, RecordFailure, RecordFailureRaises
    <2>2. CASE gen[r] = epoch
      <3>1. Owns(r) /\ pc[r] = "work" /\ Key(r) \in Keys
        BY <1>1, <2>1, <2>2 DEF IInv, Core, HoldersStand, Apply, Goto, TypeOK, Key
      <3> QED
        BY <1>1, <2>1, <3>1, RequestsAssumption DEF IInv, Core, RowsStore, Owns
    <2>3. 0 < gen[r] /\ gen[r] <= epoch
      BY <1>1, <2>1 DEF IInv, Core, TypeOK, HoldersStand, PastStart, Apply, Goto
    <2>4. gen[r] \in Nat /\ epoch \in Nat
      BY <1>1, <2>1 DEF IInv, Core, TypeOK
    <2> QED
      BY <2>2, <2>3, <2>4
  <1>2. IInv /\ [Next]_vars =>
          [\A r \in applied' \ applied :
             \/ 0 < gen[r] /\ gen[r] < epoch
             \/ Owns(r) /\ records[Key(r)].state = "in_progress"]_vars
    BY <1>1
  <1> QED
    BY <1>2, SpecIInv, PTL DEF Spec, EffectUnderOpenRow
(***************************************************************************)
(* The life of a row.                                                      *)
(***************************************************************************)

\* A request is answered when it is done and not before, and the row of a
\* failure is stored with its owner's answer.
AnsweredWhenDone ==
  /\ \A r \in Requests : pc[r] # "done" => answer[r].kind = "none"
  /\ \A k \in Keys : records[k].owner # Nobody /\ records[k].state = "failed" =>
       pc[records[k].owner] = "done"

\* What a step of a handler does to the row of its key: nothing, an insertion
\* where there was none, or an outcome that is written where it is due.
Writes(r) ==
  \/ UNCHANGED records
  \/ /\ records[Key(r)].owner = Nobody
     /\ pc' = [pc EXCEPT ![r] = "work"]
     /\ records' = [records EXCEPT ![Key(r)] = NewRow(r)]
  \/ /\ pc[r] = "committed"
     /\ Settled(r, "succeeded", Result(r))
  \/ /\ pc[r] = "failing" /\ pc' = [pc EXCEPT ![r] = "done"]
     /\ Settled(r, "failed", Failure(r))

\* Every step of a handler is of one of these shapes.
LEMMA ServeShapes ==
  ASSUME NEW r \in Requests, Serve(r)
  PROVE  /\ Writes(r)
         /\ UNCHANGED <<asked, epoch>>
         /\ pc[r] # "done"
         /\ \/ /\ \E to \in Locations \ {"done"} : pc' = [pc EXCEPT ![r] = to]
               /\ UNCHANGED answer
            \/ /\ pc' = [pc EXCEPT ![r] = "done"]
               /\ \E a : answer' = [answer EXCEPT ![r] = a]
  <1> USE DEF Writes, Locations, Goto, Respond
  <1>1. CASE LookupHit(r) \/ Reread(r)
    BY <1>1 DEF LookupHit, Reread, HandleExisting
  <1>2. CASE LookupMiss(r) \/ InsertRefused(r) \/ Apply(r) \/ Reject(r)
             \/ RecordSuccessRaises(r) \/ RaiseAfterRecord(r)
    BY <1>2 DEF LookupMiss, InsertRefused, Apply, Reject, RecordSuccessRaises, RaiseAfterRecord
  <1>3. CASE Insert(r)
    BY <1>3 DEF Insert
  <1>4. CASE RecordSuccess(r)
    BY <1>4 DEF RecordSuccess, Settled
  <1>5. CASE RespondSuccess(r) \/ RecordFailureRaises(r)
    BY <1>5 DEF RespondSuccess, RecordFailureRaises
  <1>6. CASE RecordFailure(r)
    BY <1>6 DEF RecordFailure, Settled
  <1> QED
    BY <1>1, <1>2, <1>3, <1>4, <1>5, <1>6 DEF Serve

\* What a step writes, row by row.
LEMMA WritesRows ==
  ASSUME IInv, NEW r \in Requests, Writes(r), UNCHANGED asked, NEW k \in Keys
  PROVE  \/ records'[k] = records[k]
         \/ /\ k = Key(r) /\ records[k].owner = Nobody
            /\ records'[k] = NewRow(r) /\ pc' = [pc EXCEPT ![r] = "work"]
         \/ /\ k = Key(r) /\ records[k].owner = r
            /\ records'[k].owner = r /\ records'[k].hash = records[k].hash
            /\ \/ pc[r] = "committed" /\ records'[k].state = "succeeded"
               \/ /\ pc[r] = "failing" /\ pc' = [pc EXCEPT ![r] = "done"]
                  /\ records'[k].state = "failed"
  <1>1. records \in [Keys -> Rows] /\ Key(r) \in Keys
    BY DEF IInv, Core, TypeOK, Key
  <1>2. CASE UNCHANGED records
    BY <1>2
  <1>3. CASE /\ records[Key(r)].owner = Nobody
             /\ pc' = [pc EXCEPT ![r] = "work"]
             /\ records' = [records EXCEPT ![Key(r)] = NewRow(r)]
    BY <1>1, <1>3
  <1>4. ASSUME NEW s, NEW a, Settled(r, s, a)
        PROVE  \/ records'[k] = records[k]
               \/ /\ k = Key(r) /\ records[k].owner = r
                  /\ records'[k].owner = r /\ records'[k].hash = records[k].hash
                  /\ records'[k].state = s
    BY <1>1, <1>4 DEF Settled, Owns, Rows
  <1> QED
    BY <1>2, <1>3, <1>4 DEF Writes

\* Every step keeps the answers with the done.
LEMMA NextAnsweredWhenDone ==
  ASSUME IInv, AnsweredWhenDone, [Next]_vars
  PROVE  AnsweredWhenDone'
  <1>t. TypeOK
    BY DEF IInv, Core
  <1>h. \A k \in Keys : records[k].owner # Nobody => records[k].owner \in Requests
    BY DEF IInv, Core, RowsHeld
  <1>1. CASE UNCHANGED vars
    BY <1>1 DEF vars, AnsweredWhenDone
  <1>2. ASSUME NEW r \in Requests, Serve(r)
        PROVE  AnsweredWhenDone'
    <2>1. /\ Writes(r) /\ UNCHANGED <<asked, epoch>> /\ pc[r] # "done"
          /\ \/ /\ \E to \in Locations \ {"done"} : pc' = [pc EXCEPT ![r] = to]
                /\ UNCHANGED answer
             \/ /\ pc' = [pc EXCEPT ![r] = "done"]
                /\ \E a : answer' = [answer EXCEPT ![r] = a]
      BY <1>2, ServeShapes
    <2>2. \A s \in Requests : pc'[s] # "done" => answer'[s].kind = "none"
      BY <1>t, <2>1 DEF AnsweredWhenDone, TypeOK
    <2>3. ASSUME NEW k \in Keys, records'[k].owner # Nobody, records'[k].state = "failed"
          PROVE  pc'[records'[k].owner] = "done"
      <3>1. CASE records'[k] = records[k]
        BY <1>t, <1>h, <2>1, <2>3, <3>1 DEF AnsweredWhenDone, TypeOK
      <3>2. CASE records'[k] = NewRow(r)
        BY <2>3, <3>2 DEF NewRow
      <3>3. CASE records'[k].owner = r /\ pc' = [pc EXCEPT ![r] = "done"]
        BY <1>t, <3>3 DEF TypeOK
      <3> QED
        BY <2>1, <2>3, <3>1, <3>2, <3>3, WritesRows
    <2> QED
      BY <2>2, <2>3 DEF AnsweredWhenDone
  <1>3. ASSUME NEW r \in Requests, Crash(r)
        PROVE  AnsweredWhenDone'
    BY <1>t, <1>h, <1>3 DEF Crash, Running, AnsweredWhenDone, TypeOK
  <1>4. CASE WipeRecords
    BY <1>4 DEF WipeRecords, AnsweredWhenDone, NoRow
  <1> QED
    BY <1>1, <1>2, <1>3, <1>4 DEF Next

\* Requests are answered when they are done, in every reachable state.
LEMMA SpecAnsweredWhenDone == Spec => [](IInv /\ AnsweredWhenDone)
  <1>1. Init => AnsweredWhenDone
    BY DEF Init, AnsweredWhenDone, NoAnswer, NoRow
  <1> QED
    BY <1>1, InitIInv, NextIInv, NextAnsweredWhenDone, PTL DEF Spec

\* No step turns a stored outcome back, or takes a row from its owner: it is
\* written by the owner alone, while a success may still become a failure and
\* a failure is stored with the owner's answer, after which it takes no step.
THEOREM SpecRowLifecycle == Spec => RowLifecycle
  <1> DEFINE Keeps(k) ==
        /\ records'[k].owner = records[k].owner
        /\ records'[k].hash = records[k].hash
        /\ records[k].state = "failed" => records'[k] = records[k]
        /\ records'[k].state = "in_progress" => records[k].state = "in_progress"
  <1>1. ASSUME IInv, AnsweredWhenDone, Next, NEW k \in Keys,
               records[k].owner # Nobody, epoch' = epoch
        PROVE  Keeps(k)
    <2>1. ASSUME NEW r \in Requests, Serve(r)
          PROVE  Keeps(k)
      <3>1. Writes(r) /\ UNCHANGED asked
        BY <2>1, ServeShapes
      <3>2. records[k].owner = r /\ records[k].state = "failed" => pc[r] = "done"
        BY <1>1 DEF AnsweredWhenDone
      <3> QED
        BY <1>1, <3>1, <3>2, WritesRows
    <2>2. CASE \E r \in Requests : Crash(r)
      BY <2>2 DEF Crash
    <2>3. ~WipeRecords
      BY <1>1 DEF WipeRecords, IInv, Core, TypeOK
    <2> QED
      BY <1>1, <2>1, <2>2, <2>3 DEF Next
  <1>2. IInv /\ AnsweredWhenDone /\ [Next]_vars =>
          [\A k \in Keys : records[k].owner # Nobody /\ epoch' = epoch => Keeps(k)]_vars
    BY <1>1
  <1> QED
    BY <1>2, SpecAnsweredWhenDone, PTL DEF Spec, RowLifecycle
(***************************************************************************)
(* The handlers implement the promise of AtMostOnce.                       *)
(***************************************************************************)
Claims == [k \in Keys |-> records[k].owner]
Tickets == {r \in Requests : pc[r] = "work"}

\* What an answer that the protocol stores says may be reported: a failure is
\* stored by a request that is done, and so has no ticket.
LEMMA StoredAnswerReportable ==
  ASSUME IInv, AnsweredWhenDone, NEW r \in Requests
  PROVE  LET a == StoredAnswer(records[Key(r)], asked[r].hash)
         IN  a.kind # "none" /\ Promise!Reportable(r, a)
  <1> DEFINE row == records[Key(r)]
             a == StoredAnswer(row, asked[r].hash)
  <1>1. Key(r) \in Keys /\ row \in Rows
    BY DEF IInv, Core, TypeOK, Key
  <1>2. a = InProgress \/ a = KeyReused
        \/ /\ row.owner # Nobody
           /\ \/ a = Result(row.owner)
              \/ a = Failure(row.owner) /\ pc[row.owner] = "done"
    BY <1>1 DEF StoredAnswer, IInv, Core, RowsStore, AnsweredWhenDone, Rows, States
  <1>3. a.kind \in {"result", "failure"} =>
          /\ a.by \in Requests
          /\ asked[a.by] = asked[r]
          /\ a.kind = "result" => a.by \in applied
    BY StoredAnswerFaithful
  <1> HIDE DEF a, row
  <1>4. a = InProgress \/ a = KeyReused => a.kind # "none" /\ Promise!Reportable(r, a)
    BY DEF InProgress, KeyReused, Promise!Reportable
  <1>5. row.owner # Nobody /\ a = Result(row.owner) =>
          a.kind # "none" /\ Promise!Reportable(r, a)
    BY <1>3 DEF Result, Promise!Reportable
  <1>6. row.owner # Nobody /\ a = Failure(row.owner) /\ pc[row.owner] = "done" =>
          a.kind # "none" /\ Promise!Reportable(r, a)
    BY <1>3 DEF Failure, Promise!Reportable
  <1>7. a.kind # "none" /\ Promise!Reportable(r, a)
    BY <1>2, <1>4, <1>5, <1>6
  <1> QED
    BY <1>7 DEF a, row

\* The initial states map to initial states.
LEMMA InitPromise == Init => Promise!Init
  BY DEF Init, Promise!Init, Promise!Unanswered, NoAnswer, NoRow

\* An answer to a request that holds no ticket is a Reply.
LEMMA RespondPromise ==
  ASSUME IInv, AnsweredWhenDone, NEW r \in Requests, NEW from \in {"start", "reread", "recorded", "failing"},
         NEW a, Respond(r, from, a), Promise!Reportable(r, a), a.kind # "none",
         \A k \in Keys : records'[k].owner = records[k].owner,
         UNCHANGED <<asked, applied>>
  PROVE  Promise!Reply(r)
  <1>1. TypeOK
    BY DEF IInv, Core
  <1>2. answer' = [answer EXCEPT ![r] = a] /\ answer'[r] = a
    BY <1>1 DEF Respond, TypeOK
  <1>3. Promise!Unanswered(r) /\ r \notin Tickets
    BY DEF Respond, Goto, AnsweredWhenDone, Promise!Unanswered, Tickets
  <1>4. Tickets' = Tickets
    BY <1>1 DEF Tickets, Respond, Goto, TypeOK
  <1>5. Claims' = Claims
    BY DEF Claims
  <1> QED
    BY <1>2, <1>3, <1>4, <1>5 DEF Promise!Reply, Claims, Tickets

\* Each step of a handler is a step of the promise or leaves it as it is.
LEMMA ServePromise ==
  ASSUME IInv, AnsweredWhenDone, NEW r \in Requests, Serve(r)
  PROVE  \/ Promise!Claim(r) \/ Promise!Perform(r) \/ Promise!Abandon(r) \/ Promise!Reply(r)
         \/ UNCHANGED Promise!vars
  <1>t. TypeOK /\ Key(r) \in Keys /\ records \in [Keys -> Rows]
    BY DEF IInv, Core, TypeOK, Key
  <1>1. CASE LookupHit(r) \/ Reread(r)
    BY <1>1, StoredAnswerReportable, RespondPromise
    DEF LookupHit, Reread, HandleExisting
  <1>2. CASE \/ LookupMiss(r) \/ InsertRefused(r) \/ RecordSuccessRaises(r) \/ RaiseAfterRecord(r)
    <2>1. Tickets' = Tickets
      BY <1>t, <1>2 DEF Tickets, TypeOK, Goto, LookupMiss, InsertRefused, RecordSuccessRaises,
                        RaiseAfterRecord
    <2> QED
      BY <1>2, <2>1 DEF Tickets, Promise!vars, LookupMiss, InsertRefused, RecordSuccessRaises,
                        RaiseAfterRecord
  <1>3. CASE Insert(r)
    <2>1. Tickets' = Tickets \cup {r}
      BY <1>t, <1>3 DEF Tickets, TypeOK, Goto, Insert
    <2>2. Claims' = [Claims EXCEPT ![Key(r)] = r]
      BY <1>t, <1>3 DEF Claims, Insert, NewRow
    <2>3. Claims[Key(r)] = Nobody /\ answer[r].kind = "none"
      BY <1>t, <1>3 DEF Claims, Insert, Goto, AnsweredWhenDone
    <2> QED
      BY <1>3, <2>1, <2>2, <2>3
      DEF Insert, Tickets, Claims, Key, Promise!Claim, Promise!Unanswered
  <1>4. CASE Apply(r) \/ Reject(r)
    <2>1. Tickets' = Tickets \ {r} /\ r \in Tickets
      BY <1>t, <1>4 DEF Tickets, TypeOK, Goto, Apply, Reject
    <2> QED
      BY <1>4, <2>1 DEF Apply, Reject, Tickets, Promise!Perform, Promise!Abandon
  <1>5. CASE RecordSuccess(r)
    <2>1. Tickets' = Tickets
      BY <1>t, <1>5 DEF Tickets, TypeOK, Goto, RecordSuccess
    <2>2. Claims' = Claims
      BY <1>t, <1>5 DEF Claims, RecordSuccess, Owns, Rows
    <2> QED
      BY <1>5, <2>1, <2>2 DEF Tickets, Claims, Promise!vars, RecordSuccess
  <1>6. CASE RespondSuccess(r)
    <2>1. r \in applied
      BY <1>6 DEF IInv, Core, PastStart, RespondSuccess, Respond, Goto
    <2> QED
      BY <1>6, <2>1, RespondPromise DEF RespondSuccess, Result, Promise!Reportable
  <1>7. CASE RecordFailure(r) \/ RecordFailureRaises(r)
    <2>1. r \notin Tickets
      BY <1>7 DEF Tickets, RecordFailure, RecordFailureRaises, Respond, Goto
    <2>2. Promise!Reportable(r, Failure(r)) /\ Promise!Reportable(r, Unrecorded)
      BY <2>1 DEF Tickets, Failure, Unrecorded, Promise!Reportable
    <2>3. \A k \in Keys : records'[k].owner = records[k].owner
      BY <1>t, <1>7 DEF RecordFailure, RecordFailureRaises, Owns, Rows
    <2> QED
      BY <1>7, <2>2, <2>3, RespondPromise DEF RecordFailure, RecordFailureRaises, Failure, Unrecorded
  <1> QED
    BY <1>1, <1>2, <1>3, <1>4, <1>5, <1>6, <1>7 DEF Serve

\* Every step maps to a step or a stutter: a crash abandons the ticket it finds,
\* and a wipe forgets every claim.
LEMMA NextPromise == IInv /\ AnsweredWhenDone /\ [Next]_vars => [Promise!Next]_Promise!vars
  <1> SUFFICES ASSUME IInv, AnsweredWhenDone, [Next]_vars
               PROVE  Promise!Next \/ UNCHANGED Promise!vars
    OBVIOUS
  <1>t. TypeOK
    BY DEF IInv, Core
  <1>1. CASE UNCHANGED vars
    BY <1>1 DEF vars, Promise!vars
  <1>2. ASSUME NEW r \in Requests, Serve(r)
        PROVE  Promise!Next \/ UNCHANGED Promise!vars
    BY <1>2, ServePromise DEF Promise!Next
  <1>3. ASSUME NEW r \in Requests, Crash(r)
        PROVE  Promise!Next \/ UNCHANGED Promise!vars
    <2>1. Tickets' = Tickets \ {r}
      BY <1>t, <1>3 DEF Crash, Tickets, TypeOK
    <2>2. CASE r \in Tickets
      <3>1. Promise!Abandon(r)
        BY <1>3, <2>1, <2>2 DEF Crash, Tickets, Promise!Abandon
      <3> QED
        BY <3>1 DEF Promise!Next
    <2>3. CASE r \notin Tickets
      BY <1>3, <2>1, <2>3 DEF Crash, Tickets, Promise!vars
    <2> QED
      BY <2>2, <2>3
  <1>4. CASE WipeRecords
    <2>1. Promise!Forget
      BY <1>4 DEF WipeRecords, NoRow, Promise!Forget
    <2> QED
      BY <2>1 DEF Promise!Next
  <1> QED
    BY <1>1, <1>2, <1>3, <1>4 DEF Next

\* The protocol implements AtMostOnce: every behaviour of the handlers, with
\* its crashes, database errors and wipes, is one that the promise allows.
THEOREM SpecImplementsAtMostOnce == Spec => ImplementsAtMostOnce
  BY InitPromise, NextPromise, SpecAnsweredWhenDone, PTL
  DEF Spec, ImplementsAtMostOnce, Promise!Spec
=============================================================================
