--------------------------- MODULE TenancyProofs ---------------------------
(***************************************************************************)
(* Deletions for any number of stores, writers and jobs: types, the        *)
(* references the foreign keys keep, the purge locks, the audit trail and  *)
(* what a deletion may leave behind.                                       *)
(***************************************************************************)
EXTENDS Tenancy, TLAPS

Phases == Running \cup Holding \cup {"done", "crashed"}

\* A step changes the record of job j as given, and no other job.
Turns(j, ph, doomed, before, committed) ==
  /\ job' \in [Jobs -> {NoJob} \cup Deletions]
  /\ \A i \in Jobs \ {j} : job'[i] = job[i]
  /\ job[j] \in Deletions /\ job'[j] \in Deletions
  /\ job'[j].op = job[j].op /\ job'[j].at = job[j].at
  /\ job'[j].phase = ph /\ job'[j].doomed = doomed /\ job'[j].before = before
  /\ job'[j].committed = committed

(***************************************************************************)
(* What the steps of a deletion do to its record.                          *)
(***************************************************************************)
\* A job that has begun has a record of its own.
LEMMA Begun ==
  ASSUME TypeOK, NEW j \in Jobs, job[j].phase # "idle"
  PROVE  job[j] \in Deletions
  BY DEF TypeOK, NoJob

\* A rollback forgets what was doomed.
LEMMA RollbackTurns ==
  ASSUME TypeOK, NEW j \in Jobs, job[j].phase # "idle", NEW ph \in Phases, Rollback(j, ph)
  PROVE  Turns(j, ph, {}, IF job[j].committed THEN job[j].before ELSE {}, job[j].committed)
  <1> DEFINE b == IF job[j].committed THEN job[j].before ELSE {}
             d == [job[j] EXCEPT !.phase = ph, !.doomed = {}, !.before = b]
  <1>1. job[j] \in Deletions
    BY Begun
  <1>2. b \in SUBSET Rows
    BY <1>1 DEF Deletions
  <1>3. job' = [job EXCEPT ![j].phase = ph, ![j].doomed = {}, ![j].before = b]
    BY DEF Rollback
  <1> HIDE DEF b
  <1>4. /\ d \in Deletions /\ d.op = job[j].op /\ d.at = job[j].at /\ d.phase = ph
        /\ d.doomed = {} /\ d.before = b /\ d.committed = job[j].committed
    BY <1>1, <1>2 DEF Deletions, Phases
  <1>5. job' = [job EXCEPT ![j] = d]
    BY <1>3 DEF TypeOK
  <1> HIDE DEF d
  <1>6. Turns(j, ph, {}, b, job[j].committed)
    BY <1>1, <1>4, <1>5 DEF Turns, TypeOK
  <1> QED
    BY <1>6 DEF b


LEMMA MoveTurns ==
  ASSUME TypeOK, NEW j \in Jobs, job[j].phase # "idle", NEW ph \in Phases, Move(j, ph)
  PROVE  Turns(j, ph, job[j].doomed, job[j].before, job[j].committed)
  <1> DEFINE d == [job[j] EXCEPT !.phase = ph]
  <1>1. job[j] \in Deletions
    BY Begun
  <1>2. /\ d \in Deletions /\ d.op = job[j].op /\ d.at = job[j].at /\ d.phase = ph
        /\ d.doomed = job[j].doomed /\ d.before = job[j].before /\ d.committed = job[j].committed
    BY <1>1 DEF Deletions, Phases
  <1>3. job' = [job EXCEPT ![j] = d]
    BY DEF Move, TypeOK
  <1> HIDE DEF d
  <1> QED
    BY <1>1, <1>2, <1>3 DEF Turns, TypeOK

\* What the two statements of a deletion see.
Seen(j) == {x \in At(job[j].at) : x.kind \in Known(job[j].op)}

LEMMA LinesTurn ==
  ASSUME TypeOK, NEW j \in Jobs, DeleteLines(j)
  PROVE  Turns(j, "lines", LinesOf(job[j].at), Seen(j), job[j].committed)
  <1> DEFINE b == Seen(j)
             l == LinesOf(job[j].at)
             d == [job[j] EXCEPT !.phase = "lines", !.doomed = l, !.before = b]
  <1>1. job[j] \in Deletions
    BY Begun DEF DeleteLines
  <1>2. b \in SUBSET Rows /\ l \in SUBSET Rows
    BY DEF Seen, LinesOf, At, TypeOK
  <1>3. job' = [job EXCEPT ![j].phase = "lines", ![j].doomed = l, ![j].before = b]
    BY DEF DeleteLines, Seen
  <1> HIDE DEF b, l
  <1>4. /\ d \in Deletions /\ d.op = job[j].op /\ d.at = job[j].at /\ d.phase = "lines"
        /\ d.doomed = l /\ d.before = b /\ d.committed = job[j].committed
    BY <1>1, <1>2 DEF Deletions, Running
  <1>5. job' = [job EXCEPT ![j] = d]
    BY <1>3 DEF TypeOK
  <1> HIDE DEF d
  <1>6. Turns(j, "lines", l, b, job[j].committed)
    BY <1>1, <1>4, <1>5 DEF Turns, TypeOK
  <1> QED
    BY <1>6 DEF l, b

LEMMA RowsTurn ==
  ASSUME TypeOK, NEW j \in Jobs, DeleteRows(j)
  PROVE  \/ Rollback(j, "failed")
         \/ Turns(j, "rows", job[j].doomed \cup {x \in Seen(j) : x.kind # "line"},
                  job[j].before, job[j].committed)
  <1> DEFINE more == {x \in Seen(j) : x.kind # "line"}
             l == job[j].doomed \cup more
             d == [job[j] EXCEPT !.phase = "rows", !.doomed = l]
  <1>1. job[j] \in Deletions
    BY Begun DEF DeleteRows
  <1>2. l \in SUBSET Rows
    BY <1>1 DEF Seen, At, TypeOK, Deletions
  <1>3. more = {x \in At(job[j].at) : x.kind \in Known(job[j].op) \ {"line"}}
    BY DEF Seen
  <1>4. \/ Rollback(j, "failed")
        \/ job' = [job EXCEPT ![j].phase = "rows", ![j].doomed = l]
    BY <1>3 DEF DeleteRows
  <1> HIDE DEF l, more
  <1>5. /\ d \in Deletions /\ d.op = job[j].op /\ d.at = job[j].at /\ d.phase = "rows"
        /\ d.doomed = l /\ d.before = job[j].before /\ d.committed = job[j].committed
    BY <1>1, <1>2 DEF Deletions, Running
  <1>6. ASSUME job' = [job EXCEPT ![j].phase = "rows", ![j].doomed = l]
        PROVE  Turns(j, "rows", l, job[j].before, job[j].committed)
    <2>1. job' = [job EXCEPT ![j] = d]
      BY <1>6 DEF TypeOK
    <2> HIDE DEF d
    <2> QED
      BY <1>1, <1>5, <2>1 DEF Turns, TypeOK
  <1> QED
    BY <1>4, <1>6 DEF l, more

\* The commit, without its error path.
Commits(j) ==
  /\ Turns(j, "committed", {}, job[j].before, TRUE)
  /\ rows' = Left(j)
  /\ job[j].op = "wipe" \/ \A x \in At(job[j].at) \cap Left(j) : x.kind \notin Referring
  /\ ~(job[j].op = "delete" /\ job[j].at = Tenant /\ \E s \in Stores : place[s] = "here")
  /\ place' = [q \in Places |->
       IF job[j].op # "wipe" /\ place[q] = "here" /\ job[j].at \in {q, Tenant}
         THEN "gone" ELSE place[q]]

LEMMA PlaceTurns ==
  ASSUME TypeOK, NEW j \in Jobs, DeletePlace(j)
  PROVE  (Rollback(j, "failed") /\ UNCHANGED <<rows, place>>) \/ Commits(j)
  <1> DEFINE d == [job[j] EXCEPT !.phase = "committed", !.committed = TRUE, !.doomed = {}]
  <1>1. job[j] \in Deletions
    BY Begun DEF DeletePlace
  <1>2. /\ d \in Deletions /\ d.op = job[j].op /\ d.at = job[j].at /\ d.phase = "committed"
        /\ d.doomed = {} /\ d.before = job[j].before /\ d.committed = TRUE
    BY <1>1 DEF Deletions, Holding
  <1>3. ASSUME job' = [job EXCEPT ![j].phase = "committed", ![j].committed = TRUE, ![j].doomed = {}]
        PROVE  Turns(j, "committed", {}, job[j].before, TRUE)
    <2>1. job' = [job EXCEPT ![j] = d]
      BY <1>3 DEF TypeOK
    <2> HIDE DEF d
    <2> QED
      BY <1>1, <1>2, <2>1 DEF Turns, TypeOK
  <1> QED
    BY <1>3 DEF DeletePlace, Commits

(***************************************************************************)
(* Types                                                                   *)
(***************************************************************************)
\* The record a job begins with.
Fresh(op, p, ph) ==
  [phase |-> ph, op |-> op, at |-> p, doomed |-> {}, before |-> {}, committed |-> FALSE]

LEMMA StartingType ==
  ASSUME TypeOK, NEW j \in Jobs, NEW op \in {"delete", "purge", "wipe"}, NEW p \in Places,
         NEW ph \in Phases, Starting(j, op, p, ph)
  PROVE  /\ Fresh(op, p, ph) \in Deletions
         /\ job' = [job EXCEPT ![j] = Fresh(op, p, ph)]
         /\ job' \in [Jobs -> {NoJob} \cup Deletions]
         /\ overlap' \subseteq Writers \X Jobs
         /\ overlap \subseteq overlap'
         /\ \A w \in Writers : writer[w].phase = "begun" => <<w, j>> \in overlap'
  <1>1. Fresh(op, p, ph) \in Deletions
    BY DEF Fresh, Deletions, Phases
  <1>2. job' = [job EXCEPT ![j] = Fresh(op, p, ph)]
    BY DEF Starting, Fresh
  <1>3. job' \in [Jobs -> {NoJob} \cup Deletions]
    BY <1>1, <1>2 DEF TypeOK
  <1>4. /\ overlap' \subseteq Writers \X Jobs
        /\ overlap \subseteq overlap'
        /\ \A w \in Writers : writer[w].phase = "begun" => <<w, j>> \in overlap'
    BY DEF Starting, TypeOK
  <1> QED
    BY <1>1, <1>2, <1>3, <1>4

\* The six ways to begin: which record, and which lock.
Starts(j) ==
  \E op \in {"delete", "purge", "wipe"}, p \in Places :
    /\ job[j] = NoJob /\ place[p] = "here"
    /\ UNCHANGED <<place, rows, writer, audit>>
    /\ \/ /\ op = "delete" /\ Starting(j, op, p, "checked")
          /\ \A x \in At(p) : x.kind \notin Dependencies(p)
          /\ UNCHANGED locks
       \/ /\ op # "delete" /\ Starting(j, op, p, "locked")
          /\ <<op, p>> \notin locks /\ locks' = locks \cup {<<op, p>>}

\* Every step, as the proofs below take it.
Steps ==
  \/ CreateTenant
  \/ \E s \in Stores : CreateStore(s)
  \/ \E w \in Writers, s \in Stores, k \in DOMAIN Written : WriteBegin(w, s, k)
  \/ \E w \in Writers : WriteCommit(w)
  \/ \E j \in Jobs :
       \/ Starts(j)
       \/ DeleteLines(j) \/ DeleteRows(j) \/ DeletePlace(j)
       \/ \E kept \in BOOLEAN : Record(j, kept)
       \/ Release(j) \/ Fail(j) \/ Crash(j)

LEMMA NextSteps == Next => Steps
  <1>1. ASSUME NEW j \in Jobs,
               \/ DeleteTenant(j) \/ PurgeTenant(j) \/ WipeTenant(j)
               \/ \E s \in Stores : DeleteStore(j, s) \/ PurgeStore(j, s) \/ WipeStore(j, s)
        PROVE  Starts(j)
    <2>1. Tenant \in Places /\ Stores \subseteq Places
      BY DEF Places
    <2>2. ASSUME NEW p \in Places, DeleteCheck(j, p)
          PROVE  Starts(j)
      BY <2>2 DEF DeleteCheck, Starts
    <2>3. ASSUME NEW p \in Places, NEW op \in {"purge", "wipe"}, Acquire(j, op, p)
          PROVE  Starts(j)
      BY <2>3 DEF Acquire, Starts
    <2> QED
      BY <1>1, <2>1, <2>2, <2>3
      DEF DeleteTenant, PurgeTenant, WipeTenant, DeleteStore, PurgeStore, WipeStore
  <1> QED
    BY <1>1 DEF Next, Steps, Work

LEMMA InitTypeOK == Init => TypeOK
  BY DEF Init, TypeOK, Places

LEMMA NextTypeOK == TypeOK /\ [Next]_vars => TypeOK'
  <1> SUFFICES ASSUME TypeOK, [Next]_vars PROVE TypeOK'
    OBVIOUS
  <1>1. CASE CreateTenant
    BY <1>1 DEF CreateTenant, TypeOK
  <1>2. CASE \E s \in Stores : CreateStore(s)
    BY <1>2 DEF CreateStore, TypeOK
  <1>3. CASE \E w \in Writers, s \in Stores, k \in DOMAIN Written : WriteBegin(w, s, k)
    <2> PICK w \in Writers, s \in Stores, k \in DOMAIN Written : WriteBegin(w, s, k)
      BY <1>3
    <2>1. [phase |-> "begun", store |-> s, writes |-> k] \in Writes
      BY DEF Writes
    <2>2. writer' \in [Writers -> {NoWriter, Answered} \cup Writes]
      BY <2>1 DEF WriteBegin, TypeOK
    <2>3. overlap' \subseteq Writers \X Jobs
      BY DEF WriteBegin, TypeOK
    <2> QED
      BY <2>2, <2>3 DEF WriteBegin, TypeOK
  <1>4. CASE \E w \in Writers : WriteCommit(w)
    <2> PICK w \in Writers : WriteCommit(w)
      BY <1>4
    <2>1. writer[w] \in Writes
      BY DEF WriteCommit, TypeOK, NoWriter, Answered
    <2>2. [kind : Written[writer[w].writes], store : {writer[w].store}, by : {w}] \subseteq Rows
      BY <2>1 DEF Writes, Rows, Kinds
    <2>3. rows' \subseteq Rows
      BY <2>2 DEF WriteCommit, TypeOK
    <2> QED
      BY <2>3 DEF WriteCommit, TypeOK
  <1>5. ASSUME NEW j \in Jobs, Starts(j) PROVE TypeOK'
    <2>1. PICK op \in {"delete", "purge", "wipe"}, p \in Places, ph \in {"checked", "locked"} :
            /\ Starting(j, op, p, ph)
            /\ UNCHANGED <<place, rows, writer, audit>>
            /\ \/ UNCHANGED locks
               \/ op # "delete" /\ locks' = locks \cup {<<op, p>>}
      BY <1>5 DEF Starts
    <2>2. ph \in Phases
      BY DEF Phases, Running
    <2>3. locks' \subseteq {"purge", "wipe"} \X Places
      BY <2>1 DEF TypeOK
    <2> QED
      BY <2>1, <2>2, <2>3, StartingType DEF TypeOK
  <1>6. ASSUME NEW j \in Jobs, NEW ph, NEW doomed, NEW before, NEW committed,
               Turns(j, ph, doomed, before, committed),
               UNCHANGED <<writer, overlap>>,
               place' \in [Places -> {"none", "here", "gone"}], rows' \subseteq Rows,
               locks' \subseteq {"purge", "wipe"} \X Places,
               audit' \subseteq Jobs \X {"completed", "failed"}
        PROVE  TypeOK'
    BY <1>6 DEF Turns, TypeOK
  <1>7. ASSUME NEW j \in Jobs, DeleteLines(j) PROVE TypeOK'
    BY <1>6, <1>7, LinesTurn DEF DeleteLines, TypeOK
  <1>8. ASSUME NEW j \in Jobs, NEW ph \in Phases, job[j].phase # "idle", Rollback(j, ph),
               UNCHANGED <<place, rows, writer, locks, audit, overlap>>
        PROVE  TypeOK'
    BY <1>6, <1>8, RollbackTurns DEF TypeOK
  <1>9. {"failed", "crashed", "done", "audited"} \subseteq Phases
    BY DEF Phases, Holding
  <1>10. ASSUME NEW j \in Jobs, DeleteRows(j) PROVE TypeOK'
    <2>1. /\ job[j].phase # "idle"
          /\ UNCHANGED <<place, rows, writer, locks, audit, overlap>>
      BY <1>10 DEF DeleteRows
    <2> QED
      BY <1>6, <1>8, <1>9, <1>10, <2>1, RowsTurn DEF TypeOK
  <1>11. ASSUME NEW j \in Jobs, DeletePlace(j) PROVE TypeOK'
    <2>1. job[j].phase # "idle" /\ UNCHANGED <<writer, locks, audit, overlap>>
      BY <1>11 DEF DeletePlace
    <2>2. CASE Rollback(j, "failed") /\ UNCHANGED <<rows, place>>
      BY <1>8, <1>9, <2>1, <2>2
    <2>3. CASE Commits(j)
      <3>1. place' \in [Places -> {"none", "here", "gone"}]
        BY <2>3 DEF Commits, TypeOK
      <3>2. rows' \subseteq Rows
        BY <2>3 DEF Commits, Left, TypeOK
      <3> QED
        BY <1>6, <2>1, <2>3, <3>1, <3>2 DEF Commits, TypeOK
    <2> QED
      BY <1>11, <2>2, <2>3, PlaceTurns
  <1>12. ASSUME NEW j \in Jobs, NEW kept \in BOOLEAN, Record(j, kept) PROVE TypeOK'
    <2>1. PICK ph \in {"done", "audited"} : Move(j, ph)
      BY <1>12 DEF Record
    <2>2. job[j].phase # "idle" /\ UNCHANGED <<place, rows, writer, locks, overlap>>
      BY <1>12 DEF Record
    <2>3. audit' \subseteq Jobs \X {"completed", "failed"}
      BY <1>12 DEF Record, TypeOK
    <2> QED
      BY <1>6, <1>9, <2>1, <2>2, <2>3, MoveTurns DEF TypeOK
  <1>13. ASSUME NEW j \in Jobs, Release(j) PROVE TypeOK'
    <2>1. /\ job[j].phase # "idle" /\ Move(j, "done")
          /\ locks' \subseteq {"purge", "wipe"} \X Places
          /\ UNCHANGED <<place, rows, writer, audit, overlap>>
      BY <1>13 DEF Release, TypeOK
    <2> QED
      BY <1>6, <1>9, <2>1, MoveTurns DEF TypeOK
  <1>14. ASSUME NEW j \in Jobs, Fail(j) \/ Crash(j) PROVE TypeOK'
    <2>1. /\ job[j].phase # "idle" /\ UNCHANGED <<place, rows, writer, locks, audit, overlap>>
          /\ Rollback(j, "failed") \/ Rollback(j, "crashed")
      BY <1>14 DEF Fail, Crash, Running, Holding
    <2> QED
      BY <1>8, <1>9, <2>1
  <1>15. CASE UNCHANGED vars
    BY <1>15 DEF vars, TypeOK
  <1> QED
    BY <1>1, <1>2, <1>3, <1>4, <1>5, <1>7, <1>10, <1>11, <1>12, <1>13, <1>14, <1>15, NextSteps
    DEF Steps

\* Places, rows, requests, locks and events keep their types.
THEOREM SpecTypeOK == Spec => []TypeOK
  BY InitTypeOK, NextTypeOK, PTL DEF Spec

(***************************************************************************)
(* Locks.  OneAtATime is inductive once it is known that only a safe       *)
(* delete, which takes no lock, is ever "checked".                         *)
(***************************************************************************)
Checked == \A j \in Jobs : job[j].phase = "checked" => job[j].op = "delete"

LockInv == TypeOK /\ Checked /\ OneAtATime

\* A step of one job that takes no lock and comes to hold none.
LEMMA TurnKeepsLocks ==
  ASSUME LockInv, NEW j \in Jobs, NEW ph, NEW doomed, NEW before, NEW committed,
         Turns(j, ph, doomed, before, committed), ph # "checked", locks' = locks,
         ph \in Holding => job[j].phase \in Holding \/ job[j].op = "delete"
  PROVE  Checked' /\ OneAtATime'
  <1>1. Checked'
    BY DEF LockInv, Checked, Turns
  <1>2. ASSUME NEW i \in Jobs, job'[i].phase \in Holding, job'[i].op # "delete"
        PROVE  job[i].phase \in Holding /\ job'[i].op = job[i].op /\ job'[i].at = job[i].at
    BY <1>2 DEF Turns
  <1>3. OneAtATime'
    <2> SUFFICES ASSUME NEW i \in Jobs, job'[i].phase \in Holding, job'[i].op # "delete"
                 PROVE  /\ <<job'[i].op, job'[i].at>> \in locks
                        /\ \A k \in Jobs \ {i} : job'[k].phase \in Holding =>
                             <<job'[i].op, job'[i].at>> # <<job'[k].op, job'[k].at>>
      BY DEF OneAtATime, Holding
    <2>1. <<job[i].op, job[i].at>> \in locks
      BY <1>2 DEF LockInv, OneAtATime
    <2>2. ASSUME NEW k \in Jobs \ {i}, job'[k].phase \in Holding
          PROVE  <<job'[i].op, job'[i].at>> # <<job'[k].op, job'[k].at>>
      <3>1. CASE job'[k].op = "delete"
        BY <3>1
      <3>2. CASE job'[k].op # "delete"
        BY <1>2, <2>2, <3>2 DEF LockInv, OneAtATime
      <3> QED
        BY <3>1, <3>2
    <2> QED
      BY <1>2, <2>1, <2>2
  <1> QED
    BY <1>1, <1>3

LEMMA NextLocks == LockInv /\ [Next]_vars => LockInv'
  <1> SUFFICES ASSUME LockInv, [Next]_vars PROVE Checked' /\ OneAtATime'
    BY NextTypeOK DEF LockInv
  <1>t. TypeOK
    BY DEF LockInv
  <1>1. CASE UNCHANGED <<job, locks>>
    BY <1>1 DEF LockInv, Checked, OneAtATime
  <1>2. ASSUME NEW j \in Jobs, Starts(j) PROVE Checked' /\ OneAtATime'
    <2>1. PICK op \in {"delete", "purge", "wipe"}, p \in Places, ph \in {"checked", "locked"} :
            /\ job[j] = NoJob /\ Starting(j, op, p, ph)
            /\ \/ op = "delete" /\ ph = "checked" /\ UNCHANGED locks
               \/ /\ op # "delete" /\ ph = "locked"
                  /\ <<op, p>> \notin locks /\ locks' = locks \cup {<<op, p>>}
      BY <1>2 DEF Starts
    <2>2. ph \in Phases
      BY DEF Phases, Running
    <2>3. /\ job' = [job EXCEPT ![j] = Fresh(op, p, ph)]
          /\ job'[j] = Fresh(op, p, ph)
          /\ \A i \in Jobs \ {j} : job'[i] = job[i]
      BY <1>t, <2>1, <2>2, StartingType DEF TypeOK
    <2>4. job'[j].op = op /\ job'[j].at = p /\ job'[j].phase = ph
      BY <2>3 DEF Fresh
    <2>5. Checked'
      BY <2>1, <2>3, <2>4 DEF LockInv, Checked
    <2>6. ASSUME NEW i \in Jobs \ {j}, job[i].phase \in Holding, job[i].op # "delete"
          PROVE  <<job[i].op, job[i].at>> \in locks
      BY <2>6 DEF LockInv, OneAtATime
    <2>7. CASE op = "delete"
      <3>1. ph = "checked" /\ locks' = locks
        BY <2>1, <2>7
      <3> QED
        BY <2>3, <2>4, <2>5, <3>1 DEF LockInv, OneAtATime, Holding
    <2>8. CASE op # "delete"
      <3>1. <<op, p>> \notin locks /\ locks' = locks \cup {<<op, p>>}
        BY <2>1, <2>8
      <3>2. ASSUME NEW i \in Jobs, job'[i].phase \in Holding, job'[i].op # "delete",
                   NEW k \in Jobs \ {i}, job'[k].phase \in Holding
            PROVE  <<job'[i].op, job'[i].at>> # <<job'[k].op, job'[k].at>>
        <4>1. CASE job'[k].op = "delete"
          BY <3>2, <4>1
        <4>2. CASE job'[k].op # "delete" /\ i # j /\ k # j
          BY <2>3, <3>2, <4>2 DEF LockInv, OneAtATime
        <4>3. CASE job'[k].op # "delete" /\ (i = j \/ k = j)
          BY <2>3, <2>4, <2>6, <3>1, <3>2, <4>3
        <4> QED
          BY <4>1, <4>2, <4>3
      <3>3. \A i \in Jobs : job'[i].phase \in Holding /\ job'[i].op # "delete"
              => <<job'[i].op, job'[i].at>> \in locks'
        BY <2>3, <2>4, <2>6, <3>1
      <3> QED
        BY <2>5, <3>2, <3>3 DEF OneAtATime, Holding
    <2> QED
      BY <2>7, <2>8
  <1>3. ASSUME NEW j \in Jobs, DeleteLines(j) PROVE Checked' /\ OneAtATime'
    <2>1. job[j].phase \in Holding /\ locks' = locks
      BY <1>3 DEF DeleteLines, Holding
    <2> QED
      BY <1>3, <1>t, <2>1, LinesTurn, TurnKeepsLocks
  <1>4. ASSUME NEW j \in Jobs, NEW ph \in {"failed", "crashed"}, Rollback(j, ph), locks' = locks,
               job[j].phase # "idle",
               ph = "failed" => job[j].phase \in Holding \/ job[j].op = "delete"
        PROVE  Checked' /\ OneAtATime'
    <2>1. ph \in Phases /\ (ph \in Holding => ph = "failed")
      BY DEF Phases, Holding
    <2> QED
      BY <1>4, <1>t, <2>1, RollbackTurns, TurnKeepsLocks
  <1>5. ASSUME NEW j \in Jobs, DeleteRows(j) PROVE Checked' /\ OneAtATime'
    <2>1. job[j].phase \in Holding /\ locks' = locks /\ job[j].phase # "idle"
      BY <1>5 DEF DeleteRows, Holding
    <2> QED
      BY <1>4, <1>5, <1>t, <2>1, RowsTurn, TurnKeepsLocks
  <1>6. ASSUME NEW j \in Jobs, DeletePlace(j) PROVE Checked' /\ OneAtATime'
    <2>1. /\ job[j].phase \in Holding \/ job[j].op = "delete"
          /\ locks' = locks /\ job[j].phase # "idle"
      BY <1>6 DEF DeletePlace, Holding, LockInv, Checked
    <2> QED
      BY <1>4, <1>6, <1>t, <2>1, PlaceTurns, TurnKeepsLocks DEF Commits
  <1>7. ASSUME NEW j \in Jobs, NEW kept \in BOOLEAN, Record(j, kept) PROVE Checked' /\ OneAtATime'
    <2>1. /\ job[j].phase \in Holding /\ locks' = locks /\ job[j].phase # "idle"
          /\ Move(j, "done") \/ Move(j, "audited")
      BY <1>7 DEF Record, Holding
    <2>2. "done" \in Phases /\ "audited" \in Phases
      BY DEF Phases, Holding
    <2> QED
      BY <1>t, <2>1, <2>2, MoveTurns, TurnKeepsLocks
  <1>8. ASSUME NEW j \in Jobs, Release(j) PROVE Checked' /\ OneAtATime'
    <2>1. /\ job[j].phase = "audited" /\ Move(j, "done")
          /\ locks' = locks \ {<<job[j].op, job[j].at>>}
      BY <1>8 DEF Release
    <2>2. "done" \in Phases /\ "done" \notin Holding /\ "audited" \in Holding
      BY DEF Phases, Holding
    <2>3. Turns(j, "done", job[j].doomed, job[j].before, job[j].committed)
      BY <1>t, <2>1, <2>2, MoveTurns
    <2>4. \A i \in Jobs \ {j} : job[i].phase \in Holding /\ job[i].op # "delete" =>
            <<job[i].op, job[i].at>> # <<job[j].op, job[j].at>>
      BY <2>1, <2>2 DEF LockInv, OneAtATime
    <2>5. Checked'
      BY <2>3 DEF LockInv, Checked, Turns
    <2>6. OneAtATime'
      BY <2>1, <2>2, <2>3, <2>4 DEF LockInv, OneAtATime, Turns, Holding
    <2> QED
      BY <2>5, <2>6
  <1>9. ASSUME NEW j \in Jobs, Fail(j) PROVE Checked' /\ OneAtATime'
    <2>1. /\ job[j].phase \in Running /\ Rollback(j, "failed") /\ locks' = locks
          /\ job[j].phase \in Holding \/ job[j].phase = "checked"
      BY <1>9 DEF Fail, Running, Holding
    <2>2. job[j].phase \in Holding \/ job[j].op = "delete"
      BY <2>1 DEF LockInv, Checked
    <2>3. job[j].phase # "idle"
      BY <2>1 DEF Running
    <2> QED
      BY <1>4, <2>1, <2>2, <2>3
  <1>10. ASSUME NEW j \in Jobs, Crash(j) PROVE Checked' /\ OneAtATime'
    <2>1. Rollback(j, "crashed") /\ locks' = locks /\ job[j].phase # "idle"
      BY <1>10 DEF Crash, Running, Holding
    <2> QED
      BY <1>4, <2>1
  <1>11. \/ CreateTenant
         \/ \E s \in Stores : CreateStore(s)
         \/ \E w \in Writers, s \in Stores, k \in DOMAIN Written : WriteBegin(w, s, k)
         \/ \E w \in Writers : WriteCommit(w)
         \/ UNCHANGED vars
         => UNCHANGED <<job, locks>>
    BY DEF CreateTenant, CreateStore, WriteBegin, WriteCommit, vars
  <1> QED
    BY <1>1, <1>2, <1>3, <1>5, <1>6, <1>7, <1>8, <1>9, <1>10, <1>11, NextSteps DEF Steps

\* Two purges, or two wipes, of one place never run at the same time, however
\* many jobs fail or crash meanwhile.
THEOREM SpecOneAtATime == Spec => []OneAtATime
  <1>1. Init => LockInv
    BY InitTypeOK DEF Init, LockInv, Checked, OneAtATime, NoJob, Holding
  <1>2. LockInv => OneAtATime
    BY DEF LockInv
  <1> QED
    BY <1>1, <1>2, NextLocks, PTL DEF Spec

(***************************************************************************)
(* References.  Only a write, a creation and a commit of a deletion touch  *)
(* rows or places; the foreign keys keep ReferencesHold inductive.         *)
(***************************************************************************)
LEMMA Placed ==
  ASSUME TypeOK
  PROVE  /\ \A x \in rows : x.store \in Stores /\ x.store \in Places /\ x.store # Tenant
         /\ \A s \in Stores : s \in Places /\ s # Tenant
         /\ Tenant \in Places
  BY PlacesAssumption DEF TypeOK, Rows, Places

\* The steps that change neither rows nor places.
LEMMA QuietSteps ==
  ASSUME NEW j \in Jobs,
         \/ Starts(j) \/ DeleteLines(j) \/ DeleteRows(j) \/ Release(j) \/ Fail(j) \/ Crash(j)
         \/ \E kept \in BOOLEAN : Record(j, kept)
  PROVE  UNCHANGED <<rows, place, writer>>
  BY DEF Starts, DeleteLines, DeleteRows, Release, Fail, Crash, Record

LEMMA NextReferences == TypeOK /\ ReferencesHold /\ [Next]_vars => ReferencesHold'
  <1> SUFFICES ASSUME TypeOK, ReferencesHold, [Next]_vars PROVE ReferencesHold'
    OBVIOUS
  <1>1. CASE UNCHANGED <<rows, place>>
    BY <1>1 DEF ReferencesHold
  <1>2. CASE CreateTenant
    BY <1>2, Placed DEF CreateTenant, ReferencesHold, TypeOK
  <1>3. CASE \E s \in Stores : CreateStore(s)
    BY <1>3, Placed DEF CreateStore, ReferencesHold, TypeOK
  <1>4. CASE \E w \in Writers : WriteCommit(w)
    <2> PICK w \in Writers : WriteCommit(w)
      BY <1>4
    <2> DEFINE new == [kind : Written[writer[w].writes], store : {writer[w].store}, by : {w}]
    <2>1. \A x \in new : x.store = writer[w].store
      OBVIOUS
    <2>2. /\ place' = place
          /\ rows' = IF place[writer[w].store] # "here" /\ \E x \in new : x.kind \in Referring
                      THEN rows ELSE rows \cup new
      BY DEF WriteCommit
    <2> HIDE DEF new
    <2> QED
      BY <2>1, <2>2 DEF ReferencesHold
  <1>5. ASSUME NEW j \in Jobs, Commits(j) PROVE ReferencesHold'
    <2> DEFINE p == job[j].at
    <2>1. /\ rows' \subseteq rows /\ rows' = Left(j) /\ p \in Places
          /\ job[j].op = "wipe" \/ \A x \in At(p) \cap Left(j) : x.kind \notin Referring
      BY <1>5 DEF Commits, Left, Turns, Deletions
    <2>2. CASE job[j].op = "wipe"
      BY <1>5, <2>1, <2>2, Placed DEF Commits, ReferencesHold, TypeOK
    <2>3. CASE job[j].op # "wipe"
      <3>1. \A q \in Places : place'[q] = IF place[q] = "here" /\ p \in {q, Tenant}
                                         THEN "gone" ELSE place[q]
        BY <1>5, <2>3 DEF Commits
      <3>2. \A x \in rows' : x.kind \in Referring => place'[x.store] = "here"
        <4> TAKE x \in rows'
        <4> HAVE x.kind \in Referring
        <4>1. x \in rows /\ x.store \in Places /\ place[x.store] = "here"
          BY <2>1, Placed DEF ReferencesHold
        <4>2. p # Tenant /\ x.store # p
          BY <2>1, <2>3, <4>1 DEF At
        <4> QED
          BY <3>1, <4>1, <4>2
      <3>3. \A s \in Stores : place'[s] = "here" => place'[Tenant] = "here"
        BY <3>1, Placed DEF ReferencesHold
      <3> QED
        BY <3>2, <3>3 DEF ReferencesHold
    <2> QED
      BY <2>2, <2>3
  <1>6. ASSUME NEW j \in Jobs, DeletePlace(j) PROVE ReferencesHold'
    BY <1>1, <1>5, <1>6, PlaceTurns
  <1>7. CASE \E w \in Writers, s \in Stores, k \in DOMAIN Written : WriteBegin(w, s, k)
    BY <1>1, <1>7 DEF WriteBegin
  <1>8. CASE UNCHANGED vars
    BY <1>1, <1>8 DEF vars
  <1> QED
    BY <1>1, <1>2, <1>3, <1>4, <1>6, <1>7, <1>8, NextSteps, QuietSteps DEF Steps

\* Whatever is deleted while requests write, a row of a table with a foreign
\* key is in a store that is there, and a store in a tenant that is there.
THEOREM SpecReferencesHold == Spec => []ReferencesHold
  <1>1. Init => ReferencesHold
    BY DEF Init, ReferencesHold, Places
  <1> QED
    BY <1>1, InitTypeOK, NextTypeOK, NextReferences, PTL DEF Spec

(***************************************************************************)
(* The audit trail.  A row once deleted does not come back, because its    *)
(* writer has answered: so what a job saw when it began shrinks, and what  *)
(* is left of it when the job commits is what the job could not find.      *)
(***************************************************************************)
SaleOf(x) == [x EXCEPT !.kind = "sale"]

Unfindable(x, j) == x.kind = "line" /\ SaleOf(x) \notin job[j].before

RowsSettled == \A x \in rows : writer[x.by] = Answered

BeforeSettled(j) ==
  \A x \in job[j].before : /\ writer[x.by] = Answered
                           /\ x.kind \in Known(job[j].op)
                           /\ job[j].at = Tenant \/ x.store = job[j].at

Progress(j) ==
  /\ job[j].phase \in Running \cup {"failed"} => ~job[j].committed
  /\ job[j].phase = "committed" => job[j].committed
  /\ place[job[j].at] # "none"
  /\ job[j].phase \in {"checked", "locked"} => job[j].before = {}
  /\ job[j].phase = "lines" =>
       \A x \in job[j].before \cap rows : x.kind = "line" => x \in job[j].doomed \/ Unfindable(x, j)
  /\ job[j].phase = "rows" =>
       \A x \in job[j].before \cap rows : x \in job[j].doomed \/ Unfindable(x, j)
  /\ job[j].committed =>
       /\ job[j].op # "wipe" => place[job[j].at] = "gone"
       /\ \A x \in job[j].before \cap rows : Unfindable(x, j)

Events(j) ==
  /\ \A o \in {"failed", "completed"} : <<j, o>> \in audit =>
       job[j].phase \in {"audited", "done", "crashed"}
  /\ <<j, "failed">> \in audit => ~job[j].committed
  /\ <<j, "completed">> \in audit => job[j].committed

AuditInv ==
  /\ TypeOK /\ RowsSettled
  /\ \A j \in Jobs : job[j].phase # "idle" => BeforeSettled(j) /\ Progress(j)
  /\ \A j \in Jobs : Events(j)

LEMMA AuditInvAudit == AuditInv => AuditTellsOutcome
  <1> SUFFICES ASSUME AuditInv, NEW j \in Jobs
               PROVE  /\ <<j, "failed">> \in audit => ~job[j].committed
                      /\ <<j, "completed">> \in audit =>
                           /\ job[j].op # "wipe" => place[job[j].at] = "gone"
                           /\ \A x \in job[j].before \cap rows : Unfindable(x, j)
    BY DEF AuditTellsOutcome, Unfindable, SaleOf
  <1> QED
    BY DEF AuditInv, Events, Progress

\* A job that is left alone keeps its part while rows vanish, rows of new
\* writers appear and places go.
LEMMA OthersKeep ==
  ASSUME AuditInv, TypeOK', NEW i \in Jobs, job'[i] = job[i], job[i].phase # "idle",
         \A x \in rows' : x \in rows \/ writer[x.by] # Answered,
         \A w \in Writers : writer[w] = Answered => writer'[w] = Answered,
         \A q \in Places : (place[q] = "gone" => place'[q] = "gone")
                           /\ (place[q] # "none" => place'[q] # "none")
  PROVE  BeforeSettled(i)' /\ Progress(i)'
  <1>1. job[i] \in Deletions /\ BeforeSettled(i) /\ Progress(i)
    BY Begun DEF AuditInv
  <1>2. job[i].at \in Places /\ \A x \in job[i].before : x \in Rows /\ x.by \in Writers
    BY <1>1 DEF Deletions, Rows
  <1>3. BeforeSettled(i)'
    BY <1>1, <1>2 DEF BeforeSettled, Known
  <1>4. \A x \in job[i].before : x \in rows' => x \in rows
    BY <1>1 DEF BeforeSettled
  <1>5. Progress(i)'
    BY <1>1, <1>2, <1>4 DEF Progress, Unfindable, SaleOf, Running
  <1> QED
    BY <1>3, <1>5

\* The parts of the invariant that a step of job j leaves alone.
LEMMA TurnKeepsAudit ==
  ASSUME AuditInv, TypeOK', NEW j \in Jobs, NEW ph, NEW doomed, NEW before, NEW committed,
         Turns(j, ph, doomed, before, committed), writer' = writer, rows' \subseteq rows,
         \A q \in Places : (place[q] = "gone" => place'[q] = "gone")
                           /\ (place[q] # "none" => place'[q] # "none"),
         BeforeSettled(j)' /\ Progress(j)', Events(j)',
         \A i \in Jobs \ {j}, o \in {"failed", "completed"} : <<i, o>> \in audit' => <<i, o>> \in audit
  PROVE  AuditInv'
  <1>1. RowsSettled'
    BY DEF AuditInv, RowsSettled
  <1>2. ASSUME NEW i \in Jobs \ {j}
        PROVE  (job'[i].phase # "idle" => BeforeSettled(i)' /\ Progress(i)') /\ Events(i)'
    <2>1. job'[i] = job[i]
      BY DEF Turns
    <2>2. Events(i)'
      BY <2>1 DEF AuditInv, Events
    <2>3. \A x \in rows' : x \in rows \/ writer[x.by] # Answered
      OBVIOUS
    <2> QED
      BY <2>1, <2>2, <2>3, OthersKeep
  <1> QED
    BY <1>1, <1>2 DEF AuditInv

\* A step that touches no job.
LEMMA WriteKeepsAudit ==
  ASSUME AuditInv, TypeOK', UNCHANGED <<job, audit>>, RowsSettled',
         \A x \in rows' : x \in rows \/ writer[x.by] # Answered,
         \A w \in Writers : writer[w] = Answered => writer'[w] = Answered,
         \A q \in Places : (place[q] = "gone" => place'[q] = "gone")
                           /\ (place[q] # "none" => place'[q] # "none")
  PROVE  AuditInv'
  <1>1. ASSUME NEW i \in Jobs
        PROVE  (job'[i].phase # "idle" => BeforeSettled(i)' /\ Progress(i)') /\ Events(i)'
    <2>1. job'[i] = job[i]
      OBVIOUS
    <2>2. Events(i)'
      BY DEF AuditInv, Events
    <2> QED
      BY <2>1, <2>2, OthersKeep
  <1> QED
    BY <1>1 DEF AuditInv

LEMMA WritersAudit ==
  ASSUME AuditInv, TypeOK',
         \/ CreateTenant \/ \E s \in Stores : CreateStore(s)
         \/ \E w \in Writers, s \in Stores, k \in DOMAIN Written : WriteBegin(w, s, k)
         \/ \E w \in Writers : WriteCommit(w)
  PROVE  AuditInv'
  <1>t. TypeOK /\ RowsSettled
    BY DEF AuditInv
  <1>1. CASE CreateTenant
    BY <1>1, <1>t, WriteKeepsAudit DEF CreateTenant, RowsSettled, TypeOK
  <1>2. CASE \E s \in Stores : CreateStore(s)
    BY <1>2, <1>t, WriteKeepsAudit DEF CreateStore, RowsSettled, TypeOK
  <1>3. ASSUME NEW w \in Writers, NEW s \in Stores, NEW k \in DOMAIN Written, WriteBegin(w, s, k)
        PROVE  AuditInv'
    <2>1. NoWriter # Answered
      BY DEF NoWriter, Answered
    <2>2. \A v \in Writers : writer[v] = Answered => writer'[v] = Answered
      BY <1>3, <1>t, <2>1 DEF WriteBegin, TypeOK
    <2>3. RowsSettled'
      BY <1>3, <1>t, <2>2 DEF WriteBegin, RowsSettled, TypeOK, Rows
    <2> QED
      BY <1>3, <2>2, <2>3, WriteKeepsAudit DEF WriteBegin
  <1>4. ASSUME NEW w \in Writers, WriteCommit(w)
        PROVE  AuditInv'
    <2> DEFINE new == [kind : Written[writer[w].writes], store : {writer[w].store}, by : {w}]
    <2>1. writer[w] # Answered
      BY <1>4 DEF WriteCommit, Answered
    <2>2. \A x \in new : x.by = w
      OBVIOUS
    <2>3. rows' \subseteq rows \cup new /\ UNCHANGED <<place, job, audit>>
      BY <1>4 DEF WriteCommit
    <2>4. writer' = [writer EXCEPT ![w] = Answered]
      BY <1>4 DEF WriteCommit
    <2> HIDE DEF new
    <2>5. \A x \in rows' : x \in rows \/ writer[x.by] # Answered
      BY <2>1, <2>2, <2>3
    <2>6. \A v \in Writers : writer[v] = Answered => writer'[v] = Answered
      BY <1>t, <2>4 DEF TypeOK
    <2>7. RowsSettled'
      BY <1>t, <2>2, <2>3, <2>4 DEF RowsSettled, TypeOK, Rows
    <2> QED
      BY <2>3, <2>5, <2>6, <2>7, WriteKeepsAudit
  <1> QED
    BY <1>1, <1>2, <1>3, <1>4

\* A rollback keeps the rows a job saw only if it had committed.
LEMMA RollbackAudit ==
  ASSUME AuditInv, TypeOK', NEW j \in Jobs, NEW ph \in {"failed", "crashed"}, Rollback(j, ph),
         job[j].phase \in (IF ph = "failed" THEN Running ELSE Running \cup Holding),
         UNCHANGED <<place, rows, writer, audit>>
  PROVE  AuditInv'
  <1>1. job[j].phase # "idle" /\ ph \in Phases /\ TypeOK
    BY DEF Running, Holding, Phases, AuditInv
  <1> DEFINE b == IF job[j].committed THEN job[j].before ELSE {}
  <1>2. Turns(j, ph, {}, b, job[j].committed)
    BY <1>1, RollbackTurns
  <1>3. BeforeSettled(j) /\ Progress(j) /\ Events(j) /\ b \subseteq job[j].before
    BY <1>1 DEF AuditInv
  <1>4. job[j].committed => b = job[j].before
    OBVIOUS
  <1> HIDE DEF b
  <1>5. BeforeSettled(j)'
    BY <1>2, <1>3 DEF BeforeSettled, Turns, Known
  <1>6. ph = "failed" => ~job[j].committed
    BY <1>3 DEF Progress
  <1>7. Progress(j)'
    BY <1>2, <1>3, <1>4, <1>6 DEF Progress, Turns, Running, Unfindable, SaleOf
  <1>8. Events(j)'
    BY <1>2, <1>3, <1>6 DEF Events, Turns, Running
  <1> QED
    BY <1>2, <1>5, <1>7, <1>8, TurnKeepsAudit

LEMMA StartsAudit ==
  ASSUME AuditInv, TypeOK', NEW j \in Jobs, Starts(j)
  PROVE  AuditInv'
  <1>t. TypeOK
    BY DEF AuditInv
  <1>1. PICK op \in {"delete", "purge", "wipe"}, p \in Places, ph \in {"checked", "locked"} :
          /\ job[j] = NoJob /\ Starting(j, op, p, ph) /\ place[p] = "here"
          /\ UNCHANGED <<place, rows, writer, audit>>
    BY DEF Starts
  <1>2. ph \in Phases /\ ph \in Running
    BY DEF Phases, Running
  <1>3. job'[j] = Fresh(op, p, ph) /\ \A i \in Jobs \ {j} : job'[i] = job[i]
    BY <1>t, <1>1, <1>2, StartingType DEF TypeOK
  <1>4. /\ job'[j].phase = ph /\ job'[j].op = op /\ job'[j].at = p /\ job'[j].doomed = {}
        /\ job'[j].before = {} /\ job'[j].committed = FALSE
    BY <1>3 DEF Fresh
  <1>5. BeforeSettled(j)' /\ Progress(j)'
    BY <1>1, <1>4 DEF BeforeSettled, Progress
  <1>6. Events(j)'
    <2>1. job[j].phase \notin {"audited", "done", "crashed"}
      BY <1>1 DEF NoJob
    <2> QED
      BY <1>1, <2>1 DEF AuditInv, Events
  <1>7. ASSUME NEW i \in Jobs \ {j}
        PROVE  (job'[i].phase # "idle" => BeforeSettled(i)' /\ Progress(i)') /\ Events(i)'
    <2>1. Events(i)'
      BY <1>1, <1>3 DEF AuditInv, Events
    <2> QED
      BY <1>1, <1>3, <2>1, OthersKeep
  <1> QED
    BY <1>1, <1>5, <1>6, <1>7 DEF AuditInv, RowsSettled

LEMMA DeletesAudit ==
  ASSUME AuditInv, TypeOK', NEW j \in Jobs, DeleteLines(j) \/ DeleteRows(j) \/ DeletePlace(j)
  PROVE  AuditInv'
  <1>t. TypeOK /\ job[j].phase # "idle" /\ UNCHANGED <<writer, audit>>
    BY DEF AuditInv, DeleteLines, DeleteRows, DeletePlace
  <1>1. job[j] \in Deletions /\ BeforeSettled(j) /\ Progress(j) /\ Events(j)
    BY <1>t, Begun DEF AuditInv
  <1>2. CASE DeleteLines(j)
    <2>1. Turns(j, "lines", LinesOf(job[j].at), Seen(j), job[j].committed)
      BY <1>2, <1>t, LinesTurn
    <2>2. UNCHANGED <<place, rows>> /\ job[j].phase = "locked"
      BY <1>2 DEF DeleteLines
    <2>3. BeforeSettled(j)'
      BY <1>t, <2>1, <2>2 DEF BeforeSettled, Turns, Seen, At, AuditInv, RowsSettled, Known
    <2>4. ~job[j].committed
      BY <1>1, <2>2 DEF Progress, Running
    <2>5. \A x \in Seen(j) : x.kind = "line" =>
            x \in LinesOf(job[j].at) \/ SaleOf(x) \notin Seen(j)
      BY DEF Seen, LinesOf, At, SaleOf
    <2>6. Progress(j)'
      BY <1>1, <2>1, <2>2, <2>4, <2>5 DEF Progress, Turns, Unfindable, SaleOf
    <2>7. Events(j)'
      BY <1>1, <1>t, <2>1, <2>2 DEF Events, Turns
    <2> QED
      BY <1>t, <2>1, <2>2, <2>3, <2>6, <2>7, TurnKeepsAudit
  <1>3. CASE DeleteRows(j)
    <2>2. UNCHANGED <<place, rows>> /\ job[j].phase = "lines"
      BY <1>3 DEF DeleteRows
    <2>3. CASE Rollback(j, "failed")
      BY <1>t, <2>2, <2>3, RollbackAudit DEF Running
    <2>4. CASE Turns(j, "rows", job[j].doomed \cup {x \in Seen(j) : x.kind # "line"},
                     job[j].before, job[j].committed)
      <3>1. BeforeSettled(j)'
        BY <1>1, <1>t, <2>4 DEF BeforeSettled, Turns, Known
      <3>2. ~job[j].committed
        BY <1>1, <2>2 DEF Progress, Running
      <3>3. \A x \in job[j].before \cap rows : x.kind # "line" => x \in Seen(j)
        BY <1>1 DEF BeforeSettled, Seen, At
      <3>4. \A x \in job[j].before \cap rows : x \in job'[j].doomed \/ Unfindable(x, j)
        BY <1>1, <2>2, <2>4, <3>3 DEF Progress, Turns
      <3>5. Progress(j)'
        BY <1>1, <2>2, <2>4, <3>2, <3>4 DEF Progress, Turns, Unfindable, SaleOf
      <3>6. Events(j)'
        BY <1>1, <1>t, <2>2, <2>4 DEF Events, Turns
      <3> QED
        BY <1>t, <2>2, <2>4, <3>1, <3>5, <3>6, TurnKeepsAudit
    <2> QED
      BY <1>3, <1>t, <2>3, <2>4, RowsTurn
  <1>4. CASE DeletePlace(j)
    <2>1. job[j].phase \in {"checked", "rows"}
      BY <1>4 DEF DeletePlace
    <2>2. CASE Rollback(j, "failed") /\ UNCHANGED <<rows, place>>
      BY <1>t, <2>1, <2>2, RollbackAudit DEF Running
    <2>3. CASE Commits(j)
      <3>1. Turns(j, "committed", {}, job[j].before, TRUE) /\ rows' = rows \ job[j].doomed
        BY <2>3 DEF Commits, Left
      <3>2. job[j].at \in Places /\ place[job[j].at] \in {"here", "gone"}
        BY <1>1, <1>t DEF Deletions, Progress, TypeOK
      <3>3. job[j].op # "wipe" => place'[job[j].at] = "gone"
        BY <2>3, <3>2 DEF Commits
      <3>4. \A q \in Places : (place[q] = "gone" => place'[q] = "gone")
                              /\ (place[q] # "none" => place'[q] # "none")
        BY <2>3 DEF Commits
      <3>5. \A x \in job[j].before \cap rows' : Unfindable(x, j)
        BY <1>1, <2>1, <3>1 DEF Progress
      <3>6. BeforeSettled(j)'
        BY <1>1, <1>t, <3>1 DEF BeforeSettled, Turns, Known
      <3>7. Progress(j)'
        BY <3>1, <3>2, <3>3, <3>4, <3>5 DEF Progress, Turns, Unfindable, SaleOf, Running
      <3>8. Events(j)'
        BY <1>1, <1>t, <2>1, <3>1 DEF Events, Turns
      <3> QED
        BY <1>t, <3>1, <3>4, <3>6, <3>7, <3>8, TurnKeepsAudit
    <2> QED
      BY <1>4, <1>t, <2>2, <2>3, PlaceTurns
  <1> QED
    BY <1>2, <1>3, <1>4

LEMMA EndsAudit ==
  ASSUME AuditInv, TypeOK', NEW j \in Jobs,
         \/ \E kept \in BOOLEAN : Record(j, kept)
         \/ Release(j) \/ Fail(j) \/ Crash(j)
  PROVE  AuditInv'
  <1>t. TypeOK /\ job[j].phase # "idle" /\ UNCHANGED <<place, rows, writer>>
    BY DEF AuditInv, Record, Release, Fail, Crash, Running, Holding
  <1>1. job[j] \in Deletions /\ BeforeSettled(j) /\ Progress(j) /\ Events(j)
    BY <1>t, Begun DEF AuditInv
  <1>2. ASSUME NEW ph \in {"audited", "done"}, Move(j, ph)
        PROVE  /\ Turns(j, ph, job[j].doomed, job[j].before, job[j].committed)
               /\ BeforeSettled(j)' /\ Progress(j)'
    <2>1. ph \in Phases
      BY DEF Phases, Holding
    <2>2. Turns(j, ph, job[j].doomed, job[j].before, job[j].committed)
      BY <1>2, <1>t, <2>1, MoveTurns
    <2>3. BeforeSettled(j)'
      BY <1>1, <1>t, <2>2 DEF BeforeSettled, Turns, Known
    <2>4. Progress(j)'
      BY <1>1, <1>t, <2>2 DEF Progress, Turns, Unfindable, SaleOf, Running
    <2> QED
      BY <2>2, <2>3, <2>4
  <1>3. ASSUME NEW kept \in BOOLEAN, Record(j, kept) PROVE AuditInv'
    <2>1. PICK ph \in {"audited", "done"} : Move(j, ph)
      BY <1>3 DEF Record
    <2>2. /\ job[j].phase \in {"committed", "failed"}
          /\ \/ audit' = audit
             \/ job[j].phase = "committed" /\ audit' = audit \cup {<<j, "completed">>}
             \/ job[j].phase = "failed" /\ audit' = audit \cup {<<j, "failed">>}
      BY <1>3 DEF Record
    <2>3. Events(j)'
      BY <1>1, <1>2, <2>1, <2>2 DEF Events, Turns, Progress
    <2>4. \A i \in Jobs \ {j}, o \in {"failed", "completed"} : <<i, o>> \in audit' => <<i, o>> \in audit
      BY <2>2
    <2> QED
      BY <1>2, <1>t, <2>1, <2>3, <2>4, TurnKeepsAudit
  <1>4. CASE Release(j)
    <2>1. Move(j, "done") /\ audit' = audit /\ job[j].phase = "audited"
      BY <1>4 DEF Release
    <2>2. Events(j)'
      BY <1>1, <1>2, <2>1 DEF Events, Turns
    <2> QED
      BY <1>2, <1>t, <2>1, <2>2, TurnKeepsAudit
  <1>5. CASE Fail(j)
    BY <1>5, <1>t, RollbackAudit DEF Fail
  <1>6. CASE Crash(j)
    BY <1>6, <1>t, RollbackAudit DEF Crash
  <1> QED
    BY <1>3, <1>4, <1>5, <1>6

\* What the audit trail says of a purge or a wipe is what happened.
THEOREM SpecAuditTellsOutcome == Spec => []AuditTellsOutcome
  <1>1. Init => AuditInv
    <2> SUFFICES ASSUME Init PROVE AuditInv
      OBVIOUS
    <2>1. RowsSettled /\ \A j \in Jobs : job[j].phase = "idle" /\ Events(j)
      BY DEF Init, RowsSettled, NoJob, Events
    <2> QED
      BY <2>1, InitTypeOK DEF AuditInv
  <1>2. AuditInv /\ [Next]_vars => AuditInv'
    <2> SUFFICES ASSUME AuditInv, [Next]_vars PROVE AuditInv'
      OBVIOUS
    <2>1. TypeOK'
      BY NextTypeOK DEF AuditInv
    <2>2. CASE UNCHANGED vars
      <3>1. UNCHANGED <<place, rows, writer, job, locks, audit, overlap>>
        BY <2>2 DEF vars
      <3>2. RowsSettled'
        BY <3>1 DEF AuditInv, RowsSettled
      <3>3. ASSUME NEW j \in Jobs, job'[j].phase # "idle" PROVE BeforeSettled(j)' /\ Progress(j)'
        <4>1. BeforeSettled(j) /\ Progress(j)
          BY <3>1, <3>3 DEF AuditInv
        <4>2. BeforeSettled(j)'
          BY <3>1, <4>1 DEF BeforeSettled, Known
        <4> QED
          BY <3>1, <4>1, <4>2 DEF Progress, Unfindable, Running
      <3>4. ASSUME NEW j \in Jobs PROVE Events(j)'
        BY <3>1 DEF AuditInv, Events
      <3> QED
        BY <2>1, <3>2, <3>3, <3>4 DEF AuditInv
    <2> QED
      BY <2>1, <2>2, NextSteps, WritersAudit, StartsAudit, DeletesAudit, EndsAudit DEF Steps
  <1> QED
    BY <1>1, <1>2, AuditInvAudit, PTL DEF Spec

(***************************************************************************)
(* What a deletion leaves behind.  A request and a job that are both under *)
(* way have met (Met); a job accounts for every sale and line at its place *)
(* by having doomed it or by having met its writer.                        *)
(***************************************************************************)
Excused(w) == \E j \in Jobs : <<w, j>> \in overlap

Met ==
  \A w \in Writers : writer[w].phase = "begun" =>
    /\ \A j \in Jobs : job[j].phase \in Running => <<w, j>> \in overlap
    /\ place[writer[w].store] = "gone" => Excused(w)

Accounted(j) ==
  /\ job[j].phase \in {"locked", "lines", "rows"} => job[j].op # "delete"
  /\ job[j].phase = "checked" => job[j].doomed = {}
  /\ \A x \in job[j].doomed : job[j].at = Tenant \/ x.store = job[j].at
  /\ \A x \in At(job[j].at) :
       /\ job[j].phase = "checked" /\ x.kind \in {"sale", "line"} => Excused(x.by)
       /\ job[j].phase = "lines" /\ x.kind = "line" => x \in job[j].doomed \/ Excused(x.by)
       /\ job[j].phase = "rows" /\ x.kind \in {"sale", "line"}
            => x \in job[j].doomed \/ Excused(x.by)

OverlapInv ==
  /\ TypeOK /\ Met /\ LeftoversOverlapped
  /\ \A j \in Jobs : job[j].phase # "idle" => Accounted(j)

\* LeftoversOverlapped, row by row.
LEMMA LeftoverRows ==
  LeftoversOverlapped <=>
    \A x \in rows :
      /\ x.kind \in {"sale", "line"} /\ place[x.store] = "gone" => Excused(x.by)
      /\ x.kind = "line" /\ SaleOf(x) \notin rows => Excused(x.by)
  BY DEF LeftoversOverlapped, Excused, SaleOf

\* A job that is left alone stays accounted for while rows vanish.
LEMMA OthersAccounted ==
  ASSUME NEW i \in Jobs, Accounted(i), job'[i] = job[i], rows' \subseteq rows, overlap \subseteq overlap'
  PROVE  Accounted(i)'
  <1>1. \A w : Excused(w) => Excused(w)'
    BY DEF Excused
  <1> QED
    BY <1>1 DEF Accounted, At

\* A step of job j that moves it on with the rows and places as they are.
LEMMA TurnKeepsOverlap ==
  ASSUME OverlapInv, TypeOK', NEW j \in Jobs, NEW ph, NEW doomed, NEW before, NEW committed,
         Turns(j, ph, doomed, before, committed), UNCHANGED <<place, rows, writer, overlap>>,
         ph \in Running => job[j].phase \in Running, Accounted(j)'
  PROVE  OverlapInv'
  <1>1. Met'
    BY DEF OverlapInv, Met, Turns, Excused, Running
  <1>2. LeftoversOverlapped'
    BY DEF OverlapInv, LeftoversOverlapped
  <1>3. \A i \in Jobs \ {j} : job'[i].phase # "idle" => Accounted(i)'
    BY OthersAccounted DEF OverlapInv, Turns
  <1> QED
    BY <1>1, <1>2, <1>3 DEF OverlapInv

LEMMA RollbackOverlap ==
  ASSUME OverlapInv, TypeOK', NEW j \in Jobs, NEW ph \in {"failed", "crashed"}, Rollback(j, ph),
         job[j].phase # "idle", UNCHANGED <<place, rows, writer, overlap>>
  PROVE  OverlapInv'
  <1>1. ph \in Phases /\ ph \notin Running /\ TypeOK
    BY DEF Phases, Running, Holding, OverlapInv
  <1> DEFINE b == IF job[j].committed THEN job[j].before ELSE {}
  <1>2. Turns(j, ph, {}, b, job[j].committed)
    BY <1>1, RollbackTurns
  <1> HIDE DEF b
  <1>3. Accounted(j)'
    BY <1>2 DEF Accounted, Turns
  <1> QED
    BY <1>1, <1>2, <1>3, TurnKeepsOverlap

LEMMA WritersOverlap ==
  ASSUME OverlapInv, TypeOK',
         \/ CreateTenant \/ \E s \in Stores : CreateStore(s)
         \/ \E w \in Writers, s \in Stores, k \in DOMAIN Written : WriteBegin(w, s, k)
  PROVE  OverlapInv'
  <1>t. TypeOK
    BY DEF OverlapInv
  <1>1. ASSUME UNCHANGED <<rows, writer, job, overlap>>,
               \A q \in Places : place'[q] = "gone" => place[q] = "gone"
        PROVE  OverlapInv'
    <2>1. Met'
      <3>1. \A w \in Writers : writer[w].phase = "begun" => writer[w].store \in Places
        BY <1>t DEF TypeOK, Writes, NoWriter, Answered, Places
      <3> QED
        BY <1>1, <3>1 DEF OverlapInv, Met, Excused, Running
    <2>2. LeftoversOverlapped'
      BY <1>1, <1>t, Placed DEF OverlapInv, LeftoversOverlapped
    <2>3. \A i \in Jobs : job'[i].phase # "idle" => Accounted(i)'
      BY <1>1, OthersAccounted DEF OverlapInv
    <2> QED
      BY <2>1, <2>2, <2>3 DEF OverlapInv
  <1>2. CASE CreateTenant
    BY <1>1, <1>2, <1>t DEF CreateTenant, TypeOK
  <1>3. CASE \E s \in Stores : CreateStore(s)
    BY <1>1, <1>3, <1>t DEF CreateStore, TypeOK
  <1>4. ASSUME NEW w \in Writers, NEW s \in Stores, NEW k \in DOMAIN Written, WriteBegin(w, s, k)
        PROVE  OverlapInv'
    <2>1. /\ overlap \subseteq overlap' /\ UNCHANGED <<place, rows, job>>
          /\ \A j \in Jobs : job[j].phase \in Running => <<w, j>> \in overlap'
          /\ place[s] = "here"
      BY <1>4 DEF WriteBegin
    <2>2. /\ writer'[w] = [phase |-> "begun", store |-> s, writes |-> k]
          /\ \A v \in Writers \ {w} : writer'[v] = writer[v]
      BY <1>4, <1>t DEF WriteBegin, TypeOK
    <2>3. writer'[w].store = s
      BY <2>2
    <2>4. \A v : Excused(v) => Excused(v)'
      BY <2>1 DEF Excused
    <2>5. Met'
      BY <2>1, <2>2, <2>3, <2>4 DEF OverlapInv, Met, Running
    <2>6. LeftoversOverlapped'
      BY <2>1 DEF OverlapInv, LeftoversOverlapped
    <2>7. \A i \in Jobs : job'[i].phase # "idle" => Accounted(i)'
      BY <2>1, OthersAccounted DEF OverlapInv
    <2> QED
      BY <2>5, <2>6, <2>7 DEF OverlapInv
  <1> QED
    BY <1>2, <1>3, <1>4

LEMMA CommitOverlap ==
  ASSUME OverlapInv, TypeOK', NEW w \in Writers, WriteCommit(w)
  PROVE  OverlapInv'
  <1> DEFINE new == [kind : Written[writer[w].writes], store : {writer[w].store}, by : {w}]
  <1>t. TypeOK /\ LeftoversOverlapped /\ Met
    BY DEF OverlapInv
  <1>1. writer[w].phase = "begun" /\ writer[w] \in Writes
    BY <1>t DEF WriteCommit, TypeOK, NoWriter, Answered
  <1>2. /\ rows' = rows \/ rows' = rows \cup new
        /\ UNCHANGED <<place, job, overlap>>
    BY DEF WriteCommit
  <1>3. writer'[w] = Answered /\ \A v \in Writers \ {w} : writer'[v] = writer[v]
    BY <1>t DEF WriteCommit, TypeOK
  <1>4. \A x \in new : /\ x.by = w /\ x.store = writer[w].store
                       /\ x.kind \in {"sale", "line"} => writer[w].writes = "sale"
                       /\ x.kind = "line" => SaleOf(x) \in new
    <2>1. writer[w].writes \in DOMAIN Written
      BY <1>1 DEF Writes
    <2>2. \A k \in DOMAIN Written : ("line" \in Written[k] \/ "sale" \in Written[k]) => k = "sale"
      BY DEF Written
    <2>3. "sale" \in Written["sale"]
      BY DEF Written
    <2> TAKE x \in new
    <2>4. x.by = w /\ x.store = writer[w].store /\ x.kind \in Written[writer[w].writes]
      OBVIOUS
    <2>5. x.kind = "line" => SaleOf(x) \in new
      BY <2>1, <2>2, <2>3, <2>4 DEF SaleOf
    <2> QED
      BY <2>1, <2>2, <2>4, <2>5
  <1> HIDE DEF new
  <1>5. Met'
    BY <1>2, <1>3, <1>t DEF Met, Excused, Answered, Running
  <1>6. \A v : Excused(v)' <=> Excused(v)
    BY <1>2 DEF Excused
  <1>7. \A x \in rows : /\ x.kind \in {"sale", "line"} /\ place[x.store] = "gone" => Excused(x.by)
                        /\ x.kind = "line" /\ SaleOf(x) \notin rows => Excused(x.by)
    BY <1>t, LeftoverRows
  <1>8. LeftoversOverlapped'
    <2>1. \A x \in rows' :
            /\ x.kind \in {"sale", "line"} /\ place[x.store] = "gone" => Excused(x.by)
            /\ x.kind = "line" /\ SaleOf(x) \notin rows' => Excused(x.by)
      <3> TAKE x \in rows'
      <3>1. CASE x \in rows
        BY <1>2, <1>7, <3>1
      <3>2. CASE x \notin rows
        <4>1. x \in new /\ new \subseteq rows'
          BY <1>2, <3>2
        <4>2. x.by = w /\ x.store = writer[w].store /\ (x.kind = "line" => SaleOf(x) \in rows')
          BY <1>4, <4>1
        <4>3. place[writer[w].store] = "gone" => Excused(w)
          BY <1>1, <1>t DEF Met
        <4> QED
          BY <4>2, <4>3
      <3> QED
        BY <3>1, <3>2
    <2> QED
      BY <1>2, <2>1 DEF LeftoversOverlapped, Excused, SaleOf
  <1>9. ASSUME NEW i \in Jobs, job'[i].phase # "idle" PROVE Accounted(i)'
    <2>1. Accounted(i) /\ job'[i] = job[i]
      BY <1>2, <1>9 DEF OverlapInv
    <2>2. job[i].phase \in {"checked", "lines", "rows"} => Excused(w)
      BY <1>1, <1>t DEF Met, Excused, Running
    <2>3. \A x \in At(job[i].at)' : x \in At(job[i].at) \/ x.by = w
      BY <1>2, <1>4 DEF At
    <2> QED
      BY <1>6, <2>1, <2>2, <2>3 DEF Accounted
  <1> QED
    BY <1>5, <1>8, <1>9 DEF OverlapInv

LEMMA StartsOverlap ==
  ASSUME OverlapInv, TypeOK', NEW j \in Jobs, Starts(j)
  PROVE  OverlapInv'
  <1>t. TypeOK /\ LeftoversOverlapped /\ Met
    BY DEF OverlapInv
  <1>1. PICK op \in {"delete", "purge", "wipe"}, p \in Places, ph \in {"checked", "locked"} :
          /\ job[j] = NoJob /\ Starting(j, op, p, ph)
          /\ UNCHANGED <<place, rows, writer, audit>>
          /\ ph = "checked" => \A x \in At(p) : x.kind \notin Dependencies(p)
          /\ ph = "locked" => op # "delete"
    BY DEF Starts
  <1>2. ph \in Phases /\ ph \in Running
    BY DEF Phases, Running
  <1>3. /\ job'[j] = Fresh(op, p, ph) /\ \A i \in Jobs \ {j} : job'[i] = job[i]
        /\ overlap \subseteq overlap'
        /\ \A w \in Writers : writer[w].phase = "begun" => <<w, j>> \in overlap'
    BY <1>t, <1>1, <1>2, StartingType DEF TypeOK
  <1>4. /\ job'[j].phase = ph /\ job'[j].op = op /\ job'[j].at = p /\ job'[j].doomed = {}
    BY <1>3 DEF Fresh
  <1>5. \A w : Excused(w) => Excused(w)'
    BY <1>3 DEF Excused
  <1>6. Met'
    BY <1>1, <1>3, <1>5, <1>t DEF Met, Running
  <1>7. LeftoversOverlapped'
    BY <1>1, <1>3, <1>t DEF LeftoversOverlapped
  <1>8. ASSUME ph = "checked", NEW x \in At(p), x.kind \in {"sale", "line"}
        PROVE  Excused(x.by)
    <2>1. "sale" \in Dependencies(p)
      BY DEF Dependencies
    <2>2. x \in rows /\ x.kind = "line"
      BY <1>1, <1>8, <2>1 DEF At
    <2>3. x \in Rows
      BY <1>t, <2>2 DEF TypeOK
    <2>4. SaleOf(x).kind = "sale" /\ SaleOf(x).store = x.store
      BY <2>3 DEF SaleOf, Rows
    <2>5. SaleOf(x) \notin rows
      BY <1>1, <1>8, <2>1, <2>4 DEF At
    <2> QED
      BY <1>t, <2>2, <2>5, LeftoverRows
  <1>9. Accounted(j)'
    <2>1. At(job[j].at)' = At(p)
      BY <1>1, <1>4 DEF At
    <2> QED
      BY <1>1, <1>4, <1>5, <1>8, <2>1 DEF Accounted
  <1>10. \A i \in Jobs \ {j} : job'[i].phase # "idle" => Accounted(i)'
    BY <1>1, <1>3, OthersAccounted DEF OverlapInv
  <1> QED
    BY <1>6, <1>7, <1>9, <1>10 DEF OverlapInv

LEMMA DeletesOverlap ==
  ASSUME OverlapInv, TypeOK', NEW j \in Jobs, DeleteLines(j) \/ DeleteRows(j)
  PROVE  OverlapInv'
  <1>t. TypeOK /\ LeftoversOverlapped /\ job[j].phase # "idle"
    BY DEF OverlapInv, DeleteLines, DeleteRows
  <1>1. Accounted(j) /\ job[j] \in Deletions /\ UNCHANGED <<place, rows, writer, overlap>>
    BY <1>t, Begun DEF OverlapInv, DeleteLines, DeleteRows
  <1>2. \A w : Excused(w)' <=> Excused(w)
    BY <1>1 DEF Excused
  <1>3. CASE DeleteLines(j)
    <2>1. job[j].phase = "locked" /\ Turns(j, "lines", LinesOf(job[j].at), Seen(j), job[j].committed)
      BY <1>3, <1>t, LinesTurn DEF DeleteLines
    <2>2. At(job[j].at)' = At(job[j].at)
      BY <1>1, <2>1 DEF At, Turns
    <2>3. ASSUME NEW x \in At(job[j].at), x.kind = "line", x \notin LinesOf(job[j].at)
          PROVE  Excused(x.by)
      <3>1. x \in rows /\ SaleOf(x) \notin rows
        BY <2>3 DEF At, LinesOf, SaleOf
      <3> QED
        BY <1>t, <2>3, <3>1, LeftoverRows
    <2>4. \A x \in LinesOf(job[j].at) : job[j].at = Tenant \/ x.store = job[j].at
      BY DEF LinesOf, At
    <2>5. Accounted(j)'
      BY <1>1, <1>2, <2>1, <2>2, <2>3, <2>4 DEF Accounted, Turns
    <2> QED
      BY <1>1, <2>1, <2>5, TurnKeepsOverlap DEF Running
  <1>4. CASE DeleteRows(j)
    <2>1. job[j].phase = "lines"
      BY <1>4 DEF DeleteRows
    <2>2. CASE Rollback(j, "failed")
      BY <1>1, <1>t, <2>2, RollbackOverlap
    <2>3. CASE Turns(j, "rows", job[j].doomed \cup {x \in Seen(j) : x.kind # "line"},
                     job[j].before, job[j].committed)
      <3>1. At(job[j].at)' = At(job[j].at)
        BY <1>1, <2>3 DEF At, Turns
      <3>2. "sale" \in Known(job[j].op)
        BY <1>1, <2>1 DEF Accounted, Deletions, Known
      <3>3. \A x \in At(job[j].at) : x.kind = "sale" => x \in Seen(j)
        BY <3>2 DEF Seen
      <3>4. \A x \in Seen(j) : job[j].at = Tenant \/ x.store = job[j].at
        BY DEF Seen, At
      <3>5. \A x \in job'[j].doomed : job[j].at = Tenant \/ x.store = job[j].at
        BY <1>1, <2>3, <3>4 DEF Accounted, Turns
      <3>6. \A x \in At(job[j].at) : x.kind \in {"sale", "line"} =>
              x \in job'[j].doomed \/ Excused(x.by)
        BY <1>1, <2>1, <2>3, <3>3 DEF Accounted, Turns
      <3>7. Accounted(j)'
        BY <1>1, <1>2, <2>1, <2>3, <3>1, <3>5, <3>6 DEF Accounted, Turns
      <3> QED
        BY <1>1, <2>1, <2>3, <3>7, TurnKeepsOverlap DEF Running
    <2> QED
      BY <1>4, <1>t, <2>2, <2>3, RowsTurn
  <1> QED
    BY <1>3, <1>4

LEMMA PlaceOverlap ==
  ASSUME OverlapInv, TypeOK', NEW j \in Jobs, DeletePlace(j)
  PROVE  OverlapInv'
  <1>t. TypeOK /\ LeftoversOverlapped /\ Met /\ job[j].phase # "idle"
    BY DEF OverlapInv, DeletePlace
  <1>1. /\ Accounted(j) /\ job[j] \in Deletions /\ UNCHANGED <<writer, overlap>>
        /\ job[j].phase \in {"checked", "rows"} /\ job[j].phase \in Running
    BY <1>t, Begun DEF OverlapInv, DeletePlace, Running
  <1>2. CASE Rollback(j, "failed") /\ UNCHANGED <<rows, place>>
    BY <1>1, <1>2, <1>t, RollbackOverlap
  <1>3. CASE Commits(j)
    <2>1. /\ Turns(j, "committed", {}, job[j].before, TRUE)
          /\ rows' = rows \ job[j].doomed /\ rows' \subseteq rows
      BY <1>3 DEF Commits, Left
    <2>2. \A q \in Places : place'[q] = "gone" =>
            place[q] = "gone" \/ job[j].at \in {q, Tenant}
      BY <1>3 DEF Commits
    <2>3. \A w : Excused(w)' <=> Excused(w)
      BY <1>1 DEF Excused
    <2>4. \A x \in At(job[j].at) \cap rows' : x.kind \in {"sale", "line"} => Excused(x.by)
      BY <1>1, <2>1 DEF Accounted
    <2>5. LeftoversOverlapped'
      <3>1. \A x \in rows' :
              /\ x.kind \in {"sale", "line"} /\ place'[x.store] = "gone" => Excused(x.by)
              /\ x.kind = "line" /\ SaleOf(x) \notin rows' => Excused(x.by)
        <4> TAKE x \in rows'
        <4>1. x \in rows /\ x.store \in Places /\ x \in Rows
          BY <1>t, <2>1, Placed DEF TypeOK
        <4>2. x.kind \in {"sale", "line"} /\ place'[x.store] = "gone" => Excused(x.by)
          <5>1. CASE place[x.store] = "gone"
            BY <1>t, <4>1, <5>1, LeftoverRows
          <5>2. CASE place[x.store] # "gone" /\ place'[x.store] = "gone"
            BY <2>2, <2>4, <4>1, <5>2 DEF At
          <5> QED
            BY <5>1, <5>2
        <4>3. x.kind = "line" /\ SaleOf(x) \notin rows' => Excused(x.by)
          <5>1. CASE SaleOf(x) \notin rows
            BY <1>t, <4>1, <5>1, LeftoverRows
          <5>2. CASE SaleOf(x) \in rows /\ SaleOf(x) \notin rows'
            <6>1. SaleOf(x) \in job[j].doomed
              BY <2>1, <5>2
            <6>2. SaleOf(x).store = x.store
              BY <4>1 DEF SaleOf, Rows
            <6>3. x \in At(job[j].at)
              BY <1>1, <4>1, <6>1, <6>2 DEF Accounted, At
            <6> QED
              BY <2>4, <6>3
          <5> QED
            BY <5>1, <5>2
        <4> QED
          BY <4>2, <4>3
      <3> QED
        BY <1>1, <3>1 DEF LeftoversOverlapped, Excused, SaleOf
    <2>6. Met'
      <3>1. \A w \in Writers : writer[w].phase = "begun" => writer[w].store \in Places
        BY <1>t DEF TypeOK, Writes, NoWriter, Answered, Places
      <3>2. \A w \in Writers : writer[w].phase = "begun" => Excused(w)
        BY <1>1, <1>t DEF Met, Excused
      <3>3. \A i \in Jobs : job'[i].phase \in Running => job[i].phase \in Running
        BY <2>1 DEF Turns, Running
      <3> QED
        BY <1>1, <1>t, <2>3, <3>2, <3>3 DEF Met, Running
    <2>7. Accounted(j)'
      BY <2>1 DEF Accounted, Turns
    <2>8. \A i \in Jobs \ {j} : job'[i].phase # "idle" => Accounted(i)'
      BY <1>1, <2>1, OthersAccounted DEF OverlapInv, Turns
    <2> QED
      BY <2>5, <2>6, <2>7, <2>8 DEF OverlapInv
  <1> QED
    BY <1>2, <1>3, <1>t, PlaceTurns

LEMMA EndsOverlap ==
  ASSUME OverlapInv, TypeOK', NEW j \in Jobs,
         \/ \E kept \in BOOLEAN : Record(j, kept)
         \/ Release(j) \/ Fail(j) \/ Crash(j)
  PROVE  OverlapInv'
  <1>t. TypeOK /\ job[j].phase # "idle" /\ UNCHANGED <<place, rows, writer, overlap>>
    BY DEF OverlapInv, Record, Release, Fail, Crash, Running, Holding
  <1>1. Accounted(j)
    BY <1>t DEF OverlapInv
  <1>2. ASSUME NEW ph \in {"audited", "done"}, Move(j, ph) PROVE OverlapInv'
    <2>1. ph \in Phases /\ ph \notin Running
      BY DEF Phases, Holding, Running
    <2>2. Turns(j, ph, job[j].doomed, job[j].before, job[j].committed)
      BY <1>2, <1>t, <2>1, MoveTurns
    <2>3. Accounted(j)'
      BY <1>1, <2>2 DEF Accounted, Turns
    <2> QED
      BY <1>t, <2>1, <2>2, <2>3, TurnKeepsOverlap
  <1>3. ASSUME NEW kept \in BOOLEAN, Record(j, kept) PROVE OverlapInv'
    BY <1>2, <1>3 DEF Record
  <1>4. CASE Release(j)
    BY <1>2, <1>4 DEF Release
  <1>5. CASE Fail(j) \/ Crash(j)
    BY <1>5, <1>t, RollbackOverlap DEF Fail, Crash
  <1> QED
    BY <1>3, <1>4, <1>5

\* A sale or line left in a store that is gone, or a line without its sale,
\* was written by a request that ran during a deletion.
THEOREM SpecLeftoversOverlapped == Spec => []LeftoversOverlapped
  <1>1. Init => OverlapInv
    <2> SUFFICES ASSUME Init PROVE OverlapInv
      OBVIOUS
    <2>1. Met /\ LeftoversOverlapped /\ \A j \in Jobs : job[j].phase = "idle"
      BY DEF Init, Met, LeftoversOverlapped, NoJob, NoWriter
    <2> QED
      BY <2>1, InitTypeOK DEF OverlapInv
  <1>2. OverlapInv /\ [Next]_vars => OverlapInv'
    <2> SUFFICES ASSUME OverlapInv, [Next]_vars PROVE OverlapInv'
      OBVIOUS
    <2>1. TypeOK'
      BY NextTypeOK DEF OverlapInv
    <2>2. CASE UNCHANGED vars
      BY <2>1, <2>2 DEF vars, OverlapInv, Met, LeftoversOverlapped, Accounted, At, Excused, Running
    <2> QED
      BY <2>1, <2>2, NextSteps, WritersOverlap, CommitOverlap, StartsOverlap, DeletesOverlap,
         PlaceOverlap, EndsOverlap DEF Steps
  <1>3. OverlapInv => LeftoversOverlapped
    BY DEF OverlapInv
  <1> QED
    BY <1>1, <1>2, <1>3, PTL DEF Spec
=============================================================================
