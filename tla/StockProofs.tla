---------------------------- MODULE StockProofs -----------------------------
(***************************************************************************)
(* Tags, assignments and sold items, for any items, tags, issues and       *)
(* requests.  Every step changes the row and the line of one item, so the  *)
(* proof is in two parts: what a change of one item must respect for the   *)
(* invariant to survive (Respects), and that every action respects it.     *)
(***************************************************************************)
EXTENDS Stock, FiniteSetTheorems, TLAPS

Exist(s) == s \notin {"NONE", "GONE"}
SavedStates == {"PENDING_EPC", "SAVED_EPC_FINAL"}

\* No two rows carry one tag, a row that is not there carries none, and no two
\* active assignments are of one tag.
OneTag ==
  /\ \A u, v \in Items : row[u].epc # NoEpc /\ row[u].epc = row[v].epc => u = v
  /\ \A u \in Items : ~Exists(u) => row[u].epc = NoEpc
  /\ \A a, b \in assigned : a.epc = b.epc => a = b

\* An import is alone with its item until it commits, a line that is being
\* saved is there, one that is being assigned is saved, and an issue is about
\* an item that was made.
InFlight ==
  /\ \A r \in Requests : Reading(r, "Import") =>
       /\ row[req[r].item].status = "NONE" /\ line[req[r].item].state = "NONE"
       /\ \A t \in Requests : Reading(t, "Import") /\ req[t].item = req[r].item => t = r
  /\ \A r \in Requests : Reading(r, "Save") => line[req[r].item].state # "NONE"
  /\ \A r \in Requests : Reading(r, "Assign") => Saved(req[r].item) /\ req[r].epc # NoEpc
  /\ \A r \in Requests : Reading(r, "Mark") \/ Reading(r, "Resolve") =>
       row[req[r].item].status # "NONE"

\* The line of an assignment is final.
AssignedFinal == \A a \in assigned : line[a.item].state = "SAVED_EPC_FINAL"

IInv ==
  /\ TypeOK /\ OneTag /\ InFlight /\ AssignedFinal
  /\ AssignmentBacked /\ SoldStaysSold /\ SavedLineKeepsItem

(***************************************************************************)
(* Operators.                                                              *)
(***************************************************************************)
\* A row that a request flushes has each column from the request, where the
\* request changed it, and from the table elsewhere.
LEMMA FlushFields ==
  ASSUME NEW old \in Rows, NEW new \in Rows, NEW cur \in Rows
  PROVE  /\ Flush(old, new, cur) \in Rows
         /\ Flush(old, new, cur).epc = IF new.epc = old.epc THEN cur.epc ELSE new.epc
         /\ Flush(old, new, cur).status = IF new.status = old.status THEN cur.status ELSE new.status
  BY DEF Flush, Rows

\* What a request keeps, by its kind.
LEMMA KeptOf ==
  ASSUME TypeOK, NEW r \in Requests, NEW op \in Ops, Reading(r, op)
  PROVE  /\ req[r].item \in Items /\ req[r].epc \in Epcs \cup {NoEpc} /\ req[r].seen \in Rows
         /\ op = "Release" => req[r].asked \in SUBSET Assignments
         /\ op = "Mark" => /\ req[r].asked.issue \in Issues /\ req[r].asked.keep \in BOOLEAN
                           /\ req[r].asked.free \in SUBSET Assignments
         /\ op = "Resolve" => req[r].asked \in {"ACTIVE", "PENDING"}
  <1>1. req[r] \in Plain \cup Releasing \cup Marking \cup Resolving
    BY DEF TypeOK, Reading, Answered, Answers, Idle, Ops
  <1>2. CASE req[r] \in Plain
    BY <1>2 DEF Reading, Kept, Plain
  <1>3. CASE req[r] \in Releasing
    BY <1>3 DEF Reading, Kept, Releasing
  <1>4. CASE req[r] \in Marking
    BY <1>4 DEF Reading, Kept, Marking
  <1>5. CASE req[r] \in Resolving
    BY <1>5 DEF Reading, Kept, Resolving
  <1> QED
    BY <1>1, <1>2, <1>3, <1>4, <1>5

LEMMA OneAtMost ==
  ASSUME NEW S, \A x, y \in S : x = y
  PROVE  Cardinality(S) <= 1
  <1>1. CASE S = {}
    BY <1>1, FS_EmptySet
  <1>2. CASE \E x \in S : S = {x}
    BY <1>2, FS_Singleton
  <1> QED
    BY <1>1, <1>2

\* The invariant says of cardinalities what OneTag says of rows.
LEMMA OneTagCounts == OneTag => TagOnOneItem
  <1> SUFFICES ASSUME OneTag, NEW e \in Epcs
               PROVE  /\ Cardinality(Holder(e)) <= 1
                      /\ Cardinality({a \in assigned : a.epc = e}) <= 1
    BY DEF TagOnOneItem
  <1>1. \A u, v \in Holder(e) : u = v
    BY NoEpcAssumption DEF OneTag, Holder
  <1>2. \A a, b \in {c \in assigned : c.epc = e} : a = b
    BY DEF OneTag
  <1> QED
    BY <1>1, <1>2, OneAtMost

(***************************************************************************)
(* What a step that gives item u the row n and the line l must respect.    *)
(***************************************************************************)
\* The row and the line themselves.
Fits(u, n, l) ==
  /\ n \in Rows /\ l \in Lines
  /\ ~Exist(n.status) => n.epc = NoEpc
  /\ n.epc \notin {NoEpc, row[u].epc} => ~Taken(n.epc, u)
  /\ n.status = "NONE" => row[u].status = "NONE"
  /\ l.state = "NONE" => line[u].state = "NONE"
  /\ l.state \in SavedStates => Exist(n.status)
  /\ Saved(u) => l.state \in SavedStates
  /\ line[u].state = "SAVED_EPC_FINAL" => l.state = "SAVED_EPC_FINAL"

\* The assignments: at most one is made, of a tag that has none, and those of
\* a tag that the row loses are orphaned.
Books(u, n, l) ==
  /\ orphaned \subseteq orphaned' /\ orphaned' \subseteq Assignments
  /\ \/ assigned' \subseteq assigned
     \/ \E m \in Assignments :
          /\ assigned' = assigned \cup {m}
          /\ m.item = u /\ l.state = "SAVED_EPC_FINAL"
          /\ n.epc = m.epc \/ m \in orphaned'
          /\ \A b \in assigned : b.epc # m.epc
  /\ n.epc # row[u].epc =>
       \A a \in Active(row[u].epc, u) \cap assigned' : a \in orphaned'

\* What customers have.
Goods(u, n) ==
  /\ out' \subseteq out \cup {u}
  /\ revived \subseteq revived' /\ revived' \subseteq Items
  /\ u \in out' => n.status = "SOLD" \/ u \in revived'

\* The requests: none begins, and no import of u is left if u was made.
Calm(u, n, l) ==
  /\ req' \in [Requests -> {Idle} \cup Plain \cup Releasing \cup Marking \cup Resolving
                           \cup Answered]
  /\ \A t \in Requests, op \in Ops : Reading(t, op)' => Reading(t, op) /\ req'[t] = req[t]
  /\ \A t \in Requests : Reading(t, "Import")' /\ req[t].item = u =>
       n.status = "NONE" /\ l.state = "NONE"

Respects(u, n, l) ==
  /\ row' = [row EXCEPT ![u] = n] /\ line' = [line EXCEPT ![u] = l]
  /\ Fits(u, n, l) /\ Books(u, n, l) /\ Goods(u, n) /\ Calm(u, n, l)

LEMMA RespectsIInv ==
  ASSUME IInv, NEW u \in Items, NEW n, NEW l, Respects(u, n, l)
  PROVE  IInv'
  <1>t. /\ row \in [Items -> Rows] /\ line \in [Items -> Lines]
        /\ assigned \subseteq Assignments /\ out \subseteq Items
    BY DEF IInv, TypeOK
  <1>r. /\ row'[u] = n /\ line'[u] = l
        /\ \A v \in Items \ {u} : row'[v] = row[v] /\ line'[v] = line[v]
    BY <1>t DEF Respects
  <1>1. TypeOK'
    <2>1. row' \in [Items -> Rows] /\ line' \in [Items -> Lines]
      BY <1>t DEF Respects, Fits
    <2>2. assigned' \subseteq Assignments /\ orphaned' \subseteq Assignments
      BY <1>t DEF Respects, Books
    <2>3. out' \subseteq Items /\ revived' \subseteq Items
      BY <1>t DEF Respects, Goods
    <2> QED
      BY <2>1, <2>2, <2>3 DEF TypeOK, Respects, Calm
  <1>2. OneTag'
    <2>1. \A v, w \in Items : row'[v].epc # NoEpc /\ row'[v].epc = row'[w].epc => v = w
      <3>1. \A v \in Items \ {u} : n.epc # NoEpc => row[v].epc # n.epc
        BY <1>t DEF Respects, Fits, Taken, Holder, IInv, OneTag
      <3> QED
        BY <1>r, <3>1 DEF IInv, OneTag
    <2>2. \A v \in Items : ~Exists(v)' => row'[v].epc = NoEpc
      BY <1>r DEF Respects, Fits, Exists, Exist, IInv, OneTag
    <2>3. \A a, b \in assigned' : a.epc = b.epc => a = b
      BY DEF Respects, Books, IInv, OneTag
    <2> QED
      BY <2>1, <2>2, <2>3 DEF OneTag
  <1>3. InFlight'
    <2>1. ASSUME NEW t \in Requests, NEW op \in Ops, Reading(t, op)'
          PROVE  Reading(t, op) /\ req'[t] = req[t] /\ req[t].item \in Items
      BY <2>1, KeptOf DEF Respects, Calm, IInv
    <2>2. ASSUME NEW t \in Requests, Reading(t, "Import")'
          PROVE  /\ row'[req'[t].item].status = "NONE" /\ line'[req'[t].item].state = "NONE"
                 /\ \A w \in Requests : Reading(w, "Import")' /\ req'[w].item = req'[t].item => w = t
      <3>1. Reading(t, "Import") /\ req'[t] = req[t] /\ req[t].item \in Items
        BY <2>1, <2>2 DEF Ops
      <3>2. row'[req'[t].item].status = "NONE" /\ line'[req'[t].item].state = "NONE"
        BY <1>r, <2>2, <3>1 DEF Respects, Calm, IInv, InFlight
      <3>3. ASSUME NEW w \in Requests, Reading(w, "Import")', req'[w].item = req'[t].item
            PROVE  w = t
        <4>1. Reading(w, "Import") /\ req'[w] = req[w]
          BY <2>1, <3>3 DEF Ops
        <4> QED
          BY <3>1, <3>3, <4>1 DEF IInv, InFlight
      <3> QED
        BY <3>2, <3>3
    <2>3. ASSUME NEW t \in Requests, Reading(t, "Assign")' 
          PROVE  Saved(req[t].item)' /\ req'[t].epc # NoEpc
      <3>1. Reading(t, "Assign") /\ req'[t] = req[t] /\ req[t].item \in Items
        BY <2>1, <2>3 DEF Ops
      <3> QED
        BY <1>r, <3>1 DEF IInv, InFlight, Respects, Fits, Saved, SavedStates
    <2>5. ASSUME NEW t \in Requests, Reading(t, "Save")' PROVE line'[req'[t].item].state # "NONE"
      <3>1. Reading(t, "Save") /\ req'[t] = req[t] /\ req[t].item \in Items
        BY <2>1, <2>5 DEF Ops
      <3> QED
        BY <1>r, <3>1 DEF IInv, InFlight, Respects, Fits
    <2>4. ASSUME NEW t \in Requests, Reading(t, "Mark")' \/ Reading(t, "Resolve")'
          PROVE  row'[req'[t].item].status # "NONE"
      <3>1. /\ Reading(t, "Mark") \/ Reading(t, "Resolve")
            /\ req'[t] = req[t] /\ req[t].item \in Items
        BY <2>1, <2>4 DEF Ops
      <3> QED
        BY <1>r, <3>1 DEF IInv, InFlight, Respects, Fits
    <2> QED
      BY <2>2, <2>3, <2>4, <2>5 DEF InFlight
  <1>4. AssignedFinal'
    BY <1>t, <1>r DEF Respects, Books, Fits, IInv, AssignedFinal, Assignments
  <1>5. AssignmentBacked'
    <2> SUFFICES ASSUME NEW a \in assigned' PROVE row'[a.item].epc = a.epc \/ a \in orphaned'
      BY DEF AssignmentBacked
    <2>1. CASE a \in assigned
      <3>1. a.item \in Items /\ (row[a.item].epc = a.epc \/ a \in orphaned)
        BY <1>t, <2>1 DEF IInv, AssignmentBacked, Assignments
      <3> QED
        BY <1>r, <2>1, <3>1 DEF Respects, Books, Active
    <2>2. CASE a \notin assigned
      BY <1>r, <2>2 DEF Respects, Books
    <2> QED
      BY <2>1, <2>2
  <1>6. SoldStaysSold'
    BY <1>t, <1>r DEF Respects, Goods, IInv, SoldStaysSold
  <1>7. SavedLineKeepsItem'
    BY <1>r DEF Respects, Fits, IInv, SavedLineKeepsItem, Saved, SavedStates, Exists, Exist
  <1> QED
    BY <1>1, <1>2, <1>3, <1>4, <1>5, <1>6, <1>7 DEF IInv

(***************************************************************************)
(* Parts that actions have in common.                                      *)
(***************************************************************************)
\* What is there fits.
LEMMA CurrentFits ==
  ASSUME IInv, NEW u \in Items
  PROVE  Fits(u, row[u], line[u])
  BY DEF IInv, TypeOK, OneTag, SavedLineKeepsItem, Fits, Saved, SavedStates, Exists, Exist

\* An item that was made, or has a line, has no import under way.
LEMMA NoImport ==
  ASSUME IInv, NEW u \in Items, row[u].status # "NONE" \/ line[u].state # "NONE"
  PROVE  \A t \in Requests : Reading(t, "Import") => req[t].item # u
  BY DEF IInv, InFlight

LEMMA AnswerCalm ==
  ASSUME IInv, NEW r \in Requests, NEW op \in Ops, Reading(r, op),
         NEW a \in Answers, Answer(r, a), NEW u, NEW n, NEW l,
         \A t \in Requests \ {r} : Reading(t, "Import") /\ req[t].item = u =>
           n.status = "NONE" /\ l.state = "NONE"
  PROVE  Calm(u, n, l)
  <1>1. [op |-> req[r].op, answer |-> a] \in Answered
    BY DEF Answered, Reading
  <1>2. req \in [Requests -> {Idle} \cup Plain \cup Releasing \cup Marking \cup Resolving
                           \cup Answered]
    BY DEF IInv, TypeOK
  <1>3. /\ req'[r] = [op |-> req[r].op, answer |-> a]
        /\ \A t \in Requests \ {r} : req'[t] = req[t]
    BY <1>2 DEF Answer
  <1>4. \A o \in Ops : ~Reading(r, o)'
    BY <1>3 DEF Reading, Answers
  <1>5. req' \in [Requests -> {Idle} \cup Plain \cup Releasing \cup Marking \cup Resolving
                           \cup Answered]
    BY <1>1, <1>2 DEF Answer
  <1> QED
    BY <1>3, <1>4, <1>5 DEF Calm, Reading

LEMMA StillCalm ==
  ASSUME IInv, UNCHANGED req, NEW u \in Items, NEW n, NEW l,
         row[u].status # "NONE" \/ line[u].state # "NONE"
  PROVE  Calm(u, n, l)
  BY NoImport DEF Calm, Reading, IInv, TypeOK

LEMMA FailIInv ==
  ASSUME IInv, NEW r \in Requests, NEW op \in Ops, Reading(r, op), NEW a \in Answers, Fail(r, a)
  PROVE  IInv'
  <1> DEFINE u == req[r].item
  <1>1. u \in Items
    BY KeptOf DEF IInv
  <1>2. row' = [row EXCEPT ![u] = row[u]] /\ line' = [line EXCEPT ![u] = line[u]]
    BY <1>1 DEF Fail, IInv, TypeOK
  <1>3. Calm(u, row[u], line[u])
    BY AnswerCalm DEF Fail, IInv, InFlight
  <1>4. Books(u, row[u], line[u]) /\ Goods(u, row[u])
    BY DEF Fail, Books, Goods, IInv, TypeOK, SoldStaysSold
  <1> QED
    BY <1>1, <1>2, <1>3, <1>4, CurrentFits, RespectsIInv DEF Respects

\* A request that only reads.
LEMMA BeginIInv ==
  ASSUME IInv, NEW r \in Requests, NEW op \in Ops, NEW u \in Items, NEW e \in Epcs \cup {NoEpc},
         NEW asked, Begin(r, op, u, e, asked),
         [op |-> op, item |-> u, epc |-> e, seen |-> row[u], asked |-> asked, answer |-> "none"]
           \in Plain \cup Releasing \cup Marking \cup Resolving,
         op = "Import" => Fresh(u),
         op = "Save" => line[u].state # "NONE",
         op = "Assign" => Saved(u) /\ e # NoEpc,
         op \in {"Mark", "Resolve"} => row[u].status # "NONE"
  PROVE  IInv'
  <1>1. TypeOK'
    BY DEF Begin, IInv, TypeOK
  <1>2. /\ req'[r].op = op /\ req'[r].item = u /\ req'[r].epc = e /\ req[r] = Idle
        /\ \A t \in Requests \ {r} : req'[t] = req[t]
    BY DEF Begin, IInv, TypeOK
  <1>3. InFlight'
    <2>1. \A t \in Requests \ {r}, o \in Ops : Reading(t, o)' => Reading(t, o)
      BY <1>2 DEF Reading
    <2>2. \A o \in Ops : Reading(r, o)' => o = op
      BY <1>2 DEF Reading
    <2>3. \A t \in Requests \ {r} : op = "Import" /\ Reading(t, "Import") => req[t].item # u
      BY DEF Fresh
    <2>4. UNCHANGED <<row, line>>
      BY DEF Begin
    <2>5. \A t \in Requests : Reading(t, "Import")' =>
            /\ row[req'[t].item].status = "NONE" /\ line[req'[t].item].state = "NONE"
            /\ \A w \in Requests : Reading(w, "Import")' /\ req'[w].item = req'[t].item => w = t
      BY <1>2, <2>1, <2>2, <2>3 DEF IInv, InFlight, Fresh, Ops
    <2>6. /\ \A t \in Requests : Reading(t, "Assign")' => Saved(req'[t].item) /\ req'[t].epc # NoEpc
          /\ \A t \in Requests : Reading(t, "Save")' => line[req'[t].item].state # "NONE"
      BY <1>2, <2>1, <2>2 DEF IInv, InFlight, Ops
    <2>7. \A t \in Requests : Reading(t, "Mark")' \/ Reading(t, "Resolve")' =>
            row[req'[t].item].status # "NONE"
      BY <1>2, <2>1, <2>2 DEF IInv, InFlight, Ops
    <2> QED
      BY <2>4, <2>5, <2>6, <2>7 DEF InFlight, Saved
  <1> QED
    BY <1>1, <1>3 DEF Begin, IInv, OneTag, Exists, AssignedFinal, AssignmentBacked,
                      SoldStaysSold, SavedLineKeepsItem, Saved

(***************************************************************************)
(* The actions.                                                            *)
(***************************************************************************)
LEMMA ReadsIInv ==
  ASSUME IInv, NEW r \in Requests, NEW u \in Items,
         \/ \E e \in Epcs : \/ ImportRead(r, u, e) \/ MigrateRead(r, u, e)
                            \/ ReplaceRead(r, u, e) \/ AssignRead(r, u, e)
                            \/ ReleaseRead(r, u, e)
         \/ SaveRead(r, u)
         \/ \E i \in Issues, rel, keep \in BOOLEAN : MarkRead(r, u, i, rel, keep)
         \/ \E life \in {"ACTIVE", "PENDING"} : ResolveRead(r, u, life)
  PROVE  IInv'
  <1>t. row[u] \in Rows /\ line[u] \in Lines /\ assigned \subseteq Assignments
    BY DEF IInv, TypeOK
  <1>a. \A e : Active(e, u) \in SUBSET Assignments
    BY <1>t DEF Active
  <1>1. ASSUME NEW e \in Epcs, NEW op \in {"Import", "Migrate", "Replace", "Assign"},
               Begin(r, op, u, e, "none"), op = "Import" => Fresh(u), op = "Assign" => Saved(u)
        PROVE  IInv'
    <2>1. [op |-> op, item |-> u, epc |-> e, seen |-> row[u], asked |-> "none", answer |-> "none"]
            \in Plain
      BY <1>t DEF Plain, Kept
    <2> QED
      BY <1>1, <2>1, BeginIInv, NoEpcAssumption DEF Ops
  <1>2. ASSUME NEW e \in Epcs, ReleaseRead(r, u, e) PROVE IInv'
    <2>1. [op |-> "Release", item |-> u, epc |-> e, seen |-> row[u], asked |-> Active(e, u),
           answer |-> "none"] \in Releasing
      BY <1>t, <1>a DEF Releasing, Kept
    <2> QED
      BY <1>2, <2>1, BeginIInv DEF ReleaseRead, Ops
  <1>3. ASSUME SaveRead(r, u) PROVE IInv'
    <2>1. [op |-> "Save", item |-> u, epc |-> line[u].epc, seen |-> row[u], asked |-> "none",
           answer |-> "none"] \in Plain
      BY <1>t DEF Plain, Kept, Lines
    <2>2. line[u].epc \in Epcs \cup {NoEpc}
      BY <1>t DEF Lines
    <2> QED
      BY <1>3, <2>1, <2>2, BeginIInv DEF SaveRead, Ops
  <1>4. ASSUME NEW i \in Issues, NEW rel \in BOOLEAN, NEW keep \in BOOLEAN,
               MarkRead(r, u, i, rel, keep)
        PROVE  IInv'
    <2> DEFINE asked == [issue |-> i, keep |-> keep \/ ~rel \/ row[u].epc = NoEpc,
                         free |-> IF rel THEN Active(row[u].epc, u) ELSE {}]
    <2>1. asked \in [issue : Issues, keep : BOOLEAN, free : SUBSET Assignments]
      BY <1>a
    <2>2. row[u].epc \in Epcs \cup {NoEpc} /\ row[u].status # "NONE"
      BY <1>t, <1>4 DEF Rows, MarkRead, Exists
    <2>3. Begin(r, "Mark", u, row[u].epc, asked)
      BY <1>4 DEF MarkRead
    <2> HIDE DEF asked
    <2>4. [op |-> "Mark", item |-> u, epc |-> row[u].epc, seen |-> row[u], asked |-> asked,
           answer |-> "none"] \in Marking
      BY <1>t, <2>1, <2>2 DEF Marking, Kept
    <2> QED
      BY <2>2, <2>3, <2>4, BeginIInv DEF Ops
  <1>5. ASSUME NEW life \in {"ACTIVE", "PENDING"}, ResolveRead(r, u, life) PROVE IInv'
    <2>1. [op |-> "Resolve", item |-> u, epc |-> NoEpc, seen |-> row[u], asked |-> life,
           answer |-> "none"] \in Resolving
      BY <1>t DEF Resolving, Kept
    <2> QED
      BY <1>5, <2>1, BeginIInv DEF ResolveRead, Exists, Ops
  <1> QED
    BY <1>1, <1>2, <1>3, <1>4, <1>5 DEF ImportRead, MigrateRead, ReplaceRead, AssignRead, Saved

\* An import, a migration, a replacement or a save gives a tag that no row has.
LEMMA ImportIInv ==
  ASSUME IInv, NEW r \in Requests, ImportCommit(r)
  PROVE  IInv'
  <1> DEFINE q == req[r]
             n == [row[q.item] EXCEPT !.epc = q.epc, !.status = "RFID"]
  <1>1. Reading(r, "Import") /\ q.item \in Items /\ q.epc \in Epcs \cup {NoEpc}
    BY KeptOf DEF ImportCommit, Ops, IInv
  <1>2. CASE Taken(q.epc, q.item)
    BY <1>1, <1>2, FailIInv DEF ImportCommit, Ops, Answers
  <1>3. CASE ~Taken(q.epc, q.item)
    <2>t. row[q.item] \in Rows /\ line[q.item] \in Lines
      BY <1>1 DEF IInv, TypeOK
    <2>1. /\ row' = [row EXCEPT ![q.item] = n] /\ Answer(r, "ok")
          /\ UNCHANGED <<line, assigned, out, revived, orphaned>>
      BY <1>3 DEF ImportCommit
    <2>2. n \in Rows /\ n.epc = q.epc /\ n.status = "RFID"
      BY <1>1, <2>t DEF Rows
    <2>3. row[q.item].status = "NONE" /\ line[q.item].state = "NONE"
      BY <1>1 DEF IInv, InFlight
    <2> HIDE DEF n
    <2>4. Fits(q.item, n, line[q.item])
      BY <1>3, <2>2, <2>3, <2>t DEF Fits, Exist, Saved, SavedStates
    <2>5. Books(q.item, n, line[q.item])
      BY <2>1, <2>3 DEF Books, Active, IInv, TypeOK, AssignedFinal
    <2>6. Goods(q.item, n)
      BY <2>1, <2>3 DEF Goods, IInv, TypeOK, SoldStaysSold
    <2>7. Calm(q.item, n, line[q.item])
      BY <1>1, <2>1, AnswerCalm DEF Ops, Answers, IInv, InFlight
    <2>8. line' = [line EXCEPT ![q.item] = line[q.item]]
      BY <1>1, <2>1 DEF IInv, TypeOK
    <2> QED
      BY <1>1, <2>1, <2>4, <2>5, <2>6, <2>7, <2>8, RespectsIInv DEF Respects
  <1> QED
    BY <1>2, <1>3

LEMMA MigrateIInv ==
  ASSUME IInv, NEW r \in Requests, MigrateCommit(r)
  PROVE  IInv'
  <1> DEFINE q == req[r]
             n == [row[q.item] EXCEPT !.epc = q.epc, !.status = "RFID"]
  <1>1. Reading(r, "Migrate") /\ q.item \in Items /\ q.epc \in Epcs \cup {NoEpc}
    BY KeptOf DEF MigrateCommit, Ops, IInv
  <1>2. CASE Fail(r, "conflict") \/ Fail(r, "taken")
    BY <1>1, <1>2, FailIInv DEF Ops, Answers
  <1>3. CASE /\ row[q.item].status = "PENDING" /\ row[q.item].epc = NoEpc /\ ~Taken(q.epc, q.item)
             /\ row' = [row EXCEPT ![q.item] = n] /\ Answer(r, "ok")
             /\ UNCHANGED <<line, assigned, out, revived, orphaned>>
    <2>t. row[q.item] \in Rows /\ line[q.item] \in Lines
      BY <1>1 DEF IInv, TypeOK
    <2>2. n \in Rows /\ n.epc = q.epc /\ n.status = "RFID"
      BY <1>1, <2>t DEF Rows
    <2> HIDE DEF n
    <2>4. Fits(q.item, n, line[q.item])
      BY <1>3, <2>2, <2>t DEF Fits, Exist, Saved, SavedStates
    <2>5. Books(q.item, n, line[q.item])
      BY <1>3, NoEpcAssumption DEF Books, Active, IInv, TypeOK, Assignments
    <2>6. Goods(q.item, n)
      BY <1>3 DEF Goods, IInv, TypeOK, SoldStaysSold
    <2>7. Calm(q.item, n, line[q.item])
      BY <1>1, <1>3, AnswerCalm, NoImport DEF Ops, Answers
    <2>8. line' = [line EXCEPT ![q.item] = line[q.item]]
      BY <1>1, <1>3 DEF IInv, TypeOK
    <2> QED
      BY <1>1, <1>3, <2>4, <2>5, <2>6, <2>7, <2>8, RespectsIInv DEF Respects
  <1> QED
    BY <1>2, <1>3 DEF MigrateCommit

LEMMA ReplaceIInv ==
  ASSUME IInv, NEW r \in Requests, ReplaceCommit(r)
  PROVE  IInv'
  <1> DEFINE q == req[r]
             n == [row[q.item] EXCEPT !.epc = q.epc]
  <1>1. Reading(r, "Replace") /\ q.item \in Items /\ q.epc \in Epcs \cup {NoEpc}
    BY KeptOf DEF ReplaceCommit, Ops, IInv
  <1>2. CASE Fail(r, "conflict") \/ Fail(r, "taken")
    BY <1>1, <1>2, FailIInv DEF Ops, Answers
  <1>3. CASE /\ row[q.item].status = "RFID" /\ ~Taken(q.epc, q.item)
             /\ row' = [row EXCEPT ![q.item] = n] /\ Answer(r, "ok")
             /\ orphaned' = orphaned \cup Active(row[q.item].epc, q.item)
             /\ UNCHANGED <<line, assigned, out, revived>>
    <2>t. row[q.item] \in Rows /\ line[q.item] \in Lines
      BY <1>1 DEF IInv, TypeOK
    <2>2. n \in Rows /\ n.epc = q.epc /\ n.status = "RFID"
      BY <1>1, <1>3, <2>t DEF Rows
    <2> HIDE DEF n
    <2>4. Fits(q.item, n, line[q.item])
      BY <1>3, <2>2, <2>t DEF Fits, Exist, Saved, SavedStates
    <2>5. Books(q.item, n, line[q.item])
      BY <1>3 DEF Books, Active, IInv, TypeOK
    <2>6. Goods(q.item, n)
      BY <1>3 DEF Goods, IInv, TypeOK, SoldStaysSold
    <2>7. Calm(q.item, n, line[q.item])
      BY <1>1, <1>3, AnswerCalm, NoImport DEF Ops, Answers
    <2>8. line' = [line EXCEPT ![q.item] = line[q.item]]
      BY <1>1, <1>3 DEF IInv, TypeOK
    <2> QED
      BY <1>1, <1>3, <2>4, <2>5, <2>6, <2>7, <2>8, RespectsIInv DEF Respects
  <1> QED
    BY <1>2, <1>3 DEF ReplaceCommit

\* save_preload_line makes the row, so the line was not saved before.
LEMMA SaveIInv ==
  ASSUME IInv, NEW r \in Requests, SaveCommit(r)
  PROVE  IInv'
  <1> DEFINE q == req[r]
             n == IF q.epc = NoEpc
                  THEN [NoRow EXCEPT !.status = "PENDING", !.life = "PENDING_EPC"]
                  ELSE [NoRow EXCEPT !.status = "RFID", !.life = "ACTIVE", !.epc = q.epc]
             l == [line[q.item] EXCEPT !.state =
                     IF q.epc = NoEpc THEN "PENDING_EPC" ELSE "SAVED_EPC_FINAL"]
             m == [epc |-> q.epc, item |-> q.item, by |-> r]
  <1>1. Reading(r, "Save") /\ q.item \in Items /\ q.epc \in Epcs \cup {NoEpc}
    BY KeptOf DEF SaveCommit, Ops, IInv
  <1>2. CASE Fail(r, "stale") \/ Fail(r, "conflict") \/ Fail(r, "taken")
    BY <1>1, <1>2, FailIInv DEF Ops, Answers
  <1>3. CASE /\ row[q.item].status = "NONE" /\ ~Taken(q.epc, q.item)
             /\ \A a \in assigned : a.epc # q.epc
             /\ row' = [row EXCEPT ![q.item] = n]
             /\ line' = [line EXCEPT ![q.item] = l]
             /\ assigned' = IF q.epc = NoEpc THEN assigned ELSE assigned \cup {m}
             /\ Answer(r, "ok")
             /\ UNCHANGED <<out, revived, orphaned>>
    <2>t. row[q.item] \in Rows /\ line[q.item] \in Lines
      BY <1>1 DEF IInv, TypeOK
    <2>1. ~Saved(q.item)
      BY <1>1, <1>3 DEF IInv, SavedLineKeepsItem, Exists
    <2>2. n \in Rows /\ n.epc = q.epc /\ n.status \in {"PENDING", "RFID"}
      BY <1>1 DEF Rows, NoRow
    <2>3. /\ l \in Lines /\ l.state \in SavedStates
          /\ q.epc # NoEpc => l.state = "SAVED_EPC_FINAL"
      BY <2>t DEF Lines, SavedStates
    <2>4. q.epc # NoEpc => m \in Assignments /\ m.item = q.item /\ m.epc = q.epc
      BY <1>1 DEF Assignments
    <2>5. \A a \in assigned : a.item # q.item
      BY <2>1 DEF IInv, AssignedFinal, Saved
    <2>6. Calm(q.item, n, l)
      <3>1. \A t \in Requests \ {r} : Reading(t, "Import") => req[t].item # q.item
        <4>1. line[q.item].state # "NONE"
          BY <1>1 DEF IInv, InFlight
        <4> QED
          BY <1>1, <4>1, NoImport
      <3> QED
        BY <1>1, <1>3, <3>1, AnswerCalm DEF Ops, Answers
    <2> HIDE DEF n, l, m
    <2>7. Fits(q.item, n, l)
      BY <1>3, <2>1, <2>2, <2>3 DEF Fits, Exist, Saved, SavedStates
    <2>8. Books(q.item, n, l)
      BY <1>3, <2>2, <2>3, <2>4, <2>5 DEF Books, Active, IInv, TypeOK
    <2>9. Goods(q.item, n)
      BY <1>3 DEF Goods, IInv, TypeOK, SoldStaysSold
    <2> QED
      BY <1>1, <1>3, <2>6, <2>7, <2>8, <2>9, RespectsIInv DEF Respects
  <1> QED
    BY <1>2, <1>3 DEF SaveCommit

\* assign_pending_epc: a saved line, whose row is there.
LEMMA AssignIInv ==
  ASSUME IInv, NEW r \in Requests, AssignCommit(r)
  PROVE  IInv'
  <1> DEFINE q == req[r]
             new == [q.seen EXCEPT !.epc = q.epc, !.status = "RFID", !.life = "ACTIVE"]
             n == Flush(q.seen, new, row[q.item])
             l == [state |-> "SAVED_EPC_FINAL", epc |-> q.epc]
             m == [epc |-> q.epc, item |-> q.item, by |-> r]
  <1>1. /\ Reading(r, "Assign") /\ q.item \in Items /\ q.epc \in Epcs \cup {NoEpc}
        /\ q.seen \in Rows
    BY KeptOf DEF AssignCommit, Ops, IInv
  <1>e. q.epc # NoEpc
    BY <1>1 DEF IInv, InFlight
  <1>2. CASE Fail(r, "conflict")
    BY <1>1, <1>2, FailIInv DEF Ops, Answers
  <1>3. CASE /\ ~Taken(q.epc, q.item)
             /\ \A a \in assigned : a.epc # q.epc
             /\ row' = [row EXCEPT ![q.item] = n]
             /\ line' = [line EXCEPT ![q.item] = l]
             /\ assigned' = assigned \cup {m}
             /\ revived' = IF row[q.item].status = "SOLD" /\ n.status # "SOLD"
                           THEN revived \cup {q.item} ELSE revived
             /\ orphaned' = orphaned
                  \cup (IF line[q.item].state = "SAVED_EPC_FINAL"
                        THEN Active(row[q.item].epc, q.item) ELSE {})
                  \cup (IF n.epc # q.epc THEN {m} ELSE {})
             /\ Answer(r, "ok") /\ UNCHANGED out
    <2>t. row[q.item] \in Rows /\ line[q.item] \in Lines
      BY <1>1 DEF IInv, TypeOK
    <2>1. Saved(q.item) /\ Exists(q.item)
      BY <1>1 DEF IInv, InFlight, SavedLineKeepsItem
    <2>2. new \in Rows /\ new.epc = q.epc /\ new.status = "RFID"
      BY <1>1 DEF Rows
    <2> HIDE DEF new
    <2>3. /\ n \in Rows /\ n.epc \in {q.epc, row[q.item].epc}
          /\ n.status \in {"RFID", row[q.item].status}
      BY <1>1, <2>t, <2>2, FlushFields
    <2>4. l \in Lines /\ l.state = "SAVED_EPC_FINAL"
      BY <1>1 DEF Lines
    <2>5. m \in Assignments /\ m.item = q.item /\ m.epc = q.epc
      BY <1>1, <1>e DEF Assignments
    <2>6. \A a \in assigned : a.item = q.item => line[q.item].state = "SAVED_EPC_FINAL"
      BY DEF IInv, AssignedFinal
    <2> HIDE DEF n, l, m
    <2>7. Fits(q.item, n, l)
      BY <1>3, <2>1, <2>3, <2>4 DEF Fits, Exist, Exists, Saved, SavedStates
    <2>8. Books(q.item, n, l)
      <3>1. orphaned \subseteq orphaned' /\ orphaned' \subseteq Assignments
        BY <1>3, <2>5 DEF IInv, TypeOK, Active
      <3>2. n.epc = m.epc \/ m \in orphaned'
        BY <1>3, <2>5
      <3>3. ASSUME n.epc # row[q.item].epc, NEW a \in Active(row[q.item].epc, q.item) \cap assigned'
            PROVE  a \in orphaned'
        BY <1>3, <2>6, <3>3 DEF Active
      <3> QED
        BY <1>3, <2>4, <2>5, <3>1, <3>2, <3>3 DEF Books
    <2>9. Goods(q.item, n)
      BY <1>1, <1>3, <2>3 DEF Goods, IInv, TypeOK, SoldStaysSold
    <2>10. Calm(q.item, n, l)
      BY <1>1, <1>3, <2>1, AnswerCalm, NoImport DEF Ops, Answers, Exists
    <2> QED
      BY <1>1, <1>3, <2>7, <2>8, <2>9, <2>10, RespectsIInv DEF Respects
  <1> QED
    BY <1>2, <1>3 DEF AssignCommit

\* release_epc: what it had not read is orphaned.
LEMMA ReleaseIInv ==
  ASSUME IInv, NEW r \in Requests, ReleaseCommit(r)
  PROVE  IInv'
  <1> DEFINE q == req[r]
             new == [q.seen EXCEPT !.epc = NoEpc]
             n == Flush(q.seen, new, row[q.item])
  <1>1. Reading(r, "Release") /\ q.item \in Items /\ q.seen \in Rows
    BY KeptOf DEF ReleaseCommit, Ops, IInv
  <1>2. /\ row' = [row EXCEPT ![q.item] = n]
        /\ assigned' = assigned \ q.asked
        /\ orphaned' = IF n.epc # row[q.item].epc
                       THEN orphaned \cup (Active(row[q.item].epc, q.item) \ q.asked) ELSE orphaned
        /\ Answer(r, "ok")
        /\ UNCHANGED <<line, out, revived>>
    BY DEF ReleaseCommit
  <1>t. row[q.item] \in Rows /\ line[q.item] \in Lines
    BY <1>1 DEF IInv, TypeOK
  <1>3. new \in Rows /\ new.epc = NoEpc /\ new.status = q.seen.status
    BY <1>1 DEF Rows
  <1> HIDE DEF new
  <1>4. n \in Rows /\ n.epc \in {NoEpc, row[q.item].epc} /\ n.status = row[q.item].status
    BY <1>1, <1>t, <1>3, FlushFields
  <1> HIDE DEF n
  <1>5. Fits(q.item, n, line[q.item])
    BY <1>1, <1>4, CurrentFits DEF Fits
  <1>6. Books(q.item, n, line[q.item])
    BY <1>2 DEF Books, Active, IInv, TypeOK
  <1>7. Goods(q.item, n)
    BY <1>2, <1>4 DEF Goods, IInv, TypeOK, SoldStaysSold
  <1>8. Calm(q.item, n, line[q.item])
    BY <1>1, <1>2, <1>4, AnswerCalm DEF Ops, Answers, IInv, InFlight
  <1>9. line' = [line EXCEPT ![q.item] = line[q.item]]
    BY <1>1, <1>2 DEF IInv, TypeOK
  <1> QED
    BY <1>1, <1>2, <1>5, <1>6, <1>7, <1>8, <1>9, RespectsIInv DEF Respects

LEMMA MarkIInv ==
  ASSUME IInv, NEW r \in Requests, MarkCommit(r)
  PROVE  IInv'
  <1> DEFINE q == req[r]
             marked == [q.seen EXCEPT !.issue = q.asked.issue, !.life = q.asked.issue]
             new == IF q.asked.keep THEN marked
                    ELSE [marked EXCEPT !.epc = NoEpc, !.status = "PENDING"]
             n == Flush(q.seen, new, row[q.item])
  <1>1. /\ Reading(r, "Mark") /\ q.item \in Items /\ q.seen \in Rows
        /\ q.asked.issue \in Issues
    BY KeptOf DEF MarkCommit, Ops, IInv
  <1>2. CASE Fail(r, "stale")
    BY <1>1, <1>2, FailIInv DEF Ops, Answers
  <1>3. CASE /\ row[q.item].status # "GONE"
             /\ row' = [row EXCEPT ![q.item] = n]
             /\ assigned' = assigned \ q.asked.free
             /\ revived' = IF row[q.item].status = "SOLD" /\ n.status # "SOLD"
                           THEN revived \cup {q.item} ELSE revived
             /\ orphaned' = IF n.epc # row[q.item].epc
                    THEN orphaned \cup (Active(row[q.item].epc, q.item) \ q.asked.free) ELSE orphaned
             /\ Answer(r, "ok") /\ UNCHANGED <<line, out>>
    <2>t. row[q.item] \in Rows /\ line[q.item] \in Lines
      BY <1>1 DEF IInv, TypeOK
    <2>1. row[q.item].status # "NONE"
      BY <1>1 DEF IInv, InFlight
    <2>2. /\ new \in Rows
          /\ new.epc \in {NoEpc, q.seen.epc} /\ new.status \in {"PENDING", q.seen.status}
      BY <1>1 DEF Rows
    <2> HIDE DEF new
    <2>3. /\ n \in Rows /\ n.epc \in {NoEpc, row[q.item].epc}
          /\ n.status \in {"PENDING", row[q.item].status}
      BY <1>1, <2>t, <2>2, FlushFields
    <2> HIDE DEF n
    <2>4. Fits(q.item, n, line[q.item])
      BY <1>1, <1>3, <2>1, <2>3, CurrentFits DEF Fits, Exist
    <2>5. Books(q.item, n, line[q.item])
      BY <1>3 DEF Books, Active, IInv, TypeOK
    <2>6. Goods(q.item, n)
      BY <1>1, <1>3 DEF Goods, IInv, TypeOK, SoldStaysSold
    <2>7. Calm(q.item, n, line[q.item])
      BY <1>1, <1>3, <2>1, AnswerCalm, NoImport DEF Ops, Answers
    <2>8. line' = [line EXCEPT ![q.item] = line[q.item]]
      BY <1>1, <1>3 DEF IInv, TypeOK
    <2> QED
      BY <1>1, <1>3, <2>4, <2>5, <2>6, <2>7, <2>8, RespectsIInv DEF Respects
  <1> QED
    BY <1>2, <1>3 DEF MarkCommit

LEMMA ResolveIInv ==
  ASSUME IInv, NEW r \in Requests, ResolveCommit(r)
  PROVE  IInv'
  <1> DEFINE q == req[r]
             closed == [q.seen EXCEPT !.issue = "none", !.life = q.asked]
             new == IF q.asked = "ACTIVE" THEN [closed EXCEPT !.status = "RFID"] ELSE closed
             n == Flush(q.seen, new, row[q.item])
  <1>1. /\ Reading(r, "Resolve") /\ q.item \in Items /\ q.seen \in Rows
        /\ q.asked \in {"ACTIVE", "PENDING"}
    BY KeptOf DEF ResolveCommit, Ops, IInv
  <1>2. CASE Fail(r, "stale")
    BY <1>1, <1>2, FailIInv DEF Ops, Answers
  <1>3. CASE /\ row[q.item].status # "GONE"
             /\ row' = [row EXCEPT ![q.item] = n]
             /\ revived' = IF row[q.item].status = "SOLD" /\ n.status # "SOLD"
                           THEN revived \cup {q.item} ELSE revived
             /\ Answer(r, "ok") /\ UNCHANGED <<line, assigned, out, orphaned>>
    <2>t. row[q.item] \in Rows /\ line[q.item] \in Lines
      BY <1>1 DEF IInv, TypeOK
    <2>1. row[q.item].status # "NONE"
      BY <1>1 DEF IInv, InFlight
    <2>2. new \in Rows /\ new.epc = q.seen.epc /\ new.status \in {"RFID", q.seen.status}
      BY <1>1 DEF Rows
    <2> HIDE DEF new
    <2>3. /\ n \in Rows /\ n.epc = row[q.item].epc
          /\ n.status \in {"RFID", row[q.item].status}
      BY <1>1, <2>t, <2>2, FlushFields
    <2> HIDE DEF n
    <2>4. Fits(q.item, n, line[q.item])
      BY <1>1, <1>3, <2>1, <2>3, CurrentFits DEF Fits, Exist
    <2>5. Books(q.item, n, line[q.item])
      BY <1>3, <2>3 DEF Books, Active, IInv, TypeOK
    <2>6. Goods(q.item, n)
      BY <1>1, <1>3 DEF Goods, IInv, TypeOK, SoldStaysSold
    <2>7. Calm(q.item, n, line[q.item])
      BY <1>1, <1>3, <2>1, AnswerCalm, NoImport DEF Ops, Answers
    <2>8. line' = [line EXCEPT ![q.item] = line[q.item]]
      BY <1>1, <1>3 DEF IInv, TypeOK
    <2> QED
      BY <1>1, <1>3, <2>4, <2>5, <2>6, <2>7, <2>8, RespectsIInv DEF Respects
  <1> QED
    BY <1>2, <1>3 DEF ResolveCommit

\* The actions of one step change the row or the line of one item, and leave
\* the requests alone.
LEMMA StepIInv ==
  ASSUME IInv, UNCHANGED req, NEW u \in Items, NEW n, NEW l,
         row' = [row EXCEPT ![u] = n], line' = [line EXCEPT ![u] = l],
         row[u].status # "NONE" \/ line[u].state # "NONE" \/ Fresh(u),
         Fits(u, n, l), Books(u, n, l), Goods(u, n)
  PROVE  IInv'
  <1>1. Calm(u, n, l)
    BY NoImport DEF Calm, Reading, IInv, TypeOK, Fresh
  <1> QED
    BY <1>1, RespectsIInv DEF Respects

LEMMA RowStepsIInv ==
  ASSUME IInv, NEW u \in Items,
         \/ ImportSku(u) \/ WriteOff(u) \/ DropTag(u) \/ SellSku(u)
         \/ \E exchange \in BOOLEAN : SellTag(u, exchange)
         \/ \E status \in {"RFID", "PENDING"} : TakeBack(u, status)
  PROVE  IInv'
  <1>t. row[u] \in Rows /\ line[u] \in Lines /\ row \in [Items -> Rows]
    BY DEF IInv, TypeOK
  <1>c. Fits(u, row[u], line[u])
    BY CurrentFits
  <1>l. UNCHANGED line => line' = [line EXCEPT ![u] = line[u]]
    BY DEF IInv, TypeOK
  <1>o. assigned \subseteq Assignments /\ orphaned \subseteq Assignments
    BY DEF IInv, TypeOK
  <1>s. /\ \A v \in out : row[v].status = "SOLD" \/ v \in revived
        /\ out \subseteq Items /\ revived \subseteq Items
    BY DEF IInv, TypeOK, SoldStaysSold
  <1>1. ASSUME ImportSku(u) PROVE IInv'
    <2> DEFINE n == [row[u] EXCEPT !.status = "PENDING"]
    <2>1. n \in Rows /\ n.epc = row[u].epc /\ n.status = "PENDING"
      BY <1>t DEF Rows
    <2>2. /\ Fresh(u) /\ row' = [row EXCEPT ![u] = n]
          /\ UNCHANGED <<line, assigned, req, out, revived, orphaned>>
      BY <1>1 DEF ImportSku
    <2> HIDE DEF n
    <2>3. Fits(u, n, line[u]) /\ Books(u, n, line[u]) /\ Goods(u, n)
      BY <1>c, <1>o, <1>s, <2>1, <2>2 DEF Fits, Exist, Books, Goods, Fresh
    <2> QED
      BY <1>l, <2>2, <2>3, StepIInv
  <1>2. ASSUME WriteOff(u) PROVE IInv'
    <2> DEFINE n == [NoRow EXCEPT !.status = "GONE"]
    <2>1. n \in Rows /\ n.epc = NoEpc /\ n.status = "GONE"
      BY DEF Rows, NoRow
    <2>2. /\ row[u].status \in {"RFID", "PENDING"} /\ ~Saved(u) /\ row' = [row EXCEPT ![u] = n]
          /\ UNCHANGED <<line, assigned, req, out, revived, orphaned>>
      BY <1>2 DEF WriteOff
    <2> HIDE DEF n
    <2>3. Fits(u, n, line[u])
      BY <1>t, <2>1, <2>2 DEF Fits, Exist, Saved, SavedStates
    <2>4. Books(u, n, line[u])
      BY <1>o, <2>1, <2>2 DEF Books, Active, Saved, IInv, AssignedFinal
    <2>5. Goods(u, n)
      BY <1>s, <2>2 DEF Goods
    <2> QED
      BY <1>l, <2>2, <2>3, <2>4, <2>5, StepIInv
  <1>3. ASSUME DropTag(u) PROVE IInv'
    <2> DEFINE n == [row[u] EXCEPT !.epc = NoEpc, !.status = "PENDING"]
    <2>1. n \in Rows /\ n.epc = NoEpc /\ n.status = "PENDING"
      BY <1>t DEF Rows
    <2>2. /\ row[u].status = "RFID" /\ row' = [row EXCEPT ![u] = n]
          /\ orphaned' = orphaned \cup Active(row[u].epc, u)
          /\ UNCHANGED <<line, assigned, req, out, revived>>
      BY <1>3 DEF DropTag
    <2> HIDE DEF n
    <2>3. Fits(u, n, line[u]) /\ Goods(u, n)
      BY <1>c, <1>s, <2>1, <2>2 DEF Fits, Exist, Goods
    <2>4. Books(u, n, line[u])
      BY <1>o, <2>2 DEF Books, Active
    <2> QED
      BY <1>l, <2>2, <2>3, <2>4, StepIInv
  <1>4. ASSUME NEW e \in Epcs \cup {NoEpc}, InStock(u), UNCHANGED <<line, req, revived, orphaned>>,
               row' = [row EXCEPT ![u].status = "SOLD", ![u].life = "SOLD", ![u].epc = e],
               e # row[u].epc => e = NoEpc /\ assigned' = assigned \ Active(row[u].epc, u),
               assigned' \subseteq assigned, out' = out \cup {u}
        PROVE  IInv'
    <2> DEFINE n == [row[u] EXCEPT !.status = "SOLD", !.life = "SOLD", !.epc = e]
    <2>1. n \in Rows /\ n.epc = e /\ n.status = "SOLD"
      BY <1>t DEF Rows
    <2>2. row' = [row EXCEPT ![u] = n] /\ row[u].status \in {"PENDING", "RFID"}
      BY <1>4 DEF InStock
    <2> HIDE DEF n
    <2>3. Fits(u, n, line[u]) /\ Goods(u, n)
      BY <1>4, <1>c, <1>s, <2>1, <2>2 DEF Fits, Exist, Goods
    <2>4. Books(u, n, line[u])
      BY <1>4, <1>o, <2>1 DEF Books, Active
    <2> QED
      BY <1>4, <1>l, <2>2, <2>3, <2>4, StepIInv
  <1>5. ASSUME NEW exchange \in BOOLEAN, SellTag(u, exchange) PROVE IInv'
    <2> DEFINE e == IF exchange THEN row[u].epc ELSE NoEpc
    <2>1. e \in Epcs \cup {NoEpc} /\ (e # row[u].epc => e = NoEpc)
      BY <1>t DEF Rows
    <2>2. row' = [row EXCEPT ![u].status = "SOLD", ![u].life = "SOLD", ![u].epc = e]
      BY <1>5, <1>t DEF SellTag, Rows
    <2> QED
      BY <1>4, <1>5, <2>1, <2>2 DEF SellTag
  <1>6. ASSUME SellSku(u) PROVE IInv'
    <2>1. row[u].epc \in Epcs \cup {NoEpc}
      BY <1>t DEF Rows
    <2>2. row' = [row EXCEPT ![u].status = "SOLD", ![u].life = "SOLD", ![u].epc = row[u].epc]
      BY <1>6, <1>t DEF SellSku, Rows
    <2> QED
      BY <1>4, <1>6, <2>1, <2>2 DEF SellSku
  <1>7. ASSUME NEW status \in {"RFID", "PENDING"}, TakeBack(u, status) PROVE IInv'
    <2> DEFINE n == [row[u] EXCEPT !.status = status]
    <2>1. n \in Rows /\ n.epc = row[u].epc /\ n.status = status
      BY <1>t DEF Rows
    <2>2. /\ row[u].status = "SOLD" /\ row' = [row EXCEPT ![u] = n] /\ out' = out \ {u}
          /\ UNCHANGED <<line, assigned, req, revived, orphaned>>
      BY <1>7 DEF TakeBack
    <2> HIDE DEF n
    <2>3. Fits(u, n, line[u]) /\ Goods(u, n)
      BY <1>c, <1>s, <2>1, <2>2 DEF Fits, Exist, Goods
    <2>4. Books(u, n, line[u])
      BY <1>o, <2>1, <2>2 DEF Books
    <2> QED
      BY <1>l, <2>2, <2>3, <2>4, StepIInv
  <1> QED
    BY <1>1, <1>2, <1>3, <1>5, <1>6, <1>7

LEMMA LineStepsIInv ==
  ASSUME IInv, NEW u \in Items, NEW e \in Epcs \cup {NoEpc}, CreateLine(u, e) \/ PatchLine(u, e)
  PROVE  IInv'
  <1>1. PICK l : /\ line' = [line EXCEPT ![u] = l] /\ l \in Lines
                 /\ \/ Fresh(u) /\ l.state = "STAGING"
                    \/ line[u].state # "NONE" /\ l.state = line[u].state
                 /\ UNCHANGED <<row, assigned, req, out, revived, orphaned>>
    <2>t. line[u] \in Lines
      BY DEF IInv, TypeOK
    <2>1. CASE CreateLine(u, e)
      <3>1. [state |-> "STAGING", epc |-> e] \in Lines
        BY DEF Lines
      <3> QED
        BY <2>1, <3>1 DEF CreateLine
    <2>2. CASE PatchLine(u, e)
      <3>1. [line[u] EXCEPT !.epc = e] \in Lines /\ [line[u] EXCEPT !.epc = e].state = line[u].state
        BY <2>t DEF Lines
      <3> QED
        BY <2>2, <3>1 DEF PatchLine
    <2> QED
      BY <2>1, <2>2
  <1>2. row' = [row EXCEPT ![u] = row[u]]
    BY <1>1 DEF IInv, TypeOK
  <1>3. Fits(u, row[u], l)
    BY <1>1, CurrentFits DEF Fits, Fresh, Saved, SavedStates
  <1>4. Books(u, row[u], l) /\ Goods(u, row[u])
    BY <1>1 DEF Books, Goods, IInv, TypeOK, SoldStaysSold
  <1> QED
    BY <1>1, <1>2, <1>3, <1>4, StepIInv

LEMMA InitIInv == Init => IInv
  <1> SUFFICES ASSUME Init PROVE IInv
    OBVIOUS
  <1>1. NoRow \in Rows /\ NoLine \in Lines
    BY DEF NoRow, Rows, NoLine, Lines
  <1>2. \A r \in Requests, op \in Ops : ~Reading(r, op)
    BY DEF Init, Reading, Idle, Ops
  <1> QED
    BY <1>1, <1>2 DEF Init, IInv, TypeOK, OneTag, InFlight, AssignedFinal, AssignmentBacked,
         SoldStaysSold, SavedLineKeepsItem, Saved, Exists, NoRow, NoLine, Ops

LEMMA NextIInv ==
  ASSUME IInv, [Next]_vars
  PROVE  IInv'
  <1>1. ASSUME NEW r \in Requests, Commit(r) PROVE IInv'
    BY <1>1, ImportIInv, MigrateIInv, ReplaceIInv, SaveIInv, AssignIInv, ReleaseIInv,
       MarkIInv, ResolveIInv DEF Commit
  <1>2. CASE UNCHANGED vars
    BY <1>2 DEF vars, IInv, TypeOK, OneTag, InFlight, Reading, AssignedFinal, AssignmentBacked,
         SoldStaysSold, SavedLineKeepsItem, Saved, Exists
  <1> QED
    BY <1>1, <1>2, ReadsIInv, RowStepsIInv, LineStepsIInv DEF Next

THEOREM Inductive == Spec => []IInv
  BY InitIInv, NextIInv, PTL DEF Spec

(***************************************************************************)
(* The theorems.                                                           *)
(***************************************************************************)
\* The rows of stock_items, preload_lines and epc_assignments are typed.
THEOREM SpecTypeOK == Spec => []TypeOK
  <1>1. IInv => TypeOK
    BY DEF IInv
  <1> QED
    BY <1>1, Inductive, PTL

\* The lookups of an EPC take no lock, so it is uq_stock_items_tenant_epc and
\* the constraint of epc_assignments that keep one tag on one item, whatever
\* requests interleave (import_stock_epc, migrate_stock_sku_to_epc, REPLACE_EPC,
\* save_preload_line, assign_pending_epc).
THEOREM SpecTagOnOneItem == Spec => []TagOnOneItem
  <1>1. IInv => TagOnOneItem
    BY OneTagCounts DEF IInv
  <1> QED
    BY <1>1, Inductive, PTL

\* Nothing but the actions of stock_actions, a second assignment of a line, and
\* a release or an issue that had not read it leaves an assignment behind
\* whose item lost its tag: no sale, import, save or write-off does.
THEOREM SpecAssignmentBacked == Spec => []AssignmentBacked
  <1>1. IInv => AssignmentBacked
    BY DEF IInv
  <1> QED
    BY <1>1, Inductive, PTL

\* A sold item leaves the customer by a return, or by the three requests that
\* do not test the row for a sale since they read it.
THEOREM SpecSoldStaysSold == Spec => []SoldStaysSold
  <1>1. IInv => SoldStaysSold
    BY DEF IInv
  <1> QED
    BY <1>1, Inductive, PTL

\* A line that was saved has its stock row for ever: the foreign key refuses
\* the WRITE_OFF, and a line cannot be saved twice.
THEOREM SpecSavedLineKeepsItem == Spec => []SavedLineKeepsItem
  <1>1. IInv => SavedLineKeepsItem
    BY DEF IInv
  <1> QED
    BY <1>1, Inductive, PTL

=============================================================================
