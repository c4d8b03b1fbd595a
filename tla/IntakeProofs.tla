---------------------------- MODULE IntakeProofs ----------------------------
(***************************************************************************)
(* Confirmations, costs, suggested prices and the price review, for any    *)
(* number of extractions and requests and for all lines and pricings.      *)
(***************************************************************************)
EXTENDS Intake, TLAPS

(***************************************************************************)
(* Rounding.                                                               *)
(***************************************************************************)
LEMMA DivisionBounds ==
  ASSUME NEW a \in Int, NEW b \in Nat \ {0}
  PROVE  /\ a \div b \in Int
         /\ (a \div b) * b <= a /\ a < (a \div b) * b + b
  OBVIOUS

LEMMA MultipleOf ==
  ASSUME NEW q \in Int, NEW s \in Nat \ {0}
  PROVE  (q * s) % s = 0
  OBVIOUS

\* The whole number of times s that n takes up, rounded up.
LEMMA RoundedUp ==
  ASSUME NEW n \in Int, NEW d \in Nat \ {0}, NEW s \in Nat \ {0},
         NEW q, q = (n + d * s - 1) \div (d * s)
  PROVE  /\ q \in Int /\ q * s \in Int
         /\ (q * s) * d >= n /\ (q * s - s) * d < n
  <1> DEFINE b == d * s
  <1>1. b \in Nat \ {0}
    OBVIOUS
  <1>2. q \in Int /\ q * b <= n + b - 1 /\ n + b - 1 < q * b + b
    <2>1. n + b - 1 \in Int /\ q = (n + b - 1) \div b
      BY <1>1
    <2> HIDE DEF b
    <2> QED
      BY <1>1, <2>1, DivisionBounds
  <1>3. (q * s) * d = q * b /\ (q * s - s) * d = q * b - b /\ q * b \in Int /\ q * s \in Int
    <2>1. q \in Int
      BY <1>2
    <2>2. (q * s) * d = q * (d * s) /\ (q * s - s) * d = q * (d * s) - d * s
      BY ONLY <2>1, d \in Int, s \in Int
    <2>3. q * (d * s) \in Int /\ q * s \in Int
      BY ONLY <2>1, d \in Int, s \in Int
    <2> QED
      BY <2>2, <2>3
  <1> HIDE DEF b
  <1>4. q * b >= n /\ q * b - b < n
    BY <1>1, <1>2, <1>3
  <1> QED
    BY <1>2, <1>3, <1>4

\* round_up with a positive step: the least multiple at or above n / d.
LEMMA RoundUpIsTight ==
  ASSUME NEW n \in Int, NEW d \in Nat \ {0}, NEW s \in Nat \ {0}
  PROVE  /\ RoundUp(n, d, s) \in Int /\ RoundUp(n, d, s) % s = 0
         /\ RoundUp(n, d, s) * d >= n /\ (RoundUp(n, d, s) - s) * d < n
  <1> DEFINE q == (n + d * s - 1) \div (d * s)
  <1>1. RoundUp(n, d, s) = q * s
    BY DEF RoundUp
  <1>2. q \in Int /\ q * s \in Int /\ (q * s) * d >= n /\ (q * s - s) * d < n
    BY RoundedUp
  <1> HIDE DEF q
  <1> QED
    BY <1>1, <1>2, MultipleOf

\* round_up with a negative step: the greatest multiple at or below n / d.
LEMMA RoundUpGoesDown ==
  ASSUME NEW n \in Int, NEW d \in Nat \ {0}, NEW s \in Nat \ {0}
  PROVE  /\ RoundUp(n, d, -s) \in Int /\ RoundUp(n, d, -s) % s = 0
         /\ RoundUp(n, d, -s) * d <= n /\ (RoundUp(n, d, -s) + s) * d > n
  <1> DEFINE q == (-n + d * s - 1) \div (d * s)
  <1>1. RoundUp(n, d, -s) = q * (-s)
    <2>1. -s < 0 /\ n * (-1) = -n /\ (-s) * (-1) = s
      OBVIOUS
    <2> QED
      BY <2>1 DEF RoundUp
  <1>2. q \in Int /\ q * s \in Int /\ (q * s) * d >= -n /\ (q * s - s) * d < -n
    <2>1. -n \in Int
      OBVIOUS
    <2> QED
      BY <2>1, RoundedUp
  <1> HIDE DEF q
  <1>3. /\ -q \in Int /\ q * (-s) = (-q) * s /\ (-q) * s = -(q * s)
        /\ (-(q * s)) * d = -((q * s) * d) /\ (-(q * s) + s) * d = -((q * s - s) * d)
        /\ (q * s) * d \in Int /\ (q * s - s) * d \in Int
    BY <1>2
  <1>4. ((-q) * s) % s = 0
    BY <1>3, MultipleOf
  <1> QED
    BY <1>1, <1>2, <1>3, <1>4

\* A whole number of cents for every step a request can give.
LEMMA RoundUpType ==
  ASSUME NEW n \in Int, NEW d \in Nat \ {0}, NEW step \in Int
  PROVE  RoundUp(n, d, StepOf(step)) \in Int
  <1>1. CASE step >= 0
    BY <1>1, RoundUpIsTight DEF StepOf
  <1>2. CASE step < 0
    <2>1. -step \in Nat \ {0} /\ StepOf(step) = -(-step)
      BY <1>2 DEF StepOf
    <2> QED
      BY <2>1, RoundUpGoesDown
  <1> QED
    BY <1>1, <1>2

(***************************************************************************)
(* What apply_pricing gives.                                               *)
(***************************************************************************)
LEMMA CostType ==
  ASSUME NEW l \in Lines, NEW p \in Pricings
  PROVE  Cost(l, p) \in Amount
  <1>1. l.original \in Amount /\ l.cost \in Amount /\ p.rate \in Amount
    BY LinesAssumption, PricingsAssumption
  <1>2. \A n \in Int : Quantize(n) \in Int
    BY DEF Quantize
  <1> QED
    BY <1>1, <1>2 DEF Cost, Amount

\* A priced line has an original cost, a cost and the mode's number.
LEMMA PricedType ==
  ASSUME NEW l \in Lines, NEW p \in Pricings, Priced(l, p)
  PROVE  /\ Cost(l, p) \in Int /\ p.by \in Int /\ p.step \in Int
         /\ p.mode \in {"markup_percent", "margin_percent", "multiplier"}
  BY CostType, PricingsAssumption DEF Priced, Amount, Modes

\* n / d is the price that a priced line should have before it is rounded.
Base(l, p, n, d) ==
  \/ p.mode = "markup_percent" /\ n = Cost(l, p) * (10000 + p.by) /\ d = 10000
  \/ p.mode = "margin_percent" /\ p.by < 10000 /\ n = Cost(l, p) * 10000 /\ d = 10000 - p.by
  \/ p.mode = "margin_percent" /\ p.by > 10000 /\ n = -Cost(l, p) * 10000 /\ d = p.by - 10000
  \/ p.mode = "multiplier" /\ n = Cost(l, p) * p.by /\ d = 100

LEMMA SuggestedIsRounded ==
  ASSUME NEW l \in Lines, NEW p \in Pricings, Priced(l, p), NEW n, NEW d, Base(l, p, n, d)
  PROVE  n \in Int /\ d \in Nat \ {0} /\ Suggested(l, p) = RoundUp(n, d, StepOf(p.step))
  <1>1. Cost(l, p) \in Int /\ p.by \in Int
    BY PricedType
  <1>2. CASE p.mode = "markup_percent"
    BY <1>1, <1>2 DEF Base, Suggested
  <1>3. CASE p.mode = "margin_percent" /\ p.by < 10000
    BY <1>1, <1>3 DEF Base, Suggested
  <1>4. CASE p.mode = "margin_percent" /\ p.by > 10000
    BY <1>1, <1>4 DEF Base, Suggested
  <1>5. CASE p.mode = "multiplier"
    BY <1>1, <1>5 DEF Base, Suggested
  <1> QED
    BY <1>2, <1>3, <1>4, <1>5 DEF Base

LEMMA SuggestedType ==
  ASSUME NEW l \in Lines, NEW p \in Pricings, ~Raises(l, p)
  PROVE  Suggested(l, p) \in Amount
  <1>1. CASE ~Priced(l, p)
    BY <1>1, LinesAssumption DEF Suggested
  <1>2. CASE Priced(l, p)
    <2>1. /\ p.by \in Int /\ p.step \in Int
          /\ p.mode \in {"markup_percent", "margin_percent", "multiplier"}
          /\ p.mode = "margin_percent" => p.by < 10000 \/ p.by > 10000
      BY <1>2, PricedType DEF Raises
    <2>2. \E n, d : Base(l, p, n, d)
      BY <2>1 DEF Base
    <2> QED
      BY <1>2, <2>1, <2>2, SuggestedIsRounded, RoundUpType DEF Amount
  <1> QED
    BY <1>1, <1>2

(***************************************************************************)
(* The inductive invariant.                                                *)
(***************************************************************************)
\* A job that still may write its row was started for a large text: nobody has
\* confirmed the extraction, or the first who did so saw it PROCESSING.
JobsOK ==
  \A x \in Extractions :
    /\ job[x].status = "none" => job[x].first = "none" /\ job[x].run = "none"
    /\ job[x].run \in {"queued", "calling"} =>
         \/ job[x].first = "PROCESSING"
         \/ job[x].first = "none" /\ job[x].status = "PROCESSING"

\* A product has a cost from its first entry on, whose request had found none,
\* and neither a suggested price nor the flag before.
HistoryOK ==
  /\ product.cost = NoAmount <=> history = <<>>
  /\ history # <<>> => \E i \in DOMAIN history : history[i].read = NoAmount
  /\ history = <<>> => product.suggested = NoAmount /\ ~product.review

\* What a request has read of the product still holds, or the price is to be
\* reviewed: the flag and the first cost are never taken back.
SeenOK(q) ==
  /\ q.seen.review => product.review
  /\ \/ q.seen.cost \in {NoAmount, product.cost}
     \/ product.review \/ FirstCostsRaced

SeenStays == \A q \in Upserts : SeenOK(q) => SeenOK(q)'

\* The part about extractions and the part about the catalogue.
JobInv == job \in [Extractions -> Jobs] /\ JobsOK /\ ConfirmationSticks
CatalogInv ==
  /\ product \in Products /\ history \in Seq(Entries)
  /\ CostFollowsHistory /\ HistoryOK /\ ReviewFlagged

\* A step that gives one extraction the row j.
LEMMA JobChanges ==
  ASSUME JobInv, NEW x \in Extractions, NEW j \in Jobs, job' = [job EXCEPT ![x] = j],
         j.status = "none" => j.first = "none" /\ j.run = "none",
         j.run \in {"queued", "calling"} =>
           j.first = "PROCESSING" \/ (j.first = "none" /\ j.status = "PROCESSING"),
         j.first \in {"DRAFT", "COMPLETED", "FAILED"} => j.status = "CONFIRMED"
  PROVE  JobInv'
  BY DEF JobInv, JobsOK, ConfirmationSticks

\* A confirmation makes a row CONFIRMED, and remembers what the first one saw.
LEMMA ConfirmedKeeps ==
  ASSUME JobInv, NEW x \in Extractions, Confirmed(x), job[x].status # "none"
  PROVE  JobInv'
  <1> DEFINE j == [job[x] EXCEPT !.status = "CONFIRMED",
                                 !.first = IF @ = "none" THEN job[x].status ELSE @]
  <1>1. job[x] \in Jobs
    BY DEF JobInv
  <1>2. job' = [job EXCEPT ![x] = j]
    BY DEF Confirmed
  <1>3. j \in Jobs /\ j.status = "CONFIRMED" /\ j.run = job[x].run
        /\ j.first = IF job[x].first = "none" THEN job[x].status ELSE job[x].first
    BY <1>1 DEF Jobs, Statuses
  <1>4. j.run \in {"queued", "calling"} => j.first = "PROCESSING"
    BY <1>3 DEF JobInv, JobsOK
  <1>5. j.first \in {"DRAFT", "COMPLETED", "FAILED"} => j.status = "CONFIRMED"
    BY <1>3
  <1> HIDE DEF j
  <1> QED
    BY <1>2, <1>3, <1>4, <1>5, JobChanges

\* No status goes back to "none".
JobsStay == \A x \in Extractions : job[x].status # "none" => job'[x].status # "none"

LEMMA ConfirmedStays ==
  ASSUME job \in [Extractions -> Jobs], NEW y \in Extractions, Confirmed(y)
  PROVE  JobsStay
  BY DEF Confirmed, Jobs, JobsStay

LEMMA AnalyzeKeeps ==
  ASSUME JobInv, NEW x \in Extractions, AnalyzeNow(x) \/ AnalyzeLarge(x)
  PROVE  JobInv'
  <1>1. job[x] \in Jobs /\ job[x].status = "none" /\ job[x].first = "none" /\ job[x].run = "none"
    BY DEF AnalyzeNow, AnalyzeLarge, JobInv, JobsOK
  <1>2. CASE AnalyzeNow(x)
    <2> DEFINE j == [job[x] EXCEPT !.status = "DRAFT"]
    <2>1. job' = [job EXCEPT ![x] = j] /\ j \in Jobs
          /\ j.status = "DRAFT" /\ j.first = "none" /\ j.run = "none"
      BY <1>1, <1>2 DEF AnalyzeNow, Jobs, Statuses
    <2> HIDE DEF j
    <2> QED
      BY <2>1, JobChanges
  <1>3. CASE AnalyzeLarge(x)
    <2> DEFINE j == [job[x] EXCEPT !.status = "PROCESSING", !.run = "queued"]
    <2>1. job' = [job EXCEPT ![x] = j] /\ j \in Jobs
          /\ j.status = "PROCESSING" /\ j.first = "none" /\ j.run = "queued"
      BY <1>1, <1>3 DEF AnalyzeLarge, Jobs, Statuses
    <2> HIDE DEF j
    <2> QED
      BY <2>1, JobChanges
  <1> QED
    BY <1>2, <1>3

LEMMA JobStepKeeps ==
  ASSUME JobInv, NEW x \in Extractions, JobStep(x)
  PROVE  JobInv'
  <1>t. job[x] \in Jobs
    BY DEF JobInv
  <1>1. CASE JobStart(x)
    <2> DEFINE j == [job[x] EXCEPT !.run = "calling"]
    <2>1. job' = [job EXCEPT ![x] = j] /\ j \in Jobs /\ job[x].run = "queued"
          /\ j.status = job[x].status /\ j.first = job[x].first /\ j.run = "calling"
      BY <1>t, <1>1 DEF JobStart, Jobs
    <2> HIDE DEF j
    <2> QED
      BY <2>1, JobChanges DEF JobInv, JobsOK, ConfirmationSticks
  <1>2. ASSUME NEW l \in Lines, NEW p \in Pricings, NEW ok \in BOOLEAN, JobEnd(x, l, p, ok)
        PROVE  JobInv'
    <2>1. job[x].run = "calling" /\ job[x].status # "none"
          /\ job[x].first \notin {"DRAFT", "COMPLETED", "FAILED"}
      BY <1>2 DEF JobEnd, JobInv, JobsOK
    <2>2. CASE ok /\ Raises(l, p)
      <3> DEFINE j == [job[x] EXCEPT !.run = "lost"]
      <3>1. job' = [job EXCEPT ![x] = j] /\ j \in Jobs
            /\ j.status = job[x].status /\ j.first = job[x].first /\ j.run = "lost"
        BY <1>t, <1>2, <2>2 DEF JobEnd, Jobs
      <3> HIDE DEF j
      <3> QED
        BY <2>1, <3>1, JobChanges
    <2>3. CASE ~(ok /\ Raises(l, p))
      <3> DEFINE j == [job[x] EXCEPT !.run = "over", !.status = IF ok THEN "COMPLETED" ELSE "FAILED"]
      <3>1. job' = [job EXCEPT ![x] = j] /\ j \in Jobs
            /\ j.status \in {"COMPLETED", "FAILED"} /\ j.first = job[x].first /\ j.run = "over"
        BY <1>t, <1>2, <2>3 DEF JobEnd, Jobs, Statuses
      <3> HIDE DEF j
      <3> QED
        BY <2>1, <3>1, JobChanges
    <2> QED
      BY <2>2, <2>3
  <1> QED
    BY <1>1, <1>2 DEF JobStep

LEMMA CrashKeeps ==
  ASSUME JobInv, Crash
  PROVE  JobInv'
  <1>1. \A x \in Extractions :
          /\ job[x] \in Jobs /\ job'[x] \in Jobs
          /\ job'[x].status = job[x].status /\ job'[x].first = job[x].first
          /\ job'[x].run = job[x].run \/ (job[x].run # "none" /\ job'[x].run = "lost")
    <2> SUFFICES ASSUME NEW x \in Extractions
                 PROVE /\ job[x] \in Jobs /\ job'[x] \in Jobs
                       /\ job'[x].status = job[x].status /\ job'[x].first = job[x].first
                       /\ job'[x].run = job[x].run \/ (job[x].run # "none" /\ job'[x].run = "lost")
      OBVIOUS
    <2>1. job[x] \in Jobs
      BY DEF JobInv
    <2>2. job'[x] = IF job[x].run \in {"queued", "calling"} THEN [job[x] EXCEPT !.run = "lost"] ELSE job[x]
      BY DEF Crash
    <2> QED
      BY <2>1, <2>2 DEF Jobs
  <1>2. job' \in [Extractions -> Jobs]
    BY <1>1 DEF Crash
  <1>3. JobsOK' /\ ConfirmationSticks'
    BY <1>1 DEF JobInv, JobsOK, ConfirmationSticks
  <1> QED
    BY <1>2, <1>3 DEF JobInv

\* The history grows by one entry, the last.
LEMMA Appended ==
  ASSUME history \in Seq(Entries), NEW h \in Entries, history' = Append(history, h)
  PROVE  /\ history' \in Seq(Entries) /\ history' # <<>>
         /\ Len(history') \in DOMAIN history' /\ history'[Len(history')] = h
         /\ Len(history') \notin DOMAIN history
         /\ \A i \in DOMAIN history : i \in DOMAIN history' /\ history'[i] = history[i]
         /\ \A i \in DOMAIN history' : i \in DOMAIN history \/ history'[i] = h
  OBVIOUS

\* An entry more takes no race back, and is one if it is not the first and its
\* request had found no cost.
LEMMA RacesStay ==
  ASSUME history \in Seq(Entries), NEW h \in Entries, history' = Append(history, h), HistoryOK
  PROVE  /\ FirstCostsRaced => FirstCostsRaced'
         /\ history # <<>> /\ h.read = NoAmount => FirstCostsRaced'
  <1>1. ASSUME FirstCostsRaced PROVE FirstCostsRaced'
    BY <1>1, Appended DEF FirstCostsRaced
  <1>2. ASSUME history # <<>>, h.read = NoAmount PROVE FirstCostsRaced'
    <2>1. PICK i \in DOMAIN history : history[i].read = NoAmount
      BY <1>2 DEF HistoryOK
    <2> DEFINE j == Len(history')
    <2>2. i \in DOMAIN history' /\ history'[i].read = NoAmount
      BY <2>1, Appended
    <2>3. j \in DOMAIN history' /\ history'[j].read = NoAmount /\ i # j
      BY <1>2, <2>1, Appended
    <2> QED
      BY <2>2, <2>3 DEF FirstCostsRaced
  <1> QED
    BY <1>1, <1>2

\* What a commit with a cost does to each column of the product.
LEMMA UpsertWrites ==
  ASSUME product \in Products, NEW r \in Requests, req[r] \in Upserts,
         UpsertCommit(r), req[r].cost # NoAmount
  PROVE  LET q == req[r] IN
         /\ q.cost \in Int /\ q.seen \in Products /\ product' \in Products
         /\ product'.cost = IF q.cost = q.seen.cost THEN product.cost ELSE q.cost
         /\ product'.suggested \in {product.suggested, q.suggested}
         /\ product.review => product'.review
         /\ q.seen.cost # NoAmount /\ q.seen.cost # q.cost => product'.review \/ q.seen.review
  <1> DEFINE q == req[r]
             new == Upserted(q.seen, q)
  <1>1. /\ q.cost \in Int /\ q.suggested \in Amount /\ q.sale \in Prices \cup {NoAmount}
        /\ q.seen \in Products
    BY DEF Upserts, Amount
  <1>2. /\ new.cost = q.cost /\ new.suggested \in {q.seen.suggested, q.suggested}
        /\ new.review = (q.seen.review \/ (q.seen.cost # NoAmount /\ q.seen.cost # q.cost))
        /\ new \in Products
    BY <1>1 DEF Upserted, Products, Amount
  <1>3. product' = Flush(q.seen, new, product)
    BY DEF UpsertCommit
  <1> HIDE DEF new
  <1>4. /\ DOMAIN product = {"exists", "cost", "suggested", "price", "review"}
        /\ \A f \in DOMAIN product : product'[f] = IF new[f] = q.seen[f] THEN product[f] ELSE new[f]
    BY <1>3 DEF Flush, Products
  <1>5. product' \in Products
    BY <1>1, <1>2, <1>3 DEF Flush, Products
  <1>6. product'.cost = IF q.cost = q.seen.cost THEN product.cost ELSE q.cost
    BY <1>2, <1>4
  <1>7. product'.suggested \in {product.suggested, q.suggested}
    BY <1>2, <1>4
  <1>8. product'.review = IF new.review = q.seen.review THEN product.review ELSE new.review
    BY <1>4
  <1>9. /\ q.seen.review => new.review
        /\ q.seen.cost # NoAmount /\ q.seen.cost # q.cost => new.review
        /\ q.seen.review \in BOOLEAN /\ new.review \in BOOLEAN
        /\ product.review \in BOOLEAN /\ product'.review \in BOOLEAN
    BY <1>1, <1>2, <1>5 DEF Products
  <1>10. product.review => product'.review
    BY Zenon, <1>8, <1>9
  <1>11. q.seen.cost # NoAmount /\ q.seen.cost # q.cost => product'.review \/ q.seen.review
    BY Zenon, <1>8, <1>9
  <1> QED
    BY <1>1, <1>5, <1>6, <1>7, <1>10, <1>11

\* A commit without a cost writes no column that the invariant is about.
LEMMA UpsertWithoutCost ==
  ASSUME CatalogInv, NEW r \in Requests, req[r] \in Upserts, UpsertCommit(r),
         req[r].cost = NoAmount
  PROVE  CatalogInv' /\ SeenStays
  <1>1. history' = history /\ product' = Flush(req[r].seen, Upserted(req[r].seen, req[r]), product)
    BY DEF UpsertCommit
  <1>2. product \in Products /\ req[r].seen \in Products
    BY DEF CatalogInv, Upserts
  <1>3. /\ product' \in Products /\ product'.cost = product.cost
        /\ product'.suggested = product.suggested /\ product'.review = product.review
    BY <1>1, <1>2 DEF Upserted, Flush, Products
  <1>4. FirstCostsRaced' = FirstCostsRaced
    BY <1>1 DEF FirstCostsRaced
  <1>5. CatalogInv'
    BY <1>1, <1>3, <1>4 DEF CatalogInv, CostFollowsHistory, HistoryOK, ReviewFlagged
  <1>6. ASSUME NEW q \in Upserts, SeenOK(q) PROVE SeenOK(q)'
    BY <1>3, <1>4, <1>6 DEF SeenOK
  <1> QED
    BY <1>5, <1>6 DEF SeenStays

\* A commit with a cost: the first one, one that keeps the cost, or one that
\* asks for the review of the price.
LEMMA UpsertWithCost ==
  ASSUME CatalogInv, NEW r \in Requests, req[r] \in Upserts, UpsertCommit(r),
         req[r].cost # NoAmount, SeenOK(req[r])
  PROVE  CatalogInv' /\ SeenStays
  <1> DEFINE u == req[r]
             h == [cost |-> u.cost, read |-> u.seen.cost, suggested |-> u.suggested]
  <1>1. product \in Products /\ history \in Seq(Entries) /\ HistoryOK /\ ReviewFlagged
    BY DEF CatalogInv
  <1>2. /\ u.cost \in Int /\ u.seen \in Products /\ product' \in Products
        /\ product'.cost = IF u.cost = u.seen.cost THEN product.cost ELSE u.cost
        /\ product'.suggested \in {product.suggested, u.suggested}
        /\ product.review => product'.review
        /\ u.seen.cost # NoAmount /\ u.seen.cost # u.cost => product'.review \/ u.seen.review
    BY <1>1, UpsertWrites
  <1>3. u.seen.review => product.review
    BY DEF SeenOK
  <1>4. u.seen.cost \in {NoAmount, product.cost} \/ product.review \/ FirstCostsRaced
    BY DEF SeenOK
  <1>5. h \in Entries /\ history' = Append(history, h) /\ u.cost # NoAmount
    BY <1>2 DEF UpsertCommit, Entries, Upserts, Products
  <1>6. h.cost = u.cost /\ h.read = u.seen.cost /\ h.suggested = u.suggested
    OBVIOUS
  <1> HIDE DEF h, u
  <1>7. /\ history' \in Seq(Entries) /\ history' # <<>>
        /\ Len(history') \in DOMAIN history' /\ history'[Len(history')] = h
        /\ \A i \in DOMAIN history : i \in DOMAIN history' /\ history'[i] = history[i]
        /\ \A i \in DOMAIN history' : i \in DOMAIN history \/ history'[i] = h
    BY <1>1, <1>5, Appended
  <1>8. /\ FirstCostsRaced => FirstCostsRaced'
        /\ history # <<>> /\ h.read = NoAmount => FirstCostsRaced'
    BY <1>1, <1>5, RacesStay
  \* Outside the races and the flag, the commit is the first or keeps the cost.
  <1>9. product'.review \/ FirstCostsRaced'
        \/ history = <<>> \/ (product.cost = u.cost /\ product'.cost = u.cost)
    BY <1>2, <1>3, <1>4, <1>6, <1>8
  <1>10. history = <<>> => product'.cost = u.cost /\ product.cost = NoAmount /\ u.seen.cost = NoAmount
    <2>1. history = <<>> => product.cost = NoAmount /\ ~product.review /\ ~FirstCostsRaced
      BY <1>1 DEF HistoryOK, FirstCostsRaced
    <2>2. history = <<>> => u.seen.cost = NoAmount
      BY <1>4, <2>1
    <2> QED
      BY <1>2, <1>5, <2>1, <2>2
  <1>11. CostFollowsHistory'
    BY <1>2, <1>6, <1>7 DEF CostFollowsHistory
  <1>12. HistoryOK'
    <2>1. product'.cost # NoAmount
      BY <1>1, <1>2, <1>5, <1>10 DEF HistoryOK
    <2>2. \E i \in DOMAIN history' : history'[i].read = NoAmount
      BY <1>1, <1>6, <1>7, <1>10 DEF HistoryOK
    <2> QED
      BY <1>7, <2>1, <2>2 DEF HistoryOK
  <1>13. ReviewFlagged'
    <2> SUFFICES ASSUME ~product'.review, ~FirstCostsRaced'
                 PROVE  /\ \A i \in DOMAIN history' : history'[i].cost = product'.cost
                        /\ product'.suggested # NoAmount =>
                             \E i \in DOMAIN history' : history'[i].suggested = product'.suggested
      BY DEF ReviewFlagged
    <2>1. ~product.review /\ ~FirstCostsRaced
      BY <1>2, <1>8
    <2>2. \A i \in DOMAIN history : history[i].cost = product.cost
      BY <1>1, <2>1 DEF ReviewFlagged
    <2>3. product.suggested # NoAmount =>
            \E i \in DOMAIN history : history[i].suggested = product.suggested
      BY <1>1, <2>1 DEF ReviewFlagged
    <2>4. product'.cost = u.cost /\ (history = <<>> \/ product.cost = u.cost)
      BY <1>9, <1>10
    <2>5. \A i \in DOMAIN history' : history'[i].cost = product'.cost
      BY <1>6, <1>7, <2>2, <2>4
    <2>6. product'.suggested # NoAmount =>
            \E i \in DOMAIN history' : history'[i].suggested = product'.suggested
      BY <1>2, <1>6, <1>7, <2>3
    <2> QED
      BY <2>5, <2>6
  <1>14. ASSUME NEW q \in Upserts, SeenOK(q) PROVE SeenOK(q)'
    <2>1. q.seen.review => product'.review
      BY <1>2, <1>14 DEF SeenOK
    <2>2. q.seen.cost \in {NoAmount, product'.cost} \/ product'.review \/ FirstCostsRaced'
      BY <1>2, <1>8, <1>9, <1>10, <1>14 DEF SeenOK
    <2> QED
      BY <2>1, <2>2 DEF SeenOK
  <1> QED
    BY <1>2, <1>7, <1>11, <1>12, <1>13, <1>14 DEF CatalogInv, SeenStays

LEMMA UpsertKeeps ==
  ASSUME CatalogInv, NEW r \in Requests, req[r] \in Upserts, UpsertCommit(r), SeenOK(req[r])
  PROVE  CatalogInv' /\ SeenStays
  BY UpsertWithCost, UpsertWithoutCost

\* The catalogue as it was.
LEMMA CatalogStays ==
  ASSUME CatalogInv, UNCHANGED <<product, history>>
  PROVE  CatalogInv' /\ SeenStays
  BY DEF CatalogInv, CostFollowsHistory, HistoryOK, ReviewFlagged, FirstCostsRaced, SeenOK,
         SeenStays

(***************************************************************************)
(* Requests, and every step.                                               *)
(***************************************************************************)
\* A confirmation that has read is of an extraction that is there, and what it
\* has read of the product holds.
RequestsOK ==
  /\ req \in [Requests -> {Idle, Done} \cup Upserts]
  /\ \A r \in Requests : req[r].op = "confirm" => job[req[r].x].status # "none"
  /\ \A r \in Requests : req[r] \in Upserts => SeenOK(req[r])

Inv == JobInv /\ CatalogInv /\ RequestsOK /\ staged \in [Extractions -> Nat]

LEMMA RequestsStay ==
  ASSUME RequestsOK, JobsStay, SeenStays, NEW r \in Requests, NEW q \in {Idle, Done} \cup Upserts,
         q.op = "confirm" => job'[q.x].status # "none", q \in Upserts => SeenOK(q)',
         req' = req \/ req' = [req EXCEPT ![r] = q]
  PROVE  RequestsOK'
  <1>1. req' \in [Requests -> {Idle, Done} \cup Upserts]
    BY DEF RequestsOK
  <1> SUFFICES ASSUME NEW p \in Requests
               PROVE  /\ req'[p].op = "confirm" => job'[req'[p].x].status # "none"
                      /\ req'[p] \in Upserts => SeenOK(req[p])'
    BY <1>1 DEF RequestsOK, SeenOK
  <1>2. CASE req'[p] = q
    BY <1>2 DEF SeenOK
  <1>3. CASE req'[p] = req[p]
    <2>1. req[p].op = "confirm" => req[p] \in Upserts
      BY DEF RequestsOK, Idle, Done
    <2>2. req[p].op = "confirm" => req[p].x \in Extractions /\ job[req[p].x].status # "none"
      BY <2>1 DEF RequestsOK, Upserts
    <2>3. req[p].op = "confirm" => job'[req[p].x].status # "none"
      BY <2>2 DEF JobsStay
    <2>4. ASSUME NEW u \in Upserts, u = req[p] PROVE SeenOK(u)'
      BY <2>4 DEF RequestsOK, SeenStays
    <2>5. req'[p] \in Upserts => SeenOK(req[p])'
      BY <1>3, <2>4 DEF SeenOK
    <2> QED
      BY <1>3, <2>3, <2>5
  <1>4. req'[p] = q \/ req'[p] = req[p]
    BY DEF RequestsOK
  <1> QED
    BY <1>2, <1>3, <1>4

LEMMA DoneIsPlain == Done \in {Idle, Done} \cup Upserts /\ Done.op # "confirm" /\ Done \notin Upserts
  BY DEF Done, Upserts

LEMMA BeginKeeps ==
  ASSUME Inv, NEW r \in Requests, Begin(r)
  PROVE  Inv'
  <1>1. ASSUME NEW from \in {"route", "save", "confirm"}, NEW x \in Extractions,
               NEW cost \in Amount, NEW suggested \in Amount, NEW sale \in Prices \cup {NoAmount},
               from = "confirm" => job[x].status # "none",
               UpsertRead(r, from, x, cost, suggested, sale)
        PROVE  RequestsOK' /\ UNCHANGED <<job, product, history, staged>>
    <2>q. PICK q : q = [op |-> from, x |-> x, cost |-> cost, suggested |-> suggested,
                        sale |-> sale, seen |-> product]
      OBVIOUS
    <2>1. q \in Upserts /\ q.op = from /\ q.x = x /\ q.seen = product
      BY <2>q DEF Upserts, Inv, CatalogInv
    <2>2. req' = [req EXCEPT ![r] = q] /\ UNCHANGED <<job, product, history, staged>>
      BY <1>1, <2>q DEF UpsertRead
    <2>3. SeenOK(q)'
      BY <2>1, <2>2 DEF SeenOK
    <2>4. SeenStays
      BY <2>2, CatalogStays DEF Inv
    <2>5. RequestsOK'
      BY <1>1, <2>1, <2>2, <2>3, <2>4, RequestsStay DEF JobsStay, Inv
    <2> QED
      BY <2>2, <2>5
  <1>2. \A l \in Lines : l.cost \in Amount /\ l.price \in Amount
    BY LinesAssumption
  <1>3. \A l \in Lines, p \in Pricings :
          Confirmable(l, p) => Cost(l, p) \in Amount /\ Suggested(l, p) \in Amount
    BY CostType, SuggestedType DEF Confirmable
  <1>4. RequestsOK' /\ UNCHANGED <<job, product, history, staged>>
    BY <1>1, <1>2, <1>3 DEF Begin
  <1>5. CatalogInv'
    BY <1>4, CatalogStays DEF Inv
  <1> QED
    BY <1>4, <1>5 DEF Inv, JobInv, JobsOK, ConfirmationSticks

LEMMA CommitKeeps ==
  ASSUME Inv, NEW r \in Requests,
         CatalogCommit(r) \/ (\E lines \in BOOLEAN : ConfirmCommit(r, lines))
  PROVE  Inv'
  <1>1. req[r] \in Upserts /\ UpsertCommit(r) /\ req' = [req EXCEPT ![r] = Done]
    BY DEF CatalogCommit, ConfirmCommit, Inv, RequestsOK, Idle, Done
  <1>2. CatalogInv' /\ SeenStays
    BY <1>1, UpsertKeeps DEF Inv, RequestsOK
  <1>3. CASE CatalogCommit(r)
    <2>1. UNCHANGED <<job, staged>>
      BY <1>3 DEF CatalogCommit
    <2>2. RequestsOK'
      BY <1>1, <1>2, <2>1, DoneIsPlain, RequestsStay DEF JobsStay, Inv
    <2> QED
      BY <1>2, <2>1, <2>2 DEF Inv, JobInv, JobsOK, ConfirmationSticks
  <1>4. ASSUME NEW lines \in BOOLEAN, ConfirmCommit(r, lines) PROVE Inv'
    <2>1. req[r].op = "confirm" /\ Confirmed(req[r].x)
          /\ staged' = [staged EXCEPT ![req[r].x] = IF lines THEN @ + 1 ELSE @]
      BY <1>4 DEF ConfirmCommit
    <2>2. req[r].x \in Extractions /\ job[req[r].x].status # "none"
      BY <1>1, <2>1 DEF Inv, RequestsOK, Upserts
    <2>3. JobInv'
      BY <2>1, <2>2, ConfirmedKeeps DEF Inv
    <2>4. JobsStay
      BY <2>1, <2>2, ConfirmedStays DEF Inv, JobInv
    <2>5. RequestsOK'
      BY <1>1, <1>2, <2>4, DoneIsPlain, RequestsStay DEF Inv
    <2>6. staged' \in [Extractions -> Nat]
      <3>1. staged \in [Extractions -> Nat]
        BY DEF Inv
      <3>2. \A y \in Extractions : staged[y] \in Nat /\ staged[y] + 1 \in Nat
        BY ONLY <3>1
      <3> QED
        BY ONLY <2>1, <2>2, <3>1, <3>2
    <2> QED
      BY <1>2, <2>3, <2>5, <2>6 DEF Inv
  <1> QED
    BY <1>3, <1>4

LEMMA ConfirmLinesKeeps ==
  ASSUME Inv, NEW r \in Requests, NEW x \in Extractions, ConfirmLines(r, x)
  PROVE  Inv'
  <1>1. /\ job[x].status # "none" /\ Confirmed(x) /\ req' = [req EXCEPT ![r] = Done]
        /\ staged' = [staged EXCEPT ![x] = @ + 1] /\ UNCHANGED <<product, history>>
    BY DEF ConfirmLines
  <1>2. JobInv' /\ JobsStay
    <2>1. JobInv'
      BY <1>1, ConfirmedKeeps DEF Inv
    <2>2. JobsStay
      BY <1>1, ConfirmedStays DEF Inv, JobInv
    <2> QED
      BY <2>1, <2>2
  <1>3. CatalogInv' /\ SeenStays
    BY <1>1, CatalogStays DEF Inv
  <1>4. RequestsOK'
    BY <1>1, <1>2, <1>3, DoneIsPlain, RequestsStay DEF Inv
  <1>5. staged' \in [Extractions -> Nat]
    BY <1>1 DEF Inv
  <1> QED
    BY <1>2, <1>3, <1>4, <1>5 DEF Inv

LEMMA JobsKeep ==
  ASSUME Inv, NEW x \in Extractions, AnalyzeNow(x) \/ AnalyzeLarge(x) \/ JobStep(x)
  PROVE  Inv'
  <1>1. JobInv'
    BY AnalyzeKeeps, JobStepKeeps DEF Inv
  <1>2. UNCHANGED <<product, history, staged, req>>
    BY DEF AnalyzeNow, AnalyzeLarge, JobStep, JobStart, JobEnd
  <1>3. JobsStay
    <2> SUFFICES ASSUME NEW y \in Extractions, job[y].status # "none"
                 PROVE  job'[y].status # "none"
      BY DEF JobsStay
    <2>1. job \in [Extractions -> Jobs] /\ job[y] \in Jobs
      BY DEF Inv, JobInv
    <2>2. CASE AnalyzeNow(x) \/ AnalyzeLarge(x)
      BY <2>1, <2>2 DEF AnalyzeNow, AnalyzeLarge, Jobs
    <2>3. CASE JobStart(x)
      BY <2>1, <2>3 DEF JobStart, Jobs
    <2>4. ASSUME NEW l \in Lines, NEW p \in Pricings, NEW ok \in BOOLEAN, JobEnd(x, l, p, ok)
          PROVE  job'[y].status # "none"
      BY <2>1, <2>4 DEF JobEnd, Jobs
    <2> QED
      BY <2>2, <2>3, <2>4 DEF JobStep
  <1>4. CatalogInv' /\ SeenStays
    BY <1>2, CatalogStays DEF Inv
  <1>5. RequestsOK'
    <2>1. \A r \in Requests : req[r] \in Upserts => SeenOK(req[r])'
      BY <1>2 DEF SeenOK, RequestsOK, Inv, FirstCostsRaced
    <2> QED
      BY <1>2, <1>3, <2>1 DEF RequestsOK, JobsStay, Inv, Upserts, Idle, Done
  <1> QED
    BY <1>1, <1>2, <1>4, <1>5 DEF Inv

LEMMA CrashKeepsAll ==
  ASSUME Inv, Crash
  PROVE  Inv'
  <1>1. JobInv'
    BY CrashKeeps DEF Inv
  <1>2. UNCHANGED <<product, history, staged>>
        /\ req' = [r \in Requests |-> IF req[r] = Idle THEN Idle ELSE Done]
    BY DEF Crash
  <1>3. RequestsOK'
    <2>1. Done \notin Upserts /\ Idle \notin Upserts
      BY DEF Done, Idle, Upserts
    <2>2. \A r \in Requests : req'[r] \in {Idle, Done}
      BY <1>2
    <2>3. req' \in [Requests -> {Idle, Done} \cup Upserts]
      BY <1>2
    <2> QED
      BY <2>1, <2>2, <2>3 DEF RequestsOK, Idle, Done
  <1>4. CatalogInv'
    BY <1>2, CatalogStays DEF Inv
  <1> QED
    BY <1>1, <1>2, <1>3, <1>4 DEF Inv

(***************************************************************************)
(* The theorems.                                                           *)
(***************************************************************************)
LEMMA InitInv == Init => Inv
  <1> SUFFICES ASSUME Init PROVE Inv
    OBVIOUS
  <1>1. JobInv
    BY DEF Init, JobInv, Jobs, Statuses, JobsOK, ConfirmationSticks
  <1>2. CatalogInv
    BY DEF Init, CatalogInv, Products, Amount, CostFollowsHistory, HistoryOK, ReviewFlagged
  <1>3. RequestsOK /\ staged \in [Extractions -> Nat]
    BY DEF Init, RequestsOK, Idle, Upserts
  <1> QED
    BY <1>1, <1>2, <1>3 DEF Inv

LEMMA NextInv == Inv /\ [Next]_vars => Inv'
  <1> SUFFICES ASSUME Inv, [Next]_vars PROVE Inv'
    OBVIOUS
  <1>1. ASSUME NEW r \in Requests, Drop(r) PROVE Inv'
    <2>1. UNCHANGED <<job, product, history, staged>> /\ req' = [req EXCEPT ![r] = Done]
      BY <1>1 DEF Drop
    <2>2. CatalogInv' /\ SeenStays
      BY <2>1, CatalogStays DEF Inv
    <2>3. RequestsOK'
      BY <2>1, <2>2, DoneIsPlain, RequestsStay DEF JobsStay, Inv
    <2> QED
      BY <2>1, <2>2, <2>3 DEF Inv, JobInv, JobsOK, ConfirmationSticks
  <1>2. CASE UNCHANGED vars
    <2>1. UNCHANGED <<job, product, history, staged, req>>
      BY <1>2 DEF vars
    <2>2. CatalogInv'
      BY <2>1, CatalogStays DEF Inv
    <2>3. RequestsOK'
      BY <2>1 DEF Inv, RequestsOK, SeenOK, FirstCostsRaced
    <2> QED
      BY <2>1, <2>2, <2>3 DEF Inv, JobInv, JobsOK, ConfirmationSticks
  <1> QED
    BY <1>1, <1>2, BeginKeeps, CommitKeeps, ConfirmLinesKeeps, JobsKeep, CrashKeepsAll DEF Next

LEMMA SpecInv == Spec => []Inv
  BY InitInv, NextInv, PTL DEF Spec

\* Rows of stock_ai_extractions, catalog_products and its cost history keep
\* their types, whatever jobs, confirmations and upserts interleave.
THEOREM SpecTypeOK == Spec => []TypeOK
  <1>1. Inv => TypeOK
    BY DEF Inv, JobInv, CatalogInv, RequestsOK, TypeOK
  <1> QED
    BY <1>1, SpecInv, PTL

\* Only a job that was running at the first confirmation can write over
\* CONFIRMED (_run_large_ai_preload_extraction).
THEOREM SpecConfirmationSticks == Spec => []ConfirmationSticks
  <1>1. Inv => ConfirmationSticks
    BY DEF Inv, JobInv
  <1> QED
    BY <1>1, SpecInv, PTL

\* The product has the cost of its last history entry, or the request of that
\* entry had read the cost it wrote (upsert_catalog_product).
THEOREM SpecCostFollowsHistory == Spec => []CostFollowsHistory
  <1>1. Inv => CostFollowsHistory
    BY DEF Inv, CatalogInv
  <1> QED
    BY <1>1, SpecInv, PTL

\* A product whose cost was ever another one keeps its price review, whatever
\* upserts overlap, unless two requests both gave it a first cost
\* (upsert_catalog_product: price_review_required is set and never cleared).
THEOREM SpecReviewFlagged == Spec => []ReviewFlagged
  <1>1. Inv => ReviewFlagged
    BY DEF Inv, CatalogInv
  <1> QED
    BY <1>1, SpecInv, PTL

\* Of every line that is priced without an error, the suggested price is the
\* multiple of the rounding step next to the markup, margin or multiplied cost:
\* at or above it, but at or below it when the client's step is negative
\* (apply_pricing, round_up, rounding_step).
THEOREM SuggestedIsTight ==
  ASSUME NEW l \in Lines, NEW p \in Pricings, Priced(l, p), NEW n, NEW d, Base(l, p, n, d)
  PROVE  LET s == StepOf(p.step)
             price == Suggested(l, p)
         IN /\ n \in Int /\ d \in Nat \ {0} /\ price \in Int
            /\ s > 0 => price % s = 0 /\ price * d >= n /\ (price - s) * d < n
            /\ s < 0 => price % (-s) = 0 /\ price * d <= n /\ (price - s) * d > n
  <1> DEFINE s == StepOf(p.step)
             price == Suggested(l, p)
  <1>1. n \in Int /\ d \in Nat \ {0} /\ price = RoundUp(n, d, s)
    BY SuggestedIsRounded
  <1>2. p.step \in Int /\ s \in Int
    BY PricedType DEF StepOf
  <1>3. price \in Int
    BY <1>1, <1>2, RoundUpType
  <1> HIDE DEF s, price
  <1>4. s > 0 => price % s = 0 /\ price * d >= n /\ (price - s) * d < n
    BY <1>1, <1>2, RoundUpIsTight
  <1>5. s < 0 => price % (-s) = 0 /\ price * d <= n /\ (price - s) * d > n
    <2> SUFFICES ASSUME s < 0
                 PROVE  price % (-s) = 0 /\ price * d <= n /\ (price - s) * d > n
      OBVIOUS
    <2> DEFINE t == -s
    <2>1. t \in Nat \ {0} /\ s = -t /\ price - s = price + t
      BY <1>2, <1>3
    <2> HIDE DEF t
    <2>2. price % t = 0 /\ price * d <= n /\ (price + t) * d > n
      BY <1>1, <2>1, RoundUpGoesDown
    <2> QED
      BY <2>1, <2>2 DEF t
  <1> QED
    BY <1>1, <1>3, <1>4, <1>5 DEF s, price
=============================================================================
