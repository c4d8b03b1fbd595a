------------------------------- MODULE Intake -------------------------------
(***************************************************************************)
(* The assisted intake of goods: an AI extraction with its background job, *)
(* the confirmation that turns it into preload lines, and the catalogue    *)
(* product that confirmations, preload lines and the catalogue routes      *)
(* update (routers/stock.py, services/stock_ai_preload.py,                 *)
(* services/catalog_products.py).                                          *)
(*                                                                         *)
(* The job of a large text runs in the process that served the request,    *)
(* after the response: a crash loses it.  It records an AppError as FAILED *)
(* and lets every other exception pass.  A product is read without a lock  *)
(* and written at the commit, column by column where it differs from what  *)
(* was read (Flush).  There is one product; amounts are in cents,          *)
(* percentages, multipliers, exchange rates and steps in hundredths.       *)
(***************************************************************************)
EXTENDS Integers, Sequences

CONSTANTS
  Extractions,  \* rows of stock_ai_extractions
  Requests,     \* requests that write the catalogue
  Lines,        \* lines as a client or the service gives them
  Prices,       \* sale_price of a preload line
  Pricings,     \* how a request or a job prices them
  NoAmount      \* null

Amount == Int \cup {NoAmount}
Modes == {"markup_percent", "margin_percent", "multiplier", "manual"}

\* Any amount may be missing from a line; rate is null where the line's
\* currency has no exchange rate, by where the mode's number is not given.
ASSUME NoAmountAssumption == NoAmount \notin Int
ASSUME LinesAssumption == Lines \subseteq [original : Amount, cost : Amount, price : Amount]
ASSUME PricesAssumption == Prices \subseteq Int
ASSUME PricingsAssumption ==
  Pricings \subseteq [mode : Modes, by : Amount, rate : Amount, step : Int]

VARIABLES
  job,      \* Extractions -> status of the row and run of its job
  product,  \* the row of catalog_products
  history,  \* the rows of catalog_product_cost_history as committed
  staged,   \* Extractions -> confirmations that made preload lines from it
  req       \* Requests -> what the request has read

vars == <<job, product, history, staged, req>>

Statuses == {"none", "DRAFT", "PROCESSING", "COMPLETED", "FAILED", "CONFIRMED"}
\* first, the status that was confirmed first, is history.
Jobs == [status : Statuses, first : Statuses,
         run : {"none", "queued", "calling", "over", "lost"}]
Idle == [op |-> "Idle"]
Done == [op |-> "Done"]

Products == [exists : BOOLEAN, cost : Amount, suggested : Amount, price : Prices \cup {NoAmount},
             review : BOOLEAN]
\* read is the cost the entry's request found on the product.
Entries == [cost : Int, read : Amount, suggested : Amount]
Upserts == [op : {"route", "save", "confirm"}, x : Extractions, cost : Amount, suggested : Amount,
            sale : Prices \cup {NoAmount}, seen : Products]

----------------------------------------------------------------------------
(***************************************************************************)
(* Pricing.                                                                *)
(***************************************************************************)
\* parse_decimal(rounding_step) or Decimal("1.00"): zero counts as missing.
StepOf(step) == IF step = 0 THEN 100 ELSE step

\* round_up of n / d: the quotient by the step, up to a whole number, times the
\* step; a negative step rounds down.
RoundUp(n, d, step) ==
  LET sign == IF step < 0 THEN -1 ELSE 1
      k == d * (step * sign)
  IN ((n * sign + k - 1) \div k) * step

\* quantize: the whole number nearest to n / 100, the even one of two.
Quantize(n) ==
  LET q == n \div 100 IN
  IF n % 100 > 50 \/ (n % 100 = 50 /\ q % 2 = 1) THEN q + 1 ELSE q

(***************************************************************************)
(* apply_pricing.                                                          *)
(***************************************************************************)
\* The cost: the line's own, or the original cost at the exchange rate.
Cost(l, p) ==
  IF l.cost # NoAmount \/ l.original = NoAmount THEN l.cost
  ELSE IF p.rate = NoAmount THEN NoAmount ELSE Quantize(l.original * p.rate)

\* Only a line with an original cost, a cost and the mode's number is priced.
Priced(l, p) == NoAmount \notin {l.original, Cost(l, p), p.by} /\ p.mode # "manual"

\* A margin of 100 per cent divides by zero: an exception, no AppError.
Raises(l, p) == Priced(l, p) /\ p.mode = "margin_percent" /\ p.by = 10000

\* The suggested price; where the line is not priced, the one it came with.
Suggested(l, p) ==
  LET c == Cost(l, p) IN
  CASE ~Priced(l, p) -> l.price
    [] Priced(l, p) /\ p.mode = "markup_percent" ->
         RoundUp(c * (10000 + p.by), 10000, StepOf(p.step))
    [] Priced(l, p) /\ p.mode = "margin_percent" /\ p.by < 10000 ->
         RoundUp(c * 10000, 10000 - p.by, StepOf(p.step))
    [] Priced(l, p) /\ p.mode = "margin_percent" /\ p.by > 10000 ->
         RoundUp(-c * 10000, p.by - 10000, StepOf(p.step))
    [] Priced(l, p) /\ p.mode = "multiplier" -> RoundUp(c * p.by, 100, StepOf(p.step))

----------------------------------------------------------------------------
Init ==
  /\ job = [x \in Extractions |-> [status |-> "none", first |-> "none", run |-> "none"]]
  /\ product = [exists |-> FALSE, cost |-> NoAmount, suggested |-> NoAmount,
                price |-> NoAmount, review |-> FALSE]
  /\ history = <<>>
  /\ staged = [x \in Extractions |-> 0]
  /\ req = [r \in Requests |-> Idle]

(***************************************************************************)
(* analyze_ai_preload.  A short text or a file is analysed before the      *)
(* answer: a failure leaves nothing, a late answer may leave the DRAFT.    *)
(***************************************************************************)
\* An analysis that answered in time and still starts the job.
AnalyzeTwice(x) ==
  /\ job[x].status = "none"
  /\ job' = [job EXCEPT ![x].status = "DRAFT", ![x].run = "queued"]
  /\ UNCHANGED <<product, history, staged, req>>

AnalyzeNow(x) ==
  /\ job[x].status = "none"
  /\ job' = [job EXCEPT ![x].status = "DRAFT"]
  /\ UNCHANGED <<product, history, staged, req>>

AnalyzeLarge(x) ==
  /\ job[x].status = "none"
  /\ job' = [job EXCEPT ![x].status = "PROCESSING", ![x].run = "queued"]
  /\ UNCHANGED <<product, history, staged, req>>

\* _run_large_ai_preload_extraction
JobStart(x) ==
  /\ job[x].run = "queued"
  /\ job' = [job EXCEPT ![x].run = "calling"]
  /\ UNCHANGED <<product, history, staged, req>>

\* A job that leaves an AppError in its log only.
JobEndForgets(x, l, p, ok) ==
  /\ job[x].run = "calling"
  /\ job' = [job EXCEPT ![x] =
       IF ok /\ Raises(l, p) THEN [@ EXCEPT !.run = "lost"]
       ELSE [@ EXCEPT !.run = "over", !.status = IF ok THEN "COMPLETED" ELSE @]]
  /\ UNCHANGED <<product, history, staged, req>>

\* The service answers and the lines are priced, or extract raises AppError.
JobEnd(x, l, p, ok) ==
  /\ job[x].run = "calling"
  /\ job' = [job EXCEPT ![x] =
       IF ok /\ Raises(l, p) THEN [@ EXCEPT !.run = "lost"]
       ELSE [@ EXCEPT !.run = "over", !.status = IF ok THEN "COMPLETED" ELSE "FAILED"]]
  /\ UNCHANGED <<product, history, staged, req>>

----------------------------------------------------------------------------
(***************************************************************************)
(* upsert_catalog_product.  from is who calls it: a catalogue route, the   *)
(* save of a preload line (the one caller that gives a sale price) or the  *)
(* confirmation of an extraction.                                          *)
(***************************************************************************)
UpsertRead(r, from, x, cost, suggested, sale) ==
  /\ req[r] = Idle
  /\ req' = [req EXCEPT ![r] = [op |-> from, x |-> x, cost |-> cost, suggested |-> suggested,
                                sale |-> sale, seen |-> product]]
  /\ UNCHANGED <<job, product, history, staged>>

\* A flush that writes back every column.
FlushAll(old, new, cur) == new

\* What the row becomes when a request that read old writes new.
Flush(old, new, cur) == [f \in DOMAIN cur |-> IF new[f] = old[f] THEN cur[f] ELSE new[f]]

\* The upsert that keeps the first cost of the product.
UpsertedFirst(old, q) ==
  IF q.cost = NoAmount THEN [old EXCEPT !.exists = TRUE]
  ELSE [exists |-> TRUE, cost |-> IF old.cost = NoAmount THEN q.cost ELSE old.cost,
        suggested |-> IF q.suggested = NoAmount THEN old.suggested ELSE q.suggested,
        price |-> IF q.sale # NoAmount /\ old.price = NoAmount THEN q.sale ELSE old.price,
        review |-> old.review \/ (old.cost # NoAmount /\ old.cost # q.cost)]

\* The product as the request writes it: prices only come with a cost.
Upserted(old, q) ==
  IF q.cost = NoAmount THEN [old EXCEPT !.exists = TRUE]
  ELSE [exists |-> TRUE, cost |-> q.cost,
        suggested |-> IF q.suggested = NoAmount THEN old.suggested ELSE q.suggested,
        price |-> IF q.sale # NoAmount /\ old.price = NoAmount THEN q.sale ELSE old.price,
        review |-> old.review \/ (old.cost # NoAmount /\ old.cost # q.cost)]

\* The second of two requests that found no product meets the unique key.
Collides(q) == product.exists /\ ~q.seen.exists

UpsertCommit(r) ==
  LET q == req[r] IN
  /\ ~Collides(q)
  /\ product' = Flush(q.seen, Upserted(q.seen, q), product)
  /\ history' = IF q.cost = NoAmount THEN history
                ELSE Append(history, [cost |-> q.cost, read |-> q.seen.cost, suggested |-> q.suggested])

\* upsert_catalog_product and bulk_upsert_catalog_products; save_preload_line.
CatalogCommit(r) ==
  /\ req[r].op \in {"route", "save"}
  /\ UpsertCommit(r)
  /\ req' = [req EXCEPT ![r] = Done]
  /\ UNCHANGED <<job, staged>>

\* A line without a cost is refused, a margin of 100 per cent is an error.
Confirmable(l, p) == Cost(l, p) # NoAmount /\ ~Raises(l, p)

\* The extraction is marked in any status; a second confirmation stages the
\* lines again.
Confirmed(x) ==
  job' = [job EXCEPT ![x].status = "CONFIRMED",
                     ![x].first = IF @ = "none" THEN job[x].status ELSE @]

\* confirm_ai_preload with the catalogue; lines unless CATALOG_ONLY.
ConfirmCommit(r, lines) ==
  LET x == req[r].x IN
  /\ req[r].op = "confirm"
  /\ UpsertCommit(r)
  /\ Confirmed(x)
  /\ staged' = [staged EXCEPT ![x] = IF lines THEN @ + 1 ELSE @]
  /\ req' = [req EXCEPT ![r] = Done]

\* confirm_ai_preload with CREATE_PRELOAD_ONLY.
ConfirmLines(r, x) ==
  /\ req[r] = Idle /\ job[x].status # "none"
  /\ \E l \in Lines, p \in Pricings : Confirmable(l, p)
  /\ Confirmed(x)
  /\ staged' = [staged EXCEPT ![x] = @ + 1]
  /\ req' = [req EXCEPT ![r] = Done]
  /\ UNCHANGED <<product, history>>

\* A request that is refused or dies leaves nothing.
Drop(r) ==
  /\ req[r] \notin {Idle, Done}
  /\ req' = [req EXCEPT ![r] = Done]
  /\ UNCHANGED <<job, product, history, staged>>

\* The process dies with its requests and its jobs.
Crash ==
  /\ \E x \in Extractions : job[x].run \in {"queued", "calling"}
  /\ job' = [x \in Extractions |-> IF job[x].run \in {"queued", "calling"}
                                   THEN [job[x] EXCEPT !.run = "lost"] ELSE job[x]]
  /\ req' = [r \in Requests |-> IF req[r] = Idle THEN Idle ELSE Done]
  /\ UNCHANGED <<product, history, staged>>

Begin(r) ==
  \E x \in Extractions, l \in Lines :
    \/ UpsertRead(r, "route", x, l.cost, l.price, NoAmount)
    \/ \E sale \in Prices : UpsertRead(r, "save", x, l.cost, l.price, sale)
    \/ \E p \in Pricings :
         /\ job[x].status # "none" /\ Confirmable(l, p)
         /\ UpsertRead(r, "confirm", x, Cost(l, p), Suggested(l, p), NoAmount)

JobStep(x) ==
  JobStart(x) \/ \E l \in Lines, p \in Pricings, ok \in BOOLEAN : JobEnd(x, l, p, ok)

Next ==
  \/ \E x \in Extractions : AnalyzeNow(x) \/ AnalyzeLarge(x) \/ JobStep(x)
  \/ \E r \in Requests :
       \/ Begin(r) \/ CatalogCommit(r) \/ Drop(r)
       \/ \E lines \in BOOLEAN : ConfirmCommit(r, lines)
       \/ \E x \in Extractions : ConfirmLines(r, x)
  \/ Crash

Spec == Init /\ [][Next]_vars

\* A background task that was added runs, and extract has a timeout.
FairSpec == Spec /\ \A x \in Extractions : WF_vars(JobStep(x))

----------------------------------------------------------------------------
\* Every row is one the code can write.
TypeOK ==
  /\ job \in [Extractions -> Jobs]
  /\ staged \in [Extractions -> Nat]
  /\ product \in Products
  /\ history \in Seq(Entries)
  /\ req \in [Requests -> {Idle, Done} \cup Upserts]

\* What an operator confirmed stays confirmed, unless it was confirmed while
\* its job still ran: no other extraction has a job that writes it later.
ConfirmationSticks ==
  \A x \in Extractions :
    job[x].first \in {"DRAFT", "COMPLETED", "FAILED"} => job[x].status = "CONFIRMED"

\* The product has the cost of the last entry of its history, unless that
\* entry's request read this very cost before another one changed it.
CostFollowsHistory ==
  history # <<>> =>
    LET h == history[Len(history)] IN product.cost = h.cost \/ h.read = h.cost

\* Two requests that found no cost both gave one: neither asks for a review.
FirstCostsRaced ==
  \E i, j \in DOMAIN history : i # j /\ history[i].read = NoAmount /\ history[j].read = NoAmount

\* A product whose cost was ever another one is flagged for a price review, so
\* that the suggested price of an unflagged product was given with its cost;
\* no concurrent request takes the flag back.  Raced first costs are not seen.
ReviewFlagged ==
  \/ product.review \/ FirstCostsRaced
  \/ /\ \A i \in DOMAIN history : history[i].cost = product.cost
     /\ product.suggested # NoAmount =>
          \E i \in DOMAIN history : history[i].suggested = product.suggested

\* A large text is analysed in the end, one way or the other, unless a crash
\* or an exception that is no AppError took its job.
ExtractionSettles ==
  \A x \in Extractions :
    job[x].status = "PROCESSING" ~> (job[x].status # "PROCESSING" \/ job[x].run = "lost")
=============================================================================
