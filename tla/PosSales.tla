------------------------------ MODULE PosSales ------------------------------
(***************************************************************************)
(* Sales, returns and advances of one store (routers/pos_sales.py,         *)
(* services/pos_returns.py, routers/pos_advances.py) and the stock rows    *)
(* they move.                                                              *)
(*                                                                         *)
(* sale_action, update_sale and apply_action read their row without a      *)
(* lock and write it when they commit: a request is a read and, later, a   *)
(* commit.  Stock rows and advances are locked between their SELECT and    *)
(* the commit, so the commit sees and changes them in one step.  A request *)
(* that is refused or dies leaves nothing (Drop).                          *)
(*                                                                         *)
(* There is one SKU, every unit costs 1 and an advance is worth 1.  A      *)
(* request may name the SKU or an EPC in several lines, and a return a     *)
(* line in several items.  What a checkout or a refund books in the drawer *)
(* is in PosCash.                                                          *)
(***************************************************************************)
EXTENDS Integers, Sequences, FiniteSets, Functions

CONSTANTS
  Sales,       \* identifiers of sales
  Items,       \* identifiers of stock rows, 1..n by created_at
  Tags,        \* the rows that carry an EPC at first; the EPC of row i is i
  NoTag,       \* not an item: the line names the SKU
  Advances,    \* identifiers of advances
  NoAdvance,   \* not an advance: paid without one
  Drafts,      \* identifiers of returns
  Requests,    \* the requests of several steps of a behaviour
  Payloads,    \* the lines a client sends: sequences of lines
  MaxLines,    \* bound on the lines of a request
  MaxQty,      \* bound on the quantity of a SKU line
  MaxBack,     \* bound on the units the items of a return name of one line
  MaxUpdates   \* bound on the updates of a sale

ASSUME ItemsAssumption == Items \subseteq Nat /\ IsFiniteSet(Items) /\ Tags \subseteq Items
ASSUME SalesAssumption == IsFiniteSet(Sales)
ASSUME NoneAssumption == NoTag \notin Items /\ NoAdvance \notin Advances
ASSUME MaxAssumption == {MaxLines, MaxQty, MaxBack, MaxUpdates} \subseteq Nat

\* An EPC line is one unit (_build_sale_line_from_stock).
Line == {l \in [epc : Tags \cup {NoTag}, qty : 1..MaxQty] : l.epc # NoTag => l.qty = 1}

ASSUME PayloadsAssumption ==
  \A l \in Payloads : l \in Seq(Line) /\ Len(l) \in 1..MaxLines

VARIABLES
  sales,     \* Sales -> row of pos_sales with its lines
  stock,     \* Items -> row of stock_items
  payments,  \* sequence of the checkouts' rows of pos_payments
  advances,  \* Advances -> row of pos_advances
  drafts,    \* Drafts -> row of pos_return_events that is a return
  req        \* Requests -> what the request has read

vars == <<sales, stock, payments, advances, drafts, req>>

(***************************************************************************)
(* Rows.  A sale's lines are a function of their ids; every request that   *)
(* writes lines has new ids, so an id is a batch and a place in it.  gen   *)
(* counts the updates, returned what the committed events of a line say.   *)
(* taken (the generation a checkout took from stock, -1 before), raced (a  *)
(* return was computed from a balance that had changed when it was         *)
(* written, or named a line twice), spent (how often the value of an       *)
(* advance was given) and traded (how often by an exchange) are history.   *)
(***************************************************************************)
LineIds == (0..MaxUpdates) \X (1..MaxLines)
Lines   == UNION {[D -> Line] : D \in SUBSET LineIds}
NoLines == [n \in {} |-> n]
Counts  == [LineIds -> Nat]
Zero    == [n \in LineIds |-> 0]

\* The items of a return that name one line: the largest and the sum.
Entries == {e \in [most : 0..MaxQty, all : 0..MaxBack] :
              e.most <= e.all /\ (e.most = 0 => e.all = 0)}
Backs   == UNION {[D -> Entries] : D \in SUBSET LineIds}

SaleRows == [status : {"none", "DRAFT", "PAID", "CANCELED"}, lines : Lines,
             gen : 0..MaxUpdates, returned : Counts, taken : -1..MaxUpdates, raced : BOOLEAN]
StockRows == [sold : BOOLEAN, epc : BOOLEAN]
Payments == [sale : Sales, gen : 0..MaxUpdates, lines : Lines,
             advances : SUBSET Advances, amount : Nat]
AdvanceRows == [status : {"none", "ACTIVE", "CONSUMED", "REFUNDED", "EXPIRED"},
                lapsed : BOOLEAN, spent : Nat, traded : Nat]
DraftRows == [status : {"DRAFT", "VOIDED", "COMPLETED"}, sale : Sales,
              back : Backs, seen : Counts]
NoDraft == [status |-> "none"]

Idle == [op |-> "idle"]
Done == [op |-> "done"]
Ops == {"update", "cancel", "checkout", "refund", "exchange", "expire", "complete", "void"}

\* What a request keeps between its read and its commit.
Updating  == [op : {"update"}, sale : Sales, lines : Payloads, gen : 0..MaxUpdates]
Canceling == [op : {"cancel"}, sale : Sales]
Paying    == [op : {"checkout"}, sale : Sales, lines : Lines, gen : 0..MaxUpdates,
              advance : Advances \cup {NoAdvance}]
Returning == [op : {"refund", "exchange"}, sale : Sales, lines : Lines,
              back : Backs, seen : Counts]
Deciding  == [op : {"complete", "void"}, draft : Drafts]
Expiring  == [op : {"expire"}, advance : Advances]
Kinds == {Idle, Done} \cup Updating \cup Canceling \cup Paying \cup Returning \cup Deciding \cup Expiring

Due(l)   == SumFunction([n \in DOMAIN l |-> l[n].qty])
Units(c) == SumFunction([n \in DOMAIN c |-> c[n].all])

Init ==
  /\ sales = [s \in Sales |-> [status |-> "none", lines |-> NoLines, gen |-> 0,
                               returned |-> Zero, taken |-> -1, raced |-> FALSE]]
  /\ stock = [i \in Items |-> [sold |-> FALSE, epc |-> i \in Tags]]
  /\ payments = <<>>
  /\ advances = [a \in Advances |-> [status |-> "none", lapsed |-> FALSE, spent |-> 0, traded |-> 0]]
  /\ drafts = [d \in Drafts |-> NoDraft]
  /\ req = [r \in Requests |-> Idle]

(***************************************************************************)
(* Stock selections.  autoflush is off: the selections of one request all  *)
(* read the rows as they were before it.                                   *)
(***************************************************************************)
Free == {i \in Items : ~stock[i].sold /\ ~stock[i].epc}
Sold == {i \in Items : stock[i].sold}
Oldest(S, n) == {i \in S : Cardinality({j \in S : j < i}) < n}

\* A selection of the row of an EPC line that takes a sold row too.
TagInStockSold(x) == x.epc # NoTag => stock[x.epc].epc \/ stock[x.epc].sold

\* sale_epc_filters
TagInStock(x) == x.epc # NoTag => stock[x.epc].epc /\ ~stock[x.epc].sold

CanTake(l) ==
  \A n \in DOMAIN l : /\ TagInStock(l[n])
                      /\ l[n].epc = NoTag => Cardinality(Free) >= l[n].qty

\* The rows one line selects: two SKU lines of a request select the same ones.
Picks(x)  == IF x.epc = NoTag THEN Oldest(Free, x.qty) ELSE {x.epc}
Picked(l) == UNION {Picks(l[n]) : n \in DOMAIN l}

\* A selection of SKU rows that takes sold rows too.
TakeSoldToo(l, keepTag) ==
  LET untagged == {i \in Items : ~stock[i].epc}
      rows == UNION {IF l[n].epc = NoTag THEN Oldest(untagged, l[n].qty) ELSE {l[n].epc} : n \in DOMAIN l}
  IN [i \in Items |-> IF i \in rows THEN [sold |-> TRUE, epc |-> stock[i].epc /\ keepTag] ELSE stock[i]]

\* The rows after the lines l are sold; a checkout clears the EPC of a row,
\* an exchange keeps it.
Take(l, keepTag) ==
  [i \in Items |-> IF i \in Picked(l) THEN [sold |-> TRUE, epc |-> stock[i].epc /\ keepTag]
                   ELSE stock[i]]

\* A refund finds the row of an EPC line by EPC and SOLD, those of a SKU line
\* by SKU and SOLD only; two items of a line find the same rows.
Named(c) == {n \in DOMAIN c : c[n].most > 0}
CanReturn(l, c) ==
  \A n \in Named(c) : IF l[n].epc = NoTag THEN Cardinality(Sold) >= c[n].most
                      ELSE stock[l[n].epc].epc /\ stock[l[n].epc].sold
Frees(x, k) == IF x.epc = NoTag THEN Oldest(Sold, k) ELSE {x.epc}
Returned(l, c) == UNION {Frees(l[n], c[n].most) : n \in Named(c)}

\* A return that looks at the sold quantities only.
ReturnableForgets(s) ==
  LET l == sales[s].lines
  IN {c \in [DOMAIN l -> Entries] : Named(c) # {} /\ \A n \in Named(c) : c[n].most <= l[n].qty}

\* What may be returned of sale s, by the events that are committed
\* (_refunded_quantities, _completed_returned_quantities).  Each item is
\* compared with the balance of its line; items of the same line do not add up.
Returnable(s) ==
  LET l == sales[s].lines
  IN {c \in [DOMAIN l -> Entries] :
        /\ Named(c) # {}
        /\ \A n \in Named(c) : c[n].most <= l[n].qty - sales[s].returned[n]}

\* A return event of c is committed: it counts for the lines that are still
\* there, those that are gone are never looked up again.
Record(s, c, seen) ==
  LET there == Named(c) \cap DOMAIN sales[s].lines
  IN [sales[s] EXCEPT
        !.returned = [n \in LineIds |-> IF n \in there THEN @[n] + c[n].all ELSE @[n]],
        !.raced = @ \/ \E n \in there : \/ sales[s].returned[n] # seen[n]
                                        \/ c[n].all > c[n].most]

Finish(r) == req' = [req EXCEPT ![r] = Done]

(***************************************************************************)
(* create_sale and update_sale.                                            *)
(***************************************************************************)
\* _build_sale_line_from_stock: a SKU line with a unit price is accepted
\* whatever the stock, an EPC line only if its row is there.
LinesAccepted(l) == \A i \in DOMAIN l : TagInStock(l[i])

\* The lines of batch g are inserted.
Batch(g, l) == [n \in {g} \X DOMAIN l |-> l[n[2]]]

CreateSale(s, l) ==
  /\ sales[s].status = "none"
  /\ LinesAccepted(l)
  /\ sales' = [sales EXCEPT ![s].status = "DRAFT", ![s].lines = Batch(0, l)]
  /\ UNCHANGED <<stock, payments, advances, drafts, req>>

UpdateRead(r, s, l) ==
  /\ req[r] = Idle
  /\ sales[s].status = "DRAFT"
  /\ LinesAccepted(l)
  /\ req' = [req EXCEPT ![r] = [op |-> "update", sale |-> s, lines |-> l, gen |-> sales[s].gen]]
  /\ UNCHANGED <<sales, stock, payments, advances, drafts>>

\* The lines old without the batches up to u, with those of batch g.
Replaced(old, u, g, l) ==
  [n \in {m \in DOMAIN old : m[1] > u} \cup ({g} \X DOMAIN l) |->
     IF n[1] = g THEN l[n[2]] ELSE old[n]]

\* The DELETE sees the lines as of some update u since the read: those that a
\* concurrent update inserted after it stay, beside the new ones.  The
\* status, read as DRAFT, is not written.
UpdateCommit(r, u) ==
  LET q == req[r]
  IN /\ q.op = "update"
     /\ sales[q.sale].gen < MaxUpdates
     /\ u \in q.gen..sales[q.sale].gen
     /\ sales' = [sales EXCEPT
                     ![q.sale].lines = Replaced(@, u, sales[q.sale].gen + 1, q.lines),
                     ![q.sale].gen = @ + 1]
     /\ Finish(r)
     /\ UNCHANGED <<stock, payments, advances, drafts>>

(***************************************************************************)
(* sale_action                                                             *)
(***************************************************************************)
CancelRead(r, s) ==
  /\ req[r] = Idle
  /\ sales[s].status = "DRAFT"
  /\ req' = [req EXCEPT ![r] = [op |-> "cancel", sale |-> s]]
  /\ UNCHANGED <<sales, stock, payments, advances, drafts>>

CancelCommit(r) ==
  /\ req[r].op = "cancel"
  /\ sales' = [sales EXCEPT ![req[r].sale].status = "CANCELED"]
  /\ Finish(r)
  /\ UNCHANGED <<stock, payments, advances, drafts>>

\* now, which decides whether the advance has lapsed, is taken here.
CheckoutRead(r, s, a) ==
  /\ req[r] = Idle
  /\ sales[s].status = "DRAFT"
  /\ DOMAIN sales[s].lines # {}
  /\ a # NoAdvance => advances[a].status # "none" /\ ~advances[a].lapsed
  /\ req' = [req EXCEPT ![r] = [op |-> "checkout", sale |-> s, lines |-> sales[s].lines,
                                gen |-> sales[s].gen, advance |-> a]]
  /\ UNCHANGED <<sales, stock, payments, advances, drafts>>

\* _resolve_advance_for_checkout
AdvanceIsActive(a) == a # NoAdvance => advances[a].status = "ACTIVE"

CheckoutCommit(r) ==
  LET q == req[r]
  IN /\ q.op = "checkout"
     /\ AdvanceIsActive(q.advance)
     /\ CanTake(q.lines)
     /\ stock' = Take(q.lines, FALSE)
     /\ sales' = [sales EXCEPT ![q.sale].status = "PAID", ![q.sale].taken = q.gen]
     /\ payments' = Append(payments, [sale |-> q.sale, gen |-> q.gen, lines |-> q.lines,
                                      advances |-> {q.advance} \ {NoAdvance},
                                      amount |-> Due(q.lines)])
     /\ advances' = IF q.advance = NoAdvance THEN advances
                    ELSE [advances EXCEPT ![q.advance].status = "CONSUMED",
                                          ![q.advance].spent = @ + 1]
     /\ Finish(r)
     /\ UNCHANGED drafts

\* REFUND_ITEMS and EXCHANGE_ITEMS compute the balance of the lines first.
ReturnRead(r, op, s) ==
  /\ req[r] = Idle
  /\ sales[s].status = "PAID"
  /\ \E c \in Returnable(s) :
       req' = [req EXCEPT ![r] = [op |-> op, sale |-> s, lines |-> sales[s].lines,
                                  back |-> c, seen |-> sales[s].returned]]
  /\ UNCHANGED <<sales, stock, payments, advances, drafts>>

RefundRead(r, s) == ReturnRead(r, "refund", s)
ExchangeRead(r, s) == ReturnRead(r, "exchange", s)

RefundCommit(r) ==
  LET q == req[r]
  IN /\ q.op = "refund"
     /\ CanReturn(q.lines, q.back)
     /\ stock' = [i \in Items |-> IF i \in Returned(q.lines, q.back)
                                  THEN [stock[i] EXCEPT !.sold = FALSE] ELSE stock[i]]
     /\ sales' = [sales EXCEPT ![q.sale] = Record(q.sale, q.back, q.seen)]
     /\ Finish(r)
     /\ UNCHANGED <<payments, advances, drafts>>

\* The rows after the lines l are taken and then the units of q come back.
ExchangedStock(q, l) ==
  [i \in Items |-> IF i \in Returned(q.lines, q.back)
                   THEN [stock[i] EXCEPT !.sold = FALSE] ELSE Take(l, TRUE)[i]]

\* The new sale is PAID at once.
ExchangeSale(n, l) == [sales[n] EXCEPT !.status = "PAID", !.lines = l, !.taken = 0]

\* What an exchange pays with advances, units each.  The payments are only
\* validated against the difference: the advances are neither looked up nor
\* consumed.
Used(given) == {a \in Advances : given[a] > 0}

ExchangeCommit(r, n, l, given) ==
  LET q == req[r]
      new == Batch(0, l)
      delta == Due(new) - Units(q.back)
  IN /\ q.op = "exchange"
     /\ sales[n].status = "none"
     /\ CanTake(new)
     /\ CanReturn(q.lines, q.back)
     /\ \A a \in Used(given) : advances[a].status # "none"
     /\ Used(given) # {} => SumFunction(given) <= delta
     /\ stock' = ExchangedStock(q, new)
     /\ sales' = [sales EXCEPT ![q.sale] = Record(q.sale, q.back, q.seen),
                               ![n] = ExchangeSale(n, new)]
     /\ payments' = IF delta > 0
                    THEN Append(payments, [sale |-> n, gen |-> 0, lines |-> new,
                                           advances |-> Used(given), amount |-> delta])
                    ELSE payments
     /\ advances' = [a \in Advances |-> [advances[a] EXCEPT !.spent = @ + given[a],
                                                          !.traded = @ + given[a]]]
     /\ Finish(r)
     /\ UNCHANGED drafts

(***************************************************************************)
(* Returns: a draft keeps the quantities it was quoted.  COMPLETE does not *)
(* quote again and moves neither stock nor cash.                           *)
(***************************************************************************)
\* What _quote_from_sale accepts.
Quotes(s) == IF sales[s].status = "PAID" THEN Returnable(s) ELSE {}

CreateDraft(d, s) ==
  /\ drafts[d] = NoDraft
  /\ \E c \in Quotes(s) :
       drafts' = [drafts EXCEPT ![d] = [status |-> "DRAFT", sale |-> s,
                                        back |-> c, seen |-> sales[s].returned]]
  /\ UNCHANGED <<sales, stock, payments, advances, req>>

DraftRead(r, op, d) ==
  /\ req[r] = Idle
  /\ op \in {"complete", "void"}
  /\ drafts[d].status = "DRAFT"
  /\ req' = [req EXCEPT ![r] = [op |-> op, draft |-> d]]
  /\ UNCHANGED <<sales, stock, payments, advances, drafts>>

VoidCommit(r) ==
  /\ req[r].op = "void"
  /\ drafts' = [drafts EXCEPT ![req[r].draft].status = "VOIDED"]
  /\ Finish(r)
  /\ UNCHANGED <<sales, stock, payments, advances>>

CompleteCommit(r) ==
  /\ req[r].op = "complete"
  /\ LET d == drafts[req[r].draft]
     IN sales' = [sales EXCEPT ![d.sale] = Record(d.sale, d.back, d.seen)]
  /\ drafts' = [drafts EXCEPT ![req[r].draft].status = "COMPLETED"]
  /\ Finish(r)
  /\ UNCHANGED <<stock, payments, advances>>

(***************************************************************************)
(* Advances.  Lapse is the passing of expires_at.                          *)
(***************************************************************************)
Issue(a) ==
  /\ advances[a].status = "none"
  /\ advances' = [advances EXCEPT ![a].status = "ACTIVE"]
  /\ UNCHANGED <<sales, stock, payments, drafts, req>>

Lapse(a) ==
  /\ advances[a].status # "none"
  /\ ~advances[a].lapsed
  /\ advances' = [advances EXCEPT ![a].lapsed = TRUE]
  /\ UNCHANGED <<sales, stock, payments, drafts, req>>

\* lookup_advance and get_advance read the row without a lock.
ExpireRead(r, a) ==
  /\ req[r] = Idle
  /\ advances[a].status = "ACTIVE"
  /\ advances[a].lapsed
  /\ req' = [req EXCEPT ![r] = [op |-> "expire", advance |-> a]]
  /\ UNCHANGED <<sales, stock, payments, advances, drafts>>

\* A lookup that writes back the row as it read it.
ExpireCommitRevives(r) ==
  /\ req[r].op = "expire"
  /\ advances' = [advances EXCEPT ![req[r].advance].status = "ACTIVE"]
  /\ Finish(r)
  /\ UNCHANGED <<sales, stock, payments, drafts>>

ExpireCommit(r) ==
  /\ req[r].op = "expire"
  /\ advances' = [advances EXCEPT ![req[r].advance].status = "EXPIRED"]
  /\ Finish(r)
  /\ UNCHANGED <<sales, stock, payments, drafts>>

\* The sweep of list_advances, alerts_advances and sweep_endpoint.
Sweep ==
  /\ \E a \in Advances : advances[a].status = "ACTIVE" /\ advances[a].lapsed
  /\ advances' = [a \in Advances |-> IF advances[a].status = "ACTIVE" /\ advances[a].lapsed
                                     THEN [advances[a] EXCEPT !.status = "EXPIRED"]
                                     ELSE advances[a]]
  /\ UNCHANGED <<sales, stock, payments, drafts, req>>

\* mutate_advance: a lapsed row is refused, and its expiry rolled back.
MutateAdvance(a, status) ==
  /\ advances[a].status = "ACTIVE"
  /\ ~advances[a].lapsed
  /\ advances' = [advances EXCEPT ![a].status = status,
                                  ![a].spent = @ + (IF status = "EXPIRED" THEN 0 ELSE 1)]
  /\ UNCHANGED <<sales, stock, payments, drafts, req>>

\* The request is refused, loses a deadlock or dies: nothing is committed.
Drop(r) ==
  /\ req[r].op \in Ops
  /\ Finish(r)
  /\ UNCHANGED <<sales, stock, payments, advances, drafts>>

Next ==
  \/ \E s \in Sales, l \in Payloads : CreateSale(s, l)
  \/ \E d \in Drafts, s \in Sales : CreateDraft(d, s)
  \/ \E a \in Advances : \/ Issue(a) \/ Lapse(a)
                         \/ \E x \in {"REFUNDED", "CONSUMED", "EXPIRED"} : MutateAdvance(a, x)
  \/ Sweep
  \/ \E r \in Requests :
       \/ \E s \in Sales, l \in Payloads :
            \/ UpdateRead(r, s, l)
            \/ \E given \in [Advances -> 0..MaxQty] : ExchangeCommit(r, s, l, given)
       \/ \E u \in 0..MaxUpdates : UpdateCommit(r, u)
       \/ \E s \in Sales : CancelRead(r, s) \/ RefundRead(r, s) \/ ExchangeRead(r, s)
       \/ \E s \in Sales, a \in Advances \cup {NoAdvance} : CheckoutRead(r, s, a)
       \/ \E op \in {"complete", "void"}, d \in Drafts : DraftRead(r, op, d)
       \/ \E a \in Advances : ExpireRead(r, a)
       \/ CancelCommit(r) \/ CheckoutCommit(r) \/ RefundCommit(r)
       \/ VoidCommit(r) \/ CompleteCommit(r) \/ ExpireCommit(r) \/ Drop(r)

Spec == Init /\ [][Next]_vars

(***************************************************************************)
(* Properties                                                              *)
(***************************************************************************)
\* The rows have their types (models.py, PosSale to PosReturnEvent).
TypeOK ==
  /\ sales \in [Sales -> SaleRows]
  /\ stock \in [Items -> StockRows]
  /\ payments \in Seq(Payments)
  /\ advances \in [Advances -> AdvanceRows]
  /\ drafts \in [Drafts -> DraftRows \cup {NoDraft}]
  /\ req \in [Requests -> Kinds]

\* The value of an advance is given once, as part of a sale or back to the
\* customer, although lookup_advance may write EXPIRED over CONSUMED; only an
\* exchange, which never resolves the advance it is paid with, gives it again.
AdvanceSpentOnce == \A a \in Advances : advances[a].spent <= 1 + advances[a].traded

\* Two checkouts of the same lines, both read while the sale was DRAFT, can both
\* commit only if no line has an EPC and no advance paid both: the EPC row or
\* the advance refuses the second.
GuardedCheckoutOnce ==
  \A i, j \in DOMAIN payments :
    i < j /\ payments[i].sale = payments[j].sale /\ payments[i].gen = payments[j].gen
    => /\ \A n \in DOMAIN payments[i].lines : payments[i].lines[n].epc = NoTag
       /\ payments[i].advances \cap payments[j].advances = {}

\* Refunds, exchanges and completed returns together never return more of a
\* line than was sold, unless two of them were computed from the same balance
\* or one named the line twice (raced).
ReturnsWithinSale ==
  \A s \in Sales : ~sales[s].raced =>
    \A n \in DOMAIN sales[s].lines : sales[s].returned[n] <= sales[s].lines[n].qty

\* No two lines name the same EPC or both the SKU.
Distinct(l) == \A n, m \in DOMAIN l : l[n].epc = l[m].epc => n = m

\* A sale whose lines are those its checkout took, each from rows of its own,
\* and whose returns did not race.
Regular(s) ==
  /\ ~sales[s].raced
  /\ sales[s].taken \in {-1, sales[s].gen}
  /\ sales[s].taken # -1 => Distinct(sales[s].lines)
Left(s) == [n \in DOMAIN sales[s].lines |-> sales[s].lines[n].qty - sales[s].returned[n]]
Kept(s) == IF sales[s].status = "PAID" THEN SumFunction(Left(s)) ELSE 0

\* Stock never offers a unit that the records say a customer keeps: while all
\* sales are regular there are at least as many SOLD rows as units sold and not
\* returned, through checkouts, cancels, refunds and exchanges in any order.
StockCoversSales ==
  (\A s \in Sales : Regular(s)) =>
    Cardinality(Sold) >= SumFunction([s \in Sales |-> Kept(s)])

\* The EPC line of a PAID sale can be refunded until it has been: its SOLD row
\* is found by its EPC (tests/test_pos_returns_day7_epc_rules.py:57).
EpcLineRefundable ==
  \A s \in Sales : sales[s].status = "PAID" =>
    \A n \in DOMAIN sales[s].lines :
      LET x == sales[s].lines[n]
      IN  x.epc # NoTag /\ sales[s].returned[n] = 0 => stock[x.epc].epc /\ stock[x.epc].sold
=============================================================================
