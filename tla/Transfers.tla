------------------------------ MODULE Transfers ------------------------------
(***************************************************************************)
(* Stock transfers between the stores of one tenant: create, update and    *)
(* the five actions of POST /aris3/transfers/{id}/actions, over the rows   *)
(* of stock_items, and the checkout of a sale, which competes for the same *)
(* rows.  Every handler locks the transfer row and each stock row it       *)
(* changes (FOR UPDATE), so one action is one committed request; a request *)
(* that the code refuses is an action that is not enabled.                 *)
(*                                                                         *)
(* The session does not flush between the statements of a request: all the *)
(* SELECTs of a handler see the rows as they were when it began.           *)
(*                                                                         *)
(* Data.  A stock row is a number, its position by created_at.  A tagged   *)
(* row carries an EPC and is named by it.  A variant is the description    *)
(* with var1 and var2.  A place is a location_code with its pool.  The     *)
(* table transfer_movements is the running total of each kind of movement, *)
(* kept in the line it refers to.                                          *)
(***************************************************************************)
EXTENDS Integers, Sequences, FiniteSets, Functions, FiniteSetsExt

CONSTANTS
  Stores, NoStore,  \* stores of the tenant; NoStore is store_id NULL
  Tags,             \* stock rows that carry an EPC
  Bulk,             \* stock rows without one
  Skus, SkuOf,      \* the SKU of every bulk row
  Variants, VariantOf, \* the variant of every row
  Home,             \* the store each row is in at first
  Places,           \* location_code and pool pairs other than IN_TRANSIT
  Transfers,        \* transfer ids
  MaxLines, MaxQty, \* bounds on the lines of a transfer and on a quantity
  Client            \* what the clients may send, see below

(* "repeat_line": one payload may name a line twice;                       *)
(* "same_sku":    two lines of a transfer may have the same SKU;           *)
(* "in_transit":  a SKU line may name IN_TRANSIT as its place, as the      *)
(*                listing of a row that travels does.                      *)
ASSUME ClientAssumption == Client \subseteq {"repeat_line", "same_sku", "in_transit"}
ASSUME RowsAssumption ==
  /\ Tags \subseteq Nat /\ Bulk \subseteq Nat
  /\ Tags \cap Bulk = {} /\ Tags \cap Skus = {}
  /\ SkuOf \in [Bulk -> Skus]
  /\ VariantOf \in [Tags \cup Bulk -> Variants]
  /\ Home \in [Tags \cup Bulk -> Stores \cup {NoStore}]
ASSUME NamesAssumption ==
  /\ NoStore \notin Stores \cup Transfers
  /\ "IN_TRANSIT" \notin Places
ASSUME BoundsAssumption == MaxLines \in Nat /\ MaxQty \in Nat \ {0}
\* The tables stock_items and transfers.
ASSUME TablesAssumption == IsFiniteSet(Bulk) /\ IsFiniteSet(Transfers)

VARIABLES
  stock,     \* row -> its store, place and state
  transfers  \* transfer id -> header and lines

vars == <<stock, transfers>>

Items == Tags \cup Bulk
InTransit == "IN_TRANSIT"

Rows == [store : Stores \cup {NoStore}, place : Places \cup {InTransit},
         state : {"in_stock", "sold", "deleted"}]

Lines == [what : Tags \cup Skus, variant : Variants, qty : Nat,
          from : Places \cup {InTransit},
          dispatched : Nat, received : Nat, reported : Nat, found : Nat, lost : Nat]

Statuses == {"none", "DRAFT", "DISPATCHED", "PARTIAL_RECEIVED", "RECEIVED", "CANCELED"}
Travelling == {"DISPATCHED", "PARTIAL_RECEIVED"}
Active == {"DRAFT"} \cup Travelling

Headers == [status : Statuses, origin : Stores \cup {NoStore},
            dest : Stores \cup {NoStore}, lines : Seq(Lines)]

NoTransfer == [status |-> "none", origin |-> NoStore, dest |-> NoStore, lines |-> <<>>]

TypeOK ==
  /\ stock \in [Items -> Rows]
  /\ transfers \in [Transfers -> Headers]

Init ==
  /\ \E places \in [Items -> Places] :
       stock = [i \in Items |-> [store |-> Home[i], place |-> places[i], state |-> "in_stock"]]
  /\ transfers = [t \in Transfers |-> NoTransfer]

(***************************************************************************)
(* Rows and lines                                                          *)
(***************************************************************************)
RowsOf(what) == IF what \in Tags THEN {what} ELSE {b \in Bulk : SkuOf[b] = what}

\* The rows of one SELECT ... FOR UPDATE on stock_items.
Select(what, stores, places) ==
  {i \in RowsOf(what) : /\ stock[i].state = "in_stock"
                        /\ stock[i].store \in stores
                        /\ stock[i].place \in places}

\* ORDER BY created_at LIMIT qty.
Oldest(rows, qty) == {i \in rows : Cardinality({j \in rows : j <= i}) <= qty}

\* Bug: an EPC row is accepted whatever its store.
OwnStoresAny(what, origin) == IF what \in Tags THEN Stores \cup {NoStore} ELSE {origin}

\* An EPC row that belongs to no store yet is accepted as the origin's.
OwnStores(what, origin) == IF what \in Tags THEN {origin, NoStore} ELSE {origin}

Outstanding(l) == l.dispatched - l.received - l.lost

AtLeastZero(n) == IF n < 0 THEN 0 ELSE n

Settled(ls) == \A n \in DOMAIN ls : Outstanding(ls[n]) <= 0

Names(t, what) == \E n \in DOMAIN transfers[t].lines : transfers[t].lines[n].what = what

(***************************************************************************)
(* Drafts                                                                  *)
(***************************************************************************)

\* _get_transfer_conflict_for_epc: a draft of another store does not count.
Blocked(tag, t, origin) ==
  \E u \in Transfers \ {t} :
    /\ Names(u, tag)
    /\ transfers[u].status \in Active
    /\ transfers[u].status = "DRAFT" => transfers[u].origin = origin

\* What a client may ask for: TransferLineCreate, one unit of an EPC wherever
\* it is, or some units of a SKU at a place.
Requested ==
  [what : Tags, qty : {1}, at : {Places \cup {InTransit}}] \cup
  [what : Skus, qty : 1..MaxQty,
   at : {{p} : p \in Places \cup (IF "in_transit" \in Client THEN {InTransit} ELSE {})}]

Distinct(ls) ==
  \A m, n \in DOMAIN ls :
    (m # n /\ ls[m].what = ls[n].what) => (ls[m].what \in Skus /\ "same_sku" \in Client)

Requests == {ls \in UNION {[1..n -> Requested] : n \in 1..MaxLines} : Distinct(ls)}

\* Bug: an EPC that another active transfer holds is accepted.
AvailableUnblocked(q, t, origin) ==
  Cardinality(Select(q.what, OwnStores(q.what, origin), q.at)) >= q.qty

\* _validate_transferable_epc_stock, _validate_transferable_sku_stock and the
\* conflict check.
Available(q, t, origin) ==
  /\ Cardinality(Select(q.what, OwnStores(q.what, origin), q.at)) >= q.qty
  /\ q.what \in Tags => ~Blocked(q.what, t, origin)

\* _normalize_transfer_line: the snapshot is that of the first row selected.
NewLine(q, origin) ==
  LET first == CHOOSE i \in Oldest(Select(q.what, OwnStores(q.what, origin), q.at), 1) : TRUE
  IN  [what |-> q.what, variant |-> VariantOf[first], qty |-> q.qty, from |-> stock[first].place,
       dispatched |-> 0, received |-> 0, reported |-> 0, found |-> 0, lost |-> 0]

\* Validating an EPC row of no store gives it to the origin.
Adopted(ls, origin) ==
  [i \in Items |->
     IF stock[i].store = NoStore /\ \E n \in DOMAIN ls : ls[n].what = i
     THEN [stock[i] EXCEPT !.store = origin] ELSE stock[i]]

Draft(t, origin, dest, asked) ==
  /\ \A n \in DOMAIN asked : Available(asked[n], t, origin)
  /\ stock' = Adopted(asked, origin)
  /\ transfers' = [transfers EXCEPT ![t] =
       [status |-> "DRAFT", origin |-> origin, dest |-> dest,
        lines |-> [n \in DOMAIN asked |-> NewLine(asked[n], origin)]]]

Create(t, origin, dest, asked) ==
  /\ transfers[t].status = "none"
  /\ origin # dest
  /\ Draft(t, origin, dest, asked)

\* update_transfer with lines: the old ones are deleted.
UpdateLines(t, origin, dest, asked) ==
  /\ transfers[t].status = "DRAFT"
  /\ origin # dest
  /\ Draft(t, origin, dest, asked)

\* _revalidate_existing_draft_lines, under the given origin: the rows are still
\* where the draft's snapshot says.
StillValid(t, origin) ==
  \A l \in Range(transfers[t].lines) :
    Available([what |-> l.what, qty |-> l.qty, at |-> {l.from}], t, origin)

\* update_transfer without lines.
UpdateRoute(t, origin, dest) ==
  /\ transfers[t].status = "DRAFT"
  /\ origin # dest
  /\ StillValid(t, origin)
  /\ stock' = Adopted(transfers[t].lines, origin)
  /\ transfers' = [transfers EXCEPT ![t].origin = origin, ![t].dest = dest]

(***************************************************************************)
(* dispatch                                                                *)
(***************************************************************************)
Dispatch(t) ==
  LET h == transfers[t]
      rows(l) == Oldest(Select(l.what, OwnStores(l.what, h.origin), {l.from}), l.qty)
      taken == UNION {rows(l) : l \in Range(h.lines)}
  IN  /\ h.status = "DRAFT"
      /\ h.lines # <<>>
      /\ StillValid(t, h.origin)
      /\ stock' = [i \in Items |->
           IF i \in taken
           THEN [stock[i] EXCEPT !.store = h.origin, !.place = InTransit] ELSE stock[i]]
      /\ transfers' = [transfers EXCEPT ![t].status = "DISPATCHED",
           ![t].lines = [n \in DOMAIN h.lines |->
             [h.lines[n] EXCEPT !.dispatched = h.lines[n].qty]]]

(***************************************************************************)
(* What a request says of the lines of a transfer: for each line the       *)
(* quantities of its (at most two) entries, 0 for no entry.                *)
(***************************************************************************)
Batches(t) ==
  {b \in [DOMAIN transfers[t].lines ->
            (0..MaxQty) \X (IF "repeat_line" \in Client THEN 0..MaxQty ELSE {0})] :
     /\ \E n \in DOMAIN b : b[n][1] # 0
     /\ \A n \in DOMAIN b :
          transfers[t].lines[n].what \in Tags => b[n][1] <= 1 /\ b[n][2] <= 1}

Entries(b, n) == {b[n][1], b[n][2]} \ {0}

Booked(b, n) == b[n][1] + b[n][2]

\* Every entry is compared with the totals read before the first one.
Within(b, limits) == \A n \in DOMAIN b : \A q \in Entries(b, n) : q <= limits[n]

\* The rows in transit that a line may take: of its variant, which the
\* selection for a draft or a dispatch did not ask for.
OnTheWay(l, stores) == {i \in Select(l.what, stores, {InTransit}) : VariantOf[i] = l.variant}

\* Bug: one row is enough for any quantity.
CarriedAny(t, b, n, stores) ==
  \A q \in Entries(b, n) : OnTheWay(transfers[t].lines[n], stores) # {}

\* Each entry finds its rows, and the rows they take.
Carried(t, b, n, stores) ==
  \A q \in Entries(b, n) : Cardinality(OnTheWay(transfers[t].lines[n], stores)) >= q

Chosen(t, b, n, stores) ==
  UNION {Oldest(OnTheWay(transfers[t].lines[n], stores), q) : q \in Entries(b, n)}

\* Bugs: a transfer is never closed; a partial reception leaves it DISPATCHED.
StatusAfterNeverCloses(ls, status) == status
StatusAfterDispatched(ls, status) == IF Settled(ls) THEN "RECEIVED" ELSE "DISPATCHED"

\* The transfer is RECEIVED once nothing is outstanding.
StatusAfter(ls, status) == IF Settled(ls) THEN "RECEIVED" ELSE status

(***************************************************************************)
(* receive                                                                 *)
(***************************************************************************)
Receive(t, b, place) ==
  LET h == transfers[t]
      stores(n) == OwnStores(h.lines[n].what, h.origin)
      arrived == UNION {Chosen(t, b, n, stores(n)) : n \in DOMAIN b}
      lines == [n \in DOMAIN b |-> [h.lines[n] EXCEPT !.received = @ + Booked(b, n)]]
  IN  /\ h.status \in Travelling
      /\ Within(b, [n \in DOMAIN b |-> Outstanding(h.lines[n])])
      /\ \A n \in DOMAIN b : Carried(t, b, n, stores(n))
      /\ stock' = [i \in Items |->
           IF i \in arrived
           THEN [stock[i] EXCEPT !.store = h.dest, !.place = place] ELSE stock[i]]
      /\ transfers' = [transfers EXCEPT
           ![t].lines = lines, ![t].status = StatusAfter(lines, "PARTIAL_RECEIVED")]

(***************************************************************************)
(* report_shortages and resolve_shortages                                  *)
(***************************************************************************)
Unreported(l) == AtLeastZero(Outstanding(l)) - l.reported

Unresolved(l) == AtLeastZero(l.reported - l.found - l.lost)

ReportShortages(t, b) ==
  LET h == transfers[t]
  IN  /\ h.status \in Travelling
      /\ ~Settled(h.lines)
      /\ Within(b, [n \in DOMAIN b |-> Unreported(h.lines[n])])
      /\ transfers' = [transfers EXCEPT ![t].lines =
           [n \in DOMAIN b |-> [h.lines[n] EXCEPT !.reported = @ + Booked(b, n)]]]
      /\ UNCHANGED stock

\* FOUND_AND_RESEND: the units are still on their way.
ResolveFound(t, b) ==
  LET h == transfers[t]
      lines == [n \in DOMAIN b |-> [h.lines[n] EXCEPT !.found = @ + Booked(b, n)]]
  IN  /\ h.status \in Travelling
      /\ Within(b, [n \in DOMAIN b |-> Unresolved(h.lines[n])])
      /\ transfers' = [transfers EXCEPT
           ![t].lines = lines, ![t].status = StatusAfter(lines, h.status)]
      /\ UNCHANGED stock

\* An EPC row is looked up whatever its store, a SKU row in the origin or in none.
LossStores(what, origin) ==
  IF what \in Tags THEN Stores \cup {NoStore} ELSE {origin, NoStore}

\* Bug: the rows of lost units stay where they are.
DeletedNot(rows) == stock

Deleted(rows) ==
  [i \in Items |-> IF i \in rows THEN [stock[i] EXCEPT !.state = "deleted"] ELSE stock[i]]

\* LOST_IN_ROUTE: the rows are deleted.
ResolveLost(t, b) ==
  LET h == transfers[t]
      stores(n) == LossStores(h.lines[n].what, h.origin)
      lines == [n \in DOMAIN b |-> [h.lines[n] EXCEPT !.lost = @ + Booked(b, n)]]
  IN  /\ h.status \in Travelling
      /\ Within(b, [n \in DOMAIN b |-> Unresolved(h.lines[n])])
      /\ \A n \in DOMAIN b : Carried(t, b, n, stores(n))
      /\ stock' = Deleted(UNION {Chosen(t, b, n, stores(n)) : n \in DOMAIN b})
      /\ transfers' = [transfers EXCEPT
           ![t].lines = lines, ![t].status = StatusAfter(lines, h.status)]

(***************************************************************************)
(* cancel                                                                  *)
(***************************************************************************)
CancelDraft(t) ==
  /\ transfers[t].status = "DRAFT"
  /\ transfers' = [transfers EXCEPT ![t].status = "CANCELED"]
  /\ UNCHANGED stock

\* The rows go back to the place of the draft's snapshot.  The lines come in
\* no order: of two that select the same row, either may be the last.
CancelDispatched(t) ==
  LET h == transfers[t]
      rows(l) == Oldest(OnTheWay(l, {h.origin}), l.qty)
      restored == UNION {rows(l) : l \in Range(h.lines)}
  IN  /\ h.status = "DISPATCHED"
      /\ \A l \in Range(h.lines) : Cardinality(rows(l)) >= l.qty
      /\ \E last \in [restored -> DOMAIN h.lines] :
           /\ \A i \in restored : i \in rows(h.lines[last[i]])
           /\ stock' = [i \in Items |->
                IF i \in restored
                THEN [stock[i] EXCEPT !.place = h.lines[last[i]].from] ELSE stock[i]]
      /\ transfers' = [transfers EXCEPT ![t].status = "CANCELED"]

(***************************************************************************)
(* The checkout of a sale of one unit in the store that holds the row: the *)
(* place is that of the row, IN_TRANSIT included.  A sold row loses its    *)
(* EPC.  (A checkout of several units does this once per unit.)            *)
(***************************************************************************)
Sell(what, store, place) ==
  LET rows == Oldest(Select(what, {store}, {place}), 1)
  IN  /\ rows # {}
      /\ stock' = [i \in Items |->
           IF i \in rows THEN [stock[i] EXCEPT !.state = "sold"] ELSE stock[i]]
      /\ UNCHANGED transfers

Next ==
  \/ \E t \in Transfers, o, d \in Stores :
       \/ \E asked \in Requests : Create(t, o, d, asked) \/ UpdateLines(t, o, d, asked)
       \/ UpdateRoute(t, o, d)
  \/ \E t \in Transfers : Dispatch(t) \/ CancelDraft(t) \/ CancelDispatched(t)
  \/ \E t \in Transfers : \E b \in Batches(t) :
       \/ \E p \in Places : Receive(t, b, p)
       \/ ReportShortages(t, b) \/ ResolveFound(t, b) \/ ResolveLost(t, b)
  \/ \E w \in Tags \cup Skus, s \in Stores, p \in Places \cup {InTransit} : Sell(w, s, p)

Spec == Init /\ [][Next]_vars

(***************************************************************************)
(* Properties                                                              *)
(***************************************************************************)

\* An EPC is a line of at most one dispatched transfer that is not closed:
\* the conflict check of drafts is enough although a draft of another store
\* does not block, and although the item may have moved since the draft.
TagInOneOpenTransfer ==
  \A t, u \in Transfers : \A tag \in Tags :
    (/\ transfers[t].status \in Travelling /\ Names(t, tag)
     /\ transfers[u].status \in Travelling /\ Names(u, tag)) => t = u

Carrying(t, tag) ==
  /\ transfers[t].status \in Travelling
  /\ \E l \in Range(transfers[t].lines) : l.what = tag /\ Outstanding(l) > 0

\* The row of an EPC says IN_TRANSIT exactly while an open transfer still has
\* it outstanding, and then it belongs to the origin of that transfer: no
\* reception, loss or cancellation leaves an EPC behind or takes it twice,
\* even when it is sold on the way.
TagInTransitIffOutstanding ==
  \A tag \in Tags :
    (stock[tag].state # "deleted" /\ stock[tag].place = InTransit)
      <=> \E t \in Transfers : Carrying(t, tag) /\ stock[tag].store = transfers[t].origin

\* A transfer is open exactly while something is outstanding: the last
\* reception or the last loss closes it, and nothing closes it earlier.
OpenIffOutstanding ==
  \A t \in Transfers :
    /\ transfers[t].status \in Travelling => ~Settled(transfers[t].lines)
    /\ transfers[t].status = "RECEIVED" => Settled(transfers[t].lines)

\* Only a transfer of which nothing was received is cancelled: the code tests
\* the status and received_at, which a partial reception does not set.
NoCancelAfterReception ==
  \A t \in Transfers :
    transfers[t].status \in {"DISPATCHED", "CANCELED"} =>
      \A l \in Range(transfers[t].lines) : l.received = 0

\* What is received or lost was dispatched, line by line.
ReceivedWithinDispatched ==
  \A t \in Transfers : \A l \in Range(transfers[t].lines) :
    l.received + l.lost <= l.dispatched

RowsInTransit(sku, store) ==
  {b \in Bulk : /\ SkuOf[b] = sku /\ stock[b].state # "deleted"
                /\ stock[b].store = store /\ stock[b].place = InTransit}

OutstandingOf(sku, variants, store) ==
  MapThenSumSet(LAMBDA t : MapThenSumSet(
      LAMBDA n : AtLeastZero(Outstanding(transfers[t].lines[n])),
      {n \in DOMAIN transfers[t].lines :
         transfers[t].lines[n].what = sku /\ transfers[t].lines[n].variant \in variants}),
    {t \in Transfers : transfers[t].status \in Travelling /\ transfers[t].origin = store})

\* The rows of a SKU in transit from a store are as many as the open transfers
\* of that store have outstanding: no reception, loss or cancellation takes a
\* row too many or leaves one behind.  The code does not tell the rows of one
\* transfer from those of another, so this is for transfers that do not travel
\* from one store with the same SKU at the same time.
TransitMatchesLedger ==
  \A sku \in Skus, s \in Stores :
    Cardinality(RowsInTransit(sku, s)) = OutstandingOf(sku, Variants, s)

\* For items with an EPC the handlers implement the promise of Custody: the
\* item is aboard the transfer that has it outstanding.
Carrier(tag) ==
  IF stock[tag].state # "deleted" /\ stock[tag].place = InTransit
  THEN CHOOSE t \in Transfers : Carrying(t, tag) ELSE NoStore

StoreOf == [tag \in Tags |-> stock[tag].store]
CarrierOf == [tag \in Tags |-> Carrier(tag)]
PresentTags == {tag \in Tags : stock[tag].state = "in_stock"}
Departed == {t \in Transfers : \E l \in Range(transfers[t].lines) : l.dispatched > 0}

Promise == INSTANCE Custody WITH
  Carriers <- Transfers, Nobody <- NoStore,
  store <- StoreOf, carrier <- CarrierOf, present <- PresentTags, departed <- Departed

ImplementsCustody == Promise!Spec
=============================================================================
