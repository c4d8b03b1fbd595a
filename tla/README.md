# A verification project for ARIS-CLOUD-3

ARIS-CLOUD-3 (`src/app/aris3`) is a multi-tenant retail back end: FastAPI
handlers over one PostgreSQL database, through SQLAlchemy.  It keeps the stock
of the stores of a tenant (single items with an EPC tag, and interchangeable
units of a SKU), moves stock between stores, sells it, takes payments in cash
sessions, issues advances and takes goods back.

What makes it hard to test is common to every part:

* several workers run handlers at the same time, against a database at READ
  COMMITTED.  A row that a handler will change is protected only if its SELECT
  says `with_for_update()`; what is read without it may be stale when used;
* the session does not flush by itself (`db/session.py:32`), so a handler does
  not see its own changes in its later SELECTs, until it commits;
* a handler commits several times: the idempotency row, the business change,
  the outcome, the audit event.  A worker may die between any two of them;
* clients retry, with the same idempotency key or with another one.

## Inventory

| Component | State | Operations | Interacts with | Hard | Correct when |
| --- | --- | --- | --- | --- | --- |
| Idempotency (`services/idempotency.py`, `repos/idempotency.py`, `core/errors.py`) | `idempotency_records` | `start`, `record_success`, `record_failure` | every mutating endpoint that takes a key, the exception handlers, the content wipe | two requests with one key; a crash or a database error between the commits; a wipe meanwhile | a key takes effect at most once, answers are replayed to their own payload only, every request is answered |
| Transfers (`routers/transfers.py`, `services/stock_rules.py`) | `transfers`, `transfer_lines`, `transfer_movements`, and `stock_items` | create, update, dispatch, receive, report and resolve shortages, cancel | stock, sales (same rows) | drafts that grow stale; rows in transit shared by transfers; totals read once per request | an item is in one place, what arrives or is lost was dispatched, a closed transfer leaves nothing in transit |
| POS sales (`routers/pos_sales.py`) | `pos_sales`, lines, payments, `pos_return_events` | create, update, CHECKOUT, CANCEL, REFUND_ITEMS, EXCHANGE_ITEMS | stock, cash sessions, advances | the sale is read without a lock; refunds are computed from unlocked events | a sale is paid once, a unit is sold once, no more is refunded than was sold |
| POS advances (`routers/pos_advances.py`, `services/pos_advances.py`) | `pos_advances` | issue, lookup with lazy expiry, sweep, consume, refund, expire | cash, sales | no idempotency key; expiry against checkout | an advance is used once |
| POS returns (`services/pos_returns.py`) | `pos_return_events` | draft, COMPLETE, VOID | sales | read without locks; quantities quoted in the draft | a draft stays within what was sold |
| POS cash (`routers/pos_cash.py`, `routers/pos_drawer.py`) | `pos_cash_sessions`, `pos_cash_movements`, `pos_cash_cuts`, `pos_cash_day_closes` | OPEN, CASH_IN, CASH_OUT, CLOSE, cuts, day close, drawer | sales, advances | two OPENs; a checkout against a day close; `expected_cash` read without a lock on the fallback path | `expected_cash` is the sum of the movements, a closed day stays as it was summed |
| Stock (`routers/stock.py`) | `stock_items`, `epc_assignments`, preload sessions and lines | import, migrate, write off, replace EPC, assign, release, mark and resolve issues, save a preload line | transfers, sales | existence checks without a lock; two tables that name one tag | an EPC is on one item, an assignment names the item that carries the tag, what is sold is not in stock |
| Intake (`services/stock_ai_preload.py`, `services/catalog_products.py`) | `stock_ai_extractions`, catalogue products and their cost history | analyze, its background job, confirm, upsert | stock preload | a job that ends after the confirmation or never; upserts that read one product before either writes it | a confirmation stands, the product has the cost of its history, a changed cost is flagged for review |
| Access (`services/access_control*.py`, users in `routers/admin.py`, `routers/auth.py`) | role templates, tenant, store and user policies, users, tokens | evaluate, replace, PATCH; login, create, status, role, delete | every endpoint | rewrites delete and insert in separate statements; tokens older than a change of role | a deny wins, a grant stays under the ADMIN ceiling, overrides go with their user |
| Tenancy (`services/tenant_purge.py`, `services/content_wipe.py`, `routers/admin.py`) | `purge_locks`, tenants, stores and everything below | safe delete, purge, wipe | all | a crash while the lock row is held; requests that write meanwhile | one deletion at a time, a later one possible, no orphans, an audit trail that tells the truth |
| Reports, exports, images, audit, metrics, scripts | rows of their own | read-only queries, write-once rows | | little to interleave | |

## Modules

| Module | Models |
| --- | --- |
| `Idempotency` | the protocol as concurrent requests, one action per database transaction |
| `AtMostOnce` | what it promises: a key is claimed once, and only its claimant takes effect |
| `Transfers` | the transfer handlers over the rows of stock, and the checkout as a competitor |
| `Custody` | what transfers promise for an item with an EPC |
| `PosCash` | sessions, movements, cuts and day closes, with the bookings of sales and advances |
| `PosSales` | sales with the lines of their updates, stock, advances and returns together, each request as its unlocked read and its commit |
| `Stock` | the rows of stock, preload lines and EPC assignments under every request that gives or takes a tag |
| `Intake` | extractions with their jobs, and the catalogue product with its cost history |
| `Access` | policies of all levels, users and tokens, rewrites in three steps |
| `Tenancy` | deletions of a tenant and its stores statement by statement, against writers |
| `MC...` | the small instance of the module named |
| `IdempotencyProofs`, `TransfersProofs`, `PosSalesProofs`, `PosCashProofs`, `StockProofs`, `IntakeProofs`, `AccessProofs`, `TenancyProofs` | the inductive invariants and theorems of the module named |

The modules meet where the code's tables meet, and each keeps the others as
competitors in the form its properties need: a checkout is `Sell` in
`Transfers`, `CheckoutRead` and `CheckoutCommit` in `PosSales`, `SellTag` and
`SellSku` in `Stock`, and `BookOwn` or `ReadFallback` in `PosCash`.  The
idempotency key makes a request of the other modules run at most once;
they say what happens between requests with different keys.

The reads that hold no lock are steps of their own everywhere: `...Read` keeps
what the handler saw in `req[r]`, `...Commit` uses it.  A handler that locks
what it reads is one action.  A request that the code refuses is an action that
is not enabled, unless the refusal itself changes something.

### Idempotency

A request is a process.  `pc[r]` says between which two commits its handler is:

| `pc` | Code |
| --- | --- |
| `start` | before `IdempotencyService.start` looks the key up |
| `insert` | the lookup found no row, the INSERT is not committed yet |
| `reread` | the INSERT was refused by `uq_idempotency`, the row is looked up again |
| `work` | the row is committed, the endpoint does its work |
| `committed` | the endpoint's `db.commit()` is done, `record_success` is not |
| `recorded` | `record_success` is committed, the response has not left |
| `failing` | an exception travels to the handlers of `core/errors.py` |
| `done`, `crashed` | answered; the worker died |

`records` is the table, one row per key; `Owns(r)` is the primary key test of
the UPDATE in `record_success` and `record_failure`.  `applied`, `gen` and
`epoch` are history: whose work was committed, and under which generation of
the row (a content wipe deletes the rows and starts a new one).  The work of
the endpoint is a single commit here, because it is in the code: what it does
to the business tables is the subject of the other modules.

`Faults` says what the environment does: `"crash"` (a worker dies, at any
commit boundary), `"db"` (a database error in a commit or a reload) and
`"wipe"`.

### Transfers

`stock` is the table of stock rows.  Each row has a store, a place
(`location_code` with its `pool`, `IN_TRANSIT` among them) and a state.  Rows
are numbers in the order of `created_at`, which is the order the handlers take
them in.  `Tags` are rows with an EPC, `Bulk` the others.  `transfers` holds
the header and the lines; the movements of a line are kept as their totals,
which is all `get_movement_totals` gives the handlers.

An action is a whole request: every handler locks the transfer row first and
every stock row it will change, and its check of other transfers comes after
the lock on the EPC's row.  Since nothing is flushed before the commit, all the
selections of an action read the unprimed `stock`.  A request that the code
refuses is an action that is not enabled.

| Action | Code |
| --- | --- |
| `Create`, `UpdateLines`, `UpdateRoute` | `create_transfer`, `update_transfer` with and without `lines` |
| `Dispatch`, `Receive`, `ReportShortages`, `CancelDraft`, `CancelDispatched` | the actions of `transfer_actions` |
| `ResolveFound`, `ResolveLost` | `resolve_shortages` with FOUND_AND_RESEND and LOST_IN_ROUTE |
| `Sell` | the stock part of CHECKOUT in `pos_sales.py` |

What a client sends is bounded by `Client`: whether a payload may name a line
twice, whether two lines may have one SKU, and whether a SKU line may name
`IN_TRANSIT` as its place (as the stock listing shows it for a row that
travels).

`Custody` is the promise for a tagged item: it changes store only aboard a
transfer, which takes it at its own store, at most once, and puts it down once.
The refinement maps the state of `Custody` to that of `Transfers` by four
operators: `StoreOf`, `CarrierOf` (the transfer that has the tag outstanding),
`PresentTags` and `Departed`.

### PosCash

`sessions`, `movements` and `cuts` are tables in the order of commits, `closes`
one row per day.  A session's row is locked by every booking of its own cashier
and by `CASH_IN`, `CASH_OUT` and `CLOSE`: these are one action (`BookOwn`,
`CashInOut`, `Close`).  In several steps are `OPEN` (`OpenCheck` finds no open
session, and a FOR UPDATE of no row locks nothing), the booking on another
cashier's session (`ReadFallback`, which reads without a lock), that of an
advance (`ReadAdvance`), and `close_day` (`CloseDayLock`: the open sessions, the
sums, then the INSERT).  `Step(r)` is the next step of whichever request `r`
is, `Crash(r)` its end.  `stale` marks a movement whose balance was read without
the lock.

### PosSales

One SKU at unit price 1.  The lines of a sale are a function of line ids, an id
being a batch and a place in it: every create or update inserts a batch of its
own.  An update deletes the lines its DELETE sees, some state between its read
and its commit, so two that overlap may leave both batches (`Replaced`).  A
payload may name the SKU in several lines; with autoflush off their SELECTs find
the same rows (`Picks`), and so do two items of a refund (`Frees`).  A return may
name a line in several items, each of which is compared with the balance alone: an
entry has the largest quantity (`most`) and the sum (`all`), `Returnable` looks at
the first, the event counts the second.  A payment by an advance is a checkout's,
which locks and consumes it, or an exchange's, which records it and leaves the
advance as it is.

History: `gen` counts the updates; `raced` marks a sale with a return computed
from a balance that had changed when it was written, or that named a line twice;
`taken` is the generation whose rows a checkout took; `spent` and `traded` count
how often an advance was given, and how often by an exchange.

| Actions | Code |
| --- | --- |
| `CreateSale`, `UpdateRead`/`UpdateCommit`, `CancelRead`/`CancelCommit` | `create_sale`, `update_sale`, CANCEL |
| `CheckoutRead`/`CheckoutCommit` | CHECKOUT: the status is read first, then stock rows and advance are locked |
| `RefundRead`/`RefundCommit`, `ExchangeRead`/`ExchangeCommit` | REFUND_ITEMS, EXCHANGE_ITEMS with the sale it makes |
| `CreateDraft`, `DraftRead`, `CompleteCommit`, `VoidCommit` | `services/pos_returns.py` |
| `Issue`, `MutateAdvance`, `Sweep`, `ExpireRead`/`ExpireCommit`, `Lapse` | `pos_advances.py`; `Lapse` is the passing of the expiry time |
| `Drop` | a request that ends between its steps |

### Stock

`row`, `line` and `assigned` are the stock row, the preload line and the active
assignments, by `item_uid`.  A request that checks for an EPC before it writes it
is a read and a `Commit`; the unique constraints refuse a second writer there.
`out` is what a customer has, `revived` and `orphaned` say by which of the
routes named in the module an item came back or an assignment lost its item:
the code has these routes, the properties say that there are no others.

### Intake

`job` has the row of an extraction and the state of its background task,
`first` what it was when an operator first confirmed it.  `product` is one
catalogue product with its `history`; `Begin` reads it, `CatalogCommit` and `ConfirmCommit`
write what the request computed.  A line has an original cost, a cost in the
local currency and a suggested price, each of which may be missing; a catalogue
route or a preload save stores what the line says, a confirmation prices it
first: `Cost`, `Priced` and `Suggested` are `apply_pricing` on integers, with
every mode, a missing exchange rate or number, and `StepOf` and `RoundUp` for any
number a client types as a step, zero (which counts as missing) and negative ones (which
round down) included.  Without a cost an upsert writes neither price nor history
(`Upserted`).  `Flush` writes the columns that differ from what the request read.

### Access

`policy` maps a level (template, tenant, store, user) and its role or user to
its entries.  A rewrite is `Ask...` (checks of the caller, the ceiling and, for a PATCH,
the current entries), `Sweep` (the DELETE, of the rows it sees) and `Store` (the
INSERTs and the commit).  `Effective` is `evaluate_permission` for
every permission.  A token keeps the role of the login; `ceiling` is every
permission the ADMIN template has ever held.

### Tenancy

A tenant or store is not yet there, here or gone; a row of another
table is a record of its kind, its store and its writer.  Which kinds a
deletion knows, and in which order, is translated as the list of statements
`Work` goes through; foreign keys refuse a statement as PostgreSQL does.
`overlap` is history: which writer ran while which deletion did.

## Runs

| Run | Bounds | Shows |
| --- | --- | --- |
| `idempotency` | 3 requests, 2 keys, 2 payloads, all faults, 1 wipe; requests symmetric | one effect per key and generation, faithful replays, the life of a row, and the refinement of `AtMostOnce` |
| `idempotency_live` | 3 requests, 1 key, a wipe | every request is answered, no row left in progress |
| `transfers` | 2 transfers, 2 stores, 1 tagged item without a store, 2 units, quantity 1, 2 lines; transfers symmetric | custody of tagged items, with all competitors |
| `transfers_ledger` | 1 transfer, 3 units of 2 variants at 2 places, quantities to 3, 2 lines | the movements agree with the rows |
| `transfers_shortage` | 2 transfers, quantities to 2 | violation: a unit received and lost |
| `cash` | 2 requests, 2 cashiers, 1 day, 2 sessions, 3 movements besides closing ones, 1 cut | the books balance where the row was locked, the ways a second session or a late booking comes about are the ones named, a close is final, every request ends |
| `sales` | 2 sales, 4 rows of which 1 tagged, 1 advance, 1 return, 3 requests, quantities to 2, 2 updates, payloads of one line of the SKU, two of it, and one with an EPC | an advance is given once but by exchanges, a guarded checkout happens once, returns that neither race nor repeat a line stay within the sale, stock covers the sales |
| `sales_epc_refund` | the same | violation: the refund of an EPC line never finds its row |
| `stock` | 2 items, 2 tags, 1 issue, 3 requests | one item per tag, backed assignments, sold items stay sold, saved lines keep their item |
| `intake` | 1 extraction, 3 requests, 3 lines (no cost, a cost, an original cost), 7 pricings (every mode, margins of 100 % and above, no exchange rate, steps given, zero and negative) | confirmations stand, the cost follows the history, a product whose cost changed stays flagged for review, an extraction settles |
| `access` | 1 user besides the superadmin, 2 permissions, 2 rewrites, 1 token | the ceiling, denies, and what may remove one |
| `tenancy` | 2 stores, 1 writer, 2 deletions | orphans only from overlaps, a truthful audit trail, one deletion at a time, locks released |

Three requests are enough for the protocol: a winner, a loser of the race for
the constraint and a late retry; with two keys one request can be on its own.
One wipe gives two generations of a row, and a request of the first that meets
a row of the second.  Two transfers in both directions are the least for every
conflict between drafts and for an item that comes back; the quantity 3 allows a
partial reception, a loss and a rest on one line.  In `cash` two
requests make every race the code has (two openings, two fallback bookings, a
booking against a close), and three movements an opening and two bookings.  In
`sales` the second sale is the exchange of the first, or competes with it for rows, and the
third request is the retry or the return after a race of two; two updates are the
least that leave two batches of lines.  In `intake` the first request makes a
product without a cost and the others race to give it one, or two race to change
the cost of the first.  In `stock` the
third request moves what a race of two has left.  In `access` two rewrites
race while a deletion, a change of role or a login needs no request of its own.
In `tenancy` a purge of the tenant meets one of a store, and a writer either.

Deadlock is not checked: every behaviour ends when its requests, rows and
identifiers are used up, as the system may stop when nobody sends a request.

**Fairness.** Nothing is assumed of clients (a request may never be sent), of
faults or of wipes.  `Idempotency` is weakly fair to every request that has
reached the server: a worker runs the handler it has taken up to its next
commit.  `Intake` is weakly fair to the steps of a background job (the
extraction has a timeout), `Tenancy` to the statements of a deletion.  `PosCash`
is strongly fair to the steps of a request: PostgreSQL grants a row lock in the
order of the waiters, so a request that can go on again and again does.
`Transfers`, `PosSales`, `Stock` and `Access` have no liveness property: every
step is a user's decision, and no request waits for another one's.

**Violations.** The two violating runs are disagreements between the code and
what its scripts and tests say; `PROJECT.json` quotes both.

* `transfers_shortage`: `resolve_shortages` accepts a unit as lost that was
  reported short and received afterwards, and deletes a row of another transfer.
* `sales_epc_refund`: CHECKOUT clears the EPC of the row it sells, and
  REFUND_ITEMS looks the row up by EPC.

**Limits the models show.** The passing properties are stated around the
following behaviours of the code, which the modules contain and which can be
seen by dropping the exception a property names, or with the `Client` or
`Faults` given:

* a crash between the commits leaves an idempotency row `in_progress` for ever,
  and `record_failure` may overwrite a recorded success after a database error,
  so that a key has two answers (`Faults` with `"crash"` or `"db"`);
* a reception that names a line twice receives more than was dispatched
  (`Client` with `"repeat_line"`), two lines of one SKU leave a row in transit
  (`"same_sku"`), and units of two variants under one line may never be
  received.  `TransitMatchesLedger` and `ReceivedWithinDispatched` are
  therefore checked for one transfer and a client that does neither, and proved
  as long as no two transfers with one SKU leave one store at the same time;
* two checkouts of a sale with SKU lines only and no advance both commit;
  two returns computed from one balance both count (`raced`), and so does one
  that names a line twice (`Entries`);
* two SKU lines of one sale take the same rows, so that more is sold than leaves
  the stock (`Distinct`), and two updates that overlap leave both their lines;
* an exchange is paid with an advance without looking it up or consuming it: one
  advance pays for exchanges again and again, and a checkout too (`traded`);
* two requests that both found a product without a cost set one each, and neither
  asks for a review of the price (`FirstCostsRaced`); a negative rounding step
  suggests a price below the markup or margin;
* a booking on another cashier's session loses an update of `expected_cash`, and
  may land after the day was closed; two OPENs make two sessions;
* a lookup may write EXPIRED over CONSUMED, without giving the value twice;
* `assign_pending_epc`, `resolve_issue` and a late `mark_issue` bring a sold item
  back into stock; actions of `stock_actions`, a second assignment of a line, and
  a release or an issue that had not read it leave an assignment behind
  (`orphaned`);
* a confirmation twice stages the lines twice, and a job that ends after it
  overwrites CONFIRMED; a crash, or an exception that is no `AppError`, leaves
  the extraction in PROCESSING;
* a PATCH of overrides deletes a deny written after its read;
* the wipe of a tenant with a confirmed extraction always fails on a foreign
  key, and so does a purge with rows in the preload, EPC, extraction or
  catalogue tables, which it does not know; a crash, or a failing release,
  leaves the lock row for ever.

## Proofs

The theorems hold for every value of the constants, from the named assumptions
of the module (all of them evaluated by TLC on the instances).

`IdempotencyProofs` proves, for any requests, keys, payloads and faults and any
number of wipes, from the three assumptions of `Idempotency`: `TypeOK`,
`AtMostOneEffect`, `ReplayIsFaithful`, `EffectUnderOpenRow`, `RowLifecycle`, and
that the protocol implements `AtMostOnce`.

None of the properties is inductive.  That at most one request takes effect
needs to know that whoever is in `work` owns the row of the current generation
or holds one of an earlier generation, that two requests never hold the same
key in the same generation, and that a row still owned is in progress as long
as its owner has not recorded an outcome.  That a replay is faithful needs the
same of the row it is read from: its hash is its owner's, and a stored result
means that its owner's work is committed.  `IInv` is the conjunction of these,
`NextIInv` shows that every step keeps it, one lemma per group of actions, and
the action properties follow from `IInv` before the step.  The refinement takes the owner of a
key's row as its claimant and the requests in `work` as those that may take
effect; every step is a claim, an effect, a claim given up, a reply, a wipe, or a
stutter.

`TransfersProofs` proves, for any stores, rows, transfers, lines, quantities and
clients, from the assumptions of `Transfers`: `TypeOK`, `TagInOneOpenTransfer`,
`OpenIffOutstanding`, `NoCancelAfterReception`, `TagInTransitIffOutstanding`, and
that the handlers implement `Custody`.  Under conditions on the client and on
what travels together, stated below, it also proves `ReceivedWithinDispatched`
and `TransitMatchesLedger`.  `TablesAssumption`, that the tables are finite, is
there for the counts of these two.

`TagInOneOpenTransfer` holds by the order of two steps: only a dispatch makes a
transfer travel, and it repeats the conflict check of the draft, which refuses
an EPC that any other travelling transfer names.  Drafts of other stores that
name the same EPC are harmless for that reason.  `OpenIffOutstanding` and
`NoCancelAfterReception` need `Sound`: every line asks for something, so that a
transfer just dispatched is not settled already; a draft has moved nothing; and
a transfer still DISPATCHED has received nothing, so that cancelling keeps the
promise.  `ReplaceHeader` reduces every step to the new header of one transfer,
`BookingIInv` the receptions and resolutions to what they book.  The typing of a
new line needs the oldest row of a selection to exist (`OldestExists`).

`TagInTransitIffOutstanding` is about the rows, which the handlers choose by
criteria and never by the line they belong to.  It needs `TagsOK`: in every
header the lines have at most one unit of a tag, from a place that is not
IN_TRANSIT, and a draft has not taken it (`TagSound`); and a row in transit
belongs to the origin of the one transfer that has it outstanding (`Located`).
The step lemmas say of each handler that it is a `TagStep`: it changes a
transfer that does not travel and may give rows of no store to one (`Adopts`),
takes rows into transit (`Departs`), puts down, returns or loses what is
outstanding (`Unloads`), or sells one row (`Sells`).  `AvailableTag` is
the heart: the conflict check under the lock of the row refuses a tag that is
under way.  A second set of lemmas turns each kind of `TagStep` into the step
of `Custody` it implements.  Both hold for every client, `"repeat_line"` and
`"same_sku"` included: these break the numbers of the lines, and the place of
units without a tag, but not where a tag is.

The two ledger properties are about rows that only a count ties to a line:
`receive`, `LOST_IN_ROUTE` and `cancel` choose units of a SKU in transit from
the origin, of whatever transfer.  They hold while no two transfers travel from
one store with one SKU (`Apart`), and for a client that names each line once in
a request and each SKU once in a transfer (`Careful`); naming `IN_TRANSIT` as
the place of a line is allowed.  The theorems say
`Spec /\ []Apart => [](...)`: any number of transfers, one after the other or
together with other SKUs or from other stores.  Both conditions are needed:
`transfers_shortage` violates `ReceivedWithinDispatched` with two transfers of
one SKU, and a request that repeats a line books its units twice.

Neither property is inductive.  `Ledger` is: every transfer has one line per
SKU or EPC, settles no more than it dispatched, and has dispatched all of a line
from a place that is not IN_TRANSIT (`LedgerSound`); and the rows of a SKU in
transit from a store are as many as the one transfer that holds it has
outstanding, none if there is no such transfer (`Balanced`).  The bound on what is
received needs the balance: a reception finds as many rows as it books, and
there are no more of them than the line has outstanding.  And the balance needs `LedgerSound`: a
dispatch from `IN_TRANSIT` would take the rows of another transfer, and there is
none while transfers stay apart.  Before the proof TLC found `Ledger` to hold in all
755,370 states of `MCTransfers` with two transfers, three units of one SKU, an
EPC, one place, quantities up to 2 and `Apart` as constraint, among them
states in which both transfers travel.  `Accounts` says of a step that it replaces one header and moves
the rows of each SKU by as much, one lemma per handler; `AccountsLedger`
concludes.  `UnitsTaken` and `OldestCount` count the rows that `ORDER BY
created_at LIMIT n` takes: exactly n when there are that many.  The sums of
`TransitMatchesLedger` are folds over finite sets, whose value the induction
over subsets in the section on counting gives (`FoldExists`, `FoldZero`,
`FoldOne`): under `Apart` at most one term differs from 0.

For the lines of EPCs, `SpecTagsWithinDispatched` needs no `Apart`: whatever
transfers travel together and whatever SKUs repeat, the unit of an EPC is
received or lost at most once, unless one request repeats its line.  By
`TagsOK`, a row found in transit is one that this very line has outstanding.

`PosSalesProofs` proves `TypeOK`, `AdvanceSpentOnce`, `ReturnsWithinSale`,
`GuardedCheckoutOnce` and `StockCoversSales`, for any finite set of sales and any
payloads, repeated SKUs and EPCs included.  All rest on `TInv`: a request and a
draft are about a sale that was made, its lines are of the batches it has had, and
nothing was returned of a line that is yet to come.  `AdvInv` says that an advance
that can still be used was given by exchanges only; every other step that gives one
makes it unusable under its lock.  `RInv` says that what a request or a draft was
quoted of a line, added to the balance it saw, fits that line.  When it is
written the line is gone, and the event counts for nothing; or the balance is
another one or the line was named twice, and the sale is `raced`; or it fits.
`GInv` says that everyone who read or paid for a generation saw the same lines,
and that each payment has left its guard behind: the EPC is off the row, the
advance is used up.  A second checkout of that generation needs the same EPC or
the same advance and finds neither; the sale of an exchange has no checkout.

`StockCoversSales` compares the number of SOLD rows with a sum over the sales, and
is not inductive: a sale updated between two checkouts stops being regular and
may become so again.  `CInv` keeps the sum of what each sale is worth (`Worth`:
its lines, once a checkout took those of its generation, less what was returned)
below the number of SOLD rows as long as no sale is `Strayed`.  A sale is when a
return raced, when its lines took the same rows, or when they are not those its
checkout took and no checkout in hand read the present ones; it stays so, because
a sale that was taken is not a DRAFT and no new checkout can read it.
`StockSteps` says what each step does to sales and stock, `SoldNext` counts the
rows it marks or frees (`OldestCount`: a selection of n rows finds n or all there
are; `UnionCount`: lines that are `Distinct` find rows of their own), and
`SumShift` bounds what it adds to the sum.  A sum is the fold of the community
modules; `FoldExists` shows that it has a value, by the smallest set that would be
a counterexample.

`StockProofs` proves `TypeOK`, `TagOnOneItem`, `AssignmentBacked`, `SoldStaysSold`
and `SavedLineKeepsItem`, for any items, tags, issues and requests.  Every step
changes the row and the line of one item only, so the proof is in two parts.  `Respects`
says what a new row and line of one item must fulfil: no tag another row
has (`Fits`), assignments that are backed or orphaned (`Books`), sold items that stay sold or are revived
(`Goods`), and requests under way that are not surprised (`Calm`).  One lemma
shows that a change that respects these keeps `IInv`, one lemma per action that
it respects them.  `IInv` adds to the properties that no two rows have one tag
(`OneTag`), what a request under way may rely on (`InFlight`: an import is
alone with its item, a line being assigned is saved, an issue is about an item
that was made), and that the line of an assignment is final (`AssignedFinal`).
The attempt to prove `AssignmentBacked` showed a race of four requests that the
bound of three cannot reach: a release, or an issue that frees the tag, writes a row
that got another tag with another assignment since it was read.  The history
`orphaned` names this route now, and `AssignmentBacked` excepts it.

`PosCashProofs` proves `TypeOK`, `BooksBalance`, `LateBookingsAreExcused`,
`SecondSessionOnlyByRace`, `CloseIsFinal` and `CutCountsDrawer`, for any
cashiers, days, amounts, changes, requests and bounds.  `Total` is a fold of the community modules;
that it has a value, and gains exactly the new element when one is added, is proved
by the smallest set that would be a counterexample.  Every step is then one of three: a request reads or ends
and the tables stay (`Thinks`), a cut is added (`Counts`), or one
movement is written with all that goes with it (`Writes`).  `IInv` adds to `BooksBalance` and
`SecondSessionOnlyByRace`: movements, sessions and days agree (`RowsOK`); what
a request read is still what it was, or has grown in the ways named
(`RequestsOK`, with `Looked` for an OPEN and `Excused`, `ClosedBut` for a
`close_day` under way); and every close has its late bookings excused
(`ClosesOK`).

`IntakeProofs` proves `TypeOK`, `ConfirmationSticks`, `CostFollowsHistory` and
`ReviewFlagged`, for any lines and pricings.  `JobsOK` says which jobs can still
write a status: those of an extraction whose row was made for a job, so that one
confirmed as DRAFT, COMPLETED or FAILED has none.  `CostFollowsHistory` is
inductive by itself, whatever the requests have read.  `ReviewFlagged` needs
`HistoryOK` (a product has a cost from its first history entry on, whose request
found none) and, of every request under way, `SeenOK`: the cost it read is the
product's or none, or the flag is set, or first costs raced; a flag it read is
still set.  So a commit that changes the cost either sets the flag, or gives the
first cost, or is the second to give one.  `SuggestedIsTight` is about the
arithmetic: for every line that is priced and every mode, number and step, the
suggested price is the multiple of the step next above the exact price, next
below it when the step is negative, by `RoundUpIsTight` and `RoundUpGoesDown`,
lemmas on integer division.

`AccessProofs` proves `TypeOK`, `GrantsWithinCeiling`, `OverridesFollowUser`,
`DenyIsFinal` and the action property `DenyLeavesOnRequest`.  `IInv` adds to
them that no level holds a permission twice, that the ADMIN template is within
`ceiling`, and what a request carries between its steps: its allows and denies
are disjoint, its allows are within the ceiling unless the superadmin asked, and denies
it did not name are those it read.  The ceiling only grows, which is what makes a
check done before the commit still good after it.

`TenancyProofs` proves `TypeOK`, `OneAtATime`, `ReferencesHold`,
`AuditTellsOutcome` and `LeftoversOverlapped`.  `LockInv` pairs every deletion
that runs with its lock row.  `AuditInv` carries, statement by statement, what
the deletion has removed and that it does not come back: the writer of a
deleted row has answered.  `OverlapInv` says that a writer under way and a
deletion under way have met, and that each leftover is accounted for by such a pair.

**Only model-checked.**  Liveness under fairness (`EveryRequestAnswered`,
`NoRowStaysInProgress`, `EveryRequestEnds`, `ExtractionSettles`, `LockReleased`)
is out of the prover's reach.  `EpcLineRefundable` is refuted by its run.
Every invariant of a passing run is a theorem, `ReceivedWithinDispatched` and
`TransitMatchesLedger` under the conditions named above; the instance of
`transfers_ledger` satisfies both, with one transfer and no liberty of the client.

## Not modelled

Permissions, scope of users and wording in every module but `Access`; and

* `Transfers`: the typed target place of a reception that names `IN_TRANSIT`;
  receptions to several places in one payload; more than two entries for a line;
  write-off, replacement and migration of rows in transit;
* `PosCash`: counted amounts and their differences, the count and deposit
  columns of a cut, explicit windows of cuts, events in the same microsecond;
  drawer events, which touch no other state;
* `PosSales`: prices, receipts and return policies (a policy refuses a request,
  which is the client's choice here); stock rows without a cost price; the
  NON_REUSABLE_LABEL branch, which no request reaches;
* `Stock`: locations and pools; REPRICE, MARKDOWN and REPRINT, which change
  nothing that is modelled; a row saved from a preload line cannot be written
  off, the foreign key refuses it;
* `Intake`: the extraction (an external model), uploads and parsing, images; a
  confirmation and the bulk upsert have one line; an amount or step that is no
  finite number (the request is refused, except for `NaN`, which `parse_decimal`
  accepts and which makes the suggested price `NaN`) and the 28 digits of
  `Decimal`, which no amount the columns hold exceeds;
* `Access`: passwords and resets; platform policies, which are stored and
  never consulted; templates of a tenant, which are never written; the order in which two
  DELETEs wait for each other's rows is over-approximated; one tenant and one store;
* `Tenancy`: status of tenants, dry runs, the audit event "started", a missing
  lock table; stored objects, which the wipe deletes before its commit; cash
  cuts, advances and drawer events, which no deletion knows and no foreign key
  protects; the references of transfers that a deletion sets to null;
* reports (read-only aggregation), exports (rows written once by the request
  that makes them), audit, metrics, tracing and configuration (nobody reads
  their state), images and object storage (pure I/O), and the operations scripts,
  whose checks are the source of some properties.

`PROJECT.json` lists the hazards, and for those without a property the reason.

## Plan

Done: the modules and proofs above.  Next:

1. The composition of `Transfers` with `Stock`, for the stock actions on rows
   in transit.
