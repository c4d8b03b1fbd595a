------------------------------ MODULE PosCash ------------------------------
(***************************************************************************)
(* The cash of one store: cash sessions, their movements, cuts and the     *)
(* close of a business day (routers/pos_cash.py), and the bookings that    *)
(* sales, refunds and advances make in a session (_record_cash_movement).  *)
(*                                                                         *)
(* A handler that holds the row of its session from its SELECT to its      *)
(* commit is one action.  The others are requests whose steps interleave:  *)
(* OPEN, which has nothing to lock, close_day, and the bookings on a       *)
(* session read without FOR UPDATE.  A transaction that dies is rolled     *)
(* back and its locks go (Crash).                                          *)
(*                                                                         *)
(* Time is the length of the journal: movements are in commit order, and   *)
(* what happens at the same microsecond is not told apart.                 *)
(***************************************************************************)
EXTENDS Integers, Sequences, FiniteSets, Folds

CONSTANTS
  Cashiers,      \* users who open sessions and take money
  Days,          \* business dates
  Requests,      \* requests that take several steps
  Amounts,       \* amounts of money
  Changes,       \* change a sale may give back
  MaxSessions,   \* bound on the sessions
  MaxMovements,  \* bound on the movements, but for those that close
  MaxCuts        \* bound on the cuts

ASSUME AmountsAssumption == Amounts \subseteq Nat \ {0} /\ Changes \subseteq Nat
ASSUME BoundsAssumption == MaxSessions \in Nat /\ MaxMovements \in Nat /\ MaxCuts \in Nat

VARIABLES
  sessions,   \* sequence of the rows of pos_cash_sessions, by opened_at
  movements,  \* sequence of the rows of pos_cash_movements, by occurred_at
  closes,     \* Days -> row of pos_cash_day_closes
  cuts,       \* sequence of the rows of pos_cash_cuts
  req         \* Requests -> what the request has read and holds

vars == <<sessions, movements, closes, cuts, req>>

(***************************************************************************)
(* Rows.  "looked", "known" and "upto" are history: how many sessions      *)
(* there were when OPEN looked for one and when close_day did, and how     *)
(* many movements when close_day summed them.                              *)
(***************************************************************************)
Sessions == [cashier : Cashiers, day : Days, status : {"OPEN", "CLOSED"},
             expected : Int, looked : Nat]

Plus  == {"OPEN", "CASH_IN", "SALE"}
Minus == {"CASH_OUT", "CASH_OUT_REFUND"}

\* change: what the sale gave back of its cash payments; stale: the session
\* was read without a lock.
Movements == [session : Nat, day : Days, action : Plus \cup Minus \cup {"CLOSE", "DAY_CLOSE"},
              amount : Nat, change : Nat, before : Int, after : Int, stale : BOOLEAN]

NoClose == [made |-> FALSE, expected |-> 0, known |-> 0, upto |-> 0]
Closes == [made : BOOLEAN, expected : Int, known : Nat, upto : Nat]

\* The status, the count and the deposit of a cut are columns that no
\* handler reads: VOID, COMPLETE and PRINT_MARK change nothing else.
Cuts == [session : Nat, number : Nat, from : Nat, to : Nat, expected : Int]

Idle == [stage |-> "idle"]
Opening == [stage : {"checked", "looked"}, cashier : Cashiers, day : Days,
            amount : Amounts, looked : Nat]
Booking == [stage : {"read"}, session : Nat, action : Plus \cup Minus,
            amount : Nat, change : Nat, before : Int]
Closing == [stage : {"locked", "summed"}, day : Days, found : SUBSET Nat,
            known : Nat, sum : Int, upto : Nat]

Ids == DOMAIN sessions
Signed(m) == IF m.action \in Plus THEN m.amount ELSE IF m.action \in Minus THEN -m.amount ELSE 0

\* The sum of what f says of the movements at the places I.
Total(f, I) == MapThenFoldSet(+, 0, LAMBDA i : f[i], LAMBDA S : CHOOSE i \in S : TRUE, I)

SignedAt == [i \in DOMAIN movements |-> Signed(movements[i])]
BalanceUpTo(s, t) == Total(SignedAt, {i \in DOMAIN movements : i <= t /\ movements[i].session = s})
Balance(s) == BalanceUpTo(s, Len(movements))

\* _reconciliation_rollup
DayTotal(d) == Total(SignedAt, {i \in DOMAIN movements : movements[i].day = d})

\* A close_day that reads the open sessions without FOR UPDATE.
LockedNever(s) == FALSE

\* Rows that a close_day under way has locked.
Locked(s) == \E r \in Requests : req[r].stage \in {"locked", "summed"} /\ s \in req[r].found

OpenOf(c) == {s \in Ids : sessions[s].cashier = c /\ sessions[s].status = "OPEN"}
Usable(c) == {s \in OpenOf(c) : ~closes[sessions[s].day].made}
Latest(S) == CHOOSE s \in S : \A t \in S : t <= s

\* The bound on the journal: what is booked and what requests under way will book.
Room == Len(movements) + Cardinality({r \in Requests : req[r].stage \in {"checked", "looked", "read"}})
          < MaxMovements

\* A refund that is added to the balance.
EntryRefundAdds(s, action, amount, change, before, stale) ==
  LET sign == IF action # "CASH_OUT" THEN 1 ELSE -1
  IN [session |-> s, day |-> sessions[s].day, action |-> action, amount |-> amount,
      change |-> change, before |-> before, after |-> before + sign * amount, stale |-> stale]

Entry(s, action, amount, change, before, stale) ==
  LET sign == IF action \in Plus THEN 1 ELSE -1
  IN [session |-> s, day |-> sessions[s].day, action |-> action, amount |-> amount,
      change |-> change, before |-> before, after |-> before + sign * amount, stale |-> stale]

\* A movement on session s, whose balance the handler has read as before.
Book(s, action, amount, change, before, stale) ==
  LET e == Entry(s, action, amount, change, before, stale)
  IN /\ e.after >= 0
     /\ movements' = Append(movements, e)
     /\ sessions' = [sessions EXCEPT ![s].expected = e.after]

BookNow(s, action, amount, change) ==
  /\ Room
  /\ ~Locked(s)
  /\ Book(s, action, amount, change, sessions[s].expected, FALSE)

Init ==
  /\ sessions = <<>>
  /\ movements = <<>>
  /\ closes = [d \in Days |-> NoClose]
  /\ cuts = <<>>
  /\ req = [r \in Requests |-> Idle]

(***************************************************************************)
(* cash_session_action                                                     *)
(***************************************************************************)
OpenCheck(r, c, d, a) ==
  /\ req[r] = Idle
  /\ ~closes[d].made
  /\ Room
  /\ Len(sessions) + Cardinality({q \in Requests : req[q].stage \in {"checked", "looked"}}) < MaxSessions
  /\ req' = [req EXCEPT ![r] = [stage |-> "checked", cashier |-> c, day |-> d,
                                amount |-> a, looked |-> 0]]
  /\ UNCHANGED <<sessions, movements, closes, cuts>>

\* An OPEN that does not refuse a second session.
OpenLookBlind(r) ==
  /\ req[r].stage = "checked"
  /\ req' = [req EXCEPT ![r] = [@ EXCEPT !.stage = "looked", !.looked = Len(sessions)]]
  /\ UNCHANGED <<sessions, movements, closes, cuts>>

\* The FOR UPDATE waits for the rows it selects.
OpenLook(r) ==
  /\ req[r].stage = "checked"
  /\ \A s \in Usable(req[r].cashier) : ~Locked(s)
  /\ req' = [req EXCEPT ![r] = IF Usable(req[r].cashier) # {} THEN Idle
                               ELSE [@ EXCEPT !.stage = "looked", !.looked = Len(sessions)]]
  /\ UNCHANGED <<sessions, movements, closes, cuts>>

OpenInsert(r) ==
  /\ req[r].stage = "looked"
  /\ sessions' = Append(sessions, [cashier |-> req[r].cashier, day |-> req[r].day, status |-> "OPEN",
                                   expected |-> req[r].amount, looked |-> req[r].looked])
  /\ movements' = Append(movements, [session |-> Len(sessions) + 1, day |-> req[r].day,
                                     action |-> "OPEN", amount |-> req[r].amount, change |-> 0,
                                     before |-> 0, after |-> req[r].amount, stale |-> FALSE])
  /\ req' = [req EXCEPT ![r] = Idle]
  /\ UNCHANGED <<closes, cuts>>

CashInOut(c, action, a) ==
  /\ action \in {"CASH_IN", "CASH_OUT"}
  /\ Usable(c) # {}
  /\ BookNow(Latest(Usable(c)), action, a, 0)
  /\ UNCHANGED <<closes, cuts, req>>

Close(c) ==
  /\ Usable(c) # {}
  /\ LET s == Latest(Usable(c)) IN
     /\ ~Locked(s)
     /\ sessions' = [sessions EXCEPT ![s].status = "CLOSED"]
     /\ movements' = Append(movements, [Entry(s, "CLOSE", 0, 0, sessions[s].expected, FALSE)
                                        EXCEPT !.after = sessions[s].expected])
  /\ UNCHANGED <<closes, cuts, req>>

(***************************************************************************)
(* Bookings of sales, refunds and advances.  _require_open_cash_session    *)
(* locks an open session of the cashier, whichever comes first, or else    *)
(* reads the only open one of the store; pos_advances reads the cashier's  *)
(* without a lock.                                                         *)
(***************************************************************************)
ChangeOf(action) == IF action = "SALE" THEN Changes ELSE {0}

BookOwn(c, action, a) ==
  /\ action \in {"SALE", "CASH_OUT_REFUND"}
  /\ \A s \in OpenOf(c) : ~Locked(s)
  /\ \E s \in OpenOf(c) : /\ ~closes[sessions[s].day].made
                          /\ \E change \in ChangeOf(action) : BookNow(s, action, a, change)
  /\ UNCHANGED <<closes, cuts, req>>

Read(r, s, action, a, change) ==
  /\ req[r] = Idle
  /\ Room
  /\ ~closes[sessions[s].day].made
  /\ req' = [req EXCEPT ![r] = [stage |-> "read", session |-> s, action |-> action,
                                amount |-> a, change |-> change, before |-> sessions[s].expected]]
  /\ UNCHANGED <<sessions, movements, closes, cuts>>

ReadFallback(r, c, action, a) ==
  /\ action \in {"SALE", "CASH_OUT_REFUND"}
  /\ OpenOf(c) = {}
  /\ \E s \in UNION {OpenOf(b) : b \in Cashiers} :
       /\ UNION {OpenOf(b) : b \in Cashiers} = {s}
       /\ \E change \in ChangeOf(action) : Read(r, s, action, a, change)

ReadAdvance(r, c, action, a) ==
  /\ action \in {"CASH_IN", "CASH_OUT"}
  /\ OpenOf(c) # {}
  /\ Read(r, Latest(OpenOf(c)), action, a, 0)

BookRead(r) ==
  /\ req[r].stage = "read"
  /\ ~Locked(req[r].session)
  /\ Book(req[r].session, req[r].action, req[r].amount, req[r].change, req[r].before, TRUE)
  /\ req' = [req EXCEPT ![r] = Idle]
  /\ UNCHANGED <<closes, cuts>>

\* The balance that was read does not allow the booking.
RefuseRead(r) ==
  /\ req[r].stage = "read"
  /\ req[r].action \in Minus
  /\ req[r].before < req[r].amount
  /\ req' = [req EXCEPT ![r] = Idle]
  /\ UNCHANGED <<sessions, movements, closes, cuts>>

(***************************************************************************)
(* Cuts.  The sales of the window are the payments of the whole store,     *)
(* before change; everything else is the session's.                        *)
(***************************************************************************)
OpenedAt(s) == CHOOSE i \in DOMAIN movements : movements[i].session = s /\ movements[i].action = "OPEN"
CutsOf(s) == {k \in DOMAIN cuts : cuts[k].session = s}

\* _resolve_cut_window: since the session opened or since its last cut; up to now.
WindowStart(s, last) ==
  IF last /\ CutsOf(s) # {} THEN cuts[Latest(CutsOf(s))].to ELSE OpenedAt(s)

TakenAt == [i \in DOMAIN movements |-> movements[i].amount + movements[i].change]

\* A quote that forgets the cash refunds of the window.
QuoteNoRefunds(s, from, to) ==
  LET window == {i \in DOMAIN movements : i > from /\ i <= to}
      own    == {i \in window : movements[i].session = s
                                /\ movements[i].action \in {"CASH_IN", "CASH_OUT"}}
      opening == {i \in DOMAIN movements : movements[i].session = s
                                           /\ (i <= from \/ movements[i].action = "OPEN")}
      sales  == {i \in window : movements[i].action = "SALE"}
  IN Total(SignedAt, opening \cup own) + Total(TakenAt, sales)

\* _calculate_cut_quote
Quote(s, from, to) ==
  LET window == {i \in DOMAIN movements : i > from /\ i <= to}
      own    == {i \in window : movements[i].session = s
                                /\ movements[i].action \in Minus \cup {"CASH_IN"}}
      opening == {i \in DOMAIN movements : movements[i].session = s
                                           /\ (i <= from \/ movements[i].action = "OPEN")}
      sales  == {i \in window : movements[i].action = "SALE"}
  IN Total(SignedAt, opening \cup own) + Total(TakenAt, sales)

CutNumber(s) == Cardinality(CutsOf(s)) + 1

CreateCut(c, last, deposit) ==
  /\ Len(cuts) < MaxCuts
  /\ \E s \in Usable(c) :
       /\ ~Locked(s)
       /\ cuts' = Append(cuts,
            [session |-> s, number |-> CutNumber(s), from |-> WindowStart(s, last),
             to |-> Len(movements),
             expected |-> Quote(s, WindowStart(s, last), Len(movements))])
       /\ IF deposit = 0 THEN UNCHANGED <<sessions, movements>>
                         ELSE BookNow(s, "CASH_OUT", deposit, 0)
  /\ UNCHANGED <<closes, req>>

\* cash_cut_action, APPLY_CASH_OUT: as often as asked, and whatever the day.
PayOutCut(k, a) ==
  /\ sessions[cuts[k].session].status = "OPEN"
  /\ BookNow(cuts[k].session, "CASH_OUT", a, 0)
  /\ UNCHANGED <<closes, cuts, req>>

(***************************************************************************)
(* close_day                                                               *)
(***************************************************************************)
OfDay(d) == {s \in Ids : sessions[s].day = d}

\* force stands for the flag with a role and a reason that allow it.
CloseDayLock(r, d, force) ==
  /\ req[r] = Idle
  /\ ~closes[d].made
  /\ LET found == {s \in OfDay(d) : sessions[s].status = "OPEN"} IN
     /\ \A s \in found : ~Locked(s)
     /\ found = {} \/ force
     /\ req' = [req EXCEPT ![r] = [stage |-> "locked", day |-> d, found |-> found,
                                   known |-> Len(sessions), sum |-> 0, upto |-> 0]]
  /\ UNCHANGED <<sessions, movements, closes, cuts>>

CloseDaySum(r) ==
  /\ req[r].stage = "locked"
  /\ req' = [req EXCEPT ![r] = [@ EXCEPT !.stage = "summed", !.sum = DayTotal(req[r].day),
                                     !.upto = Len(movements)]]
  /\ UNCHANGED <<sessions, movements, closes, cuts>>

\* Without the unique constraint on the day.
CloseDayInsertAgain(r) ==
  /\ req[r].stage = "summed"
  /\ closes' = [closes EXCEPT ![req[r].day] =
                  [made |-> TRUE, expected |-> req[r].sum, known |-> req[r].known,
                   upto |-> req[r].upto]]
  /\ sessions' = [s \in Ids |-> IF s \in req[r].found THEN [sessions[s] EXCEPT !.status = "CLOSED"]
                                ELSE sessions[s]]
  /\ req' = [req EXCEPT ![r] = Idle]
  /\ UNCHANGED <<movements, cuts>>

CloseDayInsert(r) ==
  /\ req[r].stage = "summed"
  /\ ~closes[req[r].day].made
  /\ closes' = [closes EXCEPT ![req[r].day] =
                  [made |-> TRUE, expected |-> req[r].sum, known |-> req[r].known,
                   upto |-> req[r].upto]]
  /\ sessions' = [s \in Ids |-> IF s \in req[r].found THEN [sessions[s] EXCEPT !.status = "CLOSED"]
                                ELSE sessions[s]]
  /\ movements' = Append(movements, [session |-> 0, day |-> req[r].day, action |-> "DAY_CLOSE",
                                     amount |-> 0, change |-> 0, before |-> 0, after |-> 0,
                                     stale |-> FALSE])
  /\ req' = [req EXCEPT ![r] = Idle]
  /\ UNCHANGED cuts

\* The loser of two closes that waits instead of failing.
CloseDayRefusedNever(r) ==
  /\ req[r].stage = "summed"
  /\ closes[req[r].day].made
  /\ UNCHANGED vars

\* The flush meets the unique constraint and everything is rolled back.
CloseDayRefused(r) ==
  /\ req[r].stage = "summed"
  /\ closes[req[r].day].made
  /\ req' = [req EXCEPT ![r] = Idle]
  /\ UNCHANGED <<sessions, movements, closes, cuts>>

Crash(r) ==
  /\ req[r] # Idle
  /\ req' = [req EXCEPT ![r] = Idle]
  /\ UNCHANGED <<sessions, movements, closes, cuts>>

\* What a request under way does next.
Step(r) ==
  \/ OpenLook(r) \/ OpenInsert(r)
  \/ BookRead(r) \/ RefuseRead(r)
  \/ CloseDaySum(r) \/ CloseDayInsert(r) \/ CloseDayRefused(r)

Next ==
  \/ \E r \in Requests :
       \/ Step(r) \/ Crash(r)
       \/ \E d \in Days : \/ \E c \in Cashiers, a \in Amounts : OpenCheck(r, c, d, a)
                          \/ \E force \in BOOLEAN : CloseDayLock(r, d, force)
       \/ \E c \in Cashiers, a \in Amounts :
            \/ \E action \in {"SALE", "CASH_OUT_REFUND"} :
                 ReadFallback(r, c, action, a)
            \/ \E action \in {"CASH_IN", "CASH_OUT"} : ReadAdvance(r, c, action, a)
  \/ \E c \in Cashiers :
       \/ Close(c)
       \/ \E a \in Amounts :
            \/ \E action \in {"CASH_IN", "CASH_OUT"} : CashInOut(c, action, a)
            \/ \E action \in {"SALE", "CASH_OUT_REFUND"} : BookOwn(c, action, a)
       \/ \E last \in BOOLEAN, deposit \in Amounts \cup {0} :
            CreateCut(c, last, deposit)
  \/ \E k \in DOMAIN cuts, a \in Amounts : PayOutCut(k, a)

Spec == Init /\ [][Next]_vars

\* A worker goes on with its request, and PostgreSQL grants a row lock in the
\* order of the waiters: whoever can go on again and again, does.
FairSpec == Spec /\ \A r \in Requests : SF_vars(Step(r))

(***************************************************************************)
(* Properties                                                              *)
(***************************************************************************)
\* Every row has the type of its columns.
TypeOK ==
  /\ sessions \in Seq(Sessions)
  /\ movements \in Seq(Movements)
  /\ closes \in [Days -> Closes]
  /\ cuts \in Seq(Cuts)
  /\ req \in [Requests -> {Idle} \cup Opening \cup Booking \cup Closing]

MovementsOf(s) == {i \in DOMAIN movements : movements[i].session = s}
OnlyLocked(s) == \A i \in MovementsOf(s) : ~movements[i].stale

\* Whatever interleaves, a session whose bookings all held its row expects
\* exactly what its movements add up to, and that is never negative
\* (expected_cash against pos_cash_movements).  The movements tell an unbroken
\* story: each starts at the balance the one before it left, and the last
\* leaves what the session expects (expected_balance_before and _after).
BooksBalance ==
  \A s \in Ids : OnlyLocked(s) =>
    /\ sessions[s].expected = Balance(s) /\ Balance(s) >= 0
    /\ \A i \in MovementsOf(s) :
         /\ movements[i].after = movements[i].before + Signed(movements[i])
         /\ \A j \in MovementsOf(s) :
              (i < j /\ \A k \in MovementsOf(s) : k <= i \/ k >= j)
                => movements[j].before = movements[i].after
         /\ (\A k \in MovementsOf(s) : k <= i) => sessions[s].expected = movements[i].after

\* What a closed day counted differs from what its movements add up to only
\* by bookings on a session read without a lock, and by those of sessions
\* that were opened after close_day had looked for open ones.
LateBookingsAreExcused ==
  \A d \in Days : closes[d].made =>
    LET late == {i \in DOMAIN movements : i > closes[d].upto /\ movements[i].day = d
                                         /\ movements[i].amount > 0}
    IN /\ \A i \in late : movements[i].stale \/ movements[i].session > closes[d].known
       /\ DayTotal(d) = closes[d].expected + Total(SignedAt, late)

\* A day is closed once: its figures never change, whoever else was closing it.
CloseIsFinal == [][\A d \in Days : closes[d].made => closes'[d] = closes[d]]_vars

\* A cashier has two open sessions only if the day of the first is closed or
\* the second was opened by a request that looked before the first existed.
SecondSessionOnlyByRace ==
  \A c \in Cashiers : \A s, t \in OpenOf(c) :
    s < t /\ s <= sessions[t].looked => closes[sessions[s].day].made

\* A new cut expects what is in the drawer by the session's journal, plus what
\* the rest of the store took in cash and what its own sales gave back in
\* change since the cut's start.
CutCountsDrawer ==
  [][Len(cuts') > Len(cuts) =>
       LET k == cuts'[Len(cuts')]
           sales == {i \in DOMAIN movements : i > k.from /\ i <= k.to
                                             /\ movements[i].action = "SALE"}
           others == {i \in sales : movements[i].session # k.session}
           change == [i \in sales |-> movements[i].change]
       IN k.expected = BalanceUpTo(k.session, k.to)
                       + Total(TakenAt, others) + Total(change, sales \ others)]_vars

\* Every request that reached the server ends: nobody waits for ever for the
\* rows a close_day holds.
EveryRequestEnds == \A r \in Requests : req[r] # Idle ~> req[r] = Idle
=============================================================================
