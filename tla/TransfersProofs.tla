--------------------------- MODULE TransfersProofs ---------------------------
(***************************************************************************)
(* The safety of transfers for any number of stores, rows, transfers and   *)
(* lines, whatever the clients send.                                       *)
(***************************************************************************)
EXTENDS Transfers, FiniteSetTheorems, SequenceTheorems, WellFoundedInduction, TLAPS

(***************************************************************************)
(* Sequences as functions, and the oldest row of a selection.              *)
(***************************************************************************)

\* A sequence is a function on 1..n, and the other way round.
LEMMA SeqIsFunction ==
  ASSUME NEW S, NEW ls \in Seq(S)
  PROVE  \E n \in Nat : DOMAIN ls = 1..n /\ ls \in [1..n -> S]
  BY SeqDef

LEMMA FunctionIsSeq ==
  ASSUME NEW S, NEW n \in Nat, NEW f \in [1..n -> S]
  PROVE  f \in Seq(S)
  BY SeqDef

\* Mapping the lines of a transfer one by one gives lines again.
LEMMA MappedSeq ==
  ASSUME NEW S, NEW ls \in Seq(S), NEW f, f \in [DOMAIN ls -> S]
  PROVE  f \in Seq(S) /\ DOMAIN f = DOMAIN ls
  BY SeqIsFunction, FunctionIsSeq

\* Induction in the form the provers take: a set of numbers has a least one.
LEMMA LeastNatural ==
  ASSUME NEW T \in SUBSET Nat, T # {}
  PROVE  \E m \in T : \A k \in T : m <= k
  <1>1. PICK m \in T : \A k \in T : ~ (<<k, m>> \in OpToRel(<, Nat))
    BY NatLessThanWellFounded, WFMin
  <1>2. ASSUME NEW k \in T, k < m PROVE FALSE
    <2>1. <<k, m>> \in Nat \X Nat
      OBVIOUS
    <2>2. <<k, m>> \in OpToRel(<, Nat)
      BY <1>2, <2>1 DEF OpToRel
    <2> QED
      BY <1>1, <2>2
  <1> QED
    BY <1>2

\* A selection that is not empty has an oldest row.
LEMMA OldestExists ==
  ASSUME NEW rows \in SUBSET Nat, rows # {}
  PROVE  \E i \in Oldest(rows, 1) : i \in rows
  <1>1. PICK m \in rows : \A j \in rows : m <= j
    BY LeastNatural
  <1>2. \A j \in rows : j <= m => j = m
    BY <1>1
  <1>4. {j \in rows : j <= m} = {m}
    <2>1. m \in {j \in rows : j <= m}
      OBVIOUS
    <2> QED
      BY <1>2, <2>1
  <1>3. Cardinality({m}) = 1
    BY FS_Singleton
  <1> QED
    BY <1>3, <1>4 DEF Oldest

(***************************************************************************)
(* The inductive invariant.                                                *)
(***************************************************************************)

\* A transfer has asked for something on each line, nothing has moved before
\* it is dispatched, it is open exactly while something is outstanding, and
\* what is still DISPATCHED, or was cancelled, has received nothing.
Sound(h) ==
  /\ \A n \in DOMAIN h.lines : h.lines[n].qty > 0
  /\ h.status \in {"none", "DRAFT"} =>
       \A n \in DOMAIN h.lines : h.lines[n].received = 0 /\ h.lines[n].lost = 0
  /\ h.status \in Travelling => ~Settled(h.lines)
  /\ h.status = "RECEIVED" => Settled(h.lines)
  /\ h.status \in {"DISPATCHED", "CANCELED"} =>
       \A n \in DOMAIN h.lines : h.lines[n].received = 0

IInv ==
  /\ TypeOK
  /\ \A t \in Transfers : Sound(transfers[t])
  /\ TagInOneOpenTransfer

\* No transfer exists at first.
LEMMA InitIInv == Init => IInv
  <1> SUFFICES ASSUME Init PROVE IInv
    OBVIOUS
  <1>1. <<>> \in Seq(Lines) /\ DOMAIN <<>> = {}
    OBVIOUS
  <1>2. NoTransfer \in Headers /\ Sound(NoTransfer)
    BY <1>1 DEF NoTransfer, Headers, Statuses, Sound, Travelling
  <1>3. stock \in [Items -> Rows]
    BY RowsAssumption DEF Init, Rows, Items
  <1>4. \A t \in Transfers : transfers[t] = NoTransfer
    BY DEF Init
  <1>5. NoTransfer.status \notin Travelling
    BY DEF NoTransfer, Travelling
  <1> QED
    BY <1>2, <1>3, <1>4, <1>5 DEF Init, IInv, TypeOK, TagInOneOpenTransfer

\* The tags that a header names.
Holds(h, tag) == \E n \in DOMAIN h.lines : h.lines[n].what = tag

\* A step that replaces the header of one transfer keeps the invariant when
\* the new header is sound and names, while it travels, no tag that another
\* travelling transfer names: either it already did, or it was checked.
LEMMA ReplaceHeader ==
  ASSUME IInv, NEW t \in Transfers, NEW h \in Headers, Sound(h),
         transfers' = [transfers EXCEPT ![t] = h],
         stock' \in [Items -> Rows],
         h.status \in Travelling =>
           \A tag \in Tags : Holds(h, tag) =>
             \/ transfers[t].status \in Travelling /\ Names(t, tag)
             \/ \A u \in Transfers \ {t} :
                  transfers[u].status \in Travelling => ~Names(u, tag)
  PROVE  IInv'
  <1>1. /\ transfers'[t] = h
        /\ \A u \in Transfers \ {t} : transfers'[u] = transfers[u]
        /\ transfers' \in [Transfers -> Headers]
    BY DEF IInv, TypeOK
  <1>2. TypeOK'
    BY <1>1 DEF TypeOK
  <1>3. \A u \in Transfers : Sound(transfers'[u])
    BY <1>1 DEF IInv
  <1>4. TagInOneOpenTransfer'
    <2> SUFFICES ASSUME NEW u \in Transfers, NEW v \in Transfers, NEW tag \in Tags,
                        transfers'[u].status \in Travelling, Holds(transfers'[u], tag),
                        transfers'[v].status \in Travelling, Holds(transfers'[v], tag)
                 PROVE  u = v
      BY DEF TagInOneOpenTransfer, Names, Holds
    <2>1. \A w \in Transfers : Names(w, tag) <=> Holds(transfers[w], tag)
      BY DEF Names, Holds
    <2>2. CASE u = t /\ v # t
      BY <1>1, <2>1, <2>2 DEF IInv, TagInOneOpenTransfer
    <2>3. CASE v = t /\ u # t
      BY <1>1, <2>1, <2>3 DEF IInv, TagInOneOpenTransfer
    <2>4. CASE u # t /\ v # t
      BY <1>1, <2>1, <2>4 DEF IInv, TagInOneOpenTransfer
    <2> QED
      BY <2>2, <2>3, <2>4
  <1>5. (\A u \in Transfers : Sound(transfers[u]))'
    BY <1>3 DEF Sound, Settled, Outstanding
  <1> QED
    BY <1>2, <1>4, <1>5 DEF IInv

(***************************************************************************)
(* Drafts                                                                  *)
(***************************************************************************)

\* A line built from a request that is available is typed, asks for
\* something, and has moved nothing.
LEMMA NewLineTyped ==
  ASSUME TypeOK, NEW q \in Requested, NEW t, NEW origin, Available(q, t, origin)
  PROVE  /\ NewLine(q, origin) \in Lines
         /\ NewLine(q, origin).qty > 0
         /\ NewLine(q, origin).received = 0 /\ NewLine(q, origin).lost = 0
  <1> DEFINE rows == Select(q.what, OwnStores(q.what, origin), q.at)
             first == CHOOSE i \in Oldest(rows, 1) : TRUE
  <1>1. q.what \in Tags \cup Skus /\ q.qty \in Nat /\ q.qty > 0
    BY BoundsAssumption DEF Requested
  <1>2. rows \subseteq Items /\ rows \in SUBSET Nat
    BY RowsAssumption DEF Select, RowsOf, Items
  <1>3. rows # {}
    BY <1>1, FS_EmptySet DEF Available
  <1>4. first \in rows
    <2>1. \E i \in Oldest(rows, 1) : i \in rows
      BY <1>2, <1>3, OldestExists
    <2>2. Oldest(rows, 1) \subseteq rows
      BY DEF Oldest
    <2> HIDE DEF rows
    <2> QED
      BY <2>1, <2>2
  <1>5. stock[first].place \in Places \cup {InTransit} /\ VariantOf[first] \in Variants
    BY <1>2, <1>4, RowsAssumption DEF TypeOK, Rows, Items
  <1>6. NewLine(q, origin) =
          [what |-> q.what, variant |-> VariantOf[first], qty |-> q.qty,
           from |-> stock[first].place,
           dispatched |-> 0, received |-> 0, reported |-> 0, found |-> 0, lost |-> 0]
    BY DEF NewLine
  <1> HIDE DEF first
  <1> QED
    BY <1>1, <1>5, <1>6 DEF Lines

\* Giving rows to the origin keeps the rows typed.
LEMMA AdoptedTyped ==
  ASSUME TypeOK, NEW ls, NEW origin \in Stores
  PROVE  Adopted(ls, origin) \in [Items -> Rows]
  BY DEF TypeOK, Adopted, Rows

\* The header that a draft writes.
LEMMA DraftHeader ==
  ASSUME IInv, NEW t \in Transfers, NEW origin \in Stores, NEW dest \in Stores,
         NEW asked \in Requests, Draft(t, origin, dest, asked)
  PROVE  \E h \in Headers :
           /\ transfers' = [transfers EXCEPT ![t] = h] /\ Sound(h)
           /\ h.status = "DRAFT" /\ h.origin = origin /\ h.dest = dest
           /\ h.lines = [n \in DOMAIN asked |-> NewLine(asked[n], origin)]
  <1> DEFINE lines == [n \in DOMAIN asked |-> NewLine(asked[n], origin)]
             h == [status |-> "DRAFT", origin |-> origin, dest |-> dest, lines |-> lines]
  <1>1. PICK k \in Nat : asked \in [1..k -> Requested]
    BY BoundsAssumption DEF Requests
  <1>2. \A n \in DOMAIN asked :
          /\ lines[n] \in Lines /\ lines[n].qty > 0
          /\ lines[n].received = 0 /\ lines[n].lost = 0
    BY <1>1, NewLineTyped DEF Draft, IInv
  <1>3. lines \in Seq(Lines) /\ DOMAIN lines = DOMAIN asked
    <2>1. lines \in [1..k -> Lines]
      BY <1>1, <1>2
    <2> QED
      BY <1>1, <2>1, FunctionIsSeq
  <1>6. transfers' = [transfers EXCEPT ![t] = h]
    BY DEF Draft
  <1> HIDE DEF lines
  <1>4. /\ h \in Headers /\ h.status = "DRAFT" /\ h.origin = origin /\ h.dest = dest
        /\ h.lines = lines
    BY <1>3 DEF Headers, Statuses
  <1> HIDE DEF h
  <1>5. Sound(h)
    BY <1>2, <1>3, <1>4 DEF Sound, Travelling
  <1> QED
    BY <1>4, <1>5, <1>6 DEF lines

LEMMA DraftIInv ==
  ASSUME IInv, NEW t \in Transfers, NEW origin \in Stores, NEW dest \in Stores,
         NEW asked \in Requests, Draft(t, origin, dest, asked)
  PROVE  IInv'
  <1>1. PICK h \in Headers :
          /\ transfers' = [transfers EXCEPT ![t] = h] /\ Sound(h)
          /\ h.status = "DRAFT" /\ h.origin = origin /\ h.dest = dest
          /\ h.lines = [n \in DOMAIN asked |-> NewLine(asked[n], origin)]
    BY DraftHeader
  <1>2. stock' \in [Items -> Rows]
    BY AdoptedTyped DEF Draft, IInv
  <1> QED
    BY <1>1, <1>2, ReplaceHeader DEF Travelling

LEMMA UpdateRouteIInv ==
  ASSUME IInv, NEW t \in Transfers, NEW origin \in Stores, NEW dest \in Stores,
         UpdateRoute(t, origin, dest)
  PROVE  IInv'
  <1> DEFINE h == [transfers[t] EXCEPT !.origin = origin, !.dest = dest]
  <1>1. transfers[t] \in Headers /\ transfers[t].status = "DRAFT" /\ Sound(transfers[t])
    BY DEF UpdateRoute, IInv, TypeOK
  <1>2. h \in Headers /\ h.status = "DRAFT" /\ h.lines = transfers[t].lines
    BY <1>1 DEF Headers
  <1>3. transfers' = [transfers EXCEPT ![t] = h] /\ stock' \in [Items -> Rows]
    BY AdoptedTyped DEF UpdateRoute, IInv, TypeOK
  <1> HIDE DEF h
  <1>4. Sound(h)
    BY <1>1, <1>2 DEF Sound, Travelling
  <1> QED
    BY <1>2, <1>3, <1>4, ReplaceHeader DEF Travelling

(***************************************************************************)
(* dispatch                                                                *)
(***************************************************************************)

\* The conflict check of dispatch: no other travelling transfer names a tag
\* of a draft that is still valid.
LEMMA DispatchUnblocked ==
  ASSUME NEW t \in Transfers, StillValid(t, transfers[t].origin),
         NEW tag \in Tags, Names(t, tag), NEW u \in Transfers \ {t},
         transfers[u].status \in Travelling
  PROVE  ~Names(u, tag)
  <1>1. PICK l \in Range(transfers[t].lines) : l.what = tag
    BY DEF Names, Range
  <1>2. ~Blocked(tag, t, transfers[t].origin)
    BY <1>1 DEF StillValid, Available
  <1> QED
    BY <1>2 DEF Blocked, Active, Travelling

LEMMA DispatchIInv ==
  ASSUME IInv, NEW t \in Transfers, Dispatch(t)
  PROVE  IInv'
  <1> DEFINE old == transfers[t]
             lines == [n \in DOMAIN old.lines |->
                         [old.lines[n] EXCEPT !.dispatched = old.lines[n].qty]]
             h == [old EXCEPT !.status = "DISPATCHED", !.lines = lines]
  <1>1. /\ old \in Headers /\ old.status = "DRAFT" /\ Sound(old)
        /\ old.lines \in Seq(Lines) /\ old.lines # <<>>
    BY DEF Dispatch, IInv, TypeOK, Headers
  <1>2. PICK k \in Nat : DOMAIN old.lines = 1..k /\ old.lines \in [1..k -> Lines]
    BY <1>1, SeqIsFunction
  <1>3. \A n \in DOMAIN old.lines :
          /\ lines[n] \in Lines
          /\ lines[n].what = old.lines[n].what
          /\ lines[n].qty > 0 /\ lines[n].dispatched = lines[n].qty
          /\ lines[n].received = 0 /\ lines[n].lost = 0
    BY <1>1, <1>2 DEF Lines, Sound
  <1>4. lines \in Seq(Lines) /\ DOMAIN lines = DOMAIN old.lines
    <2>1. lines \in [1..k -> Lines]
      BY <1>2, <1>3
    <2> QED
      BY <1>2, <2>1, FunctionIsSeq
  <1>5. 1 \in DOMAIN lines
    BY <1>1, <1>4
  <1>6. stock' \in [Items -> Rows]
    <2>1. PICK taken : stock' = [i \in Items |->
                         IF i \in taken
                         THEN [stock[i] EXCEPT !.store = old.origin, !.place = InTransit] ELSE stock[i]]
      BY Zenon DEF Dispatch
    <2>2. stock \in [Items -> Rows] /\ old.origin \in Stores \cup {NoStore}
      BY <1>1 DEF IInv, TypeOK, Headers
    <2>3. ASSUME NEW i \in Items
          PROVE  [stock[i] EXCEPT !.store = old.origin, !.place = InTransit] \in Rows
      <3>1. stock[i] \in Rows /\ old.origin \in Stores \cup {NoStore}
        BY <2>2
      <3> QED
        BY ONLY <3>1 DEF Rows
    <2> QED
      BY <2>1, <2>2, <2>3
  <1>7. transfers' = [transfers EXCEPT ![t] = h]
    BY DEF Dispatch, IInv, TypeOK
  <1> HIDE DEF lines
  <1>8. h \in Headers /\ h.status = "DISPATCHED" /\ h.lines = lines
    BY <1>1, <1>4 DEF Headers, Statuses
  <1>9. \A tag \in Tags : Holds(h, tag) => Names(t, tag)
    BY <1>3, <1>4, <1>8 DEF Holds, Names
  <1>10. StillValid(t, transfers[t].origin)
    BY DEF Dispatch
  <1> HIDE DEF h
  <1>11. ~Settled(lines)
    <2>1. Outstanding(lines[1]) > 0
      BY <1>3, <1>4, <1>5 DEF Outstanding, Lines
    <2>2. Outstanding(lines[1]) \in Int
      BY <1>3, <1>4, <1>5 DEF Outstanding, Lines
    <2> QED
      BY <1>5, <2>1, <2>2 DEF Settled
  <1>12. Sound(h)
    BY <1>3, <1>4, <1>8, <1>11 DEF Sound
  <1> QED
    BY <1>7, <1>6, <1>8, <1>9, <1>10, <1>12, DispatchUnblocked, ReplaceHeader

(***************************************************************************)
(* Receptions, shortages and their resolution                              *)
(***************************************************************************)

\* What a request books on a line is a number.
LEMMA BookedTyped ==
  ASSUME TypeOK, NEW t \in Transfers, NEW b \in Batches(t)
  PROVE  /\ DOMAIN b = DOMAIN transfers[t].lines
         /\ \A n \in DOMAIN b : Booked(b, n) \in Nat /\ transfers[t].lines[n] \in Lines
  <1>1. PICK k \in Nat : /\ DOMAIN transfers[t].lines = 1..k
                         /\ transfers[t].lines \in [1..k -> Lines]
    BY SeqIsFunction DEF TypeOK, Headers
  <1>2. \A n \in DOMAIN transfers[t].lines : b[n] \in (0..MaxQty) \X (0..MaxQty)
    BY BoundsAssumption DEF Batches
  <1> QED
    BY <1>1, <1>2, BoundsAssumption DEF Batches, Booked

\* A step that books units on the lines of a travelling transfer, its new
\* status following what is outstanding.
Books(t, lines, status) ==
  /\ transfers[t].status \in Travelling
  /\ status \in Travelling \cup {"RECEIVED"}
  /\ lines \in [DOMAIN transfers[t].lines -> Lines]
  /\ \A n \in DOMAIN lines : /\ lines[n].what = transfers[t].lines[n].what
                             /\ lines[n].qty = transfers[t].lines[n].qty
  /\ status = "RECEIVED" <=> Settled(lines)
  /\ status = "DISPATCHED" => \A n \in DOMAIN lines : lines[n].received = 0
  /\ transfers' = [transfers EXCEPT ![t].lines = lines, ![t].status = status]
  /\ stock' \in [Items -> Rows]

LEMMA BookingIInv ==
  ASSUME IInv, NEW t \in Transfers, NEW lines, NEW status, Books(t, lines, status)
  PROVE  IInv'
  <1> USE DEF Books
  <1> DEFINE h == [transfers[t] EXCEPT !.lines = lines, !.status = status]
  <1>1. /\ transfers[t] \in Headers /\ Sound(transfers[t])
        /\ transfers[t].lines \in Seq(Lines)
    BY DEF IInv, TypeOK, Headers
  <1>2. lines \in Seq(Lines) /\ DOMAIN lines = DOMAIN transfers[t].lines
    BY <1>1, MappedSeq
  <1>3. h \in Headers /\ h.status = status /\ h.lines = lines
    BY <1>1, <1>2 DEF Headers, Statuses, Travelling
  <1>4. transfers' = [transfers EXCEPT ![t] = h]
    BY DEF IInv, TypeOK
  <1> HIDE DEF h
  <1>5. Sound(h)
    BY <1>1, <1>2, <1>3 DEF Sound, Travelling
  <1>6. \A tag \in Tags : Holds(h, tag) => Names(t, tag)
    BY <1>2, <1>3 DEF Holds, Names
  <1> QED
    BY <1>3, <1>4, <1>5, <1>6, ReplaceHeader

LEMMA ReceiveIInv ==
  ASSUME IInv, NEW t \in Transfers, NEW b \in Batches(t), NEW place \in Places,
         Receive(t, b, place)
  PROVE  IInv'
  <1> DEFINE old == transfers[t]
             lines == [n \in DOMAIN b |-> [old.lines[n] EXCEPT !.received = @ + Booked(b, n)]]
             status == StatusAfter(lines, "PARTIAL_RECEIVED")
  <1>1. /\ DOMAIN b = DOMAIN old.lines
        /\ \A n \in DOMAIN b : Booked(b, n) \in Nat /\ old.lines[n] \in Lines
    BY BookedTyped DEF IInv
  <1>2. /\ lines \in [DOMAIN old.lines -> Lines]
        /\ \A n \in DOMAIN lines : /\ lines[n].what = old.lines[n].what
                                   /\ lines[n].qty = old.lines[n].qty
    BY <1>1 DEF Lines
  <1>3. stock' \in [Items -> Rows]
    BY DEF Receive, IInv, TypeOK, Rows, Headers
  <1>4. /\ transfers' = [transfers EXCEPT ![t].lines = lines, ![t].status = status]
        /\ old.status \in Travelling
    BY DEF Receive
  <1> HIDE DEF lines
  <1>5. /\ status \in Travelling \cup {"RECEIVED"} /\ status # "DISPATCHED"
        /\ status = "RECEIVED" <=> Settled(lines)
    BY DEF StatusAfter, Travelling
  <1> HIDE DEF status
  <1>7. Books(t, lines, status)
    BY <1>2, <1>3, <1>4, <1>5 DEF Books
  <1> QED
    BY <1>7, BookingIInv

LEMMA ReportShortagesIInv ==
  ASSUME IInv, NEW t \in Transfers, NEW b \in Batches(t), ReportShortages(t, b)
  PROVE  IInv'
  <1> DEFINE old == transfers[t]
             lines == [n \in DOMAIN b |-> [old.lines[n] EXCEPT !.reported = @ + Booked(b, n)]]
  <1>1. /\ DOMAIN b = DOMAIN old.lines
        /\ \A n \in DOMAIN b : Booked(b, n) \in Nat /\ old.lines[n] \in Lines
    BY BookedTyped DEF IInv
  <1>2. /\ lines \in [DOMAIN old.lines -> Lines]
        /\ \A n \in DOMAIN lines : /\ lines[n].what = old.lines[n].what
                                   /\ lines[n].qty = old.lines[n].qty
                                   /\ lines[n].received = old.lines[n].received
                                   /\ Outstanding(lines[n]) = Outstanding(old.lines[n])
    BY <1>1 DEF Lines, Outstanding
  <1>3. stock' \in [Items -> Rows] /\ old.status \in Travelling /\ old \in Headers
    BY DEF ReportShortages, IInv, TypeOK
  <1>4. transfers' = [transfers EXCEPT ![t].lines = lines, ![t].status = old.status]
    BY DEF ReportShortages, IInv, TypeOK, Headers
  <1> HIDE DEF lines
  <1>5. old.status # "RECEIVED" /\ ~Settled(lines)
    BY <1>1, <1>2, <1>3 DEF ReportShortages, Settled, Travelling
  <1>6. old.status = "DISPATCHED" => \A n \in DOMAIN lines : lines[n].received = 0
    BY <1>1, <1>2 DEF IInv, Sound
  <1>7. Books(t, lines, old.status)
    BY <1>2, <1>3, <1>4, <1>5, <1>6 DEF Books
  <1> QED
    BY <1>7, BookingIInv

\* Both resolutions leave what was received as it is.
LEMMA ResolveIInv ==
  ASSUME IInv, NEW t \in Transfers, transfers[t].status \in Travelling,
         NEW lines \in [DOMAIN transfers[t].lines -> Lines],
         \A n \in DOMAIN lines :
           /\ lines[n].what = transfers[t].lines[n].what
           /\ lines[n].qty = transfers[t].lines[n].qty
           /\ lines[n].received = transfers[t].lines[n].received,
         transfers' = [transfers EXCEPT ![t].lines = lines,
                         ![t].status = StatusAfter(lines, transfers[t].status)],
         stock' \in [Items -> Rows]
  PROVE  IInv'
  <1> DEFINE status == StatusAfter(lines, transfers[t].status)
  <1>1. /\ status \in Travelling \cup {"RECEIVED"}
        /\ status = "RECEIVED" <=> Settled(lines)
        /\ status = "DISPATCHED" => transfers[t].status = "DISPATCHED"
    BY DEF StatusAfter, Travelling
  <1>2. transfers[t].status = "DISPATCHED" => \A n \in DOMAIN lines : lines[n].received = 0
    BY DEF IInv, Sound
  <1> HIDE DEF status
  <1>3. transfers' = [transfers EXCEPT ![t].lines = lines, ![t].status = status]
    BY DEF status
  <1>7. Books(t, lines, status)
    BY <1>1, <1>2, <1>3 DEF Books
  <1> QED
    BY <1>7, BookingIInv

LEMMA ResolveFoundIInv ==
  ASSUME IInv, NEW t \in Transfers, NEW b \in Batches(t), ResolveFound(t, b)
  PROVE  IInv'
  <1> DEFINE old == transfers[t]
             lines == [n \in DOMAIN b |-> [old.lines[n] EXCEPT !.found = @ + Booked(b, n)]]
  <1>1. /\ DOMAIN b = DOMAIN old.lines
        /\ \A n \in DOMAIN b : Booked(b, n) \in Nat /\ old.lines[n] \in Lines
    BY BookedTyped DEF IInv
  <1>2. /\ lines \in [DOMAIN old.lines -> Lines]
        /\ \A n \in DOMAIN lines : /\ lines[n].what = old.lines[n].what
                                   /\ lines[n].qty = old.lines[n].qty
                                   /\ lines[n].received = old.lines[n].received
    BY <1>1 DEF Lines
  <1>3. /\ stock' \in [Items -> Rows] /\ old.status \in Travelling
        /\ transfers' = [transfers EXCEPT ![t].lines = lines,
                           ![t].status = StatusAfter(lines, old.status)]
    BY DEF ResolveFound, IInv, TypeOK
  <1> HIDE DEF lines
  <1> QED
    BY <1>2, <1>3, ResolveIInv

LEMMA ResolveLostIInv ==
  ASSUME IInv, NEW t \in Transfers, NEW b \in Batches(t), ResolveLost(t, b)
  PROVE  IInv'
  <1> DEFINE old == transfers[t]
             lines == [n \in DOMAIN b |-> [old.lines[n] EXCEPT !.lost = @ + Booked(b, n)]]
  <1>1. /\ DOMAIN b = DOMAIN old.lines
        /\ \A n \in DOMAIN b : Booked(b, n) \in Nat /\ old.lines[n] \in Lines
    BY BookedTyped DEF IInv
  <1>2. /\ lines \in [DOMAIN old.lines -> Lines]
        /\ \A n \in DOMAIN lines : /\ lines[n].what = old.lines[n].what
                                   /\ lines[n].qty = old.lines[n].qty
                                   /\ lines[n].received = old.lines[n].received
    BY <1>1 DEF Lines
  <1>3. stock' \in [Items -> Rows]
    BY DEF ResolveLost, Deleted, IInv, TypeOK, Rows
  <1>4. /\ old.status \in Travelling
        /\ transfers' = [transfers EXCEPT ![t].lines = lines,
                           ![t].status = StatusAfter(lines, old.status)]
    BY DEF ResolveLost
  <1> HIDE DEF lines
  <1> QED
    BY <1>2, <1>3, <1>4, ResolveIInv

(***************************************************************************)
(* cancel, and the sale of a row                                           *)
(***************************************************************************)

\* A cancelled transfer keeps its lines and travels no more.
LEMMA CanceledIInv ==
  ASSUME IInv, NEW t \in Transfers, transfers[t].status \in {"DRAFT", "DISPATCHED"},
         transfers' = [transfers EXCEPT ![t].status = "CANCELED"],
         stock' \in [Items -> Rows]
  PROVE  IInv'
  <1> DEFINE h == [transfers[t] EXCEPT !.status = "CANCELED"]
  <1>1. transfers[t] \in Headers /\ Sound(transfers[t])
    BY DEF IInv, TypeOK
  <1>2. h \in Headers /\ h.status = "CANCELED" /\ h.lines = transfers[t].lines
    BY <1>1 DEF Headers, Statuses
  <1>3. transfers' = [transfers EXCEPT ![t] = h]
    BY DEF IInv, TypeOK
  <1> HIDE DEF h
  <1>4. Sound(h)
    BY <1>1, <1>2 DEF Sound, Travelling
  <1> QED
    BY <1>2, <1>3, <1>4, ReplaceHeader DEF Travelling

LEMMA CancelDispatchedIInv ==
  ASSUME IInv, NEW t \in Transfers, CancelDispatched(t)
  PROVE  IInv'
  <1> DEFINE h == transfers[t]
             rows(l) == Oldest(OnTheWay(l, {h.origin}), l.qty)
             restored == UNION {rows(l) : l \in Range(h.lines)}
  <1>1. PICK last \in [restored -> DOMAIN h.lines] :
          stock' = [i \in Items |->
            IF i \in restored
            THEN [stock[i] EXCEPT !.place = h.lines[last[i]].from] ELSE stock[i]]
    BY DEF CancelDispatched
  <1>2. \A n \in DOMAIN h.lines : h.lines[n].from \in Places \cup {InTransit}
    <2>1. h.lines \in Seq(Lines)
      BY DEF IInv, TypeOK, Headers
    <2>2. \A n \in DOMAIN h.lines : h.lines[n] \in Lines
      BY <2>1, SeqIsFunction
    <2> QED
      BY <2>2 DEF Lines
  <1> HIDE DEF restored
  <1>3. stock' \in [Items -> Rows]
    BY <1>1, <1>2 DEF IInv, TypeOK, Rows
  <1> QED
    BY <1>3, CanceledIInv DEF CancelDispatched

\* Steps that change only the rows.
LEMMA StockIInv ==
  ASSUME IInv, stock' \in [Items -> Rows], UNCHANGED transfers
  PROVE  IInv'
  BY DEF IInv, TypeOK, Sound, Settled, Outstanding, TagInOneOpenTransfer, Names

LEMMA NextIInv == IInv /\ [Next]_vars => IInv'
  <1> SUFFICES ASSUME IInv, [Next]_vars PROVE IInv'
    OBVIOUS
  <1>1. ASSUME NEW t \in Transfers, NEW o \in Stores, NEW d \in Stores,
               \/ \E asked \in Requests : Create(t, o, d, asked) \/ UpdateLines(t, o, d, asked)
               \/ UpdateRoute(t, o, d)
        PROVE  IInv'
    BY <1>1, DraftIInv, UpdateRouteIInv DEF Create, UpdateLines
  <1>2. ASSUME NEW t \in Transfers, Dispatch(t) \/ CancelDraft(t) \/ CancelDispatched(t)
        PROVE  IInv'
    <2>1. CASE CancelDraft(t)
      BY <2>1, CanceledIInv DEF CancelDraft, IInv, TypeOK
    <2> QED
      BY <1>2, <2>1, DispatchIInv, CancelDispatchedIInv
  <1>3. ASSUME NEW t \in Transfers, NEW b \in Batches(t),
               \/ \E p \in Places : Receive(t, b, p)
               \/ ReportShortages(t, b) \/ ResolveFound(t, b) \/ ResolveLost(t, b)
        PROVE  IInv'
    BY <1>3, ReceiveIInv, ReportShortagesIInv, ResolveFoundIInv, ResolveLostIInv
  <1>4. ASSUME NEW w, NEW s, NEW p, Sell(w, s, p)
        PROVE  IInv'
    <2>1. stock' \in [Items -> Rows]
      BY <1>4 DEF Sell, IInv, TypeOK, Rows
    <2> QED
      BY <1>4, <2>1, StockIInv DEF Sell
  <1>5. CASE UNCHANGED vars
    BY <1>5, StockIInv DEF vars, IInv, TypeOK
  <1> QED
    BY <1>1, <1>2, <1>3, <1>4, <1>5 DEF Next

(***************************************************************************)
(* Tags: where the row of an EPC is.                                       *)
(***************************************************************************)

\* The tags a header still has outstanding, and that it has been dispatched.
Cargo(h) ==
  {tag \in Tags : /\ h.status \in Travelling
                  /\ \E n \in DOMAIN h.lines :
                       h.lines[n].what = tag /\ Outstanding(h.lines[n]) > 0}

HasLeft(h) == \E n \in DOMAIN h.lines : h.lines[n].dispatched > 0

\* A line of an EPC is one unit, taken from a place of its own; a transfer has
\* one line for it at most, and goes from one store to another.
TagSound(h) ==
  /\ h.status # "none" => h.origin \in Stores /\ h.dest \in Stores /\ h.origin # h.dest
  /\ h.status \in {"none", "DRAFT"} => ~HasLeft(h)
  /\ \A n \in DOMAIN h.lines : h.lines[n].what \in Tags =>
       h.lines[n].qty = 1 /\ h.lines[n].from \in Places /\ h.lines[n].dispatched <= 1
  /\ \A m, n \in DOMAIN h.lines :
       (h.lines[m].what \in Tags /\ h.lines[m].what = h.lines[n].what) => m = n

\* The row of an EPC is in transit, with the origin, while it is outstanding.
Located ==
  \A tag \in Tags :
    /\ \A t \in Transfers : tag \in Cargo(transfers[t]) =>
         /\ stock[tag].state # "deleted" /\ stock[tag].place = InTransit
         /\ stock[tag].store = transfers[t].origin
    /\ stock[tag].state # "deleted" /\ stock[tag].place = InTransit =>
         \E t \in Transfers : tag \in Cargo(transfers[t])

TagsOK == (\A t \in Transfers : TagSound(transfers[t])) /\ Located

LEMMA CargoIsCarried ==
  ASSUME NEW t \in Transfers, NEW tag \in Tags
  PROVE  Carrying(t, tag) <=> tag \in Cargo(transfers[t])
  BY DEF Carrying, Cargo, Range

\* A tag travels with one transfer at most.
LEMMA OneCarrier ==
  ASSUME TagInOneOpenTransfer, NEW t \in Transfers, NEW u \in Transfers, NEW tag \in Tags,
         tag \in Cargo(transfers[t]), tag \in Cargo(transfers[u])
  PROVE  t = u
  BY DEF TagInOneOpenTransfer, Cargo, Names

(***************************************************************************)
(* The selection of a row by its EPC.                                      *)
(***************************************************************************)
\* Only the line of an EPC selects its row.
LEMMA TagSelected ==
  ASSUME NEW tag \in Tags, NEW what \in Tags \cup Skus, NEW stores, NEW places,
         tag \in Select(what, stores, places)
  PROVE  /\ what = tag /\ stock[tag].state = "in_stock"
         /\ stock[tag].store \in stores /\ stock[tag].place \in places
  BY RowsAssumption DEF Select, RowsOf

LEMMA OldestSubset ==
  ASSUME NEW rows, NEW qty
  PROVE  Oldest(rows, qty) \subseteq rows
  BY DEF Oldest

\* A selection by EPC that is not empty is the row, and the oldest one.
LEMMA TagFound ==
  ASSUME NEW tag \in Tags, NEW rows, rows \subseteq {tag}, Cardinality(rows) >= 1
  PROVE  rows = {tag} /\ tag \in Oldest(rows, 1)
  <1>1. rows = {tag}
    BY FS_EmptySet
  <1>2. {j \in rows : j <= tag} = {tag}
    BY <1>1, RowsAssumption
  <1>3. Cardinality({tag}) = 1
    BY FS_Singleton
  <1> QED
    BY <1>1, <1>2, <1>3 DEF Oldest

LEMMA TagSelection ==
  ASSUME NEW tag \in Tags, NEW stores, NEW places
  PROVE  Select(tag, stores, places) \subseteq {tag}
  BY DEF Select, RowsOf

(***************************************************************************)
(* What a step may do to the rows of tags and to the transfers.            *)
(***************************************************************************)
\* The header of one transfer is replaced.
Replaces(t, h) ==
  /\ t \in Transfers /\ h \in Headers /\ TagSound(h)
  /\ transfers' = [transfers EXCEPT ![t] = h]

\* A transfer that does not travel, before or after; rows of no store may
\* become those of one.
Adopts(t, h, items, s) ==
  /\ Replaces(t, h)
  /\ h.status \notin Travelling /\ transfers[t].status \notin Travelling
  /\ ~HasLeft(h) /\ ~HasLeft(transfers[t])
  /\ s \in Stores
  /\ \A tag \in items \cap Tags : stock[tag].state = "in_stock" /\ stock[tag].store = NoStore
  /\ \A tag \in Tags :
       stock'[tag] = IF tag \in items THEN [stock[tag] EXCEPT !.store = s] ELSE stock[tag]

\* A draft leaves with its tags.
Departs(t, h) ==
  /\ Replaces(t, h)
  /\ transfers[t].status \notin Travelling
  /\ ~HasLeft(transfers[t]) /\ HasLeft(h) /\ h.origin \in Stores
  /\ \A tag \in Tags :
       IF tag \in Cargo(h)
       THEN /\ stock[tag].state = "in_stock" /\ stock[tag].place \in Places
            /\ stock[tag].store \in {h.origin, NoStore}
            /\ stock'[tag] = [stock[tag] EXCEPT !.store = h.origin, !.place = InTransit]
       ELSE stock'[tag] = stock[tag]

\* Tags aboard are put down, at the destination or where they came from, or
\* are lost; what else is aboard stays.
Unloads(t, h, items, how) ==
  /\ Replaces(t, h)
  /\ HasLeft(h) <=> HasLeft(transfers[t])
  /\ h.origin = transfers[t].origin
  /\ items \subseteq Cargo(transfers[t]) /\ Cargo(h) = Cargo(transfers[t]) \ items
  /\ how = "return" => items = Cargo(transfers[t])
  /\ how = "arrive" => transfers[t].dest \in Stores /\ transfers[t].dest # transfers[t].origin
  /\ \A tag \in Tags :
       IF tag \in items
       THEN /\ stock[tag].state = "in_stock"
            /\ \/ /\ how = "arrive"
                  /\ \E p \in Places :
                       stock'[tag] = [stock[tag] EXCEPT !.store = transfers[t].dest, !.place = p]
               \/ how = "return" /\ \E p \in Places : stock'[tag] = [stock[tag] EXCEPT !.place = p]
               \/ how = "lose" /\ stock'[tag] = [stock[tag] EXCEPT !.state = "deleted"]
       ELSE stock'[tag] = stock[tag]

\* A row is sold; transfers stay as they are.
Sells(items) ==
  /\ UNCHANGED transfers
  /\ \A tag \in Tags :
       IF tag \in items
       THEN /\ items = {tag} /\ stock[tag].state = "in_stock" /\ stock[tag].store \in Stores
            /\ stock'[tag] = [stock[tag] EXCEPT !.state = "sold"]
       ELSE stock'[tag] = stock[tag]

TagStep ==
  \/ \E t \in Transfers, h \in Headers :
       \/ \E items \in SUBSET Items, s \in Stores : Adopts(t, h, items, s)
       \/ Departs(t, h)
       \/ \E items \in SUBSET Tags, how \in {"arrive", "return", "lose"} : Unloads(t, h, items, how)
  \/ \E items \in SUBSET Tags : Sells(items)

\* TagsOK of the next state, in terms of the primed variables.
LEMMA TagsOKNext ==
  ASSUME \A u \in Transfers : TagSound(transfers'[u]),
         \A tag \in Tags, u \in Transfers : tag \in Cargo(transfers'[u]) =>
           /\ stock'[tag].state # "deleted" /\ stock'[tag].place = InTransit
           /\ stock'[tag].store = transfers'[u].origin,
         \A tag \in Tags : stock'[tag].state # "deleted" /\ stock'[tag].place = InTransit =>
           \E u \in Transfers : tag \in Cargo(transfers'[u])
  PROVE  TagsOK'
  <1>1. (\A u \in Transfers : TagSound(transfers[u]))'
    BY DEF TagSound, HasLeft
  <1>2. Located'
    BY DEF Located, Cargo, Outstanding
  <1> QED
    BY <1>1, <1>2 DEF TagsOK

LEMMA Replaced ==
  ASSUME TypeOK, TagsOK, NEW t, NEW h, Replaces(t, h)
  PROVE  /\ transfers'[t] = h
         /\ \A u \in Transfers \ {t} : transfers'[u] = transfers[u]
         /\ \A u \in Transfers : TagSound(transfers'[u])
  BY DEF TypeOK, TagsOK, Replaces

\* The row of a tag, for the provers.
LEMMA TagRow ==
  ASSUME TypeOK, NEW tag \in Tags
  PROVE  stock[tag] \in Rows
  BY DEF TypeOK, Items

LEMMA NotTravelling ==
  ASSUME NEW h, h.status \notin Travelling
  PROVE  Cargo(h) = {}
  BY DEF Cargo

LEMMA AdoptsKeeps ==
  ASSUME TypeOK, TagsOK, NEW t, NEW h, NEW items, NEW s, Adopts(t, h, items, s)
  PROVE  TagsOK'
  <1>1. /\ t \in Transfers /\ transfers'[t] = h
        /\ \A u \in Transfers \ {t} : transfers'[u] = transfers[u]
        /\ \A u \in Transfers : TagSound(transfers'[u])
    BY Replaced DEF Adopts, Replaces
  <1>2. Cargo(h) = {} /\ Cargo(transfers[t]) = {}
    BY NotTravelling DEF Adopts
  <1>3. \A tag \in Tags : /\ stock'[tag].state = stock[tag].state
                          /\ stock'[tag].place = stock[tag].place
                          /\ stock[tag].store = NoStore \/ stock'[tag].store = stock[tag].store
    BY TagRow DEF Adopts, Rows
  <1>4. \A u \in Transfers \ {t}, tag \in Tags :
          tag \in Cargo(transfers[u]) =>
            /\ stock[tag].state # "deleted" /\ stock[tag].place = InTransit
            /\ stock[tag].store = transfers[u].origin /\ stock[tag].store # NoStore
    BY NamesAssumption DEF TagsOK, Located, TagSound, Cargo, Travelling
  <1>5. \A tag \in Tags, u \in Transfers : tag \in Cargo(transfers'[u]) =>
           /\ stock'[tag].state # "deleted" /\ stock'[tag].place = InTransit
           /\ stock'[tag].store = transfers'[u].origin
    BY ONLY <1>1, <1>2, <1>3, <1>4
  <1>6. \A tag \in Tags : stock'[tag].state # "deleted" /\ stock'[tag].place = InTransit =>
           \E u \in Transfers : tag \in Cargo(transfers'[u])
    <2> SUFFICES ASSUME NEW tag \in Tags, stock'[tag].state # "deleted", stock'[tag].place = InTransit
                 PROVE  \E u \in Transfers : tag \in Cargo(transfers'[u])
      OBVIOUS
    <2>1. PICK u \in Transfers : tag \in Cargo(transfers[u])
      BY <1>3 DEF TagsOK, Located
    <2>2. u # t
      BY <1>2, <2>1
    <2> QED
      BY <1>1, <2>1, <2>2
  <1> QED
    BY <1>1, <1>5, <1>6, TagsOKNext

LEMMA DepartsKeeps ==
  ASSUME TypeOK, TagsOK, NEW t, NEW h, Departs(t, h)
  PROVE  TagsOK'
  <1>1. /\ t \in Transfers /\ transfers'[t] = h
        /\ \A u \in Transfers \ {t} : transfers'[u] = transfers[u]
        /\ \A u \in Transfers : TagSound(transfers'[u])
    BY Replaced DEF Departs, Replaces
  <1>2. Cargo(transfers[t]) = {}
    BY NotTravelling DEF Departs
  <1>3. \A tag \in Cargo(h) :
          /\ stock[tag].place # InTransit
          /\ stock'[tag].state # "deleted" /\ stock'[tag].place = InTransit
          /\ stock'[tag].store = h.origin
    <2> SUFFICES ASSUME NEW tag \in Cargo(h)
                 PROVE  /\ stock[tag].place # InTransit
                        /\ stock'[tag].state # "deleted" /\ stock'[tag].place = InTransit
                        /\ stock'[tag].store = h.origin
      OBVIOUS
    <2>1. tag \in Tags
      BY DEF Cargo
    <2> QED
      BY <2>1, TagRow, NamesAssumption DEF Departs, Rows, InTransit
  <1>4. \A tag \in Tags \ Cargo(h) : stock'[tag] = stock[tag]
    BY DEF Departs
  <1>5. \A tag \in Tags, u \in Transfers : tag \in Cargo(transfers'[u]) =>
           /\ stock'[tag].state # "deleted" /\ stock'[tag].place = InTransit
           /\ stock'[tag].store = transfers'[u].origin
    <2> SUFFICES ASSUME NEW tag \in Tags, NEW u \in Transfers, tag \in Cargo(transfers'[u])
                 PROVE  /\ stock'[tag].state # "deleted" /\ stock'[tag].place = InTransit
                        /\ stock'[tag].store = transfers'[u].origin
      OBVIOUS
    <2>1. CASE u = t
      BY <1>1, <1>3, <2>1
    <2>2. CASE u # t
      <3>1. /\ tag \in Cargo(transfers[u]) /\ transfers'[u] = transfers[u]
            /\ stock[tag].state # "deleted" /\ stock[tag].place = InTransit
            /\ stock[tag].store = transfers[u].origin
        BY <1>1, <2>2 DEF TagsOK, Located
      <3> QED
        BY <1>3, <1>4, <3>1
    <2> QED
      BY <2>1, <2>2
  <1>6. \A tag \in Tags : stock'[tag].state # "deleted" /\ stock'[tag].place = InTransit =>
           \E u \in Transfers : tag \in Cargo(transfers'[u])
    <2> SUFFICES ASSUME NEW tag \in Tags, tag \notin Cargo(h),
                        stock'[tag].state # "deleted", stock'[tag].place = InTransit
                 PROVE  \E u \in Transfers : tag \in Cargo(transfers'[u])
      BY <1>1
    <2>1. PICK u \in Transfers : tag \in Cargo(transfers[u])
      BY <1>4 DEF TagsOK, Located
    <2> QED
      BY <1>1, <1>2, <2>1
  <1> QED
    BY <1>1, <1>5, <1>6, TagsOKNext

LEMMA UnloadsKeeps ==
  ASSUME IInv, TagsOK, NEW t, NEW h, NEW items, NEW how, Unloads(t, h, items, how)
  PROVE  TagsOK'
  <1>1. /\ t \in Transfers /\ transfers'[t] = h
        /\ \A u \in Transfers \ {t} : transfers'[u] = transfers[u]
        /\ \A u \in Transfers : TagSound(transfers'[u])
    BY Replaced DEF Unloads, Replaces, IInv
  <1>2. /\ items \subseteq Cargo(transfers[t]) /\ Cargo(h) = Cargo(transfers[t]) \ items
        /\ h.origin = transfers[t].origin
    BY DEF Unloads
  <1>3. \A tag \in items : stock'[tag].place # InTransit \/ stock'[tag].state = "deleted"
    <2> SUFFICES ASSUME NEW tag \in items
                 PROVE  stock'[tag].place # InTransit \/ stock'[tag].state = "deleted"
      OBVIOUS
    <2>1. tag \in Tags
      BY <1>2 DEF Cargo
    <2>2. stock[tag] \in Rows /\ InTransit \notin Places
      BY <2>1, TagRow, NamesAssumption DEF IInv, InTransit
    <2>3. \/ \E p \in Places :
               stock'[tag] = [stock[tag] EXCEPT !.store = transfers[t].dest, !.place = p]
          \/ \E p \in Places : stock'[tag] = [stock[tag] EXCEPT !.place = p]
          \/ stock'[tag] = [stock[tag] EXCEPT !.state = "deleted"]
      BY <2>1 DEF Unloads
    <2>4. ASSUME NEW p \in Places, NEW s,
                 \/ stock'[tag] = [stock[tag] EXCEPT !.store = s, !.place = p]
                 \/ stock'[tag] = [stock[tag] EXCEPT !.place = p]
          PROVE  stock'[tag].place # InTransit
      <3>1. stock'[tag].place = p
        BY ONLY <2>2, <2>4 DEF Rows
      <3> QED
        BY ONLY <2>2, <2>4, <3>1
    <2>5. stock'[tag] = [stock[tag] EXCEPT !.state = "deleted"] => stock'[tag].state = "deleted"
      BY ONLY <2>2 DEF Rows
    <2> QED
      BY ONLY <2>3, <2>4, <2>5
  <1>4. \A tag \in Tags \ items : stock'[tag] = stock[tag]
    BY DEF Unloads
  <1>5. \A tag \in Tags, u \in Transfers : tag \in Cargo(transfers'[u]) =>
           /\ stock'[tag].state # "deleted" /\ stock'[tag].place = InTransit
           /\ stock'[tag].store = transfers'[u].origin
    <2> SUFFICES ASSUME NEW tag \in Tags, NEW u \in Transfers, tag \in Cargo(transfers'[u])
                 PROVE  /\ stock'[tag].state # "deleted" /\ stock'[tag].place = InTransit
                        /\ stock'[tag].store = transfers'[u].origin
      OBVIOUS
    <2>1. tag \in Cargo(transfers[u]) /\ transfers'[u].origin = transfers[u].origin
      BY <1>1, <1>2
    <2>2. tag \notin items
      BY <1>1, <1>2, <2>1, OneCarrier DEF IInv
    <2>3. /\ stock[tag].state # "deleted" /\ stock[tag].place = InTransit
          /\ stock[tag].store = transfers[u].origin
      BY <2>1 DEF TagsOK, Located
    <2> QED
      BY <1>4, <2>1, <2>2, <2>3
  <1>6. \A tag \in Tags : stock'[tag].state # "deleted" /\ stock'[tag].place = InTransit =>
           \E u \in Transfers : tag \in Cargo(transfers'[u])
    <2> SUFFICES ASSUME NEW tag \in Tags, stock'[tag].state # "deleted", stock'[tag].place = InTransit
                 PROVE  \E u \in Transfers : tag \in Cargo(transfers'[u])
      OBVIOUS
    <2>1. tag \notin items
      BY <1>3
    <2>2. PICK u \in Transfers : tag \in Cargo(transfers[u])
      BY <1>4, <2>1 DEF TagsOK, Located
    <2> QED
      BY <1>1, <1>2, <2>1, <2>2
  <1> QED
    BY <1>1, <1>5, <1>6, TagsOKNext

LEMMA SellsKeeps ==
  ASSUME TypeOK, TagsOK, NEW items, Sells(items)
  PROVE  TagsOK'
  <1>1. transfers' = transfers /\ \A u \in Transfers : TagSound(transfers'[u])
    BY DEF Sells, TagsOK
  <1>2. \A tag \in Tags : /\ stock'[tag].place = stock[tag].place
                          /\ stock'[tag].store = stock[tag].store
                          /\ stock'[tag].state # "deleted" <=> stock[tag].state # "deleted"
    BY TagRow DEF Sells, Rows
  <1>3. Located
    BY DEF TagsOK
  <1> QED
    BY <1>1, <1>2, <1>3, TagsOKNext DEF Located

(***************************************************************************)
(* Every step is a TagStep: drafts, dispatch and the cancelling of a draft. *)
(***************************************************************************)
\* An EPC that is available is in the store, or in none, and not in transit:
\* a transfer that has it outstanding would block it.
LEMMA AvailableTag ==
  ASSUME IInv, TagsOK, NEW tag \in Tags, NEW q, q.what = tag, q.qty = 1,
         NEW t \in Transfers, transfers[t].status \notin Travelling,
         NEW origin, Available(q, t, origin)
  PROVE  /\ tag \in Oldest(Select(tag, OwnStores(tag, origin), q.at), 1)
         /\ stock[tag].state = "in_stock" /\ stock[tag].store \in {origin, NoStore}
         /\ stock[tag].place \in Places /\ stock[tag].place \in q.at
  <1> DEFINE rows == Select(tag, OwnStores(tag, origin), q.at)
  <1>1. Cardinality(rows) >= 1 /\ ~Blocked(tag, t, origin)
    BY DEF Available
  <1>2. rows \subseteq {tag}
    BY TagSelection
  <1> HIDE DEF rows
  <1>3. tag \in rows /\ tag \in Oldest(rows, 1)
    BY <1>1, <1>2, TagFound
  <1>4. /\ stock[tag].state = "in_stock" /\ stock[tag].store \in {origin, NoStore}
        /\ stock[tag].place \in q.at
    BY <1>3, TagSelected DEF rows, OwnStores
  <1>5. \A u \in Transfers : tag \notin Cargo(transfers[u])
    BY <1>1 DEF Blocked, Names, Active, Cargo, Travelling
  <1>6. stock[tag].place # InTransit
    BY <1>4, <1>5 DEF TagsOK, Located
  <1>7. stock[tag].place \in Places
    BY <1>6, TagRow DEF IInv, Rows
  <1> QED
    BY <1>3, <1>4, <1>7 DEF rows

\* Giving rows to the origin, where the lines are available.
LEMMA AdoptedTags ==
  ASSUME IInv, TagsOK, NEW t \in Transfers, NEW h \in Headers,
         transfers' = [transfers EXCEPT ![t] = h], TagSound(h),
         h.status \notin Travelling, transfers[t].status \notin Travelling,
         ~HasLeft(h), ~HasLeft(transfers[t]), NEW s \in Stores, NEW ls,
         \A tag \in Tags, n \in DOMAIN ls : ls[n].what = tag => stock[tag].state = "in_stock",
         stock' = Adopted(ls, s)
  PROVE  TagStep
  <1> DEFINE items == {i \in Items : stock[i].store = NoStore /\ \E n \in DOMAIN ls : ls[n].what = i}
  <1>1. \A tag \in Tags :
          stock'[tag] = IF tag \in items THEN [stock[tag] EXCEPT !.store = s] ELSE stock[tag]
    BY DEF Adopted, Items
  <1>2. \A tag \in items \cap Tags : stock[tag].state = "in_stock" /\ stock[tag].store = NoStore
    OBVIOUS
  <1>3. items \in SUBSET Items
    OBVIOUS
  <1> HIDE DEF items
  <1>4. Adopts(t, h, items, s)
    BY <1>1, <1>2 DEF Adopts, Replaces
  <1> QED
    BY <1>3, <1>4 DEF TagStep

\* The line of a tag in a draft.
LEMMA NewLineOfTag ==
  ASSUME IInv, TagsOK, NEW q \in Requested, NEW t \in Transfers,
         transfers[t].status \notin Travelling, NEW origin, Available(q, t, origin)
  PROVE  /\ NewLine(q, origin).what = q.what /\ NewLine(q, origin).dispatched = 0
         /\ q.what \in Tags => /\ NewLine(q, origin).qty = 1
                               /\ NewLine(q, origin).from \in Places
                               /\ stock[q.what].state = "in_stock"
  <1> DEFINE first == CHOOSE i \in Oldest(Select(q.what, OwnStores(q.what, origin), q.at), 1) : TRUE
  <1>1. /\ NewLine(q, origin).what = q.what /\ NewLine(q, origin).dispatched = 0
        /\ NewLine(q, origin).qty = q.qty /\ NewLine(q, origin).from = stock[first].place
    BY DEF NewLine
  <1> HIDE DEF first
  <1>2. ASSUME q.what \in Tags
        PROVE  q.qty = 1 /\ stock[first].place \in Places /\ stock[q.what].state = "in_stock"
    <2>1. q.qty = 1
      BY <1>2, RowsAssumption DEF Requested
    <2>2. /\ q.what \in Oldest(Select(q.what, OwnStores(q.what, origin), q.at), 1)
          /\ stock[q.what].state = "in_stock" /\ stock[q.what].place \in Places
      BY <1>2, <2>1, AvailableTag
    <2>3. Oldest(Select(q.what, OwnStores(q.what, origin), q.at), 1) \subseteq {q.what}
      BY <1>2, TagSelection, OldestSubset
    <2>4. first = q.what
      BY <2>2, <2>3 DEF first
    <2> QED
      BY <2>1, <2>2, <2>4
  <1> QED
    BY <1>1, <1>2

LEMMA DraftTags ==
  ASSUME IInv, TagsOK, NEW t \in Transfers, transfers[t].status \in {"none", "DRAFT"},
         NEW origin \in Stores, NEW dest \in Stores, origin # dest,
         NEW asked \in Requests, Draft(t, origin, dest, asked)
  PROVE  TagStep
  <1>1. PICK h \in Headers :
          /\ transfers' = [transfers EXCEPT ![t] = h]
          /\ h.status = "DRAFT" /\ h.origin = origin /\ h.dest = dest
          /\ h.lines = [n \in DOMAIN asked |-> NewLine(asked[n], origin)]
    BY DraftHeader
  <1>2. PICK k \in Nat : asked \in [1..k -> Requested]
    BY BoundsAssumption DEF Requests
  <1>3. h.status \notin Travelling /\ transfers[t].status \notin Travelling
        /\ ~HasLeft(transfers[t])
    BY <1>1 DEF Travelling, TagsOK, TagSound
  <1>4. \A n \in DOMAIN asked : asked[n] \in Requested /\ Available(asked[n], t, origin)
    BY <1>2 DEF Draft
  <1>5. DOMAIN h.lines = DOMAIN asked
    BY <1>1
  <1>6. \A n \in DOMAIN asked :
          /\ h.lines[n].what = asked[n].what /\ h.lines[n].dispatched = 0
          /\ asked[n].what \in Tags => /\ h.lines[n].qty = 1 /\ h.lines[n].from \in Places
                                       /\ stock[asked[n].what].state = "in_stock"
    BY <1>1, <1>3, <1>4, NewLineOfTag
  <1>7. \A m, n \in DOMAIN asked :
          (asked[m].what \in Tags /\ asked[m].what = asked[n].what) => m = n
    BY RowsAssumption DEF Requests, Distinct
  <1>8. TagSound(h) /\ ~HasLeft(h)
    BY <1>1, <1>5, <1>6, <1>7 DEF TagSound, HasLeft
  <1>9. stock' = Adopted(asked, origin)
    BY DEF Draft
  <1>10. \A tag \in Tags, n \in DOMAIN asked : asked[n].what = tag => stock[tag].state = "in_stock"
    BY <1>6
  <1>11. transfers' = [transfers EXCEPT ![t] = h]
    BY <1>1
  <1> QED
    BY <1>3, <1>8, <1>9, <1>10, <1>11, AdoptedTags

LEMMA LineTyped ==
  ASSUME TypeOK, NEW t \in Transfers
  PROVE  \A n \in DOMAIN transfers[t].lines :
           transfers[t].lines[n] \in Lines /\ transfers[t].lines[n] \in Range(transfers[t].lines)
  <1>1. transfers[t].lines \in Seq(Lines)
    BY DEF TypeOK, Headers
  <1> QED
    BY <1>1, SeqIsFunction DEF Range

\* A draft that is still valid finds the rows of its tags.
LEMMA StillValidTag ==
  ASSUME IInv, TagsOK, NEW t \in Transfers, transfers[t].status = "DRAFT",
         NEW origin, StillValid(t, origin), NEW n \in DOMAIN transfers[t].lines,
         NEW tag \in Tags, transfers[t].lines[n].what = tag
  PROVE  /\ tag \in Oldest(Select(tag, OwnStores(tag, origin), {transfers[t].lines[n].from}), 1)
         /\ stock[tag].state = "in_stock" /\ stock[tag].store \in {origin, NoStore}
         /\ stock[tag].place \in Places
  <1> DEFINE l == transfers[t].lines[n]
             q == [what |-> l.what, qty |-> l.qty, at |-> {l.from}]
  <1>1. l \in Range(transfers[t].lines) /\ l.qty = 1
    BY LineTyped DEF IInv, TagsOK, TagSound
  <1>2. Available(q, t, origin) /\ q.what = tag /\ q.qty = 1 /\ q.at = {l.from}
    BY <1>1 DEF StillValid
  <1>3. transfers[t].status \notin Travelling
    BY DEF Travelling
  <1> HIDE DEF q
  <1> QED
    BY <1>2, <1>3, AvailableTag

LEMMA UpdateRouteTags ==
  ASSUME IInv, TagsOK, NEW t \in Transfers, NEW origin \in Stores, NEW dest \in Stores,
         UpdateRoute(t, origin, dest)
  PROVE  TagStep
  <1> DEFINE h == [transfers[t] EXCEPT !.origin = origin, !.dest = dest]
             ls == transfers[t].lines
  <1>1. /\ transfers[t] \in Headers /\ transfers[t].status = "DRAFT" /\ origin # dest
        /\ TagSound(transfers[t]) /\ StillValid(t, origin) /\ stock' = Adopted(ls, origin)
    BY DEF UpdateRoute, IInv, TypeOK, TagsOK
  <1>2. transfers' = [transfers EXCEPT ![t] = h]
    BY DEF UpdateRoute, IInv, TypeOK
  <1>3. /\ h \in Headers /\ h.status = "DRAFT" /\ h.lines = ls
        /\ h.origin = origin /\ h.dest = dest
    BY <1>1 DEF Headers
  <1> HIDE DEF h
  <1>4. TagSound(h) /\ ~HasLeft(h) /\ ~HasLeft(transfers[t])
    BY <1>1, <1>3 DEF TagSound, HasLeft
  <1>5. h.status \notin Travelling /\ transfers[t].status \notin Travelling
    BY <1>1, <1>3 DEF Travelling
  <1>6. \A tag \in Tags, n \in DOMAIN ls : ls[n].what = tag => stock[tag].state = "in_stock"
    BY <1>1, StillValidTag
  <1> QED
    BY <1>1, <1>2, <1>3, <1>4, <1>5, <1>6, AdoptedTags

LEMMA CancelDraftTags ==
  ASSUME IInv, TagsOK, NEW t \in Transfers, CancelDraft(t)
  PROVE  TagStep
  <1> DEFINE h == [transfers[t] EXCEPT !.status = "CANCELED"]
  <1>1. transfers[t] \in Headers /\ transfers[t].status = "DRAFT" /\ TagSound(transfers[t])
    BY DEF CancelDraft, IInv, TypeOK, TagsOK
  <1>2. transfers' = [transfers EXCEPT ![t] = h] /\ stock' = stock
    BY DEF CancelDraft, IInv, TypeOK
  <1>3. /\ h \in Headers /\ h.status = "CANCELED" /\ h.lines = transfers[t].lines
        /\ h.origin = transfers[t].origin /\ h.dest = transfers[t].dest
    BY <1>1 DEF Headers, Statuses
  <1> HIDE DEF h
  <1>4. TagSound(h) /\ ~HasLeft(h) /\ ~HasLeft(transfers[t]) /\ h.origin \in Stores
    BY <1>1, <1>3 DEF TagSound, HasLeft
  <1>5. h.status \notin Travelling /\ transfers[t].status \notin Travelling
    BY <1>1, <1>3 DEF Travelling
  <1>6. Adopts(t, h, {}, h.origin)
    BY <1>2, <1>3, <1>4, <1>5 DEF Adopts, Replaces
  <1> QED
    BY <1>3, <1>4, <1>6 DEF TagStep

LEMMA DispatchTags ==
  ASSUME IInv, TagsOK, NEW t \in Transfers, Dispatch(t)
  PROVE  TagStep
  <1> DEFINE old == transfers[t]
             lines == [n \in DOMAIN old.lines |->
                         [old.lines[n] EXCEPT !.dispatched = old.lines[n].qty]]
             h == [old EXCEPT !.status = "DISPATCHED", !.lines = lines]
             rows(l) == Oldest(Select(l.what, OwnStores(l.what, old.origin), {l.from}), l.qty)
             taken == UNION {rows(l) : l \in Range(old.lines)}
  <1>1. /\ old \in Headers /\ old.status = "DRAFT" /\ old.lines \in Seq(Lines)
        /\ old.lines # <<>> /\ TagSound(old) /\ Sound(old) /\ StillValid(t, old.origin)
    BY DEF Dispatch, IInv, TypeOK, Headers, TagsOK
  <1>2. \A n \in DOMAIN old.lines : old.lines[n] \in Lines /\ old.lines[n] \in Range(old.lines)
    BY LineTyped DEF IInv
  <1>3. \A n \in DOMAIN old.lines :
          /\ lines[n].what = old.lines[n].what /\ lines[n].qty = old.lines[n].qty
          /\ lines[n].from = old.lines[n].from /\ lines[n].dispatched = old.lines[n].qty
          /\ lines[n].dispatched > 0
          /\ Outstanding(lines[n]) = lines[n].dispatched
    BY <1>1, <1>2 DEF Lines, Sound, Outstanding
  <1>4. stock' = [i \in Items |-> IF i \in taken
                   THEN [stock[i] EXCEPT !.store = old.origin, !.place = InTransit] ELSE stock[i]]
    BY DEF Dispatch
  <1>5. transfers' = [transfers EXCEPT ![t] = h]
    BY DEF Dispatch, IInv, TypeOK
  <1>6. TypeOK'
    BY DispatchIInv DEF IInv
  <1>7. DOMAIN lines = DOMAIN old.lines /\ 1 \in DOMAIN old.lines
    BY <1>1
  <1> HIDE DEF lines
  <1>8. h \in Headers
    BY <1>5, <1>6 DEF TypeOK, IInv
  <1>9. h.status = "DISPATCHED" /\ h.lines = lines /\ h.origin = old.origin /\ h.dest = old.dest
    BY <1>1 DEF Headers
  <1> HIDE DEF h
  <1>10. TagSound(h) /\ HasLeft(h) /\ ~HasLeft(old) /\ h.origin \in Stores
    <2>1. HasLeft(h)
      BY <1>3, <1>7, <1>9 DEF HasLeft
    <2>2. /\ old.origin \in Stores /\ old.dest \in Stores /\ old.origin # old.dest /\ ~HasLeft(old)
          /\ \A n \in DOMAIN old.lines : old.lines[n].what \in Tags =>
               old.lines[n].qty = 1 /\ old.lines[n].from \in Places
          /\ \A m, n \in DOMAIN old.lines :
               (old.lines[m].what \in Tags /\ old.lines[m].what = old.lines[n].what) => m = n
      BY <1>1 DEF TagSound
    <2>3. \A n \in DOMAIN old.lines : old.lines[n].what \in Tags =>
               lines[n].qty = 1 /\ lines[n].from \in Places /\ lines[n].dispatched <= 1
      BY <1>3, <2>2
    <2> QED
      BY <1>3, <1>7, <1>9, <2>1, <2>2, <2>3 DEF TagSound
  <1>11. \A tag \in Tags : tag \in Cargo(h) <=> \E n \in DOMAIN old.lines : old.lines[n].what = tag
    BY <1>3, <1>7, <1>9 DEF Cargo, Travelling
  <1>12. ASSUME NEW tag \in Tags, NEW n \in DOMAIN old.lines, old.lines[n].what = tag
         PROVE  /\ tag \in taken /\ stock[tag].state = "in_stock" /\ stock[tag].place \in Places
                /\ stock[tag].store \in {old.origin, NoStore}
    <2>1. /\ tag \in Oldest(Select(tag, OwnStores(tag, old.origin), {old.lines[n].from}), 1)
          /\ stock[tag].state = "in_stock" /\ stock[tag].place \in Places
          /\ stock[tag].store \in {old.origin, NoStore}
      BY <1>1, <1>12, StillValidTag
    <2>2. old.lines[n].qty = 1
      BY <1>1, <1>12 DEF TagSound
    <2>3. tag \in rows(old.lines[n])
      BY <1>12, <2>1, <2>2
    <2> QED
      BY <1>2, <2>1, <2>3
  <1>13. ASSUME NEW tag \in Tags, tag \in taken
         PROVE  \E n \in DOMAIN old.lines : old.lines[n].what = tag
    <2>1. PICK n \in DOMAIN old.lines : tag \in rows(old.lines[n])
      BY <1>13 DEF Range
    <2>2. tag \in Select(old.lines[n].what, OwnStores(old.lines[n].what, old.origin), {old.lines[n].from})
      BY <2>1, OldestSubset
    <2>3. old.lines[n].what \in Tags \cup Skus
      BY <1>2 DEF Lines
    <2> QED
      BY <2>2, <2>3, TagSelected
  <1> HIDE DEF taken
  <1>14. \A tag \in Tags :
           IF tag \in Cargo(h)
           THEN /\ stock[tag].state = "in_stock" /\ stock[tag].place \in Places
                /\ stock[tag].store \in {h.origin, NoStore}
                /\ stock'[tag] = [stock[tag] EXCEPT !.store = h.origin, !.place = InTransit]
           ELSE stock'[tag] = stock[tag]
    BY <1>4, <1>9, <1>11, <1>12, <1>13 DEF Items
  <1>15. old.status \notin Travelling
    BY <1>1 DEF Travelling
  <1>16. Departs(t, h)
    BY <1>5, <1>8, <1>10, <1>14, <1>15 DEF Departs, Replaces
  <1> QED
    BY <1>8, <1>16 DEF TagStep

(***************************************************************************)
(* Every step is a TagStep: what is booked on a travelling transfer, its   *)
(* cancelling, and sales.                                                  *)
(***************************************************************************)
\* A tag that a travelling transfer names and that is in transit is aboard it.
LEMMA AboardHere ==
  ASSUME IInv, TagsOK, NEW t \in Transfers, transfers[t].status \in Travelling,
         NEW tag \in Tags, NEW n \in DOMAIN transfers[t].lines, transfers[t].lines[n].what = tag,
         stock[tag].state = "in_stock", stock[tag].place = InTransit
  PROVE  tag \in Cargo(transfers[t])
  <1>1. PICK u \in Transfers : tag \in Cargo(transfers[u])
    BY DEF TagsOK, Located
  <1>2. Names(t, tag) /\ Names(u, tag) /\ transfers[u].status \in Travelling
    BY <1>1 DEF Names, Cargo
  <1>3. t = u
    BY <1>2 DEF IInv, TagInOneOpenTransfer
  <1> QED
    BY <1>1, <1>3

\* A step that settles k[n] units of each line n.
Settling(t, h, k) ==
  /\ t \in Transfers /\ h \in Headers
  /\ transfers' = [transfers EXCEPT ![t] = h]
  /\ transfers[t].status \in Travelling
  /\ h.status \in Travelling \/ (h.status = "RECEIVED" /\ Settled(h.lines))
  /\ h.origin = transfers[t].origin /\ h.dest = transfers[t].dest
  /\ DOMAIN h.lines = DOMAIN transfers[t].lines
  /\ \A n \in DOMAIN h.lines :
       /\ h.lines[n].what = transfers[t].lines[n].what
       /\ h.lines[n].qty = transfers[t].lines[n].qty
       /\ h.lines[n].from = transfers[t].lines[n].from
       /\ h.lines[n].dispatched = transfers[t].lines[n].dispatched
       /\ k[n] \in Nat
       /\ Outstanding(h.lines[n]) = Outstanding(transfers[t].lines[n]) - k[n]

\* The tags of which something is settled.
Emptied(t, k) ==
  {tag \in Tags : \E n \in DOMAIN transfers[t].lines :
                    transfers[t].lines[n].what = tag /\ k[n] > 0}

LEMMA SettlingCargo ==
  ASSUME IInv, TagsOK, NEW t, NEW h, NEW k, Settling(t, h, k)
  PROVE  /\ Replaces(t, h)
         /\ HasLeft(h) <=> HasLeft(transfers[t])
         /\ h.origin = transfers[t].origin
         /\ Cargo(h) = Cargo(transfers[t]) \ Emptied(t, k)
         /\ transfers[t].dest \in Stores /\ transfers[t].dest # transfers[t].origin
  <1> DEFINE old == transfers[t]
             D == DOMAIN old.lines
  <1>1. t \in Transfers /\ TagSound(old) /\ old.status \in Travelling
    BY DEF Settling, TagsOK
  <1>2. /\ h \in Headers /\ transfers' = [transfers EXCEPT ![t] = h]
        /\ h.status \in Travelling \/ (h.status = "RECEIVED" /\ Settled(h.lines))
        /\ h.origin = old.origin /\ h.dest = old.dest /\ DOMAIN h.lines = D
    BY DEF Settling
  <1>3. \A n \in D :
          /\ h.lines[n].what = old.lines[n].what /\ h.lines[n].qty = old.lines[n].qty
          /\ h.lines[n].from = old.lines[n].from
          /\ h.lines[n].dispatched = old.lines[n].dispatched
          /\ k[n] \in Nat
          /\ Outstanding(h.lines[n]) = Outstanding(old.lines[n]) - k[n]
    BY <1>2 DEF Settling
  <1>4. h.status \notin {"none", "DRAFT"} /\ old.status \notin {"none", "DRAFT"}
    BY <1>1, <1>2 DEF Travelling
  <1>5. HasLeft(h) <=> HasLeft(old)
    BY <1>2, <1>3 DEF HasLeft
  <1>6. old.origin \in Stores /\ old.dest \in Stores /\ old.dest # old.origin
    BY <1>1, <1>4 DEF TagSound
  <1>7. TagSound(h)
    <2>1. \A n \in D : old.lines[n].what \in Tags =>
            old.lines[n].qty = 1 /\ old.lines[n].from \in Places /\ old.lines[n].dispatched <= 1
      BY <1>1 DEF TagSound
    <2>2. \A m, n \in D :
            (old.lines[m].what \in Tags /\ old.lines[m].what = old.lines[n].what) => m = n
      BY <1>1 DEF TagSound
    <2>3. \A n \in D : h.lines[n].what \in Tags =>
            h.lines[n].qty = 1 /\ h.lines[n].from \in Places /\ h.lines[n].dispatched <= 1
      BY <1>3, <2>1
    <2>4. \A m, n \in D :
            (h.lines[m].what \in Tags /\ h.lines[m].what = h.lines[n].what) => m = n
      BY <1>3, <2>2
    <2> QED
      BY <1>2, <1>4, <1>6, <2>3, <2>4 DEF TagSound
  <1>8. ASSUME NEW tag \in Tags
        PROVE  tag \in Cargo(h) <=> tag \in Cargo(old) /\ tag \notin Emptied(t, k)
    <2>1. tag \in Cargo(old) <=> \E n \in D : old.lines[n].what = tag /\ Outstanding(old.lines[n]) > 0
      BY <1>1 DEF Cargo
    <2>2. tag \in Emptied(t, k) <=> \E n \in D : old.lines[n].what = tag /\ k[n] > 0
      BY DEF Emptied
    <2>3. tag \in Cargo(h) <=> \E n \in D : h.lines[n].what = tag /\ Outstanding(h.lines[n]) > 0
      <3>1. CASE h.status \in Travelling
        BY <1>2, <3>1 DEF Cargo
      <3>2. CASE h.status = "RECEIVED" /\ Settled(h.lines)
        <4>1. \A n \in D : Outstanding(h.lines[n]) <= 0
          BY <1>2, <3>2 DEF Settled
        <4>2. \A n \in D : Outstanding(h.lines[n]) \in Int
          <5>1. h.lines \in Seq(Lines)
            BY <1>2 DEF Headers
          <5>2. \A n \in DOMAIN h.lines : h.lines[n] \in Lines
            BY <5>1, SeqIsFunction
          <5> QED
            BY ONLY <1>2, <5>2 DEF Lines, Outstanding
        <4>3. Cargo(h) = {}
          BY <3>2, NotTravelling DEF Travelling
        <4>4. \A n \in D : ~(Outstanding(h.lines[n]) > 0)
          BY ONLY <4>1, <4>2
        <4> QED
          BY ONLY <4>3, <4>4
      <3> QED
        BY <1>2, <3>1, <3>2
    <2>4. \A n \in D : Outstanding(old.lines[n]) \in Int
                       /\ (old.lines[n].what = tag => Outstanding(old.lines[n]) <= 1)
      <3>1. \A n \in D : old.lines[n] \in Lines
        BY <1>1, LineTyped DEF IInv
      <3>2. \A n \in D : old.lines[n].what = tag => old.lines[n].dispatched <= 1
        BY <1>1 DEF TagSound
      <3> QED
        BY <3>1, <3>2 DEF Lines, Outstanding
    <2>5. \A m, n \in D : old.lines[m].what = tag /\ old.lines[n].what = tag => m = n
      BY <1>1 DEF TagSound
    <2> HIDE DEF D
    <2> QED
      BY ONLY <1>3, <2>1, <2>2, <2>3, <2>4, <2>5
  <1>9. Cargo(h) \subseteq Tags /\ Cargo(old) \subseteq Tags
    BY DEF Cargo
  <1> QED
    BY <1>1, <1>2, <1>5, <1>6, <1>7, <1>8, <1>9 DEF Replaces

\* What the entries of a line of a tag find and take.
LEMMA EntryOfTag ==
  ASSUME IInv, TagsOK, NEW t \in Transfers, transfers[t].status \in Travelling,
         NEW b \in Batches(t), NEW n \in DOMAIN b, NEW tag \in Tags,
         transfers[t].lines[n].what = tag, Booked(b, n) > 0,
         NEW stores, Carried(t, b, n, stores)
  PROVE  /\ tag \in Chosen(t, b, n, stores)
         /\ stock[tag].state = "in_stock" /\ tag \in Cargo(transfers[t])
  <1> DEFINE l == transfers[t].lines[n]
             rows == OnTheWay(l, stores)
  <1>1. DOMAIN b = DOMAIN transfers[t].lines /\ l \in Lines
    BY BookedTyped DEF IInv
  <1>2. b[n][1] \in Nat /\ b[n][2] \in Nat /\ b[n][1] <= 1 /\ b[n][2] <= 1
    BY <1>1, BoundsAssumption DEF Batches
  <1>3. 1 \in Entries(b, n)
    BY <1>2 DEF Booked, Entries
  <1>4. Cardinality(rows) >= 1
    BY <1>3 DEF Carried
  <1>5. rows \subseteq {tag} /\ rows \subseteq Select(tag, stores, {InTransit})
    BY TagSelection DEF OnTheWay
  <1> HIDE DEF rows
  <1>6. tag \in rows /\ tag \in Oldest(rows, 1)
    BY <1>4, <1>5, TagFound
  <1>7. tag \in Chosen(t, b, n, stores)
    BY <1>3, <1>6 DEF Chosen, rows
  <1>8. stock[tag].state = "in_stock" /\ stock[tag].place = InTransit
    BY <1>5, <1>6, TagSelected
  <1> QED
    BY <1>1, <1>7, <1>8, AboardHere

LEMMA ChosenTag ==
  ASSUME IInv, NEW t \in Transfers, NEW b \in Batches(t), NEW n \in DOMAIN b,
         NEW tag \in Tags, NEW stores, tag \in Chosen(t, b, n, stores)
  PROVE  transfers[t].lines[n].what = tag /\ Booked(b, n) > 0
  <1> DEFINE l == transfers[t].lines[n]
  <1>1. PICK q \in Entries(b, n) : tag \in Oldest(OnTheWay(l, stores), q)
    BY DEF Chosen
  <1>2. tag \in Select(l.what, stores, {InTransit})
    BY <1>1, OldestSubset DEF OnTheWay
  <1>3. DOMAIN b = DOMAIN transfers[t].lines /\ l \in Lines
    BY BookedTyped DEF IInv
  <1>4. l.what = tag
    BY <1>2, <1>3, TagSelected DEF Lines
  <1>5. b[n][1] \in Nat /\ b[n][2] \in Nat
    BY <1>3, BoundsAssumption DEF Batches
  <1>6. Booked(b, n) > 0
    BY <1>1, <1>5 DEF Booked, Entries
  <1> QED
    BY <1>4, <1>6

\* The rows that a request takes for what it books on the lines.
Takes(t, b, k, stores, taken) ==
  /\ \A n \in DOMAIN b : k[n] = Booked(b, n)
  /\ \A n \in DOMAIN b : Carried(t, b, n, stores[n])
  /\ \A i \in Items : i \in taken <=> \E n \in DOMAIN b : i \in Chosen(t, b, n, stores[n])

\* The tags among them are those of which something is booked.
LEMMA TakenTags ==
  ASSUME IInv, TagsOK, NEW t \in Transfers, transfers[t].status \in Travelling,
         NEW b \in Batches(t), NEW k, NEW stores, NEW taken, Takes(t, b, k, stores, taken)
  PROVE  /\ Emptied(t, k) \subseteq Cargo(transfers[t])
         /\ \A tag \in Tags : /\ tag \in taken <=> tag \in Emptied(t, k)
                              /\ tag \in taken => stock[tag].state = "in_stock"
  <1>1. DOMAIN b = DOMAIN transfers[t].lines
    BY BookedTyped DEF IInv
  <1>2. ASSUME NEW tag \in Emptied(t, k)
        PROVE  tag \in taken /\ tag \in Cargo(transfers[t]) /\ stock[tag].state = "in_stock"
    <2>1. tag \in Tags /\ \E n \in DOMAIN b : transfers[t].lines[n].what = tag /\ Booked(b, n) > 0
      BY <1>1 DEF Emptied, Takes
    <2>2. PICK n \in DOMAIN b : transfers[t].lines[n].what = tag /\ Booked(b, n) > 0
      BY <2>1
    <2>3. Carried(t, b, n, stores[n])
      BY DEF Takes
    <2>4. /\ tag \in Chosen(t, b, n, stores[n])
          /\ stock[tag].state = "in_stock" /\ tag \in Cargo(transfers[t])
      BY <2>1, <2>2, <2>3, EntryOfTag
    <2>5. tag \in taken
      BY <2>1, <2>4 DEF Takes, Items
    <2> QED
      BY <2>4, <2>5
  <1>3. ASSUME NEW tag \in Tags, tag \in taken
        PROVE  tag \in Emptied(t, k)
    <2>1. PICK n \in DOMAIN b : tag \in Chosen(t, b, n, stores[n])
      BY <1>3 DEF Takes, Items
    <2>2. transfers[t].lines[n].what = tag /\ Booked(b, n) > 0
      BY <2>1, ChosenTag
    <2>3. k[n] = Booked(b, n)
      BY DEF Takes
    <2> QED
      BY <1>1, <2>2, <2>3 DEF Emptied
  <1> QED
    BY <1>2, <1>3

\* Rows are put down at a place of a store.
PutDown(items, s, place) ==
  stock' = [i \in Items |-> IF i \in items
             THEN [stock[i] EXCEPT !.store = s, !.place = place] ELSE stock[i]]

\* A reception settles what it books on the lines, and puts the rows it chose
\* down at the destination.
LEMMA ReceiveSettles ==
  ASSUME IInv, NEW t \in Transfers, NEW b \in Batches(t), NEW place \in Places,
         Receive(t, b, place)
  PROVE  \E h, k, stores, taken :
           /\ Settling(t, h, k) /\ Takes(t, b, k, stores, taken)
           /\ \A n \in DOMAIN b :
                stores[n] = OwnStores(transfers[t].lines[n].what, transfers[t].origin)
           /\ PutDown(taken, transfers[t].dest, place)
  <1> DEFINE old == transfers[t]
             lines == [n \in DOMAIN b |-> [old.lines[n] EXCEPT !.received = @ + Booked(b, n)]]
             status == StatusAfter(lines, "PARTIAL_RECEIVED")
             h == [old EXCEPT !.lines = lines, !.status = status]
             k == [n \in DOMAIN b |-> Booked(b, n)]
             stores == [n \in DOMAIN b |-> OwnStores(old.lines[n].what, old.origin)]
             taken == UNION {Chosen(t, b, n, stores[n]) : n \in DOMAIN b}
  <1>1. /\ DOMAIN b = DOMAIN old.lines
        /\ \A n \in DOMAIN b : Booked(b, n) \in Nat /\ old.lines[n] \in Lines
    BY BookedTyped DEF IInv
  <1>2. old \in Headers /\ old.status \in Travelling
    BY DEF Receive, IInv, TypeOK
  <1>3. \A n \in DOMAIN b :
          /\ lines[n].what = old.lines[n].what /\ lines[n].qty = old.lines[n].qty
          /\ lines[n].from = old.lines[n].from /\ lines[n].dispatched = old.lines[n].dispatched
          /\ Outstanding(lines[n]) = Outstanding(old.lines[n]) - Booked(b, n)
    BY <1>1 DEF Lines, Outstanding
  <1>4. transfers' = [transfers EXCEPT ![t] = h]
    BY DEF Receive, IInv, TypeOK
  <1>5. PutDown(taken, old.dest, place)
    BY DEF Receive, PutDown
  <1>6. \A n \in DOMAIN b : Carried(t, b, n, stores[n])
    BY DEF Receive
  <1>7. TypeOK'
    BY ReceiveIInv DEF IInv
  <1>8. DOMAIN lines = DOMAIN b
    OBVIOUS
  <1>s. \A n \in DOMAIN b : stores[n] = OwnStores(old.lines[n].what, old.origin)
    OBVIOUS
  <1> HIDE DEF lines, stores
  <1>9. h \in Headers
    BY <1>4, <1>7 DEF TypeOK, IInv
  <1>10. status \in Travelling \/ (status = "RECEIVED" /\ Settled(lines))
    BY DEF StatusAfter, Travelling
  <1>11. h.status = status /\ h.lines = lines /\ h.origin = old.origin /\ h.dest = old.dest
    BY <1>2 DEF Headers
  <1> HIDE DEF h, status, taken
  <1>12. \A n \in DOMAIN b : k[n] = Booked(b, n)
    OBVIOUS
  <1> HIDE DEF k
  <1>13. Settling(t, h, k)
    BY <1>1, <1>2, <1>3, <1>4, <1>8, <1>9, <1>10, <1>11, <1>12 DEF Settling
  <1>14. Takes(t, b, k, stores, taken)
    <2>1. \A i \in Items : i \in taken <=> \E n \in DOMAIN b : i \in Chosen(t, b, n, stores[n])
      BY DEF taken
    <2> QED
      BY <1>6, <1>12, <2>1 DEF Takes
  <1> QED
    BY ONLY <1>5, <1>13, <1>14, <1>s

LEMMA ReceiveTags ==
  ASSUME IInv, TagsOK, NEW t \in Transfers, NEW b \in Batches(t), NEW place \in Places,
         Receive(t, b, place)
  PROVE  TagStep
  <1> DEFINE old == transfers[t]
  <1>1. PICK h, k, stores, taken :
          /\ Settling(t, h, k) /\ Takes(t, b, k, stores, taken)
          /\ PutDown(taken, old.dest, place)
    BY ReceiveSettles
  <1>2. /\ Emptied(t, k) \subseteq Cargo(old)
        /\ \A tag \in Tags : /\ tag \in taken <=> tag \in Emptied(t, k)
                             /\ tag \in taken => stock[tag].state = "in_stock"
    BY <1>1, TakenTags DEF Settling
  <1>3. \A tag \in Tags : stock'[tag] =
          IF tag \in Emptied(t, k) THEN [stock[tag] EXCEPT !.store = old.dest, !.place = place] ELSE stock[tag]
    BY <1>1, <1>2 DEF Items, PutDown
  <1>4. /\ Replaces(t, h)
        /\ HasLeft(h) <=> HasLeft(old)
        /\ h.origin = old.origin
        /\ Cargo(h) = Cargo(old) \ Emptied(t, k)
        /\ old.dest \in Stores /\ old.dest # old.origin
    BY <1>1, SettlingCargo
  <1>5. Unloads(t, h, Emptied(t, k), "arrive")
    BY <1>2, <1>3, <1>4 DEF Unloads
  <1> QED
    BY <1>4, <1>5 DEF TagStep, Emptied, Replaces

\* A loss settles what it books on the lines, and deletes the rows it chose.
LEMMA ResolveLostSettles ==
  ASSUME IInv, NEW t \in Transfers, NEW b \in Batches(t), ResolveLost(t, b)
  PROVE  \E h, k, stores, taken :
           /\ Settling(t, h, k) /\ Takes(t, b, k, stores, taken)
           /\ \A n \in DOMAIN b :
                stores[n] = LossStores(transfers[t].lines[n].what, transfers[t].origin)
           /\ stock' = [i \in Items |-> IF i \in taken
                THEN [stock[i] EXCEPT !.state = "deleted"] ELSE stock[i]]
  <1> DEFINE old == transfers[t]
             lines == [n \in DOMAIN b |-> [old.lines[n] EXCEPT !.lost = @ + Booked(b, n)]]
             status == StatusAfter(lines, old.status)
             h == [old EXCEPT !.lines = lines, !.status = status]
             k == [n \in DOMAIN b |-> Booked(b, n)]
             stores == [n \in DOMAIN b |-> LossStores(old.lines[n].what, old.origin)]
             taken == UNION {Chosen(t, b, n, stores[n]) : n \in DOMAIN b}
  <1>1. /\ DOMAIN b = DOMAIN old.lines
        /\ \A n \in DOMAIN b : Booked(b, n) \in Nat /\ old.lines[n] \in Lines
    BY BookedTyped DEF IInv
  <1>2. old \in Headers /\ old.status \in Travelling
    BY DEF ResolveLost, IInv, TypeOK
  <1>3. \A n \in DOMAIN b :
          /\ lines[n].what = old.lines[n].what /\ lines[n].qty = old.lines[n].qty
          /\ lines[n].from = old.lines[n].from /\ lines[n].dispatched = old.lines[n].dispatched
          /\ Outstanding(lines[n]) = Outstanding(old.lines[n]) - Booked(b, n)
    BY <1>1 DEF Lines, Outstanding
  <1>4. transfers' = [transfers EXCEPT ![t] = h]
    BY DEF ResolveLost, IInv, TypeOK
  <1>5. stock' = [i \in Items |-> IF i \in taken
                   THEN [stock[i] EXCEPT !.state = "deleted"] ELSE stock[i]]
    BY DEF ResolveLost, Deleted
  <1>6. \A n \in DOMAIN b : Carried(t, b, n, stores[n])
    BY DEF ResolveLost
  <1>7. TypeOK'
    BY ResolveLostIInv DEF IInv
  <1>8. DOMAIN lines = DOMAIN b
    OBVIOUS
  <1>s. \A n \in DOMAIN b : stores[n] = LossStores(old.lines[n].what, old.origin)
    OBVIOUS
  <1> HIDE DEF lines, stores
  <1>9. h \in Headers
    BY <1>4, <1>7 DEF TypeOK, IInv
  <1>10. status \in Travelling \/ (status = "RECEIVED" /\ Settled(lines))
    BY <1>2 DEF StatusAfter
  <1>11. h.status = status /\ h.lines = lines /\ h.origin = old.origin /\ h.dest = old.dest
    BY <1>2 DEF Headers
  <1> HIDE DEF h, status, taken
  <1>12. \A n \in DOMAIN b : k[n] = Booked(b, n)
    OBVIOUS
  <1> HIDE DEF k
  <1>13. Settling(t, h, k)
    BY <1>1, <1>2, <1>3, <1>4, <1>8, <1>9, <1>10, <1>11, <1>12 DEF Settling
  <1>14. Takes(t, b, k, stores, taken)
    <2>1. \A i \in Items : i \in taken <=> \E n \in DOMAIN b : i \in Chosen(t, b, n, stores[n])
      BY DEF taken
    <2> QED
      BY <1>6, <1>12, <2>1 DEF Takes
  <1> QED
    BY ONLY <1>5, <1>13, <1>14, <1>s

LEMMA ResolveLostTags ==
  ASSUME IInv, TagsOK, NEW t \in Transfers, NEW b \in Batches(t), ResolveLost(t, b)
  PROVE  TagStep
  <1> DEFINE old == transfers[t]
  <1>1. PICK h, k, stores, taken :
          /\ Settling(t, h, k) /\ Takes(t, b, k, stores, taken)
          /\ stock' = [i \in Items |-> IF i \in taken
               THEN [stock[i] EXCEPT !.state = "deleted"] ELSE stock[i]]
    BY ResolveLostSettles
  <1>2. /\ Emptied(t, k) \subseteq Cargo(old)
        /\ \A tag \in Tags : /\ tag \in taken <=> tag \in Emptied(t, k)
                             /\ tag \in taken => stock[tag].state = "in_stock"
    BY <1>1, TakenTags DEF Settling
  <1>3. \A tag \in Tags : stock'[tag] =
          IF tag \in Emptied(t, k) THEN [stock[tag] EXCEPT !.state = "deleted"] ELSE stock[tag]
    BY <1>1, <1>2 DEF Items
  <1>4. /\ Replaces(t, h)
        /\ HasLeft(h) <=> HasLeft(old)
        /\ h.origin = old.origin
        /\ Cargo(h) = Cargo(old) \ Emptied(t, k)
        /\ old.dest \in Stores /\ old.dest # old.origin
    BY <1>1, SettlingCargo
  <1>5. Unloads(t, h, Emptied(t, k), "lose")
    BY <1>2, <1>3, <1>4 DEF Unloads
  <1> QED
    BY <1>4, <1>5 DEF TagStep, Emptied, Replaces

\* A step that books nothing as received or lost leaves the tags where they are.
LEMMA NothingSettled ==
  ASSUME IInv, TagsOK, NEW t, NEW h, Settling(t, h, [n \in DOMAIN h.lines |-> 0]), UNCHANGED stock
  PROVE  TagStep
  <1> DEFINE k == [n \in DOMAIN h.lines |-> 0]
  <1>1. t \in Transfers /\ h \in Headers /\ DOMAIN h.lines = DOMAIN transfers[t].lines
    BY DEF Settling
  <1>2. Emptied(t, k) = {}
    BY <1>1 DEF Emptied
  <1> HIDE DEF k
  <1>3. Settling(t, h, k)
    BY DEF k
  <1>4. Unloads(t, h, {}, "lose")
    <2>1. /\ Replaces(t, h)
          /\ HasLeft(h) <=> HasLeft(transfers[t])
          /\ h.origin = transfers[t].origin /\ Cargo(h) = Cargo(transfers[t]) \ {}
      BY <1>2, <1>3, SettlingCargo
    <2> QED
      BY <2>1 DEF Unloads
  <1> QED
    BY <1>1, <1>4 DEF TagStep

\* A report of shortages settles nothing.
LEMMA ReportShortagesSettles ==
  ASSUME IInv, NEW t \in Transfers, NEW b \in Batches(t), ReportShortages(t, b)
  PROVE  \E h : Settling(t, h, [n \in DOMAIN h.lines |-> 0]) /\ UNCHANGED stock
  <1> DEFINE old == transfers[t]
             lines == [n \in DOMAIN b |-> [old.lines[n] EXCEPT !.reported = @ + Booked(b, n)]]
             h == [old EXCEPT !.lines = lines]
  <1>1. /\ DOMAIN b = DOMAIN old.lines
        /\ \A n \in DOMAIN b : Booked(b, n) \in Nat /\ old.lines[n] \in Lines
    BY BookedTyped DEF IInv
  <1>2. old \in Headers /\ old.status \in Travelling /\ UNCHANGED stock
    BY DEF ReportShortages, IInv, TypeOK
  <1>3. \A n \in DOMAIN b :
          /\ lines[n].what = old.lines[n].what /\ lines[n].qty = old.lines[n].qty
          /\ lines[n].from = old.lines[n].from /\ lines[n].dispatched = old.lines[n].dispatched
          /\ Outstanding(lines[n]) = Outstanding(old.lines[n]) - 0
    BY <1>1 DEF Lines, Outstanding
  <1>4. transfers' = [transfers EXCEPT ![t] = h]
    BY DEF ReportShortages, IInv, TypeOK
  <1>5. TypeOK'
    BY ReportShortagesIInv DEF IInv
  <1>6. DOMAIN lines = DOMAIN b
    OBVIOUS
  <1> HIDE DEF lines
  <1>7. h \in Headers
    BY <1>4, <1>5 DEF TypeOK, IInv
  <1>8. h.status = old.status /\ h.lines = lines /\ h.origin = old.origin /\ h.dest = old.dest
    BY <1>2 DEF Headers
  <1> HIDE DEF h
  <1>9. Settling(t, h, [n \in DOMAIN h.lines |-> 0])
    BY <1>1, <1>2, <1>3, <1>4, <1>6, <1>7, <1>8 DEF Settling
  <1> QED
    BY <1>2, <1>9

\* Nor does finding the units.
LEMMA ResolveFoundSettles ==
  ASSUME IInv, NEW t \in Transfers, NEW b \in Batches(t), ResolveFound(t, b)
  PROVE  \E h : Settling(t, h, [n \in DOMAIN h.lines |-> 0]) /\ UNCHANGED stock
  <1> DEFINE old == transfers[t]
             lines == [n \in DOMAIN b |-> [old.lines[n] EXCEPT !.found = @ + Booked(b, n)]]
             status == StatusAfter(lines, old.status)
             h == [old EXCEPT !.lines = lines, !.status = status]
  <1>1. /\ DOMAIN b = DOMAIN old.lines
        /\ \A n \in DOMAIN b : Booked(b, n) \in Nat /\ old.lines[n] \in Lines
    BY BookedTyped DEF IInv
  <1>2. old \in Headers /\ old.status \in Travelling /\ UNCHANGED stock
    BY DEF ResolveFound, IInv, TypeOK
  <1>3. \A n \in DOMAIN b :
          /\ lines[n].what = old.lines[n].what /\ lines[n].qty = old.lines[n].qty
          /\ lines[n].from = old.lines[n].from /\ lines[n].dispatched = old.lines[n].dispatched
          /\ Outstanding(lines[n]) = Outstanding(old.lines[n]) - 0
    BY <1>1 DEF Lines, Outstanding
  <1>4. transfers' = [transfers EXCEPT ![t] = h]
    BY DEF ResolveFound, IInv, TypeOK
  <1>5. TypeOK'
    BY ResolveFoundIInv DEF IInv
  <1>6. DOMAIN lines = DOMAIN b
    OBVIOUS
  <1> HIDE DEF lines
  <1>7. h \in Headers
    BY <1>4, <1>5 DEF TypeOK, IInv
  <1>8. status \in Travelling \/ (status = "RECEIVED" /\ Settled(lines))
    BY <1>2 DEF StatusAfter
  <1>9. h.status = status /\ h.lines = lines /\ h.origin = old.origin /\ h.dest = old.dest
    BY <1>2 DEF Headers
  <1> HIDE DEF h, status
  <1>10. Settling(t, h, [n \in DOMAIN h.lines |-> 0])
    BY <1>1, <1>2, <1>3, <1>4, <1>6, <1>7, <1>8, <1>9 DEF Settling
  <1> QED
    BY <1>2, <1>10

LEMMA CancelDispatchedTags ==
  ASSUME IInv, TagsOK, NEW t \in Transfers, CancelDispatched(t)
  PROVE  TagStep
  <1> DEFINE old == transfers[t]
             h == [old EXCEPT !.status = "CANCELED"]
             rows(l) == Oldest(OnTheWay(l, {old.origin}), l.qty)
             restored == UNION {rows(l) : l \in Range(old.lines)}
  <1>1. /\ old \in Headers /\ old.status \in Travelling /\ old.status = "DISPATCHED"
        /\ TagSound(old)
    BY DEF CancelDispatched, IInv, TypeOK, TagsOK, Travelling
  <1>2. \A n \in DOMAIN old.lines : old.lines[n] \in Lines /\ old.lines[n] \in Range(old.lines)
    BY LineTyped DEF IInv
  <1>3. transfers' = [transfers EXCEPT ![t] = h]
    BY DEF CancelDispatched, IInv, TypeOK
  <1>4. \A l \in Range(old.lines) : Cardinality(rows(l)) >= l.qty
    BY DEF CancelDispatched
  <1>5. PICK last \in [restored -> DOMAIN old.lines] :
          /\ \A i \in restored : i \in rows(old.lines[last[i]])
          /\ stock' = [i \in Items |->
               IF i \in restored
               THEN [stock[i] EXCEPT !.place = old.lines[last[i]].from] ELSE stock[i]]
    BY DEF CancelDispatched
  <1>6. /\ h \in Headers /\ h.status = "CANCELED" /\ h.lines = old.lines
        /\ h.origin = old.origin /\ h.dest = old.dest
    BY <1>1 DEF Headers, Statuses
  <1> HIDE DEF h
  <1>7. TagSound(h) /\ (HasLeft(h) <=> HasLeft(old)) /\ Cargo(h) = {}
    BY <1>1, <1>6, NotTravelling DEF TagSound, HasLeft, Travelling
  <1>8. ASSUME NEW tag \in Tags, NEW n \in DOMAIN old.lines, tag \in rows(old.lines[n])
        PROVE  /\ old.lines[n].what = tag /\ old.lines[n].from \in Places
               /\ stock[tag].state = "in_stock" /\ tag \in Cargo(old)
    <2>1. tag \in Select(old.lines[n].what, {old.origin}, {InTransit})
      BY <1>8, OldestSubset DEF OnTheWay
    <2>2. old.lines[n].what \in Tags \cup Skus
      BY <1>2 DEF Lines
    <2>3. /\ old.lines[n].what = tag /\ stock[tag].state = "in_stock"
          /\ stock[tag].place = InTransit
      BY <2>1, <2>2, TagSelected
    <2>4. old.lines[n].from \in Places
      BY <1>1, <2>3 DEF TagSound
    <2> QED
      BY <1>1, <2>3, <2>4, AboardHere
  <1>9. ASSUME NEW tag \in Cargo(old)
        PROVE  tag \in Tags /\ tag \in restored
    <2>1. PICK n \in DOMAIN old.lines : tag \in Tags /\ old.lines[n].what = tag
      BY DEF Cargo
    <2>2. old.lines[n].qty = 1
      BY <1>1, <2>1 DEF TagSound
    <2>3. Cardinality(rows(old.lines[n])) >= 1
      BY <1>2, <1>4, <2>2
    <2>4. rows(old.lines[n]) \subseteq {tag}
      BY <2>1, TagSelection, OldestSubset DEF OnTheWay
    <2>5. tag \in rows(old.lines[n])
      <3> DEFINE R == rows(old.lines[n])
      <3>1. Cardinality(R) >= 1 /\ R \subseteq {tag}
        BY <2>3, <2>4
      <3> HIDE DEF R
      <3>2. tag \in R
        BY <2>1, <3>1, TagFound
      <3> QED
        BY <3>2 DEF R
    <2> QED
      BY <1>2, <2>1, <2>5
  <1> HIDE DEF restored
  <1>10. \A tag \in Tags :
           IF tag \in Cargo(old)
           THEN /\ stock[tag].state = "in_stock"
                /\ \E p \in Places : stock'[tag] = [stock[tag] EXCEPT !.place = p]
           ELSE stock'[tag] = stock[tag]
    <2> SUFFICES ASSUME NEW tag \in Tags
                 PROVE  IF tag \in Cargo(old)
                        THEN /\ stock[tag].state = "in_stock"
                             /\ \E p \in Places : stock'[tag] = [stock[tag] EXCEPT !.place = p]
                        ELSE stock'[tag] = stock[tag]
      OBVIOUS
    <2>1. stock'[tag] = IF tag \in restored
                        THEN [stock[tag] EXCEPT !.place = old.lines[last[tag]].from] ELSE stock[tag]
      BY <1>5 DEF Items
    <2>2. ASSUME tag \in restored
          PROVE  /\ old.lines[last[tag]].from \in Places
                 /\ stock[tag].state = "in_stock" /\ tag \in Cargo(old)
      BY <1>5, <1>8, <2>2
    <2>3. tag \in Cargo(old) => tag \in restored
      BY <1>9
    <2> QED
      BY <2>1, <2>2, <2>3
  <1>11. Cargo(old) \subseteq Tags
    BY DEF Cargo
  <1>12. Unloads(t, h, Cargo(old), "return")
    BY <1>3, <1>6, <1>7, <1>10, <1>11 DEF Unloads, Replaces
  <1> QED
    BY <1>6, <1>11, <1>12 DEF TagStep

LEMMA SellTags ==
  ASSUME IInv, NEW what \in Tags \cup Skus, NEW store \in Stores, NEW place, Sell(what, store, place)
  PROVE  TagStep
  <1> DEFINE rows == Oldest(Select(what, {store}, {place}), 1)
             items == rows \cap Tags
  <1>1. /\ UNCHANGED transfers
        /\ stock' = [i \in Items |->
             IF i \in rows THEN [stock[i] EXCEPT !.state = "sold"] ELSE stock[i]]
    BY DEF Sell
  <1>2. \A tag \in items : /\ what = tag /\ stock[tag].state = "in_stock"
                           /\ stock[tag].store \in Stores
    BY OldestSubset, TagSelected
  <1> HIDE DEF rows
  <1>3. \A tag \in items : items = {tag}
    BY <1>2
  <1>4. Sells(items)
    BY <1>1, <1>2, <1>3 DEF Sells, Items
  <1> QED
    BY <1>4 DEF TagStep

(***************************************************************************)
(* Every step of the system, and the invariant about tags.                 *)
(***************************************************************************)
LEMMA NextTags ==
  ASSUME IInv, TagsOK, [Next]_vars
  PROVE  TagStep
  <1>1. ASSUME NEW t \in Transfers, NEW o \in Stores, NEW d \in Stores,
               \/ \E asked \in Requests : Create(t, o, d, asked) \/ UpdateLines(t, o, d, asked)
               \/ UpdateRoute(t, o, d)
        PROVE  TagStep
    BY <1>1, DraftTags, UpdateRouteTags DEF Create, UpdateLines
  <1>2. ASSUME NEW t \in Transfers, Dispatch(t) \/ CancelDraft(t) \/ CancelDispatched(t)
        PROVE  TagStep
    BY <1>2, DispatchTags, CancelDraftTags, CancelDispatchedTags
  <1>3. ASSUME NEW t \in Transfers, NEW b \in Batches(t),
               \/ \E p \in Places : Receive(t, b, p)
               \/ ReportShortages(t, b) \/ ResolveFound(t, b) \/ ResolveLost(t, b)
        PROVE  TagStep
    BY <1>3, ReceiveTags, ReportShortagesSettles, ResolveFoundSettles, ResolveLostTags,
       NothingSettled
  <1>4. ASSUME NEW w \in Tags \cup Skus, NEW s \in Stores, NEW p, Sell(w, s, p)
        PROVE  TagStep
    BY <1>4, SellTags
  <1>5. CASE UNCHANGED vars
    <2>1. Sells({})
      BY <1>5 DEF vars, Sells
    <2> QED
      BY <2>1 DEF TagStep
  <1> QED
    BY <1>1, <1>2, <1>3, <1>4, <1>5 DEF Next

LEMMA NextTagsOK == IInv /\ TagsOK /\ [Next]_vars => TagsOK'
  <1> SUFFICES ASSUME IInv, TagsOK, [Next]_vars PROVE TagsOK'
    OBVIOUS
  <1>1. TagStep
    BY NextTags
  <1> QED
    BY <1>1, AdoptsKeeps, DepartsKeeps, UnloadsKeeps, SellsKeeps DEF TagStep, IInv

LEMMA InitTagsOK == Init => TagsOK
  <1> SUFFICES ASSUME Init PROVE TagsOK
    OBVIOUS
  <1>1. \A t \in Transfers : transfers[t] = NoTransfer
    BY DEF Init
  <1>2. TagSound(NoTransfer) /\ Cargo(NoTransfer) = {}
    BY DEF NoTransfer, TagSound, HasLeft, Cargo, Travelling
  <1>3. \A tag \in Tags : stock[tag].place \in Places
    BY DEF Init, Items
  <1>4. \A tag \in Tags : stock[tag].place # InTransit
    BY <1>3, NamesAssumption DEF InTransit
  <1> QED
    BY <1>1, <1>2, <1>4 DEF TagsOK, Located

(***************************************************************************)
(* The refinement of Custody.                                              *)
(***************************************************************************)
\* The carrier of a tag is the transfer that has it outstanding.
CarriersOK ==
  /\ DOMAIN CarrierOf = Tags
  /\ \A tag \in Tags, t \in Transfers : tag \in Cargo(transfers[t]) => CarrierOf[tag] = t
  /\ \A tag \in Tags : (\A t \in Transfers : tag \notin Cargo(transfers[t])) => CarrierOf[tag] = NoStore

LEMMA CarriersAreRight == IInv /\ TagsOK => CarriersOK
  <1> SUFFICES ASSUME IInv, TagsOK PROVE CarriersOK
    OBVIOUS
  <1>1. ASSUME NEW tag \in Tags, NEW t \in Transfers, tag \in Cargo(transfers[t])
        PROVE  Carrier(tag) = t
    <2>1. Carrying(t, tag)
      BY <1>1, CargoIsCarried
    <2>2. stock[tag].state # "deleted" /\ stock[tag].place = InTransit
      BY <1>1 DEF TagsOK, Located
    <2>3. \A u \in Transfers : Carrying(u, tag) => u = t
      BY <1>1, CargoIsCarried, OneCarrier DEF IInv
    <2> QED
      BY <2>1, <2>2, <2>3 DEF Carrier
  <1>2. ASSUME NEW tag \in Tags, \A t \in Transfers : tag \notin Cargo(transfers[t])
        PROVE  Carrier(tag) = NoStore
    BY <1>2 DEF TagsOK, Located, Carrier
  <1> QED
    BY <1>1, <1>2 DEF CarriersOK, CarrierOf

\* Who carries a tag after a step.
LEMMA CarriersNext ==
  ASSUME CarriersOK'
  PROVE  /\ DOMAIN CarrierOf' = Tags
         /\ \A tag \in Tags, t \in Transfers : tag \in Cargo(transfers'[t]) => CarrierOf'[tag] = t
         /\ \A tag \in Tags : (\A t \in Transfers : tag \notin Cargo(transfers'[t])) =>
                                CarrierOf'[tag] = NoStore
  BY DEF CarriersOK, Cargo, Outstanding

LEMMA CarrierIsFunction == CarrierOf = [tag \in Tags |-> CarrierOf[tag]]
  BY DEF CarrierOf

\* The carriers that have left, by their headers.
LEMMA DepartedIs ==
  /\ Departed = {t \in Transfers : HasLeft(transfers[t])}
  /\ Departed' = {t \in Transfers : HasLeft(transfers'[t])}
  BY DEF Departed, HasLeft, Range

LEMMA AdoptsPromise ==
  ASSUME IInv, TagsOK, CarriersOK, CarriersOK', NEW t, NEW h, NEW items, NEW s,
         Adopts(t, h, items, s)
  PROVE  Promise!Adopt(items \cap Tags, s)
  <1> DEFINE I == items \cap Tags
  <1>1. /\ t \in Transfers /\ transfers'[t] = h
        /\ \A u \in Transfers \ {t} : transfers'[u] = transfers[u]
    BY Replaced DEF Adopts, Replaces, IInv
  <1>2. Cargo(h) = {} /\ Cargo(transfers[t]) = {} /\ s \in Stores
        /\ ~HasLeft(h) /\ ~HasLeft(transfers[t])
    BY NotTravelling DEF Adopts
  <1>3. \A u \in Transfers : /\ Cargo(transfers'[u]) = Cargo(transfers[u])
                             /\ HasLeft(transfers'[u]) <=> HasLeft(transfers[u])
    BY <1>1, <1>2
  <1>4. \A tag \in Tags : /\ stock'[tag].state = stock[tag].state
                          /\ stock'[tag].store = IF tag \in I THEN s ELSE stock[tag].store
    BY TagRow DEF Adopts, Rows, IInv
  <1>5. \A tag \in I : /\ stock[tag].state = "in_stock" /\ stock[tag].store = NoStore
                       /\ \A u \in Transfers : tag \notin Cargo(transfers[u])
    <2>1. \A tag \in I : stock[tag].state = "in_stock" /\ stock[tag].store = NoStore
      BY DEF Adopts
    <2>2. \A tag \in Tags, u \in Transfers : tag \in Cargo(transfers[u]) => stock[tag].store # NoStore
      BY NamesAssumption DEF TagsOK, Located, TagSound, Cargo, Travelling
    <2> QED
      BY <2>1, <2>2
  <1> HIDE DEF I
  <1>6. I \subseteq Tags
    BY DEF I
  <1>7. \A tag \in I : tag \in PresentTags /\ StoreOf[tag] = NoStore /\ CarrierOf[tag] = NoStore
    BY <1>5, <1>6 DEF PresentTags, StoreOf, CarriersOK
  <1>8. StoreOf' = [tag \in Tags |-> IF tag \in I THEN s ELSE StoreOf[tag]]
    BY <1>4 DEF StoreOf
  <1>9. \A tag \in Tags : CarrierOf'[tag] = CarrierOf[tag]
    BY <1>3, CarriersNext DEF CarriersOK
  <1>10. CarrierOf' = CarrierOf
    BY <1>9 DEF CarrierOf
  <1>11. PresentTags' = PresentTags
    BY <1>4 DEF PresentTags
  <1>12. Departed' = Departed
    BY <1>3, DepartedIs
  <1>13. Promise!Adopt(I, s)
    BY <1>7, <1>8, <1>10, <1>11, <1>12 DEF Promise!Adopt
  <1> QED
    BY <1>13 DEF I

LEMMA DepartsPromise ==
  ASSUME IInv, TagsOK, CarriersOK, CarriersOK', NEW t, NEW h, Departs(t, h)
  PROVE  Promise!Depart(t, Cargo(h), h.origin)
  <1> DEFINE I == Cargo(h)
  <1>1. /\ t \in Transfers /\ transfers'[t] = h
        /\ \A u \in Transfers \ {t} : transfers'[u] = transfers[u]
    BY Replaced DEF Departs, Replaces, IInv
  <1>2. Cargo(transfers[t]) = {} /\ HasLeft(h) /\ ~HasLeft(transfers[t]) /\ I \subseteq Tags
    BY NotTravelling DEF Departs, Cargo
  <1>3. \A tag \in Tags :
          IF tag \in I
          THEN /\ stock[tag].state = "in_stock" /\ stock[tag].place \in Places
               /\ stock[tag].store \in {h.origin, NoStore}
               /\ stock'[tag] = [stock[tag] EXCEPT !.store = h.origin, !.place = InTransit]
          ELSE stock'[tag] = stock[tag]
    BY DEF Departs
  <1> HIDE DEF I
  <1>4. \A tag \in Tags : /\ stock'[tag].state = stock[tag].state
                          /\ stock'[tag].store = IF tag \in I THEN h.origin ELSE stock[tag].store
    BY <1>3, TagRow DEF Rows, IInv
  <1>5. \A tag \in I, u \in Transfers : tag \notin Cargo(transfers[u])
    <2>1. \A tag \in I : stock[tag].place # InTransit
      BY <1>2, <1>3, NamesAssumption DEF InTransit
    <2> QED
      BY <1>2, <2>1 DEF TagsOK, Located
  <1>6. \A tag \in I : /\ tag \in PresentTags /\ CarrierOf[tag] = NoStore
                       /\ StoreOf[tag] \in {h.origin, NoStore}
    BY <1>2, <1>3, <1>5 DEF PresentTags, StoreOf, CarriersOK
  <1>7. StoreOf' = [tag \in Tags |-> IF tag \in I THEN h.origin ELSE StoreOf[tag]]
    BY <1>4 DEF StoreOf
  <1>8. \A tag \in Tags : CarrierOf'[tag] = IF tag \in I THEN t ELSE CarrierOf[tag]
    <2>1. \A tag \in I : CarrierOf'[tag] = t
      BY <1>1, <1>2, CarriersNext DEF I
    <2>2. \A tag \in Tags \ I, u \in Transfers : tag \in Cargo(transfers'[u]) <=> tag \in Cargo(transfers[u])
      BY <1>1, <1>2 DEF I
    <2>3. \A tag \in Tags \ I : CarrierOf'[tag] = CarrierOf[tag]
      BY <2>2, CarriersNext DEF CarriersOK
    <2> QED
      BY <2>1, <2>3
  <1>9. CarrierOf' = [tag \in Tags |-> IF tag \in I THEN t ELSE CarrierOf[tag]]
    BY <1>8 DEF CarrierOf
  <1>10. PresentTags' = PresentTags
    BY <1>4 DEF PresentTags
  <1>11. t \notin Departed /\ Departed' = Departed \cup {t}
    BY <1>1, <1>2, DepartedIs
  <1>12. Promise!Depart(t, I, h.origin)
    BY <1>6, <1>7, <1>9, <1>10, <1>11 DEF Promise!Depart
  <1> QED
    BY <1>12 DEF I

\* What an unloading does to the carriers: its tags have none.
LEMMA UnloadedCarriers ==
  ASSUME IInv, TagsOK, CarriersOK, CarriersOK', NEW t, NEW h, NEW items, NEW how,
         Unloads(t, h, items, how)
  PROVE  /\ items \subseteq Tags
         /\ \A tag \in items : tag \in PresentTags /\ CarrierOf[tag] = t
         /\ CarrierOf' = [tag \in Tags |-> IF tag \in items THEN NoStore ELSE CarrierOf[tag]]
         /\ Departed' = Departed
  <1>1. /\ t \in Transfers /\ transfers'[t] = h
        /\ \A u \in Transfers \ {t} : transfers'[u] = transfers[u]
    BY Replaced DEF Unloads, Replaces, IInv
  <1>2. /\ items \subseteq Cargo(transfers[t]) /\ Cargo(h) = Cargo(transfers[t]) \ items
        /\ items \subseteq Tags
    BY DEF Unloads, Cargo
  <1>3. \A tag \in items : stock[tag].state = "in_stock"
    BY <1>2 DEF Unloads
  <1>4. \A tag \in items : tag \in PresentTags /\ CarrierOf[tag] = t
    BY <1>1, <1>2, <1>3 DEF PresentTags, CarriersOK
  <1>5. \A tag \in items, u \in Transfers : tag \notin Cargo(transfers'[u])
    <2> SUFFICES ASSUME NEW tag \in items, NEW u \in Transfers, tag \in Cargo(transfers'[u])
                 PROVE  FALSE
      OBVIOUS
    <2>1. CASE u = t
      BY <1>1, <1>2, <2>1
    <2>2. CASE u # t
      BY <1>1, <1>2, <2>2, OneCarrier DEF IInv
    <2> QED
      BY <2>1, <2>2
  <1>6. \A tag \in Tags \ items, u \in Transfers :
          tag \in Cargo(transfers'[u]) <=> tag \in Cargo(transfers[u])
    BY <1>1, <1>2
  <1>7. \A tag \in Tags : CarrierOf'[tag] = IF tag \in items THEN NoStore ELSE CarrierOf[tag]
    <2>1. \A tag \in items : CarrierOf'[tag] = NoStore
      BY <1>2, <1>5, CarriersNext
    <2>2. \A tag \in Tags \ items : CarrierOf'[tag] = CarrierOf[tag]
      BY <1>6, CarriersNext DEF CarriersOK
    <2> QED
      BY <2>1, <2>2
  <1>8. CarrierOf' = [tag \in Tags |-> IF tag \in items THEN NoStore ELSE CarrierOf[tag]]
    BY <1>7 DEF CarrierOf
  <1>9. \A u \in Transfers : HasLeft(transfers'[u]) <=> HasLeft(transfers[u])
    BY <1>1 DEF Unloads
  <1>10. Departed' = Departed
    BY <1>9, DepartedIs
  <1> QED
    BY <1>2, <1>4, <1>8, <1>10

LEMMA UnloadsPromise ==
  ASSUME IInv, TagsOK, CarriersOK, CarriersOK', NEW t \in Transfers, NEW h,
         NEW items \in SUBSET Tags, NEW how \in {"arrive", "return", "lose"},
         Unloads(t, h, items, how)
  PROVE  Promise!Next
  <1>1. /\ \A tag \in items : tag \in PresentTags /\ CarrierOf[tag] = t
        /\ CarrierOf' = [tag \in Tags |-> IF tag \in items THEN NoStore ELSE CarrierOf[tag]]
        /\ Departed' = Departed
    BY UnloadedCarriers
  <1>2. \A tag \in Tags \ items : stock'[tag] = stock[tag]
    BY DEF Unloads
  <1>r. \A tag \in Tags : stock[tag] \in Rows
    BY TagRow DEF IInv
  <1>i. items \subseteq Tags
    OBVIOUS
  <1>a. Promise!Aboard(t, items) /\ Promise!Unload(items)
    BY <1>1 DEF Promise!Aboard, Promise!Unload
  <1>3. CASE how = "arrive"
    <2> DEFINE dest == transfers[t].dest
    <2>1. /\ dest \in Stores /\ dest # transfers[t].origin
          /\ items \subseteq Cargo(transfers[t])
          /\ \A tag \in items : \E p \in Places :
               stock'[tag] = [stock[tag] EXCEPT !.store = dest, !.place = p]
      BY <1>3 DEF Unloads
    <2>2. \A tag \in Tags : /\ stock'[tag].state = stock[tag].state
                            /\ stock'[tag].store = IF tag \in items THEN dest ELSE stock[tag].store
      <3> HIDE DEF dest
      <3>1. \A tag \in items : stock'[tag].state = stock[tag].state /\ stock'[tag].store = dest
        BY ONLY <1>r, <1>i, <2>1 DEF Rows
      <3> QED
        BY ONLY <1>2, <3>1
    <2>3. \A tag \in items : stock[tag].store = transfers[t].origin
      BY <2>1 DEF TagsOK, Located
    <2> HIDE DEF dest
    <2>4. \A tag \in items : StoreOf[tag] # dest
      BY <2>1, <2>3 DEF StoreOf
    <2>5. StoreOf' = [tag \in Tags |-> IF tag \in items THEN dest ELSE StoreOf[tag]]
      BY <2>2 DEF StoreOf
    <2>6. PresentTags' = PresentTags
      BY <2>2 DEF PresentTags
    <2>7. Promise!Arrive(t, items, dest)
      BY <1>1, <1>a, <2>4, <2>5, <2>6 DEF Promise!Arrive
    <2> QED
      BY <2>1, <2>7 DEF Promise!Next
  <1>4. CASE how = "return"
    <2>1. /\ items = Cargo(transfers[t])
          /\ \A tag \in items : \E p \in Places : stock'[tag] = [stock[tag] EXCEPT !.place = p]
      BY <1>4 DEF Unloads
    <2>2. \A tag \in Tags : /\ stock'[tag].state = stock[tag].state
                            /\ stock'[tag].store = stock[tag].store
      <3>1. \A tag \in items : /\ stock'[tag].state = stock[tag].state
                               /\ stock'[tag].store = stock[tag].store
        BY ONLY <1>r, <1>i, <2>1 DEF Rows
      <3> QED
        BY ONLY <1>2, <3>1
    <2>3. \A tag \in Tags \ items : CarrierOf[tag] # t
      BY <2>1, NamesAssumption DEF CarriersOK
    <2>4. StoreOf' = StoreOf
      BY <2>2 DEF StoreOf
    <2>5. PresentTags' = PresentTags
      BY <2>2 DEF PresentTags
    <2>6. Promise!Return(t)
      BY <1>1, <1>a, <2>3, <2>4, <2>5 DEF Promise!Return
    <2> QED
      BY <2>6 DEF Promise!Next
  <1>5. CASE how = "lose"
    <2>1. \A tag \in items : stock'[tag] = [stock[tag] EXCEPT !.state = "deleted"]
      BY <1>5 DEF Unloads
    <2>2. \A tag \in Tags : /\ stock'[tag].state = IF tag \in items THEN "deleted" ELSE stock[tag].state
                            /\ stock'[tag].store = stock[tag].store
      <3>1. \A tag \in items : stock'[tag].state = "deleted" /\ stock'[tag].store = stock[tag].store
        BY ONLY <1>r, <1>i, <2>1 DEF Rows
      <3> QED
        BY ONLY <1>2, <3>1
    <2>3. StoreOf' = StoreOf
      BY <2>2 DEF StoreOf
    <2>4. PresentTags' = PresentTags \ items
      BY <2>2 DEF PresentTags
    <2>5. Promise!Lose(t, items)
      BY <1>1, <1>a, <2>3, <2>4 DEF Promise!Lose
    <2> QED
      BY <2>5 DEF Promise!Next
  <1> QED
    BY <1>3, <1>4, <1>5

LEMMA SellsPromise ==
  ASSUME IInv, TagsOK, CarriersOK, CarriersOK', NEW items, Sells(items)
  PROVE  Promise!Next \/ UNCHANGED Promise!vars
  <1>1. transfers' = transfers
    BY DEF Sells
  <1>2. Departed' = Departed /\ \A tag \in Tags : CarrierOf'[tag] = CarrierOf[tag]
    <2>1. \A tag \in Tags : CarrierOf'[tag] = CarrierOf[tag]
      BY <1>1, CarriersNext DEF CarriersOK
    <2> QED
      BY <1>1, <2>1 DEF Departed
  <1>3. CarrierOf' = CarrierOf
    BY <1>2 DEF CarrierOf
  <1>4. CASE \A tag \in Tags : tag \notin items
    <2>1. \A tag \in Tags : stock'[tag] = stock[tag]
      BY <1>4 DEF Sells
    <2>2. StoreOf' = StoreOf /\ PresentTags' = PresentTags
      BY <2>1 DEF StoreOf, PresentTags
    <2> QED
      BY <1>2, <1>3, <2>2 DEF Promise!vars
  <1>5. ASSUME NEW tag \in Tags, tag \in items
        PROVE  Promise!Next
    <2>1. /\ items = {tag} /\ stock[tag].state = "in_stock" /\ stock[tag].store \in Stores
          /\ stock'[tag] = [stock[tag] EXCEPT !.state = "sold"]
      BY <1>5 DEF Sells
    <2>2. \A x \in Tags : /\ stock'[x].store = stock[x].store
                          /\ stock'[x].state = IF x = tag THEN "sold" ELSE stock[x].state
      <3>1. \A x \in Tags \ {tag} : stock'[x] = stock[x]
        BY <2>1 DEF Sells
      <3>2. stock[tag] \in Rows
        BY TagRow DEF IInv
      <3>3. stock'[tag].store = stock[tag].store /\ stock'[tag].state = "sold"
        BY ONLY <2>1, <3>2 DEF Rows
      <3> QED
        BY ONLY <3>1, <3>3
    <2>3. StoreOf' = StoreOf
      BY <2>2 DEF StoreOf
    <2>4. PresentTags' = PresentTags \ {tag}
      BY <2>2 DEF PresentTags
    <2>5. tag \in PresentTags /\ StoreOf[tag] # NoStore
      BY <2>1, NamesAssumption DEF PresentTags, StoreOf
    <2>6. Promise!Sell(tag)
      BY <1>2, <1>3, <2>3, <2>4, <2>5 DEF Promise!Sell
    <2> QED
      BY <2>6 DEF Promise!Next
  <1> QED
    BY <1>4, <1>5

\* Every step of transfers is a step of Custody, or one it does not see.
LEMMA NextPromise ==
  IInv /\ TagsOK /\ CarriersOK /\ CarriersOK' /\ [Next]_vars => [Promise!Next]_Promise!vars
  <1> SUFFICES ASSUME IInv, TagsOK, CarriersOK, CarriersOK', [Next]_vars
               PROVE  Promise!Next \/ UNCHANGED Promise!vars
    OBVIOUS
  <1>1. TagStep
    BY NextTags
  <1>2. ASSUME NEW t \in Transfers, NEW h \in Headers, NEW items \in SUBSET Items, NEW s \in Stores,
               Adopts(t, h, items, s)
        PROVE  Promise!Next
    <2>1. Promise!Adopt(items \cap Tags, s)
      BY <1>2, AdoptsPromise
    <2> QED
      BY <2>1 DEF Promise!Next
  <1>3. ASSUME NEW t \in Transfers, NEW h \in Headers, Departs(t, h)
        PROVE  Promise!Next
    <2>1. Promise!Depart(t, Cargo(h), h.origin)
      BY <1>3, DepartsPromise
    <2>2. h.origin \in Stores /\ Cargo(h) \in SUBSET Tags
      BY <1>3 DEF Departs, Cargo
    <2> QED
      BY <2>1, <2>2 DEF Promise!Next
  <1> QED
    BY <1>1, <1>2, <1>3, UnloadsPromise, SellsPromise DEF TagStep

LEMMA InitPromise == Init => Promise!Init
  <1> SUFFICES ASSUME Init PROVE Promise!Init
    OBVIOUS
  <1>1. \A tag \in Tags : /\ stock[tag].store \in Stores \cup {NoStore}
                          /\ stock[tag].place # InTransit /\ stock[tag].state = "in_stock"
    BY RowsAssumption, NamesAssumption DEF Init, Items, InTransit
  <1>2. StoreOf \in [Tags -> Stores \cup {NoStore}] /\ PresentTags = Tags
    BY <1>1 DEF StoreOf, PresentTags
  <1>3. CarrierOf = [tag \in Tags |-> NoStore]
    BY <1>1 DEF CarrierOf, Carrier
  <1>4. Departed = {}
    <2>1. ~HasLeft(NoTransfer)
      BY DEF HasLeft, NoTransfer
    <2> QED
      BY <2>1, DepartedIs DEF Init
  <1> QED
    BY <1>2, <1>3, <1>4 DEF Promise!Init

(***************************************************************************)
(* Lines of EPCs settle no more than they dispatched.                      *)
(***************************************************************************)

\* The lines of EPCs settle no more than they dispatched.
TagLines(h) ==
  \A n \in DOMAIN h.lines : h.lines[n].what \in Tags =>
    h.lines[n].received + h.lines[n].lost <= h.lines[n].dispatched

\* What is received or lost of an EPC was dispatched, in every transfer.
TagsWithinDispatched == \A t \in Transfers : TagLines(transfers[t])

\* A request books no more on the line of an EPC than is outstanding.
LEMMA OneTagBooked ==
  ASSUME IInv, TagsOK, TagsWithinDispatched, "repeat_line" \notin Client,
         NEW t \in Transfers, transfers[t].status \in Travelling,
         NEW b \in Batches(t), NEW n \in DOMAIN b, transfers[t].lines[n].what \in Tags,
         NEW stores, Carried(t, b, n, stores)
  PROVE  Booked(b, n) <= Outstanding(transfers[t].lines[n])
  <1> DEFINE l == transfers[t].lines[n]
  <1>1. DOMAIN b = DOMAIN transfers[t].lines /\ l \in Lines /\ Booked(b, n) \in Nat
    BY BookedTyped DEF IInv
  <1>2. b[n][1] \in Nat /\ b[n][1] <= 1 /\ b[n][2] = 0
    BY <1>1, BoundsAssumption DEF Batches
  <1>3. Booked(b, n) <= 1
    BY <1>2 DEF Booked
  <1>4. Outstanding(l) \in Int
    BY <1>1 DEF Lines, Outstanding
  <1>5. CASE Booked(b, n) = 0
    <2>1. l.received + l.lost <= l.dispatched
      BY <1>1 DEF TagsWithinDispatched, TagLines
    <2> QED
      BY <1>1, <1>5, <2>1 DEF Lines, Outstanding
  <1>6. CASE Booked(b, n) > 0
    <2>1. l.what \in Cargo(transfers[t])
      BY <1>6, EntryOfTag
    <2>2. PICK m \in DOMAIN transfers[t].lines :
            transfers[t].lines[m].what = l.what /\ Outstanding(transfers[t].lines[m]) > 0
      BY <2>1 DEF Cargo
    <2>3. m = n
      BY <1>1, <2>2 DEF TagsOK, TagSound
    <2>4. Outstanding(l) > 0
      BY <2>2, <2>3
    <2> QED
      BY <1>1, <1>3, <1>4, <2>4
  <1> QED
    BY <1>1, <1>5, <1>6

\* A step that replaces the header of one transfer.
LEMMA ReplacedTags ==
  ASSUME IInv, TagsWithinDispatched, NEW t \in Transfers, NEW h, TagLines(h),
         transfers' = [transfers EXCEPT ![t] = h]
  PROVE  TagsWithinDispatched'
  <1>1. \A u \in Transfers : TagLines(transfers'[u])
    BY DEF IInv, TypeOK, TagsWithinDispatched
  <1>2. (\A u \in Transfers : TagLines(transfers[u]))'
    BY <1>1 DEF TagLines
  <1> QED
    BY <1>2 DEF TagsWithinDispatched

\* A step that settles no more of an EPC than is outstanding.
LEMMA SettlingTags ==
  ASSUME IInv, TagsWithinDispatched, NEW t, NEW h, NEW k, Settling(t, h, k),
         \A n \in DOMAIN h.lines : h.lines[n].what \in Tags =>
           k[n] <= Outstanding(transfers[t].lines[n])
  PROVE  TagsWithinDispatched'
  <1>1. /\ t \in Transfers /\ h \in Headers /\ transfers' = [transfers EXCEPT ![t] = h]
        /\ DOMAIN h.lines = DOMAIN transfers[t].lines
        /\ \A n \in DOMAIN h.lines :
             /\ k[n] \in Nat
             /\ Outstanding(h.lines[n]) = Outstanding(transfers[t].lines[n]) - k[n]
    BY DEF Settling
  <1>2. ASSUME NEW n \in DOMAIN h.lines, h.lines[n].what \in Tags
        PROVE  h.lines[n].received + h.lines[n].lost <= h.lines[n].dispatched
    <2>1. h.lines \in Seq(Lines)
      BY <1>1 DEF Headers
    <2>2. h.lines[n] \in Lines /\ transfers[t].lines[n] \in Lines
      BY <1>1, <2>1, SeqIsFunction, LineTyped DEF IInv
    <2>3. k[n] <= Outstanding(transfers[t].lines[n])
      BY <1>2
    <2>4. Outstanding(transfers[t].lines[n]) \in Int
      BY <2>2 DEF Lines, Outstanding
    <2>5. Outstanding(h.lines[n]) >= 0
      BY <1>1, <2>3, <2>4
    <2> QED
      BY <2>2, <2>5 DEF Lines, Outstanding
  <1> QED
    BY <1>1, <1>2, ReplacedTags DEF TagLines

\* receive, and LOST_IN_ROUTE: what is booked on a line of an EPC was outstanding.
LEMMA TakingTags ==
  ASSUME IInv, TagsOK, TagsWithinDispatched, "repeat_line" \notin Client,
         NEW t \in Transfers, NEW b \in Batches(t),
         NEW h, NEW k, NEW stores, NEW taken, Settling(t, h, k), Takes(t, b, k, stores, taken)
  PROVE  TagsWithinDispatched'
  <1>1. /\ DOMAIN b = DOMAIN transfers[t].lines /\ DOMAIN h.lines = DOMAIN b
        /\ transfers[t].status \in Travelling
        /\ \A n \in DOMAIN b : h.lines[n].what = transfers[t].lines[n].what
    BY BookedTyped DEF IInv, Settling
  <1>2. \A n \in DOMAIN b : k[n] = Booked(b, n) /\ Carried(t, b, n, stores[n])
    BY DEF Takes
  <1>3. ASSUME NEW n \in DOMAIN h.lines, h.lines[n].what \in Tags
        PROVE  k[n] <= Outstanding(transfers[t].lines[n])
    BY <1>1, <1>2, <1>3, OneTagBooked
  <1> QED
    BY <1>3, SettlingTags

\* A report of a shortage, and FOUND_AND_RESEND, settle nothing.
LEMMA NothingTags ==
  ASSUME IInv, TagsWithinDispatched, NEW t, NEW h, Settling(t, h, [n \in DOMAIN h.lines |-> 0])
  PROVE  TagsWithinDispatched'
  <1> DEFINE k == [n \in DOMAIN h.lines |-> 0]
  <1>1. /\ t \in Transfers /\ DOMAIN h.lines = DOMAIN transfers[t].lines
        /\ \A n \in DOMAIN h.lines : k[n] = 0 /\ h.lines[n].what = transfers[t].lines[n].what
    BY DEF Settling
  <1> HIDE DEF k
  <1>2. Settling(t, h, k)
    BY DEF k
  <1>3. ASSUME NEW n \in DOMAIN h.lines, h.lines[n].what \in Tags
        PROVE  k[n] <= Outstanding(transfers[t].lines[n])
    <2>1. transfers[t].lines[n] \in Lines
      BY <1>1, LineTyped DEF IInv
    <2>2. transfers[t].lines[n].received + transfers[t].lines[n].lost <= transfers[t].lines[n].dispatched
      BY <1>1, <1>3 DEF TagsWithinDispatched, TagLines
    <2> QED
      BY <1>1, <2>1, <2>2 DEF Lines, Outstanding
  <1> QED
    BY <1>2, <1>3, SettlingTags

\* The lines of a draft have dispatched nothing.
LEMMA DraftTagLines ==
  ASSUME IInv, TagsWithinDispatched, NEW t \in Transfers,
         NEW origin \in Stores, NEW dest \in Stores, NEW asked \in Requests,
         Draft(t, origin, dest, asked)
  PROVE  TagsWithinDispatched'
  <1>1. PICK h \in Headers :
          /\ transfers' = [transfers EXCEPT ![t] = h] /\ Sound(h)
          /\ h.status = "DRAFT" /\ h.origin = origin /\ h.dest = dest
          /\ h.lines = [n \in DOMAIN asked |-> NewLine(asked[n], origin)]
    BY DraftHeader
  <1>2. \A n \in DOMAIN h.lines : /\ h.lines[n].received = 0 /\ h.lines[n].lost = 0
                                  /\ h.lines[n].dispatched = 0
    BY <1>1 DEF NewLine
  <1>3. TagLines(h)
    BY <1>2 DEF TagLines
  <1> QED
    BY <1>1, <1>3, ReplacedTags

\* A new route and a cancelling keep the lines.
LEMMA SameTagLines ==
  ASSUME IInv, TagsWithinDispatched, NEW t \in Transfers, NEW o, NEW d, NEW s,
         \/ transfers' = [transfers EXCEPT ![t].origin = o, ![t].dest = d]
         \/ transfers' = [transfers EXCEPT ![t].status = s]
  PROVE  TagsWithinDispatched'
  <1>1. transfers[t] \in Headers
    BY DEF IInv, TypeOK
  <1>2. PICK h : transfers' = [transfers EXCEPT ![t] = h] /\ h.lines = transfers[t].lines
    BY <1>1 DEF Headers
  <1>3. TagLines(h)
    BY <1>2 DEF TagsWithinDispatched, TagLines
  <1> QED
    BY <1>2, <1>3, ReplacedTags

\* dispatch replaces what a draft has dispatched, and nothing of it is settled.
LEMMA DispatchTagLines ==
  ASSUME IInv, TagsWithinDispatched, NEW t \in Transfers, Dispatch(t)
  PROVE  TagsWithinDispatched'
  <1> DEFINE old == transfers[t]
             lines == [n \in DOMAIN old.lines |->
                         [old.lines[n] EXCEPT !.dispatched = old.lines[n].qty]]
             h == [old EXCEPT !.status = "DISPATCHED", !.lines = lines]
  <1>1. old \in Headers /\ Sound(old) /\ old.status = "DRAFT"
    BY DEF Dispatch, IInv, TypeOK
  <1>2. \A n \in DOMAIN lines : /\ lines[n].received = 0 /\ lines[n].lost = 0
                                /\ lines[n].dispatched \in Nat
    BY <1>1, LineTyped DEF IInv, Sound, Lines
  <1>3. transfers' = [transfers EXCEPT ![t] = h]
    BY DEF Dispatch, IInv, TypeOK
  <1> HIDE DEF lines
  <1>4. h.lines = lines
    BY <1>1 DEF Headers
  <1> HIDE DEF h
  <1>5. TagLines(h)
    BY <1>2, <1>4 DEF TagLines
  <1> QED
    BY <1>3, <1>5, ReplacedTags

\* Every step, whatever transfers travel together.
LEMMA NextTagLines ==
  ASSUME "repeat_line" \notin Client, IInv, TagsOK, TagsWithinDispatched, [Next]_vars
  PROVE  TagsWithinDispatched'
  <1>1. ASSUME NEW t \in Transfers, NEW o \in Stores, NEW d \in Stores,
               \/ \E asked \in Requests : Create(t, o, d, asked) \/ UpdateLines(t, o, d, asked)
               \/ UpdateRoute(t, o, d)
        PROVE  TagsWithinDispatched'
    BY <1>1, DraftTagLines, SameTagLines DEF Create, UpdateLines, UpdateRoute
  <1>2. ASSUME NEW t \in Transfers, Dispatch(t) \/ CancelDraft(t) \/ CancelDispatched(t)
        PROVE  TagsWithinDispatched'
    BY <1>2, DispatchTagLines, SameTagLines DEF CancelDraft, CancelDispatched
  <1>3. ASSUME NEW t \in Transfers, NEW b \in Batches(t),
               \/ \E p \in Places : Receive(t, b, p)
               \/ ReportShortages(t, b) \/ ResolveFound(t, b) \/ ResolveLost(t, b)
        PROVE  TagsWithinDispatched'
    <2>1. ASSUME NEW p \in Places, Receive(t, b, p) PROVE TagsWithinDispatched'
      BY <2>1, ReceiveSettles, TakingTags
    <2>2. CASE ResolveLost(t, b)
      BY <2>2, ResolveLostSettles, TakingTags
    <2>3. CASE ReportShortages(t, b) \/ ResolveFound(t, b)
      BY <2>3, ReportShortagesSettles, ResolveFoundSettles, NothingTags
    <2> QED
      BY <1>3, <2>1, <2>2, <2>3
  <1>4. ASSUME transfers' = transfers
        PROVE  TagsWithinDispatched'
    BY <1>4 DEF TagsWithinDispatched, TagLines
  <1> QED
    BY <1>1, <1>2, <1>3, <1>4 DEF Next, Sell, vars

(***************************************************************************)
(* Counting.  Induction over the subsets of a finite set is by the         *)
(* smallest counterexample; a sum is the value of the fold that takes one  *)
(* element after the other out of a set.                                   *)
(***************************************************************************)
\* A set is larger than what is left when an element is taken out.
LEMMA Smaller ==
  ASSUME NEW s, IsFiniteSet(s), NEW x \in s
  PROVE  /\ IsFiniteSet(s \ {x})
         /\ Cardinality(s) \in Nat /\ Cardinality(s \ {x}) \in Nat
         /\ Cardinality(s \ {x}) = Cardinality(s) - 1
  BY FS_RemoveElement, FS_CardinalityType

\* Induction over the subsets of a finite set, as a property of the set of the
\* counterexamples: none is empty and none is the first, so there is none.
LEMMA SetInduction ==
  ASSUME NEW J, IsFiniteSet(J), NEW Bad \in SUBSET SUBSET J,
         {} \notin Bad,
         \A s \in Bad : \E x \in s : s \ {x} \in Bad
  PROVE  Bad = {}
  <1> SUFFICES ASSUME Bad # {} PROVE FALSE
    OBVIOUS
  <1>1. \A s \in Bad : IsFiniteSet(s)
    BY FS_Subset
  <1> DEFINE C == {Cardinality(s) : s \in Bad}
  <1>2. C \in SUBSET Nat /\ C # {}
    BY <1>1, FS_CardinalityType
  <1>3. PICK m \in C : \A k \in C : m <= k
    BY <1>2, LeastNatural
  <1>4. PICK s \in Bad : m = Cardinality(s)
    BY <1>3
  <1>5. PICK x \in s : s \ {x} \in Bad
    OBVIOUS
  <1>6. m <= Cardinality(s \ {x})
    BY <1>3, <1>5
  <1>7. /\ Cardinality(s) \in Nat /\ Cardinality(s \ {x}) \in Nat
        /\ Cardinality(s \ {x}) = Cardinality(s) - 1
    BY <1>1, Smaller
  <1> QED
    BY ONLY <1>4, <1>6, <1>7

\* A finite set of numbers has a largest one.
LEMMA HasMax ==
  ASSUME NEW J \in SUBSET Nat, IsFiniteSet(J), J # {}
  PROVE  \E m \in J : \A j \in J : j <= m
  <1> DEFINE Bad == {s \in SUBSET J : s # {} /\ ~ \E m \in s : \A j \in s : j <= m}
  <1>1. ASSUME NEW s \in Bad PROVE \E x \in s : s \ {x} \in Bad
    <2>1. PICK x \in s : TRUE
      OBVIOUS
    <2>2. CASE s \ {x} = {}
      BY <2>1, <2>2
    <2>3. ASSUME NEW m \in s \ {x}, \A j \in s \ {x} : j <= m PROVE FALSE
      <3>1. x \in Nat /\ m \in Nat /\ \A j \in s : j \in Nat
        BY <2>1
      <3>2. CASE m <= x
        <4>1. \A j \in s : j <= x
          BY <2>3, <3>1, <3>2
        <4> QED
          BY <2>1, <4>1
      <3>3. CASE x <= m
        BY <2>3, <3>1, <3>3
      <3> QED
        BY <3>1, <3>2, <3>3
    <2>4. s \ {x} \in Bad
      BY <2>2, <2>3
    <2> QED
      BY <2>4
  <1>2. {} \notin Bad /\ Bad \in SUBSET SUBSET J
    OBVIOUS
  <1>3. J \in Bad \/ \E m \in J : \A j \in J : j <= m
    OBVIOUS
  <1> HIDE DEF Bad
  <1> QED
    BY <1>1, <1>2, <1>3, SetInduction

\* A selection of the n oldest rows of J finds n, or all there are.
LEMMA OldestCount ==
  ASSUME NEW J \in SUBSET Nat, IsFiniteSet(J), NEW n \in Nat
  PROVE  /\ IsFiniteSet(Oldest(J, n))
         /\ Cardinality(Oldest(J, n)) = IF Cardinality(J) < n THEN Cardinality(J) ELSE n
  <1> DEFINE Good(s) == Cardinality(Oldest(s, n)) = IF Cardinality(s) < n THEN Cardinality(s) ELSE n
             Bad == {s \in SUBSET J : ~Good(s)}
  <1>f. \A s \in SUBSET J : IsFiniteSet(s) /\ IsFiniteSet(Oldest(s, n))
    BY FS_Subset DEF Oldest
  <1>1. {} \notin Bad
    <2>1. Oldest({}, n) = {}
      BY DEF Oldest
    <2> QED
      BY <2>1, FS_EmptySet
  <1>2. ASSUME NEW s \in Bad PROVE \E x \in s : s \ {x} \in Bad
    <2>1. s # {} /\ s \in SUBSET Nat /\ IsFiniteSet(s)
      BY <1>1, <1>2, <1>f
    <2>2. PICK m \in s : \A j \in s : j <= m
      BY <2>1, HasMax
    <2> DEFINE u == s \ {m}
    <2>3. /\ IsFiniteSet(u) /\ Cardinality(s) \in Nat /\ Cardinality(u) \in Nat
          /\ Cardinality(u) = Cardinality(s) - 1
      BY <2>1, Smaller
    <2>4. \A i \in u : {j \in s : j <= i} = {j \in u : j <= i}
      BY <2>1, <2>2
    <2>5. {j \in s : j <= m} = s
      BY <2>2
    <2>6. Oldest(s, n) = Oldest(u, n) \cup (IF Cardinality(u) < n THEN {m} ELSE {})
      <3>1. s = u \cup {m}
        BY <2>2
      <3>2. \A i \in u : Cardinality({j \in s : j <= i}) <= n <=> Cardinality({j \in u : j <= i}) <= n
        BY <2>4
      <3>3. Cardinality({j \in s : j <= m}) <= n <=> Cardinality(u) < n
        BY <2>3, <2>5
      <3>4. \A i \in s : i \in Oldest(s, n) <=> Cardinality({j \in s : j <= i}) <= n
        BY DEF Oldest
      <3>5. \A i \in u : i \in Oldest(u, n) <=> Cardinality({j \in u : j <= i}) <= n
        BY DEF Oldest
      <3>6. Oldest(s, n) \subseteq s /\ Oldest(u, n) \subseteq u
        BY DEF Oldest
      <3> HIDE DEF u
      <3>7. \A i \in u : i \in Oldest(s, n) <=> i \in Oldest(u, n)
        BY <3>1, <3>2, <3>4, <3>5
      <3>8. m \in Oldest(s, n) <=> Cardinality(u) < n
        BY <3>1, <3>3, <3>4
      <3>9. m \notin u
        BY DEF u
      <3> QED
        BY <3>1, <3>6, <3>7, <3>8, <3>9
    <2>7. m \notin Oldest(u, n) /\ IsFiniteSet(Oldest(u, n)) /\ u \in SUBSET J
      BY <1>f DEF Oldest
    <2>8. Cardinality(Oldest(s, n)) = Cardinality(Oldest(u, n)) + (IF Cardinality(u) < n THEN 1 ELSE 0)
      <3>1. CASE Cardinality(u) < n
        BY <2>6, <2>7, <3>1, FS_AddElement
      <3>2. CASE ~ (Cardinality(u) < n)
        <4>1. Cardinality(Oldest(u, n)) \in Nat /\ Oldest(s, n) = Oldest(u, n)
          BY <2>6, <2>7, <3>2, FS_CardinalityType
        <4> QED
          BY <3>2, <4>1
      <3> QED
        BY <3>1, <3>2
    <2>9. ~Good(s)
      BY <1>2
    <2> HIDE DEF u
    <2>10. ~Good(u)
      BY <2>3, <2>8, <2>9
    <2>11. u \in Bad
      BY <2>7, <2>10
    <2> QED
      BY <2>11 DEF u
  <1>3. Bad \in SUBSET SUBSET J
    OBVIOUS
  <1>4. J \in Bad \/ Good(J)
    OBVIOUS
  <1> HIDE DEF Bad
  <1> QED
    BY <1>1, <1>2, <1>3, <1>4, <1>f, SetInduction

\* The function that sums f over the subsets of I.
Pick(s) == CHOOSE i \in s : TRUE
FoldAt(g, f, s) == IF s = {} THEN 0 ELSE f[Pick(s)] + g[s \ {Pick(s)}]
IsFold(g, f, I) == g = [s \in SUBSET I |-> FoldAt(g, f, s)]

\* The recursion has a solution: up to sets of n elements, for every n.
Small(I, n) == {s \in SUBSET I : Cardinality(s) <= n}
IsPartFold(g, f, I, n) == g = [s \in Small(I, n) |-> FoldAt(g, f, s)]

\* If n were the least for which it had none, the one for n - 1 would extend.
LEMMA FoldExists ==
  ASSUME NEW f, NEW I, IsFiniteSet(I)
  PROVE  \E g : IsFold(g, f, I)
  <1> DEFINE Bad == {n \in Nat : ~ \E g : IsPartFold(g, f, I, n)}
  <1>f. \A s \in SUBSET I : IsFiniteSet(s) /\ Cardinality(s) \in Nat
    BY FS_Subset, FS_CardinalityType
  <1>1. Bad = {}
    <2> SUFFICES ASSUME Bad # {} PROVE FALSE
      OBVIOUS
    <2>1. PICK n \in Bad : \A k \in Bad : n <= k
      BY LeastNatural
    <2>2. \E g : IsPartFold(g, f, I, n)
      <3>1. CASE n = 0
        <4> DEFINE g == [s \in Small(I, 0) |-> 0]
        <4>1. \A s \in Small(I, 0) : s = {}
          BY <1>f, FS_EmptySet DEF Small
        <4>2. IsPartFold(g, f, I, 0)
          BY <4>1 DEF IsPartFold, FoldAt
        <4> QED
          BY <3>1, <4>2
      <3>2. CASE n # 0
        <4>1. n - 1 \in Nat /\ n - 1 \notin Bad
          BY <2>1, <3>2
        <4>2. PICK h : IsPartFold(h, f, I, n - 1)
          BY <4>1
        <4> DEFINE g == [s \in Small(I, n) |-> FoldAt(h, f, s)]
        <4>3. ASSUME NEW s \in Small(I, n)
              PROVE  FoldAt(h, f, s) = FoldAt(g, f, s)
          <5>1. CASE s = {}
            BY <5>1 DEF FoldAt
          <5>2. CASE s # {}
            <6>1. Pick(s) \in s
              BY <5>2 DEF Pick
            <6> DEFINE u == s \ {Pick(s)}
            <6>2. u \in Small(I, n - 1) /\ u \in Small(I, n)
              BY <1>f, <2>1, <6>1, Smaller DEF Small
            <6>3. h[u] = FoldAt(h, f, u)
              BY <4>2, <6>2 DEF IsPartFold
            <6>4. g[u] = FoldAt(h, f, u)
              BY <6>2
            <6> HIDE DEF g
            <6> QED
              BY <5>2, <6>3, <6>4 DEF FoldAt
          <5> QED
            BY <5>1, <5>2
        <4>4. IsPartFold(g, f, I, n)
          BY <4>3 DEF IsPartFold
        <4> QED
          BY <4>4
      <3> QED
        BY <3>1, <3>2
    <2> QED
      BY <2>1, <2>2
  <1>2. Cardinality(I) \in Nat
    BY <1>f
  <1>3. PICK g : IsPartFold(g, f, I, Cardinality(I))
    BY <1>1, <1>2
  <1>4. Small(I, Cardinality(I)) = SUBSET I
    BY FS_Subset DEF Small
  <1> QED
    BY <1>3, <1>4 DEF IsPartFold, IsFold

\* Zeros sum to zero.
LEMMA FoldZero ==
  ASSUME NEW f, NEW g, NEW I, IsFiniteSet(I), IsFold(g, f, I), \A x \in I : f[x] = 0
  PROVE  g[I] = 0
  <1> DEFINE Bad == {s \in SUBSET I : g[s] # 0}
  <1>1. \A s \in SUBSET I : g[s] = FoldAt(g, f, s)
    BY DEF IsFold
  <1>2. {} \notin Bad
    <2>1. {} \in SUBSET I /\ FoldAt(g, f, {}) = 0
      BY DEF FoldAt
    <2> QED
      BY <1>1, <2>1
  <1>3. ASSUME NEW s \in Bad PROVE \E x \in s : s \ {x} \in Bad
    <2>1. s # {} /\ Pick(s) \in s
      BY <1>2, <1>3 DEF Pick
    <2>2. g[s] = 0 + g[s \ {Pick(s)}]
      BY <1>1, <1>3, <2>1 DEF FoldAt
    <2>3. g[s \ {Pick(s)}] # 0
      BY <1>3, <2>2
    <2> QED
      BY <1>3, <2>1, <2>3
  <1>4. Bad \in SUBSET SUBSET I
    OBVIOUS
  <1>5. g[I] # 0 => I \in Bad
    OBVIOUS
  <1> HIDE DEF Bad
  <1> QED
    BY <1>2, <1>3, <1>4, <1>5, SetInduction

\* A sum of which one term only may differ from 0 is that term.
LEMMA FoldOne ==
  ASSUME NEW f, NEW g, NEW I, IsFiniteSet(I), IsFold(g, f, I), NEW y \in I,
         f[y] \in Int, \A x \in I \ {y} : f[x] = 0
  PROVE  g[I] = f[y]
  <1> DEFINE Value(s) == IF y \in s THEN f[y] ELSE 0
             Bad == {s \in SUBSET I : g[s] # Value(s)}
  <1>1. \A s \in SUBSET I : g[s] = FoldAt(g, f, s)
    BY DEF IsFold
  <1>2. {} \notin Bad
    <2>1. {} \in SUBSET I /\ FoldAt(g, f, {}) = 0
      BY DEF FoldAt
    <2> QED
      BY <1>1, <2>1
  <1>3. ASSUME NEW s \in Bad PROVE \E x \in s : s \ {x} \in Bad
    <2>1. s # {} /\ Pick(s) \in s /\ s \in SUBSET I
      BY <1>2, <1>3 DEF Pick
    <2> DEFINE p == Pick(s)
               u == s \ {p}
    <2>2. g[s] = f[p] + g[u]
      BY <1>1, <2>1 DEF FoldAt
    <2>3. u \in SUBSET I /\ p \in I /\ g[s] # Value(s)
      BY <1>3, <2>1
    <2>4. f[p] + Value(u) = Value(s)
      <3>1. p = y => y \notin u /\ y \in s /\ f[p] + 0 = f[y]
        BY <2>1
      <3>2. p # y => (y \in u <=> y \in s) /\ f[p] = 0
        BY <2>3
      <3> HIDE DEF u, p
      <3>3. CASE p = y
        BY <3>1, <3>3
      <3>4. CASE p # y
        BY <3>2, <3>4
      <3> QED
        BY <3>3, <3>4
    <2> HIDE DEF Value
    <2>5. g[u] # Value(u)
      BY <2>2, <2>3, <2>4
    <2> QED
      BY <2>1, <2>3, <2>5
  <1>4. Bad \in SUBSET SUBSET I
    OBVIOUS
  <1>5. g[I] # Value(I) => I \in Bad
    OBVIOUS
  <1> HIDE DEF Bad
  <1> QED
    BY <1>2, <1>3, <1>4, <1>5, SetInduction

(***************************************************************************)
(* Rows of a SKU: what the open transfers have outstanding is in transit.  *)
(***************************************************************************)

\* The lines of a transfer that name a SKU, and what they have outstanding.
LinesOf(t, sku) ==
  {n \in DOMAIN transfers[t].lines :
     transfers[t].lines[n].what = sku /\ transfers[t].lines[n].variant \in Variants}

\* What a line has outstanding, as the sums count it.
Due(t, n) == AtLeastZero(Outstanding(transfers[t].lines[n]))

\* What a transfer has outstanding of a SKU.
DueOf(t, sku) == MapThenSumSet(LAMBDA n : Due(t, n), LinesOf(t, sku))

\* The transfers that travel from a store.
From(s) == {t \in Transfers : transfers[t].status \in Travelling /\ transfers[t].origin = s}

\* DueOf is the fold over the lines of a SKU.
LEMMA DueSum ==
  ASSUME NEW t, NEW sku, IsFiniteSet(LinesOf(t, sku))
  PROVE  \E g : /\ IsFold(g, [n \in LinesOf(t, sku) |-> Due(t, n)], LinesOf(t, sku))
                /\ DueOf(t, sku) = g[LinesOf(t, sku)]
  <1> DEFINE N == LinesOf(t, sku)
             f == [n \in N |-> Due(t, n)]
             Is(g) == g = [s \in SUBSET N |-> IF s = {} THEN 0 ELSE Due(t, Pick(s)) + g[s \ {Pick(s)}]]
  <1>1. DueOf(t, sku) = (CHOOSE g : Is(g))[N]
    BY Zenon DEF DueOf, MapThenSumSet, MapThenFoldSet, Pick
  <1>2. ASSUME NEW g PROVE Is(g) <=> IsFold(g, f, N)
    <2>1. \A s \in SUBSET N : s # {} => f[Pick(s)] = Due(t, Pick(s))
      BY DEF Pick
    <2> QED
      BY <2>1 DEF IsFold, FoldAt
  <1>3. PICK g : IsFold(g, f, N)
    BY FoldExists
  <1>4. Is(CHOOSE h : Is(h))
    BY <1>2, <1>3, Zenon
  <1> HIDE DEF Is, f
  <1>5. IsFold(CHOOSE h : Is(h), f, N)
    BY <1>2, <1>4
  <1> QED
    BY <1>1, <1>5 DEF f

\* OutstandingOf is the fold over the transfers that travel from a store.
LEMMA OutstandingSum ==
  ASSUME NEW sku, NEW s
  PROVE  \E g : /\ IsFold(g, [t \in From(s) |-> DueOf(t, sku)], From(s))
                /\ OutstandingOf(sku, Variants, s) = g[From(s)]
  <1> DEFINE N == From(s)
             f == [t \in N |-> DueOf(t, sku)]
             Is(g) == g = [r \in SUBSET N |-> IF r = {} THEN 0 ELSE DueOf(Pick(r), sku) + g[r \ {Pick(r)}]]
  <1>0. IsFiniteSet(N)
    BY TablesAssumption, FS_Subset DEF From
  <1>1. OutstandingOf(sku, Variants, s) = (CHOOSE g : Is(g))[N]
    BY Zenon DEF OutstandingOf, DueOf, Due, LinesOf, From, MapThenSumSet, MapThenFoldSet, Pick
  <1>2. ASSUME NEW g PROVE Is(g) <=> IsFold(g, f, N)
    <2>1. \A r \in SUBSET N : r # {} => f[Pick(r)] = DueOf(Pick(r), sku)
      BY DEF Pick
    <2> QED
      BY <2>1 DEF IsFold, FoldAt
  <1>3. PICK g : IsFold(g, f, N)
    BY <1>0, FoldExists
  <1>4. Is(CHOOSE h : Is(h))
    BY <1>2, <1>3, Zenon
  <1> HIDE DEF Is, f
  <1>5. IsFold(CHOOSE h : Is(h), f, N)
    BY <1>2, <1>4
  <1> QED
    BY <1>1, <1>5 DEF f

\* A client that names each line of a transfer once in a request, and each SKU
\* once in a transfer.
Careful == Client \subseteq {"in_transit"}

\* The header of a transfer that travels from a store with a SKU.
Held(h, sku, s) ==
  /\ h.status \in Travelling /\ h.origin = s
  /\ \E n \in DOMAIN h.lines : h.lines[n].what = sku

\* No two transfers travel from one store with the same SKU: the code does not
\* tell their rows apart.
Apart ==
  \A t, u \in Transfers, sku \in Skus, s \in Stores :
    Held(transfers[t], sku, s) /\ Held(transfers[u], sku, s) => t = u

\* A transfer has one line for a SKU or an EPC, settles no more than it
\* dispatched, and has dispatched all of a line from where it was.
LedgerSound(h) ==
  /\ \A m, n \in DOMAIN h.lines : h.lines[m].what = h.lines[n].what => m = n
  /\ \A n \in DOMAIN h.lines : h.lines[n].received + h.lines[n].lost <= h.lines[n].dispatched
  /\ h.status \in Travelling =>
       \A n \in DOMAIN h.lines : /\ h.lines[n].dispatched = h.lines[n].qty
                                 /\ h.lines[n].what \in Skus => h.lines[n].from # InTransit

\* The rows of a SKU in transit from a store are what a transfer still has
\* outstanding of it, and there are none without a transfer.
Balanced(sku, s) ==
  /\ \A t \in Transfers : Held(transfers[t], sku, s) =>
       \A n \in DOMAIN transfers[t].lines : transfers[t].lines[n].what = sku =>
         Cardinality(RowsInTransit(sku, s)) = Outstanding(transfers[t].lines[n])
  /\ RowsInTransit(sku, s) # {} => \E t \in Transfers : Held(transfers[t], sku, s)

\* The invariant: every transfer keeps its accounts, and the rows agree with them.
Ledger ==
  /\ \A t \in Transfers : LedgerSound(transfers[t])
  /\ \A sku \in Skus, s \in Stores \cup {NoStore} : Balanced(sku, s)

\* The rows in transit can be counted.
LEMMA RowsFinite ==
  ASSUME NEW sku, NEW s
  PROVE  /\ RowsInTransit(sku, s) \subseteq Bulk
         /\ IsFiniteSet(RowsInTransit(sku, s)) /\ Cardinality(RowsInTransit(sku, s)) \in Nat
  BY TablesAssumption, FS_Subset, FS_CardinalityType DEF RowsInTransit

\* The sum over the transfers of a store is what the one that holds the SKU has
\* outstanding: at most one term differs from 0, and that is the number of rows.
LEMMA LedgerMatches ==
  ASSUME IInv, Ledger, Apart
  PROVE  TransitMatchesLedger
  <1> SUFFICES ASSUME NEW sku \in Skus, NEW s \in Stores
               PROVE  Cardinality(RowsInTransit(sku, s)) = OutstandingOf(sku, Variants, s)
    BY DEF TransitMatchesLedger
  <1> DEFINE f == [t \in From(s) |-> DueOf(t, sku)]
  <1>1. PICK g : IsFold(g, f, From(s)) /\ OutstandingOf(sku, Variants, s) = g[From(s)]
    BY OutstandingSum
  <1>2. IsFiniteSet(From(s)) /\ From(s) \subseteq Transfers
    BY TablesAssumption, FS_Subset DEF From
  <1>3. \A t \in From(s) : f[t] = DueOf(t, sku)
    OBVIOUS
  <1> HIDE DEF f
  <1>4. Balanced(sku, s)
    BY DEF Ledger
  <1>5. ASSUME NEW t \in From(s), ~Held(transfers[t], sku, s) PROVE f[t] = 0
    <2>1. LinesOf(t, sku) = {}
      BY <1>5 DEF LinesOf, Held, From
    <2>2. IsFiniteSet({})
      BY FS_EmptySet
    <2>3. PICK k : /\ IsFold(k, [n \in LinesOf(t, sku) |-> Due(t, n)], LinesOf(t, sku))
                   /\ DueOf(t, sku) = k[LinesOf(t, sku)]
      BY <2>1, <2>2, DueSum
    <2>4. k[{}] = 0
      BY <2>1, <2>3 DEF IsFold, FoldAt
    <2> QED
      BY <1>3, <2>1, <2>3, <2>4
  <1>6. CASE \E u \in Transfers : Held(transfers[u], sku, s)
    <2>1. PICK u \in Transfers : Held(transfers[u], sku, s)
      BY <1>6
    <2>2. PICK n \in DOMAIN transfers[u].lines : transfers[u].lines[n].what = sku
      BY <2>1 DEF Held
    <2>3. u \in From(s) /\ \A t \in From(s) \ {u} : ~Held(transfers[t], sku, s)
      BY <1>2, <2>1 DEF Apart, From, Held
    <2>4. transfers[u].lines[n] \in Lines
      BY LineTyped DEF IInv
    <2>5. LinesOf(u, sku) = {n}
      <3>1. \A m \in DOMAIN transfers[u].lines : transfers[u].lines[m].what = sku => m = n
        BY <2>2 DEF Ledger, LedgerSound
      <3>2. transfers[u].lines[n].variant \in Variants
        BY <2>4 DEF Lines
      <3> QED
        BY <2>2, <3>1, <3>2 DEF LinesOf
    <2>6. Due(u, n) = Cardinality(RowsInTransit(sku, s))
      <3>1. Outstanding(transfers[u].lines[n]) = Cardinality(RowsInTransit(sku, s))
        BY <1>4, <2>1, <2>2 DEF Balanced
      <3>2. Cardinality(RowsInTransit(sku, s)) \in Nat
        BY RowsFinite
      <3> QED
        BY <3>1, <3>2 DEF Due, AtLeastZero
    <2>7. f[u] = Due(u, n)
      <3>1. IsFiniteSet({n})
        BY FS_Singleton
      <3> DEFINE e == [m \in {n} |-> Due(u, m)]
      <3>2. PICK k : IsFold(k, e, {n}) /\ DueOf(u, sku) = k[{n}]
        BY <2>5, <3>1, DueSum
      <3>3. e[n] = Due(u, n) /\ e[n] \in Int
        BY <2>6, RowsFinite
      <3> HIDE DEF e
      <3>4. k[{n}] = e[n]
        BY <3>1, <3>2, <3>3, FoldOne
      <3> QED
        BY <1>3, <2>3, <3>2, <3>3, <3>4
    <2>8. f[u] \in Int
      BY <2>6, <2>7, RowsFinite
    <2>9. g[From(s)] = f[u]
      BY <1>1, <1>2, <1>5, <2>3, <2>8, FoldOne
    <2> QED
      BY <1>1, <2>6, <2>7, <2>9
  <1>7. CASE ~ \E u \in Transfers : Held(transfers[u], sku, s)
    <2>1. RowsInTransit(sku, s) = {}
      BY <1>4, <1>7 DEF Balanced
    <2>2. g[From(s)] = 0
      BY <1>1, <1>2, <1>5, <1>7, FoldZero
    <2> QED
      BY <1>1, <2>1, <2>2, FS_EmptySet
  <1> QED
    BY <1>6, <1>7

\* A step that replaces the header of one transfer keeps the ledger when the
\* rows of every SKU follow the header.
Accounts(t, h) ==
  /\ t \in Transfers /\ LedgerSound(h)
  /\ transfers' = [transfers EXCEPT ![t] = h]
  /\ \A sku \in Skus, s \in Stores \cup {NoStore} :
       \/ /\ RowsInTransit(sku, s)' = RowsInTransit(sku, s)
          /\ ~Held(h, sku, s) /\ ~Held(transfers[t], sku, s)
       \/ /\ Held(h, sku, s)
          /\ \E n \in DOMAIN h.lines : /\ h.lines[n].what = sku
               /\ Cardinality(RowsInTransit(sku, s)') = Outstanding(h.lines[n])
       \/ ~Held(h, sku, s) /\ Held(transfers[t], sku, s) /\ RowsInTransit(sku, s)' = {}

\* The header that a step replaces is the only one whose accounts change.
LEMMA AccountsLedger ==
  ASSUME IInv, TagsOK, Ledger, Apart, Apart', NEW t, NEW h, Accounts(t, h), TagsOK'
  PROVE  Ledger'
  <1>1. /\ t \in Transfers /\ transfers'[t] = h
        /\ \A u \in Transfers \ {t} : transfers'[u] = transfers[u]
    BY DEF Accounts, IInv, TypeOK
  <1>2. \A u \in Transfers : LedgerSound(transfers'[u])
    BY <1>1 DEF Accounts, Ledger
  <1>3. (\A u \in Transfers : LedgerSound(transfers[u]))'
    BY <1>2 DEF LedgerSound
  <1>4. ASSUME NEW sku \in Skus, NEW s \in Stores \cup {NoStore}
        PROVE  Balanced(sku, s)'
    <2>1. Balanced(sku, s)
      BY DEF Ledger
    <2>2. \A u \in Transfers : Held(transfers[u], sku, s) => s \in Stores
      BY DEF TagsOK, TagSound, Held, Travelling
    <2>3. \A u \in Transfers : Held(transfers'[u], sku, s) => s \in Stores
      BY DEF TagsOK, TagSound, Held, Travelling
    <2>4. \A u, v \in Transfers : Held(transfers[u], sku, s) /\ Held(transfers[v], sku, s) => u = v
      BY <2>2 DEF Apart
    <2>5. \A u, v \in Transfers : Held(transfers'[u], sku, s) /\ Held(transfers'[v], sku, s) => u = v
      BY <2>3 DEF Apart, Held
    <2> SUFFICES
          /\ \A u \in Transfers : Held(transfers'[u], sku, s) =>
               \A n \in DOMAIN transfers'[u].lines : transfers'[u].lines[n].what = sku =>
                 Cardinality(RowsInTransit(sku, s)') = Outstanding(transfers'[u].lines[n])
          /\ RowsInTransit(sku, s)' # {} => \E u \in Transfers : Held(transfers'[u], sku, s)
      BY DEF Balanced, Held, Outstanding
    <2> DEFINE R == RowsInTransit(sku, s)
    <2>6. PICK r : r = RowsInTransit(sku, s)'
      OBVIOUS
    <2>7. CASE r = R /\ ~Held(h, sku, s) /\ ~Held(transfers[t], sku, s)
      BY <1>1, <2>1, <2>6, <2>7 DEF Balanced
    <2>8. CASE /\ Held(h, sku, s)
               /\ \E n \in DOMAIN h.lines : /\ h.lines[n].what = sku
                                            /\ Cardinality(r) = Outstanding(h.lines[n])
      <3>1. \A u \in Transfers : Held(transfers'[u], sku, s) => transfers'[u] = h
        BY <1>1, <2>5, <2>8
      <3>2. \A m, n \in DOMAIN h.lines : h.lines[m].what = h.lines[n].what => m = n
        BY DEF Accounts, LedgerSound
      <3>3. \A n \in DOMAIN h.lines : h.lines[n].what = sku => Cardinality(r) = Outstanding(h.lines[n])
        BY <2>8, <3>2
      <3> QED
        BY <1>1, <2>6, <2>8, <3>1, <3>3
    <2>9. CASE ~Held(h, sku, s) /\ Held(transfers[t], sku, s) /\ r = {}
      BY <1>1, <2>4, <2>6, <2>9
    <2> QED
      BY <2>6, <2>7, <2>8, <2>9 DEF Accounts
  <1> QED
    BY <1>3, <1>4 DEF Ledger

\* Rows of no store are not in transit.
LEMMA NoneInTransitNowhere ==
  ASSUME TagsOK, Ledger, NEW sku \in Skus
  PROVE  RowsInTransit(sku, NoStore) = {}
  <1>1. \A t \in Transfers : ~Held(transfers[t], sku, NoStore)
    BY NamesAssumption DEF TagsOK, TagSound, Held, Travelling
  <1> QED
    BY <1>1 DEF Ledger, Balanced

\* A bulk row is a row.
LEMMA BulkRow ==
  ASSUME TypeOK, NEW b \in Bulk
  PROVE  stock[b] \in Rows /\ SkuOf[b] \in Skus /\ b \notin Tags /\ b \in Items
  BY RowsAssumption DEF TypeOK, Items

\* The rows that a SKU line selects, of one store or of none.
LEMMA SkuSelected ==
  ASSUME NEW b, NEW what \in Tags \cup Skus, NEW stores, NEW places, b \in Bulk,
         b \in Select(what, stores, places)
  PROVE  /\ what = SkuOf[b] /\ what \notin Tags /\ stock[b].state = "in_stock"
         /\ stock[b].store \in stores /\ stock[b].place \in places
  BY RowsAssumption DEF Select, RowsOf

\* Adopting rows of no store puts none in transit.
LEMMA AdoptedRows ==
  ASSUME IInv, TagsOK, Ledger, NEW ls, NEW origin, stock' = Adopted(ls, origin),
         NEW sku \in Skus, NEW s
  PROVE  RowsInTransit(sku, s)' = RowsInTransit(sku, s)
  <1>1. ASSUME NEW b \in Bulk, SkuOf[b] = sku
        PROVE  /\ stock'[b].state = stock[b].state /\ stock'[b].place = stock[b].place
               /\ stock[b].store # NoStore => stock'[b].store = stock[b].store
               /\ ~ (stock[b].state # "deleted" /\ stock[b].store = NoStore /\ stock[b].place = InTransit)
    <2>1. stock[b] \in Rows /\ b \in Items
      BY BulkRow DEF IInv
    <2>2. stock'[b] = IF stock[b].store = NoStore /\ \E n \in DOMAIN ls : ls[n].what = b
                      THEN [stock[b] EXCEPT !.store = origin] ELSE stock[b]
      BY <2>1 DEF Adopted
    <2>3. b \notin RowsInTransit(sku, NoStore)
      BY NoneInTransitNowhere
    <2>4. ~ (stock[b].state # "deleted" /\ stock[b].store = NoStore /\ stock[b].place = InTransit)
      BY <1>1, <2>3 DEF RowsInTransit
    <2>5. CASE stock'[b] = stock[b]
      BY <2>4, <2>5
    <2>6. CASE stock[b].store = NoStore /\ stock'[b] = [stock[b] EXCEPT !.store = origin]
      BY <2>1, <2>4, <2>6 DEF Rows
    <2> QED
      BY <2>2, <2>5, <2>6
  <1>2. RowsInTransit(sku, s)' = {b \in Bulk : /\ SkuOf[b] = sku /\ stock'[b].state # "deleted"
                                               /\ stock'[b].store = s /\ stock'[b].place = InTransit}
    BY DEF RowsInTransit
  <1>3. \A b \in Bulk : SkuOf[b] = sku =>
          ((stock'[b].state # "deleted" /\ stock'[b].store = s /\ stock'[b].place = InTransit)
            <=> (stock[b].state # "deleted" /\ stock[b].store = s /\ stock[b].place = InTransit))
    BY <1>1
  <1> QED
    BY <1>2, <1>3 DEF RowsInTransit

\* A transfer that does not travel, before or after, when no row changes.
LEMMA IdleAccounts ==
  ASSUME NEW t \in Transfers, NEW h, LedgerSound(h),
         transfers' = [transfers EXCEPT ![t] = h],
         h.status \notin Travelling, transfers[t].status \notin Travelling,
         \A sku \in Skus, s \in Stores \cup {NoStore} : RowsInTransit(sku, s)' = RowsInTransit(sku, s)
  PROVE  Accounts(t, h)
  BY DEF Accounts, Held

\* A draft holds nothing, and adopts rows that no store has.
LEMMA DraftAccounts ==
  ASSUME IInv, TagsOK, Ledger, Careful, NEW t \in Transfers,
         NEW origin \in Stores, NEW dest \in Stores, NEW asked \in Requests,
         transfers[t].status \notin Travelling, Draft(t, origin, dest, asked)
  PROVE  \E h : Accounts(t, h)
  <1>1. PICK h \in Headers :
          /\ transfers' = [transfers EXCEPT ![t] = h] /\ Sound(h)
          /\ h.status = "DRAFT" /\ h.origin = origin /\ h.dest = dest
          /\ h.lines = [n \in DOMAIN asked |-> NewLine(asked[n], origin)]
    BY DraftHeader
  <1>2. \A m, n \in DOMAIN asked : asked[m].what = asked[n].what => m = n
    BY DEF Requests, Distinct, Careful
  <1>3. /\ DOMAIN h.lines = DOMAIN asked
        /\ \A n \in DOMAIN asked : /\ h.lines[n].what = asked[n].what
                                   /\ h.lines[n].received = 0 /\ h.lines[n].lost = 0
                                   /\ h.lines[n].dispatched = 0
    BY <1>1 DEF NewLine
  <1>4. h.status \notin Travelling
    BY <1>1 DEF Travelling
  <1>5. LedgerSound(h)
    BY <1>2, <1>3, <1>4 DEF LedgerSound
  <1>6. \A sku \in Skus, s \in Stores \cup {NoStore} : RowsInTransit(sku, s)' = RowsInTransit(sku, s)
    BY AdoptedRows DEF Draft
  <1> QED
    BY <1>1, <1>4, <1>5, <1>6, IdleAccounts

\* A new route of a draft moves no row.
LEMMA UpdateRouteAccounts ==
  ASSUME IInv, TagsOK, Ledger, NEW t \in Transfers,
         NEW origin \in Stores, NEW dest \in Stores, UpdateRoute(t, origin, dest)
  PROVE  \E h : Accounts(t, h)
  <1> DEFINE h == [transfers[t] EXCEPT !.origin = origin, !.dest = dest]
  <1>1. transfers[t] \in Headers /\ transfers[t].status = "DRAFT" /\ LedgerSound(transfers[t])
    BY DEF UpdateRoute, IInv, TypeOK, Ledger
  <1>2. h.status = "DRAFT" /\ h.lines = transfers[t].lines
    BY <1>1 DEF Headers
  <1>3. transfers' = [transfers EXCEPT ![t] = h]
    BY DEF UpdateRoute, IInv, TypeOK
  <1> HIDE DEF h
  <1>4. h.status \notin Travelling /\ transfers[t].status \notin Travelling
    BY <1>1, <1>2 DEF Travelling
  <1>5. LedgerSound(h)
    BY <1>1, <1>2, <1>4 DEF LedgerSound
  <1>6. \A sku \in Skus, s \in Stores \cup {NoStore} : RowsInTransit(sku, s)' = RowsInTransit(sku, s)
    BY AdoptedRows DEF UpdateRoute
  <1> QED
    BY <1>3, <1>4, <1>5, <1>6, IdleAccounts

\* Cancelling a draft moves no row.
LEMMA CancelDraftAccounts ==
  ASSUME IInv, Ledger, NEW t \in Transfers, CancelDraft(t)
  PROVE  \E h : Accounts(t, h)
  <1> DEFINE h == [transfers[t] EXCEPT !.status = "CANCELED"]
  <1>1. transfers[t] \in Headers /\ transfers[t].status = "DRAFT" /\ LedgerSound(transfers[t])
    BY DEF CancelDraft, IInv, TypeOK, Ledger
  <1>2. h.status = "CANCELED" /\ h.lines = transfers[t].lines
    BY <1>1 DEF Headers
  <1>3. transfers' = [transfers EXCEPT ![t] = h]
    BY DEF CancelDraft, IInv, TypeOK
  <1> HIDE DEF h
  <1>4. h.status \notin Travelling /\ transfers[t].status \notin Travelling
    BY <1>1, <1>2 DEF Travelling
  <1>5. LedgerSound(h)
    BY <1>1, <1>2, <1>4 DEF LedgerSound
  <1>6. \A sku \in Skus, s \in Stores \cup {NoStore} : RowsInTransit(sku, s)' = RowsInTransit(sku, s)
    BY DEF CancelDraft, RowsInTransit
  <1> QED
    BY <1>3, <1>4, <1>5, <1>6, IdleAccounts

\* A sold row stays in transit.
LEMMA SellLedger ==
  ASSUME IInv, Ledger, NEW what \in Tags \cup Skus, NEW store, NEW place, Sell(what, store, place)
  PROVE  Ledger'
  <1>1. ASSUME NEW b \in Bulk
        PROVE  /\ stock'[b].store = stock[b].store /\ stock'[b].place = stock[b].place
               /\ stock'[b].state # "deleted" <=> stock[b].state # "deleted"
    <2>1. stock[b] \in Rows /\ b \in Items
      BY BulkRow DEF IInv
    <2>2. stock'[b] = stock[b] \/ (stock'[b] = [stock[b] EXCEPT !.state = "sold"]
                                   /\ b \in Oldest(Select(what, {store}, {place}), 1))
      BY <2>1 DEF Sell
    <2>3. b \in Oldest(Select(what, {store}, {place}), 1) => stock[b].state = "in_stock"
      BY OldestSubset, SkuSelected
    <2> QED
      BY <2>1, <2>2, <2>3 DEF Rows
  <1>2. ASSUME NEW sku, NEW s PROVE RowsInTransit(sku, s)' = RowsInTransit(sku, s)
    BY <1>1 DEF RowsInTransit
  <1>3. transfers' = transfers
    BY DEF Sell
  <1>4. (\A t \in Transfers : LedgerSound(transfers[t]))'
    BY <1>3 DEF Ledger, LedgerSound
  <1>5. ASSUME NEW sku \in Skus, NEW s \in Stores \cup {NoStore} PROVE Balanced(sku, s)'
    BY <1>2, <1>3 DEF Ledger, Balanced, Held, Outstanding
  <1> QED
    BY <1>4, <1>5 DEF Ledger

\* The rows in transit after a step can be counted.
LEMMA RowsFiniteNext ==
  ASSUME NEW sku, NEW s
  PROVE  /\ RowsInTransit(sku, s)' \subseteq Bulk
         /\ IsFiniteSet(RowsInTransit(sku, s)') /\ Cardinality(RowsInTransit(sku, s)') \in Nat
  <1>1. RowsInTransit(sku, s)' \subseteq Bulk
    BY DEF RowsInTransit
  <1> QED
    BY <1>1, TablesAssumption, FS_Subset, FS_CardinalityType

\* The rows of a step that settles k[n] units of line n: k[n] rows of its SKU
\* leave the transit from the origin, and no others do.
Leaves(t, k) ==
  \A sku \in Skus, s \in Stores \cup {NoStore} :
    IF Held(transfers[t], sku, s)
    THEN \A n \in DOMAIN transfers[t].lines : transfers[t].lines[n].what = sku =>
           Cardinality(RowsInTransit(sku, s)') = Cardinality(RowsInTransit(sku, s)) - k[n]
    ELSE RowsInTransit(sku, s)' = RowsInTransit(sku, s)

\* A step that settles on each line as many units as rows leave the transit keeps
\* the accounts of the transfer.
LEMMA SettlingAccounts ==
  ASSUME IInv, TagsOK, Ledger, NEW t, NEW h, NEW k, Settling(t, h, k), Leaves(t, k),
         \A n \in DOMAIN h.lines : h.lines[n].what \in Tags =>
           k[n] <= Outstanding(transfers[t].lines[n])
  PROVE  Accounts(t, h)
  <1> DEFINE old == transfers[t]
             D == DOMAIN old.lines
  <1>1. t \in Transfers /\ TagSound(old) /\ LedgerSound(old) /\ old.status \in Travelling
    BY DEF Settling, TagsOK, Ledger
  <1>2. /\ h \in Headers /\ transfers' = [transfers EXCEPT ![t] = h]
        /\ h.status \in Travelling \/ (h.status = "RECEIVED" /\ Settled(h.lines))
        /\ h.origin = old.origin /\ DOMAIN h.lines = D
    BY DEF Settling
  <1>3. \A n \in D :
          /\ h.lines[n].what = old.lines[n].what /\ h.lines[n].qty = old.lines[n].qty
          /\ h.lines[n].from = old.lines[n].from
          /\ h.lines[n].dispatched = old.lines[n].dispatched
          /\ k[n] \in Nat
          /\ Outstanding(h.lines[n]) = Outstanding(old.lines[n]) - k[n]
    BY <1>2 DEF Settling
  <1>4. \A n \in D : old.lines[n] \in Lines /\ h.lines[n] \in Lines
    <2>1. h.lines \in Seq(Lines)
      BY <1>2 DEF Headers
    <2>2. \A n \in DOMAIN h.lines : h.lines[n] \in Lines
      BY <2>1, SeqIsFunction
    <2> QED
      BY <1>1, <1>2, <2>2, LineTyped DEF IInv
  <1>5. old.origin \in Stores
    BY <1>1 DEF TagSound, Travelling
  <1>6. ASSUME NEW n \in D, NEW sku \in Skus, old.lines[n].what = sku, NEW s, s = old.origin
        PROVE  Cardinality(RowsInTransit(sku, s)') = Outstanding(h.lines[n])
    <2>1. Held(old, sku, s) /\ s \in Stores
      BY <1>1, <1>5, <1>6 DEF Held
    <2>2. Cardinality(RowsInTransit(sku, s)') = Cardinality(RowsInTransit(sku, s)) - k[n]
      BY <1>6, <2>1 DEF Leaves
    <2>3. Cardinality(RowsInTransit(sku, s)) = Outstanding(old.lines[n])
      BY <1>1, <1>6, <2>1 DEF Ledger, Balanced
    <2> QED
      BY <1>3, <2>2, <2>3
  <1>7. ASSUME NEW n \in D PROVE Outstanding(h.lines[n]) >= 0
    <2>1. CASE h.lines[n].what \in Tags
      <3>1. k[n] <= Outstanding(old.lines[n])
        BY <1>2, <2>1
      <3>2. k[n] \in Nat /\ Outstanding(old.lines[n]) \in Int
        BY <1>3, <1>4 DEF Lines, Outstanding
      <3> QED
        BY <1>3, <3>1, <3>2
    <2>2. CASE h.lines[n].what \in Skus
      <3>1. PICK sku \in Skus, s \in Stores : old.lines[n].what = sku /\ s = old.origin
        BY <1>3, <1>5, <2>2
      <3>2. Cardinality(RowsInTransit(sku, s)') = Outstanding(h.lines[n])
        BY <1>6, <3>1
      <3> QED
        BY <3>2, RowsFiniteNext
    <2> QED
      BY <1>4, <2>1, <2>2 DEF Lines
  <1>8. LedgerSound(h)
    <2>1. \A m, n \in D : h.lines[m].what = h.lines[n].what => m = n
      BY <1>1, <1>3 DEF LedgerSound
    <2>2. \A n \in D : h.lines[n].received + h.lines[n].lost <= h.lines[n].dispatched
      BY <1>4, <1>7 DEF Lines, Outstanding
    <2>3. \A n \in D : /\ h.lines[n].dispatched = h.lines[n].qty
                       /\ h.lines[n].what \in Skus => h.lines[n].from # InTransit
      BY <1>1, <1>3 DEF LedgerSound
    <2> QED
      BY <1>2, <2>1, <2>2, <2>3 DEF LedgerSound
  <1>9. ASSUME NEW sku \in Skus, NEW s \in Stores \cup {NoStore}
        PROVE  \/ /\ RowsInTransit(sku, s)' = RowsInTransit(sku, s)
                  /\ ~Held(h, sku, s) /\ ~Held(old, sku, s)
               \/ /\ Held(h, sku, s)
                  /\ \E n \in DOMAIN h.lines : /\ h.lines[n].what = sku
                       /\ Cardinality(RowsInTransit(sku, s)') = Outstanding(h.lines[n])
               \/ ~Held(h, sku, s) /\ Held(old, sku, s) /\ RowsInTransit(sku, s)' = {}
    <2>1. CASE ~Held(old, sku, s)
      <3>1. RowsInTransit(sku, s)' = RowsInTransit(sku, s)
        BY <2>1 DEF Leaves
      <3>2. ~Held(h, sku, s)
        BY <1>1, <1>2, <1>3, <2>1 DEF Held
      <3> QED
        BY <2>1, <3>1, <3>2
    <2>2. CASE Held(old, sku, s)
      <3>1. PICK n \in D : old.lines[n].what = sku /\ s = old.origin
        BY <2>2 DEF Held
      <3>2. Cardinality(RowsInTransit(sku, s)') = Outstanding(h.lines[n])
        BY <1>6, <3>1
      <3>3. CASE h.status \in Travelling
        BY <1>2, <1>3, <3>1, <3>2, <3>3 DEF Held
      <3>4. CASE h.status = "RECEIVED" /\ Settled(h.lines)
        <4>1. Outstanding(h.lines[n]) <= 0
          BY <1>2, <3>4 DEF Settled
        <4>2. Cardinality(RowsInTransit(sku, s)') = 0
          BY <3>2, <4>1, RowsFiniteNext
        <4>3. RowsInTransit(sku, s)' = {}
          BY <4>2, RowsFiniteNext, FS_EmptySet
        <4>4. ~Held(h, sku, s)
          BY <3>4 DEF Held, Travelling
        <4> QED
          BY <2>2, <4>3, <4>4
      <3> QED
        BY <1>2, <3>3, <3>4
    <2> QED
      BY <2>1, <2>2
  <1> QED
    BY <1>1, <1>2, <1>8, <1>9 DEF Accounts

\* What a careful request books on a line of a SKU, and the rows it takes.
LEMMA UnitsTaken ==
  ASSUME IInv, TagsOK, Ledger, Careful, NEW t \in Transfers, NEW b \in Batches(t), NEW n \in DOMAIN b,
         NEW sku \in Skus, transfers[t].lines[n].what = sku, NEW s, s = transfers[t].origin,
         NEW stores, stores \subseteq {s, NoStore}, Carried(t, b, n, stores)
  PROVE  /\ Chosen(t, b, n, stores) \subseteq RowsInTransit(sku, s)
         /\ Cardinality(Chosen(t, b, n, stores)) = Booked(b, n)
  <1> DEFINE l == transfers[t].lines[n]
             rows == OnTheWay(l, stores)
             q == b[n][1]
  <1>1. DOMAIN b = DOMAIN transfers[t].lines
    BY BookedTyped DEF IInv
  <1>2. q \in Nat /\ b[n][2] = 0
    BY <1>1, BoundsAssumption DEF Batches, Careful
  <1>3. Entries(b, n) = {q} \ {0} /\ Booked(b, n) = q
    BY <1>2 DEF Entries, Booked
  <1>4. sku \notin Tags /\ rows \subseteq Bulk
    BY RowsAssumption DEF OnTheWay, Select, RowsOf
  <1>5. rows \subseteq RowsInTransit(sku, s)
    <2> SUFFICES ASSUME NEW x \in rows PROVE x \in RowsInTransit(sku, s)
      OBVIOUS
    <2>1. x \in Bulk /\ x \in Select(sku, stores, {InTransit})
      BY <1>4 DEF OnTheWay
    <2>2. /\ sku = SkuOf[x] /\ stock[x].state = "in_stock"
          /\ stock[x].store \in stores /\ stock[x].place = InTransit
      BY <2>1, SkuSelected
    <2>3. x \notin RowsInTransit(sku, NoStore)
      BY NoneInTransitNowhere
    <2>4. stock[x].store = s
      BY <2>1, <2>2, <2>3 DEF RowsInTransit
    <2> QED
      BY <2>1, <2>2, <2>4 DEF RowsInTransit
  <1>6. rows \in SUBSET Nat /\ IsFiniteSet(rows)
    BY <1>4, RowsAssumption, TablesAssumption, FS_Subset
  <1>7. CASE q = 0
    <2>1. Chosen(t, b, n, stores) = {}
      BY <1>3, <1>7 DEF Chosen
    <2> QED
      BY <1>3, <1>7, <2>1, FS_EmptySet
  <1>8. CASE q # 0
    <2>1. Entries(b, n) = {q}
      BY <1>3, <1>8
    <2>2. Chosen(t, b, n, stores) = Oldest(rows, q) /\ Cardinality(rows) >= q
      BY <2>1 DEF Chosen, Carried
    <2> HIDE DEF rows, q
    <2>3. Cardinality(rows) \in Nat
      BY <1>6, FS_CardinalityType
    <2>4. Cardinality(Oldest(rows, q)) = IF Cardinality(rows) < q THEN Cardinality(rows) ELSE q
      BY <1>2, <1>6, OldestCount
    <2>5. Cardinality(Oldest(rows, q)) = q
      BY <1>2, <2>2, <2>3, <2>4
    <2> QED
      BY <1>3, <1>5, <2>2, <2>5, OldestSubset
  <1> QED
    BY <1>7, <1>8

\* A request that takes the rows it chose, and no others.
LEMMA TakenLeaves ==
  ASSUME IInv, TagsOK, Ledger, Careful, NEW t \in Transfers, NEW b \in Batches(t),
         transfers[t].status \in Travelling, NEW k, \A n \in DOMAIN b : k[n] = Booked(b, n),
         NEW stores, \A n \in DOMAIN b : Carried(t, b, n, stores[n]),
         \A n \in DOMAIN b : transfers[t].lines[n].what \in Skus =>
                              stores[n] \subseteq {transfers[t].origin, NoStore},
         NEW taken, \A x \in Bulk : x \in taken <=> \E n \in DOMAIN b : x \in Chosen(t, b, n, stores[n]),
         \A x \in Bulk : IF x \in taken
                         THEN ~ (stock'[x].state # "deleted" /\ stock'[x].place = InTransit)
                         ELSE stock'[x] = stock[x]
  PROVE  Leaves(t, k)
  <1> SUFFICES ASSUME NEW sku \in Skus, NEW s \in Stores \cup {NoStore}
      PROVE  IF Held(transfers[t], sku, s)
             THEN \A n \in DOMAIN transfers[t].lines : transfers[t].lines[n].what = sku =>
                    Cardinality(RowsInTransit(sku, s)') = Cardinality(RowsInTransit(sku, s)) - k[n]
             ELSE RowsInTransit(sku, s)' = RowsInTransit(sku, s)
    BY DEF Leaves
  <1>1. DOMAIN b = DOMAIN transfers[t].lines /\ \A n \in DOMAIN b : transfers[t].lines[n] \in Lines
    BY BookedTyped DEF IInv
  <1>2. ASSUME NEW x \in Bulk, SkuOf[x] = sku, NEW n \in DOMAIN b, x \in Chosen(t, b, n, stores[n])
        PROVE  transfers[t].lines[n].what = sku /\ x \in RowsInTransit(sku, transfers[t].origin)
    <2>1. PICK q \in Entries(b, n) : x \in Oldest(OnTheWay(transfers[t].lines[n], stores[n]), q)
      BY <1>2 DEF Chosen
    <2>2. x \in Select(transfers[t].lines[n].what, stores[n], {InTransit})
      BY <2>1, OldestSubset DEF OnTheWay
    <2>3. transfers[t].lines[n].what \in Tags \cup Skus
      BY <1>1 DEF Lines
    <2>4. transfers[t].lines[n].what = sku
      BY <1>2, <2>2, <2>3, SkuSelected
    <2>5. PICK o : o = transfers[t].origin
      OBVIOUS
    <2>6. stores[n] \subseteq {o, NoStore} /\ Carried(t, b, n, stores[n])
      BY <2>4, <2>5
    <2> DEFINE C == Chosen(t, b, n, stores[n])
    <2>7. C \subseteq RowsInTransit(sku, o) /\ Cardinality(C) = Booked(b, n)
      BY <2>4, <2>5, <2>6, UnitsTaken
    <2> QED
      BY <1>2, <2>4, <2>5, <2>7
  <1>3. RowsInTransit(sku, s)' = RowsInTransit(sku, s) \ taken
    <2>1. \A x \in Bulk : x \in taken =>
            ~ (stock'[x].state # "deleted" /\ stock'[x].place = InTransit)
      OBVIOUS
    <2>2. \A x \in Bulk : x \notin taken => stock'[x] = stock[x]
      OBVIOUS
    <2>3. RowsInTransit(sku, s)' = {x \in Bulk : /\ SkuOf[x] = sku /\ stock'[x].state # "deleted"
                                                 /\ stock'[x].store = s /\ stock'[x].place = InTransit}
      BY DEF RowsInTransit
    <2> QED
      BY ONLY <2>1, <2>2, <2>3 DEF RowsInTransit
  <1>4. CASE ~Held(transfers[t], sku, s)
    <2>1. ASSUME NEW x \in RowsInTransit(sku, s), x \in taken PROVE FALSE
      <3>1. x \in Bulk /\ SkuOf[x] = sku /\ stock[x].store = s
        BY DEF RowsInTransit
      <3>2. PICK n \in DOMAIN b : x \in Chosen(t, b, n, stores[n])
        BY <2>1, <3>1
      <3>3. transfers[t].lines[n].what = sku /\ stock[x].store = transfers[t].origin
        BY <1>2, <3>1, <3>2 DEF RowsInTransit
      <3> QED
        BY <1>1, <1>4, <3>1, <3>3 DEF Held
    <2> QED
      BY <1>3, <1>4, <2>1
  <1>5. CASE Held(transfers[t], sku, s)
    <2> SUFFICES ASSUME NEW n \in DOMAIN b, transfers[t].lines[n].what = sku
                 PROVE  Cardinality(RowsInTransit(sku, s)') = Cardinality(RowsInTransit(sku, s)) - k[n]
      BY <1>1, <1>5
    <2> DEFINE R == RowsInTransit(sku, s)
               C == Chosen(t, b, n, stores[n])
    <2>1. s = transfers[t].origin /\ stores[n] \subseteq {s, NoStore} /\ Carried(t, b, n, stores[n])
      BY <1>5 DEF Held
    <2>2. C \subseteq R /\ Cardinality(C) = k[n]
      <3>1. C \subseteq R /\ Cardinality(C) = Booked(b, n)
        BY <2>1, UnitsTaken
      <3> QED
        BY <3>1
    <2>3. R \cap taken = C
      <3>1. ASSUME NEW x \in R, x \in taken PROVE x \in C
        <4>1. x \in Bulk /\ SkuOf[x] = sku
          BY DEF RowsInTransit
        <4>2. PICK m \in DOMAIN b : x \in Chosen(t, b, m, stores[m])
          BY <3>1, <4>1
        <4>3. transfers[t].lines[m].what = sku
          BY <1>2, <4>1, <4>2
        <4>4. m = n
          BY <1>1, <4>3 DEF Ledger, LedgerSound
        <4> QED
          BY <4>2, <4>4
      <3>2. R \subseteq Bulk
        BY RowsFinite
      <3>3. ASSUME NEW x \in C PROVE x \in taken
        BY <2>2, <3>2
      <3> HIDE DEF R, C
      <3> QED
        BY <2>2, <3>1, <3>3
    <2>4. Cardinality(R \ taken) = Cardinality(R) - Cardinality(R \cap taken)
      BY RowsFinite, FS_Difference
    <2> QED
      BY <1>3, <2>2, <2>3, <2>4
  <1> QED
    BY <1>4, <1>5

\* Ledger has what is known of the lines of EPCs.
LEMMA LedgerTags ==
  ASSUME Ledger
  PROVE  TagsWithinDispatched
  BY DEF Ledger, LedgerSound, TagsWithinDispatched, TagLines

\* A request that settles what it books and takes the rows it chose, of the
\* origin or of no store, out of the transit.
LEMMA TakingAccounts ==
  ASSUME IInv, TagsOK, Ledger, Careful, NEW t \in Transfers, NEW b \in Batches(t),
         NEW h, NEW k, NEW stores, NEW taken, Settling(t, h, k), Takes(t, b, k, stores, taken),
         \A n \in DOMAIN b : transfers[t].lines[n].what \in Skus =>
                             stores[n] \subseteq {transfers[t].origin, NoStore},
         \A x \in Bulk : IF x \in taken
                         THEN ~ (stock'[x].state # "deleted" /\ stock'[x].place = InTransit)
                         ELSE stock'[x] = stock[x]
  PROVE  Accounts(t, h)
  <1>1. /\ DOMAIN b = DOMAIN transfers[t].lines /\ DOMAIN h.lines = DOMAIN b
        /\ transfers[t].status \in Travelling
        /\ \A n \in DOMAIN b : h.lines[n].what = transfers[t].lines[n].what
    BY BookedTyped DEF IInv, Settling
  <1>2. /\ \A n \in DOMAIN b : k[n] = Booked(b, n)
        /\ \A n \in DOMAIN b : Carried(t, b, n, stores[n])
        /\ \A x \in Bulk : x \in taken <=> \E n \in DOMAIN b : x \in Chosen(t, b, n, stores[n])
    BY DEF Takes, Items
  <1>3. Leaves(t, k)
    BY <1>1, <1>2, TakenLeaves
  <1>4. TagsWithinDispatched /\ "repeat_line" \notin Client
    BY LedgerTags DEF Careful
  <1>5. ASSUME NEW n \in DOMAIN h.lines, h.lines[n].what \in Tags
        PROVE  k[n] <= Outstanding(transfers[t].lines[n])
    BY <1>1, <1>2, <1>4, <1>5, OneTagBooked
  <1> QED
    BY <1>3, <1>5, SettlingAccounts

\* receive puts down the units it books.
LEMMA ReceiveAccounts ==
  ASSUME IInv, TagsOK, Ledger, Careful, NEW t \in Transfers, NEW b \in Batches(t),
         NEW place \in Places, Receive(t, b, place)
  PROVE  \E h : Accounts(t, h)
  <1>1. PICK h, k, stores, taken :
          /\ Settling(t, h, k) /\ Takes(t, b, k, stores, taken)
          /\ \A n \in DOMAIN b :
               stores[n] = OwnStores(transfers[t].lines[n].what, transfers[t].origin)
          /\ PutDown(taken, transfers[t].dest, place)
    BY ReceiveSettles
  <1>2. \A n \in DOMAIN b : transfers[t].lines[n].what \in Skus =>
          stores[n] \subseteq {transfers[t].origin, NoStore}
    BY <1>1 DEF OwnStores
  <1>3. ASSUME NEW x \in Bulk
        PROVE  IF x \in taken
               THEN ~ (stock'[x].state # "deleted" /\ stock'[x].place = InTransit)
               ELSE stock'[x] = stock[x]
    <2>1. stock[x] \in Rows /\ x \in Items
      BY BulkRow DEF IInv
    <2> QED
      BY <1>1, <2>1, NamesAssumption DEF PutDown, Rows, InTransit
  <1> QED
    BY <1>1, <1>2, <1>3, TakingAccounts

\* LOST_IN_ROUTE deletes the units it books.
LEMMA ResolveLostAccounts ==
  ASSUME IInv, TagsOK, Ledger, Careful, NEW t \in Transfers, NEW b \in Batches(t),
         ResolveLost(t, b)
  PROVE  \E h : Accounts(t, h)
  <1>1. PICK h, k, stores, taken :
          /\ Settling(t, h, k) /\ Takes(t, b, k, stores, taken)
          /\ \A n \in DOMAIN b :
               stores[n] = LossStores(transfers[t].lines[n].what, transfers[t].origin)
          /\ stock' = [i \in Items |-> IF i \in taken
               THEN [stock[i] EXCEPT !.state = "deleted"] ELSE stock[i]]
    BY ResolveLostSettles
  <1>2. \A n \in DOMAIN b : transfers[t].lines[n].what \in Skus =>
          stores[n] \subseteq {transfers[t].origin, NoStore}
    BY <1>1, RowsAssumption DEF LossStores
  <1>3. ASSUME NEW x \in Bulk
        PROVE  IF x \in taken
               THEN ~ (stock'[x].state # "deleted" /\ stock'[x].place = InTransit)
               ELSE stock'[x] = stock[x]
    <2>1. stock[x] \in Rows /\ x \in Items
      BY BulkRow DEF IInv
    <2> QED
      BY <1>1, <2>1 DEF Rows
  <1> QED
    BY <1>1, <1>2, <1>3, TakingAccounts

\* What is reported or found moves no row.
LEMMA NothingAccounts ==
  ASSUME IInv, TagsOK, Ledger, NEW t, NEW h,
         Settling(t, h, [n \in DOMAIN h.lines |-> 0]), UNCHANGED stock
  PROVE  Accounts(t, h)
  <1> DEFINE k == [n \in DOMAIN h.lines |-> 0]
  <1>1. /\ t \in Transfers /\ DOMAIN h.lines = DOMAIN transfers[t].lines
        /\ \A n \in DOMAIN h.lines : k[n] = 0
    BY DEF Settling
  <1> HIDE DEF k
  <1>2. Settling(t, h, k)
    BY DEF k
  <1>3. Leaves(t, k)
    <2>1. ASSUME NEW sku, NEW s
          PROVE  /\ RowsInTransit(sku, s)' = RowsInTransit(sku, s)
                 /\ Cardinality(RowsInTransit(sku, s)') = Cardinality(RowsInTransit(sku, s))
                 /\ Cardinality(RowsInTransit(sku, s)) \in Nat
      BY RowsFinite DEF RowsInTransit
    <2> QED
      BY <1>1, <2>1 DEF Leaves
  <1>4. ASSUME NEW n \in DOMAIN h.lines
        PROVE  k[n] <= Outstanding(transfers[t].lines[n])
    <2>1. LedgerSound(transfers[t]) /\ transfers[t].lines[n] \in Lines
      BY <1>1, LineTyped DEF Ledger, IInv
    <2> QED
      BY <1>1, <2>1 DEF LedgerSound, Lines, Outstanding
  <1> QED
    BY <1>2, <1>3, <1>4, SettlingAccounts

\* Cancelling puts all the rows of a transfer back: nothing of it was received
\* or lost, as otherwise too few were on the way.
LEMMA CancelDispatchedAccounts ==
  ASSUME IInv, TagsOK, Ledger, NEW t \in Transfers, CancelDispatched(t)
  PROVE  \E h : Accounts(t, h)
  <1> DEFINE old == transfers[t]
             h == [old EXCEPT !.status = "CANCELED"]
             rows(l) == Oldest(OnTheWay(l, {old.origin}), l.qty)
             restored == UNION {rows(l) : l \in Range(old.lines)}
  <1>1. /\ old \in Headers /\ old.status \in Travelling /\ LedgerSound(old)
        /\ Sound(old) /\ old.status = "DISPATCHED"
    BY DEF CancelDispatched, IInv, TypeOK, Ledger, Travelling
  <1>2. \A n \in DOMAIN old.lines : old.lines[n] \in Lines /\ old.lines[n] \in Range(old.lines)
    BY LineTyped DEF IInv
  <1>3. transfers' = [transfers EXCEPT ![t] = h]
    BY DEF CancelDispatched, IInv, TypeOK
  <1>4. \A l \in Range(old.lines) : Cardinality(rows(l)) >= l.qty
    BY DEF CancelDispatched
  <1>5. PICK last \in [restored -> DOMAIN old.lines] :
          /\ \A i \in restored : i \in rows(old.lines[last[i]])
          /\ stock' = [i \in Items |->
               IF i \in restored
               THEN [stock[i] EXCEPT !.place = old.lines[last[i]].from] ELSE stock[i]]
    BY DEF CancelDispatched
  <1>6. h.status = "CANCELED" /\ h.lines = old.lines
    BY <1>1 DEF Headers
  <1> HIDE DEF h
  <1>7. LedgerSound(h) /\ \A sku, s : ~Held(h, sku, s)
    BY <1>1, <1>6 DEF LedgerSound, Held, Travelling
  <1>8. ASSUME NEW x \in Bulk, NEW n \in DOMAIN old.lines, x \in rows(old.lines[n])
        PROVE  old.lines[n].what = SkuOf[x] /\ x \in RowsInTransit(SkuOf[x], old.origin)
    <2>1. x \in Select(old.lines[n].what, {old.origin}, {InTransit})
      BY <1>8, OldestSubset DEF OnTheWay
    <2>2. old.lines[n].what \in Tags \cup Skus
      BY <1>2 DEF Lines
    <2>3. /\ old.lines[n].what = SkuOf[x] /\ stock[x].state = "in_stock"
          /\ stock[x].store \in {old.origin} /\ stock[x].place \in {InTransit}
      BY <2>1, <2>2, SkuSelected
    <2> QED
      BY <2>3 DEF RowsInTransit
  <1>9. ASSUME NEW x \in Bulk
        PROVE  IF x \in restored THEN stock'[x].place # InTransit ELSE stock'[x] = stock[x]
    <2>1. x \in Items /\ stock[x] \in Rows /\ SkuOf[x] \in Skus
      BY BulkRow DEF IInv
    <2>2. CASE x \in restored
      <3> DEFINE l == old.lines[last[x]]
      <3>1. last[x] \in DOMAIN old.lines /\ x \in rows(l)
        BY <1>5, <2>2
      <3>2. l.what \in Skus
        BY <1>8, <2>1, <3>1
      <3>3. l.from # InTransit
        BY <1>1, <3>1, <3>2 DEF LedgerSound
      <3>4. stock'[x] = [stock[x] EXCEPT !.place = l.from]
        BY <1>5, <2>1, <2>2
      <3> HIDE DEF l
      <3>5. stock'[x].place = l.from
        BY <2>1, <3>4 DEF Rows
      <3> QED
        BY <2>2, <3>3, <3>5
    <2>3. CASE x \notin restored
      BY <1>5, <2>1, <2>3
    <2> QED
      BY <2>2, <2>3
  <1>10. ASSUME NEW x \in Bulk, x \in restored
         PROVE  \E n \in DOMAIN old.lines : x \in rows(old.lines[n])
    BY <1>10 DEF Range
  <1>11. \A n \in DOMAIN old.lines : rows(old.lines[n]) \subseteq restored
    BY <1>2
  <1> HIDE DEF restored
  <1>12. ASSUME NEW sku \in Skus, NEW s \in Stores \cup {NoStore}
         PROVE  \/ RowsInTransit(sku, s)' = RowsInTransit(sku, s) /\ ~Held(old, sku, s)
                \/ Held(old, sku, s) /\ RowsInTransit(sku, s)' = {}
    <2>1. RowsInTransit(sku, s)' = RowsInTransit(sku, s) \ restored
      <3>1. RowsInTransit(sku, s)' = {x \in Bulk : /\ SkuOf[x] = sku /\ stock'[x].state # "deleted"
                                                   /\ stock'[x].store = s /\ stock'[x].place = InTransit}
        BY DEF RowsInTransit
      <3>2. \A x \in Bulk : x \in restored => stock'[x].place # InTransit
        BY <1>9
      <3>3. \A x \in Bulk : x \notin restored => stock'[x] = stock[x]
        BY <1>9
      <3> QED
        BY ONLY <3>1, <3>2, <3>3 DEF RowsInTransit
    <2>2. CASE ~Held(old, sku, s)
      <3>1. ASSUME NEW x \in RowsInTransit(sku, s), x \in restored PROVE FALSE
        <4>1. x \in Bulk /\ SkuOf[x] = sku /\ stock[x].store = s
          BY DEF RowsInTransit
        <4>2. PICK n \in DOMAIN old.lines : x \in rows(old.lines[n])
          BY <1>10, <3>1, <4>1
        <4>3. old.lines[n].what = sku /\ stock[x].store = old.origin
          BY <1>8, <4>1, <4>2 DEF RowsInTransit
        <4> QED
          BY <1>1, <2>2, <4>1, <4>3 DEF Held
      <3> QED
        BY <2>1, <2>2, <3>1
    <2>3. CASE Held(old, sku, s)
      <3>1. PICK n \in DOMAIN old.lines : old.lines[n].what = sku /\ s = old.origin
        BY <2>3 DEF Held
      <3> DEFINE l == old.lines[n]
                 C == rows(l)
                 R == RowsInTransit(sku, s)
      <3>2. Cardinality(R) = Outstanding(l) /\ Cardinality(R) \in Nat /\ IsFiniteSet(R)
        BY <2>3, <3>1, RowsFinite DEF Ledger, Balanced
      <3>3. C \subseteq R
        <4>1. sku \notin Tags /\ C \subseteq Bulk
          BY <3>1, RowsAssumption, OldestSubset DEF OnTheWay, Select, RowsOf
        <4> QED
          BY <1>8, <3>1, <4>1 DEF RowsInTransit
      <3>4. l \in Lines /\ l.dispatched = l.qty /\ Cardinality(C) >= l.qty
        BY <1>1, <1>2, <1>4 DEF LedgerSound
      <3>5. Outstanding(l) <= l.qty
        BY <3>4 DEF Outstanding, Lines
      <3>6. C \subseteq restored
        BY <1>11
      <3> HIDE DEF C, R, l
      <3>7. Cardinality(C) <= Cardinality(R) /\ (Cardinality(R) = Cardinality(C) => R = C)
        BY <3>2, <3>3, FS_Subset
      <3>8. Cardinality(C) \in Nat /\ l.qty \in Nat
        BY <3>2, <3>3, <3>4, FS_Subset, FS_CardinalityType DEF Lines
      <3>9. R = C
        BY <3>2, <3>4, <3>5, <3>7, <3>8
      <3> QED
        BY <2>1, <2>3, <3>6, <3>9 DEF R
    <2> QED
      BY <2>2, <2>3
  <1>13. Accounts(t, h)
    BY <1>3, <1>7, <1>12 DEF Accounts
  <1> QED
    BY <1>13

\* A draft that is dispatched takes as many rows of a SKU as its line asks for.
LEMMA UnitsDispatched ==
  ASSUME IInv, NEW t \in Transfers, Dispatch(t), NEW n \in DOMAIN transfers[t].lines,
         NEW sku \in Skus, transfers[t].lines[n].what = sku,
         NEW s, s = transfers[t].origin, NEW from, from = transfers[t].lines[n].from,
         NEW qty, qty = transfers[t].lines[n].qty
  PROVE  LET rows == Oldest(Select(sku, OwnStores(sku, s), {from}), qty)
         IN  /\ qty \in Nat /\ qty > 0
             /\ rows \subseteq Bulk /\ Cardinality(rows) = qty
             /\ \A x \in rows : /\ SkuOf[x] = sku /\ stock[x].state = "in_stock"
                                /\ stock[x].store = s /\ stock[x].place = from
  <1> DEFINE l == transfers[t].lines[n]
             J == Select(sku, OwnStores(sku, s), {from})
             q == [what |-> l.what, qty |-> l.qty, at |-> {l.from}]
  <1>1. l \in Lines /\ l \in Range(transfers[t].lines) /\ Sound(transfers[t])
    BY LineTyped DEF IInv
  <1>2. qty \in Nat /\ qty > 0
    BY <1>1 DEF Sound, Lines
  <1>3. Available(q, t, s)
    BY <1>1 DEF Dispatch, StillValid
  <1>4. q.what = sku /\ q.qty = qty /\ q.at = {from}
    OBVIOUS
  <1> HIDE DEF q
  <1>5. Cardinality(J) >= qty
    BY <1>3, <1>4 DEF Available
  <1>6. sku \notin Tags /\ OwnStores(sku, s) = {s} /\ J \subseteq Bulk
    BY RowsAssumption DEF OwnStores, Select, RowsOf
  <1>7. J \in SUBSET Nat /\ IsFiniteSet(J) /\ Cardinality(J) \in Nat
    BY <1>6, RowsAssumption, TablesAssumption, FS_Subset, FS_CardinalityType
  <1>8. \A x \in J : /\ SkuOf[x] = sku /\ stock[x].state = "in_stock"
                     /\ stock[x].store = s /\ stock[x].place = from
    BY <1>6, SkuSelected
  <1> HIDE DEF J
  <1>9. Cardinality(Oldest(J, qty)) = IF Cardinality(J) < qty THEN Cardinality(J) ELSE qty
    BY <1>2, <1>7, OldestCount
  <1>10. Cardinality(Oldest(J, qty)) = qty
    BY <1>2, <1>5, <1>7, <1>9
  <1>11. Oldest(J, qty) \subseteq J
    BY OldestSubset
  <1> QED
    BY <1>2, <1>6, <1>8, <1>10, <1>11 DEF J

\* A draft leaves with its rows, and none of its SKUs was in transit from the
\* origin, where no other transfer may hold it now.
LEMMA DispatchAccounts ==
  ASSUME IInv, TagsOK, Ledger, Apart', NEW t \in Transfers, Dispatch(t)
  PROVE  \E h : Accounts(t, h)
  <1> DEFINE old == transfers[t]
             lines == [n \in DOMAIN old.lines |->
                         [old.lines[n] EXCEPT !.dispatched = old.lines[n].qty]]
             h == [old EXCEPT !.status = "DISPATCHED", !.lines = lines]
             rows(l) == Oldest(Select(l.what, OwnStores(l.what, old.origin), {l.from}), l.qty)
             taken == UNION {rows(l) : l \in Range(old.lines)}
  <1>1. /\ old \in Headers /\ old.status = "DRAFT" /\ Sound(old) /\ LedgerSound(old) /\ TagSound(old)
        /\ old.status \notin Travelling
    BY DEF Dispatch, IInv, TypeOK, TagsOK, Ledger, Travelling
  <1>2. \A n \in DOMAIN old.lines : old.lines[n] \in Lines /\ old.lines[n] \in Range(old.lines)
    BY LineTyped DEF IInv
  <1>3. \A n \in DOMAIN old.lines :
          /\ lines[n].what = old.lines[n].what /\ lines[n].from = old.lines[n].from
          /\ lines[n].qty = old.lines[n].qty /\ lines[n].dispatched = old.lines[n].qty
          /\ lines[n].received = 0 /\ lines[n].lost = 0
          /\ Outstanding(lines[n]) = old.lines[n].qty /\ old.lines[n].qty > 0
          /\ old.lines[n].qty \in Nat
    BY <1>1, <1>2 DEF Lines, Sound, Outstanding
  <1>4. stock' = [i \in Items |-> IF i \in taken
                   THEN [stock[i] EXCEPT !.store = old.origin, !.place = InTransit] ELSE stock[i]]
    BY DEF Dispatch
  <1>5. transfers' = [transfers EXCEPT ![t] = h]
    BY DEF Dispatch, IInv, TypeOK
  <1>6. DOMAIN lines = DOMAIN old.lines
    OBVIOUS
  <1> HIDE DEF lines
  <1>7. h.status = "DISPATCHED" /\ h.lines = lines /\ h.origin = old.origin
    BY <1>1 DEF Headers
  <1> HIDE DEF h
  <1>8. /\ transfers'[t] = h /\ \A u \in Transfers \ {t} : transfers'[u] = transfers[u]
        /\ \A sku, s : ~Held(old, sku, s)
    BY <1>1, <1>5 DEF IInv, TypeOK, Held
  <1>9. ASSUME NEW sku \in Skus, NEW s \in Stores \cup {NoStore}, Held(h, sku, s)
        PROVE  RowsInTransit(sku, s) = {}
    <2>1. s \in Stores
      BY <1>1, <1>7, <1>9 DEF Held, TagSound
    <2>2. ASSUME NEW u \in Transfers, Held(transfers[u], sku, s) PROVE FALSE
      <3>1. u # t
        BY <1>8, <2>2
      <3>2. Held(transfers'[u], sku, s) /\ Held(transfers'[t], sku, s)
        BY <1>8, <1>9, <2>2, <3>1
      <3>3. \A v, w \in Transfers : Held(transfers'[v], sku, s) /\ Held(transfers'[w], sku, s) => v = w
        BY <2>1 DEF Apart, Held
      <3> QED
        BY <3>1, <3>2, <3>3
    <2> QED
      BY <2>2 DEF Ledger, Balanced
  <1>10. ASSUME NEW n \in DOMAIN old.lines, NEW sku \in Skus, old.lines[n].what = sku
         PROVE  /\ rows(old.lines[n]) \subseteq Bulk
                /\ Cardinality(rows(old.lines[n])) = old.lines[n].qty
                /\ rows(old.lines[n]) \subseteq taken
                /\ \A x \in rows(old.lines[n]) :
                     /\ SkuOf[x] = sku /\ stock[x].state = "in_stock"
                     /\ stock[x].store = old.origin /\ stock[x].place = old.lines[n].from
    <2>1. PICK s, from, qty : s = old.origin /\ from = old.lines[n].from /\ qty = old.lines[n].qty
      OBVIOUS
    <2> DEFINE J == Oldest(Select(sku, OwnStores(sku, s), {from}), qty)
    <2>2. /\ J \subseteq Bulk /\ Cardinality(J) = qty
          /\ \A x \in J : /\ SkuOf[x] = sku /\ stock[x].state = "in_stock"
                          /\ stock[x].store = s /\ stock[x].place = from
      BY <1>10, <2>1, UnitsDispatched
    <2>3. J = rows(old.lines[n])
      BY <1>10, <2>1
    <2>4. rows(old.lines[n]) \subseteq taken
      BY <1>2
    <2> QED
      BY <2>1, <2>2, <2>3, <2>4
  <1>11. ASSUME NEW x \in Bulk, x \in taken
         PROVE  \E n \in DOMAIN old.lines : x \in rows(old.lines[n]) /\ old.lines[n].what = SkuOf[x]
    <2>1. PICK n \in DOMAIN old.lines : x \in rows(old.lines[n])
      BY <1>11 DEF Range
    <2>2. x \in Select(old.lines[n].what, OwnStores(old.lines[n].what, old.origin), {old.lines[n].from})
      BY <2>1, OldestSubset
    <2>3. old.lines[n].what \in Tags \cup Skus
      BY <1>2 DEF Lines
    <2>4. old.lines[n].what = SkuOf[x]
      BY <2>2, <2>3, SkuSelected
    <2> QED
      BY <2>1, <2>4
  <1> HIDE DEF taken
  <1>12. ASSUME NEW x \in Bulk
         PROVE  /\ stock'[x].state = stock[x].state
                /\ IF x \in taken THEN stock'[x].store = old.origin /\ stock'[x].place = InTransit
                                  ELSE stock'[x] = stock[x]
    <2>1. x \in Items /\ stock[x] \in Rows
      BY BulkRow DEF IInv
    <2> QED
      BY <1>4, <2>1 DEF Rows
  <1>13. LedgerSound(h)
    <2>1. \A m, n \in DOMAIN old.lines : lines[m].what = lines[n].what => m = n
      BY <1>1, <1>3 DEF LedgerSound
    <2>2. ASSUME NEW n \in DOMAIN old.lines, old.lines[n].what \in Skus
          PROVE  old.lines[n].from # InTransit
      <3>1. SUFFICES ASSUME old.lines[n].from = InTransit PROVE FALSE
        OBVIOUS
      <3>2. PICK sku \in Skus, s \in Stores : sku = old.lines[n].what /\ s = old.origin
        BY <1>1, <2>2 DEF TagSound
      <3>3. Held(h, sku, s)
        BY <1>3, <1>6, <1>7, <3>2 DEF Held, Travelling
      <3> DEFINE C == rows(old.lines[n])
      <3>4. C \subseteq Bulk /\ Cardinality(C) = old.lines[n].qty
        BY <1>10, <3>2
      <3>5. \A x \in C : /\ SkuOf[x] = sku /\ stock[x].state = "in_stock"
                         /\ stock[x].store = s /\ stock[x].place = InTransit
        BY <1>10, <3>1, <3>2
      <3> HIDE DEF C
      <3>6. C # {}
        <4>1. Cardinality(C) # 0
          BY <1>3, <3>4
        <4> QED
          BY <4>1, FS_EmptySet
      <3>7. C \subseteq RowsInTransit(sku, s)
        BY <3>4, <3>5 DEF RowsInTransit
      <3> QED
        BY <1>9, <3>3, <3>6, <3>7
    <2>3. \A n \in DOMAIN old.lines :
            /\ lines[n].received + lines[n].lost <= lines[n].dispatched
            /\ lines[n].dispatched = lines[n].qty
            /\ lines[n].what \in Skus => lines[n].from # InTransit
      BY <1>3, <2>2
    <2> QED
      BY <1>6, <1>7, <2>1, <2>3 DEF LedgerSound
  <1>14. ASSUME NEW sku \in Skus, NEW s \in Stores \cup {NoStore}
         PROVE  \/ RowsInTransit(sku, s)' = RowsInTransit(sku, s) /\ ~Held(h, sku, s)
                \/ /\ Held(h, sku, s)
                   /\ \E n \in DOMAIN h.lines : /\ h.lines[n].what = sku
                        /\ Cardinality(RowsInTransit(sku, s)') = Outstanding(h.lines[n])
    <2>1. RowsInTransit(sku, s)' = {x \in Bulk : /\ SkuOf[x] = sku /\ stock'[x].state # "deleted"
                                                 /\ stock'[x].store = s /\ stock'[x].place = InTransit}
      BY DEF RowsInTransit
    <2>2. CASE ~Held(h, sku, s)
      <3>1. ASSUME NEW x \in Bulk, SkuOf[x] = sku, x \in taken
            PROVE  stock[x].store # s /\ stock'[x].store # s
        <4>1. PICK n \in DOMAIN old.lines : x \in rows(old.lines[n]) /\ old.lines[n].what = sku
          BY <1>11, <3>1
        <4>2. old.origin # s
          BY <1>3, <1>6, <1>7, <2>2, <4>1 DEF Held, Travelling
        <4>3. stock[x].store = old.origin
          BY <1>10, <4>1
        <4> QED
          BY <1>12, <3>1, <4>2, <4>3
      <3>2. \A x \in Bulk : SkuOf[x] = sku /\ x \notin taken => stock'[x] = stock[x]
        BY <1>12
      <3>3. RowsInTransit(sku, s)' = RowsInTransit(sku, s)
        BY ONLY <2>1, <3>1, <3>2 DEF RowsInTransit
      <3> QED
        BY <2>2, <3>3
    <2>3. CASE Held(h, sku, s)
      <3>1. PICK n \in DOMAIN old.lines : old.lines[n].what = sku /\ s = old.origin
        BY <1>3, <1>6, <1>7, <2>3 DEF Held
      <3> DEFINE C == rows(old.lines[n])
      <3>2. /\ C \subseteq Bulk /\ Cardinality(C) = old.lines[n].qty /\ C \subseteq taken
            /\ \A x \in C : SkuOf[x] = sku /\ stock[x].state = "in_stock"
        BY <1>10, <3>1
      <3>3. RowsInTransit(sku, s) = {}
        BY <1>9, <2>3
      <3>4. ASSUME NEW x \in Bulk, SkuOf[x] = sku, x \in taken PROVE x \in C
        <4>1. PICK m \in DOMAIN old.lines : x \in rows(old.lines[m]) /\ old.lines[m].what = sku
          BY <1>11, <3>4
        <4>2. m = n
          BY <1>1, <3>1, <4>1 DEF LedgerSound
        <4> QED
          BY <4>1, <4>2
      <3> HIDE DEF C
      <3>5. ASSUME NEW x \in Bulk
            PROVE  x \in RowsInTransit(sku, s)' <=> x \in C
        <4>1. CASE x \in C
          BY <1>12, <2>1, <3>1, <3>2, <4>1
        <4>2. CASE x \notin C
          <5>1. SUFFICES ASSUME x \in RowsInTransit(sku, s)' PROVE FALSE
            BY <4>2
          <5>2. SkuOf[x] = sku /\ stock'[x].state # "deleted" /\ stock'[x].store = s /\ stock'[x].place = InTransit
            BY <2>1, <5>1
          <5>3. stock'[x] = stock[x]
            BY <1>12, <3>4, <4>2, <5>2
          <5>4. x \in RowsInTransit(sku, s)
            BY <5>2, <5>3 DEF RowsInTransit
          <5> QED
            BY <3>3, <5>4
        <4> QED
          BY <4>1, <4>2
      <3>6. RowsInTransit(sku, s)' = C
        BY <2>1, <3>2, <3>5
      <3>7. Cardinality(RowsInTransit(sku, s)') = Outstanding(lines[n])
        BY <1>3, <3>2, <3>6
      <3> QED
        BY <1>3, <1>6, <1>7, <2>3, <3>1, <3>7
    <2> QED
      BY <2>2, <2>3
  <1>15. Accounts(t, h)
    BY <1>5, <1>8, <1>13, <1>14 DEF Accounts
  <1> QED
    BY <1>15

\* Every step: a sale keeps the ledger, any other step replaces one header.
LEMMA NextAccounts ==
  ASSUME IInv, TagsOK, Ledger, Careful, Apart', Next
  PROVE  Ledger' \/ \E t, h : Accounts(t, h)
  <1>1. ASSUME NEW t \in Transfers, NEW o \in Stores, NEW d \in Stores,
               \/ \E asked \in Requests : Create(t, o, d, asked) \/ UpdateLines(t, o, d, asked)
               \/ UpdateRoute(t, o, d)
        PROVE  \E h : Accounts(t, h)
    BY <1>1, DraftAccounts, UpdateRouteAccounts DEF Create, UpdateLines, Travelling
  <1>2. ASSUME NEW t \in Transfers, Dispatch(t) \/ CancelDraft(t) \/ CancelDispatched(t)
        PROVE  \E h : Accounts(t, h)
    BY <1>2, DispatchAccounts, CancelDraftAccounts, CancelDispatchedAccounts
  <1>3. ASSUME NEW t \in Transfers, NEW b \in Batches(t),
               \/ \E p \in Places : Receive(t, b, p)
               \/ ReportShortages(t, b) \/ ResolveFound(t, b) \/ ResolveLost(t, b)
        PROVE  \E h : Accounts(t, h)
    BY <1>3, ReceiveAccounts, ReportShortagesSettles, ResolveFoundSettles, NothingAccounts,
       ResolveLostAccounts
  <1>4. ASSUME NEW w \in Tags \cup Skus, NEW s \in Stores, NEW p, Sell(w, s, p)
        PROVE  Ledger'
    BY <1>4, SellLedger
  <1> QED
    BY <1>1, <1>2, <1>3, <1>4 DEF Next

\* Ledger is inductive while transfers with the same SKU stay apart.
LEMMA NextLedger ==
  IInv /\ IInv' /\ TagsOK /\ TagsOK' /\ Ledger /\ Careful /\ Apart /\ Apart' /\ [Next]_vars => Ledger'
  <1> SUFFICES ASSUME IInv, TagsOK, TagsOK', Ledger, Careful, Apart, Apart', [Next]_vars
               PROVE  Ledger'
    OBVIOUS
  <1>1. CASE Next
    BY <1>1, NextAccounts, AccountsLedger
  <1>2. CASE UNCHANGED vars
    <2>1. transfers' = transfers /\ stock' = stock
      BY <1>2 DEF vars
    <2>2. (\A t \in Transfers : LedgerSound(transfers[t]))'
      BY <2>1 DEF Ledger, LedgerSound
    <2>3. ASSUME NEW sku \in Skus, NEW s \in Stores \cup {NoStore} PROVE Balanced(sku, s)'
      BY <2>1 DEF Ledger, Balanced, Held, RowsInTransit, Outstanding
    <2> QED
      BY <2>2, <2>3 DEF Ledger
  <1> QED
    BY <1>1, <1>2

\* At first there is no transfer, and nothing is in transit.
LEMMA InitLedger == Init => Ledger
  <1> SUFFICES ASSUME Init PROVE Ledger
    OBVIOUS
  <1>1. \A t \in Transfers : transfers[t] = NoTransfer
    BY DEF Init
  <1>2. LedgerSound(NoTransfer) /\ \A sku, s : ~Held(NoTransfer, sku, s)
    BY DEF NoTransfer, LedgerSound, Held, Travelling
  <1>3. \A i \in Items : stock[i].place \in Places
    BY DEF Init
  <1>4. \A sku, s : RowsInTransit(sku, s) = {}
    BY <1>3, NamesAssumption DEF RowsInTransit, Items, InTransit
  <1> QED
    BY <1>1, <1>2, <1>4 DEF Ledger, Balanced

\* What ReceivedWithinDispatched says of a line is a part of Ledger.
LEMMA LedgerWithin ==
  ASSUME IInv, Ledger
  PROVE  ReceivedWithinDispatched
  BY DEF Ledger, LedgerSound, ReceivedWithinDispatched, Range

(***************************************************************************)
(* The theorems                                                            *)
(***************************************************************************)

\* IInv is an invariant of transfers.
THEOREM SpecIInv == Spec => []IInv
  BY InitIInv, NextIInv, PTL DEF Spec

\* Rows and transfers keep their types.
THEOREM SpecTypeOK == Spec => []TypeOK
  <1>1. IInv => TypeOK
    BY DEF IInv
  <1> QED
    BY <1>1, SpecIInv, PTL

\* An EPC is in at most one transfer under way: the conflict check suffices,
\* whatever drafts of other stores name the same EPC.
THEOREM SpecTagInOneOpenTransfer == Spec => []TagInOneOpenTransfer
  <1>1. IInv => TagInOneOpenTransfer
    BY DEF IInv
  <1> QED
    BY <1>1, SpecIInv, PTL

\* A transfer is open exactly while something is outstanding.
THEOREM SpecOpenIffOutstanding == Spec => []OpenIffOutstanding
  <1>1. IInv => OpenIffOutstanding
    BY DEF IInv, Sound, OpenIffOutstanding
  <1> QED
    BY <1>1, SpecIInv, PTL

\* Nothing received is ever cancelled.
THEOREM SpecNoCancelAfterReception == Spec => []NoCancelAfterReception
  <1>1. IInv => NoCancelAfterReception
    BY DEF IInv, Sound, NoCancelAfterReception, Range
  <1> QED
    BY <1>1, SpecIInv, PTL

\* TagsOK is an invariant of transfers, and with it what it says of rows.
LEMMA SpecTagsOK == Spec => []TagsOK
  BY InitTagsOK, NextTagsOK, SpecIInv, PTL DEF Spec

\* The row of an EPC is in transit exactly while the one transfer that took it
\* still has it outstanding, and belongs to the origin of that transfer.
THEOREM SpecTagInTransitIffOutstanding == Spec => []TagInTransitIffOutstanding
  <1>1. TagsOK => TagInTransitIffOutstanding
    BY CargoIsCarried DEF TagsOK, Located, TagInTransitIffOutstanding
  <1> QED
    BY <1>1, SpecTagsOK, PTL

\* Transfers implement Custody: an item with an EPC changes store only aboard
\* the one transfer that took it, and is put down or lost once.
THEOREM SpecImplementsCustody == Spec => ImplementsCustody
  <1>1. Spec => [](IInv /\ TagsOK /\ CarriersOK)
    BY SpecIInv, SpecTagsOK, CarriersAreRight, PTL
  <1> QED
    BY <1>1, InitPromise, NextPromise, PTL DEF Spec, ImplementsCustody, Promise!Spec

\* Ledger is an invariant while transfers with the same SKU stay apart.
LEMMA SpecLedger ==
  ASSUME Careful
  PROVE  Spec /\ []Apart => []Ledger
  <1>1. Spec => [](IInv /\ TagsOK)
    BY SpecIInv, SpecTagsOK, PTL
  <1>2. IInv /\ IInv' /\ TagsOK /\ TagsOK' /\ Ledger /\ Apart /\ Apart' /\ [Next]_vars => Ledger'
    BY NextLedger
  <1> QED
    BY <1>1, <1>2, InitLedger, PTL DEF Spec

\* receive and LOST_IN_ROUTE book no more on a line than was dispatched, as long
\* as no second transfer with the same SKU leaves the same store meanwhile: the
\* rows they settle are the rows in transit from the origin, whose number is
\* then what the line has outstanding.
THEOREM SpecReceivedWithinDispatched ==
  ASSUME Careful
  PROVE  Spec /\ []Apart => []ReceivedWithinDispatched
  <1>1. Spec /\ []Apart => []Ledger
    BY SpecLedger
  <1> QED
    BY <1>1, SpecIInv, LedgerWithin, PTL

\* The rows of a SKU in transit from a store are what the lines of its transfers
\* have outstanding: under the same condition dispatch, receive, LOST_IN_ROUTE
\* and cancel move as many rows as they book, and a line is never left with
\* units that no row can settle.
THEOREM SpecTransitMatchesLedger ==
  ASSUME Careful
  PROVE  Spec /\ []Apart => []TransitMatchesLedger
  <1>1. Spec /\ []Apart => []Ledger
    BY SpecLedger
  <1> QED
    BY <1>1, SpecIInv, LedgerMatches, PTL

\* receive and LOST_IN_ROUTE book the unit of an EPC once, whatever transfers
\* travel together and whatever SKU lines name, unless one request names the
\* line twice: a second request finds no row in transit.
THEOREM SpecTagsWithinDispatched ==
  ASSUME "repeat_line" \notin Client
  PROVE  Spec => []TagsWithinDispatched
  <1>1. Init => TagsWithinDispatched
    <2>1. Init => \A t \in Transfers : transfers[t] = NoTransfer
      BY DEF Init
    <2>2. TagLines(NoTransfer)
      BY DEF TagLines, NoTransfer
    <2> QED
      BY <2>1, <2>2 DEF TagsWithinDispatched
  <1>2. IInv /\ TagsOK /\ TagsWithinDispatched /\ [Next]_vars => TagsWithinDispatched'
    BY NextTagLines
  <1> QED
    BY <1>1, <1>2, SpecIInv, SpecTagsOK, PTL DEF Spec
=============================================================================
