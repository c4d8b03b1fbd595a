------------------------------- MODULE Custody -------------------------------
(***************************************************************************)
(* What transfers promise for an item with an EPC: it changes store only   *)
(* aboard a carrier, which takes it at its store, at most once, and puts   *)
(* it down at one place: the destination, or the store it came from.       *)
(***************************************************************************)
CONSTANTS Tags, Stores, NoStore, Carriers, Nobody

VARIABLES
  store,    \* tag -> the store accountable for the item
  carrier,  \* tag -> who carries it, or Nobody
  present,  \* the tags whose item is neither sold nor lost
  departed  \* the carriers that have left

vars == <<store, carrier, present, departed>>

Init ==
  /\ store \in [Tags -> Stores \cup {NoStore}]
  /\ carrier = [tag \in Tags |-> Nobody]
  /\ present = Tags
  /\ departed = {}

\* Items of no store become those of one store.
Adopt(items, s) ==
  /\ \A tag \in items : tag \in present /\ store[tag] = NoStore /\ carrier[tag] = Nobody
  /\ store' = [tag \in Tags |-> IF tag \in items THEN s ELSE store[tag]]
  /\ UNCHANGED <<carrier, present, departed>>

Depart(c, items, s) ==
  /\ c \notin departed
  /\ \A tag \in items :
       tag \in present /\ carrier[tag] = Nobody /\ store[tag] \in {s, NoStore}
  /\ store' = [tag \in Tags |-> IF tag \in items THEN s ELSE store[tag]]
  /\ carrier' = [tag \in Tags |-> IF tag \in items THEN c ELSE carrier[tag]]
  /\ departed' = departed \cup {c}
  /\ UNCHANGED present

Aboard(c, items) == \A tag \in items : tag \in present /\ carrier[tag] = c

Unload(items) == carrier' = [tag \in Tags |-> IF tag \in items THEN Nobody ELSE carrier[tag]]

Arrive(c, items, s) ==
  /\ Aboard(c, items)
  /\ \A tag \in items : store[tag] # s
  /\ Unload(items)
  /\ store' = [tag \in Tags |-> IF tag \in items THEN s ELSE store[tag]]
  /\ UNCHANGED <<present, departed>>

\* A carrier turns back with everything it carries.
Return(c) ==
  /\ \E items \in SUBSET Tags :
       /\ Aboard(c, items)
       /\ \A tag \in Tags \ items : carrier[tag] # c
       /\ Unload(items)
  /\ UNCHANGED <<store, present, departed>>

Lose(c, items) ==
  /\ Aboard(c, items)
  /\ Unload(items)
  /\ present' = present \ items
  /\ UNCHANGED <<store, departed>>

Sell(tag) ==
  /\ tag \in present
  /\ store[tag] # NoStore
  /\ present' = present \ {tag}
  /\ UNCHANGED <<store, carrier, departed>>

Next ==
  \/ \E items \in SUBSET Tags, s \in Stores :
       \/ Adopt(items, s)
       \/ \E c \in Carriers : Depart(c, items, s) \/ Arrive(c, items, s)
  \/ \E c \in Carriers : Return(c) \/ \E items \in SUBSET Tags : Lose(c, items)
  \/ \E tag \in Tags : Sell(tag)

Spec == Init /\ [][Next]_vars
=============================================================================
