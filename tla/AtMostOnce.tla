----------------------------- MODULE AtMostOnce -----------------------------
(***************************************************************************)
(* What the idempotency protocol promises to the clients, without rows,    *)
(* handlers or races: a key is claimed by one request at a time, a claim   *)
(* gives the right to one effect, and an outcome is reported only to those *)
(* who sent the same key and payload as the request that produced it.      *)
(***************************************************************************)
CONSTANTS Requests, Nobody

VARIABLES
  asked,      \* Requests -> what the client sent: key and fingerprint
  claim,      \* key -> the request it belongs to, or Nobody
  tickets,    \* requests that may still commit an effect
  applied,    \* requests that committed one
  answer      \* Requests -> the response given

vars == <<asked, claim, tickets, applied, answer>>

Unanswered(r) == answer[r].kind = "none"

Init ==
  /\ claim = [k \in DOMAIN claim |-> Nobody]
  /\ tickets = {}
  /\ applied = {}
  /\ \A r \in Requests : Unanswered(r)

Claim(r) ==
  /\ Unanswered(r)
  /\ claim[asked[r].key] = Nobody
  /\ claim' = [claim EXCEPT ![asked[r].key] = r]
  /\ tickets' = tickets \cup {r}
  /\ UNCHANGED <<asked, applied, answer>>

Perform(r) ==
  /\ r \in tickets
  /\ applied' = applied \cup {r}
  /\ tickets' = tickets \ {r}
  /\ UNCHANGED <<asked, claim, answer>>

Abandon(r) ==
  /\ r \in tickets
  /\ tickets' = tickets \ {r}
  /\ UNCHANGED <<asked, claim, applied, answer>>

\* An outcome comes from a request that sent the same and can commit no more.
Reportable(r, a) ==
  CASE a.kind = "result"  -> a.by \in applied /\ asked[a.by] = asked[r]
    [] a.kind = "failure" -> a.by \in Requests \ tickets /\ asked[a.by] = asked[r]
    [] OTHER              -> a.kind \in {"key_reused", "in_progress", "unrecorded"}

Reply(r) ==
  /\ Unanswered(r)
  /\ r \notin tickets
  /\ \E a \in {answer'[r]} : Reportable(r, a) /\ answer' = [answer EXCEPT ![r] = a]
  /\ UNCHANGED <<asked, claim, tickets, applied>>

\* An administrator wipes the tenant's keys; tickets already given stay valid.
Forget ==
  /\ claim' = [k \in DOMAIN claim |-> Nobody]
  /\ UNCHANGED <<asked, tickets, applied, answer>>

Next ==
  \/ \E r \in Requests : Claim(r) \/ Perform(r) \/ Abandon(r) \/ Reply(r)
  \/ Forget

Spec == Init /\ [][Next]_vars
=============================================================================
