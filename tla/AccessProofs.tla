---------------------------- MODULE AccessProofs ----------------------------
(***************************************************************************)
(* The policies for any users, permissions, targets and number of          *)
(* concurrent rewrites.                                                    *)
(***************************************************************************)
EXTENDS Access, TLAPS

(***************************************************************************)
(* The steps, by what they do to policies and requests.                    *)
(***************************************************************************)
\* Users, roles and tokens: policies, requests and the ceiling are as before,
\* but for the overrides of a user that is removed.
People ==
  /\ UNCHANGED <<req, ceiling>>
  /\ \/ UNCHANGED policy /\ \A u \in Users : Exists(u) => Exists(u)'
     \/ \E u \in Users : RemoveUser(u)

Asks ==
  \E r \in Requests :
    /\ req[r] = Idle
    /\ UNCHANGED <<policy, role, active, tokens, ceiling>>
    /\ \/ \E t \in Targets, allow, deny \in Fields, root \in BOOLEAN :
            req' = [req EXCEPT ![r] = [phase |-> "asked", target |-> t, allow |-> allow,
                                       deny |-> deny, root |-> root, before |-> policy[t]]]
       \/ req' = [req EXCEPT ![r] = [phase |-> "done", answer |-> "in_progress"]]

\* What the types need of the users.
PeopleTyped ==
  /\ role' \in [Users -> Roles \cup {"none", "gone"}]
  /\ active' \subseteq Users /\ tokens' \subseteq Tokens

LEMMA NextCases ==
  ASSUME TypeOK, Next
  PROVE  \/ People /\ PeopleTyped
         \/ Asks
         \/ \E r \in Requests : Sweep(r) \/ Store(r)
  <1>1. ASSUME NEW u \in Users, Login(u) PROVE People /\ PeopleTyped
    <2>1. [user |-> u, role |-> role[u]] \in Tokens
      BY <1>1 DEF Login, Exists, Tokens
    <2> QED
      BY <1>1, <2>1 DEF Login, People, PeopleTyped, Exists, TypeOK
  <1>2. ASSUME NEW k \in tokens, Expire(k) PROVE People /\ PeopleTyped
    BY <1>2 DEF Expire, People, PeopleTyped, Exists, TypeOK
  <1>3. ASSUME NEW k, NEW u \in Users, SetStatus(k, u) PROVE People /\ PeopleTyped
    BY <1>3 DEF SetStatus, People, PeopleTyped, Exists, TypeOK
  <1>4. ASSUME NEW k, NEW u \in Users, DeleteUser(k, u) \/ PurgeUser(k, u)
        PROVE  People /\ PeopleTyped
    <2>1. RemoveUser(u)
      BY <1>4 DEF DeleteUser, PurgeUser
    <2> QED
      BY <2>1 DEF RemoveUser, People, PeopleTyped, TypeOK
  <1>5. ASSUME NEW k, NEW u \in Users, NEW ro \in Roles, CreateUser(k, u, ro) \/ SetRole(k, u, ro)
        PROVE  People /\ PeopleTyped
    BY <1>5 DEF CreateUser, SetRole, People, PeopleTyped, Exists, TypeOK
  <1>6. ASSUME NEW r \in Requests, NEW k, NEW t, NEW allow \in Fields, NEW deny \in Fields,
               Ask(r, k, t, allow, deny)
        PROVE  Asks
    <2>1. Super(k) \in BOOLEAN
      BY DEF Super
    <2> QED
      BY <1>6, <2>1 DEF Ask, Asks
  <1>7. SUBSET Perms \subseteq Fields /\ {} \in Fields
    BY DEF Fields
  <1>8. ASSUME NEW r \in Requests, NEW k, NEW t \in Targets, PatchUnscoped(r, k, t) PROVE Asks
    BY <1>8 DEF PatchUnscoped, Asks
  <1>9. ASSUME NEW k, NEW r \in Requests, NEW allow \in SUBSET Perms,
               \/ \E ro \in Roles : AskTemplate(r, k, ro, allow)
               \/ \E ro \in PolicyRoles, deny \in SUBSET Perms :
                    AskTenantRole(r, k, ro, allow, deny) \/ AskStoreRole(r, k, ro, allow, deny)
               \/ \E u \in Users, deny \in SUBSET Perms : ReplaceOverrides(r, k, u, allow, deny)
        PROVE  Asks
    BY <1>6, <1>7, <1>9 DEF AskTemplate, AskTenantRole, AskStoreRole, ReplaceOverrides
  <1>10. ASSUME NEW k, NEW r \in Requests, NEW u \in Users, NEW allow \in Fields, NEW deny \in Fields,
                PatchOverrides(r, k, u, allow, deny)
         PROVE  Asks
    BY <1>6, <1>10 DEF PatchOverrides
  <1> QED
    BY <1>1, <1>2, <1>3, <1>4, <1>5, <1>8, <1>9, <1>10 DEF Next

(***************************************************************************)
(* The inductive invariant: what a request that has swept will store.      *)
(***************************************************************************)
Denied(entries) == {e.perm : e \in {x \in entries : x.effect = "deny"}}

SweptOK(q) ==
  q.phase = "swept" =>
    /\ q.allow \cap q.deny = {}
    /\ ~q.root => q.allow \subseteq ceiling
    /\ ~q.explicit => q.deny = Denied(q.before)

Unique == \A t \in Targets : \A a, b \in policy[t] : a.perm = b.perm => a = b

TemplateWithin == Template("ADMIN") \subseteq ceiling

IInv ==
  /\ TypeOK /\ Unique /\ TemplateWithin /\ GrantsWithinCeiling /\ OverridesFollowUser
  /\ \A r \in Requests : SweptOK(req[r])

LEMMA InitIInv == Init => IInv
  <1> SUFFICES ASSUME Init PROVE IInv
    OBVIOUS
  <1> DEFINE first(t) == {Entry(p, "allow", Keep, TRUE) : p \in Defaults[t[2]]}
  <1>1. \A t \in Targets : t[1] = "template" => Defaults[t[2]] \subseteq Perms
    BY TargetsAssumption, DefaultsAssumption DEF Roles, PolicyRoles
  <1>2. ASSUME NEW t \in Targets, t[1] = "template"
        PROVE  /\ first(t) \in SUBSET Entries
               /\ \A e \in first(t) : e = Entry(e.perm, "allow", Keep, TRUE) /\ e.perm \in Defaults[t[2]]
    <2>1. \A p \in Perms : /\ Entry(p, "allow", Keep, TRUE) \in Entries
                           /\ Entry(p, "allow", Keep, TRUE).perm = p
      BY DEF Entry, Entries
    <2>2. \A e \in first(t) : \E p \in Defaults[t[2]] : e = Entry(p, "allow", Keep, TRUE)
      OBVIOUS
    <2> HIDE DEF first
    <2> QED
      BY <1>1, <1>2, <2>1, <2>2
  <1>3. \A t \in Targets : policy[t] = IF t[1] = "template" THEN first(t) ELSE {}
    BY DEF Init
  <1>4. policy \in [Targets -> SUBSET Entries]
    BY <1>2, <1>3 DEF Init
  <1>5. TypeOK
    BY <1>4, DefaultsAssumption DEF Init, TypeOK, Roles
  <1> HIDE DEF first
  <1>6. Unique
    <2> SUFFICES ASSUME NEW t \in Targets, NEW a \in policy[t], NEW b \in policy[t], a.perm = b.perm
                 PROVE  a = b
      BY DEF Unique
    <2>1. t[1] = "template" /\ a \in first(t) /\ b \in first(t)
      BY <1>3
    <2>2. a = Entry(a.perm, "allow", Keep, TRUE) /\ b = Entry(b.perm, "allow", Keep, TRUE)
      BY <1>2, <2>1
    <2> QED
      BY <2>2
  <1>7. TemplateWithin
    <2>1. CASE <<"template", "ADMIN">> \in Targets
      <3>1. \A e \in policy[<<"template", "ADMIN">>] : e.perm \in Defaults["ADMIN"]
        <4> DEFINE t == <<"template", "ADMIN">>
        <4>1. t \in Targets /\ t[1] = "template" /\ t[2] = "ADMIN"
          BY <2>1
        <4>2. policy[t] = first(t)
          BY <1>3, <4>1
        <4> HIDE DEF t
        <4>3. \A e \in policy[t] : e.perm \in Defaults["ADMIN"]
          BY <1>2, <4>1, <4>2
        <4> QED
          BY <4>3 DEF t
      <3> QED
        BY <2>1, <3>1 DEF TemplateWithin, Template, Of, Init
    <2>2. CASE <<"template", "ADMIN">> \notin Targets
      BY <2>2 DEF TemplateWithin, Template, Init
    <2> QED
      BY <2>1, <2>2
  <1>8. GrantsWithinCeiling /\ OverridesFollowUser
    BY <1>3 DEF GrantsWithinCeiling, OverridesFollowUser
  <1>9. \A r \in Requests : SweptOK(req[r])
    BY DEF Init, SweptOK, Idle
  <1> QED
    BY <1>5, <1>6, <1>7, <1>8, <1>9 DEF IInv

\* A step that leaves requests alone and at most empties the overrides of users
\* that are not there any more.
LEMMA PeopleIInv ==
  ASSUME IInv, People, PeopleTyped
  PROVE  IInv'
  <1>t. TypeOK
    BY DEF IInv
  <1>1. CASE UNCHANGED policy /\ \A u \in Users : Exists(u) => Exists(u)'
    <2>1. UNCHANGED <<policy, req, ceiling>>
      BY <1>1 DEF People
    <2>2. TypeOK'
      BY <1>t, <2>1 DEF TypeOK, PeopleTyped
    <2>3. Unique' /\ TemplateWithin' /\ GrantsWithinCeiling'
      BY <2>1 DEF IInv, Unique, TemplateWithin, Template, Of, GrantsWithinCeiling
    <2>4. OverridesFollowUser'
      BY <1>1 DEF IInv, OverridesFollowUser
    <2>5. \A r \in Requests : SweptOK(req[r])'
      BY <2>1 DEF IInv, SweptOK
    <2> QED
      BY <2>2, <2>3, <2>4, <2>5 DEF IInv
  <1>2. ASSUME NEW u \in Users, RemoveUser(u) PROVE IInv'
    <2>1. /\ UNCHANGED <<req, ceiling>>
          /\ \A t \in Targets : policy'[t] = IF t = <<"user", u>> THEN {} ELSE policy[t]
          /\ policy' \in [Targets -> SUBSET Entries]
          /\ \A v \in Users \ {u} : role'[v] = role[v]
      BY <1>2, <1>t DEF RemoveUser, TypeOK
    <2>2. TypeOK'
      BY <1>t, <2>1 DEF TypeOK, PeopleTyped
    <2>3. Unique' /\ GrantsWithinCeiling'
      BY <2>1 DEF IInv, Unique, GrantsWithinCeiling
    <2>4. TemplateWithin'
      <3>1. Template("ADMIN")' = Template("ADMIN")
        BY <2>1 DEF Template, Of
      <3> QED
        BY <2>1, <3>1 DEF IInv, TemplateWithin
    <2>5. OverridesFollowUser'
      BY <2>1 DEF IInv, OverridesFollowUser, Exists
    <2>6. \A r \in Requests : SweptOK(req[r])'
      BY <2>1 DEF IInv, SweptOK
    <2> QED
      BY <2>2, <2>3, <2>4, <2>5, <2>6 DEF IInv
  <1> QED
    BY <1>1, <1>2 DEF People

\* A step that changes the record of one request only.
LEMMA RequestIInv ==
  ASSUME IInv, UNCHANGED <<policy, role, active, tokens, ceiling>>,
         NEW r \in Requests, NEW q \in {Idle} \cup Asked \cup Swept \cup Done,
         req' = [req EXCEPT ![r] = q], SweptOK(q)
  PROVE  IInv'
  <1>1. /\ req' \in [Requests -> {Idle} \cup Asked \cup Swept \cup Done]
        /\ req'[r] = q /\ \A s \in Requests \ {r} : req'[s] = req[s]
    BY DEF IInv, TypeOK
  <1>2. TypeOK'
    BY <1>1 DEF IInv, TypeOK
  <1>3. Unique' /\ TemplateWithin' /\ GrantsWithinCeiling' /\ OverridesFollowUser'
    BY DEF IInv, Unique, TemplateWithin, Template, Of, GrantsWithinCeiling, OverridesFollowUser, Exists
  <1>4. \A s \in Requests : SweptOK(req'[s])
    BY <1>1 DEF IInv
  <1>5. \A s \in Requests : SweptOK(req[s])'
    BY <1>4 DEF SweptOK
  <1> QED
    BY <1>2, <1>3, <1>5 DEF IInv

\* What a rewrite asks for are permissions.
LEMMA MergedType ==
  ASSUME NEW q \in Asked, NEW effect \in {"allow", "deny"}
  PROVE  Merged(q, effect) \in SUBSET Perms
  <1>1. q.allow \in Fields /\ q.deny \in Fields /\ q.before \in SUBSET Entries
    BY DEF Asked
  <1>2. \A e \in Entries : e.perm \in Perms
    BY DEF Entries
  <1> DEFINE asked == IF effect = "allow" THEN q.allow ELSE q.deny
             read == {e.perm : e \in {x \in q.before : x.effect = effect}}
  <1>3. asked # Keep => asked \in SUBSET Perms
    <2>1. asked \in Fields
      BY <1>1
    <2> HIDE DEF asked
    <2> QED
      BY <2>1 DEF Fields
  <1>4. read \in SUBSET Perms
    BY <1>1, <1>2
  <1>5. Merged(q, effect) = IF asked = Keep THEN read ELSE asked
    BY Zenon DEF Merged
  <1> HIDE DEF asked, read
  <1> QED
    BY <1>3, <1>4, <1>5

LEMMA AsksIInv ==
  ASSUME IInv, Asks
  PROVE  IInv'
  <1>1. PICK r \in Requests :
          /\ UNCHANGED <<policy, role, active, tokens, ceiling>>
          /\ \/ \E t \in Targets, allow, deny \in Fields, root \in BOOLEAN :
                  req' = [req EXCEPT ![r] = [phase |-> "asked", target |-> t, allow |-> allow,
                                             deny |-> deny, root |-> root, before |-> policy[t]]]
             \/ req' = [req EXCEPT ![r] = [phase |-> "done", answer |-> "in_progress"]]
    BY DEF Asks
  <1>2. ASSUME NEW t \in Targets, NEW allow \in Fields, NEW deny \in Fields, NEW root \in BOOLEAN,
               req' = [req EXCEPT ![r] = [phase |-> "asked", target |-> t, allow |-> allow,
                                          deny |-> deny, root |-> root, before |-> policy[t]]]
        PROVE  IInv'
    <2> DEFINE q == [phase |-> "asked", target |-> t, allow |-> allow,
                     deny |-> deny, root |-> root, before |-> policy[t]]
    <2>1. policy[t] \in SUBSET Entries
      BY DEF IInv, TypeOK
    <2>2. q \in Asked /\ q.phase = "asked"
      BY <2>1 DEF Asked
    <2>3. req' = [req EXCEPT ![r] = q]
      BY <1>2
    <2> HIDE DEF q
    <2>4. SweptOK(q)
      BY <2>2 DEF SweptOK
    <2> QED
      BY <1>1, <2>2, <2>3, <2>4, RequestIInv
  <1>3. CASE req' = [req EXCEPT ![r] = [phase |-> "done", answer |-> "in_progress"]]
    <2> DEFINE q == [phase |-> "done", answer |-> "in_progress"]
    <2>1. q \in Done /\ SweptOK(q) /\ req' = [req EXCEPT ![r] = q]
      BY <1>3 DEF Done, SweptOK
    <2> HIDE DEF q
    <2> QED
      BY <1>1, <2>1, RequestIInv
  <1> QED
    BY <1>1, <1>2, <1>3

LEMMA SweepIInv ==
  ASSUME IInv, NEW r \in Requests, Sweep(r)
  PROVE  IInv'
  <1> DEFINE q == req[r]
             s == [phase |-> "swept", target |-> q.target, root |-> q.root,
                   allow |-> Merged(q, "allow"), deny |-> Merged(q, "deny"),
                   before |-> q.before, seen |-> policy[q.target], explicit |-> q.deny # Keep]
             d == [phase |-> "done", answer |-> "refused"]
  <1>1. q.phase = "asked" /\ UNCHANGED <<policy, role, active, tokens, ceiling>>
    BY DEF Sweep
  <1>2. q \in Asked
    BY <1>1 DEF IInv, TypeOK, Idle, Swept, Done
  <1>3. CASE Acceptable(q)
    <2>1. req' = [req EXCEPT ![r] = s]
      BY <1>3 DEF Sweep
    <2>2. /\ q.target \in Targets /\ q.root \in BOOLEAN /\ q.before \in SUBSET Entries
          /\ policy[q.target] \in SUBSET Entries /\ (q.deny # Keep) \in BOOLEAN
          /\ Merged(q, "allow") \in SUBSET Perms /\ Merged(q, "deny") \in SUBSET Perms
      BY <1>2, MergedType DEF IInv, TypeOK, Asked
    <2>3. s \in Swept
      BY <2>2 DEF Swept
    <2>4. /\ Merged(q, "allow") \cap Merged(q, "deny") = {}
          /\ ~q.root => Merged(q, "allow") \subseteq ceiling
      BY <1>3 DEF Acceptable, IInv, TemplateWithin
    <2>5. q.deny = Keep => Merged(q, "deny") = Denied(q.before)
      BY DEF Merged, Denied
    <2>6. SweptOK(s)
      BY <2>4, <2>5 DEF SweptOK
    <2> HIDE DEF s, q
    <2> QED
      BY <1>1, <2>1, <2>3, <2>6, RequestIInv
  <1>4. CASE ~Acceptable(q)
    <2>1. d \in Done /\ SweptOK(d) /\ req' = [req EXCEPT ![r] = d]
      BY <1>4 DEF Done, SweptOK, Sweep, Answer
    <2> HIDE DEF d, q
    <2> QED
      BY <1>1, <2>1, RequestIInv
  <1> QED
    BY <1>3, <1>4

\* The rows a rewrite inserts.
LEMMA NewRows ==
  ASSUME NEW r \in Requests, NEW q \in Swept, SweptOK(q)
  PROVE  /\ New(q, r) \in SUBSET Entries
         /\ \A e \in New(q, r) : e.effect = "allow" => e.perm \in q.allow /\ e.root = q.root
         /\ \A a, b \in New(q, r) : a.perm = b.perm => a = b
         /\ \A p \in q.deny : \E e \in New(q, r) : e.effect = "deny" /\ e.perm = p
  <1>1. /\ q.allow \in SUBSET Perms /\ q.deny \in SUBSET Perms /\ q.root \in BOOLEAN
        /\ q.allow \cap q.deny = {}
    BY DEF Swept, SweptOK
  <1>2. \A p \in Perms, effect \in {"allow", "deny"} :
          LET e == Entry(p, effect, r, q.root)
          IN  e \in Entries /\ e.perm = p /\ e.effect = effect /\ e.root = q.root
    BY <1>1 DEF Entry, Entries
  <1>3. \A e \in New(q, r) : \/ \E p \in q.allow : e = Entry(p, "allow", r, q.root)
                             \/ \E p \in q.deny : e = Entry(p, "deny", r, q.root)
    BY DEF New
  <1>4. \A p \in q.deny : Entry(p, "deny", r, q.root) \in New(q, r)
    BY DEF New
  <1>5. \A e \in New(q, r) :
          /\ e \in Entries
          /\ \/ e.perm \in q.allow /\ e.effect = "allow" /\ e = Entry(e.perm, "allow", r, q.root)
             \/ e.perm \in q.deny /\ e.effect = "deny" /\ e = Entry(e.perm, "deny", r, q.root)
          /\ e.root = q.root
    BY <1>1, <1>2, <1>3
  <1>6. \A a, b \in New(q, r) : a.perm = b.perm => a = b
    BY <1>1, <1>5
  <1> QED
    BY <1>1, <1>2, <1>4, <1>5, <1>6

\* What a rewrite that commits changes.
LEMMA StoreOk ==
  ASSUME IInv, NEW r \in Requests, Store(r), req'[r].answer = "ok"
  PROVE  LET q == req[r]
             t == q.target
         IN  /\ q \in Swept /\ SweptOK(q) /\ t \in Targets
             /\ ~Clash(policy[t] \ q.seen, New(q, r))
             /\ ~(t[1] = "user" /\ ~Exists(t[2]) /\ New(q, r) # {})
             /\ policy' = [policy EXCEPT ![t] = (policy[t] \ q.seen) \cup New(q, r)]
             /\ ceiling' = IF t = <<"template", "ADMIN">> THEN ceiling \cup q.allow ELSE ceiling
  <1>1. req[r].phase = "swept"
    BY DEF Store
  <1>2. req[r] \in Swept /\ SweptOK(req[r])
    BY <1>1 DEF IInv, TypeOK, Idle, Asked, Done
  <1>3. req[r].target \in Targets
    BY <1>2 DEF Swept
  <1>4. ~(Answer(r, "failed"))
    BY DEF Answer, IInv, TypeOK
  <1> QED
    BY <1>2, <1>3, <1>4 DEF Store

LEMMA StoreIInv ==
  ASSUME IInv, NEW r \in Requests, Store(r)
  PROVE  IInv'
  <1>1. PICK a \in {"ok", "failed"} : Answer(r, a) /\ (a = "failed" => UNCHANGED <<policy, ceiling>>)
    BY DEF Store
  <1> DEFINE d == [phase |-> "done", answer |-> a]
  <1>2. UNCHANGED <<role, active, tokens>> /\ req' = [req EXCEPT ![r] = d]
    BY <1>1 DEF Store, Answer
  <1>3. d \in Done /\ d.phase = "done" /\ d.answer = a
    BY DEF Done
  <1> HIDE DEF d
  <1>4. SweptOK(d)
    BY <1>3 DEF SweptOK
  <1>5. CASE a = "failed"
    BY <1>1, <1>2, <1>3, <1>4, <1>5, RequestIInv
  <1>6. CASE a = "ok"
    <2> DEFINE q == req[r]
               t == q.target
               kept == policy[t] \ q.seen
               new == New(q, r)
    <2>1. req'[r] = d /\ \A s \in Requests \ {r} : req'[s] = req[s]
      BY <1>2 DEF IInv, TypeOK
    <2>2. /\ q \in Swept /\ SweptOK(q) /\ t \in Targets
          /\ ~Clash(kept, new)
          /\ ~(t[1] = "user" /\ ~Exists(t[2]) /\ new # {})
          /\ policy' = [policy EXCEPT ![t] = kept \cup new]
          /\ ceiling' = IF t = <<"template", "ADMIN">> THEN ceiling \cup q.allow ELSE ceiling
      BY <1>3, <1>6, <2>1, StoreOk
    <2>3. /\ new \in SUBSET Entries
          /\ \A e \in new : e.effect = "allow" => e.perm \in q.allow /\ e.root = q.root
          /\ \A x, y \in new : x.perm = y.perm => x = y
      BY <2>2, NewRows
    <2>4. q.phase = "swept" /\ q.allow \in SUBSET Perms /\ (~q.root => q.allow \subseteq ceiling)
      BY <2>2 DEF Swept, SweptOK
    <2> HIDE DEF q, t, new
    <2>5. /\ policy \in [Targets -> SUBSET Entries] /\ policy'[t] = kept \cup new
          /\ \A x \in Targets \ {t} : policy'[x] = policy[x]
      BY <2>2 DEF IInv, TypeOK
    <2>6. TypeOK'
      <3>1. req' \in [Requests -> {Idle} \cup Asked \cup Swept \cup Done]
        BY <1>2, <1>3 DEF IInv, TypeOK
      <3>2. policy' \in [Targets -> SUBSET Entries]
        BY <2>2, <2>3, <2>5
      <3>3. ceiling' \subseteq Perms
        BY <2>2, <2>4 DEF IInv, TypeOK
      <3> QED
        BY <1>2, <3>1, <3>2, <3>3 DEF IInv, TypeOK
    <2>7. ceiling \subseteq ceiling'
      BY <2>2
    <2>8. Unique'
      <3>1. \A x, y \in kept \cup new : x.perm = y.perm => x = y
        BY <2>2, <2>3 DEF IInv, Unique, Clash
      <3>2. ASSUME NEW u \in Targets, NEW x \in policy'[u], NEW y \in policy'[u], x.perm = y.perm
            PROVE  x = y
        BY <2>5, <3>1, <3>2 DEF IInv, Unique
      <3> QED
        BY <3>2 DEF Unique
    <2>9. TemplateWithin'
      <3> DEFINE m == <<"template", "ADMIN">>
      <3>1. CASE m \in Targets
        <4>1. ASSUME NEW e \in policy'[m], e.effect = "allow" PROVE e.perm \in ceiling'
          <5>1. CASE e \in policy[m]
            <6>1. e.perm \in Template("ADMIN")
              BY <3>1, <4>1, <5>1 DEF Template, Of
            <6> QED
              BY <2>7, <6>1 DEF IInv, TemplateWithin
          <5>2. CASE e \notin policy[m]
            BY <2>2, <2>3, <2>5, <3>1, <4>1, <5>2
          <5> QED
            BY <5>1, <5>2
        <4> QED
          BY <3>1, <4>1 DEF TemplateWithin, Template, Of
      <3>2. CASE m \notin Targets
        BY <2>7, <3>2 DEF IInv, TemplateWithin, Template
      <3> QED
        BY <3>1, <3>2
    <2>10. GrantsWithinCeiling'
      <3> SUFFICES ASSUME NEW x \in Targets, x[1] # "template", NEW e \in policy'[x],
                          e.effect = "allow", ~e.root
                   PROVE  e.perm \in ceiling'
        BY DEF GrantsWithinCeiling
      <3>1. CASE e \in policy[x]
        BY <2>7, <3>1 DEF IInv, GrantsWithinCeiling
      <3>2. CASE e \notin policy[x]
        BY <2>3, <2>4, <2>5, <2>7, <3>2
      <3> QED
        BY <3>1, <3>2
    <2>11. OverridesFollowUser'
      <3> SUFFICES ASSUME NEW u \in Users, <<"user", u>> \in Targets, ~Exists(u)
                   PROVE  policy'[<<"user", u>>] = {}
        BY <1>2 DEF OverridesFollowUser, Exists
      <3>1. policy[<<"user", u>>] = {}
        BY DEF IInv, OverridesFollowUser
      <3>2. CASE t = <<"user", u>>
        BY <2>2, <2>5, <3>1, <3>2
      <3>3. CASE t # <<"user", u>>
        BY <2>5, <3>1, <3>3
      <3> QED
        BY <3>2, <3>3
    <2>12. ASSUME NEW s \in Requests PROVE SweptOK(req[s])'
      <3>1. CASE s = r
        BY <1>3, <2>1, <3>1 DEF SweptOK
      <3>2. CASE s # r
        BY <2>1, <2>7, <3>2 DEF IInv, SweptOK
      <3> QED
        BY <3>1, <3>2
    <2> QED
      BY <2>6, <2>8, <2>9, <2>10, <2>11, <2>12 DEF IInv
  <1> QED
    BY <1>5, <1>6

THEOREM Inductive == Spec => []IInv
  <1>1. IInv /\ [Next]_vars => IInv'
    <2> SUFFICES ASSUME IInv, [Next]_vars PROVE IInv'
      OBVIOUS
    <2>1. CASE Next
      <3>1. TypeOK
        BY DEF IInv
      <3> QED
        BY <2>1, <3>1, NextCases, PeopleIInv, AsksIInv, SweepIInv, StoreIInv
    <2>2. CASE UNCHANGED vars
      <3>1. People /\ PeopleTyped
        BY <2>2 DEF People, PeopleTyped, vars, Exists, IInv, TypeOK
      <3> QED
        BY <3>1, PeopleIInv
    <2> QED
      BY <2>1, <2>2
  <1> QED
    BY <1>1, InitIInv, PTL DEF Spec

(***************************************************************************)
(* The theorems.                                                           *)
(***************************************************************************)
\* Every policy, role, token and request is one the code can write.
THEOREM SpecTypeOK == Spec => []TypeOK
  <1>1. IInv => TypeOK
    BY DEF IInv
  <1> QED
    BY <1>1, Inductive, PTL

\* No tenant admin ever grants a permission that the ADMIN template has not
\* held: the test against the template in services/access_control_policies.py
\* stays true to the commit, because what the template held stays in the ceiling.
THEOREM SpecGrantsWithinCeiling == Spec => []GrantsWithinCeiling
  <1>1. IInv => GrantsWithinCeiling
    BY DEF IInv
  <1> QED
    BY <1>1, Inductive, PTL

\* No override outlives its user, whatever rewrite was under way at the deletion.
THEOREM SpecOverridesFollowUser == Spec => []OverridesFollowUser
  <1>1. IInv => OverridesFollowUser
    BY DEF IInv
  <1> QED
    BY <1>1, Inductive, PTL

\* No policy holds a permission twice, and a deny of any level is final.
THEOREM SpecDenyIsFinal == Spec => []DenyIsFinal
  <1>1. IInv => DenyIsFinal
    BY DEF IInv, Unique, DenyIsFinal, Effective, Allowed
  <1> QED
    BY <1>1, Inductive, PTL

\* A deny leaves a policy only with its user, by a rewrite that named its
\* denies, or by a PATCH that had not read it.
THEOREM SpecDenyLeavesOnRequest == Spec => DenyLeavesOnRequest
  <1> DEFINE leave(t) ==
        \A p \in Of(t, "deny") : p \notin Of(t, "deny")' =>
        \/ t[1] = "user" /\ role'[t[2]] = "gone"
        \/ \E r \in Requests :
             /\ req[r].phase = "swept" /\ req'[r].phase = "done" /\ req[r].target = t
             /\ req[r].explicit \/ ~\E e \in req[r].before : e.effect = "deny" /\ e.perm = p
  <1>1. ASSUME IInv, [Next]_vars, NEW t \in Targets, policy'[t] # policy[t] PROVE leave(t)
    <2>t. TypeOK
      BY <1>1 DEF IInv
    <2>1. Next
      BY <1>1 DEF vars
    <2>2. CASE People
      <3>1. PICK u \in Users : RemoveUser(u)
        BY <1>1, <2>2 DEF People
      <3>2. t = <<"user", u>> /\ role'[u] = "gone"
        BY <1>1, <2>t, <3>1 DEF RemoveUser, TypeOK
      <3> QED
        BY <3>2
    <2>3. CASE Asks
      BY <1>1, <2>3 DEF Asks
    <2>4. ASSUME NEW r \in Requests, Sweep(r) \/ Store(r) PROVE leave(t)
      <3>1. Store(r) /\ req'[r].answer = "ok" /\ req'[r].phase = "done" /\ req[r].phase = "swept"
        BY <1>1, <2>t, <2>4 DEF Sweep, Store, Answer, TypeOK
      <3> DEFINE q == req[r]
      <3>2. /\ q \in Swept /\ SweptOK(q) /\ q.target \in Targets
            /\ policy' = [policy EXCEPT ![q.target] = (policy[q.target] \ q.seen) \cup New(q, r)]
        BY <1>1, <3>1, StoreOk
      <3>3. t = q.target /\ policy'[t] = (policy[t] \ q.seen) \cup New(q, r)
        BY <1>1, <2>t, <3>2 DEF TypeOK
      <3> SUFFICES ASSUME NEW p, p \notin Of(t, "deny")', ~q.explicit,
                          NEW e \in q.before, e.effect = "deny", e.perm = p
                   PROVE  FALSE
        BY <3>1, <3>3
      <3>4. p \in q.deny
        BY <3>1, <3>2 DEF SweptOK, Denied
      <3>5. PICK n \in New(q, r) : n.effect = "deny" /\ n.perm = p
        BY <3>2, <3>4, NewRows
      <3>6. n \in policy'[t]
        BY <3>3
      <3> QED
        BY <3>5, <3>6 DEF Of
    <2> QED
      BY <2>1, <2>2, <2>3, <2>4, <2>t, NextCases
  <1>2. IInv /\ [Next]_vars =>
          [\A t \in {x \in Targets : policy'[x] # policy[x]} : leave(t)]_vars
    BY <1>1
  <1> QED
    BY <1>2, Inductive, PTL DEF DenyLeavesOnRequest, Spec

=============================================================================
