------------------------------- MODULE Access -------------------------------
(***************************************************************************)
(* Permissions in one tenant with one store: the role templates, the       *)
(* allow/deny overlays of a role (tenant and store) and of a user, who may *)
(* rewrite them and who may give a role, and the decision that             *)
(* evaluate_permission takes from them (services/access_control.py,        *)
(* services/access_control_policies.py, routers/access_control.py,         *)
(* routers/admin.py, services/auth.py).                                    *)
(*                                                                         *)
(* Roles come from the token, which outlives a change of the user's role;  *)
(* status and policies are read from the database on every request.  A     *)
(* rewrite reads the old entries, deletes the ones its DELETE can see and  *)
(* inserts its own: under READ COMMITTED another rewrite of the same       *)
(* policy may commit between any two of the three.                         *)
(***************************************************************************)
EXTENDS Naturals, FiniteSets

CONSTANTS
  Users,       \* users of the tenant
  Root,        \* the superadmin, a user of the platform's own tenant
  Perms,       \* the permission catalogue
  USER_MANAGE, \* the permission the user routes ask for
  Targets,     \* the policies that are rewritten: <<level, role or user>>
  Defaults,    \* DEFAULT_ROLE_TEMPLATES: role -> permissions
  Requests,    \* the rewrites of a behaviour
  Keep,        \* a field a PATCH leaves out
  MaxTokens    \* bound on the tokens at one time

Roles       == {"SUPERADMIN", "ADMIN", "MANAGER", "USER"}
PolicyRoles == {"MANAGER", "USER"}   \* ALLOWED_ROLE_POLICIES

ASSUME RootAssumption == Root \notin Users /\ USER_MANAGE \in Perms
ASSUME TargetsAssumption ==
  \A t \in Targets : \/ t[1] = "template" /\ t[2] \in Roles
                     \/ t[1] \in {"tenant", "store"} /\ t[2] \in PolicyRoles
                     \/ t[1] = "user" /\ t[2] \in Users
ASSUME MaxTokensAssumption == MaxTokens \in Nat
ASSUME DefaultsAssumption == Defaults \in [Roles -> SUBSET Perms]

VARIABLES
  policy,   \* Targets -> entries
  role,     \* Users -> role, "none" before the user is created, "gone" after
  active,   \* the users that are ACTIVE and is_active
  tokens,   \* access tokens that have not expired
  req,      \* Requests -> how far the rewrite is
  ceiling   \* history: every permission the ADMIN template has had

vars == <<policy, role, active, tokens, req, ceiling>>

----------------------------------------------------------------------------
\* by is the row's identity, root says that a superadmin wrote it.
Entries == [perm : Perms, effect : {"allow", "deny"}, by : Requests \cup {Keep}, root : BOOLEAN]
Tokens  == [user : Users, role : Roles]
Exists(u) == role[u] \in Roles
RootToken == [user |-> Root, role |-> "SUPERADMIN"]
Idle    == [phase |-> "idle"]

Fields == (SUBSET Perms) \cup {Keep}
Asked  == [phase : {"asked"}, target : Targets, allow : Fields, deny : Fields, root : BOOLEAN,
           before : SUBSET Entries]
Swept  == [phase : {"swept"}, target : Targets, allow : SUBSET Perms, deny : SUBSET Perms,
           root : BOOLEAN, before : SUBSET Entries, seen : SUBSET Entries, explicit : BOOLEAN]
Done   == [phase : {"done"}, answer : {"ok", "refused", "failed", "in_progress"}]

Entry(p, effect, r, root) == [perm |-> p, effect |-> effect, by |-> r, root |-> root]
Of(t, effect) ==
  IF t \in Targets THEN {e.perm : e \in {x \in policy[t] : x.effect = effect}} ELSE {}

\* No tenant has templates of its own: every lookup falls back on the global one.
Template(ro) ==
  IF <<"template", ro>> \in Targets THEN Of(<<"template", ro>>, "allow") ELSE Defaults[ro]

\* The levels in which evaluate_permission looks a permission up.
Levels(u, ro) == {<<"user", u>>, <<"store", ro>>, <<"tenant", ro>>}

\* A user's own allow that a store's or tenant's deny does not stop.
AllowedUserFirst(p, u, ro) ==
  \/ p \in Of(<<"user", u>>, "allow")
  \/ /\ \A t \in Levels(u, ro) : p \notin Of(t, "deny")
     /\ \/ \E t \in Levels(u, ro) : p \in Of(t, "allow")
        \/ p \in Template(ro)

\* evaluate_permission and _build_decisions: every deny comes before every allow.
Allowed(p, u, ro) ==
  /\ \A t \in Levels(u, ro) : p \notin Of(t, "deny")
  /\ \/ \E t \in Levels(u, ro) : p \in Of(t, "allow")
     \/ p \in Template(ro)

Effective(u, ro) == {p \in Perms : Allowed(p, u, ro)}

Init ==
  /\ policy = [t \in Targets |-> IF t[1] = "template"
                 THEN {Entry(p, "allow", Keep, TRUE) : p \in Defaults[t[2]]} ELSE {}]
  /\ role = [u \in Users |-> "none"]
  /\ active = {}
  /\ tokens = {}
  /\ req = [r \in Requests |-> Idle]
  /\ ceiling = Defaults["ADMIN"]

----------------------------------------------------------------------------
(***************************************************************************)
(* Sessions.  A token carries the role its user had at the login.          *)
(***************************************************************************)
Login(u) ==
  /\ Exists(u) /\ u \in active
  /\ Cardinality(tokens) < MaxTokens
  /\ tokens' = tokens \cup {[user |-> u, role |-> role[u]]}
  /\ UNCHANGED <<policy, role, active, req, ceiling>>

Expire(k) == tokens' = tokens \ {k} /\ UNCHANGED <<policy, role, active, req, ceiling>>

\* require_active_user
Authenticated(k) == k = RootToken \/ (k \in tokens /\ Exists(k.user) /\ k.user \in active)
Super(k) == k.role = "SUPERADMIN"

----------------------------------------------------------------------------
(***************************************************************************)
(* Users and their roles.                                                  *)
(***************************************************************************)
\* _ensure_role_assignment_allowed
MayAssign(k, ro) ==
  /\ ro # "SUPERADMIN"
  /\ ~Super(k) => /\ ro # "ADMIN"
                  /\ Template(ro) \subseteq Effective(k.user, k.role)

MayManage(k) == Authenticated(k) /\ Allowed(USER_MANAGE, k.user, k.role)

CreateUser(k, u, ro) ==
  /\ MayManage(k) /\ MayAssign(k, ro) /\ role[u] = "none"
  /\ role' = [role EXCEPT ![u] = ro]
  /\ active' = active \cup {u}
  /\ UNCHANGED <<policy, tokens, req, ceiling>>

SetRole(k, u, ro) ==
  /\ MayManage(k) /\ MayAssign(k, ro) /\ Exists(u) /\ role[u] # ro
  /\ role' = [role EXCEPT ![u] = ro]
  /\ UNCHANGED <<policy, active, tokens, req, ceiling>>

SetStatus(k, u) ==
  /\ MayManage(k) /\ Exists(u)
  /\ active' = IF u \in active THEN active \ {u} ELSE active \cup {u}
  /\ UNCHANGED <<policy, role, tokens, req, ceiling>>

\* A deletion that leaves the user's overrides.
RemoveUserOnly(u) ==
  /\ Exists(u)
  /\ role' = [role EXCEPT ![u] = "gone"]
  /\ active' = active \ {u}
  /\ UNCHANGED <<policy, tokens, req, ceiling>>

\* The overrides go first, then the user.
RemoveUser(u) ==
  /\ Exists(u)
  /\ policy' = [t \in Targets |-> IF t = <<"user", u>> THEN {} ELSE policy[t]]
  /\ role' = [role EXCEPT ![u] = "gone"]
  /\ active' = active \ {u}
  /\ UNCHANGED <<tokens, req, ceiling>>

\* delete_user asks that no transfer names the user, purge_user clears the
\* names first; transfers are not part of this module.
DeleteUser(k, u) == Authenticated(k) /\ Super(k) /\ RemoveUser(u)
PurgeUser(k, u)  == Authenticated(k) /\ Super(k) /\ RemoveUser(u)

----------------------------------------------------------------------------
(***************************************************************************)
(* Rewriting a policy: Ask (checks of the route and the first read), Sweep *)
(* (checks of the service and the DELETE) and Store (INSERT and commit).   *)
(***************************************************************************)
Answer(r, a) == req' = [req EXCEPT ![r] = [phase |-> "done", answer |-> a]]

\* What every route does with the policy t.
Ask(r, k, t, allow, deny) ==
  /\ req[r] = Idle /\ t \in Targets
  /\ Authenticated(k) /\ k.role \in {"ADMIN", "SUPERADMIN"}
  /\ req' = [req EXCEPT ![r] = [phase |-> "asked", target |-> t, allow |-> allow, deny |-> deny,
                                root |-> Super(k), before |-> policy[t]]]
  /\ UNCHANGED <<policy, role, active, tokens, ceiling>>

\* admin_replace_role_template: by a superadmin only, and no denies.
AskTemplate(r, k, ro, allow) == Super(k) /\ Ask(r, k, <<"template", ro>>, allow, {})

\* replace_tenant_role_policy and replace_store_role_policy, in both routers.
AskTenantRole(r, k, ro, allow, deny) == Ask(r, k, <<"tenant", ro>>, allow, deny)
AskStoreRole(r, k, ro, allow, deny) == Ask(r, k, <<"store", ro>>, allow, deny)

\* replace_user_permission_overrides names both fields.
ReplaceOverrides(r, k, u, allow, deny) ==
  Exists(u) /\ Ask(r, k, <<"user", u>>, allow, deny)

\* admin_patch_user_overrides may leave one out, or both.
PatchOverrides(r, k, u, allow, deny) ==
  /\ Exists(u) /\ Keep \in {allow, deny}
  /\ Ask(r, k, <<"user", u>>, allow, deny)

\* admin_patch_user_overrides hands the tenant_id parameter, not the tenant it
\* resolved, to the idempotency service: left out, the row cannot be inserted
\* and the answer is IDEMPOTENCY_REQUEST_IN_PROGRESS.
PatchUnscoped(r, k, t) ==
  /\ req[r] = Idle
  /\ Authenticated(k) /\ k.role = "ADMIN" /\ t[1] = "user" /\ Exists(t[2])
  /\ req' = [req EXCEPT ![r] = [phase |-> "done", answer |-> "in_progress"]]
  /\ UNCHANGED <<policy, role, active, tokens, ceiling>>

\* A PATCH that takes a field left out for an empty one.
MergedEmpty(q, effect) == LET asked == IF effect = "allow" THEN q.allow ELSE q.deny
                          IN  IF asked = Keep THEN {} ELSE asked

\* What the rewrite q asks for: a field left out is the one it read.
Merged(q, effect) ==
  LET asked == IF effect = "allow" THEN q.allow ELSE q.deny
  IN  IF asked = Keep THEN {e.perm : e \in {x \in q.before : x.effect = effect}} ELSE asked

\* No test of the ceiling.
AcceptableAny(q) == Merged(q, "allow") \cap Merged(q, "deny") = {}

\* _validate_allow_deny and the ADMIN ceiling.
Acceptable(q) ==
  /\ Merged(q, "allow") \cap Merged(q, "deny") = {}
  /\ ~q.root => Merged(q, "allow") \subseteq Template("ADMIN")

Sweep(r) ==
  LET q == req[r] IN
  /\ q.phase = "asked"
  /\ IF Acceptable(q)
       THEN req' = [req EXCEPT ![r] =
              [phase |-> "swept", target |-> q.target, root |-> q.root,
               allow |-> Merged(q, "allow"), deny |-> Merged(q, "deny"),
               before |-> q.before, seen |-> policy[q.target],
               explicit |-> q.deny # Keep]]
       ELSE Answer(r, "refused")
  /\ UNCHANGED <<policy, role, active, tokens, ceiling>>

New(q, r) ==
  {Entry(p, "allow", r, q.root) : p \in q.allow} \cup {Entry(p, "deny", r, q.root) : p \in q.deny}

\* The unique constraints: a permission once in a policy.
Clash(kept, new) == \E a \in kept, b \in new : a.perm = b.perm

Store(r) ==
  LET q == req[r]
      t == q.target
      kept == policy[t] \ q.seen
  IN
  /\ q.phase = "swept"
  /\ IF Clash(kept, New(q, r)) \/ (t[1] = "user" /\ ~Exists(t[2]) /\ New(q, r) # {})
       THEN Answer(r, "failed") /\ UNCHANGED <<policy, ceiling>>
       ELSE /\ policy' = [policy EXCEPT ![t] = kept \cup New(q, r)]
            /\ ceiling' = IF t = <<"template", "ADMIN">> THEN ceiling \cup q.allow ELSE ceiling
            /\ Answer(r, "ok")
  /\ UNCHANGED <<role, active, tokens>>

Next ==
  \/ \E u \in Users : Login(u)
  \/ \E k \in tokens : Expire(k)
  \/ \E k \in tokens \cup {RootToken} :
       \/ \E u \in Users : \/ SetStatus(k, u) \/ DeleteUser(k, u) \/ PurgeUser(k, u)
                           \/ \E ro \in Roles : CreateUser(k, u, ro) \/ SetRole(k, u, ro)
       \/ \E r \in Requests, t \in Targets : PatchUnscoped(r, k, t)
       \/ \E r \in Requests, allow \in SUBSET Perms :
            \/ \E ro \in Roles : AskTemplate(r, k, ro, allow)
            \/ \E ro \in PolicyRoles, deny \in SUBSET Perms :
                 AskTenantRole(r, k, ro, allow, deny) \/ AskStoreRole(r, k, ro, allow, deny)
            \/ \E u \in Users, deny \in SUBSET Perms : ReplaceOverrides(r, k, u, allow, deny)
       \/ \E r \in Requests, u \in Users, allow, deny \in Fields :
            PatchOverrides(r, k, u, allow, deny)
  \/ \E r \in Requests : Sweep(r) \/ Store(r)

Spec == Init /\ [][Next]_vars

----------------------------------------------------------------------------
\* Policies, roles, tokens and requests are ones the code can write.
TypeOK ==
  /\ policy \in [Targets -> SUBSET Entries] /\ role \in [Users -> Roles \cup {"none", "gone"}]
  /\ active \subseteq Users /\ tokens \subseteq Tokens /\ ceiling \subseteq Perms
  /\ req \in [Requests -> {Idle} \cup Asked \cup Swept \cup Done]

\* No tenant admin grants more than the ADMIN template has held: an allow that
\* exceeds it was written by a superadmin, whatever rewrites of overlays and of
\* the template ran at the same time and however stale the writer's token was.
GrantsWithinCeiling ==
  \A t \in Targets : t[1] # "template" =>
    \A e \in policy[t] : e.effect = "allow" => e.root \/ e.perm \in ceiling

\* A permission some level denies to a user is not among the effective ones,
\* and no level holds a permission twice, even after two rewrites that each
\* deleted only the entries they saw.
DenyIsFinal ==
  /\ \A t \in Targets : \A a, b \in policy[t] : a.perm = b.perm => a = b
  /\ \A u \in Users, ro \in Roles :
       \A t \in Targets \cap Levels(u, ro) : \A p \in Of(t, "deny") : p \notin Effective(u, ro)

\* A deny disappears only with its user, by a rewrite that named the denies it
\* wants, or by a PATCH that had read the overrides before the deny was there.
DenyLeavesOnRequest ==
  [][\A t \in {x \in Targets : policy'[x] # policy[x]} :
       \A p \in Of(t, "deny") : p \notin Of(t, "deny")' =>
       \/ t[1] = "user" /\ role'[t[2]] = "gone"
       \/ \E r \in Requests :
            /\ req[r].phase = "swept" /\ req'[r].phase = "done" /\ req[r].target = t
            /\ req[r].explicit \/ ~\E e \in req[r].before : e.effect = "deny" /\ e.perm = p]_vars

\* The overrides go with their user: a rewrite that checked the user before a
\* deletion or a purge and commits after it leaves none behind.
OverridesFollowUser ==
  \A u \in Users : <<"user", u>> \in Targets /\ ~Exists(u) => policy[<<"user", u>>] = {}
=============================================================================
