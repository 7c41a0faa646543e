---------------------------- MODULE Access ----------------------------
(***************************************************************************)
(* Who may do what: how the first account becomes an administrator, how    *)
(* administrators make others, act as another user, and manage accounts    *)
(* and applications.  Every handler asks the Authorizer first and writes   *)
(* later, so that grants may come and go in between.                       *)
(*                                                                         *)
(* Signing in is the business of the other modules: any account may, as    *)
(* long as it exists.  So is what RequireVerifiedEmail stops.              *)
(***************************************************************************)
EXTENDS Naturals, Sequences, FiniteSets, Authz

CONSTANTS Account,     \* accounts, and the entities that hold them
          App, Slug,   \* applications and their names
          Role,        \* sets of roles
          GrantChoice, \* the grants administrators may give
          Request,
          MaxRequests, \* bound: requests with a first step taken
          None

\* A token: its subject, the account it acts as, and (nowhere in the token)
\* who signed in for it.
Token == [sub: Account, sudo: Account \cup {None}, origin: Account]

AppRow == [slug: Slug, archived: BOOLEAN]

\* Accounts are entities, and none of them is a tag.
ASSUME AccessAssumption ==
  /\ Account \subseteq Entity
  /\ \A e \in TagOwner : e[1] \notin Account
  /\ {"create", "update", "delete", "assume"} \subseteq Operation
  /\ GrantChoice \subseteq Grant
  /\ MaxRequests \in Nat
  /\ None \notin Account \cup App \cup Slug \cup Role
  /\ None \notin Token /\ None \notin AppRow /\ None \notin Grant

VARIABLES account,     \* rows of user_accounts
          archived,    \* accounts whose entity is archived
          grants,      \* rows of grants
          ledger,      \* history: the grants made, by whom, oldest first
          tokens,      \* JWTs issued by Assume
          app,         \* app[p]: the row of application p, or None
          member,      \* member[p][a]: a's roles in p, or None
          trail,       \* trail[p]: what the audit log says of application p
          req, served

people == <<account, archived>>
authority == <<grants, ledger>>
apps == <<app, member, trail>>
vars == <<people, authority, tokens, apps, req, served>>

WildcardManage(a) == [actor |-> a, op |-> Manage, target |-> All]

\* An entry of the ledger; by = None: the first-user hook.
Entry == [by: Account \cup {None}, grant: Grant]

Give(by, g) ==
  LET entry == [by |-> by, grant |-> g] IN
  /\ grants' = grants \cup {g}
  /\ ledger' = IF \E n \in DOMAIN ledger : ledger[n] = entry THEN ledger
               ELSE Append(ledger, entry)

Step == {"idle", "insert", "hook", "create", "grant", "revoke", "give", "delete", "assume",
         "createApp", "updateApp", "deleteApp", "assign", "remove", "roles"}

\* A request: its token, what it works on, and what it has read.
Req == [pc: Step, token: Token \cup {None}, acct: Account \cup {None},
        app: App \cup {None}, slug: Slug \cup {None}, role: Role \cup {None},
        grant: Grant \cup {None}, first: BOOLEAN]

Idle == [pc |-> "idle", token |-> None, acct |-> None, app |-> None, slug |-> None,
         role |-> None, grant |-> None, first |-> FALSE]

Init ==
  /\ account = {} /\ archived = {}
  /\ grants = {} /\ ledger = <<>>
  /\ tokens = {}
  /\ app = [p \in App |-> None]
  /\ member = [p \in App |-> [a \in Account |-> None]]
  /\ trail = [p \in App |-> None]
  /\ req = [r \in Request |-> Idle]
  /\ served = 0

At(r, step) == req[r].pc = step

Start(r, state) ==
  /\ At(r, "idle")
  /\ served < MaxRequests
  /\ served' = served + 1
  /\ req' = [req EXCEPT ![r] = state]

Finish(r) ==
  /\ req' = [req EXCEPT ![r] = Idle]
  /\ UNCHANGED served

-----------------------------------------------------------------------------
(* The first user: Register and UserResolver.autoCreate                    *)

\* The transaction counts the accounts that are committed ...
CountAccounts(r, a) ==
  /\ Start(r, [Idle EXCEPT !.pc = "insert", !.acct = a, !.first = (account = {})])
  /\ UNCHANGED <<people, authority, tokens, apps>>

\* ... and commits its own.
InsertAccount(r) ==
  LET a == req[r].acct IN
  /\ At(r, "insert")
  /\ a \notin account
  /\ account' = account \cup {a}
  /\ req' = [req EXCEPT ![r] = IF @.first THEN [@ EXCEPT !.pc = "hook"] ELSE Idle]
  /\ UNCHANGED <<archived, authority, tokens, apps, served>>

\* A transaction of its own.  It may fail (Fail), and nobody tries again.
FirstUserHook(r) ==
  /\ At(r, "hook")
  /\ Give(None, WildcardManage(req[r].acct))
  /\ Finish(r)
  /\ UNCHANGED <<people, tokens, apps>>

-----------------------------------------------------------------------------
(* Authenticated requests                                                  *)

\* The JWT of an ordinary sign-in.
Own(a) == [sub |-> a, sudo |-> None, origin |-> a]

Bearer == {Own(a) : a \in account} \cup tokens

\* effectiveActor: whoever assumes an identity has its rights, not his own.
EffectiveActor(k) == IF k.sudo = None THEN k.sub ELSE k.sudo

\* A handler begins: the caller is authorized for op on target.
Authorized(r, k, op, target, state) ==
  /\ Authorize(grants, EffectiveActor(k), op, target)
  /\ Start(r, [state EXCEPT !.token = k])
  /\ UNCHANGED <<people, authority, tokens, apps>>

\* POST /v1/user-accounts
Create(r, k, a) ==
  Authorized(r, k, "create", NoTarget, [Idle EXCEPT !.pc = "create", !.acct = a])

CreateCommit(r) ==
  LET a == req[r].acct IN
  /\ At(r, "create")
  /\ a \notin account
  /\ account' = account \cup {a}
  /\ Finish(r)
  /\ UNCHANGED <<archived, authority, tokens, apps>>

\* POST /v1/user-accounts/{uuid}/grant-admin and .../revoke-admin
GrantAdmin(r, k, a) ==
  /\ a \in account
  /\ Authorized(r, k, Manage, NoTarget, [Idle EXCEPT !.pc = "grant", !.acct = a])

RevokeAdmin(r, k, a) ==
  /\ a \in account
  /\ Authorized(r, k, Manage, NoTarget, [Idle EXCEPT !.pc = "revoke", !.acct = a])

\* Mutant: whoever may do it may let others do it.
CreateGrantOfOwn(r, k, g) ==
  Authorized(r, k, g.op, g.target, [Idle EXCEPT !.pc = "give", !.grant = g])

\* POST /v1/authz/grants
CreateGrant(r, k, g) ==
  Authorized(r, k, Manage, NoTarget, [Idle EXCEPT !.pc = "give", !.grant = g])

GiveFor(r, step, g) ==
  /\ At(r, step)
  /\ Give(EffectiveActor(req[r].token), g)
  /\ Finish(r)
  /\ UNCHANGED <<people, tokens, apps>>

CreateWildcardGrant(r) == GiveFor(r, "grant", WildcardManage(req[r].acct))

GiveGrant(r) == GiveFor(r, "give", req[r].grant)

DeleteWildcardGrant(r) ==
  /\ At(r, "revoke")
  /\ grants' = grants \ {WildcardManage(req[r].acct)}
  /\ Finish(r)
  /\ UNCHANGED <<people, ledger, tokens, apps>>

\* DELETE /v1/user-accounts/{uuid}
Delete(r, k, a) ==
  /\ a \in account
  /\ Authorized(r, k, "delete", a, [Idle EXCEPT !.pc = "delete", !.acct = a])

ArchiveEntity(r) ==
  /\ At(r, "delete")
  /\ archived' = archived \cup {req[r].acct}
  /\ Finish(r)
  /\ UNCHANGED <<account, authority, tokens, apps>>

\* Mutant: the target is not looked up.
AssumeAnybody(r, k, a) ==
  Authorized(r, k, "assume", a, [Idle EXCEPT !.pc = "assume", !.acct = a])

\* Mutant: the caller is authorized for his own account.
AssumeByOwn(r, k, a) ==
  /\ a \in account
  /\ Authorized(r, k, "assume", EffectiveActor(k), [Idle EXCEPT !.pc = "assume", !.acct = a])

\* POST /v1/user-accounts/{uuid}/assume
Assume(r, k, a) ==
  /\ a \in account
  /\ Authorized(r, k, "assume", a, [Idle EXCEPT !.pc = "assume", !.acct = a])

IssueFor(r, sub) ==
  /\ At(r, "assume")
  /\ tokens' = tokens \cup
       {[sub |-> sub, sudo |-> req[r].acct, origin |-> req[r].token.origin]}
  /\ Finish(r)
  /\ UNCHANGED <<people, authority, apps>>

\* Mutant: the account of the effective actor signs for the new token.
IssueAssumeJWTAsActor(r) == IssueFor(r, EffectiveActor(req[r].token))

IssueAssumeJWT(r) == IssueFor(r, req[r].token.sub)

-----------------------------------------------------------------------------
(* Applications                                                            *)

CreateApp(r, k, p, s) ==
  Authorized(r, k, "create", NoTarget,
             [Idle EXCEPT !.pc = "createApp", !.app = p, !.slug = s])

\* UNIQUE (slug), of archived applications, too
SlugFree(p, s) == \A q \in App \ {p} : app[q] # None => app[q].slug # s

CreateAppCommit(r) ==
  LET p == req[r].app IN
  /\ At(r, "createApp")
  /\ app[p] = None
  /\ SlugFree(p, req[r].slug)
  /\ app' = [app EXCEPT ![p] = [slug |-> req[r].slug, archived |-> FALSE]]
  /\ trail' = [trail EXCEPT ![p] = [slug |-> req[r].slug, archived |-> FALSE]]
  /\ Finish(r)
  /\ UNCHANGED <<people, authority, tokens, member>>

\* Loads the row; s = None: the request leaves the slug out, and the one that
\* was loaded is written back.
UpdateApp(r, k, p, s) ==
  /\ app[p] # None
  /\ Authorized(r, k, "update", NoTarget,
       [Idle EXCEPT !.pc = "updateApp", !.app = p,
                    !.slug = IF s = None THEN app[p].slug ELSE s])

\* Mutant: the whole row is written back, not only slug and name.
UpdateAppRow(r) ==
  LET p == req[r].app IN
  /\ At(r, "updateApp")
  /\ SlugFree(p, req[r].slug)
  /\ app' = [app EXCEPT ![p] = [slug |-> req[r].slug, archived |-> FALSE]]
  /\ trail' = [trail EXCEPT ![p].slug = req[r].slug]
  /\ Finish(r)
  /\ UNCHANGED <<people, authority, tokens, member>>

\* Mutant: the transaction observes what it read, not what it wrote.
UpdateAppObservesOld(r) ==
  LET p == req[r].app IN
  /\ At(r, "updateApp")
  /\ SlugFree(p, req[r].slug)
  /\ app' = [app EXCEPT ![p].slug = req[r].slug]
  /\ trail' = [trail EXCEPT ![p].slug = app[p].slug]
  /\ Finish(r)
  /\ UNCHANGED <<people, authority, tokens, member>>

\* The update and its event, in one transaction.
UpdateAppCommit(r) ==
  LET p == req[r].app IN
  /\ At(r, "updateApp")
  /\ SlugFree(p, req[r].slug)
  /\ app' = [app EXCEPT ![p].slug = req[r].slug]
  /\ trail' = [trail EXCEPT ![p].slug = req[r].slug]
  /\ Finish(r)
  /\ UNCHANGED <<people, authority, tokens, member>>

DeleteApp(r, k, p) ==
  /\ app[p] # None
  /\ Authorized(r, k, "delete", NoTarget, [Idle EXCEPT !.pc = "deleteApp", !.app = p])

ArchiveApp(r) ==
  LET p == req[r].app IN
  /\ At(r, "deleteApp")
  /\ app' = [app EXCEPT ![p].archived = TRUE]
  /\ trail' = [trail EXCEPT ![p].archived = TRUE]
  /\ Finish(r)
  /\ UNCHANGED <<people, authority, tokens, member>>

\* The three operations on members are updates of the application.
OnMember(r, k, step, p, a, role) ==
  /\ app[p] # None
  /\ a \in account
  /\ Authorized(r, k, "update", NoTarget,
       [Idle EXCEPT !.pc = step, !.app = p, !.acct = a, !.role = role])

AssignUser(r, k, p, a, role) == OnMember(r, k, "assign", p, a, role)
RemoveUser(r, k, p, a) == OnMember(r, k, "remove", p, a, None)
UpdateUserRoles(r, k, p, a, role) == OnMember(r, k, "roles", p, a, role)

SetRoles(r, step, role) ==
  /\ At(r, step)
  /\ member' = [member EXCEPT ![req[r].app][req[r].acct] = role]
  /\ Finish(r)
  /\ UNCHANGED <<people, authority, tokens, app, trail>>

Current(r) == member[req[r].app][req[r].acct]

\* INSERT ... ON CONFLICT DO NOTHING
AssignUserAccountToApp(r) ==
  SetRoles(r, "assign", IF Current(r) = None THEN req[r].role ELSE Current(r))

\* DELETE
RemoveUserAccountFromApp(r) == SetRoles(r, "remove", None)

\* UPDATE: of no row, when there is none.
SetAppUserAccountRoles(r) ==
  SetRoles(r, "roles", IF Current(r) = None THEN None ELSE req[r].role)

-----------------------------------------------------------------------------
\* Any request may be cut off: a unique violation, a database error, a crash.
Fail(r) ==
  /\ ~At(r, "idle")
  /\ Finish(r)
  /\ UNCHANGED <<people, authority, tokens, apps>>

OnAccounts(r, k) ==
  \/ \E a \in Account :
       \/ Create(r, k, a) \/ GrantAdmin(r, k, a) \/ RevokeAdmin(r, k, a)
       \/ Delete(r, k, a) \/ Assume(r, k, a)
  \/ \E g \in GrantChoice : CreateGrant(r, k, g)

OnApps(r, k) ==
  \E p \in App :
    \/ \E s \in Slug : CreateApp(r, k, p, s)
    \/ \E s \in Slug \cup {None} : UpdateApp(r, k, p, s)
    \/ DeleteApp(r, k, p)
    \/ \E a \in Account :
         \/ RemoveUser(r, k, p, a)
         \/ \E role \in Role : AssignUser(r, k, p, a, role) \/ UpdateUserRoles(r, k, p, a, role)

Commit(r) ==
  \/ InsertAccount(r) \/ FirstUserHook(r) \/ CreateCommit(r)
  \/ CreateWildcardGrant(r) \/ DeleteWildcardGrant(r) \/ GiveGrant(r)
  \/ ArchiveEntity(r) \/ IssueAssumeJWT(r)
  \/ CreateAppCommit(r) \/ UpdateAppCommit(r) \/ ArchiveApp(r)
  \/ AssignUserAccountToApp(r) \/ RemoveUserAccountFromApp(r) \/ SetAppUserAccountRoles(r)

Next ==
  \E r \in Request :
    \/ \E a \in Account : CountAccounts(r, a)
    \/ \E k \in Bearer : OnAccounts(r, k) \/ OnApps(r, k)
    \/ Commit(r)
    \/ Fail(r)

Spec == Init /\ [][Next]_vars

-----------------------------------------------------------------------------
(* Properties                                                              *)

\* A request has read what its next step uses.
RequestOK(q) ==
  /\ q.pc \in {"insert", "hook", "create", "grant", "revoke", "delete", "assume",
               "assign", "remove", "roles"} => q.acct # None
  /\ q.pc \in {"hook", "grant", "revoke", "delete", "assume", "assign", "remove", "roles"}
       => q.acct \in account
  /\ q.pc \in {"grant", "give", "assume"} =>
       q.token # None /\ {q.token.sub, q.token.origin} \subseteq account
  /\ q.pc = "give" => q.grant # None
  /\ q.pc \in {"createApp", "updateApp"} => q.slug # None /\ q.app # None
  /\ q.pc \in {"updateApp", "deleteApp", "assign", "remove", "roles"}
       => q.app # None /\ app[q.app] # None
  /\ q.pc \in {"assign", "roles"} => q.role # None

\* Every value has its type; members are accounts, of applications that exist.
TypeOK ==
  /\ account \subseteq Account
  /\ archived \subseteq account
  /\ grants \subseteq Grant
  /\ ledger \in Seq(Entry)
  /\ tokens \subseteq [sub: account, sudo: account, origin: account]
  /\ app \in [App -> AppRow \cup {None}]
  /\ member \in [App -> [Account -> Role \cup {None}]]
  /\ \A p \in App, a \in Account :
       member[p][a] # None => app[p] # None /\ a \in account
  /\ trail \in [App -> AppRow \cup {None}]
  /\ req \in [Request -> Req]
  /\ \A r \in Request : RequestOK(req[r])
  /\ served \in Nat

\* docs/users-module-spec.md: the admin's identity is preserved on assume.
\* However many identities somebody assumes in a row, the subject of the token,
\* who the audit log calls the actor, is the account that signed in.
AdminIdentityPreserved ==
  /\ \A k \in tokens : k.sub = k.origin
  /\ \A r \in Request : req[r].token # None => req[r].token.sub = req[r].token.origin

\* A request that takes an administrator.
Administrative == {"create", "grant", "revoke", "give", "createApp", "updateApp",
                   "deleteApp", "assign", "remove", "roles"}

\* Whom a first-user hook made an administrator.
Booted ==
  {a \in Account : \E n \in DOMAIN ledger :
     ledger[n] = [by |-> None, grant |-> WildcardManage(a)]}

\* Until a first-user hook has run, and whatever accounts there are, nobody has
\* a grant or an application, has assumed or archived anyone but himself, or has
\* a request for any of it under way: all authority stems from the bootstrap.
AuthorityStemsFromBootstrap ==
  Booted = {} =>
    /\ grants = {}
    /\ \A p \in App : app[p] = None
    /\ \A k \in tokens : k.sudo = k.sub
    /\ \A r \in Request :
         /\ req[r].pc \notin Administrative
         /\ req[r].pc \in {"assume", "delete"} => req[r].acct = req[r].token.sub

\* The grants of the first n entries, those that were revoked since included.
Given(n) == {ledger[m].grant : m \in 1..n}

\* Every grant descends from the bootstrap: it was made by a first-user hook, or
\* for somebody whom the grants made before it, revoked or not, authorized to
\* make grants.  Nobody makes himself an administrator, in however many steps,
\* by whatever identities he assumes, and however late his requests commit.
GrantsHavePedigree ==
  /\ grants \subseteq Given(Len(ledger))
  /\ \A n \in DOMAIN ledger :
       \/ ledger[n].by = None /\ \E a \in account : ledger[n].grant = WildcardManage(a)
       \/ ledger[n].by # None /\ Authorize(Given(n - 1), ledger[n].by, Manage, NoTarget)

\* <<x, y>>: some grant ever made lets x assume y, or x is y.
MayAssume ==
  {e \in Account \X Account : Authorize(Given(Len(ledger)), e[1], "assume", e[2])}

\* Whom somebody acts as he was led to by assumptions each of which was allowed,
\* from the account he signed in to.
AssumedByPermission == \A k \in tokens : k.sudo \in Chain(k.origin, MayAssume)

\* The last event of an application in the audit log is its row: an update that
\* was computed from a row read before another's commit, too, is recorded as
\* what it wrote.
AuditTracksApps == trail = app

\* What is archived stays so: a late write of a request that read the row
\* before it was archived does not bring it back.
ArchivedForGood ==
  [][/\ archived \subseteq archived'
     /\ \A p \in App : app[p] # None /\ app[p].archived
                         => app'[p] # None /\ app'[p].archived]_vars

\* What comments say and the policy does not allow, refuted by a run: when the
\* first-user hook has failed, an operator can create the grant manually via POST
\* /v1/authz/grants.  After such a failure, there are accounts, nobody was made an
\* administrator and no request is under way: some token opens that route.
OperatorCanGrant ==
  account # {} /\ Booted = {} /\ (\A r \in Request : At(r, "idle")) =>
    \E k \in Bearer : Authorize(grants, EffectiveActor(k), Manage, NoTarget)
=============================================================================
