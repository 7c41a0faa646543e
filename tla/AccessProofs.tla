-------------------------- MODULE AccessProofs --------------------------
(***************************************************************************)
(* What Authz and Access promise, proved for any entities, operations,     *)
(* groups and grants, and any number of requests in flight.                *)
(*                                                                         *)
(* IInv is inductive.  Accounts and applications only ever grow, so a      *)
(* request stays good while others commit.  That authority stems from the  *)
(* bootstrap rests on one fact of the policy: without grants, nobody may   *)
(* do anything but to himself and to the tags he owns (NothingGranted).    *)
(***************************************************************************)
EXTENDS Access, TLAPS

-----------------------------------------------------------------------------
(* The policy                                                              *)

LEMMA OpType == \A op \in Operation : OpIDs(op) \subseteq Registered
  BY AuthzAssumption DEF OpIDs, Manage, Registered

\* More grants never take a right away, and a grant of any kind only adds
\* rights: revoking is the only way to lose one.
THEOREM GrantsOnlyAdd ==
  ASSUME NEW few \in SUBSET Grant, NEW many \in SUBSET Grant, few \subseteq many,
         NEW x \in Entity, NEW op \in Operation, NEW t \in Entity \cup {NoTarget},
         Authorize(few, x, op, t)
  PROVE  Authorize(many, x, op, t)
  BY DEF Authorize, CheckWildcardGrant, CheckGrant

\* Whoever a group is a member of, he is a member of: what is granted to the
\* outer group is his, too.
THEOREM MembershipComposes ==
  ASSUME NEW x \in Entity, NEW y \in Entity, NEW z \in Entity, NEW edges \in SUBSET (Entity \X Entity),
         y \in Chain(x, edges), z \in Chain(y, edges)
  PROVE  z \in Chain(x, edges)
<1> SUFFICES ASSUME NEW s \in SUBSET Entity, x \in s,
                    \A e \in edges : e[1] \in s => e[2] \in s
             PROVE  z \in s
  BY DEF Chain
<1>1. y \in s
  BY DEF Chain
<1>2. QED
  BY <1>1 DEF Chain

\* Without grants there are two rights left: over oneself, and over one's tags.
\* A call without a target is refused, and so is one with an unknown operation.
THEOREM NothingGranted ==
  ASSUME NEW x \in Entity, NEW op \in Operation, NEW t \in Entity \cup {NoTarget},
         Authorize({}, x, op, t)
  PROVE  t # NoTarget /\ op \in Registered /\ (t = x \/ <<t, x>> \in TagOwner)
  BY DEF Authorize, CheckWildcardGrant, CheckGrant, CheckTagOwnership

\* A grant concerns only those it names: where it decides a call, the caller is
\* its actor or in a group that is, the target likewise (or it is a wildcard),
\* and the operation is the one granted or implied by it.
THEOREM GrantsStayLocal ==
  ASSUME NEW granted \in SUBSET Grant, NEW g \in Grant,
         NEW x \in Entity, NEW op \in Operation, NEW t \in Entity \cup {NoTarget},
         Authorize(granted \cup {g}, x, op, t), ~Authorize(granted, x, op, t)
  PROVE  /\ g.actor \in Chain(x, ActorGroup)
         /\ g.op \in OpIDs(op)
         /\ g.target = All \/ (t # NoTarget /\ g.target \in Chain(t, TargetGroup))
<1>1. CASE CheckWildcardGrant(granted \cup {g}, x, OpIDs(op))
  BY <1>1 DEF Authorize, CheckWildcardGrant
<1>2. CASE op \in Registered /\ t # NoTarget /\ CheckGrant(granted \cup {g}, x, t, OpIDs(op))
  BY <1>2 DEF Authorize, CheckGrant
<1>3. QED
  BY <1>1, <1>2 DEF Authorize

\* An administrator may do anything, to anything, by any name.
THEOREM AdministratorMayDoAll ==
  ASSUME NEW granted \in SUBSET Grant, NEW x \in Entity, WildcardManage(x) \in granted,
         NEW op \in Operation, NEW t \in Entity \cup {NoTarget},
         \A o \in Registered : Manage \in SatisfiedBy[o]
  PROVE  Authorize(granted, x, op, t)
<1>1. x \in Chain(x, ActorGroup)
  BY DEF Chain
<1>2. Manage \in OpIDs(op)
  BY AuthzAssumption DEF OpIDs
<1>3. CheckWildcardGrant(granted, x, OpIDs(op))
  BY <1>1, <1>2 DEF CheckWildcardGrant, WildcardManage
<1>4. QED
  BY <1>3 DEF Authorize

-----------------------------------------------------------------------------
(* The inductive invariant                                                 *)

IInv == TypeOK /\ AdminIdentityPreserved /\ AuthorityStemsFromBootstrap /\ AuditTracksApps

\* Only an entry of the ledger makes a first administrator.
LEMMA BootedKept == UNCHANGED ledger => UNCHANGED Booted
  BY DEF Booted

LEMMA BearerOK ==
  ASSUME IInv, NEW k \in Bearer
  PROVE  /\ k \in Token /\ k # None /\ {k.sub, k.origin} \subseteq account
         /\ k.sub = k.origin
         /\ EffectiveActor(k) \in account
         /\ Booted = {} => EffectiveActor(k) = k.sub
<1>0. account \subseteq Account /\ None \notin Account
  BY AccessAssumption DEF IInv, TypeOK
<1>1. CASE k \in tokens
  <2>1. k \in [sub: account, sudo: account, origin: account]
    BY <1>1 DEF IInv, TypeOK
  <2>2. k \in Token /\ k.sudo # None
    BY <1>0, <2>1 DEF Token
  <2>3. k.sub = k.origin /\ (Booted = {} => k.sudo = k.sub)
    BY <1>1 DEF IInv, AdminIdentityPreserved, AuthorityStemsFromBootstrap
  <2>4. QED
    BY <2>1, <2>2, <2>3, AccessAssumption DEF EffectiveActor
<1>2. CASE k \notin tokens
  <2>1. PICK a \in account : k = [sub |-> a, sudo |-> None, origin |-> a]
    BY <1>2 DEF Bearer, Own
  <2>2. k \in Token
    BY <1>0, <2>1 DEF Token
  <2>3. QED
    BY <2>1, <2>2, AccessAssumption DEF EffectiveActor
<1>3. QED
  BY <1>1, <1>2

LEMMA IdleOK == Idle \in Req /\ RequestOK(Idle)'
  BY DEF Idle, Req, Step, RequestOK

\* One request moves on, while accounts and applications only grow.
LEMMA RequestsKept ==
  ASSUME TypeOK, NEW r \in Request, NEW next \in Req, req' = [req EXCEPT ![r] = next],
         RequestOK(next)', account \subseteq account',
         \A p \in App : app[p] # None => app'[p] # None
  PROVE  /\ req' \in [Request -> Req]
         /\ \A q \in Request : RequestOK(req[q])'
<1>1. req \in [Request -> Req]
  BY DEF TypeOK
<1>2. ASSUME NEW q \in Request
      PROVE  RequestOK(req[q])'
  <2>1. CASE q = r
    <3>1. req'[q] = next
      BY <1>1, <2>1
    <3>2. QED
      BY <3>1 DEF RequestOK
  <2>2. CASE q # r
    <3>1. req'[q] = req[q] /\ RequestOK(req[q]) /\ req[q] \in Req
      BY <1>1, <2>2 DEF TypeOK
    <3>2. req[q].app \in App \cup {None}
      BY <3>1 DEF Req
    <3>3. QED
      BY <3>1, <3>2 DEF RequestOK
  <2>3. QED
    BY <2>1, <2>2
<1>3. QED
  BY <1>1, <1>2

\* A request begins: only it changes, and the count of requests.
LEMMA Begin ==
  ASSUME IInv, NEW r \in Request, NEW next \in Req, RequestOK(next), Start(r, next),
         UNCHANGED <<people, authority, tokens, apps>>,
         next.token # None => next.token.sub = next.token.origin,
         Booted = {} => /\ next.pc \notin Administrative
                        /\ next.pc \in {"assume", "delete"} => next.acct = next.token.sub
  PROVE  IInv'
<1>1. /\ req' = [req EXCEPT ![r] = next] /\ served' = served + 1
      /\ UNCHANGED <<account, archived, grants, ledger, tokens, app, member, trail>>
  BY DEF Start, people, authority, apps
<1>2. RequestOK(next)'
  BY <1>1 DEF RequestOK
<1>3. req' \in [Request -> Req] /\ \A q \in Request : RequestOK(req[q])'
  BY <1>1, <1>2, RequestsKept DEF IInv
<1>4. TypeOK'
  BY <1>1, <1>3 DEF IInv, TypeOK
<1>5. /\ req'[r] = next
      /\ \A q \in Request \ {r} : req'[q] = req[q]
  BY <1>1 DEF IInv, TypeOK
<1>6. AdminIdentityPreserved'
  BY <1>1, <1>5 DEF IInv, AdminIdentityPreserved
<1>7. AuthorityStemsFromBootstrap'
  BY <1>1, <1>5, BootedKept DEF IInv, AuthorityStemsFromBootstrap
<1>8. QED
  BY <1>1, <1>4, <1>6, <1>7 DEF IInv, AuditTracksApps

\* A request ends, and has written something.
LEMMA End ==
  ASSUME IInv, NEW r \in Request, req' = [req EXCEPT ![r] = Idle], UNCHANGED served,
         account \subseteq account', account' \subseteq Account,
         archived' \subseteq account',
         grants' \subseteq Grant, ledger' \in Seq(Entry),
         tokens' \subseteq [sub: account', sudo: account', origin: account'],
         app' \in [App -> AppRow \cup {None}], trail' = app',
         \A p \in App : app[p] # None => app'[p] # None,
         member' \in [App -> [Account -> Role \cup {None}]],
         \A p \in App, a \in Account :
           member'[p][a] # None => app'[p] # None /\ a \in account',
         \A k \in tokens' : k.sub = k.origin,
         Booted' = {} => /\ Booted = {} /\ grants' = {}
                         /\ \A p \in App : app'[p] = None
                         /\ \A k \in tokens' : k.sudo = k.sub
  PROVE  IInv'
<1>1. req' \in [Request -> Req] /\ \A q \in Request : RequestOK(req[q])'
  BY IdleOK, RequestsKept DEF IInv
<1>2. TypeOK'
  BY <1>1 DEF IInv, TypeOK
<1>3. /\ req'[r] = Idle
      /\ \A q \in Request \ {r} : req'[q] = req[q]
  BY DEF IInv, TypeOK
<1>4. AdminIdentityPreserved'
  BY <1>3 DEF IInv, AdminIdentityPreserved, Idle
<1>5. AuthorityStemsFromBootstrap'
  BY <1>3 DEF IInv, AuthorityStemsFromBootstrap, Idle, Administrative
<1>6. QED
  BY <1>2, <1>4, <1>5 DEF IInv, AuditTracksApps

-----------------------------------------------------------------------------
(* The actions.  Each lemma states that an action preserves IInv.          *)

\* A request of a bearer that the Authorizer lets in.
LEMMA AuthorizedStep ==
  ASSUME IInv, NEW r \in Request, NEW k \in Bearer, NEW op \in Operation,
         NEW t \in Account \cup {NoTarget}, NEW state \in Req, state.token = None,
         Authorized(r, k, op, t, state),
         RequestOK([state EXCEPT !.token = k]),
         state.pc \in Administrative => t = NoTarget,
         state.pc \in {"assume", "delete"} => t = state.acct
  PROVE  IInv'
<1> PICK next : next = [state EXCEPT !.token = k]
  OBVIOUS
<1>1. /\ Authorize(grants, EffectiveActor(k), op, t)
      /\ Start(r, next) /\ UNCHANGED <<people, authority, tokens, apps>>
  BY DEF Authorized
<1>2. next \in Req /\ next.pc = state.pc /\ next.acct = state.acct /\ next.token = k
  BY BearerOK DEF Req
<1>3. EffectiveActor(k) \in Entity /\ t \in Entity \cup {NoTarget}
  BY BearerOK, AccessAssumption DEF IInv, TypeOK
<1>4. ASSUME Booted = {}
      PROVE  t # NoTarget /\ t = k.sub
  <2>1. Authorize({}, EffectiveActor(k), op, t)
    BY <1>1, <1>4 DEF IInv, AuthorityStemsFromBootstrap
  <2>2. t # NoTarget /\ (t = EffectiveActor(k) \/ <<t, EffectiveActor(k)>> \in TagOwner)
    BY <1>3, <2>1, NothingGranted
  <2>3. <<t, EffectiveActor(k)>>[1] = t
    OBVIOUS
  <2>4. QED
    BY <1>4, <2>2, <2>3, BearerOK, AccessAssumption
<1>5. Booted = {} => /\ next.pc \notin Administrative
                     /\ next.pc \in {"assume", "delete"} => next.acct = next.token.sub
  BY <1>2, <1>4
<1>6. QED
  BY <1>1, <1>2, <1>5, BearerOK, Begin

LEMMA CountAccountsStep ==
  ASSUME IInv, NEW r \in Request, NEW a \in Account, CountAccounts(r, a)
  PROVE  IInv'
<1> PICK next : next = [Idle EXCEPT !.pc = "insert", !.acct = a, !.first = (account = {})]
  OBVIOUS
<1>1. Start(r, next) /\ UNCHANGED <<people, authority, tokens, apps>>
  BY DEF CountAccounts
<1>2. next.pc = "insert" /\ next.acct = a /\ next.token = None
  BY DEF Idle
<1>3. (account = {}) \in BOOLEAN
  OBVIOUS
<1>4. next \in Req
  BY <1>3 DEF Req, Step, Idle
<1>5. RequestOK(next)
  BY <1>2, AccessAssumption DEF RequestOK
<1>6. QED
  BY <1>1, <1>2, <1>4, <1>5, Begin DEF Administrative

LEMMA OnAccountsStep ==
  ASSUME IInv, NEW r \in Request, NEW k \in Bearer, OnAccounts(r, k)
  PROVE  IInv'
<1>0. Manage \in Operation /\ {"create", "delete", "assume"} \subseteq Operation
  BY AuthzAssumption, AccessAssumption
<1>1. ASSUME NEW a \in Account, Create(r, k, a)
      PROVE  IInv'
  <2> PICK state : state = [Idle EXCEPT !.pc = "create", !.acct = a]
    OBVIOUS
  <2>1. state \in Req /\ state.token = None /\ state.pc = "create" /\ state.acct = a
    BY DEF Idle, Req, Step
  <2>2. RequestOK([state EXCEPT !.token = k])
    BY <2>1, AccessAssumption DEF RequestOK, Req
  <2>3. Authorized(r, k, "create", NoTarget, state)
    BY <1>1 DEF Create
  <2>4. QED
    BY <1>0, <2>1, <2>2, <2>3, AuthorizedStep
<1>2. ASSUME NEW a \in Account, NEW step \in {"grant", "revoke"}, a \in account,
             Authorized(r, k, Manage, NoTarget, [Idle EXCEPT !.pc = step, !.acct = a])
      PROVE  IInv'
  <2> PICK state : state = [Idle EXCEPT !.pc = step, !.acct = a]
    OBVIOUS
  <2>1. state \in Req /\ state.token = None /\ state.pc = step /\ state.acct = a
    BY DEF Idle, Req, Step
  <2>2. [state EXCEPT !.token = k].token = k
    BY <2>1 DEF Req
  <2>3. RequestOK([state EXCEPT !.token = k])
    BY <1>2, <2>1, <2>2, BearerOK, AccessAssumption DEF RequestOK, Req
  <2>4. QED
    BY <1>0, <1>2, <2>1, <2>3, AuthorizedStep
<1>3. ASSUME NEW g \in GrantChoice, CreateGrant(r, k, g)
      PROVE  IInv'
  <2> PICK state : state = [Idle EXCEPT !.pc = "give", !.grant = g]
    OBVIOUS
  <2>1. g \in Grant
    BY AccessAssumption
  <2>2. state \in Req /\ state.token = None /\ state.pc = "give" /\ state.grant = g
    BY <2>1 DEF Idle, Req, Step
  <2>3. [state EXCEPT !.token = k].token = k
    BY <2>2 DEF Req
  <2>4. RequestOK([state EXCEPT !.token = k])
    BY <2>1, <2>2, <2>3, BearerOK, AccessAssumption DEF RequestOK, Req
  <2>5. Authorized(r, k, Manage, NoTarget, state)
    BY <1>3 DEF CreateGrant
  <2>6. QED
    BY <1>0, <2>2, <2>4, <2>5, AuthorizedStep
<1>4. ASSUME NEW a \in Account, NEW step \in {"delete", "assume"}, a \in account,
             Authorized(r, k, step, a, [Idle EXCEPT !.pc = step, !.acct = a])
      PROVE  IInv'
  <2> PICK state : state = [Idle EXCEPT !.pc = step, !.acct = a]
    OBVIOUS
  <2>1. state \in Req /\ state.token = None /\ state.pc = step /\ state.acct = a
    BY DEF Idle, Req, Step
  <2>2. [state EXCEPT !.token = k].token = k
    BY <2>1 DEF Req
  <2>3. RequestOK([state EXCEPT !.token = k])
    BY <1>4, <2>1, <2>2, BearerOK, AccessAssumption DEF RequestOK, Req
  <2>4. QED
    BY <1>0, <1>4, <2>1, <2>3, AuthorizedStep DEF Administrative
<1>5. QED
  BY <1>1, <1>2, <1>3, <1>4 DEF OnAccounts, GrantAdmin, RevokeAdmin, Delete, Assume

LEMMA OnAppsStep ==
  ASSUME IInv, NEW r \in Request, NEW k \in Bearer, OnApps(r, k)
  PROVE  IInv'
<1>0. {"create", "update", "delete"} \subseteq Operation
  BY AccessAssumption
<1>1. ASSUME NEW p \in App, NEW step \in {"createApp", "updateApp"}, NEW s \in Slug, NEW op \in Operation,
             step = "updateApp" => app[p] # None,
             Authorized(r, k, op, NoTarget, [Idle EXCEPT !.pc = step, !.app = p, !.slug = s])
      PROVE  IInv'
  <2> PICK state : state = [Idle EXCEPT !.pc = step, !.app = p, !.slug = s]
    OBVIOUS
  <2>1. state \in Req /\ state.token = None /\ state.pc = step /\ state.app = p /\ state.slug = s
    BY DEF Idle, Req, Step
  <2>2. RequestOK([state EXCEPT !.token = k])
    BY <1>1, <2>1, AccessAssumption DEF RequestOK, Req
  <2>3. QED
    BY <1>1, <2>1, <2>2, AuthorizedStep
<1>2. ASSUME NEW p \in App, DeleteApp(r, k, p)
      PROVE  IInv'
  <2> PICK state : state = [Idle EXCEPT !.pc = "deleteApp", !.app = p]
    OBVIOUS
  <2>1. state \in Req /\ state.token = None /\ state.pc = "deleteApp" /\ state.app = p
    BY DEF Idle, Req, Step
  <2>2. app[p] # None /\ Authorized(r, k, "delete", NoTarget, state)
    BY <1>2 DEF DeleteApp
  <2>3. RequestOK([state EXCEPT !.token = k])
    BY <2>1, <2>2, AccessAssumption DEF RequestOK, Req
  <2>4. QED
    BY <1>0, <2>1, <2>2, <2>3, AuthorizedStep
<1>3. ASSUME NEW p \in App, NEW a \in Account, NEW step \in {"assign", "remove", "roles"},
             NEW role \in Role \cup {None}, step # "remove" => role # None,
             OnMember(r, k, step, p, a, role)
      PROVE  IInv'
  <2> PICK state : state = [Idle EXCEPT !.pc = step, !.app = p, !.acct = a, !.role = role]
    OBVIOUS
  <2>1. /\ state \in Req /\ state.token = None /\ state.pc = step /\ state.app = p
        /\ state.acct = a /\ state.role = role
    BY DEF Idle, Req, Step
  <2>2. app[p] # None /\ a \in account /\ Authorized(r, k, "update", NoTarget, state)
    BY <1>3 DEF OnMember
  <2>3. RequestOK([state EXCEPT !.token = k])
    BY <1>3, <2>1, <2>2, AccessAssumption DEF RequestOK, Req
  <2>4. QED
    BY <1>0, <2>1, <2>2, <2>3, AuthorizedStep
<1>4. ASSUME NEW p \in App, NEW s \in Slug \cup {None}, UpdateApp(r, k, p, s)
      PROVE  IInv'
  <2>1. PICK slug : slug = IF s = None THEN app[p].slug ELSE s
    OBVIOUS
  <2>2. app[p] # None /\ app[p] \in AppRow
    BY <1>4 DEF UpdateApp, IInv, TypeOK
  <2>3. slug \in Slug
    BY <2>1, <2>2 DEF AppRow
  <2>4. Authorized(r, k, "update", NoTarget,
                   [Idle EXCEPT !.pc = "updateApp", !.app = p, !.slug = slug])
    BY <1>4, <2>1 DEF UpdateApp
  <2>5. QED
    BY <1>0, <1>1, <2>2, <2>3, <2>4
<1>5. QED
  BY <1>0, <1>1, <1>2, <1>3, <1>4, AccessAssumption
  DEF OnApps, CreateApp, AssignUser, RemoveUser, UpdateUserRoles

\* What a request that is about to commit may rely on.
LEMMA Ready ==
  ASSUME IInv, NEW r \in Request
  PROVE  /\ req[r] \in Req /\ RequestOK(req[r])
         /\ req[r].pc \in Administrative => Booted # {}
         /\ Booted = {} => grants = {} /\ (\A p \in App : app[p] = None)
                          /\ (\A k \in tokens : k.sudo = k.sub)
         /\ \A k \in tokens : k.sub = k.origin
  BY DEF IInv, TypeOK, AuthorityStemsFromBootstrap, AdminIdentityPreserved

LEMMA WildcardOK == \A a \in Account : WildcardManage(a) \in Grant
  BY AuthzAssumption, AccessAssumption DEF WildcardManage, Grant

LEMMA InsertAccountStep ==
  ASSUME IInv, NEW r \in Request, InsertAccount(r)
  PROVE  IInv'
<1>1. /\ req[r] \in Req /\ req[r].pc = "insert" /\ req[r].acct \in Account
      /\ account' = account \cup {req[r].acct}
      /\ UNCHANGED <<archived, grants, ledger, tokens, app, member, trail, served>>
  BY Ready DEF InsertAccount, At, Req, RequestOK, authority, apps
<1>2. CASE ~req[r].first
  <2>1. req' = [req EXCEPT ![r] = Idle]
    BY <1>2 DEF InsertAccount
  <2>2. tokens' \subseteq [sub: account', sudo: account', origin: account']
    BY <1>1 DEF IInv, TypeOK
  <2>3. account' \subseteq Account /\ archived' \subseteq account'
    BY <1>1 DEF IInv, TypeOK
  <2>4. \A p \in App, a \in Account : member'[p][a] # None => app'[p] # None /\ a \in account'
    BY <1>1 DEF IInv, TypeOK
  <2>5. QED
    BY <1>1, <2>1, <2>2, <2>3, <2>4, BootedKept, Ready, End DEF IInv, TypeOK, AuditTracksApps
<1>3. CASE req[r].first
  <2> PICK next : next = [req[r] EXCEPT !.pc = "hook"]
    OBVIOUS
  <2>1. req' = [req EXCEPT ![r] = next]
    BY <1>3 DEF InsertAccount
  <2>2. /\ next \in Req /\ next.pc = "hook" /\ next.acct = req[r].acct
        /\ next.token = req[r].token
    BY <1>1 DEF Req, Step
  <2>3. RequestOK(next)'
    BY <1>1, <2>2, AccessAssumption DEF RequestOK
  <2>4. req' \in [Request -> Req] /\ \A q \in Request : RequestOK(req[q])'
    BY <1>1, <2>1, <2>2, <2>3, RequestsKept DEF IInv
  <2>5. tokens' \subseteq [sub: account', sudo: account', origin: account']
    BY <1>1 DEF IInv, TypeOK
  <2>6. TypeOK'
    BY <1>1, <2>4, <2>5 DEF IInv, TypeOK
  <2>7. /\ req'[r] = next
        /\ \A q \in Request \ {r} : req'[q] = req[q]
    BY <2>1 DEF IInv, TypeOK
  <2>8. AdminIdentityPreserved'
    <3>1. ASSUME NEW q \in Request, req'[q].token # None
          PROVE  req'[q].token.sub = req'[q].token.origin
      <4>1. req'[q].token = req[q].token
        BY <2>2, <2>7
      <4>2. QED
        BY <3>1, <4>1 DEF IInv, AdminIdentityPreserved
    <3>2. QED
      BY <1>1, <3>1, Ready DEF AdminIdentityPreserved
  <2>9. AuthorityStemsFromBootstrap'
    <3>1. ASSUME Booted' = {}, NEW q \in Request
          PROVE  /\ req'[q].pc \notin Administrative
                 /\ req'[q].pc \in {"assume", "delete"} => req'[q].acct = req'[q].token.sub
      <4>1. CASE q = r
        BY <2>2, <2>7, <4>1 DEF Administrative
      <4>2. CASE q # r
        BY <1>1, <2>7, <3>1, <4>2, BootedKept DEF IInv, AuthorityStemsFromBootstrap
      <4>3. QED
        BY <4>1, <4>2
    <3>2. QED
      BY <1>1, <3>1, BootedKept, Ready DEF AuthorityStemsFromBootstrap
  <2>10. QED
    BY <1>1, <2>6, <2>8, <2>9 DEF IInv, AuditTracksApps
<1>4. QED
  BY <1>2, <1>3

\* A grant is made, and the ledger has it, at the end if it is new.
LEMMA GiveOK ==
  ASSUME IInv, NEW by \in Account \cup {None}, NEW g \in Grant, Give(by, g)
  PROVE  /\ grants' = grants \cup {g} /\ grants' \subseteq Grant
         /\ ledger' \in Seq(Entry)
         /\ \/ ledger' = ledger
            \/ /\ Len(ledger') = Len(ledger) + 1
               /\ ledger'[Len(ledger) + 1] = [by |-> by, grant |-> g]
               /\ \A n \in DOMAIN ledger : ledger'[n] = ledger[n]
         /\ \E n \in DOMAIN ledger' : ledger'[n] = [by |-> by, grant |-> g]
         /\ Booted \subseteq Booted'
<1> PICK entry : entry = [by |-> by, grant |-> g]
  OBVIOUS
<1>1. entry \in Entry /\ ledger \in Seq(Entry) /\ grants \subseteq Grant
  BY DEF Entry, IInv, TypeOK
<1>2. /\ grants' = grants \cup {g}
      /\ ledger' = IF \E n \in DOMAIN ledger : ledger[n] = entry THEN ledger
                   ELSE Append(ledger, entry)
  BY DEF Give
<1>3. CASE \E n \in DOMAIN ledger : ledger[n] = entry
  BY <1>1, <1>2, <1>3 DEF Booted
<1>4. CASE ledger' = Append(ledger, entry)
  <2>1. /\ ledger' \in Seq(Entry) /\ Len(ledger') = Len(ledger) + 1
        /\ ledger'[Len(ledger) + 1] = entry
        /\ \A n \in DOMAIN ledger : n \in DOMAIN ledger' /\ ledger'[n] = ledger[n]
        /\ Len(ledger) + 1 \in DOMAIN ledger'
    BY <1>1, <1>4
  <2>2. Booted \subseteq Booted'
    BY <2>1 DEF Booted
  <2>3. QED
    BY <1>1, <1>2, <2>1, <2>2
<1>5. QED
  BY <1>2, <1>3, <1>4

LEMMA FirstUserHookStep ==
  ASSUME IInv, NEW r \in Request, FirstUserHook(r)
  PROVE  IInv'
<1>0. PICK g : g = WildcardManage(req[r].acct)
  OBVIOUS
<1>1. /\ req[r].acct \in account /\ Give(None, g)
      /\ req' = [req EXCEPT ![r] = Idle]
      /\ UNCHANGED <<account, archived, tokens, app, member, trail, served>>
  BY <1>0, Ready DEF FirstUserHook, Finish, At, RequestOK, people, apps
<1>2. req[r].acct \in Account /\ g \in Grant
  BY <1>0, <1>1, WildcardOK DEF IInv, TypeOK
<1>3. /\ grants' \subseteq Grant /\ ledger' \in Seq(Entry)
      /\ \E n \in DOMAIN ledger' : ledger'[n] = [by |-> None, grant |-> g]
  BY <1>1, <1>2, GiveOK
<1>4. Booted' # {}
  BY <1>0, <1>2, <1>3 DEF Booted, WildcardManage
<1>5. QED
  BY <1>1, <1>3, <1>4, Ready, End DEF IInv, TypeOK, AuditTracksApps

LEMMA CreateStep ==
  ASSUME IInv, NEW r \in Request, CreateCommit(r)
  PROVE  IInv'
<1>1. /\ req[r] \in Req /\ req[r].acct \in Account
      /\ account' = account \cup {req[r].acct}
      /\ req' = [req EXCEPT ![r] = Idle]
      /\ UNCHANGED <<archived, grants, ledger, tokens, app, member, trail, served>>
  BY Ready DEF CreateCommit, Finish, At, Req, RequestOK, authority, apps
<1>2. tokens' \subseteq [sub: account', sudo: account', origin: account']
  BY <1>1 DEF IInv, TypeOK
<1>3. account' \subseteq Account /\ archived' \subseteq account'
  BY <1>1 DEF IInv, TypeOK
<1>4. \A p \in App, a \in Account : member'[p][a] # None => app'[p] # None /\ a \in account'
  BY <1>1 DEF IInv, TypeOK
<1>5. QED
  BY <1>1, <1>2, <1>3, <1>4, BootedKept, Ready, End DEF IInv, TypeOK, AuditTracksApps

\* A grant is made for somebody who was authorized to.
LEMMA GiveForStep ==
  ASSUME IInv, NEW r \in Request, NEW step \in {"grant", "give"}, NEW g \in Grant,
         GiveFor(r, step, g)
  PROVE  IInv'
<1>1. /\ req[r].pc = step /\ Give(EffectiveActor(req[r].token), g)
      /\ req' = [req EXCEPT ![r] = Idle]
      /\ UNCHANGED <<account, archived, tokens, app, member, trail, served>>
  BY DEF GiveFor, Finish, At, people, apps
<1>2. EffectiveActor(req[r].token) \in Account
  BY <1>1, Ready, AccessAssumption DEF RequestOK, EffectiveActor, Req, Token
<1>3. Booted # {} /\ Booted \subseteq Booted'
  BY <1>1, <1>2, Ready, GiveOK DEF Administrative
<1>4. grants' \subseteq Grant /\ ledger' \in Seq(Entry)
  BY <1>1, <1>2, GiveOK
<1>5. QED
  BY <1>1, <1>3, <1>4, Ready, End DEF IInv, TypeOK, AuditTracksApps

LEMMA DeleteWildcardGrantStep ==
  ASSUME IInv, NEW r \in Request, DeleteWildcardGrant(r)
  PROVE  IInv'
<1>1. /\ req[r].pc = "revoke" /\ grants' \subseteq grants
      /\ req' = [req EXCEPT ![r] = Idle]
      /\ UNCHANGED <<account, archived, ledger, tokens, app, member, trail, served>>
  BY DEF DeleteWildcardGrant, Finish, At, people, apps
<1>2. Booted # {} /\ Booted' = Booted
  BY <1>1, Ready, BootedKept DEF Administrative
<1>3. QED
  BY <1>1, <1>2, Ready, End DEF IInv, TypeOK, AuditTracksApps

LEMMA GrantsStep ==
  ASSUME IInv, NEW r \in Request,
         CreateWildcardGrant(r) \/ DeleteWildcardGrant(r) \/ GiveGrant(r)
  PROVE  IInv'
<1>1. CASE CreateWildcardGrant(r)
  <2>1. req[r].acct \in Account
    BY <1>1, Ready DEF CreateWildcardGrant, GiveFor, At, RequestOK, IInv, TypeOK
  <2>2. QED
    BY <1>1, <2>1, WildcardOK, GiveForStep DEF CreateWildcardGrant
<1>2. CASE GiveGrant(r)
  <2>1. req[r].grant \in Grant
    BY <1>2, Ready DEF GiveGrant, GiveFor, At, RequestOK, Req
  <2>2. QED
    BY <1>2, <2>1, GiveForStep DEF GiveGrant
<1>3. QED
  BY <1>1, <1>2, DeleteWildcardGrantStep

LEMMA ArchiveEntityStep ==
  ASSUME IInv, NEW r \in Request, ArchiveEntity(r)
  PROVE  IInv'
<1>1. /\ req[r].acct \in account /\ archived' = archived \cup {req[r].acct}
      /\ req' = [req EXCEPT ![r] = Idle]
      /\ UNCHANGED <<account, grants, ledger, tokens, app, member, trail, served>>
  BY Ready DEF ArchiveEntity, Finish, At, RequestOK, authority, apps
<1>2. QED
  BY <1>1, BootedKept, Ready, End DEF IInv, TypeOK, AuditTracksApps

\* Before the bootstrap, one can only assume oneself.
LEMMA IssueAssumeJWTStep ==
  ASSUME IInv, NEW r \in Request, IssueAssumeJWT(r)
  PROVE  IInv'
<1> PICK k : k = [sub |-> req[r].token.sub, sudo |-> req[r].acct, origin |-> req[r].token.origin]
  OBVIOUS
<1>1. /\ req[r].pc = "assume" /\ tokens' = tokens \cup {k} /\ req' = [req EXCEPT ![r] = Idle]
      /\ UNCHANGED <<account, archived, grants, ledger, app, member, trail, served>>
  BY DEF IssueAssumeJWT, IssueFor, Finish, At, people, authority, apps
<1>2. req[r].token # None /\ {req[r].token.sub, req[r].token.origin, req[r].acct} \subseteq account
  BY <1>1, Ready DEF RequestOK
<1>3. k \in [sub: account, sudo: account, origin: account]
  BY <1>2
<1>4. k.sub = k.origin
  BY <1>2 DEF IInv, AdminIdentityPreserved
<1>5. Booted = {} => k.sudo = k.sub
  BY <1>1 DEF IInv, AuthorityStemsFromBootstrap
<1>6. tokens' \subseteq [sub: account', sudo: account', origin: account']
  BY <1>1, <1>3 DEF IInv, TypeOK
<1>7. QED
  BY <1>1, <1>4, <1>5, <1>6, BootedKept, Ready, End DEF IInv, TypeOK, AuditTracksApps

\* An application changes, and the audit log with it.
LEMMA WriteApp ==
  ASSUME IInv, NEW r \in Request, NEW p \in App, NEW row \in AppRow,
         req[r].pc \in Administrative,
         app' = [app EXCEPT ![p] = row], trail' = [trail EXCEPT ![p] = row], Finish(r),
         UNCHANGED <<people, authority, tokens, member>>
  PROVE  IInv'
<1>1. /\ req' = [req EXCEPT ![r] = Idle]
      /\ UNCHANGED <<account, archived, grants, ledger, tokens, member, served>>
  BY DEF Finish, people, authority
<1>2. Booted # {}
  BY Ready
<1>3. trail' = app' /\ app' \in [App -> AppRow \cup {None}]
  BY DEF IInv, TypeOK, AuditTracksApps
<1>4. \A q \in App : app[q] # None => app'[q] # None
  BY AccessAssumption DEF IInv, TypeOK
<1>5. QED
  BY <1>1, <1>2, <1>3, <1>4, BootedKept, Ready, End DEF IInv, TypeOK

LEMMA AppsStep ==
  ASSUME IInv, NEW r \in Request, CreateAppCommit(r) \/ UpdateAppCommit(r) \/ ArchiveApp(r)
  PROVE  IInv'
<1>0. trail = app
  BY DEF IInv, AuditTracksApps
<1>1. CASE CreateAppCommit(r)
  <2>1. req[r].app \in App /\ req[r].slug \in Slug /\ req[r].pc \in Administrative
    BY <1>1, Ready DEF CreateAppCommit, At, RequestOK, Req, Administrative
  <2>2. [slug |-> req[r].slug, archived |-> FALSE] \in AppRow
    BY <2>1 DEF AppRow
  <2>3. QED
    BY <1>1, <2>1, <2>2, WriteApp DEF CreateAppCommit
<1>2. CASE UpdateAppCommit(r)
  <2> PICK p : p = req[r].app
    OBVIOUS
  <2>1. req[r].slug \in Slug /\ req[r].pc \in Administrative /\ p \in App /\ app[p] \in AppRow
    BY <1>2, Ready DEF UpdateAppCommit, At, RequestOK, Req, Administrative, IInv, TypeOK
  <2>2. PICK row : row = [app[p] EXCEPT !.slug = req[r].slug]
    OBVIOUS
  <2>3. row \in AppRow
    BY <2>1, <2>2 DEF AppRow
  <2>4. app' = [app EXCEPT ![p] = row] /\ trail' = [trail EXCEPT ![p] = row]
    BY <1>0, <1>2, <2>2 DEF UpdateAppCommit
  <2>5. QED
    BY <1>2, <2>1, <2>3, <2>4, WriteApp DEF UpdateAppCommit
<1>3. CASE ArchiveApp(r)
  <2> PICK p : p = req[r].app
    OBVIOUS
  <2>1. req[r].pc \in Administrative /\ p \in App /\ app[p] \in AppRow
    BY <1>3, Ready DEF ArchiveApp, At, RequestOK, Req, Administrative, IInv, TypeOK
  <2>2. PICK row : row = [app[p] EXCEPT !.archived = TRUE]
    OBVIOUS
  <2>3. row \in AppRow
    BY <2>1, <2>2 DEF AppRow
  <2>4. app' = [app EXCEPT ![p] = row] /\ trail' = [trail EXCEPT ![p] = row]
    BY <1>0, <1>3, <2>2 DEF ArchiveApp
  <2>5. QED
    BY <1>3, <2>1, <2>3, <2>4, WriteApp DEF ArchiveApp
<1>4. QED
  BY <1>1, <1>2, <1>3

LEMMA SetRolesStep ==
  ASSUME IInv, NEW r \in Request, NEW step \in {"assign", "remove", "roles"},
         NEW role \in Role \cup {None}, SetRoles(r, step, role)
  PROVE  IInv'
<1>1. /\ req[r].pc = step /\ req' = [req EXCEPT ![r] = Idle]
      /\ member' = [member EXCEPT ![req[r].app][req[r].acct] = role]
      /\ UNCHANGED <<account, archived, grants, ledger, tokens, app, trail, served>>
  BY DEF SetRoles, Finish, At, people, authority
<1>2. Booted # {}
  BY <1>1, Ready DEF Administrative
<1>3. req[r].app \in App /\ app[req[r].app] # None /\ req[r].acct \in account
  BY <1>1, Ready DEF RequestOK, Req
<1>4. member' \in [App -> [Account -> Role \cup {None}]]
  BY <1>1 DEF IInv, TypeOK
<1>5. ASSUME NEW p \in App, NEW a \in Account, member'[p][a] # None
      PROVE  app'[p] # None /\ a \in account'
  BY <1>1, <1>3, <1>5 DEF IInv, TypeOK
<1>6. QED
  BY <1>1, <1>2, <1>4, <1>5, BootedKept, Ready, End DEF IInv, TypeOK, AuditTracksApps

LEMMA MembersStep ==
  ASSUME IInv, NEW r \in Request,
         AssignUserAccountToApp(r) \/ RemoveUserAccountFromApp(r) \/ SetAppUserAccountRoles(r)
  PROVE  IInv'
<1>1. req[r].role \in Role \cup {None}
  BY Ready DEF Req
<1>2. ASSUME req[r].pc = "assign"
      PROVE  Current(r) \in Role \cup {None}
  <2>1. req[r].app \in App /\ req[r].acct \in Account
    BY <1>2, Ready DEF RequestOK, Req
  <2>2. QED
    BY <2>1 DEF Current, IInv, TypeOK
<1>3. CASE AssignUserAccountToApp(r)
  BY <1>1, <1>2, <1>3, SetRolesStep DEF AssignUserAccountToApp, SetRoles, At
<1>4. CASE RemoveUserAccountFromApp(r)
  BY <1>4, SetRolesStep DEF RemoveUserAccountFromApp
<1>5. CASE SetAppUserAccountRoles(r)
  BY <1>1, <1>5, SetRolesStep DEF SetAppUserAccountRoles
<1>6. QED
  BY <1>3, <1>4, <1>5

LEMMA FailStep ==
  ASSUME IInv, NEW r \in Request, Fail(r)
  PROVE  IInv'
<1>1. /\ req' = [req EXCEPT ![r] = Idle]
      /\ UNCHANGED <<account, archived, grants, ledger, tokens, app, member, trail, served>>
  BY DEF Fail, Finish, people, authority, apps
<1>2. QED
  BY <1>1, BootedKept, Ready, End DEF IInv, TypeOK, AuditTracksApps

-----------------------------------------------------------------------------
LEMMA InitInv == Init => IInv
<1> SUFFICES ASSUME Init
             PROVE  IInv
  OBVIOUS
<1>1. Idle \in Req /\ RequestOK(Idle)
  BY DEF Idle, Req, Step, RequestOK
<1>2. Idle.pc = "idle" /\ Idle.token = None
  BY DEF Idle
<1>3. TypeOK
  BY <1>1 DEF Init, TypeOK
<1>4. QED
  BY <1>2, <1>3 DEF Init, IInv, AdminIdentityPreserved, AuthorityStemsFromBootstrap,
     AuditTracksApps, Administrative

LEMMA CommitStep ==
  ASSUME IInv, NEW r \in Request, Commit(r)
  PROVE  IInv'
  BY InsertAccountStep, FirstUserHookStep, CreateStep, GrantsStep, ArchiveEntityStep,
     IssueAssumeJWTStep, AppsStep, MembersStep DEF Commit

LEMMA NextInv == IInv /\ [Next]_vars => IInv'
<1> SUFFICES ASSUME IInv, [Next]_vars
             PROVE  IInv'
  OBVIOUS
<1>1. ASSUME NEW r \in Request, NEW a \in Account, CountAccounts(r, a)
      PROVE  IInv'
  BY <1>1, CountAccountsStep
<1>2. ASSUME NEW r \in Request, NEW k \in Bearer, OnAccounts(r, k) \/ OnApps(r, k)
      PROVE  IInv'
  BY <1>2, OnAccountsStep, OnAppsStep
<1>3. ASSUME NEW r \in Request, Commit(r) \/ Fail(r)
      PROVE  IInv'
  BY <1>3, CommitStep, FailStep
<1>4. CASE UNCHANGED vars
  BY <1>4, BootedKept DEF vars, people, authority, apps, IInv, TypeOK, RequestOK, AdminIdentityPreserved,
     AuthorityStemsFromBootstrap, AuditTracksApps
<1>5. QED
  BY <1>1, <1>2, <1>3, <1>4 DEF Next

\* The strengthened invariant holds always.
THEOREM Invariance == Spec => []IInv
  BY InitInv, NextInv, PTL DEF Spec

\* Every value keeps its type, and a request what it has read: accounts and
\* applications do not vanish under a request in flight.
THEOREM TypeCorrect == Spec => []TypeOK
<1>1. IInv => TypeOK
  BY DEF IInv
<1>2. QED
  BY <1>1, Invariance, PTL

\* However long a chain of assumed identities, its tokens name the account that
\* signed in.
THEOREM IdentityPreserved == Spec => []AdminIdentityPreserved
<1>1. IInv => AdminIdentityPreserved
  BY DEF IInv
<1>2. QED
  BY <1>1, Invariance, PTL

\* Without a bootstrapped administrator nobody has or exercises authority.
THEOREM BootstrapAuthority == Spec => []AuthorityStemsFromBootstrap
<1>1. IInv => AuthorityStemsFromBootstrap
  BY DEF IInv
<1>2. QED
  BY <1>1, Invariance, PTL

\* The audit log and the applications agree, whatever updates overlap.
THEOREM AppsAudited == Spec => []AuditTracksApps
<1>1. IInv => AuditTracksApps
  BY DEF IInv
<1>2. QED
  BY <1>1, Invariance, PTL

-----------------------------------------------------------------------------
(* What is archived stays archived                                         *)

KeepsArchives ==
  /\ archived \subseteq archived'
  /\ \A p \in App : app[p] # None /\ app[p].archived => app'[p] # None /\ app'[p].archived

LEMMA CommitKeepsArchives ==
  ASSUME IInv, NEW r \in Request, Commit(r)
  PROVE  KeepsArchives
<1>1. ASSUME UNCHANGED <<archived, app>>
      PROVE  KeepsArchives
  BY <1>1 DEF KeepsArchives
<1>2. CASE InsertAccount(r) \/ FirstUserHook(r) \/ CreateCommit(r) \/ IssueAssumeJWT(r)
  BY <1>1, <1>2 DEF InsertAccount, FirstUserHook, CreateCommit, IssueAssumeJWT, IssueFor, people, apps
<1>3. CASE CreateWildcardGrant(r) \/ DeleteWildcardGrant(r) \/ GiveGrant(r)
  BY <1>1, <1>3 DEF CreateWildcardGrant, DeleteWildcardGrant, GiveGrant, GiveFor, people, apps
<1>4. CASE AssignUserAccountToApp(r) \/ RemoveUserAccountFromApp(r) \/ SetAppUserAccountRoles(r)
  BY <1>1, <1>4 DEF AssignUserAccountToApp, RemoveUserAccountFromApp, SetAppUserAccountRoles,
     SetRoles, people
<1>5. CASE ArchiveEntity(r)
  BY <1>5 DEF ArchiveEntity, KeepsArchives, apps
<1>6. CASE CreateAppCommit(r)
  BY <1>6 DEF CreateAppCommit, KeepsArchives, people, IInv, TypeOK
<1>7. CASE UpdateAppCommit(r) \/ ArchiveApp(r)
  <2>1. archived' = archived
    BY <1>7 DEF UpdateAppCommit, ArchiveApp, people
  <2>2. req[r].slug \in Slug \cup {None} /\ app \in [App -> AppRow \cup {None}]
    BY Ready DEF Req, IInv, TypeOK
  <2>3. ASSUME NEW p \in App, app[p] # None, app[p].archived
        PROVE  app'[p] # None /\ app'[p].archived
    <3>1. app[p] \in AppRow
      BY <2>2, <2>3
    <3>2. CASE UpdateAppCommit(r)
      <4>1. app' = [app EXCEPT ![req[r].app].slug = req[r].slug] /\ req[r].slug # None
        BY <3>2, Ready DEF UpdateAppCommit, At, RequestOK
      <4>2. app'[p] \in AppRow /\ app'[p].archived
        BY <2>2, <2>3, <3>1, <4>1 DEF AppRow
      <4>3. QED
        BY <4>2, AccessAssumption
    <3>3. CASE ArchiveApp(r)
      <4>1. app' = [app EXCEPT ![req[r].app].archived = TRUE]
        BY <3>3 DEF ArchiveApp
      <4>2. app'[p] \in AppRow /\ app'[p].archived
        BY <2>2, <2>3, <3>1, <4>1 DEF AppRow
      <4>3. QED
        BY <4>2, AccessAssumption
    <3>4. QED
      BY <1>7, <3>2, <3>3
  <2>4. QED
    BY <2>1, <2>3 DEF KeepsArchives
<1>8. QED
  BY <1>2, <1>3, <1>4, <1>5, <1>6, <1>7 DEF Commit

\* No write of a request that loaded a row before it was archived revives it.
THEOREM ArchivesKept == Spec => ArchivedForGood
<1>1. IInv /\ [Next]_vars => [KeepsArchives]_vars
  <2> SUFFICES ASSUME IInv, Next
               PROVE  KeepsArchives
    BY DEF vars
  <2>1. ASSUME UNCHANGED <<archived, app>>
        PROVE  KeepsArchives
    BY <2>1 DEF KeepsArchives
  <2>2. ASSUME NEW r \in Request, Commit(r)
        PROVE  KeepsArchives
    BY <2>2, CommitKeepsArchives
  <2>3. ASSUME NEW r \in Request, NEW a \in Account, CountAccounts(r, a)
        PROVE  KeepsArchives
    BY <2>1, <2>3 DEF CountAccounts, people, apps
  <2>4. ASSUME NEW r \in Request, NEW k \in Bearer, OnAccounts(r, k) \/ OnApps(r, k)
        PROVE  KeepsArchives
    BY <2>1, <2>4 DEF OnAccounts, OnApps, Create, GrantAdmin, RevokeAdmin, Delete, Assume,
       CreateGrant, CreateApp, UpdateApp, DeleteApp, AssignUser, RemoveUser, UpdateUserRoles,
       OnMember, Authorized, people, apps
  <2>5. ASSUME NEW r \in Request, Fail(r)
        PROVE  KeepsArchives
    BY <2>1, <2>5 DEF Fail, people, apps
  <2>6. QED
    BY <2>2, <2>3, <2>4, <2>5 DEF Next
<1>2. QED
  BY <1>1, Invariance, PTL DEF Spec, ArchivedForGood, KeepsArchives

-----------------------------------------------------------------------------
(* Where authority comes from                                              *)
(*                                                                         *)
(* A handler authorizes its caller with the grants of one moment and       *)
(* commits at another.  What survives between the two is the ledger: it    *)
(* only grows, it holds every grant there is (the first part of            *)
(* GrantsHavePedigree), and grants only add rights (GrantsOnlyAdd).  So a  *)
(* request in flight is entitled by the ledger to what it is about to do.  *)

RequestEntitled(q) ==
  /\ q.token # None => EffectiveActor(q.token) \in Chain(q.token.origin, MayAssume)
  /\ q.pc \in {"grant", "give"} =>
       Authorize(Given(Len(ledger)), EffectiveActor(q.token), Manage, NoTarget)
  /\ q.pc = "assume" =>
       Authorize(Given(Len(ledger)), EffectiveActor(q.token), "assume", q.acct)

PInv ==
  /\ IInv
  /\ GrantsHavePedigree
  /\ AssumedByPermission
  /\ \A r \in Request : RequestEntitled(req[r])

\* A member of few groups is a member of the same when there are more.
LEMMA ChainGrows ==
  ASSUME NEW x \in Entity, NEW few \in SUBSET (Entity \X Entity),
         NEW many \in SUBSET (Entity \X Entity), few \subseteq many
  PROVE  Chain(x, few) \subseteq Chain(x, many)
  BY DEF Chain

LEMMA MayAssumeType == MayAssume \in SUBSET (Entity \X Entity)
  BY AccessAssumption DEF MayAssume

LEMMA EntriesGrant ==
  ASSUME NEW l \in Seq(Entry), NEW n \in 0..Len(l)
  PROVE  {l[m].grant : m \in 1..n} \in SUBSET Grant
<1>1. ASSUME NEW m \in 1..n
      PROVE  l[m].grant \in Grant
  <2>1. m \in 1..Len(l)
    OBVIOUS
  <2>2. l[m] \in Entry
    BY <2>1
  <2>3. QED
    BY <2>2 DEF Entry
<1>2. QED
  BY <1>1

LEMMA GivenType ==
  ASSUME TypeOK, NEW n \in 0..Len(ledger)
  PROVE  Given(n) \in SUBSET Grant
  BY EntriesGrant DEF TypeOK, Given

\* What a bearer acts as, he was led to.
LEMMA BearerEntitled ==
  ASSUME PInv, NEW k \in Bearer
  PROVE  EffectiveActor(k) \in Chain(k.origin, MayAssume)
<1>1. CASE k \in tokens
  <2>1. k.sudo \in Account
    BY <1>1 DEF PInv, IInv, TypeOK
  <2>2. EffectiveActor(k) = k.sudo
    BY <2>1, AccessAssumption DEF EffectiveActor
  <2>3. QED
    BY <1>1, <2>2 DEF PInv, AssumedByPermission
<1>2. CASE k \notin tokens
  <2>1. PICK a \in account : k = [sub |-> a, sudo |-> None, origin |-> a]
    BY <1>2 DEF Bearer, Own
  <2>2. EffectiveActor(k) = a /\ k.origin = a /\ a \in Entity
    BY <2>1, AccessAssumption DEF EffectiveActor, PInv, IInv, TypeOK
  <2>3. QED
    BY <2>2 DEF Chain
<1>3. QED
  BY <1>1, <1>2

\* Who is authorized by the grants there are is so by the ledger.
LEMMA LedgerAuthorizes ==
  ASSUME PInv, NEW x \in Entity, NEW op \in Operation, NEW t \in Entity \cup {NoTarget},
         Authorize(grants, x, op, t)
  PROVE  Authorize(Given(Len(ledger)), x, op, t)
<1>1. grants \in SUBSET Grant /\ Len(ledger) \in 0..Len(ledger)
  BY DEF PInv, IInv, TypeOK
<1>2. Given(Len(ledger)) \in SUBSET Grant
  BY <1>1, GivenType DEF PInv, IInv
<1>3. grants \subseteq Given(Len(ledger))
  BY DEF PInv, GrantsHavePedigree
<1>4. QED
  BY <1>1, <1>2, <1>3, GrantsOnlyAdd

\* A step that makes no grant.
LEMMA NoGrantMade ==
  ASSUME PInv, IInv', UNCHANGED ledger, grants' \subseteq grants, account \subseteq account',
         \A k \in tokens' : k.sudo \in Chain(k.origin, MayAssume),
         \A r \in Request : req'[r] = req[r] \/ RequestEntitled(req'[r])
  PROVE  PInv'
<1>1. \A n : Given(n)' = Given(n)
  BY DEF Given
<1>2. Given(Len(ledger))' = Given(Len(ledger)) /\ MayAssume' = MayAssume
  BY DEF Given, MayAssume
<1>3. GrantsHavePedigree'
  BY <1>1, <1>2 DEF PInv, GrantsHavePedigree
<1>4. AssumedByPermission'
  BY <1>2 DEF AssumedByPermission
<1>5. ASSUME NEW r \in Request
      PROVE  RequestEntitled(req[r])'
  <2>1. RequestEntitled(req'[r])
    BY DEF PInv
  <2>2. QED
    BY <1>2, <2>1 DEF RequestEntitled
<1>6. QED
  BY <1>3, <1>4, <1>5 DEF PInv

\* A request that is done is entitled to nothing more.
LEMMA IdleEntitled == RequestEntitled(Idle)
  BY DEF RequestEntitled, Idle

\* A step that ends a request and neither makes a grant nor issues a token.
LEMMA Done ==
  ASSUME PInv, IInv', NEW r \in Request, req' = [req EXCEPT ![r] = Idle],
         UNCHANGED <<ledger, tokens>>, grants' \subseteq grants, account \subseteq account'
  PROVE  PInv'
<1>1. \A q \in Request : req'[q] = req[q] \/ req'[q] = Idle
  BY DEF PInv, IInv, TypeOK
<1>2. QED
  BY <1>1, IdleEntitled, NoGrantMade DEF PInv, AssumedByPermission

\* A grant is made for somebody the ledger entitles, or by the bootstrap: what
\* the ledger said before, it still says of its first entries.
LEMMA GrantMade ==
  ASSUME PInv, IInv', NEW r \in Request, NEW by \in Account \cup {None}, NEW g \in Grant,
         Give(by, g), req' = [req EXCEPT ![r] = Idle], UNCHANGED <<account, tokens>>,
         \/ by = None /\ \E a \in account : g = WildcardManage(a)
         \/ by # None /\ Authorize(Given(Len(ledger)), by, Manage, NoTarget)
  PROVE  PInv'
<1> PICK entry : entry = [by |-> by, grant |-> g]
  OBVIOUS
<1>0. ledger \in Seq(Entry) /\ req \in [Request -> Req]
  BY DEF PInv, IInv, TypeOK
<1>1. /\ grants' = grants \cup {g} /\ ledger' \in Seq(Entry)
      /\ \E n \in DOMAIN ledger' : ledger'[n] = entry
      /\ \/ ledger' = ledger
         \/ /\ Len(ledger') = Len(ledger) + 1 /\ ledger'[Len(ledger) + 1] = entry
            /\ \A n \in DOMAIN ledger : ledger'[n] = ledger[n]
  BY GiveOK DEF PInv
<1>2. /\ DOMAIN ledger = 1..Len(ledger) /\ DOMAIN ledger' = 1..Len(ledger')
      /\ Len(ledger) \in Nat /\ Len(ledger') \in Nat /\ Len(ledger) <= Len(ledger')
      /\ \A n \in DOMAIN ledger : ledger'[n] = ledger[n]
  BY <1>0, <1>1
<1>3. \A n \in 0..Len(ledger) : Given(n)' = Given(n)
  BY <1>2 DEF Given
<1>4. Given(Len(ledger)) \subseteq Given(Len(ledger))'
  BY <1>2 DEF Given
<1>5. grants' \subseteq Given(Len(ledger))'
  <2>1. PICK n \in 1..Len(ledger') : ledger'[n] = entry
    BY <1>1, <1>2
  <2>2. g = ledger'[n].grant
    BY <2>1
  <2>3. g \in Given(Len(ledger))'
    BY <2>2 DEF Given
  <2>4. QED
    BY <1>1, <1>4, <2>3 DEF PInv, GrantsHavePedigree
<1>6. Given(Len(ledger)) \in SUBSET Grant /\ Given(Len(ledger))' \in SUBSET Grant
  <2>1. Len(ledger) \in 0..Len(ledger) /\ Len(ledger') \in 0..Len(ledger')
    BY <1>2
  <2>2. QED
    BY <1>0, <1>1, <2>1, EntriesGrant DEF Given
<1>7. GrantsHavePedigree'
  <2>1. ASSUME NEW n \in DOMAIN ledger'
        PROVE  \/ ledger'[n].by = None
                  /\ \E a \in account' : ledger'[n].grant = WildcardManage(a)
               \/ ledger'[n].by # None
                  /\ Authorize(Given(n - 1)', ledger'[n].by, Manage, NoTarget)
    <3>1. CASE n \in DOMAIN ledger
      <4>1. ledger'[n] = ledger[n] /\ n - 1 \in 0..Len(ledger)
        BY <1>2, <3>1
      <4>2. Given(n - 1)' = Given(n - 1)
        BY <1>3, <4>1
      <4>3. \/ ledger[n].by = None /\ \E a \in account : ledger[n].grant = WildcardManage(a)
            \/ ledger[n].by # None /\ Authorize(Given(n - 1), ledger[n].by, Manage, NoTarget)
        BY <3>1 DEF PInv, GrantsHavePedigree
      <4>4. QED
        BY <4>1, <4>2, <4>3
    <3>2. CASE n \notin DOMAIN ledger
      <4>0. n \in 1..Len(ledger') /\ n \notin 1..Len(ledger) /\ Len(ledger') = Len(ledger) + 1
        BY <1>1, <1>2, <2>1, <3>2
      <4>1. ledger'[n] = entry /\ n - 1 = Len(ledger)
        BY <1>1, <1>2, <4>0
      <4>2. Given(n - 1)' = Given(Len(ledger))
        BY <1>2, <1>3, <4>1
      <4>3. QED
        BY <4>1, <4>2
    <3>3. QED
      BY <3>1, <3>2
  <2>2. QED
    BY <1>5, <2>1 DEF GrantsHavePedigree
<1>8. MayAssume \subseteq MayAssume'
  <2>1. ASSUME NEW e \in Account \X Account, Authorize(Given(Len(ledger)), e[1], "assume", e[2])
        PROVE  Authorize(Given(Len(ledger))', e[1], "assume", e[2])
    <3>1. e[1] \in Entity /\ e[2] \in Entity /\ "assume" \in Operation
      BY AccessAssumption
    <3>2. QED
      BY <1>4, <1>6, <2>1, <3>1, GrantsOnlyAdd
  <2>2. QED
    BY <2>1 DEF MayAssume
<1>9. \A x \in Entity : Chain(x, MayAssume) \subseteq Chain(x, MayAssume')
  <2>1. MayAssume' \in SUBSET (Entity \X Entity)
    BY AccessAssumption DEF MayAssume
  <2>2. QED
    BY <1>8, <2>1, MayAssumeType, ChainGrows
<1>10. AssumedByPermission'
  <2>1. ASSUME NEW k \in tokens'
        PROVE  k.sudo \in Chain(k.origin, MayAssume')
    <3>1. k \in tokens /\ k.origin \in Entity
      BY <2>1, AccessAssumption DEF PInv, IInv, TypeOK
    <3>2. QED
      BY <1>9, <3>1 DEF PInv, AssumedByPermission
  <2>2. QED
    BY <2>1 DEF AssumedByPermission
<1>11. ASSUME NEW q \in Request
       PROVE  RequestEntitled(req[q])'
  <2>1. req'[q] = req[q] \/ req'[q] = Idle
    BY <1>0
  <2>2. CASE req'[q] = Idle
    BY <2>2 DEF RequestEntitled, Idle
  <2>3. CASE req'[q] = req[q]
    <3>1. req[q] \in Req /\ RequestEntitled(req[q]) /\ RequestOK(req[q])
      BY Ready DEF PInv
    <3>2. ASSUME req[q].token # None
          PROVE  /\ EffectiveActor(req[q].token) \in Chain(req[q].token.origin, MayAssume')
                 /\ EffectiveActor(req[q].token) \in Entity
      <4>1. req[q].token \in Token
        BY <3>1, <3>2 DEF Req
      <4>2. EffectiveActor(req[q].token) \in Entity /\ req[q].token.origin \in Entity
        BY <4>1, AccessAssumption DEF Token, EffectiveActor
      <4>3. QED
        BY <1>9, <3>1, <3>2, <4>2 DEF RequestEntitled
    <3>3. ASSUME req[q].pc \in {"grant", "give"}
          PROVE  Authorize(Given(Len(ledger))', EffectiveActor(req[q].token), Manage, NoTarget)
      <4>1. req[q].token # None /\ Manage \in Operation
        BY <3>1, <3>3, AuthzAssumption DEF RequestOK
      <4>2. QED
        BY <1>4, <1>6, <3>1, <3>2, <3>3, <4>1, GrantsOnlyAdd DEF RequestEntitled
    <3>4. ASSUME req[q].pc = "assume"
          PROVE  Authorize(Given(Len(ledger))', EffectiveActor(req[q].token), "assume", req[q].acct)
      <4>1. req[q].token # None /\ req[q].acct \in Entity /\ "assume" \in Operation
        BY <3>1, <3>4, AccessAssumption DEF RequestOK, PInv, IInv, TypeOK
      <4>2. QED
        BY <1>4, <1>6, <3>1, <3>2, <3>4, <4>1, GrantsOnlyAdd DEF RequestEntitled
    <3>5. QED
      BY <2>3, <3>2, <3>3, <3>4 DEF RequestEntitled
  <2>4. QED
    BY <2>1, <2>2, <2>3
<1>12. QED
  BY <1>7, <1>10, <1>11 DEF PInv

\* A handler that has authorized its caller is entitled to what it will do.
LEMMA AuthorizedEntitled ==
  ASSUME PInv, IInv', NEW r \in Request, NEW k \in Bearer, NEW op \in Operation,
         NEW t \in Account \cup {NoTarget}, NEW state \in Req, Authorized(r, k, op, t, state),
         state.pc \in {"grant", "give"} => op = Manage /\ t = NoTarget,
         state.pc = "assume" => op = "assume" /\ t = state.acct
  PROVE  PInv'
<1> PICK next : next = [state EXCEPT !.token = k]
  OBVIOUS
<1>1. /\ Authorize(grants, EffectiveActor(k), op, t)
      /\ req' = [req EXCEPT ![r] = next]
      /\ UNCHANGED <<account, grants, ledger, tokens>>
  BY DEF Authorized, Start, people, authority
<1>2. next.pc = state.pc /\ next.acct = state.acct /\ next.token = k
  BY DEF Req
<1>3. EffectiveActor(k) \in Entity /\ t \in Entity \cup {NoTarget}
  BY BearerOK, AccessAssumption DEF PInv, IInv, TypeOK
<1>4. Authorize(Given(Len(ledger)), EffectiveActor(k), op, t)
  BY <1>1, <1>3, LedgerAuthorizes
<1>5. RequestEntitled(next)
  BY <1>2, <1>4, BearerEntitled DEF RequestEntitled
<1>6. \A q \in Request : req'[q] = req[q] \/ req'[q] = next
  BY <1>1 DEF PInv, IInv, TypeOK
<1>7. QED
  BY <1>1, <1>5, <1>6, NoGrantMade DEF PInv, AssumedByPermission

LEMMA RequestsEntitled ==
  ASSUME PInv, IInv', NEW r \in Request, NEW k \in Bearer, OnAccounts(r, k) \/ OnApps(r, k)
  PROVE  PInv'
<1>0. {Manage, "create", "update", "delete", "assume"} \subseteq Operation
  BY AuthzAssumption, AccessAssumption
<1>1. ASSUME NEW a \in Account, NEW step \in {"create", "grant", "revoke", "delete", "assume"},
             NEW op \in Operation, NEW t \in {a, NoTarget},
             step \in {"grant", "give"} => op = Manage /\ t = NoTarget,
             step = "assume" => op = "assume" /\ t = a,
             Authorized(r, k, op, t, [Idle EXCEPT !.pc = step, !.acct = a])
      PROVE  PInv'
  <2> PICK state : state = [Idle EXCEPT !.pc = step, !.acct = a]
    OBVIOUS
  <2>1. state \in Req /\ state.pc = step /\ state.acct = a
    BY DEF Idle, Req, Step
  <2>2. QED
    BY <1>1, <2>1, AuthorizedEntitled
<1>2. CASE OnAccounts(r, k)
  <2>1. ASSUME NEW g \in GrantChoice, CreateGrant(r, k, g)
        PROVE  PInv'
    <3> PICK state : state = [Idle EXCEPT !.pc = "give", !.grant = g]
      OBVIOUS
    <3>1. state \in Req /\ state.pc = "give"
      BY AccessAssumption DEF Idle, Req, Step
    <3>2. Authorized(r, k, Manage, NoTarget, state)
      BY <2>1 DEF CreateGrant
    <3>3. QED
      BY <1>0, <3>1, <3>2, AuthorizedEntitled
  <2>2. ASSUME NEW a \in Account,
               \/ Create(r, k, a) \/ GrantAdmin(r, k, a) \/ RevokeAdmin(r, k, a)
               \/ Delete(r, k, a) \/ Assume(r, k, a)
        PROVE  PInv'
    BY <1>0, <1>1, <2>2 DEF Create, GrantAdmin, RevokeAdmin, Delete, Assume
  <2>3. QED
    BY <1>2, <2>1, <2>2 DEF OnAccounts
<1>3. ASSUME NEW op \in Operation, NEW state \in Req, state.pc \notin {"grant", "give", "assume"},
             Authorized(r, k, op, NoTarget, state)
      PROVE  PInv'
  BY <1>3, AuthorizedEntitled
<1>4. ASSUME NEW p \in App, NEW step \in {"createApp", "updateApp", "deleteApp"},
             NEW s \in Slug \cup {None}
      PROVE  LET state == [Idle EXCEPT !.pc = step, !.app = p, !.slug = s]
             IN  state \in Req /\ state.pc = step
  BY DEF Idle, Req, Step
<1>5. CASE OnApps(r, k)
  <2>1. ASSUME NEW p \in App, NEW s \in Slug, CreateApp(r, k, p, s)
        PROVE  PInv'
    <3>1. Authorized(r, k, "create", NoTarget,
                     [Idle EXCEPT !.pc = "createApp", !.app = p, !.slug = s])
      BY <2>1 DEF CreateApp
    <3>2. QED
      BY <1>0, <1>3, <1>4, <3>1
  <2>2. ASSUME NEW p \in App, NEW s \in Slug \cup {None}, UpdateApp(r, k, p, s)
        PROVE  PInv'
    <3> PICK slug : slug = IF s = None THEN app[p].slug ELSE s
      OBVIOUS
    <3>1. Authorized(r, k, "update", NoTarget,
                     [Idle EXCEPT !.pc = "updateApp", !.app = p, !.slug = slug])
      BY <2>2 DEF UpdateApp
    <3>2. app[p] # None /\ app[p] \in AppRow
      BY <2>2 DEF UpdateApp, PInv, IInv, TypeOK
    <3>3. slug \in Slug \cup {None}
      BY <3>2 DEF AppRow
    <3>4. QED
      BY <1>0, <1>3, <1>4, <3>1, <3>3
  <2>3. ASSUME NEW p \in App, DeleteApp(r, k, p)
        PROVE  PInv'
    <3> PICK state : state = [Idle EXCEPT !.pc = "deleteApp", !.app = p]
      OBVIOUS
    <3>1. state \in Req /\ state.pc = "deleteApp"
      BY DEF Idle, Req, Step
    <3>2. Authorized(r, k, "delete", NoTarget, state)
      BY <2>3 DEF DeleteApp
    <3>3. QED
      BY <1>0, <1>3, <3>1, <3>2
  <2>4. ASSUME NEW p \in App, NEW a \in Account, NEW step \in {"assign", "remove", "roles"},
               NEW role \in Role \cup {None}, OnMember(r, k, step, p, a, role)
        PROVE  PInv'
    <3> PICK state : state = [Idle EXCEPT !.pc = step, !.app = p, !.acct = a, !.role = role]
      OBVIOUS
    <3>1. state \in Req /\ state.pc = step
      BY DEF Idle, Req, Step
    <3>2. Authorized(r, k, "update", NoTarget, state)
      BY <2>4 DEF OnMember
    <3>3. QED
      BY <1>0, <1>3, <3>1, <3>2
  <2>5. QED
    BY <1>5, <2>1, <2>2, <2>3, <2>4 DEF OnApps, AssignUser, RemoveUser, UpdateUserRoles
<1>6. QED
  BY <1>2, <1>5

LEMMA AccountsEntitled ==
  ASSUME PInv, IInv', NEW r \in Request,
         (\E a \in Account : CountAccounts(r, a)) \/ InsertAccount(r)
  PROVE  PInv'
<1>1. CASE \E a \in Account : CountAccounts(r, a)
  <2> PICK a \in Account : CountAccounts(r, a)
    BY <1>1
  <2> PICK next : next = [Idle EXCEPT !.pc = "insert", !.acct = a, !.first = (account = {})]
    OBVIOUS
  <2>1. req' = [req EXCEPT ![r] = next] /\ UNCHANGED <<account, grants, ledger, tokens>>
    BY DEF CountAccounts, Start, people, authority
  <2>2. RequestEntitled(next)
    BY DEF RequestEntitled, Idle
  <2>3. \A q \in Request : req'[q] = req[q] \/ req'[q] = next
    BY <2>1 DEF PInv, IInv, TypeOK
  <2>4. QED
    BY <2>1, <2>2, <2>3, NoGrantMade DEF PInv, AssumedByPermission
<1>2. CASE InsertAccount(r)
  <2> PICK next : next = IF req[r].first THEN [req[r] EXCEPT !.pc = "hook"] ELSE Idle
    OBVIOUS
  <2>1. /\ req' = [req EXCEPT ![r] = next] /\ account \subseteq account'
        /\ UNCHANGED <<grants, ledger, tokens>>
    BY <1>2 DEF InsertAccount, authority
  <2>2. RequestEntitled(next)
    <3>1. CASE req[r].first
      <4>1. next.pc = "hook" /\ next.token = req[r].token
        BY <3>1, Ready DEF PInv, Req
      <4>2. QED
        BY <4>1 DEF PInv, RequestEntitled
    <3>2. QED
      BY <3>1, IdleEntitled
  <2>3. \A q \in Request : req'[q] = req[q] \/ req'[q] = next
    BY <2>1 DEF PInv, IInv, TypeOK
  <2>4. QED
    BY <2>1, <2>2, <2>3, NoGrantMade DEF PInv, AssumedByPermission
<1>3. QED
  BY <1>1, <1>2

\* The steps that make grants.
LEMMA GrantsEntitled ==
  ASSUME PInv, IInv', NEW r \in Request,
         FirstUserHook(r) \/ CreateWildcardGrant(r) \/ GiveGrant(r)
  PROVE  PInv'
<1>1. CASE FirstUserHook(r)
  <2>1. /\ req[r].acct \in account /\ Give(None, WildcardManage(req[r].acct))
        /\ req' = [req EXCEPT ![r] = Idle] /\ UNCHANGED <<account, tokens>>
    BY <1>1, Ready DEF FirstUserHook, Finish, At, RequestOK, people, PInv
  <2>2. WildcardManage(req[r].acct) \in Grant
    BY <2>1, WildcardOK DEF PInv, IInv, TypeOK
  <2>3. QED
    BY <2>1, <2>2, GrantMade
<1>2. ASSUME NEW step \in {"grant", "give"}, NEW g \in Grant, GiveFor(r, step, g)
      PROVE  PInv'
  <2> PICK by : by = EffectiveActor(req[r].token)
    OBVIOUS
  <2>1. /\ req[r].pc = step /\ Give(by, g)
        /\ req' = [req EXCEPT ![r] = Idle] /\ UNCHANGED <<account, tokens>>
    BY <1>2 DEF GiveFor, Finish, At, people
  <2>2. by \in Account /\ by # None
    BY <2>1, Ready, AccessAssumption DEF PInv, RequestOK, EffectiveActor, Req, Token
  <2>3. Authorize(Given(Len(ledger)), by, Manage, NoTarget)
    BY <2>1 DEF PInv, RequestEntitled
  <2>4. QED
    BY <2>1, <2>2, <2>3, GrantMade
<1>3. CASE CreateWildcardGrant(r)
  <2>1. req[r].acct \in Account
    BY <1>3, Ready DEF CreateWildcardGrant, GiveFor, At, RequestOK, PInv, IInv, TypeOK
  <2>2. QED
    BY <1>2, <1>3, <2>1, WildcardOK DEF CreateWildcardGrant
<1>4. CASE GiveGrant(r)
  <2>1. req[r].grant \in Grant
    BY <1>4, Ready DEF GiveGrant, GiveFor, At, RequestOK, Req, PInv
  <2>2. QED
    BY <1>2, <1>4, <2>1 DEF GiveGrant
<1>5. QED
  BY <1>1, <1>3, <1>4

\* An assumption adds one allowed step to those that led to the caller.
LEMMA AssumeEntitled ==
  ASSUME PInv, IInv', NEW r \in Request, IssueAssumeJWT(r)
  PROVE  PInv'
<1> PICK token, a : token = req[r].token /\ a = req[r].acct
  OBVIOUS
<1> PICK k : k = [sub |-> token.sub, sudo |-> a, origin |-> token.origin]
  OBVIOUS
<1>1. /\ req[r].pc = "assume" /\ tokens' = tokens \cup {k}
      /\ req' = [req EXCEPT ![r] = Idle] /\ UNCHANGED <<account, grants, ledger>>
  BY DEF IssueAssumeJWT, IssueFor, Finish, At, people, authority
<1>2. token # None /\ token \in Token /\ a \in Account
  BY <1>1, Ready DEF RequestOK, Req, PInv, IInv, TypeOK
<1>3. token.origin \in Account /\ EffectiveActor(token) \in Account
  BY <1>2, AccessAssumption DEF Token, EffectiveActor
<1>4. /\ EffectiveActor(token) \in Chain(token.origin, MayAssume)
      /\ Authorize(Given(Len(ledger)), EffectiveActor(token), "assume", a)
  BY <1>1, <1>2 DEF PInv, RequestEntitled
<1>5. <<EffectiveActor(token), a>> \in MayAssume
  BY <1>2, <1>3, <1>4 DEF MayAssume
<1>6. a \in Chain(EffectiveActor(token), MayAssume)
  <2>1. a \in Entity
    BY <1>2, AccessAssumption
  <2>2. QED
    BY <1>5, <2>1 DEF Chain
<1>7. a \in Chain(token.origin, MayAssume)
  BY <1>2, <1>3, <1>4, <1>6, MayAssumeType, MembershipComposes, AccessAssumption
<1>8. \A t \in tokens' : t.sudo \in Chain(t.origin, MayAssume)
  BY <1>1, <1>7 DEF PInv, AssumedByPermission
<1>9. \A q \in Request : req'[q] = req[q] \/ req'[q] = Idle
  BY <1>1 DEF PInv, IInv, TypeOK
<1>10. QED
  BY <1>1, <1>8, <1>9, IdleEntitled, NoGrantMade

\* The steps that leave grants and tokens alone, or take a grant away.
LEMMA OthersEntitled ==
  ASSUME PInv, IInv', NEW r \in Request,
         \/ CreateCommit(r) \/ DeleteWildcardGrant(r) \/ ArchiveEntity(r)
         \/ CreateAppCommit(r) \/ UpdateAppCommit(r) \/ ArchiveApp(r)
         \/ AssignUserAccountToApp(r) \/ RemoveUserAccountFromApp(r) \/ SetAppUserAccountRoles(r)
         \/ Fail(r)
  PROVE  PInv'
<1>1. /\ req' = [req EXCEPT ![r] = Idle] /\ UNCHANGED <<ledger, tokens>>
      /\ grants' \subseteq grants /\ account \subseteq account'
  BY DEF CreateCommit, DeleteWildcardGrant, ArchiveEntity, CreateAppCommit, UpdateAppCommit,
     ArchiveApp, AssignUserAccountToApp, RemoveUserAccountFromApp, SetAppUserAccountRoles,
     SetRoles, Fail, Finish, people, authority
<1>2. QED
  BY <1>1, Done

LEMMA InitPedigree == Init => PInv
<1> SUFFICES ASSUME Init
             PROVE  PInv
  OBVIOUS
<1>1. IInv
  BY InitInv
<1>2. Len(ledger) = 0 /\ DOMAIN ledger = {} /\ Given(0) = {}
  BY DEF Init, Given
<1>3. QED
  BY <1>1, <1>2, IdleEntitled DEF Init, PInv, GrantsHavePedigree, AssumedByPermission

LEMMA NextPedigree == PInv /\ [Next]_vars => PInv'
<1> SUFFICES ASSUME PInv, [Next]_vars
             PROVE  PInv'
  OBVIOUS
<1>1. IInv'
  BY NextInv DEF PInv
<1>2. ASSUME NEW r \in Request, NEW a \in Account, CountAccounts(r, a)
      PROVE  PInv'
  BY <1>1, <1>2, AccountsEntitled
<1>3. ASSUME NEW r \in Request, NEW k \in Bearer, OnAccounts(r, k) \/ OnApps(r, k)
      PROVE  PInv'
  BY <1>1, <1>3, RequestsEntitled
<1>4. ASSUME NEW r \in Request, Commit(r) \/ Fail(r)
      PROVE  PInv'
  BY <1>1, <1>4, AccountsEntitled, GrantsEntitled, AssumeEntitled, OthersEntitled DEF Commit
<1>5. CASE UNCHANGED vars
  <2>1. UNCHANGED <<account, grants, ledger, tokens, req>>
    BY <1>5 DEF vars, people, authority
  <2>2. QED
    BY <1>1, <2>1, NoGrantMade DEF PInv, AssumedByPermission
<1>6. QED
  BY <1>2, <1>3, <1>4, <1>5 DEF Next

LEMMA Entitled == Spec => []PInv
  BY InitPedigree, NextPedigree, PTL DEF Spec

\* Every grant there is or was goes back, authorization by authorization, to a
\* first-user hook, whatever was revoked while requests were in flight.
THEOREM PedigreeOfGrants == Spec => []GrantsHavePedigree
<1>1. PInv => GrantsHavePedigree
  BY DEF PInv
<1>2. QED
  BY <1>1, Entitled, PTL

\* However many identities were assumed in a row, each was allowed to the one
\* before it.
THEOREM AssumptionsPermitted == Spec => []AssumedByPermission
<1>1. PInv => AssumedByPermission
  BY DEF PInv
<1>2. QED
  BY <1>1, Entitled, PTL
=============================================================================
