-------------------------- MODULE Credentials --------------------------
(***************************************************************************)
(* The sign-in credentials of the users API: the tables user_accounts,     *)
(* auth_local, auth_oidc_identities and password_resets, and every handler *)
(* that writes the credentials in them, run by requests that interleave.   *)
(*                                                                         *)
(* A handler is cut at its database round trips.  Unlink and               *)
(* RemovePassword run in one SERIALIZABLE transaction each: the first step *)
(* takes the snapshot (IdentityCounts), the second deletes and commits, or *)
(* fails.  The other handlers run their statements under READ COMMITTED,   *)
(* so each statement, or each short insert-only transaction, is one step.  *)
(*                                                                         *)
(* Left to other modules: e-mail addresses and their verification (the     *)
(* e-mail lookup of the resolver may return any account or none), who may  *)
(* call what (any existing account may call its own endpoints), and the    *)
(* step-up gate.                                                           *)
(***************************************************************************)
EXTENDS Integers, FiniteSets

CONSTANTS Account,    \* rows user_accounts may come to hold
          Identity,   \* (issuer, subject) pairs the providers can assert
          Password,   \* passwords users choose
          Token,      \* password-reset tokens
          Request,    \* HTTP requests in flight at once
          None        \* "no row" / "no value"

Local == "local"      \* the auth_local row, as a sign-in method

ASSUME CredentialsAssumption ==
  /\ None \notin Account \cup Identity \cup Password \cup Token
  /\ Local \notin Identity
  /\ IsFiniteSet(Identity)

VARIABLES account,    \* the user_accounts rows
          owner,      \* owner[i]: account of identity i's row, or None
          password,   \* password[a]: auth_local of a, or None
          resetFor,   \* resetFor[t]: account token t was issued to, or None
          resetState, \* the consumed_at / expires_at columns of t's row
          trail,      \* the methods an auditor reads off audit_log
          req         \* what each request in flight has read so far

tables == <<account, owner, password>>
resets == <<resetFor, resetState>>
vars == <<account, owner, password, resetFor, resetState, trail, req>>

Method == Identity \cup {Local}

(***************************************************************************)
(* A request.  acct is the account it works for; arg the identity or the   *)
(* token it names; cur the password the handler has read; new the password *)
(* to store.  A serializable transaction also has snap, the methods of     *)
(* acct in its snapshot; dirty, the rows of acct that somebody wrote       *)
(* since; and skewed, whether another serializable transaction committed a *)
(* write to acct since.                                                    *)
(***************************************************************************)
InTx == {"unlink", "removePassword"}

Step == InTx \cup {"idle", "setPassword", "resetWrite", "resetConsume",
                   "linkInsert", "resolveEmail", "resolveLink", "resolveCreate"}

Req == [pc: Step, acct: Account \cup {None}, arg: Identity \cup Token \cup {None},
        cur: Password \cup {None}, new: Password \cup {None},
        snap: SUBSET Method, dirty: SUBSET Method, skewed: BOOLEAN]

Idle == [pc |-> "idle", acct |-> None, arg |-> None, cur |-> None, new |-> None,
         snap |-> {}, dirty |-> {}, skewed |-> FALSE]

Init ==
  /\ account = {}
  /\ owner = [i \in Identity |-> None]
  /\ password = [a \in Account |-> None]
  /\ resetFor = [t \in Token |-> None]
  /\ resetState = [t \in Token |-> "unissued"]
  /\ trail = [a \in Account |-> {}]
  /\ req = [r \in Request |-> Idle]

Owned(a) == {i \in Identity : owner[i] = a}

Methods(a) == Owned(a) \cup (IF password[a] # None THEN {Local} ELSE {})

-----------------------------------------------------------------------------
(* Requests *)

At(r, step) == req[r].pc = step

\* Request r has a first step to take.
Start(r, state) ==
  /\ At(r, "idle")
  /\ req' = [req EXCEPT ![r] = state]

\* req after request r wrote row m of account a and went on to state next.
\* The transactions with a snapshot of a now hold an outdated row, and are
\* skewed too when the writer was itself serializable.
Written(r, next, a, m, serializable) ==
  [q \in Request |->
     IF q = r THEN next
     ELSE IF req[q].pc \in InTx /\ req[q].acct = a
          THEN [req[q] EXCEPT !.dirty = @ \cup {m}, !.skewed = @ \/ serializable]
          ELSE req[q]]

\* Any request can be lost half-way: a database error answered with a 500,
\* a serialization failure, a client that goes away, a restart of the server.
Fail(r) ==
  /\ ~At(r, "idle")
  /\ req' = [req EXCEPT ![r] = Idle]
  /\ UNCHANGED <<tables, resets, trail>>

-----------------------------------------------------------------------------
(* Accounts with their first credential: one transaction each.  Neither    *)
(* observes the auth_local row it writes.                                  *)

NewAccount(a, p) ==
  /\ a \notin account
  /\ account' = account \cup {a}
  /\ password' = [password EXCEPT ![a] = p]
  /\ UNCHANGED <<owner, resets, trail, req>>

\* POST /v1/auth/register
Register(a, p) == NewAccount(a, p)

\* POST /v1/user-accounts, the administrator's; p = None: without a password.
Create(a, p) == NewAccount(a, p)

-----------------------------------------------------------------------------
(* Password reset                                                          *)

\* The goroutine of POST /v1/auth/password-reset/request stores token t.
PasswordResetRequest(a, t) ==
  /\ a \in account
  /\ resetState[t] = "unissued"
  /\ resetFor' = [resetFor EXCEPT ![t] = a]
  /\ resetState' = [resetState EXCEPT ![t] = "active"]
  /\ UNCHANGED <<tables, trail, req>>

\* expires_at passes.
PasswordResetExpire(t) ==
  /\ resetState[t] = "active"
  /\ resetState' = [resetState EXCEPT ![t] = "expired"]
  /\ UNCHANGED <<tables, resetFor, trail, req>>

\* POST /v1/auth/password-reset/confirm is three statements, each on its own:
\* read the active token, upsert the password, mark the token consumed.
GetActivePasswordReset(r, t, new) ==
  /\ resetState[t] = "active"
  /\ Start(r, [Idle EXCEPT !.pc = "resetWrite", !.acct = resetFor[t],
                           !.arg = t, !.new = new])
  /\ UNCHANGED <<tables, resets, trail>>

PasswordResetWrite(r) ==
  LET a == req[r].acct IN
  /\ At(r, "resetWrite")
  /\ password' = [password EXCEPT ![a] = req[r].new]
  /\ req' = Written(r, [req[r] EXCEPT !.pc = "resetConsume"], a, Local, FALSE)
  /\ UNCHANGED <<account, owner, resets, trail>>

ConsumePasswordReset(r) ==
  /\ At(r, "resetConsume")
  /\ resetState' = [resetState EXCEPT ![req[r].arg] = "consumed"]
  /\ req' = [req EXCEPT ![r] = Idle]
  /\ UNCHANGED <<tables, resetFor, trail>>

-----------------------------------------------------------------------------
(* POST and DELETE /v1/self/credential/password                            *)

\* Mutant: a local JWT is believed without the lookup of its account.
SetPasswordUnresolved(r, a, new) ==
  /\ Start(r, [Idle EXCEPT !.pc = "setPassword", !.acct = a,
                           !.cur = password[a], !.new = new])
  /\ UNCHANGED <<tables, resets, trail>>

\* SetPassword reads auth_local, outside its transaction.  An existing
\* password must be the current_password of the request; a request that
\* gives another one is refused here and changes nothing.
SetPassword(r, a, new) ==
  /\ a \in account
  /\ Start(r, [Idle EXCEPT !.pc = "setPassword", !.acct = a,
                           !.cur = password[a], !.new = new])
  /\ UNCHANGED <<tables, resets, trail>>

SetPasswordWrite(r) ==
  LET a == req[r].acct IN
  /\ At(r, "setPassword")
  /\ password' = [password EXCEPT ![a] = req[r].new]
  /\ trail' = [trail EXCEPT ![a] = @ \cup {Local}]
  /\ req' = Written(r, Idle, a, Local, FALSE)
  /\ UNCHANGED <<account, owner, resets>>

\* IdentityCounts opens the serializable transaction of both deletions.
Snapshot(r, step, a, i) ==
  /\ a \in account
  /\ Start(r, [Idle EXCEPT !.pc = step, !.acct = a, !.arg = i,
                           !.cur = password[a], !.snap = Methods(a)])
  /\ UNCHANGED <<tables, resets, trail>>

RemovePassword(r, a) == Snapshot(r, "removePassword", a, None)

\* No password in the snapshot: a 204 all the same.  Nothing else: a 409.
RemovePasswordRefused(r) ==
  /\ At(r, "removePassword")
  /\ Local \notin req[r].snap \/ req[r].snap \cap Identity = {}
  /\ req' = [req EXCEPT ![r] = Idle]
  /\ UNCHANGED <<tables, resets, trail>>

\* The statements of the transaction.
RemovePasswordDelete(r, serializable) ==
  LET a == req[r].acct IN
  /\ At(r, "removePassword")
  /\ Local \in req[r].snap
  /\ req[r].snap \cap Identity # {}
  /\ password' = [password EXCEPT ![a] = None]
  /\ trail' = [trail EXCEPT ![a] = @ \ {Local}]
  /\ req' = Written(r, Idle, a, Local, serializable)
  /\ UNCHANGED <<account, owner, resets>>

\* Mutant: txhelper.Run instead of txhelper.RunSerializable.
RemovePasswordReadCommitted(r) == RemovePasswordDelete(r, FALSE)

\* SERIALIZABLE: the row is the one of the snapshot, and no dangerous
\* read-write conflict has committed.  Otherwise the transaction Fails.
RemovePasswordCommit(r) ==
  /\ Local \notin req[r].dirty
  /\ ~req[r].skewed
  /\ RemovePasswordDelete(r, TRUE)

-----------------------------------------------------------------------------
(* DELETE /v1/self/identities/{identity_uuid}                              *)

Unlink(r, a, i) == Snapshot(r, "unlink", a, i)

\* What the counts say would be left, before anybody knows whose identity
\* the request names.
Remaining(snap) ==
  (Cardinality(snap \cap Identity) - 1) + (IF Local \in snap THEN 1 ELSE 0)

\* 409, last_identity
UnlinkLastIdentity(r) ==
  /\ At(r, "unlink")
  /\ Remaining(req[r].snap) = 0
  /\ req' = [req EXCEPT ![r] = Idle]
  /\ UNCHANGED <<tables, resets, trail>>

\* 404: the DELETE is restricted to rows of the caller's account.
UnlinkNotFound(r) ==
  /\ At(r, "unlink")
  /\ Remaining(req[r].snap) # 0
  /\ req[r].arg \notin req[r].snap
  /\ req' = [req EXCEPT ![r] = Idle]
  /\ UNCHANGED <<tables, resets, trail>>

\* The DELETE by uuid and its audit event, whoever owns the identity.
UnlinkAny(r, serializable) ==
  LET a == req[r].acct IN
  LET i == req[r].arg IN
  /\ At(r, "unlink")
  /\ Remaining(req[r].snap) # 0
  /\ owner' = [owner EXCEPT ![i] = None]
  /\ trail' = [trail EXCEPT ![a] = @ \ {i}]
  /\ req' = Written(r, Idle, a, i, serializable)
  /\ UNCHANGED <<account, password, resets>>

\* ... AND user_account_id = $2
UnlinkDelete(r, serializable) ==
  /\ req[r].arg \in req[r].snap
  /\ UnlinkAny(r, serializable)

\* Mutant: txhelper.Run instead of txhelper.RunSerializable.
UnlinkReadCommitted(r) == UnlinkDelete(r, FALSE)

\* Mutant: the DELETE is not restricted to the caller's rows.
UnlinkUnowned(r) ==
  /\ req[r].arg \notin req[r].dirty
  /\ ~req[r].skewed
  /\ UnlinkAny(r, TRUE)

\* SERIALIZABLE, as for RemovePasswordCommit.
UnlinkCommit(r) ==
  /\ req[r].arg \notin req[r].dirty
  /\ ~req[r].skewed
  /\ UnlinkDelete(r, TRUE)

-----------------------------------------------------------------------------
(* Linking an identity: the callback of a link-mode sign-in                *)

\* last_seen_at of identity i, a row of account a, is set.
Touch(r, i) ==
  /\ req' = Written(r, Idle, owner[i], i, FALSE)
  /\ UNCHANGED <<tables, resets, trail>>

\* The row is looked up outside the transaction that inserts it.
LinkLookup(r, a, i) ==
  /\ a \in account
  /\ At(r, "idle")
  /\ \/ owner[i] = a /\ Touch(r, i)
     \/ /\ owner[i] = None
        /\ Start(r, [Idle EXCEPT !.pc = "linkInsert", !.acct = a, !.arg = i])
        /\ UNCHANGED <<tables, resets, trail>>

\* Mutant: INSERT ... ON CONFLICT (issuer, subject) DO UPDATE.
UpsertIdentity(r) ==
  LET a == req[r].acct IN
  LET i == req[r].arg IN
  /\ owner' = [owner EXCEPT ![i] = a]
  /\ trail' = [b \in Account |-> IF b = a THEN trail[b] \cup {i} ELSE trail[b] \ {i}]
  /\ req' = Written(r, Idle, a, i, FALSE)
  /\ UNCHANGED <<account, password, resets>>

\* InsertOIDCIdentity and its audit event, in one transaction.  The table is
\* UNIQUE(issuer, subject): the insert of a taken identity fails.
InsertIdentity(r) ==
  LET a == req[r].acct IN
  LET i == req[r].arg IN
  /\ owner[i] = None
  /\ owner' = [owner EXCEPT ![i] = a]
  /\ trail' = [trail EXCEPT ![a] = @ \cup {i}]
  /\ req' = Written(r, Idle, a, i, FALSE)
  /\ UNCHANGED <<account, password, resets>>

LinkInsert(r) == At(r, "linkInsert") /\ InsertIdentity(r)

-----------------------------------------------------------------------------
(* Signing in with an identity: UserResolver.Resolve                       *)

\* Branch 1: the identity is known, the sign-in succeeds.  Otherwise go on.
ResolveLookup(r, i) ==
  /\ At(r, "idle")
  /\ \/ owner[i] # None /\ Touch(r, i)
     \/ /\ owner[i] = None
        /\ Start(r, [Idle EXCEPT !.pc = "resolveEmail", !.arg = i])
        /\ UNCHANGED <<tables, resets, trail>>

\* The account with the identity's e-mail address, if there is one.  Branch 4
\* (both addresses unverified) ends the request, as Fail does.
ResolveByEmail(r) ==
  /\ At(r, "resolveEmail")
  /\ \/ \E a \in account :
          req' = [req EXCEPT ![r].pc = "resolveLink", ![r].acct = a]
     \/ req' = [req EXCEPT ![r].pc = "resolveCreate"]
  /\ UNCHANGED <<tables, resets, trail>>

\* Branches 2 and 3
ResolveLink(r) == At(r, "resolveLink") /\ InsertIdentity(r)

\* Branch 5: a new account with the identity, in one transaction.
AutoCreate(r, a) ==
  LET i == req[r].arg IN
  /\ At(r, "resolveCreate")
  /\ a \notin account
  /\ owner[i] = None
  /\ account' = account \cup {a}
  /\ owner' = [owner EXCEPT ![i] = a]
  /\ trail' = [trail EXCEPT ![a] = @ \cup {i}]
  /\ req' = [req EXCEPT ![r] = Idle]
  /\ UNCHANGED <<password, resets>>

-----------------------------------------------------------------------------
Next ==
  \/ \E a \in Account, p \in Password : Register(a, p)
  \/ \E a \in Account, p \in Password \cup {None} : Create(a, p)
  \/ \E a \in Account, t \in Token : PasswordResetRequest(a, t)
  \/ \E t \in Token : PasswordResetExpire(t)
  \/ \E r \in Request, t \in Token, p \in Password : GetActivePasswordReset(r, t, p)
  \/ \E r \in Request, a \in Account, p \in Password : SetPassword(r, a, p)
  \/ \E r \in Request, a \in Account : RemovePassword(r, a)
  \/ \E r \in Request, a \in Account, i \in Identity : Unlink(r, a, i)
  \/ \E r \in Request, a \in Account, i \in Identity : LinkLookup(r, a, i)
  \/ \E r \in Request, i \in Identity : ResolveLookup(r, i)
  \/ \E r \in Request, a \in Account : AutoCreate(r, a)
  \/ \E r \in Request :
       \/ PasswordResetWrite(r) \/ ConsumePasswordReset(r)
       \/ SetPasswordWrite(r)
       \/ RemovePasswordRefused(r) \/ RemovePasswordCommit(r)
       \/ UnlinkLastIdentity(r) \/ UnlinkNotFound(r) \/ UnlinkCommit(r)
       \/ LinkInsert(r) \/ ResolveByEmail(r) \/ ResolveLink(r)
       \/ Fail(r)

Spec == Init /\ [][Next]_vars

-----------------------------------------------------------------------------
(* Properties                                                              *)

\* A request has read what its next step uses.
RequestOK(q) ==
  /\ q.acct \in account \cup {None}
  /\ q.pc \in InTx \cup {"setPassword", "resetWrite", "linkInsert", "resolveLink"}
       => q.acct # None
  /\ q.pc \in {"setPassword", "resetWrite"} => q.new # None
  /\ q.pc \in {"resetWrite", "resetConsume"} => q.arg \in Token
  /\ q.pc \in {"unlink", "linkInsert", "resolveEmail", "resolveLink", "resolveCreate"}
       => q.arg \in Identity

TablesOK ==
  /\ account \subseteq Account
  /\ owner \in [Identity -> account \cup {None}]
  /\ password \in [Account -> Password \cup {None}]
  /\ \A a \in Account \ account : password[a] = None
  /\ resetFor \in [Token -> account \cup {None}]
  /\ resetState \in [Token -> {"unissued", "active", "consumed", "expired"}]
  /\ \A t \in Token : resetState[t] = "active" => resetFor[t] # None
  /\ trail \in [Account -> SUBSET Method]

\* Every value has its type, and every credential row the account it refers
\* to: the foreign keys of auth_local, auth_oidc_identities, password_resets.
TypeOK ==
  /\ TablesOK
  /\ req \in [Request -> Req]
  /\ \A r \in Request : RequestOK(req[r])

SnapshotOK(q) ==
  q.pc \in InTx /\ ~q.skewed
  => /\ q.snap \subseteq Methods(q.acct)
     /\ Local \in q.snap \ q.dirty => q.cur = password[q.acct]

\* A deletion that can still commit has seen no method that is gone: what it
\* counted in its snapshot is there when it commits; and the password is the
\* one it read, unless the row is marked as written since.
SnapshotHolds == \A r \in Request : SnapshotOK(req[r])

\* No request, and no interleaving of requests, takes the last sign-in method
\* of an account: Unlink and RemovePassword check this on counts that other
\* requests may change before they commit.
NeverLockedOut ==
  [][\A a \in Account : Methods(a) # {} => Methods(a)' # {}]_vars

\* Whoever deletes a password counted that very password: one that was set
\* while the deletion was under way is not swept away with it.
RemovalSawPassword ==
  \A a \in Account :
    password[a] # None /\ password'[a] = None
    => \E r \in Request :
         At(r, "removePassword") /\ req[r].acct = a /\ req[r].cur = password[a]

RemovesPasswordItSaw == [][RemovalSawPassword]_vars

\* The identity events of the audit log, replayed, give the identities that
\* each account really has: every path that links or unlinks one observes it
\* in the same transaction.
AuditTracksIdentities ==
  \A a \in Account : trail[a] \cap Identity = Owned(a)

\* The conjunction is inductive: CredentialsProofs proves it of every instance.
IInv == TypeOK /\ SnapshotHolds /\ AuditTracksIdentities

\* The tables implement the promise of SignInMethods.
SignIn == INSTANCE SignInMethods WITH methods <- [a \in Account |-> Methods(a)]

SignInSpec == SignIn!Spec

\* What the documentation says and the code does not do, each refuted by a run.

\* docs/users-module-spec.md: password_resets are single-use tokens.
ResetTokenSingleUse ==
  [][\A r \in Request :
       PasswordResetWrite(r) => resetState[req[r].arg] # "consumed"]_vars

\* SetPassword: if the account already has an auth_local row, the current
\* password is required and verified before proceeding.
ReplacesPasswordItVerified ==
  [][\A r \in Request :
       SetPasswordWrite(r) => password[req[r].acct] = req[r].cur]_vars
=============================================================================
