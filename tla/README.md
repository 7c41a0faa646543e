# Verification of users-module

TLA+ models of the Go API in `src/api`, over the Postgres schema and queries in
`src/model`. They cover what unit tests with stubbed queries do not reach:
requests that interleave at their database round trips, transactions that abort,
goroutines that outlive their request, in-memory objects next to the tables they
were computed from, crashes and restarts. (`src/next-steps.md` notes that there is no
database-backed test harness, and `handlers/identities_test.go:729` that the concurrent
deletion race cannot be unit-tested.)

Paths below are relative to `src/api/internal/` unless they start with
`model/`, `docs/`, `gui/` or `cmd/` (which is `src/api/cmd/`).

## 1. The system

| component | state | operations | hard part | correct when | module |
|---|---|---|---|---|---|
| credentials: `handlers/identities.go`, `handlers/auth/reset.go`, `handlers/auth/register.go` | `auth_local`, `auth_oidc_identities`, `password_resets` | register, set / remove password, reset, link, unlink | handlers interleave; two deletions race; statements outside transactions | no account loses its last sign-in method; an identity belongs to one account | `Credentials` |
| step-up: `auth/stepup.go`, `handlers/identities.go` | cache of used JTIs (`sync.Map`), clock | issue, verify, prune | expiry against the janitor; restart | a token is used once while it lives | `StepUp` |
| e-mail codes, verification: `handlers/auth/emailcode.go`, `reset.go`, `register.go` | `email_codes`, `email`, `email_verified_at` | request, send, verify, change of address | goroutines under a request's context; stale writes of the whole account row | the address of a verified account was proved; a code asked for is mailed | `EmailCodes` |
| resolver: `auth/resolver.go` | the tables of the two above | branches 1 to 5 of `Resolve` | lookups outside the inserting transaction | an identity comes to an account by e-mail address only if the address was proved | `Credentials`, `EmailCodes`, `OidcFlow`, `Access` |
| OIDC configuration: `handlers/oidc_config.go`, `handlers/oidc_providers.go`, `config/oidc_state.go`, `cmd/server/main.go` | `oidc_config`, `oidc_providers`, state cache, registry, setup token | boot, confirm, create / update / revert a provider | cache and registry beside the database; confirm half-way; restart | the operator can always get in; what is saved is what is served | `OidcConfig` |
| provider merge: `config/provider_merge.go`, `config/providers.go` | none (pure) | merge of environment, rows and defaults | precedence per field, applied twice at boot | equal to the documented precedence | `ProviderMerge` |
| OIDC flow: `handlers/auth/oidc.go`, `auth/oauth.go`, `auth/oauth_state.go` | signed state, cookie, registry | start, callback, link, test | state of one flow used by another; repeated callbacks; registry swapped meanwhile | the callback does what its start asked for, for whom it was asked | `OidcFlow` |
| bootstrap: `handlers/auth/register.go`, `auth/resolver.go`, `cmd/server/main.go` | `user_accounts`, grants | first user's grant | two first users; crash before the grant | nobody has authority that does not stem from it | `Access` |
| authorization: `authz/authz.go` | grants, groups, tags (authz-module) | `Authorize` | group closure, wildcards, unregistered operations, effective actor | the policy has the laws of section 4 | `Authz` |
| user accounts: `service/user_accounts.go` | `user_accounts`, audit log | create, update, delete, record login, assume, grant / revoke admin | authorized first, written later; whole-row writes | an assumed token keeps its owner; what is archived stays so | `Access`, `EmailCodes`, `OidcFlow`, `Credentials` |
| apps: `handlers/apps.go` | `apps`, `apps_user_accounts` | create, update, archive, members | row read before the transaction | the audit log is the table | `Access` |
| GUI: `gui/` | session, onboarding state | sign-in, set-up | stale tokens | | none |

How they interact: the handlers share nothing but the database, three in-memory
objects (the provider registry of `OAuth`, the cached OIDC state, the JTI cache)
and the signed tokens clients carry (session, OIDC state, step-up). The resolver
is called by the OIDC callback and by the authentication middleware. Provider
handlers call back into `OAuth.Rebuild`; a credential mutation passes
`requireStepUp` first.

The modules cut the system along the tables and objects that one set of handlers
writes. Where they meet, each leaves the other's state open rather than fixed: in
`Credentials` the resolver may find any account for an address, because which one
it finds is the business of `EmailCodes`; in `OidcFlow` a free identity may come
to any account; in `Access` any existing account may be signed in. So a property of
one module does not rest on one of another, and each holds in the whole.

Outside the repository, and modelled only by what the code relies on:
core-module (`txhelper`, observer, entities), authz-module (its tables and
queries), audit-module, PostgreSQL, identity providers, SMTP.

## 2. Modules

| module | what |
|---|---|
| `SignInMethods` | abstract: accounts and their sign-in methods, `Attach` and `Detach` |
| `Credentials` | every handler that writes passwords, identities and reset tokens |
| `StepUp` | step-up tokens, the JTI cache, the janitor, the clock, restarts |
| `EmailCodes` | addresses, their verification, codes and the goroutines that mail them |
| `ProviderMerge` | how a provider's configuration is put together and edited (operators) |
| `OidcConfig` | boot, setup token, configuration handlers, cache and registry, on `ProviderMerge` |
| `SignInFlows` | abstract: what signing in through a provider promises |
| `OidcFlow` | start, callback, cookie, state, code exchange |
| `Authz` | the policy (operators) |
| `Access` | bootstrap, administration, assumed identities, applications, on `Authz` |
| `MC...` | symmetry and constants for TLC, and nothing else |
| `...Proofs` | the proofs about the module of that name |

Definitions marked *Mutant* in the modules are plausible mistakes in the code (a
check left out, a stale value written). Nothing uses them; `PROJECT.json` names the
property that each of them breaks.

In all modules `req[r]` is a request in flight with what it has read so far, `Fail`
an error, a cancelled request or an aborted transaction, and a handler is cut at
its database round trips wherever another request could change what it has read.

### Credentials

State: `account` is the set of rows of `user_accounts` (an account is never
removed: `Delete` archives its entity and leaves row and credentials),
`owner[i]` the row of identity `i` in `auth_oidc_identities` (a function, as
`UNIQUE (issuer, subject)` makes it), `password[a]` the row of `auth_local`,
`resetFor` / `resetState` the rows of `password_resets`. `trail[a]` is what an
auditor reads off the audit log: the `create` / `update` events of a method minus
its `delete` events. `req[r]` is a request in flight with what it has read.

| code | actions |
|---|---|
| `Register`, `UserAccountService.Create` | `Register`, `Create` (one transaction) |
| `PasswordResetRequest`, expiry | `PasswordResetRequest`, `PasswordResetExpire` |
| `PasswordResetConfirm` | `GetActivePasswordReset`, `PasswordResetWrite`, `ConsumePasswordReset` |
| `SetPassword` | `SetPassword` (read, verify), `SetPasswordWrite` (upsert, event) |
| `RemovePassword` | `RemovePassword` (snapshot), `RemovePasswordRefused`, `RemovePasswordCommit` |
| `Unlink` | `Unlink` (snapshot), `UnlinkLastIdentity`, `UnlinkNotFound`, `UnlinkCommit` |
| `handleLinkMode` | `LinkLookup`, `LinkInsert` |
| `Resolve`, `linkIdentity`, `verifyAndLink`, `autoCreate` | `ResolveLookup`, `ResolveByEmail`, `ResolveLink`, `AutoCreate` |
| any error, a cancelled request, a restart | `Fail` |

A handler is cut at its database round trips: reads that stand next to each
other, and short insert-only transactions, are one step, since nothing read in
them is used after another request could have changed it.

`Unlink` and `RemovePassword` run in `txhelper.RunSerializable`. The model keeps
what PostgreSQL's serializable snapshot isolation guarantees for them: the
transaction sees one snapshot; it cannot delete a row that anybody changed since
(`dirty`: *could not serialize due to concurrent update*); and of two serializable
transactions that read what the other writes one cannot commit (`skewed`: every
serializable transaction here counts all methods of its account, so a committed
write to the account by one is a read-write conflict in both directions with
another). Writers under READ COMMITTED, which take no part in serializable
conflict detection, only make rows `dirty`. Where PostgreSQL aborts more than
that, `Fail` is the abort.

Abstracted: e-mail addresses (the resolver's lookup may find any account or
none), password hashing, the refusals that change nothing (a wrong
`current_password`, an identity owned by another account), authentication and the
step-up gate.

### StepUp

`clock` is `time.Now().Unix()`. `Check` stands for the checks of
`VerifyStepUpToken` up to the expiry, purpose and account; `Grant` and `Refuse`
for the two outcomes of its `LoadOrStore`. The janitor is `Tick` (the ticker's
channel holds one value, later ticks are dropped), `StartSweep` (it receives the
tick, which may be old by now) and `Prune`, one key of `Range` at a time. `Restart`
empties the memory of the process; the tokens, which are signed and stateless,
and the clock remain. Refused tokens change nothing and are left out.

### EmailCodes

State: `email[a]` and `verified[a]` are the two columns of `user_accounts` that
`UpdateUserAccount` always writes together; `codes` the rows of `email_codes`
(and of `password_resets`, as purpose `reset`), each with the address it goes to.
Two variables are history: `proved` has the pairs of an account and an address for which
somebody has entered a code mailed to that address for that purpose, or a provider has
vouched; `moved` the accounts whose address a write has replaced by another.

| code | actions |
|---|---|
| `Register`, `UserAccountService.Create` | `Register` (leaves a goroutine behind), `Create` |
| `EmailCodeRequest`, `PasswordResetRequest`, `StepUpRequest` | actions of these names; `detached` says that the handler does not wait |
| their goroutines | `Lookup`, `CreateEmailCode` / `CreateEmailCodeRefused`, `Send` |
| the request's context ends, a query fails with it | `ContextEnds`, `Cancelled` |
| `EmailCodeVerify` | `GetActiveEmailCode`, `ConsumeEmailCode`, `MarkVerified` |
| `UserAccountService.Update` | `Update` (load), `UpdateWrite` |
| `Resolve` branches 2, 3 and 5 | `Resolve`, then `LinkIdentity`, `VerifyAndLink`, `AutoCreate` |
| a failed lookup, insert or `sender.Send`; an error reply; a restart | `Fail` |
| expiry | `Expire` |

The context of a goroutine whose handler does not wait ends when the handler returns; that
of one whose handler does wait ends when the client disconnects (`ContextEnds`). After
`Fail` in the step `send` the row stays in the table and nobody has the code, as
when `handlers/auth/emailcode.go:112` logs the error and when the server stops between
insert and mail. `Faulty` says whether sending may fail in any of these ways other than
the return of the handler; it is `TRUE` in the run that checks what holds, and
`FALSE` in the two that show what goes wrong without any fault.

Addresses are compared as the queries do: `lower(email)` in the lookup, the
spelling in `UNIQUE (email)` (`model/migrations/0101_users.sql:14`). `StepUpVerify`
has no action since no code that it would accept can be stored (section 3).
Abstracted: the code itself (a client enters only a code that was mailed) and the
wrong code, which changes nothing.

### ProviderMerge and OidcConfig

`ProviderMerge` has no state: `LoadProviders` is the environment, `MergeFields`,
`LoadMergedProviders` and `MergedRegistry` the merge, `EditRow` what an edit does to
a row.

State of `OidcConfig`: `config` the row of `oidc_config`, `rows` those of
`oidc_providers`; `env` is `EnvRegistry` as the handlers hold it, `registry` what
`OAuth` serves and whether discovery succeeded, `cached` the state cache with its
copy of the hash, `plain` the setup token the loopback endpoint shows. A setup
token is the number of its minting. `opened` remembers whether the gate has opened
(`never`, `before` the last boot, `now`). `clean`, which is history as well, is `yes` after a
boot, `no` once requests have overlapped or failed, `mending` while a request that no
other runs beside rebuilds after that, and `yes` again when it has refreshed the cache.

| code | actions |
|---|---|
| `main`, from the environment to `DetermineBootState` | `Boot` |
| `EnsureSetupToken` | `EnsureSetupToken` (clear), `MintSetupToken` |
| `Confirm` | `Confirm` (authorization, body), `SetOIDCProviderEnabled` per provider, `UpdateOIDCConfig`, the refresh, `CurrentState`, `ClearSetupTokenHash`, the refresh again |
| `Update`, `Create` of a provider | `Update` / `Create`, `GetOIDCProvider`, `UpsertOIDCProvider`, the refresh |
| `Revert` | `Revert`, `DeleteOIDCProvider`, the refresh |
| the refresh (`rebuildAndRefresh`, `Rebuild`, `RefreshState`) | `ListOIDCProviders`, `Rebuild`, `GetOIDCConfig`, `LoadMerged`, `AllProviders`, `StoreState` |
| the process dies, at any point | `Crash` |

Discovery at the provider succeeds or fails as it likes (`ok`). Whoever is not the
holder of the setup token must be an administrator, and nobody can become one
before the gate has opened once (`Authorized`).

### SignInFlows and OidcFlow

The server keeps nothing of a flow: `flows[f]` is what the signed state says, a state
is the number of its flow, and `cookie[b]` the one `oidc_state` cookie of a browser.
`codes` are the authorization codes the provider has issued, `used` those traded for
tokens, `owner`, `logins` and `tokens` the identity rows, the login rows of the audit
log and the JWTs handed out.

| code | actions |
|---|---|
| `Start`, link-mode start, `AuthorizeURL` | `Start`, `StartLink` |
| the provider's page (external) | `Authenticate` |
| `Callback`, up to the check of the state | `Callback`, `CallbackRefused` |
| `OAuth.Exchange`, nonce, branches | `Exchange` |
| `handleLinkMode` | `HandleLinkMode` |
| `Resolve`, `RecordLogin`, `IssueLocalJWT` | actions of these names |
| error response; restart or lost client | `Fail`; `Lost` |
| `OAuth.Rebuild`, `Unlink` | `Rebuild`, `Unlink` |

A callback may be sent any number of times, by any browser, with any pair of a
code and a state that exist. The MAC is that nobody makes up a state; expiry is that any
callback may be refused. Not modelled: return paths.

### Authz and Access

`Authz` is `Authorizer.Authorize` and its four queries as operators on the set of
grants. `Access` has the accounts, the grants, the tokens of `Assume`, the
applications and their members, and `trail`, what the audit log says of an
application. `ledger` is history: every grant ever made, oldest first, by whom (`None`
is the first-user hook); `Give` is the one way in, and revoking a grant does not take
it out. A token is its subject, whom it acts as, and (history) who signed in.

| code | actions |
|---|---|
| `Register`, `autoCreate`, `FirstUserHook` | `CountAccounts`, `InsertAccount`, `FirstUserHook` |
| `UserAccountService.Create`, `Delete`, `Assume` | `Create` / `CreateCommit`, `Delete` / `ArchiveEntity`, `Assume` / `IssueAssumeJWT` |
| `GrantAdmin`, `RevokeAdmin`, authz-module's `POST /v1/authz/grants` | `GrantAdmin` / `CreateWildcardGrant`, `RevokeAdmin` / `DeleteWildcardGrant`, `CreateGrant` / `GiveGrant` |
| `CreateApp`, `UpdateApp`, `DeleteApp` | the same, / `CreateAppCommit`, `UpdateAppCommit`, `ArchiveApp` |
| `AssignUser`, `RemoveUser`, `UpdateUserRoles` | the same, / `AssignUserAccountToApp`, `RemoveUserAccountFromApp`, `SetAppUserAccountRoles` |

Each handler authorizes in its first step and writes in its second, so that grants,
accounts and rows may change in between. `create` is no registered operation
(`authz/export_test.go:81`), so that creating takes a wildcard grant of `manage`.

## 3. Runs

| run | checks | result |
|---|---|---|
| `credentials` | `TypeOK`, `SnapshotHolds`, `AuditTracksIdentities`, `NeverLockedOut`, `RemovesPasswordItSaw`, `SignInSpec` | hold, about 714,000 states |
| `stepup` | `TypeOK`, `CacheRemembers`, `NoReplayInTime`, `ExpiredForGood`, `CacheDrains` | hold, about 134,000 states |
| `email_codes` | `TypeOK`, `VerifiedWitnessed`, `RequestsWitnessed`, `LinksWitnessed` | hold, about 3,381,000 states |
| `oidc_config` | `TypeOK`, `OneLiveToken`, `OnboardingOpen`, `SavedIsServed`, `BootFollowsPrecedence` | hold, about 2,719,000 states |
| `oidc_flow` | `TypeOK`, `CallbacksAnswerTheirFlow`, `LoginsAudited`, `FlowsKeepPromise` | hold, about 373,000 states |
| `access` | `TypeOK`, `AdminIdentityPreserved`, `AuthorityStemsFromBootstrap`, `AuditTracksApps`, `GrantsHavePedigree`, `AssumedByPermission`, `ArchivedForGood` | hold, about 68,000 states |
| `credentials_reset` | `ResetTokenSingleUse` | violated |
| `credentials_overwrite` | `ReplacesPasswordItVerified` | violated |
| `email_codes_stepup` | `StepUpCodeEnqueued` | violated |
| `email_codes_reset` | `ResetTokenMailed` | violated |
| `oidc_config_revert` | `RevertRestoresEnv` | violated |
| `access_manual_grant` | `OperatorCanGrant` | violated |

### What they show, and within which bounds

`credentials`: two accounts, two identities, two passwords, one reset token, two
requests in flight. A race needs two requests for one account, a second account
to take an identity to, a second identity so that one can be left, and a second
password to tell a new one from the one that was read. Accounts, identities,
passwords and requests are interchangeable in the model, hence the symmetry; every
property quantifies over all of them, and none is a liveness property. Deadlock is
checked.

- `NeverLockedOut`: no step empties the set of methods of an account that has one.
- `SignInSpec`: the tables refine `SignInMethods`: identities are attached only
  while nobody owns them, and a method is detached only while another is left.
- `RemovesPasswordItSaw`: `RemovePassword` never deletes a password that was set
  after it counted.
- `SnapshotHolds`: why these hold, and what makes them inductive (section 4).
- `AuditTracksIdentities`: the identity events of the audit log, replayed, are the
  identity table. (Passwords have no such property: registration, account creation
  and reset write one without an event for it, `docs/users-module-spec.md:164`.)

`stepup`: two accounts, two tokens, two verifications, a lifetime of two
seconds, tokens issued in the first two. This covers both sides of the expiry, a
sweep with an old tick, a verification that straddles the expiry, and two tokens of
different age in one sweep. The bound is on issuing: the clock runs on until every token has
expired and then stands still while the ticker goes on. No symmetry, because of the
liveness property.

- `NoReplayInTime`, `CacheRemembers`: within one life of the server no token is accepted
  a second time before it expires, and why.
- `ExpiredForGood`: across restarts, too, a token that has expired while no verification was
  under way with it is never accepted again: what a restart costs ends with the token's lifetime.
- `CacheDrains`: every JTI is forgotten in the end.

`email_codes`: two accounts, an address in two spellings and another one, one code, two
requests or goroutines, faults. Two requests suffice for a stale write over another's; two
spellings for accounts that the lookup cannot tell apart; the second address for an
account to be moved to, and for another account to take the one it left. Proofs come from
codes and from providers, so that one code suffices for a proof by each of two accounts; that
an older code is not accepted beside the newest only takes behaviours away, and the
proofs of section 4 are for any number of codes. `MaxCodes` is checked where a request for
a code starts, so that no goroutine is ever stopped by it. Requests and accounts are
interchangeable. Deadlock is checked.

- `VerifiedWitnessed`: four handlers write `email` and `email_verified_at` back from rows
  they read earlier, and still the address of a verified account was proved for that very
  account. There is one exception, which the code makes and no document excludes: `Update`
  carries the verification of the old address over to the new one
  (`service/user_accounts.go:291`), and a code goes to the address its goroutine has read, which
  may be the former one. Of an account that was `moved` the property only says that some
  address was proved for it.
- `RequestsWitnessed`: the same of what requests hold and are about to write.
- `LinksWitnessed`: an identity comes to an account by an address only if that address was
  proved for the account, with the same exception.

None of this says that a code arrives. It may not: a stored code is lost when the mailer
fails or the server stops, and then is the newest one of its account, so that an
older one that was mailed is no longer accepted.

`oidc_config`: a provider of the environment and one that only rows can configure,
one field without a default and one with, two values, two kinds of edit, three requests of which
two are in flight, a crash. Two requests interleave at every round trip; a third can follow
what they have left; a crash, so that a boot meets what requests and an
earlier boot wrote. `MaxRequests` and `MaxCrashes` let the system stop, hence no
deadlock check. Requests are interchangeable.

- `OneLiveToken`, `OnboardingOpen`: at most one setup token is live, and while the gate
  has not opened since the boot it is the one the operator was shown, whatever
  ran, failed, interleaved or crashed.
- `SavedIsServed`: while no request runs, registry and cache are what the tables say. Requests
  that overlapped or failed half-way may leave them apart; the next one that rebuilds and
  refreshes while no other runs brings them together, whatever was left. Three requests
  are what this takes: two to overlap, one to mend.
- `BootFollowsPrecedence`: row, else environment, else default, per field, although
  `main` merges the rows twice.

`oidc_flow`: two browsers, two accounts, one identity, one provider with two client
ids, two flows, two codes, two callbacks in flight, one change of the registry. Two flows in one
browser overwrite each other's cookie, in two they can be mixed up; two callbacks can be one sent
twice. The bounds on flows, codes and rebuilds let the system stop, hence no
deadlock check.

- `CallbacksAnswerTheirFlow`: whatever code and state a query pairs, a callback acts
  for the browser, the provider and the purpose that its state was signed for.
- `LoginsAudited`: no token is handed out before its login row is committed.
- `FlowsKeepPromise`: `OidcFlow` implements `SignInFlows`: a test leaves no trace, an
  identity is linked only to the account that asked, a session is opened only in the browser that
  asked.

`access`: two accounts, an actor group with one of them in it, a grant to the group,
two applications, two slugs, five requests of which two are in flight: enough for the bootstrap
and a use of what it granted against a concurrent request. `MaxRequests` lets the
system stop, hence no deadlock check. Requests, slugs and applications are
interchangeable; accounts are not, because of the group.

- `AdminIdentityPreserved`: through any chain of assumed identities, a token's subject
  is the account that signed in.
- `AuthorityStemsFromBootstrap`: before a first-user hook has run there are no grants,
  no applications and no request that could make any.
- `GrantsHavePedigree`: every grant was made by a first-user hook or for somebody whom
  the grants made before it authorized to make grants. So nobody makes himself an
  administrator in several steps, by assumed identities or by a late commit.
- `AssumedByPermission`: whom a token acts as is reached from who signed in by
  assumptions each of which some grant allowed. A grant counts although it was revoked
  since: a handler that has been authorized may commit later.
- `AuditTracksApps`: the last audit event of an application is its row.
- `ArchivedForGood`: no late write brings back what was archived.

### Where the code does something else than it says

Each of these runs checks one property, taken from a comment or a document:

- `credentials_reset`: `PasswordResetConfirm` writes the password, then consumes
  the token, and ignores how that went. Two confirmations with one token both set a
  password (`docs/users-module-spec.md:184`: single-use tokens).
- `credentials_overwrite`: `SetPassword` verifies the current password outside
  the transaction that overwrites it (`handlers/identities.go:325`).
- `email_codes_stepup`: a step-up code is stored with a purpose that the CHECK of
  `email_codes` refuses, so that none is ever sent (`handlers/identities.go:469`,
  `model/migrations/0103_email_codes.sql:7`).
- `email_codes_reset`: the goroutine of `PasswordResetRequest` uses the context of a
  request that has been answered, and loses its token if it is slower
  (`docs/users-module-spec.md:60`). The verification code of `Register` goes the same way.
- `oidc_config_revert`: `main` hands the merged registry to the handlers as the
  environment, so that after a restart a revert restores the override it removes
  (`handlers/oidc_providers.go:229`). For the same reason the administrator's form is then
  wrong: its `*_default` fields and the source `env` show the values of the rows, although
  `handlers/oidc_providers.go:78`, `:587` and `:600` say that they leave the rows out.
- `access_manual_grant`: when the hook of the first user fails, an operator is to
  create the grant manually, says `handlers/auth/register.go:196` and `cmd/server/main.go:378`;
  the route asks for the wildcard permission that only such a grant confers
  (`cmd/server/main.go:568`). Nobody has it, and by `AuthorityStemsFromBootstrap` nobody will.

`email_codes_stepup` and `email_codes_reset` use one account, one request, one code and no
faults: a single request shows them.

### Seen in the models, without a run

Against a document or a comment:

- One e-mail code signs two requests in that read it before either consumed it, and the
  outcome of consuming it is ignored (`handlers/auth/emailcode.go:165`). Codes are
  single-use by `docs/users-module-spec.md:50` and `:183` and `docs/architecture.md:28`. It is what
  `credentials_reset` shows of reset tokens.
- The setup token is for one-time use (`auth/setup_token.go:72`,
  `handlers/oidc_config.go:264` and `:360`). An edit of a provider can bring the state to a confirmed
  one without clearing it (`handlers/oidc_providers.go:388`); that its hash cannot be
  cleared is only logged; a stale refresh can put the hash of the newest token, cleared since,
  back into the cache. `OneLiveToken` excludes older tokens, not the second use of the newest.
- A used step-up token is accepted again by a verification that checked the expiry in the
  token's last second and stores the JTI after the janitor forgot it (`auth/stepup.go:127` and
  `:142`), against `auth/stepup.go:87` and `:150`. Before the expiry `NoReplayInTime` excludes it.

Where we know of no document that says otherwise:

- An address may lead to two accounts that spell it differently (`auth/resolver.go:462`).
- An account that is moved to another address stays verified
  (`service/user_accounts.go:291`), and a code mailed to the former address verifies the
  new one (`handlers/auth/emailcode.go:131`); a verification that overlaps the move writes
  the old address back (`:188`).
- Overlapping saves may leave the older registry or state in place
  (`auth/oauth.go:331`, `handlers/oidc_config.go:99`), and an edit writes back a
  whole row, with the flag a concurrent `Confirm` has changed (`handlers/oidc_providers.go:268`).
- A provider that only rows configure does not count for the state until a
  restart (`handlers/oidc_config.go:531`).
- Two first users may both become administrators. `RevokeAdmin` may remove the last
  administrator. Archived accounts still sign in.
- Two tabs share one state cookie, and any callback clears it (`handlers/auth/oidc.go:159`).
- `AssignUser` answers with roles that `ON CONFLICT DO NOTHING` did not store
  (`handlers/apps.go:336`).

**Fairness.** `Credentials`, `OidcConfig`, `OidcFlow` and `Access` have none: their
properties are safety properties. In `StepUp`, time passes, the ticker ticks and the
janitor's goroutine is scheduled: the Go runtime does all three while the process
lives, and a restart empties the cache by itself. `EmailCodes` has no fairness
where properties are to hold, since database, mailer and client may fail. Its two violated
properties are about progress, and are refuted under `FairSpec`: even if each goroutine that
was started takes its steps (`WF_vars(Goroutine(r))`, which the Go scheduler does) and
with `Faulty` `FALSE`, no code comes of it. `ContextEnds` is not fair, users and
verifications are not assumed to do anything.

## 4. Proofs

TLAPS checks the proofs for every number of accounts, identities, tokens, codes,
providers, flows, grants and requests. All properties of the passing runs are proved
but the liveness property `CacheDrains`: liveness under fairness is out of the prover's
reach. The six violated ones are of course not proved.

Each `...Proofs` module follows one pattern: an inductive `IInv` (or a chain of
invariants), a lemma for each action or kind of action, `NextInv` or its like that puts
them together, and temporal theorems that follow.

| module | assumes | proves |
|---|---|---|
| `CredentialsProofs` | `CredentialsAssumption`: `None` is no value, `"local"` no identity, `Identity` finite (so that counting makes sense) | `TypeCorrect`, `SnapshotsHold`, `AuditCorrect`, `Refinement`, `LockoutFree`, `RemovalCorrect` |
| `StepUpProofs` | `StepUpAssumption`: lifetime and bound are natural numbers, `None` is neither a token nor a number | `TypeCorrect`, `CacheRemembersTokens`, `NoReplay`, `ExpiredStaysExpired` |
| `EmailCodesProofs` | `EmailCodesAssumption`: `Lower` is idempotent, the bound is a natural number, `None` is no value | `TypeCorrect`, `VerificationWitnessed`, `ReadsWitnessed`, `LinksAreWitnessed` |
| `OidcConfigProofs` | `ProviderMergeAssumption` (a client id is required and has no default), `EnvironmentAssumption` (start-up fails if a provider of the environment lacks a required value), `OidcConfigAssumption` (edits are edits, the bounds natural numbers, `None` is no value) | `TypeCorrect`, `SingleToken`, `NobodyLockedOut`, `SavedServed`, `OpenGateWorks`, `BootPrecedence`, and of the merge `MergedTwice` |
| `OidcFlowProofs` | `OidcFlowAssumption`: an identity has one provider, the bounds are natural numbers, `None` is no value | `TypeCorrect`, `CallbacksAnswer`, `EveryLoginAudited`, `Refinement`, and from it `TokensAreEarned`, `IdentitiesStayPut` |
| `SignInFlowsProofs` | nothing | `Earning`, `Staying` |
| `AccessProofs` | `AuthzAssumption` (`manage` is registered; groups and tags relate entities), `AccessAssumption` (accounts are entities, none is a tag) | `TypeCorrect`, `IdentityPreserved`, `BootstrapAuthority`, `AppsAudited`, `ArchivesKept`, `PedigreeOfGrants`, `AssumptionsPermitted`, and of the policy `GrantsOnlyAdd`, `GrantsStayLocal`, `MembershipComposes`, `NothingGranted`, `AdministratorMayDoAll` |

The arguments:

- `CredentialsProofs`: a deletion decides on counts taken in its snapshot, so that
  `NeverLockedOut` is not inductive by itself. `SnapshotHolds` is the missing fact: as
  long as no serializable transaction has committed to its account, every method a
  deletion has counted is still there, since only serializable transactions take
  methods away. Together with the guard of the commit (the row unchanged, no
  conflict) the method the deletion leaves behind is there when it commits.
- `StepUpProofs`: `IInv == TypeOK /\ CacheRemembers`. The janitor's time never runs ahead
  of the clock (`TypeOK`), so what it finds expired no verification lets through any more.
  `ExpiredStaysExpired` needs the invariant only for the types: time does not run
  backwards, a token is issued once, and `Check` refuses what has expired.
- `EmailCodesProofs`: `VerifiedWitnessed` is not inductive, since a request may write
  back a verification it has read. `RequestsWitnessed` says that this is witnessed for the
  address it will be written with, and `proved` and `moved` only grow, so a write may come as
  late as it likes. That an entered code proves the address of the account that entered it needs
  `CodesDelivered`: a code goes to the address its account has, unless that was replaced
  since. Faults take nothing from the argument: `Fail` and `ContextEnds` only end requests.
- `OidcConfigProofs`: `OneLiveToken` needs that no request holds a hash older than
  the newest token, which holds since a boot begins without requests and mints before any is
  served; `OnboardingOpen` that requests under way cannot clear the token while the gate is shut.
  `BootFollowsPrecedence` rests on a lemma that merging the rows twice comes to the
  same as merging them once; `SavedIsServed` on what each step of a request
  that runs alone has brought up to date so far, which does not depend on what it found:
  so the same lemma serves a clean history and the mending of another. `OpenGateWorks` is what it is worth: where the
  cached state is that of the tables and says `confirmed_ok`, there is somewhere to sign in.
- `OidcFlowProofs`: `IInv` is inductive as it stands: a cookie holds only states
  of its browser, so a callback whose state is that of the cookie belongs to the browser,
  and the nonce ties the code to the flow. The refinement maps each step to one of `SignInFlows` or
  to a stutter; `recognized` is computed from the callbacks in flight, so that
  `Fail` is `GiveUp`.
- `SignInFlowsProofs` shows what that promise is worth, on its small state: a session was
  opened in the browser that asked for it after its provider had vouched, and an identity is
  never taken from one account to another. `OidcFlowProofs` instantiates the module with
  the refinement mapping and so has both of the code, without looking at its steps again.
- `AccessProofs`: `NothingGranted`: without grants a call is allowed only on oneself or
  one's own tags, and no account is a tag. So before the bootstrap nothing that
  would make a grant can begin. That `trail` follows `app` needs that the two
  are written in one transaction and that an application is never removed.
  Authority afterwards is a second layer, `PInv`. The grants a handler was authorized by may
  be gone when it commits, so that no statement about the present grants is inductive.
  The ledger only grows, holds all grants there are, and grants only add rights
  (`GrantsOnlyAdd`): what a request was once allowed, the ledger allows it for good
  (`RequestEntitled`), and its entry can be accounted for at the commit.

## 5. Not modelled

- Claims: the extraction of fields from a token's claims, per vendor, is pure and
  its table-driven tests reach every case.
- Logging, HTTP routing and JSON, replies (but for what a client learns: tokens, codes), hashing and signing, the SMTP call, tracing and metrics, generated code, connection
  pool, down migrations, the example application and deployment files: pure I/O, libraries
  or no logic of the program.
- Names of natural persons (`PUT /v1/self`), which core-module stores.
- Cryptography: that a state, a JWT or a step-up token is not forged is assumed, and
  that codes are not guessed.
- The clock, except in `StepUp`: elsewhere whatever can expire may do so at any time.
- `RequireVerifiedEmail` in `Access`: it only refuses requests.
- `TOKEN_DISPLAY=none`, with which the process exits instead of showing the token.
- More than one instance of the server. Registry, state cache and JTI cache are per
  process, so that the properties about them are properties of one instance.
- The GUI: it keeps a token and shows what the API answers; nothing on the server trusts it.

## 6. What is left

1. Two instances of the server over one database: which of `SavedIsServed`,
   `OneLiveToken` and `NoReplayInTime` survive, and which become findings.
2. The session and onboarding state of the GUI, as a client of `OidcConfig`.
3. A clock in `OidcFlow` and `EmailCodes`, where lifetimes of states and codes are
   compared with those of cookies.
4. Abstract specifications of onboarding (a token, a gate) and of verification (an
   address, a proof of it), for `OidcConfig` and `EmailCodes` to refine as `Credentials` and
   `OidcFlow` refine theirs.
