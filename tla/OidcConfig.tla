---------------------------- MODULE OidcConfig ----------------------------
(***************************************************************************)
(* The OIDC configuration of a running server: two tables, oidc_config and *)
(* oidc_providers; what the process holds of them in memory, the provider  *)
(* registry and the cached boot state that gates every other route; the    *)
(* setup token; boots and crashes.  Confirm and the provider handlers      *)
(* write the tables, rebuild the registry and refresh the cache, in steps  *)
(* that interleave.                                                        *)
(*                                                                         *)
(* One server runs on the database, with TOKEN_DISPLAY other than none.    *)
(***************************************************************************)
EXTENDS ProviderMerge

CONSTANTS NoOIDC,   \* the flag NO_OIDC_ACCOUNTS
          Edit,     \* bodies of Update and Create
          Request,  \* requests in flight
          MaxCrashes,  \* bound: crashes in a behaviour
          MaxRequests  \* bound: requests in a behaviour

\* An entry of OAuth.States: a configuration, and whether discovery succeeded.
Registered == [provider: Layer, ok: BOOLEAN]

ASSUME OidcConfigAssumption ==
  /\ NoOIDC \in BOOLEAN /\ Edit \subseteq Change
  /\ {MaxCrashes, MaxRequests} \subseteq Nat
  /\ None \notin Registered

VARIABLES config,    \* the row of oidc_config: opt_out, setup_token_hash
          rows,      \* the rows of oidc_providers
          phase,     \* of the server process
          env,       \* EnvRegistry, as the handlers were given it
          registry,  \* OAuth.States: each provider's configuration and InitOK
          cached,    \* cachedDB's hash and cachedBoot's state
          plain,     \* currentPlain
          minted,    \* setup tokens minted so far: token n is the n-th
          opened,    \* when the gate was last seen open
          clean,     \* "yes": tables and memory should agree once no request runs;
                     \* "no": requests overlapped or failed since they did;
                     \* "mending": a request has begun, alone, to rebuild after that
          crashes,   \* crashes so far
          served,    \* requests so far
          req        \* requests in flight

tables == <<config, rows>>
memory == <<env, registry, cached, plain>>
history == <<minted, opened, clean, crashes, served>>
vars == <<tables, phase, memory, history, req>>

NoToken == 0

State == {"confirmed_ok", "confirmed_opt_out", "init_failed", "no_env_no_flag"}

Confirmed(state) == state \in {"confirmed_ok", "confirmed_opt_out"}

NoConfiguration == [p \in Provider |-> None]

Idle == [pc |-> "idle", id |-> None, change |-> None, row |-> None, rows |-> NoConfiguration,
         wanted |-> {}, left |-> {}, optOut |-> FALSE, confirms |-> FALSE,
         hash |-> NoToken, state |-> "init_failed"]

NoCache == [hash |-> NoToken, state |-> "init_failed"]

Init ==
  /\ config = [optOut |-> FALSE, hash |-> NoToken]
  /\ rows = NoConfiguration
  /\ phase = "down"
  /\ env = NoConfiguration
  /\ registry = NoConfiguration
  /\ cached = NoCache
  /\ plain = NoToken
  /\ minted = 0
  /\ opened = "never"
  /\ clean = "yes"
  /\ crashes = 0
  /\ served = 0
  /\ req = [r \in Request |-> Idle]

-----------------------------------------------------------------------------
(* What the state is computed from                                         *)

\* initProvider for a registry: discovery succeeds for the providers in ok.
InitProviders(providers, ok) ==
  [p \in Provider |->
     IF providers[p] = None THEN None ELSE [provider |-> providers[p], ok |-> p \in ok]]

InitOK(states, p) == states[p] # None /\ states[p].ok

Candidates == {p \in Provider : env[p] # None}

\* buildProviderViews, DetermineBootState
DetermineBootState(candidates, prows, states, optOut) ==
  LET enabled == {p \in candidates : MergedEnabled(prows[p])}
  IN  CASE candidates = {} -> IF optOut \/ NoOIDC THEN "confirmed_opt_out" ELSE "no_env_no_flag"
        [] candidates # {} /\ enabled = {} ->
             IF optOut THEN "confirmed_opt_out" ELSE "init_failed"
        [] enabled # {} ->
             IF \A p \in enabled : InitOK(states, p) THEN "confirmed_ok" ELSE "init_failed"

\* The cache is written; the gate is seen open if the new state is a confirmed one.
Cache(hash, state) ==
  /\ cached' = [hash |-> hash, state |-> state]
  /\ opened' = IF Confirmed(state) THEN "now" ELSE opened

-----------------------------------------------------------------------------
(* Boot and crash                                                          *)

\* main: EnvRegistry is the environment merged with the rows, OAuth is built
\* from the rows merged onto that, and the state is computed.
Boot(ok) ==
  /\ phase = "down"
  /\ env' = MergedRegistry(LoadProviders, rows)
  /\ registry' = InitProviders(MergedRegistry(env', rows), ok)
  /\ LET state == DetermineBootState({p \in Provider : env'[p] # None}, rows, registry',
                                     config.optOut)
     IN  /\ cached' = [hash |-> config.hash, state |-> state]
         /\ opened' = IF Confirmed(state) THEN "now"
                      ELSE IF opened = "never" THEN "never" ELSE "before"
  /\ clean' = "yes"
  /\ phase' = "ensure"
  /\ UNCHANGED <<tables, plain, minted, crashes, served, req>>

\* Mutant: a restart trusts the hash it finds, although nobody has the token.
EnsureSetupTokenOnce ==
  /\ phase = "ensure"
  /\ phase' = IF Confirmed(cached.state) \/ config.hash # NoToken THEN "serving" ELSE "mint"
  /\ UNCHANGED <<tables, memory, history, req>>

\* EnsureSetupToken: the token of an earlier process, if any, is cleared.
EnsureSetupToken ==
  /\ phase = "ensure"
  /\ config' = [config EXCEPT !.hash = NoToken]
  /\ IF Confirmed(cached.state)
       THEN cached' = [cached EXCEPT !.hash = NoToken] /\ phase' = "serving"
       ELSE UNCHANGED cached /\ phase' = "mint"
  /\ UNCHANGED <<rows, env, registry, plain, history, req>>

\* Mutant: the cache is not refreshed.
MintSetupTokenUnrefreshed ==
  /\ phase = "mint"
  /\ minted' = minted + 1
  /\ config' = [config EXCEPT !.hash = minted']
  /\ plain' = minted'
  /\ phase' = "serving"
  /\ UNCHANGED <<rows, env, registry, cached, opened, clean, crashes, served, req>>

\* ... and a new one is minted, stored, kept and shown to the operator.
MintSetupToken ==
  /\ phase = "mint"
  /\ minted' = minted + 1
  /\ config' = [config EXCEPT !.hash = minted']
  /\ plain' = minted'
  /\ cached' = [cached EXCEPT !.hash = minted']
  /\ phase' = "serving"
  /\ UNCHANGED <<rows, env, registry, opened, clean, crashes, served, req>>

Crash ==
  /\ phase # "down"
  /\ crashes < MaxCrashes
  /\ crashes' = crashes + 1
  /\ phase' = "down"
  /\ env' = NoConfiguration
  /\ registry' = NoConfiguration
  /\ cached' = NoCache
  /\ plain' = NoToken
  /\ req' = [r \in Request |-> Idle]
  /\ UNCHANGED <<tables, minted, opened, clean, served>>

-----------------------------------------------------------------------------
(* Requests                                                                *)

At(r, step) == phase = "serving" /\ req[r].pc = step

\* authorizeConfirm: the setup token, by the cached hash, or an administrator,
\* who could become one only while the gate was open.
Authorized == cached.hash # NoToken \/ opened # "never"

Undisturbed(r) == \A q \in Request \ {r} : req[q].pc = "idle"

Start(r, state) ==
  /\ At(r, "idle")
  /\ Authorized
  /\ req' = [req EXCEPT ![r] = state]
  /\ clean' = IF Undisturbed(r) THEN clean ELSE "no"
  /\ served < MaxRequests
  /\ served' = served + 1
  /\ UNCHANGED <<tables, phase, memory, minted, opened, crashes>>

\* The request goes on, and has no more use for what it has read.
Goto(r, step) ==
  req' = [req EXCEPT ![r] = [Idle EXCEPT !.pc = step, !.confirms = req[r].confirms]]

Finish(r) == req' = [req EXCEPT ![r] = Idle]

\* A body that lists providers (unknown ones are dropped) or opts out.
Confirm(r, wanted, optOut) ==
  Start(r, [Idle EXCEPT !.pc = "flags", !.left = Candidates, !.confirms = TRUE,
                        !.wanted = wanted \cap Candidates,
                        !.optOut = optOut \/ Candidates = {}])

Update(r, p, change) ==
  Start(r, [Idle EXCEPT !.pc = "read", !.id = p, !.change = change])

\* As Update, but refused if there is a row.
Create(r, p, change) == rows[p] = None /\ Update(r, p, change)

Revert(r, p) == Start(r, [Idle EXCEPT !.pc = "delete", !.id = p])

\* The flags are written one by one, in the order of a map.
SetOIDCProviderEnabled(r, p) ==
  /\ At(r, "flags")
  /\ p \in req[r].left
  /\ rows' = [rows EXCEPT ![p] = [fields |-> IF @ = None THEN [f \in Field |-> None]
                                             ELSE @.fields,
                                  enabled |-> p \in req[r].wanted]]
  /\ req' = [req EXCEPT ![r].left = @ \ {p}]
  /\ UNCHANGED <<config, phase, memory, history>>

UpdateOIDCConfig(r) ==
  /\ At(r, "flags")
  /\ req[r].left = {}
  /\ config' = [config EXCEPT !.optOut = req[r].optOut]
  /\ Goto(r, "load")
  /\ UNCHANGED <<rows, phase, memory, history>>

\* upsertAndRespond reads the row and merges the body into it ...
GetOIDCProvider(r) ==
  /\ At(r, "read")
  /\ req' = [req EXCEPT ![r] = [Idle EXCEPT !.pc = "upsert", !.id = req[r].id,
                                  !.row = EditRow(rows[req[r].id], req[r].change)]]
  /\ UNCHANGED <<tables, phase, memory, history>>

\* ... and writes all of it.
UpsertOIDCProvider(r) ==
  /\ At(r, "upsert")
  /\ rows' = [rows EXCEPT ![req[r].id] = req[r].row]
  /\ Goto(r, "load")
  /\ UNCHANGED <<config, phase, memory, history>>

DeleteOIDCProvider(r) ==
  /\ At(r, "delete")
  /\ rows' = [rows EXCEPT ![req[r].id] = None]
  /\ Goto(r, "load")
  /\ UNCHANGED <<config, phase, memory, history>>

\* rebuildAndRefresh, and the same calls in Confirm: the rows are read,
ListOIDCProviders(r) ==
  /\ At(r, "load")
  /\ req' = [req EXCEPT ![r].pc = "rebuild", ![r].rows = rows]
  /\ clean' = IF clean = "no" /\ Undisturbed(r) THEN "mending" ELSE clean
  /\ UNCHANGED <<tables, phase, memory, minted, opened, crashes, served>>

\* Mutant: Confirm rebuilds from the environment alone.
RebuildFromEnv(r, ok) ==
  /\ At(r, "rebuild")
  /\ registry' = InitProviders(env, ok)
  /\ Goto(r, "config")
  /\ UNCHANGED <<tables, phase, env, cached, plain, history>>

\* OAuth.Rebuild swaps in the registry built from them,
Rebuild(r, ok) ==
  /\ At(r, "rebuild")
  /\ registry' = InitProviders(MergedRegistry(env, req[r].rows), ok)
  /\ Goto(r, "config")
  /\ UNCHANGED <<tables, phase, env, cached, plain, history>>

\* and RefreshState reads the configuration,
GetOIDCConfig(r) ==
  /\ At(r, "config")
  /\ req' = [req EXCEPT ![r].pc = "merge", ![r].hash = config.hash,
                        ![r].optOut = config.optOut]
  /\ UNCHANGED <<tables, phase, memory, history>>

\* the rows again,
LoadMerged(r) ==
  /\ At(r, "merge")
  /\ req' = [req EXCEPT ![r].pc = "determine", ![r].rows = rows]
  /\ UNCHANGED <<tables, phase, memory, history>>

\* the registry,
AllProviders(r) ==
  /\ At(r, "determine")
  /\ req' = [req EXCEPT ![r] = [Idle EXCEPT
                !.pc = "cache", !.confirms = req[r].confirms, !.hash = req[r].hash,
                !.state = DetermineBootState(Candidates, req[r].rows, registry, req[r].optOut)]]
  /\ UNCHANGED <<tables, phase, memory, history>>

\* and writes the cache.  Confirm goes on; the others, and Confirm's second
\* refresh, are done.
StoreState(r) ==
  /\ At(r, "cache")
  /\ Cache(req[r].hash, req[r].state)
  /\ IF req[r].confirms THEN Goto(r, "check") ELSE Finish(r)
  /\ clean' = IF clean = "mending" THEN "yes" ELSE clean
  /\ UNCHANGED <<tables, phase, env, registry, plain, minted, crashes, served>>

CurrentState(r) ==
  /\ At(r, "check")
  /\ IF Confirmed(cached.state) THEN Goto(r, "clear") ELSE Finish(r)
  /\ UNCHANGED <<tables, phase, memory, history>>

\* The token has served; that its hash cannot be cleared is only logged.
ClearSetupTokenHash(r) ==
  /\ At(r, "clear")
  /\ config' = [config EXCEPT !.hash = NoToken] \/ UNCHANGED config
  /\ plain' = NoToken
  /\ req' = [req EXCEPT ![r] = [Idle EXCEPT !.pc = "config"]]
  /\ UNCHANGED <<rows, phase, env, registry, cached, history>>

\* A statement fails, or the client has gone: the handler returns.
Fail(r) ==
  /\ phase = "serving"
  /\ req[r].pc \in {"flags", "read", "upsert", "delete", "load", "config", "merge"}
  /\ Finish(r)
  /\ clean' = "no"
  /\ UNCHANGED <<tables, phase, memory, minted, opened, crashes, served>>

-----------------------------------------------------------------------------
Step(r) ==
  \/ \E p \in Provider : SetOIDCProviderEnabled(r, p)
  \/ \E ok \in SUBSET Provider : Rebuild(r, ok)
  \/ UpdateOIDCConfig(r) \/ GetOIDCProvider(r) \/ UpsertOIDCProvider(r) \/ DeleteOIDCProvider(r)
  \/ ListOIDCProviders(r) \/ GetOIDCConfig(r) \/ LoadMerged(r) \/ AllProviders(r)
  \/ StoreState(r) \/ CurrentState(r) \/ ClearSetupTokenHash(r) \/ Fail(r)

Next ==
  \/ \E ok \in SUBSET Provider : Boot(ok)
  \/ EnsureSetupToken \/ MintSetupToken \/ Crash
  \/ \E r \in Request, wanted \in SUBSET Provider, optOut \in BOOLEAN : Confirm(r, wanted, optOut)
  \/ \E r \in Request, p \in Provider, change \in Edit : Update(r, p, change) \/ Create(r, p, change)
  \/ \E r \in Request, p \in Provider : Revert(r, p)
  \/ \E r \in Request : Step(r)

Spec == Init /\ [][Next]_vars

-----------------------------------------------------------------------------
(* Properties                                                              *)

Rows == [Provider -> Row \cup {None}]

Req == [pc: {"idle", "flags", "read", "upsert", "delete", "load", "rebuild", "config", "merge",
             "determine", "cache", "check", "clear"},
        id: Provider \cup {None}, change: Change \cup {None}, row: Row \cup {None}, rows: Rows,
        wanted: SUBSET Provider, left: SUBSET Provider, optOut: BOOLEAN, confirms: BOOLEAN,
        hash: Nat, state: State]

\* Every value has its type, and a request that edits a row knows which and how.
TypeOK ==
  /\ config \in [optOut: BOOLEAN, hash: Nat]
  /\ rows \in Rows
  /\ phase \in {"down", "ensure", "mint", "serving"}
  /\ env \in Configuration
  /\ registry \in [Provider -> Registered \cup {None}]
  /\ cached \in [hash: Nat, state: State]
  /\ plain \in Nat /\ minted \in Nat /\ crashes \in Nat /\ served \in Nat
  /\ opened \in {"never", "before", "now"}
  /\ clean \in {"yes", "no", "mending"}
  /\ req \in [Request -> Req]
  /\ \A r \in Request :
       /\ req[r].pc \in {"read", "upsert", "delete"} => req[r].id \in Provider
       /\ req[r].pc = "read" => req[r].change \in Change
       /\ req[r].pc = "upsert" => req[r].row \in Row

\* EnsureSetupToken's invariant, while requests are served: at most one setup
\* token is live, the newest.  Neither the table nor the cache nor a refresh
\* under way has the hash of an older one, which nobody can look up any more.
OneLiveToken ==
  phase = "serving" =>
    /\ config.hash \in {NoToken, minted}
    /\ cached.hash \in {NoToken, minted}
    /\ \A r \in Request : req[r].hash \in {NoToken, minted}

\* As long as the gate has not opened since the boot, the operator can get in:
\* the token that was shown is the one the table, the cache and the loopback
\* endpoint have, whatever requests have run, failed or interleaved meanwhile,
\* and however the process before this one ended.
OnboardingOpen ==
  phase = "serving" /\ opened # "now" =>
    /\ ~Confirmed(cached.state)
    /\ plain # NoToken
    /\ plain = minted
    /\ config.hash = plain
    /\ cached.hash = plain

Quiet == phase = "serving" /\ \A r \in Request : req[r].pc = "idle"

\* What the server uses is what the tables say, once no request runs: the
\* registry is the merged one, the cached state is that of the tables and the
\* registry.  Requests that overlapped or failed half-way may leave them apart,
\* with rows written and the registry of before, or the older of two registries
\* or states in place; then the next request that rebuilds and refreshes while
\* no other runs brings both up to date, whatever the ones before it left.  A
\* Confirm whose clearing of the token fails leaves nothing to mend.
SavedIsServed ==
  Quiet /\ clean = "yes" =>
    /\ \A p \in Provider :
         IF registry[p] = None THEN MergedRegistry(env, rows)[p] = None
         ELSE registry[p].provider = MergedRegistry(env, rows)[p]
    /\ cached.hash = config.hash
    /\ cached.state = DetermineBootState(Candidates, rows, registry, config.optOut)

\* After a boot a provider is served iff its row does not disable it and each
\* required field has a value, and each value is that of the row, else of the
\* environment, else the default: although the rows are merged twice, into
\* EnvRegistry and again when OAuth is rebuilt.
Precedence(p, f) ==
  IF rows[p] # None /\ rows[p].fields[f] # None THEN rows[p].fields[f]
  ELSE IF Environ[p][ClientID] # None /\ Environ[p][f] # None THEN Environ[p][f]
  ELSE Default[p][f]

BootFollowsPrecedence ==
  phase \in {"ensure", "mint"} =>
    \A p \in Provider :
      IF registry[p] # None
        THEN registry[p].provider = [f \in Field |-> Precedence(p, f)]
        ELSE \/ ~MergedEnabled(rows[p])
             \/ \E f \in Required : Precedence(p, f) = None

\* oidc_providers.go: "The DB row is removed; env + well-known defaults take
\* over on the next merge."  The code refutes it after a restart.
RevertRestoresEnv ==
  Quiet /\ clean = "yes" =>
    \A p \in Provider : rows[p] = None =>
      IF registry[p] = None THEN LoadProviders[p] = None
      ELSE registry[p].provider = LoadProviders[p]

=============================================================================
