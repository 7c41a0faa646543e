------------------------ MODULE OidcConfigProofs ------------------------
(***************************************************************************)
(* What OidcConfig promises, proved for any providers, fields, edits and   *)
(* number of requests in flight.                                           *)
(*                                                                         *)
(* First the merge: both merges of a boot give what one would.  Then the   *)
(* invariants.  Each needs to know where the requests are: TokenOK says    *)
(* what they hold of the setup token, ServedOK how far a request that runs *)
(* alone has brought registry and cache, BootOK what a boot leaves behind. *)
(***************************************************************************)
EXTENDS OidcConfig, TLAPS

-----------------------------------------------------------------------------
(* The merge                                                               *)

LEMMA LoadType == LoadProviders \in Configuration
  BY ProviderMergeAssumption DEF LoadProviders, Configuration, Layer, First

LEMMA FieldsType ==
  ASSUME NEW p \in Provider, NEW e \in Layer \cup {None}, NEW row \in Row \cup {None}
  PROVE  MergeFields(p, e, row) \in Layer
<1>1. \A f \in Field : /\ Of(e, f) \in Text \cup {None}
                       /\ Of(Override(row), f) \in Text \cup {None}
                       /\ Default[p][f] \in Text \cup {None}
  BY ProviderMergeAssumption DEF Of, Override, Layer, Row
<1>2. QED
  BY <1>1 DEF MergeFields, First, Layer

LEMMA MergedType ==
  ASSUME NEW e \in Configuration, NEW rs \in Rows
  PROVE  MergedRegistry(e, rs) \in Configuration
<1>1. \A p \in Provider : e[p] \in Layer \cup {None} /\ rs[p] \in Row \cup {None}
  BY DEF Configuration, Rows
<1>2. \A p \in Provider : LoadMergedProviders(e, rs)[p] \in Layer \cup {None}
  BY <1>1, FieldsType DEF LoadMergedProviders
<1>3. QED
  BY <1>2 DEF MergedRegistry, Configuration

LEMMA InitType ==
  ASSUME NEW c \in Configuration, NEW ok \in SUBSET Provider
  PROVE  InitProviders(c, ok) \in [Provider -> Registered \cup {None}]
  BY DEF InitProviders, Configuration, Registered

LEMMA EditType ==
  ASSUME NEW row \in Row \cup {None}, NEW change \in Change
  PROVE  EditRow(row, change) \in Row
<1>1. \A f \in Field : Of(Override(row), f) \in Text \cup {None}
  BY ProviderMergeAssumption DEF Of, Override, Row, Layer
<1>2. MergedEnabled(row) \in BOOLEAN
  BY ProviderMergeAssumption DEF MergedEnabled, Row
<1>3. QED
  BY <1>1, <1>2 DEF EditRow, Change, Row, Layer

LEMMA StateType ==
  ASSUME NEW c \in SUBSET Provider, NEW rs, NEW states, NEW o \in BOOLEAN
  PROVE  DetermineBootState(c, rs, states, o) \in State
  BY DEF DetermineBootState, State

\* A field of the merge of a provider that is enabled.
LEMMA MergedField ==
  ASSUME NEW e \in Configuration, NEW rs \in Rows, NEW p \in Provider,
         MergedRegistry(e, rs)[p] # None
  PROVE  /\ MergedRegistry(e, rs)[p] = MergeFields(p, e[p], rs[p])
         /\ MergedEnabled(rs[p]) /\ Viable(MergeFields(p, e[p], rs[p]))
         /\ e[p] # None \/ rs[p] # None
  BY DEF MergedRegistry, LoadMergedProviders, Viable

\* What precedence says, and what the environment and the row come to.
LEMMA OneMerge ==
  ASSUME NEW rs \in Rows, rows = rs, NEW p \in Provider, NEW f \in Field
  PROVE  MergeFields(p, LoadProviders[p], rs[p])[f] = Precedence(p, f)
<1>1. CASE LoadProviders[p] = None
  BY <1>1, ProviderMergeAssumption
  DEF MergeFields, Precedence, First, Of, Override, LoadProviders, Layer, Rows, Row
<1>2. CASE LoadProviders[p] # None
  <2>1. /\ Environ[p][ClientID] # None
        /\ Of(LoadProviders[p], f) = First(Environ[p][f], Default[p][f])
    BY <1>2 DEF LoadProviders, Of
  <2>2. MergeFields(p, LoadProviders[p], rs[p])[f]
          = First(Of(Override(rs[p]), f), First(First(Environ[p][f], Default[p][f]), Default[p][f]))
    BY <2>1 DEF MergeFields
  <2>3. Of(Override(rs[p]), f) = IF rs[p] = None THEN None ELSE rs[p].fields[f]
    BY ProviderMergeAssumption DEF Of, Override, Rows, Row
  <2>4. QED
    BY <2>1, <2>2, <2>3 DEF Precedence, First
<1>3. QED
  BY <1>1, <1>2

\* Merging the rows onto a configuration they have been merged into already
\* changes nothing.
THEOREM MergedTwice ==
  ASSUME NEW e \in Configuration, NEW rs \in Rows
  PROVE  MergedRegistry(MergedRegistry(e, rs), rs) = MergedRegistry(e, rs)
<1> DEFINE once == MergedRegistry(e, rs)
           twice == MergedRegistry(once, rs)
<1>1. once \in Configuration /\ twice \in Configuration
  BY MergedType
<1>2. ASSUME NEW p \in Provider
      PROVE  twice[p] = once[p]
  <2>0. e[p] \in Layer \cup {None} /\ rs[p] \in Row \cup {None}
    BY DEF Configuration, Rows
  <2>1. CASE once[p] # None
    <3>1. once[p] = MergeFields(p, e[p], rs[p]) /\ MergedEnabled(rs[p]) /\ Viable(once[p])
      BY <2>1, MergedField
    <3>2. \A f \in Field : MergeFields(p, once[p], rs[p])[f] = once[p][f]
      BY <2>1, <3>1 DEF MergeFields, First, Of
    <3>3. MergeFields(p, once[p], rs[p]) = once[p]
      BY <2>0, <3>1, <3>2, FieldsType DEF Layer
    <3>4. twice[p] = IF MergedEnabled(rs[p]) /\ Viable(MergeFields(p, once[p], rs[p]))
                       THEN MergeFields(p, once[p], rs[p]) ELSE None
      BY <2>1 DEF MergedRegistry, LoadMergedProviders
    <3>5. QED
      BY <3>1, <3>3, <3>4
  <2>2. CASE once[p] = None /\ twice[p] # None
    <3>1. /\ MergedEnabled(rs[p]) /\ rs[p] # None
          /\ Viable(MergeFields(p, None, rs[p]))
      BY <1>1, <2>2, MergedField
    <3>2. \A f \in Field : MergeFields(p, None, rs[p])[f] # None
                             => MergeFields(p, e[p], rs[p])[f] # None
      BY DEF MergeFields, First, Of
    <3>3. MergeFields(p, e[p], rs[p]) \in Layer
      BY <2>0, FieldsType
    <3>4. Viable(MergeFields(p, e[p], rs[p]))
      BY <3>1, <3>2, <3>3, ProviderMergeAssumption DEF Viable
    <3>5. once[p] = MergeFields(p, e[p], rs[p])
      BY <3>1, <3>4 DEF MergedRegistry, LoadMergedProviders
    <3>6. QED
      BY <2>2, <3>3, <3>5, ProviderMergeAssumption
  <2>3. CASE once[p] = None /\ twice[p] = None
    BY <2>3
  <2>4. QED
    BY <2>1, <2>2, <2>3
<1>3. QED
  BY <1>1, <1>2 DEF Configuration

-----------------------------------------------------------------------------
(* Types                                                                   *)

\* What TypeOK says of one request.
RequestOK(q) ==
  /\ q.pc \in {"read", "upsert", "delete"} => q.id \in Provider
  /\ q.pc = "read" => q.change \in Change
  /\ q.pc = "upsert" => q.row \in Row

LEMMA NoConfigurationType == NoConfiguration \in Configuration /\ NoConfiguration \in Rows
  BY DEF NoConfiguration, Configuration, Rows

LEMMA IdleType == Idle \in Req /\ RequestOK(Idle)
  BY NoConfigurationType DEF Idle, Req, State, NoToken, RequestOK

LEMMA RequestType ==
  ASSUME TypeOK, NEW r \in Request
  PROVE  req[r] \in Req /\ RequestOK(req[r])
  BY DEF TypeOK, RequestOK

\* One request moves on.
LEMMA RequestsType ==
  ASSUME TypeOK, NEW r \in Request, NEW next \in Req, RequestOK(next),
         req' = [req EXCEPT ![r] = next]
  PROVE  /\ req' \in [Request -> Req]
         /\ \A q \in Request : RequestOK(req'[q])
  BY DEF TypeOK, RequestOK

\* What is left to show for TypeOK, when only one request and the memory of the
\* server change, or the tables.
LEMMA TypeNext ==
  ASSUME req' \in [Request -> Req], \A q \in Request : RequestOK(req'[q]),
         config' \in [optOut: BOOLEAN, hash: Nat], rows' \in Rows,
         phase' \in {"down", "ensure", "mint", "serving"}, env' \in Configuration,
         registry' \in [Provider -> Registered \cup {None}],
         cached' \in [hash: Nat, state: State], plain' \in Nat, minted' \in Nat,
         crashes' \in Nat, served' \in Nat, opened' \in {"never", "before", "now"},
         clean' \in {"yes", "no", "mending"}
  PROVE  TypeOK'
  BY DEF TypeOK, RequestOK

LEMMA BootType ==
  ASSUME TypeOK, \/ \E ok \in SUBSET Provider : Boot(ok)
                 \/ EnsureSetupToken \/ MintSetupToken \/ Crash
  PROVE  TypeOK'
<1>1. req' \in [Request -> Req] /\ \A q \in Request : RequestOK(req'[q])
  BY IdleType, RequestType DEF Boot, EnsureSetupToken, MintSetupToken, Crash, TypeOK
<1>2. ASSUME NEW ok \in SUBSET Provider, Boot(ok)
      PROVE  TypeOK'
  <2>1. /\ env' = MergedRegistry(LoadProviders, rows)
        /\ registry' = InitProviders(MergedRegistry(env', rows), ok)
        /\ cached'.hash = config.hash
        /\ cached' = [hash |-> config.hash,
                      state |-> DetermineBootState({p \in Provider : env'[p] # None}, rows,
                                                   registry', config.optOut)]
        /\ opened' \in {"now", "never", "before"} /\ clean' = "yes" /\ phase' = "ensure"
        /\ UNCHANGED <<config, rows, plain, minted, crashes, served>>
    BY <1>2 DEF Boot, tables
  <2>2. env' \in Configuration /\ rows \in Rows
    BY <2>1, LoadType, MergedType DEF TypeOK
  <2>3. registry' \in [Provider -> Registered \cup {None}]
    BY <2>1, <2>2, MergedType, InitType
  <2>4. config.hash \in Nat /\ config.optOut \in BOOLEAN
    BY DEF TypeOK
  <2>5. cached' \in [hash: Nat, state: State]
    <3>1. DetermineBootState({p \in Provider : env'[p] # None}, rows, registry', config.optOut)
            \in State
      BY <2>4, StateType
    <3>2. QED
      BY <2>1, <2>4, <3>1
  <2>6. QED
    BY <1>1, <2>1, <2>2, <2>3, <2>5, TypeNext DEF TypeOK
<1>3. ASSUME EnsureSetupToken
      PROVE  TypeOK'
  BY <1>1, <1>3, TypeNext DEF EnsureSetupToken, TypeOK, memory, history, NoToken
<1>4. ASSUME MintSetupToken
      PROVE  TypeOK'
  BY <1>1, <1>4, TypeNext DEF MintSetupToken, TypeOK
<1>5. ASSUME Crash
      PROVE  TypeOK'
  <2>1. /\ registry' = NoConfiguration /\ env' = NoConfiguration /\ cached' = NoCache
        /\ plain' = 0 /\ phase' = "down" /\ crashes' = crashes + 1
        /\ UNCHANGED <<config, rows, minted, opened, clean, served>>
    BY <1>5 DEF Crash, tables, NoToken
  <2>2. registry' \in [Provider -> Registered \cup {None}] /\ env' \in Configuration
    BY <2>1, NoConfigurationType DEF NoConfiguration
  <2>3. cached' \in [hash: Nat, state: State]
    BY <2>1 DEF NoCache, NoToken, State
  <2>4. QED
    BY <1>1, <2>1, <2>2, <2>3, TypeNext DEF TypeOK
<1>6. QED
  BY <1>2, <1>3, <1>4, <1>5

\* The first step of a request.
LEMMA StartType ==
  ASSUME TypeOK, NEW r \in Request,
         \/ \E wanted \in SUBSET Provider, optOut \in BOOLEAN : Confirm(r, wanted, optOut)
         \/ \E p \in Provider, change \in Edit : Update(r, p, change) \/ Create(r, p, change)
         \/ \E p \in Provider : Revert(r, p)
  PROVE  TypeOK'
<1>1. \E next \in Req : RequestOK(next) /\ Start(r, next)
  <2>1. ASSUME NEW wanted \in SUBSET Provider, NEW optOut \in BOOLEAN,
               Confirm(r, wanted, optOut)
        PROVE  \E next \in Req : RequestOK(next) /\ Start(r, next)
    <3>1. PICK next : next = [Idle EXCEPT !.pc = "flags", !.left = Candidates, !.confirms = TRUE,
                          !.wanted = wanted \cap Candidates,
                          !.optOut = optOut \/ Candidates = {}]
      OBVIOUS
    <3>2. Candidates \in SUBSET Provider
      BY DEF Candidates
    <3>3. next \in Req /\ next.pc = "flags"
      BY <3>1, <3>2, NoConfigurationType DEF Idle, Req, State, NoToken
    <3>4. QED
      BY <2>1, <3>1, <3>3 DEF Confirm, RequestOK
  <2>2. ASSUME NEW p \in Provider, NEW change \in Edit, Update(r, p, change)
        PROVE  \E next \in Req : RequestOK(next) /\ Start(r, next)
    <3>1. PICK next : next = [Idle EXCEPT !.pc = "read", !.id = p, !.change = change]
      OBVIOUS
    <3>2. change \in Change
      BY OidcConfigAssumption
    <3>3. next \in Req /\ next.pc = "read" /\ next.id = p /\ next.change = change
      BY <3>1, <3>2, NoConfigurationType DEF Idle, Req, State, NoToken
    <3>4. QED
      BY <2>2, <3>1, <3>2, <3>3 DEF Update, RequestOK
  <2>3. ASSUME NEW p \in Provider, Revert(r, p)
        PROVE  \E next \in Req : RequestOK(next) /\ Start(r, next)
    <3>1. PICK next : next = [Idle EXCEPT !.pc = "delete", !.id = p]
      OBVIOUS
    <3>2. next \in Req /\ next.pc = "delete" /\ next.id = p
      BY <3>1, NoConfigurationType DEF Idle, Req, State, NoToken
    <3>3. QED
      BY <2>3, <3>1, <3>2 DEF Revert, RequestOK
  <2>4. QED
    BY <2>1, <2>2, <2>3 DEF Create
<1>2. PICK next \in Req : RequestOK(next) /\ Start(r, next)
  BY <1>1
<1>3. /\ req' = [req EXCEPT ![r] = next] /\ served' = served + 1
      /\ UNCHANGED <<config, rows, phase, env, registry, cached, plain, minted, opened, crashes>>
  BY <1>2 DEF Start, tables, memory
<1>4. clean' \in {"yes", "no", "mending"}
  BY <1>2 DEF Start, TypeOK
<1>5. req' \in [Request -> Req] /\ \A q \in Request : RequestOK(req'[q])
  BY <1>2, <1>3, RequestsType
<1>6. /\ config' \in [optOut: BOOLEAN, hash: Nat] /\ rows' \in Rows
      /\ phase' \in {"down", "ensure", "mint", "serving"} /\ env' \in Configuration
      /\ registry' \in [Provider -> Registered \cup {None}]
      /\ cached' \in [hash: Nat, state: State] /\ plain' \in Nat /\ minted' \in Nat
      /\ crashes' \in Nat /\ served' \in Nat /\ opened' \in {"never", "before", "now"}
  BY <1>3 DEF TypeOK
<1>7. QED
  BY <1>4, <1>5, <1>6, TypeNext

\* A step in which request r moves on to next, and a part of the server with it.
LEMMA StepType ==
  ASSUME TypeOK, NEW r \in Request, Step(r)
  PROVE  TypeOK'
<1>0. req[r] \in Req /\ RequestOK(req[r])
  BY RequestType
<1>1. ASSUME NEW p \in Provider, SetOIDCProviderEnabled(r, p)
      PROVE  TypeOK'
  <2> PICK next, row :
        /\ next = [req[r] EXCEPT !.left = @ \ {p}]
        /\ row = [fields |-> IF rows[p] = None THEN [f \in Field |-> None] ELSE rows[p].fields,
                  enabled |-> p \in req[r].wanted]
    OBVIOUS
  <2>1. /\ req' = [req EXCEPT ![r] = next] /\ rows' = [rows EXCEPT ![p] = row]
        /\ UNCHANGED <<config, phase, env, registry, cached, plain, minted, opened, clean,
                       crashes, served>>
    BY <1>1 DEF SetOIDCProviderEnabled, memory, history
  <2>2. next \in Req /\ RequestOK(next)
    BY <1>0 DEF Req, RequestOK
  <2>3. row \in Row
    BY DEF TypeOK, Rows, Row, Layer
  <2>4. rows' \in Rows
    BY <2>1, <2>3 DEF TypeOK, Rows
  <2>5. QED
    BY <2>1, <2>2, <2>4, RequestsType, TypeNext DEF TypeOK
<1>2. ASSUME NEW ok \in SUBSET Provider, Rebuild(r, ok)
      PROVE  TypeOK'
  <2> PICK next : next = [Idle EXCEPT !.pc = "config", !.confirms = req[r].confirms]
    OBVIOUS
  <2>1. /\ req' = [req EXCEPT ![r] = next]
        /\ registry' = InitProviders(MergedRegistry(env, req[r].rows), ok)
        /\ UNCHANGED <<config, rows, phase, env, cached, plain, minted, opened, clean,
                       crashes, served>>
    BY <1>2 DEF Rebuild, Goto, tables, history
  <2>2. next \in Req /\ RequestOK(next)
    BY <1>0, NoConfigurationType DEF Req, RequestOK, Idle, NoToken, State
  <2>3. registry' \in [Provider -> Registered \cup {None}]
    BY <1>0, <2>1, MergedType, InitType DEF TypeOK, Req
  <2>4. QED
    BY <2>1, <2>2, <2>3, RequestsType, TypeNext DEF TypeOK
<1>3. ASSUME GetOIDCProvider(r)
      PROVE  TypeOK'
  <2> PICK next, row : /\ row = EditRow(rows[req[r].id], req[r].change)
                       /\ next = [Idle EXCEPT !.pc = "upsert", !.id = req[r].id, !.row = row]
    OBVIOUS
  <2>1. /\ req[r].pc = "read" /\ req' = [req EXCEPT ![r] = next]
        /\ UNCHANGED <<config, rows, phase, env, registry, cached, plain, minted, opened, clean,
                       crashes, served>>
    BY <1>3 DEF GetOIDCProvider, At, tables, memory, history
  <2>2. req[r].id \in Provider /\ req[r].change \in Change
    BY <1>0, <2>1 DEF RequestOK
  <2>3. row \in Row
    BY <2>2, EditType DEF TypeOK, Rows
  <2>4. next \in Req /\ next.pc = "upsert" /\ next.id = req[r].id /\ next.row = row
    BY <2>2, <2>3, NoConfigurationType DEF Req, Idle, NoToken, State
  <2>5. RequestOK(next)
    BY <2>2, <2>3, <2>4 DEF RequestOK
  <2>6. QED
    BY <2>1, <2>4, <2>5, RequestsType, TypeNext DEF TypeOK
<1>4. ASSUME UpdateOIDCConfig(r) \/ UpsertOIDCProvider(r) \/ DeleteOIDCProvider(r)
      PROVE  TypeOK'
  <2> PICK next : next = [Idle EXCEPT !.pc = "load", !.confirms = req[r].confirms]
    OBVIOUS
  <2>1. /\ req' = [req EXCEPT ![r] = next]
        /\ UNCHANGED <<phase, env, registry, cached, plain, minted, opened, clean,
                       crashes, served>>
    BY <1>4 DEF UpdateOIDCConfig, UpsertOIDCProvider, DeleteOIDCProvider, Goto, memory, history
  <2>2. next \in Req /\ RequestOK(next)
    BY <1>0, NoConfigurationType DEF Req, RequestOK, Idle, NoToken, State
  <2>3. config' \in [optOut: BOOLEAN, hash: Nat]
    BY <1>0, <1>4 DEF UpdateOIDCConfig, UpsertOIDCProvider, DeleteOIDCProvider, TypeOK, Req
  <2>4. rows' \in Rows
    BY <1>0, <1>4
    DEF UpdateOIDCConfig, UpsertOIDCProvider, DeleteOIDCProvider, At, TypeOK, Rows, RequestOK
  <2>5. QED
    BY <2>1, <2>2, <2>3, <2>4, RequestsType, TypeNext DEF TypeOK
<1>5. ASSUME ListOIDCProviders(r) \/ GetOIDCConfig(r) \/ LoadMerged(r) \/ AllProviders(r)
      PROVE  TypeOK'
  <2>0. /\ UNCHANGED <<config, rows, phase, env, registry, cached, plain, minted, opened,
                       crashes, served>>
        /\ clean' \in {clean, "mending"}
    BY <1>5 DEF ListOIDCProviders, GetOIDCConfig, LoadMerged, AllProviders, tables, memory, history
  <2>1. \E next \in Req : RequestOK(next) /\ req' = [req EXCEPT ![r] = next]
    <3>1. ASSUME ListOIDCProviders(r)
          PROVE  \E next \in Req : RequestOK(next) /\ req' = [req EXCEPT ![r] = next]
      <4> PICK next : next = [req[r] EXCEPT !.pc = "rebuild", !.rows = rows]
        OBVIOUS
      <4>1. next \in Req /\ RequestOK(next)
        BY <1>0 DEF Req, RequestOK, TypeOK
      <4>2. QED
        BY <3>1, <4>1 DEF ListOIDCProviders
    <3>2. ASSUME GetOIDCConfig(r)
          PROVE  \E next \in Req : RequestOK(next) /\ req' = [req EXCEPT ![r] = next]
      <4> PICK next : next = [req[r] EXCEPT !.pc = "merge", !.hash = config.hash,
                                            !.optOut = config.optOut]
        OBVIOUS
      <4>1. next \in Req /\ RequestOK(next)
        BY <1>0 DEF Req, RequestOK, TypeOK
      <4>2. QED
        BY <3>2, <4>1 DEF GetOIDCConfig
    <3>3. ASSUME LoadMerged(r)
          PROVE  \E next \in Req : RequestOK(next) /\ req' = [req EXCEPT ![r] = next]
      <4> PICK next : next = [req[r] EXCEPT !.pc = "determine", !.rows = rows]
        OBVIOUS
      <4>1. next \in Req /\ RequestOK(next)
        BY <1>0 DEF Req, RequestOK, TypeOK
      <4>2. QED
        BY <3>3, <4>1 DEF LoadMerged
    <3>4. ASSUME AllProviders(r)
          PROVE  \E next \in Req : RequestOK(next) /\ req' = [req EXCEPT ![r] = next]
      <4> PICK next, state :
            /\ state = DetermineBootState(Candidates, req[r].rows, registry, req[r].optOut)
            /\ next = [Idle EXCEPT !.pc = "cache", !.confirms = req[r].confirms,
                                   !.hash = req[r].hash, !.state = state]
        OBVIOUS
      <4>1. state \in State
        BY <1>0, StateType DEF Req, Candidates
      <4>2. next \in Req /\ RequestOK(next)
        BY <1>0, <4>1, NoConfigurationType DEF Req, RequestOK, Idle, NoToken
      <4>3. QED
        BY <3>4, <4>2 DEF AllProviders
    <3>5. QED
      BY <1>5, <3>1, <3>2, <3>3, <3>4
  <2>2. QED
    BY <2>0, <2>1, RequestsType, TypeNext DEF TypeOK
<1>6. ASSUME StoreState(r) \/ CurrentState(r) \/ ClearSetupTokenHash(r) \/ Fail(r)
      PROVE  TypeOK'
  <2>1. /\ UNCHANGED <<rows, phase, env, registry, minted, crashes, served>>
        /\ plain' = plain \/ plain' = 0
        /\ clean' \in {clean, "yes", "no"}
        /\ config' = config \/ config' = [config EXCEPT !.hash = 0]
    BY <1>6 DEF StoreState, CurrentState, ClearSetupTokenHash, Fail, tables, memory, history, NoToken
  <2>2. cached' \in [hash: Nat, state: State] /\ opened' \in {"never", "before", "now"}
    <3>1. CASE StoreState(r)
      <4>1. cached' = [hash |-> req[r].hash, state |-> req[r].state]
            /\ opened' \in {opened, "now"}
        BY <3>1 DEF StoreState, Cache
      <4>2. QED
        BY <1>0, <4>1 DEF Req, TypeOK
    <3>2. CASE ~StoreState(r)
      <4>1. UNCHANGED <<cached, opened>>
        BY <1>6, <3>2 DEF CurrentState, ClearSetupTokenHash, Fail, memory, history
      <4>2. QED
        BY <4>1 DEF TypeOK
    <3>3. QED
      BY <3>1, <3>2
  <2>3. PICK step \in {"check", "clear", "config"}, c \in BOOLEAN :
          \/ req' = [req EXCEPT ![r] = Idle]
          \/ req' = [req EXCEPT ![r] = [Idle EXCEPT !.pc = step, !.confirms = c]]
          \/ req' = [req EXCEPT ![r] = [Idle EXCEPT !.pc = step]]
    <3>1. req[r].confirms \in BOOLEAN
      BY <1>0 DEF Req
    <3>2. \/ req' = [req EXCEPT ![r] = Idle]
          \/ \E step \in {"check", "clear"} :
               req' = [req EXCEPT ![r] = [Idle EXCEPT !.pc = step, !.confirms = req[r].confirms]]
          \/ req' = [req EXCEPT ![r] = [Idle EXCEPT !.pc = "config"]]
      BY <1>6 DEF StoreState, CurrentState, ClearSetupTokenHash, Fail, Finish, Goto
    <3>3. QED
      BY <3>1, <3>2
  <2>4. PICK next \in {Idle, [Idle EXCEPT !.pc = step, !.confirms = c], [Idle EXCEPT !.pc = step]} :
          req' = [req EXCEPT ![r] = next]
    BY <2>3
  <2>4a. next \in Req /\ RequestOK(next)
    BY IdleType, NoConfigurationType DEF Req, RequestOK, Idle, NoToken, State
  <2>5. req' \in [Request -> Req] /\ \A q \in Request : RequestOK(req'[q])
    BY <2>4, <2>4a, RequestsType
  <2>6. clean' \in {"yes", "no", "mending"}
    BY <2>1 DEF TypeOK
  <2>7. config' \in [optOut: BOOLEAN, hash: Nat] /\ plain' \in Nat
    BY <2>1 DEF TypeOK
  <2>8. QED
    BY <2>1, <2>2, <2>5, <2>6, <2>7, TypeNext DEF TypeOK
<1>7. QED
  BY <1>1, <1>2, <1>3, <1>4, <1>5, <1>6 DEF Step

LEMMA InitTyped == Init => TypeOK
  BY IdleType, NoConfigurationType
  DEF Init, TypeOK, RequestOK, NoCache, NoToken, State, NoConfiguration

LEMMA NextTyped == TypeOK /\ [Next]_vars => TypeOK'
<1> SUFFICES ASSUME TypeOK, [Next]_vars
             PROVE  TypeOK'
  OBVIOUS
<1>1. CASE UNCHANGED vars
  BY <1>1 DEF vars, tables, memory, history, TypeOK
<1>2. CASE Next
  BY <1>2, BootType, StartType, StepType DEF Next
<1>3. QED
  BY <1>1, <1>2

\* Every value has its type: of rows, of the merged configuration, of the state
\* and of what each request has read.
THEOREM TypeCorrect == Spec => []TypeOK
  BY InitTyped, NextTyped, PTL DEF Spec

-----------------------------------------------------------------------------
(* The setup token                                                         *)

\* What a request holds of the token, as long as the gate has not opened.
HoldsToken(q) ==
  /\ q.pc \in {"merge", "determine", "cache"} => q.hash = plain
  /\ q.pc # "clear"

\* What OneLiveToken and OnboardingOpen need to be inductive.
GateOK ==
  /\ phase # "serving" =>
       /\ plain = NoToken
       /\ \A r \in Request : req[r].pc = "idle" /\ req[r].hash = NoToken
  /\ phase = "ensure" => (Confirmed(cached.state) <=> opened = "now")
  /\ phase = "mint" =>
       config.hash = NoToken /\ ~Confirmed(cached.state) /\ opened # "now"
  /\ phase = "serving" /\ opened # "now" => \A r \in Request : HoldsToken(req[r])

TokenOK == OneLiveToken /\ OnboardingOpen /\ GateOK

LEMMA InitToken == Init => TokenOK
  BY DEF Init, TokenOK, OneLiveToken, OnboardingOpen, GateOK, Idle, NoToken

LEMMA BootToken ==
  ASSUME TypeOK, TokenOK,
         \/ \E ok \in SUBSET Provider : Boot(ok)
         \/ EnsureSetupToken \/ MintSetupToken \/ Crash
  PROVE  TokenOK'
<1>1. ASSUME NEW ok \in SUBSET Provider, Boot(ok)
      PROVE  TokenOK'
  <2>1. /\ phase = "down" /\ phase' = "ensure" /\ UNCHANGED <<plain, req>>
        /\ opened' = IF Confirmed(cached'.state) THEN "now"
                     ELSE IF opened = "never" THEN "never" ELSE "before"
    BY <1>1 DEF Boot
  <2>2. Confirmed(cached'.state) <=> opened' = "now"
    BY <2>1
  <2>3. QED
    BY <2>1, <2>2 DEF TokenOK, OneLiveToken, OnboardingOpen, GateOK, Confirmed
<1>2. ASSUME EnsureSetupToken
      PROVE  TokenOK'
  <2>1. /\ phase = "ensure" /\ config'.hash = NoToken /\ UNCHANGED <<plain, opened, minted, req>>
        /\ IF Confirmed(cached.state) THEN cached'.hash = NoToken /\ phase' = "serving"
                                      ELSE cached' = cached /\ phase' = "mint"
    BY <1>2 DEF EnsureSetupToken, TypeOK, history
  <2>2. CASE Confirmed(cached.state)
    BY <2>1, <2>2 DEF TokenOK, OneLiveToken, OnboardingOpen, GateOK
  <2>3. CASE ~Confirmed(cached.state)
    BY <2>1, <2>3 DEF TokenOK, OneLiveToken, OnboardingOpen, GateOK, Confirmed
  <2>4. QED
    BY <2>2, <2>3
<1>3. ASSUME MintSetupToken
      PROVE  TokenOK'
  <2>1. /\ phase = "mint" /\ phase' = "serving" /\ UNCHANGED <<opened, req>>
        /\ minted' = minted + 1 /\ plain' = minted'
        /\ config'.hash = minted' /\ cached'.hash = minted' /\ cached'.state = cached.state
    BY <1>3 DEF MintSetupToken, TypeOK
  <2>2. minted' # NoToken
    BY <2>1 DEF TypeOK, NoToken
  <2>3. \A r \in Request : req'[r].pc = "idle" /\ req'[r].hash = NoToken
    BY <2>1 DEF TokenOK, GateOK
  <2>4. OneLiveToken'
    BY <2>1, <2>3 DEF OneLiveToken
  <2>5. ~Confirmed(cached'.state)
    BY <2>1 DEF TokenOK, GateOK
  <2>6. OnboardingOpen'
    BY <2>1, <2>2, <2>5 DEF OnboardingOpen, Confirmed
  <2>7. GateOK'
    BY <2>1, <2>3 DEF GateOK, HoldsToken
  <2>8. QED
    BY <2>4, <2>6, <2>7 DEF TokenOK
<1>4. ASSUME Crash
      PROVE  TokenOK'
  BY <1>4 DEF Crash, TokenOK, OneLiveToken, OnboardingOpen, GateOK, Idle
<1>5. QED
  BY <1>1, <1>2, <1>3, <1>4

\* A request moves on and leaves the token alone.
LEMMA TokenKept ==
  ASSUME TypeOK, TokenOK, NEW r \in Request, NEW next,
         req' = [req EXCEPT ![r] = next],
         phase = "serving", UNCHANGED <<phase, cached, plain, minted, opened>>,
         config'.hash = config.hash,
         next.hash \in {NoToken, minted},
         opened # "now" => HoldsToken(next)
  PROVE  TokenOK'
<1>1. /\ req'[r] = next
      /\ \A q \in Request \ {r} : req'[q] = req[q]
  BY DEF TypeOK
<1>2. OneLiveToken'
  BY <1>1 DEF TokenOK, OneLiveToken
<1>3. OnboardingOpen'
  BY DEF TokenOK, OnboardingOpen, Confirmed
<1>4. ASSUME opened # "now", NEW q \in Request
      PROVE  HoldsToken(req[q])'
  <2>1. CASE q = r
    BY <1>1, <1>4, <2>1 DEF HoldsToken
  <2>2. CASE q # r
    BY <1>1, <1>4, <2>2 DEF TokenOK, GateOK, HoldsToken
  <2>3. QED
    BY <2>1, <2>2
<1>5. GateOK'
  BY <1>4 DEF GateOK
<1>6. QED
  BY <1>2, <1>3, <1>5 DEF TokenOK

\* A request starts with a step that writes or reads a row.
LEMMA StartsIdle ==
  ASSUME NEW r \in Request,
         \/ \E wanted \in SUBSET Provider, optOut \in BOOLEAN : Confirm(r, wanted, optOut)
         \/ \E p \in Provider, change \in Edit : Update(r, p, change) \/ Create(r, p, change)
         \/ \E p \in Provider : Revert(r, p)
  PROVE  \E next : Start(r, next) /\ next.pc \in {"flags", "read", "delete"}
                                  /\ next.hash = NoToken
<1> DEFINE Starts(next) == Start(r, next) /\ next.pc \in {"flags", "read", "delete"}
                                          /\ next.hash = NoToken
<1>1. ASSUME NEW wanted \in SUBSET Provider, NEW optOut \in BOOLEAN, Confirm(r, wanted, optOut)
      PROVE  \E next : Starts(next)
  <2> PICK next : next = [Idle EXCEPT !.pc = "flags", !.left = Candidates, !.confirms = TRUE,
                          !.wanted = wanted \cap Candidates,
                          !.optOut = optOut \/ Candidates = {}]
    OBVIOUS
  <2>1. Start(r, next)
    BY <1>1 DEF Confirm
  <2>2. next.pc = "flags" /\ next.hash = NoToken
    BY DEF Idle
  <2>3. QED
    BY <2>1, <2>2
<1>2. ASSUME NEW p \in Provider, NEW change \in Edit, Update(r, p, change)
      PROVE  \E next : Starts(next)
  <2> PICK next : next = [Idle EXCEPT !.pc = "read", !.id = p, !.change = change]
    OBVIOUS
  <2>1. Start(r, next)
    BY <1>2 DEF Update
  <2>2. next.pc = "read" /\ next.hash = NoToken
    BY DEF Idle
  <2>3. QED
    BY <2>1, <2>2
<1>3. ASSUME NEW p \in Provider, Revert(r, p)
      PROVE  \E next : Starts(next)
  <2> PICK next : next = [Idle EXCEPT !.pc = "delete", !.id = p]
    OBVIOUS
  <2>1. Start(r, next)
    BY <1>3 DEF Revert
  <2>2. next.pc = "delete" /\ next.hash = NoToken
    BY DEF Idle
  <2>3. QED
    BY <2>1, <2>2
<1>4. QED
  BY <1>1, <1>2, <1>3 DEF Create

LEMMA StartToken ==
  ASSUME TypeOK, TokenOK, NEW r \in Request,
         \/ \E wanted \in SUBSET Provider, optOut \in BOOLEAN : Confirm(r, wanted, optOut)
         \/ \E p \in Provider, change \in Edit : Update(r, p, change) \/ Create(r, p, change)
         \/ \E p \in Provider : Revert(r, p)
  PROVE  TokenOK'
<1>1. PICK next : Start(r, next) /\ next.pc \in {"flags", "read", "delete"} /\ next.hash = NoToken
  BY StartsIdle
<1>2. next.pc \in {"flags", "read", "delete"} /\ next.hash = NoToken
  BY <1>1
<1>3. /\ req' = [req EXCEPT ![r] = next] /\ phase = "serving"
      /\ UNCHANGED <<config, phase, cached, plain, minted, opened>>
  BY <1>1 DEF Start, At, tables, memory
<1>4. QED
  BY <1>2, <1>3, TokenKept DEF HoldsToken

LEMMA StepToken ==
  ASSUME TypeOK, TokenOK, NEW r \in Request, Step(r)
  PROVE  TokenOK'
<1>0. /\ req[r] \in Req /\ phase = "serving" /\ req[r].hash \in {NoToken, minted}
      /\ config.hash \in {NoToken, minted}
      /\ opened # "now" => HoldsToken(req[r]) /\ config.hash = plain
  BY RequestType
  DEF Step, SetOIDCProviderEnabled, Rebuild, UpdateOIDCConfig, GetOIDCProvider,
      UpsertOIDCProvider, DeleteOIDCProvider, ListOIDCProviders, GetOIDCConfig, LoadMerged,
      AllProviders, StoreState, CurrentState, ClearSetupTokenHash, Fail, At,
      TokenOK, OneLiveToken, OnboardingOpen, GateOK
<1>1. ASSUME NEW p \in Provider, SetOIDCProviderEnabled(r, p)
      PROVE  TokenOK'
  <2> PICK next : next = [req[r] EXCEPT !.left = @ \ {p}]
    OBVIOUS
  <2>1. req' = [req EXCEPT ![r] = next] /\ req[r].pc = "flags"
        /\ UNCHANGED <<config, phase, cached, plain, minted, opened>>
    BY <1>1 DEF SetOIDCProviderEnabled, At, memory, history
  <2>2. next.pc = "flags" /\ next.hash = req[r].hash
    BY <1>0, <2>1 DEF Req
  <2>3. QED
    BY <1>0, <2>1, <2>2, TokenKept DEF HoldsToken
<1>2. ASSUME \/ UpdateOIDCConfig(r) \/ UpsertOIDCProvider(r) \/ DeleteOIDCProvider(r)
             \/ \E ok \in SUBSET Provider : Rebuild(r, ok)
      PROVE  TokenOK'
  <2>1. \E step \in {"load", "config"} :
          req' = [req EXCEPT ![r] = [Idle EXCEPT !.pc = step, !.confirms = req[r].confirms]]
    BY <1>2 DEF UpdateOIDCConfig, UpsertOIDCProvider, DeleteOIDCProvider, Rebuild, Goto
  <2>2. PICK step \in {"load", "config"} :
          req' = [req EXCEPT ![r] = [Idle EXCEPT !.pc = step, !.confirms = req[r].confirms]]
    BY <2>1
  <2> PICK next : next = [Idle EXCEPT !.pc = step, !.confirms = req[r].confirms]
    OBVIOUS
  <2>3. UNCHANGED <<phase, cached, plain, minted, opened>> /\ config'.hash = config.hash
    BY <1>2 DEF UpdateOIDCConfig, UpsertOIDCProvider, DeleteOIDCProvider, Rebuild, tables,
                memory, history, TypeOK
  <2>4. next.pc \in {"load", "config"} /\ next.hash = NoToken
    BY DEF Idle
  <2>5. QED
    BY <1>0, <2>2, <2>3, <2>4, TokenKept DEF HoldsToken
<1>3. ASSUME GetOIDCProvider(r)
      PROVE  TokenOK'
  <2> PICK next : next = [Idle EXCEPT !.pc = "upsert", !.id = req[r].id,
                                      !.row = EditRow(rows[req[r].id], req[r].change)]
    OBVIOUS
  <2>1. req' = [req EXCEPT ![r] = next] /\ UNCHANGED <<config, phase, cached, plain, minted, opened>>
    BY <1>3 DEF GetOIDCProvider, tables, memory, history
  <2>2. next.pc = "upsert" /\ next.hash = NoToken
    BY DEF Idle
  <2>3. QED
    BY <1>0, <2>1, <2>2, TokenKept DEF HoldsToken
<1>4. ASSUME ListOIDCProviders(r) \/ LoadMerged(r)
      PROVE  TokenOK'
  <2>1. PICK step \in {"rebuild", "determine"} :
          /\ req' = [req EXCEPT ![r] = [req[r] EXCEPT !.pc = step, !.rows = rows]]
          /\ step = "determine" => req[r].pc = "merge"
    BY <1>4 DEF ListOIDCProviders, LoadMerged, At
  <2> PICK next : next = [req[r] EXCEPT !.pc = step, !.rows = rows]
    OBVIOUS
  <2>2. UNCHANGED <<config, phase, cached, plain, minted, opened>>
    BY <1>4 DEF ListOIDCProviders, LoadMerged, tables, memory, history
  <2>3. next.pc = step /\ next.hash = req[r].hash
    BY <1>0 DEF Req
  <2>4. opened # "now" => HoldsToken(next)
    BY <1>0, <2>1, <2>3 DEF HoldsToken
  <2>5. QED
    BY <1>0, <2>1, <2>2, <2>3, <2>4, TokenKept
<1>5. ASSUME GetOIDCConfig(r)
      PROVE  TokenOK'
  <2> PICK next : next = [req[r] EXCEPT !.pc = "merge", !.hash = config.hash,
                                        !.optOut = config.optOut]
    OBVIOUS
  <2>1. req' = [req EXCEPT ![r] = next] /\ UNCHANGED <<config, phase, cached, plain, minted, opened>>
    BY <1>5 DEF GetOIDCConfig, tables, memory, history
  <2>2. next.pc = "merge" /\ next.hash = config.hash
    BY <1>0 DEF Req
  <2>3. QED
    BY <1>0, <2>1, <2>2, TokenKept DEF HoldsToken
<1>6. ASSUME AllProviders(r)
      PROVE  TokenOK'
  <2> PICK next : next = [Idle EXCEPT
                !.pc = "cache", !.confirms = req[r].confirms, !.hash = req[r].hash,
                !.state = DetermineBootState(Candidates, req[r].rows, registry, req[r].optOut)]
    OBVIOUS
  <2>1. req' = [req EXCEPT ![r] = next] /\ UNCHANGED <<config, phase, cached, plain, minted, opened>>
        /\ req[r].pc = "determine"
    BY <1>6 DEF AllProviders, At, tables, memory, history
  <2>2. next.pc = "cache" /\ next.hash = req[r].hash
    BY DEF Idle
  <2>3. QED
    BY <1>0, <2>1, <2>2, TokenKept DEF HoldsToken
<1>7. ASSUME CurrentState(r) \/ Fail(r)
      PROVE  TokenOK'
  <2>1. PICK step \in {"clear", "idle"} :
          /\ \/ req' = [req EXCEPT ![r] = [Idle EXCEPT !.pc = step, !.confirms = req[r].confirms]]
             \/ req' = [req EXCEPT ![r] = Idle] /\ step = "idle"
          /\ step = "clear" => Confirmed(cached.state)
    BY <1>7 DEF CurrentState, Fail, Goto, Finish
  <2>2. PICK next \in {Idle, [Idle EXCEPT !.pc = step, !.confirms = req[r].confirms]} :
          req' = [req EXCEPT ![r] = next]
    BY <2>1
  <2>3. UNCHANGED <<config, phase, cached, plain, minted, opened>>
    BY <1>7 DEF CurrentState, Fail, tables, memory, history
  <2>4. next.pc \in {"idle", step} /\ next.hash = NoToken
    <3>1. CASE next = Idle
      BY <3>1 DEF Idle
    <3>2. CASE next = [Idle EXCEPT !.pc = step, !.confirms = req[r].confirms]
      BY <3>2 DEF Idle
    <3>3. QED
      BY <3>1, <3>2
  <2>5. step = "clear" => opened = "now"
    BY <1>0, <2>1 DEF TokenOK, OnboardingOpen
  <2>6. QED
    BY <1>0, <2>2, <2>3, <2>4, <2>5, TokenKept DEF HoldsToken
<1>8. ASSUME StoreState(r)
      PROVE  TokenOK'
  <2>1. /\ cached'.hash = req[r].hash /\ cached'.state = req[r].state /\ req[r].pc = "cache"
        /\ opened' = IF Confirmed(cached'.state) THEN "now" ELSE opened
        /\ UNCHANGED <<config, phase, plain, minted>>
    BY <1>8 DEF StoreState, Cache, At, tables
  <2>2. PICK next \in {Idle, [Idle EXCEPT !.pc = "check", !.confirms = req[r].confirms]} :
          req' = [req EXCEPT ![r] = next]
    BY <1>8 DEF StoreState, Goto, Finish
  <2>3. next.pc \in {"idle", "check"} /\ next.hash = NoToken
    <3>1. CASE next = Idle
      BY <3>1 DEF Idle
    <3>2. CASE next = [Idle EXCEPT !.pc = "check", !.confirms = req[r].confirms]
      BY <3>2 DEF Idle
    <3>3. QED
      BY <2>2, <3>1, <3>2
  <2>4. /\ req'[r] = next
        /\ \A q \in Request \ {r} : req'[q] = req[q]
    BY <2>2 DEF TypeOK
  <2>5. OneLiveToken'
    BY <1>0, <2>1, <2>3, <2>4 DEF TokenOK, OneLiveToken
  <2>6. opened' # "now" => opened # "now" /\ ~Confirmed(cached'.state)
    BY <2>1
  <2>7. OnboardingOpen'
    BY <1>0, <2>1, <2>6 DEF TokenOK, OnboardingOpen, HoldsToken, Confirmed
  <2>8. GateOK'
    BY <1>0, <2>1, <2>3, <2>4, <2>6 DEF TokenOK, GateOK, HoldsToken
  <2>9. QED
    BY <2>5, <2>7, <2>8 DEF TokenOK
<1>9. ASSUME ClearSetupTokenHash(r)
      PROVE  TokenOK'
  <2> PICK next : next = [Idle EXCEPT !.pc = "config"]
    OBVIOUS
  <2>1. /\ req' = [req EXCEPT ![r] = next] /\ req[r].pc = "clear"
        /\ config'.hash \in {NoToken, config.hash}
        /\ UNCHANGED <<phase, cached, minted, opened>>
    BY <1>9 DEF ClearSetupTokenHash, At, history, TypeOK
  <2>2. opened = "now"
    BY <1>0, <2>1 DEF HoldsToken
  <2>3. next.hash = NoToken
    BY DEF Idle
  <2>4. /\ req'[r] = next
        /\ \A q \in Request \ {r} : req'[q] = req[q]
    BY <2>1 DEF TypeOK
  <2>5. OneLiveToken'
    BY <1>0, <2>1, <2>3, <2>4 DEF TokenOK, OneLiveToken
  <2>6. QED
    BY <1>0, <2>1, <2>2, <2>5 DEF TokenOK, OnboardingOpen, GateOK
<1>10. QED
  BY <1>1, <1>2, <1>3, <1>4, <1>5, <1>6, <1>7, <1>8, <1>9 DEF Step

LEMMA NextToken == TypeOK /\ TokenOK /\ [Next]_vars => TokenOK'
<1> SUFFICES ASSUME TypeOK, TokenOK, [Next]_vars
             PROVE  TokenOK'
  OBVIOUS
<1>1. CASE UNCHANGED vars
  BY <1>1 DEF vars, tables, memory, history, TokenOK, OneLiveToken, OnboardingOpen, GateOK,
              HoldsToken, Confirmed
<1>2. CASE Next
  BY <1>2, BootToken, StartToken, StepToken DEF Next
<1>3. QED
  BY <1>1, <1>2

LEMMA TokenInvariance == Spec => []TokenOK
  BY InitToken, NextToken, TypeCorrect, PTL DEF Spec

\* At most one setup token is live, wherever the process was killed and however
\* refreshes of the cache interleave with what they have read.
THEOREM SingleToken == Spec => []OneLiveToken
<1>1. TokenOK => OneLiveToken
  BY DEF TokenOK
<1>2. QED
  BY <1>1, TokenInvariance, PTL

\* Until the gate opens, the operator who reads the token off the server's
\* output can use it: nobody is locked out of the onboarding.
THEOREM NobodyLockedOut == Spec => []OnboardingOpen
<1>1. TokenOK => OnboardingOpen
  BY DEF TokenOK
<1>2. QED
  BY <1>1, TokenInvariance, PTL

-----------------------------------------------------------------------------
(* Registry and cache                                                      *)

Merged == MergedRegistry(env, rows)

RegistryCurrent ==
  \A p \in Provider :
    IF registry[p] = None THEN Merged[p] = None ELSE registry[p].provider = Merged[p]

CurrentBootState == DetermineBootState(Candidates, rows, registry, config.optOut)

CacheCurrent == cached.hash = config.hash /\ cached.state = CurrentBootState

\* How far the request has come that runs alone, be it in a clean history or to
\* mend one that was not.
Progress(q) ==
  /\ q.pc = "rebuild" => q.rows = rows
  /\ q.pc \in {"config", "merge", "determine", "cache", "check", "clear"} => RegistryCurrent
  /\ q.pc \in {"merge", "determine", "cache"} => q.hash = config.hash
  /\ q.pc \in {"merge", "determine"} => q.optOut = config.optOut
  /\ q.pc = "determine" => q.rows = rows
  /\ q.pc = "cache" => q.state = CurrentBootState
  /\ q.pc \in {"check", "clear"} => CacheCurrent

\* What a boot leaves behind.
BootOK ==
  /\ phase \in {"ensure", "mint"} =>
       /\ env = MergedRegistry(LoadProviders, rows)
       /\ RegistryCurrent
       /\ cached.state = CurrentBootState
  /\ phase = "ensure" => cached.hash = config.hash

CleanOK ==
  phase = "serving" =>
    /\ clean = "yes" /\ (\A r \in Request : req[r].pc = "idle") => RegistryCurrent /\ CacheCurrent
    /\ \A r \in Request : clean # "no" /\ req[r].pc # "idle" => Undisturbed(r) /\ Progress(req[r])

ServedOK == BootOK /\ CleanOK

\* OAuth built from the merged configuration is current.
LEMMA Built ==
  ASSUME NEW c \in Configuration, NEW ok \in SUBSET Provider, NEW p \in Provider
  PROVE  IF InitProviders(c, ok)[p] = None THEN c[p] = None
         ELSE InitProviders(c, ok)[p].provider = c[p]
<1>1. CASE c[p] = None
  BY <1>1 DEF InitProviders
<1>2. CASE c[p] # None
  <2>1. c[p] \in Layer
    BY <1>2 DEF Configuration
  <2>2. [provider |-> c[p], ok |-> p \in ok] \in Registered
    BY <2>1 DEF Registered
  <2>3. InitProviders(c, ok)[p] = [provider |-> c[p], ok |-> p \in ok]
    BY <1>2 DEF InitProviders
  <2>4. QED
    BY <2>2, <2>3, OidcConfigAssumption
<1>3. QED
  BY <1>1, <1>2

LEMMA InitServed == Init => ServedOK
  BY DEF Init, ServedOK, BootOK, CleanOK

LEMMA BootServed ==
  ASSUME TypeOK, TokenOK, ServedOK,
         \/ \E ok \in SUBSET Provider : Boot(ok)
         \/ EnsureSetupToken \/ MintSetupToken \/ Crash
  PROVE  ServedOK'
<1>1. ASSUME NEW ok \in SUBSET Provider, Boot(ok)
      PROVE  ServedOK'
  <2>1. /\ env' = MergedRegistry(LoadProviders, rows)
        /\ registry' = InitProviders(MergedRegistry(env', rows), ok)
        /\ cached'.hash = config.hash
        /\ cached'.state = DetermineBootState({p \in Provider : env'[p] # None}, rows,
                                              registry', config.optOut)
        /\ phase' = "ensure" /\ UNCHANGED <<config, rows>>
    BY <1>1 DEF Boot, tables
  <2>2. env' \in Configuration /\ MergedRegistry(env', rows) \in Configuration
    BY <2>1, LoadType, MergedType DEF TypeOK
  <2>3. RegistryCurrent'
    BY <2>1, <2>2, Built DEF RegistryCurrent, Merged
  <2>4. cached'.state = CurrentBootState'
    BY <2>1 DEF CurrentBootState, Candidates
  <2>5. QED
    BY <2>1, <2>3, <2>4 DEF ServedOK, BootOK, CleanOK
<1>2. ASSUME EnsureSetupToken
      PROVE  ServedOK'
  <2>1. /\ phase = "ensure" /\ config'.hash = NoToken /\ config'.optOut = config.optOut
        /\ UNCHANGED <<rows, env, registry, req>> /\ cached'.state = cached.state
        /\ \/ phase' = "serving" /\ cached'.hash = NoToken
           \/ phase' = "mint"
    BY <1>2 DEF EnsureSetupToken, TypeOK
  <2>2. RegistryCurrent' /\ env' = MergedRegistry(LoadProviders, rows')
    BY <2>1 DEF ServedOK, BootOK, RegistryCurrent, Merged
  <2>3. cached'.state = CurrentBootState'
    BY <2>1 DEF ServedOK, BootOK, CurrentBootState, Candidates
  <2>4. phase' = "serving" => CacheCurrent'
    BY <2>1, <2>3 DEF CacheCurrent
  <2>5. \A r \in Request : req'[r].pc = "idle"
    BY <2>1 DEF TokenOK, GateOK
  <2>6. QED
    BY <2>1, <2>2, <2>3, <2>4, <2>5 DEF ServedOK, BootOK, CleanOK
<1>3. ASSUME MintSetupToken
      PROVE  ServedOK'
  <2>1. /\ phase = "mint" /\ config'.hash = minted' /\ config'.optOut = config.optOut
        /\ UNCHANGED <<rows, env, registry, req>> /\ cached'.state = cached.state
        /\ phase' = "serving" /\ cached'.hash = minted'
    BY <1>3 DEF MintSetupToken, TypeOK
  <2>2. RegistryCurrent'
    BY <2>1 DEF ServedOK, BootOK, RegistryCurrent, Merged
  <2>3. CacheCurrent'
    BY <2>1 DEF ServedOK, BootOK, CurrentBootState, Candidates, CacheCurrent
  <2>4. \A r \in Request : req'[r].pc = "idle"
    BY <2>1 DEF TokenOK, GateOK
  <2>5. QED
    BY <2>1, <2>2, <2>3, <2>4 DEF ServedOK, BootOK, CleanOK
<1>4. ASSUME Crash
      PROVE  ServedOK'
  BY <1>4 DEF Crash, ServedOK, BootOK, CleanOK
<1>5. QED
  BY <1>1, <1>2, <1>3, <1>4

\* What a step of request r to next has to show.
LEMMA ServedNext ==
  ASSUME TypeOK, NEW r \in Request, NEW next, req' = [req EXCEPT ![r] = next],
         phase' = "serving",
         clean' # "no" => Undisturbed(r),
         clean' = "yes" /\ next.pc = "idle" => RegistryCurrent' /\ CacheCurrent',
         clean' # "no" /\ next.pc # "idle" => Progress(next)'
  PROVE  ServedOK'
<1>1. /\ req'[r] = next
      /\ \A q \in Request \ {r} : req'[q] = req[q]
  BY DEF TypeOK
<1>2. clean' # "no" => Undisturbed(r)'
  BY <1>1 DEF Undisturbed
<1>3. clean' # "no" /\ next.pc # "idle" => Progress(req[r])'
  BY <1>1 DEF Progress
<1>4. \A q \in Request : clean' # "no" /\ req'[q].pc # "idle" => q = r
  BY <1>1 DEF Undisturbed
<1>5. CleanOK'
  BY <1>1, <1>2, <1>3, <1>4 DEF CleanOK
<1>6. BootOK'
  BY DEF BootOK
<1>7. QED
  BY <1>5, <1>6 DEF ServedOK

LEMMA StartServed ==
  ASSUME TypeOK, TokenOK, ServedOK, NEW r \in Request,
         \/ \E wanted \in SUBSET Provider, optOut \in BOOLEAN : Confirm(r, wanted, optOut)
         \/ \E p \in Provider, change \in Edit : Update(r, p, change) \/ Create(r, p, change)
         \/ \E p \in Provider : Revert(r, p)
  PROVE  ServedOK'
<1>1. PICK next : Start(r, next) /\ next.pc \in {"flags", "read", "delete"} /\ next.hash = NoToken
  BY StartsIdle
<1>2. /\ req' = [req EXCEPT ![r] = next] /\ phase' = "serving"
      /\ clean' # "no" => Undisturbed(r)
  BY <1>1 DEF Start, At
<1>3. Progress(next)'
  BY <1>1 DEF Progress
<1>4. QED
  BY <1>1, <1>2, <1>3, ServedNext

LEMMA StepServed ==
  ASSUME TypeOK, ServedOK, NEW r \in Request, Step(r)
  PROVE  ServedOK'
<1>0. /\ req[r] \in Req /\ phase = "serving" /\ phase' = "serving"
      /\ clean # "no" => Undisturbed(r) /\ Progress(req[r])
  <2>1. req[r] \in Req /\ phase = "serving" /\ req[r].pc # "idle"
    BY RequestType
    DEF Step, SetOIDCProviderEnabled, Rebuild, UpdateOIDCConfig, GetOIDCProvider,
        UpsertOIDCProvider, DeleteOIDCProvider, ListOIDCProviders, GetOIDCConfig, LoadMerged,
        AllProviders, StoreState, CurrentState, ClearSetupTokenHash, Fail, At
  <2>2. phase' = phase
    BY DEF Step, SetOIDCProviderEnabled, Rebuild, UpdateOIDCConfig, GetOIDCProvider,
        UpsertOIDCProvider, DeleteOIDCProvider, ListOIDCProviders, GetOIDCConfig, LoadMerged,
        AllProviders, StoreState, CurrentState, ClearSetupTokenHash, Fail
  <2>3. QED
    BY <2>1, <2>2 DEF ServedOK, CleanOK
<1>1. ASSUME NEW p \in Provider, SetOIDCProviderEnabled(r, p)
      PROVE  ServedOK'
  <2> PICK next : next = [req[r] EXCEPT !.left = @ \ {p}]
    OBVIOUS
  <2>1. req' = [req EXCEPT ![r] = next] /\ req[r].pc = "flags" /\ clean' = clean
    BY <1>1 DEF SetOIDCProviderEnabled, At, history
  <2>2. next.pc = "flags"
    BY <1>0, <2>1 DEF Req
  <2>3. Progress(next)'
    BY <2>2 DEF Progress
  <2>4. QED
    BY <1>0, <2>1, <2>2, <2>3, ServedNext
<1>2. ASSUME UpdateOIDCConfig(r) \/ UpsertOIDCProvider(r) \/ DeleteOIDCProvider(r)
      PROVE  ServedOK'
  <2> PICK next : next = [Idle EXCEPT !.pc = "load", !.confirms = req[r].confirms]
    OBVIOUS
  <2>1. req' = [req EXCEPT ![r] = next] /\ clean' = clean
    BY <1>2 DEF UpdateOIDCConfig, UpsertOIDCProvider, DeleteOIDCProvider, Goto, history
  <2>2. next.pc = "load"
    BY DEF Idle
  <2>3. Progress(next)'
    BY <2>2 DEF Progress
  <2>4. QED
    BY <1>0, <2>1, <2>2, <2>3, ServedNext
<1>3. ASSUME GetOIDCProvider(r)
      PROVE  ServedOK'
  <2> PICK next : next = [Idle EXCEPT !.pc = "upsert", !.id = req[r].id,
                                      !.row = EditRow(rows[req[r].id], req[r].change)]
    OBVIOUS
  <2>1. req' = [req EXCEPT ![r] = next] /\ clean' = clean
    BY <1>3 DEF GetOIDCProvider, history
  <2>2. next.pc = "upsert"
    BY DEF Idle
  <2>3. Progress(next)'
    BY <2>2 DEF Progress
  <2>4. QED
    BY <1>0, <2>1, <2>2, <2>3, ServedNext
<1>4. ASSUME ListOIDCProviders(r)
      PROVE  ServedOK'
  <2> PICK next : next = [req[r] EXCEPT !.pc = "rebuild", !.rows = rows]
    OBVIOUS
  <2>1. /\ req' = [req EXCEPT ![r] = next] /\ rows' = rows
        /\ clean' = clean \/ Undisturbed(r)
    BY <1>4 DEF ListOIDCProviders, tables
  <2>2. next.pc = "rebuild" /\ next.rows = rows'
    BY <1>0, <2>1 DEF Req
  <2>3. Progress(next)'
    BY <2>2 DEF Progress
  <2>4. QED
    BY <1>0, <2>1, <2>2, <2>3, ServedNext
<1>5. ASSUME NEW ok \in SUBSET Provider, Rebuild(r, ok)
      PROVE  ServedOK'
  <2> PICK next : next = [Idle EXCEPT !.pc = "config", !.confirms = req[r].confirms]
    OBVIOUS
  <2>1. /\ req' = [req EXCEPT ![r] = next] /\ req[r].pc = "rebuild"
        /\ registry' = InitProviders(MergedRegistry(env, req[r].rows), ok)
        /\ UNCHANGED <<rows, env, clean>>
    BY <1>5 DEF Rebuild, Goto, At, tables, history
  <2>2. next.pc = "config"
    BY DEF Idle
  <2>3. MergedRegistry(env, rows) \in Configuration
    BY MergedType DEF TypeOK
  <2>4. ASSUME clean # "no"
        PROVE  Progress(next)'
    <3>1. req[r].rows = rows
      BY <1>0, <2>1, <2>4 DEF Progress
    <3>2. RegistryCurrent'
      BY <2>1, <2>3, <3>1, Built DEF RegistryCurrent, Merged
    <3>3. QED
      BY <2>2, <3>2 DEF Progress
  <2>5. QED
    BY <1>0, <2>1, <2>2, <2>4, ServedNext
<1>6. ASSUME GetOIDCConfig(r)
      PROVE  ServedOK'
  <2> PICK next : next = [req[r] EXCEPT !.pc = "merge", !.hash = config.hash,
                                        !.optOut = config.optOut]
    OBVIOUS
  <2>1. /\ req' = [req EXCEPT ![r] = next] /\ req[r].pc = "config"
        /\ UNCHANGED <<config, rows, env, registry, clean>>
    BY <1>6 DEF GetOIDCConfig, At, tables, memory, history
  <2>2. next.pc = "merge" /\ next.hash = config.hash /\ next.optOut = config.optOut
    BY <1>0 DEF Req
  <2>3. ASSUME clean # "no"
        PROVE  Progress(next)'
    BY <1>0, <2>1, <2>2, <2>3 DEF Progress, RegistryCurrent, Merged
  <2>4. QED
    BY <1>0, <2>1, <2>2, <2>3, ServedNext
<1>7. ASSUME LoadMerged(r)
      PROVE  ServedOK'
  <2> PICK next : next = [req[r] EXCEPT !.pc = "determine", !.rows = rows]
    OBVIOUS
  <2>1. /\ req' = [req EXCEPT ![r] = next] /\ req[r].pc = "merge"
        /\ UNCHANGED <<config, rows, env, registry, clean>>
    BY <1>7 DEF LoadMerged, At, tables, memory, history
  <2>2. next.pc = "determine" /\ next.rows = rows
        /\ next.hash = req[r].hash /\ next.optOut = req[r].optOut
    BY <1>0 DEF Req
  <2>3. ASSUME clean # "no"
        PROVE  Progress(next)'
    BY <1>0, <2>1, <2>2, <2>3 DEF Progress, RegistryCurrent, Merged
  <2>4. QED
    BY <1>0, <2>1, <2>2, <2>3, ServedNext
<1>8. ASSUME AllProviders(r)
      PROVE  ServedOK'
  <2> PICK next : next = [Idle EXCEPT
                !.pc = "cache", !.confirms = req[r].confirms, !.hash = req[r].hash,
                !.state = DetermineBootState(Candidates, req[r].rows, registry, req[r].optOut)]
    OBVIOUS
  <2>1. /\ req' = [req EXCEPT ![r] = next] /\ req[r].pc = "determine"
        /\ UNCHANGED <<config, rows, env, registry, clean>>
    BY <1>8 DEF AllProviders, At, tables, memory, history
  <2>2. next.pc = "cache" /\ next.hash = req[r].hash
        /\ next.state = DetermineBootState(Candidates, req[r].rows, registry, req[r].optOut)
    BY DEF Idle
  <2>3. ASSUME clean # "no"
        PROVE  Progress(next)'
    <3>1. /\ req[r].rows = rows /\ req[r].optOut = config.optOut /\ req[r].hash = config.hash
          /\ RegistryCurrent
      BY <1>0, <2>1, <2>3 DEF Progress
    <3>2. RegistryCurrent' /\ CurrentBootState' = CurrentBootState
      BY <2>1, <3>1 DEF RegistryCurrent, Merged, CurrentBootState, Candidates
    <3>3. next.state = CurrentBootState
      BY <2>2, <3>1 DEF CurrentBootState
    <3>4. QED
      BY <2>1, <2>2, <3>1, <3>2, <3>3 DEF Progress
  <2>4. QED
    BY <1>0, <2>1, <2>2, <2>3, ServedNext
<1>9. ASSUME StoreState(r)
      PROVE  ServedOK'
  <2>1. /\ cached'.hash = req[r].hash /\ cached'.state = req[r].state /\ req[r].pc = "cache"
        /\ UNCHANGED <<config, rows, env, registry>>
        /\ clean' # "no" => clean # "no"
    BY <1>9 DEF StoreState, Cache, At, tables
  <2>2. PICK next \in {Idle, [Idle EXCEPT !.pc = "check", !.confirms = req[r].confirms]} :
          req' = [req EXCEPT ![r] = next]
    BY <1>9 DEF StoreState, Goto, Finish
  <2>3. next.pc \in {"idle", "check"}
    <3>1. CASE next = Idle
      BY <3>1 DEF Idle
    <3>2. CASE next = [Idle EXCEPT !.pc = "check", !.confirms = req[r].confirms]
      BY <3>2 DEF Idle
    <3>3. QED
      BY <2>2, <3>1, <3>2
  <2>4. ASSUME clean # "no"
        PROVE  RegistryCurrent' /\ CacheCurrent'
    <3>1. req[r].hash = config.hash /\ req[r].state = CurrentBootState /\ RegistryCurrent
      BY <1>0, <2>1, <2>4 DEF Progress
    <3>2. RegistryCurrent' /\ CurrentBootState' = CurrentBootState
      BY <2>1, <3>1 DEF RegistryCurrent, Merged, CurrentBootState, Candidates
    <3>3. QED
      BY <2>1, <3>1, <3>2 DEF CacheCurrent
  <2>5. clean # "no" => Progress(next)'
    BY <2>3, <2>4 DEF Progress
  <2>6. QED
    BY <1>0, <2>1, <2>2, <2>4, <2>5, ServedNext
<1>10. ASSUME CurrentState(r)
      PROVE  ServedOK'
  <2>1. req[r].pc = "check" /\ UNCHANGED <<config, rows, env, registry, cached, clean>>
    BY <1>10 DEF CurrentState, At, tables, memory, history
  <2>2. PICK next \in {Idle, [Idle EXCEPT !.pc = "clear", !.confirms = req[r].confirms]} :
          req' = [req EXCEPT ![r] = next]
    BY <1>10 DEF CurrentState, Goto, Finish
  <2>3. next.pc \in {"idle", "clear"}
    <3>1. CASE next = Idle
      BY <3>1 DEF Idle
    <3>2. CASE next = [Idle EXCEPT !.pc = "clear", !.confirms = req[r].confirms]
      BY <3>2 DEF Idle
    <3>3. QED
      BY <2>2, <3>1, <3>2
  <2>4. ASSUME clean # "no"
        PROVE  RegistryCurrent' /\ CacheCurrent'
    <3>1. RegistryCurrent /\ CacheCurrent
      BY <1>0, <2>1, <2>4 DEF Progress
    <3>2. QED
      BY <2>1, <3>1 DEF RegistryCurrent, Merged, CacheCurrent, CurrentBootState, Candidates
  <2>5. clean # "no" => Progress(next)'
    BY <2>3, <2>4 DEF Progress
  <2>6. QED
    BY <1>0, <2>1, <2>2, <2>4, <2>5, ServedNext
<1>11. ASSUME ClearSetupTokenHash(r)
      PROVE  ServedOK'
  <2> PICK next : next = [Idle EXCEPT !.pc = "config"]
    OBVIOUS
  <2>1. /\ req' = [req EXCEPT ![r] = next] /\ req[r].pc = "clear"
        /\ UNCHANGED <<rows, env, registry>>
        /\ clean' = clean
    BY <1>11 DEF ClearSetupTokenHash, At, history
  <2>2. next.pc = "config"
    BY DEF Idle
  <2>3. ASSUME clean # "no"
        PROVE  Progress(next)'
    <3>1. RegistryCurrent
      BY <1>0, <2>1, <2>3 DEF Progress
    <3>2. QED
      BY <2>1, <2>2, <3>1 DEF Progress, RegistryCurrent, Merged
  <2>4. QED
    BY <1>0, <2>1, <2>2, <2>3, ServedNext
<1>12. ASSUME Fail(r)
      PROVE  ServedOK'
  BY <1>0, <1>12, ServedNext DEF Fail, Finish
<1>13. QED
  BY <1>1, <1>2, <1>3, <1>4, <1>5, <1>6, <1>7, <1>8, <1>9, <1>10, <1>11, <1>12 DEF Step

LEMMA NextServed == TypeOK /\ TokenOK /\ ServedOK /\ [Next]_vars => ServedOK'
<1> SUFFICES ASSUME TypeOK, TokenOK, ServedOK, [Next]_vars
             PROVE  ServedOK'
  OBVIOUS
<1>1. CASE UNCHANGED vars
  BY <1>1 DEF vars, tables, memory, history, ServedOK, BootOK, CleanOK, RegistryCurrent, Merged,
              CurrentBootState, Candidates, CacheCurrent, Progress, Undisturbed
<1>2. CASE Next
  BY <1>2, BootServed, StartServed, StepServed DEF Next
<1>3. QED
  BY <1>1, <1>2

LEMMA ServedInvariance == Spec => []ServedOK
  BY InitServed, NextServed, TypeCorrect, TokenInvariance, PTL DEF Spec

\* What was saved is served, for any number of requests: registry and cache are
\* what the tables say, and after requests that overlapped or failed the next
\* one that rebuilds alone makes them so again.
THEOREM SavedServed == Spec => []SavedIsServed
<1>1. TypeOK /\ ServedOK => SavedIsServed
  BY DEF ServedOK, CleanOK, SavedIsServed, Quiet, RegistryCurrent, Merged, CacheCurrent,
         CurrentBootState
<1>2. QED
  BY <1>1, ServedInvariance, TypeCorrect, PTL

\* While the server reports confirmed_ok, one can sign in: there is a provider,
\* and every provider that is configured and not disabled is served and has
\* passed discovery.
GateOpenMeansSignIn ==
  Quiet /\ clean = "yes" /\ cached.state = "confirmed_ok" =>
    LET open == {p \in Candidates : MergedEnabled(rows[p])}
    IN  open # {} /\ \A p \in open : registry[p] # None /\ registry[p].ok

\* The gate of the API stands open for OIDC only where OIDC works, whatever was
\* saved, disabled or reverted since the boot.
THEOREM OpenGateWorks == Spec => []GateOpenMeansSignIn
<1>1. SavedIsServed => GateOpenMeansSignIn
  <2> SUFFICES ASSUME SavedIsServed, Quiet, clean = "yes", cached.state = "confirmed_ok"
               PROVE  LET open == {p \in Candidates : MergedEnabled(rows[p])}
                      IN  open # {} /\ \A p \in open : registry[p] # None /\ registry[p].ok
    BY DEF GateOpenMeansSignIn
  <2>1. DetermineBootState(Candidates, rows, registry, config.optOut) = "confirmed_ok"
    BY DEF SavedIsServed
  <2>2. QED
    BY <2>1 DEF DetermineBootState, InitOK
<1>2. QED
  BY <1>1, SavedServed, PTL

\* A boot serves what row, environment and defaults say, in this order, although
\* main.go merges the rows twice.
THEOREM BootPrecedence == Spec => []BootFollowsPrecedence
<1>1. TypeOK /\ ServedOK => BootFollowsPrecedence
  <2> SUFFICES ASSUME TypeOK, ServedOK, phase \in {"ensure", "mint"}, NEW p \in Provider
               PROVE  IF registry[p] # None
                        THEN registry[p].provider = [f \in Field |-> Precedence(p, f)]
                        ELSE \/ ~MergedEnabled(rows[p])
                             \/ \E f \in Required : Precedence(p, f) = None
    BY DEF BootFollowsPrecedence
  <2> DEFINE merged == MergedRegistry(LoadProviders, rows)
  <2>1. rows \in Rows /\ LoadProviders \in Configuration
    BY LoadType DEF TypeOK
  <2>2. IF registry[p] = None THEN merged[p] = None ELSE registry[p].provider = merged[p]
    BY <2>1, MergedTwice DEF ServedOK, BootOK, RegistryCurrent, Merged
  <2>3. \A f \in Field : MergeFields(p, LoadProviders[p], rows[p])[f] = Precedence(p, f)
    BY <2>1, OneMerge
  <2>4. CASE merged[p] # None
    <3>1. merged[p] = MergeFields(p, LoadProviders[p], rows[p])
      BY <2>1, <2>4, MergedField
    <3>2. merged[p] = [f \in Field |-> Precedence(p, f)]
      BY <2>3, <3>1 DEF MergeFields
    <3>3. QED
      BY <2>2, <2>4, <3>2
  <2>5. CASE merged[p] = None
    <3>1. registry[p] = None
      <4>1. merged \in Configuration /\ registry[p] \in Registered \cup {None}
        BY <2>1, MergedType DEF TypeOK
      <4>2. registry[p] # None => registry[p].provider \in Layer
        BY <4>1 DEF Registered
      <4>3. QED
        BY <2>2, <2>5, <4>2, ProviderMergeAssumption
    <3>2. CASE LoadProviders[p] = None /\ rows[p] = None
      <4>1. Precedence(p, ClientID) = None
        BY <3>2, ProviderMergeAssumption DEF Precedence, LoadProviders, First, Layer
      <4>2. QED
        BY <3>1, <4>1, ProviderMergeAssumption
    <3>3. CASE ~(LoadProviders[p] = None /\ rows[p] = None)
      <4> DEFINE fields == MergeFields(p, LoadProviders[p], rows[p])
      <4>1. merged[p] = IF MergedEnabled(rows[p]) /\ Viable(fields) THEN fields ELSE None
        BY <3>3 DEF MergedRegistry, LoadMergedProviders
      <4>2. fields \in Layer
        BY <2>1, FieldsType DEF Configuration, Rows
      <4>3. ~MergedEnabled(rows[p]) \/ ~Viable(fields)
        BY <2>5, <4>1, <4>2, ProviderMergeAssumption
      <4>4. Viable(fields) <=> \A f \in Required : Precedence(p, f) # None
        BY <2>3, <4>2, ProviderMergeAssumption DEF Viable
      <4>5. QED
        BY <3>1, <4>3, <4>4
    <3>4. QED
      BY <3>2, <3>3
  <2>6. QED
    BY <2>4, <2>5
<1>2. QED
  BY <1>1, ServedInvariance, TypeCorrect, PTL
=============================================================================
