-------------------------- MODULE ProviderMerge --------------------------
(***************************************************************************)
(* How the configuration of OIDC providers is put together: environment,   *)
(* rows of oidc_providers, defaults (config/providers.go,                  *)
(* config/provider_merge.go), and how an edit changes a row                *)
(* (handlers/oidc_providers.go).                                           *)
(*                                                                         *)
(* A layer gives each field a value or None: unset, NULL and the empty     *)
(* string are all "no opinion".  A configuration gives each provider its   *)
(* layer, or None where the provider is not in it.                         *)
(***************************************************************************)
EXTENDS Integers

CONSTANTS Provider,  \* provider ids
          Field,     \* display_name, issuer_url, client_id, client_secret, ...
          Required,  \* those without which OAuth cannot use a provider
          ClientID,  \* the one whose variable says that the environment has it
          Text,      \* values of fields
          Environ,   \* AUTH_PROVIDER_*: [Provider -> Layer]
          Default,   \* well-known and last-resort values: [Provider -> Layer]
          None,      \* no value, no row
          Keep       \* a field an edit does not name

Layer == [Field -> Text \cup {None}]

Row == [fields: Layer, enabled: BOOLEAN]

Configuration == [Provider -> Layer \cup {None}]

Change == [fields: [Field -> Text \cup {None, Keep}], enabled: BOOLEAN \cup {Keep}]

ASSUME ProviderMergeAssumption ==
  /\ Required \subseteq Field
  /\ ClientID \in Required
  /\ None \notin Text \cup Layer \cup Row
  /\ Keep \notin Text \cup BOOLEAN \cup {None}
  /\ Environ \in [Provider -> Layer]
  /\ Default \in [Provider -> Layer]
  /\ \A p \in Provider : Default[p][ClientID] = None

\* pickStr, firstNonEmpty
First(value, otherwise) == IF value # None THEN value ELSE otherwise

Of(layer, f) == IF layer = None THEN None ELSE layer[f]

\* The environment: a provider without client id is not in it.  Start-up fails
\* if another required value is missing (config/providers.go:196 to 213).
LoadProviders ==
  [p \in Provider |->
     IF Environ[p][ClientID] = None THEN None
     ELSE [f \in Field |-> First(Environ[p][f], Default[p][f])]]

ASSUME EnvironmentAssumption ==
  \A p \in Provider : LoadProviders[p] # None =>
    \A f \in Required : LoadProviders[p][f] # None

Override(row) == IF row = None THEN None ELSE row.fields

MergedEnabled(row) == IF row = None THEN TRUE ELSE row.enabled

\* Mutant: the environment wins over the row.
MergeFieldsEnvFirst(p, env, row) ==
  [f \in Field |-> First(Of(env, f), First(Of(Override(row), f), Default[p][f]))]

MergeFields(p, env, row) ==
  [f \in Field |-> First(Of(Override(row), f), First(Of(env, f), Default[p][f]))]

\* The effective configuration of the providers env or rows know of.
LoadMergedProviders(env, rows) ==
  [p \in Provider |->
     IF env[p] = None /\ rows[p] = None THEN None ELSE MergeFields(p, env[p], rows[p])]

Viable(layer) == layer # None /\ \A f \in Required : layer[f] # None

\* MergedRegistry: what OAuth is built from.
MergedRegistry(env, rows) ==
  LET merged == LoadMergedProviders(env, rows)
  IN  [p \in Provider |->
         IF MergedEnabled(rows[p]) /\ Viable(merged[p]) THEN merged[p] ELSE None]

\* Mutant: a field the body does not name is not told from one it does.
EditRowVerbatim(row, change) ==
  [fields  |-> change.fields,
   enabled |-> IF change.enabled = Keep THEN MergedEnabled(row) ELSE change.enabled]

\* mergeTextField, mergeSecretField, mergeScopes, and the switch on enabled
EditRow(row, change) ==
  [fields  |-> [f \in Field |-> IF change.fields[f] = Keep THEN Of(Override(row), f)
                                ELSE change.fields[f]],
   enabled |-> IF change.enabled = Keep THEN MergedEnabled(row) ELSE change.enabled]

=============================================================================
