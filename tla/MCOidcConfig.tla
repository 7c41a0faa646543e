--------------------------- MODULE MCOidcConfig ---------------------------
(***************************************************************************)
(* Instances of OidcConfig for TLC: provider g is configured in the        *)
(* environment, provider k only by rows.  Two fields: the client id, which *)
(* has no default, and the claim style, which has.                         *)
(***************************************************************************)
EXTENDS OidcConfig, TLC

CONSTANTS g, k, client, style, v, w

\* AUTH_PROVIDER_*: the client id of g is v.
TheEnviron ==
  [p \in Provider |-> [f \in Field |-> IF p = g /\ f = client THEN v ELSE None]]

TheDefault == [p \in Provider |-> [f \in Field |-> IF f = style THEN v ELSE None]]

\* What an edit may say: override both fields; or clear the client id and switch
\* the provider off.
TheEdits ==
  {[fields |-> (client :> c @@ style :> s), enabled |-> e] :
     <<c, s, e>> \in {<<w, w, Keep>>, <<None, Keep, FALSE>>}}

Symmetry == Permutations(Request)
=============================================================================
