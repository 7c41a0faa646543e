------------------------- MODULE MCOidcFlow -------------------------
(***************************************************************************)
(* Instances of OidcFlow for TLC, with one provider.                       *)
(***************************************************************************)
EXTENDS OidcFlow, TLC

CONSTANT google

MCIssuer == [i \in Identity |-> google]

\* Nothing tells these apart.
Symmetry ==
  Permutations(Browser) \cup Permutations(Account)
    \cup Permutations(Request) \cup Permutations(Client)
=============================================================================
