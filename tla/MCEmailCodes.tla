-------------------------- MODULE MCEmailCodes --------------------------
(***************************************************************************)
(* Instances of EmailCodes for TLC: the address x, its spelling X with a   *)
(* capital letter, and in the larger instance another address y.           *)
(***************************************************************************)
EXTENDS EmailCodes, TLC

CONSTANTS x, X

\* strings.ToLower
ToLower == [e \in Address |-> IF e = X THEN x ELSE e]

\* Accounts and requests are interchangeable.
Symmetry == Permutations(Account) \cup Permutations(Request)
=============================================================================
