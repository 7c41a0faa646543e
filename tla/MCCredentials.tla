------------------------- MODULE MCCredentials -------------------------
(***************************************************************************)
(* Instances of Credentials for TLC: two accounts that contend for two     *)
(* identities, and two requests that interleave.                           *)
(***************************************************************************)
EXTENDS Credentials, TLC

\* The members of these sets are interchangeable.
Symmetry == Permutations(Account) \cup Permutations(Identity)
            \cup Permutations(Password) \cup Permutations(Request)
=============================================================================
