------------------------- MODULE SignInMethods -------------------------
(***************************************************************************)
(* What the credential endpoints of the users API promise a user, with no  *)
(* tables, transactions or requests in sight: every account has a set of   *)
(* sign-in methods; a federated identity signs in to one account only; and *)
(* a method may be taken away only while another one is left, so that an   *)
(* account that can be signed in to can always be signed in to.            *)
(***************************************************************************)
CONSTANTS Account,    \* user accounts
          Identity,   \* federated identities: (issuer, subject) pairs
          Local       \* the local password, one per account

VARIABLE methods      \* methods[a]: how the user of a can sign in

Method == Identity \cup {Local}

Init == methods = [a \in Account |-> {}]

\* A federated identity is free when it signs in to no account.
Free(m) == m = Local \/ \A a \in Account : m \notin methods[a]

Attach(a, m) ==
  /\ Free(m)
  /\ methods' = [methods EXCEPT ![a] = @ \cup {m}]

Detach(a, m) ==
  /\ m \in methods[a]
  /\ methods[a] # {m}
  /\ methods' = [methods EXCEPT ![a] = @ \ {m}]

Next == \E a \in Account, m \in Method : Attach(a, m) \/ Detach(a, m)

Spec == Init /\ [][Next]_methods
=============================================================================
