------------------------- MODULE SignInFlows -------------------------
(***************************************************************************)
(* What signing in through a provider promises, with no cookies, states,   *)
(* codes, nonces or requests in sight.  A browser starts a flow to sign in *)
(* or to try a provider's configuration, or an account starts one in it to *)
(* link an identity.  The provider vouches for an identity to that flow,   *)
(* and only then, and only as the flow was meant, may an identity come to  *)
(* an account or a session to the browser.                                 *)
(***************************************************************************)
EXTENDS Naturals, Sequences

CONSTANTS Browser, Account, Identity, Provider,
          Issuer,     \* Issuer[i]: the provider identity i belongs to
          None

VARIABLES asked,      \* the flows: [browser, provider, mode, acct]
          vouched,    \* <<f, i>>: the provider of f vouched for i
          owner,      \* owner[i]: account identity i signs in to, or None
          recognized, \* <<f, a>>: flow f led to account a, which may enter
          sessions    \* [browser, acct, flow]: sessions flows have opened

vars == <<asked, vouched, owner, recognized, sessions>>

Mode == {"login", "test", "link"}

Init ==
  /\ asked = <<>>
  /\ vouched = {}
  /\ owner = [i \in Identity |-> None]
  /\ recognized = {}
  /\ sessions = {}

Ask(flow) ==
  /\ flow.browser \in Browser /\ flow.provider \in Provider /\ flow.mode \in Mode
  /\ flow.mode = "link" <=> flow.acct \in Account
  /\ asked' = Append(asked, flow)
  /\ UNCHANGED <<vouched, owner, recognized, sessions>>

Vouch(f, i) ==
  /\ f \in DOMAIN asked
  /\ asked[f].provider = Issuer[i]
  /\ vouched' = vouched \cup {<<f, i>>}
  /\ UNCHANGED <<asked, owner, recognized, sessions>>

\* The account that asked for it, and no other.
Link(f, i) ==
  /\ <<f, i>> \in vouched
  /\ asked[f].mode = "link"
  /\ owner[i] = None
  /\ owner' = [owner EXCEPT ![i] = asked[f].acct]
  /\ UNCHANGED <<asked, vouched, recognized, sessions>>

\* A free identity may be given to an account; one that is taken stays put.
Recognize(f, i, a) ==
  /\ <<f, i>> \in vouched
  /\ asked[f].mode = "login"
  /\ owner[i] \in {None, a}
  /\ owner' = [owner EXCEPT ![i] = a]
  /\ recognized' = recognized \cup {<<f, a>>}
  /\ UNCHANGED <<asked, vouched, sessions>>

\* The session is opened in the browser that asked for it.
Enter(f, a) ==
  /\ <<f, a>> \in recognized
  /\ sessions' = sessions \cup {[browser |-> asked[f].browser, acct |-> a, flow |-> f]}
  /\ recognized' \subseteq recognized
  /\ UNCHANGED <<asked, vouched, owner>>

\* It need not be.
GiveUp ==
  /\ recognized' \subseteq recognized
  /\ UNCHANGED <<asked, vouched, owner, sessions>>

Unlink(i) ==
  /\ owner' = [owner EXCEPT ![i] = None]
  /\ UNCHANGED <<asked, vouched, recognized, sessions>>

Next ==
  \/ \E b \in Browser, p \in Provider, m \in Mode, a \in Account \cup {None} :
       Ask([browser |-> b, provider |-> p, mode |-> m, acct |-> a])
  \/ \E f \in DOMAIN asked, i \in Identity :
       Vouch(f, i) \/ Link(f, i) \/ \E a \in Account : Recognize(f, i, a)
  \/ \E f \in DOMAIN asked, a \in Account : Enter(f, a)
  \/ GiveUp
  \/ \E i \in Identity : Unlink(i)

Spec == Init /\ [][Next]_vars
=============================================================================
