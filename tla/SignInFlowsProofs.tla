------------------------ MODULE SignInFlowsProofs ------------------------
(***************************************************************************)
(* What the promise of SignInFlows is worth.  Whatever keeps it keeps      *)
(* these too, as OidcFlowProofs concludes of the callback.                 *)
(***************************************************************************)
EXTENDS SignInFlows, TLAPS

Flow == [browser: Browser, provider: Provider, mode: Mode, acct: Account \cup {None}]

\* A flow to sign in, at whose provider somebody did.
Earned(f) ==
  /\ f \in DOMAIN asked
  /\ asked[f].mode = "login"
  /\ \E i \in Identity : <<f, i>> \in vouched /\ Issuer[i] = asked[f].provider

\* Every session was opened by a flow to sign in, in the browser that started
\* it, and after somebody signed in at the provider it was started for.
SessionsEarned ==
  \A s \in sessions : Earned(s.flow) /\ s.browser = asked[s.flow].browser

Inv ==
  /\ asked \in Seq(Flow)
  /\ \A e \in vouched : e[1] \in DOMAIN asked /\ asked[e[1]].provider = Issuer[e[2]]
  /\ owner \in [Identity -> Account \cup {None}]
  /\ \A e \in recognized : Earned(e[1])
  /\ SessionsEarned

\* What is earned stays so: flows and vouchers are never taken back.
LEMMA EarnedKept ==
  ASSUME NEW f, Earned(f), vouched \subseteq vouched', DOMAIN asked \subseteq DOMAIN asked',
         asked'[f] = asked[f]
  PROVE  Earned(f)'
  BY DEF Earned

LEMMA InitInv == Init => Inv
  BY DEF Init, Inv, SessionsEarned

LEMMA NextInv == Inv /\ [Next]_vars => Inv'
<1> SUFFICES ASSUME Inv, [Next]_vars
             PROVE  Inv'
  OBVIOUS
<1>0. asked \in Seq(Flow)
  BY DEF Inv
<1>1. ASSUME NEW flow \in Flow, Ask(flow)
      PROVE  Inv'
  <2>1. asked' = Append(asked, flow) /\ UNCHANGED <<vouched, owner, recognized, sessions>>
    BY <1>1 DEF Ask
  <2>2. /\ asked' \in Seq(Flow) /\ DOMAIN asked \subseteq DOMAIN asked'
        /\ \A f \in DOMAIN asked : asked'[f] = asked[f]
    BY <1>0, <2>1
  <2>3. \A f : Earned(f) => Earned(f)' /\ asked'[f] = asked[f]
    BY <2>1, <2>2 DEF Earned
  <2>4. QED
    BY <2>1, <2>2, <2>3 DEF Inv, SessionsEarned
<1>2. ASSUME NEW f \in DOMAIN asked, NEW i \in Identity, Vouch(f, i)
      PROVE  Inv'
  <2>1. vouched' = vouched \cup {<<f, i>>} /\ UNCHANGED <<asked, owner, recognized, sessions>>
    BY <1>2 DEF Vouch
  <2>2. \A g : Earned(g) => Earned(g)'
    BY <2>1 DEF Earned
  <2>3. QED
    BY <1>2, <2>1, <2>2 DEF Inv, SessionsEarned, Vouch
<1>3. ASSUME NEW f \in DOMAIN asked, NEW i \in Identity, NEW a \in Account, Recognize(f, i, a)
      PROVE  Inv'
  <2>1. /\ <<f, i>> \in vouched /\ asked[f].mode = "login"
        /\ owner' = [owner EXCEPT ![i] = a] /\ recognized' = recognized \cup {<<f, a>>}
        /\ UNCHANGED <<asked, vouched, sessions>>
    BY <1>3 DEF Recognize
  <2>2. Issuer[i] = asked[f].provider
    BY <2>1 DEF Inv
  <2>3. Earned(f)
    BY <2>1, <2>2 DEF Earned
  <2>4. \A g : Earned(g)' <=> Earned(g)
    BY <2>1 DEF Earned
  <2>5. QED
    BY <2>1, <2>3, <2>4 DEF Inv, SessionsEarned
<1>4. ASSUME NEW f \in DOMAIN asked, NEW i \in Identity, Link(f, i)
      PROVE  Inv'
  <2>1. owner' = [owner EXCEPT ![i] = asked[f].acct] /\ UNCHANGED <<asked, vouched, recognized, sessions>>
    BY <1>4 DEF Link
  <2>2. owner' \in [Identity -> Account \cup {None}]
    <3>1. asked[f] \in Flow
      BY <1>0
    <3>2. asked[f].acct \in Account \cup {None}
      BY <3>1 DEF Flow
    <3>3. QED
      BY <2>1, <3>2 DEF Inv
  <2>3. \A g : Earned(g)' <=> Earned(g)
    BY <2>1 DEF Earned
  <2>4. QED
    BY <2>1, <2>2, <2>3 DEF Inv, SessionsEarned
<1>5. ASSUME NEW f \in DOMAIN asked, NEW a \in Account, Enter(f, a)
      PROVE  Inv'
  <2>1. /\ <<f, a>> \in recognized /\ recognized' \subseteq recognized
        /\ sessions' = sessions \cup {[browser |-> asked[f].browser, acct |-> a, flow |-> f]}
        /\ UNCHANGED <<asked, vouched, owner>>
    BY <1>5 DEF Enter
  <2>2. Earned(f)
    BY <2>1 DEF Inv
  <2>3. \A g : Earned(g)' <=> Earned(g)
    BY <2>1 DEF Earned
  <2>4. QED
    BY <2>1, <2>2, <2>3 DEF Inv, SessionsEarned
<1>6. ASSUME UNCHANGED <<asked, vouched, sessions>>, recognized' \subseteq recognized,
             owner' \in [Identity -> Account \cup {None}]
      PROVE  Inv'
  <2>1. \A g : Earned(g)' <=> Earned(g)
    BY <1>6 DEF Earned
  <2>2. QED
    BY <1>6, <2>1 DEF Inv, SessionsEarned
<1>7. CASE GiveUp \/ UNCHANGED vars \/ \E i \in Identity : Unlink(i)
  BY <1>6, <1>7 DEF GiveUp, vars, Unlink, Inv
<1>8. ASSUME NEW b \in Browser, NEW p \in Provider, NEW m \in Mode, NEW a \in Account \cup {None}
      PROVE  [browser |-> b, provider |-> p, mode |-> m, acct |-> a] \in Flow
  BY DEF Flow
<1>9. QED
  BY <1>1, <1>2, <1>3, <1>4, <1>5, <1>7, <1>8 DEF Next

\* A session is never opened for a flow that was not asked for, that was to test
\* or to link, in another browser, or before the provider has vouched.
THEOREM Earning == Spec => []SessionsEarned
<1>1. Inv => SessionsEarned
  BY DEF Inv
<1>2. QED
  BY <1>1, InitInv, NextInv, PTL DEF Spec

\* No step gives an identity from one account to another.
IdentityStays ==
  [][\A i \in Identity : owner[i] # None => owner'[i] \in {owner[i], None}]_vars

\* An identity changes hands only by being unlinked first.
THEOREM Staying == Spec => IdentityStays
<1>1. Inv /\ [Next]_vars
        => [\A i \in Identity : owner[i] # None => owner'[i] \in {owner[i], None}]_vars
  <2> SUFFICES ASSUME Inv, Next, NEW i \in Identity, owner[i] # None
               PROVE  owner'[i] \in {owner[i], None}
    OBVIOUS
  <2>1. owner \in [Identity -> Account \cup {None}]
    BY DEF Inv
  <2>2. QED
    BY <2>1 DEF Next, Ask, Vouch, Link, Recognize, Enter, GiveUp, Unlink
<1>2. QED
  BY <1>1, InitInv, NextInv, PTL DEF Spec, IdentityStays
=============================================================================
