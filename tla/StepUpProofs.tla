-------------------------- MODULE StepUpProofs --------------------------
(***************************************************************************)
(* Proofs about StepUp: its invariants are inductive for any number of     *)
(* tokens and verifications, no token is accepted twice in time, and none  *)
(* at all once it is spent.                                                *)
(***************************************************************************)
EXTENDS StepUp, TLAPS

\* The initial state: nothing issued, nothing remembered.
LEMMA InitInv == Init => IInv
  BY StepUpAssumption
  DEF Init, IInv, TypeOK, CacheRemembers, Payload, Time, LastTime

\* Expiry is monotonic: what the clock lets through, an earlier time does too.
LEMMA NotYetExpired ==
  ASSUME TypeOK, NEW t \in Token, issued[t] # None,
         NEW now \in 0 .. clock, ~Expired(clock, t)
  PROVE  ~Expired(now, t)
  BY StepUpAssumption DEF TypeOK, Payload, Time, LastTime, Expired

\* Every step keeps the invariant.
LEMMA NextInv == IInv /\ [Next]_vars => IInv'
<1> SUFFICES ASSUME IInv, [Next]_vars PROVE IInv'
  OBVIOUS
<1> USE StepUpAssumption DEF IInv
<1>1. CASE Pass
  BY <1>1 DEF Pass, TypeOK, CacheRemembers, Payload, Time, LastTime, Expired
<1>2. ASSUME NEW t \in Token, NEW a \in Account, IssueStepUpToken(t, a)
      PROVE  IInv'
  <2>1. TypeOK'
    BY <1>2 DEF IssueStepUpToken, TypeOK, Payload, Time, LastTime
  <2>2. CacheRemembers'
    BY <1>2 DEF IssueStepUpToken, TypeOK, CacheRemembers, Expired
  <2> QED BY <2>1, <2>2
<1>3. ASSUME NEW c \in Call, NEW t \in Token, NEW a \in Account, Check(c, t, a)
      PROVE  IInv'
  BY <1>3 DEF Check, TypeOK, CacheRemembers, Expired
<1>4. ASSUME NEW c \in Call, Grant(c) PROVE IInv'
  <2>1. TypeOK'
    BY <1>4 DEF Grant, TypeOK, Payload
  <2>2. CacheRemembers'
    BY <1>4 DEF Grant, TypeOK, CacheRemembers, Expired, Payload, Time
  <2> QED BY <2>1, <2>2
<1>5. ASSUME NEW c \in Call, Refuse(c) PROVE IInv'
  BY <1>5 DEF Refuse, TypeOK, CacheRemembers, Expired
<1>6. CASE Tick
  BY <1>6 DEF Tick, TypeOK, CacheRemembers, Expired, Time, LastTime
<1>7. CASE StartSweep
  BY <1>7 DEF StartSweep, TypeOK, CacheRemembers, Expired, Time, LastTime
<1>8. ASSUME NEW t \in Token, Prune(t) PROVE IInv'
  <2>1. TypeOK'
    BY <1>8 DEF Prune, Visit, TypeOK
  <2>2. CacheRemembers'
    <3> SUFFICES ASSUME NEW u \in granted', ~Expired(clock, u)'
                 PROVE  consumed'[u] # None
      BY DEF CacheRemembers
    <3>1. u \in granted /\ u \in Token /\ ~Expired(clock, u) /\ consumed[u] # None
      BY <1>8 DEF Prune, Visit, TypeOK, CacheRemembers, Expired
    <3>2. ~(sweep.now > consumed[u])
      BY <3>1, NotYetExpired DEF TypeOK, Expired
    <3> QED BY <1>8, <3>1, <3>2 DEF Prune, Visit, TypeOK
  <2> QED BY <2>1, <2>2
<1>9. CASE Restart
  BY <1>9 DEF Restart, TypeOK, CacheRemembers, Time, LastTime
<1>10. CASE UNCHANGED vars
  BY <1>10 DEF vars, TypeOK, CacheRemembers, Expired
<1> QED
  BY <1>1, <1>2, <1>3, <1>4, <1>5, <1>6, <1>7, <1>8, <1>9, <1>10 DEF Next

\* The invariant holds in every reachable state.
THEOREM Invariance == Spec => []IInv
  BY InitInv, NextInv, PTL DEF Spec

\* Types; the janitor lags the clock; calls and cache entries hold issued tokens.
THEOREM TypeCorrect == Spec => []TypeOK
<1>1. IInv => TypeOK
  BY DEF IInv
<1> QED BY <1>1, Invariance, PTL

\* An accepted token is remembered for as long as the clock lets it through.
THEOREM CacheRemembersTokens == Spec => []CacheRemembers
<1>1. IInv => CacheRemembers
  BY DEF IInv
<1> QED BY <1>1, Invariance, PTL

\* No token is accepted twice before it expires, within one life of the server:
\* the second verification finds its JTI, which the janitor must have kept.
THEOREM NoReplay == Spec => NoReplayInTime
<1> DEFINE A == \A c \in Call :
                  Grant(c) => call[c] \notin granted \/ Expired(clock, call[c])
<1>1. IInv => A
  BY DEF IInv, CacheRemembers, Grant
<1>2. IInv /\ [Next]_vars => [A]_vars
  BY <1>1
<1>3. Spec => [][A]_vars
  BY <1>2, Invariance, PTL DEF Spec
<1> QED BY <1>3 DEF NoReplayInTime

\* An expired token that nobody is verifying stays so: the clock does not run
\* back, a JTI is issued once, and Check lets no expired token through.
THEOREM ExpiredStaysExpired == Spec => ExpiredForGood
<1> DEFINE A == \A t \in Token : Spent(t) => Spent(t)'
<1>1. IInv /\ [Next]_vars => A
  <2> SUFFICES ASSUME IInv, [Next]_vars, NEW t \in Token, Spent(t)
               PROVE  Spent(t)'
    OBVIOUS
  <2>1. TypeOK /\ issued[t] # None /\ clock > issued[t].exp /\ \A c \in Call : call[c] # t
    BY DEF IInv, Spent, Expired
  <2>2. clock \in Int /\ clock' \in Int /\ clock' >= clock
    BY <2>1, StepUpAssumption
    DEF TypeOK, Time, LastTime, Next, vars, Pass, IssueStepUpToken, Check, Grant, Refuse, Tick,
        StartSweep, Prune, Visit, Restart
  <2>3. issued'[t] = issued[t]
    BY <2>1
    DEF TypeOK, Next, vars, Pass, IssueStepUpToken, Check, Grant, Refuse, Tick, StartSweep, Prune,
        Visit, Restart
  <2>4. ASSUME NEW c \in Call
        PROVE  call'[c] # t
    <3>1. ASSUME NEW d \in Call, NEW u \in Token, NEW a \in Account, Check(d, u, a)
          PROVE  call'[c] # t
      <4>1. u # t
        BY <2>1, <3>1 DEF Check, Expired
      <4>2. QED
        BY <2>1, <3>1, <4>1 DEF Check, TypeOK
    <3>2. CASE Restart
      BY <3>2, StepUpAssumption DEF Restart
    <3>3. ASSUME NEW d \in Call, Grant(d) \/ Refuse(d)
          PROVE  call'[c] # t
      BY <2>1, <3>3, StepUpAssumption DEF Grant, Refuse, TypeOK
    <3>4. CASE UNCHANGED call
      BY <2>1, <3>4
    <3>5. QED
      BY <3>1, <3>2, <3>3, <3>4
      DEF Next, vars, Pass, IssueStepUpToken, Tick, StartSweep, Prune, Visit
  <2>5. issued[t].exp \in Int
    BY <2>1, StepUpAssumption DEF TypeOK, Payload, Time, LastTime
  <2>6. QED
    BY <2>1, <2>2, <2>3, <2>4, <2>5 DEF Spent, Expired
<1>2. IInv /\ [Next]_vars => [A]_vars
  BY <1>1
<1>3. Spec => [][A]_vars
  BY <1>2, Invariance, PTL DEF Spec
<1> QED BY <1>3 DEF ExpiredForGood
=============================================================================
