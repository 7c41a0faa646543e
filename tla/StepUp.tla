----------------------------- MODULE StepUp -----------------------------
(***************************************************************************)
(* Step-up tokens: a short-lived, single-use token that a user must        *)
(* present with each change of credentials when step-up is required.       *)
(*                                                                         *)
(* Tokens are signed and stateless; the server keeps, in memory only, the  *)
(* JTIs it has accepted, each with its expiry, and a janitor forgets the   *)
(* expired ones.  A verification first checks the token against the clock, *)
(* then stores its JTI: requests, the clock and the janitor interleave in  *)
(* between.  A request whose token is missing, forged, expired or somebody *)
(* else's is refused and changes nothing, so it is no action here.         *)
(*                                                                         *)
(* One unit of clock is a second: expiries are compared as Unix times.     *)
(***************************************************************************)
EXTENDS Integers

CONSTANTS Account,    \* user accounts
          Token,      \* step-up tokens, named by their JTI
          Call,       \* verifications in flight at once
          None,       \* "not there"
          TTL,        \* StepUpTTL, in seconds
          LastIssue   \* bound: no token is issued after this time

ASSUME StepUpAssumption ==
  /\ TTL \in Nat
  /\ LastIssue \in Nat
  /\ None \notin Token
  /\ None \notin Int

\* Bound: at this time every token has expired, and the clock stops.
LastTime == LastIssue + TTL + 1

Time == 0 .. LastTime

VARIABLES clock,      \* time.Now().Unix()
          issued,     \* issued[t]: the payload of token t, or None
          consumed,   \* the sync.Map: JTI to expiry, or None
          call,       \* call[c]: the token that passed c's checks, or None
          tick,       \* the ticker's channel: a time, or None
          sweep,      \* the janitor's pass over consumed, and what is left of it
          granted     \* history: tokens accepted since the server started

vars == <<clock, issued, consumed, call, tick, sweep, granted>>

Init ==
  /\ clock = 0
  /\ issued = [t \in Token |-> None]
  /\ consumed = [t \in Token |-> None]
  /\ call = [c \in Call |-> None]
  /\ tick = None
  /\ sweep = [now |-> 0, left |-> {}]
  /\ granted = {}

Expired(now, t) == now > issued[t].exp

-----------------------------------------------------------------------------
(* The clock and the tokens *)

Pass ==
  /\ clock < LastTime
  /\ clock' = clock + 1
  /\ UNCHANGED <<issued, consumed, call, tick, sweep, granted>>

IssueStepUpToken(t, a) ==
  /\ issued[t] = None
  /\ clock <= LastIssue
  /\ issued' = [issued EXCEPT ![t] = [acct |-> a, exp |-> clock + TTL]]
  /\ UNCHANGED <<clock, consumed, call, tick, sweep, granted>>

-----------------------------------------------------------------------------
(* VerifyStepUpToken, called by requireStepUp *)

\* Mutant: the signature of the token is not verified.
CheckUnsigned(c, t, a) ==
  /\ call[c] = None
  /\ call' = [call EXCEPT ![c] = t]
  /\ UNCHANGED <<clock, issued, consumed, tick, sweep, granted>>

\* Mutant: the expiry is left to the cache.
CheckAnyTime(c, t, a) ==
  /\ call[c] = None
  /\ issued[t] # None
  /\ issued[t].acct = a
  /\ call' = [call EXCEPT ![c] = t]
  /\ UNCHANGED <<clock, issued, consumed, tick, sweep, granted>>

\* Signature, expiry, purpose and binding to the caller's account.
Check(c, t, a) ==
  /\ call[c] = None
  /\ issued[t] # None
  /\ ~Expired(clock, t)
  /\ issued[t].acct = a
  /\ call' = [call EXCEPT ![c] = t]
  /\ UNCHANGED <<clock, issued, consumed, tick, sweep, granted>>

\* Mutant: the JTI is looked up, but not found for being there.
GrantAgain(c) ==
  LET t == call[c] IN
  /\ t # None
  /\ consumed' = [consumed EXCEPT ![t] = issued[t].exp]
  /\ granted' = granted \cup {t}
  /\ call' = [call EXCEPT ![c] = None]
  /\ UNCHANGED <<clock, issued, tick, sweep>>

\* isConsumedJTI: LoadOrStore stores the JTI of a token it does not find.
Grant(c) ==
  LET t == call[c] IN
  /\ t # None
  /\ consumed[t] = None
  /\ consumed' = [consumed EXCEPT ![t] = issued[t].exp]
  /\ granted' = granted \cup {t}
  /\ call' = [call EXCEPT ![c] = None]
  /\ UNCHANGED <<clock, issued, tick, sweep>>

\* ... and refuses one it finds.
Refuse(c) ==
  /\ call[c] # None
  /\ consumed[call[c]] # None
  /\ call' = [call EXCEPT ![c] = None]
  /\ UNCHANGED <<clock, issued, consumed, tick, sweep, granted>>

-----------------------------------------------------------------------------
(* StartStepUpJanitor *)

\* The ticker fires; a tick that finds the last one unread is dropped.
Tick ==
  /\ tick = None
  /\ tick' = clock
  /\ UNCHANGED <<clock, issued, consumed, call, sweep, granted>>

\* The janitor receives a tick, perhaps a late one, and starts consumed.Range.
StartSweep ==
  /\ sweep.left = {}
  /\ tick # None
  /\ sweep' = [now |-> tick, left |-> Token]
  /\ tick' = None
  /\ UNCHANGED <<clock, issued, consumed, call, granted>>

\* Range visits each key at most once, in no particular order; what it finds
\* stale it deletes.
Visit(t, stale) ==
  /\ t \in sweep.left
  /\ sweep' = [sweep EXCEPT !.left = @ \ {t}]
  /\ consumed' = [consumed EXCEPT ![t] = IF @ # None /\ stale THEN None ELSE @]
  /\ UNCHANGED <<clock, issued, call, tick, granted>>

\* Mutants: an entry is stale as it expires; no entry is ever stale.
PruneEarly(t) == Visit(t, sweep.now >= consumed[t])
PruneNothing(t) == Visit(t, FALSE)

Prune(t) == Visit(t, sweep.now > consumed[t])

\* A restart of the server empties the cache; tokens in users' hands stay valid.
Restart ==
  /\ consumed' = [t \in Token |-> None]
  /\ call' = [c \in Call |-> None]
  /\ tick' = None
  /\ sweep' = [now |-> 0, left |-> {}]
  /\ granted' = {}
  /\ UNCHANGED <<clock, issued>>

-----------------------------------------------------------------------------
Next ==
  \/ Pass
  \/ \E t \in Token, a \in Account : IssueStepUpToken(t, a)
  \/ \E c \in Call, t \in Token, a \in Account : Check(c, t, a)
  \/ \E c \in Call : Grant(c) \/ Refuse(c)
  \/ Tick
  \/ StartSweep
  \/ \E t \in Token : Prune(t)
  \/ Restart

\* Time passes, the ticker ticks, and the janitor's goroutine is scheduled.
Fairness ==
  /\ WF_vars(Pass)
  /\ WF_vars(Tick)
  /\ WF_vars(StartSweep)
  /\ \A t \in Token : WF_vars(Prune(t))

Spec == Init /\ [][Next]_vars /\ Fairness

-----------------------------------------------------------------------------
(* Properties *)

Payload == [acct : Account, exp : Time]

\* Every value has its type; the janitor's times are not ahead of the clock;
\* and the token of a call, of a cache entry and of a grant was issued.
TypeOK ==
  /\ clock \in Time
  /\ issued \in [Token -> Payload \cup {None}]
  /\ consumed \in [Token -> Time \cup {None}]
  /\ call \in [Call -> Token \cup {None}]
  /\ tick \in 0 .. clock \cup {None}
  /\ sweep \in [now : 0 .. clock, left : SUBSET Token]
  /\ granted \subseteq Token
  /\ \A c \in Call : call[c] # None => issued[call[c]] # None
  /\ \A t \in Token : consumed[t] # None => issued[t] # None /\ consumed[t] = issued[t].exp
  /\ \A t \in granted : issued[t] # None

\* The cache remembers every token accepted since the start of the server for
\* as long as the clock would still let it through; the janitor, which may work
\* with a time that has long passed, never forgets one too early.
CacheRemembers ==
  \A t \in granted : ~Expired(clock, t) => consumed[t] # None

\* The inductive conjunction.
IInv == TypeOK /\ CacheRemembers

\* Within one life of the server no token is accepted twice before it expires,
\* however the verifications of it, the janitor and the clock interleave.
NoReplayInTime ==
  [][\A c \in Call :
       Grant(c) => call[c] \notin granted \/ Expired(clock, call[c])]_vars

\* A token that has expired, and that no verification has let through before, is
\* of no use any more: not when the janitor forgets its JTI, and not when a
\* restart empties the cache.  What a restart costs, a used token accepted
\* again, ends with the token's TTL.
Spent(t) == issued[t] # None /\ Expired(clock, t) /\ \A c \in Call : call[c] # t

ExpiredForGood == [][\A t \in Token : Spent(t) => Spent(t)']_vars

\* The cache does not grow for ever: the janitor forgets every JTI.
CacheDrains ==
  \A t \in Token : consumed[t] # None ~> consumed[t] = None
=============================================================================
