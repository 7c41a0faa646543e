--------------------------- MODULE OidcFlow ---------------------------
(***************************************************************************)
(* The authorization-code flow with the OIDC providers: /start, the        *)
(* link-mode start, and /callback, cut at its calls to the provider and to *)
(* the database, with several callbacks in flight, callbacks sent twice,   *)
(* flows in two tabs of one browser, the registry rebuilt and the server   *)
(* restarted underneath.                                                   *)
(*                                                                         *)
(* The server keeps nothing of a flow: all of it is in the signed state,   *)
(* which travels through the provider and comes back twice, as a parameter *)
(* of the callback and in the browser's one oidc_state cookie.  A state is *)
(* the number of its flow here: what it says is in flows, and that nobody  *)
(* else can have signed it is what its MAC is for.  The nonce is fresh per *)
(* flow, so it is the number of the flow, too.                             *)
(*                                                                         *)
(* Which account an e-mail address leads to, and the races of the inserts, *)
(* are the business of EmailCodes and Credentials: a free identity may be  *)
(* given to any account here, be it new or not.  Nor is there a clock: a   *)
(* state may have expired whenever it is presented.                        *)
(***************************************************************************)
EXTENDS Naturals, Sequences, FiniteSets

CONSTANTS Browser, Account, Identity, Provider, Request,
          Issuer,      \* Issuer[i]: the provider identity i belongs to
          Client,      \* client ids the server may be registered under
          MaxFlows,    \* bound: flows started
          MaxCodes,    \* bound: authorization codes issued
          MaxRebuilds, \* bound: changes of the registry
          None

ASSUME OidcFlowAssumption ==
  /\ Issuer \in [Identity -> Provider]
  /\ {MaxFlows, MaxCodes, MaxRebuilds} \subseteq Nat
  /\ None \notin Account \cup Identity \cup Provider \cup Client \cup Browser \cup Nat

VARIABLES registry,   \* registry[p]: client id p is registered with, or None
          rebuilds,   \* changes of the registry so far
          flows,      \* flows[f]: the payload of state f, who started it, how
          cookie,     \* cookie[b]: the state in b's oidc_state cookie, or None
          codes,      \* codes[c]: what the provider issued code c for
          used,       \* codes traded for tokens
          owner,      \* owner[i]: account of identity i's row, or None
          logins,     \* <<a, p>>: login rows of audit_log
          tokens,     \* JWTs handed out: [browser, acct, flow]
          req         \* the callbacks in flight

provider == <<registry, rebuilds>>
client == <<flows, codes>>
tables == <<owner, logins>>
vars == <<provider, client, cookie, used, tables, tokens, req>>

Mode == {"login", "test", "link"}

Flow == [browser: Browser, provider: Provider, client: Client, mode: Mode,
         acct: Account \cup {None}]

Code == [flow: Nat, ident: Identity, client: Client]

Step == {"idle", "exchange", "link", "resolve", "record", "issue"}

\* A callback: who sent it, for which provider, its code and its state; the
\* client id of the ProviderState it holds; the identity the provider vouched
\* for; the account it was resolved to.
Req == [pc: Step, browser: Browser \cup {None}, provider: Provider \cup {None},
        code: Nat, flow: Nat, client: Client \cup {None},
        ident: Identity \cup {None}, acct: Account \cup {None}]

Idle == [pc |-> "idle", browser |-> None, provider |-> None, code |-> 0, flow |-> 0,
         client |-> None, ident |-> None, acct |-> None]

Init ==
  /\ registry \in [Provider -> Client]
  /\ rebuilds = 0
  /\ flows = <<>> /\ codes = <<>> /\ used = {}
  /\ cookie = [b \in Browser |-> None]
  /\ owner = [i \in Identity |-> None]
  /\ logins = {} /\ tokens = {}
  /\ req = [r \in Request |-> Idle]

At(r, step) == req[r].pc = step

Goto(r, step) == req' = [req EXCEPT ![r].pc = step]

\* Every response clears the cookie, whatever it holds by then.
Answer(r) ==
  /\ req' = [req EXCEPT ![r] = Idle]
  /\ cookie' = [cookie EXCEPT ![req[r].browser] = None]

-----------------------------------------------------------------------------
(* Starting a flow                                                         *)

\* A payload is signed, sent to the provider and put into the cookie, where
\* it replaces that of any flow the browser started before.
AuthorizeURL(b, p, mode, a) ==
  /\ registry[p] # None
  /\ Len(flows) < MaxFlows
  /\ flows' = Append(flows, [browser |-> b, provider |-> p, client |-> registry[p],
                             mode |-> mode, acct |-> a])
  /\ cookie' = [cookie EXCEPT ![b] = Len(flows) + 1]
  /\ UNCHANGED <<provider, codes, used, tables, tokens, req>>

\* GET /v1/auth/oidc/{provider}/start, with mode=test or without
Start(b, p, test) == AuthorizeURL(b, p, IF test THEN "test" ELSE "login", None)

\* Mutant: the state does not say whose account the link is for.
StartLinkAnonymous(b, p, a) == AuthorizeURL(b, p, "link", None)

\* POST /v1/self/identities/oidc/{provider}/start, by the user of account a
StartLink(b, p, a) == AuthorizeURL(b, p, "link", a)

\* At the provider somebody signs in as i, on the page flow f leads to: as
\* often as that page is opened.
Authenticate(f, i) ==
  /\ Len(codes) < MaxCodes
  /\ flows[f].provider = Issuer[i]
  /\ codes' = Append(codes, [flow |-> f, ident |-> i, client |-> flows[f].client])
  /\ UNCHANGED <<provider, flows, cookie, used, tables, tokens, req>>

-----------------------------------------------------------------------------
(* The callback                                                            *)

\* The registration of the provider is looked up once more, and kept.  The
\* state must be that of the cookie, of this provider, and not have expired.
Callback(r, b, p, c, f) ==
  /\ At(r, "idle")
  /\ registry[p] # None
  /\ cookie[b] = f
  /\ flows[f].provider = p
  /\ req' = [req EXCEPT ![r] = [Idle EXCEPT !.pc = "exchange", !.browser = b,
       !.provider = p, !.code = c, !.flow = f, !.client = registry[p]]]
  /\ UNCHANGED <<provider, client, cookie, used, tables, tokens>>

\* Any other callback is refused: the user declined at the provider, the
\* provider is gone, the state is missing, expired, not that of the cookie.
CallbackRefused(b) ==
  /\ cookie[b] # None
  /\ cookie' = [cookie EXCEPT ![b] = None]
  /\ UNCHANGED <<provider, client, used, tables, tokens, req>>

\* A code is redeemed once, at its provider, by the client it was issued to.
Redeemable(r) ==
  LET c == codes[req[r].code] IN
  /\ req[r].code \notin used
  /\ flows[c.flow].provider = req[r].provider
  /\ c.client = req[r].client

\* Mutant: the branches of the callback with the one for TestMode left out.
StepAfterTestIgnored(r) == IF flows[req[r].flow].mode = "link" THEN "link" ELSE "resolve"

\* What a callback with an accepted id_token goes on to: the state says it.
StepAfter(r) ==
  CASE flows[req[r].flow].mode = "test" -> "idle"
    [] flows[req[r].flow].mode = "link" -> "link"
    [] flows[req[r].flow].mode = "login" -> "resolve"

\* Mutant: the nonce of the id_token is not compared with the state's.
NonceIgnored(r) == TRUE

NonceMatches(r) == codes[req[r].code].flow = req[r].flow

\* The code is traded for an id_token, its signature and audience verified
\* and its nonce compared.  With a code that cannot be redeemed, and with a
\* provider that does not answer, the callback Fails instead.
Exchange(r) ==
  /\ At(r, "exchange")
  /\ Redeemable(r)
  /\ used' = used \cup {req[r].code}
  /\ IF NonceMatches(r) /\ StepAfter(r) # "idle"
     THEN /\ req' = [req EXCEPT ![r].pc = StepAfter(r),
                                ![r].ident = codes[req[r].code].ident]
          /\ UNCHANGED cookie
     ELSE Answer(r)
  /\ UNCHANGED <<provider, client, tables, tokens>>

\* handleLinkMode gives a free identity to the account the state names.  One
\* that is the account's already is only touched, one of another account
\* refused.
LinkTo(r, a) ==
  LET i == req[r].ident IN
  /\ At(r, "link")
  /\ owner' = IF owner[i] = None THEN [owner EXCEPT ![i] = a] ELSE owner
  /\ Answer(r)
  /\ UNCHANGED <<provider, client, used, logins, tokens>>

HandleLinkMode(r) == LinkTo(r, flows[req[r].flow].acct)

\* The account of the identity.  A free identity comes to the account with
\* its e-mail address, or to a new one.
Resolve(r, a) ==
  LET i == req[r].ident IN
  /\ At(r, "resolve")
  /\ owner[i] \in {None, a}
  /\ owner' = [owner EXCEPT ![i] = a]
  /\ req' = [req EXCEPT ![r].pc = "record", ![r].acct = a]
  /\ UNCHANGED <<provider, client, cookie, used, logins, tokens>>

\* Mutant: the audit row is left out.
RecordNothing(r) ==
  /\ At(r, "record")
  /\ Goto(r, "issue")
  /\ UNCHANGED <<provider, client, cookie, used, tables, tokens>>

\* The token is only handed out when the audit row is committed.
RecordLogin(r) ==
  /\ At(r, "record")
  /\ logins' = logins \cup {<<req[r].acct, req[r].provider>>}
  /\ Goto(r, "issue")
  /\ UNCHANGED <<provider, client, cookie, used, owner, tokens>>

IssueLocalJWT(r) ==
  /\ At(r, "issue")
  /\ tokens' = tokens \cup {[browser |-> req[r].browser, acct |-> req[r].acct,
                             flow |-> req[r].flow]}
  /\ Answer(r)
  /\ UNCHANGED <<provider, client, used, tables>>

\* The callback ends early, with an error response: a missing e-mail address,
\* a failed branch, a database error.
Fail(r) ==
  /\ ~At(r, "idle")
  /\ Answer(r)
  /\ UNCHANGED <<provider, client, used, tables, tokens>>

\* Or without one: the server is restarted, or the browser has gone away.
Lost(r) ==
  /\ ~At(r, "idle")
  /\ req' = [req EXCEPT ![r] = Idle]
  /\ UNCHANGED <<provider, client, cookie, used, tables, tokens>>

-----------------------------------------------------------------------------
(* Meanwhile                                                               *)

\* An administrator changes the client id of a provider, or disables it.
Rebuild(p, id) ==
  /\ rebuilds < MaxRebuilds
  /\ registry' = [registry EXCEPT ![p] = id]
  /\ rebuilds' = rebuilds + 1
  /\ UNCHANGED <<client, cookie, used, tables, tokens, req>>

\* A user unlinks an identity.
Unlink(i) ==
  /\ owner[i] # None
  /\ owner' = [owner EXCEPT ![i] = None]
  /\ UNCHANGED <<provider, client, cookie, used, logins, tokens, req>>

-----------------------------------------------------------------------------
Next ==
  \/ \E b \in Browser, p \in Provider :
       \/ \E test \in BOOLEAN : Start(b, p, test)
       \/ \E a \in Account : StartLink(b, p, a)
       \/ \E r \in Request, c \in DOMAIN codes, f \in DOMAIN flows :
            Callback(r, b, p, c, f)
  \/ \E f \in DOMAIN flows, i \in Identity : Authenticate(f, i)
  \/ \E b \in Browser : CallbackRefused(b)
  \/ \E r \in Request :
       \/ Exchange(r) \/ HandleLinkMode(r) \/ \E a \in Account : Resolve(r, a)
       \/ RecordLogin(r) \/ IssueLocalJWT(r) \/ Fail(r) \/ Lost(r)
  \/ \E p \in Provider, id \in Client \cup {None} : Rebuild(p, id)
  \/ \E i \in Identity : Unlink(i)

Spec == Init /\ [][Next]_vars

-----------------------------------------------------------------------------
(* Properties                                                              *)

FlowsOK ==
  /\ flows \in Seq(Flow)
  /\ \A f \in DOMAIN flows : flows[f].mode = "link" <=> flows[f].acct # None
  /\ codes \in Seq(Code)
  /\ \A c \in DOMAIN codes :
       /\ codes[c].flow \in DOMAIN flows
       /\ flows[codes[c].flow].provider = Issuer[codes[c].ident]
  /\ used \subseteq DOMAIN codes

\* Every value has its type, and every link of a flow, its codes and its
\* callbacks leads somewhere.
TypeOK ==
  /\ registry \in [Provider -> Client \cup {None}]
  /\ rebuilds \in Nat
  /\ FlowsOK
  /\ cookie \in [Browser -> (DOMAIN flows) \cup {None}]
  /\ owner \in [Identity -> Account \cup {None}]
  /\ logins \subseteq Account \X Provider
  /\ tokens \subseteq [browser: Browser, acct: Account, flow: DOMAIN flows]
  /\ req \in [Request -> Req]
  /\ \A r \in Request : ~At(r, "idle") =>
       /\ req[r].browser \in Browser /\ req[r].provider \in Provider
       /\ req[r].flow \in DOMAIN flows /\ req[r].code \in DOMAIN codes
       /\ req[r].pc \in {"record", "issue"} => req[r].acct # None

\* The flows and identities the providers have vouched for.
Vouched == {<<codes[c].flow, codes[c].ident>> : c \in DOMAIN codes}

\* The accounts callbacks have resolved to and are about to sign in.
Resolved ==
  {<<req[r].flow, req[r].acct>> : r \in {s \in Request : req[s].pc \in {"record", "issue"}}}

\* What a callback past Exchange relies on, whatever codes and states the
\* queries paired: its state was issued to the browser that sent it, and the
\* provider vouched for its identity to that very flow, whose kind decides
\* what becomes of it.
AnswersItsFlow(q) ==
  LET flow == flows[q.flow] IN
  /\ flow.browser = q.browser
  /\ flow.provider = q.provider
  /\ q.pc # "exchange" => <<q.flow, q.ident>> \in Vouched
  /\ q.pc = "link" => flow.mode = "link"
  /\ q.pc \in {"resolve", "record", "issue"} => flow.mode = "login"

CallbacksAnswerTheirFlow ==
  /\ \A b \in Browser : cookie[b] # None => flows[cookie[b]].browser = b
  /\ \A r \in Request : ~At(r, "idle") => AnswersItsFlow(req[r])

\* No session without its row in the audit log: a token is handed out only
\* after the row is committed, wherever the callback is cut off.
LoginsAudited ==
  /\ \A r \in Request : At(r, "issue") => <<req[r].acct, req[r].provider>> \in logins
  /\ \A t \in tokens : <<t.acct, flows[t.flow].provider>> \in logins

\* The conjunction is inductive: OidcFlowProofs proves it of every instance.
IInv == TypeOK /\ CallbacksAnswerTheirFlow /\ LoginsAudited

\* The flows keep the promise of SignInFlows: a test of a configuration leaves
\* no trace, an identity is linked only to the account that asked for it, a
\* session is opened only in the browser that asked for it, and for nobody but
\* whom the provider vouched for to that flow.
Promise == INSTANCE SignInFlows WITH
  asked <- [f \in DOMAIN flows |-> [browser |-> flows[f].browser,
              provider |-> flows[f].provider, mode |-> flows[f].mode,
              acct |-> flows[f].acct]],
  vouched <- Vouched, recognized <- Resolved, sessions <- tokens

FlowsKeepPromise == Promise!Spec
=============================================================================
