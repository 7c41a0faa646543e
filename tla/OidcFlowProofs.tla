------------------------- MODULE OidcFlowProofs -------------------------
(***************************************************************************)
(* What OidcFlow promises, proved for any number of browsers, accounts,    *)
(* identities, providers and callbacks in flight.                          *)
(*                                                                         *)
(* IInv is inductive.  Flows, codes and the audit log only ever grow, and  *)
(* what a callback relies on is about one flow and one code, so it stays   *)
(* true of every callback an action does not touch (RequestsKept).  That   *)
(* the flows keep the promise of SignInFlows follows from IInv, one action *)
(* at a time; what that is worth has been proved of SignInFlows and holds  *)
(* of the code by instantiation.                                           *)
(***************************************************************************)
EXTENDS OidcFlow, TLAPS

\* What flows, codes and the audit log do in every step.
Grows ==
  /\ DOMAIN flows \subseteq DOMAIN flows'
  /\ \A f \in DOMAIN flows : flows'[f] = flows[f]
  /\ DOMAIN codes \subseteq DOMAIN codes'
  /\ \A c \in DOMAIN codes : codes'[c] = codes[c]
  /\ logins \subseteq logins'

\* The part of IInv that is not about callbacks.
CookieOK ==
  /\ cookie \in [Browser -> (DOMAIN flows) \cup {None}]
  /\ \A b \in Browser : cookie[b] # None => flows[cookie[b]].browser = b

TokensOK ==
  /\ tokens \subseteq [browser: Browser, acct: Account, flow: DOMAIN flows]
  /\ \A t \in tokens : <<t.acct, flows[t.flow].provider>> \in logins

TablesOK ==
  /\ registry \in [Provider -> Client \cup {None}]
  /\ rebuilds \in Nat
  /\ owner \in [Identity -> Account \cup {None}]
  /\ logins \subseteq Account \X Provider

\* The part of it that is about one callback.
RequestOK(q) ==
  q.pc # "idle" =>
    /\ q.browser \in Browser /\ q.provider \in Provider
    /\ q.flow \in DOMAIN flows /\ q.code \in DOMAIN codes
    /\ q.pc \in {"record", "issue"} => q.acct # None
    /\ AnswersItsFlow(q)
    /\ q.pc = "issue" => <<q.acct, q.provider>> \in logins

LEMMA Parts ==
  IInv <=> /\ FlowsOK /\ CookieOK /\ TokensOK /\ TablesOK
           /\ req \in [Request -> Req]
           /\ \A r \in Request : RequestOK(req[r])
  BY DEF IInv, TypeOK, CallbacksAnswerTheirFlow, LoginsAudited, CookieOK, TokensOK,
         TablesOK, RequestOK, At

LEMMA PartsNext ==
  ASSUME FlowsOK', CookieOK', TokensOK', TablesOK', req' \in [Request -> Req],
         \A r \in Request : RequestOK(req[r])'
  PROVE  IInv'
  BY DEF IInv, TypeOK, CallbacksAnswerTheirFlow, LoginsAudited, CookieOK, TokensOK,
         TablesOK, RequestOK, At

LEMMA IdleOK == Idle \in Req /\ RequestOK(Idle) /\ RequestOK(Idle)'
  BY DEF Idle, Req, Step, RequestOK

\* The flows and codes of a state: what they are, and where they lead.
LEMMA Lookups ==
  ASSUME FlowsOK
  PROVE  /\ \A f \in DOMAIN flows : f \in Nat /\ flows[f] \in Flow
         /\ \A c \in DOMAIN codes : c \in Nat /\ codes[c] \in Code
                                    /\ codes[c].flow \in DOMAIN flows
<1>1. flows \in Seq(Flow) /\ codes \in Seq(Code)
  BY DEF FlowsOK
<1>2. QED
  BY <1>1 DEF FlowsOK

\* What a callback relies on outlives a step that does not touch it.
LEMMA RequestKept ==
  ASSUME Grows, NEW q \in Req, RequestOK(q)
  PROVE  RequestOK(q)'
<1> SUFFICES ASSUME q.pc # "idle"
             PROVE  RequestOK(q)'
  BY DEF RequestOK
<1>1. q.flow \in DOMAIN flows' /\ flows'[q.flow] = flows[q.flow]
  BY DEF RequestOK, Grows
<1>2. Vouched \subseteq Vouched'
  BY DEF Vouched, Grows
<1>3. AnswersItsFlow(q)'
  BY <1>1, <1>2 DEF RequestOK, AnswersItsFlow
<1>4. QED
  BY <1>1, <1>3 DEF RequestOK, Grows

\* One callback moves on.
LEMMA RequestsKept ==
  ASSUME IInv, Grows, NEW r \in Request, NEW next \in Req,
         req' = [req EXCEPT ![r] = next], RequestOK(next)'
  PROVE  req' \in [Request -> Req] /\ \A q \in Request : RequestOK(req[q])'
<1>1. req \in [Request -> Req] /\ \A q \in Request : RequestOK(req[q])
  BY Parts
<1>2. ASSUME NEW q \in Request
      PROVE  RequestOK(req[q])'
  <2>1. CASE q = r
    <3>1. req'[q] = next
      BY <1>1, <2>1
    <3>2. QED
      BY <3>1 DEF RequestOK, AnswersItsFlow, Vouched
  <2>2. CASE q # r
    <3>1. req'[q] = req[q] /\ req[q] \in Req
      BY <1>1, <2>2
    <3>2. RequestOK(req[q])
      BY <1>1
    <3>3. QED
      BY <3>1, <3>2, RequestKept DEF RequestOK, AnswersItsFlow, Vouched
  <2>3. QED
    BY <2>1, <2>2
<1>3. QED
  BY <1>1, <1>2

\* None does.
LEMMA RequestsUntouched ==
  ASSUME IInv, Grows, UNCHANGED req
  PROVE  req' \in [Request -> Req] /\ \A q \in Request : RequestOK(req[q])'
<1>1. req \in [Request -> Req] /\ \A q \in Request : RequestOK(req[q])
  BY Parts
<1>2. ASSUME NEW q \in Request
      PROVE  RequestOK(req[q])'
  <2>1. RequestOK(req[q]) /\ req[q] \in Req
    BY <1>1
  <2>2. QED
    BY <2>1, RequestKept DEF RequestOK, AnswersItsFlow, Vouched
<1>3. QED
  BY <1>1, <1>2

\* A step that leaves flows and codes alone.
LEMMA FlowsKept ==
  ASSUME FlowsOK, UNCHANGED client, logins \subseteq logins', used' \subseteq DOMAIN codes
  PROVE  Grows /\ FlowsOK'
  BY DEF FlowsOK, client, Grows

\* The response of callback r: it becomes idle, and the cookie is cleared.
LEMMA CookieCleared ==
  ASSUME FlowsOK, CookieOK, UNCHANGED client, NEW b,
         cookie' = [cookie EXCEPT ![b] = None]
  PROVE  CookieOK'
  BY DEF CookieOK, client

\* Nothing but callbacks, the cookie and the tables may change: what is left to
\* show for IInv.
LEMMA Callbacks ==
  ASSUME IInv, NEW r \in Request, NEW next \in Req, req' = [req EXCEPT ![r] = next],
         UNCHANGED client, used' \subseteq DOMAIN codes, logins \subseteq logins',
         RequestOK(next)', CookieOK', TokensOK', TablesOK'
  PROVE  IInv'
<1>1. FlowsOK
  BY Parts
<1>2. Grows /\ FlowsOK'
  BY <1>1, FlowsKept
<1>3. req' \in [Request -> Req] /\ \A q \in Request : RequestOK(req[q])'
  BY <1>2, RequestsKept
<1>4. QED
  BY <1>2, <1>3, PartsNext

-----------------------------------------------------------------------------
(* The actions.  Each lemma states that an action preserves IInv.          *)

\* The three ways to start a flow.
LEMMA AuthorizeURLStep ==
  ASSUME IInv, NEW b \in Browser, NEW p \in Provider, NEW mode \in Mode,
         NEW a \in Account \cup {None}, mode = "link" <=> a # None,
         AuthorizeURL(b, p, mode, a)
  PROVE  IInv'
<1> DEFINE flow == [browser |-> b, provider |-> p, client |-> registry[p],
                    mode |-> mode, acct |-> a]
<1>1. FlowsOK /\ CookieOK /\ TokensOK /\ TablesOK
  BY Parts
<1>2. flow \in Flow
  BY <1>1 DEF AuthorizeURL, TablesOK, Flow
<1>3. /\ flows \in Seq(Flow) /\ flows' = Append(flows, flow)
      /\ cookie' = [cookie EXCEPT ![b] = Len(flows) + 1]
      /\ UNCHANGED <<registry, rebuilds, codes, used, owner, logins, tokens, req>>
  BY <1>1 DEF AuthorizeURL, FlowsOK, provider, tables
<1> HIDE DEF flow
<1>4. /\ DOMAIN flows' = DOMAIN flows \cup {Len(flows) + 1}
      /\ Len(flows) + 1 \notin DOMAIN flows
      /\ \A f \in DOMAIN flows : flows'[f] = flows[f]
      /\ flows'[Len(flows) + 1] = flow
      /\ flows' \in Seq(Flow)
  BY <1>2, <1>3
<1>5. Grows
  BY <1>3, <1>4 DEF Grows
<1>6. flow.mode = "link" <=> flow.acct # None
  BY DEF flow
<1>7. FlowsOK'
  BY <1>1, <1>3, <1>4, <1>6 DEF FlowsOK
<1>8. flow.browser = b
  BY DEF flow
<1>9. CookieOK'
  BY <1>1, <1>3, <1>4, <1>8 DEF CookieOK
<1>10. TokensOK' /\ TablesOK'
  BY <1>1, <1>3, <1>4 DEF TokensOK, TablesOK
<1>11. QED
  BY <1>3, <1>5, <1>7, <1>9, <1>10, RequestsUntouched, PartsNext

LEMMA AuthenticateStep ==
  ASSUME IInv, NEW f \in DOMAIN flows, NEW i \in Identity, Authenticate(f, i)
  PROVE  IInv'
<1> DEFINE code == [flow |-> f, ident |-> i, client |-> flows[f].client]
<1>1. FlowsOK /\ CookieOK /\ TokensOK /\ TablesOK
  BY Parts
<1>2. code \in Code
  BY <1>1, Lookups DEF Code, Flow
<1>3. /\ codes \in Seq(Code) /\ codes' = Append(codes, code)
      /\ flows[f].provider = Issuer[i]
      /\ UNCHANGED <<registry, rebuilds, flows, cookie, used, owner, logins, tokens, req>>
  BY <1>1 DEF Authenticate, FlowsOK, provider, tables
<1>4. code.flow = f /\ code.ident = i
  OBVIOUS
<1> HIDE DEF code
<1>5. /\ DOMAIN codes' = DOMAIN codes \cup {Len(codes) + 1}
      /\ \A c \in DOMAIN codes : codes'[c] = codes[c]
      /\ codes'[Len(codes) + 1] = code
      /\ codes' \in Seq(Code)
  BY <1>2, <1>3
<1>6. Grows
  BY <1>3, <1>5 DEF Grows
<1>7. FlowsOK'
  BY <1>1, <1>3, <1>4, <1>5 DEF FlowsOK
<1>8. CookieOK' /\ TokensOK' /\ TablesOK'
  BY <1>1, <1>3 DEF CookieOK, TokensOK, TablesOK
<1>9. QED
  BY <1>3, <1>6, <1>7, <1>8, RequestsUntouched, PartsNext

\* The steps that only end a callback.
LEMMA EndStep ==
  ASSUME IInv, NEW r \in Request, Fail(r) \/ Lost(r)
  PROVE  IInv'
<1>1. /\ req' = [req EXCEPT ![r] = Idle]
      /\ cookie' = cookie \/ cookie' = [cookie EXCEPT ![req[r].browser] = None]
      /\ UNCHANGED <<registry, rebuilds, client, used, owner, logins, tokens>>
  BY DEF Fail, Lost, Answer, provider, tables
<1>2. FlowsOK /\ CookieOK /\ TokensOK /\ TablesOK
  BY Parts
<1>3. used' \subseteq DOMAIN codes
  BY <1>1, <1>2 DEF FlowsOK
<1>4. CookieOK'
  BY <1>1, <1>2, CookieCleared DEF CookieOK, client
<1>5. TokensOK' /\ TablesOK'
  BY <1>1, <1>2 DEF TokensOK, TablesOK, client
<1>6. QED
  BY <1>1, <1>3, <1>4, <1>5, IdleOK, Callbacks

LEMMA CallbackStep ==
  ASSUME IInv, NEW r \in Request, NEW b \in Browser, NEW p \in Provider,
         NEW c \in DOMAIN codes, NEW f \in DOMAIN flows, Callback(r, b, p, c, f)
  PROVE  IInv'
<1> PICK next : next = [Idle EXCEPT !.pc = "exchange", !.browser = b,
                      !.provider = p, !.code = c, !.flow = f, !.client = registry[p]]
  OBVIOUS
<1>1. FlowsOK /\ CookieOK /\ TokensOK /\ TablesOK
  BY Parts
<1>2. f \in Nat /\ c \in Nat
  BY <1>1, Lookups
<1>3. next \in Req
  BY <1>1, <1>2 DEF Req, Step, Idle, Callback, TablesOK
<1>4. /\ cookie[b] = f /\ flows[f].provider = p
      /\ req' = [req EXCEPT ![r] = next]
      /\ UNCHANGED <<registry, rebuilds, client, flows, codes, cookie, used, owner, logins, tokens>>
  BY DEF Callback, provider, tables, client
<1>5. flows[f].browser = b
  BY <1>1, <1>2, <1>4, OidcFlowAssumption DEF CookieOK
<1>6. next.pc = "exchange" /\ next.browser = b /\ next.provider = p
      /\ next.flow = f /\ next.code = c
  BY DEF Idle
<1>7. RequestOK(next)'
  BY <1>4, <1>5, <1>6 DEF RequestOK, AnswersItsFlow
<1>8. CookieOK' /\ TokensOK' /\ TablesOK' /\ used' \subseteq DOMAIN codes
  BY <1>1, <1>4 DEF CookieOK, TokensOK, TablesOK, FlowsOK
<1>9. QED
  BY <1>3, <1>4, <1>7, <1>8, Callbacks

LEMMA CallbackRefusedStep ==
  ASSUME IInv, NEW b \in Browser, CallbackRefused(b)
  PROVE  IInv'
<1>1. /\ cookie' = [cookie EXCEPT ![b] = None]
      /\ UNCHANGED <<registry, rebuilds, client, used, owner, logins, tokens, req>>
  BY DEF CallbackRefused, provider, tables
<1>2. FlowsOK /\ CookieOK /\ TokensOK /\ TablesOK
  BY Parts
<1>3. Grows /\ FlowsOK'
  BY <1>1, <1>2, FlowsKept DEF FlowsOK
<1>4. CookieOK'
  BY <1>1, <1>2, CookieCleared
<1>5. TokensOK' /\ TablesOK'
  BY <1>1, <1>2 DEF TokensOK, TablesOK, client
<1>6. QED
  BY <1>1, <1>3, <1>4, <1>5, RequestsUntouched, PartsNext

LEMMA ExchangeStep ==
  ASSUME IInv, NEW r \in Request, Exchange(r)
  PROVE  IInv'
<1>1. /\ FlowsOK /\ CookieOK /\ TokensOK /\ TablesOK
      /\ req[r] \in Req /\ RequestOK(req[r]) /\ req[r].pc = "exchange"
  BY Parts DEF Exchange, At
<1>2. /\ used' = used \cup {req[r].code}
      /\ UNCHANGED <<registry, rebuilds, client, owner, logins, tokens>>
  BY DEF Exchange, provider, tables
<1>3. req[r].code \in DOMAIN codes /\ req[r].flow \in DOMAIN flows
  BY <1>1 DEF RequestOK
<1>4. used' \subseteq DOMAIN codes
  BY <1>1, <1>2, <1>3 DEF FlowsOK
<1>5. TokensOK' /\ TablesOK'
  BY <1>1, <1>2 DEF TokensOK, TablesOK, client
<1>6. CASE NonceMatches(r) /\ StepAfter(r) # "idle"
  <2> PICK next : next = [req[r] EXCEPT !.pc = StepAfter(r),
                                        !.ident = codes[req[r].code].ident]
    OBVIOUS
  <2>1. req' = [req EXCEPT ![r] = next] /\ UNCHANGED cookie
    BY <1>6 DEF Exchange
  <2>2. codes[req[r].code] \in Code /\ flows[req[r].flow] \in Flow
    BY <1>1, <1>3, Lookups
  <2>3. /\ next.pc = StepAfter(r) /\ next.ident = codes[req[r].code].ident
        /\ next.flow = req[r].flow /\ next.code = req[r].code
        /\ next.browser = req[r].browser /\ next.provider = req[r].provider
    BY <1>1 DEF Req
  <2>4. \/ StepAfter(r) = "link" /\ flows[req[r].flow].mode = "link"
        \/ StepAfter(r) = "resolve" /\ flows[req[r].flow].mode = "login"
    BY <1>6, <2>2 DEF StepAfter, Flow, Mode
  <2>5. next \in Req
    BY <1>1, <2>2, <2>4 DEF Req, Code, Step
  <2>6. <<next.flow, next.ident>> \in Vouched
    BY <1>3, <1>6, <2>3 DEF NonceMatches, Vouched
  <2>7. RequestOK(next)
    BY <1>1, <2>3, <2>4, <2>6 DEF RequestOK, AnswersItsFlow
  <2>8. Grows
    BY <1>1, <1>2, <1>4, FlowsKept
  <2>9. RequestOK(next)'
    BY <2>5, <2>7, <2>8, RequestKept
  <2>10. CookieOK'
    BY <1>1, <1>2, <2>1 DEF CookieOK, client
  <2>11. QED
    BY <1>2, <1>4, <1>5, <2>1, <2>5, <2>9, <2>10, Callbacks
<1>7. CASE ~(NonceMatches(r) /\ StepAfter(r) # "idle")
  <2>1. req' = [req EXCEPT ![r] = Idle]
        /\ cookie' = [cookie EXCEPT ![req[r].browser] = None]
    BY <1>7 DEF Exchange, Answer
  <2>2. CookieOK'
    BY <1>1, <1>2, <2>1, CookieCleared
  <2>3. QED
    BY <1>2, <1>4, <1>5, <2>1, <2>2, IdleOK, Callbacks
<1>8. QED
  BY <1>6, <1>7

LEMMA HandleLinkModeStep ==
  ASSUME IInv, NEW r \in Request, HandleLinkMode(r)
  PROVE  IInv'
<1>1. /\ FlowsOK /\ CookieOK /\ TokensOK /\ TablesOK
      /\ req[r] \in Req /\ RequestOK(req[r]) /\ req[r].pc = "link"
  BY Parts DEF HandleLinkMode, LinkTo, At
<1>2. PICK a : a = flows[req[r].flow].acct
  OBVIOUS
<1>3. /\ owner' = owner \/ owner' = [owner EXCEPT ![req[r].ident] = a]
      /\ req' = [req EXCEPT ![r] = Idle]
      /\ cookie' = [cookie EXCEPT ![req[r].browser] = None]
      /\ UNCHANGED <<registry, rebuilds, client, used, logins, tokens>>
  BY <1>2 DEF HandleLinkMode, LinkTo, Answer, provider
<1>4. a \in Account
  <2>1. req[r].flow \in DOMAIN flows /\ flows[req[r].flow].mode = "link"
    BY <1>1 DEF RequestOK, AnswersItsFlow
  <2>2. flows[req[r].flow] \in Flow /\ flows[req[r].flow].acct # None
    BY <1>1, <2>1, Lookups DEF FlowsOK
  <2>3. QED
    BY <1>2, <2>2 DEF Flow
<1>5. used' \subseteq DOMAIN codes
  BY <1>1, <1>3 DEF FlowsOK
<1>6. CookieOK'
  BY <1>1, <1>3, CookieCleared
<1>7. TokensOK' /\ TablesOK'
  BY <1>1, <1>3, <1>4 DEF TokensOK, TablesOK, client
<1>8. QED
  BY <1>3, <1>5, <1>6, <1>7, IdleOK, Callbacks

LEMMA ResolveStep ==
  ASSUME IInv, NEW r \in Request, NEW a \in Account, Resolve(r, a)
  PROVE  IInv'
<1> PICK next : next = [req[r] EXCEPT !.pc = "record", !.acct = a]
  OBVIOUS
<1>1. /\ FlowsOK /\ CookieOK /\ TokensOK /\ TablesOK
      /\ req[r] \in Req /\ RequestOK(req[r]) /\ req[r].pc = "resolve"
  BY Parts DEF Resolve, At
<1>2. /\ owner' = [owner EXCEPT ![req[r].ident] = a]
      /\ req' = [req EXCEPT ![r] = next]
      /\ UNCHANGED <<registry, rebuilds, client, cookie, used, logins, tokens>>
  BY DEF Resolve, provider
<1>3. /\ next.pc = "record" /\ next.acct = a /\ next.ident = req[r].ident
      /\ next.flow = req[r].flow /\ next.code = req[r].code
      /\ next.browser = req[r].browser /\ next.provider = req[r].provider
  BY <1>1 DEF Req
<1>4. next \in Req
  BY <1>1 DEF Req, Step
<1>5. RequestOK(next)
  BY <1>1, <1>3, OidcFlowAssumption DEF RequestOK, AnswersItsFlow
<1>6. used' \subseteq DOMAIN codes
  BY <1>1, <1>2 DEF FlowsOK
<1>7. RequestOK(next)'
  BY <1>1, <1>2, <1>4, <1>5, <1>6, FlowsKept, RequestKept
<1>8. CookieOK' /\ TokensOK' /\ TablesOK'
  BY <1>1, <1>2 DEF CookieOK, TokensOK, TablesOK, client
<1>9. QED
  BY <1>2, <1>4, <1>6, <1>7, <1>8, Callbacks

LEMMA RecordLoginStep ==
  ASSUME IInv, NEW r \in Request, RecordLogin(r)
  PROVE  IInv'
<1> PICK next : next = [req[r] EXCEPT !.pc = "issue"]
  OBVIOUS
<1>1. /\ FlowsOK /\ CookieOK /\ TokensOK /\ TablesOK
      /\ req[r] \in Req /\ RequestOK(req[r]) /\ req[r].pc = "record"
  BY Parts DEF RecordLogin, At
<1>2. /\ logins' = logins \cup {<<req[r].acct, req[r].provider>>}
      /\ req' = [req EXCEPT ![r] = next]
      /\ UNCHANGED <<registry, rebuilds, client, cookie, used, owner, tokens>>
  BY DEF RecordLogin, Goto, provider
<1>3. /\ next.pc = "issue" /\ next.acct = req[r].acct /\ next.ident = req[r].ident
      /\ next.flow = req[r].flow /\ next.code = req[r].code
      /\ next.browser = req[r].browser /\ next.provider = req[r].provider
  BY <1>1 DEF Req
<1>4. next \in Req
  BY <1>1 DEF Req, Step
<1>5. req[r].acct \in Account /\ req[r].provider \in Provider
  BY <1>1 DEF RequestOK, Req
<1>6. /\ RequestOK(next)'
  BY <1>1, <1>2, <1>3 DEF RequestOK, AnswersItsFlow, Vouched, client
<1>7. used' \subseteq DOMAIN codes
  BY <1>1, <1>2 DEF FlowsOK
<1>8. CookieOK' /\ TokensOK' /\ TablesOK'
  BY <1>1, <1>2, <1>5 DEF CookieOK, TokensOK, TablesOK, client
<1>9. QED
  BY <1>2, <1>4, <1>6, <1>7, <1>8, Callbacks

LEMMA IssueLocalJWTStep ==
  ASSUME IInv, NEW r \in Request, IssueLocalJWT(r)
  PROVE  IInv'
<1> PICK t : t = [browser |-> req[r].browser, acct |-> req[r].acct, flow |-> req[r].flow]
  OBVIOUS
<1>1. /\ FlowsOK /\ CookieOK /\ TokensOK /\ TablesOK
      /\ req[r] \in Req /\ RequestOK(req[r]) /\ req[r].pc = "issue"
  BY Parts DEF IssueLocalJWT, At
<1>2. /\ tokens' = tokens \cup {t}
      /\ req' = [req EXCEPT ![r] = Idle]
      /\ cookie' = [cookie EXCEPT ![req[r].browser] = None]
      /\ UNCHANGED <<registry, rebuilds, client, used, owner, logins>>
  BY DEF IssueLocalJWT, Answer, provider, tables
<1>3. /\ t \in [browser: Browser, acct: Account, flow: DOMAIN flows]
      /\ t.acct = req[r].acct /\ t.flow = req[r].flow
  BY <1>1 DEF RequestOK, Req
<1>4. <<t.acct, flows[t.flow].provider>> \in logins
  BY <1>1, <1>3 DEF RequestOK, AnswersItsFlow
<1>5. TokensOK' /\ TablesOK'
  BY <1>1, <1>2, <1>3, <1>4 DEF TokensOK, TablesOK, client
<1>6. used' \subseteq DOMAIN codes /\ CookieOK'
  BY <1>1, <1>2, CookieCleared DEF FlowsOK
<1>7. QED
  BY <1>2, <1>5, <1>6, IdleOK, Callbacks

\* What happens meanwhile.
LEMMA MeanwhileStep ==
  ASSUME IInv,
         \/ \E p \in Provider, id \in Client \cup {None} : Rebuild(p, id)
         \/ \E i \in Identity : Unlink(i)
         \/ UNCHANGED vars
  PROVE  IInv'
<1>1. FlowsOK /\ CookieOK /\ TokensOK /\ TablesOK
  BY Parts
<1>2. UNCHANGED <<client, cookie, used, logins, tokens, req>>
  BY DEF Rebuild, Unlink, vars, tables
<1>3. TablesOK'
  BY <1>1 DEF Rebuild, Unlink, vars, tables, provider, TablesOK
<1>4. Grows /\ FlowsOK'
  BY <1>1, <1>2, FlowsKept DEF FlowsOK
<1>5. CookieOK' /\ TokensOK'
  BY <1>1, <1>2 DEF CookieOK, TokensOK, client
<1>6. QED
  BY <1>2, <1>3, <1>4, <1>5, RequestsUntouched, PartsNext

-----------------------------------------------------------------------------
(* The invariants                                                          *)

LEMMA InitInv == Init => IInv
<1> SUFFICES ASSUME Init
             PROVE  IInv
  OBVIOUS
<1>1. FlowsOK /\ CookieOK /\ TokensOK /\ TablesOK
  BY DEF Init, FlowsOK, CookieOK, TokensOK, TablesOK
<1>2. req \in [Request -> Req] /\ \A r \in Request : RequestOK(req[r])
  BY IdleOK DEF Init
<1>3. QED
  BY <1>1, <1>2, Parts

LEMMA NextInv == IInv /\ [Next]_vars => IInv'
<1> SUFFICES ASSUME IInv, [Next]_vars
             PROVE  IInv'
  OBVIOUS
<1>1. ASSUME NEW b \in Browser, NEW p \in Provider, NEW test \in BOOLEAN, Start(b, p, test)
      PROVE  IInv'
  <2>1. PICK mode \in {"login", "test"} : AuthorizeURL(b, p, mode, None)
    BY <1>1 DEF Start
  <2>2. QED
    BY <2>1, AuthorizeURLStep DEF Mode
<1>2. ASSUME NEW b \in Browser, NEW p \in Provider, NEW a \in Account, StartLink(b, p, a)
      PROVE  IInv'
  BY <1>2, AuthorizeURLStep, OidcFlowAssumption DEF StartLink, Mode
<1>3. QED
  BY <1>1, <1>2, CallbackStep, AuthenticateStep, CallbackRefusedStep, ExchangeStep,
     HandleLinkModeStep, ResolveStep, RecordLoginStep, IssueLocalJWTStep, EndStep,
     MeanwhileStep
  DEF Next

\* IInv holds in every state of every behaviour: oidc.go's callbacks, whatever
\* codes, states and cookies meet in them.
THEOREM Invariance == Spec => []IInv
  BY InitInv, NextInv, PTL DEF Spec

\* Every value has its type: what a state, a cookie, a code or a callback refers
\* to is there.
THEOREM TypeCorrect == Spec => []TypeOK
<1>1. IInv => TypeOK
  BY DEF IInv
<1>2. QED
  BY <1>1, Invariance, PTL

\* A callback past its checks answers the flow of its state, in the browser that
\* started it, with an identity its provider vouched for to that flow.
THEOREM CallbacksAnswer == Spec => []CallbacksAnswerTheirFlow
<1>1. IInv => CallbacksAnswerTheirFlow
  BY DEF IInv
<1>2. QED
  BY <1>1, Invariance, PTL

\* No token is handed out without its row in the audit log.
THEOREM EveryLoginAudited == Spec => []LoginsAudited
<1>1. IInv => LoginsAudited
  BY DEF IInv
<1>2. QED
  BY <1>1, Invariance, PTL

-----------------------------------------------------------------------------
(* The refinement                                                          *)

\* A callback that is about to sign its account in.
Entering(q) == q.pc \in {"record", "issue"}

\* How a step of one callback changes the accounts that may enter.
LEMMA ResolvedAfter ==
  ASSUME req \in [Request -> Req], NEW r \in Request, NEW next \in Req,
         req' = [req EXCEPT ![r] = next]
  PROVE  /\ ~Entering(next) => Resolved' \subseteq Resolved
         /\ ~Entering(req[r]) /\ ~Entering(next) => Resolved' = Resolved
         /\ ~Entering(req[r]) /\ Entering(next)
              => Resolved' = Resolved \cup {<<next.flow, next.acct>>}
         /\ Entering(req[r]) /\ Entering(next) /\ next.flow = req[r].flow
            /\ next.acct = req[r].acct
              => Resolved' = Resolved
<1> DEFINE Pair(q) == <<q.flow, q.acct>>
<1>1. /\ Resolved = {Pair(req[q]) : q \in {s \in Request : Entering(req[s])}}
      /\ Resolved' = {Pair(req'[q]) : q \in {s \in Request : Entering(req'[s])}}
  BY DEF Resolved, Entering
<1>2. /\ req'[r] = next
      /\ \A q \in Request \ {r} : req'[q] = req[q]
  OBVIOUS
<1>3. ~Entering(next) => Resolved' \subseteq Resolved
  BY <1>1, <1>2
<1>4. ~Entering(next) /\ ~Entering(req[r]) => Resolved \subseteq Resolved'
  BY <1>1, <1>2
<1>5. ~Entering(req[r]) /\ Entering(next) => Resolved' = Resolved \cup {Pair(next)}
  BY <1>1, <1>2
<1>6. Entering(req[r]) /\ Entering(next) /\ Pair(req[r]) = Pair(next) => Resolved' = Resolved
  BY <1>1, <1>2
<1>7. ~Entering(req[r]) /\ ~Entering(next) => Resolved' = Resolved
  BY <1>3, <1>4
<1>8. next.flow = req[r].flow /\ next.acct = req[r].acct => Pair(req[r]) = Pair(next)
  OBVIOUS
<1>9. Entering(req[r]) /\ Entering(next) /\ next.flow = req[r].flow /\ next.acct = req[r].acct
        => Resolved' = Resolved
  BY <1>6, <1>8
<1>10. QED
  BY <1>3, <1>5, <1>7, <1>9

\* A sequence is a function on an initial segment of the numbers from 1.
LEMMA Sequence ==
  ASSUME NEW S, NEW n \in Nat, NEW s \in [1..n -> S]
  PROVE  s \in Seq(S) /\ Len(s) = n
  OBVIOUS

LEMMA Appended ==
  ASSUME NEW S, NEW s \in Seq(S), NEW e \in S
  PROVE  Append(s, e) = [i \in 1..(Len(s) + 1) |-> IF i \in 1..Len(s) THEN s[i] ELSE e]
<1> DEFINE t == [i \in 1..(Len(s) + 1) |-> IF i \in 1..Len(s) THEN s[i] ELSE e]
<1>1. Append(s, e) \in Seq(S) /\ Len(Append(s, e)) = Len(s) + 1
  OBVIOUS
<1>2. t \in Seq(S) /\ Len(t) = Len(s) + 1
  BY Sequence
<1>3. \A i \in 1..(Len(s) + 1) : Append(s, e)[i] = t[i]
  OBVIOUS
<1> HIDE DEF t
<1>4. Append(s, e) = t
  BY <1>1, <1>2, <1>3
<1>5. QED
  BY <1>4 DEF t

LEMMA RefinementInit == Init => Promise!Init
  BY DEF Init, Promise!Init, Vouched, Resolved, Idle

\* The flows of SignInFlows.
Asked == [f \in DOMAIN flows |-> [browser |-> flows[f].browser,
            provider |-> flows[f].provider, mode |-> flows[f].mode,
            acct |-> flows[f].acct]]

\* A step that changes none of its variables is a stutter.
LEMMA Stutter ==
  ASSUME UNCHANGED <<client, owner, tokens>>, Resolved' = Resolved
  PROVE  UNCHANGED Promise!vars
  BY DEF client, Promise!vars, Vouched

LEMMA RefinesAsk ==
  ASSUME IInv, NEW b \in Browser, NEW p \in Provider, NEW mode \in Mode,
         NEW a \in Account \cup {None}, mode = "link" <=> a # None,
         AuthorizeURL(b, p, mode, a)
  PROVE  Promise!Next
<1> DEFINE flow == [browser |-> b, provider |-> p, client |-> registry[p],
                    mode |-> mode, acct |-> a]
           new == [browser |-> b, provider |-> p, mode |-> mode, acct |-> a]
<1>1. flows \in Seq(Flow) /\ flow \in Flow
  <2>1. FlowsOK /\ TablesOK
    BY Parts
  <2>2. registry[p] \in Client
    BY <2>1 DEF AuthorizeURL, TablesOK
  <2>3. QED
    BY <2>1, <2>2 DEF Flow, FlowsOK
<1>2. flows' = Append(flows, flow) /\ UNCHANGED <<codes, owner, tokens, req>>
  BY DEF AuthorizeURL, tables
<1>3. Asked' = Append(Asked, new)
  <2> DEFINE Question == [browser: Browser, provider: Provider, mode: Mode,
                          acct: Account \cup {None}]
  <2>1. /\ DOMAIN flows = 1..Len(flows) /\ Len(flows) \in Nat
        /\ \A f \in DOMAIN flows : flows[f] \in Flow
    BY <1>1
  <2>2. /\ DOMAIN flows' = 1..(Len(flows) + 1)
        /\ \A f \in 1..Len(flows) : flows'[f] = flows[f]
        /\ flows'[Len(flows) + 1] = flow
    BY <1>1, <1>2
  <2>3. Asked \in [1..Len(flows) -> Question]
    BY <2>1 DEF Asked, Flow
  <2>4. new \in Question
    OBVIOUS
  <2>5. Asked' = [f \in 1..(Len(flows) + 1) |->
                    IF f \in 1..Len(flows) THEN Asked[f] ELSE new]
    <3>1. flow.browser = new.browser /\ flow.provider = new.provider
          /\ flow.mode = new.mode /\ flow.acct = new.acct
      OBVIOUS
    <3>2. ASSUME NEW f \in 1..(Len(flows) + 1)
          PROVE  Asked'[f] = IF f \in 1..Len(flows) THEN Asked[f] ELSE new
      <4>1. Asked'[f] = [browser |-> flows'[f].browser, provider |-> flows'[f].provider,
                         mode |-> flows'[f].mode, acct |-> flows'[f].acct]
        BY <2>2 DEF Asked
      <4>2. CASE f \in 1..Len(flows)
        BY <2>1, <2>2, <4>1, <4>2 DEF Asked
      <4>3. CASE f = Len(flows) + 1
        BY <2>1, <2>2, <4>1, <4>3
      <4>4. QED
        BY <2>1, <4>2, <4>3
    <3>3. QED
      BY <2>2, <3>2 DEF Asked
  <2> HIDE DEF Question, new
  <2>6. Asked \in Seq(Question) /\ Len(Asked) = Len(flows)
    BY <2>1, <2>3, Sequence
  <2>7. QED
    BY <2>4, <2>5, <2>6, Appended
<1>4. Vouched' = Vouched /\ Resolved' = Resolved
  BY <1>2 DEF Vouched, Resolved
<1>5. a = None \/ a \in Account
  OBVIOUS
<1>6. Promise!Ask(new)
  BY <1>2, <1>3, <1>4, <1>5, OidcFlowAssumption DEF Promise!Ask, Asked, Promise!Mode, Mode
<1>7. QED
  BY <1>6 DEF Promise!Next, Promise!Mode, Mode

LEMMA RefinesVouch ==
  ASSUME IInv, NEW f \in DOMAIN flows, NEW i \in Identity, Authenticate(f, i)
  PROVE  Promise!Next
<1> DEFINE code == [flow |-> f, ident |-> i, client |-> flows[f].client]
<1>1. FlowsOK
  BY Parts
<1>2. code \in Code /\ codes \in Seq(Code) /\ codes' = Append(codes, code)
      /\ flows[f].provider = Issuer[i] /\ UNCHANGED <<flows, owner, tokens, req>>
  BY <1>1, Lookups DEF Authenticate, FlowsOK, tables, Code, Flow
<1>3. code.flow = f /\ code.ident = i
  OBVIOUS
<1> HIDE DEF code
<1>4. /\ DOMAIN codes' = DOMAIN codes \cup {Len(codes) + 1}
      /\ Len(codes) + 1 \notin DOMAIN codes
      /\ \A c \in DOMAIN codes : codes'[c] = codes[c]
      /\ codes'[Len(codes) + 1] = code
  BY <1>2
<1>5. Vouched' = Vouched \cup {<<f, i>>}
  BY <1>3, <1>4 DEF Vouched
<1>6. Resolved' = Resolved
  BY <1>2 DEF Resolved
<1>7. Promise!Vouch(f, i)
  BY <1>2, <1>5, <1>6 DEF Promise!Vouch
<1>8. QED
  BY <1>7 DEF Promise!Next

\* A step of callback r in which it is not about to sign in before or after.
LEMMA RefinesNothing ==
  ASSUME IInv, NEW r \in Request,
         \/ \E b \in Browser, p \in Provider, c \in DOMAIN codes, f \in DOMAIN flows :
              Callback(r, b, p, c, f)
         \/ Exchange(r)
         \/ RecordLogin(r)
  PROVE  UNCHANGED Promise!vars
<1>1. req \in [Request -> Req] /\ req' \in [Request -> Req]
  <2>1. ASSUME NEW b \in Browser, NEW p \in Provider, NEW c \in DOMAIN codes,
               NEW f \in DOMAIN flows, Callback(r, b, p, c, f)
        PROVE  IInv'
    BY <2>1, CallbackStep
  <2>2. IInv'
    BY <2>1, ExchangeStep, RecordLoginStep
  <2>3. QED
    BY <2>2 DEF IInv, TypeOK
<1> PICK next : next = req'[r]
  OBVIOUS
<1>2. next \in Req /\ req[r] \in Req
  BY <1>1
<1>3. req' = [req EXCEPT ![r] = next] /\ UNCHANGED <<client, owner, tokens>>
  BY <1>1 DEF Callback, Exchange, Answer, RecordLogin, Goto, tables
<1>4. CASE RecordLogin(r)
  <2>1. req[r].pc = "record" /\ next = [req[r] EXCEPT !.pc = "issue"]
    BY <1>1, <1>4 DEF RecordLogin, Goto, At
  <2>2. Entering(req[r]) /\ Entering(next)
        /\ next.flow = req[r].flow /\ next.acct = req[r].acct
    BY <1>2, <2>1 DEF Entering, Req
  <2>3. QED
    BY <1>1, <1>2, <1>3, <2>2, ResolvedAfter, Stutter
<1>5. CASE ~RecordLogin(r)
  <2>1. req[r].pc \in {"idle", "exchange"}
    BY <1>5 DEF Callback, Exchange, At
  <2>2. next.pc \in {"exchange", "idle", "link", "resolve"}
    <3>1. CASE Exchange(r)
      <4>1. req[r].flow \in DOMAIN flows /\ FlowsOK
        BY <3>1, Parts DEF Exchange, At, RequestOK
      <4>2. StepAfter(r) \in {"idle", "link", "resolve"}
        BY <4>1, Lookups DEF StepAfter, Flow, Mode
      <4>3. QED
        BY <1>1, <3>1, <4>2 DEF Exchange, Answer, Idle, Req
    <3>2. CASE ~Exchange(r)
      <4>1. PICK b \in Browser, p \in Provider, c \in DOMAIN codes, f \in DOMAIN flows :
              Callback(r, b, p, c, f)
        BY <1>5, <3>2
      <4>2. next = [Idle EXCEPT !.pc = "exchange", !.browser = b,
                      !.provider = p, !.code = c, !.flow = f, !.client = registry[p]]
        BY <1>1, <4>1 DEF Callback
      <4>3. QED
        BY <4>2 DEF Idle
    <3>3. QED
      BY <3>1, <3>2
  <2>3. ~Entering(req[r]) /\ ~Entering(next)
    BY <2>1, <2>2 DEF Entering
  <2>4. QED
    BY <1>1, <1>2, <1>3, <2>3, ResolvedAfter, Stutter
<1>6. QED
  BY <1>4, <1>5

LEMMA RefinesLink ==
  ASSUME IInv, NEW r \in Request, HandleLinkMode(r)
  PROVE  [Promise!Next]_(Promise!vars)
<1>1. /\ FlowsOK /\ req \in [Request -> Req] /\ RequestOK(req[r])
      /\ req[r].pc = "link" /\ req[r] \in Req
  BY Parts DEF HandleLinkMode, LinkTo, At
<1> PICK f, i : f = req[r].flow /\ i = req[r].ident
  OBVIOUS
<1>2. /\ req' = [req EXCEPT ![r] = Idle]
      /\ owner' = IF owner[i] = None THEN [owner EXCEPT ![i] = flows[f].acct] ELSE owner
      /\ UNCHANGED <<client, tokens>>
  BY DEF HandleLinkMode, LinkTo, Answer
<1>3. Resolved' = Resolved
  <2>1. ~Entering(req[r]) /\ ~Entering(Idle)
    BY <1>1 DEF Entering, Idle
  <2>2. QED
    BY <1>1, <1>2, <2>1, IdleOK, ResolvedAfter
<1>4. CASE owner[i] = None
  <2>1. f \in DOMAIN flows /\ flows[f].mode = "link" /\ <<f, i>> \in Vouched
    BY <1>1 DEF RequestOK, AnswersItsFlow
  <2>2. i \in Identity
    BY <1>1, <2>1, Lookups DEF Vouched, Code
  <2>3. UNCHANGED <<flows, codes, tokens>>
    BY <1>2 DEF client
  <2>4. owner' = [owner EXCEPT ![i] = flows[f].acct]
    BY <1>2, <1>4
  <2>5. Promise!Link(f, i)
    BY <1>3, <1>4, <2>1, <2>3, <2>4 DEF Promise!Link, Vouched
  <2>6. QED
    BY <2>1, <2>2, <2>5 DEF Promise!Next
<1>5. CASE owner[i] # None
  BY <1>2, <1>3, <1>5, Stutter
<1>6. QED
  BY <1>4, <1>5

LEMMA RefinesRecognize ==
  ASSUME IInv, NEW r \in Request, NEW a \in Account, Resolve(r, a)
  PROVE  Promise!Next
<1> PICK next : next = [req[r] EXCEPT !.pc = "record", !.acct = a]
  OBVIOUS
<1> PICK f, i : f = req[r].flow /\ i = req[r].ident
  OBVIOUS
<1>1. /\ FlowsOK /\ req \in [Request -> Req] /\ RequestOK(req[r])
      /\ req[r].pc = "resolve" /\ req[r] \in Req
  BY Parts DEF Resolve, At
<1>2. /\ req' = [req EXCEPT ![r] = next]
      /\ owner[i] \in {None, a} /\ owner' = [owner EXCEPT ![i] = a]
      /\ UNCHANGED <<client, tokens>>
  BY DEF Resolve
<1>3. next \in Req /\ next.pc = "record" /\ next.flow = f /\ next.acct = a
  BY <1>1 DEF Req, Step
<1>4. Resolved' = Resolved \cup {<<f, a>>}
  <2>1. ~Entering(req[r]) /\ Entering(next)
    BY <1>1, <1>3 DEF Entering
  <2>2. QED
    BY <1>1, <1>2, <1>3, <2>1, ResolvedAfter
<1>5. f \in DOMAIN flows /\ flows[f].mode = "login" /\ <<f, i>> \in Vouched
  BY <1>1 DEF RequestOK, AnswersItsFlow
<1>6. i \in Identity
  BY <1>1, <1>5, Lookups DEF Vouched, Code
<1>7. Promise!Recognize(f, i, a)
  BY <1>2, <1>4, <1>5 DEF Promise!Recognize, client, Vouched
<1>8. QED
  BY <1>5, <1>6, <1>7 DEF Promise!Next

LEMMA RefinesEnter ==
  ASSUME IInv, NEW r \in Request, IssueLocalJWT(r)
  PROVE  Promise!Next
<1> PICK f, a : f = req[r].flow /\ a = req[r].acct
  OBVIOUS
<1>1. /\ FlowsOK /\ req \in [Request -> Req] /\ RequestOK(req[r])
      /\ req[r].pc = "issue" /\ req[r] \in Req
  BY Parts DEF IssueLocalJWT, At
<1>2. /\ req' = [req EXCEPT ![r] = Idle]
      /\ tokens' = tokens \cup {[browser |-> req[r].browser, acct |-> a, flow |-> f]}
      /\ UNCHANGED <<client, owner>>
  BY DEF IssueLocalJWT, Answer, tables
<1>3. Resolved' \subseteq Resolved
  <2>1. ~Entering(Idle)
    BY DEF Entering, Idle
  <2>2. QED
    BY <1>1, <1>2, <2>1, IdleOK, ResolvedAfter
<1>4. f \in DOMAIN flows /\ flows[f].browser = req[r].browser /\ a \in Account
  BY <1>1 DEF RequestOK, AnswersItsFlow, Req
<1>5. <<f, a>> \in Resolved
  BY <1>1 DEF Resolved
<1>6. Promise!Enter(f, a)
  BY <1>2, <1>3, <1>4, <1>5 DEF Promise!Enter, client, Vouched
<1>7. QED
  BY <1>4, <1>6 DEF Promise!Next

LEMMA RefinesGiveUp ==
  ASSUME IInv, NEW r \in Request, Fail(r) \/ Lost(r)
  PROVE  Promise!Next
<1>1. req \in [Request -> Req] /\ req' = [req EXCEPT ![r] = Idle]
      /\ UNCHANGED <<client, owner, tokens>>
  BY DEF IInv, TypeOK, Fail, Lost, Answer, tables
<1>2. Resolved' \subseteq Resolved
  <2>1. ~Entering(Idle)
    BY DEF Entering, Idle
  <2>2. QED
    BY <1>1, <2>1, IdleOK, ResolvedAfter
<1>3. Promise!GiveUp
  BY <1>1, <1>2 DEF Promise!GiveUp, client, Vouched
<1>4. QED
  BY <1>3 DEF Promise!Next

LEMMA RefinesMeanwhile ==
  ASSUME \/ \E b \in Browser : CallbackRefused(b)
         \/ \E p \in Provider, id \in Client \cup {None} : Rebuild(p, id)
         \/ \E i \in Identity : Unlink(i)
         \/ UNCHANGED vars
  PROVE  [Promise!Next]_(Promise!vars)
<1>1. UNCHANGED <<client, tokens, req>>
  BY DEF CallbackRefused, Rebuild, Unlink, vars, tables
<1>2. Resolved' = Resolved
  BY <1>1 DEF Resolved
<1>3. ASSUME NEW i \in Identity, Unlink(i)
      PROVE  Promise!Next
  <2>1. Promise!Unlink(i)
    BY <1>1, <1>2, <1>3 DEF Unlink, Promise!Unlink, client, Vouched
  <2>2. QED
    BY <2>1 DEF Promise!Next
<1>4. CASE UNCHANGED owner
  BY <1>1, <1>2, <1>4, Stutter
<1>5. owner' = owner \/ \E i \in Identity : Unlink(i)
  BY DEF CallbackRefused, Rebuild, vars, tables
<1>6. QED
  BY <1>3, <1>4, <1>5

LEMMA RefinementNext == IInv /\ [Next]_vars => [Promise!Next]_(Promise!vars)
<1> SUFFICES ASSUME IInv, [Next]_vars
             PROVE  [Promise!Next]_(Promise!vars)
  OBVIOUS
<1>1. ASSUME NEW b \in Browser, NEW p \in Provider, NEW test \in BOOLEAN, Start(b, p, test)
      PROVE  Promise!Next
  <2>1. PICK mode \in {"login", "test"} : AuthorizeURL(b, p, mode, None)
    BY <1>1 DEF Start
  <2>2. QED
    BY <2>1, RefinesAsk DEF Mode
<1>2. ASSUME NEW b \in Browser, NEW p \in Provider, NEW a \in Account, StartLink(b, p, a)
      PROVE  Promise!Next
  BY <1>2, RefinesAsk, OidcFlowAssumption DEF StartLink, Mode
<1>3. QED
  BY <1>1, <1>2, RefinesVouch, RefinesNothing, RefinesLink, RefinesRecognize, RefinesEnter,
     RefinesGiveUp, RefinesMeanwhile
  DEF Next

\* The flow of the code, cookies, states and nonces included, implements the
\* signing in that SignInFlows promises: every step of oidc.go is one of its
\* steps, or none.
THEOREM Refinement == Spec => FlowsKeepPromise
  BY RefinementInit, RefinementNext, Invariance, PTL DEF Spec, FlowsKeepPromise, Promise!Spec

\* What SignInFlows is worth, said of the flows of the code.
Worth == INSTANCE SignInFlowsProofs WITH
  asked <- [f \in DOMAIN flows |-> [browser |-> flows[f].browser,
              provider |-> flows[f].provider, mode |-> flows[f].mode,
              acct |-> flows[f].acct]],
  vouched <- Vouched, recognized <- Resolved, sessions <- tokens

\* Worth speaks of the same specification as Promise.
LEMMA WorthOfThePromise ==
  /\ Promise!Init => Worth!Init
  /\ [Promise!Next]_(Promise!vars) => [Worth!Next]_(Worth!vars)
<1>1. Promise!Init => Worth!Init
  BY DEF Promise!Init, Worth!Init
<1>2. ASSUME NEW f
      PROVE  /\ Promise!Ask(f) => Worth!Ask(f)
             /\ \A i : Promise!Vouch(f, i) => Worth!Vouch(f, i)
             /\ \A i : Promise!Link(f, i) => Worth!Link(f, i)
             /\ \A i, a : Promise!Recognize(f, i, a) => Worth!Recognize(f, i, a)
             /\ \A a : Promise!Enter(f, a) => Worth!Enter(f, a)
  <2>1. Promise!Ask(f) => Worth!Ask(f)
    BY Zenon DEF Promise!Ask, Worth!Ask, Promise!Mode, Worth!Mode
  <2>2. \A i : Promise!Vouch(f, i) => Worth!Vouch(f, i)
    BY Zenon DEF Promise!Vouch, Worth!Vouch
  <2>3. \A i : Promise!Link(f, i) => Worth!Link(f, i)
    BY Zenon DEF Promise!Link, Worth!Link
  <2>4. \A i, a : Promise!Recognize(f, i, a) => Worth!Recognize(f, i, a)
    BY Zenon DEF Promise!Recognize, Worth!Recognize
  <2>5. \A a : Promise!Enter(f, a) => Worth!Enter(f, a)
    BY Zenon DEF Promise!Enter, Worth!Enter
  <2>6. QED
    BY <2>1, <2>2, <2>3, <2>4, <2>5
<1>3. Promise!GiveUp => Worth!GiveUp
  BY Zenon DEF Promise!GiveUp, Worth!GiveUp
<1>4. \A i : Promise!Unlink(i) => Worth!Unlink(i)
  BY Zenon DEF Promise!Unlink, Worth!Unlink
<1>5. UNCHANGED Promise!vars => UNCHANGED Worth!vars
  BY DEF Promise!vars, Worth!vars
<1>6. ASSUME Promise!Next
      PROVE  Worth!Next
  <2>1. ASSUME NEW b \in Browser, NEW p \in Provider, NEW m \in Worth!Mode,
               NEW a \in Account \cup {None},
               Promise!Ask([browser |-> b, provider |-> p, mode |-> m, acct |-> a])
        PROVE  Worth!Next
    <3>1. Worth!Ask([browser |-> b, provider |-> p, mode |-> m, acct |-> a])
      BY <1>2, <2>1, Zenon
    <3>2. QED
      BY <3>1, Zenon DEF Worth!Next
  <2>2. ASSUME NEW f \in DOMAIN Asked, NEW i \in Identity,
               \/ Promise!Vouch(f, i) \/ Promise!Link(f, i)
               \/ \E a \in Account : Promise!Recognize(f, i, a)
        PROVE  Worth!Next
    <3>1. \/ Worth!Vouch(f, i) \/ Worth!Link(f, i)
          \/ \E a \in Account : Worth!Recognize(f, i, a)
      BY <1>2, <2>2, Zenon
    <3>2. QED
      BY <3>1, Zenon DEF Worth!Next, Asked
  <2>3. ASSUME NEW f \in DOMAIN Asked, NEW a \in Account, Promise!Enter(f, a)
        PROVE  Worth!Next
    BY <1>2, <2>3, Zenon DEF Worth!Next, Asked
  <2>4. CASE Promise!GiveUp \/ \E i \in Identity : Promise!Unlink(i)
    BY <1>3, <1>4, <2>4, Zenon DEF Worth!Next
  <2>5. QED
    BY <1>6, <2>1, <2>2, <2>3, <2>4, Zenon DEF Promise!Next, Promise!Mode, Worth!Mode, Asked
<1>7. QED
  BY <1>1, <1>5, <1>6

LEMMA SpecWorth == Spec => Worth!Spec
  BY Refinement, WorthOfThePromise, PTL DEF FlowsKeepPromise, Promise!Spec, Worth!Spec

\* Nobody holds a token but the browser that started a flow to sign in, and the
\* provider of that flow has issued a code for it.
TokensEarned ==
  \A t \in tokens :
    /\ t.flow \in DOMAIN flows
    /\ t.browser = flows[t.flow].browser
    /\ flows[t.flow].mode = "login"
    /\ \E c \in DOMAIN codes :
         codes[c].flow = t.flow /\ Issuer[codes[c].ident] = flows[t.flow].provider

LEMMA WorthOfTokens == Worth!SessionsEarned => TokensEarned
<1> SUFFICES ASSUME Worth!SessionsEarned, NEW t \in tokens
             PROVE  /\ t.flow \in DOMAIN flows
                    /\ t.browser = flows[t.flow].browser
                    /\ flows[t.flow].mode = "login"
                    /\ \E c \in DOMAIN codes :
                         codes[c].flow = t.flow /\ Issuer[codes[c].ident] = flows[t.flow].provider
  BY DEF TokensEarned
<1>1. Worth!Earned(t.flow) /\ t.browser = Asked[t.flow].browser
  BY DEF Worth!SessionsEarned, Asked
<1>2. /\ t.flow \in DOMAIN Asked /\ Asked[t.flow].mode = "login"
      /\ \E i \in Identity : <<t.flow, i>> \in Vouched /\ Issuer[i] = Asked[t.flow].provider
  BY <1>1 DEF Worth!Earned, Asked
<1>3. /\ t.flow \in DOMAIN flows
      /\ Asked[t.flow].browser = flows[t.flow].browser
      /\ Asked[t.flow].mode = flows[t.flow].mode
      /\ Asked[t.flow].provider = flows[t.flow].provider
  BY <1>2 DEF Asked
<1>4. PICK i \in Identity : <<t.flow, i>> \in Vouched /\ Issuer[i] = Asked[t.flow].provider
  BY <1>2
<1>5. PICK c \in DOMAIN codes : codes[c].flow = t.flow /\ codes[c].ident = i
  BY <1>4 DEF Vouched
<1>6. QED
  BY <1>1, <1>2, <1>3, <1>4, <1>5

\* However callbacks are repeated, exchanged or cut off, whoever holds a token
\* of the code got it in the browser that asked to sign in, from the provider
\* it asked for.
THEOREM TokensAreEarned == Spec => []TokensEarned
<1>1. Spec => []Worth!SessionsEarned
  BY SpecWorth, Worth!Earning, PTL
<1>2. QED
  BY <1>1, WorthOfTokens, PTL

\* No step of the code gives an identity from one account to another: it has to
\* be unlinked first.
IdentitiesStay ==
  [][\A i \in Identity : owner[i] # None => owner'[i] \in {owner[i], None}]_owner

\* A callback that links an identity, or signs in with one, races with others
\* that do the same and cannot take it from its account.
THEOREM IdentitiesStayPut == Spec => IdentitiesStay
<1>1. [\A i \in Identity : owner[i] # None => owner'[i] \in {owner[i], None}]_(Worth!vars)
        => [\A i \in Identity : owner[i] # None => owner'[i] \in {owner[i], None}]_owner
  BY DEF Worth!vars
<1>2. Spec => Worth!IdentityStays
  BY SpecWorth, Worth!Staying, PTL
<1>3. QED
  BY <1>1, <1>2, PTL DEF Worth!IdentityStays, IdentitiesStay
=============================================================================
