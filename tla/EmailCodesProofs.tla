------------------------ MODULE EmailCodesProofs ------------------------
(***************************************************************************)
(* What EmailCodes promises of the verification of addresses, proved for   *)
(* any number of accounts, addresses, codes and concurrent requests.       *)
(*                                                                         *)
(* IInv is inductive.  Accounts, codes, proofs and moves only ever grow,   *)
(* and an account that was not moved keeps its address (Grows), so what a  *)
(* request holds stays good (RequestsKept); each action adds what it does  *)
(* to the tables and to its own request.                                   *)
(***************************************************************************)
EXTENDS EmailCodes, TLAPS

\* What accounts, codes and their history do in every step.
Grows ==
  /\ \A a \in Account : Exists(a) => Exists(a)'
  /\ \A a \in Account : Exists(a) => a \in moved' \/ Lower[email'[a]] = Lower[email[a]]
  /\ DOMAIN codes \subseteq DOMAIN codes'
  /\ proved \subseteq proved'
  /\ moved \subseteq moved'

\* The part of IInv that is about one request.
RequestGood(q) ==
  /\ RequestOK(q)
  /\ RequestWitnessed(q)
  /\ q.pc = "store" => Delivers(q.acct, q.email)

\* The part of IInv that is not about requests.
TablesOK ==
  /\ email \in [Account -> Address \cup {None}]
  /\ verified \in [Account -> BOOLEAN]
  /\ \A a \in Account : verified[a] => Exists(a)
  /\ codes \in Seq(Code)
  /\ \A n \in DOMAIN codes : Exists(codes[n].acct) /\ codes[n].purpose \in Storable
  /\ \A n \in DOMAIN codes : Delivers(codes[n].acct, codes[n].to)
  /\ proved \subseteq Account \X Address
  /\ moved \subseteq Account
  /\ VerifiedWitnessed

\* IInv is these two parts.
LEMMA Parts ==
  /\ IInv <=> /\ TablesOK
              /\ req \in [Request -> Req]
              /\ \A r \in Request : RequestGood(req[r])
  /\ IInv' <=> /\ TablesOK'
               /\ (req \in [Request -> Req])'
               /\ \A r \in Request : RequestGood(req[r])'
  BY DEF IInv, TypeOK, TablesOK, RequestsWitnessed, CodesDelivered, RequestGood, At

\* An account that exists has an address.
LEMMA AddressOf ==
  ASSUME TablesOK, NEW a \in Account, Exists(a)
  PROVE  email[a] \in Address
  BY DEF TablesOK, Exists

\* The rows of email_codes.
LEMMA CodesOK ==
  ASSUME TablesOK
  PROVE  \A n \in DOMAIN codes :
           codes[n] \in Code /\ codes[n].acct \in Account /\ codes[n].to \in Address
<1>1. \A n \in DOMAIN codes : codes[n] \in Code
  BY DEF TablesOK
<1>2. QED
  BY <1>1 DEF Code

\* What was witnessed stays witnessed, and what goes to an account's address
\* still does.
LEMMA WitnessKept ==
  ASSUME Grows
  PROVE  /\ \A a \in Account : ProvedSome(a) => ProvedSome(a)'
         /\ \A a \in Account, e \in Address : Witnessed(a, e) => Witnessed(a, e)'
         /\ \A a \in Account, e \in Address : Exists(a) /\ Delivers(a, e) => Delivers(a, e)'
<1>1. \A a \in Account : ProvedSome(a) => ProvedSome(a)'
  BY DEF Grows, ProvedSome
<1>2. \A a \in Account, e \in Address : Witnessed(a, e) => Witnessed(a, e)'
  BY <1>1 DEF Grows, Witnessed, Proved
<1>3. \A a \in Account, e \in Address : Exists(a) /\ Delivers(a, e) => Delivers(a, e)'
  BY DEF Grows, Delivers, Matches
<1>4. QED
  BY <1>1, <1>2, <1>3

\* So a request that has read enough still has.
LEMMA GoodKept ==
  ASSUME Grows, NEW q \in Req, RequestGood(q)
  PROVE  RequestGood(q)'
<1>1. RequestOK(q)'
  BY DEF RequestGood, RequestOK, Grows
<1>2. RequestWitnessed(q)'
  <2>1. q.pc \in {"consume", "markVerified", "update", "link", "verifyAndLink"}
          => q.acct \in Account /\ q.email \in Address /\ Exists(q.acct)
    BY DEF RequestGood, RequestOK, Step
  <2>2. q.pc \in {"markVerified", "link", "verifyAndLink"} => Witnessed(q.acct, q.email)'
    BY <2>1, WitnessKept DEF RequestGood, RequestWitnessed
  <2>3. q.pc = "consume" /\ q.purpose = "verify_email" => Witnessed(q.acct, q.email)'
    BY <2>1, WitnessKept DEF RequestGood, RequestWitnessed
  <2>4. q.pc = "update" /\ q.verified =>
          (Witnessed(q.acct, q.email) \/ (ProvedSome(q.acct) /\ ~Matches(q.acct, q.email)))'
    <3> SUFFICES ASSUME q.pc = "update", q.verified
                 PROVE  (Witnessed(q.acct, q.email)
                          \/ (ProvedSome(q.acct) /\ ~Matches(q.acct, q.email)))'
      OBVIOUS
    <3>1. q.acct \in Account /\ q.email \in Address /\ Exists(q.acct)
      BY <2>1
    <3>2. CASE Witnessed(q.acct, q.email)
      BY <3>1, <3>2, WitnessKept
    <3>3. CASE ProvedSome(q.acct) /\ ~Matches(q.acct, q.email)
      <4>1. ProvedSome(q.acct)'
        BY <3>1, <3>3, WitnessKept
      <4>2. q.acct \in moved' \/ ~Matches(q.acct, q.email)'
        BY <3>1, <3>3 DEF Grows, Matches
      <4>3. QED
        BY <4>1, <4>2 DEF Witnessed
    <3>4. QED
      BY <3>2, <3>3 DEF RequestGood, RequestWitnessed
  <2>5. QED
    BY <2>2, <2>3, <2>4 DEF RequestWitnessed
<1>3. q.pc = "store" => Delivers(q.acct, q.email)'
  <2>1. q.pc = "store" => q.acct \in Account /\ q.email \in Address /\ Exists(q.acct)
    BY DEF RequestGood, RequestOK, Step, Sending
  <2>2. QED
    BY <2>1, WitnessKept DEF RequestGood
<1>4. QED
  BY <1>1, <1>2, <1>3 DEF RequestGood

\* A request that nobody works on is a request, and holds nothing.
LEMMA IdleOK ==
  Idle \in Req /\ RequestGood(Idle) /\ RequestGood(Idle)'
<1>1. Idle \in Req
  BY DEF Idle, Req, Step, Purpose
<1>2. Idle.pc = "idle"
  BY DEF Idle
<1>3. RequestGood(Idle) /\ RequestGood(Idle)'
  BY <1>2 DEF RequestGood, RequestOK, RequestWitnessed
<1>4. QED
  BY <1>1, <1>3

\* One request moves on, or none does, while the tables only grow.
LEMMA RequestsKept ==
  ASSUME IInv, Grows, TablesOK', NEW r \in Request, NEW next \in Req,
         req' = [req EXCEPT ![r] = next], RequestGood(next)'
  PROVE  IInv'
<1>1. req' \in [Request -> Req]
  BY Parts
<1>2. ASSUME NEW q \in Request
      PROVE  RequestGood(req[q])'
  <2>1. req \in [Request -> Req] /\ RequestGood(req[q])
    BY Parts
  <2>2. CASE q = r
    <3>1. req'[q] = next
      BY <2>1, <2>2
    <3>2. QED
      BY <3>1 DEF RequestGood, RequestOK, RequestWitnessed
  <2>3. CASE q # r
    <3>1. req'[q] = req[q] /\ req[q] \in Req
      BY <2>1, <2>3
    <3>2. PICK k \in Req : k = req[q]
      BY <3>1
    <3>3. RequestGood(k)'
      BY <2>1, <3>2, GoodKept DEF RequestGood
    <3>4. req'[q] = k
      BY <3>1, <3>2
    <3>5. QED
      BY <3>3, <3>4 DEF RequestGood, RequestOK, RequestWitnessed
  <2>4. QED
    BY <2>2, <2>3
<1>3. QED
  BY <1>1, <1>2, Parts

\* The same when no request moves.
LEMMA RequestsUntouched ==
  ASSUME IInv, Grows, TablesOK', UNCHANGED req
  PROVE  IInv'
<1>1. req' \in [Request -> Req]
  BY Parts
<1>2. ASSUME NEW q \in Request
      PROVE  RequestGood(req[q])'
  <2>1. req[q] \in Req /\ RequestGood(req[q])
    BY Parts
  <2>2. PICK k \in Req : k = req[q]
    BY <2>1
  <2>3. RequestGood(k)'
    BY <2>1, <2>2, GoodKept DEF RequestGood
  <2>4. req'[q] = k
    BY <2>2
  <2>5. QED
    BY <2>3, <2>4 DEF RequestGood, RequestOK, RequestWitnessed
<1>3. QED
  BY <1>1, <1>2, Parts

\* A step that changes neither the tables nor what was proved keeps them good.
LEMMA TablesKept ==
  ASSUME IInv, UNCHANGED <<users, codes, history>>
  PROVE  Grows /\ TablesOK /\ TablesOK'
<1>1. UNCHANGED <<email, verified, codes, proved, moved>> /\ TablesOK
  BY Parts DEF users, history
<1>2. TablesOK'
  BY <1>1 DEF TablesOK, VerifiedWitnessed, Witnessed, Proved, ProvedSome, Delivers, Matches, Exists
<1>3. QED
  BY <1>1, <1>2 DEF Grows, Exists

\* A step that changes only request r.
LEMMA RequestOnly ==
  ASSUME IInv, NEW r \in Request, NEW next \in Req,
         req' = [req EXCEPT ![r] = next], UNCHANGED <<users, codes, history>>,
         RequestGood(next)
  PROVE  IInv'
<1>1. Grows /\ TablesOK'
  BY TablesKept
<1>2. RequestGood(next)'
  BY <1>1, GoodKept
<1>3. QED
  BY <1>1, <1>2, RequestsKept

\* An address is proved, and nothing else about the tables changes.
LEMMA AddressProved ==
  ASSUME IInv, UNCHANGED <<users, codes, moved>>, NEW a \in Account, NEW e \in Address,
         Prove(a, e)
  PROVE  Grows /\ TablesOK' /\ Witnessed(a, e)'
<1>1. UNCHANGED <<email, verified, codes, moved>> /\ TablesOK
  BY Parts DEF users
<1>2. Lower[e] \in Address
  BY EmailCodesAssumption
<1>3. /\ proved \subseteq proved' /\ <<a, Lower[e]>> \in proved'
      /\ proved' \subseteq Account \X Address
  BY <1>1, <1>2 DEF Prove, TablesOK
<1>4. Grows
  BY <1>1, <1>3 DEF Grows, Exists
<1>5. VerifiedWitnessed'
  <2>1. ASSUME NEW b \in Account, verified'[b]
        PROVE  Witnessed(b, email[b])'
    <3>1. Witnessed(b, email[b]) /\ email[b] \in Address
      BY <1>1, <2>1, AddressOf DEF TablesOK, VerifiedWitnessed
    <3>2. PICK k \in Address : k = email[b]
      BY <3>1
    <3>3. Witnessed(b, k)'
      BY <1>4, <3>1, <3>2, WitnessKept DEF Witnessed, Proved
    <3>4. QED
      BY <1>1, <3>2, <3>3 DEF Witnessed, Proved
  <2>2. QED
    BY <2>1 DEF VerifiedWitnessed
<1>6. TablesOK'
  BY <1>1, <1>3, <1>5 DEF TablesOK, Delivers, Matches, Exists
<1>7. QED
  BY <1>3, <1>4, <1>6 DEF Witnessed, Proved

-----------------------------------------------------------------------------
(* Writes of the tables                                                    *)

\* The columns of one account are written, for a witnessed verification.
LEMMA UsersWritten ==
  ASSUME IInv, NEW a \in Account, NEW e \in Address, NEW v \in BOOLEAN,
         UpdateUserAccount(a, e, v), codes' = codes, proved \subseteq proved',
         proved' \subseteq Account \X Address, v => Witnessed(a, e)'
  PROVE  Grows /\ TablesOK'
<1>1. /\ email' = [email EXCEPT ![a] = e] /\ verified' = [verified EXCEPT ![a] = v]
      /\ moved' = IF Exists(a) /\ ~Matches(a, e) THEN moved \cup {a} ELSE moved
      /\ TablesOK
  BY Parts DEF UpdateUserAccount
<1>2. /\ email' \in [Account -> Address \cup {None}] /\ verified' \in [Account -> BOOLEAN]
      /\ email'[a] = e /\ verified'[a] = v
      /\ \A b \in Account \ {a} : email'[b] = email[b] /\ verified'[b] = verified[b]
  BY <1>1 DEF TablesOK
<1>3. \A b \in Account : (b = a \/ Exists(b)) => Exists(b)'
  BY <1>2, EmailCodesAssumption DEF Exists
<1>4. moved \subseteq moved' /\ moved' \subseteq Account
  BY <1>1 DEF TablesOK
<1>5. \A b \in Account : Exists(b) => b \in moved' \/ Lower[email'[b]] = Lower[email[b]]
  BY <1>1, <1>2 DEF Matches
<1>6. Grows
  BY <1>3, <1>4, <1>5 DEF Grows
<1>7. VerifiedWitnessed'
  <2>1. ASSUME NEW b \in Account, verified'[b]
        PROVE  Witnessed(b, email[b])'
    <3>1. CASE b = a
      BY <1>2, <2>1, <3>1 DEF Witnessed, Proved
    <3>2. CASE b # a
      <4>1. Witnessed(b, email[b]) /\ email[b] \in Address
        BY <1>1, <1>2, <2>1, <3>2, AddressOf DEF TablesOK, VerifiedWitnessed
      <4>2. PICK k \in Address : k = email[b]
        BY <4>1
      <4>3. Witnessed(b, k)'
        BY <1>6, <4>1, <4>2, WitnessKept DEF Witnessed, Proved
      <4>4. QED
        BY <1>2, <3>2, <4>2, <4>3 DEF Witnessed, Proved
    <3>3. QED
      BY <3>1, <3>2
  <2>2. QED
    BY <2>1 DEF VerifiedWitnessed
<1>8. \A n \in DOMAIN codes' : /\ Exists(codes[n].acct)' /\ codes'[n].purpose \in Storable
                               /\ Delivers(codes[n].acct, codes[n].to)'
  <2>1. TAKE n \in DOMAIN codes'
  <2>2. codes[n].acct \in Account /\ codes[n].to \in Address
    BY <1>1, CodesOK
  <2>3. PICK b \in Account, k \in Address : b = codes[n].acct /\ k = codes[n].to
    BY <2>2
  <2>4. Exists(b) /\ Delivers(b, k) /\ codes[n].purpose \in Storable
    BY <1>1, <2>3 DEF TablesOK
  <2>5. Exists(b)' /\ Delivers(b, k)'
    BY <1>6, <2>4, WitnessKept DEF Grows
  <2>6. QED
    BY <2>3, <2>4, <2>5 DEF Exists, Delivers, Matches
<1>9. \A b \in Account : verified'[b] => Exists(b)'
  BY <1>1, <1>2, <1>3 DEF TablesOK
<1>10. QED
  BY <1>1, <1>2, <1>4, <1>6, <1>7, <1>8, <1>9 DEF TablesOK

\* A new row of user_accounts, not verified.
LEMMA UserInserted ==
  ASSUME IInv, NEW a \in Account, NEW e \in Address, ~Exists(a),
         email' = [email EXCEPT ![a] = e], UNCHANGED <<verified, codes, history>>
  PROVE  Grows /\ TablesOK'
<1>1. UNCHANGED <<verified, codes, proved, moved>> /\ TablesOK
  BY Parts DEF history
<1>2. /\ email' \in [Account -> Address \cup {None}]
      /\ \A b \in Account : Exists(b) => b # a /\ email'[b] = email[b] /\ Exists(b)'
      /\ \A b \in Account : verified[b] => Exists(b)
  BY <1>1 DEF TablesOK, Exists
<1>3. Grows
  BY <1>1, <1>2 DEF Grows
<1>4. VerifiedWitnessed'
  BY <1>1, <1>2 DEF TablesOK, VerifiedWitnessed, Witnessed, Proved, ProvedSome
<1>5. \A n \in DOMAIN codes' : /\ Exists(codes[n].acct)' /\ codes'[n].purpose \in Storable
                               /\ Delivers(codes[n].acct, codes[n].to)'
  BY <1>1, <1>2, CodesOK DEF TablesOK, Delivers, Matches, Exists
<1>6. QED
  BY <1>1, <1>2, <1>3, <1>4, <1>5 DEF TablesOK

\* Send, Expire and ConsumeEmailCode set a flag of one code.
LEMMA CodeFlagged ==
  ASSUME IInv, NEW n \in DOMAIN codes, NEW code \in Code,
         code.acct = codes[n].acct, code.to = codes[n].to, code.purpose = codes[n].purpose,
         codes' = [codes EXCEPT ![n] = code], UNCHANGED <<users, history>>
  PROVE  Grows /\ TablesOK'
<1>1. UNCHANGED <<email, verified, proved, moved>> /\ TablesOK
  BY Parts DEF users, history
<1>2. codes \in Seq(Code) /\ codes' \in Seq(Code) /\ DOMAIN codes' = DOMAIN codes
  BY <1>1 DEF TablesOK
<1>3. \A m \in DOMAIN codes : codes'[m] = IF m = n THEN code ELSE codes[m]
  BY <1>2
<1>4. \A m \in DOMAIN codes' : /\ codes'[m].acct = codes[m].acct /\ codes'[m].to = codes[m].to
                               /\ codes'[m].purpose = codes[m].purpose
  BY <1>2, <1>3
<1>5. Grows
  BY <1>1, <1>2 DEF Grows, Exists
<1>6. VerifiedWitnessed'
  BY <1>1 DEF TablesOK, VerifiedWitnessed, Witnessed, Proved, ProvedSome
<1>7. \A m \in DOMAIN codes' :
        (Exists(codes[m].acct) /\ codes[m].purpose \in Storable
          /\ Delivers(codes[m].acct, codes[m].to))'
  BY <1>1, <1>2, <1>4 DEF TablesOK, Delivers, Matches, Exists
<1>8. QED
  BY <1>1, <1>2, <1>5, <1>6, <1>7 DEF TablesOK, Exists

-----------------------------------------------------------------------------
(* The actions.  Each lemma states that an action preserves IInv.          *)

\* The actions that end a request and write nothing.
LEMMA FinishStep ==
  ASSUME IInv, NEW r \in Request,
         Cancelled(r) \/ CreateEmailCodeRefused(r) \/ LinkIdentity(r) \/ Fail(r)
  PROVE  IInv'
  BY IdleOK, RequestOnly
  DEF Cancelled, CreateEmailCodeRefused, LinkIdentity, Fail, Finish

\* What a goroutine that looks an address up starts with.
LEMMA LookupOK ==
  ASSUME NEW e \in Address, NEW p \in Purpose, NEW detached \in BOOLEAN
  PROVE  \E next \in Req :
           /\ next = [Idle EXCEPT !.pc = "lookup", !.email = e,
                                  !.purpose = p, !.detached = detached]
           /\ RequestGood(next) /\ RequestGood(next)'
<1>1. PICK next : next = [Idle EXCEPT !.pc = "lookup", !.email = e,
                                      !.purpose = p, !.detached = detached]
  OBVIOUS
<1>2. next \in Req /\ next.pc = "lookup" /\ next.email = e
  BY <1>1 DEF Idle, Req, Step, Sending
<1>3. RequestGood(next) /\ RequestGood(next)'
  BY <1>2 DEF RequestGood, RequestOK, RequestWitnessed
<1>4. QED
  BY <1>1, <1>2, <1>3

LEMMA RegisterStep ==
  ASSUME IInv, NEW r \in Request, NEW a \in Account, NEW e \in LowerCase, Register(r, a, e)
  PROVE  IInv'
<1>1. e \in Address
  BY EmailCodesAssumption DEF LowerCase
<1>2. PICK next \in Req :
        /\ next = [Idle EXCEPT !.pc = "lookup", !.email = e,
                               !.purpose = "verify_email", !.detached = TRUE]
        /\ RequestGood(next)'
  BY <1>1, LookupOK DEF Purpose
<1>3. Grows /\ TablesOK'
  BY <1>1, UserInserted DEF Register
<1>4. req' = [req EXCEPT ![r] = next]
  BY <1>2 DEF Register, Start
<1>5. QED
  BY <1>2, <1>3, <1>4, RequestsKept

LEMMA CreateStep ==
  ASSUME IInv, NEW a \in Account, NEW e \in LowerCase, Create(a, e)
  PROVE  IInv'
<1>1. e \in Address
  BY EmailCodesAssumption DEF LowerCase
<1>2. Grows /\ TablesOK' /\ UNCHANGED req
  BY <1>1, UserInserted DEF Create
<1>3. QED
  BY <1>2, RequestsUntouched

\* EmailCodeRequest and PasswordResetRequest.
LEMMA SendCodeStep ==
  ASSUME IInv, NEW r \in Request, NEW e \in LowerCase, NEW p \in Purpose,
         NEW detached \in BOOLEAN, SendCode(r, e, p, detached)
  PROVE  IInv'
<1>1. e \in Address
  BY EmailCodesAssumption DEF LowerCase
<1>2. PICK next \in Req :
        /\ next = [Idle EXCEPT !.pc = "lookup", !.email = e, !.purpose = p,
                               !.detached = detached]
        /\ RequestGood(next)
  BY <1>1, LookupOK
<1>3. req' = [req EXCEPT ![r] = next] /\ UNCHANGED <<users, codes, history>>
  BY <1>2 DEF SendCode, Start
<1>4. QED
  BY <1>2, <1>3, RequestOnly

LEMMA StepUpRequestStep ==
  ASSUME IInv, NEW r \in Request, NEW a \in Account, StepUpRequest(r, a)
  PROVE  IInv'
<1>1. PICK next : next = [Idle EXCEPT !.pc = "store", !.acct = a, !.email = email[a],
                                      !.purpose = "credential_change"]
  OBVIOUS
<1>2. Exists(a) /\ email[a] \in Address
  BY Parts, AddressOf DEF StepUpRequest
<1>3. next \in Req /\ next.pc = "store" /\ next.acct = a /\ next.email = email[a]
  BY <1>1, <1>2 DEF Idle, Req, Step, Sending, Purpose
<1>4. RequestGood(next)
  BY <1>2, <1>3 DEF RequestGood, RequestOK, RequestWitnessed, Delivers, Matches
<1>5. req' = [req EXCEPT ![r] = next] /\ UNCHANGED <<users, codes, history>>
  BY <1>1 DEF StepUpRequest, Start
<1>6. QED
  BY <1>3, <1>4, <1>5, RequestOnly

LEMMA ContextEndsStep ==
  ASSUME IInv, NEW r \in Request, ContextEnds(r)
  PROVE  IInv'
<1>1. PICK next : next = [req[r] EXCEPT !.alive = FALSE]
  OBVIOUS
<1>2. req \in [Request -> Req] /\ RequestGood(req[r])
  BY Parts
<1>3. /\ next \in Req /\ next.pc = req[r].pc /\ next.acct = req[r].acct
      /\ next.email = req[r].email /\ req[r].pc \in {"lookup", "store"}
  BY <1>1, <1>2 DEF Req, ContextEnds
<1>4. RequestGood(next)
  BY <1>2, <1>3 DEF RequestGood, RequestOK, RequestWitnessed
<1>5. req' = [req EXCEPT ![r] = next] /\ UNCHANGED <<users, codes, history>>
  BY <1>1, <1>2 DEF ContextEnds
<1>6. QED
  BY <1>3, <1>4, <1>5, RequestOnly

\* The goroutine goes on with the row's own address.
LEMMA LookupStep ==
  ASSUME IInv, NEW r \in Request, Lookup(r)
  PROVE  IInv'
<1>1. ASSUME NEW a \in Account, Matches(a, req[r].email),
             req' = [req EXCEPT ![r].pc = "store", ![r].acct = a, ![r].email = email[a]],
             UNCHANGED <<users, codes, history>>
      PROVE  IInv'
  <2>1. PICK next : next = [req[r] EXCEPT !.pc = "store", !.acct = a, !.email = email[a]]
    OBVIOUS
  <2>2. req \in [Request -> Req] /\ Exists(a) /\ email[a] \in Address
    BY <1>1, Parts, AddressOf DEF Matches
  <2>3. next \in Req /\ next.pc = "store" /\ next.acct = a /\ next.email = email[a]
    BY <2>1, <2>2 DEF Req, Step, Sending
  <2>4. RequestGood(next)
    BY <2>2, <2>3 DEF RequestGood, RequestOK, RequestWitnessed, Delivers, Matches
  <2>5. req' = [req EXCEPT ![r] = next]
    BY <1>1, <2>1, <2>2
  <2>6. QED
    BY <1>1, <2>3, <2>4, <2>5, RequestOnly
<1>2. ASSUME Finish(r), UNCHANGED <<users, codes, history>>
      PROVE  IInv'
  BY <1>2, IdleOK, RequestOnly DEF Finish
<1>3. QED
  BY <1>1, <1>2 DEF Lookup

LEMMA CreateEmailCodeStep ==
  ASSUME IInv, NEW r \in Request, CreateEmailCode(r)
  PROVE  IInv'
<1>1. /\ TablesOK /\ RequestGood(req[r]) /\ req[r] \in Req /\ req[r].pc = "store"
      /\ UNCHANGED <<email, verified, proved, moved>>
  BY Parts DEF CreateEmailCode, At, users, history
<1>2. PICK code : code = [acct |-> req[r].acct, to |-> req[r].email,
                          purpose |-> req[r].purpose, mailed |-> FALSE, active |-> TRUE]
  OBVIOUS
<1>3. /\ code \in Code /\ Exists(code.acct) /\ code.purpose \in Storable
      /\ Delivers(code.acct, code.to)
  BY <1>1, <1>2
  DEF CreateEmailCode, RequestGood, RequestOK, Req, Code, Step, Sending
<1>4. codes \in Seq(Code) /\ Len(codes) \in Nat /\ codes' = Append(codes, code)
  BY <1>1, <1>2 DEF CreateEmailCode, TablesOK
<1>5. /\ codes' \in Seq(Code) /\ DOMAIN codes' = 1..(Len(codes) + 1)
      /\ DOMAIN codes = 1..Len(codes)
      /\ \A n \in 1..Len(codes) : codes'[n] = codes[n]
      /\ codes'[Len(codes) + 1] = code
  BY <1>3, <1>4
<1>6. PICK next \in Req : next = [Idle EXCEPT !.pc = "send", !.code = Len(codes) + 1]
  <2>1. PICK k \in Nat : k = Len(codes) + 1
    BY <1>4
  <2>2. [Idle EXCEPT !.pc = "send", !.code = k] \in Req
    BY DEF Idle, Req, Step, Sending, Purpose
  <2>3. QED
    BY <2>1, <2>2
<1>7. next.pc = "send" /\ next.code = Len(codes) + 1
  BY <1>6 DEF Idle
<1>8. RequestGood(next)'
  BY <1>4, <1>5, <1>7 DEF RequestGood, RequestOK, RequestWitnessed
<1>9. req' = [req EXCEPT ![r] = next]
  BY <1>6 DEF CreateEmailCode
<1>10. Grows
  BY <1>1, <1>5 DEF Grows, Exists
<1>11. \A n \in DOMAIN codes' :
         (Exists(codes[n].acct) /\ codes[n].purpose \in Storable
           /\ Delivers(codes[n].acct, codes[n].to))'
  <2>1. TAKE n \in DOMAIN codes'
  <2>2. CASE n \in 1..Len(codes)
    BY <1>1, <1>5, <2>2 DEF TablesOK, Delivers, Matches, Exists
  <2>3. CASE n = Len(codes) + 1
    BY <1>1, <1>3, <1>5, <2>3 DEF Delivers, Matches, Exists
  <2>4. QED
    BY <1>4, <1>5, <2>2, <2>3
<1>12. VerifiedWitnessed'
  BY <1>1 DEF TablesOK, VerifiedWitnessed, Witnessed, Proved, ProvedSome
<1>13. TablesOK'
  BY <1>1, <1>5, <1>11, <1>12 DEF TablesOK, Exists
<1>14. QED
  BY <1>8, <1>9, <1>10, <1>13, RequestsKept

LEMMA SendStep ==
  ASSUME IInv, NEW r \in Request, Send(r)
  PROVE  IInv'
<1>1. req[r].code \in DOMAIN codes /\ codes \in Seq(Code)
  BY Parts DEF Send, At, TablesOK, RequestGood, RequestOK
<1>2. PICK n \in DOMAIN codes : n = req[r].code
  BY <1>1
<1>3. codes[n] \in Code
  BY <1>1
<1>4. PICK code : code = [codes[n] EXCEPT !.mailed = TRUE]
  OBVIOUS
<1>5. /\ code \in Code /\ code.acct = codes[n].acct /\ code.to = codes[n].to
      /\ code.purpose = codes[n].purpose
  BY <1>3, <1>4 DEF Code
<1>6. codes' = [codes EXCEPT ![n] = code] /\ UNCHANGED <<users, history>>
  BY <1>1, <1>2, <1>4 DEF Send
<1>7. Grows /\ TablesOK'
  BY <1>5, <1>6, CodeFlagged
<1>8. QED
  BY <1>7, IdleOK, RequestsKept DEF Send, Finish

LEMMA ExpireStep ==
  ASSUME IInv, NEW n \in DOMAIN codes, Expire(n)
  PROVE  IInv'
<1>1. codes[n] \in Code /\ codes \in Seq(Code)
  BY Parts DEF TablesOK
<1>2. PICK code : code = [codes[n] EXCEPT !.active = FALSE]
  OBVIOUS
<1>3. /\ code \in Code /\ code.acct = codes[n].acct /\ code.to = codes[n].to
      /\ code.purpose = codes[n].purpose
  BY <1>1, <1>2 DEF Code
<1>4. codes' = [codes EXCEPT ![n] = code] /\ UNCHANGED <<users, history>> /\ UNCHANGED req
  BY <1>1, <1>2 DEF Expire
<1>5. QED
  BY <1>3, <1>4, CodeFlagged, RequestsUntouched

\* Somebody typed the code in, which went to the account's address, or else the
\* account has been moved since: either way the request is witnessed.
LEMMA GetActiveEmailCodeStep ==
  ASSUME IInv, NEW r \in Request, NEW a \in Account, NEW n \in DOMAIN codes,
         GetActiveEmailCode(r, a, n)
  PROVE  IInv'
<1>1. /\ TablesOK /\ codes[n] \in Code /\ codes[n].acct = a /\ codes[n].to \in Address
      /\ Delivers(a, codes[n].to) /\ Exists(a) /\ email[a] \in Address
  <2>1. TablesOK /\ Exists(a) /\ codes[n].acct = a
    BY Parts DEF GetActiveEmailCode, Newest, Active
  <2>2. QED
    BY <2>1, CodesOK, AddressOf DEF TablesOK
<1>2. PICK next : next = [Idle EXCEPT !.pc = "consume", !.acct = a, !.email = email[a],
                                      !.purpose = codes[n].purpose, !.code = n]
  OBVIOUS
<1>3. /\ IF codes[n].purpose = "verify_email"
           THEN Prove(a, codes[n].to) ELSE UNCHANGED proved
      /\ UNCHANGED <<users, codes, moved>> /\ req' = [req EXCEPT ![r] = next]
  BY <1>1, <1>2 DEF GetActiveEmailCode, Entered, Start
<1>4. /\ next \in Req /\ next.pc = "consume" /\ next.acct = a /\ next.email = email[a]
      /\ next.purpose = codes[n].purpose /\ next.code = n
  <2>1. codes[n].purpose \in Purpose /\ n \in Nat
    BY <1>1 DEF Code, TablesOK
  <2>2. QED
    BY <1>1, <1>2, <2>1 DEF Idle, Req, Step
<1>5. Grows /\ TablesOK' /\ (next.purpose = "verify_email" => Witnessed(a, next.email)')
  <2>1. CASE codes[n].purpose = "verify_email"
    <3>1. Grows /\ TablesOK'
      BY <1>1, <1>3, <2>1, AddressProved
    <3>2. <<a, Lower[codes[n].to]>> \in proved' /\ moved' = moved
      BY <1>3, <2>1 DEF Prove
    <3>3. CASE a \in moved
      <4>1. Lower[codes[n].to] \in Address
        BY <1>1, EmailCodesAssumption
      <4>2. QED
        BY <3>1, <3>2, <3>3, <4>1 DEF Witnessed, ProvedSome
    <3>4. CASE Lower[codes[n].to] = Lower[email[a]]
      BY <1>4, <3>1, <3>2, <3>4 DEF Witnessed, Proved
    <3>5. QED
      BY <1>1, <3>3, <3>4 DEF Delivers, Matches
  <2>2. CASE codes[n].purpose # "verify_email"
    <3>1. UNCHANGED <<users, codes, history>>
      BY <1>3, <2>2 DEF history
    <3>2. QED
      BY <1>4, <2>2, <3>1, TablesKept
  <2>3. QED
    BY <2>1, <2>2
<1>6. RequestGood(next)'
  <2>1. RequestOK(next)'
    BY <1>1, <1>3, <1>4, <1>5 DEF RequestOK, Grows
  <2>2. RequestWitnessed(next)'
    BY <1>4, <1>5 DEF RequestWitnessed
  <2>3. QED
    BY <1>4, <2>1, <2>2 DEF RequestGood
<1>7. QED
  BY <1>3, <1>4, <1>5, <1>6, RequestsKept

LEMMA ConsumeEmailCodeStep ==
  ASSUME IInv, NEW r \in Request, ConsumeEmailCode(r)
  PROVE  IInv'
<1>1. /\ req[r].code \in DOMAIN codes /\ codes \in Seq(Code) /\ req[r] \in Req
      /\ RequestGood(req[r]) /\ req[r].pc = "consume" /\ req \in [Request -> Req]
  BY Parts DEF ConsumeEmailCode, At, TablesOK, RequestGood, RequestOK
<1>2. Grows /\ TablesOK'
  <2>1. CASE UNCHANGED codes
    <3>1. UNCHANGED <<users, codes, history>>
      BY <2>1 DEF ConsumeEmailCode
    <3>2. QED
      BY <3>1, TablesKept
  <2>2. CASE codes' = [codes EXCEPT ![req[r].code].active = FALSE]
    <3>1. PICK n \in DOMAIN codes : n = req[r].code
      BY <1>1
    <3>2. codes[n] \in Code
      BY <1>1
    <3>3. PICK code : code = [codes[n] EXCEPT !.active = FALSE]
      OBVIOUS
    <3>4. /\ code \in Code /\ code.acct = codes[n].acct /\ code.to = codes[n].to
          /\ code.purpose = codes[n].purpose
      BY <3>2, <3>3 DEF Code
    <3>5. codes' = [codes EXCEPT ![n] = code] /\ UNCHANGED <<users, history>>
      BY <1>1, <2>2, <3>1, <3>3 DEF ConsumeEmailCode
    <3>6. QED
      BY <3>4, <3>5, CodeFlagged
  <2>3. QED
    BY <2>1, <2>2 DEF ConsumeEmailCode
<1>3. CASE req[r].purpose = "verify_email"
  <2>1. PICK now \in Req : now = req[r]
    BY <1>1
  <2>2. RequestGood(now)' /\ now.pc = "consume" /\ now.purpose = "verify_email"
    BY <1>1, <1>2, <1>3, <2>1, GoodKept DEF RequestGood
  <2>3. PICK next : next = [now EXCEPT !.pc = "markVerified"]
    OBVIOUS
  <2>4. /\ next \in Req /\ next.pc = "markVerified"
        /\ next.acct = now.acct /\ next.email = now.email
    BY <2>3 DEF Req, Step
  <2>5. RequestOK(next)'
    BY <2>2, <2>4 DEF RequestGood, RequestOK, Step
  <2>6. RequestWitnessed(next)'
    BY <2>2, <2>4 DEF RequestGood, RequestWitnessed
  <2>7. RequestGood(next)'
    BY <2>4, <2>5, <2>6 DEF RequestGood
  <2>8. req' = [req EXCEPT ![r] = next]
    BY <1>1, <1>3, <2>1, <2>3 DEF ConsumeEmailCode
  <2>9. QED
    BY <1>2, <2>4, <2>7, <2>8, RequestsKept
<1>4. CASE req[r].purpose # "verify_email"
  BY <1>2, <1>4, IdleOK, RequestsKept DEF ConsumeEmailCode, Finish
<1>5. QED
  BY <1>3, <1>4

\* What a request that writes both columns is about to write.
LEMMA Writing ==
  ASSUME IInv, NEW r \in Request,
         req[r].pc \in {"markVerified", "update", "verifyAndLink", "autoCreate"}
  PROVE  /\ req[r].email \in Address
         /\ req[r].verified \in BOOLEAN
         /\ req[r].pc # "autoCreate" => req[r].acct \in Account /\ Exists(req[r].acct)
         /\ RequestWitnessed(req[r])
<1>1. req[r] \in Req /\ RequestOK(req[r]) /\ RequestWitnessed(req[r])
  BY Parts DEF RequestGood
<1>2. req[r].verified \in BOOLEAN
  BY <1>1 DEF Req
<1>3. QED
  BY <1>1, <1>2 DEF RequestOK, Step

\* MarkVerified and VerifyAndLink write a verification that has been witnessed.
LEMMA MarkVerifiedStep ==
  ASSUME IInv, NEW r \in Request, MarkVerified(r) \/ VerifyAndLink(r)
  PROVE  IInv'
<1>1. PICK a \in Account, e \in Address :
         /\ a = req[r].acct /\ e = req[r].email /\ Witnessed(a, e)
         /\ UpdateUserAccount(a, e, TRUE)
  BY Writing DEF MarkVerified, VerifyAndLink, At, RequestWitnessed
<1>2. UNCHANGED <<codes, proved>> /\ Finish(r) /\ proved \subseteq Account \X Address
  BY Parts DEF MarkVerified, VerifyAndLink, TablesOK
<1>3. Witnessed(a, e)'
  BY <1>1, <1>2 DEF UpdateUserAccount, Witnessed, Proved, ProvedSome
<1>4. Grows /\ TablesOK'
  BY <1>1, <1>2, <1>3, UsersWritten
<1>5. QED
  BY <1>2, <1>4, IdleOK, RequestsKept DEF Finish

\* Update writes the verification it has read: for an address that was proved, or
\* for another one, and then it moves the account.
LEMMA UpdateWriteStep ==
  ASSUME IInv, NEW r \in Request, UpdateWrite(r)
  PROVE  IInv'
<1>1. PICK a \in Account, e \in Address, v \in BOOLEAN :
         /\ a = req[r].acct /\ e = req[r].email /\ v = req[r].verified
         /\ Exists(a) /\ UpdateUserAccount(a, e, v)
         /\ v => Witnessed(a, e) \/ (ProvedSome(a) /\ ~Matches(a, e))
  BY Writing DEF UpdateWrite, At, RequestWitnessed
<1>2. UNCHANGED <<codes, proved>> /\ Finish(r) /\ proved \subseteq Account \X Address
  BY Parts DEF UpdateWrite, TablesOK
<1>3. v => Witnessed(a, e)'
  BY <1>1, <1>2 DEF UpdateUserAccount, Witnessed, Proved, ProvedSome
<1>4. Grows /\ TablesOK'
  BY <1>1, <1>2, <1>3, UsersWritten
<1>5. QED
  BY <1>2, <1>4, IdleOK, RequestsKept DEF Finish

LEMMA AutoCreateStep ==
  ASSUME IInv, NEW r \in Request, NEW a \in Account, AutoCreate(r, a)
  PROVE  IInv'
<1>1. PICK e \in Address, v \in BOOLEAN :
         e = req[r].email /\ v = req[r].verified /\ UpdateUserAccount(a, e, v)
  BY Writing DEF AutoCreate, At
<1>2. /\ IF v THEN Prove(a, e) ELSE UNCHANGED proved
      /\ UNCHANGED codes /\ Finish(r) /\ proved \subseteq Account \X Address
  BY <1>1, Parts DEF AutoCreate, TablesOK
<1>3. proved \subseteq proved' /\ proved' \subseteq Account \X Address
  BY <1>2, EmailCodesAssumption DEF Prove
<1>4. v => Witnessed(a, e)'
  BY <1>2 DEF Prove, Witnessed, Proved
<1>5. Grows /\ TablesOK'
  BY <1>1, <1>2, <1>3, <1>4, UsersWritten
<1>6. QED
  BY <1>2, <1>5, IdleOK, RequestsKept DEF Finish

\* Update reads a verification that VerifiedWitnessed vouches for, and an address
\* that is the account's own or will replace it.
LEMMA UpdateStep ==
  ASSUME IInv, NEW r \in Request, NEW a \in Account, NEW e \in Address, Update(r, a, e)
  PROVE  IInv'
<1>1. PICK next : next = [Idle EXCEPT !.pc = "update", !.acct = a, !.email = e,
                                      !.verified = verified[a]]
  OBVIOUS
<1>2. /\ verified[a] \in BOOLEAN /\ Exists(a) /\ email[a] \in Address
      /\ verified[a] => Witnessed(a, email[a])
  BY Parts, AddressOf DEF Update, TablesOK, VerifiedWitnessed
<1>3. /\ next \in Req /\ next.pc = "update" /\ next.acct = a /\ next.email = e
      /\ next.verified = verified[a]
  BY <1>1, <1>2 DEF Idle, Req, Step, Purpose
<1>4. verified[a] => Witnessed(a, e) \/ (ProvedSome(a) /\ ~Matches(a, e))
  <2>1. Lower[email[a]] \in Address
    BY <1>2, EmailCodesAssumption
  <2>2. QED
    BY <1>2, <2>1 DEF Witnessed, Proved, ProvedSome, Matches
<1>5. RequestGood(next)
  BY <1>2, <1>3, <1>4 DEF RequestGood, RequestOK, RequestWitnessed
<1>6. req' = [req EXCEPT ![r] = next] /\ UNCHANGED <<users, codes, history>>
  BY <1>1 DEF Update, Start
<1>7. QED
  BY <1>3, <1>5, <1>6, RequestOnly

LEMMA ResolveStep ==
  ASSUME IInv, NEW r \in Request, NEW e \in Address, NEW v \in BOOLEAN, Resolve(r, e, v)
  PROVE  IInv'
<1>1. ASSUME NEW a \in Account, Matches(a, e), ResolveVerified(r, a),
             UNCHANGED <<users, codes, moved>>
      PROVE  IInv'
  <2>1. PICK next : next = [Idle EXCEPT !.pc = "link", !.acct = a, !.email = email[a]]
    OBVIOUS
  <2>2. Witnessed(a, email[a]) /\ Exists(a) /\ email[a] \in Address
    BY <1>1, Parts, AddressOf DEF ResolveVerified, Matches, TablesOK, VerifiedWitnessed
  <2>3. next \in Req /\ next.pc = "link" /\ next.acct = a /\ next.email = email[a]
    BY <2>1, <2>2 DEF Idle, Req, Step, Purpose
  <2>4. RequestGood(next)
    BY <2>2, <2>3 DEF RequestGood, RequestOK, RequestWitnessed
  <2>5. req' = [req EXCEPT ![r] = next] /\ UNCHANGED <<users, codes, history>>
    BY <1>1, <2>1 DEF ResolveVerified, ResolveAny, Start, history
  <2>6. QED
    BY <2>3, <2>4, <2>5, RequestOnly
<1>2. ASSUME NEW a \in Account, Matches(a, e), ResolveUnverified(r, a, v),
             UNCHANGED <<users, codes, moved>>
      PROVE  IInv'
  <2>1. PICK next : next = [Idle EXCEPT !.pc = "verifyAndLink", !.acct = a, !.email = email[a]]
    OBVIOUS
  <2>2. Exists(a) /\ email[a] \in Address
    BY <1>2, Parts, AddressOf DEF Matches
  <2>3. next \in Req /\ next.pc = "verifyAndLink" /\ next.acct = a /\ next.email = email[a]
    BY <2>1, <2>2 DEF Idle, Req, Step, Purpose
  <2>4. Prove(a, email[a]) /\ req' = [req EXCEPT ![r] = next]
    BY <1>2, <2>1 DEF ResolveUnverified, ResolveUnverifiedAny, Start
  <2>5. Grows /\ TablesOK' /\ Witnessed(a, next.email)'
    <3>1. PICK k \in Address : k = email[a]
      BY <2>2
    <3>2. Prove(a, k) /\ next.email = k
      BY <2>3, <2>4, <3>1 DEF Prove
    <3>3. QED
      BY <1>2, <3>2, AddressProved DEF Witnessed, Proved
  <2>6. RequestGood(next)'
    BY <2>2, <2>3, <2>5 DEF RequestGood, RequestOK, RequestWitnessed, Grows
  <2>7. QED
    BY <2>3, <2>4, <2>5, <2>6, RequestsKept
<1>3. ASSUME Start(r, [Idle EXCEPT !.pc = "autoCreate", !.email = e, !.verified = v]),
             UNCHANGED <<users, codes, history>>
      PROVE  IInv'
  <2>1. PICK next : next = [Idle EXCEPT !.pc = "autoCreate", !.email = e, !.verified = v]
    OBVIOUS
  <2>2. next \in Req /\ next.pc = "autoCreate" /\ next.email = e
    BY <2>1 DEF Idle, Req, Step, Purpose
  <2>3. RequestGood(next)
    BY <2>2 DEF RequestGood, RequestOK, RequestWitnessed
  <2>4. req' = [req EXCEPT ![r] = next]
    BY <1>3, <2>1 DEF Start
  <2>5. QED
    BY <1>3, <2>2, <2>3, <2>4, RequestOnly
<1>4. QED
  BY <1>1, <1>2, <1>3 DEF Resolve, history

-----------------------------------------------------------------------------
(* The theorems                                                            *)

LEMMA InitInv == Init => IInv
<1> SUFFICES ASSUME Init PROVE IInv
  OBVIOUS
<1>1. TablesOK
  BY EmailCodesAssumption DEF Init, TablesOK, VerifiedWitnessed
<1>2. req \in [Request -> Req] /\ \A r \in Request : req[r] = Idle
  BY IdleOK DEF Init
<1>3. \A r \in Request : RequestGood(req[r])
  BY <1>2, IdleOK DEF RequestGood
<1>4. QED
  BY <1>1, <1>2, <1>3, Parts

LEMMA NextInv == IInv /\ [Next]_vars => IInv'
<1> SUFFICES ASSUME IInv, [Next]_vars PROVE IInv'
  OBVIOUS
<1>1. ASSUME NEW r \in Request, NEW e \in LowerCase, NEW p \in {"login", "verify_email"},
             EmailCodeRequest(r, e, p)
      PROVE  IInv'
  BY <1>1, SendCodeStep DEF EmailCodeRequest, Purpose
<1>2. ASSUME NEW r \in Request, NEW e \in LowerCase, PasswordResetRequest(r, e)
      PROVE  IInv'
  BY <1>2, SendCodeStep DEF PasswordResetRequest, Purpose
<1>3. ASSUME NEW r \in Request, Goroutine(r)
      PROVE  IInv'
  BY <1>3, LookupStep, CreateEmailCodeStep, FinishStep, SendStep DEF Goroutine
<1>4. CASE UNCHANGED vars
  <2>1. UNCHANGED <<users, codes, history>> /\ UNCHANGED req
    BY <1>4 DEF vars
  <2>2. QED
    BY <2>1, TablesKept, RequestsUntouched
<1>5. QED
  BY <1>1, <1>2, <1>3, <1>4, RegisterStep, CreateStep, StepUpRequestStep, ContextEndsStep,
     ExpireStep, GetActiveEmailCodeStep, UpdateStep, ResolveStep, AutoCreateStep,
     ConsumeEmailCodeStep, MarkVerifiedStep, UpdateWriteStep, FinishStep
  DEF Next

\* IInv holds in every state of every behaviour, however the handlers and
\* goroutines of emailcode.go, user_accounts.go and resolver.go interleave and fail.
THEOREM Invariance == Spec => []IInv
  BY InitInv, NextInv, PTL DEF Spec

\* Every value has its type, and every stored code an account and a purpose the
\* table email_codes admits.
THEOREM TypeCorrect == Spec => []TypeOK
<1>1. IInv => TypeOK
  BY DEF IInv
<1>2. QED
  BY <1>1, Invariance, PTL

\* The columns email and email_verified_at are written together and from stale
\* reads, and still the address of a verified account was proved for that account,
\* unless a write has moved the account there from another one.
THEOREM VerificationWitnessed == Spec => []VerifiedWitnessed
<1>1. IInv => VerifiedWitnessed
  BY DEF IInv
<1>2. QED
  BY <1>1, Invariance, PTL

\* What a handler holds of a verification it has read is witnessed as well.
THEOREM ReadsWitnessed == Spec => []RequestsWitnessed
<1>1. IInv => RequestsWitnessed
  BY DEF IInv
<1>2. QED
  BY <1>1, Invariance, PTL

\* The resolver links an identity to an existing account only on the strength of
\* an address that was proved for the account, or the account was moved to it; how
\* stale the resolver's read is does not matter.
THEOREM LinksAreWitnessed == Spec => LinksWitnessed
<1>1. IInv /\ [Next]_vars
        => [\A r \in Request :
              LinkIdentity(r) \/ VerifyAndLink(r) => Witnessed(req[r].acct, req[r].email)]_vars
  <2> SUFFICES ASSUME IInv, NEW r \in Request, LinkIdentity(r) \/ VerifyAndLink(r)
               PROVE  Witnessed(req[r].acct, req[r].email)
    OBVIOUS
  <2>1. req[r].pc \in {"link", "verifyAndLink"} /\ RequestWitnessed(req[r])
    BY DEF LinkIdentity, VerifyAndLink, At, IInv, RequestsWitnessed
  <2>2. QED
    BY <2>1 DEF RequestWitnessed
<1>2. QED
  BY <1>1, Invariance, PTL DEF Spec, LinksWitnessed
=============================================================================
