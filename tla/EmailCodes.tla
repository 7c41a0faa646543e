--------------------------- MODULE EmailCodes ---------------------------
(***************************************************************************)
(* E-mail addresses, their verification, and the one-time codes sent to    *)
(* them: the tables user_accounts (email, email_verified_at) and           *)
(* email_codes, the handlers that write them, and the goroutines that send *)
(* the mail.                                                               *)
(*                                                                         *)
(* UpdateUserAccount always writes both columns, so whoever means to write *)
(* one of them writes back the other as it was when it read the row.  A    *)
(* handler is cut at these reads and writes.                               *)
(*                                                                         *)
(* A code is what the database and the mail server know of it: whose it    *)
(* is, the address it goes to, what for, whether it was mailed, and        *)
(* whether it is still active (neither consumed nor expired).  Clients     *)
(* only enter codes that were mailed.  A password-reset token travels the  *)
(* same way and is a code of purpose "reset" here; what it is good for is  *)
(* in Credentials.                                                         *)
(*                                                                         *)
(* proved and moved are history: the properties read them, no guard does.  *)
(***************************************************************************)
EXTENDS Integers, Sequences, FiniteSets

CONSTANTS Account,   \* rows user_accounts may come to hold
          Address,   \* e-mail addresses as people and providers spell them
          Lower,     \* Lower[e]: address e in lower case
          MaxCodes,  \* bound: codes stored in a behaviour
          Request,   \* HTTP requests, and goroutines they leave behind
          Faulty,    \* sending a code may fail, not only lose a race
          None       \* "no row" / "no value"

ASSUME EmailCodesAssumption ==
  /\ Lower \in [Address -> Address]
  /\ \A e \in Address : Lower[Lower[e]] = Lower[e]
  /\ MaxCodes \in Nat
  /\ Faulty \in BOOLEAN
  /\ None \notin Account \cup Address

VARIABLES email,     \* email[a]: address of account a, None before the account
          verified,  \* verified[a]: email_verified_at is set
          codes,     \* the rows of email_codes, oldest first
          proved,    \* <<a, e>>: e, in lower case, was proved for account a
          moved,     \* accounts whose address a write has replaced
          req        \* what each request in flight has read so far

users == <<email, verified>>
history == <<proved, moved>>
vars == <<users, codes, history, req>>

Purpose == {"login", "verify_email", "credential_change", "reset"}

\* The CHECK on email_codes.purpose; password_resets has a table of its own.
Storable == {"login", "verify_email", "reset"}

LowerCase == {Lower[e] : e \in Address}

(***************************************************************************)
(* A request: the account it works for, the address it was given or has    *)
(* read, the purpose and number of its code, the verification it has read, *)
(* and whether its context is alive.                                       *)
(***************************************************************************)
Sending == {"lookup", "store", "send"}

Step == Sending \cup {"idle", "consume", "markVerified", "update",
                      "link", "verifyAndLink", "autoCreate"}

Idle == [pc |-> "idle", acct |-> None, email |-> None, purpose |-> "login",
         code |-> 0, verified |-> FALSE, detached |-> FALSE, alive |-> TRUE]

Code == [acct: Account, to: Address, purpose: Purpose, mailed: BOOLEAN, active: BOOLEAN]

Init ==
  /\ email = [a \in Account |-> None]
  /\ verified = [a \in Account |-> FALSE]
  /\ codes = <<>>
  /\ proved = {}
  /\ moved = {}
  /\ req = [r \in Request |-> Idle]

At(r, step) == req[r].pc = step

Start(r, state) ==
  /\ At(r, "idle")
  /\ req' = [req EXCEPT ![r] = state]

Finish(r) == req' = [req EXCEPT ![r] = Idle]

Exists(a) == email[a] # None

\* lower(email) = lower($1)
Matches(a, e) == Exists(a) /\ Lower[email[a]] = Lower[e]

\* UNIQUE (email): the address as it is spelled
Free(a, e) == \A b \in Account \ {a} : email[b] # e

\* UPDATE user_accounts SET email, email_verified_at
UpdateUserAccount(a, e, v) ==
  /\ Free(a, e)
  /\ email' = [email EXCEPT ![a] = e]
  /\ verified' = [verified EXCEPT ![a] = v]
  /\ moved' = IF Exists(a) /\ ~Matches(a, e) THEN moved \cup {a} ELSE moved

\* Somebody has read mail sent to e, or a provider vouches for e.
Prove(a, e) == proved' = proved \cup {<<a, Lower[e]>>}

-----------------------------------------------------------------------------
(* Sending a code                                                          *)

\* Bound on the codes of a behaviour, kept where a request for one starts.
Room ==
  Len(codes) + Cardinality({r \in Request : req[r].pc \in {"lookup", "store"}}) < MaxCodes

\* A new row.  Register hands the sending of a code to goroutine r and returns.
Register(r, a, e) ==
  /\ ~Exists(a)
  /\ Free(a, e)
  /\ Room
  /\ email' = [email EXCEPT ![a] = e]
  /\ Start(r, [Idle EXCEPT !.pc = "lookup", !.email = e,
                           !.purpose = "verify_email", !.detached = TRUE])
  /\ UNCHANGED <<verified, codes, history>>

\* The administrator's UserAccountService.Create mails nothing.
Create(a, e) ==
  /\ ~Exists(a)
  /\ Free(a, e)
  /\ email' = [email EXCEPT ![a] = e]
  /\ UNCHANGED <<verified, codes, history, req>>

\* A handler that answers the same whether or not e has an account, and
\* leaves the work to goroutine r.
SendCode(r, e, p, detached) ==
  /\ Room
  /\ Start(r, [Idle EXCEPT !.pc = "lookup", !.email = e,
                           !.purpose = p, !.detached = detached])
  /\ UNCHANGED <<users, codes, history>>

\* EmailCodeRequest waits for the goroutine.  The purpose is the client's; one
\* that is neither of these two is refused where StepUpRequest's is.
EmailCodeRequest(r, e, p) == SendCode(r, e, p, FALSE)

\* PasswordResetRequest does not wait.
PasswordResetRequest(r, e) == SendCode(r, e, "reset", TRUE)

\* StepUpRequest waits too, and knows its account.
StepUpRequest(r, a) ==
  /\ Exists(a)
  /\ Room
  /\ Start(r, [Idle EXCEPT !.pc = "store", !.acct = a, !.email = email[a],
                           !.purpose = "credential_change"])
  /\ UNCHANGED <<users, codes, history>>

\* The request's context ends, which matters until the row is stored: net/http
\* cancels it when the handler that left r behind has returned, and when the
\* client of a handler that waits for r hangs up.
ContextEnds(r) ==
  /\ req[r].pc \in {"lookup", "store"}
  /\ req[r].alive
  /\ req[r].detached \/ Faulty
  /\ req' = [req EXCEPT ![r].alive = FALSE]
  /\ UNCHANGED <<users, codes, history>>

\* A statement under a context that has ended fails, and the error is logged.
Cancelled(r) ==
  /\ req[r].pc \in {"lookup", "store"}
  /\ ~req[r].alive
  /\ Finish(r)
  /\ UNCHANGED <<users, codes, history>>

\* Mutant: no row is not told from a row.
LookupUnchecked(r) ==
  /\ At(r, "lookup")
  /\ req[r].alive
  /\ req' = [req EXCEPT ![r].pc = "store", ![r].email = None]
  /\ UNCHANGED <<users, codes, history>>

\* GetUserAccountByEmail: of several rows that match, any one.
Lookup(r) ==
  /\ At(r, "lookup")
  /\ req[r].alive
  /\ \/ \E a \in Account :
          /\ Matches(a, req[r].email)
          /\ req' = [req EXCEPT ![r].pc = "store", ![r].acct = a, ![r].email = email[a]]
     \/ /\ \A a \in Account : ~Matches(a, req[r].email)
        /\ Finish(r)
  /\ UNCHANGED <<users, codes, history>>

\* CreateEmailCode, CreatePasswordReset
CreateEmailCode(r) ==
  /\ At(r, "store")
  /\ req[r].alive
  /\ req[r].purpose \in Storable
  /\ codes' = Append(codes, [acct |-> req[r].acct, to |-> req[r].email,
                             purpose |-> req[r].purpose, mailed |-> FALSE, active |-> TRUE])
  /\ req' = [req EXCEPT ![r] = [Idle EXCEPT !.pc = "send", !.code = Len(codes) + 1]]
  /\ UNCHANGED <<users, history>>

\* The CHECK refuses the row; the error is logged.
CreateEmailCodeRefused(r) ==
  /\ At(r, "store")
  /\ req[r].alive
  /\ req[r].purpose \notin Storable
  /\ Finish(r)
  /\ UNCHANGED <<users, codes, history>>

\* Send does not look at its context.  When it fails (Fail), the code stays
\* in the table and nobody has it.
Send(r) ==
  /\ At(r, "send")
  /\ codes' = [codes EXCEPT ![req[r].code].mailed = TRUE]
  /\ Finish(r)
  /\ UNCHANGED <<users, history>>

\* expires_at passes.
Expire(n) ==
  /\ codes[n].active
  /\ codes' = [codes EXCEPT ![n].active = FALSE]
  /\ UNCHANGED <<users, history, req>>

-----------------------------------------------------------------------------
(* Entering a code                                                         *)

Active(n, a, p) == codes[n].acct = a /\ codes[n].purpose = p /\ codes[n].active

\* ORDER BY created_at DESC LIMIT 1
Newest(n, a, p) ==
  /\ Active(n, a, p)
  /\ \A m \in (n + 1)..Len(codes) : ~Active(m, a, p)

\* The client of r has entered code n, which was mailed.
Entered(r, a, n) ==
  /\ Start(r, [Idle EXCEPT !.pc = "consume", !.acct = a, !.email = email[a],
                           !.purpose = codes[n].purpose, !.code = n])
  /\ IF codes[n].purpose = "verify_email"
       THEN Prove(codes[n].acct, codes[n].to)
       ELSE UNCHANGED proved
  /\ UNCHANGED <<users, codes, moved>>

\* Mutant: the query does not ask for the account's own codes.
GetActiveEmailCodeOfAny(r, a, n) ==
  /\ Exists(a)
  /\ codes[n].purpose # "reset"
  /\ codes[n].active
  /\ codes[n].mailed
  /\ Entered(r, a, n)

\* EmailCodeVerify: the account by its address, its newest active code, which
\* must be the one that was mailed and typed in.
GetActiveEmailCode(r, a, n) ==
  /\ Exists(a)
  /\ codes[n].purpose # "reset"
  /\ Newest(n, a, codes[n].purpose)
  /\ codes[n].mailed
  /\ Entered(r, a, n)

\* ConsumeEmailCode; if the statement fails the handler goes on all the same.
\* A login is now answered with a session.
ConsumeEmailCode(r) ==
  /\ At(r, "consume")
  /\ \/ codes' = [codes EXCEPT ![req[r].code].active = FALSE]
     \/ UNCHANGED codes
  /\ IF req[r].purpose = "verify_email"
       THEN req' = [req EXCEPT ![r].pc = "markVerified"]
       ELSE Finish(r)
  /\ UNCHANGED <<users, history>>

\* The address read at the start is written back with the verification.
MarkVerified(r) ==
  /\ At(r, "markVerified")
  /\ UpdateUserAccount(req[r].acct, req[r].email, TRUE)
  /\ Finish(r)
  /\ UNCHANGED <<codes, proved>>

-----------------------------------------------------------------------------
(* UserAccountService.Update: loads the row; writes the new address, or the *)
(* one it read, and the verification it read.                              *)

Update(r, a, e) ==
  /\ Exists(a)
  /\ e \in LowerCase \cup {email[a]}
  /\ Start(r, [Idle EXCEPT !.pc = "update", !.acct = a, !.email = e,
                           !.verified = verified[a]])
  /\ UNCHANGED <<users, codes, history>>

UpdateWrite(r) ==
  /\ At(r, "update")
  /\ UpdateUserAccount(req[r].acct, req[r].email, req[r].verified)
  /\ Finish(r)
  /\ UNCHANGED <<codes, proved>>

-----------------------------------------------------------------------------
(* UserResolver.Resolve for an identity without a row, whose provider says  *)
(* that its address is e, and in v whether it has verified it.             *)

\* Mutant: an account is linked whether or not its address is verified.
ResolveAny(r, a) ==
  /\ Start(r, [Idle EXCEPT !.pc = "link", !.acct = a, !.email = email[a]])
  /\ UNCHANGED proved

\* Branch 2: the account's address is verified.
ResolveVerified(r, a) ==
  /\ verified[a]
  /\ ResolveAny(r, a)

\* Mutant: the provider's email_verified is not looked at.
ResolveUnverifiedAny(r, a, v) ==
  /\ ~verified[a]
  /\ Start(r, [Idle EXCEPT !.pc = "verifyAndLink", !.acct = a, !.email = email[a]])
  /\ IF v THEN Prove(a, email[a]) ELSE UNCHANGED proved

\* Branch 3: it is not, but the provider vouches for it.  Branch 4, when the
\* provider does not either, is an error.
ResolveUnverified(r, a, v) ==
  /\ v
  /\ ResolveUnverifiedAny(r, a, v)

Resolve(r, e, v) ==
  /\ \/ \E a \in Account :
          Matches(a, e) /\ (ResolveVerified(r, a) \/ ResolveUnverified(r, a, v))
     \/ /\ \A a \in Account : ~Matches(a, e)
        /\ Start(r, [Idle EXCEPT !.pc = "autoCreate", !.email = e, !.verified = v])
        /\ UNCHANGED proved
  /\ UNCHANGED <<users, codes, moved>>

\* linkIdentity; the identity itself is in Credentials.
LinkIdentity(r) ==
  /\ At(r, "link")
  /\ Finish(r)
  /\ UNCHANGED <<users, codes, history>>

\* One transaction: write both columns, link.
VerifyAndLink(r) ==
  /\ At(r, "verifyAndLink")
  /\ UpdateUserAccount(req[r].acct, req[r].email, TRUE)
  /\ Finish(r)
  /\ UNCHANGED <<codes, proved>>

\* Branch 5: the address is stored as the provider spells it.
AutoCreate(r, a) ==
  /\ At(r, "autoCreate")
  /\ ~Exists(a)
  /\ UpdateUserAccount(a, req[r].email, req[r].verified)
  /\ IF req[r].verified THEN Prove(a, req[r].email) ELSE UNCHANGED proved
  /\ Finish(r)
  /\ UNCHANGED codes

\* A request ends without its next step: a failed statement or mail server, an
\* address taken meanwhile, a client that hangs up, a server that goes down.
\* What earlier steps stored stays; a code that was to be mailed never is.
Fail(r) ==
  /\ ~At(r, "idle")
  /\ req[r].pc \in Sending => Faulty
  /\ Finish(r)
  /\ UNCHANGED <<users, codes, history>>

-----------------------------------------------------------------------------
\* The goroutine's own steps.
Goroutine(r) ==
  Lookup(r) \/ CreateEmailCode(r) \/ CreateEmailCodeRefused(r) \/ Cancelled(r) \/ Send(r)

Next ==
  \/ \E r \in Request, a \in Account, e \in LowerCase : Register(r, a, e)
  \/ \E a \in Account, e \in LowerCase : Create(a, e)
  \/ \E r \in Request, e \in LowerCase, p \in {"login", "verify_email"} : EmailCodeRequest(r, e, p)
  \/ \E r \in Request, e \in LowerCase : PasswordResetRequest(r, e)
  \/ \E r \in Request, a \in Account : StepUpRequest(r, a)
  \/ \E r \in Request : Goroutine(r) \/ ContextEnds(r)
  \/ \E n \in DOMAIN codes : Expire(n)
  \/ \E r \in Request, a \in Account, n \in DOMAIN codes : GetActiveEmailCode(r, a, n)
  \/ \E r \in Request, a \in Account, e \in Address : Update(r, a, e)
  \/ \E r \in Request, e \in Address, v \in BOOLEAN : Resolve(r, e, v)
  \/ \E r \in Request, a \in Account : AutoCreate(r, a)
  \/ \E r \in Request :
       \/ ConsumeEmailCode(r) \/ MarkVerified(r) \/ UpdateWrite(r)
       \/ LinkIdentity(r) \/ VerifyAndLink(r) \/ Fail(r)

Spec == Init /\ [][Next]_vars

\* Go's scheduler runs every goroutine to its end.
FairSpec == Spec /\ \A r \in Request : WF_vars(Goroutine(r))

-----------------------------------------------------------------------------
(* Properties                                                              *)

Req == [pc: Step, acct: Account \cup {None}, email: Address \cup {None},
        purpose: Purpose, code: Nat, verified: BOOLEAN,
        detached: BOOLEAN, alive: BOOLEAN]

\* A request has read what its next step uses.
RequestOK(q) ==
  /\ q.pc \in {"store", "consume", "markVerified", "update", "link", "verifyAndLink"}
       => q.acct \in Account /\ Exists(q.acct)
  /\ q.pc \in Step \ {"idle", "send"} => q.email \in Address
  /\ q.pc \in {"send", "consume"} => q.code \in DOMAIN codes

\* Every value has its type, every code the account it refers to, no account is
\* verified before it is there, and no code is stored that the table cannot hold.
TypeOK ==
  /\ email \in [Account -> Address \cup {None}]
  /\ verified \in [Account -> BOOLEAN]
  /\ \A a \in Account : verified[a] => Exists(a)
  /\ codes \in Seq(Code)
  /\ \A n \in DOMAIN codes : Exists(codes[n].acct) /\ codes[n].purpose \in Storable
  /\ proved \subseteq Account \X Address
  /\ moved \subseteq Account
  /\ req \in [Request -> Req]
  /\ \A r \in Request : RequestOK(req[r])

\* e was proved for a.  An account that was moved to another address keeps
\* its verification, so of such an account only some address was.
Proved(a, e) == <<a, Lower[e]>> \in proved

ProvedSome(a) == \E e \in Address : <<a, e>> \in proved

Witnessed(a, e) == Proved(a, e) \/ (a \in moved /\ ProvedSome(a))

\* However the handlers that write both columns overwrite each other, the address
\* of a verified account was proved for that account: somebody entered a code
\* mailed to this address, or a provider vouched for it.  The exception is an
\* account whose address was replaced, which keeps the verification of another.
VerifiedWitnessed == \A a \in Account : verified[a] => Witnessed(a, email[a])

\* What a request is about to write or do on the strength of a verification it has
\* read, or has just obtained, is witnessed for the address it will write: or it
\* is a profile update that replaces the address, and takes the verification along.
RequestWitnessed(q) ==
  /\ q.pc \in {"markVerified", "link", "verifyAndLink"} => Witnessed(q.acct, q.email)
  /\ q.pc = "consume" /\ q.purpose = "verify_email" => Witnessed(q.acct, q.email)
  /\ q.pc = "update" /\ q.verified =>
       \/ Witnessed(q.acct, q.email)
       \/ (ProvedSome(q.acct) /\ ~Matches(q.acct, q.email))

RequestsWitnessed == \A r \in Request : RequestWitnessed(req[r])

\* A code goes, up to case, to the address its account has had all along,
\* unless that was replaced.
Delivers(a, e) == a \in moved \/ Matches(a, e)

CodesDelivered ==
  /\ \A n \in DOMAIN codes : Delivers(codes[n].acct, codes[n].to)
  /\ \A r \in Request : At(r, "store") => Delivers(req[r].acct, req[r].email)

\* The conjunction is inductive: EmailCodesProofs proves it of every instance.
IInv == TypeOK /\ VerifiedWitnessed /\ RequestsWitnessed /\ CodesDelivered

\* The resolver gives an identity to an existing account only if the address that
\* led it there was proved for that account, however long ago it looked, or
\* the account was moved and some address of it was.
LinksWitnessed ==
  [][\A r \in Request :
       LinkIdentity(r) \/ VerifyAndLink(r) => Witnessed(req[r].acct, req[r].email)]_vars

\* What comments and documentation say and the code does not do, each refuted
\* by a run in which nothing fails.

\* StepUpRequest enqueues an e-mail code with purpose='credential_change'.
StepUpCodeEnqueued ==
  \A r \in Request :
    At(r, "store") /\ req[r].purpose = "credential_change" ~> At(r, "send")

\* docs/users-module-spec.md: a reset token is generated and sent to the
\* e-mail address.
ResetTokenMailed ==
  \A r \in Request : At(r, "store") /\ req[r].purpose = "reset" ~> At(r, "send")
=============================================================================
