----------------------- MODULE CredentialsProofs -----------------------
(***************************************************************************)
(* What Credentials promises, proved for any number of accounts,           *)
(* identities, passwords, reset tokens and concurrent requests.            *)
(*                                                                         *)
(* IInv is inductive.  A step changes what the requests hold in one of two *)
(* ways: it moves one request and takes nothing away (RequestsKept), or it *)
(* writes a row and marks the open transactions (RequestsAfterWrite).      *)
(* These two lemmas carry the request part of the invariant; each action   *)
(* adds what it does to the tables.                                        *)
(***************************************************************************)
EXTENDS Credentials, FiniteSetTheorems, TLAPS

\* The request that no handler works on is a request, and holds nothing.
LEMMA IdleOK ==
  /\ Idle \in Req
  /\ RequestOK(Idle) /\ SnapshotOK(Idle)
  /\ RequestOK(Idle)' /\ SnapshotOK(Idle)'
  BY DEF Idle, Req, Step, InTx, RequestOK, SnapshotOK

\* One request moves on; accounts, methods and passwords stay or grow.
LEMMA RequestsKept ==
  ASSUME IInv, NEW r \in Request, NEW next \in Req,
         req' = [req EXCEPT ![r] = next],
         RequestOK(next)', SnapshotOK(next)',
         account \subseteq account',
         \A b \in account : Methods(b) \subseteq Methods(b)' /\ password'[b] = password[b]
  PROVE  /\ req' \in [Request -> Req]
         /\ \A q \in Request : RequestOK(req[q])'
         /\ SnapshotHolds'
<1>1. req' \in [Request -> Req]
  BY DEF IInv, TypeOK
<1>2. ASSUME NEW q \in Request, q # r
      PROVE  RequestOK(req[q])' /\ SnapshotOK(req[q])'
  <2>1. req'[q] = req[q] /\ req[q] \in Req /\ RequestOK(req[q]) /\ SnapshotOK(req[q])
    BY <1>2 DEF IInv, TypeOK, SnapshotHolds
  <2>2. RequestOK(req[q])'
    BY <2>1 DEF RequestOK
  <2>3. req[q].pc \in InTx => req[q].acct \in account
    BY <2>1 DEF RequestOK
  <2>4. SnapshotOK(req[q])'
    BY <2>1, <2>3 DEF SnapshotOK
  <2>5. QED
    BY <2>2, <2>4
<1>3. req'[r] = next
  BY DEF IInv, TypeOK
<1>4. RequestOK(req[r])' /\ SnapshotOK(req[r])'
  BY <1>3 DEF RequestOK, SnapshotOK, Methods, Owned
<1>5. QED
  BY <1>1, <1>2, <1>4 DEF SnapshotHolds

\* One request writes row m of account a.  What a write takes away, only a
\* serializable writer takes, and the transactions it skews promise nothing.
LEMMA RequestsAfterWrite ==
  ASSUME IInv, NEW r \in Request, NEW next \in Req, NEW a \in account,
         NEW m \in Method, NEW serializable \in BOOLEAN,
         req' = Written(r, next, a, m, serializable),
         RequestOK(next)', SnapshotOK(next)',
         account \subseteq account',
         \A b \in account \ {a} : Methods(b) \subseteq Methods(b)' /\ password'[b] = password[b],
         serializable \/ Methods(a) \subseteq Methods(a)',
         serializable \/ m = Local \/ password'[a] = password[a]
  PROVE  /\ req' \in [Request -> Req]
         /\ \A q \in Request : RequestOK(req[q])'
         /\ SnapshotHolds'
<1> DEFINE hit(q) == req[q].pc \in InTx /\ req[q].acct = a
           marked(q) == [req[q] EXCEPT !.dirty = @ \cup {m}, !.skewed = @ \/ serializable]
<1>1. \A q \in Request : req[q] \in Req /\ RequestOK(req[q]) /\ SnapshotOK(req[q])
  BY DEF IInv, TypeOK, SnapshotHolds
<1>2. \A q \in Request : marked(q) \in Req
  BY <1>1 DEF Req, Step, InTx
<1>3. \A q \in Request : req'[q] = IF q = r THEN next
                                   ELSE IF hit(q) THEN marked(q) ELSE req[q]
  BY DEF Written
<1>4. req' \in [Request -> Req]
  BY <1>1, <1>2 DEF Written
<1>5. ASSUME NEW q \in Request, q # r, hit(q)
      PROVE  RequestOK(req[q])' /\ SnapshotOK(req[q])'
  <2>1. /\ marked(q).pc = req[q].pc /\ marked(q).acct = req[q].acct
        /\ marked(q).arg = req[q].arg /\ marked(q).cur = req[q].cur
        /\ marked(q).new = req[q].new /\ marked(q).snap = req[q].snap
        /\ marked(q).dirty = req[q].dirty \cup {m}
        /\ marked(q).skewed = (req[q].skewed \/ serializable)
    BY <1>1 DEF Req
  <2>2. req'[q] = marked(q)
    BY <1>3, <1>5
  <2>3. RequestOK(req[q])'
    BY <1>1, <2>1, <2>2 DEF RequestOK
  <2>4. SnapshotOK(req[q])'
    BY <1>1, <1>5, <2>1, <2>2 DEF SnapshotOK
  <2>5. QED
    BY <2>3, <2>4
<1>6. ASSUME NEW q \in Request, q # r, ~hit(q)
      PROVE  RequestOK(req[q])' /\ SnapshotOK(req[q])'
  <2>1. req'[q] = req[q]
    BY <1>3, <1>6
  <2>2. RequestOK(req[q])'
    BY <1>1, <2>1 DEF RequestOK
  <2>3. req[q].pc \in InTx => req[q].acct \in account \ {a}
    BY <1>1, <1>6 DEF RequestOK
  <2>4. SnapshotOK(req[q])'
    BY <1>1, <2>1, <2>3 DEF SnapshotOK
  <2>5. QED
    BY <2>2, <2>4
<1>7. RequestOK(req[r])' /\ SnapshotOK(req[r])'
  <2>1. req'[r] = next
    BY <1>3
  <2>2. QED
    BY <2>1 DEF RequestOK, SnapshotOK, Methods, Owned
<1>8. QED
  BY <1>4, <1>5, <1>6, <1>7 DEF SnapshotHolds

-----------------------------------------------------------------------------
(* The actions.  Each lemma states that an action preserves IInv.          *)

\* The actions that write no row but their request.
LEMMA RequestOnly ==
  ASSUME IInv, NEW r \in Request, NEW next \in Req,
         req' = [req EXCEPT ![r] = next], UNCHANGED <<tables, resets, trail>>,
         RequestOK(next), SnapshotOK(next)
  PROVE  IInv'
<1>1. TablesOK' /\ AuditTracksIdentities'
  BY DEF IInv, TypeOK, TablesOK, AuditTracksIdentities, Owned, tables, resets
<1>2. \A a \in account : Methods(a)' = Methods(a) /\ password'[a] = password[a]
  BY DEF Methods, Owned, tables
<1>3. RequestOK(next)' /\ SnapshotOK(next)' /\ account' = account
  BY DEF RequestOK, SnapshotOK, Methods, Owned, tables
<1>4. QED
  BY <1>1, <1>2, <1>3, RequestsKept DEF IInv, TypeOK

LEMMA FailStep ==
  ASSUME IInv, NEW r \in Request, Fail(r)
  PROVE  IInv'
  BY IdleOK, RequestOnly DEF Fail

LEMMA RefusedStep ==
  ASSUME IInv, NEW r \in Request,
         RemovePasswordRefused(r) \/ UnlinkLastIdentity(r) \/ UnlinkNotFound(r)
  PROVE  IInv'
  BY IdleOK, RequestOnly
  DEF RemovePasswordRefused, UnlinkLastIdentity, UnlinkNotFound

LEMMA GetActivePasswordResetStep ==
  ASSUME IInv, NEW r \in Request, NEW t \in Token, NEW p \in Password,
         GetActivePasswordReset(r, t, p)
  PROVE  IInv'
<1> DEFINE next == [Idle EXCEPT !.pc = "resetWrite", !.acct = resetFor[t],
                                !.arg = t, !.new = p]
<1>1. resetFor[t] \in account /\ resetFor[t] \in Account /\ resetFor[t] # None
  BY CredentialsAssumption DEF GetActivePasswordReset, IInv, TypeOK, TablesOK
<1>2. next \in Req /\ RequestOK(next) /\ SnapshotOK(next)
  BY <1>1, CredentialsAssumption DEF Idle, Req, Step, InTx, RequestOK, SnapshotOK
<1>3. QED
  BY <1>2, RequestOnly DEF GetActivePasswordReset, Start

LEMMA SetPasswordStep ==
  ASSUME IInv, NEW r \in Request, NEW a \in Account, NEW p \in Password,
         SetPassword(r, a, p)
  PROVE  IInv'
<1> DEFINE next == [Idle EXCEPT !.pc = "setPassword", !.acct = a,
                                !.cur = password[a], !.new = p]
<1>1. password[a] \in Password \cup {None} /\ a \in account
  BY DEF SetPassword, IInv, TypeOK, TablesOK
<1>2. next \in Req /\ RequestOK(next) /\ SnapshotOK(next)
  BY <1>1, CredentialsAssumption DEF Idle, Req, Step, InTx, RequestOK, SnapshotOK
<1>3. QED
  BY <1>2, RequestOnly DEF SetPassword, Start

\* The snapshot holds when it is taken.
LEMMA SnapshotStep ==
  ASSUME IInv, NEW r \in Request, NEW a \in Account,
         NEW step \in InTx, NEW i \in Identity \cup {None},
         step = "unlink" => i \in Identity, Snapshot(r, step, a, i)
  PROVE  IInv'
<1> DEFINE next == [Idle EXCEPT !.pc = step, !.acct = a, !.arg = i,
                                !.cur = password[a], !.snap = Methods(a)]
<1>1. password[a] \in Password \cup {None} /\ a \in account /\ a # None
  BY CredentialsAssumption DEF Snapshot, IInv, TypeOK, TablesOK
<1>2. Methods(a) \in SUBSET Method
  BY DEF Methods, Owned, Method
<1>3. next \in Req
  BY <1>1, <1>2 DEF Idle, Req, Step, InTx
<1>4. RequestOK(next)
  BY <1>1 DEF Idle, RequestOK, InTx
<1>5. SnapshotOK(next)
  BY DEF Idle, SnapshotOK
<1>6. QED
  BY <1>3, <1>4, <1>5, RequestOnly DEF Snapshot, Start

LEMMA ResolveByEmailStep ==
  ASSUME IInv, NEW r \in Request, ResolveByEmail(r)
  PROVE  IInv'
<1>1. req[r] \in Req /\ RequestOK(req[r]) /\ req[r].pc = "resolveEmail"
  BY DEF IInv, TypeOK, ResolveByEmail, At
<1>2. req[r].arg \in Identity
  BY <1>1 DEF RequestOK
<1>3. CASE \E a \in account : req' = [req EXCEPT ![r].pc = "resolveLink", ![r].acct = a]
  <2>1. PICK a \in account : req' = [req EXCEPT ![r].pc = "resolveLink", ![r].acct = a]
    BY <1>3
  <2> DEFINE next == [req[r] EXCEPT !.pc = "resolveLink", !.acct = a]
  <2>2. a \in Account /\ a # None
    BY CredentialsAssumption DEF IInv, TypeOK, TablesOK
  <2>3. next \in Req /\ RequestOK(next) /\ SnapshotOK(next)
    BY <1>1, <1>2, <2>2 DEF Req, Step, InTx, RequestOK, SnapshotOK
  <2>4. req' = [req EXCEPT ![r] = next]
    BY <2>1
  <2>5. QED
    BY <2>3, <2>4, RequestOnly DEF ResolveByEmail
<1>4. CASE req' = [req EXCEPT ![r].pc = "resolveCreate"]
  <2> DEFINE next == [req[r] EXCEPT !.pc = "resolveCreate"]
  <2>1. next \in Req /\ RequestOK(next) /\ SnapshotOK(next)
    BY <1>1, <1>2 DEF Req, Step, InTx, RequestOK, SnapshotOK
  <2>2. req' = [req EXCEPT ![r] = next]
    BY <1>4
  <2>3. QED
    BY <2>1, <2>2, RequestOnly DEF ResolveByEmail
<1>5. QED
  BY <1>3, <1>4 DEF ResolveByEmail

LEMMA NewAccountStep ==
  ASSUME IInv, NEW a \in Account, NEW p \in Password \cup {None}, NewAccount(a, p)
  PROVE  IInv'
<1>1. TablesOK'
  BY DEF IInv, TypeOK, TablesOK, NewAccount, resets
<1>2. AuditTracksIdentities'
  BY DEF IInv, AuditTracksIdentities, Owned, NewAccount
<1>3. \A b \in account : Methods(b)' = Methods(b) /\ password'[b] = password[b]
  BY DEF IInv, TypeOK, TablesOK, NewAccount, Methods, Owned
<1>4. ASSUME NEW q \in Request
      PROVE  RequestOK(req[q])' /\ SnapshotOK(req[q])'
  <2>1. RequestOK(req[q]) /\ SnapshotOK(req[q]) /\ req' = req /\ account \subseteq account'
    BY DEF IInv, TypeOK, SnapshotHolds, NewAccount
  <2>2. RequestOK(req[q])'
    BY <2>1 DEF RequestOK
  <2>3. req[q].pc \in InTx => req[q].acct \in account
    BY <2>1 DEF RequestOK
  <2>4. SnapshotOK(req[q])'
    BY <1>3, <2>1, <2>3 DEF SnapshotOK
  <2>5. QED
    BY <2>2, <2>4
<1>5. QED
  BY <1>1, <1>2, <1>4 DEF IInv, TypeOK, SnapshotHolds, NewAccount

LEMMA ResetTokenStep ==
  ASSUME IInv, NEW t \in Token,
         PasswordResetExpire(t) \/ \E a \in Account : PasswordResetRequest(a, t)
  PROVE  IInv'
<1>1. TablesOK'
  BY CredentialsAssumption
  DEF IInv, TypeOK, TablesOK, PasswordResetExpire, PasswordResetRequest, tables
<1>2. UNCHANGED <<tables, trail, req>>
  BY DEF PasswordResetExpire, PasswordResetRequest
<1>3. QED
  BY <1>1, <1>2 DEF IInv, TypeOK, SnapshotHolds, AuditTracksIdentities, RequestOK,
                    SnapshotOK, Methods, Owned, tables

LEMMA ConsumePasswordResetStep ==
  ASSUME IInv, NEW r \in Request, ConsumePasswordReset(r)
  PROVE  IInv'
<1>1. TablesOK'
  BY DEF IInv, TypeOK, TablesOK, ConsumePasswordReset, tables
<1>2. AuditTracksIdentities'
  BY DEF IInv, AuditTracksIdentities, Owned, ConsumePasswordReset, tables
<1>3. \A a \in account : Methods(a)' = Methods(a) /\ password'[a] = password[a]
  BY DEF ConsumePasswordReset, Methods, Owned, tables
<1>4. account' = account /\ req' = [req EXCEPT ![r] = Idle]
  BY DEF ConsumePasswordReset, tables
<1>5. QED
  BY <1>1, <1>2, <1>3, <1>4, IdleOK, RequestsKept DEF IInv, TypeOK

\* A row of account a is read, and its last_seen_at written.
LEMMA TouchStep ==
  ASSUME IInv, NEW r \in Request, NEW i \in Identity, owner[i] # None, Touch(r, i)
  PROVE  IInv'
<1>1. TablesOK' /\ AuditTracksIdentities'
  BY DEF IInv, TypeOK, TablesOK, AuditTracksIdentities, Owned, Touch, tables, resets
<1>2. owner[i] \in account /\ i \in Method
  BY DEF IInv, TypeOK, TablesOK, Method
<1>3. \A b \in account : Methods(b)' = Methods(b) /\ password'[b] = password[b]
  BY DEF Touch, Methods, Owned, tables
<1>4. account' = account /\ req' = Written(r, Idle, owner[i], i, FALSE)
  BY DEF Touch, tables
<1>5. QED
  BY <1>1, <1>2, <1>3, <1>4, IdleOK, RequestsAfterWrite DEF IInv, TypeOK

LEMMA LookupStep ==
  ASSUME IInv, NEW r \in Request, NEW i \in Identity,
         ResolveLookup(r, i) \/ \E a \in Account : LinkLookup(r, a, i)
  PROVE  IInv'
<1>1. CASE ResolveLookup(r, i)
  <2> DEFINE next == [Idle EXCEPT !.pc = "resolveEmail", !.arg = i]
  <2>1. next \in Req /\ RequestOK(next) /\ SnapshotOK(next)
    BY DEF Idle, Req, Step, InTx, RequestOK, SnapshotOK
  <2>2. CASE owner[i] # None /\ Touch(r, i)
    BY <2>2, TouchStep
  <2>3. CASE Start(r, next) /\ UNCHANGED <<tables, resets, trail>>
    BY <2>1, <2>3, RequestOnly DEF Start
  <2>4. QED
    BY <1>1, <2>2, <2>3 DEF ResolveLookup
<1>2. ASSUME NEW a \in Account, LinkLookup(r, a, i)
      PROVE  IInv'
  <2> DEFINE next == [Idle EXCEPT !.pc = "linkInsert", !.acct = a, !.arg = i]
  <2>1. a \in account /\ a # None
    BY <1>2, CredentialsAssumption DEF LinkLookup
  <2>2. next \in Req /\ RequestOK(next) /\ SnapshotOK(next)
    BY <2>1 DEF Idle, Req, Step, InTx, RequestOK, SnapshotOK
  <2>3. CASE owner[i] = a /\ Touch(r, i)
    BY <2>1, <2>3, TouchStep
  <2>4. CASE Start(r, next) /\ UNCHANGED <<tables, resets, trail>>
    BY <2>2, <2>4, RequestOnly DEF Start
  <2>5. QED
    BY <1>2, <2>3, <2>4 DEF LinkLookup
<1>3. QED
  BY <1>1, <1>2

LEMMA InsertIdentityStep ==
  ASSUME IInv, NEW r \in Request, LinkInsert(r) \/ ResolveLink(r)
  PROVE  IInv'
<1> DEFINE a == req[r].acct
           i == req[r].arg
<1>1. a \in account /\ a \in Account /\ i \in Identity /\ i \in Method
  BY DEF IInv, TypeOK, TablesOK, RequestOK, LinkInsert, ResolveLink, At, Method
<1>2. /\ InsertIdentity(r) /\ owner[i] = None /\ account' = account
      /\ owner' = [owner EXCEPT ![i] = a] /\ password' = password
      /\ trail' = [trail EXCEPT ![a] = @ \cup {i}]
      /\ req' = Written(r, Idle, a, i, FALSE) /\ UNCHANGED resets
  BY DEF LinkInsert, ResolveLink, InsertIdentity
<1>3. TablesOK'
  BY <1>1, <1>2 DEF IInv, TypeOK, TablesOK, resets
<1>4. \A b \in Account : Owned(b)' = IF b = a THEN Owned(b) \cup {i} ELSE Owned(b)
  BY <1>1, <1>2, CredentialsAssumption DEF IInv, TypeOK, TablesOK, Owned
<1>5. AuditTracksIdentities'
  BY <1>1, <1>2, <1>4 DEF IInv, TypeOK, TablesOK, AuditTracksIdentities
<1>6. \A b \in account : Methods(b) \subseteq Methods(b)' /\ password'[b] = password[b]
  BY <1>2, <1>4 DEF IInv, TypeOK, TablesOK, Methods
<1>7. QED
  BY <1>1, <1>2, <1>3, <1>5, <1>6, IdleOK, RequestsAfterWrite DEF IInv, TypeOK

LEMMA AutoCreateStep ==
  ASSUME IInv, NEW r \in Request, NEW a \in Account, AutoCreate(r, a)
  PROVE  IInv'
<1> DEFINE i == req[r].arg
<1>1. i \in Identity /\ a \notin account /\ owner[i] = None
  BY DEF IInv, TypeOK, RequestOK, AutoCreate, At
<1>2. TablesOK'
  BY <1>1 DEF IInv, TypeOK, TablesOK, AutoCreate, Method, resets
<1>3. \A b \in Account : Owned(b)' = IF b = a THEN Owned(b) \cup {i} ELSE Owned(b)
  BY <1>1, CredentialsAssumption DEF IInv, TypeOK, TablesOK, Owned, AutoCreate
<1>4. AuditTracksIdentities'
  BY <1>1, <1>3 DEF IInv, TypeOK, TablesOK, AuditTracksIdentities, AutoCreate
<1>5. \A b \in account : Methods(b) \subseteq Methods(b)' /\ password'[b] = password[b]
  BY <1>1, <1>3 DEF IInv, TypeOK, TablesOK, Methods, AutoCreate
<1>6. account \subseteq account' /\ req' = [req EXCEPT ![r] = Idle]
  BY DEF AutoCreate
<1>7. QED
  BY <1>2, <1>4, <1>5, <1>6, IdleOK, RequestsKept DEF IInv, TypeOK

LEMMA PasswordResetWriteStep ==
  ASSUME IInv, NEW r \in Request, PasswordResetWrite(r)
  PROVE  IInv'
<1> DEFINE a == req[r].acct
<1>1. req[r] \in Req /\ RequestOK(req[r]) /\ req[r].pc = "resetWrite"
  BY DEF IInv, TypeOK, PasswordResetWrite, At
<1>2. a \in account /\ a \in Account /\ req[r].new \in Password
  BY <1>1 DEF IInv, TypeOK, TablesOK, RequestOK, Req
<1>3. PICK next \in Req : next = [req[r] EXCEPT !.pc = "resetConsume"]
  BY <1>1 DEF Req, Step
<1>4. /\ password' = [password EXCEPT ![a] = req[r].new]
      /\ account' = account /\ owner' = owner /\ trail' = trail /\ UNCHANGED resets
      /\ req' = Written(r, next, a, Local, FALSE)
  BY <1>3 DEF PasswordResetWrite
<1>5. TablesOK'
  BY <1>2, <1>4 DEF IInv, TypeOK, TablesOK, resets
<1>6. AuditTracksIdentities'
  BY <1>4 DEF IInv, AuditTracksIdentities, Owned
<1>7. \A b \in account : Methods(b) \subseteq Methods(b)'
  BY <1>2, <1>4, CredentialsAssumption DEF IInv, TypeOK, TablesOK, Methods, Owned
<1>8. \A b \in account \ {a} : password'[b] = password[b]
  BY <1>4 DEF IInv, TypeOK, TablesOK
<1>9. next.pc = "resetConsume" /\ next.acct = req[r].acct /\ next.arg = req[r].arg
  BY <1>1, <1>3 DEF Req
<1>10. RequestOK(next)' /\ SnapshotOK(next)' /\ Local \in Method
  BY <1>1, <1>4, <1>9 DEF RequestOK, SnapshotOK, InTx, Method
<1>11. QED
  BY <1>2, <1>3, <1>4, <1>5, <1>6, <1>7, <1>8, <1>10, RequestsAfterWrite DEF IInv, TypeOK

LEMMA SetPasswordWriteStep ==
  ASSUME IInv, NEW r \in Request, SetPasswordWrite(r)
  PROVE  IInv'
<1> DEFINE a == req[r].acct
<1>1. a \in account /\ a \in Account /\ req[r].new \in Password
  BY DEF IInv, TypeOK, TablesOK, RequestOK, Req, SetPasswordWrite, At
<1>2. /\ password' = [password EXCEPT ![a] = req[r].new]
      /\ trail' = [trail EXCEPT ![a] = @ \cup {Local}]
      /\ account' = account /\ owner' = owner /\ UNCHANGED resets
      /\ req' = Written(r, Idle, a, Local, FALSE)
  BY DEF SetPasswordWrite
<1>3. TablesOK'
  BY <1>1, <1>2 DEF IInv, TypeOK, TablesOK, Method, resets
<1>4. AuditTracksIdentities'
  BY <1>2, CredentialsAssumption DEF IInv, TypeOK, TablesOK, AuditTracksIdentities, Owned
<1>5. \A b \in account : Methods(b) \subseteq Methods(b)'
  BY <1>1, <1>2, CredentialsAssumption DEF IInv, TypeOK, TablesOK, Methods, Owned
<1>6. \A b \in account \ {a} : password'[b] = password[b]
  BY <1>2 DEF IInv, TypeOK, TablesOK
<1>7. Local \in Method
  BY DEF Method
<1>8. QED
  BY <1>1, <1>2, <1>3, <1>4, <1>5, <1>6, <1>7, IdleOK, RequestsAfterWrite DEF IInv, TypeOK

LEMMA RemovePasswordCommitStep ==
  ASSUME IInv, NEW r \in Request, RemovePasswordCommit(r)
  PROVE  IInv'
<1> DEFINE a == req[r].acct
<1>1. a \in account /\ a \in Account
  BY DEF IInv, TypeOK, TablesOK, RequestOK, InTx, RemovePasswordCommit,
         RemovePasswordDelete, At
<1>2. /\ password' = [password EXCEPT ![a] = None]
      /\ trail' = [trail EXCEPT ![a] = @ \ {Local}]
      /\ account' = account /\ owner' = owner /\ UNCHANGED resets
      /\ req' = Written(r, Idle, a, Local, TRUE)
  BY DEF RemovePasswordCommit, RemovePasswordDelete
<1>3. TablesOK'
  BY <1>1, <1>2 DEF IInv, TypeOK, TablesOK, resets
<1>4. AuditTracksIdentities'
  BY <1>2, CredentialsAssumption DEF IInv, TypeOK, TablesOK, AuditTracksIdentities, Owned
<1>5. \A b \in account \ {a} : Methods(b) \subseteq Methods(b)' /\ password'[b] = password[b]
  BY <1>2 DEF IInv, TypeOK, TablesOK, Methods, Owned
<1>6. Local \in Method
  BY DEF Method
<1>7. QED
  BY <1>1, <1>2, <1>3, <1>4, <1>5, <1>6, IdleOK, RequestsAfterWrite DEF IInv, TypeOK

LEMMA UnlinkCommitStep ==
  ASSUME IInv, NEW r \in Request, UnlinkCommit(r)
  PROVE  IInv'
<1> DEFINE a == req[r].acct
           i == req[r].arg
<1>1. /\ req[r].pc = "unlink" /\ i \in req[r].snap /\ ~req[r].skewed
      /\ owner' = [owner EXCEPT ![i] = None] /\ password' = password
      /\ trail' = [trail EXCEPT ![a] = @ \ {i}]
      /\ account' = account /\ UNCHANGED resets
      /\ req' = Written(r, Idle, a, i, TRUE)
  BY DEF UnlinkCommit, UnlinkDelete, UnlinkAny, At
<1>2. a \in account /\ a \in Account /\ i \in Identity /\ i \in Method
  BY <1>1 DEF IInv, TypeOK, TablesOK, RequestOK, InTx, Method
<1>3. i \in Owned(a)
  BY <1>1, <1>2, CredentialsAssumption
  DEF IInv, TypeOK, SnapshotHolds, SnapshotOK, InTx, Methods, Owned
<1>4. TablesOK'
  BY <1>1, <1>2 DEF IInv, TypeOK, TablesOK, resets
<1>5. \A b \in Account : Owned(b)' = IF b = a THEN Owned(b) \ {i} ELSE Owned(b)
  BY <1>1, <1>3, CredentialsAssumption DEF IInv, TypeOK, TablesOK, Owned
<1>6. AuditTracksIdentities'
  BY <1>1, <1>2, <1>5 DEF IInv, TypeOK, TablesOK, AuditTracksIdentities
<1>7. \A b \in account \ {a} : Methods(b) \subseteq Methods(b)' /\ password'[b] = password[b]
  BY <1>1, <1>5 DEF IInv, TypeOK, TablesOK, Methods
<1>8. QED
  BY <1>1, <1>2, <1>4, <1>6, <1>7, IdleOK, RequestsAfterWrite DEF IInv, TypeOK

-----------------------------------------------------------------------------
(* The invariant, and what follows from it                                 *)

LEMMA InitInv == Init => IInv
<1> SUFFICES ASSUME Init PROVE IInv
  OBVIOUS
<1>1. TablesOK
  BY DEF Init, TablesOK
<1>2. \A r \in Request : req[r] = Idle
  BY DEF Init
<1>3. req \in [Request -> Req]
  BY IdleOK DEF Init
<1>4. AuditTracksIdentities
  BY CredentialsAssumption DEF Init, AuditTracksIdentities, Owned
<1>5. QED
  BY <1>1, <1>2, <1>3, <1>4, IdleOK DEF IInv, TypeOK, SnapshotHolds

LEMMA NextInv == IInv /\ [Next]_vars => IInv'
<1> SUFFICES ASSUME IInv, [Next]_vars PROVE IInv'
  OBVIOUS
<1>1. ASSUME NEW a \in Account, NEW p \in Password, Register(a, p)
      PROVE  IInv'
  BY <1>1, NewAccountStep DEF Register
<1>2. ASSUME NEW a \in Account, NEW p \in Password \cup {None}, Create(a, p)
      PROVE  IInv'
  BY <1>2, NewAccountStep DEF Create
<1>3. ASSUME NEW a \in Account, NEW t \in Token, PasswordResetRequest(a, t)
      PROVE  IInv'
  BY <1>3, ResetTokenStep
<1>4. ASSUME NEW t \in Token, PasswordResetExpire(t)
      PROVE  IInv'
  BY <1>4, ResetTokenStep
<1>5. ASSUME NEW r \in Request, NEW t \in Token, NEW p \in Password,
             GetActivePasswordReset(r, t, p)
      PROVE  IInv'
  BY <1>5, GetActivePasswordResetStep
<1>6. ASSUME NEW r \in Request, NEW a \in Account, NEW p \in Password, SetPassword(r, a, p)
      PROVE  IInv'
  BY <1>6, SetPasswordStep
<1>7. ASSUME NEW r \in Request, NEW a \in Account, RemovePassword(r, a)
      PROVE  IInv'
  BY <1>7, SnapshotStep DEF RemovePassword, InTx
<1>8. ASSUME NEW r \in Request, NEW a \in Account, NEW i \in Identity, Unlink(r, a, i)
      PROVE  IInv'
  BY <1>8, SnapshotStep DEF Unlink, InTx
<1>9. ASSUME NEW r \in Request, NEW a \in Account, NEW i \in Identity, LinkLookup(r, a, i)
      PROVE  IInv'
  BY <1>9, LookupStep
<1>10. ASSUME NEW r \in Request, NEW i \in Identity, ResolveLookup(r, i)
       PROVE  IInv'
  BY <1>10, LookupStep
<1>11. ASSUME NEW r \in Request, NEW a \in Account, AutoCreate(r, a)
       PROVE  IInv'
  BY <1>11, AutoCreateStep
<1>12. ASSUME NEW r \in Request, PasswordResetWrite(r) \/ ConsumePasswordReset(r)
       PROVE  IInv'
  BY <1>12, PasswordResetWriteStep, ConsumePasswordResetStep
<1>13. ASSUME NEW r \in Request, SetPasswordWrite(r) \/ RemovePasswordCommit(r)
       PROVE  IInv'
  BY <1>13, SetPasswordWriteStep, RemovePasswordCommitStep
<1>14. ASSUME NEW r \in Request, UnlinkCommit(r) \/ LinkInsert(r) \/ ResolveLink(r)
       PROVE  IInv'
  BY <1>14, UnlinkCommitStep, InsertIdentityStep
<1>15. ASSUME NEW r \in Request,
              RemovePasswordRefused(r) \/ UnlinkLastIdentity(r) \/ UnlinkNotFound(r)
       PROVE  IInv'
  BY <1>15, RefusedStep
<1>16. ASSUME NEW r \in Request, ResolveByEmail(r) \/ Fail(r)
       PROVE  IInv'
  BY <1>16, ResolveByEmailStep, FailStep
<1>17. CASE UNCHANGED vars
  BY <1>17 DEF IInv, TypeOK, TablesOK, RequestOK, SnapshotHolds, SnapshotOK,
               AuditTracksIdentities, Methods, Owned, vars
<1>18. QED
  BY <1>1, <1>2, <1>3, <1>4, <1>5, <1>6, <1>7, <1>8, <1>9, <1>10, <1>11, <1>12,
     <1>13, <1>14, <1>15, <1>16, <1>17 DEF Next

THEOREM Invariance == Spec => []IInv
  BY InitInv, NextInv, PTL DEF Spec

\* Values have their types, and no credential row dangles.
THEOREM TypeCorrect == Spec => []TypeOK
<1>1. IInv => TypeOK
  BY DEF IInv
<1>2. QED
  BY <1>1, Invariance, PTL

\* What a deletion counted is there when it commits, however the password,
\* identity and sign-in requests interleave with it.
THEOREM SnapshotsHold == Spec => []SnapshotHolds
<1>1. IInv => SnapshotHolds
  BY DEF IInv
<1>2. QED
  BY <1>1, Invariance, PTL

\* The identity events of the audit log account for every identity row.
THEOREM AuditCorrect == Spec => []AuditTracksIdentities
<1>1. IInv => AuditTracksIdentities
  BY DEF IInv
<1>2. QED
  BY <1>1, Invariance, PTL

-----------------------------------------------------------------------------
(* Refinement: every step attaches a method, detaches one of several, or   *)
(* leaves the methods alone.                                               *)

\* A deletion that is not refused leaves something.
LEMMA RemainingOne == \A i \in Identity : Remaining({i}) = 0
<1> TAKE i \in Identity
<1>1. {i} \cap Identity = {i} /\ Local \notin {i}
  BY CredentialsAssumption
<1>2. Cardinality({i}) = 1
  BY FS_Singleton
<1>3. QED
  BY <1>1, <1>2 DEF Remaining

\* A step that gives a the method m: nothing but Methods(a) changes.
LEMMA AttachStep ==
  ASSUME NEW a \in Account, NEW m \in Method,
         m = Local \/ \A b \in Account : m \notin Methods(b),
         \A b \in Account : Methods(b)' = IF b = a THEN Methods(b) \cup {m} ELSE Methods(b)
  PROVE  SignIn!Next
<1>1. SignIn!Attach(a, m)
  BY DEF SignIn!Attach, SignIn!Free
<1>2. QED
  BY <1>1 DEF SignIn!Next, SignIn!Method, Method

LEMMA DetachStep ==
  ASSUME NEW a \in Account, NEW m \in Methods(a), Methods(a) # {m}, m \in Method,
         \A b \in Account : Methods(b)' = IF b = a THEN Methods(b) \ {m} ELSE Methods(b)
  PROVE  SignIn!Next
<1>1. SignIn!Detach(a, m)
  BY DEF SignIn!Detach
<1>2. QED
  BY <1>1 DEF SignIn!Next, SignIn!Method, Method

\* A password appears where none was, is replaced, or goes.
LEMMA PasswordChange ==
  ASSUME IInv, NEW a \in Account, NEW p \in Password \cup {None}, owner' = owner,
         password' = [password EXCEPT ![a] = p]
  PROVE  \A b \in Account : Methods(b)' = IF b # a THEN Methods(b)
                                         ELSE IF p = None THEN Methods(a) \ {Local}
                                         ELSE Methods(a) \cup {Local}
<1>1. Local \notin Identity
  BY CredentialsAssumption
<1>2. QED
  BY <1>1 DEF IInv, TypeOK, TablesOK, Methods, Owned

\* An unowned identity is given to a.
LEMMA IdentityGiven ==
  ASSUME IInv, NEW a \in Account, NEW i \in Identity, owner[i] = None,
         owner' = [owner EXCEPT ![i] = a], UNCHANGED password
  PROVE  SignIn!Next
<1>1. i \in Method /\ i # Local /\ a # None
  BY CredentialsAssumption DEF Method
<1>2. \A b \in Account : i \notin Methods(b)
  BY <1>1, CredentialsAssumption DEF Methods, Owned
<1>3. \A b \in Account : Methods(b)' = IF b = a THEN Methods(b) \cup {i} ELSE Methods(b)
  BY <1>1, CredentialsAssumption DEF IInv, TypeOK, TablesOK, Methods, Owned
<1>4. QED
  BY <1>1, <1>2, <1>3, AttachStep

LEMMA SignInStep == IInv /\ [Next]_vars => [SignIn!Next]_([a \in Account |-> Methods(a)])
<1> SUFFICES ASSUME IInv, [Next]_vars,
                    ~ \A a \in Account : Methods(a)' = Methods(a)
             PROVE  SignIn!Next
  OBVIOUS
<1>1. ASSUME NEW a \in Account, NEW p \in Password \cup {None}, NewAccount(a, p)
      PROVE  SignIn!Next
  <2>1. /\ owner' = owner /\ password' = [password EXCEPT ![a] = p]
        /\ password[a] = None
    BY <1>1 DEF NewAccount, IInv, TypeOK, TablesOK
  <2>2. \A b \in Account : Methods(b)' = IF b # a THEN Methods(b)
                                         ELSE IF p = None THEN Methods(a) \ {Local}
                                         ELSE Methods(a) \cup {Local}
    BY <2>1, PasswordChange
  <2>3. Local \notin Methods(a) /\ Local \in Method
    BY <2>1, CredentialsAssumption DEF Methods, Owned, Method
  <2>4. CASE p = None
    BY <2>2, <2>3, <2>4
  <2>5. CASE p # None
    <3>1. \A b \in Account :
            Methods(b)' = IF b = a THEN Methods(b) \cup {Local} ELSE Methods(b)
      BY <2>2, <2>5
    <3>2. QED
      BY <2>3, <3>1, AttachStep
  <2>6. QED
    BY <2>4, <2>5
<1>2. ASSUME NEW r \in Request, PasswordResetWrite(r) \/ SetPasswordWrite(r)
      PROVE  SignIn!Next
  <2>1. PICK a \in Account, p \in Password : /\ owner' = owner
                                             /\ password' = [password EXCEPT ![a] = p]
    <3>1. req[r].acct \in Account /\ req[r].new \in Password
      BY <1>2 DEF IInv, TypeOK, TablesOK, RequestOK, Req, At, PasswordResetWrite,
                  SetPasswordWrite
    <3>2. QED
      BY <1>2, <3>1 DEF PasswordResetWrite, SetPasswordWrite
  <2>2. p # None
    BY CredentialsAssumption
  <2>3. \A b \in Account : Methods(b)' = IF b = a THEN Methods(b) \cup {Local} ELSE Methods(b)
    BY <2>1, <2>2, PasswordChange
  <2>4. QED
    BY <2>3, AttachStep DEF Method
<1>3. ASSUME NEW r \in Request, RemovePasswordCommit(r)
      PROVE  SignIn!Next
  <2>1. PICK a \in Account : a = req[r].acct
    BY <1>3 DEF IInv, TypeOK, TablesOK, RequestOK, InTx, At, RemovePasswordCommit,
                RemovePasswordDelete
  <2>2. /\ owner' = owner /\ password' = [password EXCEPT ![a] = None]
        /\ Local \in req[r].snap /\ req[r].snap \cap Identity # {}
        /\ req[r].snap \subseteq Methods(a)
    BY <1>3, <2>1 DEF RemovePasswordCommit, RemovePasswordDelete, At, InTx, IInv,
                      SnapshotHolds, SnapshotOK
  <2>3. \A b \in Account : Methods(b)' = IF b = a THEN Methods(b) \ {Local} ELSE Methods(b)
    BY <2>2, PasswordChange
  <2>4. Local \in Methods(a) /\ Methods(a) # {Local} /\ Local \in Method
    BY <2>2, CredentialsAssumption DEF Method
  <2>5. QED
    BY <2>3, <2>4, DetachStep
<1>4. ASSUME NEW r \in Request, UnlinkCommit(r)
      PROVE  SignIn!Next
  <2>1. PICK a \in Account, i \in Identity : a = req[r].acct /\ i = req[r].arg
    BY <1>4 DEF IInv, TypeOK, TablesOK, RequestOK, InTx, At, UnlinkCommit, UnlinkDelete,
                UnlinkAny
  <2>2. /\ owner' = [owner EXCEPT ![i] = None] /\ password' = password
        /\ i \in req[r].snap /\ Remaining(req[r].snap) # 0
        /\ req[r].snap \subseteq Methods(a)
    BY <1>4, <2>1 DEF UnlinkCommit, UnlinkDelete, UnlinkAny, At, InTx, IInv,
                      SnapshotHolds, SnapshotOK
  <2>3. req[r].snap # {i}
    BY <2>2, RemainingOne
  <2>4. i \in Methods(a) /\ Methods(a) # {i} /\ i \in Method /\ i # Local
    BY <2>2, <2>3, CredentialsAssumption DEF Method
  <2>5. owner[i] = a
    BY <2>4 DEF Methods, Owned
  <2>6. \A b \in Account : Methods(b)' = IF b = a THEN Methods(b) \ {i} ELSE Methods(b)
    BY <2>2, <2>4, <2>5, CredentialsAssumption DEF IInv, TypeOK, TablesOK, Methods, Owned
  <2>7. QED
    BY <2>4, <2>6, DetachStep
<1>5. ASSUME NEW r \in Request, LinkInsert(r) \/ ResolveLink(r)
      PROVE  SignIn!Next
  <2>1. req[r].acct \in Account /\ req[r].arg \in Identity
    BY <1>5 DEF IInv, TypeOK, TablesOK, RequestOK, At, LinkInsert, ResolveLink
  <2>2. /\ owner[req[r].arg] = None /\ UNCHANGED password
        /\ owner' = [owner EXCEPT ![req[r].arg] = req[r].acct]
    BY <1>5 DEF LinkInsert, ResolveLink, InsertIdentity
  <2>3. QED
    BY <2>1, <2>2, IdentityGiven
<1>6. ASSUME NEW r \in Request, NEW a \in Account, AutoCreate(r, a)
      PROVE  SignIn!Next
  <2>1. req[r].arg \in Identity
    BY <1>6 DEF IInv, TypeOK, RequestOK, At, AutoCreate
  <2>2. /\ owner[req[r].arg] = None /\ UNCHANGED password
        /\ owner' = [owner EXCEPT ![req[r].arg] = a]
    BY <1>6 DEF AutoCreate
  <2>3. QED
    BY <2>1, <2>2, IdentityGiven
<1>7. ASSUME UNCHANGED <<owner, password>>
      PROVE  FALSE
  BY <1>7 DEF Methods, Owned
<1>8. QED
  BY <1>1, <1>2, <1>3, <1>4, <1>5, <1>6, <1>7
  DEF Next, vars, tables, Register, Create, PasswordResetRequest, PasswordResetExpire,
      GetActivePasswordReset, SetPassword, RemovePassword, Unlink, Snapshot, LinkLookup,
      ResolveLookup, Touch, ConsumePasswordReset, RemovePasswordRefused,
      UnlinkLastIdentity, UnlinkNotFound, ResolveByEmail, Fail

\* The tables, the handlers and their interleaving implement SignInMethods.
THEOREM Refinement == Spec => SignInSpec
<1>1. Init => SignIn!Init
  <2> SUFFICES ASSUME Init PROVE \A a \in Account : Methods(a) = {}
    BY DEF SignIn!Init
  <2>1. \A a \in Account : a # None
    BY CredentialsAssumption
  <2>2. QED
    BY <2>1 DEF Init, Methods, Owned
<1>2. QED
  BY <1>1, SignInStep, Invariance, PTL DEF Spec, SignInSpec, SignIn!Spec

\* No interleaving takes the last sign-in method of an account.
THEOREM LockoutFree == Spec => NeverLockedOut
<1>1. [SignIn!Next]_([a \in Account |-> Methods(a)])
      => \A a \in Account : Methods(a) # {} => Methods(a)' # {}
  <2> SUFFICES ASSUME [SignIn!Next]_([a \in Account |-> Methods(a)]),
                      NEW a \in Account, Methods(a) # {}
               PROVE  Methods(a)' # {}
    OBVIOUS
  <2>1. ASSUME NEW b \in Account, NEW m \in SignIn!Method, SignIn!Attach(b, m)
        PROVE  Methods(a)' # {}
    BY <2>1 DEF SignIn!Attach
  <2>2. ASSUME NEW b \in Account, NEW m \in SignIn!Method, SignIn!Detach(b, m)
        PROVE  Methods(a)' # {}
    BY <2>2 DEF SignIn!Detach
  <2>3. CASE UNCHANGED [b \in Account |-> Methods(b)]
    BY <2>3
  <2>4. QED
    BY <2>1, <2>2, <2>3 DEF SignIn!Next
<1>2. IInv /\ [Next]_vars => [\A a \in Account : Methods(a) # {} => Methods(a)' # {}]_vars
  BY <1>1, SignInStep
<1>3. QED
  BY <1>2, Invariance, PTL DEF Spec, NeverLockedOut

\* A password that goes is the one that the deletion had read: nothing that a
\* reset or a change of the password stored meanwhile is lost.
THEOREM RemovalCorrect == Spec => RemovesPasswordItSaw
<1>1. IInv /\ [Next]_vars => [RemovalSawPassword]_vars
  <2> SUFFICES ASSUME IInv, [Next]_vars, NEW a \in Account,
                      password[a] # None, password'[a] = None
               PROVE  \E r \in Request : /\ At(r, "removePassword") /\ req[r].acct = a
                                         /\ req[r].cur = password[a]
    BY DEF RemovalSawPassword
  <2>1. ASSUME NEW r \in Request, RemovePasswordCommit(r)
        PROVE  \E q \in Request : /\ At(q, "removePassword") /\ req[q].acct = a
                                  /\ req[q].cur = password[a]
    <3>1. /\ At(r, "removePassword") /\ Local \in req[r].snap \ req[r].dirty
          /\ ~req[r].skewed /\ password' = [password EXCEPT ![req[r].acct] = None]
      BY <2>1 DEF RemovePasswordCommit, RemovePasswordDelete
    <3>2. req[r].acct = a
      BY <3>1 DEF IInv, TypeOK, TablesOK
    <3>3. req[r].cur = password[a]
      BY <3>1, <3>2 DEF IInv, SnapshotHolds, SnapshotOK, At, InTx
    <3>4. QED
      BY <3>1, <3>2, <3>3
  <2>2. ASSUME NEW r \in Request, PasswordResetWrite(r) \/ SetPasswordWrite(r)
        PROVE  FALSE
    <3>1. req[r].new # None
      BY <2>2 DEF IInv, TypeOK, RequestOK, At, PasswordResetWrite, SetPasswordWrite
    <3>2. password' = [password EXCEPT ![req[r].acct] = req[r].new]
      BY <2>2 DEF PasswordResetWrite, SetPasswordWrite
    <3>3. QED
      BY <3>1, <3>2 DEF IInv, TypeOK, TablesOK
  <2>3. ASSUME NEW b \in Account, NEW p \in Password \cup {None}, NewAccount(b, p)
        PROVE  FALSE
    BY <2>3 DEF NewAccount, IInv, TypeOK, TablesOK
  <2>4. password' # password
    OBVIOUS
  <2>5. QED
    BY <2>1, <2>2, <2>3, <2>4
    DEF Next, vars, tables, Register, Create, PasswordResetRequest, PasswordResetExpire,
        GetActivePasswordReset, SetPassword, RemovePassword, Unlink, Snapshot, LinkLookup,
        ResolveLookup, Touch, ConsumePasswordReset, RemovePasswordRefused,
        UnlinkLastIdentity, UnlinkNotFound, UnlinkCommit, UnlinkDelete, UnlinkAny,
        LinkInsert, ResolveLink, InsertIdentity, AutoCreate, ResolveByEmail, Fail
<1>2. QED
  BY <1>1, Invariance, PTL DEF Spec, RemovesPasswordItSaw
=============================================================================
