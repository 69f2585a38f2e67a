-------------------------- MODULE ProvisioningProofs --------------------------
(***************************************************************************)
(* What accounts, projects, queues and the seed script promise, for any    *)
(* number of requests, users, keys, queues and runs of the seed.  First    *)
(* Accounts under the specification of Provisioning, then the policies of  *)
(* the queues, then what a run of the seed leaves behind.                  *)
(***************************************************************************)
EXTENDS Provisioning, FiniteSetTheorems, TLAPS

USE DEF Row

\* What a request knows, at the point it has reached.
Sender(r) ==
    LET pc == req[r].pc
        on == req[r].on
    IN  /\ pc \in {"new", "register"} => session[r] = None
        /\ pc = "register" => on \in Users
        /\ pc = "issue" => on \in Requests
        /\ pc \in {"signedIn", "exchange"} => on \in Tokens /\ token[on].status # "none"
        /\ pc = "orgAudit" => on \in registered
        /\ pc \in {"invite", "inviteAudit"} =>
              on \in Users \X Roles /\ on[1] \in registered
        /\ pc = "invite" => founder # None
        /\ pc = "inviteAudit" => member[on[1]] = on[2]
        /\ pc \in {"keyAudit", "revoke", "keyMade", "keyTouch", "authenticated"} =>
              on \in Keys /\ apiKey[on] # "none"
        /\ pc \in {"keyMade", "keyTouch", "authenticated"} =>
              <<"API_KEY_CREATED", on>> \in audit

ReqType == req = [r \in Requests |-> [pc |-> req[r].pc, on |-> req[r].on]]

Senders == \A r \in Requests : Sender(r)

\* Members come with the organization or after it.
Founded == founder = None => \A u \in Users : member[u] = None

AccountsInv ==
    ReqType /\ TypeOK /\ Senders /\ Founded /\ SessionsAccounted /\ AuditAccounts

\* What is not about the requests.
Stored == <<registered, token, founder, member, apiKey, audit, session>>

-----------------------------------------------------------------------------
\* A request that goes on is the only one that does.
LEMMA GoesOn ==
    ASSUME ReqType, NEW r \in Requests, NEW pc, NEW on, Goes(r, pc, on)
    PROVE  /\ ReqType'
           /\ req'[r].pc = pc /\ req'[r].on = on
           /\ \A q \in Requests \ {r} : req'[q] = req[q]
  BY DEF ReqType, Goes, At

\* The sessions are kept where no token changes, and no request about to issue one.
LEMMA HoldersKept ==
    ASSUME SessionsAccounted, UNCHANGED <<token, session>>,
           \A q \in Requests : req[q].pc = "issue" => req'[q] = req[q],
           \A q \in Requests : req'[q].pc = "issue" => req'[q] = req[q]
    PROVE  SessionsAccounted'
<1>1. ASSUME NEW s \in Requests PROVE Holders(s)' = Holders(s)
  BY <1>1 DEF Holders
<1> QED
  BY <1>1 DEF SessionsAccounted

\* The audit log stays true where nothing it is about changes, and nobody forgets
\* an entry that is to be written.
LEMMA AuditKept ==
    ASSUME AuditAccounts, UNCHANGED <<founder, member, apiKey, audit>>,
           \A q \in Requests : req[q].pc \in {"inviteAudit", "keyAudit", "dead"} =>
              /\ req'[q].on = req[q].on
              /\ req'[q].pc \in {req[q].pc, "dead"},
           \A q \in Requests : req'[q].pc = "authenticated" =>
              <<"API_KEY_CREATED", req'[q].on>> \in audit
    PROVE  AuditAccounts'
<1>1. ASSUME NEW u \in Users, member[u] # None
      PROVE  \/ u = founder
             \/ <<"MEMBER_INVITED", <<u, member[u]>>>> \in audit
             \/ \E q \in Requests : Pending(q, "inviteAudit", <<u, member[u]>>)'
  BY <1>1 DEF AuditAccounts, Pending
<1>2. ASSUME NEW k \in Keys, apiKey[k] # "none"
      PROVE  \/ <<"API_KEY_CREATED", k>> \in audit
             \/ \E q \in Requests : Pending(q, "keyAudit", k)'
  BY <1>2 DEF AuditAccounts, Pending
<1>3. \A k \in Handed("authenticated")' : <<"API_KEY_CREATED", k>> \in audit
  BY DEF Handed
<1> QED
  BY <1>1, <1>2, <1>3 DEF AuditAccounts, Pending

\* A member stays explained where no request forgets its entry.
LEMMA InvitationsKept ==
    ASSUME AuditAccounts, UNCHANGED member, NEW u \in Users, member[u] # None,
           \A q \in Requests : req[q].pc \in {"inviteAudit", "dead"} => req'[q] = req[q]
    PROVE  \/ u = founder
           \/ <<"MEMBER_INVITED", <<u, member[u]>>>> \in audit
           \/ \E q \in Requests : Pending(q, "inviteAudit", <<u, member[u]>>)'
<1>1. \/ u = founder
      \/ <<"MEMBER_INVITED", <<u, member[u]>>>> \in audit
      \/ \E q \in Requests : Pending(q, "inviteAudit", <<u, member[u]>>)
  BY DEF AuditAccounts
<1>2. ASSUME NEW q \in Requests, Pending(q, "inviteAudit", <<u, member[u]>>)
      PROVE  /\ req'[q].pc \in {"inviteAudit", "dead"}
             /\ req'[q].on = <<u, member[u]>>
  BY <1>2 DEF Pending
<1> QED
  BY <1>1, <1>2 DEF Pending

\* What the other requests know stays true while rows only appear, and members
\* and audit entries stay.
LEMMA SendersKept ==
    ASSUME Senders, NEW r \in Requests \cup {None},
           \A q \in Requests \ {r} : req'[q] = req[q] /\ session'[q] = session[q],
           registered \subseteq registered', audit \subseteq audit',
           founder # None => founder' # None,
           \A t \in Tokens : token[t].status # "none" => token'[t].status # "none",
           \A u \in Users : member[u] # None => member'[u] = member[u],
           \A k \in Keys : apiKey[k] # "none" => apiKey'[k] # "none",
           r \in Requests => Sender(r)'
    PROVE  Senders'
<1> SUFFICES ASSUME NEW q \in Requests \ {r} PROVE Sender(q)'
  BY DEF Senders
<1>0. Sender(q)
  BY DEF Senders
<1>1. req[q].pc = "inviteAudit" => member'[req[q].on[1]] = req[q].on[2]
  BY <1>0, AccountAssumption DEF Sender
<1> QED
  BY <1>0, <1>1 DEF Sender

\* So does what all requests know, while none goes on.
LEMMA OthersKept ==
    ASSUME Senders, UNCHANGED <<req, session>>,
           registered \subseteq registered', audit \subseteq audit',
           founder # None => founder' # None,
           \A t \in Tokens : token[t].status # "none" => token'[t].status # "none",
           \A u \in Users : member[u] # None => member'[u] = member[u],
           \A k \in Keys : apiKey[k] # "none" => apiKey'[k] # "none"
    PROVE  Senders'
<1>1. None \notin Requests
  BY AccountAssumption
<1>2. \A q \in Requests \ {None} : req'[q] = req[q] /\ session'[q] = session[q]
  OBVIOUS
<1>3. None \in Requests => Sender(None)'
  BY <1>1
<1>4. None \in Requests \cup {None}
  OBVIOUS
<1> QED
  BY <1>2, <1>3, <1>4, SendersKept

\* A request that changes nothing but itself, is not about to issue a token and
\* owes the audit log nothing.
LEMMA QuietMove ==
    ASSUME AccountsInv, NEW r \in Requests, NEW pc, NEW on, Goes(r, pc, on),
           UNCHANGED Stored, req[r].pc \notin {"issue", "dead"}, pc # "issue",
           req[r].pc \in {"inviteAudit", "keyAudit"} => pc = "dead" /\ on = req[r].on,
           Sender(r)'
    PROVE  AccountsInv'
<1>1. /\ ReqType' /\ req'[r].pc = pc /\ req'[r].on = on
      /\ \A q \in Requests \ {r} : req'[q] = req[q]
  BY GoesOn DEF AccountsInv
<1>2. TypeOK'
  BY DEF AccountsInv, TypeOK, Stored
<1>3. Senders'
  BY <1>1, SendersKept DEF AccountsInv, Stored
<1>4. SessionsAccounted'
  BY <1>1, HoldersKept DEF AccountsInv, Stored
<1>5. \A q \in Requests : req'[q].pc = "authenticated" =>
          <<"API_KEY_CREATED", req'[q].on>> \in audit
  BY <1>3 DEF Senders, Sender, Stored
<1>6. AuditAccounts'
  BY <1>1, <1>5, AuditKept DEF AccountsInv, Stored
<1> QED
  BY <1>1, <1>2, <1>3, <1>4, <1>6 DEF AccountsInv, Founded, Stored

\* An answered request knows nothing.
LEMMA Ended ==
    ASSUME AccountsInv, NEW r \in Requests, Ends(r), UNCHANGED Stored,
           req[r].pc \notin {"issue", "dead", "inviteAudit", "keyAudit"}
    PROVE  AccountsInv'
<1>1. Goes(r, "over", None)
  BY DEF Ends
<1>2. req'[r].pc = "over"
  BY <1>1, GoesOn DEF AccountsInv
<1>3. Sender(r)'
  BY <1>2 DEF Sender
<1> QED
  BY <1>1, <1>3, QuietMove

-----------------------------------------------------------------------------
\* A sign-in: the session is new, and its only holder is the request.
LEMMA SessionBegins ==
    ASSUME AccountsInv, NEW r \in Requests, NEW u \in Users,
           req[r].pc \in {"new", "register"},
           session' = [session EXCEPT ![r] = u], Goes(r, "issue", r),
           registered' = registered \cup {u},
           UNCHANGED <<token, founder, member, apiKey, audit>>
    PROVE  AccountsInv'
<1>1. /\ ReqType' /\ req'[r].pc = "issue" /\ req'[r].on = r
      /\ \A q \in Requests \ {r} : req'[q] = req[q]
  BY GoesOn DEF AccountsInv
<1>2. session \in [Requests -> registered \cup {None, "ended"}] /\ session[r] = None
  BY DEF AccountsInv, TypeOK, Senders, Sender
<1>3. TypeOK'
  BY <1>2 DEF AccountsInv, TypeOK
<1>4. /\ session'[r] = u
      /\ \A q \in Requests \ {r} : session'[q] = session[q]
  BY <1>2
<1>5. Senders'
  <2>1. Sender(r)'
    BY <1>1 DEF Sender
  <2> QED
    BY <1>1, <1>4, <2>1, SendersKept DEF AccountsInv
<1>6. SessionsAccounted'
  <2>1. Holders(r) = {}
    BY <1>2, AccountAssumption DEF AccountsInv, SessionsAccounted
  <2>2. Holders(r)' = {r}
    BY <1>1, <2>1 DEF Holders
  <2>3. ASSUME NEW q \in Requests \ {r} PROVE Holders(q)' = Holders(q)
    BY <1>1 DEF Holders, AccountsInv, Senders, Sender
  <2> QED
    BY <1>4, <2>2, <2>3 DEF AccountsInv, SessionsAccounted
<1>7. AuditAccounts'
  BY <1>1, <1>5, AuditKept DEF AccountsInv, Senders, Sender
<1> QED
  BY <1>1, <1>3, <1>5, <1>6, <1>7 DEF AccountsInv, Founded

\* The token takes the session over from the request.
LEMMA IssueTokenStep ==
    ASSUME AccountsInv, NEW r \in Requests, NEW t \in Tokens, IssueToken(r, t)
    PROVE  AccountsInv'
<1>0. PICK s \in Requests : s = req[r].on
  BY DEF AccountsInv, Senders, Sender, IssueToken
<1>1. /\ ReqType' /\ req'[r].pc = "signedIn" /\ req'[r].on = t
      /\ \A q \in Requests \ {r} : req'[q] = req[q]
  BY GoesOn DEF AccountsInv, IssueToken
<1>2. /\ req[r].pc = "issue"
      /\ token \in [Tokens -> TokenRow] /\ token[t].status = "none" /\ token[t].session = None
  BY DEF AccountsInv, Senders, Sender, TypeOK, IssueToken
<1>3. /\ token' \in [Tokens -> TokenRow]
      /\ token'[t] = [status |-> "live", session |-> s]
      /\ \A o \in Tokens \ {t} : token'[o] = token[o]
  BY <1>0, <1>2 DEF IssueToken, TokenRow
<1>4. TypeOK'
  <2>1. s # None
    BY AccountAssumption
  <2> QED
    BY <1>0, <1>3, <2>1 DEF AccountsInv, TypeOK, IssueToken
<1>5. Senders'
  <2>1. Sender(r)'
    BY <1>1, <1>3 DEF Sender
  <2> QED
    BY <1>1, <1>3, <2>1, SendersKept DEF AccountsInv, IssueToken
<1>6. SessionsAccounted'
  <2>1. r \in Holders(s) /\ t \notin Holders(s)
    BY <1>0, <1>2, AccountAssumption DEF Holders
  <2>2. session[s] \in Users /\ Holders(s) = {r}
    BY <1>2, <2>1 DEF AccountsInv, SessionsAccounted
  <2>3. Holders(s)' = {t}
    BY <1>0, <1>1, <1>2, <1>3, <2>2, AccountAssumption DEF Holders
  <2>4. ASSUME NEW q \in Requests \ {s} PROVE Holders(q)' = Holders(q)
    BY <1>0, <1>1, <1>2, <1>3, AccountAssumption DEF Holders
  <2> QED
    BY <1>2, <2>2, <2>3, <2>4 DEF AccountsInv, SessionsAccounted, IssueToken
<1>7. AuditAccounts'
  BY <1>1, <1>2, <1>5, AuditKept DEF AccountsInv, Senders, Sender, IssueToken
<1> QED
  BY <1>1, <1>4, <1>5, <1>6, <1>7 DEF AccountsInv, Founded, IssueToken

\* The session ends with the token it is continued by.
LEMMA LogoutStep ==
    ASSUME AccountsInv, NEW r \in Requests, NEW t \in Tokens, Logout(r, t)
    PROVE  AccountsInv'
<1>1. CASE token[t].status \notin Row
  BY <1>1, Ended DEF Logout, Stored
<1>2. CASE token[t].status \in Row
  <2>0. PICK s \in Requests : s = token[t].session
    BY <1>2 DEF AccountsInv, TypeOK, TokenRow
  <2>1. /\ ReqType' /\ req'[r].pc = "over" /\ req[r].pc = "new"
        /\ \A q \in Requests \ {r} : req'[q] = req[q]
    BY <1>2, GoesOn DEF AccountsInv, Logout, Ends
  <2>2. token \in [Tokens -> TokenRow]
    BY <1>2 DEF AccountsInv, TypeOK, TokenRow
  <2>3. /\ token' \in [Tokens -> TokenRow]
        /\ token'[t].status = "deleted" /\ token'[t].session = s
        /\ \A o \in Tokens \ {t} : token'[o] = token[o]
    BY <1>2, <2>0, <2>2 DEF Logout, TokenRow
  <2>4. /\ session' \in [Requests -> registered \cup {None, "ended"}]
        /\ session'[s] = "ended"
        /\ \A q \in Requests \ {s} : session'[q] = session[q]
    BY <1>2, <2>0, <2>2 DEF AccountsInv, TypeOK, Logout
  <2>5. TypeOK'
    <3>1. s # None
      BY AccountAssumption
    <3> QED
      BY <2>3, <2>4, <3>1 DEF AccountsInv, TypeOK, Logout
  <2>6. t \in Holders(s)
    BY <1>2, <2>0 DEF Holders
  <2>7. session[s] \in Users /\ Holders(s) = {t}
    BY <2>2, <2>6 DEF AccountsInv, SessionsAccounted
  <2>8. Senders'
    <3> SUFFICES ASSUME NEW q \in Requests PROVE Sender(q)'
      BY DEF Senders
    <3>1. CASE q = r
      BY <2>1, <3>1 DEF Sender
    <3>2. CASE q # r
      <4>1. Sender(q) /\ req'[q] = req[q]
        BY <2>1, <3>2 DEF AccountsInv, Senders
      <4>2. session[q] = None => session'[q] = None
        BY <2>4, <2>7, AccountAssumption
      <4>3. \A o \in Tokens : token[o].status # "none" => token'[o].status # "none"
        BY <2>3
      <4> QED
        BY <1>2, <4>1, <4>2, <4>3 DEF Sender, Logout
    <3> QED
      BY <3>1, <3>2
  <2>9. SessionsAccounted'
    <3>1. Holders(s)' = {}
      BY <2>0, <2>1, <2>3, <2>7, AccountAssumption DEF Holders
    <3>2. ASSUME NEW q \in Requests \ {s} PROVE Holders(q)' = Holders(q)
      BY <2>0, <2>1, <2>3 DEF Holders
    <3> QED
      BY <2>4, <3>1, <3>2, AccountAssumption DEF AccountsInv, SessionsAccounted
  <2>10. AuditAccounts'
    BY <1>2, <2>1, <2>8, AuditKept DEF AccountsInv, Senders, Sender, Logout
  <2> QED
    BY <1>2, <2>1, <2>5, <2>8, <2>9, <2>10 DEF AccountsInv, Founded, Logout
<1> QED
  BY <1>1, <1>2

\* The request takes the session over from the token, if it is still there.
LEMMA RefreshDeleteStep ==
    ASSUME AccountsInv, NEW r \in Requests, RefreshDelete(r)
    PROVE  AccountsInv'
<1>0. PICK t \in Tokens : t = req[r].on /\ req[r].pc = "exchange"
  BY DEF AccountsInv, Senders, Sender, RefreshDelete
<1>1. CASE token[t].status \notin Row
  BY <1>0, <1>1, Ended DEF RefreshDelete, Stored
<1>2. CASE token[t].status \in Row
  <2>0. PICK s \in Requests : s = token[t].session
    BY <1>2 DEF AccountsInv, TypeOK, TokenRow
  <2>1. /\ ReqType' /\ req'[r].pc = "issue" /\ req'[r].on = s
        /\ \A q \in Requests \ {r} : req'[q] = req[q]
    BY <1>0, <1>2, <2>0, GoesOn DEF AccountsInv, RefreshDelete
  <2>2. token \in [Tokens -> TokenRow]
    BY <1>0, <1>2 DEF AccountsInv, TypeOK, TokenRow
  <2>3. /\ token' \in [Tokens -> TokenRow]
        /\ token'[t].status = "deleted" /\ token'[t].session = s
        /\ \A o \in Tokens \ {t} : token'[o] = token[o]
    BY <1>0, <1>2, <2>0, <2>2 DEF RefreshDelete, TokenRow
  <2>4. TypeOK'
    <3>1. s # None
      BY AccountAssumption
    <3> QED
      BY <2>3, <3>1 DEF AccountsInv, TypeOK, RefreshDelete
  <2>5. Senders'
    <3>1. Sender(r)'
      BY <2>1, <2>2 DEF Sender
    <3> QED
      BY <2>1, <2>3, <3>1, SendersKept DEF AccountsInv, RefreshDelete
  <2>6. SessionsAccounted'
    <3>1. t \in Holders(s)
      BY <1>2, <2>0 DEF Holders
    <3>2. session[s] \in Users /\ Holders(s) = {t}
      BY <2>2, <3>1 DEF AccountsInv, SessionsAccounted
    <3>3. Holders(s)' = {r}
      BY <1>0, <2>0, <2>1, <2>3, <3>2, AccountAssumption DEF Holders
    <3>4. ASSUME NEW q \in Requests \ {s} PROVE Holders(q)' = Holders(q)
      BY <1>0, <2>0, <2>1, <2>3 DEF Holders
    <3> QED
      BY <3>2, <3>3, <3>4 DEF AccountsInv, SessionsAccounted, RefreshDelete
  <2>7. AuditAccounts'
    BY <1>0, <2>0, <2>1, <2>5, AuditKept DEF AccountsInv, Senders, Sender, RefreshDelete
  <2> QED
    BY <1>2, <2>1, <2>4, <2>5, <2>6, <2>7 DEF AccountsInv, Founded, RefreshDelete
<1> QED
  BY <1>1, <1>2

-----------------------------------------------------------------------------
\* Every step of sign-in keeps the invariant.
LEMMA AuthStep ==
    ASSUME AccountsInv, NEW r \in Requests, Auth(r)
    PROVE  AccountsInv'
<1>1. ASSUME NEW u \in Users, RegisterRead(r, u) PROVE AccountsInv'
  <2>1. CASE u \in registered
    BY <1>1, <2>1, Ended DEF RegisterRead, Stored
  <2>2. CASE u \notin registered
    <3>1. Goes(r, "register", u) /\ req'[r].pc = "register" /\ req'[r].on = u
      BY <1>1, <2>2, GoesOn DEF RegisterRead, AccountsInv
    <3>2. Sender(r)'
      BY <1>1, <3>1 DEF RegisterRead, Sender, AccountsInv, Senders
    <3> QED
      BY <1>1, <3>1, <3>2, QuietMove DEF RegisterRead, Stored
  <2> QED
    BY <2>1, <2>2
<1>2. ASSUME NEW u \in Users, NEW valid \in BOOLEAN, Login(r, u, valid) PROVE AccountsInv'
  <2>1. CASE u \in registered /\ valid
    <3>1. registered' = registered \cup {u}
      BY <1>2, <2>1 DEF Login
    <3> QED
      BY <1>2, <2>1, <3>1, SessionBegins DEF Login
  <2>2. CASE ~(u \in registered /\ valid)
    BY <1>2, <2>2, Ended DEF Login, Stored
  <2> QED
    BY <2>1, <2>2
<1>3. CASE RegisterCreate(r)
  <2>0. req[r].pc = "register" /\ req[r].on \in Users
    BY <1>3 DEF RegisterCreate, AccountsInv, Senders, Sender
  <2>1. CASE req[r].on \in registered
    BY <1>3, <2>1, Ended DEF RegisterCreate, Stored
  <2>2. CASE req[r].on \notin registered
    BY <1>3, <2>0, <2>2, SessionBegins DEF RegisterCreate
  <2> QED
    BY <2>1, <2>2
<1>4. ASSUME NEW t \in Tokens, RefreshRead(r, t) PROVE AccountsInv'
  <2>1. CASE token[t].status = "live"
    <3>1. Goes(r, "exchange", t) /\ req'[r].pc = "exchange" /\ req'[r].on = t
      BY <1>4, <2>1, GoesOn DEF RefreshRead, AccountsInv
    <3>2. Sender(r)'
      BY <1>4, <2>1, <3>1 DEF RefreshRead, Sender
    <3> QED
      BY <1>4, <3>1, <3>2, QuietMove DEF RefreshRead, Stored
  <2>2. CASE token[t].status # "live"
    BY <1>4, <2>2, Ended DEF RefreshRead, Stored
  <2> QED
    BY <2>1, <2>2
<1> QED
  BY <1>1, <1>2, <1>3, <1>4, IssueTokenStep, LogoutStep, RefreshDeleteStep DEF Auth

\* A token or a key that expires is still the same row.
LEMMA ExpiryStep ==
    ASSUME AccountsInv,
           \/ \E t \in Tokens : TokenExpires(t)
           \/ \E k \in Keys : KeyExpires(k)
    PROVE  AccountsInv'
<1>0. /\ UNCHANGED req => ReqType'
      /\ \A q \in Requests : req[q].pc = "authenticated" =>
            <<"API_KEY_CREATED", req[q].on>> \in audit
  BY DEF AccountsInv, ReqType, Senders, Sender
<1>1. ASSUME NEW t \in Tokens, TokenExpires(t) PROVE AccountsInv'
  <2>1. token \in [Tokens -> TokenRow] /\ token[t].status = "live"
    BY <1>1 DEF AccountsInv, TypeOK, TokenExpires
  <2>2. /\ token' \in [Tokens -> TokenRow]
        /\ token'[t].status = "expired" /\ token'[t].session = token[t].session
        /\ \A o \in Tokens \ {t} : token'[o] = token[o]
    BY <1>1, <2>1 DEF TokenExpires, TokenRow
  <2>3. TypeOK'
    BY <1>1, <2>1, <2>2 DEF AccountsInv, TypeOK, TokenExpires
  <2>4. Senders'
    <3>1. \A o \in Tokens : token[o].status # "none" => token'[o].status # "none"
      BY <2>2
    <3> QED
      BY <1>1, <3>1, OthersKept DEF AccountsInv, TokenExpires
  <2>5. SessionsAccounted'
    <3>1. ASSUME NEW s \in Requests PROVE Holders(s)' = Holders(s)
      BY <1>1, <2>1, <2>2 DEF Holders, TokenExpires
    <3> QED
      BY <1>1, <3>1 DEF AccountsInv, SessionsAccounted, TokenExpires
  <2>6. AuditAccounts'
    BY <1>1, <1>0, AuditKept DEF AccountsInv, TokenExpires
  <2> QED
    BY <1>1, <1>0, <2>3, <2>4, <2>5, <2>6 DEF AccountsInv, Founded, TokenExpires
<1>2. ASSUME NEW k \in Keys, KeyExpires(k) PROVE AccountsInv'
  <2>1. apiKey \in [Keys -> KeyRow] /\ apiKey[k] = "live"
    BY <1>2 DEF AccountsInv, TypeOK, KeyExpires
  <2>2. /\ apiKey' \in [Keys -> KeyRow]
        /\ \A o \in Keys : apiKey'[o] # "none" <=> apiKey[o] # "none"
    BY <1>2, <2>1 DEF KeyExpires, KeyRow
  <2>3. TypeOK'
    BY <1>2, <2>2 DEF AccountsInv, TypeOK, KeyExpires
  <2>4. Senders'
    BY <1>2, <2>2, OthersKept DEF AccountsInv, KeyExpires
  <2>5. AuditAccounts'
    <3>1. ASSUME NEW o \in Keys, apiKey[o] # "none"
          PROVE  \/ <<"API_KEY_CREATED", o>> \in audit
                 \/ \E q \in Requests : Pending(q, "keyAudit", o)
      BY <3>1 DEF AccountsInv, AuditAccounts
    <3>2. \A o \in Handed("authenticated") : <<"API_KEY_CREATED", o>> \in audit
      BY DEF AccountsInv, AuditAccounts
    <3>3. \A u \in Users : member[u] # None =>
              \/ u = founder
              \/ <<"MEMBER_INVITED", <<u, member[u]>>>> \in audit
              \/ \E q \in Requests : Pending(q, "inviteAudit", <<u, member[u]>>)
      BY DEF AccountsInv, AuditAccounts
    <3>4. UNCHANGED <<req, founder, member, audit>>
      BY <1>2 DEF KeyExpires
    <3>5. \A o \in Keys : apiKey'[o] # "none" =>
              \/ <<"API_KEY_CREATED", o>> \in audit
              \/ \E q \in Requests : Pending(q, "keyAudit", o)
      BY <2>2, <3>1
    <3> QED
      BY <3>2, <3>3, <3>4, <3>5 DEF AccountsInv, AuditAccounts, Pending, Handed
  <2>6. SessionsAccounted'
    BY <1>2, HoldersKept DEF AccountsInv, KeyExpires
  <2> QED
    BY <1>2, <1>0, <2>3, <2>4, <2>5, <2>6 DEF AccountsInv, Founded, KeyExpires
<1> QED
  BY <1>1, <1>2

-----------------------------------------------------------------------------
\* The founder is the first member.
LEMMA Founding ==
    ASSUME AccountsInv, NEW r \in Requests \cup {None}, NEW u \in registered,
           founder = None, founder' = u, member' = [member EXCEPT ![u] = Admin],
           UNCHANGED <<registered, token, apiKey, audit, session>>, ReqType',
           \A q \in Requests \ {r} : req'[q] = req[q],
           r \in Requests => req[r].pc = "new" /\ req'[r].pc = "orgAudit" /\ req'[r].on = u
    PROVE  AccountsInv'
<1>1. /\ u \in Users /\ u # None /\ Admin \in Roles
      /\ \A o \in Users : member[o] = None
  BY AccountAssumption DEF AccountsInv, TypeOK, Founded
<1>2. /\ member' \in [Users -> Roles \cup {None}]
      /\ \A o \in Users \ {u} : member'[o] = None
  BY <1>1 DEF AccountsInv, TypeOK
<1>3. TypeOK'
  BY <1>1, <1>2 DEF AccountsInv, TypeOK
<1>4. Senders'
  <2>1. r \in Requests => Sender(r)'
    BY DEF Sender
  <2> QED
    BY <1>1, <2>1, SendersKept, AccountAssumption DEF AccountsInv
<1>5. SessionsAccounted'
  <2>1. \A q \in Requests : /\ req[q].pc = "issue" => req'[q] = req[q]
                            /\ req'[q].pc = "issue" => req'[q] = req[q]
    OBVIOUS
  <2> QED
    BY <2>1, HoldersKept DEF AccountsInv
<1>6. AuditAccounts'
  <2>1. ASSUME NEW o \in Users, NEW role \in Roles PROVE <<"MEMBER_INVITED", <<o, role>>>> \notin audit
    BY <1>1, AccountAssumption DEF AccountsInv, AuditAccounts
  <2>2. ASSUME NEW o \in Users, member'[o] # None PROVE o = founder'
    BY <1>2, <2>2
  <2>3. ASSUME NEW k \in Keys, apiKey[k] # "none"
        PROVE  \/ <<"API_KEY_CREATED", k>> \in audit
               \/ \E q \in Requests : Pending(q, "keyAudit", k)'
    BY <2>3 DEF AccountsInv, AuditAccounts, Pending
  <2>4. \A q \in Requests : req'[q].pc = "authenticated" => <<"API_KEY_CREATED", req'[q].on>> \in audit
    BY <1>4 DEF Senders, Sender
  <2>5. \A k \in Handed("authenticated")' : <<"API_KEY_CREATED", k>> \in audit
    BY <2>4 DEF Handed
  <2> QED
    BY <2>1, <2>2, <2>3, <2>5 DEF AuditAccounts
<1>7. Founded'
  BY <1>1 DEF Founded
<1> QED
  BY <1>3, <1>4, <1>5, <1>6, <1>7 DEF AccountsInv

\* A request adds the audit entry it owes, and goes on.
LEMMA Recorded ==
    ASSUME AccountsInv, NEW r \in Requests, NEW kind, NEW pc,
           <<req[r].pc, kind, pc>> \in
               {<<"orgAudit", "ORG_CREATED", "over">>,
                <<"inviteAudit", "MEMBER_INVITED", "over">>,
                <<"keyAudit", "API_KEY_CREATED", "keyMade">>},
           audit' = audit \cup {<<kind, req[r].on>>}, \E on : Goes(r, pc, on),
           pc = "keyMade" => Goes(r, pc, req[r].on),
           UNCHANGED <<registered, token, founder, member, apiKey, session>>
    PROVE  AccountsInv'
<1>1. /\ ReqType' /\ req'[r].pc = pc
      /\ pc = "keyMade" => req'[r].on = req[r].on
      /\ \A q \in Requests \ {r} : req'[q] = req[q]
  BY GoesOn DEF AccountsInv
<1>2. Sender(r)
  BY DEF AccountsInv, Senders
<1>3. <<kind, req[r].on>> \in AuditEntry
  BY <1>2 DEF Sender, AuditEntry, AccountsInv, TypeOK
<1>4. TypeOK'
  BY <1>3 DEF AccountsInv, TypeOK
<1>5. Senders'
  <2>1. Sender(r)'
    BY <1>1, <1>2 DEF Sender
  <2> QED
    BY <1>1, <2>1, SendersKept DEF AccountsInv
<1>6. SessionsAccounted'
  BY <1>1, HoldersKept DEF AccountsInv
<1>7. AuditAccounts'
  <2>1. ASSUME NEW o \in Users, NEW as \in Roles, <<"MEMBER_INVITED", <<o, as>>>> \in audit'
        PROVE  member[o] = as
    <3>1. CASE <<"MEMBER_INVITED", <<o, as>>>> \in audit
      BY <3>1 DEF AccountsInv, AuditAccounts
    <3>2. CASE kind = "MEMBER_INVITED" /\ req[r].on = <<o, as>>
      <4>1. req[r].pc = "inviteAudit"
        BY <3>2
      <4>2. member[req[r].on[1]] = req[r].on[2]
        BY <1>2, <4>1 DEF Sender
      <4>3. req[r].on[1] = o /\ req[r].on[2] = as
        BY <3>2
      <4> QED
        BY <4>2, <4>3
    <3> QED
      BY <2>1, <3>1, <3>2
  <2>2. ASSUME NEW o \in Users, member[o] # None
        PROVE  \/ o = founder
               \/ <<"MEMBER_INVITED", <<o, member[o]>>>> \in audit'
               \/ \E q \in Requests : Pending(q, "inviteAudit", <<o, member[o]>>)'
    BY <1>1, <2>2 DEF AccountsInv, AuditAccounts, Pending
  <2>3. ASSUME NEW k \in Keys, apiKey[k] # "none"
        PROVE  \/ <<"API_KEY_CREATED", k>> \in audit'
               \/ \E q \in Requests : Pending(q, "keyAudit", k)'
    BY <1>1, <2>3 DEF AccountsInv, AuditAccounts, Pending
  <2>4. \A k \in Handed("authenticated")' : <<"API_KEY_CREATED", k>> \in audit'
    BY <1>5 DEF Handed, Senders, Sender
  <2> QED
    BY <2>1, <2>2, <2>3, <2>4 DEF AuditAccounts
<1> QED
  BY <1>1, <1>4, <1>5, <1>6, <1>7 DEF AccountsInv, Founded

\* Every step of an organization's members keeps the invariant.
LEMMA InviteStep ==
    ASSUME AccountsInv, NEW r \in Requests, Invite(r)
    PROVE  AccountsInv'
<1>1. ASSUME NEW u \in Users, OrgCreate(r, u) PROVE AccountsInv'
  <2>1. CASE founder = None
    <3>1. /\ ReqType' /\ req'[r].pc = "orgAudit" /\ req'[r].on = u
          /\ \A q \in Requests \ {r} : req'[q] = req[q]
      BY <1>1, <2>1, GoesOn DEF AccountsInv, OrgCreate
    <3> QED
      BY <1>1, <2>1, <3>1, Founding DEF OrgCreate
  <2>2. CASE founder # None
    BY <1>1, <2>2, Ended DEF OrgCreate, Stored
  <2> QED
    BY <2>1, <2>2
<1>2. ASSUME NEW u \in Users, NEW role \in Roles, InviteRead(r, u, role) PROVE AccountsInv'
  <2>1. CASE u \in registered /\ member[u] = None
    <3>1. Goes(r, "invite", <<u, role>>) /\ req'[r].pc = "invite" /\ req'[r].on = <<u, role>>
      BY <1>2, <2>1, GoesOn DEF InviteRead, AccountsInv
    <3>2. Sender(r)'
      BY <1>2, <2>1, <3>1 DEF InviteRead, Sender
    <3> QED
      BY <1>2, <3>1, <3>2, QuietMove DEF InviteRead, Stored
  <2>2. CASE ~(u \in registered /\ member[u] = None)
    BY <1>2, <2>2, Ended DEF InviteRead, Stored
  <2> QED
    BY <2>1, <2>2
<1>3. CASE InviteCreate(r)
  <2>. /\ req[r].on \in Users \X Roles
       /\ req[r].on[1] \in registered
    BY <1>3 DEF InviteCreate, AccountsInv, Senders, Sender
  <2>0. PICK u \in registered, role \in Roles : req[r].on = <<u, role>>
    OBVIOUS
  <2>1. /\ req[r].pc = "invite" /\ founder # None
        /\ u \in Users /\ role # None
    BY <1>3, AccountAssumption DEF InviteCreate, AccountsInv, Senders, Sender, TypeOK
  <2>2. CASE member[u] # None
    BY <1>3, <2>0, <2>1, <2>2, Ended DEF InviteCreate, Stored
  <2>3. CASE member[u] = None
    <3>1. /\ ReqType' /\ req'[r].pc = "inviteAudit" /\ req'[r].on = <<u, role>>
          /\ \A q \in Requests \ {r} : req'[q] = req[q]
      BY <1>3, <2>0, <2>3, GoesOn DEF AccountsInv, InviteCreate
    <3>2. /\ member' \in [Users -> Roles \cup {None}] /\ member'[u] = role
          /\ \A o \in Users \ {u} : member'[o] = member[o]
      BY <1>3, <2>0, <2>1, <2>3 DEF AccountsInv, TypeOK, InviteCreate
    <3>3. TypeOK'
      BY <1>3, <3>2 DEF AccountsInv, TypeOK, InviteCreate
    <3>4. Senders'
      <4>1. Sender(r)'
        BY <1>3, <2>1, <3>1, <3>2 DEF Sender, InviteCreate
      <4> QED
        BY <1>3, <2>3, <3>1, <3>2, <4>1, SendersKept DEF AccountsInv, InviteCreate
    <3>5. SessionsAccounted'
      BY <1>3, <2>1, <3>1, HoldersKept DEF AccountsInv, InviteCreate
    <3>6. AuditAccounts'
      <4>0. UNCHANGED <<founder, apiKey, audit>>
        BY <1>3 DEF InviteCreate
      <4>1. ASSUME NEW o \in Users, NEW as \in Roles, <<"MEMBER_INVITED", <<o, as>>>> \in audit
            PROVE  member'[o] = as
        <5>1. member[o] = as /\ as # None
          BY <4>1, AccountAssumption DEF AccountsInv, AuditAccounts
        <5> QED
          BY <2>3, <3>2, <5>1
      <4>2. ASSUME NEW o \in Users, member'[o] # None
            PROVE  \/ o = founder
                   \/ <<"MEMBER_INVITED", <<o, member'[o]>>>> \in audit
                   \/ \E q \in Requests : Pending(q, "inviteAudit", <<o, member[o]>>)'
        <5>1. CASE o = u
          BY <3>1, <3>2, <5>1 DEF Pending
        <5>2. CASE o # u
          <6>1. member'[o] = member[o] /\ member[o] # None
            BY <3>2, <4>2, <5>2
          <6>2. \/ o = founder
                \/ <<"MEMBER_INVITED", <<o, member[o]>>>> \in audit
                \/ \E q \in Requests : Pending(q, "inviteAudit", <<o, member[o]>>)
            BY <6>1 DEF AccountsInv, AuditAccounts
          <6>3. ASSUME NEW q \in Requests, Pending(q, "inviteAudit", <<o, member[o]>>)
                PROVE  Pending(q, "inviteAudit", <<o, member[o]>>)'
            BY <2>1, <3>1, <6>1, <6>3 DEF Pending
          <6> QED
            BY <6>1, <6>2, <6>3
        <5> QED
          BY <5>1, <5>2
      <4>3. ASSUME NEW k \in Keys, apiKey[k] # "none"
            PROVE  \/ <<"API_KEY_CREATED", k>> \in audit
                   \/ \E q \in Requests : Pending(q, "keyAudit", k)'
        BY <2>1, <3>1, <4>3 DEF AccountsInv, AuditAccounts, Pending
      <4>4. \A k \in Handed("authenticated")' : <<"API_KEY_CREATED", k>> \in audit
        BY <3>4, <4>0 DEF Handed, Senders, Sender
      <4> QED
        BY <4>0, <4>1, <4>2, <4>3, <4>4 DEF AuditAccounts
    <3>7. Founded'
      BY <1>3, <2>1 DEF Founded, InviteCreate
    <3> QED
      BY <3>1, <3>3, <3>4, <3>5, <3>6, <3>7 DEF AccountsInv
  <2> QED
    BY <2>2, <2>3
<1>4. CASE OrgAudit(r)
  BY <1>4, Recorded DEF OrgAudit, Ends
<1>5. CASE InviteAudit(r)
  BY <1>5, Recorded DEF InviteAudit, Ends
<1> QED
  BY <1>1, <1>2, <1>3, <1>4, <1>5 DEF Invite

-----------------------------------------------------------------------------
\* Every step of the API keys keeps the invariant.
LEMMA KeyStep ==
    ASSUME AccountsInv, NEW r \in Requests, UseKeys(r)
    PROVE  AccountsInv'
<1>0. Sender(r)
  BY DEF AccountsInv, Senders
<1>1. ASSUME NEW k \in Keys, RevokeRead(r, k) PROVE AccountsInv'
  <2>1. CASE apiKey[k] \in Row
    <3>1. Goes(r, "revoke", k) /\ req'[r].pc = "revoke" /\ req'[r].on = k
      BY <1>1, <2>1, GoesOn DEF RevokeRead, AccountsInv
    <3>2. Sender(r)'
      BY <1>1, <2>1, <3>1 DEF RevokeRead, Sender
    <3> QED
      BY <1>1, <3>1, <3>2, QuietMove DEF RevokeRead, Stored
  <2>2. CASE apiKey[k] \notin Row
    BY <1>1, <2>2, Ended DEF RevokeRead, Stored
  <2> QED
    BY <2>1, <2>2
<1>2. ASSUME NEW k \in Keys, KeyRead(r, k) PROVE AccountsInv'
  <2>1. CASE apiKey[k] = "live"
    <3>0. <<"API_KEY_CREATED", k>> \in audit
      BY <1>2 DEF KeyRead, Handed, AccountsInv, Senders, Sender
    <3>1. Goes(r, "keyTouch", k) /\ req'[r].pc = "keyTouch" /\ req'[r].on = k
      BY <1>2, <2>1, GoesOn DEF KeyRead, AccountsInv
    <3>2. Sender(r)'
      BY <1>2, <2>1, <3>0, <3>1 DEF KeyRead, Sender
    <3> QED
      BY <1>2, <3>1, <3>2, QuietMove DEF KeyRead, Stored
  <2>2. CASE apiKey[k] # "live"
    BY <1>2, <2>2, Ended DEF KeyRead, Stored
  <2> QED
    BY <2>1, <2>2
<1>3. CASE KeyTouch(r)
  <2>1. CASE apiKey[req[r].on] \in Row
    <3> DEFINE k == req[r].on
    <3>0. Goes(r, "authenticated", k) /\ req[r].pc = "keyTouch" /\ UNCHANGED Stored
      BY <1>3, <2>1 DEF KeyTouch, Stored
    <3>1. req'[r].pc = "authenticated" /\ req'[r].on = k
      BY <3>0, GoesOn DEF AccountsInv
    <3>2. k \in Keys /\ apiKey[k] # "none" /\ <<"API_KEY_CREATED", k>> \in audit
      BY <1>0, <3>0 DEF Sender
    <3>3. Sender(r)'
      BY <3>0, <3>1, <3>2 DEF Sender, Stored
    <3> QED
      BY <3>0, <3>3, QuietMove
  <2>2. CASE apiKey[req[r].on] \notin Row
    BY <1>3, <2>2, Ended DEF KeyTouch, Stored
  <2> QED
    BY <2>1, <2>2
<1>4. CASE KeyAudit(r)
  BY <1>4, Recorded DEF KeyAudit
<1>5. ASSUME NEW k \in Keys, KeyCreate(r, k) PROVE AccountsInv'
  <2>1. /\ ReqType' /\ req'[r].pc = "keyAudit" /\ req'[r].on = k /\ req[r].pc = "new"
        /\ \A q \in Requests \ {r} : req'[q] = req[q]
    BY <1>5, GoesOn DEF AccountsInv, KeyCreate
  <2>2. /\ apiKey' \in [Keys -> KeyRow] /\ apiKey'[k] # "none"
        /\ \A o \in Keys \ {k} : apiKey'[o] = apiKey[o]
    BY <1>5 DEF AccountsInv, TypeOK, KeyCreate, KeyRow
  <2>3. TypeOK'
    BY <1>5, <2>2 DEF AccountsInv, TypeOK, KeyCreate
  <2>4. Senders'
    <3>1. Sender(r)'
      BY <2>1, <2>2 DEF Sender
    <3> QED
      BY <1>5, <2>1, <2>2, <3>1, SendersKept DEF AccountsInv, KeyCreate
  <2>5. SessionsAccounted'
    BY <1>5, <2>1, HoldersKept DEF AccountsInv, KeyCreate
  <2>6. AuditAccounts'
    <3>0. UNCHANGED <<founder, member, audit>>
      BY <1>5 DEF KeyCreate
    <3>1. ASSUME NEW o \in Keys, apiKey'[o] # "none"
          PROVE  \/ <<"API_KEY_CREATED", o>> \in audit
                 \/ \E q \in Requests : Pending(q, "keyAudit", o)'
      <4>1. CASE o = k
        BY <2>1, <4>1 DEF Pending
      <4>2. CASE o # k
        BY <2>1, <2>2, <3>1, <4>2 DEF AccountsInv, AuditAccounts, Pending
      <4> QED
        BY <4>1, <4>2
    <3>2. ASSUME NEW o \in Users, member[o] # None
          PROVE  \/ o = founder
                 \/ <<"MEMBER_INVITED", <<o, member[o]>>>> \in audit
                 \/ \E q \in Requests : Pending(q, "inviteAudit", <<o, member[o]>>)'
      BY <2>1, <3>0, <3>2, InvitationsKept DEF AccountsInv
    <3>3. \A o \in Handed("authenticated")' : <<"API_KEY_CREATED", o>> \in audit
      BY <2>4, <3>0 DEF Handed, Senders, Sender
    <3> QED
      BY <3>0, <3>1, <3>2, <3>3 DEF AccountsInv, AuditAccounts
  <2> QED
    BY <1>5, <2>1, <2>3, <2>4, <2>5, <2>6 DEF AccountsInv, Founded, KeyCreate
<1>6. CASE RevokeDelete(r)
  <2>0. req[r].pc = "revoke" /\ req[r].on \in Keys
    BY <1>0, <1>6 DEF RevokeDelete, Sender
  <2>1. CASE apiKey[req[r].on] \notin Row
    BY <1>6, <2>0, <2>1, Ended DEF RevokeDelete, Stored
  <2>2. CASE apiKey[req[r].on] \in Row
    <3>1. /\ ReqType' /\ req'[r].pc = "over"
          /\ \A q \in Requests \ {r} : req'[q] = req[q]
      BY <1>6, <2>2, GoesOn DEF AccountsInv, RevokeDelete, Ends
    <3>2. /\ apiKey' \in [Keys -> KeyRow]
          /\ \A o \in Keys : apiKey'[o] # "none" <=> apiKey[o] # "none"
      BY <1>6, <2>0, <2>2 DEF AccountsInv, TypeOK, RevokeDelete, KeyRow
    <3>3. TypeOK'
      BY <1>6, <2>2, <3>2 DEF AccountsInv, TypeOK, RevokeDelete
    <3>4. Senders'
      <4>1. Sender(r)'
        BY <3>1 DEF Sender
      <4> QED
        BY <1>6, <2>2, <3>1, <3>2, <4>1, SendersKept DEF AccountsInv, RevokeDelete
    <3>5. SessionsAccounted'
      BY <1>6, <2>0, <3>1, HoldersKept DEF AccountsInv, RevokeDelete
    <3>6. AuditAccounts'
      <4>0. UNCHANGED <<founder, member, audit>>
        BY <1>6 DEF RevokeDelete
      <4>1. ASSUME NEW o \in Keys, apiKey'[o] # "none"
            PROVE  \/ <<"API_KEY_CREATED", o>> \in audit
                   \/ \E q \in Requests : Pending(q, "keyAudit", o)'
        BY <2>0, <3>1, <3>2, <4>1 DEF AccountsInv, AuditAccounts, Pending
      <4>2. ASSUME NEW o \in Users, member[o] # None
            PROVE  \/ o = founder
                   \/ <<"MEMBER_INVITED", <<o, member[o]>>>> \in audit
                   \/ \E q \in Requests : Pending(q, "inviteAudit", <<o, member[o]>>)'
        BY <2>0, <3>1, <4>0, <4>2, InvitationsKept DEF AccountsInv
      <4>3. \A o \in Handed("authenticated")' : <<"API_KEY_CREATED", o>> \in audit
        BY <3>4, <4>0 DEF Handed, Senders, Sender
      <4> QED
        BY <4>0, <4>1, <4>2, <4>3 DEF AccountsInv, AuditAccounts
    <3> QED
      BY <1>6, <3>1, <3>3, <3>4, <3>5, <3>6 DEF AccountsInv, Founded, RevokeDelete
  <2> QED
    BY <2>1, <2>2
<1> QED
  BY <1>1, <1>2, <1>3, <1>4, <1>5, <1>6 DEF UseKeys

-----------------------------------------------------------------------------
\* A process that dies with a request about to issue a token ends its session.
LEMMA CrashStep ==
    ASSUME AccountsInv, NEW r \in Requests, Crash(r)
    PROVE  AccountsInv'
<1>0. /\ Goes(r, "dead", req[r].on) /\ ReqType' /\ req'[r].pc = "dead" /\ req'[r].on = req[r].on
      /\ \A q \in Requests \ {r} : req'[q] = req[q]
  BY GoesOn DEF AccountsInv, Crash
<1>1. CASE req[r].pc # "issue"
  <2>1. UNCHANGED Stored
    BY <1>1 DEF Crash, Stored
  <2>2. Sender(r)'
    BY <1>0 DEF Sender
  <2> QED
    BY <1>0, <1>1, <2>1, <2>2, QuietMove DEF Crash
<1>2. CASE req[r].pc = "issue"
  <2>0. PICK s \in Requests : s = req[r].on
    BY <1>2 DEF AccountsInv, Senders, Sender
  <2>1. /\ session' \in [Requests -> registered \cup {None, "ended"}]
        /\ session'[s] = "ended"
        /\ \A q \in Requests \ {s} : session'[q] = session[q]
    BY <1>2, <2>0 DEF AccountsInv, TypeOK, Crash
  <2>2. TypeOK'
    BY <2>1 DEF AccountsInv, TypeOK, Crash
  <2>3. r \in Holders(s)
    BY <1>2, <2>0 DEF Holders
  <2>4. session[s] \in Users /\ Holders(s) = {r}
    BY <2>3 DEF AccountsInv, SessionsAccounted
  <2>5. Senders'
    <3> SUFFICES ASSUME NEW q \in Requests PROVE Sender(q)'
      BY DEF Senders
    <3>1. CASE q = r
      BY <1>0, <3>1 DEF Sender
    <3>2. CASE q # r
      <4>1. Sender(q) /\ req'[q] = req[q]
        BY <1>0, <3>2 DEF AccountsInv, Senders
      <4>2. session[q] = None => session'[q] = None
        BY <2>1, <2>4, AccountAssumption
      <4> QED
        BY <4>1, <4>2 DEF Sender, Crash
    <3> QED
      BY <3>1, <3>2
  <2>6. SessionsAccounted'
    <3>1. Holders(s)' = {}
      BY <1>0, <2>4, AccountAssumption DEF Holders, Crash
    <3>2. ASSUME NEW q \in Requests \ {s} PROVE Holders(q)' = Holders(q)
      BY <1>0, <2>0 DEF Holders, Crash
    <3> QED
      BY <2>1, <3>1, <3>2, AccountAssumption DEF AccountsInv, SessionsAccounted
  <2>7. AuditAccounts'
    BY <1>0, <1>2, <2>5, AuditKept DEF AccountsInv, Senders, Sender, Crash
  <2> QED
    BY <1>0, <2>2, <2>5, <2>6, <2>7 DEF AccountsInv, Founded, Crash
<1> QED
  BY <1>1, <1>2

\* The API's other requests are quiet.
LEMMA ProvisionStep ==
    ASSUME AccountsInv, NEW r \in Requests, Provision(r)
    PROVE  AccountsInv'
<1> DEFINE Points == {"over", "projectMember", "rateLimit", "queue", "failed", "dead"}
           Quiet == /\ UNCHANGED Stored
                    /\ req[r].pc \in {"new", "projectMember", "rateLimit", "queue"}
                    /\ \E on, pc : pc \in Points /\ Goes(r, pc, on)
<1>1. Quiet
  <2>1. ASSUME NEW p \in 1..Projects, ProjectCreate(r, p) PROVE Quiet
    BY <2>1 DEF ProjectCreate, Stored, Ends
  <2>2. CASE ProjectMember(r)
    BY <2>2 DEF ProjectMember, Stored, Ends
  <2>3. CASE QueueCreate(r)
    BY <2>3 DEF QueueCreate, Stored, Ends
  <2>4. CASE ApiCrash(r)
    BY <2>4 DEF ApiCrash, Stored
  <2>5. ASSUME NEW wanted, RateLimitCreate(r, wanted) PROVE Quiet
    BY <2>5 DEF RateLimitCreate, Stored
  <2>6. ASSUME NEW q, NEW wanted, RetryPolicyCreate(r, q, wanted) PROVE Quiet
    BY <2>6 DEF RetryPolicyCreate, Stored
  <2> QED
    BY <2>1, <2>2, <2>3, <2>4, <2>5, <2>6 DEF Provision
<1>2. PICK on, pc : pc \in Points /\ Goes(r, pc, on)
  BY <1>1
<1>3. req'[r].pc = pc
  BY <1>2, GoesOn DEF AccountsInv
<1>4. Sender(r)'
  BY <1>2, <1>3 DEF Sender
<1> QED
  BY <1>1, <1>2, <1>4, QuietMove

-----------------------------------------------------------------------------
\* A run of the seed that has begun has found or created its user.
DemoRegistered ==
    /\ seed = [s \in 1..Seeds |-> seed[s]]
    /\ \A s \in 1..Seeds : seed[s].pc # "user" => DemoUser \in registered

ProvisioningInv == AccountsInv /\ DemoRegistered

\* Where no row of an account changes, the invariant stays.
LEMMA AccountsKept ==
    ASSUME AccountsInv, UNCHANGED vars
    PROVE  AccountsInv'
<1>1. UNCHANGED Stored /\ UNCHANGED req
  BY DEF vars, Stored
<1>2. TypeOK'
  BY <1>1 DEF AccountsInv, TypeOK, Stored
<1>3. Senders'
  BY <1>1, OthersKept DEF AccountsInv, Stored
<1>4. SessionsAccounted'
  BY <1>1, HoldersKept DEF AccountsInv, Stored
<1>5. AuditAccounts'
  BY <1>1, <1>3, AuditKept DEF AccountsInv, Senders, Sender, Stored
<1>6. ReqType' /\ Founded'
  BY <1>1 DEF AccountsInv, ReqType, Founded, Stored
<1> QED
  BY <1>2, <1>3, <1>4, <1>5, <1>6 DEF AccountsInv

\* The seed finds or creates its user, founds the organization if nobody did, and
\* touches no other row of an account.
LEMMA SeedStep ==
    ASSUME ProvisioningInv, NEW s \in 1..Seeds, Seed(s)
    PROVE  ProvisioningInv'
<1> USE DEF ProvisioningInv
<1>1. CASE SeedUser(s)
  <2>1. /\ registered' = registered \cup {DemoUser} /\ DemoUser \in Users
        /\ UNCHANGED <<token, founder, member, apiKey, audit, req, session>>
    BY <1>1, ProvisioningAssumption DEF SeedUser
  <2>2. TypeOK'
    BY <2>1 DEF AccountsInv, TypeOK
  <2>3. Senders'
    BY <2>1, OthersKept DEF AccountsInv
  <2>4. SessionsAccounted'
    BY <2>1, HoldersKept DEF AccountsInv
  <2>5. AuditAccounts'
    BY <2>1, <2>3, AuditKept DEF AccountsInv, Senders, Sender
  <2>6. ReqType' /\ Founded'
    BY <2>1 DEF AccountsInv, ReqType, Founded
  <2>7. DemoRegistered'
    BY <1>1, <2>1 DEF DemoRegistered, SeedUser, Then
  <2> QED
    BY <2>2, <2>3, <2>4, <2>5, <2>6, <2>7 DEF AccountsInv
<1>2. CASE SeedOrganization(s)
  <2>0. DemoUser \in registered
    BY <1>2 DEF DemoRegistered, SeedOrganization, Seeding
  <2>1. DemoRegistered'
    BY <1>2, <2>0 DEF DemoRegistered, SeedOrganization, Then
  <2>2. CASE founder = None
    <3>1. None \notin Requests /\ ReqType' /\ UNCHANGED req
      BY <1>2, AccountAssumption DEF SeedOrganization, AccountsInv, ReqType
    <3>2. /\ founder' = DemoUser /\ member' = [member EXCEPT ![DemoUser] = Admin]
          /\ UNCHANGED <<registered, token, apiKey, audit, session>>
      BY <1>2, <2>2 DEF SeedOrganization
    <3>3. /\ None \in Requests \cup {None}
          /\ None \in Requests => req[None].pc = "new" /\ req'[None].pc = "orgAudit"
                                  /\ req'[None].on = DemoUser
          /\ \A q \in Requests \ {None} : req'[q] = req[q]
      BY <3>1
    <3>4. AccountsInv'
      BY <2>0, <2>2, <3>1, <3>2, <3>3, Founding
    <3> QED
      BY <2>1, <3>4
  <2>3. CASE founder # None
    BY <1>2, <2>1, <2>3, AccountsKept DEF SeedOrganization, vars
  <2> QED
    BY <2>2, <2>3
<1>3. CASE ~SeedUser(s) /\ ~SeedOrganization(s)
  <2> DEFINE Rest == /\ UNCHANGED vars /\ seed[s].pc # "user"
                     /\ \E run : seed' = [seed EXCEPT ![s] = run]
  <2>1. Rest
    <3>1. ASSUME NEW p, UpsertProject(s, p) PROVE Rest
      BY <3>1 DEF UpsertProject, Seeding, Returned, Then
    <3>2. ASSUME NEW q, CreateQueue(s, q) PROVE Rest
      BY <3>2 DEF CreateQueue, Seeding, Returned, Then
    <3>3. ASSUME NEW q, NEW x, CreateQueuePolicy(s, q, x) PROVE Rest
      BY <3>3 DEF CreateQueuePolicy, Seeding
    <3>4. CASE SeedJobs(s)
      BY <3>4 DEF SeedJobs, Seeding, Then
    <3>5. CASE CountWorkers(s)
      BY <3>5 DEF CountWorkers, Seeding, Then
    <3>6. CASE SeedMetrics(s)
      BY <3>6 DEF SeedMetrics, Seeding
    <3>7. CASE SeedDies(s)
      BY <3>7 DEF SeedDies, Then
    <3>8. ASSUME NEW j, SeedDeadLetter(s, j) PROVE Rest
      BY <3>8 DEF SeedDeadLetter, Seeding, Then
    <3>9. ASSUME NEW w, SeedWorker(s, w) PROVE Rest
      BY <3>9 DEF SeedWorker, Seeding, Returned, Then
    <3> QED
      BY <1>3, <3>1, <3>2, <3>3, <3>4, <3>5, <3>6, <3>7, <3>8, <3>9 DEF Seed
  <2>2. DemoRegistered'
    BY <2>1 DEF DemoRegistered, vars
  <2> QED
    BY <2>1, <2>2, AccountsKept
<1> QED
  BY <1>1, <1>2, <1>3

-----------------------------------------------------------------------------
\* The invariant holds at first and is kept by every step.
LEMMA InitInv == ProvisioningInit => ProvisioningInv
<1> SUFFICES ASSUME ProvisioningInit PROVE ProvisioningInv
  OBVIOUS
<1> USE DEF ProvisioningInit, Init
<1>1. ReqType /\ \A r \in Requests : req[r] = [pc |-> "new", on |-> None]
  BY DEF ReqType, At
<1>2. TypeOK
  BY AccountAssumption DEF TypeOK, TokenRow, KeyRow
<1>3. Senders
  BY <1>1 DEF Senders, Sender
<1>4. SessionsAccounted
  <2>1. ASSUME NEW s \in Requests PROVE Holders(s) = {} /\ session[s] \notin Users
    BY <1>1, AccountAssumption DEF Holders
  <2> QED
    BY <2>1 DEF SessionsAccounted
<1>5. AuditAccounts
  BY <1>1 DEF AuditAccounts, Handed
<1>6. Founded
  BY DEF Founded
<1>7. DemoRegistered
  BY DEF DemoRegistered
<1> QED
  BY <1>1, <1>2, <1>3, <1>4, <1>5, <1>6, <1>7 DEF AccountsInv, ProvisioningInv

\* Nobody is removed.
LEMMA RegisteredGrows ==
    ASSUME Next \/ \E r \in Requests : Provision(r)
    PROVE  registered \subseteq registered'
<1>1. ASSUME NEW r \in Requests, Auth(r) PROVE registered \subseteq registered'
  BY <1>1 DEF Auth, RegisterRead, Login, RegisterCreate, RefreshDelete, IssueToken, Logout,
              RefreshRead
<1>2. ASSUME NEW r \in Requests, Invite(r) PROVE registered \subseteq registered'
  BY <1>2 DEF Invite, OrgCreate, InviteRead, OrgAudit, InviteCreate, InviteAudit
<1>3. ASSUME NEW r \in Requests, UseKeys(r) PROVE registered \subseteq registered'
  BY <1>3 DEF UseKeys, KeyCreate, RevokeRead, KeyRead, KeyAudit, RevokeDelete, KeyTouch
<1>4. ASSUME NEW r \in Requests, Provision(r) PROVE registered \subseteq registered'
  BY <1>4 DEF Provision, ProjectCreate, ProjectMember, QueueCreate, ApiCrash,
              RateLimitCreate, RetryPolicyCreate
<1> QED
  BY <1>1, <1>2, <1>3, <1>4 DEF Next, Crash, TokenExpires, KeyExpires

\* No step breaks it.
LEMMA NextInv ==
    ASSUME ProvisioningInv, [ProvisioningNext]_provisioningVars
    PROVE  ProvisioningInv'
<1>1. ASSUME UNCHANGED seed, AccountsInv', registered \subseteq registered' PROVE ProvisioningInv'
  BY <1>1 DEF ProvisioningInv, DemoRegistered
<1>2. CASE Next /\ UNCHANGED <<rows, seed>>
  <2>1. AccountsInv'
    BY <1>2, AuthStep, InviteStep, KeyStep, CrashStep, ExpiryStep DEF Next, ProvisioningInv
  <2> QED
    BY <1>1, <1>2, <2>1, RegisteredGrows
<1>3. ASSUME NEW r \in Requests, Provision(r) PROVE ProvisioningInv'
  <2>1. AccountsInv'
    BY <1>3, ProvisionStep DEF ProvisioningInv
  <2>2. UNCHANGED seed
    BY <1>3 DEF Provision, ProjectCreate, ProjectMember, QueueCreate, ApiCrash,
                RateLimitCreate, RetryPolicyCreate
  <2> QED
    BY <1>1, <1>3, <2>1, <2>2, RegisteredGrows
<1>4. CASE UNCHANGED provisioningVars
  BY <1>1, <1>4, AccountsKept DEF provisioningVars, vars, ProvisioningInv
<1> QED
  BY <1>2, <1>3, <1>4, SeedStep DEF ProvisioningNext

\* The invariant of accounts: types and foreign keys, what every request knows
\* at its point, sessions, members and the audit log.
THEOREM AccountsInvariant == ProvisioningSpec => []ProvisioningInv
  BY InitInv, NextInv, PTL DEF ProvisioningSpec

\* AuthService: with any number of requests that present, exchange and revoke
\* refresh tokens at once, any of which may die, a session always has exactly one
\* holder until it ends.
THEOREM OneHolder == ProvisioningSpec => []SessionsAccounted
<1>1. ProvisioningInv => SessionsAccounted
  BY DEF ProvisioningInv, AccountsInv
<1> QED
  BY <1>1, AccountsInvariant, PTL

\* MemberService, ApiKeyService and the organization routes: the audit log is the
\* truth about members and keys, for any number of invitations and requests that
\* race or die, and whatever the seed does beside them.
THEOREM AuditIsTrue == ProvisioningSpec => []AuditAccounts
<1>1. ProvisioningInv => AuditAccounts
  BY DEF ProvisioningInv, AccountsInv
<1> QED
  BY <1>1, AccountsInvariant, PTL

-----------------------------------------------------------------------------
(* Policies and the seed: what a row of one table says of the others *)

\* The policies that request r, or the run s for the queue q, has made and has not given
\* to a queue yet.
Held(r) == IF req[r].pc \in {"rateLimit", "queue"} THEN req[r].on[2] ELSE {}
Loose(s, q) == seed[s].pc = "queues" /\ q \in Of(seed[s].at) /\ q \notin seed[s].done
Owed(s, q) == IF Loose(s, q) THEN {seed[s].made[q]} \ {None} ELSE {}

Owners ==
    ({"queue"} \X Queues) \cup ({"request"} \X Requests) \cup ({"run"} \X ((1..Seeds) \X Queues))
Owned(o) ==
    CASE o[1] = "queue" -> Refers(o[2])
      [] o[1] = "request" -> Held(o[2])
      [] OTHER -> Owed(o[2][1], o[2][2])

\* Every policy belongs to one queue, request or run at most.
Ownership ==
    \A o \in Owners : /\ Owned(o) \subseteq policy
                      /\ \A p \in Owners \ {o} : Owned(o) \cap Owned(p) = {}

\* A policy without an owner is explained.
Explained(x) ==
    \/ \E q \in Queues : x \in Refers(q)
    \/ \E r \in Requests, q \in Queues, made \in SUBSET policy :
          /\ x \in made /\ req[r].on = <<q, made>>
          /\ \/ req[r].pc \in {"rateLimit", "queue", "dead"}
             \/ req[r].pc = "failed" /\ queue[q] # None
    \/ \E s \in 1..Seeds, q \in Queues :
          /\ seed[s].made[q] = x
          /\ (seed[s].pc \in {"queues", "dead"} \/ queue[q] # None)

SeedType ==
    /\ seed = [s \in 1..Seeds |-> [pc |-> seed[s].pc, at |-> seed[s].at,
                                   done |-> seed[s].done, made |-> seed[s].made]]
    /\ \A s \in 1..Seeds : /\ seed[s].at \in Nat \ {0}
                           /\ seed[s].made \in [Queues -> (1..Policies) \cup {None}]

RowTypes ==
    /\ SeedType
    /\ \E n \in 0..Policies : policy = 1..n
    /\ queue \in [Queues -> (SUBSET (1..Policies)) \cup {None}]
    /\ project \in [1..Projects -> {"none", "bare", "managed"}]
    /\ \A r \in Requests : req[r].pc \in {"rateLimit", "queue"} =>
          \E q \in Queues, made \in SUBSET (1..Policies) : req[r].on = <<q, made>>

\* A run makes policies for the queues of its projects in turn, and leaves none of them
\* without the queue, unless it dies.
RunMade(s) ==
    \A q \in Queues : seed[s].made[q] # None =>
        /\ \/ q[1] < seed[s].at
           \/ q[1] = seed[s].at /\ seed[s].pc \notin {"user", "organization", "projects"}
        /\ queue[q] # None \/ Loose(s, q) \/ seed[s].pc = "dead"

\* The statements for queues that have returned found or inserted theirs; none has before
\* the first.
QueuesMade(s) ==
    /\ seed[s].pc = "queues" => \A q \in Queues : q \in seed[s].done => queue[q] # None
    /\ seed[s].pc = "metrics" => seed[s].done = {}

PoliciesInv ==
    /\ RowTypes
    /\ Ownership
    /\ \A x \in policy : Explained(x)
    /\ \A s \in 1..Seeds : RunMade(s) /\ QueuesMade(s)

\* Who founded the organization administers it; a project without its member is one
\* whose request has yet to add it, or died before.
Managed ==
    /\ founder # None => member[founder] = Admin
    /\ \A p \in 1..Projects : project[p] = "bare" =>
          \E r \in Requests : Pending(r, "projectMember", <<p>>)

\* What the run s has found or created so far.
After(s, pcs) == seed[s].pc \in pcs \cup {"complete"}
Past(s, p, pcs) == p < seed[s].at \/ (p = seed[s].at /\ After(s, pcs))

Progress(s) ==
    seed[s].pc # "dead" =>
        /\ seed[s].pc \notin {"user", "organization"} => founder # None
        /\ \A p \in 1..Projects :
              \/ project[p] # "none"
              \/ seed[s].pc \in {"user", "organization"}
              \/ seed[s].pc = "projects" /\ p \notin seed[s].done
        /\ seed[s].pc \in {"user", "organization", "projects"} => seed[s].at = 1
        /\ seed[s].pc = "workers" => seed[s].done \subseteq worker
        /\ seed[s].pc = "complete" => seed[s].at = Projects
        /\ \A p \in 1..Projects :
              /\ Past(s, p, {"jobs", "deadLetter", "count", "workers", "metrics"}) =>
                    \A q \in Of(p) : queue[q] # None
              /\ Past(s, p, {"count", "workers", "metrics"}) => \E j \in listed : j[2] = p
              /\ Past(s, p, {}) => Of(p) \subseteq measured
        /\ seed[s].at > 1 \/ After(s, {"metrics"}) =>
              /\ worker # {}
              /\ 1..DemoWorkers \subseteq worker \/ \E o \in 1..Seeds : seed[o].pc = "dead"

\* One run after the other; workers are all there, unless a run is at it or died.
InTurn ==
    /\ \A s \in 1..Seeds : seed[s].pc # "user" =>
          \A e \in 1..(s - 1) : seed[e].pc \in {"complete", "dead"}
    /\ worker = {} \/ 1..DemoWorkers \subseteq worker
          \/ \E s \in 1..Seeds : seed[s].pc \in {"workers", "dead"}

ProgressInv ==
    /\ Managed
    /\ \A s \in 1..Seeds : Progress(s)
    /\ InTurn

-----------------------------------------------------------------------------
\* The run s goes on with these, and no other run does.
Becomes(s, pc, at, done, made) ==
    /\ SeedType'
    /\ seed'[s].pc = pc /\ seed'[s].at = at /\ seed'[s].done = done /\ seed'[s].made = made
    /\ \A o \in (1..Seeds) \ {s} : seed'[o] = seed[o]

LEMMA RunsTyped ==
    ASSUME SeedType, NEW s \in 1..Seeds,
           seed' = [o \in 1..Seeds |-> seed'[o]],
           seed'[s] = [pc |-> seed'[s].pc, at |-> seed'[s].at,
                       done |-> seed'[s].done, made |-> seed'[s].made],
           seed'[s].at \in Nat \ {0},
           seed'[s].made \in [Queues -> (1..Policies) \cup {None}],
           \A o \in (1..Seeds) \ {s} : seed'[o] = seed[o]
    PROVE  SeedType'
<1>1. \A o \in 1..Seeds : seed'[o] = [pc |-> seed'[o].pc, at |-> seed'[o].at,
                                     done |-> seed'[o].done, made |-> seed'[o].made]
  BY DEF SeedType
<1>2. seed' = [o \in 1..Seeds |-> [pc |-> seed'[o].pc, at |-> seed'[o].at,
                                  done |-> seed'[o].done, made |-> seed'[o].made]]
  BY <1>1
<1>3. \A o \in 1..Seeds : /\ seed'[o].at \in Nat \ {0}
                         /\ seed'[o].made \in [Queues -> (1..Policies) \cup {None}]
  BY DEF SeedType
<1> QED
  BY <1>2, <1>3 DEF SeedType, Queues

LEMMA RunGoesOn ==
    ASSUME SeedType, NEW s \in 1..Seeds, NEW pc, Then(s, pc)
    PROVE  Becomes(s, pc, seed[s].at, {}, seed[s].made)
<1>1. seed = [o \in 1..Seeds |-> seed[o]]
  BY DEF SeedType
<1>2. seed[s] = [pc |-> seed[s].pc, at |-> seed[s].at,
                 done |-> seed[s].done, made |-> seed[s].made]
  BY DEF SeedType
<1>3. /\ seed' = [o \in 1..Seeds |-> seed'[o]]
      /\ \A o \in (1..Seeds) \ {s} : seed'[o] = seed[o]
      /\ seed'[s] = [[seed[s] EXCEPT !.pc = pc] EXCEPT !.done = {}]
  BY <1>1 DEF Then
<1>4. seed'[s] = [pc |-> pc, at |-> seed[s].at, done |-> {}, made |-> seed[s].made]
  BY <1>2, <1>3
<1>5. /\ seed'[s].pc = pc /\ seed'[s].at = seed[s].at
      /\ seed'[s].done = {} /\ seed'[s].made = seed[s].made
  BY <1>4
<1>6. SeedType'
  BY <1>3, <1>4, <1>5, RunsTyped DEF SeedType
<1> QED
  BY <1>3, <1>5, <1>6 DEF Becomes

LEMMA RunReturns ==
    ASSUME SeedType, NEW s \in 1..Seeds, NEW x, NEW all, NEW pc, Returned(s, x, all, pc)
    PROVE  \/ /\ all \subseteq seed[s].done \cup {x}
              /\ Becomes(s, pc, seed[s].at, {}, seed[s].made)
           \/ /\ ~(all \subseteq seed[s].done \cup {x})
              /\ Becomes(s, seed[s].pc, seed[s].at, seed[s].done \cup {x}, seed[s].made)
<1>1. CASE all \subseteq seed[s].done \cup {x}
  BY <1>1, RunGoesOn DEF Returned
<1>2. CASE ~(all \subseteq seed[s].done \cup {x})
  <2>1. seed = [o \in 1..Seeds |-> seed[o]]
    BY DEF SeedType
  <2>2. seed[s] = [pc |-> seed[s].pc, at |-> seed[s].at,
                   done |-> seed[s].done, made |-> seed[s].made]
    BY DEF SeedType
  <2>3. /\ seed' = [o \in 1..Seeds |-> seed'[o]]
        /\ \A o \in (1..Seeds) \ {s} : seed'[o] = seed[o]
        /\ seed'[s] = [seed[s] EXCEPT !.done = seed[s].done \cup {x}]
    BY <1>2, <2>1 DEF Returned
  <2>4. seed'[s] = [pc |-> seed[s].pc, at |-> seed[s].at,
                    done |-> seed[s].done \cup {x}, made |-> seed[s].made]
    BY <2>2, <2>3
  <2>5. /\ seed'[s].pc = seed[s].pc /\ seed'[s].at = seed[s].at
        /\ seed'[s].done = seed[s].done \cup {x} /\ seed'[s].made = seed[s].made
    BY <2>4
  <2>6. SeedType'
    BY <2>3, <2>4, <2>5, RunsTyped DEF SeedType
  <2> QED
    BY <1>2, <2>3, <2>5, <2>6 DEF Becomes
<1> QED
  BY <1>1, <1>2

LEMMA RunMeasures ==
    ASSUME SeedType, NEW s \in 1..Seeds, SeedMetrics(s)
    PROVE  \/ /\ seed[s].at = Projects
              /\ Becomes(s, "complete", seed[s].at, seed[s].done, seed[s].made)
           \/ /\ seed[s].at # Projects
              /\ Becomes(s, "queues", seed[s].at + 1, seed[s].done, seed[s].made)
<1> DEFINE pc == IF seed[s].at = Projects THEN "complete" ELSE "queues"
           at == IF seed[s].at = Projects THEN seed[s].at ELSE seed[s].at + 1
<1>1. seed = [o \in 1..Seeds |-> seed[o]]
  BY DEF SeedType
<1>2. seed[s] = [pc |-> seed[s].pc, at |-> seed[s].at,
                 done |-> seed[s].done, made |-> seed[s].made]
  BY DEF SeedType
<1>3. seed' = [seed EXCEPT ![s].pc = pc, ![s].at = at]
  BY <1>1, <1>2 DEF SeedMetrics
<1>4. seed[s].at \in Nat \ {0} /\ at \in Nat \ {0}
  BY DEF SeedType
<1>5. (seed[s].at = Projects /\ pc = "complete" /\ at = seed[s].at)
         \/ (seed[s].at # Projects /\ pc = "queues" /\ at = seed[s].at + 1)
  OBVIOUS
<1> HIDE DEF pc, at
<1>6. /\ seed' = [o \in 1..Seeds |-> seed'[o]]
      /\ \A o \in (1..Seeds) \ {s} : seed'[o] = seed[o]
      /\ seed'[s] = [[seed[s] EXCEPT !.pc = pc] EXCEPT !.at = at]
  BY <1>1, <1>3
<1>7. seed'[s] = [pc |-> pc, at |-> at, done |-> seed[s].done, made |-> seed[s].made]
  BY <1>2, <1>6
<1>8. /\ seed'[s].pc = pc /\ seed'[s].at = at
      /\ seed'[s].done = seed[s].done /\ seed'[s].made = seed[s].made
  BY <1>7
<1>9. SeedType'
  BY <1>4, <1>6, <1>7, <1>8, RunsTyped DEF SeedType
<1> QED
  BY <1>5, <1>6, <1>8, <1>9 DEF Becomes

\* The next policy is a new one.
LEMMA NewPolicyFresh ==
    ASSUME RowTypes, NEW x \in NewPolicy
    PROVE  /\ x \notin policy /\ x \in 1..Policies
           /\ \E n \in 0..Policies : policy \cup {x} = 1..n
<1>1. PICK n \in 0..Policies : policy = 1..n
  BY DEF RowTypes
<1>2. n \in Int /\ 1 \in Int /\ n \in Nat /\ Policies \in Nat
  BY <1>1, ProvisioningAssumption
<1>3. Cardinality(1..n) = IF 1 > n THEN 0 ELSE n - 1 + 1
  BY <1>2, FS_Interval
<1>4. Cardinality(policy) = n
  BY <1>1, <1>2, <1>3
<1>5. x = n + 1 /\ x \in 1..Policies
  BY <1>4 DEF NewPolicy
<1>6. n + 1 \in 0..Policies /\ (1..n) \cup {n + 1} = 1..(n + 1)
  BY <1>2, <1>5
<1>7. n + 1 \notin 1..n
  BY <1>2
<1> QED
  BY <1>1, <1>5, <1>6, <1>7

LEMMA WantedFresh ==
    ASSUME RowTypes, NEW wanted \in Wanted
    PROVE  /\ wanted \cap policy = {} /\ wanted \subseteq 1..Policies
           /\ \E n \in 0..Policies : policy \cup wanted = 1..n
<1>1. CASE wanted = {}
  BY <1>1 DEF RowTypes
<1>2. ASSUME NEW x \in NewPolicy, wanted = {x}
      PROVE  /\ wanted \cap policy = {} /\ wanted \subseteq 1..Policies
             /\ \E n \in 0..Policies : policy \cup wanted = 1..n
  BY <1>2, NewPolicyFresh
<1> QED
  BY <1>1, <1>2 DEF Wanted

-----------------------------------------------------------------------------
\* Nobody else's policies are touched while one owner takes over G.
LEMMA OwnershipKept ==
    ASSUME Ownership, policy \subseteq policy', NEW a \in Owners, NEW G \in SUBSET policy',
           Owned(a)' \subseteq Owned(a) \cup G,
           \A q \in Queues : <<"queue", q>> # a => Refers(q)' \subseteq Refers(q) \ G,
           \A r \in Requests : <<"request", r>> # a => Held(r)' \subseteq Held(r) \ G,
           \A s \in 1..Seeds, q \in Queues :
              <<"run", <<s, q>>>> # a => Owed(s, q)' \subseteq Owed(s, q) \ G
    PROVE  Ownership'
<1>1. ASSUME NEW o \in Owners, o # a PROVE Owned(o)' \subseteq Owned(o) \ G
  <2>1. CASE o \in {"queue"} \X Queues
    <3>1. o[2] \in Queues /\ o = <<"queue", o[2]>> /\ o[1] = "queue"
      BY <2>1
    <3>2. Owned(o) = Refers(o[2]) /\ Owned(o)' = Refers(o[2])'
      BY <3>1 DEF Owned
    <3> QED
      BY <1>1, <3>1, <3>2
  <2>2. CASE o \in {"request"} \X Requests
    <3>1. o[2] \in Requests /\ o = <<"request", o[2]>> /\ o[1] = "request"
      BY <2>2
    <3>2. Owned(o) = Held(o[2]) /\ Owned(o)' = Held(o[2])'
      BY <3>1 DEF Owned
    <3> QED
      BY <1>1, <3>1, <3>2
  <2>3. CASE o \in {"run"} \X ((1..Seeds) \X Queues)
    <3>1. PICK s \in 1..Seeds, q \in Queues : o = <<"run", <<s, q>>>>
      BY <2>3
    <3>2. o[1] = "run" /\ o[2][1] = s /\ o[2][2] = q
      BY <3>1
    <3>3. Owned(o) = Owed(s, q) /\ Owned(o)' = Owed(s, q)'
      BY <3>2 DEF Owned
    <3> QED
      BY <1>1, <3>1, <3>3
  <2> QED
    BY <2>1, <2>2, <2>3 DEF Owners
<1>2. \A o \in Owners : Owned(o) \subseteq policy /\ \A p \in Owners \ {o} : Owned(o) \cap Owned(p) = {}
  BY DEF Ownership
<1> HIDE DEF Owners, Owned
<1>3. ASSUME NEW o \in Owners PROVE Owned(o)' \subseteq policy'
  BY <1>1, <1>2, <1>3
<1>4. ASSUME NEW o \in Owners, NEW p \in Owners \ {o} PROVE Owned(o)' \cap Owned(p)' = {}
  <2>1. CASE o # a /\ p # a
    BY <1>1, <1>2, <2>1
  <2>2. CASE o = a
    BY <1>1, <1>2, <2>2
  <2>3. CASE p = a
    BY <1>1, <1>2, <2>3
  <2> QED
    BY <2>1, <2>2, <2>3
<1>5. Owners' = Owners
  BY DEF Owners, Queues
<1> QED
  BY <1>3, <1>4, <1>5 DEF Ownership

\* What each of them owns, by name.
LEMMA OwnedBy ==
    /\ \A q \in Queues : /\ <<"queue", q>> \in Owners
                         /\ Owned(<<"queue", q>>) = Refers(q)
                         /\ Owned(<<"queue", q>>)' = Refers(q)'
    /\ \A r \in Requests : /\ <<"request", r>> \in Owners
                           /\ Owned(<<"request", r>>) = Held(r)
                           /\ Owned(<<"request", r>>)' = Held(r)'
    /\ \A s \in 1..Seeds, q \in Queues : /\ <<"run", <<s, q>>>> \in Owners
                                         /\ Owned(<<"run", <<s, q>>>>) = Owed(s, q)
                                         /\ Owned(<<"run", <<s, q>>>>)' = Owed(s, q)'
<1>1. \A q \in Queues : <<"queue", q>> \in Owners
  BY DEF Owners
<1>2. \A r \in Requests : <<"request", r>> \in Owners
  BY DEF Owners
<1>3. \A s \in 1..Seeds, q \in Queues : <<"run", <<s, q>>>> \in Owners
  BY DEF Owners
<1> QED
  BY <1>1, <1>2, <1>3 DEF Owned

\* Nobody takes over anything.
LEMMA OwnershipShrinks ==
    ASSUME Ownership, policy \subseteq policy',
           \A q \in Queues : Refers(q)' \subseteq Refers(q),
           \A r \in Requests : Held(r)' \subseteq Held(r),
           \A s \in 1..Seeds, q \in Queues : Owed(s, q)' \subseteq Owed(s, q)
    PROVE  Ownership'
<1>1. CASE Owners = {}
  BY <1>1 DEF Ownership, Owners, Queues
<1>2. ASSUME NEW a \in Owners PROVE Ownership'
  <2>1. Owned(a)' \subseteq Owned(a) \cup {}
    <3>1. CASE a \in {"queue"} \X Queues
      BY <3>1 DEF Owned
    <3>2. CASE a \in {"request"} \X Requests
      BY <3>2 DEF Owned
    <3>3. CASE a \in {"run"} \X ((1..Seeds) \X Queues)
      BY <3>3 DEF Owned
    <3> QED
      BY <3>1, <3>2, <3>3 DEF Owners
  <2>2. {} \in SUBSET policy'
    OBVIOUS
  <2>3. /\ \A q \in Queues : Refers(q)' \subseteq Refers(q) \ {}
        /\ \A r \in Requests : Held(r)' \subseteq Held(r) \ {}
    OBVIOUS
  <2>4. \A s \in 1..Seeds, q \in Queues : Owed(s, q)' \subseteq Owed(s, q) \ {}
    OBVIOUS
  <2> HIDE DEF Owners, Owned
  <2> QED
    BY <2>1, <2>2, <2>3, <2>4, OwnershipKept
<1> QED
  BY <1>1, <1>2

-----------------------------------------------------------------------------
(* Policies *)

\* Queues keep their policies, and runs of the seed those they have made.
Keeping ==
    /\ policy \subseteq policy'
    /\ \A q \in Queues : queue[q] # None => queue'[q] = queue[q]
    /\ \A s \in 1..Seeds, q \in Queues :
          seed[s].made[q] # None => seed'[s].made[q] = seed[s].made[q]

\* What a request says of a policy, it goes on to say.
Remembers(r) ==
    req[r].pc \in {"rateLimit", "queue", "dead", "failed"} =>
        \/ req'[r].on = req[r].on /\ req'[r].pc \in {req[r].pc, "dead"}
        \/ \A q \in Queues, made \in SUBSET policy : req[r].on = <<q, made>> =>
              \/ /\ req'[r].pc = "queue"
                 /\ \E more \in SUBSET policy' : made \subseteq more /\ req'[r].on = <<q, more>>
              \/ req'[r].on = req[r].on /\ req'[r].pc = "failed" /\ queue'[q] # None
              \/ queue'[q] = made

LEMMA ExplanationKept ==
    ASSUME RowTypes, RowTypes', Keeping, \A s \in 1..Seeds : RunMade(s)',
           \A r \in Requests : Remembers(r),
           NEW x \in policy, Explained(x)
    PROVE  Explained(x)'
<1>0. x # None
  BY ProvisioningAssumption DEF RowTypes
<1>1. ASSUME NEW q \in Queues, x \in Refers(q) PROVE Explained(x)'
  <2>1. x \in Refers(q)'
    BY <1>1 DEF Refers, Keeping
  <2> QED
    BY <2>1 DEF Explained, Queues
<1>2. ASSUME NEW r \in Requests, NEW q \in Queues, NEW made \in SUBSET policy, x \in made,
             req[r].on = <<q, made>>, req[r].pc \in {"rateLimit", "queue", "dead", "failed"},
             req[r].pc = "failed" => queue[q] # None
      PROVE  Explained(x)'
  <2> DEFINE Says(on) ==
               \E made2 \in SUBSET policy' : x \in made2 /\ on = <<q, made2>>
  <2>0. ASSUME Says(req'[r].on),
               \/ req'[r].pc \in {"rateLimit", "queue", "dead"}
               \/ req'[r].pc = "failed" /\ queue'[q] # None
        PROVE  Explained(x)'
    <3>1. q \in Queues'
      BY DEF Queues
    <3> QED
      BY <2>0, <3>1 DEF Explained
  <2>1. CASE req'[r].on = req[r].on /\ req'[r].pc \in {req[r].pc, "dead"}
    <3>1. Says(req'[r].on)
      BY <1>2, <2>1 DEF Keeping
    <3>2. queue[q] # None => queue'[q] # None
      BY DEF Keeping
    <3> HIDE DEF Says
    <3> QED
      BY <1>2, <2>0, <2>1, <3>1, <3>2
  <2>2. ASSUME NEW more \in SUBSET policy', made \subseteq more, req'[r].on = <<q, more>>,
               req'[r].pc = "queue"
        PROVE  Explained(x)'
    <3>1. Says(req'[r].on)
      BY <1>2, <2>2
    <3> QED
      BY <2>0, <2>2, <3>1
  <2>3. CASE req'[r].on = req[r].on /\ req'[r].pc = "failed" /\ queue'[q] # None
    <3>1. Says(req'[r].on)
      BY <1>2, <2>3 DEF Keeping
    <3> QED
      BY <2>0, <2>3, <3>1
  <2>4. CASE queue'[q] = made
    <3>1. made # None
      BY <1>2, ProvisioningAssumption DEF RowTypes
    <3>2. x \in Refers(q)'
      BY <1>2, <2>4, <3>1 DEF Refers
    <3> QED
      BY <3>2 DEF Explained, Queues
  <2> QED
    BY <1>2, <2>1, <2>2, <2>3, <2>4 DEF Remembers
<1>3. ASSUME NEW s \in 1..Seeds, NEW q \in Queues, seed[s].made[q] = x PROVE Explained(x)'
  <2>1. seed'[s].made[q] = x
    BY <1>0, <1>3 DEF Keeping
  <2>2. queue'[q] # None \/ seed'[s].pc \in {"queues", "dead"}
    BY <1>0, <2>1 DEF RunMade, Loose, Queues
  <2> QED
    BY <2>1, <2>2 DEF Explained, Queues
<1> QED
  BY <1>1, <1>2, <1>3 DEF Explained

\* Where the runs of the seed stand still, they make nothing.
LEMMA RunsStill ==
    ASSUME PoliciesInv, Keeping, UNCHANGED seed
    PROVE  /\ \A s \in 1..Seeds : RunMade(s)'
           /\ \A s \in 1..Seeds : QueuesMade(s)'
  BY DEF PoliciesInv, RunMade, QueuesMade, Keeping, Loose, Queues, Of

\* Where no policy and no queue changes, and every request holds on to its policies or
\* dies, the invariant stays.
LEMMA PoliciesUntouched ==
    ASSUME PoliciesInv, UNCHANGED <<policy, queue, seed>>,
           project' \in [1..Projects -> {"none", "bare", "managed"}],
           \A r \in Requests : req[r].pc \in {"rateLimit", "queue", "dead", "failed"} =>
              req'[r].on = req[r].on /\ req'[r].pc \in {req[r].pc, "dead"},
           \A r \in Requests : req'[r].pc \in {"rateLimit", "queue"} => req'[r] = req[r]
    PROVE  PoliciesInv'
<1>1. RowTypes'
  <2>1. SeedType'
    BY DEF PoliciesInv, RowTypes, SeedType, Queues
  <2>2. \A r \in Requests : req'[r].pc \in {"rateLimit", "queue"} =>
          \E q \in Queues, made \in SUBSET (1..Policies) : req'[r].on = <<q, made>>
    BY DEF PoliciesInv, RowTypes
  <2> QED
    BY <2>1, <2>2 DEF PoliciesInv, RowTypes, Queues
<1>2. Keeping
  BY DEF Keeping
<1>3. /\ \A s \in 1..Seeds : RunMade(s)'
      /\ \A s \in 1..Seeds : QueuesMade(s)'
  BY <1>2, RunsStill
<1>4. Ownership'
  <2>1. \A q \in Queues : Refers(q)' \subseteq Refers(q)
    BY DEF Refers
  <2>2. \A r \in Requests : Held(r)' \subseteq Held(r)
    BY DEF Held
  <2>3. \A s \in 1..Seeds, q \in Queues : Owed(s, q)' \subseteq Owed(s, q)
    BY DEF Owed, Loose, Of
  <2>4. policy \subseteq policy'
    OBVIOUS
  <2> QED
    BY <2>1, <2>2, <2>3, <2>4, OwnershipShrinks DEF PoliciesInv
<1>5. \A x \in policy' : Explained(x)'
  <2>1. \A r \in Requests : Remembers(r)
    BY DEF Remembers
  <2> QED
    BY <1>1, <1>2, <1>3, <2>1, ExplanationKept DEF PoliciesInv
<1> QED
  BY <1>1, <1>3, <1>4, <1>5 DEF PoliciesInv

\* The requests about accounts leave alone what others hold, and hold nothing.
Apart ==
    /\ \A r \in Requests :
          req[r].pc \in {"projectMember", "rateLimit", "queue", "dead", "failed"} =>
             req'[r] = req[r]
    /\ \A r \in Requests :
          req'[r].pc \in {"projectMember", "rateLimit", "queue"} => req'[r] = req[r]

LEMMA AccountsApart ==
    ASSUME ReqType, Next
    PROVE  Apart
<1> DEFINE Points == {"projectMember", "rateLimit", "queue", "dead", "failed"}
           Elsewhere(r) == /\ req[r].pc \notin Points
                           /\ \E pc, on : /\ pc \notin {"projectMember", "rateLimit", "queue"}
                                          /\ Goes(r, pc, on)
<1>1. ASSUME NEW r \in Requests, Elsewhere(r) PROVE Apart
  <2>1. PICK pc, on : pc \notin {"projectMember", "rateLimit", "queue"} /\ Goes(r, pc, on)
    BY <1>1
  <2>2. /\ req'[r].pc = pc /\ req[r].pc \notin Points
        /\ \A q \in Requests \ {r} : req'[q] = req[q]
    BY <1>1, <2>1, GoesOn
  <2> QED
    BY <2>1, <2>2 DEF Apart
<1>2. ASSUME NEW r \in Requests, Auth(r) PROVE Elsewhere(r)
  <2>1. ASSUME NEW u, RegisterRead(r, u) PROVE Elsewhere(r)
    BY <2>1 DEF RegisterRead, Ends
  <2>2. ASSUME NEW u, NEW valid, Login(r, u, valid) PROVE Elsewhere(r)
    BY <2>2 DEF Login, Ends
  <2>3. CASE RegisterCreate(r)
    BY <2>3 DEF RegisterCreate, Ends
  <2>4. CASE RefreshDelete(r)
    BY <2>4 DEF RefreshDelete, Ends
  <2>5. ASSUME NEW t, IssueToken(r, t) PROVE Elsewhere(r)
    BY <2>5 DEF IssueToken
  <2>6. ASSUME NEW t, Logout(r, t) PROVE Elsewhere(r)
    BY <2>6 DEF Logout, Ends
  <2>7. ASSUME NEW t, RefreshRead(r, t) PROVE Elsewhere(r)
    BY <2>7 DEF RefreshRead, Ends
  <2> QED
    BY <1>2, <2>1, <2>2, <2>3, <2>4, <2>5, <2>6, <2>7 DEF Auth
<1>3. ASSUME NEW r \in Requests, Invite(r) PROVE Elsewhere(r)
  <2>1. ASSUME NEW u, OrgCreate(r, u) PROVE Elsewhere(r)
    BY <2>1 DEF OrgCreate, Ends
  <2>2. ASSUME NEW u, NEW role, InviteRead(r, u, role) PROVE Elsewhere(r)
    BY <2>2 DEF InviteRead, Ends
  <2>3. CASE OrgAudit(r)
    BY <2>3 DEF OrgAudit, Ends
  <2>4. CASE InviteCreate(r)
    BY <2>4 DEF InviteCreate, Ends
  <2>5. CASE InviteAudit(r)
    BY <2>5 DEF InviteAudit, Ends
  <2> QED
    BY <1>3, <2>1, <2>2, <2>3, <2>4, <2>5 DEF Invite
<1>4. ASSUME NEW r \in Requests, UseKeys(r) PROVE Elsewhere(r)
  <2>1. ASSUME NEW k, KeyCreate(r, k) PROVE Elsewhere(r)
    BY <2>1 DEF KeyCreate
  <2>2. ASSUME NEW k, RevokeRead(r, k) PROVE Elsewhere(r)
    BY <2>2 DEF RevokeRead, Ends
  <2>3. ASSUME NEW k, KeyRead(r, k) PROVE Elsewhere(r)
    BY <2>3 DEF KeyRead, Ends
  <2>4. CASE KeyAudit(r)
    BY <2>4 DEF KeyAudit
  <2>5. CASE RevokeDelete(r)
    BY <2>5 DEF RevokeDelete, Ends
  <2>6. CASE KeyTouch(r)
    BY <2>6 DEF KeyTouch, Ends
  <2> QED
    BY <1>4, <2>1, <2>2, <2>3, <2>4, <2>5, <2>6 DEF UseKeys
<1>5. ASSUME NEW r \in Requests, Crash(r) PROVE Elsewhere(r)
  BY <1>5 DEF Crash
<1>6. CASE UNCHANGED req
  BY <1>6 DEF Apart
<1> HIDE DEF Elsewhere
<1> QED
  BY <1>1, <1>2, <1>3, <1>4, <1>5, <1>6 DEF Next, TokenExpires, KeyExpires

\* A request adds what its body asks for to what it holds.
LEMMA PoliciesAdded ==
    ASSUME PoliciesInv, ReqType, NEW r \in Requests, NEW wanted \in Wanted,
           policy' = policy \cup wanted, NEW q \in Queues, NEW pc \in {"rateLimit", "queue"},
           NEW before \in SUBSET (1..Policies),
           \/ req[r].pc = "new" /\ before = {}
           \/ req[r].pc = "rateLimit" /\ req[r].on = <<q, before>> /\ pc = "queue",
           Goes(r, pc, <<q, before \cup wanted>>), UNCHANGED <<project, queue, seed>>
    PROVE  PoliciesInv'
<1>1. /\ req'[r].pc = pc /\ req'[r].on = <<q, before \cup wanted>>
      /\ \A o \in Requests \ {r} : req'[o] = req[o]
  BY GoesOn
<1>2. /\ wanted \cap policy = {} /\ wanted \subseteq 1..Policies
      /\ \E n \in 0..Policies : policy \cup wanted = 1..n
  BY WantedFresh DEF PoliciesInv
<1>3. RowTypes'
  <2>1. SeedType'
    BY DEF PoliciesInv, RowTypes, SeedType, Queues
  <2>2. ASSUME NEW o \in Requests, req'[o].pc \in {"rateLimit", "queue"}
        PROVE  \E q2 \in Queues, made \in SUBSET (1..Policies) : req'[o].on = <<q2, made>>
    <3>1. CASE o = r
      BY <1>1, <1>2, <3>1
    <3>2. CASE o # r
      BY <1>1, <2>2, <3>2 DEF PoliciesInv, RowTypes
    <3> QED
      BY <3>1, <3>2
  <2> QED
    BY <1>2, <2>1, <2>2 DEF PoliciesInv, RowTypes, Queues
<1>4. Keeping
  BY DEF Keeping
<1>5. /\ \A s \in 1..Seeds : RunMade(s)'
      /\ \A s \in 1..Seeds : QueuesMade(s)'
  BY <1>4, RunsStill
<1>6. Held(r) = before /\ Held(r)' = before \cup wanted
  BY <1>1 DEF Held
<1>7. Ownership'
  <2>1. \A o \in Owners : Owned(o) \cap wanted = {}
    BY <1>2 DEF PoliciesInv, Ownership
  <2>2. \A o \in Queues : Refers(o)' \subseteq Refers(o) \ wanted
    BY <2>1, OwnedBy DEF Refers
  <2>3. \A o \in Requests : o # r => Held(o)' \subseteq Held(o) \ wanted
    <3>1. \A o \in Requests : o # r => Held(o)' = Held(o)
      BY <1>1 DEF Held
    <3> QED
      BY <2>1, <3>1, OwnedBy
  <2>4. ASSUME NEW s \in 1..Seeds, NEW o \in Queues
        PROVE  Owed(s, o)' \subseteq Owed(s, o) \ wanted
    <3>1. Owed(s, o)' = Owed(s, o)
      BY DEF Owed, Loose, Of
    <3>2. <<"run", <<s, o>>>> \in Owners /\ Owned(<<"run", <<s, o>>>>) = Owed(s, o)
      BY OwnedBy
    <3>3. Owed(s, o) \cap wanted = {}
      BY <2>1, <3>2
    <3> QED
      BY <3>1, <3>3
  <2>5. /\ <<"request", r>> \in Owners
        /\ Owned(<<"request", r>>)' \subseteq Owned(<<"request", r>>) \cup wanted
    BY <1>6, OwnedBy
  <2>6. wanted \in SUBSET policy' /\ policy \subseteq policy'
    OBVIOUS
  <2>7. \A o \in Requests : <<"request", o>> # <<"request", r>> => o # r
    OBVIOUS
  <2> QED
    BY <2>2, <2>3, <2>4, <2>5, <2>6, <2>7, OwnershipKept DEF PoliciesInv
<1>8. \A x \in policy' : Explained(x)'
  <2>0. <<"request", r>> \in Owners /\ Owned(<<"request", r>>) = before
    BY <1>6, OwnedBy
  <2>1. before \cup wanted \subseteq policy'
    BY <2>0 DEF PoliciesInv, Ownership
  <2>2. \A o \in Requests : Remembers(o)
    <3>1. Remembers(r)
      BY <1>1, <2>1 DEF Remembers
    <3> QED
      BY <1>1, <3>1 DEF Remembers
  <2>3. ASSUME NEW x \in policy PROVE Explained(x)'
    BY <1>3, <1>4, <1>5, <2>2, ExplanationKept DEF PoliciesInv
  <2>4. ASSUME NEW x \in wanted PROVE Explained(x)'
    BY <1>1, <2>1 DEF Explained, Queues
  <2> QED
    BY <2>3, <2>4
<1> QED
  BY <1>3, <1>5, <1>7, <1>8 DEF PoliciesInv

\* The queue takes over what the request holds, unless it is there already.
LEMMA QueueCreateStep ==
    ASSUME PoliciesInv, ReqType, NEW r \in Requests, QueueCreate(r)
    PROVE  PoliciesInv'
<1>0. PICK q \in Queues, made \in SUBSET (1..Policies) : req[r].on = <<q, made>>
  BY DEF PoliciesInv, RowTypes, QueueCreate
<1>1. CASE queue[q] # None
  <2>1. Goes(r, "failed", <<q, made>>) /\ UNCHANGED queue
    BY <1>0, <1>1 DEF QueueCreate
  <2>2. /\ req'[r].pc = "failed" /\ req'[r].on = <<q, made>>
        /\ \A o \in Requests \ {r} : req'[o] = req[o]
    BY <2>1, GoesOn
  <2>3. UNCHANGED <<project, policy, queue, seed>>
    BY <2>1 DEF QueueCreate
  <2>4. RowTypes'
    <3>1. SeedType'
      BY <2>3 DEF PoliciesInv, RowTypes, SeedType, Queues
    <3>2. \A o \in Requests : req'[o].pc \in {"rateLimit", "queue"} =>
            \E q2 \in Queues, made2 \in SUBSET (1..Policies) : req'[o].on = <<q2, made2>>
      BY <2>2 DEF PoliciesInv, RowTypes
    <3> QED
      BY <2>3, <3>1, <3>2 DEF PoliciesInv, RowTypes, Queues
  <2>5. Keeping
    BY <2>3 DEF Keeping
  <2>6. /\ \A s \in 1..Seeds : RunMade(s)'
        /\ \A s \in 1..Seeds : QueuesMade(s)'
    BY <2>3, <2>5, RunsStill
  <2>7. Ownership'
    <3>1. \A o \in Queues : Refers(o)' = Refers(o)
      BY <2>3 DEF Refers
    <3>2. \A o \in Requests : Held(o)' \subseteq Held(o)
      BY <2>2 DEF Held
    <3>3. \A s \in 1..Seeds, o \in Queues : Owed(s, o)' = Owed(s, o)
      BY <2>3 DEF Owed, Loose, Of
    <3>4. policy \subseteq policy'
      BY <2>3
    <3> QED
      BY <3>1, <3>2, <3>3, <3>4, OwnershipShrinks DEF PoliciesInv
  <2>8. \A x \in policy' : Explained(x)'
    <3>1. Remembers(r)
      BY <1>0, <1>1, <2>2, <2>3 DEF Remembers
    <3>2. \A o \in Requests : Remembers(o)
      BY <2>2, <3>1 DEF Remembers
    <3> QED
      BY <2>3, <2>4, <2>5, <2>6, <3>2, ExplanationKept DEF PoliciesInv
  <2> QED
    BY <2>4, <2>6, <2>7, <2>8 DEF PoliciesInv
<1>2. CASE queue[q] = None
  <2>1. /\ Goes(r, "over", None) /\ queue' = [queue EXCEPT ![q] = made]
        /\ UNCHANGED <<project, policy, seed>> /\ req[r].pc = "queue"
    BY <1>0, <1>2 DEF QueueCreate, Ends
  <2>2. /\ req'[r].pc = "over"
        /\ \A o \in Requests \ {r} : req'[o] = req[o]
    BY <2>1, GoesOn
  <2>3. /\ queue' \in [Queues -> (SUBSET (1..Policies)) \cup {None}]
        /\ queue'[q] = made /\ \A o \in Queues \ {q} : queue'[o] = queue[o]
    BY <2>1 DEF PoliciesInv, RowTypes
  <2>4. RowTypes'
    <3>1. SeedType'
      BY <2>1 DEF PoliciesInv, RowTypes, SeedType, Queues
    <3>2. \A o \in Requests : req'[o].pc \in {"rateLimit", "queue"} =>
            \E q2 \in Queues, made2 \in SUBSET (1..Policies) : req'[o].on = <<q2, made2>>
      BY <2>2 DEF PoliciesInv, RowTypes
    <3> QED
      BY <2>1, <2>3, <3>1, <3>2 DEF PoliciesInv, RowTypes, Queues
  <2>5. Keeping
    BY <1>2, <2>1, <2>3 DEF Keeping
  <2>6. /\ \A s \in 1..Seeds : RunMade(s)'
        /\ \A s \in 1..Seeds : QueuesMade(s)'
    BY <2>1, <2>5, RunsStill
  <2>7. Held(r) = made /\ Held(r)' = {} /\ Refers(q) = {} /\ Refers(q)' \subseteq made
    BY <1>0, <1>2, <2>1, <2>2, <2>3 DEF Held, Refers
  <2>8. Ownership'
    <3>0. /\ <<"request", r>> \in Owners /\ Owned(<<"request", r>>) = made
          /\ <<"queue", q>> \in Owners
          /\ Owned(<<"queue", q>>)' \subseteq Owned(<<"queue", q>>) \cup made
      BY <2>7, OwnedBy
    <3>1. \A o \in Owners \ {<<"request", r>>} : Owned(o) \cap made = {}
      BY <3>0 DEF PoliciesInv, Ownership
    <3>2. ASSUME NEW o \in Queues, <<"queue", o>> # <<"queue", q>>
          PROVE  Refers(o)' \subseteq Refers(o) \ made
      <4>1. o # q /\ <<"queue", o>> # <<"request", r>>
        BY <3>2
      <4>2. Refers(o)' = Refers(o)
        BY <2>3, <4>1 DEF Refers
      <4> QED
        BY <3>1, <4>1, <4>2, OwnedBy
    <3>3. ASSUME NEW o \in Requests PROVE Held(o)' \subseteq Held(o) \ made
      <4>1. CASE o = r
        BY <2>7, <4>1
      <4>2. CASE o # r
        <5>1. <<"request", o>> # <<"request", r>>
          BY <4>2
        <5>2. Held(o)' = Held(o)
          BY <2>2, <4>2 DEF Held
        <5> QED
          BY <3>1, <5>1, <5>2, OwnedBy
      <4> QED
        BY <4>1, <4>2
    <3>4. ASSUME NEW s \in 1..Seeds, NEW o \in Queues PROVE Owed(s, o)' \subseteq Owed(s, o) \ made
      <4>1. Owed(s, o)' = Owed(s, o)
        BY <2>1 DEF Owed, Loose, Of
      <4>2. <<"run", <<s, o>>>> # <<"request", r>>
        OBVIOUS
      <4> QED
        BY <3>1, <4>1, <4>2, OwnedBy
    <3>5. made \in SUBSET policy' /\ policy \subseteq policy'
      BY <2>1, <3>0 DEF PoliciesInv, Ownership
    <3> QED
      BY <3>0, <3>2, <3>3, <3>4, <3>5, OwnershipKept DEF PoliciesInv
  <2>9. \A x \in policy' : Explained(x)'
    <3>1. Remembers(r)
      BY <1>0, <2>3 DEF Remembers
    <3>2. \A o \in Requests : Remembers(o)
      BY <2>2, <3>1 DEF Remembers
    <3> QED
      BY <2>1, <2>4, <2>5, <2>6, <3>2, ExplanationKept DEF PoliciesInv
  <2> QED
    BY <2>4, <2>6, <2>8, <2>9 DEF PoliciesInv
<1> QED
  BY <1>1, <1>2

\* Requests keep the invariant.
LEMMA RequestPolicies ==
    ASSUME PoliciesInv, ReqType, NEW r \in Requests, Provision(r)
    PROVE  PoliciesInv'
<1>1. ASSUME NEW p \in 1..Projects, ProjectCreate(r, p) PROVE PoliciesInv'
  <2>1. /\ req[r].pc = "new" /\ UNCHANGED <<policy, queue, seed>>
        /\ project' \in [1..Projects -> {"none", "bare", "managed"}]
    BY <1>1 DEF ProjectCreate, PoliciesInv, RowTypes
  <2>2. PICK pc, on : pc \in {"projectMember", "over"} /\ Goes(r, pc, on)
    BY <1>1 DEF ProjectCreate, Ends
  <2>3. req'[r].pc \in {"projectMember", "over"} /\ \A o \in Requests \ {r} : req'[o] = req[o]
    BY <2>2, GoesOn
  <2> QED
    BY <2>1, <2>3, PoliciesUntouched
<1>2. CASE ProjectMember(r)
  <2>1. /\ req[r].pc = "projectMember" /\ UNCHANGED <<policy, queue, seed>>
        /\ project' \in [1..Projects -> {"none", "bare", "managed"}]
    BY <1>2 DEF ProjectMember, PoliciesInv, RowTypes
  <2>2. req'[r].pc = "over" /\ \A o \in Requests \ {r} : req'[o] = req[o]
    BY <1>2, GoesOn DEF ProjectMember, Ends
  <2> QED
    BY <2>1, <2>2, PoliciesUntouched
<1>3. CASE ApiCrash(r)
  <2>1. /\ UNCHANGED <<policy, queue, seed>>
        /\ project' \in [1..Projects -> {"none", "bare", "managed"}]
    BY <1>3 DEF ApiCrash, rows, PoliciesInv, RowTypes
  <2>2. /\ req'[r].pc = "dead" /\ req'[r].on = req[r].on
        /\ \A o \in Requests \ {r} : req'[o] = req[o]
    BY <1>3, GoesOn DEF ApiCrash
  <2> QED
    BY <2>1, <2>2, PoliciesUntouched
<1>4. ASSUME NEW wanted \in Wanted, NEW q \in Queues, RetryPolicyCreate(r, q, wanted)
      PROVE  PoliciesInv'
  <2>1. /\ req[r].pc = "new" /\ policy' = policy \cup wanted
        /\ Goes(r, "rateLimit", <<q, {} \cup wanted>>) /\ UNCHANGED <<project, queue, seed>>
    BY <1>4 DEF RetryPolicyCreate
  <2>2. {} \in SUBSET (1..Policies)
    OBVIOUS
  <2> QED
    BY <2>1, <2>2, PoliciesAdded
<1>5. ASSUME NEW wanted \in Wanted, RateLimitCreate(r, wanted) PROVE PoliciesInv'
  <2>1. PICK q \in Queues, made \in SUBSET (1..Policies) : req[r].on = <<q, made>>
    BY <1>5 DEF PoliciesInv, RowTypes, RateLimitCreate
  <2>2. /\ req[r].pc = "rateLimit" /\ policy' = policy \cup wanted
        /\ Goes(r, "queue", <<q, made \cup wanted>>) /\ UNCHANGED <<project, queue, seed>>
    BY <1>5, <2>1 DEF RateLimitCreate
  <2> QED
    BY <2>1, <2>2, PoliciesAdded
<1> QED
  BY <1>1, <1>2, <1>3, <1>4, <1>5, QueueCreateStep DEF Provision

-----------------------------------------------------------------------------
\* A run that goes on without a new policy or queue, and loses none it has made.
LEMMA RunKeeps ==
    ASSUME PoliciesInv, NEW s \in 1..Seeds, NEW pc, NEW at, NEW done,
           Becomes(s, pc, at, done, seed[s].made), UNCHANGED <<req, policy, queue>>,
           project' \in [1..Projects -> {"none", "bare", "managed"}],
           \A q \in Queues : seed[s].made[q] # None =>
              /\ q[1] < at \/ (q[1] = at /\ pc \notin {"user", "organization", "projects"})
              /\ \/ queue[q] # None
                 \/ pc = "queues" /\ q \in Of(at) /\ q \notin done
                 \/ pc = "dead",
           pc = "queues" => \A q \in Queues : q \in done => queue[q] # None,
           pc = "metrics" => done = {},
           \A q \in Queues : Owed(s, q)' \subseteq Owed(s, q)
    PROVE  PoliciesInv'
<1>0. /\ SeedType' /\ seed'[s].pc = pc /\ seed'[s].at = at /\ seed'[s].done = done
      /\ seed'[s].made = seed[s].made /\ \A o \in (1..Seeds) \ {s} : seed'[o] = seed[o]
  BY DEF Becomes
<1>1. RowTypes'
  BY <1>0 DEF PoliciesInv, RowTypes, Queues
<1>2. Keeping
  BY <1>0 DEF Keeping
<1>3. ASSUME NEW o \in 1..Seeds PROVE RunMade(o)' /\ QueuesMade(o)'
  <2>1. CASE o = s
    BY <1>0, <2>1 DEF RunMade, QueuesMade, Loose, Queues, Of
  <2>2. CASE o # s
    <3>1. RunMade(o) /\ QueuesMade(o) /\ seed'[o] = seed[o]
      BY <1>0, <2>2 DEF PoliciesInv
    <3> QED
      BY <3>1 DEF RunMade, QueuesMade, Loose, Queues, Of
  <2> QED
    BY <2>1, <2>2
<1>4. Ownership'
  <2>1. \A q \in Queues : Refers(q)' \subseteq Refers(q)
    BY DEF Refers
  <2>2. \A r \in Requests : Held(r)' \subseteq Held(r)
    BY DEF Held
  <2>3. ASSUME NEW o \in 1..Seeds, NEW q \in Queues PROVE Owed(o, q)' \subseteq Owed(o, q)
    <3>1. CASE o = s
      BY <3>1
    <3>2. CASE o # s
      BY <1>0, <3>2 DEF Owed, Loose, Of
    <3> QED
      BY <3>1, <3>2
  <2>4. policy \subseteq policy'
    OBVIOUS
  <2> QED
    BY <2>1, <2>2, <2>3, <2>4, OwnershipShrinks DEF PoliciesInv
<1>5. \A x \in policy' : Explained(x)'
  <2>1. \A r \in Requests : Remembers(r)
    BY DEF Remembers
  <2> QED
    BY <1>1, <1>2, <1>3, <2>1, ExplanationKept DEF PoliciesInv
<1> QED
  BY <1>1, <1>3, <1>4, <1>5 DEF PoliciesInv

\* A run that makes no queue at the time, or dies.
LEMMA RunMoves ==
    ASSUME PoliciesInv, NEW s \in 1..Seeds, NEW pc, NEW done,
           Becomes(s, pc, seed[s].at, done, seed[s].made), UNCHANGED <<req, policy, queue>>,
           project' \in [1..Projects -> {"none", "bare", "managed"}],
           pc # "queues", pc = "metrics" => done = {},
           seed[s].pc # "queues" \/ pc = "dead",
           seed[s].pc # "dead",
           pc \in {"user", "organization", "projects"} =>
              seed[s].pc \in {"user", "organization", "projects"}
    PROVE  PoliciesInv'
<1>1. ASSUME NEW q \in Queues, seed[s].made[q] # None
      PROVE  /\ \/ q[1] < seed[s].at
                \/ q[1] = seed[s].at /\ pc \notin {"user", "organization", "projects"}
             /\ queue[q] # None \/ pc = "dead"
  BY <1>1 DEF PoliciesInv, RunMade, Loose
<1>2. ASSUME NEW q \in Queues PROVE Owed(s, q)' \subseteq Owed(s, q)
  <2>1. seed'[s].pc # "queues"
    BY DEF Becomes
  <2> QED
    BY <2>1 DEF Owed, Loose
<1> QED
  BY <1>1, <1>2, RunKeeps

\* A run that turns to the queues of a project has made nothing for them yet.
LEMMA RunTurns ==
    ASSUME PoliciesInv, NEW s \in 1..Seeds, NEW at,
           Becomes(s, "queues", at, {}, seed[s].made), UNCHANGED <<req, policy, queue>>,
           project' \in [1..Projects -> {"none", "bare", "managed"}],
           \/ seed[s].pc = "projects" /\ at = seed[s].at
           \/ seed[s].pc = "metrics" /\ at = seed[s].at + 1
    PROVE  PoliciesInv'
<1>0. seed[s].at \in Nat /\ \A q \in Queues : q[1] \in Nat
  BY ProvisioningAssumption DEF PoliciesInv, RowTypes, SeedType, Queues
<1>1. ASSUME NEW q \in Queues, seed[s].made[q] # None
      PROVE  q[1] < at /\ queue[q] # None
  <2>1. RunMade(s)
    BY DEF PoliciesInv
  <2>2. queue[q] # None
    BY <1>1, <2>1 DEF RunMade, Loose
  <2>3. q[1] < at
    BY <1>0, <1>1, <2>1 DEF RunMade
  <2> QED
    BY <2>2, <2>3
<1>2. ASSUME NEW q \in Queues PROVE Owed(s, q)' \subseteq Owed(s, q)
  <2>1. CASE seed[s].made[q] = None
    BY <2>1 DEF Owed, Becomes
  <2>2. CASE seed[s].made[q] # None
    <3>1. q[1] < at /\ q[1] \in Nat /\ at \in Nat
      BY <1>0, <1>1, <2>2
    <3>2. q \notin Of(at)
      BY <3>1 DEF Of
    <3> QED
      BY <3>2 DEF Owed, Loose, Becomes, Of
  <2> QED
    BY <2>1, <2>2
<1>3. PICK pc, done : pc = "queues" /\ done = {}
  OBVIOUS
<1>4. /\ \A q \in Queues : seed[s].made[q] # None =>
            /\ q[1] < at \/ (q[1] = at /\ pc \notin {"user", "organization", "projects"})
            /\ \/ queue[q] # None
               \/ pc = "queues" /\ q \in Of(at) /\ q \notin done
               \/ pc = "dead"
      /\ pc = "queues" => \A q \in Queues : q \in done => queue[q] # None
      /\ pc = "metrics" => done = {}
      /\ Becomes(s, pc, at, done, seed[s].made)
  BY <1>1, <1>3
<1> QED
  BY <1>2, <1>4, RunKeeps

LEMMA QueuePolicyStep ==
    ASSUME PoliciesInv, NEW s \in 1..Seeds, NEW q \in Queues, NEW x \in NewPolicy,
           CreateQueuePolicy(s, q, x)
    PROVE  PoliciesInv'
<1>0. /\ seed[s].pc = "queues" /\ q \in Of(seed[s].at) /\ seed[s].made[q] = None
      /\ policy' = policy \cup {x} /\ UNCHANGED <<req, project, queue>>
      /\ seed' = [seed EXCEPT ![s].made[q] = x]
  BY DEF CreateQueuePolicy, Seeding, vars
<1>1. /\ x \notin policy /\ x \in 1..Policies /\ x # None
      /\ \E n \in 0..Policies : policy \cup {x} = 1..n
  BY NewPolicyFresh, ProvisioningAssumption DEF PoliciesInv
<1>2. PICK made \in [Queues -> (1..Policies) \cup {None}] : made = [seed[s].made EXCEPT ![q] = x]
  BY <1>1 DEF PoliciesInv, RowTypes, SeedType
<1>3. made[q] = x /\ \A o \in Queues \ {q} : made[o] = seed[s].made[o]
  BY <1>2 DEF PoliciesInv, RowTypes, SeedType
<1>4. /\ SeedType' /\ seed'[s].pc = "queues" /\ seed'[s].at = seed[s].at
      /\ seed'[s].done = seed[s].done /\ seed'[s].made = made
      /\ \A o \in (1..Seeds) \ {s} : seed'[o] = seed[o]
  <2>0. SeedType
    BY DEF PoliciesInv, RowTypes
  <2>1. seed = [o \in 1..Seeds |-> seed[o]]
    BY <2>0 DEF SeedType
  <2>2. seed[s] = [pc |-> seed[s].pc, at |-> seed[s].at,
                   done |-> seed[s].done, made |-> seed[s].made]
    BY <2>0 DEF SeedType
  <2>3. /\ seed' = [o \in 1..Seeds |-> seed'[o]]
        /\ \A o \in (1..Seeds) \ {s} : seed'[o] = seed[o]
        /\ seed'[s] = [seed[s] EXCEPT !.made = made]
    BY <1>0, <1>2, <2>1
  <2>4. seed'[s] = [pc |-> seed[s].pc, at |-> seed[s].at,
                    done |-> seed[s].done, made |-> made]
    BY <2>2, <2>3
  <2>5. /\ seed'[s].pc = seed[s].pc /\ seed'[s].at = seed[s].at
        /\ seed'[s].done = seed[s].done /\ seed'[s].made = made
    BY <2>4
  <2>6. SeedType'
    BY <2>0, <2>3, <2>4, <2>5, RunsTyped DEF SeedType
  <2> QED
    BY <1>0, <2>3, <2>5, <2>6
<1>5. RowTypes'
  <2>1. \E n \in 0..Policies : policy' = 1..n
    BY <1>0, <1>1
  <2>2. \A r \in Requests : req'[r].pc \in {"rateLimit", "queue"} =>
          \E p \in Queues, mine \in SUBSET (1..Policies) : req'[r].on = <<p, mine>>
    BY <1>0 DEF PoliciesInv, RowTypes
  <2>3. /\ queue' \in [Queues -> (SUBSET (1..Policies)) \cup {None}]
        /\ project' \in [1..Projects -> {"none", "bare", "managed"}]
    BY <1>0 DEF PoliciesInv, RowTypes
  <2> QED
    BY <1>4, <2>1, <2>2, <2>3 DEF RowTypes, Queues
<1>6. Keeping
  <2>1. ASSUME NEW o \in 1..Seeds, NEW p \in Queues, seed[o].made[p] # None
        PROVE  seed'[o].made[p] = seed[o].made[p]
    <3>1. CASE o = s
      BY <1>0, <1>3, <1>4, <2>1, <3>1
    <3>2. CASE o # s
      BY <1>4, <3>2
    <3> QED
      BY <3>1, <3>2
  <2> QED
    BY <1>0, <2>1 DEF Keeping
<1>7. ASSUME NEW o \in 1..Seeds PROVE RunMade(o)' /\ QueuesMade(o)'
  <2>1. CASE o = s
    <3>1. RunMade(s) /\ QueuesMade(s)
      BY DEF PoliciesInv
    <3>2. ASSUME NEW p \in Queues, made[p] # None
          PROVE  /\ p[1] < seed[s].at \/ p[1] = seed[s].at
                 /\ queue[p] # None \/ (p \in Of(seed[s].at) /\ p \notin seed[s].done)
      <4>1. CASE p # q
        BY <1>0, <1>3, <3>1, <3>2, <4>1 DEF RunMade, Loose
      <4>2. CASE p = q
        <5>1. p[1] = seed[s].at
          BY <1>0, <4>2 DEF Of
        <5>2. queue[q] # None \/ q \notin seed[s].done
          BY <1>0, <3>1 DEF QueuesMade
        <5> QED
          BY <1>0, <4>2, <5>1, <5>2
      <4> QED
        BY <4>1, <4>2
    <3> QED
      BY <1>0, <1>4, <2>1, <3>1, <3>2 DEF RunMade, QueuesMade, Loose, Queues, Of
  <2>2. CASE o # s
    <3>1. RunMade(o) /\ QueuesMade(o) /\ seed'[o] = seed[o]
      BY <1>4, <2>2 DEF PoliciesInv
    <3> QED
      BY <1>0, <3>1 DEF RunMade, QueuesMade, Loose, Queues, Of
  <2> QED
    BY <2>1, <2>2
<1>8. Ownership'
  <2>1. /\ <<"run", <<s, q>>>> \in Owners
        /\ Owned(<<"run", <<s, q>>>>)' \subseteq Owned(<<"run", <<s, q>>>>) \cup {x}
    <3>1. Owed(s, q)' \subseteq {x}
      BY <1>3, <1>4 DEF Owed
    <3> QED
      BY <3>1, OwnedBy
  <2>2. \A o \in Owners : x \notin Owned(o)
    BY <1>1 DEF PoliciesInv, Ownership
  <2>3. ASSUME NEW o \in Queues PROVE Refers(o)' \subseteq Refers(o) \ {x}
    <3>1. <<"queue", o>> \in Owners /\ Owned(<<"queue", o>>) = Refers(o)
      BY OwnedBy
    <3>2. x \notin Refers(o)
      BY <2>2, <3>1
    <3> QED
      BY <1>0, <3>2 DEF Refers
  <2>4. ASSUME NEW o \in Requests PROVE Held(o)' \subseteq Held(o) \ {x}
    <3>1. <<"request", o>> \in Owners /\ Owned(<<"request", o>>) = Held(o)
      BY OwnedBy
    <3>2. x \notin Held(o)
      BY <2>2, <3>1
    <3> QED
      BY <1>0, <3>2 DEF Held
  <2>5. ASSUME NEW o \in 1..Seeds, NEW p \in Queues, <<"run", <<o, p>>>> # <<"run", <<s, q>>>>
        PROVE  Owed(o, p)' \subseteq Owed(o, p) \ {x}
    <3>1. <<"run", <<o, p>>>> \in Owners /\ Owned(<<"run", <<o, p>>>>) = Owed(o, p)
      BY OwnedBy
    <3>2. x \notin Owed(o, p)
      BY <2>2, <3>1
    <3>3. Owed(o, p)' = Owed(o, p)
      <4>1. CASE o # s
        BY <1>4, <4>1 DEF Owed, Loose, Of
      <4>2. CASE o = s
        <5>1. p # q
          BY <2>5, <4>2
        <5>2. seed'[s].made[p] = seed[s].made[p]
          BY <1>3, <1>4, <5>1
        <5>3. Loose(s, p)' <=> Loose(s, p)
          BY <1>0, <1>4 DEF Loose, Of
        <5> QED
          BY <4>2, <5>2, <5>3 DEF Owed
      <4> QED
        BY <4>1, <4>2
    <3> QED
      BY <3>2, <3>3
  <2>6. {x} \in SUBSET policy' /\ policy \subseteq policy'
    BY <1>0
  <2> QED
    BY <2>1, <2>3, <2>4, <2>5, <2>6, OwnershipKept DEF PoliciesInv
<1>9. \A y \in policy' : Explained(y)'
  <2>1. \A r \in Requests : Remembers(r)
    BY <1>0 DEF Remembers
  <2>2. ASSUME NEW y \in policy PROVE Explained(y)'
    BY <1>5, <1>6, <1>7, <2>1, ExplanationKept DEF PoliciesInv
  <2>3. Explained(x)'
    BY <1>3, <1>4 DEF Explained, Queues
  <2> QED
    BY <1>0, <2>2, <2>3
<1> QED
  BY <1>5, <1>7, <1>8, <1>9 DEF PoliciesInv

\* The queue takes over the policy the run has made for it, unless it is there already.
LEMMA CreateQueueStep ==
    ASSUME PoliciesInv, NEW s \in 1..Seeds, NEW q \in Queues, CreateQueue(s, q)
    PROVE  PoliciesInv'
<1>0. /\ seed[s].pc = "queues" /\ q \in Of(seed[s].at) /\ seed[s].made[q] # None
      /\ q \notin seed[s].done /\ UNCHANGED <<req, project, policy>>
      /\ Returned(s, q, Of(seed[s].at), "jobs")
  BY DEF CreateQueue, Seeding, vars
<1>1. /\ seed[s].made[q] \in 1..Policies
      /\ queue \in [Queues -> (SUBSET (1..Policies)) \cup {None}]
      /\ {seed[s].made[q]} # None
  BY <1>0, ProvisioningAssumption DEF PoliciesInv, RowTypes, SeedType
<1>2. /\ queue' \in [Queues -> (SUBSET (1..Policies)) \cup {None}]
      /\ queue'[q] # None /\ \A o \in Queues \ {q} : queue'[o] = queue[o]
      /\ queue[q] # None => queue'[q] = queue[q]
      /\ queue[q] = None => queue'[q] = {seed[s].made[q]}
  BY <1>1 DEF CreateQueue
<1>3. PICK pc, done : /\ Becomes(s, pc, seed[s].at, done, seed[s].made)
                      /\ \/ pc = "jobs" /\ Of(seed[s].at) \subseteq seed[s].done \cup {q}
                         \/ pc = "queues" /\ done = seed[s].done \cup {q}
  BY <1>0, RunReturns DEF PoliciesInv, RowTypes
<1>4. /\ SeedType' /\ seed'[s].pc = pc /\ seed'[s].at = seed[s].at /\ seed'[s].done = done
      /\ seed'[s].made = seed[s].made /\ \A o \in (1..Seeds) \ {s} : seed'[o] = seed[o]
  BY <1>3 DEF Becomes
<1>5. RowTypes'
  BY <1>0, <1>2, <1>4 DEF PoliciesInv, RowTypes, Queues
<1>6. Keeping
  BY <1>0, <1>2, <1>4 DEF Keeping
<1>7. ASSUME NEW o \in 1..Seeds PROVE RunMade(o)' /\ QueuesMade(o)'
  <2>0. RunMade(o) /\ QueuesMade(o) /\ \A p \in Queues : queue[p] # None => queue'[p] # None
    BY <1>6 DEF PoliciesInv, Keeping
  <2>1. CASE o = s
    <3>1. ASSUME NEW p \in Queues, seed[s].made[p] # None
          PROVE  /\ p[1] < seed[s].at \/ p[1] = seed[s].at
                 /\ queue'[p] # None \/ (pc = "queues" /\ p \in Of(seed[s].at) /\ p \notin done)
      <4>1. CASE p = q
        BY <1>2, <2>0, <2>1, <3>1, <4>1 DEF RunMade
      <4>2. CASE p # q
        <5>1. queue[p] # None \/ (p \in Of(seed[s].at) /\ p \notin seed[s].done)
          BY <1>0, <2>0, <2>1, <3>1 DEF RunMade, Loose
        <5> QED
          BY <1>0, <1>3, <2>0, <2>1, <3>1, <4>2, <5>1 DEF RunMade
      <4> QED
        BY <4>1, <4>2
    <3>2. pc = "queues" => \A p \in Queues : p \in done => queue'[p] # None
      BY <1>0, <1>2, <1>3, <2>0, <2>1 DEF QueuesMade
    <3> QED
      BY <1>3, <1>4, <2>1, <3>1, <3>2 DEF RunMade, QueuesMade, Loose, Queues, Of
  <2>2. CASE o # s
    <3>1. seed'[o] = seed[o]
      BY <1>4, <2>2
    <3> QED
      BY <2>0, <3>1 DEF RunMade, QueuesMade, Loose, Queues, Of
  <2> QED
    BY <2>1, <2>2
<1>8. Ownership'
  <2> DEFINE mine == {seed[s].made[q]}
  <2>1. Owed(s, q) = mine /\ Owed(s, q)' = {}
    <3>1. Loose(s, q) /\ ~Loose(s, q)'
      BY <1>0, <1>3, <1>4 DEF Loose
    <3> QED
      BY <1>0, <3>1 DEF Owed
  <2>2. ASSUME NEW o \in 1..Seeds, NEW p \in Queues PROVE Owed(o, p)' \subseteq Owed(o, p)
    <3>1. CASE o # s
      BY <1>4, <3>1 DEF Owed, Loose, Of
    <3>2. CASE o = s
      <4>1. Loose(s, p)' => Loose(s, p)
        BY <1>0, <1>3, <1>4 DEF Loose, Of
      <4> QED
        BY <1>4, <3>2, <4>1 DEF Owed
    <3> QED
      BY <3>1, <3>2
  <2>3. \A o \in Requests : Held(o)' = Held(o)
    BY <1>0 DEF Held
  <2>4. CASE queue[q] # None
    <3>1. \A o \in Queues : Refers(o)' \subseteq Refers(o)
      BY <1>2, <2>4 DEF Refers
    <3>2. policy \subseteq policy'
      BY <1>0
    <3> QED
      BY <2>2, <2>3, <3>1, <3>2, OwnershipShrinks DEF PoliciesInv
  <2>5. CASE queue[q] = None
    <3>0. /\ <<"run", <<s, q>>>> \in Owners /\ Owned(<<"run", <<s, q>>>>) = mine
          /\ <<"queue", q>> \in Owners
      BY <2>1, OwnedBy
    <3>1. Owned(<<"queue", q>>)' \subseteq Owned(<<"queue", q>>) \cup mine
      <4>1. Refers(q)' \subseteq mine
        BY <1>2, <2>5 DEF Refers
      <4> QED
        BY <4>1, OwnedBy
    <3>2. \A o \in Owners \ {<<"run", <<s, q>>>>} : Owned(o) \cap mine = {}
      BY <3>0 DEF PoliciesInv, Ownership
    <3>3. ASSUME NEW o \in Queues, <<"queue", o>> # <<"queue", q>>
          PROVE  Refers(o)' \subseteq Refers(o) \ mine
      <4>1. o # q /\ <<"queue", o>> # <<"run", <<s, q>>>>
        BY <3>3
      <4>2. Refers(o)' = Refers(o)
        BY <1>2, <4>1 DEF Refers
      <4>3. <<"queue", o>> \in Owners /\ Owned(<<"queue", o>>) = Refers(o)
        BY OwnedBy
      <4> QED
        BY <3>2, <4>1, <4>2, <4>3
    <3>4. ASSUME NEW o \in Requests PROVE Held(o)' \subseteq Held(o) \ mine
      <4>1. <<"request", o>> # <<"run", <<s, q>>>>
        OBVIOUS
      <4>2. <<"request", o>> \in Owners /\ Owned(<<"request", o>>) = Held(o)
        BY OwnedBy
      <4> QED
        BY <2>3, <3>2, <4>1, <4>2
    <3>5. ASSUME NEW o \in 1..Seeds, NEW p \in Queues
          PROVE  Owed(o, p)' \subseteq Owed(o, p) \ mine
      <4>1. CASE o = s /\ p = q
        BY <2>1, <4>1
      <4>2. CASE ~(o = s /\ p = q)
        <5>1. <<"run", <<o, p>>>> # <<"run", <<s, q>>>>
          BY <4>2
        <5>2. <<"run", <<o, p>>>> \in Owners /\ Owned(<<"run", <<o, p>>>>) = Owed(o, p)
          BY OwnedBy
        <5>3. Owed(o, p) \cap mine = {}
          BY <3>2, <5>1, <5>2
        <5> QED
          BY <2>2, <5>3
      <4> QED
        BY <4>1, <4>2
    <3>6. mine \in SUBSET policy' /\ policy \subseteq policy'
      BY <1>0, <3>0 DEF PoliciesInv, Ownership
    <3> QED
      BY <3>0, <3>1, <3>3, <3>4, <3>5, <3>6, OwnershipKept DEF PoliciesInv
  <2> QED
    BY <2>4, <2>5
<1>9. \A x \in policy' : Explained(x)'
  <2>1. \A r \in Requests : Remembers(r)
    BY <1>0 DEF Remembers
  <2> QED
    BY <1>0, <1>5, <1>6, <1>7, <2>1, ExplanationKept DEF PoliciesInv
<1> QED
  BY <1>5, <1>7, <1>8, <1>9 DEF PoliciesInv

\* Runs keep the invariant.
LEMMA RunPolicies ==
    ASSUME PoliciesInv, NEW s \in 1..Seeds, Seed(s)
    PROVE  PoliciesInv'
<1> DEFINE Typed == project' \in [1..Projects -> {"none", "bare", "managed"}]
<1>0. SeedType /\ project \in [1..Projects -> {"none", "bare", "managed"}]
  BY DEF PoliciesInv, RowTypes
<1>1. CASE SeedUser(s)
  <2>1. /\ seed[s].pc = "user" /\ UNCHANGED <<req, policy, queue>> /\ Typed
        /\ Becomes(s, "organization", seed[s].at, {}, seed[s].made)
    BY <1>0, <1>1, RunGoesOn DEF SeedUser, Seeding, rows
  <2> QED
    BY <2>1, RunMoves
<1>2. CASE SeedOrganization(s)
  <2>1. /\ seed[s].pc = "organization" /\ UNCHANGED <<req, policy, queue>> /\ Typed
        /\ Becomes(s, "projects", seed[s].at, {}, seed[s].made)
    BY <1>0, <1>2, RunGoesOn DEF SeedOrganization, Seeding, rows
  <2> QED
    BY <2>1, RunMoves
<1>3. ASSUME NEW p \in 1..Projects, UpsertProject(s, p) PROVE PoliciesInv'
  <2>1. seed[s].pc = "projects" /\ UNCHANGED <<req, policy, queue>> /\ Typed
    BY <1>0, <1>3 DEF UpsertProject, Seeding, vars
  <2>2. Returned(s, p, 1..Projects, "queues")
    BY <1>3 DEF UpsertProject
  <2>3. \/ /\ 1..Projects \subseteq seed[s].done \cup {p}
           /\ Becomes(s, "queues", seed[s].at, {}, seed[s].made)
        \/ /\ ~(1..Projects \subseteq seed[s].done \cup {p})
           /\ Becomes(s, seed[s].pc, seed[s].at, seed[s].done \cup {p}, seed[s].made)
    BY <1>0, <2>2, RunReturns
  <2>4. CASE Becomes(s, "queues", seed[s].at, {}, seed[s].made)
    BY <2>1, <2>4, RunTurns
  <2>5. CASE Becomes(s, "projects", seed[s].at, seed[s].done \cup {p}, seed[s].made)
    BY <2>1, <2>5, RunMoves
  <2> QED
    BY <2>1, <2>3, <2>4, <2>5
<1>4. CASE SeedJobs(s)
  <2>1. /\ seed[s].pc = "jobs" /\ UNCHANGED <<req, policy, queue>> /\ Typed
        /\ Becomes(s, "deadLetter", seed[s].at, {}, seed[s].made)
    BY <1>0, <1>4, RunGoesOn DEF SeedJobs, Seeding, vars
  <2> QED
    BY <2>1, RunMoves
<1>5. ASSUME NEW j, SeedDeadLetter(s, j) PROVE PoliciesInv'
  <2>1. /\ seed[s].pc = "deadLetter" /\ UNCHANGED <<req, policy, queue>> /\ Typed
        /\ Becomes(s, "count", seed[s].at, {}, seed[s].made)
    BY <1>0, <1>5, RunGoesOn DEF SeedDeadLetter, Seeding, vars
  <2> QED
    BY <2>1, RunMoves
<1>6. CASE CountWorkers(s)
  <2>1. seed[s].pc = "count" /\ UNCHANGED <<req, policy, queue>> /\ Typed
    BY <1>0, <1>6 DEF CountWorkers, Seeding, vars, rows
  <2>2. \/ Becomes(s, "workers", seed[s].at, {}, seed[s].made)
        \/ Becomes(s, "metrics", seed[s].at, {}, seed[s].made)
    BY <1>0, <1>6, RunGoesOn DEF CountWorkers
  <2> QED
    BY <2>1, <2>2, RunMoves
<1>7. ASSUME NEW w, SeedWorker(s, w) PROVE PoliciesInv'
  <2>1. seed[s].pc = "workers" /\ UNCHANGED <<req, policy, queue>> /\ Typed
    BY <1>0, <1>7 DEF SeedWorker, Seeding, vars
  <2>2. Returned(s, w, 1..DemoWorkers, "metrics")
    BY <1>7 DEF SeedWorker
  <2>3. \/ /\ 1..DemoWorkers \subseteq seed[s].done \cup {w}
           /\ Becomes(s, "metrics", seed[s].at, {}, seed[s].made)
        \/ /\ ~(1..DemoWorkers \subseteq seed[s].done \cup {w})
           /\ Becomes(s, seed[s].pc, seed[s].at, seed[s].done \cup {w}, seed[s].made)
    BY <1>0, <2>2, RunReturns
  <2>4. CASE Becomes(s, "metrics", seed[s].at, {}, seed[s].made)
    BY <2>1, <2>4, RunMoves
  <2>5. CASE Becomes(s, "workers", seed[s].at, seed[s].done \cup {w}, seed[s].made)
    BY <2>1, <2>5, RunMoves
  <2> QED
    BY <2>1, <2>3, <2>4, <2>5
<1>8. CASE SeedMetrics(s)
  <2>1. seed[s].pc = "metrics" /\ UNCHANGED <<req, policy, queue>> /\ Typed
    BY <1>0, <1>8 DEF SeedMetrics, Seeding, vars
  <2>2. \/ Becomes(s, "complete", seed[s].at, seed[s].done, seed[s].made)
        \/ Becomes(s, "queues", seed[s].at + 1, seed[s].done, seed[s].made)
    BY <1>0, <1>8, RunMeasures
  <2>3. seed[s].done = {}
    BY <2>1 DEF PoliciesInv, QueuesMade
  <2>4. CASE Becomes(s, "complete", seed[s].at, {}, seed[s].made)
    BY <2>1, <2>4, RunMoves
  <2>5. CASE Becomes(s, "queues", seed[s].at + 1, {}, seed[s].made)
    BY <2>1, <2>5, RunTurns
  <2> QED
    BY <2>2, <2>3, <2>4, <2>5
<1>9. CASE SeedDies(s)
  <2>1. /\ seed[s].pc # "dead" /\ UNCHANGED <<req, policy, queue>> /\ Typed
        /\ Becomes(s, "dead", seed[s].at, {}, seed[s].made)
    BY <1>0, <1>9, RunGoesOn DEF SeedDies, vars, rows
  <2> QED
    BY <2>1, RunMoves
<1> QED
  BY <1>1, <1>2, <1>3, <1>4, <1>5, <1>6, <1>7, <1>8, <1>9, CreateQueueStep, QueuePolicyStep DEF Seed

-----------------------------------------------------------------------------
(* What a run has found or created *)

\* Nobody takes back what there is.
Growing ==
    /\ founder # None => founder' = founder
    /\ \A p \in 1..Projects : project[p] # "none" => project'[p] # "none"
    /\ \A q \in Queues : queue[q] # None => queue'[q] # None
    /\ listed \subseteq listed' /\ worker \subseteq worker' /\ measured \subseteq measured'
    /\ \A o \in 1..Seeds : seed[o].pc = "dead" => seed'[o].pc = "dead"

LEMMA ProgressKept ==
    ASSUME Growing, NEW s \in 1..Seeds, Progress(s), seed'[s] = seed[s]
    PROVE  Progress(s)'
<1> SUFFICES ASSUME seed[s].pc # "dead" PROVE Progress(s)'
  BY DEF Progress
<1>1. /\ seed[s].pc \notin {"user", "organization"} => founder' # None
      /\ \A p \in 1..Projects :
            \/ project'[p] # "none"
            \/ seed[s].pc \in {"user", "organization"}
            \/ seed[s].pc = "projects" /\ p \notin seed[s].done
      /\ seed[s].pc = "workers" => seed[s].done \subseteq worker'
  BY DEF Progress, Growing
<1>2. ASSUME NEW p \in 1..Projects
      PROVE  /\ Past(s, p, {"jobs", "deadLetter", "count", "workers", "metrics"}) =>
                    \A q \in Of(p) : queue'[q] # None
             /\ Past(s, p, {"count", "workers", "metrics"}) => \E j \in listed' : j[2] = p
             /\ Past(s, p, {}) => Of(p) \subseteq measured'
  <2>1. Of(p) \subseteq Queues
    BY DEF Of, Queues
  <2> QED
    BY <2>1 DEF Progress, Growing
<1>3. seed[s].at > 1 \/ After(s, {"metrics"}) =>
         /\ worker' # {}
         /\ 1..DemoWorkers \subseteq worker' \/ \E o \in 1..Seeds : seed'[o].pc = "dead"
  BY DEF Progress, Growing
<1> QED
  BY <1>1, <1>2, <1>3 DEF Progress, Past, After, Of

\* The requests leave the runs' progress alone.
LEMMA OthersProgress ==
    ASSUME Growing, \A s \in 1..Seeds : Progress(s), InTurn, UNCHANGED <<worker, seed>>
    PROVE  (\A s \in 1..Seeds : Progress(s)') /\ InTurn'
<1>1. \A s \in 1..Seeds : Progress(s)'
  BY ProgressKept
<1>2. InTurn'
  BY DEF InTurn
<1> QED
  BY <1>1, <1>2

\* Who founds the organization administers it, and nobody is given another role.
LEMMA FounderStays ==
    ASSUME AccountsInv, Next
    PROVE  /\ founder # None => founder' = founder
           /\ \A u \in Users : member[u] # None => member'[u] = member[u]
           /\ founder = None => founder' = None \/ member'[founder'] = Admin
<1> DEFINE Goal == /\ founder # None => founder' = founder
                   /\ \A u \in Users : member[u] # None => member'[u] = member[u]
                   /\ founder = None => founder' = None \/ member'[founder'] = Admin
<1>1. CASE UNCHANGED <<founder, member>>
  BY <1>1
<1>2. ASSUME NEW r \in Requests, NEW u \in Users, OrgCreate(r, u) PROVE Goal
  <2>1. CASE founder # None
    BY <1>1, <1>2, <2>1 DEF OrgCreate
  <2>2. CASE founder = None
    BY <1>2, <2>2 DEF OrgCreate, AccountsInv, Founded, TypeOK
  <2> QED
    BY <2>1, <2>2
<1>3. ASSUME NEW r \in Requests, InviteCreate(r) PROVE Goal
  <2>1. UNCHANGED founder
    BY <1>3 DEF InviteCreate
  <2>2. \A u \in Users : member[u] # None => member'[u] = member[u]
    BY <1>3 DEF InviteCreate, AccountsInv, TypeOK
  <2> QED
    BY <2>1, <2>2
<1>4. ASSUME NEW r \in Requests, Auth(r) PROVE UNCHANGED <<founder, member>>
  BY <1>4 DEF Auth, RegisterRead, Login, RegisterCreate, RefreshDelete, IssueToken, Logout,
              RefreshRead
<1>5. ASSUME NEW r \in Requests, UseKeys(r) PROVE UNCHANGED <<founder, member>>
  BY <1>5 DEF UseKeys, KeyCreate, RevokeRead, KeyRead, KeyAudit, RevokeDelete, KeyTouch
<1>6. ASSUME NEW r \in Requests, Invite(r) PROVE Goal
  <2>1. ASSUME NEW u, NEW role, InviteRead(r, u, role) PROVE UNCHANGED <<founder, member>>
    BY <2>1 DEF InviteRead
  <2>2. CASE OrgAudit(r) \/ InviteAudit(r)
    BY <1>1, <2>2 DEF OrgAudit, InviteAudit
  <2> QED
    BY <1>1, <1>2, <1>3, <1>6, <2>1, <2>2 DEF Invite
<1> QED
  BY <1>1, <1>4, <1>5, <1>6 DEF Next, Crash, TokenExpires, KeyExpires

LEMMA ManagedKept ==
    ASSUME AccountsInv, Managed,
           founder # None => founder' = founder,
           \A u \in Users : member[u] # None => member'[u] = member[u],
           founder = None => founder' = None \/ member'[founder'] = Admin,
           \A p \in 1..Projects : project'[p] = "bare" => project[p] = "bare",
           \A r \in Requests : req[r].pc \in {"projectMember", "dead"} =>
              req'[r].on = req[r].on /\ req'[r].pc \in {req[r].pc, "dead"}
    PROVE  Managed'
<1>1. founder' # None => member'[founder'] = Admin
  <2>1. CASE founder = None
    BY <2>1
  <2>2. CASE founder # None
    <3>1. founder \in Users /\ member[founder] = Admin /\ Admin # None
      BY <2>2, AccountAssumption DEF AccountsInv, TypeOK, Managed
    <3> QED
      BY <2>2, <3>1
  <2> QED
    BY <2>1, <2>2
<1>2. ASSUME NEW p \in 1..Projects, project'[p] = "bare"
      PROVE  \E r \in Requests : Pending(r, "projectMember", <<p>>)'
  <2>1. PICK r \in Requests : Pending(r, "projectMember", <<p>>)
    BY <1>2 DEF Managed
  <2> QED
    BY <2>1 DEF Pending
<1> QED
  BY <1>1, <1>2 DEF Managed

LEMMA AccountsProgress ==
    ASSUME AccountsInv, PoliciesInv, ProgressInv, Next, UNCHANGED <<rows, seed>>
    PROVE  PoliciesInv' /\ ProgressInv'
<1>1. Apart
  BY AccountsApart DEF AccountsInv
<1>2. PoliciesInv'
  <2>1. project' \in [1..Projects -> {"none", "bare", "managed"}]
    BY DEF PoliciesInv, RowTypes, rows
  <2> QED
    BY <1>1, <2>1, PoliciesUntouched DEF rows, Apart
<1>3. Managed'
  BY <1>1, FounderStays, ManagedKept DEF ProgressInv, Apart, rows
<1>4. Growing
  BY FounderStays DEF Growing, rows
<1> QED
  BY <1>2, <1>3, <1>4, OthersProgress DEF ProgressInv, rows

LEMMA ProvisionProgress ==
    ASSUME AccountsInv, PoliciesInv, ProgressInv, NEW r \in Requests, Provision(r)
    PROVE  ProgressInv'
<1>0. ReqType /\ project \in [1..Projects -> {"none", "bare", "managed"}]
  BY DEF AccountsInv, PoliciesInv, RowTypes
<1>1. UNCHANGED <<founder, member, listed, worker, measured, seed>>
  <2>1. ASSUME NEW p, ProjectCreate(r, p)
        PROVE  UNCHANGED <<founder, member, listed, worker, measured, seed>>
    BY <2>1 DEF ProjectCreate
  <2>2. CASE ProjectMember(r) \/ QueueCreate(r) \/ ApiCrash(r)
    BY <2>2 DEF ProjectMember, QueueCreate, ApiCrash, rows
  <2>3. ASSUME NEW wanted, RateLimitCreate(r, wanted)
        PROVE  UNCHANGED <<founder, member, listed, worker, measured, seed>>
    BY <2>3 DEF RateLimitCreate
  <2>4. ASSUME NEW wanted, NEW q, RetryPolicyCreate(r, q, wanted)
        PROVE  UNCHANGED <<founder, member, listed, worker, measured, seed>>
    BY <2>4 DEF RetryPolicyCreate
  <2> QED
    BY <2>1, <2>2, <2>3, <2>4 DEF Provision
<1> DEFINE Goal == Managed' /\ Growing
<1>2. ASSUME NEW p \in 1..Projects, ProjectCreate(r, p) PROVE Goal
  <2>0. UNCHANGED queue
    BY <1>2 DEF ProjectCreate
  <2>1. PICK pc, on : /\ Goes(r, pc, on) /\ pc \in {"projectMember", "over"}
                      /\ \/ UNCHANGED project
                         \/ /\ pc = "projectMember" /\ on = <<p>>
                            /\ project' = [project EXCEPT ![p] = "bare"]
    BY <1>2 DEF ProjectCreate, Ends
  <2>2. /\ req[r].pc = "new" /\ req'[r].pc = pc /\ req'[r].on = on
        /\ \A o \in Requests \ {r} : req'[o] = req[o]
    BY <1>0, <1>2, <2>1, GoesOn DEF ProjectCreate
  <2>3. ASSUME NEW q \in 1..Projects, project'[q] = "bare"
        PROVE  \E o \in Requests : Pending(o, "projectMember", <<q>>)'
    <3>1. CASE project[q] = "bare"
      <4>1. PICK o \in Requests : Pending(o, "projectMember", <<q>>)
        BY <3>1 DEF ProgressInv, Managed
      <4> QED
        BY <2>2, <4>1 DEF Pending
    <3>2. CASE project[q] # "bare"
      <4>1. q = p /\ pc = "projectMember" /\ on = <<p>>
        BY <1>0, <2>1, <2>3, <3>2
      <4> QED
        BY <2>2, <4>1 DEF Pending
    <3> QED
      BY <3>1, <3>2
  <2>4. Growing
    BY <1>0, <1>1, <2>0, <2>1 DEF Growing
  <2> QED
    BY <1>1, <2>3, <2>4 DEF ProgressInv, Managed
<1>3. ASSUME ProjectMember(r) PROVE Goal
  <2>1. /\ req[r].pc = "projectMember" /\ req'[r].pc = "over" /\ UNCHANGED queue
        /\ \A o \in Requests \ {r} : req'[o] = req[o]
        /\ project' = [project EXCEPT ![req[r].on[1]] = "managed"]
    BY <1>0, <1>3, GoesOn DEF ProjectMember, Ends
  <2>2. ASSUME NEW q \in 1..Projects, project'[q] = "bare"
        PROVE  \E o \in Requests : Pending(o, "projectMember", <<q>>)'
    <3>1. project[q] = "bare" /\ q # req[r].on[1]
      BY <1>0, <2>1, <2>2
    <3>2. PICK o \in Requests : Pending(o, "projectMember", <<q>>)
      BY <3>1 DEF ProgressInv, Managed
    <3>3. o # r
      BY <3>1, <3>2 DEF Pending
    <3> QED
      BY <2>1, <3>2, <3>3 DEF Pending
  <2>3. Growing
    BY <1>0, <1>1, <2>1 DEF Growing
  <2>4. Managed'
    BY <1>1, <2>2 DEF ProgressInv, Managed
  <2> QED
    BY <2>3, <2>4
<1>4. ASSUME UNCHANGED project, \A q \in Queues : queue[q] # None => queue'[q] # None,
             \A o \in Requests : req[o].pc \in {"projectMember", "dead"} =>
                req'[o].on = req[o].on /\ req'[o].pc \in {req[o].pc, "dead"}
      PROVE  Goal
  <2>1. Growing
    BY <1>1, <1>4 DEF Growing
  <2>2. /\ founder = None => founder' = None \/ member'[founder'] = Admin
        /\ founder # None => founder' = founder
        /\ \A u \in Users : member[u] # None => member'[u] = member[u]
        /\ \A p \in 1..Projects : project'[p] = "bare" => project[p] = "bare"
    BY <1>1, <1>4
  <2>3. Managed'
    BY <1>4, <2>2, ManagedKept DEF ProgressInv
  <2> QED
    BY <2>1, <2>3
<1>5. ASSUME QueueCreate(r) PROVE Goal
  <2>1. PICK pc, on : Goes(r, pc, on) /\ req[r].pc = "queue" /\ UNCHANGED project
    BY <1>5 DEF QueueCreate, Ends
  <2>2. \A o \in Requests \ {r} : req'[o] = req[o]
    BY <1>0, <2>1, GoesOn
  <2>3. \A q \in Queues : queue[q] # None => queue'[q] # None
    BY <1>5 DEF QueueCreate, PoliciesInv, RowTypes
  <2>4. \A o \in Requests : req[o].pc \in {"projectMember", "dead"} =>
            req'[o].on = req[o].on /\ req'[o].pc \in {req[o].pc, "dead"}
    BY <2>1, <2>2
  <2>5. UNCHANGED project
    BY <2>1
  <2> HIDE DEF Goal
  <2> QED
    BY <1>4, <2>3, <2>4, <2>5
<1>6. ASSUME ApiCrash(r) PROVE Goal
  <2>1. /\ req'[r].pc = "dead" /\ req'[r].on = req[r].on
        /\ \A o \in Requests \ {r} : req'[o] = req[o]
    BY <1>0, <1>6, GoesOn DEF ApiCrash
  <2>2. \A o \in Requests : req[o].pc \in {"projectMember", "dead"} =>
            req'[o].on = req[o].on /\ req'[o].pc \in {req[o].pc, "dead"}
    BY <2>1
  <2>3. UNCHANGED <<project, queue>>
    BY <1>6 DEF ApiCrash, rows
  <2> HIDE DEF Goal
  <2> QED
    BY <1>4, <2>2, <2>3
<1>7. ASSUME NEW wanted, RateLimitCreate(r, wanted) PROVE Goal
  <2>1. PICK on : /\ Goes(r, "queue", on) /\ req[r].pc = "rateLimit"
                  /\ UNCHANGED <<project, queue>>
    BY <1>7 DEF RateLimitCreate
  <2>2. \A o \in Requests \ {r} : req'[o] = req[o]
    BY <1>0, <2>1, GoesOn
  <2> QED
    BY <1>4, <2>1, <2>2
<1>8. ASSUME NEW wanted, NEW q, RetryPolicyCreate(r, q, wanted) PROVE Goal
  <2>1. PICK on : /\ Goes(r, "rateLimit", on) /\ req[r].pc = "new"
                  /\ UNCHANGED <<project, queue>>
    BY <1>8 DEF RetryPolicyCreate
  <2>2. \A o \in Requests \ {r} : req'[o] = req[o]
    BY <1>0, <2>1, GoesOn
  <2> QED
    BY <1>4, <2>1, <2>2
<1> HIDE DEF Goal
<1>9. Goal
  BY <1>2, <1>3, <1>5, <1>6, <1>7, <1>8 DEF Provision
<1>10. Managed' /\ Growing
  BY <1>9 DEF Goal
<1> QED
  BY <1>1, <1>10, OthersProgress DEF ProgressInv

\* The run s goes on, the others do not.
LEMMA RunProgress ==
    ASSUME Growing, ProgressInv, NEW s \in 1..Seeds, seed[s].pc \notin {"complete", "dead"},
           \A o \in (1..Seeds) \ {s} : seed'[o] = seed[o],
           seed[s].pc = "user" => \A e \in 1..(s - 1) : seed[e].pc \in {"complete", "dead"},
           Progress(s)', Managed',
           worker' = {} \/ 1..DemoWorkers \subseteq worker'
              \/ \E o \in 1..Seeds : seed'[o].pc \in {"workers", "dead"}
    PROVE  ProgressInv'
<1>1. ASSUME NEW o \in 1..Seeds PROVE Progress(o)'
  <2>1. CASE o = s
    BY <2>1
  <2>2. CASE o # s
    BY <2>2, ProgressKept DEF ProgressInv
  <2> QED
    BY <2>1, <2>2
<1>2. ASSUME NEW o \in 1..Seeds, seed'[o].pc # "user", NEW e \in 1..(o - 1)
      PROVE  seed'[e].pc \in {"complete", "dead"}
  <2>0. o \in Int /\ s \in Int /\ e \in Int /\ e \in 1..Seeds /\ Seeds \in Nat
    BY ProvisioningAssumption
  <2>1. CASE o = s
    <3>1. seed[e].pc \in {"complete", "dead"} /\ e # s
      BY <2>0, <2>1 DEF ProgressInv, InTurn
    <3> QED
      BY <2>0, <3>1
  <2>2. CASE o # s
    <3>1. seed[e].pc \in {"complete", "dead"}
      BY <1>2, <2>2 DEF ProgressInv, InTurn
    <3>2. e # s
      BY <3>1
    <3> QED
      BY <2>0, <3>1, <3>2
  <2> QED
    BY <2>1, <2>2
<1>3. InTurn'
  BY <1>2 DEF InTurn
<1> QED
  BY <1>1, <1>3 DEF ProgressInv

LEMMA SeedProgress ==
    ASSUME ProvisioningInv, PoliciesInv, ProgressInv, NEW s \in 1..Seeds, Seed(s)
    PROVE  ProgressInv'
<1> DEFINE Others == \A o \in (1..Seeds) \ {s} : seed'[o] = seed[o]
           Manned == worker' = {} \/ 1..DemoWorkers \subseteq worker'
                        \/ \E o \in 1..Seeds : seed'[o].pc \in {"workers", "dead"}
           Goal == /\ Growing /\ Others /\ Progress(s)' /\ Manned /\ Managed'
                   /\ seed[s].pc \notin {"complete", "dead"}
                   /\ seed[s].pc = "user" =>
                         \A e \in 1..(s - 1) : seed[e].pc \in {"complete", "dead"}
<1>0. /\ SeedType /\ project \in [1..Projects -> {"none", "bare", "managed"}]
      /\ queue \in [Queues -> (SUBSET (1..Policies)) \cup {None}]
      /\ Progress(s) /\ InTurn /\ Managed /\ AccountsInv
      /\ seed[s].at \in Nat \ {0}
  BY DEF PoliciesInv, RowTypes, ProgressInv, ProvisioningInv, SeedType
<1>1. ASSUME UNCHANGED <<founder, member, req>>,
             \A p \in 1..Projects : project'[p] = "bare" => project[p] = "bare"
      PROVE  Managed'
  BY <1>0, <1>1, ManagedKept
<1>2. ASSUME NEW pc, NEW at, NEW done, Becomes(s, pc, at, done, seed[s].made), UNCHANGED worker,
             seed[s].pc \notin {"workers", "dead"}
      PROVE  Others /\ Manned
  BY <1>0, <1>2 DEF Becomes, InTurn
<1>3. ASSUME SeedUser(s) PROVE Goal
  <2>1. /\ seed[s].pc = "user" /\ UNCHANGED <<founder, member, req, rows>>
        /\ Becomes(s, "organization", seed[s].at, {}, seed[s].made)
        /\ \A e \in 1..(s - 1) : seed[e].pc \in {"complete", "dead"}
    BY <1>0, <1>3, RunGoesOn DEF SeedUser, Seeding
  <2>2. Others /\ Manned /\ Managed'
    BY <1>1, <1>2, <2>1 DEF rows
  <2>3. Growing
    BY <2>1 DEF Growing, Becomes, rows
  <2>4. Progress(s)'
    BY <1>0, <2>1 DEF Progress, Past, After, Becomes, rows
  <2> QED
    BY <2>1, <2>2, <2>3, <2>4
<1>4. ASSUME SeedOrganization(s) PROVE Goal
  <2>1. /\ seed[s].pc = "organization" /\ UNCHANGED <<req, rows>>
        /\ Becomes(s, "projects", seed[s].at, {}, seed[s].made)
    BY <1>0, <1>4, RunGoesOn DEF SeedOrganization, Seeding
  <2>2. /\ founder # None => founder' = founder
        /\ \A u \in Users : member[u] # None => member'[u] = member[u]
        /\ founder = None => founder' = DemoUser /\ member'[DemoUser] = Admin
    BY <1>0, <1>4, ProvisioningAssumption DEF SeedOrganization, AccountsInv, Founded, TypeOK
  <2>3. Managed'
    BY <1>0, <2>1, <2>2, ManagedKept DEF rows
  <2>4. Others /\ Manned
    BY <1>2, <2>1 DEF rows
  <2>5. Growing
    BY <2>1, <2>2 DEF Growing, Becomes, rows
  <2>6. founder' # None
    BY <2>2, ProvisioningAssumption, AccountAssumption
  <2>7. Progress(s)'
    BY <1>0, <2>1, <2>6 DEF Progress, Past, After, Becomes, rows
  <2> QED
    BY <2>1, <2>3, <2>4, <2>5, <2>7
<1>5. ASSUME NEW p \in 1..Projects, UpsertProject(s, p) PROVE Goal
  <2>1. /\ seed[s].pc = "projects" /\ UNCHANGED <<founder, member, req>>
        /\ UNCHANGED <<queue, listed, worker, measured>>
        /\ Returned(s, p, 1..Projects, "queues")
    BY <1>5 DEF UpsertProject, Seeding, vars
  <2>2. /\ \A o \in 1..Projects : project[o] # "none" => project'[o] = project[o]
        /\ \A o \in 1..Projects : project'[o] = "bare" => project[o] = "bare"
        /\ project'[p] # "none"
    BY <1>0, <1>5 DEF UpsertProject
  <2>3. \/ /\ 1..Projects \subseteq seed[s].done \cup {p}
           /\ Becomes(s, "queues", seed[s].at, {}, seed[s].made)
        \/ /\ ~(1..Projects \subseteq seed[s].done \cup {p})
           /\ Becomes(s, seed[s].pc, seed[s].at, seed[s].done \cup {p}, seed[s].made)
    BY <1>0, <2>1, RunReturns
  <2>4. Others /\ Manned /\ Managed'
    BY <1>1, <1>2, <2>1, <2>2, <2>3
  <2>5. Growing
    BY <2>1, <2>2, <2>4 DEF Growing
  <2>6. seed[s].at = 1 /\ founder # None
    BY <1>0, <2>1 DEF Progress
  <2>7. \A o \in 1..Projects : project'[o] # "none" \/ o \notin seed[s].done \cup {p}
    BY <1>0, <2>1, <2>2 DEF Progress
  <2>8. Progress(s)'
    <3>1. CASE Becomes(s, "queues", seed[s].at, {}, seed[s].made)
               /\ 1..Projects \subseteq seed[s].done \cup {p}
      BY <2>1, <2>6, <2>7, <3>1 DEF Progress, Past, After, Becomes
    <3>2. CASE Becomes(s, "projects", seed[s].at, seed[s].done \cup {p}, seed[s].made)
      BY <2>1, <2>6, <2>7, <3>2 DEF Progress, Past, After, Becomes
    <3> QED
      BY <2>1, <2>3, <3>1, <3>2
  <2> QED
    BY <2>1, <2>4, <2>5, <2>8
<1>6. ASSUME NEW q \in Queues, NEW x \in NewPolicy, CreateQueuePolicy(s, q, x) PROVE Goal
  <2>1. /\ seed[s].pc = "queues" /\ UNCHANGED <<founder, member, req>>
        /\ UNCHANGED <<project, queue, listed, worker, measured>>
        /\ seed' = [seed EXCEPT ![s].made[q] = x]
    BY <1>6 DEF CreateQueuePolicy, Seeding, vars
  <2>2. /\ seed'[s].pc = seed[s].pc /\ seed'[s].at = seed[s].at /\ seed'[s].done = seed[s].done
        /\ \A o \in (1..Seeds) \ {s} : seed'[o] = seed[o]
    BY <1>0, <2>1 DEF SeedType
  <2>3. Manned /\ Managed'
    BY <1>0, <1>1, <2>1, <2>2 DEF InTurn
  <2>4. Growing
    BY <2>1, <2>2 DEF Growing
  <2>5. Progress(s)'
    BY <1>0, <2>1, <2>2 DEF Progress, Past, After, Of
  <2> QED
    BY <2>1, <2>2, <2>3, <2>4, <2>5
<1>7. ASSUME NEW q \in Queues, CreateQueue(s, q) PROVE Goal
  <2>1. /\ seed[s].pc = "queues" /\ UNCHANGED <<founder, member, req>>
        /\ UNCHANGED <<project, listed, worker, measured>>
        /\ Returned(s, q, Of(seed[s].at), "jobs")
    BY <1>7 DEF CreateQueue, Seeding, vars
  <2>2. \/ /\ Of(seed[s].at) \subseteq seed[s].done \cup {q}
           /\ Becomes(s, "jobs", seed[s].at, {}, seed[s].made)
        \/ /\ ~(Of(seed[s].at) \subseteq seed[s].done \cup {q})
           /\ Becomes(s, seed[s].pc, seed[s].at, seed[s].done \cup {q}, seed[s].made)
    BY <1>0, <2>1, RunReturns
  <2>3. /\ \A o \in Queues : queue[o] # None => queue'[o] # None
        /\ queue'[q] # None
    <3>1. seed[s].made[q] \in 1..Policies
      BY <1>0, <1>7 DEF CreateQueue, SeedType
    <3>2. {seed[s].made[q]} # None
      BY <3>1, ProvisioningAssumption
    <3> QED
      BY <1>0, <1>7, <3>2 DEF CreateQueue
  <2>4. Others /\ Manned /\ Managed'
    BY <1>1, <1>2, <2>1, <2>2
  <2>5. Growing
    BY <2>1, <2>3, <2>4 DEF Growing
  <2>6. \A o \in Queues : o \in seed[s].done \cup {q} => queue'[o] # None
    BY <2>1, <2>3 DEF PoliciesInv, QueuesMade
  <2>7. ASSUME NEW p \in 1..Projects, p < seed[s].at
        PROVE  \A o \in Of(p) : queue'[o] # None
    <3>1. \A o \in Of(p) : o \in Queues /\ queue[o] # None
      BY <1>0, <2>1, <2>7 DEF Progress, Past, Of, Queues
    <3> QED
      BY <2>3, <3>1
  <2>8. Progress(s)'
    <3>1. CASE Becomes(s, "jobs", seed[s].at, {}, seed[s].made)
               /\ Of(seed[s].at) \subseteq seed[s].done \cup {q}
      <4>1. ASSUME NEW p \in 1..Projects, p = seed[s].at
            PROVE  \A o \in Of(p) : queue'[o] # None
        BY <2>6, <3>1, <4>1 DEF Of, Queues
      <4> QED
        BY <1>0, <2>1, <2>7, <3>1, <4>1 DEF Progress, Past, After, Becomes, Of
    <3>2. CASE Becomes(s, "queues", seed[s].at, seed[s].done \cup {q}, seed[s].made)
      BY <1>0, <2>1, <2>7, <3>2 DEF Progress, Past, After, Becomes, Of
    <3> QED
      BY <2>1, <2>2, <3>1, <3>2
  <2> QED
    BY <2>1, <2>4, <2>5, <2>8
<1>8. ASSUME SeedJobs(s) PROVE Goal
  <2>1. /\ seed[s].pc = "jobs" /\ UNCHANGED <<founder, member, req>>
        /\ UNCHANGED <<project, queue, listed, worker, measured>>
        /\ Becomes(s, "deadLetter", seed[s].at, {}, seed[s].made)
    BY <1>0, <1>8, RunGoesOn DEF SeedJobs, Seeding, vars
  <2>2. Others /\ Manned /\ Managed'
    BY <1>1, <1>2, <2>1
  <2>3. Growing
    BY <2>1, <2>2 DEF Growing
  <2>4. Progress(s)'
    BY <1>0, <2>1 DEF Progress, Past, After, Becomes, Of
  <2> QED
    BY <2>1, <2>2, <2>3, <2>4
<1>9. ASSUME NEW j \in failed, SeedDeadLetter(s, j) PROVE Goal
  <2>1. /\ seed[s].pc = "deadLetter" /\ UNCHANGED <<founder, member, req>>
        /\ UNCHANGED <<project, queue, worker, measured>>
        /\ Becomes(s, "count", seed[s].at, {}, seed[s].made)
        /\ listed \subseteq listed' /\ j \in listed' /\ j[2] = seed[s].at
    BY <1>0, <1>9, RunGoesOn DEF SeedDeadLetter, Seeding, vars
  <2>2. Others /\ Manned /\ Managed'
    BY <1>1, <1>2, <2>1
  <2>3. Growing
    BY <2>1, <2>2 DEF Growing
  <2>4. ASSUME NEW p \in 1..Projects, p < seed[s].at \/ p = seed[s].at
        PROVE  \E o \in listed' : o[2] = p
    BY <1>0, <2>1, <2>4 DEF Progress, Past
  <2>5. Progress(s)'
    BY <1>0, <2>1, <2>4 DEF Progress, Past, After, Becomes, Of
  <2> QED
    BY <2>1, <2>2, <2>3, <2>5
<1>10. ASSUME CountWorkers(s) PROVE Goal
  <2>1. /\ seed[s].pc = "count" /\ UNCHANGED <<founder, member, req>>
        /\ UNCHANGED <<project, queue, listed, worker, measured>>
        /\ \/ worker = {} /\ Becomes(s, "workers", seed[s].at, {}, seed[s].made)
           \/ worker # {} /\ Becomes(s, "metrics", seed[s].at, {}, seed[s].made)
    BY <1>0, <1>10, RunGoesOn DEF CountWorkers, Seeding, vars, rows
  <2>2. Others /\ Manned /\ Managed'
    BY <1>1, <1>2, <2>1
  <2>3. Growing
    BY <2>1, <2>2 DEF Growing
  <2>4. \A o \in 1..Seeds : seed[o].pc # "workers"
    <3>1. ASSUME NEW o \in 1..Seeds, seed[o].pc = "workers" PROVE FALSE
      <4>1. o # s /\ o \in Int /\ s \in Int /\ Seeds \in Nat
        BY <2>1, <3>1, ProvisioningAssumption
      <4>2. CASE o < s
        BY <1>0, <2>1, <3>1, <4>1, <4>2 DEF InTurn
      <4>3. CASE s < o
        BY <1>0, <2>1, <3>1, <4>1, <4>3 DEF InTurn
      <4> QED
        BY <4>1, <4>2, <4>3
    <3> QED
      BY <3>1
  <2>5. worker # {} =>
           1..DemoWorkers \subseteq worker \/ \E o \in 1..Seeds : seed[o].pc = "dead"
    BY <1>0, <2>4 DEF InTurn
  <2>6. worker # {} =>
           1..DemoWorkers \subseteq worker' \/ \E o \in 1..Seeds : seed'[o].pc = "dead"
    BY <2>1, <2>3, <2>5 DEF Growing
  <2>7. Progress(s)'
    <3>1. CASE worker = {} /\ Becomes(s, "workers", seed[s].at, {}, seed[s].made)
      BY <1>0, <2>1, <3>1 DEF Progress, Past, After, Becomes, Of
    <3>2. CASE worker # {} /\ Becomes(s, "metrics", seed[s].at, {}, seed[s].made)
      BY <1>0, <2>1, <2>6, <3>2 DEF Progress, Past, After, Becomes, Of
    <3> QED
      BY <2>1, <3>1, <3>2
  <2> QED
    BY <2>1, <2>2, <2>3, <2>7
<1>11. ASSUME NEW w \in 1..DemoWorkers, SeedWorker(s, w) PROVE Goal
  <2>1. /\ seed[s].pc = "workers" /\ UNCHANGED <<founder, member, req>>
        /\ UNCHANGED <<project, queue, listed, measured>>
        /\ worker' = worker \cup {w} /\ Returned(s, w, 1..DemoWorkers, "metrics")
    BY <1>11 DEF SeedWorker, Seeding, vars
  <2>2. \/ /\ 1..DemoWorkers \subseteq seed[s].done \cup {w}
           /\ Becomes(s, "metrics", seed[s].at, {}, seed[s].made)
        \/ /\ ~(1..DemoWorkers \subseteq seed[s].done \cup {w})
           /\ Becomes(s, seed[s].pc, seed[s].at, seed[s].done \cup {w}, seed[s].made)
    BY <1>0, <2>1, RunReturns
  <2>3. seed[s].done \cup {w} \subseteq worker'
    BY <1>0, <2>1 DEF Progress
  <2>4. Others /\ Managed'
    BY <1>1, <2>1, <2>2 DEF Becomes
  <2>5. Growing
    BY <2>1, <2>4 DEF Growing
  <2>6. Manned
    BY <2>1, <2>2, <2>3 DEF Becomes
  <2>7. Progress(s)'
    <3>1. CASE Becomes(s, "metrics", seed[s].at, {}, seed[s].made)
               /\ 1..DemoWorkers \subseteq seed[s].done \cup {w}
      <4>1. worker' # {} /\ 1..DemoWorkers \subseteq worker'
        BY <2>3, <3>1
      <4> QED
        BY <1>0, <2>1, <3>1, <4>1 DEF Progress, Past, After, Becomes, Of
    <3>2. CASE Becomes(s, "workers", seed[s].at, seed[s].done \cup {w}, seed[s].made)
      <4>1. seed[s].at > 1 =>
               /\ worker' # {}
               /\ 1..DemoWorkers \subseteq worker' \/ \E o \in 1..Seeds : seed'[o].pc = "dead"
        BY <1>0, <2>1, <2>5 DEF Progress, Growing
      <4> QED
        BY <1>0, <2>1, <2>3, <3>2, <4>1 DEF Progress, Past, After, Becomes, Of
    <3> QED
      BY <2>1, <2>2, <3>1, <3>2
  <2> QED
    BY <2>1, <2>4, <2>5, <2>6, <2>7
<1>12. ASSUME SeedMetrics(s) PROVE Goal
  <2>1. /\ seed[s].pc = "metrics" /\ UNCHANGED <<founder, member, req>>
        /\ UNCHANGED <<project, queue, listed, worker>>
        /\ measured' = measured \cup Of(seed[s].at)
    BY <1>12 DEF SeedMetrics, Seeding, vars
  <2>2. \/ /\ seed[s].at = Projects
           /\ Becomes(s, "complete", seed[s].at, seed[s].done, seed[s].made)
        \/ /\ seed[s].at # Projects
           /\ Becomes(s, "queues", seed[s].at + 1, seed[s].done, seed[s].made)
    BY <1>0, <1>12, RunMeasures
  <2>3. Others /\ Manned /\ Managed'
    BY <1>1, <1>2, <2>1, <2>2
  <2>4. Growing
    BY <2>1, <2>3 DEF Growing
  <2>5. ASSUME NEW p \in 1..Projects, p < seed[s].at \/ p = seed[s].at
        PROVE  /\ \A q \in Of(p) : queue'[q] # None
               /\ \E j \in listed' : j[2] = p
               /\ Of(p) \subseteq measured'
    BY <1>0, <2>1, <2>5 DEF Progress, Past, After
  <2>6. /\ worker' # {}
        /\ 1..DemoWorkers \subseteq worker' \/ \E o \in 1..Seeds : seed'[o].pc = "dead"
    BY <1>0, <2>1, <2>4 DEF Progress, After, Growing
  <2>7. founder' # None /\ \A p \in 1..Projects : project'[p] # "none"
    BY <1>0, <2>1 DEF Progress
  <2>8. Progress(s)'
    <3>1. CASE /\ seed[s].at = Projects
               /\ Becomes(s, "complete", seed[s].at, seed[s].done, seed[s].made)
      BY <1>0, <2>5, <2>6, <2>7, <3>1 DEF Progress, Past, After, Becomes, Of
    <3>2. CASE Becomes(s, "queues", seed[s].at + 1, seed[s].done, seed[s].made)
      <4>1. \A p \in 1..Projects : p < seed[s].at + 1 => p < seed[s].at \/ p = seed[s].at
        BY <1>0
      <4> QED
        BY <1>0, <2>5, <2>6, <2>7, <3>2, <4>1 DEF Progress, Past, After, Becomes, Of
    <3> QED
      BY <2>2, <3>1, <3>2
  <2> QED
    BY <2>1, <2>3, <2>4, <2>8
<1>13. ASSUME SeedDies(s) PROVE Goal
  <2>1. /\ seed[s].pc \notin {"user", "complete", "dead"} /\ UNCHANGED <<founder, member, req>>
        /\ UNCHANGED <<project, queue, listed, worker, measured>>
        /\ Becomes(s, "dead", seed[s].at, {}, seed[s].made)
    BY <1>0, <1>13, RunGoesOn DEF SeedDies, vars, rows
  <2>2. Others /\ Manned /\ Managed' /\ Progress(s)'
    BY <1>1, <2>1 DEF Becomes, Progress
  <2>3. Growing
    BY <2>1, <2>2 DEF Growing, Becomes
  <2> QED
    BY <2>1, <2>2, <2>3
<1> HIDE DEF Goal
<1>14. Goal
  BY <1>3, <1>4, <1>5, <1>6, <1>7, <1>8, <1>9, <1>10, <1>11, <1>12, <1>13 DEF Seed
<1>15. /\ Growing /\ Others /\ Progress(s)' /\ Manned /\ Managed'
       /\ seed[s].pc \notin {"complete", "dead"}
       /\ seed[s].pc = "user" => \A e \in 1..(s - 1) : seed[e].pc \in {"complete", "dead"}
  BY <1>14 DEF Goal
<1> QED
  BY <1>15, RunProgress

-----------------------------------------------------------------------------
\* At first there is nothing.
LEMMA RowsInit == ProvisioningInit => PoliciesInv /\ ProgressInv
<1> SUFFICES ASSUME ProvisioningInit PROVE PoliciesInv /\ ProgressInv
  OBVIOUS
<1>0. /\ \A s \in 1..Seeds : /\ seed[s].pc = "user" /\ seed[s].at = 1 /\ seed[s].done = {}
                             /\ seed[s].made = [q \in Queues |-> None]
      /\ policy = {} /\ queue = [q \in Queues |-> None] /\ founder = None /\ worker = {}
      /\ project = [p \in 1..Projects |-> "none"]
      /\ \A r \in Requests : req[r].pc = "new"
  BY DEF ProvisioningInit, Init, At
<1>1. RowTypes
  <2>1. \E n \in 0..Policies : policy = 1..n
    <3>1. 0 \in 0..Policies /\ 1..0 = {}
      BY ProvisioningAssumption
    <3> QED
      BY <1>0, <3>1
  <2>2. SeedType
    <3>1. seed = [s \in 1..Seeds |-> [pc |-> "user", at |-> 1, done |-> {},
                                      made |-> [q \in Queues |-> None]]]
      BY DEF ProvisioningInit
    <3> QED
      BY <1>0, <3>1 DEF SeedType
  <2> QED
    BY <1>0, <2>1, <2>2 DEF RowTypes
<1>2. Ownership
  <2>1. /\ \A q \in Queues : Refers(q) = {}
        /\ \A r \in Requests : Held(r) = {}
        /\ \A s \in 1..Seeds, q \in Queues : Owed(s, q) = {}
    BY <1>0 DEF Refers, Held, Owed, Loose
  <2>2. ASSUME NEW o \in Owners PROVE Owned(o) = {}
    <3>1. CASE o \in {"queue"} \X Queues
      BY <2>1, <3>1 DEF Owned
    <3>2. CASE o \in {"request"} \X Requests
      BY <2>1, <3>2 DEF Owned
    <3>3. CASE o \in {"run"} \X ((1..Seeds) \X Queues)
      BY <2>1, <3>3 DEF Owned
    <3> QED
      BY <3>1, <3>2, <3>3 DEF Owners
  <2> QED
    BY <2>2 DEF Ownership
<1>3. PoliciesInv
  BY <1>0, <1>1, <1>2 DEF PoliciesInv, RunMade, QueuesMade
<1>4. \A s \in 1..Seeds : Progress(s)
  BY <1>0 DEF Progress, Past, After
<1>5. ProgressInv
  BY <1>0, <1>4 DEF ProgressInv, Managed, InTurn
<1> QED
  BY <1>3, <1>5

RowsInv == ProvisioningInv /\ PoliciesInv /\ ProgressInv

LEMMA RowsNext ==
    ASSUME RowsInv, [ProvisioningNext]_provisioningVars
    PROVE  RowsInv'
<1>1. ProvisioningInv'
  BY NextInv DEF RowsInv
<1>2. CASE Next /\ UNCHANGED <<rows, seed>>
  BY <1>1, <1>2, AccountsProgress DEF RowsInv, ProvisioningInv
<1>3. ASSUME NEW r \in Requests, Provision(r) PROVE RowsInv'
  BY <1>1, <1>3, RequestPolicies, ProvisionProgress DEF RowsInv, ProvisioningInv, AccountsInv
<1>4. ASSUME NEW s \in 1..Seeds, Seed(s) PROVE RowsInv'
  BY <1>1, <1>4, RunPolicies, SeedProgress DEF RowsInv
<1>5. CASE UNCHANGED provisioningVars
  <2>0. UNCHANGED <<founder, member, req, project, policy, queue, listed, worker, measured, seed>>
    BY <1>5 DEF provisioningVars, vars, rows
  <2>1. PoliciesInv'
    <3>1. project' \in [1..Projects -> {"none", "bare", "managed"}]
      BY <2>0 DEF RowsInv, PoliciesInv, RowTypes
    <3> QED
      BY <2>0, <3>1, PoliciesUntouched DEF RowsInv
  <2>2. Managed'
    BY <2>0, ManagedKept DEF RowsInv, ProvisioningInv, ProgressInv
  <2>3. Growing
    BY <2>0 DEF Growing
  <2>4. ProgressInv'
    BY <2>0, <2>2, <2>3, OthersProgress DEF RowsInv, ProgressInv
  <2> QED
    BY <1>1, <2>1, <2>4 DEF RowsInv
<1> QED
  BY <1>2, <1>3, <1>4, <1>5 DEF ProvisioningNext

\* The invariant of projects, queues, policies and the runs of the seed.
THEOREM RowsInvariant == ProvisioningSpec => []RowsInv
<1>1. ProvisioningInit => RowsInv
  BY InitInv, RowsInit DEF RowsInv
<1> QED
  BY <1>1, RowsNext, PTL DEF ProvisioningSpec

\* POST queues and the seed script: for any number of requests and runs, any of which may
\* die between two statements, no policy is shared by two queues, none is lost, and one that
\* no queue refers to is explained by who made it.
THEOREM PoliciesKept == ProvisioningSpec => []PoliciesAccounted
<1>1. RowsInv => PoliciesAccounted
  <2> SUFFICES ASSUME RowsInv PROVE PoliciesAccounted
    OBVIOUS
  <2>1. ASSUME NEW q \in Queues PROVE Refers(q) \subseteq policy
    <3>1. <<"queue", q>> \in Owners /\ Owned(<<"queue", q>>) = Refers(q)
      BY OwnedBy
    <3> QED
      BY <3>1 DEF RowsInv, PoliciesInv, Ownership
  <2>2. ASSUME NEW q1 \in Queues, NEW q2 \in Queues, q1 # q2
        PROVE  Refers(q1) \cap Refers(q2) = {}
    <3>1. /\ <<"queue", q1>> \in Owners /\ Owned(<<"queue", q1>>) = Refers(q1)
          /\ <<"queue", q2>> \in Owners /\ Owned(<<"queue", q2>>) = Refers(q2)
          /\ <<"queue", q1>> # <<"queue", q2>>
      BY <2>2, OwnedBy
    <3> QED
      BY <3>1 DEF RowsInv, PoliciesInv, Ownership
  <2>3. \A x \in policy : Explained(x)
    BY DEF RowsInv, PoliciesInv
  <2> QED
    BY <2>1, <2>2, <2>3 DEF PoliciesAccounted, Explained
<1> QED
  BY <1>1, RowsInvariant, PTL

\* The seed script: with any number of projects, queues and runs, of which any may have died
\* at any point, and any requests beside them, SEED_COMPLETE is true.
THEOREM SeedIsComplete == ProvisioningSpec => []SeedComplete
<1>1. RowsInv => SeedComplete
  <2> SUFFICES ASSUME RowsInv, NEW s \in 1..Seeds, seed[s].pc = "complete"
               PROVE  /\ DemoUser \in registered /\ founder # None
                      /\ founder = DemoUser => member[DemoUser] = Admin
                      /\ \A p \in 1..Projects :
                            /\ \/ project[p] = "managed"
                               \/ \E r \in Requests : Pending(r, "projectMember", <<p>>)
                            /\ \A q \in Of(p) : queue[q] # None /\ q \in measured
                            /\ \E j \in listed : j[2] = p
                      /\ \/ 1..DemoWorkers \subseteq worker
                         \/ \E other \in 1..Seeds : seed[other].pc = "dead" /\ worker # {}
    BY DEF SeedComplete
  <2>0. Progress(s) /\ Managed
    BY DEF RowsInv, ProgressInv
  <2>1. DemoUser \in registered
    BY DEF RowsInv, ProvisioningInv, DemoRegistered
  <2>2. founder # None /\ (founder = DemoUser => member[DemoUser] = Admin)
    BY <2>0 DEF Progress, Managed
  <2>3. ASSUME NEW p \in 1..Projects
        PROVE  /\ project[p] = "managed" \/ \E r \in Requests : Pending(r, "projectMember", <<p>>)
               /\ \A q \in Of(p) : queue[q] # None /\ q \in measured
               /\ \E j \in listed : j[2] = p
    <3>1. project[p] \in {"bare", "managed"}
      BY <2>0 DEF Progress, RowsInv, PoliciesInv, RowTypes
    <3>2. p < seed[s].at \/ p = seed[s].at
      BY <2>0, ProvisioningAssumption DEF Progress
    <3>3. /\ \A q \in Of(p) : queue[q] # None
          /\ \E j \in listed : j[2] = p
          /\ Of(p) \subseteq measured
      BY <2>0, <3>2 DEF Progress, Past, After
    <3> QED
      BY <2>0, <3>1, <3>3 DEF Managed
  <2>4. \/ 1..DemoWorkers \subseteq worker
        \/ \E other \in 1..Seeds : seed[other].pc = "dead" /\ worker # {}
    BY <2>0 DEF Progress, After
  <2> QED
    BY <2>1, <2>2, <2>3, <2>4
<1> QED
  BY <1>1, RowsInvariant, PTL
=============================================================================
