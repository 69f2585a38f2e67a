------------------------------- MODULE Accounts -------------------------------
(***************************************************************************)
(* Sign-in, an organization with its members, and API keys.  A refresh     *)
(* token is exchanged for the next one by a read, a delete and an insert;  *)
(* a member is looked up before it is created, a key found before it is    *)
(* used or deleted; the audit entry is a statement of its own.  Requests   *)
(* race and may be cut short between any two of them.  Which role a        *)
(* request needs is left out: its sender has it.                           *)
(***************************************************************************)
EXTENDS Naturals, FiniteSets

CONSTANTS
    Requests,
    Users,      \* e-mail addresses
    Roles,
    Admin,      \* the role of who creates the organization
    Tokens,     \* bound: refresh tokens that may be issued
    Keys,       \* bound: API keys that may be created
    None,
    Mortal      \* requests whose API process may die

ASSUME AccountAssumption ==
    /\ Mortal \subseteq Requests
    /\ Admin \in Roles
    /\ Tokens \cap Requests = {}
    /\ "ended" \notin Users
    /\ None \notin Requests \cup Users \cup Roles \cup Tokens \cup Keys

VARIABLES
    registered,  \* users
    token,       \* refresh_tokens, each with the session it continues
    founder,     \* the organization of one slug: None, or who created it
    member,      \* its organization_members, or project_members
    apiKey,      \* api_keys
    audit,       \* audit_logs
    req,         \* the requests: what they do next, and on what
    session      \* history: a sign-in and the exchanges that follow it, named
                 \* after its request: the user, None before and "ended" after

vars == <<registered, token, founder, member, apiKey, audit, req, session>>

Row == {"live", "expired"}

TokenRow == [status : Row \cup {"none", "deleted"}, session : Requests \cup {None}]
KeyRow == Row \cup {"none", "deleted"}
AuditEntry ==
    ({"MEMBER_INVITED"} \X (Users \X Roles)) \cup ({"API_KEY_CREATED"} \X Keys)
        \cup ({"ORG_CREATED"} \X Users)

At(pc, on) == [pc |-> pc, on |-> on]

\* The request goes on with, or ends as, pc.
Goes(r, pc, on) == req' = [req EXCEPT ![r] = At(pc, on)]

\* It is answered, with an error or not.
Ends(r) == Goes(r, "over", None)

\* What clients have been handed.
Handed(pc) == {req[r].on : r \in {q \in Requests : req[q].pc = pc}}

Init ==
    /\ registered = {}
    /\ token = [t \in Tokens |-> [status |-> "none", session |-> None]]
    /\ founder = None
    /\ member = [u \in Users |-> None]
    /\ apiKey = [k \in Keys |-> "none"]
    /\ audit = {}
    /\ req = [r \in Requests |-> At("new", None)]
    /\ session = [r \in Requests |-> None]

-----------------------------------------------------------------------------
(* AuthService *)

RegisterRead(r, u) ==
    /\ req[r].pc = "new"
    /\ IF u \in registered THEN Ends(r) ELSE Goes(r, "register", u)
    /\ UNCHANGED <<registered, token, founder, member, apiKey, audit, session>>

\* After the password is hashed; the e-mail's unique index may object.
RegisterCreate(r) ==
    /\ req[r].pc = "register"
    /\ IF req[r].on \in registered
         THEN Ends(r) /\ UNCHANGED <<registered, session>>
         ELSE /\ registered' = registered \cup {req[r].on}
              /\ session' = [session EXCEPT ![r] = req[r].on]
              /\ Goes(r, "issue", r)
    /\ UNCHANGED <<token, founder, member, apiKey, audit>>

Login(r, u, valid) ==
    /\ req[r].pc = "new"
    /\ IF u \in registered /\ valid
         THEN session' = [session EXCEPT ![r] = u] /\ Goes(r, "issue", r)
         ELSE Ends(r) /\ UNCHANGED session
    /\ UNCHANGED <<registered, token, founder, member, apiKey, audit>>

\* generateTokens: the token's row, and the answer.
IssueToken(r, t) ==
    /\ req[r].pc = "issue"
    /\ token[t].status = "none"
    /\ token' = [token EXCEPT ![t] = [status |-> "live", session |-> req[r].on]]
    /\ Goes(r, "signedIn", t)
    /\ UNCHANGED <<registered, founder, member, apiKey, audit, session>>

\* The row, if it is there, is deleted; the answer is the same.
Logout(r, t) ==
    /\ req[r].pc = "new"
    /\ t \in Handed("signedIn")
    /\ IF token[t].status \in Row
         THEN /\ token' = [token EXCEPT ![t].status = "deleted"]
              /\ session' = [session EXCEPT ![token[t].session] = "ended"]
         ELSE UNCHANGED <<token, session>>
    /\ Ends(r)
    /\ UNCHANGED <<registered, founder, member, apiKey, audit>>

RefreshRead(r, t) ==
    /\ req[r].pc = "new"
    /\ t \in Handed("signedIn")
    /\ IF token[t].status = "live" THEN Goes(r, "exchange", t) ELSE Ends(r)
    /\ UNCHANGED <<registered, token, founder, member, apiKey, audit, session>>

\* Faulty variant: deleteMany, which does not mind that the row is gone.
RefreshDeleteMany(r) ==
    LET t == req[r].on IN
    /\ req[r].pc = "exchange"
    /\ token' = [token EXCEPT ![t].status = "deleted"]
    /\ Goes(r, "issue", token[t].session)
    /\ UNCHANGED <<registered, founder, member, apiKey, audit, session>>

\* delete rejects if the row is gone.
RefreshDelete(r) ==
    LET t == req[r].on IN
    /\ req[r].pc = "exchange"
    /\ IF token[t].status \in Row
         THEN /\ token' = [token EXCEPT ![t].status = "deleted"]
              /\ Goes(r, "issue", token[t].session)
         ELSE Ends(r) /\ UNCHANGED token
    /\ UNCHANGED <<registered, founder, member, apiKey, audit, session>>

TokenExpires(t) ==
    /\ token[t].status = "live"
    /\ token' = [token EXCEPT ![t].status = "expired"]
    /\ UNCHANGED <<registered, founder, member, apiKey, audit, req, session>>

-----------------------------------------------------------------------------
(* The organization, and MemberService: inviteToOrg and inviteToProject *)

\* The organization and its first member in one statement; the slug's unique
\* index may object.
OrgCreate(r, u) ==
    /\ req[r].pc = "new"
    /\ u \in registered
    /\ IF founder = None
         THEN /\ founder' = u
              /\ member' = [member EXCEPT ![u] = Admin]
              /\ Goes(r, "orgAudit", u)
         ELSE Ends(r) /\ UNCHANGED <<founder, member>>
    /\ UNCHANGED <<registered, token, apiKey, audit, session>>

OrgAudit(r) ==
    /\ req[r].pc = "orgAudit"
    /\ audit' = audit \cup {<<"ORG_CREATED", req[r].on>>}
    /\ Ends(r)
    /\ UNCHANGED <<registered, token, founder, member, apiKey, session>>

InviteRead(r, u, role) ==
    /\ req[r].pc = "new"
    /\ founder # None
    /\ IF u \in registered /\ member[u] = None
         THEN Goes(r, "invite", <<u, role>>) ELSE Ends(r)
    /\ UNCHANGED <<registered, token, founder, member, apiKey, audit, session>>

\* Faulty variant: an upsert.
InviteUpsert(r) ==
    LET u == req[r].on[1] IN
    /\ req[r].pc = "invite"
    /\ member' = [member EXCEPT ![u] = req[r].on[2]]
    /\ Goes(r, "inviteAudit", req[r].on)
    /\ UNCHANGED <<registered, token, founder, apiKey, audit, session>>

\* The unique index of the members may object.
InviteCreate(r) ==
    LET u == req[r].on[1] IN
    /\ req[r].pc = "invite"
    /\ IF member[u] = None
         THEN /\ member' = [member EXCEPT ![u] = req[r].on[2]]
              /\ Goes(r, "inviteAudit", req[r].on)
         ELSE Ends(r) /\ UNCHANGED member
    /\ UNCHANGED <<registered, token, founder, apiKey, audit, session>>

InviteAudit(r) ==
    /\ req[r].pc = "inviteAudit"
    /\ audit' = audit \cup {<<"MEMBER_INVITED", req[r].on>>}
    /\ Ends(r)
    /\ UNCHANGED <<registered, token, founder, member, apiKey, session>>

-----------------------------------------------------------------------------
(* ApiKeyService *)

KeyCreate(r, k) ==
    /\ req[r].pc = "new"
    /\ apiKey[k] = "none"
    /\ apiKey' = [apiKey EXCEPT ![k] = "live"]
    /\ Goes(r, "keyAudit", k)
    /\ UNCHANGED <<registered, token, founder, member, audit, session>>

KeyAudit(r) ==
    /\ req[r].pc = "keyAudit"
    /\ audit' = audit \cup {<<"API_KEY_CREATED", req[r].on>>}
    /\ Goes(r, "keyMade", req[r].on)
    /\ UNCHANGED <<registered, token, founder, member, apiKey, session>>

RevokeRead(r, k) ==
    /\ req[r].pc = "new"
    /\ IF apiKey[k] \in Row THEN Goes(r, "revoke", k) ELSE Ends(r)
    /\ UNCHANGED <<registered, token, founder, member, apiKey, audit, session>>

RevokeDelete(r) ==
    /\ req[r].pc = "revoke"
    /\ IF apiKey[req[r].on] \in Row
         THEN apiKey' = [apiKey EXCEPT ![req[r].on] = "deleted"] /\ Ends(r)
         ELSE Ends(r) /\ UNCHANGED apiKey
    /\ UNCHANGED <<registered, token, founder, member, audit, session>>

\* authenticate finds the key, compares its hash and looks at its expiry.
KeyRead(r, k) ==
    /\ req[r].pc = "new"
    /\ k \in Handed("keyMade")
    /\ IF apiKey[k] = "live" THEN Goes(r, "keyTouch", k) ELSE Ends(r)
    /\ UNCHANGED <<registered, token, founder, member, apiKey, audit, session>>

\* Its lastUsedAt is written, which rejects if the key was deleted meanwhile.
KeyTouch(r) ==
    /\ req[r].pc = "keyTouch"
    /\ IF apiKey[req[r].on] \in Row
         THEN Goes(r, "authenticated", req[r].on) ELSE Ends(r)
    /\ UNCHANGED <<registered, token, founder, member, apiKey, audit, session>>

KeyExpires(k) ==
    /\ apiKey[k] = "live"
    /\ apiKey' = [apiKey EXCEPT ![k] = "expired"]
    /\ UNCHANGED <<registered, token, founder, member, audit, req, session>>

-----------------------------------------------------------------------------
\* The API process dies with the request; a session whose old token is deleted
\* and whose new one is not there yet ends with it.
Crash(r) ==
    /\ r \in Mortal
    /\ req[r].pc \in {"register", "issue", "exchange", "orgAudit", "invite",
                      "inviteAudit", "keyAudit", "revoke", "keyTouch"}
    /\ session' = IF req[r].pc = "issue" THEN [session EXCEPT ![req[r].on] = "ended"]
                  ELSE session
    /\ Goes(r, "dead", req[r].on)
    /\ UNCHANGED <<registered, token, founder, member, apiKey, audit>>

Auth(r) ==
    \/ \E u \in Users : RegisterRead(r, u) \/ \E valid \in BOOLEAN : Login(r, u, valid)
    \/ RegisterCreate(r) \/ RefreshDelete(r)
    \/ \E t \in Tokens : IssueToken(r, t) \/ Logout(r, t) \/ RefreshRead(r, t)

Invite(r) ==
    \/ \E u \in Users : OrgCreate(r, u) \/ \E role \in Roles : InviteRead(r, u, role)
    \/ OrgAudit(r) \/ InviteCreate(r) \/ InviteAudit(r)

UseKeys(r) ==
    \/ \E k \in Keys : KeyCreate(r, k) \/ RevokeRead(r, k) \/ KeyRead(r, k)
    \/ KeyAudit(r) \/ RevokeDelete(r) \/ KeyTouch(r)

Next ==
    \/ \E r \in Requests : Auth(r) \/ Invite(r) \/ UseKeys(r) \/ Crash(r)
    \/ \E t \in Tokens : TokenExpires(t)
    \/ \E k \in Keys : KeyExpires(k)

Spec == Init /\ [][Next]_vars

-----------------------------------------------------------------------------
(* Properties *)

\* Types, and the foreign keys: sessions are of registered users, tokens of
\* sessions, members are registered.
TypeOK ==
    /\ registered \subseteq Users
    /\ token \in [Tokens -> TokenRow]
    /\ \A t \in Tokens : token[t].session = None <=> token[t].status = "none"
    /\ founder \in registered \cup {None}
    /\ member \in [Users -> Roles \cup {None}]
    /\ \A u \in Users : member[u] # None => u \in registered
    /\ apiKey \in [Keys -> KeyRow]
    /\ session \in [Requests -> registered \cup {None, "ended"}]
    /\ audit \subseteq AuditEntry

\* Who continues the session s: its refresh token, or the request that has
\* deleted the last one and is about to issue the next.
Holders(s) ==
    {t \in Tokens : token[t].session = s /\ token[t].status \in Row}
        \cup {r \in Requests : req[r].pc = "issue" /\ req[r].on = s}

\* A session is one refresh token or one request about to issue it, never two
\* and never none, however its tokens are presented again and by how many
\* requests at once; it is over only after a logout that found its token or a
\* request that died between deleting a token and issuing the next.
SessionsAccounted ==
    \A s \in Requests :
        IF session[s] \in Users THEN \E h \in Tokens \cup Requests : Holders(s) = {h}
                                ELSE Holders(s) = {}

\* The request r is at pc, or was before its process died, and is about x.
Pending(r, pc, x) == req[r].pc \in {pc, "dead"} /\ req[r].on = x

\* The audit log is the truth about members and keys: whom it lists as invited
\* is a member in that role, and who is a member without an entry founded the
\* organization or was invited by a request that has yet to write it or died
\* before; likewise a key.  A key that somebody uses is always on record.
AuditAccounts ==
    /\ \A u \in Users, role \in Roles :
          <<"MEMBER_INVITED", <<u, role>>>> \in audit => member[u] = role
    /\ \A u \in Users : member[u] # None =>
          \/ u = founder
          \/ <<"MEMBER_INVITED", <<u, member[u]>>>> \in audit
          \/ \E r \in Requests : Pending(r, "inviteAudit", <<u, member[u]>>)
    /\ \A k \in Keys : apiKey[k] # "none" =>
          \/ <<"API_KEY_CREATED", k>> \in audit
          \/ \E r \in Requests : Pending(r, "keyAudit", k)
    /\ \A k \in Handed("authenticated") : <<"API_KEY_CREATED", k>> \in audit
=============================================================================
