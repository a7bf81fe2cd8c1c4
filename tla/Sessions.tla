------------------------------ MODULE Sessions ------------------------------
(***************************************************************************)
(* The identity service (services/identity_service/app/main.py): accounts  *)
(* in the database, and sessions in Redis, one key for each refresh token  *)
(* that is still good.  Handlers of several requests, and of several       *)
(* replicas, interleave at every round trip.                               *)
(*                                                                         *)
(* SCAN returns every key that is there from its first call to its last,   *)
(* and may or may not return the others.                                   *)
(***************************************************************************)
EXTENDS Handlers

CONSTANTS
    Emails,
    Subjects,       \* subjects an identity provider knows its users by
    MaxSessions,    \* bound: refresh tokens ever made
    MaxPasswords,   \* bound: passwords one account has had
    MaxStates       \* bound: SSO logins begun

ASSUME SessionsAssumption ==
    {MaxSessions, MaxStates} \subseteq Nat /\ MaxPasswords \in Nat \ {0}

VARIABLES
    users,          \* the rows: [id, email, password, subject]
    orgMembers,     \* ids of the users in the organisation
    sessions,       \* the session keys: [user, jti, ttl]
    issued,         \* the last jti made
    tokens,         \* refresh tokens in the hands of clients: <<user, jti>>
    ssoStates,      \* SSO logins whose state is still in Redis
    ssoBegun,       \* the last state made
    revoked         \* history: sessions a completed request has revoked

sessionVars == <<users, orgMembers, sessions, issued, tokens, ssoStates, ssoBegun, request,
                 revoked>>

NoPassword == 0
NoSubject == "none"

(* A request: user, session, keys of a SCAN still to be deleted, ...       *)
Task == [at |-> "none", user |-> 0, jti |-> 0, left |-> {}, email |-> "none",
         subject |-> NoSubject, password |-> NoPassword]

SessionsInit ==
    /\ users = {}
    /\ orgMembers = {}
    /\ sessions = {}
    /\ issued = 0
    /\ tokens = {}
    /\ ssoStates = {}
    /\ ssoBegun = 0
    /\ NoRequests
    /\ revoked = {}

KeysOf(user) == {s.jti : s \in {t \in sessions : t.user = user}}

Accounts == <<users, orgMembers>>
Tokens == <<sessions, issued, tokens>>
Sso == <<ssoStates, ssoBegun>>

-----------------------------------------------------------------------------
(* Accounts.                                                               *)

(* register: no row has the email yet.                                     *)
Register(p, email) ==
    /\ \A row \in users : row.email # email
    /\ Begin(p, [Task EXCEPT !.at = "insert", !.email = email, !.password = 1])
    /\ UNCHANGED <<Accounts, Tokens, Sso, revoked>>

(* INSERT and COMMIT; another row with the email makes it fail.            *)
InsertUser(p, reply) ==
    LET r == request[p]
        id == Cardinality(users) + 1
        taken == \E row \in users : row.email = r.email
    IN  /\ Reached(p, "insert")
        /\ IF taken
           THEN Answered(p) /\ UNCHANGED users
           ELSE /\ users' = IF Applied(reply)
                            THEN users \cup {[id |-> id, email |-> r.email, password |-> r.password,
                                              subject |-> r.subject]}
                            ELSE users
                /\ IF Raised(reply) THEN Answered(p)
                   ELSE request' = [request EXCEPT ![p].at = "join", ![p].user = id]
        /\ UNCHANGED <<orgMembers, Tokens, Sso, revoked>>

(* The row in organization_members: without an organisation there is none, *)
(* a second one violates its unique constraint.  An SSO login goes on to   *)
(* its session, a registration is over.                                    *)
Join(p, reply) ==
    LET r == request[p]
    IN  /\ Reached(p, "join")
        /\ orgMembers' = IF Applied(reply) THEN orgMembers \cup {r.user} ELSE orgMembers
        /\ IF r.password # NoPassword \/ r.user \in orgMembers
           THEN Answered(p)
           ELSE Proceed(p, "session", reply)
        /\ UNCHANGED <<users, Tokens, Sso, revoked>>

(* change_password, and require_auth before it: the row as it was read.    *)
BeginChange(p, row, password) ==
    /\ row \in users
    /\ row.password # NoPassword
    /\ password \in 1 .. MaxPasswords \ {row.password}
    /\ Begin(p, [Task EXCEPT !.at = "change", !.user = row.id, !.password = password])
    /\ UNCHANGED <<Accounts, Tokens, Sso, revoked>>

CommitPassword(p, reply) ==
    LET r == request[p]
    IN  /\ Reached(p, "change")
        /\ users' = IF Applied(reply)
                    THEN {IF row.id = r.user THEN [row EXCEPT !.password = r.password] ELSE row :
                             row \in users}
                    ELSE users
        /\ IF Raised(reply) THEN Answered(p)
           ELSE request' = [request EXCEPT ![p].at = "scan", ![p].left = KeysOf(r.user)]
        /\ UNCHANGED <<orgMembers, Tokens, Sso, revoked>>

-----------------------------------------------------------------------------
(* Sessions.                                                               *)

Login(p, row) ==
    /\ row \in users
    /\ row.password # NoPassword
    /\ Begin(p, [Task EXCEPT !.at = "session", !.user = row.id])
    /\ UNCHANGED <<Accounts, Tokens, Sso, revoked>>

(* refresh_tokens up to its deletion of the session it has found.          *)
Refresh(p, token) ==
    /\ token \in tokens
    /\ token[2] \in KeysOf(token[1])
    /\ Begin(p, [Task EXCEPT !.at = "rotate", !.user = token[1], !.jti = token[2]])
    /\ UNCHANGED <<Accounts, Tokens, Sso, revoked>>

Without(jti) == {s \in sessions : s.jti # jti}

Rotate(p, reply) ==
    /\ Reached(p, "rotate")
    /\ sessions' = IF Applied(reply) THEN Without(request[p].jti) ELSE sessions
    /\ revoked' = IF Raised(reply) THEN revoked ELSE revoked \cup {request[p].jti}
    /\ Proceed(p, "session", reply)
    /\ UNCHANGED <<Accounts, issued, tokens, Sso>>

\* Mutant of CreateSession: a refresh keeps the id of the session it had.
CreateSessionSame(p, reply) ==
    LET jti == IF request[p].jti # 0 THEN request[p].jti ELSE issued + 1
    IN  /\ Reached(p, "session")
        /\ issued < MaxSessions
        /\ issued' = issued + 1
        /\ sessions' = IF Applied(reply)
                       THEN sessions \cup {[user |-> request[p].user, jti |-> jti, ttl |-> FALSE]}
                       ELSE sessions
        /\ IF Raised(reply) THEN Answered(p)
           ELSE request' = [request EXCEPT ![p].at = "expire", ![p].jti = jti]
        /\ UNCHANGED <<Accounts, tokens, Sso, revoked>>

(* _create_session: HSET under a new jti, ...                              *)
CreateSession(p, reply) ==
    LET jti == issued + 1
    IN  /\ Reached(p, "session")
        /\ issued < MaxSessions
        /\ issued' = jti
        /\ sessions' = IF Applied(reply)
                       THEN sessions \cup {[user |-> request[p].user, jti |-> jti, ttl |-> FALSE]}
                       ELSE sessions
        /\ IF Raised(reply) THEN Answered(p)
           ELSE request' = [request EXCEPT ![p].at = "expire", ![p].jti = jti]
        /\ UNCHANGED <<Accounts, tokens, Sso, revoked>>

(* ... EXPIRE in a round trip of its own, and what the handler does after  *)
(* it; only an answer hands the refresh token out.                         *)
SetExpiry(p, reply) ==
    LET r == request[p]
    IN  /\ Reached(p, "expire")
        /\ sessions' = IF Applied(reply)
                       THEN {IF s.jti = r.jti THEN [s EXCEPT !.ttl = TRUE] ELSE s : s \in sessions}
                       ELSE sessions
        /\ tokens' = IF Raised(reply) THEN tokens ELSE tokens \cup {<<r.user, r.jti>>}
        /\ Answered(p)
        /\ UNCHANGED <<Accounts, issued, Sso, revoked>>

SessionExpires(s) ==
    /\ s.ttl
    /\ sessions' = sessions \ {s}
    /\ UNCHANGED <<Accounts, issued, tokens, Sso, request, revoked>>

(* _revoke_all_sessions of logout and revoke_all_sessions.                 *)
BeginRevokeAll(p, user) ==
    /\ Begin(p, [Task EXCEPT !.at = "scan", !.user = user, !.left = KeysOf(user)])
    /\ UNCHANGED <<Accounts, Tokens, Sso, revoked>>

(* The next key of the SCAN, which may be younger than it.                 *)
RevokeScanned(p, jti, reply) ==
    /\ Reached(p, "scan")
    /\ jti \in KeysOf(request[p].user)
    /\ sessions' = IF Applied(reply) THEN Without(jti) ELSE sessions
    /\ Proceed(p, "scan", reply)
    /\ UNCHANGED <<Accounts, issued, tokens, Sso, revoked>>

EndRevokeAll(p) ==
    /\ Reached(p, "scan")
    /\ request[p].left \cap KeysOf(request[p].user) = {}
    /\ revoked' = revoked \cup request[p].left
    /\ Answered(p)
    /\ UNCHANGED <<Accounts, Tokens, Sso>>

(* revoke_session: one DEL.                                                *)
RevokeSession(p, token, reply) ==
    /\ Reached(p, "free")
    /\ token \in tokens
    /\ sessions' = IF Applied(reply) THEN Without(token[2]) ELSE sessions
    /\ revoked' = IF Raised(reply) THEN revoked ELSE revoked \cup {token[2]}
    /\ UNCHANGED <<Accounts, issued, tokens, Sso, request>>

-----------------------------------------------------------------------------
(* Single sign-on, SAML or OIDC.                                           *)

(* saml_init or oidc_init.                                                 *)
SsoInit ==
    /\ ssoBegun < MaxStates
    /\ ssoBegun' = ssoBegun + 1
    /\ ssoStates' = ssoStates \cup {ssoBegun'}
    /\ UNCHANGED <<Accounts, Tokens, request, revoked>>

(* saml_acs or oidc_callback: GET of the state, ...                        *)
SsoCallback(p, state, email, subject) ==
    /\ state \in ssoStates
    /\ Begin(p, [Task EXCEPT !.at = "consume", !.jti = state, !.email = email, !.subject = subject])
    /\ UNCHANGED <<Accounts, Tokens, Sso, revoked>>

(* ... its deletion, and an identity provider that does or does not vouch. *)
ConsumeState(p, vouched, reply) ==
    /\ Reached(p, "consume")
    /\ ssoStates' = IF Applied(reply) THEN ssoStates \ {request[p].jti} ELSE ssoStates
    /\ IF Raised(reply) \/ ~vouched
       THEN Answered(p)
       ELSE request' = [request EXCEPT ![p].at = "find", ![p].jti = 0]
    /\ UNCHANGED <<Accounts, Tokens, ssoBegun, revoked>>

(* _find_or_create_sso_user: by email, else by subject; two rows with the  *)
(* subject raise.  A subject the row lacks is written.                     *)
FindUser(p, reply) ==
    LET r == request[p]
        named == {row \in users : row.email = r.email}
        known == {row \in users : row.subject = r.subject}
        found == IF named # {} \/ r.subject = NoSubject THEN named ELSE known
        update == \E row \in found : row.subject = NoSubject /\ r.subject # NoSubject
    IN  /\ Reached(p, "find")
        /\ users' = IF update /\ Applied(reply)
                    THEN {IF row \in found THEN [row EXCEPT !.subject = r.subject] ELSE row :
                             row \in users}
                    ELSE users
        /\ IF Raised(reply) \/ Cardinality(found) > 1
           THEN Answered(p)
           ELSE IF found = {} THEN Proceed(p, "insert", reply)
           ELSE \E row \in found :
                   request' = [request EXCEPT ![p].user = row.id,
                                  ![p].at = IF row.id \in orgMembers THEN "session" ELSE "join"]
        /\ UNCHANGED <<orgMembers, Tokens, Sso, revoked>>

-----------------------------------------------------------------------------
Handler(p) ==
    \/ \E email \in Emails : Register(p, email)
    \/ \E row \in users :
          \/ Login(p, row)
          \/ BeginRevokeAll(p, row.id)
          \/ \E password \in 1 .. MaxPasswords : BeginChange(p, row, password)
    \/ \E token \in tokens : Refresh(p, token)
    \/ \E state \in ssoStates, email \in Emails, subject \in Subjects :
          SsoCallback(p, state, email, subject)
    \/ EndRevokeAll(p)
    \/ \E reply \in Outcomes :
          \/ InsertUser(p, reply)
          \/ Join(p, reply)
          \/ CommitPassword(p, reply)
          \/ Rotate(p, reply)
          \/ CreateSession(p, reply)
          \/ SetExpiry(p, reply)
          \/ FindUser(p, reply)
          \/ \E vouched \in BOOLEAN : ConsumeState(p, vouched, reply)
          \/ \E token \in tokens : RevokeSession(p, token, reply)
          \/ \E s \in sessions : RevokeScanned(p, s.jti, reply)

SessionsNext ==
    \/ \E p \in Requests : Handler(p)
    \/ \E s \in sessions : SessionExpires(s)
    \/ SsoInit

SessionsSpec == SessionsInit /\ [][SessionsNext]_sessionVars

-----------------------------------------------------------------------------
SessionsTypeOK ==
    /\ \A row \in users : row.email \in Emails /\ row.password \in 0 .. MaxPasswords
    /\ Cardinality({row.email : row \in users}) = Cardinality(users)
    /\ orgMembers \subseteq {row.id : row \in users}
    /\ \A s \in sessions : s.jti \in 1 .. issued
    /\ ssoStates \subseteq 1 .. ssoBegun
    /\ \A p \in Requests :
          request[p].at \in {"free", "insert", "join", "change", "session", "rotate", "expire",
                             "scan", "consume", "find"}

(* A session that was there when a logout, a password change or "revoke    *)
(* all" began, or that a refresh or a revocation retired, is gone for good *)
(* once that request has completed, whatever logins and refreshes were in  *)
(* flight meanwhile; only what these created anew can remain.              *)
RevokedStaysRevoked == \A s \in sessions : s.jti \notin revoked
=============================================================================
