---------------------------- MODULE HandlerProofs ---------------------------
(***************************************************************************)
(* Proofs about the services whose work is done in request handlers: the   *)
(* identity service's sessions (Sessions), the tenant service (Tenancy),   *)
(* the idempotency middleware (Idempotency), the realtime service          *)
(* (Realtime), the integrations of the export service (IntegrationSync),   *)
(* the gateway's direct collection (DirectCollection), the tasks of the    *)
(* single-process application (TaskCollection) and the rate limiter        *)
(* (RateLimiter).  Each section proves one of them, for any number of      *)
(* requests, users, sockets, keys and mentions; then come the types, and   *)
(* the composition (HandlerServices), whose invariant is made of those of  *)
(* the services.                                                           *)
(*                                                                         *)
(* What the properties say of a request at rest has to be carried through  *)
(* its awaits, so every inductive invariant says what a request knows at   *)
(* each of them:                                                           *)
(*   SessionIInv      the sessions a scan has found are its user's, and an *)
(*                    id is never issued again;                            *)
(*   TenancyIInv      the members there are, and the invitations that have *)
(*                    passed the check, stay within the limit plus one per *)
(*                    request;                                             *)
(*   IdempotencyIInv  the calls and claims of the requests in flight are   *)
(*                    counted, each answered by an excuse or a claim;      *)
(*   RealtimeIInv     a queue ends at the message published last, and a    *)
(*                    client that is off has none;                         *)
(*   SyncIInv         a mention a sync has seen is still with it, was left *)
(*                    out by its query, or is explained;                   *)
(*   DirectIInv       a post a run found is in the table or is the first   *)
(*                    of its name to be added, and the rows it was not     *)
(*                    told of have other names;                            *)
(*   TaskIInv         a post a task found is stored or excused, or is in   *)
(*                    its session or its batch.                            *)
(* For the rate limiter KeyBounded and GrantsBounded alone are not kept by *)
(* a step: the calls let in and not recorded yet are counted with those    *)
(* recorded, and what the key may lose (LostIsInFlight) is bounded because *)
(* an entry outlives the TTL only while its call is in flight (TTLCovers). *)
(***************************************************************************)
EXTENDS HandlerServices, SearchProofs

-----------------------------------------------------------------------------
(* Requests.  A handler's record has its own fields, so what a step leaves *)
(* of it is said by its domain and not by the types of its fields.         *)

HasFields(r, fields) == DOMAIN r = fields /\ r = [f \in fields |-> r[f]]

RequestsAreFunction == DOMAIN request = Requests /\ request = [p \in Requests |-> request[p]]

(* A step of one request.                                                  *)
Moved(p) ==
    /\ RequestsAreFunction'
    /\ \A q \in Requests : q # p => request'[q] = request[q]

(* Answering frees the request and leaves the others alone.                *)
LEMMA AnsweredMoves ==
    ASSUME RequestsAreFunction, NEW p \in Requests, Answered(p)
    PROVE  Moved(p) /\ request'[p] = Free
  BY DEF RequestsAreFunction, Answered, Moved

(* Beginning gives the request its task.                                   *)
LEMMA BeginMoves ==
    ASSUME RequestsAreFunction, NEW p \in Requests, NEW task, Begin(p, task)
    PROVE  Moved(p) /\ request'[p] = task /\ request[p].at = "free"
  BY DEF RequestsAreFunction, Begin, Reached, Moved

(* Going on to another await.                                              *)
LEMMA GoesOnMoves ==
    ASSUME RequestsAreFunction, NEW p \in Requests, NEW where, NEW fields,
           HasFields(request[p], fields), "at" \in fields,
           request' = [request EXCEPT ![p].at = where]
    PROVE  /\ Moved(p)
           /\ HasFields(request'[p], fields)
           /\ request'[p].at = where
           /\ \A f \in fields \ {"at"} : request'[p][f] = request[p][f]
<1>1. request'[p] = [request[p] EXCEPT !.at = where] /\ Moved(p)
  BY DEF RequestsAreFunction, Moved
<1>2. QED
  BY <1>1 DEF HasFields

(* A set of requests gains or loses the one that moves.                    *)
LEMMA OneMoves ==
    ASSUME NEW S \in SUBSET Requests, NEW T \in SUBSET Requests, NEW p \in Requests,
           \A q \in Requests : q # p => (q \in T <=> q \in S)
    PROVE  /\ Cardinality(S) \in Nat /\ Cardinality(T) \in Nat
           /\ Cardinality(T) = Cardinality(S) + (IF p \in T THEN 1 ELSE 0)
                                 - (IF p \in S THEN 1 ELSE 0)
<1>1. IsFiniteSet(S) /\ IsFiniteSet(T) /\ Cardinality(S) \in Nat /\ Cardinality(T) \in Nat
  BY HandlersAssumption, FS_Subset, FS_CardinalityType
<1>2. CASE p \in S <=> p \in T
  <2>1. S = T
    BY <1>2
  <2>2. QED
    BY <1>1, <1>2, <2>1
<1>3. CASE p \in T /\ p \notin S
  <2>1. T = S \cup {p}
    BY <1>3
  <2>2. Cardinality(T) = Cardinality(S) + 1
    BY <1>1, <1>3, <2>1, FS_AddElement
  <2>3. QED
    BY <1>1, <1>3, <2>2
<1>4. CASE p \in S /\ p \notin T
  <2>1. S = T \cup {p}
    BY <1>4
  <2>2. Cardinality(S) = Cardinality(T) + 1
    BY <1>1, <1>4, <2>1, FS_AddElement
  <2>3. QED
    BY <1>1, <1>4, <2>2
<1>5. QED
  BY <1>2, <1>3, <1>4

-----------------------------------------------------------------------------
(* The identity service.                                                   *)

TaskFields == {"at", "user", "jti", "left", "email", "subject", "password"}

(* A request holds only sessions that there have been, and a scan only     *)
(* sessions of its user.                                                   *)
HoldsOwn(p) ==
    /\ request[p] = Free \/ HasFields(request[p], TaskFields)
    /\ request[p].at \in {"rotate", "expire"} => request[p].jti \in 1 .. issued
    /\ request[p].at = "scan" =>
          /\ request[p].left \subseteq 1 .. issued
          /\ \A s \in sessions : s.jti \in request[p].left => s.user = request[p].user

SessionFields == {"user", "jti", "ttl"}

IsSession(s) == HasFields(s, SessionFields)

SessionIInv ==
    /\ issued \in Nat
    /\ RequestsAreFunction
    /\ \A s \in sessions : IsSession(s) /\ s.jti \in 1 .. issued
    /\ \A s, t \in sessions : s.jti = t.jti => s.user = t.user
    /\ \A token \in tokens : token[2] \in 1 .. issued
    /\ revoked \subseteq 1 .. issued
    /\ \A p \in Requests : HoldsOwn(p)
    /\ RevokedStaysRevoked

(* No session is new.                                                      *)
Lingers ==
    \A s \in sessions' :
        IsSession(s) /\ \E t \in sessions : t.jti = s.jti /\ t.user = s.user

(* A step of one request that makes no session keeps the invariant, if the *)
(* request holds what it should and what it revokes is gone.               *)
LEMMA SessionStep ==
    ASSUME SessionIInv, NEW p \in Requests, Moved(p), HoldsOwn(p)', Lingers, issued' = issued,
           \A token \in tokens' : token \in tokens \/ token[2] \in 1 .. issued,
           revoked' \subseteq 1 .. issued,
           \A s \in sessions' : s.jti \notin revoked' \ revoked
    PROVE  SessionIInv'
<1>1. ASSUME NEW q \in Requests PROVE HoldsOwn(q)'
  <2>1. CASE q # p
    <3>1. request'[q] = request[q] /\ HoldsOwn(q)
      BY <2>1 DEF Moved, SessionIInv
    <3>2. \A s \in sessions' : \E t \in sessions : t.jti = s.jti /\ t.user = s.user
      BY DEF Lingers
    <3>3. QED
      BY <3>1, <3>2 DEF HoldsOwn
  <2>2. QED
    BY <2>1
<1>2. \A s \in sessions' : IsSession(s) /\ s.jti \in 1 .. issued'
  BY DEF Lingers, SessionIInv
<1>3. \A s, t \in sessions' : s.jti = t.jti => s.user = t.user
  BY DEF Lingers, SessionIInv
<1>4. \A s \in sessions' : s.jti \notin revoked'
  BY DEF Lingers, SessionIInv, RevokedStaysRevoked
<1>5. QED
  BY <1>1, <1>2, <1>3, <1>4 DEF SessionIInv, RevokedStaysRevoked, Moved

(* A request that holds nothing.                                           *)
LEMMA HoldsNothing ==
    ASSUME NEW p \in Requests,
           \/ request'[p] = Free
           \/ /\ HasFields(request'[p], TaskFields)
              /\ request'[p].at \notin {"rotate", "expire", "scan"}
    PROVE  HoldsOwn(p)'
  BY DEF HoldsOwn, Free

(* Steps that leave the sessions alone.                                    *)
LEMMA SessionQuietStep ==
    ASSUME SessionIInv, NEW p \in Requests, Moved(p), HoldsOwn(p)',
           UNCHANGED <<sessions, issued, tokens, revoked>>
    PROVE  SessionIInv'
<1>1. Lingers
  BY DEF Lingers, SessionIInv
<1>2. QED
  BY <1>1, SessionStep DEF SessionIInv

(* A request that has begun has the fields of a task.                      *)
LEMMA BegunHasFields ==
    ASSUME SessionIInv, NEW p \in Requests, request[p].at # "free"
    PROVE  HasFields(request[p], TaskFields)
  BY DEF SessionIInv, HoldsOwn, Free

(* A handler that passes on from one await to another, or raises.          *)
LEMMA ProceedHoldsNothing ==
    ASSUME SessionIInv, NEW p \in Requests, request[p].at # "free",
           NEW where, where \notin {"rotate", "expire", "scan"}, NEW reply,
           Proceed(p, where, reply)
    PROVE  Moved(p) /\ HoldsOwn(p)'
<1>1. CASE Answered(p)
  BY <1>1, AnsweredMoves, HoldsNothing DEF SessionIInv
<1>2. CASE request' = [request EXCEPT ![p].at = where]
  <2>1. RequestsAreFunction /\ HasFields(request[p], TaskFields) /\ "at" \in TaskFields
    BY BegunHasFields DEF SessionIInv, TaskFields
  <2>2. Moved(p) /\ HasFields(request'[p], TaskFields) /\ request'[p].at = where
    BY <1>2, <2>1, GoesOnMoves
  <2>3. QED
    BY <2>2, HoldsNothing
<1>3. QED
  BY <1>1, <1>2 DEF Proceed

(* Whatever begins without a session.                                      *)
LEMMA SessionBeginInv ==
    ASSUME SessionIInv, NEW p \in Requests, NEW task, Begin(p, task),
           HasFields(task, TaskFields), task.at \notin {"rotate", "expire", "scan"},
           UNCHANGED <<sessions, issued, tokens, revoked>>
    PROVE  SessionIInv'
<1>1. Moved(p) /\ request'[p] = task
  BY BeginMoves DEF SessionIInv
<1>2. HoldsOwn(p)'
  BY <1>1, HoldsNothing
<1>3. QED
  BY <1>1, <1>2, SessionQuietStep

(* The awaits of a handler that are not about sessions.                    *)
LEMMA AccountInv ==
    ASSUME SessionIInv, NEW p \in Requests, NEW reply,
           \/ InsertUser(p, reply)
           \/ Join(p, reply)
           \/ FindUser(p, reply)
           \/ \E vouched : ConsumeState(p, vouched, reply)
    PROVE  SessionIInv'
<1> DEFINE r == request[p]
<1>1. request[p].at # "free" /\ UNCHANGED <<sessions, issued, tokens, revoked>>
  BY DEF InsertUser, Join, FindUser, ConsumeState, Reached, Tokens
<1>2. RequestsAreFunction /\ HasFields(r, TaskFields)
  BY <1>1, BegunHasFields DEF SessionIInv
<1>3. Moved(p) /\ HoldsOwn(p)'
  <2>1. ASSUME Answered(p) PROVE Moved(p) /\ HoldsOwn(p)'
    BY <1>2, <2>1, AnsweredMoves, HoldsNothing
  <2>2. ASSUME NEW where, where \in {"session", "insert"}, Proceed(p, where, reply)
        PROVE  Moved(p) /\ HoldsOwn(p)'
    BY <1>1, <2>2, ProceedHoldsNothing
  <2>3. ASSUME NEW where, where \in {"join", "session"}, NEW user,
               request' = [request EXCEPT ![p].user = user, ![p].at = where]
        PROVE  Moved(p) /\ HoldsOwn(p)'
    <3>1. request'[p] = [r EXCEPT !.user = user, !.at = where] /\ Moved(p)
      BY <1>2, <2>3 DEF RequestsAreFunction, Moved
    <3>2. HasFields(request'[p], TaskFields) /\ request'[p].at = where
      BY <1>2, <3>1 DEF HasFields, TaskFields
    <3>3. QED
      BY <2>3, <3>1, <3>2, HoldsNothing
  <2>4. ASSUME NEW where, where \in {"join", "find"}, NEW n,
               \/ request' = [request EXCEPT ![p].at = where, ![p].user = n]
               \/ request' = [request EXCEPT ![p].at = where, ![p].jti = n]
        PROVE  Moved(p) /\ HoldsOwn(p)'
    <3>1. /\ \/ request'[p] = [r EXCEPT !.at = where, !.user = n]
             \/ request'[p] = [r EXCEPT !.at = where, !.jti = n]
          /\ Moved(p)
      BY <1>2, <2>4 DEF RequestsAreFunction, Moved
    <3>2. HasFields(request'[p], TaskFields) /\ request'[p].at = where
      BY <1>2, <3>1 DEF HasFields, TaskFields
    <3>3. QED
      BY <2>4, <3>1, <3>2, HoldsNothing
  <2>5. CASE InsertUser(p, reply)
    BY <2>1, <2>4, <2>5 DEF InsertUser
  <2>6. CASE Join(p, reply)
    BY <2>1, <2>2, <2>6 DEF Join
  <2>7. CASE FindUser(p, reply)
    BY <2>1, <2>2, <2>3, <2>7 DEF FindUser
  <2>8. CASE \E vouched : ConsumeState(p, vouched, reply)
    BY <2>1, <2>4, <2>8 DEF ConsumeState
  <2>9. QED
    BY <2>5, <2>6, <2>7, <2>8
<1>4. QED
  BY <1>1, <1>3, SessionQuietStep

(* A SCAN begins with the keys of the user, each of which is the user's.   *)
LEMMA ScanBeginsInv ==
    ASSUME SessionIInv, NEW p \in Requests, Moved(p), NEW user,
           HasFields(request'[p], TaskFields), request'[p].at = "scan",
           request'[p].user = user, request'[p].left = KeysOf(user),
           UNCHANGED <<sessions, issued, tokens, revoked>>
    PROVE  SessionIInv'
<1>1. \A jti \in KeysOf(user) : \E s \in sessions : s.jti = jti /\ s.user = user
  BY DEF KeysOf
<1>2. HoldsOwn(p)'
  BY <1>1 DEF HoldsOwn, SessionIInv
<1>3. QED
  BY <1>2, SessionQuietStep

(* A logout, and a password change.                                        *)
LEMMA ScansInv ==
    ASSUME SessionIInv, NEW p \in Requests, NEW reply,
           (\E user : BeginRevokeAll(p, user)) \/ CommitPassword(p, reply)
    PROVE  SessionIInv'
<1>1. UNCHANGED <<sessions, issued, tokens, revoked>>
  BY DEF BeginRevokeAll, CommitPassword, Tokens
<1>2. ASSUME NEW user, BeginRevokeAll(p, user) PROVE SessionIInv'
  <2> DEFINE task == [Task EXCEPT !.at = "scan", !.user = user, !.left = KeysOf(user)]
  <2>1. Moved(p) /\ request'[p] = task
    BY <1>2, BeginMoves DEF BeginRevokeAll, SessionIInv
  <2>2. HasFields(task, TaskFields) /\ task.at = "scan" /\ task.user = user
        /\ task.left = KeysOf(user)
    BY DEF Task, HasFields, TaskFields
  <2>3. QED
    BY <1>1, <2>1, <2>2, ScanBeginsInv
<1>3. CASE CommitPassword(p, reply)
  <2>1. RequestsAreFunction /\ HasFields(request[p], TaskFields)
    BY <1>3, BegunHasFields DEF CommitPassword, Reached, SessionIInv
  <2>2. CASE Answered(p)
    <3>1. Moved(p) /\ request'[p] = Free
      BY <2>1, <2>2, AnsweredMoves
    <3>2. QED
      BY <1>1, <3>1, HoldsNothing, SessionQuietStep
  <2>3. CASE request' = [request EXCEPT ![p].at = "scan", ![p].left = KeysOf(request[p].user)]
    <3>1. /\ request'[p] = [request[p] EXCEPT !.at = "scan", !.left = KeysOf(request[p].user)]
          /\ Moved(p)
      BY <2>1, <2>3 DEF RequestsAreFunction, Moved
    <3>2. /\ HasFields(request'[p], TaskFields) /\ request'[p].at = "scan"
          /\ request'[p].user = request[p].user /\ request'[p].left = KeysOf(request[p].user)
      BY <2>1, <3>1 DEF HasFields, TaskFields
    <3>3. PICK user : user = request[p].user
      OBVIOUS
    <3>4. QED
      BY <1>1, <3>1, <3>2, <3>3, ScanBeginsInv
  <2>4. QED
    BY <1>3, <2>2, <2>3 DEF CommitPassword
<1>4. QED
  BY <1>2, <1>3

(* Deletions of one session.                                               *)
LEMMA DeletedLingers ==
    ASSUME SessionIInv, NEW jti, NEW reply,
           sessions' = IF Applied(reply) THEN Without(jti) ELSE sessions
    PROVE  Lingers /\ (~Raised(reply) => \A s \in sessions' : s.jti # jti)
<1>1. sessions' \subseteq sessions /\ (~Raised(reply) => \A s \in sessions' : s.jti # jti)
  BY DEF Without, Applied, Raised
<1>2. QED
  BY <1>1 DEF Lingers, SessionIInv

(* refresh_tokens, the scan and revoke_session delete one session each.    *)
LEMMA DeletesInv ==
    ASSUME SessionIInv, NEW p \in Requests, NEW reply,
           \/ Rotate(p, reply)
           \/ \E jti : RevokeScanned(p, jti, reply)
           \/ \E token \in tokens : RevokeSession(p, token, reply)
    PROVE  SessionIInv'
<1>1. CASE Rotate(p, reply)
  <2>1. /\ request[p].at = "rotate" /\ request[p].jti \in 1 .. issued
        /\ sessions' = IF Applied(reply) THEN Without(request[p].jti) ELSE sessions
        /\ revoked' = IF Raised(reply) THEN revoked ELSE revoked \cup {request[p].jti}
        /\ UNCHANGED <<issued, tokens>>
    BY <1>1 DEF Rotate, Reached, SessionIInv, HoldsOwn
  <2>2. Moved(p) /\ HoldsOwn(p)'
    BY <1>1, <2>1, ProceedHoldsNothing DEF Rotate
  <2>3. Lingers /\ (~Raised(reply) => \A s \in sessions' : s.jti # request[p].jti)
    BY <2>1, DeletedLingers
  <2>4. revoked' \subseteq 1 .. issued /\ \A s \in sessions' : s.jti \notin revoked' \ revoked
    BY <2>1, <2>3 DEF SessionIInv
  <2>5. QED
    BY <2>1, <2>2, <2>3, <2>4, SessionStep
<1>2. ASSUME NEW jti, RevokeScanned(p, jti, reply) PROVE SessionIInv'
  <2>1. /\ request[p].at = "scan" /\ Proceed(p, "scan", reply)
        /\ sessions' = IF Applied(reply) THEN Without(jti) ELSE sessions
        /\ UNCHANGED <<issued, tokens, revoked>>
    BY <1>2 DEF RevokeScanned, Reached
  <2>2. Lingers
    BY <2>1, DeletedLingers
  <2>3. RequestsAreFunction /\ HasFields(request[p], TaskFields) /\ HoldsOwn(p)
    BY <2>1, BegunHasFields DEF SessionIInv
  <2>4. Moved(p) /\ HoldsOwn(p)'
    <3>1. CASE Answered(p)
      BY <2>3, <3>1, AnsweredMoves, HoldsNothing
    <3>2. CASE request' = [request EXCEPT ![p].at = "scan"]
      <4>1. "at" \in TaskFields /\ {"left", "user"} \subseteq TaskFields \ {"at"}
        BY DEF TaskFields
      <4>2. /\ Moved(p) /\ HasFields(request'[p], TaskFields) /\ request'[p].at = "scan"
            /\ request'[p].left = request[p].left /\ request'[p].user = request[p].user
        BY <2>3, <3>2, <4>1, GoesOnMoves
      <4>3. HoldsOwn(p)'
        BY <2>1, <2>2, <2>3, <4>2 DEF HoldsOwn, Lingers
      <4>4. QED
        BY <4>2, <4>3
    <3>3. QED
      BY <2>1, <3>1, <3>2 DEF Proceed
  <2>5. QED
    BY <2>1, <2>2, <2>4, SessionStep DEF SessionIInv
<1>3. ASSUME NEW token \in tokens, RevokeSession(p, token, reply) PROVE SessionIInv'
  <2>1. /\ sessions' = IF Applied(reply) THEN Without(token[2]) ELSE sessions
        /\ revoked' = IF Raised(reply) THEN revoked ELSE revoked \cup {token[2]}
        /\ UNCHANGED <<issued, tokens, request>> /\ token[2] \in 1 .. issued
    BY <1>3 DEF RevokeSession, SessionIInv
  <2>2. Lingers /\ (~Raised(reply) => \A s \in sessions' : s.jti # token[2])
    BY <2>1, DeletedLingers
  <2>3. Moved(p) /\ HoldsOwn(p)'
    BY <2>1, <2>2 DEF Moved, RequestsAreFunction, SessionIInv, HoldsOwn, Lingers
  <2>4. revoked' \subseteq 1 .. issued /\ \A s \in sessions' : s.jti \notin revoked' \ revoked
    BY <2>1, <2>2 DEF SessionIInv
  <2>5. QED
    BY <2>1, <2>2, <2>3, <2>4, SessionStep
<1>4. QED
  BY <1>1, <1>2, <1>3

(* The end of a scan: none of the sessions it was to delete is left, of    *)
(* this user or of another.                                                *)
LEMMA EndRevokeAllInv ==
    ASSUME SessionIInv, NEW p \in Requests, EndRevokeAll(p)
    PROVE  SessionIInv'
<1>1. /\ request[p].at = "scan" /\ Answered(p)
      /\ request[p].left \cap KeysOf(request[p].user) = {}
      /\ revoked' = revoked \cup request[p].left
      /\ UNCHANGED <<sessions, issued, tokens>>
  BY DEF EndRevokeAll, Reached, Tokens
<1>2. /\ request[p].left \subseteq 1 .. issued
      /\ \A s \in sessions : s.jti \in request[p].left => s.user = request[p].user
  BY <1>1 DEF SessionIInv, HoldsOwn
<1>3. \A s \in sessions : s.jti \notin request[p].left
  BY <1>1, <1>2 DEF KeysOf
<1>4. Moved(p) /\ HoldsOwn(p)'
  BY <1>1, AnsweredMoves, HoldsNothing DEF SessionIInv
<1>5. Lingers /\ revoked' \subseteq 1 .. issued
      /\ \A s \in sessions' : s.jti \notin revoked' \ revoked
  BY <1>1, <1>2, <1>3 DEF Lingers, SessionIInv
<1>6. QED
  BY <1>1, <1>4, <1>5, SessionStep

(* refresh_tokens finds the session of a token it was given.               *)
LEMMA RefreshInv ==
    ASSUME SessionIInv, NEW p \in Requests, NEW token, Refresh(p, token)
    PROVE  SessionIInv'
<1> DEFINE task == [Task EXCEPT !.at = "rotate", !.user = token[1], !.jti = token[2]]
<1>1. /\ token \in tokens /\ UNCHANGED <<sessions, issued, tokens, revoked>>
      /\ Moved(p) /\ request'[p] = task
  BY BeginMoves DEF Refresh, SessionIInv, Tokens
<1>2. HasFields(task, TaskFields) /\ task.at = "rotate" /\ task.jti = token[2]
  BY DEF Task, HasFields, TaskFields
<1>3. HoldsOwn(p)'
  BY <1>1, <1>2 DEF HoldsOwn, SessionIInv
<1>4. QED
  BY <1>1, <1>3, SessionQuietStep

(* A new session has an id that no scan, no token and no revocation knows. *)
LEMMA CreateSessionInv ==
    ASSUME SessionIInv, NEW p \in Requests, NEW reply, CreateSession(p, reply)
    PROVE  SessionIInv'
<1> DEFINE jti == issued + 1
           new == [user |-> request[p].user, jti |-> jti, ttl |-> FALSE]
<1>1. /\ request[p].at = "session" /\ issued' = jti /\ UNCHANGED <<tokens, revoked>>
      /\ sessions' \in {sessions, sessions \cup {new}}
      /\ Answered(p) \/ request' = [request EXCEPT ![p].at = "expire", ![p].jti = jti]
  BY DEF CreateSession, Reached
<1>2. issued \in Nat /\ RequestsAreFunction /\ HasFields(request[p], TaskFields)
  BY <1>1, BegunHasFields DEF SessionIInv
<1>3. Moved(p) /\ (\/ request'[p] = Free
                   \/ /\ HasFields(request'[p], TaskFields)
                      /\ request'[p].at = "expire" /\ request'[p].jti = jti)
  <2>1. CASE Answered(p)
    BY <1>2, <2>1, AnsweredMoves
  <2>2. CASE request' = [request EXCEPT ![p].at = "expire", ![p].jti = jti]
    <3>1. request'[p] = [request[p] EXCEPT !.at = "expire", !.jti = jti] /\ Moved(p)
      BY <1>2, <2>2 DEF RequestsAreFunction, Moved
    <3>2. QED
      BY <1>2, <3>1 DEF HasFields, TaskFields
  <2>3. QED
    BY <1>1, <2>1, <2>2
<1>4. \A s \in sessions' : s \in sessions \/ (IsSession(s) /\ s.jti = jti)
  BY <1>1 DEF IsSession, HasFields, SessionFields
<1>5. ASSUME NEW q \in Requests PROVE HoldsOwn(q)'
  <2>1. CASE q = p
    BY <1>1, <1>2, <1>3, <2>1 DEF HoldsOwn, Free
  <2>2. CASE q # p
    <3>1. request'[q] = request[q] /\ HoldsOwn(q)
      BY <1>3, <2>2 DEF Moved, SessionIInv
    <3>2. jti \notin 1 .. issued /\ 1 .. issued \subseteq 1 .. issued'
      BY <1>1, <1>2
    <3>3. QED
      BY <1>4, <3>1, <3>2 DEF HoldsOwn
  <2>3. QED
    BY <2>1, <2>2
<1>6. \A n \in 1 .. issued : n \in 1 .. issued' /\ n # jti
  BY <1>1, <1>2
<1>7. \A s \in sessions' : IsSession(s) /\ s.jti \in 1 .. issued'
  BY <1>1, <1>2, <1>4, <1>6 DEF SessionIInv
<1>8. ASSUME NEW s \in sessions', NEW t \in sessions', s.jti = t.jti PROVE s.user = t.user
  <2>1. CASE s \in sessions /\ t \in sessions
    BY <1>8, <2>1 DEF SessionIInv
  <2>2. CASE s.jti = jti
    <3>1. \A u \in sessions : u.jti # jti
      BY <1>6 DEF SessionIInv
    <3>2. \A u \in sessions' : u.jti = jti => u = new
      BY <1>1, <3>1
    <3>3. QED
      BY <1>8, <2>2, <3>2
  <2>3. QED
    BY <1>4, <1>8, <2>1, <2>2
<1>9. revoked' \subseteq 1 .. issued' /\ \A token \in tokens' : token[2] \in 1 .. issued'
  BY <1>1, <1>6 DEF SessionIInv
<1>10. \A s \in sessions' : s.jti \notin revoked'
  BY <1>1, <1>4, <1>6 DEF SessionIInv, RevokedStaysRevoked
<1>11. QED
  BY <1>1, <1>2, <1>3, <1>5, <1>7, <1>8, <1>9, <1>10 DEF SessionIInv, RevokedStaysRevoked, Moved

(* EXPIRE, which brings no session back, and the answer with the token.    *)
LEMMA SetExpiryInv ==
    ASSUME SessionIInv, NEW p \in Requests, NEW reply, SetExpiry(p, reply)
    PROVE  SessionIInv'
<1> DEFINE r == request[p]
<1>1. /\ r.at = "expire" /\ Answered(p) /\ UNCHANGED <<issued, revoked>>
      /\ \/ sessions' = sessions
         \/ sessions' = {IF s.jti = r.jti THEN [s EXCEPT !.ttl = TRUE] ELSE s : s \in sessions}
      /\ \A token \in tokens' : token \in tokens \/ token = <<r.user, r.jti>>
  BY DEF SetExpiry, Reached
<1>2. r.jti \in 1 .. issued /\ RequestsAreFunction
  BY <1>1 DEF SessionIInv, HoldsOwn
<1>3. Moved(p) /\ HoldsOwn(p)'
  BY <1>1, <1>2, AnsweredMoves, HoldsNothing
<1>4. Lingers
  <2>1. ASSUME NEW s \in sessions
        PROVE  /\ IsSession(s) /\ IsSession([s EXCEPT !.ttl = TRUE])
               /\ [s EXCEPT !.ttl = TRUE].jti = s.jti /\ [s EXCEPT !.ttl = TRUE].user = s.user
    <3>1. HasFields(s, SessionFields)
      BY DEF SessionIInv, IsSession
    <3>2. QED
      BY <3>1 DEF IsSession, HasFields, SessionFields
  <2>2. ASSUME NEW s \in sessions'
        PROVE  \/ s \in sessions
               \/ \E t \in sessions : t.jti = r.jti /\ s = [t EXCEPT !.ttl = TRUE]
    BY <1>1
  <2>3. ASSUME NEW s \in sessions'
        PROVE  IsSession(s) /\ \E t \in sessions : t.jti = s.jti /\ t.user = s.user
    <3>1. CASE s \in sessions
      BY <2>1, <3>1
    <3>2. ASSUME NEW t \in sessions, s = [t EXCEPT !.ttl = TRUE]
          PROVE  IsSession(s) /\ t.jti = s.jti /\ t.user = s.user
      BY <2>1, <3>2
    <3>3. QED
      BY <2>2, <3>1, <3>2
  <2>4. QED
    BY <2>3 DEF Lingers
<1>5. \A s \in sessions' : s.jti \notin revoked' \ revoked
  BY <1>1
<1>6. \A token \in tokens' : token \in tokens \/ token[2] \in 1 .. issued
  BY <1>1, <1>2
<1>7. QED
  BY <1>1, <1>3, <1>4, <1>5, <1>6, SessionStep DEF SessionIInv

(* Steps of no request: a key expires, a login at the provider begins.     *)
LEMMA SessionAloneInv ==
    ASSUME SessionIInv, UNCHANGED <<issued, tokens, revoked, request>>, sessions' \subseteq sessions
    PROVE  SessionIInv'
<1>1. ASSUME NEW q \in Requests PROVE HoldsOwn(q)'
  BY DEF HoldsOwn, SessionIInv
<1>2. QED
  BY <1>1 DEF SessionIInv, RequestsAreFunction, RevokedStaysRevoked

(* Every step keeps the invariant.                                         *)
LEMMA SessionNextInv ==
    ASSUME SessionIInv, [SessionsNext]_sessionVars
    PROVE  SessionIInv'
<1>1. ASSUME NEW p \in Requests, Handler(p) PROVE SessionIInv'
  <2>1. ASSUME NEW email, Register(p, email) PROVE SessionIInv'
    <3> DEFINE task == [Task EXCEPT !.at = "insert", !.email = email, !.password = 1]
    <3>1. HasFields(task, TaskFields) /\ task.at = "insert"
      BY DEF Task, HasFields, TaskFields
    <3>2. QED
      BY <2>1, <3>1, SessionBeginInv DEF Register, Tokens
  <2>2. ASSUME NEW row, Login(p, row) PROVE SessionIInv'
    <3> DEFINE task == [Task EXCEPT !.at = "session", !.user = row.id]
    <3>1. HasFields(task, TaskFields) /\ task.at = "session"
      BY DEF Task, HasFields, TaskFields
    <3>2. QED
      BY <2>2, <3>1, SessionBeginInv DEF Login, Tokens
  <2>3. ASSUME NEW row, NEW password, BeginChange(p, row, password) PROVE SessionIInv'
    <3> DEFINE task == [Task EXCEPT !.at = "change", !.user = row.id, !.password = password]
    <3>1. HasFields(task, TaskFields) /\ task.at = "change"
      BY DEF Task, HasFields, TaskFields
    <3>2. QED
      BY <2>3, <3>1, SessionBeginInv DEF BeginChange, Tokens
  <2>4. ASSUME NEW state, NEW email, NEW subject, SsoCallback(p, state, email, subject)
        PROVE  SessionIInv'
    <3> DEFINE task == [Task EXCEPT !.at = "consume", !.jti = state, !.email = email,
                                    !.subject = subject]
    <3>1. HasFields(task, TaskFields) /\ task.at = "consume"
      BY DEF Task, HasFields, TaskFields
    <3>2. QED
      BY <2>4, <3>1, SessionBeginInv DEF SsoCallback, Tokens
  <2>5. ASSUME NEW token, Refresh(p, token) PROVE SessionIInv'
    BY <2>5, RefreshInv
  <2>6. ASSUME NEW user, BeginRevokeAll(p, user) PROVE SessionIInv'
    BY <2>6, ScansInv
  <2>7. ASSUME NEW reply,
               InsertUser(p, reply) \/ Join(p, reply) \/ FindUser(p, reply)
               \/ \E vouched : ConsumeState(p, vouched, reply)
        PROVE  SessionIInv'
    BY <2>7, AccountInv
  <2>8. ASSUME NEW reply, CommitPassword(p, reply) PROVE SessionIInv'
    BY <2>8, ScansInv
  <2>9. ASSUME NEW reply,
               Rotate(p, reply) \/ (\E jti : RevokeScanned(p, jti, reply))
               \/ \E token \in tokens : RevokeSession(p, token, reply)
        PROVE  SessionIInv'
    BY <2>9, DeletesInv
  <2>10. ASSUME NEW reply, CreateSession(p, reply) PROVE SessionIInv'
    BY <2>10, CreateSessionInv
  <2>11. ASSUME NEW reply, SetExpiry(p, reply) PROVE SessionIInv'
    BY <2>11, SetExpiryInv
  <2>12. CASE EndRevokeAll(p)
    BY <2>12, EndRevokeAllInv
  <2>13. QED
    BY <1>1, <2>1, <2>2, <2>3, <2>4, <2>5, <2>6, <2>7, <2>8, <2>9, <2>10, <2>11, <2>12 DEF Handler
<1>2. ASSUME NEW s, SessionExpires(s) PROVE SessionIInv'
  BY <1>2, SessionAloneInv DEF SessionExpires
<1>3. CASE SsoInit
  BY <1>3, SessionAloneInv DEF SsoInit, Tokens
<1>4. CASE UNCHANGED sessionVars
  BY <1>4, SessionAloneInv DEF sessionVars
<1>5. QED
  BY <1>1, <1>2, <1>3, <1>4 DEF SessionsNext

(* A revoked session is gone for good: whatever logins, refreshes and      *)
(* revocations interleave, and whichever round trip to Redis fails, no     *)
(* handler brings a session back that a completed request has revoked.     *)
THEOREM SessionsRevokedStaysRevoked == SessionsSpec => []RevokedStaysRevoked
<1>1. SessionsInit => SessionIInv
  <2> SUFFICES ASSUME SessionsInit PROVE SessionIInv
    OBVIOUS
  <2>1. RequestsAreFunction /\ \A p \in Requests : request[p] = Free
    BY DEF SessionsInit, NoRequests, RequestsAreFunction
  <2>2. \A p \in Requests : HoldsOwn(p)
    BY <2>1 DEF HoldsOwn, Free
  <2>3. QED
    BY <2>1, <2>2 DEF SessionsInit, SessionIInv, RevokedStaysRevoked
<1>2. SessionIInv /\ [SessionsNext]_sessionVars => SessionIInv'
  BY SessionNextInv
<1>3. SessionIInv => RevokedStaysRevoked
  BY DEF SessionIInv
<1>4. QED
  BY <1>1, <1>2, <1>3, PTL DEF SessionsSpec

-----------------------------------------------------------------------------
(* The idempotency middleware and request_dedup.                           *)

(* Handler calls to come, requests that hold the key of the middleware, or *)
(* the claim of request_dedup.                                             *)
Calling == {p \in Requests : request[p].at \in {"pass", "spoilt", "process"}}
Handling == {p \in Requests : request[p].at \in {"process", "store"}}
Claiming == {p \in Requests : request[p].at = "handler"}

StoredAllows == IF stored = "none" /\ Handling = {} THEN 0 ELSE 1
ClaimAllows == IF claimed = "none" THEN 0 ELSE 1

Reasons == excuses.stored + excuses.raced

IdempotencyIInv ==
    /\ IdempotencyTypeOK
    /\ handled \in Nat /\ deduplicated \in Nat
    /\ excuses \in [stored : Nat, raced : Nat, claimed : Nat]
    /\ RequestsAreFunction
    /\ \A p \in Requests : HasFields(request[p], {"at"})
    /\ handled + Cardinality(Calling) <= Reasons + StoredAllows
    /\ deduplicated + Cardinality(Claiming) <= excuses.claimed + ClaimAllows

(* What changes when one request moves on.                                 *)
LEMMA CallsMove ==
    ASSUME IdempotencyIInv, NEW p \in Requests, Moved(p)
    PROVE  /\ Cardinality(Calling) \in Nat /\ Cardinality(Calling') \in Nat
           /\ Cardinality(Claiming) \in Nat /\ Cardinality(Claiming') \in Nat
           /\ Cardinality(Calling') = Cardinality(Calling) + (IF p \in Calling' THEN 1 ELSE 0)
                                        - (IF p \in Calling THEN 1 ELSE 0)
           /\ Cardinality(Claiming') = Cardinality(Claiming) + (IF p \in Claiming' THEN 1 ELSE 0)
                                        - (IF p \in Claiming THEN 1 ELSE 0)
           /\ \A q \in Requests : q # p => (q \in Handling' <=> q \in Handling)
<1>1. /\ Calling \in SUBSET Requests /\ Calling' \in SUBSET Requests
      /\ Claiming \in SUBSET Requests /\ Claiming' \in SUBSET Requests
  BY DEF Calling, Claiming
<1>2. \A q \in Requests : q # p =>
         /\ q \in Calling' <=> q \in Calling
         /\ q \in Claiming' <=> q \in Claiming
         /\ q \in Handling' <=> q \in Handling
  BY DEF Moved, Calling, Claiming, Handling
<1>3. PICK S1, T1, S2, T2 :
         S1 = Calling /\ T1 = Calling' /\ S2 = Claiming /\ T2 = Claiming'
  OBVIOUS
<1>4. Cardinality(T1) = Cardinality(S1) + (IF p \in T1 THEN 1 ELSE 0) - (IF p \in S1 THEN 1 ELSE 0)
      /\ Cardinality(S1) \in Nat /\ Cardinality(T1) \in Nat
  BY <1>1, <1>2, <1>3, OneMoves
<1>5. Cardinality(T2) = Cardinality(S2) + (IF p \in T2 THEN 1 ELSE 0) - (IF p \in S2 THEN 1 ELSE 0)
      /\ Cardinality(S2) \in Nat /\ Cardinality(T2) \in Nat
  BY <1>1, <1>2, <1>3, OneMoves
<1>6. QED
  BY <1>2, <1>3, <1>4, <1>5

(* What an excuse adds.                                                    *)
LEMMA ExcuseCounts ==
    ASSUME IdempotencyIInv, NEW key \in {"stored", "raced", "claimed"}, NEW yes \in BOOLEAN,
           Excuse(key, yes)
    PROVE  /\ excuses' \in [stored : Nat, raced : Nat, claimed : Nat]
           /\ Reasons \in Nat
           /\ Reasons' = Reasons + (IF key # "claimed" /\ yes THEN 1 ELSE 0)
           /\ excuses'.claimed = excuses.claimed + (IF key = "claimed" /\ yes THEN 1 ELSE 0)
<1>1. /\ excuses.stored \in Nat /\ excuses.raced \in Nat /\ excuses.claimed \in Nat
      /\ excuses \in [stored : Nat, raced : Nat, claimed : Nat]
  BY DEF IdempotencyIInv
<1>2. CASE yes
  BY <1>1, <1>2 DEF Excuse, Reasons
<1>3. CASE ~yes
  BY <1>1, <1>3 DEF Excuse, Reasons
<1>4. QED
  BY <1>2, <1>3

(* The request goes where it goes.                                         *)
GoesTo(p, at) == Moved(p) /\ HasFields(request'[p], {"at"}) /\ request'[p].at = at

(* A request that goes somewhere leaves the shape of all as it is.         *)
LEMMA RequestsKeep ==
    ASSUME IdempotencyIInv, NEW p \in Requests, NEW at, GoesTo(p, at)
    PROVE  RequestsAreFunction' /\ \A q \in Requests : HasFields(request'[q], {"at"})
  BY DEF IdempotencyIInv, GoesTo, Moved

(* The request is answered.                                                *)
LEMMA Answering ==
    ASSUME IdempotencyIInv, NEW p \in Requests, Answered(p)
    PROVE  GoesTo(p, "free")
  BY AnsweredMoves DEF IdempotencyIInv, GoesTo, Free, HasFields

(* The request goes on to its next round trip.                             *)
LEMMA Going ==
    ASSUME IdempotencyIInv, NEW p \in Requests, NEW where,
           request' = [request EXCEPT ![p].at = where]
    PROVE  GoesTo(p, where)
  BY GoesOnMoves DEF IdempotencyIInv, GoesTo

(* The request begins.                                                     *)
LEMMA Beginning ==
    ASSUME IdempotencyIInv, NEW p \in Requests, NEW where, Begin(p, [at |-> where])
    PROVE  GoesTo(p, where) /\ request[p].at = "free"
<1>1. HasFields([at |-> where], {"at"}) /\ [at |-> where].at = where
  BY DEF HasFields
<1>2. QED
  BY <1>1, BeginMoves DEF IdempotencyIInv, GoesTo

(* The two halves of the invariant.                                        *)
StoredHalf ==
    /\ stored \in {"none", "response", "corrupt"}
    /\ handled \in Nat
    /\ handled + Cardinality(Calling) <= Reasons + StoredAllows

ClaimHalf ==
    /\ claimed \in {"none", "pending", "status"}
    /\ deduplicated \in Nat
    /\ deduplicated + Cardinality(Claiming) <= excuses.claimed + ClaimAllows

(* A step of the middleware leaves the half of request_dedup alone.        *)
LEMMA MiddlewareStep ==
    ASSUME IdempotencyIInv, NEW p \in Requests, NEW at, GoesTo(p, at),
           request[p].at # "handler", at # "handler",
           UNCHANGED Dedup, NEW key \in {"stored", "raced"}, NEW yes \in BOOLEAN, Excuse(key, yes),
           StoredHalf'
    PROVE  IdempotencyIInv'
<1>1. p \notin Claiming /\ p \notin Claiming'
  BY DEF GoesTo, Claiming
<1>2. Cardinality(Claiming') = Cardinality(Claiming)
  BY <1>1, CallsMove DEF GoesTo
<1>3. excuses' \in [stored : Nat, raced : Nat, claimed : Nat] /\ excuses'.claimed = excuses.claimed
  BY ExcuseCounts DEF IdempotencyIInv
<1>4. ClaimHalf'
  BY <1>2, <1>3 DEF IdempotencyIInv, ClaimHalf, ClaimAllows, Dedup, IdempotencyTypeOK
<1>5. QED
  BY <1>3, <1>4, RequestsKeep DEF IdempotencyIInv, IdempotencyTypeOK, StoredHalf, ClaimHalf

(* And the other way round.                                                *)
LEMMA DedupStep ==
    ASSUME IdempotencyIInv, NEW p \in Requests, NEW at, GoesTo(p, at),
           request[p].at \notin {"pass", "spoilt", "process", "store"},
           at \notin {"pass", "spoilt", "process", "store"},
           UNCHANGED Middleware, NEW yes \in BOOLEAN, Excuse("claimed", yes), ClaimHalf'
    PROVE  IdempotencyIInv'
<1>1. p \notin Calling /\ p \notin Calling' /\ p \notin Handling /\ p \notin Handling'
  BY DEF GoesTo, Calling, Handling
<1>2. /\ Cardinality(Calling') = Cardinality(Calling)
      /\ \A q \in Requests : q # p => (q \in Handling' <=> q \in Handling)
  BY <1>1, CallsMove DEF GoesTo
<1>3. Handling' = Handling
  BY <1>1, <1>2 DEF Handling
<1>4. excuses' \in [stored : Nat, raced : Nat, claimed : Nat] /\ Reasons' = Reasons
  BY ExcuseCounts DEF IdempotencyIInv
<1>5. StoredHalf'
  BY <1>2, <1>3, <1>4 DEF IdempotencyIInv, StoredHalf, StoredAllows, Middleware, IdempotencyTypeOK
<1>6. QED
  BY <1>4, <1>5, RequestsKeep DEF IdempotencyIInv, IdempotencyTypeOK, StoredHalf, ClaimHalf

(* LookUp: a second call for the key has a reason.                         *)
LEMMA LookUpInv ==
    ASSUME IdempotencyIInv, NEW p \in Requests, NEW reply, LookUp(p, reply)
    PROVE  IdempotencyIInv'
<1> DEFINE at == IF Raised(reply) THEN "pass" ELSE IF stored = "corrupt" THEN "spoilt" ELSE "process"
           faulty == Raised(reply) \/ stored = "corrupt"
           key == IF faulty THEN "stored" ELSE "raced"
           yes == faulty \/ BeingHandled({"process", "store"})
<1>1. /\ Begin(p, [at |-> at]) /\ Excuse(key, yes) /\ UNCHANGED Dedup
      /\ handled' = handled /\ stored' = stored
      /\ Raised(reply) \/ stored # "response"
  BY DEF LookUp, Middleware
<1>2. GoesTo(p, at) /\ request[p].at = "free" /\ yes \in BOOLEAN /\ key \in {"stored", "raced"}
  BY <1>1, Beginning
<1>3. /\ p \notin Calling /\ p \in Calling' /\ p \notin Handling
      /\ p \in Handling' <=> ~faulty
  BY <1>2 DEF GoesTo, Calling, Handling
<1>4. /\ Cardinality(Calling) \in Nat /\ Cardinality(Calling') = Cardinality(Calling) + 1
      /\ \A q \in Requests : q # p => (q \in Handling' <=> q \in Handling)
  BY <1>2, <1>3, CallsMove DEF GoesTo
<1>5. yes <=> faulty \/ Handling # {}
  BY DEF BeingHandled, Handling
<1>6. Reasons' = Reasons + (IF yes THEN 1 ELSE 0) /\ Reasons \in Nat
  BY <1>1, <1>2, ExcuseCounts
<1>7. /\ faulty => yes /\ StoredAllows' = StoredAllows
      /\ ~faulty => StoredAllows' = 1
      /\ ~yes => StoredAllows = 0
      /\ StoredAllows \in 0 .. 1
  <2>1. faulty => Handling' = Handling
    BY <1>3, <1>4 DEF Handling
  <2>2. stored \in {"none", "response", "corrupt"}
    BY DEF IdempotencyIInv, IdempotencyTypeOK
  <2>3. QED
    BY <1>1, <1>3, <1>5, <2>1, <2>2 DEF StoredAllows
<1>8. handled \in Nat /\ handled + Cardinality(Calling) <= Reasons + StoredAllows
  BY DEF IdempotencyIInv
<1>9. handled' + Cardinality(Calling') <= Reasons' + StoredAllows'
  <2>1. CASE faulty
    BY <1>1, <1>4, <1>6, <1>7, <1>8, <2>1
  <2>2. CASE ~faulty /\ yes
    BY <1>1, <1>4, <1>6, <1>7, <1>8, <2>2
  <2>3. CASE ~faulty /\ ~yes
    BY <1>1, <1>4, <1>6, <1>7, <1>8, <2>3
  <2>4. QED
    BY <2>1, <2>2, <2>3
<1>10. StoredHalf'
  BY <1>1, <1>9 DEF StoredHalf, IdempotencyIInv, IdempotencyTypeOK
<1>11. QED
  BY <1>1, <1>2, <1>10, MiddlewareStep

(* The DELETE of a spoilt entry: the request goes on to the call it has    *)
(* its reason for, or ends without it.                                     *)
LEMMA DeleteSpoiltInv ==
    ASSUME IdempotencyIInv, NEW p \in Requests, NEW reply, DeleteSpoilt(p, reply)
    PROVE  IdempotencyIInv'
<1>1. /\ request[p].at = "spoilt" /\ handled' = handled /\ UNCHANGED Dedup /\ excuses' = excuses
      /\ stored' \in {"none", stored}
      /\ IF Raised(reply) THEN Answered(p) ELSE request' = [request EXCEPT ![p].at = "process"]
  BY DEF DeleteSpoilt, Reached, Proceed
<1>2. PICK at \in {"process", "free"} : GoesTo(p, at)
  BY <1>1, Answering, Going
<1>3. /\ p \in Calling /\ (p \in Calling' <=> at = "process")
      /\ p \notin Handling /\ (p \in Handling' <=> at = "process")
  BY <1>1, <1>2 DEF GoesTo, Calling, Handling
<1>4. /\ Cardinality(Calling') \in Nat
      /\ Cardinality(Calling) = Cardinality(Calling') + (IF at = "process" THEN 0 ELSE 1)
  BY <1>2, <1>3, CallsMove DEF GoesTo
<1>5. /\ StoredAllows \in 0 .. 1 /\ StoredAllows' \in 0 .. 1
      /\ at = "process" => StoredAllows' = 1
  BY <1>3 DEF StoredAllows
<1>6. handled \in Nat /\ handled + Cardinality(Calling) <= Reasons + StoredAllows
      /\ Reasons' = Reasons /\ Reasons \in Nat
  BY <1>1 DEF IdempotencyIInv, Reasons
<1>7. handled' + Cardinality(Calling') <= Reasons' + StoredAllows'
  <2>1. CASE at = "process"
    BY <1>1, <1>4, <1>5, <1>6, <2>1
  <2>2. CASE at # "process"
    BY <1>1, <1>4, <1>5, <1>6, <2>2
  <2>3. QED
    BY <2>1, <2>2
<1>8. StoredHalf' /\ Excuse("stored", FALSE)
  BY <1>1, <1>7 DEF StoredHalf, IdempotencyIInv, IdempotencyTypeOK, Excuse
<1>9. QED
  BY <1>1, <1>2, <1>8, MiddlewareStep

(* call_next: a handler that raises gives the next request its reason.     *)
LEMMA CallNextInv ==
    ASSUME IdempotencyIInv, NEW p \in Requests, NEW responds \in BOOLEAN, CallNext(p, responds)
    PROVE  IdempotencyIInv'
<1>1. /\ request[p].at \in {"pass", "process"} /\ handled' = handled + 1
      /\ Excuse("stored", ~responds) /\ stored' = stored /\ UNCHANGED Dedup
      /\ IF responds /\ request[p].at = "process" THEN request' = [request EXCEPT ![p].at = "store"]
         ELSE Answered(p)
  BY DEF CallNext, Reached
<1>2. PICK at \in {"store", "free"} :
         GoesTo(p, at) /\ (at = "store" <=> responds /\ request[p].at = "process")
  BY <1>1, Answering, Going
<1>3. p \in Calling /\ p \notin Calling'
  BY <1>1, <1>2 DEF GoesTo, Calling
<1>4. /\ Cardinality(Calling') \in Nat /\ Cardinality(Calling) = Cardinality(Calling') + 1
      /\ \A q \in Requests : q # p => (q \in Handling' <=> q \in Handling)
  BY <1>2, <1>3, CallsMove DEF GoesTo
<1>5. Reasons' = Reasons + (IF ~responds THEN 1 ELSE 0) /\ Reasons \in Nat
  BY <1>1, ExcuseCounts DEF IdempotencyIInv
<1>6. /\ responds => StoredAllows' = StoredAllows
      /\ StoredAllows \in 0 .. 1 /\ StoredAllows' \in 0 .. 1
  <2>1. responds => Handling' = Handling
    BY <1>1, <1>2, <1>4 DEF Handling, GoesTo
  <2>2. QED
    BY <1>1, <2>1 DEF StoredAllows
<1>7. handled \in Nat /\ handled + Cardinality(Calling) <= Reasons + StoredAllows
  BY DEF IdempotencyIInv
<1>8. handled' + Cardinality(Calling') <= Reasons' + StoredAllows'
  <2>1. CASE responds
    BY <1>1, <1>4, <1>5, <1>6, <1>7, <2>1
  <2>2. CASE ~responds
    BY <1>1, <1>4, <1>5, <1>6, <1>7, <2>2
  <2>3. QED
    BY <2>1, <2>2
<1>9. StoredHalf'
  BY <1>1, <1>7, <1>8 DEF StoredHalf, IdempotencyIInv, IdempotencyTypeOK
<1>10. QED
  BY <1>1, <1>2, <1>9, MiddlewareStep

(* SETEX keeps the response, or gives the next request its reason.         *)
LEMMA StoreResponseInv ==
    ASSUME IdempotencyIInv, NEW p \in Requests, NEW reply, StoreResponse(p, reply)
    PROVE  IdempotencyIInv'
<1>1. /\ request[p].at = "store" /\ handled' = handled
      /\ Excuse("stored", Raised(reply)) /\ UNCHANGED Dedup
      /\ stored' = IF Applied(reply) THEN "response" ELSE stored
      /\ GoesTo(p, "free")
  BY Answering DEF StoreResponse, Reached
<1>2. Cardinality(Calling') = Cardinality(Calling) /\ Cardinality(Calling) \in Nat
  <2>1. Moved(p) /\ p \notin Calling /\ p \notin Calling'
    BY <1>1 DEF GoesTo, Calling
  <2>2. PICK n, m : n = Cardinality(Calling) /\ m = Cardinality(Calling')
    OBVIOUS
  <2>3. n \in Nat /\ m = n + 0 - 0
    BY <2>1, <2>2, CallsMove
  <2>4. QED
    BY <2>2, <2>3
<1>3. Raised(reply) \in BOOLEAN /\ (~Raised(reply) => Applied(reply))
  BY DEF Raised, Applied
<1>4. Reasons' = Reasons + (IF Raised(reply) THEN 1 ELSE 0) /\ Reasons \in Nat
  BY <1>1, <1>3, ExcuseCounts DEF IdempotencyIInv
<1>5. /\ ~Raised(reply) => StoredAllows' = 1
      /\ StoredAllows \in 0 .. 1 /\ StoredAllows' \in 0 .. 1
  BY <1>1, <1>3 DEF StoredAllows
<1>6. handled \in Nat /\ handled + Cardinality(Calling) <= Reasons + StoredAllows
  BY DEF IdempotencyIInv
<1>7. handled' + Cardinality(Calling') <= Reasons' + StoredAllows'
  <2>1. CASE Raised(reply)
    BY <1>1, <1>2, <1>4, <1>5, <1>6, <2>1
  <2>2. CASE ~Raised(reply)
    BY <1>1, <1>2, <1>4, <1>5, <1>6, <2>2
  <2>3. QED
    BY <2>1, <2>2
<1>8. StoredHalf'
  BY <1>1, <1>7 DEF StoredHalf, IdempotencyIInv, IdempotencyTypeOK
<1>9. QED
  BY <1>1, <1>3, <1>8, MiddlewareStep

(* SET NX: one request has the claim, or Redis did not answer.             *)
LEMMA ClaimKeyInv ==
    ASSUME IdempotencyIInv, NEW p \in Requests, NEW reply, ClaimKey(p, reply)
    PROVE  IdempotencyIInv'
<1>1. /\ UNCHANGED <<deduplicated, Middleware>> /\ Excuse("claimed", Raised(reply))
      /\ claimed' = IF Applied(reply) /\ claimed = "none" THEN "pending" ELSE claimed
      /\ IF Raised(reply) \/ claimed = "none" THEN Begin(p, [at |-> "handler"])
         ELSE Begin(p, [at |-> "seen"])
  BY DEF ClaimKey
<1>2. PICK at \in {"handler", "seen"} :
         /\ GoesTo(p, at) /\ request[p].at = "free"
         /\ at = "handler" <=> Raised(reply) \/ claimed = "none"
  BY <1>1, Beginning
<1>3. /\ Cardinality(Claiming') = Cardinality(Claiming) + (IF at = "handler" THEN 1 ELSE 0)
      /\ Cardinality(Claiming) \in Nat
  <2>1. p \notin Claiming /\ (p \in Claiming' <=> at = "handler")
    BY <1>2 DEF GoesTo, Claiming
  <2>2. QED
    BY <1>2, <2>1, CallsMove DEF GoesTo
<1>4. Raised(reply) \in BOOLEAN /\ (~Raised(reply) => Applied(reply))
  BY DEF Raised, Applied
<1>5. excuses'.claimed = excuses.claimed + (IF Raised(reply) THEN 1 ELSE 0) /\ excuses.claimed \in Nat
  BY <1>1, <1>4, ExcuseCounts DEF IdempotencyIInv
<1>6. /\ ClaimAllows \in 0 .. 1 /\ ClaimAllows' \in 0 .. 1 /\ ClaimAllows <= ClaimAllows'
      /\ at = "handler" /\ ~Raised(reply) => ClaimAllows = 0 /\ ClaimAllows' = 1
  BY <1>1, <1>2, <1>4 DEF ClaimAllows
<1>7. deduplicated \in Nat /\ deduplicated + Cardinality(Claiming) <= excuses.claimed + ClaimAllows
  BY DEF IdempotencyIInv
<1>8. deduplicated' + Cardinality(Claiming') <= excuses'.claimed + ClaimAllows'
  <2>1. CASE Raised(reply)
    BY <1>1, <1>3, <1>5, <1>6, <1>7, <2>1
  <2>2. CASE ~Raised(reply)
    BY <1>1, <1>3, <1>5, <1>6, <1>7, <2>2
  <2>3. QED
    BY <2>1, <2>2
<1>9. ClaimHalf'
  BY <1>1, <1>8 DEF ClaimHalf, IdempotencyIInv, IdempotencyTypeOK
<1>10. QED
  BY <1>1, <1>2, <1>4, <1>9, DedupStep

(* The other steps around the handler.                                     *)
LEMMA ClaimedInv ==
    ASSUME IdempotencyIInv, NEW p \in Requests, NEW reply, NEW responds,
           ReadClaim(p, reply) \/ RunHandler(p, responds) \/ StoreStatus(p, reply)
    PROVE  IdempotencyIInv'
<1>1. Raised(reply) \in BOOLEAN /\ FALSE \in BOOLEAN
  BY DEF Raised
<1>2. CASE ReadClaim(p, reply)
  <2>1. /\ request[p].at = "seen" /\ UNCHANGED <<Dedup, Middleware>>
        /\ Excuse("claimed", Raised(reply))
    BY <1>2 DEF ReadClaim, Reached
  <2>2. PICK at \in {"handler", "free"} : GoesTo(p, at) /\ (at = "handler" <=> Raised(reply))
    BY <1>2, Answering, Going DEF ReadClaim
  <2>3. /\ Cardinality(Claiming') = Cardinality(Claiming) + (IF Raised(reply) THEN 1 ELSE 0)
        /\ Cardinality(Claiming) \in Nat
    <3>1. p \notin Claiming /\ (p \in Claiming' <=> Raised(reply))
      BY <2>1, <2>2 DEF GoesTo, Claiming
    <3>2. QED
      BY <2>2, <3>1, CallsMove DEF GoesTo
  <2>4. excuses'.claimed = excuses.claimed + (IF Raised(reply) THEN 1 ELSE 0) /\ excuses.claimed \in Nat
    BY <1>1, <2>1, ExcuseCounts DEF IdempotencyIInv
  <2>5. /\ deduplicated \in Nat /\ deduplicated' = deduplicated /\ claimed' = claimed
        /\ deduplicated + Cardinality(Claiming) <= excuses.claimed + ClaimAllows
        /\ ClaimAllows' = ClaimAllows /\ ClaimAllows \in 0 .. 1
    BY <2>1 DEF IdempotencyIInv, ClaimAllows, Dedup
  <2>6. deduplicated' + Cardinality(Claiming') <= excuses'.claimed + ClaimAllows'
    <3>1. CASE Raised(reply)
      BY <2>3, <2>4, <2>5, <3>1
    <3>2. CASE ~Raised(reply)
      BY <2>3, <2>4, <2>5, <3>2
    <3>3. QED
      BY <3>1, <3>2
  <2>7. ClaimHalf'
    BY <2>5, <2>6 DEF ClaimHalf, IdempotencyIInv, IdempotencyTypeOK
  <2>8. QED
    BY <1>1, <2>1, <2>2, <2>7, DedupStep
<1>3. CASE RunHandler(p, responds) \/ StoreStatus(p, reply)
  <2>1. /\ request[p].at \in {"handler", "status"} /\ UNCHANGED <<Middleware, excuses>>
        /\ \/ request[p].at = "handler" /\ deduplicated' = deduplicated + 1 /\ claimed' = claimed
           \/ request[p].at = "status" /\ deduplicated' = deduplicated /\ claimed' \in {claimed, "status"}
        /\ Answered(p) \/ request' = [request EXCEPT ![p].at = "status"]
    BY <1>3 DEF RunHandler, StoreStatus, Reached
  <2>2. PICK at \in {"status", "free"} : GoesTo(p, at)
    BY <2>1, Answering, Going
  <2>3. /\ Cardinality(Claiming) =
              Cardinality(Claiming') + (IF request[p].at = "handler" THEN 1 ELSE 0)
        /\ Cardinality(Claiming') \in Nat
    <3>1. p \notin Claiming' /\ (p \in Claiming <=> request[p].at = "handler")
      BY <2>1, <2>2 DEF GoesTo, Claiming
    <3>2. QED
      BY <2>2, <3>1, CallsMove DEF GoesTo
  <2>4. /\ deduplicated \in Nat /\ excuses.claimed \in Nat
        /\ deduplicated + Cardinality(Claiming) <= excuses.claimed + ClaimAllows
    BY DEF IdempotencyIInv
  <2>5. ClaimAllows \in 0 .. 1 /\ ClaimAllows' \in 0 .. 1 /\ ClaimAllows <= ClaimAllows'
    BY <2>1 DEF ClaimAllows
  <2>6. deduplicated' \in Nat
        /\ deduplicated' + Cardinality(Claiming') <= excuses'.claimed + ClaimAllows'
    <3>1. CASE request[p].at = "handler"
      BY <2>1, <2>3, <2>4, <2>5, <3>1
    <3>2. CASE request[p].at = "status"
      BY <2>1, <2>3, <2>4, <2>5, <3>2
    <3>3. QED
      BY <2>1, <3>1, <3>2
  <2>7. ClaimHalf'
    BY <2>1, <2>6 DEF ClaimHalf, IdempotencyIInv, IdempotencyTypeOK
  <2>8. Excuse("claimed", FALSE)
    BY <2>1 DEF Excuse
  <2>9. QED
    BY <1>1, <2>1, <2>2, <2>7, <2>8, DedupStep
<1>4. QED
  BY <1>2, <1>3

(* An entry that goes is a reason of its own; one that is spoilt still     *)
(* allows no call.                                                         *)
LEMMA ExpiryInv ==
    ASSUME IdempotencyIInv, (\E next \in {"none", "corrupt"} : LoseStored(next)) \/ ExpireClaim
    PROVE  IdempotencyIInv'
<1>1. /\ UNCHANGED <<request, handled, deduplicated>>
      /\ Calling' = Calling /\ Claiming' = Claiming /\ Handling' = Handling
  BY DEF LoseStored, ExpireClaim, Dedup, Middleware, Calling, Claiming, Handling
<1>2. RequestsAreFunction' /\ \A p \in Requests : HasFields(request'[p], {"at"})
  BY <1>1 DEF IdempotencyIInv, RequestsAreFunction
<1>3. PICK calling, claims : calling = Cardinality(Calling) /\ claims = Cardinality(Claiming)
  OBVIOUS
<1>4. calling \in Nat /\ claims \in Nat
  BY <1>3, HandlersAssumption, FS_Subset, FS_CardinalityType DEF Calling, Claiming
<1>5. /\ handled \in Nat /\ deduplicated \in Nat /\ Reasons \in Nat /\ excuses.claimed \in Nat
      /\ handled + calling <= Reasons + StoredAllows
      /\ deduplicated + claims <= excuses.claimed + ClaimAllows
  BY <1>3 DEF IdempotencyIInv, Reasons
<1>6. /\ StoredAllows \in 0 .. 1 /\ StoredAllows' \in 0 .. 1
      /\ ClaimAllows \in 0 .. 1 /\ ClaimAllows' \in 0 .. 1
  BY DEF StoredAllows, ClaimAllows
<1>7. ASSUME NEW next \in {"none", "corrupt"}, LoseStored(next) PROVE IdempotencyIInv'
  <2>1. /\ Excuse("stored", next = "none") /\ stored = "response" /\ stored' = next
        /\ UNCHANGED <<claimed, deduplicated>>
    BY <1>7 DEF LoseStored, Dedup
  <2>2. /\ excuses' \in [stored : Nat, raced : Nat, claimed : Nat]
        /\ Reasons' = Reasons + (IF next = "none" THEN 1 ELSE 0)
        /\ excuses'.claimed = excuses.claimed
    <3>1. /\ excuses.stored \in Nat /\ excuses.raced \in Nat /\ excuses.claimed \in Nat
          /\ excuses \in [stored : Nat, raced : Nat, claimed : Nat]
      BY DEF IdempotencyIInv
    <3>2. CASE next = "none"
      BY <2>1, <3>1, <3>2 DEF Excuse, Reasons
    <3>3. CASE next = "corrupt"
      BY <2>1, <3>1, <3>3 DEF Excuse, Reasons
    <3>4. QED
      BY <1>7, <3>2, <3>3
  <2>3. ClaimAllows' = ClaimAllows /\ (next = "corrupt" => StoredAllows' = 1)
    BY <2>1 DEF ClaimAllows, StoredAllows
  <2>4. handled' + calling <= Reasons' + StoredAllows'
        /\ deduplicated' + claims <= excuses'.claimed + ClaimAllows'
    <3>1. CASE next = "none"
      <4>1. Reasons' = Reasons + 1
        BY <2>2, <3>1
      <4>2. /\ handled' = handled /\ deduplicated' = deduplicated
            /\ excuses'.claimed = excuses.claimed /\ ClaimAllows' = ClaimAllows
        BY <1>1, <2>2, <2>3
      <4>3. handled' + calling <= Reasons' + StoredAllows'
        <5>1. handled + calling <= Reasons + 1
          BY <1>4, <1>5, <1>6
        <5>2. \A h, c, r \in Nat, a \in 0 .. 1 : h + c <= r + 1 => h + c <= r + 1 + a
          OBVIOUS
        <5>3. handled + calling <= Reasons + 1 + StoredAllows'
          BY <1>4, <1>5, <1>6, <5>1, <5>2
        <5>4. QED
          BY <4>1, <4>2, <5>3
      <4>4. deduplicated' + claims <= excuses'.claimed + ClaimAllows'
        BY <1>5, <4>2
      <4>5. QED
        BY <4>3, <4>4
    <3>2. CASE next = "corrupt"
      <4>1. StoredAllows = 1
        BY <2>1 DEF StoredAllows
      <4>2. QED
        BY <1>1, <1>4, <1>5, <1>6, <2>2, <2>3, <3>2, <4>1
    <3>3. QED
      BY <1>7, <3>1, <3>2
  <2>5. QED
    BY <1>1, <1>2, <1>3, <1>7, <2>1, <2>2, <2>4 DEF IdempotencyIInv, IdempotencyTypeOK
<1>8. CASE ExpireClaim
  <2>1. Excuse("claimed", TRUE) /\ claimed' = "none" /\ stored' = stored
    BY <1>8 DEF ExpireClaim, Middleware
  <2>2. /\ excuses' \in [stored : Nat, raced : Nat, claimed : Nat]
        /\ excuses'.claimed = excuses.claimed + 1 /\ Reasons' = Reasons
    <3>1. /\ excuses.stored \in Nat /\ excuses.raced \in Nat /\ excuses.claimed \in Nat
          /\ excuses \in [stored : Nat, raced : Nat, claimed : Nat]
      BY DEF IdempotencyIInv
    <3>2. excuses' = [excuses EXCEPT !["claimed"] = @ + 1]
      BY <2>1 DEF Excuse
    <3>3. QED
      BY <3>1, <3>2 DEF Reasons
  <2>3. StoredAllows' = StoredAllows
    BY <1>1, <2>1 DEF StoredAllows
  <2>4. handled' + calling <= Reasons' + StoredAllows'
        /\ deduplicated' + claims <= excuses'.claimed + ClaimAllows'
    BY <1>1, <1>4, <1>5, <1>6, <2>2, <2>3
  <2>5. QED
    BY <1>1, <1>2, <1>3, <2>1, <2>2, <2>4 DEF IdempotencyIInv, IdempotencyTypeOK
<1>9. QED
  BY <1>7, <1>8

(* Every step keeps the invariant.                                         *)
LEMMA IdempotencyNextInv ==
    ASSUME IdempotencyIInv, [IdempotencyNext]_idempotencyVars
    PROVE  IdempotencyIInv'
<1>1. ASSUME NEW p \in Requests, Repeatable(p) PROVE IdempotencyIInv'
  <2>1. ASSUME NEW responds \in BOOLEAN, CallNext(p, responds) PROVE IdempotencyIInv'
    BY <2>1, CallNextInv
  <2>2. ASSUME NEW responds, RunHandler(p, responds) PROVE IdempotencyIInv'
    BY <2>2, ClaimedInv
  <2>3. ASSUME NEW reply, LookUp(p, reply) PROVE IdempotencyIInv'
    BY <2>3, LookUpInv
  <2>4. ASSUME NEW reply, StoreResponse(p, reply) PROVE IdempotencyIInv'
    BY <2>4, StoreResponseInv
  <2>5. ASSUME NEW reply, ClaimKey(p, reply) PROVE IdempotencyIInv'
    BY <2>5, ClaimKeyInv
  <2>6. ASSUME NEW reply, ReadClaim(p, reply) \/ StoreStatus(p, reply) PROVE IdempotencyIInv'
    BY <2>6, ClaimedInv
  <2>7. ASSUME NEW reply, DeleteSpoilt(p, reply) PROVE IdempotencyIInv'
    BY <2>7, DeleteSpoiltInv
  <2>8. QED
    BY <1>1, <2>1, <2>2, <2>3, <2>4, <2>5, <2>6, <2>7 DEF Repeatable
<1>2. CASE UNCHANGED idempotencyVars
  <2>1. UNCHANGED <<stored, claimed, handled, deduplicated, excuses, request>>
    BY <1>2 DEF idempotencyVars
  <2>2. /\ Calling' = Calling /\ Claiming' = Claiming
        /\ StoredAllows' = StoredAllows /\ ClaimAllows' = ClaimAllows /\ Reasons' = Reasons
    BY <2>1 DEF Calling, Claiming, StoredAllows, ClaimAllows, Handling, Reasons
  <2>3. QED
    BY <2>1, <2>2 DEF IdempotencyIInv, IdempotencyTypeOK, RequestsAreFunction
<1>3. QED
  BY <1>1, <1>2, ExpiryInv DEF IdempotencyNext

(* At first no request has called the handler.                             *)
LEMMA IdempotencyInitInv == IdempotencyInit => IdempotencyIInv
<1> SUFFICES ASSUME IdempotencyInit PROVE IdempotencyIInv
  OBVIOUS
<1>1. RequestsAreFunction /\ \A p \in Requests : request[p] = Free
  BY DEF IdempotencyInit, NoRequests, RequestsAreFunction
<1>2. Calling = {} /\ Claiming = {} /\ Handling = {} /\ Cardinality({}) = 0
  BY <1>1, FS_EmptySet DEF Calling, Claiming, Handling, Free
<1>3. \A p \in Requests : HasFields(request[p], {"at"})
  BY <1>1 DEF HasFields, Free
<1>4. StoredAllows = 0 /\ ClaimAllows = 0
  BY <1>2 DEF IdempotencyInit, StoredAllows, ClaimAllows
<1>5. QED
  BY <1>1, <1>2, <1>3, <1>4 DEF IdempotencyInit, IdempotencyIInv, IdempotencyTypeOK, Reasons

(* No more calls than there were reasons for.                              *)
LEMMA IdempotencyHolds == IdempotencyIInv => RepeatedForAReason
<1> SUFFICES ASSUME IdempotencyIInv PROVE RepeatedForAReason
  OBVIOUS
<1>1. PICK calling, claims : calling = Cardinality(Calling) /\ claims = Cardinality(Claiming)
  OBVIOUS
<1>2. calling \in Nat /\ claims \in Nat
  BY <1>1, HandlersAssumption, FS_Subset, FS_CardinalityType DEF Calling, Claiming
<1>3. StoredAllows \in 0 .. 1 /\ ClaimAllows \in 0 .. 1
  BY DEF StoredAllows, ClaimAllows
<1>4. /\ handled \in Nat /\ deduplicated \in Nat /\ excuses.claimed \in Nat
      /\ excuses.stored \in Nat /\ excuses.raced \in Nat
      /\ handled + calling <= excuses.stored + excuses.raced + StoredAllows
      /\ deduplicated + claims <= excuses.claimed + ClaimAllows
  BY <1>1 DEF IdempotencyIInv, Reasons
<1>5. QED
  BY <1>2, <1>3, <1>4 DEF RepeatedForAReason

(* However many requests with one key race: request_dedup calls the        *)
(* handler once, and once more for each fault there has been; so does the  *)
(* middleware, which also calls it once more for each race it let pass.    *)
THEOREM IdempotencyRepeatedForAReason == IdempotencySpec => []RepeatedForAReason
<1>1. IdempotencyInit => IdempotencyIInv
  BY IdempotencyInitInv
<1>2. IdempotencyIInv /\ [IdempotencyNext]_idempotencyVars => IdempotencyIInv'
  BY IdempotencyNextInv
<1>3. IdempotencyIInv => RepeatedForAReason
  BY IdempotencyHolds
<1>4. QED
  BY <1>1, <1>2, <1>3, PTL DEF IdempotencySpec

-----------------------------------------------------------------------------
(* The tenant service.                                                     *)

(* The requests between the check of invite_member and its commit.         *)
Invited == {p \in Requests : request[p].at = "invite"}

MembersFit ==
    /\ IsFiniteSet(Members)
    /\ peak \in Nat /\ elsewhere \in Nat
    /\ Cardinality(Members) + Cardinality(Invited) <= peak + elsewhere + Cardinality(Requests) - 1
    /\ org = {} => Members = {} /\ Invited = {}

RowFits(row) ==
    /\ HasFields(row, {"plan", "used", "active"})
    /\ row.plan \in Plans /\ row.plan.maxUsers <= peak
    /\ row.used \in Nat /\ row.used <= reported

RowsFit == reported \in Nat /\ \A row \in org : RowFits(row)

(* What a request has read is no more than there was.                      *)
AsksFairly(p) ==
    /\ request[p].at = "create" => request[p].plan \in Plans /\ request[p].plan.maxUsers > 0
    /\ request[p].at = "used" => request[p].used \in Nat /\ request[p].used <= reported

TenancyIInv ==
    /\ RequestsAreFunction
    /\ MembersFit
    /\ RowsFit
    /\ \A p \in Requests : AsksFairly(p)

(* The invitations when one request moves on.                              *)
LEMMA InvitedMove ==
    ASSUME NEW p \in Requests, Moved(p)
    PROVE  /\ Cardinality(Invited) \in Nat /\ Cardinality(Invited') \in Nat
           /\ Cardinality(Invited') = Cardinality(Invited)
                 + (IF request'[p].at = "invite" THEN 1 ELSE 0)
                 - (IF request[p].at = "invite" THEN 1 ELSE 0)
           /\ request'[p].at # "invite" /\ Invited = {} => Invited' = {}
<1>1. Invited \in SUBSET Requests /\ Invited' \in SUBSET Requests
  BY DEF Invited
<1>2. \A q \in Requests : q # p => (q \in Invited' <=> q \in Invited)
  BY DEF Moved, Invited
<1>3. PICK S, T : S = Invited /\ T = Invited'
  OBVIOUS
<1>4. /\ Cardinality(S) \in Nat /\ Cardinality(T) \in Nat
      /\ Cardinality(T) = Cardinality(S) + (IF p \in T THEN 1 ELSE 0) - (IF p \in S THEN 1 ELSE 0)
  BY <1>1, <1>2, <1>3, OneMoves
<1>5. /\ p \in S <=> request[p].at = "invite"
      /\ p \in T <=> request'[p].at = "invite"
  BY <1>3 DEF Invited
<1>6. request'[p].at # "invite" /\ Invited = {} => Invited' = {}
  BY <1>2 DEF Invited
<1>7. QED
  BY <1>3, <1>4, <1>5, <1>6

(* What the other requests have read stays fair while reported grows.      *)
LEMMA OthersAskFairly ==
    ASSUME TenancyIInv, NEW p \in Requests, Moved(p), AsksFairly(p)', reported' \in Nat,
           reported <= reported'
    PROVE  RequestsAreFunction' /\ \A q \in Requests : AsksFairly(q)'
<1>1. ASSUME NEW q \in Requests, q # p PROVE AsksFairly(q)'
  <2>1. request'[q] = request[q] /\ AsksFairly(q) /\ reported \in Nat
    BY <1>1 DEF Moved, TenancyIInv, RowsFit
  <2>2. QED
    BY <2>1 DEF AsksFairly
<1>2. QED
  BY <1>1 DEF Moved

(* A request that begins with neither an invitation nor a commitment.      *)
LEMMA TenancyBeginInv ==
    ASSUME TenancyIInv, NEW p \in Requests, NEW task, Begin(p, task), task.at # "invite",
           task.at = "create" => task.plan \in Plans /\ task.plan.maxUsers > 0,
           task.at = "used" => task.used \in Nat /\ task.used <= reported',
           UNCHANGED <<org, role, peak, elsewhere>>, reported' \in Nat, reported <= reported'
    PROVE  TenancyIInv'
<1>1. Moved(p) /\ request'[p] = task /\ request[p].at = "free"
  BY BeginMoves DEF TenancyIInv
<1>2. RequestsAreFunction' /\ \A q \in Requests : AsksFairly(q)'
  BY <1>1, OthersAskFairly DEF AsksFairly
<1>3. MembersFit'
  BY <1>1, InvitedMove DEF TenancyIInv, MembersFit, Members
<1>4. RowsFit'
  <2>1. ASSUME NEW row \in org PROVE RowFits(row)'
    BY DEF TenancyIInv, RowsFit, RowFits
  <2>2. QED
    BY <2>1 DEF RowsFit
<1>5. QED
  BY <1>2, <1>3, <1>4 DEF TenancyIInv

(* An invitation is checked against a limit that was allowed.              *)
LEMMA InviteMemberInv ==
    ASSUME TenancyIInv, NEW p \in Requests, NEW by, NEW user, NEW as, InviteMember(p, by, user, as)
    PROVE  TenancyIInv'
<1> DEFINE task == [at |-> "invite", user |-> user, as |-> as]
<1>1. /\ UNCHANGED <<org, role, peak, elsewhere, reported>>
      /\ \E row \in org : Cardinality(Members) < row.plan.maxUsers
      /\ Moved(p) /\ request'[p] = task
  BY BeginMoves DEF InviteMember, Histories, TenancyIInv
<1>2. AsksFairly(p)' /\ reported' \in Nat /\ reported <= reported'
  BY <1>1 DEF AsksFairly, TenancyIInv, RowsFit
<1>3. RequestsAreFunction' /\ \A q \in Requests : AsksFairly(q)'
  BY <1>1, <1>2, OthersAskFairly
<1>4. MembersFit'
  <2>1. Cardinality(Members) \in Nat /\ Cardinality(Requests) \in Nat
        /\ Cardinality(Invited') \in Nat /\ Cardinality(Invited') <= Cardinality(Requests)
    <3>1. Invited' \in SUBSET Requests
      BY DEF Invited
    <3>2. QED
      BY <3>1, HandlersAssumption, FS_Subset, FS_CardinalityType DEF TenancyIInv, MembersFit
  <2>2. PICK row \in org : Cardinality(Members) < row.plan.maxUsers
    BY <1>1
  <2>3. row.plan.maxUsers <= peak /\ row.plan.maxUsers \in Nat
    BY TenancyAssumption DEF TenancyIInv, RowsFit, RowFits
  <2>4. peak \in Nat /\ elsewhere \in Nat
    BY DEF TenancyIInv, MembersFit
  <2>5. Cardinality(Members) + Cardinality(Invited') <= peak + elsewhere + Cardinality(Requests) - 1
    BY <2>1, <2>2, <2>3, <2>4
  <2>6. QED
    BY <1>1, <2>2, <2>5 DEF TenancyIInv, MembersFit, Members
<1>5. RowsFit'
  BY <1>1 DEF TenancyIInv, RowsFit, RowFits
<1>6. QED
  BY <1>3, <1>4, <1>5 DEF TenancyIInv

(* A new member.                                                           *)
LEMMA MemberAdded ==
    ASSUME MembersFit, NEW user, NEW as, AddMember(user, as)
    PROVE  /\ IsFiniteSet(Members')
           /\ Cardinality(Members') \in Nat /\ Cardinality(Members) \in Nat
           /\ Cardinality(Members') <= Cardinality(Members) + 1
<1>1. Members' = Members \cup {user}
  BY DEF AddMember, Members
<1>2. PICK M : M = Members
  OBVIOUS
<1>3. IsFiniteSet(M)
  BY <1>2 DEF MembersFit
<1>4. /\ IsFiniteSet(M \cup {user}) /\ Cardinality(M \cup {user}) \in Nat /\ Cardinality(M) \in Nat
      /\ Cardinality(M \cup {user}) <= Cardinality(M) + 1
  BY <1>3, FS_AddElement, FS_CardinalityType
<1>5. QED
  BY <1>1, <1>2, <1>4

(* The commits of the handlers of members: an invitation becomes at most   *)
(* one member, and nothing else adds any.                                  *)
LEMMA MemberCommitInv ==
    ASSUME TenancyIInv, NEW p \in Requests, NEW reply,
           CommitInvite(p, reply) \/ CommitRole(p, reply) \/ CommitRemoval(p, reply)
    PROVE  TenancyIInv'
<1>1. Answered(p) /\ UNCHANGED <<org, peak, elsewhere, reported>>
  BY DEF CommitInvite, CommitRole, CommitRemoval, Histories
<1>2. Moved(p) /\ request'[p] = Free
  BY <1>1, AnsweredMoves DEF TenancyIInv
<1>3. RequestsAreFunction' /\ (\A q \in Requests : AsksFairly(q)') /\ RowsFit'
  BY <1>1, <1>2, OthersAskFairly DEF AsksFairly, Free, TenancyIInv, RowsFit, RowFits
<1>4. request'[p].at = "free"
  BY <1>2 DEF Free
<1>5. MembersFit'
  <2>1. CASE request[p].at = "invite" /\ org # {} /\ \E user, as : AddMember(user, as)
    <3>1. /\ Cardinality(Invited) \in Nat /\ Cardinality(Invited') \in Nat
          /\ Cardinality(Invited') = Cardinality(Invited) - 1
      BY <1>2, <1>4, <2>1, InvitedMove
    <3>2. /\ IsFiniteSet(Members') /\ Cardinality(Members') \in Nat /\ Cardinality(Members) \in Nat
          /\ Cardinality(Members') <= Cardinality(Members) + 1
      BY <2>1, MemberAdded DEF TenancyIInv
    <3>3. /\ peak \in Nat /\ elsewhere \in Nat /\ Cardinality(Requests) \in Nat
          /\ Cardinality(Members) + Cardinality(Invited) <= peak + elsewhere + Cardinality(Requests) - 1
      BY HandlersAssumption, FS_CardinalityType DEF TenancyIInv, MembersFit
    <3>4. QED
      BY <1>1, <2>1, <3>1, <3>2, <3>3 DEF MembersFit
  <2>2. CASE Members' \subseteq Members
    <3>1. /\ Cardinality(Invited) \in Nat /\ Cardinality(Invited') \in Nat
          /\ Cardinality(Invited') <= Cardinality(Invited)
          /\ (Invited = {} => Invited' = {})
      BY <1>2, <1>4, InvitedMove
    <3>2. /\ IsFiniteSet(Members') /\ Cardinality(Members') \in Nat /\ Cardinality(Members) \in Nat
          /\ Cardinality(Members') <= Cardinality(Members)
      <4>1. PICK M, N : M = Members /\ N = Members'
        OBVIOUS
      <4>2. IsFiniteSet(M) /\ N \subseteq M
        BY <2>2, <4>1 DEF TenancyIInv, MembersFit
      <4>3. QED
        BY <4>1, <4>2, FS_Subset, FS_CardinalityType
    <3>3. /\ peak \in Nat /\ elsewhere \in Nat /\ Cardinality(Requests) \in Nat
          /\ Cardinality(Members) + Cardinality(Invited) <= peak + elsewhere + Cardinality(Requests) - 1
      BY HandlersAssumption, FS_CardinalityType DEF TenancyIInv, MembersFit
    <3>4. org = {} => Members' = {} /\ Invited' = {}
      BY <2>2, <3>1 DEF TenancyIInv, MembersFit
    <3>5. QED
      BY <1>1, <3>1, <3>2, <3>3, <3>4 DEF MembersFit
  <2>3. CASE CommitInvite(p, reply)
    <3>1. request[p].at = "invite" /\ (role' = role \/ AddMember(request[p].user, request[p].as))
      BY <2>3 DEF CommitInvite, Reached
    <3>2. org # {}
      BY <3>1 DEF TenancyIInv, MembersFit, Invited
    <3>3. QED
      BY <2>1, <2>2, <3>1, <3>2 DEF Members
  <2>4. CASE CommitRole(p, reply) \/ CommitRemoval(p, reply)
    <3>1. Members' \subseteq Members
      BY <2>4 DEF CommitRole, CommitRemoval, Members
    <3>2. QED
      BY <2>2, <3>1
  <2>5. QED
    BY <2>3, <2>4
<1>6. QED
  BY <1>3, <1>5 DEF TenancyIInv

(* The organisation is made with its owner, whom its plan allows.          *)
LEMMA CommitOrgInv ==
    ASSUME TenancyIInv, NEW p \in Requests, NEW reply, CommitOrg(p, reply)
    PROVE  TenancyIInv'
<1> DEFINE r == request[p]
           row == [plan |-> r.plan, used |-> 0, active |-> TRUE]
<1>1. /\ r.at = "create" /\ Answered(p) /\ UNCHANGED <<elsewhere, reported>>
      /\ \/ /\ org = {} /\ org' = {row} /\ role' = [user \in {r.user} |-> "owner"]
            /\ peak' = r.plan.maxUsers
         \/ UNCHANGED <<org, role, peak>>
  BY DEF CommitOrg, Reached
<1>2. Moved(p) /\ request'[p] = Free /\ request'[p].at = "free"
  BY <1>1, AnsweredMoves DEF TenancyIInv, Free
<1>3. RequestsAreFunction' /\ (\A q \in Requests : AsksFairly(q)')
  BY <1>1, <1>2, OthersAskFairly DEF AsksFairly, TenancyIInv, RowsFit
<1>4. r.plan \in Plans /\ r.plan.maxUsers \in Nat /\ r.plan.maxUsers > 0
  BY <1>1, TenancyAssumption DEF TenancyIInv, AsksFairly
<1>5. /\ Cardinality(Invited) \in Nat /\ Cardinality(Invited') = Cardinality(Invited)
      /\ Cardinality(Requests) \in Nat /\ Cardinality(Requests) > 0
      /\ (Invited = {} => Invited' = {})
  <2>1. Cardinality(Requests) # 0 /\ Cardinality(Requests) \in Nat
    BY HandlersAssumption, FS_CardinalityType, FS_EmptySet
  <2>2. QED
    BY <1>1, <1>2, <2>1, InvitedMove
<1>6. CASE UNCHANGED <<org, role, peak>>
  <2>1. MembersFit'
    BY <1>1, <1>5, <1>6 DEF TenancyIInv, MembersFit, Members
  <2>2. RowsFit'
    BY <1>1, <1>6 DEF TenancyIInv, RowsFit, RowFits
  <2>3. QED
    BY <1>3, <2>1, <2>2 DEF TenancyIInv
<1>7. CASE org = {} /\ org' = {row} /\ role' = [user \in {r.user} |-> "owner"]
           /\ peak' = r.plan.maxUsers
  <2>1. Members' = {r.user}
    BY <1>7 DEF Members
  <2>2. PICK u : u = r.user
    OBVIOUS
  <2>3. IsFiniteSet({u}) /\ Cardinality({u}) = 1
    BY FS_Singleton
  <2>4. IsFiniteSet(Members') /\ Cardinality(Members') = 1
    BY <2>1, <2>2, <2>3
  <2>5. Cardinality(Invited) = 0
    BY <1>7, FS_EmptySet DEF TenancyIInv, MembersFit
  <2>6. peak' \in Nat /\ elsewhere' \in Nat /\ elsewhere' = elsewhere
    BY <1>1, <1>4, <1>7 DEF TenancyIInv, MembersFit
  <2>7. Cardinality(Members') + Cardinality(Invited') <= peak' + elsewhere' + Cardinality(Requests) - 1
    BY <1>4, <1>5, <1>7, <2>4, <2>5, <2>6
  <2>8. MembersFit'
    BY <1>7, <2>4, <2>6, <2>7 DEF MembersFit
  <2>9. HasFields(row, {"plan", "used", "active"}) /\ row.plan = r.plan /\ row.used = 0
    BY DEF HasFields
  <2>10. RowsFit'
    BY <1>1, <1>4, <1>7, <2>9 DEF TenancyIInv, RowsFit, RowFits
  <2>11. QED
    BY <1>3, <2>8, <2>10 DEF TenancyIInv
<1>8. QED
  BY <1>1, <1>6, <1>7

(* Steps that write columns of the row: the plan, what was used, nothing.  *)
LEMMA RowWrittenInv ==
    ASSUME TenancyIInv, NEW p \in Requests, NEW reply,
           \/ \E user : \E plan \in Plans : UpdatePlan(p, user, plan, reply)
           \/ CommitUsed(p, reply)
           \/ \E user : ResetMentionsUsed(p, user, reply)
    PROVE  TenancyIInv'
<1>1. /\ UNCHANGED <<role, elsewhere, reported>>
      /\ peak \in Nat /\ elsewhere \in Nat /\ reported \in Nat /\ reported <= reported'
  BY DEF UpdatePlan, CommitUsed, ResetMentionsUsed, Histories, TenancyIInv, MembersFit, RowsFit
<1>2. Moved(p) /\ request'[p] \in {Free, request[p]} /\ (request'[p] = request[p] \/ request[p].at = "used")
  BY AnsweredMoves DEF UpdatePlan, CommitUsed, ResetMentionsUsed, TenancyIInv, Moved,
                       RequestsAreFunction, Reached
<1>3. RequestsAreFunction' /\ (\A q \in Requests : AsksFairly(q)')
  <2>1. AsksFairly(p)'
    BY <1>1, <1>2 DEF AsksFairly, TenancyIInv, Free
  <2>2. QED
    BY <1>1, <1>2, <2>1, OthersAskFairly
<1>4. Cardinality(Invited') = Cardinality(Invited) /\ Cardinality(Invited) \in Nat
      /\ (Invited = {} => Invited' = {})
  <2>1. request'[p].at = "invite" <=> request[p].at = "invite"
    BY <1>2 DEF Free
  <2>2. Invited = {} => request[p].at # "invite"
    BY DEF Invited
  <2>3. QED
    BY <1>2, <2>1, <2>2, InvitedMove
<1>5. peak' \in Nat /\ peak <= peak' /\ (org' = {} => org = {})
  <2>1. \A plan \in Plans : plan.maxUsers \in Nat
    BY TenancyAssumption
  <2>2. CASE \E user : \E plan \in Plans : UpdatePlan(p, user, plan, reply)
    <3>1. PICK plan \in Plans :
             /\ org' = IF Applied(reply) THEN {[row EXCEPT !.plan = plan] : row \in org} ELSE org
             /\ peak' = IF Applied(reply) /\ plan.maxUsers > peak THEN plan.maxUsers ELSE peak
      BY <2>2 DEF UpdatePlan
    <3>2. org' = {} => org = {}
      BY <3>1
    <3>3. QED
      BY <1>1, <2>1, <3>1, <3>2
  <2>3. CASE CommitUsed(p, reply)
    <3>1. peak' = peak
      BY <2>3 DEF CommitUsed, Histories
    <3>2. org' = {} => org = {}
      BY <2>3 DEF CommitUsed
    <3>3. QED
      BY <1>1, <3>1, <3>2
  <2>4. CASE \E user : ResetMentionsUsed(p, user, reply)
    <3>1. peak' = peak
      BY <2>4 DEF ResetMentionsUsed, Histories
    <3>2. org' = {} => org = {}
      BY <2>4 DEF ResetMentionsUsed
    <3>3. QED
      BY <1>1, <3>1, <3>2
  <2>5. QED
    BY <2>2, <2>3, <2>4
<1>6. MembersFit'
  <2>1. Cardinality(Members) \in Nat /\ Cardinality(Requests) \in Nat
    BY HandlersAssumption, FS_CardinalityType DEF TenancyIInv, MembersFit
  <2>2. Cardinality(Members) + Cardinality(Invited) <= peak + elsewhere + Cardinality(Requests) - 1
    BY DEF TenancyIInv, MembersFit
  <2>3. Cardinality(Members) + Cardinality(Invited') <= peak' + elsewhere + Cardinality(Requests) - 1
    BY <1>1, <1>4, <1>5, <2>1, <2>2
  <2>4. QED
    BY <1>1, <1>4, <1>5, <2>3 DEF TenancyIInv, MembersFit, Members
<1>7. ASSUME NEW row \in org' PROVE RowFits(row)'
  <2>1. ASSUME NEW old \in org PROVE RowFits(old)
    BY DEF TenancyIInv, RowsFit
  <2>2. CASE row \in org
    BY <1>1, <1>5, <2>1, <2>2, TenancyAssumption DEF RowFits
  <2>3. ASSUME NEW plan \in Plans, plan.maxUsers <= peak', NEW old \in org,
               row = [old EXCEPT !.plan = plan]
        PROVE  RowFits(row)'
    BY <1>1, <2>1, <2>3 DEF RowFits, HasFields
  <2>4. ASSUME NEW n \in Nat, n <= reported, NEW old \in org, row = [old EXCEPT !.used = n]
        PROVE  RowFits(row)'
    <3>1. HasFields(row, {"plan", "used", "active"}) /\ row.plan = old.plan /\ row.used = n
      BY <2>1, <2>4 DEF RowFits, HasFields
    <3>2. old.plan \in Plans /\ old.plan.maxUsers \in Nat /\ old.plan.maxUsers <= peak
      BY <2>1, TenancyAssumption DEF RowFits
    <3>3. QED
      BY <1>1, <1>5, <2>4, <3>1, <3>2 DEF RowFits
  <2>5. CASE \E user : \E plan \in Plans : UpdatePlan(p, user, plan, reply)
    <3>1. PICK plan \in Plans :
             /\ org' = IF Applied(reply) THEN {[old EXCEPT !.plan = plan] : old \in org} ELSE org
             /\ peak' = IF Applied(reply) /\ plan.maxUsers > peak THEN plan.maxUsers ELSE peak
      BY <2>5 DEF UpdatePlan
    <3>2. plan.maxUsers \in Nat
      BY TenancyAssumption
    <3>3. Applied(reply) => plan.maxUsers <= peak'
      BY <1>1, <3>1, <3>2
    <3>4. QED
      BY <2>2, <2>3, <3>1, <3>3
  <2>6. CASE CommitUsed(p, reply)
    <3>1. org' = org \/ org' = {[old EXCEPT !.used = request[p].used] : old \in org}
      BY <2>6 DEF CommitUsed
    <3>2. request[p].used \in Nat /\ request[p].used <= reported
      BY <2>6 DEF CommitUsed, Reached, TenancyIInv, AsksFairly
    <3>3. QED
      BY <2>2, <2>4, <3>1, <3>2
  <2>7. CASE \E user : ResetMentionsUsed(p, user, reply)
    <3>1. org' = org \/ org' = {[old EXCEPT !.used = 0] : old \in org}
      BY <2>7 DEF ResetMentionsUsed
    <3>2. QED
      BY <1>1, <2>2, <2>4, <3>1
  <2>8. QED
    BY <2>5, <2>6, <2>7
<1>8. QED
  BY <1>1, <1>3, <1>6, <1>7 DEF TenancyIInv, RowsFit

(* What touches neither members nor the row: API keys.                     *)
LEMMA KeysInv ==
    ASSUME TenancyIInv, NEW p \in Requests, UNCHANGED <<org, role, peak, elsewhere, reported>>,
           (Answered(p) /\ request[p].at # "invite") \/ UNCHANGED request
    PROVE  TenancyIInv'
<1>1. Moved(p) /\ request'[p] \in {Free, request[p]}
      /\ (request'[p] = request[p] \/ request[p].at # "invite")
  BY AnsweredMoves DEF TenancyIInv, Moved, RequestsAreFunction
<1>2. RequestsAreFunction' /\ (\A q \in Requests : AsksFairly(q)')
  <2>1. AsksFairly(p)'
    BY <1>1 DEF AsksFairly, TenancyIInv, Free
  <2>2. QED
    BY <1>1, <2>1, OthersAskFairly DEF TenancyIInv, RowsFit
<1>3. Cardinality(Invited') = Cardinality(Invited) /\ (Invited = {} => Invited' = {})
  <2>1. request'[p].at = "invite" <=> request[p].at = "invite"
    BY <1>1 DEF Free
  <2>2. Invited = {} => request[p].at # "invite"
    BY DEF Invited
  <2>3. QED
    BY <1>1, <2>1, <2>2, InvitedMove
<1>4. MembersFit' /\ RowsFit'
  BY <1>3 DEF TenancyIInv, MembersFit, Members, RowsFit, RowFits
<1>5. QED
  BY <1>2, <1>4 DEF TenancyIInv

(* Those that join elsewhere are counted.                                  *)
LEMMA JoinElsewhereInv ==
    ASSUME TenancyIInv, NEW user, JoinElsewhere(user)
    PROVE  TenancyIInv'
<1>1. /\ org # {} /\ AddMember(user, "viewer") /\ elsewhere' = elsewhere + 1
      /\ UNCHANGED <<org, peak, reported, request>>
  BY DEF JoinElsewhere
<1>2. /\ IsFiniteSet(Members') /\ Cardinality(Members') \in Nat /\ Cardinality(Members) \in Nat
      /\ Cardinality(Members') <= Cardinality(Members) + 1
  BY <1>1, MemberAdded DEF TenancyIInv
<1>3. /\ peak \in Nat /\ elsewhere \in Nat /\ Cardinality(Requests) \in Nat
      /\ Cardinality(Members) + Cardinality(Invited) <= peak + elsewhere + Cardinality(Requests) - 1
  BY HandlersAssumption, FS_CardinalityType DEF TenancyIInv, MembersFit
<1>4. Invited' = Invited /\ Cardinality(Invited) \in Nat
  BY <1>1, HandlersAssumption, FS_Subset, FS_CardinalityType DEF Invited
<1>5. MembersFit'
  BY <1>1, <1>2, <1>3, <1>4 DEF MembersFit
<1>6. QED
  BY <1>1, <1>5 DEF TenancyIInv, RequestsAreFunction, AsksFairly, RowsFit, RowFits

(* Every step keeps the invariant.                                         *)
LEMMA TenancyNextInv ==
    ASSUME TenancyIInv, [TenancyNext]_tenancyVars
    PROVE  TenancyIInv'
<1>1. reported \in Nat
  BY DEF TenancyIInv, RowsFit
<1>2. ASSUME NEW p \in Requests, MemberHandler(p) PROVE TenancyIInv'
  <2>1. ASSUME NEW user, NEW plan \in Plans, CreateOrg(p, user, plan) PROVE TenancyIInv'
    BY <1>1, <2>1, TenancyBeginInv DEF CreateOrg, Histories
  <2>2. ASSUME NEW by, NEW user, NEW as, InviteMember(p, by, user, as) PROVE TenancyIInv'
    BY <2>2, InviteMemberInv
  <2>3. ASSUME NEW by, NEW user, NEW as,
               UpdateMemberRole(p, by, user, as) \/ RemoveMember(p, by, user)
        PROVE  TenancyIInv'
    <3>1. PICK task : Begin(p, task) /\ task.at \in {"role", "remove"}
      <4>1. CASE UpdateMemberRole(p, by, user, as)
        <5> DEFINE task == [at |-> "role", user |-> user, as |-> as]
        <5>1. Begin(p, task) /\ task.at = "role"
          BY <4>1 DEF UpdateMemberRole
        <5>2. QED
          BY <5>1
      <4>2. CASE RemoveMember(p, by, user)
        <5> DEFINE task == [at |-> "remove", user |-> user]
        <5>1. Begin(p, task) /\ task.at = "remove"
          BY <4>2 DEF RemoveMember
        <5>2. QED
          BY <5>1
      <4>3. QED
        BY <2>3, <4>1, <4>2
    <3>2. UNCHANGED <<org, role, peak, elsewhere, reported>>
      BY <2>3 DEF UpdateMemberRole, RemoveMember, Histories
    <3>3. QED
      BY <1>1, <3>1, <3>2, TenancyBeginInv
  <2>4. ASSUME NEW reply, CommitOrg(p, reply) PROVE TenancyIInv'
    BY <2>4, CommitOrgInv
  <2>5. ASSUME NEW reply, CommitInvite(p, reply) \/ CommitRole(p, reply) \/ CommitRemoval(p, reply)
        PROVE  TenancyIInv'
    BY <2>5, MemberCommitInv
  <2>6. ASSUME NEW reply, NEW user, NEW plan \in Plans, UpdatePlan(p, user, plan, reply)
        PROVE  TenancyIInv'
    BY <2>6, RowWrittenInv
  <2>7. QED
    BY <1>2, <2>1, <2>2, <2>3, <2>4, <2>5, <2>6 DEF MemberHandler
<1>3. ASSUME NEW p \in Requests, KeyAndUsageHandler(p) PROVE TenancyIInv'
  <2>1. ASSUME NEW key, ValidateApiKey(p, key) PROVE TenancyIInv'
    BY <1>1, <2>1, TenancyBeginInv DEF ValidateApiKey, Histories
  <2>2. ASSUME NEW count \in 1 .. MaxReported, IncrementMentionsUsed(p, count) PROVE TenancyIInv'
    <3>1. PICK row \in org : Begin(p, [at |-> "used", used |-> row.used + count])
      BY <2>2 DEF IncrementMentionsUsed
    <3>2. row.used \in Nat /\ row.used <= reported /\ count \in Nat
      BY TenancyAssumption DEF TenancyIInv, RowsFit, RowFits
    <3>3. UNCHANGED <<org, role, peak, elsewhere>> /\ reported' = reported + count
      BY <2>2 DEF IncrementMentionsUsed
    <3>4. reported' \in Nat /\ reported <= reported' /\ row.used + count \in Nat
          /\ row.used + count <= reported'
      BY <1>1, <3>2, <3>3
    <3>5. QED
      BY <3>1, <3>3, <3>4, TenancyBeginInv
  <2>3. ASSUME NEW reply, CommitLastUsed(p, reply) PROVE TenancyIInv'
    BY <2>3, KeysInv DEF CommitLastUsed, Reached, Histories
  <2>4. ASSUME NEW reply, CommitUsed(p, reply) PROVE TenancyIInv'
    BY <2>4, RowWrittenInv
  <2>5. ASSUME NEW reply, NEW user, NEW expires, CreateApiKey(p, user, expires, reply)
        PROVE  TenancyIInv'
    BY <2>5, KeysInv DEF CreateApiKey, Histories
  <2>6. ASSUME NEW reply, NEW user, NEW key, RevokeApiKey(p, user, key, reply) PROVE TenancyIInv'
    BY <2>6, KeysInv DEF RevokeApiKey, Histories
  <2>7. ASSUME NEW reply, NEW user, ResetMentionsUsed(p, user, reply) PROVE TenancyIInv'
    BY <2>7, RowWrittenInv
  <2>8. QED
    BY <1>3, <2>1, <2>2, <2>3, <2>4, <2>5, <2>6, <2>7 DEF KeyAndUsageHandler
<1>4. CASE UNCHANGED tenancyVars
  <2>1. PICK p : p \in Requests
    BY HandlersAssumption
  <2>2. QED
    BY <1>4, <2>1, KeysInv DEF tenancyVars
<1>5. QED
  BY <1>2, <1>3, <1>4, JoinElsewhereInv DEF TenancyNext

(* At first there is no organisation.                                      *)
LEMMA TenancyInitInv == TenancyInit => TenancyIInv
<1> SUFFICES ASSUME TenancyInit PROVE TenancyIInv
  OBVIOUS
<1>1. RequestsAreFunction /\ \A p \in Requests : request[p] = Free
  BY DEF TenancyInit, NoRequests, RequestsAreFunction
<1>2. Invited = {} /\ Members = {}
  BY <1>1 DEF Invited, Free, TenancyInit, Members, NoMembers
<1>3. Cardinality(Requests) # 0 /\ Cardinality(Requests) \in Nat
  BY HandlersAssumption, FS_CardinalityType, FS_EmptySet
<1>4. Cardinality({}) = 0 /\ IsFiniteSet({})
  BY FS_EmptySet
<1>5. MembersFit
  BY <1>2, <1>3, <1>4 DEF MembersFit, TenancyInit
<1>6. \A p \in Requests : AsksFairly(p)
  BY <1>1 DEF AsksFairly, Free
<1>7. QED
  BY <1>1, <1>5, <1>6 DEF TenancyIInv, RowsFit, TenancyInit

(* The members that are there are within what the invitations allow.       *)
LEMMA TenancyHolds == TenancyIInv => LimitsHold
<1> SUFFICES ASSUME TenancyIInv PROVE LimitsHold
  OBVIOUS
<1>1. Cardinality(Members) \in Nat /\ Cardinality(Requests) \in Nat /\ Cardinality(Invited) \in Nat
  BY HandlersAssumption, FS_CardinalityType, FS_Subset DEF TenancyIInv, MembersFit, Invited
<1>2. /\ peak \in Nat /\ elsewhere \in Nat
      /\ Cardinality(Members) + Cardinality(Invited) <= peak + elsewhere + Cardinality(Requests) - 1
  BY DEF TenancyIInv, MembersFit
<1>3. Cardinality(Members) <= peak + elsewhere + Cardinality(Requests) - 1
  BY <1>1, <1>2
<1>4. QED
  BY <1>3 DEF LimitsHold, TenancyIInv, RowsFit, RowFits

(* Whatever requests race, an organisation has at most one member beyond   *)
(* the largest limit there has been for every other request in flight,     *)
(* apart from those that joined elsewhere, and is never charged for more   *)
(* mentions than were reported.                                            *)
THEOREM TenancyLimitsHold == TenancySpec => []LimitsHold
<1>1. TenancyInit => TenancyIInv
  BY TenancyInitInv
<1>2. TenancyIInv /\ [TenancyNext]_tenancyVars => TenancyIInv'
  BY TenancyNextInv
<1>3. TenancyIInv => LimitsHold
  BY TenancyHolds
<1>4. QED
  BY <1>1, <1>2, <1>3, PTL DEF TenancySpec

-----------------------------------------------------------------------------
(* The realtime service.                                                   *)

(* A queue ends at message n, the last one published, and has no gap.      *)
QueueFits(queue, since, n) ==
    /\ queue \in Seq(Nat)
    /\ Len(queue) <= QueueSize
    /\ queue # << >> => queue[Len(queue)] = n /\ queue[1] > since
    /\ \A i \in 1 .. Len(queue) - 1 : queue[i + 1] = queue[i] + 1

ClientFits(c) ==
    /\ HasFields(sse[c], {"on", "queue", "since"})
    /\ sse[c].since \in Nat /\ sse[c].since <= Len(aired)
    /\ ~sse[c].on => sse[c].queue = << >>
    /\ QueueFits(sse[c].queue, sse[c].since, Len(aired))

SseFits ==
    /\ aired \in Seq(Nat)
    /\ DOMAIN sse = SseClients /\ sse = [c \in SseClients |-> sse[c]]
    /\ \A c \in SseClients : ClientFits(c)

(* A socket is in the connections only between connect and disconnect.     *)
SocketsFit ==
    /\ DOMAIN socket = Sockets /\ socket = [c \in Sockets |-> socket[c]]
    /\ \A c \in Sockets : HasFields(socket[c], {"at", "channel", "gone"})
    /\ connections \subseteq Sockets
    /\ RegisteredIsServed

RealtimeIInv == SseFits /\ SocketsFit

(* An empty queue fits.                                                    *)
LEMMA EmptyQueueFits ==
    ASSUME NEW since \in Nat, NEW n \in Nat
    PROVE  QueueFits(<< >>, since, n)
<1>1. << >> \in Seq(Nat) /\ Len(<< >>) = 0
  OBVIOUS
<1>2. QED
  BY <1>1, RealtimeAssumption DEF QueueFits

(* A message that is put into a queue leaves no gap, full or not.          *)
LEMMA PutKeepsQueue ==
    ASSUME NEW queue, NEW since \in Nat, NEW n \in Nat, QueueFits(queue, since, n), since <= n
    PROVE  QueueFits(PutOrDropOldest(queue, n + 1), since, n + 1)
<1>1. queue \in Seq(Nat) /\ Len(queue) \in Nat /\ QueueSize \in Nat /\ QueueSize > 0
  BY RealtimeAssumption DEF QueueFits
<1>2. CASE Len(queue) < QueueSize
  <2> DEFINE put == Append(queue, n + 1)
  <2>1. /\ put \in Seq(Nat) /\ Len(put) = Len(queue) + 1 /\ put[Len(queue) + 1] = n + 1
        /\ \A i \in 1 .. Len(queue) : put[i] = queue[i]
    BY <1>1
  <2>2. put[1] > since
    <3>1. CASE queue = << >>
      BY <2>1, <3>1
    <3>2. CASE queue # << >>
      <4>1. Len(queue) >= 1 /\ queue[1] > since
        BY <1>1, <3>2 DEF QueueFits
      <4>2. QED
        BY <1>1, <2>1, <4>1
    <3>3. QED
      BY <3>1, <3>2
  <2>3. ASSUME NEW i \in 1 .. Len(put) - 1 PROVE put[i + 1] = put[i] + 1
    <3>1. CASE i = Len(queue)
      <4>1. queue # << >> /\ queue[Len(queue)] = n
        BY <1>1, <2>1, <3>1 DEF QueueFits
      <4>2. QED
        BY <1>1, <2>1, <3>1, <4>1
    <3>2. CASE i # Len(queue)
      <4>1. i \in 1 .. Len(queue) - 1 /\ i + 1 \in 1 .. Len(queue) /\ i \in 1 .. Len(queue)
        BY <1>1, <2>1, <3>2
      <4>2. queue[i + 1] = queue[i] + 1
        BY <4>1 DEF QueueFits
      <4>3. QED
        BY <2>1, <4>1, <4>2
    <3>3. QED
      BY <3>1, <3>2
  <2>4. PutOrDropOldest(queue, n + 1) = put
    BY <1>2 DEF PutOrDropOldest
  <2>5. Len(put) <= QueueSize /\ put[Len(put)] = n + 1
    BY <1>1, <1>2, <2>1
  <2> HIDE DEF put
  <2>6. QED
    BY <2>1, <2>2, <2>3, <2>4, <2>5 DEF QueueFits
<1>3. CASE ~(Len(queue) < QueueSize)
  <2> DEFINE rest == Tail(queue)
             put == Append(rest, n + 1)
  <2>1. Len(queue) = QueueSize /\ queue # << >>
    BY <1>1, <1>3 DEF QueueFits
  <2>2. /\ rest \in Seq(Nat) /\ Len(rest) = QueueSize - 1
        /\ \A i \in 1 .. QueueSize - 1 : rest[i] = queue[i + 1]
    BY <1>1, <2>1
  <2>3. /\ put \in Seq(Nat) /\ Len(put) = QueueSize /\ put[QueueSize] = n + 1
        /\ \A i \in 1 .. QueueSize - 1 : put[i] = rest[i]
    BY <1>1, <2>2
  <2> HIDE DEF put, rest
  <2>4. \A i \in 1 .. QueueSize - 1 : put[i] = queue[i + 1]
    BY <2>2, <2>3
  <2>5. queue[QueueSize] = n /\ queue[1] > since
    BY <2>1 DEF QueueFits
  <2>6. \A i \in 1 .. QueueSize - 1 : queue[i + 1] = queue[i] + 1
    BY <2>1 DEF QueueFits
  <2>7. \A i \in 1 .. QueueSize : queue[i] \in Nat
    BY <1>1, <2>1
  <2>8. put[1] > since
    <3>1. CASE QueueSize = 1
      BY <2>3, <3>1
    <3>2. CASE QueueSize # 1
      <4>1. 1 \in 1 .. QueueSize - 1 /\ 1 \in 1 .. QueueSize
        BY <1>1, <3>2
      <4>2. put[1] = queue[1] + 1 /\ queue[1] \in Nat
        BY <2>4, <2>6, <2>7, <4>1
      <4>3. QED
        BY <2>5, <4>2
    <3>3. QED
      BY <3>1, <3>2
  <2>9. ASSUME NEW i \in 1 .. QueueSize - 1 PROVE put[i + 1] = put[i] + 1
    <3>1. put[i] = queue[i + 1]
      BY <2>4
    <3>2. CASE i = QueueSize - 1
      <4>1. i + 1 = QueueSize
        BY <1>1, <3>2
      <4>2. QED
        BY <2>3, <2>5, <3>1, <4>1
    <3>3. CASE i # QueueSize - 1
      <4>1. i + 1 \in 1 .. QueueSize - 1
        BY <1>1, <3>3
      <4>2. QED
        BY <2>4, <2>6, <3>1, <4>1
    <3>4. QED
      BY <3>2, <3>3
  <2>10. PutOrDropOldest(queue, n + 1) = put
    BY <1>3 DEF PutOrDropOldest, put, rest
  <2>11. QED
    BY <1>1, <2>3, <2>8, <2>9, <2>10 DEF QueueFits
<1>4. QED
  BY <1>2, <1>3

(* A message that is taken out of it leaves the rest as it was.            *)
LEMMA TakeKeepsQueue ==
    ASSUME NEW queue, NEW since \in Nat, NEW n \in Nat, QueueFits(queue, since, n), queue # << >>
    PROVE  QueueFits(Tail(queue), since, n)
<1> DEFINE rest == Tail(queue)
<1>1. PICK len \in Nat \ {0} : len = Len(queue)
  BY DEF QueueFits
<1>2. /\ rest \in Seq(Nat) /\ Len(rest) = len - 1
      /\ \A i \in 1 .. len - 1 : rest[i] = queue[i + 1]
  BY <1>1 DEF QueueFits
<1>3. /\ len <= QueueSize /\ QueueSize \in Nat
      /\ queue[len] = n /\ queue[1] > since /\ queue[1] \in Nat
      /\ \A i \in 1 .. len - 1 : queue[i + 1] = queue[i] + 1
  BY <1>1, RealtimeAssumption DEF QueueFits
<1> HIDE DEF rest
<1>4. ASSUME rest # << >> PROVE rest[Len(rest)] = n /\ rest[1] > since
  <2>1. 1 \in 1 .. len - 1 /\ len - 1 \in 1 .. len - 1
    BY <1>2, <1>4
  <2>2. rest[len - 1] = queue[len] /\ rest[1] = queue[1] + 1
    BY <1>2, <1>3, <2>1
  <2>3. QED
    BY <1>2, <1>3, <2>2
<1>5. ASSUME NEW i \in 1 .. len - 2 PROVE rest[i + 1] = rest[i] + 1
  <2>1. i \in 1 .. len - 1 /\ i + 1 \in 1 .. len - 1
    OBVIOUS
  <2>2. QED
    BY <1>2, <1>3, <2>1
<1>6. Len(rest) <= QueueSize /\ Len(rest) - 1 = len - 2
  BY <1>2, <1>3
<1>7. QED
  BY <1>2, <1>4, <1>5, <1>6 DEF QueueFits, rest

(* What one SSE client does is nothing to the others.                      *)
LEMMA OneClientInv ==
    ASSUME SseFits, NEW c \in SseClients, NEW client, sse' = [sse EXCEPT ![c] = client],
           aired' = aired, ClientFits(c)'
    PROVE  SseFits'
<1>1. ASSUME NEW d \in SseClients, d # c PROVE ClientFits(d)'
  <2>1. sse'[d] = sse[d] /\ ClientFits(d)
    BY <1>1 DEF SseFits
  <2>2. QED
    BY <2>1 DEF ClientFits
<1>2. QED
  BY <1>1 DEF SseFits

(* The steps of an SSE client.                                             *)
LEMMA SseStepInv ==
    ASSUME RealtimeIInv, NEW c \in SseClients,
           Subscribe(c) \/ Unsubscribe(c) \/ StreamToClient(c)
    PROVE  RealtimeIInv'
<1>1. UNCHANGED <<Clients, aired>> /\ Len(aired) \in Nat
  BY DEF Subscribe, Unsubscribe, StreamToClient, RealtimeIInv, SseFits
<1>2. SocketsFit'
  BY <1>1 DEF Clients, RealtimeIInv, SocketsFit, RegisteredIsServed
<1>3. ASSUME NEW client, HasFields(client, {"on", "queue", "since"}), client.queue = << >>,
             client.since \in Nat, client.since <= Len(aired), sse' = [sse EXCEPT ![c] = client]
      PROVE  SseFits'
  <2>1. sse'[c] = client
    BY <1>3 DEF RealtimeIInv, SseFits
  <2>2. ClientFits(c)'
    BY <1>1, <1>3, <2>1, EmptyQueueFits DEF ClientFits
  <2>3. QED
    BY <1>1, <1>3, <2>2, OneClientInv DEF RealtimeIInv
<1>4. ASSUME StreamToClient(c) PROVE SseFits'
  <2>1. /\ sse[c].queue # << >> /\ sse' = [sse EXCEPT ![c].queue = Tail(@)]
        /\ ClientFits(c)
    BY <1>4 DEF StreamToClient, RealtimeIInv, SseFits
  <2>2. sse' = [sse EXCEPT ![c] = [sse[c] EXCEPT !.queue = Tail(sse[c].queue)]]
    BY <2>1
  <2>3. sse'[c] = [sse[c] EXCEPT !.queue = Tail(sse[c].queue)]
    BY <2>2 DEF RealtimeIInv, SseFits
  <2>4. /\ HasFields(sse'[c], {"on", "queue", "since"})
        /\ sse'[c].queue = Tail(sse[c].queue)
        /\ sse'[c].since = sse[c].since /\ sse'[c].on = sse[c].on
    BY <2>1, <2>3 DEF HasFields, ClientFits
  <2>5. sse[c].on
    BY <2>1 DEF ClientFits
  <2>6. QueueFits(Tail(sse[c].queue), sse[c].since, Len(aired))
    BY <1>1, <2>1, TakeKeepsQueue DEF ClientFits
  <2>7. ClientFits(c)'
    BY <1>1, <2>1, <2>4, <2>5, <2>6 DEF ClientFits
  <2>8. QED
    BY <1>1, <2>2, <2>7, OneClientInv DEF RealtimeIInv
<1>5. QED
  <2>1. CASE Subscribe(c)
    <3> DEFINE client == [on |-> TRUE, queue |-> << >>, since |-> Len(aired)]
    <3>1. HasFields(client, {"on", "queue", "since"}) /\ client.queue = << >>
          /\ client.since = Len(aired)
      BY DEF HasFields
    <3>2. sse' = [sse EXCEPT ![c] = client]
      BY <2>1 DEF Subscribe
    <3> HIDE DEF client
    <3>3. client.since \in Nat /\ client.since <= Len(aired)
      BY <1>1, <3>1
    <3>4. SseFits'
      BY <1>3, <3>1, <3>2, <3>3
    <3>5. QED
      BY <1>2, <3>4 DEF RealtimeIInv
  <2>2. CASE Unsubscribe(c)
    <3> DEFINE client == [on |-> FALSE, queue |-> << >>, since |-> 0]
    <3>1. HasFields(client, {"on", "queue", "since"}) /\ client.queue = << >> /\ client.since = 0
      BY DEF HasFields
    <3>2. sse' = [sse EXCEPT ![c] = client]
      BY <2>2 DEF Unsubscribe
    <3> HIDE DEF client
    <3>3. client.since \in Nat /\ client.since <= Len(aired)
      BY <1>1, <3>1
    <3>4. SseFits'
      BY <1>3, <3>1, <3>2, <3>3
    <3>5. QED
      BY <1>2, <3>4 DEF RealtimeIInv
  <2>3. QED
    BY <1>2, <1>4, <2>1, <2>2 DEF RealtimeIInv

(* A message that is published goes into every queue.                      *)
LEMMA PushInv ==
    ASSUME SseFits, PushToClients
    PROVE  SseFits'
<1>1. PICK n \in Nat : n = Len(aired)
  BY DEF SseFits
<1>2. aired' \in Seq(Nat) /\ Len(aired') = n + 1
  BY <1>1 DEF SseFits, PushToClients
<1>3. ASSUME NEW c \in SseClients PROVE ClientFits(c)'
  <2>1. ClientFits(c)
    BY DEF SseFits
  <2>2. CASE sse[c].on
    <3>1. sse'[c] = [sse[c] EXCEPT !.queue = PutOrDropOldest(sse[c].queue, n + 1)]
      BY <1>1, <2>2 DEF PushToClients
    <3>2. /\ HasFields(sse'[c], {"on", "queue", "since"})
          /\ sse'[c].queue = PutOrDropOldest(sse[c].queue, n + 1)
          /\ sse'[c].since = sse[c].since /\ sse'[c].on = sse[c].on
      BY <2>1, <3>1 DEF HasFields, ClientFits
    <3>3. QueueFits(PutOrDropOldest(sse[c].queue, n + 1), sse[c].since, n + 1)
      BY <1>1, <2>1, PutKeepsQueue DEF ClientFits
    <3>4. sse[c].since \in Nat /\ sse[c].since <= n + 1
      BY <1>1, <2>1 DEF ClientFits
    <3>5. QED
      BY <1>2, <2>2, <3>2, <3>3, <3>4 DEF ClientFits
  <2>3. CASE ~sse[c].on
    <3>1. sse'[c] = sse[c]
      BY <2>3 DEF PushToClients
    <3>2. sse[c].since \in Nat /\ sse[c].since <= n + 1 /\ sse[c].queue = << >>
      BY <1>1, <2>1, <2>3 DEF ClientFits
    <3>3. QueueFits(<< >>, sse[c].since, n + 1)
      BY <1>1, <3>2, EmptyQueueFits
    <3>4. QED
      BY <1>2, <2>1, <3>1, <3>2, <3>3 DEF ClientFits
  <2>4. QED
    BY <2>2, <2>3
<1>4. DOMAIN sse' = SseClients /\ sse' = [c \in SseClients |-> sse'[c]]
  BY DEF PushToClients
<1>5. QED
  BY <1>2, <1>3, <1>4 DEF SseFits

(* A socket that moves keeps its fields.                                   *)
LEMMA SocketMoves ==
    ASSUME SocketsFit, NEW c \in Sockets, NEW where, MoveSocket(c, where)
    PROVE  /\ DOMAIN socket' = Sockets /\ socket' = [d \in Sockets |-> socket'[d]]
           /\ \A d \in Sockets : HasFields(socket'[d], {"at", "channel", "gone"})
           /\ socket'[c].at = where
           /\ \A d \in Sockets : d # c => socket'[d] = socket[d]
<1>1. /\ socket'[c] = [socket[c] EXCEPT !.at = where]
      /\ \A d \in Sockets : d # c => socket'[d] = socket[d]
      /\ DOMAIN socket' = Sockets /\ socket' = [d \in Sockets |-> socket'[d]]
  BY DEF MoveSocket, SocketsFit
<1>2. HasFields(socket[c], {"at", "channel", "gone"})
  BY DEF SocketsFit
<1>3. HasFields(socket'[c], {"at", "channel", "gone"}) /\ socket'[c].at = where
  BY <1>1, <1>2 DEF HasFields
<1>4. QED
  BY <1>1, <1>3 DEF SocketsFit

(* The steps of a WebSocket: it is registered when it opens and let go     *)
(* when its handler ends, whatever else happens.                           *)
LEMMA SocketStepInv ==
    ASSUME SocketsFit, NEW c \in Sockets, SocketStep(c)
    PROVE  SocketsFit'
<1>1. c \in connections => socket[c].at \in {"open", "finally"}
  BY DEF SocketsFit, RegisteredIsServed
<1>2. ASSUME NEW where, MoveSocket(c, where), connections' \subseteq connections \cup {c},
             c \in connections' => where \in {"open", "finally"}
      PROVE  SocketsFit'
  BY <1>2, SocketMoves DEF SocketsFit, RegisteredIsServed
<1>3. ASSUME NEW channel, AcceptSocket(c, channel) PROVE SocketsFit'
  <2>1. /\ socket'[c] = [socket[c] EXCEPT !.at = "auth", !.channel = channel]
        /\ \A d \in Sockets : d # c => socket'[d] = socket[d]
        /\ DOMAIN socket' = Sockets /\ socket' = [d \in Sockets |-> socket'[d]]
    BY <1>3 DEF AcceptSocket, SocketsFit
  <2>2. HasFields(socket[c], {"at", "channel", "gone"})
    BY DEF SocketsFit
  <2>3. HasFields(socket'[c], {"at", "channel", "gone"})
    BY <2>1, <2>2 DEF HasFields
  <2>4. c \notin connections /\ connections' = connections
    BY <1>1, <1>3 DEF AcceptSocket
  <2>5. QED
    BY <2>1, <2>3, <2>4 DEF SocketsFit, RegisteredIsServed
<1>4. ASSUME NEW permitted, Authenticate(c, permitted) PROVE SocketsFit'
  BY <1>1, <1>2, <1>4 DEF Authenticate
<1>5. ASSUME ConnectSocket(c) PROVE SocketsFit'
  BY <1>1, <1>2, <1>5 DEF ConnectSocket
<1>6. ASSUME LeaveSocket(c) PROVE SocketsFit'
  <2>1. /\ socket'[c] = [socket[c] EXCEPT !.gone = TRUE]
        /\ \A d \in Sockets : d # c => socket'[d] = socket[d]
        /\ DOMAIN socket' = Sockets /\ socket' = [d \in Sockets |-> socket'[d]]
    BY <1>6 DEF LeaveSocket, SocketsFit
  <2>2. HasFields(socket[c], {"at", "channel", "gone"})
    BY DEF SocketsFit
  <2>3. HasFields(socket'[c], {"at", "channel", "gone"}) /\ socket'[c].at = socket[c].at
    BY <2>1, <2>2 DEF HasFields
  <2>4. connections' = connections
    BY <1>6 DEF LeaveSocket
  <2>5. QED
    BY <2>1, <2>3, <2>4 DEF SocketsFit, RegisteredIsServed
<1>7. ASSUME EndReceive(c) PROVE SocketsFit'
  BY <1>2, <1>7 DEF EndReceive
<1>8. ASSUME DisconnectSocket(c) PROVE SocketsFit'
  BY <1>2, <1>8 DEF DisconnectSocket
<1>9. QED
  BY <1>3, <1>4, <1>5, <1>6, <1>7, <1>8 DEF SocketStep

(* A broadcast lets sockets go and never registers one.                    *)
LEMMA CastStepInv ==
    ASSUME RealtimeIInv, NEW t \in Tasks, CastStep(t)
    PROVE  RealtimeIInv'
<1>1. ASSUME socket' = socket, connections' \subseteq connections, UNCHANGED <<sse, aired>>
      PROVE  RealtimeIInv'
  BY <1>1 DEF RealtimeIInv, SseFits, ClientFits, SocketsFit, RegisteredIsServed
<1>2. ASSUME NextChannel(t) PROVE RealtimeIInv'
  BY <1>1, <1>2 DEF NextChannel, Clients
<1>3. ASSUME NEW c \in Sockets, DropDead(t, c) PROVE RealtimeIInv'
  BY <1>1, <1>3 DEF DropDead
<1>4. ASSUME NEW c \in Sockets, NEW delivered, SendTo(t, c, delivered) PROVE RealtimeIInv'
  BY <1>1, <1>4 DEF SendTo, Clients
<1>5. ASSUME FinishCast(t) PROVE RealtimeIInv'
  <2>1. UNCHANGED <<socket, connections>> /\ (UNCHANGED <<sse, aired>> \/ PushToClients)
    BY <1>5 DEF FinishCast, Clients
  <2>2. CASE PushToClients
    BY <2>1, <2>2, PushInv DEF RealtimeIInv, SocketsFit, RegisteredIsServed
  <2>3. QED
    BY <1>1, <2>1, <2>2
<1>6. QED
  BY <1>2, <1>3, <1>4, <1>5 DEF CastStep

(* Every step keeps the invariant.                                         *)
LEMMA RealtimeNextInv ==
    ASSUME RealtimeIInv, [RealtimeNext]_realtimeVars
    PROVE  RealtimeIInv'
<1>1. ASSUME UNCHANGED <<socket, connections, sse, aired>> PROVE RealtimeIInv'
  BY <1>1 DEF RealtimeIInv, SseFits, ClientFits, SocketsFit, RegisteredIsServed
<1>2. ASSUME NEW c \in Sockets, SocketStep(c) PROVE RealtimeIInv'
  <2>1. UNCHANGED <<sse, aired>>
    BY <1>2 DEF SocketStep, AcceptSocket, Authenticate, ConnectSocket, LeaveSocket, EndReceive,
                DisconnectSocket, Broadcasts
  <2>2. SseFits'
    BY <2>1 DEF RealtimeIInv, SseFits, ClientFits
  <2>3. QED
    BY <1>2, <2>2, SocketStepInv DEF RealtimeIInv
<1>3. ASSUME NEW kind, ReceiveMessage(kind) \/ \E p \in Requests : PublishMessage(p, kind)
      PROVE  RealtimeIInv'
  BY <1>1, <1>3 DEF ReceiveMessage, PublishMessage, Clients
<1>4. ASSUME Heartbeat \/ LoseRedis \/ \E reply \in Outcomes : Reconnect(reply)
      PROVE  RealtimeIInv'
  BY <1>1, <1>4 DEF Heartbeat, LoseRedis, Reconnect, Clients
<1>5. CASE UNCHANGED realtimeVars
  BY <1>1, <1>5 DEF realtimeVars
<1>6. QED
  BY <1>2, <1>3, <1>4, <1>5, CastStepInv, SseStepInv DEF RealtimeNext

(* At first nobody is connected.                                           *)
LEMMA RealtimeInitInv == RealtimeInit => RealtimeIInv
<1> SUFFICES ASSUME RealtimeInit PROVE RealtimeIInv
  OBVIOUS
<1>1. aired \in Seq(Nat) /\ Len(aired) = 0
  BY DEF RealtimeInit
<1>2. ASSUME NEW c \in SseClients PROVE ClientFits(c)
  <2>1. sse[c] = [on |-> FALSE, queue |-> << >>, since |-> 0]
    BY DEF RealtimeInit
  <2>2. HasFields(sse[c], {"on", "queue", "since"}) /\ sse[c].queue = << >> /\ sse[c].since = 0
    BY <2>1 DEF HasFields
  <2>3. 0 \in Nat /\ QueueFits(<< >>, 0, 0)
    BY EmptyQueueFits
  <2>4. QED
    BY <1>1, <2>1, <2>2, <2>3 DEF ClientFits
<1>3. SocketsFit
  <2>1. ASSUME NEW c \in Sockets PROVE HasFields(socket[c], {"at", "channel", "gone"})
    BY DEF RealtimeInit, HasFields
  <2>2. QED
    BY <2>1 DEF SocketsFit, RegisteredIsServed, RealtimeInit
<1>4. QED
  BY <1>1, <1>2, <1>3 DEF RealtimeIInv, SseFits, RealtimeInit

(* What is said of queues and sockets is what clients see.                 *)
LEMMA RealtimeHolds == RealtimeIInv => ClientsAreServed
<1> SUFFICES ASSUME RealtimeIInv, NEW c \in SseClients
             PROVE  LET queue == sse[c].queue
                    IN  /\ Len(queue) <= QueueSize
                        /\ queue # << >> => Last(queue) = Len(aired) /\ Head(queue) > sse[c].since
                        /\ \A i \in 1 .. Len(queue) - 1 : queue[i + 1] = queue[i] + 1
  BY DEF RealtimeIInv, SocketsFit, ClientsAreServed, SseKeepsNewest
<1>1. QueueFits(sse[c].queue, sse[c].since, Len(aired))
  BY DEF RealtimeIInv, SseFits, ClientFits
<1>2. PICK queue : queue = sse[c].queue
  OBVIOUS
<1>3. queue # << >> => Last(queue) = Len(aired) /\ Head(queue) > sse[c].since
  BY <1>1, <1>2 DEF QueueFits, Last
<1>4. QED
  BY <1>1, <1>2, <1>3 DEF QueueFits

(* Whatever is full, slow or broken, however many broadcasts, connects and *)
(* disconnects overlap: an SSE client has the newest messages without a    *)
(* gap, and a registered socket has a handler that will let it go.         *)
THEOREM RealtimeClientsAreServed == RealtimeSpec => []ClientsAreServed
<1>1. RealtimeInit => RealtimeIInv
  BY RealtimeInitInv
<1>2. RealtimeIInv /\ [RealtimeNext]_realtimeVars => RealtimeIInv'
  BY RealtimeNextInv
<1>3. RealtimeIInv => ClientsAreServed
  BY RealtimeHolds
<1>4. QED
  BY <1>1, <1>2, <1>3, PTL DEF RealtimeSpec

-----------------------------------------------------------------------------
(* Integrations.                                                           *)

CollectedFit ==
    /\ syncClock \in Nat
    /\ IsFiniteSet(collected)
    /\ \A m \in collected :
          /\ m.id \in Nat /\ m.id <= Cardinality(collected)
          /\ m.at \in Nat /\ m.at <= syncClock

SyncRowFits(row) ==
    /\ HasFields(row, {"type", "last", "deleted"})
    /\ row.last \in Nat /\ row.last <= syncClock

SyncFields == {"at", "type", "left", "out", "seen"}

(* What a sync has seen is with it, or is explained already.               *)
SyncFits(p) ==
    /\ HasFields(request[p], SyncFields)
    /\ request[p].left \subseteq collected
    /\ request[p].at = "done" => request[p].left = {}
    /\ request[p].seen \in Nat /\ request[p].seen <= Cardinality(collected)
    /\ \A m \in collected : m.id <= request[p].seen =>
          \/ m \in request[p].left
          \/ m.id \in request[p].out
          \/ m.id \in pushed \cup excused

SyncIInv ==
    /\ RequestsAreFunction
    /\ CollectedFit
    /\ \A row \in integration : SyncRowFits(row)
    /\ \A p \in Requests : request[p] = Free \/ SyncFits(p)
    /\ MissedIsExplained

(* A reply that does not raise has been applied.                           *)
LEMMA NotRaisedIsApplied ==
    ASSUME NEW reply \in Outcomes, ~Raised(reply)
    PROVE  Applied(reply)
  BY HandlersAssumption DEF Raised, Applied, BusReply

(* The steps of a sync that leave the row and what is collected alone: its *)
(* own record has to fit again, all else is kept.                          *)
LEMMA SyncMoveInv ==
    ASSUME SyncIInv, NEW p \in Requests, Moved(p),
           UNCHANGED <<syncClock, collected, integration>>,
           pushed \subseteq pushed', excused \subseteq excused',
           request'[p] = Free \/ SyncFits(p)'
    PROVE  SyncIInv'
<1>1. ASSUME NEW q \in Requests, q # p PROVE request'[q] = Free \/ SyncFits(q)'
  <2>1. request'[q] = request[q] /\ (request[q] = Free \/ SyncFits(q))
    BY <1>1 DEF Moved, SyncIInv
  <2>2. QED
    BY <2>1 DEF SyncFits
<1>2. CollectedFit' /\ \A row \in integration' : SyncRowFits(row)'
  BY DEF SyncIInv, CollectedFit, SyncRowFits
<1>3. MissedIsExplained'
  BY DEF SyncIInv, MissedIsExplained
<1>4. QED
  BY <1>1, <1>2, <1>3 DEF SyncIInv, Moved

(* A sync that puts some of its mentions behind it, each of them explained.*)
LEMMA PushedInv ==
    ASSUME SyncIInv, NEW p \in Requests, SyncFits(p), NEW left, NEW next, Pushed(p, left, next),
           left \subseteq request[p].left, request[p].at # "done", next # "free",
           UNCHANGED <<syncClock, collected, integration>>,
           pushed \subseteq pushed', excused \subseteq excused',
           \A m \in request[p].left \ left : m.id \in pushed' \cup excused'
    PROVE  SyncIInv'
<1>1. HasFields(request[p], SyncFields)
  BY DEF SyncFits
<1>2. /\ Moved(p)
      /\ request'[p] = [request[p] EXCEPT !.left = left, !.at = IF left = {} THEN next ELSE @]
  BY DEF SyncIInv, RequestsAreFunction, Pushed, Moved
<1>3. /\ HasFields(request'[p], SyncFields)
      /\ request'[p].left = left /\ request'[p].out = request[p].out
      /\ request'[p].seen = request[p].seen
      /\ request'[p].at = IF left = {} THEN next ELSE request[p].at
  BY <1>1, <1>2 DEF HasFields, SyncFields
<1>4. SyncFits(p)'
  <2>1. request'[p].at = "done" => request'[p].left = {}
    BY <1>3
  <2>2. /\ request'[p].left \subseteq collected'
        /\ request'[p].seen \in Nat /\ request'[p].seen <= Cardinality(collected')
    BY <1>3 DEF SyncFits
  <2>3. ASSUME NEW m \in collected', m.id <= request'[p].seen
        PROVE  \/ m \in request'[p].left
               \/ m.id \in request'[p].out
               \/ m.id \in pushed' \cup excused'
    <3>1. \/ m \in request[p].left
          \/ m.id \in request[p].out
          \/ m.id \in pushed \cup excused
      BY <1>3, <2>3 DEF SyncFits
    <3>2. QED
      BY <1>3, <3>1
  <2>4. QED
    BY <1>3, <2>1, <2>2, <2>3 DEF SyncFits
<1>5. QED
  BY <1>2, <1>4, SyncMoveInv

(* A sync that ends before its last step leaves last_sync_at where it was. *)
LEMMA GivenUpInv ==
    ASSUME SyncIInv, NEW p \in Requests, Answered(p),
           UNCHANGED <<syncClock, collected, integration>>,
           pushed \subseteq pushed', excused \subseteq excused'
    PROVE  SyncIInv'
<1>1. Moved(p) /\ request'[p] = Free
  BY AnsweredMoves DEF SyncIInv
<1>2. QED
  BY <1>1, SyncMoveInv

(* A request that has begun is a sync.                                     *)
LEMMA BegunFits ==
    ASSUME SyncIInv, NEW p \in Requests, request[p].at # "free"
    PROVE  SyncFits(p)
  BY DEF SyncIInv, Free

(* Pushing, to whichever platform.                                         *)
LEMMA SyncPushInv ==
    ASSUME SyncIInv, NEW p \in Requests, NEW reply \in Outcomes,
           \/ SyncWebhook(p, reply) \/ SyncSlack(p, reply) \/ SyncRecord(p, reply)
           \/ SignInTableau(p, reply) \/ \E accepted \in BOOLEAN : PublishTableau(p, reply, accepted)
    PROVE  SyncIInv'
<1> DEFINE r == request[p]
<1>1. UNCHANGED <<syncClock, collected, integration>> /\ r.at \in {"push", "publish"}
  BY DEF SyncWebhook, SyncSlack, SyncRecord, SignInTableau, PublishTableau, SyncWorld, Reached
<1>2. SyncFits(p)
  BY <1>1, BegunFits
<1>3. ~Raised(reply) => Applied(reply)
  BY NotRaisedIsApplied
<1>4. CASE SyncWebhook(p, reply)
  <2>1. PICK batch \in SUBSET r.left :
           /\ Take(IF Applied(reply) THEN Identifiers(batch) ELSE {})
           /\ IF Raised(reply) THEN Answered(p) ELSE Pushed(p, r.left \ batch, "done")
    BY <1>4 DEF SyncWebhook
  <2>2. pushed \subseteq pushed' /\ excused' = excused
    BY <1>4, <2>1 DEF SyncWebhook, Take
  <2>3. CASE Raised(reply)
    BY <1>1, <2>1, <2>2, <2>3, GivenUpInv
  <2>4. CASE ~Raised(reply)
    <3>1. \A m \in r.left \ (r.left \ batch) : m.id \in pushed'
      BY <1>3, <2>1, <2>4 DEF Take, Identifiers
    <3>2. Pushed(p, r.left \ batch, "done") /\ r.left \ batch \subseteq r.left
      BY <2>1, <2>4
    <3>3. QED
      BY <1>1, <1>2, <2>2, <3>1, <3>2, PushedInv
  <2>5. QED
    BY <2>3, <2>4
<1>5. CASE SyncSlack(p, reply)
  <2>1. /\ Take(IF Applied(reply) THEN Identifiers(r.left) ELSE {})
        /\ IF Raised(reply) THEN Answered(p) ELSE Pushed(p, {}, "done")
    BY <1>5 DEF SyncSlack
  <2>2. pushed \subseteq pushed' /\ excused' = excused
    BY <1>5, <2>1 DEF SyncSlack, Take
  <2>3. CASE Raised(reply)
    BY <1>1, <2>1, <2>2, <2>3, GivenUpInv
  <2>4. CASE ~Raised(reply)
    <3>1. \A m \in r.left \ {} : m.id \in pushed'
      BY <1>3, <2>1, <2>4 DEF Take, Identifiers
    <3>2. Pushed(p, {}, "done")
      BY <2>1, <2>4
    <3>3. QED
      BY <1>1, <1>2, <2>2, <3>1, <3>2, PushedInv
  <2>5. QED
    BY <2>3, <2>4
<1>6. CASE SyncRecord(p, reply)
  <2>1. PICK m \in r.left :
           /\ Take(IF Applied(reply) THEN {m.id} ELSE {})
           /\ Refuse(IF Applied(reply) THEN {} ELSE {m.id})
           /\ Pushed(p, r.left \ {m}, "done")
    BY <1>6 DEF SyncRecord
  <2>2. pushed \subseteq pushed' /\ excused \subseteq excused' /\ m.id \in pushed' \cup excused'
    BY <2>1 DEF Take, Refuse
  <2>3. QED
    BY <1>1, <1>2, <2>1, <2>2, PushedInv
<1>7. CASE SignInTableau(p, reply)
  <2>1. UNCHANGED <<pushed, excused>>
    BY <1>7 DEF SignInTableau
  <2>2. CASE Raised(reply)
    BY <1>1, <1>7, <2>1, <2>2, GivenUpInv DEF SignInTableau
  <2>3. CASE ~Raised(reply)
    <3>1. request' = [request EXCEPT ![p].at = "publish"]
      BY <1>7, <2>3 DEF SignInTableau
    <3>2. HasFields(request[p], SyncFields) /\ "at" \in SyncFields
      BY <1>2 DEF SyncFits, SyncFields
    <3>3. /\ Moved(p) /\ HasFields(request'[p], SyncFields) /\ request'[p].at = "publish"
          /\ \A f \in SyncFields \ {"at"} : request'[p][f] = request[p][f]
      BY <3>1, <3>2, GoesOnMoves DEF SyncIInv
    <3>4. request'[p].left = r.left /\ request'[p].out = r.out /\ request'[p].seen = r.seen
      BY <3>3 DEF SyncFields
    <3>5. SyncFits(p)'
      BY <1>1, <1>2, <2>1, <3>3, <3>4 DEF SyncFits
    <3>6. QED
      BY <1>1, <2>1, <3>3, <3>5, SyncMoveInv
  <2>4. QED
    BY <2>2, <2>3
<1>8. CASE \E accepted \in BOOLEAN : PublishTableau(p, reply, accepted)
  <2>1. PICK accepted \in BOOLEAN :
           /\ Take(IF Applied(reply) /\ accepted THEN Identifiers(r.left) ELSE {})
           /\ Refuse(IF accepted THEN {} ELSE Identifiers(r.left))
           /\ IF Raised(reply) THEN Answered(p) ELSE Pushed(p, {}, "done")
    BY <1>8 DEF PublishTableau
  <2>2. pushed \subseteq pushed' /\ excused \subseteq excused'
    BY <2>1 DEF Take, Refuse
  <2>3. CASE Raised(reply)
    BY <1>1, <2>1, <2>2, <2>3, GivenUpInv
  <2>4. CASE ~Raised(reply)
    <3>1. \A m \in r.left \ {} : m.id \in pushed' \cup excused'
      BY <1>3, <2>1, <2>4 DEF Take, Refuse, Identifiers
    <3>2. Pushed(p, {}, "done")
      BY <2>1, <2>4
    <3>3. QED
      BY <1>1, <1>2, <2>2, <3>1, <3>2, PushedInv
  <2>5. QED
    BY <2>3, <2>4
<1>9. QED
  BY <1>4, <1>5, <1>6, <1>7, <1>8

(* What a query neither takes nor leaves out is explained since the sync   *)
(* before.                                                                 *)
LEMMA QueriedIsExplained ==
    ASSUME SyncIInv, NEW row \in integration, NEW project, NEW taken, NEW m \in collected,
           m \notin taken, m.id \notin Identifiers(LeftOut(row, project, taken))
    PROVE  m.id \in pushed \cup excused
<1>1. m \notin LeftOut(row, project, taken)
  BY DEF Identifiers
<1>2. m.project = project /\ m \notin Unsynced(row, project) /\ row.last # 0
  BY <1>1 DEF LeftOut
<1>3. ~(m.at >= row.last)
  BY <1>2 DEF Unsynced, Since
<1>4. m.at \in Nat /\ row.last \in Nat
  BY DEF SyncIInv, CollectedFit, SyncRowFits
<1>5. m.at < row.last
  BY <1>3, <1>4
<1>6. QED
  BY <1>5 DEF SyncIInv, MissedIsExplained

(* last_sync_at moves to now when all there is has been explained.         *)
LEMMA CompleteInv ==
    ASSUME SyncIInv, NEW p \in Requests, Moved(p),
           request'[p] = Free \/ (request'[p] = request[p] /\ pushed = pushed'),
           NEW row \in integration, Complete(row), UNCHANGED <<syncClock, collected, pushed>>,
           excused \subseteq excused', \A m \in collected : m.id \in pushed \cup excused'
    PROVE  SyncIInv'
<1>1. ASSUME NEW q \in Requests PROVE request'[q] = Free \/ SyncFits(q)'
  <2>1. request'[q] = Free \/ (request'[q] = request[q] /\ (request[q] = Free \/ SyncFits(q)))
    BY DEF Moved, SyncIInv
  <2>2. QED
    BY <2>1 DEF SyncFits
<1>2. integration' = {[row EXCEPT !.last = syncClock]}
  BY DEF Complete
<1>3. syncClock \in Nat /\ HasFields(row, {"type", "last", "deleted"})
  BY DEF SyncIInv, CollectedFit, SyncRowFits
<1>4. ASSUME NEW new \in integration' PROVE SyncRowFits(new)'
  <2>1. HasFields(new, {"type", "last", "deleted"}) /\ new.last = syncClock
    BY <1>2, <1>3 DEF HasFields
  <2>2. QED
    BY <1>3, <2>1 DEF SyncRowFits
<1>5. MissedIsExplained'
  BY DEF MissedIsExplained
<1>6. QED
  BY <1>1, <1>4, <1>5 DEF SyncIInv, CollectedFit, Moved

(* The query of a sync.                                                    *)
LEMMA QueryUnsyncedInv ==
    ASSUME SyncIInv, NEW p \in Requests, NEW project, NEW reply, QueryUnsynced(p, project, reply)
    PROVE  SyncIInv'
<1>1. PICK row \in Installed : \E taken \in NewestOf(Unsynced(row, project)) :
         Begin(p, [at |-> IF taken = {} THEN "done" ELSE "push", type |-> row.type, left |-> taken,
                   out |-> Identifiers(LeftOut(row, project, taken)), seen |-> Cardinality(collected)])
  BY DEF QueryUnsynced
<1>2. PICK taken \in NewestOf(Unsynced(row, project)) :
         Begin(p, [at |-> IF taken = {} THEN "done" ELSE "push", type |-> row.type, left |-> taken,
                   out |-> Identifiers(LeftOut(row, project, taken)), seen |-> Cardinality(collected)])
  BY <1>1
<1>3. PICK left, where : /\ left = Identifiers(LeftOut(row, project, taken))
                         /\ where = IF taken = {} THEN "done" ELSE "push"
  OBVIOUS
<1>4. UNCHANGED <<syncClock, collected, integration, pushed, excused>> /\ row \in integration
  BY DEF QueryUnsynced, SyncWorld, Installed
<1>5. \A m \in collected : m \in taken \/ m.id \in left \/ m.id \in pushed \cup excused
  BY <1>3, <1>4, QueriedIsExplained
<1> DEFINE task == [at |-> where, type |-> row.type, left |-> taken, out |-> left,
                    seen |-> Cardinality(collected)]
<1>6. Moved(p) /\ request'[p] = task
  BY <1>2, <1>3, BeginMoves DEF SyncIInv
<1>7. /\ HasFields(request'[p], SyncFields)
      /\ request'[p].at = where /\ request'[p].left = taken /\ request'[p].out = left
      /\ request'[p].seen = Cardinality(collected)
  BY <1>6 DEF HasFields, SyncFields
<1>8. taken \subseteq collected
  BY DEF NewestOf, Unsynced
<1>9. Cardinality(collected) \in Nat
  BY FS_CardinalityType DEF SyncIInv, CollectedFit
<1>10. SyncFits(p)'
  BY <1>3, <1>4, <1>5, <1>7, <1>8, <1>9 DEF SyncFits
<1>11. QED
  BY <1>4, <1>6, <1>10, SyncMoveInv

(* The end of a sync.                                                      *)
LEMMA CompleteSyncInv ==
    ASSUME SyncIInv, NEW p \in Requests, NEW reply, CompleteSync(p, reply)
    PROVE  SyncIInv'
<1>1. /\ request[p].at = "done" /\ Answered(p) /\ UNCHANGED <<syncClock, collected, pushed>>
  BY DEF CompleteSync, Reached, SyncWorld
<1>2. SyncFits(p) /\ Moved(p) /\ request'[p] = Free
  BY <1>1, BegunFits, AnsweredMoves DEF SyncIInv
<1>3. CASE Applied(reply) /\ Installed # {}
  <2>1. PICK row \in integration : Complete(row)
    BY <1>3 DEF CompleteSync, Installed
  <2>2. excused' = excused \cup request[p].out
                      \cup {m.id : m \in {c \in collected : c.id > request[p].seen}}
    BY <1>3 DEF CompleteSync, Refuse
  <2>3. ASSUME NEW m \in collected PROVE m.id \in pushed \cup excused'
    <3>1. m.id \in Nat /\ request[p].seen \in Nat /\ request[p].left = {}
      BY <1>1, <1>2 DEF SyncIInv, CollectedFit, SyncFits
    <3>2. CASE m.id <= request[p].seen
      BY <1>2, <2>2, <3>1, <3>2 DEF SyncFits
    <3>3. CASE m.id > request[p].seen
      BY <2>2, <3>3
    <3>4. QED
      BY <3>1, <3>2, <3>3
  <2>4. excused \subseteq excused'
    BY <2>2
  <2>5. QED
    BY <1>1, <1>2, <2>1, <2>3, <2>4, CompleteInv
<1>4. CASE ~(Applied(reply) /\ Installed # {})
  <2>1. UNCHANGED <<integration, excused>>
    BY <1>4 DEF CompleteSync
  <2>2. QED
    BY <1>1, <2>1, GivenUpInv
<1>5. QED
  BY <1>3, <1>4

(* The rest of the world: time, mentions that are collected, and the row.  *)
LEMMA SyncWorldInv ==
    ASSUME SyncIInv, NEW reply,
           \/ SyncTick \/ \E project : CollectMention(project)
           \/ \E type : CreateIntegration(type, reply)
           \/ DeleteIntegration(reply)
           \/ UNCHANGED syncVars
    PROVE  SyncIInv'
<1>1. UNCHANGED <<pushed, excused, request>>
  BY DEF SyncTick, CollectMention, CreateIntegration, DeleteIntegration, syncVars
<1>2. PICK n : n = Cardinality(collected)
  OBVIOUS
<1>3. n \in Nat /\ syncClock \in Nat
  BY <1>2, FS_CardinalityType DEF SyncIInv, CollectedFit
<1>4. CASE \E project : CollectMention(project)
  <2>1. PICK project : CollectMention(project)
    BY <1>4
  <2> DEFINE new == [id |-> n + 1, project |-> project, at |-> syncClock]
  <2>2. collected' = collected \cup {new} /\ UNCHANGED <<syncClock, integration>>
    BY <1>2, <2>1 DEF CollectMention
  <2>3. new \notin collected
    BY <1>2, <1>3 DEF SyncIInv, CollectedFit
  <2>4. new.id = n + 1 /\ new.at = syncClock
    OBVIOUS
  <2> HIDE DEF new
  <2>5. IsFiniteSet(collected') /\ Cardinality(collected') = n + 1
    BY <1>2, <2>2, <2>3, FS_AddElement DEF SyncIInv, CollectedFit
  <2>6. CollectedFit'
    BY <1>2, <1>3, <2>2, <2>4, <2>5 DEF SyncIInv, CollectedFit
  <2>7. ASSUME NEW q \in Requests, SyncFits(q) PROVE SyncFits(q)'
    BY <1>1, <1>2, <1>3, <2>2, <2>4, <2>5, <2>7 DEF SyncFits
  <2>8. MissedIsExplained'
    BY <1>1, <1>3, <2>2, <2>4 DEF SyncIInv, MissedIsExplained, SyncRowFits
  <2>9. QED
    BY <1>1, <2>2, <2>6, <2>7, <2>8 DEF SyncIInv, SyncRowFits, RequestsAreFunction
<1>5. CASE ~\E project : CollectMention(project)
  <2>1. collected' = collected /\ syncClock' \in Nat /\ syncClock <= syncClock'
    BY <1>3, <1>5 DEF SyncTick, CreateIntegration, DeleteIntegration, SyncWorld, syncVars
  <2>2. CollectedFit'
    BY <1>3, <2>1 DEF SyncIInv, CollectedFit
  <2>3. ASSUME NEW q \in Requests, SyncFits(q) PROVE SyncFits(q)'
    BY <1>1, <2>1, <2>3 DEF SyncFits
  <2>4. ASSUME NEW new \in integration'
        PROVE  /\ HasFields(new, {"type", "last", "deleted"})
               /\ new.last = 0 \/ \E old \in integration : old.last = new.last
    <3>1. CASE new \in integration
      BY <3>1 DEF SyncIInv, SyncRowFits
    <3>2. CASE \E old \in integration : new = [old EXCEPT !.deleted = TRUE]
      BY <3>2 DEF SyncIInv, SyncRowFits, HasFields
    <3>3. CASE \E type : new = [type |-> type, last |-> 0, deleted |-> FALSE]
      BY <3>3 DEF HasFields
    <3>4. QED
      BY <1>5, <3>1, <3>2, <3>3 DEF SyncTick, CreateIntegration, DeleteIntegration, syncVars
  <2>5. ASSUME NEW new \in integration' PROVE SyncRowFits(new)'
    BY <1>3, <2>1, <2>4 DEF SyncIInv, SyncRowFits
  <2>6. MissedIsExplained'
    BY <1>1, <2>1, <2>4 DEF SyncIInv, MissedIsExplained, CollectedFit
  <2>7. QED
    BY <1>1, <2>2, <2>3, <2>5, <2>6 DEF SyncIInv, RequestsAreFunction
<1>6. QED
  BY <1>4, <1>5

(* At first nothing has been collected.                                    *)
LEMMA SyncInitInv == SyncInit => SyncIInv
<1> SUFFICES ASSUME SyncInit PROVE SyncIInv
  OBVIOUS
<1>1. RequestsAreFunction /\ \A p \in Requests : request[p] = Free
  BY DEF SyncInit, NoRequests, RequestsAreFunction
<1>2. CollectedFit
  BY FS_EmptySet DEF SyncInit, CollectedFit
<1>3. QED
  BY <1>1, <1>2 DEF SyncIInv, SyncInit, MissedIsExplained

(* Every step keeps the invariant.                                         *)
LEMMA SyncStepInv == SyncIInv /\ [SyncNext]_syncVars => SyncIInv'
<1> SUFFICES ASSUME SyncIInv, [SyncNext]_syncVars PROVE SyncIInv'
  OBVIOUS
<1>1. ASSUME NEW p \in Requests, NEW reply \in Outcomes, Sync(p, reply) PROVE SyncIInv'
  BY <1>1, SyncPushInv, QueryUnsyncedInv, CompleteSyncInv DEF Sync
<1>2. QED
  BY <1>1, SyncWorldInv DEF SyncNext

(* However syncs, retries and deletions overlap, and whatever the platform *)
(* answers: a mention collected before last_sync_at has been pushed, or    *)
(* was left behind for a reason the code knows.                            *)
THEOREM SyncMissedIsExplained == SyncSpec => []MissedIsExplained
<1>1. SyncInit => SyncIInv
  BY SyncInitInv
<1>2. SyncIInv /\ [SyncNext]_syncVars => SyncIInv'
  BY SyncStepInv
<1>3. SyncIInv => MissedIsExplained
  BY DEF SyncIInv
<1>4. QED
  BY <1>1, <1>2, <1>3, PTL DEF SyncSpec

-----------------------------------------------------------------------------
(* Direct collection.                                                      *)

(* What a run that is about to commit has to add: the first of each name   *)
(* that was not in the table, so that every post it found is there or is   *)
(* added under its name; and a row it was not told of has another name.    *)
CommitFits(rows, raw, rivals, adding) ==
    /\ raw \in Seq(DirectPosts)
    /\ DOMAIN adding \subseteq DOMAIN raw
    /\ \A i \in DOMAIN adding : adding[i] = raw[i] /\ FirstOfItsName(raw, i)
    /\ \A i \in DOMAIN raw :
          \/ \E row \in rows : row.name = raw[i].name
          \/ \E j \in DOMAIN adding : adding[j].name = raw[i].name
    /\ \A row \in rows :
          \/ row \in rivals
          \/ row.name = 0
          \/ \A i \in DOMAIN adding : adding[i].name # row.name

DirectFits(p) ==
    LET r == request[p]
    IN  /\ r.at = "collect" => /\ HasFields(r, {"at", "left", "raw"})
                               /\ r.left \in Seq(FreeCollectors) /\ r.raw \in Seq(DirectPosts)
        /\ r.at = "commit" => /\ HasFields(r, {"at", "raw", "rivals", "adding"})
                              /\ CommitFits(mentionRows, r.raw, r.rivals, r.adding)

DirectIInv ==
    /\ RequestsAreFunction
    /\ \A p \in Requests : DirectFits(p)
    /\ DirectLossIsExplained

(* A run that has ended, and what is in the table now.                     *)
RunExplained(run, rows) ==
    \/ run.fault \/ run.spoilt \/ run.raced
    \/ \A post \in run.found : \E row \in rows : row.name = post.name

(* Rows are never removed, so what was explained remains so.               *)
LEMMA ExplainedStays ==
    ASSUME DirectLossIsExplained, mentionRows \subseteq mentionRows',
           \A run \in directEnded' : run \in directEnded \/ RunExplained(run, mentionRows')
    PROVE  DirectLossIsExplained'
<1>1. ASSUME NEW run \in directEnded' PROVE RunExplained(run, mentionRows')
  <2>1. CASE run \in directEnded
    BY <2>1 DEF DirectLossIsExplained, RunExplained
  <2>2. QED
    BY <1>1, <2>1
<1>2. QED
  BY <1>1 DEF DirectLossIsExplained, RunExplained

(* A step that leaves the table alone, of one request.                     *)
LEMMA DirectMoveInv ==
    ASSUME DirectIInv, NEW p \in Requests, Moved(p), mentionRows' = mentionRows, DirectFits(p)',
           \A run \in directEnded' : run \in directEnded \/ RunExplained(run, mentionRows)
    PROVE  DirectIInv'
<1>1. ASSUME NEW q \in Requests, q # p PROVE DirectFits(q)'
  <2>1. request'[q] = request[q] /\ DirectFits(q)
    BY <1>1 DEF Moved, DirectIInv
  <2>2. QED
    BY <2>1 DEF DirectFits, CommitFits
<1>2. DirectLossIsExplained'
  BY ExplainedStays DEF DirectIInv
<1>3. QED
  BY <1>1, <1>2 DEF DirectIInv, Moved

(* Posts that reach the table reach those that are about to commit.        *)
LEMMA RivalledFits ==
    ASSUME DirectIInv, NEW posts, NEW q \in Requests, request'[q] = Rivalled(posts)[q],
           mentionRows' = mentionRows \cup posts
    PROVE  DirectFits(q)'
<1>1. DirectFits(q)
  BY DEF DirectIInv
<1>2. CASE request[q].at = "commit"
  <2>1. HasFields(request[q], {"at", "raw", "rivals", "adding"})
    BY <1>1, <1>2 DEF DirectFits
  <2>2. request'[q] = [request[q] EXCEPT !.rivals = request[q].rivals \cup posts]
    BY <1>2 DEF Rivalled, Reached
  <2>3. /\ HasFields(request'[q], {"at", "raw", "rivals", "adding"})
        /\ request'[q].rivals = request[q].rivals \cup posts
        /\ request'[q].raw = request[q].raw /\ request'[q].adding = request[q].adding
        /\ request'[q].at = "commit"
    BY <1>2, <2>1, <2>2 DEF HasFields
  <2>4. CommitFits(mentionRows, request[q].raw, request[q].rivals, request[q].adding)
    BY <1>1, <1>2 DEF DirectFits
  <2>5. \A row \in mentionRows' : row \in mentionRows \/ row \in request'[q].rivals
    BY <2>3
  <2>6. CommitFits(mentionRows', request'[q].raw, request'[q].rivals, request'[q].adding)
    BY <2>3, <2>4, <2>5 DEF CommitFits
  <2>7. QED
    BY <2>3, <2>6 DEF DirectFits
<1>3. CASE request[q].at # "commit"
  <2>1. request'[q] = request[q]
    BY <1>3 DEF Rivalled, Reached
  <2>2. QED
    BY <1>1, <1>3, <2>1 DEF DirectFits
<1>4. QED
  BY <1>2, <1>3

(* A mention that the query service stores.                                *)
LEMMA QueryStoresInv ==
    ASSUME DirectIInv, NEW post, QueryStores(post)
    PROVE  DirectIInv'
<1>1. /\ mentionRows' = mentionRows \cup {post} /\ request' = Rivalled({post})
      /\ directEnded' = directEnded
  BY DEF QueryStores
<1>2. ASSUME NEW q \in Requests PROVE DirectFits(q)'
  BY <1>1, RivalledFits
<1>3. RequestsAreFunction'
  BY <1>1 DEF Rivalled, RequestsAreFunction
<1>4. DirectLossIsExplained'
  BY <1>1, ExplainedStays DEF DirectIInv
<1>5. QED
  BY <1>2, <1>3, <1>4 DEF DirectIInv

(* The collectors of a run are collectors there are.                       *)
LEMMA CollectorsToRunType ==
    ASSUME NEW tracked
    PROVE  CollectorsToRun(tracked) \in Seq(FreeCollectors)
<1> DEFINE RunIf(c, names) == IF tracked = {} \/ names \cap tracked # {} THEN <<c>> ELSE << >>
<1>1. ASSUME NEW c \in FreeCollectors, NEW names PROVE RunIf(c, names) \in Seq(FreeCollectors)
  OBVIOUS
<1>2. PICK one \in Seq(FreeCollectors), two \in Seq(FreeCollectors), three \in Seq(FreeCollectors),
           four \in Seq(FreeCollectors) :
         CollectorsToRun(tracked) = one \o two \o three \o four
  BY <1>1 DEF CollectorsToRun, FreeCollectors
<1>3. one \o two \in Seq(FreeCollectors)
  OBVIOUS
<1>4. one \o two \o three \in Seq(FreeCollectors)
  BY <1>3
<1>5. QED
  BY <1>2, <1>4

(* The steps of a run before it looks at the table.                        *)
LEMMA GatheringInv ==
    ASSUME DirectIInv, NEW p \in Requests, NEW reply,
           \/ TriggerCollection(p, reply)
           \/ \E usable \in BOOLEAN : LoadDirectProject(p, reply, usable)
           \/ DirectCollector(p)
    PROVE  DirectIInv'
<1>1. UNCHANGED <<mentionRows, directEnded>>
  BY DEF TriggerCollection, LoadDirectProject, DirectCollector, RunCollector, directVars
<1>2. CASE TriggerCollection(p, reply)
  <2>1. Begin(p, [at |-> "load"])
    BY <1>2 DEF TriggerCollection
  <2>2. Moved(p) /\ request'[p] = [at |-> "load"]
    BY <2>1, BeginMoves DEF DirectIInv
  <2>3. request'[p].at = "load"
    BY <2>2
  <2>4. DirectFits(p)'
    BY <2>3 DEF DirectFits
  <2>5. QED
    BY <1>1, <2>2, <2>4, DirectMoveInv
<1>3. CASE \E usable \in BOOLEAN : LoadDirectProject(p, reply, usable)
  <2>1. CASE Answered(p)
    <3>1. Moved(p) /\ request'[p] = Free
      BY <2>1, AnsweredMoves DEF DirectIInv
    <3>2. request'[p].at = "free"
      BY <3>1 DEF Free
    <3>3. DirectFits(p)'
      BY <3>2 DEF DirectFits
    <3>4. QED
      BY <1>1, <3>1, <3>3, DirectMoveInv
  <2>2. CASE ~Answered(p)
    <3>1. PICK tracked \in TrackedPlatforms :
             request' = [request EXCEPT ![p] =
                            [at |-> "collect", left |-> CollectorsToRun(tracked), raw |-> << >>]]
      BY <1>3, <2>2 DEF LoadDirectProject
    <3> DEFINE task == [at |-> "collect", left |-> CollectorsToRun(tracked), raw |-> << >>]
    <3>2. Moved(p) /\ request'[p] = task
      BY <3>1 DEF DirectIInv, RequestsAreFunction, Moved
    <3>3. HasFields(task, {"at", "left", "raw"}) /\ task.at = "collect"
          /\ task.left = CollectorsToRun(tracked) /\ task.raw = << >>
      BY DEF HasFields
    <3>4. CollectorsToRun(tracked) \in Seq(FreeCollectors) /\ << >> \in Seq(DirectPosts)
      BY CollectorsToRunType
    <3> HIDE DEF task
    <3>5. DirectFits(p)'
      BY <3>2, <3>3, <3>4 DEF DirectFits
    <3>6. QED
      BY <1>1, <3>2, <3>5, DirectMoveInv
  <2>3. QED
    BY <2>1, <2>2
<1>4. CASE DirectCollector(p)
  <2>1. /\ request[p].at = "collect" /\ request[p].left # << >>
        /\ \E posts \in FreeAnswers[Head(request[p].left)] \cup {<< >>} : RunCollector(p, posts)
    BY <1>4 DEF DirectCollector, Reached
  <2>2. PICK posts \in FreeAnswers[Head(request[p].left)] \cup {<< >>} :
           request' = [request EXCEPT ![p].left = Tail(@), ![p].raw = @ \o posts]
    BY <2>1 DEF RunCollector
  <2>3. /\ HasFields(request[p], {"at", "left", "raw"})
        /\ request[p].left \in Seq(FreeCollectors) /\ request[p].raw \in Seq(DirectPosts)
    BY <2>1 DEF DirectIInv, DirectFits
  <2>4. posts \in Seq(DirectPosts)
    <3>1. Head(request[p].left) \in FreeCollectors
      BY <2>1, <2>3
    <3>2. FreeAnswers[Head(request[p].left)] \subseteq Seq(DirectPosts)
      BY <3>1, DirectAssumption
    <3>3. PICK answers : answers = FreeAnswers[Head(request[p].left)]
      OBVIOUS
    <3>4. answers \subseteq Seq(DirectPosts) /\ (posts \in answers \/ posts = << >>)
      BY <3>2, <3>3
    <3>5. CASE posts = << >>
      BY <3>5
    <3>6. CASE posts \in answers
      <4>1. \A x : x \in answers => x \in Seq(DirectPosts)
        BY <3>4
      <4>2. QED
        BY <3>6, <4>1
    <3>7. QED
      BY <3>4, <3>5, <3>6
  <2>5. /\ Moved(p)
        /\ request'[p] = [request[p] EXCEPT !.left = Tail(request[p].left),
                                            !.raw = request[p].raw \o posts]
    BY <2>2 DEF DirectIInv, RequestsAreFunction, Moved
  <2>6. /\ HasFields(request'[p], {"at", "left", "raw"}) /\ request'[p].at = "collect"
        /\ request'[p].left = Tail(request[p].left) /\ request'[p].raw = request[p].raw \o posts
    BY <2>1, <2>3, <2>5 DEF HasFields
  <2>7. request'[p].left \in Seq(FreeCollectors) /\ request'[p].raw \in Seq(DirectPosts)
    BY <2>1, <2>3, <2>4, <2>6
  <2>8. DirectFits(p)'
    BY <2>6, <2>7 DEF DirectFits
  <2>9. QED
    BY <1>1, <2>5, <2>8, DirectMoveInv
<1>5. QED
  BY <1>2, <1>3, <1>4

(* Every post that was found is in the table under its name, or the first  *)
(* of its name is to be added.                                             *)
LEMMA AddingCovers ==
    ASSUME NEW raw \in Seq(DirectPosts), NEW known, NEW i \in DOMAIN raw, raw[i].name \notin known
    PROVE  \E j \in DOMAIN Adding(raw, known) : Adding(raw, known)[j].name = raw[i].name
<1> DEFINE Same == {k \in DOMAIN raw : raw[k].name = raw[i].name}
<1>1. DOMAIN raw \subseteq Nat /\ DOMAIN raw = 1 .. Len(raw)
  OBVIOUS
<1>2. Same \in SUBSET Nat /\ Same # {}
  BY <1>1
<1>3. PICK j \in Same : \A k \in Same : j <= k
  BY <1>2, LeastOfNumbers
<1>4. ASSUME NEW k \in 1 .. j - 1 PROVE raw[k].name # raw[j].name
  <2>1. k \in DOMAIN raw /\ k < j
    BY <1>1, <1>3
  <2>2. k \notin Same
    BY <1>1, <1>3, <2>1
  <2>3. QED
    BY <1>3, <2>1, <2>2
<1>5. FirstOfItsName(raw, j)
  BY <1>4 DEF FirstOfItsName
<1>6. j \in DOMAIN raw /\ raw[j].name = raw[i].name
  BY <1>3
<1>7. QED
  BY <1>5, <1>6 DEF Adding

(* A run that looks at the table.                                          *)
LEMMA ReadExistingInv ==
    ASSUME DirectIInv, NEW p \in Requests, NEW reply, ReadExisting(p, reply)
    PROVE  DirectIInv'
<1>1. /\ request[p].at = "collect" /\ mentionRows' = mentionRows
      /\ request[p].raw \in Seq(DirectPosts)
  BY DEF ReadExisting, Reached, DirectIInv, DirectFits
<1>2. CASE Answered(p)
  <2>1. Moved(p) /\ request'[p] = Free
    BY <1>2, AnsweredMoves DEF DirectIInv
  <2>2. request'[p].at = "free"
    BY <2>1 DEF Free
  <2>3. DirectFits(p)'
    BY <2>2 DEF DirectFits
  <2>4. request[p].at # request'[p].at
    BY <1>1, <2>2
  <2>5. \A run \in directEnded' : run \in directEnded \/ RunExplained(run, mentionRows)
    <3>1. \/ directEnded' = directEnded
          \/ directEnded' = directEnded \cup
                {[found |-> ToSet(request[p].raw), fault |-> TRUE, spoilt |-> FALSE, raced |-> FALSE]}
      BY DEF ReadExisting
    <3>2. QED
      BY <3>1 DEF RunExplained
  <2>6. QED
    BY <1>1, <2>1, <2>3, <2>5, DirectMoveInv
<1>3. CASE ~Answered(p)
  <2>1. PICK raw \in Seq(DirectPosts) : raw = request[p].raw
    BY <1>1
  <2>2. PICK known : known = {row.name : row \in mentionRows} \ {0}
    OBVIOUS
  <2> DEFINE task == [at |-> "commit", raw |-> raw, rivals |-> {}, adding |-> Adding(raw, known)]
  <2>3. request' = [request EXCEPT ![p] = task] /\ directEnded' = directEnded
    BY <1>3, <2>1, <2>2 DEF ReadExisting
  <2>4. Moved(p) /\ request'[p] = task
    BY <2>3 DEF DirectIInv, RequestsAreFunction, Moved
  <2>5. /\ HasFields(task, {"at", "raw", "rivals", "adding"})
        /\ task.at = "commit" /\ task.raw = raw /\ task.rivals = {} /\ task.adding = Adding(raw, known)
    BY DEF HasFields
  <2>6. CommitFits(mentionRows, raw, {}, Adding(raw, known))
    <3>1. /\ DOMAIN Adding(raw, known) \subseteq DOMAIN raw
          /\ \A i \in DOMAIN Adding(raw, known) :
                /\ Adding(raw, known)[i] = raw[i] /\ FirstOfItsName(raw, i)
                /\ raw[i].name \notin known
      BY DEF Adding
    <3>2. ASSUME NEW i \in DOMAIN raw
          PROVE  \/ \E row \in mentionRows : row.name = raw[i].name
                 \/ \E j \in DOMAIN Adding(raw, known) : Adding(raw, known)[j].name = raw[i].name
      <4>1. CASE raw[i].name \in known
        BY <2>1, <2>2, <4>1
      <4>2. CASE raw[i].name \notin known
        BY <4>2, AddingCovers
      <4>3. QED
        BY <4>1, <4>2
    <3>3. ASSUME NEW row \in mentionRows, row.name # 0, NEW i \in DOMAIN Adding(raw, known)
          PROVE  Adding(raw, known)[i].name # row.name
      BY <2>1, <2>2, <3>1, <3>3
    <3>4. QED
      BY <3>1, <3>2, <3>3 DEF CommitFits
  <2> HIDE DEF task
  <2>7. DirectFits(p)'
    BY <1>1, <2>4, <2>5, <2>6 DEF DirectFits
  <2>8. QED
    BY <1>1, <2>3, <2>4, <2>7, DirectMoveInv
<1>4. QED
  BY <1>2, <1>3

(* The end of a run: all is stored, or it is said why not.                 *)
LEMMA CommitDirectInv ==
    ASSUME DirectIInv, NEW p \in Requests, NEW reply \in Outcomes, CommitDirect(p, reply)
    PROVE  DirectIInv'
<1> DEFINE r == request[p]
           posts == {r.adding[i] : i \in DOMAIN r.adding}
           Fault == reply = "failed"
           Spoilt == \E post \in posts : ~post.fits \/ post.name = 0
           Raced == \E row \in r.rivals, post \in posts : PostKey(row) = PostKey(post)
           Stored == Applied(reply) /\ Insertable(r.adding)
<1>1. /\ r.at = "commit"
      /\ IF Stored
         THEN /\ mentionRows' = mentionRows \cup posts
              /\ request' = [Rivalled(posts) EXCEPT ![p] = Free]
         ELSE Answered(p) /\ UNCHANGED mentionRows
      /\ directEnded' = directEnded \cup
            {[found |-> ToSet(r.raw), fault |-> Fault, spoilt |-> Spoilt, raced |-> Raced]}
  BY DEF CommitDirect, Reached
<1>2. CommitFits(mentionRows, r.raw, r.rivals, r.adding)
  BY <1>1 DEF DirectIInv, DirectFits
<1>3. Stored \/ Fault \/ Spoilt \/ Raced
  <2> SUFFICES ASSUME ~Fault, ~Spoilt, ~Raced PROVE Insertable(r.adding)
    BY HandlersAssumption DEF Applied
  <2>1. \A i \in DOMAIN r.adding : r.adding[i].fits /\ r.adding[i].name # 0
    OBVIOUS
  <2>2. ASSUME NEW i \in DOMAIN r.adding, NEW row \in mentionRows
        PROVE  PostKey(row) # PostKey(r.adding[i])
    <3>1. CASE row \in r.rivals
      BY <3>1
    <3>2. CASE row \notin r.rivals
      <4>1. row.name # r.adding[i].name
        BY <1>2, <2>1, <3>2 DEF CommitFits
      <4>2. QED
        BY <4>1 DEF PostKey
    <3>3. QED
      BY <3>1, <3>2
  <2>3. ASSUME NEW i \in DOMAIN r.adding, NEW j \in DOMAIN r.adding, i # j
        PROVE  PostKey(r.adding[i]) # PostKey(r.adding[j])
    <3>1. DOMAIN r.raw = 1 .. Len(r.raw) /\ Len(r.raw) \in Nat
      BY <1>2 DEF CommitFits
    <3>2. i \in 1 .. Len(r.raw) /\ j \in 1 .. Len(r.raw)
      BY <1>2, <3>1 DEF CommitFits
    <3>3. /\ r.raw[i].name # 0 /\ FirstOfItsName(r.raw, i) /\ r.adding[i] = r.raw[i]
          /\ r.raw[j].name # 0 /\ FirstOfItsName(r.raw, j) /\ r.adding[j] = r.raw[j]
      BY <1>2, <2>1 DEF CommitFits
    <3>4. r.raw[i].name # r.raw[j].name
      <4>1. CASE i < j
        <5>1. i \in 1 .. j - 1
          BY <3>1, <3>2, <4>1
        <5>2. QED
          BY <3>3, <5>1 DEF FirstOfItsName
      <4>2. CASE j < i
        <5>1. j \in 1 .. i - 1
          BY <3>1, <3>2, <4>2
        <5>2. QED
          BY <3>3, <5>1 DEF FirstOfItsName
      <4>3. QED
        BY <2>3, <3>1, <3>2, <4>1, <4>2
    <3>5. QED
      BY <3>3, <3>4 DEF PostKey
  <2>4. QED
    BY <2>1, <2>2, <2>3 DEF Insertable
<1>4. Stored => \A post \in ToSet(r.raw) : \E row \in mentionRows \cup posts : row.name = post.name
  <2>1. ASSUME NEW post \in ToSet(r.raw) PROVE \E row \in mentionRows \cup posts : row.name = post.name
    <3>1. PICK i \in DOMAIN r.raw : post = r.raw[i]
      BY DEF ToSet
    <3>2. QED
      BY <1>2, <3>1 DEF CommitFits
  <2>2. QED
    BY <2>1
<1>5. mentionRows \subseteq mentionRows' /\ (Stored => mentionRows' = mentionRows \cup posts)
  BY <1>1
<1> HIDE DEF Fault, Spoilt, Raced, Stored, posts
<1>6. ASSUME NEW run \in directEnded' PROVE run \in directEnded \/ RunExplained(run, mentionRows')
  <2> SUFFICES ASSUME run = [found |-> ToSet(r.raw), fault |-> Fault, spoilt |-> Spoilt,
                             raced |-> Raced]
               PROVE  RunExplained(run, mentionRows')
    BY <1>1
  <2>1. run.found = ToSet(r.raw)
    OBVIOUS
  <2>2. Fault \/ Spoilt \/ Raced => run.fault \/ run.spoilt \/ run.raced
    OBVIOUS
  <2>3. QED
    BY <1>3, <1>4, <1>5, <2>1, <2>2 DEF RunExplained
<1>7. DirectLossIsExplained'
  BY <1>5, <1>6, ExplainedStays DEF DirectIInv
<1>8. RequestsAreFunction' /\ \A q \in Requests : DirectFits(q)'
  <2>1. CASE Stored
    <3>1. /\ RequestsAreFunction' /\ request'[p] = Free
          /\ \A q \in Requests : q # p => request'[q] = Rivalled(posts)[q]
      BY <1>1, <2>1 DEF Rivalled, RequestsAreFunction
    <3>2. DirectFits(p)'
      BY <3>1 DEF DirectFits, Free
    <3>3. ASSUME NEW q \in Requests, q # p PROVE DirectFits(q)'
      BY <1>5, <2>1, <3>1, <3>3, RivalledFits
    <3>4. QED
      BY <3>1, <3>2, <3>3
  <2>2. CASE ~Stored
    <3>1. Moved(p) /\ request'[p] = Free /\ mentionRows' = mentionRows
      BY <1>1, <2>2, AnsweredMoves DEF DirectIInv
    <3>2. DirectFits(p)'
      BY <3>1 DEF DirectFits, Free
    <3>3. ASSUME NEW q \in Requests, q # p PROVE DirectFits(q)'
      <4>1. request'[q] = request[q] /\ DirectFits(q)
        BY <3>1, <3>3 DEF Moved, DirectIInv
      <4>2. QED
        BY <3>1, <4>1 DEF DirectFits, CommitFits
    <3>4. QED
      BY <3>1, <3>2, <3>3 DEF Moved
  <2>3. QED
    BY <2>1, <2>2
<1>9. QED
  BY <1>7, <1>8 DEF DirectIInv

(* At first no run has ended.                                              *)
LEMMA DirectInitInv == DirectInit => DirectIInv
<1> SUFFICES ASSUME DirectInit PROVE DirectIInv
  OBVIOUS
<1>1. RequestsAreFunction /\ \A p \in Requests : request[p].at = "free"
  BY DEF DirectInit, NoRequests, RequestsAreFunction, Free
<1>2. QED
  BY <1>1 DEF DirectIInv, DirectFits, DirectInit, DirectLossIsExplained

(* Every step keeps the invariant.                                         *)
LEMMA DirectStepInv == DirectIInv /\ [DirectNext]_<<directVars, request>> => DirectIInv'
<1> SUFFICES ASSUME DirectIInv, [DirectNext]_<<directVars, request>> PROVE DirectIInv'
  OBVIOUS
<1>1. ASSUME NEW p \in Requests, NEW reply \in Outcomes, DirectRun(p, reply) PROVE DirectIInv'
  BY <1>1, GatheringInv, ReadExistingInv, CommitDirectInv DEF DirectRun
<1>2. ASSUME NEW p \in Requests, DirectCollector(p) PROVE DirectIInv'
  BY <1>2, GatheringInv
<1>3. CASE UNCHANGED <<directVars, request>>
  BY <1>3 DEF directVars, DirectIInv, RequestsAreFunction, DirectFits, CommitFits,
              DirectLossIsExplained
<1>4. QED
  BY <1>1, <1>2, <1>3, QueryStoresInv DEF DirectNext

(* However direct runs overlap with one another and with the query service,*)
(* and whatever fails: each post that a run found is in the table, or one  *)
(* of the three reasons for which a run stores nothing applies.            *)
THEOREM DirectLosesOnlyTheExplained == DirectSpec => []DirectLossIsExplained
<1>1. DirectInit => DirectIInv
  BY DirectInitInv
<1>2. DirectIInv /\ [DirectNext]_<<directVars, request>> => DirectIInv'
  BY DirectStepInv
<1>3. DirectIInv => DirectLossIsExplained
  BY DEF DirectIInv
<1>4. QED
  BY <1>1, <1>2, <1>3, PTL DEF DirectSpec

-----------------------------------------------------------------------------
(* The tasks of the single-process application.                            *)

WorkFields == {"at", "projects", "platforms", "batch", "pending", "found", "excused"}

TaskShape(r) ==
    /\ HasFields(r, WorkFields)
    /\ r.projects \in Seq(DOMAIN TaskPlatforms)
    /\ r.platforms \in Seq(DOMAIN TaskAnswers)
    /\ r.batch \in Seq(TaskPosts)
    /\ r.pending \subseteq TaskKeys /\ r.found \subseteq TaskKeys
    /\ r.at # "load" => r.projects # << >>
    /\ r.at = "store" => r.platforms # << >>
    /\ r.at # "store" => r.batch = << >>

(* A post that a task has found is stored or excused, unless the task is   *)
(* storing it: it is in the session, or to come in the batch.              *)
TaskExplains(r, rows) ==
    \A key \in r.found :
        \/ key \in r.excused
        \/ rows[key] > 0
        \/ r.at = "store" /\ key \in r.pending \cup BatchKeys(r)

RowsAreCounts(rows) == rows \in [TaskKeys -> Nat]

TaskIInv ==
    /\ RequestsAreFunction
    /\ RowsAreCounts(taskRows)
    /\ \A p \in Requests :
          request[p] = Free \/ (TaskShape(request[p]) /\ TaskExplains(request[p], taskRows))
    /\ \A task \in taskEnded : task.found \subseteq TaskKeys
    /\ TaskLossIsExplained

RowsGrow ==
    /\ RowsAreCounts(taskRows')
    /\ \A key \in TaskKeys : taskRows'[key] >= taskRows[key]

(* A sequence that is not empty.                                           *)
LEMMA HeadAndTail ==
    ASSUME NEW S, NEW s \in Seq(S), s # << >>
    PROVE  Head(s) \in S /\ Tail(s) \in Seq(S)
  OBVIOUS

(* A task that is under way.                                               *)
LEMMA TaskUnderWay ==
    ASSUME TaskIInv, NEW p \in Requests, request[p].at # "free"
    PROVE  TaskShape(request[p]) /\ TaskExplains(request[p], taskRows)
  BY DEF TaskIInv, Free

(* Rows that grow explain what they explained.                             *)
LEMMA GrownRowsExplain ==
    ASSUME TaskIInv, RowsGrow
    PROVE  /\ \A r : TaskShape(r) /\ TaskExplains(r, taskRows) => TaskExplains(r, taskRows')
           /\ \A task \in taskEnded : \A key \in task.found \ task.excused : taskRows'[key] > 0
<1>1. ASSUME NEW key \in TaskKeys, taskRows[key] > 0 PROVE taskRows'[key] > 0
  <2>1. taskRows[key] \in Nat /\ taskRows'[key] \in Nat /\ taskRows'[key] >= taskRows[key]
    BY DEF TaskIInv, RowsGrow, RowsAreCounts
  <2>2. QED
    BY <1>1, <2>1
<1>2. QED
  BY <1>1 DEF TaskExplains, TaskShape, TaskIInv, TaskLossIsExplained

(* A task goes on.                                                         *)
LEMMA TaskProceedsInv ==
    ASSUME TaskIInv, NEW p \in Requests, NEW next, TaskProceeds(p, next), RowsGrow,
           taskEnded' = taskEnded, TaskShape(next), TaskExplains(next, taskRows')
    PROVE  TaskIInv'
<1>1. RequestsAreFunction' /\ request'[p] = next /\ \A q \in Requests : q # p => request'[q] = request[q]
  BY DEF TaskIInv, RequestsAreFunction, TaskProceeds
<1>2. ASSUME NEW q \in Requests
      PROVE  request'[q] = Free \/ (TaskShape(request'[q]) /\ TaskExplains(request'[q], taskRows'))
  BY <1>1, GrownRowsExplain DEF TaskIInv
<1>3. TaskLossIsExplained' /\ \A task \in taskEnded' : task.found \subseteq TaskKeys
  BY GrownRowsExplain DEF TaskLossIsExplained, TaskIInv
<1>4. QED
  BY <1>1, <1>2, <1>3 DEF TaskIInv, RowsGrow

(* A task ends, with all it found explained.                               *)
LEMMA EndTaskInv ==
    ASSUME TaskIInv, NEW p \in Requests, NEW given, EndTask(p, given), RowsGrow,
           request[p].found \subseteq TaskKeys,
           \A key \in request[p].found : key \in given \/ taskRows'[key] > 0
    PROVE  TaskIInv'
<1>1. Moved(p) /\ request'[p] = Free
  BY AnsweredMoves DEF EndTask, TaskIInv
<1>2. ASSUME NEW q \in Requests
      PROVE  request'[q] = Free \/ (TaskShape(request'[q]) /\ TaskExplains(request'[q], taskRows'))
  BY <1>1, GrownRowsExplain DEF TaskIInv, Moved
<1> DEFINE ended == [found |-> request[p].found, excused |-> given]
<1>3. taskEnded' = taskEnded \cup {ended} /\ ended.found = request[p].found /\ ended.excused = given
  BY DEF EndTask
<1> HIDE DEF ended
<1>4. TaskLossIsExplained'
  BY <1>3, GrownRowsExplain DEF TaskLossIsExplained
<1>5. \A task \in taskEnded' : task.found \subseteq TaskKeys
  BY <1>3 DEF TaskIInv
<1>6. QED
  BY <1>1, <1>2, <1>4, <1>5 DEF TaskIInv, RowsGrow, Moved

(* A session that breaks excuses what it had not committed.                *)
LEMMA BreakSessionInv ==
    ASSUME TaskIInv, NEW p \in Requests, request[p].at # "free", BreakSession(p), RowsGrow
    PROVE  TaskIInv'
<1>1. TaskShape(request[p]) /\ TaskExplains(request[p], taskRows')
  BY TaskUnderWay, GrownRowsExplain
<1>2. EndTask(p, request[p].excused \cup request[p].pending \cup BatchKeys(request[p]))
  BY DEF BreakSession
<1>3. request[p].found \subseteq TaskKeys
  BY <1>1 DEF TaskShape
<1>4. \A key \in request[p].found :
         key \in request[p].excused \cup request[p].pending \cup BatchKeys(request[p])
            \/ taskRows'[key] > 0
  BY <1>1 DEF TaskExplains
<1>5. QED
  BY <1>2, <1>3, <1>4, EndTaskInv

(* Rows that stay grow, too.                                               *)
LEMMA SameRowsGrow ==
    ASSUME TaskIInv, taskRows' = taskRows
    PROVE  RowsGrow
<1>1. \A key \in TaskKeys : taskRows[key] \in Nat
  BY DEF TaskIInv, RowsAreCounts
<1>2. QED
  BY <1>1 DEF RowsGrow, RowsAreCounts, TaskIInv

(* The projects, as a sequence.                                            *)
LEMMA ProjectsAsSequence == SetToSeq(DOMAIN TaskPlatforms) \in Seq(DOMAIN TaskPlatforms)
<1> DEFINE S == DOMAIN TaskPlatforms
           n == Cardinality(S)
<1>1. IsFiniteSet(S) /\ n \in Nat
  BY TaskAssumption, FS_CardinalityType
<1>2. IsFiniteSet(1 .. n) /\ Cardinality(1 .. n) = n
  BY <1>1, FS_Interval
<1>3. ExistsBijection(1 .. n, S)
  BY <1>1, <1>2, FS_SameCardinalityBij
<1>4. \E f \in [1 .. n -> S] : IsInjective(f)
  BY <1>3 DEF ExistsBijection, Bijection, Injection
<1>5. SetToSeq(S) \in [1 .. n -> S]
  BY <1>4 DEF SetToSeq
<1>6. QED
  BY <1>1, <1>5

(* The start of a task.                                                    *)
LEMMA StartTaskInv ==
    ASSUME TaskIInv, NEW p \in Requests,
           CollectAllProjects(p) \/ \E project \in DOMAIN TaskPlatforms : CollectProject(p, project)
    PROVE  TaskIInv'
<1>1. PICK projects \in Seq(DOMAIN TaskPlatforms) : StartTask(p, projects)
  <2>1. CASE CollectAllProjects(p)
    BY <2>1, ProjectsAsSequence DEF CollectAllProjects
  <2>2. CASE \E project \in DOMAIN TaskPlatforms : CollectProject(p, project)
    <3>1. PICK project \in DOMAIN TaskPlatforms : CollectProject(p, project)
      BY <2>2
    <3>2. <<project>> \in Seq(DOMAIN TaskPlatforms)
      OBVIOUS
    <3>3. QED
      BY <3>1, <3>2 DEF CollectProject
  <2>3. QED
    BY <2>1, <2>2
<1> DEFINE task == [at |-> "load", projects |-> projects, platforms |-> << >>, batch |-> << >>,
                    pending |-> {}, found |-> {}, excused |-> {}]
<1>2. Begin(p, task) /\ UNCHANGED <<taskRows, taskEnded>>
  BY <1>1 DEF StartTask
<1>3. TaskProceeds(p, task)
  BY <1>2 DEF Begin, TaskProceeds
<1>4. HasFields(task, WorkFields)
  BY DEF HasFields, WorkFields
<1>5. /\ task.at = "load" /\ task.projects = projects /\ task.platforms = << >> /\ task.batch = << >>
      /\ task.pending = {} /\ task.found = {}
  OBVIOUS
<1> HIDE DEF task
<1>6. << >> \in Seq(DOMAIN TaskAnswers) /\ << >> \in Seq(TaskPosts)
  OBVIOUS
<1>7. TaskShape(task)
  BY <1>4, <1>5, <1>6 DEF TaskShape
<1>8. TaskExplains(task, taskRows')
  BY <1>5 DEF TaskExplains
<1>9. QED
  BY <1>2, <1>3, <1>7, <1>8, SameRowsGrow, TaskProceedsInv

(* Between two projects or platforms: what was found stays explained.      *)
LEMMA BetweenInv ==
    ASSUME TaskIInv, NEW p \in Requests, NEW next, TaskProceeds(p, next),
           UNCHANGED <<taskRows, taskEnded>>,
           request[p].at \in {"load", "collect"},
           HasFields(next, WorkFields), next.at \in {"load", "collect"},
           next.projects \in Seq(DOMAIN TaskPlatforms),
           next.platforms \in Seq(DOMAIN TaskAnswers),
           next.at # "load" => next.projects # << >>,
           next.batch = request[p].batch, next.pending = request[p].pending,
           next.found = request[p].found, next.excused = request[p].excused
    PROVE  TaskIInv'
<1>1. TaskShape(request[p]) /\ TaskExplains(request[p], taskRows)
  BY TaskUnderWay
<1>2. TaskShape(next) /\ TaskExplains(next, taskRows')
  BY <1>1 DEF TaskShape, TaskExplains
<1>3. QED
  BY <1>2, SameRowsGrow, TaskProceedsInv

(* A project is loaded or passed over.                                     *)
LEMMA LoadTaskProjectInv ==
    ASSUME TaskIInv, NEW p \in Requests, NEW reply, NEW usable \in BOOLEAN,
           LoadTaskProject(p, reply, usable)
    PROVE  TaskIInv'
<1> DEFINE r == request[p]
<1>1. r.at = "load" /\ r.projects # << >> /\ taskRows' = taskRows
  BY DEF LoadTaskProject, Reached
<1>2. TaskShape(r)
  BY <1>1, TaskUnderWay
<1>3. CASE BreakSession(p)
  BY <1>1, <1>3, SameRowsGrow, BreakSessionInv
<1>4. CASE ~BreakSession(p)
  <2>1. taskEnded' = taskEnded
    BY <1>4 DEF LoadTaskProject
  <2>2. Head(r.projects) \in DOMAIN TaskPlatforms /\ Tail(r.projects) \in Seq(DOMAIN TaskPlatforms)
    BY <1>1, <1>2, HeadAndTail DEF TaskShape
  <2>3. TaskPlatforms[Head(r.projects)] \in Seq(DOMAIN TaskAnswers)
    BY <2>2, TaskAssumption
  <2>4. CASE usable
    <3> DEFINE next == [r EXCEPT !.at = "collect", !.platforms = TaskPlatforms[Head(r.projects)]]
    <3>1. TaskProceeds(p, next)
      BY <1>4, <2>4 DEF LoadTaskProject
    <3>2. /\ HasFields(next, WorkFields) /\ next.at = "collect" /\ next.projects = r.projects
          /\ next.platforms = TaskPlatforms[Head(r.projects)]
          /\ next.batch = r.batch /\ next.pending = r.pending
          /\ next.found = r.found /\ next.excused = r.excused
      BY <1>2 DEF TaskShape, HasFields, WorkFields
    <3> HIDE DEF next
    <3>3. r.projects \in Seq(DOMAIN TaskPlatforms)
      BY <1>2 DEF TaskShape
    <3>4. QED
      BY <1>1, <2>1, <2>3, <3>1, <3>2, <3>3, BetweenInv
  <2>5. CASE ~usable
    <3> DEFINE next == [r EXCEPT !.projects = Tail(r.projects)]
    <3>1. TaskProceeds(p, next)
      BY <1>4, <2>5 DEF LoadTaskProject
    <3>2. /\ HasFields(next, WorkFields) /\ next.at = r.at /\ next.projects = Tail(r.projects)
          /\ next.platforms = r.platforms
          /\ next.batch = r.batch /\ next.pending = r.pending
          /\ next.found = r.found /\ next.excused = r.excused
      BY <1>2 DEF TaskShape, HasFields, WorkFields
    <3> HIDE DEF next
    <3>3. r.platforms \in Seq(DOMAIN TaskAnswers)
      BY <1>2 DEF TaskShape
    <3>4. QED
      BY <1>1, <2>1, <2>2, <3>1, <3>2, <3>3, BetweenInv
  <2>6. QED
    BY <2>4, <2>5
<1>5. QED
  BY <1>3, <1>4

(* The next platform, or the next project.                                 *)
LEMMA NextTaskPlatformInv ==
    ASSUME TaskIInv, NEW p \in Requests, NextTaskPlatform(p)
    PROVE  TaskIInv'
<1> DEFINE r == request[p]
<1>1. r.at = "collect" /\ UNCHANGED <<taskRows, taskEnded>>
  BY DEF NextTaskPlatform, Reached, taskVars
<1>2. TaskShape(r)
  BY <1>1, TaskUnderWay
<1>3. CASE r.platforms = << >>
  <2> DEFINE next == [r EXCEPT !.at = "load", !.projects = Tail(r.projects)]
  <2>1. TaskProceeds(p, next)
    BY <1>3 DEF NextTaskPlatform
  <2>2. /\ HasFields(next, WorkFields) /\ next.at = "load" /\ next.projects = Tail(r.projects)
        /\ next.platforms = r.platforms
        /\ next.batch = r.batch /\ next.pending = r.pending
        /\ next.found = r.found /\ next.excused = r.excused
    BY <1>2 DEF TaskShape, HasFields, WorkFields
  <2> HIDE DEF next
  <2>3. r.platforms \in Seq(DOMAIN TaskAnswers) /\ Tail(r.projects) \in Seq(DOMAIN TaskPlatforms)
    BY <1>1, <1>2, HeadAndTail DEF TaskShape
  <2>4. QED
    BY <1>1, <2>1, <2>2, <2>3, BetweenInv
<1>4. CASE r.platforms # << >>
  <2> DEFINE next == [r EXCEPT !.platforms = Tail(r.platforms)]
  <2>1. TaskProceeds(p, next)
    BY <1>4 DEF NextTaskPlatform
  <2>2. /\ HasFields(next, WorkFields) /\ next.at = r.at /\ next.projects = r.projects
        /\ next.platforms = Tail(r.platforms)
        /\ next.batch = r.batch /\ next.pending = r.pending
        /\ next.found = r.found /\ next.excused = r.excused
    BY <1>2 DEF TaskShape, HasFields, WorkFields
  <2> HIDE DEF next
  <2>3. /\ Tail(r.platforms) \in Seq(DOMAIN TaskAnswers)
        /\ r.projects \in Seq(DOMAIN TaskPlatforms) /\ r.projects # << >>
    BY <1>1, <1>2, <1>4, HeadAndTail DEF TaskShape
  <2>4. QED
    BY <1>1, <2>1, <2>2, <2>3, BetweenInv
<1>5. QED
  BY <1>3, <1>4

(* The posts of a batch.                                                   *)
LEMMA BatchKeysAre ==
    ASSUME NEW r, r.batch \in Seq(TaskPosts), r.batch # << >>
    PROVE  BatchKeys(r) = {<<Head(r.projects), Head(r.batch)>>}
                            \cup {<<Head(r.projects), post>> : post \in ToSet(Tail(r.batch))}
<1>1. PICK batch \in Seq(TaskPosts) : batch = r.batch /\ batch # << >>
  OBVIOUS
<1>2. ToSet(batch) = {Head(batch)} \cup ToSet(Tail(batch))
  <2>1. ASSUME NEW post \in ToSet(batch) PROVE post = Head(batch) \/ post \in ToSet(Tail(batch))
    <3>1. PICK i \in 1 .. Len(batch) : post = batch[i]
      BY DEF ToSet
    <3>2. CASE i = 1
      BY <3>1, <3>2
    <3>3. CASE i # 1
      <4>1. i - 1 \in 1 .. Len(Tail(batch)) /\ Tail(batch)[i - 1] = batch[i]
        BY <1>1, <3>1, <3>3
      <4>2. Tail(batch) \in Seq(TaskPosts)
        BY <1>1
      <4>3. i - 1 \in DOMAIN Tail(batch)
        BY <4>1, <4>2
      <4>4. QED
        BY <3>1, <4>1, <4>3 DEF ToSet
    <3>4. QED
      BY <3>2, <3>3
  <2>2. Head(batch) \in ToSet(batch)
    <3>1. 1 \in DOMAIN batch /\ Head(batch) = batch[1]
      BY <1>1
    <3>2. QED
      BY <3>1 DEF ToSet
  <2>3. ASSUME NEW post \in ToSet(Tail(batch)) PROVE post \in ToSet(batch)
    <3>1. Tail(batch) \in Seq(TaskPosts) /\ Len(Tail(batch)) = Len(batch) - 1
      BY <1>1
    <3>2. PICK i \in 1 .. Len(batch) - 1 : post = Tail(batch)[i]
      BY <3>1 DEF ToSet
    <3>3. i + 1 \in DOMAIN batch /\ Tail(batch)[i] = batch[i + 1]
      BY <1>1, <3>2
    <3>4. QED
      BY <3>2, <3>3 DEF ToSet
  <2>4. QED
    BY <2>1, <2>2, <2>3
<1>3. QED
  BY <1>1, <1>2 DEF BatchKeys

(* The posts a platform's collector returns.                               *)
LEMMA CollectTaskPlatformInv ==
    ASSUME TaskIInv, NEW p \in Requests, CollectTaskPlatform(p)
    PROVE  TaskIInv'
<1> DEFINE r == request[p]
           Brought(posts) == {<<Head(r.projects), post>> : post \in ToSet(posts)}
<1>1. r.at = "collect" /\ r.platforms # << >> /\ UNCHANGED <<taskRows, taskEnded>>
  BY DEF CollectTaskPlatform, Reached, taskVars
<1>2. TaskShape(r) /\ TaskExplains(r, taskRows)
  BY <1>1, TaskUnderWay
<1>3. PICK posts \in TaskAnswers[Head(r.platforms)] :
         TaskProceeds(p, [r EXCEPT !.at = "store", !.batch = posts, !.found = r.found \cup Brought(posts)])
  BY DEF CollectTaskPlatform
<1> DEFINE next == [r EXCEPT !.at = "store", !.batch = posts, !.found = r.found \cup Brought(posts)]
<1>4. posts \in Seq(TaskPosts)
  <2>1. Head(r.platforms) \in DOMAIN TaskAnswers
    BY <1>1, <1>2 DEF TaskShape
  <2>2. QED
    BY <1>3, <2>1, TaskAssumption
<1>5. Brought(posts) \subseteq TaskKeys
  <2>1. Head(r.projects) \in DOMAIN TaskPlatforms
    BY <1>1, <1>2 DEF TaskShape
  <2>2. ToSet(posts) \subseteq TaskPosts
    BY <1>4 DEF ToSet
  <2>3. QED
    BY <2>1, <2>2 DEF TaskKeys
<1>6. /\ HasFields(next, WorkFields) /\ next.at = "store" /\ next.projects = r.projects
      /\ next.platforms = r.platforms /\ next.batch = posts /\ next.pending = r.pending
      /\ next.found = r.found \cup Brought(posts) /\ next.excused = r.excused
  BY <1>2 DEF TaskShape, HasFields, WorkFields
<1>7. BatchKeys(next) = Brought(posts)
  BY <1>6 DEF BatchKeys
<1> HIDE DEF next, Brought
<1>8. TaskShape(next)
  BY <1>1, <1>2, <1>4, <1>5, <1>6 DEF TaskShape
<1>9. TaskExplains(next, taskRows')
  BY <1>1, <1>2, <1>6, <1>7 DEF TaskExplains
<1>10. TaskProceeds(p, next)
  BY <1>3 DEF next
<1>11. QED
  BY <1>1, <1>8, <1>9, <1>10, SameRowsGrow, TaskProceedsInv

(* One post is looked up, and added if it is not there.                    *)
LEMMA StoreTaskPostInv ==
    ASSUME TaskIInv, NEW p \in Requests, NEW reply, StoreTaskPost(p, reply)
    PROVE  TaskIInv'
<1> DEFINE r == request[p]
           key == <<Head(r.projects), Head(r.batch)>>
<1>1. r.at = "store" /\ r.batch # << >> /\ taskRows' = taskRows
  BY DEF StoreTaskPost, Reached
<1>2. TaskShape(r) /\ TaskExplains(r, taskRows)
  BY <1>1, TaskUnderWay
<1>3. CASE BreakSession(p)
  BY <1>1, <1>3, SameRowsGrow, BreakSessionInv
<1>4. CASE ~BreakSession(p)
  <2>1. /\ taskEnded' = taskEnded
        /\ TaskProceeds(p,
              IF RowsSeen(r, key) > 1
              THEN [r EXCEPT !.at = "collect", !.platforms = Tail(r.platforms), !.batch = << >>,
                             !.excused = r.excused \cup BatchKeys(r) \cup r.pending]
              ELSE IF RowsSeen(r, key) = 1
              THEN [r EXCEPT !.batch = Tail(r.batch)]
              ELSE [r EXCEPT !.batch = Tail(r.batch), !.pending = r.pending \cup {key}])
    BY <1>4 DEF StoreTaskPost
  <2>2. Tail(r.batch) \in Seq(TaskPosts) /\ Tail(r.platforms) \in Seq(DOMAIN TaskAnswers)
    BY <1>1, <1>2, HeadAndTail DEF TaskShape
  <2>3. key \in TaskKeys
    <3>1. Head(r.projects) \in DOMAIN TaskPlatforms /\ Head(r.batch) \in TaskPosts
      BY <1>1, <1>2 DEF TaskShape
    <3>2. QED
      BY <3>1 DEF TaskKeys
  <2>4. taskRows[key] \in Nat
    BY <2>3 DEF TaskIInv, RowsAreCounts
  <2>5. PICK rest : rest = {<<Head(r.projects), post>> : post \in ToSet(Tail(r.batch))}
    OBVIOUS
  <2>6. BatchKeys(r) = {key} \cup rest
    BY <1>1, <1>2, <2>5, BatchKeysAre DEF TaskShape
  <2>7. CASE RowsSeen(r, key) > 1
    <3> DEFINE next == [r EXCEPT !.at = "collect", !.platforms = Tail(r.platforms), !.batch = << >>,
                                 !.excused = r.excused \cup BatchKeys(r) \cup r.pending]
    <3>1. TaskProceeds(p, next)
      BY <2>1, <2>7
    <3>2. /\ HasFields(next, WorkFields) /\ next.at = "collect" /\ next.projects = r.projects
          /\ next.platforms = Tail(r.platforms) /\ next.batch = << >> /\ next.pending = r.pending
          /\ next.found = r.found /\ next.excused = r.excused \cup BatchKeys(r) \cup r.pending
      BY <1>2 DEF TaskShape, HasFields, WorkFields
    <3> HIDE DEF next
    <3>3. TaskShape(next)
      <4>1. << >> \in Seq(TaskPosts)
        OBVIOUS
      <4>2. QED
        BY <1>1, <1>2, <2>2, <3>2, <4>1 DEF TaskShape
    <3>4. TaskExplains(next, taskRows')
      BY <1>1, <1>2, <3>2 DEF TaskExplains
    <3>5. QED
      BY <1>1, <2>1, <3>1, <3>3, <3>4, SameRowsGrow, TaskProceedsInv
  <2>8. CASE RowsSeen(r, key) = 1
    <3> DEFINE next == [r EXCEPT !.batch = Tail(r.batch)]
    <3>1. TaskProceeds(p, next)
      BY <2>1, <2>8
    <3>2. /\ HasFields(next, WorkFields) /\ next.at = "store" /\ next.projects = r.projects
          /\ next.platforms = r.platforms /\ next.batch = Tail(r.batch) /\ next.pending = r.pending
          /\ next.found = r.found /\ next.excused = r.excused
      BY <1>1, <1>2 DEF TaskShape, HasFields, WorkFields
    <3> HIDE DEF next
    <3>3. BatchKeys(next) = rest
      BY <2>5, <3>2 DEF BatchKeys
    <3>4. taskRows[key] > 0 \/ key \in r.pending
      BY <2>4, <2>8 DEF RowsSeen
    <3>5. TaskShape(next)
      BY <1>1, <1>2, <2>2, <3>2 DEF TaskShape
    <3>6. TaskExplains(next, taskRows')
      BY <1>1, <1>2, <2>6, <3>2, <3>3, <3>4 DEF TaskExplains
    <3>7. QED
      BY <1>1, <2>1, <3>1, <3>5, <3>6, SameRowsGrow, TaskProceedsInv
  <2>9. CASE ~(RowsSeen(r, key) > 1) /\ RowsSeen(r, key) # 1
    <3> DEFINE next == [r EXCEPT !.batch = Tail(r.batch), !.pending = r.pending \cup {key}]
    <3>1. TaskProceeds(p, next)
      BY <2>1, <2>9
    <3>2. /\ HasFields(next, WorkFields) /\ next.at = "store" /\ next.projects = r.projects
          /\ next.platforms = r.platforms /\ next.batch = Tail(r.batch)
          /\ next.pending = r.pending \cup {key}
          /\ next.found = r.found /\ next.excused = r.excused
      BY <1>1, <1>2 DEF TaskShape, HasFields, WorkFields
    <3> HIDE DEF next
    <3>3. BatchKeys(next) = rest
      BY <2>5, <3>2 DEF BatchKeys
    <3>4. TaskShape(next)
      BY <1>1, <1>2, <2>2, <2>3, <3>2 DEF TaskShape
    <3>5. TaskExplains(next, taskRows')
      BY <1>1, <1>2, <2>6, <3>2, <3>3 DEF TaskExplains
    <3>6. QED
      BY <1>1, <2>1, <3>1, <3>4, <3>5, SameRowsGrow, TaskProceedsInv
  <2>10. QED
    BY <2>7, <2>8, <2>9
<1>5. QED
  BY <1>3, <1>4

(* A commit writes all that the session has pending, or nothing.           *)
LEMMA CommitTaskPostsInv ==
    ASSUME TaskIInv, NEW p \in Requests, NEW reply \in Outcomes, CommitTaskPosts(p, reply)
    PROVE  TaskIInv'
<1> DEFINE r == request[p]
           Written == Applied(reply) /\ ~Unwritable(r)
<1>1. /\ r.at = "store" /\ r.batch = << >>
      /\ IF Written THEN WriteTaskRows(r) ELSE UNCHANGED taskRows
      /\ IF Raised(reply) \/ Unwritable(r) THEN BreakSession(p)
         ELSE /\ TaskProceeds(p, [r EXCEPT !.at = "collect", !.platforms = Tail(r.platforms),
                                           !.pending = {}])
              /\ UNCHANGED taskEnded
  BY DEF CommitTaskPosts, Reached
<1>2. TaskShape(r) /\ TaskExplains(r, taskRows)
  BY <1>1, TaskUnderWay
<1>3. RowsGrow /\ (Written => \A key \in r.pending : taskRows'[key] > 0)
  <2>1. \A key \in TaskKeys : taskRows[key] \in Nat
    BY DEF TaskIInv, RowsAreCounts
  <2>2. CASE Written
    <3>1. taskRows' = [key \in TaskKeys |-> taskRows[key] + IF key \in r.pending THEN 1 ELSE 0]
      BY <1>1, <2>2 DEF WriteTaskRows
    <3>2. \A key \in TaskKeys : /\ taskRows'[key] \in Nat /\ taskRows'[key] >= taskRows[key]
                                /\ key \in r.pending => taskRows'[key] > 0
      BY <2>1, <3>1
    <3>3. r.pending \subseteq TaskKeys
      BY <1>2 DEF TaskShape
    <3>4. RowsAreCounts(taskRows')
      BY <3>1, <3>2 DEF RowsAreCounts
    <3>5. QED
      BY <3>2, <3>3, <3>4 DEF RowsGrow
  <2>3. CASE ~Written
    BY <1>1, <2>3, SameRowsGrow
  <2>4. QED
    BY <2>2, <2>3
<1>4. CASE Raised(reply) \/ Unwritable(r)
  BY <1>1, <1>3, <1>4, BreakSessionInv
<1>5. CASE ~(Raised(reply) \/ Unwritable(r))
  <2> DEFINE next == [r EXCEPT !.at = "collect", !.platforms = Tail(r.platforms), !.pending = {}]
  <2>1. TaskProceeds(p, next) /\ taskEnded' = taskEnded
    BY <1>1, <1>5
  <2>2. /\ HasFields(next, WorkFields) /\ next.at = "collect" /\ next.projects = r.projects
        /\ next.platforms = Tail(r.platforms) /\ next.batch = << >> /\ next.pending = {}
        /\ next.found = r.found /\ next.excused = r.excused
    BY <1>1, <1>2 DEF TaskShape, HasFields, WorkFields
  <2> HIDE DEF next
  <2>3. Written
    BY <1>5, HandlersAssumption DEF Applied, Raised, BusReply
  <2>4. BatchKeys(r) = {}
    BY <1>1 DEF BatchKeys, ToSet
  <2>5. TaskExplains(r, taskRows')
    BY <1>2, <1>3, GrownRowsExplain
  <2>6. TaskExplains(next, taskRows')
    BY <1>3, <2>2, <2>3, <2>4, <2>5 DEF TaskExplains
  <2>7. TaskShape(next)
    <3>1. Tail(r.platforms) \in Seq(DOMAIN TaskAnswers)
      BY <1>1, <1>2, HeadAndTail DEF TaskShape
    <3>2. QED
      BY <1>1, <1>2, <2>2, <3>1 DEF TaskShape
  <2>8. QED
    BY <1>3, <2>1, <2>6, <2>7, TaskProceedsInv
<1>6. QED
  BY <1>4, <1>5

(* At first no task has ended.                                             *)
LEMMA TaskInitInv == TaskInit => TaskIInv
BY DEF TaskInit, NoRequests, TaskIInv, RequestsAreFunction, RowsAreCounts, TaskLossIsExplained

(* Every step keeps the invariant.                                         *)
LEMMA TaskStepInv == TaskIInv /\ [TaskNext]_<<taskVars, request>> => TaskIInv'
<1> SUFFICES ASSUME TaskIInv, [TaskNext]_<<taskVars, request>> PROVE TaskIInv'
  OBVIOUS
<1>1. ASSUME NEW p \in Requests, CollectionTask(p) PROVE TaskIInv'
  <2>1. ASSUME NEW reply \in Outcomes, NEW usable \in BOOLEAN, LoadTaskProject(p, reply, usable)
        PROVE  TaskIInv'
    BY <2>1, LoadTaskProjectInv
  <2>2. ASSUME NEW reply \in Outcomes, StoreTaskPost(p, reply) \/ CommitTaskPosts(p, reply)
        PROVE  TaskIInv'
    BY <2>2, StoreTaskPostInv, CommitTaskPostsInv
  <2>3. CASE FinishTask(p)
    <3>1. /\ request[p].at = "load" /\ EndTask(p, request[p].excused) /\ taskRows' = taskRows
      BY <2>3 DEF FinishTask, Reached
    <3>2. TaskShape(request[p]) /\ TaskExplains(request[p], taskRows)
      BY <3>1, TaskUnderWay
    <3>3. request[p].found \subseteq TaskKeys
      BY <3>2 DEF TaskShape
    <3>4. \A key \in request[p].found : key \in request[p].excused \/ taskRows'[key] > 0
      BY <3>1, <3>2 DEF TaskExplains
    <3>5. QED
      BY <3>1, <3>3, <3>4, SameRowsGrow, EndTaskInv
  <2>4. CASE TaskDies(p)
    <3>1. Answered(p) /\ UNCHANGED taskVars
      BY <2>4 DEF TaskDies
    <3>2. Moved(p) /\ request'[p] = Free
      BY <3>1, AnsweredMoves DEF TaskIInv
    <3>3. QED
      BY <3>1, <3>2 DEF TaskIInv, Moved, taskVars, TaskLossIsExplained
  <2>5. QED
    BY <1>1, <2>1, <2>2, <2>3, <2>4, StartTaskInv, CollectTaskPlatformInv, NextTaskPlatformInv
       DEF CollectionTask
<1>2. CASE UNCHANGED <<taskVars, request>>
  BY <1>2 DEF taskVars, TaskIInv, RequestsAreFunction, TaskLossIsExplained
<1>3. QED
  BY <1>1, <1>2 DEF TaskNext

(* However tasks overlap, break or die: a post that a task found is stored *)
(* when the task has ended, unless it was excused.                         *)
THEOREM TaskLosesOnlyTheExplained == TaskSpec => []TaskLossIsExplained
<1>1. TaskInit => TaskIInv
  BY TaskInitInv
<1>2. TaskIInv /\ [TaskNext]_<<taskVars, request>> => TaskIInv'
  BY TaskStepInv
<1>3. TaskIInv => TaskLossIsExplained
  BY DEF TaskIInv
<1>4. QED
  BY <1>1, <1>2, <1>3, PTL DEF TaskSpec

-----------------------------------------------------------------------------
(* The rate limiter.                                                       *)

Base ==
    /\ LimiterTypeOK
    /\ IsFiniteSet(recorded)
    /\ \A c \in Callers :
          started[c] <= now /\ (phase[c] = "expire" => mine[c] \in recorded)

TTLCovers ==
    ttl # NoTTL =>
        /\ \A m \in recorded \ zset : m.score + Window <= ttl \/ m \in cut
        /\ \A m \in zset :
              \/ m.score + Window <= ttl \/ m \in cut
              \/ \E c \in Callers : phase[c] = "expire" /\ mine[c] = m

GrantsAndAdmitted ==
    Cardinality(Live(Granted)) + Cardinality(Admitted)
        <= MaxRequests + 2 * Cardinality(Callers) - 1

-----------------------------------------------------------------------------
(* Typing.                                                                 *)

(* The types hold at first.                                                *)
LEMMA InitBase == LimiterInit => Base
<1> SUFFICES ASSUME LimiterInit PROVE Base
  OBVIOUS
<1>1. LimiterTypeOK
  BY DEF LimiterInit, LimiterTypeOK, Phase, Member, NoTTL
<1>2. QED
  BY <1>1, FS_EmptySet DEF LimiterInit, Base

(* A step keeps the types.                                                 *)
LEMMA StepBase ==
    ASSUME Base, [LimiterNext]_limiterVars
    PROVE  Base'
<1> USE LimiterAssumption DEF Base
<1>1. CASE UNCHANGED limiterVars
  BY <1>1 DEF limiterVars, LimiterTypeOK
<1>2. ASSUME NEW c \in Callers, BeginAcquire(c) PROVE Base'
  BY <1>2 DEF BeginAcquire, LimiterTypeOK, Phase
<1>3. ASSUME NEW c \in Callers, Count(c) PROVE Base'
  BY <1>3 DEF Count, LimiterTypeOK, Phase, Unexpired
<1>4. ASSUME NEW c \in Callers, Record(c) PROVE Base'
  <2> DEFINE member == [score |-> started[c], id |-> Cardinality(recorded)]
  <2>1. member \in Member /\ member.score <= now
    BY FS_CardinalityType DEF Member, LimiterTypeOK
  <2>2. IsFiniteSet(recorded')
    BY <1>4, FS_AddElement DEF Record
  <2>3. /\ zset' = zset \cup {member}
        /\ recorded' = recorded \cup {member}
        /\ mine' = [mine EXCEPT ![c] = member]
        /\ phase' = [phase EXCEPT ![c] = "expire"]
        /\ UNCHANGED <<now, ttl, started, cut>>
    BY <1>4 DEF Record
  <2> HIDE DEF member
  <2>4. LimiterTypeOK'
    BY <2>1, <2>3 DEF LimiterTypeOK, Phase
  <2>5. \A d \in Callers :
           started'[d] <= now' /\ (phase'[d] = "expire" => mine'[d] \in recorded')
    BY <2>3 DEF LimiterTypeOK
  <2>6. QED
    BY <2>2, <2>4, <2>5
<1>5. ASSUME NEW c \in Callers, SetTTL(c) PROVE Base'
  BY <1>5 DEF SetTTL, LimiterTypeOK, Phase, NoTTL
<1>6. ASSUME NEW c \in Callers, Raise(c) PROVE Base'
  BY <1>6 DEF Raise, LimiterTypeOK, Phase
<1>7. CASE Tick
  <2>1. /\ now' = now + 1 /\ now' \in Nat
        /\ UNCHANGED <<phase, started, mine, recorded, cut>>
    BY <1>7 DEF Tick, LimiterTypeOK
  <2>2. /\ zset' \subseteq recorded'
        /\ ttl' \in Nat \cup {NoTTL}
        /\ ttl' # NoTTL => zset' # {} /\ now' < ttl'
    BY <1>7, <2>1 DEF Tick, LimiterTypeOK, NoTTL
  <2>3. \A m \in recorded' : m.score <= now'
    BY <2>1 DEF LimiterTypeOK, Member
  <2>4. \A c \in Callers :
           started'[c] <= now' /\ (phase'[c] = "expire" => mine'[c] \in recorded')
    BY <2>1 DEF LimiterTypeOK
  <2>5. QED
    BY <2>1, <2>2, <2>3, <2>4 DEF LimiterTypeOK
<1>8. QED
  BY <1>1, <1>2, <1>3, <1>4, <1>5, <1>6, <1>7 DEF LimiterNext

(* The variables of acquire keep their types, only recorded members are in *)
(* the key, and a key with a TTL has members and has not expired.          *)
THEOREM LimiterTyping == LimiterSpec => []LimiterTypeOK
<1>1. LimiterSpec => []Base
  BY InitBase, StepBase, PTL DEF LimiterSpec
<1>2. Base => LimiterTypeOK
  BY DEF Base
<1>3. QED
  BY <1>1, <1>2, PTL

-----------------------------------------------------------------------------
(* Counting.                                                               *)

(* The entries recorded within the window are finitely many.               *)
LEMMA LiveFinite ==
    ASSUME Base, NEW S \in SUBSET recorded
    PROVE  /\ IsFiniteSet(S) /\ IsFiniteSet(Live(S))
           /\ Cardinality(S) \in Nat /\ Cardinality(Live(S)) \in Nat
           /\ Cardinality(Live(S)) <= Cardinality(S)
<1>1. IsFiniteSet(S)
  BY FS_Subset DEF Base
<1>2. Live(S) \in SUBSET S
  BY DEF Live, Unexpired
<1>3. QED
  BY <1>1, <1>2, FS_Subset, FS_CardinalityType

(* There are finitely many callers, and at least one.                      *)
LEMMA SomeCallers ==
    ASSUME NEW S \in SUBSET Callers
    PROVE  /\ IsFiniteSet(S)
           /\ Cardinality(S) \in Nat
           /\ Cardinality(Callers) \in Nat \ {0}
           /\ Cardinality(S) <= Cardinality(Callers)
  BY LimiterAssumption, FS_Subset, FS_CardinalityType, FS_EmptySet

(* So are those let in whose entry is not recorded yet.                    *)
LEMMA AdmittedFinite ==
    /\ IsFiniteSet(Admitted)
    /\ Cardinality(Admitted) \in Nat
    /\ Cardinality(Callers) \in Nat \ {0}
    /\ Cardinality(Admitted) <= Cardinality(Callers)
<1>1. Admitted \in SUBSET Callers
  BY DEF Admitted
<1>2. QED
  BY <1>1, SomeCallers

(* A step that makes fewer members live and admits nobody adds to neither  *)
(* side of the sums.                                                       *)
LEMMA FewerLive ==
    ASSUME Base, NEW S \in SUBSET recorded, NEW T \in SUBSET S, NEW t \in Nat,
           now <= t
    PROVE  Cardinality(Unexpired(T, t)) <= Cardinality(Live(S))
<1>1. Unexpired(T, t) \in SUBSET Live(S)
  BY LimiterAssumption DEF Live, Unexpired, Base, LimiterTypeOK, Member
<1>2. QED
  BY <1>1, LiveFinite, FS_Subset

-----------------------------------------------------------------------------
(* The key itself.                                                         *)

KeyInv == Base /\ KeyBounded

(* The window starts empty.                                                *)
LEMMA InitEmpty ==
    LimiterInit => /\ Cardinality(Live(zset)) = 0
                   /\ Cardinality(Live(Granted)) = 0
                   /\ Cardinality(Live(Granted \ zset)) = 0
                   /\ Cardinality(Admitted) = 0
<1> SUFFICES ASSUME LimiterInit
             PROVE  /\ Live(zset) = {} /\ Live(Granted) = {}
                    /\ Live(Granted \ zset) = {} /\ Admitted = {}
  BY FS_EmptySet
<1>1. QED
  BY DEF LimiterInit, Live, Unexpired, Admitted, Granted

(* A step of a caller outside the phase "record" never admits anybody but  *)
(* in Count, and what a call admits it counted first.                      *)
LEMMA NoAdmission ==
    ASSUME NEW c \in Callers, phase \in [Callers -> Phase],
           NEW p \in Phase, p # "record", phase' = [phase EXCEPT ![c] = p]
    PROVE  /\ Cardinality(Admitted') <= Cardinality(Admitted)
           /\ phase[c] = "record" =>
                  Cardinality(Admitted') = Cardinality(Admitted) - 1
<1>1. Admitted' = Admitted \ {c}
  BY DEF Admitted
<1>2. phase[c] = "record" <=> c \in Admitted
  BY DEF Admitted
<1>3. Cardinality(Admitted \ {c}) =
         IF c \in Admitted THEN Cardinality(Admitted) - 1 ELSE Cardinality(Admitted)
  BY AdmittedFinite, FS_RemoveElement
<1>4. Cardinality(Admitted') = Cardinality(Admitted \ {c})
  BY <1>1
<1>5. QED
  BY <1>2, <1>3, <1>4, AdmittedFinite

(* Counting admits one caller more only if the window has room.            *)
LEMMA CountAdmission ==
    ASSUME Base, NEW c \in Callers, Count(c)
    PROVE  /\ Base'
           /\ zset' \subseteq zset /\ Granted' = Granted /\ now' = now
           /\ Live(zset)' = Live(zset) /\ Live(Granted \ zset)' = Live(Granted \ zset)
           /\ \/ Cardinality(Admitted') <= Cardinality(Admitted)
              \/ /\ Cardinality(Live(zset)') < MaxRequests
                 /\ Cardinality(Admitted') <= Cardinality(Callers)
           /\ Cardinality(Admitted') \in Nat /\ Cardinality(Live(zset)') \in Nat
<1> USE LimiterAssumption
<1>1. Base'
  BY StepBase DEF LimiterNext
<1>2. /\ zset' = Unexpired(zset, started[c])
      /\ Granted' = Granted /\ now' = now
  BY DEF Count, Granted
<1>3. zset' \subseteq zset
  BY <1>2 DEF Unexpired
<1>4. \A m \in zset \ zset' : ~(m.score > now - Window)
  BY <1>2 DEF Unexpired, Base, LimiterTypeOK, Member
<1>5. /\ Live(zset)' = Live(zset)
      /\ Live(Granted \ zset)' = Live(Granted \ zset)
  BY <1>2, <1>3, <1>4 DEF Live, Unexpired, Base, LimiterTypeOK
<1>6. Cardinality(Live(zset)') <= Cardinality(zset') /\ Cardinality(zset') \in Nat
      /\ Cardinality(Live(zset)') \in Nat
  <2>1. zset' \in SUBSET recorded
    BY <1>2, <1>3 DEF Base, LimiterTypeOK
  <2>2. Live(zset)' = Live(zset')
    BY <1>2 DEF Live, Unexpired
  <2>3. QED
    BY <2>1, <2>2, LiveFinite
<1>7. Cardinality(Admitted') \in Nat /\ Cardinality(Admitted') <= Cardinality(Callers)
  <2>1. Admitted' \in SUBSET Callers
    BY DEF Admitted
  <2>2. QED
    BY <2>1, SomeCallers
<1>8. CASE Cardinality(zset') >= MaxRequests
  <2>1. phase' = [phase EXCEPT ![c] = "idle"]
    BY <1>8 DEF Count
  <2>2. Cardinality(Admitted') <= Cardinality(Admitted)
    BY <2>1, NoAdmission DEF Base, LimiterTypeOK, Phase
  <2>3. QED
    BY <2>2, <1>1, <1>2, <1>3, <1>5, <1>6, <1>7
<1>9. CASE ~(Cardinality(zset') >= MaxRequests)
  BY <1>9, <1>1, <1>2, <1>3, <1>5, <1>6, <1>7
<1>10. QED
  BY <1>8, <1>9

(* Adding an element adds at most one to the size.                         *)
LEMMA OneMore ==
    ASSUME NEW S, IsFiniteSet(S), NEW x, NEW T \in SUBSET (S \cup {x})
    PROVE  Cardinality(T) \in Nat /\ Cardinality(T) <= Cardinality(S) + 1
<1>1. Cardinality(S) \in Nat
  BY FS_CardinalityType
<1>2. IsFiniteSet(S \cup {x})
  BY FS_AddElement
<1>3. Cardinality(S \cup {x}) <= Cardinality(S) + 1
  <2>1. Cardinality(S \cup {x}) =
           IF x \in S THEN Cardinality(S) ELSE Cardinality(S) + 1
    BY FS_AddElement
  <2>2. QED
    BY <1>1, <2>1
<1>4. IsFiniteSet(T) /\ Cardinality(T) <= Cardinality(S \cup {x})
  BY <1>2, FS_Subset
<1>5. Cardinality(T) \in Nat /\ Cardinality(S \cup {x}) \in Nat
  BY <1>2, <1>4, FS_CardinalityType
<1>6. QED
  BY <1>1, <1>3, <1>4, <1>5

(* Recording moves one caller from admitted to the window.                 *)
LEMMA RecordCounts ==
    ASSUME Base, NEW c \in Callers, Record(c)
    PROVE  /\ Cardinality(Admitted') = Cardinality(Admitted) - 1
           /\ Cardinality(Live(zset)') <= Cardinality(Live(zset)) + 1
           /\ Cardinality(Live(Granted)') <= Cardinality(Live(Granted)) + 1
           /\ Cardinality(Live(zset)') \in Nat /\ Cardinality(Live(Granted)') \in Nat
<1> DEFINE member == [score |-> started[c], id |-> Cardinality(recorded)]
<1>1. /\ zset' = zset \cup {member} /\ Granted' \subseteq Granted \cup {member}
      /\ now' = now /\ phase[c] = "record" /\ phase' = [phase EXCEPT ![c] = "expire"]
  BY DEF Record, Granted
<1> HIDE DEF member
<1>2. Cardinality(Admitted') = Cardinality(Admitted) - 1
  BY <1>1, NoAdmission DEF Base, LimiterTypeOK, Phase
<1>3. ASSUME NEW S \in SUBSET recorded, NEW T \in SUBSET (S \cup {member})
      PROVE  /\ Cardinality(Live(T)) <= Cardinality(Live(S)) + 1
             /\ Cardinality(Live(T)) \in Nat
  <2>1. Live(T) \in SUBSET (Live(S) \cup {member})
    BY DEF Live, Unexpired
  <2>2. IsFiniteSet(Live(S))
    BY <1>3, LiveFinite
  <2>3. QED
    BY <2>1, <2>2, OneMore
<1>4. Live(zset)' = Live(zset') /\ Live(Granted)' = Live(Granted')
  BY <1>1 DEF Live, Unexpired
<1>5. /\ zset \in SUBSET recorded /\ Granted \in SUBSET recorded
      /\ zset' \in SUBSET (zset \cup {member}) /\ Granted' \in SUBSET (Granted \cup {member})
  BY <1>1 DEF Base, LimiterTypeOK, Granted
<1>6. QED
  BY <1>2, <1>3, <1>4, <1>5

(* Every step keeps the bound on the window.                               *)
LEMMA StepKey ==
    ASSUME KeyInv, [LimiterNext]_limiterVars
    PROVE  KeyInv'
<1> USE LimiterAssumption DEF KeyInv
<1>1. Base'
  BY StepBase
<1> DEFINE live == Cardinality(Live(zset))
           admitted == Cardinality(Admitted)
<1>2. live \in Nat /\ admitted \in Nat /\ Cardinality(Callers) \in Nat \ {0}
  BY LiveFinite, AdmittedFinite DEF Base, LimiterTypeOK
<1>3. live' \in Nat /\ admitted' \in Nat
  <2>1. Admitted' \in SUBSET Callers
    BY DEF Admitted
  <2>2. Cardinality(Admitted') \in Nat
    BY <2>1, SomeCallers
  <2>3. Live(zset)' \in SUBSET recorded'
    BY <1>1 DEF Base, LimiterTypeOK, Live, Unexpired
  <2>4. Cardinality(Live(zset)') \in Nat
    BY <1>1, <2>3, FS_Subset, FS_CardinalityType DEF Base
  <2>5. QED
    BY <2>2, <2>4
<1>4. KeyBounded <=> live + admitted <= MaxRequests + Cardinality(Callers) - 1
  BY DEF KeyBounded
<1>5. KeyBounded' <=> live' + admitted' <= MaxRequests + Cardinality(Callers) - 1
  BY DEF KeyBounded
<1>6. SUFFICES live' + admitted' <= MaxRequests + Cardinality(Callers) - 1
  BY <1>1, <1>5
<1>7. CASE UNCHANGED limiterVars
  BY <1>7, <1>4 DEF limiterVars, Live, Unexpired, Admitted
<1>8. ASSUME NEW c \in Callers, BeginAcquire(c) \/ SetTTL(c) \/ Raise(c)
      PROVE  live' + admitted' <= MaxRequests + Cardinality(Callers) - 1
  <2>1. live' = live
    BY <1>8 DEF BeginAcquire, SetTTL, Raise, Live, Unexpired
  <2>2. PICK p \in {"idle", "count"} : phase' = [phase EXCEPT ![c] = p]
    BY <1>8 DEF BeginAcquire, SetTTL, Raise
  <2>3. admitted' <= admitted
    BY <2>2, NoAdmission DEF Base, LimiterTypeOK, Phase
  <2>4. QED
    BY <2>1, <2>3, <1>2, <1>3, <1>4
<1>9. ASSUME NEW c \in Callers, Count(c)
      PROVE  live' + admitted' <= MaxRequests + Cardinality(Callers) - 1
  <2>1. live' = live
    BY <1>9, CountAdmission
  <2>2. admitted' <= admitted \/ (live' < MaxRequests /\ admitted' <= Cardinality(Callers))
    BY <1>9, CountAdmission
  <2>3. QED
    BY <2>1, <2>2, <1>2, <1>3, <1>4
<1>10. ASSUME NEW c \in Callers, Record(c)
       PROVE  live' + admitted' <= MaxRequests + Cardinality(Callers) - 1
  <2>1. admitted' = admitted - 1 /\ live' <= live + 1
    BY <1>10, RecordCounts
  <2>2. QED
    BY <2>1, <1>2, <1>3, <1>4
<1>11. CASE Tick
  <2>1. admitted' = admitted
    BY <1>11 DEF Tick, Admitted
  <2>2. zset \in SUBSET recorded /\ zset' \in SUBSET zset /\ now' \in Nat /\ now <= now'
    BY <1>11 DEF Tick, Base, LimiterTypeOK
  <2>3. Live(zset)' = Unexpired(zset', now')
    BY DEF Live, Unexpired
  <2>4. live' <= live
    BY <2>2, <2>3, FewerLive
  <2>5. QED
    BY <2>1, <2>4, <1>2, <1>3, <1>4
<1>12. QED
  BY <1>7, <1>8, <1>9, <1>10, <1>11 DEF LimiterNext

(* At first the key is empty and nobody has been let in.                   *)
LEMMA InitKey == LimiterInit => KeyInv
BY InitBase, InitEmpty, AdmittedFinite, LimiterAssumption DEF KeyInv, KeyBounded

(* However many calls interleave and whatever Redis call raises, the calls *)
(* that count in the key and those on their way into it exceed the quota   *)
(* by less than the number of concurrent calls.                            *)
THEOREM LimiterKeyBounded == LimiterSpec => []KeyBounded
<1>1. LimiterInit => KeyInv
  BY InitKey
<1>2. LimiterSpec => []KeyInv
  BY <1>1, StepKey, PTL DEF LimiterSpec
<1>3. KeyInv => KeyBounded
  BY DEF KeyInv
<1>4. QED
  BY <1>2, <1>3, PTL

-----------------------------------------------------------------------------
(* What the key loses.                                                     *)

LossInv == Base /\ TTLCovers /\ LostIsInFlight

(* Every step keeps the key's TTL ahead of its entries.                    *)
LEMMA StepTTL ==
    ASSUME Base, TTLCovers, [LimiterNext]_limiterVars
    PROVE  TTLCovers'
<1> USE LimiterAssumption DEF Base
<1>0. /\ zset \subseteq recorded /\ recorded \subseteq Member
      /\ now \in Nat /\ ttl \in Nat \cup {NoTTL} /\ phase \in [Callers -> Phase]
      /\ ttl # NoTTL => now < ttl
      /\ \A m \in recorded : m.score <= now /\ m.score \in Nat
  BY DEF LimiterTypeOK, Member
<1>1. CASE UNCHANGED limiterVars
  BY <1>1 DEF limiterVars, TTLCovers
<1>2. ASSUME NEW c \in Callers, BeginAcquire(c) PROVE TTLCovers'
  BY <1>2, <1>0 DEF BeginAcquire, TTLCovers
<1>3. ASSUME NEW c \in Callers, Count(c) PROVE TTLCovers'
  <2>1. /\ zset' \subseteq zset /\ UNCHANGED <<recorded, mine, cut>>
        /\ ttl' = NoTTL \/ ttl' = ttl
        /\ \A m \in zset \ zset' : m.score + Window <= now
    BY <1>3, <1>0 DEF Count, Unexpired, LimiterTypeOK
  <2>2. \A d \in Callers : phase[d] = "expire" => phase'[d] = "expire"
    BY <1>3, <1>0 DEF Count
  <2>3. QED
    BY <2>1, <2>2, <1>0 DEF TTLCovers
<1>4. ASSUME NEW c \in Callers, Record(c) PROVE TTLCovers'
  <2>1. PICK member : /\ zset' = zset \cup {member} /\ recorded' = recorded \cup {member}
                      /\ mine' = [mine EXCEPT ![c] = member] /\ cut' = cut
    BY <1>4 DEF Record
  <2>2. /\ mine'[c] = member /\ phase'[c] = "expire" /\ ttl' = ttl
        /\ \A d \in Callers : phase[d] = "expire" =>
              phase'[d] = "expire" /\ mine'[d] = mine[d]
    BY <1>4, <2>1, <1>0 DEF Record, LimiterTypeOK
  <2>3. recorded' \ zset' \subseteq recorded \ zset
    BY <2>1
  <2>4. QED
    BY <2>1, <2>2, <2>3 DEF TTLCovers
<1>5. ASSUME NEW c \in Callers, SetTTL(c) PROVE TTLCovers'
  <2>1. ttl' # NoTTL => \A m \in recorded' : m.score + Window <= ttl'
    BY <1>5, <1>0 DEF SetTTL
  <2>2. zset' \subseteq recorded'
    BY <1>5, <1>0 DEF SetTTL
  <2>3. QED
    BY <2>1, <2>2 DEF TTLCovers
<1>6. ASSUME NEW c \in Callers, Raise(c) PROVE TTLCovers'
  <2>1. /\ UNCHANGED <<zset, ttl, mine, recorded>> /\ cut \subseteq cut'
        /\ phase[c] = "expire" => mine[c] \in cut'
        /\ \A d \in Callers : d # c => phase'[d] = phase[d]
    BY <1>6, <1>0 DEF Raise
  <2>2. QED
    BY <2>1, <1>0 DEF TTLCovers
<1>7. CASE Tick
  BY <1>7 DEF Tick, TTLCovers
<1>8. QED
  BY <1>1, <1>2, <1>3, <1>4, <1>5, <1>6, <1>7 DEF LimiterNext

(* The members the key loses when it expires and that still count belong   *)
(* to calls that have not reached EXPIRE.                                  *)
LEMMA ExpiryLoss ==
    ASSUME Base, TTLCovers, Tick, ttl # NoTTL, ttl <= now'
    PROVE  Cardinality(Live(Granted \ zset)') <= Cardinality(Callers)
<1> USE LimiterAssumption
<1> DEFINE owned == {mine[c] : c \in Callers}
<1>1. IsFiniteSet(owned) /\ Cardinality(owned) <= Cardinality(Callers)
  <2>1. mine \in Surjection(Callers, owned)
    BY DEF Surjection, Base, LimiterTypeOK
  <2>2. QED
    BY <2>1, FS_Surjection
<1>2. Live(Granted \ zset)' \in SUBSET owned
  <2> SUFFICES ASSUME NEW m \in Granted, m.score > now' - Window
               PROVE  \E c \in Callers : mine[c] = m
    BY DEF Live, Unexpired, Tick, Granted
  <2>1. m.score \in Nat /\ now' \in Nat /\ ttl \in Nat
    BY DEF Base, LimiterTypeOK, Member, NoTTL, Tick, Granted
  <2>2. ~(m.score + Window <= ttl)
    BY <2>1
  <2>3. QED
    BY <2>2 DEF TTLCovers, Granted
<1>3. IsFiniteSet(Live(Granted \ zset)')
      /\ Cardinality(Live(Granted \ zset)') <= Cardinality(owned)
  BY <1>1, <1>2, FS_Subset
<1>4. QED
  BY <1>1, <1>3, FS_CardinalityType, SomeCallers

(* Every step keeps the bound on what an expiry lost.                      *)
LEMMA StepLoss ==
    ASSUME LossInv, [LimiterNext]_limiterVars
    PROVE  LossInv'
<1> USE DEF LossInv
<1>1. Base' /\ TTLCovers'
  BY StepBase, StepTTL
<1>2. SUFFICES Cardinality(Live(Granted \ zset)') <= Cardinality(Callers)
  BY <1>1 DEF LostIsInFlight
<1> DEFINE lost == Live(Granted \ zset)
<1>3. IsFiniteSet(lost) /\ Cardinality(lost) \in Nat /\ Cardinality(lost) <= Cardinality(Callers)
      /\ Cardinality(Callers) \in Nat
  <2>1. Granted \ zset \in SUBSET recorded
    BY DEF Granted
  <2>2. QED
    BY <2>1, LiveFinite, SomeCallers DEF LostIsInFlight
<1>4. CASE lost' \subseteq lost
  <2>1. Cardinality(lost') <= Cardinality(lost) /\ Cardinality(lost') \in Nat
    BY <1>3, <1>4, FS_Subset, FS_CardinalityType
  <2>2. QED
    BY <2>1, <1>3
<1>5. CASE UNCHANGED limiterVars
  BY <1>5, <1>4 DEF limiterVars, Live, Unexpired, Granted
<1>6. ASSUME NEW c \in Callers, BeginAcquire(c) \/ SetTTL(c) \/ Raise(c)
      PROVE  lost' \subseteq lost
  BY <1>6 DEF BeginAcquire, SetTTL, Raise, Live, Unexpired, Granted
<1>7. ASSUME NEW c \in Callers, Count(c) PROVE lost' \subseteq lost
  BY <1>7, CountAdmission
<1>8. ASSUME NEW c \in Callers, Record(c) PROVE lost' \subseteq lost
  BY <1>8 DEF Record, Live, Unexpired, Granted
<1>9. ASSUME Tick, ~(ttl # NoTTL /\ ttl <= now') PROVE lost' \subseteq lost
  BY <1>9, LimiterAssumption DEF Tick, Live, Unexpired, Granted, Base, LimiterTypeOK, Member
<1>10. CASE Tick /\ ttl # NoTTL /\ ttl <= now'
  BY <1>10, ExpiryLoss
<1>11. QED
  BY <1>4, <1>5, <1>6, <1>7, <1>8, <1>9, <1>10 DEF LimiterNext

(* At first nothing has been lost.                                         *)
LEMMA InitLoss == LimiterInit => LossInv
BY InitBase, InitEmpty, SomeCallers DEF LimiterInit, LossInv, TTLCovers, LostIsInFlight

(* Whatever Redis call raises, the granted calls the key has lost while    *)
(* they still count are at most one per concurrent call.                   *)
THEOREM LimiterLostIsInFlight == LimiterSpec => []LostIsInFlight
<1>1. LimiterInit => LossInv
  BY InitLoss
<1>2. LossInv /\ [LimiterNext]_limiterVars => LossInv'
  BY StepLoss
<1>3. LossInv => LostIsInFlight
  BY DEF LossInv
<1>4. QED
  BY <1>1, <1>2, <1>3, PTL DEF LimiterSpec

-----------------------------------------------------------------------------
(* The calls granted.                                                      *)

GrantsInv == LossInv /\ GrantsAndAdmitted

(* What is live is in the key or lost.                                     *)
LEMMA LiveSplit ==
    ASSUME Base
    PROVE  /\ Cardinality(Live(Granted)) <=
                 Cardinality(Live(zset)) + Cardinality(Live(Granted \ zset))
           /\ Cardinality(Live(Granted)) \in Nat
           /\ Cardinality(Live(zset)) \in Nat
           /\ Cardinality(Live(Granted \ zset)) \in Nat
<1>1. /\ zset \in SUBSET recorded /\ Granted \in SUBSET recorded
      /\ Granted \ zset \in SUBSET recorded
  BY DEF Base, LimiterTypeOK, Granted
<1>2. /\ IsFiniteSet(Live(zset)) /\ IsFiniteSet(Live(Granted \ zset))
      /\ Cardinality(Live(Granted)) \in Nat
      /\ Cardinality(Live(zset)) \in Nat
      /\ Cardinality(Live(Granted \ zset)) \in Nat
  BY <1>1, LiveFinite
<1>3. Live(Granted) \in SUBSET (Live(zset) \cup Live(Granted \ zset))
  BY <1>1 DEF Live, Unexpired
<1>4. Live(zset) \cap Live(Granted \ zset) = {}
  BY DEF Live, Unexpired
<1>5. Cardinality(Live(zset) \cup Live(Granted \ zset)) =
        Cardinality(Live(zset)) + Cardinality(Live(Granted \ zset)) - Cardinality({})
  BY <1>2, <1>4, FS_Union
<1>6. IsFiniteSet(Live(zset) \cup Live(Granted \ zset))
  BY <1>2, FS_Union
<1>7. Cardinality(Live(Granted)) <= Cardinality(Live(zset) \cup Live(Granted \ zset))
  BY <1>3, <1>6, FS_Subset
<1>8. QED
  BY <1>2, <1>5, <1>7, FS_EmptySet

(* Every step keeps the bound on the grants.                               *)
LEMMA StepGrants ==
    ASSUME GrantsInv, [LimiterNext]_limiterVars
    PROVE  GrantsInv'
<1> USE LimiterAssumption DEF GrantsInv
<1>1. Base /\ Base' /\ LossInv'
  BY StepLoss DEF LossInv
<1> DEFINE live == Cardinality(Live(Granted))
           admitted == Cardinality(Admitted)
           N == Cardinality(Callers)
<1>2. live \in Nat /\ admitted \in Nat /\ N \in Nat \ {0}
  BY <1>1, LiveSplit, AdmittedFinite
<1>3. live' \in Nat /\ admitted' \in Nat
  <2>1. Admitted' \in SUBSET Callers
    BY DEF Admitted
  <2>2. Live(Granted)' \in SUBSET recorded'
    BY DEF Live, Unexpired, Granted
  <2>3. QED
    BY <1>1, <2>1, <2>2, SomeCallers, FS_Subset, FS_CardinalityType DEF Base
<1>4. live + admitted <= MaxRequests + 2 * N - 1
  BY DEF GrantsAndAdmitted
<1>5. SUFFICES live' + admitted' <= MaxRequests + 2 * N - 1
  BY <1>1 DEF GrantsAndAdmitted
<1>6. CASE UNCHANGED limiterVars
  BY <1>6, <1>4 DEF limiterVars, Live, Unexpired, Admitted, Granted
<1>7. ASSUME NEW c \in Callers, BeginAcquire(c) \/ SetTTL(c) \/ Raise(c)
      PROVE  live' + admitted' <= MaxRequests + 2 * N - 1
  <2>1. live' <= live
    <3>1. Granted' \in SUBSET Granted /\ Granted \in SUBSET recorded
          /\ now' = now /\ now \in Nat
      BY <1>1, <1>7 DEF BeginAcquire, SetTTL, Raise, Granted, Base, LimiterTypeOK
    <3>2. Live(Granted)' = Unexpired(Granted', now)
      BY <3>1 DEF Live, Unexpired
    <3>3. QED
      BY <1>1, <3>1, <3>2, FewerLive
  <2>2. PICK p \in {"idle", "count"} : phase' = [phase EXCEPT ![c] = p]
    BY <1>7 DEF BeginAcquire, SetTTL, Raise
  <2>3. admitted' <= admitted
    BY <1>1, <2>2, NoAdmission DEF Base, LimiterTypeOK, Phase
  <2>4. QED
    BY <2>1, <2>3, <1>2, <1>3, <1>4
<1>8. ASSUME NEW c \in Callers, Count(c)
      PROVE  live' + admitted' <= MaxRequests + 2 * N - 1
  <2>1. live' = live
    BY <1>8 DEF Count, Live, Unexpired, Granted
  <2>2. CASE admitted' <= admitted
    BY <2>1, <2>2, <1>2, <1>3, <1>4
  <2>3. CASE Cardinality(Live(zset)') < MaxRequests /\ admitted' <= N
    <3>1. Cardinality(Live(zset)') = Cardinality(Live(zset))
      BY <1>1, <1>8, CountAdmission
    <3>2. Cardinality(Live(Granted \ zset)) <= N
      BY DEF LossInv, LostIsInFlight
    <3>3. live < MaxRequests + N
      BY <1>1, <2>3, <3>1, <3>2, <1>2, LiveSplit
    <3>4. QED
      BY <2>1, <2>3, <3>3, <1>2, <1>3
  <2>4. QED
    BY <1>1, <1>8, <2>2, <2>3, CountAdmission
<1>9. ASSUME NEW c \in Callers, Record(c)
      PROVE  live' + admitted' <= MaxRequests + 2 * N - 1
  <2>1. admitted' = admitted - 1 /\ live' <= live + 1
    BY <1>1, <1>9, RecordCounts
  <2>2. QED
    BY <2>1, <1>2, <1>3, <1>4
<1>10. CASE Tick
  <2>1. admitted' = admitted
    BY <1>10 DEF Tick, Admitted
  <2>2. now' \in Nat /\ now <= now' /\ Granted' = Granted /\ Granted \in SUBSET recorded
    BY <1>1, <1>10 DEF Tick, Base, LimiterTypeOK, Granted
  <2>3. Live(Granted)' = Unexpired(Granted, now')
    BY <2>2 DEF Live, Unexpired
  <2>4. live' <= live
    BY <1>1, <2>2, <2>3, FewerLive
  <2>5. QED
    BY <2>1, <2>4, <1>2, <1>3, <1>4
<1>11. QED
  BY <1>6, <1>7, <1>8, <1>9, <1>10 DEF LimiterNext

(* At first nothing has been granted.                                      *)
LEMMA InitGrants == LimiterInit => GrantsInv
  BY InitLoss, InitEmpty, AdmittedFinite, LimiterAssumption DEF GrantsInv, GrantsAndAdmitted

(* Of the calls admitted those granted are some.                           *)
LEMMA GrantsHold == GrantsInv => GrantsBounded
<1> SUFFICES ASSUME GrantsInv PROVE GrantsBounded
  OBVIOUS
<1>1. Cardinality(Live(Granted)) \in Nat
  BY LiveSplit DEF GrantsInv, LossInv
<1>2. QED
  BY <1>1, AdmittedFinite, LimiterAssumption
     DEF GrantsInv, GrantsAndAdmitted, GrantsBounded

(* Whatever Redis call raises, the calls granted in any window exceed the  *)
(* quota by less than twice the number of concurrent calls, and a sequence *)
(* of calls that never overlap by one at most.                             *)
THEOREM LimiterGrantsBounded == LimiterSpec => []GrantsBounded
<1>1. LimiterInit => GrantsInv
  BY InitGrants
<1>2. GrantsInv /\ [LimiterNext]_limiterVars => GrantsInv'
  BY StepGrants
<1>3. GrantsInv => GrantsBounded
  BY GrantsHold
<1>4. QED
  BY <1>1, <1>2, <1>3, PTL DEF LimiterSpec

-----------------------------------------------------------------------------
(* Types.  The types a handler is given are carried through its awaits.    *)

(* What a function makes of a finite set is finite, and as large if it     *)
(* makes no two things the same.                                           *)
LEMMA MadeOf ==
    ASSUME NEW S, IsFiniteSet(S), NEW f, f = [x \in S |-> f[x]]
    PROVE  /\ IsFiniteSet({f[x] : x \in S})
           /\ (\A x, y \in S : f[x] = f[y] => x = y) =>
                 Cardinality({f[x] : x \in S}) = Cardinality(S)
<1> DEFINE T == {f[x] : x \in S}
<1>1. f \in Surjection(S, T)
  BY DEF Surjection
<1>2. (\A x, y \in S : f[x] = f[y] => x = y) => f \in Injection(S, T)
  BY DEF Injection, IsInjective
<1>3. IsFiniteSet(T) /\ (Cardinality(T) = Cardinality(S) <=> f \in Injection(S, T))
  BY <1>1, FS_Surjection
<1>4. QED
  BY <1>2, <1>3

UserFields == {"id", "email", "password", "subject"}

UserIds == {row.id : row \in users}

IsUser(row) ==
    HasFields(row, UserFields) /\ row.email \in Emails /\ row.password \in 0 .. MaxPasswords

(* What the awaits that write accounts know.                               *)
WritesFit(p) ==
    LET r == request[p]
    IN  /\ r.at \in {"free", "insert", "join", "change", "session", "rotate", "expire",
                     "scan", "consume", "find"}
        /\ r.at \in {"insert", "consume", "find"} => r.email \in Emails
        /\ r.at \in {"insert", "consume", "find", "change"} => r.password \in 0 .. MaxPasswords
        /\ r.at = "join" => r.user \in UserIds

AccountsFit ==
    /\ IsFiniteSet(users)
    /\ \A row \in users : IsUser(row)
    /\ \A row, other \in users : row.email = other.email => row = other
    /\ orgMembers \subseteq UserIds
    /\ ssoBegun \in Nat /\ ssoStates \subseteq 1 .. ssoBegun
    /\ \A p \in Requests : WritesFit(p)

(* An email is one account's.                                              *)
LEMMA AccountsAreTyped == SessionIInv /\ AccountsFit => SessionsTypeOK
<1> SUFFICES ASSUME SessionIInv, AccountsFit PROVE SessionsTypeOK
  OBVIOUS
<1> DEFINE f == [row \in users |-> row.email]
           emails == {f[row] : row \in users}
<1>1. Cardinality(emails) = Cardinality(users)
  BY MadeOf DEF AccountsFit
<1>2. emails = {row.email : row \in users}
  OBVIOUS
<1>3. QED
  BY <1>1, <1>2 DEF AccountsFit, SessionIInv, SessionsTypeOK, IsUser, WritesFit, UserIds

(* One request moves on, and no account is lost.                           *)
LEMMA AccountsStep ==
    ASSUME AccountsFit, NEW p \in Requests, Moved(p) \/ UNCHANGED request,
           request'[p] = request[p] \/ WritesFit(p)',
           UserIds \subseteq UserIds', IsFiniteSet(users'),
           \A row \in users' : IsUser(row),
           \A row, other \in users' : row.email = other.email => row = other,
           orgMembers' \subseteq UserIds', ssoBegun' = ssoBegun, ssoStates' \subseteq ssoStates
    PROVE  AccountsFit'
<1>1. ASSUME NEW q \in Requests PROVE WritesFit(q)'
  <2>1. CASE request'[q] = request[q]
    BY <2>1 DEF WritesFit, AccountsFit
  <2>2. CASE request'[q] # request[q]
    BY <2>2 DEF Moved
  <2>3. QED
    BY <2>1, <2>2
<1>2. QED
  BY <1>1 DEF AccountsFit

(* Steps that leave the accounts alone.                                    *)
LEMMA AccountsQuiet ==
    ASSUME AccountsFit, NEW p \in Requests, Moved(p) \/ UNCHANGED request,
           request'[p] = request[p] \/ WritesFit(p)',
           UNCHANGED <<users, orgMembers, ssoBegun>>, ssoStates' \subseteq ssoStates
    PROVE  AccountsFit'
<1>1. UserIds \subseteq UserIds' /\ IsFiniteSet(users') /\ orgMembers' \subseteq UserIds'
      /\ \A row \in users' : IsUser(row)
  BY DEF AccountsFit, UserIds
<1>2. \A row, other \in users' : row.email = other.email => row = other
  BY DEF AccountsFit
<1>3. QED
  BY <1>1, <1>2, AccountsStep

(* One column of some accounts is written: who they are stays.             *)
LEMMA ColumnWritten ==
    ASSUME AccountsFit, NEW write, write = [row \in users |-> write[row]],
           users' = {write[row] : row \in users},
           \A row \in users : /\ IsUser(write[row])
                              /\ write[row].id = row.id /\ write[row].email = row.email
    PROVE  /\ UserIds' = UserIds /\ IsFiniteSet(users')
           /\ \A row \in users' : IsUser(row)
           /\ \A row, other \in users' : row.email = other.email => row = other
<1>2. IsFiniteSet(users')
  BY MadeOf DEF AccountsFit
<1>3. UserIds' = UserIds
  BY DEF UserIds
<1>4. \A row, other \in users' : row.email = other.email => row = other
  BY DEF AccountsFit
<1>5. QED
  BY <1>2, <1>3, <1>4

(* A handler that is not about accounts, or raises.                        *)
LEMMA WritesNothing ==
    ASSUME NEW p \in Requests, request'[p].at \in {"free", "session", "rotate", "expire", "scan"}
    PROVE  WritesFit(p)'
  BY DEF WritesFit

(* A handler begins.                                                       *)
LEMMA AccountsBeginInv ==
    ASSUME SessionIInv, AccountsFit, NEW p \in Requests,
           \/ \E email \in Emails : Register(p, email)
           \/ \E row \in users :
                 \/ Login(p, row)
                 \/ BeginRevokeAll(p, row.id)
                 \/ \E password \in 1 .. MaxPasswords : BeginChange(p, row, password)
           \/ \E token \in tokens : Refresh(p, token)
           \/ \E state \in ssoStates, email \in Emails, subject \in Subjects :
                 SsoCallback(p, state, email, subject)
    PROVE  AccountsFit'
<1> USE SessionsAssumption
<1>1. RequestsAreFunction /\ UNCHANGED <<users, orgMembers, ssoBegun, ssoStates>>
  BY DEF SessionIInv, Register, Login, BeginRevokeAll, BeginChange, Refresh, SsoCallback, Accounts, Sso
<1>2. Moved(p) /\ WritesFit(p)'
  <2>1. ASSUME NEW email \in Emails, Register(p, email) PROVE Moved(p) /\ WritesFit(p)'
    <3>1. Moved(p) /\ request'[p] = [Task EXCEPT !.at = "insert", !.email = email, !.password = 1]
      BY <1>1, <2>1, BeginMoves DEF Register
    <3>2. QED
      BY <3>1 DEF WritesFit, Task
  <2>2. ASSUME NEW row \in users, Login(p, row) PROVE Moved(p) /\ WritesFit(p)'
    <3>1. Moved(p) /\ request'[p] = [Task EXCEPT !.at = "session", !.user = row.id]
      BY <1>1, <2>2, BeginMoves DEF Login
    <3>2. QED
      BY <3>1 DEF WritesFit, Task
  <2>3. ASSUME NEW user, BeginRevokeAll(p, user) PROVE Moved(p) /\ WritesFit(p)'
    <3>1. Moved(p) /\ request'[p] = [Task EXCEPT !.at = "scan", !.user = user, !.left = KeysOf(user)]
      BY <1>1, <2>3, BeginMoves DEF BeginRevokeAll
    <3>2. QED
      BY <3>1 DEF WritesFit, Task
  <2>4. ASSUME NEW row \in users, NEW password \in 1 .. MaxPasswords, BeginChange(p, row, password)
        PROVE  Moved(p) /\ WritesFit(p)'
    <3>1. /\ Moved(p)
          /\ request'[p] = [Task EXCEPT !.at = "change", !.user = row.id, !.password = password]
      BY <1>1, <2>4, BeginMoves DEF BeginChange
    <3>2. QED
      BY <3>1 DEF WritesFit, Task
  <2>5. ASSUME NEW token, Refresh(p, token) PROVE Moved(p) /\ WritesFit(p)'
    <3>1. Moved(p) /\ request'[p] = [Task EXCEPT !.at = "rotate", !.user = token[1], !.jti = token[2]]
      BY <1>1, <2>5, BeginMoves DEF Refresh
    <3>2. QED
      BY <3>1 DEF WritesFit, Task
  <2>6. ASSUME NEW state, NEW email \in Emails, NEW subject, SsoCallback(p, state, email, subject)
        PROVE  Moved(p) /\ WritesFit(p)'
    <3>1. /\ Moved(p)
          /\ request'[p] = [Task EXCEPT !.at = "consume", !.jti = state, !.email = email,
                                        !.subject = subject]
      BY <1>1, <2>6, BeginMoves DEF SsoCallback
    <3>2. QED
      BY <3>1 DEF WritesFit, Task, NoPassword
  <2>7. QED
    BY <2>1, <2>2, <2>3, <2>4, <2>5, <2>6
<1>3. QED
  BY <1>1, <1>2, AccountsQuiet

(* The round trips of sessions write no account.                           *)
LEMMA SessionsWriteNoAccount ==
    ASSUME SessionIInv, AccountsFit, NEW p \in Requests, NEW reply,
           \/ EndRevokeAll(p)
           \/ Rotate(p, reply)
           \/ CreateSession(p, reply)
           \/ SetExpiry(p, reply)
           \/ \E token \in tokens : RevokeSession(p, token, reply)
           \/ \E s \in sessions : RevokeScanned(p, s.jti, reply)
    PROVE  AccountsFit'
<1>1. RequestsAreFunction /\ UNCHANGED <<users, orgMembers, ssoBegun, ssoStates>>
  BY DEF SessionIInv, EndRevokeAll, Rotate, CreateSession, SetExpiry, RevokeSession, RevokeScanned,
         Accounts, Sso
<1>2. CASE UNCHANGED request
  BY <1>1, <1>2, AccountsQuiet
<1>3. CASE ~UNCHANGED request
  <2>1. /\ request[p].at # "free"
        /\ \/ Answered(p)
           \/ request' = [request EXCEPT ![p].at = "session"]
           \/ request' = [request EXCEPT ![p].at = "scan"]
           \/ \E jti : request' = [request EXCEPT ![p].at = "expire", ![p].jti = jti]
    BY <1>3 DEF EndRevokeAll, Rotate, CreateSession, SetExpiry, RevokeSession, RevokeScanned,
                Proceed, Reached
  <2>2. HasFields(request[p], TaskFields)
    BY <2>1, BegunHasFields
  <2>3. Moved(p) /\ request'[p].at \in {"free", "session", "expire", "scan"}
    <3>1. CASE Answered(p)
      BY <1>1, <3>1, AnsweredMoves DEF Free
    <3>2. ASSUME NEW where, where \in {"session", "scan"}, request' = [request EXCEPT ![p].at = where]
          PROVE  Moved(p) /\ request'[p].at = where
      <4>1. "at" \in TaskFields
        BY DEF TaskFields
      <4>2. QED
        BY <1>1, <2>2, <3>2, <4>1, GoesOnMoves
    <3>3. ASSUME NEW jti, request' = [request EXCEPT ![p].at = "expire", ![p].jti = jti]
          PROVE  Moved(p) /\ request'[p].at = "expire"
      <4>1. request'[p] = [request[p] EXCEPT !.at = "expire", !.jti = jti] /\ Moved(p)
        BY <1>1, <3>3 DEF RequestsAreFunction, Moved
      <4>2. QED
        BY <2>2, <4>1 DEF HasFields, TaskFields
    <3>4. QED
      BY <2>1, <3>1, <3>2, <3>3
  <2>4. WritesFit(p)'
    BY <2>3, WritesNothing
  <2>5. QED
    BY <1>1, <2>3, <2>4, AccountsQuiet
<1>4. QED
  BY <1>2, <1>3

(* INSERT of an account nobody has the email of.                           *)
LEMMA InsertUserFits ==
    ASSUME SessionIInv, AccountsFit, NEW p \in Requests, NEW reply, InsertUser(p, reply)
    PROVE  AccountsFit'
<1> DEFINE r == request[p]
           id == Cardinality(users) + 1
           new == [id |-> id, email |-> r.email, password |-> r.password, subject |-> r.subject]
<1>1. /\ r.at = "insert" /\ UNCHANGED <<orgMembers, ssoBegun, ssoStates>>
      /\ r.email \in Emails /\ r.password \in 0 .. MaxPasswords
      /\ RequestsAreFunction /\ HasFields(r, TaskFields)
  BY BegunHasFields DEF InsertUser, Reached, Sso, AccountsFit, WritesFit, SessionIInv
<1>2. \/ Answered(p) /\ UNCHANGED users
      \/ /\ \A row \in users : row.email # r.email
         /\ users' \in {users, users \cup {new}}
         /\ Answered(p)
      \/ /\ \A row \in users : row.email # r.email
         /\ users' = users \cup {new}
         /\ request' = [request EXCEPT ![p].at = "join", ![p].user = id]
  BY DEF InsertUser, Raised, Applied
<1>3. Answered(p) => Moved(p) /\ WritesFit(p)'
  BY <1>1, AnsweredMoves, WritesNothing DEF Free
<1>4. CASE UNCHANGED users
  <2>1. CASE Answered(p)
    BY <1>1, <1>3, <1>4, <2>1, AccountsQuiet
  <2>2. CASE ~Answered(p)
    <3>1. (\A row \in users : row.email # r.email) /\ new \in users /\ new.email = r.email
      BY <1>2, <1>4, <2>2
    <3>2. QED
      BY <3>1
  <2>3. QED
    BY <2>1, <2>2
<1>5. CASE ~UNCHANGED users
  <2>1. (\A row \in users : row.email # r.email) /\ users' = users \cup {new}
    BY <1>2, <1>5
  <2>2. IsUser(new) /\ new.email = r.email /\ new.id = id
    BY <1>1 DEF IsUser, HasFields, UserFields
  <2> HIDE DEF new, id
  <2>3. IsFiniteSet(users')
    BY <2>1, FS_AddElement DEF AccountsFit
  <2>4. UserIds' = UserIds \cup {id} /\ UserIds \subseteq UserIds' /\ orgMembers' \subseteq UserIds'
    BY <1>1, <2>1, <2>2 DEF UserIds, AccountsFit
  <2>5. \A row \in users' : IsUser(row)
    BY <2>1, <2>2 DEF AccountsFit
  <2>6. \A row, other \in users' : row.email = other.email => row = other
    BY <2>1, <2>2 DEF AccountsFit
  <2>7. Moved(p) /\ WritesFit(p)'
    <3>1. CASE request' = [request EXCEPT ![p].at = "join", ![p].user = id]
      <4>1. request'[p] = [r EXCEPT !.at = "join", !.user = id] /\ Moved(p)
        BY <1>1, <3>1 DEF RequestsAreFunction, Moved
      <4>2. request'[p].at = "join" /\ request'[p].user = id
        BY <1>1, <4>1 DEF HasFields, TaskFields
      <4>3. QED
        BY <2>4, <4>1, <4>2 DEF WritesFit
    <3>2. QED
      BY <1>2, <1>3, <3>1 DEF id
  <2>8. QED
    BY <1>1, <2>3, <2>4, <2>5, <2>6, <2>7, AccountsStep
<1>6. QED
  BY <1>4, <1>5

(* The row of the organisation's new member is of an account.              *)
LEMMA JoinFits ==
    ASSUME SessionIInv, AccountsFit, NEW p \in Requests, NEW reply, Join(p, reply)
    PROVE  AccountsFit'
<1>1. /\ request[p].at = "join" /\ UNCHANGED <<users, ssoBegun, ssoStates>>
      /\ request[p].user \in UserIds /\ orgMembers' \subseteq orgMembers \cup {request[p].user}
      /\ RequestsAreFunction /\ HasFields(request[p], TaskFields)
      /\ Answered(p) \/ request' = [request EXCEPT ![p].at = "session"]
  BY BegunHasFields DEF Join, Reached, Sso, AccountsFit, WritesFit, SessionIInv, Proceed
<1>2. Moved(p) /\ request'[p].at \in {"free", "session"}
  <2>1. CASE Answered(p)
    BY <1>1, <2>1, AnsweredMoves DEF Free
  <2>2. CASE request' = [request EXCEPT ![p].at = "session"]
    <3>1. "at" \in TaskFields
      BY DEF TaskFields
    <3>2. QED
      BY <1>1, <2>2, <3>1, GoesOnMoves
  <2>3. QED
    BY <1>1, <2>1, <2>2
<1>3. WritesFit(p)'
  BY <1>2, WritesNothing
<1>4. UserIds' = UserIds /\ orgMembers' \subseteq UserIds'
  BY <1>1 DEF UserIds, AccountsFit
<1>5. IsFiniteSet(users') /\ \A row \in users' : IsUser(row)
  BY <1>1 DEF AccountsFit
<1>6. \A row, other \in users' : row.email = other.email => row = other
  BY <1>1 DEF AccountsFit
<1>7. QED
  BY <1>1, <1>2, <1>3, <1>4, <1>5, <1>6, AccountsStep

(* A password change keeps whose account it is.                            *)
LEMMA CommitPasswordFits ==
    ASSUME SessionIInv, AccountsFit, NEW p \in Requests, NEW reply, CommitPassword(p, reply)
    PROVE  AccountsFit'
<1> DEFINE r == request[p]
           write == [row \in users |-> IF row.id = r.user THEN [row EXCEPT !.password = r.password]
                                       ELSE row]
<1>1. /\ r.at = "change" /\ UNCHANGED <<orgMembers, ssoBegun, ssoStates>>
      /\ r.password \in 0 .. MaxPasswords
      /\ RequestsAreFunction /\ HasFields(r, TaskFields)
      /\ users' = users \/ users' = {write[row] : row \in users}
      /\ Answered(p) \/ request' = [request EXCEPT ![p].at = "scan", ![p].left = KeysOf(r.user)]
  BY BegunHasFields DEF CommitPassword, Reached, Sso, AccountsFit, WritesFit, SessionIInv
<1>2. Moved(p) /\ request'[p].at \in {"free", "scan"}
  <2>1. CASE Answered(p)
    BY <1>1, <2>1, AnsweredMoves DEF Free
  <2>2. CASE request' = [request EXCEPT ![p].at = "scan", ![p].left = KeysOf(r.user)]
    <3>1. request'[p] = [r EXCEPT !.at = "scan", !.left = KeysOf(r.user)] /\ Moved(p)
      BY <1>1, <2>2 DEF RequestsAreFunction, Moved
    <3>2. QED
      BY <1>1, <3>1 DEF HasFields, TaskFields
  <2>3. QED
    BY <1>1, <2>1, <2>2
<1>3. WritesFit(p)'
  BY <1>2, WritesNothing
<1>4. CASE users' = users
  BY <1>1, <1>2, <1>3, <1>4, AccountsQuiet
<1>5. CASE users' = {write[row] : row \in users}
  <2>1. ASSUME NEW row \in users
        PROVE  IsUser(write[row]) /\ write[row].id = row.id /\ write[row].email = row.email
    <3>1. IsUser(row)
      BY DEF AccountsFit
    <3>2. QED
      BY <1>1, <3>1 DEF IsUser, HasFields, UserFields
  <2>2. write = [row \in users |-> write[row]]
    OBVIOUS
  <2> HIDE DEF write
  <2>3. /\ UserIds' = UserIds /\ IsFiniteSet(users') /\ \A row \in users' : IsUser(row)
        /\ \A row, other \in users' : row.email = other.email => row = other
    BY <1>5, <2>1, <2>2, ColumnWritten
  <2>4. UserIds \subseteq UserIds' /\ orgMembers' \subseteq UserIds'
    BY <1>1, <2>3 DEF AccountsFit
  <2>5. QED
    BY <1>1, <1>2, <1>3, <2>3, <2>4, AccountsStep
<1>6. QED
  BY <1>1, <1>4, <1>5

(* The state of a login is deleted; the identity provider has no password. *)
LEMMA ConsumeStateFits ==
    ASSUME SessionIInv, AccountsFit, NEW p \in Requests, NEW reply, NEW vouched,
           ConsumeState(p, vouched, reply)
    PROVE  AccountsFit'
<1> DEFINE r == request[p]
<1>1. /\ r.at = "consume" /\ r.email \in Emails /\ r.password \in 0 .. MaxPasswords
      /\ UNCHANGED <<users, orgMembers, ssoBegun>> /\ ssoStates' \subseteq ssoStates
      /\ RequestsAreFunction /\ HasFields(r, TaskFields)
      /\ Answered(p) \/ request' = [request EXCEPT ![p].at = "find", ![p].jti = 0]
  BY BegunHasFields DEF ConsumeState, Reached, Accounts, AccountsFit, WritesFit, SessionIInv
<1>2. Moved(p) /\ WritesFit(p)'
  <2>1. CASE Answered(p)
    BY <1>1, <2>1, AnsweredMoves, WritesNothing DEF Free
  <2>2. CASE request' = [request EXCEPT ![p].at = "find", ![p].jti = 0]
    <3>1. request'[p] = [r EXCEPT !.at = "find", !.jti = 0] /\ Moved(p)
      BY <1>1, <2>2 DEF RequestsAreFunction, Moved
    <3>2. /\ request'[p].at = "find" /\ request'[p].email = r.email
          /\ request'[p].password = r.password
      BY <1>1, <3>1 DEF HasFields, TaskFields
    <3>3. QED
      BY <1>1, <3>1, <3>2 DEF WritesFit
  <2>3. QED
    BY <1>1, <2>1, <2>2
<1>3. QED
  BY <1>1, <1>2, AccountsQuiet

(* A login finds one account at most, or goes on to make one.              *)
LEMMA FindUserFits ==
    ASSUME SessionIInv, AccountsFit, NEW p \in Requests, NEW reply, FindUser(p, reply)
    PROVE  AccountsFit'
<1> DEFINE r == request[p]
           named == {row \in users : row.email = r.email}
           known == {row \in users : row.subject = r.subject}
           found == IF named # {} \/ r.subject = NoSubject THEN named ELSE known
           write == [row \in users |-> IF row \in found THEN [row EXCEPT !.subject = r.subject]
                                       ELSE row]
<1>1. /\ r.at = "find" /\ r.email \in Emails /\ r.password \in 0 .. MaxPasswords
      /\ UNCHANGED <<orgMembers, ssoBegun, ssoStates>>
      /\ RequestsAreFunction /\ HasFields(r, TaskFields)
  BY BegunHasFields DEF FindUser, Reached, Sso, AccountsFit, WritesFit, SessionIInv
<1>2. /\ users' = users \/ users' = {write[row] : row \in users}
      /\ \/ Answered(p)
         \/ request' = [request EXCEPT ![p].at = "insert"]
         \/ \E row \in found :
               request' = [request EXCEPT ![p].user = row.id,
                              ![p].at = IF row.id \in orgMembers THEN "session" ELSE "join"]
  BY DEF FindUser, Proceed
<1>3. found \subseteq users
  OBVIOUS
<1>4. /\ UserIds' = UserIds /\ IsFiniteSet(users') /\ \A row \in users' : IsUser(row)
      /\ \A row, other \in users' : row.email = other.email => row = other
  <2>1. CASE users' = users
    BY <2>1 DEF UserIds, AccountsFit
  <2>2. CASE users' = {write[row] : row \in users}
    <3>1. ASSUME NEW row \in users
          PROVE  IsUser(write[row]) /\ write[row].id = row.id /\ write[row].email = row.email
      <4>1. IsUser(row)
        BY DEF AccountsFit
      <4>2. QED
        BY <1>1, <4>1 DEF IsUser, HasFields, UserFields
    <3>2. write = [row \in users |-> write[row]]
      OBVIOUS
    <3> HIDE DEF write
    <3>3. QED
      BY <2>2, <3>1, <3>2, ColumnWritten
  <2>3. QED
    BY <1>2, <2>1, <2>2
<1> HIDE DEF found, write
<1>5. Moved(p) /\ WritesFit(p)'
  <2>1. CASE Answered(p)
    BY <1>1, <2>1, AnsweredMoves, WritesNothing DEF Free
  <2>2. CASE request' = [request EXCEPT ![p].at = "insert"]
    <3>1. "at" \in TaskFields /\ {"email", "password"} \subseteq TaskFields \ {"at"}
      BY DEF TaskFields
    <3>2. /\ Moved(p) /\ request'[p].at = "insert"
          /\ request'[p].email = r.email /\ request'[p].password = r.password
      BY <1>1, <2>2, <3>1, GoesOnMoves
    <3>3. QED
      BY <1>1, <3>2 DEF WritesFit
  <2>3. ASSUME NEW row \in found, NEW where, where \in {"session", "join"},
               request' = [request EXCEPT ![p].user = row.id, ![p].at = where]
        PROVE  Moved(p) /\ WritesFit(p)'
    <3>1. request'[p] = [r EXCEPT !.user = row.id, !.at = where] /\ Moved(p)
      BY <1>1, <2>3 DEF RequestsAreFunction, Moved
    <3>2. request'[p].at = where /\ request'[p].user = row.id
      BY <1>1, <3>1 DEF HasFields, TaskFields
    <3>3. row.id \in UserIds'
      BY <1>3, <1>4 DEF UserIds
    <3>4. QED
      BY <2>3, <3>1, <3>2, <3>3 DEF WritesFit
  <2>4. QED
    BY <1>2, <2>1, <2>2, <2>3
<1>6. UserIds \subseteq UserIds' /\ orgMembers' \subseteq UserIds'
  BY <1>1, <1>4 DEF AccountsFit
<1>7. QED
  BY <1>1, <1>4, <1>5, <1>6, AccountsStep

(* Every step of the identity service keeps the accounts' types.           *)
LEMMA AccountsNextInv ==
    ASSUME SessionIInv, AccountsFit, [SessionsNext]_sessionVars
    PROVE  AccountsFit'
<1>1. ASSUME NEW p \in Requests, Handler(p) PROVE AccountsFit'
  BY <1>1, AccountsBeginInv, SessionsWriteNoAccount, InsertUserFits, JoinFits, CommitPasswordFits,
     ConsumeStateFits, FindUserFits DEF Handler
<1>2. ASSUME UNCHANGED <<users, orgMembers, ssoBegun, ssoStates, request>> PROVE AccountsFit'
  <2>1. ASSUME NEW p \in Requests PROVE WritesFit(p)'
    BY <1>2 DEF WritesFit, AccountsFit, UserIds
  <2>2. QED
    BY <1>2, <2>1 DEF AccountsFit, UserIds
<1>3. ASSUME NEW s, SessionExpires(s) PROVE AccountsFit'
  BY <1>2, <1>3 DEF SessionExpires, Accounts, Sso
<1>4. CASE SsoInit
  <2>1. /\ ssoBegun' = ssoBegun + 1 /\ ssoStates' = ssoStates \cup {ssoBegun'}
        /\ UNCHANGED <<users, orgMembers, request>>
    BY <1>4 DEF SsoInit, Accounts
  <2>2. ssoBegun' \in Nat /\ ssoStates' \subseteq 1 .. ssoBegun'
    BY <2>1 DEF AccountsFit
  <2>3. ASSUME NEW p \in Requests PROVE WritesFit(p)'
    BY <2>1 DEF WritesFit, AccountsFit, UserIds
  <2>4. QED
    BY <2>1, <2>2, <2>3 DEF AccountsFit, UserIds
<1>5. CASE UNCHANGED sessionVars
  BY <1>2, <1>5 DEF sessionVars
<1>6. QED
  BY <1>1, <1>3, <1>4, <1>5 DEF SessionsNext

(* No account, no request.                                                 *)
LEMMA SessionsInitInv == SessionsInit => SessionIInv /\ AccountsFit
<1> SUFFICES ASSUME SessionsInit PROVE SessionIInv /\ AccountsFit
  OBVIOUS
<1>1. RequestsAreFunction /\ \A p \in Requests : request[p] = Free
  BY DEF SessionsInit, NoRequests, RequestsAreFunction
<1>2. \A p \in Requests : HoldsOwn(p) /\ WritesFit(p)
  BY <1>1 DEF HoldsOwn, WritesFit, Free
<1>3. SessionIInv
  BY <1>1, <1>2 DEF SessionsInit, SessionIInv, RevokedStaysRevoked
<1>4. AccountsFit
  BY <1>2, FS_EmptySet DEF SessionsInit, AccountsFit, UserIds
<1>5. QED
  BY <1>3, <1>4

-----------------------------------------------------------------------------
(* The tenant service.                                                     *)

KeyFields == {"id", "active", "expires", "lastUsed"}

IsKey(key) ==
    /\ HasFields(key, KeyFields)
    /\ key.id \in 1 .. MaxKeys
    /\ key.active \in BOOLEAN /\ key.expires \in BOOLEAN /\ key.lastUsed \in BOOLEAN

KeysFit ==
    /\ IsFiniteSet(apiKeys) /\ Cardinality(apiKeys) <= MaxKeys
    /\ \A key \in apiKeys : IsKey(key)

RolesFit ==
    /\ \A row, other \in org : row = other
    /\ Members \subseteq People
    /\ \A user \in Members : role[user] \in OrgRoles

(* Whom a request writes to organization_members, and as what.             *)
GivesFit(p) ==
    LET r == request[p]
    IN  /\ r.at \in {"create", "invite"} => r.user \in People
        /\ r.at \in {"invite", "role"} => r.as \in OrgRoles

TenancyFits == KeysFit /\ RolesFit /\ \A p \in Requests : GivesFit(p)

(* The organisation's row is one.                                          *)
LEMMA TenancyIsTyped == TenancyFits => TenancyTypeOK
<1> SUFFICES ASSUME TenancyFits PROVE TenancyTypeOK
  OBVIOUS
<1>1. Cardinality(org) <= 1
  <2>1. CASE org = {}
    BY <2>1, FS_EmptySet
  <2>2. ASSUME NEW row \in org PROVE Cardinality(org) <= 1
    <3>1. org = {row}
      BY DEF TenancyFits, RolesFit
    <3>2. Cardinality({row}) = 1
      BY FS_Singleton
    <3>3. QED
      BY <3>1, <3>2
  <2>3. QED
    BY <2>1, <2>2
<1>2. \A key \in apiKeys :
         key.id \in 1 .. MaxKeys /\ {key.active, key.expires, key.lastUsed} \subseteq BOOLEAN
  BY DEF TenancyFits, KeysFit, IsKey
<1>3. QED
  BY <1>1, <1>2 DEF TenancyFits, RolesFit, TenancyTypeOK

(* One request moves on.                                                   *)
LEMMA TenancyMoves ==
    ASSUME TenancyFits, NEW p \in Requests, Moved(p) \/ UNCHANGED request,
           request'[p] = request[p] \/ GivesFit(p)', KeysFit', RolesFit'
    PROVE  TenancyFits'
<1>1. ASSUME NEW q \in Requests PROVE GivesFit(q)'
  <2>1. CASE request'[q] = request[q]
    BY <2>1 DEF GivesFit, TenancyFits
  <2>2. CASE request'[q] # request[q]
    BY <2>2 DEF Moved
  <2>3. QED
    BY <2>1, <2>2
<1>2. QED
  BY <1>1 DEF TenancyFits

(* Roles change with the members only.                                     *)
LEMMA RolesQuiet ==
    ASSUME RolesFit, UNCHANGED <<org, role>> PROVE RolesFit'
  BY DEF RolesFit, Members

(* Keys stay fit while none is written.                                    *)
LEMMA KeysQuiet ==
    ASSUME KeysFit, UNCHANGED apiKeys PROVE KeysFit'
  BY DEF KeysFit

(* A handler begins.                                                       *)
LEMMA TenancyBeginFits ==
    ASSUME TenancyIInv, TenancyFits, NEW p \in Requests,
           \/ \E user \in People, plan \in Plans : CreateOrg(p, user, plan)
           \/ \E by, user \in People :
                 \/ \E as \in RolesGiven :
                       InviteMember(p, by, user, as) \/ UpdateMemberRole(p, by, user, as)
                 \/ RemoveMember(p, by, user)
           \/ \E key \in apiKeys : ValidateApiKey(p, key)
           \/ \E count \in 1 .. MaxReported : IncrementMentionsUsed(p, count)
    PROVE  TenancyFits'
<1> USE TenancyAssumption
<1>1. RequestsAreFunction /\ UNCHANGED <<org, role, apiKeys>>
  BY DEF TenancyIInv, CreateOrg, InviteMember, UpdateMemberRole, RemoveMember, ValidateApiKey,
         IncrementMentionsUsed
<1>2. Moved(p) /\ GivesFit(p)'
  <2>1. ASSUME NEW user \in People, NEW plan, CreateOrg(p, user, plan)
        PROVE  Moved(p) /\ GivesFit(p)'
    <3>1. Moved(p) /\ request'[p] = [at |-> "create", user |-> user, plan |-> plan]
      BY <1>1, <2>1, BeginMoves DEF CreateOrg
    <3>2. QED
      BY <3>1 DEF GivesFit
  <2>2. ASSUME NEW by, NEW user \in People, NEW as \in RolesGiven, InviteMember(p, by, user, as)
        PROVE  Moved(p) /\ GivesFit(p)'
    <3>1. Moved(p) /\ request'[p] = [at |-> "invite", user |-> user, as |-> as]
      BY <1>1, <2>2, BeginMoves DEF InviteMember
    <3>2. request'[p].at = "invite" /\ request'[p].user = user /\ request'[p].as = as
      BY <3>1
    <3>3. as \in OrgRoles
      OBVIOUS
    <3> HIDE TenancyAssumption
    <3>4. QED
      BY <3>1, <3>2, <3>3 DEF GivesFit
  <2>3. ASSUME NEW by, NEW user \in People, NEW as \in RolesGiven, UpdateMemberRole(p, by, user, as)
        PROVE  Moved(p) /\ GivesFit(p)'
    <3>1. Moved(p) /\ request'[p] = [at |-> "role", user |-> user, as |-> as]
      BY <1>1, <2>3, BeginMoves DEF UpdateMemberRole
    <3>2. request'[p].at = "role" /\ request'[p].user = user /\ request'[p].as = as
      BY <3>1
    <3>3. as \in OrgRoles
      OBVIOUS
    <3> HIDE TenancyAssumption
    <3>4. QED
      BY <3>1, <3>2, <3>3 DEF GivesFit
  <2>4. ASSUME NEW by, NEW user, RemoveMember(p, by, user) PROVE Moved(p) /\ GivesFit(p)'
    <3>1. Moved(p) /\ request'[p] = [at |-> "remove", user |-> user]
      BY <1>1, <2>4, BeginMoves DEF RemoveMember
    <3>2. QED
      BY <3>1 DEF GivesFit
  <2>5. ASSUME NEW key, ValidateApiKey(p, key) PROVE Moved(p) /\ GivesFit(p)'
    <3>1. Moved(p) /\ request'[p] = [at |-> "validate", id |-> key.id]
      BY <1>1, <2>5, BeginMoves DEF ValidateApiKey
    <3>2. QED
      BY <3>1 DEF GivesFit
  <2>6. ASSUME NEW count, IncrementMentionsUsed(p, count) PROVE Moved(p) /\ GivesFit(p)'
    <3>1. PICK row \in org : Begin(p, [at |-> "used", used |-> row.used + count])
      BY <2>6 DEF IncrementMentionsUsed
    <3>2. Moved(p) /\ request'[p] = [at |-> "used", used |-> row.used + count]
      BY <1>1, <3>1, BeginMoves
    <3>3. QED
      BY <3>2 DEF GivesFit
  <2>7. QED
    BY <2>1, <2>2, <2>3, <2>4, <2>5, <2>6
<1>3. QED
  BY <1>1, <1>2, RolesQuiet, KeysQuiet, TenancyMoves DEF TenancyFits

(* What a commit leaves of the rows of members.                            *)
LEMMA RolesCommitFits ==
    ASSUME TenancyIInv, TenancyFits, NEW p \in Requests, NEW reply,
           \/ CommitOrg(p, reply)
           \/ CommitInvite(p, reply)
           \/ CommitRole(p, reply)
           \/ CommitRemoval(p, reply)
    PROVE  TenancyFits'
<1> DEFINE r == request[p]
<1>1. /\ RequestsAreFunction /\ Answered(p) /\ UNCHANGED apiKeys
      /\ GivesFit(p) /\ RolesFit /\ KeysFit
  BY DEF TenancyIInv, TenancyFits, CommitOrg, CommitInvite, CommitRole, CommitRemoval
<1>2. Moved(p) /\ GivesFit(p)'
  BY <1>1, AnsweredMoves DEF GivesFit, Free
<1>3. RolesFit'
  <2>1. CASE UNCHANGED <<org, role>>
    BY <1>1, <2>1, RolesQuiet
  <2>2. CASE CommitOrg(p, reply) /\ ~UNCHANGED <<org, role>>
    <3>1. /\ org' = {[plan |-> r.plan, used |-> 0, active |-> TRUE]}
          /\ role' = [user \in {r.user} |-> "owner"] /\ r.user \in People
      BY <1>1, <2>2 DEF CommitOrg, Reached, GivesFit
    <3>2. QED
      BY <3>1 DEF RolesFit, Members, OrgRoles
  <2>3. CASE CommitInvite(p, reply) /\ ~UNCHANGED <<org, role>>
    <3>1. /\ role' = [u \in Members \cup {r.user} |-> IF u = r.user THEN r.as ELSE role[u]]
          /\ UNCHANGED org /\ r.user \in People /\ r.as \in OrgRoles
      BY <1>1, <2>3 DEF CommitInvite, AddMember, Reached, GivesFit
    <3>2. QED
      BY <1>1, <3>1 DEF RolesFit, Members
  <2>4. CASE CommitRole(p, reply) /\ ~UNCHANGED <<org, role>>
    <3>1. role' = [role EXCEPT ![r.user] = r.as] /\ UNCHANGED org /\ r.as \in OrgRoles
      BY <1>1, <2>4 DEF CommitRole, Reached, GivesFit
    <3>2. QED
      BY <1>1, <3>1 DEF RolesFit, Members
  <2>5. CASE CommitRemoval(p, reply) /\ ~UNCHANGED <<org, role>>
    <3>1. role' = [u \in Members \ {r.user} |-> role[u]] /\ UNCHANGED org
      BY <2>5 DEF CommitRemoval
    <3>2. QED
      BY <1>1, <3>1 DEF RolesFit, Members
  <2>6. QED
    BY <2>1, <2>2, <2>3, <2>4, <2>5
<1>4. QED
  BY <1>1, <1>2, <1>3, KeysQuiet, TenancyMoves

(* The row of the organisation is written in place.                        *)
LEMMA RowCommitFits ==
    ASSUME TenancyIInv, TenancyFits, NEW p \in Requests, NEW reply,
           \/ CommitUsed(p, reply)
           \/ \E user \in People, plan \in Plans : UpdatePlan(p, user, plan, reply)
           \/ \E user \in People : ResetMentionsUsed(p, user, reply)
    PROVE  TenancyFits'
<1>1. RequestsAreFunction /\ UNCHANGED <<role, apiKeys>> /\ (Answered(p) \/ UNCHANGED request)
      /\ KeysFit /\ RolesFit
  BY DEF TenancyIInv, TenancyFits, CommitUsed, UpdatePlan, ResetMentionsUsed
<1>2. /\ Moved(p) \/ UNCHANGED request
      /\ request'[p] = request[p] \/ GivesFit(p)'
  BY <1>1, AnsweredMoves DEF GivesFit, Free
<1>3. \A row, other \in org' : row = other
  <2>1. \A row, other \in org : row = other
    BY <1>1 DEF RolesFit
  <2>2. ASSUME NEW user, NEW plan, UpdatePlan(p, user, plan, reply)
        PROVE  \A row, other \in org' : row = other
    BY <2>1, <2>2 DEF UpdatePlan
  <2>3. CASE CommitUsed(p, reply)
    BY <2>1, <2>3 DEF CommitUsed
  <2>4. ASSUME NEW user, ResetMentionsUsed(p, user, reply)
        PROVE  \A row, other \in org' : row = other
    BY <2>1, <2>4 DEF ResetMentionsUsed
  <2>5. QED
    BY <2>2, <2>3, <2>4
<1>4. RolesFit'
  BY <1>1, <1>3 DEF RolesFit, Members
<1>5. QED
  BY <1>1, <1>2, <1>4, KeysQuiet, TenancyMoves

(* The keys in another form are as many, or fewer.                         *)
LEMMA KeysRewritten ==
    ASSUME KeysFit, NEW write, write = [key \in apiKeys |-> write[key]],
           apiKeys' = {write[key] : key \in apiKeys}, \A key \in apiKeys : IsKey(write[key])
    PROVE  KeysFit'
<1> DEFINE T == {write[key] : key \in apiKeys}
<1>1. write \in Surjection(apiKeys, T) /\ IsFiniteSet(apiKeys)
  BY DEF Surjection, KeysFit
<1>2. IsFiniteSet(T) /\ Cardinality(T) <= Cardinality(apiKeys)
  BY <1>1, FS_Surjection
<1>3. Cardinality(T) \in Nat /\ Cardinality(apiKeys) \in Nat /\ MaxKeys \in Nat
  BY <1>1, <1>2, FS_CardinalityType, TenancyAssumption
<1>4. QED
  BY <1>2, <1>3 DEF KeysFit

(* An API key is made under the next id, or changes in place.              *)
LEMMA KeysCommitFits ==
    ASSUME TenancyIInv, TenancyFits, NEW p \in Requests, NEW reply,
           \/ CommitLastUsed(p, reply)
           \/ \E user \in People :
                 \/ \E expires \in BOOLEAN : CreateApiKey(p, user, expires, reply)
                 \/ \E key \in apiKeys : RevokeApiKey(p, user, key, reply)
    PROVE  TenancyFits'
<1>1. RequestsAreFunction /\ UNCHANGED <<org, role>> /\ (Answered(p) \/ UNCHANGED request)
      /\ KeysFit /\ RolesFit
  BY DEF TenancyIInv, TenancyFits, CommitLastUsed, CreateApiKey, RevokeApiKey
<1>2. /\ Moved(p) \/ UNCHANGED request
      /\ request'[p] = request[p] \/ GivesFit(p)'
  BY <1>1, AnsweredMoves DEF GivesFit, Free
<1>3. KeysFit'
  <2>1. CASE UNCHANGED apiKeys
    BY <1>1, <2>1, KeysQuiet
  <2>2. CASE CommitLastUsed(p, reply) /\ ~UNCHANGED apiKeys
    <3> DEFINE write == [key \in apiKeys |-> IF key.id = request[p].id
                                             THEN [key EXCEPT !.lastUsed = TRUE] ELSE key]
    <3>1. apiKeys' = {write[key] : key \in apiKeys}
      BY <2>2 DEF CommitLastUsed
    <3>2. ASSUME NEW key \in apiKeys PROVE IsKey(write[key])
      <4>1. IsKey(key)
        BY <1>1 DEF KeysFit
      <4>2. QED
        BY <4>1 DEF IsKey, HasFields, KeyFields
    <3>3. write = [key \in apiKeys |-> write[key]]
      OBVIOUS
    <3> HIDE DEF write
    <3>4. QED
      BY <1>1, <3>1, <3>2, <3>3, KeysRewritten
  <2>3. ASSUME NEW user, NEW expires \in BOOLEAN, CreateApiKey(p, user, expires, reply),
               ~UNCHANGED apiKeys
        PROVE  KeysFit'
    <3> DEFINE new == [id |-> Cardinality(apiKeys) + 1, active |-> TRUE, expires |-> expires,
                       lastUsed |-> FALSE]
    <3>1. apiKeys' = apiKeys \cup {new} /\ Cardinality(apiKeys) < MaxKeys
      BY <2>3 DEF CreateApiKey
    <3>2. Cardinality(apiKeys) \in Nat /\ MaxKeys \in Nat /\ IsFiniteSet(apiKeys)
      BY <1>1, FS_CardinalityType, TenancyAssumption DEF KeysFit
    <3>3. IsKey(new)
      BY <3>1, <3>2 DEF IsKey, HasFields, KeyFields
    <3> HIDE DEF new
    <3>4. IsFiniteSet(apiKeys') /\ Cardinality(apiKeys') <= Cardinality(apiKeys) + 1
      <4>1. /\ IsFiniteSet(apiKeys \cup {new})
            /\ \/ Cardinality(apiKeys \cup {new}) = Cardinality(apiKeys)
               \/ Cardinality(apiKeys \cup {new}) = Cardinality(apiKeys) + 1
        BY <3>2, FS_AddElement
      <4>2. QED
        BY <3>1, <3>2, <4>1
    <3>5. Cardinality(apiKeys') \in Nat
      BY <3>4, FS_CardinalityType
    <3>6. Cardinality(apiKeys') <= MaxKeys
      BY <3>1, <3>2, <3>4, <3>5
    <3>7. QED
      BY <1>1, <3>1, <3>3, <3>4, <3>6 DEF KeysFit
  <2>4. ASSUME NEW user, NEW key \in apiKeys, RevokeApiKey(p, user, key, reply), ~UNCHANGED apiKeys
        PROVE  KeysFit'
    <3> DEFINE write == [k \in apiKeys |-> IF k = key THEN [k EXCEPT !.active = FALSE] ELSE k]
    <3>1. apiKeys' = (apiKeys \ {key}) \cup {[key EXCEPT !.active = FALSE]}
      BY <2>4 DEF RevokeApiKey
    <3>2. apiKeys' = {write[k] : k \in apiKeys}
      BY <3>1
    <3>3. ASSUME NEW k \in apiKeys PROVE IsKey(write[k])
      <4>1. IsKey(k)
        BY <1>1 DEF KeysFit
      <4>2. QED
        BY <4>1 DEF IsKey, HasFields, KeyFields
    <3>4. write = [k \in apiKeys |-> write[k]]
      OBVIOUS
    <3> HIDE DEF write
    <3>5. QED
      BY <1>1, <3>2, <3>3, <3>4, KeysRewritten
  <2>5. QED
    BY <2>1, <2>2, <2>3, <2>4
<1>4. QED
  BY <1>1, <1>2, <1>3, RolesQuiet, TenancyMoves

(* Every step keeps the tenant service's types.                            *)
LEMMA TenancyNextFits ==
    ASSUME TenancyIInv, TenancyFits, [TenancyNext]_tenancyVars
    PROVE  TenancyFits'
<1>1. PICK some : some \in Requests
  BY HandlersAssumption
<1>2. ASSUME NEW p \in Requests, MemberHandler(p) PROVE TenancyFits'
  BY <1>2, TenancyBeginFits, RolesCommitFits, RowCommitFits DEF MemberHandler
<1>3. ASSUME NEW p \in Requests, KeyAndUsageHandler(p) PROVE TenancyFits'
  BY <1>3, TenancyBeginFits, KeysCommitFits, RowCommitFits DEF KeyAndUsageHandler
<1>4. ASSUME NEW user \in People, JoinElsewhere(user) PROVE TenancyFits'
  <2>1. /\ role' = [u \in Members \cup {user} |-> IF u = user THEN "viewer" ELSE role[u]]
        /\ UNCHANGED <<org, apiKeys, request>>
    BY <1>4 DEF JoinElsewhere, AddMember
  <2>2. RolesFit'
    BY <2>1 DEF TenancyFits, RolesFit, Members, OrgRoles
  <2>3. QED
    BY <1>1, <2>1, <2>2, KeysQuiet, TenancyMoves DEF TenancyFits
<1>5. CASE UNCHANGED tenancyVars
  BY <1>1, <1>5, RolesQuiet, KeysQuiet, TenancyMoves DEF TenancyFits, tenancyVars
<1>6. QED
  BY <1>2, <1>3, <1>4, <1>5 DEF TenancyNext

(* No organisation, no key.                                                *)
LEMMA TenancyInitFits == TenancyInit => TenancyFits
<1> SUFFICES ASSUME TenancyInit PROVE TenancyFits
  OBVIOUS
<1>1. KeysFit
  BY FS_EmptySet, TenancyAssumption DEF TenancyInit, KeysFit
<1>2. RolesFit
  BY DEF TenancyInit, RolesFit, Members, NoMembers
<1>3. \A p \in Requests : GivesFit(p)
  BY DEF TenancyInit, NoRequests, GivesFit, Free
<1>4. QED
  BY <1>1, <1>2, <1>3 DEF TenancyFits

-----------------------------------------------------------------------------
(* The integrations.                                                       *)

Collected == Identifiers(collected)

SyncFitsTypes ==
    /\ syncClock \in 1 .. MaxSyncTick
    /\ \A row \in integration : row.type \in IntegrationTypes
    /\ pushed \subseteq Collected /\ excused \subseteq Collected
    /\ \A p \in Requests : request[p] = Free \/ request[p].out \subseteq Collected

(* A row was last synced at a time that has been.                          *)
LEMMA SyncIsTyped == SyncIInv /\ SyncFitsTypes => SyncTypeOK
<1> SUFFICES ASSUME SyncIInv, SyncFitsTypes PROVE SyncTypeOK
  OBVIOUS
<1>1. \A row \in integration : row.type \in IntegrationTypes /\ row.last \in 0 .. syncClock
  BY DEF SyncIInv, CollectedFit, SyncFitsTypes, SyncRowFits
<1>2. QED
  BY <1>1 DEF SyncTypeOK, SyncFitsTypes, Collected

(* One sync moves on, and names only what was collected.                   *)
LEMMA SyncMoveFits ==
    ASSUME SyncFitsTypes, NEW p \in Requests, Moved(p) \/ UNCHANGED request,
           UNCHANGED <<syncClock, collected>>,
           \A row \in integration' : row.type \in IntegrationTypes,
           pushed' \subseteq Collected, excused' \subseteq Collected,
           \/ request'[p] \in {Free, request[p]}
           \/ request'[p].out \subseteq Collected
    PROVE  SyncFitsTypes'
<1>1. ASSUME NEW q \in Requests PROVE request'[q] = Free \/ request'[q].out \subseteq Collected
  <2>1. CASE request'[q] = request[q]
    BY <2>1 DEF SyncFitsTypes
  <2>2. CASE request'[q] # request[q]
    BY <2>2 DEF Moved
  <2>3. QED
    BY <2>1, <2>2
<1>2. Collected' = Collected
  BY DEF Collected, Identifiers
<1>3. QED
  BY <1>1, <1>2 DEF SyncFitsTypes

(* What goes out was collected, and so was what is refused.                *)
LEMMA SyncPushFits ==
    ASSUME SyncIInv, SyncFitsTypes, NEW p \in Requests, NEW reply,
           \/ SyncWebhook(p, reply) \/ SyncSlack(p, reply) \/ SyncRecord(p, reply)
           \/ SignInTableau(p, reply) \/ \E accepted \in BOOLEAN : PublishTableau(p, reply, accepted)
    PROVE  SyncFitsTypes'
<1> DEFINE r == request[p]
<1>1. /\ UNCHANGED <<syncClock, collected, integration>> /\ r.at \in {"push", "publish"}
      /\ RequestsAreFunction
  BY DEF SyncWebhook, SyncSlack, SyncRecord, SignInTableau, PublishTableau, SyncWorld, Reached,
         SyncIInv
<1>2. HasFields(r, SyncFields) /\ r.left \subseteq collected /\ r.out \subseteq Collected
  BY <1>1, BegunFits DEF SyncFits, SyncFitsTypes, Free
<1>3. /\ {} \subseteq Collected
      /\ \A some \in SUBSET r.left : Identifiers(some) \subseteq Collected
      /\ \A m \in r.left : m.id \in Collected
  BY <1>2 DEF Collected, Identifiers
<1>4. pushed' \subseteq Collected /\ excused' \subseteq Collected
  <2>1. pushed \subseteq Collected /\ excused \subseteq Collected
    BY DEF SyncFitsTypes
  <2>2. CASE SyncWebhook(p, reply)
    BY <1>3, <2>1, <2>2 DEF SyncWebhook, Take
  <2>3. CASE SyncSlack(p, reply)
    BY <1>3, <2>1, <2>3 DEF SyncSlack, Take
  <2>4. CASE SyncRecord(p, reply)
    <3>1. PICK m \in r.left : /\ Take(IF Applied(reply) THEN {m.id} ELSE {})
                              /\ Refuse(IF Applied(reply) THEN {} ELSE {m.id})
      BY <2>4 DEF SyncRecord
    <3>2. QED
      BY <1>3, <2>1, <3>1 DEF Take, Refuse
  <2>5. CASE SignInTableau(p, reply)
    BY <2>1, <2>5 DEF SignInTableau
  <2>6. ASSUME NEW accepted, PublishTableau(p, reply, accepted)
        PROVE  pushed' \subseteq Collected /\ excused' \subseteq Collected
    BY <1>3, <2>1, <2>6 DEF PublishTableau, Take, Refuse
  <2>7. QED
    BY <2>2, <2>3, <2>4, <2>5, <2>6
<1>5. \/ Answered(p)
      \/ \E left, next : Pushed(p, left, next)
      \/ request' = [request EXCEPT ![p].at = "publish"]
  BY DEF SyncWebhook, SyncSlack, SyncRecord, SignInTableau, PublishTableau
<1>6. Moved(p) /\ (request'[p] = Free \/ request'[p].out \subseteq Collected)
  <2>1. CASE Answered(p)
    BY <1>1, <2>1, AnsweredMoves
  <2>2. ASSUME NEW left, NEW next, Pushed(p, left, next)
        PROVE  Moved(p) /\ request'[p].out \subseteq Collected
    <3>1. /\ Moved(p)
          /\ request'[p] = [r EXCEPT !.left = left, !.at = IF left = {} THEN next ELSE @]
      BY <1>1, <2>2 DEF RequestsAreFunction, Pushed, Moved
    <3>2. QED
      BY <1>2, <3>1 DEF HasFields, SyncFields
  <2>3. CASE request' = [request EXCEPT ![p].at = "publish"]
    <3>1. Moved(p) /\ request'[p] = [r EXCEPT !.at = "publish"]
      BY <1>1, <2>3 DEF RequestsAreFunction, Moved
    <3>2. QED
      BY <1>2, <3>1 DEF HasFields, SyncFields
  <2>4. QED
    BY <1>5, <2>1, <2>2, <2>3
<1>7. \A row \in integration' : row.type \in IntegrationTypes
  BY <1>1 DEF SyncFitsTypes
<1>8. QED
  BY <1>1, <1>4, <1>6, <1>7, SyncMoveFits

(* last_sync_at moves on and the type stays.                               *)
LEMMA CompleteKeepsTypes ==
    ASSUME SyncIInv, SyncFitsTypes, NEW row \in integration, Complete(row)
    PROVE  \A new \in integration' : new.type \in IntegrationTypes
<1>1. HasFields(row, {"type", "last", "deleted"}) /\ row.type \in IntegrationTypes
  BY DEF SyncIInv, SyncRowFits, SyncFitsTypes
<1>2. integration' = {[row EXCEPT !.last = syncClock]}
  BY DEF Complete
<1>3. QED
  BY <1>1, <1>2 DEF HasFields

(* The beginning of a sync and its end.                                    *)
LEMMA SyncEndsFit ==
    ASSUME SyncIInv, SyncFitsTypes, NEW p \in Requests, NEW reply,
           (\E project : QueryUnsynced(p, project, reply)) \/ CompleteSync(p, reply)
    PROVE  SyncFitsTypes'
<1>1. /\ UNCHANGED <<syncClock, collected, pushed>> /\ RequestsAreFunction
      /\ pushed \subseteq Collected /\ excused \subseteq Collected
      /\ \A row \in integration : row.type \in IntegrationTypes
  BY DEF QueryUnsynced, CompleteSync, SyncWorld, SyncIInv, SyncFitsTypes
<1>2. ASSUME NEW project, QueryUnsynced(p, project, reply) PROVE SyncFitsTypes'
  <2>1. PICK row \in Installed : \E taken \in NewestOf(Unsynced(row, project)) :
           Begin(p, [at |-> IF taken = {} THEN "done" ELSE "push", type |-> row.type, left |-> taken,
                     out |-> Identifiers(LeftOut(row, project, taken)),
                     seen |-> Cardinality(collected)])
    BY <1>2 DEF QueryUnsynced
  <2>2. PICK taken \in NewestOf(Unsynced(row, project)) :
           Begin(p, [at |-> IF taken = {} THEN "done" ELSE "push", type |-> row.type, left |-> taken,
                     out |-> Identifiers(LeftOut(row, project, taken)),
                     seen |-> Cardinality(collected)])
    BY <2>1
  <2>3. PICK left : left = Identifiers(LeftOut(row, project, taken))
    OBVIOUS
  <2>4. left \subseteq Collected
    BY <2>3 DEF Identifiers, LeftOut, Collected
  <2>5. Moved(p) /\ request'[p].out = left
    BY <1>1, <2>2, <2>3, BeginMoves
  <2>6. UNCHANGED <<integration, excused>>
    BY <1>2 DEF QueryUnsynced
  <2>7. QED
    BY <1>1, <2>4, <2>5, <2>6, SyncMoveFits
<1>3. CASE CompleteSync(p, reply)
  <2>1. Answered(p) /\ request[p].at = "done"
    BY <1>3 DEF CompleteSync, Reached
  <2>2. Moved(p) /\ request'[p] = Free
    BY <1>1, <2>1, AnsweredMoves
  <2>3. request[p].out \subseteq Collected
    BY <2>1 DEF SyncFitsTypes, Free
  <2>4. CASE UNCHANGED <<integration, excused>>
    BY <1>1, <2>2, <2>4, SyncMoveFits
  <2>5. CASE ~UNCHANGED <<integration, excused>>
    <3>1. PICK row \in Installed : Complete(row)
      BY <1>3, <2>5 DEF CompleteSync
    <3>2. \A new \in integration' : new.type \in IntegrationTypes
      BY <3>1, CompleteKeepsTypes DEF Installed
    <3>3. excused' = excused \cup request[p].out
                        \cup {m.id : m \in {c \in collected : c.id > request[p].seen}}
      BY <1>3, <2>5 DEF CompleteSync, Refuse
    <3>4. excused' \subseteq Collected
      BY <1>1, <2>3, <3>3 DEF Collected, Identifiers
    <3>5. QED
      BY <1>1, <2>2, <3>2, <3>4, SyncMoveFits
  <2>6. QED
    BY <2>4, <2>5
<1>4. QED
  BY <1>2, <1>3

(* Every step keeps the integrations' types.                               *)
LEMMA SyncNextFits ==
    ASSUME SyncIInv, SyncFitsTypes, [SyncNext]_syncVars
    PROVE  SyncFitsTypes'
<1>1. ASSUME NEW reply, NEW p \in Requests, Sync(p, reply) PROVE SyncFitsTypes'
  BY <1>1, SyncPushFits, SyncEndsFit DEF Sync
<1>2. ASSUME UNCHANGED <<pushed, excused, request>>, syncClock' \in 1 .. MaxSyncTick,
             collected \subseteq collected',
             \A row \in integration' : row.type \in IntegrationTypes
      PROVE  SyncFitsTypes'
  <2>1. Collected \subseteq Collected'
    BY <1>2 DEF Collected, Identifiers
  <2>2. QED
    BY <1>2, <2>1 DEF SyncFitsTypes
<1>3. CASE SyncTick
  <2>1. syncClock' \in 1 .. MaxSyncTick
    BY <1>3, SyncAssumption DEF SyncTick, SyncFitsTypes
  <2>2. QED
    BY <1>2, <1>3, <2>1 DEF SyncTick, SyncFitsTypes
<1>4. ASSUME NEW project, CollectMention(project) PROVE SyncFitsTypes'
  BY <1>2, <1>4 DEF CollectMention, SyncFitsTypes
<1>5. ASSUME NEW type \in IntegrationTypes, NEW reply, CreateIntegration(type, reply)
      PROVE  SyncFitsTypes'
  BY <1>2, <1>5 DEF CreateIntegration, SyncWorld, SyncFitsTypes
<1>6. ASSUME NEW reply, DeleteIntegration(reply) PROVE SyncFitsTypes'
  <2>1. ASSUME NEW row \in integration PROVE [row EXCEPT !.deleted = TRUE].type = row.type
    <3>1. HasFields(row, {"type", "last", "deleted"})
      BY DEF SyncIInv, SyncRowFits
    <3>2. QED
      BY <3>1 DEF HasFields
  <2>2. \A row \in integration' : row.type \in IntegrationTypes
    BY <1>6, <2>1 DEF DeleteIntegration, SyncFitsTypes
  <2>3. QED
    BY <1>2, <1>6, <2>2 DEF DeleteIntegration, SyncWorld, SyncFitsTypes
<1>7. CASE UNCHANGED syncVars
  BY <1>2, <1>7 DEF syncVars, SyncFitsTypes
<1>8. QED
  BY <1>1, <1>3, <1>4, <1>5, <1>6, <1>7 DEF SyncNext

(* Nothing is collected yet.                                               *)
LEMMA SyncInitFits == SyncInit => SyncFitsTypes
  BY SyncAssumption DEF SyncInit, NoRequests, SyncFitsTypes

-----------------------------------------------------------------------------
(* The realtime service.                                                   *)

CastFields == {"on", "kind", "rest", "left", "dead"}

IsCast(cast) ==
    HasFields(cast, CastFields) /\ cast.left \subseteq Sockets /\ cast.dead \subseteq Sockets

SocketsAreAt ==
    \A c \in Sockets : socket[c].at \in {"out", "auth", "connect", "open", "finally", "closed"}

CastsFit ==
    /\ DOMAIN casts = Tasks /\ casts = [t \in Tasks |-> casts[t]]
    /\ \A t \in Tasks : IsCast(casts[t])

(* The subscriber counts its errors as long as it listens, and has no      *)
(* broadcast under way while it does not.                                  *)
SubscriberFits ==
    /\ subscriber \in {"listening", "reconnecting", "stopped"}
    /\ errorsInRow \in 0 .. MaxErrors
    /\ subscriber # "stopped" => errorsInRow < MaxErrors
    /\ subscriber # "listening" => ~casts["subscriber"].on

RealtimeFits == SocketsAreAt /\ CastsFit /\ SubscriberFits

(* What the broadcasts hold are sockets.                                   *)
LEMMA RealtimeIsTyped == RealtimeIInv /\ RealtimeFits => RealtimeTypeOK
  BY DEF RealtimeIInv, SocketsFit, RealtimeFits, SocketsAreAt, CastsFit, IsCast, SubscriberFits,
         RealtimeTypeOK

(* One task's broadcast changes.                                           *)
LEMMA CastMoves ==
    ASSUME CastsFit, NEW t \in Tasks, NEW cast, IsCast(cast), Cast(t, cast)
    PROVE  /\ CastsFit' /\ casts'[t] = cast
           /\ \A u \in Tasks : u # t => casts'[u] = casts[u]
<1>1. /\ DOMAIN casts' = Tasks /\ casts' = [u \in Tasks |-> casts'[u]]
      /\ casts'[t] = cast /\ \A u \in Tasks : u # t => casts'[u] = casts[u]
  BY DEF Cast, CastsFit
<1>2. \A u \in Tasks : IsCast(casts'[u])
  BY <1>1 DEF CastsFit
<1>3. QED
  BY <1>1, <1>2 DEF CastsFit, IsCast

(* A broadcast other than the subscriber's, or one of its own while it     *)
(* listens, moves on.                                                      *)
LEMMA BroadcastMoves ==
    ASSUME RealtimeFits, NEW t \in Tasks, NEW cast, IsCast(cast), Cast(t, cast),
           t = "subscriber" /\ cast.on => subscriber = "listening",
           UNCHANGED <<socket, subscriber, errorsInRow>>
    PROVE  RealtimeFits'
<1>1. /\ CastsFit' /\ casts'[t] = cast
      /\ \A u \in Tasks : u # t => casts'[u] = casts[u]
  BY CastMoves DEF RealtimeFits
<1>2. casts'["subscriber"].on => casts["subscriber"].on \/ subscriber = "listening"
  <2>1. CASE t = "subscriber"
    BY <1>1, <2>1
  <2>2. CASE t # "subscriber"
    BY <1>1, <2>2 DEF Tasks
  <2>3. QED
    BY <2>1, <2>2
<1>3. SubscriberFits'
  BY <1>2 DEF RealtimeFits, SubscriberFits
<1>4. QED
  BY <1>1, <1>3 DEF RealtimeFits, SocketsAreAt

(* A broadcast takes sockets from the connections and sends to them.       *)
LEMMA CastStepFits ==
    ASSUME RealtimeIInv, RealtimeFits, NEW t \in Tasks,
           \/ NextChannel(t)
           \/ \E c \in Sockets : DropDead(t, c) \/ \E delivered \in BOOLEAN : SendTo(t, c, delivered)
    PROVE  RealtimeFits'
<1>1. /\ casts[t].on /\ UNCHANGED <<socket, subscriber, errorsInRow>>
      /\ IsCast(casts[t]) /\ connections \subseteq Sockets
  BY DEF NextChannel, Between, DropDead, SendTo, Clients, RealtimeFits, CastsFit, RealtimeIInv,
         SocketsFit
<1>2. t = "subscriber" => subscriber = "listening"
  BY <1>1 DEF RealtimeFits, SubscriberFits
<1>3. PICK cast : IsCast(cast) /\ Cast(t, cast)
  <2>1. CASE NextChannel(t)
    <3> DEFINE cast == [casts[t] EXCEPT !.left = On(Head(casts[t].rest)), !.rest = Tail(@)]
    <3>1. IsCast(cast)
      BY <1>1 DEF IsCast, HasFields, CastFields, On
    <3>2. Cast(t, cast)
      BY <2>1 DEF NextChannel
    <3>3. QED
      BY <3>1, <3>2
  <2>2. ASSUME NEW c \in Sockets, DropDead(t, c) PROVE \E cast : IsCast(cast) /\ Cast(t, cast)
    <3> DEFINE cast == [casts[t] EXCEPT !.dead = @ \ {c}]
    <3>1. IsCast(cast)
      BY <1>1 DEF IsCast, HasFields, CastFields
    <3>2. Cast(t, cast)
      BY <2>2 DEF DropDead
    <3>3. QED
      BY <3>1, <3>2
  <2>3. ASSUME NEW c \in Sockets, NEW delivered, SendTo(t, c, delivered)
        PROVE  \E cast : IsCast(cast) /\ Cast(t, cast)
    <3> DEFINE cast == [casts[t] EXCEPT !.left = @ \ {c},
                                        !.dead = IF delivered THEN @ ELSE @ \cup {c}]
    <3>1. IsCast(cast)
      BY <1>1 DEF IsCast, HasFields, CastFields
    <3>2. Cast(t, cast)
      BY <2>3 DEF SendTo
    <3>3. QED
      BY <3>1, <3>2
  <2>4. QED
    BY <2>1, <2>2, <2>3
<1>4. QED
  BY <1>1, <1>2, <1>3, BroadcastMoves

(* The end of a broadcast, which the subscriber counts as an error or not. *)
LEMMA FinishCastFits ==
    ASSUME RealtimeFits, NEW t \in Tasks, FinishCast(t)
    PROVE  RealtimeFits'
<1> USE RealtimeAssumption
<1>1. IsCast(NoCast) /\ ~NoCast.on
  BY DEF IsCast, HasFields, CastFields, NoCast
<1>2. Cast(t, NoCast) /\ casts[t].on /\ UNCHANGED socket
  BY DEF FinishCast, Between, Clients
<1>3. CASE t # "subscriber"
  <2>1. UNCHANGED <<subscriber, errorsInRow>>
    BY <1>3 DEF FinishCast
  <2>2. QED
    BY <1>1, <1>2, <2>1, BroadcastMoves
<1>4. CASE t = "subscriber"
  <2>1. CastsFit' /\ ~casts'["subscriber"].on
    BY <1>1, <1>2, <1>4, CastMoves DEF RealtimeFits
  <2>2. subscriber = "listening" /\ errorsInRow \in 0 .. MaxErrors /\ errorsInRow < MaxErrors
    BY <1>2, <1>4 DEF RealtimeFits, SubscriberFits
  <2>3. \/ SubscriberError("listening")
        \/ errorsInRow' = 0 /\ UNCHANGED subscriber
    BY <1>4 DEF FinishCast
  <2>4. SubscriberFits'
    BY <2>1, <2>2, <2>3 DEF SubscriberError, SubscriberFits
  <2>5. QED
    BY <1>2, <2>1, <2>4 DEF RealtimeFits, SocketsAreAt
<1>5. QED
  BY <1>3, <1>4

(* A broadcast begins.                                                     *)
LEMMA CastBeginFits ==
    ASSUME RealtimeFits,
           \/ \E kind : ReceiveMessage(kind) \/ \E p \in Requests : PublishMessage(p, kind)
           \/ Heartbeat
    PROVE  RealtimeFits'
<1>1. ASSUME NEW kind, NEW channels PROVE IsCast(CastOf(kind, channels))
  BY DEF CastOf, IsCast, HasFields, CastFields
<1>2. UNCHANGED <<socket, subscriber, errorsInRow>>
  BY DEF ReceiveMessage, PublishMessage, Heartbeat, Clients
<1>3. \E t \in Tasks : \E kind, channels :
         /\ Cast(t, CastOf(kind, channels))
         /\ t = "subscriber" => subscriber = "listening"
  <2>1. ASSUME NEW kind, ReceiveMessage(kind)
        PROVE  /\ Cast("subscriber", CastOf(kind, RouteOf(kind)))
               /\ "subscriber" \in Tasks /\ subscriber = "listening"
    BY <2>1 DEF ReceiveMessage, Tasks
  <2>2. ASSUME NEW kind, NEW p \in Requests, PublishMessage(p, kind)
        PROVE  Cast(p, CastOf(kind, RouteOf(kind))) /\ p \in Tasks /\ p # "subscriber"
    BY <2>2, RealtimeAssumption DEF PublishMessage, Tasks
  <2>3. ASSUME Heartbeat
        PROVE  "heartbeat" \in Tasks /\ \E order : Cast("heartbeat", CastOf("heartbeat", order))
    BY <2>3 DEF Heartbeat, Tasks
  <2>4. QED
    BY <2>1, <2>2, <2>3
<1>4. QED
  BY <1>1, <1>2, <1>3, BroadcastMoves

(* Every step keeps the realtime service's types.                          *)
LEMMA RealtimeNextFits ==
    ASSUME RealtimeIInv, RealtimeFits, [RealtimeNext]_realtimeVars
    PROVE  RealtimeFits'
<1> USE RealtimeAssumption
<1>1. ASSUME UNCHANGED <<casts, subscriber, errorsInRow>>, SocketsAreAt' PROVE RealtimeFits'
  BY <1>1 DEF RealtimeFits, CastsFit, IsCast, SubscriberFits
<1>2. ASSUME NEW c \in Sockets, SocketStep(c) PROVE RealtimeFits'
  <2>1. UNCHANGED <<casts, subscriber, errorsInRow>>
    BY <1>2 DEF SocketStep, AcceptSocket, Authenticate, ConnectSocket, LeaveSocket, EndReceive,
                DisconnectSocket, Broadcasts
  <2>2. HasFields(socket[c], {"at", "channel", "gone"}) /\ socket = [d \in Sockets |-> socket[d]]
    BY DEF RealtimeIInv, SocketsFit
  <2>3. ASSUME NEW where \in {"connect", "open", "finally", "closed"}, MoveSocket(c, where)
        PROVE  SocketsAreAt'
    BY <2>3, SocketMoves DEF RealtimeIInv, RealtimeFits, SocketsAreAt
  <2>4. ASSUME NEW channel, AcceptSocket(c, channel) PROVE SocketsAreAt'
    <3>1. /\ socket'[c] = [socket[c] EXCEPT !.at = "auth", !.channel = channel]
          /\ \A d \in Sockets : d # c => socket'[d] = socket[d]
      BY <2>2, <2>4 DEF AcceptSocket
    <3>2. socket'[c].at = "auth"
      BY <2>2, <3>1 DEF HasFields
    <3>3. QED
      BY <3>1, <3>2 DEF RealtimeFits, SocketsAreAt
  <2>5. ASSUME LeaveSocket(c) PROVE SocketsAreAt'
    <3>1. /\ socket'[c] = [socket[c] EXCEPT !.gone = TRUE]
          /\ \A d \in Sockets : d # c => socket'[d] = socket[d]
      BY <2>2, <2>5 DEF LeaveSocket
    <3>2. socket'[c].at = socket[c].at
      BY <2>2, <3>1 DEF HasFields
    <3>3. \A d \in Sockets : socket'[d].at = socket[d].at
      BY <3>1, <3>2
    <3>4. QED
      BY <3>3 DEF RealtimeFits, SocketsAreAt
  <2>6. SocketsAreAt'
    <3>1. ASSUME NEW permitted, Authenticate(c, permitted) PROVE SocketsAreAt'
      BY <2>3, <3>1 DEF Authenticate
    <3>2. CASE ConnectSocket(c)
      BY <2>3, <3>2 DEF ConnectSocket
    <3>3. CASE EndReceive(c) \/ DisconnectSocket(c)
      BY <2>3, <3>3 DEF EndReceive, DisconnectSocket
    <3>4. QED
      BY <1>2, <2>4, <2>5, <3>1, <3>2, <3>3 DEF SocketStep
  <2>7. QED
    BY <1>1, <2>1, <2>6
<1>3. ASSUME NEW t \in Tasks, CastStep(t) PROVE RealtimeFits'
  BY <1>3, CastStepFits, FinishCastFits DEF CastStep
<1>4. ASSUME NEW c \in SseClients, Subscribe(c) \/ Unsubscribe(c) \/ StreamToClient(c)
      PROVE  RealtimeFits'
  BY <1>1, <1>4 DEF Subscribe, Unsubscribe, StreamToClient, Clients, RealtimeFits, SocketsAreAt
<1>5. CASE LoseRedis
  <2>1. /\ UNCHANGED <<socket, casts>> /\ SubscriberError("reconnecting")
        /\ subscriber = "listening" /\ ~casts["subscriber"].on
    BY <1>5 DEF LoseRedis, Clients
  <2>2. SubscriberFits'
    BY <2>1 DEF SubscriberError, RealtimeFits, SubscriberFits
  <2>3. QED
    BY <2>1, <2>2 DEF RealtimeFits, SocketsAreAt, CastsFit, IsCast
<1>6. ASSUME NEW reply, Reconnect(reply) PROVE RealtimeFits'
  <2>1. /\ UNCHANGED <<socket, casts, errorsInRow>> /\ subscriber = "reconnecting"
        /\ subscriber' \in {"stopped", "listening"}
    BY <1>6 DEF Reconnect, Clients
  <2>2. SubscriberFits'
    BY <2>1 DEF RealtimeFits, SubscriberFits
  <2>3. QED
    BY <2>1, <2>2 DEF RealtimeFits, SocketsAreAt, CastsFit, IsCast
<1>7. CASE UNCHANGED realtimeVars
  BY <1>1, <1>7 DEF realtimeVars, RealtimeFits, SocketsAreAt
<1>8. QED
  BY <1>2, <1>3, <1>4, <1>5, <1>6, <1>7, CastBeginFits DEF RealtimeNext

(* Nobody is connected and nothing is broadcast.                           *)
LEMMA RealtimeInitFits == RealtimeInit => RealtimeFits
<1> SUFFICES ASSUME RealtimeInit PROVE RealtimeFits
  OBVIOUS
<1>1. IsCast(NoCast) /\ ~NoCast.on
  BY DEF IsCast, HasFields, CastFields, NoCast
<1>2. CastsFit /\ ~casts["subscriber"].on
  BY <1>1 DEF RealtimeInit, CastsFit, Tasks
<1>3. SubscriberFits
  BY <1>2, RealtimeAssumption DEF RealtimeInit, SubscriberFits
<1>4. SocketsAreAt
  BY DEF RealtimeInit, SocketsAreAt
<1>5. QED
  BY <1>2, <1>3, <1>4 DEF RealtimeFits

-----------------------------------------------------------------------------
(* Direct collection and the tasks.                                        *)

(* What a run was given, stored and ended with is of the posts there are.  *)
LEMMA DirectNextFits ==
    ASSUME DirectIInv, DirectTypeOK, [DirectNext]_<<directVars, request>>
    PROVE  DirectTypeOK'
<1>1. ASSUME NEW p \in Requests, NEW reply, CommitDirect(p, reply) PROVE DirectTypeOK'
  <2> DEFINE r == request[p]
             posts == {r.adding[i] : i \in DOMAIN r.adding}
  <2>1. CommitFits(mentionRows, r.raw, r.rivals, r.adding)
    BY <1>1 DEF CommitDirect, Reached, DirectIInv, DirectFits
  <2>2. ToSet(r.raw) \subseteq DirectPosts
    BY <2>1 DEF CommitFits, ToSet
  <2>3. posts \subseteq DirectPosts
    BY <2>1 DEF CommitFits
  <2>4. mentionRows' \subseteq mentionRows \cup posts
    BY <1>1 DEF CommitDirect
  <2>5. ASSUME NEW run \in directEnded' PROVE run \in directEnded \/ run.found = ToSet(r.raw)
    BY <1>1 DEF CommitDirect
  <2>6. QED
    BY <2>2, <2>3, <2>4, <2>5 DEF DirectTypeOK
<1>2. ASSUME NEW p \in Requests, NEW reply, ReadExisting(p, reply) PROVE DirectTypeOK'
  <2>1. request[p].raw \in Seq(DirectPosts)
    BY <1>2 DEF ReadExisting, Reached, DirectIInv, DirectFits
  <2>2. ToSet(request[p].raw) \subseteq DirectPosts
    BY <2>1 DEF ToSet
  <2>3. ASSUME NEW run \in directEnded'
        PROVE  run \in directEnded \/ run.found = ToSet(request[p].raw)
    BY <1>2 DEF ReadExisting
  <2>4. mentionRows' = mentionRows
    BY <1>2 DEF ReadExisting
  <2>5. QED
    BY <2>2, <2>3, <2>4 DEF DirectTypeOK
<1>3. ASSUME NEW c \in DOMAIN FreeAnswers, NEW posts \in FreeAnswers[c], NEW i \in DOMAIN posts,
             QueryStores(posts[i])
      PROVE  DirectTypeOK'
  <2>1. posts \in Seq(DirectPosts)
    BY DirectAssumption
  <2>2. posts[i] \in DirectPosts
    BY <2>1
  <2>3. QED
    BY <1>3, <2>2 DEF QueryStores, DirectTypeOK
<1>4. CASE UNCHANGED directVars
  BY <1>4 DEF directVars, DirectTypeOK
<1>5. QED
  BY <1>1, <1>2, <1>3, <1>4
     DEF DirectNext, DirectRun, DirectCollector, RunCollector, TriggerCollection, LoadDirectProject,
         directVars

(* No more tasks are begun than the bound allows.                          *)
LEMMA TaskNextFits ==
    ASSUME tasksBegun \in 0 .. MaxTasks, [TaskNext]_<<taskVars, request>>
    PROVE  tasksBegun' \in 0 .. MaxTasks
<1>1. ASSUME NEW p, NEW projects, StartTask(p, projects) PROVE tasksBegun' \in 0 .. MaxTasks
  BY <1>1, TaskAssumption DEF StartTask
<1>2. CASE UNCHANGED tasksBegun
  BY <1>2
<1>3. QED
  BY <1>1, <1>2
     DEF TaskNext, CollectionTask, CollectAllProjects, CollectProject, LoadTaskProject, StoreTaskPost,
         CommitTaskPosts, FinishTask, CollectTaskPlatform, NextTaskPlatform, TaskDies, taskVars

-----------------------------------------------------------------------------
(* The services together: a step of another service is none of this one.   *)

\* What each service does not share with the one that is explored.
OthersRest ==
    /\ service # "sessions" => UNCHANGED sessionsOwn
    /\ service \notin {"members", "keys"} => UNCHANGED tenancyOwn
    /\ service # "sync" => UNCHANGED syncOwn
    /\ service # "realtime" => UNCHANGED realtimeOwn
    /\ service # "idempotency" => UNCHANGED idempotencyOwn
    /\ service # "limiter" => UNCHANGED limiterVars
    /\ service # "search" => UNCHANGED searchVars
    /\ service # "direct" => UNCHANGED directVars
    /\ service # "tasks" => UNCHANGED taskVars

(* A step is of the service that was chosen and leaves the others alone.   *)
LEMMA OneServiceAtATime ==
    ASSUME [HandlersNext]_handlersVars
    PROVE  /\ service' = service
           /\ OthersRest
           /\ service = "sessions" => [SessionsNext]_sessionVars
           /\ service \in {"members", "keys"} => [TenancyNext]_tenancyVars
           /\ service = "sync" => [SyncNext]_syncVars
           /\ service = "realtime" => [RealtimeNext]_realtimeVars
           /\ service = "idempotency" => [IdempotencyNext]_idempotencyVars
           /\ service = "limiter" => [LimiterNext]_limiterVars
           /\ service = "search" => [SearchNext]_searchVars
           /\ service = "direct" => [DirectNext]_<<directVars, request>>
           /\ service = "tasks" => [TaskNext]_<<taskVars, request>>
<1>1. CASE UNCHANGED handlersVars
  <2>1. UNCHANGED <<service, request, sessionsOwn, tenancyOwn, syncOwn, realtimeOwn, idempotencyOwn,
                    limiterVars, searchVars, directVars, taskVars>>
    BY <1>1 DEF handlersVars
  <2>2. UNCHANGED sessionVars /\ UNCHANGED tenancyVars /\ UNCHANGED syncVars
    BY <2>1 DEF sessionVars, sessionsOwn, tenancyVars, tenancyOwn, syncVars, syncOwn
  <2>3. UNCHANGED realtimeVars /\ UNCHANGED idempotencyVars
    BY <2>1 DEF realtimeVars, realtimeOwn, idempotencyVars, idempotencyOwn
  <2>4. QED
    BY <2>1, <2>2, <2>3 DEF OthersRest
<1>2. CASE HandlersNext
  <2>1. MembersNext => TenancyNext
    BY DEF MembersNext, TenancyNext
  <2>2. KeysNext => TenancyNext
    BY HandlerServicesAssumption DEF KeysNext, TenancyNext, MemberHandler
  <2>3. QED
    BY <1>2, <2>1, <2>2 DEF HandlersNext, Only, OthersRest
<1>3. QED
  BY <1>1, <1>2

-----------------------------------------------------------------------------
(* What each service keeps, explored or not: one that is not has done      *)
(* nothing.  The key of the limiter and the searches do not share the      *)
(* requests, so that their invariants hold all along.                      *)

SessionsKeep == RevokedStaysRevoked /\ (service = "sessions" => SessionIInv /\ AccountsFit)

TenancyKeeps == LimitsHold /\ (service \in {"members", "keys"} => TenancyIInv /\ TenancyFits)

SyncKeeps == MissedIsExplained /\ (service = "sync" => SyncIInv /\ SyncFitsTypes)

RealtimeKeeps == ClientsAreServed /\ (service = "realtime" => RealtimeIInv /\ RealtimeFits)

IdempotencyKeeps == RepeatedForAReason /\ (service = "idempotency" => IdempotencyIInv)

DirectKeeps == DirectLossIsExplained /\ (service = "direct" => DirectIInv /\ DirectTypeOK)

TasksKeep ==
    TaskLossIsExplained /\ (service = "tasks" => TaskIInv /\ tasksBegun \in 0 .. MaxTasks)

HandlersIInv ==
    /\ SessionsKeep
    /\ TenancyKeeps
    /\ SyncKeeps
    /\ RealtimeKeeps
    /\ IdempotencyKeeps
    /\ KeyInv /\ GrantsInv
    /\ SearchIInv
    /\ DirectKeeps
    /\ TasksKeep

(* The services start as they do alone.                                    *)
LEMMA HandlersInitInv == HandlersInit => HandlersIInv
<1> SUFFICES ASSUME HandlersInit PROVE HandlersIInv
  OBVIOUS
<1>1. SessionsKeep
  BY SessionsInitInv DEF HandlersInit, SessionsKeep, SessionIInv
<1>2. TenancyKeeps
  BY TenancyInitInv, TenancyInitFits, TenancyHolds DEF HandlersInit, TenancyKeeps
<1>3. SyncKeeps
  BY SyncInitInv, SyncInitFits DEF HandlersInit, SyncKeeps, SyncIInv
<1>4. RealtimeKeeps
  BY RealtimeInitInv, RealtimeInitFits, RealtimeHolds DEF HandlersInit, RealtimeKeeps
<1>5. IdempotencyKeeps
  BY IdempotencyInitInv, IdempotencyHolds DEF HandlersInit, IdempotencyKeeps
<1>6. KeyInv /\ GrantsInv
  BY InitKey, InitGrants DEF HandlersInit
<1>7. SearchIInv
  BY SearchInitInv DEF HandlersInit
<1>8. DirectKeeps
  <2>1. DirectTypeOK
    BY DEF HandlersInit, DirectInit, DirectTypeOK
  <2>2. QED
    BY <2>1, DirectInitInv DEF HandlersInit, DirectKeeps, DirectIInv
<1>9. TasksKeep
  <2>1. tasksBegun \in 0 .. MaxTasks
    BY TaskAssumption DEF HandlersInit, TaskInit
  <2>2. QED
    BY <2>1, TaskInitInv DEF HandlersInit, TasksKeep, TaskIInv
<1>10. QED
  BY <1>1, <1>2, <1>3, <1>4, <1>5, <1>6, <1>7, <1>8, <1>9 DEF HandlersIInv

(* A step is the service's own, or one that leaves it alone.               *)
LEMMA HandlersStepInv == HandlersIInv /\ [HandlersNext]_handlersVars => HandlersIInv'
<1> SUFFICES ASSUME HandlersIInv, [HandlersNext]_handlersVars PROVE HandlersIInv'
  OBVIOUS
<1>1. service' = service /\ OthersRest
  BY OneServiceAtATime
<1>2. SessionsKeep'
  <2>1. CASE service = "sessions"
    <3>1. SessionIInv /\ AccountsFit /\ [SessionsNext]_sessionVars
      BY <2>1, OneServiceAtATime DEF HandlersIInv, SessionsKeep
    <3>2. SessionIInv' /\ AccountsFit'
      BY <3>1, SessionNextInv, AccountsNextInv
    <3>3. QED
      BY <1>1, <3>2 DEF SessionsKeep, SessionIInv
  <2>2. CASE service # "sessions"
    <3>1. UNCHANGED <<sessions, revoked>>
      BY <1>1, <2>2 DEF OthersRest, sessionsOwn
    <3>2. QED
      BY <1>1, <2>2, <3>1 DEF HandlersIInv, SessionsKeep, RevokedStaysRevoked
  <2>3. QED
    BY <2>1, <2>2
<1>3. TenancyKeeps'
  <2>1. CASE service \in {"members", "keys"}
    <3>1. TenancyIInv /\ TenancyFits /\ [TenancyNext]_tenancyVars
      BY <2>1, OneServiceAtATime DEF HandlersIInv, TenancyKeeps
    <3>2. TenancyIInv' /\ TenancyFits'
      BY <3>1, TenancyNextInv, TenancyNextFits
    <3>3. LimitsHold'
      BY <3>2, TenancyHolds, PTL
    <3>4. QED
      BY <1>1, <3>2, <3>3 DEF TenancyKeeps
  <2>2. CASE service \notin {"members", "keys"}
    <3>1. UNCHANGED <<org, role, peak, elsewhere, reported>>
      BY <1>1, <2>2 DEF OthersRest, tenancyOwn
    <3>2. LimitsHold'
      BY <3>1 DEF HandlersIInv, TenancyKeeps, LimitsHold, Members
    <3>3. QED
      BY <1>1, <2>2, <3>2 DEF TenancyKeeps
  <2>3. QED
    BY <2>1, <2>2
<1>4. SyncKeeps'
  <2>1. CASE service = "sync"
    <3>1. SyncIInv /\ SyncFitsTypes /\ [SyncNext]_syncVars
      BY <2>1, OneServiceAtATime DEF HandlersIInv, SyncKeeps
    <3>2. SyncIInv' /\ SyncFitsTypes'
      BY <3>1, SyncStepInv, SyncNextFits
    <3>3. QED
      BY <1>1, <3>2 DEF SyncKeeps, SyncIInv
  <2>2. CASE service # "sync"
    <3>1. UNCHANGED <<integration, collected, pushed, excused>>
      BY <1>1, <2>2 DEF OthersRest, syncOwn
    <3>2. QED
      BY <1>1, <2>2, <3>1 DEF HandlersIInv, SyncKeeps, MissedIsExplained
  <2>3. QED
    BY <2>1, <2>2
<1>5. RealtimeKeeps'
  <2>1. CASE service = "realtime"
    <3>1. RealtimeIInv /\ RealtimeFits /\ [RealtimeNext]_realtimeVars
      BY <2>1, OneServiceAtATime DEF HandlersIInv, RealtimeKeeps
    <3>2. RealtimeIInv' /\ RealtimeFits'
      BY <3>1, RealtimeNextInv, RealtimeNextFits
    <3>3. ClientsAreServed'
      BY <3>2, RealtimeHolds, PTL
    <3>4. QED
      BY <1>1, <3>2, <3>3 DEF RealtimeKeeps
  <2>2. CASE service # "realtime"
    <3>1. UNCHANGED <<socket, connections, sse, aired>>
      BY <1>1, <2>2 DEF OthersRest, realtimeOwn
    <3>2. ClientsAreServed'
      BY <3>1 DEF HandlersIInv, RealtimeKeeps, ClientsAreServed, SseKeepsNewest, RegisteredIsServed
    <3>3. QED
      BY <1>1, <2>2, <3>2 DEF RealtimeKeeps
  <2>3. QED
    BY <2>1, <2>2
<1>6. IdempotencyKeeps'
  <2>1. CASE service = "idempotency"
    <3>1. IdempotencyIInv /\ [IdempotencyNext]_idempotencyVars
      BY <2>1, OneServiceAtATime DEF HandlersIInv, IdempotencyKeeps
    <3>2. IdempotencyIInv'
      BY <3>1, IdempotencyNextInv
    <3>3. RepeatedForAReason'
      BY <3>2, IdempotencyHolds, PTL
    <3>4. QED
      BY <1>1, <3>2, <3>3 DEF IdempotencyKeeps
  <2>2. CASE service # "idempotency"
    <3>1. UNCHANGED <<handled, deduplicated, excuses>>
      BY <1>1, <2>2 DEF OthersRest, idempotencyOwn
    <3>2. QED
      BY <1>1, <2>2, <3>1 DEF HandlersIInv, IdempotencyKeeps, RepeatedForAReason
  <2>3. QED
    BY <2>1, <2>2
<1>7. KeyInv' /\ GrantsInv'
  <2>1. [LimiterNext]_limiterVars
    BY OneServiceAtATime DEF OthersRest
  <2>2. QED
    BY <2>1, StepKey, StepGrants DEF HandlersIInv
<1>8. SearchIInv'
  <2>1. [SearchNext]_searchVars
    BY OneServiceAtATime DEF OthersRest
  <2>2. QED
    BY <2>1, SearchStepInv DEF HandlersIInv
<1>9. DirectKeeps'
  <2>1. CASE service = "direct"
    <3>1. DirectIInv /\ DirectTypeOK /\ [DirectNext]_<<directVars, request>>
      BY <2>1, OneServiceAtATime DEF HandlersIInv, DirectKeeps
    <3>2. DirectIInv' /\ DirectTypeOK'
      BY <3>1, DirectStepInv, DirectNextFits
    <3>3. QED
      BY <1>1, <3>2 DEF DirectKeeps, DirectIInv
  <2>2. CASE service # "direct"
    <3>1. UNCHANGED <<mentionRows, directEnded>>
      BY <1>1, <2>2 DEF OthersRest, directVars
    <3>2. QED
      BY <1>1, <2>2, <3>1 DEF HandlersIInv, DirectKeeps, DirectLossIsExplained
  <2>3. QED
    BY <2>1, <2>2
<1>10. TasksKeep'
  <2>1. CASE service = "tasks"
    <3>1. TaskIInv /\ tasksBegun \in 0 .. MaxTasks /\ [TaskNext]_<<taskVars, request>>
      BY <2>1, OneServiceAtATime DEF HandlersIInv, TasksKeep
    <3>2. TaskIInv' /\ tasksBegun' \in 0 .. MaxTasks
      BY <3>1, TaskStepInv, TaskNextFits
    <3>3. QED
      BY <1>1, <3>2 DEF TasksKeep, TaskIInv
  <2>2. CASE service # "tasks"
    <3>1. UNCHANGED <<taskRows, taskEnded>>
      BY <1>1, <2>2 DEF OthersRest, taskVars
    <3>2. QED
      BY <1>1, <2>2, <3>1 DEF HandlersIInv, TasksKeep, TaskLossIsExplained
  <2>3. QED
    BY <2>1, <2>2
<1>11. QED
  BY <1>2, <1>3, <1>4, <1>5, <1>6, <1>7, <1>8, <1>9, <1>10 DEF HandlersIInv

(* Whichever service is explored, its state has its types.                 *)
THEOREM HandlersTyping == HandlersSpec => []HandlersTypeOK
<1>1. HandlersIInv => HandlersTypeOK
  <2> SUFFICES ASSUME HandlersIInv PROVE HandlersTypeOK
    OBVIOUS
  <2>1. service = "sessions" => SessionsTypeOK
    BY AccountsAreTyped DEF HandlersIInv, SessionsKeep
  <2>2. service \in {"members", "keys"} => TenancyTypeOK
    BY TenancyIsTyped DEF HandlersIInv, TenancyKeeps
  <2>3. service = "sync" => SyncTypeOK
    BY SyncIsTyped DEF HandlersIInv, SyncKeeps
  <2>4. service = "realtime" => RealtimeTypeOK
    BY RealtimeIsTyped DEF HandlersIInv, RealtimeKeeps
  <2>5. service = "idempotency" => IdempotencyTypeOK
    BY DEF HandlersIInv, IdempotencyKeeps, IdempotencyIInv
  <2>6. LimiterTypeOK /\ SearchTypeOK
    BY DEF HandlersIInv, KeyInv, Base, SearchIInv
  <2>7. service = "direct" => DirectTypeOK
    BY DEF HandlersIInv, DirectKeeps
  <2>8. service = "tasks" => TaskTypeOK
    BY DEF HandlersIInv, TasksKeep, TaskIInv, RowsAreCounts, TaskTypeOK
  <2>9. QED
    BY <2>1, <2>2, <2>3, <2>4, <2>5, <2>6, <2>7, <2>8 DEF HandlersTypeOK
<1>2. QED
  BY <1>1, HandlersInitInv, HandlersStepInv, PTL DEF HandlersSpec

(* Whichever service is explored, the composition keeps every promise the  *)
(* services keep alone: what the run checks is what was proved above.      *)
THEOREM HandlersKeepTheirPromises ==
    HandlersSpec => [](/\ RevokedStaysRevoked
                       /\ LimitsHold
                       /\ MissedIsExplained
                       /\ ClientsAreServed
                       /\ RepeatedForAReason
                       /\ KeyBounded
                       /\ GrantsBounded
                       /\ SearchLosesOnlyItsOwn
                       /\ DirectLossIsExplained
                       /\ TaskLossIsExplained)
<1> DEFINE Promises == /\ RevokedStaysRevoked
                       /\ LimitsHold
                       /\ MissedIsExplained
                       /\ ClientsAreServed
                       /\ RepeatedForAReason
                       /\ KeyBounded
                       /\ GrantsBounded
                       /\ SearchLosesOnlyItsOwn
                       /\ DirectLossIsExplained
                       /\ TaskLossIsExplained
<1>1. HandlersIInv => Promises
  <2> SUFFICES ASSUME HandlersIInv PROVE Promises
    OBVIOUS
  <2>1. RevokedStaysRevoked /\ LimitsHold /\ MissedIsExplained /\ ClientsAreServed
    BY DEF HandlersIInv, SessionsKeep, TenancyKeeps, SyncKeeps, RealtimeKeeps
  <2>2. KeyBounded /\ GrantsBounded
    BY GrantsHold DEF HandlersIInv, KeyInv
  <2>3. SearchLosesOnlyItsOwn
    BY SearchIInvImplies DEF HandlersIInv
  <2>4. RepeatedForAReason /\ DirectLossIsExplained /\ TaskLossIsExplained
    BY DEF HandlersIInv, IdempotencyKeeps, DirectKeeps, TasksKeep
  <2>5. QED
    BY <2>1, <2>2, <2>3, <2>4
<1>2. HandlersSpec => []Promises
  BY <1>1, HandlersInitInv, HandlersStepInv, PTL DEF HandlersSpec
<1>3. QED
  BY <1>2
=============================================================================
