------------------------------ MODULE Sessions ------------------------------
(* The sessions of one account: service/auth over Redis.                  *)
(*                                                                        *)
(* A session is a record, a key for its current refresh token, an entry   *)
(* in the user's set and, for some seconds after a rotation, a grace      *)
(* record under the old token.  Only the rotation is a transaction        *)
(* (WATCH); everything else reads and then writes, so that records are    *)
(* written back from copies.  A pipeline of writes is one step.           *)
EXTENDS Integers, FiniteSets

CONSTANTS
    SessionIds,     \* 1, 2, ... in the order of creation; 0 is no session
    Tokens,         \* refresh tokens, in the order they are generated
    AuthRequests,   \* requests in progress, on any instance
    AuthOps,        \* operations the requests of an instance ask for
    MaxSessions,    \* sessions kept for a user
    GraceHops,      \* maxGraceChainHops
    MaxAuth,        \* bound on requests
    MaxAuthFaults   \* bound on requests that end half way

ASSUME SessionsAssumption == SessionIds \subseteq Nat \ {0} /\ Tokens \subseteq Nat \ {0} /\ GraceHops \in Nat

VARIABLES
    account,        \* users.status
    rec,            \* session records: the token they name, 0 without one
    refresh,        \* refresh keys: token -> session
    grace,          \* grace records: token -> [s, new]
    uset,           \* the user's session set
    born,           \* sessions created so far
    expired,        \* sessions past their ExpiresAt
    areq,           \* requests
    touches,        \* pending touches
    flush,          \* copies the touch worker holds
    revoked,        \* sessions that were revoked
    announced,      \* sessions whose revocation was published
    fresh,          \* the next token
    authCount, authFaults,
    stale           \* sessions written or deleted by an outdated copy

redisVars == <<rec, refresh, grace, uset, born, expired, fresh>>
authVars == <<account, redisVars, areq, touches, flush, revoked, announced, authCount, authFaults, stale>>

NoGrace == [s |-> 0, new |-> 0]
IdleAuth == [op |-> "idle", at |-> "done", s |-> 0, t |-> 0, copy |-> 0, todo |-> {}]

Live(s) == rec[s] # 0
Goto(q, at) == areq' = [areq EXCEPT ![q].at = at]
AuthDone(q) == areq' = [areq EXCEPT ![q] = IdleAuth]
Reads == UNCHANGED <<redisVars, touches, flush, revoked, announced, authFaults, stale>>

\* A record that has not expired is written back from a copy; the copy may be
\* outdated.
Writes(copies) ==
    /\ rec' = [s \in SessionIds |-> IF s \in DOMAIN copies \ expired THEN copies[s] ELSE rec[s]]
    /\ stale' = stale \cup {s \in DOMAIN copies \ expired : copies[s] # rec[s]}
------------------------------------------------------------------------------
(* Revocation, one session after another.                                 *)

\* Revoke reads the record, for its token.
RevokeRead(q, s) ==
    /\ areq[q].at = "revoke" /\ s \in areq[q].todo
    /\ areq' = IF Live(s) THEN [areq EXCEPT ![q].at = "delete", ![q].s = s, ![q].copy = rec[s]]
                          ELSE [areq EXCEPT ![q].todo = @ \ {s}]
    /\ UNCHANGED <<account, authCount>> /\ Reads

\* ... deletes it with its keys and tells the other instances, unless that fails.
Revoke(q) ==
    LET s == areq[q].s
    IN  /\ areq[q].at = "delete"
        /\ rec' = [rec EXCEPT ![s] = 0]
        /\ refresh' = [refresh EXCEPT ![areq[q].copy] = 0]
        /\ uset' = uset \ {s}
        /\ revoked' = revoked \cup {s}
        /\ stale' = IF rec[s] \in {0, areq[q].copy} THEN stale ELSE stale \cup {s}
        /\ \/ announced' = announced \cup {s} /\ UNCHANGED authFaults
           \/ authFaults < MaxAuthFaults /\ authFaults' = authFaults + 1 /\ UNCHANGED announced
        /\ areq' = [areq EXCEPT ![q].at = "revoke", ![q].todo = @ \ {s}]
        /\ UNCHANGED <<account, grace, born, expired, fresh, touches, flush, authCount>>

\* RevokeAllUserSessions ends by deleting the set, RevokeAllUserSessionsExcept
\* and a single logout do not.  Deactivate then writes the account.
RevokedAll(q) ==
    /\ areq[q].at = "revoke" /\ areq[q].todo = {}
    /\ uset' = IF areq[q].op \in {"logout_all", "deactivate"} THEN {} ELSE uset
    /\ IF areq[q].op = "deactivate" THEN Goto(q, "deactivate") ELSE AuthDone(q)
    /\ UNCHANGED <<account, rec, refresh, grace, born, expired, fresh, touches, flush, revoked, announced, authCount,
                   authFaults, stale>>

Deactivate(q) ==
    /\ areq[q].at = "deactivate"
    /\ account' = "deactivated"
    /\ AuthDone(q)
    /\ UNCHANGED authCount /\ Reads
------------------------------------------------------------------------------
(* Logging in.                                                            *)

OverLimit(listed) == Cardinality(listed) > MaxSessions

\* Create: record, refresh key and set entry in one pipeline.
Create(q, s) ==
    /\ areq[q].at = "create" /\ s = Cardinality(born) + 1 /\ fresh \in Tokens
    /\ rec' = [rec EXCEPT ![s] = fresh]
    /\ refresh' = [refresh EXCEPT ![fresh] = s]
    /\ uset' = uset \cup {s} /\ born' = born \cup {s} /\ fresh' = fresh + 1
    /\ Goto(q, "enforce")
    /\ UNCHANGED <<account, grace, expired, touches, flush, revoked, announced, authCount, authFaults, stale>>

\* enforceMaxSessions: the oldest beyond the limit are revoked; entries
\* without a record leave the set.
enforceMaxSessions(q) ==
    LET listed == {s \in uset : Live(s)}
        excess == Cardinality(listed) - MaxSessions
        Oldest == {s \in listed : Cardinality({r \in listed : r < s}) < excess}
    IN  /\ areq[q].at = "enforce"
        /\ uset' = IF Cardinality(uset) > MaxSessions THEN listed ELSE uset
        /\ areq' = [areq EXCEPT ![q].at = "revoke", ![q].todo = IF OverLimit(listed) THEN Oldest ELSE {}]
        /\ UNCHANGED <<account, rec, refresh, grace, born, expired, fresh, touches, flush, revoked, announced, authCount,
                       authFaults, stale>>

\* Login passed the password and status checks; ReactivateAndLogin writes the
\* account first.
Login(q) ==
    /\ areq[q].at = "start" /\ areq[q].op = "login"
    /\ account = "active"
    /\ Goto(q, "create")
    /\ UNCHANGED <<account, authCount>> /\ Reads

ReactivateAndLogin(q) ==
    /\ areq[q].at = "start" /\ areq[q].op = "login"
    /\ account = "deactivated" /\ account' = "active"
    /\ areq' = [areq EXCEPT ![q].op = "reactivate", ![q].at = "create"]
    /\ UNCHANGED authCount /\ Reads

\* CreateSessionForUser failed: the account is deactivated again.
ReactivateRollback(q) ==
    /\ areq[q].at = "create" /\ areq[q].op = "reactivate" /\ authFaults < MaxAuthFaults
    /\ account' = "deactivated"
    /\ authFaults' = authFaults + 1
    /\ AuthDone(q)
    /\ UNCHANGED <<redisVars, touches, flush, revoked, announced, authCount, stale>>
------------------------------------------------------------------------------
(* Refreshing.                                                            *)

\* ValidateRefreshToken finds the session of the token ...
ValidateRefreshToken(q) ==
    LET t == areq[q].t  s == refresh[t]
    IN  /\ areq[q].at = "start" /\ areq[q].op = "refresh"
        /\ areq' = CASE s = 0 -> [areq EXCEPT ![q].at = "replay"]
                     [] OTHER      -> IF Live(s) THEN [areq EXCEPT ![q].at = "touch", ![q].s = s, ![q].copy = rec[s]]
                                                 ELSE [areq EXCEPT ![q] = IdleAuth]
        /\ UNCHANGED <<account, authCount>> /\ Reads

\* ... and writes it back with its new time; an account that is not active ends.
RefreshToken(q) ==
    /\ areq[q].at = "touch" /\ areq[q].op = "refresh"
    /\ Writes([s \in {areq[q].s} |-> areq[q].copy])
    /\ IF account = "active" THEN Goto(q, "rotate") ELSE AuthDone(q)
    /\ UNCHANGED <<account, refresh, grace, uset, born, expired, fresh, touches, flush, revoked, announced, authCount, authFaults>>

\* RotateRefreshToken, under WATCH: the token still belongs to the session.
RotateRead(q) ==
    LET r == areq[q]
    IN  /\ r.at = "rotate"
        /\ areq' = IF refresh[r.t] = r.s /\ Live(r.s) THEN [areq EXCEPT ![q].at = "commit", ![q].copy = rec[r.s]]
                                                      ELSE [areq EXCEPT ![q].at = "replay"]
        /\ UNCHANGED <<account, authCount>> /\ Reads

Unwatched_Always(r) == TRUE

\* EXEC fails when the watched key was touched.
Unwatched(r) == refresh[r.t] = r.s

RotateRefreshToken(q) ==
    LET r == areq[q]
    IN  /\ r.at = "commit"
        /\ IF Unwatched(r)
           THEN /\ fresh \in Tokens
                /\ rec' = [rec EXCEPT ![r.s] = fresh]
                /\ refresh' = [refresh EXCEPT ![r.t] = 0, ![fresh] = r.s]
                /\ grace' = [grace EXCEPT ![r.t] = [s |-> r.s, new |-> fresh]]
                /\ fresh' = fresh + 1 /\ AuthDone(q)
           ELSE Goto(q, "replay") /\ UNCHANGED <<rec, refresh, grace, fresh>>
        /\ UNCHANGED <<account, uset, born, expired, touches, flush, revoked, announced, authCount, authFaults, stale>>

Successor_Short(t, s) == IF refresh[grace[t].new] = s THEN grace[t].new ELSE 0

\* ReplayRotation follows the grace records of the session to its live token: what
\* is found from a token with n more records to follow.
Follow(s) ==
    LET found[n \in 0 .. GraceHops] ==
          [x \in Tokens |-> IF refresh[x] = s THEN x
                            ELSE IF n > 0 /\ grace[x].s = s THEN found[n - 1][grace[x].new]
                            ELSE 0]
    IN  found

Successor(t, s) == Follow(s)[GraceHops - 1][grace[t].new]

ReplayRotation(t) ==
    IF grace[t].s = 0 THEN 0
    ELSE IF Live(grace[t].s) THEN Successor(t, grace[t].s)
    ELSE 0

\* graceReplay: the answer is the live token, or "invalid refresh token".
graceReplay(q) ==
    /\ areq[q].at = "replay"
    /\ AuthDone(q)
    /\ UNCHANGED <<account, authCount>> /\ Reads
------------------------------------------------------------------------------
(* Touching, expiry, listing.                                             *)

\* ValidateToken lets a request in and defers the touch.
ValidateToken(s) ==
    /\ "touch" \in AuthOps /\ Live(s) /\ s \notin touches
    /\ touches' = touches \cup {s}
    /\ UNCHANGED <<account, redisVars, areq, flush, revoked, announced, authCount, authFaults, stale>>

\* flushTouches reads the records in one pipeline, writes them in the next.
flushTouches ==
    /\ touches # {} /\ flush = {}
    /\ flush' = {[s |-> s, copy |-> rec[s]] : s \in {x \in touches : Live(x)}}
    /\ touches' = {}
    /\ UNCHANGED <<account, redisVars, areq, revoked, announced, authCount, authFaults, stale>>

RunTouchWorker ==
    /\ flush # {}
    /\ Writes([s \in {f.s : f \in flush} |-> (CHOOSE f \in flush : f.s = s).copy])
    /\ flush' = {}
    /\ UNCHANGED <<account, refresh, grace, uset, born, expired, fresh, areq, touches, revoked, announced, authCount, authFaults>>

\* The keys of a session expire together, its set entry stays.
SessionExpire(s) ==
    /\ "expire" \in AuthOps /\ Live(s)
    /\ expired' = expired \cup {s}
    /\ rec' = [rec EXCEPT ![s] = 0]
    /\ refresh' = [t \in Tokens |-> IF refresh[t] = s THEN 0 ELSE refresh[t]]
    /\ UNCHANGED <<account, grace, uset, born, fresh, areq, touches, flush, revoked, announced, authCount, authFaults, stale>>

\* Grace records expire in the order they were written.
GraceExpire(t) ==
    /\ "expire" \in AuthOps
    /\ grace[t] # NoGrace /\ \A x \in Tokens : grace[x].s = grace[t].s => x >= t
    /\ grace' = [grace EXCEPT ![t] = NoGrace]
    /\ UNCHANGED <<account, rec, refresh, uset, born, expired, fresh, areq, touches, flush, revoked, announced, authCount,
                   authFaults, stale>>

ListUserSessions ==
    /\ "list" \in AuthOps /\ \E s \in uset : ~Live(s)
    /\ uset' = {s \in uset : Live(s)}
    /\ UNCHANGED <<account, rec, refresh, grace, born, expired, fresh, areq, touches, flush, revoked, announced, authCount,
                   authFaults, stale>>
------------------------------------------------------------------------------
SessionBelongsToUser(s) == Live(s)

\* A request arrives: a login, a refresh with some token a client once got, a
\* logout of one session, of all, of all but one, or a deactivation.
AuthAsk(q, op, s, t) ==
    /\ areq[q] = IdleAuth /\ op \in AuthOps /\ authCount < MaxAuth
    /\ op = "logout" => SessionBelongsToUser(s)
    /\ op = "deactivate" => account = "active"
    /\ areq' = [areq EXCEPT ![q] =
         [IdleAuth EXCEPT !.op = op, !.t = t,
            !.at = IF op \in {"login", "refresh"} THEN "start" ELSE "revoke",
            !.todo = CASE op = "logout" -> {s}
                       [] op = "logout_others" -> uset \ {s}
                       [] op \in {"logout_all", "deactivate"} -> uset
                       [] OTHER -> {}]]
    /\ authCount' = authCount + 1
    /\ UNCHANGED account /\ Reads

\* A request ends half way: a refused one before its first write, a client
\* that went away or a Redis that timed out anywhere.
AuthFault(q) ==
    /\ areq[q].op # "idle" /\ authFaults < MaxAuthFaults
    /\ authFaults' = authFaults + 1
    /\ AuthDone(q)
    /\ UNCHANGED <<account, redisVars, touches, flush, revoked, announced, authCount, stale>>

SessionsInit ==
    /\ account = "active" /\ rec = [s \in SessionIds |-> 0]
    /\ refresh = [t \in Tokens |-> 0] /\ grace = [t \in Tokens |-> NoGrace]
    /\ uset = {} /\ born = {} /\ expired = {} /\ fresh = 1
    /\ areq = [q \in AuthRequests |-> IdleAuth]
    /\ touches = {} /\ flush = {} /\ revoked = {} /\ announced = {}
    /\ authCount = 0 /\ authFaults = 0 /\ stale = {}

SessionsNext ==
    \/ \E q \in AuthRequests :
        \/ AuthAsk(q, "login", 0, 0) \/ AuthAsk(q, "logout_all", 0, 0)
        \/ AuthAsk(q, "deactivate", 0, 0)
        \/ \E t \in 1 .. (fresh - 1) : AuthAsk(q, "refresh", 0, t)
        \/ \E s \in born : AuthAsk(q, "logout", s, 0) \/ AuthAsk(q, "logout_others", s, 0)
        \/ \E s \in SessionIds : RevokeRead(q, s) \/ Create(q, s)
        \/ Revoke(q) \/ RevokedAll(q) \/ Deactivate(q) \/ enforceMaxSessions(q)
        \/ Login(q) \/ ReactivateAndLogin(q) \/ ReactivateRollback(q)
        \/ ValidateRefreshToken(q) \/ RefreshToken(q) \/ RotateRead(q) \/ RotateRefreshToken(q)
        \/ graceReplay(q) \/ AuthFault(q)
    \/ \E s \in SessionIds : ValidateToken(s) \/ SessionExpire(s)
    \/ \E t \in Tokens : GraceExpire(t)
    \/ flushTouches \/ RunTouchWorker \/ ListUserSessions

SessionsSpec == SessionsInit /\ [][SessionsNext]_authVars
------------------------------------------------------------------------------
\* A client that lost the race, or the answer, gets the live token with the old
\* one while its grace record lasts, through up to GraceHops rotations.
StragglerKeepsSession ==
    \A t \in Tokens :
        LET s == grace[t].s
        IN  (/\ s # 0 /\ s \notin stale
             /\ rec[s] # 0 /\ Cardinality({x \in Tokens : x >= t /\ grace[x].s = s}) <= GraceHops)
            => ReplayRotation(t) = rec[s]

\* A session that was revoked stays out, whatever was being refreshed, unless a
\* validation or the touch worker wrote it back from a copy it had read before.
RevokedStaysOut ==
    \A s \in revoked \ stale : ~Live(s)
=============================================================================
