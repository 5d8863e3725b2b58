---------------------------- MODULE AccountsProofs ----------------------------
(* Proofs about the sessions of an account, for any number of sessions,     *)
(* tokens, requests and faults; about replay, for any number of sockets and *)
(* events; and about presence, for any number of devices and readers.       *)
EXTENDS Sockets, FiniteSetTheorems, WellFoundedInduction, TLAPS

-----------------------------------------------------------------------------
(* Sessions.                                                                *)

AuthKinds == {"idle", "login", "reactivate", "refresh", "logout", "logout_all", "logout_others", "deactivate"}
AuthSteps ==
    {"done", "start", "create", "enforce", "revoke", "delete", "deactivate", "touch", "rotate", "commit", "replay"}
AuthRequest ==
    [op : AuthKinds, at : AuthSteps, s : Nat, t : Nat, copy : Nat, todo : SUBSET SessionIds]

SessionsTyped ==
    /\ rec \in [SessionIds -> Nat]
    /\ refresh \in [Tokens -> Nat]
    /\ fresh \in Nat \ {0} /\ 1 .. (fresh - 1) \subseteq Tokens
    /\ areq \in [AuthRequests -> AuthRequest]
    /\ uset \subseteq born /\ born \subseteq SessionIds
    /\ revoked \subseteq born /\ touches \subseteq SessionIds
    /\ \E n \in Nat : born = 1 .. n

\* A request that is about to use a session or a token has one.
RequestOK(r, names) ==
    /\ r.at \in {"touch", "rotate", "commit", "delete"} => r.s \in names
    /\ (r.at \in {"touch", "rotate", "commit"} \/ (r.at = "start" /\ r.op = "refresh")) => r.t \in Tokens

\* Whatever names a session names one that was created.
NamesAreBorn ==
    /\ \A s \in SessionIds : Live(s) => s \in born
    /\ \A t \in Tokens : refresh[t] # 0 => refresh[t] \in born
    /\ flush \subseteq [s : born, copy : Nat]
    /\ \A q \in AuthRequests : RequestOK(areq[q], born)

\* The refresh key and the record of a session name each other, so that the key
\* the rotation watches is the only one, until a stale copy is written back.
KeyMatchesRecord ==
    \A s \in born \ stale, t \in Tokens : refresh[t] = s => rec[s] = t

SInv == SessionsTyped /\ NamesAreBorn /\ KeyMatchesRecord /\ RevokedStaysOut

LEMMA SInvInit == SessionsInit => SInv
<1> SUFFICES ASSUME SessionsInit PROVE SInv
  OBVIOUS
<1> USE SessionsAssumption DEF SessionsInit
<1>1. SessionsTyped
  <2>1. born = 1 .. 0
    OBVIOUS
  <2>2. IdleAuth \in AuthRequest
    BY DEF IdleAuth, AuthRequest, AuthKinds, AuthSteps
  <2> QED
    BY <2>1, <2>2 DEF SessionsTyped
<1>2. NamesAreBorn /\ KeyMatchesRecord /\ RevokedStaysOut
  BY DEF NamesAreBorn, KeyMatchesRecord, RevokedStaysOut, Live, IdleAuth, RequestOK
<1> QED
  BY <1>1, <1>2 DEF SInv

LEMMA TokensGrow ==
    ASSUME SInv, fresh \in Tokens, fresh' = fresh + 1
    PROVE  fresh' \in Nat \ {0} /\ 1 .. (fresh' - 1) \subseteq Tokens
<1>1. fresh \in Nat \ {0} /\ 1 .. (fresh - 1) \subseteq Tokens
  BY DEF SInv, SessionsTyped
<1>2. \A i \in 1 .. (fresh' - 1) : i \in 1 .. (fresh - 1) \/ i = fresh
  BY <1>1
<1> QED
  BY <1>1, <1>2

LEMMA RequestChanges ==
    ASSUME SInv, NEW q \in AuthRequests, NEW r \in AuthRequest,
           areq' = [areq EXCEPT ![q] = r], born \subseteq born', RequestOK(r, born')
    PROVE  /\ areq' \in [AuthRequests -> AuthRequest]
           /\ \A p \in AuthRequests : RequestOK(areq'[p], born')
  BY DEF SInv, SessionsTyped, NamesAreBorn, RequestOK

\* A step that leaves the records and the keys alone.
LEMMA KeysUntouched ==
    ASSUME SInv, UNCHANGED <<rec, refresh, born, fresh, revoked, stale>>,
           uset' \subseteq born, touches' \subseteq SessionIds, flush' \subseteq [s : born, copy : Nat],
           areq' \in [AuthRequests -> AuthRequest], \A p \in AuthRequests : RequestOK(areq'[p], born')
    PROVE  SInv'
<1>1. SessionsTyped'
  BY DEF SInv, SessionsTyped
<1>2. NamesAreBorn' /\ KeyMatchesRecord' /\ RevokedStaysOut'
  BY DEF SInv, NamesAreBorn, KeyMatchesRecord, RevokedStaysOut, Live
<1> QED
  BY <1>1, <1>2 DEF SInv

LEMMA RequestMoves ==
    ASSUME SInv, NEW q \in AuthRequests, NEW r \in AuthRequest,
           areq' = [areq EXCEPT ![q] = r], RequestOK(r, born),
           UNCHANGED <<rec, refresh, born, fresh, revoked, stale, flush, touches>>, uset' \subseteq born
    PROVE  SInv'
<1>1. RequestOK(r, born')
  BY DEF RequestOK
<1>2. flush' \subseteq [s : born, copy : Nat] /\ touches' \subseteq SessionIds
  BY DEF SInv, SessionsTyped, NamesAreBorn
<1> QED
  BY <1>1, <1>2, RequestChanges, KeysUntouched

LEMMA IdleIsOK == IdleAuth \in AuthRequest /\ RequestOK(IdleAuth, born) /\ RequestOK(IdleAuth, born')
  BY DEF IdleAuth, AuthRequest, AuthKinds, AuthSteps, RequestOK

LEMMA DoneKeeps ==
    ASSUME SInv, NEW q \in AuthRequests, AuthDone(q),
           UNCHANGED <<rec, refresh, born, fresh, revoked, stale, flush, touches>>, uset' \subseteq born
    PROVE  SInv'
  BY IdleIsOK, RequestMoves DEF AuthDone

LEMMA GotoKeeps ==
    ASSUME SInv, NEW q \in AuthRequests,
           NEW step \in {"create", "enforce", "revoke", "deactivate", "replay"}, Goto(q, step),
           UNCHANGED <<rec, refresh, born, fresh, revoked, stale, flush, touches>>, uset' \subseteq born
    PROVE  SInv'
<1> DEFINE r == [areq[q] EXCEPT !.at = step]
<1>1. r \in AuthRequest /\ RequestOK(r, born) /\ areq' = [areq EXCEPT ![q] = r]
  BY DEF SInv, SessionsTyped, AuthRequest, AuthSteps, RequestOK, Goto
<1> QED
  BY <1>1, RequestMoves

LEMMA AskKeeps ==
    ASSUME SInv, NEW q \in AuthRequests, NEW op \in AuthKinds, NEW s \in born \cup {0}, NEW t \in Nat,
           op = "refresh" => t \in Tokens, op = "logout" => s \in born, AuthAsk(q, op, s, t)
    PROVE  SInv'
<1> DEFINE r == [IdleAuth EXCEPT !.op = op, !.t = t,
                   !.at = IF op \in {"login", "refresh"} THEN "start" ELSE "revoke",
                   !.todo = CASE op = "logout" -> {s}
                              [] op = "logout_others" -> uset \ {s}
                              [] op \in {"logout_all", "deactivate"} -> uset
                              [] OTHER -> {}]
<1>1. r.todo \subseteq SessionIds
  BY DEF SInv, SessionsTyped, IdleAuth
<1>2. r \in AuthRequest /\ RequestOK(r, born)
  BY <1>1 DEF AuthRequest, AuthSteps, RequestOK, IdleAuth
<1>3. areq' = [areq EXCEPT ![q] = r] /\ UNCHANGED <<redisVars, flush, touches, revoked, stale>>
  BY DEF AuthAsk, Reads
<1>4. uset' \subseteq born
  BY <1>3 DEF redisVars, SInv, SessionsTyped
<1> HIDE DEF r
<1> QED
  BY <1>2, <1>3, <1>4, RequestMoves DEF redisVars

LEMMA RevokeReadKeeps ==
    ASSUME SInv, NEW q \in AuthRequests, NEW s \in SessionIds, RevokeRead(q, s)
    PROVE  SInv'
<1> DEFINE r == IF Live(s) THEN [areq[q] EXCEPT !.at = "delete", !.s = s, !.copy = rec[s]]
                           ELSE [areq[q] EXCEPT !.todo = @ \ {s}]
<1>1. r \in AuthRequest /\ RequestOK(r, born)
  BY SessionsAssumption DEF SInv, SessionsTyped, NamesAreBorn, AuthRequest, AuthSteps, RequestOK, RevokeRead
<1>2. areq' = [areq EXCEPT ![q] = r]
  BY DEF RevokeRead
<1>3. uset' \subseteq born
  BY DEF RevokeRead, Reads, redisVars, SInv, SessionsTyped
<1> HIDE DEF r
<1> QED
  BY <1>1, <1>2, <1>3, RequestMoves DEF RevokeRead, Reads, redisVars

LEMMA ValidateKeeps ==
    ASSUME SInv, NEW q \in AuthRequests, ValidateRefreshToken(q)
    PROVE  SInv'
<1> DEFINE s == refresh[areq[q].t]
           r == IF s = 0 THEN [areq[q] EXCEPT !.at = "replay"]
                ELSE IF Live(s) THEN [areq[q] EXCEPT !.at = "touch", !.s = s, !.copy = rec[s]]
                                ELSE IdleAuth
<1>1. areq[q].t \in Tokens /\ s \in Nat /\ (s # 0 => s \in born /\ s \in SessionIds)
  BY DEF SInv, SessionsTyped, NamesAreBorn, RequestOK, ValidateRefreshToken
<1>2. r \in AuthRequest /\ RequestOK(r, born)
  <2>1. CASE s = 0
    BY <2>1 DEF SInv, SessionsTyped, AuthRequest, AuthSteps, RequestOK
  <2>2. CASE s # 0 /\ Live(s)
    BY <1>1, <2>2 DEF SInv, SessionsTyped, AuthRequest, AuthSteps, RequestOK
  <2>3. CASE s # 0 /\ ~Live(s)
    BY <2>3, IdleIsOK
  <2> QED
    BY <2>1, <2>2, <2>3
<1>3. areq' = [areq EXCEPT ![q] = r]
  BY DEF ValidateRefreshToken
<1>4. uset' \subseteq born
  BY DEF ValidateRefreshToken, Reads, redisVars, SInv, SessionsTyped
<1> HIDE DEF r
<1> QED
  BY <1>2, <1>3, <1>4, RequestMoves DEF ValidateRefreshToken, Reads, redisVars

LEMMA RotateReadKeeps ==
    ASSUME SInv, NEW q \in AuthRequests, RotateRead(q)
    PROVE  SInv'
<1> DEFINE r == IF refresh[areq[q].t] = areq[q].s /\ Live(areq[q].s)
                THEN [areq[q] EXCEPT !.at = "commit", !.copy = rec[areq[q].s]]
                ELSE [areq[q] EXCEPT !.at = "replay"]
<1>1. r \in AuthRequest /\ RequestOK(r, born)
  BY DEF SInv, SessionsTyped, NamesAreBorn, AuthRequest, AuthSteps, RequestOK, RotateRead
<1>2. areq' = [areq EXCEPT ![q] = r]
  BY DEF RotateRead
<1>3. uset' \subseteq born
  BY DEF RotateRead, Reads, redisVars, SInv, SessionsTyped
<1> HIDE DEF r
<1> QED
  BY <1>1, <1>2, <1>3, RequestMoves DEF RotateRead, Reads, redisVars

LEMMA EnforceKeeps ==
    ASSUME SInv, NEW q \in AuthRequests, enforceMaxSessions(q)
    PROVE  SInv'
<1>1. PICK todo \in SUBSET uset :
        areq' = [areq EXCEPT ![q].at = "revoke", ![q].todo = todo]
  BY DEF enforceMaxSessions
<1> DEFINE r == [areq[q] EXCEPT !.at = "revoke", !.todo = todo]
<1>2. r \in AuthRequest /\ RequestOK(r, born) /\ areq' = [areq EXCEPT ![q] = r]
  BY <1>1 DEF SInv, SessionsTyped, AuthRequest, AuthSteps, RequestOK
<1>3. uset' \subseteq born
  BY DEF enforceMaxSessions, SInv, SessionsTyped
<1> HIDE DEF r
<1> QED
  BY <1>2, <1>3, RequestMoves DEF enforceMaxSessions

\* A new session has the next number, so nothing names it yet.
LEMMA CreateKeeps ==
    ASSUME SInv, NEW q \in AuthRequests, NEW s \in SessionIds, Create(q, s)
    PROVE  SInv'
<1> USE SessionsAssumption
<1>1. s \notin born /\ \E n \in Nat : born' = 1 .. n
  <2>1. PICK n \in Nat : born = 1 .. n
    BY DEF SInv, SessionsTyped
  <2>2. Cardinality(born) = n
    BY <2>1, FS_Interval
  <2>3. s = n + 1 /\ born' = 1 .. (n + 1)
    BY <2>1, <2>2 DEF Create
  <2> QED
    BY <2>1, <2>3
<1>2. /\ areq' \in [AuthRequests -> AuthRequest]
      /\ \A p \in AuthRequests : RequestOK(areq'[p], born')
  <2> DEFINE r == [areq[q] EXCEPT !.at = "enforce"]
  <2>1. r \in AuthRequest /\ RequestOK(r, born') /\ areq' = [areq EXCEPT ![q] = r]
    BY DEF Create, Goto, SInv, SessionsTyped, AuthRequest, AuthSteps, RequestOK
  <2> QED
    BY <2>1, RequestChanges DEF Create
<1>3. SessionsTyped'
  <2>1. fresh' \in Nat \ {0} /\ 1 .. (fresh' - 1) \subseteq Tokens
    BY TokensGrow DEF Create
  <2> QED
    BY <1>1, <1>2, <2>1 DEF Create, SInv, SessionsTyped
<1>4. NamesAreBorn'
  BY <1>2 DEF Create, SInv, SessionsTyped, NamesAreBorn, Live
<1>5. KeyMatchesRecord'
  BY <1>1 DEF Create, SInv, SessionsTyped, NamesAreBorn, KeyMatchesRecord
<1>6. RevokedStaysOut'
  BY <1>1 DEF Create, SInv, SessionsTyped, RevokedStaysOut, Live
<1> QED
  BY <1>3, <1>4, <1>5, <1>6 DEF SInv

\* Deleting a session that nobody wrote back since it was read leaves no key.
LEMMA RevokeKeeps ==
    ASSUME SInv, NEW q \in AuthRequests, Revoke(q)
    PROVE  SInv'
<1> USE SessionsAssumption
<1>1. areq[q].s \in born /\ areq[q].s \in SessionIds /\ areq[q].s # 0
  BY DEF Revoke, SInv, SessionsTyped, NamesAreBorn, RequestOK
<1>2. /\ areq' \in [AuthRequests -> AuthRequest]
      /\ \A p \in AuthRequests : RequestOK(areq'[p], born')
  <2> DEFINE r == [areq[q] EXCEPT !.at = "revoke", !.todo = @ \ {areq[q].s}]
  <2>1. r \in AuthRequest /\ RequestOK(r, born') /\ areq' = [areq EXCEPT ![q] = r]
    BY DEF Revoke, SInv, SessionsTyped, AuthRequest, AuthSteps, RequestOK
  <2> QED
    BY <2>1, RequestChanges DEF Revoke
<1>3. SessionsTyped'
  BY <1>1, <1>2 DEF Revoke, SInv, SessionsTyped
<1>4. NamesAreBorn'
  BY <1>2 DEF Revoke, SInv, SessionsTyped, NamesAreBorn, Live
<1>5. KeyMatchesRecord'
  <2> SUFFICES ASSUME NEW s \in born \ stale', NEW t \in Tokens, refresh'[t] = s
               PROVE  rec'[s] = t
    BY DEF Revoke, KeyMatchesRecord
  <2>1. s # 0 /\ refresh[t] = s /\ t # areq[q].copy /\ s \notin stale /\ t # 0
    BY DEF Revoke, SInv, SessionsTyped
  <2>2. rec[s] = t
    BY <2>1 DEF SInv, KeyMatchesRecord
  <2>3. s # areq[q].s
    BY <2>1, <2>2 DEF Revoke
  <2> QED
    BY <1>1, <2>2, <2>3 DEF Revoke, SInv, SessionsTyped
<1>6. RevokedStaysOut'
  BY <1>1 DEF Revoke, SInv, SessionsTyped, RevokedStaysOut, Live
<1> QED
  BY <1>3, <1>4, <1>5, <1>6 DEF SInv

\* The rotation runs only while the watched key names the session: then its
\* record is the one the key belongs to, and it was not revoked.
LEMMA RotateKeeps ==
    ASSUME SInv, NEW q \in AuthRequests, RotateRefreshToken(q), Unwatched(areq[q])
    PROVE  SInv'
<1> USE SessionsAssumption
<1>1. /\ areq[q].s \in born /\ areq[q].s \in SessionIds /\ areq[q].s # 0
      /\ areq[q].t \in Tokens /\ refresh[areq[q].t] = areq[q].s
  <2>1. RequestOK(areq[q], born) /\ areq[q].at = "commit"
    BY DEF RotateRefreshToken, SInv, NamesAreBorn
  <2>2. areq[q].s \in born /\ areq[q].t \in Tokens
    BY <2>1 DEF RequestOK
  <2> QED
    BY <2>2 DEF SInv, SessionsTyped, Unwatched
<1>2. /\ areq' \in [AuthRequests -> AuthRequest]
      /\ \A p \in AuthRequests : RequestOK(areq'[p], born')
  <2>1. IdleAuth \in AuthRequest /\ RequestOK(IdleAuth, born') /\ areq' = [areq EXCEPT ![q] = IdleAuth]
    BY IdleIsOK DEF RotateRefreshToken, AuthDone, RequestOK, IdleAuth
  <2> QED
    BY <2>1, RequestChanges DEF RotateRefreshToken
<1>3. SessionsTyped'
  <2>1. fresh' \in Nat \ {0} /\ 1 .. (fresh' - 1) \subseteq Tokens
    BY TokensGrow DEF RotateRefreshToken
  <2>2. rec' \in [SessionIds -> Nat]
    BY <1>1 DEF RotateRefreshToken, SInv, SessionsTyped
  <2>3. refresh' \in [Tokens -> Nat]
    BY <1>1 DEF RotateRefreshToken, SInv, SessionsTyped
  <2> QED
    BY <1>1, <1>2, <2>1, <2>2, <2>3 DEF RotateRefreshToken, SInv, SessionsTyped
<1>4. NamesAreBorn'
  BY <1>1, <1>2 DEF RotateRefreshToken, SInv, SessionsTyped, NamesAreBorn, Live
<1>5. KeyMatchesRecord'
  <2> SUFFICES ASSUME NEW s \in born \ stale, NEW t \in Tokens, refresh'[t] = s
               PROVE  rec'[s] = t
    BY DEF RotateRefreshToken, KeyMatchesRecord
  <2>1. CASE s = areq[q].s
    <3>1. t = fresh \/ (refresh[t] = s /\ t # areq[q].t)
      BY <1>1, <2>1 DEF RotateRefreshToken, SInv, SessionsTyped
    <3>2. refresh[t] = s => t = areq[q].t
      BY <1>1, <2>1 DEF SInv, KeyMatchesRecord
    <3> QED
      BY <1>1, <2>1, <3>1, <3>2 DEF RotateRefreshToken, SInv, SessionsTyped
  <2>2. CASE s # areq[q].s
    <3>1. refresh[t] = s
      BY <1>1, <2>2 DEF RotateRefreshToken, SInv, SessionsTyped
    <3> QED
      BY <1>1, <2>2, <3>1 DEF RotateRefreshToken, SInv, SessionsTyped, KeyMatchesRecord
  <2> QED
    BY <2>1, <2>2
<1>6. RevokedStaysOut'
  <2>1. areq[q].s \notin revoked \ stale
    BY <1>1 DEF SInv, KeyMatchesRecord, RevokedStaysOut, Live
  <2> QED
    BY <2>1 DEF RotateRefreshToken, SInv, SessionsTyped, RevokedStaysOut, Live
<1> QED
  BY <1>3, <1>4, <1>5, <1>6 DEF SInv

\* A record that is written back is the one that is there, or becomes stale.
LEMMA WritesKeep ==
    ASSUME SInv, NEW copies, Writes(copies), DOMAIN copies \subseteq born,
           \A s \in DOMAIN copies : copies[s] \in Nat,
           UNCHANGED <<refresh, uset, born, fresh, revoked, touches>>,
           flush' \subseteq [s : born, copy : Nat],
           areq' \in [AuthRequests -> AuthRequest], \A p \in AuthRequests : RequestOK(areq'[p], born')
    PROVE  SInv'
<1>1. \A s \in SessionIds \ stale' : rec'[s] = rec[s]
  BY DEF Writes
<1>2. SessionsTyped'
  BY DEF Writes, SInv, SessionsTyped
<1>3. NamesAreBorn'
  BY DEF Writes, SInv, SessionsTyped, NamesAreBorn, Live
<1>4. KeyMatchesRecord' /\ RevokedStaysOut'
  <2>1. stale \subseteq stale' /\ born \subseteq SessionIds /\ revoked \subseteq SessionIds
    BY DEF Writes, SInv, SessionsTyped
  <2> QED
    BY <1>1, <2>1 DEF SInv, KeyMatchesRecord, RevokedStaysOut, Live
<1> QED
  BY <1>2, <1>3, <1>4 DEF SInv

LEMMA RefreshKeeps ==
    ASSUME SInv, NEW q \in AuthRequests, RefreshToken(q)
    PROVE  SInv'
<1> DEFINE copies == [s \in {areq[q].s} |-> areq[q].copy]
           r == IF account = "active" THEN [areq[q] EXCEPT !.at = "rotate"] ELSE IdleAuth
<1>1. DOMAIN copies \subseteq born /\ \A s \in DOMAIN copies : copies[s] \in Nat
  BY DEF RefreshToken, SInv, SessionsTyped, NamesAreBorn, RequestOK, AuthRequest
<1>2. areq' \in [AuthRequests -> AuthRequest] /\ \A p \in AuthRequests : RequestOK(areq'[p], born')
  <2>1. r \in AuthRequest /\ RequestOK(r, born')
    BY IdleIsOK DEF RefreshToken, SInv, SessionsTyped, NamesAreBorn, AuthRequest, AuthSteps, RequestOK, IdleAuth
  <2>2. areq' = [areq EXCEPT ![q] = r] /\ born \subseteq born'
    BY DEF RefreshToken, Goto, AuthDone
  <2> HIDE DEF r
  <2> QED
    BY <2>1, <2>2, RequestChanges
<1>3. flush' \subseteq [s : born, copy : Nat]
  BY DEF RefreshToken, SInv, NamesAreBorn
<1>4. Writes(copies)
  BY DEF RefreshToken
<1> HIDE DEF copies
<1> QED
  BY <1>1, <1>2, <1>3, <1>4, WritesKeep DEF RefreshToken

LEMMA TouchKeeps ==
    ASSUME SInv, RunTouchWorker
    PROVE  SInv'
<1> DEFINE copies == [s \in {f.s : f \in flush} |-> (CHOOSE f \in flush : f.s = s).copy]
<1>1. DOMAIN copies \subseteq born
  BY DEF SInv, NamesAreBorn
<1>2. ASSUME NEW s \in DOMAIN copies PROVE copies[s] \in Nat
  <2>1. \E f \in flush : f.s = s
    BY <1>2
  <2>2. (CHOOSE f \in flush : f.s = s) \in flush
    BY <2>1
  <2> QED
    BY <1>2, <2>2 DEF SInv, NamesAreBorn
<1>3. areq' \in [AuthRequests -> AuthRequest] /\ \A p \in AuthRequests : RequestOK(areq'[p], born')
  BY DEF RunTouchWorker, SInv, SessionsTyped, NamesAreBorn, RequestOK
<1>4. Writes(copies) /\ flush' = {}
  BY DEF RunTouchWorker
<1> HIDE DEF copies
<1> QED
  BY <1>1, <1>2, <1>3, <1>4, WritesKeep DEF RunTouchWorker

LEMMA ExpireKeeps ==
    ASSUME SInv, NEW s \in SessionIds, SessionExpire(s)
    PROVE  SInv'
<1> USE SessionsAssumption
<1>1. SessionsTyped'
  BY DEF SessionExpire, SInv, SessionsTyped
<1>2. NamesAreBorn'
  BY DEF SessionExpire, SInv, SessionsTyped, NamesAreBorn, Live, RequestOK
<1>3. KeyMatchesRecord'
  BY DEF SessionExpire, SInv, SessionsTyped, KeyMatchesRecord
<1>4. RevokedStaysOut'
  BY DEF SessionExpire, SInv, SessionsTyped, RevokedStaysOut, Live
<1> QED
  BY <1>1, <1>2, <1>3, <1>4 DEF SInv

LEMMA SInvNext == SInv /\ [SessionsNext]_authVars => SInv'
<1> SUFFICES ASSUME SInv, [SessionsNext]_authVars PROVE SInv'
  OBVIOUS
<1> USE SessionsAssumption
<1>0. uset \subseteq born /\ born \subseteq SessionIds /\ 1 .. (fresh - 1) \subseteq Tokens
  BY DEF SInv, SessionsTyped
<1>1. ASSUME NEW q \in AuthRequests, NEW op \in {"login", "logout_all", "deactivate"}, AuthAsk(q, op, 0, 0)
      PROVE  SInv'
  BY <1>1, AskKeeps DEF AuthKinds
<1>2. ASSUME NEW q \in AuthRequests, NEW t \in 1 .. (fresh - 1), AuthAsk(q, "refresh", 0, t)
      PROVE  SInv'
  BY <1>0, <1>2, AskKeeps DEF AuthKinds
<1>3. ASSUME NEW q \in AuthRequests, NEW s \in born, NEW op \in {"logout", "logout_others"}, AuthAsk(q, op, s, 0)
      PROVE  SInv'
  BY <1>3, AskKeeps DEF AuthKinds
<1>4. ASSUME NEW q \in AuthRequests, NEW s \in SessionIds, RevokeRead(q, s) \/ Create(q, s) PROVE SInv'
  BY <1>4, RevokeReadKeeps, CreateKeeps
<1>5. ASSUME NEW q \in AuthRequests, RevokedAll(q) PROVE SInv'
  <2>1. CASE areq[q].op = "deactivate"
    BY <1>0, <1>5, <2>1, GotoKeeps DEF RevokedAll
  <2>2. CASE areq[q].op # "deactivate"
    BY <1>0, <1>5, <2>2, DoneKeeps DEF RevokedAll
  <2> QED
    BY <2>1, <2>2
<1>6. ASSUME NEW q \in AuthRequests, Deactivate(q) \/ graceReplay(q) PROVE SInv'
  BY <1>0, <1>6, DoneKeeps DEF Deactivate, graceReplay, Reads, redisVars
<1>7. ASSUME NEW q \in AuthRequests, ReactivateRollback(q) \/ AuthFault(q) PROVE SInv'
  BY <1>0, <1>7, DoneKeeps DEF ReactivateRollback, AuthFault, redisVars
<1>8. ASSUME NEW q \in AuthRequests, Login(q) PROVE SInv'
  BY <1>0, <1>8, GotoKeeps DEF Login, Reads, redisVars
<1>9. ASSUME NEW q \in AuthRequests, ReactivateAndLogin(q) PROVE SInv'
  <2> DEFINE r == [areq[q] EXCEPT !.op = "reactivate", !.at = "create"]
  <2>1. r \in AuthRequest /\ RequestOK(r, born) /\ areq' = [areq EXCEPT ![q] = r]
    BY <1>9 DEF ReactivateAndLogin, SInv, SessionsTyped, AuthRequest, AuthSteps, AuthKinds, RequestOK
  <2> HIDE DEF r
  <2> QED
    BY <1>0, <1>9, <2>1, RequestMoves DEF ReactivateAndLogin, Reads, redisVars
<1>10. ASSUME NEW q \in AuthRequests, RotateRefreshToken(q) PROVE SInv'
  <2>1. CASE ~Unwatched(areq[q])
    BY <1>0, <1>10, <2>1, GotoKeeps DEF RotateRefreshToken
  <2> QED
    BY <1>10, <2>1, RotateKeeps
<1>11. ASSUME NEW q \in AuthRequests,
              \/ Revoke(q) \/ enforceMaxSessions(q) \/ ValidateRefreshToken(q)
              \/ RefreshToken(q) \/ RotateRead(q)
       PROVE  SInv'
  BY <1>11, RevokeKeeps, EnforceKeeps, ValidateKeeps, RefreshKeeps, RotateReadKeeps
<1>12. ASSUME NEW s \in SessionIds, ValidateToken(s) PROVE SInv'
  BY <1>12, KeysUntouched DEF ValidateToken, redisVars, SInv, SessionsTyped, NamesAreBorn, RequestOK
<1>13. ASSUME NEW t \in Tokens, GraceExpire(t) PROVE SInv'
  BY <1>13, KeysUntouched DEF GraceExpire, SInv, SessionsTyped, NamesAreBorn, RequestOK
<1>14. CASE flushTouches
  <2>1. flush' \subseteq [s : born, copy : Nat]
    <3> SUFFICES ASSUME NEW s \in touches, Live(s)
                 PROVE  [s |-> s, copy |-> rec[s]] \in [s : born, copy : Nat]
      BY <1>14 DEF flushTouches
    <3>1. s \in born /\ rec[s] \in Nat
      BY DEF SInv, SessionsTyped, NamesAreBorn, Live
    <3> QED BY <3>1
  <2> QED
    BY <1>14, <2>1, KeysUntouched DEF flushTouches, redisVars, SInv, SessionsTyped, NamesAreBorn, RequestOK
<1>15. CASE ListUserSessions
  BY <1>0, <1>15, KeysUntouched DEF ListUserSessions, SInv, SessionsTyped, NamesAreBorn, RequestOK
<1>16. CASE UNCHANGED authVars
  BY <1>0, <1>16, KeysUntouched DEF authVars, redisVars, SInv, SessionsTyped, NamesAreBorn, RequestOK
<1> QED
  BY <1>1, <1>2, <1>3, <1>4, <1>5, <1>6, <1>7, <1>8, <1>9, <1>10, <1>11, <1>12, <1>13, <1>14, <1>15, <1>16,
     TouchKeeps, ExpireKeeps DEF SessionsNext

\* A session that was revoked stays out for any number of sessions, tokens,
\* requests and failures, whatever was being rotated when it was revoked, unless
\* a validation or the touch worker wrote it back from an older copy.
THEOREM RevocationHolds == SessionsSpec => []RevokedStaysOut
<1>1. SInv => RevokedStaysOut
  BY DEF SInv
<1> QED
  BY <1>1, SInvInit, SInvNext, PTL DEF SessionsSpec

-----------------------------------------------------------------------------
(* The straggler.  The grace records of a session are one chain in the     *)
(* order of its rotations that ends at its live token, because a token is  *)
(* only ever named by one session and a grace record that expires is the   *)
(* first of the chain.                                                     *)

\* A request that will write back or delete a session by its copy.
Carries(r, s, t) == r.at \in {"touch", "delete"} /\ r.s = s /\ r.copy = t

\* A token is the session's, anywhere: in its record, in a key, in a grace record,
\* in the copy of a request or of the touch worker.
Names(t, s) ==
    \/ rec[s] = t
    \/ t \in Tokens /\ refresh[t] = s
    \/ \E x \in Tokens : grace[x].s = s /\ (t = x \/ t = grace[x].new)
    \/ \E q \in AuthRequests : Carries(areq[q], s, t)
    \/ [s |-> s, copy |-> t] \in flush

OneOwner ==
    \A t \in Nat \ {0}, s \in SessionIds : Names(t, s) => t < fresh /\ \A r \in SessionIds : Names(t, r) => r = s

GraceTyped == grace \in [Tokens -> [s : born \cup {0}, new : Nat]]

\* The grace records of a session lead from one to the next and to the live token.
ChainOK(s) ==
    /\ rec[s] \in Tokens /\ refresh[rec[s]] = s
    /\ \A t \in Tokens : grace[t].s = s =>
         /\ t < rec[s] /\ t < grace[t].new /\ grace[t].new \in Tokens
         /\ grace[t].new = rec[s] \/ grace[grace[t].new].s = s
         /\ \A x \in Tokens : grace[x].s = s /\ t < x => grace[t].new <= x

Chains == \A s \in SessionIds \ stale : Live(s) => ChainOK(s)

ChainInv == GraceTyped /\ OneOwner /\ Chains

LEMMA ChainInvInit == SessionsInit => ChainInv
BY SessionsAssumption
   DEF SessionsInit, ChainInv, GraceTyped, OneOwner, Chains, Names, Carries, Live, NoGrace, IdleAuth

\* What OneOwner says of one token.
LEMMA OneOwnerOnly ==
    ASSUME OneOwner, NEW t \in Nat \ {0}, NEW s \in SessionIds, Names(t, s)
    PROVE  t < fresh /\ \A r \in SessionIds : Names(t, r) => r = s
BY DEF OneOwner

\* No token is named by another session than before.
LEMMA OwnersStay ==
    ASSUME OneOwner, fresh' = fresh, \A t \in Nat \ {0}, s \in SessionIds : Names(t, s)' => Names(t, s)
    PROVE  OneOwner'
BY DEF OneOwner

\* The next token is one session's.
LEMMA OwnerOfNext ==
    ASSUME OneOwner, fresh \in Nat \ {0}, fresh' = fresh + 1, NEW o \in SessionIds,
           \A t \in Nat \ {0}, s \in SessionIds : Names(t, s)' => Names(t, s) \/ (t = fresh /\ s = o)
    PROVE  OneOwner'
<1> SUFFICES ASSUME NEW t \in Nat \ {0}, NEW s \in SessionIds, Names(t, s)'
             PROVE  t < fresh' /\ \A r \in SessionIds : Names(t, r)' => r = s
  BY DEF OneOwner
<1>1. CASE Names(t, s)
  BY <1>1 DEF OneOwner
<1>2. CASE t = fresh /\ s = o
  BY <1>2 DEF OneOwner
<1> QED BY <1>1, <1>2

\* Records, keys and grace records that stay keep the chains of the sessions that
\* did not become stale.
LEMMA ChainsStay ==
    ASSUME Chains, UNCHANGED <<refresh, grace>>, stale \subseteq stale',
           \A s \in SessionIds \ stale' : rec'[s] = rec[s]
    PROVE  Chains'
BY DEF Chains, ChainOK, Live

\* A step of a request that writes no session, and goes on with no copy but its own.
LEMMA CarriesOwn ==
    ASSUME SInv, ChainInv, UNCHANGED <<rec, refresh, grace, born, fresh, stale>>, flush' \subseteq flush,
           \A p \in AuthRequests, s \in SessionIds, t \in Nat \ {0} : Carries(areq'[p], s, t) => Names(t, s)
    PROVE  ChainInv'
<1>1. \A t \in Nat \ {0}, s \in SessionIds : Names(t, s)' => Names(t, s)
  BY DEF Names
<1>2. OneOwner'
  BY <1>1, OwnersStay DEF ChainInv
<1>3. Chains'
  BY ChainsStay DEF ChainInv
<1> QED BY <1>2, <1>3 DEF ChainInv, GraceTyped

LEMMA ReadsOwn ==
    ASSUME SInv, ChainInv, UNCHANGED <<rec, refresh, grace, born, fresh, stale>>, flush' \subseteq flush,
           NEW q \in AuthRequests, NEW r, areq' = [areq EXCEPT ![q] = r],
           r.at \in {"touch", "delete"} => (r.s = areq[q].s /\ r.copy = areq[q].copy /\ r.at = areq[q].at) \/ r.copy = rec[r.s]
    PROVE  ChainInv'
<1>1. ASSUME NEW p \in AuthRequests, NEW s \in SessionIds, NEW t \in Nat \ {0}, Carries(areq'[p], s, t)
      PROVE  Names(t, s)
  <2>1. CASE p = q
    BY <1>1, <2>1 DEF Carries, Names, SInv, SessionsTyped
  <2>2. CASE p # q
    BY <1>1, <2>2 DEF Names, SInv, SessionsTyped
  <2> QED BY <2>1, <2>2
<1> QED BY <1>1, CarriesOwn

\* The requests that only read, ask or end.
LEMMA RequestsOwn ==
    ASSUME SInv, ChainInv, NEW q \in AuthRequests, UNCHANGED <<rec, refresh, grace, born, fresh, stale, flush>>,
           \/ \E op, s, t : AuthAsk(q, op, s, t)
           \/ \E s \in SessionIds : RevokeRead(q, s)
           \/ AuthDone(q) \/ \E at \in AuthSteps \ {"touch", "delete"} : Goto(q, at)
           \/ enforceMaxSessions(q) \/ ValidateRefreshToken(q) \/ RotateRead(q) \/ ReactivateAndLogin(q)
    PROVE  ChainInv'
<1> USE DEF SInv, SessionsTyped, AuthRequest
<1>1. CASE AuthDone(q)
  BY <1>1, ReadsOwn DEF AuthDone, IdleAuth
<1>2. CASE \E at \in AuthSteps \ {"touch", "delete"} : Goto(q, at)
  <2>1. PICK at \in AuthSteps \ {"touch", "delete"} : areq' = [areq EXCEPT ![q] = [areq[q] EXCEPT !.at = at]]
    BY <1>2 DEF Goto
  <2>2. [areq[q] EXCEPT !.at = at].at = at
    OBVIOUS
  <2> QED BY <2>1, <2>2, ReadsOwn
<1>3. CASE \E op, s, t : AuthAsk(q, op, s, t)
  <2>1. PICK op, s, t : AuthAsk(q, op, s, t)
    BY <1>3
  <2> DEFINE r == [IdleAuth EXCEPT !.op = op, !.t = t,
                     !.at = IF op \in {"login", "refresh"} THEN "start" ELSE "revoke",
                     !.todo = CASE op = "logout" -> {s}
                                [] op = "logout_others" -> uset \ {s}
                                [] op \in {"logout_all", "deactivate"} -> uset
                                [] OTHER -> {}]
  <2>2. r.at \in {"start", "revoke"}
    BY DEF IdleAuth
  <2>3. areq' = [areq EXCEPT ![q] = r]
    BY <2>1 DEF AuthAsk
  <2> HIDE DEF r
  <2> QED BY <2>2, <2>3, ReadsOwn
<1>4. CASE \E s \in SessionIds : RevokeRead(q, s)
  <2>1. PICK s \in SessionIds : RevokeRead(q, s)
    BY <1>4
  <2> DEFINE d == [areq[q] EXCEPT !.at = "delete", !.s = s, !.copy = rec[s]]
             n == [areq[q] EXCEPT !.todo = @ \ {s}]
  <2>2. d.copy = rec[d.s] /\ n.at = "revoke" /\ areq' \in {[areq EXCEPT ![q] = d], [areq EXCEPT ![q] = n]}
    BY <2>1 DEF RevokeRead
  <2> HIDE DEF d, n
  <2> QED BY <2>2, ReadsOwn
<1>5. CASE enforceMaxSessions(q)
  <2>1. PICK todo : areq' = [areq EXCEPT ![q] = [areq[q] EXCEPT !.at = "revoke", !.todo = todo]]
    BY <1>5 DEF enforceMaxSessions
  <2>2. [areq[q] EXCEPT !.at = "revoke", !.todo = todo].at = "revoke"
    OBVIOUS
  <2> QED BY <2>1, <2>2, ReadsOwn
<1>6. CASE ValidateRefreshToken(q)
  <2> DEFINE s == refresh[areq[q].t]
             p == [areq[q] EXCEPT !.at = "replay"]
             t == [areq[q] EXCEPT !.at = "touch", !.s = s, !.copy = rec[s]]
  <2>1. /\ p.at = "replay" /\ t.copy = rec[t.s] /\ IdleAuth.at = "done"
        /\ areq' \in {[areq EXCEPT ![q] = p], [areq EXCEPT ![q] = t], [areq EXCEPT ![q] = IdleAuth]}
    BY <1>6 DEF ValidateRefreshToken, IdleAuth
  <2> HIDE DEF p, t
  <2> QED BY <2>1, ReadsOwn
<1>7. CASE RotateRead(q)
  <2> DEFINE p == [areq[q] EXCEPT !.at = "replay"]
             c == [areq[q] EXCEPT !.at = "commit", !.copy = rec[areq[q].s]]
  <2>1. p.at = "replay" /\ c.at = "commit" /\ areq' \in {[areq EXCEPT ![q] = p], [areq EXCEPT ![q] = c]}
    BY <1>7 DEF RotateRead
  <2> HIDE DEF p, c
  <2> QED BY <2>1, ReadsOwn
<1>8. CASE ReactivateAndLogin(q)
  <2>1. areq' = [areq EXCEPT ![q] = [areq[q] EXCEPT !.op = "reactivate", !.at = "create"]]
    BY <1>8 DEF ReactivateAndLogin
  <2>2. [areq[q] EXCEPT !.op = "reactivate", !.at = "create"].at = "create"
    OBVIOUS
  <2> QED BY <2>1, <2>2, ReadsOwn
<1> QED BY <1>1, <1>2, <1>3, <1>4, <1>5, <1>6, <1>7, <1>8

\* A record that is written back from a copy is the session's, or there already.
LEMMA WritesOwn ==
    ASSUME SInv, ChainInv, NEW copies, Writes(copies), DOMAIN copies \subseteq SessionIds,
           \A s \in DOMAIN copies : copies[s] \in Nat /\ Names(copies[s], s),
           UNCHANGED <<refresh, grace, born, fresh>>, flush' \subseteq flush,
           \A p \in AuthRequests, s \in SessionIds, t \in Nat \ {0} : Carries(areq'[p], s, t) => Names(t, s)
    PROVE  ChainInv'
<1>1. \A s \in SessionIds : rec'[s] = rec[s] \/ (s \in DOMAIN copies /\ rec'[s] = copies[s])
  BY DEF Writes
<1>2. ASSUME NEW t \in Nat \ {0}, NEW s \in SessionIds, Names(t, s)' PROVE Names(t, s)
  <2>1. CASE rec'[s] = t
    BY <1>1, <2>1 DEF Names
  <2>2. CASE rec'[s] # t
    BY <1>2, <2>2 DEF Names
  <2> QED BY <2>1, <2>2
<1>3. OneOwner'
  BY <1>2, OwnersStay DEF ChainInv
<1>4. stale \subseteq stale' /\ \A s \in SessionIds \ stale' : rec'[s] = rec[s]
  BY DEF Writes
<1>5. Chains'
  BY <1>4, ChainsStay DEF ChainInv
<1> QED BY <1>3, <1>5 DEF ChainInv, GraceTyped

LEMMA RefreshOwns == ASSUME SInv, ChainInv, NEW q \in AuthRequests, RefreshToken(q) PROVE ChainInv'
<1> DEFINE copies == [s \in {areq[q].s} |-> areq[q].copy]
           r == IF account = "active" THEN [areq[q] EXCEPT !.at = "rotate"] ELSE IdleAuth
<1>1. areq[q].at = "touch" /\ areq[q].s \in SessionIds /\ areq[q].copy \in Nat
  BY DEF RefreshToken, SInv, SessionsTyped, NamesAreBorn, RequestOK, AuthRequest
<1>2. Names(areq[q].copy, areq[q].s)
  BY <1>1 DEF Names, Carries
<1>3. r.at \in {"rotate", "done"} /\ areq' = [areq EXCEPT ![q] = r]
  BY DEF RefreshToken, Goto, AuthDone, IdleAuth, SInv, SessionsTyped, AuthRequest
<1> HIDE DEF r
<1>4. ASSUME NEW p \in AuthRequests, NEW s \in SessionIds, NEW t \in Nat \ {0}, Carries(areq'[p], s, t)
      PROVE  Names(t, s)
  BY <1>3, <1>4 DEF Names, Carries, SInv, SessionsTyped
<1>5. Writes(copies) /\ DOMAIN copies \subseteq SessionIds /\ \A s \in DOMAIN copies : copies[s] \in Nat /\ Names(copies[s], s)
  BY <1>1, <1>2 DEF RefreshToken
<1> HIDE DEF copies
<1> QED BY <1>4, <1>5, WritesOwn DEF RefreshToken

LEMMA TouchOwns == ASSUME SInv, ChainInv, RunTouchWorker PROVE ChainInv'
<1> DEFINE copies == [s \in {f.s : f \in flush} |-> (CHOOSE f \in flush : f.s = s).copy]
<1>1. flush \subseteq [s : born, copy : Nat] /\ born \subseteq SessionIds
  BY DEF SInv, SessionsTyped, NamesAreBorn
<1>2. ASSUME NEW s \in DOMAIN copies PROVE copies[s] \in Nat /\ Names(copies[s], s)
  <2> DEFINE f == CHOOSE f \in flush : f.s = s
  <2>1. f \in flush /\ f.s = s
    BY <1>2
  <2>2. f = [s |-> s, copy |-> f.copy] /\ f.copy \in Nat
    BY <1>1, <2>1
  <2> QED BY <1>2, <2>1, <2>2 DEF Names
<1>3. Writes(copies) /\ DOMAIN copies \subseteq SessionIds
  BY <1>1 DEF RunTouchWorker
<1>4. ASSUME NEW p \in AuthRequests, NEW s \in SessionIds, NEW t \in Nat \ {0}, Carries(areq'[p], s, t)
      PROVE  Names(t, s)
  BY <1>4 DEF RunTouchWorker, Names
<1> HIDE DEF copies
<1> QED BY <1>2, <1>3, <1>4, WritesOwn DEF RunTouchWorker

\* The touch worker takes its copies from the records.
LEMMA FlushOwns == ASSUME SInv, ChainInv, flushTouches PROVE ChainInv'
<1>1. ASSUME NEW t \in Nat \ {0}, NEW s \in SessionIds, Names(t, s)' PROVE Names(t, s)
  <2>1. [s |-> s, copy |-> t] \in flush' => rec[s] = t
    BY DEF flushTouches
  <2> QED BY <1>1, <2>1 DEF flushTouches, redisVars, Names
<1>2. OneOwner'
  BY <1>1, OwnersStay DEF ChainInv, flushTouches, redisVars
<1>3. Chains'
  BY ChainsStay DEF ChainInv, flushTouches, redisVars
<1> QED BY <1>2, <1>3 DEF ChainInv, GraceTyped, flushTouches, redisVars

\* A new session has a new token and no grace records.
LEMMA CreateOwns == ASSUME SInv, ChainInv, NEW q \in AuthRequests, NEW s \in SessionIds, Create(q, s) PROVE ChainInv'
<1> USE SessionsAssumption
<1>1. s \notin born
  <2>1. PICK n \in Nat : born = 1 .. n
    BY DEF SInv, SessionsTyped
  <2>2. Cardinality(born) = n
    BY <2>1, FS_Interval
  <2> QED BY <2>1, <2>2 DEF Create
<1>2. \A t \in Tokens : grace[t].s # s
  BY <1>1 DEF ChainInv, GraceTyped
<1>3. fresh \in Nat \ {0} /\ fresh \in Tokens /\ born \subseteq SessionIds
  BY DEF Create, SInv, SessionsTyped
<1>4. /\ rec' = [rec EXCEPT ![s] = fresh] /\ refresh' = [refresh EXCEPT ![fresh] = s] /\ fresh' = fresh + 1
      /\ born' = born \cup {s} /\ UNCHANGED <<grace, flush, stale>>
  BY DEF Create
<1>5. ASSUME NEW t \in Nat \ {0}, NEW o \in SessionIds, Names(t, o)' PROVE Names(t, o) \/ (t = fresh /\ o = s)
  <2>1. \A p \in AuthRequests : Carries(areq'[p], o, t) => Carries(areq[p], o, t)
    BY DEF Create, Goto, Carries, SInv, SessionsTyped, AuthRequest
  <2>2. rec'[o] = t => rec[o] = t \/ (t = fresh /\ o = s)
    BY <1>4 DEF SInv, SessionsTyped
  <2>3. t \in Tokens /\ refresh'[t] = o => refresh[t] = o \/ (t = fresh /\ o = s)
    BY <1>4 DEF SInv, SessionsTyped
  <2> QED BY <1>4, <1>5, <2>1, <2>2, <2>3 DEF Names
<1>6. OneOwner'
  BY <1>3, <1>4, <1>5, OwnerOfNext DEF ChainInv
<1>7. ASSUME NEW o \in SessionIds \ stale', Live(o)' PROVE ChainOK(o)'
  <2>1. CASE o = s
    BY <1>2, <1>3, <1>4, <2>1 DEF ChainOK, SInv, SessionsTyped
  <2>2. CASE o # s
    <3>1. rec'[o] = rec[o] /\ ChainOK(o) /\ rec[o] \in Nat \ {0}
      BY <1>4, <1>7, <2>2 DEF ChainInv, Chains, Live, SInv, SessionsTyped
    <3>2. rec[o] # fresh
      <4>1. Names(rec[o], o)
        BY DEF Names
      <4>2. rec[o] < fresh
        BY <3>1, <4>1, OneOwnerOnly DEF ChainInv
      <4> QED BY <1>3, <3>1, <4>2
    <3> QED BY <1>4, <3>1, <3>2 DEF ChainOK, SInv, SessionsTyped
  <2> QED BY <2>1, <2>2
<1>8. GraceTyped'
  BY <1>4 DEF ChainInv, GraceTyped
<1> QED BY <1>6, <1>7, <1>8 DEF ChainInv, Chains

\* A session is deleted with a token of its own.
LEMMA RevokeOwns == ASSUME SInv, ChainInv, NEW q \in AuthRequests, Revoke(q) PROVE ChainInv'
<1> USE SessionsAssumption
<1> DEFINE d == areq[q].s
           c == areq[q].copy
<1>1. areq[q].at = "delete" /\ d \in SessionIds /\ c \in Nat /\ Names(c, d)
  BY DEF Revoke, SInv, SessionsTyped, NamesAreBorn, RequestOK, AuthRequest, Names, Carries
<1>2. /\ rec' = [rec EXCEPT ![d] = 0] /\ refresh' = [refresh EXCEPT ![c] = 0] /\ stale \subseteq stale'
      /\ UNCHANGED <<grace, born, fresh, flush>>
  BY DEF Revoke
<1>3. ASSUME NEW t \in Nat \ {0}, NEW o \in SessionIds, Names(t, o)' PROVE Names(t, o)
  <2>1. \A p \in AuthRequests : Carries(areq'[p], o, t) => Carries(areq[p], o, t)
    BY DEF Revoke, Carries, SInv, SessionsTyped, AuthRequest
  <2>2. (rec'[o] = t => rec[o] = t) /\ (t \in Tokens /\ refresh'[t] = o => refresh[t] = o)
    BY <1>1, <1>2 DEF SInv, SessionsTyped
  <2> QED BY <1>2, <1>3, <2>1, <2>2 DEF Names
<1>4. OneOwner'
  BY <1>2, <1>3, OwnersStay DEF ChainInv
<1>5. ASSUME NEW o \in SessionIds \ stale', Live(o)' PROVE ChainOK(o)'
  <2>1. o # d /\ rec'[o] = rec[o] /\ ChainOK(o) /\ rec[o] \in Nat \ {0}
    BY <1>1, <1>2, <1>5 DEF ChainInv, Chains, Live, SInv, SessionsTyped
  <2>2. rec[o] # c
    <3>1. Names(rec[o], o)
      BY DEF Names
    <3> QED BY <1>1, <2>1, <3>1, OneOwnerOnly DEF ChainInv
  <2> QED BY <1>2, <2>1, <2>2 DEF ChainOK, SInv, SessionsTyped
<1>6. GraceTyped'
  BY <1>2 DEF ChainInv, GraceTyped
<1> QED BY <1>4, <1>5, <1>6 DEF ChainInv, Chains

\* A rotation puts the old token at the end of the chain, before the new one.
LEMMA RotateOwns ==
    ASSUME SInv, ChainInv, NEW q \in AuthRequests, RotateRefreshToken(q), Unwatched(areq[q])
    PROVE  ChainInv'
<1> USE SessionsAssumption
<1> DEFINE o == areq[q].s
           t == areq[q].t
<1>1. o \in born /\ o \in SessionIds /\ t \in Tokens /\ refresh[t] = o
  <2>1. RequestOK(areq[q], born) /\ areq[q].at = "commit"
    BY DEF RotateRefreshToken, SInv, NamesAreBorn
  <2> QED BY <2>1 DEF RequestOK, SInv, SessionsTyped, Unwatched
<1>2. /\ fresh \in Tokens /\ rec' = [rec EXCEPT ![o] = fresh] /\ refresh' = [refresh EXCEPT ![t] = 0, ![fresh] = o]
      /\ grace' = [grace EXCEPT ![t] = [s |-> o, new |-> fresh]] /\ fresh' = fresh + 1
      /\ AuthDone(q) /\ UNCHANGED <<born, flush, stale>>
  BY DEF RotateRefreshToken
<1>3. Names(t, o) /\ t \in Nat \ {0} /\ fresh \in Nat \ {0} /\ t < fresh
  <2>1. Names(t, o) /\ t \in Nat \ {0}
    BY <1>1 DEF Names
  <2> QED BY <1>1, <2>1 DEF ChainInv, OneOwner, SInv, SessionsTyped
<1>4. ASSUME NEW x \in Nat \ {0}, NEW s \in SessionIds, Names(x, s)' PROVE Names(x, s) \/ (x = fresh /\ s = o)
  <2>1. \A p \in AuthRequests : Carries(areq'[p], s, x) => Carries(areq[p], s, x)
    BY <1>2 DEF AuthDone, IdleAuth, Carries, SInv, SessionsTyped, AuthRequest
  <2>2. rec'[s] = x => rec[s] = x \/ (x = fresh /\ s = o)
    BY <1>2 DEF SInv, SessionsTyped
  <2>3. x \in Tokens /\ refresh'[x] = s => refresh[x] = s \/ (x = fresh /\ s = o)
    BY <1>1, <1>2 DEF SInv, SessionsTyped
  <2>4. ASSUME NEW y \in Tokens, grace'[y].s = s, x = y \/ x = grace'[y].new
        PROVE  Names(x, s) \/ (x = fresh /\ s = o)
    <3>1. CASE y = t
      BY <1>1, <1>2, <1>3, <2>4, <3>1 DEF ChainInv, GraceTyped
    <3>2. CASE y # t
      BY <1>1, <1>2, <2>4, <3>2 DEF ChainInv, GraceTyped, Names
    <3> QED BY <3>1, <3>2
  <2> QED BY <1>2, <1>4, <2>1, <2>2, <2>3, <2>4 DEF Names
<1>5. OneOwner'
  BY <1>1, <1>2, <1>3, <1>4, OwnerOfNext DEF ChainInv
<1>6. GraceTyped'
  BY <1>1, <1>2, <1>3 DEF ChainInv, GraceTyped
<1>7. grace' \in [Tokens -> [s : Nat, new : Nat]] /\ grace \in [Tokens -> [s : Nat, new : Nat]]
  <2>1. born \cup {0} \subseteq Nat /\ born' = born
    BY <1>2 DEF SInv, SessionsTyped
  <2> QED BY <1>6, <2>1 DEF ChainInv, GraceTyped
<1>8. ASSUME NEW s \in SessionIds \ stale', Live(s)' PROVE ChainOK(s)'
  <2>1. CASE s = o
    <3>1. rec[o] = t /\ o \notin stale /\ Live(o) /\ ChainOK(o)
      BY <1>1, <1>2, <1>3, <1>8, <2>1 DEF SInv, KeyMatchesRecord, ChainInv, Chains, Live
    <3>2. rec'[o] = fresh /\ refresh'[fresh] = o
      BY <1>1, <1>2, <1>3 DEF SInv, SessionsTyped
    <3>3. grace[t].s # o /\ grace'[t] = [s |-> o, new |-> fresh] /\ \A x \in Tokens \ {t} : grace'[x] = grace[x]
      BY <1>1, <1>2, <1>3, <1>7, <3>1 DEF ChainOK
    <3>4. ASSUME NEW x \in Tokens, grace'[x].s = o
          PROVE  /\ x < fresh /\ x < grace'[x].new /\ grace'[x].new \in Tokens
                 /\ grace'[x].new = fresh \/ grace'[grace'[x].new].s = o
                 /\ \A y \in Tokens : grace'[y].s = o /\ x < y => grace'[x].new <= y
      <4>1. CASE x = t
        <5>1. ASSUME NEW y \in Tokens, grace'[y].s = o PROVE ~(t < y)
          <6>1. y \in Nat /\ t \in Nat /\ (y = t \/ y < t)
            BY <1>3, <3>1, <3>3, <5>1 DEF ChainOK
          <6> QED BY <6>1
        <5> QED BY <1>2, <1>3, <3>3, <4>1, <5>1
      <4>2. CASE x # t
        <5>1. /\ grace'[x] = grace[x] /\ x < t /\ x < grace[x].new /\ grace[x].new \in Tokens
              /\ grace[x].new = t \/ grace[grace[x].new].s = o
              /\ \A y \in Tokens : grace[y].s = o /\ x < y => grace[x].new <= y
          BY <3>1, <3>3, <3>4, <4>2 DEF ChainOK
        <5>2. grace[x].new <= t
          <6>1. CASE grace[x].new = t
            BY <1>3, <6>1
          <6>2. CASE grace[grace[x].new].s = o
            <7>1. grace[x].new < t /\ grace[x].new \in Nat
              BY <3>1, <5>1, <6>2 DEF ChainOK
            <7> QED BY <1>3, <7>1
          <6> QED BY <5>1, <6>1, <6>2
        <5>3. grace'[grace[x].new].s = o
          BY <3>3, <5>1
        <5>4. \A y \in Tokens : grace'[y].s = o /\ x < y => grace[x].new <= y
          BY <3>3, <5>1, <5>2
        <5>5. x < fresh
          <6>1. x \in Nat
            OBVIOUS
          <6> QED BY <1>3, <5>1, <6>1
        <5> QED BY <5>1, <5>3, <5>4, <5>5
      <4> QED BY <4>1, <4>2
    <3> QED BY <1>2, <2>1, <3>2, <3>4 DEF ChainOK
  <2>2. CASE s # o
    <3>1. rec'[s] = rec[s] /\ ChainOK(s) /\ rec[s] \in Nat \ {0}
      BY <1>1, <1>2, <1>8, <2>2 DEF ChainInv, Chains, Live, SInv, SessionsTyped
    <3>2. rec[s] # fresh /\ rec[s] # t
      <4>1. Names(rec[s], s)
        BY DEF Names
      <4>2. rec[s] < fresh /\ rec[s] # t
        BY <1>1, <1>3, <2>2, <3>1, <4>1, OneOwnerOnly DEF ChainInv
      <4> QED BY <1>3, <3>1, <4>2
    <3>3. grace[t].s # s
      <4>1. grace[t].s = s => Names(t, s)
        BY <1>1 DEF Names
      <4> QED BY <1>1, <1>3, <2>2, <4>1, OneOwnerOnly DEF ChainInv
    <3>4. \A x \in Tokens : grace'[x].s = s => x # t /\ grace'[x] = grace[x]
      BY <1>1, <1>2, <1>7, <2>2
    <3>5. \A x \in Tokens : grace[x].s = s => grace'[x] = grace[x]
      BY <1>2, <1>7, <3>3
    <3>6. refresh'[rec[s]] = s
      BY <1>1, <1>2, <3>1, <3>2 DEF ChainOK, SInv, SessionsTyped
    <3> QED BY <3>1, <3>4, <3>5, <3>6 DEF ChainOK
  <2> QED BY <2>1, <2>2
<1> QED BY <1>5, <1>6, <1>8 DEF ChainInv, Chains

\* The keys of a session expire together, a grace record before its successors.
LEMMA ExpiryOwns ==
    ASSUME SInv, ChainInv,
           (\E s \in SessionIds : SessionExpire(s)) \/ (\E t \in Tokens : GraceExpire(t))
    PROVE  ChainInv'
<1> USE SessionsAssumption
<1>1. ASSUME NEW d \in SessionIds, SessionExpire(d) PROVE ChainInv'
  <2>1. /\ rec' = [rec EXCEPT ![d] = 0] /\ refresh' = [t \in Tokens |-> IF refresh[t] = d THEN 0 ELSE refresh[t]]
        /\ UNCHANGED <<grace, born, fresh, flush, areq, stale>>
    BY <1>1 DEF SessionExpire
  <2>2. ASSUME NEW t \in Nat \ {0}, NEW s \in SessionIds, Names(t, s)' PROVE Names(t, s)
    <3>1. (rec'[s] = t => rec[s] = t) /\ (t \in Tokens /\ refresh'[t] = s => refresh[t] = s)
      BY <2>1 DEF SInv, SessionsTyped
    <3> QED BY <2>1, <2>2, <3>1 DEF Names
  <2>3. OneOwner'
    BY <2>1, <2>2, OwnersStay DEF ChainInv
  <2>4. ASSUME NEW s \in SessionIds \ stale', Live(s)' PROVE ChainOK(s)'
    <3>1. s # d /\ rec'[s] = rec[s] /\ ChainOK(s)
      BY <2>1, <2>4 DEF ChainInv, Chains, Live, SInv, SessionsTyped
    <3> QED BY <2>1, <3>1 DEF ChainOK, SInv, SessionsTyped
  <2> QED BY <2>1, <2>3, <2>4 DEF ChainInv, Chains, GraceTyped
<1>2. ASSUME NEW t \in Tokens, GraceExpire(t) PROVE ChainInv'
  <2>1. /\ grace' = [grace EXCEPT ![t] = NoGrace] /\ \A x \in Tokens : grace[x].s = grace[t].s => x >= t
        /\ UNCHANGED <<rec, refresh, born, fresh, flush, areq, stale>>
    BY <1>2 DEF GraceExpire
  <2>2. \A x \in Tokens, s \in SessionIds : grace'[x].s = s => x # t /\ grace'[x] = grace[x]
    BY <2>1 DEF ChainInv, GraceTyped, NoGrace
  <2>3. ASSUME NEW x \in Nat \ {0}, NEW s \in SessionIds, Names(x, s)' PROVE Names(x, s)
    BY <2>1, <2>2, <2>3 DEF Names
  <2>4. OneOwner'
    BY <2>1, <2>3, OwnersStay DEF ChainInv
  <2>5. ASSUME NEW s \in SessionIds \ stale', Live(s)' PROVE ChainOK(s)'
    <3>1. ChainOK(s)
      BY <2>1, <2>5 DEF ChainInv, Chains, Live
    <3>2. ASSUME NEW x \in Tokens, grace'[x].s = s, grace[x].new # rec[s] PROVE grace'[grace[x].new].s = s
      <4>1. x # t /\ grace[x].s = s /\ x < grace[x].new /\ grace[x].new \in Tokens /\ grace[grace[x].new].s = s
        BY <2>2, <3>1, <3>2 DEF ChainOK
      <4>2. grace[x].new # t
        BY <2>1, <4>1
      <4> QED BY <2>1, <4>1, <4>2 DEF ChainInv, GraceTyped
    <3> QED BY <2>1, <2>2, <3>1, <3>2 DEF ChainOK
  <2>6. GraceTyped'
    BY <2>1 DEF ChainInv, GraceTyped, NoGrace
  <2> QED BY <2>4, <2>5, <2>6 DEF ChainInv, Chains
<1> QED BY <1>1, <1>2

\* Every step keeps the chains.
LEMMA ChainInvNext == SInv /\ ChainInv /\ [SessionsNext]_authVars => ChainInv'
<1> SUFFICES ASSUME SInv, ChainInv, [SessionsNext]_authVars PROVE ChainInv'
  OBVIOUS
<1>1. ASSUME NEW q \in AuthRequests,
             \/ \E op, s, t : AuthAsk(q, op, s, t)
             \/ \E s \in SessionIds : RevokeRead(q, s)
             \/ RevokedAll(q) \/ Deactivate(q) \/ enforceMaxSessions(q)
             \/ Login(q) \/ ReactivateAndLogin(q) \/ ReactivateRollback(q)
             \/ ValidateRefreshToken(q) \/ RotateRead(q) \/ graceReplay(q) \/ AuthFault(q)
      PROVE  ChainInv'
  <2>1. UNCHANGED <<rec, refresh, grace, born, fresh, stale, flush>>
    BY <1>1 DEF AuthAsk, RevokeRead, RevokedAll, Deactivate, enforceMaxSessions, Login, ReactivateAndLogin,
                ReactivateRollback, ValidateRefreshToken, RotateRead, graceReplay, AuthFault, Reads, redisVars
  <2>2. CASE Login(q) \/ RevokedAll(q)
    BY <2>1, <2>2, RequestsOwn DEF Login, RevokedAll, AuthSteps
  <2>3. CASE Deactivate(q) \/ ReactivateRollback(q) \/ graceReplay(q) \/ AuthFault(q)
    BY <2>1, <2>3, RequestsOwn DEF Deactivate, ReactivateRollback, graceReplay, AuthFault
  <2> QED BY <1>1, <2>1, <2>2, <2>3, RequestsOwn
<1>2. ASSUME NEW q \in AuthRequests, RotateRefreshToken(q) PROVE ChainInv'
  <2>1. CASE ~Unwatched(areq[q])
    <3>1. UNCHANGED <<rec, refresh, grace, born, fresh, stale, flush>> /\ Goto(q, "replay")
      BY <1>2, <2>1 DEF RotateRefreshToken
    <3> QED BY <3>1, RequestsOwn DEF AuthSteps
  <2> QED BY <1>2, <2>1, RotateOwns
<1>3. CASE /\ UNCHANGED <<rec, refresh, grace, born, fresh, stale, flush, areq>>
  <2>1. \A p \in AuthRequests, s \in SessionIds, t \in Nat \ {0} : Carries(areq'[p], s, t) => Names(t, s)
    BY <1>3 DEF Names
  <2> QED BY <1>3, <2>1, CarriesOwn
<1>4. CASE ListUserSessions \/ (\E s \in SessionIds : ValidateToken(s)) \/ UNCHANGED authVars
  BY <1>3, <1>4 DEF ListUserSessions, ValidateToken, authVars, redisVars
<1>5. CASE flushTouches \/ RunTouchWorker
  BY <1>5, FlushOwns, TouchOwns
<1>6. CASE \E q \in AuthRequests : (\E s \in SessionIds : Create(q, s)) \/ Revoke(q) \/ RefreshToken(q)
  BY <1>6, CreateOwns, RevokeOwns, RefreshOwns
<1>7. CASE \E q \in AuthRequests :
             \/ AuthAsk(q, "login", 0, 0) \/ AuthAsk(q, "logout_all", 0, 0) \/ AuthAsk(q, "deactivate", 0, 0)
             \/ \E t \in 1 .. (fresh - 1) : AuthAsk(q, "refresh", 0, t)
             \/ \E s \in born : AuthAsk(q, "logout", s, 0) \/ AuthAsk(q, "logout_others", s, 0)
  BY <1>1, <1>7
<1> QED BY <1>1, <1>2, <1>4, <1>5, <1>6, <1>7, ExpiryOwns DEF SessionsNext

\* A set of numbers has a least one: what an induction needs, and all the provers
\* can use of it.
LEMMA Least ==
    ASSUME NEW S \in SUBSET Nat, S # {}
    PROVE  \E n \in S : \A m \in S : n <= m
<1> DEFINE R == OpToRel(<, Nat)
<1>1. IsWellFoundedOn(R, Nat)
  BY NatLessThanWellFounded
<1>2. PICK n \in S : \A m \in S : ~(<<m, n>> \in R)
  BY <1>1, WFMin
<1>3. \A m \in S : ~(m < n)
  BY <1>2 DEF OpToRel
<1> QED BY <1>3

\* The recursive function of ReplayRotation is well defined.
LEMMA FollowStep ==
    ASSUME NEW s
    PROVE  Follow(s) = [n \in 0 .. GraceHops |->
                          [x \in Tokens |-> IF refresh[x] = s THEN x
                                            ELSE IF n > 0 /\ grace[x].s = s THEN Follow(s)[n - 1][grace[x].new]
                                            ELSE 0]]
<1> DEFINE Body(g, n) == [x \in Tokens |-> IF refresh[x] = s THEN x
                                           ELSE IF n > 0 /\ grace[x].s = s THEN g[n - 1][grace[x].new]
                                           ELSE 0]
           Upto(k) == \E g : g = [n \in 0 .. k |-> Body(g, n)]
           Missing == {k \in 0 .. GraceHops : ~Upto(k)}
<1> USE SessionsAssumption
<1>1. Upto(0)
  <2> DEFINE g == [n \in 0 .. 0 |-> [x \in Tokens |-> IF refresh[x] = s THEN x ELSE 0]]
  <2>1. \A n \in 0 .. 0 : Body(g, n) = g[n]
    OBVIOUS
  <2>2. g = [n \in 0 .. 0 |-> Body(g, n)]
    BY <2>1
  <2> QED BY <2>2
<1>2. ASSUME NEW k \in Nat, Upto(k) PROVE Upto(k + 1)
  <2>1. PICK g : g = [n \in 0 .. k |-> Body(g, n)]
    BY <1>2
  <2> DEFINE h == [n \in 0 .. k + 1 |-> IF n <= k THEN g[n] ELSE Body(g, n)]
  <2>2. ASSUME NEW n \in 0 .. k + 1 PROVE h[n] = Body(h, n)
    <3>1. h[n] = Body(g, n)
      <4> HIDE DEF Body
      <4>1. n <= k => g[n] = Body(g, n)
        BY <2>1
      <4> QED BY <4>1
    <3>2. n > 0 => h[n - 1] = g[n - 1]
      OBVIOUS
    <3> QED BY <3>1, <3>2
  <2>3. h = [n \in 0 .. k + 1 |-> Body(h, n)]
    <3>1. h = [n \in 0 .. k + 1 |-> h[n]]
      OBVIOUS
    <3> HIDE DEF h
    <3> QED BY <2>2, <3>1
  <2> QED BY <2>3
<1> HIDE DEF Upto
<1>3. Missing = {}
  <2> SUFFICES ASSUME Missing # {} PROVE FALSE
    OBVIOUS
  <2>0. Missing \in SUBSET Nat
    OBVIOUS
  <2>1. PICK k \in Missing : \A m \in Missing : k <= m
    <3> HIDE DEF Missing
    <3> QED BY <2>0, Least
  <2>2. k # 0 /\ k \in Nat /\ k - 1 \in Nat
    BY <1>1
  <2>3. Upto(k - 1)
    BY <2>1, <2>2
  <2>4. Upto((k - 1) + 1)
    BY <1>2, <2>2, <2>3
  <2> QED BY <2>2, <2>4
<1>4. Upto(GraceHops)
  BY <1>3
<1> QED BY <1>4 DEF Upto, Follow

\* From any token of the chain the live one is found, when the records left are no
\* more than those that may be followed.
LEMMA ChainIsFollowed ==
    ASSUME SInv, ChainInv, NEW s \in SessionIds \ stale, Live(s)
    PROVE  \A n \in 0 .. GraceHops, x \in Tokens :
             (x = rec[s] \/ grace[x].s = s) /\ Cardinality({y \in Tokens : y >= x /\ grace[y].s = s}) <= n
               => Follow(s)[n][x] = rec[s]
<1> USE SessionsAssumption
<1> DEFINE Left(x) == {y \in Tokens : y >= x /\ grace[y].s = s}
           Found(n) == \A x \in Tokens :
                         (x = rec[s] \/ grace[x].s = s) /\ Cardinality(Left(x)) <= n => Follow(s)[n][x] = rec[s]
           Wrong == {n \in 0 .. GraceHops : ~Found(n)}
<1>1. /\ rec[s] \in Tokens /\ refresh[rec[s]] = s /\ s \in born
      /\ \A x \in Tokens : grace[x].s = s =>
           /\ x < rec[s] /\ x < grace[x].new /\ grace[x].new \in Tokens /\ refresh[x] # s
           /\ grace[x].new = rec[s] \/ grace[grace[x].new].s = s
           /\ \A y \in Tokens : grace[y].s = s /\ x < y => grace[x].new <= y
  BY DEF ChainInv, Chains, ChainOK, SInv, KeyMatchesRecord, NamesAreBorn
<1>2. \A x \in Tokens : IsFiniteSet(Left(x)) /\ Cardinality(Left(x)) \in Nat
  <2> SUFFICES ASSUME NEW x \in Tokens PROVE IsFiniteSet(Left(x))
    BY FS_CardinalityType
  <2>1. rec[s] \in Nat
    BY <1>1
  <2>2. ASSUME NEW y \in Left(x) PROVE y \in 0 .. rec[s]
    <3>1. y \in Nat /\ y < rec[s]
      BY <1>1, <2>2
    <3> QED BY <2>1, <3>1
  <2>3. IsFiniteSet(0 .. rec[s])
    <3>1. \A m \in Nat : IsFiniteSet(0 .. m)
      BY FS_Interval
    <3> QED BY <2>1, <3>1
  <2> HIDE DEF Left
  <2>4. Left(x) \subseteq 0 .. rec[s]
    BY <2>2
  <2> QED BY <2>3, <2>4, FS_Subset
<1>3. ASSUME NEW x \in Tokens, grace[x].s = s
      PROVE  Cardinality(Left(x)) = Cardinality(Left(grace[x].new)) + 1
  <2>1. /\ x \in Nat /\ grace[x].new \in Tokens /\ grace[x].new \in Nat /\ x < grace[x].new
        /\ \A y \in Tokens : grace[y].s = s /\ x < y => grace[x].new <= y
    BY <1>1, <1>3
  <2>2. Left(grace[x].new) = Left(x) \ {x} /\ x \in Left(x)
    <3>1. ASSUME NEW y \in Tokens, grace[y].s = s PROVE y >= grace[x].new <=> y >= x /\ y # x
      <4>1. y \in Nat
        OBVIOUS
      <4> QED BY <2>1, <3>1, <4>1
    <3>2. ~(x >= grace[x].new) /\ x >= x
      BY <2>1
    <3> QED BY <1>3, <3>1, <3>2, Zenon
  <2> HIDE DEF Left
  <2>3. Cardinality(Left(grace[x].new)) = Cardinality(Left(x)) - 1
    BY <1>2, <2>2, FS_RemoveElement
  <2> QED BY <1>2, <2>1, <2>3
<1>4. ASSUME NEW n \in 0 .. GraceHops, n > 0 => Found(n - 1) PROVE Found(n)
  <2> SUFFICES ASSUME NEW x \in Tokens, x = rec[s] \/ grace[x].s = s, Cardinality(Left(x)) <= n
               PROVE  Follow(s)[n][x] = rec[s]
    OBVIOUS
  <2>1. Follow(s)[n][x] = IF refresh[x] = s THEN x
                          ELSE IF n > 0 /\ grace[x].s = s THEN Follow(s)[n - 1][grace[x].new]
                          ELSE 0
    BY FollowStep
  <2>2. CASE x = rec[s]
    BY <1>1, <2>1, <2>2
  <2>3. CASE x # rec[s]
    <3> DEFINE y == grace[x].new
    <3>1. grace[x].s = s /\ refresh[x] # s /\ y \in Tokens /\ (y = rec[s] \/ grace[y].s = s)
      BY <1>1, <2>3
    <3>2. Cardinality(Left(y)) <= n - 1 /\ n > 0
      <4> HIDE DEF Left
      <4>1. Cardinality(Left(x)) = Cardinality(Left(y)) + 1 /\ Cardinality(Left(y)) \in Nat /\ Cardinality(Left(x)) \in Nat
        BY <1>2, <1>3, <3>1
      <4> QED BY <4>1
    <3>3. Follow(s)[n - 1][y] = rec[s]
      BY <1>4, <3>1, <3>2
    <3> QED BY <2>1, <3>1, <3>2, <3>3
  <2> QED BY <2>2, <2>3
<1> HIDE DEF Found
<1>5. Wrong = {}
  <2> SUFFICES ASSUME Wrong # {} PROVE FALSE
    OBVIOUS
  <2>0. Wrong \in SUBSET Nat
    OBVIOUS
  <2>1. PICK n \in Wrong : \A m \in Wrong : n <= m
    <3> HIDE DEF Wrong
    <3> QED BY <2>0, Least
  <2>2. n > 0 => n - 1 \in 0 .. GraceHops /\ n - 1 \notin Wrong
    BY <2>1
  <2> QED BY <1>4, <2>2
<1>6. \A n \in 0 .. GraceHops : Found(n)
  BY <1>5
<1> QED BY <1>6 DEF Found

\* So the first record of the chain leads there.
LEMMA ChainInvFollows == SInv /\ ChainInv => StragglerKeepsSession
<1> SUFFICES ASSUME SInv, ChainInv, NEW t \in Tokens, NEW s, s = grace[t].s, s # 0, s \notin stale, rec[s] # 0,
                    Cardinality({x \in Tokens : x >= t /\ grace[x].s = s}) <= GraceHops
             PROVE  ReplayRotation(t) = rec[s]
  BY DEF StragglerKeepsSession
<1> USE SessionsAssumption
<1> DEFINE Left(x) == {y \in Tokens : y >= x /\ grace[y].s = s}
           n == grace[t].new
<1>1. s \in SessionIds /\ Live(s) /\ ChainOK(s)
  BY DEF ChainInv, GraceTyped, Chains, Live, SInv, SessionsTyped
<1>2. /\ t \in Nat /\ n \in Tokens /\ n \in Nat /\ t < n /\ rec[s] \in Nat /\ (n = rec[s] \/ grace[n].s = s)
      /\ \A y \in Tokens : grace[y].s = s => y < rec[s] /\ (t < y => n <= y)
  <2>1. rec[s] \in Nat /\ n \in Tokens /\ t < n /\ (n = rec[s] \/ grace[n].s = s)
    BY <1>1 DEF ChainOK
  <2>2. \A y \in Tokens : grace[y].s = s => y < rec[s] /\ (t < y => n <= y)
    BY <1>1 DEF ChainOK
  <2> QED BY <2>1, <2>2
<1>3. ASSUME NEW y \in Tokens, grace[y].s = s PROVE y \in 0 .. rec[s] /\ (y >= n <=> y >= t /\ y # t)
  <2>1. y \in Nat
    OBVIOUS
  <2> QED BY <1>2, <1>3, <2>1
<1>4. /\ Left(n) = Left(t) \ {t} /\ t \in Left(t) /\ IsFiniteSet(Left(t))
      /\ Cardinality(Left(t)) <= GraceHops
  <2>1. Left(n) = Left(t) \ {t} /\ t \in Left(t) /\ Left(t) \subseteq 0 .. rec[s]
    BY <1>2, <1>3
  <2>2. IsFiniteSet(Left(t))
    <3> HIDE DEF Left
    <3>1. \A m \in Nat : IsFiniteSet(0 .. m)
      BY FS_Interval
    <3>2. IsFiniteSet(0 .. rec[s])
      BY <1>2, <3>1
    <3> QED BY <2>1, <3>2, FS_Subset
  <2> QED BY <2>1, <2>2
<1> HIDE DEF Left
<1>5. Cardinality(Left(n)) = Cardinality(Left(t)) - 1 /\ Cardinality(Left(t)) \in Nat /\ Cardinality(Left(n)) \in Nat
  <2>1. IsFiniteSet(Left(n))
    BY <1>4, FS_Subset
  <2> QED BY <1>4, <2>1, FS_RemoveElement, FS_CardinalityType
<1>6. GraceHops - 1 \in 0 .. GraceHops /\ Cardinality(Left(n)) <= GraceHops - 1
  BY <1>4, <1>5
<1>7. Follow(s)[GraceHops - 1][n] = rec[s]
  <2>1. Cardinality({y \in Tokens : y >= n /\ grace[y].s = s}) <= GraceHops - 1
    BY <1>6 DEF Left
  <2>2. s \in SessionIds \ stale
    BY <1>1
  <2> HIDE DEF n
  <2> QED BY <1>1, <1>2, <1>6, <2>1, <2>2, ChainIsFollowed, ZenonT(60)
<1> QED BY <1>1, <1>7 DEF ReplayRotation, Successor

\* Whoever comes with a token that was rotated away gets the live one, while the
\* grace record of that token lasts and at most GraceHops rotations followed it
\* (ReplayRotation).
THEOREM StragglersConverge == SessionsSpec => []StragglerKeepsSession
<1>1. SessionsInit => SInv /\ ChainInv
  BY SInvInit, ChainInvInit
<1>2. (SInv /\ ChainInv) /\ [SessionsNext]_authVars => (SInv /\ ChainInv)'
  BY SInvNext, ChainInvNext
<1> QED BY <1>1, <1>2, ChainInvFollows, PTL DEF SessionsSpec

-----------------------------------------------------------------------------
(* The hub.  What a socket that follows a room is owed was received, waits *)
(* in its buffer, is about to be replayed to it, or is excepted; a socket  *)
(* follows a room from the moment its replay was read.                     *)

Messages == [room : Rooms, n : Nat]

UpStages == {"restore", "replay", "open"}
ConnStages == {"none", "accepted", "leaving", "closed"} \cup UpStages

ConnOK(x) ==
    /\ DOMAIN x = {"at", "s", "todo", "room", "events"}
    /\ x.at \in ConnStages
    /\ x.room # "none" => x.at \in {"restore", "replay"}
    /\ x.at = "replay" => x.room \in Rooms
    /\ x.events # {} => x.at = "replay"
    /\ x.events \in SUBSET Nat
    /\ x.room \in Rooms \cup {"none"} /\ x.todo \subseteq Rooms

Booked == [Rooms -> SUBSET (Nat \ {0})]

HubTyped ==
    /\ DOMAIN conn = Conns /\ \A c \in Conns : ConnOK(conn[c])
    /\ send \in [Conns -> Seq(Messages)] /\ log \in [Rooms -> Nat]
    /\ marked \in Booked /\ cast \in Booked /\ owed \in Booked
    /\ missed \in [Rooms -> SUBSET Nat] /\ cut \in [Rooms -> SUBSET Nat]
    /\ subs \subseteq Rooms /\ clients \subseteq Conns

\* The hub knows sockets between Register and Unregister.
HubKnows ==
    /\ \A c \in clients : conn[c].at \in UpStages \cup {"leaving", "closed"}
    /\ \A c \in Conns, r \in Rooms : <<r, c>> \in rooms => c \in clients

Follows(c, r) ==
    /\ <<r, c>> \in rooms /\ conn[c].at \in UpStages
    /\ ~(conn[c].at = "restore" /\ conn[c].room = r)

Held(c, r) == {n \in Nat : [room |-> r, n |-> n] \in got \cup Range(send[c])}
Coming(c, r) == IF conn[c].room = r THEN conn[c].events ELSE {}
Excepted(r) == missed[r] \cup cut[r]

Safe(c, r) == Follows(c, r) => owed[r] \subseteq Held(c, r) \cup Coming(c, r) \cup Excepted(r)

HubInv == HubTyped /\ HubKnows /\ \A c \in Conns, r \in Rooms : Safe(c, r)

\* The first state satisfies the invariant.
LEMMA InitHubInv == SocketsInit => HubInv
<1> SUFFICES ASSUME SocketsInit PROVE HubInv
  OBVIOUS
<1> USE DEF SocketsInit, NoConn
<1>1. HubTyped
  BY DEF HubTyped, ConnOK, ConnStages, UpStages, Booked
<1>2. HubKnows
  BY DEF HubKnows
<1>3. \A c \in Conns, r \in Rooms : Safe(c, r)
  BY DEF Safe, Follows
<1> QED BY <1>1, <1>2, <1>3 DEF HubInv

\* A settled device has everything.
LEMMA HubInvFills == HubInv => ReplayFillsTheGap
<1> SUFFICES ASSUME HubInv, NEW c \in Conns, NEW r \in Rooms, Settled(c, r), NEW n \in owed[r]
             PROVE  n \in Received(r) \cup missed[r] \cup cut[r]
  BY DEF ReplayFillsTheGap
<1>1. ConnOK(conn[c]) /\ conn[c].at = "open"
  BY DEF Settled, HubInv, HubTyped
<1>2. Follows(c, r) /\ Coming(c, r) = {}
  BY <1>1 DEF Follows, Coming, Settled, UpStages, ConnOK
<1>3. n \in Held(c, r) \cup Excepted(r)
  BY <1>2 DEF HubInv, Safe
<1>4. Range(send[c]) = {}
  BY DEF Settled, Range
<1>5. n \in Held(c, r) => n \in Received(r)
  BY <1>4 DEF Held, Received
<1> QED BY <1>3, <1>5 DEF Excepted

\* Buffers are sequences of messages.
LEMMA AppendBuffer ==
    ASSUME NEW s \in Seq(Messages), NEW m \in Messages
    PROVE  Append(s, m) \in Seq(Messages) /\ Range(Append(s, m)) = Range(s) \cup {m}
<1>1. /\ Append(s, m) \in Seq(Messages) /\ Len(Append(s, m)) = Len(s) + 1
      /\ \A i \in 1 .. Len(s) : Append(s, m)[i] = s[i]
      /\ Append(s, m)[Len(s) + 1] = m
  OBVIOUS
<1>2. DOMAIN s = 1 .. Len(s) /\ DOMAIN Append(s, m) = 1 .. (Len(s) + 1) /\ Len(s) \in Nat
  BY <1>1
<1> HIDE DEF Messages
<1> QED BY <1>1, <1>2 DEF Range

LEMMA TailBuffer ==
    ASSUME NEW s \in Seq(Messages), s # <<>>
    PROVE  /\ Head(s) \in Messages /\ Tail(s) \in Seq(Messages)
           /\ Range(s) = Range(Tail(s)) \cup {Head(s)}
<1>1. /\ Head(s) = s[1] /\ Tail(s) \in Seq(Messages) /\ Len(Tail(s)) = Len(s) - 1
      /\ \A i \in 1 .. Len(s) - 1 : Tail(s)[i] = s[i + 1]
      /\ Len(s) \in Nat \ {0} /\ Head(s) \in Messages
  OBVIOUS
<1>2. DOMAIN s = 1 .. Len(s) /\ DOMAIN Tail(s) = 1 .. (Len(s) - 1)
  BY <1>1
<1>3. \A i \in 1 .. Len(s) : i = 1 \/ (i - 1 \in 1 .. Len(s) - 1 /\ s[i] = Tail(s)[i - 1])
  BY <1>1
<1>4. Range(s) \subseteq Range(Tail(s)) \cup {Head(s)}
  <2> SUFFICES ASSUME NEW i \in 1 .. Len(s) PROVE s[i] \in Range(Tail(s)) \cup {Head(s)}
    BY <1>2 DEF Range
  <2>1. CASE i = 1
    BY <1>1, <2>1
  <2>2. CASE i # 1
    <3>1. i - 1 \in DOMAIN Tail(s) /\ s[i] = Tail(s)[i - 1]
      BY <1>2, <1>3, <2>2
    <3> QED BY <3>1 DEF Range
  <2> QED BY <2>1, <2>2
<1>5. Range(Tail(s)) \cup {Head(s)} \subseteq Range(s)
  BY <1>1, <1>2 DEF Range
<1> QED BY <1>1, <1>4, <1>5

\* What a step takes from no socket, and promises no more of, stays safe.
LEMMA CalmIsSafe ==
    ASSUME HubInv, NEW c \in Conns, NEW r \in Rooms,
           got \cup Range(send[c]) \subseteq got' \cup Range(send'[c]), owed'[r] \subseteq owed[r],
           Excepted(r) \subseteq Excepted(r)',
           Follows(c, r)' => Follows(c, r) /\ Coming(c, r) \subseteq Coming(c, r)'
    PROVE  Safe(c, r)'
<1>1. Held(c, r) \subseteq Held(c, r)'
  BY DEF Held
<1>2. Safe(c, r)
  BY DEF HubInv
<1> QED BY <1>1, <1>2 DEF Safe

\* Socket stages change one at a time.
LEMMA RowChanges ==
    ASSUME HubTyped, NEW c \in Conns, NEW x, ConnOK(x), conn' = [conn EXCEPT ![c] = x]
    PROVE  /\ DOMAIN conn' = Conns /\ \A d \in Conns : ConnOK(conn'[d])
           /\ conn'[c] = x /\ \A d \in Conns : d # c => conn'[d] = conn[d]
BY DEF HubTyped

\* What is booked for a room grows.
LEMMA AddGrows ==
    ASSUME NEW f \in [Rooms -> SUBSET Nat], NEW q \in Rooms, NEW S \in SUBSET Nat
    PROVE  /\ Add(f, q, S) \in [Rooms -> SUBSET Nat]
           /\ \A r \in Rooms : f[r] \subseteq Add(f, q, S)[r]
           /\ \A r \in Rooms : r # q => Add(f, q, S)[r] = f[r]
           /\ Add(f, q, S)[q] = f[q] \cup S
BY DEF Add

LEMMA BookGrows ==
    ASSUME NEW f \in Booked, NEW q \in Rooms, NEW S \in SUBSET (Nat \ {0})
    PROVE  /\ Add(f, q, S) \in Booked
           /\ \A r \in Rooms : r # q => Add(f, q, S)[r] = f[r]
           /\ Add(f, q, S)[q] = f[q] \cup S
BY DEF Add, Booked

\* Events, marks and lost access concern no socket.
LEMMA OutsideKeeps ==
    ASSUME HubInv, NEW r \in Rooms, NEW n,
           \/ PublishDurable(r) \/ MarkPublished(r, n) \/ LoseAccess(r)
    PROVE  HubInv'
<1>1. /\ UNCHANGED <<conn, clients, rooms, send, subs, cast, got, owed, missed, cut>>
      /\ log' \in [Rooms -> Nat] /\ marked' \in Booked
  <2>1. CASE PublishDurable(r)
    BY <2>1 DEF PublishDurable, HubInv, HubTyped, deviceVars
  <2>2. CASE MarkPublished(r, n)
    <3>1. {n} \in SUBSET (Nat \ {0}) /\ marked \in Booked /\ marked' = Add(marked, r, {n})
      BY <2>2 DEF MarkPublished, HubInv, HubTyped
    <3>2. marked' \in Booked
      BY <3>1, BookGrows
    <3> QED BY <2>2, <3>2 DEF MarkPublished, HubInv, HubTyped, deviceVars
  <2>3. CASE LoseAccess(r)
    BY <2>3 DEF LoseAccess, HubInv, HubTyped, deviceVars, outboxVars
  <2> QED BY <2>1, <2>2, <2>3
<1>2. HubTyped' /\ HubKnows'
  BY <1>1 DEF HubInv, HubTyped, HubKnows
<1>3. \A c \in Conns, q \in Rooms : Safe(c, q)'
  BY <1>1 DEF HubInv, Safe, Follows, Held, Coming, Excepted
<1> QED BY <1>2, <1>3 DEF HubInv

\* The hub forgets sockets; a restart closes them all.
LEMMA RemovalKeeps ==
    ASSUME HubInv, evictSlowClients \/ Run \/ (\E s \in SessionIds : EvictSession(s))
           \/ (\E c \in Conns : Unregister(c) \/ readPump(c))
    PROVE  HubInv'
<1>1. /\ clients' \subseteq clients /\ rooms' \subseteq rooms
      /\ \A p \in rooms' : p[2] \in clients => p[2] \in clients'
      /\ UNCHANGED <<subs, outboxVars, cast, deviceVars>>
  BY DEF evictSlowClients, Run, EvictSession, Unregister, readPump, removeClientLocked
<1> DEFINE Moved == /\ DOMAIN conn' = Conns
                    /\ \A d \in Conns : ConnOK(conn'[d])
                         /\ (conn'[d] = conn[d] \/ conn'[d].at \in {"none", "leaving", "closed"})
                    /\ \A d \in clients' : conn'[d] = conn[d] \/ conn'[d].at \in {"leaving", "closed"}
<1>2. Moved
  <2>1. CASE evictSlowClients \/ \E s \in SessionIds : EvictSession(s)
    BY <2>1 DEF evictSlowClients, EvictSession, HubInv, HubTyped
  <2>2. CASE Run
    BY <2>2 DEF Run, removeClientLocked, NoConn, ConnOK, ConnStages, HubInv, HubTyped
  <2>3. ASSUME NEW c \in Conns, Unregister(c) PROVE Moved
    <3>1. ConnOK(conn[c]) /\ conn[c].at = "leaving" /\ conn' = [conn EXCEPT ![c].at = "closed"]
      BY <2>3 DEF Unregister, HubInv, HubTyped
    <3> DEFINE x == [conn[c] EXCEPT !.at = "closed"]
    <3>2. ConnOK(x) /\ x.at = "closed" /\ conn' = [conn EXCEPT ![c] = x]
      BY <3>1 DEF ConnOK, ConnStages
    <3> HIDE DEF x
    <3> QED BY <1>1, <3>2, RowChanges DEF HubInv, HubTyped
  <2>4. ASSUME NEW c \in Conns, readPump(c) PROVE Moved
    <3> DEFINE x == [conn[c] EXCEPT !.at = "leaving", !.room = "none", !.todo = {}]
    <3>1. ConnOK(conn[c]) /\ conn[c].at \in {"restore", "open"} /\ conn' = [conn EXCEPT ![c] = x]
      BY <2>4 DEF readPump, HubInv, HubTyped
    <3>2. ConnOK(x) /\ x.at = "leaving"
      BY <3>1 DEF ConnOK, ConnStages
    <3> HIDE DEF x
    <3> QED BY <1>1, <3>1, <3>2, RowChanges DEF HubInv, HubTyped
  <2> QED BY <2>1, <2>2, <2>3, <2>4
<1>3. send' \in [Conns -> Seq(Messages)]
      /\ \A d \in Conns : send'[d] = send[d] \/ conn'[d].at \in {"none", "closed"}
  <2>1. CASE evictSlowClients \/ (\E s \in SessionIds : EvictSession(s)) \/ (\E c \in Conns : readPump(c))
    BY <2>1 DEF evictSlowClients, EvictSession, readPump, HubInv, HubTyped
  <2>2. CASE Run
    <3>1. send' = [c \in Conns |-> <<>>] /\ \A d \in Conns : conn'[d].at \in {"none", "closed"}
      BY <2>2 DEF Run, NoConn
    <3>2. send' \in [Conns -> Seq(Messages)]
      BY <3>1
    <3> QED BY <3>1, <3>2
  <2>3. CASE \E c \in Conns : Unregister(c)
    BY <2>3 DEF Unregister, HubInv, HubTyped, ConnOK
  <2> QED BY <2>1, <2>2, <2>3
<1>4. HubTyped'
  BY <1>1, <1>2, <1>3 DEF HubInv, HubTyped, outboxVars, deviceVars
<1>5. HubKnows'
  BY <1>1, <1>2 DEF HubInv, HubKnows
<1>6. ASSUME NEW c \in Conns, NEW r \in Rooms PROVE Safe(c, r)'
  <2>1. CASE conn'[c] = conn[c] /\ send'[c] = send[c]
    BY <1>1, <2>1, CalmIsSafe DEF Follows, Coming, Excepted, deviceVars
  <2>2. CASE conn'[c].at \in {"none", "leaving", "closed"}
    BY <2>2 DEF Safe, Follows, UpStages
  <2> QED BY <1>2, <1>3, <2>1, <2>2
<1> QED BY <1>4, <1>5, <1>6 DEF HubInv

\* A new socket, and its registration.
LEMMA AcceptKeeps ==
    ASSUME HubInv, NEW c \in Conns, (\E s \in SessionIds : Accept(c, s)) \/ Register(c)
    PROVE  HubInv'
<1>1. /\ UNCHANGED <<rooms, send, subs, outboxVars, cast, got, owed>>
      /\ clients' \subseteq clients \cup {c} /\ clients \subseteq clients'
  BY DEF Accept, Register, deviceVars
<1> DEFINE Row(x) == ConnOK(x) /\ conn' = [conn EXCEPT ![c] = x] /\ (c \in clients' => x.at \in UpStages)
<1>2. PICK x : Row(x)
  <2>1. ASSUME NEW s \in SessionIds, Accept(c, s) PROVE \E x : Row(x)
    <3> DEFINE x == [NoConn EXCEPT !.at = "accepted", !.s = s]
    <3>1. ConnOK(x) /\ conn' = [conn EXCEPT ![c] = x] /\ c \notin clients'
      BY <2>1 DEF Accept, NoConn, ConnOK, ConnStages, HubInv, HubKnows, UpStages
    <3> QED BY <3>1
  <2>2. CASE Register(c)
    <3> DEFINE x == [conn[c] EXCEPT !.at = "restore", !.todo = subs]  y == [conn[c] EXCEPT !.at = "open"]
    <3>1. ConnOK(conn[c]) /\ conn[c].at = "accepted"
      BY <2>2 DEF Register, HubInv, HubTyped
    <3>2. ConnOK(x) /\ x.at = "restore" /\ ConnOK(y) /\ y.at = "open"
      BY <3>1 DEF ConnOK, ConnStages, UpStages, HubInv, HubTyped
    <3>3. conn' = [conn EXCEPT ![c] = x] \/ conn' = [conn EXCEPT ![c] = y]
      BY <2>2 DEF Register, ListSubscriptions
    <3> QED BY <3>2, <3>3 DEF UpStages
  <2> QED BY <2>1, <2>2
<1>3. /\ DOMAIN conn' = Conns /\ \A d \in Conns : ConnOK(conn'[d])
      /\ conn'[c] = x /\ \A d \in Conns : d # c => conn'[d] = conn[d]
  BY <1>2, RowChanges DEF HubInv
<1>4. /\ missed' \in [Rooms -> SUBSET Nat] /\ cut' \in [Rooms -> SUBSET Nat]
      /\ UNCHANGED <<missed, cut>> \/ \A d \in Conns : d # c => conn[d].at \in {"none", "closed"}
  BY DEF Accept, Register, deviceVars, HubInv, HubTyped
<1>5. \A r \in Rooms : <<r, c>> \notin rooms
  <2>1. conn[c].at \in {"none", "accepted"}
    BY DEF Accept, Register
  <2> QED BY <2>1 DEF HubInv, HubKnows, UpStages
<1>6. HubTyped' /\ HubKnows'
  <2>1. HubTyped'
    BY <1>1, <1>3, <1>4 DEF HubInv, HubTyped, outboxVars
  <2>2. HubKnows'
    BY <1>1, <1>2, <1>3 DEF HubInv, HubKnows, HubTyped
  <2> QED BY <2>1, <2>2
<1>7. ASSUME NEW d \in Conns, NEW r \in Rooms PROVE Safe(d, r)'
  <2>1. CASE d = c
    BY <1>1, <1>5, <2>1 DEF Safe, Follows
  <2>2. CASE d # c /\ UNCHANGED <<missed, cut>>
    BY <1>1, <1>3, <2>2, CalmIsSafe DEF Follows, Coming, Excepted
  <2>3. CASE d # c /\ conn[d].at \in {"none", "closed"}
    BY <1>3, <2>3 DEF Safe, Follows, UpStages
  <2> QED BY <1>4, <2>1, <2>2, <2>3
<1> QED BY <1>6, <1>7 DEF HubInv

\* A socket moves on in its restore, perhaps into a room it does not follow yet.
LEMMA MoveKeeps ==
    ASSUME HubInv, NEW c \in Conns, NEW x, ConnOK(x), conn' = [conn EXCEPT ![c] = x], x.at \in UpStages,
           conn[c].at \in UpStages, conn[c].events = {}, conn[c].at = "restore" => conn[c].room = "none",
           UNCHANGED <<clients, send, outboxVars, cast, deviceVars>>, subs' \subseteq subs,
           \A d \in Conns, r \in Rooms : <<r, d>> \in rooms' =>
                <<r, d>> \in rooms \/ (d = c /\ c \in clients /\ x.at = "restore" /\ x.room = r)
    PROVE  HubInv'
<1>1. /\ DOMAIN conn' = Conns /\ \A d \in Conns : ConnOK(conn'[d])
      /\ conn'[c] = x /\ \A d \in Conns : d # c => conn'[d] = conn[d]
  BY RowChanges DEF HubInv
<1>2. HubTyped'
  BY <1>1 DEF HubInv, HubTyped, outboxVars, deviceVars
<1>3. HubKnows'
  BY <1>1 DEF HubInv, HubTyped, HubKnows
<1>4. ASSUME NEW d \in Conns, NEW r \in Rooms PROVE Safe(d, r)'
  <2>1. CASE d # c
    BY <1>1, <2>1, CalmIsSafe DEF Follows, Coming, Excepted, deviceVars
  <2>2. CASE d = c /\ Follows(c, r)'
    <3>1. Follows(c, r) /\ Coming(c, r) = {}
      BY <1>1, <2>2, SocketsAssumption DEF Follows, Coming
    <3> QED BY <2>2, <3>1, CalmIsSafe DEF Excepted, deviceVars
  <2> QED BY <2>1, <2>2 DEF Safe
<1> QED BY <1>2, <1>3, <1>4 DEF HubInv

\* The rooms of a restore, and the moves between them.
LEMMA RestoreRoomKeeps ==
    ASSUME HubInv, NEW c \in Conns, (\E r \in Rooms : RestoreRoom(c, r)) \/ Restored(c)
    PROVE  HubInv'
<1>1. ConnOK(conn[c])
  BY DEF HubInv, HubTyped
<1>2. ASSUME NEW r \in Rooms, RestoreRoom(c, r) PROVE HubInv'
  <2> DEFINE x == [conn[c] EXCEPT !.todo = @ \ {r}, !.room = r]  y == [conn[c] EXCEPT !.todo = @ \ {r}]
  <2>1. conn[c].at = "restore" /\ conn[c].room = "none" /\ r # "none" /\ conn[c].events = {}
        /\ UNCHANGED <<clients, send, outboxVars, cast, deviceVars>> /\ subs' \subseteq subs
    BY <1>1, <1>2, SocketsAssumption DEF RestoreRoom, ConnOK, RemoveSubscription
  <2>2. ConnOK(x) /\ x.at = "restore" /\ x.room = r /\ ConnOK(y) /\ y.at = "restore"
    BY <1>1, <2>1 DEF ConnOK, ConnStages
  <2>3. \/ conn' = [conn EXCEPT ![c] = x] /\ (rooms' = rooms \/ (c \in clients /\ rooms' = rooms \cup {<<r, c>>}))
        \/ conn' = [conn EXCEPT ![c] = y] /\ rooms' = rooms
    BY <1>2 DEF RestoreRoom, Subscribe
  <2> HIDE DEF x, y
  <2> QED BY <2>1, <2>2, <2>3, MoveKeeps DEF UpStages
<1>3. CASE Restored(c)
  <2> DEFINE x == [conn[c] EXCEPT !.at = "restore", !.room = "none"]  y == [conn[c] EXCEPT !.at = "open"]
  <2>1. \/ conn[c].at = "replay" /\ conn[c].events = {} /\ conn' = [conn EXCEPT ![c] = x]
        \/ conn[c].at = "restore" /\ conn[c].room = "none" /\ conn' = [conn EXCEPT ![c] = y]
    BY <1>3 DEF Restored
  <2>2. /\ UNCHANGED <<clients, rooms, send, outboxVars, cast, deviceVars>> /\ subs' \subseteq subs
        /\ conn[c].events = {}
    BY <1>1, <1>3, <2>1 DEF Restored, ConnOK
  <2>3. ConnOK(x) /\ x.at = "restore"
    BY <1>1, <2>1, <2>2 DEF ConnOK, ConnStages, UpStages
  <2>4. conn[c].room = "none" => ConnOK(y) /\ y.at = "open"
    BY <1>1, <2>1, <2>2 DEF ConnOK, ConnStages, UpStages
  <2> HIDE DEF x, y
  <2> QED BY <2>1, <2>2, <2>3, <2>4, MoveKeeps DEF UpStages
<1> QED BY <1>2, <1>3

\* Marked events are numbered from one: the replay starts before all of them.
LEMMA ReplayOrCut ==
    ASSUME HubInv, NEW r \in Rooms
    PROVE  /\ owed[r] \subseteq (owed[r] \ marked[r]) \cup ReplayRoom(r, LastDeliveredSequence) \cup BeyondLimit(r)
           /\ BeyondLimit(r) \subseteq Nat /\ ReplayRoom(r, LastDeliveredSequence) \subseteq Nat
<1>1. marked[r] \subseteq Nat \ {0}
  BY DEF HubInv, HubTyped, Booked
<1>2. {n \in marked[r] : n > LastDeliveredSequence} = marked[r]
  BY <1>1 DEF LastDeliveredSequence
<1>3. ReplayRoom(r, LastDeliveredSequence) =
        {n \in marked[r] : Cardinality({m \in marked[r] : m < n}) < ReplayLimit}
  BY <1>2, Zenon DEF ReplayRoom
<1> QED BY <1>1, <1>3 DEF BeyondLimit

\* A socket follows a room once all it is owed is to come or excepted.
LEMMA FollowsNow ==
    ASSUME HubInv, NEW c \in Conns, NEW q \in Rooms, conn[c].room = q, conn[c].at = "restore", conn[c].events = {},
           NEW x, ConnOK(x), x.at \in UpStages, conn' = [conn EXCEPT ![c] = x],
           NEW S \in SUBSET Nat, NEW T \in SUBSET Nat, missed' = Add(missed, q, S), cut' = Add(cut, q, T),
           owed[q] \subseteq S \cup T \cup (IF x.room = q THEN x.events ELSE {}),
           UNCHANGED <<clients, rooms, send, subs, outboxVars, cast, got, owed>>
    PROVE  HubInv'
<1>1. /\ DOMAIN conn' = Conns /\ \A d \in Conns : ConnOK(conn'[d])
      /\ conn'[c] = x /\ \A d \in Conns : d # c => conn'[d] = conn[d]
  BY RowChanges DEF HubInv
<1>2. /\ missed' \in [Rooms -> SUBSET Nat] /\ cut' \in [Rooms -> SUBSET Nat]
      /\ \A r \in Rooms : missed[r] \subseteq missed'[r] /\ cut[r] \subseteq cut'[r]
      /\ S \subseteq missed'[q] /\ T \subseteq cut'[q]
  <2>1. missed \in [Rooms -> SUBSET Nat] /\ cut \in [Rooms -> SUBSET Nat]
    BY DEF HubInv, HubTyped
  <2> QED BY <2>1, AddGrows
<1>3. HubTyped'
  BY <1>1, <1>2 DEF HubInv, HubTyped, outboxVars
<1>4. HubKnows'
  BY <1>1 DEF HubInv, HubTyped, HubKnows
<1>5. \A r \in Rooms : Excepted(r) \subseteq Excepted(r)'
  BY <1>2 DEF Excepted
<1>6. ASSUME NEW d \in Conns, NEW r \in Rooms PROVE Safe(d, r)'
  <2>1. CASE d = c /\ r = q
    BY <1>1, <1>2, <2>1 DEF Safe, Coming, Excepted
  <2>2. CASE d = c /\ r # q
    <3>1. Coming(c, r) = {} /\ (Follows(c, r)' => Follows(c, r))
      BY <1>1, <2>2 DEF Coming, Follows, UpStages
    <3> QED BY <1>5, <2>2, <3>1, CalmIsSafe
  <2>3. CASE d # c
    BY <1>1, <1>5, <2>3, CalmIsSafe DEF Follows, Coming
  <2> QED BY <2>1, <2>2, <2>3
<1> QED BY <1>3, <1>4, <1>6 DEF HubInv

\* The replay is read, or fails.
LEMMA ReadKeeps ==
    ASSUME HubInv, NEW c \in Conns, ReadReplay(c)
    PROVE  HubInv'
<1> DEFINE q == conn[c].room  events == ReplayRoom(q, LastDeliveredSequence)
           x == [conn[c] EXCEPT !.at = "replay", !.events = events]  y == [conn[c] EXCEPT !.room = "none"]
<1>1. /\ UNCHANGED <<clients, rooms, send, subs, outboxVars, cast, got, owed>>
      /\ ConnOK(conn[c]) /\ conn[c].at = "restore" /\ q \in Rooms /\ conn[c].events = {}
  BY DEF ReadReplay, HubInv, HubTyped, ConnOK
<1>2. /\ owed[q] \in SUBSET Nat /\ owed[q] \ marked[q] \in SUBSET Nat
      /\ owed[q] \subseteq (owed[q] \ marked[q]) \cup events \cup BeyondLimit(q)
      /\ BeyondLimit(q) \in SUBSET Nat /\ events \in SUBSET Nat
  <2>1. owed[q] \in SUBSET Nat
    BY <1>1 DEF HubInv, HubTyped, Booked
  <2> QED BY <1>1, <2>1, ReplayOrCut
<1>3. \/ conn' = [conn EXCEPT ![c] = x] /\ missed' = Add(missed, q, owed[q] \ marked[q]) /\ cut' = Add(cut, q, BeyondLimit(q))
      \/ conn' = [conn EXCEPT ![c] = y] /\ missed' = Add(missed, q, owed[q]) /\ cut' = Add(cut, q, {})
  <2>1. cut = Add(cut, q, {})
    BY <1>1 DEF Add, HubInv, HubTyped
  <2> QED BY <2>1 DEF ReadReplay
<1>4. ConnOK(x) /\ x.at = "replay" /\ x.room = q /\ x.events = events /\ ConnOK(y) /\ y.at = "restore"
  <2> HIDE DEF events
  <2> QED BY <1>1, <1>2 DEF ConnOK, ConnStages, UpStages
<1>5. q = conn[c].room
  OBVIOUS
<1> HIDE DEF q, events, x, y
<1>6. CASE conn' = [conn EXCEPT ![c] = x] /\ missed' = Add(missed, q, owed[q] \ marked[q])
           /\ cut' = Add(cut, q, BeyondLimit(q))
  <2>1. owed[q] \subseteq (owed[q] \ marked[q]) \cup BeyondLimit(q) \cup (IF x.room = q THEN x.events ELSE {})
    BY <1>2, <1>4
  <2>2. x.at \in UpStages
    BY <1>4 DEF UpStages
  <2> QED BY <1>1, <1>2, <1>4, <1>5, <1>6, <2>1, <2>2, FollowsNow
<1>7. CASE conn' = [conn EXCEPT ![c] = y] /\ missed' = Add(missed, q, owed[q]) /\ cut' = Add(cut, q, {})
  <2>1. owed[q] \subseteq owed[q] \cup {} \cup (IF y.room = q THEN y.events ELSE {}) /\ {} \in SUBSET Nat
    OBVIOUS
  <2>2. y.at \in UpStages
    BY <1>4 DEF UpStages
  <2> QED BY <1>1, <1>2, <1>4, <1>5, <1>7, <2>1, <2>2, FollowsNow
<1> QED BY <1>3, <1>6, <1>7

\* An event of the replay is queued, dropped with the rest, or finds the socket closed.
LEMMA ReplayKeeps ==
    ASSUME HubInv, NEW c \in Conns, NEW n, restoreSubscriptions(c, n)
    PROVE  HubInv'
<1> DEFINE q == conn[c].room  m == [room |-> q, n |-> n]
           x == [conn[c] EXCEPT !.at = "leaving", !.todo = {}, !.room = "none", !.events = {}]
           y == [conn[c] EXCEPT !.at = "open", !.todo = {}, !.room = "none", !.events = {}]
           z == [conn[c] EXCEPT !.events = @ \ {n}]
<1>1. /\ UNCHANGED <<clients, rooms, subs, outboxVars, cast, got, owed, cut>>
      /\ ConnOK(conn[c]) /\ conn[c].at = "replay" /\ q \in Rooms /\ n \in conn[c].events
  BY DEF restoreSubscriptions, HubInv, HubTyped, ConnOK
<1>2. ConnOK(x) /\ x.at = "leaving" /\ ConnOK(y) /\ y.at = "open" /\ y.room = "none" /\ ConnOK(z) /\ z.at = "replay"
      /\ z.room = q /\ z.events = conn[c].events \ {n}
  BY <1>1 DEF ConnOK, ConnStages, UpStages
<1>3. \/ conn' = [conn EXCEPT ![c] = x] /\ send' = send /\ missed' = missed
      \/ conn' = [conn EXCEPT ![c] = y] /\ send' = send /\ missed' = Add(missed, q, conn[c].events)
      \/ conn' = [conn EXCEPT ![c] = z] /\ send' = [send EXCEPT ![c] = Append(@, m)] /\ missed' = missed
  BY DEF restoreSubscriptions
<1>4. CASE conn' = [conn EXCEPT ![c] = x] /\ send' = send /\ missed' = missed
  <2>1. /\ DOMAIN conn' = Conns /\ \A d \in Conns : ConnOK(conn'[d])
        /\ conn'[c].at = "leaving" /\ \A d \in Conns : d # c => conn'[d] = conn[d]
    <3> HIDE DEF x
    <3> QED BY <1>2, <1>4, RowChanges DEF HubInv
  <2> HIDE DEF q, m, x, y, z
  <2>2. HubTyped' /\ HubKnows'
    BY <1>1, <1>4, <2>1 DEF HubInv, HubTyped, HubKnows, outboxVars
  <2>3. ASSUME NEW d \in Conns, NEW r \in Rooms PROVE Safe(d, r)'
    <3>1. CASE d = c
      BY <2>1, <3>1 DEF Safe, Follows, UpStages
    <3>2. CASE d # c
      BY <1>1, <1>4, <2>1, <3>2, CalmIsSafe DEF Follows, Coming, Excepted
    <3> QED BY <3>1, <3>2
  <2> QED BY <2>2, <2>3 DEF HubInv
<1>5. CASE conn' = [conn EXCEPT ![c] = y] /\ send' = send /\ missed' = Add(missed, q, conn[c].events)
  <2>1. /\ DOMAIN conn' = Conns /\ \A d \in Conns : ConnOK(conn'[d])
        /\ conn'[c] = y /\ \A d \in Conns : d # c => conn'[d] = conn[d]
    <3> HIDE DEF y
    <3> QED BY <1>2, <1>5, RowChanges DEF HubInv
  <2>2. /\ missed' \in [Rooms -> SUBSET Nat] /\ \A r \in Rooms : Excepted(r) \subseteq Excepted(r)'
        /\ conn[c].events \subseteq missed'[q]
    <3>1. conn[c].events \in SUBSET Nat /\ missed \in [Rooms -> SUBSET Nat]
      BY <1>1 DEF ConnOK, HubInv, HubTyped
    <3>2. /\ missed' \in [Rooms -> SUBSET Nat] /\ conn[c].events \subseteq missed'[q]
          /\ \A r \in Rooms : missed[r] \subseteq missed'[r]
      BY <1>1, <1>5, <3>1, AddGrows
    <3> HIDE DEF q, x, y, z
    <3> QED BY <1>1, <3>2 DEF Excepted
  <2> HIDE DEF m, x, y, z
  <2>3. HubTyped' /\ HubKnows'
    BY <1>1, <1>2, <1>5, <2>1, <2>2 DEF HubInv, HubTyped, HubKnows, outboxVars, UpStages
  <2>4. ASSUME NEW d \in Conns, NEW r \in Rooms PROVE Safe(d, r)'
    <3>1. CASE d = c
      <4>1. Follows(c, r)' => Follows(c, r)
        BY <1>1, <2>1 DEF Follows, UpStages
      <4>2. Held(c, r) \subseteq Held(c, r)' /\ Coming(c, r) \subseteq Excepted(r)'
        <5>1. Held(c, r) \subseteq Held(c, r)'
          BY <1>1, <1>5 DEF Held
        <5>2. Coming(c, r) \subseteq Excepted(r)'
          BY <2>2 DEF Coming, Excepted
        <5> QED BY <5>1, <5>2
      <4>3. Safe(c, r) /\ owed'[r] = owed[r]
        BY <1>1 DEF HubInv
      <4> QED BY <2>2, <3>1, <4>1, <4>2, <4>3 DEF Safe
    <3>2. CASE d # c
      BY <1>1, <1>5, <2>1, <2>2, <3>2, CalmIsSafe DEF Follows, Coming
    <3> QED BY <3>1, <3>2
  <2> QED BY <2>3, <2>4 DEF HubInv
<1>6. CASE conn' = [conn EXCEPT ![c] = z] /\ send' = [send EXCEPT ![c] = Append(@, m)] /\ missed' = missed
  <2>1. /\ DOMAIN conn' = Conns /\ \A d \in Conns : ConnOK(conn'[d])
        /\ conn'[c] = z /\ \A d \in Conns : d # c => conn'[d] = conn[d]
    <3> HIDE DEF z
    <3> QED BY <1>2, <1>6, RowChanges DEF HubInv
  <2>2. m \in Messages
    BY <1>1 DEF Messages, ConnOK
  <2>3. send[c] \in Seq(Messages) /\ send'[c] = Append(send[c], m) /\ \A d \in Conns : d # c => send'[d] = send[d]
    BY <1>6 DEF HubInv, HubTyped
  <2>4. send'[c] \in Seq(Messages) /\ Range(send'[c]) = Range(send[c]) \cup {m}
    <3> HIDE DEF m
    <3> QED BY <2>2, <2>3, AppendBuffer
  <2>5. send' \in [Conns -> Seq(Messages)]
    BY <1>6, <2>3, <2>4 DEF HubInv, HubTyped
  <2>6. HubTyped' /\ HubKnows'
    <3> HIDE DEF m, x, y, z, q
    <3> QED BY <1>1, <1>2, <1>6, <2>1, <2>5 DEF HubInv, HubTyped, HubKnows, outboxVars, UpStages
  <2>7. ASSUME NEW d \in Conns, NEW r \in Rooms PROVE Safe(d, r)'
    <3>1. CASE d = c /\ r = q
      <4>1. n \in Nat /\ [room |-> r, n |-> n] \in Range(send'[d]) /\ Range(send[d]) \subseteq Range(send'[d])
        BY <1>1, <2>4, <3>1 DEF ConnOK
      <4>2. (Follows(d, r)' => Follows(d, r)) /\ Coming(d, r) \subseteq Coming(d, r)' \cup {n}
        BY <1>1, <1>2, <2>1, <3>1 DEF Follows, UpStages, Coming
      <4> HIDE DEF q, m, z
      <4>3. Held(d, r) \subseteq Held(d, r)' /\ n \in Held(d, r)'
        BY <1>1, <4>1 DEF Held
      <4>4. Safe(d, r) /\ owed'[r] = owed[r] /\ Excepted(r)' = Excepted(r)
        BY <1>1, <1>6 DEF HubInv, Excepted
      <4> QED BY <4>2, <4>3, <4>4 DEF Safe
    <3>2. CASE d = c /\ r # q
      <4>1. Coming(c, r) = {} /\ (Follows(c, r)' => Follows(c, r))
        BY <1>1, <2>1, <3>2 DEF Coming, Follows, UpStages
      <4> HIDE DEF q, m, z
      <4> QED BY <1>1, <1>6, <2>4, <3>2, <4>1, CalmIsSafe DEF Excepted
    <3>3. CASE d # c
      <4> HIDE DEF q, m, z
      <4> QED BY <1>1, <1>6, <2>1, <2>3, <3>3, CalmIsSafe DEF Follows, Coming, Excepted
    <3> QED BY <3>1, <3>2, <3>3
  <2> QED BY <2>6, <2>7 DEF HubInv
<1> QED BY <1>3, <1>4, <1>5, <1>6

\* A client subscribes, or leaves a room.
LEMMA SubscribeKeeps ==
    ASSUME HubInv, NEW c \in Conns, NEW q \in Rooms, handleSubscribe(c, q) \/ handleUnsubscribe(c, q)
    PROVE  HubInv'
<1>1. /\ UNCHANGED <<conn, clients, send, outboxVars, cast, got, owed, cut>> /\ subs' \subseteq Rooms
      /\ \A p \in rooms' : p \in rooms \/ (p = <<q, c>> /\ c \in clients)
  BY DEF handleSubscribe, handleUnsubscribe, Subscribe, AddSubscription, RemoveSubscription, deviceVars,
         HubInv, HubTyped
<1>2. /\ missed' \in [Rooms -> SUBSET Nat] /\ \A r \in Rooms : Excepted(r) \subseteq Excepted(r)'
      /\ \A p \in rooms' : p \in rooms \/ owed[q] \subseteq Excepted(q)'
  <2>1. CASE handleUnsubscribe(c, q)
    BY <2>1 DEF handleUnsubscribe, deviceVars, HubInv, HubTyped, Excepted
  <2>2. CASE handleSubscribe(c, q)
    <3>1. missed' = Add(missed, q, owed[q]) /\ owed[q] \in SUBSET Nat /\ missed \in [Rooms -> SUBSET Nat]
      BY <2>2 DEF handleSubscribe, HubInv, HubTyped, Booked
    <3>2. missed' \in [Rooms -> SUBSET Nat] /\ owed[q] \subseteq missed'[q] /\ \A r \in Rooms : missed[r] \subseteq missed'[r]
      BY <3>1, AddGrows
    <3> QED BY <1>1, <3>2 DEF Excepted
  <2> QED BY <2>1, <2>2
<1>3. HubTyped' /\ HubKnows'
  BY <1>1, <1>2 DEF HubInv, HubTyped, HubKnows, outboxVars
<1>4. ASSUME NEW d \in Conns, NEW r \in Rooms PROVE Safe(d, r)'
  <2>1. CASE <<r, d>> \in rooms' => <<r, d>> \in rooms
    BY <1>1, <1>2, <2>1, CalmIsSafe DEF Follows, Coming
  <2>2. CASE <<r, d>> \in rooms' /\ <<r, d>> \notin rooms
    BY <1>1, <1>2, <2>2 DEF Safe
  <2> QED BY <2>1, <2>2
<1> QED BY <1>3, <1>4 DEF HubInv

\* A message is written: the device has it.
LEMMA WriteKeeps ==
    ASSUME HubInv, NEW c \in Conns, writePump(c)
    PROVE  HubInv'
<1>1. /\ UNCHANGED <<conn, clients, rooms, subs, outboxVars, cast, owed, missed, cut>>
      /\ send[c] \in Seq(Messages) /\ send[c] # <<>> /\ got' = got \cup {Head(send[c])}
      /\ send' = [send EXCEPT ![c] = Tail(@)]
  BY DEF writePump, HubInv, HubTyped
<1>2. Tail(send[c]) \in Seq(Messages) /\ Range(send[c]) = Range(Tail(send[c])) \cup {Head(send[c])}
  BY <1>1, TailBuffer
<1>3. HubTyped' /\ HubKnows'
  BY <1>1, <1>2 DEF HubInv, HubTyped, HubKnows, outboxVars
<1>4. ASSUME NEW d \in Conns PROVE got \cup Range(send[d]) \subseteq got' \cup Range(send'[d])
  <2>1. send'[c] = Tail(send[c]) /\ (d # c => send'[d] = send[d])
    BY <1>1 DEF HubInv, HubTyped
  <2> QED BY <1>1, <1>2, <2>1
<1>5. \A d \in Conns, r \in Rooms : Safe(d, r)'
  BY <1>1, <1>4, CalmIsSafe DEF Follows, Coming, Excepted
<1> QED BY <1>3, <1>5 DEF HubInv

\* What a queued message does to the buffers.
LEMMA QueueFills ==
    ASSUME HubInv, NEW r \in Rooms, NEW n \in Nat, Queue(Members(r), [room |-> r, n |-> n])
    PROVE  /\ send' \in [Conns -> Seq(Messages)]
           /\ \A c \in Conns : Range(send[c]) \subseteq Range(send'[c])
           /\ \A c \in Conns \ Members(r) : send'[c] = send[c]
           /\ \A c \in Members(r) : ~Full(c) => [room |-> r, n |-> n] \in Range(send'[c])
<1> DEFINE m == [room |-> r, n |-> n]
<1>1. m \in Messages
  BY DEF Messages
<1> HIDE DEF m
<1>2. /\ send' = [c \in Conns |-> IF c \in {d \in Members(r) : ~Full(d)} THEN Append(send[c], m) ELSE send[c]]
      /\ send \in [Conns -> Seq(Messages)]
      /\ Members(r) \subseteq Conns
  BY DEF Queue, m, HubInv, HubTyped, Members
<1>3. ASSUME NEW c \in Conns
      PROVE  /\ send'[c] \in Seq(Messages) /\ Range(send[c]) \subseteq Range(send'[c])
             /\ c \notin Members(r) => send'[c] = send[c]
             /\ c \in Members(r) /\ ~Full(c) => m \in Range(send'[c])
  <2>1. CASE c \in {d \in Members(r) : ~Full(d)}
    <3>1. send'[c] = Append(send[c], m) /\ send[c] \in Seq(Messages)
      BY <1>2, <2>1
    <3>2. send'[c] \in Seq(Messages) /\ Range(send'[c]) = Range(send[c]) \cup {m}
      BY <1>1, <3>1, AppendBuffer
    <3> QED BY <2>1, <3>2
  <2>2. CASE c \notin {d \in Members(r) : ~Full(d)}
    BY <1>2, <2>2
  <2> QED BY <2>1, <2>2
<1>4. send' \in [Conns -> Seq(Messages)]
  BY <1>2, <1>3
<1> QED BY <1>2, <1>3, <1>4 DEF m

\* A message to a room's members disturbs nothing.
LEMMA QueueIsCalm ==
    ASSUME HubInv, NEW q \in Rooms, NEW n \in Nat, Queue(Members(q), [room |-> q, n |-> n]),
           UNCHANGED <<conn, clients, rooms, subs, outboxVars, got, cut>>,
           cast' \in Booked, owed' \in Booked, missed' \in [Rooms -> SUBSET Nat],
           \A r \in Rooms : missed[r] \subseteq missed'[r] /\ owed'[r] \subseteq owed[r] \cup (IF r = q THEN {n} ELSE {}),
           n \notin owed'[q] \/ n \in missed'[q] \/ \A c \in Members(q) : ~Full(c)
    PROVE  HubInv'
<1>1. HubTyped' /\ HubKnows'
  BY QueueFills DEF HubInv, HubTyped, HubKnows, outboxVars
<1>2. ASSUME NEW c \in Conns, NEW r \in Rooms, Follows(c, r)' PROVE Safe(c, r)'
  <2>1. Follows(c, r) /\ Coming(c, r)' = Coming(c, r) /\ Held(c, r) \subseteq Held(c, r)'
    BY <1>2, QueueFills DEF Follows, Coming, Held
  <2>2. owed[r] \subseteq Held(c, r)' \cup Coming(c, r)' \cup Excepted(r)'
    BY <2>1 DEF HubInv, Safe, Excepted
  <2>3. r = q /\ n \in owed'[q] => n \in Held(c, q)' \cup Excepted(q)'
    <3> SUFFICES ASSUME r = q, n \in owed'[q], n \notin missed'[q] PROVE n \in Held(c, q)'
      BY DEF Excepted
    <3>1. c \in Members(q)
      BY <2>1 DEF Follows, Members, HubInv, HubKnows
    <3>2. [room |-> q, n |-> n] \in Range(send'[c])
      BY <3>1, QueueFills
    <3> QED BY <3>2 DEF Held
  <2> QED BY <2>2, <2>3 DEF Safe
<1> QED BY <1>1, <1>2 DEF HubInv, Safe

LEMMA BroadcastKeeps ==
    ASSUME HubInv, NEW q \in Rooms, (\E n \in 1 .. MaxEvents : BroadcastToRoom(q, n)) \/ handleTyping(q)
    PROVE  HubInv'
<1>1. CASE handleTyping(q)
  <2>1. \A r \in Rooms : 0 \notin owed[r]
    BY DEF HubInv, HubTyped, Booked
  <2>2. cast \in Booked /\ owed \in Booked /\ missed \in [Rooms -> SUBSET Nat]
    BY DEF HubInv, HubTyped
  <2>3. Queue(Members(q), [room |-> q, n |-> 0])
        /\ UNCHANGED <<conn, clients, rooms, subs, outboxVars, got, cut, cast, owed, missed>>
    BY <1>1 DEF handleTyping, deviceVars
  <2> QED BY <2>1, <2>2, <2>3, QueueIsCalm
<1>2. ASSUME NEW n \in 1 .. MaxEvents, BroadcastToRoom(q, n) PROVE HubInv'
  <2>1. n \in Nat \ {0}
    BY <1>2 DEF BroadcastToRoom, HubInv, HubTyped
  <2>2. cast \in Booked /\ owed \in Booked /\ missed \in [Rooms -> SUBSET Nat]
    BY DEF HubInv, HubTyped
  <2> DEFINE S == IF q \in subs THEN {n} ELSE {}
             T == IF \E c \in Members(q) : Full(c) THEN {n} ELSE {}
  <2>3. /\ Queue(Members(q), [room |-> q, n |-> n])
        /\ cast' = Add(cast, q, {n}) /\ owed' = Add(owed, q, S) /\ missed' = Add(missed, q, T)
        /\ UNCHANGED <<conn, clients, rooms, subs, outboxVars, got, cut>>
    BY <1>2 DEF BroadcastToRoom, recordDelivery
  <2>4. {n} \in SUBSET (Nat \ {0}) /\ S \in SUBSET (Nat \ {0}) /\ T \in SUBSET Nat
    BY <2>1
  <2>5. S \subseteq {n} /\ (T = {n} \/ \A c \in Members(q) : ~Full(c))
    OBVIOUS
  <2> HIDE DEF S, T
  <2>6. cast' \in Booked /\ owed' \in Booked /\ missed' \in [Rooms -> SUBSET Nat]
    BY <2>2, <2>3, <2>4, AddGrows, BookGrows
  <2>7. \A r \in Rooms : missed[r] \subseteq missed'[r] /\ owed'[r] \subseteq owed[r] \cup (IF r = q THEN {n} ELSE {})
    <3>1. \A r \in Rooms : missed[r] \subseteq missed'[r]
      BY <2>2, <2>3, <2>4, AddGrows
    <3>2. owed'[q] = owed[q] \cup S /\ \A r \in Rooms : r # q => owed'[r] = owed[r]
      BY <2>2, <2>3, <2>4, BookGrows
    <3> QED BY <2>5, <3>1, <3>2
  <2>8. n \in missed'[q] \/ \A c \in Members(q) : ~Full(c)
    BY <2>2, <2>3, <2>4, <2>5, AddGrows
  <2> QED BY <2>1, <2>3, <2>6, <2>7, <2>8, QueueIsCalm
<1> QED BY <1>1, <1>2

\* Every step of the hub keeps the invariant.
LEMMA HubInvNext ==
    ASSUME HubInv, [HubNext]_hubVars
    PROVE  HubInv'
<1>1. ASSUME NEW c \in Conns,
             \/ \E s \in SessionIds : Accept(c, s)
             \/ Register(c) \/ ReadReplay(c) \/ Restored(c) \/ writePump(c) \/ readPump(c) \/ Unregister(c)
             \/ \E n \in conn[c].events : restoreSubscriptions(c, n)
             \/ \E r \in Rooms : RestoreRoom(c, r) \/ handleSubscribe(c, r) \/ handleUnsubscribe(c, r)
      PROVE  HubInv'
  BY <1>1, AcceptKeeps, ReadKeeps, ReplayKeeps, WriteKeeps, RemovalKeeps, RestoreRoomKeeps, SubscribeKeeps, ZenonT(30)
<1>2. ASSUME NEW r \in Rooms,
             \/ PublishDurable(r) \/ LoseAccess(r) \/ handleTyping(r)
             \/ \E n \in 1 .. MaxEvents : BroadcastToRoom(r, n) \/ MarkPublished(r, n)
      PROVE  HubInv'
  BY <1>2, BroadcastKeeps, OutsideKeeps, ZenonT(30)
<1>3. ASSUME evictSlowClients \/ Run \/ (\E s \in SessionIds : EvictSession(s)) PROVE HubInv'
  BY <1>3, RemovalKeeps
<1>4. ASSUME UNCHANGED hubVars PROVE HubInv'
  <2>1. HubTyped' /\ HubKnows'
    BY <1>4 DEF HubInv, HubTyped, HubKnows, hubVars, outboxVars, deviceVars
  <2>2. \A c \in Conns, q \in Rooms : Safe(c, q)'
    BY <1>4 DEF HubInv, Safe, Follows, Held, Coming, Excepted, hubVars, deviceVars
  <2> QED BY <2>1, <2>2 DEF HubInv
<1> QED BY <1>1, <1>2, <1>3, <1>4, ZenonT(30) DEF HubNext

\* For any number of sockets, rooms and events, any buffer and any limit: a device
\* that is back and whose buffer is drained has every event that was broadcast while
\* its subscription stood, in whatever order events are published, marked, broadcast
\* again and replayed, and whatever evictions, restarts and failed restores come in
\* between, but for what this socket dropped, could not ask for, or asked beyond the limit.
THEOREM MissedAreReplayed == HubSpec => []ReplayFillsTheGap
<1>1. SocketsInit => HubInv
  BY InitHubInv
<1>2. HubInv /\ [HubNext]_hubVars => HubInv'
  BY HubInvNext
<1> QED BY <1>1, <1>2, HubInvFills, PTL DEF HubSpec
-----------------------------------------------------------------------------
(* Presence.  A reader cannot take off what it has still to visit, nor a   *)
(* user of whom it has found a live session.                               *)

AggTyped ==
    \A a \in AuthRequests :
        /\ DOMAIN agg[a] = {"at", "todo", "dead", "latest"}
        /\ agg[a].dead # 0 => agg[a].at = "visit" /\ agg[a].dead \notin agg[a].todo

PresenceTyped ==
    /\ DOMAIN agg = AuthRequests /\ AggTyped
    /\ DOMAIN pres = SessionIds /\ online \in BOOLEAN

\* What a session that beats in time is entitled to.
Kept(s) == s \in usess /\ online /\ ~Passed(s)

PresenceInv == PresenceTyped /\ \A s \in SessionIds \ overtaken : pres[s] # "none" => Kept(s)

\* Every step of the presence service keeps the invariant.
LEMMA SetKeeps ==
    ASSUME PresenceInv, NEW s \in SessionIds, NEW status, setPresence(s, status)
    PROVE  PresenceInv'
<1>1. PresenceTyped'
  BY DEF PresenceInv, PresenceTyped, AggTyped, setPresence, saveSession
<1>2. /\ usess' = usess \cup {s} /\ online' = TRUE /\ agg' = agg /\ overtaken \ {s} \subseteq overtaken'
      /\ s \notin overtaken' => ~Passed(s)
      /\ \A x \in SessionIds : x # s => pres'[x] = pres[x]
  BY DEF setPresence, saveSession, PresenceInv, PresenceTyped
<1>3. ASSUME NEW x \in SessionIds \ overtaken', pres'[x] # "none" PROVE Kept(x)'
  <2>1. x \in usess' /\ ~Passed(x)
    BY <1>2, <1>3 DEF PresenceInv, Kept
  <2> QED BY <1>2, <2>1 DEF Kept, Passed
<1> QED BY <1>1, <1>3 DEF PresenceInv

LEMMA DropKeeps ==
    ASSUME PresenceInv, NEW a \in AuthRequests,
           \/ \E s \in SessionIds : SetOffline(a, s) \/ ClearSession(a, s)
           \/ GetPresence(a) \/ GetWorkspacePresence(a)
    PROVE  PresenceInv'
<1>1. /\ agg[a] = NoAgg /\ agg' = [agg EXCEPT ![a].at = "list"] /\ UNCHANGED <<online, overtaken>>
      /\ DOMAIN pres' = SessionIds
      /\ \A x \in SessionIds : pres'[x] # "none" => pres[x] # "none" /\ (x \in usess => x \in usess')
  BY DEF SetOffline, ClearSession, removeSessionPresence, GetPresence, GetWorkspacePresence, PresenceInv, PresenceTyped
<1>2. PresenceTyped'
  BY <1>1 DEF PresenceInv, PresenceTyped, AggTyped, NoAgg
<1>3. ASSUME NEW x \in SessionIds, Passed(x)' PROVE Passed(x)
  BY <1>1, <1>3 DEF Passed, PresenceInv, PresenceTyped
<1>4. ASSUME NEW x \in SessionIds \ overtaken', pres'[x] # "none" PROVE Kept(x)'
  BY <1>1, <1>3, <1>4 DEF PresenceInv, Kept
<1> QED BY <1>2, <1>4 DEF PresenceInv

LEMMA ReaderKeeps ==
    ASSUME PresenceInv, NEW a \in AuthRequests,
           aggregateList(a) \/ aggregateClean(a) \/ aggregatePresence(a) \/ \E s \in SessionIds : getSession(a, s)
    PROVE  PresenceInv'
<1> USE DEF PresenceInv
<1>1. CASE aggregateList(a)
  <2>1. PresenceTyped'
    BY <1>1 DEF PresenceTyped, AggTyped, aggregateList
  <2>2. ASSUME NEW x \in SessionIds, x \in usess, Passed(x)' PROVE Passed(x)
    BY <1>1, <2>2 DEF Passed, PresenceTyped, AggTyped, aggregateList
  <2>3. ASSUME NEW x \in SessionIds \ overtaken', pres'[x] # "none" PROVE Kept(x)'
    BY <1>1, <2>2, <2>3 DEF Kept, aggregateList
  <2> QED BY <2>1, <2>3
<1>2. CASE aggregateClean(a)
  <2>1. PresenceTyped'
    BY <1>2 DEF PresenceTyped, AggTyped, aggregateClean
  <2>2. ASSUME NEW x \in SessionIds, Passed(x)' PROVE Passed(x)
    BY <1>2, <2>2, SessionsAssumption DEF Passed, PresenceTyped, AggTyped, aggregateClean
  <2>3. ASSUME NEW x \in SessionIds \ overtaken', pres'[x] # "none" PROVE Kept(x)'
    <3>1. Kept(x) /\ x # agg[a].dead
      BY <1>2, <2>3 DEF Kept, Passed, PresenceTyped, AggTyped, aggregateClean
    <3> QED BY <1>2, <2>2, <3>1 DEF Kept, aggregateClean
  <2> QED BY <2>1, <2>3
<1>3. CASE aggregatePresence(a)
  <2>1. PresenceTyped'
    BY <1>3 DEF PresenceTyped, AggTyped, aggregatePresence, NoAgg
  <2>2. ASSUME NEW x \in SessionIds, Passed(x)' PROVE Passed(x)
    BY <1>3, <2>2 DEF Passed, PresenceTyped, AggTyped, aggregatePresence, NoAgg
  <2>3. ASSUME NEW x \in SessionIds \ overtaken', pres'[x] # "none" PROVE Kept(x)'
    <3>1. Kept(x) /\ agg[a].latest # 0
      BY <1>3, <2>3 DEF Kept, Passed, aggregatePresence
    <3> QED BY <1>3, <2>2, <3>1 DEF Kept, aggregatePresence
  <2> QED BY <2>1, <2>3
<1>4. ASSUME NEW s \in SessionIds, getSession(a, s) PROVE PresenceInv'
  <2> DEFINE dead == IF pres[s] = "none" THEN s ELSE 0
             latest == IF pres[s] = "none" THEN agg[a].latest ELSE s
  <2>1. /\ DOMAIN agg' = AuthRequests /\ \A b \in AuthRequests : b # a => agg'[b] = agg[b]
        /\ agg'[a].at = "visit" /\ agg'[a].todo = agg[a].todo \ {s} /\ agg'[a].dead = dead /\ agg'[a].latest = latest
        /\ DOMAIN agg'[a] = {"at", "todo", "dead", "latest"}
        /\ agg[a].at = "visit" /\ agg[a].dead = 0 /\ UNCHANGED <<pres, usess, online, overtaken>>
    BY <1>4 DEF PresenceTyped, AggTyped, getSession
  <2>2. dead \in {0, s} /\ s # 0 /\ (latest = 0 => agg[a].latest = 0)
    BY SessionsAssumption
  <2>3. pres[s] # "none" => dead = 0 /\ latest # 0
    BY SessionsAssumption
  <2> HIDE DEF dead, latest
  <2>4. PresenceTyped'
    BY <2>1, <2>2 DEF PresenceTyped, AggTyped
  <2>5. ASSUME NEW x \in SessionIds, pres[x] # "none", Passed(x)' PROVE Passed(x)
    <3>1. PICK b \in AuthRequests :
            agg'[b].at = "visit" /\ x \notin agg'[b].todo /\ (agg'[b].dead = x \/ agg'[b].latest = 0)
      BY <2>5 DEF Passed
    <3>2. b # a \/ (x # s /\ x \notin agg[a].todo /\ agg[a].latest = 0)
      BY <2>1, <2>2, <2>3, <2>5, <3>1, SessionsAssumption
    <3> QED BY <2>1, <3>1, <3>2 DEF Passed
  <2>6. ASSUME NEW x \in SessionIds \ overtaken', pres'[x] # "none" PROVE Kept(x)'
    BY <2>1, <2>5, <2>6 DEF Kept
  <2> QED BY <2>4, <2>6
<1> QED BY <1>1, <1>2, <1>3, <1>4

\* For any number of devices and readers: while a session's record lives, no other
\* device that goes offline, no cleanup and no reader takes it from the user's set or
\* the user from the online set, unless a reader had passed it when it last beat.
THEOREM BeatingUserIsOnline == PresenceSpec => []LiveSessionIsOnline
<1>1. SocketsInit => PresenceInv
  <2> SUFFICES ASSUME SocketsInit PROVE PresenceInv
    OBVIOUS
  <2>1. /\ pres = [s \in SessionIds |-> "none"] /\ online = FALSE
        /\ agg = [a \in AuthRequests |-> [at |-> "idle", todo |-> {}, dead |-> 0, latest |-> 0]]
    BY DEF SocketsInit, NoAgg
  <2>2. PresenceTyped
    BY <2>1 DEF PresenceTyped, AggTyped
  <2> QED BY <2>1, <2>2 DEF PresenceInv
<1>2. PresenceInv /\ [PresenceNext]_presenceVars => PresenceInv'
  <2> SUFFICES ASSUME PresenceInv, [PresenceNext]_presenceVars PROVE PresenceInv'
    OBVIOUS
  <2>1. ASSUME NEW s \in SessionIds, Heartbeat(s) \/ SetCustomStatus(s) \/ \E status \in {"online", "away"} : setPresence(s, status)
        PROVE  PresenceInv'
    BY <2>1, SetKeeps DEF Heartbeat, SetCustomStatus
  <2>2. ASSUME NEW s \in SessionIds, PresenceExpire(s) PROVE PresenceInv'
    BY <2>2 DEF PresenceExpire, PresenceInv, PresenceTyped, AggTyped, Kept, Passed
  <2>3. CASE UNCHANGED presenceVars
    BY <2>3 DEF presenceVars, PresenceInv, PresenceTyped, AggTyped, Kept, Passed
  <2> QED BY <2>1, <2>2, <2>3, DropKeeps, ReaderKeeps, ZenonT(30) DEF PresenceNext
<1>3. PresenceInv => LiveSessionIsOnline
  BY DEF PresenceInv, Kept, LiveSessionIsOnline
<1> QED BY <1>1, <1>2, <1>3, PTL DEF PresenceSpec
=============================================================================
