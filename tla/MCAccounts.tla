----------------------------- MODULE MCAccounts -----------------------------
(* An account's sessions, sockets and presence; each behaviour exercises  *)
(* one side, the sockets and presence together with what revokes them.    *)
EXTENDS Sockets

CONSTANTS Sides

VARIABLE side

vars == <<authVars, socketVars, side>>

\* "sockets", "evict" and "presence" start with one session.
Begin ==
    \/ side \in {"tokens", "limits"} /\ SessionsInit
    \/ /\ side \in {"sockets", "evict", "presence"}
       /\ account = "active" /\ rec = [s \in SessionIds |-> IF s = 1 THEN 1 ELSE 0]
       /\ refresh = [t \in Tokens |-> IF t = 1 THEN 1 ELSE 0] /\ grace = [t \in Tokens |-> NoGrace]
       /\ uset = {1} /\ born = {1} /\ expired = {} /\ fresh = 2
       /\ areq = [q \in AuthRequests |-> IdleAuth]
       /\ touches = {} /\ flush = {} /\ revoked = {} /\ announced = {}
       /\ authCount = 0 /\ authFaults = 0 /\ stale = {}

Init == side \in Sides /\ Begin /\ SocketsInit

SideOps ==
    CASE side = "tokens"  -> {"login", "refresh", "logout"}
      [] side = "limits"  -> {"login", "reactivate", "logout_all", "logout_others", "deactivate"}
      [] side = "evict"   -> {"logout"}
      [] OTHER            -> {}

\* Bounds: the requests of a side, touches only where tokens rotate.
SessionStep ==
    /\ side \in {"tokens", "limits", "evict"} /\ SessionsNext
    /\ \A q \in AuthRequests : areq'[q].op \in SideOps \cup {"idle"}
    /\ side # "tokens" => touches' = touches /\ grace' = grace
    /\ side = "tokens" => Cardinality(born') <= 1 /\ uset' \subseteq born'
    /\ side # "tokens" => expired' = expired
    /\ side = "evict" => authCount' <= 1 /\ authFaults' = 0
    /\ UNCHANGED socketVars

\* The first socket is always "c1"; with a revocation, one event and no room lost.
HubStep ==
    /\ side \in {"sockets", "evict"} /\ HubNext
    /\ conn["c1"].at = "none" => conn'["c2"].at = "none"
    /\ side = "evict" => log'["r"] <= 1 /\ access' = access
    /\ UNCHANGED <<authVars, presenceVars>>
PresenceStep ==
    /\ side = "presence" /\ PresenceNext /\ pres'[3] = "none"
    /\ UNCHANGED <<authVars, hubVars>>

Next == (SessionStep \/ HubStep \/ PresenceStep) /\ UNCHANGED side

\* A published revocation reaches the instance.
Fairness ==
    \A s \in SessionIds : WF_vars(side = "evict" /\ EvictSession(s) /\ UNCHANGED <<authVars, presenceVars, side>>)

Spec == Init /\ [][Next]_vars /\ Fairness
=============================================================================
