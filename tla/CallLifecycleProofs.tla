------------------------- MODULE CallLifecycleProofs -------------------------
(* Proofs about the life of a call, for any users, any number of requests   *)
(* in flight, every entry mode and both ways to end.                        *)
EXTENDS CallLifecycle, Breakout, CallControls, TLAPS

-----------------------------------------------------------------------------
(* The inductive invariant, one part for the participant rows, one for the  *)
(* requests and one for the call's own row.                                 *)

RowInv ==
    /\ pstatus \in [Users -> Statuses]
    /\ role \in [Users -> Roles]
    /\ left \in [Users -> LeftAt]
    /\ graced \subseteq Users
    /\ \A u \in Users : pstatus[u] = "absent" <=> role[u] = "none"
    /\ AtMostOneHost
    /\ LeftAtMatchesStatus

\* A row a request holds by id, not marked gone, still exists.
HeldRowsExist == \A r \in Requests : \A u \in Users : Held(r, u) => pstatus[u] # "absent"

\* A leave transaction keeps the row it locked.
LockedRowsHeld ==
    \A r \in Requests : req[r].step \in {"commit", "commitEnd"} => Held(r, req[r].user)

ReqInv == req \in [Requests -> Request] /\ HeldRowsExist /\ LockedRowsHeld

\* A webhook that has yet to publish call.ended is the one that ended the call.
PublisherEnded ==
    \A r \in Requests : req[r].step = "publish" =>
        /\ callStatus = "ended"
        /\ announced = 0
        /\ \A q \in Requests : req[q].step = "publish" => q = r

CallInv ==
    /\ callStatus \in CallStatuses
    /\ endReason \in Reasons
    /\ announced \in Nat
    /\ AnnouncedOnce
    /\ PublisherEnded

IndInv == RowInv /\ ReqInv /\ CallInv /\ approved \subseteq Users

-----------------------------------------------------------------------------
(* What the repository's statements preserve. *)

\* No row disappears.
Grow == \A u \in Users : pstatus[u] # "absent" => pstatus'[u] # "absent"

LEMMA SameRows == RowInv /\ UNCHANGED rowVars => RowInv' /\ Grow
  BY DEF RowInv, rowVars, AtMostOneHost, LeftAtMatchesStatus, Grow

LEMMA UpdateRow ==
    ASSUME RowInv, NEW u \in Users, pstatus[u] # "absent",
           NEW st \in {"invited", "waiting", "connected", "declined"},
           UpdateParticipantStatus(u, st)
    PROVE  RowInv' /\ Grow
  BY DEF RowInv, UpdateParticipantStatus, AtMostOneHost, LeftAtMatchesStatus, Grow,
     Statuses, LeftAt

LEMMA AddRow ==
    ASSUME RowInv, NEW u \in Users, pstatus[u] = "absent",
           NEW st \in {"invited", "waiting", "connected"}, AddParticipant(u, st)
    PROVE  RowInv' /\ Grow
  BY DEF RowInv, AddParticipant, AtMostOneHost, LeftAtMatchesStatus, Grow,
     Statuses, LeftAt, Roles

LEMMA DisconnectRows ==
    ASSUME RowInv, NEW S \in SUBSET Users, \A u \in S : pstatus[u] # "absent",
           pstatus' = Disconnected(pstatus, S), left' = Leaving(left, S), role' = role, Slips(S)
    PROVE  RowInv' /\ Grow
  BY DEF RowInv, Disconnected, Leaving, Slips, AtMostOneHost, LeftAtMatchesStatus, Grow,
     Statuses, LeftAt

LEMMA EndRows ==
    ASSUME RowInv, NEW S \in SUBSET Users, \A u \in S : pstatus[u] # "absent",
           NEW reason, EndAndDisconnect(reason, S)
    PROVE  RowInv' /\ Grow
<1> DEFINE T == S \cup Live(pstatus)
<1>1. T \in SUBSET Users /\ \A u \in T : pstatus[u] # "absent"
  BY DEF Live
<1>2. pstatus' = Disconnected(pstatus, T) /\ left' = Leaving(left, T) /\ role' = role /\ Slips(T)
  BY DEF EndAndDisconnect
<1> HIDE DEF T
<1> QED
  BY <1>1, <1>2, DisconnectRows

-----------------------------------------------------------------------------
(* What the moves of a request preserve. *)

NoNewPublisher == \A q \in Requests : req'[q].step = "publish" => req[q].step = "publish"

LEMMA IdleType == Idle \in Request
  BY CallAssumption DEF Idle, Request, AllOps, Steps

LEMMA SameReq ==
    ASSUME ReqInv, Grow, req' = req
    PROVE  ReqInv' /\ NoNewPublisher
  BY DEF ReqInv, HeldRowsExist, LockedRowsHeld, Held, Grow, NoNewPublisher

LEMMA FinishReq ==
    ASSUME ReqInv, Grow, NEW r \in Requests, Finish(r)
    PROVE  /\ ReqInv'
           /\ NoNewPublisher
           /\ \A q \in Requests : req'[q].step = "publish" => q # r
<1>1. req' \in [Requests -> Request]
  BY IdleType DEF ReqInv, Finish
<1>2. req'[r] = Idle /\ \A q \in Requests : q # r => req'[q] = req[q]
  BY DEF ReqInv, Finish
<1>3. /\ Idle.rows = {} /\ Idle.step = "idle"
  BY DEF Idle
<1> QED
  BY <1>1, <1>2, <1>3 DEF ReqInv, HeldRowsExist, LockedRowsHeld, Held, Grow, NoNewPublisher

LEMMA GotoReq ==
    ASSUME ReqInv, Grow, NEW r \in Requests, NEW step \in Steps, NEW S \in SUBSET Users,
           Goto(r, step, S),
           \A u \in S : u \notin req[r].gone => pstatus'[u] # "absent",
           step \in {"commit", "commitEnd"} => req[r].user \in S \ req[r].gone
    PROVE  /\ ReqInv'
           /\ step # "publish" => NoNewPublisher
           /\ \A q \in Requests : q # r => req'[q] = req[q]
<1>1. req[r] \in Request
  BY DEF ReqInv
<1>2. req' = [req EXCEPT ![r] = [req[r] EXCEPT !.step = step, !.rows = S]]
  BY DEF Goto, ReqInv
<1>3. [req[r] EXCEPT !.step = step, !.rows = S] \in Request
  BY <1>1 DEF Request
<1>4. req' \in [Requests -> Request]
  BY <1>2, <1>3 DEF ReqInv
<1>5. \A q \in Requests : q # r => req'[q] = req[q]
  BY <1>2 DEF ReqInv
<1>6. /\ req'[r].step = step /\ req'[r].rows = S
      /\ req'[r].gone = req[r].gone /\ req'[r].user = req[r].user
  BY <1>1, <1>2 DEF ReqInv, Request
<1>7. HeldRowsExist'
  <2> SUFFICES ASSUME NEW q \in Requests, NEW u \in Users, Held(q, u)'
               PROVE  pstatus'[u] # "absent"
    BY DEF HeldRowsExist
  <2>1. CASE q = r
    BY <2>1, <1>6 DEF Held
  <2>2. CASE q # r
    BY <2>2, <1>5 DEF Held, ReqInv, HeldRowsExist, Grow
  <2> QED
    BY <2>1, <2>2
<1>8. LockedRowsHeld'
  <2> SUFFICES ASSUME NEW q \in Requests, req'[q].step \in {"commit", "commitEnd"}
               PROVE  Held(q, req[q].user)'
    BY DEF LockedRowsHeld
  <2>1. CASE q = r
    BY <2>1, <1>6 DEF Held
  <2>2. CASE q # r
    BY <2>2, <1>5 DEF Held, ReqInv, LockedRowsHeld
  <2> QED
    BY <2>1, <2>2
<1>9. step # "publish" => NoNewPublisher
  BY <1>5, <1>6 DEF NoNewPublisher
<1> QED
  BY <1>4, <1>5, <1>7, <1>8, <1>9 DEF ReqInv

-----------------------------------------------------------------------------
(* What happens to the call's row. *)

LEMMA SameCall ==
    ASSUME CallInv, NoNewPublisher, UNCHANGED callVars
    PROVE  CallInv'
  BY DEF CallInv, callVars, NoNewPublisher, AnnouncedOnce, PublisherEnded

LEMMA ActivateCall ==
    ASSUME CallInv, NoNewPublisher, ActivateRinging \/ callStatus' = callStatus,
           endReason' = endReason, announced' = announced
    PROVE  CallInv'
  BY DEF CallInv, ActivateRinging, NoNewPublisher, AnnouncedOnce, PublisherEnded, CallStatuses

\* Whoever ends the call and announces it in one transaction is the only one.
LEMMA EndCallOnce ==
    ASSUME CallInv, NoNewPublisher, NEW reason \in Reasons, EndWithReason(reason),
           announced' = announced + 1
    PROVE  CallInv'
  BY DEF CallInv, EndWithReason, NoNewPublisher, AnnouncedOnce, PublisherEnded, CallStatuses

-----------------------------------------------------------------------------
(* One step per action. *)

Quiet == UNCHANGED <<callVars, rowVars, approved>>

\* A request that only reads, and then goes on, waits for nothing or gives up.
LEMMA ReadStep ==
    ASSUME IndInv, NEW r \in Requests, Quiet,
           \/ Finish(r)
           \/ \E step \in Steps \ {"publish", "commit", "commitEnd"}, S \in SUBSET Users :
                Goto(r, step, S) /\ \A u \in S : pstatus[u] # "absent"
    PROVE  IndInv'
<1>1. RowInv' /\ Grow /\ UNCHANGED callVars /\ pstatus' = pstatus /\ approved' = approved
  BY SameRows DEF IndInv, Quiet, rowVars
<1>2. ReqInv' /\ NoNewPublisher
  <2>1. CASE Finish(r)
    BY <1>1, <2>1, FinishReq DEF IndInv
  <2>2. ASSUME NEW step \in Steps \ {"publish", "commit", "commitEnd"},
               NEW S \in SUBSET Users, Goto(r, step, S), \A u \in S : pstatus[u] # "absent"
        PROVE  ReqInv' /\ NoNewPublisher
    BY <1>1, <2>2, GotoReq DEF IndInv
  <2> QED
    BY <2>1, <2>2
<1> QED
  BY <1>1, <1>2, SameCall DEF IndInv

\* A request that writes participant rows, leaves the call alone and ends.
LEMMA RowStep ==
    ASSUME IndInv, NEW r \in Requests, RowInv', Grow, Finish(r), UNCHANGED callVars,
           approved' \subseteq Users
    PROVE  IndInv'
  BY FinishReq, SameCall DEF IndInv

\* The same, with the call activated perhaps.
LEMMA ActivateStep ==
    ASSUME IndInv, NEW r \in Requests, RowInv', Grow, Finish(r),
           ActivateRinging \/ callStatus' = callStatus,
           endReason' = endReason, announced' = announced, approved' = approved
    PROVE  IndInv'
  BY FinishReq, ActivateCall DEF IndInv

\* A request that ends the call and announces it.
LEMMA EndStep ==
    ASSUME IndInv, NEW r \in Requests, NEW S \in SUBSET Users,
           \A u \in S : pstatus[u] # "absent",
           NEW reason \in Reasons, EndAndDisconnect(reason, S), announced' = announced + 1,
           Finish(r), approved' = approved
    PROVE  IndInv'
<1>1. RowInv' /\ Grow
  BY EndRows DEF IndInv
<1>2. EndWithReason(reason)
  BY DEF EndAndDisconnect
<1> QED
  BY <1>1, <1>2, FinishReq, EndCallOnce DEF IndInv

LEMMA HeldExists ==
    ASSUME IndInv, NEW r \in Requests, NEW u \in Users, Held(r, u)
    PROVE  pstatus[u] # "absent"
  BY DEF IndInv, ReqInv, HeldRowsExist

LEMMA ReqType ==
    ASSUME IndInv, NEW r \in Requests
    PROVE  /\ req[r] \in Request
           /\ req[r].user \in Users /\ req[r].actor \in Users
           /\ req[r].rows \subseteq Users
  BY DEF IndInv, ReqInv, Request

LEMMA BeginStep ==
    ASSUME IndInv, NEW r \in Requests, NEW op \in AllOps, NEW a \in Users, NEW u \in Users,
           Begin(r, op, a, u)
    PROVE  IndInv'
<1> DEFINE new == [Idle EXCEPT !.op = op, !.actor = a, !.user = u,
                               !.ringing = (callStatus = "ringing"), !.step = FirstStep(op)]
<1>1. req' = [req EXCEPT ![r] = new] /\ Quiet
  BY DEF Begin, Quiet
<1>2. FirstStep(op) \in {"read", "write", "end"}
  BY DEF FirstStep
<1>3. new \in Request /\ new.rows = {} /\ new.step \in {"read", "write", "end"}
  BY <1>2, IdleType DEF Idle, Request, Steps
<1> HIDE DEF new
<1>4. RowInv' /\ Grow /\ UNCHANGED callVars /\ pstatus' = pstatus /\ approved' = approved
  BY <1>1, SameRows DEF IndInv, Quiet, rowVars
<1>5. /\ req' \in [Requests -> Request] /\ req'[r] = new
      /\ \A q \in Requests : q # r => req'[q] = req[q]
  BY <1>1, <1>3 DEF IndInv, ReqInv
<1>6. ReqInv' /\ NoNewPublisher
  BY <1>3, <1>4, <1>5
  DEF IndInv, ReqInv, HeldRowsExist, LockedRowsHeld, Held, NoNewPublisher
<1> QED
  BY <1>4, <1>6, SameCall DEF IndInv

LEMMA JoinStep ==
    ASSUME IndInv, NEW r \in Requests, JoinNext(r)
    PROVE  IndInv'
<1> DEFINE u == req[r].user
<1>0. u \in Users
  BY ReqType
<1>1. CASE JoinRead(r)
  <2>1. Quiet
    BY <1>1 DEF JoinRead, Quiet
  <2>2. \/ Finish(r)
        \/ \E step \in Steps \ {"publish", "commit", "commitEnd"}, S \in SUBSET Users :
             Goto(r, step, S) /\ \A v \in S : pstatus[v] # "absent"
    BY <1>0, <1>1 DEF JoinRead, Steps
  <2> QED
    BY <2>1, <2>2, ReadStep
<1>2. CASE JoinInsert(r)
  <2>1. RowInv' /\ Grow
    BY <1>0, <1>2, AddRow, SameRows DEF JoinInsert, IndInv
  <2>2. Finish(r) /\ endReason' = endReason /\ announced' = announced /\ approved' = approved
    BY <1>2 DEF JoinInsert
  <2>3. ActivateRinging \/ callStatus' = callStatus
    BY <1>2 DEF JoinInsert, ActivateRinging
  <2> QED
    BY <2>1, <2>2, <2>3, ActivateStep
<1>3. CASE JoinAccept(r)
  <2>1. RowInv' /\ Grow
    BY <1>0, <1>3, UpdateRow, SameRows, HeldExists DEF JoinAccept, IndInv
  <2>2. Finish(r) /\ endReason' = endReason /\ announced' = announced /\ approved' = approved
    BY <1>3 DEF JoinAccept
  <2>3. ActivateRinging \/ callStatus' = callStatus
    BY <1>3 DEF JoinAccept
  <2> QED
    BY <2>1, <2>2, <2>3, ActivateStep
<1>4. CASE JoinUpdate(r)
  <2>1. RowInv' /\ Grow
    <3>1. CASE ~Held(r, u)
      BY <1>4, <3>1, SameRows DEF JoinUpdate, IndInv
    <3>2. CASE Held(r, u)
      <4>1. PICK st \in {"waiting", "connected"} : UpdateParticipantStatus(u, st)
        BY <1>4, <3>2 DEF JoinUpdate
      <4> QED
        BY <1>0, <3>2, <4>1, UpdateRow, HeldExists DEF IndInv
    <3> QED
      BY <3>1, <3>2
  <2>2. Finish(r) /\ UNCHANGED callVars /\ approved' \subseteq Users
    BY <1>4, CallAssumption DEF JoinUpdate, IndInv
  <2> QED
    BY <2>1, <2>2, RowStep
<1> QED
  BY <1>1, <1>2, <1>3, <1>4 DEF JoinNext

\* Deleting a row marks it gone for every request that holds its id.
LEMMA DeleteStep ==
    ASSUME IndInv, NEW r \in Requests, NEW u \in Users, pstatus[u] # "absent",
           DeleteRow(r, u), UNCHANGED callVars, approved' = approved
    PROVE  IndInv'
<1>1. RowInv'
  BY DEF IndInv, RowInv, DeleteRow, AtMostOneHost, LeftAtMatchesStatus, Statuses, Roles, LeftAt
<1> DEFINE marked(q) == [req[q] EXCEPT !.gone = @ \cup ({u} \cap req[q].rows)]
<1>2. ASSUME NEW q \in Requests, q # r
      PROVE  /\ req'[q] = marked(q) /\ marked(q) \in Request
             /\ marked(q).step = req[q].step /\ marked(q).user = req[q].user
             /\ marked(q).rows = req[q].rows
             /\ marked(q).gone = req[q].gone \cup ({u} \cap req[q].rows)
  BY <1>2 DEF DeleteRow, IndInv, ReqInv, Request
<1>3. req'[r] = Idle /\ Idle.rows = {} /\ Idle.step = "idle"
  BY DEF DeleteRow, Idle
<1>4. req' \in [Requests -> Request]
  <2>1. \A q \in Requests : req'[q] \in Request
    BY <1>2, <1>3, IdleType
  <2>2. req' = [q \in Requests |-> req'[q]]
    BY DEF DeleteRow
  <2> QED
    BY <2>1, <2>2
<1> HIDE DEF marked
<1>5. HeldRowsExist'
  <2> SUFFICES ASSUME NEW q \in Requests, NEW v \in Users, Held(q, v)'
               PROVE  pstatus'[v] # "absent"
    BY DEF HeldRowsExist
  <2>1. q # r
    BY <1>3 DEF Held
  <2>2. Held(q, v) /\ v # u
    BY <1>2, <2>1 DEF Held
  <2> QED
    BY <2>2, HeldExists DEF DeleteRow, IndInv, RowInv
<1>6. LockedRowsHeld'
  <2> SUFFICES ASSUME NEW q \in Requests, req'[q].step \in {"commit", "commitEnd"}
               PROVE  Held(q, req[q].user)'
    BY DEF LockedRowsHeld
  <2>1. q # r
    BY <1>3
  <2>2. req[q].step \in {"commit", "commitEnd"} /\ req'[q].user = req[q].user
    BY <1>2, <2>1
  <2>3. Held(q, req[q].user) /\ req[q].user \in Users
    BY <2>2, ReqType DEF IndInv, ReqInv, LockedRowsHeld
  <2>4. req[q].user # u
    BY <2>2, <2>3 DEF DeleteRow, Locked
  <2> QED
    BY <1>2, <2>1, <2>2, <2>3, <2>4 DEF Held
<1>7. NoNewPublisher
  BY <1>2, <1>3 DEF NoNewPublisher
<1> QED
  BY <1>1, <1>4, <1>5, <1>6, <1>7, SameCall DEF IndInv, ReqInv

LEMMA RoomStep ==
    ASSUME IndInv, NEW r \in Requests, RoomNext(r)
    PROVE  IndInv'
<1> DEFINE u == req[r].user
<1>0. u \in Users
  BY ReqType
<1>1. CASE AdmitRead(r)
  <2>1. Quiet
    BY <1>1 DEF AdmitRead, Quiet
  <2>2. \/ Finish(r)
        \/ \E step \in Steps \ {"publish", "commit", "commitEnd"}, S \in SUBSET Users :
             Goto(r, step, S) /\ \A v \in S : pstatus[v] # "absent"
    BY <1>0, <1>1 DEF AdmitRead, Steps
  <2> QED
    BY <2>1, <2>2, ReadStep
<1>2. ASSUME NEW v \in Users, AdmitWrite(r, v) PROVE IndInv'
  <2>1. CASE Held(r, v)
    <3>1. /\ UpdateParticipantStatus(v, "connected") /\ UNCHANGED callVars
          /\ approved' = approved \cup ({v} \cap Guests) /\ Goto(r, "write", req[r].rows \ {v})
      BY <1>2, <2>1 DEF AdmitWrite
    <3>2. RowInv' /\ Grow
      BY <2>1, <3>1, UpdateRow, HeldExists DEF IndInv
    <3>3. \A w \in req[r].rows \ {v} : w \notin req[r].gone => pstatus'[w] # "absent"
      BY <3>2, ReqType, HeldExists DEF Held, Grow
    <3>4. ReqInv' /\ NoNewPublisher
      BY <3>1, <3>2, <3>3, ReqType, GotoReq DEF IndInv, Steps
    <3> QED
      BY <3>1, <3>2, <3>4, SameCall DEF IndInv
  <2>2. CASE ~Held(r, v)
    <3>1. /\ UNCHANGED <<callVars, rowVars, approved>>
          /\ Finish(r) \/ Goto(r, "write", req[r].rows \ {v})
      BY <1>2, <2>2 DEF AdmitWrite
    <3>2. RowInv' /\ Grow
      BY <3>1, SameRows DEF IndInv
    <3>3. \A w \in req[r].rows \ {v} : w \notin req[r].gone => pstatus'[w] # "absent"
      BY <3>2, ReqType, HeldExists DEF Held, Grow
    <3>4. ReqInv' /\ NoNewPublisher
      BY <3>1, <3>2, <3>3, ReqType, GotoReq, FinishReq DEF IndInv, Steps
    <3> QED
      BY <3>1, <3>2, <3>4, SameCall DEF IndInv
  <2> QED
    BY <2>1, <2>2
<1>3. CASE AdmitActivate(r)
  <2>1. RowInv' /\ Grow
    BY <1>3, SameRows DEF AdmitActivate, IndInv
  <2> QED
    BY <1>3, <2>1, ActivateStep DEF AdmitActivate
<1>4. CASE RejectRead(r)
  <2>1. Quiet
    BY <1>4 DEF RejectRead, Quiet
  <2>2. \/ Finish(r)
        \/ \E step \in Steps \ {"publish", "commit", "commitEnd"}, S \in SUBSET Users :
             Goto(r, step, S) /\ \A v \in S : pstatus[v] # "absent"
    BY <1>0, <1>4 DEF RejectRead, Steps
  <2> QED
    BY <2>1, <2>2, ReadStep
<1>5. CASE RejectWrite(r)
  <2>1. CASE u \notin Guests /\ pstatus[u] # "absent"
    BY <1>0, <1>5, <2>1, DeleteStep DEF RejectWrite
  <2>2. CASE ~(u \notin Guests /\ pstatus[u] # "absent")
    <3>1. Finish(r) /\ UNCHANGED callVars /\ approved' \subseteq Users
      BY <1>5, <2>2 DEF RejectWrite, IndInv
    <3>2. RowInv' /\ Grow
      BY <1>0, <1>5, <2>2, UpdateRow, SameRows, HeldExists DEF RejectWrite, IndInv
    <3> QED
      BY <3>1, <3>2, RowStep
  <2> QED
    BY <2>1, <2>2
<1>6. CASE InviteRead(r)
  <2>1. Quiet
    BY <1>6 DEF InviteRead, Quiet
  <2>2. \/ Finish(r)
        \/ \E step \in Steps \ {"publish", "commit", "commitEnd"}, S \in SUBSET Users :
             Goto(r, step, S) /\ \A v \in S : pstatus[v] # "absent"
    BY <1>0, <1>6 DEF InviteRead, Steps
  <2> QED
    BY <2>1, <2>2, ReadStep
<1>7. CASE InviteWrite(r)
  <2>1. Finish(r) /\ UNCHANGED callVars /\ approved' \subseteq Users
    BY <1>7 DEF InviteWrite, IndInv
  <2>2. RowInv' /\ Grow
    BY <1>0, <1>7, AddRow, UpdateRow, SameRows, HeldExists DEF InviteWrite, IndInv
  <2> QED
    BY <2>1, <2>2, RowStep
<1>8. CASE DeclineRead(r)
  <2>1. Quiet
    BY <1>8 DEF DeclineRead, Quiet
  <2>2. \/ Finish(r)
        \/ \E step \in Steps \ {"publish", "commit", "commitEnd"}, S \in SUBSET Users :
             Goto(r, step, S) /\ \A v \in S : pstatus[v] # "absent"
    BY <1>0, <1>8 DEF DeclineRead, Steps
  <2> QED
    BY <2>1, <2>2, ReadStep
<1>9. CASE DeclineWrite(r)
  <2>1. Finish(r) /\ UNCHANGED callVars /\ approved' \subseteq Users
    BY <1>9 DEF DeclineWrite, IndInv
  <2>2. RowInv' /\ Grow
    BY <1>0, <1>9, UpdateRow, SameRows, HeldExists DEF DeclineWrite, IndInv
  <2> QED
    BY <2>1, <2>2, RowStep
<1> QED
  BY <1>1, <1>2, <1>3, <1>4, <1>5, <1>6, <1>7, <1>8, <1>9 DEF RoomNext

LEMMA LeaveStep ==
    ASSUME IndInv, NEW r \in Requests, LeaveNext(r)
    PROVE  IndInv'
<1> DEFINE u == req[r].user
<1>0. u \in Users
  BY ReqType
<1>1. CASE LeaveRead(r)
  <2>1. Quiet
    BY <1>1 DEF LeaveRead, Quiet
  <2>2. \/ Finish(r)
        \/ \E step \in Steps \ {"publish", "commit", "commitEnd"}, S \in SUBSET Users :
             Goto(r, step, S) /\ \A v \in S : pstatus[v] # "absent"
    BY <1>0, <1>1 DEF LeaveRead, Steps
  <2> QED
    BY <2>1, <2>2, ReadStep
<1>2. CASE LeaveLock(r)
  <2>1. Quiet
    BY <1>2 DEF LeaveLock, Quiet
  <2>2. RowInv' /\ Grow /\ UNCHANGED callVars /\ approved' = approved /\ pstatus' = pstatus
    BY <2>1, SameRows DEF IndInv, Quiet, rowVars
  <2>3. CASE Finish(r)
    BY <2>1, <2>3, ReadStep
  <2>4. CASE ~Finish(r)
    <3>1. Held(r, u) /\ (Goto(r, "commit", {u}) \/ Goto(r, "commitEnd", {u}))
      BY <1>2, <2>4 DEF LeaveLock
    <3>2. u \notin req[r].gone /\ pstatus[u] # "absent"
      BY <1>0, <3>1, HeldExists DEF Held
    <3>3. ReqInv' /\ NoNewPublisher
      BY <1>0, <2>2, <3>1, <3>2, GotoReq DEF IndInv, Steps
    <3> QED
      BY <2>2, <3>3, SameCall DEF IndInv
  <2> QED
    BY <2>3, <2>4
<1>3. CASE LeaveCommit(r)
  <2>1. pstatus[u] # "absent"
    BY <1>0, <1>3, HeldExists DEF LeaveCommit, IndInv, ReqInv, LockedRowsHeld
  <2>2. CASE EndAndDisconnect("all_left", {u}) /\ announced' = announced + 1
    BY <1>0, <1>3, <2>1, <2>2, EndStep DEF LeaveCommit, Reasons
  <2>3. CASE ~(EndAndDisconnect("all_left", {u}) /\ announced' = announced + 1)
    <3>1. /\ pstatus' = Disconnected(pstatus, {u}) /\ left' = Leaving(left, {u})
          /\ role' = role /\ Slips({u}) /\ UNCHANGED callVars /\ Finish(r) /\ approved' = approved
      BY <1>3, <2>3 DEF LeaveCommit
    <3>2. RowInv' /\ Grow
      BY <1>0, <2>1, <3>1, DisconnectRows DEF IndInv
    <3> QED
      BY <3>1, <3>2, RowStep DEF IndInv
  <2> QED
    BY <2>2, <2>3
<1>4. CASE EndRead(r)
  <2>1. Quiet
    BY <1>4 DEF EndRead, Quiet
  <2>2. \/ Finish(r)
        \/ \E step \in Steps \ {"publish", "commit", "commitEnd"}, S \in SUBSET Users :
             Goto(r, step, S) /\ \A v \in S : pstatus[v] # "absent"
    BY <1>0, <1>4 DEF EndRead, Steps
  <2> QED
    BY <2>1, <2>2, ReadStep
<1>5. CASE EndWrite(r)
  <2>1. CASE EndAndDisconnect("host_ended", {}) /\ announced' = announced + 1
    BY <1>5, <2>1, EndStep DEF EndWrite, Reasons
  <2>2. CASE ~(EndAndDisconnect("host_ended", {}) /\ announced' = announced + 1)
    BY <1>5, <2>2, ReadStep DEF EndWrite, Quiet
  <2> QED
    BY <2>1, <2>2
<1>6. CASE CancelWrite(r)
  <2>1. CASE EndAndDisconnect("cancelled", {}) /\ announced' = announced + 1
    BY <1>6, <2>1, EndStep DEF CancelWrite, Reasons
  <2>2. CASE ~(EndAndDisconnect("cancelled", {}) /\ announced' = announced + 1)
    BY <1>6, <2>2, ReadStep DEF CancelWrite, Quiet
  <2> QED
    BY <2>1, <2>2
<1> QED
  BY <1>1, <1>2, <1>3, <1>4, <1>5, <1>6 DEF LeaveNext

\* Changing roles: existing rows keep a role, and at most one of them is host.
LEMMA RoleRows ==
    ASSUME RowInv, UNCHANGED <<pstatus, left, graced>>, role' \in [Users -> Roles], AtMostOneHost',
           \A u \in Users : role'[u] = "none" <=> role[u] = "none"
    PROVE  RowInv' /\ Grow
  BY DEF RowInv, LeftAtMatchesStatus, Grow

LEMMA RoleStep ==
    ASSUME IndInv, NEW r \in Requests, RoleNext(r)
    PROVE  IndInv'
<1> DEFINE u == req[r].user
<1>0. u \in Users
  BY ReqType
<1>1. CASE RoleRead(r)
  <2>1. Quiet
    BY <1>1 DEF RoleRead, Quiet
  <2>2. \/ Finish(r)
        \/ \E step \in Steps \ {"publish", "commit", "commitEnd"}, S \in SUBSET Users :
             Goto(r, step, S) /\ \A v \in S : pstatus[v] # "absent"
    BY <1>0, <1>1 DEF RoleRead, Steps
  <2> QED
    BY <2>1, <2>2, ReadStep
<1>2. CASE RoleWrite(r)
  <2>1. Finish(r) /\ UNCHANGED callVars /\ approved' \subseteq Users /\ UNCHANGED <<pstatus, left, graced>>
    BY <1>2 DEF RoleWrite, IndInv
  <2>2. \/ role' = role
        \/ Held(r, u) /\ \E new \in {"co_host", "participant"} : role' = [role EXCEPT ![u] = new]
    BY <1>2 DEF RoleWrite
  <2>3. CASE role' = role
    BY <2>1, <2>3, SameRows, RowStep DEF IndInv, rowVars
  <2>4. ASSUME NEW new \in {"co_host", "participant"}, Held(r, u), role' = [role EXCEPT ![u] = new]
        PROVE  IndInv'
    <3>1. pstatus[u] # "absent"
      BY <1>0, <2>4, HeldExists
    <3>2. /\ role' \in [Users -> Roles] /\ AtMostOneHost'
          /\ \A v \in Users : role'[v] = "none" <=> role[v] = "none"
      BY <1>0, <2>4, <3>1 DEF IndInv, RowInv, AtMostOneHost, Roles
    <3> QED
      BY <2>1, <3>2, RoleRows, RowStep DEF IndInv
  <2> QED
    BY <2>2, <2>3, <2>4
<1>3. CASE TransferRead(r)
  <2>1. Quiet
    BY <1>3 DEF TransferRead, Quiet
  <2>2. \/ Finish(r)
        \/ \E step \in Steps \ {"publish", "commit", "commitEnd"}, S \in SUBSET Users :
             Goto(r, step, S) /\ \A v \in S : pstatus[v] # "absent"
    BY <1>0, <1>3 DEF TransferRead, Steps
  <2> QED
    BY <2>1, <2>2, ReadStep
<1>4. CASE TransferWrite(r)
  <2> DEFINE a == req[r].actor
  <2>1. Finish(r) /\ UNCHANGED callVars /\ approved' \subseteq Users /\ UNCHANGED <<pstatus, left, graced>>
    BY <1>4 DEF TransferWrite, IndInv
  <2>2. CASE ~Transferable(a, u)
    BY <1>4, <2>1, <2>2, SameRows, RowStep DEF IndInv, rowVars, TransferWrite
  <2>3. CASE Transferable(a, u)
    <3>1. role' = [role EXCEPT ![a] = "participant", ![u] = "host"]
      BY <1>4, <2>3 DEF TransferWrite
    <3>2. a \in Users /\ role[a] = "host" /\ role[u] # "host" /\ pstatus[u] = "connected"
      BY <2>3, ReqType DEF Transferable
    <3>3. /\ role' \in [Users -> Roles] /\ AtMostOneHost'
          /\ \A v \in Users : role'[v] = "none" <=> role[v] = "none"
      BY <1>0, <3>1, <3>2 DEF IndInv, RowInv, AtMostOneHost, Roles
    <3> QED
      BY <2>1, <3>3, RoleRows, RowStep DEF IndInv
  <2> QED
    BY <2>2, <2>3
<1>5. CASE RemoveRead(r)
  <2>1. Quiet
    BY <1>5 DEF RemoveRead, Quiet
  <2>2. \/ Finish(r)
        \/ \E step \in Steps \ {"publish", "commit", "commitEnd"}, S \in SUBSET Users :
             Goto(r, step, S) /\ \A v \in S : pstatus[v] # "absent"
    BY <1>0, <1>5 DEF RemoveRead, Steps
  <2> QED
    BY <2>1, <2>2, ReadStep
<1>6. CASE RemoveWrite(r)
  <2>1. Finish(r) /\ UNCHANGED callVars /\ approved' \subseteq Users
    BY <1>6 DEF RemoveWrite, IndInv
  <2>2. CASE Held(r, u)
    <3>1. pstatus[u] # "absent"
      BY <1>0, <2>2, HeldExists
    <3>2. RowInv' /\ Grow
      BY <1>0, <1>6, <2>2, <3>1, DisconnectRows DEF RemoveWrite, DisconnectIfConnected, IndInv
    <3> QED
      BY <2>1, <3>2, RowStep
  <2>3. CASE ~Held(r, u)
    BY <1>6, <2>1, <2>3, SameRows, RowStep DEF RemoveWrite, IndInv
  <2> QED
    BY <2>2, <2>3
<1> QED
  BY <1>1, <1>2, <1>3, <1>4, <1>5, <1>6 DEF RoleNext

LEMMA HookStep ==
    ASSUME IndInv, NEW r \in Requests, HookNext(r)
    PROVE  IndInv'
<1> DEFINE u == req[r].user
<1>0. u \in Users
  BY ReqType
<1>1. CASE HookJoinedRead(r)
  <2>1. Quiet
    BY <1>1 DEF HookJoinedRead, Quiet
  <2>2. \/ Finish(r)
        \/ \E step \in Steps \ {"publish", "commit", "commitEnd"}, S \in SUBSET Users :
             Goto(r, step, S) /\ \A v \in S : pstatus[v] # "absent"
    BY <1>0, <1>1 DEF HookJoinedRead, Steps
  <2> QED
    BY <2>1, <2>2, ReadStep
<1>2. CASE HookJoinedActivate(r)
  <2>1. RowInv' /\ Grow
    BY <1>2, SameRows DEF HookJoinedActivate, IndInv
  <2> QED
    BY <1>2, <2>1, ActivateStep DEF HookJoinedActivate
<1>3. CASE HookLeftRead(r)
  <2>1. Quiet
    BY <1>3 DEF HookLeftRead, Quiet
  <2>2. \/ Finish(r)
        \/ \E step \in Steps \ {"publish", "commit", "commitEnd"}, S \in SUBSET Users :
             Goto(r, step, S) /\ \A v \in S : pstatus[v] # "absent"
    BY <1>0, <1>3 DEF HookLeftRead, Steps
  <2> QED
    BY <2>1, <2>2, ReadStep
<1>4. CASE HookLeftWrite(r)
  <2>1. CASE ~Held(r, u)
    BY <1>4, <2>1, ReadStep DEF HookLeftWrite, Quiet
  <2>2. CASE Held(r, u)
    <3>1. /\ DisconnectIfConnected(u) /\ Goto(r, "autoEnd", {})
          /\ UNCHANGED callVars /\ approved' = approved
      BY <1>4, <2>2 DEF HookLeftWrite
    <3>2. RowInv' /\ Grow
      BY <1>0, <2>2, <3>1, HeldExists, DisconnectRows DEF DisconnectIfConnected, IndInv
    <3>3. ReqInv' /\ NoNewPublisher
      BY <3>1, <3>2, GotoReq DEF IndInv, Steps
    <3> QED
      BY <3>1, <3>2, <3>3, SameCall DEF IndInv
  <2> QED
    BY <2>1, <2>2
<1>5. CASE HookAutoEnd(r)
  <2>1. Quiet
    BY <1>5 DEF HookAutoEnd, Quiet
  <2>2. \/ Finish(r)
        \/ \E step \in Steps \ {"publish", "commit", "commitEnd"}, S \in SUBSET Users :
             Goto(r, step, S) /\ \A v \in S : pstatus[v] # "absent"
    BY <1>0, <1>5 DEF HookAutoEnd, Steps
  <2> QED
    BY <2>1, <2>2, ReadStep
<1>6. CASE HookEnd(r)
  <2>1. CASE ~(EndAndDisconnect("all_left", {}) /\ Goto(r, "publish", {}))
    BY <1>6, <2>1, ReadStep DEF HookEnd, Quiet, callVars
  <2>2. CASE EndAndDisconnect("all_left", {}) /\ Goto(r, "publish", {})
    <3>1. RowInv' /\ Grow /\ announced' = announced /\ approved' = approved
      BY <1>6, <2>2, EndRows DEF HookEnd, IndInv
    <3>2. ReqInv' /\ \A q \in Requests : q # r => req'[q] = req[q]
      BY <2>2, <3>1, GotoReq DEF IndInv, Steps
    <3>3. EndWithReason("all_left")
      BY <2>2 DEF EndAndDisconnect
    <3>4. CallInv'
      BY <3>1, <3>2, <3>3
      DEF IndInv, CallInv, EndWithReason, AnnouncedOnce, PublisherEnded, CallStatuses, Reasons
    <3> QED
      BY <3>1, <3>2, <3>4 DEF IndInv
  <2> QED
    BY <2>1, <2>2
<1>7. CASE HookPublish(r)
  <2>1. Finish(r) /\ announced' = announced + 1 /\ UNCHANGED <<callStatus, endReason, rowVars, approved>>
    BY <1>7 DEF HookPublish
  <2>2. RowInv' /\ Grow
    BY <2>1, SameRows DEF IndInv
  <2>3. /\ ReqInv' /\ NoNewPublisher
        /\ \A q \in Requests : req'[q].step = "publish" => q # r
    BY <2>1, <2>2, FinishReq DEF IndInv
  <2>4. CallInv'
    BY <1>7, <2>1, <2>3
    DEF HookPublish, IndInv, CallInv, AnnouncedOnce, PublisherEnded, NoNewPublisher
  <2> QED
    BY <2>1, <2>2, <2>3, <2>4 DEF IndInv
<1>8. CASE SweepWrite(r)
  <2> DEFINE S == {v \in Users : pstatus[v] # "absent"}
             reason == IF callStatus = "ringing" THEN "missed" ELSE "all_left"
  <2>1. CASE EndAndDisconnect(reason, S) /\ announced' = announced + 1
    <3>1. reason \in Reasons /\ S \in SUBSET Users /\ \A v \in S : pstatus[v] # "absent"
      BY DEF Reasons
    <3>2. Finish(r) /\ approved' = approved
      BY <1>8 DEF SweepWrite
    <3> HIDE DEF S, reason
    <3> QED
      BY <2>1, <3>1, <3>2, EndStep
  <2>2. CASE ~(EndAndDisconnect(reason, S) /\ announced' = announced + 1)
    BY <1>8, <2>2, ReadStep DEF SweepWrite, Quiet
  <2> QED
    BY <2>1, <2>2
<1> QED
  BY <1>1, <1>2, <1>3, <1>4, <1>5, <1>6, <1>7, <1>8 DEF HookNext

-----------------------------------------------------------------------------
(* The call's row moves forward, and before StartCall there is nothing.     *)

Forward ==
    \/ UNCHANGED <<callStatus, endReason>>
    \/ callStatus = "ringing" /\ callStatus' = "active" /\ endReason' = endReason
    \/ callStatus \in {"ringing", "active"} /\ callStatus' = "ended"

LEMMA RequestForward ==
    ASSUME NEW r \in Requests, RequestNext(r)
    PROVE  Forward
<1>1. ASSUME NEW op \in AllOps, NEW a \in Users, NEW u \in Users, Begin(r, op, a, u)
      PROVE  Forward
  BY <1>1 DEF Begin, callVars, Forward
<1>2. CASE JoinNext(r)
  BY <1>2 DEF JoinNext, JoinRead, JoinInsert, JoinAccept, JoinUpdate, ActivateRinging,
     callVars, Forward
<1>3. CASE RoomNext(r)
  BY <1>3 DEF RoomNext, AdmitRead, AdmitWrite, AdmitActivate, RejectRead, RejectWrite,
     InviteRead, InviteWrite, DeclineRead, DeclineWrite, ActivateRinging, callVars, Forward
<1>4. CASE LeaveNext(r)
  BY <1>4 DEF LeaveNext, LeaveRead, LeaveLock, LeaveCommit, EndRead, EndWrite, CancelWrite,
     EndAndDisconnect, EndWithReason, callVars, Forward
<1>5. CASE RoleNext(r)
  BY <1>5 DEF RoleNext, RoleRead, RoleWrite, TransferRead, TransferWrite, RemoveRead,
     RemoveWrite, callVars, Forward
<1>6. CASE HookNext(r)
  BY <1>6 DEF HookNext, HookJoinedRead, HookJoinedActivate, HookLeftRead, HookLeftWrite,
     HookAutoEnd, HookEnd, HookPublish, SweepWrite, ActivateRinging, EndAndDisconnect,
     EndWithReason, callVars, Forward
<1>7. CASE Abort(r)
  BY <1>7 DEF Abort, callVars, Forward
<1> QED
  BY <1>1, <1>2, <1>3, <1>4, <1>5, <1>6, <1>7 DEF RequestNext

\* Until the call is started it has no participants and no requests.
NotStarted ==
    callStatus = "none" => /\ \A u \in Users : pstatus[u] = "absent" /\ left[u] = "none"
                           /\ \A r \in Requests : req[r] = Idle

\* Only Begin moves an idle request, and it needs a call.
LEMMA IdleWaits ==
    ASSUME NEW r \in Requests, req[r] = Idle, RequestNext(r)
    PROVE  callStatus # "none"
<1>1. req[r].op = "none" /\ req[r].step = "idle"
  BY DEF Idle
<1>2. ~JoinNext(r)
  BY <1>1 DEF JoinNext, JoinRead, JoinInsert, JoinAccept, JoinUpdate, At
<1>3. ~RoomNext(r)
  BY <1>1 DEF RoomNext, AdmitRead, AdmitWrite, AdmitActivate, RejectRead, RejectWrite,
     InviteRead, InviteWrite, DeclineRead, DeclineWrite, At
<1>4. ~LeaveNext(r)
  BY <1>1 DEF LeaveNext, LeaveRead, LeaveLock, LeaveCommit, EndRead, EndWrite, CancelWrite, At
<1>5. ~RoleNext(r)
  BY <1>1 DEF RoleNext, RoleRead, RoleWrite, TransferRead, TransferWrite, RemoveRead,
     RemoveWrite, At
<1>6. ~HookNext(r)
  BY <1>1 DEF HookNext, HookJoinedRead, HookJoinedActivate, HookLeftRead, HookLeftWrite,
     HookAutoEnd, HookEnd, HookPublish, SweepWrite, At
<1>7. ~Abort(r)
  BY DEF Abort
<1>8. PICK op \in AllOps, a \in Users, u \in Users : Begin(r, op, a, u)
  BY <1>2, <1>3, <1>4, <1>5, <1>6, <1>7 DEF RequestNext
<1> QED
  BY <1>8 DEF Begin

-----------------------------------------------------------------------------
(* The invariant is inductive. *)

Inv == IndInv /\ NotStarted

LEMMA IndInit == Init => Inv
<1> SUFFICES ASSUME Init PROVE Inv
  OBVIOUS
<1>1. RowInv
  BY DEF Init, RowInv, Statuses, Roles, LeftAt, AtMostOneHost, LeftAtMatchesStatus
<1>2. ReqInv
  BY IdleType DEF Init, ReqInv, HeldRowsExist, LockedRowsHeld, Held, Idle
<1>3. CallInv
  BY DEF Init, CallInv, CallStatuses, Reasons, AnnouncedOnce, PublisherEnded, Idle
<1>4. NotStarted
  BY DEF Init, NotStarted
<1> QED
  BY <1>1, <1>2, <1>3, <1>4 DEF Inv, IndInv, Init

LEMMA RequestStep ==
    ASSUME Inv, NEW r \in Requests, RequestNext(r)
    PROVE  Inv'
<1>0. IndInv /\ callStatus # "none"
  BY IdleWaits DEF Inv, NotStarted
<1>1. NotStarted'
  BY <1>0, RequestForward DEF Forward, NotStarted
<1>2. CASE Abort(r)
  BY <1>0, <1>1, <1>2, ReadStep DEF Abort, Quiet, Inv
<1> QED
  BY <1>0, <1>1, <1>2, BeginStep, JoinStep, RoomStep, LeaveStep, RoleStep, HookStep
  DEF RequestNext, Inv

LEMMA StartStep == Inv /\ StartCall => Inv'
<1> SUFFICES ASSUME Inv, StartCall PROVE Inv'
  OBVIOUS
<1>1. \A u \in Users : pstatus[u] = "absent" /\ role[u] = "none"
  BY DEF Inv, NotStarted, StartCall, IndInv, RowInv
<1>2. RowInv' /\ Grow
  BY <1>1, CallAssumption
  DEF Inv, IndInv, RowInv, StartCall, Statuses, Roles, LeftAt, AtMostOneHost,
      LeftAtMatchesStatus, Grow, NotStarted
<1>3. ReqInv' /\ NoNewPublisher
  BY <1>2, SameReq DEF Inv, IndInv, StartCall
<1>4. CallInv'
  BY <1>3 DEF Inv, IndInv, CallInv, StartCall, CallStatuses, AnnouncedOnce, PublisherEnded,
     NoNewPublisher
<1> QED
  BY <1>2, <1>3, <1>4 DEF Inv, IndInv, NotStarted, StartCall

LEMMA IndStep == Inv /\ [Next]_vars => Inv'
<1> SUFFICES ASSUME Inv, [Next]_vars PROVE Inv'
  OBVIOUS
<1>1. CASE StartCall
  BY <1>1, StartStep
<1>2. ASSUME NEW r \in Requests, RequestNext(r) PROVE Inv'
  BY <1>2, RequestStep
<1>3. ASSUME NEW u \in Users, GraceExpires(u) PROVE Inv'
  <2>1. RowInv' /\ Grow
    BY <1>3 DEF GraceExpires, Inv, IndInv, RowInv, LeftAt, AtMostOneHost, LeftAtMatchesStatus,
       Grow
  <2>2. ReqInv' /\ NoNewPublisher
    BY <1>3, <2>1, SameReq DEF GraceExpires, Inv, IndInv
  <2> QED
    BY <1>3, <2>1, <2>2, SameCall DEF GraceExpires, Inv, IndInv, NotStarted, callVars
<1>4. CASE UNCHANGED vars
  <2>1. RowInv' /\ Grow
    BY <1>4, SameRows DEF vars, rowVars, Inv, IndInv
  <2>2. ReqInv' /\ NoNewPublisher
    BY <1>4, <2>1, SameReq DEF vars, Inv, IndInv
  <2> QED
    BY <1>4, <2>1, <2>2, SameCall DEF vars, Inv, IndInv, NotStarted, callVars
<1> QED
  BY <1>1, <1>2, <1>3, <1>4 DEF Next

LEMMA Inductive == Spec => []Inv
  BY IndInit, IndStep, PTL DEF Spec

-----------------------------------------------------------------------------
(* Theorems. *)

\* Every reachable state is well typed; a participant row has a role exactly
\* while it exists.
THEOREM TypeCorrect == Spec => []TypeOK
<1>1. Inv => TypeOK
  BY DEF Inv, IndInv, RowInv, ReqInv, CallInv, TypeOK
<1> QED
  BY <1>1, Inductive, PTL

\* Whatever transfers, role changes, rejects and joins race, the repository's
\* statements never leave two hosts in a call.
THEOREM SingleHost == Spec => []AtMostOneHost
<1>1. Inv => AtMostOneHost
  BY DEF Inv, IndInv, RowInv
<1> QED
  BY <1>1, Inductive, PTL

\* Of all the handlers that race to end a call at most one enqueues call.ended,
\* and it does so after the call has ended.
THEOREM EndAnnouncedOnce == Spec => []AnnouncedOnce
<1>1. Inv => AnnouncedOnce
  BY DEF Inv, IndInv, CallInv
<1> QED
  BY <1>1, Inductive, PTL

\* left_at is NULL while a participant is connected and set once it is
\* disconnected, so every departed guest has a time to measure the grace from.
THEOREM LeftAtConsistent == Spec => []LeftAtMatchesStatus
<1>1. Inv => LeftAtMatchesStatus
  BY DEF Inv, IndInv, RowInv
<1> QED
  BY <1>1, Inductive, PTL

\* No step takes a call back from active to ringing, reopens an ended one or
\* changes why it ended.
THEOREM CallIsMonotone == Spec => CallMovesForward
<1>1. [Next]_vars => [/\ callStatus = "ended" => callStatus' = "ended" /\ endReason' = endReason
                      /\ callStatus = "active" => callStatus' \in {"active", "ended"}]_vars
  <2> SUFFICES ASSUME [Next]_vars
               PROVE  /\ callStatus = "ended" => callStatus' = "ended" /\ endReason' = endReason
                      /\ callStatus = "active" => callStatus' \in {"active", "ended"}
    OBVIOUS
  <2>1. CASE StartCall
    BY <2>1 DEF StartCall
  <2>2. ASSUME NEW r \in Requests, RequestNext(r) PROVE Forward
    BY <2>2, RequestForward
  <2>3. CASE \E u \in Users : GraceExpires(u)
    BY <2>3 DEF GraceExpires, callVars
  <2>4. CASE UNCHANGED vars
    BY <2>4 DEF vars
  <2> QED
    BY <2>1, <2>2, <2>3, <2>4 DEF Next, Forward
<1> QED
  BY <1>1, PTL DEF Spec, CallMovesForward

-----------------------------------------------------------------------------
(* The waiting room holds guests: only a moderator, or the grace of a        *)
(* reconnect, lets one in, and only members skip it when they accept an      *)
(* invitation.  A guest who may use the grace was admitted before, or is one *)
(* of graced; so is one whose join has already read that the grace is on.    *)

Covered == approved \cup graced

GuestInv ==
    /\ GuestsAreApproved
    /\ \A g \in Guests : left[g] = "recent" => g \in Covered
    /\ \A r \in Requests : req[r].step = "reconnect" /\ req[r].user \in Guests => req[r].user \in Covered
    /\ \A r \in Requests : At(r, "join", "accept") => req[r].user \notin Guests

\* No cover is lost, and nobody without it is connected or gets a fresh left_at.
Kept ==
    /\ Covered \subseteq Covered'
    /\ \A g \in Guests \ Covered' : /\ pstatus'[g] = "connected" => pstatus[g] = "connected"
                                    /\ left'[g] = "recent" => left[g] = "recent"

\* The request is over or goes on with a step that connects nobody.
MovesOn(r) ==
    Finish(r) \/ \E step \in Steps \ {"accept", "reconnect"}, S \in SUBSET Users : Goto(r, step, S)

LEMMA SameKept == UNCHANGED <<pstatus, left, graced, approved>> => Kept
  BY DEF Kept, Covered

LEMMA UpdateKept ==
    ASSUME RowInv, NEW u \in Users, NEW st, UpdateParticipantStatus(u, st),
           approved \subseteq approved', st # "connected" \/ u \notin Guests \/ u \in Covered'
    PROVE  Kept
  BY DEF RowInv, UpdateParticipantStatus, Kept, Covered

LEMMA AddKept ==
    ASSUME RowInv, NEW u \in Users, NEW st, AddParticipant(u, st), approved' = approved,
           st # "connected" \/ u \notin Guests
    PROVE  Kept
  BY DEF RowInv, AddParticipant, Kept, Covered

LEMMA DisconnectKept ==
    ASSUME RowInv, NEW S, pstatus' = Disconnected(pstatus, S), left' = Leaving(left, S), Slips(S),
           approved' = approved
    PROVE  Kept
  BY CallAssumption DEF RowInv, Disconnected, Leaving, Slips, Kept, Covered

LEMMA EndKept ==
    ASSUME RowInv, NEW S, NEW reason, EndAndDisconnect(reason, S), approved' = approved
    PROVE  Kept
  BY DisconnectKept DEF EndAndDisconnect

\* The other requests keep their steps, and this one's connects nobody.
LEMMA KeptHolds ==
    ASSUME IndInv, GuestInv, Kept, NEW r \in Requests,
           \A q \in Requests \ {r} : /\ req'[q].op = req[q].op /\ req'[q].step = req[q].step
                                     /\ req'[q].user = req[q].user,
           req'[r].step \notin {"accept", "reconnect"}
    PROVE  GuestInv'
  BY DEF GuestInv, Kept, GuestsAreApproved, At, Covered

LEMMA MovesOnHolds ==
    ASSUME IndInv, GuestInv, Kept, NEW r \in Requests, MovesOn(r)
    PROVE  GuestInv'
<1>1. req \in [Requests -> Request]
  BY DEF IndInv, ReqInv
<1>2. \A q \in Requests \ {r} : req'[q] = req[q]
  BY <1>1 DEF MovesOn, Finish, Goto
<1>3. req'[r].step \notin {"accept", "reconnect"}
  <2>1. CASE Finish(r)
    BY <1>1, <2>1 DEF Finish, Idle
  <2>2. ASSUME NEW step \in Steps \ {"accept", "reconnect"}, NEW S, Goto(r, step, S)
        PROVE  req'[r].step \notin {"accept", "reconnect"}
    <3>1. req'[r].step = step
      BY <1>1, <2>2 DEF Goto, Request
    <3> QED BY <3>1
  <2> QED BY <2>1, <2>2 DEF MovesOn
<1> QED BY <1>2, <1>3, KeptHolds

LEMMA JoinGuest ==
    ASSUME IndInv, GuestInv, NEW r \in Requests, JoinNext(r)
    PROVE  GuestInv'
<1> DEFINE u == req[r].user
<1>0. /\ u \in Users /\ RowInv /\ req \in [Requests -> Request]
      /\ Guests \subseteq Users
  BY ReqType, CallAssumption DEF IndInv, ReqInv
<1>1. CASE JoinRead(r)
  <2>1. UNCHANGED <<pstatus, left, graced, approved>> /\ \A q \in Requests \ {r} : req'[q] = req[q]
    BY <1>0, <1>1 DEF JoinRead, rowVars, Finish, Goto
  <2>2. req'[r].step \in {"accept", "reconnect"} => req'[r].user = u
    BY <1>0, <1>1 DEF JoinRead, Finish, Goto, Idle, Request
  <2>3. req'[r].step = "accept" => u \notin Guests
    BY <1>0, <1>1 DEF JoinRead, Finish, Goto, Idle, Request
  <2>4. req'[r].step = "reconnect" /\ u \in Guests => pstatus[u] = "connected" \/ left[u] = "recent"
    BY <1>0, <1>1 DEF JoinRead, Finish, Goto, Idle, Request, guestWithinReconnectGrace
  <2> QED BY <2>1, <2>2, <2>3, <2>4 DEF GuestInv, GuestsAreApproved, At, Covered
<1>2. CASE JoinInsert(r)
  <2>1. Kept
    BY <1>0, <1>2, SameKept, AddKept DEF JoinInsert, Knocks, rowVars
  <2> QED BY <1>2, <2>1, MovesOnHolds DEF JoinInsert, MovesOn
<1>3. CASE JoinAccept(r)
  <2>1. u \notin Guests
    BY <1>3 DEF JoinAccept, GuestInv
  <2>2. Kept
    BY <1>0, <1>3, <2>1, SameKept, UpdateKept DEF JoinAccept, rowVars
  <2> QED BY <1>3, <2>2, MovesOnHolds DEF JoinAccept, MovesOn
<1>4. CASE JoinUpdate(r)
  <2>1. CASE ~Held(r, u)
    <3>1. Kept
      BY <1>4, <2>1, SameKept DEF JoinUpdate, rowVars
    <3> QED BY <1>4, <3>1, MovesOnHolds DEF JoinUpdate, MovesOn
  <2>2. CASE Held(r, u)
    <3>1. PICK st : /\ UpdateParticipantStatus(u, st)
                    /\ st = "connected" => req[r].step = "reconnect"
      BY <1>4, <2>2 DEF JoinUpdate
    <3>2. approved' = approved /\ graced' = graced
      BY <1>4, <3>1 DEF JoinUpdate, UpdateParticipantStatus
    <3>3. st # "connected" \/ u \notin Guests \/ u \in Covered'
      BY <3>1, <3>2 DEF GuestInv, Covered
    <3>4. Kept
      BY <1>0, <3>1, <3>2, <3>3, UpdateKept
    <3> QED BY <1>4, <3>4, MovesOnHolds DEF JoinUpdate, MovesOn
  <2> QED BY <2>1, <2>2
<1> QED BY <1>1, <1>2, <1>3, <1>4 DEF JoinNext

LEMMA RoomGuest ==
    ASSUME IndInv, GuestInv, NEW r \in Requests, RoomNext(r)
    PROVE  GuestInv'
<1> DEFINE u == req[r].user
<1>0. /\ u \in Users /\ req[r].rows \subseteq Users /\ RowInv /\ req \in [Requests -> Request]
  BY ReqType DEF IndInv, ReqInv
<1>1. CASE AdmitRead(r) \/ AdmitActivate(r) \/ RejectRead(r) \/ InviteRead(r) \/ DeclineRead(r)
  <2>1. Kept
    BY <1>1, SameKept DEF AdmitRead, AdmitActivate, RejectRead, InviteRead, DeclineRead, rowVars
  <2>2. MovesOn(r)
    BY <1>0, <1>1 DEF AdmitRead, AdmitActivate, RejectRead, InviteRead, DeclineRead, MovesOn, Steps
  <2> QED BY <2>1, <2>2, MovesOnHolds
<1>2. ASSUME NEW v \in Users, AdmitWrite(r, v) PROVE GuestInv'
  <2>1. Kept
    <3>1. CASE UNCHANGED <<rowVars, approved>>
      BY <3>1, SameKept DEF rowVars
    <3>2. CASE UpdateParticipantStatus(v, "connected") /\ approved' = approved \cup ({v} \cap Guests)
      <4>1. v \notin Guests \/ v \in Covered'
        BY <3>2 DEF Covered
      <4> QED BY <1>0, <3>2, <4>1, UpdateKept
    <3> QED BY <1>2, <3>1, <3>2 DEF AdmitWrite
  <2>2. MovesOn(r)
    BY <1>0, <1>2 DEF AdmitWrite, MovesOn, Steps
  <2> QED BY <2>1, <2>2, MovesOnHolds
<1>3. CASE RejectWrite(r)
  <2>1. CASE DeleteRow(r, u) /\ u \notin Guests
    <3>1. approved' = approved
      BY <1>3 DEF RejectWrite
    <3>2. Kept
      BY <1>0, <2>1, <3>1 DEF DeleteRow, RowInv, Kept, Covered
    <3>3. \A q \in Requests \ {r} : req'[q].op = req[q].op /\ req'[q].step = req[q].step /\ req'[q].user = req[q].user
      BY <1>0, <2>1 DEF DeleteRow, Request
    <3>4. req'[r].step = "idle"
      BY <2>1 DEF DeleteRow, Idle
    <3> QED BY <3>2, <3>3, <3>4, KeptHolds
  <2>2. CASE ~(DeleteRow(r, u) /\ u \notin Guests)
    <3>1. Kept
      BY <1>0, <1>3, <2>2, SameKept, UpdateKept DEF RejectWrite, rowVars
    <3> QED BY <1>3, <2>2, <3>1, MovesOnHolds DEF RejectWrite, MovesOn
  <2> QED BY <2>1, <2>2
<1>4. CASE InviteWrite(r) \/ DeclineWrite(r)
  <2>1. Kept
    BY <1>0, <1>4, SameKept, UpdateKept, AddKept DEF InviteWrite, DeclineWrite, rowVars
  <2> QED BY <1>4, <2>1, MovesOnHolds DEF InviteWrite, DeclineWrite, MovesOn
<1> QED BY <1>1, <1>2, <1>3, <1>4 DEF RoomNext

LEMMA LeaveGuest ==
    ASSUME IndInv, GuestInv, NEW r \in Requests, LeaveNext(r) \/ RoleNext(r)
    PROVE  GuestInv'
<1>0. req[r].user \in Users /\ RowInv
  BY ReqType DEF IndInv
<1>1. MovesOn(r)
  <2>1. CASE LeaveNext(r)
    BY <1>0, <2>1 DEF LeaveNext, LeaveRead, LeaveLock, LeaveCommit, EndRead, EndWrite, CancelWrite, MovesOn, Steps
  <2>2. CASE RoleNext(r)
    BY <1>0, <2>2 DEF RoleNext, RoleRead, RoleWrite, TransferRead, TransferWrite, RemoveRead, RemoveWrite, MovesOn, Steps
  <2> QED BY <2>1, <2>2
<1>2. ASSUME LeaveRead(r) \/ LeaveLock(r) \/ EndRead(r) \/ RoleRead(r) \/ RoleWrite(r) \/ TransferRead(r) \/ TransferWrite(r) \/ RemoveRead(r) PROVE Kept
  BY <1>2, SameKept DEF LeaveRead, LeaveLock, EndRead, RoleRead, RoleWrite, TransferRead, TransferWrite, RemoveRead, rowVars
<1>3. ASSUME LeaveCommit(r) PROVE Kept
  <2>1. ASSUME EndAndDisconnect("all_left", {req[r].user}) PROVE Kept
    BY <1>0, <1>3, <2>1, EndKept DEF LeaveCommit
  <2>2. ASSUME ~EndAndDisconnect("all_left", {req[r].user}) PROVE Kept
    BY <1>0, <1>3, <2>2, DisconnectKept DEF LeaveCommit
  <2> QED BY <2>1, <2>2
<1>4. ASSUME EndWrite(r) PROVE Kept
  BY <1>0, <1>4, SameKept, EndKept DEF EndWrite, rowVars
<1>5. ASSUME CancelWrite(r) PROVE Kept
  BY <1>0, <1>5, SameKept, EndKept DEF CancelWrite, rowVars
<1>6. ASSUME RemoveWrite(r) PROVE Kept
  BY <1>0, <1>6, SameKept, DisconnectKept DEF RemoveWrite, DisconnectIfConnected, rowVars
<1> QED BY <1>1, <1>2, <1>3, <1>4, <1>5, <1>6, MovesOnHolds DEF LeaveNext, RoleNext

LEMMA HookGuest ==
    ASSUME IndInv, GuestInv, NEW r \in Requests, HookNext(r)
    PROVE  GuestInv'
<1>0. req[r].user \in Users /\ RowInv
  BY ReqType DEF IndInv
<1>1. MovesOn(r)
  BY <1>0 DEF HookNext, HookJoinedRead, HookJoinedActivate, HookLeftRead, HookLeftWrite, HookAutoEnd,
              HookEnd, HookPublish, SweepWrite, MovesOn, Steps
<1>2. ASSUME HookJoinedRead(r) \/ HookJoinedActivate(r) \/ HookLeftRead(r) \/ HookAutoEnd(r) \/ HookPublish(r) PROVE Kept
  BY <1>2, SameKept DEF HookJoinedRead, HookJoinedActivate, HookLeftRead, HookAutoEnd, HookPublish, rowVars
<1>3. ASSUME HookLeftWrite(r) PROVE Kept
  BY <1>0, <1>3, SameKept, DisconnectKept DEF HookLeftWrite, DisconnectIfConnected, rowVars
<1>4. ASSUME HookEnd(r) PROVE Kept
  BY <1>0, <1>4, SameKept, EndKept DEF HookEnd, rowVars
<1>5. ASSUME SweepWrite(r) PROVE Kept
  <2>1. approved' = approved
    BY <1>5 DEF SweepWrite
  <2>2. UNCHANGED rowVars \/ \E reason, S : EndAndDisconnect(reason, S)
    BY <1>5 DEF SweepWrite
  <2> QED BY <1>0, <2>1, <2>2, SameKept, EndKept DEF rowVars
<1> QED BY <1>1, <1>2, <1>3, <1>4, <1>5, MovesOnHolds DEF HookNext

LEMMA GuestNext == Inv /\ GuestInv /\ [Next]_vars => GuestInv'
<1> SUFFICES ASSUME Inv, GuestInv, [Next]_vars PROVE GuestInv'
  OBVIOUS
<1>0. /\ IndInv /\ RowInv /\ req \in [Requests -> Request]
      /\ Guests \subseteq Users /\ Creator \notin Guests
  BY CallAssumption DEF Inv, IndInv, ReqInv
<1>1. ASSUME NEW r \in Requests, NEW op \in AllOps, NEW a \in Users, NEW u \in Users, Begin(r, op, a, u)
      PROVE  GuestInv'
  <2>1. Kept
    BY <1>1, SameKept DEF Begin, rowVars
  <2>2. \A q \in Requests \ {r} : req'[q] = req[q]
    BY <1>0, <1>1 DEF Begin
  <2>3. req'[r].step = FirstStep(op)
    BY <1>0, <1>1 DEF Begin, Idle
  <2>4. FirstStep(op) \notin {"accept", "reconnect"}
    BY DEF FirstStep
  <2> QED BY <1>0, <2>1, <2>2, <2>3, <2>4, KeptHolds
<1>2. ASSUME NEW r \in Requests, Abort(r) PROVE GuestInv'
  <2>1. Kept
    BY <1>2, SameKept DEF Abort, rowVars
  <2> QED BY <1>0, <1>2, <2>1, MovesOnHolds DEF Abort, MovesOn
<1>3. CASE StartCall
  BY <1>0, <1>3 DEF StartCall, GuestInv, GuestsAreApproved, At, Covered, RowInv
<1>4. ASSUME NEW u \in Users, GraceExpires(u) PROVE GuestInv'
  <2>1. /\ pstatus' = pstatus /\ req' = req /\ approved' = approved \ {u}
        /\ left[u] = "recent" /\ left' = [left EXCEPT ![u] = "old"]
        /\ graced' = IF Reconnecting(u) THEN graced \cup {u} ELSE graced \ {u}
    BY <1>4 DEF GraceExpires, callVars
  <2>2. pstatus[u] # "connected"
    BY <1>0, <2>1 DEF RowInv, LeftAtMatchesStatus
  <2>3. \A v : v # u => (v \in Covered' <=> v \in Covered)
    BY <2>1 DEF Covered
  <2>4. Reconnecting(u) => u \in Covered'
    BY <2>1 DEF Covered
  <2>5. \A g \in Guests : pstatus'[g] = "connected" => g \in Covered'
    BY <2>1, <2>2, <2>3 DEF GuestInv, GuestsAreApproved, Covered
  <2>6. \A g \in Guests : left'[g] = "recent" => g \in Covered'
    BY <1>0, <2>1, <2>3 DEF GuestInv, RowInv
  <2>7. \A r \in Requests : req'[r].step = "reconnect" /\ req'[r].user \in Guests => req'[r].user \in Covered'
    BY <2>1, <2>3, <2>4 DEF GuestInv, Reconnecting
  <2> QED BY <2>1, <2>5, <2>6, <2>7 DEF GuestInv, GuestsAreApproved, At, Covered
<1>5. CASE UNCHANGED vars
  BY <1>5 DEF vars, GuestInv, GuestsAreApproved, At, Covered
<1> QED
  BY <1>0, <1>1, <1>2, <1>3, <1>4, <1>5, JoinGuest, RoomGuest, LeaveGuest, HookGuest DEF Next, RequestNext

\* In every entry mode, for any users and any number of requests in flight: a guest
\* in the call was admitted by a host or a co-host and has not been out of it for
\* longer than the grace since, but for those that left the waiting room itself
\* within the grace and those whose join read the row while it was still on.
THEOREM GuestsKnock == Spec => []GuestsAreApproved
<1>1. Init => GuestInv
  BY CallAssumption DEF Init, GuestInv, At, Idle, GuestsAreApproved
<1>2. GuestInv => GuestsAreApproved
  BY DEF GuestInv
<1> QED BY <1>1, <1>2, GuestNext, Inductive, PTL DEF Spec

-----------------------------------------------------------------------------
(* Breakout rooms.  A report of a leave that was made by a client which is  *)
(* still there never matches the assignment it was made under: the client   *)
(* moved to the room it is assigned to, or its user crossed.                *)

Places == BRooms \cup {"main", "gone"}
Assigned == BRooms \cup {"none"}
LeaveReport == [u : BUsers, from : BRooms \cup {"main"}, ver : Nat]

AsksOK(x) ==
    /\ DOMAIN x = {"op", "u", "r", "at", "todo", "id"}
    /\ x.u \in BUsers /\ x.r \in Assigned /\ (x.op \in {"join", "assign", "preassign"} => x.r \in BRooms)

BreakoutTyped ==
    /\ member \in [BUsers -> [on : BOOLEAN, room : Assigned, ver : Nat]]
    /\ client \in [BUsers -> Places]
    /\ lefts \subseteq LeaveReport
    /\ \A h \in lefts : h.ver <= member[h.u].ver
    /\ \A x \in breq : AsksOK(x)

\* The report is taken for a leave of the call.
Counts(h) == IF h.from = "main" THEN member[h.u].room = "none" ELSE member[h.u].room = h.from

ReportsAreTrue ==
    \A h \in lefts : h.ver = member[h.u].ver /\ Counts(h) => client[h.u] = "gone" \/ h.u \in crossed

StayInv ==
    /\ BreakoutTyped /\ ReportsAreTrue
    /\ \A u \in BUsers : ~member[u].on => client[u] = "gone" \/ u \in crossed

LEMMA StayInit == BreakoutInit => StayInv
BY BreakoutAssumption DEF BreakoutInit, StayInv, BreakoutTyped, ReportsAreTrue, Places, Assigned, LeaveReport

\* Nobody who is gone comes back, no user that crossed is forgotten, and a room
\* is only ever exchanged for another with a new version.
Onward ==
    /\ \A u \in BUsers : client[u] = "gone" => client'[u] = "gone"
    /\ crossed \subseteq crossed'
    /\ \A u \in BUsers : /\ member'[u].ver >= member[u].ver
                         /\ member'[u].room # member[u].room => member'[u].ver > member[u].ver

LEMMA ReportsStay ==
    ASSUME StayInv, BreakoutTyped', Onward,
           \A h \in lefts' \ lefts : client'[h.u] = "gone" \/ h.u \in crossed' \/ ~Counts(h)'
    PROVE  ReportsAreTrue'
<1> SUFFICES ASSUME NEW h \in lefts', h.ver = member'[h.u].ver, Counts(h)'
             PROVE  client'[h.u] = "gone" \/ h.u \in crossed'
  BY DEF ReportsAreTrue
<1>1. CASE h \in lefts
  <2>1. /\ h.u \in BUsers /\ h.ver \in Nat /\ h.ver <= member[h.u].ver
        /\ member[h.u].ver \in Nat /\ member'[h.u].ver \in Nat
    BY <1>1 DEF StayInv, BreakoutTyped, LeaveReport
  <2>2. h.ver = member[h.u].ver /\ member'[h.u].room = member[h.u].room
    BY <2>1 DEF Onward
  <2>3. Counts(h)
    BY <2>2 DEF Counts
  <2> QED BY <1>1, <2>1, <2>2, <2>3 DEF StayInv, ReportsAreTrue, Onward
<1>2. CASE h \notin lefts
  BY <1>2
<1> QED BY <1>1, <1>2

\* Assignments change, and nothing else that matters.
LEMMA PutKeeps ==
    ASSUME StayInv, NEW us, NEW r \in Assigned, member' = Put(us, r) \/ member' = member,
           UNCHANGED <<client, lefts, crossed>>,
           \A x \in breq' : AsksOK(x)
    PROVE  StayInv'
<1>1. /\ member' \in [BUsers -> [on : BOOLEAN, room : Assigned, ver : Nat]]
      /\ \A u \in BUsers : /\ member'[u].on = member[u].on /\ member'[u].ver >= member[u].ver
                           /\ member'[u].room # member[u].room => member'[u].ver > member[u].ver
  <2>1. CASE member' = member
    BY <2>1 DEF StayInv, BreakoutTyped
  <2>2. CASE member' = Put(us, r)
    <3>1. ASSUME NEW u \in BUsers
          PROVE  /\ member'[u] \in [on : BOOLEAN, room : Assigned, ver : Nat]
                 /\ member'[u].on = member[u].on /\ member'[u].ver >= member[u].ver
                 /\ member'[u].room # member[u].room => member'[u].ver > member[u].ver
      <4>1. member[u] \in [on : BOOLEAN, room : Assigned, ver : Nat]
        BY DEF StayInv, BreakoutTyped
      <4>2. member'[u] = member[u] \/ member'[u] = [member[u] EXCEPT !.room = r, !.ver = @ + 1]
        BY <2>2 DEF Put
      <4>3. CASE member'[u] = [member[u] EXCEPT !.room = r, !.ver = @ + 1]
        <5>1. member'[u] = [on |-> member[u].on, room |-> r, ver |-> member[u].ver + 1]
          BY <4>1, <4>3
        <5> QED BY <4>1, <5>1
      <4> QED BY <4>1, <4>2, <4>3
    <3>2. member' = [u \in BUsers |-> member'[u]]
      BY <2>2 DEF Put
    <3> QED BY <3>1, <3>2
  <2> QED BY <2>1, <2>2
<1>2. Onward
  BY <1>1 DEF Onward
<1>3. BreakoutTyped'
  <2>1. \A h \in lefts : h.ver <= member'[h.u].ver
    BY <1>1 DEF StayInv, BreakoutTyped, LeaveReport
  <2> QED BY <1>1, <2>1 DEF StayInv, BreakoutTyped
<1>4. ReportsAreTrue'
  BY <1>2, <1>3, ReportsStay
<1> QED BY <1>1, <1>3, <1>4 DEF StayInv

\* Clients move or go.
LEMMA MovesKeep ==
    ASSUME StayInv, UNCHANGED member, client' \in [BUsers -> Places], crossed \subseteq crossed', breq' \subseteq breq,
           lefts' \subseteq LeaveReport,
           \A u \in BUsers : client[u] = "gone" => client'[u] = "gone",
           \A h \in lefts' \ lefts : /\ h.ver = member[h.u].ver
                                     /\ client'[h.u] = "gone" \/ h.u \in crossed' \/ ~Counts(h)
    PROVE  StayInv'
<1>1. BreakoutTyped'
  <2>1. \A h \in lefts' : h.ver <= member[h.u].ver
    BY DEF StayInv, BreakoutTyped, LeaveReport
  <2> QED BY <2>1 DEF StayInv, BreakoutTyped
<1>2. Onward
  BY DEF Onward, StayInv, BreakoutTyped
<1>3. ReportsAreTrue'
  BY <1>1, <1>2, ReportsStay DEF Counts
<1> QED BY <1>1, <1>3 DEF StayInv

\* A report is taken at its word.
LEMMA ReportKeeps ==
    ASSUME StayInv, NEW h \in lefts, NEW room \in Assigned, NEW ver \in Nat, Counts(h),
           member' = [member EXCEPT ![h.u] = [on |-> FALSE, room |-> room, ver |-> ver]],
           \/ room = member[h.u].room /\ ver = member[h.u].ver
           \/ ver > member[h.u].ver,
           crossed' = IF h.ver # member[h.u].ver THEN crossed \cup {h.u} ELSE crossed,
           UNCHANGED <<client, breq>>, lefts' \subseteq lefts
    PROVE  StayInv'
<1>1. /\ h.u \in BUsers /\ member' \in [BUsers -> [on : BOOLEAN, room : Assigned, ver : Nat]]
      /\ member'[h.u].ver = ver /\ member'[h.u].room = room
      /\ \A u \in BUsers \ {h.u} : member'[u] = member[u]
      /\ \A u \in BUsers : member[u].ver \in Nat
  BY DEF StayInv, BreakoutTyped, LeaveReport
<1>2. Onward
  BY <1>1 DEF Onward
<1>3. BreakoutTyped'
  <2>1. \A k \in lefts' : k.ver <= member'[k.u].ver
    BY <1>1, <1>2 DEF StayInv, BreakoutTyped, LeaveReport, Onward
  <2> QED BY <1>1, <2>1 DEF StayInv, BreakoutTyped
<1>4. ReportsAreTrue'
  BY <1>2, <1>3, ReportsStay
<1>5. client[h.u] = "gone" \/ h.u \in crossed'
  BY DEF StayInv, ReportsAreTrue
<1> QED BY <1>1, <1>3, <1>4, <1>5 DEF StayInv

\* Every step of the breakout rooms keeps the invariant.
LEMMA StayNext == StayInv /\ [BreakoutNext]_breakoutVars => StayInv'
<1> SUFFICES ASSUME StayInv, [BreakoutNext]_breakoutVars PROVE StayInv'
  OBVIOUS
<1> USE BreakoutAssumption
<1>0. \A x \in breq : AsksOK(x)
  BY DEF StayInv, BreakoutTyped
<1>1. ASSUME UNCHANGED <<member, client, lefts, crossed>>, \A x \in breq' : AsksOK(x) PROVE StayInv'
  BY <1>1, PutKeeps DEF Assigned
<1>2. ASSUME NEW r \in BRooms, NEW u \in BUsers, NEW limit \in BOOLEAN, CreateBreakoutRooms(r, limit, u) PROVE StayInv'
  <2>1. \A x \in breq' : AsksOK(x)
    BY <1>0, <1>2 DEF CreateBreakoutRooms, Begins, Req, Assigned, AsksOK
  <2> QED BY <1>1, <1>2, <2>1 DEF CreateBreakoutRooms
<1>3. ASSUME NEW r \in BRooms, NEW u \in BUsers, JoinBreakoutRoom(u, r) \/ AssignParticipantToRoom(u, r) PROVE StayInv'
  <2>1. \A x \in breq' : AsksOK(x)
    BY <1>0, <1>3 DEF JoinBreakoutRoom, AssignParticipantToRoom, Begins, Req, Assigned, AsksOK
  <2> QED BY <1>1, <1>3, <2>1 DEF JoinBreakoutRoom, AssignParticipantToRoom
<1>4. ASSUME NEW r \in BRooms, CloseBreakoutRoom(r) \/ TimerFires(r) \/ ClosesAtPasses(r) PROVE StayInv'
  <2>1. \A x \in breq' : AsksOK(x)
    BY <1>0, <1>4 DEF CloseBreakoutRoom, TimerFires, ClosesAtPasses, Begins, Req, Assigned, AsksOK
  <2> QED BY <1>1, <1>4, <2>1 DEF CloseBreakoutRoom, TimerFires, ClosesAtPasses
<1>5. ASSUME CloseAllBreakoutRooms \/ CloseExpiredBreakoutRooms PROVE StayInv'
  <2>1. \A x \in breq' : AsksOK(x)
    BY <1>0, <1>5 DEF CloseAllBreakoutRooms, CloseExpiredBreakoutRooms, Begins, Req, Assigned, AsksOK
  <2> QED BY <1>1, <1>5, <2>1 DEF CloseAllBreakoutRooms, CloseExpiredBreakoutRooms
<1>6. ASSUME NEW u \in BUsers, ReturnToMainRoom(u) PROVE StayInv'
  <2>1. \A x \in breq' : AsksOK(x)
    BY <1>0, <1>6 DEF ReturnToMainRoom, Begins, Req, Assigned, AsksOK
  <2> QED BY <1>1, <1>6, <2>1 DEF ReturnToMainRoom
<1>7. ASSUME NEW x \in breq, AssignParticipant(x) \/ UnassignParticipant(x) PROVE StayInv'
  <2>1. \A y \in breq' : AsksOK(y)
    BY <1>0, <1>7 DEF AssignParticipant, UnassignParticipant, Goes, Ends, AsksOK
  <2>2. "none" \in Assigned /\ x.r \in Assigned
    BY <1>0 DEF Assigned, AsksOK
  <2>3. \E r \in Assigned : member' = Put({x.u}, r) \/ member' = member
    BY <1>7, <2>2 DEF AssignParticipant, UnassignParticipant
  <2> QED BY <1>7, <2>1, <2>3, PutKeeps DEF AssignParticipant, UnassignParticipant
<1>8. ASSUME NEW x \in breq, NEW r \in BRooms, scheduleBreakoutLiveKitDelete(x, r) PROVE StayInv'
  <2>1. \A y \in breq' : AsksOK(y)
    BY <1>0, <1>8 DEF scheduleBreakoutLiveKitDelete, Goes, AsksOK
  <2>2. \E us : member' = Put(us, "none") \/ member' = member
    BY <1>8 DEF scheduleBreakoutLiveKitDelete
  <2>3. "none" \in Assigned
    BY DEF Assigned
  <2> QED BY <1>8, <2>1, <2>2, <2>3, PutKeeps DEF scheduleBreakoutLiveKitDelete
<1>9. ASSUME NEW x \in breq, CloseAllByCall(x) PROVE StayInv'
  <2>1. \A y \in breq' : AsksOK(y)
    BY <1>0, <1>9 DEF CloseAllByCall, Ends
  <2> QED BY <1>1, <1>9, <2>1 DEF CloseAllByCall
<1>10. ASSUME NEW x \in breq, x.op = "join", EnsureLiveKitBreakoutRoom(x) PROVE StayInv'
  <2>1. \A y \in breq' : AsksOK(y)
    BY <1>0, <1>10 DEF EnsureLiveKitBreakoutRoom, Goes, AsksOK
  <2> QED BY <1>1, <1>10, <2>1 DEF EnsureLiveKitBreakoutRoom
<1>11. ASSUME NEW x \in breq, NEW to \in BRooms \cup {"main"}, x.u \in BUsers, member' = member, breq' \subseteq breq,
              client[x.u] # "gone", Moves(x.u, to),
              crossed' = IF member[x.u].room # (IF to = "main" THEN "none" ELSE to) THEN crossed \cup {x.u} ELSE crossed
       PROVE  StayInv'
  <2>1. client' \in [BUsers -> Places] /\ \A u \in BUsers : client[u] = "gone" => client'[u] = "gone"
    BY <1>11 DEF Moves, StayInv, BreakoutTyped, Places
  <2>2. crossed \subseteq crossed'
    BY <1>11
  <2>3. lefts' = lefts \/ (client[x.u] # to /\ lefts' = lefts \cup {[u |-> x.u, from |-> client[x.u], ver |-> member[x.u].ver]})
    BY <1>11 DEF Moves
  <2>4. client[x.u] \in BRooms \cup {"main"} /\ member[x.u].ver \in Nat
    BY <1>11 DEF StayInv, BreakoutTyped, Places
  <2>5. lefts' \subseteq LeaveReport
    BY <1>11, <2>3, <2>4 DEF StayInv, BreakoutTyped, LeaveReport
  <2>6. \A h \in lefts' \ lefts : /\ h.ver = member[h.u].ver
                                  /\ h.u \in crossed' \/ ~Counts(h)
    <3> TAKE h \in lefts' \ lefts
    <3>1. h.u = x.u /\ h.from = client[x.u] /\ h.ver = member[x.u].ver /\ client[x.u] # to
      BY <2>3
    <3>2. x.u \notin crossed' => member[x.u].room = (IF to = "main" THEN "none" ELSE to)
      BY <1>11
    <3> QED BY <2>4, <3>1, <3>2 DEF Counts
  <2> QED BY <1>11, <2>1, <2>2, <2>5, <2>6, MovesKeep
<1>12. ASSUME NEW x \in breq, x.op = "join", IssueLiveKitBreakoutJoinInfo(x) PROVE StayInv'
  <2>1. x.r \in BRooms /\ x.r # "main" /\ x.u \in BUsers /\ breq' \subseteq breq
    BY <1>0, <1>12, BreakoutAssumption DEF IssueLiveKitBreakoutJoinInfo, Ends, AsksOK
  <2>2. CASE member[x.u].on /\ client[x.u] # "gone"
    BY <1>11, <1>12, <2>1, <2>2 DEF IssueLiveKitBreakoutJoinInfo
  <2>3. CASE ~(member[x.u].on /\ client[x.u] # "gone")
    BY <1>0, <1>1, <1>12, <2>1, <2>3 DEF IssueLiveKitBreakoutJoinInfo
  <2> QED BY <2>2, <2>3
<1>13. ASSUME NEW x \in breq, IssueLiveKitJoinInfo(x) PROVE StayInv'
  <2>1. x.u \in BUsers /\ breq' \subseteq breq
    BY <1>0, <1>13, BreakoutAssumption DEF IssueLiveKitJoinInfo, Ends, AsksOK
  <2>2. CASE member[x.u].on /\ client[x.u] # "gone"
    BY <1>11, <1>13, <2>1, <2>2 DEF IssueLiveKitJoinInfo
  <2>3. CASE ~(member[x.u].on /\ client[x.u] # "gone")
    BY <1>0, <1>1, <1>13, <2>1, <2>3 DEF IssueLiveKitJoinInfo
  <2> QED BY <2>2, <2>3
<1>14. ASSUME NEW u \in BUsers, ClientDrops(u) PROVE StayInv'
  <2>1. client' \in [BUsers -> Places] /\ client'[u] = "gone" /\ \A v \in BUsers : client[v] = "gone" => client'[v] = "gone"
    BY <1>14 DEF ClientDrops, Moves, StayInv, BreakoutTyped, Places
  <2>2. lefts' = lefts \/ lefts' = lefts \cup {[u |-> u, from |-> client[u], ver |-> member[u].ver]}
    BY <1>14 DEF ClientDrops, Moves
  <2>3. client[u] \in BRooms \cup {"main"} /\ member[u].ver \in Nat
    BY <1>14 DEF ClientDrops, StayInv, BreakoutTyped, Places
  <2>4. lefts' \subseteq LeaveReport
    BY <2>2, <2>3 DEF StayInv, BreakoutTyped, LeaveReport
  <2>5. \A h \in lefts' \ lefts : h.ver = member[h.u].ver /\ client'[h.u] = "gone"
    BY <2>1, <2>2
  <2> QED BY <1>14, <2>1, <2>4, <2>5, MovesKeep DEF ClientDrops
<1>15. ASSUME NEW r \in BRooms, DeleteRoomByName(r) PROVE StayInv'
  <2>1. client' \in [BUsers -> Places] /\ \A v \in BUsers : client[v] \in {"gone", r} => client'[v] = "gone"
    BY <1>15 DEF DeleteRoomByName, StayInv, BreakoutTyped, Places
  <2>2. lefts' = lefts \cup {[u |-> u, from |-> r, ver |-> member[u].ver] : u \in {v \in BUsers : client[v] = r}}
    BY <1>15 DEF DeleteRoomByName
  <2>3. lefts' \subseteq LeaveReport
    BY <2>2 DEF StayInv, BreakoutTyped, LeaveReport
  <2>4. \A h \in lefts' \ lefts : h.ver = member[h.u].ver /\ client'[h.u] = "gone"
    BY <2>1, <2>2
  <2> QED BY <1>15, <2>1, <2>3, <2>4, MovesKeep DEF DeleteRoomByName
<1>16. ASSUME NEW h \in lefts, handleLiveKitParticipantLeft(h) PROVE StayInv'
  <2>0. h.u \in BUsers /\ member[h.u] \in [on : BOOLEAN, room : Assigned, ver : Nat]
    BY DEF StayInv, BreakoutTyped, LeaveReport
  <2>1. CASE bcall = "ended" \/ member[h.u].room # "none"
    <3>1. UNCHANGED <<member, client, crossed, breq>> /\ lefts' \subseteq lefts
      BY <1>16, <2>1 DEF handleLiveKitParticipantLeft
    <3>2. lefts' \subseteq LeaveReport
      BY <3>1 DEF StayInv, BreakoutTyped
    <3>3. client' \in [BUsers -> Places]
      BY <3>1 DEF StayInv, BreakoutTyped
    <3> QED BY <3>1, <3>2, <3>3, MovesKeep
  <2>2. CASE ~(bcall = "ended" \/ member[h.u].room # "none")
    <3>1. member' = [member EXCEPT ![h.u] = [on |-> FALSE, room |-> member[h.u].room, ver |-> member[h.u].ver]]
      BY <1>16, <2>0, <2>2 DEF handleLiveKitParticipantLeft
    <3>2. Counts(h)
      BY <1>16, <2>2 DEF handleLiveKitParticipantLeft, Counts
    <3>3. /\ crossed' = (IF h.ver # member[h.u].ver THEN crossed \cup {h.u} ELSE crossed)
          /\ UNCHANGED <<client, breq>> /\ lefts' \subseteq lefts
      BY <1>16, <2>0, <2>2, <3>1 DEF handleLiveKitParticipantLeft, MarkLeft
    <3> QED BY <2>0, <3>1, <3>2, <3>3, ReportKeeps
  <2> QED BY <2>1, <2>2
<1>17. ASSUME NEW h \in lefts, handleLiveKitBreakoutWebhook(h) PROVE StayInv'
  <2>0. h.u \in BUsers /\ member[h.u] \in [on : BOOLEAN, room : Assigned, ver : Nat] /\ "none" \in Assigned
    BY DEF StayInv, BreakoutTyped, LeaveReport, Assigned
  <2>1. CASE member[h.u].room # h.from
    <3>1. UNCHANGED <<member, client, crossed, breq>> /\ lefts' \subseteq lefts
      BY <1>17, <2>1 DEF handleLiveKitBreakoutWebhook
    <3>2. lefts' \subseteq LeaveReport
      BY <3>1 DEF StayInv, BreakoutTyped
    <3>3. client' \in [BUsers -> Places]
      BY <3>1 DEF StayInv, BreakoutTyped
    <3> QED BY <3>1, <3>2, <3>3, MovesKeep
  <2>2. CASE member[h.u].room = h.from
    <3>1. member' = [member EXCEPT ![h.u] = [on |-> FALSE, room |-> "none", ver |-> member[h.u].ver + 1]]
      BY <1>17, <2>0, <2>2 DEF handleLiveKitBreakoutWebhook
    <3>2. Counts(h)
      BY <1>17, <2>2 DEF handleLiveKitBreakoutWebhook, Counts
    <3>3. /\ crossed' = (IF h.ver # member[h.u].ver THEN crossed \cup {h.u} ELSE crossed)
          /\ UNCHANGED <<client, breq>> /\ lefts' \subseteq lefts
      BY <1>17, <2>0, <2>2, <3>1 DEF handleLiveKitBreakoutWebhook, MarkLeft
    <3>4. member[h.u].ver \in Nat /\ member[h.u].ver + 1 > member[h.u].ver /\ member[h.u].ver + 1 \in Nat
      BY <2>0
    <3> QED BY <2>0, <3>1, <3>2, <3>3, <3>4, ReportKeeps
  <2> QED BY <2>1, <2>2
<1>18. CASE UNCHANGED breakoutVars
  BY <1>0, <1>1, <1>18 DEF breakoutVars
<1> QED
  BY <1>2, <1>3, <1>4, <1>5, <1>6, <1>7, <1>8, <1>9, <1>10, <1>12, <1>13, <1>14, <1>15, <1>16, <1>17, <1>18, ZenonT(60)
     DEF BreakoutNext

\* For any number of users, rooms and requests, however late or out of order the
\* reports are: as long as a client is in a room of the call its user counts as
\* connected, unless the assignment changed between a move and its report.
THEOREM MovingIsNotLeaving == BreakoutSpec => []MoversStay
<1>1. StayInv => MoversStay
  BY DEF StayInv, MoversStay
<1> QED BY <1>1, StayInit, StayNext, PTL DEF BreakoutSpec

-----------------------------------------------------------------------------
(* What members may publish.  A permission that exceeds what is stored is   *)
(* about to be put right by the request that made it so, which sees the     *)
(* member's row as it is, unless another request about the member overlaps. *)

OrderOK(x) ==
    /\ DOMAIN x = {"op", "at", "s", "todo", "g", "m", "sh", "id"}
    /\ x.todo \subseteq CMembers
    /\ x.op \in {"grant", "revoke"} => \A u, v \in x.todo : u = v

LiveKitRow(y) == DOMAIN y = {"in", "perm", "live"} /\ y.live \subseteq y.perm

ControlsTyped ==
    /\ \A x \in creq : OrderOK(x)
    /\ DOMAIN lk = CMembers /\ DOMAIN token = CMembers
    /\ \A u \in CMembers : LiveKitRow(lk[u]) /\ (lk[u].in \/ token[u] # NoToken => u \in joined)

OverlapStrays == \A x, y \in creq : x = y \/ About(x) \cap About(y) \subseteq strayed

\* What a request works from is what is stored, for the members that have not strayed.
CopiesHold ==
    \A x \in creq :
        /\ x.op = "settings" /\ x.at \in {"again", "recut"} => policy = x.s \/ CMembers \subseteq strayed
        /\ x.op = "settings" /\ x.at \in {"cut", "recut"} =>
             \A u \in CMembers \ strayed : u \in x.g <=> u \in granted
        /\ x.op \in {"grant", "revoke"} => x.s = policy \/ x.todo \subseteq strayed

\* The request has yet to settle what member u may publish.
Settles(x, u) ==
    \/ x.op = "settings" /\ x.at = "again"
    \/ x.op = "settings" /\ x.at = "recut" /\ u \in x.todo
    \/ x.op = "settings" /\ x.at = "cut" /\ u \notin x.todo /\ ~(x.s \subseteq policy)
    \/ x.op = "grant" /\ x.at = "store" /\ u \in x.todo /\ lk[u].perm \subseteq x.s

MemberOK(u) == lk[u].perm \subseteq Allowed(u) \/ \E x \in creq : Settles(x, u)

RevokesCut ==
    \A x \in creq : x.op = "revoke" /\ x.at = "store" =>
        \A u \in x.todo \ strayed : lk[u].in => lk[u].perm \subseteq policy \ {"screen"}

ControlsInv ==
    /\ ControlsTyped /\ OverlapStrays /\ CopiesHold /\ RevokesCut
    /\ \A u \in CMembers \ strayed : lk[u].in => MemberOK(u)

LEMMA ControlsInit == ControlInit => ControlsInv
BY DEF ControlInit, Gone, ControlsInv, ControlsTyped, LiveKitRow, OverlapStrays, CopiesHold, RevokesCut

FlagsOnly(x) == x.op \in {"mute", "media", "track"}

\* Permissions stay, and so do the requests that write them.
LEMMA QuietStep ==
    ASSUME ControlsInv, UNCHANGED <<policy, granted>>, strayed \subseteq strayed', DOMAIN lk' = CMembers,
           DOMAIN token' = CMembers,
           \A u \in CMembers : /\ LiveKitRow(lk'[u])
                               /\ lk'[u].in \/ token'[u] # NoToken => u \in joined'
                               /\ lk'[u].in => lk[u].in /\ lk'[u].perm = lk[u].perm,
           \A x \in creq' : OrderOK(x) /\ (x \in creq \/ FlagsOnly(x)),
           \A x \in creq : x \in creq' \/ FlagsOnly(x)
    PROVE  ControlsInv'
<1>1. ControlsTyped'
  BY DEF ControlsInv, ControlsTyped
<1>2. OverlapStrays'
  <2>1. \A x : FlagsOnly(x) => About(x) = {}
    BY DEF FlagsOnly, About
  <2> QED BY <2>1 DEF ControlsInv, OverlapStrays, About
<1>3. CopiesHold'
  BY DEF ControlsInv, CopiesHold, FlagsOnly
<1>4. RevokesCut'
  <2> SUFFICES ASSUME NEW x \in creq', x.op = "revoke", x.at = "store", NEW u \in x.todo \ strayed', lk'[u].in
               PROVE  lk'[u].perm \subseteq policy \ {"screen"}
    BY DEF RevokesCut
  <2>1. x \in creq /\ u \in CMembers /\ u \in x.todo \ strayed
    BY DEF FlagsOnly, OrderOK
  <2> QED BY <2>1 DEF ControlsInv, RevokesCut
<1>5. ASSUME NEW u \in CMembers \ strayed', lk'[u].in PROVE MemberOK(u)'
  <2>1. MemberOK(u) /\ lk'[u].perm = lk[u].perm
    BY <1>5 DEF ControlsInv
  <2>2. Allowed(u)' = Allowed(u)
    BY DEF Allowed, resolveMemberPublish
  <2>3. \A x \in creq : Settles(x, u) => x \in creq' /\ Settles(x, u)'
    BY <2>1 DEF Settles, FlagsOnly
  <2> QED BY <2>1, <2>2, <2>3 DEF MemberOK
<1> QED BY <1>1, <1>2, <1>3, <1>4, <1>5 DEF ControlsInv

\* A client connects with a token that allows no more than the call does.
LEMMA ConnectsKeeps ==
    ASSUME ControlsInv, NEW c \in CMembers, Connects(c)
    PROVE  ControlsInv'
<1>0. c \in joined
  BY DEF Connects, ControlsInv, ControlsTyped
<1>1. /\ UNCHANGED <<policy, granted, joined, creq>>
      /\ lk' = [lk EXCEPT ![c] = [in |-> TRUE, perm |-> token[c], live |-> {}]]
      /\ token' = [token EXCEPT ![c] = NoToken] /\ strayed \subseteq strayed'
      /\ c \notin strayed' => token[c] \subseteq Allowed(c) /\ \A x \in creq : x.op = "settings" \/ c \notin About(x)
  <2>1. strayed' = IF token[c] \subseteq Allowed(c) /\ (\A x \in creq : x.op = "settings" \/ c \notin About(x))
                   THEN strayed ELSE strayed \cup {c}
    BY DEF Connects
  <2>2. c \notin strayed' => token[c] \subseteq Allowed(c) /\ \A x \in creq : x.op = "settings" \/ c \notin About(x)
    BY <2>1
  <2>3. strayed \subseteq strayed'
    BY <2>1
  <2> QED BY <2>2, <2>3 DEF Connects, flagVars
<1>2. /\ DOMAIN lk' = CMembers /\ lk'[c] = [in |-> TRUE, perm |-> token[c], live |-> {}]
      /\ \A u \in CMembers \ {c} : lk'[u] = lk[u]
  BY <1>1 DEF ControlsInv, ControlsTyped
<1>3. ControlsTyped'
  BY <1>0, <1>1, <1>2 DEF ControlsInv, ControlsTyped, LiveKitRow
<1>4. OverlapStrays' /\ CopiesHold'
  BY <1>1 DEF ControlsInv, OverlapStrays, CopiesHold, About, ControlsTyped, OrderOK
<1>5. RevokesCut'
  <2> SUFFICES ASSUME NEW x \in creq, x.op = "revoke", x.at = "store", NEW u \in x.todo \ strayed', lk'[u].in
               PROVE  lk'[u].perm \subseteq policy \ {"screen"}
    BY <1>1 DEF RevokesCut
  <2>1. u # c /\ u \in CMembers
    BY <1>1 DEF About, ControlsInv, ControlsTyped, OrderOK
  <2> QED BY <1>1, <1>2, <2>1 DEF ControlsInv, RevokesCut
<1>6. ASSUME NEW u \in CMembers \ strayed', lk'[u].in PROVE MemberOK(u)'
  <2>1. Allowed(u)' = Allowed(u)
    BY <1>1 DEF Allowed, resolveMemberPublish
  <2>2. CASE u = c
    BY <1>1, <1>2, <2>1, <2>2 DEF MemberOK
  <2>3. CASE u # c
    <3>1. MemberOK(u) /\ lk'[u] = lk[u]
      BY <1>1, <1>2, <1>6, <2>3 DEF ControlsInv
    <3> QED BY <1>1, <2>1, <3>1 DEF MemberOK, Settles
  <2> QED BY <2>2, <2>3
<1> QED BY <1>3, <1>4, <1>5, <1>6 DEF ControlsInv

\* A moderator asks: whoever two requests are about may stray.
LEMMA AskKeeps ==
    ASSUME ControlsInv, NEW x, OrderOK(x), Asks(x), Overlaps(x), UNCHANGED <<policy, granted, joined, lk, token>>,
           \/ x.op = "settings" /\ x.at \in {"list", "store"}
           \/ x.op \in {"grant", "revoke"} /\ x.at = "cut" /\ x.s = policy
    PROVE  ControlsInv'
<1>1. creq' = creq \cup {x} /\ strayed \subseteq strayed' /\ \A y \in creq : About(x) \cap About(y) \subseteq strayed'
  BY DEF Asks, Overlaps
<1>2. ControlsTyped'
  BY <1>1 DEF ControlsInv, ControlsTyped
<1>3. OverlapStrays'
  BY <1>1 DEF ControlsInv, OverlapStrays, About
<1>4. CopiesHold'
  BY <1>1 DEF ControlsInv, CopiesHold
<1>5. RevokesCut'
  BY <1>1 DEF ControlsInv, RevokesCut
<1>6. ASSUME NEW u \in CMembers \ strayed', lk'[u].in PROVE MemberOK(u)'
  <2>1. MemberOK(u)
    BY <1>1, <1>6 DEF ControlsInv
  <2>2. Allowed(u)' = Allowed(u)
    BY DEF Allowed, resolveMemberPublish
  <2> QED BY <1>1, <2>1, <2>2 DEF MemberOK, Settles
<1> QED BY <1>2, <1>3, <1>4, <1>5, <1>6 DEF ControlsInv

\* A request goes on: its op, settings and id stay.
Advances(x, y) == creq' = (creq \ {x}) \cup {y} /\ y.op = x.op /\ y.s = x.s /\ OrderOK(y)

LEMMA OverlapAdvances ==
    ASSUME ControlsInv, NEW x \in creq, NEW y, Advances(x, y), About(y) = About(x), strayed \subseteq strayed'
    PROVE  OverlapStrays'
BY DEF ControlsInv, OverlapStrays, Advances, About

\* Two requests about a member that has not strayed are one.
LEMMA OneAbout ==
    ASSUME ControlsInv, NEW x \in creq, NEW y \in creq, NEW u \in CMembers \ strayed, u \in About(x), u \in About(y)
    PROVE  x = y
BY DEF ControlsInv, OverlapStrays

\* The members are listed: everybody LiveKit has is among them.
LEMMA ListKeeps ==
    ASSUME ControlsInv, NEW x \in creq, ListParticipants(x)
    PROVE  ControlsInv'
<1> DEFINE y == [x EXCEPT !.at = IF x.at = "list" THEN "cut" ELSE "recut",
                          !.todo = {u \in CMembers : isPolicyEnforceableMember(u)}, !.g = granted]
<1>1. /\ OrderOK(x) /\ x.op = "settings" /\ x.at \in {"list", "again"}
      /\ UNCHANGED <<policy, granted, joined, lk, token, strayed>> /\ creq' = (creq \ {x}) \cup {y}
  BY DEF ListParticipants, flagVars, Continues, ControlsInv, ControlsTyped
<1>2. PICK z : z = y
  OBVIOUS
<1>3. /\ creq' = (creq \ {x}) \cup {z} /\ z.op = "settings" /\ z.s = x.s /\ DOMAIN z = DOMAIN x /\ z.g = granted
      /\ z.todo = {u \in CMembers : u \in joined}
      /\ z.at = (IF x.at = "list" THEN "cut" ELSE "recut")
  BY <1>1, <1>2 DEF OrderOK, isPolicyEnforceableMember
<1>4. OrderOK(z) /\ Advances(x, z)
  BY <1>1, <1>3 DEF OrderOK, Advances
<1>5. ControlsTyped'
  BY <1>1, <1>3, <1>4 DEF ControlsInv, ControlsTyped
<1>6. OverlapStrays'
  BY <1>1, <1>3, <1>4, OverlapAdvances DEF About
<1>7. CopiesHold'
  BY <1>1, <1>3 DEF ControlsInv, CopiesHold
<1>8. RevokesCut'
  BY <1>1, <1>3 DEF ControlsInv, RevokesCut
<1>9. ASSUME NEW u \in CMembers \ strayed, lk[u].in PROVE MemberOK(u)'
  <2>1. MemberOK(u) /\ u \in z.todo
    BY <1>3, <1>9 DEF ControlsInv, ControlsTyped
  <2>2. Allowed(u)' = Allowed(u)
    BY <1>1 DEF Allowed, resolveMemberPublish
  <2>3. Settles(x, u) => Settles(z, u)'
    BY <1>1, <1>3, <2>1 DEF Settles
  <2>4. \A w \in creq \ {x} : Settles(w, u) => w \in creq' /\ Settles(w, u)'
    BY <1>1, <1>3 DEF Settles
  <2> QED BY <1>1, <1>3, <2>1, <2>2, <2>3, <2>4 DEF MemberOK
<1> QED BY <1>1, <1>5, <1>6, <1>7, <1>8, <1>9 DEF ControlsInv

\* LiveKit replaces what member c may publish, for a request about c.
LEMMA PermissionChanges ==
    ASSUME ControlsInv, NEW x \in creq, NEW y, Advances(x, y), About(y) = About(x), NEW c \in About(x), c \in CMembers,
           NEW perm, lk[c].in, UpdateParticipant(c, perm), UNCHANGED <<policy, granted, joined, token, strayed>>,
           x.op = "settings" => /\ y.g = x.g /\ y.at = x.at
                                /\ \A u \in CMembers \ {c} : u \in y.todo <=> u \in x.todo,
           x.op \in {"grant", "revoke"} => y.todo = x.todo /\ x.at # "store",
           c \notin strayed => perm \subseteq Allowed(c) \/ (Settles(y, c) /\ y.op = "settings")
                                 \/ (y.op = "grant" /\ y.at = "store" /\ c \in y.todo /\ perm \subseteq y.s),
           y.op = "revoke" /\ y.at = "store" => perm \subseteq policy \ {"screen"} \/ c \in strayed
    PROVE  ControlsInv'
<1>1. /\ DOMAIN lk' = CMembers /\ lk'[c] = [in |-> TRUE, perm |-> perm, live |-> lk[c].live \cap perm]
      /\ \A u \in CMembers \ {c} : lk'[u] = lk[u]
      /\ OrderOK(x) /\ OrderOK(y) /\ creq' = (creq \ {x}) \cup {y} /\ y.op = x.op /\ y.s = x.s
  BY DEF UpdateParticipant, ControlsInv, ControlsTyped, Advances
<1>2. ControlsTyped'
  <2>1. LiveKitRow(lk'[c])
    BY <1>1 DEF LiveKitRow
  <2> QED BY <1>1, <2>1 DEF ControlsInv, ControlsTyped
<1>3. OverlapStrays'
  BY OverlapAdvances
<1>4. CopiesHold'
  <2> SUFFICES ASSUME NEW z \in creq'
               PROVE  /\ z.op = "settings" /\ z.at \in {"again", "recut"} => policy = z.s \/ CMembers \subseteq strayed
                      /\ z.op = "settings" /\ z.at \in {"cut", "recut"} =>
                           \A u \in CMembers \ strayed : u \in z.g <=> u \in granted
                      /\ z.op \in {"grant", "revoke"} => z.s = policy \/ z.todo \subseteq strayed
    BY DEF CopiesHold
  <2>1. CASE z = y
    BY <1>1, <2>1 DEF ControlsInv, CopiesHold
  <2>2. CASE z # y
    BY <1>1, <2>2 DEF ControlsInv, CopiesHold
  <2> QED BY <2>1, <2>2
<1>5. \A z \in creq \ {x} : c \in strayed \/ c \notin About(z)
  BY OneAbout
<1>6. RevokesCut'
  <2> SUFFICES ASSUME NEW z \in creq', z.op = "revoke", z.at = "store", NEW u \in z.todo \ strayed, lk'[u].in
               PROVE  lk'[u].perm \subseteq policy \ {"screen"}
    BY DEF RevokesCut
  <2>1. CASE z = y
    <3>1. u = c
      BY <1>1, <2>1 DEF About, OrderOK
    <3> QED BY <1>1, <2>1, <3>1
  <2>2. CASE z # y
    <3>2. z \in creq \ {x}
      BY <1>1, <2>2
    <3>3. u # c /\ u \in CMembers
      BY <1>5, <3>2 DEF About, ControlsInv, ControlsTyped, OrderOK
    <3> QED BY <1>1, <3>2, <3>3 DEF ControlsInv, RevokesCut
  <2> QED BY <2>1, <2>2
<1>7. ASSUME NEW u \in CMembers \ strayed, lk'[u].in PROVE MemberOK(u)'
  <2>1. Allowed(u)' = Allowed(u)
    BY DEF Allowed, resolveMemberPublish
  <2>2. CASE u = c
    <3>1. CASE perm \subseteq Allowed(c)
      BY <1>1, <2>1, <2>2, <3>1 DEF MemberOK
    <3>2. CASE Settles(y, c) /\ y.op = "settings"
      BY <1>1, <2>2, <3>2 DEF MemberOK, Settles
    <3>3. CASE y.op = "grant" /\ y.at = "store" /\ c \in y.todo /\ perm \subseteq y.s
      BY <1>1, <2>2, <3>3 DEF MemberOK, Settles
    <3> QED BY <1>7, <2>2, <3>1, <3>2, <3>3
  <2>3. CASE u # c
    <3>1. MemberOK(u) /\ lk'[u] = lk[u]
      BY <1>1, <1>7, <2>3 DEF ControlsInv
    <3>2. \A z \in creq \ {x} : Settles(z, u) => z \in creq' /\ Settles(z, u)'
      BY <1>1, <3>1 DEF Settles
    <3>3. Settles(x, u) => Settles(y, u)'
      <4>1. CASE x.op = "settings"
        BY <1>1, <2>3, <3>1, <4>1 DEF Settles
      <4>2. CASE x.op \in {"grant", "revoke"}
        BY <1>1, <4>2 DEF Settles
      <4> QED BY <4>1, <4>2 DEF About
    <3> QED BY <1>1, <2>1, <3>1, <3>2, <3>3 DEF MemberOK
  <2> QED BY <2>2, <2>3
<1> QED BY <1>2, <1>3, <1>4, <1>6, <1>7 DEF ControlsInv

\* A member is cut to what the new settings say.
LEMMA EnforceKeeps ==
    ASSUME ControlsInv, NEW x \in creq, enforceMemberPublishPolicy(x)
    PROVE  ControlsInv'
<1>1. PICK c \in x.todo : /\ lk[c].in /\ UpdateParticipant(c, resolveMemberPublish(x.s, c \in x.g))
                          /\ Continues(x, [x EXCEPT !.todo = @ \ {c}])
  BY DEF enforceMemberPublishPolicy
<1>2. /\ OrderOK(x) /\ x.op = "settings" /\ x.at \in {"cut", "recut"} /\ c \in CMembers
      /\ UNCHANGED <<policy, granted, joined, token, strayed>>
  BY DEF enforceMemberPublishPolicy, flagVars, ControlsInv, ControlsTyped, OrderOK
<1>3. PICK y : y = [x EXCEPT !.todo = @ \ {c}]
  OBVIOUS
<1>4. /\ y.op = "settings" /\ y.s = x.s /\ y.g = x.g /\ y.at = x.at /\ y.todo = x.todo \ {c} /\ DOMAIN y = DOMAIN x
      /\ creq' = (creq \ {x}) \cup {y}
  BY <1>1, <1>2, <1>3 DEF OrderOK, Continues
<1>5. Advances(x, y) /\ About(y) = About(x) /\ c \in About(x)
  BY <1>2, <1>4 DEF Advances, OrderOK, About
<1>6. ASSUME c \notin strayed
      PROVE  resolveMemberPublish(x.s, c \in x.g) \subseteq Allowed(c) \/ Settles(y, c)
  <2>1. c \in x.g <=> c \in granted
    BY <1>2, <1>6 DEF ControlsInv, CopiesHold
  <2>2. CASE x.s \subseteq policy
    BY <2>1, <2>2 DEF Allowed, resolveMemberPublish
  <2>3. CASE ~(x.s \subseteq policy) /\ x.at = "cut"
    BY <1>2, <1>4, <2>3 DEF Settles
  <2>4. CASE x.at = "recut"
    <3>1. policy = x.s
      BY <1>2, <1>6, <2>4 DEF ControlsInv, CopiesHold
    <3> QED BY <2>1, <3>1 DEF Allowed, resolveMemberPublish
  <2> QED BY <1>2, <2>2, <2>3, <2>4
<1> QED BY <1>1, <1>2, <1>4, <1>5, <1>6, PermissionChanges

\* A grant or its loss reaches LiveKit.
LEMMA CutKeeps ==
    ASSUME ControlsInv, NEW x \in creq, updateLiveKitParticipantPermission(x)
    PROVE  ControlsInv'
<1>1. PICK c \in x.todo : lk[c].in /\ UpdateParticipant(c, resolveMemberPublish(x.s, x.op = "grant"))
  BY DEF updateLiveKitParticipantPermission
<1>2. /\ OrderOK(x) /\ x.op \in {"grant", "revoke"} /\ x.at = "cut" /\ c \in CMembers
      /\ UNCHANGED <<policy, granted, joined, token, strayed>>
  BY DEF updateLiveKitParticipantPermission, flagVars, ControlsInv, ControlsTyped, OrderOK
<1>3. PICK y : y = [x EXCEPT !.at = "store"]
  OBVIOUS
<1>4. /\ y.op = x.op /\ y.s = x.s /\ y.at = "store" /\ y.todo = x.todo /\ DOMAIN y = DOMAIN x
      /\ creq' = (creq \ {x}) \cup {y}
  BY <1>2, <1>3 DEF OrderOK, Continues, updateLiveKitParticipantPermission
<1>5. Advances(x, y) /\ About(y) = About(x) /\ c \in About(x)
  BY <1>2, <1>4 DEF Advances, OrderOK, About
<1>6. PICK perm : perm = resolveMemberPublish(x.s, x.op = "grant")
  OBVIOUS
<1>7. UpdateParticipant(c, perm)
  BY <1>1, <1>6
<1>8. /\ x.op = "grant" => perm \subseteq x.s
      /\ x.op = "revoke" => perm = x.s \ {"screen"}
  BY <1>6 DEF resolveMemberPublish
<1>9. c \notin strayed => x.s = policy
  BY <1>2 DEF ControlsInv, CopiesHold
<1>10. policy \ {"screen"} \subseteq Allowed(c)
  BY DEF Allowed, resolveMemberPublish
<1> QED BY <1>1, <1>2, <1>4, <1>5, <1>7, <1>8, <1>9, <1>10, PermissionChanges

\* A request ends: what it leaves unsettled strays.
LEMMA EndKeeps ==
    ASSUME ControlsInv, NEW x \in creq, Finishes(x), strayed \subseteq strayed',
           UNCHANGED <<policy, granted, joined, lk, token>>,
           \A u \in CMembers \ strayed' : lk[u].in => ~Settles(x, u)
    PROVE  ControlsInv'
<1>1. creq' = creq \ {x}
  BY DEF Finishes
<1>2. ControlsTyped' /\ OverlapStrays' /\ CopiesHold' /\ RevokesCut'
  BY <1>1 DEF ControlsInv, ControlsTyped, OverlapStrays, CopiesHold, RevokesCut, About
<1>3. ASSUME NEW u \in CMembers \ strayed', lk'[u].in PROVE MemberOK(u)'
  <2>1. MemberOK(u)
    BY <1>3 DEF ControlsInv
  <2>2. Allowed(u)' = Allowed(u)
    BY DEF Allowed, resolveMemberPublish
  <2>3. \A z \in creq : Settles(z, u) => z # x /\ Settles(z, u)'
    BY <1>3 DEF Settles
  <2> QED BY <1>1, <2>1, <2>2, <2>3 DEF MemberOK
<1> QED BY <1>2, <1>3 DEF ControlsInv

LEMMA AbandonKeeps ==
    ASSUME ControlsInv, NEW x \in creq, Abandons(x)
    PROVE  ControlsInv'
<1>1. /\ strayed' = strayed \cup LeftOver(x) /\ Finishes(x)
      /\ UNCHANGED <<policy, granted, joined, lk, token>>
  BY DEF Abandons, flagVars
<1>2. \A u \in CMembers \ strayed' : lk[u].in => ~Settles(x, u)
  BY <1>1 DEF LeftOver, Settles, ControlsInv, ControlsTyped
<1> QED BY <1>1, <1>2, EndKeeps

\* The settings are stored, and everybody is looked at again.
LEMMA StoreKeeps ==
    ASSUME ControlsInv, NEW x \in creq, persistCallSettingsAndAccess(x)
    PROVE  ControlsInv'
<1>1. /\ OrderOK(x) /\ x.op = "settings" /\ policy' = x.s
      /\ UNCHANGED <<granted, joined, lk, token, strayed>>
  BY DEF persistCallSettingsAndAccess, flagVars, ControlsInv, ControlsTyped
<1>2. PICK y : y = [x EXCEPT !.at = "again"]
  OBVIOUS
<1>3. /\ y.op = "settings" /\ y.s = x.s /\ y.at = "again" /\ y.todo = x.todo /\ DOMAIN y = DOMAIN x
      /\ creq' = (creq \ {x}) \cup {y}
  BY <1>1, <1>2 DEF OrderOK, Continues, persistCallSettingsAndAccess
<1>4. Advances(x, y) /\ About(y) = About(x) /\ OrderOK(y)
  BY <1>1, <1>3 DEF Advances, OrderOK, About
<1>5. ControlsTyped' /\ OverlapStrays'
  BY <1>1, <1>3, <1>4, OverlapAdvances DEF ControlsInv, ControlsTyped
<1>6. ASSUME NEW z \in creq \ {x} PROVE About(z) \subseteq strayed
  BY <1>1 DEF ControlsInv, OverlapStrays, About, ControlsTyped, OrderOK
<1>7. CopiesHold'
  <2> SUFFICES ASSUME NEW z \in creq'
               PROVE  /\ z.op = "settings" /\ z.at \in {"again", "recut"} => x.s = z.s \/ CMembers \subseteq strayed
                      /\ z.op = "settings" /\ z.at \in {"cut", "recut"} =>
                           \A u \in CMembers \ strayed : u \in z.g <=> u \in granted
                      /\ z.op \in {"grant", "revoke"} => z.s = x.s \/ z.todo \subseteq strayed
    BY <1>1 DEF CopiesHold
  <2>1. CASE z = y
    BY <1>3, <2>1
  <2>2. CASE z # y
    BY <1>3, <1>6, <2>2 DEF About
  <2> QED BY <2>1, <2>2
<1>8. RevokesCut'
  <2> SUFFICES ASSUME NEW z \in creq', z.op = "revoke", NEW u \in z.todo \ strayed
               PROVE  FALSE
    BY <1>1 DEF RevokesCut
  <2> QED BY <1>3, <1>6 DEF About
<1>9. \A u \in CMembers : MemberOK(u)'
  BY <1>3 DEF MemberOK, Settles
<1> QED BY <1>5, <1>7, <1>8, <1>9 DEF ControlsInv

LEMMA UpdatedKeeps ==
    ASSUME ControlsInv, NEW x \in creq, SettingsUpdated(x)
    PROVE  ControlsInv'
<1>1. /\ Finishes(x) /\ UNCHANGED <<policy, granted, joined, lk, token, strayed>>
      /\ x.op = "settings" /\ x.at = "recut" /\ x.todo = {}
  BY DEF SettingsUpdated, flagVars
<1>2. \A u : ~Settles(x, u)
  BY <1>1 DEF Settles
<1> QED BY <1>1, <1>2, EndKeeps

\* A grant is stored, or taken back.
LEMMA GrantKeeps ==
    ASSUME ControlsInv, NEW x \in creq, SetCanScreenShare(x)
    PROVE  ControlsInv'
<1>1. /\ OrderOK(x) /\ x.op \in {"grant", "revoke"} /\ x.at = "store" /\ creq' = creq \ {x}
      /\ granted' = (IF x.op = "grant" THEN granted \cup x.todo ELSE granted \ x.todo)
      /\ UNCHANGED <<policy, joined, lk, token, strayed>>
  BY DEF SetCanScreenShare, Finishes, ControlsInv, ControlsTyped
<1>2. ControlsTyped' /\ OverlapStrays' /\ RevokesCut'
  BY <1>1 DEF ControlsInv, ControlsTyped, OverlapStrays, RevokesCut, About
<1>3. ASSUME NEW z \in creq', NEW u \in x.todo, u \in About(z) PROVE u \in strayed
  BY <1>1, <1>3 DEF ControlsInv, OverlapStrays, About
<1>4. CopiesHold'
  <2> SUFFICES ASSUME NEW z \in creq'
               PROVE  /\ z.op = "settings" /\ z.at \in {"again", "recut"} => policy = z.s \/ CMembers \subseteq strayed
                      /\ z.op = "settings" /\ z.at \in {"cut", "recut"} =>
                           \A u \in CMembers \ strayed : u \in z.g <=> u \in granted'
                      /\ z.op \in {"grant", "revoke"} => z.s = policy \/ z.todo \subseteq strayed
    BY <1>1 DEF CopiesHold
  <2>1. z.op = "settings" => \A u \in CMembers \ strayed : u \in granted' <=> u \in granted
    BY <1>1, <1>3 DEF About
  <2> QED BY <1>1, <2>1 DEF ControlsInv, CopiesHold
<1>5. ASSUME NEW u \in CMembers \ strayed, lk[u].in PROVE MemberOK(u)'
  <2>1. MemberOK(u)
    BY <1>5 DEF ControlsInv
  <2>2. CASE u \in x.todo
    <3>1. x.s = policy
      BY <1>1, <2>2 DEF ControlsInv, CopiesHold
    <3>2. CASE x.op = "grant"
      <4>1. \A z \in creq : Settles(z, u) => z = x
        BY <1>1, <2>2, <3>2, OneAbout DEF Settles, About
      <4>2. lk[u].perm \subseteq policy
        BY <2>1, <3>1, <3>2, <4>1 DEF MemberOK, Settles, Allowed, resolveMemberPublish
      <4>3. Allowed(u)' = policy
        BY <1>1, <2>2, <3>2 DEF Allowed, resolveMemberPublish
      <4> QED BY <1>1, <4>2, <4>3 DEF MemberOK
    <3>3. CASE x.op = "revoke"
      <4>1. lk[u].perm \subseteq policy \ {"screen"}
        BY <1>1, <1>5, <2>2, <3>3 DEF ControlsInv, RevokesCut
      <4>2. Allowed(u)' = policy \ {"screen"}
        BY <1>1, <2>2, <3>3 DEF Allowed, resolveMemberPublish
      <4> QED BY <1>1, <4>1, <4>2 DEF MemberOK
    <3> QED BY <1>1, <3>2, <3>3
  <2>3. CASE u \notin x.todo
    <3>1. Allowed(u)' = Allowed(u)
      BY <1>1, <2>3 DEF Allowed, resolveMemberPublish
    <3>2. \A z \in creq : Settles(z, u) => z \in creq' /\ Settles(z, u)'
      BY <1>1, <2>3 DEF Settles
    <3> QED BY <1>1, <2>1, <3>1, <3>2 DEF MemberOK
  <2> QED BY <2>2, <2>3
<1> QED BY <1>1, <1>2, <1>4, <1>5 DEF ControlsInv

\* What clients do, and what only touches the flags of the rows.
LEMMA ClientKeeps ==
    ASSUME ControlsInv, NEW c \in CMembers, Client(c)
    PROVE  ControlsInv'
<1>0. /\ \A x \in creq : OrderOK(x)
      /\ DOMAIN lk = CMembers /\ DOMAIN token = CMembers
      /\ \A u \in CMembers : LiveKitRow(lk[u]) /\ (lk[u].in \/ token[u] # NoToken => u \in joined)
  BY DEF ControlsInv, ControlsTyped
<1>1. CASE JoinCall(c)
  BY <1>0, <1>1, QuietStep DEF JoinCall
<1>2. CASE mintLiveKitToken(c)
  BY <1>0, <1>2, QuietStep DEF mintLiveKitToken, flagVars
<1>3. CASE Connects(c)
  BY <1>3, ConnectsKeeps
<1>4. CASE LeaveCall(c)
  <2>1. /\ DOMAIN lk' = CMembers /\ lk'[c] = Gone /\ \A u \in CMembers \ {c} : lk'[u] = lk[u]
        /\ DOMAIN token' = CMembers /\ token'[c] = NoToken /\ \A u \in CMembers \ {c} : token'[u] = token[u]
        /\ joined' = joined \ {c} /\ UNCHANGED <<policy, granted, creq, strayed>>
    BY <1>0, <1>4 DEF LeaveCall
  <2>2. LiveKitRow(Gone) /\ ~Gone.in
    BY DEF LiveKitRow, Gone
  <2> QED BY <1>0, <2>1, <2>2, QuietStep
<1>5. ASSUME NEW src \in CSources, Publishes(c, src) PROVE ControlsInv'
  <2>1. /\ DOMAIN lk' = CMembers /\ \A u \in CMembers \ {c} : lk'[u] = lk[u]
        /\ lk'[c] = [lk[c] EXCEPT !.live = lk[c].live \cup {src}] /\ src \in lk[c].perm
        /\ UNCHANGED <<policy, granted, joined, token, creq, strayed>>
    BY <1>0, <1>5 DEF Publishes, flagVars
  <2>2. LiveKitRow(lk'[c]) /\ lk'[c].in = lk[c].in /\ lk'[c].perm = lk[c].perm
    BY <1>0, <2>1 DEF LiveKitRow
  <2> QED BY <1>0, <2>1, <2>2, QuietStep
<1>6. ASSUME NEW field, NEW value \in BOOLEAN, UpdateMedia(c, field, value) PROVE ControlsInv'
  <2>1. /\ UNCHANGED <<policy, granted, joined, lk, token, strayed>>
        /\ \E x : creq' = creq \cup {x} /\ OrderOK(x) /\ FlagsOnly(x)
    <3>1. PICK y : y = Order("media", "store", {}, {c})
      OBVIOUS
    <3>2. OrderOK(y) /\ y.op = "media"
      BY <3>1 DEF Order, OrderOK
    <3>3. PICK x : x \in {[y EXCEPT !.m = value], [y EXCEPT !.sh = value]} /\ creq' = creq \cup {x}
      BY <1>6, <3>1 DEF UpdateMedia, Asks
    <3>4. OrderOK(x) /\ FlagsOnly(x)
      BY <3>2, <3>3 DEF OrderOK, FlagsOnly
    <3> QED BY <1>6, <3>3, <3>4 DEF UpdateMedia, flagVars
  <2> QED BY <1>0, <2>1, QuietStep
<1> QED BY <1>1, <1>2, <1>3, <1>4, <1>5, <1>6 DEF Client

\* What moderators ask for.
LEMMA ModeratorKeeps ==
    ASSUME ControlsInv, Moderator
    PROVE  ControlsInv'
<1>0. /\ \A x \in creq : OrderOK(x)
      /\ DOMAIN lk = CMembers /\ DOMAIN token = CMembers
      /\ \A u \in CMembers : LiveKitRow(lk[u]) /\ (lk[u].in \/ token[u] # NoToken => u \in joined)
  BY DEF ControlsInv, ControlsTyped
<1>1. ASSUME NEW s \in SUBSET CSources, UpdateCallSettings(s) PROVE ControlsInv'
  <2>1. PICK x, at : /\ at \in {"list", "store"} /\ x = Order("settings", at, s, {}) /\ Asks(x) /\ Overlaps(x)
                     /\ UNCHANGED <<policy, granted, joined, lk, token>>
    BY <1>1 DEF UpdateCallSettings, flagVars
  <2>2. OrderOK(x) /\ x.op = "settings" /\ x.at = at
    BY <2>1 DEF Order, OrderOK
  <2> QED BY <2>1, <2>2, AskKeeps
<1>2. ASSUME NEW u \in CMembers, GrantScreenShare(u) \/ RevokeScreenShare(u) PROVE ControlsInv'
  <2>1. PICK x, op : /\ op \in {"grant", "revoke"} /\ x = Order(op, "cut", policy, {u}) /\ Asks(x) /\ Overlaps(x)
                     /\ UNCHANGED <<policy, granted, joined, lk, token>>
    BY <1>2 DEF GrantScreenShare, RevokeScreenShare, flagVars
  <2>2. OrderOK(x) /\ x.op = op /\ x.at = "cut" /\ x.s = policy
    BY <2>1 DEF Order, OrderOK
  <2> QED BY <2>1, <2>2, AskKeeps
<1>3. ASSUME NEW u \in CMembers, MuteParticipant(u) PROVE ControlsInv'
  <2>1. PICK x : x = [Order("mute", "cut", {}, {u}) EXCEPT !.m = TRUE] /\ creq' = creq \cup {x}
    BY <1>3 DEF MuteParticipant, Asks
  <2>2. OrderOK(x) /\ FlagsOnly(x)
    BY <2>1 DEF Order, OrderOK, FlagsOnly
  <2>3. UNCHANGED <<policy, granted, joined, lk, token, strayed>>
    BY <1>3 DEF MuteParticipant, flagVars
  <2> QED BY <1>0, <2>1, <2>2, <2>3, QuietStep
<1>4. ASSUME NEW u, SetFeaturedShare(u) \/ SetPinnedParticipant(u) PROVE ControlsInv'
  <2>1. UNCHANGED <<policy, granted, joined, lk, token, strayed, creq>>
    BY <1>4 DEF SetFeaturedShare, SetPinnedParticipant, flagVars
  <2> QED BY <1>0, <2>1, QuietStep
<1> QED BY <1>1, <1>2, <1>3, <1>4 DEF Moderator

LEMMA ServeKeeps ==
    ASSUME ControlsInv, NEW x \in creq, Serve(x)
    PROVE  ControlsInv'
<1>0. /\ \A y \in creq : OrderOK(y)
      /\ DOMAIN lk = CMembers /\ DOMAIN token = CMembers
      /\ \A u \in CMembers : LiveKitRow(lk[u]) /\ (lk[u].in \/ token[u] # NoToken => u \in joined)
  BY DEF ControlsInv, ControlsTyped
<1>1. CASE NotThere(x) \/ StepFails(x)
  BY <1>1, AbandonKeeps DEF NotThere, StepFails
<1>2. CASE muteLiveKitParticipantTracks(x)
  <2>1. PICK y : y = [x EXCEPT !.at = "store"]
    OBVIOUS
  <2>2. /\ creq' = (creq \ {x}) \cup {y} /\ x.op = "mute"
        /\ UNCHANGED <<policy, granted, joined, token, strayed>>
    BY <1>2, <2>1 DEF muteLiveKitParticipantTracks, Continues, flagVars
  <2>3. OrderOK(y) /\ FlagsOnly(y) /\ FlagsOnly(x)
    BY <1>0, <2>1, <2>2 DEF OrderOK, FlagsOnly
  <2>4. DOMAIN lk' = CMembers
    BY <1>2 DEF muteLiveKitParticipantTracks
  <2>5. ASSUME NEW u \in CMembers PROVE LiveKitRow(lk'[u]) /\ lk'[u].in = lk[u].in /\ lk'[u].perm = lk[u].perm
    <3>1. lk'[u] = lk[u] \/ lk'[u] = [lk[u] EXCEPT !.live = lk[u].live \ {"mic"}]
      BY <1>2 DEF muteLiveKitParticipantTracks
    <3> QED BY <1>0, <3>1 DEF LiveKitRow
  <2> QED BY <1>0, <2>2, <2>3, <2>4, <2>5, QuietStep
<1>3. CASE UpdateParticipantMedia(x)
  <2>1. /\ creq' = creq \ {x} /\ FlagsOnly(x)
        /\ UNCHANGED <<policy, granted, joined, lk, token, strayed>>
    BY <1>3 DEF UpdateParticipantMedia, Finishes, FlagsOnly
  <2> QED BY <1>0, <2>1, QuietStep
<1> QED
  BY <1>1, <1>2, <1>3, ListKeeps, EnforceKeeps, StoreKeeps, UpdatedKeeps, CutKeeps, GrantKeeps DEF Serve

\* Members join, and tracks are theirs.
MembersOnly == joined \subseteq CMembers /\ \A t \in tracks : t.u \in CMembers

LEMMA UpdatesKeepMembers ==
    ASSUME MembersOnly, NEW u \in CMembers, NEW perm, UpdateParticipant(u, perm), joined' = joined
    PROVE  MembersOnly'
<1>1. tracks' \subseteq tracks \cup {[u |-> u, on |-> FALSE]}
  BY DEF UpdateParticipant
<1> QED BY <1>1 DEF MembersOnly

LEMMA MembersKeep == ControlsInv /\ MembersOnly /\ [ControlNext]_controlVars => MembersOnly'
<1> SUFFICES ASSUME ControlsInv, MembersOnly, [ControlNext]_controlVars PROVE MembersOnly'
  OBVIOUS
<1>1. ASSUME NEW x \in creq, Serve(x) PROVE MembersOnly'
  <2>1. x.todo \subseteq CMembers
    BY DEF ControlsInv, ControlsTyped, OrderOK
  <2>2. CASE enforceMemberPublishPolicy(x) \/ updateLiveKitParticipantPermission(x)
    <3>1. PICK u, perm : u \in x.todo /\ UpdateParticipant(u, perm)
      BY <2>2 DEF enforceMemberPublishPolicy, updateLiveKitParticipantPermission
    <3>2. joined' = joined
      BY <2>2 DEF enforceMemberPublishPolicy, updateLiveKitParticipantPermission, flagVars
    <3> QED BY <2>1, <3>1, <3>2, UpdatesKeepMembers
  <2>3. CASE \/ ListParticipants(x) \/ persistCallSettingsAndAccess(x) \/ SettingsUpdated(x)
             \/ muteLiveKitParticipantTracks(x)
    <3>1. UNCHANGED <<joined, tracks>>
      BY <2>3 DEF ListParticipants, persistCallSettingsAndAccess, SettingsUpdated, muteLiveKitParticipantTracks, flagVars
    <3> QED BY <3>1 DEF MembersOnly
  <2>4. CASE NotThere(x) \/ StepFails(x) \/ SetCanScreenShare(x) \/ UpdateParticipantMedia(x)
    <3>1. UNCHANGED <<joined, tracks>>
      BY <2>4 DEF NotThere, StepFails, Abandons, SetCanScreenShare, UpdateParticipantMedia, flagVars
    <3> QED BY <3>1 DEF MembersOnly
  <2> QED BY <1>1, <2>2, <2>3, <2>4 DEF Serve
<1>2. ASSUME NEW c \in CMembers, Client(c) PROVE MembersOnly'
  <2>1. joined' \subseteq joined \cup {c} /\ tracks' \subseteq tracks \cup {[u |-> c, on |-> TRUE], [u |-> c, on |-> FALSE]}
    BY <1>2 DEF Client, JoinCall, mintLiveKitToken, Connects, LeaveCall, Publishes, UpdateMedia, flagVars
  <2> QED BY <2>1 DEF MembersOnly
<1>3. CASE Moderator
  <2>1. UNCHANGED <<joined, tracks>>
    BY <1>3 DEF Moderator, UpdateCallSettings, GrantScreenShare, RevokeScreenShare, MuteParticipant,
                SetFeaturedShare, SetPinnedParticipant, flagVars
  <2> QED BY <2>1 DEF MembersOnly
<1>4. ASSUME NEW t \in tracks, handleLiveKitTrackChanged(t) PROVE MembersOnly'
  <2>1. joined' = joined /\ tracks' \subseteq tracks
    BY <1>4 DEF handleLiveKitTrackChanged, flagVars
  <2> QED BY <2>1 DEF MembersOnly
<1>5. CASE UNCHANGED controlVars
  BY <1>5 DEF MembersOnly, controlVars, flagVars
<1> QED BY <1>1, <1>2, <1>3, <1>4, <1>5 DEF ControlNext

\* Every step keeps the invariant.
LEMMA ControlsNext == ControlsInv /\ MembersOnly /\ [ControlNext]_controlVars => ControlsInv'
<1> SUFFICES ASSUME ControlsInv, MembersOnly, [ControlNext]_controlVars PROVE ControlsInv'
  OBVIOUS
<1>0. /\ \A y \in creq : OrderOK(y)
      /\ DOMAIN lk = CMembers /\ DOMAIN token = CMembers
      /\ \A u \in CMembers : LiveKitRow(lk[u]) /\ (lk[u].in \/ token[u] # NoToken => u \in joined)
  BY DEF ControlsInv, ControlsTyped
<1>1. ASSUME NEW t \in tracks, handleLiveKitTrackChanged(t) PROVE ControlsInv'
  <2>1. UNCHANGED <<policy, granted, joined, lk, token, strayed>>
    BY <1>1 DEF handleLiveKitTrackChanged, flagVars
  <2>2. PICK x : x = [Order("track", "store", {}, {t.u}) EXCEPT !.sh = t.on]
    OBVIOUS
  <2>3. creq' = creq \/ creq' = creq \cup {x}
    BY <1>1, <2>2 DEF handleLiveKitTrackChanged
  <2>4. t.u \in CMembers
    BY DEF MembersOnly
  <2>5. OrderOK(x) /\ FlagsOnly(x)
    BY <2>2, <2>4 DEF Order, OrderOK, FlagsOnly
  <2> QED BY <1>0, <2>1, <2>3, <2>5, QuietStep
<1>2. CASE UNCHANGED controlVars
  BY <1>0, <1>2, QuietStep DEF controlVars, flagVars
<1> QED BY <1>1, <1>2, ModeratorKeeps, ClientKeeps, ServeKeeps DEF ControlNext

\* For any members and sources, and any number of settings updates, grants, joins
\* and failures: once the moderators' requests are done LiveKit lets nobody publish
\* what is denied, but members two requests or an unrepaired failure were about.
THEOREM DenialsAreEnforced == ControlSpec => []DeniedIsCut
<1>1. ControlsInv /\ MembersOnly => DeniedIsCut
  <2> SUFFICES ASSUME ControlsInv, MembersOnly, \A x \in creq : About(x) = {},
                      NEW u \in joined \ strayed, lk[u].in
               PROVE  lk[u].perm \subseteq Allowed(u) /\ lk[u].live \subseteq lk[u].perm
    BY DEF DeniedIsCut
  <2>1. u \in CMembers
    BY DEF MembersOnly
  <2>2. ASSUME NEW x \in creq PROVE ~Settles(x, u)
    BY <2>1 DEF Settles, About
  <2>3. MemberOK(u) /\ LiveKitRow(lk[u])
    BY <2>1 DEF ControlsInv, ControlsTyped
  <2> QED BY <2>2, <2>3 DEF MemberOK, LiveKitRow
<1>2. ControlInit => MembersOnly
  BY DEF ControlInit, MembersOnly
<1> QED BY <1>1, <1>2, ControlsInit, ControlsNext, MembersKeep, PTL DEF ControlSpec
=============================================================================
