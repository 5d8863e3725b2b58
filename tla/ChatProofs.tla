----------------------------- MODULE ChatProofs -----------------------------
(***************************************************************************)
(* Proofs about a workspace and what is said in it, for any number of      *)
(* users, roles, channels, messages, requests and index workers.           *)
(***************************************************************************)
EXTENDS Messages, FiniteSetTheorems, TLAPS

-----------------------------------------------------------------------------
(* Administration: each transaction looks again at the membership it       *)
(* changes or lists, so the types are all the other two properties need.   *)

AdminInv == WorkspaceTypeOK /\ RemovedAreUnlisted /\ AuditExplainsRoles

\* The first state satisfies the invariant.
LEMMA InitAdminInv == WorkspaceInit => AdminInv
BY UsersAssumption
   DEF WorkspaceInit, AdminInv, WorkspaceTypeOK, Roles, AdminRequestOK, NoDefinition,
       RemovedAreUnlisted, AuditExplainsRoles

\* A request at work is about a user, with an argument that suits its operation.
LEMMA AtWork ==
    ASSUME AdminInv, NEW q \in AdminRequests, NEW op, adm[q].op = op, op # "idle"
    PROVE  adm[q].on \in Users /\ adm[q].arg \in ArgsOf(op)
BY DEF AdminInv, WorkspaceTypeOK, AdminRequestOK, IdleAdmin

\* Requests stay well typed when one of them ends.
LEMMA Ended ==
    ASSUME AdminInv, NEW q \in AdminRequests, adm' = [adm EXCEPT ![q] = IdleAdmin]
    PROVE  DOMAIN adm' = AdminRequests /\ \A r \in AdminRequests : AdminRequestOK(adm'[r])
BY DEF AdminInv, WorkspaceTypeOK, AdminRequestOK

\* An entry that repeats the role of its user leaves the log as it is.
LEMMA SameRole ==
    ASSUME AdminInv, NEW q \in AdminRequests, adm[q].on \in Users, Commits(q)
    PROVE  /\ audit' = audit /\ admCount' = admCount
           /\ adm' = [adm EXCEPT ![q] = IdleAdmin]
BY DEF AdminInv, WorkspaceTypeOK, AuditExplainsRoles, Commits, CommitsRole, createAuditTx

\* Every step keeps it.
LEMMA NextAdminInv == AdminInv /\ [WorkspaceNext]_workspaceVars => AdminInv'
<1> SUFFICES ASSUME AdminInv, [WorkspaceNext]_workspaceVars PROVE AdminInv'
  OBVIOUS
<1> USE DEF AdminInv
<1>1. CASE UNCHANGED workspaceVars
  BY <1>1 DEF workspaceVars, WorkspaceTypeOK, AdminRequestOK, RemovedAreUnlisted, AuditExplainsRoles
<1>2. ASSUME NEW q \in AdminRequests, AdminAsk(q) PROVE AdminInv'
  <2>1. \A r \in AdminRequests : AdminRequestOK(adm'[r])
    BY <1>2 DEF AdminAsk, WorkspaceTypeOK, AdminRequestOK
  <2> QED BY <1>2, <2>1 DEF AdminAsk, WorkspaceTypeOK, AdminRequestOK, RemovedAreUnlisted, AuditExplainsRoles
<1>3. ASSUME NEW q \in AdminRequests, AdminRollback(q) PROVE AdminInv'
  BY <1>3, Ended DEF AdminRollback, WorkspaceTypeOK, AdminRequestOK, RemovedAreUnlisted, AuditExplainsRoles
<1>4. ASSUME NEW q \in AdminRequests, InviteMember(q) PROVE AdminInv'
  <2>1. adm[q].on \in Users /\ adm[q].arg \in Roles
    BY <1>4, AtWork DEF InviteMember, ArgsOf
  <2>2. role' = [role EXCEPT ![adm[q].on] = adm[q].arg] /\ role'[adm[q].on] # "none"
    BY <1>4, <2>1 DEF InviteMember, WorkspaceTypeOK, Roles
  <2>3. userJob' = [userJob EXCEPT ![adm[q].on] = "upsert"]
    BY <1>4, <2>2 DEF InviteMember, syncUserSearchDocsTx
  <2>4. WorkspaceTypeOK'
    BY <1>4, <2>1, <2>2, <2>3, Ended DEF InviteMember, CommitsRole, WorkspaceTypeOK, AdminRequestOK
  <2>5. RemovedAreUnlisted'
    BY <2>1, <2>2, <2>3 DEF RemovedAreUnlisted, WorkspaceTypeOK
  <2>6. AuditExplainsRoles'
    BY <1>4, <2>2 DEF InviteMember, CommitsRole, createAuditTx, AuditExplainsRoles
  <2> QED BY <2>4, <2>5, <2>6
<1>5. ASSUME NEW q \in AdminRequests, UpdateMemberRole(q) PROVE AdminInv'
  <2>1. adm[q].on \in Users /\ adm[q].arg \in Roles
    BY <1>5, AtWork DEF UpdateMemberRole, ArgsOf
  <2>2. WorkspaceTypeOK'
    BY <1>5, <2>1, Ended DEF UpdateMemberRole, CommitsRole, WorkspaceTypeOK, AdminRequestOK
  <2>3. RemovedAreUnlisted'
    BY <1>5, <2>1 DEF UpdateMemberRole, RemovedAreUnlisted, WorkspaceTypeOK, Roles
  <2>4. AuditExplainsRoles'
    BY <1>5 DEF UpdateMemberRole, CommitsRole, createAuditTx, AuditExplainsRoles
  <2> QED BY <2>2, <2>3, <2>4
<1>6. ASSUME NEW q \in AdminRequests, RemoveMember(q) PROVE AdminInv'
  <2>1. adm[q].on \in Users
    BY <1>6, AtWork DEF RemoveMember
  <2>2. WorkspaceTypeOK'
    BY <1>6, <2>1, Ended DEF RemoveMember, CommitsRole, WorkspaceTypeOK, AdminRequestOK
  <2>3. RemovedAreUnlisted'
    BY <1>6, <2>1 DEF RemoveMember, RemovedAreUnlisted, WorkspaceTypeOK
  <2>4. AuditExplainsRoles'
    BY <1>6 DEF RemoveMember, CommitsRole, createAuditTx, AuditExplainsRoles
  <2> QED BY <2>2, <2>3, <2>4
<1>7. ASSUME NEW q \in AdminRequests, SuspendUser(q) \/ ReactivateUser(q) PROVE AdminInv'
  <2>1. adm[q].on \in Users /\ Commits(q) /\ UNCHANGED <<role, roleDef, assigned>>
    BY <1>7, AtWork DEF SuspendUser, ReactivateUser
  <2>2. PICK listing \in {"upsert", "delete"} :
          userJob' = IF role[adm[q].on] # "none" THEN [userJob EXCEPT ![adm[q].on] = listing] ELSE userJob
    BY <1>7 DEF SuspendUser, ReactivateUser, syncUserSearchDocsTx
  <2>3. account' \in [Users -> {"active", "suspended"}]
    BY <1>7, <2>1 DEF SuspendUser, ReactivateUser, WorkspaceTypeOK
  <2>4. WorkspaceTypeOK'
    BY <2>1, <2>2, <2>3, SameRole, Ended DEF WorkspaceTypeOK, AdminRequestOK
  <2>5. RemovedAreUnlisted'
    BY <2>1, <2>2 DEF RemovedAreUnlisted, WorkspaceTypeOK
  <2>6. AuditExplainsRoles'
    BY <2>1, SameRole DEF AuditExplainsRoles
  <2> QED BY <2>4, <2>5, <2>6
<1>8. ASSUME NEW q \in AdminRequests, DefineRole(q) \/ DeleteRoleDefinition(q)
                                        \/ AssignMemberRole(q) \/ UnassignMemberRole(q)
      PROVE AdminInv'
  <2>1. adm[q].on \in Users /\ adm[q].arg \in RoleIds /\ Commits(q) /\ UNCHANGED <<role, account, userJob>>
    BY <1>8, AtWork DEF DefineRole, DeleteRoleDefinition, AssignMemberRole, UnassignMemberRole, ArgsOf
  <2>2. roleDef' \in [RoleIds -> [base : Roles \cup {"none"}, perms : SUBSET Permissions]]
    <3>1. CASE DefineRole(q)
      <4>1. PICK base \in Roles, perms \in SUBSET Permissions :
              roleDef' = [roleDef EXCEPT ![adm[q].arg] = [base |-> base, perms |-> perms]]
        BY <3>1 DEF DefineRole
      <4> QED BY <4>1, <2>1 DEF WorkspaceTypeOK
    <3>2. CASE DeleteRoleDefinition(q)
      BY <3>2, <2>1 DEF DeleteRoleDefinition, NoDefinition, WorkspaceTypeOK
    <3>3. CASE AssignMemberRole(q) \/ UnassignMemberRole(q)
      BY <3>3 DEF AssignMemberRole, UnassignMemberRole, WorkspaceTypeOK
    <3> QED BY <1>8, <3>1, <3>2, <3>3
  <2>3. assigned' \subseteq Users \X RoleIds
    BY <1>8, <2>1 DEF DefineRole, DeleteRoleDefinition, AssignMemberRole, UnassignMemberRole, WorkspaceTypeOK
  <2>4. WorkspaceTypeOK'
    BY <2>1, <2>2, <2>3, SameRole, Ended DEF WorkspaceTypeOK, AdminRequestOK
  <2> QED BY <2>1, <2>4, SameRole DEF RemovedAreUnlisted, AuditExplainsRoles
<1> QED
  BY <1>1, <1>2, <1>3, <1>4, <1>5, <1>6, <1>7, <1>8 DEF WorkspaceNext

\* Every reachable state is well typed: requests of any operation hold a user and
\* an argument of the kind the operation takes.
THEOREM WorkspaceTypeCorrect == WorkspaceSpec => []WorkspaceTypeOK
<1>1. WorkspaceSpec => []AdminInv
  BY InitAdminInv, NextAdminInv, PTL DEF WorkspaceSpec
<1> QED BY <1>1, PTL DEF AdminInv

\* The audit log explains every membership, however the requests of administrators
\* interleave: the entry is written in the transaction of the change (createAuditTx).
THEOREM LogExplainsRoles == WorkspaceSpec => []AuditExplainsRoles
<1>1. WorkspaceSpec => []AdminInv
  BY InitAdminInv, NextAdminInv, PTL DEF WorkspaceSpec
<1> QED BY <1>1, PTL DEF AdminInv

\* A user who is no member has no job that lists it, whatever was checked before the
\* membership ended (syncUserSearchDocsTx).
THEOREM OutsidersUnlisted == WorkspaceSpec => []RemovedAreUnlisted
<1>1. WorkspaceSpec => []AdminInv
  BY InitAdminInv, NextAdminInv, PTL DEF WorkspaceSpec
<1> QED BY <1>1, PTL DEF AdminInv

-----------------------------------------------------------------------------
(* Messages, whatever happens to the channels meanwhile: a deleted message *)
(* stays empty, and the quotes of it say so.                               *)

\* Rows, as far as the two properties depend on them.
RowOK(x) ==
    /\ DOMAIN x = DOMAIN NoMessage /\ x.quote \in Msgs \cup {"none"}
    /\ x.deleted => x.text = 0 /\ x.pinned = FALSE /\ x.quote = "none"

\* A request under way: a message it is about, unless it sends one.
AskedOK(r) ==
    r.op # "idle" => /\ DOMAIN r = {"op", "by", "on", "chan", "parent", "quote", "text", "files", "born", "copy"}
                     /\ r.quote \in Msgs \cup {"none"}
                     /\ r.op # "send" => r.on \in Msgs

RowsOK ==
    /\ DOMAIN msg = Msgs /\ \A m \in Msgs : RowOK(msg[m])
    /\ DOMAIN mreq = MessageRequests /\ \A q \in MessageRequests : AskedOK(mreq[q])

QuotesInv == RowsOK /\ QuotesAreMarked

\* The first state satisfies the invariant.
LEMMA InitQuotesInv == MessagesInit => QuotesInv
BY DEF MessagesInit, QuotesInv, RowsOK, RowOK, AskedOK, NoMessage, IdleMessage, QuotesAreMarked

\* What readers are shown follows from the rows.
LEMMA ShownEmpty == RowsOK => DeletedStaysEmpty
BY DEF RowsOK, RowOK, DeletedStaysEmpty, GetPinnedMessages, GetMessages, GetThreadReplies, redactDeletedMessage

\* A request that is answered leaves the others as they were.
LEMMA AnswersKeep ==
    ASSUME RowsOK, NEW q \in MessageRequests, Answered(q)
    PROVE  DOMAIN mreq' = MessageRequests /\ \A p \in MessageRequests : AskedOK(mreq'[p])
BY DEF RowsOK, AskedOK, Answered, IdleMessage

\* A row changed only where neither property looks, or revived by nobody.
LEMMA RowKeeps ==
    ASSUME QuotesInv, NEW q \in MessageRequests, Answered(q), NEW m \in Msgs, NEW x,
           msg' = [msg EXCEPT ![m] = x], RowOK(x), x.quote = msg[m].quote, x.gone = msg[m].gone,
           x.deleted = msg[m].deleted, late' = late
    PROVE  QuotesInv'
<1>1. DOMAIN msg' = Msgs /\ msg'[m] = x /\ \A n \in Msgs \ {m} : msg'[n] = msg[n]
  BY DEF QuotesInv, RowsOK
<1>2. RowsOK'
  BY <1>1, AnswersKeep DEF QuotesInv, RowsOK, RowOK, AskedOK
<1>3. \A n \in Msgs : msg'[n].quote = msg[n].quote /\ msg'[n].gone = msg[n].gone /\ msg'[n].deleted = msg[n].deleted
  BY <1>1
<1> QED BY <1>2, <1>3 DEF QuotesInv, QuotesAreMarked, RowsOK, RowOK

\* A new message is alive and empty of marks; one that quotes a deleted message is late.
LEMMA SendKeeps == ASSUME QuotesInv, NEW q \in MessageRequests, SendMessage(q) PROVE QuotesInv'
<1> DEFINE r == mreq[q]
<1>1. PICK m \in Msgs :
        /\ msg' = [msg EXCEPT ![m] = [NoMessage EXCEPT !.chan = r.chan, !.by = r.by, !.parent = r.parent,
                     !.quote = r.quote, !.text = r.text, !.files = r.files, !.born = r.born]]
        /\ late' = IF r.quote # "none" /\ msg[r.quote].deleted THEN late \cup {m} ELSE late
  BY DEF SendMessage
<1> DEFINE x == [NoMessage EXCEPT !.chan = r.chan, !.by = r.by, !.parent = r.parent,
                     !.quote = r.quote, !.text = r.text, !.files = r.files, !.born = r.born]
<1>2. RowOK(x) /\ x.quote = r.quote /\ x.deleted = FALSE
  BY DEF SendMessage, RowOK, NoMessage, QuotesInv, RowsOK, AskedOK
<1> HIDE DEF x
<1>3. DOMAIN msg' = Msgs /\ msg'[m] = x /\ \A n \in Msgs \ {m} : msg'[n] = msg[n]
  BY <1>1 DEF QuotesInv, RowsOK, x
<1>4. RowsOK'
  <2>1. DOMAIN mreq' = MessageRequests /\ \A p \in MessageRequests : AskedOK(mreq'[p])
    BY AnswersKeep DEF SendMessage, QuotesInv
  <2> QED BY <1>2, <1>3, <2>1 DEF QuotesInv, RowsOK, RowOK, AskedOK
<1>5. QuotesAreMarked'
  <2> SUFFICES ASSUME NEW n \in Msgs, msg'[n].quote # "none", n \notin late', msg'[msg'[n].quote].deleted
               PROVE  msg'[n].gone
    BY DEF QuotesAreMarked
  <2>1. msg'[n].quote \in Msgs /\ msg'[n].quote # m
    BY <1>2, <1>3, <1>4 DEF RowsOK, RowOK
  <2>2. CASE n = m
    BY <1>1, <1>2, <1>3, <2>1, <2>2
  <2>3. CASE n # m
    BY <1>1, <1>3, <2>1, <2>3 DEF QuotesInv, QuotesAreMarked
  <2> QED BY <2>2, <2>3
<1> QED BY <1>4, <1>5 DEF QuotesInv

\* Marking a quote changes nothing else of its row.
LEMMA MarkedRow ==
    ASSUME NEW y, RowOK(y)
    PROVE  LET z == [y EXCEPT !.gone = TRUE]
           IN  RowOK(z) /\ z.gone = TRUE /\ z.quote = y.quote /\ z.deleted = y.deleted
BY DEF RowOK, NoMessage

\* A deletion empties the row and marks every quote of it.
LEMMA DeleteKeeps == ASSUME QuotesInv, NEW q \in MessageRequests, DeleteMessage(q) PROVE QuotesInv'
<1> DEFINE m == mreq[q].on
           x == [msg[m] EXCEPT !.text = 0, !.pinned = FALSE, !.quote = "none", !.gone = FALSE, !.deleted = TRUE]
           rows == [msg EXCEPT ![m] = x]
<1>1. m \in Msgs /\ msg' = Cascade(rows, m) /\ late' = late
  BY DEF DeleteMessage, SoftDeleteWithCascade, QuotesInv, RowsOK, AskedOK
<1>2. RowOK(x) /\ x.quote = "none"
  BY <1>1 DEF QuotesInv, RowsOK, RowOK, NoMessage
<1> HIDE DEF x
<1>3. DOMAIN msg' = Msgs /\ \A n \in Msgs : msg'[n] =
        IF n = m THEN x ELSE IF msg[n].quote = m THEN [msg[n] EXCEPT !.gone = TRUE] ELSE msg[n]
  <2>1. rows[m] = x /\ \A n \in Msgs \ {m} : rows[n] = msg[n]
    BY <1>1 DEF QuotesInv, RowsOK
  <2> HIDE DEF rows
  <2> QED BY <1>1, <1>2, <2>1, MsgsAssumption DEF Cascade
<1>4. \A n \in Msgs \ {m} : /\ RowOK(msg'[n]) /\ msg'[n].quote = msg[n].quote /\ msg'[n].deleted = msg[n].deleted
                            /\ msg'[n].gone = (IF msg[n].quote = m THEN TRUE ELSE msg[n].gone)
  BY <1>3, MarkedRow DEF QuotesInv, RowsOK
<1>5. RowsOK'
  <2>1. DOMAIN mreq' = MessageRequests /\ \A p \in MessageRequests : AskedOK(mreq'[p])
    BY AnswersKeep DEF DeleteMessage, QuotesInv
  <2> QED BY <1>1, <1>2, <1>3, <1>4, <2>1 DEF RowsOK, RowOK, AskedOK
<1>6. QuotesAreMarked'
  <2> SUFFICES ASSUME NEW n \in Msgs, msg'[n].quote # "none", n \notin late', msg'[msg'[n].quote].deleted
               PROVE  msg'[n].gone
    BY DEF QuotesAreMarked
  <2>1. n # m /\ msg[n].quote = msg'[n].quote /\ msg[n].quote \in Msgs
    BY <1>2, <1>3, <1>4, <1>5 DEF RowsOK, RowOK
  <2>2. CASE msg[n].quote = m
    BY <1>4, <2>1, <2>2
  <2>3. CASE msg[n].quote # m
    <3>1. msg[msg[n].quote].deleted
      BY <1>4, <2>1, <2>3
    <3> QED BY <1>1, <1>4, <2>1, <2>3, <3>1 DEF QuotesInv, QuotesAreMarked
  <2> QED BY <2>2, <2>3
<1> QED BY <1>5, <1>6 DEF QuotesInv

\* Edits, moves, pins and removals of files find a row that is not deleted.
LEMMA ChangesKeep ==
    ASSUME QuotesInv, NEW q \in MessageRequests,
           EditMessage(q) \/ RemoveMessageFile(q) \/ MoveMessage(q) \/ PinMessage(q)
    PROVE  QuotesInv'
<1> DEFINE m == mreq[q].on
<1>1. m \in Msgs /\ msg[m].deleted # TRUE /\ late' = late /\ Answered(q)
  BY DEF EditMessage, RemoveMessageFile, MoveMessage, PinMessage, Alive, QuotesInv, RowsOK, AskedOK
<1>2. PICK x : /\ msg' = [msg EXCEPT ![m] = x] /\ DOMAIN x = DOMAIN NoMessage
               /\ x.quote = msg[m].quote /\ x.gone = msg[m].gone /\ x.deleted = msg[m].deleted
  <2>1. DOMAIN msg[m] = DOMAIN NoMessage
    BY <1>1 DEF QuotesInv, RowsOK, RowOK
  <2>2. CASE EditMessage(q)
    <3>1. PICK t : msg' = [msg EXCEPT ![m] = [msg[m] EXCEPT !.text = t]]
      BY <2>2 DEF EditMessage
    <3> DEFINE y == [msg[m] EXCEPT !.text = t]
    <3>2. /\ DOMAIN y = DOMAIN NoMessage /\ y.quote = msg[m].quote
          /\ y.gone = msg[m].gone /\ y.deleted = msg[m].deleted
      BY <2>1 DEF NoMessage
    <3> HIDE DEF y
    <3>3. msg' = [msg EXCEPT ![m] = y]
      BY <3>1 DEF y
    <3> QED BY <3>2, <3>3
  <2>3. CASE RemoveMessageFile(q)
    <3>1. msg' = [msg EXCEPT ![m] = [msg[m] EXCEPT !.files = Remaining(mreq[q])]]
      BY <2>3 DEF RemoveMessageFile
    <3> DEFINE y == [msg[m] EXCEPT !.files = Remaining(mreq[q])]
    <3>2. /\ DOMAIN y = DOMAIN NoMessage /\ y.quote = msg[m].quote
          /\ y.gone = msg[m].gone /\ y.deleted = msg[m].deleted
      BY <2>1 DEF NoMessage
    <3> HIDE DEF y
    <3>3. msg' = [msg EXCEPT ![m] = y]
      BY <3>1 DEF y
    <3> QED BY <3>2, <3>3
  <2>4. CASE MoveMessage(q)
    <3>1. msg' = [msg EXCEPT ![m] = [msg[m] EXCEPT !.chan = mreq[q].chan, !.parent = mreq[q].parent,
                                                   !.pinned = FALSE]]
      BY <2>4 DEF MoveMessage
    <3> DEFINE y == [msg[m] EXCEPT !.chan = mreq[q].chan, !.parent = mreq[q].parent, !.pinned = FALSE]
    <3>2. /\ DOMAIN y = DOMAIN NoMessage /\ y.quote = msg[m].quote
          /\ y.gone = msg[m].gone /\ y.deleted = msg[m].deleted
      BY <2>1 DEF NoMessage
    <3> HIDE DEF y
    <3>3. msg' = [msg EXCEPT ![m] = y]
      BY <3>1 DEF y
    <3> QED BY <3>2, <3>3
  <2>5. CASE PinMessage(q)
    <3>1. msg' = [msg EXCEPT ![m] = [msg[m] EXCEPT !.pinned = (mreq[q].op = "pin")]]
      BY <2>5 DEF PinMessage
    <3> DEFINE y == [msg[m] EXCEPT !.pinned = (mreq[q].op = "pin")]
    <3>2. /\ DOMAIN y = DOMAIN NoMessage /\ y.quote = msg[m].quote
          /\ y.gone = msg[m].gone /\ y.deleted = msg[m].deleted
      BY <2>1 DEF NoMessage
    <3> HIDE DEF y
    <3>3. msg' = [msg EXCEPT ![m] = y]
      BY <3>1 DEF y
    <3> QED BY <3>2, <3>3
  <2> QED BY <2>2, <2>3, <2>4, <2>5
<1>3. RowOK(x)
  BY <1>1, <1>2 DEF QuotesInv, RowsOK, RowOK
<1> QED BY <1>1, <1>2, <1>3, RowKeeps

\* Every step keeps the invariant.
LEMMA NextQuotesInv == QuotesInv /\ [MessagesNext]_messageVars => QuotesInv'
<1> SUFFICES ASSUME QuotesInv, [MessagesNext]_messageVars PROVE QuotesInv'
  OBVIOUS
<1>1. CASE UNCHANGED <<msg, mreq, late>>
  BY <1>1 DEF QuotesInv, RowsOK, RowOK, AskedOK, QuotesAreMarked
<1>2. ASSUME NEW q \in MessageRequests, UNCHANGED <<msg, late>>, Answered(q) PROVE QuotesInv'
  BY <1>2, AnswersKeep DEF QuotesInv, RowsOK, RowOK, AskedOK, QuotesAreMarked
<1>3. ASSUME NEW q \in MessageRequests, MessageAsk(q) PROVE QuotesInv'
  <2>1. PICK r : mreq' = [mreq EXCEPT ![q] = r] /\ AskedOK(r)
    <3>1. PICK op \in MessageOps, u \in Users : \E m \in OnOf(op), c \in ChanOf(op), p \in ParentOf(op),
                 qt \in QuoteOf(op), t \in TextOf(op), F \in FilesOf(op) :
            /\ MessageCheck(Asked(op, u, m, c, p, qt, t, F))
            /\ mreq' = [mreq EXCEPT ![q] = Asked(op, u, m, c, p, qt, t, F)]
      BY <1>3, ZenonT(30) DEF MessageAsk
    <3>2. PICK m \in OnOf(op), c \in ChanOf(op), p \in ParentOf(op),
               qt \in QuoteOf(op), t \in TextOf(op), F \in FilesOf(op) :
            /\ MessageCheck(Asked(op, u, m, c, p, qt, t, F))
            /\ mreq' = [mreq EXCEPT ![q] = Asked(op, u, m, c, p, qt, t, F)]
      BY <3>1
    <3>3. qt \in Msgs \cup {"none"} /\ (op # "send" => m \in Msgs)
      BY DEF OnOf, QuoteOf, MaybeMsg
    <3>4. AskedOK(Asked(op, u, m, c, p, qt, t, F))
      BY <3>3 DEF AskedOK, Asked
    <3> QED BY <3>2, <3>4
  <2>2. DOMAIN mreq' = MessageRequests /\ \A p \in MessageRequests : AskedOK(mreq'[p])
    BY <2>1 DEF QuotesInv, RowsOK
  <2> QED BY <1>3, <2>2 DEF MessageAsk, QuotesInv, RowsOK, RowOK, AskedOK, QuotesAreMarked
<1>4. ASSUME NEW q \in MessageRequests, RemoveLastFile(q) PROVE QuotesInv'
  <2>1. mreq[q].op = "detach" /\ AskedOK(mreq[q])
    BY <1>4 DEF RemoveLastFile, QuotesInv, RowsOK
  <2>2. AskedOK([mreq[q] EXCEPT !.op = "delete"])
    BY <2>1 DEF AskedOK
  <2>3. DOMAIN mreq' = MessageRequests /\ \A p \in MessageRequests : AskedOK(mreq'[p])
    BY <1>4, <2>2 DEF RemoveLastFile, QuotesInv, RowsOK
  <2> QED BY <1>4, <2>3 DEF RemoveLastFile, QuotesInv, RowsOK, RowOK, AskedOK, QuotesAreMarked
<1>5. ASSUME NEW q \in MessageRequests, MessageRollback(q) \/ AddReaction(q) \/ RemoveReaction(q) PROVE QuotesInv'
  BY <1>2, <1>5 DEF MessageRollback, AddReaction, RemoveReaction
<1>6. ASSUME NEW c \in Chans, NEW u \in Users, MarkRead(c, u) PROVE QuotesInv'
  BY <1>1, <1>6 DEF MarkRead
<1>7. CASE UNCHANGED messageVars
  BY <1>1, <1>7 DEF messageVars
<1> QED BY <1>3, <1>4, <1>5, <1>6, <1>7, SendKeeps, DeleteKeeps, ChangesKeep DEF MessagesNext

\* A deleted message stays empty for its readers, however many requests read it
\* before the deletion (message.go's deleted_at IS NULL, redactDeletedMessage).
THEOREM DeletedIsEmpty == MessagesSpec => []DeletedStaysEmpty
<1>1. MessagesSpec => []QuotesInv
  BY InitQuotesInv, NextQuotesInv, PTL DEF MessagesSpec
<1>2. QuotesInv => DeletedStaysEmpty
  BY ShownEmpty DEF QuotesInv
<1> QED BY <1>1, <1>2, PTL

\* The deletion of a message reaches every quote committed before it
\* (SoftDeleteWithCascade).
THEOREM DeletionReachesQuotes == MessagesSpec => []QuotesAreMarked
<1>1. MessagesSpec => []QuotesInv
  BY InitQuotesInv, NextQuotesInv, PTL DEF MessagesSpec
<1> QED BY <1>1, PTL DEF QuotesInv

-----------------------------------------------------------------------------
(* The index queue: rows and claims keep their fields, and who deletes a    *)
(* document does so by the text 0.                                          *)

JobOK(j) ==
    /\ DOMAIN j = {"op", "text", "status", "tries", "lock", "due", "id"}
    /\ j.op = "delete" => j.text = 0

HoldOK(h) ==
    /\ DOMAIN h = {"doc", "op", "text", "tries", "id", "stage"} /\ h.doc \in Docs
    /\ h.op = "delete" => h.text = 0

QueueOK ==
    /\ DOMAIN job = Docs /\ \A d \in Docs : JobOK(job[d])
    /\ DOMAIN hold = Indexers /\ \A w \in Indexers : \A h \in hold[w] : HoldOK(h)
    /\ DOMAIN index = Docs

\* What a step of a worker does to the queue: it writes neither text nor
\* operation, closes no row without a claim whose write went through, and the
\* index gets the text of a claim.
Closes(j, k, d) ==
    /\ JobOK(k) /\ k.text = j.text /\ k.op = j.op /\ (k.status = "none" <=> j.status = "none")
    /\ (k.status = "processed" /\ j.status # "processed") =>
         \E w \in Indexers : \E h \in hold[w] : h.doc = d /\ h.stage = "applied"

HoldFrom(w, g) ==
    /\ HoldOK(g)
    /\ \/ g \in hold[w]
       \/ g.text = job[g.doc].text /\ g.stage = "apply" /\ job[g.doc].status # "none"
       \/ \E h \in hold[w] : /\ g.doc = h.doc /\ g.text = h.text
                             /\ g.stage # "applied" \/ (h.stage = "apply" /\ index'[h.doc] = h.text)

IndexFrom(d) ==
    \/ index'[d] = index[d]
    \/ \E w \in Indexers : \E h \in hold[w] : h.doc = d /\ index'[d] = h.text

WorkerStep ==
    /\ UNCHANGED <<rebuild, epoch, overtaken>>
    /\ DOMAIN job' = Docs /\ DOMAIN hold' = Indexers /\ DOMAIN index' = Docs
    /\ \A d \in Docs : Closes(job[d], job'[d], d) /\ IndexFrom(d)
    /\ \A w \in Indexers : \A g \in hold'[w] : HoldFrom(w, g)

LEMMA SameJobs ==
    ASSUME QueueOK, NEW d \in Docs
    PROVE  Closes(job[d], job[d], d)
BY DEF QueueOK, Closes

LEMMA ClaimedOK ==
    ASSUME QueueOK, NEW d \in Docs
    PROVE  HoldOK(Claimed(d)) /\ Claimed(d).doc = d /\ Claimed(d).text = job[d].text /\ Claimed(d).stage = "apply"
BY DEF QueueOK, JobOK, HoldOK, Claimed

\* A worker writes these columns of a row.
WorkersColumns(j, k) ==
    /\ DOMAIN k = DOMAIN j /\ k.op = j.op /\ k.text = j.text /\ k.id = j.id

TakenRow(j, n) == [j EXCEPT !.status = "processing", !.lock = "fresh", !.tries = n]

LEMMA TakenOK ==
    ASSUME NEW j, JobOK(j), NEW n
    PROVE  WorkersColumns(j, TakenRow(j, n)) /\ TakenRow(j, n).status = "processing"
BY DEF JobOK, WorkersColumns, TakenRow

LEMMA ClaimStep ==
    ASSUME QueueOK, NEW w \in Indexers, ClaimPendingJobs(w)
    PROVE  WorkerStep
<1>1. PICK B \in SUBSET ClaimableJobs :
        /\ hold' = [hold EXCEPT ![w] = {Claimed(d) : d \in B}]
        /\ job' = [d \in Docs |-> IF d \in B
                     THEN [job[d] EXCEPT !.status = "processing", !.lock = "fresh", !.tries = @ + 1]
                     ELSE job[d]]
        /\ UNCHANGED <<index, rebuild, epoch, overtaken>>
  BY DEF ClaimPendingJobs
<1>2. B \subseteq Docs /\ \A d \in B : job[d].status # "none"
  BY DEF ClaimableJobs
<1>3. \A d \in Docs : Closes(job[d], job'[d], d) /\ IndexFrom(d)
  <2> TAKE d \in Docs
  <2>1. CASE d \in B
    <3>1. job'[d] = [job[d] EXCEPT !.status = "processing", !.lock = "fresh", !.tries = job[d].tries + 1]
      BY <1>1, <2>1
    <3>2. JobOK(job[d])
      BY DEF QueueOK
    <3> DEFINE n == job[d].tries + 1
    <3> HIDE DEF n
    <3>3. job'[d] = TakenRow(job[d], n)
      BY <3>1 DEF n, TakenRow
    <3>4. WorkersColumns(job[d], job'[d]) /\ job'[d].status = "processing"
      BY <3>2, <3>3, TakenOK
    <3> QED BY <1>1, <1>2, <2>1, <3>2, <3>4 DEF Closes, IndexFrom, JobOK, WorkersColumns
  <2>2. CASE d \notin B
    BY <1>1, <2>2, SameJobs DEF IndexFrom
  <2> QED BY <2>1, <2>2
<1>4. \A v \in Indexers : \A g \in hold'[v] : HoldFrom(v, g)
  <2> SUFFICES ASSUME NEW v \in Indexers, NEW g \in hold'[v] PROVE HoldFrom(v, g)
    OBVIOUS
  <2>1. CASE v = w
    <3>1. PICK d \in B : g = Claimed(d)
      BY <1>1, <2>1 DEF QueueOK
    <3> QED BY <1>2, <3>1, ClaimedOK DEF HoldFrom
  <2>2. CASE v # w
    BY <1>1, <2>2 DEF QueueOK, HoldFrom
  <2> QED BY <2>1, <2>2
<1> QED BY <1>1, <1>3, <1>4 DEF QueueOK, WorkerStep

SettledRow(j, status, due) == [j EXCEPT !.status = status, !.lock = "none", !.due = due]

LEMMA SettledOK ==
    ASSUME NEW j, JobOK(j), NEW status, NEW due
    PROVE  WorkersColumns(j, SettledRow(j, status, due)) /\ SettledRow(j, status, due).status = status
BY DEF JobOK, WorkersColumns, SettledRow

\* A row is closed under the claim whose write went through.
LEMMA SettleCloses ==
    ASSUME QueueOK, NEW w \in Indexers, NEW h \in hold[w], NEW status, NEW due, Settle(h, status, due),
           status # "none", status = "processed" => h.stage = "applied"
    PROVE  DOMAIN job' = Docs /\ \A d \in Docs : Closes(job[d], job'[d], d)
<1>1. CASE job' = job
  BY <1>1, SameJobs DEF QueueOK
<1>2. CASE job' # job
  <2>1. h.doc \in Docs /\ job[h.doc].status # "none" /\ JobOK(job[h.doc])
    BY <1>2 DEF QueueOK, HoldOK, Settle
  <2>2. job' = [job EXCEPT ![h.doc] = SettledRow(job[h.doc], status, due)]
    BY <1>2 DEF Settle, SettledRow
  <2>3. DOMAIN job' = Docs /\ job'[h.doc] = SettledRow(job[h.doc], status, due)
    BY <2>1, <2>2 DEF QueueOK
  <2>4. \A d \in Docs \ {h.doc} : job'[d] = job[d]
    BY <2>2 DEF QueueOK
  <2>5. WorkersColumns(job[h.doc], job'[h.doc]) /\ job'[h.doc].status = status
    BY <2>1, <2>3, SettledOK
  <2>6. Closes(job[h.doc], job'[h.doc], h.doc)
    BY <2>1, <2>5 DEF Closes, JobOK, WorkersColumns
  <2> QED BY <2>3, <2>4, <2>6, SameJobs
<1> QED BY <1>1, <1>2

MovedHold(h, stage) == [h EXCEPT !.stage = stage]

LEMMA MovedOK ==
    ASSUME NEW h, HoldOK(h), NEW stage
    PROVE  /\ HoldOK(MovedHold(h, stage)) /\ MovedHold(h, stage).doc = h.doc
           /\ MovedHold(h, stage).text = h.text /\ MovedHold(h, stage).stage = stage
BY DEF HoldOK, MovedHold

\* Claims that are dropped leave the others as they were.
LEMMA DropsHold ==
    ASSUME QueueOK, NEW w \in Indexers, NEW H, H \subseteq hold[w], hold' = [hold EXCEPT ![w] = H]
    PROVE  DOMAIN hold' = Indexers /\ \A v \in Indexers : \A g \in hold'[v] : HoldFrom(v, g)
BY DEF QueueOK, HoldFrom

\* A claim that moves on was in the stage before.
LEMMA MovesHold ==
    ASSUME QueueOK, NEW w \in Indexers, NEW h \in hold[w], NEW stage, Moves(w, h, stage),
           h.stage = "apply", stage = "applied" => index'[h.doc] = h.text
    PROVE  DOMAIN hold' = Indexers /\ \A v \in Indexers : \A g \in hold'[v] : HoldFrom(v, g)
<1>1. hold' = [hold EXCEPT ![w] = (hold[w] \ {h}) \cup {MovedHold(h, stage)}]
  BY DEF Moves, MovedHold
<1>2. DOMAIN hold' = Indexers /\ hold'[w] = (hold[w] \ {h}) \cup {MovedHold(h, stage)}
  BY <1>1 DEF QueueOK
<1>3. \A v \in Indexers \ {w} : hold'[v] = hold[v]
  BY <1>1 DEF QueueOK
<1>4. HoldFrom(w, MovedHold(h, stage))
  BY MovedOK DEF QueueOK, HoldFrom
<1>5. \A v \in Indexers : \A g \in hold[v] : HoldFrom(v, g)
  BY DEF QueueOK, HoldFrom
<1> QED BY <1>2, <1>3, <1>4, <1>5

\* What is applied is the text of the claim; a deletion writes the text 0.
LEMMA AppliesText ==
    ASSUME QueueOK, NEW w \in Indexers, NEW h \in hold[w], ApplyJob(h)
    PROVE  /\ DOMAIN index' = Docs /\ index'[h.doc] = h.text
           /\ \A d \in Docs : IndexFrom(d)
BY DEF QueueOK, HoldOK, ApplyJob, UpsertDocument, IndexFrom

LEMMA ApplyStep ==
    ASSUME QueueOK, NEW w \in Indexers, NEW h \in hold[w], ApplyOk(w, h) \/ ApplyError(w, h)
    PROVE  WorkerStep
<1>1. h.stage = "apply" /\ UNCHANGED <<job, rebuild, epoch, overtaken>>
  BY DEF ApplyOk, ApplyError
<1>2. DOMAIN index' = Docs /\ \A d \in Docs : IndexFrom(d)
  BY AppliesText DEF ApplyOk, ApplyError, QueueOK, IndexFrom
<1>3. PICK stage : Moves(w, h, stage) /\ (stage = "applied" => index'[h.doc] = h.text)
  BY AppliesText DEF ApplyOk, ApplyError
<1>4. DOMAIN hold' = Indexers /\ \A v \in Indexers : \A g \in hold'[v] : HoldFrom(v, g)
  BY <1>1, <1>3, MovesHold
<1>5. DOMAIN job' = Docs /\ \A d \in Docs : Closes(job[d], job'[d], d)
  BY <1>1, SameJobs DEF QueueOK
<1> QED BY <1>1, <1>2, <1>4, <1>5 DEF WorkerStep

LEMMA FinishStep ==
    ASSUME QueueOK, NEW w \in Indexers, NEW h \in hold[w],
           CompleteJob(w, h) \/ CompleteJobError(w, h) \/ FailJob(w, h)
    PROVE  WorkerStep
<1>1. UNCHANGED <<index, rebuild, epoch, overtaken>>
  BY DEF CompleteJob, CompleteJobError, FailJob
<1>2. DOMAIN index' = Docs /\ \A d \in Docs : IndexFrom(d)
  BY <1>1 DEF QueueOK, IndexFrom
<1>3. PICK H : H \subseteq hold[w] /\ hold' = [hold EXCEPT ![w] = H]
  BY DEF CompleteJob, CompleteJobError, FailJob, Finishes
<1>4. DOMAIN hold' = Indexers /\ \A v \in Indexers : \A g \in hold'[v] : HoldFrom(v, g)
  BY <1>3, DropsHold
<1>5. DOMAIN job' = Docs /\ \A d \in Docs : Closes(job[d], job'[d], d)
  <2>1. CASE job' = job
    BY <2>1, SameJobs DEF QueueOK
  <2>2. CASE job' # job
    <3>1. CASE CompleteJob(w, h) \/ CompleteJobError(w, h)
      <4>1. PICK due : Settle(h, "processed", due) /\ h.stage = "applied"
        BY <2>2, <3>1, Zenon DEF CompleteJob, CompleteJobError
      <4> QED BY <4>1, SettleCloses
    <3>2. CASE FailJob(w, h)
      <4>1. Settle(h, "dead", TRUE) \/ Settle(h, "failed", FALSE)
        BY <3>2 DEF FailJob
      <4> QED BY <4>1, SettleCloses
    <3> QED BY <3>1, <3>2
  <2> QED BY <2>1, <2>2
<1> QED BY <1>1, <1>2, <1>4, <1>5 DEF WorkerStep

LeaseRow(j) == [j EXCEPT !.lock = "stale"]
DueRow(j) == [j EXCEPT !.due = TRUE]

LEMMA ClockOK ==
    ASSUME NEW j, JobOK(j)
    PROVE  /\ WorkersColumns(j, LeaseRow(j)) /\ LeaseRow(j).status = j.status
           /\ WorkersColumns(j, DueRow(j)) /\ DueRow(j).status = j.status
BY DEF JobOK, WorkersColumns, LeaseRow, DueRow

LEMMA ClockStep ==
    ASSUME QueueOK, NEW d \in Docs, JobLeaseExpire(d) \/ JobRetryDue(d)
    PROVE  WorkerStep
<1>1. UNCHANGED <<index, hold, rebuild, epoch, overtaken>>
  BY DEF JobLeaseExpire, JobRetryDue
<1>2. JobOK(job[d])
  BY DEF QueueOK
<1>3. job' = [job EXCEPT ![d] = LeaseRow(job[d])] \/ job' = [job EXCEPT ![d] = DueRow(job[d])]
  BY DEF JobLeaseExpire, JobRetryDue, LeaseRow, DueRow
<1>4. DOMAIN job' = Docs /\ (\A e \in Docs \ {d} : job'[e] = job[e])
  BY <1>3 DEF QueueOK
<1>5. job'[d] = LeaseRow(job[d]) \/ job'[d] = DueRow(job[d])
  BY <1>3 DEF QueueOK
<1>6. WorkersColumns(job[d], job'[d]) /\ job'[d].status = job[d].status
  BY <1>2, <1>5, ClockOK
<1>7. Closes(job[d], job'[d], d)
  BY <1>2, <1>6 DEF Closes, JobOK, WorkersColumns
<1> QED BY <1>1, <1>4, <1>7, SameJobs DEF QueueOK, WorkerStep, IndexFrom, HoldFrom

\* Every step of the workers and of the clock.
LEMMA WorkersStep ==
    ASSUME QueueOK, WorkersNext
    PROVE  WorkerStep
<1>1. ASSUME NEW w \in Indexers, IndexerCrash(w) PROVE WorkerStep
  <2>1. hold' = [hold EXCEPT ![w] = {}] /\ UNCHANGED <<job, index, rebuild, epoch, overtaken>>
    BY <1>1 DEF IndexerCrash
  <2>2. PICK H : H \subseteq hold[w] /\ hold' = [hold EXCEPT ![w] = H]
    BY <2>1
  <2>3. DOMAIN hold' = Indexers /\ \A v \in Indexers : \A g \in hold'[v] : HoldFrom(v, g)
    BY <2>2, DropsHold
  <2> QED BY <2>1, <2>3, SameJobs DEF QueueOK, WorkerStep, IndexFrom
<1> QED BY <1>1, ClaimStep, ApplyStep, FinishStep, ClockStep DEF WorkersNext, IndexerNext

\* The queue stays well formed under its workers.
LEMMA WorkersKeepQueue == QueueOK /\ WorkerStep => QueueOK'
BY DEF QueueOK, WorkerStep, Closes, HoldFrom

\* What a producer does to the row of d: one pending job with the new text, and a
\* note of the claims and rows of the rebuild it overtakes.
Enqueued(d, t) ==
    /\ DOMAIN job' = Docs /\ JobOK(job'[d]) /\ job'[d].text = t /\ job'[d].status = "pending"
    /\ \A e \in Docs \ {d} : job'[e] = job[e]
    /\ UNCHANGED <<index, hold, rebuild>>
    /\ overtaken \subseteq overtaken' /\ (InFlight(d) => d \in overtaken')

RenewedOK(x, op, t) == DOMAIN x = {"op", "text", "status", "tries", "lock", "due", "id"}
                         /\ x.op = op /\ x.text = t /\ x.status = "pending"

LEMMA RenewedRow ==
    ASSUME NEW j, NEW op, NEW t
    PROVE  RenewedOK(Renewed(j, op, t), op, t)
BY DEF Renewed, RenewedOK

LEMMA UpsertEnqueues ==
    ASSUME QueueOK, NEW d \in Docs, NEW t, Enqueue({d}, EnqueueUpsert(d, t))
    PROVE  Enqueued(d, t)
<1>1. RenewedOK(Renewed(job[d], "upsert", t), "upsert", t)
  BY RenewedRow
<1>2. job' = [job EXCEPT ![d] = Renewed(job[d], "upsert", t)]
  BY DEF Enqueue, EnqueueUpsert
<1>3. JobOK(job'[d]) /\ job'[d].text = t /\ job'[d].status = "pending"
  BY <1>1, <1>2 DEF QueueOK, RenewedOK, JobOK
<1>4. DOMAIN job' = Docs /\ \A e \in Docs \ {d} : job'[e] = job[e]
  BY <1>2 DEF QueueOK
<1> QED BY <1>3, <1>4 DEF Enqueue, Enqueued

LEMMA DeleteEnqueues ==
    ASSUME QueueOK, NEW d \in Docs, Enqueue({d}, EnqueueDelete(d))
    PROVE  Enqueued(d, 0)
<1>1. RenewedOK(Renewed(job[d], "delete", 0), "delete", 0)
  BY RenewedRow
<1>2. job' = [job EXCEPT ![d] = Renewed(job[d], "delete", 0)]
  BY DEF Enqueue, EnqueueDelete
<1>3. JobOK(job'[d]) /\ job'[d].text = 0 /\ job'[d].status = "pending"
  BY <1>1, <1>2 DEF QueueOK, RenewedOK, JobOK
<1>4. DOMAIN job' = Docs /\ \A e \in Docs \ {d} : job'[e] = job[e]
  BY <1>2 DEF QueueOK
<1> QED BY <1>3, <1>4 DEF Enqueue, Enqueued

LEMMA ProducersKeepQueue ==
    ASSUME QueueOK, NEW d \in Docs, NEW t, Enqueued(d, t)
    PROVE  QueueOK'
BY DEF QueueOK, Enqueued

-----------------------------------------------------------------------------
(* Channels: the job of a channel is written from the row its transaction   *)
(* writes, so it says what the newest row says.                             *)

ChanRowOK(x) == DOMAIN x = {"type", "archived", "name"}

\* A request that rewrites a channel holds a copy of a row that existed.
RewritesOK(r) ==
    r.op \in {"rename", "archive", "unarchive"} =>
        r.chan \in Chans /\ ChanRowOK(r.copy) /\ r.copy.type # "none"

ChannelsOK ==
    /\ QueueOK
    /\ DOMAIN chan = Chans /\ \A c \in Chans : ChanRowOK(chan[c])
    /\ \A c \in Chans : ~Exists(c) => job[c].status = "none"
    /\ DOMAIN chreq = ChannelRequests /\ \A q \in ChannelRequests : RewritesOK(chreq[q])

ChannelsInv == ChannelsOK /\ ChannelJobsCurrent

\* The first state satisfies the invariant.
LEMMA InitChannelsInv == SearchInit /\ ChannelsInit => ChannelsInv
BY ChansAssumption
   DEF SearchInit, ChannelsInit, ChannelsInv, ChannelsOK, QueueOK, JobOK, HoldOK, NoJob, ChanRowOK, NoChannel,
       Exists, RewritesOK, IdleChannel, ChannelJobsCurrent

\* A request that is answered leaves the others as they were.
LEMMA DoneKeeps ==
    ASSUME ChannelsOK, NEW q \in ChannelRequests, Done(q)
    PROVE  DOMAIN chreq' = ChannelRequests /\ \A p \in ChannelRequests : RewritesOK(chreq'[p])
BY DEF ChannelsOK, Done, RewritesOK, IdleChannel

\* A channel row and its job that a transaction writes together.
LEMMA WritesTogether ==
    ASSUME ChannelsInv, NEW q \in ChannelRequests, Done(q), NEW c \in Chans, NEW ch,
           ChanRowOK(ch), ch.type # "none", chan' = [chan EXCEPT ![c] = ch],
           Enqueued(c, ChannelText(ch))
    PROVE  ChannelsInv'
<1>1. DOMAIN chan' = Chans /\ chan'[c] = ch /\ \A x \in Chans \ {c} : chan'[x] = chan[x]
  BY DEF ChannelsInv, ChannelsOK
<1>2. c \in Docs /\ job'[c].text = ChannelText(ch) /\ job'[c].status = "pending"
      /\ \A x \in Chans \ {c} : job'[x] = job[x]
  BY ChansAssumption DEF Enqueued
<1>3. QueueOK'
  BY <1>2, ProducersKeepQueue DEF ChannelsInv, ChannelsOK
<1>4. DOMAIN chreq' = ChannelRequests /\ \A p \in ChannelRequests : RewritesOK(chreq'[p])
  BY DoneKeeps DEF ChannelsInv
<1>5. ChannelsOK'
  BY <1>1, <1>2, <1>3, <1>4 DEF ChannelsInv, ChannelsOK, Exists, RewritesOK
<1>6. ChannelJobsCurrent'
  <2> SUFFICES ASSUME NEW x \in Chans, Exists(x)'
               PROVE  (/\ job[x].status # "none" => job[x].text = ChannelText(chan[x])
                       /\ job[x].status = "none" => ChannelText(chan[x]) = 0)'
    BY DEF ChannelJobsCurrent
  <2>1. CASE x = c
    BY <1>1, <1>2, <2>1 DEF ChannelText, isSearchableChannel
  <2>2. CASE x # c
    BY <1>1, <1>2, <2>2 DEF ChannelsInv, ChannelJobsCurrent, Exists, ChannelText, isSearchableChannel
  <2> QED BY <2>1, <2>2
<1> QED BY <1>5, <1>6 DEF ChannelsInv

LEMMA CreateKeeps == ASSUME ChannelsInv, NEW q \in ChannelRequests, CreateChannel(q) PROVE ChannelsInv'
<1>1. PICK c \in Chans, type \in {"public", "private"} :
        /\ chan' = [chan EXCEPT ![c] = [type |-> type, archived |-> FALSE, name |-> 1]]
        /\ enqueueChannelSearchTx(c, [type |-> type, archived |-> FALSE, name |-> 1])
  BY DEF CreateChannel
<1> DEFINE ch == [type |-> type, archived |-> FALSE, name |-> 1]
<1>2. ChanRowOK(ch) /\ ch.type # "none" /\ isSearchableChannel(ch) /\ ch.name = 1 /\ ChannelText(ch) = 1
  BY DEF ChanRowOK, isSearchableChannel, ChannelText
<1>3. chan' = [chan EXCEPT ![c] = ch] /\ enqueueChannelSearchTx(c, ch)
  BY <1>1
<1> HIDE DEF ch
<1>4. Enqueue({c}, EnqueueUpsert(c, 1))
  BY <1>2, <1>3 DEF enqueueChannelSearchTx
<1>5. Enqueued(c, ChannelText(ch))
  BY <1>2, <1>4, UpsertEnqueues, ChansAssumption DEF ChannelsInv, ChannelsOK
<1> QED BY <1>2, <1>3, <1>5, WritesTogether DEF CreateChannel

\* The row is rewritten from the copy: it still exists.
LEMMA RewrittenRow ==
    ASSUME NEW r, RewritesOK(r), r.op \in {"rename", "archive", "unarchive"}
    PROVE  ChanRowOK(Rewritten(r)) /\ Rewritten(r).type # "none"
<1> USE DEF RewritesOK, ChanRowOK
<1>1. CASE r.op = "rename"
  <2>1. Rewritten(r) = [r.copy EXCEPT !.name = 3 - @]
    BY <1>1 DEF Rewritten
  <2> QED BY <1>1, <2>1
<1>2. CASE r.op = "archive"
  <2>1. Rewritten(r) = [r.copy EXCEPT !.archived = TRUE]
    BY <1>2 DEF Rewritten
  <2> QED BY <1>2, <2>1
<1>3. CASE r.op = "unarchive"
  <2>1. Rewritten(r) = [r.copy EXCEPT !.archived = FALSE]
    BY <1>3 DEF Rewritten
  <2> QED BY <1>3, <2>1
<1> QED BY <1>1, <1>2, <1>3

LEMMA UpdateKeeps == ASSUME ChannelsInv, NEW q \in ChannelRequests, UpdateChannel(q) PROVE ChannelsInv'
<1> DEFINE r == chreq[q]
<1>1. r.op \in {"rename", "archive", "unarchive"} /\ RewritesOK(r)
  BY DEF UpdateChannel, ChannelsInv, ChannelsOK
<1>2. /\ chan' = [chan EXCEPT ![r.chan] = Rewritten(r)]
      /\ enqueueChannelSearchSyncTx(r.chan, Rewritten(r))
  BY DEF UpdateChannel
<1>3. r.chan \in Chans /\ ChanRowOK(Rewritten(r)) /\ Rewritten(r).type # "none"
  BY <1>1, RewrittenRow DEF RewritesOK
<1>4. Enqueued(r.chan, ChannelText(Rewritten(r)))
  <2>1. CASE isSearchableChannel(Rewritten(r))
    <3>1. Enqueue({r.chan}, EnqueueUpsert(r.chan, Rewritten(r).name)) /\ ChannelText(Rewritten(r)) = Rewritten(r).name
      BY <1>2, <2>1 DEF enqueueChannelSearchSyncTx, enqueueChannelSearchTx, ChannelText
    <3> QED BY <1>3, <3>1, UpsertEnqueues, ChansAssumption DEF ChannelsInv, ChannelsOK
  <2>2. CASE ~isSearchableChannel(Rewritten(r))
    <3>1. Enqueue({r.chan}, EnqueueDelete(r.chan)) /\ ChannelText(Rewritten(r)) = 0
      BY <1>2, <2>2 DEF enqueueChannelSearchSyncTx, ChannelText
    <3> QED BY <1>3, <3>1, DeleteEnqueues, ChansAssumption DEF ChannelsInv, ChannelsOK
  <2> QED BY <2>1, <2>2
<1> QED BY <1>2, <1>3, <1>4, WritesTogether DEF UpdateChannel

\* A new DM has no job, and needs none.
LEMMA DMKeeps == ASSUME ChannelsInv, NEW q \in ChannelRequests, GetOrCreateDM(q) PROVE ChannelsInv'
<1> DEFINE dm == [type |-> "dm", archived |-> FALSE, name |-> 1]
<1>1. PICK c \in Chans : ~Exists(c) /\ chan' = [chan EXCEPT ![c] = dm]
  BY DEF GetOrCreateDM
<1>2. UNCHANGED searchVars /\ Done(q)
  BY DEF GetOrCreateDM
<1>3. ChanRowOK(dm) /\ dm.type = "dm" /\ ChannelText(dm) = 0
  BY DEF ChanRowOK, ChannelText, isSearchableChannel
<1> HIDE DEF dm
<1>4. DOMAIN chan' = Chans /\ chan'[c] = dm /\ \A x \in Chans \ {c} : chan'[x] = chan[x]
  BY <1>1 DEF ChannelsInv, ChannelsOK
<1>5. DOMAIN chreq' = ChannelRequests /\ \A p \in ChannelRequests : RewritesOK(chreq'[p])
  BY <1>2, DoneKeeps DEF ChannelsInv
<1>6. QueueOK'
  BY <1>2 DEF searchVars, ChannelsInv, ChannelsOK, QueueOK
<1>7. ChannelsOK'
  BY <1>2, <1>3, <1>4, <1>5, <1>6 DEF searchVars, ChannelsInv, ChannelsOK, Exists, RewritesOK
<1>8. ChannelJobsCurrent'
  BY <1>1, <1>2, <1>3, <1>4 DEF searchVars, ChannelsInv, ChannelsOK, Exists, ChannelJobsCurrent, ChannelText, isSearchableChannel
<1> QED BY <1>7, <1>8 DEF ChannelsInv

\* Everything else leaves the rows of the channels and the queue alone.
LEMMA OthersKeep ==
    ASSUME ChannelsInv, UNCHANGED <<chan, searchVars>>,
           DOMAIN chreq' = ChannelRequests, \A p \in ChannelRequests : RewritesOK(chreq'[p])
    PROVE  ChannelsInv'
BY DEF searchVars, ChannelsInv, ChannelsOK, QueueOK, Exists, RewritesOK, ChannelJobsCurrent, ChannelText, isSearchableChannel

LEMMA AskKeeps == ASSUME ChannelsInv, NEW q \in ChannelRequests, ChannelAsk(q) PROVE ChannelsInv'
<1>1. PICK op \in ChannelOps, u \in Users : \E t \in Targets(op), c \in ChansOf(op), i \in InvitesOf(op) :
        LET r == [op |-> op, by |-> u, on |-> t, chan |-> c, inv |-> i,
                  copy |-> IF c = "none" THEN NoChannel ELSE chan[c]]
        IN  ChannelCheck(r) /\ chreq' = [chreq EXCEPT ![q] = r]
  BY DEF ChannelAsk
<1>2. PICK t \in Targets(op), c \in ChansOf(op), i \in InvitesOf(op) :
        LET r == [op |-> op, by |-> u, on |-> t, chan |-> c, inv |-> i,
                  copy |-> IF c = "none" THEN NoChannel ELSE chan[c]]
        IN  ChannelCheck(r) /\ chreq' = [chreq EXCEPT ![q] = r]
  BY <1>1
<1> DEFINE r == [op |-> op, by |-> u, on |-> t, chan |-> c, inv |-> i,
                 copy |-> IF c = "none" THEN NoChannel ELSE chan[c]]
<1>3. RewritesOK(r)
  <2> SUFFICES ASSUME op \in {"rename", "archive", "unarchive"} PROVE RewritesOK(r)
    BY DEF RewritesOK
  <2>1. c \in Chans /\ c # "none"
    BY ChansAssumption DEF ChansOf
  <2>2. UpdateChannelCheck(c, u, op)
    BY <1>2 DEF ChannelCheck
  <2>3. Exists(c)
    BY <2>2 DEF UpdateChannelCheck, authorizeChannel
  <2> QED BY <2>1, <2>3 DEF RewritesOK, Exists, ChannelsInv, ChannelsOK
<1>4. chreq' = [chreq EXCEPT ![q] = r]
  BY <1>2
<1> HIDE DEF r
<1>5. DOMAIN chreq' = ChannelRequests /\ \A p \in ChannelRequests : RewritesOK(chreq'[p])
  BY <1>3, <1>4 DEF ChannelsInv, ChannelsOK
<1> QED BY <1>5, OthersKeep DEF ChannelAsk

\* Every step keeps the invariant.
LEMMA NextChannelsInv ==
    ChannelsInv /\ [\/ ChannelsNext
                    \/ WorkspaceNext /\ UNCHANGED <<searchVars, channelVars>>
                    \/ WorkersNext /\ UNCHANGED <<workspaceVars, channelVars>>]_<<workspaceVars, searchVars, channelVars>>
      => ChannelsInv'
<1> SUFFICES ASSUME ChannelsInv,
                    [\/ ChannelsNext
                     \/ WorkspaceNext /\ UNCHANGED <<searchVars, channelVars>>
                     \/ WorkersNext /\ UNCHANGED <<workspaceVars, channelVars>>]_<<workspaceVars, searchVars, channelVars>>
             PROVE  ChannelsInv'
  OBVIOUS
<1>1. CASE UNCHANGED <<searchVars, chan, chreq>>
  BY <1>1, OthersKeep DEF ChannelsInv, ChannelsOK
<1>2. CASE WorkersNext /\ UNCHANGED channelVars
  <2>1. QueueOK' /\ UNCHANGED <<chan, chreq>>
        /\ \A d \in Docs : Closes(job[d], job'[d], d)
    BY <1>2, WorkersStep, WorkersKeepQueue DEF WorkerStep, channelVars, ChannelsInv, ChannelsOK
  <2> QED BY <2>1, ChansAssumption DEF ChannelsInv, ChannelsOK, ChannelJobsCurrent, Closes,
                                       Exists, RewritesOK, ChannelText, isSearchableChannel
<1>3. ASSUME NEW q \in ChannelRequests,
             \/ ChannelRollback(q) \/ JoinsChannel(q) \/ LeavesChannel(q)
             \/ updateDMRequestStatus(q) \/ RedeemInvite(q)
      PROVE  ChannelsInv'
  <2>1. Done(q) /\ UNCHANGED <<chan, searchVars>>
    BY <1>3 DEF ChannelRollback, JoinsChannel, LeavesChannel, updateDMRequestStatus, RedeemInvite
  <2> QED BY <2>1, DoneKeeps, OthersKeep DEF ChannelsInv
<1>4. ASSUME NEW i \in Invites,
             \/ \E u \in Users, C \in SUBSET Chans, call \in BOOLEAN : CreateInvite(i, u, C, call)
             \/ RevokeInvite(i) \/ InviteExpires(i)
      PROVE  ChannelsInv'
  BY <1>1, <1>4 DEF CreateInvite, RevokeInvite, InviteExpires
<1>5. CASE RequestConnection \/ ApproveConnection \/ ConnectionExpires
  BY <1>1, <1>5 DEF RequestConnection, ApproveConnection, ConnectionExpires
<1>6. CASE WorkspaceNext /\ UNCHANGED <<searchVars, channelVars>>
  BY <1>1, <1>6 DEF channelVars
<1>7. CASE UNCHANGED <<workspaceVars, searchVars, channelVars>>
  BY <1>1, <1>7 DEF channelVars
<1>8. CASE ChannelsNext
  BY <1>3, <1>4, <1>5, <1>8, AskKeeps, CreateKeeps, UpdateKeeps, DMKeeps, ZenonT(30) DEF ChannelsNext
<1> QED BY <1>2, <1>6, <1>7, <1>8

\* The newest job of a channel says what its row says, however many updates were
\* prepared from stale copies (enqueueChannelSearchSyncTx), while nobody rebuilds
\* the index.
THEOREM JobsSayTheRows == ChannelsSpec => []ChannelJobsCurrent
<1>1. ChannelsSpec => []ChannelsInv
  BY InitChannelsInv, NextChannelsInv, PTL DEF ChannelsSpec
<1> QED BY <1>1, PTL DEF ChannelsInv

\* The counter of an invite is the number of its grants.
InviteOK(x) == DOMAIN x = {"status", "uses", "chans", "call", "expired"}

Counted(i) == IsFiniteSet(GrantsOf(i)) /\ Cardinality(GrantsOf(i)) = invite[i].uses

InvitesInv ==
    /\ DOMAIN invite = Invites /\ \A i \in Invites : InviteOK(invite[i]) /\ Counted(i)
    /\ DOMAIN chreq = ChannelRequests
    /\ \A q \in ChannelRequests : chreq[q].op = "redeem" => chreq[q].inv \in Invites

LEMMA InitInvitesInv == ChannelsInit => InvitesInv
<1> SUFFICES ASSUME ChannelsInit PROVE InvitesInv
  OBVIOUS
<1>1. \A i \in Invites : GrantsOf(i) = {} /\ invite[i] = NoInvite
  BY DEF ChannelsInit, GrantsOf
<1>2. \A i \in Invites : InviteOK(invite[i]) /\ Counted(i)
  BY <1>1, FS_EmptySet DEF NoInvite, InviteOK, Counted
<1> QED BY <1>2 DEF ChannelsInit, InvitesInv, IdleChannel

\* An invite that changes without its counter keeps its grants.
LEMMA SameCounter ==
    ASSUME InvitesInv, grants' = grants, DOMAIN invite' = Invites,
           \A i \in Invites : InviteOK(invite'[i]) /\ invite'[i].uses = invite[i].uses
    PROVE  \A i \in Invites : InviteOK(invite[i])' /\ Counted(i)'
BY DEF InvitesInv, Counted, GrantsOf, InviteOK

\* A redemption finds the counter below its bound and adds one grant to it.
LEMMA RedeemCounts ==
    ASSUME InvitesInv, NEW q \in ChannelRequests, RedeemInvite(q)
    PROVE  /\ InvitesInv'
           /\ \A g \in grants' \ grants : /\ invite[g.invite].status = "active"
                                          /\ Cardinality(GrantsOf(g.invite)) < InviteUses
<1> DEFINE r == chreq[q]
           n == [invite |-> r.inv, user |-> r.by, chans |-> invite[r.inv].chans, call |-> invite[r.inv].call]
<1>1. r.inv \in Invites
  BY DEF RedeemInvite, InvitesInv
<1>2. /\ grants' = grants \cup {n} /\ n.invite = r.inv /\ n \notin grants
      /\ invite[r.inv].uses < InviteUses /\ invite[r.inv].status = "active"
      /\ invite' = [invite EXCEPT ![r.inv].uses = @ + 1]
  BY DEF RedeemInvite, IncrementUseCount
<1> HIDE DEF n
<1>3. ASSUME NEW i \in Invites PROVE InviteOK(invite'[i]) /\ Counted(i)'
  <2>1. CASE i = r.inv
    <3>1. GrantsOf(i)' = GrantsOf(i) \cup {n} /\ n \notin GrantsOf(i)
      BY <1>2, <2>1 DEF GrantsOf
    <3>2. IsFiniteSet(GrantsOf(i)') /\ Cardinality(GrantsOf(i)') = Cardinality(GrantsOf(i)) + 1
      BY <3>1, FS_AddElement DEF InvitesInv, Counted
    <3>3. invite'[i].uses = invite[i].uses + 1 /\ InviteOK(invite'[i])
      BY <1>1, <1>2, <2>1 DEF InvitesInv, InviteOK
    <3> QED BY <3>2, <3>3 DEF Counted, InvitesInv
  <2>2. CASE i # r.inv
    <3>1. GrantsOf(i)' = GrantsOf(i) /\ invite'[i] = invite[i]
      BY <1>2, <2>2 DEF GrantsOf, InvitesInv
    <3> QED BY <3>1 DEF Counted, InvitesInv
  <2> QED BY <2>1, <2>2
<1>4. chreq' = [chreq EXCEPT ![q] = IdleChannel] /\ DOMAIN invite' = Invites
  BY <1>2 DEF RedeemInvite, Done, InvitesInv
<1>5. InvitesInv'
  BY <1>3, <1>4 DEF InvitesInv, IdleChannel
<1>6. \A g \in grants' \ grants : g = n
  BY <1>2
<1> QED BY <1>1, <1>2, <1>5, <1>6 DEF InvitesInv, Counted

\* Nothing else gives a grant or changes a counter.
LEMMA InvitesStep ==
    ASSUME InvitesInv,
           [\/ ChannelsNext
            \/ WorkspaceNext /\ UNCHANGED <<searchVars, channelVars>>
            \/ WorkersNext /\ UNCHANGED <<workspaceVars, channelVars>>]_<<workspaceVars, searchVars, channelVars>>
    PROVE  /\ InvitesInv'
           /\ \/ grants' = grants
              \/ \A g \in grants' \ grants : /\ invite[g.invite].status = "active"
                                             /\ Cardinality(GrantsOf(g.invite)) < InviteUses
<1> DEFINE P == InvitesInv' /\ grants' = grants
           R == \A g \in grants' \ grants : /\ invite[g.invite].status = "active"
                                            /\ Cardinality(GrantsOf(g.invite)) < InviteUses
<1>1. CASE UNCHANGED <<invite, grants, chreq>>
  <2>1. P
    BY <1>1 DEF InvitesInv, Counted, GrantsOf
  <2> QED BY <2>1
<1>2. ASSUME NEW q \in ChannelRequests, RedeemInvite(q) PROVE InvitesInv' /\ R
  BY <1>2, RedeemCounts
<1>3. ASSUME NEW q \in ChannelRequests,
             \/ ChannelRollback(q) \/ CreateChannel(q) \/ UpdateChannel(q) \/ JoinsChannel(q)
             \/ LeavesChannel(q) \/ GetOrCreateDM(q) \/ updateDMRequestStatus(q)
      PROVE  P
  <2>1. Done(q) /\ UNCHANGED <<invite, grants>>
    BY <1>3 DEF ChannelRollback, CreateChannel, UpdateChannel, JoinsChannel, LeavesChannel,
                GetOrCreateDM, updateDMRequestStatus
  <2> QED BY <2>1 DEF Done, InvitesInv, Counted, GrantsOf, IdleChannel
<1>4. ASSUME NEW q \in ChannelRequests, ChannelAsk(q) PROVE P
  <2>1. PICK op \in ChannelOps, u \in Users : \E t \in Targets(op), c \in ChansOf(op), i \in InvitesOf(op) :
          chreq' = [chreq EXCEPT ![q] = [op |-> op, by |-> u, on |-> t, chan |-> c, inv |-> i,
                                         copy |-> IF c = "none" THEN NoChannel ELSE chan[c]]]
    BY <1>4 DEF ChannelAsk
  <2>2. PICK t \in Targets(op), c \in ChansOf(op), i \in InvitesOf(op) :
          chreq' = [chreq EXCEPT ![q] = [op |-> op, by |-> u, on |-> t, chan |-> c, inv |-> i,
                                         copy |-> IF c = "none" THEN NoChannel ELSE chan[c]]]
    BY <2>1
  <2>3. op = "redeem" => i \in Invites
    BY DEF InvitesOf
  <2>4. DOMAIN chreq' = ChannelRequests
        /\ \A p \in ChannelRequests : chreq'[p].op = "redeem" => chreq'[p].inv \in Invites
    BY <2>2, <2>3 DEF InvitesInv
  <2> QED BY <1>4, <2>4 DEF ChannelAsk, InvitesInv, Counted, GrantsOf
<1>5. ASSUME NEW j \in Invites,
             \/ \E u \in Users, C \in SUBSET Chans, call \in BOOLEAN : CreateInvite(j, u, C, call)
             \/ RevokeInvite(j) \/ InviteExpires(j)
      PROVE  P
  <2>1. DOMAIN invite' = Invites /\ UNCHANGED <<grants, chreq>>
        /\ \A i \in Invites : InviteOK(invite'[i]) /\ invite'[i].uses = invite[i].uses
    BY <1>5 DEF CreateInvite, RevokeInvite, InviteExpires, InvitesInv, InviteOK, NoInvite
  <2> QED BY <2>1, SameCounter DEF InvitesInv
<1>6. CASE RequestConnection \/ ApproveConnection \/ ConnectionExpires
  BY <1>1, <1>6 DEF RequestConnection, ApproveConnection, ConnectionExpires
<1>7. CASE UNCHANGED channelVars
  BY <1>1, <1>7 DEF channelVars
<1> HIDE DEF P, R
<1>8. CASE ChannelsNext
  <2> SUFFICES P \/ (InvitesInv' /\ R)
    BY DEF P, R
  <2>1. CASE RequestConnection \/ ApproveConnection \/ ConnectionExpires
    BY <1>6, <2>1 DEF P, R
  <2> QED BY <1>2, <1>3, <1>4, <1>5, <1>8, <2>1, ZenonT(30) DEF ChannelsNext
<1> QED BY <1>7, <1>8

\* However many redemptions saw the invite valid, one that finds it revoked or used up
\* gives no grant: the grant and the counter are written by one transaction.
THEOREM SpentGivesNothing == ChannelsSpec => SpentInviteGivesNothing
<1> DEFINE A == \A g \in grants' \ grants : /\ invite[g.invite].status = "active"
                                            /\ Cardinality(GrantsOf(g.invite)) < InviteUses
           N == \/ ChannelsNext
                \/ WorkspaceNext /\ UNCHANGED <<searchVars, channelVars>>
                \/ WorkersNext /\ UNCHANGED <<workspaceVars, channelVars>>
<1>1. InvitesInv /\ [N]_<<workspaceVars, searchVars, channelVars>> => InvitesInv' /\ [A]_<<grants, invite>>
  <2> SUFFICES ASSUME InvitesInv, [N]_<<workspaceVars, searchVars, channelVars>>
               PROVE  InvitesInv' /\ (A \/ grants' = grants)
    BY DEF A
  <2> QED BY InvitesStep
<1>2. ChannelsInit => InvitesInv
  BY InitInvitesInv
<1> QED BY <1>1, <1>2, PTL DEF ChannelsSpec, SpentInviteGivesNothing

-----------------------------------------------------------------------------
(* The index: while no job was overwritten under a claim, whatever says     *)
(* anything of a message's text says the text the row has: the job, the     *)
(* claims, the rows of a rebuild, and the index once one of them went in.   *)

TruthOK(m) ==
    m \notin overtaken \cup crossed =>
        /\ job[m].status # "none" => job[m].text = msg[m].text
        /\ job[m].status = "processed" => index[m] = msg[m].text
        /\ \A w \in Indexers : \A h \in hold[w] : h.doc = m =>
             h.text = msg[m].text /\ (h.stage = "applied" => index[m] = msg[m].text)
        /\ \A row \in rebuild : row.doc = m => row.text = msg[m].text

\* A request that rewrites a channel names one.
NamesChannels ==
    /\ DOMAIN chreq = ChannelRequests
    /\ \A q \in ChannelRequests : chreq[q].op \in {"rename", "archive", "unarchive"} => chreq[q].chan \in Chans

IndexInv == QuotesInv /\ QueueOK /\ NamesChannels /\ \A m \in Msgs : TruthOK(m)

\* The first state satisfies the invariant.
LEMMA InitIndexInv == SearchInit /\ ChannelsInit /\ MessagesInit => IndexInv
<1> SUFFICES ASSUME SearchInit, ChannelsInit, MessagesInit PROVE IndexInv
  OBVIOUS
<1>1. QueueOK
  BY DEF SearchInit, QueueOK, JobOK, HoldOK, NoJob
<1>2. NamesChannels
  BY DEF ChannelsInit, NamesChannels, IdleChannel
<1>3. \A m \in Msgs : TruthOK(m)
  BY MsgsAssumption DEF SearchInit, MessagesInit, TruthOK, NoJob
<1> QED BY <1>1, <1>2, <1>3, InitQuotesInv DEF IndexInv

\* Texts, queue and index at rest.
LEMMA RestKeepsTruth ==
    ASSUME IndexInv, UNCHANGED searchVars, crossed' = crossed, \A m \in Msgs : msg'[m].text = msg[m].text
    PROVE  QueueOK' /\ \A m \in Msgs : TruthOK(m)'
BY DEF IndexInv, searchVars, QueueOK, TruthOK

\* A transaction writes the text of one message and its job, or a move that missed
\* an edit says so.
LEMMA ProducersKeepTruth ==
    ASSUME IndexInv, NEW m \in Msgs, NEW t, Enqueued(m, t), crossed \subseteq crossed',
           t = msg'[m].text \/ m \in crossed', \A n \in Msgs \ {m} : msg'[n].text = msg[n].text
    PROVE  QueueOK' /\ \A n \in Msgs : TruthOK(n)'
<1>1. m \in Docs /\ QueueOK'
  BY ProducersKeepQueue, MsgsAssumption DEF IndexInv
<1>2. TruthOK(m)'
  <2> SUFFICES ASSUME m \notin overtaken' \cup crossed' PROVE TruthOK(m)'
    BY DEF TruthOK
  <2>1. ~InFlight(m) /\ UNCHANGED <<hold, rebuild>> /\ job'[m].text = t /\ job'[m].status = "pending" /\ t = msg'[m].text
    BY DEF Enqueued
  <2> QED BY <2>1 DEF TruthOK, InFlight
<1>3. ASSUME NEW n \in Msgs \ {m} PROVE TruthOK(n)'
  <2>1. job'[n] = job[n] /\ UNCHANGED <<index, hold, rebuild>> /\ overtaken \subseteq overtaken'
    BY MsgsAssumption DEF Enqueued
  <2>2. TruthOK(n)
    BY DEF IndexInv
  <2> QED BY <2>1, <2>2 DEF TruthOK
<1> QED BY <1>1, <1>2, <1>3

\* A transaction about a channel writes the job of no message.
LEMMA ChannelsKeepTruth ==
    ASSUME IndexInv, NEW c \in Chans, NEW t, Enqueued(c, t), UNCHANGED messageVars
    PROVE  QueueOK' /\ \A n \in Msgs : TruthOK(n)'
<1>1. c \in Docs /\ c \notin Msgs /\ QueueOK'
  BY ProducersKeepQueue, ChansAssumption, MsgsAssumption DEF IndexInv
<1>2. ASSUME NEW n \in Msgs PROVE TruthOK(n)'
  <2>1. job'[n] = job[n] /\ UNCHANGED <<index, hold, rebuild>> /\ overtaken \subseteq overtaken'
    BY <1>1, MsgsAssumption DEF Enqueued
  <2>2. TruthOK(n)
    BY DEF IndexInv
  <2> QED BY <2>1, <2>2 DEF TruthOK, messageVars
<1> QED BY <1>1, <1>2

\* Workers carry the text they claimed.
LEMMA WorkersKeepTruth ==
    ASSUME IndexInv, WorkerStep, UNCHANGED messageVars
    PROVE  QueueOK' /\ \A n \in Msgs : TruthOK(n)'
<1>1. QueueOK'
  BY WorkersKeepQueue DEF IndexInv
<1>2. ASSUME NEW m \in Msgs, m \notin overtaken \cup crossed PROVE TruthOK(m)'
  <2>1. TruthOK(m) /\ m \in Docs /\ UNCHANGED <<msg, overtaken, crossed, rebuild>>
    BY MsgsAssumption DEF IndexInv, WorkerStep, messageVars
  <2>2. Closes(job[m], job'[m], m) /\ IndexFrom(m)
    BY <2>1 DEF WorkerStep
  <2>3. index[m] = msg[m].text => index'[m] = msg[m].text
    BY <1>2, <2>1, <2>2 DEF IndexFrom, TruthOK
  <2>4. job'[m].status # "none" => job'[m].text = msg[m].text
    BY <1>2, <2>1, <2>2 DEF Closes, TruthOK
  <2>5. job'[m].status = "processed" => index'[m] = msg[m].text
    BY <1>2, <2>1, <2>2, <2>3 DEF Closes, TruthOK
  <2>6. ASSUME NEW w \in Indexers, NEW g \in hold'[w], g.doc = m
        PROVE  g.text = msg[m].text /\ (g.stage = "applied" => index'[m] = msg[m].text)
    <3>1. HoldFrom(w, g)
      BY <2>6 DEF WorkerStep
    <3> QED BY <1>2, <2>1, <2>3, <2>6, <3>1 DEF HoldFrom, TruthOK
  <2> QED BY <2>1, <2>4, <2>5, <2>6 DEF TruthOK
<1>3. UNCHANGED <<overtaken, crossed>>
  BY DEF WorkerStep, messageVars
<1>4. ASSUME NEW n \in Msgs PROVE TruthOK(n)'
  BY <1>2, <1>3 DEF TruthOK
<1> QED BY <1>1, <1>4

\* A rebuild empties the queue, reads the rows, and writes what it read.
LEMMA RebuildsKeepTruth ==
    ASSUME IndexInv, UNCHANGED messageVars,
           ReindexReset \/ ReindexStops \/ ReindexScan(ReindexRows) \/ \E row \in rebuild : ReindexWrite(row)
    PROVE  QueueOK' /\ \A n \in Msgs : TruthOK(n)'
<1>1. CASE ReindexReset
  <2>1. QueueOK'
    BY <1>1 DEF ReindexReset, IndexInv, QueueOK, JobOK, HoldOK, NoJob
  <2>2. ASSUME NEW n \in Msgs PROVE TruthOK(n)'
    <3> SUFFICES ASSUME n \notin overtaken' \cup crossed' PROVE TruthOK(n)'
      BY DEF TruthOK
    <3>1. ~InFlight(n) /\ hold' = hold /\ n \in Docs /\ rebuild' = {NoRow} /\ job'[n] = NoJob
      BY <1>1, MsgsAssumption DEF ReindexReset
    <3> QED BY <3>1, MsgsAssumption DEF TruthOK, InFlight, NoJob, NoRow
  <2> QED BY <2>1, <2>2
<1>2. CASE ReindexScan(ReindexRows)
  <2>1. QueueOK'
    BY <1>2 DEF ReindexScan, IndexInv, QueueOK
  <2>2. UNCHANGED <<job, index, hold, msg, crossed>> /\ overtaken \subseteq overtaken' /\ rebuild' = ReindexRows
    BY <1>2 DEF ReindexScan, messageVars
  <2>3. ASSUME NEW n \in Msgs, NEW row \in ReindexRows, row.doc = n PROVE row.text = msg[n].text
    BY <2>3, MsgsAssumption DEF ReindexRows
  <2> QED BY <2>1, <2>2, <2>3 DEF IndexInv, TruthOK
<1>3. CASE \E row \in rebuild : ReindexWrite(row)
  <2>1. PICK row \in rebuild : ReindexWrite(row)
    BY <1>3
  <2>2. row.doc \in Docs /\ index' = [index EXCEPT ![row.doc] = row.text] /\ rebuild' \subseteq rebuild
        /\ UNCHANGED <<job, hold, overtaken, msg, crossed>>
    BY <2>1 DEF ReindexWrite, UpsertDocument, messageVars
  <2>3. QueueOK'
    BY <2>2 DEF IndexInv, QueueOK
  <2>4. ASSUME NEW n \in Msgs PROVE TruthOK(n)'
    <3>1. TruthOK(n) /\ n \in Docs
      BY MsgsAssumption DEF IndexInv
    <3>2. index'[n] = (IF n = row.doc THEN row.text ELSE index[n])
      BY <2>2, <3>1 DEF IndexInv, QueueOK
    <3> QED BY <2>1, <2>2, <3>1, <3>2 DEF TruthOK
  <2> QED BY <2>3, <2>4
<1>4. CASE ReindexStops
  BY <1>4 DEF ReindexStops, IndexInv, QueueOK, TruthOK, messageVars
<1> QED BY <1>1, <1>2, <1>3, <1>4

\* The texts of the rows after each kind of change.
SameText(x, y) == y.text = x.text

LEMMA TextsOf ==
    ASSUME NEW x, RowOK(x), NEW a, NEW b
    PROVE  /\ SameText(x, [x EXCEPT !.gone = TRUE])
           /\ SameText(x, [x EXCEPT !.chan = a, !.parent = b, !.pinned = FALSE])
BY DEF RowOK, NoMessage, SameText

LEMMA SendKeepsTruth ==
    ASSUME IndexInv, NEW q \in MessageRequests, SendMessage(q)
    PROVE  QueueOK' /\ \A n \in Msgs : TruthOK(n)'
<1> DEFINE r == mreq[q]
<1>1. PICK m \in Msgs :
        /\ msg' = [msg EXCEPT ![m] = [NoMessage EXCEPT !.chan = r.chan, !.by = r.by, !.parent = r.parent,
                     !.quote = r.quote, !.text = r.text, !.files = r.files, !.born = r.born]]
        /\ enqueueMessageSearchTx(m, r.text)
  BY DEF SendMessage
<1> DEFINE x == [NoMessage EXCEPT !.chan = r.chan, !.by = r.by, !.parent = r.parent,
                     !.quote = r.quote, !.text = r.text, !.files = r.files, !.born = r.born]
<1>2. x.text = r.text
  BY DEF NoMessage
<1> HIDE DEF x
<1>3. msg'[m] = x /\ \A n \in Msgs \ {m} : msg'[n] = msg[n]
  BY <1>1 DEF IndexInv, QuotesInv, RowsOK, x
<1>4. Enqueued(m, r.text)
  BY <1>1, UpsertEnqueues, MsgsAssumption DEF enqueueMessageSearchTx, IndexInv
<1> QED BY <1>2, <1>3, <1>4, ProducersKeepTruth DEF SendMessage

LEMMA EditKeepsTruth ==
    ASSUME IndexInv, NEW q \in MessageRequests, EditMessage(q)
    PROVE  QueueOK' /\ \A n \in Msgs : TruthOK(n)'
<1> DEFINE m == mreq[q].on
<1>1. PICK t : msg' = [msg EXCEPT ![m].text = t] /\ enqueueMessageSearchTx(m, t)
  BY DEF EditMessage
<1>2. m \in Msgs
  BY DEF EditMessage, IndexInv, QuotesInv, RowsOK, AskedOK
<1>3. msg'[m].text = t /\ \A n \in Msgs \ {m} : msg'[n] = msg[n]
  BY <1>1, <1>2 DEF IndexInv, QuotesInv, RowsOK, RowOK, NoMessage
<1>4. Enqueued(m, t)
  BY <1>1, <1>2, UpsertEnqueues, MsgsAssumption DEF enqueueMessageSearchTx, IndexInv
<1> QED BY <1>2, <1>3, <1>4, ProducersKeepTruth DEF EditMessage

\* The job of a moved message has the text of the copy.
LEMMA MoveKeepsTruth ==
    ASSUME IndexInv, NEW q \in MessageRequests, MoveMessage(q)
    PROVE  QueueOK' /\ \A n \in Msgs : TruthOK(n)'
<1> DEFINE r == mreq[q]
           x == [msg[r.on] EXCEPT !.chan = r.chan, !.parent = r.parent, !.pinned = FALSE]
<1>1. /\ msg' = [msg EXCEPT ![r.on] = x] /\ enqueueMessageSearchTx(r.on, r.copy.text)
      /\ crossed' = IF r.copy.text # msg[r.on].text THEN crossed \cup {r.on} ELSE crossed
  BY DEF MoveMessage
<1>2. r.on \in Msgs
  BY DEF MoveMessage, IndexInv, QuotesInv, RowsOK, AskedOK
<1>3. SameText(msg[r.on], x)
  BY <1>2, TextsOf DEF IndexInv, QuotesInv, RowsOK
<1> HIDE DEF x
<1>4. msg'[r.on] = x /\ \A n \in Msgs \ {r.on} : msg'[n] = msg[n]
  BY <1>1, <1>2 DEF IndexInv, QuotesInv, RowsOK
<1>5. Enqueued(r.on, r.copy.text)
  BY <1>1, <1>2, UpsertEnqueues, MsgsAssumption DEF enqueueMessageSearchTx, IndexInv
<1>6. crossed \subseteq crossed' /\ (r.copy.text = msg'[r.on].text \/ r.on \in crossed')
  BY <1>1, <1>3, <1>4 DEF SameText
<1> QED BY <1>2, <1>4, <1>5, <1>6, ProducersKeepTruth

LEMMA DeleteKeepsTruth ==
    ASSUME IndexInv, NEW q \in MessageRequests, DeleteMessage(q)
    PROVE  QueueOK' /\ \A n \in Msgs : TruthOK(n)'
<1> DEFINE m == mreq[q].on
           x == [msg[m] EXCEPT !.text = 0, !.pinned = FALSE, !.quote = "none", !.gone = FALSE, !.deleted = TRUE]
           rows == [msg EXCEPT ![m] = x]
<1>1. m \in Msgs /\ msg' = Cascade(rows, m) /\ crossed' = crossed
  BY DEF DeleteMessage, SoftDeleteWithCascade, IndexInv, QuotesInv, RowsOK, AskedOK
<1>2. x.text = 0 /\ x.quote = "none"
  BY <1>1 DEF IndexInv, QuotesInv, RowsOK, RowOK, NoMessage
<1> HIDE DEF x
<1>3. \A n \in Msgs : msg'[n] =
        IF n = m THEN x ELSE IF msg[n].quote = m THEN [msg[n] EXCEPT !.gone = TRUE] ELSE msg[n]
  <2>1. rows[m] = x /\ \A n \in Msgs \ {m} : rows[n] = msg[n]
    BY <1>1 DEF IndexInv, QuotesInv, RowsOK
  <2> HIDE DEF rows
  <2> QED BY <1>1, <1>2, <2>1, MsgsAssumption DEF Cascade
<1>4. \A n \in Msgs \ {m} : SameText(msg[n], msg'[n])
  <2> TAKE n \in Msgs \ {m}
  <2>1. SameText(msg[n], [msg[n] EXCEPT !.gone = TRUE]) /\ SameText(msg[n], msg[n])
    BY TextsOf DEF IndexInv, QuotesInv, RowsOK, SameText
  <2> QED BY <1>3, <2>1
<1>5. Enqueued(m, 0)
  BY <1>1, DeleteEnqueues, MsgsAssumption DEF DeleteMessage, enqueueMessageDeleteSearchTx, IndexInv
<1>6. msg'[m].text = 0
  BY <1>1, <1>2, <1>3
<1> QED BY <1>1, <1>4, <1>5, <1>6, ProducersKeepTruth DEF SameText

\* Pins and removed files are not searched.
LEMMA MarksKeepTruth ==
    ASSUME IndexInv, NEW q \in MessageRequests, PinMessage(q) \/ RemoveMessageFile(q)
    PROVE  QueueOK' /\ \A n \in Msgs : TruthOK(n)'
<1> DEFINE m == mreq[q].on
<1>1. m \in Msgs /\ UNCHANGED searchVars /\ crossed' = crossed
  BY DEF PinMessage, RemoveMessageFile, IndexInv, QuotesInv, RowsOK, AskedOK
<1>2. \A n \in Msgs \ {m} : msg'[n] = msg[n]
  BY <1>1 DEF PinMessage, RemoveMessageFile, IndexInv, QuotesInv, RowsOK
<1>3. SameText(msg[m], msg'[m])
  <2>1. CASE PinMessage(q)
    <3>1. msg'[m] = [msg[m] EXCEPT !.pinned = (mreq[q].op = "pin")]
      BY <1>1, <2>1 DEF PinMessage, IndexInv, QuotesInv, RowsOK
    <3> QED BY <1>1, <3>1 DEF IndexInv, QuotesInv, RowsOK, RowOK, NoMessage, SameText
  <2>2. CASE RemoveMessageFile(q)
    <3>1. msg'[m] = [msg[m] EXCEPT !.files = Remaining(mreq[q])]
      BY <1>1, <2>2 DEF RemoveMessageFile, IndexInv, QuotesInv, RowsOK
    <3> QED BY <1>1, <3>1 DEF IndexInv, QuotesInv, RowsOK, RowOK, NoMessage, SameText
  <2> QED BY <2>1, <2>2
<1> QED BY <1>1, <1>2, <1>3, RestKeepsTruth DEF SameText

LEMMA MessagesKeepTruth ==
    ASSUME IndexInv, MessagesNext
    PROVE  QueueOK' /\ (\A n \in Msgs : TruthOK(n)') /\ chreq' = chreq
<1>1. chreq' = chreq
  BY ZenonT(30) DEF MessagesNext, MessageAsk, MessageRollback, SendMessage, EditMessage, RemoveMessageFile, RemoveLastFile,
     MoveMessage, DeleteMessage, AddReaction, RemoveReaction, PinMessage, MarkRead, Answered, otherVars, channelVars
<1>2. ASSUME NEW q \in MessageRequests,
             MessageAsk(q) \/ MessageRollback(q) \/ RemoveLastFile(q) \/ AddReaction(q) \/ RemoveReaction(q)
      PROVE  QueueOK' /\ \A n \in Msgs : TruthOK(n)'
  <2>1. UNCHANGED <<msg, crossed, searchVars>>
    BY <1>2 DEF MessageAsk, MessageRollback, RemoveLastFile, AddReaction, RemoveReaction
  <2> QED BY <2>1, RestKeepsTruth
<1>3. ASSUME NEW c \in Chans, NEW u \in Users, MarkRead(c, u)
      PROVE  QueueOK' /\ \A n \in Msgs : TruthOK(n)'
  <2>1. UNCHANGED <<msg, crossed, searchVars>>
    BY <1>3 DEF MarkRead
  <2> QED BY <2>1, RestKeepsTruth
<1>4. QueueOK' /\ \A n \in Msgs : TruthOK(n)'
  BY <1>2, <1>3, SendKeepsTruth, EditKeepsTruth, MoveKeepsTruth, DeleteKeepsTruth, MarksKeepTruth, ZenonT(30) DEF MessagesNext
<1> QED BY <1>1, <1>4

\* A step of the channels names channels, and touches the queue for one of them at most.
LEMMA ChannelsStepNames ==
    ASSUME QueueOK, NamesChannels, ChannelsNext
    PROVE  NamesChannels' /\ (UNCHANGED searchVars \/ \E c \in Chans : \E t : Enqueued(c, t))
<1> DEFINE P == NamesChannels' /\ (UNCHANGED searchVars \/ \E c \in Chans : \E t : Enqueued(c, t))
<1>1. ASSUME NEW q \in ChannelRequests, Done(q) PROVE NamesChannels'
  BY <1>1 DEF Done, NamesChannels, IdleChannel
<1>2. ASSUME UNCHANGED chreq PROVE NamesChannels'
  BY <1>2 DEF NamesChannels
<1>3. ASSUME NEW c \in Chans, NEW ch, enqueueChannelSearchSyncTx(c, ch) \/ enqueueChannelSearchTx(c, ch)
      PROVE  UNCHANGED searchVars \/ \E t : Enqueued(c, t)
  BY <1>3, UpsertEnqueues, DeleteEnqueues, ChansAssumption DEF enqueueChannelSearchSyncTx, enqueueChannelSearchTx
<1>4. ASSUME NEW q \in ChannelRequests, ChannelAsk(q) PROVE P
  <2>1. PICK op \in ChannelOps, u \in Users : \E t \in Targets(op), c \in ChansOf(op), i \in InvitesOf(op) :
          chreq' = [chreq EXCEPT ![q] = [op |-> op, by |-> u, on |-> t, chan |-> c, inv |-> i,
                                         copy |-> IF c = "none" THEN NoChannel ELSE chan[c]]]
    BY <1>4 DEF ChannelAsk
  <2>2. PICK t \in Targets(op), c \in ChansOf(op), i \in InvitesOf(op) :
          chreq' = [chreq EXCEPT ![q] = [op |-> op, by |-> u, on |-> t, chan |-> c, inv |-> i,
                                         copy |-> IF c = "none" THEN NoChannel ELSE chan[c]]]
    BY <2>1
  <2>3. op \in {"rename", "archive", "unarchive"} => c \in Chans
    BY DEF ChansOf
  <2> QED BY <1>4, <2>2, <2>3 DEF ChannelAsk, NamesChannels
<1>5. ASSUME NEW q \in ChannelRequests, CreateChannel(q) PROVE P
  <2>1. PICK c \in Chans : \E ch : enqueueChannelSearchTx(c, ch)
    BY <1>5 DEF CreateChannel
  <2> QED BY <1>1, <1>3, <1>5, <2>1 DEF CreateChannel
<1>6. ASSUME NEW q \in ChannelRequests, UpdateChannel(q) PROVE P
  <2>1. chreq[q].chan \in Chans /\ enqueueChannelSearchSyncTx(chreq[q].chan, Rewritten(chreq[q]))
    BY <1>6 DEF UpdateChannel, NamesChannels
  <2> QED BY <1>1, <1>3, <1>6, <2>1 DEF UpdateChannel
<1>7. ASSUME NEW q \in ChannelRequests,
             \/ ChannelRollback(q) \/ JoinsChannel(q) \/ LeavesChannel(q) \/ GetOrCreateDM(q)
             \/ updateDMRequestStatus(q) \/ RedeemInvite(q)
      PROVE  P
  BY <1>1, <1>7 DEF ChannelRollback, JoinsChannel, LeavesChannel, GetOrCreateDM, updateDMRequestStatus, RedeemInvite
<1>8. ASSUME NEW i \in Invites,
             \/ \E u \in Users, C \in SUBSET Chans, call \in BOOLEAN : CreateInvite(i, u, C, call)
             \/ RevokeInvite(i) \/ InviteExpires(i)
      PROVE  P
  BY <1>2, <1>8 DEF CreateInvite, RevokeInvite, InviteExpires
<1>9. ASSUME RequestConnection \/ ApproveConnection \/ ConnectionExpires PROVE P
  BY <1>2, <1>9 DEF RequestConnection, ApproveConnection, ConnectionExpires
<1> HIDE DEF P
<1>10. P
  <2>1. ASSUME NEW q \in ChannelRequests,
               \/ ChannelAsk(q) \/ ChannelRollback(q)
               \/ CreateChannel(q) \/ UpdateChannel(q) \/ JoinsChannel(q) \/ LeavesChannel(q)
               \/ GetOrCreateDM(q) \/ updateDMRequestStatus(q) \/ RedeemInvite(q)
        PROVE  P
    BY <1>4, <1>5, <1>6, <1>7, <2>1
  <2> QED BY <1>8, <1>9, <2>1, Zenon DEF ChannelsNext
<1> QED BY <1>10 DEF P

\* Every step keeps the invariant.
LEMMA NextIndexInv ==
    IndexInv /\ [ChatNext]_<<workspaceVars, searchVars, channelVars, messageVars>> => IndexInv'
<1> SUFFICES ASSUME IndexInv, [ChatNext]_<<workspaceVars, searchVars, channelVars, messageVars>> PROVE IndexInv'
  OBVIOUS
<1>1. QuotesInv'
  <2>1. [MessagesNext]_messageVars
    BY DEF ChatNext
  <2> QED BY <2>1, NextQuotesInv DEF IndexInv
<1>2. CASE UNCHANGED <<searchVars, messageVars, chreq>>
  BY <1>1, <1>2, RestKeepsTruth DEF messageVars, IndexInv, NamesChannels
<1>3. CASE MessagesNext
  BY <1>1, <1>3, MessagesKeepTruth DEF IndexInv, NamesChannels
<1>4. CASE ChannelsNext /\ UNCHANGED messageVars
  <2>1. NamesChannels' /\ (UNCHANGED searchVars \/ \E c \in Chans : \E t : Enqueued(c, t))
    BY <1>4, ChannelsStepNames DEF IndexInv
  <2>2. QueueOK' /\ \A n \in Msgs : TruthOK(n)'
    BY <1>4, <2>1, ChannelsKeepTruth, RestKeepsTruth DEF messageVars
  <2> QED BY <1>1, <2>1, <2>2 DEF IndexInv
<1>5. CASE (SearchNext \/ ReindexScan(ReindexRows)) /\ UNCHANGED <<otherVars, messageVars>>
  <2>1. WorkersNext \/ ReindexReset \/ ReindexStops \/ ReindexScan(ReindexRows) \/ \E row \in rebuild : ReindexWrite(row)
    BY <1>5 DEF SearchNext, WorkersNext
  <2>2. QueueOK' /\ \A n \in Msgs : TruthOK(n)'
    BY <1>5, <2>1, WorkersStep, WorkersKeepTruth, RebuildsKeepTruth DEF IndexInv
  <2>3. NamesChannels'
    BY <1>5 DEF otherVars, channelVars, IndexInv, NamesChannels
  <2> QED BY <1>1, <2>2, <2>3 DEF IndexInv
<1>6. CASE WorkspaceNext /\ UNCHANGED <<searchVars, channelVars, messageVars>>
  BY <1>2, <1>6 DEF channelVars
<1>7. CASE UNCHANGED <<workspaceVars, searchVars, channelVars, messageVars>>
  BY <1>2, <1>7 DEF channelVars
<1> QED BY <1>3, <1>4, <1>5, <1>6, <1>7 DEF ChatNext

\* When the queue says that a message's newest job is done, whoever may read the
\* message finds the text it has now, and nobody finds a deleted one: for any number
\* of workers, crashes, failures and rebuilds.
THEOREM DoneIsFound == ChatSpec => []IndexTellsTruth
<1>1. ChatSpec => []IndexInv
  BY InitIndexInv, NextIndexInv, PTL DEF ChatSpec
<1>2. IndexInv => IndexTellsTruth
  <2> SUFFICES ASSUME IndexInv, NEW m \in Msgs, Sent(m), m \notin overtaken \cup crossed, job[m].status = "processed"
               PROVE  /\ index[m] = msg[m].text
                      /\ \A u \in Users : m \in Search(u) <=> msg[m].text # 0 /\ GetMessage(m, u)
    BY DEF IndexTellsTruth
  <2>1. index[m] = msg[m].text
    BY DEF IndexInv, TruthOK
  <2>2. m \in Docs /\ m \notin Chans
    BY MsgsAssumption
  <2> QED BY <2>1, <2>2 DEF Search
<1> QED BY <1>1, <1>2, PTL
=============================================================================
