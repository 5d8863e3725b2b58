------------------------------ MODULE Messages ------------------------------
(***************************************************************************)
(* The messages of the channels (service/chat, repository/postgres/        *)
(* message.go) and what a search finds of them (service/search).  A        *)
(* request reads, checks and keeps a copy of what it read in mreq; its     *)
(* transaction commits later, against rows that may have changed.  The     *)
(* events a transaction enqueues carry the same copy as its search job.    *)
(***************************************************************************)
EXTENDS Channels

CONSTANTS
    Msgs,             \* message ids
    Files,            \* ids of uploaded files a message may carry
    MessageRequests, MessageOps,
    MaxMessageReqs    \* bound: message requests in all

ASSUME MsgsAssumption == "none" \notin Msgs /\ Msgs \subseteq Docs /\ Msgs \cap Chans = {}

VARIABLES
    msg,         \* messages rows
    reactions,   \* reactions: pairs <<message, user>>, one emoji
    lastRead,    \* last_read_at of a member or guest: lastRead[c][u]
    mreq,        \* requests between their checks and their transactions
    mCount,      \* requests so far; also the clock
    late,        \* history: quotes committed after the quoted one was deleted
    crossed      \* history: messages moved by a request that missed an edit

messageVars == <<msg, reactions, lastRead, mreq, mCount, late, crossed>>
otherVars == <<workspaceVars, channelVars>>

NoMessage == [chan |-> "none", by |-> "none", parent |-> "none", quote |-> "none",
              gone |-> FALSE, deleted |-> FALSE, pinned |-> FALSE, text |-> 0,
              files |-> {}, born |-> 0]
IdleMessage == [op |-> "idle"]

MessagesInit ==
    /\ msg = [m \in Msgs |-> NoMessage]
    /\ reactions = {}
    /\ lastRead = [c \in Chans |-> [u \in Users |-> 0]]
    /\ mreq = [q \in MessageRequests |-> IdleMessage]
    /\ mCount = 0
    /\ late = {}
    /\ crossed = {}

Sent(m) == msg[m].chan # "none"

-----------------------------------------------------------------------------
(* Checks. *)

requireMessageAccessWithCapability(m, u, capability) ==
    Sent(m) /\ ~msg[m].deleted /\ authorizeChannel(msg[m].chan, u, capability)

requireOwnMessageAccess(m, u) ==
    requireMessageAccessWithCapability(m, u, "participate") /\ msg[m].by = u

\* A quoted message is taken as the client names it; a parent may be deleted.
SendMessageCheck(r) ==
    /\ r.text # 0 \/ r.quote # "none" \/ r.files # {}
    /\ authorizeChannel(r.chan, r.by, "participate")
    /\ r.parent # "none" => msg[r.parent].chan = r.chan

MoveMessageCheck(r) ==
    /\ requireOwnMessageAccess(r.on, r.by)
    /\ r.parent # r.on
    /\ authorizeChannel(r.chan, r.by, "participate")
    /\ r.parent # "none" => ~msg[r.parent].deleted /\ msg[r.parent].chan = r.chan

\* The row is read whether it is deleted or not.
PinCheck(r) ==
    /\ Sent(r.on) /\ msg[r.on].pinned = (r.op = "unpin")
    /\ authorizeChannel(msg[r.on].chan, r.by, "participate")

MessageCheck(r) ==
    \/ r.op = "send" /\ SendMessageCheck(r)
    \/ r.op \in {"edit", "delete"} /\ requireOwnMessageAccess(r.on, r.by)
    \/ r.op = "detach" /\ requireOwnMessageAccess(r.on, r.by) /\ r.files \subseteq msg[r.on].files
    \/ r.op = "move" /\ MoveMessageCheck(r)
    \/ r.op \in {"pin", "unpin"} /\ PinCheck(r)
    \/ r.op \in {"react", "unreact"}
         /\ requireMessageAccessWithCapability(r.on, r.by, "participate")

MaybeMsg == {"none"} \cup {m \in Msgs : Sent(m)}
OnOf(op) == IF op = "send" THEN {"none"} ELSE {m \in Msgs : Sent(m)}
ChanOf(op) == IF op \in {"send", "move"} THEN Chans ELSE {"none"}
ParentOf(op) == IF op \in {"send", "move"} THEN MaybeMsg ELSE {"none"}
QuoteOf(op) == IF op = "send" THEN MaybeMsg ELSE {"none"}
TextOf(op) == IF op = "send" THEN {0, 1} ELSE {0}
FilesOf(op) == CASE op = "send" -> SUBSET Files
                 [] op = "detach" -> {{f} : f \in Files}
                 [] OTHER -> {{}}

Asked(op, u, m, c, p, qt, t, F) ==
    [op |-> op, by |-> u, on |-> m, chan |-> c, parent |-> p, quote |-> qt, text |-> t, files |-> F,
     born |-> mCount + 1, copy |-> IF m = "none" THEN NoMessage ELSE msg[m]]

MessageAsk(q) ==
    /\ mreq[q] = IdleMessage /\ mCount < MaxMessageReqs
    /\ \E op \in MessageOps, u \in Users :
       \E m \in OnOf(op), c \in ChanOf(op), p \in ParentOf(op), qt \in QuoteOf(op),
          t \in TextOf(op), F \in FilesOf(op) :
        /\ MessageCheck(Asked(op, u, m, c, p, qt, t, F))
        /\ mreq' = [mreq EXCEPT ![q] = Asked(op, u, m, c, p, qt, t, F)]
    /\ mCount' = mCount + 1
    /\ UNCHANGED <<msg, reactions, lastRead, late, crossed, searchVars, otherVars>>

-----------------------------------------------------------------------------
(* Transactions. *)

Answered(q) == mreq' = [mreq EXCEPT ![q] = IdleMessage] /\ UNCHANGED <<mCount, lastRead, otherVars>>

MessageRollback(q) ==
    /\ mreq[q] # IdleMessage /\ Answered(q)
    /\ UNCHANGED <<msg, reactions, late, crossed, searchVars>>

enqueueMessageSearchTx(m, text) == Enqueue({m}, EnqueueUpsert(m, text))

enqueueMessageDeleteSearchTx(m) == Enqueue({m}, EnqueueDelete(m))

SendMessage(q) ==
    /\ mreq[q].op = "send"
    /\ \E m \in Msgs : LET r == mreq[q] IN
        /\ ~Sent(m)
        /\ msg' = [msg EXCEPT ![m] = [NoMessage EXCEPT !.chan = r.chan, !.by = r.by,
                     !.parent = r.parent, !.quote = r.quote, !.text = r.text,
                     !.files = r.files, !.born = r.born]]
        /\ late' = IF r.quote # "none" /\ msg[r.quote].deleted THEN late \cup {m} ELSE late
        /\ enqueueMessageSearchTx(m, r.text)
    /\ Answered(q)
    /\ UNCHANGED <<reactions, crossed>>

\* Mutant: the statements lose AND deleted_at IS NULL.
Alive_Any(m) == Sent(m)

\* WHERE id = $1 AND deleted_at IS NULL, on every statement that changes a row.
Alive(m) == ~msg[m].deleted

EditMessage(q) ==
    /\ mreq[q].op = "edit" /\ Alive(mreq[q].on)
    /\ LET r == mreq[q] new == IF r.copy.text = 1 THEN 2 ELSE 1 IN
        /\ msg' = [msg EXCEPT ![r.on].text = new]
        /\ enqueueMessageSearchTx(r.on, new)
    /\ Answered(q)
    /\ UNCHANGED <<reactions, late, crossed>>

\* The remaining files are counted on the copy.
Remaining(r) == r.copy.files \ r.files

RemoveMessageFile(q) ==
    /\ mreq[q].op = "detach" /\ Alive(mreq[q].on)
    /\ Remaining(mreq[q]) # {} \/ mreq[q].copy.text # 0
    /\ msg' = [msg EXCEPT ![mreq[q].on].files = Remaining(mreq[q])]
    /\ Answered(q)
    /\ UNCHANGED <<reactions, late, crossed, searchVars>>

\* Nothing would be left of the message: it is deleted, which checks again.
RemoveLastFile(q) ==
    /\ mreq[q].op = "detach"
    /\ Remaining(mreq[q]) = {} /\ mreq[q].copy.text = 0
    /\ requireOwnMessageAccess(mreq[q].on, mreq[q].by)
    /\ mreq' = [mreq EXCEPT ![q].op = "delete"]
    /\ UNCHANGED <<msg, reactions, lastRead, mCount, late, crossed, searchVars, otherVars>>

\* The job is written from the copy, the row keeps its own text.
MoveMessage(q) ==
    /\ mreq[q].op = "move" /\ Alive(mreq[q].on)
    /\ LET r == mreq[q] IN
        /\ msg' = [msg EXCEPT ![r.on] = [@ EXCEPT !.chan = r.chan, !.parent = r.parent,
                                                  !.pinned = FALSE]]
        /\ crossed' = IF r.copy.text # msg[r.on].text THEN crossed \cup {r.on} ELSE crossed
        /\ enqueueMessageSearchTx(r.on, r.copy.text)
    /\ Answered(q)
    /\ UNCHANGED <<reactions, late>>

\* Mutant: quotes in other channels are forgotten.
Cascade_SameChannel(rows, m) ==
    [x \in Msgs |-> IF rows[x].quote = m /\ rows[x].chan = rows[m].chan
                    THEN [rows[x] EXCEPT !.gone = TRUE] ELSE rows[x]]

Cascade(rows, m) ==
    [x \in Msgs |-> IF rows[x].quote = m THEN [rows[x] EXCEPT !.gone = TRUE] ELSE rows[x]]

SoftDeleteWithCascade(m) ==
    /\ Alive(m)
    /\ msg' = Cascade([msg EXCEPT ![m] = [@ EXCEPT !.text = 0, !.pinned = FALSE, !.quote = "none",
                                                   !.gone = FALSE, !.deleted = TRUE]], m)

\* Files and reactions stay on the row; readers are shown the tombstone.
DeleteMessage(q) ==
    /\ mreq[q].op = "delete"
    /\ SoftDeleteWithCascade(mreq[q].on)
    /\ enqueueMessageDeleteSearchTx(mreq[q].on)
    /\ Answered(q)
    /\ UNCHANGED <<reactions, late, crossed>>

\* The insert does not look at deleted_at; a second one finds the first.
AddReaction(q) ==
    /\ mreq[q].op = "react"
    /\ reactions' = reactions \cup {<<mreq[q].on, mreq[q].by>>}
    /\ Answered(q)
    /\ UNCHANGED <<msg, late, crossed, searchVars>>

RemoveReaction(q) ==
    /\ mreq[q].op = "unreact" /\ <<mreq[q].on, mreq[q].by>> \in reactions
    /\ reactions' = reactions \ {<<mreq[q].on, mreq[q].by>>}
    /\ Answered(q)
    /\ UNCHANGED <<msg, late, crossed, searchVars>>

PinMessage(q) ==
    /\ mreq[q].op \in {"pin", "unpin"} /\ Alive(mreq[q].on)
    /\ msg' = [msg EXCEPT ![mreq[q].on].pinned = (mreq[q].op = "pin")]
    /\ Answered(q)
    /\ UNCHANGED <<reactions, late, crossed, searchVars>>

\* One statement after the check; a member's row or a guest's read state.
MarkRead(c, u) ==
    /\ "read" \in MessageOps
    /\ authorizeChannel(c, u, "participate") /\ lastRead[c][u] < mCount
    /\ lastRead' = [lastRead EXCEPT ![c][u] = mCount]
    /\ UNCHANGED <<msg, reactions, mreq, mCount, late, crossed, searchVars, otherVars>>

-----------------------------------------------------------------------------
(* What readers are shown. *)

redactDeletedMessage(m) ==
    IF msg[m].deleted
    THEN [text |-> 0, pinned |-> FALSE, quote |-> "none", files |-> {}, reactions |-> {}]
    ELSE [text |-> msg[m].text, pinned |-> msg[m].pinned, quote |-> msg[m].quote,
          files |-> msg[m].files, reactions |-> {r \in reactions : r[1] = m}]

\* GetMessages and GetThreadReplies redact, GetMessage refuses, pins exclude.
GetMessages(c) == {m \in Msgs : msg[m].chan = c}
GetThreadReplies(p) == {m \in Msgs : msg[m].parent = p}
GetPinnedMessages(c) == {m \in Msgs : msg[m].chan = c /\ msg[m].pinned /\ ~msg[m].deleted}
GetMessage(m, u) == requireMessageAccessWithCapability(m, u, "view")

\* The documents a search of u finds: the index says which, the rows say whether.
Search(u) ==
    {m \in Msgs \cap Docs : index[m] # 0 /\ GetMessage(m, u)}
      \cup {c \in Chans \cap Docs : index[c] # 0 /\ isSearchableChannel(chan[c])
                                      /\ authorizeChannel(c, u, "view")}

\* The rows a rebuild of the index selects.
ReindexRows ==
    {[doc |-> c, text |-> chan[c].name] : c \in {x \in Chans \cap Docs : isSearchableChannel(chan[x])}}
      \cup {[doc |-> m, text |-> msg[m].text] :
              m \in {x \in Msgs : Sent(x) /\ ~msg[x].deleted /\ ~chan[msg[x].chan].archived}}

MessagesNext ==
    \/ \E q \in MessageRequests :
        \/ MessageAsk(q) \/ MessageRollback(q) \/ SendMessage(q) \/ EditMessage(q)
        \/ RemoveMessageFile(q) \/ RemoveLastFile(q) \/ MoveMessage(q) \/ DeleteMessage(q)
        \/ AddReaction(q) \/ RemoveReaction(q) \/ PinMessage(q)
    \/ \E c \in Chans, u \in Users : MarkRead(c, u)

\* Channels, memberships and the index may change in any way in between.
MessagesSpec == MessagesInit /\ [][MessagesNext]_messageVars

\* All of it together: administration, channels, messages, and the index with
\* its workers and rebuilds.
ChatNext ==
    \/ MessagesNext
    \/ ChannelsNext /\ UNCHANGED messageVars
    \/ WorkspaceNext /\ UNCHANGED <<searchVars, channelVars, messageVars>>
    \/ (SearchNext \/ ReindexScan(ReindexRows)) /\ UNCHANGED <<otherVars, messageVars>>

ChatSpec ==
    /\ WorkspaceInit /\ SearchInit /\ ChannelsInit /\ MessagesInit
    /\ [][ChatNext]_<<workspaceVars, searchVars, channelVars, messageVars>>

-----------------------------------------------------------------------------
\* A deleted message stays empty, and so does what readers are shown of it:
\* an edit, a pin or a removal of a file that read the message before the
\* deletion changes nothing afterwards, and reactions and files that remain
\* on the row are hidden (message.go's deleted_at IS NULL, redactDeletedMessage).
DeletedStaysEmpty ==
    \A m \in Msgs : msg[m].deleted =>
        /\ msg[m].text = 0 /\ ~msg[m].pinned /\ msg[m].quote = "none"
        /\ \A c \in Chans : m \notin GetPinnedMessages(c)
        /\ m \in UNION {GetMessages(c) : c \in Chans} \cup UNION {GetThreadReplies(p) : p \in Msgs} =>
             redactDeletedMessage(m).files = {} /\ redactDeletedMessage(m).reactions = {}

\* A quote of a deleted message is marked, in whatever channel the quote is
\* and wherever the quoted message was moved to, unless the quote was sent
\* after the deletion (SoftDeleteWithCascade).
QuotesAreMarked ==
    \A m \in Msgs : msg[m].quote # "none" /\ m \notin late =>
        (msg[msg[m].quote].deleted => msg[m].gone)

\* When the queue says that a message's newest job is done, a search of
\* whoever may read the message finds the text it has now, and nobody finds a
\* deleted one: with several workers, crashes and retries, unless a job was
\* overwritten while a worker held its predecessor (completeJob closes the
\* row by its id, whatever the row says by then).
IndexTellsTruth ==
    \A m \in Msgs : Sent(m) /\ m \notin overtaken \cup crossed /\ job[m].status = "processed" =>
        /\ index[m] = msg[m].text
        /\ \A u \in Users : m \in Search(u) <=> msg[m].text # 0 /\ GetMessage(m, u)

\* Once the requests have come to rest every message is found with the text
\* it has, although workers crash and writes fail; excepted are jobs that
\* ran out of attempts, documents whose job was overtaken, and those a rebuild
\* threw out and has not written: it may stop at any error, and nobody resumes it.
SearchCatchesUp ==
    <>[](\A m \in Msgs : Sent(m) /\ m \notin overtaken \cup crossed \cup emptied /\ job[m].status # "dead" =>
           index[m] = msg[m].text)
=============================================================================
