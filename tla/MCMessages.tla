----------------------------- MODULE MCMessages -----------------------------
(* The messages of two channels: c is public and d private; "o" is in both *)
(* and "m" in c.  A message with a file is there already, its search job   *)
(* still pending.  Two instances, chosen at the start: in "rows" every     *)
(* operation runs and the index workers rest, in "index" the operations of *)
(* IndexOps run against the workers.                                       *)
EXTENDS Messages

CONSTANTS Sides,        \* the instances of a run
          IndexOps, MaxIndexReqs

VARIABLE side

vars == <<workspaceVars, channelVars, searchVars, messageVars, side>>

Init ==
    /\ side \in Sides
    /\ WorkspaceInit
    /\ chan = [c \in Chans |-> [type |-> IF c = "c" THEN "public" ELSE "private",
                                archived |-> FALSE, name |-> 1]]
    /\ mem = [c \in Chans |-> [u \in Users |->
               CASE u = "o" -> MemberRow("owner", "accepted")
                 [] u = "m" /\ c = "c" -> MemberRow("member", "accepted")
                 [] OTHER -> Absent]]
    /\ shared = {} /\ connection = "none" /\ invite = [i \in Invites |-> NoInvite] /\ grants = {}
    /\ chreq = [q \in ChannelRequests |-> IdleChannel] /\ chCount = 0
    /\ \E t \in {0, 1} :
        /\ msg = [m \in Msgs |-> IF m = "a" THEN [NoMessage EXCEPT !.chan = "c", !.by = "o",
                                                 !.text = t, !.files = Files] ELSE NoMessage]
        /\ job = [d \in Docs |->
                   CASE d = "a" -> [NoJob EXCEPT !.op = "upsert", !.text = t, !.status = "pending",
                                                 !.due = TRUE]
                     [] d \in Chans -> [NoJob EXCEPT !.op = "upsert", !.text = 1, !.status = "processed"]
                     [] OTHER -> NoJob]
    /\ index = [d \in Docs |-> 0] /\ hold = [w \in Indexers |-> {}] /\ rebuild = {}
    /\ epoch = 0 /\ indexFaults = 0 /\ overtaken = {} /\ emptied = {}
    /\ reactions = {} /\ lastRead = [c \in Chans |-> [u \in Users |-> 0]]
    /\ mreq = [q \in MessageRequests |-> IdleMessage]
    /\ mCount = 0 /\ late = {} /\ crossed = {}

\* Bounds of "rows": plain texts are sent, "m" alone marks the public channel
\* read, once, and a request to the channels counts like two others.
Plain ==
    /\ \A q \in MessageRequests : mreq'[q].op = "send" =>
         mreq'[q].text = 1 /\ mreq'[q].files = {} /\ mreq'[q].parent = "none"
    /\ \A c \in Chans, u \in Users : 
         lastRead'[c][u] # lastRead[c][u] => c = "c" /\ u = "m" /\ lastRead[c][u] = 0

Rows ==
    /\ side = "rows" /\ UNCHANGED side
    /\ (MessagesNext /\ Plain) \/ (ChannelsNext /\ UNCHANGED messageVars)
    /\ mCount' + 2 * chCount' <= MaxMessageReqs

\* Bounds of "index": one request at a time, about one message.
Small(q) ==
    \/ /\ mCount < MaxIndexReqs /\ MessageAsk(q)
       /\ mreq'[q].op \in IndexOps /\ mreq'[q].chan \in {"none", "d"} /\ mreq'[q].parent = "none"
    \/ MessageRollback(q) \/ EditMessage(q) \/ MoveMessage(q) \/ DeleteMessage(q)

SearchStep(A) == side = "index" /\ A /\ UNCHANGED <<otherVars, messageVars, side>>

Next ==
    \/ Rows
    \/ side = "index" /\ Small("p") /\ UNCHANGED side
    \/ SearchStep(SearchNext)
    \/ SearchStep(ReindexScan(ReindexRows))

\* A supervised worker goes on, a database call returns, time passes.  The
\* one-shot command of a rebuild may stop anywhere.
Fairness ==
    /\ \A w \in Indexers :
        /\ WF_vars(SearchStep(ClaimPendingJobs(w)))
        /\ WF_vars(SearchStep(\E h \in hold[w] : ApplyOk(w, h) \/ CompleteJob(w, h) \/ FailJob(w, h)))
    /\ \A d \in Docs : WF_vars(SearchStep(JobLeaseExpire(d))) /\ WF_vars(SearchStep(JobRetryDue(d)))

Spec == Init /\ [][Next]_vars /\ Fairness

=============================================================================
