------------------------------ MODULE Calendar ------------------------------
(* Calendars and events: service/calendar and its repository.             *)
(*                                                                        *)
(* Requests read an event, decide, and write their copy back; the only    *)
(* guards against each other are the row lock of "start the meeting" and  *)
(* the expected updated_at a client may send along with a move.  Reminder *)
(* workers of several instances enqueue and publish what is due.          *)
(*                                                                        *)
(* Time is counted in slots, a series repeats in every slot and a         *)
(* reminder fires one slot early.                                         *)
EXTENDS Integers, FiniteSets, Functions

CONSTANTS
    CalUsers,       \* members of the workspace
    CalendarIds,    \* user_calendars rows; "home" is the organizer's default
    EventIds,       \* calendar_events rows
    CalCalls,       \* calls started from events
    CalRequests,    \* requests in progress, on any instance
    Dispatchers,    \* ListAndDispatchReminders loops, one per instance
    Publishers,     \* PublishPendingReminderOutbox loops
    Slots,          \* points in time
    Starts,         \* slots events are scheduled at
    Counts, Untils, \* how series end: after a count, at a slot
    MoveBy,         \* slots an occurrence is moved by
    CalOps,         \* operations the requests of an instance ask for
    MaxCalRequests, \* bound on requests
    ReminderTries,  \* reminderOutboxMaxAttempts
    MaxCalFaults    \* bound on publish errors and rolled back transactions

ASSUME CalendarAssumption ==
    /\ "none" \notin CalUsers \cup CalCalls \cup CalRequests \cup EventIds
    /\ "nil" \notin CalUsers
    /\ Slots \cup Starts \cup Untils \cup MoveBy \subseteq Int
    /\ Counts \subseteq Nat \ {0}

VARIABLES
    cal,            \* user_calendars: [owner, visible] or NoCalendar
    ev,             \* calendar_events with attendees and reminders
    evCall,         \* calls: [event, ended] or NoCalCall
    evRooms,          \* LiveKit rooms prepared for calls
    evLock,         \* the request holding the row of an event FOR UPDATE
    creq,           \* requests: the event they read and what they ask
    calNow,            \* the time
    dispatch,       \* event_reminder_dispatches: keys -> "due" | "done"
    dtx,            \* open transactions of the dispatchers
    remOutbox,         \* reminder_outbox
    ptx,            \* open transactions of the publishers
    calCount, calFaults,
    unlinked,       \* events whose call link a stale copy overwrote
    renewed         \* reminders deleted, so that they may fire again

eventVars == <<cal, ev, evCall, evRooms, evLock, creq, calCount, unlinked>>
reminderVars == <<calNow, dispatch, dtx, remOutbox, ptx, calFaults>>
calVars == <<eventVars, reminderVars, renewed>>

NoCalendar == [owner |-> "none", visible |-> FALSE]
Single == [kind |-> "single", n |-> 0]
NoEvent == [cal |-> "none", org |-> "none", att |-> [u \in CalUsers |-> "none"], start |-> 0,
            rule |-> Single, ex |-> {}, call |-> "none", ver |-> 0, rem |-> {}, entry |-> "unset"]
NoCalCall == [event |-> "none", ended |-> FALSE]
IdleCal == [op |-> "idle", by |-> "none", e |-> "none", copy |-> NoEvent, inst |-> 0, new |-> 0,
            token |-> FALSE, arg |-> "none"]
IdleDispatch == [open |-> FALSE, ins |-> {}, take |-> {}]
IdlePublish == [open |-> FALSE, todo |-> {}, ok |-> {}, bad |-> {}]

EventExists(e) == ev[e].org # "none"

\* id.New: an id nothing refers to, not even a call or a request of an event
\* that is gone.
NewId(e) ==
    /\ ~EventExists(e)
    /\ \A c \in CalCalls : evCall[c].event # e
    /\ \A q \in CalRequests : creq[q].e # e
------------------------------------------------------------------------------
(* Recurrence: pkg/rrule.  A rule ends at a slot or after a count.        *)

\* Expand: the instances of a rule, without the excluded dates.
Expand(rule, start, ex) ==
    (CASE rule.kind = "single" -> {start}
       [] rule.kind = "until"  -> start .. rule.n
       [] OTHER                -> start .. (start + rule.n - 1)) \ ex

IsMember(x, inst) == inst \in Expand(x.rule, x.start, x.ex)

SetUntil(rule, until) == [kind |-> "until", n |-> until]

ShiftBounds_Inclusive(rule, start, inst, new) ==
    IF rule.kind = "until" THEN [rule EXCEPT !.n = @ + (new - inst)]
    ELSE [rule EXCEPT !.n = @ - Cardinality({t \in Expand(rule, start, {}) : t <= inst})]

\* ShiftBounds: the rule of the split-off part.
ShiftBounds(rule, start, inst, new) ==
    IF rule.kind = "until" THEN [rule EXCEPT !.n = @ + (new - inst)]
    ELSE [rule EXCEPT !.n = @ - Cardinality({t \in Expand(rule, start, {}) : t < inst})]

\* normalizeRecurrence: the rules a client may send.
RecurrenceInputs ==
    {Single} \cup {[kind |-> "count", n |-> n] : n \in Counts} \cup {[kind |-> "until", n |-> n] : n \in Untils}

expandOccurrences(x) == IF x.rule.kind = "single" THEN {x.start} ELSE Expand(x.rule, x.start, x.ex)
------------------------------------------------------------------------------
(* Reads.                                                                 *)

canAccessEvent(x, u) == x.org = u \/ x.att[u] # "none"

\* GetEvent hydrates attendees with their answers, and reminders without
\* their users (DISTINCT offset, channel).
hydrateEvents(x) == [x EXCEPT !.rem = IF x.rem = {} THEN {} ELSE {"nil"}]

GetEvent(e) == hydrateEvents(ev[e])

\* ListEvents: an event in a hidden calendar is hidden from its attendees too.
ListEvents(u) ==
    {e \in EventIds : EventExists(e) /\ cal[ev[e].cal].visible
                      /\ (cal[ev[e].cal].owner = u \/ canAccessEvent(ev[e], u))}

ListUserCalendars(u) == {k \in CalendarIds : cal[k].owner = u}
------------------------------------------------------------------------------
(* Building rows.                                                         *)

buildAttendees(us) == [u \in CalUsers |-> IF u \in us THEN "no_response" ELSE "none"]

resetAttendees(att) == [u \in CalUsers |-> IF att[u] = "none" THEN "none" ELSE "no_response"]

buildReminderRows(org, att, rem) ==
    IF rem = {} THEN {} ELSE {org} \cup {u \in CalUsers : att[u] # "none"}

copyReminders(rem) == rem

buildOccurrenceChild(x, at) ==
    [x EXCEPT !.start = at, !.rule = Single, !.ex = {}, !.call = "none", !.ver = 1,
              !.att = resetAttendees(x.att), !.rem = copyReminders(x.rem)]

\* Rows without a user are skipped, and what is not wanted is deleted.
diffReminderDefinitions(existing, wanted) ==
    LET desired == wanted \ {"nil"}
    IN  [removed |-> existing \ desired, added |-> desired \ existing]

\* The attendees are deleted and inserted again, with the answers of the copy.
replaceAttendees(existing, wanted) == wanted

replaceReminders(existing, wanted) ==
    LET d == diffReminderDefinitions(existing, wanted) IN (existing \ d.removed) \cup d.added

ReminderKeys(e, us) == {k \in DOMAIN dispatch : k[1] = e /\ k[2] \in us}

\* A transaction that deletes a reminder waits for those that hold its rows.
RemindersFree(e, us) ==
    \A d \in Dispatchers : \A k \in dtx[d].ins \cup dtx[d].take : ~(k[1] = e /\ k[2] \in us)

\* Deleting reminders deletes their dispatches (ON DELETE CASCADE).
DropReminders(e, us) ==
    /\ RemindersFree(e, us)
    /\ dispatch' = Restrict(dispatch, DOMAIN dispatch \ ReminderKeys(e, us))
    /\ renewed' = renewed \cup ReminderKeys(e, us)

\* The row is written unless it is locked, gone, or not the expected one.
updateEventRowTx(e, x, token) ==
    /\ evLock[e] = "none" /\ EventExists(e)
    /\ token => x.ver = ev[e].ver

\* UpdateEvent, UpdateEventTx: the whole copy is written back, into a calendar
\* that still exists (foreign key).
UpdateEventTx(e, x, f) ==
    LET rows == replaceReminders(ev[e].rem, x.rem)
    IN  /\ cal[x.cal] # NoCalendar
        /\ ev' = [f EXCEPT ![e] = [x EXCEPT !.ver = ev[e].ver + 1, !.rem = rows,
                                              !.att = replaceAttendees(ev[e].att, @)]]
        /\ DropReminders(e, ev[e].rem \ rows)
        /\ unlinked' = IF x.call = ev[e].call THEN unlinked ELSE unlinked \cup {e}

\* CreateEventTx; replaceReminders finds none to keep.
CreateEventTx(x) == [x EXCEPT !.rem = replaceReminders({}, @)]

\* Only the entry mode of the settings matters here; "unset" is no preset.
meetingDefaultCallSettings == "open"

overlayEventSettings(base, entry) == IF entry = "unset" THEN base ELSE entry

\* Scheduled meetings cannot use password entry.
resolveScheduledCallSettings(x) ==
    overlayEventSettings(meetingDefaultCallSettings, x.entry) # "password"
------------------------------------------------------------------------------
(* Requests.                                                              *)

CalDone(q) == creq' = [creq EXCEPT ![q] = IdleCal]
RemindersIdle == UNCHANGED <<calNow, dtx, remOutbox, ptx, calFaults>>

\* A request passed the checks on the event it read, and keeps x of it.  The
\* organizer updates, moves and deletes; who has access answers and starts the
\* meeting.
LoadEvent(q, u, e, op, x, inst, new, token, arg) ==
    /\ creq[q].op = "idle" /\ op \in CalOps /\ calCount < MaxCalRequests
    /\ IF op \in {"rsvp", "start"} THEN canAccessEvent(ev[e], u) ELSE ev[e].org = u
    /\ creq' = [creq EXCEPT ![q] = [op |-> op, by |-> u, e |-> e, copy |-> x, inst |-> inst,
                                    new |-> new, token |-> token, arg |-> arg]]
    /\ calCount' = calCount + 1
    /\ UNCHANGED <<cal, ev, evCall, evRooms, evLock, unlinked, reminderVars, renewed>>

\* A request ends without an effect: a conflict, a row that is gone, a
\* validation error, a failure of the database.
AbortRequest(q) ==
    /\ creq[q].op # "idle" /\ \A e \in EventIds : evLock[e] # q
    /\ CalDone(q)
    /\ UNCHANGED <<cal, ev, evCall, evRooms, evLock, calCount, unlinked, reminderVars, renewed>>

\* CreateEvent: in one of the organizer's calendars.
CreateEvent(u, k, e, start, rule, us, rem, entry) ==
    /\ calCount < MaxCalRequests
    /\ cal[k].owner = u /\ NewId(e)
    /\ LET att == buildAttendees(us)
       IN  ev' = [ev EXCEPT ![e] = CreateEventTx([NoEvent EXCEPT !.cal = k, !.org = u, !.att = att,
                    !.start = start, !.rule = rule, !.ver = 1, !.entry = entry,
                    !.rem = buildReminderRows(u, att, rem)])]
    /\ calCount' = calCount + 1
    /\ UNCHANGED <<cal, evCall, evRooms, evLock, creq, unlinked, reminderVars, renewed>>

\* UpdateEvent, on the copy it read: what the input sets replaces the list of
\* attendees, the reminders, the schedule, the recurrence, the calendar (one of
\* the organizer's own), or only what the model leaves out.
Edits(u, x) ==
    {x, [x EXCEPT !.att = buildAttendees(CalUsers \ {u})], [x EXCEPT !.rem = {"nil"}]}
    \cup {[x EXCEPT !.start = start] : start \in Starts}
    \cup {[x EXCEPT !.rule = rule] : rule \in RecurrenceInputs}
    \cup {[x EXCEPT !.rule = rule, !.ex = {}] : rule \in RecurrenceInputs}
    \cup {[x EXCEPT !.cal = k] : k \in ListUserCalendars(u)}

UpdateEvent(q) ==
    LET r == creq[q]
        x == [r.copy EXCEPT !.rem = buildReminderRows(r.copy.org, r.copy.att, r.copy.rem)]
    IN  /\ r.op = "update" /\ updateEventRowTx(r.e, x, FALSE)
        /\ UpdateEventTx(r.e, x, ev)
        /\ CalDone(q)
        /\ UNCHANGED <<cal, evCall, evRooms, evLock, calCount>> /\ RemindersIdle

\* The parts of a move, each one transaction over the row the request read.
moveOccurrenceAll(r) ==
    UpdateEventTx(r.e, [r.copy EXCEPT !.start = r.new], ev)

moveOccurrenceThis(r) ==
    \E child \in EventIds :
        /\ NewId(child)
        /\ UpdateEventTx(r.e, [r.copy EXCEPT !.ex = @ \cup {r.inst}],
                         [ev EXCEPT ![child] = CreateEventTx(buildOccurrenceChild(r.copy, r.new))])

\* The exdates go to the side they fall on, the later ones shifted.
moveOccurrenceThisAndFollowing(r) ==
    \E child \in EventIds :
        /\ NewId(child)
        /\ UpdateEventTx(r.e, [r.copy EXCEPT !.rule = SetUntil(@, r.inst - 1), !.ex = {t \in @ : t < r.inst}],
              [ev EXCEPT ![child] = CreateEventTx(
                 [buildOccurrenceChild(r.copy, r.new) EXCEPT
                    !.rule = ShiftBounds(r.copy.rule, r.copy.start, r.inst, r.new),
                    !.ex = {t + (r.new - r.inst) : t \in {s \in r.copy.ex : s > r.inst}}])])

MoveEventOccurrence(q) ==
    LET r == creq[q]
        whole == r.copy.rule = Single \/ r.op = "all"
        first == r.inst = r.copy.start
    IN  /\ r.op \in {"this", "following", "all"}
        /\ updateEventRowTx(r.e, r.copy, r.token)
        /\ \/ whole /\ moveOccurrenceAll(r)
           \/ /\ ~whole /\ IsMember(r.copy, r.inst)
              /\ \/ r.op = "this" /\ moveOccurrenceThis(r)
                 \/ r.op = "following" /\ first /\ moveOccurrenceAll(r)
                 \/ r.op = "following" /\ ~first /\ moveOccurrenceThisAndFollowing(r)
        /\ CalDone(q)
        /\ UNCHANGED <<cal, evCall, evRooms, evLock, calCount>> /\ RemindersIdle

\* DeleteEvent: the attendees, reminders and dispatches go with the row.
DeleteEvent(q) ==
    LET e == creq[q].e
    IN  /\ creq[q].op = "delete" /\ updateEventRowTx(e, NoEvent, FALSE)
        /\ ev' = [ev EXCEPT ![e] = NoEvent] /\ DropReminders(e, CalUsers)
        /\ CalDone(q)
        /\ UNCHANGED <<cal, evCall, evRooms, evLock, calCount, unlinked>> /\ RemindersIdle

\* UpsertRsvp writes one attendee row and leaves updated_at alone.
UpsertRsvp(q) ==
    LET r == creq[q]
    IN  /\ r.op = "rsvp" /\ EventExists(r.e)
        /\ ev' = [ev EXCEPT ![r.e].att[r.by] = r.arg]
        /\ CalDone(q)
        /\ UNCHANGED <<cal, evCall, evRooms, evLock, calCount, unlinked, renewed, dispatch>> /\ RemindersIdle

LockEventForStartCall_Unlocked(q, e) == EventExists(e)

\* SELECT ... FOR UPDATE.
LockEventForStartCall(q, e) == EventExists(e) /\ evLock[e] = "none"

Running(c) == c # "none" /\ ~evCall[c].ended

\* startCallFromEventTx, up to the commit: the locked row says which call the
\* event has; a running one is the answer, else a room is prepared.
StartCallFromEvent(q) ==
    LET r == creq[q]  e == r.e  c == ev[e].call
    IN  /\ r.op = "start" /\ r.arg = "none"
        /\ LockEventForStartCall(q, e) /\ canAccessEvent(ev[e], r.by)
        /\ \/ /\ Running(c)
              /\ evRooms' = evRooms \cup {c} /\ CalDone(q) /\ UNCHANGED evLock
           \/ /\ ~Running(c) /\ resolveScheduledCallSettings(ev[e])
              /\ \E d \in CalCalls :
                   /\ evCall[d] = NoCalCall /\ d \notin evRooms
                   /\ evRooms' = evRooms \cup {d}
                   /\ creq' = [creq EXCEPT ![q].arg = d]
              /\ evLock' = [evLock EXCEPT ![e] = q]
        /\ UNCHANGED <<cal, ev, evCall, calCount, unlinked, renewed, dispatch>> /\ RemindersIdle

\* The call, its host and the link both ways are committed.
LinkEventAndCall(q) ==
    LET r == creq[q]
    IN  /\ r.op = "start" /\ r.arg # "none"
        /\ evCall' = [evCall EXCEPT ![r.arg] = [event |-> r.e, ended |-> FALSE]]
        /\ ev' = [ev EXCEPT ![r.e].call = r.arg]
        /\ evLock' = [evLock EXCEPT ![r.e] = "none"]
        /\ CalDone(q)
        /\ UNCHANGED <<cal, evRooms, calCount, unlinked, renewed, dispatch>> /\ RemindersIdle

\* The transaction failed; deleting the prepared room may fail as well.
StartCallRollback(q) ==
    LET r == creq[q]
    IN  /\ r.op = "start" /\ r.arg # "none"
        /\ evRooms' \in {evRooms, evRooms \ {r.arg}}
        /\ evLock' = [evLock EXCEPT ![r.e] = "none"]
        /\ CalDone(q)
        /\ UNCHANGED <<cal, ev, evCall, calCount, unlinked, renewed, dispatch>> /\ RemindersIdle

\* The call ends, in the call service.
EndEventCall(c) ==
    /\ evCall[c].event # "none" /\ ~evCall[c].ended
    /\ evCall' = [evCall EXCEPT ![c].ended = TRUE]
    /\ UNCHANGED <<cal, ev, evRooms, evLock, creq, calCount, unlinked, renewed, dispatch>> /\ RemindersIdle

CreateUserCalendar(u, k) ==
    /\ "calendar" \in CalOps /\ cal[k] = NoCalendar /\ k # "home"
    /\ cal' = [cal EXCEPT ![k] = [owner |-> u, visible |-> TRUE]]
    /\ UNCHANGED <<ev, evCall, evRooms, evLock, creq, calCount, unlinked, renewed, dispatch>> /\ RemindersIdle

\* EnsureDefaultCalendar: ON CONFLICT DO NOTHING.
EnsureDefaultCalendar(u) ==
    /\ "calendar" \in CalOps /\ cal["home"] = NoCalendar
    /\ cal' = [cal EXCEPT !["home"] = [owner |-> u, visible |-> TRUE]]
    /\ UNCHANGED <<ev, evCall, evRooms, evLock, creq, calCount, unlinked, renewed, dispatch>> /\ RemindersIdle

SetCalendarVisibility(u, k, b) ==
    /\ "calendar" \in CalOps /\ cal[k].owner = u /\ cal[k].visible # b
    /\ cal' = [cal EXCEPT ![k].visible = b]
    /\ UNCHANGED <<ev, evCall, evRooms, evLock, creq, calCount, unlinked, renewed, dispatch>> /\ RemindersIdle

\* Never the default one; its events go with it, for every attendee.
DeleteUserCalendar(u, k) ==
    LET gone == {e \in EventIds : ev[e].cal = k}
    IN  /\ "calendar" \in CalOps /\ cal[k].owner = u /\ k # "home"
        /\ \A e \in gone : evLock[e] = "none" /\ RemindersFree(e, CalUsers)
        /\ cal' = [cal EXCEPT ![k] = NoCalendar]
        /\ ev' = [e \in EventIds |-> IF e \in gone THEN NoEvent ELSE ev[e]]
        /\ dispatch' = Restrict(dispatch, {k2 \in DOMAIN dispatch : k2[1] \notin gone})
        /\ renewed' = renewed \cup {k2 \in DOMAIN dispatch : k2[1] \in gone}
        /\ UNCHANGED <<evCall, evRooms, evLock, creq, calCount, unlinked>> /\ RemindersIdle
------------------------------------------------------------------------------
(* Reminders.                                                             *)

TimePasses ==
    /\ calNow + 1 \in Slots
    /\ calNow' = calNow + 1
    /\ UNCHANGED <<eventVars, renewed, dispatch, dtx, remOutbox, ptx, calFaults>>

\* discoverDueReminderDispatches looks 30 seconds back and a day ahead.
discoverDueReminderDispatches ==
    {k \in EventIds \X CalUsers \X Slots :
        /\ k[2] \in ev[k[1]].rem
        /\ k[3] \in expandOccurrences(ev[k[1]])
        /\ k[3] >= calNow /\ k[3] - 1 <= calNow}

DispatchLocked == UNION {dtx[d].take : d \in Dispatchers}

\* Undispatched rows whose reminder is still there, FOR UPDATE SKIP LOCKED.
ListDueReminderTargets(new) ==
    new \cup {k \in DOMAIN dispatch : dispatch[k] = "due" /\ k[3] - 1 <= calNow /\ k \notin DispatchLocked}

\* dispatchDueReminders, in its transaction: an insert another open
\* transaction made as well waits for that one.
dispatchDueReminders(d) ==
    LET new == discoverDueReminderDispatches \ DOMAIN dispatch
    IN  /\ ~dtx[d].open
        /\ \A o \in Dispatchers : new \cap dtx[o].ins = {}
        /\ dtx' = [dtx EXCEPT ![d] = [open |-> TRUE, ins |-> new, take |-> ListDueReminderTargets(new)]]
        /\ UNCHANGED <<eventVars, renewed, calNow, dispatch, remOutbox, ptx, calFaults>>

EnqueueReminderOutbox(ks) ==
    remOutbox \cup {[key |-> k, copy |-> Cardinality({m \in remOutbox : m.key = k}) + 1,
                  tries |-> 0, sent |-> FALSE] : k \in ks}

\* Mutant: the rows stay due.
MarkReminderDispatched_Forgets(ins, ks) ==
    [k \in DOMAIN dispatch \cup ins |-> IF k \in ins THEN "due" ELSE dispatch[k]]

MarkReminderDispatched(ins, ks) ==
    [k \in DOMAIN dispatch \cup ins |-> IF k \in ks THEN "done" ELSE dispatch[k]]

ListAndDispatchReminders(d) ==
    /\ dtx[d].open
    /\ remOutbox' = EnqueueReminderOutbox(dtx[d].take)
    /\ dispatch' = MarkReminderDispatched(dtx[d].ins, dtx[d].take)
    /\ dtx' = [dtx EXCEPT ![d] = IdleDispatch]
    /\ UNCHANGED <<eventVars, renewed, calNow, ptx, calFaults>>

DispatchRollback(d) ==
    /\ dtx[d].open /\ calFaults < MaxCalFaults
    /\ dtx' = [dtx EXCEPT ![d] = IdleDispatch]
    /\ calFaults' = calFaults + 1
    /\ UNCHANGED <<eventVars, renewed, calNow, dispatch, remOutbox, ptx>>

\* PublishReminderOutbox: one transaction claims a batch, publishes each
\* message and commits what happened to all of them.
ClaimReminderOutbox(p) ==
    LET held == UNION {ptx[o].todo \cup ptx[o].ok \cup ptx[o].bad : o \in Publishers}
        batch == {m \in remOutbox : ~m.sent /\ m.tries < ReminderTries} \ held
    IN  /\ ~ptx[p].open /\ batch # {}
        /\ ptx' = [ptx EXCEPT ![p] = [open |-> TRUE, todo |-> batch, ok |-> {}, bad |-> {}]]
        /\ UNCHANGED <<eventVars, renewed, calNow, dispatch, dtx, remOutbox, calFaults>>

PublishReminder(p, m) ==
    /\ m \in ptx[p].todo
    /\ \/ /\ ptx' = [ptx EXCEPT ![p].todo = @ \ {m}, ![p].ok = @ \cup {m}] /\ UNCHANGED calFaults
       \/ /\ calFaults < MaxCalFaults /\ calFaults' = calFaults + 1
          /\ ptx' = [ptx EXCEPT ![p].todo = @ \ {m}, ![p].bad = @ \cup {m}]
    /\ UNCHANGED <<eventVars, renewed, calNow, dispatch, dtx, remOutbox>>

PublishedRows_Forgets(p) == ptx[p].ok

PublishedRows(p) == {[m EXCEPT !.sent = TRUE, !.tries = @ + 1] : m \in ptx[p].ok}

PublishReminderOutbox(p) ==
    /\ ptx[p].open /\ ptx[p].todo = {}
    /\ remOutbox' = (remOutbox \ (ptx[p].ok \cup ptx[p].bad)) \cup PublishedRows(p)
                 \cup {[m EXCEPT !.tries = @ + 1] : m \in ptx[p].bad}
    /\ ptx' = [ptx EXCEPT ![p] = IdlePublish]
    /\ UNCHANGED <<eventVars, renewed, calNow, dispatch, dtx, calFaults>>

\* The instance dies before the commit: the batch is published again.
PublisherCrash(p) ==
    /\ ptx[p].open /\ calFaults < MaxCalFaults
    /\ calFaults' = calFaults + 1
    /\ ptx' = [ptx EXCEPT ![p] = IdlePublish]
    /\ UNCHANGED <<eventVars, renewed, calNow, dispatch, dtx, remOutbox>>
------------------------------------------------------------------------------
\* A workspace before anybody opened its calendar.
CalendarInit ==
    /\ cal = [k \in CalendarIds |-> NoCalendar] /\ ev = [e \in EventIds |-> NoEvent]
    /\ evCall = [c \in CalCalls |-> NoCalCall] /\ evRooms = {}
    /\ evLock = [e \in EventIds |-> "none"]
    /\ creq = [q \in CalRequests |-> IdleCal]
    /\ calNow = 0 /\ dispatch = [k \in {} |-> "due"]
    /\ dtx = [d \in Dispatchers |-> IdleDispatch] /\ remOutbox = {}
    /\ ptx = [p \in Publishers |-> IdlePublish]
    /\ calCount = 0 /\ calFaults = 0 /\ unlinked = {} /\ renewed = {}

EventsNext ==
    \/ \E q \in CalRequests :
        \/ \E u \in CalUsers, e \in {x \in EventIds : EventExists(x)} :
            \/ \E x \in Edits(u, GetEvent(e)) : LoadEvent(q, u, e, "update", x, 0, 0, FALSE, "none")
            \/ \E scope \in {"this", "following", "all"}, inst \in expandOccurrences(ev[e]),
                  by \in MoveBy, token \in BOOLEAN :
                 LoadEvent(q, u, e, scope, GetEvent(e), inst, inst + by, token, "none")
            \/ \E op \in {"delete", "start"} : LoadEvent(q, u, e, op, GetEvent(e), 0, 0, FALSE, "none")
            \/ \E a \in {"going", "declined"} : LoadEvent(q, u, e, "rsvp", GetEvent(e), 0, 0, FALSE, a)
        \/ UpdateEvent(q) \/ MoveEventOccurrence(q) \/ DeleteEvent(q) \/ UpsertRsvp(q)
        \/ StartCallFromEvent(q) \/ LinkEventAndCall(q) \/ StartCallRollback(q) \/ AbortRequest(q)
    \/ \E c \in CalCalls : EndEventCall(c)
    \/ \E u \in CalUsers :
        \/ EnsureDefaultCalendar(u)
        \/ \E k \in CalendarIds :
            \/ CreateUserCalendar(u, k) \/ DeleteUserCalendar(u, k)
            \/ \E b \in BOOLEAN : SetCalendarVisibility(u, k, b)
            \/ "create" \in CalOps
               /\ \E e \in EventIds, us \in SUBSET CalUsers, rem \in {{}, {"nil"}}, entry \in {"unset", "password"},
                     start \in Starts, rule \in RecurrenceInputs : CreateEvent(u, k, e, start, rule, us, rem, entry)

RemindersNext ==
    \/ TimePasses
    \/ \E d \in Dispatchers : dispatchDueReminders(d) \/ ListAndDispatchReminders(d) \/ DispatchRollback(d)
    \/ \E p \in Publishers :
        \/ ClaimReminderOutbox(p) \/ PublishReminderOutbox(p) \/ PublisherCrash(p)
        \/ \E m \in remOutbox : PublishReminder(p, m)

CalendarSpec == CalendarInit /\ [][EventsNext \/ RemindersNext]_calVars
------------------------------------------------------------------------------
\* However many press "start" at once, on any instance, an event has one
\* running call, unless an edit made from an older copy overwrote the link.
OneCallPerEvent ==
    \A e \in EventIds \ unlinked :
        Cardinality({c \in CalCalls : evCall[c].event = e /\ ~evCall[c].ended}) <= 1

\* The move ends the request and writes the row the client saw.
MovesRow(q) == creq[q].op \in {"this", "following", "all"} /\ creq[q].token /\ ev' # ev /\ creq'[q].op = "idle"

\* MoveEventOccurrence ends in moveOccurrenceAll.
MovesWhole(r) == r.op = "all" \/ r.copy.rule = Single \/ (r.op = "following" /\ r.inst = r.copy.start)

\* What one move makes of the occurrences `old`.  moveOccurrenceAll leaves
\* exdates and UNTIL where they were, so a whole series is only moved as a whole
\* when it has neither.
MovedExactly(r, old) ==
    LET moved == IF r.op = "this" THEN {r.inst} ELSE {t \in old : t >= r.inst}
    IN  IF MovesWhole(r)
        THEN (r.copy.rule.kind # "until" /\ r.copy.ex = {})
               => expandOccurrences(ev'[r.e]) = {t + (r.new - r.copy.start) : t \in old}
        ELSE /\ expandOccurrences(ev'[r.e]) = old \ moved
             /\ \E child \in EventIds :
                  ev[child] = NoEvent /\ expandOccurrences(ev'[child]) = {t + (r.new - r.inst) : t \in moved}

\* A move sent with the version the client saw moves exactly what it names,
\* whatever was moved or rescheduled meanwhile: one occurrence, or that one and
\* the following, of a series with any exdates and either end, or the whole of a
\* series that has a count and no exdates.  No occurrence is lost, doubled or
\* brought back.
MoveIsExact ==
    [][\A q \in CalRequests : MovesRow(q) => MovedExactly(creq[q], expandOccurrences(ev[creq[q].e]))]_calVars

\* Nobody is reminded twice of an occurrence by two instances that look at
\* the same time, or by one that lost its transaction.
RemindedOnce ==
    \A k \in EventIds \X CalUsers \X Slots :
        k \notin renewed => Cardinality({m \in remOutbox : m.key = k}) <= 1

\* A reminder the publisher still has to send.
OnItsWay(m) == ~m.sent /\ m.tries < ReminderTries

\* Reminders on their way are published, or given up after ReminderTries, so that
\* the outbox is worked off, whatever rows a failing publisher held.
RemindersSettle == (\E m \in remOutbox : OnItsWay(m)) ~> (\A m \in remOutbox : ~OnItsWay(m))
==============================================================================
