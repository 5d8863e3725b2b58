----------------------------- MODULE MCMeetings -----------------------------
(* Meetings: independent parts side by side; each behaviour exercises one. *)
EXTENDS Calendar

CONSTANTS Sides

VARIABLE side

vars == <<calVars, side>>

\* "calls": edits, answers and starts of a meeting; "moves": moves and
\* reschedulings of a series of three; "reminders": workers of two instances and
\* an edit; "calendars": calendars come and go, and events are made in them.
CalInit ==
    /\ cal = [k \in CalendarIds |-> IF k = "home" /\ side # "calendars"
                                  THEN [owner |-> "o", visible |-> TRUE] ELSE NoCalendar]
    /\ \E rule \in (IF side = "moves" THEN {x \in RecurrenceInputs : x.n > 1}
                    ELSE {[kind |-> "count", n |-> 1]}) :
        ev = [e \in EventIds |-> IF e = "e" /\ side # "calendars"
                THEN [NoEvent EXCEPT !.cal = "home", !.org = "o", !.att["m"] = "no_response", !.start = 2,
                        !.rule = rule, !.ver = 1, !.rem = {"o", "m"}]
                ELSE NoEvent]
    /\ evCall = [c \in CalCalls |-> NoCalCall] /\ evRooms = {}
    /\ evLock = [e \in EventIds |-> "none"]
    /\ creq = [q \in CalRequests |-> IdleCal]
    /\ calNow = 0 /\ dispatch = [k \in {} |-> "due"]
    /\ dtx = [d \in Dispatchers |-> IdleDispatch] /\ remOutbox = {}
    /\ ptx = [p \in Publishers |-> IdlePublish]
    /\ calCount = 0 /\ calFaults = 0 /\ unlinked = {} /\ renewed = {}

Init == side \in Sides /\ CalInit

\* Bounds: the operations of each side; calendars change and events are
\* created in "calendars".
SideOps ==
    CASE side = "calls" -> {"idle", "update", "rsvp", "start", "delete"}
      [] side = "moves" -> {"idle", "update", "this", "following", "all"}
      [] side = "calendars" -> {"idle", "update"}
      [] OTHER          -> {"idle", "update", "all", "delete"}

\* Where calendars and events are given.
Given == INSTANCE Calendar WITH CalOps <- CalOps \ {"create", "calendar"}

\* A request changes calendars or inserts an event.
MakesRows == cal' # cal \/ \E e \in EventIds : ev[e] = NoEvent /\ ev'[e] # NoEvent

CalStep ==
    /\ \/ side = "calendars" /\ EventsNext
       \/ side # "calendars" /\ Given!EventsNext
       \/ side = "reminders" /\ RemindersNext
    /\ CASE side = "calendars" -> calCount' < 2
         [] side = "moves"     -> MakesRows => cal' = cal /\ creq' # creq
         [] side = "calls"     -> ~MakesRows
         [] OTHER              -> ~MakesRows /\ calCount' < 2
    /\ \A q \in CalRequests :
        /\ creq'[q].op \in SideOps
        /\ creq'[q].token = (side = "moves" /\ creq'[q].op \in {"this", "following", "all"})

Next == CalStep /\ UNCHANGED side

\* The publishers are supervised loops, and a database answers.
Fairness ==
    /\ \A p \in Publishers :
        /\ WF_vars(side = "reminders" /\ ClaimReminderOutbox(p) /\ UNCHANGED side)
        /\ WF_vars((\E m \in remOutbox : PublishReminder(p, m)) /\ UNCHANGED side)
        /\ WF_vars(PublishReminderOutbox(p) /\ UNCHANGED side)

Spec == Init /\ [][Next]_vars /\ Fairness
=============================================================================
