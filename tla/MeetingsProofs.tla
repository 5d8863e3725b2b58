---------------------------- MODULE MeetingsProofs ----------------------------
(* Proofs about calendar events and their reminders, for any number of      *)
(* users, events, calls, requests and workers.                              *)
EXTENDS Calendar, FiniteSetTheorems, TLAPS

-----------------------------------------------------------------------------
(* Events.                                                                  *)

Rules == {Single} \cup [kind : {"until", "count"}, n : Int]

EventRows ==
    [cal : CalendarIds \cup {"none"}, org : CalUsers \cup {"none"},
     att : [CalUsers -> {"none", "no_response", "going", "declined"}], start : Int, rule : Rules,
     ex : SUBSET Int, call : CalCalls \cup {"none"}, ver : Nat,
     rem : SUBSET (CalUsers \cup {"nil"}), entry : {"unset", "password"}]

CalRequest ==
    [op : {"idle", "update", "this", "following", "all", "delete", "rsvp", "start"},
     by : CalUsers \cup {"none"}, e : EventIds \cup {"none"}, copy : EventRows, inst : Int, new : Int,
     token : BOOLEAN,
     arg : CalCalls \cup {"none", "going", "declined"}]

EventsTyped ==
    /\ ev \in [EventIds -> EventRows]
    /\ \A e \in EventIds : ~EventExists(e) => ev[e] = NoEvent
    /\ evCall \in [CalCalls -> [event : EventIds \cup {"none"}, ended : BOOLEAN]]
    /\ evLock \in [EventIds -> CalRequests \cup {"none"}]
    /\ creq \in [CalRequests -> CalRequest]
    /\ \A q \in CalRequests : creq[q].op = "rsvp" => creq[q].arg \in {"going", "declined"}

\* What x says about when the event takes place is what y says.
SameTimes(x, y) == x.start = y.start /\ x.rule = y.rule /\ x.ex = y.ex

\* A copy with the version of the row has its times, but for an update that is
\* about to change them: every write of the times raises the version, and no row
\* gets the id of a row that is gone.
CopiesAreVersioned ==
    \A q \in CalRequests : creq[q].op # "idle" =>
        LET r == creq[q]
        IN  /\ r.e \in EventIds /\ r.copy.org # "none" /\ r.by # "none"
            /\ EventExists(r.e) => /\ r.copy.ver <= ev[r.e].ver
                                   /\ r.copy.ver = ev[r.e].ver /\ r.op # "update" => SameTimes(r.copy, ev[r.e])

RunsFor(c, e) == evCall[c].event = e /\ ~evCall[c].ended

\* The running call of an event is the one its row names.
LinksHold ==
    \A e \in EventIds \ unlinked : \A c \in CalCalls : RunsFor(c, e) =>
        /\ EventExists(e) => ev[e].call = c
        /\ \A d \in CalCalls : RunsFor(d, e) => d = c

\* Whoever has prepared a call holds the row, and the event has none running.
StartersHoldTheRow ==
    \A q \in CalRequests : creq[q].op = "start" /\ creq[q].arg # "none" =>
        /\ creq[q].arg \in CalCalls
        /\ evLock[creq[q].e] = q /\ EventExists(creq[q].e)
        /\ creq[q].e \notin unlinked => \A c \in CalCalls : ~RunsFor(c, creq[q].e)

EInv == EventsTyped /\ CopiesAreVersioned /\ LinksHold /\ StartersHoldTheRow

LEMMA NoEventTyped == NoEvent \in EventRows /\ NoEvent.org = "none" /\ NoEvent.call = "none"
  BY DEF NoEvent, EventRows, Rules, Single

LEMMA IdleCalTyped == IdleCal \in CalRequest /\ IdleCal.op = "idle"
  BY NoEventTyped DEF IdleCal, CalRequest

LEMMA EInvInit == CalendarInit => EInv
<1> SUFFICES ASSUME CalendarInit PROVE EInv
  OBVIOUS
<1> USE DEF CalendarInit
<1>1. EventsTyped
  BY NoEventTyped, IdleCalTyped DEF EventsTyped, EventExists, NoCalCall
<1>2. CopiesAreVersioned /\ StartersHoldTheRow
  BY IdleCalTyped DEF CopiesAreVersioned, StartersHoldTheRow
<1>3. LinksHold
  BY CalendarAssumption DEF LinksHold, RunsFor, NoCalCall
<1> QED
  BY <1>1, <1>2, <1>3 DEF EInv

(* What a step may do to the row of an event.                               *)
Kept(e) == /\ ev'[e].org = ev[e].org /\ ev'[e].call = ev[e].call /\ ev'[e].ver = ev[e].ver
           /\ SameTimes(ev'[e], ev[e]) /\ (~EventExists(e) => ev'[e] = ev[e])
Bumped(e) == /\ evLock[e] = "none" /\ EventExists(e) /\ ev'[e].org # "none" /\ ev'[e].ver = ev[e].ver + 1
             /\ ev'[e].call = ev[e].call \/ e \in unlinked'
Fresh(e) == NewId(e) /\ ev'[e].org # "none" /\ ev'[e].call = "none"
Gone(e) == evLock[e] = "none" /\ ev'[e] = NoEvent

LEMMA RowsChange ==
    ASSUME EInv, ev' \in [EventIds -> EventRows],
           \A e \in EventIds : Kept(e) \/ Bumped(e) \/ Fresh(e) \/ Gone(e),
           UNCHANGED <<evCall, evLock>>, unlinked \subseteq unlinked',
           creq' \in [CalRequests -> CalRequest],
           \A q \in CalRequests : creq'[q] = creq[q] \/ creq'[q] = IdleCal
    PROVE  EInv'
<1>1. EventsTyped'
  <2>1. \A q \in CalRequests : creq'[q].op = "rsvp" => creq'[q].arg \in {"going", "declined"}
    BY IdleCalTyped DEF EInv, EventsTyped
  <2> QED
    BY <2>1 DEF EInv, EventsTyped, EventExists, Kept, Bumped, Fresh, Gone
<1>2. CopiesAreVersioned'
  <2> SUFFICES ASSUME NEW q \in CalRequests, creq'[q].op # "idle"
               PROVE  /\ creq'[q].e \in EventIds /\ creq'[q].copy.org # "none" /\ creq'[q].by # "none"
                      /\ EventExists(creq[q].e)' =>
                           /\ creq'[q].copy.ver <= ev'[creq'[q].e].ver
                           /\ creq'[q].copy.ver = ev'[creq'[q].e].ver /\ creq'[q].op # "update" => SameTimes(creq'[q].copy, ev'[creq'[q].e])
    BY DEF CopiesAreVersioned
  <2>1. creq'[q] = creq[q] /\ creq[q].op # "idle"
    BY IdleCalTyped
  <2> DEFINE r == creq[q]
  <2>2. /\ r.e \in EventIds /\ r.copy.org # "none" /\ r.by # "none" /\ r.copy.ver \in Nat /\ ev[r.e].ver \in Nat
        /\ EventExists(r.e) => /\ r.copy.ver <= ev[r.e].ver
                               /\ r.copy.ver = ev[r.e].ver /\ r.op # "update" => SameTimes(r.copy, ev[r.e])
    BY <2>1 DEF EInv, EventsTyped, CopiesAreVersioned, CalRequest, EventRows
  <2>3. CASE Kept(r.e)
    BY <2>1, <2>2, <2>3 DEF Kept, EventExists, SameTimes
  <2>4. CASE Bumped(r.e)
    BY <2>1, <2>2, <2>4 DEF Bumped
  <2>5. CASE Fresh(r.e)
    BY <2>5 DEF Fresh, NewId
  <2>6. CASE Gone(r.e)
    BY <2>1, <2>2, <2>6, NoEventTyped DEF Gone, EventExists
  <2> QED
    BY <2>2, <2>3, <2>4, <2>5, <2>6
<1>3. LinksHold'
  <2> SUFFICES ASSUME NEW e \in EventIds, e \notin unlinked', NEW c \in CalCalls, RunsFor(c, e)
               PROVE  /\ EventExists(e)' => ev'[e].call = c
                      /\ \A d \in CalCalls : RunsFor(d, e) => d = c
    BY DEF LinksHold, RunsFor
  <2>1. (EventExists(e) => ev[e].call = c) /\ \A d \in CalCalls : RunsFor(d, e) => d = c
    BY DEF EInv, LinksHold
  <2>2. ~Fresh(e)
    BY DEF Fresh, NewId, RunsFor
  <2> QED
    BY <2>1, <2>2, NoEventTyped DEF Kept, Bumped, Gone, EventExists
<1>4. StartersHoldTheRow'
  <2> SUFFICES ASSUME NEW q \in CalRequests, creq'[q].op = "start", creq'[q].arg # "none"
               PROVE  /\ creq'[q].arg \in CalCalls
                      /\ evLock[creq'[q].e] = q /\ ev'[creq'[q].e].org # "none"
                      /\ creq'[q].e \notin unlinked' => \A c \in CalCalls : ~RunsFor(c, creq'[q].e)
    BY DEF StartersHoldTheRow, RunsFor, EventExists
  <2>1. creq'[q] = creq[q]
    BY IdleCalTyped
  <2>2. /\ creq[q].arg \in CalCalls /\ evLock[creq[q].e] = q /\ EventExists(creq[q].e)
        /\ creq[q].e \in EventIds
        /\ creq[q].e \notin unlinked => \A c \in CalCalls : ~RunsFor(c, creq[q].e)
    BY <2>1 DEF EInv, StartersHoldTheRow, CopiesAreVersioned
  <2>3. q # "none"
    BY CalendarAssumption
  <2> QED
    BY <2>1, <2>2, <2>3 DEF Kept, Bumped, Fresh, NewId, Gone, EventExists
<1> QED
  BY <1>1, <1>2, <1>3, <1>4 DEF EInv

LEMMA RemExcept ==
    ASSUME NEW x \in EventRows, NEW rem \in SUBSET (CalUsers \cup {"nil"})
    PROVE  /\ [x EXCEPT !.rem = rem] \in EventRows /\ [x EXCEPT !.rem = rem].org = x.org
           /\ [x EXCEPT !.rem = rem].ver = x.ver /\ [x EXCEPT !.rem = rem].call = x.call
           /\ SameTimes([x EXCEPT !.rem = rem], x)
  BY DEF EventRows, SameTimes

LEMMA AttExcept ==
    ASSUME NEW x \in EventRows, NEW att \in [CalUsers -> {"none", "no_response", "going", "declined"}]
    PROVE  /\ [x EXCEPT !.att = att] \in EventRows /\ [x EXCEPT !.att = att].org = x.org
           /\ [x EXCEPT !.att = att].ver = x.ver /\ [x EXCEPT !.att = att].call = x.call
           /\ SameTimes([x EXCEPT !.att = att], x)
  BY DEF EventRows, SameTimes

NewRow(x, k, u, start, rule, att, entry, rem) ==
    [x EXCEPT !.cal = k, !.org = u, !.att = att, !.start = start, !.rule = rule, !.ver = 1,
                    !.entry = entry, !.rem = rem]

LEMMA NewRowTyped ==
    ASSUME NEW x \in EventRows, NEW k \in CalendarIds, NEW u \in CalUsers,
           NEW start \in Int, NEW rule \in Rules,
           NEW att \in [CalUsers -> {"none", "no_response", "going", "declined"}],
           NEW entry \in {"unset", "password"}, NEW rem \in SUBSET (CalUsers \cup {"nil"})
    PROVE  /\ NewRow(x, k, u, start, rule, att, entry, rem) \in EventRows
           /\ NewRow(x, k, u, start, rule, att, entry, rem).org = u
           /\ NewRow(x, k, u, start, rule, att, entry, rem).call = x.call
<1>1. x.ex \in SUBSET Int /\ x.call \in CalCalls \cup {"none"}
  BY DEF EventRows
<1> DEFINE y == NewRow(x, k, u, start, rule, att, entry, rem)
<1>2. y = [x EXCEPT !.cal = k, !.org = u, !.att = att, !.start = start, !.rule = rule, !.ver = 1,
                    !.entry = entry, !.rem = rem]
  BY DEF NewRow
<1> HIDE DEF y
<1>3. y = [cal |-> k, org |-> u, att |-> att, start |-> start, rule |-> rule, ex |-> x.ex, call |-> x.call,
           ver |-> 1, rem |-> rem, entry |-> entry]
  BY <1>2 DEF EventRows
<1>4. y \in EventRows /\ y.org = u /\ y.call = x.call
  BY <1>1, <1>3 DEF EventRows
<1> QED
  BY <1>4 DEF y

LEMMA RemindersTyped ==
    ASSUME NEW x \in SUBSET (CalUsers \cup {"nil"}), NEW y \in SUBSET (CalUsers \cup {"nil"})
    PROVE  replaceReminders(x, y) \in SUBSET (CalUsers \cup {"nil"})
  BY DEF replaceReminders, diffReminderDefinitions

LEMMA DoneTyped ==
    ASSUME EInv, NEW q \in CalRequests, CalDone(q)
    PROVE  /\ creq' \in [CalRequests -> CalRequest]
           /\ \A p \in CalRequests : creq'[p] = creq[p] \/ creq'[p] = IdleCal
  BY IdleCalTyped DEF EInv, EventsTyped, CalDone

\* What every transaction that writes the row of an event does to the rows: the
\* row itself is raised, another one is at most new.
LEMMA UpdateRow ==
    ASSUME EInv, NEW q \in CalRequests, NEW e \in EventIds, NEW x \in EventRows,
           NEW f \in [EventIds -> EventRows],
           x.org # "none", updateEventRowTx(e, x, FALSE), UpdateEventTx(e, x, f),
           \A d \in EventIds \ {e} : f[d] = ev[d] \/ (NewId(d) /\ f[d].org # "none" /\ f[d].call = "none"),
           CalDone(q), UNCHANGED <<evCall, evLock>>
    PROVE  EInv'
<1> DEFINE rows == replaceReminders(ev[e].rem, x.rem)
           y == [x EXCEPT !.ver = ev[e].ver + 1, !.rem = rows, !.att = replaceAttendees(ev[e].att, @)]
<1>1. rows \in SUBSET (CalUsers \cup {"nil"})
  BY RemindersTyped DEF EInv, EventsTyped, EventRows
<1>2. y \in EventRows /\ y.ver = ev[e].ver + 1 /\ y.org = x.org /\ y.call = x.call
  <2>1. ev[e].ver + 1 \in Nat
    BY DEF EInv, EventsTyped, EventRows
  <2>2. y = [x EXCEPT !.ver = ev[e].ver + 1, !.rem = rows]
    BY DEF replaceAttendees, EventRows
  <2> HIDE DEF rows, y
  <2> QED
    BY <1>1, <2>1, <2>2 DEF EventRows
<1>3. ev' = [f EXCEPT ![e] = y]
  BY DEF UpdateEventTx
<1> HIDE DEF y
<1>4. ev' \in [EventIds -> EventRows]
  BY <1>2, <1>3
<1>5. Bumped(e)
  BY <1>2, <1>3 DEF Bumped, updateEventRowTx, UpdateEventTx
<1>6. \A d \in EventIds \ {e} : Kept(d) \/ Fresh(d)
  BY <1>3 DEF Kept, Fresh, SameTimes
<1>7. unlinked \subseteq unlinked'
  BY DEF UpdateEventTx
<1> QED
  BY <1>4, <1>5, <1>6, <1>7, DoneTyped, RowsChange

LEMMA UpdateKeeps ==
    ASSUME EInv, NEW q \in CalRequests, UpdateEvent(q)
    PROVE  EInv'
<1> DEFINE r == creq[q]
           rem == buildReminderRows(r.copy.org, r.copy.att, r.copy.rem)
           x == [r.copy EXCEPT !.rem = rem]
<1>1. r.copy \in EventRows /\ r.copy.org # "none" /\ r.e \in EventIds
  BY DEF UpdateEvent, EInv, EventsTyped, CopiesAreVersioned, CalRequest
<1>2. rem \in SUBSET (CalUsers \cup {"nil"})
  BY <1>1 DEF buildReminderRows, EventRows
<1>3. x \in EventRows /\ x.org # "none"
  <2> HIDE DEF r, rem
  <2> QED
    BY <1>1, <1>2, RemExcept
<1>4. updateEventRowTx(r.e, x, FALSE) /\ UpdateEventTx(r.e, x, ev) /\ CalDone(q) /\ UNCHANGED <<evCall, evLock>>
  BY DEF UpdateEvent
<1>5. ev \in [EventIds -> EventRows]
  BY DEF EInv, EventsTyped
<1> HIDE DEF x, r
<1> QED
  BY <1>1, <1>3, <1>4, <1>5, UpdateRow

LEMMA ChildTyped ==
    ASSUME NEW x \in EventRows, x.org # "none", NEW at \in Int
    PROVE  /\ buildOccurrenceChild(x, at) \in EventRows
           /\ buildOccurrenceChild(x, at).org # "none" /\ buildOccurrenceChild(x, at).call = "none"
           /\ buildOccurrenceChild(x, at).start = at /\ buildOccurrenceChild(x, at).rule = Single
<1>1. resetAttendees(x.att) \in [CalUsers -> {"none", "no_response", "going", "declined"}]
  BY DEF resetAttendees
<1> QED
  BY <1>1 DEF buildOccurrenceChild, EventRows, Rules, copyReminders

LEMMA CreatedTyped ==
    ASSUME NEW x \in EventRows
    PROVE  /\ CreateEventTx(x) \in EventRows
           /\ CreateEventTx(x).org = x.org /\ CreateEventTx(x).call = x.call
           /\ SameTimes(CreateEventTx(x), x)
<1>1. replaceReminders({}, x.rem) \in SUBSET (CalUsers \cup {"nil"})
  BY RemindersTyped DEF EventRows
<1> QED
  BY <1>1 DEF CreateEventTx, EventRows, SameTimes

\* The rule of the part that is split off: what was left of the count, or the
\* end moved along.
LEMMA SplitRule ==
    ASSUME NEW rule \in [kind : {"until", "count"}, n : Int], NEW start \in Int, NEW inst \in Int, NEW new \in Int,
           inst \in Expand(rule, start, {})
    PROVE  /\ start <= inst
           /\ rule.kind = "until" => ShiftBounds(rule, start, inst, new) = [rule EXCEPT !.n = @ + (new - inst)]
           /\ rule.kind = "count" => ShiftBounds(rule, start, inst, new) = [rule EXCEPT !.n = @ - (inst - start)]
<1>1. CASE rule.kind = "until"
  BY <1>1 DEF ShiftBounds, Expand
<1>2. CASE rule.kind = "count"
  <2> DEFINE before == {t \in Expand(rule, start, {}) : t < inst}
  <2>1. Expand(rule, start, {}) = start .. (start + rule.n - 1)
    BY <1>2 DEF Expand
  <2>2. before = start .. (inst - 1) /\ start <= inst
    BY <1>2, <2>1
  <2>3. Cardinality(start .. (inst - 1)) = inst - start
    <3>1. inst - 1 \in Int
      OBVIOUS
    <3>2. Cardinality(start .. (inst - 1)) = IF start > inst - 1 THEN 0 ELSE (inst - 1) - start + 1
      BY <3>1, FS_Interval
    <3> QED
      BY <2>2, <3>2
  <2>4. ShiftBounds(rule, start, inst, new) = [rule EXCEPT !.n = @ - Cardinality(before)]
    BY <1>2 DEF ShiftBounds
  <2> HIDE DEF before
  <2> QED
    BY <1>2, <2>2, <2>3, <2>4
<1> QED
  BY <1>1, <1>2

LEMMA SplitTyped ==
    ASSUME NEW rule \in Rules \ {Single}, NEW start \in Int, NEW inst \in Int, NEW new \in Int
    PROVE  /\ SetUntil(rule, inst - 1) \in Rules
           /\ inst \in Expand(rule, start, {}) => ShiftBounds(rule, start, inst, new) \in Rules
<1>1. rule \in [kind : {"until", "count"}, n : Int]
  BY DEF Rules
<1>2. SetUntil(rule, inst - 1) \in Rules
  BY DEF SetUntil, Rules
<1>3. inst \in Expand(rule, start, {}) => ShiftBounds(rule, start, inst, new) \in Rules
  BY <1>1, SplitRule DEF Rules
<1> QED
  BY <1>2, <1>3

LEMMA MemberInRange ==
    ASSUME NEW x \in EventRows, NEW inst, IsMember(x, inst)
    PROVE  inst \in Expand(x.rule, x.start, {}) /\ inst \notin x.ex
  BY DEF IsMember, Expand

\* The rows of a move of all, of one, and of the following occurrences.
MovedAll(r) == [r.copy EXCEPT !.start = r.new]
LessOne(r) == [r.copy EXCEPT !.ex = @ \cup {r.inst}]
One(r) == CreateEventTx(buildOccurrenceChild(r.copy, r.new))
Cut(r) == [r.copy EXCEPT !.rule = SetUntil(@, r.inst - 1), !.ex = {t \in @ : t < r.inst}]
Rest(r) ==
    CreateEventTx([buildOccurrenceChild(r.copy, r.new) EXCEPT
        !.rule = ShiftBounds(r.copy.rule, r.copy.start, r.inst, r.new),
        !.ex = {t + (r.new - r.inst) : t \in {s \in r.copy.ex : s > r.inst}}])

LEMMA MovesTyped ==
    ASSUME NEW r \in CalRequest, r.copy.org # "none"
    PROVE  /\ MovedAll(r) \in EventRows /\ MovedAll(r).org # "none"
           /\ LessOne(r) \in EventRows /\ LessOne(r).org # "none"
           /\ SameTimes(LessOne(r), [r.copy EXCEPT !.ex = @ \cup {r.inst}])
           /\ One(r) \in EventRows /\ One(r).org # "none" /\ One(r).call = "none"
           /\ One(r).start = r.new /\ One(r).rule = Single
<1>1. r.copy \in EventRows /\ r.new \in Int /\ r.inst \in Int
  BY DEF CalRequest
<1>2. MovedAll(r) \in EventRows /\ MovedAll(r).org # "none" /\ LessOne(r) \in EventRows /\ LessOne(r).org # "none"
  BY <1>1 DEF MovedAll, LessOne, EventRows
<1>3. /\ One(r) \in EventRows /\ One(r).org # "none" /\ One(r).call = "none"
      /\ One(r).start = r.new /\ One(r).rule = Single
  BY <1>1, ChildTyped, CreatedTyped DEF One, SameTimes
<1>4. SameTimes(LessOne(r), [r.copy EXCEPT !.ex = @ \cup {r.inst}])
  BY DEF LessOne, SameTimes
<1> QED
  BY <1>2, <1>3, <1>4

LEMMA SplitRowsTyped ==
    ASSUME NEW r \in CalRequest, r.copy.org # "none", r.copy.rule # Single, IsMember(r.copy, r.inst)
    PROVE  /\ Cut(r) \in EventRows /\ Cut(r).org # "none"
           /\ Cut(r).start = r.copy.start /\ Cut(r).rule = SetUntil(r.copy.rule, r.inst - 1)
           /\ Cut(r).ex = {t \in r.copy.ex : t < r.inst}
           /\ Rest(r) \in EventRows /\ Rest(r).org # "none" /\ Rest(r).call = "none"
           /\ Rest(r).start = r.new
           /\ Rest(r).rule = ShiftBounds(r.copy.rule, r.copy.start, r.inst, r.new)
           /\ Rest(r).ex = {t + (r.new - r.inst) : t \in {s \in r.copy.ex : s > r.inst}}
<1>1. r.copy \in EventRows /\ r.new \in Int /\ r.inst \in Int
  BY DEF CalRequest
<1>2. r.copy.rule \in Rules \ {Single} /\ r.copy.start \in Int /\ r.copy.ex \in SUBSET Int
  BY <1>1 DEF EventRows
<1> DEFINE until == SetUntil(r.copy.rule, r.inst - 1)
           shifted == ShiftBounds(r.copy.rule, r.copy.start, r.inst, r.new)
           early == {t \in r.copy.ex : t < r.inst}
           later == {t + (r.new - r.inst) : t \in {s \in r.copy.ex : s > r.inst}}
           child == buildOccurrenceChild(r.copy, r.new)
<1>3. until \in Rules /\ shifted \in Rules
  BY <1>1, <1>2, MemberInRange, SplitTyped
<1>4. later \in SUBSET Int
  BY <1>1, <1>2
<1>5. child \in EventRows /\ child.org # "none" /\ child.call = "none" /\ child.start = r.new
  BY <1>1, ChildTyped
<1>6. Cut(r) = [r.copy EXCEPT !.rule = until, !.ex = early] /\ early \in SUBSET Int
  BY <1>1, <1>2 DEF Cut, EventRows
<1>7. Rest(r) = CreateEventTx([child EXCEPT !.rule = shifted, !.ex = later])
  BY DEF Rest
<1> HIDE DEF until, shifted, early, later, child
<1>8. /\ Cut(r) \in EventRows /\ Cut(r).org # "none" /\ Cut(r).start = r.copy.start /\ Cut(r).rule = until
      /\ Cut(r).ex = early
  BY <1>1, <1>2, <1>3, <1>6 DEF EventRows
<1>9. /\ [child EXCEPT !.rule = shifted, !.ex = later] \in EventRows
      /\ [child EXCEPT !.rule = shifted, !.ex = later].org # "none"
      /\ [child EXCEPT !.rule = shifted, !.ex = later].call = "none"
      /\ [child EXCEPT !.rule = shifted, !.ex = later].start = r.new
      /\ [child EXCEPT !.rule = shifted, !.ex = later].rule = shifted
      /\ [child EXCEPT !.rule = shifted, !.ex = later].ex = later
  BY <1>3, <1>4, <1>5 DEF EventRows
<1>10. /\ Rest(r) \in EventRows /\ Rest(r).org # "none" /\ Rest(r).call = "none"
       /\ Rest(r).start = r.new /\ Rest(r).rule = shifted /\ Rest(r).ex = later
  BY <1>7, <1>9, CreatedTyped DEF SameTimes
<1> QED
  BY <1>8, <1>10 DEF until, shifted, early, later

LEMMA MoveKeeps ==
    ASSUME EInv, NEW q \in CalRequests, MoveEventOccurrence(q)
    PROVE  EInv'
<1> DEFINE r == creq[q]
<1>1. /\ r \in CalRequest /\ r.copy.org # "none" /\ r.e \in EventIds /\ ev \in [EventIds -> EventRows]
      /\ EventExists(r.e) /\ evLock[r.e] = "none" /\ CalDone(q) /\ UNCHANGED <<evCall, evLock>>
  BY DEF MoveEventOccurrence, EInv, EventsTyped, CopiesAreVersioned, updateEventRowTx
<1>2. \A x \in EventRows : updateEventRowTx(r.e, x, FALSE)
  BY <1>1 DEF updateEventRowTx
<1>3. CASE moveOccurrenceAll(r)
  <2>1. UpdateEventTx(r.e, MovedAll(r), ev)
    BY <1>3 DEF moveOccurrenceAll, MovedAll
  <2> HIDE DEF r
  <2> QED
    BY <1>1, <1>2, <2>1, MovesTyped, UpdateRow
<1>4. CASE moveOccurrenceThis(r)
  <2>1. PICK child \in EventIds :
          NewId(child) /\ UpdateEventTx(r.e, LessOne(r), [ev EXCEPT ![child] = One(r)])
    BY <1>4 DEF moveOccurrenceThis, LessOne, One
  <2> HIDE DEF r
  <2> DEFINE f == [ev EXCEPT ![child] = One(r)]
  <2>2. /\ f \in [EventIds -> EventRows]
        /\ \A d \in EventIds \ {r.e} : f[d] = ev[d] \/ (NewId(d) /\ f[d].org # "none" /\ f[d].call = "none")
    BY <1>1, <2>1, MovesTyped
  <2> HIDE DEF f
  <2> QED
    BY <1>1, <1>2, <2>1, <2>2, MovesTyped, UpdateRow DEF f
<1>5. CASE /\ r.copy.rule # Single /\ IsMember(r.copy, r.inst)
           /\ moveOccurrenceThisAndFollowing(r)
  <2>1. PICK child \in EventIds :
          NewId(child) /\ UpdateEventTx(r.e, Cut(r), [ev EXCEPT ![child] = Rest(r)])
    BY <1>5 DEF moveOccurrenceThisAndFollowing, Cut, Rest
  <2> HIDE DEF r
  <2> DEFINE f == [ev EXCEPT ![child] = Rest(r)]
  <2>2. /\ f \in [EventIds -> EventRows]
        /\ \A d \in EventIds \ {r.e} : f[d] = ev[d] \/ (NewId(d) /\ f[d].org # "none" /\ f[d].call = "none")
    BY <1>1, <1>5, <2>1, SplitRowsTyped
  <2> HIDE DEF f
  <2> QED
    BY <1>1, <1>2, <1>5, <2>1, <2>2, SplitRowsTyped, UpdateRow DEF f
<1> QED
  BY <1>3, <1>4, <1>5 DEF MoveEventOccurrence

LEMMA DeleteEventKeeps ==
    ASSUME EInv, NEW q \in CalRequests, DeleteEvent(q)
    PROVE  EInv'
<1>1. creq[q].e \in EventIds /\ evLock[creq[q].e] = "none"
  BY DEF DeleteEvent, updateEventRowTx, EInv, CopiesAreVersioned
<1>2. ev' \in [EventIds -> EventRows] /\ \A e \in EventIds : Kept(e) \/ Gone(e)
  BY <1>1, NoEventTyped DEF DeleteEvent, EInv, EventsTyped, Kept, Gone, SameTimes
<1> QED
  BY <1>2, DoneTyped, RowsChange DEF DeleteEvent

LEMMA RsvpKeeps ==
    ASSUME EInv, NEW q \in CalRequests, UpsertRsvp(q)
    PROVE  EInv'
<1> DEFINE r == creq[q]
           att == [ev[r.e].att EXCEPT ![r.by] = r.arg]
           x == [ev[r.e] EXCEPT !.att = att]
<1>1. r.e \in EventIds /\ EventExists(r.e)
  BY DEF UpsertRsvp, EInv, CopiesAreVersioned
<1>2. att \in [CalUsers -> {"none", "no_response", "going", "declined"}]
  BY <1>1 DEF UpsertRsvp, EInv, EventsTyped, EventRows
<1>3. x \in EventRows /\ x.org = ev[r.e].org /\ x.call = ev[r.e].call /\ x.ver = ev[r.e].ver /\ SameTimes(x, ev[r.e])
  <2> HIDE DEF att, r
  <2>1. ev[r.e] \in EventRows
    BY <1>1 DEF EInv, EventsTyped
  <2> QED
    BY <1>2, <2>1, AttExcept
<1>4. ev' = [ev EXCEPT ![r.e] = x]
  BY DEF UpsertRsvp
<1> HIDE DEF x, r
<1>5. ev' \in [EventIds -> EventRows] /\ \A e \in EventIds : Kept(e)
  BY <1>1, <1>3, <1>4 DEF EInv, EventsTyped, Kept, SameTimes
<1> QED
  BY <1>5, DoneTyped, RowsChange DEF UpsertRsvp

LEMMA CreateEventKeeps ==
    ASSUME EInv, NEW u \in CalUsers, NEW k \in CalendarIds, NEW e \in EventIds, NEW start \in Int,
           NEW rule \in Rules, NEW us \in SUBSET CalUsers, NEW rem, NEW entry \in {"unset", "password"},
           CreateEvent(u, k, e, start, rule, us, rem, entry)
    PROVE  EInv'
<1> DEFINE att == buildAttendees(us)
           rows == buildReminderRows(u, att, rem)
           x == NewRow(NoEvent, k, u, start, rule, att, entry, rows)
<1>1. /\ att \in [CalUsers -> {"none", "no_response", "going", "declined"}]
      /\ rows \in SUBSET (CalUsers \cup {"nil"})
  BY DEF buildAttendees, buildReminderRows
<1> HIDE DEF att, rows
<1>2. x \in EventRows /\ x.org = u /\ x.call = "none"
  BY <1>1, NoEventTyped, NewRowTyped
<1>3. ev' = [ev EXCEPT ![e] = CreateEventTx(x)] /\ NewId(e)
  BY DEF CreateEvent, NewRow, att, rows
<1> HIDE DEF x
<1>4. ev' \in [EventIds -> EventRows] /\ \A d \in EventIds : Kept(d) \/ Fresh(d)
  BY <1>2, <1>3, CreatedTyped, CalendarAssumption DEF EInv, EventsTyped, Kept, Fresh, SameTimes
<1>5. creq' \in [CalRequests -> CalRequest] /\ creq' = creq
  BY DEF CreateEvent, EInv, EventsTyped
<1> QED
  BY <1>4, <1>5, RowsChange DEF CreateEvent

LEMMA DeleteCalendarKeeps ==
    ASSUME EInv, NEW u \in CalUsers, NEW k \in CalendarIds, DeleteUserCalendar(u, k)
    PROVE  EInv'
<1>1. ev' \in [EventIds -> EventRows] /\ \A d \in EventIds : Kept(d) \/ Gone(d)
  BY NoEventTyped DEF DeleteUserCalendar, EInv, EventsTyped, Kept, Gone, SameTimes
<1>2. creq' \in [CalRequests -> CalRequest] /\ creq' = creq
  BY DEF DeleteUserCalendar, EInv, EventsTyped
<1> QED
  BY <1>1, <1>2, RowsChange DEF DeleteUserCalendar

\* A step that leaves the events, the calls and the requests alone.
LEMMA EventsUntouched ==
    ASSUME EInv, UNCHANGED <<ev, evCall, evLock, creq, unlinked>>
    PROVE  EInv'
  BY DEF EInv, EventsTyped, CopiesAreVersioned, LinksHold, StartersHoldTheRow, EventExists, RunsFor

\* What a request may keep of the event it read: an update has edited it.
Keepable(e, op, x) ==
    /\ x \in EventRows /\ x.org # "none" /\ x.ver = ev[e].ver
    /\ op # "update" => SameTimes(x, ev[e])

LEMMA ReadsAreKeepable ==
    ASSUME EInv, NEW e \in EventIds, EventExists(e)
    PROVE  \A op : Keepable(e, op, GetEvent(e))
<1> DEFINE rem == IF ev[e].rem = {} THEN {} ELSE {"nil"}
<1>1. GetEvent(e) = [ev[e] EXCEPT !.rem = rem] /\ rem \in SUBSET (CalUsers \cup {"nil"})
  BY DEF GetEvent, hydrateEvents
<1> HIDE DEF rem
<1>2. ev[e] \in EventRows /\ ev[e].org # "none"
  BY DEF EInv, EventsTyped, EventExists
<1> QED
  BY <1>1, <1>2, RemExcept DEF Keepable

LEMMA RulesAreRules == RecurrenceInputs \subseteq Rules /\ Starts \subseteq Int
  BY CalendarAssumption DEF RecurrenceInputs, Rules

LEMMA EditsAreKeepable ==
    ASSUME EInv, NEW e \in EventIds, EventExists(e), NEW u \in CalUsers, NEW x \in Edits(u, GetEvent(e))
    PROVE  Keepable(e, "update", x)
<1> DEFINE y == GetEvent(e)
<1>1. y \in EventRows /\ y.org # "none" /\ y.ver = ev[e].ver
  BY ReadsAreKeepable DEF Keepable
<1>2. x \in Edits(u, y)
  OBVIOUS
<1> HIDE DEF y
<1>3. buildAttendees(CalUsers \ {u}) \in [CalUsers -> {"none", "no_response", "going", "declined"}]
  BY DEF buildAttendees
<1>4. {"nil"} \in SUBSET (CalUsers \cup {"nil"})
  OBVIOUS
<1>5. ASSUME x \in {y, [y EXCEPT !.att = buildAttendees(CalUsers \ {u})], [y EXCEPT !.rem = {"nil"}]}
      PROVE  Keepable(e, "update", x)
  <2>1. CASE x = y
    BY <1>1, <2>1 DEF Keepable
  <2>2. CASE x = [y EXCEPT !.att = buildAttendees(CalUsers \ {u})]
    BY <1>1, <1>3, <2>2, AttExcept DEF Keepable
  <2>3. CASE x = [y EXCEPT !.rem = {"nil"}]
    BY <1>1, <1>4, <2>3, RemExcept DEF Keepable
  <2> QED
    BY <1>5, <2>1, <2>2, <2>3
<1>6. ASSUME NEW start \in Starts, x = [y EXCEPT !.start = start] PROVE Keepable(e, "update", x)
  BY <1>1, <1>6, RulesAreRules DEF Keepable, EventRows
<1>7. ASSUME NEW rule \in RecurrenceInputs, x = [y EXCEPT !.rule = rule] \/ x = [y EXCEPT !.rule = rule, !.ex = {}]
      PROVE  Keepable(e, "update", x)
  <2>1. rule \in Rules
    BY RulesAreRules
  <2>2. CASE x = [y EXCEPT !.rule = rule]
    BY <1>1, <2>1, <2>2 DEF Keepable, EventRows
  <2>3. CASE x = [y EXCEPT !.rule = rule, !.ex = {}]
    BY <1>1, <2>1, <2>3 DEF Keepable, EventRows
  <2> QED
    BY <1>7, <2>2, <2>3
<1>8. ASSUME NEW k \in CalendarIds, x = [y EXCEPT !.cal = k] PROVE Keepable(e, "update", x)
  BY <1>1, <1>8 DEF Keepable, EventRows
<1> DEFINE plain == {y, [y EXCEPT !.att = buildAttendees(CalUsers \ {u})], [y EXCEPT !.rem = {"nil"}]}
           starts == {[y EXCEPT !.start = start] : start \in Starts}
           kept == {[y EXCEPT !.rule = rule] : rule \in RecurrenceInputs}
           rules == {[y EXCEPT !.rule = rule, !.ex = {}] : rule \in RecurrenceInputs}
           calendars == {[y EXCEPT !.cal = k] : k \in ListUserCalendars(u)}
<1>9. x \in plain \/ x \in starts \/ x \in kept \/ x \in rules \/ x \in calendars
  BY <1>2 DEF Edits
<1>10. CASE x \in plain
  BY <1>5, <1>10
<1>11. CASE x \in starts
  BY <1>6, <1>11, Zenon
<1>12. CASE x \in kept \/ x \in rules
  BY <1>7, <1>12, Zenon
<1>13. CASE x \in calendars
  <2>1. ListUserCalendars(u) \subseteq CalendarIds
    BY DEF ListUserCalendars
  <2> QED
    BY <1>8, <1>13, <2>1, Zenon
<1> HIDE DEF plain, starts, kept, rules, calendars
<1> QED
  BY <1>9, <1>10, <1>11, <1>12, <1>13

LEMMA LoadKeeps ==
    ASSUME EInv, NEW q \in CalRequests, NEW u \in CalUsers, NEW e \in EventIds, EventExists(e),
           NEW op \in {"update", "this", "following", "all", "delete", "rsvp", "start"},
           NEW x, Keepable(e, op, x),
           NEW inst \in Int, NEW new \in Int, NEW token \in BOOLEAN,
           NEW arg \in {"none", "going", "declined"},
           op = "start" => arg = "none", op = "rsvp" => arg \in {"going", "declined"},
           LoadEvent(q, u, e, op, x, inst, new, token, arg)
    PROVE  EInv'
<1> DEFINE r == [op |-> op, by |-> u, e |-> e, copy |-> x, inst |-> inst,
                 new |-> new, token |-> token, arg |-> arg]
<1>1. x \in EventRows /\ x.org # "none" /\ x.ver = ev[e].ver /\ (op # "update" => SameTimes(x, ev[e]))
  BY DEF Keepable
<1>2. r \in CalRequest
  BY <1>1 DEF CalRequest
<1>3. creq' = [creq EXCEPT ![q] = r] /\ r.op = op /\ r.e = e /\ r.copy = x /\ r.arg = arg /\ r.by = u
  BY DEF LoadEvent
<1>4. UNCHANGED <<ev, evCall, evLock, unlinked>>
  BY DEF LoadEvent
<1> HIDE DEF r
<1>5. EventsTyped'
  <2>1. creq' \in [CalRequests -> CalRequest]
    BY <1>2, <1>3 DEF EInv, EventsTyped
  <2> QED
    BY <1>3, <1>4, <2>1 DEF EInv, EventsTyped, EventExists
<1>6. \A p \in CalRequests \ {q} : creq'[p] = creq[p]
  BY <1>3 DEF EInv, EventsTyped
<1>7. creq'[q] = r
  BY <1>3 DEF EInv, EventsTyped
<1>8. CopiesAreVersioned'
  <2>1. ev[e].ver \in Nat
    BY DEF EInv, EventsTyped, EventRows
  <2> QED
    BY <1>1, <1>3, <1>4, <1>6, <1>7, <2>1, CalendarAssumption DEF EInv, CopiesAreVersioned, EventExists
<1>9. StartersHoldTheRow'
  BY <1>3, <1>4, <1>6, <1>7 DEF EInv, StartersHoldTheRow, EventExists, RunsFor
<1>10. LinksHold'
  BY <1>4 DEF EInv, LinksHold, EventExists, RunsFor
<1> QED
  BY <1>5, <1>8, <1>9, <1>10 DEF EInv

LEMMA AbortKeeps ==
    ASSUME EInv, NEW q \in CalRequests, AbortRequest(q)
    PROVE  EInv'
<1>1. \A e \in EventIds : Kept(e)
  BY DEF AbortRequest, Kept, SameTimes
<1>2. ev' \in [EventIds -> EventRows]
  BY DEF AbortRequest, EInv, EventsTyped
<1> QED
  BY <1>1, <1>2, DoneTyped, RowsChange DEF AbortRequest

\* Under the row's lock the event has no running call, so a new one is prepared.
LEMMA StartKeeps ==
    ASSUME EInv, NEW q \in CalRequests, StartCallFromEvent(q)
    PROVE  EInv'
<1> DEFINE r == creq[q]
<1>0. r.e \in EventIds /\ EventExists(r.e) /\ evLock[r.e] = "none" /\ UNCHANGED <<ev, evCall, unlinked>>
  BY DEF StartCallFromEvent, LockEventForStartCall, EInv, CopiesAreVersioned
<1>1. CASE CalDone(q) /\ UNCHANGED evLock
  <2>1. \A e \in EventIds : Kept(e)
    BY <1>0 DEF Kept, SameTimes
  <2>2. ev' \in [EventIds -> EventRows]
    BY <1>0 DEF EInv, EventsTyped
  <2> QED
    BY <1>0, <1>1, <2>1, <2>2, DoneTyped, RowsChange
<1>2. ASSUME NEW d \in CalCalls, ~Running(ev[r.e].call), creq' = [creq EXCEPT ![q].arg = d],
             evLock' = [evLock EXCEPT ![r.e] = q]
      PROVE  EInv'
  <2>1. /\ creq' \in [CalRequests -> CalRequest] /\ \A p \in CalRequests \ {q} : creq'[p] = creq[p]
        /\ creq'[q].op = r.op /\ creq'[q].e = r.e /\ creq'[q].copy = r.copy /\ creq'[q].arg = d
        /\ creq'[q].by = r.by /\ r.op = "start"
    <3>1. [r EXCEPT !.arg = d] \in CalRequest
      <4>1. r \in CalRequest
        BY DEF EInv, EventsTyped
      <4> HIDE DEF r
      <4> QED
        BY <4>1 DEF CalRequest
    <3>2. creq' = [creq EXCEPT ![q] = [r EXCEPT !.arg = d]]
      BY <1>2
    <3>3. r \in CalRequest /\ r.op = "start"
      BY DEF EInv, EventsTyped, StartCallFromEvent
    <3>4. creq'[q] = [r EXCEPT !.arg = d] /\ \A p \in CalRequests \ {q} : creq'[p] = creq[p]
      BY <3>2 DEF EInv, EventsTyped
    <3>5. creq' \in [CalRequests -> CalRequest]
      BY <3>1, <3>2 DEF EInv, EventsTyped
    <3> HIDE DEF r
    <3> QED
      BY <3>3, <3>4, <3>5 DEF CalRequest
  <2>2. EventsTyped'
    BY <1>0, <1>2, <2>1 DEF EInv, EventsTyped, EventExists
  <2>3. CopiesAreVersioned'
    BY <1>0, <2>1 DEF EInv, CopiesAreVersioned, EventExists
  <2>4. LinksHold'
    BY <1>0 DEF EInv, LinksHold, EventExists, RunsFor
  <2>5. r.e \notin unlinked => \A c \in CalCalls : ~RunsFor(c, r.e)
    BY <1>0, <1>2, CalendarAssumption DEF EInv, LinksHold, Running, RunsFor
  <2>6. StartersHoldTheRow'
    <3> SUFFICES ASSUME NEW p \in CalRequests, creq'[p].op = "start", creq'[p].arg # "none"
                 PROVE  /\ creq'[p].arg \in CalCalls
                        /\ evLock'[creq'[p].e] = p /\ EventExists(creq'[p].e)
                        /\ creq'[p].e \notin unlinked => \A c \in CalCalls : ~RunsFor(c, creq'[p].e)
      BY <1>0 DEF StartersHoldTheRow, RunsFor, EventExists
    <3>1. CASE p = q
      BY <1>0, <1>2, <2>1, <2>5, <3>1 DEF EInv, EventsTyped
    <3>2. CASE p # q
      <4>1. /\ creq'[p] = creq[p] /\ creq[p].arg \in CalCalls
            /\ evLock[creq[p].e] = p /\ EventExists(creq[p].e) /\ creq[p].e \in EventIds
            /\ creq[p].e \notin unlinked => \A c \in CalCalls : ~RunsFor(c, creq[p].e)
        BY <2>1, <3>2 DEF EInv, StartersHoldTheRow, CopiesAreVersioned
      <4>2. creq[p].e # r.e
        BY <1>0, <4>1, CalendarAssumption
      <4> QED
        BY <1>0, <1>2, <4>1, <4>2 DEF EInv, EventsTyped
    <3> QED
      BY <3>1, <3>2
  <2> QED
    BY <2>2, <2>3, <2>4, <2>6 DEF EInv
<1> QED
  BY <1>1, <1>2 DEF StartCallFromEvent

\* The request that holds the row gives it back, with or without a call.
LEMMA UnlockKeeps ==
    ASSUME EInv, NEW q \in CalRequests, creq[q].op = "start", creq[q].arg # "none",
           evLock' = [evLock EXCEPT ![creq[q].e] = "none"], CalDone(q)
    PROVE  /\ evLock' \in [EventIds -> CalRequests \cup {"none"}]
           /\ \A p \in CalRequests : creq'[p].op = "start" /\ creq'[p].arg # "none" =>
                /\ creq'[p] = creq[p] /\ creq[p].arg \in CalCalls /\ creq[p].e # creq[q].e
                /\ evLock'[creq[p].e] = p /\ EventExists(creq[p].e)
                /\ creq[p].e \notin unlinked => \A c \in CalCalls : ~RunsFor(c, creq[p].e)
<1>1. evLock' \in [EventIds -> CalRequests \cup {"none"}]
  BY DEF EInv, EventsTyped
<1>2. ASSUME NEW p \in CalRequests, creq'[p].op = "start", creq'[p].arg # "none"
      PROVE  /\ creq'[p] = creq[p] /\ creq[p].arg \in CalCalls /\ creq[p].e # creq[q].e
             /\ evLock'[creq[p].e] = p /\ EventExists(creq[p].e)
             /\ creq[p].e \notin unlinked => \A c \in CalCalls : ~RunsFor(c, creq[p].e)
  <2>1. p # q /\ creq'[p] = creq[p]
    BY <1>2, IdleCalTyped DEF CalDone, EInv, EventsTyped
  <2>2. /\ creq[p].arg \in CalCalls /\ evLock[creq[p].e] = p /\ EventExists(creq[p].e)
        /\ creq[p].e \in EventIds /\ evLock[creq[q].e] = q
        /\ creq[p].e \notin unlinked => \A c \in CalCalls : ~RunsFor(c, creq[p].e)
    BY <1>2, <2>1 DEF EInv, StartersHoldTheRow, CopiesAreVersioned
  <2> QED
    BY <2>1, <2>2 DEF EInv, EventsTyped
<1> QED
  BY <1>1, <1>2

LEMMA RollbackKeeps ==
    ASSUME EInv, NEW q \in CalRequests, StartCallRollback(q)
    PROVE  EInv'
<1>0. UNCHANGED <<ev, evCall, unlinked>>
  BY DEF StartCallRollback
<1>1. /\ evLock' \in [EventIds -> CalRequests \cup {"none"}]
      /\ \A p \in CalRequests : creq'[p].op = "start" /\ creq'[p].arg # "none" =>
                /\ creq'[p] = creq[p] /\ creq[p].arg \in CalCalls
                /\ evLock'[creq[p].e] = p /\ EventExists(creq[p].e)
                /\ creq[p].e \notin unlinked => \A c \in CalCalls : ~RunsFor(c, creq[p].e)
  BY UnlockKeeps DEF StartCallRollback
<1>2. /\ creq' \in [CalRequests -> CalRequest]
      /\ \A p \in CalRequests : creq'[p] = creq[p] \/ creq'[p] = IdleCal
  BY DoneTyped DEF StartCallRollback
<1>3. EventsTyped'
  BY <1>0, <1>1, <1>2, IdleCalTyped DEF EInv, EventsTyped, EventExists
<1>4. CopiesAreVersioned' /\ LinksHold'
  BY <1>0, <1>2, IdleCalTyped DEF EInv, CopiesAreVersioned, LinksHold, EventExists, RunsFor
<1>5. StartersHoldTheRow'
  BY <1>0, <1>1 DEF StartersHoldTheRow, EventExists, RunsFor
<1> QED
  BY <1>3, <1>4, <1>5 DEF EInv

LEMMA LinkKeeps ==
    ASSUME EInv, NEW q \in CalRequests, LinkEventAndCall(q)
    PROVE  EInv'
<1> DEFINE e == creq[q].e
           c == creq[q].arg
<1>0. /\ e \in EventIds /\ e # "none" /\ c \in CalCalls /\ EventExists(e) /\ unlinked' = unlinked
      /\ e \notin unlinked => \A d \in CalCalls : ~RunsFor(d, e)
  BY CalendarAssumption DEF LinkEventAndCall, EInv, CopiesAreVersioned, StartersHoldTheRow
<1>1. /\ evLock' \in [EventIds -> CalRequests \cup {"none"}]
      /\ \A p \in CalRequests : creq'[p].op = "start" /\ creq'[p].arg # "none" =>
                /\ creq'[p] = creq[p] /\ creq[p].arg \in CalCalls /\ creq[p].e # e
                /\ evLock'[creq[p].e] = p /\ EventExists(creq[p].e)
                /\ creq[p].e \notin unlinked => \A d \in CalCalls : ~RunsFor(d, creq[p].e)
  BY UnlockKeeps DEF LinkEventAndCall
<1>2. /\ creq' \in [CalRequests -> CalRequest]
      /\ \A p \in CalRequests : creq'[p] = creq[p] \/ creq'[p] = IdleCal
  BY DoneTyped DEF LinkEventAndCall
<1>3. /\ ev' \in [EventIds -> EventRows] /\ \A d \in EventIds \ {e} : ev'[d] = ev[d]
      /\ ev'[e].call = c /\ ev'[e].org = ev[e].org /\ ev'[e].ver = ev[e].ver /\ SameTimes(ev'[e], ev[e])
  <2>1. ev' = [ev EXCEPT ![e] = [ev[e] EXCEPT !.call = c]]
    BY DEF LinkEventAndCall
  <2>2. ev[e] \in EventRows /\ ev \in [EventIds -> EventRows]
    BY <1>0 DEF EInv, EventsTyped
  <2> HIDE DEF e, c
  <2>3. /\ [ev[e] EXCEPT !.call = c] \in EventRows /\ [ev[e] EXCEPT !.call = c].call = c
        /\ [ev[e] EXCEPT !.call = c].org = ev[e].org /\ [ev[e] EXCEPT !.call = c].ver = ev[e].ver
        /\ SameTimes([ev[e] EXCEPT !.call = c], ev[e])
    BY <1>0, <2>2 DEF EventRows, SameTimes
  <2> QED
    BY <1>0, <2>1, <2>2, <2>3
<1>4. /\ evCall' \in [CalCalls -> [event : EventIds \cup {"none"}, ended : BOOLEAN]]
      /\ evCall'[c] = [event |-> e, ended |-> FALSE] /\ \A d \in CalCalls \ {c} : evCall'[d] = evCall[d]
  BY <1>0 DEF LinkEventAndCall, EInv, EventsTyped
<1> HIDE DEF e, c
<1>5. EventsTyped'
  <2>1. \A d \in EventIds : ~EventExists(d)' => ev'[d] = NoEvent
    BY <1>0, <1>3 DEF EInv, EventsTyped, EventExists
  <2>2. \A p \in CalRequests : creq'[p].op = "rsvp" => creq'[p].arg \in {"going", "declined"}
    BY <1>2, IdleCalTyped DEF EInv, EventsTyped
  <2> QED
    BY <1>1, <1>2, <1>3, <1>4, <2>1, <2>2 DEF EventsTyped
<1>6. CopiesAreVersioned'
  BY <1>0, <1>2, <1>3, IdleCalTyped DEF EInv, CopiesAreVersioned, EventExists, SameTimes
<1>7. LinksHold'
  <2> SUFFICES ASSUME NEW d \in EventIds \ unlinked, NEW a \in CalCalls,
                      evCall'[a].event = d, ~evCall'[a].ended
               PROVE  /\ ev'[d].org # "none" => ev'[d].call = a
                      /\ \A b \in CalCalls : evCall'[b].event = d /\ ~evCall'[b].ended => b = a
    BY <1>0 DEF LinksHold, EventExists, RunsFor
  <2>1. CASE d = e
    BY <1>0, <1>3, <1>4, <2>1 DEF RunsFor
  <2>2. CASE d # e
    BY <1>0, <1>3, <1>4, <2>2 DEF EInv, LinksHold, EventExists, RunsFor
  <2> QED
    BY <2>1, <2>2
<1>8. StartersHoldTheRow'
  <2> SUFFICES ASSUME NEW p \in CalRequests, creq'[p].op = "start", creq'[p].arg # "none"
               PROVE  /\ creq'[p].arg \in CalCalls
                      /\ evLock'[creq'[p].e] = p /\ ev'[creq'[p].e].org # "none"
                      /\ creq'[p].e \notin unlinked =>
                           \A d \in CalCalls : ~(evCall'[d].event = creq'[p].e /\ ~evCall'[d].ended)
    BY <1>0 DEF StartersHoldTheRow, EventExists, RunsFor
  <2>1. creq'[p] = creq[p] /\ creq[p].e \in EventIds \ {e}
    BY <1>1 DEF EInv, CopiesAreVersioned
  <2> QED
    BY <1>1, <1>3, <1>4, <2>1 DEF EventExists, RunsFor
<1> QED
  BY <1>5, <1>6, <1>7, <1>8 DEF EInv

LEMMA EndKeeps ==
    ASSUME EInv, NEW c \in CalCalls, EndEventCall(c)
    PROVE  EInv'
<1>1. /\ evCall' \in [CalCalls -> [event : EventIds \cup {"none"}, ended : BOOLEAN]]
      /\ \A d \in CalCalls, e \in EventIds : RunsFor(d, e)' => RunsFor(d, e)
  BY DEF EndEventCall, EInv, EventsTyped, RunsFor
<1>2. UNCHANGED <<ev, evLock, creq, unlinked>>
  BY DEF EndEventCall
<1>3. EventsTyped' /\ CopiesAreVersioned'
  BY <1>1, <1>2 DEF EInv, EventsTyped, CopiesAreVersioned, EventExists
<1>4. LinksHold'
  BY <1>1, <1>2 DEF EInv, LinksHold, EventExists
<1>5. StartersHoldTheRow'
  BY <1>1, <1>2 DEF EInv, CopiesAreVersioned, StartersHoldTheRow, EventExists
<1> QED
  BY <1>3, <1>4, <1>5 DEF EInv

LEMMA OccurrencesAreInt ==
    ASSUME NEW x \in EventRows
    PROVE  expandOccurrences(x) \subseteq Int
  BY DEF expandOccurrences, Expand, EventRows, Rules, Single

LEMMA EInvNext == EInv /\ [EventsNext \/ RemindersNext]_calVars => EInv'
<1> SUFFICES ASSUME EInv, [EventsNext \/ RemindersNext]_calVars PROVE EInv'
  OBVIOUS
<1>1. ASSUME NEW q \in CalRequests, NEW u \in CalUsers, NEW e \in EventIds, EventExists(e),
             NEW x \in Edits(u, GetEvent(e)), LoadEvent(q, u, e, "update", x, 0, 0, FALSE, "none")
      PROVE  EInv'
  <2>1. /\ 0 \in Int /\ FALSE \in BOOLEAN /\ "update" # "start" /\ "update" # "rsvp"
        /\ "update" \in {"update", "this", "following", "all", "delete", "rsvp", "start"}
        /\ "none" \in {"none", "going", "declined"}
    BY <1>1
  <2>2. Keepable(e, "update", x)
    BY <1>1, EditsAreKeepable
  <2> QED
    BY <1>1, <2>1, <2>2, LoadKeeps, Zenon
<1>2. ASSUME NEW q \in CalRequests, NEW u \in CalUsers, NEW e \in EventIds, EventExists(e),
             NEW scope \in {"this", "following", "all"}, NEW inst \in expandOccurrences(ev[e]),
             NEW by \in MoveBy, NEW token \in BOOLEAN,
             LoadEvent(q, u, e, scope, GetEvent(e), inst, inst + by, token, "none")
      PROVE  EInv'
  <2>1. inst \in Int /\ inst + by \in Int
    BY OccurrencesAreInt, CalendarAssumption DEF EInv, EventsTyped
  <2>2. Keepable(e, scope, GetEvent(e))
    BY <1>2, ReadsAreKeepable
  <2> HIDE DEF GetEvent
  <2> QED
    BY <1>2, <2>1, <2>2, LoadKeeps
<1>3. ASSUME NEW q \in CalRequests, NEW u \in CalUsers, NEW e \in EventIds, EventExists(e),
             NEW op \in {"delete", "start"}, LoadEvent(q, u, e, op, GetEvent(e), 0, 0, FALSE, "none")
      PROVE  EInv'
  <2>1. /\ 0 \in Int /\ FALSE \in BOOLEAN /\ op # "rsvp"
        /\ op \in {"update", "this", "following", "all", "delete", "rsvp", "start"}
        /\ "none" \in {"none", "going", "declined"}
    BY <1>3
  <2>2. Keepable(e, op, GetEvent(e))
    BY <1>3, ReadsAreKeepable
  <2> QED
    BY <1>3, <2>1, <2>2, LoadKeeps, Zenon
<1>4. ASSUME NEW q \in CalRequests, NEW u \in CalUsers, NEW e \in EventIds, EventExists(e),
             NEW a \in {"going", "declined"}, LoadEvent(q, u, e, "rsvp", GetEvent(e), 0, 0, FALSE, a)
      PROVE  EInv'
  <2>1. /\ 0 \in Int /\ FALSE \in BOOLEAN /\ "rsvp" # "start"
        /\ "rsvp" \in {"update", "this", "following", "all", "delete", "rsvp", "start"}
        /\ a \in {"none", "going", "declined"}
    BY <1>4
  <2>2. Keepable(e, "rsvp", GetEvent(e))
    BY <1>4, ReadsAreKeepable
  <2> QED
    BY <1>4, <2>1, <2>2, LoadKeeps, Zenon
<1>5. ASSUME NEW q \in CalRequests,
             \/ UpdateEvent(q) \/ MoveEventOccurrence(q) \/ DeleteEvent(q) \/ UpsertRsvp(q)
             \/ StartCallFromEvent(q) \/ LinkEventAndCall(q) \/ StartCallRollback(q) \/ AbortRequest(q)
      PROVE  EInv'
  BY <1>5, UpdateKeeps, MoveKeeps, DeleteEventKeeps, RsvpKeeps, StartKeeps, LinkKeeps, RollbackKeeps, AbortKeeps
<1>6. ASSUME NEW c \in CalCalls, EndEventCall(c) PROVE EInv'
  BY <1>6, EndKeeps
<1>7. ASSUME NEW u \in CalUsers,
             \/ EnsureDefaultCalendar(u)
             \/ \E k \in CalendarIds : \/ CreateUserCalendar(u, k)
                                       \/ \E b \in BOOLEAN : SetCalendarVisibility(u, k, b)
      PROVE  EInv'
  BY <1>7, EventsUntouched DEF EnsureDefaultCalendar, CreateUserCalendar, SetCalendarVisibility
<1>8. ASSUME NEW u \in CalUsers, NEW k \in CalendarIds, DeleteUserCalendar(u, k) PROVE EInv'
  BY <1>8, DeleteCalendarKeeps
<1>9. ASSUME NEW u \in CalUsers, NEW k \in CalendarIds, NEW e \in EventIds, NEW us \in SUBSET CalUsers,
             NEW rem \in {{}, {"nil"}}, NEW entry \in {"unset", "password"}, NEW start \in Starts,
             NEW rule \in RecurrenceInputs, CreateEvent(u, k, e, start, rule, us, rem, entry)
      PROVE  EInv'
  <2>1. start \in Int /\ rule \in Rules
    BY RulesAreRules
  <2> QED
    BY <1>9, <2>1, CreateEventKeeps
<1>10. CASE RemindersNext
  BY <1>10, EventsUntouched
  DEF RemindersNext, TimePasses, dispatchDueReminders, ListAndDispatchReminders, DispatchRollback,
      ClaimReminderOutbox, PublishReminderOutbox, PublisherCrash, PublishReminder, eventVars
<1>11. CASE UNCHANGED calVars
  BY <1>11, EventsUntouched DEF calVars, eventVars
<1>12. CASE EventsNext
  <2>1. ASSUME NEW q \in CalRequests, NEW u \in CalUsers, NEW e \in {x \in EventIds : EventExists(x)},
               \/ \E x \in Edits(u, GetEvent(e)) : LoadEvent(q, u, e, "update", x, 0, 0, FALSE, "none")
               \/ \E scope \in {"this", "following", "all"}, inst \in expandOccurrences(ev[e]),
                     by \in MoveBy, token \in BOOLEAN :
                    LoadEvent(q, u, e, scope, GetEvent(e), inst, inst + by, token, "none")
               \/ \E op \in {"delete", "start"} : LoadEvent(q, u, e, op, GetEvent(e), 0, 0, FALSE, "none")
               \/ \E a \in {"going", "declined"} : LoadEvent(q, u, e, "rsvp", GetEvent(e), 0, 0, FALSE, a)
        PROVE  EInv'
    <3>1. e \in EventIds /\ EventExists(e)
      BY <2>1
    <3> QED
      BY <1>1, <1>2, <1>3, <1>4, <2>1, <3>1, Zenon
  <2>2. ASSUME NEW u \in CalUsers,
               \/ EnsureDefaultCalendar(u)
               \/ \E k \in CalendarIds :
                   \/ CreateUserCalendar(u, k) \/ DeleteUserCalendar(u, k)
                   \/ \E b \in BOOLEAN : SetCalendarVisibility(u, k, b)
                   \/ \E e \in EventIds, us \in SUBSET CalUsers, rem \in {{}, {"nil"}}, entry \in {"unset", "password"},
                         start \in Starts, rule \in RecurrenceInputs : CreateEvent(u, k, e, start, rule, us, rem, entry)
        PROVE  EInv'
    <3>1. CASE EnsureDefaultCalendar(u)
      BY <1>7, <3>1
    <3>2. ASSUME NEW k \in CalendarIds,
                 CreateUserCalendar(u, k) \/ DeleteUserCalendar(u, k) \/ \E b \in BOOLEAN : SetCalendarVisibility(u, k, b)
          PROVE  EInv'
      BY <1>7, <1>8, <3>2, Zenon
    <3>3. ASSUME NEW k \in CalendarIds, NEW e \in EventIds, NEW us \in SUBSET CalUsers, NEW rem \in {{}, {"nil"}},
                 NEW entry \in {"unset", "password"}, NEW start \in Starts, NEW rule \in RecurrenceInputs,
                 CreateEvent(u, k, e, start, rule, us, rem, entry)
          PROVE  EInv'
      BY <1>9, <3>3, Zenon
    <3> QED
      BY <2>2, <3>1, <3>2, <3>3, Zenon
  <2> QED
    BY <1>5, <1>6, <1>12, <2>1, <2>2, Zenon DEF EventsNext
<1> QED
  BY <1>10, <1>11, <1>12

\* However many requests start the call of one event at once, one running call
\* comes of it, for any number of events, users and requests, as long as no edit
\* made from an older copy overwrote the link.
THEOREM OneRunningCall == CalendarSpec => []OneCallPerEvent
<1>1. EInv => OneCallPerEvent
  <2> SUFFICES ASSUME EInv, NEW e \in EventIds \ unlinked
               PROVE  Cardinality({c \in CalCalls : evCall[c].event = e /\ ~evCall[c].ended}) <= 1
    BY DEF OneCallPerEvent
  <2> DEFINE running == {c \in CalCalls : evCall[c].event = e /\ ~evCall[c].ended}
  <2> SUFFICES Cardinality(running) <= 1
    OBVIOUS
  <2>1. \A c, d \in running : c = d
    BY DEF EInv, LinksHold, RunsFor
  <2> HIDE DEF running
  <2>2. CASE running = {}
    BY <2>2, FS_EmptySet
  <2>3. CASE running # {}
    <3>1. PICK c \in running : running = {c}
      BY <2>1, <2>3
    <3>2. Cardinality({c}) = 1
      BY FS_Singleton
    <3> QED
      BY <3>1, <3>2
  <2> QED
    BY <2>2, <2>3
<1> QED
  BY <1>1, EInvInit, EInvNext, PTL DEF CalendarSpec

------------------------------------------------------------------------------
(* Reminders: what the dispatchers hold, what is marked, what is queued.  *)

ReminderKeySet == EventIds \X CalUsers \X Slots

\* The dispatch rows, and the rows of each open transaction: those it has
\* inserted are nobody's yet, those it takes are its own and still due.
DispatchesHeld ==
    /\ dispatch \in [DOMAIN dispatch -> {"due", "done"}] /\ DOMAIN dispatch \subseteq ReminderKeySet
    /\ dtx \in [Dispatchers -> [open : BOOLEAN, ins : SUBSET ReminderKeySet, take : SUBSET ReminderKeySet]]
    /\ \A d \in Dispatchers :
        /\ ~dtx[d].open => dtx[d] = IdleDispatch
        /\ dtx[d].ins \subseteq dtx[d].take /\ dtx[d].ins \cap DOMAIN dispatch = {}
        /\ \A k \in dtx[d].take : k \in dtx[d].ins \/ (k \in DOMAIN dispatch /\ dispatch[k] = "due")
        /\ \A o \in Dispatchers \ {d} : dtx[d].take \cap dtx[o].take = {}

IsReminder(m) == "key" \in DOMAIN m /\ m.key \in ReminderKeySet

\* A queued reminder is marked in the dispatch rows, and alone, unless the
\* rows of its key were deleted meanwhile.
QueuedIsMarked ==
    \A m \in remOutbox :
        /\ IsReminder(m)
        /\ m.key \notin renewed => m.key \in DOMAIN dispatch /\ dispatch[m.key] = "done"
        /\ \A o \in remOutbox : (o.key = m.key /\ m.key \notin renewed) => o = m

BatchOf(p) == ptx[p].todo \cup ptx[p].ok \cup ptx[p].bad

\* The open batches are disjoint parts of the queue, each message in one list.
BatchesHeld ==
    /\ ptx \in [Publishers -> [open : BOOLEAN, todo : SUBSET remOutbox, ok : SUBSET remOutbox, bad : SUBSET remOutbox]]
    /\ \A p \in Publishers :
        /\ ptx[p].todo \cap (ptx[p].ok \cup ptx[p].bad) = {} /\ ptx[p].ok \cap ptx[p].bad = {}
        /\ \A o \in Publishers \ {p} : BatchOf(p) \cap BatchOf(o) = {}

RInv == DispatchesHeld /\ QueuedIsMarked /\ BatchesHeld

LEMMA InitRInv == CalendarInit => RInv
<1> SUFFICES ASSUME CalendarInit PROVE RInv
  OBVIOUS
<1>1. DispatchesHeld
  BY DEF CalendarInit, DispatchesHeld, IdleDispatch
<1>2. QueuedIsMarked
  BY DEF CalendarInit, QueuedIsMarked
<1>3. BatchesHeld
  BY DEF CalendarInit, BatchesHeld, IdlePublish, BatchOf
<1> QED
  BY <1>1, <1>2, <1>3 DEF RInv

\* Rows of the dispatches that no open transaction holds are deleted.
Dropped(K) ==
    /\ K \subseteq DOMAIN dispatch
    /\ \A d \in Dispatchers : K \cap (dtx[d].ins \cup dtx[d].take) = {}
    /\ dispatch' = Restrict(dispatch, DOMAIN dispatch \ K)
    /\ renewed' = renewed \cup K
    /\ UNCHANGED <<dtx, remOutbox, ptx>>

LEMMA DropKeeps ==
    ASSUME RInv, NEW K, Dropped(K)
    PROVE  RInv'
<1>1. DOMAIN dispatch' = DOMAIN dispatch \ K /\ \A k \in DOMAIN dispatch' : dispatch'[k] = dispatch[k]
  BY DEF Dropped, Restrict
<1>2. dispatch' \in [DOMAIN dispatch' -> {"due", "done"}]
  BY <1>1 DEF Dropped, Restrict, RInv, DispatchesHeld
<1>3. DispatchesHeld'
  BY <1>1, <1>2 DEF Dropped, RInv, DispatchesHeld, IdleDispatch
<1>4. QueuedIsMarked'
  BY <1>1 DEF Dropped, RInv, QueuedIsMarked, IsReminder
<1>5. BatchesHeld'
  BY DEF Dropped, RInv, BatchesHeld, BatchOf
<1> QED
  BY <1>3, <1>4, <1>5 DEF RInv

LEMMA RemindersUntouched ==
    ASSUME RInv, UNCHANGED <<dispatch, renewed, dtx, remOutbox, ptx>>
    PROVE  RInv'
  BY DEF RInv, DispatchesHeld, QueuedIsMarked, IsReminder, BatchesHeld, BatchOf, IdleDispatch

LEMMA DropRemindersDrops ==
    ASSUME NEW e, NEW us, DropReminders(e, us), UNCHANGED <<dtx, remOutbox, ptx>>
    PROVE  Dropped(ReminderKeys(e, us))
  BY DEF DropReminders, Dropped, ReminderKeys, RemindersFree

LEMMA UpdateDrops ==
    ASSUME RInv, NEW e, NEW x, NEW f, UpdateEventTx(e, x, f), RemindersIdle
    PROVE  RInv'
<1> DEFINE us == ev[e].rem \ replaceReminders(ev[e].rem, x.rem)
<1>1. DropReminders(e, us) /\ UNCHANGED <<dtx, remOutbox, ptx>>
  BY DEF UpdateEventTx, RemindersIdle
<1> HIDE DEF us
<1> QED
  BY <1>1, DropRemindersDrops, DropKeeps

LEMMA EventsKeepReminders ==
    ASSUME RInv, EventsNext
    PROVE  RInv'
<1>1. ASSUME NEW q \in CalRequests, UpdateEvent(q) PROVE RInv'
  BY <1>1, UpdateDrops DEF UpdateEvent
<1>2. ASSUME NEW q \in CalRequests, MoveEventOccurrence(q) PROVE RInv'
  BY <1>2, UpdateDrops
  DEF MoveEventOccurrence, moveOccurrenceAll, moveOccurrenceThis, moveOccurrenceThisAndFollowing
<1>3. ASSUME NEW q \in CalRequests, DeleteEvent(q) PROVE RInv'
  BY <1>3, DropRemindersDrops, DropKeeps DEF DeleteEvent, RemindersIdle
<1>4. ASSUME NEW u \in CalUsers, NEW k \in CalendarIds, DeleteUserCalendar(u, k) PROVE RInv'
  <2> DEFINE gone == {e \in EventIds : ev[e].cal = k}
             K == {k2 \in DOMAIN dispatch : k2[1] \in gone}
  <2>1. \A d \in Dispatchers : K \cap (dtx[d].ins \cup dtx[d].take) = {}
    BY <1>4 DEF DeleteUserCalendar, RemindersFree, RInv, DispatchesHeld, ReminderKeySet
  <2>2. {k2 \in DOMAIN dispatch : k2[1] \notin gone} = DOMAIN dispatch \ K
    OBVIOUS
  <2>3. Dropped(K)
    BY <1>4, <2>1, <2>2 DEF DeleteUserCalendar, Dropped, RemindersIdle
  <2> QED
    BY <2>3, DropKeeps
<1>5. ASSUME NEW q \in CalRequests,
             \/ UpsertRsvp(q) \/ StartCallFromEvent(q) \/ LinkEventAndCall(q) \/ StartCallRollback(q) \/ AbortRequest(q)
             \/ \E u, e, op, x, inst, new, token, arg : LoadEvent(q, u, e, op, x, inst, new, token, arg)
      PROVE  RInv'
  BY <1>5, RemindersUntouched
  DEF LoadEvent, UpsertRsvp, StartCallFromEvent, LinkEventAndCall, StartCallRollback, AbortRequest,
      RemindersIdle, reminderVars
<1>6. ASSUME NEW c \in CalCalls, EndEventCall(c) PROVE RInv'
  BY <1>6, RemindersUntouched DEF EndEventCall, RemindersIdle
<1>7. ASSUME NEW u \in CalUsers, NEW k \in CalendarIds,
             \/ CreateUserCalendar(u, k) \/ \E b \in BOOLEAN : SetCalendarVisibility(u, k, b)
             \/ \E e, start, rule, us, rem, entry : CreateEvent(u, k, e, start, rule, us, rem, entry)
      PROVE  RInv'
  BY <1>7, RemindersUntouched
  DEF CreateUserCalendar, SetCalendarVisibility, CreateEvent, RemindersIdle, reminderVars
<1>8. ASSUME NEW u \in CalUsers, EnsureDefaultCalendar(u) PROVE RInv'
  BY <1>8, RemindersUntouched DEF EnsureDefaultCalendar, RemindersIdle
<1>9. ASSUME NEW q \in CalRequests, NEW u \in CalUsers, NEW e \in {x \in EventIds : EventExists(x)},
             \/ \E x \in Edits(u, GetEvent(e)) : LoadEvent(q, u, e, "update", x, 0, 0, FALSE, "none")
             \/ \E scope \in {"this", "following", "all"}, inst \in expandOccurrences(ev[e]),
                   by \in MoveBy, token \in BOOLEAN :
                  LoadEvent(q, u, e, scope, GetEvent(e), inst, inst + by, token, "none")
             \/ \E op \in {"delete", "start"} : LoadEvent(q, u, e, op, GetEvent(e), 0, 0, FALSE, "none")
             \/ \E a \in {"going", "declined"} : LoadEvent(q, u, e, "rsvp", GetEvent(e), 0, 0, FALSE, a)
      PROVE  RInv'
  BY <1>5, <1>9, Zenon
<1>10. ASSUME NEW u \in CalUsers,
              \/ EnsureDefaultCalendar(u)
              \/ \E k \in CalendarIds :
                  \/ CreateUserCalendar(u, k) \/ DeleteUserCalendar(u, k)
                  \/ \E b \in BOOLEAN : SetCalendarVisibility(u, k, b)
                  \/ "create" \in CalOps
                     /\ \E e \in EventIds, us \in SUBSET CalUsers, rem \in {{}, {"nil"}}, entry \in {"unset", "password"},
                           start \in Starts, rule \in RecurrenceInputs : CreateEvent(u, k, e, start, rule, us, rem, entry)
       PROVE  RInv'
  BY <1>4, <1>7, <1>8, <1>10, Zenon
<1> QED
  BY <1>1, <1>2, <1>3, <1>5, <1>6, <1>9, <1>10, Zenon DEF EventsNext

LEMMA DispatchBegins ==
    ASSUME RInv, NEW d \in Dispatchers, dispatchDueReminders(d)
    PROVE  RInv'
<1> DEFINE new == discoverDueReminderDispatches \ DOMAIN dispatch
           due == {k \in DOMAIN dispatch : dispatch[k] = "due" /\ k[3] - 1 <= calNow /\ k \notin DispatchLocked}
<1>1. /\ dtx' = [dtx EXCEPT ![d] = [open |-> TRUE, ins |-> new, take |-> new \cup due]]
      /\ \A o \in Dispatchers : new \cap dtx[o].ins = {}
      /\ UNCHANGED <<dispatch, renewed, remOutbox, ptx>>
  BY DEF dispatchDueReminders, ListDueReminderTargets
<1>2. /\ new \subseteq ReminderKeySet /\ new \cap DOMAIN dispatch = {}
      /\ due \subseteq DOMAIN dispatch /\ \A k \in due : dispatch[k] = "due"
      /\ \A o \in Dispatchers : due \cap dtx[o].take = {}
  BY DEF discoverDueReminderDispatches, ReminderKeySet, DispatchLocked
<1> HIDE DEF new, due
<1>3. \A o \in Dispatchers : new \cap dtx[o].take = {}
  BY <1>1, <1>2 DEF RInv, DispatchesHeld
<1>4. dtx' \in [Dispatchers -> [open : BOOLEAN, ins : SUBSET ReminderKeySet, take : SUBSET ReminderKeySet]]
  BY <1>1, <1>2 DEF RInv, DispatchesHeld
<1>5. DispatchesHeld'
  BY <1>1, <1>2, <1>3, <1>4 DEF RInv, DispatchesHeld, IdleDispatch
<1>6. QueuedIsMarked' /\ BatchesHeld'
  BY <1>1 DEF RInv, QueuedIsMarked, IsReminder, BatchesHeld, BatchOf
<1> QED
  BY <1>5, <1>6 DEF RInv

LEMMA DispatchCommits ==
    ASSUME RInv, NEW d \in Dispatchers, ListAndDispatchReminders(d)
    PROVE  RInv'
<1> DEFINE ins == dtx[d].ins
           take == dtx[d].take
           num(k) == Cardinality({m \in remOutbox : m.key = k}) + 1
           row(k) == [key |-> k, copy |-> num(k), tries |-> 0, sent |-> FALSE]
<1>1. /\ remOutbox' = remOutbox \cup {row(k) : k \in take}
      /\ dispatch' = [k \in DOMAIN dispatch \cup ins |-> IF k \in take THEN "done" ELSE dispatch[k]]
      /\ dtx' = [dtx EXCEPT ![d] = IdleDispatch]
      /\ UNCHANGED <<renewed, ptx>>
  BY DEF ListAndDispatchReminders, EnqueueReminderOutbox, MarkReminderDispatched
<1>2. /\ ins \subseteq ReminderKeySet /\ take \subseteq ReminderKeySet /\ ins \subseteq take
      /\ ins \cap DOMAIN dispatch = {} /\ take \subseteq ins \cup DOMAIN dispatch
      /\ \A k \in take : k \in DOMAIN dispatch => dispatch[k] = "due"
      /\ \A o \in Dispatchers \ {d} : take \cap dtx[o].take = {}
  BY DEF RInv, DispatchesHeld
<1> HIDE DEF ins, take, num
<1>3. DOMAIN dispatch' = DOMAIN dispatch \cup ins
      /\ \A k \in DOMAIN dispatch' : dispatch'[k] = IF k \in take THEN "done" ELSE dispatch[k]
  BY <1>1
<1>4. dispatch' \in [DOMAIN dispatch' -> {"due", "done"}]
  BY <1>1, <1>2, <1>3 DEF RInv, DispatchesHeld
<1>5. dtx' \in [Dispatchers -> [open : BOOLEAN, ins : SUBSET ReminderKeySet, take : SUBSET ReminderKeySet]]
  BY <1>1 DEF RInv, DispatchesHeld, IdleDispatch
<1>6. /\ dtx'[d] = IdleDispatch /\ \A o \in Dispatchers \ {d} : dtx'[o] = dtx[o]
  BY <1>1 DEF RInv, DispatchesHeld
<1>7. DispatchesHeld'
  BY <1>2, <1>3, <1>4, <1>5, <1>6 DEF RInv, DispatchesHeld, IdleDispatch
<1>8. \A k \in take : row(k).key = k /\ IsReminder(row(k))
  BY <1>2 DEF IsReminder
<1>9. \A m \in remOutbox : m.key \in take => m.key \in renewed
  BY <1>2 DEF RInv, QueuedIsMarked
<1>10. QueuedIsMarked'
  <2> SUFFICES ASSUME NEW m \in remOutbox'
               PROVE  /\ IsReminder(m)
                      /\ m.key \notin renewed => m.key \in DOMAIN dispatch' /\ dispatch'[m.key] = "done"
                      /\ \A o \in remOutbox' : (o.key = m.key /\ m.key \notin renewed) => o = m
    BY <1>1 DEF QueuedIsMarked, IsReminder
  <2>1. CASE m \in remOutbox
    BY <1>1, <1>2, <1>3, <1>8, <1>9, <2>1 DEF RInv, QueuedIsMarked
  <2>2. CASE m \notin remOutbox
    <3>1. PICK k \in take : m = row(k)
      BY <1>1, <2>2
    <3> QED
      BY <1>1, <1>2, <1>3, <1>8, <1>9, <3>1
  <2> QED
    BY <2>1, <2>2
<1>11. BatchesHeld'
  BY <1>1 DEF RInv, BatchesHeld, BatchOf
<1> QED
  BY <1>7, <1>10, <1>11 DEF RInv

LEMMA DispatchAborts ==
    ASSUME RInv, NEW d \in Dispatchers, DispatchRollback(d)
    PROVE  RInv'
<1>1. DispatchesHeld'
  BY DEF DispatchRollback, RInv, DispatchesHeld, IdleDispatch
<1>2. QueuedIsMarked' /\ BatchesHeld'
  BY DEF DispatchRollback, RInv, QueuedIsMarked, IsReminder, BatchesHeld, BatchOf
<1> QED
  BY <1>1, <1>2 DEF RInv

\* A batch p may have: a part of the queue, nobody else's, each message in one list.
Batch(p, b) ==
    /\ b \in [open : BOOLEAN, todo : SUBSET remOutbox, ok : SUBSET remOutbox, bad : SUBSET remOutbox]
    /\ b.todo \cap (b.ok \cup b.bad) = {} /\ b.ok \cap b.bad = {}
    /\ \A q \in Publishers \ {p} : (b.todo \cup b.ok \cup b.bad) \cap BatchOf(q) = {}

LEMMA BatchMoves ==
    ASSUME RInv, NEW p \in Publishers, NEW b, Batch(p, b), ptx' = [ptx EXCEPT ![p] = b],
           UNCHANGED <<dispatch, renewed, dtx, remOutbox>>
    PROVE  RInv'
<1>1. ptx' \in [Publishers -> [open : BOOLEAN, todo : SUBSET remOutbox, ok : SUBSET remOutbox, bad : SUBSET remOutbox]]
  BY DEF RInv, BatchesHeld, Batch
<1>2. ptx'[p] = b /\ \A q \in Publishers \ {p} : ptx'[q] = ptx[q]
  BY DEF RInv, BatchesHeld
<1>3. BatchesHeld'
  BY <1>1, <1>2 DEF RInv, BatchesHeld, BatchOf, Batch
<1>4. DispatchesHeld' /\ QueuedIsMarked'
  BY DEF RInv, DispatchesHeld, QueuedIsMarked, IsReminder, IdleDispatch
<1> QED
  BY <1>3, <1>4 DEF RInv

LEMMA ClaimKeeps ==
    ASSUME RInv, NEW p \in Publishers, ClaimReminderOutbox(p)
    PROVE  RInv'
<1> DEFINE held == UNION {ptx[o].todo \cup ptx[o].ok \cup ptx[o].bad : o \in Publishers}
           batch == {m \in remOutbox : ~m.sent /\ m.tries < ReminderTries} \ held
           b == [open |-> TRUE, todo |-> batch, ok |-> {}, bad |-> {}]
<1>1. batch \in SUBSET remOutbox /\ \A q \in Publishers : batch \cap BatchOf(q) = {}
  BY DEF BatchOf
<1>2. ptx' = [ptx EXCEPT ![p] = b] /\ UNCHANGED <<dispatch, renewed, dtx, remOutbox>>
  BY DEF ClaimReminderOutbox, eventVars
<1> HIDE DEF held, batch
<1>3. Batch(p, b)
  BY <1>1 DEF Batch
<1> HIDE DEF b
<1> QED
  BY <1>2, <1>3, BatchMoves

LEMMA PublishKeeps ==
    ASSUME RInv, NEW p \in Publishers, NEW m \in remOutbox, PublishReminder(p, m)
    PROVE  RInv'
<1> DEFINE good == [ptx[p] EXCEPT !.todo = @ \ {m}, !.ok = @ \cup {m}]
           poor == [ptx[p] EXCEPT !.todo = @ \ {m}, !.bad = @ \cup {m}]
<1>1. Batch(p, ptx[p]) /\ m \in ptx[p].todo
  BY DEF PublishReminder, RInv, BatchesHeld, BatchOf, Batch
<1>2. Batch(p, good) /\ Batch(p, poor)
  BY <1>1 DEF Batch
<1>3. /\ UNCHANGED <<dispatch, renewed, dtx, remOutbox>>
      /\ ptx' = [ptx EXCEPT ![p] = good] \/ ptx' = [ptx EXCEPT ![p] = poor]
  BY DEF PublishReminder, RInv, BatchesHeld
<1> HIDE DEF good, poor
<1> QED
  BY <1>2, <1>3, BatchMoves

LEMMA BatchEnds ==
    ASSUME RInv, NEW p \in Publishers, PublishReminderOutbox(p)
    PROVE  RInv'
<1> DEFINE ok == ptx[p].ok
           bad == ptx[p].bad
           done(m) == [m EXCEPT !.sent = TRUE, !.tries = @ + 1]
           failed(m) == [m EXCEPT !.tries = @ + 1]
           keep == remOutbox \ (ok \cup bad)
<1>1. /\ remOutbox' = keep \cup {done(m) : m \in ok} \cup {failed(m) : m \in bad}
      /\ ptx' = [ptx EXCEPT ![p] = IdlePublish]
      /\ UNCHANGED <<dispatch, renewed, dtx>>
  BY DEF PublishReminderOutbox, PublishedRows
<1>2. ok \subseteq remOutbox /\ bad \subseteq remOutbox /\ ok \cap bad = {}
  BY DEF RInv, BatchesHeld
<1>3. \A m \in remOutbox : /\ done(m).key = m.key /\ IsReminder(done(m))
                           /\ failed(m).key = m.key /\ IsReminder(failed(m))
  BY DEF RInv, QueuedIsMarked, IsReminder
<1> HIDE DEF ok, bad, done, failed, keep
<1>4. \A m \in remOutbox' : \E o \in remOutbox :
         /\ m.key = o.key /\ IsReminder(m)
         /\ m = IF o \in ok THEN done(o) ELSE IF o \in bad THEN failed(o) ELSE o
  <2> TAKE m \in remOutbox'
  <2>1. CASE m \in keep
    BY <2>1 DEF keep, RInv, QueuedIsMarked
  <2>2. CASE m \in {done(o) : o \in ok}
    BY <1>2, <1>3, <2>2
  <2>3. CASE m \in {failed(o) : o \in bad}
    BY <1>2, <1>3, <2>3
  <2> QED
    BY <1>1, <2>1, <2>2, <2>3
<1>5. QueuedIsMarked'
  <2> SUFFICES ASSUME NEW m \in remOutbox'
               PROVE  /\ IsReminder(m)
                      /\ m.key \notin renewed => m.key \in DOMAIN dispatch /\ dispatch[m.key] = "done"
                      /\ \A o \in remOutbox' : (o.key = m.key /\ m.key \notin renewed) => o = m
    BY <1>1 DEF QueuedIsMarked, IsReminder
  <2> QED
    BY <1>4 DEF RInv, QueuedIsMarked
<1>6. /\ ptx'[p] = IdlePublish /\ \A q \in Publishers \ {p} : ptx'[q] = ptx[q]
      /\ DOMAIN ptx' = Publishers
  BY <1>1 DEF RInv, BatchesHeld
<1>7. \A q \in Publishers \ {p} : /\ ptx[q].todo \subseteq remOutbox' /\ ptx[q].ok \subseteq remOutbox'
                                  /\ ptx[q].bad \subseteq remOutbox'
  BY <1>1 DEF RInv, BatchesHeld, BatchOf, keep, ok, bad
<1>8. ptx' \in [Publishers -> [open : BOOLEAN, todo : SUBSET remOutbox', ok : SUBSET remOutbox', bad : SUBSET remOutbox']]
  <2>1. \A q \in Publishers : ptx'[q] \in [open : BOOLEAN, todo : SUBSET remOutbox', ok : SUBSET remOutbox', bad : SUBSET remOutbox']
    <3> TAKE q \in Publishers
    <3> DEFINE none == [open |-> FALSE, todo |-> {}, ok |-> {}, bad |-> {}]
               queue == remOutbox'
    <3>1. CASE q = p
      <4>1. none \in [open : BOOLEAN, todo : SUBSET queue, ok : SUBSET queue, bad : SUBSET queue]
        OBVIOUS
      <4> QED
        BY <1>6, <3>1, <4>1 DEF IdlePublish
    <3>2. CASE q # p
      BY <1>6, <1>7, <3>2 DEF RInv, BatchesHeld
    <3> QED
      BY <3>1, <3>2
  <2> QED
    BY <1>1, <1>6, <2>1 DEF RInv, BatchesHeld
<1>9. BatchesHeld'
  BY <1>6, <1>8 DEF RInv, BatchesHeld, BatchOf, IdlePublish
<1>10. DispatchesHeld'
  BY <1>1 DEF RInv, DispatchesHeld, IdleDispatch
<1> QED
  BY <1>5, <1>9, <1>10 DEF RInv

LEMMA CrashKeeps ==
    ASSUME RInv, NEW p \in Publishers, PublisherCrash(p)
    PROVE  RInv'
<1>1. Batch(p, IdlePublish)
  BY DEF Batch, IdlePublish
<1> QED
  BY <1>1, BatchMoves DEF PublisherCrash, eventVars

LEMMA RInvNext == RInv /\ [EventsNext \/ RemindersNext]_calVars => RInv'
<1> SUFFICES ASSUME RInv, [EventsNext \/ RemindersNext]_calVars PROVE RInv'
  OBVIOUS
<1>1. CASE TimePasses
  BY <1>1, RemindersUntouched DEF TimePasses
<1>2. CASE UNCHANGED calVars
  BY <1>2, RemindersUntouched DEF calVars, reminderVars
<1> QED
  BY <1>1, <1>2, EventsKeepReminders, DispatchBegins, DispatchCommits, DispatchAborts, ClaimKeeps, PublishKeeps,
     BatchEnds, CrashKeeps DEF RemindersNext

\* However many instances look for due reminders at once, lose their
\* transaction and try again, a reminder of an occurrence is queued once, unless
\* its rows were deleted meanwhile: for any number of events, users and workers.
THEOREM QueuedOnce == CalendarSpec => []RemindedOnce
<1>1. RInv => RemindedOnce
  <2> SUFFICES ASSUME RInv, NEW k \in EventIds \X CalUsers \X Slots, k \notin renewed
               PROVE  Cardinality({m \in remOutbox : m.key = k}) <= 1
    BY DEF RemindedOnce
  <2> DEFINE queued == {m \in remOutbox : m.key = k}
  <2> SUFFICES Cardinality(queued) <= 1
    OBVIOUS
  <2>1. \A m, o \in queued : m = o
    BY DEF RInv, QueuedIsMarked
  <2> HIDE DEF queued
  <2>2. CASE queued = {}
    BY <2>2, FS_EmptySet
  <2>3. CASE queued # {}
    <3>1. PICK m \in queued : queued = {m}
      BY <2>1, <2>3
    <3>2. Cardinality({m}) = 1
      BY FS_Singleton
    <3> QED
      BY <3>1, <3>2
  <2> QED
    BY <2>2, <2>3
<1> QED
  BY <1>1, InitRInv, RInvNext, PTL DEF CalendarSpec

------------------------------------------------------------------------------
(* Moves.                                                                 *)

\* A series is an interval without its exdates; splitting it at one of its
\* occurrences gives the interval before and the rest, shifted.
SeriesEnd(rule, start) == IF rule.kind = "until" THEN rule.n ELSE start + rule.n - 1

SplitAt(rule, start, inst, new, ex, early, later) ==
    /\ SeriesEnd(rule, start) \in Int /\ start <= inst /\ inst <= SeriesEnd(rule, start)
    /\ Expand(rule, start, ex) = (start .. SeriesEnd(rule, start)) \ ex
    /\ Expand(SetUntil(rule, inst - 1), start, early) = (start .. (inst - 1)) \ early
    /\ Expand(ShiftBounds(rule, start, inst, new), new, later)
         = (new .. (SeriesEnd(rule, start) + (new - inst))) \ later

LEMMA SeriesSplit ==
    ASSUME NEW rule \in Rules \ {Single}, NEW start \in Int, NEW inst \in Int, NEW new \in Int, NEW ex, NEW later, NEW early,
           inst \in Expand(rule, start, {})
    PROVE  SplitAt(rule, start, inst, new, ex, early, later)
<1>1. rule \in [kind : {"until", "count"}, n : Int]
  BY DEF Rules
<1> DEFINE end == SeriesEnd(rule, start)
           shifted == ShiftBounds(rule, start, inst, new)
<1>2. end \in Int /\ \A x : Expand(rule, start, x) = (start .. end) \ x
  BY <1>1 DEF Expand, SeriesEnd
<1>3. start <= inst /\ inst <= end
  BY <1>2
<1>4. Expand(SetUntil(rule, inst - 1), start, early) = (start .. (inst - 1)) \ early
  BY DEF Expand, SetUntil
<1>5. /\ rule.kind = "until" => shifted.kind = "until" /\ shifted.n = rule.n + (new - inst)
      /\ rule.kind = "count" => shifted.kind = "count" /\ shifted.n = rule.n - (inst - start)
  BY <1>1, SplitRule
<1> HIDE DEF shifted
<1>6. Expand(shifted, new, later) = (new .. (end + (new - inst))) \ later
  <2>1. CASE rule.kind = "until"
    BY <1>1, <1>5, <2>1 DEF Expand, SeriesEnd
  <2>2. CASE rule.kind = "count"
    <3>1. new + shifted.n - 1 = end + (new - inst)
      BY <1>1, <1>5, <2>2 DEF SeriesEnd
    <3>2. Expand(shifted, new, later) = (new .. (new + shifted.n - 1)) \ later
      BY <1>5, <2>2 DEF Expand
    <3> QED
      BY <3>1, <3>2
  <2> QED
    BY <1>1, <2>1, <2>2
<1> HIDE DEF end
<1> QED
  BY <1>2, <1>3, <1>4, <1>6 DEF shifted, end, SplitAt

Before(ex, inst) == {t \in ex : t < inst}
After(ex, inst) == {t \in ex : t > inst}
From(old, inst) == {t \in old : t >= inst}
Shifted(ts, by) == {t + by : t \in ts}

\* What the two parts of a split series hold, for any exdates.
PartsExact(start, end, inst, new, ex, old) ==
    /\ (start .. (inst - 1)) \ Before(ex, inst) = old \ From(old, inst)
    /\ (new .. (end + (new - inst))) \ Shifted(After(ex, inst), new - inst) = Shifted(From(old, inst), new - inst)

LEMMA SplitIsExact ==
    ASSUME NEW start \in Int, NEW end \in Int, NEW inst \in Int, NEW new \in Int, NEW ex \in SUBSET Int, NEW old,
           start <= inst, inst <= end, inst \notin ex, old = (start .. end) \ ex
    PROVE  PartsExact(start, end, inst, new, ex, old)
<1> DEFINE delta == new - inst
           moved == {t \in old : t >= inst}
           later == {t + delta : t \in {s \in ex : s > inst}}
           rest == {t + delta : t \in moved}
<1>1. (start .. (inst - 1)) \ Before(ex, inst) = old \ From(old, inst)
  BY DEF Before, From
<1>2. ASSUME NEW t \in new .. (end + delta), t \notin later PROVE t \in rest
  <2>1. t - delta \in inst .. end /\ t - delta \in Int /\ t = (t - delta) + delta
    BY <1>2
  <2>2. t - delta \notin ex
    BY <1>2, <2>1
  <2>3. t - delta \in moved
    BY <2>1, <2>2
  <2> QED
    BY <2>1, <2>3
<1>3. ASSUME NEW t \in moved PROVE t + delta \in new .. (end + delta) /\ t + delta \notin later
  OBVIOUS
<1>4. (new .. (end + delta)) \ later = rest
  BY <1>2, <1>3
<1> QED
  BY <1>1, <1>4 DEF Shifted, After, From, PartsExact

\* What UpdateEventTx leaves of the times, in the row and in the others.
LEMMA WrittenRow ==
    ASSUME NEW e \in EventIds, NEW x \in EventRows, NEW f \in [EventIds -> EventRows], UpdateEventTx(e, x, f)
    PROVE  SameTimes(ev'[e], x) /\ \A d \in EventIds \ {e} : ev'[d] = f[d]
<1> DEFINE rows == replaceReminders(ev[e].rem, x.rem)
           att == replaceAttendees(ev[e].att, x.att)
           z == [x EXCEPT !.ver = ev[e].ver + 1, !.rem = rows, !.att = att]
<1>1. ev' = [f EXCEPT ![e] = z]
  BY DEF UpdateEventTx
<1>2. SameTimes(z, x)
  <2> HIDE DEF rows, att
  <2> QED
    BY DEF SameTimes, EventRows
<1> HIDE DEF z
<1> QED
  BY <1>1, <1>2

LEMMA WrittenTimes ==
    ASSUME EInv, NEW e \in EventIds, NEW x \in EventRows, NEW child \in EventIds \ {e}, NEW y \in EventRows,
           UpdateEventTx(e, x, [ev EXCEPT ![child] = y])
    PROVE  SameTimes(ev'[e], x) /\ ev'[child] = y
<1> DEFINE f == [ev EXCEPT ![child] = y]
<1>1. f \in [EventIds -> EventRows] /\ f[child] = y
  BY DEF EInv, EventsTyped
<1> HIDE DEF f
<1> QED
  BY <1>1, WrittenRow DEF f

\* A request that sent the version it saw read the times the row still has.
LEMMA VersionedMove ==
    ASSUME EInv, NEW q \in CalRequests, MoveEventOccurrence(q), creq[q].token
    PROVE  LET r == creq[q]
           IN  /\ r \in CalRequest /\ r.copy.org # "none" /\ r.e \in EventIds /\ EventExists(r.e)
               /\ SameTimes(r.copy, ev[r.e])
  BY DEF MoveEventOccurrence, updateEventRowTx, EInv, EventsTyped, CopiesAreVersioned

LEMMA VersionedSplit ==
    ASSUME EInv, NEW q \in CalRequests, MoveEventOccurrence(q), creq[q].token, creq[q].copy.rule # Single
    PROVE  LET r == creq[q]
           IN  /\ r \in CalRequest /\ r.copy.org # "none" /\ r.e \in EventIds /\ EventExists(r.e)
               /\ r.copy.rule \in Rules \ {Single}
               /\ expandOccurrences(ev[r.e]) = Expand(r.copy.rule, r.copy.start, r.copy.ex)
<1> DEFINE r == creq[q]
<1>1. /\ r \in CalRequest /\ r.copy.org # "none" /\ r.e \in EventIds /\ EventExists(r.e)
      /\ SameTimes(r.copy, ev[r.e])
  BY VersionedMove
<1>2. r.copy.rule \in Rules \ {Single}
  BY <1>1 DEF CalRequest, EventRows
<1>3. r.copy.rule.kind # "single"
  BY <1>2 DEF Rules
<1> HIDE DEF r
<1>4. expandOccurrences(ev[r.e]) = Expand(r.copy.rule, r.copy.start, r.copy.ex)
  BY <1>1, <1>3 DEF expandOccurrences, SameTimes
<1> QED
  BY <1>1, <1>2, <1>4 DEF r

\* A counted series without exdates, and a single event, move as a whole.
LEMMA WholeMove ==
    ASSUME EInv, NEW q \in CalRequests, MoveEventOccurrence(q), creq[q].token, MovesWhole(creq[q])
    PROVE  MovedExactly(creq[q], expandOccurrences(ev[creq[q].e]))
<1> DEFINE r == creq[q]
           old == expandOccurrences(ev[r.e])
<1>1. /\ r \in CalRequest /\ r.copy.org # "none" /\ r.e \in EventIds /\ SameTimes(r.copy, ev[r.e])
  BY VersionedMove
<1>2. UpdateEventTx(r.e, MovedAll(r), ev)
  BY DEF MoveEventOccurrence, MovesWhole, moveOccurrenceAll, MovedAll
<1>3. MovesWhole(r)
  OBVIOUS
<1> HIDE DEF r
<1>4. /\ MovedAll(r) \in EventRows /\ MovedAll(r).start = r.new /\ MovedAll(r).rule = r.copy.rule
      /\ MovedAll(r).ex = r.copy.ex
  <2>1. r.copy \in EventRows /\ r.new \in Int
    BY <1>1 DEF CalRequest
  <2> QED
    BY <2>1 DEF MovedAll, EventRows
<1>5. ev \in [EventIds -> EventRows]
  BY DEF EInv, EventsTyped
<1>6. SameTimes(ev'[r.e], MovedAll(r))
  BY <1>1, <1>2, <1>4, <1>5, WrittenRow
<1>7. ASSUME r.copy.rule.kind # "until", r.copy.ex = {}
      PROVE  expandOccurrences(ev'[r.e]) = Shifted(old, r.new - r.copy.start)
  <2> DEFINE rule == r.copy.rule
             start == r.copy.start
             new == r.new
  <2>1. rule \in Rules /\ start \in Int /\ new \in Int
    BY <1>1 DEF CalRequest, EventRows
  <2>2. /\ ev'[r.e].start = new /\ ev'[r.e].rule = rule /\ ev'[r.e].ex = {}
        /\ ev[r.e].start = start /\ ev[r.e].rule = rule /\ ev[r.e].ex = {} /\ rule.kind # "until"
    BY <1>1, <1>4, <1>6, <1>7 DEF SameTimes
  <2> HIDE DEF rule, start, new
  <2>3. ASSUME rule.kind = "single" PROVE expandOccurrences(ev'[r.e]) = Shifted(old, new - start)
    <3>1. old = {start} /\ expandOccurrences(ev'[r.e]) = {new}
      BY <2>2, <2>3 DEF expandOccurrences
    <3>2. new = start + (new - start)
      BY <2>1
    <3> HIDE DEF old
    <3> QED
      BY <3>1, <3>2 DEF Shifted
  <2>4. ASSUME rule.kind # "single" PROVE expandOccurrences(ev'[r.e]) = Shifted(old, new - start)
    <3>1. rule.n \in Int /\ rule.kind = "count"
      BY <2>1, <2>2, <2>4 DEF Rules, Single
    <3>2. old = start .. (start + rule.n - 1) /\ expandOccurrences(ev'[r.e]) = new .. (new + rule.n - 1)
      BY <2>2, <2>4, <3>1 DEF expandOccurrences, Expand
    <3>3. ASSUME NEW t \in new .. (new + rule.n - 1) PROVE \E s \in old : t = s + (new - start)
      <4>1. t - (new - start) \in old /\ t = (t - (new - start)) + (new - start)
        BY <2>1, <3>1, <3>2, <3>3
      <4> QED
        BY <4>1
    <3>4. ASSUME NEW s \in old PROVE s + (new - start) \in new .. (new + rule.n - 1)
      BY <2>1, <3>1, <3>2, <3>4
    <3> DEFINE moved == new .. (new + rule.n - 1)
    <3>5. moved = {s + (new - start) : s \in old}
      <4> HIDE DEF old
      <4> QED
        BY <3>3, <3>4
    <3> HIDE DEF old, moved
    <3> QED
      BY <3>2, <3>5 DEF Shifted, moved
  <2> HIDE DEF old
  <2> QED
    BY <2>3, <2>4 DEF new, start
<1>8. MovedExactly(r, old)
  <2> HIDE DEF old
  <2> QED
    BY <1>3, <1>7 DEF MovedExactly, Shifted
<1> QED
  BY <1>8 DEF r

LEMMA OneMoves ==
    ASSUME EInv, NEW q \in CalRequests, MoveEventOccurrence(q), creq[q].token, creq[q].copy.rule # Single,
           creq[q].op = "this"
    PROVE  MovedExactly(creq[q], expandOccurrences(ev[creq[q].e]))
<1> DEFINE r == creq[q]
           old == Expand(r.copy.rule, r.copy.start, r.copy.ex)
<1>1. /\ r \in CalRequest /\ r.copy.org # "none" /\ r.e \in EventIds /\ EventExists(r.e)
      /\ r.copy.rule \in Rules \ {Single} /\ expandOccurrences(ev[r.e]) = old
  BY VersionedSplit
<1>2. PICK child \in EventIds :
        NewId(child) /\ UpdateEventTx(r.e, LessOne(r), [ev EXCEPT ![child] = One(r)])
  <2>1. moveOccurrenceThis(r)
    BY DEF MoveEventOccurrence
  <2> QED
    BY <2>1 DEF moveOccurrenceThis, LessOne, One
<1>3. child # r.e /\ ev[child] = NoEvent
  BY <1>1, <1>2 DEF NewId, EInv, EventsTyped
<1> HIDE DEF r
<1>4. /\ LessOne(r) \in EventRows /\ LessOne(r).start = r.copy.start /\ LessOne(r).rule = r.copy.rule
      /\ LessOne(r).ex = r.copy.ex \cup {r.inst}
      /\ One(r).start = r.new /\ One(r).rule = Single
  <2>1. r.copy \in EventRows
    BY <1>1 DEF CalRequest
  <2> QED
    BY <1>1, <2>1, MovesTyped DEF LessOne, EventRows
<1>5. SameTimes(ev'[r.e], LessOne(r)) /\ ev'[child] = One(r)
  <2>1. One(r) \in EventRows
    BY <1>1, MovesTyped
  <2> QED
    BY <1>1, <1>2, <1>3, <1>4, <2>1, WrittenTimes
<1>6. r.copy.rule.kind # "single" /\ Single.kind = "single"
  BY <1>1 DEF Rules, Single
<1>7. expandOccurrences(ev'[r.e]) = old \ {r.inst}
  <2>1. expandOccurrences(ev'[r.e]) = Expand(r.copy.rule, r.copy.start, r.copy.ex \cup {r.inst})
    BY <1>4, <1>5, <1>6 DEF expandOccurrences, SameTimes
  <2> QED
    BY <2>1 DEF Expand
<1>8. expandOccurrences(ev'[child]) = {t + (r.new - r.inst) : t \in {r.inst}}
  <2>1. expandOccurrences(ev'[child]) = {r.new}
    BY <1>4, <1>5, <1>6 DEF expandOccurrences
  <2>2. r.inst + (r.new - r.inst) = r.new
    BY <1>1 DEF CalRequest
  <2> QED
    BY <2>1, <2>2
<1>9. r.op = "this"
  BY DEF r
<1> HIDE DEF old
<1>10. MovedExactly(r, old)
  BY <1>1, <1>3, <1>7, <1>8, <1>9 DEF MovedExactly, MovesWhole
<1> QED
  BY <1>1, <1>10 DEF r

LEMMA FollowingMove ==
    ASSUME EInv, NEW q \in CalRequests, MoveEventOccurrence(q), creq[q].token, creq[q].copy.rule # Single,
           creq[q].op = "following", creq[q].inst # creq[q].copy.start
    PROVE  MovedExactly(creq[q], expandOccurrences(ev[creq[q].e]))
<1> DEFINE r == creq[q]
           old == Expand(r.copy.rule, r.copy.start, r.copy.ex)
           moved == {t \in old : t >= r.inst}
           delta == r.new - r.inst
<1>0. r.copy.rule # Single /\ r.inst # r.copy.start
  OBVIOUS
<1>1. /\ r \in CalRequest /\ r.copy.org # "none" /\ r.e \in EventIds /\ EventExists(r.e)
      /\ r.copy.rule \in Rules \ {Single} /\ expandOccurrences(ev[r.e]) = old
  BY VersionedSplit
<1>2. PICK child \in EventIds :
        NewId(child) /\ UpdateEventTx(r.e, Cut(r), [ev EXCEPT ![child] = Rest(r)])
  BY DEF MoveEventOccurrence, moveOccurrenceThisAndFollowing, Cut, Rest
<1>3. child # r.e /\ ev[child] = NoEvent
  BY <1>1, <1>2 DEF NewId, EInv, EventsTyped
<1>4. IsMember(r.copy, r.inst) /\ r.op = "following"
  BY DEF MoveEventOccurrence
<1> HIDE DEF r
<1>5. /\ r.copy.start \in Int /\ r.inst \in Int /\ r.new \in Int /\ r.copy.ex \in SUBSET Int
      /\ r.inst \in Expand(r.copy.rule, r.copy.start, {}) /\ r.inst \notin r.copy.ex
  BY <1>1, <1>4, MemberInRange DEF CalRequest, EventRows
<1> DEFINE early == Before(r.copy.ex, r.inst)
           later == Shifted(After(r.copy.ex, r.inst), delta)
           until == SetUntil(r.copy.rule, r.inst - 1)
           shifted == ShiftBounds(r.copy.rule, r.copy.start, r.inst, r.new)
<1>6. /\ Cut(r) \in EventRows /\ Cut(r).start = r.copy.start /\ Cut(r).rule = until /\ Cut(r).ex = early
      /\ Rest(r).start = r.new /\ Rest(r).ex = later /\ Rest(r).rule = shifted
  BY <1>1, <1>4, SplitRowsTyped DEF Before, After, Shifted
<1>7. SameTimes(ev'[r.e], Cut(r)) /\ ev'[child] = Rest(r)
  <2>1. Rest(r) \in EventRows
    BY <1>1, <1>4, SplitRowsTyped
  <2> QED
    BY <1>1, <1>2, <1>3, <1>6, <2>1, WrittenTimes
<1>8. until.kind # "single" /\ shifted.kind # "single"
  <2>1. r.copy.rule \in [kind : {"until", "count"}, n : Int]
    BY <1>1 DEF Rules
  <2> QED
    BY <1>5, <2>1, SplitRule DEF SetUntil
<1>9. /\ expandOccurrences(ev'[r.e]) = Expand(until, r.copy.start, early)
      /\ expandOccurrences(ev'[child]) = Expand(shifted, r.new, later)
  <2> HIDE DEF early, later, until, shifted
  <2> QED
    BY <1>6, <1>7, <1>8 DEF expandOccurrences, SameTimes
<1> DEFINE end == SeriesEnd(r.copy.rule, r.copy.start)
<1>10. /\ end \in Int /\ r.copy.start <= r.inst /\ r.inst <= end
       /\ old = (r.copy.start .. end) \ r.copy.ex
       /\ Expand(until, r.copy.start, early) = (r.copy.start .. (r.inst - 1)) \ early
       /\ Expand(shifted, r.new, later) = (r.new .. (end + delta)) \ later
  <2> DEFINE rule == r.copy.rule
             start == r.copy.start
             inst == r.inst
             new == r.new
  <2>1. rule \in Rules \ {Single} /\ start \in Int /\ inst \in Int /\ new \in Int /\ inst \in Expand(rule, start, {})
    BY <1>1, <1>5
  <2> HIDE DEF early, later, rule, start, inst, new
  <2>2. SplitAt(rule, start, inst, new, r.copy.ex, early, later)
    BY <2>1, SeriesSplit
  <2> QED
    BY <2>2 DEF SplitAt, rule, start, inst, new
<1>11. /\ (r.copy.start .. (r.inst - 1)) \ early = old \ From(old, r.inst)
       /\ (r.new .. (end + delta)) \ later = Shifted(From(old, r.inst), delta)
  <2> DEFINE start == r.copy.start
             inst == r.inst
             new == r.new
             ex == r.copy.ex
  <2>1. /\ start \in Int /\ end \in Int /\ inst \in Int /\ new \in Int /\ ex \in SUBSET Int
        /\ start <= inst /\ inst <= end /\ inst \notin ex /\ old = (start .. end) \ ex
    BY <1>5, <1>10
  <2> HIDE DEF old, end, start, inst, new, ex
  <2>2. PartsExact(start, end, inst, new, ex, old)
    BY <2>1, SplitIsExact
  <2> QED
    BY <2>2 DEF PartsExact, start, inst, new, ex
<1>12. From(old, r.inst) = moved /\ Shifted(From(old, r.inst), delta) = {t + delta : t \in moved}
  BY DEF From, Shifted
<1>13. expandOccurrences(ev'[r.e]) = old \ moved /\ expandOccurrences(ev'[child]) = {t + delta : t \in moved}
  BY <1>9, <1>10, <1>11, <1>12
<1> HIDE DEF old
<1>14. MovedExactly(r, old)
  BY <1>0, <1>1, <1>3, <1>4, <1>13 DEF MovedExactly, MovesWhole
<1> QED
  BY <1>1, <1>14 DEF r

\* A move sent with the version the client saw, of one, of the following or of
\* all the occurrences, loses, doubles and brings back nothing, whatever else is
\* moved or rescheduled meanwhile: for any start, rule and exdates when the
\* series is split, and for a count without exdates when it moves as a whole
\* ("all", and "following" at the first occurrence).
THEOREM MovesAreExact == CalendarSpec => MoveIsExact
<1> DEFINE A == \A q \in CalRequests : MovesRow(q) => MovedExactly(creq[q], expandOccurrences(ev[creq[q].e]))
<1>1. EInv /\ [EventsNext \/ RemindersNext]_calVars => [A]_calVars
  <2> SUFFICES ASSUME EInv, EventsNext \/ RemindersNext, NEW q \in CalRequests,
                      creq[q].op \in {"this", "following", "all"}, creq[q].token, ev' # ev, creq'[q].op = "idle"
               PROVE  MovedExactly(creq[q], expandOccurrences(ev[creq[q].e]))
    BY DEF MovesRow
  <2>1. ASSUME NEW p \in CalRequests,
               \/ UpdateEvent(p) \/ DeleteEvent(p) \/ UpsertRsvp(p) \/ LinkEventAndCall(p)
        PROVE  FALSE
    BY <2>1 DEF UpdateEvent, DeleteEvent, UpsertRsvp, LinkEventAndCall, CalDone, EInv, EventsTyped
  <2>2. ASSUME NEW p \in CalRequests, StartCallFromEvent(p) \/ StartCallRollback(p) \/ AbortRequest(p)
        PROVE  FALSE
    BY <2>2 DEF StartCallFromEvent, StartCallRollback, AbortRequest
  <2>3. ASSUME NEW p \in CalRequests, NEW u, NEW e, NEW op, NEW x, NEW inst, NEW new, NEW token, NEW arg,
               LoadEvent(p, u, e, op, x, inst, new, token, arg)
        PROVE  FALSE
    BY <2>3 DEF LoadEvent
  <2>4. ASSUME NEW c \in CalCalls, EndEventCall(c) PROVE FALSE
    BY <2>4 DEF EndEventCall
  <2>5. ASSUME NEW u \in CalUsers,
               \/ EnsureDefaultCalendar(u)
               \/ \E k : \/ CreateUserCalendar(u, k) \/ DeleteUserCalendar(u, k)
                         \/ \E b \in BOOLEAN : SetCalendarVisibility(u, k, b)
                         \/ \E e, start, rule, us, rem, entry : CreateEvent(u, k, e, start, rule, us, rem, entry)
        PROVE  FALSE
    BY <2>5 DEF EnsureDefaultCalendar, CreateUserCalendar, DeleteUserCalendar, SetCalendarVisibility, CreateEvent
  <2>6. ASSUME RemindersNext PROVE FALSE
    BY <2>6
    DEF RemindersNext, TimePasses, dispatchDueReminders, ListAndDispatchReminders, DispatchRollback,
        ClaimReminderOutbox, PublishReminderOutbox, PublisherCrash, PublishReminder, eventVars
  <2>7. ASSUME NEW p \in CalRequests, MoveEventOccurrence(p) PROVE p = q
    BY <2>7 DEF MoveEventOccurrence, CalDone, EInv, EventsTyped
  <2>8. ASSUME NEW p \in CalRequests, NEW u \in CalUsers, NEW e \in {x \in EventIds : EventExists(x)},
               \/ \E x \in Edits(u, GetEvent(e)) : LoadEvent(p, u, e, "update", x, 0, 0, FALSE, "none")
               \/ \E scope \in {"this", "following", "all"}, inst \in expandOccurrences(ev[e]),
                     by \in MoveBy, token \in BOOLEAN :
                    LoadEvent(p, u, e, scope, GetEvent(e), inst, inst + by, token, "none")
               \/ \E op \in {"delete", "start"} : LoadEvent(p, u, e, op, GetEvent(e), 0, 0, FALSE, "none")
               \/ \E a \in {"going", "declined"} : LoadEvent(p, u, e, "rsvp", GetEvent(e), 0, 0, FALSE, a)
        PROVE  FALSE
    BY <2>3, <2>8, Zenon
  <2>9. \E p \in CalRequests : MoveEventOccurrence(p)
    BY <2>1, <2>2, <2>4, <2>5, <2>6, <2>8, Zenon DEF EventsNext
  <2> QED
    BY <2>7, <2>9, WholeMove, OneMoves, FollowingMove DEF MovesWhole
<1> QED
  BY <1>1, EInvInit, EInvNext, PTL DEF CalendarSpec, MoveIsExact
=============================================================================
