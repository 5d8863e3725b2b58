SPECIFICATION Spec
CONSTANTS
    CalUsers = {"o", "m"}
    CalendarIds = {"home", "extra"}
    EventIds = {"e", "f", "g"}
    CalCalls = {"c1", "c2"}
    CalRequests = {"p", "q"}
    Dispatchers = {"d1", "d2"}
    Publishers = {"p1"}
    Slots = {0, 1, 2}
    Starts = {2}
    Counts = {1, 3}
    Untils = {4}
    MoveBy = {1}
    CalOps = {"update", "this", "following", "all", "delete", "rsvp", "start", "create", "calendar"}
    MaxCalRequests = 3
    ReminderTries = 2
    MaxCalFaults = 1
    Sides = {"moves", "calls", "reminders", "calendars"}
INVARIANTS OneCallPerEvent RemindedOnce
PROPERTIES MoveIsExact RemindersSettle
CHECK_DEADLOCK FALSE
