\* Two tasks, an alarm that reads one of them at a time, three requests of the owner at
\* any moment, a reset, the deletion of the conversation.
CONSTANTS
    Tasks = {t1, t2}
    Keys = {k1, k2, k3}
    none = none
    once = once
    daily = daily
    Schedules <- MCSchedules
    Unplanned = none
    Recurring <- MCRecurring
    Slots <- MCSlots
    Limit = 1
    None = None
    MaxNow = 2
    MaxResets = 1
CHECK_DEADLOCK FALSE
SPECIFICATION FairSpec
INVARIANTS TypeOK AlarmIsEarliest MissedNotReplayed
PROPERTIES DueTaskRuns
