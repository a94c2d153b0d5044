\* One one-time task, and a reset while it runs.
CONSTANTS
    Tasks = {t1}
    Keys = {k1}
    none = none
    once = once
    daily = daily
    Schedules <- MCSchedules
    Unplanned = none
    Recurring <- MCRecurring
    Slots <- MCSlots
    Limit = 1
    None = None
    MaxNow = 2
    MaxResets = 1
CHECK_DEADLOCK FALSE
SPECIFICATION Spec
PROPERTIES OneTimeNotRetried
