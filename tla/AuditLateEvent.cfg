\* A late event arrives while the alarm awaits R2 or D1.
CONSTANTS
    Events = {e1, e2}
    None = None
    Late = 1
    Retain = 2
    MaxDay = 3
    MaxFaults = 0
    MaxResets = 0
SPECIFICATION Spec
INVARIANTS CheckpointVerifiable
