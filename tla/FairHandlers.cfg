\* Audit events that arrive on their day, with failures, a reset, and requests with any
\* dates; messages through two gateway sessions; interactions of Discord users; runs of
\* plugins.  The other instances are defined in the module.
CONSTANTS
    Events = {e1, e2}
    None = None
    Late = 0
    Retain = 1
    MaxDay = 3
    MaxFaults = 1
    MaxResets = 1
SPECIFICATION FairHandlersSpec
INVARIANTS TypeOK LogConsistent CheckpointVerifiable
PROPERTIES ErasedOnlyWhenCheckpointed EverySegmentCloses MessagesForwarded AcceptedWorkEnds
CHECK_DEADLOCK FALSE
