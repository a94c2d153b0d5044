------------------------ MODULE MCConversationTasks ------------------------
(***************************************************************************)
(* Small instances of ConversationTasks for TLC.                           *)
(***************************************************************************)
EXTENDS ConversationTasks, TLC

CONSTANTS none, once, daily

MCSchedules == {none, once, daily}

\* A one-time schedule and one that comes back, every instant until after MaxNow.
MCSlots == (none :> {}) @@ (once :> {2}) @@ (daily :> 1..(MaxNow + 1))

MCRecurring == {daily}

=============================================================================
