------------------------- MODULE MCApprovalHandlers -------------------------
(***************************************************************************)
(* A small instance of ApprovalHandlers for TLC.                           *)
(***************************************************************************)
EXTENDS ApprovalHandlers, MCApprovalFlow

\* The commands of a guild channel are sent from it, "agent" from another channel, too, the
\* others from a direct message.  One user sends them all, the other only links.
MCLinkJobs ==
    [user : {"u1"}, kind : {"agent", "notify-here", "notify-off"}, where : {"channel"},
     code : {"c1"}]
    \cup [user : {"u1"}, kind : {"agent"}, where : {"other"}, code : {"c1"}]
    \cup [user : {"u1"}, kind : {"link", "unlink"}, where : {"dm"}, code : {"c1"}]
    \cup [user : {"u2"}, kind : {"link"}, where : {"dm"}, code : {"c1"}]

MCTransferKeyOf == ("approve" :> "k1") @@ ("repeated" :> "k1") @@ ("change" :> "k2")

=============================================================================
