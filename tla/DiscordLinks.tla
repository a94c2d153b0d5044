------------------------------ MODULE DiscordLinks ------------------------------
(***************************************************************************)
(* Slash commands and buttons of Discord: the adapter's interactions       *)
(* (apps/discord-adapter/src/index.ts), the assistant's DiscordEntrypoint, *)
(* the link codes and the link of the control worker, and the              *)
(* destinations of the Discord gatekeeper.  Discord may deliver an         *)
(* interaction twice; the owner makes codes, unlinks and revokes           *)
(* destinations meanwhile; work after the deferred reply can fail or be    *)
(* cut off.                                                                *)
(*                                                                         *)
(* A deployment has one owner and, here, one guild channel.  An effect on  *)
(* the owner's workspace is one step; what it does is in OwnerOperation,   *)
(* ApprovalFlow and MessageExchange.                                       *)
(***************************************************************************)
EXTENDS Naturals, FiniteSets

CONSTANTS
    Interactions,   \* interactions of users with the bot
    Users,          \* Discord users
    Codes,          \* link codes
    Jobs,           \* what the interactions may be
    Faults,         \* bound of the failures
    Guild,          \* the guild channel as a destination
    Nobody          \* no user

VARIABLES
    code,       \* code |-> none, open, expired, consumed or deleted
    link,       \* the row of discord_owner_links: its user, and is it active
    dest,       \* destination |-> none, active or revoked; a user names its DM
    policy,     \* the command policy of the guild channel
    asked,      \* policies of the guild channel that await the owner's approval
    inter,      \* interaction |-> who, what, where, with which code
    at,         \* interaction |-> where its handler is
    pending,    \* interaction |-> deliveries under way
    claimed,    \* the ids DiscordDedupe remembers
    faults,     \* how many faults there have been
    uses,       \* history: code |-> the interactions whose link it made
    acted,      \* history: interaction |-> how often it had its effect
    was         \* history: interaction |-> what held at some time since it was sent

vars == <<code, link, dest, policy, asked, inter, at, pending, claimed, faults, uses,
          acted, was>>

histories == <<uses, acted, was>>
channel == <<dest, policy, asked>>
adapter == <<inter, pending, claimed>>

Destinations == Users \cup {Guild}

Commands == {"link", "agent", "notify-here", "unlink", "notify-off", "status"}

\* An interaction is sent from a direct message, the channel, or another channel of the guild.
Interaction == [user : Users, kind : Commands, where : {"dm", "channel", "other"}, code : Codes]

LinkConstants ==
    /\ Faults \in Nat
    /\ Guild \notin Users /\ Nobody \notin Users
    /\ Jobs \subseteq Interaction /\ Jobs # {}

Policies == {"approved-only", "owner-any", "dm-only"}

Working ==
    {"start", "select", "conflict", "consume", "upsert", "create-dm", "guild", "act", "reply"}

Linked(u) == link.active /\ link.user = u

\* Where in the guild a policy of the channel lets commands act.
PlacesOf(p) ==
    {w \in {"channel", "other"} : p = "owner-any" \/ (p = "approved-only" /\ w = "channel")}

OpenPlaces == IF dest[Guild] = "active" THEN PlacesOf(policy) ELSE {}

\* What an interaction's sender could rely on at some time since it was sent: a link, its
\* channel open to commands, its code valid.
Witnessed(linked, places) ==
    [i \in Interactions |->
        [was[i] EXCEPT
            !.linked = @ \/ (at[i] # "unsent" /\ linked.active /\ linked.user = inter[i].user),
            !.open = @ \/ (at[i] # "unsent" /\ inter[i].where \in places)]]

Goto(i, place) == at' = [at EXCEPT ![i] = place]

-----------------------------------------------------------------------------
(***************************************************************************)
(* The owner.                                                              *)
(***************************************************************************)

\* A new code deletes those not consumed.
CreateCode(c) ==
    /\ code[c] = "none"
    /\ code' = [d \in Codes |-> IF d = c THEN "open"
                                ELSE IF code[d] \in {"open", "expired"} THEN "deleted" ELSE code[d]]
    /\ was' = [i \in Interactions |->
                  [was[i] EXCEPT !.live = @ \/ (at[i] # "unsent" /\ inter[i].code = c)]]
    /\ UNCHANGED <<link, channel, adapter, at, faults, uses, acted>>

Expire(c) ==
    /\ code[c] = "open"
    /\ code' = [code EXCEPT ![c] = "expired"]
    /\ UNCHANGED <<link, channel, adapter, at, faults, histories>>

Unlink ==
    /\ link.active
    /\ link' = [link EXCEPT !.active = FALSE]
    /\ UNCHANGED <<code, channel, adapter, at, faults, histories>>

\* The policy of the channel is changed by an approval of its own.
AskPolicy(p) ==
    /\ dest[Guild] # "none" /\ p \notin asked
    /\ asked' = asked \cup {p}
    /\ UNCHANGED <<code, link, dest, policy, adapter, at, faults, histories>>

\* execute, with the lease of a decided approval.
Configure(p) ==
    /\ p \in asked
    /\ asked' = asked \ {p}
    /\ dest' = [dest EXCEPT ![Guild] = "active"]
    /\ policy' = p
    /\ was' = Witnessed(link, PlacesOf(p))
    /\ UNCHANGED <<code, link, adapter, at, faults, uses, acted>>

RevokeDestination(d) ==
    /\ dest[d] = "active"
    /\ dest' = [dest EXCEPT ![d] = "revoked"]
    /\ UNCHANGED <<code, link, policy, asked, adapter, at, faults, histories>>

-----------------------------------------------------------------------------
(***************************************************************************)
(* The adapter.                                                            *)
(***************************************************************************)

Send(i, job) ==
    /\ at[i] = "unsent"
    /\ inter' = [inter EXCEPT ![i] = job]
    /\ pending' = [pending EXCEPT ![i] = 1]
    /\ was' = [was EXCEPT ![i] = [linked |-> Linked(job.user), open |-> job.where \in OpenPlaces,
                                    live |-> code[job.code] = "open"]]
    /\ Goto(i, "sent")
    /\ UNCHANGED <<code, link, channel, claimed, faults, uses, acted>>

SendAgain(i) ==
    /\ at[i] # "unsent" /\ faults < Faults
    /\ faults' = faults + 1
    /\ pending' = [pending EXCEPT ![i] = @ + 1]
    /\ UNCHANGED <<code, link, channel, inter, at, claimed, histories>>

\* Mutant of Claim: an id that was seen is claimed again.
ClaimAgain(i) ==
    /\ pending[i] > 0
    /\ pending' = [pending EXCEPT ![i] = @ - 1]
    /\ claimed' = claimed \cup {i}
    /\ Goto(i, "start")
    /\ UNCHANGED <<code, link, channel, inter, faults, histories>>

\* The first delivery is answered with a deferred reply and worked on after it; any other is
\* told so.
Claim(i) ==
    /\ pending[i] > 0
    /\ pending' = [pending EXCEPT ![i] = @ - 1]
    /\ claimed' = claimed \cup {i}
    /\ IF i \in claimed THEN UNCHANGED at ELSE Goto(i, "start")
    /\ UNCHANGED <<code, link, channel, inter, faults, histories>>

\* updateInteraction edits the deferred reply.
Answer(i) ==
    /\ at[i] = "reply"
    /\ Goto(i, "answered")
    /\ UNCHANGED <<code, link, channel, adapter, faults, histories>>

\* A call throws: the reply says so.
Throw(i) ==
    /\ at[i] \in Working \ {"reply"} /\ faults < Faults
    /\ faults' = faults + 1
    /\ Goto(i, "reply")
    /\ UNCHANGED <<code, link, channel, adapter, histories>>

\* The edit fails, or the work after the deferred reply is cut off.
CutOff(i) ==
    /\ at[i] \in Working /\ faults < Faults
    /\ faults' = faults + 1
    /\ Goto(i, "lost")
    /\ UNCHANGED <<code, link, channel, adapter, histories>>

-----------------------------------------------------------------------------
(***************************************************************************)
(* /link: link of the assistant, consumeDiscordLinkCode,                   *)
(* createDmDestination.                                                    *)
(***************************************************************************)

\* The command is for direct messages.
Start(i) ==
    /\ at[i] = "start" /\ inter[i].kind = "link"
    /\ Goto(i, IF inter[i].where # "dm" THEN "reply" ELSE "select")
    /\ UNCHANGED <<code, link, channel, adapter, faults, histories>>

SelectCode(i) ==
    /\ at[i] = "select"
    /\ Goto(i, IF code[inter[i].code] = "open" THEN "conflict" ELSE "reply")
    /\ UNCHANGED <<code, link, channel, adapter, faults, histories>>

\* Another user is linked.  (The other conflict, a user linked to another owner, needs two
\* owners.)
CheckConflict(i) ==
    /\ at[i] = "conflict"
    /\ Goto(i, IF link.active /\ ~Linked(inter[i].user) THEN "reply" ELSE "consume")
    /\ UNCHANGED <<code, link, channel, adapter, faults, histories>>

\* The UPDATE compares the expiry with the time SelectCode read: a code that expires between
\* the two is consumed.
Consume(i) ==
    /\ at[i] = "consume"
    /\ IF code[inter[i].code] \in {"open", "expired"}
       THEN /\ code' = [code EXCEPT ![inter[i].code] = "consumed"]
            /\ Goto(i, "upsert")
       ELSE /\ Goto(i, "reply")
            /\ UNCHANGED code
    /\ UNCHANGED <<link, channel, adapter, faults, histories>>

\* The owner's row is written whoever it names by now, and whether or not it was revoked
\* meanwhile.
Upsert(i) ==
    /\ at[i] = "upsert"
    /\ link' = [user |-> inter[i].user, active |-> TRUE]
    /\ uses' = [uses EXCEPT ![inter[i].code] = @ \cup {i}]
    /\ was' = Witnessed(link', OpenPlaces)
    /\ Goto(i, "create-dm")
    /\ UNCHANGED <<code, channel, adapter, faults, acted>>

\* The DM channel may be refused: the link stays.
CreateDm(i) ==
    /\ at[i] = "create-dm"
    /\ dest' \in {dest, [dest EXCEPT ![inter[i].user] = "active"]}
    /\ Goto(i, "reply")
    /\ UNCHANGED <<code, link, policy, asked, adapter, faults, histories>>

-----------------------------------------------------------------------------
(***************************************************************************)
(* The other commands and the buttons.                                     *)
(***************************************************************************)

Resolve(i) ==
    /\ at[i] = "start" /\ inter[i].kind # "link"
    /\ Goto(i, IF Linked(inter[i].user) THEN "guild" ELSE "reply")
    /\ UNCHANGED <<code, link, channel, adapter, faults, histories>>

\* The owner must have approved commands there, but for the command that asks for the approval.
GuildAllowed(i) ==
    /\ at[i] = "guild"
    /\ Goto(i, IF inter[i].where \in {"dm"} \cup OpenPlaces \/ inter[i].kind = "notify-here"
               THEN "act" ELSE "reply")
    /\ UNCHANGED <<code, link, channel, adapter, faults, histories>>

Act(i) ==
    /\ at[i] = "act"
    /\ Goto(i, "reply")
    /\ acted' = [acted EXCEPT ![i] = @ + 1]
    /\ link' = IF inter[i].kind = "unlink" THEN [link EXCEPT !.active = FALSE] ELSE link
    /\ dest' = IF /\ inter[i].kind = "notify-off" /\ inter[i].where = "channel"
                  /\ dest[Guild] = "active"
               THEN [dest EXCEPT ![Guild] = "revoked"] ELSE dest
    /\ asked' = IF inter[i].kind = "notify-here" /\ inter[i].where = "channel"
                THEN asked \cup {"approved-only"} ELSE asked
    /\ UNCHANGED <<code, policy, adapter, faults, uses, was>>

-----------------------------------------------------------------------------

\* There may be a link already, made before.
Init ==
    /\ code = [c \in Codes |-> "none"]
    /\ link \in {[user |-> Nobody, active |-> FALSE]} \cup [user : Users, active : {TRUE}]
    /\ dest = [d \in Destinations |-> "none"]
    /\ policy = "approved-only"
    /\ asked = {}
    /\ inter = [i \in Interactions |-> CHOOSE job \in Jobs : TRUE]
    /\ at = [i \in Interactions |-> "unsent"]
    /\ pending = [i \in Interactions |-> 0]
    /\ claimed = {}
    /\ faults = 0
    /\ uses = [c \in Codes |-> {}]
    /\ acted = [i \in Interactions |-> 0]
    /\ was = [i \in Interactions |-> [linked |-> FALSE, open |-> FALSE, live |-> FALSE]]

Owner ==
    \/ \E c \in Codes : CreateCode(c) \/ Expire(c)
    \/ \E p \in Policies : AskPolicy(p) \/ Configure(p)
    \/ \E d \in Destinations : RevokeDestination(d)
    \/ Unlink

Handle(i) ==
    \/ Claim(i) \/ Answer(i)
    \/ Start(i) \/ SelectCode(i) \/ CheckConflict(i) \/ Consume(i) \/ Upsert(i) \/ CreateDm(i)
    \/ Resolve(i) \/ GuildAllowed(i) \/ Act(i)

Next ==
    \/ Owner
    \/ \E i \in Interactions :
         \/ \E job \in Jobs : Send(i, job)
         \/ SendAgain(i) \/ Handle(i) \/ Throw(i) \/ CutOff(i)

Fairness == \A i \in Interactions : WF_vars(Handle(i))

Spec == Init /\ [][Next]_vars /\ Fairness

-----------------------------------------------------------------------------
(***************************************************************************)
(* Properties.                                                             *)
(***************************************************************************)

TypeOK ==
    /\ code \in [Codes -> {"none", "open", "expired", "consumed", "deleted"}]
    /\ link \in [user : Users \cup {Nobody}, active : BOOLEAN]
    /\ link.active => link.user # Nobody
    /\ dest \in [Destinations -> {"none", "active", "revoked"}]
    /\ policy \in Policies /\ asked \subseteq Policies
    /\ inter \in [Interactions -> Jobs]
    /\ at \in [Interactions -> Working \cup {"unsent", "sent", "answered", "lost"}]
    /\ \A i \in Interactions : at[i] \in Working => i \in claimed
    /\ pending \in [Interactions -> Nat]

\* A code makes one link, whatever interactions present it at once and however often each is
\* delivered, and only for an interaction that was sent before the code expired or was deleted.
\* (One that expires while it is checked still does.)
CodeUsedOnce ==
    \A c \in Codes :
        /\ Cardinality(uses[c]) <= 1
        /\ uses[c] # {} => code[c] = "consumed"
        /\ \A i \in uses[c] : was[i].live

\* An interaction has its effect once.
ActsOnce == \A i \in Interactions : acted[i] <= 1

\* It has one only for a user who was linked, and in the guild only where a policy the owner
\* approved allowed it, at some time since it was sent: unlinking ends what a user can do.
ActedWasAllowed ==
    \A i \in Interactions : acted[i] > 0 =>
        /\ was[i].linked
        /\ inter[i].where # "dm" /\ inter[i].kind # "notify-here" => was[i].open

\* Every interaction the adapter accepted is answered in the end, unless its work is cut off.
AcceptedIsAnswered ==
    \A i \in Interactions : (i \in claimed) ~> (at[i] \in {"answered", "lost"})

=============================================================================
