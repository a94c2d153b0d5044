---------------------------- MODULE DiscordGateway ----------------------------
(***************************************************************************)
(* Direct messages on their way from Discord to the agent: the bridge that *)
(* keeps a gateway session (apps/discord-gateway-bridge/src/index.ts), the *)
(* adapter that accepts its events and remembers their ids for a day       *)
(* (apps/discord-adapter/src/index.ts), and the assistant's                *)
(* handleDiscordGateway.  Connections drop, sessions end, the bridge       *)
(* crashes, calls fail; a resumed session sends again what followed the    *)
(* last sequence number the bridge names.                                  *)
(*                                                                         *)
(* There is one direct-message channel, which a READY lists or a           *)
(* CHANNEL_CREATE announces.  Discord numbers the events of a session;     *)
(* here an event has one number in all sessions.  Discord keeps a session  *)
(* for minutes, far less than the day an id is remembered.                 *)
(***************************************************************************)
EXTENDS Naturals

CONSTANTS
    Events,     \* bound of the events: messages, the channel created or deleted
    Sessions,   \* bound of the sessions
    Faults,     \* bound of the dropped connections, failures and crashes
    Undefined   \* a field the bridge's session has not

GatewayConstants ==
    /\ {Events, Sessions, Faults} \subseteq Nat
    /\ Undefined \notin Nat

VARIABLES
    written,    \* how many events there have been
    kind,       \* event |-> what it is
    exists,     \* the channel exists
    current,    \* the session Discord keeps
    opened,     \* how many sessions there have been
    cursor,     \* the last event Discord has sent on the connection
    session,    \* the bridge's session, in memory
    file,       \* the same, as saved
    socket,     \* the bridge: not running, not connected, connected
    channels,   \* the channel is in directMessageChannels
    greet,      \* session |-> what the bridge does with its READY
    at,         \* event |-> what the bridge does with it
    from,       \* event being saved |-> the session_id the bridge had when it came
    wire,       \* message |-> where its requests to the adapter are
    seen,       \* the ids DiscordDedupe remembers
    handled,    \* history: how often the agent was asked
    replied,    \* history: the messages answered
    faults,     \* how many faults there have been
    spared,     \* history: no message may have been lost so far
    raced       \* history: messages dispatched beside news of their channel

vars == <<written, kind, exists, current, opened, cursor, session, file, socket, channels, greet,
          at, from, wire, seen, handled, replied, faults, spared, raced>>

events == <<written, kind, exists>>
discord == <<current, opened>>
handlers == <<greet, at, from>>
adapter == <<wire, seen, handled, replied>>

All == 1 .. Events

Session == [id : {Undefined} \cup 1 .. Sessions, seq : {Undefined} \cup 0 .. Events]

Fresh == [id |-> Undefined, seq |-> Undefined]

Resumable == Undefined \notin {session.id, session.seq}

Greeting == [step : {"none", "saving", "storing"}, listed : BOOLEAN, saved : Session]

Idle == [step |-> "none", listed |-> FALSE, saved |-> Fresh]

\* News of the channel that the bridge has received and not yet taken in.
News == {n \in All : at[n] = "saving" /\ kind[n] # "message"}

Greeted == \A s \in 1 .. Sessions : greet[s].step # "saving"

Fault(spares) ==
    /\ faults < Faults
    /\ faults' = faults + 1
    /\ spared' = (spared /\ spares)

\* A user writes a message, or Discord creates or deletes the channel.
Write(k) ==
    /\ written < Events
    /\ exists = (k # "create")
    /\ written' = written + 1
    /\ kind' = [kind EXCEPT ![written + 1] = k]
    /\ exists' = (k # "delete")
    /\ UNCHANGED <<discord, cursor, session, file, socket, channels, handlers, adapter, faults,
                   spared, raced>>

\* Discord ends a session nobody is connected to: so often as there are sessions.
EndSession ==
    /\ current # Undefined /\ socket # "open"
    /\ current' = Undefined
    /\ spared' = FALSE
    /\ UNCHANGED <<events, opened, cursor, session, file, socket, channels, handlers, adapter,
                   faults, raced>>

-----------------------------------------------------------------------------
(***************************************************************************)
(* The bridge.                                                             *)
(***************************************************************************)

\* loadState.
Start ==
    /\ socket = "down"
    /\ session' = file
    /\ socket' = "closed"
    /\ UNCHANGED <<events, discord, cursor, file, channels, handlers, adapter, faults, spared,
                   raced>>

\* Mutant of Resume: it continues with what comes next.
ResumeFromNow ==
    /\ socket = "closed" /\ Resumable /\ session.id = current
    /\ cursor' = written
    /\ socket' = "open"
    /\ UNCHANGED <<events, discord, session, file, channels, handlers, adapter, faults, spared,
                   raced>>

\* Op 10 with a known session: resume after the last sequence number.
Resume ==
    /\ socket = "closed" /\ Resumable /\ session.id = current
    /\ cursor' = session.seq
    /\ socket' = "open"
    /\ UNCHANGED <<events, discord, session, file, channels, handlers, adapter, faults, spared,
                   raced>>

\* Op 9: the session is forgotten and the connection made again.
InvalidSession ==
    /\ socket = "closed" /\ Resumable /\ session.id # current
    /\ session' = Fresh /\ file' = Fresh
    /\ UNCHANGED <<events, discord, cursor, socket, channels, handlers, adapter, faults, spared,
                   raced>>

\* Op 2: a new session, which starts with what is written from now on.  READY comes with the
\* channel if it exists; its sequence number is saved first.
Identify ==
    LET s == opened + 1
    IN  /\ socket = "closed" /\ ~Resumable /\ opened < Sessions
        /\ opened' = s
        /\ current' = s
        /\ cursor' = written
        /\ session' = [session EXCEPT !.seq = written]
        /\ greet' = [greet EXCEPT ![s] = [step |-> "saving", listed |-> exists, saved |-> session']]
        /\ socket' = "open"
        /\ spared' = (spared /\ written = 0 /\ opened = 0)
        /\ UNCHANGED <<events, file, channels, at, from, adapter, faults, raced>>

\* READY after its first save: the session has its id and the set its channels.  The session
\* is saved once more.
Ready(s) ==
    /\ greet[s].step = "saving"
    /\ file' = greet[s].saved
    /\ session' = [session EXCEPT !.id = s]
    /\ channels' = greet[s].listed
    /\ greet' = [greet EXCEPT ![s] = [step |-> "storing", listed |-> FALSE, saved |-> session']]
    /\ UNCHANGED <<events, discord, cursor, socket, at, from, adapter, faults, spared, raced>>

ReadySaved(s) ==
    /\ greet[s].step = "storing"
    /\ file' = greet[s].saved
    /\ greet' = [greet EXCEPT ![s] = Idle]
    /\ UNCHANGED <<events, discord, cursor, session, socket, channels, at, from, adapter, faults,
                   spared, raced>>

\* An event: its sequence number is the session's from now on, then the session is saved.
Receive ==
    LET n == cursor + 1
        message == kind[n] = "message"
    IN  /\ socket = "open" /\ cursor < written
        /\ cursor' = n
        /\ session' = [session EXCEPT !.seq = n]
        /\ at' = [at EXCEPT ![n] = "saving"]
        /\ from' = [from EXCEPT ![n] = session.id]
        /\ LET told == News # {} \/ ~Greeted
           IN  /\ spared' = (spared /\ (message \/ ~told))
               /\ raced' = raced \cup (IF message THEN {m \in {n} : told}
                                       ELSE {m \in All : at[m] = "saving"})
        /\ UNCHANGED <<events, discord, file, socket, channels, greet, adapter, faults>>

\* Saves overlap and end in any order; only then is the event looked at.  A message of a
\* channel the bridge does not know, which is every channel after a restart that resumed, is
\* not forwarded.
Save(n) ==
    LET forwards == kind[n] = "message" /\ channels
    IN  /\ at[n] = "saving"
        /\ file' = [id |-> from[n], seq |-> n]
        /\ from' = [from EXCEPT ![n] = Undefined]
        /\ at' = [at EXCEPT ![n] = IF forwards THEN "sent" ELSE "idle"]
        /\ wire' = IF forwards THEN [wire EXCEPT ![n] = @ \cup {"claim"}] ELSE wire
        /\ channels' = IF kind[n] = "message" THEN channels ELSE kind[n] = "create"
        /\ UNCHANGED <<events, discord, cursor, session, socket, greet, seen, handled, replied,
                       faults, spared, raced>>

\* The adapter's answer.
Forwarded(n) ==
    /\ at[n] = "sent" /\ "claim" \notin wire[n]
    /\ at' = [at EXCEPT ![n] = "idle"]
    /\ UNCHANGED <<events, discord, cursor, session, file, socket, channels, greet, from, adapter,
                   faults, spared, raced>>

\* The session cannot be saved, or the request fails: the connection, if it is still this
\* event's, is closed, and resumed after the event.
ForwardFails(n) ==
    /\ at[n] \in {"saving", "sent"}
    /\ at' = [at EXCEPT ![n] = "idle"]
    /\ from' = [from EXCEPT ![n] = Undefined]
    /\ wire' \in {wire, [wire EXCEPT ![n] = @ \ {"claim"}]}
    /\ socket' \in {socket, "closed"}
    /\ Fault(FALSE)
    /\ UNCHANGED <<events, discord, cursor, session, file, channels, greet, seen, handled, replied,
                   raced>>

ReadyFails(s) ==
    /\ greet[s].step # "none"
    /\ greet' = [greet EXCEPT ![s] = Idle]
    /\ socket' \in {socket, "closed"}
    /\ Fault(FALSE)
    /\ UNCHANGED <<events, discord, cursor, session, file, channels, at, from, adapter, raced>>

\* A heartbeat was not acknowledged, Discord asked for it, or the network failed.
Disconnect ==
    /\ socket = "open"
    /\ socket' = "closed"
    /\ Fault(TRUE)
    /\ UNCHANGED <<events, discord, cursor, session, file, channels, handlers, adapter, raced>>

\* The process ends.  (A save that is cut short can leave a file that is not JSON, and the
\* bridge does not start again; that outcome is left out.)
Stop ==
    /\ socket # "down"
    /\ socket' = "down"
    /\ session' = Fresh
    /\ channels' = FALSE
    /\ at' = [n \in All |-> "idle"]
    /\ from' = [n \in All |-> Undefined]
    /\ greet' = [s \in 1 .. Sessions |-> Idle]
    /\ Fault(FALSE)
    /\ UNCHANGED <<events, discord, cursor, file, adapter, raced>>

-----------------------------------------------------------------------------
(***************************************************************************)
(* The adapter and the assistant.                                          *)
(***************************************************************************)

\* Mutant of Claim: the message id is not remembered.
ClaimUnremembered(n) ==
    /\ "claim" \in wire[n]
    /\ wire' = [wire EXCEPT ![n] = (@ \ {"claim"}) \cup (IF n \in seen THEN {} ELSE {"ask"})]
    /\ UNCHANGED <<events, discord, cursor, session, file, socket, channels, handlers, seen,
                   handled, replied, faults, spared, raced>>

\* The nonce is new with each request; the message id decides.
Claim(n) ==
    /\ "claim" \in wire[n]
    /\ seen' = seen \cup {n}
    /\ wire' = [wire EXCEPT ![n] = (@ \ {"claim"}) \cup (IF n \in seen THEN {} ELSE {"ask"})]
    /\ UNCHANGED <<events, discord, cursor, session, file, socket, channels, handlers, handled,
                   replied, faults, spared, raced>>

\* handleDiscordGateway: the message is sent under a key made of its id.
Ask(n) ==
    /\ "ask" \in wire[n]
    /\ handled' = [handled EXCEPT ![n] = @ + 1]
    /\ wire' = [wire EXCEPT ![n] = (@ \ {"ask"}) \cup {"reply"}]
    /\ UNCHANGED <<events, discord, cursor, session, file, socket, channels, handlers, seen,
                   replied, faults, spared, raced>>

Reply(n) ==
    /\ "reply" \in wire[n]
    /\ replied' = replied \cup {n}
    /\ wire' = [wire EXCEPT ![n] = @ \ {"reply"}]
    /\ UNCHANGED <<events, discord, cursor, session, file, socket, channels, handlers, seen,
                   handled, faults, spared, raced>>

\* The background work of waitUntil fails or is cut off.
CutOff(n) ==
    /\ {"ask", "reply"} \cap wire[n] # {}
    /\ wire' = [wire EXCEPT ![n] = @ \ {"ask", "reply"}]
    /\ Fault(FALSE)
    /\ UNCHANGED <<events, discord, cursor, session, file, socket, channels, handlers, seen,
                   handled, replied, raced>>

-----------------------------------------------------------------------------

Init ==
    /\ written = 0
    /\ kind = [n \in All |-> "message"]
    /\ exists \in BOOLEAN
    /\ current = Undefined
    /\ opened = 0
    /\ cursor = 0
    /\ session = Fresh
    /\ file = Fresh
    /\ socket = "down"
    /\ channels = FALSE
    /\ greet = [s \in 1 .. Sessions |-> Idle]
    /\ at = [n \in All |-> "idle"]
    /\ from = [n \in All |-> Undefined]
    /\ wire = [n \in All |-> {}]
    /\ seen = {}
    /\ handled = [n \in All |-> 0]
    /\ replied = {}
    /\ faults = 0
    /\ spared = TRUE
    /\ raced = {}

Bridge == Start \/ Resume \/ InvalidSession \/ Identify \/ Receive

Forward(n) == Save(n) \/ Forwarded(n) \/ Claim(n) \/ Ask(n) \/ Reply(n)

Greet(s) == Ready(s) \/ ReadySaved(s)

Next ==
    \/ \E k \in {"message", "create", "delete"} : Write(k)
    \/ EndSession \/ Bridge \/ Disconnect \/ Stop
    \/ \E n \in All : Forward(n) \/ ForwardFails(n) \/ CutOff(n)
    \/ \E s \in 1 .. Sessions : Greet(s) \/ ReadyFails(s)

Fairness ==
    /\ WF_vars(Bridge)
    /\ \A n \in All : WF_vars(Forward(n))
    /\ \A s \in 1 .. Sessions : WF_vars(Greet(s))

Spec == Init /\ [][Next]_vars /\ Fairness

-----------------------------------------------------------------------------
(***************************************************************************)
(* Properties.                                                             *)
(***************************************************************************)

\* The session in memory and the saved one name sessions there have been and events that
\* were received.
TypeOK ==
    /\ written \in 0 .. Events /\ cursor \in 0 .. written
    /\ kind \in [All -> {"message", "create", "delete"}] /\ exists \in BOOLEAN
    /\ current \in {Undefined} \cup 1 .. opened
    /\ {session, file} \subseteq Session
    /\ {session.seq, file.seq} \subseteq {Undefined} \cup 0 .. written
    /\ {session.id, file.id} \subseteq {Undefined} \cup 1 .. opened
    /\ socket \in {"down", "closed", "open"}
    /\ channels \in BOOLEAN
    /\ greet \in [1 .. Sessions -> Greeting]
    /\ at \in [All -> {"idle", "saving", "sent"}]
    /\ from \in [All -> {Undefined} \cup 1 .. Sessions]
    /\ wire \in [All -> SUBSET {"claim", "ask", "reply"}]
    /\ seen \subseteq {n \in 1 .. written : kind[n] = "message"}
    /\ handled \in [All -> Nat]
    /\ replied \subseteq seen
    /\ raced \subseteq All

\* Whatever Discord sends again after a crash or a reconnection, the agent is asked about
\* a message once.
AskedOnce == \A n \in All : handled[n] <= 1

\* Connections that drop and resume lose no message: unless a new session began, a process
\* stopped or a request failed, every message is handled in the end.  Excepted are the
\* messages received while READY, CHANNEL_CREATE or CHANNEL_DELETE is being saved, or these
\* beside each other: whichever save ends first is looked at first, and the message of a
\* channel the bridge does not know yet is dropped.
ReconnectsLoseNothing ==
    \A n \in All :
        (spared /\ n <= written /\ kind[n] = "message") ~> (n \in replied \cup raced \/ ~spared)

=============================================================================
