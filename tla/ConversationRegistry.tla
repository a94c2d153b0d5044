------------------------- MODULE ConversationRegistry -------------------------
(***************************************************************************)
(* Conversations, what the owner keeps in them, and the registry that      *)
(* lists them.  The assistant (apps/assistant-worker/src/index.ts) creates,*)
(* reads and deletes a conversation in two calls: one to the Durable Object*)
(* that holds it (apps/conversation-agent/src/index.ts), one to the row in *)
(* the control worker's conversation_registry, from which the storage in   *)
(* use is reckoned.  Requests interleave between the calls, each may      *)
(* be lost before or after its effect, and the assistant may die.          *)
(*                                                                         *)
(* The id of a conversation is the digest of the key it is created with,   *)
(* so a repeated creation is another request for the same conversation.    *)
(* Metering is OwnerOperation's: here it may refuse.                       *)
(***************************************************************************)
EXTENDS Naturals, FiniteSetsExt, SequencesExt

CONSTANTS
    Conversations,
    Creations, Reads, Deletions,   \* requests about a conversation
    Memories,                      \* requests that write or delete its memory
    Of,                            \* request |-> its conversation
    Keys, KeyOf,                   \* memory request |-> its idempotency key, with the prefix
    Values, ValueOf,               \* memory request |-> what it writes
    Nothing,                       \* no memory; the value of a request that deletes it
    NoRow,                         \* no row in the registry
    HardLimit,                     \* 4 GiB, in the units of a write
    ObjectLimit,                   \* 500 MiB
    Scenes                         \* bound: which requests come in one behaviour

OwnerRequests == Creations \cup Reads \cup Deletions \cup Memories

Row == [bytes : 0..ObjectLimit, deleted : BOOLEAN]

\* A request is of one kind.
RegistryConstants ==
    /\ Of \in [OwnerRequests -> Conversations]
    /\ Creations \cap Deletions = {}
    /\ Memories \cap (Creations \cup Deletions) = {}
    /\ NoRow \notin Row
    /\ KeyOf \in [Memories -> Keys]
    /\ ValueOf \in [Memories -> Values \cup {Nothing}]
    /\ Nothing \notin Values
    /\ HardLimit \in Nat
    /\ ObjectLimit \in Nat
    /\ Scenes \subseteq SUBSET OwnerRequests

VARIABLES
    object,     \* the Durable Object of each conversation
    registry,   \* conversation_registry
    at,         \* where each request's handler is
    seen,       \* the size each handler has read
    answer,     \* what each request was answered
    marked,     \* history: the deletions that found a row to mark
    order       \* history: the memory requests in the order in which they took effect

vars == <<object, registry, at, seen, answer, marked, order>>

Object ==
    [row : BOOLEAN,                    \* the table conversation has its row
     texts : Nat,                      \* first messages of the owner
     initialized : BOOLEAN,            \* the key of the creation is in idempotency
     stored : SUBSET Keys,             \* the other keys there
     memory : Values \cup {Nothing},   \* structured_memory
     size : 0..ObjectLimit,            \* databaseSize
     tables : BOOLEAN]                 \* the tables exist

Empty ==
    [row |-> FALSE, texts |-> 0, initialized |-> FALSE, stored |-> {}, memory |-> Nothing,
     size |-> 0, tables |-> TRUE]

\* After deleteAll the instance lives on without tables.
Torn == [Empty EXCEPT !.tables = FALSE]

-----------------------------------------------------------------------------

Goto(r, p) == at' = [at EXCEPT ![r] = p] /\ UNCHANGED answer

Reply(r, a) == at' = [at EXCEPT ![r] = "done"] /\ answer' = [answer EXCEPT ![r] = a]

Put(c, o) == object' = [object EXCEPT ![c] = o]

Listed(c) == registry[c] # NoRow /\ ~registry[c].deleted

\* SUM(estimated_storage_bytes) of the rows that are not deleted.
UsedBytes == MapThenSumSet(LAMBDA c : registry[c].bytes, {c \in Conversations : Listed(c)})

\* The assistant's question to the control worker; without an answer it fails.
StorageFull == UsedBytes >= HardLimit

\* A POST is answered 507 when the object is full.
Writable(o) == o.size < ObjectLimit

-----------------------------------------------------------------------------
(***************************************************************************)
(* POST /v1/conversations.                                                 *)
(***************************************************************************)

\* The status is asked for once; then the unit is reserved.
StorageStatus(p) ==
    /\ p \in Creations /\ at[p] = "start"
    /\ IF StorageFull THEN Reply(p, "failed") ELSE Goto(p, "initialize")
    /\ UNCHANGED <<object, registry, seen, marked, order>>

\* #initialize: a known key is replayed, else the row, the message and the key are written.
Created(o) ==
    IF o.initialized THEN o
    ELSE [o EXCEPT !.row = TRUE, !.texts = @ + 1, !.initialized = TRUE, !.size = @ + 1]

Initialize(p) ==
    LET o == object[Of[p]] IN
    /\ at[p] = "initialize"
    /\ IF o.tables /\ Writable(o) THEN Put(Of[p], Created(o)) /\ Goto(p, "metadata")
       ELSE UNCHANGED object /\ Reply(p, "failed")
    /\ UNCHANGED <<registry, seen, marked, order>>

\* #metadata: the size of a conversation there is.
Size(o) == IF o.tables /\ o.row THEN o.size ELSE 0

\* Asked for by creations and reads alike; any failure counts as 0 bytes.
Metadata(r) ==
    /\ at[r] = "metadata"
    /\ seen' = [seen EXCEPT ![r] = Size(object[Of[r]])] \/ UNCHANGED seen
    /\ Goto(r, "register")
    /\ UNCHANGED <<object, registry, marked, order>>

\* Mutant of Registered: the conflict clause takes the new row as it is.
RegisteredAnew(row, bytes) == [bytes |-> bytes, deleted |-> FALSE]

\* INSERT ... ON CONFLICT DO UPDATE: the larger estimate stays, and so does deleted_at.
Registered(row, bytes) ==
    IF row = NoRow THEN [bytes |-> bytes, deleted |-> FALSE]
    ELSE [row EXCEPT !.bytes = IF bytes > @ THEN bytes ELSE @]

\* The creation's settlement follows; of a read the outcome is ignored.
Register(r) ==
    /\ at[r] = "register"
    /\ registry' = [registry EXCEPT ![Of[r]] = Registered(@, seen[r])]
    /\ seen' = [seen EXCEPT ![r] = 0]
    /\ Reply(r, "ok") \/ Reply(r, "failed")
    /\ UNCHANGED <<object, marked, order>>

-----------------------------------------------------------------------------
(***************************************************************************)
(* GET and DELETE /v1/conversations/:conversationId.                       *)
(***************************************************************************)

\* #state: without a row 404, without tables an exception.
Readable(o) == o.tables /\ o.row

\* A conversation that is read is registered, if it was not.
ReadState(g) ==
    /\ g \in Reads /\ at[g] = "start"
    /\ IF Readable(object[Of[g]]) THEN Goto(g, "metadata")
       ELSE Reply(g, "failed")
    /\ UNCHANGED <<object, registry, seen, marked, order>>

\* #deleteConversation: without a row 404; where the tables are gone it throws, which
\* starts the object anew.
Erased(o) == IF ~o.tables THEN Empty ELSE IF o.row THEN Torn ELSE o

\* Whatever the object answers, also nothing, the handler goes on to the registry.
Erase(d) ==
    /\ d \in Deletions /\ at[d] = "start"
    /\ Put(Of[d], Erased(object[Of[d]]))
    /\ order' = [order EXCEPT ![Of[d]] = IF object[Of[d]].row THEN <<>> ELSE @]
    /\ Goto(d, "mark")
    /\ UNCHANGED <<registry, seen, marked>>

EraseUnreachable(d) ==
    /\ d \in Deletions /\ at[d] = "start"
    /\ Goto(d, "mark")
    /\ UNCHANGED <<object, registry, seen, marked, order>>

\* The UPDATE; that there is no row is no failure.
Mark(d) ==
    /\ at[d] = "mark"
    /\ IF registry[Of[d]] = NoRow THEN UNCHANGED <<registry, marked>>
       ELSE /\ registry' = [registry EXCEPT ![Of[d]].deleted = TRUE]
            /\ marked' = marked \cup {d}
    /\ Reply(d, "deleted") \/ Reply(d, "failed")
    /\ UNCHANGED <<object, seen, order>>

-----------------------------------------------------------------------------
(***************************************************************************)
(* POST /v1/memories and DELETE /v1/memories/:memoryKey.  The object does  *)
(* not ask whether it has a conversation.                                  *)
(***************************************************************************)

\* The row, or its end, with the key; the size is counted up to the limit.
Written(o, m) ==
    [o EXCEPT !.memory = ValueOf[m], !.stored = @ \cup {KeyOf[m]},
              !.size = IF @ < ObjectLimit THEN @ + 1 ELSE @]

\* History: a key takes effect for the first time.
Took(m) ==
    order' = [order EXCEPT ![Of[m]] =
                IF \E n \in ToSet(@) : KeyOf[n] = KeyOf[m] THEN @ ELSE Append(@, m)]

\* #replay: the stored response is answered again.
Replayed(o, m) == KeyOf[m] \in o.stored

\* Only a POST is refused by a full object; a memory that is not there cannot be deleted.
Refused(o, m) ==
    \/ ~o.tables
    \/ ValueOf[m] # Nothing /\ ~Writable(o)
    \/ ValueOf[m] = Nothing /\ o.memory = Nothing /\ ~Replayed(o, m)

\* #upsertMemory and #deleteMemory.  That the answer or the settlement after it fails
\* changes nothing here: the owner may repeat the request either way.
Memory(m) ==
    LET o == object[Of[m]] IN
    /\ m \in Memories /\ at[m] = "start"
    /\ IF Refused(o, m) THEN UNCHANGED <<object, order>> /\ Reply(m, "failed")
       ELSE /\ IF Replayed(o, m) THEN UNCHANGED <<object, order>>
               ELSE Put(Of[m], Written(o, m)) /\ Took(m)
            /\ Reply(m, "ok")
    /\ UNCHANGED <<registry, seen, marked>>

-----------------------------------------------------------------------------

\* The other writes, of messages and tasks, make the object grow.
Grow(c) ==
    /\ object[c].tables /\ object[c].row /\ Writable(object[c])
    /\ Put(c, [object[c] EXCEPT !.size = @ + 1])
    /\ UNCHANGED <<registry, at, seen, answer, marked, order>>

\* The object is evicted; the constructor makes the tables.
Restart(c) ==
    /\ ~object[c].tables
    /\ Put(c, Empty)
    /\ UNCHANGED <<registry, at, seen, answer, marked, order>>

\* The call a handler is at is refused, by the metering too, or is not reached, the answer
\* of the one before was lost, or the assistant dies.
Fail(r) ==
    /\ at[r] \notin {"start", "done"}
    /\ seen' = [seen EXCEPT ![r] = 0]
    /\ Reply(r, "failed")
    /\ UNCHANGED <<object, registry, marked, order>>

InitOf(scene) ==
    /\ object = [c \in Conversations |-> Empty]
    /\ registry = [c \in Conversations |-> NoRow]
    /\ at = [r \in OwnerRequests |-> IF r \in scene THEN "start" ELSE "done"]
    /\ seen = [r \in OwnerRequests |-> 0]
    /\ answer = [r \in OwnerRequests |-> "none"]
    /\ marked = {}
    /\ order = [c \in Conversations |-> <<>>]

Init == \E scene \in Scenes : InitOf(scene)

Next ==
    \/ \E r \in OwnerRequests :
          \/ StorageStatus(r) \/ Initialize(r) \/ Metadata(r) \/ Register(r) \/ ReadState(r)
          \/ Erase(r) \/ EraseUnreachable(r) \/ Mark(r) \/ Memory(r) \/ Fail(r)
    \/ \E c \in Conversations : Grow(c) \/ Restart(c)

Spec == Init /\ [][Next]_vars

-----------------------------------------------------------------------------
(***************************************************************************)
(* Properties.                                                             *)
(***************************************************************************)

\* Objects and rows are typed, and the first message of a conversation is stored once,
\* however often its creation is sent.
TypeOK ==
    /\ object \in [Conversations -> Object]
    /\ \A c \in Conversations : object[c].texts \in {0, 1}
    /\ registry \in [Conversations -> Row \cup {NoRow}]
    /\ at \in [OwnerRequests -> {"start", "initialize", "metadata", "register", "mark", "done"}]
    /\ seen \in [OwnerRequests -> 0..ObjectLimit]
    /\ answer \in [OwnerRequests -> {"none", "ok", "deleted", "failed"}]
    /\ marked \subseteq Deletions
    /\ order \in [Conversations -> Seq(Memories)]

\* A conversation whose row was marked is never listed again, nor counted: not by a read
\* or a creation that was under way and registers it later, nor by a repeated creation.
DeletedIsNotListed == \A d \in marked : ~Listed(Of[d])

\* A creation that was answered with success can be read and is listed, with one first
\* message, unless its deletion has begun.
CreatedIsListed ==
    \A p \in Creations :
        (answer[p] = "ok" /\ \A d \in Deletions : Of[d] = Of[p] => at[d] = "start")
        => Listed(Of[p]) /\ object[Of[p]].row /\ object[Of[p]].texts = 1

\* The memory is what the last new request has made it: a repetition that arrives late
\* neither takes a newer value back nor brings a deleted one back nor deletes a new one.
NewestIsKept ==
    \A c \in Conversations :
        object[c].memory = IF order[c] = <<>> THEN Nothing ELSE ValueOf[Last(order[c])]

=============================================================================
