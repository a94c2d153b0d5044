---------------------------- MODULE OAuthConnections ----------------------------
(***************************************************************************)
(* The owner's accounts at Google and GitHub, and the delegated sources:   *)
(* an authorization is started, its callback is consumed and exchanged for *)
(* a credential, reads refresh it, a disconnection deletes it              *)
(* (apps/google-gatekeeper, apps/github-gatekeeper,                        *)
(* apps/delegated-source-gatekeeper, packages/oauth-core), while the       *)
(* assistant caches the list of connections it offers tools for.  The      *)
(* three gatekeepers take the same steps but for what is told apart below  *)
(* by the variable gatekeeper.                                             *)
(*                                                                         *)
(* A credential is its refresh token; what the provider issued and has not *)
(* taken back is live.  Encryption and the signature of the state are      *)
(* taken as sound.                                                         *)
(***************************************************************************)
EXTENDS Naturals

CONSTANTS
    Gatekeepers,    \* which of google, github and delegated
    Transactions,   \* authorizations the owner starts
    Callbacks,      \* deliveries of a callback
    Reads,          \* reads through a connection
    Subjects,       \* accounts at the provider
    Connections,    \* connection ids
    Tokens,         \* bound of the tokens issued
    None            \* no transaction, connection, token or cached list

ConnectionConstants ==
    /\ Gatekeepers \subseteq {"google", "github", "delegated"}
    /\ Tokens \in Nat
    /\ None \notin Nat \cup Transactions \cup Connections \cup Subjects

VARIABLES
    gatekeeper, \* which gatekeeper this is
    tx,         \* transaction |-> none, open, expired or consumed
    conn,       \* connection |-> its subject, its status and its credential
    issued,     \* how many tokens the provider has issued
    live,       \* the tokens it honours
    call,       \* callback |-> where it is, and what it holds
    read,       \* read |-> where it is, its connection and the token it read
    leaving,    \* the disconnection under way: its step and its connection
    cache,      \* the assistant's list of active connections
    listed,     \* a list read and not yet cached
    exchanged,  \* history: transaction |-> how often its code was exchanged
    late        \* history: read |-> its connection was revoked when it began

vars == <<gatekeeper, tx, conn, issued, live, call, read, leaving, cache, listed, exchanged, late>>

assistant == <<cache, listed>>
provider == <<issued, live>>

NoConnection == [subject |-> None, status |-> "none", token |-> None]

NoCall == [step |-> "idle", tx |-> None, subject |-> None, token |-> None, found |-> None]

NoRead == [step |-> "idle", conn |-> None, token |-> None]

NotLeaving == [step |-> "idle", conn |-> None]

Active == {c \in Connections : conn[c].status = "active"}

-----------------------------------------------------------------------------
(***************************************************************************)
(* Authorization: start and callback.                                      *)
(***************************************************************************)

\* createAuthorizationStart: a state and a verifier of its own, good for ten minutes.
Begin(t) ==
    /\ tx[t] = "none"
    /\ tx' = [tx EXCEPT ![t] = "open"]
    /\ UNCHANGED <<gatekeeper, conn, provider, call, read, leaving, assistant, exchanged, late>>

Expire(t) ==
    /\ tx[t] = "open"
    /\ tx' = [tx EXCEPT ![t] = "expired"]
    /\ UNCHANGED <<gatekeeper, conn, provider, call, read, leaving, assistant, exchanged, late>>

\* The provider redirects to the callback with the state, perhaps more than once; the
\* transaction is read and its age verified.
Arrive(c, t, s) ==
    /\ call[c].step = "idle" /\ tx[t] # "none"
    /\ call' = [call EXCEPT ![c] =
                  [NoCall EXCEPT !.step = IF tx[t] = "open" THEN "consume" ELSE "done",
                                 !.tx = t, !.subject = s]]
    /\ UNCHANGED <<gatekeeper, tx, conn, provider, read, leaving, assistant, exchanged, late>>

\* It asks only that: a transaction that expires after it was read is consumed still.
Consume(c) ==
    /\ call[c].step = "consume"
    /\ tx' = [tx EXCEPT ![call[c].tx] = "consumed"]
    /\ call' = [call EXCEPT ![c].step = IF tx[call[c].tx] = "consumed" THEN "done" ELSE "exchange"]
    /\ UNCHANGED <<gatekeeper, conn, provider, read, leaving, assistant, exchanged, late>>

\* The provider issues a token.
Exchange(c) ==
    /\ call[c].step = "exchange" /\ issued < Tokens
    /\ issued' = issued + 1
    /\ live' = live \cup {issued + 1}
    /\ call' = [call EXCEPT ![c].step = "find", ![c].token = issued + 1]
    /\ exchanged' = [exchanged EXCEPT ![call[c].tx] = @ + 1]
    /\ UNCHANGED <<gatekeeper, tx, conn, read, leaving, assistant, late>>

\* The exchange is refused, or at Google brings no refresh token; the identity cannot be
\* read; the worker dies: the transaction is spent.
CallbackFails(c) ==
    /\ call[c].step \in {"exchange", "find", "store"}
    /\ call' = [call EXCEPT ![c].step = "done"]
    /\ UNCHANGED <<gatekeeper, tx, conn, provider, read, leaving, assistant, exchanged, late>>

\* A personal connection is found if it is active, a delegated one in any status.
Same(i, s) ==
    /\ conn[i].subject = s
    /\ gatekeeper # "delegated" => conn[i].status = "active"

Find(c) ==
    /\ call[c].step = "find"
    /\ \E i \in Connections \cup {None} :
         /\ IF i = None THEN \A j \in Connections : ~Same(j, call[c].subject)
                        ELSE Same(i, call[c].subject)
         /\ call' = [call EXCEPT ![c].step = "store", ![c].found = i]
    /\ UNCHANGED <<gatekeeper, tx, conn, provider, read, leaving, assistant, exchanged, late>>

\* The connection found: its credential is replaced, if it still has one; a delegated source
\* becomes active and gets its credential in any case.
Replace(c) ==
    LET i == call[c].found
    IN  /\ call[c].step = "store" /\ i # None
        /\ conn' = IF gatekeeper = "delegated"
                   THEN [conn EXCEPT ![i].status = "active", ![i].token = call[c].token]
                   ELSE IF conn[i].token = None THEN conn
                   ELSE [conn EXCEPT ![i].token = call[c].token]
        /\ call' = [call EXCEPT ![c].step = "done"]
        /\ cache' \in {cache, None}
        /\ UNCHANGED <<gatekeeper, tx, provider, read, leaving, listed, exchanged, late>>

\* A new one: the unique index refuses a second active connection of an account (of a
\* delegated account, a second one at all).
Insert(c) ==
    /\ call[c].step = "store" /\ call[c].found = None
    /\ call' = [call EXCEPT ![c].step = "done"]
    /\ IF \E j \in Connections : Same(j, call[c].subject)
       THEN UNCHANGED <<conn, cache>>
       ELSE /\ \E i \in Connections :
                 /\ conn[i].status = "none"
                 /\ conn' = [conn EXCEPT ![i] = [subject |-> call[c].subject, status |-> "active",
                                                 token |-> call[c].token]]
            /\ cache' \in {cache, None}
    /\ UNCHANGED <<gatekeeper, tx, provider, read, leaving, listed, exchanged, late>>

-----------------------------------------------------------------------------
(***************************************************************************)
(* Reads: the assistant's list, and activeCredential.                      *)
(***************************************************************************)

FetchList ==
    /\ listed = None /\ cache = None
    /\ listed' = Active
    /\ UNCHANGED <<gatekeeper, tx, conn, provider, call, read, leaving, cache, exchanged, late>>

\* The list is kept for a minute, whatever happened since it was read.
StoreList ==
    /\ listed # None
    /\ cache' = listed
    /\ listed' = None
    /\ UNCHANGED <<gatekeeper, tx, conn, provider, call, read, leaving, exchanged, late>>

ForgetList ==
    /\ cache # None
    /\ cache' = None
    /\ UNCHANGED <<gatekeeper, tx, conn, provider, call, read, leaving, listed, exchanged, late>>

\* A tool is offered for a connection of the list; the gatekeeper asks for an active one with
\* a credential.  The access token is good still, or is refreshed first.
Select(r, i) ==
    /\ read[r].step = "idle" /\ cache # None /\ i \in cache
    /\ late' = [late EXCEPT ![r] = conn[i].status = "revoked"]
    /\ \E expired \in BOOLEAN :
         read' = [read EXCEPT ![r] =
                    [step |-> IF conn[i].status # "active" \/ conn[i].token = None THEN "refused"
                              ELSE IF expired THEN "refresh" ELSE "ready",
                     conn |-> i, token |-> conn[i].token]]
    /\ UNCHANGED <<gatekeeper, tx, conn, provider, call, leaving, assistant, exchanged>>

\* GitHub's refresh tokens are good for one use; Google's stay.
Refresh(r) ==
    /\ read[r].step = "refresh" /\ read[r].token \in live
    /\ \/ /\ gatekeeper # "github"
          /\ read' = [read EXCEPT ![r].step = "save"]
          /\ UNCHANGED provider
       \/ /\ gatekeeper # "google" /\ issued < Tokens
          /\ issued' = issued + 1
          /\ live' = (live \ {read[r].token}) \cup {issued + 1}
          /\ read' = [read EXCEPT ![r].step = "save", ![r].token = issued + 1]
    /\ UNCHANGED <<gatekeeper, tx, conn, call, leaving, assistant, exchanged, late>>

\* Any other failure of the refresh, or of the worker.
RefreshFails(r) ==
    /\ read[r].step \in {"refresh", "save", "expire"}
    /\ read' = [read EXCEPT ![r].step = "refused"]
    /\ UNCHANGED <<gatekeeper, tx, conn, provider, call, leaving, assistant, exchanged, late>>

\* Mutant of SaveRefreshed: the row is inserted where it is gone.
SaveUpserts(r) ==
    /\ read[r].step = "save"
    /\ conn' = [conn EXCEPT ![read[r].conn].token = read[r].token]
    /\ read' = [read EXCEPT ![r].step = "ready"]
    /\ UNCHANGED <<gatekeeper, tx, provider, call, leaving, assistant, exchanged, late>>

\* The row is updated, if there is one by now, over whatever it holds.
SaveRefreshed(r) ==
    /\ read[r].step = "save"
    /\ conn' = IF conn[read[r].conn].token = None THEN conn
               ELSE [conn EXCEPT ![read[r].conn].token = read[r].token]
    /\ read' = [read EXCEPT ![r].step = "ready"]
    /\ UNCHANGED <<gatekeeper, tx, provider, call, leaving, assistant, exchanged, late>>

\* The provider answers 400 or 401.
Reconsent(r) ==
    /\ read[r].step = "refresh" /\ read[r].token \notin live
    /\ read' = [read EXCEPT ![r].step = "expire"]
    /\ UNCHANGED <<gatekeeper, tx, conn, provider, call, leaving, assistant, exchanged, late>>

\* An active connection expires; a delegated one does whatever its status is by now.
MarkExpired(r) ==
    LET i == read[r].conn
    IN  /\ read[r].step = "expire"
        /\ conn' = IF gatekeeper = "delegated" \/ conn[i].status = "active"
                   THEN [conn EXCEPT ![i].status = "expired"] ELSE conn
        /\ read' = [read EXCEPT ![r].step = "refused"]
        /\ UNCHANGED <<gatekeeper, tx, provider, call, leaving, assistant, exchanged, late>>

\* The provider is asked with the access token, and answers or not.
Answer(r) ==
    /\ \E outcome \in {"served", "refused"} : read' = [read EXCEPT ![r].step = outcome]
    /\ UNCHANGED <<gatekeeper, tx, conn, provider, call, leaving, assistant, exchanged, late>>

GoogleRead(r) == gatekeeper = "google" /\ read[r].step = "ready" /\ Answer(r)

GitHubRead(r) == gatekeeper = "github" /\ read[r].step = "ready" /\ Answer(r)

\* A resource outside the allowlist of the connection is refused as well; a search of a
\* repository falls back to its tree, its readme and its issues.
DelegatedRead(r) == gatekeeper = "delegated" /\ read[r].step = "ready" /\ Answer(r)

-----------------------------------------------------------------------------
(***************************************************************************)
(* Disconnection.                                                          *)
(***************************************************************************)

\* Google's gatekeeper reads the credential first, to revoke it.
Leave(i) ==
    /\ leaving.step = "idle" /\ conn[i].status # "none"
    /\ leaving' = [step |-> IF gatekeeper = "google" /\ conn[i].token # None
                            THEN "revoke" ELSE "delete", conn |-> i]
    /\ UNCHANGED <<gatekeeper, tx, conn, provider, call, read, assistant, exchanged, late>>

\* The provider takes the token back, or fails to: it is deleted here in either case.
RevokeRemotely ==
    /\ leaving.step = "revoke"
    /\ live' \in {live, live \ {conn[leaving.conn].token}}
    /\ leaving' = [leaving EXCEPT !.step = "delete"]
    /\ UNCHANGED <<gatekeeper, tx, conn, issued, call, read, assistant, exchanged, late>>

\* The cache of the isolate that handled it is cleared.
Delete ==
    /\ leaving.step = "delete"
    /\ conn' = [conn EXCEPT ![leaving.conn].status = "revoked", ![leaving.conn].token = None]
    /\ leaving' = NotLeaving
    /\ cache' \in {cache, None}
    /\ UNCHANGED <<gatekeeper, tx, provider, call, read, listed, exchanged, late>>

LeaveFails ==
    /\ leaving.step # "idle"
    /\ leaving' = NotLeaving
    /\ UNCHANGED <<gatekeeper, tx, conn, provider, call, read, assistant, exchanged, late>>

\* The owner withdraws the consent at the provider.
Withdraw(t) ==
    /\ t \in live
    /\ live' = live \ {t}
    /\ UNCHANGED <<gatekeeper, tx, conn, issued, call, read, leaving, assistant, exchanged, late>>

-----------------------------------------------------------------------------

Init ==
    /\ gatekeeper \in Gatekeepers
    /\ tx = [t \in Transactions |-> "none"]
    /\ conn = [i \in Connections |-> NoConnection]
    /\ issued = 0
    /\ live = {}
    /\ call = [c \in Callbacks |-> NoCall]
    /\ read = [r \in Reads |-> NoRead]
    /\ leaving = NotLeaving
    /\ cache = None
    /\ listed = None
    /\ exchanged = [t \in Transactions |-> 0]
    /\ late = [r \in Reads |-> FALSE]

Authorize ==
    \/ \E t \in Transactions : Begin(t) \/ Expire(t) \/ \E c \in Callbacks, s \in Subjects : Arrive(c, t, s)
    \/ \E c \in Callbacks :
         Consume(c) \/ Exchange(c) \/ CallbackFails(c) \/ Find(c) \/ Replace(c) \/ Insert(c)

Serve ==
    \E r \in Reads :
        \/ \E i \in Connections : Select(r, i)
        \/ Refresh(r) \/ RefreshFails(r) \/ SaveRefreshed(r) \/ Reconsent(r) \/ MarkExpired(r)
        \/ GoogleRead(r) \/ GitHubRead(r) \/ DelegatedRead(r)

Disconnect == (\E i \in Connections : Leave(i)) \/ RevokeRemotely \/ Delete \/ LeaveFails

Google == gatekeeper = "google" /\ (Authorize \/ Serve \/ Disconnect)
GitHub == gatekeeper = "github" /\ (Authorize \/ Serve \/ Disconnect)
DelegatedSource == gatekeeper = "delegated" /\ (Authorize \/ Serve \/ Disconnect)

Next ==
    \/ Google \/ GitHub \/ DelegatedSource
    \/ FetchList \/ StoreList \/ ForgetList
    \/ \E t \in 1 .. Tokens : Withdraw(t)

Spec == Init /\ [][Next]_vars

-----------------------------------------------------------------------------
(***************************************************************************)
(* Properties.                                                             *)
(***************************************************************************)

\* Also: an account has one active connection.
TypeOK ==
    /\ gatekeeper \in Gatekeepers
    /\ tx \in [Transactions -> {"none", "open", "expired", "consumed"}]
    /\ conn \in [Connections -> [subject : Subjects \cup {None}, token : {None} \cup 1 .. Tokens,
                                 status : {"none", "active", "expired", "revoked"}]]
    /\ \A i, j \in Active : conn[i].subject = conn[j].subject => i = j
    /\ issued \in 0 .. Tokens /\ live \subseteq 1 .. issued
    /\ \A c \in Callbacks : call[c].step \in {"idle", "consume", "exchange", "find", "store", "done"}
    /\ \A r \in Reads : read[r].step \in {"idle", "refresh", "save", "expire", "ready", "served", "refused"}
    /\ leaving.step \in {"idle", "revoke", "delete"}

\* However often its callback is delivered, a transaction's code is exchanged once.
ExchangedOnce == \A t \in Transactions : exchanged[t] <= 1

\* An active connection has a credential, and a disconnected account leaves none behind:
\* no callback and no refresh that was under way puts it back.
CredentialFollowsStatus ==
    \A i \in Connections :
        /\ conn[i].status = "active" => conn[i].token # None
        /\ conn[i].status = "revoked" => conn[i].token = None

\* A read that begins after the disconnection is refused, however old the assistant's list is.
RevokedIsNotRead == \A r \in Reads : late[r] => read[r].step \notin {"refresh", "save", "ready", "served"}

\* A personal connection that was revoked stays so.
RevokedStays ==
    [][\A i \in Connections :
         gatekeeper # "delegated" /\ conn[i].status = "revoked" => conn'[i].status = "revoked"]_vars

=============================================================================
