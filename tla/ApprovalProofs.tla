--------------------------- MODULE ApprovalProofs ---------------------------
(***************************************************************************)
(* Proofs about ApprovalFlow: the effect of an approval is made at most    *)
(* once and only after its positive decision was audited (the refinement   *)
(* of ApprovedWrite), and a recorded outcome is final and true.  Then      *)
(* about ApprovalHandlers: the properties of the components that need the  *)
(* owner's approval, each from an inductive invariant of that component,   *)
(* which a behaviour keeps when it is that component's turn.               *)
(***************************************************************************)
EXTENDS ApprovalHandlers, FiniteSetTheorems, TLAPS

-----------------------------------------------------------------------------
(***************************************************************************)
(* The inductive invariant.  A request has won when it made the decision   *)
(* of its approval: it is on its way since, or its lease has reached the   *)
(* gatekeeper.  One request wins an approval; only its path leads to the   *)
(* effect, and each stage of that path before the effect implies that the  *)
(* effect has not been made.                                               *)
(***************************************************************************)

\* The places a request passes through after a positive decision.
Granted == {"leased", "granting", "calling", "consumed", "answered"}

Won(r) ==
    \/ at[r] \in Granted \cup {"decided"}
    \/ r \in nonces
    \/ \E c \in Calls : c[1] = r /\ call[c] # "none"

OneWinner ==
    \A r, q \in Requests : Won(r) /\ Won(q) /\ Subject[r] = Subject[q] => r = q

WinnerDecided == \A r \in Requests : Won(r) => status[Subject[r]] = says[r]

\* The lease is used only by the handler it was issued to.
CallsOwned ==
    \A c \in Calls : call[c] # "none" => at[c[1]] \in {"calling", "answered", "done"}

NoncesOwned == \A r \in nonces : at[r] \in {"calling", "answered", "done"}

\* Whoever may make the effect has an audited approval.
GrantAudited ==
    \A r \in Requests :
        \/ at[r] \in Granted
        \/ r \in nonces
        \/ \E c \in Calls : c[1] = r /\ call[c] # "none"
        => says[r] = "approved" /\ <<Subject[r], "approved">> \in ledger

\* The stages before the effect.
UndecidedUnwritten ==
    \A a \in Approvals : status[a] # "approved" => written[a] = 0

WinnerUnwritten ==
    \A r \in Requests :
        at[r] \in {"decided", "leased", "granting", "consumed"} => written[Subject[r]] = 0

LeaseUnwritten ==
    \A r \in Requests :
        /\ r \notin nonces
        /\ at[r] = "calling" \/ \E c \in Calls : c[1] = r /\ call[c] = "arrived"
        => written[Subject[r]] = 0

CallUnwritten ==
    \A c \in Calls : call[c] \in {"claimed", "sent"} =>
        /\ written[Subject[c[1]]] = 0
        /\ c[1] \in nonces
        /\ \A d \in Calls : d[1] = c[1] /\ call[d] \in {"claimed", "sent"} => d = c

\* The row's outcome is open until the winner records it.
OutcomeOpen ==
    \A r \in Requests :
        /\ at[r] \in Granted \cup {"decided"}
        /\ says[r] = "approved"
        => exec[Subject[r]] = "pending"

\* What is learned and recorded as a success is one.
SuccessTrue ==
    /\ \A c \in Calls : call[c] \in {"applied", "ok"} => written[Subject[c[1]]] = 1
    /\ \A r \in Requests :
          at[r] = "answered" /\ got[r] = "succeeded" => written[Subject[r]] = 1
    /\ \A a \in Approvals : exec[a] = "succeeded" => written[a] = 1

Inv ==
    /\ TypeOK
    /\ OneWinner
    /\ WinnerDecided
    /\ CallsOwned
    /\ NoncesOwned
    /\ GrantAudited
    /\ UndecidedUnwritten
    /\ WinnerUnwritten
    /\ LeaseUnwritten
    /\ CallUnwritten
    /\ OutcomeOpen
    /\ SuccessTrue

\* A call is made for a request, and a request is about an approval.
LEMMA CallRange == \A c \in Calls : c[1] \in Requests /\ Subject[c[1]] \in Approvals
BY ApprovalConstants DEF Calls

LEMMA LedgerRange ==
    ASSUME TypeOK, NEW a \in Approvals, NEW e \in Events,
           ledger' \subseteq ledger \cup {<<a, e>>}
    PROVE  ledger' \subseteq Approvals \X Events
BY DEF TypeOK, Events

\* A request past an audited positive decision.
LEMMA GrantedFacts ==
    ASSUME Inv, NEW r \in Requests, at[r] \in Granted
    PROVE  status[Subject[r]] = "approved" /\ <<Subject[r], "approved">> \in ledger
<1>1. Won(r) /\ says[r] = "approved" /\ <<Subject[r], "approved">> \in ledger
  BY DEF Inv, Won, GrantAudited
<1>2. QED
  BY <1>1 DEF Inv, WinnerDecided

\* A call on its way to the provider.
LEMMA SentFacts ==
    ASSUME Inv, NEW c \in Calls, call[c] = "sent"
    PROVE  /\ written[Subject[c[1]]] = 0
           /\ status[Subject[c[1]]] = "approved"
           /\ <<Subject[c[1]], "approved">> \in ledger
<1>1. c[1] \in Requests
  BY CallRange
<1>2. Won(c[1])
  BY DEF Won
<1>3. says[c[1]] = "approved" /\ <<Subject[c[1]], "approved">> \in ledger
  BY <1>1 DEF Inv, GrantAudited
<1>4. QED
  BY <1>1, <1>2, <1>3 DEF Inv, WinnerDecided, CallUnwritten

-----------------------------------------------------------------------------
(***************************************************************************)
(* One lemma per action.  The parts of the invariant that speak only of    *)
(* variables the action leaves alone are dealt with in one step.           *)
(***************************************************************************)

LEMMA CreateInv ==
    ASSUME Inv, NEW a \in Approvals, NEW k \in Kinds, Create(a, k)
    PROVE  Inv'
<1> USE CallRange, ApprovalConstants DEF Inv, Create, MaybeAppended, Appended, row, handler,
        gatekeeper
<1>1. TypeOK'
  BY DEF TypeOK, Events, Decisions
<1>2. WinnerDecided'
  BY DEF WinnerDecided, Won, Granted, TypeOK, OneWinner, CallsOwned, NoncesOwned, Decisions
<1>3. GrantAudited'
  BY DEF GrantAudited, Granted, TypeOK
<1>4. UndecidedUnwritten'
  BY DEF UndecidedUnwritten, TypeOK
<1>5. OneWinner' /\ CallsOwned' /\ NoncesOwned' /\ WinnerUnwritten' /\ LeaseUnwritten' /\
     CallUnwritten' /\ OutcomeOpen' /\ SuccessTrue'
  BY DEF OneWinner, CallsOwned, NoncesOwned, WinnerUnwritten, LeaseUnwritten, CallUnwritten,
         OutcomeOpen, SuccessTrue, Won
<1>6. QED
  BY <1>1, <1>2, <1>3, <1>4, <1>5 DEF Inv

LEMMA ReconcileInv ==
    ASSUME Inv, NEW a \in Approvals, Reconcile(a)
    PROVE  Inv'
<1> USE CallRange, ApprovalConstants DEF Inv, Reconcile, Reconcilable, MaybeAppended,
        Appended, row, handler, gatekeeper
<1>1. TypeOK'
  BY DEF TypeOK, Outcomes, Events
<1>2. GrantAudited'
  BY DEF GrantAudited, Granted, TypeOK
<1>3. OutcomeOpen'
  BY DEF OutcomeOpen, Granted, TypeOK
<1>4. SuccessTrue'
  BY DEF SuccessTrue, TypeOK
<1>5. OneWinner' /\ WinnerDecided' /\ CallsOwned' /\ NoncesOwned' /\ UndecidedUnwritten' /\
     WinnerUnwritten' /\ LeaseUnwritten' /\ CallUnwritten'
  BY DEF OneWinner, WinnerDecided, CallsOwned, NoncesOwned, UndecidedUnwritten,
         WinnerUnwritten, LeaseUnwritten, CallUnwritten, Won
<1>6. QED
  BY <1>1, <1>2, <1>3, <1>4, <1>5 DEF Inv

LEMMA ReadInv ==
    ASSUME Inv, NEW r \in Requests, NEW d \in Decisions, Read(r, d)
    PROVE  Inv'
<1> USE CallRange, ApprovalConstants DEF Inv, Read, Goto, row, handler, gatekeeper
<1>1. TypeOK'
  BY DEF TypeOK, Places, Decisions
<1>2. OneWinner'
  BY DEF OneWinner, Won, Granted, TypeOK, CallsOwned, NoncesOwned, WinnerDecided, Decisions
<1>3. WinnerDecided'
  BY DEF WinnerDecided, Won, Granted, TypeOK, OneWinner, CallsOwned, NoncesOwned, Decisions
<1>4. CallsOwned'
  BY DEF CallsOwned, TypeOK
<1>5. NoncesOwned'
  BY DEF NoncesOwned, TypeOK
<1>6. GrantAudited'
  BY DEF GrantAudited, Granted, TypeOK, WinnerDecided, Won, CallsOwned, NoncesOwned,
         Decisions
<1>7. WinnerUnwritten'
  BY DEF WinnerUnwritten, TypeOK
<1>8. LeaseUnwritten'
  BY DEF LeaseUnwritten, TypeOK
<1>9. OutcomeOpen'
  BY DEF OutcomeOpen, Granted, TypeOK
<1>10. SuccessTrue'
  BY DEF SuccessTrue, TypeOK
<1>11. UndecidedUnwritten' /\ CallUnwritten'
  BY DEF UndecidedUnwritten, CallUnwritten
<1>12. QED
  BY <1>1, <1>2, <1>3, <1>4, <1>5, <1>6, <1>7, <1>8, <1>9, <1>10, <1>11 DEF Inv

LEMMA ReplayInv ==
    ASSUME Inv, NEW r \in Requests, Replay(r)
    PROVE  Inv'
<1> USE CallRange, ApprovalConstants DEF Inv, Replay, Goto, row, handler, gatekeeper
<1>1. TypeOK'
  BY DEF TypeOK, Places, Decisions
<1>2. OneWinner'
  BY DEF OneWinner, Won, Granted, TypeOK, CallsOwned, NoncesOwned, WinnerDecided, Decisions
<1>3. WinnerDecided'
  BY DEF WinnerDecided, Won, Granted, TypeOK, OneWinner, CallsOwned, NoncesOwned, Decisions
<1>4. CallsOwned'
  BY DEF CallsOwned, TypeOK
<1>5. NoncesOwned'
  BY DEF NoncesOwned, TypeOK
<1>6. GrantAudited'
  BY DEF GrantAudited, Granted, TypeOK, WinnerDecided, Won, CallsOwned, NoncesOwned,
         Decisions
<1>7. WinnerUnwritten'
  BY DEF WinnerUnwritten, TypeOK
<1>8. LeaseUnwritten'
  BY DEF LeaseUnwritten, TypeOK
<1>9. OutcomeOpen'
  BY DEF OutcomeOpen, Granted, TypeOK
<1>10. SuccessTrue'
  BY DEF SuccessTrue, TypeOK
<1>11. UndecidedUnwritten' /\ CallUnwritten'
  BY DEF UndecidedUnwritten, CallUnwritten
<1>12. QED
  BY <1>1, <1>2, <1>3, <1>4, <1>5, <1>6, <1>7, <1>8, <1>9, <1>10, <1>11 DEF Inv

LEMMA DecideInv ==
    ASSUME Inv, NEW r \in Requests, Decide(r)
    PROVE  Inv'
<1> USE CallRange, ApprovalConstants DEF Inv, Decide, Goto, Undecided, row, handler,
        gatekeeper
<1>1. TypeOK'
  BY DEF TypeOK, Places, Outcomes, Decisions
<1>2. OneWinner'
  BY DEF OneWinner, Won, Granted, TypeOK, CallsOwned, NoncesOwned, WinnerDecided, Decisions
<1>3. WinnerDecided'
  BY DEF WinnerDecided, Won, Granted, TypeOK, OneWinner, CallsOwned, NoncesOwned, Decisions
<1>4. CallsOwned'
  BY DEF CallsOwned, TypeOK
<1>5. NoncesOwned'
  BY DEF NoncesOwned, TypeOK
<1>6. GrantAudited'
  BY DEF GrantAudited, Granted, TypeOK
<1>7. UndecidedUnwritten'
  BY DEF UndecidedUnwritten, TypeOK
<1>8. WinnerUnwritten'
  BY DEF WinnerUnwritten, UndecidedUnwritten, TypeOK, OneWinner, Won, Granted, CallsOwned,
         NoncesOwned, Decisions
<1>9. LeaseUnwritten'
  BY DEF LeaseUnwritten, TypeOK
<1>10. OutcomeOpen'
  BY DEF OutcomeOpen, Granted, TypeOK
<1>11. SuccessTrue'
  BY DEF SuccessTrue, TypeOK
<1>12. CallUnwritten'
  BY DEF CallUnwritten
<1>13. QED
  BY <1>1, <1>2, <1>3, <1>4, <1>5, <1>6, <1>7, <1>8, <1>9, <1>10, <1>11, <1>12 DEF Inv

LEMMA AuditDecisionInv ==
    ASSUME Inv, NEW r \in Requests, AuditDecision(r)
    PROVE  Inv'
<1> USE CallRange, ApprovalConstants DEF Inv, AuditDecision, Goto, Appended, After, row,
        handler, gatekeeper
<1>a. ledger' \subseteq Approvals \X Events
  BY LedgerRange DEF TypeOK, Decisions, Events
<1>1. TypeOK'
  BY <1>a DEF TypeOK, Places, Events
<1>2. OneWinner'
  BY DEF OneWinner, Won, TypeOK
<1>3. WinnerDecided'
  BY DEF WinnerDecided, Won, TypeOK
<1>4. CallsOwned'
  BY DEF CallsOwned, TypeOK
<1>5. NoncesOwned'
  BY DEF NoncesOwned, TypeOK
<1>6. GrantAudited'
  BY DEF GrantAudited, Granted, TypeOK, WinnerDecided, Won, CallsOwned, NoncesOwned,
         Decisions
<1>7. WinnerUnwritten'
  BY DEF WinnerUnwritten, TypeOK
<1>8. LeaseUnwritten'
  BY DEF LeaseUnwritten, TypeOK
<1>9. OutcomeOpen'
  BY DEF OutcomeOpen, Granted, TypeOK
<1>10. SuccessTrue'
  BY DEF SuccessTrue, TypeOK
<1>11. UndecidedUnwritten' /\ CallUnwritten'
  BY DEF UndecidedUnwritten, CallUnwritten
<1>12. QED
  BY <1>1, <1>2, <1>3, <1>4, <1>5, <1>6, <1>7, <1>8, <1>9, <1>10, <1>11 DEF Inv

LEMMA GrantInv ==
    ASSUME Inv, NEW r \in Requests, Grant(r)
    PROVE  Inv'
<1> USE CallRange, ApprovalConstants DEF Inv, Grant, Goto, Write, row, handler, gatekeeper
<1>a. written[Subject[r]] = 0 /\ status[Subject[r]] = "approved"
  BY GrantedFacts DEF Granted, WinnerUnwritten
<1>b. written' = [written EXCEPT ![Subject[r]] = 1]
  BY <1>a, CallRange DEF TypeOK
<1>c. exec' \in [Approvals -> {"none", "pending"} \cup Outcomes]
      /\ \A a \in Approvals : exec'[a] # "none" <=> status[a] = "approved"
  BY <1>a DEF TypeOK, Outcomes
<1>1. TypeOK'
  BY <1>a, <1>b, <1>c DEF TypeOK, Places, Outcomes
<1>2. OneWinner'
  BY DEF OneWinner, Won, Granted, TypeOK, CallsOwned, NoncesOwned, WinnerDecided, Decisions
<1>3. WinnerDecided'
  BY DEF WinnerDecided, Won, Granted, TypeOK, OneWinner, CallsOwned, NoncesOwned, Decisions
<1>4. CallsOwned'
  BY DEF CallsOwned, TypeOK
<1>5. NoncesOwned'
  BY DEF NoncesOwned, TypeOK
<1>6. GrantAudited'
  BY DEF GrantAudited, Granted, TypeOK
<1>7. UndecidedUnwritten'
  BY <1>a, <1>b DEF UndecidedUnwritten, TypeOK
<1>8. WinnerUnwritten'
  BY <1>a, <1>b DEF WinnerUnwritten, UndecidedUnwritten, TypeOK, OneWinner, Won, Granted,
         CallsOwned, NoncesOwned, Decisions
<1>9. LeaseUnwritten'
  BY <1>a, <1>b DEF LeaseUnwritten, WinnerUnwritten, CallUnwritten, TypeOK, OneWinner, Won,
         Granted, CallsOwned, NoncesOwned, Replies
<1>10. CallUnwritten'
  BY <1>a, <1>b DEF CallUnwritten, LeaseUnwritten, WinnerUnwritten, TypeOK, OneWinner, Won,
         Granted, CallsOwned, NoncesOwned, Replies
<1>11. OutcomeOpen'
  BY DEF OutcomeOpen, TypeOK, OneWinner, Won, Granted, Decisions, WinnerDecided
<1>12. SuccessTrue'
  BY <1>a, <1>b DEF SuccessTrue, TypeOK
<1>13. QED
  BY <1>1, <1>2, <1>3, <1>4, <1>5, <1>6, <1>7, <1>8, <1>9, <1>10, <1>11, <1>12 DEF Inv

LEMMA ExecuteInv ==
    ASSUME Inv, NEW r \in Requests, Execute(r)
    PROVE  Inv'
<1> USE CallRange, ApprovalConstants DEF Inv, Execute, Goto, Stage, row, handler, gatekeeper
<1>1. TypeOK'
  BY DEF TypeOK, Places, Stages, Replies
<1>2. OneWinner'
  BY DEF OneWinner, Won, Granted, TypeOK, CallsOwned, NoncesOwned, WinnerDecided, Decisions
<1>3. WinnerDecided'
  BY DEF WinnerDecided, Won, Granted, TypeOK, OneWinner, CallsOwned, NoncesOwned, Decisions
<1>4. CallsOwned'
  BY DEF CallsOwned, TypeOK
<1>5. NoncesOwned'
  BY DEF NoncesOwned, TypeOK
<1>6. GrantAudited'
  BY DEF GrantAudited, Granted, TypeOK
<1>7. WinnerUnwritten'
  BY DEF WinnerUnwritten, TypeOK
<1>8. LeaseUnwritten'
  BY DEF LeaseUnwritten, WinnerUnwritten, CallUnwritten, TypeOK, OneWinner, Won, Granted,
         CallsOwned, NoncesOwned, Replies
<1>9. CallUnwritten'
  BY DEF CallUnwritten, TypeOK
<1>10. OutcomeOpen'
  BY DEF OutcomeOpen, Granted, TypeOK
<1>11. SuccessTrue'
  BY DEF SuccessTrue, TypeOK
<1>12. UndecidedUnwritten'
  BY DEF UndecidedUnwritten
<1>13. QED
  BY <1>1, <1>2, <1>3, <1>4, <1>5, <1>6, <1>7, <1>8, <1>9, <1>10, <1>11, <1>12 DEF Inv

LEMMA ReceiveInv ==
    ASSUME Inv, NEW r \in Requests, Receive(r)
    PROVE  Inv'
<1> USE CallRange, ApprovalConstants DEF Inv, Receive, Learn, Goto, OutcomeOf, Replies, row,
        handler, gatekeeper
<1>a. got'[r] = "succeeded" => call[<<r, 1>>] = "ok"
  BY DEF TypeOK
<1>b. <<r, 1>> \in Calls
  BY ApprovalConstants DEF Calls
<1>1. TypeOK'
  BY DEF TypeOK, Places, Outcomes
<1>2. OneWinner'
  BY DEF OneWinner, Won, Granted, TypeOK, CallsOwned, NoncesOwned, WinnerDecided, Decisions
<1>3. WinnerDecided'
  BY DEF WinnerDecided, Won, Granted, TypeOK, OneWinner, CallsOwned, NoncesOwned, Decisions
<1>4. CallsOwned'
  BY DEF CallsOwned, TypeOK
<1>5. NoncesOwned'
  BY DEF NoncesOwned, TypeOK
<1>6. GrantAudited'
  BY DEF GrantAudited, Granted, TypeOK
<1>7. WinnerUnwritten'
  BY DEF WinnerUnwritten, TypeOK
<1>8. LeaseUnwritten'
  BY DEF LeaseUnwritten, TypeOK
<1>9. OutcomeOpen'
  BY DEF OutcomeOpen, Granted, TypeOK
<1>10. SuccessTrue'
  BY <1>a, <1>b DEF SuccessTrue, TypeOK
<1>11. UndecidedUnwritten' /\ CallUnwritten'
  BY DEF UndecidedUnwritten, CallUnwritten
<1>12. QED
  BY <1>1, <1>2, <1>3, <1>4, <1>5, <1>6, <1>7, <1>8, <1>9, <1>10, <1>11 DEF Inv

LEMMA TransferStepInv ==
    ASSUME Inv, NEW r \in Requests, Transfer(r)
    PROVE  Inv'
<1> USE CallRange, ApprovalConstants DEF Inv, Transfer, Learn, Goto, Write, row, handler,
        gatekeeper
<1>a. written[Subject[r]] = 0 /\ status[Subject[r]] = "approved"
  BY GrantedFacts DEF Granted, WinnerUnwritten
<1>b. written' = [written EXCEPT ![Subject[r]] = 1]
  BY <1>a, CallRange DEF TypeOK
<1>1. TypeOK'
  BY <1>a, <1>b DEF TypeOK, Places, Outcomes
<1>2. OneWinner'
  BY DEF OneWinner, Won, Granted, TypeOK, CallsOwned, NoncesOwned, WinnerDecided, Decisions
<1>3. WinnerDecided'
  BY DEF WinnerDecided, Won, Granted, TypeOK, OneWinner, CallsOwned, NoncesOwned, Decisions
<1>4. CallsOwned'
  BY DEF CallsOwned, TypeOK
<1>5. NoncesOwned'
  BY DEF NoncesOwned, TypeOK
<1>6. GrantAudited'
  BY DEF GrantAudited, Granted, TypeOK
<1>7. UndecidedUnwritten'
  BY <1>a, <1>b DEF UndecidedUnwritten, TypeOK
<1>8. WinnerUnwritten'
  BY <1>a, <1>b DEF WinnerUnwritten, UndecidedUnwritten, TypeOK, OneWinner, Won, Granted,
         CallsOwned, NoncesOwned, Decisions
<1>9. LeaseUnwritten'
  BY <1>a, <1>b DEF LeaseUnwritten, WinnerUnwritten, CallUnwritten, TypeOK, OneWinner, Won,
         Granted, CallsOwned, NoncesOwned, Replies
<1>10. CallUnwritten'
  BY <1>a, <1>b DEF CallUnwritten, LeaseUnwritten, WinnerUnwritten, TypeOK, OneWinner, Won,
         Granted, CallsOwned, NoncesOwned, Replies
<1>11. OutcomeOpen'
  BY DEF OutcomeOpen, Granted, TypeOK
<1>12. SuccessTrue'
  BY <1>a, <1>b DEF SuccessTrue, TypeOK
<1>13. QED
  BY <1>1, <1>2, <1>3, <1>4, <1>5, <1>6, <1>7, <1>8, <1>9, <1>10, <1>11, <1>12 DEF Inv

LEMMA RecordOutcomeInv ==
    ASSUME Inv, NEW r \in Requests, RecordOutcome(r)
    PROVE  Inv'
<1> USE CallRange, ApprovalConstants DEF Inv, RecordOutcome, Goto, MaybeAppended, Appended,
        row, handler, gatekeeper
<1>a. ledger' \subseteq Approvals \X Events
  BY LedgerRange DEF TypeOK, Outcomes, Events
<1>b. exec' = exec
      \/ (status[Subject[r]] = "approved" /\ exec' = [exec EXCEPT ![Subject[r]] = got[r]])
  OBVIOUS
<1>c. \A q \in Requests : Subject[q] = Subject[r] /\ at[q] \in Granted \cup {"decided"} => q = r
  BY DEF OneWinner, Won, Granted
<1>1. TypeOK'
  BY <1>a, <1>b DEF TypeOK, Places, Outcomes, Events
<1>2. OneWinner'
  BY DEF OneWinner, Won, Granted, TypeOK, CallsOwned, NoncesOwned, WinnerDecided, Decisions
<1>3. WinnerDecided'
  BY DEF WinnerDecided, Won, Granted, TypeOK, OneWinner, CallsOwned, NoncesOwned, Decisions
<1>4. CallsOwned'
  BY DEF CallsOwned, TypeOK
<1>5. NoncesOwned'
  BY DEF NoncesOwned, TypeOK
<1>6. GrantAudited'
  BY DEF GrantAudited, Granted, TypeOK
<1>7. WinnerUnwritten'
  BY DEF WinnerUnwritten, TypeOK
<1>8. LeaseUnwritten'
  BY DEF LeaseUnwritten, TypeOK
<1>9. OutcomeOpen'
  <2> SUFFICES ASSUME NEW q \in Requests, at'[q] \in Granted \cup {"decided"},
                      says[q] = "approved"
               PROVE  exec'[Subject[q]] = "pending"
    BY DEF OutcomeOpen
  <2>1. q # r /\ at[q] \in Granted \cup {"decided"}
    BY DEF TypeOK, Granted
  <2>2. exec[Subject[q]] = "pending" /\ Subject[q] # Subject[r]
    BY <1>c, <2>1 DEF OutcomeOpen
  <2>3. QED
    BY <1>b, <2>2 DEF TypeOK
<1>10. SuccessTrue'
  BY <1>b DEF SuccessTrue, TypeOK
<1>11. UndecidedUnwritten' /\ CallUnwritten'
  BY DEF UndecidedUnwritten, CallUnwritten
<1>12. QED
  BY <1>1, <1>2, <1>3, <1>4, <1>5, <1>6, <1>7, <1>8, <1>9, <1>10, <1>11 DEF Inv

LEMMA RedeliverInv ==
    ASSUME Inv, NEW c \in Calls, Redeliver(c)
    PROVE  Inv'
<1> USE CallRange, ApprovalConstants DEF Inv, Redeliver, Stage, row, handler, gatekeeper
<1>1. TypeOK'
  BY DEF TypeOK, Stages, Replies
<1>2. OneWinner'
  BY DEF OneWinner, Won, Granted, TypeOK, CallsOwned, NoncesOwned, WinnerDecided, Decisions
<1>3. WinnerDecided'
  BY DEF WinnerDecided, Won, Granted, TypeOK, OneWinner, CallsOwned, NoncesOwned, Decisions
<1>4. CallsOwned'
  BY DEF CallsOwned, TypeOK
<1>5. GrantAudited'
  BY DEF GrantAudited, Granted, TypeOK
<1>6. LeaseUnwritten'
  BY DEF LeaseUnwritten, TypeOK
<1>7. CallUnwritten'
  BY DEF CallUnwritten, TypeOK
<1>8. SuccessTrue'
  BY DEF SuccessTrue, TypeOK
<1>9. NoncesOwned' /\ UndecidedUnwritten' /\ WinnerUnwritten' /\ OutcomeOpen'
  BY DEF NoncesOwned, UndecidedUnwritten, WinnerUnwritten, OutcomeOpen
<1>10. QED
  BY <1>1, <1>2, <1>3, <1>4, <1>5, <1>6, <1>7, <1>8, <1>9 DEF Inv

LEMMA ClaimInv ==
    ASSUME Inv, NEW c \in Calls, Claim(c)
    PROVE  Inv'
<1> USE CallRange, ApprovalConstants DEF Inv, Claim, Stage, FreshNonce, row, handler,
        gatekeeper
<1>1. TypeOK'
  BY DEF TypeOK, Stages, Replies
<1>2. OneWinner'
  BY DEF OneWinner, Won, TypeOK
<1>3. WinnerDecided'
  BY DEF WinnerDecided, Won, TypeOK
<1>4. CallsOwned'
  BY DEF CallsOwned, TypeOK
<1>5. NoncesOwned'
  BY DEF NoncesOwned, CallsOwned, TypeOK, Granted
<1>6. GrantAudited'
  BY DEF GrantAudited, Granted, TypeOK
<1>7. LeaseUnwritten'
  BY DEF LeaseUnwritten, TypeOK
<1>8. CallUnwritten'
  BY DEF CallUnwritten, LeaseUnwritten, WinnerUnwritten, TypeOK, OneWinner, Won, Granted,
         CallsOwned, NoncesOwned, Replies
<1>9. SuccessTrue'
  BY DEF SuccessTrue, TypeOK
<1>10. UndecidedUnwritten' /\ WinnerUnwritten' /\ OutcomeOpen'
  BY DEF UndecidedUnwritten, WinnerUnwritten, OutcomeOpen
<1>11. QED
  BY <1>1, <1>2, <1>3, <1>4, <1>5, <1>6, <1>7, <1>8, <1>9, <1>10 DEF Inv

LEMMA ApplyInv ==
    ASSUME Inv, NEW c \in Calls, Apply(c)
    PROVE  Inv'
<1> USE CallRange, ApprovalConstants DEF Inv, Apply, Stage, Write, row, handler, gatekeeper
<1>a. written[Subject[c[1]]] = 0 /\ status[Subject[c[1]]] = "approved"
  BY SentFacts
<1>b. written' = [written EXCEPT ![Subject[c[1]]] = 1]
  BY <1>a, CallRange DEF TypeOK
<1>1. TypeOK'
  BY <1>a, <1>b DEF TypeOK, Stages, Replies
<1>2. OneWinner'
  BY DEF OneWinner, Won, TypeOK
<1>3. WinnerDecided'
  BY DEF WinnerDecided, Won, TypeOK
<1>4. CallsOwned'
  BY DEF CallsOwned, TypeOK
<1>5. GrantAudited'
  BY DEF GrantAudited, Granted, TypeOK
<1>6. UndecidedUnwritten'
  BY <1>a, <1>b DEF UndecidedUnwritten, TypeOK
<1>7. WinnerUnwritten'
  BY <1>a, <1>b DEF WinnerUnwritten, UndecidedUnwritten, TypeOK, OneWinner, Won, Granted,
         CallsOwned, NoncesOwned, Decisions
<1>8. LeaseUnwritten'
  BY <1>a, <1>b DEF LeaseUnwritten, WinnerUnwritten, CallUnwritten, TypeOK, OneWinner, Won,
         Granted, CallsOwned, NoncesOwned, Replies
<1>9. CallUnwritten'
  BY <1>a, <1>b DEF CallUnwritten, LeaseUnwritten, WinnerUnwritten, TypeOK, OneWinner, Won,
         Granted, CallsOwned, NoncesOwned, Replies
<1>10. SuccessTrue'
  BY <1>a, <1>b DEF SuccessTrue, TypeOK
<1>11. NoncesOwned' /\ OutcomeOpen'
  BY DEF NoncesOwned, OutcomeOpen
<1>12. QED
  BY <1>1, <1>2, <1>3, <1>4, <1>5, <1>6, <1>7, <1>8, <1>9, <1>10, <1>11 DEF Inv

LEMMA TickInv ==
    ASSUME Inv, Tick
    PROVE  Inv'
<1> USE CallRange, ApprovalConstants DEF Inv, Tick, row, handler, gatekeeper
<1>1. TypeOK'
  BY DEF TypeOK
<1>2. OneWinner' /\ WinnerDecided' /\ CallsOwned' /\ NoncesOwned' /\ GrantAudited' /\
     UndecidedUnwritten' /\ WinnerUnwritten' /\ LeaseUnwritten' /\ CallUnwritten' /\
     OutcomeOpen' /\ SuccessTrue'
  BY DEF OneWinner, WinnerDecided, CallsOwned, NoncesOwned, GrantAudited,
         UndecidedUnwritten, WinnerUnwritten, LeaseUnwritten, CallUnwritten, OutcomeOpen,
         SuccessTrue, Won
<1>3. QED
  BY <1>1, <1>2 DEF Inv

LEMMA UnheardInv ==
    ASSUME Inv, NEW r \in Requests, AuditUnavailable(r) \/ DropResult(r) \/ CallLost(r) \/ Consume(r)
           \/ FallBack(r) \/ Abandon(r)
    PROVE  Inv'
<1> USE CallRange, ApprovalConstants DEF Inv, AuditUnavailable, DropResult, CallLost,
        Consume, FallBack, Abandon, Learn, Goto, row, handler, gatekeeper
<1>1. TypeOK'
  BY DEF TypeOK, Places, Outcomes
<1>2. OneWinner'
  BY DEF OneWinner, Won, Granted, TypeOK, CallsOwned, NoncesOwned, WinnerDecided, Decisions
<1>3. WinnerDecided'
  BY DEF WinnerDecided, Won, Granted, TypeOK, OneWinner, CallsOwned, NoncesOwned, Decisions
<1>4. CallsOwned'
  BY DEF CallsOwned, TypeOK
<1>5. NoncesOwned'
  BY DEF NoncesOwned, TypeOK
<1>6. GrantAudited'
  BY DEF GrantAudited, Granted, TypeOK
<1>7. WinnerUnwritten'
  BY DEF WinnerUnwritten, TypeOK
<1>8. LeaseUnwritten'
  BY DEF LeaseUnwritten, TypeOK
<1>9. OutcomeOpen'
  BY DEF OutcomeOpen, Granted, TypeOK
<1>10. SuccessTrue'
  BY DEF SuccessTrue, TypeOK
<1>11. UndecidedUnwritten' /\ CallUnwritten'
  BY DEF UndecidedUnwritten, CallUnwritten
<1>12. QED
  BY <1>1, <1>2, <1>3, <1>4, <1>5, <1>6, <1>7, <1>8, <1>9, <1>10, <1>11 DEF Inv

LEMMA ProgressInv ==
    ASSUME Inv, NEW c \in Calls, Throw(c) \/ Deny(c) \/ Send(c) \/ Refuse(c) \/ Succeed(c) \/ LoseReply(c)
    PROVE  Inv'
<1> USE CallRange, ApprovalConstants DEF Inv, Throw, Deny, Send, Refuse, Succeed, LoseReply,
        Stage, row, handler, gatekeeper
<1>1. TypeOK'
  BY DEF TypeOK, Stages, Replies
<1>2. OneWinner'
  BY DEF OneWinner, Won, TypeOK
<1>3. WinnerDecided'
  BY DEF WinnerDecided, Won, TypeOK
<1>4. CallsOwned'
  BY DEF CallsOwned, TypeOK
<1>5. GrantAudited'
  BY DEF GrantAudited, Granted, TypeOK
<1>6. LeaseUnwritten'
  BY DEF LeaseUnwritten, TypeOK
<1>7. CallUnwritten'
  BY DEF CallUnwritten, TypeOK
<1>8. SuccessTrue'
  BY DEF SuccessTrue, TypeOK
<1>9. NoncesOwned' /\ UndecidedUnwritten' /\ WinnerUnwritten' /\ OutcomeOpen'
  BY DEF NoncesOwned, UndecidedUnwritten, WinnerUnwritten, OutcomeOpen
<1>10. QED
  BY <1>1, <1>2, <1>3, <1>4, <1>5, <1>6, <1>7, <1>8, <1>9 DEF Inv

LEMMA InitInv == Init => Inv
<1> SUFFICES ASSUME Init PROVE Inv
  OBVIOUS
<1> USE ApprovalConstants DEF Init
<1>1. TypeOK
  BY DEF TypeOK, Events, Decisions, Outcomes, Places, Stages, Replies
<1>2. \A r \in Requests : ~Won(r)
  BY DEF Won, Granted, Calls
<1>3. OneWinner /\ WinnerDecided
  BY <1>2 DEF OneWinner, WinnerDecided
<1>4. CallsOwned /\ NoncesOwned /\ CallUnwritten
  BY DEF CallsOwned, NoncesOwned, CallUnwritten
<1>5. GrantAudited /\ UndecidedUnwritten /\ WinnerUnwritten /\ LeaseUnwritten /\ OutcomeOpen
  BY DEF GrantAudited, UndecidedUnwritten, WinnerUnwritten, LeaseUnwritten, OutcomeOpen, Granted
<1>6. SuccessTrue
  BY CallRange DEF SuccessTrue
<1>7. QED
  BY <1>1, <1>3, <1>4, <1>5, <1>6 DEF Inv

LEMMA StutterInv == Inv /\ UNCHANGED vars => Inv'
<1> SUFFICES ASSUME Inv, UNCHANGED vars PROVE Inv'
  OBVIOUS
<1> USE DEF vars, row, handler, gatekeeper, Inv
<1>1. TypeOK'
  BY DEF TypeOK
<1>2. OneWinner' /\ WinnerDecided'
  BY DEF OneWinner, WinnerDecided, Won
<1>3. CallsOwned' /\ NoncesOwned' /\ CallUnwritten'
  BY DEF CallsOwned, NoncesOwned, CallUnwritten
<1>4. GrantAudited' /\ UndecidedUnwritten' /\ WinnerUnwritten' /\ LeaseUnwritten' /\ OutcomeOpen'
  BY DEF GrantAudited, UndecidedUnwritten, WinnerUnwritten, LeaseUnwritten, OutcomeOpen
<1>5. SuccessTrue'
  BY DEF SuccessTrue
<1>6. QED
  BY <1>1, <1>2, <1>3, <1>4, <1>5

\* Inv is inductive.
THEOREM Invariance == Spec => []Inv
<1>1. Inv /\ [Next]_vars => Inv'
  <2> SUFFICES ASSUME Inv, [Next]_vars PROVE Inv'
    OBVIOUS
  <2>1. CASE \/ \E a \in Approvals, k \in Kinds : Create(a, k)
             \/ \E a \in Approvals : Reconcile(a)
    BY <2>1, CreateInv, ReconcileInv
  <2>2. ASSUME NEW r \in Requests, DecisionStep(r) PROVE Inv'
    BY <2>2, ReadInv, ReplayInv, DecideInv, AuditDecisionInv, UnheardInv, GrantInv
       DEF DecisionStep
  <2>3. ASSUME NEW r \in Requests, AssistantStep(r) PROVE Inv'
    BY <2>3, ExecuteInv, ReceiveInv, UnheardInv, TransferStepInv, RecordOutcomeInv
       DEF AssistantStep
  <2>4. ASSUME NEW c \in Calls, GatekeeperStep(c) PROVE Inv'
    BY <2>4, RedeliverInv, ClaimInv, ApplyInv, ProgressInv DEF GatekeeperStep
  <2>5. CASE Tick
    BY <2>5, TickInv
  <2>6. CASE UNCHANGED vars
    BY <2>6, StutterInv
  <2>7. QED
    BY <2>1, <2>2, <2>3, <2>4, <2>5, <2>6 DEF Next
<1>2. QED
  BY <1>1, InitInv, PTL DEF Spec

-----------------------------------------------------------------------------

\* Types, and every effect at most once, for any number of approvals, of competing
\* decisions and of deliveries of a gatekeeper call (approvals, execution_nonces).
THEOREM TypeCorrect == Spec => []TypeOK
<1>1. Inv => TypeOK
  BY DEF Inv
<1>2. QED
  BY <1>1, Invariance, PTL

\* A recorded success is one: what recordApprovalExecution and the owner's reconciliation
\* store agrees with what the provider did.
THEOREM SuccessRecorded == Spec => []SucceededMeansWritten
<1>1. Inv => SucceededMeansWritten
  BY DEF Inv, SuccessTrue, SucceededMeansWritten
<1>2. QED
  BY <1>1, Invariance, PTL

-----------------------------------------------------------------------------
(***************************************************************************)
(* The refinement.  A step makes the effect (EffectWrites), appends the    *)
(* positive decision, decides, asks, or is not seen.                       *)
(***************************************************************************)

Logged == {a \in Approvals : <<a, "approved">> \in ledger}

Unseen == UNCHANGED <<status, Logged, written>>

LEMMA LoggedKept ==
    ASSUME NEW a, NEW e, e # "approved", ledger' \subseteq ledger \cup {<<a, e>>},
           ledger \subseteq ledger'
    PROVE  Logged' = Logged
BY DEF Logged

LEMMA EffectWrites ==
    ASSUME Inv, NEW a \in Approvals, status[a] = "approved", <<a, "approved">> \in ledger,
           written[a] = 0, Write(a), UNCHANGED <<status, ledger>>
    PROVE  Abstract!Next
<1>1. Abstract!Write(a)
  BY DEF Abstract!Write, Write, Inv, TypeOK
<1>2. QED
  BY <1>1 DEF Abstract!Next

LEMMA CreateRefines ==
    ASSUME Inv, NEW a \in Approvals, NEW k \in Kinds, Create(a, k)
    PROVE  Abstract!Next
<1>1. Logged' = Logged
  BY LoggedKept DEF Create, MaybeAppended, Appended
<1>2. Abstract!Ask(a)
  BY <1>1 DEF Create, Abstract!Ask, Logged
<1>3. QED
  BY <1>2 DEF Abstract!Next

LEMMA ReconcileRefines ==
    ASSUME Inv, NEW a \in Approvals, Reconcile(a)
    PROVE  Unseen
<1>1. Logged' = Logged
  BY LoggedKept DEF Reconcile, MaybeAppended, Appended
<1>2. QED
  BY <1>1 DEF Reconcile, Unseen

LEMMA DecisionRefines ==
    ASSUME Inv, NEW r \in Requests, DecisionStep(r)
    PROVE  Abstract!Next \/ Unseen
<1> DEFINE a == Subject[r]
<1>1. a \in Approvals /\ says[r] \in Decisions
  BY ApprovalConstants DEF Inv, TypeOK
<1>2. CASE Decide(r)
  <2>1. CASE Undecided(a)
    <3>1. Abstract!Decide(a)
      BY <1>1, <1>2, <2>1 DEF Decide, Undecided, Abstract!Decide, Decisions
    <3>2. QED
      BY <1>1, <3>1 DEF Abstract!Next
  <2>2. CASE ~Undecided(a)
    BY <1>2, <2>2 DEF Decide, Unseen, Logged
  <2>3. QED
    BY <2>1, <2>2
<1>3. CASE AuditDecision(r)
  <2>1. status[a] = says[r]
    BY <1>3 DEF AuditDecision, Inv, WinnerDecided, Won
  <2>2. ledger' = ledger \cup {<<a, says[r]>>} /\ UNCHANGED <<status, written>>
    BY <1>3 DEF AuditDecision, Appended, row
  <2>3. CASE says[r] = "approved"
    <3>1. Abstract!Log(a)
      BY <1>1, <2>1, <2>2, <2>3 DEF Abstract!Log
    <3>2. QED
      BY <1>1, <3>1 DEF Abstract!Next
  <2>4. CASE says[r] # "approved"
    BY <2>2, <2>4, LoggedKept DEF Unseen
  <2>5. QED
    BY <2>3, <2>4
<1>4. CASE Grant(r)
  <2>1. status[a] = "approved" /\ <<a, "approved">> \in ledger
    BY <1>4, GrantedFacts DEF Grant, Granted
  <2>2. written[a] = 0
    BY <1>4 DEF Grant, Inv, WinnerUnwritten
  <2>3. QED
    BY <1>1, <1>4, <2>1, <2>2, EffectWrites DEF Grant
<1>5. CASE \/ \E d \in Decisions : Read(r, d)
           \/ Replay(r) \/ AuditUnavailable(r) \/ DropResult(r)
  BY <1>5 DEF Read, Replay, AuditUnavailable, DropResult, row, Unseen, Logged
<1>6. QED
  BY <1>2, <1>3, <1>4, <1>5 DEF DecisionStep

LEMMA AssistantRefines ==
    ASSUME Inv, NEW r \in Requests, AssistantStep(r)
    PROVE  Abstract!Next \/ Unseen
<1> DEFINE a == Subject[r]
<1>1. a \in Approvals
  BY ApprovalConstants
<1>2. CASE Transfer(r)
  <2>1. status[a] = "approved" /\ <<a, "approved">> \in ledger
    BY <1>2, GrantedFacts DEF Transfer, Granted
  <2>2. written[a] = 0
    BY <1>2 DEF Transfer, Inv, WinnerUnwritten
  <2>3. QED
    BY <1>1, <1>2, <2>1, <2>2, EffectWrites DEF Transfer, row
<1>3. CASE RecordOutcome(r)
  <2>1. got[r] # "approved"
    BY DEF Inv, TypeOK, Outcomes
  <2>2. Logged' = Logged
    BY <1>3, <2>1, LoggedKept DEF RecordOutcome, MaybeAppended, Appended
  <2>3. QED
    BY <1>3, <2>2 DEF RecordOutcome, Unseen
<1>4. CASE \/ Execute(r) \/ Receive(r) \/ CallLost(r) \/ Consume(r) \/ FallBack(r) \/ Abandon(r)
  BY <1>4 DEF Execute, Receive, CallLost, Consume, FallBack, Abandon, row, Unseen, Logged
<1>5. QED
  BY <1>2, <1>3, <1>4 DEF AssistantStep

LEMMA GatekeeperRefines ==
    ASSUME Inv, NEW c \in Calls, GatekeeperStep(c)
    PROVE  Abstract!Next \/ Unseen
<1>1. CASE Apply(c)
  BY <1>1, CallRange, SentFacts, EffectWrites DEF Apply, row
<1>2. CASE ~Apply(c)
  BY <1>2 DEF GatekeeperStep, Redeliver, Claim, Throw, Deny, Send, Refuse, Succeed, LoseReply,
          row, Unseen, Logged
<1>3. QED
  BY <1>1, <1>2

\* The effect of an approval is made at most once, only after the owner's positive
\* decision and its audit event, and a decision is never revised, whatever is delivered
\* twice, lost, raced or interrupted between the four workers.
THEOREM Refinement == Spec => EffectOnceApproved
<1>1. Init => Abstract!Init
  BY DEF Init, Abstract!Init
<1>2. Inv /\ [Next]_vars => [Abstract!Next]_<<status, Logged, written>>
  <2> SUFFICES ASSUME Inv, [Next]_vars PROVE Abstract!Next \/ Unseen
    BY DEF Unseen
  <2>1. CASE Tick \/ UNCHANGED vars
    BY <2>1 DEF Tick, vars, row, Unseen, Logged
  <2>2. QED
    BY <2>1, CreateRefines, ReconcileRefines, DecisionRefines, AssistantRefines,
       GatekeeperRefines
       DEF Next
<1>3. QED
  BY <1>1, <1>2, Invariance, PTL DEF Spec, EffectOnceApproved, Abstract!Spec, Logged

\* An outcome, once recorded, is overwritten only by the owner's reconciliation of an
\* unknown one: the UPDATE of decideApproval and the unguarded one of the plugin grant
\* find the row pending.
THEOREM OutcomeNeverRevised == Spec => OutcomeFinal
<1> DEFINE Final ==
      \A a \in Approvals :
         /\ exec[a] \in {"succeeded", "failed"} => exec'[a] = exec[a]
         /\ exec[a] = "unknown" /\ exec'[a] # "unknown" => UNCHANGED at
<1>1. Inv /\ [Next]_vars => [Final]_vars
  <2> SUFFICES ASSUME Inv, Next PROVE Final
    OBVIOUS
  <2>1. ASSUME NEW r \in Requests, Decide(r) PROVE Final
    <3>1. Undecided(Subject[r]) => exec[Subject[r]] = "none"
      BY ApprovalConstants DEF Undecided, Inv, TypeOK, Outcomes
    <3>2. QED
      BY <2>1, <3>1 DEF Decide, Inv, TypeOK
  <2>2. ASSUME NEW r \in Requests, Grant(r) PROVE Final
    <3>1. exec[Subject[r]] = "pending"
      BY <2>2 DEF Grant, Inv, OutcomeOpen, GrantAudited, Granted
    <3>2. QED
      BY <2>2, <3>1 DEF Grant, Inv, TypeOK
  <2>3. ASSUME NEW r \in Requests, RecordOutcome(r) PROVE Final
    BY <2>3 DEF RecordOutcome, Inv, TypeOK
  <2>4. ASSUME NEW a \in Approvals, Reconcile(a) PROVE Final
    BY <2>4 DEF Reconcile, Reconcilable, handler, Inv, TypeOK
  <2>5. CASE UNCHANGED exec
    BY <2>5
  <2>6. ASSUME NEW r \in Requests, DecisionStep(r) \/ AssistantStep(r) PROVE Final
    BY <2>1, <2>2, <2>3, <2>5, <2>6
       DEF DecisionStep, AssistantStep, Read, Replay, AuditDecision, AuditUnavailable, DropResult, Execute,
           Receive, CallLost, Consume, FallBack, Transfer, Abandon, row
  <2>7. ASSUME NEW c \in Calls, GatekeeperStep(c) PROVE Final
    BY <2>5, <2>7
       DEF GatekeeperStep, Redeliver, Claim, Throw, Deny, Send, Apply, Refuse, Succeed, LoseReply, row
  <2>8. QED
    BY <2>4, <2>5, <2>6, <2>7 DEF Next, Create, Tick, row
<1>2. QED
  BY <1>1, Invariance, PTL DEF Spec, OutcomeFinal

\* An approval whose time is over is not decided by a request that starts then: the SELECT
\* of decideApproval looks at the expiry, and the UPDATE follows a SELECT.
THEOREM LapseFinal == Spec => LapsedStaysUndecided
<1> DEFINE Stays ==
             \A a \in Approvals :
                /\ status[a] = "pending"
                /\ Lapsed(a)
                /\ \A r \in Requests : Subject[r] = a => at[r] # "deciding"
                => /\ status'[a] = "pending"
                   /\ \A r \in Requests : Subject[r] = a => at'[r] # "deciding"
<1> USE ApprovalConstants
<1>1. Inv /\ [Next]_vars => Stays
  <2> SUFFICES ASSUME Inv, [Next]_vars PROVE Stays
    OBVIOUS
  <2>1. ASSUME NEW a \in Approvals, NEW k \in Kinds, Create(a, k) PROVE Stays
    BY <2>1 DEF Create, handler, Inv, TypeOK
  <2>2. ASSUME NEW r \in Requests, NEW d \in Decisions, Read(r, d) PROVE Stays
    BY <2>2 DEF Read, Decidable, Goto, row, Inv, TypeOK
  <2>3. ASSUME NEW r \in Requests, Decide(r) PROVE Stays
    BY <2>3 DEF Decide, Goto, Inv, TypeOK
  <2>4. CASE UNCHANGED <<status, at>>
    BY <2>4
  <2>5. ASSUME NEW r \in Requests, NEW p \in Places \ {"deciding"}, UNCHANGED status, Goto(r, p)
        PROVE  Stays
    BY <2>5 DEF Goto, Inv, TypeOK
  <2>6. ASSUME NEW r \in Requests, DecisionStep(r) PROVE Stays
    BY <2>2, <2>3, <2>5, <2>6
       DEF DecisionStep, Replay, AuditDecision, AuditUnavailable, After, Grant, DropResult, row, Places
  <2>7. ASSUME NEW r \in Requests, AssistantStep(r) PROVE Stays
    BY <2>5, <2>7 DEF AssistantStep, Execute, Receive, CallLost, Consume, FallBack, Transfer,
       Learn, RecordOutcome, Abandon, row, Places
  <2>8. ASSUME NEW c \in Calls, GatekeeperStep(c) PROVE Stays
    BY <2>4, <2>8 DEF GatekeeperStep, Redeliver, Claim, Throw, Deny, Send, Apply, Refuse,
       Succeed, LoseReply, row, handler
  <2>9. QED
    BY <2>1, <2>4, <2>6, <2>7, <2>8 DEF Next, Reconcile, Tick, vars, row, handler
<1>2. QED
  BY <1>1, Invariance, PTL DEF Spec, LapsedStaysUndecided

-----------------------------------------------------------------------------
(***************************************************************************)
(* A recorded failure is one, where calls are delivered once and the       *)
(* gatekeeper reports an uncertain write with the code the assistant       *)
(* knows.  Then a call that was answered with a failure is the only one of *)
(* its approval, and an approval recorded as failed has none under way.    *)
(***************************************************************************)

Plain == Deliveries = 1 /\ "discord" \notin Kinds

Still(c) == call[c] \in Replies \cup {"none"}

SingleDelivery ==
    \A c \in Calls :
        /\ call[c] = "none" => at[c[1]] # "calling"
        /\ call[c] = "arrived" => c[1] \notin nonces
        /\ call[c] # "replay"

FailedCall ==
    \A c \in Calls : call[c] \in {"refused", "denied"} => written[Subject[c[1]]] = 0

TransferOnly == \A r \in Requests : at[r] = "consumed" => kind[Subject[r]] = "model"

FailedAnswer ==
    \A r \in Requests :
        at[r] = "answered" /\ got[r] = "failed" /\ kind[Subject[r]] # "model" =>
            /\ written[Subject[r]] = 0
            /\ \A c \in Calls : Subject[c[1]] = Subject[r] => Still(c)

FailedRow ==
    \A a \in Approvals :
        kind[a] # "model" /\ exec[a] = "failed" =>
            /\ written[a] = 0
            /\ \A c \in Calls : Subject[c[1]] = a => Still(c)

FailInv == SingleDelivery /\ FailedCall /\ TransferOnly /\ FailedAnswer /\ FailedRow

LEMMA OneCall ==
    ASSUME Inv, Plain, NEW c \in Calls, NEW d \in Calls, Subject[c[1]] = Subject[d[1]],
           call[c] # "none", call[d] # "none"
    PROVE  c = d
<1>1. c[1] = d[1]
  BY CallRange DEF Inv, OneWinner, Won
<1>2. c = <<c[1], 1>> /\ d = <<d[1], 1>>
  BY DEF Plain, Calls
<1>3. QED
  BY <1>1, <1>2

LEMMA FailInit == Init => FailInv
BY ApprovalConstants, CallRange
   DEF Init, FailInv, SingleDelivery, FailedCall, TransferOnly, FailedAnswer, FailedRow

\* Before the call of a winner there is none for its approval.
LEMMA Uncalled ==
    ASSUME Inv, NEW r \in Requests,
           at[r] \in {"decided", "leased", "granting", "consumed"},
           NEW c \in Calls, Subject[c[1]] = Subject[r]
    PROVE  call[c] = "none"
<1>1. SUFFICES ASSUME call[c] # "none" PROVE FALSE
  OBVIOUS
<1>2. Won(r) /\ Won(c[1])
  BY <1>1 DEF Won, Granted
<1>3. c[1] = r
  BY <1>2, CallRange DEF Inv, OneWinner
<1>4. QED
  BY <1>1, <1>3 DEF Inv, CallsOwned

\* A new approval is one that nothing has been done with.
LEMMA CreateFail ==
    ASSUME Inv, FailInv, NEW a \in Approvals, NEW k \in Kinds, Create(a, k)
    PROVE  FailInv'
<1>1. \A r \in Requests : Subject[r] = a => at[r] \notin {"consumed", "answered"}
  <2> SUFFICES ASSUME NEW r \in Requests, Subject[r] = a, at[r] \in {"consumed", "answered"}
               PROVE  FALSE
    OBVIOUS
  <2>1. status[a] = "approved"
    BY GrantedFacts DEF Granted
  <2>2. QED
    BY <2>1 DEF Create
<1>2. exec[a] = "none"
  BY DEF Create, Inv, TypeOK, Outcomes
<1>3. \A b \in Approvals : b # a => kind'[b] = kind[b]
  BY DEF Create, Inv, TypeOK
<1> USE ApprovalConstants DEF Create, handler, gatekeeper, Still
<1>4. SingleDelivery' /\ FailedCall'
  BY DEF FailInv, SingleDelivery, FailedCall
<1>5. TransferOnly'
  BY <1>1, <1>3 DEF FailInv, TransferOnly
<1>6. FailedAnswer'
  BY <1>1, <1>3 DEF FailInv, FailedAnswer
<1>7. FailedRow'
  BY <1>2, <1>3 DEF FailInv, FailedRow
<1>8. QED
  BY <1>4, <1>5, <1>6, <1>7 DEF FailInv

LEMMA DecisionFail ==
    ASSUME Inv, Plain, FailInv, NEW r \in Requests, DecisionStep(r)
    PROVE  FailInv'
<1> USE CallRange, ApprovalConstants DEF Inv, TypeOK, FailInv, DecisionStep, Read, Replay, Decide,
        AuditDecision, AuditUnavailable, Grant, DropResult, Goto, After, Write, Undecided,
        row, handler, gatekeeper
<1>1. SingleDelivery'
  BY DEF SingleDelivery, CallsOwned, NoncesOwned, Plain
<1>2. FailedCall'
  BY OneCall, Uncalled DEF FailedCall, CallUnwritten, WinnerUnwritten, CallsOwned
<1>3. TransferOnly'
  BY DEF TransferOnly, CallsOwned
<1>4. FailedAnswer'
  BY OneCall, Uncalled DEF FailedAnswer, FailedCall, TransferOnly, SingleDelivery, OneWinner,
         Won, Granted, CallsOwned, WinnerUnwritten, Replies, Still, Plain, Outcomes
<1>5. FailedRow'
  BY OneCall, Uncalled DEF FailedRow, FailedAnswer, TransferOnly, SingleDelivery, OutcomeOpen,
         GrantAudited, Granted, Replies, Still, Outcomes, UndecidedUnwritten
<1>6. QED
  BY <1>1, <1>2, <1>3, <1>4, <1>5

LEMMA ExecuteFail ==
    ASSUME Inv, Plain, FailInv, NEW r \in Requests, Execute(r)
    PROVE  FailInv'
<1> USE CallRange, ApprovalConstants DEF Inv, TypeOK, FailInv, Execute, Goto, Stage, row,
        handler, gatekeeper
<1>a. <<r, 1>> \in Calls /\ \A c \in Calls : c[1] = r => c = <<r, 1>>
  BY DEF Plain, Calls
<1>b. says[r] = "approved" /\ r \notin nonces
  BY DEF GrantAudited, Granted, NoncesOwned
<1>c. exec[Subject[r]] = "pending"
  BY <1>b DEF OutcomeOpen, Granted
<1>1. SingleDelivery'
  BY <1>a, <1>b, <1>c DEF SingleDelivery, CallsOwned, NoncesOwned, Plain
<1>2. FailedCall'
  BY OneCall, Uncalled, <1>a, <1>b, <1>c DEF FailedCall, CallUnwritten, WinnerUnwritten,
         CallsOwned
<1>3. TransferOnly'
  BY <1>a, <1>b, <1>c DEF TransferOnly, CallsOwned
<1>4. FailedAnswer'
  BY OneCall, Uncalled, <1>a, <1>b, <1>c DEF FailedAnswer, FailedCall, TransferOnly,
         SingleDelivery, OneWinner, Won, Granted, CallsOwned, WinnerUnwritten, Replies,
         Still, Plain, Outcomes
<1>5. FailedRow'
  BY OneCall, Uncalled, <1>a, <1>b, <1>c DEF FailedRow, FailedAnswer, TransferOnly,
         SingleDelivery, OutcomeOpen, GrantAudited, Granted, Replies, Still, Outcomes,
         UndecidedUnwritten
<1>6. QED
  BY <1>1, <1>2, <1>3, <1>4, <1>5

LEMMA ReceiveFail ==
    ASSUME Inv, Plain, FailInv, NEW r \in Requests, Receive(r)
    PROVE  FailInv'
<1> USE CallRange, ApprovalConstants DEF Inv, TypeOK, FailInv, Receive, Goto, Learn,
        OutcomeOf, row, handler, gatekeeper
<1>a. <<r, 1>> \in Calls
  BY DEF Calls
<1>b. got'[r] = "failed" /\ kind[Subject[r]] # "model"
      => call[<<r, 1>>] \in {"refused", "denied"}
  BY <1>a DEF Replies, SingleDelivery, Plain
<1>1. SingleDelivery'
  BY <1>a, <1>b DEF SingleDelivery, CallsOwned, NoncesOwned, Plain
<1>2. FailedCall'
  BY OneCall, Uncalled DEF FailedCall, CallUnwritten, WinnerUnwritten, CallsOwned
<1>3. TransferOnly'
  BY DEF TransferOnly, CallsOwned
<1>4. FailedAnswer'
  <2> SUFFICES ASSUME NEW q \in Requests, at'[q] = "answered", got'[q] = "failed",
                      kind[Subject[q]] # "model"
               PROVE  /\ written[Subject[q]] = 0
                      /\ \A c \in Calls : Subject[c[1]] = Subject[q] => Still(c)
    BY DEF FailedAnswer, Still
  <2>1. CASE q = r
    <3>1. call[<<r, 1>>] \in {"refused", "denied"} /\ written[Subject[r]] = 0
      BY <1>a, <1>b, <2>1 DEF FailedCall
    <3>2. QED
      BY <1>a, <2>1, <3>1, OneCall DEF Still, Replies
  <2>2. CASE q # r
    BY <2>2 DEF FailedAnswer
  <2>3. QED
    BY <2>1, <2>2
<1>5. FailedRow'
  BY OneCall, Uncalled, <1>a, <1>b DEF FailedRow, FailedAnswer, TransferOnly, SingleDelivery,
         OutcomeOpen, GrantAudited, Granted, Replies, Still, Outcomes, UndecidedUnwritten
<1>6. QED
  BY <1>1, <1>2, <1>3, <1>4, <1>5

LEMMA TransferFail ==
    ASSUME Inv, Plain, FailInv, NEW r \in Requests, Transfer(r)
    PROVE  FailInv'
<1> USE CallRange, ApprovalConstants DEF Inv, TypeOK, FailInv, Transfer, Goto, Learn, Write,
        row, handler, gatekeeper
<1>1. SingleDelivery'
  BY DEF SingleDelivery, CallsOwned, NoncesOwned, Plain
<1>2. FailedCall'
  BY OneCall, Uncalled DEF FailedCall, CallUnwritten, WinnerUnwritten, CallsOwned
<1>3. TransferOnly'
  BY DEF TransferOnly, CallsOwned
<1>4. FailedAnswer'
  BY OneCall, Uncalled DEF FailedAnswer, FailedCall, TransferOnly, SingleDelivery, OneWinner,
         Won, Granted, CallsOwned, WinnerUnwritten, Replies, Still, Plain, Outcomes
<1>5. FailedRow'
  BY OneCall, Uncalled DEF FailedRow, FailedAnswer, TransferOnly, SingleDelivery, OutcomeOpen,
         GrantAudited, Granted, Replies, Still, Outcomes, UndecidedUnwritten
<1>6. QED
  BY <1>1, <1>2, <1>3, <1>4, <1>5

LEMMA RecordFail ==
    ASSUME Inv, Plain, FailInv, NEW r \in Requests, RecordOutcome(r)
    PROVE  FailInv'
<1> USE CallRange, ApprovalConstants DEF Inv, TypeOK, FailInv, RecordOutcome, Goto, row,
        handler, gatekeeper
<1>1. SingleDelivery'
  BY DEF SingleDelivery, CallsOwned, NoncesOwned, Plain
<1>2. FailedCall'
  BY OneCall, Uncalled DEF FailedCall, CallUnwritten, WinnerUnwritten, CallsOwned
<1>3. TransferOnly'
  BY DEF TransferOnly, CallsOwned
<1>4. FailedAnswer'
  BY OneCall, Uncalled DEF FailedAnswer, FailedCall, TransferOnly, SingleDelivery, OneWinner,
         Won, Granted, CallsOwned, WinnerUnwritten, Replies, Still, Plain, Outcomes
<1>5. FailedRow'
  BY OneCall, Uncalled DEF FailedRow, FailedAnswer, TransferOnly, SingleDelivery, OutcomeOpen,
         GrantAudited, Granted, Replies, Still, Outcomes, UndecidedUnwritten
<1>6. QED
  BY <1>1, <1>2, <1>3, <1>4, <1>5

LEMMA OtherFail ==
    ASSUME Inv, Plain, FailInv, NEW r \in Requests, CallLost(r) \/ Consume(r) \/ FallBack(r) \/ Abandon(r)
    PROVE  FailInv'
<1> USE CallRange, ApprovalConstants DEF Inv, TypeOK, FailInv, CallLost, Consume, FallBack,
        Abandon, Goto, Learn, row, handler, gatekeeper
<1>1. SingleDelivery'
  BY DEF SingleDelivery, CallsOwned, NoncesOwned, Plain
<1>2. FailedCall'
  BY OneCall, Uncalled DEF FailedCall, CallUnwritten, WinnerUnwritten, CallsOwned
<1>3. TransferOnly'
  BY DEF TransferOnly, CallsOwned
<1>4. FailedAnswer'
  BY OneCall, Uncalled DEF FailedAnswer, FailedCall, TransferOnly, SingleDelivery, OneWinner,
         Won, Granted, CallsOwned, WinnerUnwritten, Replies, Still, Plain, Outcomes
<1>5. FailedRow'
  BY OneCall, Uncalled DEF FailedRow, FailedAnswer, TransferOnly, SingleDelivery, OutcomeOpen,
         GrantAudited, Granted, Replies, Still, Outcomes, UndecidedUnwritten
<1>6. QED
  BY <1>1, <1>2, <1>3, <1>4, <1>5

LEMMA GatekeeperFail ==
    ASSUME Inv, Plain, FailInv, NEW c \in Calls, GatekeeperStep(c)
    PROVE  FailInv'
<1> USE CallRange, ApprovalConstants DEF Inv, TypeOK, FailInv, GatekeeperStep, Redeliver,
        Claim, FreshNonce, Throw, Deny, Send, Apply, Refuse, Succeed, LoseReply, Stage,
        Write, row, handler, gatekeeper
<1>1. SingleDelivery'
  BY OneCall DEF SingleDelivery, CallsOwned, NoncesOwned, Plain
<1>2. FailedCall'
  BY OneCall, Uncalled DEF FailedCall, CallUnwritten, WinnerUnwritten, CallsOwned
<1>3. TransferOnly'
  BY DEF TransferOnly, CallsOwned
<1>4. FailedAnswer'
  BY OneCall, Uncalled DEF FailedAnswer, FailedCall, TransferOnly, SingleDelivery, OneWinner,
         Won, Granted, CallsOwned, WinnerUnwritten, Replies, Still, Plain, Outcomes
<1>5. FailedRow'
  BY OneCall, Uncalled DEF FailedRow, FailedAnswer, TransferOnly, SingleDelivery, OutcomeOpen,
         GrantAudited, Granted, Replies, Still, Outcomes, UndecidedUnwritten
<1>6. QED
  BY <1>1, <1>2, <1>3, <1>4, <1>5

\* A write recorded as failed was not made and is not under way, where every call is
\* delivered once and no approval is executed by Discord's gatekeeper: a lost reply, a
\* dying handler or an expired lease never counts as a failure.
THEOREM FailureRecorded ==
    Plain => (Spec => []FailedMeansNotWritten /\ []IndeterminateIsUnknown)
<1> SUFFICES ASSUME Plain PROVE Spec => []FailedMeansNotWritten /\ []IndeterminateIsUnknown
  OBVIOUS
<1>1. Inv /\ FailInv /\ [Next]_vars => FailInv'
  <2> SUFFICES ASSUME Inv, FailInv, [Next]_vars PROVE FailInv'
    OBVIOUS
  <2>1. ASSUME NEW a \in Approvals, NEW k \in Kinds, Create(a, k) PROVE FailInv'
    BY <2>1, CreateFail
  <2>2. ASSUME NEW a \in Approvals, Reconcile(a) PROVE FailInv'
    BY <2>2 DEF Reconcile, row, Settled, Still, handler, gatekeeper, Inv, TypeOK, FailInv,
       SingleDelivery, FailedCall, TransferOnly, FailedAnswer, FailedRow
  <2>3. ASSUME NEW r \in Requests, DecisionStep(r) \/ AssistantStep(r) PROVE FailInv'
    BY <2>3, DecisionFail, ExecuteFail, ReceiveFail, TransferFail, RecordFail, OtherFail
       DEF AssistantStep
  <2>4. ASSUME NEW c \in Calls, GatekeeperStep(c) PROVE FailInv'
    BY <2>4, GatekeeperFail
  <2>5. CASE Tick \/ UNCHANGED vars
    BY <2>5 DEF Tick, vars, row, handler, gatekeeper, Still, FailInv, SingleDelivery,
       FailedCall,
       TransferOnly, FailedAnswer, FailedRow
  <2>6. QED
    BY <2>1, <2>2, <2>3, <2>4, <2>5 DEF Next
<1>2. FailInv => IndeterminateIsUnknown
  BY DEF FailInv, FailedRow, IndeterminateIsUnknown, NotWritten, Still, Replies
<1>3. IndeterminateIsUnknown => FailedMeansNotWritten
  BY DEF IndeterminateIsUnknown, FailedMeansNotWritten
<1>4. QED
  BY <1>1, <1>2, <1>3, FailInit, Invariance, PTL DEF Spec

\* Under the same assumptions whatever is recorded, a success or a failure, is true.
THEOREM OutcomeTrue == Plain => (Spec => []OutcomeIsTrue)
<1> SUFFICES ASSUME Plain PROVE Spec => []OutcomeIsTrue
  OBVIOUS
<1>1. Spec => []SucceededMeansWritten /\ []FailedMeansNotWritten
  BY SuccessRecorded, FailureRecorded
<1>2. SucceededMeansWritten /\ FailedMeansNotWritten => OutcomeIsTrue
  BY DEF OutcomeIsTrue
<1>3. QED
  BY <1>1, <1>2, PTL

\* Neither an outcome nor a lapsed approval is revised.
THEOREM DecisionsKept == Spec => DecisionsStand
BY OutcomeNeverRevised, LapseFinal DEF DecisionsStand

-----------------------------------------------------------------------------
(***************************************************************************)
(* The results a cloud model may be given: ConnectorTransfer.              *)
(***************************************************************************)

\* What an approval leads to, up to the record of its outcome.
Summing == {"settings", "consume", "reserve", "generate", "settle", "failed", "append",
            "record", "fallback"}

Summed(r) ==
    LET x == transferAbout[r] IN
    /\ transferAt[r] \notin {"start", "done"} => x # None
    /\ transferAt[r] \in Summing =>
          transferApproval[x] = "approved" /\ transferExecution[x] = "pending"
    /\ transferAt[r] \in Summing \ {"record"} => transferAnswer[x] # "summary"
    /\ transferAt[r] \in {"settle", "append", "record"} => x \in transferSent
    /\ transferAt[r] \in {"append", "record"} => transferAi[x] = "settled"

\* The decision of an approval sends one handler on this way.
SummedOnce ==
    \A r, q \in TransferRequests :
        /\ transferAt[r] \in Summing /\ transferAt[q] \in Summing
        /\ transferAbout[r] = transferAbout[q]
        => r = q

Unapproved ==
    \A x \in TransferResults :
        transferApproval[x] # "approved" =>
            transferExecution[x] = "null" /\ transferAnswer[x] # "summary" /\ x \notin transferSent

\* A tool change has a name of its own, without an approval until it requests one.
Replacing(r) ==
    LET x == transferNew[r] IN
    /\ x # None => transferResult[x] # "none"
    /\ transferAt[r] \in {"start", "read", "run"} => x = None
    /\ transferAt[r] \in {"replace", "request"} => x # None /\ transferApproval[x] = "none"

NamesTaken ==
    \A r, q \in TransferRequests : transferNew[r] # None /\ transferNew[r] = transferNew[q] => r = q

\* An approval that a tool change rejected was rejected by one that has gone on.
ChangesDecided ==
    \A x \in TransferResults :
        transferDecidedBy[x].change =>
            \E q \in TransferRequests :
                /\ transferNew[q] # None /\ transferAt[q] # "replace"
                /\ TransferKeyOf[q] = transferDecidedBy[x].key

Open(x) == transferApproval[x] \in {"pending", "approved"}

\* Either there is an open transfer or one request is about to open one.
OneOpen ==
    ~Sharing!ChangedTwice =>
        /\ \A x, y \in TransferResults : Open(x) /\ Open(y) => x = y
        /\ \A r, q \in TransferRequests :
              transferAt[r] = "request" /\ transferAt[q] = "request" => r = q
        /\ \A r \in TransferRequests, x \in TransferResults : transferAt[r] = "request" => ~Open(x)

TransferInv ==
    /\ Sharing!TransferConstants /\ Sharing!TypeOK
    /\ \A r \in TransferRequests : Summed(r) /\ Replacing(r)
    /\ SummedOnce /\ Unapproved /\ Sharing!RecordedTruly
    /\ NamesTaken /\ ChangesDecided /\ OneOpen

LEMMA TransferBegins == Sharing!TransferConstants /\ Sharing!Init => TransferInv
<1>1. SUFFICES ASSUME Sharing!TransferConstants, Sharing!Init PROVE TransferInv
  OBVIOUS
<1> USE <1>1 DEF Sharing!TransferConstants, Sharing!Init
<1>2. Sharing!TypeOK
  BY DEF Sharing!TypeOK, Sharing!Statuses, Sharing!Decider, Sharing!Places
<1>3. \A r \in TransferRequests : Summed(r) /\ Replacing(r)
  BY DEF Summed, Replacing, Summing
<1>4. SummedOnce /\ Unapproved /\ Sharing!RecordedTruly /\ NamesTaken /\ ChangesDecided
  BY DEF SummedOnce, Summing, Unapproved, Sharing!RecordedTruly, NamesTaken, ChangesDecided
<1>5. OneOpen
  BY DEF OneOpen, Open
<1>6. QED
  BY <1>2, <1>3, <1>4, <1>5 DEF TransferInv

\* One request rejects a pending approval or approves it, from wherever it decides.
LEMMA TransferDecidedStep ==
    ASSUME TransferInv, NEW r \in TransferRequests,
           Sharing!Approve(r) \/ Sharing!Reject(r) \/ Sharing!RejectOld(r)
    PROVE  TransferInv'
<1>1. /\ Sharing!TypeOK /\ SummedOnce /\ Unapproved /\ Sharing!RecordedTruly
      /\ NamesTaken /\ ChangesDecided /\ OneOpen
      /\ TransferKeyOf \in [TransferRequests -> TransferKeys]
      /\ None \notin TransferKeys \cup TransferResults
  BY DEF TransferInv, Sharing!TransferConstants
<1>2. /\ \A q \in TransferRequests : Summed(q) /\ Replacing(q)
      /\ Sharing!TransferConstants'
  BY DEF TransferInv, Sharing!TransferConstants
<1>3. PICK x \in TransferResults, d \in {"approved", "rejected"}, change \in BOOLEAN,
           next \in {"settings", "retract", "request"} :
        /\ Sharing!Decide(r, x, d, change, next)
        /\ transferAbout' = [transferAbout EXCEPT ![r] = x]
        /\ change => d = "rejected" /\ next = "request" /\ transferAt[r] = "replace"
        /\ ~change => transferAt[r] = "start"
        /\ next = "settings" <=> d = "approved"
        /\ next = "request" <=> change
        /\ UNCHANGED <<transferResult, transferAi, transferSent, transferAnswer, transferNew>>
  <2>1. CASE Sharing!Approve(r)
    BY <2>1 DEF Sharing!Approve
  <2>2. CASE Sharing!Reject(r)
    BY <2>2 DEF Sharing!Reject
  <2>3. CASE Sharing!RejectOld(r)
    <3>1. transferAbout[r] \in TransferResults /\ transferAt[r] = "replace"
      BY <1>1, <1>2, <2>3 DEF Sharing!RejectOld, Summed, Sharing!TypeOK
    <3>2. transferAbout' = [transferAbout EXCEPT ![r] = transferAbout[r]]
      BY <1>1, <2>3 DEF Sharing!RejectOld, Sharing!TypeOK
    <3>3. QED
      BY <2>3, <3>1, <3>2 DEF Sharing!RejectOld
  <2>4. QED
    BY <2>1, <2>2, <2>3
\* It decides nothing, repeats a rejection of its own, or decides what was pending.
<1>4. \/ /\ UNCHANGED <<transferApproval, transferDecidedBy, transferExecution>>
         /\ transferAt' = [transferAt EXCEPT ![r] = "done"]
      \/ /\ UNCHANGED <<transferApproval, transferDecidedBy, transferExecution>>
         /\ d = "rejected" /\ transferApproval[x] = "rejected"
         /\ transferDecidedBy[x] = [key |-> TransferKeyOf[r], change |-> change]
         /\ transferAt' = [transferAt EXCEPT ![r] = next]
      \/ /\ transferApproval[x] = "pending"
         /\ transferApproval' = [transferApproval EXCEPT ![x] = d]
         /\ transferDecidedBy' = [transferDecidedBy EXCEPT ![x] =
                                     [key |-> TransferKeyOf[r], change |-> change]]
         /\ transferExecution' = [transferExecution EXCEPT ![x] =
                                     IF d = "approved" THEN "pending" ELSE "null"]
         /\ transferAt' \in {[transferAt EXCEPT ![r] = next],
                             [transferAt EXCEPT ![r] = "done"]}
  BY <1>3 DEF Sharing!Decide, Sharing!control, Sharing!Goto, Sharing!MayDecide
<1>5. Sharing!TypeOK'
  <2>1. [key |-> TransferKeyOf[r], change |-> change] \in Sharing!Decider
    BY <1>1 DEF Sharing!Decider
  <2>2. transferAt' \in [TransferRequests -> Sharing!Places]
    BY <1>1, <1>3, <1>4 DEF Sharing!TypeOK, Sharing!Places
  <2>3. /\ transferApproval' \in [TransferResults -> Sharing!Statuses]
        /\ \A y \in TransferResults : transferApproval'[y] # "none" => transferResult'[y] # "none"
    BY <1>1, <1>3, <1>4 DEF Sharing!TypeOK, Sharing!Statuses
  <2>4. transferDecidedBy' \in [TransferResults -> Sharing!Decider]
    BY <1>1, <1>3, <1>4, <2>1 DEF Sharing!TypeOK
  <2>5. /\ transferExecution' \in [TransferResults -> {"null", "pending", "succeeded", "failed"}]
        /\ transferAbout' \in [TransferRequests -> TransferResults \cup {None}]
    BY <1>1, <1>3, <1>4 DEF Sharing!TypeOK
  <2>6. QED
    BY <1>1, <1>3, <2>2, <2>3, <2>4, <2>5 DEF Sharing!TypeOK
<1> USE DEF Sharing!TypeOK
<1>6. \A q \in TransferRequests : Summed(q)'
  <2>1. SUFFICES ASSUME NEW q \in TransferRequests PROVE Summed(q)'
    OBVIOUS
  <2>2. Summed(q) /\ (transferAt[q] \in Summing => transferAbout[q] \in TransferResults)
    BY <1>1, <1>2 DEF Summed, Summing
  <2>3. CASE q = r
    BY <1>1, <1>3, <1>4, <2>3 DEF Summed, Summing, Unapproved
  <2>4. CASE q # r
    BY <1>1, <1>3, <1>4, <2>2, <2>4 DEF Summed, Summing
  <2>5. QED
    BY <2>3, <2>4
<1>7. \A q \in TransferRequests : Replacing(q)'
  BY <1>1, <1>2, <1>3, <1>4 DEF Replacing
<1>8. SummedOnce'
  <2>1. \A q \in TransferRequests : Summed(q)
    BY <1>2
  <2>2. QED
    BY <1>1, <1>3, <1>4, <2>1 DEF SummedOnce, Summed, Summing
<1>9. Unapproved'
  BY <1>1, <1>3, <1>4 DEF Unapproved
<1>10. Sharing!RecordedTruly' /\ NamesTaken'
  BY <1>1, <1>3, <1>4 DEF Sharing!RecordedTruly, NamesTaken
<1>11. ChangesDecided'
  BY <1>1, <1>2, <1>3, <1>4 DEF ChangesDecided, Replacing
<1>12. OneOpen'
  <2>1. SUFFICES ASSUME ~Sharing!ChangedTwice PROVE OneOpen'
    BY <1>3 DEF OneOpen, Sharing!ChangedTwice
  <2>2. /\ \A y, z \in TransferResults : Open(y) /\ Open(z) => y = z
        /\ \A p, q \in TransferRequests :
              transferAt[p] = "request" /\ transferAt[q] = "request" => p = q
        /\ \A q \in TransferRequests, y \in TransferResults :
              transferAt[q] = "request" => ~Open(y)
    BY <1>1, <2>1 DEF OneOpen
  \* A replayed change of a tool has another request with its key.
  <2>3. next = "request" => \/ transferApproval[x] = "pending"
                            \/ transferAt' = [transferAt EXCEPT ![r] = "done"]
    <3>1. ASSUME next = "request",
                 transferDecidedBy[x] = [key |-> TransferKeyOf[r], change |-> change]
          PROVE  FALSE
      <4>1. transferDecidedBy[x].change /\ transferDecidedBy[x].key = TransferKeyOf[r]
            /\ transferAt[r] = "replace" /\ transferNew[r] # None
        BY <1>2, <1>3, <3>1 DEF Replacing
      <4>2. QED
        BY <1>1, <2>1, <4>1 DEF ChangesDecided, Sharing!ChangedTwice
    <3>2. QED
      BY <1>4, <3>1
  <2>4. QED
    BY <1>1, <1>3, <1>4, <2>2, <2>3 DEF OneOpen, Open
<1>13. QED
  BY <1>2, <1>5, <1>6, <1>7, <1>8, <1>9, <1>10, <1>11, <1>12 DEF TransferInv

\* A request changes the tool, or opens the transfer of what the new tool returned.
LEMMA TransferRequestStep ==
    ASSUME TransferInv, NEW r \in TransferRequests,
           \/ Sharing!ChangeTool(r) \/ Sharing!ReadQuestion(r) \/ Sharing!RunTool(r)
           \/ Sharing!RequestNew(r)
    PROVE  TransferInv'
<1>1. /\ Sharing!TypeOK /\ SummedOnce /\ Unapproved /\ Sharing!RecordedTruly
      /\ NamesTaken /\ ChangesDecided /\ OneOpen
      /\ None \notin TransferResults
  BY DEF TransferInv, Sharing!TransferConstants
<1>2. /\ \A q \in TransferRequests : Summed(q) /\ Replacing(q)
      /\ Sharing!TransferConstants'
  BY DEF TransferInv, Sharing!TransferConstants
<1>3. UNCHANGED <<transferDecidedBy, transferExecution, transferAi, transferSent, transferAnswer>>
  BY DEF Sharing!ChangeTool, Sharing!ReadQuestion, Sharing!RunTool, Sharing!RequestNew,
         Sharing!Local
<1>4. /\ \/ /\ transferAt[r] = "start"
            /\ transferAt' = [transferAt EXCEPT ![r] = "read"]
            /\ \E x \in TransferResults : transferAbout' = [transferAbout EXCEPT ![r] = x]
         \/ /\ transferAt[r] # "start" /\ transferAbout' = transferAbout
            /\ transferAt' \in {[transferAt EXCEPT ![r] = "done"],
                                [transferAt EXCEPT ![r] = "run"],
                                [transferAt EXCEPT ![r] = "replace"]}
      /\ transferAt'[r] = "run" => transferAt[r] = "read"
      /\ transferAt[r] \in {"start", "read", "run", "request"}
  BY <1>1 DEF Sharing!ChangeTool, Sharing!ReadQuestion, Sharing!RunTool, Sharing!RequestNew,
         Sharing!Local, Sharing!Goto, Sharing!TypeOK
\* The name that a tool change takes, or its approval.
<1>5. \/ /\ UNCHANGED <<transferResult, transferNew, transferApproval>>
         /\ transferAt' # [transferAt EXCEPT ![r] = "replace"]
      \/ /\ transferAt[r] = "run" /\ transferAt' = [transferAt EXCEPT ![r] = "replace"]
         /\ transferApproval' = transferApproval
         /\ \E x \in TransferResults :
               /\ transferResult[x] = "none"
               /\ transferResult' = [transferResult EXCEPT ![x] = "stored"]
               /\ transferNew' = [transferNew EXCEPT ![r] = x]
      \/ /\ transferAt[r] = "request" /\ transferAt' = [transferAt EXCEPT ![r] = "done"]
         /\ transferApproval' = [transferApproval EXCEPT ![transferNew[r]] = "pending"]
         /\ UNCHANGED <<transferResult, transferNew>>
  <2>1. CASE Sharing!ChangeTool(r)
    BY <1>1, <2>1 DEF Sharing!ChangeTool, Sharing!Goto, Sharing!TypeOK
  <2>2. CASE Sharing!ReadQuestion(r)
    BY <1>1, <2>2 DEF Sharing!ReadQuestion, Sharing!Local, Sharing!Goto, Sharing!TypeOK
  <2>3. CASE Sharing!RunTool(r)
    BY <1>1, <2>3 DEF Sharing!RunTool, Sharing!Local, Sharing!Goto, Sharing!TypeOK,
       Sharing!Unused
  <2>4. CASE Sharing!RequestNew(r)
    BY <1>1, <2>4 DEF Sharing!RequestNew, Sharing!Goto, Sharing!TypeOK
  <2>5. QED
    BY <2>1, <2>2, <2>3, <2>4
<1> USE DEF Sharing!TypeOK
<1>6. transferAt[r] = "request" =>
         transferNew[r] \in TransferResults /\ transferApproval[transferNew[r]] = "none"
         /\ transferResult[transferNew[r]] # "none"
  BY <1>1, <1>2 DEF Replacing
<1>7. Sharing!TypeOK'
  <2>1. transferAt' \in [TransferRequests -> Sharing!Places]
    BY <1>1, <1>4 DEF Sharing!Places
  <2>2. /\ transferApproval' \in [TransferResults -> Sharing!Statuses]
        /\ transferResult' \in [TransferResults -> {"none", "stored", "gone"}]
        /\ transferNew' \in [TransferRequests -> TransferResults \cup {None}]
        /\ \A y \in TransferResults : transferApproval'[y] # "none" => transferResult'[y] # "none"
    BY <1>1, <1>5, <1>6 DEF Sharing!Statuses
  <2>3. transferAbout' \in [TransferRequests -> TransferResults \cup {None}]
    BY <1>1, <1>4
  <2>4. QED
    BY <1>1, <1>3, <2>1, <2>2, <2>3
<1>8. \A q \in TransferRequests : Summed(q)'
  <2>1. SUFFICES ASSUME NEW q \in TransferRequests PROVE Summed(q)'
    OBVIOUS
  <2>2. Summed(q) /\ (transferAt[q] \in Summing => transferAbout[q] \in TransferResults)
    BY <1>1, <1>2 DEF Summed, Summing
  <2>3. CASE q = r
    BY <1>1, <1>3, <1>4, <2>2, <2>3 DEF Summed, Summing
  <2>4. CASE q # r
    BY <1>1, <1>3, <1>4, <1>5, <1>6, <2>2, <2>4 DEF Summed, Summing
  <2>5. QED
    BY <2>3, <2>4
<1>9. \A q \in TransferRequests : Replacing(q)'
  <2>1. SUFFICES ASSUME NEW q \in TransferRequests PROVE Replacing(q)'
    OBVIOUS
  <2>2. Replacing(q) /\ Replacing(r)
    BY <1>2
  <2>3. CASE q = r
    BY <1>1, <1>4, <1>5, <1>6, <2>2, <2>3 DEF Replacing
  <2>4. CASE q # r
    BY <1>1, <1>4, <1>5, <1>6, <2>2, <2>4 DEF Replacing, NamesTaken
  <2>5. QED
    BY <2>3, <2>4
<1>10. SummedOnce'
  BY <1>1, <1>4 DEF SummedOnce, Summing
<1>11. Unapproved' /\ Sharing!RecordedTruly'
  BY <1>1, <1>3, <1>5, <1>6 DEF Unapproved, Sharing!RecordedTruly
<1>12. NamesTaken'
  BY <1>1, <1>2, <1>5 DEF NamesTaken, Replacing
<1>13. ChangesDecided'
  BY <1>1, <1>2, <1>3, <1>4, <1>5 DEF ChangesDecided, Replacing
<1>14. OneOpen'
  <2>1. Sharing!ChangedTwice => Sharing!ChangedTwice'
    BY <1>1, <1>2, <1>5 DEF Sharing!ChangedTwice, Replacing
  <2>2. SUFFICES ASSUME ~Sharing!ChangedTwice PROVE OneOpen'
    BY <2>1 DEF OneOpen
  <2>3. /\ \A y, z \in TransferResults : Open(y) /\ Open(z) => y = z
        /\ \A p, q \in TransferRequests :
              transferAt[p] = "request" /\ transferAt[q] = "request" => p = q
        /\ \A q \in TransferRequests, y \in TransferResults :
              transferAt[q] = "request" => ~Open(y)
    BY <1>1, <2>2 DEF OneOpen
  <2>4. QED
    BY <1>1, <1>4, <1>5, <1>6, <2>3 DEF OneOpen, Open
<1>15. QED
  BY <1>2, <1>7, <1>8, <1>9, <1>10, <1>11, <1>12, <1>13, <1>14 DEF TransferInv

\* What a handler does with an approval that is decided, to the result, the reservation,
\* the answer and the outcome of this approval.
TransferEffect(r) ==
    LET x == transferAbout[r] p == transferAt[r] IN
    /\ UNCHANGED <<transferApproval, transferDecidedBy, transferAbout, transferNew>>
    /\ \/ transferResult' = transferResult
       \/ transferResult[x] = "stored" /\ transferResult' = [transferResult EXCEPT ![x] = "gone"]
    /\ \/ /\ transferAt' = [transferAt EXCEPT ![r] = "done"] /\ p \notin {"start", "done"}
          /\ \/ UNCHANGED <<transferExecution, transferAi, transferSent, transferAnswer>>
             \/ /\ p = "record" /\ transferExecution' = [transferExecution EXCEPT ![x] = "succeeded"]
                /\ UNCHANGED <<transferAi, transferSent, transferAnswer>>
             \/ /\ p = "show" /\ transferAnswer' = [transferAnswer EXCEPT ![x] = "list"]
                /\ UNCHANGED <<transferExecution, transferAi, transferSent>>
       \/ /\ \/ p = "settings" /\ transferAt' = [transferAt EXCEPT ![r] = "consume"]
             \/ p = "consume" /\ transferAt' = [transferAt EXCEPT ![r] = "reserve"]
             \/ p = "retract" /\ transferAt' = [transferAt EXCEPT ![r] = "show"]
          /\ UNCHANGED <<transferExecution, transferAi, transferSent, transferAnswer>>
       \/ /\ p = "reserve" /\ \/ transferAt' = [transferAt EXCEPT ![r] = "generate"]
                              \/ transferAt' = [transferAt EXCEPT ![r] = "fallback"]
          /\ \/ transferAi' = transferAi
             \/ transferAi' = [transferAi EXCEPT ![x] = "active"]
          /\ UNCHANGED <<transferExecution, transferSent, transferAnswer>>
       \/ /\ p = "generate"
          /\ \/ /\ transferAt' = [transferAt EXCEPT ![r] = "settle"]
                /\ transferSent' = transferSent \cup {x}
             \/ /\ transferAt' = [transferAt EXCEPT ![r] = "failed"]
                /\ transferSent' = transferSent \/ transferSent' = transferSent \cup {x}
          /\ UNCHANGED <<transferExecution, transferAi, transferAnswer>>
       \/ /\ p \in {"settle", "failed"}
          /\ \/ /\ p = "settle" /\ transferAt' = [transferAt EXCEPT ![r] = "append"]
                /\ transferAi' = [transferAi EXCEPT ![x] = "settled"]
             \/ /\ transferAt' = [transferAt EXCEPT ![r] = "fallback"]
                /\ \/ transferAi' = transferAi
                   \/ transferAi' = [transferAi EXCEPT ![x] = "settled"]
          /\ UNCHANGED <<transferExecution, transferSent, transferAnswer>>
       \/ /\ p = "append" /\ transferAt' = [transferAt EXCEPT ![r] = "record"]
          /\ \/ transferAnswer' = transferAnswer
             \/ transferAnswer' = [transferAnswer EXCEPT ![x] = "summary"]
          /\ UNCHANGED <<transferExecution, transferAi, transferSent>>
       \/ /\ p = "fallback" /\ transferAt' = [transferAt EXCEPT ![r] = "show"]
          /\ \/ transferExecution' = transferExecution
             \/ transferExecution' = [transferExecution EXCEPT ![x] = "failed"]
          /\ UNCHANGED <<transferAi, transferSent, transferAnswer>>

LEMMA TransferEffects ==
    ASSUME NEW r \in TransferRequests,
           \/ Sharing!CheckSettings(r) \/ Sharing!Consume(r) \/ Sharing!Reserve(r)
           \/ Sharing!Generate(r) \/ Sharing!Settle(r) \/ Sharing!SettleFailed(r)
           \/ Sharing!AppendSummary(r) \/ Sharing!Record(r) \/ Sharing!Fallback(r)
           \/ Sharing!Retract(r) \/ Sharing!Show(r) \/ Sharing!Crash(r)
    PROVE  TransferEffect(r)
<1> USE DEF TransferEffect, Sharing!Goto, Sharing!Local, Sharing!Take, Sharing!Append,
            Sharing!Settled, Sharing!Recorded
<1>1. CASE Sharing!CheckSettings(r)
  BY <1>1 DEF Sharing!CheckSettings
<1>2. CASE Sharing!Consume(r)
  BY <1>2 DEF Sharing!Consume
<1>3. CASE Sharing!Reserve(r)
  BY <1>3 DEF Sharing!Reserve
<1>4. CASE Sharing!Generate(r)
  BY <1>4 DEF Sharing!Generate
<1>5. CASE Sharing!Settle(r)
  BY <1>5 DEF Sharing!Settle
<1>6. CASE Sharing!SettleFailed(r)
  BY <1>6 DEF Sharing!SettleFailed
<1>7. CASE Sharing!AppendSummary(r)
  BY <1>7 DEF Sharing!AppendSummary
<1>8. CASE Sharing!Record(r)
  BY <1>8 DEF Sharing!Record
<1>9. CASE Sharing!Fallback(r)
  BY <1>9 DEF Sharing!Fallback
<1>10. CASE Sharing!Retract(r)
  BY <1>10 DEF Sharing!Retract
<1>11. CASE Sharing!Show(r)
  BY <1>11 DEF Sharing!Show
<1>12. CASE Sharing!Crash(r)
  BY <1>12 DEF Sharing!Crash
<1>13. QED
  BY <1>1, <1>2, <1>3, <1>4, <1>5, <1>6, <1>7, <1>8, <1>9, <1>10, <1>11, <1>12

\* A handler of a decided approval goes on.
LEMMA TransferEffectStep ==
    ASSUME TransferInv, NEW r \in TransferRequests, TransferEffect(r)
    PROVE  TransferInv'
<1> DEFINE x == transferAbout[r]
<1>1. /\ Sharing!TypeOK /\ SummedOnce /\ Unapproved /\ Sharing!RecordedTruly
      /\ NamesTaken /\ ChangesDecided /\ OneOpen
      /\ \A q \in TransferRequests : Summed(q) /\ Replacing(q)
      /\ Sharing!TransferConstants'
  BY DEF TransferInv, Sharing!TransferConstants
<1>2. /\ UNCHANGED <<transferApproval, transferDecidedBy, transferAbout, transferNew>>
      /\ transferAt[r] \notin {"start", "done"} /\ x \in TransferResults
  BY <1>1 DEF TransferEffect, Summed, Sharing!TypeOK
\* Where the handler comes to.
<1>3. PICK p \in {"done", "consume", "reserve", "show", "generate", "settle", "failed",
                  "append", "fallback", "record"} :
        /\ transferAt' = [transferAt EXCEPT ![r] = p]
        /\ p \in Summing => transferAt[r] \in Summing \ {"record"}
  BY DEF TransferEffect, Summing
<1> USE DEF Sharing!TypeOK
<1>4. Sharing!TypeOK'
  <2>1. transferAt' \in [TransferRequests -> Sharing!Places]
    BY <1>1, <1>3 DEF Sharing!Places
  <2>2. /\ transferResult' \in [TransferResults -> {"none", "stored", "gone"}]
        /\ \A y \in TransferResults : transferResult[y] # "none" => transferResult'[y] # "none"
    BY <1>1, <1>2 DEF TransferEffect
  <2>3. /\ transferExecution' \in [TransferResults -> {"null", "pending", "succeeded", "failed"}]
        /\ transferAi' \in [TransferResults -> {"none", "active", "settled", "expired"}]
        /\ transferSent' \subseteq TransferResults
        /\ transferAnswer' \in [TransferResults -> {"none", "summary", "list"}]
    BY <1>1, <1>2 DEF TransferEffect
  <2>4. QED
    BY <1>1, <1>2, <2>1, <2>2, <2>3
\* What is said of an approval changes with the handler that sums it up only.
<1>5. ASSUME NEW y \in TransferResults, y # x
      PROVE  /\ transferExecution'[y] = transferExecution[y]
             /\ transferAi'[y] = transferAi[y] /\ transferAnswer'[y] = transferAnswer[y]
             /\ y \in transferSent' <=> y \in transferSent
  BY <1>1, <1>2, <1>5 DEF TransferEffect
<1>6. /\ transferAt[r] \notin Summing =>
            /\ UNCHANGED <<transferExecution, transferAi, transferSent>>
            /\ transferAnswer'[x] # "summary" \/ transferAnswer' = transferAnswer
      /\ transferSent \subseteq transferSent'
  BY <1>1, <1>2 DEF TransferEffect, Summing
<1>7. Summed(r) /\ Unapproved /\ Sharing!RecordedTruly
  BY <1>1
<1>8. /\ Summed(r)'
      /\ transferApproval[x] # "approved" =>
            transferExecution'[x] = "null" /\ transferAnswer'[x] # "summary" /\ x \notin transferSent'
      /\ transferExecution'[x] = "succeeded" => x \in transferSent' /\ transferAi'[x] = "settled"
      /\ transferExecution'[x] = "failed" => transferAnswer'[x] # "summary"
  BY <1>1, <1>2, <1>7 DEF TransferEffect, Summed, Summing, Unapproved, Sharing!RecordedTruly
<1>9. \A q \in TransferRequests : Summed(q)'
  <2>1. SUFFICES ASSUME NEW q \in TransferRequests, q # r PROVE Summed(q)'
    BY <1>8
  <2>2. Summed(q) /\ transferAt'[q] = transferAt[q] /\ transferAbout'[q] = transferAbout[q]
    BY <1>1, <1>2, <1>3, <2>1
  <2>3. CASE transferAt[q] \in Summing
    <3>1. transferAt[r] \in Summing => transferAbout[q] # x
      BY <1>1, <2>1, <2>3 DEF SummedOnce
    <3>2. transferAbout[q] \in TransferResults
      BY <1>1, <2>2, <2>3 DEF Summed, Summing
    <3>3. QED
      BY <1>2, <1>5, <1>6, <2>2, <2>3, <3>1, <3>2 DEF Summed, Summing
  <2>4. CASE transferAt[q] \notin Summing
    BY <1>2, <2>2, <2>4 DEF Summed, Summing
  <2>5. QED
    BY <2>3, <2>4
<1>10. SummedOnce'
  BY <1>1, <1>2, <1>3 DEF SummedOnce
<1>11. Unapproved'
  BY <1>1, <1>2, <1>5, <1>8 DEF Unapproved
<1>12. Sharing!RecordedTruly'
  BY <1>1, <1>2, <1>5, <1>8 DEF Sharing!RecordedTruly
<1>13. \A q \in TransferRequests : Replacing(q)'
  <2>1. \A y \in TransferResults : transferResult[y] # "none" => transferResult'[y] # "none"
    BY <1>1, <1>2 DEF TransferEffect
  <2>2. QED
    BY <1>1, <1>2, <1>3, <2>1 DEF Replacing
<1>14. NamesTaken' /\ ChangesDecided'
  BY <1>1, <1>2, <1>3 DEF NamesTaken, ChangesDecided
<1>15. OneOpen'
  BY <1>1, <1>2, <1>3 DEF OneOpen, Open, Sharing!ChangedTwice
<1>16. QED
  BY <1>1, <1>4, <1>9, <1>10, <1>11, <1>12, <1>13, <1>14, <1>15 DEF TransferInv

\* A result or a reservation expires.
LEMMA TransferExpires ==
    ASSUME TransferInv, NEW x \in TransferResults, Sharing!ExpireResult(x) \/ Sharing!ExpireAi(x)
    PROVE  TransferInv'
<1>1. /\ Sharing!TypeOK /\ SummedOnce /\ Unapproved /\ Sharing!RecordedTruly
      /\ NamesTaken /\ ChangesDecided /\ OneOpen
      /\ \A q \in TransferRequests : Summed(q) /\ Replacing(q)
      /\ Sharing!TransferConstants'
  BY DEF TransferInv, Sharing!TransferConstants
<1>2. /\ UNCHANGED <<transferApproval, transferDecidedBy, transferExecution, transferSent,
                     transferAnswer, transferAt, transferAbout, transferNew>>
      /\ \/ transferResult' = transferResult
         \/ transferResult[x] = "stored" /\ transferResult' = [transferResult EXCEPT ![x] = "gone"]
      /\ \/ transferAi' = transferAi
         \/ transferAi[x] = "active" /\ transferAi' = [transferAi EXCEPT ![x] = "expired"]
  BY DEF Sharing!ExpireResult, Sharing!ExpireAi
<1>3. Sharing!TypeOK'
  BY <1>1, <1>2 DEF Sharing!TypeOK
<1>4. \A y \in TransferResults :
         /\ transferResult[y] # "none" => transferResult'[y] # "none"
         /\ transferAi[y] = "settled" => transferAi'[y] = "settled"
  BY <1>1, <1>2 DEF Sharing!TypeOK
<1>5. SummedOnce' /\ Unapproved' /\ NamesTaken' /\ ChangesDecided'
  BY <1>1, <1>2 DEF SummedOnce, Unapproved, NamesTaken, ChangesDecided
<1>6. OneOpen'
  BY <1>1, <1>2 DEF OneOpen, Open, Sharing!ChangedTwice
<1>7. Sharing!RecordedTruly'
  BY <1>1, <1>2, <1>4 DEF Sharing!RecordedTruly
<1>8. \A q \in TransferRequests : Summed(q)' /\ Replacing(q)'
  <2>1. SUFFICES ASSUME NEW q \in TransferRequests PROVE Summed(q)' /\ Replacing(q)'
    OBVIOUS
  <2>2. Summed(q) /\ Replacing(q)
    BY <1>1
  <2>3. Summed(q)'
    BY <1>1, <1>2, <1>4, <2>2 DEF Summed, Sharing!TypeOK
  <2>4. Replacing(q)'
    BY <1>1, <1>2, <1>4, <2>2 DEF Replacing, Sharing!TypeOK
  <2>5. QED
    BY <2>3, <2>4
<1>9. QED
  BY <1>1, <1>3, <1>5, <1>6, <1>7, <1>8 DEF TransferInv

\* At most one element, whatever the set.
LEMMA AtMostOne ==
    ASSUME NEW S, \A x, y \in S : x = y
    PROVE  Cardinality(S) <= 1
<1>1. CASE S = {}
  BY <1>1, FS_EmptySet
<1>2. CASE S # {}
  <2>1. PICK x \in S : TRUE
    BY <1>2
  <2>2. S = {x}
    BY <2>1
  <2>3. QED
    BY <2>2, FS_Singleton
<1>3. QED
  BY <1>1, <1>2

\* Whichever requests about the approvals of one question are under way: a cloud model is
\* given a result only while its approval says so, the outcome on record is what happened,
\* and approvals and tool changes leave one open transfer (POST /v1/approvals/:id and PATCH
\* /v1/approvals/:id/tool of the assistant).
THEOREM TransfersApproved == HandlersSpec => []TransfersAsApproved
<1> DEFINE J == part = "transfer" => TransferInv
<1>1. HandlersInit => J
  BY InstanceConstants, TransferBegins DEF HandlersInit
<1>2. J /\ [HandlersNext]_allVars => J'
  <2>1. SUFFICES ASSUME J, [HandlersNext]_allVars, part' = "transfer" PROVE TransferInv'
    OBVIOUS
  <2>2. TransferInv /\ (Sharing!Next \/ UNCHANGED transferVars)
    BY <2>1 DEF HandlersNext, allVars
  <2>3. CASE UNCHANGED transferVars
    <3> USE <2>2, <2>3 DEF TransferInv, transferVars
    <3>1. Sharing!TransferConstants' /\ Sharing!TypeOK' /\ Sharing!RecordedTruly'
      BY DEF Sharing!TransferConstants, Sharing!TypeOK, Sharing!RecordedTruly
    <3>2. \A r \in TransferRequests : Summed(r)' /\ Replacing(r)'
      BY DEF Summed, Replacing
    <3>3. SummedOnce' /\ Unapproved' /\ NamesTaken' /\ ChangesDecided'
      BY DEF SummedOnce, Unapproved, NamesTaken, ChangesDecided
    <3>4. OneOpen'
      BY DEF OneOpen, Open, Sharing!ChangedTwice
    <3>5. QED
      BY <3>1, <3>2, <3>3, <3>4
  <2>4. ASSUME NEW r \in TransferRequests,
               \/ Sharing!Approve(r) \/ Sharing!CheckSettings(r) \/ Sharing!Consume(r)
               \/ Sharing!Reserve(r) \/ Sharing!Generate(r) \/ Sharing!Settle(r)
               \/ Sharing!SettleFailed(r) \/ Sharing!AppendSummary(r) \/ Sharing!Record(r)
               \/ Sharing!Fallback(r) \/ Sharing!Reject(r) \/ Sharing!Retract(r)
               \/ Sharing!Show(r) \/ Sharing!ChangeTool(r) \/ Sharing!ReadQuestion(r)
               \/ Sharing!RunTool(r) \/ Sharing!RejectOld(r) \/ Sharing!RequestNew(r)
               \/ Sharing!Crash(r)
        PROVE  TransferInv'
    BY <2>2, <2>4, TransferDecidedStep, TransferRequestStep, TransferEffects, TransferEffectStep
  <2>5. QED
    BY <2>2, <2>3, <2>4, TransferExpires DEF Sharing!Next
<1>3. J => TransfersAsApproved
  <2>1. SUFFICES ASSUME TransferInv
                 PROVE  Sharing!SentWasApproved /\ Sharing!OneOpenTransfer
    BY DEF TransfersAsApproved, TransferInv
  <2>2. Sharing!SentWasApproved
    BY <2>1 DEF TransferInv, Unapproved, Sharing!SentWasApproved, Sharing!TypeOK
  <2>3. Sharing!OneOpenTransfer
    <3>1. SUFFICES ASSUME ~Sharing!ChangedTwice
                   PROVE  Sharing!Cardinality({x \in TransferResults :
                             transferApproval[x] \in {"pending", "approved"}}) <= 1
      BY DEF Sharing!OneOpenTransfer
    <3>2. \A x, y \in {x \in TransferResults : transferApproval[x] \in {"pending", "approved"}} :
             x = y
      BY <2>1, <3>1 DEF TransferInv, OneOpen, Open
    <3>3. \A S : Sharing!Cardinality(S) = Cardinality(S)
      BY DEF Sharing!Cardinality, Cardinality
    <3>4. QED
      BY <3>2, <3>3, AtMostOne
  <2>4. QED
    BY <2>2, <2>3
<1>4. QED
  BY <1>1, <1>2, <1>3, PTL DEF HandlersSpec

-----------------------------------------------------------------------------
(***************************************************************************)
(* The commands of Discord users: DiscordLinks.                            *)
(***************************************************************************)

LinkTypes ==
    /\ Links!TypeOK
    /\ linksUses \in [LinkCodes -> SUBSET LinkInteractions]
    /\ linksActed \in [LinkInteractions -> {0, 1}]
    /\ linksWas \in [LinkInteractions -> [linked : BOOLEAN, open : BOOLEAN, live : BOOLEAN]]

\* An interaction that was claimed does not start anew, and what lets it act has held.
Claimed(i) ==
    /\ linksAt[i] = "unsent" => linksPending[i] = 0
    /\ linksAt[i] \notin {"unsent", "sent"} => i \in linksClaimed
    /\ linksActed[i] = 1 => linksAt[i] \in {"reply", "answered", "lost"}

Allowed(i) ==
    /\ linksAt[i] # "unsent" =>
          /\ Links!Linked(linksInter[i].user) => linksWas[i].linked
          /\ linksInter[i].where \in Links!OpenPlaces => linksWas[i].open
    /\ linksAt[i] \in {"guild", "act"} \/ linksActed[i] = 1 => linksWas[i].linked
    /\ linksAt[i] = "act" \/ linksActed[i] = 1 =>
          (linksInter[i].where # "dm" /\ linksInter[i].kind # "notify-here" => linksWas[i].open)

\* A code that lets an interaction go on was open since it was sent; whoever consumed it alone
\* goes on to make its link.
Linking(i) ==
    /\ linksAt[i] \in {"conflict", "consume", "upsert"} => linksWas[i].live
    /\ linksAt[i] # "unsent" /\ linksCode[linksInter[i].code] = "open" => linksWas[i].live
    /\ linksAt[i] = "upsert" =>
        linksCode[linksInter[i].code] = "consumed" /\ linksUses[linksInter[i].code] = {}

CodesUsed ==
    /\ \A i, j \in LinkInteractions :
          /\ linksAt[i] = "upsert" /\ linksAt[j] = "upsert"
          /\ linksInter[i].code = linksInter[j].code
          => i = j
    /\ \A c \in LinkCodes :
          /\ linksUses[c] # {} => linksCode[c] = "consumed"
          /\ \A i, j \in linksUses[c] : i = j
          /\ \A i \in linksUses[c] : linksAt[i] # "unsent" /\ linksWas[i].live

LinkInv ==
    /\ Links!LinkConstants /\ LinkTypes /\ CodesUsed
    /\ \A i \in LinkInteractions : Claimed(i) /\ Allowed(i) /\ Linking(i)

LEMMA LinkBegins == Links!LinkConstants /\ Links!Init => LinkInv
<1>1. SUFFICES ASSUME Links!LinkConstants, Links!Init PROVE LinkInv
  OBVIOUS
<1> USE <1>1 DEF Links!LinkConstants, Links!Init
<1>2. LinkTypes
  <2>1. /\ linksLink \in [user : LinkUsers \cup {None}, active : BOOLEAN]
        /\ linksLink.active => linksLink.user # None
    <3>1. CASE linksLink = [user |-> None, active |-> FALSE]
      BY <3>1
    <3>2. CASE linksLink \in [user : LinkUsers, active : {TRUE}]
      BY <3>2
    <3>3. QED
      BY <3>1, <3>2
  <2>2. (CHOOSE job \in LinkJobs : TRUE) \in LinkJobs
    OBVIOUS
  <2>3. QED
    BY <2>1, <2>2 DEF LinkTypes, Links!TypeOK, Links!Policies, Links!Working
<1>3. CodesUsed
  BY DEF CodesUsed
<1>4. \A i \in LinkInteractions : Claimed(i) /\ Allowed(i) /\ Linking(i)
  BY DEF Claimed, Allowed, Linking
<1>5. QED
  BY <1>2, <1>3, <1>4 DEF LinkInv

\* The owner makes and withdraws codes, unlinks, and opens and closes channels.
LEMMA LinkOwnerStep == LinkInv /\ Links!Owner => LinkInv'
<1>1. SUFFICES ASSUME LinkInv, Links!Owner PROVE LinkInv'
  OBVIOUS
<1>2. /\ LinkTypes /\ CodesUsed /\ \A i \in LinkInteractions : Claimed(i) /\ Allowed(i) /\ Linking(i)
      /\ LinkJobs \subseteq Links!Interaction /\ Links!LinkConstants'
  BY <1>1 DEF LinkInv, Links!LinkConstants
<1>3. UNCHANGED <<linksInter, linksAt, linksPending, linksClaimed, linksFaults, linksUses,
                  linksActed>>
  BY <1>1 DEF Links!Owner, Links!CreateCode, Links!Expire, Links!Unlink, Links!AskPolicy,
     Links!Configure, Links!RevokeDestination, Links!adapter, Links!histories
<1>4. /\ linksCode' \in [LinkCodes -> {"none", "open", "expired", "consumed", "deleted"}]
      /\ \A c \in LinkCodes : linksCode[c] = "consumed" => linksCode'[c] = "consumed"
  BY <1>1, <1>2 DEF LinkTypes, Links!TypeOK, Links!Owner, Links!CreateCode, Links!Expire,
     Links!Unlink, Links!AskPolicy, Links!Configure, Links!RevokeDestination
<1>5. /\ linksLink' = linksLink \/ linksLink' = [linksLink EXCEPT !.active = FALSE]
      /\ linksDest' \in [Links!Destinations -> {"none", "active", "revoked"}]
      /\ linksPolicy' \in Links!Policies /\ linksAsked' \subseteq Links!Policies
  BY <1>1, <1>2 DEF LinkTypes, Links!TypeOK, Links!Owner, Links!CreateCode, Links!Expire,
     Links!Unlink, Links!AskPolicy, Links!Configure, Links!RevokeDestination, Links!channel
\* An interaction that was sent is told of a channel that opens and of a code that is made.
<1>6. \/ /\ linksWas' = linksWas /\ Links!OpenPlaces' \subseteq Links!OpenPlaces
         /\ \A c \in LinkCodes : linksCode'[c] = "open" => linksCode[c] = "open"
      \/ /\ linksLink' = linksLink /\ linksCode' = linksCode
         /\ linksWas' = Links!Witnessed(linksLink, Links!OpenPlaces')
      \/ \E d \in LinkCodes :
            /\ linksLink' = linksLink /\ Links!OpenPlaces' = Links!OpenPlaces
            /\ \A c \in LinkCodes : c # d /\ linksCode'[c] = "open" => linksCode[c] = "open"
            /\ linksWas' = [i \in LinkInteractions |->
                  [linksWas[i] EXCEPT !.live = @ \/ (linksAt[i] # "unsent" /\ linksInter[i].code = d)]]
  <2>1. CASE \E d \in LinkCodes : Links!CreateCode(d)
    <3>1. PICK d \in LinkCodes : Links!CreateCode(d)
      BY <2>1
    <3>2. /\ linksLink' = linksLink /\ Links!OpenPlaces' = Links!OpenPlaces
          /\ \A c \in LinkCodes : c # d /\ linksCode'[c] = "open" => linksCode[c] = "open"
          /\ linksWas' = [i \in LinkInteractions |->
                [linksWas[i] EXCEPT !.live = @ \/ (linksAt[i] # "unsent" /\ linksInter[i].code = d)]]
      BY <3>1 DEF Links!CreateCode, Links!OpenPlaces, Links!channel, Links!PlacesOf
    <3>3. QED
      BY <3>2
  <2>2. CASE \/ Links!Unlink \/ \E c \in LinkCodes : Links!Expire(c)
             \/ \E p \in Links!Policies : Links!AskPolicy(p)
    <3>1. linksWas' = linksWas /\ linksDest' = linksDest /\ linksPolicy' = linksPolicy
      BY <2>2 DEF Links!Unlink, Links!Expire, Links!AskPolicy, Links!channel, Links!histories
    <3>2. \A c \in LinkCodes : linksCode'[c] = "open" => linksCode[c] = "open"
      BY <1>2, <2>2 DEF LinkTypes, Links!TypeOK, Links!Unlink, Links!Expire, Links!AskPolicy
    <3>3. QED
      BY <3>1, <3>2 DEF Links!OpenPlaces, Links!PlacesOf
  <2>3. CASE \E d \in Links!Destinations : Links!RevokeDestination(d)
    <3>1. linksWas' = linksWas /\ linksCode' = linksCode /\ linksPolicy' = linksPolicy
      BY <2>3 DEF Links!RevokeDestination, Links!histories
    <3>2. linksDest'[LinkGuild] = "active" => linksDest[LinkGuild] = "active"
      BY <1>2, <2>3 DEF LinkTypes, Links!TypeOK, Links!RevokeDestination, Links!Destinations
    <3>3. QED
      BY <3>1, <3>2 DEF Links!OpenPlaces, Links!PlacesOf
  <2>4. CASE \E p \in Links!Policies : Links!Configure(p)
    <3>1. PICK p \in Links!Policies : Links!Configure(p)
      BY <2>4
    <3>2. linksDest'[LinkGuild] = "active" /\ linksPolicy' = p
      BY <1>2, <3>1 DEF LinkTypes, Links!TypeOK, Links!Configure, Links!Destinations
    <3>3. Links!OpenPlaces' = Links!PlacesOf(p)
      BY <3>2 DEF Links!OpenPlaces, Links!PlacesOf
    <3>4. QED
      BY <3>1, <3>3 DEF Links!Configure
  <2>5. QED
    BY <1>1, <2>1, <2>2, <2>3, <2>4 DEF Links!Owner
<1>7. ASSUME NEW i \in LinkInteractions
      PROVE  /\ Allowed(i)' /\ linksWas'[i] \in [linked : BOOLEAN, open : BOOLEAN, live : BOOLEAN]
             /\ linksWas[i].live => linksWas'[i].live
             /\ linksAt[i] # "unsent" /\ linksCode'[linksInter[i].code] = "open" => linksWas'[i].live
  <2>1. linksInter[i].code \in LinkCodes
    BY <1>2 DEF LinkTypes, Links!TypeOK, Links!Interaction
  <2>2. /\ Allowed(i) /\ linksAt'[i] = linksAt[i] /\ linksInter'[i] = linksInter[i] /\ Linking(i)
        /\ linksActed'[i] = linksActed[i]
        /\ linksWas[i] \in [linked : BOOLEAN, open : BOOLEAN, live : BOOLEAN]
    BY <1>2, <1>3 DEF LinkTypes
  <2>3. \A u : Links!Linked(u)' => Links!Linked(u)
    BY <1>2, <1>5 DEF Links!Linked, LinkTypes, Links!TypeOK
  <2>4. CASE /\ linksWas' = linksWas /\ Links!OpenPlaces' \subseteq Links!OpenPlaces
             /\ \A c \in LinkCodes : linksCode'[c] = "open" => linksCode[c] = "open"
    BY <2>1, <2>2, <2>3, <2>4 DEF Allowed, Linking
  <2>5. CASE /\ linksLink' = linksLink /\ linksCode' = linksCode
             /\ linksWas' = Links!Witnessed(linksLink, Links!OpenPlaces')
    <3>1. /\ linksWas'[i].linked =
                (linksWas[i].linked \/ (linksAt[i] # "unsent" /\ Links!Linked(linksInter[i].user)))
          /\ linksWas'[i].open =
                (linksWas[i].open
                    \/ (linksAt[i] # "unsent" /\ linksInter[i].where \in Links!OpenPlaces'))
          /\ linksWas'[i].live = linksWas[i].live
          /\ linksWas'[i] \in [linked : BOOLEAN, open : BOOLEAN, live : BOOLEAN]
      BY <2>2, <2>5 DEF Links!Witnessed, Links!Linked
    <3>2. QED
      BY <2>2, <2>3, <2>5, <3>1 DEF Allowed, Linking
  <2>6. CASE \E d \in LinkCodes :
            /\ linksLink' = linksLink /\ Links!OpenPlaces' = Links!OpenPlaces
            /\ \A c \in LinkCodes : c # d /\ linksCode'[c] = "open" => linksCode[c] = "open"
            /\ linksWas' = [k \in LinkInteractions |->
                  [linksWas[k] EXCEPT !.live = @ \/ (linksAt[k] # "unsent" /\ linksInter[k].code = d)]]
    <3>1. PICK d \in LinkCodes :
            /\ linksLink' = linksLink /\ Links!OpenPlaces' = Links!OpenPlaces
            /\ \A c \in LinkCodes : c # d /\ linksCode'[c] = "open" => linksCode[c] = "open"
            /\ linksWas' = [k \in LinkInteractions |->
                  [linksWas[k] EXCEPT !.live = @ \/ (linksAt[k] # "unsent" /\ linksInter[k].code = d)]]
      BY <2>6
    <3>2. /\ linksWas'[i].linked = linksWas[i].linked /\ linksWas'[i].open = linksWas[i].open
          /\ linksWas'[i].live =
                (linksWas[i].live \/ (linksAt[i] # "unsent" /\ linksInter[i].code = d))
          /\ linksWas'[i] \in [linked : BOOLEAN, open : BOOLEAN, live : BOOLEAN]
      BY <2>2, <3>1
    <3>3. QED
      BY <2>1, <2>2, <2>3, <3>1, <3>2 DEF Allowed, Linking
  <2>7. QED
    BY <1>6, <2>4, <2>5, <2>6
<1>8. LinkTypes'
  <2>1. linksWas' \in [LinkInteractions -> [linked : BOOLEAN, open : BOOLEAN, live : BOOLEAN]]
    <3>1. linksWas' = [i \in LinkInteractions |-> linksWas'[i]]
      BY <1>2, <1>6 DEF LinkTypes, Links!Witnessed
    <3>2. QED
      BY <1>7, <3>1
  <2>2. QED
    BY <1>2, <1>3, <1>4, <1>5, <2>1 DEF LinkTypes, Links!TypeOK
<1>9. CodesUsed' /\ \A i \in LinkInteractions : Claimed(i)' /\ Linking(i)'
  <2>1. CodesUsed'
    BY <1>2, <1>3, <1>4, <1>7 DEF CodesUsed, LinkTypes
  <2>2. ASSUME NEW i \in LinkInteractions PROVE Claimed(i)' /\ Linking(i)'
    <3>1. /\ linksInter[i].code \in LinkCodes /\ Claimed(i) /\ Linking(i)
          /\ linksWas[i].live => linksWas'[i].live
          /\ linksAt[i] # "unsent" /\ linksCode'[linksInter[i].code] = "open" => linksWas'[i].live
      BY <1>2, <1>7 DEF LinkTypes, Links!TypeOK, Links!Interaction
    <3>2. QED
      BY <1>3, <1>4, <3>1 DEF Claimed, Linking
  <2>3. QED
    BY <2>1, <2>2
<1>10. QED
  BY <1>2, <1>7, <1>8, <1>9 DEF LinkInv

\* Discord sends an interaction, and the adapter answers it or is cut off.
LEMMA LinkAdapterStep ==
    ASSUME LinkInv, NEW i \in LinkInteractions,
           \/ \E job \in LinkJobs : Links!Send(i, job)
           \/ Links!SendAgain(i) \/ Links!Claim(i) \/ Links!Answer(i) \/ Links!Throw(i)
           \/ Links!CutOff(i)
    PROVE  LinkInv'
<1>1. /\ LinkTypes /\ CodesUsed /\ \A j \in LinkInteractions : Claimed(j) /\ Allowed(j) /\ Linking(j)
      /\ LinkJobs \subseteq Links!Interaction /\ Links!LinkConstants'
  BY DEF LinkInv, Links!LinkConstants
<1>2. UNCHANGED <<linksCode, linksLink, linksDest, linksPolicy, linksAsked, linksUses, linksActed>>
  BY DEF Links!Send, Links!SendAgain, Links!Claim, Links!Answer, Links!Throw, Links!CutOff,
     Links!channel, Links!histories
<1>3. \/ /\ linksAt[i] = "unsent" /\ linksAt' = [linksAt EXCEPT ![i] = "sent"]
         /\ linksClaimed' = linksClaimed
         /\ \E job \in LinkJobs :
               /\ linksInter' = [linksInter EXCEPT ![i] = job]
               /\ linksWas' = [linksWas EXCEPT ![i] =
                      [linked |-> Links!Linked(job.user), open |-> job.where \in Links!OpenPlaces,
                       live |-> linksCode[job.code] = "open"]]
      \/ /\ UNCHANGED <<linksInter, linksWas>>
         /\ \/ linksAt' = linksAt /\ linksClaimed \subseteq linksClaimed'
            \/ /\ i \notin linksClaimed /\ linksAt[i] # "unsent" /\ linksClaimed' = linksClaimed \cup {i}
               /\ linksAt' = [linksAt EXCEPT ![i] = "start"]
            \/ /\ linksAt[i] \in Links!Working /\ linksClaimed' = linksClaimed
               /\ \/ linksAt' = [linksAt EXCEPT ![i] = "reply"]
                  \/ linksAt' = [linksAt EXCEPT ![i] = "answered"]
                  \/ linksAt' = [linksAt EXCEPT ![i] = "lost"]
  <2> USE DEF Links!Goto, Links!adapter, Links!histories
  <2>1. CASE \E job \in LinkJobs : Links!Send(i, job)
    BY <2>1 DEF Links!Send
  <2>2. CASE Links!SendAgain(i)
    BY <2>2 DEF Links!SendAgain
  <2>3. CASE Links!Claim(i)
    BY <1>1, <2>3 DEF Links!Claim, Claimed
  <2>4. CASE Links!Answer(i)
    BY <2>4 DEF Links!Answer, Links!Working
  <2>5. CASE Links!Throw(i)
    BY <2>5 DEF Links!Throw
  <2>6. CASE Links!CutOff(i)
    BY <2>6 DEF Links!CutOff
  <2>7. QED
    BY <2>1, <2>2, <2>3, <2>4, <2>5, <2>6
<1>4. /\ linksPending' \in [LinkInteractions -> Nat]
  <2>1. linksPending \in [LinkInteractions -> Nat]
    BY <1>1 DEF LinkTypes, Links!TypeOK
  <2>2. \/ linksPending' = linksPending
        \/ linksPending' = [linksPending EXCEPT ![i] = 1]
        \/ linksPending' = [linksPending EXCEPT ![i] = @ + 1]
        \/ linksPending[i] > 0 /\ linksPending' = [linksPending EXCEPT ![i] = @ - 1]
    BY DEF Links!Send, Links!SendAgain, Links!Claim, Links!Answer, Links!Throw, Links!CutOff,
       Links!adapter
  <2>3. linksPending[i] + 1 \in Nat /\ (linksPending[i] > 0 => linksPending[i] - 1 \in Nat)
    BY <2>1
  <2>4. QED
    BY <2>1, <2>2, <2>3
<1>5. /\ linksAt \in [LinkInteractions -> Links!Working \cup {"unsent", "sent", "answered", "lost"}]
      /\ linksInter \in [LinkInteractions -> LinkJobs]
      /\ linksWas \in [LinkInteractions -> [linked : BOOLEAN, open : BOOLEAN, live : BOOLEAN]]
      /\ linksActed \in [LinkInteractions -> {0, 1}]
  BY <1>1 DEF LinkTypes, Links!TypeOK
<1>6. LinkTypes'
  <2>1. linksAt' \in [LinkInteractions -> Links!Working \cup {"unsent", "sent", "answered", "lost"}]
    BY <1>3, <1>5 DEF Links!Working
  <2>2. linksInter' \in [LinkInteractions -> LinkJobs]
    BY <1>3, <1>5
  <2>3. linksWas' \in [LinkInteractions -> [linked : BOOLEAN, open : BOOLEAN, live : BOOLEAN]]
    <3>1. \A u : Links!Linked(u) \in BOOLEAN
      BY <1>1 DEF LinkTypes, Links!TypeOK, Links!Linked
    <3>2. CASE linksWas' = linksWas
      BY <1>5, <3>2
    <3>3. CASE \E job \in LinkJobs : linksWas' = [linksWas EXCEPT ![i] =
                  [linked |-> Links!Linked(job.user), open |-> job.where \in Links!OpenPlaces,
                   live |-> linksCode[job.code] = "open"]]
      <4>1. PICK job \in LinkJobs : linksWas' = [linksWas EXCEPT ![i] =
                  [linked |-> Links!Linked(job.user), open |-> job.where \in Links!OpenPlaces,
                   live |-> linksCode[job.code] = "open"]]
        BY <3>3
      <4>2. /\ (job.where \in Links!OpenPlaces) \in BOOLEAN
            /\ (linksCode[job.code] = "open") \in BOOLEAN
            /\ Links!Linked(job.user) \in BOOLEAN
        BY <3>1
      <4>3. QED
        BY ONLY <1>5, <4>1, <4>2
    <3>4. QED
      BY <1>3, <3>2, <3>3
  <2>4. \A j \in LinkInteractions : linksAt'[j] \in Links!Working => j \in linksClaimed'
    BY <1>1, <1>3, <1>5 DEF Claimed, Links!Working
  <2>5. QED
    BY <1>1, <1>2, <1>4, <2>1, <2>2, <2>3, <2>4 DEF LinkTypes, Links!TypeOK, Links!Destinations
<1>7. ASSUME NEW j \in LinkInteractions
      PROVE  Claimed(j)' /\ Allowed(j)' /\ Linking(j)'
  <2>1. Claimed(j) /\ Allowed(j) /\ Linking(j)
    BY <1>1
  <2>2. Claimed(j)'
    <3>1. linksAt'[j] = "unsent" => linksPending'[j] = linksPending[j]
      <4>1. /\ \A k \in LinkInteractions : k # i => linksPending'[k] = linksPending[k]
            /\ linksAt'[i] # "unsent" \/ linksPending' = linksPending
        BY <1>1, <1>5 DEF LinkTypes, Links!TypeOK, Claimed, Links!Send, Links!SendAgain,
           Links!Claim, Links!Answer, Links!Throw, Links!CutOff, Links!adapter, Links!Goto
      <4>2. QED
        BY <4>1
    <3>2. QED
      BY <1>2, <1>3, <1>5, <2>1, <3>1 DEF Claimed, Links!Working
  <2>3. Linking(j)'
    <3>1. CASE linksAt[i] = "unsent" /\ linksAt'[i] # "unsent" /\ j = i
      <4>1. linksAt'[j] = "sent" /\ linksWas'[j].live = (linksCode[linksInter'[j].code] = "open")
        BY <1>3, <1>5, <3>1 DEF Links!Working
      <4>2. QED
        BY <1>2, <4>1 DEF Linking
    <3>2. CASE ~(linksAt[i] = "unsent" /\ linksAt'[i] # "unsent" /\ j = i)
      <4>1. linksInter'[j] = linksInter[j] /\ linksWas'[j] = linksWas[j]
        BY <1>3, <1>5, <3>2 DEF Links!Working
      <4>2. /\ linksAt'[j] \in {"conflict", "consume", "upsert"} => linksAt'[j] = linksAt[j]
            /\ linksAt'[j] # "unsent" => linksAt[j] # "unsent"
        BY <1>3, <1>5, <3>2 DEF Links!Working
      <4>3. QED
        BY <1>2, <2>1, <4>1, <4>2 DEF Linking
    <3>3. QED
      BY <3>1, <3>2
  <2>4. Links!OpenPlaces' = Links!OpenPlaces /\ \A u : Links!Linked(u)' = Links!Linked(u)
    BY <1>2 DEF Links!OpenPlaces, Links!PlacesOf, Links!Linked
  <2>5. CASE linksAt[i] = "unsent"
    <3>1. linksActed[i] = 0
      BY <1>1, <1>5, <2>5 DEF Claimed
    <3>2. CASE j = i
      <4>1. CASE UNCHANGED <<linksAt, linksWas, linksInter>>
        BY <1>2, <2>1, <2>2, <2>3, <2>4, <3>2, <4>1 DEF Allowed, Links!Linked
      <4>2. CASE \E job \in LinkJobs :
               /\ linksAt' = [linksAt EXCEPT ![i] = "sent"]
               /\ linksInter' = [linksInter EXCEPT ![i] = job]
               /\ linksWas' = [linksWas EXCEPT ![i] =
                      [linked |-> Links!Linked(job.user), open |-> job.where \in Links!OpenPlaces,
                       live |-> linksCode[job.code] = "open"]]
        <5>1. PICK job \in LinkJobs :
               /\ linksAt' = [linksAt EXCEPT ![i] = "sent"]
               /\ linksInter' = [linksInter EXCEPT ![i] = job]
               /\ linksWas' = [linksWas EXCEPT ![i] =
                      [linked |-> Links!Linked(job.user), open |-> job.where \in Links!OpenPlaces,
                       live |-> linksCode[job.code] = "open"]]
          BY <4>2
        <5>2. /\ linksAt'[i] = "sent" /\ linksInter'[i] = job
              /\ linksWas'[i].linked = Links!Linked(job.user)
              /\ linksWas'[i].open = (job.where \in Links!OpenPlaces)
          BY <1>5, <5>1
        <5>3. linksActed'[i] = 0
          BY <1>2, <3>1
        <5>4. /\ Links!Linked(linksInter[i].user)' => linksWas'[i].linked
              /\ (linksInter[i].where \in Links!OpenPlaces)' => linksWas'[i].open
          <6>1. Links!Linked(linksInter[i].user)' = Links!Linked(job.user)
            BY <1>2, <5>2 DEF Links!Linked
          <6>2. (linksInter[i].where \in Links!OpenPlaces)' => job.where \in Links!OpenPlaces
            BY <2>4, <5>2
          <6>3. QED
            BY ONLY <5>2, <6>1, <6>2
        <5>5. Allowed(i)'
          BY <5>2, <5>3, <5>4 DEF Allowed
        <5>6. QED
          BY <2>2, <2>3, <3>2, <5>5
      <4>3. QED
        BY <1>3, <2>5, <4>1, <4>2 DEF Links!Working
    <3>3. CASE j # i
      <4>1. linksAt'[j] = linksAt[j] /\ linksWas'[j] = linksWas[j] /\ linksInter'[j] = linksInter[j]
        BY <1>3, <1>5, <3>3
      <4>2. QED
        BY <1>2, <2>1, <2>2, <2>3, <2>4, <4>1 DEF Allowed
    <3>4. QED
      BY <3>2, <3>3
  <2>6. CASE linksAt[i] # "unsent"
    BY <1>2, <1>3, <1>5, <2>1, <2>2, <2>3, <2>4, <2>6 DEF Allowed
  <2>7. QED
    BY <2>5, <2>6
<1>8. CodesUsed'
  <2>1. \A j \in LinkInteractions : linksAt'[j] = "upsert" =>
            linksAt[j] = "upsert" /\ linksInter'[j] = linksInter[j]
    BY <1>3, <1>5
  <2>2. \A j \in LinkInteractions : linksAt[j] # "unsent" =>
            linksAt'[j] # "unsent" /\ linksWas'[j] = linksWas[j]
    BY <1>3, <1>5 DEF Links!Working
  <2>3. QED
    BY <1>1, <1>2, <1>5, <2>1, <2>2 DEF CodesUsed, LinkTypes
<1>9. QED
  BY <1>1, <1>6, <1>7, <1>8 DEF LinkInv

\* A claimed interaction is worked on: a link is made, or a command is allowed and acts.
LEMMA LinkHandlerStep ==
    ASSUME LinkInv, NEW i \in LinkInteractions,
           \/ Links!Start(i) \/ Links!SelectCode(i) \/ Links!CheckConflict(i)
           \/ Links!Consume(i) \/ Links!Upsert(i) \/ Links!CreateDm(i)
           \/ Links!Resolve(i) \/ Links!GuildAllowed(i) \/ Links!Act(i)
    PROVE  LinkInv'
<1>1. /\ LinkTypes /\ CodesUsed /\ \A j \in LinkInteractions : Claimed(j) /\ Allowed(j) /\ Linking(j)
      /\ LinkJobs \subseteq Links!Interaction /\ Links!LinkConstants' /\ LinkGuild \notin LinkUsers
      /\ None \notin LinkUsers
  BY DEF LinkInv, Links!LinkConstants
<1>2. /\ linksAt \in [LinkInteractions -> Links!Working \cup {"unsent", "sent", "answered", "lost"}]
      /\ linksInter \in [LinkInteractions -> LinkJobs]
      /\ linksWas \in [LinkInteractions -> [linked : BOOLEAN, open : BOOLEAN, live : BOOLEAN]]
      /\ linksActed \in [LinkInteractions -> {0, 1}]
      /\ linksCode \in [LinkCodes -> {"none", "open", "expired", "consumed", "deleted"}]
      /\ linksUses \in [LinkCodes -> SUBSET LinkInteractions]
      /\ linksInter[i].code \in LinkCodes /\ linksInter[i].user \in LinkUsers
  BY <1>1 DEF LinkTypes, Links!TypeOK, Links!Interaction
<1>3. UNCHANGED <<linksInter, linksPending, linksClaimed, linksFaults, linksPolicy>>
  BY DEF Links!Start, Links!SelectCode, Links!CheckConflict, Links!Consume, Links!Upsert,
     Links!CreateDm, Links!Resolve, Links!GuildAllowed, Links!Act, Links!adapter, Links!channel
\* How far the interaction comes, and what it meets on the way.
<1>4. \E q \in {"select", "conflict", "consume", "upsert", "create-dm", "guild", "act", "reply"} :
         /\ linksAt' = [linksAt EXCEPT ![i] = q]
         /\ linksAt[i] \in Links!Working \ {"reply"}
         /\ q = "guild" => Links!Linked(linksInter[i].user)
         /\ q = "act" => /\ linksAt[i] = "guild"
                         /\ \/ linksInter[i].where = "dm" \/ linksInter[i].kind = "notify-here"
                            \/ linksInter[i].where \in Links!OpenPlaces
         /\ q = "conflict" => linksCode[linksInter[i].code] = "open"
         /\ q = "consume" => linksAt[i] = "conflict"
  <2> USE DEF Links!Goto, Links!Working
  <2>1. CASE Links!Start(i) \/ Links!SelectCode(i) \/ Links!CheckConflict(i)
    BY <2>1 DEF Links!Start, Links!SelectCode, Links!CheckConflict
  <2>2. CASE Links!Consume(i) \/ Links!Upsert(i) \/ Links!CreateDm(i)
    BY <2>2 DEF Links!Consume, Links!Upsert, Links!CreateDm
  <2>3. CASE Links!Resolve(i) \/ Links!GuildAllowed(i) \/ Links!Act(i)
    BY <2>3 DEF Links!Resolve, Links!GuildAllowed, Links!Act
  <2>4. QED
    BY <2>1, <2>2, <2>3
\* The code, which one interaction consumes and then uses.
<1>5. \/ /\ UNCHANGED <<linksCode, linksUses>> /\ linksAt'[i] # "upsert"
      \/ /\ linksAt[i] = "consume" /\ linksUses' = linksUses
         /\ linksCode[linksInter[i].code] \in {"open", "expired"}
         /\ linksCode' = [linksCode EXCEPT ![linksInter[i].code] = "consumed"]
         /\ linksAt' = [linksAt EXCEPT ![i] = "upsert"]
      \/ /\ linksAt[i] = "upsert" /\ linksAt' = [linksAt EXCEPT ![i] = "create-dm"]
         /\ linksCode' = linksCode
         /\ linksUses' = [linksUses EXCEPT ![linksInter[i].code] = @ \cup {i}]
  <2> USE <1>2 DEF Links!Goto, Links!histories
  <2>1. CASE Links!Consume(i)
    BY <2>1 DEF Links!Consume
  <2>2. CASE Links!Upsert(i)
    BY <2>2 DEF Links!Upsert
  <2>3. CASE Links!Start(i) \/ Links!SelectCode(i) \/ Links!CheckConflict(i)
    BY <2>3 DEF Links!Start, Links!SelectCode, Links!CheckConflict
  <2>4. CASE Links!CreateDm(i) \/ Links!Resolve(i) \/ Links!GuildAllowed(i) \/ Links!Act(i)
    BY <2>4 DEF Links!CreateDm, Links!Resolve, Links!GuildAllowed, Links!Act
  <2>5. QED
    BY <2>1, <2>2, <2>3, <2>4
\* The link, of which every interaction that was sent is told.
<1>6. /\ \/ linksLink' = linksLink \/ linksLink' = [linksLink EXCEPT !.active = FALSE]
         \/ linksLink' = [user |-> linksInter[i].user, active |-> TRUE]
      /\ \/ linksWas' = Links!Witnessed(linksLink', Links!OpenPlaces) /\ linksDest' = linksDest
         \/ /\ linksWas' = linksWas
            /\ linksLink' = linksLink \/ linksLink' = [linksLink EXCEPT !.active = FALSE]
  BY DEF Links!Start, Links!SelectCode, Links!CheckConflict, Links!Consume, Links!Upsert,
     Links!CreateDm, Links!Resolve, Links!GuildAllowed, Links!Act, Links!histories, Links!channel
<1>7. /\ linksDest' \in [Links!Destinations -> {"none", "active", "revoked"}]
      /\ linksDest'[LinkGuild] = "active" => linksDest[LinkGuild] = "active"
      /\ linksAsked' \subseteq Links!Policies
  <2> USE <1>1, <1>2 DEF LinkTypes, Links!TypeOK, Links!channel, Links!Destinations
  <2>1. CASE Links!CreateDm(i)
    <3>1. /\ linksDest \in [Links!Destinations -> {"none", "active", "revoked"}]
          /\ linksInter[i].user \in Links!Destinations /\ linksInter[i].user # LinkGuild
          /\ linksAsked \subseteq Links!Policies
      OBVIOUS
    <3>2. /\ linksAsked' = linksAsked
          /\ \/ linksDest' = linksDest
             \/ linksDest' = [linksDest EXCEPT ![linksInter[i].user] = "active"]
      BY <2>1 DEF Links!CreateDm
    <3>3. QED
      BY ONLY <3>1, <3>2
  <2>2. CASE Links!Act(i)
    BY <2>2 DEF Links!Act, Links!Policies
  <2>3. CASE Links!Start(i) \/ Links!SelectCode(i) \/ Links!CheckConflict(i) \/ Links!Consume(i)
    BY <2>3 DEF Links!Start, Links!SelectCode, Links!CheckConflict, Links!Consume
  <2>4. CASE Links!Upsert(i) \/ Links!Resolve(i) \/ Links!GuildAllowed(i)
    BY <2>4 DEF Links!Upsert, Links!Resolve, Links!GuildAllowed
  <2>5. QED
    BY <2>1, <2>2, <2>3, <2>4
<1>8. /\ linksActed' = linksActed /\ linksAt[i] # "act"
      \/ /\ linksAt[i] = "act" /\ linksAt' = [linksAt EXCEPT ![i] = "reply"]
         /\ linksActed' = [linksActed EXCEPT ![i] = @ + 1]
  BY DEF Links!Start, Links!SelectCode, Links!CheckConflict, Links!Consume, Links!Upsert,
     Links!CreateDm, Links!Resolve, Links!GuildAllowed, Links!Act, Links!histories, Links!Goto
<1>9. linksAt[i] \in Links!Working \ {"reply"} => linksActed[i] = 0 /\ i \in linksClaimed
  BY <1>1, <1>2 DEF Claimed, Links!Working
<1>10. ASSUME NEW j \in LinkInteractions
       PROVE  /\ linksWas[j].linked => linksWas'[j].linked
              /\ linksWas[j].open => linksWas'[j].open
              /\ linksWas'[j].live = linksWas[j].live
              /\ linksWas'[j] \in [linked : BOOLEAN, open : BOOLEAN, live : BOOLEAN]
              /\ linksAt[j] # "unsent" =>
                    /\ Links!Linked(linksInter[j].user)' => linksWas'[j].linked
                    /\ linksInter[j].where \in Links!OpenPlaces' => linksWas'[j].open
  <2>1. Allowed(j) /\ linksWas[j] \in [linked : BOOLEAN, open : BOOLEAN, live : BOOLEAN]
    BY <1>1, <1>2
  <2>2. Links!OpenPlaces' \subseteq Links!OpenPlaces
    BY <1>3, <1>7 DEF Links!OpenPlaces, Links!PlacesOf
  <2>3. CASE linksWas' = Links!Witnessed(linksLink', Links!OpenPlaces)
    <3>1. /\ linksWas'[j].linked =
                (\/ linksWas[j].linked
                 \/ /\ linksAt[j] # "unsent" /\ linksLink'.active
                    /\ linksLink'.user = linksInter[j].user)
          /\ linksWas'[j].open = (\/ linksWas[j].open
                                 \/ /\ linksAt[j] # "unsent"
                                    /\ linksInter[j].where \in Links!OpenPlaces)
          /\ linksWas'[j].live = linksWas[j].live
          /\ linksWas'[j] \in [linked : BOOLEAN, open : BOOLEAN, live : BOOLEAN]
      BY <2>1, <2>3 DEF Links!Witnessed
    <3>2. QED
      BY <1>3, <2>1, <2>2, <3>1 DEF Allowed, Links!Linked
  <2>4. CASE /\ linksWas' = linksWas
             /\ linksLink' = linksLink \/ linksLink' = [linksLink EXCEPT !.active = FALSE]
    <3>1. \A u : Links!Linked(u)' => Links!Linked(u)
      BY <1>1, <2>4 DEF Links!Linked, LinkTypes, Links!TypeOK
    <3>2. QED
      BY <1>3, <2>1, <2>2, <2>4, <3>1 DEF Allowed
  <2>5. QED
    BY <1>6, <2>3, <2>4
<1>11. LinkTypes'
  <2>1. linksLink' \in [user : LinkUsers \cup {None}, active : BOOLEAN]
        /\ (linksLink'.active => linksLink'.user # None)
    <3>1. linksLink \in [user : LinkUsers \cup {None}, active : BOOLEAN]
          /\ (linksLink.active => linksLink.user # None)
      BY <1>1 DEF LinkTypes, Links!TypeOK
    <3>2. CASE linksLink' = linksLink
      BY <3>1, <3>2
    <3>3. CASE linksLink' = [linksLink EXCEPT !.active = FALSE]
      BY <3>1, <3>3
    <3>4. CASE linksLink' = [user |-> linksInter[i].user, active |-> TRUE]
      BY <1>1, <1>2, <3>4
    <3>5. QED
      BY <1>6, <3>2, <3>3, <3>4
  <2>2. linksCode' \in [LinkCodes -> {"none", "open", "expired", "consumed", "deleted"}]
        /\ linksUses' \in [LinkCodes -> SUBSET LinkInteractions]
    BY <1>2, <1>5
  <2>3. linksActed' \in [LinkInteractions -> {0, 1}]
    BY <1>2, <1>8, <1>9 DEF Links!Working
  <2>4. /\ linksAt' \in [LinkInteractions -> Links!Working \cup {"unsent", "sent", "answered", "lost"}]
        /\ \A j \in LinkInteractions : linksAt'[j] \in Links!Working => j \in linksClaimed
    BY <1>1, <1>2, <1>4, <1>9 DEF Links!Working, Claimed
  <2>5. linksWas' \in [LinkInteractions -> [linked : BOOLEAN, open : BOOLEAN, live : BOOLEAN]]
    BY <1>2, <1>6, <1>10 DEF Links!Witnessed
  <2>6. QED
    BY <1>1, <1>3, <1>7, <2>1, <2>2, <2>3, <2>4, <2>5 DEF LinkTypes, Links!TypeOK
<1>12. ASSUME NEW j \in LinkInteractions
       PROVE  Claimed(j)' /\ Allowed(j)' /\ Linking(j)'
  <2>1. Claimed(j) /\ Allowed(j) /\ Linking(j)
    BY <1>1
  <2>2. Claimed(j)'
    BY <1>2, <1>3, <1>4, <1>8, <1>9, <2>1 DEF Claimed, Links!Working
  <2>3. Linking(j)'
    <3>1. linksInter[j].code \in LinkCodes
      BY <1>1, <1>2 DEF Links!Interaction
    <3>2. CASE j = i
      <4>1. linksAt'[i] \in {"conflict", "consume", "upsert"} => linksWas'[i].live
        BY <1>2, <1>4, <1>5, <1>10, <2>1, <3>2 DEF Linking, Links!Working
      <4>2. linksCode'[linksInter[i].code] = "open" => linksCode[linksInter[i].code] = "open"
        BY <1>2, <1>5
      <4>3. linksAt'[i] = "upsert" =>
               linksCode'[linksInter[i].code] = "consumed" /\ linksUses'[linksInter[i].code] = {}
        BY <1>1, <1>2, <1>4, <1>5 DEF CodesUsed
      <4>4. QED
        BY <1>3, <1>4, <1>10, <2>1, <3>2, <4>1, <4>2, <4>3 DEF Linking, Links!Working
    <3>3. CASE j # i
      <4>1. linksAt'[j] = linksAt[j] /\ linksInter' = linksInter
        BY <1>2, <1>3, <1>4, <3>3
      <4>2. linksAt[i] = "upsert" /\ linksAt[j] = "upsert"
              => linksInter[i].code # linksInter[j].code
        BY <1>1, <3>3 DEF CodesUsed
      <4>3. QED
        BY ONLY <1>2, <1>5, <1>10, <2>1, <3>1, <4>1, <4>2 DEF Linking
    <3>4. QED
      BY <3>2, <3>3
  <2>4. Allowed(j)'
    <3>1. CASE j = i
      BY <1>2, <1>3, <1>4, <1>8, <1>9, <1>10, <2>1, <3>1 DEF Allowed, Links!Working
    <3>2. CASE j # i
      BY <1>2, <1>3, <1>4, <1>8, <1>10, <2>1, <3>2 DEF Allowed
    <3>3. QED
      BY <3>1, <3>2
  <2>5. QED
    BY <2>2, <2>3, <2>4
<1>13. CodesUsed'
  <2>1. \A j \in LinkInteractions : Linking(j)
    BY <1>1
  <2> DEFINE c == linksInter[i].code
  <2>7. \A j \in LinkInteractions : linksWas[j].live => linksWas'[j].live
    BY <1>10
  <2>2. CASE UNCHANGED <<linksCode, linksUses>> /\ linksAt'[i] # "upsert"
    BY <1>1, <1>2, <1>3, <1>4, <2>2, <2>7 DEF CodesUsed
  <2>3. CASE /\ linksAt[i] = "consume" /\ linksUses' = linksUses
             /\ linksCode[c] \in {"open", "expired"}
             /\ linksCode' = [linksCode EXCEPT ![c] = "consumed"]
             /\ linksAt' = [linksAt EXCEPT ![i] = "upsert"]
    BY <1>1, <1>2, <1>3, <2>1, <2>3, <2>7 DEF CodesUsed, Linking
  <2>4. CASE /\ linksAt[i] = "upsert" /\ linksAt' = [linksAt EXCEPT ![i] = "create-dm"]
             /\ linksCode' = linksCode /\ linksUses' = [linksUses EXCEPT ![c] = @ \cup {i}]
    <3>1. linksUses'[c] = {i} /\ linksCode[c] = "consumed" /\ linksWas'[i].live
      BY <1>2, <2>1, <2>4, <2>7 DEF Linking
    <3>2. \A d \in LinkCodes : d # c => linksUses'[d] = linksUses[d]
      BY <1>2, <2>4
    <3>3. \A d \in LinkCodes :
             /\ linksUses'[d] # {} => linksCode'[d] = "consumed"
             /\ \A j, k \in linksUses'[d] : j = k
             /\ \A j \in linksUses'[d] : linksAt'[j] # "unsent" /\ linksWas'[j].live
      BY <1>1, <1>2, <2>4, <2>7, <3>1, <3>2 DEF CodesUsed
    <3>4. \A j \in LinkInteractions : linksAt'[j] = "upsert" => linksAt[j] = "upsert"
      BY <1>2, <2>4
    <3>5. linksInter' = linksInter /\ CodesUsed
      BY <1>1, <1>3
    <3>6. QED
      BY ONLY <3>3, <3>4, <3>5 DEF CodesUsed
  <2>5. QED
    BY <1>5, <2>2, <2>3, <2>4
<1>14. QED
  BY <1>1, <1>11, <1>12, <1>13 DEF LinkInv

\* However often an interaction is delivered and whatever the owner does meanwhile: a code
\* makes one link, an interaction has its effect once, and only for a user who was linked
\* and, in a guild, in a channel that was open since it was sent (the Discord adapter and
\* the control worker's link codes).
THEOREM CommandsAllowed == HandlersSpec => []CommandsAsAllowed
<1> DEFINE J == part = "links" => LinkInv
<1>1. HandlersInit => J
  BY InstanceConstants, LinkBegins DEF HandlersInit
<1>2. J /\ [HandlersNext]_allVars => J'
  <2>1. SUFFICES ASSUME J, [HandlersNext]_allVars, part' = "links" PROVE LinkInv'
    OBVIOUS
  <2>2. LinkInv /\ (Links!Next \/ UNCHANGED linksVars)
    BY <2>1 DEF HandlersNext, allVars
  <2>3. CASE UNCHANGED linksVars
    <3> USE <2>2, <2>3 DEF LinkInv, linksVars
    <3>1. Links!LinkConstants' /\ LinkTypes'
      BY DEF Links!LinkConstants, Links!Interaction, LinkTypes, Links!TypeOK,
         Links!Destinations,
         Links!Policies, Links!Working
    <3>2. CodesUsed'
      BY DEF CodesUsed
    <3>3. \A i \in LinkInteractions : Claimed(i)' /\ Allowed(i)' /\ Linking(i)'
      BY DEF Claimed, Allowed, Linking, Links!Linked, Links!OpenPlaces, Links!PlacesOf
    <3>4. QED
      BY <3>1, <3>2, <3>3
  <2>4. ASSUME NEW i \in LinkInteractions,
               \/ \E job \in LinkJobs : Links!Send(i, job)
               \/ Links!SendAgain(i) \/ Links!Handle(i) \/ Links!Throw(i) \/ Links!CutOff(i)
        PROVE  LinkInv'
    BY <2>2, <2>4, LinkAdapterStep, LinkHandlerStep DEF Links!Handle
  <2>5. QED
    BY <2>2, <2>3, <2>4, LinkOwnerStep DEF Links!Next
<1>3. J => CommandsAsAllowed
  <2>1. SUFFICES ASSUME LinkInv
                 PROVE  /\ Links!CodeUsedOnce /\ Links!ActsOnce /\ Links!ActedWasAllowed
                        /\ Links!TypeOK
    BY DEF CommandsAsAllowed
  <2>2. Links!CodeUsedOnce
    <3>1. SUFFICES ASSUME NEW c \in LinkCodes
                   PROVE  /\ Links!Cardinality(linksUses[c]) <= 1
                          /\ linksUses[c] # {} => linksCode[c] = "consumed"
                          /\ \A i \in linksUses[c] : linksWas[i].live
      BY DEF Links!CodeUsedOnce
    <3>2. \A S : Links!Cardinality(S) = Cardinality(S)
      BY DEF Links!Cardinality, Cardinality
    <3>3. QED
      BY <2>1, <3>2, AtMostOne DEF LinkInv, CodesUsed
  <2>3. Links!ActsOnce /\ Links!ActedWasAllowed
    BY <2>1 DEF LinkInv, LinkTypes, Allowed, Links!ActsOnce, Links!ActedWasAllowed
  <2>4. QED
    BY <2>1, <2>2, <2>3 DEF LinkInv, LinkTypes
<1>4. QED
  BY <1>1, <1>2, <1>3, PTL DEF HandlersSpec

-----------------------------------------------------------------------------
(***************************************************************************)
(* The versions and capabilities of plugins: PluginLifecycle.              *)
(***************************************************************************)

PluginTypes ==
    /\ pluginsInst \in [PluginRequests -> Plugins!Installation \cup {None}]
    /\ pluginsVersion \in [PluginRequests -> Plugins!Version \cup {None}]
    /\ pluginsApproval \in [PluginRequests -> {"none", "pending", "approved", "rejected"}]
    /\ pluginsAt \in [PluginRequests -> Plugins!Places]
    /\ pluginsJob \in [PluginRequests -> Plugins!Job]
    /\ pluginsConsented \subseteq PluginRequests

\* Rows are made by the request they are named by, once, and an approval follows a version.
RowsNamed(r) ==
    /\ pluginsInst[r] # None => pluginsAt[r] \in {"request", "done"}
    /\ pluginsVersion[r] # None =>
          /\ pluginsAt[r] \in {"supersede", "request", "done"}
          /\ pluginsInst[pluginsVersion[r].inst] # None
    /\ pluginsAt[r] = "request" \/ pluginsApproval[r] # "none" => pluginsVersion[r] # None
    /\ pluginsAt[r] = "request" => pluginsApproval[r] = "none"
    /\ r \in pluginsConsented => pluginsApproval[r] # "none"

\* The owner approved, for this plugin, a version with this capability.
Asked(i, c) ==
    \E v \in pluginsConsented : pluginsVersion[v].inst = i /\ c \in pluginsVersion[v].caps

\* A version that may be active: approved, or in no need to ask.
Cleared(v) ==
    /\ v \in pluginsConsented \/ (pluginsApproval[v] = "none" /\ pluginsAt[v] # "request")
    /\ \A c \in pluginsVersion[v].caps : Asked(pluginsVersion[v].inst, c)

\* What a handler has read and goes on from.
JobPlaced(r) ==
    LET j == pluginsJob[r] p == pluginsAt[r] IN
    /\ p = "install" => j.key \in PluginKeys /\ (j.free => j.caps = {})
    /\ p \in {"insert", "supersede", "revoke"} => j.on # None /\ pluginsInst[j.on] # None
    /\ p = "insert" /\ j.free => \A c \in j.caps : Asked(j.on, c)
    /\ p \in {"pending", "grant"} => j.on \in pluginsConsented
    /\ p = "rollback" => j.on # None /\ pluginsVersion[j.on] # None /\ Cleared(j.on)

ActiveCleared(v) ==
    pluginsVersion[v] # None /\ pluginsVersion[v].status \in {"active", "superseded"} => Cleared(v)

GrantedAsked(i) ==
    pluginsInst[i] # None => \A c \in pluginsInst[i].granted : Asked(i, c)

KeysOnce ==
    \A i, j \in PluginRequests :
        /\ pluginsInst[i] # None /\ pluginsInst[j] # None
        /\ pluginsInst[i].key = pluginsInst[j].key
        => i = j

PluginInv ==
    /\ Plugins!PluginConstants /\ PluginTypes /\ KeysOnce
    /\ \A r \in PluginRequests :
          RowsNamed(r) /\ JobPlaced(r) /\ ActiveCleared(r) /\ GrantedAsked(r)

LEMMA PluginBegins == Plugins!PluginConstants /\ Plugins!Init => PluginInv
<1>1. SUFFICES ASSUME Plugins!PluginConstants, Plugins!Init PROVE PluginInv
  OBVIOUS
<1> USE <1>1 DEF Plugins!PluginConstants, Plugins!Init
<1>2. PluginTypes
  BY DEF PluginTypes, Plugins!Places, Plugins!Job
<1>3. KeysOnce
  BY DEF KeysOnce
<1>4. \A r \in PluginRequests : RowsNamed(r) /\ ActiveCleared(r) /\ GrantedAsked(r)
  BY DEF RowsNamed, ActiveCleared, GrantedAsked
<1>5. \A r \in PluginRequests : JobPlaced(r)
  BY DEF JobPlaced
<1>6. QED
  BY <1>2, <1>3, <1>4, <1>5 DEF PluginInv

\* Rows keep whose they are and what they ask for, and consent is not withdrawn.
RowsKept ==
    /\ \A r \in PluginRequests :
          /\ pluginsInst[r] # None => pluginsInst'[r] # None
          /\ pluginsVersion[r] # None =>
                /\ pluginsVersion'[r] # None
                /\ pluginsVersion'[r].inst = pluginsVersion[r].inst
                /\ pluginsVersion'[r].caps = pluginsVersion[r].caps
    /\ pluginsConsented \subseteq pluginsConsented'

LEMMA AskedKept ==
    ASSUME PluginInv, RowsKept, NEW i, NEW c, Asked(i, c)
    PROVE  Asked(i, c)'
<1>1. PICK v \in pluginsConsented : pluginsVersion[v].inst = i /\ c \in pluginsVersion[v].caps
  BY DEF Asked
<1>2. v \in PluginRequests /\ pluginsVersion[v] # None
  BY DEF PluginInv, PluginTypes, RowsNamed
<1>3. QED
  BY <1>1, <1>2 DEF RowsKept, Asked

\* A version that may be active may be so for ever.
LEMMA ClearedKept ==
    ASSUME PluginInv, RowsKept, NEW v \in PluginRequests, pluginsVersion[v] # None, Cleared(v),
           \/ pluginsApproval'[v] = pluginsApproval[v] /\ pluginsAt'[v] # "request"
           \/ pluginsApproval[v] # "none"
    PROVE  Cleared(v)'
<1>1. v \in pluginsConsented' \/ (pluginsApproval'[v] = "none" /\ pluginsAt'[v] # "request")
  BY DEF Cleared, RowsKept
<1>2. ASSUME NEW c \in pluginsVersion'[v].caps
      PROVE  Asked(pluginsVersion[v].inst, c)'
  BY <1>2, AskedKept DEF RowsKept, Cleared
<1>3. QED
  BY <1>1, <1>2 DEF Cleared, RowsKept, Asked

\* One handler moves: the others keep what they have read, and cleared versions stay so.
Moves(r) ==
    /\ \A q \in PluginRequests : q # r => pluginsAt'[q] = pluginsAt[q] /\ pluginsJob'[q] = pluginsJob[q]
    /\ \A v \in PluginRequests :
          \/ pluginsApproval'[v] = pluginsApproval[v]
          \/ v = r /\ pluginsAt[r] = "request"
          \/ pluginsApproval[v] = "pending" /\ pluginsApproval'[v] # "none"
    /\ pluginsAt'[r] = "request" => pluginsVersion[r] = None

LEMMA OthersKept ==
    ASSUME PluginInv, RowsKept, NEW r \in PluginRequests, Moves(r)
    PROVE  /\ \A v \in PluginRequests : pluginsVersion[v] # None /\ Cleared(v) => Cleared(v)'
           /\ \A q \in PluginRequests : q # r => JobPlaced(q)'
<1>1. ASSUME NEW v \in PluginRequests, pluginsVersion[v] # None, Cleared(v)
      PROVE  Cleared(v)'
  <2>1. RowsNamed(v)
    BY DEF PluginInv
  <2>2. \/ pluginsApproval'[v] = pluginsApproval[v] /\ pluginsAt'[v] # "request"
        \/ pluginsApproval[v] # "none"
    BY <1>1, <2>1 DEF Moves, Cleared, RowsNamed
  <2>3. QED
    BY <1>1, <2>2, ClearedKept
<1>2. ASSUME NEW q \in PluginRequests, q # r PROVE JobPlaced(q)'
  <2>1. JobPlaced(q) /\ pluginsAt'[q] = pluginsAt[q] /\ pluginsJob'[q] = pluginsJob[q]
    BY <1>2 DEF PluginInv, Moves
  <2>2. pluginsJob[q].on \in PluginRequests \cup {None}
    BY DEF PluginInv, PluginTypes, Plugins!Job
  <2>3. pluginsAt[q] = "insert" /\ pluginsJob[q].free =>
           \A c \in pluginsJob[q].caps : Asked(pluginsJob[q].on, c)'
    BY <2>1, AskedKept DEF JobPlaced
  <2>4. pluginsAt[q] = "rollback" => pluginsVersion'[pluginsJob[q].on] # None
                                     /\ Cleared(pluginsJob[q].on)'
    BY <1>1, <2>1, <2>2 DEF JobPlaced, RowsKept
  <2>5. pluginsAt[q] \in {"insert", "supersede", "revoke"} => pluginsInst'[pluginsJob[q].on] # None
    BY <2>1, <2>2 DEF JobPlaced, RowsKept
  <2>6. QED
    BY <2>1, <2>3, <2>4, <2>5 DEF JobPlaced, RowsKept, Asked, Cleared
<1>3. QED
  BY <1>1, <1>2

\* What is left to show of a step: its own rows and its own job.
LEMMA PluginStep ==
    ASSUME PluginInv, RowsKept, NEW r \in PluginRequests, Moves(r),
           PluginTypes', KeysOnce',
           \A q \in PluginRequests : RowsNamed(q)',
           JobPlaced(r)',
           \A v \in PluginRequests :
              /\ pluginsVersion'[v] # None /\ pluginsVersion'[v].status \in {"active", "superseded"}
              => \/ pluginsVersion[v] # None /\ pluginsVersion[v].status \in {"active", "superseded"}
                 \/ Cleared(v)',
           \A i \in PluginRequests :
              pluginsInst'[i] # None =>
                 \/ pluginsInst[i] # None /\ pluginsInst'[i].granted = pluginsInst[i].granted
                 \/ \A c \in pluginsInst'[i].granted : Asked(i, c)'
    PROVE  PluginInv'
<1>1. Plugins!PluginConstants'
  BY DEF PluginInv, Plugins!PluginConstants, Plugins!Installation, Plugins!Version
<1>2. \A q \in PluginRequests : JobPlaced(q)'
  BY OthersKept
<1>3. \A v \in PluginRequests : ActiveCleared(v)'
  BY OthersKept DEF ActiveCleared, PluginInv
<1>4. \A i \in PluginRequests : GrantedAsked(i)'
  <2>1. SUFFICES ASSUME NEW i \in PluginRequests, pluginsInst'[i] # None,
                        NEW c \in pluginsInst'[i].granted
                 PROVE  Asked(i, c)'
    BY DEF GrantedAsked, Asked
  <2>2. CASE pluginsInst[i] # None /\ pluginsInst'[i].granted = pluginsInst[i].granted
    BY <2>1, <2>2, AskedKept DEF PluginInv, GrantedAsked
  <2>3. QED
    BY <2>1, <2>2
<1>5. QED
  BY <1>1, <1>2, <1>3, <1>4 DEF PluginInv

\* A handler reads what it needs, or is over.
LEMMA PluginReads ==
    ASSUME PluginInv, NEW r \in PluginRequests,
           \/ Plugins!Install(r) \/ Plugins!AddVersion(r) \/ Plugins!FindPending(r)
           \/ Plugins!FindTarget(r) \/ Plugins!Crash(r)
           \/ Plugins!InstallRows(r) /\ Plugins!Uses(pluginsJob[r].key)
    PROVE  PluginInv' /\ pluginsInst' = pluginsInst
<1>1. /\ PluginTypes /\ KeysOnce
      /\ \A q \in PluginRequests : RowsNamed(q) /\ JobPlaced(q) /\ ActiveCleared(q) /\ GrantedAsked(q)
      /\ None \notin PluginRequests
  BY DEF PluginInv, Plugins!PluginConstants
<1>2. UNCHANGED <<pluginsInst, pluginsVersion, pluginsApproval, pluginsConsented>>
  BY DEF Plugins!Install, Plugins!AddVersion, Plugins!FindPending, Plugins!FindTarget,
     Plugins!Crash, Plugins!InstallRows, Plugins!Answers, Plugins!Reads
\* Where it goes, and what it has read.
<1>3. /\ pluginsAt[r] \in Plugins!Places \ {"done"}
      /\ \/ pluginsAt' = [pluginsAt EXCEPT ![r] = "done"] /\ pluginsJob' = pluginsJob
         \/ /\ pluginsAt[r] = "pending" /\ pluginsAt' = [pluginsAt EXCEPT ![r] = "grant"]
            /\ pluginsJob' = pluginsJob
         \/ /\ pluginsAt[r] = "start"
            /\ \E j \in Plugins!Job :
                  /\ pluginsJob' = [pluginsJob EXCEPT ![r] = j]
                  /\ \/ /\ pluginsAt' = [pluginsAt EXCEPT ![r] = "install"]
                        /\ j.key \in PluginKeys /\ (j.free => j.caps = {})
                     \/ /\ pluginsAt' = [pluginsAt EXCEPT ![r] = "insert"]
                        /\ j.on \in PluginRequests /\ pluginsInst[j.on] # None
                        /\ j.free => j.caps \subseteq pluginsInst[j.on].granted
                     \/ /\ pluginsAt' = [pluginsAt EXCEPT ![r] = "rollback"]
                        /\ j.on \in PluginRequests /\ pluginsVersion[j.on] # None
                        /\ pluginsVersion[j.on].status \in {"active", "superseded"}
  <2> USE <1>1 DEF Plugins!Answers, Plugins!Goto, Plugins!Starts, Plugins!Places
  <2>1. CASE Plugins!Install(r)
    <3>1. CASE Plugins!Answers(r)
      BY <2>1, <3>1 DEF Plugins!Install
    <3>2. ASSUME NEW k \in PluginKeys, NEW caps \in SUBSET PluginCapabilities,
                 Plugins!Reads(r, "install", None, caps, caps = {}, k)
          PROVE  /\ pluginsAt' = [pluginsAt EXCEPT ![r] = "install"]
                 /\ \E j \in Plugins!Job :
                       /\ pluginsJob' = [pluginsJob EXCEPT ![r] = j]
                       /\ j.key \in PluginKeys /\ (j.free => j.caps = {})
      <4> DEFINE j == [on |-> None, caps |-> caps, free |-> caps = {}, key |-> k]
      <4>1. j \in Plugins!Job /\ j.key = k /\ (j.free => j.caps = {})
        BY DEF Plugins!Job
      <4>2. pluginsJob' = [pluginsJob EXCEPT ![r] = j]
            /\ pluginsAt' = [pluginsAt EXCEPT ![r] = "install"]
        BY <3>2 DEF Plugins!Reads
      <4> HIDE DEF j
      <4>3. QED
        BY <4>1, <4>2
    <3>3. QED
      BY <2>1, <3>1, <3>2 DEF Plugins!Install
  <2>2. CASE Plugins!AddVersion(r)
    <3>1. PICK i \in Plugins!Kept, caps \in SUBSET PluginCapabilities :
             Plugins!Reads(r, "insert", i, caps, caps \subseteq pluginsInst[i].granted, None)
      BY <2>2 DEF Plugins!AddVersion
    <3> DEFINE j == [on |-> i, caps |-> caps, free |-> caps \subseteq pluginsInst[i].granted,
                     key |-> None]
    <3>2. i \in PluginRequests /\ pluginsInst[i] # None
      BY DEF Plugins!Kept, Plugins!Installed
    <3>3. j \in Plugins!Job /\ j.on = i /\ (j.free => j.caps \subseteq pluginsInst[j.on].granted)
      BY <3>2 DEF Plugins!Job
    <3>4. pluginsJob' = [pluginsJob EXCEPT ![r] = j]
          /\ pluginsAt' = [pluginsAt EXCEPT ![r] = "insert"] /\ pluginsAt[r] = "start"
      BY <2>2, <3>1 DEF Plugins!Reads, Plugins!AddVersion
    <3> HIDE DEF j
    <3>5. QED
      BY <3>2, <3>3, <3>4
  <2>3. CASE Plugins!FindTarget(r)
    <3>1. PICK v \in Plugins!Made : /\ pluginsVersion[v].status \in {"active", "superseded"}
                                    /\ Plugins!Reads(r, "rollback", v, {}, FALSE, None)
      BY <2>3 DEF Plugins!FindTarget
    <3> DEFINE j == [on |-> v, caps |-> {}, free |-> FALSE, key |-> None]
    <3>2. v \in PluginRequests /\ pluginsVersion[v] # None
      BY DEF Plugins!Made
    <3>3. j \in Plugins!Job /\ j.on = v
      BY <3>2 DEF Plugins!Job
    <3>4. pluginsJob' = [pluginsJob EXCEPT ![r] = j]
          /\ pluginsAt' = [pluginsAt EXCEPT ![r] = "rollback"] /\ pluginsAt[r] = "start"
      BY <2>3, <3>1 DEF Plugins!Reads, Plugins!FindTarget
    <3> HIDE DEF j
    <3>5. QED
      BY <3>1, <3>2, <3>3, <3>4
  <2>4. CASE Plugins!FindPending(r)
    BY <2>4 DEF Plugins!FindPending
  <2>5. CASE Plugins!Crash(r)
    BY <2>5 DEF Plugins!Crash, PluginTypes
  <2>6. CASE Plugins!InstallRows(r) /\ Plugins!Uses(pluginsJob[r].key)
    BY <2>6 DEF Plugins!InstallRows
  <2>7. QED
    BY <2>1, <2>2, <2>3, <2>4, <2>5, <2>6
<1>4. RowsKept
  BY <1>2 DEF RowsKept
<1>5. Moves(r)
  BY <1>1, <1>2, <1>3 DEF Moves, PluginTypes
<1>6. PluginTypes'
  BY <1>1, <1>2, <1>3 DEF PluginTypes, Plugins!Places
<1>7. \A q \in PluginRequests : RowsNamed(q)'
  BY <1>1, <1>2, <1>3 DEF RowsNamed, PluginTypes, Plugins!Places
<1>8. JobPlaced(r)'
  BY <1>1, <1>2, <1>3 DEF JobPlaced, PluginTypes, GrantedAsked, ActiveCleared, Asked, Cleared
<1>9. KeysOnce'
  BY <1>1, <1>2 DEF KeysOnce
<1>10. QED
  BY <1>2, <1>4, <1>5, <1>6, <1>7, <1>8, <1>9, PluginStep

\* A removed installation is left removed.
RemovedStays ==
    \A i \in PluginRequests :
        pluginsInst[i] # None /\ pluginsInst[i].status = "removed" => pluginsInst'[i].status = "removed"

\* An installation and its first version, or a further version, are written.
LEMMA PluginRows ==
    ASSUME PluginInv, NEW r \in PluginRequests,
           \/ Plugins!InstallRows(r) /\ ~Plugins!Uses(pluginsJob[r].key)
           \/ Plugins!InsertVersion(r)
    PROVE  PluginInv' /\ RemovedStays
<1> DEFINE j == pluginsJob[r]
           n == Plugins!NewInstallation(r)
<1>1. /\ PluginTypes /\ KeysOnce
      /\ \A q \in PluginRequests : RowsNamed(q) /\ JobPlaced(q) /\ ActiveCleared(q) /\ GrantedAsked(q)
      /\ None \notin PluginRequests /\ None \notin Plugins!Installation /\ None \notin Plugins!Version
  BY DEF PluginInv, Plugins!PluginConstants
<1>2. /\ pluginsAt[r] \in {"install", "insert"} /\ pluginsVersion[r] = None /\ pluginsInst[r] = None
      /\ j \in Plugins!Job /\ JobPlaced(r)
      /\ UNCHANGED <<pluginsApproval, pluginsJob, pluginsConsented>>
  BY <1>1 DEF Plugins!InstallRows, Plugins!InsertVersion, RowsNamed, PluginTypes
<1>3. PICK i \in PluginRequests : i = IF pluginsAt[r] = "install" THEN r ELSE j.on
  BY <1>1, <1>2 DEF JobPlaced, Plugins!Job
<1>4. j.caps \in SUBSET PluginCapabilities /\ j.free \in BOOLEAN
  BY <1>1, <1>2 DEF JobPlaced, Plugins!Job
<1> DEFINE v == Plugins!NewVersion(r, i)
<1>5. /\ v \in Plugins!Version /\ v # None /\ v.inst = i /\ v.caps = j.caps
      /\ v.status \in {"active", "superseded"} => j.free
  BY <1>1, <1>3, <1>4 DEF Plugins!NewVersion, Plugins!Version
<1>6. pluginsAt[r] = "install" =>
         n \in Plugins!Installation /\ n # None /\ n.granted = {} /\ n.key = j.key
  <2>1. pluginsAt[r] = "install" => j.key \in PluginKeys
    BY <1>2 DEF JobPlaced
  <2>2. QED
    BY <1>1, <1>4, <2>1 DEF Plugins!NewInstallation, Plugins!Installation
<1>7. /\ pluginsVersion' = [pluginsVersion EXCEPT ![r] = v]
      /\ \/ pluginsAt[r] = "insert" /\ pluginsInst' = pluginsInst
         \/ /\ pluginsAt[r] = "install" /\ pluginsInst' = [pluginsInst EXCEPT ![r] = n]
            /\ \A k \in PluginRequests : pluginsInst[k] # None => pluginsInst[k].key # j.key
      /\ \/ /\ j.free /\ pluginsAt[r] = "install"
            /\ pluginsAt' = [pluginsAt EXCEPT ![r] = "done"]
         \/ /\ j.free /\ pluginsAt[r] = "insert"
            /\ pluginsAt' = [pluginsAt EXCEPT ![r] = "supersede"]
         \/ ~j.free /\ pluginsAt' = [pluginsAt EXCEPT ![r] = "request"]
  <2>1. CASE Plugins!InstallRows(r) /\ ~Plugins!Uses(pluginsJob[r].key)
    BY <1>3, <2>1 DEF Plugins!InstallRows, Plugins!Uses, Plugins!Installed, Plugins!Goto
  <2>2. CASE Plugins!InsertVersion(r)
    BY <1>3, <2>2 DEF Plugins!InsertVersion, Plugins!Goto
  <2>3. QED
    BY <2>1, <2>2
<1>8. /\ i = r => pluginsAt[r] = "install"
      /\ pluginsAt[r] = "insert" => pluginsInst[i] # None /\ i # r
  BY <1>1, <1>2, <1>3 DEF JobPlaced
<1> HIDE DEF j, n, v
<1>9. PluginTypes'
  BY <1>1, <1>2, <1>5, <1>6, <1>7 DEF PluginTypes, Plugins!Places
<1>10. RowsKept
  BY <1>1, <1>2, <1>6, <1>7 DEF RowsKept, PluginTypes
<1>11. pluginsJob[r] = j
  BY DEF j
<1>12. Moves(r)
  BY <1>1, <1>2, <1>7 DEF Moves, PluginTypes
<1>13. \A q \in PluginRequests : RowsNamed(q)'
  <2>1. ASSUME NEW q \in PluginRequests, q # r PROVE RowsNamed(q)'
    <3>1. RowsNamed(q) /\ (pluginsVersion[q] # None => pluginsVersion[q].inst \in PluginRequests)
      BY <1>1 DEF PluginTypes, Plugins!Version
    <3>2. pluginsVersion'[q] = pluginsVersion[q] /\ pluginsInst'[q] = pluginsInst[q]
          /\ pluginsAt'[q] = pluginsAt[q]
      BY <1>1, <1>7, <2>1 DEF PluginTypes
    <3>3. QED
      BY <1>2, <1>10, <3>1, <3>2 DEF RowsNamed, RowsKept
  <2>2. RowsNamed(r)'
    <3>1. pluginsInst'[i] # None
      BY <1>1, <1>3, <1>6, <1>7, <1>8 DEF PluginTypes
    <3>2. /\ pluginsVersion'[r] = v /\ pluginsAt'[r] \in {"done", "supersede", "request"}
          /\ pluginsInst'[r] # None => pluginsAt'[r] \in {"request", "done"}
      BY <1>1, <1>2, <1>7 DEF PluginTypes
    <3>3. pluginsApproval[r] = "none" /\ r \notin pluginsConsented
      BY <1>1, <1>2 DEF RowsNamed
    <3>4. QED
      BY <1>2, <1>5, <3>1, <3>2, <3>3 DEF RowsNamed
  <2>3. QED
    BY <2>1, <2>2
<1>14. JobPlaced(r)'
  <2>1. pluginsAt'[r] = "supersede" => j.on # None /\ pluginsInst'[j.on] # None
    BY <1>1, <1>2, <1>7, <1>11 DEF JobPlaced, PluginTypes
  <2>2. pluginsAt'[r] \in {"done", "supersede", "request"}
    BY <1>1, <1>7 DEF PluginTypes
  <2>3. QED
    BY <1>2, <1>11, <2>1, <2>2 DEF JobPlaced
<1>15. KeysOnce'
  <2>1. CASE pluginsInst' = pluginsInst
    BY <1>1, <2>1 DEF KeysOnce
  <2>2. CASE /\ pluginsAt[r] = "install" /\ pluginsInst' = [pluginsInst EXCEPT ![r] = n]
             /\ \A k \in PluginRequests : pluginsInst[k] # None => pluginsInst[k].key # j.key
    BY <1>1, <1>6, <2>2 DEF KeysOnce, PluginTypes
  <2>3. QED
    BY <1>7, <2>1, <2>2
\* A version that need not ask has what was asked for before.
<1>16. j.free => Cleared(r)'
  <2>1. ASSUME j.free, NEW c \in j.caps PROVE Asked(i, c)'
    <3>1. pluginsAt[r] = "insert" /\ i = j.on
      BY <1>2, <1>3, <1>11, <2>1 DEF JobPlaced
    <3>2. Asked(i, c)
      BY <1>2, <1>11, <2>1, <3>1 DEF JobPlaced
    <3>3. QED
      BY <1>10, <3>2, AskedKept
  <2>2. pluginsApproval[r] = "none"
    BY <1>1, <1>2 DEF RowsNamed
  <2>3. j.free => pluginsAt'[r] # "request"
    BY <1>1, <1>7 DEF PluginTypes
  <2>4. pluginsVersion'[r] = v
    BY <1>1, <1>7 DEF PluginTypes
  <2>5. QED
    BY <1>2, <1>5, <2>1, <2>2, <2>3, <2>4 DEF Cleared, Asked
<1>17. \A w \in PluginRequests :
          /\ pluginsVersion'[w] # None /\ pluginsVersion'[w].status \in {"active", "superseded"}
          => \/ pluginsVersion[w] # None /\ pluginsVersion[w].status \in {"active", "superseded"}
             \/ Cleared(w)'
  BY <1>1, <1>5, <1>7, <1>16 DEF PluginTypes
<1>18. \A k \in PluginRequests :
          pluginsInst'[k] # None =>
             \/ pluginsInst[k] # None /\ pluginsInst'[k].granted = pluginsInst[k].granted
             \/ \A c \in pluginsInst'[k].granted : Asked(k, c)'
  BY <1>1, <1>6, <1>7 DEF PluginTypes
<1>19. RemovedStays
  BY <1>1, <1>2, <1>7 DEF RemovedStays, PluginTypes
<1>20. QED
  BY <1>9, <1>10, <1>12, <1>13, <1>14, <1>15, <1>17, <1>18, <1>19, PluginStep

\* An approval is requested, or decided.
LEMMA PluginDecided ==
    ASSUME PluginInv, NEW r \in PluginRequests, Plugins!RequestApproval(r) \/ Plugins!Decide(r)
    PROVE  PluginInv' /\ RemovedStays
<1>1. /\ PluginTypes /\ KeysOnce
      /\ \A q \in PluginRequests : RowsNamed(q) /\ JobPlaced(q) /\ ActiveCleared(q) /\ GrantedAsked(q)
      /\ None \notin PluginRequests
  BY DEF PluginInv, Plugins!PluginConstants
<1>2. UNCHANGED <<pluginsInst, pluginsVersion>>
  BY DEF Plugins!RequestApproval, Plugins!Decide
<1>3. \/ /\ pluginsAt[r] = "request" /\ pluginsAt' = [pluginsAt EXCEPT ![r] = "done"]
         /\ pluginsApproval' = [pluginsApproval EXCEPT ![r] = "pending"]
         /\ UNCHANGED <<pluginsJob, pluginsConsented>>
      \/ /\ pluginsAt[r] = "start"
         /\ \E v \in PluginRequests :
               /\ pluginsApproval[v] = "pending"
               /\ \/ pluginsApproval' = [pluginsApproval EXCEPT ![v] = "approved"]
                  \/ pluginsApproval' = [pluginsApproval EXCEPT ![v] = "rejected"]
               /\ pluginsJob' = [pluginsJob EXCEPT ![r].on = v]
               /\ \/ /\ pluginsConsented' = pluginsConsented \cup {v}
                     /\ pluginsAt' = [pluginsAt EXCEPT ![r] = "pending"]
                  \/ /\ pluginsConsented' = pluginsConsented
                     /\ pluginsAt' = [pluginsAt EXCEPT ![r] = "done"]
  BY DEF Plugins!RequestApproval, Plugins!Decide, Plugins!Goto, Plugins!Starts
<1>4. RowsKept
  BY <1>2, <1>3 DEF RowsKept
<1>5. /\ pluginsJob' \in [PluginRequests -> Plugins!Job]
      /\ \A q \in PluginRequests : q # r => pluginsJob'[q] = pluginsJob[q]
      /\ pluginsAt'[r] = "pending" => pluginsJob'[r].on \in pluginsConsented'
  <2>1. pluginsJob \in [PluginRequests -> Plugins!Job] /\ pluginsJob[r] \in Plugins!Job
    BY <1>1 DEF PluginTypes
  <2>2. \A v \in PluginRequests : [pluginsJob[r] EXCEPT !.on = v] \in Plugins!Job
                                  /\ [pluginsJob[r] EXCEPT !.on = v].on = v
    BY <2>1 DEF Plugins!Job
  <2>3. \/ pluginsJob' = pluginsJob /\ pluginsAt'[r] # "pending"
        \/ \E v \in PluginRequests :
              /\ pluginsJob' = [pluginsJob EXCEPT ![r] = [pluginsJob[r] EXCEPT !.on = v]]
              /\ pluginsAt'[r] = "pending" => v \in pluginsConsented'
    BY <1>1, <1>3 DEF PluginTypes
  <2>4. QED
    BY <2>1, <2>2, <2>3
<1>6. Moves(r)
  BY <1>1, <1>2, <1>3, <1>5 DEF Moves, PluginTypes
<1>7. PluginTypes'
  BY <1>1, <1>2, <1>3, <1>5 DEF PluginTypes, Plugins!Places
<1>8. \A q \in PluginRequests : RowsNamed(q)'
  BY <1>1, <1>2, <1>3 DEF RowsNamed, PluginTypes
<1>9. JobPlaced(r)'
  BY <1>1, <1>3, <1>5 DEF JobPlaced, PluginTypes
<1>10. KeysOnce' /\ RemovedStays
  BY <1>1, <1>2 DEF KeysOnce, RemovedStays
<1>11. QED
  BY <1>2, <1>4, <1>6, <1>7, <1>8, <1>9, <1>10, PluginStep

\* The other active versions of an installation are superseded; rows stay what they are.
LEMMA PluginSuperseded ==
    ASSUME PluginTypes, None \notin Plugins!Version, NEW i, NEW v, NEW w \in PluginRequests
    PROVE  /\ Plugins!Superseded(i, v)[w] \in Plugins!Version \cup {None}
           /\ Plugins!Superseded(i, v)[w] # None <=> pluginsVersion[w] # None
           /\ pluginsVersion[w] # None =>
                /\ Plugins!Superseded(i, v)[w].inst = pluginsVersion[w].inst
                /\ Plugins!Superseded(i, v)[w].caps = pluginsVersion[w].caps
                /\ \/ Plugins!Superseded(i, v)[w].status = pluginsVersion[w].status
                   \/ pluginsVersion[w].status = "active"
<1>1. CASE pluginsVersion[w] = None
  BY <1>1 DEF Plugins!Superseded, Plugins!Made
<1>2. CASE pluginsVersion[w] \in Plugins!Version
  <2>1. [pluginsVersion[w] EXCEPT !.status = "superseded"] \in Plugins!Version
    BY <1>2 DEF Plugins!Version
  <2>2. \/ Plugins!Superseded(i, v)[w] = pluginsVersion[w]
        \/ /\ pluginsVersion[w].status = "active"
           /\ Plugins!Superseded(i, v)[w] = [pluginsVersion[w] EXCEPT !.status = "superseded"]
    BY DEF Plugins!Superseded
  <2>3. QED
    BY <1>2, <2>1, <2>2 DEF Plugins!Version
<1>3. QED
  BY <1>1, <1>2 DEF PluginTypes

\* What a step of an installation's rows must keep, whatever statuses it sets.
LEMMA PluginRowsStep ==
    ASSUME PluginInv, NEW r \in PluginRequests,
           pluginsAt[r] # "request",
           \/ pluginsAt' = [pluginsAt EXCEPT ![r] = "done"] /\ pluginsJob' = pluginsJob
           \/ /\ pluginsAt[r] = "start" /\ pluginsAt' = [pluginsAt EXCEPT ![r] = "revoke"]
              /\ \E i \in PluginRequests : /\ pluginsInst[i] # None
                                           /\ pluginsJob' = [pluginsJob EXCEPT ![r].on = i],
           UNCHANGED <<pluginsApproval, pluginsConsented>>,
           pluginsInst' \in [PluginRequests -> Plugins!Installation \cup {None}],
           pluginsVersion' \in [PluginRequests -> Plugins!Version \cup {None}],
           \A w \in PluginRequests :
              /\ pluginsVersion'[w] # None <=> pluginsVersion[w] # None
              /\ pluginsVersion[w] # None =>
                   /\ pluginsVersion'[w].inst = pluginsVersion[w].inst
                   /\ pluginsVersion'[w].caps = pluginsVersion[w].caps
                   /\ pluginsVersion'[w].status \in {"active", "superseded"} =>
                         pluginsVersion[w].status \in {"active", "superseded"} \/ Cleared(w),
           \A i \in PluginRequests :
              /\ pluginsInst'[i] # None <=> pluginsInst[i] # None
              /\ pluginsInst[i] # None =>
                   /\ pluginsInst'[i].key = pluginsInst[i].key
                   /\ \/ pluginsInst'[i].granted = pluginsInst[i].granted
                      \/ \A c \in pluginsInst'[i].granted : Asked(i, c)
    PROVE  PluginInv'
<1>1. /\ PluginTypes /\ KeysOnce
      /\ \A q \in PluginRequests : RowsNamed(q) /\ JobPlaced(q) /\ ActiveCleared(q) /\ GrantedAsked(q)
      /\ None \notin PluginRequests
  BY DEF PluginInv, Plugins!PluginConstants
<1>2. RowsKept
  BY DEF RowsKept
<1>3. /\ pluginsJob' \in [PluginRequests -> Plugins!Job]
      /\ \A q \in PluginRequests : q # r => pluginsJob'[q] = pluginsJob[q]
      /\ pluginsAt'[r] = "revoke" => pluginsJob'[r].on # None /\ pluginsInst'[pluginsJob'[r].on] # None
  <2>1. pluginsJob \in [PluginRequests -> Plugins!Job] /\ pluginsJob[r] \in Plugins!Job
        /\ pluginsAt \in [PluginRequests -> Plugins!Places]
    BY <1>1 DEF PluginTypes
  <2>2. \A i \in PluginRequests : [pluginsJob[r] EXCEPT !.on = i] \in Plugins!Job
                                  /\ [pluginsJob[r] EXCEPT !.on = i].on = i
    BY <2>1 DEF Plugins!Job
  <2>3. \/ pluginsJob' = pluginsJob /\ pluginsAt'[r] # "revoke"
        \/ \E i \in PluginRequests :
              /\ pluginsJob' = [pluginsJob EXCEPT ![r] = [pluginsJob[r] EXCEPT !.on = i]]
              /\ i # None /\ pluginsInst'[i] # None
    BY <1>1, <2>1
  <2>4. CASE pluginsJob' = pluginsJob /\ pluginsAt'[r] # "revoke"
    BY <2>1, <2>4
  <2>5. ASSUME NEW i \in PluginRequests,
               pluginsJob' = [pluginsJob EXCEPT ![r] = [pluginsJob[r] EXCEPT !.on = i]],
               i # None, pluginsInst'[i] # None
        PROVE  /\ pluginsJob' \in [PluginRequests -> Plugins!Job]
               /\ \A q \in PluginRequests : q # r => pluginsJob'[q] = pluginsJob[q]
               /\ pluginsJob'[r].on = i
    BY <2>1, <2>2, <2>5
  <2>6. QED
    BY ONLY <2>3, <2>4, <2>5
<1>4. Moves(r)
  BY <1>1, <1>3 DEF Moves, PluginTypes
<1>5. PluginTypes'
  BY <1>1, <1>3 DEF PluginTypes, Plugins!Places
<1>6. \A q \in PluginRequests : RowsNamed(q)'
  <2>1. SUFFICES ASSUME NEW q \in PluginRequests PROVE RowsNamed(q)'
    OBVIOUS
  <2>2. RowsNamed(q) /\ (pluginsVersion[q] # None => pluginsVersion[q].inst \in PluginRequests)
    BY <1>1 DEF PluginTypes, Plugins!Version
  <2>3. /\ pluginsInst'[q] # None <=> pluginsInst[q] # None
        /\ pluginsVersion'[q] # None <=> pluginsVersion[q] # None
        /\ pluginsVersion[q] # None => /\ pluginsVersion'[q].inst = pluginsVersion[q].inst
                                       /\ pluginsInst'[pluginsVersion[q].inst] # None
    BY <2>2 DEF RowsNamed
  <2>4. \/ pluginsAt'[q] = pluginsAt[q]
        \/ pluginsAt'[q] = "done"
        \/ pluginsAt'[q] = "revoke" /\ pluginsAt[q] = "start"
    BY <1>1 DEF PluginTypes
  <2>5. QED
    BY <2>2, <2>3, <2>4 DEF RowsNamed
<1>7. JobPlaced(r)'
  <2>1. pluginsAt'[r] \in {"done", "revoke"}
    BY <1>1 DEF PluginTypes
  <2>2. QED
    BY <1>3, <2>1 DEF JobPlaced
<1>8. KeysOnce'
  BY <1>1 DEF KeysOnce
<1>9. ASSUME NEW w \in PluginRequests, pluginsVersion'[w] # None,
             pluginsVersion'[w].status \in {"active", "superseded"},
             ~(pluginsVersion[w] # None /\ pluginsVersion[w].status \in {"active", "superseded"})
      PROVE  Cleared(w)'
  BY <1>2, <1>4, <1>9, OthersKept
<1>10. ASSUME NEW i \in PluginRequests, pluginsInst'[i] # None,
              ~(pluginsInst[i] # None /\ pluginsInst'[i].granted = pluginsInst[i].granted),
              NEW c \in pluginsInst'[i].granted
       PROVE  Asked(i, c)'
  BY <1>2, <1>10, AskedKept
<1>11. QED
  BY <1>2, <1>4, <1>5, <1>6, <1>7, <1>8, <1>9, <1>10, PluginStep

\* A version becomes active, in an installation that was not removed or in one that was.
LEMMA PluginActivated ==
    ASSUME PluginInv, NEW v \in PluginRequests, pluginsVersion[v] # None, Cleared(v),
           Plugins!Activated(v)
    PROVE  /\ pluginsInst' \in [PluginRequests -> Plugins!Installation \cup {None}]
           /\ pluginsVersion' \in [PluginRequests -> Plugins!Version \cup {None}]
           /\ \A w \in PluginRequests :
                 /\ pluginsVersion'[w] # None <=> pluginsVersion[w] # None
                 /\ pluginsVersion[w] # None =>
                      /\ pluginsVersion'[w].inst = pluginsVersion[w].inst
                      /\ pluginsVersion'[w].caps = pluginsVersion[w].caps
                      /\ pluginsVersion'[w].status \in {"active", "superseded"} =>
                            pluginsVersion[w].status \in {"active", "superseded"} \/ Cleared(w)
           /\ \A i \in PluginRequests :
                 /\ pluginsInst'[i] # None <=> pluginsInst[i] # None
                 /\ pluginsInst[i] # None =>
                      /\ pluginsInst'[i].key = pluginsInst[i].key
                      /\ \/ pluginsInst'[i].granted = pluginsInst[i].granted
                         \/ \A c \in pluginsInst'[i].granted : Asked(i, c)
           /\ RemovedStays
<1> DEFINE i == pluginsVersion[v].inst
           S == Plugins!Superseded(i, v)
<1>1. /\ PluginTypes /\ None \notin Plugins!Installation /\ None \notin Plugins!Version
      /\ pluginsVersion[v] \in Plugins!Version /\ i \in PluginRequests
  BY DEF PluginInv, PluginTypes, Plugins!PluginConstants, Plugins!Version
<1>2. /\ pluginsVersion' = [S EXCEPT ![v].status = "active"]
      /\ \/ pluginsInst' = pluginsInst
         \/ /\ pluginsInst[i] # None /\ pluginsInst[i].status # "removed"
            /\ pluginsInst' = [pluginsInst EXCEPT ![i] =
                  [pluginsInst[i] EXCEPT !.status = "active", !.granted = pluginsVersion[v].caps,
                                         !.active = v]]
  BY DEF Plugins!Activated, Plugins!Kept, Plugins!Installed
<1>3. /\ S \in [PluginRequests -> Plugins!Version \cup {None}]
      /\ \A w \in PluginRequests :
            /\ S[w] # None <=> pluginsVersion[w] # None
            /\ pluginsVersion[w] # None =>
                 /\ S[w].inst = pluginsVersion[w].inst /\ S[w].caps = pluginsVersion[w].caps
                 /\ S[w].status = pluginsVersion[w].status \/ pluginsVersion[w].status = "active"
  <2>1. S = [w \in PluginRequests |-> S[w]]
    BY DEF Plugins!Superseded
  <2>2. \A w \in PluginRequests :
            /\ S[w] \in Plugins!Version \cup {None}
            /\ S[w] # None <=> pluginsVersion[w] # None
            /\ pluginsVersion[w] # None =>
                 /\ S[w].inst = pluginsVersion[w].inst /\ S[w].caps = pluginsVersion[w].caps
                 /\ S[w].status = pluginsVersion[w].status \/ pluginsVersion[w].status = "active"
    BY <1>1, PluginSuperseded
  <2> HIDE DEF S
  <2>3. QED
    BY <2>1, <2>2
<1>4. /\ Plugins!Installation =
            [status : {"active", "disabled", "removed"}, granted : SUBSET PluginCapabilities,
             active : PluginRequests \cup {None}, key : PluginKeys]
      /\ Plugins!Version =
            [inst : PluginRequests, caps : SUBSET PluginCapabilities,
             status : {"pending-approval", "active", "superseded", "revoked"}]
  BY DEF Plugins!Installation, Plugins!Version
<1> HIDE DEF i, S
<1>5. /\ [S[v] EXCEPT !.status = "active"] \in Plugins!Version
      /\ [S[v] EXCEPT !.status = "active"].inst = pluginsVersion[v].inst
      /\ [S[v] EXCEPT !.status = "active"].caps = pluginsVersion[v].caps
  BY <1>3, <1>4
<1>6. pluginsVersion' = [S EXCEPT ![v] = [S[v] EXCEPT !.status = "active"]]
  BY <1>2
<1> DEFINE n == [pluginsInst[i] EXCEPT !.status = "active", !.granted = pluginsVersion[v].caps,
                                       !.active = v]
<1>7. pluginsInst[i] # None =>
         /\ n \in Plugins!Installation /\ n.key = pluginsInst[i].key
         /\ n.granted = pluginsVersion[v].caps
  <2>1. pluginsInst[i] # None => pluginsInst[i] \in Plugins!Installation
    BY <1>1 DEF PluginTypes
  <2>2. pluginsVersion[v].caps \in SUBSET PluginCapabilities
    BY <1>1, <1>4
  <2>3. QED
    BY ONLY <1>4, <2>1, <2>2, v \in PluginRequests
<1> HIDE DEF n
<1>8. /\ pluginsVersion' \in [PluginRequests -> Plugins!Version \cup {None}]
      /\ \A w \in PluginRequests :
            /\ pluginsVersion'[w] # None <=> pluginsVersion[w] # None
            /\ pluginsVersion[w] # None =>
                 /\ pluginsVersion'[w].inst = pluginsVersion[w].inst
                 /\ pluginsVersion'[w].caps = pluginsVersion[w].caps
                 /\ w # v => \/ pluginsVersion'[w].status = pluginsVersion[w].status
                             \/ pluginsVersion[w].status = "active"
  BY <1>1, <1>3, <1>5, <1>6
<1>9. \A c \in pluginsVersion[v].caps : Asked(i, c)
  BY DEF Cleared, i
<1>10. /\ pluginsInst' \in [PluginRequests -> Plugins!Installation \cup {None}]
       /\ \A k \in PluginRequests :
             /\ pluginsInst'[k] # None <=> pluginsInst[k] # None
             /\ pluginsInst[k] # None =>
                  /\ pluginsInst'[k].key = pluginsInst[k].key
                  /\ \/ pluginsInst'[k].granted = pluginsInst[k].granted
                     \/ k = i /\ pluginsInst'[k].granted = pluginsVersion[v].caps
       /\ RemovedStays
  <2>1. CASE pluginsInst' = pluginsInst
    BY <1>1, <2>1 DEF PluginTypes, RemovedStays
  <2>2. CASE /\ pluginsInst[i] # None /\ pluginsInst[i].status # "removed"
             /\ pluginsInst' = [pluginsInst EXCEPT ![i] = n]
    BY <1>1, <1>7, <2>2 DEF PluginTypes, RemovedStays
  <2>3. QED
    BY <1>2, <2>1, <2>2 DEF n
<1>11. QED
  BY <1>8, <1>9, <1>10

\* A grant or a rollback makes a version active that the handler found cleared.
LEMMA PluginGrants ==
    ASSUME PluginInv, NEW r \in PluginRequests, Plugins!Grant(r) \/ Plugins!RollBack(r)
    PROVE  PluginInv' /\ RemovedStays
<1> DEFINE v == pluginsJob[r].on
<1>1. /\ PluginTypes /\ JobPlaced(r)
      /\ \A q \in PluginRequests : RowsNamed(q)
  BY DEF PluginInv
<1>2. /\ Plugins!Activated(v) /\ pluginsAt[r] \in {"grant", "rollback"}
      /\ UNCHANGED <<pluginsApproval, pluginsJob, pluginsConsented>>
      /\ pluginsAt' = [pluginsAt EXCEPT ![r] = "done"]
  BY DEF Plugins!Grant, Plugins!RollBack, Plugins!Goto
<1>3. v \in PluginRequests /\ pluginsVersion[v] # None /\ Cleared(v)
  <2>1. v \in PluginRequests \cup {None}
    BY <1>1 DEF PluginTypes, Plugins!Job
  <2>2. CASE pluginsAt[r] = "grant"
    <3>1. v \in pluginsConsented /\ v \in PluginRequests
      BY <1>1, <2>2 DEF JobPlaced, PluginTypes
    <3>2. QED
      BY <1>1, <3>1 DEF RowsNamed, Cleared, Asked
  <2>3. CASE pluginsAt[r] = "rollback"
    BY <1>1, <2>1, <2>3 DEF JobPlaced
  <2>4. QED
    BY <1>2, <2>2, <2>3
<1> HIDE DEF v
<1>4. QED
  BY <1>2, <1>3, PluginActivated, PluginRowsStep

\* A version that need not ask takes the place of the others; a removal revokes them all.
LEMMA PluginReplaces ==
    ASSUME PluginInv, NEW r \in PluginRequests, Plugins!Supersede(r) \/ Plugins!Revoke(r)
    PROVE  PluginInv' /\ RemovedStays
<1> DEFINE i == pluginsJob[r].on
<1>1. /\ PluginTypes /\ JobPlaced(r)
      /\ None \notin Plugins!Installation /\ None \notin Plugins!Version
  BY DEF PluginInv, Plugins!PluginConstants
<1>2. /\ pluginsAt[r] \in {"supersede", "revoke"}
      /\ UNCHANGED <<pluginsApproval, pluginsJob, pluginsConsented>>
      /\ pluginsAt' = [pluginsAt EXCEPT ![r] = "done"]
  BY DEF Plugins!Supersede, Plugins!Revoke, Plugins!Goto
<1>3. i \in PluginRequests /\ pluginsInst[i] \in Plugins!Installation
  BY <1>1, <1>2 DEF JobPlaced, PluginTypes, Plugins!Job
\* The rows of the versions.
<1>4. /\ pluginsVersion' \in [PluginRequests -> Plugins!Version \cup {None}]
      /\ \A w \in PluginRequests :
            /\ pluginsVersion'[w] # None <=> pluginsVersion[w] # None
            /\ pluginsVersion[w] # None =>
                 /\ pluginsVersion'[w].inst = pluginsVersion[w].inst
                 /\ pluginsVersion'[w].caps = pluginsVersion[w].caps
                 /\ pluginsVersion'[w].status \in {"active", "superseded"} =>
                       pluginsVersion[w].status \in {"active", "superseded"}
  <2>1. CASE Plugins!Supersede(r)
    <3> DEFINE S == Plugins!Superseded(i, r)
    <3>1. pluginsVersion' = S
      BY <2>1 DEF Plugins!Supersede
    <3>2. S = [w \in PluginRequests |-> S[w]]
      BY DEF Plugins!Superseded
    <3>3. \A w \in PluginRequests :
             /\ S[w] \in Plugins!Version \cup {None}
             /\ S[w] # None <=> pluginsVersion[w] # None
             /\ pluginsVersion[w] # None =>
                  /\ S[w].inst = pluginsVersion[w].inst /\ S[w].caps = pluginsVersion[w].caps
                  /\ S[w].status = pluginsVersion[w].status \/ pluginsVersion[w].status = "active"
      BY <1>1, PluginSuperseded
    <3> HIDE DEF S
    <3>4. QED
      BY <3>1, <3>2, <3>3
  <2>2. CASE Plugins!Revoke(r)
    <3>1. pluginsVersion' =
             [w \in PluginRequests |->
                 IF w \in Plugins!Made /\ pluginsVersion[w].inst = i
                 THEN [pluginsVersion[w] EXCEPT !.status = "revoked"] ELSE pluginsVersion[w]]
      BY <2>2 DEF Plugins!Revoke
    <3>2. \A w \in PluginRequests :
             pluginsVersion[w] # None =>
                LET n == [pluginsVersion[w] EXCEPT !.status = "revoked"] IN
                /\ n \in Plugins!Version /\ n.inst = pluginsVersion[w].inst
                /\ n.caps = pluginsVersion[w].caps /\ n.status = "revoked"
      BY <1>1 DEF PluginTypes, Plugins!Version
    <3>3. QED
      BY <1>1, <3>1, <3>2 DEF PluginTypes, Plugins!Made
  <2>3. QED
    BY <2>1, <2>2
\* The row of the installation.
<1>5. /\ pluginsInst' \in [PluginRequests -> Plugins!Installation \cup {None}]
      /\ \A k \in PluginRequests :
            /\ pluginsInst'[k] # None <=> pluginsInst[k] # None
            /\ pluginsInst[k] # None =>
                 /\ pluginsInst'[k].key = pluginsInst[k].key
                 /\ pluginsInst'[k].granted = pluginsInst[k].granted
                 /\ pluginsInst'[k].status = pluginsInst[k].status
  <2>1. CASE Plugins!Supersede(r)
    <3> DEFINE n == [pluginsInst[i] EXCEPT !.active = r]
    <3>1. pluginsInst' = [pluginsInst EXCEPT ![i] = n]
      BY <2>1 DEF Plugins!Supersede
    <3>2. /\ n \in Plugins!Installation /\ n.key = pluginsInst[i].key
          /\ n.granted = pluginsInst[i].granted /\ n.status = pluginsInst[i].status
      BY <1>3 DEF Plugins!Installation
    <3> HIDE DEF n
    <3>3. QED
      BY <1>1, <1>3, <3>1, <3>2 DEF PluginTypes
  <2>2. CASE Plugins!Revoke(r)
    BY <1>1, <2>2 DEF Plugins!Revoke, PluginTypes
  <2>3. QED
    BY <2>1, <2>2
<1> HIDE DEF i
<1>6. PluginInv'
  BY <1>2, <1>4, <1>5, PluginRowsStep
<1>7. QED
  BY <1>5, <1>6 DEF RemovedStays

\* The owner enables, disables or removes an installation.
LEMMA PluginSets ==
    ASSUME PluginInv, NEW r \in PluginRequests, Plugins!SetEnabled(r) \/ Plugins!Remove(r)
    PROVE  PluginInv' /\ RemovedStays
<1>1. /\ PluginTypes /\ None \notin Plugins!Installation
  BY DEF PluginInv, Plugins!PluginConstants
<1>2. PICK i \in PluginRequests, target \in {"active", "disabled", "removed"} :
        /\ pluginsInst[i] # None
        /\ pluginsInst' = [pluginsInst EXCEPT ![i].status = target]
        /\ pluginsInst[i].status = "removed" => target = "removed"
        /\ \/ pluginsAt' = [pluginsAt EXCEPT ![r] = "done"] /\ pluginsJob' = pluginsJob
           \/ /\ pluginsAt' = [pluginsAt EXCEPT ![r] = "revoke"]
              /\ pluginsJob' = [pluginsJob EXCEPT ![r].on = i]
  <2>1. CASE Plugins!SetEnabled(r)
    BY <2>1 DEF Plugins!SetEnabled, Plugins!Goto, Plugins!Kept, Plugins!Installed
  <2>2. CASE Plugins!Remove(r)
    BY <2>2 DEF Plugins!Remove, Plugins!Goto, Plugins!Installed
  <2>3. QED
    BY <2>1, <2>2
<1>3. /\ pluginsAt[r] = "start"
      /\ UNCHANGED <<pluginsVersion, pluginsApproval, pluginsConsented>>
  BY DEF Plugins!SetEnabled, Plugins!Remove, Plugins!Starts
<1> DEFINE n == [pluginsInst[i] EXCEPT !.status = target]
<1>4. pluginsInst' = [pluginsInst EXCEPT ![i] = n]
  BY <1>2
<1>5. /\ n \in Plugins!Installation /\ n.key = pluginsInst[i].key
      /\ n.granted = pluginsInst[i].granted /\ n.status = target
  <2>1. pluginsInst[i] \in Plugins!Installation
    BY <1>1, <1>2 DEF PluginTypes
  <2>2. QED
    BY <1>2, <2>1 DEF Plugins!Installation
<1> HIDE DEF n
<1>6. /\ pluginsInst' \in [PluginRequests -> Plugins!Installation \cup {None}]
      /\ \A k \in PluginRequests :
            /\ pluginsInst'[k] # None <=> pluginsInst[k] # None
            /\ pluginsInst[k] # None =>
                 /\ pluginsInst'[k].key = pluginsInst[k].key
                 /\ pluginsInst'[k].granted = pluginsInst[k].granted
                 /\ pluginsInst[k].status = "removed" => pluginsInst'[k].status = "removed"
  BY <1>1, <1>2, <1>4, <1>5 DEF PluginTypes
<1>7. pluginsVersion' \in [PluginRequests -> Plugins!Version \cup {None}]
  BY <1>1, <1>3 DEF PluginTypes
<1>8. PluginInv'
  BY <1>2, <1>3, <1>6, <1>7, PluginRowsStep
<1>9. QED
  BY <1>6, <1>8 DEF RemovedStays

LEMMA PluginUnmoved == PluginInv /\ UNCHANGED pluginsVars => PluginInv' /\ RemovedStays
<1>1. SUFFICES ASSUME PluginInv, UNCHANGED pluginsVars PROVE PluginInv' /\ RemovedStays
  OBVIOUS
<1> USE <1>1 DEF PluginInv, pluginsVars
<1>2. Plugins!PluginConstants' /\ PluginTypes'
  BY DEF Plugins!PluginConstants, Plugins!Installation, Plugins!Version, PluginTypes,
     Plugins!Places, Plugins!Job
<1>3. KeysOnce' /\ RemovedStays
  BY DEF KeysOnce, RemovedStays
<1>4. \A r \in PluginRequests : RowsNamed(r)' /\ ActiveCleared(r)' /\ GrantedAsked(r)'
  BY DEF RowsNamed, ActiveCleared, GrantedAsked, Cleared, Asked
<1>5. \A r \in PluginRequests : JobPlaced(r)'
  BY DEF JobPlaced, Cleared, Asked
<1>6. QED
  BY <1>2, <1>3, <1>4, <1>5

LEMMA PluginNext == PluginInv /\ (Plugins!Next \/ UNCHANGED pluginsVars) => PluginInv' /\ RemovedStays
<1>1. SUFFICES ASSUME PluginInv, NEW r \in PluginRequests,
                      \/ Plugins!Install(r) \/ Plugins!InstallRows(r) \/ Plugins!RequestApproval(r)
                      \/ Plugins!AddVersion(r) \/ Plugins!InsertVersion(r) \/ Plugins!Supersede(r)
                      \/ Plugins!Decide(r) \/ Plugins!FindPending(r) \/ Plugins!Grant(r)
                      \/ Plugins!FindTarget(r) \/ Plugins!RollBack(r)
                      \/ Plugins!SetEnabled(r) \/ Plugins!Remove(r) \/ Plugins!Revoke(r)
                      \/ Plugins!Crash(r)
               PROVE  PluginInv' /\ RemovedStays
  BY PluginUnmoved DEF Plugins!Next
<1>2. ASSUME PluginInv' /\ pluginsInst' = pluginsInst PROVE PluginInv' /\ RemovedStays
  BY <1>2 DEF RemovedStays
<1>3. QED
  BY <1>1, <1>2, PluginReads, PluginRows, PluginDecided, PluginGrants, PluginReplaces,
     PluginSets

\* Whatever handlers interleave over the plugin tables, and wherever one dies: a version
\* that had to ask is active only with an approval on the record, a plugin has capabilities
\* the owner approved for it and no others, a repeated install makes one installation, and a
\* removed plugin is never invocable again (installPlugin, addPluginVersion, decideApproval,
\* rollbackPlugin and mutatePlugin of the control worker).
THEOREM PluginsApproved == HandlersSpec => PluginsAsApproved
<1> DEFINE J == part = "plugins" => PluginInv
           Safe == part = "plugins" =>
                      Plugins!TypeOK /\ Plugins!ActiveWasApproved /\ Plugins!GrantedWasApproved
                      /\ Plugins!OneInstallationPerKey
           A == \A i \in Plugins!Installed :
                   i \notin Plugins!Kept => pluginsInst'[i].status = "removed"
<1>1. HandlersInit => J
  BY InstanceConstants, PluginBegins DEF HandlersInit
<1>2. J /\ [HandlersNext]_allVars => J'
  <2>1. SUFFICES ASSUME J, [HandlersNext]_allVars, part' = "plugins" PROVE PluginInv'
    OBVIOUS
  <2>2. PluginInv /\ (Plugins!Next \/ UNCHANGED pluginsVars)
    BY <2>1 DEF HandlersNext, allVars
  <2>3. QED
    BY <2>2, PluginNext
<1>3. J => Safe
  <2>1. SUFFICES ASSUME PluginInv
                 PROVE  Plugins!TypeOK /\ Plugins!ActiveWasApproved /\ Plugins!GrantedWasApproved
                        /\ Plugins!OneInstallationPerKey
    OBVIOUS
  <2> USE <2>1 DEF PluginInv, Plugins!Installed, Plugins!Made
  <2>2. Plugins!TypeOK
    BY DEF PluginTypes, RowsNamed, Plugins!TypeOK, Plugins!Version
  <2>3. Plugins!ActiveWasApproved
    BY DEF ActiveCleared, Cleared, Plugins!ActiveWasApproved
  <2>4. Plugins!GrantedWasApproved
    BY DEF GrantedAsked, Asked, Plugins!GrantedWasApproved
  <2>5. Plugins!OneInstallationPerKey
    BY DEF KeysOnce, Plugins!OneInstallationPerKey
  <2>6. QED
    BY <2>2, <2>3, <2>4, <2>5
<1>4. J /\ [HandlersNext]_allVars => [A]_(Plugins!vars)
  <2>1. SUFFICES ASSUME J, [HandlersNext]_allVars, ~UNCHANGED Plugins!vars PROVE A
    OBVIOUS
  <2>2. ~UNCHANGED pluginsVars
    BY <2>1 DEF pluginsVars, Plugins!vars
  <2>3. PluginInv /\ Plugins!Next
    BY <2>1, <2>2 DEF HandlersNext, Others, allVars
  <2>4. RemovedStays
    BY <2>3, PluginNext
  <2>5. QED
    BY <2>4 DEF RemovedStays, Plugins!Installed, Plugins!Kept
<1>5. HandlersSpec => [][A]_(Plugins!vars) /\ []Safe
  BY <1>1, <1>2, <1>3, <1>4, PTL DEF HandlersSpec
<1>6. QED
  BY <1>5 DEF PluginsAsApproved, Plugins!RemovedStaysRemoved

=============================================================================
