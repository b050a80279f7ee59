----------------------- MODULE TranscriptWorkflowProofs -----------------------
(***************************************************************************)
(* What holds of the transcript of an episode for every delay, attempt     *)
(* limit and bound.                                                        *)
(*                                                                         *)
(* The row of the workflow, its attempts, the queue in memory and the      *)
(* outbox are moved together by most transactions but not by all: a        *)
(* submission that is given up leaves its effect behind, and a retry or a  *)
(* new start leaves those of the row it replaces.  The inductive invariant *)
(* therefore says of the rows what a new number can rely on (RowsKnown, no *)
(* row carries a number that is still to be asked for) and of each waiting *)
(* stage which rows can carry its request (OneOpen, SubmissionIsOpen,      *)
(* AcceptedIsRecovered).  The rest ties the row to its attempts and to the *)
(* queue.                                                                  *)
(*                                                                         *)
(* The outbox part is not proved again: every action is shown to move the  *)
(* two tables row by row (Rows!OutboxStep), and the lemmas of              *)
(* EffectOutboxProofs about such steps do the rest.                        *)
(***************************************************************************)
EXTENDS TranscriptWorkflow, FiniteSetTheorems, TLAPS

(* The outbox of TranscriptWorkflow, with the lemmas about its rows.       *)
Rows == INSTANCE EffectOutboxProofs WITH
    Exact <- Repeatable, Publishers <- {}, PublisherLimit <- 0, NoRequest <- None,
    Recovery <- [r \in Submissions |-> None], Delays <- {0},
    MaxAuthorized <- MaxIntents, MaxSetBacks <- 0

There(i)   == intent[i].state # "absent"
(* The provider has not been asked yet.                                    *)
Unanswered == {"requested", "retry_scheduled"}
FromPublisher == [number |-> 1, publisher |-> TRUE]

(* A row of pod0_transcript_workflows.                                     *)
WorkflowRow ==
    [stage : Stages \cup {"none"}, revision : Nat, number : 0 .. MaxNumber,
     request : Ids \cup {None}, deadline : Nat \cup {None}, notBefore : Nat \cup {None},
     authorized : BOOLEAN, accepted : BOOLEAN, maySubmit : BOOLEAN, expected : Nat]

TablesTyped ==
    /\ workflow \in WorkflowRow
    /\ transcriptAttempt \in [Numbers -> AttemptStates]
    /\ selection \in Nat /\ asked \in Nat
    /\ evidence \in {"none", "owed", "admitted"}
    /\ wake \in Ids \cup {None} /\ queued \subseteq Ids
    /\ mode \in {"up", "down"} /\ crashes \in 0 .. MaxCrashes
    /\ step \in {"idle", "prepare", "claim", "finalize", "evidence", "resume"}

(* The request that is waited for is that of the current number.           *)
RequestIsCurrent ==
    /\ workflow.stage = "none" => workflow.number = 0 /\ workflow.request = None
    /\ workflow.stage # "none" =>
          workflow.request = IF workflow.number = 0 THEN FromPublisher ELSE Provider(workflow.number)
    /\ workflow.stage = "publisher_requested" => workflow.number = 0
    /\ workflow.stage \in Unanswered \cup {"submission_authorized", "provider_accepted"} =>
          workflow.number > 0

(* The row remembers what its submission has come to.                      *)
HistoryKept ==
    /\ workflow.stage = "submission_authorized" => workflow.authorized
    /\ workflow.stage = "provider_accepted" => workflow.accepted
    /\ workflow.accepted => workflow.number > 0

(* Revisions that recoveries are told apart by are in range.               *)
RevisionBounded ==
    /\ workflow.stage \in Unanswered => workflow.revision <= MaxRevision + 1
    /\ workflow.stage = "submission_authorized" => workflow.revision <= MaxRevision + 2
    /\ workflow.stage = "provider_accepted" => workflow.revision \in Revisions

(* A number is taken only by what was asked for; the publisher takes none. *)
NumberIsAsked == /\ workflow.number <= asked
                 /\ workflow.stage # "none" => asked > 0

(* Every row is an effect of another component, asks the publisher, or     *)
(* submits or recovers a number up to the current one - before the current *)
(* one, while the provider is still to be asked.                           *)
RowsKnown == \A i \in IntentIds : There(i) =>
    \/ intent[i].request \in {Elsewhere, Publish(FromPublisher)}
    \/ \E n \in 1 .. workflow.number :
          /\ n = workflow.number => workflow.stage \notin Unanswered
          /\ \/ intent[i].request = Submit(Provider(n))
             \/ \E rev \in Revisions : intent[i].request = Recover(Provider(n), rev)

(* No request has two rows.                                                *)
NoTwice == \A i, j \in IntentIds :
    There(i) /\ intent[i].request = intent[j].request => i = j \/ intent[i].request = Elsewhere

(* At most one open row carries the request that is waited for.            *)
OneOpen == \A i, j \in IntentIds :
    /\ Outbox!Open(i) /\ intent[i].request.id = workflow.request
    /\ Outbox!Open(j) /\ intent[j].request.id = workflow.request
    /\ workflow.request # None
    => i = j

(* A submission in flight has an open row, and its request no other row.   *)
SubmissionIsOpen == workflow.stage = "submission_authorized" =>
    /\ \E i \in IntentIds : Outbox!Open(i) /\ intent[i].request = Submit(workflow.request)
    /\ \A i \in IntentIds : There(i) /\ intent[i].request.id = workflow.request =>
          intent[i].request = Submit(workflow.request)

(* What is open for an accepted job recovers it at the current revision.   *)
AcceptedIsRecovered == workflow.stage = "provider_accepted" =>
    \A i \in IntentIds : Outbox!Open(i) /\ intent[i].request.id = workflow.request =>
        intent[i].request = Recover(workflow.request, workflow.revision)

(* What the tables of the workflow say of each other.                      *)
StageInv == /\ RequestIsCurrent
          /\ HistoryKept
          /\ RevisionBounded
          /\ NumberIsAsked
          /\ AttemptAgrees
          /\ WaitingIsQueued

(* What the workflow and the rows of the outbox say of each other.         *)
FlowInv == /\ RowsKnown
           /\ NoTwice
           /\ OneOpen
           /\ SubmissionIsOpen
           /\ AcceptedIsRecovered

(* The inductive invariant.                                                *)
Inv == Rows!Inv /\ TablesTyped /\ StageInv /\ FlowInv

-----------------------------------------------------------------------------
(* The constants the outbox is given are ones its proofs allow.            *)
LEMMA OutboxAssumptions == Rows!BoundsAssumption /\ Rows!RequestAssumption
<1>1. Requests \ Repeatable = Submissions
  BY DEF Requests, Repeatable, Submissions, Submit, Publish, Recover, Elsewhere
<1>2. [r \in Submissions |-> None] \in [Submissions -> Requests \cup {None}]
  OBVIOUS
<1>3. Rows!RequestAssumption
  BY <1>1, <1>2, NoneAssumption DEF Rows!RequestAssumption, Requests
<1>. QED
  BY <1>3, TranscriptAssumption DEF Rows!BoundsAssumption

(* The outbox of TranscriptWorkflow and that of the row lemmas have the    *)
(* same rows, new rows and answers.                                        *)
LEMMA SameOutbox ==
  /\ IntentIds = Rows!IntentIds /\ Fences = Rows!Fences
  /\ IntentIds = 1 .. MaxIntents /\ Fences = 1 .. MaxFence
  /\ \A r, due : Outbox!NewIntent(r, due) = Rows!NewIntent(r, due)
  /\ \A tries, f, how : Outbox!Answer(tries, f, how) = Rows!Answer(tries, f, how)
BY DEF IntentIds, Fences, Outbox!IntentIds, Outbox!Fences, Rows!IntentIds, Rows!Fences,
       Outbox!NewIntent, Rows!NewIntent, Outbox!Answer, Rows!Answer

(* What the invariant says of the tables of the outbox.                    *)
LEMMA Typed ==
  ASSUME Inv
  PROVE  /\ now \in Nat /\ now <= MaxNow /\ setBacks = 0
         /\ intent \in [IntentIds -> Rows!IntentRow]
         /\ attempt \in [IntentIds -> Rows!Tries]
         /\ \A i \in IntentIds : Rows!RowInv(intent[i], attempt[i])
<1>1. Rows!Inv
  BY DEF Inv
<1>. QED
  BY <1>1, SameOutbox, TranscriptAssumption DEF Rows!Inv

(* A request tells for whom it is, and requests of different kinds differ. *)
LEMMA RequestForms ==
  /\ FromPublisher \in Ids
  /\ \A n \in Numbers : Provider(n) \in Ids /\ Provider(n) # FromPublisher
  /\ \A m, n \in Numbers : Provider(m) = Provider(n) => m = n
  /\ \A id : Submit(id).id = id /\ Publish(id).id = id
  /\ \A id, rev : Recover(id, rev).id = id
  /\ Elsewhere.id = None
  /\ \A id, id2, rev : /\ Submit(id) # Publish(id2) /\ Submit(id) # Recover(id2, rev)
                       /\ Publish(id) # Recover(id2, rev)
                       /\ Elsewhere \notin {Submit(id), Publish(id), Recover(id, rev)}
<1>1. FromPublisher \in Ids
  BY TranscriptAssumption DEF FromPublisher, Ids, Numbers
<1>2. \A n \in Numbers : Provider(n) \in Ids /\ Provider(n) # FromPublisher
  BY DEF FromPublisher, Ids, Provider
<1>3. \A m, n \in Numbers : Provider(m) = Provider(n) => m = n
  BY DEF Provider
<1>4. /\ \A id : Submit(id).id = id /\ Publish(id).id = id
      /\ \A id, rev : Recover(id, rev).id = id
      /\ Elsewhere.id = None
  BY DEF Submit, Publish, Recover, Elsewhere
<1>5. \A id, id2, rev : /\ Submit(id) # Publish(id2) /\ Submit(id) # Recover(id2, rev)
                        /\ Publish(id) # Recover(id2, rev)
                        /\ Elsewhere \notin {Submit(id), Publish(id), Recover(id, rev)}
  BY DEF Submit, Publish, Recover, Elsewhere
<1>. QED
  BY <1>1, <1>2, <1>3, <1>4, <1>5

(* The empty tables satisfy the invariant.                                 *)
LEMMA InitInv == Init => Inv
<1>1. SUFFICES ASSUME Init PROVE Inv
  OBVIOUS
<1>2. Rows!Inv
  <2>1. Rows!Init
    BY <1>1
       DEF Init, Outbox!Init, Rows!Init, Outbox!IntentIds, Rows!IntentIds, Outbox!Fences,
                Rows!Fences, Outbox!NoIntent, Rows!NoIntent, Outbox!NoAttempt, Rows!NoAttempt
  <2>. QED
    BY <2>1, Rows!InitInv, OutboxAssumptions DEF Rows!InitInv
<1>3. \A i \in IntentIds : ~ There(i) /\ ~ Outbox!Open(i)
  BY <1>1 DEF Init, Outbox!Init, IntentIds, There, Outbox!Open, Outbox!NoIntent
<1>4. TablesTyped
  BY <1>1, TranscriptAssumption
     DEF Init, TablesTyped, WorkflowRow, NoWorkflow, NoAttempts, AttemptStates
<1>5. StageInv
  BY <1>1
     DEF Init, NoWorkflow, NoAttempts, StageInv, RequestIsCurrent, HistoryKept,
         RevisionBounded,
              NumberIsAsked, AttemptAgrees, AttemptStateIn, WaitingIsQueued, Unanswered, Queueable
<1>6. FlowInv
  BY <1>1, <1>3
     DEF Init, NoWorkflow, FlowInv, RowsKnown, NoTwice, OneOpen, SubmissionIsOpen,
                    AcceptedIsRecovered
<1>. QED
  BY <1>2, <1>4, <1>5, <1>6 DEF Inv

-----------------------------------------------------------------------------
(* The transactions move the outbox row by row. *)

(* No row changes.                                                         *)
LEMMA StillSteps ==
  ASSUME Inv, UNCHANGED <<intent, attempt, setBacks>>, now' \in 0 .. MaxNow
  PROVE  Rows!OutboxStep
BY Typed, SameOutbox DEF Rows!OutboxStep, Rows!RowStep

(* A row is appended.                                                      *)
LEMMA AppendSteps ==
  ASSUME Inv, NEW j \in IntentIds, Outbox!NextId(j), NEW r \in Requests,
         intent' = [intent EXCEPT ![j] = Outbox!NewIntent(r, now)],
         UNCHANGED <<now, setBacks, attempt>>
  PROVE  Rows!OutboxStep
<1>1. intent[j].state = "absent" /\ now \in Nat /\ now <= MaxNow
  BY Typed DEF Outbox!NextId
<1>2. /\ intent \in [IntentIds -> Rows!IntentRow] /\ attempt \in [IntentIds -> Rows!Tries]
      /\ setBacks = 0
  BY Typed
<1>3. Rows!RowStep(intent[j], attempt[j], Rows!NewIntent(r, now), attempt[j])
  BY <1>1 DEF Rows!RowStep, Rows!Appended
<1>4. intent'[j] = Rows!NewIntent(r, now) /\ \A i \in IntentIds \ {j} : intent'[i] = intent[i]
  BY <1>2, SameOutbox
<1>5. ASSUME NEW i \in IntentIds
      PROVE  Rows!RowStep(intent[i], attempt[i], intent'[i], attempt'[i])
  <2>1. CASE i = j
    BY <1>3, <1>4, <2>1
  <2>2. CASE i # j
    BY <1>4, <2>2 DEF Rows!RowStep
  <2>. QED
    BY <2>1, <2>2
<1>6. /\ intent' = [i \in IntentIds |-> intent'[i]]
      /\ attempt' = [i \in IntentIds |-> attempt'[i]]
  BY <1>2
<1>7. now' \in 0 .. MaxNow /\ setBacks' \in 0 .. 0
  BY <1>1, <1>2, TranscriptAssumption
<1>. QED
  BY <1>5, <1>6, <1>7, SameOutbox DEF Rows!OutboxStep

(* A row is appended, or its request has one.                              *)
LEMMA OnceSteps ==
  ASSUME Inv, NEW r \in Requests, AuthorizeOnce(r), UNCHANGED <<now, setBacks, attempt>>
  PROVE  Rows!OutboxStep
<1>1. CASE UNCHANGED intent
  BY <1>1, StillSteps, Typed, TranscriptAssumption
<1>2. ASSUME NEW j \in IntentIds, Outbox!NextId(j),
             intent' = [intent EXCEPT ![j] = Outbox!NewIntent(r, now)]
      PROVE  Rows!OutboxStep
  BY <1>2, AppendSteps
<1>. QED
  BY <1>1, <1>2 DEF AuthorizeOnce

(* Every open row of the workflow is withdrawn, and a notice appended.     *)
LEMMA WithdrawSteps ==
  ASSUME Inv, WithdrawEffects, UNCHANGED <<now, setBacks>>
  PROVE  Rows!OutboxStep
<1> DEFINE mine == {i \in IntentIds : Outbox!Open(i) /\ intent[i].request # Elsewhere}
<1>1. PICK j \in IntentIds :
         /\ Outbox!NextId(j)
         /\ intent' = [i \in IntentIds |->
                          IF i = j THEN Outbox!NewIntent(Elsewhere, now)
                          ELSE IF i \in mine THEN [intent[i] EXCEPT !.state = "superseded"]
                          ELSE intent[i]]
  BY DEF WithdrawEffects
<1>2. attempt' = [i \in IntentIds |-> IF i \in mine THEN Outbox!ClosedAttempts(i, "superseded")
                                      ELSE attempt[i]]
  BY DEF WithdrawEffects
<1>3. intent[j].state = "absent" /\ now \in Nat
  BY <1>1, Typed DEF Outbox!NextId
<1>4. j \notin mine
  BY <1>3 DEF Outbox!Open
<1>5. Rows!RowStep(intent[j], attempt[j], intent'[j], attempt'[j])
  <2>1. Elsewhere \in Requests
    BY DEF Requests, Repeatable
  <2>2. intent'[j] = Rows!NewIntent(Elsewhere, now) /\ attempt'[j] = attempt[j]
    BY <1>1, <1>2, <1>4, SameOutbox
  <2>. QED
    BY <1>3, <2>1, <2>2 DEF Rows!RowStep, Rows!Appended
<1>6. ASSUME NEW i \in IntentIds, i \notin mine, i # j
      PROVE  Rows!RowStep(intent[i], attempt[i], intent'[i], attempt'[i])
  BY <1>1, <1>2, <1>6 DEF Rows!RowStep
<1>7. ASSUME NEW i \in mine
      PROVE  Rows!RowStep(intent[i], attempt[i], intent'[i], attempt'[i])
  <2>1. /\ intent[i].state \in {"pending", "claimed"}
        /\ intent'[i] = [intent[i] EXCEPT !.state = "superseded"]
        /\ attempt'[i] = Outbox!ClosedAttempts(i, "superseded")
    BY <1>1, <1>2, <1>4, <1>7 DEF Outbox!Open
  <2>. QED
    BY <2>1 DEF Rows!RowStep, Rows!Withdrawn, Outbox!ClosedAttempts, Outbox!Leased,
                Outbox!Fences, Rows!Fences
<1>8. /\ intent' = [i \in IntentIds |-> intent'[i]]
      /\ attempt' = [i \in IntentIds |-> attempt'[i]]
  BY <1>1, <1>2
<1>9. now' \in 0 .. MaxNow /\ setBacks' \in 0 .. 0
  BY Typed
<1>. QED
  <2> HIDE DEF mine
  <2>. QED
    BY <1>5, <1>6, <1>7, <1>8, <1>9, SameOutbox DEF Rows!OutboxStep

(* A poll claims a row.                                                    *)
LEMMA ClaimSteps ==
  ASSUME Inv, Outbox!ClaimNext
  PROVE  Rows!OutboxStep
<1>1. PICK i \in IntentIds : Outbox!Claimable(i) /\ Outbox!Lease(i)
  BY DEF Outbox!ClaimNext, IntentIds
<1>2. Rows!Claimable(i) /\ Rows!Lease(i)
  BY <1>1 DEF Outbox!Claimable, Rows!Claimable, Outbox!Reclaimable, Rows!Reclaimable,
      Outbox!Live, Rows!Live, Outbox!Leased, Rows!Leased, Outbox!BelowPublisherLimit,
      Rows!BelowPublisherLimit, Outbox!Fences, Rows!Fences, Outbox!Lease, Rows!Lease
<1>. QED
  BY <1>2, SameOutbox, Rows!LeaseSteps, OutboxAssumptions DEF Inv, Rows!LeaseSteps

(* A report settles its row.                                               *)
LEMMA SettleSteps ==
  ASSUME Inv, NEW i \in IntentIds, NEW f \in Fences, Outbox!CurrentFence(i, f),
         SettleEffect(i, f), UNCHANGED <<now, setBacks>>
  PROVE  Rows!OutboxStep
<1>1. Rows!CurrentFence(i, f) /\ Rows!Settle(i, f, "observed")
  BY SameOutbox DEF SettleEffect, Outbox!CurrentFence, Rows!CurrentFence, Outbox!Settle,
                    Rows!Settle
<1>. QED
  BY <1>1, SameOutbox, Rows!SettleSteps, OutboxAssumptions DEF Inv, Rows!SettleSteps

-----------------------------------------------------------------------------
(* What the steps of the workflow do to the rows, as far as the invariant  *)
(* looks at them.                                                          *)

(* A row keeps its request, and what is closed stays closed.               *)
KeptRow(i) == /\ There(i)' <=> There(i)
              /\ intent'[i].request = intent[i].request
              /\ Outbox!Open(i)' => Outbox!Open(i)

(* A row is appended for a request.                                        *)
NewRow(i, request) == ~ There(i) /\ There(i)' /\ intent'[i].request = request

(* A workflow waits for a request.                                         *)
LEMMA WorkflowRequest ==
  ASSUME Inv, workflow.stage # "none"
  PROVE  workflow.request \in Ids /\ workflow.request # None
<1>1. workflow.number = 0 \/ workflow.number \in Numbers
  BY TranscriptAssumption DEF Inv, TablesTyped, WorkflowRow, Numbers
<1>. QED
  BY <1>1, RequestForms, NoneAssumption DEF Inv, StageInv, RequestIsCurrent

(* The workflow stays with its request: it moves to a stage in which it    *)
(* waits for no row, or stays in its stage.                                *)
LEMMA FlowOn ==
  ASSUME Inv,
         workflow'.number = workflow.number, workflow'.request = workflow.request,
         workflow'.stage \in Unanswered => workflow.stage \in Unanswered,
         \A i \in IntentIds : KeptRow(i) \/ NewRow(i, Elsewhere),
         workflow'.stage = "submission_authorized" =>
            /\ workflow.stage = "submission_authorized"
            /\ \A i \in IntentIds : Outbox!Open(i) /\ intent[i].request # Elsewhere => Outbox!Open(i)',
         workflow'.stage = "provider_accepted" =>
            /\ workflow.stage # "none"
            /\ \/ workflow.stage = "provider_accepted" /\ workflow'.revision = workflow.revision
               \/ \A i \in IntentIds : There(i) /\ intent[i].request.id = workflow.request => ~ Outbox!Open(i)'
  PROVE  FlowInv'
<1> USE DEF IntentIds, Outbox!IntentIds
<1>1. RowsKnown'
  BY DEF Inv, FlowInv, RowsKnown, KeptRow, NewRow, Revisions
<1>2. NoTwice'
  BY DEF Inv, FlowInv, NoTwice, KeptRow, NewRow
<1>3. \A i \in IntentIds : Outbox!Open(i) => There(i)
  BY DEF Outbox!Open, There
<1>4. OneOpen'
  BY <1>3, RequestForms DEF Inv, FlowInv, OneOpen, KeptRow, NewRow
<1>5. SubmissionIsOpen'
  <2>1. SUFFICES ASSUME workflow'.stage = "submission_authorized"
                 PROVE  SubmissionIsOpen'
    BY DEF SubmissionIsOpen
  <2>2. workflow.request # None
    BY <2>1, WorkflowRequest
  <2>. QED
    BY <1>3, <2>1, <2>2, RequestForms DEF Inv, FlowInv, SubmissionIsOpen, KeptRow, NewRow
<1>6. AcceptedIsRecovered'
  <2>1. SUFFICES ASSUME workflow'.stage = "provider_accepted"
                 PROVE  AcceptedIsRecovered'
    BY DEF AcceptedIsRecovered
  <2>2. workflow.request # None
    BY <2>1, WorkflowRequest
  <2>. QED
    BY <1>3, <2>1, <2>2, RequestForms DEF Inv, FlowInv, AcceptedIsRecovered, KeptRow, NewRow
<1>. QED
  BY <1>1, <1>2, <1>4, <1>5, <1>6 DEF FlowInv

(* What a row carries: a publisher's effect is the one there is, and an     *)
(* effect of a provider is for an attempt there was.                       *)
LEMMA KnownRow ==
  ASSUME Inv, NEW i \in IntentIds, There(i)
  PROVE  /\ intent[i].request.id = FromPublisher => intent[i].request = Publish(FromPublisher)
         /\ \A n \in Numbers : intent[i].request.id = Provider(n) =>
               n <= workflow.number /\ (n = workflow.number => workflow.stage \notin Unanswered)
<1>1. \A n \in 1 .. workflow.number : n \in Numbers /\ n <= workflow.number
  BY TranscriptAssumption DEF Inv, TablesTyped, WorkflowRow, Numbers
<1>2. CASE intent[i].request \in {Elsewhere, Publish(FromPublisher)}
  BY <1>2, RequestForms, NoneAssumption
<1>3. ASSUME NEW n \in 1 .. workflow.number,
             n = workflow.number => workflow.stage \notin Unanswered,
             \/ intent[i].request = Submit(Provider(n))
             \/ \E rev \in Revisions : intent[i].request = Recover(Provider(n), rev)
      PROVE  /\ intent[i].request.id # FromPublisher
             /\ \A m \in Numbers : intent[i].request.id = Provider(m) => m = n
  BY <1>1, <1>3, RequestForms
<1>. QED
  BY <1>1, <1>2, <1>3 DEF Inv, FlowInv, RowsKnown

(* The workflow starts another attempt, or its first: no row carries its   *)
(* request, unless the publisher is asked.                                 *)
LEMMA FlowStarts ==
  ASSUME Inv, \A i \in IntentIds : KeptRow(i),
         \/ /\ workflow'.number = workflow.number + 1
            /\ workflow'.request = Provider(workflow'.number)
            /\ workflow'.number \in Numbers
            /\ workflow'.stage \in Unanswered
         \/ /\ workflow.number = 0 /\ workflow'.number = 0
            /\ workflow'.request = FromPublisher
            /\ workflow'.stage = "publisher_requested"
  PROVE  FlowInv'
<1> USE DEF IntentIds, Outbox!IntentIds
<1>0. /\ workflow.number \in Nat /\ workflow.number <= MaxNumber
      /\ \A n \in 1 .. workflow.number : n \in Numbers /\ n # workflow.number + 1
  BY TranscriptAssumption DEF Inv, TablesTyped, WorkflowRow, Numbers
<1>1. RowsKnown'
  <2>1. SUFFICES ASSUME NEW i \in IntentIds, There(i)',
                        intent[i].request \notin {Elsewhere, Publish(FromPublisher)}
                 PROVE  \E n \in 1 .. workflow'.number :
                          /\ n = workflow'.number => workflow'.stage \notin Unanswered
                          /\ \/ intent[i].request = Submit(Provider(n))
                             \/ \E rev \in Revisions : intent[i].request = Recover(Provider(n), rev)
    BY DEF RowsKnown, KeptRow, Revisions
  <2>2. PICK n \in 1 .. workflow.number :
          \/ intent[i].request = Submit(Provider(n))
          \/ \E rev \in Revisions : intent[i].request = Recover(Provider(n), rev)
    BY <2>1 DEF Inv, FlowInv, RowsKnown, KeptRow
  <2>. QED
    BY <1>0, <2>2
<1>2. NoTwice'
  BY DEF Inv, FlowInv, NoTwice, KeptRow
<1>3. \A i \in IntentIds : Outbox!Open(i) => There(i)
  BY DEF Outbox!Open, There
<1>4. OneOpen'
  <2>1. ASSUME NEW i \in IntentIds, There(i), intent[i].request.id = Provider(workflow.number + 1),
               workflow.number + 1 \in Numbers
        PROVE  FALSE
    BY <1>0, <2>1, KnownRow
  <2>2. ASSUME NEW i \in IntentIds, There(i), intent[i].request.id = FromPublisher
        PROVE  intent[i].request = Publish(FromPublisher)
    BY <2>2, KnownRow
  <2>3. CASE workflow'.request = FromPublisher
    BY <1>3, <2>2, <2>3, RequestForms DEF Inv, FlowInv, NoTwice, OneOpen, KeptRow
  <2>4. CASE workflow'.request = Provider(workflow.number + 1) /\ workflow.number + 1 \in Numbers
    BY <1>3, <2>1, <2>4 DEF OneOpen, KeptRow
  <2>. QED
    BY <2>3, <2>4
<1>5. workflow'.stage \notin {"submission_authorized", "provider_accepted"}
  BY DEF Unanswered
<1>. QED
  BY <1>1, <1>2, <1>4, <1>5 DEF FlowInv, SubmissionIsOpen, AcceptedIsRecovered

(* A queued workflow authorises its effect, once.                          *)
LEMMA FlowAuthorizes ==
  ASSUME Inv, NEW r \in Requests, AuthorizeOnce(r), workflow.stage # "none",
         workflow'.number = workflow.number, workflow'.request = workflow.request,
         r.id = workflow.request,
         \/ /\ workflow' = workflow /\ workflow.stage = "publisher_requested"
            /\ r = Publish(workflow.request)
         \/ /\ workflow' = workflow /\ workflow.stage = "provider_accepted"
            /\ r = Recover(workflow.request, workflow.revision)
         \/ /\ workflow.stage \in Unanswered /\ workflow'.stage = "submission_authorized"
            /\ r = Submit(workflow.request)
  PROVE  FlowInv'
<1> USE DEF IntentIds, Outbox!IntentIds
<1>0. /\ \A i \in IntentIds : Outbox!Open(i) => There(i)
      /\ workflow.request # None /\ r # Elsewhere
      /\ workflow.revision \in Nat /\ workflow.number \in Nat
  BY WorkflowRequest, RequestForms DEF Outbox!Open, There, Inv, TablesTyped, WorkflowRow
<1>1. \A i \in IntentIds : There(i) /\ intent[i].request.id = workflow.request =>
         workflow.stage \notin Unanswered
  <2>1. workflow.stage \in Unanswered =>
           workflow.number \in Numbers /\ workflow.request = Provider(workflow.number)
    BY TranscriptAssumption
       DEF Inv, StageInv, RequestIsCurrent, TablesTyped, WorkflowRow, Numbers, Unanswered
  <2>. QED
    BY <2>1, KnownRow
<1>2. CASE UNCHANGED intent /\ \E i \in IntentIds : intent[i].request = r
  <2>1. \A i \in IntentIds : KeptRow(i) /\ (Outbox!Open(i)' <=> Outbox!Open(i))
    BY <1>2 DEF KeptRow, There, Outbox!Open
  <2>2. PICK i \in IntentIds : intent[i].request = r
    BY <1>2
  <2>3. There(i)
    <3>1. intent[i].request # None
      BY <2>2, NoneAssumption
    <3>. QED
      BY <3>1, Typed DEF Rows!RowInv, There
  <2>4. workflow' = workflow
    BY <1>1, <2>2, <2>3
  <2>. QED
    BY <2>1, <2>4, FlowOn DEF Unanswered
<1>3. ASSUME NEW j \in IntentIds, Outbox!NextId(j), \A i \in IntentIds : intent[i].request # r,
             intent' = [intent EXCEPT ![j] = Outbox!NewIntent(r, now)]
      PROVE  FlowInv'
  <2>1. /\ ~ There(j) /\ There(j)' /\ Outbox!Open(j)' /\ intent'[j].request = r
        /\ \A i \in IntentIds \ {j} : intent'[i] = intent[i]
    BY <1>3, Typed DEF There, Outbox!NextId, Outbox!NewIntent, Outbox!Open
  <2>2. \A i \in IntentIds \ {j} : /\ There(i)' <=> There(i)
                                   /\ Outbox!Open(i)' <=> Outbox!Open(i)
    BY <2>1 DEF There, Outbox!Open
  <2>3. \A i \in IntentIds : Outbox!Open(i) => intent[i].request.id # workflow.request
    <3>1. CASE workflow.stage = "publisher_requested"
      <4>1. r = Publish(FromPublisher) /\ workflow.request = FromPublisher
        BY <3>1 DEF Inv, StageInv, RequestIsCurrent, Unanswered
      <4>. QED
        BY <1>0, <1>3, <4>1, KnownRow
    <3>2. CASE workflow.stage = "provider_accepted"
      BY <1>3, <3>2 DEF Inv, FlowInv, AcceptedIsRecovered, Unanswered
    <3>3. CASE workflow.stage \in Unanswered
      BY <1>0, <1>1, <3>3
    <3>. QED
      BY <3>1, <3>2, <3>3
  <2>4. workflow'.stage \notin Unanswered
    BY DEF Unanswered
  <2>5. RowsKnown'
    <3>1. ASSUME NEW i \in IntentIds, There(i)', i # j
          PROVE  \/ intent'[i].request \in {Elsewhere, Publish(FromPublisher)}
                 \/ \E n \in 1 .. workflow'.number :
                      /\ n = workflow'.number => workflow'.stage \notin Unanswered
                      /\ \/ intent'[i].request = Submit(Provider(n))
                         \/ \E rev \in Revisions : intent'[i].request = Recover(Provider(n), rev)
      BY <2>1, <2>2, <2>4, <3>1 DEF Inv, FlowInv, RowsKnown
    <3>2. \/ r = Publish(FromPublisher)
          \/ /\ workflow.number > 0
             /\ \/ r = Submit(Provider(workflow.number))
                \/ \E rev \in Revisions : r = Recover(Provider(workflow.number), rev)
      BY DEF Inv, StageInv, RequestIsCurrent, RevisionBounded, Unanswered
    <3>3. \/ r = Publish(FromPublisher)
          \/ \E n \in 1 .. workflow'.number :
                      /\ n = workflow'.number => workflow'.stage \notin Unanswered
                      /\ \/ r = Submit(Provider(n))
                         \/ \E rev \in Revisions : r = Recover(Provider(n), rev)
      BY <1>0, <2>4, <3>2
    <3>. QED
      BY <2>1, <3>1, <3>3 DEF RowsKnown, Revisions
  <2>6. NoTwice'
    BY <1>3, <2>1, <2>2 DEF Inv, FlowInv, NoTwice
  <2>7. OneOpen'
    BY <2>1, <2>2, <2>3 DEF OneOpen
  <2>8. SubmissionIsOpen'
    <3>1. SUFFICES ASSUME workflow'.stage = "submission_authorized" PROVE SubmissionIsOpen'
      BY DEF SubmissionIsOpen
    <3>2. workflow.stage \in Unanswered /\ r = Submit(workflow.request)
      BY <3>1
    <3>. QED
      BY <1>1, <2>1, <2>2, <3>2 DEF SubmissionIsOpen
  <2>9. AcceptedIsRecovered'
    BY <2>1, <2>2, <2>3 DEF AcceptedIsRecovered, Unanswered
  <2>. QED
    BY <2>5, <2>6, <2>7, <2>8, <2>9 DEF FlowInv
<1>. QED
  BY <1>2, <1>3 DEF AuthorizeOnce

(* A settled row was open, and no other row changes.                       *)
LEMMA SettleRows ==
  ASSUME Inv, NEW i \in IntentIds, NEW f \in Fences, Outbox!CurrentFence(i, f), SettleEffect(i, f)
  PROVE  /\ There(i) /\ Outbox!Open(i) /\ ~ Outbox!Open(i)'
         /\ \A j \in IntentIds : KeptRow(j) /\ (j # i => (Outbox!Open(j)' <=> Outbox!Open(j)))
<1>1. intent[i].state = "claimed" /\ intent' = [intent EXCEPT ![i].state = "completed"]
  BY DEF Outbox!CurrentFence, SettleEffect, Outbox!Settle
<1>2. /\ intent'[i].state = "completed" /\ intent'[i].request = intent[i].request
      /\ \A j \in IntentIds \ {i} : intent'[j] = intent[j]
  BY <1>1, Typed DEF Rows!IntentRow
<1>. QED
  BY <1>1, <1>2 DEF KeptRow, There, Outbox!Open

(* A report that is taken closes the one open row the workflow waits for.  *)
LEMMA ReportRows ==
  ASSUME Inv, NEW i \in IntentIds, NEW f \in Fences, Reports(i, f), SettleEffect(i, f)
  PROVE  /\ workflow.stage # "none" /\ workflow.request \in Ids
         /\ There(i) /\ intent[i].request.id = workflow.request
         /\ \A j \in IntentIds : /\ KeptRow(j)
                                 /\ intent[j].request.id = workflow.request => ~ Outbox!Open(j)'
<1>1. Outbox!CurrentFence(i, f) /\ intent[i].request # Elsewhere
      /\ workflow.request = intent[i].request.id
  BY DEF Reports
<1>2. intent[i].request \in Requests
  BY <1>1, SettleRows, Typed DEF Rows!RowInv, Rows!IntentRow, There
<1>3. intent[i].request.id \in Ids
  BY <1>1, <1>2, RequestForms DEF Requests, Submissions, Repeatable
<1>4. workflow.request # None
  BY <1>1, <1>3, NoneAssumption
<1>. QED
  BY <1>1, <1>3, <1>4, SettleRows
     DEF Inv, StageInv, RequestIsCurrent, FlowInv, OneOpen, KeptRow

-----------------------------------------------------------------------------
(* Every action keeps the invariant. *)

(* What every step is shown to do.                                         *)
Kept == Rows!OutboxStep /\ TablesTyped' /\ StageInv' /\ FlowInv'

(* Steps that leave the workflow as it is.                                 *)
LEMMA StillKeeps ==
  ASSUME Inv, Rows!OutboxStep, TablesTyped',
         UNCHANGED <<workflow, transcriptAttempt, asked>>,
         mode' = "up" => UNCHANGED <<mode, queued>>,
         \A i \in IntentIds : /\ KeptRow(i) \/ NewRow(i, Elsewhere)
                              /\ Outbox!Open(i) /\ intent[i].request # Elsewhere => Outbox!Open(i)'
  PROVE  Kept
<1>1. FlowInv'
  BY FlowOn
<1>2. StageInv'
  BY DEF Inv, StageInv, RequestIsCurrent, HistoryKept, RevisionBounded, NumberIsAsked,
         AttemptAgrees, AttemptStateIn, WaitingIsQueued, Numbers, Revisions
<1>. QED
  BY <1>1, <1>2 DEF Kept

(* The steps that touch neither the row of the workflow nor the outbox.    *)
LEMMA CallKeeps ==
  ASSUME Inv, FinalizeFails \/ AdmitEvidence \/ EvidenceFails \/ Wake \/ SelectAnother \/ Crash
              \/ Tick \/ UNCHANGED vars
  PROVE  Kept
<1>1. UNCHANGED <<setBacks, intent, attempt, workflow, transcriptAttempt, asked>>
      /\ now' \in 0 .. MaxNow /\ (mode' = "up" => UNCHANGED <<mode, queued>>)
  BY Typed, TranscriptAssumption
     DEF FinalizeFails, AdmitEvidence, EvidenceFails, Wake, SelectAnother,
            Crash, Tick, Outbox!Tick, vars, outbox, tables, process
<1>2. \A i \in IntentIds : KeptRow(i) /\ (Outbox!Open(i)' <=> Outbox!Open(i))
  BY <1>1 DEF KeptRow, There, Outbox!Open
<1>3. TablesTyped'
  BY <1>1, TranscriptAssumption
     DEF Inv, TablesTyped, WorkflowRow, FinalizeFails, AdmitEvidence, EvidenceFails, Wake,
         SelectAnother,
         Crash, Tick, Outbox!Tick, vars, outbox, tables, process, Numbers, Ids
<1>. QED
  BY <1>1, <1>2, <1>3, StillSteps, StillKeeps

(* Another component authorises an effect.                                 *)
LEMMA ElsewhereKeeps ==
  ASSUME Inv, AuthorizeElsewhere
  PROVE  Kept
<1>1. PICK j \in IntentIds :
         /\ Outbox!NextId(j)
         /\ intent' = [intent EXCEPT ![j] = Outbox!NewIntent(Elsewhere, now)]
         /\ UNCHANGED <<now, setBacks, attempt, tables, process>>
  BY DEF AuthorizeElsewhere
<1>2. Rows!OutboxStep
  <2>1. Elsewhere \in Requests
    BY DEF Requests, Repeatable
  <2>. QED
    BY <1>1, <2>1, AppendSteps
<1>3. /\ ~ There(j) /\ There(j)' /\ intent'[j].request = Elsewhere /\ ~ Outbox!Open(j)
      /\ \A i \in IntentIds \ {j} : intent'[i] = intent[i]
  BY <1>1, Typed DEF There, Outbox!NextId, Outbox!NewIntent, Outbox!Open
<1>4. \A i \in IntentIds : /\ KeptRow(i) \/ NewRow(i, Elsewhere)
                           /\ Outbox!Open(i) => Outbox!Open(i)'
  BY <1>3 DEF KeptRow, NewRow, There, Outbox!Open
<1>5. TablesTyped'
  BY <1>1 DEF Inv, TablesTyped, tables, process
<1>. QED
  BY <1>1, <1>2, <1>4, <1>5, StillKeeps DEF tables, process

(* The effect of another component is answered.                            *)
LEMMA ObserveElsewhereKeeps ==
  ASSUME Inv, NEW i \in IntentIds, NEW f \in Fences, ObserveElsewhere(i, f)
  PROVE  Kept
<1>1. /\ Outbox!CurrentFence(i, f) /\ SettleEffect(i, f) /\ UNCHANGED <<now, setBacks>>
      /\ intent[i].request = Elsewhere /\ UNCHANGED <<tables, process>>
  BY DEF ObserveElsewhere, Outbox!Observe, SettleEffect
<1>2. TablesTyped'
  BY <1>1 DEF Inv, TablesTyped, tables, process
<1>. QED
  BY <1>1, <1>2, SettleSteps, SettleRows, StillKeeps DEF tables, process

(* The poll claims an effect, or finds none.                               *)
LEMMA ClaimKeeps ==
  ASSUME Inv, Claim
  PROVE  Kept
<1>1. UNCHANGED <<tables, queued, mode, crashes>> /\ step' = "idle"
  BY DEF Claim
<1>2. TablesTyped'
  BY <1>1 DEF Inv, TablesTyped, tables
<1>3. CASE UNCHANGED <<now, setBacks, outbox>>
  <2>1. \A i \in IntentIds : KeptRow(i) /\ (Outbox!Open(i)' <=> Outbox!Open(i))
    BY <1>3 DEF outbox, KeptRow, There, Outbox!Open
  <2>. QED
    BY <1>1, <1>2, <1>3, <2>1, StillSteps, StillKeeps, Typed, TranscriptAssumption
       DEF outbox, tables
<1>4. CASE Outbox!ClaimNext
  <2>1. PICK j \in IntentIds : Outbox!Claimable(j) /\ Outbox!Lease(j)
    BY <1>4 DEF Outbox!ClaimNext, IntentIds
  <2>2. There(j) /\ Outbox!Open(j)
    BY <2>1 DEF Outbox!Claimable, Outbox!Reclaimable, There, Outbox!Open
  <2>3. /\ intent'[j].state = "claimed" /\ intent'[j].request = intent[j].request
        /\ \A i \in IntentIds \ {j} : intent'[i] = intent[i]
    BY <2>1, Typed DEF Outbox!Lease, Rows!IntentRow
  <2>4. \A i \in IntentIds : KeptRow(i) /\ (Outbox!Open(i)' <=> Outbox!Open(i))
    BY <2>2, <2>3 DEF KeptRow, There, Outbox!Open
  <2>. QED
    BY <1>1, <1>2, <1>4, <2>4, ClaimSteps, StillKeeps DEF tables
<1>. QED
  BY <1>3, <1>4 DEF Claim

(* A start of the episode, or a retry, replaces the row: it asks the       *)
(* provider for the next attempt, or the publisher.                        *)
Started(stage, count, request, revision) ==
    /\ workflow' = [NoWorkflow EXCEPT !.stage = stage, !.revision = revision, !.number = count,
                       !.request = request, !.deadline = now + DeadlineTicks,
                       !.expected = selection]
    /\ queued' = (queued \ {workflow.request}) \cup {request}
    /\ asked' = asked + 1
    /\ wake' \in {wake, None}
    /\ UNCHANGED <<now, setBacks, outbox, selection, evidence, mode, step, crashes>>

(* What a start and a retry make of the tables.                            *)
LEMMA StartForms ==
  ASSUME Inv, (\E publisher \in BOOLEAN : Ensure(publisher)) \/ Retry
  PROVE  \E revision \in Nat :
           /\ revision <= MaxRevision + 1
           /\ \/ /\ workflow.number = 0 /\ transcriptAttempt' = NoAttempts
                 /\ Started("publisher_requested", 0, FromPublisher, revision)
              \/ \E number \in Numbers :
                    /\ number = workflow.number + 1
                    /\ transcriptAttempt' = [NoAttempts EXCEPT ![number] = "prepared"]
                    /\ Started("requested", number, Provider(number), revision)
<1>1. workflow.number \in Nat /\ workflow.revision \in Nat
  BY TranscriptAssumption DEF Inv, TablesTyped, WorkflowRow
<1>2. 1 \in Numbers /\ 1 \in Nat /\ 1 <= MaxRevision + 1 /\ 0 + 1 = 1
  BY TranscriptAssumption DEF Numbers
<1>3. ASSUME Ensure(TRUE)
      PROVE  /\ workflow.number = 0 /\ transcriptAttempt' = NoAttempts
             /\ Started("publisher_requested", 0, FromPublisher, 1)
  BY <1>3 DEF Ensure, StartAttempt, Started, FromPublisher, Inv, StageInv, RequestIsCurrent
<1>4. ASSUME Ensure(FALSE)
      PROVE  /\ workflow.number = 0 /\ transcriptAttempt' = [NoAttempts EXCEPT ![1] = "prepared"]
             /\ Started("requested", 1, Provider(1), 1)
  BY <1>4 DEF Ensure, StartAttempt, Started, Provider, Inv, StageInv, RequestIsCurrent
<1>5. ASSUME Retry
      PROVE  \E number \in Numbers, revision \in Nat :
               /\ revision <= MaxRevision + 1 /\ number = workflow.number + 1
               /\ transcriptAttempt' = [NoAttempts EXCEPT ![number] = "prepared"]
               /\ Started("requested", number, Provider(number), revision)
  <2>1. workflow.number < MaxNumber /\ workflow.revision < MaxRevision
    BY <1>5 DEF Retry, Room
  <2>2. PICK number \in Numbers : number = workflow.number + 1
    BY <1>1, <2>1, TranscriptAssumption DEF Numbers
  <2>3. PICK revision \in Nat :
           revision <= MaxRevision + 1 /\ revision = workflow.revision + 1
    BY <1>1, <2>1, TranscriptAssumption
  <2>4. /\ transcriptAttempt' = [NoAttempts EXCEPT ![number] = "prepared"]
        /\ Started("requested", number, Provider(number), revision)
    BY <1>5, <2>2, <2>3 DEF Retry, StartAttempt, Started, Provider
  <2>. QED
    BY <2>2, <2>3, <2>4
<1>6. ASSUME NEW publisher \in BOOLEAN, Ensure(publisher) PROVE Ensure(TRUE) \/ Ensure(FALSE)
  <2>1. CASE publisher = TRUE
    BY <1>6, <2>1
  <2>2. CASE publisher = FALSE
    BY <1>6, <2>2
  <2>. QED
    BY <2>1, <2>2
<1>. QED
  BY <1>2, <1>3, <1>4, <1>5, <1>6

(* A start, or a retry.                                                    *)
LEMMA StartKeeps ==
  ASSUME Inv, (\E publisher \in BOOLEAN : Ensure(publisher)) \/ Retry
  PROVE  Kept
<1>1. PICK stage \in {"publisher_requested", "requested"}, count \in 0 .. MaxNumber,
           request \in Ids, revision \in Nat :
         /\ Started(stage, count, request, revision)
         /\ revision <= MaxRevision + 1
         /\ \/ /\ workflow.number = 0 /\ count = 0 /\ request = FromPublisher
               /\ stage = "publisher_requested"
               /\ transcriptAttempt' = NoAttempts
            \/ /\ count = workflow.number + 1 /\ count \in Numbers /\ request = Provider(count)
               /\ stage = "requested"
               /\ transcriptAttempt' = [NoAttempts EXCEPT ![count] = "prepared"]
  <2>1. 0 \in 0 .. MaxNumber /\ Numbers \subseteq 0 .. MaxNumber
    BY TranscriptAssumption DEF Numbers
  <2>. QED
    BY <2>1, StartForms, RequestForms
<1>2. /\ workflow'.stage = stage /\ workflow'.number = count /\ workflow'.request = request
      /\ workflow'.revision = revision /\ workflow'.accepted = FALSE
      /\ asked' = asked + 1 /\ queued' = (queued \ {workflow.request}) \cup {request}
      /\ UNCHANGED <<now, setBacks, outbox, selection, evidence, mode, step, crashes>>
      /\ wake' \in {wake, None}
  BY <1>1 DEF Started, NoWorkflow
<1>3. workflow.number \in Nat /\ asked \in Nat /\ workflow.number <= asked /\ MaxNumber \in Nat
  BY TranscriptAssumption DEF Inv, TablesTyped, WorkflowRow, StageInv, NumberIsAsked
<1>4. Rows!OutboxStep
  BY <1>2, StillSteps, Typed, TranscriptAssumption DEF outbox
<1>5. FlowInv'
  <2>1. \A i \in IntentIds : KeptRow(i)
    BY <1>2 DEF outbox, KeptRow, There, Outbox!Open
  <2>. QED
    BY <1>1, <1>2, <2>1, FlowStarts DEF Unanswered
<1>6. StageInv'
  <2>1. RequestIsCurrent'
    BY <1>1, <1>2, <1>3 DEF RequestIsCurrent, Unanswered, Numbers
  <2>2. HistoryKept' /\ RevisionBounded'
    BY <1>1, <1>2 DEF HistoryKept, RevisionBounded, Unanswered
  <2>3. NumberIsAsked'
    BY <1>1, <1>2, <1>3 DEF NumberIsAsked
  <2>4. AttemptAgrees'
    <3>1. ASSUME NEW n \in Numbers, n # count PROVE transcriptAttempt'[n] = "none"
      BY <1>1, <3>1 DEF NoAttempts
    <3>2. count \in Numbers => transcriptAttempt'[count] = "prepared" /\ stage = "requested"
      BY <1>1, <1>3 DEF NoAttempts, Numbers
    <3>3. AttemptStateIn("requested") = {"prepared"}
      BY DEF AttemptStateIn
    <3>. QED
      BY <1>2, <3>1, <3>2, <3>3 DEF AttemptAgrees, Numbers
  <2>5. WaitingIsQueued'
    BY <1>2 DEF WaitingIsQueued
  <2>. QED
    BY <2>1, <2>2, <2>3, <2>4, <2>5 DEF StageInv
<1>7. TablesTyped'
  <2>1. workflow' \in WorkflowRow
    <3>1. now + DeadlineTicks \in Nat /\ selection \in Nat /\ stage \in Stages
      BY Typed, TranscriptAssumption DEF Stages, Queueable, Inv, TablesTyped
    <3>. QED
      BY <1>1, <3>1 DEF Started, NoWorkflow, WorkflowRow
  <2>2. transcriptAttempt' \in [Numbers -> AttemptStates]
    BY <1>1 DEF NoAttempts, AttemptStates
  <2>3. queued' \subseteq Ids
    BY <1>1, <1>2 DEF Inv, TablesTyped, WorkflowRow
  <2>. QED
    BY <1>2, <2>1, <2>2, <2>3 DEF Inv, TablesTyped, Ids, Numbers
<1>. QED
  BY <1>4, <1>5, <1>6, <1>7 DEF Kept

(* The workflow moves on with its request and number.  What it takes for   *)
(* the invariant of the row:                                               *)
Onward(stage) ==
    /\ workflow.stage # "none"
    /\ workflow'.stage = stage /\ workflow'.number = workflow.number
    /\ workflow'.request = workflow.request /\ workflow'.revision = workflow.revision + 1
    /\ asked' = asked
    /\ \A n \in Numbers : IF n = workflow.number
                          THEN transcriptAttempt'[n] \in AttemptStateIn(stage)
                          ELSE transcriptAttempt'[n] = transcriptAttempt[n]
    /\ workflow'.accepted => workflow.number > 0
    /\ stage = "provider_accepted" => /\ workflow'.accepted
                                      /\ workflow'.revision \in Revisions
                                      /\ workflow.request \in queued'

(* The stages in which nothing is left to be authorised.                   *)
Passive == Stages \ (Unanswered \cup {"publisher_requested", "submission_authorized"})

(* Moving on to such a stage keeps what the tables say of each other.      *)
LEMMA OnwardInv ==
  ASSUME Inv, NEW stage \in Passive, Onward(stage)
  PROVE  StageInv'
<1>1. RequestIsCurrent'
  BY
     DEF Inv, StageInv, RequestIsCurrent, Onward, Passive, Unanswered, Stages, Queueable,
         Protected
<1>2. HistoryKept'
  BY DEF HistoryKept, Onward, Passive
<1>3. RevisionBounded'
  BY DEF RevisionBounded, Onward, Passive, Revisions
<1>4. NumberIsAsked'
  BY DEF Inv, StageInv, NumberIsAsked, Onward
<1>5. AttemptAgrees'
  <2>1. AttemptStateIn(workflow.stage)' = AttemptStateIn(stage)
    BY DEF Onward, AttemptStateIn
  <2>. QED
    BY <2>1 DEF Inv, StageInv, AttemptAgrees, Onward, Numbers
<1>6. WaitingIsQueued'
  BY DEF WaitingIsQueued, Onward, Passive, Queueable, Unanswered
<1>. QED
  BY <1>1, <1>2, <1>3, <1>4, <1>5, <1>6 DEF StageInv

(* A cancellation withdraws the effects and closes the attempt.            *)
LEMMA CancelKeeps ==
  ASSUME Inv, Cancel
  PROVE  Kept
<1>1. /\ workflow' = [Ended(workflow, "cancelled") EXCEPT !.revision = workflow.revision + 1]
      /\ transcriptAttempt' = [n \in Numbers |->
          IF n = workflow.number /\ transcriptAttempt[n] # "committed" THEN "cancelled"
          ELSE transcriptAttempt[n]]
      /\ WithdrawEffects /\ workflow.stage # "none"
      /\ queued' = queued \ {workflow.request} /\ wake' = None
      /\ UNCHANGED <<now, setBacks, selection, evidence, asked, mode, step, crashes>>
  BY DEF Cancel, Save, Ended
<1>2. workflow \in WorkflowRow
  BY DEF Inv, TablesTyped
<1>3. /\ workflow'.stage = "cancelled" /\ workflow'.number = workflow.number
      /\ workflow'.request = workflow.request /\ workflow'.revision = workflow.revision + 1
      /\ workflow'.accepted = workflow.accepted
  BY <1>1, <1>2 DEF Ended
<1>4. Onward("cancelled")
  <2>1. \A n \in Numbers : IF n = workflow.number
                          THEN transcriptAttempt'[n] \in {"cancelled", "committed"}
                          ELSE transcriptAttempt'[n] = transcriptAttempt[n]
    BY <1>1
  <2>2. AttemptStateIn("cancelled") = {"cancelled", "committed"}
    BY DEF AttemptStateIn
  <2>. QED
    BY <1>1, <1>3, <2>1, <2>2 DEF Onward, Inv, StageInv, HistoryKept
<1>5. "cancelled" \in Passive
  BY DEF Passive, Stages, Unanswered
<1>6. TablesTyped'
  <2>1. workflow.revision + 1 \in Nat /\ "cancelled" \in Stages /\ "cancelled" \in AttemptStates
    BY <1>2 DEF WorkflowRow, Stages, AttemptStates
  <2>2. workflow' \in WorkflowRow
    BY <1>1, <1>2, <2>1 DEF Ended, WorkflowRow
  <2>3. transcriptAttempt' \in [Numbers -> AttemptStates]
    BY <1>1, <2>1 DEF Inv, TablesTyped
  <2>. QED
    BY <1>1, <2>2, <2>3 DEF Inv, TablesTyped, Ids, Numbers
<1>7. \A i \in IntentIds : KeptRow(i) \/ NewRow(i, Elsewhere)
  <2>1. PICK j \in IntentIds :
          /\ Outbox!NextId(j)
          /\ \A i \in IntentIds : intent'[i] =
               IF i = j THEN Outbox!NewIntent(Elsewhere, now)
               ELSE IF Outbox!Open(i) /\ intent[i].request # Elsewhere
                    THEN [intent[i] EXCEPT !.state = "superseded"] ELSE intent[i]
    BY <1>1 DEF WithdrawEffects
  <2>2. NewRow(j, Elsewhere)
    <3>1. intent[j].state = "absent" /\ intent'[j] = Outbox!NewIntent(Elsewhere, now)
      BY <2>1 DEF Outbox!NextId
    <3>. QED
      BY <3>1 DEF NewRow, There, Outbox!NewIntent
  <2>3. ASSUME NEW i \in IntentIds, i # j PROVE KeptRow(i)
    <3>1. CASE Outbox!Open(i) /\ intent[i].request # Elsewhere
      <4>1. intent[i] \in Rows!IntentRow /\ intent'[i] = [intent[i] EXCEPT !.state = "superseded"]
        BY <2>1, <2>3, <3>1, Typed
      <4>. QED
        BY <3>1, <4>1 DEF KeptRow, There, Outbox!Open, Rows!IntentRow
    <3>2. CASE ~ (Outbox!Open(i) /\ intent[i].request # Elsewhere)
      BY <2>1, <2>3, <3>2 DEF KeptRow, There, Outbox!Open
    <3>. QED
      BY <3>1, <3>2
  <2>. QED
    BY <2>2, <2>3
<1>8. FlowInv'
  BY <1>3, <1>7, FlowOn DEF Unanswered
<1>. QED
  BY <1>1, <1>4, <1>5, <1>6, <1>8, WithdrawSteps, OnwardInv DEF Kept

(* A submission whose host is silent is given up: its effect stays.        *)
LEMMA AmbiguousKeeps ==
  ASSUME Inv, Abandoned, MarkAmbiguous, asked' = asked, UNCHANGED <<intent, attempt>>
  PROVE  /\ workflow' \in WorkflowRow
         /\ transcriptAttempt' \in [Numbers -> AttemptStates]
         /\ StageInv' /\ FlowInv'
<1>1. /\ workflow' = [workflow EXCEPT !.stage = "blocked", !.maySubmit = TRUE, !.deadline = None,
                         !.revision = workflow.revision + 1]
      /\ transcriptAttempt' = [transcriptAttempt EXCEPT ![workflow.number] =
                                IF @ = "authorized" THEN "ambiguous" ELSE @]
      /\ workflow.stage = "submission_authorized"
  BY DEF Abandoned, MarkAmbiguous, Save
<1>2. workflow \in WorkflowRow
      /\ transcriptAttempt \in [Numbers -> AttemptStates]
  BY DEF Inv, TablesTyped
<1>3. /\ workflow'.stage = "blocked" /\ workflow'.number = workflow.number
      /\ workflow'.request = workflow.request /\ workflow'.revision = workflow.revision + 1
      /\ workflow'.accepted = workflow.accepted
  BY <1>1, <1>2
<1>4. Onward("blocked")
  <2>1. AttemptStateIn("blocked") = {"ambiguous", "failed"}
        /\ AttemptStateIn(workflow.stage) = {"authorized"}
    BY <1>1 DEF AttemptStateIn
  <2>2. \A n \in Numbers : n = workflow.number => transcriptAttempt[n] = "authorized"
    BY <2>1 DEF Inv, StageInv, AttemptAgrees
  <2>3. \A n \in Numbers : IF n = workflow.number
                          THEN transcriptAttempt'[n] = "ambiguous"
                          ELSE transcriptAttempt'[n] = transcriptAttempt[n]
    BY <1>1, <1>2, <2>2
  <2>. QED
    BY <1>1, <1>3, <2>1, <2>3 DEF Onward, Inv, StageInv, HistoryKept
<1>5. "blocked" \in Passive
  BY DEF Passive, Stages, Unanswered
<1>6. FlowInv'
  <2>1. \A i \in IntentIds : KeptRow(i)
    BY DEF KeptRow, There, Outbox!Open
  <2>. QED
    BY <1>3, <2>1, FlowOn DEF Unanswered
<1>7. workflow' \in WorkflowRow
  <2>1. workflow.revision + 1 \in Nat /\ "blocked" \in Stages
    BY <1>2 DEF WorkflowRow, Stages
  <2>. QED
    BY <1>1, <1>2, <2>1 DEF WorkflowRow
<1>8. transcriptAttempt' \in [Numbers -> AttemptStates]
  BY <1>1, <1>2 DEF AttemptStates
<1>. QED
  BY <1>4, <1>5, <1>6, <1>7, <1>8, OnwardInv

(* The poll gives up an abandoned submission, or leaves it.                *)
LEMMA ReconcileKeeps ==
  ASSUME Inv, Reconcile
  PROVE  Kept
<1>1. /\ step' = "prepare"
      /\ UNCHANGED <<now, setBacks, intent, attempt, selection, evidence, wake, asked, queued, mode,
                     crashes>>
  BY DEF Reconcile, outbox
<1>2. Rows!OutboxStep
  BY <1>1, StillSteps, Typed, TranscriptAssumption
<1>3. CASE Abandoned /\ MarkAmbiguous
  <2>1. TablesTyped'
    BY <1>1, <1>3, AmbiguousKeeps DEF Inv, TablesTyped
  <2>. QED
    BY <1>1, <1>2, <1>3, <2>1, AmbiguousKeeps DEF Kept
<1>4. CASE UNCHANGED <<workflow, transcriptAttempt>>
  <2>1. TablesTyped'
    BY <1>1, <1>4 DEF Inv, TablesTyped
  <2>2. \A i \in IntentIds : KeptRow(i) /\ (Outbox!Open(i)' <=> Outbox!Open(i))
    BY <1>1 DEF KeptRow, There, Outbox!Open
  <2>. QED
    BY <1>1, <1>2, <1>4, <2>1, <2>2, StillKeeps
<1>. QED
  BY <1>3, <1>4 DEF Reconcile

(* Opening fills the queue again.                                          *)
LEMMA OpenKeeps ==
  ASSUME Inv, Open
  PROVE  Kept
<1>1. /\ mode' = "up" /\ queued' = Rehydrated
      /\ step' \in {"idle", "prepare", "claim", "finalize", "evidence", "resume"}
      /\ UNCHANGED <<now, setBacks, intent, attempt, selection, evidence, wake, asked, crashes>>
  BY DEF Open, outbox
<1>2. Rows!OutboxStep
  BY <1>1, StillSteps, Typed, TranscriptAssumption
<1>3. queued' \subseteq Ids
  <2>1. workflow.stage \in Queueable => workflow.stage # "none"
    BY DEF Queueable
  <2>. QED
    BY <1>1, <2>1, WorkflowRequest DEF Rehydrated
<1>4. CASE Abandoned /\ MarkAmbiguous
  <2>1. TablesTyped'
    BY <1>1, <1>3, <1>4, AmbiguousKeeps DEF Inv, TablesTyped
  <2>. QED
    BY <1>1, <1>2, <1>4, <2>1, AmbiguousKeeps DEF Kept
<1>5. CASE UNCHANGED <<workflow, transcriptAttempt>>
  <2>1. TablesTyped'
    BY <1>1, <1>3, <1>5 DEF Inv, TablesTyped
  <2>2. \A i \in IntentIds : KeptRow(i) /\ (Outbox!Open(i)' <=> Outbox!Open(i))
    BY <1>1 DEF KeptRow, There, Outbox!Open
  <2>3. FlowInv'
    BY <1>5, <2>2, FlowOn
  <2>4. StageInv'
    <3>1. WaitingIsQueued'
      BY <1>1, <1>5 DEF WaitingIsQueued, Rehydrated
    <3>. QED
      BY <1>1, <1>5, <3>1
         DEF Inv, StageInv, RequestIsCurrent, HistoryKept, RevisionBounded, NumberIsAsked,
             AttemptAgrees, AttemptStateIn, Numbers, Revisions
  <2>. QED
    BY <1>2, <2>1, <2>3, <2>4 DEF Kept
<1>. QED
  BY <1>4, <1>5 DEF Open

(* The provider is asked: the row, its attempt and the effect move         *)
(* together.                                                               *)
LEMMA SubmissionKeeps ==
  ASSUME Inv, Submittable, AuthorizeSubmission, UNCHANGED <<now, setBacks, attempt, asked, queued>>
  PROVE  /\ Rows!OutboxStep /\ StageInv' /\ FlowInv'
         /\ workflow' \in WorkflowRow
         /\ transcriptAttempt' \in [Numbers -> AttemptStates]
<1>1. /\ workflow \in WorkflowRow /\ transcriptAttempt \in [Numbers -> AttemptStates]
      /\ workflow.revision \in Nat
  BY DEF Inv, TablesTyped, WorkflowRow
<1>2. /\ workflow' = [workflow EXCEPT !.stage = "submission_authorized", !.revision = @ + 1,
                         !.notBefore = None, !.authorized = TRUE, !.maySubmit = TRUE]
      /\ transcriptAttempt' = [transcriptAttempt EXCEPT ![workflow.number] = "authorized"]
      /\ AuthorizeOnce(Submit(workflow.request))
  BY DEF AuthorizeSubmission
<1>3. /\ workflow'.stage = "submission_authorized" /\ workflow'.number = workflow.number
      /\ workflow'.request = workflow.request /\ workflow'.revision = workflow.revision + 1
      /\ workflow'.authorized = TRUE /\ workflow'.accepted = workflow.accepted
  BY <1>1, <1>2 DEF WorkflowRow
<1>4. workflow.stage \in Unanswered /\ workflow.stage # "none"
  BY DEF Submittable, Unanswered
<1>5. workflow.request \in Ids /\ Submit(workflow.request) \in Requests
      /\ Submit(workflow.request).id = workflow.request
  BY <1>4, WorkflowRequest, RequestForms DEF Requests, Submissions
<1>6. Rows!OutboxStep
  BY <1>2, <1>5, OnceSteps
<1>7. FlowInv'
  BY <1>2, <1>3, <1>4, <1>5, FlowAuthorizes
<1>8. workflow' \in WorkflowRow
  <2>1. workflow.revision + 1 \in Nat /\ "submission_authorized" \in Stages
    BY <1>1 DEF Stages, Protected
  <2>. QED
    BY <1>1, <1>2, <2>1 DEF WorkflowRow
<1>9. transcriptAttempt' \in [Numbers -> AttemptStates]
  BY <1>1, <1>2 DEF AttemptStates
<1>10. StageInv'
  <2>1. RequestIsCurrent' /\ HistoryKept'
    BY <1>3, <1>4 DEF Inv, StageInv, RequestIsCurrent, HistoryKept, Unanswered
  <2>2. RevisionBounded'
    BY <1>1, <1>3, <1>4, TranscriptAssumption DEF Inv, StageInv, RevisionBounded, Unanswered
  <2>3. NumberIsAsked'
    BY <1>3, <1>4 DEF Inv, StageInv, NumberIsAsked
  <2>4. AttemptAgrees'
    <3>1. \A n \in Numbers : n # workflow.number => transcriptAttempt[n] = "none"
      BY DEF Inv, StageInv, AttemptAgrees
    <3>2. \A n \in Numbers : transcriptAttempt'[n] = IF n = workflow.number THEN "authorized"
                                                     ELSE "none"
      BY <1>1, <1>2, <3>1
    <3>3. AttemptStateIn("submission_authorized") = {"authorized"}
      BY DEF AttemptStateIn
    <3>. QED
      BY <1>3, <3>2, <3>3 DEF AttemptAgrees, Numbers
  <2>5. WaitingIsQueued'
    BY <1>3 DEF WaitingIsQueued, Queueable
  <2>. QED
    BY <2>1, <2>2, <2>3, <2>4, <2>5 DEF StageInv
<1>. QED
  BY <1>6, <1>7, <1>8, <1>9, <1>10

(* The poll authorises what the queued request needs.                      *)
LEMMA PrepareKeeps ==
  ASSUME Inv, Prepare
  PROVE  Kept
<1>1. /\ mode = "up" /\ step' = "claim"
      /\ UNCHANGED <<now, setBacks, attempt, selection, evidence, wake, asked, mode, crashes>>
  BY DEF Prepare, At
<1>2. ASSUME UNCHANGED <<workflow, transcriptAttempt>>, Rows!OutboxStep, FlowInv', queued' \subseteq Ids,
             WaitingIsQueued'
      PROVE  Kept
  <2>1. StageInv'
    BY <1>1, <1>2
       DEF Inv, StageInv, RequestIsCurrent, HistoryKept, RevisionBounded, NumberIsAsked,
           AttemptAgrees, AttemptStateIn, Numbers, Revisions
  <2>2. TablesTyped'
    BY <1>1, <1>2 DEF Inv, TablesTyped
  <2>. QED
    BY <1>2, <2>1, <2>2 DEF Kept
<1>3. ASSUME UNCHANGED <<intent, workflow, transcriptAttempt>>,
             queued' = queued \/ (workflow.request \notin queued /\ queued' = {})
      PROVE  Kept
  <2>1. \A i \in IntentIds : KeptRow(i) /\ (Outbox!Open(i)' <=> Outbox!Open(i))
    BY <1>3 DEF KeptRow, There, Outbox!Open
  <2>2. FlowInv'
    BY <1>3, <2>1, FlowOn
  <2>3. WaitingIsQueued' /\ queued' \subseteq Ids
    BY <1>1, <1>3 DEF Inv, StageInv, TablesTyped, WaitingIsQueued
  <2>4. Rows!OutboxStep
    BY <1>1, <1>3, StillSteps, Typed, TranscriptAssumption
  <2>. QED
    BY <1>2, <1>3, <2>2, <2>3, <2>4
<1>4. ASSUME NEW r \in Requests, AuthorizeOnce(r), UNCHANGED <<workflow, transcriptAttempt, queued>>,
             r.id = workflow.request,
             \/ workflow.stage = "publisher_requested" /\ r = Publish(workflow.request)
             \/ /\ workflow.stage = "provider_accepted"
                /\ r = Recover(workflow.request, workflow.revision)
      PROVE  Kept
  <2>1. FlowInv'
    BY <1>4, FlowAuthorizes
  <2>2. WaitingIsQueued' /\ queued' \subseteq Ids
    BY <1>1, <1>4 DEF Inv, StageInv, TablesTyped, WaitingIsQueued
  <2>. QED
    BY <1>1, <1>2, <1>4, <2>1, <2>2, OnceSteps
<1>5. CASE workflow.request \in queued /\ PrepareQueued /\ UNCHANGED queued
  <2>1. \/ /\ workflow.stage = "publisher_requested"
           /\ AuthorizeOnce(Publish(workflow.request)) /\ UNCHANGED <<workflow, transcriptAttempt>>
        \/ /\ workflow.stage = "provider_accepted"
           /\ AuthorizeOnce(Recover(workflow.request, workflow.revision))
           /\ UNCHANGED <<workflow, transcriptAttempt>>
        \/ Submittable /\ AuthorizeSubmission
        \/ UNCHANGED <<intent, workflow, transcriptAttempt>>
    BY <1>5 DEF PrepareQueued
  <2>2. workflow.request \in Ids
    BY <1>5 DEF Inv, TablesTyped
  <2>3. CASE workflow.stage = "publisher_requested" /\ AuthorizeOnce(Publish(workflow.request))
             /\ UNCHANGED <<workflow, transcriptAttempt>>
    <3>1. Publish(workflow.request) \in Requests /\ Publish(workflow.request).id = workflow.request
      BY <2>2, RequestForms DEF Requests, Repeatable
    <3>. QED
      BY <1>4, <1>5, <2>3, <3>1
  <2>4. CASE workflow.stage = "provider_accepted"
             /\ AuthorizeOnce(Recover(workflow.request, workflow.revision))
             /\ UNCHANGED <<workflow, transcriptAttempt>>
    <3>1. workflow.revision \in Revisions
      BY <2>4 DEF Inv, StageInv, RevisionBounded
    <3>2. Recover(workflow.request, workflow.revision) \in Requests
          /\ Recover(workflow.request, workflow.revision).id = workflow.request
      BY <2>2, <3>1, RequestForms DEF Requests, Repeatable
    <3>. QED
      BY <1>4, <1>5, <2>4, <3>2
  <2>5. CASE Submittable /\ AuthorizeSubmission
    <3>1. TablesTyped'
      BY <1>1, <1>5, <2>5, SubmissionKeeps DEF Inv, TablesTyped
    <3>. QED
      BY <1>1, <1>5, <2>5, <3>1, SubmissionKeeps DEF Kept
  <2>. QED
    BY <1>3, <1>5, <2>1, <2>3, <2>4, <2>5
<1>. QED
  BY <1>3, <1>5 DEF Prepare

(* A report settles its effect and moves the workflow on.                  *)
LEMMA ReportKeeps ==
  ASSUME Inv, NEW i \in IntentIds, NEW f \in Fences, Reports(i, f), SettleEffect(i, f),
         UNCHANGED <<now, setBacks>>, NEW stage \in Passive, Onward(stage), TablesTyped'
  PROVE  Kept
<1>1. Rows!OutboxStep
  BY SettleSteps DEF Reports
<1>2. StageInv'
  BY OnwardInv
<1>3. FlowInv'
  BY ReportRows, FlowOn DEF Onward, Passive, KeptRow
<1>. QED
  BY <1>1, <1>2, <1>3 DEF Kept

(* What a report of the provider or the publisher makes of the row.        *)
LEMMA ReportTypes ==
  ASSUME Inv, NEW w \in WorkflowRow, w.stage # "none", w.request # None, Save(w),
         queued' = Requeued(w) \/ queued' = queued \ {workflow.request},
         transcriptAttempt' \in [Numbers -> AttemptStates],
         step' \in {"idle", "finalize"} \/ step' = step,
         UNCHANGED <<selection, evidence, wake, asked, mode, crashes>>
  PROVE  /\ TablesTyped'
         /\ workflow'.stage = w.stage /\ workflow'.number = w.number
         /\ workflow'.request = w.request /\ workflow'.revision = w.revision + 1
         /\ workflow'.accepted = w.accepted /\ workflow'.authorized = w.authorized
<1>1. workflow' = [w EXCEPT !.revision = @ + 1] /\ w.revision + 1 \in Nat
  BY DEF Save, WorkflowRow
<1>2. workflow' \in WorkflowRow
  BY <1>1 DEF WorkflowRow
<1>3. queued' \subseteq Ids
  <2>1. w.request \in Ids
    BY DEF WorkflowRow
  <2>. QED
    BY <2>1 DEF Requeued, Inv, TablesTyped
<1>4. /\ workflow'.stage = w.stage /\ workflow'.number = w.number
      /\ workflow'.request = w.request /\ workflow'.revision = w.revision + 1
      /\ workflow'.accepted = w.accepted /\ workflow'.authorized = w.authorized
  BY <1>1 DEF WorkflowRow
<1>. QED
  BY <1>2, <1>3, <1>4 DEF Inv, TablesTyped

(* The provider accepted the job: its submission is answered.              *)
LEMMA AcceptKeeps ==
  ASSUME Inv, NEW i \in IntentIds, NEW f \in Fences, Accept(i, f)
  PROVE  Kept
<1> DEFINE w == [workflow EXCEPT !.stage = "provider_accepted", !.accepted = TRUE,
                                 !.notBefore = now + RetryTicks]
<1>1. /\ Reports(i, f) /\ SettleEffect(i, f) /\ workflow.stage = "submission_authorized"
      /\ Save(w) /\ queued' = Requeued(w)
      /\ transcriptAttempt' = [transcriptAttempt EXCEPT ![workflow.number] = "provider_accepted"]
      /\ UNCHANGED <<now, setBacks, selection, evidence, wake, asked, mode, step, crashes>>
  BY DEF Accept
<1>2. workflow \in WorkflowRow /\ transcriptAttempt \in [Numbers -> AttemptStates]
  BY DEF Inv, TablesTyped
<1>3. /\ w \in WorkflowRow /\ w.stage = "provider_accepted" /\ w.number = workflow.number
      /\ w.request = workflow.request /\ w.revision = workflow.revision /\ w.accepted = TRUE
  <2>1. now + RetryTicks \in Nat /\ "provider_accepted" \in Stages
    BY Typed, TranscriptAssumption DEF Stages, Protected
  <2>. QED
    BY <1>2, <2>1 DEF WorkflowRow
<1>4. transcriptAttempt' \in [Numbers -> AttemptStates]
  BY <1>1, <1>2 DEF AttemptStates
<1>5. \A n \in Numbers : IF n = workflow.number THEN transcriptAttempt'[n] = "provider_accepted"
                         ELSE transcriptAttempt'[n] = transcriptAttempt[n]
  BY <1>1, <1>2
<1>6. workflow.request # None /\ workflow.request \in queued' /\ workflow.number > 0
  BY <1>1, <1>3, WorkflowRequest DEF Requeued, Inv, StageInv, RequestIsCurrent
<1>7. workflow.revision + 1 \in Revisions
  BY <1>1, <1>2, TranscriptAssumption
     DEF Inv, StageInv, RevisionBounded, Revisions, WorkflowRow
<1> HIDE DEF w
<1>8. TablesTyped' /\ Onward("provider_accepted")
  <2>1. AttemptStateIn("provider_accepted") = {"provider_accepted"}
    BY DEF AttemptStateIn
  <2>2. /\ TablesTyped'
        /\ workflow'.stage = w.stage /\ workflow'.number = w.number
        /\ workflow'.request = w.request /\ workflow'.revision = w.revision + 1
        /\ workflow'.accepted = w.accepted
    BY <1>1, <1>3, <1>4, <1>6, ReportTypes
  <2>. QED
    BY <1>1, <1>3, <1>5, <1>6, <1>7, <2>1, <2>2 DEF Onward
<1>9. "provider_accepted" \in Passive
  BY DEF Passive, Stages, Protected, Unanswered
<1>. QED
  BY <1>1, <1>8, <1>9, ReportKeeps

(* The job goes on: the recovery is answered and another will be due.      *)
LEMMA StillPendingKeeps ==
  ASSUME Inv, NEW i \in IntentIds, NEW f \in Fences, StillPending(i, f)
  PROVE  Kept
<1> DEFINE w == [workflow EXCEPT !.notBefore = now + RetryTicks]
<1>1. /\ Reports(i, f) /\ SettleEffect(i, f) /\ workflow.stage = "provider_accepted" /\ Room
      /\ Save(w) /\ queued' = Requeued(w)
      /\ UNCHANGED <<now, setBacks, transcriptAttempt, selection, evidence, wake, asked, mode,
                     step, crashes>>
  BY DEF StillPending
<1>2. workflow \in WorkflowRow /\ transcriptAttempt \in [Numbers -> AttemptStates]
  BY DEF Inv, TablesTyped
<1>3. /\ w \in WorkflowRow /\ w.stage = "provider_accepted" /\ w.number = workflow.number
      /\ w.request = workflow.request /\ w.revision = workflow.revision
      /\ w.accepted = workflow.accepted
  <2>1. now + RetryTicks \in Nat
    BY Typed, TranscriptAssumption
  <2>. QED
    BY <1>1, <1>2, <2>1 DEF WorkflowRow
<1>4. /\ workflow.request # None /\ workflow.request \in queued' /\ workflow.number > 0
      /\ workflow.accepted
  BY <1>1, <1>3, WorkflowRequest DEF Requeued, Inv, StageInv, RequestIsCurrent, HistoryKept
<1>5. workflow.revision + 1 \in Revisions
  BY <1>1, <1>2, TranscriptAssumption DEF Room, Revisions, WorkflowRow
<1> HIDE DEF w
<1>6. TablesTyped' /\ Onward("provider_accepted")
  <2>1. /\ TablesTyped'
        /\ workflow'.stage = w.stage /\ workflow'.number = w.number
        /\ workflow'.request = w.request /\ workflow'.revision = w.revision + 1
        /\ workflow'.accepted = w.accepted
    BY <1>1, <1>2, <1>3, <1>4, ReportTypes
  <2>. QED
    BY <1>1, <1>3, <1>4, <1>5, <2>1 DEF Onward, Inv, StageInv, AttemptAgrees
<1>7. "provider_accepted" \in Passive
  BY DEF Passive, Stages, Protected, Unanswered
<1>. QED
  BY <1>1, <1>6, <1>7, ReportKeeps

(* The artifact arrived.                                                   *)
LEMMA CompleteKeeps ==
  ASSUME Inv, NEW i \in IntentIds, NEW f \in Fences, Complete(i, f)
  PROVE  Kept
<1> DEFINE w == [workflow EXCEPT !.stage = "completion_observed"]
<1>1. /\ Reports(i, f) /\ SettleEffect(i, f)
      /\ workflow.stage \in {"publisher_requested", "submission_authorized", "provider_accepted"}
      /\ Save(w) /\ queued' = queued \ {workflow.request} /\ step' = "finalize"
      /\ transcriptAttempt' = [m \in Numbers |-> IF m = workflow.number THEN "completion_observed"
                                                 ELSE transcriptAttempt[m]]
      /\ UNCHANGED <<now, setBacks, selection, evidence, wake, asked, mode, crashes>>
  BY DEF Complete
<1>2. workflow \in WorkflowRow /\ transcriptAttempt \in [Numbers -> AttemptStates]
  BY DEF Inv, TablesTyped
<1>3. /\ w \in WorkflowRow /\ w.stage = "completion_observed" /\ w.number = workflow.number
      /\ w.request = workflow.request /\ w.revision = workflow.revision
      /\ w.accepted = workflow.accepted
  <2>1. "completion_observed" \in Stages
    BY DEF Stages, Protected
  <2>. QED
    BY <1>2, <2>1 DEF WorkflowRow
<1>4. transcriptAttempt' \in [Numbers -> AttemptStates]
  BY <1>1, <1>2 DEF AttemptStates
<1>5. workflow.request # None /\ (workflow.accepted => workflow.number > 0)
      /\ workflow.stage # "none"
  BY <1>1, WorkflowRequest DEF Inv, StageInv, HistoryKept
<1> HIDE DEF w
<1>6. TablesTyped' /\ Onward("completion_observed")
  <2>1. AttemptStateIn("completion_observed") = {"completion_observed"}
    BY DEF AttemptStateIn
  <2>2. /\ TablesTyped'
        /\ workflow'.stage = w.stage /\ workflow'.number = w.number
        /\ workflow'.request = w.request /\ workflow'.revision = w.revision + 1
        /\ workflow'.accepted = w.accepted
    BY <1>1, <1>3, <1>4, <1>5, ReportTypes
  <2>. QED
    BY <1>1, <1>3, <1>5, <2>1, <2>2 DEF Onward
<1>7. "completion_observed" \in Passive
  BY DEF Passive, Stages, Protected, Unanswered
<1>. QED
  BY <1>1, <1>6, <1>7, ReportKeeps

(* What a failure makes of the row: another attempt only when it was the   *)
(* publisher that was asked, for whoever asks a provider has authorised it.*)
LEMMA FailureForms ==
  ASSUME Inv, NEW i \in IntentIds, NEW f \in Fences, Reports(i, f), NEW reason \in Reasons,
         Outbox!Open(i), workflow.stage \in Queueable \cup {"submission_authorized"}
  PROVE  \/ /\ workflow.number = 0 /\ Failed(reason) = RetryScheduled
         \/ \E w : \E stage \in {"blocked", "failed", "cancelled", "provider_accepted"} :
              /\ w = Failed(reason) /\ w \in WorkflowRow
              /\ w.stage = stage /\ w.number = workflow.number /\ w.request = workflow.request
              /\ w.revision = workflow.revision /\ w.accepted = workflow.accepted
              /\ stage = "provider_accepted" => workflow.accepted
<1>1. workflow \in WorkflowRow
  BY DEF Inv, TablesTyped
<1>2. \A stage \in {"blocked", "failed", "cancelled", "provider_accepted"} :
         /\ Ended(workflow, stage) \in WorkflowRow
         /\ Ended(workflow, stage).stage = stage
         /\ Ended(workflow, stage).number = workflow.number
         /\ Ended(workflow, stage).request = workflow.request
         /\ Ended(workflow, stage).revision = workflow.revision
         /\ Ended(workflow, stage).accepted = workflow.accepted
  <2>1. {"blocked", "failed", "cancelled", "provider_accepted"} \subseteq Stages
    BY DEF Stages, Protected
  <2>. QED
    BY <1>1, <2>1 DEF Ended, WorkflowRow
<1>3. \A stage \in {"blocked", "failed", "cancelled", "provider_accepted"} :
         LET w == [Ended(workflow, stage) EXCEPT !.maySubmit = TRUE]
         IN  /\ w \in WorkflowRow /\ w.stage = stage /\ w.number = workflow.number
             /\ w.request = workflow.request /\ w.revision = workflow.revision
             /\ w.accepted = workflow.accepted
  <2>1. ASSUME NEW v \in WorkflowRow
        PROVE  LET w == [v EXCEPT !.maySubmit = TRUE]
               IN  /\ w \in WorkflowRow /\ w.stage = v.stage /\ w.number = v.number
                   /\ w.request = v.request /\ w.revision = v.revision /\ w.accepted = v.accepted
    BY DEF WorkflowRow
  <2>. QED
    BY <1>2, <2>1
<1>4. ASSUME SafeToResubmit PROVE workflow.number = 0
  <2>1. SUFFICES ASSUME workflow.number # 0 PROVE FALSE
    OBVIOUS
  <2>2. workflow.number \in Numbers
    BY <1>1, <2>1, TranscriptAssumption DEF WorkflowRow, Numbers
  <2>3. workflow.stage \in Unanswered
    BY <1>4, <2>1
       DEF Inv, StageInv, HistoryKept, RequestIsCurrent, SafeToResubmit, Queueable,
                      Unanswered
  <2>4. There(i) /\ intent[i].request.id = Provider(workflow.number)
    BY <2>1, <2>3
       DEF Reports, There, Outbox!Open, Inv, StageInv, RequestIsCurrent, Unanswered
  <2>. QED
    BY <2>2, <2>3, <2>4, KnownRow
<1>5. \/ \E stage \in {"blocked", "failed", "cancelled"} : Failed(reason) = Ended(workflow, stage)
      \/ \E stage \in {"blocked", "failed"} :
            Failed(reason) = [Ended(workflow, stage) EXCEPT !.maySubmit = TRUE]
      \/ /\ workflow.accepted
         /\ Failed(reason) = [Ended(workflow, "provider_accepted") EXCEPT !.maySubmit = TRUE]
      \/ SafeToResubmit /\ Failed(reason) = RetryScheduled
  BY DEF Reasons, Failed, Ambiguous
<1>6. CASE \E stage \in {"blocked", "failed", "cancelled"} :
              Failed(reason) = Ended(workflow, stage)
  BY <1>2, <1>6
<1>7. CASE \E stage \in {"blocked", "failed"} :
              Failed(reason) = [Ended(workflow, stage) EXCEPT !.maySubmit = TRUE]
  <2>1. PICK stage \in {"blocked", "failed"} :
               Failed(reason) = [Ended(workflow, stage) EXCEPT !.maySubmit = TRUE]
    BY <1>7
  <2>. QED
    BY <1>3, <2>1
<1>8. CASE /\ workflow.accepted
           /\ Failed(reason) = [Ended(workflow, "provider_accepted") EXCEPT !.maySubmit = TRUE]
  BY <1>3, <1>8
<1>9. CASE SafeToResubmit /\ Failed(reason) = RetryScheduled
  BY <1>4, <1>9
<1>. QED
  BY <1>5, <1>6, <1>7, <1>8, <1>9

(* A failure was reported: the workflow ends, waits, or starts an attempt. *)
LEMMA FailKeeps ==
  ASSUME Inv, NEW i \in IntentIds, NEW f \in Fences, NEW reason \in Reasons, Fail(i, f, reason)
  PROVE  Kept
<1> DEFINE w == Failed(reason)
<1>1. /\ Reports(i, f) /\ Room /\ SettleEffect(i, f)
      /\ workflow.stage \in Queueable \cup {"submission_authorized"}
      /\ w.number <= MaxNumber /\ Save(w) /\ queued' = Requeued(w)
      /\ transcriptAttempt' = [n \in Numbers |->
            IF n = workflow.number THEN AttemptAfter(w)
            ELSE IF n = w.number THEN "prepared" ELSE transcriptAttempt[n]]
      /\ UNCHANGED <<now, setBacks, selection, evidence, wake, asked, mode, step, crashes>>
  BY DEF Fail
<1>2. /\ workflow \in WorkflowRow /\ transcriptAttempt \in [Numbers -> AttemptStates]
      /\ workflow.revision \in Nat
  BY DEF Inv, TablesTyped, WorkflowRow
<1>3. workflow.stage # "none" /\ workflow.request # None /\ Outbox!Open(i)
  BY <1>1, WorkflowRequest, SettleRows DEF Queueable, Reports
<1>4. AttemptAfter(w) \in AttemptStates
  BY DEF AttemptAfter, AttemptStates
<1>5. transcriptAttempt' \in [Numbers -> AttemptStates]
  BY <1>1, <1>2, <1>4 DEF AttemptStates
<1>6. CASE workflow.number = 0 /\ w = RetryScheduled
  <2>1. /\ w \in WorkflowRow /\ w.stage = "retry_scheduled" /\ w.number = 1
        /\ w.request = Provider(1) /\ w.revision = workflow.revision /\ w.accepted = FALSE
    <3>1. /\ now + RetryTicks \in Nat /\ now + RetryTicks + DeadlineTicks \in Nat
          /\ "retry_scheduled" \in Stages /\ 0 + 1 = 1 /\ 1 \in 0 .. MaxNumber
          /\ Provider(1) \in Ids
      BY Typed, RequestForms, TranscriptAssumption DEF Stages, Queueable, Numbers
    <3>2. w = [workflow EXCEPT !.stage = "retry_scheduled", !.number = 1,
                  !.request = Provider(1), !.notBefore = now + RetryTicks,
                  !.deadline = now + RetryTicks + DeadlineTicks, !.authorized = FALSE,
                  !.accepted = FALSE, !.maySubmit = FALSE]
      BY <1>2, <1>6, <3>1 DEF RetryScheduled, WorkflowRow
    <3>. QED
      BY <1>2, <3>1, <3>2 DEF WorkflowRow
  <2> HIDE DEF w
  <2>2. w.request # None
    BY <2>1, RequestForms, NoneAssumption, TranscriptAssumption DEF Numbers
  <2>3. /\ TablesTyped'
        /\ workflow'.stage = "retry_scheduled" /\ workflow'.number = 1
        /\ workflow'.request = Provider(1) /\ workflow'.revision = workflow.revision + 1
        /\ workflow'.accepted = FALSE
    BY <1>1, <1>5, <2>1, <2>2, ReportTypes
  <2>4. 1 \in Numbers /\ 0 \notin Numbers /\ 0 + 1 = 1
    BY TranscriptAssumption DEF Numbers
  <2>5. FlowInv'
    BY <1>1, <1>6, <2>3, <2>4, ReportRows, FlowStarts DEF Unanswered
  <2>6. StageInv'
    <3>1. RequestIsCurrent' /\ HistoryKept'
      BY <2>3 DEF RequestIsCurrent, HistoryKept
    <3>2. RevisionBounded'
      BY <1>1, <1>2, <2>3, TranscriptAssumption DEF Room, RevisionBounded, Unanswered
    <3>3. NumberIsAsked'
      BY <1>1, <1>3, <2>3 DEF Inv, StageInv, NumberIsAsked, TablesTyped
    <3>4. AttemptAgrees'
      <4>1. \A n \in Numbers : transcriptAttempt[n] = "none"
        BY <1>6, <2>4 DEF Inv, StageInv, AttemptAgrees
      <4>2. \A n \in Numbers : transcriptAttempt'[n] = IF n = 1 THEN "prepared" ELSE "none"
        BY <1>1, <1>6, <2>1, <2>4, <4>1
      <4>3. AttemptStateIn("retry_scheduled") = {"prepared"}
        BY DEF AttemptStateIn
      <4>. QED
        BY <2>3, <4>2, <4>3 DEF AttemptAgrees, Numbers
    <3>5. WaitingIsQueued'
      BY <1>1, <2>1, <2>3 DEF WaitingIsQueued, Requeued
    <3>. QED
      BY <3>1, <3>2, <3>3, <3>4, <3>5 DEF StageInv
  <2>7. Rows!OutboxStep
    BY <1>1, SettleSteps DEF Reports
  <2>. QED
    BY <2>3, <2>5, <2>6, <2>7 DEF Kept
<1>7. CASE \E stage \in {"blocked", "failed", "cancelled", "provider_accepted"} :
              /\ w \in WorkflowRow
              /\ w.stage = stage /\ w.number = workflow.number /\ w.request = workflow.request
              /\ w.revision = workflow.revision /\ w.accepted = workflow.accepted
              /\ stage = "provider_accepted" => workflow.accepted
  <2> HIDE DEF w
  <2>1. PICK stage \in {"blocked", "failed", "cancelled", "provider_accepted"} :
              /\ w \in WorkflowRow
              /\ w.stage = stage /\ w.number = workflow.number /\ w.request = workflow.request
              /\ w.revision = workflow.revision /\ w.accepted = workflow.accepted
              /\ stage = "provider_accepted" => workflow.accepted
    BY <1>7
  <2>2. /\ TablesTyped'
        /\ workflow'.stage = stage /\ workflow'.number = workflow.number
        /\ workflow'.request = workflow.request /\ workflow'.revision = workflow.revision + 1
        /\ workflow'.accepted = workflow.accepted
    BY <1>1, <1>3, <1>5, <2>1, ReportTypes
  <2>3. AttemptAfter(w) \in AttemptStateIn(stage)
    BY <2>1 DEF AttemptAfter, AttemptStateIn
  <2>4. \A n \in Numbers : IF n = workflow.number
                           THEN transcriptAttempt'[n] \in AttemptStateIn(stage)
                           ELSE transcriptAttempt'[n] = transcriptAttempt[n]
    BY <1>1, <2>1, <2>3
  <2>5. stage = "provider_accepted" => workflow.request \in queued'
    BY <1>1, <2>1 DEF Requeued
  <2>6. workflow.revision + 1 \in Revisions /\ (workflow.accepted => workflow.number > 0)
    BY <1>1, <1>2, TranscriptAssumption DEF Room, Revisions, Inv, StageInv, HistoryKept
  <2>7. Onward(stage)
    BY <1>1, <1>3, <2>1, <2>2, <2>4, <2>5, <2>6 DEF Onward
  <2>8. stage \in Passive
    BY <2>1 DEF Passive, Stages, Protected, Unanswered
  <2>. QED
    BY <1>1, <2>2, <2>7, <2>8, ReportKeeps
<1>. QED
  BY <1>1, <1>3, <1>6, <1>7, FailureForms

(* The workflow moves on by itself, and no effect changes.                 *)
LEMMA AloneKeeps ==
  ASSUME Inv, UNCHANGED <<now, setBacks, intent, attempt>>,
         NEW stage \in Passive \ {"provider_accepted"}, Onward(stage), TablesTyped'
  PROVE  Kept
<1>1. \A i \in IntentIds : KeptRow(i) /\ (Outbox!Open(i)' <=> Outbox!Open(i))
  BY DEF KeptRow, There, Outbox!Open
<1>2. FlowInv'
  BY <1>1, FlowOn DEF Onward, Passive
<1>3. Rows!OutboxStep
  BY StillSteps, Typed, TranscriptAssumption
<1>. QED
  BY <1>2, <1>3, OnwardInv DEF Kept

(* The artifact is committed.                                              *)
LEMMA FinalizeKeeps ==
  ASSUME Inv, Finalize
  PROVE  Kept
<1>1. /\ workflow' = [Ended(workflow, "evidence_requested") EXCEPT !.revision = @ + 1]
      /\ workflow.stage = "completion_observed"
      /\ transcriptAttempt' = [m \in Numbers |-> IF m = workflow.number THEN "committed"
                                                 ELSE transcriptAttempt[m]]
      /\ selection' = selection + 1 /\ evidence' = "owed" /\ step' = "evidence"
      /\ queued' = queued \ {workflow.request}
      /\ UNCHANGED <<now, setBacks, intent, attempt, wake, asked, mode, crashes>>
  BY DEF Finalize, Save, outbox
<1>2. /\ workflow \in WorkflowRow /\ transcriptAttempt \in [Numbers -> AttemptStates]
      /\ workflow.revision + 1 \in Nat
  BY DEF Inv, TablesTyped, WorkflowRow
<1>3. /\ workflow' \in WorkflowRow
      /\ workflow'.stage = "evidence_requested" /\ workflow'.number = workflow.number
      /\ workflow'.request = workflow.request /\ workflow'.revision = workflow.revision + 1
      /\ workflow'.accepted = workflow.accepted
  <2>1. "evidence_requested" \in Stages
    BY DEF Stages, Protected
  <2>. QED
    BY <1>1, <1>2, <2>1 DEF Ended, WorkflowRow
<1>4. Onward("evidence_requested")
  <2>1. AttemptStateIn("evidence_requested") = {"committed"}
    BY DEF AttemptStateIn
  <2>2. \A n \in Numbers : IF n = workflow.number THEN transcriptAttempt'[n] = "committed"
                           ELSE transcriptAttempt'[n] = transcriptAttempt[n]
    BY <1>1
  <2>. QED
    BY <1>1, <1>3, <2>1, <2>2 DEF Onward, Inv, StageInv, HistoryKept
<1>5. TablesTyped'
  <2>1. transcriptAttempt' \in [Numbers -> AttemptStates]
    BY <1>1, <1>2 DEF AttemptStates
  <2>. QED
    BY <1>1, <1>3, <2>1 DEF Inv, TablesTyped
<1>6. "evidence_requested" \in Passive
  BY DEF Passive, Stages, Protected, Unanswered
<1>. QED
  BY <1>1, <1>4, <1>5, <1>6, AloneKeeps

(* The evidence is indexed.                                                *)
LEMMA EvidenceIndexedKeeps ==
  ASSUME Inv, EvidenceIndexed
  PROVE  Kept
<1>1. /\ workflow' = [workflow EXCEPT !.stage = "succeeded", !.revision = workflow.revision + 1]
      /\ workflow.stage = "evidence_requested"
      /\ UNCHANGED <<now, setBacks, intent, attempt, transcriptAttempt, selection, evidence, wake,
                     asked, queued, mode, step, crashes>>
  <2>1. workflow \in WorkflowRow
    BY DEF Inv, TablesTyped
  <2>. QED
    BY <2>1 DEF EvidenceIndexed, Save, outbox, process, WorkflowRow
<1>2. workflow \in WorkflowRow /\ workflow.revision + 1 \in Nat /\ "succeeded" \in Stages
  BY DEF Inv, TablesTyped, WorkflowRow, Stages
<1>3. /\ workflow' \in WorkflowRow
      /\ workflow'.stage = "succeeded" /\ workflow'.number = workflow.number
      /\ workflow'.request = workflow.request /\ workflow'.revision = workflow.revision + 1
      /\ workflow'.accepted = workflow.accepted
  BY <1>1, <1>2 DEF WorkflowRow
<1>4. Onward("succeeded")
  <2>1. AttemptStateIn("succeeded") = AttemptStateIn(workflow.stage)
    BY <1>1 DEF AttemptStateIn
  <2>. QED
    BY <1>1, <1>3, <2>1 DEF Onward, Inv, StageInv, HistoryKept, AttemptAgrees
<1>5. TablesTyped'
  BY <1>1, <1>3 DEF Inv, TablesTyped
<1>6. "succeeded" \in Passive
  BY DEF Passive, Stages, Unanswered
<1>. QED
  BY <1>1, <1>4, <1>5, <1>6, AloneKeeps

(* Every step keeps the tables in agreement and moves the outbox by rows.  *)
LEMMA NextKeeps ==
  ASSUME Inv, [Next]_vars
  PROVE  Kept
<1>1. CASE (\E publisher \in BOOLEAN : Ensure(publisher)) \/ Retry
  BY <1>1, StartKeeps
<1>2. CASE Cancel
  BY <1>2, CancelKeeps
<1>3. CASE Poll
  BY <1>3, ReconcileKeeps, PrepareKeeps, ClaimKeeps DEF Poll
<1>4. ASSUME NEW i \in IntentIds, NEW f \in Fences,
             \/ Accept(i, f) \/ StillPending(i, f) \/ Complete(i, f) \/ ObserveElsewhere(i, f)
             \/ \E reason \in Reasons : Fail(i, f, reason)
      PROVE  Kept
  BY <1>4, AcceptKeeps, StillPendingKeeps, CompleteKeeps, ObserveElsewhereKeeps, FailKeeps
<1>5. CASE Finalize
  BY <1>5, FinalizeKeeps
<1>6. CASE EvidenceIndexed
  BY <1>6, EvidenceIndexedKeeps
<1>7. CASE AuthorizeElsewhere
  BY <1>7, ElsewhereKeeps
<1>8. CASE Open
  BY <1>8, OpenKeeps
<1>9. CASE FinalizeFails \/ AdmitEvidence \/ EvidenceFails \/ Wake \/ SelectAnother \/ Crash
              \/ Tick \/ UNCHANGED vars
  BY <1>9, CallKeeps
<1>. QED
  BY <1>1, <1>2, <1>3, <1>4, <1>5, <1>6, <1>7, <1>8, <1>9 DEF Next, Call

(* The invariant is inductive.                                             *)
LEMMA StepInv ==
  ASSUME Inv, [Next]_vars
  PROVE  Inv'
<1>1. Kept
  BY NextKeeps
<1>2. Rows!Inv'
  BY <1>1, Rows!OutboxStepInv, OutboxAssumptions DEF Inv, Kept, Rows!OutboxStepInv
<1>. QED
  BY <1>1, <1>2 DEF Inv, Kept

-----------------------------------------------------------------------------
(* The invariant of every behaviour, and what follows from it. *)

(* Whatever is asked, reported, lost or recovered, the row of the episode, *)
(* its attempts, the queue and the outbox agree as Inv says.               *)
THEOREM TranscriptInvariance == Spec => []Inv
BY InitInv, StepInv, PTL DEF Spec

(* The tables, the queue and the process hold values of their types.       *)
THEOREM TranscriptTypeCorrect == Spec => []TypeOK
<1>1. ASSUME Inv PROVE TypeOK
  <2>1. Rows!Inv
    BY <1>1 DEF Inv
  <2>2. Outbox!TypeOK
    BY <2>1
       DEF Rows!Inv, Rows!RowInv, Rows!Tries, Rows!IntentIds, Rows!Fences, Rows!IntentRow,
         Rows!AttemptRow, Outbox!TypeOK, Outbox!IntentIds, Outbox!Fences, Outbox!IntentRow,
         Outbox!AttemptRow
  <2>. QED
    BY <1>1, <2>2 DEF Inv, TablesTyped, TypeOK, WorkflowRow
<1>. QED
  BY <1>1, TranscriptInvariance, PTL

(* An attempt's row is where the stage of its workflow says, and no row of *)
(* a former attempt is left.                                               *)
THEOREM AttemptsAgree == Spec => []AttemptAgrees
<1>1. Inv => AttemptAgrees
  BY DEF Inv, StageInv
<1>. QED
  BY <1>1, TranscriptInvariance, PTL

(* A workflow with something to dispatch is in the facade's queue.         *)
THEOREM WaitingStayQueued == Spec => []WaitingIsQueued
<1>1. Inv => WaitingIsQueued
  BY DEF Inv, StageInv
<1>. QED
  BY <1>1, TranscriptInvariance, PTL

(* One open effect at most carries the request that is waited for, and a   *)
(* submission in flight has its effect.                                    *)
THEOREM OneEffectIsOpen == Spec => []OneOpenEffect
<1>1. ASSUME Inv PROVE OneOpenEffect
  <2> DEFINE open == {i \in IntentIds : Outbox!Open(i) /\ intent[i].request.id = workflow.request}
  <2>1. workflow.request # None => Cardinality(open) <= 1
    <3>1. CASE open = {}
      BY <3>1, FS_EmptySet
    <3>2. ASSUME workflow.request # None, NEW i \in open PROVE Cardinality(open) <= 1
      <4>1. open = {i}
        BY <1>1, <3>2 DEF Inv, FlowInv, OneOpen
      <4>2. Cardinality({i}) = 1
        BY FS_Singleton
      <4>3. Cardinality(open) = 1
        BY <4>1, <4>2
      <4> HIDE DEF open
      <4>. QED
        BY <4>3
    <3>. QED
      BY <3>1, <3>2
  <2>2. workflow.stage = "submission_authorized" =>
          \E i \in open : intent[i].request = Submit(workflow.request)
    BY <1>1, RequestForms DEF Inv, FlowInv, SubmissionIsOpen
  <2>. QED
    BY <2>1, <2>2 DEF OneOpenEffect
<1>. QED
  BY <1>1, TranscriptInvariance, PTL

(* No more submissions are authorised than generations were asked for:     *)
(* each is that of another number, and the numbers are asked.              *)
THEOREM OnlyAskedSubmissions == Spec => []SubmissionsAreAsked
<1>1. ASSUME Inv PROVE SubmissionsAreAsked
  <2> DEFINE submitted == {i \in IntentIds : intent[i].request \in Submissions}
             number == [i \in submitted |-> intent[i].request.id.number]
  <2>1. /\ workflow.number \in Nat /\ asked \in Nat /\ workflow.number <= asked
    BY <1>1, TranscriptAssumption DEF Inv, TablesTyped, WorkflowRow, StageInv, NumberIsAsked
  <2>2. ASSUME NEW i \in submitted
        PROVE  /\ There(i) /\ number[i] \in 1 .. workflow.number
               /\ intent[i].request = Submit(Provider(number[i]))
    <3>1. There(i)
      <4>1. intent[i].request # None
        BY NoneAssumption DEF Requests
      <4>. QED
        BY <1>1, <4>1, Typed DEF Rows!RowInv, There
    <3>2. PICK n \in 1 .. workflow.number : intent[i].request = Submit(Provider(n))
      <4>1. PICK id \in Ids : intent[i].request = Submit(id)
        BY DEF Submissions
      <4>. QED
        BY <1>1, <3>1, <4>1, RequestForms DEF Inv, FlowInv, RowsKnown
    <3>3. number[i] = n
      BY <3>2 DEF Submit, Provider
    <3>. QED
      BY <3>1, <3>2, <3>3
  <2>3. number \in Injection(submitted, 1 .. workflow.number)
    <3>1. ASSUME NEW i \in submitted, NEW j \in submitted, number[i] = number[j] PROVE i = j
      <4>1. /\ intent[i].request = Submit(Provider(number[i]))
            /\ intent[j].request = Submit(Provider(number[j]))
        BY <2>2
      <4>2. intent[i].request = intent[j].request
        BY <3>1, <4>1
      <4>3. intent[i].request # Elsewhere
        BY <4>1, RequestForms
      <4>. QED
        BY <1>1, <2>2, <4>2, <4>3 DEF Inv, FlowInv, NoTwice
    <3>2. number \in [submitted -> 1 .. workflow.number]
      BY <2>2
    <3>. QED
      BY <3>1, <3>2 DEF Injection, IsInjective
  <2>4. IsFiniteSet(1 .. workflow.number) /\ Cardinality(1 .. workflow.number) = workflow.number
    BY <2>1, FS_Interval
  <2> HIDE DEF submitted, number
  <2>5. Cardinality(submitted) <= workflow.number /\ Cardinality(submitted) \in Nat
    BY <2>3, <2>4, FS_Injection, FS_CardinalityType
  <2>. QED
    BY <2>1, <2>5 DEF SubmissionsAreAsked, submitted
<1>. QED
  BY <1>1, TranscriptInvariance, PTL

(* The two readings of the authority of an effect, through the outbox of   *)
(* this module and through that of the row lemmas, are one.                *)
LEMMA SameAuthority == Rows!ImplementsAuthority => Outbox!ImplementsAuthority
BY DEF Rows!ImplementsAuthority, Rows!Authority!ASpec, Rows!Authority!AInit,
       Rows!Authority!ANext, Rows!Authority!LifeCycle, Rows!Authority!Authorized,
       Rows!Authority!Granted, Rows!Authority!Answered, Rows!Authority!Withdrawn,
       Rows!Authority!Effect, Rows!Authority!Unauthorized, Rows!AuthorityOf,
       Rows!AuthorityStatus, Rows!Outcomes, Rows!Fences, Rows!IntentIds,
       Outbox!ImplementsAuthority, Outbox!Authority!ASpec, Outbox!Authority!AInit,
       Outbox!Authority!ANext, Outbox!Authority!LifeCycle, Outbox!Authority!Authorized,
       Outbox!Authority!Granted, Outbox!Authority!Answered, Outbox!Authority!Withdrawn,
       Outbox!Authority!Effect, Outbox!Authority!Unauthorized, Outbox!AuthorityOf,
       Outbox!AuthorityStatus, Outbox!Outcomes, Outbox!Fences, Outbox!IntentIds

(* The transactions about a transcript keep every effect within the life   *)
(* cycle it is promised.                                                   *)
THEOREM TranscriptKeepsAuthority == Spec => EffectsKeepAuthority
<1>1. Rows!vars = <<now, setBacks, intent, attempt>>
  BY DEF Rows!vars
<1>2. Init => Rows!Init
  BY DEF Init, Outbox!Init, Rows!Init, Outbox!IntentIds, Rows!IntentIds, Outbox!Fences,
         Rows!Fences, Outbox!NoIntent, Rows!NoIntent, Outbox!NoAttempt, Rows!NoAttempt
<1>3. Inv => Rows!Inv
  BY DEF Inv
<1>4. Inv /\ [Next]_vars => [Rows!OutboxStep]_<<now, setBacks, intent, attempt>>
  BY NextKeeps DEF Kept
<1>5. Rows!Init /\ []Rows!Inv /\ [][Rows!OutboxStep]_<<now, setBacks, intent, attempt>>
         => Rows!ImplementsAuthority
  BY <1>1, Rows!RowwiseImplementsAuthority, OutboxAssumptions, PTL
     DEF Rows!RowwiseImplementsAuthority, Rows!vars
<1>. QED
  BY <1>2, <1>3, <1>4, <1>5, SameAuthority, TranscriptInvariance, PTL
     DEF Spec, EffectsKeepAuthority
=============================================================================
