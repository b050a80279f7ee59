----------------------- MODULE DownloadWorkflowProofs -----------------------
(***************************************************************************)
(* What holds of the download of an episode for every set of versions,     *)
(* delay and bound.                                                        *)
(*                                                                         *)
(* What the runs check is not inductive by itself.  That one effect is     *)
(* open and carries what is waited for (OneOpen, Offered) holds because    *)
(* every transaction closes what it finds open; that a new request finds   *)
(* no row of its name (RequestsAreNew) because rows are counted; that an   *)
(* attempt ends once because what is waited for is the start of the        *)
(* current attempt, whose row has not ended (RequestIsCurrent); and that   *)
(* the repair of a missing file changes no attempt because the file of a   *)
(* download that succeeded is that of its last attempt (ArtifactIsKnown).  *)
(* Together they are inductive.                                            *)
(*                                                                         *)
(* Every transaction is shown to be one of a few forms: it starts an       *)
(* attempt (StartKeeps), leaves nothing waited for (RestKeeps), or waits   *)
(* for something else (MovedKeeps).  The outbox part is not proved again:  *)
(* every action moves the two tables row by row (Rows!OutboxStep), and     *)
(* the lemmas of EffectOutboxProofs about such steps do the rest.          *)
(***************************************************************************)
EXTENDS DownloadWorkflow, FiniteSetTheorems, TLAPS

(* The outbox of DownloadWorkflow, with the lemmas about its rows.         *)
Rows == INSTANCE EffectOutboxProofs WITH
    Exact <- Requests, Publishers <- {}, PublisherLimit <- 0, NoRequest <- None,
    Recovery <- [r \in {} |-> None], Delays <- {0, RetryTicks},
    MaxAuthorized <- MaxRevision + MaxNow, MaxIntents <- MaxRevision + MaxNow,
    MaxSetBacks <- 0

There(i) == intent[i].state # "absent"
Current  == <<workflow.version, workflow.number>>

TablesTyped ==
    /\ workflow \in WorkflowRow
    /\ DOMAIN downloadAttempt \subseteq AttemptIds
    /\ \A a \in DOMAIN downloadAttempt : downloadAttempt[a] \in
          {"requested", "host_accepted", "transferring", "cancelled", "failed", "succeeded"}
    /\ DOMAIN hostRequest \subseteq Requests
    /\ \A r \in DOMAIN hostRequest : hostRequest[r] \in
          [state : {"pending", "completed", "retired"}, deadline : Nat \cup {None}]
    /\ finalizations \subseteq DOMAIN hostRequest
    /\ episodeArtifact \in AttemptIds \cup {None}
    /\ mode \in {"up", "down"} /\ crashes \in 0 .. MaxCrashes
    /\ finalizing \in finalizations \cup {None}
    /\ finalizing # None => mode = "up"

(* The request that is waited for is in the table of requests, and is that *)
(* of the current attempt, whose row has not ended, or a removal.          *)
RequestIsCurrent ==
    /\ workflow.stage # "none" => workflow.version \in Versions
    /\ workflow.stage = "waiting" => workflow.desired = "present"
    /\ workflow.request # None => workflow.request \in DOMAIN hostRequest
    /\ workflow.stage = "removing" => workflow.request.kind = "remove"
    /\ workflow.stage \in Active \ {"removing"} =>
          /\ workflow.request = Start(Current)
          /\ workflow.desired = "present"
          /\ downloadAttempt[Current] \in {"requested", "host_accepted", "transferring"}

(* A request that is about to be made was not made before.                 *)
RequestsAreNew ==
    /\ \A a \in AttemptIds : Start(a) \in DOMAIN hostRequest => a \in DOMAIN downloadAttempt
    /\ \A r \in DOMAIN hostRequest : r.kind = "remove" => r.revision < workflow.revision

(* The file of a download that succeeded is that of its last attempt, and  *)
(* the attempt the episode refers to has a row.                            *)
ArtifactIsKnown ==
    /\ workflow.stage = "succeeded" => workflow.artifact = Current
    /\ episodeArtifact # None => episodeArtifact \in DOMAIN downloadAttempt

(* Rows are numbered as they are appended, one at least for every attempt. *)
Counted == \E n \in 0 .. MaxRevision + MaxNow :
    /\ \A i \in IntentIds : There(i) <=> i <= n
    /\ workflow.number <= n

OneOpen == \A i, j \in IntentIds : Outbox!Open(i) /\ Outbox!Open(j) => i = j

Offered ==
    /\ workflow.stage \in Active \ {"transferring"} =>
          \E i \in IntentIds : Outbox!Open(i) /\ intent[i].request = workflow.request
    /\ workflow.stage = "transferring" => \A i \in IntentIds : ~ Outbox!Open(i)

TableInv == /\ Checked(workflow)
            /\ RequestIsCurrent
            /\ RequestsAreNew
            /\ ArtifactIsKnown
            /\ PendingIsCurrent
            /\ TransferringIsOwed
            /\ EpisodeAgrees

FlowInv == /\ Counted
           /\ OneOpen
           /\ Offered

Inv == Rows!Inv /\ TablesTyped /\ TableInv /\ FlowInv

-----------------------------------------------------------------------------
(* The constants the outbox is given are ones its proofs allow.            *)
LEMMA OutboxAssumptions == Rows!BoundsAssumption /\ Rows!RequestAssumption
<1>1. [r \in {} |-> None] \in [Requests \ Requests -> Requests \cup {None}]
  OBVIOUS
<1>2. Rows!RequestAssumption
  BY <1>1, NoneAssumption DEF Rows!RequestAssumption
<1>3. MaxRevision + MaxNow \in Nat
  BY DownloadAssumption
<1>. QED
  BY <1>2, <1>3, DownloadAssumption DEF Rows!BoundsAssumption

(* The outbox of DownloadWorkflow and that of the row lemmas have the same *)
(* rows, new rows and answers.                                             *)
LEMMA SameOutbox ==
  /\ IntentIds = Rows!IntentIds /\ Fences = Rows!Fences
  /\ IntentIds = 1 .. MaxRevision + MaxNow /\ Fences = 1 .. MaxFence
  /\ \A r, due : Outbox!NewIntent(r, due) = Rows!NewIntent(r, due)
  /\ \A tries, f, how : Outbox!Answer(tries, f, how) = Rows!Answer(tries, f, how)
BY DEF IntentIds, Fences, Outbox!IntentIds, Outbox!Fences, Rows!IntentIds, Rows!Fences,
       Outbox!NewIntent, Rows!NewIntent, Outbox!Answer, Rows!Answer

(* What the invariant says of the tables of the outbox.                    *)
LEMMA Typed ==
  ASSUME Inv
  PROVE  /\ now \in Nat /\ now <= MaxNow /\ setBacks = 0
         /\ MaxRevision + MaxNow \in Nat
         /\ intent \in [IntentIds -> Rows!IntentRow]
         /\ attempt \in [IntentIds -> Rows!Tries]
         /\ \A i \in IntentIds : Rows!RowInv(intent[i], attempt[i])
<1>1. Rows!Inv
  BY DEF Inv
<1>. QED
  BY <1>1, SameOutbox, DownloadAssumption DEF Rows!Inv

(* A request tells its kind and its attempt.                               *)
LEMMA RequestForms ==
  /\ \A a : Start(a).kind = "start" /\ Start(a).attempt = a
  /\ \A a, b : Start(a) = Start(b) => a = b
  /\ \A a, rev : CancelOf(a, rev).kind = "cancel"
  /\ \A a, rev : RemoveOf(a, rev).kind = "remove" /\ RemoveOf(a, rev).revision = rev
  /\ \A r \in Requests : r.kind = "start" => r = Start(r.attempt) /\ r.attempt \in AttemptIds
  /\ \A a \in AttemptIds : Start(a) \in Requests
  /\ \A a \in AttemptIds, rev \in 0 .. MaxRevision :
        CancelOf(a, rev) \in Requests /\ RemoveOf(a, rev) \in Requests
<1>1. /\ \A a : Start(a).kind = "start" /\ Start(a).attempt = a
      /\ \A a, rev : CancelOf(a, rev).kind = "cancel"
      /\ \A a, rev : RemoveOf(a, rev).kind = "remove" /\ RemoveOf(a, rev).revision = rev
  BY DEF Start, CancelOf, RemoveOf
<1>2. /\ \A a \in AttemptIds : Start(a) \in Requests
      /\ \A a \in AttemptIds, rev \in 0 .. MaxRevision :
            CancelOf(a, rev) \in Requests /\ RemoveOf(a, rev) \in Requests
  BY DEF Requests
<1>3. \A r \in Requests : r.kind = "start" => r = Start(r.attempt) /\ r.attempt \in AttemptIds
  <2>1. SUFFICES ASSUME NEW r \in Requests, r.kind = "start"
                 PROVE  r = Start(r.attempt) /\ r.attempt \in AttemptIds
    OBVIOUS
  <2>2. \E a \in AttemptIds : r = Start(a)
    BY <1>1, <2>1 DEF Requests
  <2>. QED
    BY <1>1, <2>2
<1>4. \A a, b : Start(a) = Start(b) => a = b
  BY <1>1
<1>. QED
  BY <1>1, <1>2, <1>3, <1>4

(* The invariant holds at first: nothing is asked for and no row is there. *)
LEMMA InitInv == Init => Inv
<1>1. SUFFICES ASSUME Init PROVE Inv
  OBVIOUS
<1>2. Rows!Inv
  <2>1. Rows!Init
    BY <1>1
       DEF Init, Outbox!Init, Rows!Init, Outbox!IntentIds, Rows!IntentIds, Outbox!Fences,
                Rows!Fences, Outbox!NoIntent, Rows!NoIntent, Outbox!NoAttempt, Rows!NoAttempt
  <2>. QED
    BY <2>1, Rows!InitInv, OutboxAssumptions DEF Rows!InitInv
<1>3. /\ \A i \in IntentIds : ~ There(i) /\ ~ Outbox!Open(i)
      /\ \A i \in IntentIds : i \in Nat /\ ~ (i <= 0)
  BY <1>1, SameOutbox DEF Init, Outbox!Init, IntentIds, There, Outbox!Open, Outbox!NoIntent
<1>4. DOMAIN Empty = {}
  BY DEF Empty
<1>5. TablesTyped
  BY <1>1, <1>4, DownloadAssumption DEF Init, TablesTyped, NoWorkflow, WorkflowRow
<1>6. Checked(workflow)
  BY <1>1 DEF Init, NoWorkflow, Checked, Active
<1>7. TableInv
  BY <1>1, <1>4, <1>6
     DEF Init, NoWorkflow, TableInv, RequestIsCurrent, RequestsAreNew, Active,
              ArtifactIsKnown, PendingIsCurrent, TransferringIsOwed, EpisodeAgrees
<1>8. FlowInv
  <2>1. Counted
    BY <1>1, <1>3, DownloadAssumption DEF Init, NoWorkflow, Counted
  <2>. QED
    BY <1>1, <1>3, <2>1 DEF Init, NoWorkflow, FlowInv, OneOpen, Offered, Active
<1>. QED
  BY <1>2, <1>5, <1>7, <1>8 DEF Inv

-----------------------------------------------------------------------------
(* The transactions move the outbox row by row. *)

(* What was open is closed, and a row is appended for a request, if any.   *)
Issued(request) ==
    \/ /\ request = None
       /\ \A i \in IntentIds : (There(i)' <=> There(i)) /\ ~ Outbox!Open(i)'
    \/ \E j \in IntentIds :
          /\ request # None
          /\ Outbox!NextId(j) /\ There(j)' /\ Outbox!Open(j)' /\ intent'[j].request = request
          /\ \A i \in IntentIds \ {j} : (There(i)' <=> There(i)) /\ ~ Outbox!Open(i)'

(* Closing what was open and appending at most one row moves the outbox by *)
(* rows.                                                                   *)
LEMMA AppendSteps ==
  ASSUME Inv, NEW request \in Requests \cup {None}, NEW due \in Nat,
         NEW rows \in [IntentIds -> Rows!IntentRow], Append(rows, request, due),
         attempt' = [i \in IntentIds |-> attempt'[i]],
         \A i \in IntentIds :
            /\ Rows!RowStep(intent[i], attempt[i], rows[i], attempt'[i])
            /\ intent[i].state = "absent" => attempt'[i] = attempt[i]
            /\ rows[i].state = "absent" <=> intent[i].state = "absent"
            /\ rows[i].state \notin {"pending", "claimed"},
         UNCHANGED <<now, setBacks>>
  PROVE  Rows!OutboxStep /\ Issued(request)
<1>1. now' \in 0 .. MaxNow /\ setBacks' \in 0 .. 0
  BY Typed, DownloadAssumption
<1>2. CASE request = None
  <2>1. intent' = rows
    BY <1>2 DEF Append
  <2>2. Issued(request)
    BY <1>2, <2>1 DEF Issued, There, Outbox!Open
  <2>. QED
    BY <1>1, <2>1, <2>2, SameOutbox DEF Rows!OutboxStep
<1>3. CASE request # None
  <2>1. PICK j \in IntentIds :
           Outbox!NextId(j) /\ intent' = [rows EXCEPT ![j] = Outbox!NewIntent(request, due)]
    BY <1>3 DEF Append
  <2>2. /\ intent'[j] = Rows!NewIntent(request, due) /\ intent[j].state = "absent"
        /\ \A i \in IntentIds \ {j} : intent'[i] = rows[i]
    BY <2>1, SameOutbox DEF Outbox!NextId
  <2>3. intent'[j].state = "pending" /\ intent'[j].request = request
    BY <2>2 DEF Rows!NewIntent
  <2>4. Issued(request)
    BY <1>3, <2>1, <2>2, <2>3 DEF Issued, There, Outbox!Open
  <2>5. ASSUME NEW i \in IntentIds
        PROVE  Rows!RowStep(intent[i], attempt[i], intent'[i], attempt'[i])
    <3>1. CASE i = j
      BY <1>3, <2>2, <3>1 DEF Rows!RowStep, Rows!Appended
    <3>2. CASE i # j
      BY <2>2, <3>2
    <3>. QED
      BY <3>1, <3>2
  <2>6. intent' = [i \in IntentIds |-> intent'[i]]
    BY <2>1
  <2>. QED
    BY <1>1, <2>4, <2>5, <2>6, SameOutbox DEF Rows!OutboxStep
<1>. QED
  BY <1>2, <1>3

(* replace_effects: the effects of the former request are withdrawn and    *)
(* that of the new one is appended.                                        *)
LEMMA ReplaceSteps ==
  ASSUME Inv, NEW request \in Requests \cup {None}, NEW due \in Nat,
         ReplaceEffects(request, due), UNCHANGED <<now, setBacks>>
  PROVE  Rows!OutboxStep /\ Issued(request)
<1> DEFINE rows == [i \in IntentIds |-> IF Outbox!Open(i) THEN [intent[i] EXCEPT !.state = "completed"]
                                        ELSE intent[i]]
<1>1. /\ Append(rows, request, due)
      /\ attempt' = [i \in IntentIds |-> IF Outbox!Open(i) THEN Outbox!ClosedAttempts(i, "done")
                                         ELSE attempt[i]]
  BY DEF ReplaceEffects
<1>2. ASSUME NEW i \in IntentIds, Outbox!Open(i)
      PROVE  /\ rows[i] \in Rows!IntentRow /\ rows[i].state = "completed"
             /\ Rows!RowStep(intent[i], attempt[i], rows[i], attempt'[i])
  <2>1. /\ intent[i].state \in {"pending", "claimed"} /\ intent[i] \in Rows!IntentRow
        /\ rows[i] = [intent[i] EXCEPT !.state = "completed"]
        /\ attempt'[i] = Outbox!ClosedAttempts(i, "done")
    BY <1>1, <1>2, Typed DEF Outbox!Open
  <2> HIDE DEF rows
  <2>2. rows[i] \in Rows!IntentRow /\ rows[i].state = "completed"
    BY <2>1 DEF Rows!IntentRow
  <2>3. Rows!Withdrawn(intent[i], attempt[i], rows[i], attempt'[i])
    BY <2>1
       DEF Rows!Withdrawn, Outbox!ClosedAttempts, Outbox!Leased, Outbox!Fences, Rows!Fences
  <2>. QED
    BY <2>2, <2>3 DEF Rows!RowStep
<1>3. ASSUME NEW i \in IntentIds, ~ Outbox!Open(i)
      PROVE  /\ rows[i] = intent[i] /\ attempt'[i] = attempt[i]
             /\ rows[i] \in Rows!IntentRow /\ rows[i].state \notin {"pending", "claimed"}
             /\ Rows!RowStep(intent[i], attempt[i], rows[i], attempt'[i])
  BY <1>1, <1>3, Typed DEF Outbox!Open, Rows!RowStep
<1>4. rows \in [IntentIds -> Rows!IntentRow]
  BY <1>2, <1>3
<1>5. attempt' = [i \in IntentIds |-> attempt'[i]]
  BY <1>1
<1>6. \A i \in IntentIds :
            /\ Rows!RowStep(intent[i], attempt[i], rows[i], attempt'[i])
            /\ intent[i].state = "absent" => attempt'[i] = attempt[i]
            /\ rows[i].state = "absent" <=> intent[i].state = "absent"
            /\ rows[i].state \notin {"pending", "claimed"}
  <2> HIDE DEF rows
  <2>. QED
    BY <1>2, <1>3 DEF Outbox!Open
<1> HIDE DEF rows
<1>. QED
  BY <1>1, <1>4, <1>5, <1>6, AppendSteps

(* An observation answers its lease, settles its effect and may authorise  *)
(* the next one.                                                           *)
LEMMA SettleSteps ==
  ASSUME Inv, NEW i \in IntentIds, NEW f \in Fences, Outbox!CurrentFence(i, f),
         NEW request \in Requests \cup {None}, NEW due \in Nat,
         SettleEffect(i, f, request, due), UNCHANGED <<now, setBacks>>
  PROVE  Rows!OutboxStep /\ Issued(request)
<1> DEFINE rows == [intent EXCEPT ![i].state = "completed"]
<1>1. /\ Append(rows, request, due)
      /\ attempt' = [attempt EXCEPT ![i] = Rows!Answer(attempt[i], f, "observed")]
  BY SameOutbox DEF SettleEffect
<1>2. intent[i].state = "claimed" /\ intent[i].fence = f /\ intent[i] \in Rows!IntentRow
      /\ intent \in [IntentIds -> Rows!IntentRow] /\ attempt \in [IntentIds -> Rows!Tries]
  BY Typed DEF Outbox!CurrentFence
<1>3. /\ rows[i] = Rows!CompletedRow(intent[i]) /\ attempt'[i] = Rows!Answer(attempt[i], f, "observed")
      /\ DOMAIN rows = IntentIds /\ rows = [k \in IntentIds |-> rows[k]]
      /\ \A k \in IntentIds \ {i} : rows[k] = intent[k] /\ attempt'[k] = attempt[k]
  BY <1>1, <1>2 DEF Rows!CompletedRow
<1>4. attempt' = [k \in IntentIds |-> attempt'[k]]
  BY <1>1, <1>2
<1> HIDE DEF rows
<1>5. rows[i] \in Rows!IntentRow /\ rows[i].state = "completed"
  BY <1>2, <1>3 DEF Rows!CompletedRow, Rows!IntentRow
<1>6. rows \in [IntentIds -> Rows!IntentRow]
  BY <1>2, <1>3, <1>5
<1>7. ASSUME NEW k \in IntentIds
      PROVE  /\ Rows!RowStep(intent[k], attempt[k], rows[k], attempt'[k])
             /\ intent[k].state = "absent" => attempt'[k] = attempt[k]
             /\ rows[k].state = "absent" <=> intent[k].state = "absent"
             /\ rows[k].state \notin {"pending", "claimed"}
  <2>1. CASE k = i
    <3>1. Rows!Answered(intent[i], attempt[i], rows[i], attempt'[i])
      BY <1>2, <1>3, SameOutbox DEF Rows!Answered
    <3>. QED
      BY <1>2, <1>5, <2>1, <3>1 DEF Rows!RowStep
  <2>2. CASE k # i
    <3>1. ~ Outbox!Open(k)
      BY <1>2, <2>2 DEF Inv, FlowInv, OneOpen, Outbox!Open
    <3>. QED
      BY <1>3, <2>2, <3>1 DEF Rows!RowStep, Outbox!Open
  <2>. QED
    BY <2>1, <2>2
<1>. QED
  BY <1>1, <1>4, <1>6, <1>7, AppendSteps

(* A step that leaves the outbox alone, except for the clock.              *)
LEMMA StillSteps ==
  ASSUME Inv, UNCHANGED <<intent, attempt, setBacks>>, now' \in 0 .. MaxNow
  PROVE  Rows!OutboxStep
BY Typed, SameOutbox DEF Rows!OutboxStep, Rows!RowStep

(* A lease.                                                                *)
LEMMA ClaimSteps ==
  ASSUME Inv, Outbox!ClaimNext
  PROVE  Rows!OutboxStep
<1>1. PICK i \in IntentIds : Outbox!Claimable(i) /\ Outbox!Lease(i)
  BY DEF Outbox!ClaimNext, IntentIds
<1>2. Rows!Claimable(i) /\ Rows!Lease(i)
  BY <1>1 DEF Outbox!Claimable, Rows!Claimable, Outbox!Reclaimable, Rows!Reclaimable,
      Outbox!Live, Rows!Live, Outbox!Leased, Rows!Leased, Outbox!BelowPublisherLimit,
      Rows!BelowPublisherLimit, Outbox!Fences, Rows!Fences, Outbox!Lease, Rows!Lease
<1>. QED
  BY <1>2, SameOutbox, Rows!LeaseSteps, OutboxAssumptions DEF Inv, Rows!LeaseSteps

-----------------------------------------------------------------------------
(* What a transaction does to the tables, as far as the invariant looks.   *)

(* An attempt whose effect finds a row has a number in range.              *)
LEMMA AttemptInRange ==
  ASSUME Inv, NEW v \in Versions, NEW n \in {1, workflow.number + 1}, NEW rows, NEW due,
         Append(rows, Start(<<v, n>>), due)
  PROVE  <<v, n>> \in AttemptIds /\ Start(<<v, n>>) \in Requests
<1> DEFINE bound == MaxRevision + MaxNow
<1>1. bound \in Nat /\ workflow.number \in Nat
  BY DownloadAssumption DEF Inv, TablesTyped, WorkflowRow
<1>2. PICK m \in 0 .. bound : (\A i \in IntentIds : There(i) <=> i <= m) /\ workflow.number <= m
  BY DEF Inv, FlowInv, Counted
<1>3. n \in 1 .. bound + 1
  BY <1>1, <1>2
<1>4. CASE n \in 1 .. bound
  BY <1>4, RequestForms DEF AttemptIds
<1>5. CASE n = bound + 1
  <2>1. Start(<<v, n>>) # None
    BY <1>5, NoneAssumption
  <2>2. PICK j \in IntentIds : Outbox!NextId(j)
    BY <2>1 DEF Append
  <2>3. j \in 1 .. bound /\ ~ There(j)
    BY <2>2, SameOutbox DEF Outbox!NextId, There
  <2>. QED
    BY <1>1, <1>2, <1>5, <2>2, <2>3
<1>. QED
  BY <1>3, <1>4, <1>5, <1>1

(* The workflow and the effects agree again once what was open is closed   *)
(* and the effect of what is waited for appended.                          *)
LEMMA IssueFlow ==
  ASSUME Inv, NEW request \in Requests \cup {None}, Issued(request),
         workflow'.number \in Nat,
         workflow'.number <= IF request = None THEN workflow.number ELSE workflow.number + 1,
         workflow'.stage \in Active \ {"transferring"} =>
            request # None /\ workflow'.request = request,
         workflow'.stage = "transferring" => request = None
  PROVE  FlowInv'
<1> USE DEF IntentIds, Outbox!IntentIds
<1> DEFINE bound == MaxRevision + MaxNow
<1>1. bound \in Nat /\ workflow.number \in Nat /\ IntentIds = 1 .. bound
  BY DownloadAssumption DEF Inv, TablesTyped, WorkflowRow
<1>2. PICK m \in 0 .. bound : (\A i \in IntentIds : There(i) <=> i <= m) /\ workflow.number <= m
  BY DEF Inv, FlowInv, Counted
<1>3. CASE request = None /\ \A i \in IntentIds : (There(i)' <=> There(i)) /\ ~ Outbox!Open(i)'
  <2>1. Counted'
    BY <1>1, <1>2, <1>3 DEF Counted
  <2>2. OneOpen' /\ Offered'
    BY <1>3 DEF OneOpen, Offered
  <2>. QED
    BY <2>1, <2>2 DEF FlowInv
<1>4. ASSUME NEW j \in IntentIds, request # None,
             Outbox!NextId(j), There(j)', Outbox!Open(j)', intent'[j].request = request,
             \A i \in IntentIds \ {j} : (There(i)' <=> There(i)) /\ ~ Outbox!Open(i)'
      PROVE  FlowInv'
  <2>1. /\ ~ There(j) /\ \A i \in 1 .. j - 1 : There(i)
        /\ j \in 1 .. bound
    BY <1>1, <1>4 DEF Outbox!NextId, There
  <2>2. j = m + 1
    <3>1. ~ (j <= m)
      BY <1>2, <2>1
    <3>2. j > m + 1 => FALSE
      <4>1. SUFFICES ASSUME j > m + 1 PROVE FALSE
        OBVIOUS
      <4>2. m + 1 \in 1 .. j - 1 /\ m + 1 \in IntentIds /\ ~ (m + 1 <= m)
        BY <1>1, <2>1, <4>1
      <4>. QED
        BY <1>2, <2>1, <4>2
    <3>. QED
      BY <1>1, <2>1, <3>1, <3>2
  <2>3. Counted'
    <3>1. \A i \in IntentIds : There(i)' <=> i <= m + 1
      BY <1>1, <1>2, <1>4, <2>1, <2>2
    <3>2. m + 1 \in 0 .. bound /\ workflow'.number <= m + 1
      BY <1>1, <1>2, <1>4, <2>1, <2>2
    <3>. QED
      BY <3>1, <3>2 DEF Counted
  <2>4. OneOpen' /\ Offered'
    BY <1>4 DEF OneOpen, Offered
  <2>. QED
    BY <2>3, <2>4 DEF FlowInv
<1>. QED
  BY <1>3, <1>4 DEF Issued

(* A saved row is checked and has the next revision.                       *)
LEMMA Saved ==
  ASSUME NEW w \in WorkflowRow, Save(w)
  PROVE  /\ workflow' \in WorkflowRow /\ Checked(workflow)'
         /\ workflow'.stage = w.stage /\ workflow'.version = w.version
         /\ workflow'.desired = w.desired /\ workflow'.number = w.number
         /\ workflow'.request = w.request /\ workflow'.artifact = w.artifact
         /\ workflow'.revision = w.revision + 1
<1>1. workflow' = [w EXCEPT !.revision = w.revision + 1] /\ w.revision + 1 \in Nat /\ Checked(w)
  BY DEF Save, WorkflowRow
<1>2. /\ workflow' \in WorkflowRow
      /\ workflow'.stage = w.stage /\ workflow'.version = w.version
      /\ workflow'.desired = w.desired /\ workflow'.number = w.number
      /\ workflow'.request = w.request /\ workflow'.artifact = w.artifact
      /\ workflow'.revision = w.revision + 1
      /\ workflow'.notBefore = w.notBefore /\ workflow'.failed = w.failed
  BY <1>1 DEF WorkflowRow
<1>3. Checked(workflow)'
  BY <1>1, <1>2 DEF Checked
<1>. QED
  BY <1>2, <1>3

(* The requests after a transaction: one is added, or none, and of those   *)
(* there were no start and no removal is left pending.                     *)
HostMoved(request) ==
    /\ DOMAIN hostRequest' = DOMAIN hostRequest \cup ({request} \ {None})
    /\ \A r \in DOMAIN hostRequest' : hostRequest'[r] \in
          [state : {"pending", "completed", "retired"}, deadline : Nat \cup {None}]
    /\ \A r \in DOMAIN hostRequest : r.kind # "cancel" => ~ IsPending(r)'
    /\ (request # None /\ request.kind # "cancel") =>
          request \notin DOMAIN hostRequest /\ IsPending(request)'

(* What AttemptsEndOnce says of a step.                                    *)
EndsOnce == \A a \in DOMAIN downloadAttempt :
    downloadAttempt[a] \in {"succeeded", "failed", "cancelled"} =>
        downloadAttempt'[a] = downloadAttempt[a]

(* The attempts after a transaction: rows may be added, and what has ended *)
(* stays as it ended.                                                      *)
AttemptsMoved(added) ==
    /\ DOMAIN downloadAttempt' = DOMAIN downloadAttempt \cup added
    /\ \A a \in DOMAIN downloadAttempt' : downloadAttempt'[a] \in
          {"requested", "host_accepted", "transferring", "cancelled", "failed", "succeeded"}
    /\ EndsOnce

(* The file the episode refers to is kept, forgotten or adopted.           *)
ArtifactMoved ==
    \/ /\ episodeArtifact' = episodeArtifact
       /\ workflow'.artifact \in {None, workflow.artifact}
       /\ workflow'.stage # "succeeded" \/ workflow' = workflow
    \/ /\ episodeArtifact' = None /\ workflow'.artifact = None /\ workflow'.stage # "succeeded"
    \/ /\ episodeArtifact' = Current' /\ workflow'.artifact = Current'
       /\ Current' \in DOMAIN downloadAttempt' /\ downloadAttempt'[Current'] = "succeeded"
       /\ workflow.desired = "present"
       /\ Start(Current') \in finalizations \ finalizations'

(* What AdoptionIsOwed says of a step.                                     *)
AdoptsOwed == episodeArtifact' \notin {None, episodeArtifact} =>
    /\ workflow.desired = "present"
    /\ Start(episodeArtifact') \in finalizations \ finalizations'

Kept == /\ Rows!OutboxStep
        /\ TablesTyped'
        /\ TableInv'
        /\ FlowInv'
        /\ AdoptsOwed
        /\ EndsOnce

(* A transaction that issues a request, or ends the wait for one.          *)
LEMMA MovedKeeps ==
  ASSUME Inv, Rows!OutboxStep, FlowInv',
         NEW request \in Requests \cup {None}, HostMoved(request),
         NEW added \in SUBSET AttemptIds, AttemptsMoved(added), ArtifactMoved,
         \A a \in AttemptIds : request = Start(a) => a \in added,
         workflow' \in WorkflowRow, Checked(workflow)', workflow'.revision >= workflow.revision,
         (request # None /\ request.kind = "remove") => request.revision < workflow'.revision,
         RequestIsCurrent',
         (request # None /\ request.kind # "cancel") =>
            workflow'.request = request /\ workflow'.stage # "transferring",
         (request = None \/ request.kind = "cancel") =>
            workflow'.request = None \/ workflow'.stage = "transferring",
         workflow'.stage = "transferring" => workflow'.request \in finalizations',
         finalizations' \subseteq DOMAIN hostRequest', episodeArtifact' \in AttemptIds \cup {None},
         finalizing' \in finalizations' \cup {None}, finalizing' # None => mode' = "up",
         mode' \in {"up", "down"}, UNCHANGED crashes
  PROVE  Kept
<1>1. TablesTyped'
  BY DEF Inv, TablesTyped, HostMoved, AttemptsMoved
<1>2. /\ workflow.revision \in Nat /\ workflow'.revision \in Nat
      /\ DOMAIN hostRequest \subseteq Requests
  BY DEF Inv, TablesTyped, WorkflowRow
<1>3. RequestsAreNew'
  <2>1. \A a \in AttemptIds : Start(a) \in DOMAIN hostRequest' => a \in DOMAIN downloadAttempt'
    BY DEF Inv, TableInv, RequestsAreNew, HostMoved, AttemptsMoved
  <2>2. ASSUME NEW r \in DOMAIN hostRequest', r.kind = "remove" PROVE r.revision < workflow'.revision
    <3>1. CASE r \in DOMAIN hostRequest
      <4>1. PICK rev \in 0 .. MaxRevision : r.revision = rev
        BY <1>2, <2>2, <3>1, RequestForms DEF Requests
      <4>2. rev < workflow.revision
        BY <2>2, <3>1, <4>1 DEF Inv, TableInv, RequestsAreNew
      <4>. QED
        BY <1>2, <4>1, <4>2, DownloadAssumption
    <3>2. CASE r = request /\ request # None
      BY <2>2, <3>2
    <3>. QED
      BY <3>1, <3>2 DEF HostMoved
  <2>. QED
    BY <2>1, <2>2 DEF RequestsAreNew, AttemptIds
<1>4. PendingIsCurrent'
  <2>1. ASSUME NEW r \in DOMAIN hostRequest', r.kind # "cancel"
        PROVE  IsPending(r)' <=> workflow'.request = r /\ workflow'.stage # "transferring"
    <3>1. r # None
      BY <1>1, NoneAssumption DEF TablesTyped
    <3>2. CASE r \in DOMAIN hostRequest
      <4>1. ~ IsPending(r)'
        BY <2>1, <3>2 DEF HostMoved
      <4>2. workflow'.request = r => workflow'.stage = "transferring"
        BY <2>1, <3>1, <3>2 DEF HostMoved
      <4>. QED
        BY <4>1, <4>2
    <3>3. CASE r = request /\ request # None
      BY <2>1, <3>3 DEF HostMoved
    <3>. QED
      BY <3>2, <3>3 DEF HostMoved
  <2>. QED
    BY <2>1 DEF PendingIsCurrent
<1>5. TransferringIsOwed'
  BY DEF TransferringIsOwed
<1>6. EpisodeAgrees' /\ ArtifactIsKnown'
  <2>1. /\ workflow.artifact # None => episodeArtifact = workflow.artifact
        /\ workflow.stage = "succeeded" => workflow.artifact = Current
        /\ episodeArtifact # None => /\ episodeArtifact \in DOMAIN downloadAttempt'
                                    /\ downloadAttempt'[episodeArtifact] = "succeeded"
    BY DEF Inv, TableInv, EpisodeAgrees, ArtifactIsKnown, AttemptsMoved, EndsOnce
  <2>2. CASE /\ episodeArtifact' = episodeArtifact
             /\ workflow'.artifact \in {None, workflow.artifact}
             /\ workflow'.stage # "succeeded" \/ workflow' = workflow
    <3>1. workflow' = workflow => Current' = Current
      BY DEF Current
    <3>. QED
      BY <2>1, <2>2, <3>1 DEF EpisodeAgrees, ArtifactIsKnown
  <2>3. CASE episodeArtifact' = None /\ workflow'.artifact = None /\ workflow'.stage # "succeeded"
    BY <2>3 DEF EpisodeAgrees, ArtifactIsKnown
  <2>4. CASE /\ episodeArtifact' = Current' /\ workflow'.artifact = Current'
             /\ Current' \in DOMAIN downloadAttempt' /\ downloadAttempt'[Current'] = "succeeded"
    BY <2>4 DEF EpisodeAgrees, ArtifactIsKnown
  <2>. QED
    BY <2>2, <2>3, <2>4 DEF ArtifactMoved
<1>7. AdoptsOwed
  BY DEF AdoptsOwed, ArtifactMoved
<1>8. EndsOnce
  BY DEF EndsOnce, AttemptsMoved
<1>. QED
  BY <1>1, <1>3, <1>4, <1>5, <1>6, <1>7, <1>8 DEF Kept, TableInv

(* Of the starts and removals none is pending any more.                    *)
Quiet(rows) ==
    /\ DOMAIN rows = DOMAIN hostRequest
    /\ \A r \in DOMAIN rows : rows[r] \in
          [state : {"pending", "completed", "retired"}, deadline : Nat \cup {None}]
    /\ \A r \in DOMAIN rows : r.kind # "cancel" => rows[r].state # "pending"

(* Retiring or completing the request that is waited for leaves no start   *)
(* and no removal pending; where none is waited for, none is.              *)
LEMMA QuietRows ==
  ASSUME Inv
  PROVE  /\ Quiet(Retired)
         /\ workflow.request = None \/ workflow.stage = "transferring" => Quiet(hostRequest)
         /\ \A r \in DOMAIN hostRequest :
               r = workflow.request \/ workflow.request = None => Quiet(Completed(r))
<1>1. \A r \in DOMAIN hostRequest : r.kind # "cancel" /\ IsPending(r) =>
         /\ r = workflow.request /\ workflow.stage # "transferring"
         /\ workflow.request # None
  BY NoneAssumption DEF Inv, TablesTyped, TableInv, PendingIsCurrent
<1>2. \A r \in DOMAIN hostRequest : hostRequest[r] \in
          [state : {"pending", "completed", "retired"}, deadline : Nat \cup {None}]
  BY DEF Inv, TablesTyped
<1>3. Quiet(Retired)
  BY <1>1, <1>2 DEF Quiet, Retired, IsPending
<1>4. workflow.request = None \/ workflow.stage = "transferring" => Quiet(hostRequest)
  BY <1>1, <1>2 DEF Quiet, IsPending
<1>5. ASSUME NEW r \in DOMAIN hostRequest, r = workflow.request \/ workflow.request = None
      PROVE  Quiet(Completed(r))
  BY <1>1, <1>2, <1>5 DEF Quiet, Completed, IsPending
<1>. QED
  BY <1>3, <1>4, <1>5

(* Requests none of which is waited for any more, with or without a new    *)
(* one.                                                                    *)
LEMMA HostMoves ==
  ASSUME Inv, NEW rows, Quiet(rows)
  PROVE  /\ hostRequest' = rows => HostMoved(None)
         /\ \A request \in Requests, deadline \in Nat \cup {None} :
               Fresh(request, rows) /\ hostRequest' = With(rows, request, Pending(deadline)) =>
                  HostMoved(request)
<1>1. hostRequest' = rows => HostMoved(None)
  BY DEF Quiet, HostMoved, IsPending
<1>2. ASSUME NEW request \in Requests, NEW deadline \in Nat \cup {None}, Fresh(request, rows),
             hostRequest' = With(rows, request, Pending(deadline))
      PROVE  HostMoved(request)
  <2>1. request # None /\ request \notin DOMAIN rows
    BY <1>2, NoneAssumption DEF Fresh
  <2>2. /\ DOMAIN hostRequest' = DOMAIN rows \cup {request}
        /\ hostRequest'[request] = Pending(deadline)
        /\ \A r \in DOMAIN rows : hostRequest'[r] = rows[r]
    BY <1>2, <2>1 DEF With
  <2>3. Pending(deadline) \in
          [state : {"pending", "completed", "retired"}, deadline : Nat \cup {None}]
        /\ Pending(deadline).state = "pending"
    BY <1>2 DEF Pending
  <2>. QED
    BY <2>1, <2>2, <2>3 DEF Quiet, HostMoved, IsPending
<1>. QED
  BY <1>1, <1>2

(* Attempts that a failure may have marked, before a row is added.         *)
Marked(attempts) ==
    /\ DOMAIN attempts = DOMAIN downloadAttempt
    /\ \A a \in DOMAIN attempts : attempts[a] \in
          {"requested", "host_accepted", "transferring", "cancelled", "failed", "succeeded"}
    /\ \A a \in DOMAIN attempts :
          downloadAttempt[a] \in {"succeeded", "failed", "cancelled"} =>
             attempts[a] = downloadAttempt[a]

(* Attempts that kept how they ended, with or without a new one.           *)
LEMMA AttemptsMove ==
  ASSUME NEW attempts, Marked(attempts)
  PROVE  /\ downloadAttempt' = attempts => AttemptsMoved({})
         /\ \A a : Fresh(a, attempts) /\ downloadAttempt' = With(attempts, a, "requested") =>
               AttemptsMoved({a}) /\ downloadAttempt'[a] = "requested"
<1>1. downloadAttempt' = attempts => AttemptsMoved({})
  BY DEF Marked, AttemptsMoved, EndsOnce
<1>2. ASSUME NEW a, Fresh(a, attempts), downloadAttempt' = With(attempts, a, "requested")
      PROVE  AttemptsMoved({a}) /\ downloadAttempt'[a] = "requested"
  <2>1. /\ DOMAIN downloadAttempt' = DOMAIN attempts \cup {a}
        /\ downloadAttempt'[a] = "requested"
        /\ \A b \in DOMAIN attempts : b # a /\ downloadAttempt'[b] = attempts[b]
    BY <1>2 DEF With, Fresh
  <2>. QED
    BY <2>1 DEF Marked, AttemptsMoved, EndsOnce
<1>. QED
  BY <1>1, <1>2

(* The attempts as they are.                                               *)
LEMMA SameMarked == Inv => Marked(downloadAttempt)
BY DEF Inv, TablesTyped, Marked

(* What insert_attempt_and_start_request does to the two tables.           *)
LEMMA InsertMoves ==
  ASSUME Inv, NEW rows, Quiet(rows), NEW attempts, Marked(attempts), NEW a \in AttemptIds,
         NEW deadline \in Nat, InsertAttempt(rows, attempts, a, deadline)
  PROVE  /\ HostMoved(Start(a)) /\ AttemptsMoved({a}) /\ downloadAttempt'[a] = "requested"
         /\ Start(a) \in Requests /\ Start(a) # None /\ Start(a).kind = "start"
         /\ Start(a) \in DOMAIN hostRequest'
         /\ \A b \in AttemptIds : Start(a) = Start(b) => b \in {a}
<1>1. Start(a) \in Requests /\ Start(a) # None /\ Start(a).kind = "start"
      /\ \A b : Start(a) = Start(b) => b = a
  BY RequestForms, NoneAssumption
<1>2. HostMoved(Start(a))
  BY <1>1, HostMoves DEF InsertAttempt
<1>3. AttemptsMoved({a}) /\ downloadAttempt'[a] = "requested"
  BY AttemptsMove DEF InsertAttempt
<1>. QED
  BY <1>1, <1>2, <1>3 DEF HostMoved

(* A transaction that starts an attempt.                                   *)
LEMMA StartKeeps ==
  ASSUME Inv, NEW w \in WorkflowRow, Save(w), w.revision = workflow.revision,
         NEW rows, Quiet(rows), NEW attempts, Marked(attempts),
         NEW n \in {1, workflow.number + 1}, NEW deadline \in Nat,
         <<w.version, n>> \in AttemptIds,
         InsertAttempt(rows, attempts, <<w.version, n>>, deadline),
         w.number = n, w.request = Start(<<w.version, n>>), w.desired = "present",
         w.stage \in {"requested", "retry_scheduled"}, w.artifact \in {None, workflow.artifact},
         Rows!OutboxStep, Issued(Start(<<w.version, n>>)),
         UNCHANGED <<finalizations, episodeArtifact, process>>
  PROVE  Kept
<1> DEFINE a == <<w.version, n>>
<1>1. /\ HostMoved(Start(a)) /\ AttemptsMoved({a}) /\ downloadAttempt'[a] = "requested"
      /\ Start(a) \in Requests /\ Start(a) # None /\ Start(a).kind = "start"
      /\ Start(a) \in DOMAIN hostRequest'
      /\ \A b \in AttemptIds : Start(a) = Start(b) => b \in {a}
  BY InsertMoves
<1>2. /\ workflow' \in WorkflowRow /\ Checked(workflow)'
      /\ workflow'.stage = w.stage /\ workflow'.version = w.version
      /\ workflow'.desired = w.desired /\ workflow'.number = w.number
      /\ workflow'.request = w.request /\ workflow'.artifact = w.artifact
      /\ workflow'.revision = w.revision + 1
  BY Saved
<1>3. Current' = a /\ w.version \in Versions /\ n \in Nat
  BY <1>2 DEF Current, AttemptIds
<1>4. /\ workflow.revision \in Nat /\ workflow.number \in Nat
      /\ workflow'.revision >= workflow.revision
  BY <1>2 DEF Inv, TablesTyped, WorkflowRow
<1> HIDE DEF a
<1>5. FlowInv'
  <2>1. workflow'.number \in Nat /\ workflow'.number <= workflow.number + 1
    BY <1>2, <1>3, <1>4
  <2>. QED
    BY <1>1, <1>2, <2>1, IssueFlow DEF a
<1>6. RequestIsCurrent'
  BY <1>1, <1>2, <1>3 DEF RequestIsCurrent, a
<1>7. ArtifactMoved
  BY <1>2 DEF ArtifactMoved
<1>8. /\ finalizations' \subseteq DOMAIN hostRequest' /\ episodeArtifact' \in AttemptIds \cup {None}
      /\ finalizing' \in finalizations' \cup {None} /\ (finalizing' # None => mode' = "up")
      /\ mode' \in {"up", "down"} /\ UNCHANGED crashes
  BY <1>1 DEF Inv, TablesTyped, HostMoved, process
<1>9. a \in AttemptIds /\ workflow'.request = Start(a)
  BY <1>2 DEF a
<1>10. workflow'.stage # "transferring"
  BY <1>2
<1>. QED
  BY <1>1, <1>2, <1>4, <1>5, <1>6, <1>7, <1>8, <1>9, <1>10, MovedKeeps

(* A transaction after which nothing is waited for.                        *)
LEMMA RestKeeps ==
  ASSUME Inv, NEW w \in WorkflowRow, Save(w), w.revision = workflow.revision,
         w.stage \in Stages \ Active, w.stage = "waiting" => w.desired = "present",
         w.version \in Versions, w.number <= workflow.number,
         Rows!OutboxStep, NEW effect \in Requests \cup {None},
         Issued(effect) \/ (UNCHANGED intent /\ \A i \in IntentIds : ~ Outbox!Open(i)),
         NEW request \in Requests \cup {None}, HostMoved(request),
         request # None => request.kind = "cancel", AttemptsMoved({}),
         ArtifactMoved, finalizations' \subseteq finalizations,
         episodeArtifact' \in AttemptIds \cup {None},
         finalizing' = None \/ UNCHANGED <<finalizations, finalizing, mode>>,
         mode' \in {"up", "down"}, UNCHANGED crashes
  PROVE  Kept
<1>1. /\ workflow' \in WorkflowRow /\ Checked(workflow)'
      /\ workflow'.stage = w.stage /\ workflow'.version = w.version
      /\ workflow'.desired = w.desired /\ workflow'.number = w.number
      /\ workflow'.request = w.request /\ workflow'.artifact = w.artifact
      /\ workflow'.revision = w.revision + 1
  BY Saved
<1>2. /\ workflow.revision \in Nat /\ workflow.number \in Nat /\ w.number \in Nat
      /\ workflow'.revision >= workflow.revision
  BY <1>1 DEF Inv, TablesTyped, WorkflowRow
<1>3. workflow'.stage \notin Active /\ workflow'.request = None /\ workflow'.stage # "transferring"
  BY <1>1 DEF Checked, Active
<1>4. FlowInv'
  <2>1. CASE Issued(effect)
    BY <1>1, <1>2, <1>3, <2>1, IssueFlow
  <2>2. CASE UNCHANGED intent /\ \A i \in IntentIds : ~ Outbox!Open(i)
    <3>1. Issued(None)
      BY <2>2 DEF Issued, There, Outbox!Open
    <3>. QED
      BY <1>1, <1>2, <1>3, <3>1, IssueFlow
  <2>. QED
    BY <2>1, <2>2
<1>5. RequestIsCurrent'
  BY <1>1, <1>3 DEF RequestIsCurrent, Active
<1>6. /\ finalizations' \subseteq DOMAIN hostRequest'
      /\ finalizing' \in finalizations' \cup {None} /\ (finalizing' # None => mode' = "up")
  BY DEF Inv, TablesTyped, HostMoved
<1>7. \A a \in AttemptIds : request = Start(a) => a \in {}
  BY RequestForms, NoneAssumption
<1>. QED
  BY <1>1, <1>2, <1>3, <1>4, <1>5, <1>6, <1>7, MovedKeeps

(* The same where no request is made.                                      *)
LEMMA EndKeeps ==
  ASSUME Inv, NEW w \in WorkflowRow, Save(w), w.revision = workflow.revision,
         w.stage \in Stages \ Active, w.stage = "waiting" => w.desired = "present",
         w.version \in Versions, w.number <= workflow.number,
         Rows!OutboxStep, NEW effect \in Requests \cup {None},
         Issued(effect) \/ (UNCHANGED intent /\ \A i \in IntentIds : ~ Outbox!Open(i)),
         HostMoved(None), AttemptsMoved({}), ArtifactMoved, finalizations' \subseteq finalizations,
         episodeArtifact' \in AttemptIds \cup {None},
         finalizing' = None \/ UNCHANGED <<finalizations, finalizing, mode>>,
         mode' \in {"up", "down"}, UNCHANGED crashes
  PROVE  Kept
<1>1. None \in Requests \cup {None}
  OBVIOUS
<1>. QED
  BY <1>1, RestKeeps

-----------------------------------------------------------------------------
(* The request that is waited for is the start of the current attempt, or  *)
(* a removal.                                                              *)
LEMMA WaitedFor ==
  ASSUME Inv, workflow.request # None
  PROVE  /\ workflow.request \in Requests /\ workflow.request \in DOMAIN hostRequest
         /\ workflow.version \in Versions /\ workflow.stage \in Active
         /\ \/ workflow.request.kind = "remove" /\ workflow.stage = "removing"
            \/ /\ workflow.request.kind = "start" /\ workflow.stage # "removing"
               /\ workflow.request = Start(Current) /\ workflow.desired = "present"
               /\ Current \in AttemptIds /\ Current \in DOMAIN downloadAttempt
               /\ downloadAttempt[Current] \in {"requested", "host_accepted", "transferring"}
<1>1. /\ workflow.request \in DOMAIN hostRequest /\ DOMAIN hostRequest \subseteq Requests
      /\ workflow.stage \in Active /\ workflow.stage # "none"
  BY DEF Inv, TablesTyped, TableInv, RequestIsCurrent, Checked, Active
<1>2. workflow.version \in Versions
  BY <1>1 DEF Inv, TableInv, RequestIsCurrent
<1>3. CASE workflow.stage = "removing"
  BY <1>1, <1>2, <1>3 DEF Inv, TableInv, RequestIsCurrent
<1>4. CASE workflow.stage # "removing"
  <2>1. /\ workflow.request = Start(Current) /\ workflow.desired = "present"
        /\ downloadAttempt[Current] \in {"requested", "host_accepted", "transferring"}
    BY <1>1, <1>4 DEF Inv, TableInv, RequestIsCurrent
  <2>2. workflow.request.kind = "start" /\ Current \in AttemptIds
    BY <1>1, <2>1, RequestForms
  <2>3. Current \in DOMAIN downloadAttempt
    BY <1>1, <2>1, <2>2 DEF Inv, TableInv, RequestsAreNew
  <2>. QED
    BY <1>1, <1>2, <1>4, <2>1, <2>2, <2>3
<1>. QED
  BY <1>3, <1>4

(* The rows of a download that was cancelled and of one that failed.       *)
LEMMA EndedRows ==
  ASSUME Inv
  PROVE  /\ CancelledWorkflow \in WorkflowRow /\ FailedWorkflow \in WorkflowRow
         /\ CancelledWorkflow.stage = "cancelled" /\ FailedWorkflow.stage = "failed"
         /\ \A w \in {CancelledWorkflow, FailedWorkflow} :
               /\ w.version = workflow.version /\ w.revision = workflow.revision
               /\ w.number = workflow.number /\ w.artifact = workflow.artifact
<1>1. workflow \in WorkflowRow /\ "cancelled" \in Stages /\ "failed" \in Stages
  BY DEF Inv, TablesTyped, Stages
<1>. QED
  BY <1>1 DEF CancelledWorkflow, FailedWorkflow, WorkflowRow

(* The effect of an attempt that replaces what was open.                   *)
LEMMA ReplaceStart ==
  ASSUME Inv, NEW v \in Versions, NEW n \in {1, workflow.number + 1}, NEW due \in Nat,
         ReplaceEffects(Start(<<v, n>>), due), UNCHANGED <<now, setBacks>>
  PROVE  /\ <<v, n>> \in AttemptIds /\ Start(<<v, n>>) \in Requests
         /\ Rows!OutboxStep /\ Issued(Start(<<v, n>>))
<1>1. <<v, n>> \in AttemptIds /\ Start(<<v, n>>) \in Requests
  BY AttemptInRange DEF ReplaceEffects
<1>. QED
  BY <1>1, ReplaceSteps

(* The file is kept or forgotten, and the episode refers to what it did.   *)
LEMMA ArtifactStays ==
  ASSUME Inv, NEW w \in WorkflowRow, Save(w), w.stage # "succeeded",
         w.artifact \in {None, workflow.artifact}, UNCHANGED episodeArtifact
  PROVE  ArtifactMoved /\ episodeArtifact' \in AttemptIds \cup {None}
BY Saved DEF ArtifactMoved, Inv, TablesTyped

(* A command asks for the episode, which is admitted or waits.             *)
LEMMA EnsureKeeps ==
  ASSUME Inv, NEW v \in Versions, NEW admitted \in BOOLEAN, Ensure(v, admitted)
  PROVE  Kept
<1>1. /\ now \in Nat /\ now + DeadlineTicks \in Nat
      /\ workflow.number \in Nat /\ workflow.revision \in Nat
  BY Typed, DownloadAssumption DEF Inv, TablesTyped, WorkflowRow
<1>2. Quiet(Retired) /\ Marked(downloadAttempt)
  BY QuietRows, SameMarked
<1>3. CASE admitted = TRUE
  <2> DEFINE n == NextNumber(v)
             w == [stage |-> "requested", version |-> v, desired |-> "present",
                   revision |-> workflow.revision, number |-> n, request |-> Start(<<v, n>>),
                   artifact |-> None, notBefore |-> FALSE, failed |-> FALSE]
  <2>1. /\ Save(w)
        /\ InsertAttempt(Retired, downloadAttempt, <<v, n>>, now + DeadlineTicks)
        /\ ReplaceEffects(Start(<<v, n>>), now)
        /\ UNCHANGED <<now, setBacks, finalizations, episodeArtifact, process>>
    BY <1>3 DEF Ensure
  <2>2. n \in {1, workflow.number + 1} /\ n \in Nat
    BY <1>1 DEF NextNumber
  <2> HIDE DEF n
  <2>3. /\ <<v, n>> \in AttemptIds /\ Start(<<v, n>>) \in Requests
        /\ Rows!OutboxStep /\ Issued(Start(<<v, n>>))
    BY <1>1, <2>1, <2>2, ReplaceStart
  <2>4. w \in WorkflowRow
    BY <1>1, <2>2, <2>3 DEF WorkflowRow, Stages, Active
  <2>5. /\ w.revision = workflow.revision /\ w.version = v /\ w.number = n
        /\ w.request = Start(<<v, n>>) /\ w.desired = "present" /\ w.stage = "requested"
        /\ w.artifact = None
    OBVIOUS
  <2> HIDE DEF w
  <2>. QED
    BY <1>1, <1>2, <2>1, <2>2, <2>3, <2>4, <2>5, StartKeeps
<1>4. CASE admitted = FALSE
  <2> DEFINE n == IF workflow.version = v THEN workflow.number ELSE 0
             w == [stage |-> "waiting", version |-> v, desired |-> "present",
                   revision |-> workflow.revision, number |-> n, request |-> None,
                   artifact |-> None, notBefore |-> FALSE, failed |-> TRUE]
  <2>1. /\ Save(w) /\ hostRequest' = Retired /\ UNCHANGED downloadAttempt
        /\ ReplaceEffects(None, now)
        /\ UNCHANGED <<now, setBacks, finalizations, episodeArtifact, process>>
    BY <1>4 DEF Ensure
  <2>2. n \in Nat /\ n <= workflow.number
    BY <1>1
  <2>3. w \in WorkflowRow
    BY <1>1, <2>2 DEF WorkflowRow, Stages
  <2>4. /\ w.revision = workflow.revision /\ w.version = v /\ w.number = n
        /\ w.desired = "present" /\ w.stage = "waiting" /\ w.artifact = None
    OBVIOUS
  <2> HIDE DEF n, w
  <2>5. Rows!OutboxStep /\ Issued(None)
    BY <1>1, <2>1, ReplaceSteps
  <2>6. HostMoved(None) /\ AttemptsMoved({})
    BY <1>2, <2>1, HostMoves, AttemptsMove
  <2>7. w.stage \in Stages \ Active
    BY <2>4 DEF Stages, Active
  <2>8. ArtifactMoved /\ episodeArtifact' \in AttemptIds \cup {None}
    BY <2>1, <2>3, <2>4, ArtifactStays
  <2>9. /\ finalizations' \subseteq finalizations /\ UNCHANGED crashes
        /\ finalizing' = None \/ UNCHANGED <<finalizations, finalizing, mode>>
        /\ mode' \in {"up", "down"}
    BY <2>1 DEF process, Inv, TablesTyped
  <2>. QED
    <3>1. /\ w.stage = "waiting" => w.desired = "present"
          /\ w.version \in Versions /\ w.number <= workflow.number
          /\ w.revision = workflow.revision /\ Save(w) /\ None \in Requests \cup {None}
      BY <2>1, <2>2, <2>4
    <3>. QED
      BY <2>3, <2>5, <2>6, <2>7, <2>8, <2>9, <3>1, EndKeeps
<1>. QED
  BY <1>3, <1>4

(* A transaction that only moves the row, the requests and the outbox.     *)
LEMMA SavedKeeps ==
  ASSUME Inv, workflow.stage # "none", NEW w \in WorkflowRow, Save(w),
         w.stage \in {"cancelled", "failed"},
         w.revision = workflow.revision, w.version = workflow.version,
         w.number = workflow.number, w.artifact = workflow.artifact,
         Rows!OutboxStep, NEW effect \in Requests \cup {None}, Issued(effect),
         NEW request \in Requests \cup {None}, HostMoved(request),
         request # None => request.kind = "cancel", AttemptsMoved({}),
         UNCHANGED <<finalizations, episodeArtifact, process>>
  PROVE  Kept
<1>1. /\ w.stage \in Stages \ Active /\ (w.stage = "waiting" => w.desired = "present")
      /\ w.stage # "succeeded"
  BY DEF Stages, Active
<1>2. /\ w.version \in Versions /\ workflow.number \in Nat /\ w.number <= workflow.number
  BY DEF Inv, TableInv, RequestIsCurrent, TablesTyped, WorkflowRow
<1>3. ArtifactMoved /\ episodeArtifact' \in AttemptIds \cup {None}
  BY <1>1, ArtifactStays
<1>4. /\ finalizations' \subseteq finalizations /\ UNCHANGED crashes
      /\ finalizing' = None \/ UNCHANGED <<finalizations, finalizing, mode>>
      /\ mode' \in {"up", "down"}
  BY DEF process, Inv, TablesTyped
<1>. QED
  BY <1>1, <1>2, <1>3, <1>4, RestKeeps

(* A user cancels the download.                                            *)
LEMMA CancelKeeps ==
  ASSUME Inv, Cancel
  PROVE  Kept
<1> DEFINE cancel == IF workflow.number = 0 THEN None ELSE CancelOf(Current, workflow.revision)
<1>1. /\ Save(CancelledWorkflow) /\ Fresh(cancel, hostRequest)
      /\ hostRequest' = IF cancel = None THEN Retired ELSE With(Retired, cancel, Pending(None))
      /\ ReplaceEffects(cancel, now) /\ workflow.stage # "none"
      /\ workflow.revision < MaxRevision
      /\ UNCHANGED <<now, setBacks, downloadAttempt, finalizations, episodeArtifact, process>>
  BY DEF Cancel, Current, Room
<1>2. /\ cancel \in Requests \cup {None} /\ (cancel # None => cancel.kind = "cancel")
  <2>1. CASE workflow.number = 0
    BY <2>1
  <2>2. CASE workflow.number # 0
    <3>1. /\ workflow.number \in Nat /\ workflow.revision \in Nat
          /\ workflow.version \in Versions /\ MaxRevision + MaxNow \in Nat
      BY <1>1, DownloadAssumption
         DEF Inv, TablesTyped, WorkflowRow, TableInv, RequestIsCurrent
    <3>2. PICK m \in 0 .. MaxRevision + MaxNow : workflow.number <= m
      BY DEF Inv, FlowInv, Counted
    <3>3. workflow.number \in 1 .. MaxRevision + MaxNow /\ workflow.revision \in 0 .. MaxRevision
      BY <1>1, <2>2, <3>1, <3>2, DownloadAssumption
    <3>4. Current \in AttemptIds
      BY <3>1, <3>3 DEF Current, AttemptIds
    <3>. QED
      BY <2>2, <3>3, <3>4, RequestForms
  <2>. QED
    BY <2>1, <2>2
<1> HIDE DEF cancel
<1>3. HostMoved(cancel)
  <2>1. Quiet(Retired) /\ None \in Nat \cup {None}
    BY QuietRows
  <2>2. CASE cancel = None
    BY <1>1, <2>1, <2>2, HostMoves
  <2>3. CASE cancel # None
    <3>1. cancel \in Requests /\ Fresh(cancel, Retired)
      BY <1>1, <1>2, <2>3 DEF Fresh, Retired
    <3>. QED
      BY <1>1, <2>1, <2>3, <3>1, HostMoves
  <2>. QED
    BY <2>2, <2>3
<1>4. Rows!OutboxStep /\ Issued(cancel)
  BY <1>1, <1>2, Typed, ReplaceSteps
<1>5. AttemptsMoved({})
  BY <1>1, SameMarked, AttemptsMove
<1>6. UNCHANGED <<finalizations, episodeArtifact, process>>
  BY <1>1
<1>. QED
  BY <1>1, <1>2, <1>3, <1>4, <1>5, <1>6, EndedRows, SavedKeeps

(* A waiting download whose episode is no longer wanted.                   *)
LEMMA RetireObsoleteKeeps ==
  ASSUME Inv, RetireObsolete
  PROVE  Kept
<1>1. /\ Save(CancelledWorkflow) /\ ReplaceEffects(None, now) /\ workflow.stage = "waiting"
      /\ UNCHANGED <<now, setBacks, downloadAttempt, hostRequest>>
      /\ UNCHANGED <<finalizations, episodeArtifact, process>>
  BY DEF RetireObsolete
<1>2. workflow.request = None
  BY <1>1 DEF Inv, TableInv, Checked, Active
<1>3. HostMoved(None) /\ AttemptsMoved({})
  BY <1>1, <1>2, QuietRows, HostMoves, SameMarked, AttemptsMove
<1>4. Rows!OutboxStep /\ Issued(None)
  BY <1>1, Typed, ReplaceSteps
<1>5. None \in Requests \cup {None} /\ workflow.stage # "none"
  BY <1>1
<1>. QED
  BY <1>1, <1>3, <1>4, <1>5, EndedRows, SavedKeeps

(* A waiting download is admitted.                                         *)
LEMMA AdmitWaitingKeeps ==
  ASSUME Inv, AdmitWaiting
  PROVE  Kept
<1> DEFINE v == workflow.version
           n == workflow.number + 1
           w == [workflow EXCEPT !.stage = "requested", !.number = n, !.request = Start(<<v, n>>),
                                 !.notBefore = FALSE, !.failed = FALSE]
<1>1. /\ Save(w) /\ workflow.stage = "waiting"
      /\ InsertAttempt(hostRequest, downloadAttempt, <<v, n>>, now + DeadlineTicks)
      /\ ReplaceEffects(Start(<<v, n>>), now)
      /\ UNCHANGED <<now, setBacks, finalizations, episodeArtifact, process>>
  <2>1. workflow \in WorkflowRow
    BY DEF Inv, TablesTyped
  <2>. QED
    BY <2>1 DEF AdmitWaiting, WorkflowRow
<1>2. /\ workflow \in WorkflowRow /\ workflow.request = None /\ workflow.desired = "present"
      /\ v \in Versions /\ n \in Nat /\ now + DeadlineTicks \in Nat /\ now \in Nat
  BY <1>1, Typed, DownloadAssumption
     DEF Inv, TableInv, TablesTyped, WorkflowRow, RequestIsCurrent, Checked, Active
<1>3. Quiet(hostRequest) /\ Marked(downloadAttempt)
  BY <1>2, QuietRows, SameMarked
<1>4. /\ <<v, n>> \in AttemptIds /\ Start(<<v, n>>) \in Requests
      /\ Rows!OutboxStep /\ Issued(Start(<<v, n>>))
  BY <1>1, <1>2, ReplaceStart
<1>5. /\ w \in WorkflowRow /\ w.revision = workflow.revision /\ w.version = v /\ w.number = n
      /\ w.request = Start(<<v, n>>) /\ w.desired = "present" /\ w.stage = "requested"
      /\ w.artifact = workflow.artifact
  <2> DEFINE start == Start(<<v, n>>)
  <2>1. "requested" \in Stages /\ start \in Requests
    BY <1>4 DEF Stages, Active
  <2> HIDE DEF start
  <2>. QED
    BY <1>2, <2>1 DEF WorkflowRow, start
<1>6. n \in {1, workflow.number + 1} /\ w.stage \in {"requested", "retry_scheduled"}
  BY <1>5
<1> HIDE DEF v, n, w
<1>. QED
  BY <1>1, <1>2, <1>3, <1>4, <1>5, <1>6, StartKeeps

(* A user removes the file.                                                *)
LEMMA RemoveKeeps ==
  ASSUME Inv, Remove
  PROVE  Kept
<1> DEFINE remove == RemoveOf(workflow.artifact, workflow.revision)
           w == [workflow EXCEPT !.desired = "absent", !.stage = "removing", !.request = remove,
                                 !.notBefore = FALSE, !.failed = FALSE]
<1>1. /\ Save(w) /\ Fresh(remove, hostRequest)
      /\ hostRequest' = With(hostRequest, remove, Pending(now + DeadlineTicks))
      /\ ReplaceEffects(remove, now) /\ workflow.stage \in {"succeeded", "failed"}
      /\ workflow.artifact # None /\ workflow.revision < MaxRevision
      /\ UNCHANGED <<now, setBacks, downloadAttempt, finalizations, episodeArtifact, process>>
  BY DEF Remove, Room
<1>2. /\ workflow \in WorkflowRow /\ workflow.request = None /\ workflow.version \in Versions
      /\ workflow.artifact \in AttemptIds /\ workflow.revision \in 0 .. MaxRevision
      /\ workflow.number \in Nat /\ now \in Nat /\ now + DeadlineTicks \in Nat
  BY <1>1, Typed, DownloadAssumption
     DEF Inv, TableInv, TablesTyped, WorkflowRow, RequestIsCurrent, Checked, Active
<1>3. /\ remove \in Requests /\ remove # None /\ remove.kind = "remove"
      /\ remove.revision = workflow.revision /\ \A a : remove # Start(a)
  BY <1>2, RequestForms, NoneAssumption
<1> HIDE DEF remove
<1>4. Rows!OutboxStep /\ Issued(remove)
  BY <1>1, <1>2, <1>3, ReplaceSteps
<1>5. HostMoved(remove) /\ AttemptsMoved({})
  BY <1>1, <1>2, <1>3, QuietRows, HostMoves, SameMarked, AttemptsMove
<1>6. /\ w \in WorkflowRow /\ w.revision = workflow.revision /\ w.version = workflow.version
      /\ w.number = workflow.number /\ w.request = remove /\ w.stage = "removing"
      /\ w.artifact = workflow.artifact
  <2>1. "removing" \in Stages
    BY DEF Stages, Active
  <2>. QED
    BY <1>2, <1>3, <2>1 DEF WorkflowRow
<1> HIDE DEF w
<1>7. /\ workflow' \in WorkflowRow /\ Checked(workflow)'
      /\ workflow'.stage = "removing" /\ workflow'.version = workflow.version
      /\ workflow'.number = workflow.number /\ workflow'.request = remove
      /\ workflow'.revision = workflow.revision + 1
  BY <1>1, <1>6, Saved
<1>8. ArtifactMoved /\ episodeArtifact' \in AttemptIds \cup {None}
  BY <1>1, <1>6, ArtifactStays
<1>9. FlowInv'
  <2>1. workflow'.number \in Nat /\ workflow'.number <= workflow.number + 1
    BY <1>2, <1>7
  <2>. QED
    BY <1>3, <1>4, <1>7, <2>1, IssueFlow
<1>10. RequestIsCurrent'
  BY <1>2, <1>3, <1>5, <1>7 DEF RequestIsCurrent, HostMoved
<1>11. /\ finalizations' \subseteq DOMAIN hostRequest' /\ mode' \in {"up", "down"}
       /\ finalizing' \in finalizations' \cup {None} /\ (finalizing' # None => mode' = "up")
       /\ UNCHANGED crashes
  BY <1>1, <1>5 DEF Inv, TablesTyped, HostMoved, process
<1>12. /\ workflow'.revision >= workflow.revision /\ remove.revision < workflow'.revision
       /\ workflow'.stage # "transferring" /\ {} \in SUBSET AttemptIds
       /\ \A a \in AttemptIds : remove = Start(a) => a \in {}
  BY <1>2, <1>3, <1>7
<1>. QED
  BY <1>3, <1>4, <1>5, <1>7, <1>8, <1>9, <1>10, <1>11, <1>12, MovedKeeps

-----------------------------------------------------------------------------
(* The request that is waited for fails. *)

(* What fails was waited for, so its attempt has not ended: marking it     *)
(* keeps how the others ended.                                             *)
LEMMA FailureKeeps ==
  ASSUME Inv, NEW r \in Requests, NEW retryable \in BOOLEAN, Failure(r, retryable),
         Rows!OutboxStep, NEW effect \in Requests \cup {None}, Issued(effect),
         r.kind = "start" /\ retryable => NextAttempt \in AttemptIds /\ effect = Start(NextAttempt)
  PROVE  Kept
<1>1. /\ workflow.request = r /\ r # None
      /\ UNCHANGED <<now, setBacks>> /\ UNCHANGED <<finalizations, episodeArtifact, process>>
  BY NoneAssumption DEF Failure
<1>2. /\ r \in DOMAIN hostRequest /\ workflow.version \in Versions /\ workflow.stage \in Active
      /\ \/ r.kind = "remove"
         \/ /\ r.kind = "start" /\ r = Start(Current) /\ r.attempt = Current
            /\ workflow.desired = "present" /\ Current \in DOMAIN downloadAttempt
            /\ downloadAttempt[Current] \in {"requested", "host_accepted", "transferring"}
  BY <1>1, WaitedFor, RequestForms
<1>3. Quiet(Completed(r))
  BY <1>1, <1>2, QuietRows
<1>4. Marked(FailedAttempts(r))
  BY <1>2 DEF Marked, FailedAttempts, Inv, TablesTyped
<1>5. CASE r.kind = "start" /\ retryable
  <2> DEFINE v == workflow.version
             n == workflow.number + 1
             w == [workflow EXCEPT !.stage = "retry_scheduled", !.number = n,
                         !.request = Start(<<v, n>>), !.notBefore = TRUE, !.failed = TRUE]
             deadline == now + RetryTicks + DeadlineTicks
  <2>1. workflow \in WorkflowRow /\ now \in Nat /\ NextAttempt = <<v, n>>
    BY Typed DEF Inv, TablesTyped, NextAttempt
  <2>2. InsertAttempt(Completed(r), FailedAttempts(r), <<v, n>>, deadline) /\ Save(w)
    BY <1>5, <2>1 DEF Failure, WorkflowRow
  <2>3. <<v, n>> \in AttemptIds /\ effect = Start(<<v, n>>) /\ effect \in Requests
    BY <1>5, <2>1, RequestForms
  <2>4. v \in Versions /\ n \in Nat /\ deadline \in Nat /\ n \in {1, workflow.number + 1}
    BY <1>2, <2>1, DownloadAssumption DEF WorkflowRow
  <2>5. "retry_scheduled" \in Stages /\ workflow.desired = "present"
    BY <1>2, <1>5 DEF Stages, Active
  <2>6. /\ w \in WorkflowRow /\ w.revision = workflow.revision /\ w.version = v /\ w.number = n
        /\ w.request = Start(<<v, n>>) /\ w.desired = "present" /\ w.stage = "retry_scheduled"
        /\ w.artifact = workflow.artifact
    <3> DEFINE start == Start(<<v, n>>)
    <3>1. start \in Requests
      BY <2>3
    <3> HIDE DEF start
    <3>. QED
      BY <2>1, <2>4, <2>5, <3>1 DEF WorkflowRow, start
  <2> HIDE DEF v, n, w, deadline
  <2>. QED
    BY <1>1, <1>3, <1>4, <2>2, <2>3, <2>4, <2>6, StartKeeps
<1>6. CASE ~ (r.kind = "start" /\ retryable)
  <2>1. Save(FailedWorkflow) /\ hostRequest' = Completed(r) /\ downloadAttempt' = FailedAttempts(r)
    BY <1>6 DEF Failure
  <2>2. HostMoved(None) /\ AttemptsMoved({})
    BY <1>3, <1>4, <2>1, HostMoves, AttemptsMove
  <2>3. None \in Requests \cup {None} /\ workflow.stage # "none"
    BY <1>2 DEF Active
  <2>. QED
    BY <1>1, <2>1, <2>2, <2>3, EndedRows, SavedKeeps
<1>. QED
  BY <1>5, <1>6

(* A request is overdue.                                                   *)
LEMMA TimeoutKeeps ==
  ASSUME Inv, NEW r \in DOMAIN hostRequest, Timeout(r)
  PROVE  Kept
<1>1. /\ Failure(r, r.kind = "start") /\ (r.kind = "start") \in BOOLEAN /\ r \in Requests
      /\ UNCHANGED <<now, setBacks>>
  BY DEF Timeout, Failure, Inv, TablesTyped
<1>2. now + RetryTicks \in Nat /\ r # None /\ workflow.request = r
  BY <1>1, Typed, DownloadAssumption, NoneAssumption DEF Failure
<1>3. CASE r.kind = "start"
  <2>1. ReplaceEffects(Start(NextAttempt), now + RetryTicks)
    BY <1>3 DEF Timeout
  <2>2. /\ NextAttempt \in AttemptIds /\ Start(NextAttempt) \in Requests
        /\ Rows!OutboxStep /\ Issued(Start(NextAttempt))
    BY <1>1, <1>2, <2>1, WaitedFor, ReplaceStart DEF NextAttempt
  <2>. QED
    BY <1>1, <1>3, <2>2, FailureKeeps
<1>4. CASE r.kind # "start"
  <2>1. ReplaceEffects(None, now + RetryTicks)
    BY <1>4 DEF Timeout
  <2>2. Rows!OutboxStep /\ Issued(None)
    BY <1>1, <1>2, <2>1, ReplaceSteps
  <2>. QED
    BY <1>1, <1>4, <2>2, FailureKeeps
<1>. QED
  BY <1>3, <1>4

(* A host reports on the request of its effect.                            *)
LEMMA HeldRequest ==
  ASSUME Inv, NEW i \in IntentIds, NEW f \in Fences, Held(i, f)
  PROVE  /\ intent[i].request \in Requests /\ intent[i].request \in DOMAIN hostRequest
         /\ Outbox!Open(i) /\ workflow.stage # "transferring"
         /\ workflow.stage \in Active => workflow.request = intent[i].request
<1>1. intent[i].request \in DOMAIN hostRequest /\ Outbox!Open(i)
  BY DEF Held, IsPending, Outbox!Open
<1>2. workflow.stage # "transferring"
  BY <1>1 DEF Inv, FlowInv, Offered
<1>3. workflow.stage \in Active => workflow.request = intent[i].request
  BY <1>1, <1>2 DEF Inv, FlowInv, Offered, OneOpen
<1>. QED
  BY <1>1, <1>2, <1>3 DEF Inv, TablesTyped

(* The host reports a failure.  That of a removal, if it is transient,     *)
(* also authorises the start of an attempt that has no row.                *)
LEMMA FailKeeps ==
  ASSUME Inv, NEW i \in IntentIds, NEW f \in Fences, NEW retryable \in BOOLEAN,
         Fail(i, f, retryable)
  PROVE  Kept
<1> DEFINE r == intent[i].request
           effect == IF retryable THEN Start(NextAttempt) ELSE None
<1>1. /\ Held(i, f) /\ Outbox!CurrentFence(i, f) /\ Failure(r, retryable)
      /\ SettleEffect(i, f, effect, now + RetryTicks) /\ UNCHANGED <<now, setBacks>>
  BY DEF Fail, Terminal, Failure
<1>2. /\ r \in Requests /\ r # None /\ workflow.request = r /\ workflow.version \in Versions
      /\ now + RetryTicks \in Nat
  BY <1>1, HeldRequest, WaitedFor, NoneAssumption, Typed, DownloadAssumption DEF Failure
<1>3. retryable => NextAttempt \in AttemptIds /\ Start(NextAttempt) \in Requests
  <2>1. SUFFICES ASSUME retryable = TRUE
                 PROVE  NextAttempt \in AttemptIds /\ Start(NextAttempt) \in Requests
    OBVIOUS
  <2>2. \E rows : Append(rows, Start(NextAttempt), now + RetryTicks)
    BY <1>1, <2>1 DEF SettleEffect
  <2>. QED
    BY <1>2, <2>2, AttemptInRange DEF NextAttempt
<1>4. effect \in Requests \cup {None}
  BY <1>3
<1>5. r.kind = "start" /\ retryable => NextAttempt \in AttemptIds /\ effect = Start(NextAttempt)
  BY <1>3
<1> HIDE DEF r, effect
<1>6. Rows!OutboxStep /\ Issued(effect)
  BY <1>1, <1>2, <1>4, SettleSteps
<1>. QED
  BY <1>1, <1>2, <1>4, <1>5, <1>6, FailureKeeps

(* The host accepts the start.  No effect is settled, and the request      *)
(* stays pending.                                                          *)
LEMMA AcceptKeeps ==
  ASSUME Inv, NEW i \in IntentIds, NEW f \in Fences, Accept(i, f)
  PROVE  Kept
<1> DEFINE r == intent[i].request
           w == [workflow EXCEPT !.stage = "host_accepted"]
<1>1. /\ Held(i, f) /\ workflow.request = r /\ r.kind = "start" /\ Save(w)
      /\ downloadAttempt' = [downloadAttempt EXCEPT ![r.attempt] =
                                IF downloadAttempt[r.attempt] \in {"requested", "host_accepted"}
                                THEN "host_accepted" ELSE downloadAttempt[r.attempt]]
      /\ UNCHANGED <<now, setBacks, intent, attempt, hostRequest, finalizations, episodeArtifact,
                     mode, finalizing, crashes>>
  BY DEF Accept, outbox, process
<1>2. /\ r \in DOMAIN hostRequest /\ workflow.stage \in Active \ {"transferring", "removing"}
      /\ workflow.version \in Versions /\ workflow.desired = "present"
      /\ r = Start(Current) /\ r.attempt = Current /\ Current \in DOMAIN downloadAttempt
      /\ downloadAttempt[Current] \in {"requested", "host_accepted", "transferring"}
  BY <1>1, HeldRequest, WaitedFor, NoneAssumption, RequestForms
<1>3. /\ w \in WorkflowRow /\ w.stage = "host_accepted" /\ w.version = workflow.version
      /\ w.desired = workflow.desired /\ w.number = workflow.number
      /\ w.request = workflow.request /\ w.artifact = workflow.artifact
      /\ w.revision = workflow.revision
  <2>1. workflow \in WorkflowRow /\ "host_accepted" \in Stages
    BY DEF Inv, TablesTyped, Stages, Active
  <2>. QED
    BY <2>1 DEF WorkflowRow
<1> HIDE DEF r, w
<1>4. /\ workflow' \in WorkflowRow /\ Checked(workflow)'
      /\ workflow'.stage = "host_accepted" /\ workflow'.version = workflow.version
      /\ workflow'.desired = workflow.desired /\ workflow'.number = workflow.number
      /\ workflow'.request = workflow.request /\ workflow'.artifact = workflow.artifact
      /\ workflow'.revision = workflow.revision + 1
  BY <1>1, <1>3, Saved
<1>5. /\ DOMAIN downloadAttempt' = DOMAIN downloadAttempt
      /\ \A a \in DOMAIN downloadAttempt : a # Current => downloadAttempt'[a] = downloadAttempt[a]
      /\ downloadAttempt'[Current] \in {"host_accepted", "transferring"}
  BY <1>1, <1>2
<1>6. Rows!OutboxStep
  BY <1>1, StillSteps, Typed, DownloadAssumption
<1>7. TablesTyped'
  BY <1>1, <1>4, <1>5 DEF Inv, TablesTyped
<1>8. FlowInv'
  <2>1. \A k \in IntentIds : (There(k)' <=> There(k)) /\ (Outbox!Open(k)' <=> Outbox!Open(k))
    BY <1>1 DEF There, Outbox!Open
  <2>2. Counted' /\ OneOpen'
    BY <1>4, <2>1 DEF Inv, FlowInv, Counted, OneOpen
  <2>3. \E k \in IntentIds : Outbox!Open(k) /\ intent[k].request = workflow.request
    BY <1>2 DEF Inv, FlowInv, Offered
  <2>4. Offered'
    BY <1>1, <1>4, <2>1, <2>3 DEF Offered
  <2>. QED
    BY <2>2, <2>4 DEF FlowInv
<1>9. RequestIsCurrent'
  <2>1. Current' = Current
    BY <1>4 DEF Current
  <2>. QED
    BY <1>1, <1>2, <1>4, <1>5, <2>1 DEF RequestIsCurrent
<1>10. RequestsAreNew'
  <2>1. workflow'.revision > workflow.revision /\ workflow.revision \in Nat
    BY <1>4 DEF Inv, TablesTyped, WorkflowRow
  <2>2. ASSUME NEW q \in DOMAIN hostRequest, q.kind = "remove" PROVE q.revision < workflow'.revision
    <3>1. PICK rev \in 0 .. MaxRevision : q.revision = rev
      BY <2>2, RequestForms DEF Inv, TablesTyped, Requests
    <3>2. rev < workflow.revision
      BY <2>2, <3>1 DEF Inv, TableInv, RequestsAreNew
    <3>. QED
      BY <2>1, <3>1, <3>2, <1>4, DownloadAssumption
  <2>. QED
    BY <1>1, <1>5, <2>2 DEF Inv, TableInv, RequestsAreNew, AttemptIds
<1>11. ArtifactIsKnown' /\ EpisodeAgrees'
  BY <1>1, <1>2, <1>4, <1>5 DEF Inv, TableInv, ArtifactIsKnown, EpisodeAgrees
<1>12. PendingIsCurrent'
  BY <1>1, <1>2, <1>4 DEF Inv, TableInv, PendingIsCurrent, IsPending
<1>13. TransferringIsOwed'
  BY <1>4 DEF TransferringIsOwed
<1>14. AdoptsOwed /\ EndsOnce
  BY <1>1, <1>2, <1>5 DEF AdoptsOwed, EndsOnce
<1>. QED
  BY <1>4, <1>6, <1>7, <1>8, <1>9, <1>10, <1>11, <1>12, <1>13, <1>14 DEF Kept, TableInv

(* The host confirms a cancellation, of the start it was asked for or by a *)
(* request to cancel.  In the latter case nothing is waited for: one       *)
(* effect only is open.                                                    *)
LEMMA ConfirmCancelledKeeps ==
  ASSUME Inv, NEW i \in IntentIds, NEW f \in Fences, ConfirmCancelled(i, f)
  PROVE  Kept
<1> DEFINE r == intent[i].request
<1>1. /\ Held(i, f) /\ Outbox!CurrentFence(i, f) /\ r.kind \in {"start", "cancel"}
      /\ hostRequest' = Completed(r) /\ downloadAttempt' = CancelledAttempts(r.attempt)
      /\ workflow.request = r => Save(CancelledWorkflow)
      /\ workflow.request # r => UNCHANGED workflow
      /\ SettleEffect(i, f, None, now)
      /\ UNCHANGED <<now, setBacks>> /\ UNCHANGED <<finalizations, episodeArtifact, process>>
  BY DEF ConfirmCancelled, Terminal
<1>2. /\ r \in Requests /\ r \in DOMAIN hostRequest /\ r # None
      /\ IsPending(r) /\ now \in Nat /\ workflow.stage # "transferring"
  BY <1>1, HeldRequest, NoneAssumption, Typed DEF Held
<1>3. Rows!OutboxStep /\ Issued(None)
  BY <1>1, <1>2, SettleSteps
<1>4. AttemptsMoved({})
  <2>1. Marked(CancelledAttempts(r.attempt))
    BY DEF Marked, CancelledAttempts, Inv, TablesTyped
  <2>. QED
    BY <1>1, <2>1, AttemptsMove
<1>5. CASE workflow.request = r
  <2>1. HostMoved(None)
    BY <1>1, <1>2, <1>5, QuietRows, HostMoves
  <2>2. workflow.stage # "none" /\ None \in Requests \cup {None}
    BY <1>2, <1>5, WaitedFor DEF Active
  <2> HIDE DEF r
  <2>. QED
    BY <1>1, <1>3, <1>4, <1>5, <2>1, <2>2, EndedRows, SavedKeeps
<1>6. CASE workflow.request # r
  <2>1. workflow' = workflow
    BY <1>1, <1>6
  <2>2. workflow.request = None /\ workflow.stage \notin Active
    BY <1>1, <1>6, HeldRequest DEF Inv, TableInv, Checked
  <2>3. HostMoved(None)
    BY <1>1, <1>2, <2>2, QuietRows, HostMoves
  <2> HIDE DEF r
  <2>4. ArtifactMoved
    BY <1>1, <2>1 DEF ArtifactMoved
  <2>5. workflow \in WorkflowRow /\ workflow.number \in Nat /\ workflow.revision \in Nat
    BY DEF Inv, TablesTyped, WorkflowRow
  <2>6. FlowInv'
    <3>1. workflow'.number \in Nat /\ workflow'.number <= workflow.number
          /\ workflow'.stage \notin Active \ {"transferring"} /\ workflow'.stage # "transferring"
      BY <2>1, <2>2, <2>5 DEF Active
    <3>. QED
      BY <1>3, <3>1, IssueFlow
  <2>7. Checked(workflow)'
    BY <2>1 DEF Inv, TableInv, Checked
  <2>8. RequestIsCurrent'
    BY <2>1, <2>2 DEF Inv, TableInv, RequestIsCurrent, Active
  <2>9. /\ finalizations' \subseteq DOMAIN hostRequest' /\ mode' \in {"up", "down"}
        /\ finalizing' \in finalizations' \cup {None} /\ (finalizing' # None => mode' = "up")
        /\ UNCHANGED crashes /\ episodeArtifact' \in AttemptIds \cup {None}
    BY <1>1, <2>3 DEF Inv, TablesTyped, HostMoved, process
  <2>10. /\ workflow' \in WorkflowRow /\ workflow'.revision >= workflow.revision
         /\ workflow'.request = None /\ workflow'.stage # "transferring"
         /\ {} \in SUBSET AttemptIds /\ None \in Requests \cup {None}
         /\ \A a \in AttemptIds : None = Start(a) => a \in {}
    BY <1>2, <2>1, <2>2, <2>5, RequestForms, NoneAssumption
  <2>. QED
    BY <1>3, <1>4, <2>3, <2>4, <2>6, <2>7, <2>8, <2>9, <2>10, MovedKeeps
<1>. QED
  BY <1>5, <1>6

(* The host confirms that the file is removed.                             *)
LEMMA ConfirmRemovedKeeps ==
  ASSUME Inv, NEW i \in IntentIds, NEW f \in Fences, ConfirmRemoved(i, f)
  PROVE  Kept
<1> DEFINE r == intent[i].request
           w == [workflow EXCEPT !.stage = "cancelled", !.request = None, !.artifact = None,
                                 !.failed = FALSE]
<1>1. /\ Held(i, f) /\ Outbox!CurrentFence(i, f) /\ workflow.request = r /\ Save(w)
      /\ hostRequest' = Completed(r) /\ episodeArtifact' = None
      /\ SettleEffect(i, f, None, now) /\ workflow.stage = "removing"
      /\ UNCHANGED <<now, setBacks>> /\ UNCHANGED <<downloadAttempt, finalizations, process>>
  BY DEF ConfirmRemoved, Terminal
<1>2. /\ r \in DOMAIN hostRequest /\ now \in Nat /\ workflow.version \in Versions
      /\ None \in Requests \cup {None}
  BY <1>1, HeldRequest, WaitedFor, NoneAssumption, Typed
<1>3. Rows!OutboxStep /\ Issued(None)
  BY <1>1, <1>2, SettleSteps
<1>4. HostMoved(None) /\ AttemptsMoved({})
  BY <1>1, <1>2, QuietRows, HostMoves, SameMarked, AttemptsMove
<1>5. /\ w \in WorkflowRow /\ w.stage = "cancelled" /\ w.version = workflow.version
      /\ w.number = workflow.number /\ w.artifact = None /\ w.revision = workflow.revision
      /\ workflow.number \in Nat
  <2>1. workflow \in WorkflowRow /\ "cancelled" \in Stages
    BY DEF Inv, TablesTyped, Stages
  <2>. QED
    BY <2>1 DEF WorkflowRow
<1> HIDE DEF r, w
<1>6. w.stage \in Stages \ Active /\ (w.stage = "waiting" => w.desired = "present")
      /\ w.version \in Versions /\ w.number <= workflow.number
  BY <1>2, <1>5 DEF Stages, Active
<1>7. ArtifactMoved
  BY <1>1, <1>5, Saved DEF ArtifactMoved
<1>8. /\ finalizations' \subseteq finalizations /\ UNCHANGED crashes
      /\ finalizing' = None \/ UNCHANGED <<finalizations, finalizing, mode>>
      /\ mode' \in {"up", "down"} /\ episodeArtifact' \in AttemptIds \cup {None}
  BY <1>1 DEF process, Inv, TablesTyped
<1>. QED
  BY <1>1, <1>2, <1>3, <1>4, <1>5, <1>6, <1>7, <1>8, EndKeeps

(* The host has staged the file: nothing is asked of it any more, and the  *)
(* command to adopt the file is owed.                                      *)
LEMMA StageKeeps ==
  ASSUME Inv, NEW i \in IntentIds, NEW f \in Fences, Stage(i, f)
  PROVE  Kept
<1> DEFINE r == intent[i].request
           w == [workflow EXCEPT !.stage = "transferring"]
<1>1. /\ Held(i, f) /\ Outbox!CurrentFence(i, f) /\ workflow.request = r /\ Save(w)
      /\ r.kind = "start" /\ hostRequest' = Completed(r)
      /\ downloadAttempt' = [downloadAttempt EXCEPT ![r.attempt] = "transferring"]
      /\ finalizations' = finalizations \cup {r} /\ finalizing' = r
      /\ SettleEffect(i, f, None, now)
      /\ UNCHANGED <<now, setBacks>> /\ UNCHANGED <<episodeArtifact, mode, crashes>>
      /\ mode = "up"
  BY DEF Stage, Terminal, Stageable, Held, Ready
<1>2. /\ r \in Requests /\ r \in DOMAIN hostRequest /\ r # None /\ now \in Nat
      /\ workflow.version \in Versions /\ workflow.desired = "present"
      /\ r = Start(Current) /\ r.attempt = Current /\ Current \in DOMAIN downloadAttempt
      /\ downloadAttempt[Current] \in {"requested", "host_accepted", "transferring"}
  BY <1>1, HeldRequest, WaitedFor, NoneAssumption, RequestForms, Typed
<1>3. Rows!OutboxStep /\ Issued(None)
  BY <1>1, <1>2, SettleSteps
<1>4. HostMoved(None)
  BY <1>1, <1>2, QuietRows, HostMoves
<1>5. AttemptsMoved({}) /\ downloadAttempt'[Current] = "transferring"
  <2>1. Marked([downloadAttempt EXCEPT ![r.attempt] = "transferring"])
    BY <1>2 DEF Marked, Inv, TablesTyped
  <2>. QED
    BY <1>1, <1>2, <2>1, AttemptsMove
<1>6. /\ w \in WorkflowRow /\ w.stage = "transferring" /\ w.version = workflow.version
      /\ w.number = workflow.number /\ w.artifact = workflow.artifact
      /\ w.revision = workflow.revision /\ w.request = workflow.request
      /\ w.desired = workflow.desired
  <2>1. workflow \in WorkflowRow /\ "transferring" \in Stages
    BY DEF Inv, TablesTyped, Stages, Active
  <2>. QED
    BY <2>1 DEF WorkflowRow
<1> HIDE DEF r, w
<1>7. /\ workflow' \in WorkflowRow /\ Checked(workflow)'
      /\ workflow'.stage = "transferring" /\ workflow'.version = workflow.version
      /\ workflow'.number = workflow.number /\ workflow'.request = r
      /\ workflow'.desired = "present" /\ workflow'.revision = workflow.revision + 1
  BY <1>1, <1>2, <1>6, Saved
<1>8. workflow.number \in Nat /\ workflow.revision \in Nat
  BY DEF Inv, TablesTyped, WorkflowRow
<1>9. FlowInv'
  <2>1. workflow'.number \in Nat /\ workflow'.number <= workflow.number
    BY <1>7, <1>8
  <2>. QED
    BY <1>3, <1>7, <2>1, IssueFlow
<1>10. RequestIsCurrent'
  <2>1. Current' = Current
    BY <1>7 DEF Current
  <2>. QED
    BY <1>2, <1>4, <1>5, <1>7, <2>1 DEF RequestIsCurrent, HostMoved
<1>11. ArtifactMoved /\ episodeArtifact' \in AttemptIds \cup {None}
  BY <1>1, <1>6, ArtifactStays
<1>12. /\ finalizations' \subseteq DOMAIN hostRequest' /\ mode' \in {"up", "down"}
       /\ finalizing' \in finalizations' \cup {None} /\ (finalizing' # None => mode' = "up")
       /\ UNCHANGED crashes /\ workflow'.request \in finalizations'
  BY <1>1, <1>2, <1>4, <1>7 DEF Inv, TablesTyped, HostMoved
<1>13. /\ workflow'.revision >= workflow.revision /\ {} \in SUBSET AttemptIds
       /\ None \in Requests \cup {None} /\ \A a \in AttemptIds : None = Start(a) => a \in {}
  BY <1>7, <1>8, RequestForms, NoneAssumption
<1>. QED
  BY <1>3, <1>4, <1>5, <1>7, <1>9, <1>10, <1>11, <1>12, <1>13, MovedKeeps

-----------------------------------------------------------------------------
(* The finalisation, and the opening of the store. *)

(* While a file is being adopted nothing is asked of the host.             *)
LEMMA TransferringIsQuiet ==
  ASSUME Inv, workflow.stage = "transferring"
  PROVE  /\ \A i \in IntentIds : ~ Outbox!Open(i)
         /\ Quiet(hostRequest) /\ workflow.version \in Versions /\ workflow.desired = "present"
         /\ workflow.request = Start(Current) /\ Current \in AttemptIds
         /\ Current \in DOMAIN downloadAttempt
<1>1. workflow.request # None /\ \A i \in IntentIds : ~ Outbox!Open(i)
  BY DEF Inv, TableInv, Checked, Active, FlowInv, Offered
<1>2. workflow.request.kind = "start" \/ workflow.stage = "removing"
  BY <1>1, WaitedFor
<1>. QED
  BY <1>1, <1>2, WaitedFor, QuietRows

(* The file is adopted, by the command its staging authorised.             *)
LEMMA FinalizeSucceedsKeeps ==
  ASSUME Inv, NEW r \in finalizations, FinalizeSucceeds(r)
  PROVE  Kept
<1> DEFINE w == [workflow EXCEPT !.stage = "succeeded", !.request = None, !.artifact = Current,
                                 !.notBefore = FALSE, !.failed = FALSE]
<1>1. /\ workflow.request = r /\ workflow.stage = "transferring" /\ Save(w)
      /\ downloadAttempt[Current] = "transferring"
      /\ downloadAttempt' = [downloadAttempt EXCEPT ![Current] = "succeeded"]
      /\ episodeArtifact' = Current /\ finalizations' = finalizations \ {r}
      /\ finalizing' = None /\ UNCHANGED <<now, setBacks, intent, attempt>>
      /\ UNCHANGED <<hostRequest, mode, crashes>>
  BY DEF FinalizeSucceeds, Finalizable, Adopt, Current, outbox
<1>2. /\ \A i \in IntentIds : ~ Outbox!Open(i)
      /\ Quiet(hostRequest) /\ workflow.version \in Versions /\ workflow.desired = "present"
      /\ r = Start(Current) /\ Current \in AttemptIds /\ Current \in DOMAIN downloadAttempt
  BY <1>1, TransferringIsQuiet
<1>3. Rows!OutboxStep
  BY <1>1, StillSteps, Typed, DownloadAssumption
<1>4. HostMoved(None)
  BY <1>1, <1>2, HostMoves
<1>5. AttemptsMoved({}) /\ downloadAttempt'[Current] = "succeeded"
      /\ Current \in DOMAIN downloadAttempt'
  <2>1. Marked([downloadAttempt EXCEPT ![Current] = "succeeded"])
    BY <1>1 DEF Marked, Inv, TablesTyped
  <2>. QED
    BY <1>1, <1>2, <2>1, AttemptsMove
<1>6. /\ w \in WorkflowRow /\ w.stage = "succeeded" /\ w.version = workflow.version
      /\ w.number = workflow.number /\ w.artifact = Current /\ w.revision = workflow.revision
      /\ workflow.number \in Nat
  <2>1. workflow \in WorkflowRow /\ "succeeded" \in Stages
    BY DEF Inv, TablesTyped, Stages
  <2>. QED
    BY <1>2, <2>1 DEF WorkflowRow
<1> HIDE DEF w
<1>7. ArtifactMoved
  <2>1. /\ workflow'.version = workflow.version /\ workflow'.number = workflow.number
        /\ workflow'.artifact = Current
    BY <1>1, <1>6, Saved
  <2>2. Current' = Current
    BY <2>1 DEF Current
  <2>. QED
    BY <1>1, <1>2, <1>5, <2>1, <2>2 DEF ArtifactMoved
<1>8. w.stage \in Stages \ Active /\ (w.stage = "waiting" => w.desired = "present")
      /\ w.version \in Versions /\ w.number <= workflow.number /\ None \in Requests \cup {None}
  BY <1>2, <1>6 DEF Stages, Active
<1>9. /\ finalizations' \subseteq finalizations /\ UNCHANGED crashes
      /\ finalizing' = None \/ UNCHANGED <<finalizations, finalizing, mode>>
      /\ mode' \in {"up", "down"} /\ episodeArtifact' \in AttemptIds \cup {None}
      /\ UNCHANGED intent
  BY <1>1, <1>2 DEF Inv, TablesTyped
<1>. QED
  BY <1>1, <1>2, <1>3, <1>4, <1>5, <1>6, <1>7, <1>8, <1>9, EndKeeps

(* The staged file is not what was asked for.                              *)
LEMMA FinalizeInvalidKeeps ==
  ASSUME Inv, NEW r \in finalizations, FinalizeInvalid(r)
  PROVE  Kept
<1>1. /\ workflow.stage = "transferring" /\ Save(FailedWorkflow)
      /\ downloadAttempt' = [downloadAttempt EXCEPT ![Current] =
             IF downloadAttempt[Current] = "transferring" THEN "failed"
             ELSE downloadAttempt[Current]]
      /\ finalizations' = finalizations \ {r}
      /\ finalizing' = None /\ UNCHANGED <<now, setBacks, intent, attempt>>
      /\ UNCHANGED <<hostRequest, mode, crashes>> /\ UNCHANGED episodeArtifact
  BY DEF FinalizeInvalid, Finalizable, Current, outbox
<1>2. /\ \A i \in IntentIds : ~ Outbox!Open(i)
      /\ Quiet(hostRequest) /\ workflow.version \in Versions
      /\ Current \in DOMAIN downloadAttempt
  BY <1>1, TransferringIsQuiet
<1>3. Rows!OutboxStep
  BY <1>1, StillSteps, Typed, DownloadAssumption
<1>4. HostMoved(None)
  BY <1>1, <1>2, HostMoves
<1>5. AttemptsMoved({})
  <2> DEFINE attempts == [downloadAttempt EXCEPT ![Current] =
             IF downloadAttempt[Current] = "transferring" THEN "failed"
             ELSE downloadAttempt[Current]]
  <2>1. Marked(attempts)
    BY <1>2 DEF Marked, Inv, TablesTyped
  <2> HIDE DEF attempts
  <2>. QED
    BY <1>1, <2>1, AttemptsMove DEF attempts
<1>6. ArtifactMoved /\ episodeArtifact' \in AttemptIds \cup {None}
  BY <1>1, EndedRows, ArtifactStays
<1>7. /\ FailedWorkflow.stage \in Stages \ Active /\ FailedWorkflow.stage # "waiting"
      /\ FailedWorkflow.version \in Versions /\ FailedWorkflow.number <= workflow.number
      /\ FailedWorkflow \in WorkflowRow /\ FailedWorkflow.revision = workflow.revision
      /\ None \in Requests \cup {None}
  <2>1. workflow.number \in Nat
    BY DEF Inv, TablesTyped, WorkflowRow
  <2>. QED
    BY <1>2, <2>1, EndedRows DEF Stages, Active
<1>8. /\ finalizations' \subseteq finalizations /\ UNCHANGED crashes /\ UNCHANGED intent
      /\ finalizing' = None \/ UNCHANGED <<finalizations, finalizing, mode>>
      /\ mode' \in {"up", "down"}
  BY <1>1 DEF Inv, TablesTyped
<1>. QED
  BY <1>1, <1>2, <1>3, <1>4, <1>5, <1>6, <1>7, <1>8, EndKeeps

(* A step that leaves the tables alone and opens or closes no effect.      *)
LEMMA StillKeeps ==
  ASSUME Inv, Rows!OutboxStep, UNCHANGED <<tables, crashes>> \/ (Crash /\ UNCHANGED tables),
         finalizing' \in finalizations \cup {None}, finalizing' # None => mode' = "up",
         mode' \in {"up", "down"},
         \A i \in IntentIds : /\ There(i)' <=> There(i)
                              /\ Outbox!Open(i)' <=> Outbox!Open(i)
                              /\ Outbox!Open(i) => intent'[i].request = intent[i].request
  PROVE  Kept
<1>1. UNCHANGED <<workflow, downloadAttempt, hostRequest, finalizations, episodeArtifact>>
      /\ crashes' \in 0 .. MaxCrashes
  BY DownloadAssumption DEF tables, Crash, Inv, TablesTyped
<1>2. TablesTyped'
  BY <1>1 DEF Inv, TablesTyped
<1>3. FlowInv'
  <2>1. Counted' /\ OneOpen'
    BY <1>1 DEF Inv, FlowInv, Counted, OneOpen
  <2>2. Offered'
    BY <1>1 DEF Inv, FlowInv, Offered
  <2>. QED
    BY <2>1, <2>2 DEF FlowInv
<1>4. TableInv'
  <2>1. Checked(workflow)' /\ RequestIsCurrent'
    BY <1>1 DEF Inv, TableInv, Checked, RequestIsCurrent, Current
  <2>2. RequestsAreNew' /\ ArtifactIsKnown' /\ PendingIsCurrent'
    BY <1>1 DEF Inv, TableInv, RequestsAreNew, ArtifactIsKnown, Current, PendingIsCurrent,
                IsPending, AttemptIds
  <2>3. TransferringIsOwed' /\ EpisodeAgrees'
    BY <1>1 DEF Inv, TableInv, TransferringIsOwed, EpisodeAgrees
  <2>. QED
    BY <2>1, <2>2, <2>3 DEF TableInv
<1>5. AdoptsOwed /\ EndsOnce
  BY <1>1 DEF AdoptsOwed, EndsOnce
<1>. QED
  BY <1>2, <1>3, <1>4, <1>5 DEF Kept

(* The steps of the clock and of the process.                              *)
LEMMA CallKeeps ==
  ASSUME Inv, FinalizeFails \/ Crash \/ Tick \/ UNCHANGED vars
              \/ \E intact \in BOOLEAN : Open(intact) /\ (workflow.stage # "succeeded" \/ intact)
  PROVE  Kept
<1>1. UNCHANGED <<setBacks, intent, attempt>> /\ now' \in 0 .. MaxNow
  BY Typed, DownloadAssumption
     DEF FinalizeFails, Crash, Tick, Outbox!Tick, Open, vars, outbox
<1>2. /\ UNCHANGED <<tables, crashes>> \/ (Crash /\ UNCHANGED tables)
      /\ finalizing' \in finalizations \cup {None} /\ (finalizing' # None => mode' = "up")
      /\ mode' \in {"up", "down"}
  BY DEF FinalizeFails, PendingAfterError, Crash, Tick, Open, vars, tables, process,
         Inv, TablesTyped
<1>3. \A i \in IntentIds : /\ There(i)' <=> There(i)
                           /\ Outbox!Open(i)' <=> Outbox!Open(i)
                           /\ Outbox!Open(i) => intent'[i].request = intent[i].request
  BY <1>1 DEF There, Outbox!Open
<1>. QED
  BY <1>1, <1>2, <1>3, StillSteps, StillKeeps

(* The host leases an effect.                                              *)
LEMMA ClaimKeeps ==
  ASSUME Inv, Claim
  PROVE  Kept
<1>1. Outbox!ClaimNext /\ UNCHANGED <<tables, crashes>> /\ UNCHANGED <<mode, finalizing>>
  BY DEF Claim, process
<1>2. PICK j \in IntentIds : Outbox!Claimable(j) /\ Outbox!Lease(j)
  BY <1>1 DEF Outbox!ClaimNext, IntentIds
<1>3. There(j) /\ Outbox!Open(j)
  BY <1>2 DEF Outbox!Claimable, Outbox!Reclaimable, There, Outbox!Open
<1>4. /\ intent'[j].state = "claimed" /\ intent'[j].request = intent[j].request
      /\ \A i \in IntentIds \ {j} : intent'[i] = intent[i]
  BY <1>2, Typed DEF Outbox!Lease, Rows!IntentRow
<1>5. \A i \in IntentIds : /\ There(i)' <=> There(i)
                           /\ Outbox!Open(i)' <=> Outbox!Open(i)
                           /\ Outbox!Open(i) => intent'[i].request = intent[i].request
  BY <1>3, <1>4 DEF There, Outbox!Open
<1>6. finalizing' \in finalizations \cup {None} /\ (finalizing' # None => mode' = "up")
      /\ mode' \in {"up", "down"}
  BY <1>1 DEF Inv, TablesTyped
<1>. QED
  BY <1>1, <1>5, <1>6, ClaimSteps, StillKeeps

(* A download whose file is gone is repaired: its attempt had succeeded,   *)
(* and is left as it ended.                                                *)
LEMMA OpenKeeps ==
  ASSUME Inv, NEW intact \in BOOLEAN, Open(intact)
  PROVE  Kept
<1>1. CASE workflow.stage # "succeeded" \/ intact
  BY <1>1, CallKeeps
<1>2. CASE ~ (workflow.stage # "succeeded" \/ intact)
  <2> DEFINE w == [FailedWorkflow EXCEPT !.artifact = None]
  <2>1. /\ workflow.stage = "succeeded" /\ episodeArtifact' = None
        /\ downloadAttempt' = RepairedAttempts /\ Save(w) /\ mode' = "up"
        /\ UNCHANGED <<now, setBacks, intent, attempt>>
        /\ UNCHANGED <<hostRequest, finalizations, finalizing, crashes>>
    BY <1>2 DEF Open, outbox
  <2>2. /\ downloadAttempt[Current] = "succeeded" /\ Current \in DOMAIN downloadAttempt
        /\ workflow.request = None /\ workflow.version \in Versions
    BY <2>1
       DEF Inv, TableInv, Checked, Active, ArtifactIsKnown, EpisodeAgrees, RequestIsCurrent
  <2>3. AttemptsMoved({})
    <3>1. Marked(RepairedAttempts)
      BY <2>2 DEF Marked, RepairedAttempts, Current, Inv, TablesTyped
    <3>. QED
      BY <2>1, <3>1, AttemptsMove
  <2>4. HostMoved(None)
    BY <2>1, <2>2, QuietRows, HostMoves
  <2>5. Rows!OutboxStep
    BY <2>1, StillSteps, Typed, DownloadAssumption
  <2>6. /\ w \in WorkflowRow /\ w.stage = "failed" /\ w.version = workflow.version
        /\ w.number = workflow.number /\ w.artifact = None /\ w.revision = workflow.revision
        /\ w.desired = workflow.desired
    <3>1. FailedWorkflow \in WorkflowRow /\ workflow \in WorkflowRow
      BY EndedRows DEF Inv, TablesTyped
    <3>. QED
      BY <3>1, EndedRows DEF WorkflowRow, FailedWorkflow
  <2> HIDE DEF w
  <2>7. /\ workflow' \in WorkflowRow /\ Checked(workflow)'
        /\ workflow'.stage = "failed" /\ workflow'.version = workflow.version
        /\ workflow'.number = workflow.number /\ workflow'.artifact = None
        /\ workflow'.revision = workflow.revision + 1
    BY <2>1, <2>6, Saved
  <2>8. workflow'.request = None
    BY <2>7 DEF Checked, Active
  <2>9. FlowInv'
    <3>1. \A i \in IntentIds : (There(i)' <=> There(i)) /\ (Outbox!Open(i)' <=> Outbox!Open(i))
      BY <2>1 DEF There, Outbox!Open
    <3>2. Counted' /\ OneOpen' /\ Offered'
      BY <2>7, <3>1 DEF Inv, FlowInv, Counted, OneOpen, Offered, Active
    <3>. QED
      BY <3>2 DEF FlowInv
  <2>10. RequestIsCurrent'
    BY <2>2, <2>7, <2>8 DEF RequestIsCurrent, Active
  <2>11. ArtifactMoved
    BY <2>1, <2>7 DEF ArtifactMoved
  <2>12. /\ finalizations' \subseteq DOMAIN hostRequest' /\ mode' \in {"up", "down"}
         /\ finalizing' \in finalizations' \cup {None} /\ (finalizing' # None => mode' = "up")
         /\ UNCHANGED crashes /\ episodeArtifact' \in AttemptIds \cup {None}
    BY <2>1, <2>4 DEF Inv, TablesTyped, HostMoved
  <2>13. /\ workflow'.revision >= workflow.revision /\ {} \in SUBSET AttemptIds
         /\ workflow'.stage # "transferring"
         /\ None \in Requests \cup {None} /\ \A a \in AttemptIds : None = Start(a) => a \in {}
    BY <2>7, RequestForms, NoneAssumption DEF Inv, TablesTyped, WorkflowRow
  <2>. QED
    BY <2>3, <2>4, <2>5, <2>7, <2>8, <2>9, <2>10, <2>11, <2>12, <2>13, MovedKeeps
<1>. QED
  BY <1>1, <1>2

(* Every step keeps the tables in agreement and moves the outbox by rows.  *)
LEMMA NextKeeps ==
  ASSUME Inv, [Next]_vars
  PROVE  Kept
<1>1. CASE \E v \in Versions, admitted \in BOOLEAN : Ensure(v, admitted)
  BY <1>1, EnsureKeeps
<1>2. CASE Cancel \/ Remove \/ AdmitWaiting \/ RetireObsolete
  BY <1>2, CancelKeeps, RemoveKeeps, AdmitWaitingKeeps, RetireObsoleteKeeps
<1>3. CASE \E r \in DOMAIN hostRequest : Timeout(r)
  BY <1>3, TimeoutKeeps
<1>4. CASE Claim
  BY <1>4, ClaimKeeps
<1>5. CASE \E i \in IntentIds, f \in Fences :
              \/ Accept(i, f) \/ ConfirmCancelled(i, f) \/ ConfirmRemoved(i, f) \/ Stage(i, f)
              \/ \E retryable \in BOOLEAN : Fail(i, f, retryable)
  BY <1>5, AcceptKeeps, ConfirmCancelledKeeps, ConfirmRemovedKeeps, StageKeeps, FailKeeps
<1>6. CASE \E r \in finalizations : FinalizeSucceeds(r) \/ FinalizeInvalid(r)
  BY <1>6, FinalizeSucceedsKeeps, FinalizeInvalidKeeps
<1>7. CASE \E intact \in BOOLEAN : Open(intact)
  BY <1>7, OpenKeeps
<1>8. CASE FinalizeFails \/ Crash \/ Tick \/ UNCHANGED vars
  BY <1>8, CallKeeps
<1>. QED
  BY <1>1, <1>2, <1>3, <1>4, <1>5, <1>6, <1>7, <1>8 DEF Next

(* The invariant is inductive.                                             *)
LEMMA StepInv ==
  ASSUME Inv, [Next]_vars
  PROVE  Inv'
<1>1. Kept
  BY NextKeeps
<1>2. Rows!Inv'
  BY <1>1, Rows!OutboxStepInv, OutboxAssumptions DEF Inv, Kept, Rows!OutboxStepInv
<1>. QED
  BY <1>1, <1>2 DEF Inv, Kept

-----------------------------------------------------------------------------
(* The invariant of every behaviour, and what follows from it. *)

(* Whatever is commanded, reported, timed out, lost in a crash or repaired *)
(* on opening, the workflow row, its attempts, its requests, the commands  *)
(* it owes itself, the episode and the outbox agree as Inv says.           *)
THEOREM DownloadInvariance == Spec => []Inv
BY InitInv, StepInv, PTL DEF Spec

(* The tables and the process hold values of their types.                  *)
THEOREM DownloadTypeCorrect == Spec => []TypeOK
<1>1. ASSUME Inv PROVE TypeOK
  <2>1. Rows!Inv
    BY <1>1 DEF Inv
  <2>2. Outbox!TypeOK
    BY <2>1
       DEF Rows!Inv, Rows!RowInv, Rows!Tries, Rows!IntentIds, Rows!Fences, Rows!IntentRow,
           Rows!AttemptRow, Outbox!TypeOK, Outbox!IntentIds, Outbox!Fences,
           Outbox!IntentRow, Outbox!AttemptRow
  <2>. QED
    BY <1>1, <2>2 DEF Inv, TablesTyped, TypeOK
<1>. QED
  BY <1>1, DownloadInvariance, PTL

(* A start or a removal is pending exactly while the workflow waits for    *)
(* it: no host answers a request the workflow has dropped.                 *)
THEOREM PendingStaysCurrent == Spec => []PendingIsCurrent
<1>1. Inv => PendingIsCurrent
  BY DEF Inv, TableInv
<1>. QED
  BY <1>1, DownloadInvariance, PTL

(* One effect of the episode is open at most, and while the workflow waits *)
(* for the host it is that of the request waited for.                      *)
THEOREM WaitingIsOffered == Spec => []OfferedWhileWaiting
<1>1. ASSUME Inv PROVE OfferedWhileWaiting
  <2> DEFINE open == {i \in IntentIds : Outbox!Open(i)}
  <2>1. Cardinality(open) <= 1
    <3>1. CASE open = {}
      BY <3>1, FS_EmptySet
    <3>2. ASSUME NEW i \in open PROVE Cardinality(open) <= 1
      <4>1. open = {i}
        BY <1>1, <3>2 DEF Inv, FlowInv, OneOpen
      <4>2. Cardinality({i}) = 1
        BY FS_Singleton
      <4>3. Cardinality(open) = 1
        BY <4>1, <4>2
      <4> HIDE DEF open
      <4>. QED
        BY <4>3
    <3>. QED
      BY <3>1, <3>2
  <2>2. workflow.stage \in Active \ {"transferring"} =>
          \E i \in open : intent[i].request = workflow.request
    BY <1>1 DEF Inv, FlowInv, Offered
  <2>. QED
    BY <2>1, <2>2 DEF OfferedWhileWaiting
<1>. QED
  BY <1>1, DownloadInvariance, PTL

(* The command that ends a transfer is never lost, neither by an error nor *)
(* by a crash.                                                             *)
THEOREM TransfersAreOwed == Spec => []TransferringIsOwed
<1>1. Inv => TransferringIsOwed
  BY DEF Inv, TableInv
<1>. QED
  BY <1>1, DownloadInvariance, PTL

(* The episode refers to the file of an attempt that succeeded, and to     *)
(* that of its workflow when the workflow has one.                         *)
THEOREM EpisodeStaysInAgreement == Spec => []EpisodeAgrees
<1>1. Inv => EpisodeAgrees
  BY DEF Inv, TableInv
<1>. QED
  BY <1>1, DownloadInvariance, PTL

(* However late and in whatever order hosts answer, an attempt that has    *)
(* ended stays as it ended.                                                *)
THEOREM EndedAttemptsStay == Spec => AttemptsEndOnce
<1>1. Inv /\ [Next]_vars =>
        [\A a \in DOMAIN downloadAttempt :
            downloadAttempt[a] \in {"succeeded", "failed", "cancelled"} =>
                downloadAttempt'[a] = downloadAttempt[a]]_vars
  BY NextKeeps DEF Kept, EndsOnce
<1>. QED
  BY <1>1, DownloadInvariance, PTL DEF Spec, AttemptsEndOnce

(* An episode adopts a file only while the download is wanted, and by      *)
(* consuming the command that the staging of that file authorised.         *)
THEOREM AdoptionsAreOwed == Spec => AdoptionIsOwed
<1>1. Inv /\ [Next]_vars =>
        [episodeArtifact' \notin {None, episodeArtifact} =>
            /\ workflow.desired = "present"
            /\ Start(episodeArtifact') \in finalizations \ finalizations']_vars
  BY NextKeeps DEF Kept, AdoptsOwed
<1>. QED
  BY <1>1, DownloadInvariance, PTL DEF Spec, AdoptionIsOwed

(* The two readings of the authority of an effect, through the outbox of   *)
(* this module and through that of the row lemmas, are one.                *)
LEMMA SameAuthority == Rows!ImplementsAuthority => Outbox!ImplementsAuthority
BY DEF Rows!ImplementsAuthority, Rows!Authority!ASpec, Rows!Authority!AInit,
       Rows!Authority!ANext, Rows!Authority!LifeCycle, Rows!Authority!Authorized,
       Rows!Authority!Granted, Rows!Authority!Answered, Rows!Authority!Withdrawn,
       Rows!Authority!Effect, Rows!Authority!Unauthorized, Rows!AuthorityOf,
       Rows!AuthorityStatus, Rows!Outcomes, Rows!Fences, Rows!IntentIds,
       Outbox!ImplementsAuthority, Outbox!Authority!ASpec, Outbox!Authority!AInit,
       Outbox!Authority!ANext, Outbox!Authority!LifeCycle, Outbox!Authority!Authorized,
       Outbox!Authority!Granted, Outbox!Authority!Answered, Outbox!Authority!Withdrawn,
       Outbox!Authority!Effect, Outbox!Authority!Unauthorized, Outbox!AuthorityOf,
       Outbox!AuthorityStatus, Outbox!Outcomes, Outbox!Fences, Outbox!IntentIds

(* The transactions about a download keep every effect within the life     *)
(* cycle it is promised.                                                   *)
THEOREM DownloadKeepsAuthority == Spec => EffectsKeepAuthority
<1>1. Rows!vars = <<now, setBacks, intent, attempt>>
  BY DEF Rows!vars
<1>2. Init => Rows!Init
  BY DEF Init, Outbox!Init, Rows!Init, Outbox!IntentIds, Rows!IntentIds, Outbox!Fences,
         Rows!Fences, Outbox!NoIntent, Rows!NoIntent, Outbox!NoAttempt, Rows!NoAttempt
<1>3. Inv => Rows!Inv
  BY DEF Inv
<1>4. Inv /\ [Next]_vars => [Rows!OutboxStep]_<<now, setBacks, intent, attempt>>
  BY NextKeeps DEF Kept
<1>5. Rows!Init /\ []Rows!Inv /\ [][Rows!OutboxStep]_<<now, setBacks, intent, attempt>>
         => Rows!ImplementsAuthority
  BY <1>1, Rows!RowwiseImplementsAuthority, OutboxAssumptions, PTL
     DEF Rows!RowwiseImplementsAuthority, Rows!vars
<1>. QED
  BY <1>2, <1>3, <1>4, <1>5, SameAuthority, DownloadInvariance, PTL
     DEF Spec, EffectsKeepAuthority
=============================================================================
