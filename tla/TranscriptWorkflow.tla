------------------------- MODULE TranscriptWorkflow -------------------------
(***************************************************************************)
(* The transcript of one episode: the workflow row and its attempts, the   *)
(* publisher, submission and recovery effects it authorises, the request   *)
(* queue the facade keeps in memory, and the loop a host's poll runs       *)
(* (reconcile, prepare, claim), each step a transaction of its own.  A     *)
(* submission is paid for and may not be repeated; the other effects may.  *)
(*                                                                         *)
(* The facade holds its mutex for a whole call, so commands, reports and   *)
(* polls do not interleave; a crash falls between any two transactions.    *)
(* Of several episodes' queued requests the loop prepares the first by     *)
(* identity; this module has one episode.  Effects of other components,    *)
(* the cancellation notice among them, are the request Elsewhere.  Wakes   *)
(* for a retry and for a provider's recovery only queue what is queued     *)
(* already, and are left out.                                              *)
(***************************************************************************)
EXTENDS Naturals, FiniteSets

CONSTANTS
    None,
    LeaseTicks,     \* the duration of a lease
    DeadlineTicks,  \* TRANSCRIPT_HOST_REQUEST_DEADLINE_MILLISECONDS
    RetryTicks,     \* TRANSCRIPT_RETRY_BASE_MILLISECONDS
    MaxAttempts,    \* TRANSCRIPT_WORKFLOW_MAX_ATTEMPTS
    MaxNumber,      \* bound: attempts of the episode
    MaxRevision,    \* bound: revision from which no looping report is taken
    MaxElsewhere,   \* bound: row that an effect of another component can take
    MaxIntents,     \* bound: rows of the intent table
    MaxFence,       \* bound: leases of one effect
    MaxNow,         \* bound: the latest time
    MaxCrashes      \* bound: crashes of the kernel

ASSUME TranscriptAssumption ==
    /\ LeaseTicks \in Nat \ {0} /\ DeadlineTicks \in Nat /\ RetryTicks \in Nat
    /\ MaxAttempts \in Nat \ {0} /\ MaxNumber \in Nat \ {0}
    /\ MaxRevision \in Nat /\ MaxElsewhere \in Nat /\ MaxIntents \in Nat
    /\ MaxFence \in Nat /\ MaxNow \in Nat /\ MaxCrashes \in Nat

(* A host request is known by the attempt it was derived from and by who   *)
(* is asked; the intent of an effect by its request and, where the same    *)
(* request is offered again, the revision of the workflow.                 *)
Numbers   == 1 .. MaxNumber
Revisions == 1 .. MaxRevision + 4
Ids       == [number : Numbers, publisher : BOOLEAN]
Publish(id)      == [kind |-> "publish", id |-> id, revision |-> 1]
Submit(id)       == [kind |-> "submit", id |-> id, revision |-> 0]
Recover(id, rev) == [kind |-> "recover", id |-> id, revision |-> rev]
Elsewhere        == [kind |-> "elsewhere", id |-> None, revision |-> 0]
Submissions == {Submit(id) : id \in Ids}
Repeatable  == {Elsewhere} \cup {Publish(id) : id \in Ids}
                 \cup {Recover(id, rev) : id \in Ids, rev \in Revisions}
Requests    == Submissions \cup Repeatable

ASSUME NoneAssumption == None \notin Requests /\ None \notin Ids

VARIABLES
    now, setBacks, intent, attempt,   \* the outbox
    workflow,            \* pod0_transcript_workflows, the row of the episode
    transcriptAttempt,   \* pod0_transcript_attempts: a state for every number
    selection,           \* the revision of pod0_transcript_selection
    evidence,            \* the BuildTranscriptEvidence command and its result
    wake,                \* the request a finalisation wake is scheduled for
    queued,              \* pending_transcripts, in memory
    mode, step, crashes, \* the kernel process, and where in its call it is
    asked                \* generations asked for; read by no action

outbox  == <<intent, attempt>>
tables  == <<workflow, transcriptAttempt, selection, evidence, wake, asked>>
process == <<queued, mode, step, crashes>>
vars    == <<now, setBacks, outbox, tables, process>>

Outbox == INSTANCE EffectOutbox WITH
    Exact <- Repeatable, Publishers <- {}, PublisherLimit <- 0, NoRequest <- None,
    Recovery <- [r \in Submissions |-> None], Delays <- {0},
    MaxAuthorized <- MaxIntents, MaxSetBacks <- 0
IntentIds == Outbox!IntentIds
Fences    == Outbox!Fences

Queueable == {"requested", "publisher_requested", "retry_scheduled", "provider_accepted"}
Protected == {"submission_authorized", "provider_accepted", "completion_observed",
              "evidence_requested"}
Stages    == Queueable \cup Protected \cup {"blocked", "failed", "cancelled", "succeeded"}
AttemptStates == {"none", "prepared", "authorized", "provider_accepted", "completion_observed",
                  "committed", "retry_scheduled", "ambiguous", "failed", "cancelled"}

NoWorkflow == [stage |-> "none", revision |-> 0, number |-> 0, request |-> None,
               deadline |-> None, notBefore |-> None, authorized |-> FALSE,
               accepted |-> FALSE, maySubmit |-> FALSE, expected |-> 0]
NoAttempts == [n \in Numbers |-> "none"]

TypeOK ==
    /\ Outbox!TypeOK
    /\ workflow \in [stage : Stages \cup {"none"}, revision : Nat, number : 0 .. MaxNumber,
                     request : Ids \cup {None}, deadline : Nat \cup {None},
                     notBefore : Nat \cup {None}, authorized : BOOLEAN, accepted : BOOLEAN,
                     maySubmit : BOOLEAN, expected : Nat]
    /\ transcriptAttempt \in [Numbers -> AttemptStates]
    /\ selection \in Nat /\ asked \in Nat
    /\ evidence \in {"none", "owed", "admitted"}
    /\ wake \in Ids \cup {None} /\ queued \subseteq Ids
    /\ mode \in {"up", "down"} /\ crashes \in 0 .. MaxCrashes
    /\ step \in {"idle", "prepare", "claim", "finalize", "evidence", "resume"}

Init == /\ Outbox!Init
        /\ workflow = NoWorkflow /\ transcriptAttempt = NoAttempts
        /\ selection = 0 /\ evidence = "none" /\ wake = None /\ asked = 0
        /\ queued = {} /\ mode = "up" /\ step = "idle" /\ crashes = 0

-----------------------------------------------------------------------------
Idle  == mode = "up" /\ step = "idle"
At(s) == mode = "up" /\ step = s
Room  == workflow.revision < MaxRevision                       \* bound

Save(w) == workflow' = [w EXCEPT !.revision = @ + 1]

(* terminal, in the failure code: neither deadline nor retry time is left. *)
Ended(w, stage) == [w EXCEPT !.stage = stage, !.deadline = None, !.notBefore = None]

Provider(n) == [number |-> n, publisher |-> FALSE]

(* A row is appended at most once for a request: its receipt is replayed.  *)
AuthorizeOnce(request) ==
    IF \E i \in IntentIds : intent[i].request = request THEN UNCHANGED intent
    ELSE \E j \in IntentIds : /\ Outbox!NextId(j)
                              /\ intent' = [intent EXCEPT ![j] = Outbox!NewIntent(request, now)]

\* Faulty form: the observation closes its attempt and leaves the effect claimed.
SettleEffect_AttemptOnly(i, f) == /\ attempt' = [attempt EXCEPT ![i] = Outbox!Answer(@, f, "observed")]
                                  /\ UNCHANGED intent

SettleEffect(i, f) == Outbox!Settle(i, f, "observed")

-----------------------------------------------------------------------------
(* Commands.  A request the plan answers without starting anything only    *)
(* writes its disposition, which this module does not keep.                *)

StartAttempt(number, publisher, revision) ==
    /\ workflow' = [NoWorkflow EXCEPT
          !.stage = IF publisher THEN "publisher_requested" ELSE "requested",
          !.revision = revision, !.number = IF publisher THEN 0 ELSE number,
          !.request = [number |-> number, publisher |-> publisher],
          !.deadline = now + DeadlineTicks, !.expected = selection]
    /\ transcriptAttempt' = IF publisher THEN NoAttempts
                            ELSE [NoAttempts EXCEPT ![number] = "prepared"]
    /\ queued' = (queued \ {workflow.request}) \cup {[number |-> number, publisher |-> publisher]}
    /\ asked' = asked + 1

(* An automatic start or a playback may ask the publisher first.           *)
Ensure(publisher) ==
    /\ Idle
    /\ workflow.stage = "none" /\ selection = 0
    /\ StartAttempt(1, publisher, 1)
    /\ UNCHANGED <<now, setBacks, outbox, selection, evidence, wake, mode, step, crashes>>

Retryable == workflow.stage \notin Protected \cup {"none", "succeeded"}

(* The row is replaced and with it every attempt row; the effects of the   *)
(* replaced row stay as they are.                                          *)
Retry ==
    /\ Idle /\ Room
    /\ Retryable /\ selection = 0
    /\ workflow.number < MaxNumber                              \* bound
    /\ StartAttempt(workflow.number + 1, FALSE, workflow.revision + 1)
    /\ wake' = None
    /\ UNCHANGED <<now, setBacks, outbox, selection, evidence, mode, step, crashes>>

(* cancel_workflow_effects, and the notice for the host.                   *)
WithdrawEffects ==
    LET mine == {i \in IntentIds : Outbox!Open(i) /\ intent[i].request # Elsewhere} IN
    /\ attempt' = [i \in IntentIds |-> IF i \in mine THEN Outbox!ClosedAttempts(i, "superseded")
                                       ELSE attempt[i]]
    /\ \E j \in IntentIds :
          /\ Outbox!NextId(j)
          /\ intent' = [i \in IntentIds |->
                          IF i = j THEN Outbox!NewIntent(Elsewhere, now)
                          ELSE IF i \in mine THEN [intent[i] EXCEPT !.state = "superseded"]
                          ELSE intent[i]]

Cancel ==
    /\ Idle
    /\ workflow.stage \notin {"none", "succeeded", "cancelled"}
    /\ Save(Ended(workflow, "cancelled"))
    /\ transcriptAttempt' = [n \in Numbers |->
          IF n = workflow.number /\ transcriptAttempt[n] # "committed" THEN "cancelled"
          ELSE transcriptAttempt[n]]
    /\ WithdrawEffects
    /\ queued' = queued \ {workflow.request} /\ wake' = None
    /\ UNCHANGED <<now, setBacks, selection, evidence, asked, mode, step, crashes>>

(* A host commits a transcript of its own for the episode.                 *)
SelectAnother ==
    /\ Idle
    /\ selection = 0                                            \* bound
    /\ selection' = selection + 1
    /\ UNCHANGED <<now, setBacks, outbox, workflow, transcriptAttempt, evidence, wake, asked,
                   process>>

-----------------------------------------------------------------------------
(* One turn of the poll loop.                                              *)

\* Faulty form: a lease that has expired still holds its effect.
Unheld_Claimed == \A i \in IntentIds :
    ~ (intent[i].state = "claimed" /\ intent[i].request # Elsewhere)

(* No transcript effect of the episode is under a good lease.              *)
Unheld == \A i \in IntentIds, f \in Fences :
    ~ (intent[i].state = "claimed" /\ intent[i].request # Elsewhere /\ Outbox!Live(i, f))

Abandoned == workflow.stage = "submission_authorized" /\ Unheld

\* Faulty form: the row is given up and its attempt is not.
MarkAmbiguous_RowOnly ==
    /\ Save([workflow EXCEPT !.stage = "blocked", !.maySubmit = TRUE, !.deadline = None])
    /\ UNCHANGED transcriptAttempt

(* commit_transcript_ambiguous_recovery: the effect is left as it is.      *)
MarkAmbiguous ==
    /\ Save([workflow EXCEPT !.stage = "blocked", !.maySubmit = TRUE, !.deadline = None])
    /\ transcriptAttempt' = [transcriptAttempt EXCEPT ![workflow.number] =
                                IF @ = "authorized" THEN "ambiguous" ELSE @]

Reconcile ==
    /\ Idle
    /\ IF Abandoned THEN MarkAmbiguous ELSE UNCHANGED <<workflow, transcriptAttempt>>
    /\ step' = "prepare"
    /\ UNCHANGED <<now, setBacks, outbox, selection, evidence, wake, asked, queued, mode, crashes>>

Due == workflow.notBefore = None \/ workflow.notBefore <= now

Submittable == /\ workflow.stage \in {"requested", "retry_scheduled"} /\ Due
               /\ workflow.deadline # None /\ workflow.deadline >= now

(* claim_transcript_submission: the row, its attempt and the effect.       *)
AuthorizeSubmission ==
    /\ workflow' = [workflow EXCEPT !.stage = "submission_authorized", !.revision = @ + 1,
                        !.notBefore = None, !.authorized = TRUE, !.maySubmit = TRUE]
    /\ transcriptAttempt[workflow.number] = "prepared"
    /\ transcriptAttempt' = [transcriptAttempt EXCEPT ![workflow.number] = "authorized"]
    /\ AuthorizeOnce(Submit(workflow.request))

PrepareQueued ==
    CASE workflow.stage = "publisher_requested" ->
            AuthorizeOnce(Publish(workflow.request)) /\ UNCHANGED <<workflow, transcriptAttempt>>
      [] workflow.stage = "provider_accepted" /\ Due ->
            /\ AuthorizeOnce(Recover(workflow.request, workflow.revision))
            /\ UNCHANGED <<workflow, transcriptAttempt>>
      [] Submittable -> AuthorizeSubmission
      [] OTHER -> UNCHANGED <<intent, workflow, transcriptAttempt>>

Prepare ==
    /\ At("prepare")
    /\ step' = "claim"
    /\ IF workflow.request \in queued
       THEN PrepareQueued /\ UNCHANGED queued
       ELSE queued' = {} /\ UNCHANGED <<intent, workflow, transcriptAttempt>>
    /\ UNCHANGED <<now, setBacks, attempt, selection, evidence, wake, asked, mode, crashes>>

(* The loop goes on with its next turn, or the call returns.               *)
Claim ==
    /\ At("claim")
    /\ step' = "idle"
    /\ IF \E i \in IntentIds : Outbox!Claimable(i) THEN Outbox!ClaimNext
       ELSE UNCHANGED <<now, setBacks, outbox>>
    /\ UNCHANGED <<tables, queued, mode, crashes>>

-----------------------------------------------------------------------------
(* What the host reports under its lease.  The workflow must still wait    *)
(* for that very request.                                                  *)

Reports(i, f) ==
    /\ Idle
    /\ Outbox!Leased(i, f) /\ Outbox!CurrentFence(i, f)
    /\ intent[i].request # Elsewhere
    /\ workflow.request = intent[i].request.id

(* retire_transcript_request, then what the new stage is queued for.       *)
\* Faulty form: a workflow that waits again is not queued again.
Requeued_Never(w) == queued \ {workflow.request}

Requeued(w) == (queued \ {workflow.request})
                  \cup (IF w.stage \in {"provider_accepted", "retry_scheduled"} THEN {w.request} ELSE {})

Accept(i, f) ==
    LET w == [workflow EXCEPT !.stage = "provider_accepted", !.accepted = TRUE,
                              !.notBefore = now + RetryTicks]
    IN /\ Reports(i, f)
       /\ workflow.stage = "submission_authorized"
       /\ transcriptAttempt[workflow.number] = "authorized"
       /\ Save(w) /\ queued' = Requeued(w)
       /\ transcriptAttempt' = [transcriptAttempt EXCEPT ![workflow.number] = "provider_accepted"]
       /\ SettleEffect(i, f)
       /\ UNCHANGED <<now, setBacks, selection, evidence, wake, asked, mode, step, crashes>>

StillPending(i, f) ==
    LET w == [workflow EXCEPT !.notBefore = now + RetryTicks]
    IN /\ Reports(i, f) /\ Room
       /\ workflow.stage = "provider_accepted"
       /\ transcriptAttempt[workflow.number] = "provider_accepted"
       /\ Save(w) /\ queued' = Requeued(w)
       /\ SettleEffect(i, f)
       /\ UNCHANGED <<now, setBacks, transcriptAttempt, selection, evidence, wake, asked, mode,
                      step, crashes>>

(* The artifact is stored and the workflow finalised in a transaction of   *)
(* its own, by the same call.                                              *)
Complete(i, f) ==
    LET n == workflow.number IN
    /\ Reports(i, f)
    /\ workflow.stage \in {"publisher_requested", "submission_authorized", "provider_accepted"}
    /\ n > 0 => transcriptAttempt[n] \in {"authorized", "provider_accepted", "ambiguous"}
    /\ Save([workflow EXCEPT !.stage = "completion_observed"])
    /\ transcriptAttempt' = [m \in Numbers |-> IF m = n THEN "completion_observed"
                                               ELSE transcriptAttempt[m]]
    /\ queued' = queued \ {workflow.request}
    /\ step' = "finalize"
    /\ SettleEffect(i, f)
    /\ UNCHANGED <<now, setBacks, selection, evidence, wake, asked, mode, crashes>>

\* Faulty form: whether anything was submitted is not asked.
SafeToResubmit_Always == TRUE

SafeToResubmit == ~ workflow.authorized /\ ~ workflow.accepted /\ ~ workflow.maySubmit

(* classify_transcript_failure and retry_transition: "lost" stands for the *)
(* failures whose meaning depends on how far the attempt had come.         *)
Reasons == {"unmet", "invalid", "rejected", "garbled", "lost", "cancelled"}

RetryScheduled ==
    [workflow EXCEPT !.stage = "retry_scheduled", !.number = @ + 1,
        !.request = Provider(workflow.number + 1), !.notBefore = now + RetryTicks,
        !.deadline = now + RetryTicks + DeadlineTicks, !.authorized = FALSE, !.accepted = FALSE,
        !.maySubmit = FALSE]

Ambiguous == [Ended(workflow, "blocked") EXCEPT !.maySubmit = TRUE]

Failed(reason) ==
    CASE reason = "unmet"     -> Ended(workflow, "blocked")
      [] reason = "invalid"   -> Ended(workflow, "failed")
      [] reason = "rejected"  -> [Ended(workflow, "failed") EXCEPT !.maySubmit = TRUE]
      [] reason = "garbled"   -> Ambiguous
      [] reason = "cancelled" -> Ended(workflow, "cancelled")
      [] reason = "lost" /\ SafeToResubmit /\ workflow.number < MaxAttempts -> RetryScheduled
      [] reason = "lost" /\ SafeToResubmit /\ workflow.number >= MaxAttempts ->
            Ended(workflow, "failed")
      [] reason = "lost" /\ workflow.accepted ->
            [Ended(workflow, "provider_accepted") EXCEPT !.maySubmit = TRUE]
      [] OTHER -> Ambiguous

\* Faulty form: the attempt is given the stage of its workflow.
AttemptAfter_Stage(w) == w.stage

AttemptAfter(w) == CASE w.stage = "retry_scheduled"         -> "retry_scheduled"
                     [] w.stage = "provider_accepted"       -> "provider_accepted"
                     [] w.stage = "cancelled"               -> "cancelled"
                     [] w.stage = "blocked" /\ w.maySubmit  -> "ambiguous"
                     [] OTHER                               -> "failed"

Fail(i, f, reason) ==
    LET w == Failed(reason) IN
    /\ Reports(i, f) /\ Room
    /\ workflow.stage \in Queueable \cup {"submission_authorized"}
    /\ w.number <= MaxNumber                                    \* bound
    /\ Save(w) /\ queued' = Requeued(w)
    /\ transcriptAttempt' = [n \in Numbers |->
          IF n = workflow.number THEN AttemptAfter(w)
          ELSE IF n = w.number THEN "prepared" ELSE transcriptAttempt[n]]
    /\ SettleEffect(i, f)
    /\ UNCHANGED <<now, setBacks, selection, evidence, wake, asked, mode, step, crashes>>

-----------------------------------------------------------------------------
(* Finalisation: the artifact becomes the episode's transcript unless      *)
(* another one was selected since the workflow started, and a command to   *)
(* build its evidence is owed.                                             *)

Finalize ==
    LET n == workflow.number IN
    /\ At("finalize")
    /\ workflow.stage = "completion_observed"
    /\ selection = workflow.expected
    /\ n > 0 => transcriptAttempt[n] = "completion_observed"
    /\ selection' = selection + 1
    /\ Save(Ended(workflow, "evidence_requested"))
    /\ transcriptAttempt' = [m \in Numbers |-> IF m = n THEN "committed" ELSE transcriptAttempt[m]]
    /\ evidence' = "owed"
    /\ queued' = queued \ {workflow.request}
    /\ step' = "evidence"
    /\ UNCHANGED <<now, setBacks, outbox, wake, asked, mode, crashes>>

(* A conflict, or an error of the store: a wake is scheduled.              *)
FinalizeFails ==
    /\ At("finalize")
    /\ wake' = workflow.request /\ step' = "idle"
    /\ UNCHANGED <<now, setBacks, outbox, workflow, transcriptAttempt, selection, evidence, asked,
                   queued, mode, crashes>>

(* resume_transcript_evidence consumes the command; when it fails after a  *)
(* finalisation the same wake is scheduled, at opening nothing is.         *)
AdmitEvidence ==
    /\ At("evidence") \/ At("resume")
    /\ evidence' = "admitted" /\ step' = "idle"
    /\ UNCHANGED <<now, setBacks, outbox, workflow, transcriptAttempt, selection, wake, asked,
                   queued, mode, crashes>>

EvidenceFails ==
    /\ At("evidence") \/ At("resume")
    /\ wake' = IF step = "evidence" THEN workflow.request ELSE wake
    /\ step' = "idle"
    /\ UNCHANGED <<now, setBacks, outbox, workflow, transcriptAttempt, selection, evidence, asked,
                   queued, mode, crashes>>

(* The evidence is indexed, at once or by the answer of another effect.    *)
EvidenceIndexed ==
    /\ Idle
    /\ workflow.stage = "evidence_requested" /\ evidence = "admitted"
    /\ Save([workflow EXCEPT !.stage = "succeeded"])
    /\ UNCHANGED <<now, setBacks, outbox, transcriptAttempt, selection, evidence, wake, asked,
                   process>>

(* The wake finalises the record of its request, which it looks for among  *)
(* the queued requests.                                                    *)
Wake ==
    /\ Idle /\ wake # None
    /\ wake' = None
    /\ step' = IF wake \in queued /\ wake = workflow.request
                  /\ workflow.stage = "completion_observed"
               THEN "finalize" ELSE "idle"
    /\ UNCHANGED <<now, setBacks, outbox, workflow, transcriptAttempt, selection, evidence, asked,
                   queued, mode, crashes>>

-----------------------------------------------------------------------------
(* The rest of the system, the process and the clock.                      *)

AuthorizeElsewhere == \E j \in IntentIds :
    /\ Idle /\ Outbox!NextId(j)
    /\ j <= MaxElsewhere                                        \* bound
    /\ intent' = [intent EXCEPT ![j] = Outbox!NewIntent(Elsewhere, now)]
    /\ UNCHANGED <<now, setBacks, attempt, tables, process>>

ObserveElsewhere(i, f) ==
    /\ Idle
    /\ intent[i].request = Elsewhere
    /\ Outbox!Observe(i, f)
    /\ UNCHANGED <<tables, process>>

Crash == /\ mode = "up"
         /\ crashes < MaxCrashes                                \* bound
         /\ mode' = "down" /\ step' = "idle" /\ queued' = {} /\ crashes' = crashes + 1
         /\ UNCHANGED <<now, setBacks, outbox, tables>>

(* rehydrate_transcript_workflows *)
\* Faulty form: a retry that waits for its time is not queued again.
Rehydrated_NoRetry == IF workflow.stage \in Queueable \ {"retry_scheduled"}
                      THEN {workflow.request} ELSE {}

Rehydrated == IF workflow.stage \in Queueable THEN {workflow.request} ELSE {}

Open ==
    /\ mode = "down"
    /\ mode' = "up"
    /\ IF Abandoned THEN MarkAmbiguous ELSE UNCHANGED <<workflow, transcriptAttempt>>
    /\ queued' = Rehydrated
    /\ step' = CASE workflow.stage = "completion_observed" -> "finalize"
                 [] workflow.stage = "evidence_requested" -> "resume"
                 [] OTHER -> "idle"
    /\ UNCHANGED <<now, setBacks, outbox, selection, evidence, wake, asked, crashes>>

Tick == Outbox!Tick /\ UNCHANGED <<tables, process>>

Poll == Reconcile \/ Prepare \/ Claim
Call == Finalize \/ FinalizeFails \/ AdmitEvidence \/ EvidenceFails

Next == \/ \E publisher \in BOOLEAN : Ensure(publisher)
        \/ Retry
        \/ Cancel
        \/ SelectAnother
        \/ Poll
        \/ \E i \in IntentIds, f \in Fences : Accept(i, f)
        \/ \E i \in IntentIds, f \in Fences : StillPending(i, f)
        \/ \E i \in IntentIds, f \in Fences : Complete(i, f)
        \/ \E i \in IntentIds, f \in Fences, reason \in Reasons : Fail(i, f, reason)
        \/ Call
        \/ EvidenceIndexed
        \/ Wake
        \/ AuthorizeElsewhere
        \/ \E i \in IntentIds, f \in Fences : ObserveElsewhere(i, f)
        \/ Crash
        \/ Open
        \/ Tick

Spec == Init /\ [][Next]_vars

(* The kernel's own steps: a host polls again and again, a call runs to    *)
(* its end, an error of the store does not repeat for ever, a wake that    *)
(* was scheduled is delivered, and a crashed kernel is opened again.       *)
PolledSpec == /\ Spec
              /\ WF_vars(Tick)
              /\ WF_vars(Poll)
              /\ WF_vars(Call)
              /\ SF_vars(Finalize)
              /\ WF_vars(Wake)
              /\ WF_vars(Open)

-----------------------------------------------------------------------------
(* Every submission the kernel pays for was asked for: whatever is lost,   *)
(* refused, answered late or recovered after a crash, no more submissions  *)
(* are authorised than generations were requested by a user, a playback or *)
(* the automatic policy.                                                   *)
SubmissionsAreAsked == Cardinality({i \in IntentIds : intent[i].request \in Submissions}) <= asked

(* At most one effect that carries the request the workflow waits for is   *)
(* open, and a submission in flight has its effect: the row and the outbox *)
(* are moved by different functions.                                       *)
OneOpenEffect ==
    LET open == {i \in IntentIds : Outbox!Open(i) /\ intent[i].request.id = workflow.request} IN
    /\ workflow.request # None => Cardinality(open) <= 1
    /\ workflow.stage = "submission_authorized" =>
          \E i \in open : intent[i].request = Submit(workflow.request)

AttemptStateIn(stage) ==
    CASE stage \in {"requested", "retry_scheduled"}   -> {"prepared"}
      [] stage = "submission_authorized"              -> {"authorized"}
      [] stage \in {"evidence_requested", "succeeded"} -> {"committed"}
      [] stage = "blocked"                            -> {"ambiguous", "failed"}
      [] stage = "cancelled"                          -> {"cancelled", "committed"}
      [] OTHER                                        -> {stage}

(* The attempt row of the current number is in the state the stage of the  *)
(* workflow asks of it, and no other row is left: the updates that insist  *)
(* on changing one row never refuse an answer the workflow waits for.      *)
AttemptAgrees == \A n \in Numbers :
    transcriptAttempt[n] \in IF n = workflow.number THEN AttemptStateIn(workflow.stage)
                             ELSE {"none"}

(* Through retries, reports in any order, crashes and reopening, a         *)
(* workflow that has something to dispatch is in the facade's queue:       *)
(* nothing else ever looks at it again.                                    *)
WaitingIsQueued == mode = "up" /\ workflow.stage \in Queueable => workflow.request \in queued

(* The workflow's transactions keep every effect within the life cycle it  *)
(* is promised; in particular a submission is granted to a host once.      *)
EffectsKeepAuthority == Outbox!ImplementsAuthority

Submitting(n) ==
    /\ workflow.stage = "submission_authorized" /\ workflow.number = n
    /\ \A i \in IntentIds, f \in Fences : Outbox!Leased(i, f) => attempt[i][f].expires <= MaxNow

(* A submission never leaves its workflow in flight: it is answered, or it *)
(* is found ambiguous when its host is silent or was never told.           *)
SubmissionResolves == \A n \in Numbers : Submitting(n) ~> ~ Submitting(n)

-----------------------------------------------------------------------------
(* What the facade contract says of a transcript.  The code does otherwise. *)

(* FACADE_CONTRACT: an authorised request with no provider evidence        *)
(* requires explicit resolution.  Its submission does not reach a host     *)
(* once the workflow has given it up.                                      *)
AbandonedIsNotSubmitted == [][\A i \in IntentIds :
    (intent[i].request \in Submissions /\ intent'[i].fence > intent[i].fence) =>
        /\ workflow.stage = "submission_authorized"
        /\ intent[i].request = Submit(workflow.request)]_vars

(* FACADE_CONTRACT: the recovery of a completion's finalisation uses a     *)
(* core wake.  A wake that was scheduled for it finalises a completion     *)
(* that can be.                                                            *)
WakeFinalizes ==
    (wake # None /\ workflow.stage = "completion_observed" /\ selection = workflow.expected)
        ~> (workflow.stage # "completion_observed" \/ selection # workflow.expected)
=============================================================================
