# Pod0 kernel: a TLA+ model

Pod0 is a podcast application whose state and policy live in a Rust kernel
(`rust/crates`), with a Swift user interface and host processes around it. The
kernel never performs an effect itself. It commits, in one SQLite transaction,
what it has decided and which effects that decision authorises; a host leases an
effect, performs it, and reports; the report is another transaction. This
project models that protocol, the journal and the queue of internal commands
every transaction goes through, and three workflows built on them: the download
of an episode, its transcript, and the recurring agent runs. TLC checks all of
them. TLAPS proves, for every value of the constants, every safety property that
is checked: the invariants, the action properties and the refinements of all five
modules.

All paths below are relative to the repository.

## 1. The system

### Components

| Component | State | Operations | What makes it correct |
|---|---|---|---|
| **Durable effect outbox** (`pod0-storage/src/effect_outbox*.rs`, `transition_commit_agent_*recovery.rs`, `transition_commit_cancellation.rs`, `pod0-application/src/effect_recovery_policy.rs`) | `pod0_effect_intents` (state, due time, current fence), `pod0_effect_attempts` (fence, lease expiry, state, outcome) | append an intent with the fact that authorises it; claim the next due intent; record a terminal observation; recover an expired lease that may not be repeated; supersede; retire | one outcome per effect, by the holder of its latest fence; work that may not be repeated is leased once; a settled effect is final; no effect is stuck |
| **Transition kernel** (`transition_commit_planned.rs`, `transition_commit_write.rs`, `activity_store.rs`, `internal_command_store.rs`, `runtime_workflow_internal_commands.rs`, `transition_commit_workflow_reconcile.rs`) | ingress receipts, activity facts, internal commands, the capability snapshot | commit an accepted or declined ingress with its facts and commands; answer a redelivered one; plan the library page by page; carry out what is queued | an ingress has effect once; receipts and facts fit together; every command is carried out once and traced to the fact that authorised it; the queue drains |
| **Download workflow** (`download_*.rs`, `transition_commit_download*.rs`, `pod0-facade/src/runtime_download_*.rs`, `pod0-application/src/download_*.rs`) | workflow row, attempt rows, host requests, finalisation commands, the episode's file reference | ensure, cancel, remove, reconcile waiting downloads, host reports, timeouts, finalisation, repair at opening | request, effect, workflow and episode agree after every transaction; an attempt ends once; a staged file is not forgotten; nothing waits for ever |
| **Transcript workflow** (`pod0-storage/src/transcript_workflow/`, `transition_commit_transcript*.rs`, `runtime_transcript_*.rs`) | workflow row, attempt rows, the selected transcript, the evidence command, an in-memory queue of requests | ensure, retry, cancel, ask the publisher, submit, accept, recover, fail, complete, finalise, build evidence | nothing is paid for that was not asked for; a submission is granted once and does not stay in flight; what waits is looked at again |
| **Scheduled agent** (`scheduled_agent_*.rs`, `transition_commit_scheduled_agent*.rs`) | tasks with their next run, occurrences (runs) with their attempt, the pinned lease of an accepted run | ensure, update, remove a task; reconcile due runs; cancel, retry; accepted, completed, failed | an occurrence runs once; an accepted run goes to no second host; a schedule moves by the run it stands at |
| **Chapter workflows** (publisher, model) | a workflow per episode and per source | admit, fetch, run a model, apply | stale results never replace newer chapters |
| **Agent turns** | conversations, turns, capability calls, approvals | start, answer, approve | an action that needs approval has it |
| **Playback and listening** | queue, position, transport, the streaming lease | play, pause, seek, observe, checkpoint | the position never follows a dead stream |
| **Feeds, library, subscriptions** | podcasts, episodes, subscriptions, fetch schedule | fetch, merge, subscribe, remove | a refresh never loses user state |
| **Recall index and evidence** | a derived index, evidence rows | index, remove, query | equals what a rebuild would give |
| **User artifacts** (notes, clips, memories, categories, settings) | one table each | create, edit, delete | revision checks |
| **Migrations, legacy imports, cutovers** | schema version, conversion journal | convert once at opening | idempotent after a crash |
| **User data erasure** | an erasure marker, the data directory | erase, resume | complete after a crash |
| **Facade projections** | none of their own | render the stores | – |
| **Command-line and live hosts** | in-flight work | lease, execute, report | the environment of the model |
| **Domain types and bindings; Swift application** | – | – | – |

The first five have modules. `PROJECT.json` lists all of them with their status.

### Interaction

    user / schedule / feed           host (downloads, models, audio, ...)
          |  command                    ^ lease         | report
          v                             |               v
    +---------------- facade: one call at a time, polled -----------------+
    |  plan (read)  ->  commit: ONE immediate SQLite transaction          |
    |     receipt + facts + domain mutation + effect intents + commands   |
    +----------------------------------------------------------------------+

* A command's transaction writes the domain tables, one receipt for the ingress,
  and the facts; a fact may authorise an effect (an intent) or an internal
  command, which becomes visible only through that commit.
* A delivery repeated under the same identity is answered from its receipt; under
  another fingerprint it is refused.
* After a call that may have queued commands, and at every opening, the facade
  carries out what is queued, oldest first, a batch at a time
  (`runtime_workflow_internal_commands.rs`).
* Each time a host asks for work, the facade first reconciles deadlines and
  expired leases, then prepares what its queues hold, and then claims
  (`runtime_transcript_effect_leases.rs:23-70`). Each of these is a transaction.
* A claim gives a host the intent, an attempt with a fence one above the last,
  and an expiry. A terminal report is accepted only under the intent's current
  fence (`effect_outbox_observation.rs:41`).
* A workflow that changes its mind completes or supersedes the open effects of
  its former request, and their leases, in the same transaction
  (`transition_commit_download.rs:213`, `transition_commit_scheduled_agent_effects.rs:117`).
* Some reports leave work to the kernel itself: staging a download authorises an
  internal `FinalizeDownloadArtifact` command, executed right after the report
  commits and again at every opening until it is disposed of; a completed
  transcript is finalised by a second transaction of the same call, or by a wake.

### What is hard here

Two hosts with leases of one effect, one of them dead by the clock; answers that
arrive after the workflow moved on; a recovery chosen outside the transaction
that applies it; a limit counted over leases at claim time; the clock set back;
a crash between the authorisation of a paid submission and its claim, or between
the commit of a report and of the command it authorised; a request that only an
in-memory queue remembers; a batch cut short by a crash and planned again from
another library; one run that fails the reconciliation of all; a host that says
any time; sequences of legal commands across cancel, remove, retry and a
replaced enclosure. `PROJECT.json` lists 39 such hazards at their lines, with the properties that watch them or the reason
none does.

## 2. The modules

| Module | Models | Lines of code it stands for |
|---|---|---|
| `EffectAuthority` | the abstract promise about one effect: authorised once, granted some number of times, settled once, by the outcome of the latest grant or by withdrawal; an ambiguous effect is granted at most once | the effect rules of `effect_outbox*.rs` |
| `EffectOutbox` | the two tables and every transaction on them | claim, observation, recovery, cancellation, retirement |
| `EffectOutboxProofs` | theorems (section 5) | – |
| `TransitionKernel` | the transaction every command goes through, the plan of an opportunity, the executor | receipts, facts, internal commands, paging |
| `TransitionKernelProofs` | theorems (section 5) | – |
| `DownloadWorkflow` | the download of one episode, composed with an `INSTANCE` of `EffectOutbox` | commands, reports, timeouts, finalisation, crash, opening |
| `DownloadWorkflowProofs` | theorems (section 5) | – |
| `TranscriptWorkflow` | the transcript of one episode, composed with an `INSTANCE` of `EffectOutbox` | commands, the poll loop, reports, finalisation, evidence, wake, crash, opening |
| `TranscriptWorkflowProofs` | theorems (section 5) | – |
| `ScheduledAgent` | recurring tasks and their runs, composed with an `INSTANCE` of `EffectOutbox` | task commands, reconciliation, the pinned claim, reports |
| `ScheduledAgentProofs` | theorems (section 5) | – |
| `MC*` | instances for TLC | – |

The three workflows state that their transactions keep every effect within its
promised life cycle by the refinement `Outbox!ImplementsAuthority`, under the
name `EffectsKeepAuthority`: they compose with the outbox, and the composition
still implements `EffectAuthority`.

The `map` of `PROJECT.json` gives, for each definition, the lines it translates.
Definitions with a suffix (`Reclaimable_Live`, `Requeued_Never`, ...) are faulty
forms of the definition they precede. No specification uses them. Each shows
that a property can fail: with the faulty form in place of the definition the
named run finds the property violated.

### EffectOutbox

An action is one immediate transaction. A transaction whose guard fails rolls
back, so it is no step.

| Action | Code |
|---|---|
| `Authorize` | the intents a commit appends |
| `ClaimNext` | `claim_next`: the due, pending or reclaimable row, first by due time, commit time, rowid, under the publisher limit |
| `Observe` | a terminal observation: attempt and intent settle under the current fence |
| `RecoverAmbiguous` | `reconcile_expired_effects` for agent model calls and agent capabilities: the outcome is recorded as unknown, and a recoverable audio target authorises a `RecoverExisting` effect |
| `Supersede` | cancellation by correlation |
| `Retire` | a workflow that drops its effect |
| `Tick`, `SetBack` | the wall clock of the facade, which the user may set back |

`Exact` are the requests an expired lease of which may be leased again, the
others are ambiguous (`effect_recovery_policy.rs`). A host is not a variable: a
host that holds lease `(i, f)` may deliver its report at any time later, or
never. That covers lost, late and reordered reports and the crash of a host or
of the kernel, because the outbox keeps nothing outside its tables.

### TransitionKernel

State: the journal (`sequence`, `facts`, `receipts`), the queue of internal
commands (`intents`), the capability `snapshot`, the `listing` of the library's
episodes, the executor (`running`, `batch`, `progressed`, `passes`), whether the
process is `up`, and which owners fail at present (`refusing`). `owed` is a
history variable no action reads: the episodes an accepted opportunity promised.

`Commit` is one transaction: the facts of an ingress in order (a disposition, a
transition if it was accepted, one authorising fact per queued command), the
queued commands under the sequence number of the fact that authorises them, the
command that is consumed, and the receipt.

| Action | Code |
|---|---|
| `Observe` | `observe_workflow_capabilities`: a new snapshot, or declined if it is the present one |
| `Reconcile` | `reconcile_workflow_opportunity`: the first page, if the opportunity was seen under the current snapshot |
| `Redeliver` | the same command again: its receipt answers, and the executor runs |
| `ReadPending` | one pass: the oldest pending commands, at most a batch, by commit time and then id |
| `Execute` | the owner carries the command out and consumes it; a continuation plans its page |
| `Skip` | the owner's transaction fails; the command stays |
| `Stop` | no progress in the last pass, or no pass left |
| `ChangeListing`, `ChangeRefusing` | the library changes; an owner begins or ceases to fail |
| `Crash`, `Open` | the process ends; opening runs the executor |

The commands an opportunity queues for one episode are one request here. Effects
are left to `EffectOutbox`. The id of an internal command is a digest in the
code, so the order among commands of one time is a constant, `Digest`.

### DownloadWorkflow

State: the workflow row, the attempt rows (`downloadAttempt`), the host requests
with their deadlines (`hostRequest`), the pending finalisation commands
(`finalizations`), the file the episode refers to (`episodeArtifact`), and the
kernel process (`mode`, and the command it is executing, `finalizing`). While a
finalisation runs, no other call does (`Ready`). The tables' `CHECK`
constraints are the operator `Checked`: a transaction that violates one is no
step, as in the code it rolls back.

| Action | Code |
|---|---|
| `Ensure(v, admitted)` | a request for the enclosure `v`, of a user, of playback, of the automatic policy or as an internal command; `admitted` is the policy's answer |
| `Cancel`, `Remove` | the two user commands |
| `AdmitWaiting`, `RetireObsolete` | reconciliation of a waiting download with a new environment |
| `Timeout` | the deadline reconciliation of each poll |
| `Claim` | `Outbox!ClaimNext` |
| `Accept`, `Fail`, `ConfirmCancelled`, `ConfirmRemoved`, `Stage` | the host's reports |
| `FinalizeSucceeds`, `FinalizeInvalid`, `FinalizeFails` | the finalisation adopts the file, rejects it, or meets another I/O error |
| `Crash`, `Open` | the process dies; the opening runs what is pending, then repairs a finished download whose file is gone |

`Accept` and the terminal reports differ as in the code: acceptance neither
compares the fence nor settles the effect.

### TranscriptWorkflow

State: the workflow row (stage, revision, attempt number, the request it waits
for, deadline, retry time, and the evidence of how far a submission came:
`authorized`, `accepted`, `maySubmit`), the attempt rows, the revision of the
episode's `selection`, the command that builds `evidence`, the finalisation
`wake`, the facade's in-memory queue (`queued`), and the process (`mode`, and
where in its call it is, `step`). `asked` is a history variable no action reads:
how many generations users, playback and the policy have asked for.

The facade holds its mutex for a whole call; a call of several transactions is
several actions linked by `step`, and `Crash` may fall between any two.

| Action | Code |
|---|---|
| `Ensure(publisher)`, `Retry`, `Cancel` | the commands; a retry replaces the row and its attempts |
| `SelectAnother` | a host commits a transcript of its own |
| `Reconcile`, `Prepare`, `Claim` | one turn of the poll loop: mark an abandoned submission ambiguous; authorise the effect of the queued request; lease the next effect |
| `Accept`, `StillPending`, `Complete`, `Fail` | the host's reports; `Failed` is the classification by how far the attempt had come |
| `Finalize`, `FinalizeFails`, `AdmitEvidence`, `EvidenceFails` | the transactions that follow a completion in the same call |
| `EvidenceIndexed` | the evidence is built and the workflow succeeds |
| `Wake` | the finalisation wake |
| `AuthorizeElsewhere`, `ObserveElsewhere` | an effect of another component in the same queue |
| `Crash`, `Open` | the queue is lost; opening repairs and rehydrates |

### ScheduledAgent

State: the tasks (state, revision, next run), the runs (stage, attempt number,
retry time), and which leases have been `accepted`. All of it is in tables, so
every action is one transaction and a crash is a step that does not happen.

| Action | Code |
|---|---|
| `EnsureTask`, `UpdateTask`, `RemoveTask` | the commands about tasks; removal makes live runs obsolete and supersedes their effects |
| `Reconcile` | every run that fell due and every retry whose time has come, in one transaction; one run without attempts left refuses it |
| `CancelRun`, `RetryRun` | the commands about runs |
| `Claim` | the claim, which passes over the pinned effect of an accepted run |
| `Accept`, `Complete`, `Fail` | the host's reports, judged by the time they carry |
| `Tick` | the clock |

A report's time is the host's, and nobody compares it with the clock: `Reports`
lets it be any time up to the lease's expiry, or any time at all once the run is
accepted (`effect_outbox_scheduled_agent_observation.rs:23`). From below it is
held by the table. Every report that changes something writes its time as
`updated_at_ms` of the attempt's row (`scheduled_agent_store_observations.rs:177`,
`scheduled_agent_store_completion.rs:60`), and the migration checks
`updated_at_ms>=created_at_ms` there
(`schema/migrations/0021_scheduled_agent_workflows.sql:98`); an earlier report
fails its transaction. That one comparison is why a success moves the schedule
forward: `next_run` is the host's time plus the interval and is compared with
nothing (`scheduled_agent_policy.rs:168`), but the attempt was made when its run
was due. The faulty form `Reports_BeforeItsAttempt`, without the comparison, makes
`SuccessAdvances` fail. From above nothing holds it: a host may name a time far
ahead and postpone the next run.

## 3. The runs

Except in `kernel_safety`, deadlock is not checked: every other instance stops
when its bounds are reached (time, revisions, rows), and progress is what the
liveness properties are for. `TransitionKernel` has no such end, and TLC finds no
deadlock in it.

| Run | Question | Bounds | Distinct states |
|---|---|---|---|
| `outbox_safety` | one outcome under the latest fence; one good lease; a claimed effect is held; ambiguous effects are leased once; the publisher limit; a settled effect is final; the outbox implements `EffectAuthority` | 2 effects of any of 4 kinds plus one authorised by recovery, limit 1, leases of 2 ticks, due now or one tick later, 2 leases per effect, time to 3, one set-back | 711 k |
| `outbox_liveness` | every due effect is offered in the end; an ambiguous effect whose holder died is settled in the end | publisher, ambiguous and recovery requests, 2 authorised plus 2 by recovery, limit 1, leases of 1 tick, time to 2, one set-back | 181 k |
| `kernel_safety` | the journal is tiled by receipts; causes precede; each command is carried out once; an opportunity covers the library; the executor drains the queue | 2 commands, 2 snapshots, 2 listings of at most 2 episodes, one time, pages of 1, batches of 1, 9 passes, one crash | 121 k |
| `download_safety` | request, effect, workflow and episode agree; a transfer keeps its command; a file is adopted only while wanted and by its own command; an attempt ends once; effects keep their life cycle | 2 enclosures, 5 revisions, 2 leases per effect, time to 1, one crash | 839 k |
| `download_waits` | the workflow stops waiting for a silent host | 1 enclosure, 4 revisions, time to 3 | 93 k |
| `transcript_safety` | no more is submitted than was asked for; row, attempt, outbox and queue agree; a submission does not stay in flight; effects keep their life cycle | 4 revisions, 2 attempts, 4 effects of which one may be another component's, 2 leases each, time to 1, one crash | 528 k |
| `scheduled_safety` | a run owns exactly its effect; an accepted run is given to no other host; finished runs stay; a success moves only the schedule it stood at, and forward; a run that waits is started; effects keep their life cycle | 1 task, 3 revisions, 2 attempts, 4 effects with 2 leases each, time to 1, also the time hosts say | 242 k |

Why these bounds are enough to be interesting:

* Two fences give two holders of one effect, one expired; two effects give the
  order of the queue and a slot of the publisher limit held by a dead lease; a
  time of 3 is one past a lease of 2, so a lease expires, is replaced, and the
  replacement expires within the run or not; one set-back revives a lease.
* Durations are scaled: the code's lease lasts 120 s, a download's deadline
  24 h, a retry is delayed, and here each is one or two ticks. With leases
  and deadlines that fall on the same tick, a re-lease may come before or after
  the timeout, and the late answers to both leases before or after either. In
  `transcript_safety` a deadline of 0 means a request not submitted within the
  tick it was made in has missed it.
* Pages, batches and passes are scaled from 32, 100 and 100. With pages of one
  an opportunity over two episodes takes two, so a crash, a new snapshot or a
  changed library falls between them. With batches of one, one refused command
  is a full batch in front of the rest. All opportunities carry one time, so the
  queue is ordered by the ids, and `Digest` lets a later command stand first. Nine passes are enough for the longest
  run, and fewer would cut it short, which the code's hundred does only for
  queues this model cannot build.
* Five revisions of a download cover start, failure, retry, staging and
  adoption, and also adopt, remove, confirm, or a replaced enclosure and its
  return. Four revisions of a transcript cover authorise, accept, lose and
  recover; only actions that could repeat for ever are stopped by that bound, so
  the others still run at the last revision.
* Two attempts of a scheduled run are start, failure, retry and the last failure;
  four rows leave two for the next occurrence, which an edit or a success may make
  due at the same tick as the retry of the first.

`MaxRevision`, `MaxNumber`, `MaxFence`, `MaxNow`, `MaxCrashes`, `MaxIntents`,
`MaxAuthorized`, `MaxElsewhere` and `MaxSetBacks` are the only bounds that are
not constants of the code; each use is marked `bound`, or is the size of a table.

### Fairness

* `EffectOutbox!PolledSpec`: the clock runs, and the claim and the recovery are
  taken when they stay possible. The host's loop polls, and each poll runs
  `reconcile_expired_effects` and then `claim_next`. The recovery is fair to each
  effect, while a poll of the code takes the oldest candidate
  (`agent_model_recovery.rs:93`): the older ones are settled first, and a
  candidate whose turn cannot be marked was normally superseded with it. An
  effect is *offered* when it is leased; what the facade does between the lease
  and the host is not in this module.
* `EffectOutbox!AnsweredSpec` adds that the holder of the current lease of an
  *exact* effect answers, or the effect is withdrawn. `EveryEffectIsOffered`
  needs it: with a publisher limit, hosts that hold every slot and are re-leased
  for ever do keep the others back. Nothing is assumed of the holders of
  ambiguous effects, which is what `AmbiguousSettles` is about.
* `TransitionKernel!FairSpec`: the executor's loop runs on once it is entered,
  and a process that ended is started again.
* `DownloadWorkflow!PolledSpec`: the clock runs, an overdue request is timed out
  (each poll looks), a finalisation returns, and a kernel that is down is opened.
  Nothing is assumed of hosts, claims or users: `WaitEnds` holds against a host
  that never answers. `download_waits` has no crash (`MaxCrashes` is 0), so
  `WaitEnds` is not checked across one.
* `TranscriptWorkflow!PolledSpec`: the clock runs, hosts poll, a call runs to its
  end, a scheduled wake is delivered, a kernel that is down is opened; and an
  error of the store does not repeat for ever, which is strong fairness of
  `Finalize` (each attempt ends in `Finalize` or `FinalizeFails`). Hosts may be
  silent.
* `ScheduledAgent!PolledSpec`: the clock runs and what is due is reconciled. A
  delay that a host asks for after a failure is modelled by the code's own,
  `RetryTicks`.

### Disagreements met while modelling

Five runs expect a violation. Each states what the repository's own text says,
and TLC shows what the code does instead.

| Run | The text | The code |
|---|---|---|
| `download_restart` | ADR-0009, line 155: stale and conflicting requests record a disposition | a finalisation command whose workflow moved on conflicts at each opening and stays pending; the error ends the opening (`runtime_state_open.rs:39`) |
| `download_retry_finish` | `docs/spec/baseline-podcast-features.md`, line 72: download, cancel, retry | a workflow in `retry_scheduled` can be neither accepted nor staged, so an automatic retry cannot deliver its file |
| `transcript_abandoned` | `rust/FACADE_CONTRACT.md`, line 181: an authorised request without provider evidence requires explicit resolution | the row is marked ambiguous and its effect stays pending, so the next claim hands the paid submission to a host |
| `transcript_wake` | `rust/FACADE_CONTRACT.md`, line 89: the recovery of a completion's finalisation uses a core wake | the wake looks for its record among the queued requests, which the completion has left (`runtime_core_wakes.rs:117`), and does nothing |
| `scheduled_due` | ADR-0007, line 125: one occurrence for each exact due identity | one blocked run without attempts left that was asked for again fails every reconciliation, and no task gets its run |

ADR-0009 is `docs/architecture/adr/0009-rust-activity-transition-effect-authority.md`,
ADR-0007 is `docs/architecture/adr/0007-scheduled-agent-workflow-and-artifact-ownership.md`.

The passing properties hold in the same models, next to these. For instance
`TransferringIsOwed` holds although a staged file's command may conflict: the
command is not lost, it is never disposed of. `SubmissionsAreAsked` and
`EffectsKeepAuthority` hold although an abandoned submission may still reach a
host: it is granted once, but after the workflow gave it up. `WaitingRunsStart`
is stated up to the run that obstructs reconciliation. `PendingIsCurrent`
speaks of starts and removals only, because a cancel request outlives the
workflow that issued it by design.

Three more peculiarities of the download are in the model without a run of their
own: acceptance neither compares the fence nor settles the start effect, the
transient failure of a removal authorises a start effect without a host request,
and an enclosure that returns collides with an attempt number already taken. Each
is among the hazards or in the note of one.

## 4. Only model-checked

* Liveness (`EveryEffectIsOffered`, `AmbiguousSettles`, `WaitEnds`,
  `SubmissionResolves`, `WaitingRunsStart`, `RunsDrain`): the prover does not
  reason about fairness, so these hold of the instances above.

Every other property that a passing run checks is also proved (section 5). So the
bounds of section 3 limit what is known of liveness only.

`OneLiveLease` and `PublisherBound` are stated for histories in which the clock
was never set back. With a set-back an expired lease is good again and both are
false of the code; `OutcomeUnderFence` and the life cycle do not depend on the
clock, which is the point of the fence. The clock of the workflow modules only
runs forward.

## 5. What is proved

### The outbox

`EffectOutboxProofs` proves these for every set of requests, limit, lease
duration, delay, clock history and table size. The assumptions are
`BoundsAssumption` (the numbers are naturals, a lease lasts at least a tick) and
`RequestAssumption` (publisher fetches are exact, `Recovery` is defined on the
ambiguous requests); TLC evaluates both in each run.

| Theorem | Establishes |
|---|---|
| `Invariance` | the inductive invariant `Inv` |
| `TypeCorrect` | `TypeOK` |
| `OneOutcome` | `OutcomeUnderFence` |
| `ClaimHeld` | `ClaimedIsHeld` |
| `AmbiguousOnce` | `AmbiguousLeasedOnce` |
| `SettledIsFinal` | `SettledForever` |
| `LiveLeaseUnique` | `OneLiveLease` |
| `PublishersStayBounded` | `PublisherBound` |
| `OutboxImplementsAuthority` | `ImplementsAuthority`: the refinement of `EffectAuthority` |
| `RowwiseImplementsAuthority` | the same of any system that moves the two tables row by row |

The argument. All but `PublisherBound` speak of one intent and its attempts, so
`Inv` is a type part and `RowInv(intent[i], attempt[i])` for every `i`. A row can
move in four ways, `Appended`, `Granted`, `Answered` and `Withdrawn`, or stay
(`RowStep`); a step of the outbox moves every row in one of these ways
(`OutboxStep`), and each action is shown to be such a step (`NextSteps`). That
an `OutboxStep` keeps `Inv` (`OutboxStepInv`) and maps to `EffectAuthority`
(`RowwiseImplementsAuthority`) is then proved once, for the outbox and for the
three workflows, whose transactions write the same tables. `RowInv` has to say
more than the properties:

* *Attempts exist exactly up to the fence* (`state # "none" <=> f <= fence`).
  Without it `OutcomeUnderFence` is not inductive: a claim could reuse an attempt
  that already has an outcome.
* *A claimed intent's latest attempt is leased.* Recovery finds an attempt that
  is leased, without comparing its fence with the intent's; that it is the latest
  one (`AmbiguousIsLatest`) follows from this and from the next part.
* *An ambiguous intent has at most one lease.* So the leased attempt a recovery
  meets is the only one.
* *An outcome belongs to the latest fence of a completed intent.* This makes
  `AuthorityOf` well defined: its `CHOOSE` ranges over at most one fence.

`LiveLeaseUnique` is inductive only together with `Inv`: a claim is made when no
lease of the intent is good, and time that runs forward revives none.
`PublishersStayBounded` counts leases of different intents, so it needs the
cardinality of a set: the leases that are good after a step were good before it
(`OnlyClaimsGoLive`), but for the one a claim makes (`ClaimGoesLive`), and a
claim of a publisher fetch counts those before it first. The refinement is one
lemma for each way a row moves (`AuthorizeMaps`, `ClaimMaps`, `AnswerMaps`,
`WithdrawMaps`): `RecoverAmbiguous` settles one effect and authorises another in
one step, which is why `EffectAuthority`'s step lets every effect move along its
own life cycle.

### The transition kernel

`TransitionKernelProofs` proves these for every library, page size, batch size,
number of passes, order of ids, set of failing owners and number of crashes. The
assumption is `KernelAssumption` (listings are sequences that hold an episode
once, times are naturals, sizes are positive). An episode is listed once because
`read_episodes` (`listening_store_read_episode.rs:13`) joins its tables on the
episode's and the podcast's keys.

| Theorem | Establishes |
|---|---|
| `Typed` | `TypeOK` |
| `Tiled` | `ReceiptsTile` |
| `Causal` | `CausesPrecede` |
| `Once` | `ExecutedOnce` |
| `Covered` | `OpportunityCovers` |

The argument. The inductive invariant of the first four is their conjunction,
`TypeOK /\ ReceiptsTile /\ CausesPrecede /\ ExecutedOnce`, and none but the first
is inductive alone:

* `ReceiptsTile` of the next state needs that a fresh ingress has no fact yet,
  and that the new facts take numbers no old one has: the receipts tile the
  journal, and all of it lies within `1..sequence`.
* `CausesPrecede` needs that the fact a command is traced to exists, is an
  authorisation and has the command's correlation. That is the second conjunct
  of `ExecutedOnce`, for the command stands in the queue.
* `ExecutedOnce` needs that the number of a new command is the id of no old
  command and the subject of no old receipt, hence again that everything old is
  at most `sequence`.

The tables change through `Commit` alone. So one lemma describes the rows of a
transaction (`CommitRows`), one the queue after it (`ConsumedRows`), one lemma
per part shows that a transaction with a fresh ingress and well-formed requests
keeps it (`CommitTyped`, `CommitTiles`, `CommitCauses`, `CommitExecutes`),
`PagesTyped` shows that the plan of a page is a sequence of requests, and each
action is either a `Commit` or leaves the tables alone (`NextInv`).

`Covered` rests on a second invariant, `CoverInv`, on top of the first. It says
that every correlation is in one of three situations, each of which is left only
for a later one:

* `Idle`: nothing was asked for, nothing is owed.
* `Paging`: exactly one continuation has not been accepted, the scheduled runs
  have not been asked for, and while that continuation is still pending and the
  library unchanged, exactly the episodes before its offset have been asked for,
  each once (`AskedUpTo`).
* `Complete`: every continuation was accepted, the scheduled runs have been asked
  for once, and every episode owed once.

The property alone says nothing of an opportunity that is still being planned,
which is where all the work is: that the offset of the one continuation left is
exactly how far the library has been covered. `StillCovers` shows that a
transaction that queues nothing for a correlation leaves it where it is,
`PageCovers` that planning a page moves it on, and `ExecuteCovers` that the
continuation carried out is the one that was left. A declined continuation stays
unaccepted for ever, and the opportunity stays `Paging`: its successor is a new
one. The assumption that a listing holds an episode once is needed here and
nowhere else.

### The workflows

The three workflow modules have the same plan. `Inv` is the invariant of the
outbox (`Rows!Inv`, by an instance of `EffectOutboxProofs` under the same
substitution as the workflow's `Outbox`), the types of the tables, and what ties
the tables together. Each action is shown to be an `OutboxStep`, so the outbox
part and `EffectsKeepAuthority` follow from the lemmas above without another proof
about leases and fences; the rest is about the tables of the workflow. The theorems hold
for every set of tasks or enclosures, delay, attempt limit and bound. Besides
types of the constants, their assumptions say that `None`, which stands for SQL's
`NULL`, is told from every value it stands beside.

**Scheduled agent** (`ScheduledAgentProofs`).

| Theorem | Establishes |
|---|---|
| `ScheduledInvariance` | the inductive invariant `Inv` |
| `ScheduledTypeCorrect` | `TypeOK` |
| `RunsOwed` | `RunsAreOwed` |
| `AcceptedOnce` | `AcceptedIsNotRepeated` |
| `FinishedStay` | `FinishedRunsStay` |
| `SuccessMovesSchedule` | `SuccessAdvances` |
| `ScheduledKeepsAuthority` | `EffectsKeepAuthority` |

A run and the effect of its attempt are moved by different functions, so the
invariant ties them in both directions: an open row carries the current attempt
of a run in flight (`OpenIsInFlight`), a run in flight has one such row
(`InFlightIsOpen`, `OneOpen`). A report knows only its lease; that the row of
that lease is the open one follows from `CurrentIsOpen`. `AcceptedIsHeld` is why
the pin works: the open effect of an accepted run still has the very lease the
acceptance came under, so the claim passes it over. `MadeWhenDue`, that no
attempt is made before its run is due, is what `SuccessMovesSchedule` adds to the
check of the table: it assumes nothing of the times hosts say.

**Transcript workflow** (`TranscriptWorkflowProofs`).

| Theorem | Establishes |
|---|---|
| `TranscriptInvariance` | the inductive invariant `Inv` |
| `TranscriptTypeCorrect` | `TypeOK` |
| `AttemptsAgree` | `AttemptAgrees` |
| `WaitingStayQueued` | `WaitingIsQueued` |
| `OneEffectIsOpen` | `OneOpenEffect` |
| `OnlyAskedSubmissions` | `SubmissionsAreAsked` |
| `TranscriptKeepsAuthority` | `EffectsKeepAuthority` |

`SubmissionsAreAsked` counts rows that no workflow refers to any more, those of
rows a retry replaced. It is proved by an injection: every submission in the
outbox is that of another number (`NoTwice`), no row carries a number later than
the current one, nor the current one while the provider is still to be asked
(`RowsKnown`), and a number is taken only by a generation asked for
(`NumberIsAsked`). `SubmissionIsOpen` and `AcceptedIsRecovered` say which rows a
waiting workflow can meet, so that a recovery at a new revision is a new request.
The proof also shows that a workflow comes to `retry_scheduled` only from the
publisher: the failure of a provider is final, waits for the user, or leads back
to the job the provider had accepted.

**Download workflow** (`DownloadWorkflowProofs`).

| Theorem | Establishes |
|---|---|
| `DownloadInvariance` | the inductive invariant `Inv` |
| `DownloadTypeCorrect` | `TypeOK` |
| `PendingStaysCurrent` | `PendingIsCurrent` |
| `WaitingIsOffered` | `OfferedWhileWaiting` |
| `TransfersAreOwed` | `TransferringIsOwed` |
| `EpisodeStaysInAgreement` | `EpisodeAgrees` |
| `EndedAttemptsStay` | `AttemptsEndOnce` |
| `AdoptionsAreOwed` | `AdoptionIsOwed` |
| `DownloadKeepsAuthority` | `EffectsKeepAuthority` |

Five relations make these inductive. What is waited for is the start of the
current attempt, whose row has not ended, or a removal (`RequestIsCurrent`), so a
report that is accepted ends an attempt for the first time. A request about to
be made has not been made (`RequestsAreNew`). One row of the outbox is open at
most (`OneOpen`), because each transaction closes what it finds open, and it is
the one that is waited for (`Offered`). Rows are counted (`Counted`), so the next
number finds room. The file of a download that succeeded is that of its last
attempt (`ArtifactIsKnown`). Each transaction starts an attempt (`StartKeeps`),
leaves nothing waited for (`RestKeeps`) or waits for something else
(`MovedKeeps`), and one lemma serves all that have its form.

Three facts about the code came out of the proof. The repair of a finished
download whose file is gone changes no attempt row: the file it names is that of
the last attempt, which `succeeded` already. The confirmation of a cancel request
never finds a workflow that waits, because only one effect is open and it is the
cancellation's. And the start effect that the transient failure of a removal
authorises is one of an attempt without a row, which is why no lemma may assume
that a start effect has one.

### The bounds

The theorems hold of the bounds as well: a bound is a constant and a guard, so
what is proved for every bound is proved of every finite history of the code.

## 6. What is left out

In the modelled components:

* *Outbox.* The streaming lease of `ObservePlayback`, core wakes deferred by the
  command-line host, rows of the removed kind 14. `RecoverAmbiguous` is the
  recovery of agent model calls and agent capabilities; the recovery of
  transcript submissions is in `TranscriptWorkflow`, that of model chapter runs
  belongs to a workflow without a module.
* *Transition kernel.* Other ingresses than application and internal commands
  (host observations go through the same transaction), the facts that authorise
  effects, what the owners of commands do beyond their answer, aggregate
  sequence numbers, the refusal of an identity reused under another fingerprint
  (it changes nothing), cancellation of queued commands.
* *Workflows: one episode.* Workflows of different episodes share the outbox and
  its queue, which `EffectOutbox` has with several effects. They also share the
  transcript queue, of which only the first request is prepared, and the page of
  200 requests whose deadlines are looked at; both are hazards no property
  covers.
* *Download.* The admission policy and the environment row are an arbitrary
  answer, so every policy is covered. A finalisation succeeds, finds the file
  invalid, or fails; whether a finished file is still there at opening is the
  choice `intact`. The stage `staged` is written by the legacy cutover only; the
  cutover and discard are not modelled.
* *Transcript.* The contents of artifacts and evidence, the choice of provider
  and its capabilities, wakes for a retry or a provider's recovery (they queue
  what is queued already), the legacy cutover. A failure is one of six reasons,
  those the classification tells apart.
* *Scheduled agent.* Prompts, generated artifacts and the conversation a run
  writes, sequence numbers of reports, runs imported as pending, and
  `mark_scheduled_agent_ambiguous_after_restart`, which nothing calls.
* *Sequence numbers, resume keys, progress, byte counts.* No guard that the
  properties depend on reads them, other than the order of one host's reports.
* *Dispositions.* In the workflow modules a command that changes nothing is no
  step; that its disposition is recorded once is the transition kernel's.

Components without a model: chapter workflows, agent turns, playback, feeds, the
recall index, user artifacts, migrations and erasure (section 7). Hosts are the
environment: what they do is a lease held and a report delivered, late or never.
Projections, the Swift application and the generated bindings keep no state that
decides anything.

## 7. Plan

Next modules, in this order; each workflow keeps the outbox as its instance.

1. `ChapterWorkflow`: publisher and model chapters for one episode, stale
   results against newer ones. Abstract: chapters of a later source revision are
   never replaced by those of an earlier one.
2. `AgentTurn`: capability calls and their approvals, the turn that waits for
   both. Abstract: an action that needs approval is authorised only with it.
3. `ListeningPolicy`: playback, its stream and the streaming lease.
4. The shared queue of several episodes' transcripts.
5. Migrations and erasure: journals that a crash interrupts.

Every safety property of the five modules is proved. A new workflow keeps its
outbox as an instance, shows its transactions to be `OutboxStep`s, and has
`EffectsKeepAuthority` from `RowwiseImplementsAuthority`; what remains is the
relation between its tables and the open rows.

Proofs still worth doing are of properties not yet stated: that the relations of
the workflows hold for all episodes of a library at once, with one outbox and one
queue, and that the queue of internal commands is worked off in its order.
