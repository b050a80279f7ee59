-------------------------- MODULE DownloadWorkflow --------------------------
(***************************************************************************)
(* The download of one episode: the workflow row, its attempts, the host   *)
(* requests it issues, the finalisation commands it owes itself, and the   *)
(* effects that carry its requests to the host.  The effects are rows of   *)
(* EffectOutbox; every transaction here moves the workflow and the outbox  *)
(* together, as the code does.                                             *)
(*                                                                         *)
(* A transaction that meets a failing constraint, or one of the code's own *)
(* conflict checks, rolls back and is no step.  A request the kernel finds *)
(* nothing to do for (a repeated ensure, a rejected cancel) only writes    *)
(* its disposition, which this module does not keep.                       *)
(***************************************************************************)
EXTENDS Naturals, FiniteSets

CONSTANTS
    Versions,       \* enclosures the episode's feed may offer, one intent each
    None,
    LeaseTicks,     \* the duration of a lease
    DeadlineTicks,  \* DOWNLOAD_HOST_REQUEST_DEADLINE_MILLISECONDS
    RetryTicks,     \* DOWNLOAD_RETRY_DELAY_MILLISECONDS
    MaxRevision,    \* bound: revision from which no command or failure is taken
    MaxFence,       \* bound: leases of one effect
    MaxNow,         \* bound: the latest time
    MaxCrashes      \* bound: crashes of the kernel

ASSUME DownloadAssumption ==
    /\ None \notin Versions
    /\ LeaseTicks \in Nat \ {0} /\ DeadlineTicks \in Nat /\ RetryTicks \in Nat
    /\ MaxRevision \in Nat /\ MaxFence \in Nat /\ MaxNow \in Nat /\ MaxCrashes \in Nat

(* An attempt is known by its intent, which the version determines, and    *)
(* its number; a request by what it was derived from.  The artifact of an  *)
(* attempt is known by the attempt.                                        *)
AttemptIds == Versions \X (1 .. MaxRevision + MaxNow)
Start(a)          == [kind |-> "start", attempt |-> a, revision |-> 0]
CancelOf(a, rev)  == [kind |-> "cancel", attempt |-> a, revision |-> rev]
RemoveOf(a, rev)  == [kind |-> "remove", attempt |-> a, revision |-> rev]
Requests == {Start(a) : a \in AttemptIds}
    \cup {CancelOf(a, rev) : a \in AttemptIds, rev \in 0 .. MaxRevision}
    \cup {RemoveOf(a, rev) : a \in AttemptIds, rev \in 0 .. MaxRevision}

(* None is told from every request and every attempt, the first one out of *)
(* bounds included.                                                        *)
ASSUME NoneAssumption ==
    /\ None \notin Requests /\ None \notin AttemptIds
    /\ \A v \in Versions : None # Start(<<v, MaxRevision + MaxNow + 1>>)

VARIABLES
    now, setBacks, intent, attempt,   \* the outbox
    workflow,         \* pod0_download_workflows, the row of the episode
    downloadAttempt,  \* pod0_download_attempts: a state for every row there is
    hostRequest,      \* pod0_download_host_requests: state and deadline
    finalizations,    \* requests with a pending FinalizeDownloadArtifact command
    episodeArtifact,  \* the download_ref of pod0_episodes
    mode, finalizing, \* the kernel process, and the command it is executing
    crashes

outbox == <<intent, attempt>>
tables == <<workflow, downloadAttempt, hostRequest, finalizations, episodeArtifact>>
process == <<mode, finalizing, crashes>>
vars == <<now, setBacks, outbox, tables, process>>

Outbox == INSTANCE EffectOutbox WITH
    Exact <- Requests, Publishers <- {}, PublisherLimit <- 0, NoRequest <- None,
    Recovery <- [r \in {} |-> None], Delays <- {0, RetryTicks},
    MaxAuthorized <- MaxRevision + MaxNow, MaxIntents <- MaxRevision + MaxNow,
    MaxSetBacks <- 0
IntentIds == Outbox!IntentIds
Fences    == Outbox!Fences

Active == {"requested", "host_accepted", "transferring", "staged",
           "retry_scheduled", "removing"}
Stages == Active \cup {"waiting", "cancelled", "failed", "succeeded"}
WorkflowRow == [stage : Stages \cup {"none"}, version : Versions \cup {None},
                desired : {"present", "absent"}, revision : Nat, number : Nat,
                request : Requests \cup {None}, artifact : AttemptIds \cup {None},
                notBefore : BOOLEAN, failed : BOOLEAN]
NoWorkflow == [stage |-> "none", version |-> None, desired |-> "absent",
               revision |-> 0, number |-> 0, request |-> None, artifact |-> None,
               notBefore |-> FALSE, failed |-> FALSE]
Empty == [r \in {} |-> None]

TypeOK ==
    /\ Outbox!TypeOK
    /\ workflow \in WorkflowRow
    /\ DOMAIN downloadAttempt \subseteq AttemptIds
    /\ \A a \in DOMAIN downloadAttempt : downloadAttempt[a] \in
          {"requested", "host_accepted", "transferring", "cancelled", "failed", "succeeded"}
    /\ DOMAIN hostRequest \subseteq Requests
    /\ \A r \in DOMAIN hostRequest : hostRequest[r] \in
          [state : {"pending", "completed", "retired"}, deadline : Nat \cup {None}]
    /\ finalizations \subseteq DOMAIN hostRequest
    /\ episodeArtifact \in AttemptIds \cup {None}
    /\ mode \in {"up", "down"} /\ crashes \in 0 .. MaxCrashes
    /\ finalizing \in finalizations \cup {None}
    /\ finalizing # None => mode = "up"

Init == /\ Outbox!Init
        /\ workflow = NoWorkflow
        /\ downloadAttempt = Empty /\ hostRequest = Empty
        /\ finalizations = {} /\ episodeArtifact = None
        /\ mode = "up" /\ finalizing = None /\ crashes = 0

-----------------------------------------------------------------------------
Ready == mode = "up" /\ finalizing = None
Room  == workflow.revision < MaxRevision                       \* bound
IsPending(r) == r \in DOMAIN hostRequest /\ hostRequest[r].state = "pending"

(* The CHECK constraints of the workflow table. *)
Checked(w) ==
    /\ w.stage \in Active <=> w.request # None
    /\ w.stage = "retry_scheduled" <=> w.notBefore
    /\ w.stage \in {"succeeded", "removing"} => w.artifact # None
    /\ w.artifact # None => w.stage \in {"succeeded", "removing", "failed"}
    /\ w.failed => w.stage \in {"waiting", "retry_scheduled", "failed"}

Save(w) == Checked(w) /\ workflow' = [w EXCEPT !.revision = @ + 1]

CancelledWorkflow == [workflow EXCEPT !.desired = "absent", !.stage = "cancelled",
                          !.request = None, !.notBefore = FALSE, !.failed = FALSE]
FailedWorkflow == [workflow EXCEPT !.stage = "failed", !.request = None,
                                   !.notBefore = FALSE, !.failed = TRUE]

(* retire_request, complete_request and insert_attempt_and_start_request. *)
\* Faulty form: the request the workflow waited for stays pending.
Retired_Never == hostRequest

Retired == [r \in DOMAIN hostRequest |->
               IF r = workflow.request /\ IsPending(r)
               THEN [hostRequest[r] EXCEPT !.state = "retired"] ELSE hostRequest[r]]

Completed(r) == [hostRequest EXCEPT ![r].state = "completed"]

Pending(deadline) == [state |-> "pending", deadline |-> deadline]

(* INSERT: a key that is taken fails the transaction.                      *)
Fresh(key, rows) == key \notin DOMAIN rows
With(rows, key, row) == [k \in DOMAIN rows \cup {key} |-> IF k = key THEN row ELSE rows[k]]

InsertAttempt(rows, attempts, a, deadline) ==
    /\ Fresh(a, attempts) /\ Fresh(Start(a), rows)
    /\ downloadAttempt' = With(attempts, a, "requested")
    /\ hostRequest' = With(rows, Start(a), Pending(deadline))

(* The outbox side of a transaction: what it retires or settles, and the   *)
(* effect it authorises, if any.                                           *)
Append(rows, request, due) ==
    IF request = None THEN intent' = rows
    ELSE \E j \in IntentIds :
            /\ Outbox!NextId(j)
            /\ intent' = [rows EXCEPT ![j] = Outbox!NewIntent(request, due)]

\* Faulty form: the effects of the former request stay open.
ReplaceEffects_KeepOld(request, due) == Append(intent, request, due) /\ UNCHANGED attempt

ReplaceEffects(request, due) ==
    /\ Append([i \in IntentIds |-> IF Outbox!Open(i) THEN [intent[i] EXCEPT !.state = "completed"]
                                   ELSE intent[i]], request, due)
    /\ attempt' = [i \in IntentIds |-> IF Outbox!Open(i) THEN Outbox!ClosedAttempts(i, "done")
                                       ELSE attempt[i]]

\* Faulty form: the observation closes its attempt and leaves the effect claimed.
SettleEffect_AttemptOnly(i, f, request, due) ==
    /\ Append(intent, request, due)
    /\ attempt' = [attempt EXCEPT ![i] = Outbox!Answer(@, f, "observed")]

SettleEffect(i, f, request, due) ==
    /\ Append([intent EXCEPT ![i].state = "completed"], request, due)
    /\ attempt' = [attempt EXCEPT ![i] = Outbox!Answer(@, f, "observed")]

-----------------------------------------------------------------------------
(* Commands. *)

Noop(v, admitted) ==
    /\ workflow.version = v
    /\ \/ workflow.stage \in Active \cup {"succeeded"}
       \/ ~admitted /\ workflow.stage = "waiting"

NextNumber(v) == IF workflow.version = v THEN workflow.number + 1 ELSE 1

(* A playback, a user or the automatic policy asks for the episode; the    *)
(* environment admits the download now or lets it wait.                    *)
Ensure(v, admitted) ==
    LET number == IF admitted THEN NextNumber(v)
                  ELSE IF workflow.version = v THEN workflow.number ELSE 0
        start  == IF admitted THEN Start(<<v, number>>) ELSE None
    IN /\ Ready /\ Room
       /\ ~ Noop(v, admitted)
       /\ Save([stage |-> IF admitted THEN "requested" ELSE "waiting",
                version |-> v, desired |-> "present",
                revision |-> workflow.revision, number |-> number, request |-> start,
                artifact |-> None, notBefore |-> FALSE, failed |-> ~admitted])
       /\ IF admitted
          THEN InsertAttempt(Retired, downloadAttempt, <<v, number>>, now + DeadlineTicks)
          ELSE hostRequest' = Retired /\ UNCHANGED downloadAttempt
       /\ ReplaceEffects(start, now)
       /\ UNCHANGED <<now, setBacks, finalizations, episodeArtifact, process>>

Cancel ==
    LET cancel == IF workflow.number = 0 THEN None
                  ELSE CancelOf(<<workflow.version, workflow.number>>, workflow.revision)
    IN /\ Ready /\ Room
       /\ workflow.stage \notin {"none", "succeeded", "removing"}
       /\ Save(CancelledWorkflow)
       /\ Fresh(cancel, hostRequest)
       /\ hostRequest' = IF cancel = None THEN Retired ELSE With(Retired, cancel, Pending(None))
       /\ ReplaceEffects(cancel, now)
       /\ UNCHANGED <<now, setBacks, downloadAttempt, finalizations, episodeArtifact, process>>

Remove ==
    LET remove == RemoveOf(workflow.artifact, workflow.revision)
    IN /\ Ready /\ Room
       /\ workflow.stage \in {"succeeded", "failed"}
       /\ workflow.artifact # None
       /\ Save([workflow EXCEPT !.desired = "absent", !.stage = "removing", !.request = remove,
                                !.notBefore = FALSE, !.failed = FALSE])
       /\ Fresh(remove, hostRequest)
       /\ hostRequest' = With(hostRequest, remove, Pending(now + DeadlineTicks))
       /\ ReplaceEffects(remove, now)
       /\ UNCHANGED <<now, setBacks, downloadAttempt, finalizations, episodeArtifact, process>>

(* The reconciliation of a waiting download with a new environment. *)
AdmitWaiting ==
    LET a == <<workflow.version, workflow.number + 1>>
    IN /\ Ready /\ Room
       /\ workflow.stage = "waiting"
       /\ Save([workflow EXCEPT !.stage = "requested", !.number = @ + 1, !.request = Start(a),
                                !.notBefore = FALSE, !.failed = FALSE])
       /\ InsertAttempt(hostRequest, downloadAttempt, a, now + DeadlineTicks)
       /\ ReplaceEffects(Start(a), now)
       /\ UNCHANGED <<now, setBacks, finalizations, episodeArtifact, process>>

RetireObsolete ==
    /\ Ready /\ Room
    /\ workflow.stage = "waiting"
    /\ Save(CancelledWorkflow)
    /\ ReplaceEffects(None, now)
    /\ UNCHANGED <<now, setBacks, downloadAttempt, hostRequest, finalizations,
                   episodeArtifact, process>>

-----------------------------------------------------------------------------
(* apply_download_failure, for a timeout and for a host's report.  Every   *)
(* caller insists that the revision advances, so the request must be the   *)
(* one the workflow waits for.                                             *)

NextAttempt == <<workflow.version, workflow.number + 1>>

FailedAttempts(r) ==
    [a \in DOMAIN downloadAttempt |->
        IF r.kind # "remove" /\ a = r.attempt /\ downloadAttempt[a] # "succeeded"
        THEN "failed" ELSE downloadAttempt[a]]

Failure(r, retryable) ==
    /\ workflow.request = r
    /\ IF r.kind = "start" /\ retryable
       THEN /\ InsertAttempt(Completed(r), FailedAttempts(r), NextAttempt,
                             now + RetryTicks + DeadlineTicks)
            /\ Save([workflow EXCEPT !.stage = "retry_scheduled", !.number = @ + 1,
                         !.request = Start(NextAttempt), !.notBefore = TRUE, !.failed = TRUE])
       ELSE /\ hostRequest' = Completed(r) /\ downloadAttempt' = FailedAttempts(r)
            /\ Save(FailedWorkflow)
    /\ UNCHANGED <<now, setBacks, finalizations, episodeArtifact, process>>

\* Faulty form: only a start request is ever timed out.
Overdue_StartOnly(r) == /\ IsPending(r) /\ r.kind = "start"
                        /\ hostRequest[r].deadline <= now

Overdue(r) == /\ IsPending(r) /\ hostRequest[r].deadline # None
              /\ hostRequest[r].deadline <= now

Timeout(r) ==
    /\ Ready
    /\ Overdue(r)
    /\ Failure(r, r.kind = "start")
    /\ ReplaceEffects(IF r.kind = "start" THEN Start(NextAttempt) ELSE None, now + RetryTicks)

-----------------------------------------------------------------------------
(* The host: it leases the effect, and reports under its lease.            *)

Claim == /\ Ready
         /\ Outbox!ClaimNext
         /\ UNCHANGED <<tables, process>>

Held(i, f) == /\ Ready /\ Outbox!Leased(i, f)
              /\ intent[i].state = "claimed"
              /\ IsPending(intent[i].request)

(* Acceptance is the one report that leaves the effect open; its fence is  *)
(* not compared with the effect's.                                         *)
Accept(i, f) ==
    LET r == intent[i].request IN
    /\ Held(i, f) /\ Room
    /\ r.kind = "start" /\ workflow.request = r
    /\ Save([workflow EXCEPT !.stage = "host_accepted"])
    /\ downloadAttempt' = [downloadAttempt EXCEPT ![r.attempt] =
                              IF @ \in {"requested", "host_accepted"} THEN "host_accepted" ELSE @]
    /\ UNCHANGED <<now, setBacks, outbox, hostRequest, finalizations, episodeArtifact, process>>

Terminal(i, f) == Held(i, f) /\ Outbox!CurrentFence(i, f)

Fail(i, f, retryable) ==
    /\ Terminal(i, f) /\ Room
    /\ Failure(intent[i].request, retryable)
    /\ SettleEffect(i, f, IF retryable THEN Start(NextAttempt) ELSE None, now + RetryTicks)

\* Faulty form: the answer to a cancellation overrides how the attempt ended.
CancelledAttempts_Any(a) == [downloadAttempt EXCEPT ![a] = "cancelled"]

CancelledAttempts(a) ==
    [downloadAttempt EXCEPT ![a] = IF @ \in {"succeeded", "failed"} THEN @ ELSE "cancelled"]

ConfirmCancelled(i, f) ==
    LET r == intent[i].request IN
    /\ Terminal(i, f)
    /\ r.kind \in {"start", "cancel"}
    /\ hostRequest' = Completed(r)
    /\ downloadAttempt' = CancelledAttempts(r.attempt)
    /\ IF workflow.request = r
       THEN Save(CancelledWorkflow)
       ELSE UNCHANGED workflow
    /\ SettleEffect(i, f, None, now)
    /\ UNCHANGED <<now, setBacks, finalizations, episodeArtifact, process>>

ConfirmRemoved(i, f) ==
    LET r == intent[i].request IN
    /\ Terminal(i, f)
    /\ r.kind = "remove" /\ workflow.request = r
    /\ workflow.stage = "removing"
    /\ hostRequest' = Completed(r)
    /\ episodeArtifact' = None
    /\ Save([workflow EXCEPT !.stage = "cancelled", !.request = None, !.artifact = None,
                             !.failed = FALSE])
    /\ SettleEffect(i, f, None, now)
    /\ UNCHANGED <<now, setBacks, downloadAttempt, finalizations, process>>

(* The staged file is not adopted here: the transaction authorises a       *)
(* command to do so, which the same call goes on to execute.               *)
Stageable(r) == /\ r.kind = "start" /\ workflow.request = r
                /\ downloadAttempt[r.attempt] \in {"requested", "host_accepted", "transferring"}
                /\ workflow.stage \in {"requested", "host_accepted", "transferring"}

Stage(i, f) ==
    LET r == intent[i].request IN
    /\ Terminal(i, f)
    /\ Stageable(r)
    /\ hostRequest' = Completed(r)
    /\ downloadAttempt' = [downloadAttempt EXCEPT ![r.attempt] = "transferring"]
    /\ Save([workflow EXCEPT !.stage = "transferring"])
    /\ finalizations' = finalizations \cup {r}
    /\ finalizing' = r
    /\ SettleEffect(i, f, None, now)
    /\ UNCHANGED <<now, setBacks, episodeArtifact, mode, crashes>>

-----------------------------------------------------------------------------
(* The finalisation copies, verifies and installs the staged file, then    *)
(* commits what it found together with the disposition of its command.     *)

Executing(r) == r \in finalizations /\ (finalizing = r \/ mode = "down")

\* Faulty form: the command does not check whose transfer it completes.
Finalizable_AnyTransfer(r) == workflow.stage = "transferring"

Finalizable(r) == workflow.request = r /\ workflow.stage = "transferring"

\* Faulty form: the workflow succeeds and the episode never learns of its file.
Adopt_WorkflowOnly(a) == UNCHANGED episodeArtifact

Adopt(a) == episodeArtifact' = a

FinalizeSucceeds(r) ==
    LET a == <<workflow.version, workflow.number>> IN
    /\ Executing(r) /\ Finalizable(r)
    /\ downloadAttempt[a] = "transferring"
    /\ downloadAttempt' = [downloadAttempt EXCEPT ![a] = "succeeded"]
    /\ Adopt(a)
    /\ Save([workflow EXCEPT !.stage = "succeeded", !.request = None, !.artifact = a,
                             !.notBefore = FALSE, !.failed = FALSE])
    /\ finalizations' = finalizations \ {r}
    /\ finalizing' = None
    /\ UNCHANGED <<now, setBacks, outbox, hostRequest, mode, crashes>>

FinalizeInvalid(r) ==
    LET a == <<workflow.version, workflow.number>> IN
    /\ Executing(r) /\ Finalizable(r)
    /\ downloadAttempt' = [downloadAttempt EXCEPT ![a] =
                              IF @ = "transferring" THEN "failed" ELSE @]
    /\ Save(FailedWorkflow)
    /\ finalizations' = finalizations \ {r}
    /\ finalizing' = None
    /\ UNCHANGED <<now, setBacks, outbox, hostRequest, episodeArtifact, mode, crashes>>

\* Faulty form: a failed execution drops its command.
PendingAfterError_Dropped == finalizations \ {finalizing}

PendingAfterError == finalizations

(* Any other error of the file system: the command stays pending. *)
FinalizeFails ==
    /\ finalizing # None
    /\ finalizing' = None
    /\ finalizations' = PendingAfterError
    /\ UNCHANGED <<now, setBacks, outbox, workflow, downloadAttempt, hostRequest,
                   episodeArtifact, mode, crashes>>

Crash == /\ mode = "up"
         /\ crashes < MaxCrashes                                \* bound
         /\ mode' = "down" /\ finalizing' = None /\ crashes' = crashes + 1
         /\ UNCHANGED <<now, setBacks, outbox, tables>>

(* Opening executes every pending command (Executing holds while down),    *)
(* then repairs a download whose file is gone; an error of either ends it. *)
Openable == mode = "down" /\ finalizations = {}

RepairedAttempts ==
    LET a == <<workflow.version, workflow.number>>
    IN [downloadAttempt EXCEPT ![a] = IF @ = "succeeded" THEN @ ELSE "failed"]

Open(intact) ==
    /\ Openable
    /\ mode' = "up"
    /\ IF workflow.stage = "succeeded" /\ ~intact
       THEN /\ episodeArtifact' = None
            /\ downloadAttempt' = RepairedAttempts
            /\ Save([FailedWorkflow EXCEPT !.artifact = None])
       ELSE UNCHANGED <<workflow, downloadAttempt, episodeArtifact>>
    /\ UNCHANGED <<now, setBacks, outbox, hostRequest, finalizations, finalizing, crashes>>

Tick == Outbox!Tick /\ UNCHANGED <<tables, process>>

Next == \/ \E v \in Versions, admitted \in BOOLEAN : Ensure(v, admitted)
        \/ Cancel
        \/ Remove
        \/ AdmitWaiting
        \/ RetireObsolete
        \/ \E r \in DOMAIN hostRequest : Timeout(r)
        \/ Claim
        \/ \E i \in IntentIds, f \in Fences : Accept(i, f)
        \/ \E i \in IntentIds, f \in Fences, retryable \in BOOLEAN : Fail(i, f, retryable)
        \/ \E i \in IntentIds, f \in Fences : ConfirmCancelled(i, f)
        \/ \E i \in IntentIds, f \in Fences : ConfirmRemoved(i, f)
        \/ \E i \in IntentIds, f \in Fences : Stage(i, f)
        \/ \E r \in finalizations : FinalizeSucceeds(r)
        \/ \E r \in finalizations : FinalizeInvalid(r)
        \/ FinalizeFails
        \/ Crash
        \/ \E intact \in BOOLEAN : Open(intact)
        \/ Tick

Spec == Init /\ [][Next]_vars

(* The kernel's own steps: it returns from a finalisation, looks at its    *)
(* deadlines whenever the host polls, and is opened again after a crash.   *)
PolledSpec == /\ Spec
              /\ WF_vars(Tick)
              /\ WF_vars(\E r \in DOMAIN hostRequest : Timeout(r))
              /\ WF_vars(FinalizeFails)
              /\ WF_vars(\E r \in finalizations : mode = "down" /\ FinalizeSucceeds(r))
              /\ WF_vars(\E intact \in BOOLEAN : Open(intact))

-----------------------------------------------------------------------------
(* A start or removal is pending exactly while the workflow waits for it:  *)
(* no host answers a request the workflow has dropped, and no workflow     *)
(* waits for an answer that would be refused.                              *)
PendingIsCurrent == \A r \in DOMAIN hostRequest :
    r.kind # "cancel" =>
        (IsPending(r) <=> workflow.request = r /\ workflow.stage # "transferring")

(* At most one download effect of the episode is open, and a workflow that *)
(* waits for the host has its request in that effect.  The two are kept    *)
(* together by code in different tables and different functions.           *)
OfferedWhileWaiting ==
    LET open == {i \in IntentIds : Outbox!Open(i)} IN
    /\ Cardinality(open) <= 1
    /\ workflow.stage \in Active \ {"transferring"} =>
          \E i \in open : intent[i].request = workflow.request

(* A transfer has no deadline: what ends it is its finalisation command,   *)
(* which therefore is never lost, neither by an error nor by a crash.      *)
TransferringIsOwed == workflow.stage = "transferring" => workflow.request \in finalizations

(* The episode refers to the file of an attempt that succeeded, and to     *)
(* that of its workflow when the workflow has one.                         *)
EpisodeAgrees ==
    /\ workflow.artifact # None => episodeArtifact = workflow.artifact
    /\ episodeArtifact # None => downloadAttempt[episodeArtifact] = "succeeded"

(* However late and in whatever order hosts answer, an attempt that has    *)
(* ended stays as it ended.                                                *)
AttemptsEndOnce == [][\A a \in DOMAIN downloadAttempt :
    downloadAttempt[a] \in {"succeeded", "failed", "cancelled"} =>
        downloadAttempt'[a] = downloadAttempt[a]]_vars

(* An episode adopts a file only while the download is wanted, and by      *)
(* consuming the one command that the staging of that file authorised.     *)
AdoptionIsOwed == [][episodeArtifact' \notin {None, episodeArtifact} =>
    /\ workflow.desired = "present"
    /\ Start(episodeArtifact') \in finalizations \ finalizations']_vars

(* The workflow's transactions, which retire, settle and authorise effects *)
(* together, keep every effect within the life cycle it is promised.       *)
EffectsKeepAuthority == Outbox!ImplementsAuthority

Awaiting(n) == /\ workflow.number = n
               /\ workflow.stage \in {"requested", "host_accepted", "retry_scheduled", "removing"}
               /\ hostRequest[workflow.request].deadline <= MaxNow

(* The workflow does not wait for a silent host for ever: in the end it    *)
(* stops waiting for the attempt, whoever answers.                         *)
WaitEnds == \A n \in 1 .. MaxRevision + MaxNow : Awaiting(n) ~> ~ Awaiting(n)

-----------------------------------------------------------------------------
(* What the architecture decision record and the feature list say of a     *)
(* download.  The code does otherwise.                                     *)

(* ADR-0009: a stale internal command records a disposition.  After a      *)
(* restart no finalisation command stays pending.                          *)
RestartDisposesCommands == (mode = "down" /\ finalizations # {}) ~> (finalizations = {})

(* The feature list: download, cancel, retry.  A host that holds the good  *)
(* lease of the start the workflow waits for can deliver the file.         *)
LeasedStartCanFinish == \A i \in IntentIds, f \in Fences :
    LET r == intent[i].request IN
    Terminal(i, f) /\ r.kind = "start" /\ workflow.request = r => Stageable(r)
=============================================================================
