--------------------------- MODULE ScheduledAgent ---------------------------
(***************************************************************************)
(* Recurring agent tasks: the schedule of each task, the run (occurrence)  *)
(* of each instant at which it fell due, the effect each attempt of a run  *)
(* authorises, and the reports of the hosts that lease it.  Nothing is     *)
(* kept in memory, so every action is one transaction and a crash is only  *)
(* the step that does not happen.                                          *)
(*                                                                         *)
(* A run is paid for when a host carries it out.  A host first reports     *)
(* that the provider accepted it; from then on the claim query holds the   *)
(* effect back (Pinned) although its lease expires.  A report is judged by *)
(* the time the host says it observed it at, which nobody compares with    *)
(* the clock.                                                              *)
(*                                                                         *)
(* Left out: prompts, artifacts and the last run time, which no guard      *)
(* reads; the attempt rows, of which only the time they were made is       *)
(* compared; the sequence numbers of reports, a refusal by which is a      *)
(* report that does not happen; runs imported as pending.                  *)
(***************************************************************************)
EXTENDS Naturals, FiniteSets, Functions

CONSTANTS
    None,
    Tasks,
    LeaseTicks,    \* the duration of a lease
    IntervalTicks, \* interval_milliseconds of every task
    RetryTicks,    \* SCHEDULED_AGENT_RETRY_DELAY_MILLISECONDS
    MaxAttempts,   \* MAX_SCHEDULED_AGENT_ATTEMPTS
    MaxRevision,   \* bound: task revision from which no edit is made
    MaxIntents,    \* bound: rows of the intent table
    MaxFence,      \* bound: leases of one effect
    MaxNow         \* bound: the latest time

ASSUME ScheduledAssumption ==
    /\ IsFiniteSet(Tasks)
    /\ LeaseTicks \in Nat \ {0} /\ IntervalTicks \in Nat \ {0} /\ RetryTicks \in Nat
    /\ MaxAttempts \in Nat \ {0} /\ MaxRevision \in Nat
    /\ MaxIntents \in Nat /\ MaxFence \in Nat /\ MaxNow \in Nat

(* A run is known by its task and the instant it was scheduled for, the    *)
(* effect of an attempt by the run and the number of the attempt.          *)
Times    == 0 .. MaxNow
Runs     == Tasks \X Times
Requests == [run : Runs, number : 1 .. MaxAttempts]

ASSUME NoneAssumption == None \notin Requests /\ None \notin Nat

VARIABLES
    now, setBacks, intent, attempt,  \* the outbox
    accepted,                        \* leases with an observed_at_ms
    task,                            \* pod0_scheduled_tasks
    run                              \* pod0_scheduled_occurrences

outbox == <<now, setBacks, intent, attempt>>
vars   == <<outbox, accepted, task, run>>

Outbox == INSTANCE EffectOutbox WITH
    Exact <- Requests, Publishers <- {}, PublisherLimit <- 0, NoRequest <- None,
    Recovery <- [r \in {} |-> None], Delays <- {0}, MaxAuthorized <- MaxIntents, MaxSetBacks <- 0
IntentIds == Outbox!IntentIds
Fences    == Outbox!Fences
Leases    == IntentIds \X Fences

InFlight == {"requested", "host_accepted"}
Finished == {"succeeded", "cancelled", "obsolete", "failed_permanent"}
Stages   == InFlight \cup Finished \cup {"retry_scheduled", "blocked"}

NoTask == [state |-> "none", revision |-> 0, nextRun |-> 0]
NoRun  == [stage |-> "none", number |-> 0, notBefore |-> None]

TypeOK ==
    /\ Outbox!TypeOK
    /\ accepted \subseteq Leases
    /\ task \in [Tasks -> [state : {"none", "active", "removed"}, revision : Nat, nextRun : Nat]]
    /\ run \in [Runs -> [stage : Stages \cup {"none"}, number : 0 .. MaxAttempts,
                         notBefore : Nat \cup {None}]]
    /\ \A r \in Runs : /\ run[r].stage = "none" <=> run[r].number = 0
                       /\ run[r].stage = "retry_scheduled" => run[r].notBefore # None
                       /\ run[r].stage \in InFlight \cup {"blocked"} => run[r].notBefore = None

Init == /\ Outbox!Init
        /\ accepted = {}
        /\ task = [t \in Tasks |-> NoTask]
        /\ run = [r \in Runs |-> NoRun]

-----------------------------------------------------------------------------
RunOf(i) == intent[i].request.run
OpenOf(rs) == {i \in IntentIds : Outbox!Open(i) /\ RunOf(i) \in rs}

Moved(r, stage) == [r EXCEPT !.stage = stage]

(* supersede_effects *)
Withdraw(rs) ==
    LET mine == OpenOf(rs) IN
    /\ intent' = [i \in IntentIds |-> IF i \in mine THEN [intent[i] EXCEPT !.state = "superseded"]
                                      ELSE intent[i]]
    /\ attempt' = [i \in IntentIds |-> IF i \in mine THEN Outbox!ClosedAttempts(i, "superseded")
                                       ELSE attempt[i]]

-----------------------------------------------------------------------------
(* Commands about tasks.  One with a stale expected revision is refused.   *)

EnsureTask(t) == \E due \in Times :
    /\ task[t].state = "none"
    /\ task' = [task EXCEPT ![t] = [state |-> "active", revision |-> 1, nextRun |-> due]]
    /\ UNCHANGED <<outbox, accepted, run>>

(* The runs of the old schedule stay as they are.                          *)
UpdateTask(t) == \E due \in Times :
    /\ task[t].state = "active"
    /\ task[t].revision < MaxRevision                           \* bound
    /\ task' = [task EXCEPT ![t].revision = @ + 1, ![t].nextRun = due]
    /\ UNCHANGED <<outbox, accepted, run>>

\* Faulty form: the runs of a removed task keep their effects.
RemoveTask_EffectsStay(t) ==
    /\ task[t].state = "active"
    /\ task' = [task EXCEPT ![t].state = "removed", ![t].revision = @ + 1]
    /\ run' = [r \in Runs |-> IF r[1] = t /\ run[r].stage \notin Finished \cup {"none"}
                              THEN Moved(run[r], "obsolete") ELSE run[r]]
    /\ UNCHANGED <<outbox, accepted>>

RemoveTask(t) ==
    LET live == {r \in Runs : r[1] = t /\ run[r].stage \notin Finished \cup {"none"}} IN
    /\ task[t].state = "active"
    /\ task' = [task EXCEPT ![t].state = "removed", ![t].revision = @ + 1]
    /\ run' = [r \in Runs |-> IF r \in live THEN Moved(run[r], "obsolete") ELSE run[r]]
    /\ Withdraw({r \in Runs : r[1] = t})
    /\ UNCHANGED <<now, setBacks, accepted>>

-----------------------------------------------------------------------------
(* Reconciliation: by a command of the host, or by the internal command    *)
(* that a reconciliation of all workflows authorises.                      *)

Due(t) == task[t].state = "active" /\ task[t].nextRun <= now

NewRuns == {r \in Runs : Due(r[1]) /\ task[r[1]].nextRun = r[2] /\ run[r].stage = "none"}

\* Faulty form: a run that waits is not looked for again.
Waiting_Never == {}

(* retry_candidates *)
Waiting == {r \in Runs : run[r].stage = "retry_scheduled" /\ run[r].notBefore <= now}

\* Faulty form: the time a run waited for outlives its wait.
Begun_KeepsTime(started) == [r \in Runs |->
    IF r \in started THEN [run[r] EXCEPT !.stage = "requested", !.number = @ + 1] ELSE run[r]]

Begun(started) == [r \in Runs |->
    IF r \in started THEN [stage |-> "requested", number |-> run[r].number + 1, notBefore |-> None]
    ELSE run[r]]

(* One run that has no attempt left refuses the transaction, and with it   *)
(* the runs of every other task.                                           *)
Startable(started) == \A r \in started : run[r].number < MaxAttempts

Used == Cardinality({i \in IntentIds : intent[i].state # "absent"})

Reconcile ==
    LET started == NewRuns \cup Waiting
        slots   == Used + 1 .. Used + Cardinality(started) IN
    /\ started # {}
    /\ Startable(started)
    /\ slots \subseteq IntentIds                                \* bound
    /\ run' = Begun(started)
    /\ \E order \in Bijection(slots, started) :
          intent' = [i \in IntentIds |->
             IF i \in slots
             THEN Outbox!NewIntent([run |-> order[i], number |-> run[order[i]].number + 1], now)
             ELSE intent[i]]
    /\ UNCHANGED <<now, setBacks, attempt, accepted, task>>

-----------------------------------------------------------------------------
(* Commands about runs.                                                    *)

CancelRun(r) ==
    /\ run[r].stage \notin Finished \cup {"none"}
    /\ run' = [run EXCEPT ![r] = Moved(@, "cancelled")]
    /\ Withdraw({r})
    /\ UNCHANGED <<now, setBacks, accepted, task>>

(* retry_scheduled_agent: the number of attempts is not looked at.         *)
RetryRun(r) ==
    /\ run[r].stage \in {"retry_scheduled", "blocked"}
    /\ run' = [run EXCEPT ![r].stage = "retry_scheduled", ![r].notBefore = now]
    /\ UNCHANGED <<outbox, accepted, task>>

-----------------------------------------------------------------------------
(* The claim.                                                              *)

\* Faulty form: the effect of an accepted run is leased again like any other.
Pinned_Never(i) == FALSE

Pinned(i) == /\ intent[i].state = "claimed"
             /\ run[RunOf(i)].stage = "host_accepted"
             /\ \E f \in Fences : Outbox!Leased(i, f) /\ <<i, f>> \in accepted

Claimable(i) == Outbox!Claimable(i) /\ ~ Pinned(i)

Claim == \E i \in IntentIds :
    /\ Claimable(i)
    /\ \A j \in IntentIds \ {i} : Claimable(j) => Outbox!Before(i, j)
    /\ Outbox!Lease(i)
    /\ UNCHANGED <<accepted, task, run>>

-----------------------------------------------------------------------------
(* Reports.  One that is stale, repeated or invalid changes nothing.  The  *)
(* time at is whatever the host says, before or after now; that no host    *)
(* says more than MaxNow is a bound.                                       *)

\* Faulty form: a row may say that it was updated before it was made.
Reports_BeforeItsAttempt(i, f, at) ==
    /\ Outbox!Leased(i, f)
    /\ \/ at <= attempt[i][f].expires
       \/ <<i, f>> \in accepted /\ run[RunOf(i)].stage = "host_accepted"
    /\ run[RunOf(i)].number = intent[i].request.number

(* validate_scheduled_agent_lease_in_transaction, and the run's attempt.   *)
(* A report writes its time as the updated_at_ms of the attempt's row,     *)
(* which the table refuses before the created_at_ms                        *)
(* (0021_scheduled_agent_workflows.sql:98); the reconciliation that made   *)
(* the row committed the intent at the same time.                          *)
Reports(i, f, at) ==
    /\ Outbox!Leased(i, f)
    /\ \/ at <= attempt[i][f].expires
       \/ <<i, f>> \in accepted /\ run[RunOf(i)].stage = "host_accepted"
    /\ at >= intent[i].committed
    /\ run[RunOf(i)].number = intent[i].request.number

\* Faulty form: an acceptance is taken whatever has become of the run.
Acceptable_Ever(stage) == TRUE

Acceptable(stage) == stage = "requested"

(* The fence of the effect is not compared: a host whose lease was taken   *)
(* over may still be the one whose acceptance counts.                      *)
Accept(i, f) == \E at \in Times :
    /\ Reports(i, f, at)
    /\ Acceptable(run[RunOf(i)].stage)
    /\ run' = [run EXCEPT ![RunOf(i)].stage = "host_accepted"]
    /\ accepted' = accepted \cup {<<i, f>>}
    /\ UNCHANGED <<outbox, task>>

\* Faulty form: the report closes its attempt and leaves the effect claimed.
Settles_AttemptOnly(i, f) ==
    /\ run[RunOf(i)].stage \in InFlight
    /\ Outbox!CurrentFence(i, f)
    /\ attempt' = [attempt EXCEPT ![i] = Outbox!Answer(@, f, "observed")]
    /\ UNCHANGED <<now, setBacks, intent, accepted>>

(* A terminal report is taken of a run in flight and settles its effect.   *)
Settles(i, f) ==
    /\ run[RunOf(i)].stage \in InFlight
    /\ Outbox!CurrentFence(i, f)
    /\ Outbox!Settle(i, f, "observed")
    /\ UNCHANGED <<now, setBacks, accepted>>

\* Faulty form: the schedule advances although it was changed meanwhile.
Scheduled_AnyTime(r) == task[r[1]].state = "active"

(* advance_scheduled_task_after_completion *)
Scheduled(r) == task[r[1]].state = "active" /\ task[r[1]].nextRun = r[2]

Complete(i, f) == \E at \in Times :
    LET r == RunOf(i) IN
    /\ Reports(i, f, at)
    /\ Settles(i, f)
    /\ Scheduled(r)
    /\ run' = [run EXCEPT ![r] = Moved(@, "succeeded")]
    /\ task' = [task EXCEPT ![r[1]].nextRun = at + IntervalTicks, ![r[1]].revision = @ + 1]

Reasons == {"credential", "transient", "refused", "cancelled"}

(* apply_failure, and the acknowledgement of a cancellation.               *)
AfterFailure(r, reason, at) ==
    CASE reason = "credential" -> Moved(r, "blocked")
      [] reason = "transient" /\ r.number < MaxAttempts ->
            [r EXCEPT !.stage = "retry_scheduled", !.notBefore = at + RetryTicks]
      [] reason = "cancelled"  -> Moved(r, "cancelled")
      [] OTHER                 -> Moved(r, "failed_permanent")

Fail(i, f, reason) == \E at \in Times :
    /\ Reports(i, f, at)
    /\ Settles(i, f)
    /\ run' = [run EXCEPT ![RunOf(i)] = AfterFailure(@, reason, at)]
    /\ UNCHANGED task

Tick == Outbox!Tick /\ UNCHANGED <<accepted, task, run>>

-----------------------------------------------------------------------------
Next == \/ \E t \in Tasks : EnsureTask(t)
        \/ \E t \in Tasks : UpdateTask(t)
        \/ \E t \in Tasks : RemoveTask(t)
        \/ Reconcile
        \/ \E r \in Runs : CancelRun(r)
        \/ \E r \in Runs : RetryRun(r)
        \/ Claim
        \/ \E i \in IntentIds, f \in Fences : Accept(i, f)
        \/ \E i \in IntentIds, f \in Fences : Complete(i, f)
        \/ \E i \in IntentIds, f \in Fences, reason \in Reasons : Fail(i, f, reason)
        \/ Tick

Spec == Init /\ [][Next]_vars

(* The clock runs, and what is due is reconciled again and again.          *)
PolledSpec == Spec /\ WF_vars(Tick) /\ WF_vars(Reconcile)

-----------------------------------------------------------------------------
(* A run in flight has exactly one open effect, and it carries the run's   *)
(* current attempt; a run that waits, is blocked or has finished has none. *)
(* The run and the outbox are moved by different functions.                *)
RunsAreOwed == \A r \in Runs :
    LET open == OpenOf({r}) IN
    IF run[r].stage \in InFlight
    THEN /\ Cardinality(open) = 1
         /\ \A i \in open : intent[i].request.number = run[r].number
    ELSE open = {}

(* Once a provider accepted a run, no other host is given it: a lease that *)
(* expires meanwhile, or that was taken over before the acceptance came,   *)
(* does not start a second paid operation.                                 *)
AcceptedIsNotRepeated == [][\A i \in IntentIds :
    (intent[i].state # "absent" /\ intent'[i].fence # intent[i].fence) =>
        run[RunOf(i)].stage = "requested"]_vars

(* A run that has finished stays as it finished, whichever host reports    *)
(* late and whatever becomes of its task.                                  *)
FinishedRunsStay == [][\A r \in Runs : run[r].stage \in Finished => run'[r] = run[r]]_vars

(* A schedule moves with a success of exactly the run it stood at: a run   *)
(* that was overtaken by an edit of its task, or whose task was removed,   *)
(* never moves it.  And it moves forward, whatever time the host says: the *)
(* run was due when its attempt was made, and the table takes no report    *)
(* from before that.                                                       *)
SuccessAdvances == [][\A r \in Runs :
    (run[r].stage # "succeeded" /\ run'[r].stage = "succeeded") =>
        /\ task[r[1]].state = "active" /\ task[r[1]].nextRun = r[2]
        /\ task'[r[1]].nextRun > r[2]]_vars

(* The transactions about runs keep every effect within the life cycle it  *)
(* is promised.                                                            *)
EffectsKeepAuthority == Outbox!ImplementsAuthority

(* The one obstacle: a run with no attempt left that was asked for again,  *)
(* or (bound) no row left for an effect.                                   *)
Obstructed == \/ \E r \in Waiting : run[r].number = MaxAttempts
              \/ Used + Cardinality(NewRuns \cup Waiting) > MaxIntents

(* A run that waits for its time is started again, unless it is cancelled, *)
(* or reconciliation is obstructed: the delay after a transient failure,   *)
(* the time the host says, and edits of the task do not lose it.           *)
WaitingRunsStart == \A r \in Runs :
    (run[r].stage = "retry_scheduled" /\ run[r].notBefore <= MaxNow)
        ~> (run[r].stage # "retry_scheduled" \/ Obstructed)

-----------------------------------------------------------------------------
(* What ADR 0007 says of a schedule.  The code does otherwise.             *)

(* ADR 0007: Rust ensures one occurrence for each exact due identity.  A   *)
(* task that falls due gets its run, unless it is edited or removed first. *)
DueIsEnsured == \A r \in Runs :
    (task[r[1]].state = "active" /\ task[r[1]].nextRun = r[2])
        ~> (run[r].stage # "none" \/ task[r[1]].state = "removed" \/ task[r[1]].nextRun # r[2])
=============================================================================
