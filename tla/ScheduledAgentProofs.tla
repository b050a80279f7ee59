------------------------- MODULE ScheduledAgentProofs -------------------------
(***************************************************************************)
(* What holds of recurring agent tasks for every set of tasks, interval,   *)
(* retry delay, attempt limit and bound.                                   *)
(*                                                                         *)
(* A run and the effect of its attempt are moved by different functions,   *)
(* so the inductive invariant ties the two tables together in both         *)
(* directions: what an open row says of its run (OpenIsInFlight), what a   *)
(* run in flight says of the rows (InFlightIsOpen, OneOpen), and, for the  *)
(* reports, which know only their lease, that a row carrying the current   *)
(* attempt of a run in flight is the open one (CurrentIsOpen).             *)
(*                                                                         *)
(* The outbox part is not proved again: every action is shown to move the  *)
(* two tables row by row (Rows!OutboxStep), and the lemmas of              *)
(* EffectOutboxProofs about such steps do the rest.                        *)
(***************************************************************************)
EXTENDS ScheduledAgent, FiniteSetTheorems, TLAPS

(* The outbox of ScheduledAgent, with the lemmas about its rows.           *)
Rows == INSTANCE EffectOutboxProofs WITH
    Exact <- Requests, Publishers <- {}, PublisherLimit <- 0, NoRequest <- None,
    Recovery <- [r \in {} |-> None], Delays <- {0}, MaxAuthorized <- MaxIntents, MaxSetBacks <- 0

There(i) == intent[i].state # "absent"

TablesTyped ==
    /\ accepted \subseteq Leases
    /\ task \in [Tasks -> [state : {"none", "active", "removed"}, revision : Nat, nextRun : Nat]]
    /\ run \in [Runs -> [stage : Stages \cup {"none"}, number : 0 .. MaxAttempts,
                         notBefore : Nat \cup {None}]]
    /\ \A r \in Runs : /\ run[r].stage = "none" <=> run[r].number = 0
                       /\ run[r].stage = "retry_scheduled" => run[r].notBefore # None
                       /\ run[r].stage \in InFlight \cup {"blocked"} => run[r].notBefore = None

(* Rows are numbered as they are appended.                                 *)
Filled == \E n \in 0 .. MaxIntents : \A i \in IntentIds : There(i) <=> i <= n

(* No run exists before the instant it was scheduled for,                  *)
FallenDue == \A r \in Runs : run[r].stage # "none" => r[2] <= now

(* and none of its attempts is made before.                                *)
MadeWhenDue == \A i \in IntentIds : There(i) => RunOf(i)[2] <= intent[i].committed

(* No effect asks for an attempt its run has not come to.                  *)
Numbered == \A i \in IntentIds :
    There(i) => intent[i].request.number <= run[RunOf(i)].number

(* A run has at most one open effect,                                      *)
OneOpen == \A i, j \in IntentIds :
    Outbox!Open(i) /\ Outbox!Open(j) /\ RunOf(i) = RunOf(j) => i = j

(* which is the one of its current attempt, in flight.                     *)
OpenIsInFlight == \A i \in IntentIds :
    Outbox!Open(i) => /\ run[RunOf(i)].stage \in InFlight
                      /\ intent[i].request.number = run[RunOf(i)].number

(* A run in flight has an open effect,                                     *)
InFlightIsOpen == \A r \in Runs :
    run[r].stage \in InFlight => \E i \in IntentIds : Outbox!Open(i) /\ RunOf(i) = r

(* and so has every row that carries its current attempt.                  *)
CurrentIsOpen == \A i \in IntentIds :
    /\ There(i) /\ run[RunOf(i)].stage \in InFlight
    /\ intent[i].request.number = run[RunOf(i)].number
    => Outbox!Open(i)

(* The open effect of an accepted run keeps the lease the acceptance came  *)
(* under, which pins it.                                                   *)
AcceptedIsHeld == \A i \in IntentIds :
    Outbox!Open(i) /\ run[RunOf(i)].stage = "host_accepted" =>
        \E f \in Fences : Outbox!Leased(i, f) /\ <<i, f>> \in accepted

FlightInv == /\ Filled
             /\ FallenDue
             /\ MadeWhenDue
             /\ Numbered
             /\ OneOpen
             /\ OpenIsInFlight
             /\ InFlightIsOpen
             /\ CurrentIsOpen
             /\ AcceptedIsHeld

Inv == Rows!Inv /\ TablesTyped /\ FlightInv

-----------------------------------------------------------------------------
(* The constants the outbox is given are ones its proofs allow.            *)
LEMMA OutboxAssumptions == Rows!BoundsAssumption /\ Rows!RequestAssumption
BY ScheduledAssumption, NoneAssumption DEF Rows!BoundsAssumption, Rows!RequestAssumption

(* The outbox of ScheduledAgent and that of the row lemmas have the same   *)
(* rows, new rows and answers.                                             *)
LEMMA SameOutbox ==
  /\ IntentIds = Rows!IntentIds /\ Fences = Rows!Fences
  /\ IntentIds = 1 .. MaxIntents /\ Fences = 1 .. MaxFence
  /\ \A r, due : Outbox!NewIntent(r, due) = Rows!NewIntent(r, due)
  /\ \A tries, f, how : Outbox!Answer(tries, f, how) = Rows!Answer(tries, f, how)
BY DEF IntentIds, Fences, Outbox!IntentIds, Outbox!Fences, Rows!IntentIds, Rows!Fences,
       Outbox!NewIntent, Rows!NewIntent, Outbox!Answer, Rows!Answer

(* What the invariant says of the tables of the outbox.                    *)
LEMMA Typed ==
  ASSUME Inv
  PROVE  /\ now \in Nat /\ now <= MaxNow /\ setBacks = 0
         /\ intent \in [IntentIds -> Rows!IntentRow]
         /\ attempt \in [IntentIds -> Rows!Tries]
         /\ \A i \in IntentIds : Rows!RowInv(intent[i], attempt[i])
<1>1. Rows!Inv
  BY DEF Inv
<1>. QED
  BY <1>1, SameOutbox, ScheduledAssumption DEF Rows!Inv

(* A row that exists asks for an attempt of a run.                         *)
LEMMA ThereAsks ==
  ASSUME Inv, NEW i \in IntentIds, There(i)
  PROVE  /\ intent[i].request \in Requests
         /\ RunOf(i) \in Runs
         /\ intent[i].request.number \in 1 .. MaxAttempts
<1>1. intent[i].request \in Requests
  BY Typed DEF There, Rows!RowInv, Rows!IntentRow
<1>. QED
  BY <1>1 DEF Requests, RunOf

(* A row with an attempt exists.                                           *)
LEMMA TriedIsThere ==
  ASSUME Inv, NEW i \in IntentIds, NEW f \in Fences, attempt[i][f].state # "none"
  PROVE  There(i)
BY Typed, SameOutbox DEF There, Rows!RowInv

(* Rows that nobody writes keep their step.                                *)
LEMMA StillSteps ==
  ASSUME Inv, UNCHANGED <<intent, attempt, setBacks>>, now' \in 0 .. MaxNow
  PROVE  Rows!OutboxStep
BY Typed, SameOutbox DEF Rows!OutboxStep, Rows!RowStep

(* The invariant holds before there is a task.                             *)
LEMMA InitInv == Init => Inv
<1>1. SUFFICES ASSUME Init PROVE Inv
  OBVIOUS
<1>2. Rows!Inv
  <2>1. Rows!Init
    BY <1>1
       DEF Init, Outbox!Init, Rows!Init, Outbox!IntentIds, Rows!IntentIds, Outbox!Fences,
                Rows!Fences, Outbox!NoIntent, Rows!NoIntent, Outbox!NoAttempt, Rows!NoAttempt
  <2>. QED
    BY <2>1, Rows!InitInv, OutboxAssumptions DEF Rows!InitInv
<1>3. \A i \in IntentIds : ~ There(i) /\ ~ Outbox!Open(i)
  BY <1>1 DEF Init, Outbox!Init, IntentIds, There, Outbox!Open, Outbox!NoIntent
<1>4. TablesTyped
  BY <1>1, ScheduledAssumption DEF Init, TablesTyped, NoTask, NoRun, InFlight
<1>5. FallenDue /\ InFlightIsOpen
  BY <1>1 DEF Init, NoRun, FallenDue, InFlightIsOpen, InFlight
<1>6. MadeWhenDue
  BY <1>3 DEF MadeWhenDue
<1>7. Filled
  BY <1>3, SameOutbox, ScheduledAssumption DEF Filled
<1>. QED
  BY <1>2, <1>3, <1>4, <1>5, <1>6, <1>7
     DEF Inv, FlightInv, Numbered, OneOpen, OpenIsInFlight, CurrentIsOpen, AcceptedIsHeld
-----------------------------------------------------------------------------
(* Three transactions move the outbox row by row.                          *)

(* Withdrawing the effects of some runs,                                   *)
LEMMA WithdrawSteps ==
  ASSUME Inv, NEW rs \in SUBSET Runs, Withdraw(rs), UNCHANGED <<now, setBacks>>
  PROVE  Rows!OutboxStep
<1>1. ASSUME NEW i \in IntentIds, i \notin OpenOf(rs)
      PROVE  Rows!RowStep(intent[i], attempt[i], intent'[i], attempt'[i])
  BY <1>1 DEF Withdraw, Rows!RowStep
<1>2. ASSUME NEW i \in OpenOf(rs)
      PROVE  Rows!RowStep(intent[i], attempt[i], intent'[i], attempt'[i])
  <2>1. /\ intent[i].state \in {"pending", "claimed"}
        /\ intent'[i] = [intent[i] EXCEPT !.state = "superseded"]
        /\ attempt'[i] = Outbox!ClosedAttempts(i, "superseded")
    BY <1>2 DEF Withdraw, OpenOf, Outbox!Open
  <2>. QED
    BY <2>1 DEF Rows!RowStep, Rows!Withdrawn, Outbox!ClosedAttempts, Outbox!Leased,
                Outbox!Fences, Rows!Fences
<1>3. /\ intent' = [i \in IntentIds |-> intent'[i]]
      /\ attempt' = [i \in IntentIds |-> attempt'[i]]
  BY DEF Withdraw
<1>4. now' \in 0 .. MaxNow /\ setBacks' \in 0 .. 0
  BY Typed
<1>. QED
  BY <1>1, <1>2, <1>3, <1>4, SameOutbox DEF Rows!OutboxStep

(* a claim,                                                                *)
LEMMA ClaimSteps ==
  ASSUME Inv, Claim
  PROVE  Rows!OutboxStep
<1>1. PICK i \in IntentIds : Outbox!Claimable(i) /\ Outbox!Lease(i)
  BY DEF Claim, Claimable
<1>2. Rows!Claimable(i) /\ Rows!Lease(i)
  BY <1>1 DEF Outbox!Claimable, Rows!Claimable, Outbox!Reclaimable, Rows!Reclaimable,
      Outbox!Live, Rows!Live, Outbox!Leased, Rows!Leased, Outbox!BelowPublisherLimit,
      Rows!BelowPublisherLimit, Outbox!Fences, Rows!Fences, Outbox!Lease, Rows!Lease
<1>. QED
  BY <1>2, SameOutbox, Rows!LeaseSteps, OutboxAssumptions DEF Inv, Rows!LeaseSteps

(* and a terminal report.                                                  *)
LEMMA SettleSteps ==
  ASSUME Inv, NEW i \in IntentIds, NEW f \in Fences, Settles(i, f)
  PROVE  Rows!OutboxStep
<1>1. /\ Rows!CurrentFence(i, f) /\ Rows!Settle(i, f, "observed")
      /\ UNCHANGED <<now, setBacks>>
  BY SameOutbox
     DEF Settles, Outbox!CurrentFence, Rows!CurrentFence, Outbox!Settle, Rows!Settle
<1>. QED
  BY <1>1, SameOutbox, Rows!SettleSteps, OutboxAssumptions DEF Inv, Rows!SettleSteps

-----------------------------------------------------------------------------
(* Runs that leave their flight, and the effects they leave behind. *)

(* What is left of the step of a cancellation, a removal or a terminal     *)
(* report: the runs in rs leave their flight and their effects are closed. *)
Leave(rs) ==
    /\ UNCHANGED <<now, accepted>>
    /\ \A r \in Runs : /\ run'[r].number = run[r].number
                       /\ run'[r].stage # "none" => run[r].stage # "none"
                       /\ r \in rs => run'[r].stage \notin InFlight
                       /\ r \notin rs => run'[r].stage = run[r].stage
    /\ \A i \in IntentIds :
          /\ intent'[i].request = intent[i].request
          /\ There(i)' <=> There(i)
          /\ Outbox!Open(i)' <=> Outbox!Open(i) /\ RunOf(i) \notin rs
          /\ intent'[i].committed = intent[i].committed
          /\ Outbox!Open(i)' => attempt'[i] = attempt[i]

(* Such a step keeps the two tables tied.                                  *)
LEMMA LeaveInv ==
  ASSUME Inv, NEW rs \in SUBSET Runs, Leave(rs)
  PROVE  FlightInv'
<1>1. \A i \in IntentIds : RunOf(i)' = RunOf(i)
  BY DEF RunOf, Leave
<1>2. \A i \in IntentIds : Outbox!Open(i) => There(i)
  BY DEF Outbox!Open, There
<1>3. Filled'
  BY DEF Inv, FlightInv, Leave, Filled, IntentIds, Outbox!IntentIds
<1>4. FallenDue'
  BY DEF Inv, FlightInv, Leave, FallenDue, Runs, Times
<1>5. MadeWhenDue'
  BY <1>1 DEF Inv, FlightInv, Leave, MadeWhenDue, IntentIds, Outbox!IntentIds
<1>6. Numbered'
  BY <1>1, ThereAsks DEF Inv, FlightInv, Leave, Numbered, IntentIds, Outbox!IntentIds
<1>7. OneOpen'
  BY <1>1 DEF Inv, FlightInv, Leave, OneOpen, IntentIds, Outbox!IntentIds
<1>8. OpenIsInFlight'
  BY <1>1, <1>2, ThereAsks
     DEF Inv, FlightInv, Leave, OpenIsInFlight, IntentIds, Outbox!IntentIds
<1>9. InFlightIsOpen'
  BY <1>1
     DEF Inv, FlightInv, Leave, InFlightIsOpen, IntentIds, Outbox!IntentIds, Runs, Times
<1>10. CurrentIsOpen'
  BY <1>1, ThereAsks DEF Inv, FlightInv, Leave, CurrentIsOpen, IntentIds, Outbox!IntentIds
<1>11. AcceptedIsHeld'
  BY <1>1, <1>2, ThereAsks
     DEF Inv, FlightInv, Leave, AcceptedIsHeld, IntentIds, Outbox!IntentIds, Fences,
         Outbox!Fences, Outbox!Leased
<1>. QED
  BY <1>3, <1>4, <1>5, <1>6, <1>7, <1>8, <1>9, <1>10, <1>11 DEF FlightInv

(* Withdrawing the effects of runs that leave their flight.                *)
LEMMA WithdrawLeaves ==
  ASSUME Inv, NEW rs \in SUBSET Runs, Withdraw(rs), UNCHANGED <<now, setBacks, accepted>>,
         \A r \in rs : \/ run'[r] = run[r] /\ run[r].stage \notin InFlight
                       \/ /\ run[r].stage # "none"
                          /\ \E stage \in Stages \ InFlight : run'[r] = Moved(run[r], stage),
         \A r \in Runs \ rs : run'[r] = run[r]
  PROVE  Leave(rs)
<1>1. ASSUME NEW r \in Runs
      PROVE  /\ run'[r].number = run[r].number
             /\ run'[r].stage # "none" => run[r].stage # "none"
             /\ r \in rs => run'[r].stage \notin InFlight
             /\ r \notin rs => run'[r].stage = run[r].stage
  <2>1. run[r] \in [stage : Stages \cup {"none"}, number : 0 .. MaxAttempts,
                     notBefore : Nat \cup {None}]
    BY DEF Inv, TablesTyped
  <2>2. CASE r \in rs /\ run'[r] = run[r] /\ run[r].stage \notin InFlight
    BY <2>2
  <2>3. ASSUME r \in rs, run[r].stage # "none", NEW stage \in Stages \ InFlight,
               run'[r] = Moved(run[r], stage)
        PROVE  run'[r].number = run[r].number /\ run'[r].stage \notin InFlight
    BY <2>1, <2>3 DEF Moved
  <2>4. CASE r \notin rs
    BY <2>4
  <2>. QED
    BY <2>2, <2>3, <2>4
<1>2. ASSUME NEW i \in IntentIds
      PROVE  /\ intent'[i].request = intent[i].request
             /\ intent'[i].committed = intent[i].committed
             /\ There(i)' <=> There(i)
             /\ Outbox!Open(i)' <=> Outbox!Open(i) /\ RunOf(i) \notin rs
             /\ Outbox!Open(i)' => attempt'[i] = attempt[i]
  <2>1. CASE i \in OpenOf(rs)
    <3>1. intent'[i] = [intent[i] EXCEPT !.state = "superseded"]
      BY <2>1 DEF Withdraw
    <3>2. intent[i] \in Rows!IntentRow
      BY Typed
    <3>. QED
      BY <2>1, <3>1, <3>2 DEF OpenOf, There, Outbox!Open, Rows!IntentRow
  <2>2. CASE i \notin OpenOf(rs)
    BY <2>2 DEF Withdraw, OpenOf, There, Outbox!Open
  <2>. QED
    BY <2>1, <2>2
<1>. QED
  BY <1>1, <1>2 DEF Leave

(* Answering the effect of a run that leaves its flight.                   *)
LEMMA SettlesLeaves ==
  ASSUME Inv, NEW i \in IntentIds, NEW f \in Fences, Settles(i, f),
         NEW stage \in Stages \ InFlight, NEW time,
         run' = [run EXCEPT ![RunOf(i)] = [@ EXCEPT !.stage = stage, !.notBefore = time]]
  PROVE  RunOf(i) \in Runs /\ Leave({RunOf(i)})
<1>1. /\ intent[i].state = "claimed" /\ UNCHANGED <<now, accepted>>
      /\ attempt' = [attempt EXCEPT ![i] = Outbox!Answer(attempt[i], f, "observed")]
      /\ intent' = [intent EXCEPT ![i].state = "completed"]
  BY DEF Settles, Outbox!CurrentFence, Outbox!Settle
<1>2. There(i) /\ Outbox!Open(i) /\ RunOf(i) \in Runs /\ run[RunOf(i)].stage \in InFlight
  BY <1>1, ThereAsks DEF There, Outbox!Open, Settles
<1>3. ASSUME NEW r \in Runs
      PROVE  /\ run'[r].number = run[r].number
             /\ run'[r].stage # "none" => run[r].stage # "none"
             /\ r = RunOf(i) => run'[r].stage \notin InFlight
             /\ r # RunOf(i) => run'[r].stage = run[r].stage
  BY <1>2 DEF Inv, TablesTyped, InFlight
<1>4. ASSUME NEW j \in IntentIds
      PROVE  /\ intent'[j].request = intent[j].request
             /\ intent'[j].committed = intent[j].committed
             /\ There(j)' <=> There(j)
             /\ Outbox!Open(j)' <=> Outbox!Open(j) /\ RunOf(j) # RunOf(i)
             /\ Outbox!Open(j)' => attempt'[j] = attempt[j]
  <2>1. CASE j = i
    BY <1>1, <2>1, Typed DEF There, Outbox!Open, Rows!IntentRow
  <2>2. CASE j # i
    <3>1. intent'[j] = intent[j] /\ attempt'[j] = attempt[j]
      BY <1>1, <2>2, Typed
    <3>2. ~ (Outbox!Open(j) /\ RunOf(j) = RunOf(i))
      BY <1>2, <2>2 DEF Inv, FlightInv, OneOpen
    <3>. QED
      BY <3>1, <3>2 DEF There, Outbox!Open
  <2>. QED
    BY <2>1, <2>2
<1>. QED
  BY <1>1, <1>2, <1>3, <1>4 DEF Leave

-----------------------------------------------------------------------------
(* Every action keeps the invariant. *)

(* What is shown of every action: the rows of the outbox move as rows may, *)
(* and the rest of the invariant holds again.                              *)
Kept == Rows!OutboxStep /\ TablesTyped' /\ FlightInv'

(* A task that is made or edited: the outbox and the runs stay.            *)
LEMMA TaskCommands ==
  ASSUME Inv, NEW t \in Tasks, EnsureTask(t) \/ UpdateTask(t)
  PROVE  Kept
<1>1. UNCHANGED <<outbox, accepted, run>>
  BY DEF EnsureTask, UpdateTask
<1>2. Rows!OutboxStep
  BY <1>1, StillSteps, Typed, ScheduledAssumption DEF outbox
<1>3. task' \in [Tasks -> [state : {"none", "active", "removed"}, revision : Nat, nextRun : Nat]]
  BY ScheduledAssumption DEF EnsureTask, UpdateTask, Inv, TablesTyped, Times
<1>4. TablesTyped'
  BY <1>1, <1>3 DEF Inv, TablesTyped
<1>5. FlightInv'
  BY <1>1
     DEF Inv, FlightInv, outbox, Filled, FallenDue, MadeWhenDue, Numbered, OneOpen,
         OpenIsInFlight, InFlightIsOpen, CurrentIsOpen, AcceptedIsHeld, There, RunOf,
         Outbox!Open, Outbox!Leased
<1>. QED
  BY <1>2, <1>4, <1>5 DEF Kept

(* A task that is removed takes its live runs and their effects with it.   *)
LEMMA Removal ==
  ASSUME Inv, NEW t \in Tasks, RemoveTask(t)
  PROVE  Kept
<1> DEFINE rs == {r \in Runs : r[1] = t}
           live == {r \in Runs : r[1] = t /\ run[r].stage \notin Finished \cup {"none"}}
<1>1. /\ Withdraw(rs) /\ UNCHANGED <<now, setBacks, accepted>>
      /\ run' = [r \in Runs |-> IF r \in live THEN Moved(run[r], "obsolete") ELSE run[r]]
  BY DEF RemoveTask
<1>2. Rows!OutboxStep
  BY <1>1, WithdrawSteps
<1>3. ASSUME NEW r \in rs
      PROVE  \/ run'[r] = run[r] /\ run[r].stage \notin InFlight
             \/ /\ run[r].stage # "none"
                /\ \E stage \in Stages \ InFlight : run'[r] = Moved(run[r], stage)
  BY <1>1 DEF InFlight, Finished, Stages
<1>4. \A r \in Runs \ rs : run'[r] = run[r]
  BY <1>1
<1>5. FlightInv'
  <2>1. Leave(rs)
    <3> HIDE DEF rs, live
    <3>. QED
      BY <1>1, <1>3, <1>4, WithdrawLeaves DEF rs
  <2>. QED
    BY <2>1, LeaveInv
<1>6. TablesTyped'
  BY <1>1
     DEF RemoveTask, Moved, Inv, TablesTyped, InFlight, Finished, Stages, Leases, IntentIds,
         Fences, Outbox!IntentIds, Outbox!Fences
<1>. QED
  BY <1>2, <1>5, <1>6 DEF Kept

(* A run that is cancelled takes its effect with it.                       *)
LEMMA Cancellation ==
  ASSUME Inv, NEW r \in Runs, CancelRun(r)
  PROVE  Kept
<1>1. /\ Withdraw({r}) /\ UNCHANGED <<now, setBacks, accepted, task>>
      /\ run' = [run EXCEPT ![r] = Moved(run[r], "cancelled")]
      /\ run[r].stage # "none"
  BY DEF CancelRun
<1>2. Rows!OutboxStep
  BY <1>1, WithdrawSteps
<1>3. Leave({r})
  <2>1. run'[r] = Moved(run[r], "cancelled") /\ \A q \in Runs \ {r} : run'[q] = run[q]
    BY <1>1 DEF Inv, TablesTyped
  <2>2. "cancelled" \in Stages \ InFlight
    BY DEF Stages, InFlight, Finished
  <2>. QED
    BY <1>1, <2>1, <2>2, WithdrawLeaves
<1>4. TablesTyped'
  BY <1>1
     DEF CancelRun, Moved, Inv, TablesTyped, InFlight, Finished, Stages, Leases, IntentIds,
         Fences, Outbox!IntentIds, Outbox!Fences
<1>. QED
  BY <1>2, <1>3, <1>4, LeaveInv DEF Kept

(* A run that is asked for again was not in flight, and still is not.      *)
LEMMA ManualRetry ==
  ASSUME Inv, NEW r \in Runs, RetryRun(r)
  PROVE  Kept
<1>1. /\ UNCHANGED <<outbox, accepted, task>>
      /\ run' = [run EXCEPT ![r].stage = "retry_scheduled", ![r].notBefore = now]
      /\ run[r].stage \in {"retry_scheduled", "blocked"}
  BY DEF RetryRun
<1>2. Rows!OutboxStep
  BY <1>1, StillSteps, Typed, ScheduledAssumption DEF outbox
<1>3. TablesTyped'
  BY <1>1, Typed, NoneAssumption
     DEF Inv, TablesTyped, InFlight, Finished, Stages, Leases, IntentIds, Fences,
         Outbox!IntentIds, Outbox!Fences
<1>4. Leave({r})
  BY <1>1
     DEF outbox, Inv, TablesTyped, FlightInv, OpenIsInFlight, Leave, InFlight, There, RunOf,
         Outbox!Open
<1>. QED
  BY <1>2, <1>3, <1>4, LeaveInv DEF Kept

(* A claim leases an effect of a run in flight once more.                  *)
LEMMA ClaimKeeps ==
  ASSUME Inv, Claim
  PROVE  Kept
<1>1. PICK i \in IntentIds : Claimable(i) /\ Outbox!Lease(i)
  BY DEF Claim
<1>2. /\ intent' = [intent EXCEPT ![i].state = "claimed", ![i].fence = intent[i].fence + 1]
      /\ attempt' = [attempt EXCEPT ![i][intent[i].fence + 1] =
                        [state |-> "leased", expires |-> now + LeaseTicks, outcome |-> "none"]]
      /\ UNCHANGED <<now, setBacks, accepted, task, run>>
  BY <1>1 DEF Claim, Outbox!Lease
<1>3. Outbox!Open(i) /\ There(i) /\ RunOf(i) \in Runs
  BY <1>1, ThereAsks DEF Claimable, Outbox!Claimable, Outbox!Reclaimable, Outbox!Open, There
<1>4. ASSUME NEW j \in IntentIds
      PROVE  /\ RunOf(j)' = RunOf(j)
             /\ intent'[j].request = intent[j].request
             /\ intent'[j].committed = intent[j].committed
             /\ There(j)' <=> There(j)
             /\ Outbox!Open(j)' <=> Outbox!Open(j)
             /\ j # i => attempt'[j] = attempt[j]
  BY <1>2, <1>3, Typed DEF RunOf, There, Outbox!Open, Rows!IntentRow
<1>6. AcceptedIsHeld'
  <2>1. SUFFICES ASSUME NEW j \in IntentIds, Outbox!Open(j)', run[RunOf(j)].stage = "host_accepted"
                 PROVE  \E f \in Fences : Outbox!Leased(j, f)' /\ <<j, f>> \in accepted
    BY <1>2, <1>4 DEF AcceptedIsHeld, IntentIds, Fences, Outbox!IntentIds, Outbox!Fences
  <2>2. PICK f \in Fences : Outbox!Leased(j, f) /\ <<j, f>> \in accepted
    BY <1>4, <2>1 DEF Inv, FlightInv, AcceptedIsHeld
  <2>3. attempt \in [IntentIds -> [Fences -> Rows!AttemptRow]]
    BY Typed, SameOutbox DEF Rows!Tries
  <2>4. Outbox!Leased(j, f)'
    BY <1>2, <2>2, <2>3 DEF Outbox!Leased
  <2>. QED
    BY <2>2, <2>4
<1>7. FlightInv'
  <2> USE DEF Inv, FlightInv, IntentIds, Fences, Outbox!IntentIds, Outbox!Fences
  <2>1. Filled'
    BY <1>4 DEF Filled
  <2>2. FallenDue'
    BY <1>2 DEF FallenDue
  <2>3. MadeWhenDue'
    BY <1>4 DEF MadeWhenDue
  <2>4. Numbered' /\ CurrentIsOpen'
    BY <1>2, <1>4 DEF Numbered, CurrentIsOpen
  <2>5. OneOpen'
    BY <1>4 DEF OneOpen
  <2>6. OpenIsInFlight'
    BY <1>2, <1>4 DEF OpenIsInFlight
  <2>7. InFlightIsOpen'
    BY <1>2, <1>4 DEF InFlightIsOpen
  <2>. QED
    BY <1>6, <2>1, <2>2, <2>3, <2>4, <2>5, <2>6, <2>7
<1>8. TablesTyped'
  BY <1>2
     DEF Inv, TablesTyped, Leases, IntentIds, Fences, Outbox!IntentIds, Outbox!Fences, Runs,
         Times
<1>. QED
  BY <1>7, <1>8, ClaimSteps DEF Kept

(* An acceptance is recorded of the open effect: the report names the      *)
(* run's current attempt, and CurrentIsOpen makes its row the open one.    *)
LEMMA AcceptKeeps ==
  ASSUME Inv, NEW i \in IntentIds, NEW f \in Fences, Accept(i, f)
  PROVE  Kept
<1>1. /\ Outbox!Leased(i, f)
      /\ run[RunOf(i)].number = intent[i].request.number
      /\ run[RunOf(i)].stage = "requested"
      /\ run' = [run EXCEPT ![RunOf(i)].stage = "host_accepted"]
      /\ accepted' = accepted \cup {<<i, f>>}
      /\ UNCHANGED <<outbox, task>>
  BY DEF Accept, Reports, Acceptable
<1>2. There(i) /\ RunOf(i) \in Runs
  BY <1>1, TriedIsThere, ThereAsks DEF Outbox!Leased
<1>3. Outbox!Open(i)
  BY <1>1, <1>2 DEF Inv, FlightInv, CurrentIsOpen, InFlight
<1>4. /\ \A r \in Runs \ {RunOf(i)} : run'[r] = run[r]
      /\ run'[RunOf(i)].stage = "host_accepted"
      /\ \A r \in Runs : run'[r].number = run[r].number
      /\ \A r \in Runs : run'[r].stage \in InFlight <=> run[r].stage \in InFlight
      /\ \A r \in Runs : run'[r].stage # "none" <=> run[r].stage # "none"
  BY <1>1, <1>2 DEF Inv, TablesTyped, InFlight
<1>5. AcceptedIsHeld'
  <2>1. SUFFICES ASSUME NEW j \in IntentIds, Outbox!Open(j), run'[RunOf(j)].stage = "host_accepted"
                 PROVE  \E g \in Fences : Outbox!Leased(j, g) /\ <<j, g>> \in accepted'
    BY <1>1 DEF outbox, AcceptedIsHeld, RunOf, Outbox!Open, Outbox!Leased
  <2>2. CASE RunOf(j) = RunOf(i)
    BY <1>1, <1>3, <2>1, <2>2 DEF Inv, FlightInv, OneOpen
  <2>3. CASE RunOf(j) # RunOf(i)
    <3>1. There(j) /\ RunOf(j) \in Runs
      BY <2>1, ThereAsks DEF There, Outbox!Open
    <3>. QED
      BY <1>1, <1>4, <2>1, <2>3, <3>1 DEF Inv, FlightInv, AcceptedIsHeld
  <2>. QED
    BY <2>2, <2>3
<1>6. \A j \in IntentIds : Outbox!Open(j) => There(j)
  BY DEF Outbox!Open, There
<1>7. FlightInv'
  <2>0. /\ UNCHANGED <<now, intent, attempt>>
        /\ \A j \in IntentIds : /\ RunOf(j)' = RunOf(j) /\ (There(j)' <=> There(j))
                                /\ Outbox!Open(j)' <=> Outbox!Open(j)
                                /\ There(j) => RunOf(j) \in Runs
    BY <1>1, ThereAsks DEF outbox, RunOf, There, Outbox!Open
  <2> USE DEF Inv, FlightInv, IntentIds, Fences, Outbox!IntentIds, Outbox!Fences
  <2>1. Filled'
    BY <2>0 DEF Filled
  <2>2. FallenDue'
    BY <1>4, <2>0 DEF FallenDue
  <2>3. MadeWhenDue'
    BY <2>0 DEF MadeWhenDue
  <2>4. Numbered' /\ CurrentIsOpen'
    BY <1>4, <2>0 DEF Numbered, CurrentIsOpen
  <2>5. OneOpen'
    BY <2>0 DEF OneOpen
  <2>6. OpenIsInFlight'
    BY <1>4, <1>6, <2>0 DEF OpenIsInFlight
  <2>7. InFlightIsOpen'
    BY <1>4, <2>0 DEF InFlightIsOpen
  <2>. QED
    BY <1>5, <2>1, <2>2, <2>3, <2>4, <2>5, <2>6, <2>7
<1>8. TablesTyped'
  BY <1>1, <1>2 DEF Inv, TablesTyped, InFlight, Stages, Leases
<1>9. Rows!OutboxStep
  BY <1>1, StillSteps, Typed, ScheduledAssumption DEF outbox
<1>. QED
  BY <1>7, <1>8, <1>9 DEF Kept

(* A success ends the flight of its run and moves the schedule.            *)
LEMMA CompleteKeeps ==
  ASSUME Inv, NEW i \in IntentIds, NEW f \in Fences, Complete(i, f)
  PROVE  Kept
<1> DEFINE r == RunOf(i)
<1>1. PICK at \in Times :
        /\ Settles(i, f) /\ Scheduled(r)
        /\ run' = [run EXCEPT ![r] = Moved(run[r], "succeeded")]
        /\ task' = [task EXCEPT ![r[1]].nextRun = at + IntervalTicks, ![r[1]].revision = @ + 1]
  BY DEF Complete
<1>2. "succeeded" \in Stages \ InFlight
  BY DEF Stages, InFlight, Finished
<1>3. run[r].stage \in InFlight /\ intent[i].state = "claimed" /\ accepted' = accepted
  BY <1>1 DEF Settles, Outbox!CurrentFence
<1>4. r \in Runs
  BY <1>3, ThereAsks DEF There
<1>5. run' = [run EXCEPT ![r] = [@ EXCEPT !.stage = "succeeded", !.notBefore = run[r].notBefore]]
  BY <1>1, <1>4 DEF Moved, Inv, TablesTyped
<1>6. Leave({r})
  <2> HIDE DEF r
  <2>. QED
    BY <1>1, <1>2, <1>5, SettlesLeaves DEF r
<1>7. task' \in [Tasks -> [state : {"none", "active", "removed"}, revision : Nat, nextRun : Nat]]
  <2>1. r[1] \in Tasks /\ at + IntervalTicks \in Nat
    BY <1>4, ScheduledAssumption DEF Runs, Times
  <2>2. task \in [Tasks -> [state : {"none", "active", "removed"}, revision : Nat, nextRun : Nat]]
    BY DEF Inv, TablesTyped
  <2> HIDE DEF r
  <2>. QED
    BY <1>1, <2>1, <2>2
<1>8. TablesTyped'
  BY <1>1, <1>3, <1>4, <1>7
     DEF Moved, Inv, TablesTyped, InFlight, Finished, Stages, Leases, IntentIds, Fences,
         Outbox!IntentIds, Outbox!Fences
<1>. QED
  BY <1>1, <1>4, <1>6, <1>8, LeaveInv, SettleSteps DEF Kept

(* A failure ends the flight of its run; the run may wait or be blocked.   *)
LEMMA FailKeeps ==
  ASSUME Inv, NEW i \in IntentIds, NEW f \in Fences, NEW reason \in Reasons, Fail(i, f, reason)
  PROVE  Kept
<1> DEFINE r == RunOf(i)
<1>1. PICK at \in Times :
        /\ Settles(i, f)
        /\ run' = [run EXCEPT ![r] = AfterFailure(run[r], reason, at)]
        /\ task' = task
  BY DEF Fail
<1>3. run[r].stage \in InFlight /\ intent[i].state = "claimed" /\ accepted' = accepted
  BY <1>1 DEF Settles, Outbox!CurrentFence
<1>4. r \in Runs
  BY <1>3, ThereAsks DEF There
<1>5. run[r] \in [stage : Stages \cup {"none"}, number : 0 .. MaxAttempts,
                  notBefore : Nat \cup {None}]
      /\ run[r].notBefore = None
  BY <1>3, <1>4 DEF Inv, TablesTyped
<1>6. PICK stage \in {"blocked", "retry_scheduled", "cancelled", "failed_permanent"},
           time \in Nat \cup {None} :
        /\ AfterFailure(run[r], reason, at) = [run[r] EXCEPT !.stage = stage, !.notBefore = time]
        /\ stage = "retry_scheduled" => time # None
        /\ stage = "blocked" => time = None
  <2>1. \A stage : Moved(run[r], stage) = [run[r] EXCEPT !.stage = stage, !.notBefore = None]
    BY <1>5 DEF Moved
  <2>2. at + RetryTicks \in Nat /\ at + RetryTicks # None
    BY ScheduledAssumption, NoneAssumption DEF Times
  <2>. QED
    BY <2>1, <2>2 DEF AfterFailure
<1>7. stage \in Stages \ InFlight
  BY DEF Stages, InFlight, Finished
<1>8. run' = [run EXCEPT ![r] = [@ EXCEPT !.stage = stage, !.notBefore = time]]
  BY <1>1, <1>4, <1>6 DEF Inv, TablesTyped
<1>9. Leave({r})
  <2> HIDE DEF r
  <2>. QED
    BY <1>1, <1>7, <1>8, SettlesLeaves DEF r
<1>10. TablesTyped'
  <2>1. /\ run'[r] = [run[r] EXCEPT !.stage = stage, !.notBefore = time]
        /\ \A q \in Runs \ {r} : run'[q] = run[q]
        /\ run' = [q \in Runs |-> run'[q]]
    BY <1>4, <1>8 DEF Inv, TablesTyped
  <2>2. /\ run'[r] \in [stage : Stages \cup {"none"}, number : 0 .. MaxAttempts,
                        notBefore : Nat \cup {None}]
        /\ run'[r].number = run[r].number /\ run'[r].stage = stage
        /\ run'[r].notBefore = time
    BY <1>5, <1>7, <2>1
  <2>3. run[r].number # 0 /\ stage # "none" /\ stage \notin InFlight
    BY <1>3, <1>4 DEF Inv, TablesTyped, InFlight
  <2> HIDE DEF r
  <2>. QED
    BY <1>1, <1>3, <1>4, <1>6, <2>1, <2>2, <2>3 DEF Inv, TablesTyped, Leases
<1>. QED
  BY <1>1, <1>4, <1>9, <1>10, LeaveInv, SettleSteps DEF Kept

(* The clock, and stuttering.                                              *)
LEMMA TickKeeps ==
  ASSUME Inv, Tick \/ UNCHANGED vars
  PROVE  Kept
<1>1. now' \in 0 .. MaxNow /\ now' >= now /\ UNCHANGED <<setBacks, intent, attempt, accepted, task, run>>
  BY Typed, ScheduledAssumption DEF Tick, Outbox!Tick, vars, outbox
<1>2. TablesTyped'
  BY <1>1 DEF Inv, TablesTyped
<1>3. FallenDue'
  BY <1>1, Typed DEF Inv, FlightInv, FallenDue, Runs, Times
<1>4. (FlightInv /\ FallenDue)'
  BY <1>1, <1>3
     DEF Inv, FlightInv, Filled, MadeWhenDue, Numbered, OneOpen, OpenIsInFlight,
         InFlightIsOpen, CurrentIsOpen, AcceptedIsHeld, There, RunOf, Outbox!Open,
         Outbox!Leased
<1>. QED
  BY <1>1, <1>2, <1>4, StillSteps DEF Kept

(* There are finitely many runs within the bound of the clock.             *)
LEMMA RunsFinite == IsFiniteSet(Runs)
<1>1. IsFiniteSet(Times)
  BY FS_Interval, ScheduledAssumption DEF Times
<1>. QED
  BY <1>1, FS_Product, ScheduledAssumption DEF Runs

(* The rows that exist are the first ones of the table.                    *)
LEMMA UsedRows ==
  ASSUME Inv
  PROVE  Used \in 0 .. MaxIntents /\ \A i \in IntentIds : There(i) <=> i <= Used
<1>1. PICK n \in 0 .. MaxIntents : \A i \in IntentIds : There(i) <=> i <= n
  BY DEF Inv, FlightInv, Filled
<1>2. {i \in IntentIds : intent[i].state # "absent"} = 1 .. n
  BY <1>1, SameOutbox, ScheduledAssumption DEF There
<1>3. Cardinality(1 .. n) = n
  BY FS_Interval
<1>. QED
  BY <1>1, <1>2, <1>3 DEF Used

(* Which run each new row is for.                                          *)
Orders == UNION {[slots -> Runs] : slots \in SUBSET IntentIds}

(* What a reconciliation writes: the rows of its slots carry the next      *)
(* attempts of the runs it starts, one row for each.                       *)
LEMMA ReconcileRows ==
  ASSUME Inv, Reconcile
  PROVE  \E started \in SUBSET Runs, last \in 0 .. MaxIntents, order \in Orders :
           /\ \A r \in started :
                 /\ run[r].stage \in {"none", "retry_scheduled"}
                 /\ run[r].number \in Nat /\ run[r].number < MaxAttempts /\ r[2] <= now
                 /\ \E i \in IntentIds : Used < i /\ i <= last /\ order[i] = r
           /\ run' = Begun(started)
           /\ Used <= last
           /\ \A i \in IntentIds : Used < i /\ i <= last =>
                 /\ order[i] \in started
                 /\ \A j \in IntentIds : Used < j /\ j <= last /\ order[j] = order[i] => i = j
                 /\ intent'[i] = Rows!NewIntent([run |-> order[i],
                                                 number |-> run[order[i]].number + 1], now)
           /\ \A i \in IntentIds : ~ (Used < i /\ i <= last) => intent'[i] = intent[i]
<1> DEFINE started == NewRuns \cup Waiting
           slots == Used + 1 .. Used + Cardinality(started)
           last == Used + Cardinality(started)
<1>1. /\ Startable(started) /\ slots \subseteq IntentIds /\ run' = Begun(started)
  BY DEF Reconcile
<1>2. PICK order \in Bijection(slots, started) :
         intent' = [i \in IntentIds |->
             IF i \in slots
             THEN Outbox!NewIntent([run |-> order[i], number |-> run[order[i]].number + 1], now)
             ELSE intent[i]]
  BY DEF Reconcile
<1>3. started \in SUBSET Runs
  BY DEF NewRuns, Waiting
<1>4. Cardinality(started) \in Nat
  BY <1>3, RunsFinite, FS_Subset, FS_CardinalityType
<1>5. Used \in 0 .. MaxIntents /\ IntentIds = 1 .. MaxIntents
  BY UsedRows, SameOutbox
<1>6. last \in 0 .. MaxIntents /\ Used <= last
  <2> HIDE DEF started
  <2>1. CASE Cardinality(started) = 0
    BY <1>5, <2>1
  <2>2. CASE Cardinality(started) > 0
    <3>1. last \in slots
      BY <1>4, <1>5, <2>2
    <3>. QED
      BY <1>1, <1>4, <1>5, <3>1, ScheduledAssumption
  <2>. QED
    BY <1>4, <2>1, <2>2
<1>7. \A i \in IntentIds : i \in slots <=> Used < i /\ i <= last
  BY <1>4, <1>5
<1>8. /\ \A i \in slots : order[i] \in started
      /\ \A i, j \in slots : order[i] = order[j] => i = j
      /\ \A r \in started : \E i \in slots : order[i] = r
  <2> HIDE DEF started, slots
  <2>1. order \in Injection(slots, started) /\ order \in Surjection(slots, started)
    BY <1>2 DEF Bijection
  <2>. QED
    BY <2>1 DEF Injection, IsInjective, Surjection
<1>9. ASSUME NEW r \in started
      PROVE  /\ run[r].stage \in {"none", "retry_scheduled"}
             /\ run[r].number \in Nat /\ run[r].number < MaxAttempts /\ r[2] <= now
  <2>1. run[r].stage \in {"none", "retry_scheduled"}
    BY DEF NewRuns, Waiting
  <2>2. run[r].number \in Nat
    BY <1>3 DEF Inv, TablesTyped
  <2>3. run[r].number < MaxAttempts
    BY <1>1 DEF Startable
  <2>4. r[2] <= now
    BY <1>3 DEF NewRuns, Due, Waiting, Inv, FlightInv, FallenDue
  <2>. QED
    BY <2>1, <2>2, <2>3, <2>4
<1>10. \A i \in IntentIds :
          intent'[i] = IF i \in slots
             THEN Rows!NewIntent([run |-> order[i], number |-> run[order[i]].number + 1], now)
             ELSE intent[i]
  BY <1>2, SameOutbox
<1> HIDE DEF started, slots, last
<1>11. \A r \in started : \E i \in IntentIds : Used < i /\ i <= last /\ order[i] = r
  BY <1>1, <1>7, <1>8
<1>12. \A i \in IntentIds : Used < i /\ i <= last =>
                 /\ order[i] \in started
                 /\ \A j \in IntentIds : Used < j /\ j <= last /\ order[j] = order[i] => i = j
                 /\ intent'[i] = Rows!NewIntent([run |-> order[i],
                                                 number |-> run[order[i]].number + 1], now)
  BY <1>7, <1>8, <1>10
<1>13. \A i \in IntentIds : ~ (Used < i /\ i <= last) => intent'[i] = intent[i]
  BY <1>7, <1>10
<1>14. order \in Orders
  <2>1. order \in [slots -> started]
    BY <1>2 DEF Bijection, Injection
  <2>2. order \in [slots -> Runs] /\ slots \in SUBSET IntentIds
    BY <1>1, <1>3, <2>1
  <2>. QED
    BY <2>2 DEF Orders
<1>. QED
  BY <1>1, <1>3, <1>6, <1>9, <1>11, <1>12, <1>13, <1>14

(* A reconciliation opens one row for every run it starts, and no run it   *)
(* starts had one.                                                         *)
LEMMA ReconcileKeeps ==
  ASSUME Inv, Reconcile
  PROVE  Kept
<1> DEFINE New(last, i) == Used < i /\ i <= last
<1>1. PICK started \in SUBSET Runs, last \in 0 .. MaxIntents, order \in Orders :
           /\ \A r \in started :
                 /\ run[r].stage \in {"none", "retry_scheduled"}
                 /\ run[r].number \in Nat /\ run[r].number < MaxAttempts /\ r[2] <= now
                 /\ \E i \in IntentIds : New(last, i) /\ order[i] = r
           /\ run' = Begun(started)
           /\ Used <= last
           /\ \A i \in IntentIds : New(last, i) =>
                 /\ order[i] \in started
                 /\ \A j \in IntentIds : New(last, j) /\ order[j] = order[i] => i = j
                 /\ intent'[i] = Rows!NewIntent([run |-> order[i],
                                                 number |-> run[order[i]].number + 1], now)
           /\ \A i \in IntentIds : ~ New(last, i) => intent'[i] = intent[i]
  BY ReconcileRows
<1>2. UNCHANGED <<now, setBacks, attempt, accepted, task>>
      /\ intent' = [i \in IntentIds |-> intent'[i]]
  BY DEF Reconcile
<1>3. Used \in 0 .. MaxIntents /\ \A i \in IntentIds : i \in Nat /\ (There(i) <=> i <= Used)
  BY UsedRows, SameOutbox
<1>4. \A r \in started :
          run'[r] = [stage |-> "requested", number |-> run[r].number + 1, notBefore |-> None]
  BY <1>1 DEF Begun
<1>5. /\ \A r \in started : /\ run'[r].stage = "requested"
                              /\ run'[r].number = run[r].number + 1
                              /\ run'[r].notBefore = None
      /\ \A r \in Runs \ started : run'[r] = run[r]
  BY <1>1, <1>4 DEF Begun
<1>6. ASSUME NEW i \in IntentIds, New(last, i)
      PROVE  /\ ~ There(i) /\ There(i)' /\ Outbox!Open(i)' /\ RunOf(i)' = order[i]
             /\ order[i] \in started /\ order[i] \in Runs
             /\ intent'[i].request.number = run[order[i]].number + 1
             /\ intent'[i].committed = now
             /\ \E r \in Requests : intent'[i] = Rows!NewIntent(r, now)
             /\ run'[order[i]].number = run[order[i]].number + 1
             /\ run'[order[i]].stage = "requested"
             /\ \A f \in Fences : attempt[i][f].state = "none"
  <2>1. ~ There(i)
    BY <1>3, <1>6
  <2>2. order[i] \in started /\ order[i] \in Runs
        /\ intent'[i] = Rows!NewIntent([run |-> order[i], number |-> run[order[i]].number + 1], now)
    BY <1>1, <1>6
  <2>3. run[order[i]].number + 1 \in 1 .. MaxAttempts
    BY <1>1, <2>2, ScheduledAssumption
  <2>. QED
    <3> DEFINE asks == [run |-> order[i], number |-> run[order[i]].number + 1]
    <3>1. asks \in Requests
      BY <2>2, <2>3 DEF Requests
    <3>2. intent'[i].state = "pending" /\ intent'[i].request = asks /\ intent'[i].committed = now
      BY <2>2 DEF Rows!NewIntent
    <3>3. RunOf(i)' = order[i] /\ intent'[i].request.number = run[order[i]].number + 1
      BY <3>2 DEF RunOf
    <3>4. There(i)' /\ Outbox!Open(i)'
      BY <3>2 DEF There, Outbox!Open
    <3>5. run'[order[i]].number = run[order[i]].number + 1 /\ run'[order[i]].stage = "requested"
      BY <1>5, <2>2
    <3> HIDE DEF asks
    <3>6. \A f \in Fences : attempt[i][f].state = "none"
      BY <2>1, TriedIsThere
    <3>7. \E r \in Requests : intent'[i] = Rows!NewIntent(r, now)
      BY <2>2, <3>1 DEF asks
    <3>. QED
      BY <2>1, <2>2, <3>2, <3>3, <3>4, <3>5, <3>6, <3>7
<1>7. ASSUME NEW i \in IntentIds, ~ New(last, i)
      PROVE  intent'[i] = intent[i] /\ (There(i) <=> There(i)') /\ RunOf(i)' = RunOf(i)
             /\ (Outbox!Open(i)' <=> Outbox!Open(i))
  BY <1>1, <1>7 DEF There, RunOf, Outbox!Open
<1>8. Rows!OutboxStep
  <2>1. ASSUME NEW i \in IntentIds
        PROVE  Rows!RowStep(intent[i], attempt[i], intent'[i], attempt'[i])
    <3>1. CASE New(last, i)
      BY <1>2, <1>6, <3>1, Typed DEF Rows!RowStep, Rows!Appended, There
    <3>2. CASE ~ New(last, i)
      BY <1>2, <1>7, <3>2 DEF Rows!RowStep
    <3>. QED
      BY <3>1, <3>2
  <2>. QED
    BY <1>2, <2>1, Typed, SameOutbox, ScheduledAssumption DEF Rows!OutboxStep
<1>9. TablesTyped'
  <2>1. ASSUME NEW r \in Runs
        PROVE  /\ run'[r] \in [stage : Stages \cup {"none"}, number : 0 .. MaxAttempts,
                               notBefore : Nat \cup {None}]
               /\ run'[r].stage = "none" <=> run'[r].number = 0
               /\ run'[r].stage = "retry_scheduled" => run'[r].notBefore # None
               /\ run'[r].stage \in InFlight \cup {"blocked"} => run'[r].notBefore = None
    <3>1. CASE r \in started
      <4>1. run[r].number + 1 \in 0 .. MaxAttempts /\ run[r].number + 1 # 0
        BY <1>1, <3>1, ScheduledAssumption
      <4>. QED
        <5>1. "requested" \in InFlight /\ "requested" \in Stages \cup {"none"}
          BY DEF InFlight, Stages
        <5>2. run'[r] \in [stage : Stages \cup {"none"}, number : 0 .. MaxAttempts,
                           notBefore : Nat \cup {None}]
          <6>1. PICK n \in 0 .. MaxAttempts : n = run[r].number + 1
            BY <4>1
          <6>2. run'[r] = [stage |-> "requested", number |-> n, notBefore |-> None]
            BY <1>4, <3>1, <6>1
          <6>. QED
            BY <5>1, <6>2
        <5>. QED
          BY <1>5, <3>1, <4>1, <5>1, <5>2
    <3>2. CASE r \notin started
      BY <1>5, <3>2 DEF Inv, TablesTyped
    <3>. QED
      BY <3>1, <3>2
  <2>2. run' = [r \in Runs |-> run'[r]]
    BY <1>1 DEF Begun
  <2>. QED
    BY <1>2, <2>1, <2>2 DEF Inv, TablesTyped
<1>10. FlightInv'
  <2>0. \A i \in IntentIds : Outbox!Open(i) => There(i) /\ RunOf(i) \in Runs \ started
    BY <1>1, ThereAsks DEF Inv, FlightInv, OpenIsInFlight, InFlight, Outbox!Open, There
  <2> HIDE DEF New
  <2>1. Filled'
    <3>1. \A i \in IntentIds : There(i)' <=> i <= last
      BY <1>1, <1>3, <1>6, <1>7 DEF New
    <3>. QED
      BY <3>1 DEF Filled, IntentIds, Outbox!IntentIds
  <2>2. FallenDue'
    BY <1>1, <1>2, <1>5 DEF Inv, FlightInv, FallenDue, Runs, Times
  <2>3. MadeWhenDue'
    <3>1. ASSUME NEW i \in IntentIds, New(last, i)
          PROVE  RunOf(i)'[2] <= intent'[i].committed
      BY <1>1, <1>6, <3>1
    <3>2. ASSUME NEW i \in IntentIds, There(i)', ~ New(last, i)
          PROVE  RunOf(i)'[2] <= intent'[i].committed
      BY <1>7, <3>2 DEF Inv, FlightInv, MadeWhenDue
    <3>. QED
      BY <3>1, <3>2 DEF MadeWhenDue, IntentIds, Outbox!IntentIds
  <2>4. Numbered' /\ CurrentIsOpen'
    <3>1. ASSUME NEW i \in IntentIds, There(i)'
          PROVE  /\ intent'[i].request.number <= run'[RunOf(i)'].number
                 /\ (run'[RunOf(i)'].stage \in InFlight /\ intent'[i].request.number = run'[RunOf(i)'].number)
                       => Outbox!Open(i)'
      <4>1. CASE New(last, i)
        BY <1>1, <1>6, <1>5, <4>1
      <4>2. CASE ~ New(last, i)
        <5>1. There(i) /\ RunOf(i) \in Runs /\ intent[i].request.number \in Nat
              /\ intent[i].request.number <= run[RunOf(i)].number
          BY <1>7, <3>1, <4>2, ThereAsks DEF Inv, FlightInv, Numbered
        <5>2. CASE RunOf(i) \in started
          BY <1>1, <1>7, <1>5, <4>2, <5>1, <5>2
        <5>3. CASE RunOf(i) \notin started
          BY <1>7, <1>5, <4>2, <5>1, <5>3 DEF Inv, FlightInv, CurrentIsOpen
        <5>. QED
          BY <5>2, <5>3
      <4>. QED
        BY <4>1, <4>2
    <3>. QED
      BY <3>1 DEF Numbered, CurrentIsOpen, IntentIds, Outbox!IntentIds
  <2>5. OneOpen'
    <3>1. ASSUME NEW i \in IntentIds, NEW j \in IntentIds, Outbox!Open(i)', Outbox!Open(j)',
                 RunOf(i)' = RunOf(j)'
          PROVE  i = j
      <4>1. CASE New(last, i) /\ New(last, j)
        <5>1. order[i] = order[j]
          BY <1>6, <3>1, <4>1
        <5>. QED
          BY <1>1, <4>1, <5>1
      <4>2. CASE ~ New(last, i) /\ ~ New(last, j)
        BY <1>7, <3>1, <4>2 DEF Inv, FlightInv, OneOpen
      <4>3. CASE New(last, i) /\ ~ New(last, j)
        BY <1>6, <1>7, <2>0, <3>1, <4>3
      <4>4. CASE ~ New(last, i) /\ New(last, j)
        BY <1>6, <1>7, <2>0, <3>1, <4>4
      <4>. QED
        BY <4>1, <4>2, <4>3, <4>4
    <3>. QED
      BY <3>1 DEF OneOpen, IntentIds, Outbox!IntentIds
  <2>6. OpenIsInFlight'
    <3>1. ASSUME NEW i \in IntentIds, Outbox!Open(i)'
          PROVE  /\ run'[RunOf(i)'].stage \in InFlight
                 /\ intent'[i].request.number = run'[RunOf(i)'].number
      <4>1. CASE New(last, i)
        BY <1>6, <1>5, <4>1 DEF InFlight
      <4>2. CASE ~ New(last, i)
        BY <1>7, <1>5, <2>0, <3>1, <4>2 DEF Inv, FlightInv, OpenIsInFlight
      <4>. QED
        BY <4>1, <4>2
    <3>. QED
      BY <3>1 DEF OpenIsInFlight, IntentIds, Outbox!IntentIds
  <2>7. InFlightIsOpen'
    <3>1. ASSUME NEW r \in Runs, run'[r].stage \in InFlight
          PROVE  \E i \in IntentIds : Outbox!Open(i)' /\ RunOf(i)' = r
      <4>1. CASE r \in started
        BY <1>1, <1>6, <4>1
      <4>2. CASE r \notin started
        BY <1>3, <1>6, <1>7, <1>5, <2>0, <3>1, <4>2 DEF Inv, FlightInv, InFlightIsOpen
      <4>. QED
        BY <4>1, <4>2
    <3>. QED
      BY <3>1 DEF InFlightIsOpen, IntentIds, Outbox!IntentIds, Runs, Times
  <2>8. AcceptedIsHeld'
    <3>1. ASSUME NEW i \in IntentIds, Outbox!Open(i)', run'[RunOf(i)'].stage = "host_accepted"
          PROVE  \E f \in Fences : Outbox!Leased(i, f)' /\ <<i, f>> \in accepted'
      BY <1>2, <1>6, <1>7, <1>5, <2>0, <3>1
         DEF Inv, FlightInv, AcceptedIsHeld, Outbox!Leased
    <3>. QED
      BY <3>1 DEF AcceptedIsHeld, IntentIds, Outbox!IntentIds, Fences, Outbox!Fences
  <2>. QED
    BY <2>1, <2>2, <2>3, <2>4, <2>5, <2>6, <2>7, <2>8 DEF FlightInv
<1>. QED
  BY <1>8, <1>9, <1>10 DEF Kept

(* Every action, and a step that changes nothing.                          *)
LEMMA NextKeeps == Inv /\ [Next]_vars => Kept
<1>1. SUFFICES ASSUME Inv, [Next]_vars PROVE Kept
  OBVIOUS
<1>2. ASSUME NEW t \in Tasks, EnsureTask(t) \/ UpdateTask(t) PROVE Kept
  BY <1>1, <1>2, TaskCommands
<1>3. ASSUME NEW t \in Tasks, RemoveTask(t) PROVE Kept
  BY <1>1, <1>3, Removal
<1>4. CASE Reconcile
  BY <1>1, <1>4, ReconcileKeeps
<1>5. ASSUME NEW r \in Runs, CancelRun(r) PROVE Kept
  BY <1>1, <1>5, Cancellation
<1>6. ASSUME NEW r \in Runs, RetryRun(r) PROVE Kept
  BY <1>1, <1>6, ManualRetry
<1>7. CASE Claim
  BY <1>1, <1>7, ClaimKeeps
<1>8. ASSUME NEW i \in IntentIds, NEW f \in Fences, Accept(i, f) PROVE Kept
  BY <1>1, <1>8, AcceptKeeps
<1>9. ASSUME NEW i \in IntentIds, NEW f \in Fences, Complete(i, f) PROVE Kept
  BY <1>1, <1>9, CompleteKeeps
<1>10. ASSUME NEW i \in IntentIds, NEW f \in Fences, NEW reason \in Reasons, Fail(i, f, reason)
       PROVE  Kept
  BY <1>1, <1>10, FailKeeps
<1>11. CASE Tick \/ UNCHANGED vars
  BY <1>1, <1>11, TickKeeps
<1>. QED
  BY <1>1, <1>2, <1>3, <1>4, <1>5, <1>6, <1>7, <1>8, <1>9, <1>10, <1>11 DEF Next

(* The invariant is inductive.                                             *)
LEMMA StepInv == Inv /\ [Next]_vars => Inv'
<1>1. Rows!Inv /\ Rows!OutboxStep => Rows!Inv'
  BY Rows!OutboxStepInv, OutboxAssumptions DEF Rows!OutboxStepInv
<1>. QED
  BY <1>1, NextKeeps DEF Inv, Kept

-----------------------------------------------------------------------------
(* The invariant of every behaviour, and what follows from it. *)

(* The two tables are tied in every state.                                 *)
THEOREM ScheduledInvariance == Spec => []Inv
  BY InitInv, StepInv, PTL DEF Spec

(* Every row of the schedule and of the outbox has its type, and a run     *)
(* waits for a time exactly while its stage says so.                       *)
THEOREM ScheduledTypeCorrect == Spec => []TypeOK
<1>1. Rows!Inv => Outbox!TypeOK
  BY DEF Rows!Inv, Rows!RowInv, Rows!Tries, Rows!IntentIds, Rows!Fences, Rows!IntentRow,
         Rows!AttemptRow, Outbox!TypeOK, Outbox!IntentIds, Outbox!Fences, Outbox!IntentRow,
         Outbox!AttemptRow
<1>2. Inv => TypeOK
  BY <1>1 DEF Inv, TablesTyped, TypeOK
<1>. QED
  BY <1>2, ScheduledInvariance, PTL

(* A run in flight has one open effect, that of its current attempt; any   *)
(* other run has none.                                                     *)
THEOREM RunsOwed == Spec => []RunsAreOwed
<1>1. ASSUME Inv, NEW r \in Runs, run[r].stage \in InFlight
      PROVE  /\ Cardinality(OpenOf({r})) = 1
             /\ \A i \in OpenOf({r}) : intent[i].request.number = run[r].number
  <2>1. PICK i \in IntentIds : Outbox!Open(i) /\ RunOf(i) = r
    BY <1>1 DEF Inv, FlightInv, InFlightIsOpen
  <2>2. OpenOf({r}) = {i}
    BY <1>1, <2>1 DEF OpenOf, Inv, FlightInv, OneOpen
  <2>3. intent[i].request.number = run[r].number
    BY <1>1, <2>1 DEF Inv, FlightInv, OpenIsInFlight
  <2>. QED
    BY <2>2, <2>3, FS_Singleton
<1>2. ASSUME Inv, NEW r \in Runs, run[r].stage \notin InFlight PROVE OpenOf({r}) = {}
  BY <1>2 DEF OpenOf, Inv, FlightInv, OpenIsInFlight
<1>3. Inv => RunsAreOwed
  BY <1>1, <1>2 DEF RunsAreOwed
<1>. QED
  BY <1>3, ScheduledInvariance, PTL

-----------------------------------------------------------------------------
(* Action properties. *)

(* Only a claim moves the fence of a row, and the claim of that row.       *)
LEMMA FenceMoves ==
  ASSUME Inv, [Next]_vars, NEW i \in IntentIds, There(i), intent'[i].fence # intent[i].fence
  PROVE  Claimable(i)
<1>1. intent[i] \in Rows!IntentRow /\ intent \in [IntentIds -> Rows!IntentRow]
  BY Typed
<1>2. intent'[i] # intent[i]
  OBVIOUS
<1>3. ~ UNCHANGED intent
  BY <1>2
<1>4. ASSUME NEW rs \in SUBSET Runs PROVE ~ Withdraw(rs)
  BY <1>1 DEF Withdraw, Rows!IntentRow
<1>5. ASSUME NEW r \in Runs PROVE ~ CancelRun(r)
  BY <1>4 DEF CancelRun
<1>6. ASSUME NEW t \in Tasks PROVE ~ RemoveTask(t)
  BY <1>4 DEF RemoveTask
<1>7. ASSUME NEW j \in IntentIds, NEW f \in Fences PROVE ~ Settles(j, f)
  BY <1>1 DEF Settles, Outbox!Settle, Rows!IntentRow
<1>8. ~ Reconcile
  <2>1. i <= Used
    BY UsedRows
  <2>2. Used \in Nat /\ i \in Nat
    BY UsedRows, SameOutbox
  <2>. QED
    BY <1>2, <2>1, <2>2, ReconcileRows
<1>9. Claim
  BY <1>3, <1>5, <1>6, <1>7, <1>8
     DEF Next, vars, outbox, EnsureTask, UpdateTask, RetryRun, Accept, Complete, Fail, Tick,
         Outbox!Tick
<1>10. PICK j \in IntentIds : Claimable(j) /\ Outbox!Lease(j)
  BY <1>9 DEF Claim
<1>11. j = i
  BY <1>1, <1>2, <1>10 DEF Outbox!Lease
<1>. QED
  BY <1>10, <1>11

(* A run that a provider has accepted is never handed to a host again: the *)
(* lease it was accepted under pins the one effect the run has open.       *)
THEOREM AcceptedOnce == Spec => AcceptedIsNotRepeated
<1>1. ASSUME Inv, [Next]_vars, NEW i \in IntentIds, There(i),
             intent'[i].fence # intent[i].fence
      PROVE  run[RunOf(i)].stage = "requested"
  <2>1. Claimable(i)
    BY <1>1, FenceMoves
  <2>2. Outbox!Open(i)
    BY <2>1 DEF Claimable, Outbox!Claimable, Outbox!Reclaimable, Outbox!Open
  <2>3. run[RunOf(i)].stage \in InFlight
    BY <1>1, <2>2 DEF Inv, FlightInv, OpenIsInFlight
  <2>4. ASSUME run[RunOf(i)].stage = "host_accepted" PROVE FALSE
    <3>1. PICK f \in Fences : Outbox!Leased(i, f) /\ <<i, f>> \in accepted
      BY <1>1, <2>2, <2>4 DEF Inv, FlightInv, AcceptedIsHeld
    <3>2. intent[i].state # "pending"
      <4>1. Rows!RowInv(intent[i], attempt[i]) /\ f \in 1 .. MaxFence
        BY <1>1, Typed, SameOutbox
      <4>2. intent[i].state = "pending" => ~ (f <= 0) /\ intent[i].fence = 0
        BY <4>1 DEF Rows!RowInv
      <4>. QED
        BY <3>1, <4>1, <4>2, SameOutbox DEF Rows!RowInv, Outbox!Leased
    <3>3. Pinned(i)
      BY <2>2, <2>4, <3>1, <3>2 DEF Pinned, Outbox!Open
    <3>. QED
      BY <2>1, <3>3 DEF Claimable
  <2>. QED
    BY <2>3, <2>4 DEF InFlight
<1>2. Inv /\ [Next]_vars =>
        [\A i \in IntentIds : (intent[i].state # "absent" /\ intent'[i].fence # intent[i].fence) =>
            run[RunOf(i)].stage = "requested"]_vars
  BY <1>1 DEF There
<1>. QED
  BY <1>2, ScheduledInvariance, PTL DEF Spec, AcceptedIsNotRepeated

(* A run that has finished stays as it finished.                           *)
THEOREM FinishedStay == Spec => FinishedRunsStay
<1>1. ASSUME Inv, [Next]_vars, NEW r \in Runs, run[r].stage \in Finished
      PROVE  run'[r] = run[r]
  <2>0. /\ run = [q \in Runs |-> run[q]]
        /\ run[r].stage \notin InFlight \cup {"none", "retry_scheduled", "blocked"}
    BY <1>1 DEF Inv, TablesTyped, Finished, InFlight
  <2>1. ASSUME NEW t \in Tasks, RemoveTask(t) PROVE run'[r] = run[r]
    BY <1>1, <2>1 DEF RemoveTask
  <2>2. CASE Reconcile
    <3>1. PICK started \in SUBSET Runs :
             /\ \A q \in started : run[q].stage \in {"none", "retry_scheduled"}
             /\ run' = Begun(started)
      BY <1>1, <2>2, ReconcileRows
    <3>. QED
      BY <2>0, <3>1 DEF Begun
  <2>3. ASSUME NEW q \in Runs, CancelRun(q) \/ RetryRun(q) PROVE run'[r] = run[r]
    BY <1>1, <2>0, <2>3 DEF CancelRun, RetryRun
  <2>4. ASSUME NEW i \in IntentIds, NEW f \in Fences, Accept(i, f) PROVE run'[r] = run[r]
    BY <2>0, <2>4 DEF Accept, Acceptable, InFlight
  <2>5. ASSUME NEW i \in IntentIds, NEW f \in Fences, Complete(i, f) PROVE run'[r] = run[r]
    BY <2>0, <2>5 DEF Complete, Settles
  <2>6. ASSUME NEW i \in IntentIds, NEW f \in Fences, NEW reason \in Reasons, Fail(i, f, reason)
        PROVE  run'[r] = run[r]
    BY <2>0, <2>6 DEF Fail, Settles
  <2>. QED
    BY <1>1, <2>1, <2>2, <2>3, <2>4, <2>5, <2>6
       DEF Next, vars, EnsureTask, UpdateTask, Claim, Tick
<1>2. Inv /\ [Next]_vars =>
        [\A r \in Runs : run[r].stage \in Finished => run'[r] = run[r]]_vars
  BY <1>1
<1>. QED
  BY <1>2, ScheduledInvariance, PTL DEF Spec, FinishedRunsStay

(* A schedule moves with a success of exactly the run it stood at, and     *)
(* forward: the attempt was made when the run was due (MadeWhenDue), and a *)
(* report is not taken from before the attempt was made.                   *)
THEOREM SuccessMovesSchedule == Spec => SuccessAdvances
<1> DEFINE Moves(r) == /\ task[r[1]].state = "active" /\ task[r[1]].nextRun = r[2]
                       /\ task'[r[1]].nextRun > r[2]
<1>1. ASSUME Inv, [Next]_vars, NEW r \in Runs,
             run[r].stage # "succeeded", run'[r].stage = "succeeded"
      PROVE  \E i \in IntentIds, f \in Fences : Complete(i, f) /\ RunOf(i) = r
  <2>0. /\ run = [q \in Runs |-> run[q]]
        /\ run[r] \in [stage : Stages \cup {"none"}, number : 0 .. MaxAttempts,
                       notBefore : Nat \cup {None}]
    BY <1>1 DEF Inv, TablesTyped
  <2>1. ASSUME NEW t \in Tasks PROVE ~ RemoveTask(t)
    BY <1>1, <2>0, <2>1 DEF RemoveTask, Moved
  <2>2. ~ Reconcile
    <3>1. ASSUME NEW started \in SUBSET Runs, run' = Begun(started) PROVE FALSE
      BY <1>1, <2>0, <3>1 DEF Begun
    <3>. QED
      BY <1>1, <3>1, ReconcileRows
  <2>3. ASSUME NEW q \in Runs PROVE ~ CancelRun(q) /\ ~ RetryRun(q)
    BY <1>1, <2>0, <2>3 DEF CancelRun, RetryRun, Moved
  <2>4. ASSUME NEW i \in IntentIds, NEW f \in Fences PROVE ~ Accept(i, f)
    BY <1>1, <2>0, <2>4 DEF Accept
  <2>5. ASSUME NEW i \in IntentIds, NEW f \in Fences, Complete(i, f) PROVE RunOf(i) = r
    BY <1>1, <2>0, <2>5 DEF Complete
  <2>6. ASSUME NEW i \in IntentIds, NEW f \in Fences, NEW reason \in Reasons
        PROVE  ~ Fail(i, f, reason)
    <3>1. ASSUME NEW at PROVE AfterFailure(run[r], reason, at).stage # "succeeded"
      BY <2>0 DEF AfterFailure, Moved
    <3>. QED
      BY <1>1, <2>0, <3>1 DEF Fail
  <2>. QED
    BY <1>1, <2>1, <2>2, <2>3, <2>4, <2>5, <2>6
       DEF Next, vars, EnsureTask, UpdateTask, Claim, Tick
<1>2. ASSUME Inv, NEW i \in IntentIds, NEW f \in Fences, Complete(i, f)
      PROVE  Moves(RunOf(i))
  <2> DEFINE r == RunOf(i)
  <2>1. PICK at \in Times :
          /\ Reports(i, f, at) /\ Scheduled(r)
          /\ task' = [task EXCEPT ![r[1]].nextRun = at + IntervalTicks, ![r[1]].revision = @ + 1]
    BY <1>2 DEF Complete
  <2>2. Outbox!Leased(i, f) /\ at >= intent[i].committed
    BY <2>1 DEF Reports
  <2>3. There(i) /\ r \in Runs
    BY <1>2, <2>2, TriedIsThere, ThereAsks DEF Outbox!Leased
  <2>4. intent[i].committed >= r[2] /\ intent[i].committed \in Nat
    BY <1>2, <2>3, Typed DEF Inv, FlightInv, MadeWhenDue, Rows!IntentRow
  <2>6. r[1] \in Tasks /\ r[2] \in Nat /\ at \in Nat
    BY <2>3 DEF Runs, Times
  <2>7. at >= r[2]
    BY <2>2, <2>4, <2>6
  <2>8. task'[r[1]].nextRun = at + IntervalTicks
    <3>1. task \in [Tasks -> [state : {"none", "active", "removed"}, revision : Nat, nextRun : Nat]]
      BY <1>2 DEF Inv, TablesTyped
    <3> HIDE DEF r
    <3>. QED
      BY <2>1, <2>6, <3>1
  <2>. QED
    BY <2>1, <2>6, <2>7, <2>8, ScheduledAssumption DEF Scheduled
<1>3. Inv /\ [Next]_vars =>
        [\A r \in Runs : (run[r].stage # "succeeded" /\ run'[r].stage = "succeeded") =>
            /\ task[r[1]].state = "active" /\ task[r[1]].nextRun = r[2]
            /\ task'[r[1]].nextRun > r[2]]_vars
  BY <1>1, <1>2
<1>. QED
  BY <1>3, ScheduledInvariance, PTL DEF Spec, SuccessAdvances

-----------------------------------------------------------------------------
(* The two readings of the authority of an effect, through the outbox of   *)
(* this module and through that of the row lemmas, are one.                *)
LEMMA SameAuthority == Rows!ImplementsAuthority => Outbox!ImplementsAuthority
BY DEF Rows!ImplementsAuthority, Rows!Authority!ASpec, Rows!Authority!AInit,
       Rows!Authority!ANext, Rows!Authority!LifeCycle, Rows!Authority!Authorized,
       Rows!Authority!Granted, Rows!Authority!Answered, Rows!Authority!Withdrawn,
       Rows!Authority!Effect, Rows!Authority!Unauthorized, Rows!AuthorityOf,
       Rows!AuthorityStatus, Rows!Outcomes, Rows!Fences, Rows!IntentIds,
       Outbox!ImplementsAuthority, Outbox!Authority!ASpec, Outbox!Authority!AInit,
       Outbox!Authority!ANext, Outbox!Authority!LifeCycle, Outbox!Authority!Authorized,
       Outbox!Authority!Granted, Outbox!Authority!Answered, Outbox!Authority!Withdrawn,
       Outbox!Authority!Effect, Outbox!Authority!Unauthorized, Outbox!AuthorityOf,
       Outbox!AuthorityStatus, Outbox!Outcomes, Outbox!Fences, Outbox!IntentIds

(* The transactions about runs keep every effect within the life cycle it  *)
(* is promised.                                                            *)
THEOREM ScheduledKeepsAuthority == Spec => EffectsKeepAuthority
<1>1. outbox = Rows!vars
  BY DEF outbox, Rows!vars
<1>2. Init => Rows!Init
  BY DEF Init, Outbox!Init, Rows!Init, Outbox!IntentIds, Rows!IntentIds, Outbox!Fences,
         Rows!Fences, Outbox!NoIntent, Rows!NoIntent, Outbox!NoAttempt, Rows!NoAttempt
<1>3. Inv => Rows!Inv
  BY DEF Inv
<1>4. Inv /\ [Next]_vars => [Rows!OutboxStep]_outbox
  BY NextKeeps DEF Kept
<1>5. Rows!Init /\ []Rows!Inv /\ [][Rows!OutboxStep]_outbox => Rows!ImplementsAuthority
  BY <1>1, Rows!RowwiseImplementsAuthority, OutboxAssumptions, PTL
     DEF Rows!RowwiseImplementsAuthority, outbox, Rows!vars
<1>. QED
  BY <1>2, <1>3, <1>4, <1>5, SameAuthority, ScheduledInvariance, PTL
     DEF Spec, EffectsKeepAuthority
=============================================================================
