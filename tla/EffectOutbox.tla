---------------------------- MODULE EffectOutbox ----------------------------
(***************************************************************************)
(* The durable effect outbox: pod0_effect_intents and pod0_effect_attempts,*)
(* the claim that leases an intent to the host, the observation that       *)
(* settles it, the recovery of an expired lease whose work may not be      *)
(* repeated, and the two ways an intent is withdrawn.  Every action is one *)
(* immediate SQLite transaction; a transaction that fails a guard rolls    *)
(* back and changes nothing, so it is no step at all.                      *)
(*                                                                         *)
(* The clock is the wall clock of the facade and may be set back.  A host  *)
(* that holds lease (i, f) took its observation while the lease was good   *)
(* but delivers it whenever it likes, or never: a crash of the host, of    *)
(* the kernel, or a lost message is the delivery that does not happen.     *)
(*                                                                         *)
(* The lease of an accepted scheduled run, which the claim query pins, is  *)
(* in ScheduledAgent.  Not modelled: a lease of ObservePlayback that was   *)
(* observed once streams on and is pinned too; core wakes that the         *)
(* command-line host defers; requests of the removed kind 14, which the    *)
(* query skips.                                                            *)
(***************************************************************************)
EXTENDS Naturals, FiniteSets

CONSTANTS
    Requests,        \* the requests an intent can carry
    Exact,           \* those an expired lease of which may be leased again
    Publishers,      \* those counted against the publisher limit
    PublisherLimit,  \* MAX_ACTIVE_PUBLISHER_CHAPTER_REQUESTS
    NoRequest,
    Recovery,        \* for an ambiguous request, the one its recovery authorises
    LeaseTicks,      \* the duration of a lease
    Delays,          \* not_before minus the time of the commit
    MaxAuthorized,   \* bound: rows when the last effect is authorised by a command
    MaxIntents,      \* bound: rows of the intent table
    MaxFence,        \* bound: leases of one intent
    MaxNow,          \* bound: the latest time
    MaxSetBacks      \* bound: times the clock is set back

IntentIds == 1 .. MaxIntents
Fences    == 1 .. MaxFence

ASSUME BoundsAssumption ==
    /\ MaxIntents \in Nat /\ MaxAuthorized \in Nat
    /\ MaxFence \in Nat /\ MaxNow \in Nat
    /\ MaxSetBacks \in Nat /\ PublisherLimit \in Nat
    /\ LeaseTicks \in Nat \ {0}
    /\ Delays \subseteq Nat

ASSUME RequestAssumption ==
    /\ Exact \subseteq Requests /\ Publishers \subseteq Exact
    /\ NoRequest \notin Requests
    /\ Recovery \in [Requests \ Exact -> Requests \cup {NoRequest}]

VARIABLES now, setBacks, intent, attempt
vars == <<now, setBacks, intent, attempt>>

IntentRow  == [state     : {"absent", "pending", "claimed", "completed", "superseded"},
               request   : Requests \cup {NoRequest},
               available : Nat, committed : Nat, fence : 0 .. MaxFence]
AttemptRow == [state   : {"none", "leased", "done", "superseded"},
               expires : Nat,
               outcome : {"none", "observed", "unknown"}]

(* The rows have their types; a row that does not exist asks for nothing,  *)
(* an unclaimed one was never leased, a claimed one was.                   *)
TypeOK == /\ now \in 0 .. MaxNow
          /\ setBacks \in 0 .. MaxSetBacks
          /\ intent \in [IntentIds -> IntentRow]
          /\ attempt \in [IntentIds -> [Fences -> AttemptRow]]
          /\ \A i \in IntentIds :
                /\ intent[i].state = "absent" <=> intent[i].request = NoRequest
                /\ intent[i].state \in {"absent", "pending"} => intent[i].fence = 0
                /\ intent[i].state = "claimed" => intent[i].fence > 0

NoIntent  == [state |-> "absent", request |-> NoRequest,
              available |-> 0, committed |-> 0, fence |-> 0]
NoAttempt == [state |-> "none", expires |-> 0, outcome |-> "none"]

Init == /\ now = 0
        /\ setBacks = 0
        /\ intent = [i \in IntentIds |-> NoIntent]
        /\ attempt = [i \in IntentIds |-> [f \in Fences |-> NoAttempt]]

-----------------------------------------------------------------------------
\* Faulty form: a settled intent may be withdrawn again.
Open_AnyRow(i) == intent[i].state # "absent"

Open(i)     == intent[i].state \in {"pending", "claimed"}
Settled(i)  == intent[i].state \in {"completed", "superseded"}
Leased(i, f) == attempt[i][f].state = "leased"
Live(i, f)  == Leased(i, f) /\ attempt[i][f].expires > now

\* Faulty form: a slot is held by every attempt there ever was.
LivePublishers_Ever == {l \in IntentIds \X Fences :
                      intent[l[1]].request \in Publishers /\ attempt[l[1]][l[2]].state # "none"}

LivePublishers == {l \in IntentIds \X Fences :
                      intent[l[1]].request \in Publishers /\ Live(l[1], l[2])}

(* A row is appended by the transaction that commits its authorising fact. *)
NewIntent(r, due) == [state |-> "pending", request |-> r, available |-> due,
                      committed |-> now, fence |-> 0]

NextId(i) == /\ i \in IntentIds /\ intent[i].state = "absent"
             /\ \A j \in 1 .. i - 1 : intent[j].state # "absent"

Authorize(r, delay) == \E i \in IntentIds :
    /\ NextId(i)
    /\ i <= MaxAuthorized                                 \* bound
    /\ intent' = [intent EXCEPT ![i] = NewIntent(r, now + delay)]
    /\ UNCHANGED <<now, setBacks, attempt>>

-----------------------------------------------------------------------------
(* claim_next: the one query that picks the row, and the lease it inserts. *)

\* Faulty form: an expired lease is leased again whatever it may have done.
Reclaimable_Inexact(i) == intent[i].state = "claimed" /\ \A f \in Fences : ~ Live(i, f)

\* Faulty form: a lease is taken over while its holder is still at work.
Reclaimable_Live(i) == intent[i].state = "claimed" /\ intent[i].request \in Exact

Reclaimable(i) == /\ intent[i].state = "claimed"
                  /\ intent[i].request \in Exact
                  /\ \A f \in Fences : ~ Live(i, f)

\* Faulty form: one publisher too many.
BelowPublisherLimit_Inclusive(i) ==
    intent[i].request \in Publishers => Cardinality(LivePublishers) <= PublisherLimit

BelowPublisherLimit(i) ==
    intent[i].request \in Publishers => Cardinality(LivePublishers) < PublisherLimit

Claimable(i) == /\ intent[i].available <= now
                /\ intent[i].state = "pending" \/ Reclaimable(i)
                /\ BelowPublisherLimit(i)
                /\ intent[i].fence < MaxFence          \* bound

(* ORDER BY available_at_ms, committed_at_ms, rowid *)
Before(i, j) ==
    LET a == intent[i]  b == intent[j] IN
    \/ a.available < b.available
    \/ a.available = b.available /\ a.committed < b.committed
    \/ a.available = b.available /\ a.committed = b.committed /\ i < j

\* Faulty form: the fence of the intent is not advanced with the lease.
Lease_SameFence(i) ==
    /\ intent' = [intent EXCEPT ![i].state = "claimed"]
    /\ attempt' = [attempt EXCEPT ![i][intent[i].fence + 1] =
                     [state |-> "leased", expires |-> now + LeaseTicks, outcome |-> "none"]]
    /\ UNCHANGED <<now, setBacks>>

Lease(i) ==
    LET f == intent[i].fence + 1 IN
    /\ intent' = [intent EXCEPT ![i].state = "claimed", ![i].fence = f]
    /\ attempt' = [attempt EXCEPT ![i][f] =
                     [state |-> "leased", expires |-> now + LeaseTicks, outcome |-> "none"]]
    /\ UNCHANGED <<now, setBacks>>

ClaimNext == \E i \in IntentIds :
    /\ Claimable(i)
    /\ \A j \in IntentIds \ {i} : Claimable(j) => Before(i, j)
    /\ Lease(i)

-----------------------------------------------------------------------------
(* An observation settles its attempt and, under the same fence, the       *)
(* intent; any other one is refused as stale and rolls back.               *)

Answer(tries, f, how) == [tries EXCEPT ![f] = [@ EXCEPT !.state = "done", !.outcome = how]]

\* Faulty form: the attempt is closed and its intent left claimed.
Settle_AttemptOnly(i, f, how) ==
    /\ attempt' = [attempt EXCEPT ![i] = Answer(@, f, how)]
    /\ UNCHANGED intent

Settle(i, f, how) ==
    /\ attempt' = [attempt EXCEPT ![i] = Answer(@, f, how)]
    /\ intent' = [intent EXCEPT ![i].state = "completed"]

\* Faulty form: any lease of the intent speaks for it.
CurrentFence_AnyLease(i, f) == intent[i].state = "claimed"

CurrentFence(i, f) == intent[i].state = "claimed" /\ intent[i].fence = f

Observe(i, f) ==
    /\ Leased(i, f)
    /\ CurrentFence(i, f)
    /\ Settle(i, f, "observed")
    /\ UNCHANGED <<now, setBacks>>

(* The candidate of the recovery of a lease that may not be reclaimed. *)
\* Faulty form: recovery looks past the leases that expire right now.
Ambiguous_Strict(i, f) == /\ intent[i].state = "claimed" /\ intent[i].request \notin Exact
                          /\ Leased(i, f) /\ attempt[i][f].expires < now

Ambiguous(i, f) == /\ intent[i].state = "claimed" /\ intent[i].request \notin Exact
                   /\ Leased(i, f) /\ attempt[i][f].expires <= now

RecoverAmbiguous(i, f) ==
    /\ Ambiguous(i, f)
    /\ attempt' = [attempt EXCEPT ![i] = Answer(@, f, "unknown")]
    /\ IF Recovery[intent[i].request] = NoRequest
       THEN intent' = [intent EXCEPT ![i].state = "completed"]
       ELSE \E j \in IntentIds :
              /\ NextId(j)
              /\ intent' = [intent EXCEPT ![i].state = "completed",
                               ![j] = NewIntent(Recovery[intent[i].request], now)]
    /\ UNCHANGED <<now, setBacks>>

-----------------------------------------------------------------------------
(* Withdrawal: a cancellation supersedes an intent and its open attempts;  *)
(* a download workflow that changes its mind retires them unanswered.      *)

ClosedAttempts(i, how) ==
    [f \in Fences |-> IF Leased(i, f) THEN [attempt[i][f] EXCEPT !.state = how]
                                      ELSE attempt[i][f]]

Supersede(i) ==
    /\ Open(i)
    /\ intent' = [intent EXCEPT ![i].state = "superseded"]
    /\ attempt' = [attempt EXCEPT ![i] = ClosedAttempts(i, "superseded")]
    /\ UNCHANGED <<now, setBacks>>

Retire(i) ==
    /\ Open(i)
    /\ intent' = [intent EXCEPT ![i].state = "completed"]
    /\ attempt' = [attempt EXCEPT ![i] = ClosedAttempts(i, "done")]
    /\ UNCHANGED <<now, setBacks>>

-----------------------------------------------------------------------------
Tick == /\ now < MaxNow
        /\ now' = now + 1
        /\ UNCHANGED <<setBacks, intent, attempt>>

SetBack == /\ setBacks < MaxSetBacks
           /\ \E t \in 0 .. now - 1 : now' = t
           /\ setBacks' = setBacks + 1
           /\ UNCHANGED <<intent, attempt>>

Next == \/ \E r \in Requests, d \in Delays : Authorize(r, d)
        \/ ClaimNext
        \/ \E i \in IntentIds, f \in Fences : Observe(i, f)
        \/ \E i \in IntentIds, f \in Fences : RecoverAmbiguous(i, f)
        \/ \E i \in IntentIds : Supersede(i)
        \/ \E i \in IntentIds : Retire(i)
        \/ Tick
        \/ SetBack

Spec == Init /\ [][Next]_vars

(* The facade polls (reconcile_expired_effects, then claim_next) whenever  *)
(* the host asks for work, and the clock runs.                             *)
PolledSpec == /\ Spec
              /\ WF_vars(Tick)
              /\ WF_vars(ClaimNext)
              /\ \A i \in IntentIds, f \in Fences : WF_vars(RecoverAmbiguous(i, f))

(* In addition every host that holds an exact lease answers, or its effect *)
(* is withdrawn.  Nothing is assumed of the holders of ambiguous ones.     *)
AnsweredSpec == /\ PolledSpec
                /\ \A i \in IntentIds, f \in Fences :
                      WF_vars(intent[i].request \in Exact /\ Observe(i, f))

-----------------------------------------------------------------------------
(* An outcome is only ever recorded by the attempt that holds the intent's *)
(* latest fence, and it settles the intent: however many leases an effect  *)
(* had, and however late their holders answer, it has one outcome.         *)
OutcomeUnderFence == \A i \in IntentIds, f \in Fences :
    attempt[i][f].outcome # "none" => /\ intent[i].state = "completed"
                                      /\ intent[i].fence = f

(* While the clock has only run forward, two hosts never hold a good lease *)
(* of one effect at a time, whether or not it is settled.                  *)
OneLiveLease == setBacks = 0 =>
    \A i \in IntentIds, f \in Fences : Live(i, f) => f = intent[i].fence

(* A claimed intent has an open attempt under its latest fence: somebody   *)
(* can still settle it.  Without it an ambiguous effect, which is never    *)
(* leased again, would be stuck for good.                                  *)
ClaimedIsHeld == \A i \in IntentIds :
    intent[i].state = "claimed" =>
        \E f \in Fences : intent[i].fence = f /\ Leased(i, f)

(* An effect whose execution may not be repeated is leased at most once.   *)
AmbiguousLeasedOnce == \A i \in IntentIds :
    intent[i].request \notin Exact => intent[i].fence <= 1

(* While the clock has only run forward, the publisher fetches in flight   *)
(* never exceed the limit.                                                 *)
PublisherBound == setBacks = 0 => Cardinality(LivePublishers) <= PublisherLimit

(* A settled effect stays as it was settled: no later claim, observation,  *)
(* recovery or cancellation touches its row or gives it another outcome.   *)
SettledForever == [][\A i \in IntentIds : Settled(i) =>
    /\ intent'[i] = intent[i]
    /\ \A f \in Fences : attempt'[i][f].outcome = attempt[i][f].outcome]_vars

(* The work of a crashed holder of an ambiguous lease is settled in the    *)
(* end: recovery finds it once the lease has expired.                      *)
AmbiguousSettles == \A i \in IntentIds, f \in Fences :
    (intent[i].request \notin Exact /\ Leased(i, f) /\ attempt[i][f].expires <= MaxNow)
        ~> Settled(i)

(* When hosts answer what they lease, every authorised effect is offered   *)
(* to a host in the end: neither the order of the queue nor a slot of the  *)
(* publisher limit held by a dead lease keeps it back for ever.            *)
EveryEffectIsOffered == \A i \in IntentIds :
    (intent[i].state = "pending" /\ intent[i].available <= MaxNow)
        ~> (intent[i].state # "pending")

-----------------------------------------------------------------------------
(* What the rows say of an effect in the terms of EffectAuthority.         *)

Outcomes(tries) == {f \in Fences : tries[f].outcome # "none"}

AuthorityStatus(state) == CASE state = "absent"  -> "none"
                            [] state = "pending" -> "authorized"
                            [] state = "claimed" -> "granted"
                            [] OTHER             -> "settled"

AuthorityOf(row, tries) ==
    [status  |-> AuthorityStatus(row.state),
     request |-> row.request,
     grants  |-> row.fence,
     outcome |-> IF Outcomes(tries) = {} THEN 0 ELSE CHOOSE f \in Outcomes(tries) : TRUE]

Authority == INSTANCE EffectAuthority
    WITH Intents   <- IntentIds,
         authority <- [i \in IntentIds |-> AuthorityOf(intent[i], attempt[i])]

(* The outbox implements the life cycle every effect is promised.          *)
ImplementsAuthority == Authority!ASpec
=============================================================================
