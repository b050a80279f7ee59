------------------------- MODULE EffectOutboxProofs -------------------------
(***************************************************************************)
(* What the outbox guarantees for every table size, lease duration, set of *)
(* requests and clock history.                                             *)
(*                                                                         *)
(* Every invariant but one speaks of one intent and its attempts, so it is *)
(* the conjunction over all intents of RowInv, and an action keeps it when *)
(* it keeps RowInv of the rows it writes.  PublisherBound counts the good  *)
(* leases of all intents; it is kept because only a claim adds to them.    *)
(***************************************************************************)
EXTENDS EffectOutbox, FiniteSetTheorems, TLAPS

Tries == [Fences -> AttemptRow]

RowInv(row, tries) ==
    /\ row.state = "absent" <=> row.request = NoRequest
    /\ row.state \in {"absent", "pending"} => row.fence = 0
    /\ row.state = "claimed" => row.fence > 0 /\ tries[row.fence].state = "leased"
    /\ row.request \notin Exact => row.fence <= 1
    /\ \A f \in Fences :
          /\ tries[f].state # "none" <=> f <= row.fence
          /\ tries[f].outcome # "none" => /\ row.state = "completed"
                                          /\ row.fence = f
                                          /\ tries[f].state = "done"

Inv == /\ now \in 0 .. MaxNow
       /\ setBacks \in 0 .. MaxSetBacks
       /\ intent \in [IntentIds -> IntentRow]
       /\ attempt \in [IntentIds -> Tries]
       /\ \A i \in IntentIds : RowInv(intent[i], attempt[i])

-----------------------------------------------------------------------------
(* The rows an action writes. *)

LEMMA NewRow ==
  ASSUME NEW row \in IntentRow, NEW tries \in Tries, RowInv(row, tries), row.state = "absent",
         NEW r \in Requests, NEW due \in Nat, now \in Nat
  PROVE  /\ NewIntent(r, due) \in IntentRow
         /\ RowInv(NewIntent(r, due), tries)
<1>1. NewIntent(r, due) \in IntentRow
  BY BoundsAssumption DEF NewIntent, IntentRow
<1>2. \A f \in Fences : ~ (f <= 0)
  BY BoundsAssumption DEF Fences
<1>3. row.fence = 0
  BY DEF RowInv
<1>. QED
  BY <1>1, <1>2, <1>3, RequestAssumption DEF NewIntent, RowInv

LEMMA LeaseRow ==
  ASSUME NEW row \in IntentRow, NEW tries \in Tries, RowInv(row, tries),
         row.state = "pending" \/ (row.state = "claimed" /\ row.request \in Exact),
         row.fence < MaxFence, NEW due \in Nat,
         NEW new, new = [row EXCEPT !.state = "claimed", !.fence = row.fence + 1],
         NEW newTries, newTries = [tries EXCEPT ![row.fence + 1] =
                             [state |-> "leased", expires |-> due, outcome |-> "none"]]
  PROVE  new \in IntentRow /\ newTries \in Tries /\ RowInv(new, newTries)
<1>0. row.fence \in 0 .. MaxFence
  BY DEF IntentRow
<1>1. row.fence \in Nat /\ row.fence + 1 \in Fences /\ row.fence + 1 \in 0 .. MaxFence
  BY <1>0, BoundsAssumption DEF Fences
<1>2. new \in IntentRow /\ new.state = "claimed" /\ new.fence = row.fence + 1
      /\ new.request = row.request
  BY <1>1 DEF IntentRow
<1>3. newTries \in Tries
  BY <1>1 DEF Tries, AttemptRow
<1>4. \A f \in Fences : /\ f = row.fence + 1 => newTries[f].state = "leased"
                                                /\ newTries[f].outcome = "none"
                        /\ f # row.fence + 1 => newTries[f] = tries[f]
  BY DEF Tries
<1>5. \A f \in Fences : f \in Nat
  BY DEF Fences
<1>6. row.request \notin Exact => row.fence = 0
  BY DEF RowInv
<1>7. \A f \in Fences : tries[f].outcome = "none"
  BY DEF RowInv, Tries, AttemptRow
<1>8. \A f \in Fences : newTries[f].state # "none" <=> f <= row.fence + 1
  BY <1>1, <1>4, <1>5 DEF RowInv
<1>9. row.state # "absent"
  OBVIOUS
<1>. QED
  BY <1>1, <1>2, <1>3, <1>4, <1>6, <1>7, <1>8, <1>9 DEF RowInv

CompletedRow(row) == [row EXCEPT !.state = "completed"]

LEMMA SettledRow ==
  ASSUME NEW row \in IntentRow, NEW tries \in Tries, RowInv(row, tries),
         row.state = "claimed", NEW f \in Fences, row.fence = f,
         NEW how \in {"observed", "unknown"}
  PROVE  /\ CompletedRow(row) \in IntentRow
         /\ Answer(tries, f, how) \in Tries
         /\ RowInv(CompletedRow(row), Answer(tries, f, how))
<1> DEFINE new == CompletedRow(row)
           newTries == Answer(tries, f, how)
<1>1. new \in IntentRow /\ new.state = "completed" /\ new.fence = f
      /\ new.request = row.request
  BY DEF CompletedRow, IntentRow
<1>2. newTries \in Tries
  BY DEF Answer, Tries, AttemptRow
<1>3. newTries[f].state = "done" /\ newTries[f].outcome = how
  BY DEF Answer, Tries, AttemptRow
<1>4. \A g \in Fences : g # f => newTries[g] = tries[g]
  BY DEF Answer, Tries
<1>5. tries[f].state = "leased"
  BY DEF RowInv
<1> HIDE DEF new, newTries
<1>6. RowInv(new, newTries)
  BY <1>1, <1>2, <1>3, <1>4, <1>5 DEF RowInv
<1>. QED
  BY <1>1, <1>2, <1>6 DEF new, newTries

LEMMA WithdrawnRow ==
  ASSUME NEW row \in IntentRow, NEW tries \in Tries, RowInv(row, tries),
         row.state \in {"pending", "claimed"},
         NEW s \in {"completed", "superseded"}, NEW how \in {"done", "superseded"},
         NEW new, new = [row EXCEPT !.state = s],
         NEW newTries, newTries = [f \in Fences |-> IF tries[f].state = "leased"
                                      THEN [tries[f] EXCEPT !.state = how] ELSE tries[f]]
  PROVE  new \in IntentRow /\ newTries \in Tries /\ RowInv(new, newTries)
<1>1. new \in IntentRow /\ new.state = s /\ new.fence = row.fence
      /\ new.request = row.request
  BY DEF IntentRow
<1>2. newTries \in Tries
  BY DEF Tries, AttemptRow
<1>3. \A f \in Fences : /\ newTries[f].state # "none" <=> tries[f].state # "none"
                        /\ newTries[f].outcome = tries[f].outcome
  BY DEF Tries, AttemptRow
<1>4. \A f \in Fences : tries[f].outcome = "none"
  BY DEF RowInv
<1>. QED
  BY <1>1, <1>2, <1>3, <1>4 DEF RowInv

-----------------------------------------------------------------------------
(* What a transaction may do to one intent and its attempts.  The actions  *)
(* of the outbox and those of every workflow that writes its two tables    *)
(* are shown to do nothing else; what follows from it is shown once.       *)

Appended(row, tries, new, newTries) ==
    /\ row.state = "absent"
    /\ \E r \in Requests, due \in Nat : new = NewIntent(r, due)
    /\ newTries = tries

Granted(row, tries, new, newTries) ==
    /\ row.state = "pending" \/ (row.state = "claimed" /\ row.request \in Exact)
    /\ row.fence < MaxFence
    /\ new = [row EXCEPT !.state = "claimed", !.fence = row.fence + 1]
    /\ \E due \in Nat : newTries = [tries EXCEPT ![row.fence + 1] =
                             [state |-> "leased", expires |-> due, outcome |-> "none"]]

Answered(row, tries, new, newTries) ==
    /\ row.state = "claimed"
    /\ new = CompletedRow(row)
    /\ \E f \in Fences, how \in {"observed", "unknown"} :
          row.fence = f /\ newTries = Answer(tries, f, how)

Withdrawn(row, tries, new, newTries) ==
    /\ row.state \in {"pending", "claimed"}
    /\ \E s \in {"completed", "superseded"} : new = [row EXCEPT !.state = s]
    /\ \E how \in {"done", "superseded"} :
          newTries = [f \in Fences |-> IF tries[f].state = "leased"
                                      THEN [tries[f] EXCEPT !.state = how] ELSE tries[f]]

RowStep(row, tries, new, newTries) ==
    \/ new = row /\ newTries = tries
    \/ Appended(row, tries, new, newTries)
    \/ Granted(row, tries, new, newTries)
    \/ Answered(row, tries, new, newTries)
    \/ Withdrawn(row, tries, new, newTries)

OutboxStep ==
    /\ now' \in 0 .. MaxNow /\ setBacks' \in 0 .. MaxSetBacks
    /\ intent' = [i \in IntentIds |-> intent'[i]]
    /\ attempt' = [i \in IntentIds |-> attempt'[i]]
    /\ \A i \in IntentIds : RowStep(intent[i], attempt[i], intent'[i], attempt'[i])

LEMMA RowStepInv ==
  ASSUME NEW row \in IntentRow, NEW tries \in Tries, RowInv(row, tries), now \in Nat,
         NEW new, NEW newTries, RowStep(row, tries, new, newTries)
  PROVE  new \in IntentRow /\ newTries \in Tries /\ RowInv(new, newTries)
<1>1. CASE new = row /\ newTries = tries
  BY <1>1
<1>2. CASE Appended(row, tries, new, newTries)
  BY <1>2, NewRow DEF Appended
<1>3. CASE Granted(row, tries, new, newTries)
  BY <1>3, LeaseRow DEF Granted
<1>4. CASE Answered(row, tries, new, newTries)
  BY <1>4, SettledRow DEF Answered
<1>5. CASE Withdrawn(row, tries, new, newTries)
  BY <1>5, WithdrawnRow DEF Withdrawn
<1>. QED
  BY <1>1, <1>2, <1>3, <1>4, <1>5 DEF RowStep

LEMMA OutboxStepInv == Inv /\ OutboxStep => Inv'
<1>1. SUFFICES ASSUME Inv, OutboxStep PROVE Inv'
  OBVIOUS
<1>2. now \in Nat
  BY <1>1, BoundsAssumption DEF Inv
<1>3. ASSUME NEW i \in IntentIds
      PROVE  intent'[i] \in IntentRow /\ attempt'[i] \in Tries /\ RowInv(intent'[i], attempt'[i])
  BY <1>1, <1>2, RowStepInv DEF Inv, OutboxStep
<1>4. intent' \in [IntentIds -> IntentRow] /\ attempt' \in [IntentIds -> Tries]
  BY <1>1, <1>3 DEF OutboxStep
<1>. QED
  BY <1>1, <1>3, <1>4
     DEF Inv, OutboxStep, RowInv, IntentRow, Tries, AttemptRow, Fences, IntentIds

-----------------------------------------------------------------------------
(* The invariant holds at first and every step keeps it. *)

LEMMA InitInv == Init => Inv
<1>1. SUFFICES ASSUME Init PROVE Inv
  OBVIOUS
<1>2. NoIntent \in IntentRow /\ NoAttempt \in AttemptRow
  BY BoundsAssumption DEF NoIntent, NoAttempt, IntentRow, AttemptRow
<1>3. \A f \in Fences : ~ (f <= 0)
  BY DEF Fences
<1>4. \A i \in IntentIds : RowInv(intent[i], attempt[i])
  BY <1>1, <1>3, RequestAssumption DEF Init, RowInv, NoIntent, NoAttempt
<1>. QED
  BY <1>1, <1>2, <1>4, BoundsAssumption DEF Init, Inv, Tries

(* A step that writes the rows of one intent. *)
LEMMA OneRow ==
  ASSUME Inv, NEW i \in IntentIds, NEW new, NEW newTries,
         RowStep(intent[i], attempt[i], new, newTries),
         intent' = [intent EXCEPT ![i] = new],
         attempt' = [attempt EXCEPT ![i] = newTries],
         UNCHANGED <<now, setBacks>>
  PROVE  OutboxStep
<1>1. intent \in [IntentIds -> IntentRow] /\ attempt \in [IntentIds -> Tries]
  BY DEF Inv
<1>2. /\ intent' = [j \in IntentIds |-> intent'[j]]
      /\ attempt' = [j \in IntentIds |-> attempt'[j]]
  BY <1>1
<1>3. ASSUME NEW j \in IntentIds PROVE RowStep(intent[j], attempt[j], intent'[j], attempt'[j])
  <2>1. CASE j = i
    BY <1>1, <2>1
  <2>2. CASE j # i
    BY <1>1, <2>2 DEF RowStep
  <2>. QED
    BY <2>1, <2>2
<1>. QED
  BY <1>2, <1>3 DEF Inv, OutboxStep

LEMMA AuthorizeSteps ==
  ASSUME Inv, NEW r \in Requests, NEW d \in Delays, Authorize(r, d)
  PROVE  OutboxStep
<1>1. PICK i \in IntentIds :
         /\ intent[i].state = "absent"
         /\ intent' = [intent EXCEPT ![i] = NewIntent(r, now + d)]
         /\ UNCHANGED <<now, setBacks, attempt>>
  BY DEF Authorize, NextId
<1>2. now + d \in Nat
  BY BoundsAssumption DEF Inv
<1>3. attempt' = [attempt EXCEPT ![i] = attempt[i]]
  BY <1>1 DEF Inv
<1>4. RowStep(intent[i], attempt[i], NewIntent(r, now + d), attempt[i])
  BY <1>1, <1>2 DEF RowStep, Appended
<1>. QED
  BY <1>1, <1>3, <1>4, OneRow

LEMMA LeaseSteps ==
  ASSUME Inv, NEW i \in IntentIds, Claimable(i), Lease(i)
  PROVE  OutboxStep
<1> DEFINE new == [intent[i] EXCEPT !.state = "claimed", !.fence = intent[i].fence + 1]
           lease == [state |-> "leased", expires |-> now + LeaseTicks, outcome |-> "none"]
           newTries == [attempt[i] EXCEPT ![intent[i].fence + 1] = lease]
<1>1. now + LeaseTicks \in Nat
  BY BoundsAssumption DEF Inv
<1>2. RowStep(intent[i], attempt[i], new, newTries)
  BY <1>1 DEF Claimable, Reclaimable, RowStep, Granted
<1>3. intent' = [intent EXCEPT ![i] = new] /\ attempt' = [attempt EXCEPT ![i] = newTries]
      /\ UNCHANGED <<now, setBacks>>
  BY DEF Lease, Inv
<1> HIDE DEF new, newTries
<1>. QED
  BY <1>2, <1>3, OneRow

LEMMA SettleSteps ==
  ASSUME Inv, NEW i \in IntentIds, NEW f \in Fences, CurrentFence(i, f),
         Settle(i, f, "observed"), UNCHANGED <<now, setBacks>>
  PROVE  OutboxStep
<1> DEFINE new == CompletedRow(intent[i])
           newTries == Answer(attempt[i], f, "observed")
<1>1. RowStep(intent[i], attempt[i], new, newTries)
  BY DEF CurrentFence, RowStep, Answered
<1>2. intent' = [intent EXCEPT ![i] = new] /\ attempt' = [attempt EXCEPT ![i] = newTries]
  BY DEF Settle, Inv, CompletedRow, Answer
<1> HIDE DEF new, newTries
<1>. QED
  BY <1>1, <1>2, OneRow

(* The lease of an ambiguous effect is its only one, hence its latest.     *)
LEMMA AmbiguousIsLatest ==
  ASSUME Inv, NEW i \in IntentIds, NEW f \in Fences, Ambiguous(i, f)
  PROVE  intent[i].fence = f
<1>1. intent[i] \in IntentRow /\ RowInv(intent[i], attempt[i])
  BY DEF Inv
<1>2. intent[i].fence \in Nat /\ intent[i].fence <= 1 /\ f <= intent[i].fence
  BY <1>1, BoundsAssumption DEF Ambiguous, Leased, RowInv, IntentRow
<1>. QED
  BY <1>2 DEF Fences

LEMMA RecoverSteps ==
  ASSUME Inv, NEW i \in IntentIds, NEW f \in Fences, RecoverAmbiguous(i, f)
  PROVE  OutboxStep
<1> DEFINE new == CompletedRow(intent[i])
           newTries == Answer(attempt[i], f, "unknown")
<1>1. /\ intent \in [IntentIds -> IntentRow] /\ attempt \in [IntentIds -> Tries]
      /\ RowInv(intent[i], attempt[i]) /\ now \in Nat
  BY BoundsAssumption DEF Inv
<1>2. intent[i].state = "claimed" /\ intent[i].fence = f
  BY AmbiguousIsLatest DEF RecoverAmbiguous, Ambiguous
<1>3. RowStep(intent[i], attempt[i], new, newTries)
  BY <1>2 DEF RowStep, Answered
<1>4. attempt' = [attempt EXCEPT ![i] = newTries] /\ UNCHANGED <<now, setBacks>>
  BY <1>1 DEF RecoverAmbiguous, Answer
<1>5. CASE Recovery[intent[i].request] = NoRequest
  <2>1. intent' = [intent EXCEPT ![i] = new]
    BY <1>1, <1>5 DEF RecoverAmbiguous, CompletedRow
  <2> HIDE DEF new, newTries
  <2>. QED
    BY <1>3, <1>4, <2>1, OneRow
<1>6. CASE Recovery[intent[i].request] # NoRequest
  <2> DEFINE again == NewIntent(Recovery[intent[i].request], now)
  <2>1. PICK j \in IntentIds :
          /\ intent[j].state = "absent"
          /\ intent' = [intent EXCEPT ![i].state = "completed", ![j] = again]
    BY <1>6 DEF RecoverAmbiguous, NextId
  <2>2. j # i /\ intent'[i] = new /\ intent'[j] = again
        /\ \A k \in IntentIds \ {i, j} : intent'[k] = intent[k]
    BY <1>1, <1>2, <2>1 DEF CompletedRow
  <2>3. attempt'[i] = newTries /\ \A k \in IntentIds \ {i} : attempt'[k] = attempt[k]
    BY <1>1, <1>4
  <2>4. intent[i].request # NoRequest
    BY <1>1, <1>2 DEF RowInv
  <2>5. Recovery[intent[i].request] \in Requests
    BY <1>1, <1>6, <2>4, RequestAssumption DEF RecoverAmbiguous, Ambiguous, IntentRow
  <2>6. RowStep(intent[j], attempt[j], again, attempt[j])
    BY <1>1, <2>1, <2>5 DEF RowStep, Appended
  <2>7. /\ intent' = [k \in IntentIds |-> intent'[k]]
        /\ attempt' = [k \in IntentIds |-> attempt'[k]]
    BY <1>1, <1>4, <2>1
  <2>8. ASSUME NEW k \in IntentIds PROVE RowStep(intent[k], attempt[k], intent'[k], attempt'[k])
    <3> HIDE DEF again, new, newTries
    <3>1. CASE k = i
      BY <1>3, <2>2, <2>3, <3>1
    <3>2. CASE k = j
      BY <2>2, <2>3, <2>6, <3>2
    <3>3. CASE k # i /\ k # j
      BY <2>2, <2>3, <3>3 DEF RowStep
    <3>. QED
      BY <3>1, <3>2, <3>3
  <2>. QED
    BY <1>4, <2>7, <2>8 DEF Inv, OutboxStep
<1>. QED
  BY <1>5, <1>6

LEMMA WithdrawSteps ==
  ASSUME Inv, NEW i \in IntentIds, Supersede(i) \/ Retire(i)
  PROVE  OutboxStep
<1>1. PICK s \in {"completed", "superseded"}, how \in {"done", "superseded"} :
         /\ intent' = [intent EXCEPT ![i].state = s]
         /\ attempt' = [attempt EXCEPT ![i] = ClosedAttempts(i, how)]
         /\ UNCHANGED <<now, setBacks>>
  BY DEF Supersede, Retire
<1> DEFINE new == [intent[i] EXCEPT !.state = s]
           newTries == [f \in Fences |-> IF attempt[i][f].state = "leased"
                            THEN [attempt[i][f] EXCEPT !.state = how] ELSE attempt[i][f]]
<1>2. RowStep(intent[i], attempt[i], new, newTries)
  BY DEF Supersede, Retire, Open, RowStep, Withdrawn
<1>3. intent' = [intent EXCEPT ![i] = new] /\ attempt' = [attempt EXCEPT ![i] = newTries]
  BY <1>1 DEF ClosedAttempts, Leased, Inv
<1> HIDE DEF new, newTries
<1>. QED
  BY <1>1, <1>2, <1>3, OneRow

LEMMA ClockSteps ==
  ASSUME Inv, Tick \/ SetBack \/ UNCHANGED vars
  PROVE  OutboxStep
<1>1. now' \in 0 .. MaxNow /\ setBacks' \in 0 .. MaxSetBacks
  BY BoundsAssumption DEF Inv, Tick, SetBack, vars
<1>2. UNCHANGED <<intent, attempt>>
  BY DEF Tick, SetBack, vars
<1>. QED
  BY <1>1, <1>2 DEF Inv, OutboxStep, RowStep

LEMMA NextSteps == Inv /\ [Next]_vars => OutboxStep
<1>1. SUFFICES ASSUME Inv, [Next]_vars PROVE OutboxStep
  OBVIOUS
<1>2. ASSUME NEW r \in Requests, NEW d \in Delays, Authorize(r, d) PROVE OutboxStep
  BY <1>1, <1>2, AuthorizeSteps
<1>3. CASE ClaimNext
  BY <1>1, <1>3, LeaseSteps DEF ClaimNext
<1>4. ASSUME NEW i \in IntentIds, NEW f \in Fences, Observe(i, f) PROVE OutboxStep
  BY <1>1, <1>4, SettleSteps DEF Observe
<1>5. ASSUME NEW i \in IntentIds, NEW f \in Fences, RecoverAmbiguous(i, f) PROVE OutboxStep
  BY <1>1, <1>5, RecoverSteps
<1>6. ASSUME NEW i \in IntentIds, Supersede(i) \/ Retire(i) PROVE OutboxStep
  BY <1>1, <1>6, WithdrawSteps
<1>7. CASE Tick \/ SetBack \/ UNCHANGED vars
  BY <1>1, <1>7, ClockSteps
<1>. QED
  BY <1>1, <1>2, <1>3, <1>4, <1>5, <1>6, <1>7 DEF Next

LEMMA StepInv == Inv /\ [Next]_vars => Inv'
  BY NextSteps, OutboxStepInv

-----------------------------------------------------------------------------
(* The invariant of every behaviour, and what follows from it. *)

THEOREM Invariance == Spec => []Inv
  BY InitInv, StepInv, PTL DEF Spec

(* The rows of both tables always have their types, whatever the bounds.   *)
THEOREM TypeCorrect == Spec => []TypeOK
<1>1. Inv => TypeOK
  BY DEF Inv, RowInv, TypeOK, Tries
<1>. QED
  BY <1>1, Invariance, PTL

(* However many leases an effect had and however late their holders        *)
(* answer, its one outcome comes from the attempt with the latest fence.   *)
THEOREM OneOutcome == Spec => []OutcomeUnderFence
<1>1. Inv => OutcomeUnderFence
  BY DEF Inv, RowInv, OutcomeUnderFence
<1>. QED
  BY <1>1, Invariance, PTL

(* A claimed effect can always still be settled by its latest attempt.     *)
THEOREM ClaimHeld == Spec => []ClaimedIsHeld
<1>1. Inv => ClaimedIsHeld
  BY DEF Inv, RowInv, IntentRow, ClaimedIsHeld, Leased, Fences
<1>. QED
  BY <1>1, Invariance, PTL

(* Work that may not be repeated is handed out at most once.               *)
THEOREM AmbiguousOnce == Spec => []AmbiguousLeasedOnce
<1>1. Inv => AmbiguousLeasedOnce
  BY DEF Inv, RowInv, AmbiguousLeasedOnce
<1>. QED
  BY <1>1, Invariance, PTL

-----------------------------------------------------------------------------
(* Action properties. *)

LEMMA StepSettled ==
  ASSUME Inv, [Next]_vars, NEW i \in IntentIds, Settled(i)
  PROVE  /\ intent'[i] = intent[i]
         /\ \A f \in Fences : attempt'[i][f].outcome = attempt[i][f].outcome
<1>1. RowStep(intent[i], attempt[i], intent'[i], attempt'[i])
  BY NextSteps DEF OutboxStep
<1>. QED
  BY <1>1 DEF Settled, RowStep, Appended, Granted, Answered, Withdrawn

(* A settled effect is never claimed, answered, recovered or cancelled     *)
(* again: its row and its outcomes are final.                              *)
THEOREM SettledIsFinal == Spec => SettledForever
<1>1. Inv /\ [Next]_vars => [\A i \in IntentIds : Settled(i) =>
          /\ intent'[i] = intent[i]
          /\ \A f \in Fences : attempt'[i][f].outcome = attempt[i][f].outcome]_vars
  BY StepSettled
<1>. QED
  BY <1>1, Invariance, PTL DEF Spec, SettledForever

-----------------------------------------------------------------------------
(* Leases in time. *)

(* Only a claim makes a lease good: an effect that has a good one after    *)
(* another step had it before, unless the clock has been set back.         *)
LEMMA OnlyClaimsGoLive ==
  ASSUME Inv, [Next]_vars, ~ ClaimNext, setBacks' = 0,
         NEW i \in IntentIds, NEW f \in Fences, Live(i, f)'
  PROVE  /\ Live(i, f) /\ setBacks = 0
         /\ intent'[i].fence = intent[i].fence /\ intent'[i].request = intent[i].request
<1> DEFINE Goal == /\ Live(i, f) /\ setBacks = 0
                   /\ intent'[i].fence = intent[i].fence
                   /\ intent'[i].request = intent[i].request
<1>1. /\ intent \in [IntentIds -> IntentRow] /\ attempt \in [IntentIds -> Tries]
      /\ now \in Nat /\ setBacks \in Nat
      /\ RowInv(intent[i], attempt[i])
  BY BoundsAssumption DEF Inv
<1>2. Leased(i, f) => intent[i].state # "absent"
  BY <1>1 DEF RowInv, Leased, Fences
<1>3. ASSUME NEW r \in Requests, NEW d \in Delays, Authorize(r, d)
      PROVE  Goal
  <2>1. PICK j \in IntentIds :
          /\ intent[j].state = "absent"
          /\ intent' = [intent EXCEPT ![j] = NewIntent(r, now + d)]
          /\ UNCHANGED <<now, setBacks, attempt>>
    BY <1>3 DEF Authorize, NextId
  <2>2. Live(i, f) /\ setBacks = 0 /\ i # j
    BY <1>2, <2>1 DEF Live, Leased
  <2>. QED
    BY <1>1, <2>1, <2>2
<1>4. ASSUME NEW j \in IntentIds, NEW g \in Fences, Observe(j, g)
      PROVE  Goal
  <2>1. /\ intent'[i].fence = intent[i].fence /\ intent'[i].request = intent[i].request
        /\ UNCHANGED <<now, setBacks>>
        /\ attempt' = [attempt EXCEPT ![j] = Answer(@, g, "observed")]
    BY <1>1, <1>4 DEF Observe, Settle, IntentRow
  <2>2. Live(i, f)
    BY <1>1, <2>1 DEF Live, Leased, Answer, Tries, AttemptRow
  <2>. QED
    BY <2>1, <2>2
<1>5. ASSUME NEW j \in IntentIds, NEW g \in Fences, RecoverAmbiguous(j, g)
      PROVE  Goal
  <2>1. UNCHANGED <<now, setBacks>>
        /\ attempt' = [attempt EXCEPT ![j] = Answer(@, g, "unknown")]
    BY <1>5 DEF RecoverAmbiguous
  <2>2. Live(i, f)
    BY <1>1, <2>1 DEF Live, Leased, Answer, Tries, AttemptRow
  <2>3. intent[i].state # "absent"
    BY <1>2, <2>2 DEF Live
  <2>4. intent'[i].fence = intent[i].fence /\ intent'[i].request = intent[i].request
    BY <1>1, <1>5, <2>3 DEF RecoverAmbiguous, NextId, IntentRow
  <2>. QED
    BY <2>1, <2>2, <2>4
<1>6. ASSUME NEW j \in IntentIds, Supersede(j) \/ Retire(j)
      PROVE  Goal
  <2>1. PICK s \in {"completed", "superseded"}, how \in {"done", "superseded"} :
          /\ intent' = [intent EXCEPT ![j].state = s]
          /\ attempt' = [attempt EXCEPT ![j] = ClosedAttempts(j, how)]
          /\ UNCHANGED <<now, setBacks>>
    BY <1>6 DEF Supersede, Retire
  <2>2. intent'[i].fence = intent[i].fence /\ intent'[i].request = intent[i].request
    BY <1>1, <2>1 DEF IntentRow
  <2>3. Live(i, f)
    BY <1>1, <2>1 DEF Live, Leased, ClosedAttempts, Tries, AttemptRow
  <2>. QED
    BY <2>1, <2>2, <2>3
<1>7. CASE Tick \/ SetBack \/ UNCHANGED vars
  <2>1. UNCHANGED <<intent, attempt>>
    BY <1>7 DEF Tick, SetBack, vars
  <2>2. setBacks = 0 /\ now' >= now /\ now' \in Nat
    BY <1>1, <1>7 DEF Tick, SetBack, vars
  <2>3. attempt[i][f].expires \in Nat
    BY <1>1 DEF Tries, AttemptRow
  <2>. QED
    BY <1>1, <2>1, <2>2, <2>3 DEF Live, Leased
<1>. QED
  BY <1>3, <1>4, <1>5, <1>6, <1>7 DEF Next

(* A claim makes good one lease, under a new fence, of an effect that had  *)
(* no good one.                                                            *)
LEMMA ClaimGoesLive ==
  ASSUME Inv, NEW j \in IntentIds, Claimable(j), Lease(j)
  PROVE  /\ UNCHANGED <<now, setBacks>> /\ intent[j].fence + 1 \in Fences
         /\ \A i \in IntentIds : intent'[i].request = intent[i].request
         /\ \A i \in IntentIds, f \in Fences : Live(i, f)' =>
               \/ i = j /\ f = intent[j].fence + 1 /\ f = intent'[i].fence
               \/ i # j /\ Live(i, f) /\ intent'[i].fence = intent[i].fence
<1>1. /\ intent \in [IntentIds -> IntentRow] /\ attempt \in [IntentIds -> Tries]
      /\ RowInv(intent[j], attempt[j]) /\ intent[j].fence \in 0 .. MaxFence
      /\ intent[j].fence < MaxFence /\ UNCHANGED <<now, setBacks>>
  BY DEF Inv, IntentRow, Claimable, Lease
<1>2. intent[j].fence + 1 \in Fences
  BY <1>1, BoundsAssumption DEF Fences
<1>3. \A i \in IntentIds : intent'[i].request = intent[i].request
  BY <1>1 DEF Lease, IntentRow
<1>4. ASSUME NEW i \in IntentIds, NEW f \in Fences, Live(i, f)', i # j
      PROVE  Live(i, f) /\ intent'[i].fence = intent[i].fence
  <2>1. intent'[i] = intent[i] /\ attempt'[i] = attempt[i]
    BY <1>1, <1>4 DEF Lease
  <2>. QED
    BY <1>1, <1>4, <2>1 DEF Live, Leased
<1>5. ASSUME NEW f \in Fences, Live(j, f)'
      PROVE  f = intent[j].fence + 1 /\ f = intent'[j].fence
  <2>1. intent'[j].fence = intent[j].fence + 1
    BY <1>1 DEF Lease, IntentRow
  <2>2. f # intent[j].fence + 1 => attempt'[j][f] = attempt[j][f]
    BY <1>1 DEF Lease, Tries
  <2>3. ~ Live(j, f)
    BY <1>1 DEF Claimable, Reclaimable, RowInv, Live, Leased, Fences
  <2>. QED
    BY <1>1, <1>5, <2>1, <2>2, <2>3 DEF Live, Leased
<1>. QED
  BY <1>1, <1>2, <1>3, <1>4, <1>5

LEMMA StepOneLiveLease == Inv /\ OneLiveLease /\ [Next]_vars => OneLiveLease'
<1>1. SUFFICES ASSUME Inv, OneLiveLease, [Next]_vars, setBacks' = 0,
                      NEW i \in IntentIds, NEW f \in Fences, Live(i, f)'
               PROVE  f = intent'[i].fence
  BY DEF OneLiveLease
<1>2. CASE ClaimNext
  <2>1. PICK j \in IntentIds : Claimable(j) /\ Lease(j)
    BY <1>2 DEF ClaimNext
  <2>. QED
    BY <1>1, <2>1, ClaimGoesLive DEF OneLiveLease
<1>3. CASE ~ ClaimNext
  BY <1>1, <1>3, OnlyClaimsGoLive DEF OneLiveLease
<1>. QED
  BY <1>2, <1>3

(* While the clock has only run forward, an effect has at most one holder  *)
(* whose lease is good.                                                    *)
THEOREM LiveLeaseUnique == Spec => []OneLiveLease
<1>1. Init => OneLiveLease
  BY DEF Init, OneLiveLease, Live, Leased, NoAttempt
<1>. QED
  BY <1>1, StepOneLiveLease, Invariance, PTL DEF Spec

(* A claim takes one slot at most, and takes one only while one is free;   *)
(* no other step takes any.                                                *)
LEMMA StepPublisherBound == Inv /\ PublisherBound /\ [Next]_vars => PublisherBound'
<1>1. SUFFICES ASSUME Inv, PublisherBound, [Next]_vars, setBacks' = 0
               PROVE  Cardinality(LivePublishers') <= PublisherLimit
  BY DEF PublisherBound
<1>2. /\ IsFiniteSet(LivePublishers) /\ Cardinality(LivePublishers) \in Nat
      /\ PublisherLimit \in Nat
  <2>1. IsFiniteSet(IntentIds) /\ IsFiniteSet(Fences)
    BY FS_Interval, BoundsAssumption DEF IntentIds, Fences
  <2>2. IsFiniteSet(IntentIds \X Fences)
    BY <2>1, FS_Product
  <2>3. LivePublishers \in SUBSET (IntentIds \X Fences)
    BY DEF LivePublishers
  <2>4. IsFiniteSet(LivePublishers)
    BY <2>2, <2>3, FS_Subset
  <2>. QED
    BY <2>4, FS_CardinalityType, BoundsAssumption
<1>3. ASSUME setBacks = 0, LivePublishers' \subseteq LivePublishers
      PROVE  Cardinality(LivePublishers') <= PublisherLimit
  <2>1. /\ Cardinality(LivePublishers') <= Cardinality(LivePublishers)
        /\ IsFiniteSet(LivePublishers')
    BY <1>2, <1>3, FS_Subset
  <2>2. Cardinality(LivePublishers') \in Nat /\ Cardinality(LivePublishers) <= PublisherLimit
    BY <1>1, <1>3, <2>1, FS_CardinalityType DEF PublisherBound
  <2>. QED
    BY <1>2, <2>1, <2>2
<1>4. CASE ~ ClaimNext
  <2>1. CASE LivePublishers' = {}
    BY <1>2, <2>1, FS_EmptySet
  <2>2. CASE LivePublishers' # {}
    <3>1. LivePublishers' \subseteq LivePublishers
      BY <1>1, <1>4, OnlyClaimsGoLive DEF LivePublishers
    <3>2. setBacks = 0
      <4>1. PICK i \in IntentIds, f \in Fences : Live(i, f)'
        BY <2>2 DEF LivePublishers
      <4>. QED
        BY <1>1, <1>4, <4>1, OnlyClaimsGoLive
    <3>. QED
      BY <1>3, <3>1, <3>2
  <2>. QED
    BY <2>1, <2>2
<1>5. CASE ClaimNext
  <2>1. PICK j \in IntentIds : Claimable(j) /\ Lease(j)
    BY <1>5 DEF ClaimNext
  <2>2. /\ setBacks = 0
        /\ \A i \in IntentIds : intent'[i].request = intent[i].request
        /\ \A i \in IntentIds, f \in Fences : Live(i, f)' =>
              \/ i = j /\ f = intent[j].fence + 1
              \/ Live(i, f)
    BY <1>1, <2>1, ClaimGoesLive
  <2>3. CASE intent[j].request \notin Publishers
    <3>1. LivePublishers' \subseteq LivePublishers
      BY <2>2, <2>3 DEF LivePublishers
    <3>. QED
      BY <1>3, <2>2, <3>1
  <2>4. CASE intent[j].request \in Publishers
    <3> DEFINE slot == <<j, intent[j].fence + 1>>
    <3>1. LivePublishers' \subseteq LivePublishers \cup {slot}
      BY <2>2 DEF LivePublishers
    <3> HIDE DEF slot
    <3>2. Cardinality(LivePublishers) < PublisherLimit
      BY <2>1, <2>4 DEF Claimable, BelowPublisherLimit
    <3>3. /\ IsFiniteSet(LivePublishers \cup {slot})
          /\ Cardinality(LivePublishers \cup {slot}) <= Cardinality(LivePublishers) + 1
      BY <1>2, FS_AddElement
    <3>4. /\ Cardinality(LivePublishers') <= Cardinality(LivePublishers \cup {slot})
          /\ IsFiniteSet(LivePublishers')
      BY <3>1, <3>3, FS_Subset
    <3>5. Cardinality(LivePublishers') \in Nat /\ Cardinality(LivePublishers \cup {slot}) \in Nat
      BY <3>3, <3>4, FS_CardinalityType
    <3>. QED
      BY <1>2, <3>2, <3>3, <3>4, <3>5
  <2>. QED
    BY <2>3, <2>4
<1>. QED
  BY <1>4, <1>5

(* While the clock has only run forward, the publisher fetches in flight   *)
(* never exceed the limit.                                                 *)
THEOREM PublishersStayBounded == Spec => []PublisherBound
<1>1. Init => PublisherBound
  <2>1. Init => LivePublishers = {}
    BY DEF Init, LivePublishers, Live, Leased, NoAttempt
  <2>. QED
    BY <2>1, FS_EmptySet, BoundsAssumption DEF PublisherBound
<1>. QED
  BY <1>1, StepPublisherBound, Invariance, PTL DEF Spec

-----------------------------------------------------------------------------
(* The outbox implements EffectAuthority: each step moves every effect     *)
(* along its life cycle or leaves it.                                      *)

LEMMA OpenHasNoOutcome ==
  ASSUME NEW row \in IntentRow, NEW tries, RowInv(row, tries), row.state # "completed"
  PROVE  AuthorityOf(row, tries) = [status  |-> AuthorityStatus(row.state),
                                    request |-> row.request,
                                    grants  |-> row.fence, outcome |-> 0]
<1>1. Outcomes(tries) = {}
  BY DEF RowInv, Outcomes
<1>. QED
  BY <1>1 DEF AuthorityOf

LEMMA AuthorizeMaps ==
  ASSUME NEW row \in IntentRow, NEW tries \in Tries, RowInv(row, tries), row.state = "absent",
         NEW r \in Requests, NEW due \in Nat, now \in Nat
  PROVE  Authority!LifeCycle(AuthorityOf(row, tries), AuthorityOf(NewIntent(r, due), tries))
<1> DEFINE new == NewIntent(r, due)
<1>1. new \in IntentRow /\ RowInv(new, tries)
  BY NewRow
<1>2. /\ new.state = "pending" /\ new.request = r /\ new.fence = 0
      /\ row.request = NoRequest /\ row.fence = 0
  BY DEF NewIntent, RowInv
<1>3. AuthorityOf(row, tries) = Authority!Unauthorized
  BY <1>2, OpenHasNoOutcome DEF AuthorityStatus, Authority!Unauthorized, Authority!Effect
<1>4. AuthorityOf(new, tries) =
         [status |-> "authorized", request |-> r, grants |-> 0, outcome |-> 0]
  <2> HIDE DEF new
  <2>. QED
    BY <1>1, <1>2, OpenHasNoOutcome DEF AuthorityStatus
<1>. QED
  BY <1>3, <1>4
     DEF Authority!LifeCycle, Authority!Effect, Authority!Authorized,
         Authority!Unauthorized

LEMMA ClaimMaps ==
  ASSUME NEW row \in IntentRow, NEW tries, RowInv(row, tries),
         row.state = "pending" \/ (row.state = "claimed" /\ row.request \in Exact),
         NEW new \in IntentRow, NEW newTries, RowInv(new, newTries),
         new = [row EXCEPT !.state = "claimed", !.fence = row.fence + 1]
  PROVE  Authority!LifeCycle(AuthorityOf(row, tries), AuthorityOf(new, newTries))
<1>1. new.state = "claimed" /\ new.request = row.request /\ new.fence = row.fence + 1
  BY DEF IntentRow
<1>2. AuthorityOf(new, newTries) = [status |-> "granted", request |-> row.request,
                                    grants |-> row.fence + 1, outcome |-> 0]
  BY <1>1, OpenHasNoOutcome DEF AuthorityStatus
<1>3. AuthorityOf(row, tries) = [status |-> AuthorityStatus(row.state),
                                 request |-> row.request,
                                 grants |-> row.fence, outcome |-> 0]
  BY OpenHasNoOutcome
<1>. QED
  BY <1>2, <1>3
     DEF Authority!LifeCycle, Authority!Effect, Authority!Granted, AuthorityStatus

LEMMA AnswerMaps ==
  ASSUME NEW row \in IntentRow, NEW tries \in Tries, RowInv(row, tries),
         row.state = "claimed", NEW f \in Fences, row.fence = f,
         NEW how \in {"observed", "unknown"}
  PROVE  Authority!LifeCycle(AuthorityOf(row, tries),
                             AuthorityOf(CompletedRow(row), Answer(tries, f, how)))
<1> DEFINE new == CompletedRow(row)
           newTries == Answer(tries, f, how)
<1>1. new.state = "completed" /\ new.request = row.request /\ new.fence = f
  BY DEF CompletedRow, IntentRow
<1>2. newTries[f].outcome = how
  BY DEF Answer, Tries, AttemptRow
<1>3. RowInv(new, newTries)
  BY SettledRow
<1> HIDE DEF new, newTries
<1>4. Outcomes(newTries) = {f}
  BY <1>1, <1>2, <1>3 DEF RowInv, Outcomes
<1>5. AuthorityOf(new, newTries) = [status |-> "settled", request |-> row.request,
                                    grants |-> f, outcome |-> f]
  BY <1>1, <1>4 DEF AuthorityOf, AuthorityStatus
<1>6. AuthorityOf(row, tries) = [status |-> "granted", request |-> row.request,
                                 grants |-> f, outcome |-> 0]
  BY OpenHasNoOutcome DEF AuthorityStatus
<1>7. Authority!Answered(AuthorityOf(row, tries), AuthorityOf(new, newTries))
  BY <1>5, <1>6 DEF Authority!Answered, Authority!Effect
<1>. QED
  BY <1>7 DEF Authority!LifeCycle, Authority!Effect, new, newTries

LEMMA WithdrawMaps ==
  ASSUME NEW row \in IntentRow, NEW tries, RowInv(row, tries),
         row.state \in {"pending", "claimed"},
         NEW new \in IntentRow, NEW newTries,
         NEW s \in {"completed", "superseded"}, new = [row EXCEPT !.state = s],
         \A f \in Fences : newTries[f].outcome = tries[f].outcome
  PROVE  Authority!LifeCycle(AuthorityOf(row, tries), AuthorityOf(new, newTries))
<1>1. new.state = s /\ new.request = row.request /\ new.fence = row.fence
  BY DEF IntentRow
<1>2. Outcomes(newTries) = {}
  BY DEF RowInv, Outcomes
<1>3. AuthorityOf(new, newTries) = [status |-> "settled", request |-> row.request,
                                    grants |-> row.fence, outcome |-> 0]
  BY <1>1, <1>2 DEF AuthorityOf, AuthorityStatus
<1>4. AuthorityOf(row, tries) = [status |-> AuthorityStatus(row.state),
                                 request |-> row.request,
                                 grants |-> row.fence, outcome |-> 0]
  BY OpenHasNoOutcome
<1>. QED
  BY <1>3, <1>4
     DEF Authority!LifeCycle, Authority!Effect, Authority!Withdrawn, AuthorityStatus

LEMMA RowStepMaps ==
  ASSUME NEW row \in IntentRow, NEW tries \in Tries, RowInv(row, tries), now \in Nat,
         NEW new, NEW newTries, RowStep(row, tries, new, newTries)
  PROVE  \/ AuthorityOf(new, newTries) = AuthorityOf(row, tries)
         \/ Authority!LifeCycle(AuthorityOf(row, tries), AuthorityOf(new, newTries))
<1>1. new \in IntentRow /\ newTries \in Tries /\ RowInv(new, newTries)
  BY RowStepInv
<1>2. CASE new = row /\ newTries = tries
  BY <1>2
<1>3. CASE Appended(row, tries, new, newTries)
  BY <1>3, AuthorizeMaps DEF Appended
<1>4. CASE Granted(row, tries, new, newTries)
  BY <1>1, <1>4, ClaimMaps DEF Granted
<1>5. CASE Answered(row, tries, new, newTries)
  BY <1>5, AnswerMaps DEF Answered
<1>6. CASE Withdrawn(row, tries, new, newTries)
  <2>1. \A f \in Fences : newTries[f].outcome = tries[f].outcome
    BY <1>6 DEF Withdrawn, Tries, AttemptRow
  <2>. QED
    BY <1>1, <1>6, <2>1, WithdrawMaps DEF Withdrawn
<1>. QED
  BY <1>2, <1>3, <1>4, <1>5, <1>6 DEF RowStep

LEMMA OutboxStepMaps ==
  ASSUME Inv, OutboxStep, NEW i \in IntentIds
  PROVE  \/ AuthorityOf(intent'[i], attempt'[i]) = AuthorityOf(intent[i], attempt[i])
         \/ Authority!LifeCycle(AuthorityOf(intent[i], attempt[i]),
                                AuthorityOf(intent'[i], attempt'[i]))
<1>1. now \in Nat
  BY BoundsAssumption DEF Inv
<1>. QED
  BY <1>1, RowStepMaps DEF Inv, OutboxStep

LEMMA InitMaps ==
  ASSUME Init, NEW i \in IntentIds
  PROVE  AuthorityOf(intent[i], attempt[i]) = Authority!Unauthorized
<1>1. RowInv(intent[i], attempt[i]) /\ intent[i] \in IntentRow
  BY InitInv DEF Inv
<1>2. intent[i] = NoIntent
  BY DEF Init
<1>. QED
  BY <1>1, <1>2, OpenHasNoOutcome
     DEF NoIntent, AuthorityStatus, Authority!Unauthorized, Authority!Effect

(* Whatever moves the two tables row by row from the empty outbox on gives *)
(* every effect the life cycle it is promised.                             *)
THEOREM RowwiseImplementsAuthority ==
    Init /\ []Inv /\ [][OutboxStep]_vars => ImplementsAuthority
<1> DEFINE mapped == [i \in IntentIds |-> AuthorityOf(intent[i], attempt[i])]
<1>1. Init => Authority!AInit
  BY InitMaps DEF Authority!AInit
<1>2. Inv /\ [OutboxStep]_vars => [Authority!ANext]_mapped
  <2>1. ASSUME NEW i \in IntentIds
        PROVE  AuthorityOf(intent[i], attempt[i])' = AuthorityOf(intent'[i], attempt'[i])
    BY DEF AuthorityOf, Outcomes, AuthorityStatus, Fences
  <2>2. ASSUME Inv, OutboxStep PROVE Authority!ANext
    BY <2>1, <2>2, OutboxStepMaps DEF Authority!ANext
  <2>3. ASSUME UNCHANGED vars PROVE UNCHANGED mapped
    BY <2>1, <2>3 DEF vars
  <2>. QED
    BY <2>2, <2>3
<1>. QED
  BY <1>1, <1>2, PTL DEF ImplementsAuthority, Authority!ASpec

(* The leases, fences, attempts and clocks of the outbox together give     *)
(* every effect the life cycle it is promised.                             *)
THEOREM OutboxImplementsAuthority == Spec => ImplementsAuthority
<1>1. Inv /\ [Next]_vars => [OutboxStep]_vars
  BY NextSteps
<1>. QED
  BY <1>1, Invariance, RowwiseImplementsAuthority, PTL DEF Spec
=============================================================================
