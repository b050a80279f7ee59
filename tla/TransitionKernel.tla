-------------------------- MODULE TransitionKernel --------------------------
(***************************************************************************)
(* The transition kernel: every change of the core goes through one        *)
(* immediate transaction that appends activity facts to a journal, queues  *)
(* the internal commands the facts authorise, consumes the command it      *)
(* carries out and leaves one receipt per ingress, by which a repeated     *)
(* delivery is answered without being applied again.                       *)
(*                                                                         *)
(* It is modelled with the chain of commands that leans on it most: a host *)
(* reports an opportunity, the library is planned page by page, each page  *)
(* queues one command for every episode of it and one for the next page,   *)
(* the last page one for the scheduled runs, and the executor of the       *)
(* facade carries the queued commands out, a batch of the oldest at a      *)
(* time.  The intents of one episode are one request here, and the facts   *)
(* that authorise external effects are left to EffectOutbox.               *)
(***************************************************************************)
EXTENDS Naturals, Sequences, FiniteSets

CONSTANTS
    Commands,     \* identities of application commands
    Snapshots,    \* capability snapshots a host may report
    Episodes,
    Listings,     \* the orders of episodes the library may list
    Times,        \* observation times an opportunity may carry
    Digest,       \* the order of the ids of internal commands, which are digests
    PageSize,     \* MAX_WORKFLOW_RECONCILE_EPISODES_PER_PAGE, 32 in the code
    BatchSize,    \* commands read at a time, 100 in the code
    Refusable,    \* kinds of command whose owner may fail
    MaxPasses,    \* passes of one run of the executor, 100 in the code
    MaxCrashes    \* bound on terminations of the process

\* The library lists an episode once: its query joins tables on their keys.
ASSUME KernelAssumption ==
    /\ Listings \subseteq Seq(Episodes)
    /\ \A l \in Listings : \A m, n \in DOMAIN l : l[m] = l[n] => m = n
    /\ Times \subseteq Nat
    /\ Refusable \subseteq {"Ensure", "Scheduled"}
    /\ PageSize \in Nat \ {0}
    /\ BatchSize \in Nat \ {0}
    /\ MaxPasses \in Nat \ {0}

VARIABLES
    sequence,     \* the last AUTOINCREMENT value of the journal
    facts,        \* pod0_activity_facts
    receipts,     \* pod0_transition_receipts
    intents,      \* pod0_internal_command_intents
    snapshot,     \* the current capability snapshot
    listing,      \* the episodes of the library, in row order
    refusing,     \* owners whose transactions fail at present
    up,           \* the process runs
    running,      \* resume_workflow_internal_commands runs
    batch,        \* ids of the commands read and not yet tried
    progressed,   \* the pass has carried out a command
    passes,       \* passes begun
    crashes,
    owed          \* what the model remembers of the promise of each opportunity

store == <<sequence, facts, receipts, intents>>
executor == <<running, batch, progressed, passes>>
world == <<snapshot, listing, refusing, crashes>>
vars == <<store, executor, world, up, owed>>

Opportunities == [snapshot : Snapshots, at : Times]

\* The application commands: a report of capabilities, and an opportunity.
Calls == [kind : {"Observe"}, snapshot : Snapshots]
            \cup [kind : {"Reconcile"}, opportunity : Opportunities]

\* The payloads of the internal commands.
Requests == [kind : {"Ensure"}, episode : Episodes]
               \cup [kind : {"Scheduled"}]
               \cup [kind : {"Continue"}, opportunity : Opportunities, offset : Nat]

Application(c) == [kind |-> "Application", id |-> c]
Internal(n) == [kind |-> "Internal", id |-> n]

Ingresses == [kind : {"Application"}, id : Commands] \cup [kind : {"Internal"}, id : Nat]

TypeOK ==
    /\ sequence \in Nat
    /\ facts \subseteq [seq : 1..sequence, ingress : Ingresses, correlation : Commands,
                        cause : Nat, kind : {"Disposition", "Transition", "Authorized"}]
    /\ receipts \subseteq [ingress : Ingresses, fingerprint : Calls \cup Requests,
                           disposition : {"Accepted", "Declined"},
                           first : 1..sequence, last : 1..sequence]
    /\ intents \subseteq [id : 1..sequence, request : Requests, correlation : Commands,
                          at : Times, state : {"Pending", "Consumed"}]
    /\ snapshot \in Snapshots
    /\ listing \in Listings
    /\ refusing \subseteq Refusable
    /\ up \in BOOLEAN
    /\ running \in BOOLEAN
    /\ batch \subseteq Nat
    /\ progressed \in BOOLEAN
    /\ passes \in 0..MaxPasses
    /\ crashes \in Nat
    /\ owed \in [Commands -> SUBSET Episodes]
    /\ running => up
    /\ ~running => batch = {}

Init ==
    /\ sequence = 0
    /\ facts = {}
    /\ receipts = {}
    /\ intents = {}
    /\ snapshot \in Snapshots
    /\ listing \in Listings
    /\ refusing = {}
    /\ up = TRUE
    /\ running = FALSE
    /\ batch = {}
    /\ progressed = FALSE
    /\ passes = 0
    /\ crashes = 0
    /\ owed = [c \in Commands |-> {}]

-----------------------------------------------------------------------------
(* The transaction.                                                         *)

Pending == {i \in intents : i.state = "Pending"}

\* No receipt answers this ingress yet.
Fresh(ingress) == \A r \in receipts : r.ingress # ingress

\* Faulty form: the command that was carried out stays in the queue.
Consumed_Kept(ingress) == intents

\* The queue once the command of this ingress, if it is one, is consumed.
Consumed(ingress) ==
    {IF ingress = Internal(i.id) THEN [i EXCEPT !.state = "Consumed"] ELSE i : i \in intents}

\* An accepted transition has a fact of its own beside its disposition.
Lead(disposition) == IF disposition = "Accepted" THEN 2 ELSE 1

FactKind(ordinal, lead) ==
    IF ordinal = 1 THEN "Disposition" ELSE IF ordinal <= lead THEN "Transition" ELSE "Authorized"

\* Faulty form: a command an owner issues starts a causal chain of its own.
Cause_Lost(ingress) == 0

\* What caused the facts of an ingress: nothing, or the fact that authorised
\* the internal command.
Cause(ingress) == IF ingress.kind = "Internal" THEN ingress.id ELSE 0

\* Faulty form: the receipt ends with the number the next fact will take.
LastOf_Next(disposition, count) == sequence + Lead(disposition) + count + 1

\* Faulty form: the receipt ends before the commands its facts authorise.
LastOf_Lead(disposition, count) == sequence + Lead(disposition)

\* The last sequence number of a transition that queues `count' commands.
LastOf(disposition, count) == sequence + Lead(disposition) + count

\* One transaction: facts in order, each queued command under the fact that
\* authorises it, the consumed command, the receipt.
Commit(ingress, fingerprint, correlation, disposition, requests, at) ==
    LET lead == Lead(disposition)
        count == lead + Len(requests)
    IN  /\ sequence' = sequence + count
        /\ facts' = facts \cup
              {[seq |-> sequence + n, ingress |-> ingress, correlation |-> correlation,
                cause |-> Cause(ingress), kind |-> FactKind(n, lead)] : n \in 1..count}
        /\ intents' = Consumed(ingress) \cup
              {[id |-> sequence + lead + n, request |-> requests[n],
                correlation |-> correlation, at |-> at, state |-> "Pending"]
               : n \in 1..Len(requests)}
        /\ receipts' = receipts \cup
              {[ingress |-> ingress, fingerprint |-> fingerprint, disposition |-> disposition,
                first |-> sequence + 1, last |-> LastOf(disposition, Len(requests))]}

-----------------------------------------------------------------------------
(* The plan of one page of the library.                                     *)

\* How many episodes the page at this offset holds.
Taken(offset) ==
    IF offset + PageSize <= Len(listing) THEN PageSize
    ELSE IF offset <= Len(listing) THEN Len(listing) - offset ELSE 0

\* Faulty form: the next page begins one episode late.
NextOffset_Late(offset) == offset + Taken(offset) + 1

NextOffset(offset) == offset + Taken(offset)

\* One request per episode of the page, then the next page or, after the last
\* page, the reconciliation of the scheduled runs.
Plan(opportunity, offset) ==
    [n \in 1..(Taken(offset) + 1) |->
        IF n <= Taken(offset)
        THEN [kind |-> "Ensure", episode |-> listing[offset + n]]
        ELSE IF NextOffset(offset) < Len(listing)
        THEN [kind |-> "Continue", opportunity |-> opportunity, offset |-> NextOffset(offset)]
        ELSE [kind |-> "Scheduled"]]

Listed == {listing[n] : n \in DOMAIN listing}

\* A page is planned only under the capabilities the opportunity was seen with.
Verdict(opportunity) == IF opportunity.snapshot = snapshot THEN "Accepted" ELSE "Declined"

Pages(opportunity, offset) ==
    IF Verdict(opportunity) = "Accepted" THEN Plan(opportunity, offset) ELSE <<>>

-----------------------------------------------------------------------------
(* Application commands.  The facade holds one lock, so none is dispatched  *)
(* while the executor runs; one that finds its receipt under another        *)
(* fingerprint is refused and changes nothing.                              *)

StartExecutor ==
    /\ running' = TRUE
    /\ batch' = {}
    /\ progressed' = TRUE
    /\ passes' = 0

\* observe_workflow_capabilities.
Observe(c, s) ==
    /\ up /\ ~running
    /\ Fresh(Application(c))
    /\ Commit(Application(c), [kind |-> "Observe", snapshot |-> s], c,
              IF s = snapshot THEN "Declined" ELSE "Accepted", <<>>, 0)
    /\ snapshot' = s
    /\ UNCHANGED <<executor, listing, refusing, crashes, up, owed>>

\* reconcile_workflow_opportunity, delivered for the first time.
Reconcile(c, opportunity) ==
    /\ up /\ ~running
    /\ Fresh(Application(c))
    /\ Commit(Application(c), [kind |-> "Reconcile", opportunity |-> opportunity], c,
              Verdict(opportunity), Pages(opportunity, 0), opportunity.at)
    /\ StartExecutor
    /\ owed' = [owed EXCEPT ![c] = IF Verdict(opportunity) = "Accepted" THEN Listed ELSE {}]
    /\ UNCHANGED <<world, up>>

\* reconcile_workflow_opportunity, delivered again: the receipt answers, and
\* the executor runs once more.
Redeliver(c) ==
    /\ up /\ ~running
    /\ \E r \in receipts : r.ingress = Application(c) /\ r.fingerprint.kind = "Reconcile"
    /\ StartExecutor
    /\ UNCHANGED <<store, world, up, owed>>

-----------------------------------------------------------------------------
(* The executor.                                                            *)

\* The order of the queue: committed_at_ms, which is the time the opportunity
\* was observed at, then the id.
Older(i, j) == i.at < j.at \/ (i.at = j.at /\ Digest[i.id] <= Digest[j.id])

\* What one read may return: the oldest pending commands, at most a batch.
Heads ==
    {h \in SUBSET Pending :
        /\ IF Cardinality(Pending) <= BatchSize THEN h = Pending
                                                ELSE Cardinality(h) = BatchSize
        /\ \A i \in h, j \in Pending \ h : Older(i, j)}

\* Faulty form: one run reads the queue once.
MayRead_Once == passes = 0

\* Another pass follows one that carried something out.
MayRead == progressed /\ passes < MaxPasses

ReadPending ==
    /\ running /\ batch = {} /\ MayRead
    /\ \E h \in Heads : batch' = {i.id : i \in h}
    /\ progressed' = FALSE
    /\ passes' = passes + 1
    /\ UNCHANGED <<store, world, up, owed, running>>

Stop ==
    /\ running /\ batch = {} /\ ~MayRead
    /\ running' = FALSE
    /\ progressed' = FALSE
    /\ passes' = 0
    /\ UNCHANGED <<store, world, up, owed, batch>>

\* The next command of the batch.
InTurn(i) ==
    /\ running
    /\ i.id \in batch
    /\ \A j \in Pending : j.id \in batch => Older(i, j)

Refused(i) == i.request.kind \in refusing

\* The owner's transaction fails; the command stays where it is.
Skip(i) ==
    /\ InTurn(i)
    /\ Refused(i)
    /\ batch' = batch \ {i.id}
    /\ UNCHANGED <<store, world, up, owed, running, progressed, passes>>

\* What the owner of a command may answer: a page as its snapshot decides, an
\* episode that left the library is declined, the rest depends on the owner.
Dispositions(i) ==
    CASE i.request.kind = "Continue" -> {Verdict(i.request.opportunity)}
      [] i.request.kind = "Ensure" ->
            IF i.request.episode \in Listed THEN {"Accepted", "Declined"} ELSE {"Declined"}
      [] i.request.kind = "Scheduled" -> {"Accepted", "Declined"}

\* What carrying a command out queues in turn.
Followers(i) ==
    IF i.request.kind = "Continue" THEN Pages(i.request.opportunity, i.request.offset) ELSE <<>>

\* The owner carries the command out and consumes it.
Execute(i) ==
    /\ InTurn(i)
    /\ ~Refused(i)
    /\ Fresh(Internal(i.id))
    /\ \E d \in Dispositions(i) :
          Commit(Internal(i.id), i.request, i.correlation, d, Followers(i), i.at)
    /\ batch' = batch \ {i.id}
    /\ progressed' = TRUE
    /\ UNCHANGED <<world, up, owed, running, passes>>

-----------------------------------------------------------------------------
(* The surroundings.                                                        *)

\* A refresh, a subscription or its removal changes what the library lists.
\* An opportunity some page of which is still to be planned owes no particular
\* episode any more: its offsets mean something else now.
ChangeListing(l) ==
    /\ up /\ ~running
    /\ l # listing
    /\ listing' = l
    /\ owed' = [c \in Commands |->
                  IF \E i \in Pending : i.correlation = c /\ i.request.kind = "Continue"
                  THEN {} ELSE owed[c]]
    /\ UNCHANGED <<store, executor, snapshot, refusing, crashes, up>>

\* An owner begins or ceases to fail.
ChangeRefusing(o) ==
    /\ up /\ ~running
    /\ refusing' = IF o \in refusing THEN refusing \ {o} ELSE refusing \cup {o}
    /\ UNCHANGED <<store, executor, snapshot, listing, crashes, up, owed>>

Crash ==
    /\ up
    /\ crashes < MaxCrashes                                           \* bound
    /\ crashes' = crashes + 1
    /\ up' = FALSE
    /\ running' = FALSE
    /\ batch' = {}
    /\ progressed' = FALSE
    /\ passes' = 0
    /\ UNCHANGED <<store, snapshot, listing, refusing, owed>>

\* Opening the store carries out what was queued before.
Open ==
    /\ ~up
    /\ up' = TRUE
    /\ StartExecutor
    /\ UNCHANGED <<store, world, owed>>

Run == ReadPending \/ Stop \/ \E i \in Pending : Skip(i) \/ Execute(i)

Next ==
    \/ \E c \in Commands, s \in Snapshots : Observe(c, s)
    \/ \E c \in Commands, o \in Opportunities : Reconcile(c, o)
    \/ \E c \in Commands : Redeliver(c)
    \/ ReadPending
    \/ Stop
    \/ \E i \in Pending : Skip(i)
    \/ \E i \in Pending : Execute(i)
    \/ \E l \in Listings : ChangeListing(l)
    \/ \E o \in Refusable : ChangeRefusing(o)
    \/ Crash
    \/ Open

Spec == Init /\ [][Next]_vars

\* The loop of the executor runs on once it is entered, and a process that
\* ended is started again.
FairSpec == Spec /\ WF_vars(Run) /\ WF_vars(Open)

-----------------------------------------------------------------------------
(* Properties.                                                              *)

\* The receipts cut the journal into one unbroken interval per transaction:
\* a receipt names exactly the facts of its own ingress and at least one, no
\* fact is left out, and no ingress has two receipts.
ReceiptsTile ==
    /\ {f.seq : f \in facts} = 1..sequence
    /\ \A f, g \in facts : f.seq = g.seq => f = g
    /\ \A r \in receipts :
          /\ r.first <= r.last
          /\ \A f \in facts : f.ingress = r.ingress <=> f.seq \in r.first..r.last
    /\ \A f \in facts : \E r \in receipts : r.ingress = f.ingress
    /\ \A r, s \in receipts : r.ingress = s.ingress => r = s

\* The journal is a forest: the facts of an application command are roots of
\* the correlation it names, and every other fact follows, within the same
\* correlation, an earlier fact that authorised the command it reports on.
CausesPrecede ==
    \A f \in facts :
        IF f.ingress.kind = "Application"
        THEN f.cause = 0 /\ f.correlation = f.ingress.id
        ELSE /\ f.ingress.id = f.cause
             /\ f.cause < f.seq
             /\ \E g \in facts : /\ g.seq = f.cause
                                 /\ g.kind = "Authorized"
                                 /\ g.correlation = f.correlation

\* The queue and the journal agree: the facts that authorise are the commands
\* queued, one each, and a command is consumed exactly when a receipt says how
\* it ended.  So none is carried out twice, by whatever crash or redelivery.
ExecutedOnce ==
    /\ \A f \in facts : f.kind = "Authorized" => \E i \in intents : i.id = f.seq
    /\ \A i \in intents :
          /\ \E f \in facts : /\ f.seq = i.id
                              /\ f.kind = "Authorized"
                              /\ f.correlation = i.correlation
          /\ i.state = "Consumed" <=> \E r \in receipts : r.ingress = Internal(i.id)
    /\ \A i, j \in intents : i.id = j.id => i = j
    /\ \A r \in receipts :
          r.ingress.kind = "Internal" => \E i \in intents : r.ingress = Internal(i.id)

Family(c) == {i \in intents : i.correlation = c}

\* Every page the opportunity called for has been planned.
Planned(c) ==
    /\ \E r \in receipts : /\ r.ingress = Application(c)
                           /\ r.fingerprint.kind = "Reconcile"
                           /\ r.disposition = "Accepted"
    /\ \A i \in Family(c) :
          i.request.kind = "Continue" =>
              \E r \in receipts : r.ingress = Internal(i.id) /\ r.disposition = "Accepted"

\* An opportunity whose pages are all planned has asked once for every episode
\* the library listed when it was seen (and went on listing in the same order
\* while pages were left), and once for the scheduled runs.
OpportunityCovers ==
    \A c \in Commands : Planned(c) =>
        /\ \A e \in owed[c] :
              Cardinality({i \in Family(c) : i.request = [kind |-> "Ensure", episode |-> e]}) = 1
        /\ Cardinality({i \in Family(c) : i.request.kind = "Scheduled"}) = 1

\* A command stands behind a full batch of commands whose owners refuse them.
Clogged(i) == Cardinality({j \in Pending : Refused(j) /\ Older(j, i)}) >= BatchSize

\* Every run of the executor, also one a crash cut short, ends with nothing
\* queued but what an owner refuses and what stands behind a full batch of it.
RunsDrain ==
    running ~> (up /\ ~running /\ \A i \in Pending : Refused(i) \/ Clogged(i))

=============================================================================
