----------------------- MODULE TransitionKernelProofs -----------------------
(***************************************************************************)
(* What the journal, the receipts and the queue of internal commands keep  *)
(* between them, for every library, page and batch size.                   *)
(*                                                                         *)
(* All tables change through Commit alone, so the heart of the proof is    *)
(* that a transaction with a fresh ingress keeps the three relations, and  *)
(* every action either commits one or leaves the tables alone.  What an    *)
(* opportunity covers is a second invariant on top of the first: each      *)
(* opportunity is idle, has one continuation left, or is complete.         *)
(***************************************************************************)
EXTENDS TransitionKernel, SequenceTheorems, FiniteSetTheorems, TLAPS

Inv == TypeOK /\ ReceiptsTile /\ CausesPrecede /\ ExecutedOnce

Tables ==
    /\ sequence \in Nat
    /\ facts \subseteq [seq : 1..sequence, ingress : Ingresses, correlation : Commands,
                        cause : Nat, kind : {"Disposition", "Transition", "Authorized"}]
    /\ receipts \subseteq [ingress : Ingresses, fingerprint : Calls \cup Requests,
                           disposition : {"Accepted", "Declined"},
                           first : 1..sequence, last : 1..sequence]
    /\ intents \subseteq [id : 1..sequence, request : Requests, correlation : Commands,
                          at : Times, state : {"Pending", "Consumed"}]

(* What a transaction is given: a fresh ingress, the command of the host   *)
(* or a queued one, and requests of the right kinds.                       *)
Admissible(ingress, fingerprint, correlation, disposition, requests, at) ==
    /\ ingress \in Ingresses
    /\ fingerprint \in Calls \cup Requests
    /\ correlation \in Commands
    /\ disposition \in {"Accepted", "Declined"}
    /\ requests \in Seq(Requests)
    /\ requests = <<>> \/ at \in Times
    /\ Fresh(ingress)
    /\ \/ ingress = Application(correlation)
       \/ \E i \in Pending : ingress = Internal(i.id) /\ correlation = i.correlation

-----------------------------------------------------------------------------
(* The rows a transaction adds. *)

NewFact(n, ingress, correlation, lead) ==
    [seq |-> sequence + n, ingress |-> ingress, correlation |-> correlation,
     cause |-> Cause(ingress), kind |-> FactKind(n, lead)]

NewIntent(n, requests, correlation, at, lead) ==
    [id |-> sequence + lead + n, request |-> requests[n],
     correlation |-> correlation, at |-> at, state |-> "Pending"]

NewReceipt(ingress, fingerprint, disposition, count) ==
    [ingress |-> ingress, fingerprint |-> fingerprint, disposition |-> disposition,
     first |-> sequence + 1, last |-> sequence + count]

LEMMA CommitRows ==
  ASSUME Inv, NEW ingress, NEW fingerprint, NEW correlation, NEW disposition,
         NEW requests, NEW at,
         Admissible(ingress, fingerprint, correlation, disposition, requests, at),
         Commit(ingress, fingerprint, correlation, disposition, requests, at),
         NEW lead, lead = Lead(disposition), NEW count, count = lead + Len(requests)
  PROVE  /\ lead \in 1..2 /\ Len(requests) \in Nat /\ count \in Nat /\ lead <= count
         /\ sequence \in Nat /\ sequence' = sequence + count
         /\ facts' = facts \cup {NewFact(n, ingress, correlation, lead) : n \in 1..count}
         /\ intents' = Consumed(ingress) \cup
               {NewIntent(n, requests, correlation, at, lead) : n \in 1..Len(requests)}
         /\ receipts' = receipts \cup {NewReceipt(ingress, fingerprint, disposition, count)}
<1>1. lead \in 1..2
  BY DEF Lead
<1>2. Len(requests) \in Nat
  BY DEF Admissible
<1>3. sequence \in Nat
  BY DEF Inv, TypeOK
<1>4. LastOf(disposition, Len(requests)) = sequence + count
  BY <1>1, <1>2, <1>3 DEF LastOf
<1>. QED
  BY <1>1, <1>2, <1>3, <1>4 DEF Commit, NewFact, NewIntent, NewReceipt

LEMMA ConsumedRows ==
  ASSUME Inv, NEW ingress
  PROVE  /\ \A i \in intents : \E j \in Consumed(ingress) :
               /\ j.id = i.id /\ j.request = i.request /\ j.correlation = i.correlation
               /\ j.at = i.at
               /\ j.state = IF ingress = Internal(i.id) THEN "Consumed" ELSE i.state
         /\ \A j \in Consumed(ingress) : \E i \in intents :
               /\ j = IF ingress = Internal(i.id) THEN [i EXCEPT !.state = "Consumed"] ELSE i
               /\ j.id = i.id /\ j.request = i.request /\ j.correlation = i.correlation
               /\ j.at = i.at
               /\ j.state = IF ingress = Internal(i.id) THEN "Consumed" ELSE i.state
               /\ j \in [id : 1..sequence, request : Requests, correlation : Commands,
                         at : Times, state : {"Pending", "Consumed"}]
<1> DEFINE Row == [id : 1..sequence, request : Requests, correlation : Commands,
                   at : Times, state : {"Pending", "Consumed"}]
           Mark(i) == IF ingress = Internal(i.id) THEN [i EXCEPT !.state = "Consumed"] ELSE i
<1>1. ASSUME NEW i \in intents
      PROVE  /\ Mark(i).id = i.id /\ Mark(i).request = i.request
             /\ Mark(i).correlation = i.correlation /\ Mark(i).at = i.at
             /\ Mark(i).state = IF ingress = Internal(i.id) THEN "Consumed" ELSE i.state
             /\ Mark(i) \in Row
  <2>1. i \in Row
    BY <1>1 DEF Inv, TypeOK
  <2>. QED
    BY <2>1
<1>2. Consumed(ingress) = {Mark(i) : i \in intents}
  BY DEF Consumed
<1>. HIDE DEF Mark
<1>3. \A j \in Consumed(ingress) : \E i \in intents : j = Mark(i)
  BY <1>2
<1>4. \A i \in intents : Mark(i) \in Consumed(ingress)
  BY <1>2
<1>5. \A i \in intents : \E j \in Consumed(ingress) :
               /\ j.id = i.id /\ j.request = i.request /\ j.correlation = i.correlation
               /\ j.at = i.at
               /\ j.state = IF ingress = Internal(i.id) THEN "Consumed" ELSE i.state
  BY <1>1, <1>4
<1>6. ASSUME NEW j \in Consumed(ingress)
      PROVE  \E i \in intents :
               /\ j = Mark(i)
               /\ j.id = i.id /\ j.request = i.request /\ j.correlation = i.correlation
               /\ j.at = i.at
               /\ j.state = IF ingress = Internal(i.id) THEN "Consumed" ELSE i.state
               /\ j \in Row
  <2>1. PICK i \in intents : j = Mark(i)
    BY <1>3, <1>6
  <2>. QED
    BY <1>1, <2>1
<1>7. \A i \in intents :
         Mark(i) = IF ingress = Internal(i.id) THEN [i EXCEPT !.state = "Consumed"] ELSE i
  BY DEF Mark
<1>. HIDE DEF Row
<1>8. \A j \in Consumed(ingress) : \E i \in intents :
               /\ j = IF ingress = Internal(i.id) THEN [i EXCEPT !.state = "Consumed"] ELSE i
               /\ j.id = i.id /\ j.request = i.request /\ j.correlation = i.correlation
               /\ j.at = i.at
               /\ j.state = IF ingress = Internal(i.id) THEN "Consumed" ELSE i.state
               /\ j \in Row
  BY <1>6, <1>7, Zenon
<1>. QED
  BY <1>5, <1>8, Zenon DEF Row

(* A command that was queued has an earlier authorising fact, and its      *)
(* number is the id of no fresh one.                                       *)
LEMMA IngressFacts ==
  ASSUME Inv, NEW ingress, Fresh(ingress)
  PROVE  \A f \in facts : f.ingress # ingress
  BY DEF Inv, ReceiptsTile, Fresh

LEMMA CommitTyped ==
  ASSUME Inv, NEW ingress, NEW fingerprint, NEW correlation, NEW disposition,
         NEW requests, NEW at,
         Admissible(ingress, fingerprint, correlation, disposition, requests, at),
         Commit(ingress, fingerprint, correlation, disposition, requests, at)
  PROVE  Tables'
<1> DEFINE lead == Lead(disposition)
           count == lead + Len(requests)
<1>1. /\ lead \in 1..2 /\ Len(requests) \in Nat /\ count \in Nat /\ lead <= count
      /\ sequence \in Nat /\ sequence' = sequence + count
      /\ facts' = facts \cup {NewFact(n, ingress, correlation, lead) : n \in 1..count}
      /\ intents' = Consumed(ingress) \cup
            {NewIntent(n, requests, correlation, at, lead) : n \in 1..Len(requests)}
      /\ receipts' = receipts \cup {NewReceipt(ingress, fingerprint, disposition, count)}
  BY CommitRows
<1> HIDE DEF lead, count
<1>2. 1..sequence \subseteq 1..sequence' /\ sequence' \in Nat
  BY <1>1
<1>3. Cause(ingress) \in Nat
  BY DEF Cause, Admissible, Ingresses
<1>4. \A n \in 1..count : NewFact(n, ingress, correlation, lead) \in
         [seq : 1..sequence', ingress : Ingresses, correlation : Commands,
          cause : Nat, kind : {"Disposition", "Transition", "Authorized"}]
  BY <1>1, <1>3 DEF NewFact, FactKind, Admissible
<1>5. \A f \in facts : f \in
         [seq : 1..sequence', ingress : Ingresses, correlation : Commands,
          cause : Nat, kind : {"Disposition", "Transition", "Authorized"}]
  BY <1>2 DEF Inv, TypeOK
<1>6. \A n \in 1..Len(requests) : NewIntent(n, requests, correlation, at, lead) \in
         [id : 1..sequence', request : Requests, correlation : Commands,
          at : Times, state : {"Pending", "Consumed"}]
  <2>1. SUFFICES ASSUME NEW n \in 1..Len(requests)
                 PROVE  NewIntent(n, requests, correlation, at, lead) \in
                          [id : 1..sequence', request : Requests, correlation : Commands,
                           at : Times, state : {"Pending", "Consumed"}]
    OBVIOUS
  <2>2. requests[n] \in Requests /\ at \in Times /\ correlation \in Commands
    BY <1>1, <2>1 DEF Admissible
  <2>3. sequence + lead + n \in 1..sequence'
    BY <1>1, <2>1 DEF count
  <2>. QED
    BY <2>2, <2>3 DEF NewIntent
<1>7. \A j \in Consumed(ingress) : j \in
         [id : 1..sequence', request : Requests, correlation : Commands,
          at : Times, state : {"Pending", "Consumed"}]
  BY <1>2, ConsumedRows
<1>8. NewReceipt(ingress, fingerprint, disposition, count) \in
         [ingress : Ingresses, fingerprint : Calls \cup Requests,
          disposition : {"Accepted", "Declined"}, first : 1..sequence', last : 1..sequence']
  BY <1>1 DEF NewReceipt, Admissible
<1>9. \A r \in receipts : r \in
         [ingress : Ingresses, fingerprint : Calls \cup Requests,
          disposition : {"Accepted", "Declined"}, first : 1..sequence', last : 1..sequence']
  BY <1>2 DEF Inv, TypeOK
<1>. QED
  BY <1>1, <1>2, <1>4, <1>5, <1>6, <1>7, <1>8, <1>9 DEF Tables

(* The new facts take the numbers after the old ones and nothing else has  *)
(* their ingress.                                                          *)
LEMMA CommitTiles ==
  ASSUME Inv, NEW ingress, NEW fingerprint, NEW correlation, NEW disposition,
         NEW requests, NEW at,
         Admissible(ingress, fingerprint, correlation, disposition, requests, at),
         Commit(ingress, fingerprint, correlation, disposition, requests, at)
  PROVE  ReceiptsTile'
<1> DEFINE lead == Lead(disposition)
           count == lead + Len(requests)
           New(n) == NewFact(n, ingress, correlation, lead)
           receipt == NewReceipt(ingress, fingerprint, disposition, count)
<1>1. /\ lead \in 1..2 /\ count \in Nat /\ lead <= count
      /\ sequence \in Nat /\ sequence' = sequence + count
      /\ facts' = facts \cup {New(n) : n \in 1..count}
      /\ receipts' = receipts \cup {receipt}
  BY CommitRows
<1>2. \A n \in 1..count : New(n).seq = sequence + n /\ New(n).ingress = ingress
  BY DEF NewFact
<1>3. /\ receipt.ingress = ingress
      /\ receipt.first = sequence + 1
      /\ receipt.last = sequence + count
  BY DEF NewReceipt
<1> HIDE DEF lead, count, New, receipt
<1>4. \A f \in facts' : f \in facts \/ \E n \in 1..count : f = New(n)
  BY <1>1
<1>5. \A f \in facts : f.seq \in 1..sequence
  BY DEF Inv, TypeOK
<1>6. \A r \in receipts : r.first \in 1..sequence /\ r.last \in 1..sequence
  BY DEF Inv, TypeOK
<1>7. \A f \in facts : f.ingress # ingress
  BY IngressFacts DEF Admissible
<1>8. {f.seq : f \in facts'} = 1..sequence'
  <2>1. \A m \in 1..sequence' : \E f \in facts' : f.seq = m
    <3>1. SUFFICES ASSUME NEW m \in 1..sequence' PROVE \E f \in facts' : f.seq = m
      OBVIOUS
    <3>2. CASE m \in 1..sequence
      BY <1>1, <3>2 DEF Inv, ReceiptsTile
    <3>3. CASE m \notin 1..sequence
      <4>1. m - sequence \in 1..count /\ sequence + (m - sequence) = m
        BY <1>1, <3>3
      <4>2. New(m - sequence) \in facts' /\ New(m - sequence).seq = m
        BY <1>1, <1>2, <4>1
      <4>. QED
        BY <4>2
    <3>. QED
      BY <3>2, <3>3
  <2>2. \A f \in facts' : f.seq \in 1..sequence'
    BY <1>1, <1>2, <1>4, <1>5
  <2>. QED
    BY <2>1, <2>2
<1>9. \A f, g \in facts' : f.seq = g.seq => f = g
  <2>1. SUFFICES ASSUME NEW f \in facts', NEW g \in facts', f.seq = g.seq PROVE f = g
    OBVIOUS
  <2>2. CASE f \in facts /\ g \in facts
    BY <2>1, <2>2 DEF Inv, ReceiptsTile
  <2>3. CASE f \in facts /\ g \notin facts
    BY <1>1, <1>2, <1>4, <1>5, <2>1, <2>3
  <2>4. CASE f \notin facts /\ g \in facts
    BY <1>1, <1>2, <1>4, <1>5, <2>1, <2>4
  <2>5. CASE f \notin facts /\ g \notin facts
    <3>1. PICK n \in 1..count : f = New(n)
      BY <1>4, <2>5
    <3>2. PICK m \in 1..count : g = New(m)
      BY <1>4, <2>5
    <3>3. n = m
      BY <1>1, <1>2, <2>1, <3>1, <3>2
    <3>. QED
      BY <3>1, <3>2, <3>3
  <2>. QED
    BY <2>2, <2>3, <2>4, <2>5
<1>10. ASSUME NEW r \in receipts'
       PROVE  /\ r.first <= r.last
              /\ \A f \in facts' : f.ingress = r.ingress <=> f.seq \in r.first..r.last
  <2>1. CASE r \in receipts
    <3>1. r.ingress # ingress
      BY <2>1 DEF Admissible, Fresh
    <3>2. r.first <= r.last
          /\ \A f \in facts : f.ingress = r.ingress <=> f.seq \in r.first..r.last
      BY <2>1 DEF Inv, ReceiptsTile
    <3>3. \A n \in 1..count : New(n).ingress # r.ingress /\ New(n).seq \notin r.first..r.last
      BY <1>1, <1>2, <1>6, <2>1, <3>1
    <3>. QED
      BY <1>4, <3>2, <3>3
  <2>2. CASE r = receipt
    <3>1. r.first <= r.last
      BY <1>1, <1>3, <2>2
    <3>2. \A f \in facts : f.ingress # r.ingress /\ f.seq \notin r.first..r.last
      BY <1>1, <1>3, <1>5, <1>7, <2>2
    <3>3. \A n \in 1..count : New(n).ingress = r.ingress /\ New(n).seq \in r.first..r.last
      BY <1>1, <1>2, <1>3, <2>2
    <3>. QED
      BY <1>4, <3>1, <3>2, <3>3
  <2>. QED
    BY <1>1, <2>1, <2>2
<1>11. \A f \in facts' : \E r \in receipts' : r.ingress = f.ingress
  BY <1>1, <1>2, <1>3, <1>4 DEF Inv, ReceiptsTile
<1>12. \A r, s \in receipts' : r.ingress = s.ingress => r = s
  BY <1>1, <1>3 DEF Inv, ReceiptsTile, Admissible, Fresh
<1>. QED
  BY <1>8, <1>9, <1>10, <1>11, <1>12 DEF ReceiptsTile

(* The facts of an internal command follow the fact that authorised it,    *)
(* which stands in the journal because the command stands in the queue.    *)
LEMMA CommitCauses ==
  ASSUME Inv, NEW ingress, NEW fingerprint, NEW correlation, NEW disposition,
         NEW requests, NEW at,
         Admissible(ingress, fingerprint, correlation, disposition, requests, at),
         Commit(ingress, fingerprint, correlation, disposition, requests, at)
  PROVE  CausesPrecede'
<1> DEFINE lead == Lead(disposition)
           count == lead + Len(requests)
           New(n) == NewFact(n, ingress, correlation, lead)
           Rooted(f, journal) ==
              IF f.ingress.kind = "Application"
              THEN f.cause = 0 /\ f.correlation = f.ingress.id
              ELSE /\ f.ingress.id = f.cause
                   /\ f.cause < f.seq
                   /\ \E g \in journal : /\ g.seq = f.cause
                                         /\ g.kind = "Authorized"
                                         /\ g.correlation = f.correlation
<1>1. /\ count \in Nat /\ sequence \in Nat
      /\ facts' = facts \cup {New(n) : n \in 1..count}
  BY CommitRows
<1>2. \A n \in 1..count : /\ New(n).seq = sequence + n
                          /\ New(n).ingress = ingress
                          /\ New(n).correlation = correlation
                          /\ New(n).cause = Cause(ingress)
  BY DEF NewFact
<1> HIDE DEF lead, count, New
<1>3. \A f \in facts : Rooted(f, facts')
  BY <1>1 DEF Inv, CausesPrecede
<1>4. ASSUME NEW n \in 1..count
      PROVE  Rooted(New(n), facts')
  <2>1. CASE ingress = Application(correlation)
    BY <1>2, <1>4, <2>1 DEF Application, Cause
  <2>2. CASE \E i \in Pending : ingress = Internal(i.id) /\ correlation = i.correlation
    <3>1. PICK i \in Pending : ingress = Internal(i.id) /\ correlation = i.correlation
      BY <2>2
    <3>2. i \in intents /\ i.id \in 1..sequence
      BY <3>1 DEF Pending, Inv, TypeOK
    <3>3. \E g \in facts : g.seq = i.id /\ g.kind = "Authorized" /\ g.correlation = i.correlation
      BY <3>2 DEF Inv, ExecutedOnce
    <3>4. ingress.kind # "Application" /\ ingress.id = i.id /\ Cause(ingress) = i.id
      BY <3>1 DEF Internal, Cause
    <3>. QED
      BY <1>1, <1>2, <1>4, <3>1, <3>2, <3>3, <3>4
  <2>. QED
    BY <2>1, <2>2 DEF Admissible
<1>5. \A f \in facts' : Rooted(f, facts')
  BY <1>1, <1>3, <1>4
<1>. QED
  BY <1>5 DEF CausesPrecede


(* The new authorising facts and the new commands pair off, and the one    *)
(* command whose state changes is the one the new receipt names.           *)
LEMMA CommitExecutes ==
  ASSUME Inv, NEW ingress, NEW fingerprint, NEW correlation, NEW disposition,
         NEW requests, NEW at,
         Admissible(ingress, fingerprint, correlation, disposition, requests, at),
         Commit(ingress, fingerprint, correlation, disposition, requests, at)
  PROVE  ExecutedOnce'
<1> DEFINE lead == Lead(disposition)
           count == lead + Len(requests)
           New(n) == NewFact(n, ingress, correlation, lead)
           Queued(n) == NewIntent(n, requests, correlation, at, lead)
           receipt == NewReceipt(ingress, fingerprint, disposition, count)
<1>1. /\ lead \in 1..2 /\ Len(requests) \in Nat /\ lead \in Nat /\ sequence \in Nat
      /\ facts' = facts \cup {New(n) : n \in 1..count}
      /\ intents' = Consumed(ingress) \cup {Queued(n) : n \in 1..Len(requests)}
      /\ receipts' = receipts \cup {receipt}
  BY CommitRows
<1>2. \A n \in 1..count : /\ New(n).seq = sequence + n
                          /\ New(n).correlation = correlation
                          /\ New(n).kind = "Authorized" <=> n > lead
  BY <1>1 DEF NewFact, FactKind
<1>3. \A n \in 1..Len(requests) : /\ Queued(n).id = sequence + lead + n
                                  /\ Queued(n).correlation = correlation
                                  /\ Queued(n).state = "Pending"
  BY DEF NewIntent
<1>4. receipt.ingress = ingress
  BY DEF NewReceipt
<1>5. count = lead + Len(requests)
  OBVIOUS
<1> HIDE DEF lead, count, New, Queued, receipt
<1>6. \A i \in intents : i.id \in 1..sequence
  BY DEF Inv, TypeOK
<1>7. \A j \in Consumed(ingress) : j.id \in 1..sequence
  BY <1>6, ConsumedRows
<1>8. \A n \in 1..Len(requests) : Queued(n).id \notin 1..sequence
  BY <1>1, <1>3
<1>9. \A i \in intents' : i \in Consumed(ingress) \/ \E n \in 1..Len(requests) : i = Queued(n)
  BY <1>1
<1>10. ASSUME NEW f \in facts', f.kind = "Authorized"
       PROVE  \E i \in intents' : i.id = f.seq
  <2>1. CASE f \in facts
    <3>1. PICK i \in intents : i.id = f.seq
      BY <1>10, <2>1 DEF Inv, ExecutedOnce
    <3>2. \E j \in Consumed(ingress) : j.id = i.id
      BY ConsumedRows
    <3>. QED
      BY <1>1, <3>1, <3>2
  <2>2. CASE f \notin facts
    <3>1. PICK n \in 1..count : f = New(n)
      BY <1>1, <2>2
    <3>2. n > lead /\ f.seq = sequence + n
      BY <1>2, <1>10, <3>1
    <3>3. n - lead \in 1..Len(requests) /\ sequence + lead + (n - lead) = sequence + n
      BY <1>1, <1>5, <3>1, <3>2
    <3>. QED
      BY <1>1, <1>3, <3>2, <3>3
  <2>. QED
    BY <2>1, <2>2
<1>11. ASSUME NEW i \in intents'
       PROVE  \E f \in facts' : /\ f.seq = i.id
                                /\ f.kind = "Authorized"
                                /\ f.correlation = i.correlation
  <2>1. CASE i \in Consumed(ingress)
    <3>1. PICK j \in intents : j.id = i.id /\ j.correlation = i.correlation
      BY <2>1, ConsumedRows
    <3>. QED
      BY <1>1, <3>1 DEF Inv, ExecutedOnce
  <2>2. CASE i \notin Consumed(ingress)
    <3>1. PICK n \in 1..Len(requests) : i = Queued(n)
      BY <1>9, <2>2
    <3>2. lead + n \in 1..count /\ lead + n > lead /\ sequence + (lead + n) = sequence + lead + n
      BY <1>1, <1>5, <3>1
    <3>. QED
      BY <1>1, <1>2, <1>3, <3>1, <3>2
  <2>. QED
    BY <2>1, <2>2
<1>12. ASSUME NEW i \in intents'
       PROVE  i.state = "Consumed" <=> \E r \in receipts' : r.ingress = Internal(i.id)
  <2>1. CASE i \in Consumed(ingress)
    <3>1. PICK j \in intents :
             /\ j.id = i.id
             /\ i.state = IF ingress = Internal(j.id) THEN "Consumed" ELSE j.state
      BY <2>1, ConsumedRows
    <3>2. j.state = "Consumed" <=> \E r \in receipts : r.ingress = Internal(j.id)
      BY DEF Inv, ExecutedOnce
    <3>. QED
      BY <1>1, <1>4, <3>1, <3>2
  <2>2. CASE i \notin Consumed(ingress)
    <3>1. PICK n \in 1..Len(requests) : i = Queued(n)
      BY <1>9, <2>2
    <3>2. i.id \notin 1..sequence /\ i.state = "Pending"
      BY <1>3, <1>8, <3>1
    <3>3. \A r \in receipts : r.ingress # Internal(i.id)
      <4>1. SUFFICES ASSUME NEW r \in receipts, r.ingress = Internal(i.id) PROVE FALSE
        OBVIOUS
      <4>2. r.ingress.kind = "Internal" /\ r.ingress.id = i.id
        BY <4>1 DEF Internal
      <4>3. PICK j \in intents : r.ingress = Internal(j.id)
        BY <4>2 DEF Inv, ExecutedOnce
      <4>4. j.id = i.id
        BY <4>2, <4>3 DEF Internal
      <4>. QED
        BY <1>6, <3>2, <4>4
    <3>4. ingress # Internal(i.id)
      <4>1. CASE ingress = Application(correlation)
        BY <4>1 DEF Application, Internal
      <4>2. CASE \E j \in Pending : ingress = Internal(j.id)
        <5>1. PICK j \in Pending : ingress = Internal(j.id)
          BY <4>2
        <5>2. j.id \in 1..sequence
          BY <1>6 DEF Pending
        <5>3. ingress.id = j.id /\ Internal(i.id).id = i.id
          BY <5>1 DEF Internal
        <5>. QED
          BY <3>2, <5>2, <5>3
      <4>. QED
        BY <4>1, <4>2 DEF Admissible
    <3>. QED
      BY <1>1, <1>4, <3>2, <3>3, <3>4
  <2>. QED
    BY <2>1, <2>2
<1>13. ASSUME NEW i \in intents', NEW j \in intents', i.id = j.id
       PROVE  i = j
  <2>1. CASE i \in Consumed(ingress) /\ j \in Consumed(ingress)
    <3>1. PICK k \in intents :
             /\ i = IF ingress = Internal(k.id) THEN [k EXCEPT !.state = "Consumed"] ELSE k
             /\ i.id = k.id
      BY <2>1, ConsumedRows
    <3>2. PICK l \in intents :
             /\ j = IF ingress = Internal(l.id) THEN [l EXCEPT !.state = "Consumed"] ELSE l
             /\ j.id = l.id
      BY <2>1, ConsumedRows
    <3>3. k = l
      BY <1>13, <3>1, <3>2 DEF Inv, ExecutedOnce
    <3>. QED
      BY <3>1, <3>2, <3>3
  <2>2. CASE i \in Consumed(ingress) /\ j \notin Consumed(ingress)
    BY <1>7, <1>8, <1>9, <1>13, <2>2
  <2>3. CASE i \notin Consumed(ingress) /\ j \in Consumed(ingress)
    BY <1>7, <1>8, <1>9, <1>13, <2>3
  <2>4. CASE i \notin Consumed(ingress) /\ j \notin Consumed(ingress)
    <3>1. PICK n \in 1..Len(requests) : i = Queued(n)
      BY <1>9, <2>4
    <3>2. PICK m \in 1..Len(requests) : j = Queued(m)
      BY <1>9, <2>4
    <3>3. n = m
      BY <1>1, <1>3, <1>13, <3>1, <3>2
    <3>. QED
      BY <3>1, <3>2, <3>3
  <2>. QED
    BY <2>1, <2>2, <2>3, <2>4
<1>14. ASSUME NEW r \in receipts', r.ingress.kind = "Internal"
       PROVE  \E i \in intents' : r.ingress = Internal(i.id)
  <2>1. \A i \in intents : \E j \in intents' : j.id = i.id
    BY <1>1, ConsumedRows
  <2>2. CASE r \in receipts
    BY <1>14, <2>1, <2>2 DEF Inv, ExecutedOnce
  <2>3. CASE r = receipt
    <3>1. ingress # Application(correlation)
      BY <1>4, <1>14, <2>3 DEF Application
    <3>2. \E i \in intents : ingress = Internal(i.id)
      BY <3>1 DEF Admissible, Pending
    <3>. QED
      BY <1>4, <2>1, <2>3, <3>2
  <2>. QED
    BY <1>1, <2>2, <2>3
<1>. QED
  BY <1>10, <1>11, <1>12, <1>13, <1>14 DEF ExecutedOnce


-----------------------------------------------------------------------------
(* The plan of a page. *)

EnsureOf(e) == [kind |-> "Ensure", episode |-> e]
ContinueOf(opportunity, offset) ==
    [kind |-> "Continue", opportunity |-> opportunity, offset |-> offset]
ScheduledRuns == [kind |-> "Scheduled"]

(* The continuations are told from the other requests, and from each other *)
(* by what they continue.                                                  *)
LEMMA RequestsDiffer ==
  ASSUME NEW e, NEW f, NEW p, NEW x, NEW q, NEW y
  PROVE  /\ ContinueOf(p, x) # ScheduledRuns
         /\ ContinueOf(p, x) # EnsureOf(e)
         /\ EnsureOf(e) # ScheduledRuns
         /\ EnsureOf(e) = EnsureOf(f) => e = f
         /\ ContinueOf(p, x) = ContinueOf(q, y) => p = q /\ x = y
<1>1. /\ ContinueOf(p, x).kind = "Continue" /\ ScheduledRuns.kind = "Scheduled"
      /\ EnsureOf(e).kind = "Ensure"
      /\ EnsureOf(e).episode = e /\ EnsureOf(f).episode = f
      /\ ContinueOf(p, x).opportunity = p /\ ContinueOf(p, x).offset = x
      /\ ContinueOf(q, y).opportunity = q /\ ContinueOf(q, y).offset = y
  BY DEF ContinueOf, ScheduledRuns, EnsureOf
<1>. QED
  BY <1>1

(* What the plan of a page consists of.                                    *)
LEMMA PlanRequests ==
  ASSUME TypeOK, NEW opportunity \in Opportunities, NEW offset \in Nat
  PROVE  LET rs == Plan(opportunity, offset)
             last == NextOffset(offset)
         IN  /\ Len(listing) \in Nat /\ Taken(offset) \in Nat
             /\ last \in Nat /\ last = offset + Taken(offset)
             /\ offset <= Len(listing) => last <= Len(listing)
             /\ rs \in Seq(Requests) /\ Len(rs) = Taken(offset) + 1
             /\ \A m \in 1..Taken(offset) :
                   /\ offset + m \in 1..Len(listing)
                   /\ rs[m] = EnsureOf(listing[offset + m])
             /\ last < Len(listing) => rs[Taken(offset) + 1] = ContinueOf(opportunity, last)
             /\ ~(last < Len(listing)) => rs[Taken(offset) + 1] = ScheduledRuns
<1>1. listing \in Seq(Episodes) /\ Len(listing) \in Nat
  BY KernelAssumption DEF TypeOK
<1>2. Taken(offset) \in Nat /\ \A n \in 1..Taken(offset) : offset + n \in 1..Len(listing)
  BY <1>1, KernelAssumption DEF Taken
<1>3. NextOffset(offset) \in Nat /\ NextOffset(offset) = offset + Taken(offset)
  BY <1>2 DEF NextOffset
<1>4. offset <= Len(listing) => NextOffset(offset) <= Len(listing)
  BY <1>1, KernelAssumption DEF NextOffset, Taken
<1>5. \A n \in 1..Taken(offset) : listing[offset + n] \in Episodes
  BY <1>1, <1>2
<1>6. \A n \in 1..(Taken(offset) + 1) : Plan(opportunity, offset)[n] \in Requests
  BY <1>2, <1>3, <1>5 DEF Plan, Requests
<1>7. Plan(opportunity, offset) \in [1..(Taken(offset) + 1) -> Requests]
  BY <1>6 DEF Plan
<1>8. Plan(opportunity, offset) \in Seq(Requests)
  BY <1>2, <1>7, SeqDef
<1>9. Len(Plan(opportunity, offset)) = Taken(offset) + 1
  BY <1>2, <1>7, <1>8
<1>10. \A m \in 1..Taken(offset) : Plan(opportunity, offset)[m] = EnsureOf(listing[offset + m])
  BY <1>2 DEF Plan, EnsureOf
<1>11. Plan(opportunity, offset)[Taken(offset) + 1] =
          IF NextOffset(offset) < Len(listing)
          THEN ContinueOf(opportunity, NextOffset(offset)) ELSE ScheduledRuns
  BY <1>2 DEF Plan, ContinueOf, ScheduledRuns
<1>. QED
  BY <1>1, <1>2, <1>3, <1>4, <1>8, <1>9, <1>10, <1>11

LEMMA PagesTyped ==
  ASSUME TypeOK, NEW opportunity \in Opportunities, NEW offset \in Nat
  PROVE  /\ Verdict(opportunity) \in {"Accepted", "Declined"}
         /\ Pages(opportunity, offset) \in Seq(Requests)
  BY PlanRequests DEF Pages, Verdict

-----------------------------------------------------------------------------
(* The steps. *)

(* What is typed beside the tables. *)
Rest ==
    /\ snapshot \in Snapshots
    /\ listing \in Listings
    /\ refusing \subseteq Refusable
    /\ up \in BOOLEAN
    /\ running \in BOOLEAN
    /\ batch \subseteq Nat
    /\ progressed \in BOOLEAN
    /\ passes \in 0..MaxPasses
    /\ crashes \in Nat
    /\ owed \in [Commands -> SUBSET Episodes]
    /\ running => up
    /\ ~running => batch = {}

LEMMA TypeParts == /\ TypeOK <=> Tables /\ Rest
                   /\ TypeOK' <=> Tables' /\ Rest'
<1>1. TypeOK <=> Tables /\ Rest
  BY DEF TypeOK, Tables, Rest
<1>2. TypeOK' <=> Tables' /\ Rest'
  BY DEF TypeOK, Tables, Rest
<1>. QED
  BY <1>1, <1>2

LEMMA InitInv == Init => Inv
<1>1. Init => TypeOK
  <2>1. Init => Tables
    BY DEF Init, Tables
  <2>2. 0 \in 0..MaxPasses /\ 0 \in Nat
    BY KernelAssumption
  <2>3. Init => Rest
    BY <2>2 DEF Init, Rest
  <2>. QED
    BY <2>1, <2>3, TypeParts
<1>2. Init => ReceiptsTile
  BY DEF Init, ReceiptsTile
<1>3. Init => CausesPrecede
  BY DEF Init, CausesPrecede
<1>4. Init => ExecutedOnce
  BY DEF Init, ExecutedOnce
<1>. QED
  BY <1>1, <1>2, <1>3, <1>4 DEF Inv

(* A transaction keeps the three relations between the tables. *)
LEMMA CommitInv ==
  ASSUME Inv, NEW ingress, NEW fingerprint, NEW correlation, NEW disposition,
         NEW requests, NEW at,
         Admissible(ingress, fingerprint, correlation, disposition, requests, at),
         Commit(ingress, fingerprint, correlation, disposition, requests, at)
  PROVE  Tables' /\ ReceiptsTile' /\ CausesPrecede' /\ ExecutedOnce'
  BY CommitTyped, CommitTiles, CommitCauses, CommitExecutes

(* So does an action that writes none of them. *)
LEMMA StoreUnchanged ==
  ASSUME Inv, UNCHANGED store
  PROVE  Tables' /\ ReceiptsTile' /\ CausesPrecede' /\ ExecutedOnce'
<1>1. Tables'
  BY DEF Inv, TypeOK, Tables, store
<1>2. ReceiptsTile'
  BY DEF Inv, ReceiptsTile, store
<1>3. CausesPrecede'
  BY DEF Inv, CausesPrecede, store
<1>4. ExecutedOnce'
  BY DEF Inv, ExecutedOnce, store
<1>. QED
  BY <1>1, <1>2, <1>3, <1>4

LEMMA ObserveInv ==
  ASSUME Inv, NEW c \in Commands, NEW s \in Snapshots, Observe(c, s)
  PROVE  Inv'
<1> DEFINE call == [kind |-> "Observe", snapshot |-> s]
           d == IF s = snapshot THEN "Declined" ELSE "Accepted"
<1>1. Admissible(Application(c), call, c, d, <<>>, 0)
  BY DEF Observe, Admissible, Application, Ingresses, Calls
<1>2. Commit(Application(c), call, c, d, <<>>, 0)
  BY DEF Observe
<1>3. Tables' /\ ReceiptsTile' /\ CausesPrecede' /\ ExecutedOnce'
  BY <1>1, <1>2, CommitInv
<1>4. Rest'
  BY DEF Observe, executor, Inv, TypeOK, Rest
<1>. QED
  BY <1>3, <1>4, TypeParts DEF Inv

LEMMA ReconcileInv ==
  ASSUME Inv, NEW c \in Commands, NEW o \in Opportunities, Reconcile(c, o)
  PROVE  Inv'
<1> DEFINE call == [kind |-> "Reconcile", opportunity |-> o]
<1>1. Verdict(o) \in {"Accepted", "Declined"} /\ Pages(o, 0) \in Seq(Requests)
  BY PagesTyped DEF Inv
<1>2. Admissible(Application(c), call, c, Verdict(o), Pages(o, 0), o.at)
  BY <1>1 DEF Reconcile, Admissible, Application, Ingresses, Calls, Opportunities
<1>3. Commit(Application(c), call, c, Verdict(o), Pages(o, 0), o.at)
  BY DEF Reconcile
<1>4. Tables' /\ ReceiptsTile' /\ CausesPrecede' /\ ExecutedOnce'
  BY <1>2, <1>3, CommitInv
<1>5. Listed \subseteq Episodes
  BY KernelAssumption DEF Listed, Inv, TypeOK
<1>6. Rest'
  BY <1>5, KernelAssumption DEF Reconcile, StartExecutor, world, Inv, TypeOK, Rest
<1>. QED
  BY <1>4, <1>6, TypeParts DEF Inv

LEMMA ExecuteInv ==
  ASSUME Inv, NEW i \in Pending, Execute(i)
  PROVE  Inv'
<1>1. i \in intents /\ i.request \in Requests /\ i.correlation \in Commands
      /\ i.at \in Times /\ i.id \in Nat
  BY DEF Pending, Inv, TypeOK
<1>2. PICK d \in Dispositions(i) :
         Commit(Internal(i.id), i.request, i.correlation, d, Followers(i), i.at)
  BY DEF Execute
<1>3. i.request.kind = "Continue" =>
         i.request.opportunity \in Opportunities /\ i.request.offset \in Nat
  BY <1>1 DEF Requests
<1>4. i.request.kind \in {"Ensure", "Scheduled", "Continue"}
  BY <1>1 DEF Requests
<1>5. d \in {"Accepted", "Declined"}
  BY <1>2, <1>4 DEF Dispositions, Verdict
<1>6. Followers(i) \in Seq(Requests)
  BY <1>3, PagesTyped DEF Followers, Inv
<1>7. Admissible(Internal(i.id), i.request, i.correlation, d, Followers(i), i.at)
  BY <1>1, <1>5, <1>6 DEF Execute, Admissible, Internal, Ingresses
<1>8. Tables' /\ ReceiptsTile' /\ CausesPrecede' /\ ExecutedOnce'
  BY <1>2, <1>7, CommitInv
<1>9. Rest'
  BY DEF Execute, InTurn, world, Inv, TypeOK, Rest
<1>. QED
  BY <1>8, <1>9, TypeParts DEF Inv

LEMMA ReadInv == ASSUME Inv, ReadPending PROVE Inv'
<1>1. Tables' /\ ReceiptsTile' /\ CausesPrecede' /\ ExecutedOnce'
  BY StoreUnchanged DEF ReadPending
<1>2. PICK h \in Heads : batch' = {i.id : i \in h}
  BY DEF ReadPending
<1>3. \A i \in h : i.id \in Nat
  BY <1>2 DEF Heads, Pending, Inv, TypeOK
<1>4. passes' \in 0..MaxPasses
  BY KernelAssumption DEF ReadPending, MayRead, Inv, TypeOK
<1>5. Rest'
  BY <1>2, <1>3, <1>4 DEF ReadPending, world, Inv, TypeOK, Rest
<1>. QED
  BY <1>1, <1>5, TypeParts DEF Inv

LEMMA QuietInv ==
  ASSUME Inv,
         \/ \E c \in Commands : Redeliver(c)
         \/ Stop
         \/ \E i \in Pending : Skip(i)
         \/ \E l \in Listings : ChangeListing(l)
         \/ \E o \in Refusable : ChangeRefusing(o)
         \/ Crash
         \/ Open
         \/ UNCHANGED vars
  PROVE  Inv'
<1>1. UNCHANGED store
  BY DEF Redeliver, Stop, Skip, ChangeListing, ChangeRefusing, Crash, Open, vars
<1>2. Tables' /\ ReceiptsTile' /\ CausesPrecede' /\ ExecutedOnce'
  BY <1>1, StoreUnchanged
<1>3. Rest /\ 0 \in 0..MaxPasses
  BY TypeParts, KernelAssumption DEF Inv
<1>4. Rest'
  <2>1. CASE \E c \in Commands : Redeliver(c)
    BY <1>3, <2>1, KernelAssumption DEF Redeliver, StartExecutor, world, Rest
  <2>2. CASE Stop
    BY <1>3, <2>2 DEF Stop, world, Rest
  <2>3. CASE \E i \in Pending : Skip(i)
    <3>1. batch' \subseteq batch /\ running
      BY <2>3 DEF Skip, InTurn
    <3>2. UNCHANGED <<world, up, owed, running, progressed, passes>>
      BY <2>3 DEF Skip
    <3>. QED
      BY <1>3, <3>1, <3>2 DEF world, Rest
  <2>4. CASE \E l \in Listings : ChangeListing(l)
    BY <1>3, <2>4 DEF ChangeListing, executor, Rest
  <2>5. CASE \E o \in Refusable : ChangeRefusing(o)
    BY <1>3, <2>5 DEF ChangeRefusing, executor, Rest
  <2>6. CASE Crash
    <3>1. crashes' \in Nat
      BY <1>3, <2>6 DEF Crash, Rest
    <3>. QED
      BY <1>3, <2>6, <3>1 DEF Crash, Rest
  <2>7. CASE Open
    BY <1>3, <2>7, KernelAssumption DEF Open, StartExecutor, world, Rest
  <2>8. CASE UNCHANGED vars
    BY <1>3, <2>8 DEF vars, executor, world, Rest
  <2>. QED
    BY <2>1, <2>2, <2>3, <2>4, <2>5, <2>6, <2>7, <2>8
<1>. QED
  BY <1>2, <1>4, TypeParts DEF Inv

LEMMA NextInv == Inv /\ [Next]_vars => Inv'
  BY ObserveInv, ReconcileInv, ExecuteInv, ReadInv, QuietInv DEF Next

-----------------------------------------------------------------------------
(* What an opportunity has asked for.  A command is known by its number; a *)
(* command is pending as long as no receipt answers it.                    *)

Asks(c, request, n) ==
    \E i \in intents : i.correlation = c /\ i.request = request /\ i.id = n

AskedOnce(c, request) == \E n \in Nat : \A m \in Nat : Asks(c, request, m) <=> m = n

NeverAsked(c, request) == \A m \in Nat : ~Asks(c, request, m)

Accepted(n) == \E r \in receipts : r.ingress = Internal(n) /\ r.disposition = "Accepted"

Begun(c) == ~Fresh(Application(c))

Reconciled(c) ==
    \E r \in receipts : /\ r.ingress = Application(c)
                        /\ r.fingerprint.kind = "Reconcile"
                        /\ r.disposition = "Accepted"

(* The pages before this offset have been planned, and none behind it.     *)
AskedUpTo(c, offset) ==
    /\ offset <= Len(listing)
    /\ \A n \in 1..Len(listing) :
          IF n <= offset THEN AskedOnce(c, EnsureOf(listing[n]))
                         ELSE NeverAsked(c, EnsureOf(listing[n]))

Owes(c, offset) == owed[c] = {} \/ (owed[c] = Listed /\ AskedUpTo(c, offset))

(* The pages of c have been continued up to the command n, which plans the *)
(* page at this offset.                                                    *)
ContinuedTo(c, n, opportunity, offset) ==
    /\ Asks(c, ContinueOf(opportunity, offset), n)
    /\ ~Accepted(n)
    /\ \A m \in Nat, p \in Opportunities, x \in Nat :
          Asks(c, ContinueOf(p, x), m) /\ m # n => Accepted(m)
    /\ Fresh(Internal(n)) => Owes(c, offset)

(* No page was planned; one continuation is to be carried out, or was      *)
(* declined; or every page was planned.                                    *)
Idle(c) ==
    /\ \A request \in Requests : NeverAsked(c, request)
    /\ owed[c] = {}
    /\ ~Reconciled(c)

Paging(c) ==
    /\ Begun(c)
    /\ NeverAsked(c, ScheduledRuns)
    /\ \E n \in Nat, opportunity \in Opportunities, offset \in Nat :
          ContinuedTo(c, n, opportunity, offset)

Complete(c) ==
    /\ Begun(c)
    /\ AskedOnce(c, ScheduledRuns)
    /\ \A m \in Nat, p \in Opportunities, x \in Nat : Asks(c, ContinueOf(p, x), m) => Accepted(m)
    /\ \A e \in owed[c] : AskedOnce(c, EnsureOf(e))

Covers(c) == Idle(c) \/ Paging(c) \/ Complete(c)

CoverInv == \A c \in Commands : Covers(c)

(* A number stands for one command.                                        *)
LEMMA AsksRange ==
  ASSUME Inv, NEW c, NEW request, NEW n, Asks(c, request, n)
  PROVE  /\ n \in 1..sequence /\ n \in Nat /\ sequence \in Nat
         /\ c \in Commands /\ request \in Requests
  BY DEF Asks, Inv, TypeOK

LEMMA AsksUnique ==
  ASSUME Inv, NEW c, NEW request, NEW n, Asks(c, request, n),
         NEW d, NEW other, Asks(d, other, n)
  PROVE  c = d /\ request = other
  BY DEF Asks, Inv, ExecutedOnce

LEMMA CommitAsks ==
  ASSUME Inv, NEW ingress, NEW fingerprint, NEW correlation, NEW disposition,
         NEW requests, NEW at,
         Admissible(ingress, fingerprint, correlation, disposition, requests, at),
         Commit(ingress, fingerprint, correlation, disposition, requests, at),
         NEW c, NEW request, NEW n
  PROVE  Asks(c, request, n)' <=>
            \/ Asks(c, request, n)
            \/ /\ c = correlation
               /\ \E m \in 1..Len(requests) :
                     request = requests[m] /\ n = sequence + Lead(disposition) + m
<1> DEFINE lead == Lead(disposition)
           count == lead + Len(requests)
           Queued(m) == NewIntent(m, requests, correlation, at, lead)
<1>1. intents' = Consumed(ingress) \cup {Queued(m) : m \in 1..Len(requests)}
  BY CommitRows
<1>2. \A m \in 1..Len(requests) : /\ Queued(m).id = sequence + lead + m
                                  /\ Queued(m).request = requests[m]
                                  /\ Queued(m).correlation = correlation
  BY DEF NewIntent
<1> HIDE DEF Queued
<1>3. (\E i \in Consumed(ingress) : i.correlation = c /\ i.request = request /\ i.id = n)
         <=> Asks(c, request, n)
  BY ConsumedRows DEF Asks
<1>4. Asks(c, request, n)' <=>
         \E i \in intents' : i.correlation = c /\ i.request = request /\ i.id = n
  BY DEF Asks
<1>5. (\E i \in {Queued(m) : m \in 1..Len(requests)} :
          i.correlation = c /\ i.request = request /\ i.id = n)
         <=> /\ c = correlation
             /\ \E m \in 1..Len(requests) : request = requests[m] /\ n = sequence + lead + m
  BY <1>2
<1>. QED
  BY <1>1, <1>3, <1>4, <1>5

LEMMA CommitAnswers ==
  ASSUME Inv, NEW ingress, NEW fingerprint, NEW correlation, NEW disposition,
         NEW requests, NEW at,
         Admissible(ingress, fingerprint, correlation, disposition, requests, at),
         Commit(ingress, fingerprint, correlation, disposition, requests, at)
  PROVE  /\ \A n : Fresh(Internal(n))' => Fresh(Internal(n)) /\ ingress # Internal(n)
         /\ \A n : Accepted(n)' <=>
               Accepted(n) \/ (ingress = Internal(n) /\ disposition = "Accepted")
         /\ \A c : Begun(c)' <=> Begun(c) \/ ingress = Application(c)
         /\ \A c : Reconciled(c)' <=>
               \/ Reconciled(c)
               \/ /\ ingress = Application(c)
                  /\ fingerprint.kind = "Reconcile"
                  /\ disposition = "Accepted"
<1> DEFINE receipt == NewReceipt(ingress, fingerprint, disposition,
                                 Lead(disposition) + Len(requests))
<1>1. receipts' = receipts \cup {receipt}
  BY CommitRows
<1>2. /\ receipt.ingress = ingress /\ receipt.fingerprint = fingerprint
      /\ receipt.disposition = disposition
  BY DEF NewReceipt
<1> HIDE DEF receipt
<1>3. \A n : Fresh(Internal(n))' => Fresh(Internal(n)) /\ ingress # Internal(n)
  BY <1>1, <1>2 DEF Fresh
<1>4. \A n : Accepted(n)' <=>
         Accepted(n) \/ (ingress = Internal(n) /\ disposition = "Accepted")
  BY <1>1, <1>2 DEF Accepted
<1>5. \A c : Begun(c)' <=> Begun(c) \/ ingress = Application(c)
  BY <1>1, <1>2 DEF Begun, Fresh
<1>6. \A c : Reconciled(c)' <=>
               \/ Reconciled(c)
               \/ /\ ingress = Application(c)
                  /\ fingerprint.kind = "Reconcile"
                  /\ disposition = "Accepted"
  BY <1>1, <1>2 DEF Reconciled
<1>. QED
  BY <1>3, <1>4, <1>5, <1>6

(* A transaction that queues nothing for c and accepts no continuation of  *)
(* it leaves c as covered as it was.                                       *)
LEMMA StillCovers ==
  ASSUME Inv, NEW ingress, NEW fingerprint, NEW correlation, NEW disposition,
         NEW requests, NEW at,
         Admissible(ingress, fingerprint, correlation, disposition, requests, at),
         Commit(ingress, fingerprint, correlation, disposition, requests, at),
         NEW c \in Commands, Covers(c),
         c # correlation \/ requests = <<>>,
         disposition = "Accepted" =>
            \A n \in Nat, p \in Opportunities, x \in Nat :
               Asks(c, ContinueOf(p, x), n) => ingress # Internal(n),
         ~(/\ ingress = Application(c)
           /\ fingerprint.kind = "Reconcile"
           /\ disposition = "Accepted"),
         listing' = listing, owed'[c] = owed[c]
  PROVE  Covers(c)'
<1>1. \A request, n : Asks(c, request, n)' <=> Asks(c, request, n)
  <2>1. requests = <<>> => Len(requests) = 0 /\ 1..Len(requests) = {}
    OBVIOUS
  <2>. QED
    BY <2>1, CommitAsks
<1>2. \A request : /\ AskedOnce(c, request)' <=> AskedOnce(c, request)
                   /\ NeverAsked(c, request)' <=> NeverAsked(c, request)
  BY <1>1 DEF AskedOnce, NeverAsked
<1>3. /\ \A n : Fresh(Internal(n))' => Fresh(Internal(n)) /\ ingress # Internal(n)
      /\ \A n : Accepted(n) => Accepted(n)'
      /\ \A n : Accepted(n)' =>
            Accepted(n) \/ (ingress = Internal(n) /\ disposition = "Accepted")
      /\ Begun(c) => Begun(c)'
      /\ Reconciled(c)' => Reconciled(c)
  BY CommitAnswers
<1>4. \A offset : Owes(c, offset) => Owes(c, offset)'
  <2>1. Listed' = Listed
    BY DEF Listed
  <2>2. \A offset : AskedUpTo(c, offset) => AskedUpTo(c, offset)'
    BY <1>2 DEF AskedUpTo
  <2>. QED
    BY <2>1, <2>2 DEF Owes
<1>5. CASE Idle(c)
  BY <1>2, <1>3, <1>5 DEF Covers, Idle
<1>6. CASE Paging(c)
  <2>1. PICK n \in Nat, opportunity \in Opportunities, offset \in Nat :
           ContinuedTo(c, n, opportunity, offset)
    BY <1>6 DEF Paging
  <2>2. ~Accepted(n)'
    BY <1>3, <2>1 DEF ContinuedTo
  <2>3. ContinuedTo(c, n, opportunity, offset)'
    BY <1>1, <1>3, <1>4, <2>1, <2>2 DEF ContinuedTo
  <2>. QED
    BY <1>2, <1>3, <1>6, <2>3 DEF Covers, Paging
<1>7. CASE Complete(c)
  BY <1>1, <1>2, <1>3, <1>7 DEF Covers, Complete
<1>. QED
  BY <1>5, <1>6, <1>7 DEF Covers

(* A transaction that plans a page of c, all earlier continuations of which *)
(* are accepted with it.                                                    *)
LEMMA PageCovers ==
  ASSUME Inv, NEW ingress, NEW fingerprint, NEW c \in Commands,
         NEW opportunity \in Opportunities, NEW offset \in Nat, NEW at,
         Admissible(ingress, fingerprint, c, "Accepted", Plan(opportunity, offset), at),
         Commit(ingress, fingerprint, c, "Accepted", Plan(opportunity, offset), at),
         listing' = listing,
         Begun(c)',
         NeverAsked(c, ScheduledRuns),
         \A m \in Nat, p \in Opportunities, x \in Nat :
            Asks(c, ContinueOf(p, x), m) => Accepted(m)',
         owed'[c] = {} \/ (owed'[c] = Listed /\ AskedUpTo(c, offset))
  PROVE  Covers(c)'
<1> DEFINE rs == Plan(opportunity, offset)
<1>0. PICK T \in Nat, end \in Nat, base \in Nat :
         T = Taken(offset) /\ end = NextOffset(offset) /\ base = sequence + Lead("Accepted")
  <2>1. Taken(offset) \in Nat /\ NextOffset(offset) \in Nat
    BY PlanRequests DEF Inv
  <2>2. sequence + Lead("Accepted") \in Nat
    BY DEF Lead, Inv, TypeOK
  <2>. QED
    BY <2>1, <2>2
<1>1. /\ Len(listing) \in Nat /\ T \in Nat
      /\ end \in Nat /\ end = offset + T
      /\ offset <= Len(listing) => end <= Len(listing)
      /\ rs \in Seq(Requests) /\ Len(rs) = T + 1
      /\ \A m \in 1..T : offset + m \in 1..Len(listing) /\ rs[m] = EnsureOf(listing[offset + m])
      /\ end < Len(listing) => rs[T + 1] = ContinueOf(opportunity, end)
      /\ ~(end < Len(listing)) => rs[T + 1] = ScheduledRuns
  BY <1>0, PlanRequests DEF Inv
<1>2. \A q, n : Asks(c, q, n)' <=>
         Asks(c, q, n) \/ \E m \in 1..(T + 1) : q = rs[m] /\ n = base + m
  BY <1>0, <1>1, CommitAsks
<1>3. base \in Nat /\ sequence \in Nat /\ base = sequence + 2
  BY <1>0 DEF Lead, Inv, TypeOK
<1>4. \A q, n : Asks(c, q, n) => n \in 1..sequence
  BY AsksRange
<1>5. \A m, k \in 1..(T + 1) : /\ base + m \in Nat /\ base + m \notin 1..sequence
                               /\ base + m = base + k => m = k
  BY <1>1, <1>3
<1>6. \A m, n \in 1..Len(listing) : listing[m] = listing[n] => m = n
  <2>1. listing \in Listings /\ listing \in Seq(Episodes)
    BY KernelAssumption DEF Inv, TypeOK
  <2>2. DOMAIN listing = 1..Len(listing)
    BY <2>1
  <2>. QED
    BY <2>1, <2>2, KernelAssumption
<1> HIDE DEF rs
<1>7. ASSUME NEW q, NeverAsked(c, q), NEW m \in 1..(T + 1), rs[m] = q,
             \A k \in 1..(T + 1) : rs[k] = q => k = m
      PROVE  AskedOnce(c, q)'
  <2>1. \A n \in Nat : Asks(c, q, n)' <=> n = base + m
    BY <1>2, <1>7 DEF NeverAsked
  <2>. QED
    BY <1>5, <1>7, <2>1 DEF AskedOnce
<1>8. ASSUME NEW q, \A k \in 1..(T + 1) : rs[k] # q
      PROVE  /\ AskedOnce(c, q) => AskedOnce(c, q)'
             /\ NeverAsked(c, q) => NeverAsked(c, q)'
  <2>1. \A n : Asks(c, q, n)' <=> Asks(c, q, n)
    BY <1>2, <1>8
  <2>. QED
    BY <2>1 DEF AskedOnce, NeverAsked
<1>9. \A e : rs[T + 1] # EnsureOf(e)
  BY <1>1, RequestsDiffer
<1>10. \A k \in 1..(T + 1) : k \in 1..T \/ k = T + 1
  BY <1>1
<1>11. T + 1 \in 1..(T + 1)
  BY <1>1
<1>12. ASSUME owed'[c] # {}
       PROVE  AskedUpTo(c, end)' /\ owed'[c] = Listed' /\ end <= Len(listing)
  <2>1. owed'[c] = Listed /\ AskedUpTo(c, offset)
    BY <1>12
  <2>2. offset <= Len(listing) /\ end <= Len(listing)
    BY <1>1, <2>1 DEF AskedUpTo
  <2>3. ASSUME NEW n \in 1..Len(listing)
        PROVE  IF n <= end THEN AskedOnce(c, EnsureOf(listing[n]))'
                            ELSE NeverAsked(c, EnsureOf(listing[n]))'
    <3>1. \A k \in 1..(T + 1) : rs[k] = EnsureOf(listing[n]) => k \in 1..T /\ n = offset + k
      <4>1. SUFFICES ASSUME NEW k \in 1..(T + 1), rs[k] = EnsureOf(listing[n])
                     PROVE  k \in 1..T /\ n = offset + k
        OBVIOUS
      <4>2. k \in 1..T
        BY <1>9, <1>10, <4>1
      <4>3. listing[offset + k] = listing[n]
        BY <1>1, <4>1, <4>2, RequestsDiffer
      <4>. QED
        BY <1>1, <1>6, <4>2, <4>3
    <3>2. CASE n <= offset
      <4>1. \A k \in 1..(T + 1) : rs[k] # EnsureOf(listing[n])
        BY <1>1, <3>1, <3>2
      <4>2. AskedOnce(c, EnsureOf(listing[n]))
        BY <2>1, <3>2 DEF AskedUpTo
      <4>. QED
        BY <1>1, <1>8, <3>2, <4>1, <4>2
    <3>3. CASE offset < n /\ n <= end
      <4>1. n - offset \in 1..T /\ n - offset \in 1..(T + 1) /\ offset + (n - offset) = n
        BY <1>1, <3>3
      <4>2. rs[n - offset] = EnsureOf(listing[n])
        BY <1>1, <4>1
      <4>3. \A k \in 1..(T + 1) : rs[k] = EnsureOf(listing[n]) => k = n - offset
        BY <1>1, <3>1
      <4>4. NeverAsked(c, EnsureOf(listing[n]))
        BY <1>1, <2>1, <3>3 DEF AskedUpTo
      <4>. QED
        BY <1>7, <3>3, <4>1, <4>2, <4>3, <4>4
    <3>4. CASE end < n
      <4>1. \A k \in 1..(T + 1) : rs[k] # EnsureOf(listing[n])
        BY <1>1, <3>1, <3>4
      <4>2. NeverAsked(c, EnsureOf(listing[n]))
        BY <1>1, <2>1, <3>4 DEF AskedUpTo
      <4>. QED
        BY <1>1, <1>8, <3>4, <4>1, <4>2
    <3>. QED
      BY <1>1, <3>2, <3>3, <3>4
  <2>4. AskedUpTo(c, end)'
    BY <2>2, <2>3 DEF AskedUpTo
  <2>. QED
    BY <2>1, <2>2, <2>4 DEF Listed
<1>13. CASE end < Len(listing)
  <2>1. rs[T + 1] = ContinueOf(opportunity, end)
    BY <1>1, <1>13
  <2>2. \A k \in 1..(T + 1) : rs[k] # ScheduledRuns
    BY <1>1, <1>10, <2>1, RequestsDiffer
  <2>3. NeverAsked(c, ScheduledRuns)'
    BY <1>8, <2>2
  <2>4. Asks(c, ContinueOf(opportunity, end), base + (T + 1))'
    BY <1>2, <1>11, <2>1
  <2>5. ~Accepted(base + (T + 1))'
    <3>1. \A i \in intents : i.id # base + (T + 1)
      BY <1>5, <1>11 DEF Inv, TypeOK
    <3>2. ~Accepted(base + (T + 1))
      <4>1. ASSUME NEW r \in receipts, r.ingress = Internal(base + (T + 1))
            PROVE  FALSE
        <5>1. r.ingress.kind = "Internal" /\ r.ingress.id = base + (T + 1)
          BY <4>1 DEF Internal
        <5>2. PICK i \in intents : r.ingress = Internal(i.id)
          BY <5>1 DEF Inv, ExecutedOnce
        <5>. QED
          BY <3>1, <5>1, <5>2 DEF Internal
      <4>. QED
        BY <4>1 DEF Accepted
    <3>3. ingress # Internal(base + (T + 1))
      BY <3>1 DEF Internal, Application, Pending, Admissible
    <3>. QED
      BY <3>2, <3>3, CommitAnswers
  <2>6. ASSUME NEW m \in Nat, NEW p \in Opportunities, NEW x \in Nat,
               Asks(c, ContinueOf(p, x), m)', m # base + (T + 1)
        PROVE  Accepted(m)'
    <3>1. CASE Asks(c, ContinueOf(p, x), m)
      BY <3>1
    <3>2. CASE ~Asks(c, ContinueOf(p, x), m)
      <4>1. PICK k \in 1..(T + 1) : ContinueOf(p, x) = rs[k] /\ m = base + k
        BY <1>2, <2>6, <3>2
      <4>2. k \in 1..T
        BY <1>10, <2>6, <4>1
      <4>. QED
        BY <1>1, <4>1, <4>2, RequestsDiffer
    <3>. QED
      BY <3>1, <3>2
  <2>7. Owes(c, end)'
    BY <1>12 DEF Owes
  <2>8. ContinuedTo(c, base + (T + 1), opportunity, end)'
    BY <2>4, <2>5, <2>6, <2>7 DEF ContinuedTo
  <2>. QED
    BY <1>1, <1>5, <1>11, <2>3, <2>8 DEF Covers, Paging
<1>14. CASE ~(end < Len(listing))
  <2>1. rs[T + 1] = ScheduledRuns
    BY <1>1, <1>14
  <2>2. \A k \in 1..(T + 1) : rs[k] = ScheduledRuns => k = T + 1
    BY <1>1, <1>10, RequestsDiffer
  <2>3. AskedOnce(c, ScheduledRuns)'
    BY <1>7, <1>11, <2>1, <2>2
  <2>4. ASSUME NEW m \in Nat, NEW p \in Opportunities, NEW x \in Nat,
               Asks(c, ContinueOf(p, x), m)'
        PROVE  Accepted(m)'
    <3>1. \A k \in 1..(T + 1) : rs[k] # ContinueOf(p, x)
      BY <1>1, <1>10, <2>1, RequestsDiffer
    <3>. QED
      BY <1>2, <2>4, <3>1
  <2>5. \A e \in owed'[c] : AskedOnce(c, EnsureOf(e))'
    <3>1. SUFFICES ASSUME NEW e \in owed'[c] PROVE AskedOnce(c, EnsureOf(e))'
      OBVIOUS
    <3>2. AskedUpTo(c, end)' /\ owed'[c] = Listed /\ end = Len(listing)
      BY <1>1, <1>12, <1>14, <3>1 DEF Listed
    <3>3. listing \in Seq(Episodes) /\ DOMAIN listing = 1..Len(listing)
      BY KernelAssumption DEF Inv, TypeOK
    <3>4. PICK n \in 1..Len(listing) : e = listing[n]
      BY <3>1, <3>2, <3>3 DEF Listed
    <3>5. n <= end
      BY <3>2
    <3>. QED
      BY <1>1, <3>2, <3>4, <3>5 DEF AskedUpTo
  <2>. QED
    BY <2>3, <2>4, <2>5 DEF Covers, Complete
<1>. QED
  BY <1>13, <1>14

LEMMA InitCovers == Init => CoverInv
  BY DEF Init, CoverInv, Covers, Idle, NeverAsked, Asks, Reconciled

LEMMA ObserveCovers ==
  ASSUME Inv, CoverInv, NEW c \in Commands, NEW s \in Snapshots, Observe(c, s)
  PROVE  CoverInv'
<1> DEFINE call == [kind |-> "Observe", snapshot |-> s]
           d == IF s = snapshot THEN "Declined" ELSE "Accepted"
<1>1. Admissible(Application(c), call, c, d, <<>>, 0)
  BY DEF Observe, Admissible, Application, Ingresses, Calls
<1>2. Commit(Application(c), call, c, d, <<>>, 0)
  BY DEF Observe
<1>3. \A n : Application(c) # Internal(n)
  BY DEF Application, Internal
<1>4. call.kind # "Reconcile"
  OBVIOUS
<1>5. listing' = listing /\ owed' = owed
  BY DEF Observe
<1> HIDE DEF call, d
<1>6. ASSUME NEW e \in Commands PROVE Covers(e)'
  BY <1>1, <1>2, <1>3, <1>4, <1>5, <1>6, StillCovers DEF CoverInv
<1>. QED
  BY <1>6 DEF CoverInv

(* A first page, planned for an identity nothing was asked for yet.        *)
LEMMA ReconcileCovers ==
  ASSUME Inv, CoverInv, NEW c \in Commands, NEW o \in Opportunities, Reconcile(c, o)
  PROVE  CoverInv'
<1> DEFINE call == [kind |-> "Reconcile", opportunity |-> o]
           d == Verdict(o)
<1>1. d \in {"Accepted", "Declined"} /\ Pages(o, 0) \in Seq(Requests)
  BY PagesTyped DEF Inv
<1>2. Admissible(Application(c), call, c, d, Pages(o, 0), o.at)
  BY <1>1 DEF Reconcile, Admissible, Application, Ingresses, Calls, Opportunities
<1>3. Commit(Application(c), call, c, d, Pages(o, 0), o.at)
  BY DEF Reconcile
<1>4. /\ \A n : Application(c) # Internal(n)
      /\ \A e : Application(c) = Application(e) => c = e
  BY DEF Application, Internal
<1>5. listing' = listing
  BY DEF Reconcile, world
<1>6. /\ \A e \in Commands : e # c => owed'[e] = owed[e]
      /\ owed'[c] = IF d = "Accepted" THEN Listed ELSE {}
  BY DEF Reconcile, Inv, TypeOK
<1>7. /\ d = "Accepted" => Pages(o, 0) = Plan(o, 0)
      /\ d = "Declined" => Pages(o, 0) = <<>>
  BY DEF Pages
<1> HIDE DEF call, d
<1>8. ASSUME NEW e \in Commands, e # c PROVE Covers(e)'
  BY <1>2, <1>3, <1>4, <1>5, <1>6, <1>8, StillCovers DEF CoverInv
<1>9. Idle(c) /\ ~Begun(c)
  BY DEF Reconcile, Begun, CoverInv, Covers, Paging, Complete
<1>10. Covers(c)'
  <2>1. CASE d = "Declined"
    <3>1. owed'[c] = owed[c]
      BY <1>6, <1>9, <2>1 DEF Idle
    <3>2. d # "Accepted"
      BY <2>1
    <3>3. Covers(c)
      BY DEF CoverInv
    <3>. QED
      BY <1>2, <1>3, <1>5, <1>7, <2>1, <3>1, <3>2, <3>3, StillCovers
  <2>2. CASE d = "Accepted"
    <3>1. Begun(c)'
      BY <1>2, <1>3, CommitAnswers
    <3>2. \A request : NeverAsked(c, request)
      BY <1>9, AsksRange DEF Idle, NeverAsked
    <3>3. \A m \in Nat, p \in Opportunities, x \in Nat : ~Asks(c, ContinueOf(p, x), m)
      BY <3>2 DEF NeverAsked
    <3>4. Len(listing) \in Nat
      BY KernelAssumption DEF Inv, TypeOK
    <3>5. owed'[c] = Listed /\ AskedUpTo(c, 0)
      BY <1>6, <2>2, <3>2, <3>4 DEF AskedUpTo
    <3>6. /\ Admissible(Application(c), call, c, "Accepted", Plan(o, 0), o.at)
          /\ Commit(Application(c), call, c, "Accepted", Plan(o, 0), o.at)
      BY <1>2, <1>3, <1>7, <2>2
    <3>. QED
      BY <1>5, <3>1, <3>2, <3>3, <3>5, <3>6, PageCovers
  <2>. QED
    BY <1>1, <2>1, <2>2
<1>. QED
  BY <1>8, <1>10 DEF CoverInv

(* Only the continuation that is to be carried out can be: every other one *)
(* of its opportunity has a receipt.                                       *)
LEMMA ExecuteCovers ==
  ASSUME Inv, CoverInv, NEW i \in Pending, Execute(i)
  PROVE  CoverInv'
<1>1. i \in intents /\ i.request \in Requests /\ i.correlation \in Commands
      /\ i.at \in Times /\ i.id \in Nat
  BY DEF Pending, Inv, TypeOK
<1>2. PICK d \in Dispositions(i) :
         Commit(Internal(i.id), i.request, i.correlation, d, Followers(i), i.at)
  BY DEF Execute
<1>3. i.request.kind = "Continue" =>
         /\ i.request.opportunity \in Opportunities /\ i.request.offset \in Nat
         /\ i.request = ContinueOf(i.request.opportunity, i.request.offset)
  BY <1>1 DEF Requests, ContinueOf
<1>4. i.request.kind \in {"Ensure", "Scheduled", "Continue"}
  BY <1>1 DEF Requests
<1>5. d \in {"Accepted", "Declined"}
  BY <1>2, <1>4 DEF Dispositions, Verdict
<1>6. Followers(i) \in Seq(Requests)
  BY <1>3, PagesTyped DEF Followers, Inv
<1>7. Admissible(Internal(i.id), i.request, i.correlation, d, Followers(i), i.at)
  BY <1>1, <1>5, <1>6 DEF Execute, Admissible, Internal, Ingresses
<1>8. listing' = listing /\ owed' = owed
  BY DEF Execute, world
<1>9. Asks(i.correlation, i.request, i.id)
  BY <1>1 DEF Asks
<1>10. /\ \A c : Internal(i.id) # Application(c)
       /\ \A n : Internal(i.id) = Internal(n) => n = i.id
  BY DEF Application, Internal
<1>11. \A p, x : i.request = ContinueOf(p, x) => i.request.kind = "Continue"
  BY DEF ContinueOf
<1>12. ASSUME NEW c \in Commands,
              c # i.correlation \/ i.request.kind # "Continue" \/ d = "Declined"
       PROVE  Covers(c)'
  <2>1. c # i.correlation \/ Followers(i) = <<>>
    <3>1. CASE i.request.kind # "Continue"
      BY <3>1 DEF Followers
    <3>2. CASE i.request.kind = "Continue" /\ d = "Declined"
      BY <1>2, <3>2 DEF Followers, Dispositions, Pages
    <3>. QED
      BY <1>12, <3>1, <3>2
  <2>2. d = "Accepted" =>
            \A n \in Nat, p \in Opportunities, x \in Nat :
               Asks(c, ContinueOf(p, x), n) => Internal(i.id) # Internal(n)
    BY <1>9, <1>10, <1>11, <1>12, AsksUnique
  <2>3. Covers(c)
    BY DEF CoverInv
  <2>. QED
    BY <1>2, <1>7, <1>8, <1>10, <2>1, <2>2, <2>3, StillCovers
<1>13. ASSUME i.request.kind = "Continue", d = "Accepted"
       PROVE  Covers(i.correlation)'
  <2> DEFINE c == i.correlation
             o == i.request.opportunity
             x == i.request.offset
  <2>1. Followers(i) = Plan(o, x)
    BY <1>2, <1>13 DEF Followers, Dispositions, Pages
  <2>2. o \in Opportunities /\ x \in Nat /\ i.request = ContinueOf(o, x)
    BY <1>3, <1>13
  <2>3. Fresh(Internal(i.id)) /\ ~Accepted(i.id)
    BY DEF Execute, Fresh, Accepted
  <2> HIDE DEF c, o, x
  <2>4. Asks(c, ContinueOf(o, x), i.id)
    BY <1>9, <2>2 DEF c
  <2>5. ~Idle(c) /\ ~Complete(c)
    BY <1>1, <2>2, <2>3, <2>4 DEF Idle, NeverAsked, Complete
  <2>6. c \in Commands /\ Paging(c)
    BY <1>1, <2>5 DEF c, CoverInv, Covers
  <2>7. PICK n \in Nat, p \in Opportunities, y \in Nat : ContinuedTo(c, n, p, y)
    BY <2>6 DEF Paging
  <2>8. n = i.id
    BY <1>1, <2>2, <2>3, <2>4, <2>7 DEF ContinuedTo
  <2>9. p = o /\ y = x
    BY <2>4, <2>7, <2>8, AsksUnique, RequestsDiffer DEF ContinuedTo
  <2>10. Owes(c, x)
    BY <2>3, <2>7, <2>8, <2>9 DEF ContinuedTo
  <2>11. /\ Admissible(Internal(i.id), i.request, c, "Accepted", Plan(o, x), i.at)
         /\ Commit(Internal(i.id), i.request, c, "Accepted", Plan(o, x), i.at)
    BY <1>2, <1>7, <1>13, <2>1 DEF c
  <2>12. /\ \A m : Accepted(m) => Accepted(m)'
         /\ Accepted(i.id)'
         /\ Begun(c) => Begun(c)'
    BY <2>11, CommitAnswers
  <2>13. \A m \in Nat, q \in Opportunities, z \in Nat :
            Asks(c, ContinueOf(q, z), m) => Accepted(m)'
    BY <2>7, <2>8, <2>12 DEF ContinuedTo
  <2>14. owed'[c] = {} \/ (owed'[c] = Listed /\ AskedUpTo(c, x))
    BY <1>8, <2>10 DEF Owes
  <2>15. Begun(c)' /\ NeverAsked(c, ScheduledRuns)
    BY <2>6, <2>12 DEF Paging
  <2>16. Covers(c)'
    BY <1>8, <2>2, <2>6, <2>11, <2>13, <2>14, <2>15, PageCovers
  <2>. QED
    BY <2>16 DEF c
<1>. QED
  BY <1>1, <1>5, <1>12, <1>13 DEF CoverInv

(* What was asked and answered is a matter of the queue and the receipts.  *)
LEMMA QueueUnchanged ==
  ASSUME UNCHANGED <<intents, receipts>>
  PROVE  /\ \A c, request, n : Asks(c, request, n)' <=> Asks(c, request, n)
         /\ \A c, request : /\ AskedOnce(c, request)' <=> AskedOnce(c, request)
                            /\ NeverAsked(c, request)' <=> NeverAsked(c, request)
         /\ \A n : Accepted(n)' <=> Accepted(n)
         /\ \A n : Fresh(Internal(n))' <=> Fresh(Internal(n))
         /\ \A c : Begun(c)' <=> Begun(c)
         /\ \A c : Reconciled(c)' <=> Reconciled(c)
<1>1. \A c, request, n : Asks(c, request, n)' <=> Asks(c, request, n)
  BY DEF Asks
<1>2. \A c, request : /\ AskedOnce(c, request)' <=> AskedOnce(c, request)
                      /\ NeverAsked(c, request)' <=> NeverAsked(c, request)
  BY <1>1 DEF AskedOnce, NeverAsked
<1>3. /\ \A n : Accepted(n)' <=> Accepted(n)
      /\ \A n : Fresh(Internal(n))' <=> Fresh(Internal(n))
      /\ \A c : Begun(c)' <=> Begun(c)
      /\ \A c : Reconciled(c)' <=> Reconciled(c)
  BY DEF Accepted, Fresh, Begun, Reconciled
<1>. QED
  BY <1>1, <1>2, <1>3

(* The library may change under an opportunity: while a page is left, what *)
(* was owed is owed no more, and after the last page nothing depends on it. *)
LEMMA ListingCovers ==
  ASSUME Inv, CoverInv, NEW l \in Listings, ChangeListing(l)
  PROVE  CoverInv'
<1>1. UNCHANGED <<intents, receipts>>
  BY DEF ChangeListing, store
<1>2. \A c, request, n : Asks(c, request, n)' <=> Asks(c, request, n)
  BY <1>1, QueueUnchanged
<1>3. \A c, request : /\ AskedOnce(c, request)' <=> AskedOnce(c, request)
                      /\ NeverAsked(c, request)' <=> NeverAsked(c, request)
  BY <1>1, QueueUnchanged
<1>4. /\ \A n : Accepted(n)' <=> Accepted(n)
      /\ \A n : Fresh(Internal(n))' <=> Fresh(Internal(n))
      /\ \A c : Begun(c)' <=> Begun(c)
      /\ \A c : Reconciled(c)' <=> Reconciled(c)
  BY <1>1, QueueUnchanged
<1>5. ASSUME NEW c \in Commands PROVE Covers(c)'
  <2>1. owed'[c] = IF \E i \in Pending : i.correlation = c /\ i.request.kind = "Continue"
                   THEN {} ELSE owed[c]
    BY DEF ChangeListing
  <2>2. CASE Idle(c)
    BY <1>3, <1>4, <2>1, <2>2 DEF Covers, Idle
  <2>3. CASE Paging(c)
    <3>1. PICK n \in Nat, opportunity \in Opportunities, offset \in Nat :
             ContinuedTo(c, n, opportunity, offset)
      BY <2>3 DEF Paging
    <3>2. ASSUME Fresh(Internal(n)) PROVE owed'[c] = {}
      <4>1. PICK i \in intents : /\ i.correlation = c /\ i.id = n
                                 /\ i.request = ContinueOf(opportunity, offset)
        BY <3>1 DEF ContinuedTo, Asks
      <4>2. i.state # "Consumed"
        BY <3>2, <4>1 DEF Fresh, Inv, ExecutedOnce
      <4>3. i \in Pending
        BY <4>2 DEF Pending, Inv, TypeOK
      <4>4. i.request.kind = "Continue"
        BY <4>1 DEF ContinueOf
      <4>. QED
        BY <2>1, <4>1, <4>3, <4>4
    <3>3. Fresh(Internal(n))' => Owes(c, offset)'
      BY <1>4, <3>2 DEF Owes
    <3>4. ContinuedTo(c, n, opportunity, offset)'
      BY <1>2, <1>4, <3>1, <3>3 DEF ContinuedTo
    <3>. QED
      BY <1>3, <1>4, <2>3, <3>4 DEF Covers, Paging
  <2>4. CASE Complete(c)
    <3>1. owed'[c] \subseteq owed[c]
      BY <2>1
    <3>2. \A e \in owed'[c] : AskedOnce(c, EnsureOf(e))'
      BY <1>3, <2>4, <3>1 DEF Complete
    <3>3. Begun(c)' /\ AskedOnce(c, ScheduledRuns)'
      BY <1>3, <1>4, <2>4 DEF Complete
    <3>4. \A m \in Nat, p \in Opportunities, x \in Nat :
             Asks(c, ContinueOf(p, x), m)' => Accepted(m)'
      BY <1>2, <1>4, <2>4 DEF Complete
    <3>5. Complete(c)'
      BY <3>2, <3>3, <3>4 DEF Complete
    <3>. QED
      BY <3>5 DEF Covers
  <2>5. Covers(c)
    BY DEF CoverInv
  <2>. QED
    BY <2>2, <2>3, <2>4, <2>5 DEF Covers
<1>. QED
  BY <1>5 DEF CoverInv

LEMMA QuietCovers ==
  ASSUME CoverInv, UNCHANGED <<intents, receipts, listing, owed>>
  PROVE  CoverInv'
<1>1. /\ \A c, request, n : Asks(c, request, n)' <=> Asks(c, request, n)
      /\ \A n : Accepted(n)' <=> Accepted(n)
      /\ \A n : Fresh(Internal(n))' <=> Fresh(Internal(n))
  BY QueueUnchanged
<1>2. \A c, request : /\ AskedOnce(c, request)' <=> AskedOnce(c, request)
                      /\ NeverAsked(c, request)' <=> NeverAsked(c, request)
  BY QueueUnchanged
<1>3. \A c : (Begun(c)' <=> Begun(c)) /\ (Reconciled(c)' <=> Reconciled(c))
  BY QueueUnchanged
<1>4. \A c, offset : Owes(c, offset) => Owes(c, offset)'
  <2>1. \A c, offset : AskedUpTo(c, offset) => AskedUpTo(c, offset)'
    BY <1>2 DEF AskedUpTo
  <2>. QED
    BY <2>1 DEF Owes, Listed
<1>5. \A c, n, p, x : ContinuedTo(c, n, p, x) => ContinuedTo(c, n, p, x)'
  BY <1>1, <1>4 DEF ContinuedTo
<1>6. \A c : Idle(c) => Idle(c)'
  BY <1>2, <1>3 DEF Idle
<1>7. \A c : Paging(c) => Paging(c)'
  BY <1>2, <1>3, <1>5 DEF Paging
<1>8. \A c : Complete(c) => Complete(c)'
  BY <1>1, <1>2, <1>3 DEF Complete
<1>. QED
  BY <1>6, <1>7, <1>8 DEF CoverInv, Covers

LEMMA NextCovers == Inv /\ CoverInv /\ [Next]_vars => CoverInv'
<1>1. SUFFICES ASSUME Inv, CoverInv, [Next]_vars PROVE CoverInv'
  OBVIOUS
<1>2. CASE \E c \in Commands, s \in Snapshots : Observe(c, s)
  BY <1>1, <1>2, ObserveCovers
<1>3. CASE \E c \in Commands, o \in Opportunities : Reconcile(c, o)
  BY <1>1, <1>3, ReconcileCovers
<1>4. CASE \E i \in Pending : Execute(i)
  BY <1>1, <1>4, ExecuteCovers
<1>5. CASE \E l \in Listings : ChangeListing(l)
  BY <1>1, <1>5, ListingCovers
<1>6. CASE \/ \E c \in Commands : Redeliver(c)
           \/ ReadPending
           \/ Stop
           \/ \E i \in Pending : Skip(i)
           \/ \E o \in Refusable : ChangeRefusing(o)
           \/ Crash
           \/ Open
           \/ UNCHANGED vars
  <2>1. UNCHANGED <<intents, receipts, listing, owed>>
    BY <1>6 DEF Redeliver, ReadPending, Stop, Skip, ChangeRefusing, Crash, Open, store, world,
                vars
  <2>. QED
    BY <1>1, <2>1, QuietCovers
<1>. QED
  BY <1>1, <1>2, <1>3, <1>4, <1>5, <1>6 DEF Next

(* What is asked for once is one row of the queue.                         *)
LEMMA AskedOnceIsOne ==
  ASSUME Inv, NEW c, NEW request, AskedOnce(c, request)
  PROVE  Cardinality({i \in Family(c) : i.request = request}) = 1
<1>1. PICK n \in Nat : \A m \in Nat : Asks(c, request, m) <=> m = n
  BY DEF AskedOnce
<1>2. PICK i \in intents : i.correlation = c /\ i.request = request /\ i.id = n
  BY <1>1 DEF Asks
<1>3. \A j \in Family(c) : j.request = request => j = i
  <2>1. SUFFICES ASSUME NEW j \in Family(c), j.request = request PROVE j = i
    OBVIOUS
  <2>2. j \in intents /\ j.correlation = c /\ j.id \in Nat
    BY <2>1 DEF Family, Inv, TypeOK
  <2>3. j.id = n
    BY <1>1, <2>1, <2>2 DEF Asks
  <2>. QED
    BY <1>2, <2>2, <2>3 DEF Inv, ExecutedOnce
<1>4. {j \in Family(c) : j.request = request} = {i}
  BY <1>2, <1>3 DEF Family
<1>. QED
  BY <1>4, FS_Singleton

LEMMA CoversOpportunity == Inv /\ CoverInv => OpportunityCovers
<1>1. SUFFICES ASSUME Inv, CoverInv, NEW c \in Commands, Planned(c)
               PROVE  /\ \A e \in owed[c] :
                            Cardinality({i \in Family(c) :
                                           i.request = [kind |-> "Ensure", episode |-> e]}) = 1
                      /\ Cardinality({i \in Family(c) : i.request.kind = "Scheduled"}) = 1
  BY DEF OpportunityCovers
<1>2. ~Idle(c)
  BY <1>1 DEF Idle, Planned, Reconciled
<1>3. ~Paging(c)
  <2>1. SUFFICES ASSUME NEW n \in Nat, NEW o \in Opportunities, NEW x \in Nat,
                        ContinuedTo(c, n, o, x)
                 PROVE  FALSE
    BY DEF Paging
  <2>2. PICK i \in intents : /\ i.correlation = c /\ i.id = n
                             /\ i.request = ContinueOf(o, x)
    BY <2>1 DEF ContinuedTo, Asks
  <2>3. i \in Family(c) /\ i.request.kind = "Continue"
    BY <2>2 DEF Family, ContinueOf
  <2>. QED
    BY <1>1, <2>1, <2>2, <2>3 DEF Planned, ContinuedTo, Accepted
<1>4. Complete(c)
  BY <1>1, <1>2, <1>3 DEF CoverInv, Covers
<1>5. \A i \in Family(c) : i.request.kind = "Scheduled" <=> i.request = ScheduledRuns
  BY <1>1 DEF Family, ScheduledRuns, Requests, Inv, TypeOK
<1>6. {i \in Family(c) : i.request.kind = "Scheduled"}
         = {i \in Family(c) : i.request = ScheduledRuns}
  BY <1>5
<1>7. Cardinality({i \in Family(c) : i.request.kind = "Scheduled"}) = 1
  BY <1>1, <1>4, <1>6, AskedOnceIsOne DEF Complete
<1>8. ASSUME NEW e \in owed[c]
      PROVE  Cardinality({i \in Family(c) : i.request = [kind |-> "Ensure", episode |-> e]}) = 1
  BY <1>1, <1>4, <1>8, AskedOnceIsOne DEF Complete, EnsureOf
<1>. QED
  BY <1>7, <1>8

-----------------------------------------------------------------------------
(* The theorems. *)

(* The tables, the queue and the executor keep their shape: in particular  *)
(* nothing is left in a batch once the executor stops or the process ends. *)
THEOREM Typed == Spec => []TypeOK
<1>1. Inv => TypeOK
  BY DEF Inv
<1>. QED
  BY <1>1, InitInv, NextInv, PTL DEF Spec

(* The receipts cut the journal into one interval per transaction, and no  *)
(* ingress has two: a delivery is applied once, however often it arrives.  *)
THEOREM Tiled == Spec => []ReceiptsTile
<1>1. Inv => ReceiptsTile
  BY DEF Inv
<1>. QED
  BY <1>1, InitInv, NextInv, PTL DEF Spec

(* Every fact is a root of its correlation or follows an earlier fact of   *)
(* it that authorised the command the fact reports on.                     *)
THEOREM Causal == Spec => []CausesPrecede
<1>1. Inv => CausesPrecede
  BY DEF Inv
<1>. QED
  BY <1>1, InitInv, NextInv, PTL DEF Spec

(* The queue is what the journal authorised, and a command is consumed     *)
(* exactly when one receipt tells how it ended.                            *)
THEOREM Once == Spec => []ExecutedOnce
<1>1. Inv => ExecutedOnce
  BY DEF Inv
<1>. QED
  BY <1>1, InitInv, NextInv, PTL DEF Spec

(* An opportunity all of whose pages were planned, over whatever crashes   *)
(* and changes of capabilities, has asked once for every episode the       *)
(* library went on listing meanwhile, and once for the scheduled runs.     *)
THEOREM Covered == Spec => []OpportunityCovers
<1>1. Init => Inv /\ CoverInv
  BY InitInv, InitCovers
<1>2. Inv /\ CoverInv /\ [Next]_vars => (Inv /\ CoverInv)'
  BY NextInv, NextCovers
<1>3. Inv /\ CoverInv => OpportunityCovers
  BY CoversOpportunity
<1>. QED
  BY <1>1, <1>2, <1>3, PTL DEF Spec

=============================================================================
