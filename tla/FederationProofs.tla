-------------------------- MODULE FederationProofs --------------------------
(* Proofs about federated posts, for every number of instances, accounts,  *)
(* workers, redrives, blocks and faults: the types and the bound on the    *)
(* attempts, and that what the tables record is what happened elsewhere.   *)
EXTENDS Federation, SequenceTheorems, TLAPS

(***************************************************************************)
(* What the types rest on: a row that waits has attempts left, and every   *)
(* count beyond dlqMaxAttempts is paid for by an operator's redrive.       *)
(***************************************************************************)
SpentOK ==
    /\ spent \in [{"manual", "blocks", "faults"} -> Nat]
    /\ spent["manual"] <= MaxManual

Allowed == MaxAttempts + spent["manual"]

RowCounted(k) ==
    /\ queue[k] \in Attempts
    /\ queue[k].attempts <= Allowed
    /\ Pending(k) => queue[k].attempts < MaxAttempts

CopyCounted(w) ==
    /\ task[w].step \in {"redriving", "settling"} =>
         \A r \in task[w].due : r.attempts < Allowed /\ r.delivery \in DOMAIN queue
    /\ task[w].step = "settling" =>
         task[w].row.attempts < Allowed /\ task[w].row.delivery \in DOMAIN queue

CountInv ==
    /\ TypeOK /\ SpentOK /\ queue \in [DOMAIN queue -> Attempts]
    /\ \A k \in DOMAIN queue : RowCounted(k)
    /\ \A w \in Workers : CopyCounted(w)

(***************************************************************************)
(* What the records rest on.                                               *)
(***************************************************************************)

(* An answer in hand, or a row that is closed, tells of what an inbox has  *)
(* processed.                                                              *)
AnswerTrue(w) ==
    /\ task[w].step = "noting" /\ task[w].outcome = "ok" =>
         [act |-> task[w].act, inbox |-> task[w].inbox] \in received
    /\ task[w].step = "settling" /\ task[w].outcome = "ok" => task[w].row.delivery \in received

AnswersAreTrue == (\A w \in Workers : AnswerTrue(w)) /\ ClosedIsDelivered

(* Other software that has processed a Delete remembers it, and stores     *)
(* nothing of what it remembers as deleted.                                *)
BuriedStaysBuried ==
    /\ buried \cap copies = {} /\ buried \cap Zynkra = {}
    /\ \A x \in received : x.act.type = "Delete" =>
         DomainOf(x.inbox) \in buried \cup Zynkra

(* What a worker has still to do about the Delete for domain d.            *)
WillTell(w, d) ==
    \/ task[w].step = "looking" /\ outbox # << >> /\ d \in Last(outbox).deliveredTo
    \/ /\ task[w].step \in {"sending", "noting"} /\ task[w].act.type = "Delete"
       /\ \/ d \in task[w].left
          \/ /\ task[w].step = "noting" /\ DomainOf(task[w].inbox) = d
             /\ task[w].outcome \in {"down", "refused"}

Kept(d) == \E k \in DOMAIN queue : k.act.type = "Delete" /\ DomainOf(k.inbox) = d

Told(d) == d \in buried \/ Kept(d) \/ \E w \in Workers : WillTell(w, d)

PromisesKept ==
    promised # {} => post = "deleted" /\ ~CreateUnderWay /\ \A d \in promised \ Zynkra : Told(d)

RecordInv == CountInv /\ AnswersAreTrue /\ BuriedStaysBuried /\ PromisesKept
---------------------------------------------------------------------------
(* The shapes of what a worker is doing.                                   *)
Sendings == [step : {"sending"}, act : Activities, left : SUBSET Inboxes, got : SUBSET Domains]
Notings == [step : {"noting"}, act : Activities, left : SUBSET Inboxes, got : SUBSET Domains,
            inbox : Inboxes, outcome : Outcomes]
Redrivings == [step : {"redriving"}, due : SUBSET Due]
Settlings == [step : {"settling"}, due : SUBSET Due, row : Due, outcome : Outcomes]

LEMMA TaskShapes ==
  /\ Tasks = {Idle, [step |-> "looking"]} \cup Sendings \cup Notings \cup Redrivings \cup Settlings
  /\ \A t \in Tasks : /\ t.step = "sending" => t \in Sendings
                      /\ t.step = "noting" => t \in Notings
                      /\ t.step = "redriving" => t \in Redrivings
                      /\ t.step = "settling" => t \in Settlings
<1>1. Tasks = {Idle, [step |-> "looking"]} \cup Sendings \cup Notings \cup Redrivings \cup Settlings
  BY DEF Tasks, Sendings, Notings, Redrivings, Settlings
<1>2. /\ \A t \in Sendings : t.step = "sending"
      /\ \A t \in Notings : t.step = "noting"
      /\ \A t \in Redrivings : t.step = "redriving"
      /\ \A t \in Settlings : t.step = "settling"
      /\ \A t \in {Idle, [step |-> "looking"]} : t.step \in {"idle", "looking"}
  BY DEF Sendings, Notings, Redrivings, Settlings, Idle
<1> QED BY <1>1, <1>2

LEMMA DomainsOfInboxes ==
  /\ \A i \in Inboxes : DomainOf(i) \in Domains
  /\ \A d \in Domains : d \in Inboxes /\ DomainOf(d) = d
BY HomeAssumption DEF Inboxes, DomainOf

(* The variables that are neither the queue nor the workers'.              *)
ShapesOK ==
    /\ post \in {"none", "live", "deleted"}
    /\ minted \in 0..MaxCreates
    /\ blocked \subseteq Domains
    /\ outbox \in Seq([of : 1..MaxCreates, deliveredTo : SUBSET Domains])
    /\ copies \subseteq Domains /\ buried \subseteq Domains
    /\ received \subseteq Deliveries
    /\ promised \subseteq Domains

LEMMA LastOfOutbox ==
  ASSUME ShapesOK, outbox # << >>
  PROVE  Last(outbox).of \in 1..MaxCreates /\ Last(outbox).deliveredTo \subseteq Domains
<1>1. Last(outbox) \in [of : 1..MaxCreates, deliveredTo : SUBSET Domains]
  <2>1. Len(outbox) \in 1..Len(outbox)
    BY EmptySeq DEF ShapesOK
  <2> QED BY <2>1, ElementOfSeq DEF ShapesOK, Last
<1> QED BY <1>1

LEMMA ProcessedShapes ==
  ASSUME ShapesOK, NEW a \in Activities, NEW i \in Inboxes, NEW o, Answer(a, i, o)
  PROVE  copies' \subseteq Domains /\ buried' \subseteq Domains /\ received' \subseteq Deliveries
BY DomainsOfInboxes DEF ShapesOK, Answer, Process, peers, Deliveries

LEMMA ShapesStep ==
  ASSUME CountInv, [Next]_vars
  PROVE  ShapesOK'
<1> USE DEF ShapesOK
<1>0. ShapesOK /\ task \in [Workers -> Tasks]
  BY DEF CountInv, TypeOK
<1>1. ASSUME NEW w \in Workers, NEW ds \in SUBSET Domains, NEW as \in SUBSET Actors,
             FederatePost(w, ds, as)
      PROVE  ShapesOK'
  BY <1>0, <1>1, BoundsAssumption DEF FederatePost, peers
<1>2. ASSUME NEW w \in Workers, RemovePost(w) PROVE ShapesOK'
  BY <1>0, <1>2, LastOfOutbox DEF RemovePost, peers
<1>3. ASSUME NEW w \in Workers,
             \/ FederateDelete(w) \/ Note(w) \/ RedriveSettle(w)
             \/ \E rows \in SUBSET DOMAIN queue : CronList(w, rows)
             \/ \E k \in DOMAIN queue : ManualRedrive(w, k)
             \/ \E r \in task[w].due : RedriveBlocked(w, r)
      PROVE  ShapesOK'
  BY <1>0, <1>3 DEF FederateDelete, Note, RedriveSettle, CronList, ManualRedrive, RedriveBlocked,
                    sender, peers
<1>4. ASSUME NEW w \in Workers, \/ \E i \in Inboxes : Skip(w, i)
                                \/ NoteFails(w) \/ Crash(w)
      PROVE  ShapesOK'
  BY <1>0, <1>4 DEF Skip, NoteFails, Crash, sender, peers
<1>5. ASSUME NEW w \in Workers, NEW i \in Inboxes, NEW o \in Outcomes, Send(w, i, o)
      PROVE  ShapesOK'
  <2>1. task[w].act \in Activities
    BY <1>0, <1>5, TaskShapes DEF Send, Sendings
  <2> QED BY <1>0, <1>5, <2>1, ProcessedShapes DEF Send, sender
<1>6. ASSUME NEW w \in Workers, Record(w) PROVE ShapesOK'
  <2>1. task[w] \in Sendings
    BY <1>0, <1>6, TaskShapes DEF Record
  <2>2. [of |-> task[w].act.of, deliveredTo |-> task[w].got]
          \in [of : 1..MaxCreates, deliveredTo : SUBSET Domains]
    BY <2>1 DEF Sendings, Activities
  <2>3. outbox' \in Seq([of : 1..MaxCreates, deliveredTo : SUBSET Domains])
    BY <1>0, <1>6, <2>2, AppendProperties DEF Record
  <2> QED BY <1>0, <1>6, <2>3 DEF Record, peers
<1>7. ASSUME NEW w \in Workers, task[w].step = "redriving", NEW r \in task[w].due,
             NEW o \in Outcomes, RedriveSend(w, r, o)
      PROVE  ShapesOK'
  <2>1. r \in Due
    BY <1>0, <1>7, TaskShapes DEF Redrivings
  <2>2. r.delivery.act \in Activities /\ r.delivery.inbox \in Inboxes
    BY <2>1 DEF Due, Deliveries
  <2> QED BY <1>0, <1>7, <2>2, ProcessedShapes DEF RedriveSend, sender
<1>8. ASSUME NEW d \in Domains, BlockInstance(d) \/ UnblockInstance(d) PROVE ShapesOK'
  BY <1>0, <1>8 DEF BlockInstance, UnblockInstance, peers
<1>9. CASE UNCHANGED vars
  BY <1>0, <1>9 DEF vars, peers
<1> QED BY <1>1, <1>2, <1>3, <1>4, <1>5, <1>6, <1>7, <1>8, <1>9 DEF Next, Start, Work
---------------------------------------------------------------------------
(* The queue, the copies of its rows, and the count of attempts.           *)

LEMMA Marked ==
  ASSUME queue \in [DOMAIN queue -> Attempts], NEW a, NEW d
  PROVE  /\ DOMAIN MarkDelivered(a, d) = DOMAIN queue
         /\ \A k \in DOMAIN queue :
              LET row == MarkDelivered(a, d)[k]
              IN  /\ row \in Attempts /\ row.attempts = queue[k].attempts
                  /\ row.dead = queue[k].dead
                  /\ queue[k].completed => row.completed
                  /\ row.completed /\ ~queue[k].completed => k.act = a /\ DomainOf(k.inbox) = d
  <1>1. ASSUME NEW k \in DOMAIN queue
        PROVE  LET row == [queue[k] EXCEPT !.completed = TRUE]
               IN  /\ row \in Attempts /\ row.attempts = queue[k].attempts
                   /\ row.dead = queue[k].dead /\ row.completed
    BY DEF Attempts
  <1> QED BY <1>1 DEF MarkDelivered

(* A step of worker w and no other.                                        *)
LEMMA Counted ==
  ASSUME CountInv, ShapesOK', NEW w \in Workers,
         task' = [task EXCEPT ![w] = task'[w]], task'[w] \in Tasks,
         spent' \in [{"manual", "blocks", "faults"} -> Nat], spent'["manual"] <= MaxManual,
         spent'["manual"] >= spent["manual"],
         queue' \in [DOMAIN queue' -> Attempts],
         DOMAIN queue \subseteq DOMAIN queue', DOMAIN queue' \subseteq Deliveries,
         \A k \in DOMAIN queue' : (queue'[k] = queue[k] /\ k \in DOMAIN queue) \/ RowCounted(k)',
         CopyCounted(w)'
  PROVE  CountInv'
<1>0. TypeOK /\ SpentOK /\ task \in [Workers -> Tasks] /\ Allowed \in Nat /\ Allowed' \in Nat
      /\ Allowed' >= Allowed
  BY AttemptsAssumption DEF CountInv, TypeOK, SpentOK, Allowed
<1>1. task' \in [Workers -> Tasks] /\ \A x \in Workers \ {w} : task'[x] = task[x]
  BY <1>0
<1>2. TypeOK'
  BY <1>1 DEF TypeOK, ShapesOK
<1>3. SpentOK'
  BY DEF SpentOK
<1>4. ASSUME NEW k \in DOMAIN queue' PROVE RowCounted(k)'
  <2>1. CASE queue'[k] = queue[k] /\ k \in DOMAIN queue
    <3>1. RowCounted(k) /\ queue[k].attempts \in Nat
      BY <2>1 DEF CountInv, RowCounted, Attempts
    <3> QED BY <1>0, <2>1, <3>1 DEF RowCounted, Pending
  <2> QED BY <2>1
<1>5. ASSUME NEW x \in Workers \ {w} PROVE CopyCounted(x)'
  <2>1. CopyCounted(x) /\ task[x] \in Tasks
    BY <1>0 DEF CountInv
  <2>2. /\ task[x].step \in {"redriving", "settling"} => \A r \in task[x].due : r.attempts \in Nat
        /\ task[x].step = "settling" => task[x].row.attempts \in Nat
    BY <2>1, TaskShapes DEF Redrivings, Settlings, Due
  <2> QED BY <1>0, <1>1, <2>1, <2>2 DEF CopyCounted
<1> QED BY <1>2, <1>3, <1>4, <1>5 DEF CountInv

LEMMA SpendIsCounted ==
  ASSUME SpentOK, NEW b \in {"manual", "blocks", "faults"}, NEW bound, Spend(b, bound)
  PROVE  /\ spent' \in [{"manual", "blocks", "faults"} -> Nat]
         /\ b # "manual" => spent'["manual"] = spent["manual"]
         /\ b = "manual" => spent'["manual"] = spent["manual"] + 1 /\ spent["manual"] < bound
BY DEF SpentOK, Spend

(* A worker that is not left with copies of rows.                          *)
LEMMA NoCopies ==
  ASSUME NEW w \in Workers, task'[w].step \notin {"redriving", "settling"}
  PROVE  CopyCounted(w)'
BY DEF CopyCounted

LEMMA DispatchShapes ==
  ASSUME task \in [Workers -> Tasks], NEW w \in Workers, NEW a \in Activities,
         NEW targets \in SUBSET Inboxes, Dispatch(w, a, targets)
  PROVE  /\ task' = [task EXCEPT ![w] = task'[w]] /\ task'[w] \in Tasks
         /\ task'[w] = IF targets = {} THEN Idle
                       ELSE [step |-> "sending", act |-> a, left |-> targets, got |-> {}]
         /\ task'[w].step \in {"idle", "sending"}
<1> DEFINE t == IF targets = {} THEN Idle
                ELSE [step |-> "sending", act |-> a, left |-> targets, got |-> {}]
<1>1. t \in Tasks
  BY TaskShapes DEF Sendings
<1> HIDE DEF t
<1>2. task' = [task EXCEPT ![w] = t]
  BY DEF Dispatch, t
<1>3. task'[w] = t
  BY <1>2
<1>4. t.step \in {"idle", "sending"}
  BY DEF t, Idle
<1> QED BY <1>1, <1>2, <1>3, <1>4 DEF t

LEMMA TaskMoves ==
  ASSUME task \in [Workers -> Tasks], NEW w \in Workers, NEW t \in Tasks,
         task' = [task EXCEPT ![w] = t]
  PROVE  /\ task'[w] = t /\ task' = [task EXCEPT ![w] = task'[w]] /\ task'[w] \in Tasks
         /\ \A x \in Workers \ {w} : task'[x] = task[x]
OBVIOUS

(* What a fan-out does to its task, for all that follows.                  *)
LEMMA FanOutShapes ==
  ASSUME task \in [Workers -> Tasks], NEW w \in Workers,
         \/ \E i \in Inboxes : Skip(w, i) \/ \E o \in Outcomes : Send(w, i, o)
         \/ Note(w) \/ NoteFails(w) \/ Record(w)
  PROVE  /\ task' = [task EXCEPT ![w] = task'[w]] /\ task'[w] \in Tasks
         /\ task'[w].step \in {"sending", "noting", "idle"}
         /\ task'[w].step # "idle" => task'[w].act = task[w].act
         /\ task'[w].step = "noting" => \E i \in Inboxes, o \in Outcomes : Send(w, i, o)
<1>1. ASSUME NEW i \in Inboxes, Skip(w, i)
      PROVE  /\ task' = [task EXCEPT ![w] = [task[w] EXCEPT !.left = task[w].left \ {i}]]
             /\ [task[w] EXCEPT !.left = task[w].left \ {i}] \in Sendings
             /\ [task[w] EXCEPT !.left = task[w].left \ {i}].act = task[w].act
  <2>1. task[w] \in Sendings
    BY <1>1, TaskShapes DEF Skip
  <2> QED BY <1>1, <2>1 DEF Skip, Sendings
<1>2. ASSUME NEW i \in Inboxes, NEW o \in Outcomes, Send(w, i, o)
      PROVE  LET t == [step |-> "noting", act |-> task[w].act, left |-> task[w].left \ {i},
                       got |-> task[w].got, inbox |-> i, outcome |-> o]
             IN  task' = [task EXCEPT ![w] = t] /\ t \in Notings
  <2>1. task[w] \in Sendings
    BY <1>2, TaskShapes DEF Send
  <2> QED BY <1>2, <2>1 DEF Send, Sendings, Notings
<1>3. ASSUME Note(w) \/ NoteFails(w)
      PROVE  LET t == [step |-> "sending", act |-> task[w].act, left |-> task[w].left,
                       got |-> IF task[w].outcome = "ok"
                               THEN task[w].got \cup {DomainOf(task[w].inbox)} ELSE task[w].got]
             IN  task' = [task EXCEPT ![w] = t] /\ t \in Sendings
  <2>1. task[w] \in Notings
    BY <1>3, TaskShapes DEF Note, NoteFails
  <2>2. DomainOf(task[w].inbox) \in Domains
    BY <2>1, DomainsOfInboxes DEF Notings
  <2> QED BY <1>3, <2>1, <2>2 DEF Note, NoteFails, Noted, Notings, Sendings
<1>4. ASSUME NEW t \in Sendings \cup Notings, task' = [task EXCEPT ![w] = t], t.act = task[w].act
      PROVE  /\ task' = [task EXCEPT ![w] = task'[w]] /\ task'[w] \in Tasks
             /\ task'[w].step \in {"sending", "noting"} /\ task'[w].act = task[w].act
             /\ t \in Sendings => task'[w].step = "sending"
  <2>1. t \in Tasks /\ t.step \in {"sending", "noting"} /\ (t \in Sendings => t.step = "sending")
    BY TaskShapes DEF Sendings, Notings
  <2> QED BY <1>4, <2>1, TaskMoves
<1>5. CASE Record(w)
  <2>1. Idle \in Tasks /\ Idle.step = "idle" /\ task' = [task EXCEPT ![w] = Idle]
    BY <1>5 DEF Tasks, Idle, Record
  <2> QED BY <2>1, TaskMoves
<1>6. CASE \E i \in Inboxes : Skip(w, i)
  BY <1>1, <1>4, <1>6
<1>7. CASE \E i \in Inboxes, o \in Outcomes : Send(w, i, o)
  BY <1>2, <1>4, <1>7
<1>8. CASE Note(w) \/ NoteFails(w)
  BY <1>3, <1>4, <1>8
<1> QED BY <1>5, <1>6, <1>7, <1>8
LEMMA CopiesShapes ==
  ASSUME CountInv, NEW w \in Workers
  PROVE  /\ task[w].step = "redriving" => task[w].due \subseteq Due
         /\ task[w].step = "settling" =>
              task[w].due \subseteq Due /\ task[w].row \in Due
         /\ \A r \in Due : r.attempts \in Nat /\ r.delivery \in Deliveries
<1>1. task[w] \in Tasks
  BY DEF CountInv, TypeOK
<1> QED BY <1>1, TaskShapes DEF Redrivings, Settlings, Due

LEMMA RedrivenShapes ==
  ASSUME task \in [Workers -> Tasks], NEW w \in Workers, NEW due \in SUBSET Due, Redriven(w, due),
         \A r \in due : r.attempts < Allowed' /\ r.delivery \in DOMAIN queue'
  PROVE  /\ task' = [task EXCEPT ![w] = task'[w]] /\ task'[w] \in Tasks /\ CopyCounted(w)'
         /\ task'[w].step \in {"idle", "redriving"}
<1> DEFINE t == IF due = {} THEN Idle ELSE [step |-> "redriving", due |-> due]
<1>1. t \in Tasks /\ t.step \in {"idle", "redriving"} /\ (t.step = "redriving" => t.due = due)
  BY TaskShapes DEF Redrivings, Idle
<1>2. task' = [task EXCEPT ![w] = t]
  BY DEF Redriven
<1> HIDE DEF t
<1>3. task'[w] = t /\ task' = [task EXCEPT ![w] = task'[w]] /\ task'[w] \in Tasks
  BY <1>1, <1>2, TaskMoves
<1> QED BY <1>1, <1>3 DEF CopyCounted

LEMMA CountStep ==
  ASSUME CountInv, [Next]_vars
  PROVE  CountInv'
<1>s. ShapesOK'
  BY ShapesStep
<1>0. /\ TypeOK /\ SpentOK /\ queue \in [DOMAIN queue -> Attempts] /\ task \in [Workers -> Tasks]
      /\ Allowed \in Nat /\ ShapesOK /\ DOMAIN queue \subseteq Deliveries
      /\ spent \in [{"manual", "blocks", "faults"} -> Nat] /\ spent["manual"] <= MaxManual
      /\ MaxAttempts \in Nat /\ MaxAttempts > 1 /\ MaxManual \in Nat
  BY AttemptsAssumption, BoundsAssumption DEF CountInv, SpentOK, Allowed, TypeOK, ShapesOK
<1>q. \A k \in DOMAIN queue : RowCounted(k) /\ queue[k].attempts \in Nat
  BY DEF CountInv, RowCounted, Attempts
<1>i. Idle \in Tasks /\ [step |-> "looking"] \in Tasks /\ Idle.step = "idle"
  BY DEF Tasks, Idle
(* Steps that leave the queue and the bounds alone.                        *)
<1>k. ASSUME NEW w \in Workers, UNCHANGED <<queue, spent>>,
             task' = [task EXCEPT ![w] = task'[w]], task'[w] \in Tasks, CopyCounted(w)'
      PROVE  CountInv'
  BY <1>k, <1>0, <1>s, Counted
<1>1. ASSUME NEW w \in Workers, NEW ds \in SUBSET Domains, NEW as \in SUBSET Actors,
             FederatePost(w, ds, as)
      PROVE  CountInv'
  <2> DEFINE a == [type |-> "Create", of |-> minted + 1]
  <2>1. a \in Activities /\ Targets(ds, as) \subseteq Inboxes
    <3>1. minted \in 0..MaxCreates /\ minted < MaxCreates /\ MaxCreates \in Nat
      BY <1>0, <1>1, BoundsAssumption DEF FederatePost, ShapesOK
    <3>2. minted + 1 \in 1..MaxCreates
      BY <3>1
    <3>3. a \in Activities
      BY <3>2 DEF Activities
    <3>4. Targets(ds, as) \subseteq Inboxes
      BY DEF Targets, Inboxes
    <3> QED BY <3>3, <3>4
  <2>2. Dispatch(w, a, Targets(ds, as)) /\ UNCHANGED <<queue, spent>>
    BY <1>1 DEF FederatePost
  <2> HIDE DEF a
  <2>3. /\ task' = [task EXCEPT ![w] = task'[w]] /\ task'[w] \in Tasks
        /\ task'[w].step \in {"idle", "sending"}
    BY <1>0, <2>1, <2>2, DispatchShapes
  <2> QED BY <1>k, <2>2, <2>3, NoCopies
<1>2. ASSUME NEW w \in Workers, RemovePost(w) PROVE CountInv'
  <2>1. UNCHANGED <<queue, spent>> /\ task' = [task EXCEPT ![w] = [step |-> "looking"]]
    BY <1>2 DEF RemovePost
  <2> QED BY <1>0, <1>i, <1>k, <2>1, TaskMoves, NoCopies
<1>3. ASSUME NEW w \in Workers, FederateDelete(w) PROVE CountInv'
  <2>1. UNCHANGED <<queue, spent>>
    BY <1>3 DEF FederateDelete
  <2>2. CASE outbox = << >>
    <3>1. task' = [task EXCEPT ![w] = Idle]
      BY <1>3, <2>2 DEF FederateDelete
    <3> QED BY <1>0, <1>i, <1>k, <2>1, <3>1, TaskMoves, NoCopies
  <2>3. CASE outbox # << >>
    <3> DEFINE a == [type |-> "Delete", of |-> Last(outbox).of]
    <3>1. a \in Activities /\ Last(outbox).deliveredTo \subseteq Inboxes
      BY <1>0, <2>3, LastOfOutbox DEF Activities, Inboxes
    <3>2. Dispatch(w, a, Last(outbox).deliveredTo)
      BY <1>3, <2>3 DEF FederateDelete
    <3> HIDE DEF a
    <3>3. /\ task' = [task EXCEPT ![w] = task'[w]] /\ task'[w] \in Tasks
          /\ task'[w].step \in {"idle", "sending"}
      BY <1>0, <3>1, <3>2, DispatchShapes
    <3> QED BY <1>k, <2>1, <3>3, NoCopies
  <2> QED BY <2>2, <2>3
<1>4. ASSUME NEW w \in Workers, \/ \E i \in Inboxes : Skip(w, i) \/ \E o \in Outcomes : Send(w, i, o)
                                \/ Record(w)
      PROVE  CountInv'
  <2>1. UNCHANGED <<queue, spent>>
    BY <1>4 DEF Skip, Send, Record
  <2>2. /\ task' = [task EXCEPT ![w] = task'[w]] /\ task'[w] \in Tasks
        /\ task'[w].step \in {"sending", "noting", "idle"}
    BY <1>0, <1>4, FanOutShapes
  <2> QED BY <1>k, <2>1, <2>2, NoCopies
<1>5. ASSUME NEW w \in Workers, Note(w) PROVE CountInv'
  <2>1. /\ task' = [task EXCEPT ![w] = task'[w]] /\ task'[w] \in Tasks
        /\ task'[w].step \in {"sending", "noting", "idle"}
    BY <1>0, <1>5, FanOutShapes
  <2>2. UNCHANGED spent /\ Allowed' = Allowed
    BY <1>5 DEF Note, Allowed
  <2>3. CopyCounted(w)'
    BY <2>1, NoCopies
  <2>4. CASE task[w].outcome = "ok"
    <3>1. queue' = MarkDelivered(task[w].act, DomainOf(task[w].inbox))
      BY <1>5, <2>4 DEF Note
    <3>2. DOMAIN queue' = DOMAIN queue /\ queue' \in [DOMAIN queue' -> Attempts]
      <4>1. \A k \in DOMAIN queue : queue'[k] \in Attempts
        BY <1>0, <3>1, Marked
      <4> QED BY <3>1, <4>1 DEF MarkDelivered
    <3>3. ASSUME NEW k \in DOMAIN queue' PROVE RowCounted(k)'
      <4>1. /\ queue'[k] \in Attempts /\ queue'[k].attempts = queue[k].attempts
            /\ queue'[k].dead = queue[k].dead /\ (queue[k].completed => queue'[k].completed)
        BY <1>0, <3>1, <3>2, <3>3, Marked
      <4>2. RowCounted(k)
        BY <1>q, <3>2, <3>3
      <4> QED BY <2>2, <4>1, <4>2 DEF RowCounted, Pending
    <3> QED BY <1>0, <1>s, <2>1, <2>2, <2>3, <3>2, <3>3, Counted
  <2>5. CASE task[w].outcome # "ok"
    <3> DEFINE d == [act |-> task[w].act, inbox |-> task[w].inbox]
    <3> DEFINE new == [attempts |-> 1, dead |-> task[w].outcome = "refused", completed |-> FALSE]
    <3>1. d \in Deliveries
      BY <1>0, <1>5, TaskShapes DEF Note, Notings, Deliveries
    <3>2. queue' = [k \in DOMAIN queue \cup {d} |-> IF k \in DOMAIN queue THEN queue[k] ELSE new]
      BY <1>5, <2>5 DEF Note, Enqueued
    <3>3. new \in Attempts /\ new.attempts = 1
      BY <1>0 DEF Attempts
    <3> HIDE DEF new, d
    <3>4. /\ DOMAIN queue' = DOMAIN queue \cup {d} /\ queue' \in [DOMAIN queue' -> Attempts]
          /\ \A k \in DOMAIN queue : queue'[k] = queue[k]
          /\ \A k \in DOMAIN queue' : k \in DOMAIN queue \/ queue'[k] = new
      BY <1>0, <3>2, <3>3
    <3>5. ASSUME NEW k \in DOMAIN queue', k \notin DOMAIN queue PROVE RowCounted(k)'
      <4>1. queue'[k] = new
        BY <3>4, <3>5
      <4>2. 1 <= Allowed' /\ 1 < MaxAttempts
        BY <1>0, <2>2 DEF Allowed
      <4> QED BY <3>3, <4>1, <4>2 DEF RowCounted
    <3> QED BY <1>0, <1>s, <2>1, <2>2, <2>3, <3>1, <3>4, <3>5, Counted
  <2> QED BY <2>4, <2>5
<1>6. ASSUME NEW w \in Workers, NoteFails(w) \/ Crash(w) PROVE CountInv'
  <2>1. UNCHANGED queue /\ Spend("faults", MaxFaults)
    BY <1>6 DEF NoteFails, Crash
  <2>2. spent' \in [{"manual", "blocks", "faults"} -> Nat] /\ spent'["manual"] = spent["manual"]
    BY <1>0, <2>1, SpendIsCounted
  <2>3. /\ task' = [task EXCEPT ![w] = task'[w]] /\ task'[w] \in Tasks
        /\ task'[w].step \in {"sending", "noting", "idle"}
    <3>1. CASE NoteFails(w)
      BY <1>0, <3>1, FanOutShapes
    <3>2. CASE Crash(w)
      <4>1. task' = [task EXCEPT ![w] = Idle]
        BY <3>2 DEF Crash
      <4> QED BY <1>0, <1>i, <4>1, TaskMoves
    <3> QED BY <1>6, <3>1, <3>2
  <2> QED BY <1>0, <1>s, <2>1, <2>2, <2>3, NoCopies, Counted
<1>7. ASSUME NEW w \in Workers, NEW rows \in SUBSET DOMAIN queue, CronList(w, rows) PROVE CountInv'
  <2> DEFINE t == [step |-> "redriving", due |-> {DueRow(k) : k \in rows}]
  <2>1. UNCHANGED <<queue, spent>> /\ task' = [task EXCEPT ![w] = t]
        /\ \A k \in rows : Pending(k)
    BY <1>7 DEF CronList
  <2>2. ASSUME NEW k \in rows
        PROVE  DueRow(k) \in Due /\ DueRow(k).attempts < Allowed /\ DueRow(k).delivery = k
    <3>1. queue[k].attempts < MaxAttempts /\ queue[k] \in Attempts /\ k \in Deliveries
      BY <1>0, <1>q, <2>1 DEF RowCounted
    <3>2. queue[k].attempts < Allowed
      BY <1>0, <1>q, <3>1 DEF Allowed
    <3> QED BY <3>1, <3>2 DEF DueRow, Due, Attempts
  <2>3. t \in Tasks /\ t.step = "redriving" /\ t.due = {DueRow(k) : k \in rows}
    BY <2>2, TaskShapes DEF Redrivings
  <2> HIDE DEF t
  <2>4. task'[w] = t /\ task' = [task EXCEPT ![w] = task'[w]] /\ task'[w] \in Tasks
    BY <1>0, <2>1, <2>3, TaskMoves
  <2>5. CopyCounted(w)'
    BY <2>1, <2>2, <2>3, <2>4 DEF CopyCounted, Allowed
  <2> QED BY <1>k, <2>1, <2>4, <2>5
<1>8. ASSUME NEW w \in Workers, NEW k \in DOMAIN queue, ManualRedrive(w, k) PROVE CountInv'
  <2> DEFINE t == [step |-> "redriving", due |-> {DueRow(k)}]
  <2>1. UNCHANGED queue /\ task' = [task EXCEPT ![w] = t] /\ Spend("manual", MaxManual)
    BY <1>8 DEF ManualRedrive
  <2>2. /\ spent' \in [{"manual", "blocks", "faults"} -> Nat]
        /\ spent'["manual"] = spent["manual"] + 1 /\ spent'["manual"] <= MaxManual
    BY <1>0, <2>1, SpendIsCounted
  <2>3. DueRow(k) \in Due /\ DueRow(k).attempts < Allowed' /\ DueRow(k).delivery = k
    <3>1. queue[k].attempts <= Allowed /\ queue[k] \in Attempts /\ k \in Deliveries
      BY <1>0, <1>q DEF RowCounted
    <3>2. queue[k].attempts < Allowed'
      BY <1>0, <1>q, <2>2, <3>1 DEF Allowed
    <3> QED BY <3>1, <3>2 DEF DueRow, Due, Attempts
  <2>4. t \in Tasks /\ t.step = "redriving" /\ t.due = {DueRow(k)}
    BY <2>3, TaskShapes DEF Redrivings
  <2> HIDE DEF t
  <2>5. task'[w] = t /\ task' = [task EXCEPT ![w] = task'[w]] /\ task'[w] \in Tasks
    BY <1>0, <2>1, <2>4, TaskMoves
  <2>6. CopyCounted(w)'
    BY <2>1, <2>3, <2>4, <2>5 DEF CopyCounted
  <2>7. spent'["manual"] >= spent["manual"]
    BY <1>0, <2>2
  <2> QED BY <1>0, <1>s, <2>1, <2>2, <2>5, <2>6, <2>7, Counted
<1>9. ASSUME NEW w \in Workers, task[w].step = "redriving", NEW r \in task[w].due,
             NEW o \in Outcomes, RedriveSend(w, r, o)
      PROVE  CountInv'
  <2> DEFINE t == [step |-> "settling", due |-> task[w].due \ {r}, row |-> r, outcome |-> o]
  <2>1. UNCHANGED <<queue, spent>> /\ task' = [task EXCEPT ![w] = t]
    BY <1>9 DEF RedriveSend
  <2>2. task[w].due \subseteq Due /\ CopyCounted(w)
    BY <1>9, CopiesShapes DEF CountInv
  <2>3. /\ t \in Tasks /\ t.step = "settling" /\ t.due \subseteq task[w].due /\ t.row = r
    BY <2>2, TaskShapes DEF Settlings
  <2> HIDE DEF t
  <2>4. task'[w] = t /\ task' = [task EXCEPT ![w] = task'[w]] /\ task'[w] \in Tasks
    BY <1>0, <2>1, <2>3, TaskMoves
  <2>5. CopyCounted(w)'
    BY <1>9, <2>1, <2>2, <2>3, <2>4 DEF CopyCounted, Allowed
  <2> QED BY <1>k, <2>1, <2>4, <2>5
<1>10. ASSUME NEW w \in Workers, task[w].step = "redriving", NEW r \in task[w].due,
              RedriveBlocked(w, r)
       PROVE  CountInv'
  <2>1. /\ UNCHANGED spent /\ Redriven(w, task[w].due \ {r})
        /\ queue' = [queue EXCEPT ![r.delivery].dead = TRUE]
    BY <1>10 DEF RedriveBlocked
  <2>2. task[w].due \subseteq Due /\ CopyCounted(w) /\ Allowed' = Allowed
    BY <1>10, <2>1, CopiesShapes DEF CountInv, Allowed
  <2>3. r.delivery \in DOMAIN queue
    BY <1>10, <2>2 DEF CopyCounted
  <2> DEFINE row == [queue[r.delivery] EXCEPT !.dead = TRUE]
  <2>4. row \in Attempts /\ row.dead /\ row.attempts = queue[r.delivery].attempts
    BY <1>0, <2>3 DEF Attempts
  <2>5. queue' = [queue EXCEPT ![r.delivery] = row]
    BY <2>1
  <2> HIDE DEF row
  <2>6. /\ DOMAIN queue' = DOMAIN queue /\ queue' \in [DOMAIN queue' -> Attempts]
        /\ queue'[r.delivery] = row
        /\ \A k \in DOMAIN queue \ {r.delivery} : queue'[k] = queue[k]
    BY <1>0, <2>3, <2>4, <2>5
  <2>7. RowCounted(r.delivery)'
    BY <1>q, <2>2, <2>3, <2>4, <2>6 DEF RowCounted, Pending
  <2>8. /\ task' = [task EXCEPT ![w] = task'[w]] /\ task'[w] \in Tasks /\ CopyCounted(w)'
    BY <1>0, <1>10, <2>1, <2>2, <2>6, RedrivenShapes DEF CopyCounted
  <2>9. \A k \in DOMAIN queue' : (queue'[k] = queue[k] /\ k \in DOMAIN queue) \/ RowCounted(k)'
    BY <2>6, <2>7
  <2>10. spent'["manual"] >= spent["manual"]
    BY <1>0, <2>1
  <2> QED BY <1>0, <1>s, <2>1, <2>6, <2>8, <2>9, <2>10, Counted
<1>11. ASSUME NEW w \in Workers, RedriveSettle(w) PROVE CountInv'
  <2>0. PICK k : k = task[w].row.delivery
    OBVIOUS
  <2> DEFINE tried == task[w].row.attempts + 1
  <2> DEFINE over == task[w].outcome = "refused" \/ tried >= MaxAttempts
  <2> DEFINE row == IF task[w].outcome = "ok"
                    THEN [queue[k] EXCEPT !.attempts = task[w].row.attempts, !.completed = TRUE]
                    ELSE [queue[k] EXCEPT !.attempts = tried, !.dead = queue[k].dead \/ over]
  <2>1. /\ UNCHANGED spent /\ Redriven(w, task[w].due) /\ task[w].step = "settling"
        /\ queue' = [queue EXCEPT ![k] = row]
    BY <1>11, <2>0 DEF RedriveSettle
  <2>2. /\ task[w].due \subseteq Due /\ task[w].row \in Due /\ CopyCounted(w) /\ Allowed' = Allowed
        /\ task[w].row.attempts \in 1..(MaxAttempts + MaxManual)
    BY <2>1, CopiesShapes DEF CountInv, Allowed, Due
  <2>3. k \in DOMAIN queue /\ task[w].row.attempts < Allowed /\ queue[k] \in Attempts
    BY <1>0, <2>0, <2>1, <2>2 DEF CopyCounted
  <2>4. /\ row \in Attempts /\ row.attempts <= Allowed
        /\ ~row.dead /\ ~row.completed => row.attempts < MaxAttempts
    <3>1. tried \in 1..(MaxAttempts + MaxManual) /\ tried <= Allowed
      BY <1>0, <2>2, <2>3 DEF Allowed
    <3>2. CASE task[w].outcome = "ok"
      <4>1. row = [queue[k] EXCEPT !.attempts = task[w].row.attempts, !.completed = TRUE]
        BY <3>2
      <4> HIDE DEF row
      <4>2. row \in Attempts /\ row.attempts = task[w].row.attempts /\ row.completed
        BY <2>2, <2>3, <4>1 DEF Attempts
      <4>3. task[w].row.attempts <= Allowed
        BY <1>0, <2>2, <2>3
      <4> QED BY <4>2, <4>3
    <3>3. CASE task[w].outcome # "ok"
      <4>1. row = [queue[k] EXCEPT !.attempts = tried, !.dead = queue[k].dead \/ over]
        BY <3>3
      <4> HIDE DEF tried, row
      <4>2. row \in Attempts /\ row.attempts = tried /\ row.dead = (queue[k].dead \/ over)
        BY <2>3, <3>1, <4>1 DEF Attempts
      <4>3. ~row.dead => tried < MaxAttempts
        <5>1. queue[k].dead \in BOOLEAN /\ over \in BOOLEAN
          BY <2>3 DEF Attempts
        <5>2. over => row.dead
          BY <4>2, <5>1
        <5>3. ~over => tried < MaxAttempts
          BY <1>0, <3>1
        <5> QED BY <5>2, <5>3
      <4> QED BY <3>1, <4>2, <4>3
    <3> QED BY <3>2, <3>3
  <2> HIDE DEF row
  <2>5. /\ DOMAIN queue' = DOMAIN queue /\ queue' \in [DOMAIN queue' -> Attempts]
        /\ queue'[k] = row /\ \A x \in DOMAIN queue \ {k} : queue'[x] = queue[x]
    BY <1>0, <2>1, <2>3, <2>4
  <2>6. RowCounted(k)'
    BY <2>2, <2>4, <2>5 DEF RowCounted, Pending
  <2>7. /\ task' = [task EXCEPT ![w] = task'[w]] /\ task'[w] \in Tasks /\ CopyCounted(w)'
    BY <1>0, <2>1, <2>2, <2>5, RedrivenShapes DEF CopyCounted
  <2>8. \A x \in DOMAIN queue' : (queue'[x] = queue[x] /\ x \in DOMAIN queue) \/ RowCounted(x)'
    BY <2>5, <2>6
  <2>9. spent'["manual"] >= spent["manual"]
    BY <1>0, <2>1
  <2> QED BY <1>0, <1>s, <2>1, <2>5, <2>7, <2>8, <2>9, Counted
<1>12. ASSUME NEW d \in Domains, BlockInstance(d) \/ UnblockInstance(d) PROVE CountInv'
  <2>1. UNCHANGED <<queue, task>>
    BY <1>12 DEF BlockInstance, UnblockInstance
  <2>2. spent' \in [{"manual", "blocks", "faults"} -> Nat] /\ spent'["manual"] = spent["manual"]
    BY <1>0, <1>12, SpendIsCounted DEF BlockInstance, UnblockInstance
  <2>3. TypeOK'
    BY <1>0, <1>s, <2>1 DEF TypeOK, ShapesOK
  <2>4. SpentOK' /\ Allowed' = Allowed
    BY <1>0, <2>2 DEF SpentOK, Allowed
  <2>5. \A k \in DOMAIN queue : RowCounted(k)'
    BY <1>q, <2>1, <2>4 DEF RowCounted, Pending
  <2>6. \A w \in Workers : CopyCounted(w)'
    BY <2>1, <2>4 DEF CountInv, CopyCounted
  <2> QED BY <1>0, <2>1, <2>3, <2>4, <2>5, <2>6 DEF CountInv
<1>13. CASE UNCHANGED vars
  BY <1>13 DEF vars, CountInv, TypeOK, SpentOK, RowCounted, CopyCounted, Allowed, Pending, sender, peers
<1> QED BY <1>1, <1>2, <1>3, <1>4, <1>5, <1>6, <1>7, <1>8, <1>9, <1>10, <1>11, <1>12, <1>13
        DEF Next, Start, Work
---------------------------------------------------------------------------
(* What only grows, and what a worker's step leaves to the others.         *)
LEMMA ProcessGrows ==
  ASSUME NEW a, NEW i, NEW o, Answer(a, i, o)
  PROVE  /\ received \subseteq received' /\ buried \subseteq buried'
         /\ o = "ok" => [act |-> a, inbox |-> i] \in received'
BY DEF Answer, Process, peers

LEMMA Grows ==
  ASSUME CountInv, [Next]_vars
  PROVE  /\ received \subseteq received' /\ buried \subseteq buried'
         /\ DOMAIN queue \subseteq DOMAIN queue'
<1>1. received \subseteq received' /\ buried \subseteq buried'
  <2>1. ASSUME NEW w \in Workers, NEW i \in Inboxes, NEW o \in Outcomes, Send(w, i, o)
        PROVE  received \subseteq received' /\ buried \subseteq buried'
    BY <2>1, ProcessGrows DEF Send
  <2>2. ASSUME NEW w \in Workers, NEW r, NEW o \in Outcomes, RedriveSend(w, r, o)
        PROVE  received \subseteq received' /\ buried \subseteq buried'
    BY <2>2, ProcessGrows DEF RedriveSend
  <2>3. CASE UNCHANGED vars
    BY <2>3 DEF vars, peers
  <2> QED BY <2>1, <2>2, <2>3 DEF Next, Start, Work, FederatePost, RemovePost, CronList,
         ManualRedrive, FederateDelete, Skip, Note, Record, RedriveBlocked, RedriveSettle, NoteFails,
         Crash, BlockInstance, UnblockInstance, peers
<1>2. DOMAIN queue \subseteq DOMAIN queue'
  <2>1. ASSUME NEW w \in Workers, Note(w) PROVE DOMAIN queue \subseteq DOMAIN queue'
    BY <2>1 DEF Note, MarkDelivered, Enqueued
  <2>2. ASSUME NEW w \in Workers, RedriveSettle(w) PROVE DOMAIN queue \subseteq DOMAIN queue'
    BY <2>2 DEF RedriveSettle
  <2>3. ASSUME NEW w \in Workers, NEW r, RedriveBlocked(w, r) PROVE DOMAIN queue \subseteq DOMAIN queue'
    BY <2>3 DEF RedriveBlocked
  <2>4. CASE UNCHANGED vars
    BY <2>4 DEF vars
  <2> QED BY <2>1, <2>2, <2>3, <2>4 DEF Next, Start, Work, FederatePost, RemovePost, CronList,
         ManualRedrive, FederateDelete, Skip, Send, Record, RedriveSend, NoteFails,
         Crash, BlockInstance, UnblockInstance
<1> QED BY <1>1, <1>2, SMTT(40)

LEMMA OneWorker ==
  ASSUME task \in [Workers -> Tasks], NEW w \in Workers,
         Start(w) \/ Work(w) \/ NoteFails(w) \/ Crash(w)
  PROVE  \A x \in Workers \ {w} : task'[x] = task[x]
<1>1. CASE Start(w)
  BY <1>1 DEF Start, FederatePost, RemovePost, CronList, ManualRedrive, Dispatch
<1>2. CASE NoteFails(w) \/ Crash(w)
  BY <1>2 DEF NoteFails, Noted, Crash
<1>3. CASE Work(w)
  <2>1. CASE FederateDelete(w) \/ Note(w) \/ Record(w) \/ RedriveSettle(w)
    BY <2>1 DEF FederateDelete, Note, Noted, Record, RedriveSettle, Redriven, Dispatch
  <2>2. CASE \E i \in Inboxes : Skip(w, i) \/ \E o \in Outcomes : Send(w, i, o)
    BY <2>2 DEF Skip, Send
  <2>3. CASE \E r \in task[w].due : RedriveBlocked(w, r) \/ \E o \in Outcomes : RedriveSend(w, r, o)
    BY <2>3 DEF RedriveBlocked, RedriveSend, Redriven
  <2> QED BY <1>3, <2>1, <2>2, <2>3 DEF Work
<1> QED BY <1>1, <1>2, <1>3

---------------------------------------------------------------------------
(* Answers and closed rows.                                                *)

LEMMA AnswersKept ==
  ASSUME AnswersAreTrue, received \subseteq received', NEW w \in Workers,
         \A x \in Workers \ {w} : task'[x] = task[x], AnswerTrue(w)',
         \A k \in DOMAIN queue' : \/ k \in DOMAIN queue /\ queue'[k].completed = queue[k].completed
                                  \/ queue'[k].completed => Reached(k.act, DomainOf(k.inbox))'
  PROVE  AnswersAreTrue'
<1>1. \A x \in Workers : AnswerTrue(x)'
  BY DEF AnswersAreTrue, AnswerTrue
<1>2. ClosedIsDelivered'
  BY DEF AnswersAreTrue, ClosedIsDelivered, Reached
<1> QED BY <1>1, <1>2 DEF AnswersAreTrue

LEMMA AnswersStep ==
  ASSUME CountInv, AnswersAreTrue, [Next]_vars
  PROVE  AnswersAreTrue'
<1>0. /\ queue \in [DOMAIN queue -> Attempts] /\ task \in [Workers -> Tasks]
      /\ ShapesOK /\ DOMAIN queue \subseteq Deliveries
      /\ received \subseteq received' /\ DOMAIN queue \subseteq DOMAIN queue'
  BY Grows DEF CountInv, TypeOK, ShapesOK
<1>q. \A k \in DOMAIN queue : queue[k] \in Attempts
  BY <1>0
<1>k. ASSUME NEW w \in Workers, UNCHANGED queue, task'[w].step \notin {"noting", "settling"},
             Start(w) \/ Work(w) \/ NoteFails(w) \/ Crash(w)
      PROVE  AnswersAreTrue'
  <2>1. AnswerTrue(w)'
    BY <1>k DEF AnswerTrue
  <2> QED BY <1>0, <1>k, <2>1, OneWorker, AnswersKept
<1>1. ASSUME NEW w \in Workers, Start(w) PROVE AnswersAreTrue'
  <2>1. UNCHANGED queue
    BY <1>1 DEF Start, FederatePost, RemovePost, CronList, ManualRedrive
  <2>2. task'[w].step \notin {"noting", "settling"}
    BY <1>0, <1>1 DEF Start, FederatePost, RemovePost, CronList, ManualRedrive, Dispatch, Idle
  <2> QED BY <1>1, <1>k, <2>1, <2>2
<1>2. ASSUME NEW w \in Workers,
             \/ FederateDelete(w) \/ NoteFails(w) \/ Record(w) \/ Crash(w)
             \/ \E i \in Inboxes : Skip(w, i)
      PROVE  AnswersAreTrue'
  <2>1. UNCHANGED queue /\ (Work(w) \/ NoteFails(w) \/ Crash(w))
    BY <1>2 DEF FederateDelete, NoteFails, Record, Crash, Skip, Work
  <2>2. task'[w].step \notin {"noting", "settling"}
    <3>1. CASE FederateDelete(w) \/ Record(w) \/ Crash(w)
      BY <1>0, <3>1 DEF FederateDelete, Record, Crash, Dispatch, Idle
    <3>2. CASE NoteFails(w)
      BY <1>0, <3>2 DEF NoteFails, Noted
    <3>3. CASE \E i \in Inboxes : Skip(w, i)
      <4>1. task[w] \in Sendings
        BY <1>0, <3>3, TaskShapes DEF Skip
      <4> QED BY <1>0, <3>3, <4>1 DEF Skip, Sendings
    <3> QED BY <1>2, <3>1, <3>2, <3>3
  <2> QED BY <1>k, <2>1, <2>2
<1>3. ASSUME NEW w \in Workers, NEW i \in Inboxes, NEW o \in Outcomes, Send(w, i, o)
      PROVE  AnswersAreTrue'
  <2>1. /\ UNCHANGED queue /\ task'[w].step = "noting" /\ task'[w].act = task[w].act
        /\ task'[w].inbox = i /\ task'[w].outcome = o
    BY <1>0, <1>3 DEF Send
  <2>2. o = "ok" => [act |-> task[w].act, inbox |-> i] \in received'
    BY <1>3, ProcessGrows DEF Send
  <2>3. AnswerTrue(w)'
    BY <2>1, <2>2 DEF AnswerTrue
  <2>4. Work(w)
    BY <1>3 DEF Work
  <2> QED BY <1>0, <2>1, <2>3, <2>4, OneWorker, AnswersKept
<1>4. ASSUME NEW w \in Workers, Note(w) PROVE AnswersAreTrue'
  <2>1. task'[w].step = "sending" /\ Work(w) /\ task[w] \in Notings /\ UNCHANGED received
    BY <1>0, <1>4, TaskShapes DEF Note, Noted, Work, peers
  <2>2. AnswerTrue(w)'
    BY <2>1 DEF AnswerTrue
  <2>3. CASE task[w].outcome = "ok"
    <3>1. queue' = MarkDelivered(task[w].act, DomainOf(task[w].inbox))
      BY <1>4, <2>3 DEF Note
    <3>2. DOMAIN queue' = DOMAIN queue
      BY <1>0, <3>1, Marked
    <3>3. [act |-> task[w].act, inbox |-> task[w].inbox] \in received
      BY <1>4, <2>3 DEF AnswersAreTrue, AnswerTrue, Note
    <3>4. Reached(task[w].act, DomainOf(task[w].inbox))
      BY <2>1, <3>3 DEF Reached, Notings
    <3>5. ASSUME NEW k \in DOMAIN queue'
          PROVE  \/ k \in DOMAIN queue /\ queue'[k].completed = queue[k].completed
                 \/ queue'[k].completed => Reached(k.act, DomainOf(k.inbox))'
      <4>1. /\ queue'[k] \in Attempts /\ queue[k] \in Attempts
            /\ queue[k].completed => queue'[k].completed
            /\ queue'[k].completed /\ ~queue[k].completed =>
                 k.act = task[w].act /\ DomainOf(k.inbox) = DomainOf(task[w].inbox)
        BY <1>0, <3>1, <3>2, <3>5, Marked
      <4>2. CASE queue'[k].completed /\ ~queue[k].completed
        <5>1. Reached(k.act, DomainOf(k.inbox))
          BY <3>4, <4>1, <4>2
        <5> QED BY <2>1, <5>1 DEF Reached
      <4>3. CASE queue[k].completed \/ ~queue'[k].completed
        <5>1. queue'[k].completed = queue[k].completed
          BY <4>1, <4>3 DEF Attempts
        <5> QED BY <3>2, <3>5, <5>1
      <4> QED BY <4>2, <4>3
    <3> QED BY <1>0, <2>1, <2>2, <3>5, OneWorker, AnswersKept
  <2>4. CASE task[w].outcome # "ok"
    <3>1. \A k \in DOMAIN queue' :
             (k \in DOMAIN queue /\ queue'[k] = queue[k]) \/ queue'[k].completed = FALSE
      BY <1>4, <2>4 DEF Note, Enqueued
    <3> QED BY <1>0, <2>1, <2>2, <3>1, OneWorker, AnswersKept
  <2> QED BY <2>3, <2>4
<1>5. ASSUME NEW w \in Workers, task[w].step = "redriving", NEW r \in task[w].due,
             NEW o \in Outcomes, RedriveSend(w, r, o)
      PROVE  AnswersAreTrue'
  <2>1. /\ UNCHANGED queue /\ task'[w].step = "settling" /\ task'[w].row = r /\ task'[w].outcome = o
        /\ Work(w)
    BY <1>0, <1>5 DEF RedriveSend, Work
  <2>2. r.delivery \in Deliveries
    BY <1>5, CopiesShapes
  <2>3. r.delivery = [act |-> r.delivery.act, inbox |-> r.delivery.inbox]
    BY <2>2 DEF Deliveries
  <2>4. o = "ok" => r.delivery \in received'
    BY <1>5, <2>3, ProcessGrows DEF RedriveSend
  <2>5. AnswerTrue(w)'
    BY <2>1, <2>4 DEF AnswerTrue
  <2> QED BY <1>0, <2>1, <2>5, OneWorker, AnswersKept
<1>6. ASSUME NEW w \in Workers, task[w].step = "redriving", NEW r \in task[w].due,
             RedriveBlocked(w, r)
      PROVE  AnswersAreTrue'
  <2>1. task'[w].step \in {"idle", "redriving"} /\ Work(w)
    BY <1>0, <1>6 DEF RedriveBlocked, Redriven, Idle, Work
  <2>2. AnswerTrue(w)'
    BY <2>1 DEF AnswerTrue
  <2>3. ASSUME NEW k \in DOMAIN queue'
        PROVE  k \in DOMAIN queue /\ queue'[k].completed = queue[k].completed
    <3>1. queue' = [queue EXCEPT ![r.delivery] = [queue[r.delivery] EXCEPT !.dead = TRUE]]
      BY <1>6 DEF RedriveBlocked
    <3>2. k \in DOMAIN queue /\ queue[k] \in Attempts
      BY <1>q, <2>3, <3>1
    <3> QED BY <3>1, <3>2 DEF Attempts
  <2> QED BY <1>0, <2>1, <2>2, <2>3, OneWorker, AnswersKept
<1>7. ASSUME NEW w \in Workers, RedriveSettle(w) PROVE AnswersAreTrue'
  <2>0. PICK d : d = task[w].row.delivery
    OBVIOUS
  <2> DEFINE row == IF task[w].outcome = "ok"
                    THEN [queue[d] EXCEPT !.attempts = task[w].row.attempts, !.completed = TRUE]
                    ELSE [queue[d] EXCEPT !.attempts = task[w].row.attempts + 1,
                            !.dead = queue[d].dead \/ task[w].outcome = "refused"
                                     \/ task[w].row.attempts + 1 >= MaxAttempts]
  <2>1. task'[w].step \in {"idle", "redriving"} /\ Work(w) /\ UNCHANGED received
    BY <1>0, <1>7 DEF RedriveSettle, Redriven, Idle, Work, peers
  <2>2. AnswerTrue(w)'
    BY <2>1 DEF AnswerTrue
  <2>3. queue' = [queue EXCEPT ![d] = row] /\ task[w].step = "settling"
    BY <1>7, <2>0 DEF RedriveSettle
  <2>4. d \in DOMAIN queue => row.completed = IF task[w].outcome = "ok" THEN TRUE ELSE queue[d].completed
    BY <1>q DEF Attempts
  <2> HIDE DEF row
  <2>5. ASSUME NEW k \in DOMAIN queue'
        PROVE  \/ k \in DOMAIN queue /\ queue'[k].completed = queue[k].completed
               \/ queue'[k].completed => Reached(k.act, DomainOf(k.inbox))'
    <3>1. k \in DOMAIN queue
      BY <2>3, <2>5
    <3>2. CASE k = d /\ task[w].outcome = "ok"
      <4>1. k \in received /\ k \in Deliveries
        BY <1>0, <2>0, <2>3, <3>1, <3>2 DEF AnswersAreTrue, AnswerTrue
      <4>2. [act |-> k.act, inbox |-> k.inbox] = k /\ k.inbox \in Inboxes
        BY <4>1 DEF Deliveries
      <4>3. Reached(k.act, DomainOf(k.inbox))
        BY <4>1, <4>2 DEF Reached
      <4> QED BY <2>1, <4>3 DEF Reached
    <3>3. CASE k = d /\ task[w].outcome # "ok"
      <4>1. queue'[k] = row
        BY <2>3, <3>1, <3>3
      <4> QED BY <2>4, <3>1, <3>3, <4>1
    <3>4. CASE k # d
      BY <2>3, <3>1, <3>4
    <3> QED BY <3>2, <3>3, <3>4
  <2> QED BY <1>0, <2>1, <2>2, <2>5, OneWorker, AnswersKept
<1>8. CASE UNCHANGED <<task, queue, received>>
  BY <1>8 DEF AnswersAreTrue, AnswerTrue, ClosedIsDelivered, Reached
<1>9. [Next]_vars => UNCHANGED <<task, queue, received>>
                     \/ \E w \in Workers : Start(w) \/ Work(w) \/ NoteFails(w) \/ Crash(w)
  BY DEF Next, BlockInstance, UnblockInstance, vars, peers
<1> QED BY <1>1, <1>2, <1>3, <1>4, <1>5, <1>6, <1>7, <1>8, <1>9 DEF Work
---------------------------------------------------------------------------
(* What other instances remember.                                          *)

LEMMA ProcessBuries ==
  ASSUME BuriedStaysBuried, NEW a \in Activities, NEW i \in Inboxes, NEW o, Answer(a, i, o)
  PROVE  /\ BuriedStaysBuried'
         /\ o \in {"ok", "lost"} /\ a.type = "Delete" /\ DomainOf(i) \notin Zynkra =>
              DomainOf(i) \in buried'
<1>1. CASE o \notin {"ok", "lost"}
  BY <1>1 DEF Answer, peers, BuriedStaysBuried
<1>2. CASE o \in {"ok", "lost"}
  <2>1. PICK d : d = DomainOf(i)
    OBVIOUS
  <2>2. received' = received \cup {[act |-> a, inbox |-> i]}
    BY <1>2 DEF Answer, Process
  <2>3. CASE a.type = "Create"
    <3>1. buried' = buried /\ copies' = IF d \in buried THEN copies ELSE copies \cup {d}
      BY <1>2, <2>1, <2>3 DEF Answer, Process
    <3> QED BY <2>2, <2>3, <3>1 DEF BuriedStaysBuried
  <2>4. CASE a.type = "Delete" /\ d \in Zynkra
    <3>1. buried' = buried /\ copies' \subseteq copies
      BY <1>2, <2>1, <2>4 DEF Answer, Process
    <3> QED BY <2>1, <2>2, <2>4, <3>1 DEF BuriedStaysBuried
  <2>5. CASE a.type = "Delete" /\ d \notin Zynkra
    <3>1. TombstoneId \in FiledUnder(d)
      BY <2>5 DEF TombstoneId, FiledUnder
    <3>2. buried' = buried \cup {d} /\ copies' = copies \ {d}
      BY <1>2, <2>1, <2>5, <3>1 DEF Answer, Process
    <3> QED BY <2>1, <2>2, <2>5, <3>2 DEF BuriedStaysBuried
  <2> QED BY <2>3, <2>4, <2>5 DEF Activities
<1> QED BY <1>1, <1>2

LEMMA BuriedStep ==
  ASSUME CountInv, BuriedStaysBuried, [Next]_vars
  PROVE  BuriedStaysBuried'
<1>1. ASSUME NEW w \in Workers, NEW i \in Inboxes, NEW o \in Outcomes, Send(w, i, o)
      PROVE  BuriedStaysBuried'
  <2>1. task[w].act \in Activities /\ Answer(task[w].act, i, o)
    BY <1>1, TaskShapes DEF Send, Sendings, CountInv, TypeOK
  <2> QED BY <2>1, ProcessBuries
<1>2. ASSUME NEW w \in Workers, task[w].step = "redriving", NEW r \in task[w].due,
             NEW o \in Outcomes, RedriveSend(w, r, o)
      PROVE  BuriedStaysBuried'
  <2>1. r.delivery \in Deliveries
    BY <1>2, CopiesShapes
  <2>2. /\ r.delivery.act \in Activities /\ r.delivery.inbox \in Inboxes
        /\ Answer(r.delivery.act, r.delivery.inbox, o)
    BY <1>2, <2>1 DEF RedriveSend, Deliveries
  <2> QED BY <2>2, ProcessBuries
<1>3. CASE UNCHANGED peers
  BY <1>3 DEF peers, BuriedStaysBuried
<1>4. ASSUME NEW w \in Workers,
             \/ Start(w) \/ FederateDelete(w) \/ (\E i \in Inboxes : Skip(w, i)) \/ Note(w)
             \/ Record(w) \/ (\E r \in task[w].due : RedriveBlocked(w, r)) \/ RedriveSettle(w)
             \/ NoteFails(w) \/ Crash(w)
      PROVE  UNCHANGED peers
  BY <1>4 DEF Start, FederatePost, RemovePost, CronList, ManualRedrive, FederateDelete, Skip, Note,
              Record, RedriveBlocked, RedriveSettle, NoteFails, Crash
<1>5. ASSUME NEW d \in Domains, BlockInstance(d) \/ UnblockInstance(d) PROVE UNCHANGED peers
  BY <1>5 DEF BlockInstance, UnblockInstance
<1>6. CASE UNCHANGED vars
  BY <1>3, <1>6 DEF vars, peers
<1> QED BY <1>1, <1>2, <1>3, <1>4, <1>5, <1>6 DEF Next, Work

---------------------------------------------------------------------------
(* What a retraction has promised.                                         *)

LEMMA PromisesFrame ==
  ASSUME PromisesKept, promised # {}, promised' \subseteq promised, UNCHANGED <<post, outbox>>,
         NEW w \in Workers, \A x \in Workers \ {w} : task'[x] = task[x],
         buried \subseteq buried', DOMAIN queue \subseteq DOMAIN queue',
         task'[w].step \in {"sending", "noting"} => task'[w].act.type # "Create",
         \A d \in promised' \ Zynkra : WillTell(w, d) => Told(d)'
  PROVE  PromisesKept'
<1>1. ~CreateUnderWay'
  BY DEF PromisesKept, CreateUnderWay
<1>2. ASSUME NEW d \in promised' \ Zynkra PROVE Told(d)'
  <2>1. Told(d)
    BY DEF PromisesKept
  <2>2. CASE d \in buried \/ Kept(d)
    BY <2>2 DEF Told, Kept
  <2>3. ASSUME NEW x \in Workers, WillTell(x, d) PROVE Told(d)'
    <3>1. CASE x = w
      BY <2>3, <3>1
    <3>2. CASE x # w
      <4>1. WillTell(x, d)'
        BY <2>3, <3>2 DEF WillTell
      <4> QED BY <4>1 DEF Told
    <3> QED BY <3>1, <3>2
  <2> QED BY <2>1, <2>2, <2>3 DEF Told
<1>3. post' = "deleted"
  BY DEF PromisesKept
<1> QED BY <1>1, <1>2, <1>3 DEF PromisesKept

(* RemovePost is where the promise is made.                                *)
LEMMA PromiseMade ==
  ASSUME task \in [Workers -> Tasks], NEW w \in Workers, RemovePost(w)
  PROVE  PromisesKept'
<1>1. CASE outbox = << >> \/ CreateUnderWay
  BY <1>1 DEF RemovePost, PromisesKept
<1>2. CASE outbox # << >> /\ ~CreateUnderWay
  <2>1. /\ post' = "deleted" /\ outbox' = outbox /\ promised' = Last(outbox).deliveredTo
        /\ task' = [task EXCEPT ![w] = [step |-> "looking"]]
    BY <1>2 DEF RemovePost
  <2>2. task'[w] = [step |-> "looking"] /\ \A x \in Workers \ {w} : task'[x] = task[x]
    BY <2>1
  <2>3. ~CreateUnderWay'
    BY <1>2, <2>2 DEF CreateUnderWay
  <2>4. ASSUME NEW d \in promised' PROVE WillTell(w, d)'
    BY <1>2, <2>1, <2>2, <2>4 DEF WillTell
  <2> QED BY <2>1, <2>3, <2>4 DEF PromisesKept, Told
<1> QED BY <1>1, <1>2

LEMMA PromisesStep ==
  ASSUME CountInv, PromisesKept, BuriedStaysBuried, [Next]_vars
  PROVE  PromisesKept'
<1>0. /\ task \in [Workers -> Tasks] /\ ShapesOK
      /\ buried \subseteq buried' /\ DOMAIN queue \subseteq DOMAIN queue'
  BY Grows DEF CountInv, TypeOK, ShapesOK
<1>m. ASSUME NEW w \in Workers, RemovePost(w) PROVE PromisesKept'
  BY <1>0, <1>m, PromiseMade
<1>e. CASE promised' = {}
  BY <1>e DEF PromisesKept
<1>s. CASE \A w \in Workers : ~RemovePost(w)
  <2>p. promised' \subseteq promised
    <3>1. ASSUME NEW w \in Workers, Work(w) PROVE promised' \subseteq promised
      BY <3>1 DEF Work, FederateDelete, Skip, Send, Note, Record, RedriveBlocked, RedriveSend,
                  RedriveSettle
    <3>2. ASSUME NEW w \in Workers, Start(w) PROVE promised' \subseteq promised
      BY <1>s, <3>2 DEF Start, FederatePost, CronList, ManualRedrive
    <3> QED BY <3>1, <3>2 DEF Next, NoteFails, Crash, BlockInstance, UnblockInstance, vars
  <2> SUFFICES ASSUME promised' # {} PROVE PromisesKept'
    BY <1>e
  <2>0. /\ promised # {} /\ post = "deleted" /\ promised \subseteq Domains
        /\ \A x \in Workers : task[x].step \in {"sending", "noting"} => task[x].act.type = "Delete"
    <3>1. promised # {} /\ post = "deleted" /\ promised \subseteq Domains /\ ~CreateUnderWay
      BY <1>0, <2>p DEF PromisesKept, ShapesOK
    <3>2. \A x \in Workers : task[x].step \in {"sending", "noting"} => task[x].act \in Activities
      BY <1>0, TaskShapes DEF Sendings, Notings
    <3> QED BY <3>1, <3>2 DEF CreateUnderWay, Activities
  <2>1. ASSUME NEW w \in Workers, Start(w) PROVE PromisesKept'
    <3>1. UNCHANGED <<post, outbox>> /\ task[w] = Idle /\ task'[w].step = "redriving"
      BY <1>0, <1>s, <2>0, <2>1 DEF Start, FederatePost, CronList, ManualRedrive, sender
    <3>2. \A d : ~WillTell(w, d)
      BY <3>1 DEF WillTell, Idle
    <3> QED BY <1>0, <2>0, <2>1, <2>p, <3>1, <3>2, OneWorker, PromisesFrame
  <2>2. ASSUME NEW w \in Workers, FederateDelete(w) PROVE PromisesKept'
    <3>1. UNCHANGED <<post, outbox>> /\ task[w].step = "looking" /\ Work(w)
      BY <2>2 DEF FederateDelete, sender, Work
    <3>2. CASE outbox = << >>
      <4>1. task'[w].step = "idle" /\ \A d : ~WillTell(w, d)
        BY <1>0, <2>2, <3>1, <3>2 DEF FederateDelete, WillTell, Idle
      <4> QED BY <1>0, <2>0, <2>p, <3>1, <4>1, OneWorker, PromisesFrame
    <3>3. CASE outbox # << >>
      <4> DEFINE a == [type |-> "Delete", of |-> Last(outbox).of]
      <4>1. a \in Activities /\ Last(outbox).deliveredTo \subseteq Inboxes
        BY <1>0, <3>3, LastOfOutbox DEF Activities, Inboxes
      <4>2. Dispatch(w, a, Last(outbox).deliveredTo)
        BY <2>2, <3>3 DEF FederateDelete
      <4>3. a.type = "Delete"
        OBVIOUS
      <4> HIDE DEF a
      <4>4. task'[w] = IF Last(outbox).deliveredTo = {} THEN Idle
                       ELSE [step |-> "sending", act |-> a, left |-> Last(outbox).deliveredTo, got |-> {}]
        BY <1>0, <4>1, <4>2, DispatchShapes
      <4>5. ASSUME NEW d, WillTell(w, d) PROVE Told(d)'
        <5>1. d \in Last(outbox).deliveredTo
          BY <3>1, <4>5 DEF WillTell
        <5>2. task'[w].step = "sending" /\ task'[w].act = a /\ d \in task'[w].left
          BY <4>4, <5>1
        <5>3. WillTell(w, d)'
          BY <4>3, <5>2 DEF WillTell
        <5> QED BY <5>3 DEF Told
      <4>6. task'[w].step \in {"sending", "noting"} => task'[w].act.type # "Create"
        BY <4>3, <4>4 DEF Idle
      <4> QED BY <1>0, <2>0, <2>p, <3>1, <4>5, <4>6, OneWorker, PromisesFrame
    <3> QED BY <3>2, <3>3
  <2>3. ASSUME NEW w \in Workers, NEW i \in Inboxes, Skip(w, i) PROVE PromisesKept'
    <3>1. /\ UNCHANGED <<post, outbox>> /\ Work(w) /\ task[w].step = "sending"
          /\ task[w].act.type = "Delete" /\ task[w] \in Sendings
      BY <1>0, <2>0, <2>3, TaskShapes DEF Skip, sender, Work
    <3>2. /\ task' = [task EXCEPT ![w].left = task[w].left \ {i}]
          /\ promised' = promised \ {DomainOf(i)}
      BY <2>3, <3>1 DEF Skip
    <3>3. /\ task'[w].step = "sending" /\ task'[w].act = task[w].act
          /\ task'[w].left = task[w].left \ {i}
      BY <1>0, <3>1, <3>2 DEF Sendings
    <3>4. ASSUME NEW d \in promised' \ Zynkra, WillTell(w, d) PROVE Told(d)'
      <4>1. d \in task[w].left
        BY <3>1, <3>4 DEF WillTell
      <4>2. d # i
        BY <2>0, <3>2, <3>4, DomainsOfInboxes
      <4>3. WillTell(w, d)'
        BY <3>1, <3>3, <4>1, <4>2 DEF WillTell
      <4> QED BY <4>3 DEF Told
    <3>5. task'[w].act.type # "Create"
      BY <3>1, <3>3
    <3> QED BY <1>0, <2>0, <2>p, <3>1, <3>4, <3>5, OneWorker, PromisesFrame
  <2>4. ASSUME NEW w \in Workers, NEW i \in Inboxes, NEW o \in Outcomes, Send(w, i, o)
        PROVE  PromisesKept'
    <3>1. /\ UNCHANGED <<post, outbox>> /\ Work(w) /\ task[w].step = "sending"
          /\ task[w].act.type = "Delete" /\ task[w].act \in Activities /\ Answer(task[w].act, i, o)
      <4>1. task[w] \in Sendings
        BY <1>0, <2>4, TaskShapes DEF Send
      <4>2. task[w].act \in Activities
        BY <4>1 DEF Sendings
      <4>3. Work(w)
        BY <2>4 DEF Work
      <4> QED BY <2>0, <2>4, <4>2, <4>3 DEF Send, sender
    <3>2. /\ task'[w].step = "noting" /\ task'[w].act = task[w].act
          /\ task'[w].left = task[w].left \ {i}
          /\ task'[w].inbox = i /\ task'[w].outcome = o
      BY <1>0, <2>4 DEF Send
    <3>3. ASSUME NEW d \in promised' \ Zynkra, WillTell(w, d) PROVE Told(d)'
      <4>1. d \in task[w].left /\ DomainOf(d) = d
        BY <2>0, <2>p, <3>1, <3>3, DomainsOfInboxes DEF WillTell
      <4>2. CASE d # i \/ o \in {"down", "refused"}
        <5>1. WillTell(w, d)'
          BY <3>1, <3>2, <4>1, <4>2 DEF WillTell
        <5> QED BY <5>1 DEF Told
      <4>3. CASE d = i /\ o \in {"ok", "lost"}
        BY <3>1, <3>3, <4>1, <4>3, ProcessBuries DEF Told
      <4> QED BY <4>2, <4>3 DEF Outcomes
    <3>4. task'[w].act.type # "Create"
      BY <3>1, <3>2
    <3> QED BY <1>0, <2>0, <2>p, <3>1, <3>3, <3>4, OneWorker, PromisesFrame
  <2>5. ASSUME NEW w \in Workers, Note(w) \/ NoteFails(w) PROVE PromisesKept'
    <3>1. /\ UNCHANGED <<post, outbox>> /\ (Work(w) \/ NoteFails(w)) /\ task[w].step = "noting"
          /\ task[w].act.type = "Delete" /\ task[w] \in Notings
      BY <1>0, <2>0, <2>5, TaskShapes DEF Note, NoteFails, sender, Work
    <3>2. /\ task'[w].step = "sending" /\ task'[w].act = task[w].act
          /\ task'[w].left = task[w].left
      BY <1>0, <2>5 DEF Note, NoteFails, Noted
    <3>3. ASSUME NEW d \in promised' \ Zynkra, WillTell(w, d) PROVE Told(d)'
      <4>1. CASE d \in task[w].left
        <5>1. WillTell(w, d)'
          BY <3>1, <3>2, <4>1 DEF WillTell
        <5> QED BY <5>1 DEF Told
      <4>2. CASE d \notin task[w].left
        <5>1. DomainOf(task[w].inbox) = d /\ task[w].outcome \in {"down", "refused"}
          BY <3>1, <3>3, <4>2 DEF WillTell
        <5>2. Note(w)
          BY <2>5, <3>1, <3>3, <5>1 DEF NoteFails
        <5>3. PICK k : k = [act |-> task[w].act, inbox |-> task[w].inbox]
          OBVIOUS
        <5>4. k \in DOMAIN queue' /\ k.act.type = "Delete" /\ DomainOf(k.inbox) = d
          BY <3>1, <5>1, <5>2, <5>3 DEF Note, Enqueued
        <5>5. Kept(d)'
          BY <5>4 DEF Kept
        <5> QED BY <5>5 DEF Told
      <4> QED BY <4>1, <4>2
    <3>4. task'[w].act.type # "Create"
      BY <3>1, <3>2
    <3> QED BY <1>0, <2>0, <2>p, <3>1, <3>3, <3>4, OneWorker, PromisesFrame
  <2>6. ASSUME NEW w \in Workers, Record(w) PROVE PromisesKept'
    <3>1. /\ UNCHANGED <<post, outbox>> /\ Work(w) /\ task[w].step = "sending"
          /\ task[w].left = {} /\ task'[w].step = "idle"
      BY <1>0, <2>0, <2>6 DEF Record, Work, Idle
    <3>2. \A d : ~WillTell(w, d)
      BY <3>1 DEF WillTell
    <3> QED BY <1>0, <2>0, <2>p, <3>1, <3>2, OneWorker, PromisesFrame
  <2>7. ASSUME NEW w \in Workers, task[w].step \in {"redriving", "settling"}, Work(w)
        PROVE  PromisesKept'
    <3>1. /\ UNCHANGED <<post, outbox>> /\ task'[w].step \in {"idle", "redriving", "settling"}
      <4>1. CASE RedriveSettle(w)
        BY <1>0, <4>1 DEF RedriveSettle, Redriven, sender, Idle
      <4>2. ASSUME NEW r, RedriveBlocked(w, r)
            PROVE  UNCHANGED <<post, outbox>> /\ task'[w].step \in {"idle", "redriving"}
        BY <1>0, <4>2 DEF RedriveBlocked, Redriven, sender, Idle
      <4>3. ASSUME NEW r, NEW o, RedriveSend(w, r, o)
            PROVE  UNCHANGED <<post, outbox>> /\ task'[w].step = "settling"
        BY <1>0, <4>3 DEF RedriveSend, sender
      <4> QED BY <2>7, <4>1, <4>2, <4>3 DEF Work, FederateDelete, Skip, Send, Note, Record
    <3>2. \A d : ~WillTell(w, d)
      BY <2>7 DEF WillTell
    <3> QED BY <1>0, <2>0, <2>7, <2>p, <3>1, <3>2, OneWorker, PromisesFrame
  <2>8. ASSUME NEW w \in Workers, Crash(w) PROVE PromisesKept'
    <3>1. UNCHANGED <<post, outbox>> /\ task'[w].step = "idle"
      BY <1>0, <2>8 DEF Crash, sender, Idle
    <3>2. \A d : ~WillTell(w, d)
      BY <2>8 DEF Crash, WillTell
    <3> QED BY <1>0, <2>0, <2>8, <2>p, <3>1, <3>2, OneWorker, PromisesFrame
  <2>9. ASSUME UNCHANGED <<post, outbox, task>> PROVE PromisesKept'
    <3>1. ASSUME NEW d \in promised' \ Zynkra PROVE Told(d)'
      <4>1. Told(d)
        BY <2>0, <2>p DEF PromisesKept
      <4> QED BY <1>0, <2>9, <4>1 DEF Told, Kept, WillTell
    <3>2. post' = "deleted" /\ ~CreateUnderWay'
      BY <2>0, <2>9 DEF PromisesKept, CreateUnderWay
    <3> QED BY <3>1, <3>2 DEF PromisesKept
  <2>10. ASSUME NEW d \in Domains, BlockInstance(d) \/ UnblockInstance(d)
         PROVE  UNCHANGED <<post, outbox, task>>
    BY <2>10 DEF BlockInstance, UnblockInstance
  <2>11. UNCHANGED vars => UNCHANGED <<post, outbox, task>>
    BY DEF vars
  <2>12. ASSUME NEW w \in Workers, Work(w), task[w].step \notin {"redriving", "settling"}
         PROVE  \/ FederateDelete(w) \/ Note(w) \/ Record(w)
                \/ \E i \in Inboxes : Skip(w, i) \/ \E o \in Outcomes : Send(w, i, o)
    BY <2>12 DEF Work, RedriveSettle
  <2> QED BY <2>1, <2>2, <2>3, <2>4, <2>5, <2>6, <2>7, <2>8, <2>9, <2>10, <2>11, <2>12 DEF Next
<1> QED BY <1>m, <1>s

---------------------------------------------------------------------------
LEMMA RecordInit ==
  Init => RecordInv
<1> SUFFICES ASSUME Init PROVE RecordInv
  OBVIOUS
<1>1. task \in [Workers -> Tasks] /\ \A w \in Workers : task[w] = Idle
  BY DEF Init, Tasks
<1>2. DOMAIN queue = {} /\ queue \in [DOMAIN queue -> Attempts]
  BY EmptySeq DEF Init
<1>3. outbox \in Seq([of : 1..MaxCreates, deliveredTo : SUBSET Domains])
  BY EmptySeq DEF Init
<1>4. TypeOK
  BY <1>1, <1>2, <1>3, BoundsAssumption DEF Init, TypeOK
<1>5. SpentOK
  BY BoundsAssumption DEF Init, SpentOK
<1>6. CountInv
  BY <1>1, <1>2, <1>4, <1>5 DEF CountInv, CopyCounted, Idle
<1>7. AnswersAreTrue /\ BuriedStaysBuried /\ PromisesKept
  BY <1>1, <1>2 DEF Init, AnswersAreTrue, AnswerTrue, ClosedIsDelivered, BuriedStaysBuried,
                    PromisesKept, Idle
<1> QED BY <1>6, <1>7 DEF RecordInv

LEMMA RecordInvariant ==
  Spec => []RecordInv
<1>1. RecordInv /\ [Next]_vars => RecordInv'
  BY CountStep, AnswersStep, BuriedStep, PromisesStep DEF RecordInv
<1> QED BY <1>1, RecordInit, PTL DEF Spec

(***************************************************************************)
(* Every variable keeps the shape the entities and the calls give it, and  *)
(* no row of the queue ever counts more attempts than dlqMaxAttempts and   *)
(* an operator's redrives allow: failRedrive writes the count of the copy  *)
(* a replica holds, and two replicas that work through the same rows       *)
(* overwrite one another's count, never past the bound.                    *)
(***************************************************************************)
THEOREM FederationTypes ==
  Spec => []TypeOK
<1>1. RecordInv => TypeOK
  BY DEF RecordInv, CountInv
<1> QED BY <1>1, RecordInvariant, PTL

(***************************************************************************)
(* What the tables record is what happened elsewhere: a row closed as      *)
(* delivered is one whose instance processed that very activity, and when  *)
(* federateDelete is over, every instance of other software which the      *)
(* recorded Create names has removed its copy or its Delete is still kept. *)
(***************************************************************************)
THEOREM RecordsStayTrue ==
  Spec => []RecordsAreTrue
<1>1. ASSUME RecordInv PROVE RecordsAreTrue
  <2>1. CountInv /\ ClosedIsDelivered /\ BuriedStaysBuried /\ PromisesKept
    BY <1>1 DEF RecordInv, AnswersAreTrue
  <2>2. ASSUME post = "deleted", ~Retracting, NEW d \in (promised \cap copies) \ Zynkra
        PROVE  Owed(d)
    <3>1. d \notin buried
      BY <2>1 DEF BuriedStaysBuried
    <3>2. \A w \in Workers : ~WillTell(w, d)
      BY <2>2 DEF Retracting, WillTell
    <3>3. PICK k \in DOMAIN queue : k.act.type = "Delete" /\ DomainOf(k.inbox) = d
      BY <2>1, <3>1, <3>2 DEF PromisesKept, Told, Kept
    <3>4. CASE queue[k].completed
      <4>1. PICK i \in Inboxes : DomainOf(i) = d /\ [act |-> k.act, inbox |-> i] \in received
        BY <2>1, <3>3, <3>4 DEF ClosedIsDelivered, Reached
      <4>2. d \in buried \cup Zynkra
        BY <2>1, <3>3, <4>1 DEF BuriedStaysBuried
      <4> QED BY <3>1, <4>2
    <3> QED BY <3>3, <3>4 DEF Owed
  <2> QED BY <2>1, <2>2 DEF RecordsAreTrue, RetractedWhereRecorded
<1> QED BY <1>1, RecordInvariant, PTL
=============================================================================
