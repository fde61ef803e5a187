----------------------------- MODULE Federation -----------------------------
(***************************************************************************)
(* How one public post reaches other instances and is taken back:          *)
(* federatePost, federateDelete, fanOut and the queue of failed deliveries *)
(* of server/src/federation/federation.service.ts, called without waiting  *)
(* by posts.service.ts.  A dispatch, a tick of the cron on some replica    *)
(* and an operator's redrive are workers; they interleave at each await.   *)
(*                                                                         *)
(* The receiving side is processSharedInbox of the same file when the      *)
(* domain runs this code (Zynkra).  Any other software is external and     *)
(* assumed to behave as well as the sender hopes: it matches a Delete by   *)
(* the Create it received, accepts a repeated Create, and ignores a Create *)
(* that arrives after its Delete.                                          *)
(*                                                                         *)
(* Follow, Like, Announce, Update and their Undo are not in this model.    *)
(***************************************************************************)
EXTENDS Integers, Sequences, SequencesExt

CONSTANTS
    Domains,      \* other instances; a domain also names its shared inbox
    Zynkra,       \* those that run this code
    Actors,       \* remote accounts the post replies to or mentions
    Home,         \* Home[a]: the domain of an account
    Workers,      \* concurrent dispatches, cron ticks and redrives
    MaxAttempts,  \* dlqMaxAttempts
    MaxCreates,   \* bound of the model: Create activities of the post
    MaxManual,    \* bound of the model: redrives by an operator
    MaxBlocks,    \* bound of the model: blocks of an instance by an admin
    MaxFaults     \* bound of the model: replicas that stop, statements that fail

ASSUME ZynkraAssumption == Zynkra \subseteq Domains
ASSUME HomeAssumption == Home \in [Actors -> Domains] /\ Actors \cap Domains = {}
ASSUME AttemptsAssumption == MaxAttempts \in Nat \ {0, 1}
ASSUME BoundsAssumption ==
    /\ MaxCreates \in Nat \ {0}
    /\ MaxManual \in Nat /\ MaxBlocks \in Nat /\ MaxFaults \in Nat

VARIABLES
    post,         \* the local post: "none", "live" or "deleted"
    minted,       \* Create activities built so far
    blocked,      \* instances with isBlocked
    outbox,       \* recorded Creates, oldest first
    queue,        \* delivery attempts, by activity and inbox
    task,         \* task[w]: what worker w is doing
    copies,       \* domains that store a copy of the post
    buried,       \* domains that remember its deletion
    received,     \* history: activities an inbox has processed
    promised,     \* history: domains a finished deletion must have reached
    spent         \* spent[b]: how much of each bound of the model is used

vars == <<post, minted, blocked, outbox, queue, task, copies, buried, received,
          promised, spent>>
peers == <<copies, buried, received>>
sender == <<post, minted, blocked, outbox>>

Inboxes == Domains \cup Actors
DomainOf(i) == IF i \in Actors THEN Home[i] ELSE i
Activities == [type : {"Create", "Delete"}, of : 1..MaxCreates]
Deliveries == [act : Activities, inbox : Inboxes]

(* federation_delivery_attempts: the columns that decide.                  *)
Attempts == [attempts : 1..(MaxAttempts + MaxManual), dead : BOOLEAN, completed : BOOLEAN]

Outcomes == {"ok", "lost", "down", "refused"}

Idle == [step |-> "idle"]
Due == [delivery : Deliveries, attempts : 1..(MaxAttempts + MaxManual)]
Tasks ==
    {Idle, [step |-> "looking"]}
    \cup [step : {"sending"}, act : Activities, left : SUBSET Inboxes, got : SUBSET Domains]
    \cup [step : {"noting"}, act : Activities, left : SUBSET Inboxes, got : SUBSET Domains,
          inbox : Inboxes, outcome : Outcomes]
    \cup [step : {"redriving"}, due : SUBSET Due]
    \cup [step : {"settling"}, due : SUBSET Due, row : Due, outcome : Outcomes]

Init ==
    /\ post = "none"
    /\ minted = 0
    /\ blocked = {}
    /\ outbox = << >>
    /\ queue = << >>
    /\ task = [w \in Workers |-> Idle]
    /\ copies = {} /\ buried = {} /\ received = {}
    /\ promised = {}
    /\ spent = [b \in {"manual", "blocks", "faults"} |-> 0]

Spend(b, bound) ==
    /\ spent[b] < bound
    /\ spent' = [spent EXCEPT ![b] = @ + 1]

---------------------------------------------------------------------------
(* The receiving side.                                                     *)

(* The id a domain files the post under: this code keeps object.id, the    *)
(* Note's; other software can also find it by the Create.                  *)
FiledUnder(d) == IF d \in Zynkra THEN {"note"} ELSE {"note", "create"}

(* The object of a Delete: the Tombstone carries the Create's id.          *)
TombstoneId == "create"

(* A second Create of the same note breaks the UNIQUE activityId: 500.     *)
Breaks(a, d) == a.type = "Create" /\ d \in Zynkra \cap copies

(* Inbox i processes activity a.                                           *)
Process(a, i) ==
    LET d == DomainOf(i)
        found == TombstoneId \in FiledUnder(d)
    IN  /\ ~Breaks(a, d)
        /\ received' = received \cup {[act |-> a, inbox |-> i]}
        /\ IF a.type = "Create"
           THEN /\ copies' = IF d \in buried THEN copies ELSE copies \cup {d}
                /\ UNCHANGED buried
           ELSE /\ copies' = IF found THEN copies \ {d} ELSE copies
                /\ buried' = IF d \in Zynkra THEN buried ELSE buried \cup {d}

(* The POST: processed and answered; processed but the answer is lost; not *)
(* processed (down, 5xx); refused with a 4xx.                              *)
Answer(a, i, outcome) ==
    IF outcome \in {"ok", "lost"} THEN Process(a, i) ELSE UNCHANGED peers

---------------------------------------------------------------------------
(* Dispatching a Create or a Delete.                                       *)

Dispatch(w, a, targets) ==
    task' = [task EXCEPT ![w] =
        IF targets = {} THEN Idle
        ELSE [step |-> "sending", act |-> a, left |-> targets, got |-> {}]]

(* Reply and mention targets, except on a domain that is already served.   *)
Targets(domains, actors) == domains \cup {a \in actors : Home[a] \notin domains}

(* federatePost for a new post, or again for a live one.  The set of       *)
(* follower instances is empty in the code (getFollowerInstanceDomains     *)
(* does not load the instance of a follower), so `domains` is what a       *)
(* caller of POST posts/federate names; `actors` are those that resolved.  *)
(* A post that addresses no one is never federated and left out.           *)
FederatePost(w, domains, actors) ==
    /\ task[w] = Idle
    /\ post \in {"none", "live"}
    /\ post' = "live"
    /\ LET targets == Targets(domains, actors)
       IN  /\ minted < MaxCreates
           /\ targets # {}
           /\ minted' = minted + 1
           /\ Dispatch(w, [type |-> "Create", of |-> minted + 1], targets)
    /\ UNCHANGED <<blocked, outbox, queue, peers, promised, spent>>

CreateUnderWay ==
    \E w \in Workers :
        task[w].step \in {"sending", "noting"} /\ task[w].act.type = "Create"

(* The author deletes the post; its retraction is dispatched.              *)
RemovePost(w) ==
    /\ task[w] = Idle
    /\ post = "live"
    /\ post' = "deleted"
    /\ promised' = IF outbox = << >> \/ CreateUnderWay THEN {} ELSE Last(outbox).deliveredTo
    /\ task' = [task EXCEPT ![w] = [step |-> "looking"]]
    /\ UNCHANGED <<minted, blocked, outbox, queue, peers, spent>>

(* Variant: a Delete goes to today's followers.                            *)
FederateDeleteToFollowers(w) ==
    /\ task[w].step = "looking"
    /\ task' = [task EXCEPT ![w] = Idle]
    /\ UNCHANGED <<sender, queue, peers, promised, spent>>

(* federateDelete: the latest recorded Create names the activity to wrap   *)
(* and the instances to tell; without one nothing is sent.                 *)
FederateDelete(w) ==
    /\ task[w].step = "looking"
    /\ IF outbox = << >>
       THEN task' = [task EXCEPT ![w] = Idle]
       ELSE Dispatch(w, [type |-> "Delete", of |-> Last(outbox).of], Last(outbox).deliveredTo)
    /\ UNCHANGED <<sender, queue, peers, promised, spent>>

(* A blocked instance is skipped, and nothing is kept for it.              *)
Skip(w, i) ==
    LET t == task[w]
    IN  /\ t.step = "sending" /\ i \in t.left
        /\ DomainOf(i) \in blocked
        /\ task' = [task EXCEPT ![w].left = @ \ {i}]
        /\ promised' = IF t.act.type = "Delete" THEN promised \ {DomainOf(i)} ELSE promised
        /\ UNCHANGED <<sender, queue, peers, spent>>

(* deliverToInbox, its retries included.                                   *)
Send(w, i, outcome) ==
    LET t == task[w]
    IN  /\ t.step = "sending" /\ i \in t.left
        /\ DomainOf(i) \notin blocked
        /\ Answer(t.act, i, outcome)
        /\ task' = [task EXCEPT ![w] =
             [step |-> "noting", act |-> t.act, left |-> t.left \ {i}, got |-> t.got,
              inbox |-> i, outcome |-> outcome]]
        /\ UNCHANGED <<sender, queue, promised, spent>>

Pending(k) == ~queue[k].dead /\ ~queue[k].completed

(* markDeliveryDelivered: the pending rows of the activity for the domain. *)
MarkDelivered(a, d) ==
    [k \in DOMAIN queue |->
        IF k.act = a /\ DomainOf(k.inbox) = d /\ Pending(k)
        THEN [queue[k] EXCEPT !.completed = TRUE] ELSE queue[k]]

(* enqueueFailedDelivery: a deterministic refusal is dead at once.         *)
Enqueued(a, i, outcome) ==
    [k \in DOMAIN queue \cup {[act |-> a, inbox |-> i]} |->
        IF k \in DOMAIN queue THEN queue[k]
        ELSE [attempts |-> 1, dead |-> outcome = "refused", completed |-> FALSE]]

Noted(w) ==
    LET t == task[w]
    IN  task' = [task EXCEPT ![w] =
            [step |-> "sending", act |-> t.act, left |-> t.left,
             got |-> IF t.outcome = "ok" THEN t.got \cup {DomainOf(t.inbox)} ELSE t.got]]

Note(w) ==
    LET t == task[w]
    IN  /\ t.step = "noting"
        /\ Noted(w)
        /\ queue' = IF t.outcome = "ok" THEN MarkDelivered(t.act, DomainOf(t.inbox))
                    ELSE Enqueued(t.act, t.inbox, t.outcome)
        /\ UNCHANGED <<sender, peers, promised, spent>>

(* "The queue must never break the user-visible federation call": a failed *)
(* write of the row is logged and the fan-out goes on.                     *)
NoteFails(w) ==
    LET t == task[w]
    IN  /\ t.step = "noting"
        /\ Spend("faults", MaxFaults)
        /\ Noted(w)
        /\ promised' = IF t.act.type = "Delete" THEN promised \ {DomainOf(t.inbox)} ELSE promised
        /\ UNCHANGED <<sender, queue, peers>>

(* The fan-out is over; a Create is recorded with the domains that took it.*)
Record(w) ==
    LET t == task[w]
    IN  /\ t.step = "sending" /\ t.left = {}
        /\ outbox' = IF t.act.type = "Create"
                     THEN Append(outbox, [of |-> t.act.of, deliveredTo |-> t.got])
                     ELSE outbox
        /\ task' = [task EXCEPT ![w] = Idle]
        /\ UNCHANGED <<post, minted, blocked, queue, peers, promised, spent>>

---------------------------------------------------------------------------
(* The queue of failed deliveries.                                         *)

DueRow(k) == [delivery |-> k, attempts |-> queue[k].attempts]

(* redriveFailedDeliveries reads the rows that are due, then works through *)
(* its copies of them.                                                     *)
CronList(w, rows) ==
    /\ task[w] = Idle
    /\ rows # {}
    /\ rows \subseteq {k \in DOMAIN queue : Pending(k)}
    /\ task' = [task EXCEPT ![w] = [step |-> "redriving", due |-> {DueRow(k) : k \in rows}]]
    /\ UNCHANGED <<sender, queue, peers, promised, spent>>

(* manuallyRedriveDelivery works on dead rows too.                         *)
ManualRedrive(w, k) ==
    /\ task[w] = Idle
    /\ k \in DOMAIN queue /\ ~queue[k].completed
    /\ Spend("manual", MaxManual)
    /\ task' = [task EXCEPT ![w] = [step |-> "redriving", due |-> {DueRow(k)}]]
    /\ UNCHANGED <<sender, queue, peers, promised>>

RedriveSend(w, r, outcome) ==
    LET t == task[w]
    IN  /\ t.step = "redriving" /\ r \in t.due
        /\ DomainOf(r.delivery.inbox) \notin blocked
        /\ Answer(r.delivery.act, r.delivery.inbox, outcome)
        /\ task' = [task EXCEPT ![w] =
             [step |-> "settling", due |-> t.due \ {r}, row |-> r, outcome |-> outcome]]
        /\ UNCHANGED <<sender, queue, promised, spent>>

Redriven(w, due) ==
    task' = [task EXCEPT ![w] = IF due = {} THEN Idle ELSE [step |-> "redriving", due |-> due]]

(* A row of an instance that was blocked meanwhile dies.                   *)
RedriveBlocked(w, r) ==
    LET t == task[w]
    IN  /\ t.step = "redriving" /\ r \in t.due
        /\ DomainOf(r.delivery.inbox) \in blocked
        /\ queue' = [queue EXCEPT ![r.delivery].dead = TRUE]
        /\ Redriven(w, t.due \ {r})
        /\ UNCHANGED <<sender, peers, promised, spent>>

(* Variant: a row that is given up is closed.                              *)
RedriveSettleClosing(w) ==
    LET t == task[w]
        tried == t.row.attempts + 1
        over == t.outcome \in {"ok", "refused"} \/ tried >= MaxAttempts
    IN  /\ t.step = "settling"
        /\ queue' = [queue EXCEPT ![t.row.delivery] =
             IF over THEN [@ EXCEPT !.completed = TRUE] ELSE [@ EXCEPT !.attempts = tried]]
        /\ Redriven(w, t.due)
        /\ UNCHANGED <<sender, peers, promised, spent>>

(* Variant: a failed redrive is not counted.                               *)
RedriveSettleUncounted(w) ==
    LET t == task[w]
    IN  /\ t.step = "settling"
        /\ queue' = [queue EXCEPT ![t.row.delivery] =
             IF t.outcome = "ok"
             THEN [@ EXCEPT !.attempts = t.row.attempts, !.completed = TRUE]
             ELSE [@ EXCEPT !.dead = @ \/ t.outcome = "refused"]]
        /\ Redriven(w, t.due)
        /\ UNCHANGED <<sender, peers, promised, spent>>

(* Variant: one attempt too many before giving up.                         *)
RedriveSettleLate(w) ==
    LET t == task[w]
        tried == t.row.attempts + 1
    IN  /\ t.step = "settling"
        /\ queue' = [queue EXCEPT ![t.row.delivery] =
             IF t.outcome = "ok"
             THEN [@ EXCEPT !.attempts = t.row.attempts, !.completed = TRUE]
             ELSE [@ EXCEPT !.attempts = tried,
                            !.dead = (@ \/ t.outcome = "refused") \/ tried > MaxAttempts]]
        /\ Redriven(w, t.due)
        /\ UNCHANGED <<sender, peers, promised, spent>>

(* The row is closed, or failRedrive counts one attempt more than the copy *)
(* shows and gives up at MaxAttempts or on a refusal.                      *)
RedriveSettle(w) ==
    LET t == task[w]
        k == t.row.delivery
        tried == t.row.attempts + 1
        over == t.outcome = "refused" \/ tried >= MaxAttempts
    IN  /\ t.step = "settling"
        /\ queue' = [queue EXCEPT ![k] =
             IF t.outcome = "ok"
             THEN [queue[k] EXCEPT !.attempts = t.row.attempts, !.completed = TRUE]
             ELSE [queue[k] EXCEPT !.attempts = tried, !.dead = queue[k].dead \/ over]]
        /\ Redriven(w, t.due)
        /\ UNCHANGED <<sender, peers, promised, spent>>

---------------------------------------------------------------------------
(* Administration and faults.                                              *)

BlockInstance(d) ==
    /\ Spend("blocks", MaxBlocks)
    /\ blocked' = blocked \cup {d}
    /\ UNCHANGED <<post, minted, outbox, queue, task, peers, promised>>

UnblockInstance(d) ==
    /\ d \in blocked
    /\ blocked' = blocked \ {d}
    /\ UNCHANGED <<post, minted, outbox, queue, task, peers, promised, spent>>

(* A replica stops: nothing remembers the dispatch it was working on; a    *)
(* redrive leaves its rows as they were.                                   *)
(* For a Create this is also recordOutboundActivity failing to write: the  *)
(* catch only warns, and the post can no longer be retracted.              *)
Crash(w) ==
    LET t == task[w]
        deleting == \/ t.step = "looking"
                    \/ t.step \in {"sending", "noting"} /\ t.act.type = "Delete"
    IN  /\ t # Idle
        /\ Spend("faults", MaxFaults)
        /\ task' = [task EXCEPT ![w] = Idle]
        /\ promised' = IF deleting THEN {} ELSE promised
        /\ UNCHANGED <<sender, queue, peers>>

---------------------------------------------------------------------------
Start(w) ==
    \/ \E ds \in SUBSET Domains, as \in SUBSET Actors : FederatePost(w, ds, as)
    \/ RemovePost(w)
    \/ \E rows \in SUBSET DOMAIN queue : CronList(w, rows)
    \/ \E k \in DOMAIN queue : ManualRedrive(w, k)

Work(w) ==
    \/ FederateDelete(w)
    \/ \E i \in Inboxes : Skip(w, i) \/ \E o \in Outcomes : Send(w, i, o)
    \/ Note(w)
    \/ Record(w)
    \/ \E r \in (IF task[w].step = "redriving" THEN task[w].due ELSE {}) :
         RedriveBlocked(w, r) \/ \E o \in Outcomes : RedriveSend(w, r, o)
    \/ RedriveSettle(w)

Next ==
    \/ \E w \in Workers : Start(w) \/ Work(w) \/ NoteFails(w) \/ Crash(w)
    \/ \E d \in Domains : BlockInstance(d) \/ UnblockInstance(d)

Spec == Init /\ [][Next]_vars

(* A running worker goes on, and on each replica the cron ticks every      *)
(* minute and takes every row that is due.                                 *)
FairSpec ==
    /\ Spec
    /\ \A w \in Workers :
         /\ WF_vars(Work(w))
         /\ SF_vars(CronList(w, {k \in DOMAIN queue : Pending(k)}))

---------------------------------------------------------------------------
(* Every variable has the shape the entities and the calls give it, and no *)
(* row counts more attempts than dlqMaxAttempts and the operator allow.    *)
TypeOK ==
    /\ post \in {"none", "live", "deleted"}
    /\ minted \in 0..MaxCreates
    /\ blocked \subseteq Domains
    /\ outbox \in Seq([of : 1..MaxCreates, deliveredTo : SUBSET Domains])
    /\ DOMAIN queue \subseteq Deliveries
    /\ \A k \in DOMAIN queue : queue[k] \in Attempts
    /\ task \in [Workers -> Tasks]
    /\ copies \subseteq Domains /\ buried \subseteq Domains
    /\ received \subseteq Deliveries
    /\ promised \subseteq Domains

Reached(a, d) == \E i \in Inboxes : DomainOf(i) = d /\ [act |-> a, inbox |-> i] \in received

(* federation-delivery-attempt.entity.ts: a failed delivery is kept until  *)
(* it is delivered ("an outage on one peer silently dropped every          *)
(* activity"): a row that is closed as delivered is one whose instance     *)
(* has processed that very activity, whatever replicas, retries and        *)
(* operators did to it in between.  (Its instance, not its inbox: a        *)
(* success with one account also closes the row of another account there.) *)
ClosedIsDelivered ==
    \A k \in DOMAIN queue : queue[k].completed => Reached(k.act, DomainOf(k.inbox))

Retracting ==
    \E w \in Workers : \/ task[w].step = "looking"
                       \/ task[w].step \in {"sending", "noting"} /\ task[w].act.type = "Delete"

Owed(d) == \E k \in DOMAIN queue :
    k.act.type = "Delete" /\ DomainOf(k.inbox) = d /\ ~queue[k].completed

(* federateDelete retracts "from the instances that actually accepted the  *)
(* Create": once the retraction is over, an instance of other software     *)
(* which the recorded Create names holds no copy, unless the queue still   *)
(* keeps its Delete.                                                       *)
RetractedWhereRecorded ==
    post = "deleted" /\ ~Retracting =>
        \A d \in (promised \cap copies) \ Zynkra : Owed(d)

(* What the tables record is what happened elsewhere: of a delivery that   *)
(* is closed, and of the instances that accepted a Create.                 *)
RecordsAreTrue == ClosedIsDelivered /\ RetractedWhereRecorded

(* The queue drains: the cron delivers every waiting row or gives it up,   *)
(* although replicas overwrite one another's count of attempts.            *)
QueueDrains ==
    \A k \in Deliveries :
        (k \in DOMAIN queue /\ Pending(k)) ~> (k \in DOMAIN queue /\ ~Pending(k))

(* post-federation.service.ts: "every remote copy of a deleted post        *)
(* outlived the original ... which is the one guarantee federation must    *)
(* not break": after a retraction that reached every instance, with        *)
(* nothing left to send, no copy remains.                                  *)
NoCopyOutlives ==
    (/\ post = "deleted"
     /\ \A w \in Workers : task[w] = Idle
     /\ promised = Domains
     /\ \A k \in DOMAIN queue : queue[k].completed)
    => copies = {}
=============================================================================
