------------------------------ MODULE Webhooks ------------------------------
(***************************************************************************)
(* Outbound webhooks: dispatchEvent, deliver, send and the retry cron of   *)
(* server/src/webhooks/webhooks.service.ts, for the events that posts      *)
(* raise and one endpoint of a developer.  The endpoint's receiver is      *)
(* external: it processes a request or not, and its answer may not arrive  *)
(* within the timeout.                                                     *)
(*                                                                         *)
(* The module has no Next of its own: Background composes its actions with *)
(* the components that raise the events.                                   *)
(***************************************************************************)
EXTENDS Integers, FiniteSets

CONSTANTS
    Events,       \* events that are raised, at most once each
    Replicas,     \* server replicas: each runs the retry cron
    MaxRetries,   \* MAX_RETRIES
    Page          \* `take`: how many failed deliveries one tick looks at

VARIABLES
    endpoint,     \* "active", "inactive" or "deleted"
    delivery,     \* delivery[e]: the row of event e
    attempt,      \* attempt[e]: the dispatch of event e
    retry,        \* retry[r]: the tick of the cron on replica r
    got,          \* history: how often the receiver processed an event (2: or more)
    orphaned,     \* history: events whose dispatch stopped half way
    repeated      \* history: events with a reason to be sent again

vars == <<endpoint, delivery, attempt, retry, got, orphaned, repeated>>

NoRow == [status |-> "none", retries |-> 0]
Row == [status : {"none", "pending", "failed", "delivered", "removed"}, retries : 0..1]

(* The POST: processed and answered in time; processed, but the answer is  *)
(* an error, late or lost; not processed.                                  *)
Outcomes == {"ok", "lost", "down"}

(* A tick: the deliveries it has yet to send, and the one it has sent and  *)
(* yet to note.                                                            *)
Resting == [left |-> {}, noting |-> {}]
Ticks == [left : SUBSET Events, noting : SUBSET Events]

Init ==
    /\ endpoint = "active"
    /\ delivery = [e \in Events |-> NoRow]
    /\ attempt = [e \in Events |-> "idle"]
    /\ retry = [r \in Replicas |-> Resting]
    /\ got = [e \in Events |-> 0]
    /\ orphaned = {} /\ repeated = {}

(* The row as an UPDATE by id leaves it: one that is gone stays gone.      *)
Updated(e, row) ==
    [delivery EXCEPT ![e] = IF @.status = "removed" THEN @ ELSE row]

Receive(e, outcome) ==
    /\ got' = IF outcome = "down" THEN got
              ELSE [got EXCEPT ![e] = IF @ < 2 THEN @ + 1 ELSE 2]
    /\ repeated' = IF outcome = "lost" THEN repeated \cup {e} ELSE repeated

---------------------------------------------------------------------------
(* dispatchEvent and deliver, not awaited by the operation that calls.     *)

Dispatch(e) ==
    /\ attempt[e] = "idle" /\ delivery[e] = NoRow
    /\ attempt' = [attempt EXCEPT ![e] = "finding"]
    /\ UNCHANGED <<endpoint, delivery, retry, got, orphaned, repeated>>

(* Only an endpoint that is active now is a target.                        *)
FindTargets(e) ==
    /\ attempt[e] = "finding"
    /\ attempt' = [attempt EXCEPT ![e] = IF endpoint = "active" THEN "saving" ELSE "idle"]
    /\ UNCHANGED <<endpoint, delivery, retry, got, orphaned, repeated>>

(* The row; the insert breaks the foreign key of a deleted endpoint.       *)
SaveDelivery(e) ==
    /\ attempt[e] = "saving"
    /\ IF endpoint = "deleted"
       THEN /\ attempt' = [attempt EXCEPT ![e] = "idle"]
            /\ UNCHANGED delivery
       ELSE /\ attempt' = [attempt EXCEPT ![e] = "sending"]
            /\ delivery' = [delivery EXCEPT ![e] = [status |-> "pending", retries |-> 0]]
    /\ UNCHANGED <<endpoint, retry, got, orphaned, repeated>>

Send(e, outcome) ==
    /\ attempt[e] = "sending"
    /\ Receive(e, outcome)
    /\ attempt' = [attempt EXCEPT ![e] = IF outcome = "ok" THEN "accepted" ELSE "rejected"]
    /\ UNCHANGED <<endpoint, delivery, retry, orphaned>>

NoteDelivered(e) ==
    /\ attempt[e] = "accepted"
    /\ delivery' = Updated(e, [delivery[e] EXCEPT !.status = "delivered"])
    /\ attempt' = [attempt EXCEPT ![e] = "idle"]
    /\ UNCHANGED <<endpoint, retry, got, orphaned, repeated>>

(* The update fails: the catch of deliver takes it for a failed delivery.  *)
NoteLost(e) ==
    /\ attempt[e] = "accepted"
    /\ attempt' = [attempt EXCEPT ![e] = "rejected"]
    /\ repeated' = repeated \cup {e}
    /\ UNCHANGED <<endpoint, delivery, retry, got, orphaned>>

(* Variant: a failed first attempt leaves the row as it is.                *)
NoteNothing(e) ==
    /\ attempt[e] = "rejected"
    /\ attempt' = [attempt EXCEPT ![e] = "idle"]
    /\ UNCHANGED <<endpoint, delivery, retry, got, orphaned, repeated>>

NoteFailed(e) ==
    /\ attempt[e] = "rejected"
    /\ delivery' = Updated(e, [status |-> "failed", retries |-> 1])
    /\ attempt' = [attempt EXCEPT ![e] = "idle"]
    /\ UNCHANGED <<endpoint, retry, got, orphaned, repeated>>

(* The replica stops, or the update to "failed" fails: nothing takes the   *)
(* event up again.                                                         *)
AttemptStops(e) ==
    /\ attempt[e] # "idle"
    /\ attempt' = [attempt EXCEPT ![e] = "idle"]
    /\ orphaned' = orphaned \cup {e}
    /\ UNCHANGED <<endpoint, delivery, retry, got, repeated>>

---------------------------------------------------------------------------
(* retryFailedDeliveries, every five minutes on every replica.             *)

Failed == {e \in Events : delivery[e].status = "failed"}
InHand(e) == \E r \in Replicas : e \in retry[r].left \cup retry[r].noting

(* Variant: the cron takes every row that is not delivered.                *)
ListUndelivered(r) ==
    /\ retry[r] = Resting
    /\ LET open == {e \in Events : delivery[e].status \in {"pending", "failed"}}
       IN  /\ open # {} /\ endpoint = "active"
           /\ retry' = [retry EXCEPT ![r] = [left |-> open, noting |-> {}]]
           /\ repeated' = repeated \cup {e \in open : InHand(e)}
    /\ UNCHANGED <<endpoint, delivery, attempt, got, orphaned>>

(* Variant: a row is retried only if it was never counted.                 *)
ListUncounted(r) ==
    /\ retry[r] = Resting
    /\ LET due == {e \in Failed : delivery[e].retries = 0}
       IN  /\ due # {} /\ endpoint = "active"
           /\ retry' = [retry EXCEPT ![r] = [left |-> due, noting |-> {}]]
           /\ repeated' = repeated \cup {e \in due : InHand(e)}
    /\ UNCHANGED <<endpoint, delivery, attempt, got, orphaned>>

(* A page of failed rows with the endpoint as it is now; those of an       *)
(* endpoint that is not active, or tried MAX_RETRIES times, are skipped.   *)
ListFailed(r) ==
    /\ retry[r] = Resting
    /\ \E page \in SUBSET Failed :
          LET due == {e \in page : delivery[e].retries < MaxRetries}
          IN  /\ Cardinality(page) <= Page
              /\ Cardinality(page) = Page \/ page = Failed
              /\ due # {} /\ endpoint = "active"
              /\ retry' = [retry EXCEPT ![r] = [left |-> due, noting |-> {}]]
              /\ repeated' = repeated \cup {e \in due : InHand(e)}
    /\ UNCHANGED <<endpoint, delivery, attempt, got, orphaned>>

(* Variant: the failure is written to the row.                             *)
ResendNoting(r, e, outcome) ==
    /\ retry[r].noting = {} /\ e \in retry[r].left
    /\ Receive(e, outcome)
    /\ delivery' = IF outcome = "ok" THEN delivery
                   ELSE Updated(e, [status |-> "failed", retries |-> 1])
    /\ retry' = [retry EXCEPT ![r] =
         [left |-> @.left \ {e}, noting |-> IF outcome = "ok" THEN {e} ELSE {}]]
    /\ UNCHANGED <<endpoint, attempt, orphaned>>

(* send; a failure is swallowed and not counted.                           *)
Resend(r, e, outcome) ==
    /\ retry[r].noting = {} /\ e \in retry[r].left
    /\ Receive(e, outcome)
    /\ retry' = [retry EXCEPT ![r] =
         [left |-> @.left \ {e}, noting |-> IF outcome = "ok" THEN {e} ELSE {}]]
    /\ UNCHANGED <<endpoint, delivery, attempt, orphaned>>

NoteRetried(r, e) ==
    /\ e \in retry[r].noting
    /\ delivery' = Updated(e, [delivery[e] EXCEPT !.status = "delivered"])
    /\ retry' = [retry EXCEPT ![r].noting = {}]
    /\ UNCHANGED <<endpoint, attempt, got, orphaned, repeated>>

(* The replica stops; or only the update to "delivered" fails, which is    *)
(* swallowed, and the tick goes on.                                        *)
RetryStops(r) ==
    /\ retry[r] # Resting
    /\ \E left \in {{}} \cup (IF retry[r].noting = {} THEN {} ELSE {retry[r].left}) :
          retry' = [retry EXCEPT ![r] = [left |-> left, noting |-> {}]]
    /\ repeated' = repeated \cup retry[r].noting
    /\ UNCHANGED <<endpoint, delivery, attempt, got, orphaned>>

---------------------------------------------------------------------------
(* The developer: updateEndpoint and deleteEndpoint, whose rows cascade.   *)
SetActive(active) ==
    /\ endpoint # "deleted"
    /\ endpoint' = IF active THEN "active" ELSE "inactive"
    /\ UNCHANGED <<delivery, attempt, retry, got, orphaned, repeated>>

DeleteEndpoint ==
    /\ endpoint # "deleted"
    /\ endpoint' = "deleted"
    /\ delivery' = [e \in Events |->
         IF delivery[e] = NoRow THEN NoRow ELSE [status |-> "removed", retries |-> 0]]
    /\ UNCHANGED <<attempt, retry, got, orphaned, repeated>>

---------------------------------------------------------------------------
TypeOK ==
    /\ endpoint \in {"active", "inactive", "deleted"}
    /\ delivery \in [Events -> Row]
    /\ attempt \in [Events -> {"idle", "finding", "saving", "sending", "accepted", "rejected"}]
    /\ retry \in [Replicas -> Ticks]
    /\ got \in [Events -> 0..2]
    /\ orphaned \subseteq Events /\ repeated \subseteq Events

(* A row says delivered only of an event the receiver processed, and a row *)
(* that nobody works on and the cron does not list (pending) is left only  *)
(* by a dispatch that stopped half way.                                    *)
EventKept ==
    \A e \in Events :
        /\ delivery[e].status = "delivered" => got[e] > 0
        /\ delivery[e].status = "pending" /\ attempt[e] = "idle" => e \in orphaned

(* The receiver gets an event twice only after an answer, or the update    *)
(* that notes it, was lost, or when two ticks of the cron had it in hand.  *)
RepeatedForAReason == \A e \in Events : got[e] > 1 => e \in repeated
==============================================================================
