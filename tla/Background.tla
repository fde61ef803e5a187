----------------------------- MODULE Background -----------------------------
(***************************************************************************)
(* What is done for a user while nobody waits for it.  ScheduledPosts and  *)
(* OfflineQueue call posts.create of server/src/posts/posts.service.ts,    *)
(* which raises post.created, which Webhooks delivers; Exports makes       *)
(* archives on a schedule, and Erasure removes an account after its thirty *)
(* days.  A behaviour is about one of the four origins, which share the    *)
(* replicas and posts.create and nothing else.                             *)
(***************************************************************************)
EXTENDS Integers, FiniteSets

CONSTANTS
    Replicas, Syncs, Events, MaxRetries, Page, MaxAttempts,
    MaxFaults,    \* bound of the model: failures, of any component
    MaxChanges    \* bound of the model: edits by author, developer and others

ASSUME EventsAssumption == Events = 1..Cardinality(Events)
ASSUME RetryAssumption == MaxRetries \in Nat \ {0} /\ Page \in Nat \ {0}
ASSUME AttemptsAssumption == MaxAttempts \in Nat \ {0}
ASSUME BoundsAssumption == MaxFaults \in Nat /\ MaxChanges \in Nat

VARIABLES
    origin,       \* what the behaviour is about
    posts,        \* posts created for the one row or operation (2: or more)
    faults,       \* failures so far
    changes,      \* edits so far
    row, publisher, edit, republishable,
    op, sync, reexecutable,
    endpoint, delivery, attempt, retry, got, orphaned, repeated,
    schedule, banned, tick, archive, files, prune, made, reexportable, off,
    request, asking, locked, left, referenced, eraser, twice, late

scheduled == <<row, publisher, edit, republishable>>
queued == <<op, sync, reexecutable>>
hooks == <<endpoint, delivery, attempt, retry, got, orphaned, repeated>>
exports == <<schedule, banned, tick, archive, files, prune, made, reexportable, off>>
erasure == <<request, asking, locked, left, referenced, eraser, twice, late>>
bounds == <<faults, changes>>
vars == <<origin, posts, bounds, scheduled, queued, hooks, exports, erasure>>

S == INSTANCE ScheduledPosts WITH excused <- republishable
Q == INSTANCE OfflineQueue WITH excused <- reexecutable, MaxCount <- MaxFaults
W == INSTANCE Webhooks
X == INSTANCE Exports WITH excused <- reexportable
E == INSTANCE Erasure

Origins == {"schedule", "offline", "export", "deletion"}

Init ==
    /\ origin \in Origins
    /\ posts = 0
    /\ faults = 0 /\ changes = 0
    /\ S!Init /\ Q!Init /\ W!Init /\ X!Init /\ E!Init
    /\ referenced => origin = "deletion"

Change == changes < MaxChanges /\ changes' = changes + 1 /\ UNCHANGED faults
Fault == faults < MaxFaults /\ faults' = faults + 1 /\ UNCHANGED changes
CostOf(outcome) == IF outcome = "ok" THEN UNCHANGED bounds ELSE Fault

---------------------------------------------------------------------------
(* posts.create: saves the post, does the rest, and then raises            *)
(* post.created without waiting.  "half" fails between the save and the    *)
(* event; the first posts are followed further than later ones.            *)
CreatePost(outcome) ==
    LET created == outcome \in {"ok", "lost", "half"}
        number == posts + 1
    IN  /\ posts' = IF created /\ posts < 2 THEN number ELSE posts
        /\ IF outcome \in {"ok", "lost"} /\ posts < 2 /\ number \in Events
           THEN W!Dispatch(number)
           ELSE UNCHANGED hooks

---------------------------------------------------------------------------
Author ==
    /\ origin = "schedule"
    /\ \/ S!Schedule /\ UNCHANGED bounds
       \/ S!EditLoad /\ Change
       \/ \E later \in BOOLEAN : S!EditSave(later) /\ UNCHANGED bounds
       \/ S!Cancel /\ UNCHANGED bounds
    /\ UNCHANGED <<origin, posts, queued, hooks, exports, erasure>>

TimePasses ==
    /\ S!ComesDue
    /\ UNCHANGED <<origin, posts, bounds, queued, hooks, exports, erasure>>

(* A tick of publishDue on replica w.                                      *)
PublishDue(w) ==
    /\ origin = "schedule"
    /\ \/ /\ S!ListDue(w) \/ S!SaveOutcome(w)
          /\ UNCHANGED <<posts, bounds, hooks>>
       \/ \E outcome \in S!Outcomes :
             S!Publish(w, outcome) /\ CreatePost(outcome) /\ CostOf(outcome)
       \/ S!PublisherStops(w) /\ Fault /\ UNCHANGED <<posts, hooks>>
    /\ UNCHANGED <<origin, queued, exports, erasure>>

(* The post is written offline, or its POST fails while the connection     *)
(* goes, before or after the server has created it.                        *)
WritePost ==
    /\ origin = "offline"
    /\ \/ Q!Enqueue(FALSE) /\ UNCHANGED <<posts, bounds, hooks>>
       \/ \E outcome \in {"lost", "half"} :
             Q!Enqueue(TRUE) /\ CreatePost(outcome) /\ Fault
    /\ UNCHANGED <<origin, scheduled, exports, erasure>>

SyncPending(s) ==
    /\ origin = "offline"
    /\ \/ /\ Q!ListPending(s) \/ Q!Clear(s) \/ Q!Count(s)
          /\ UNCHANGED <<posts, bounds, hooks>>
       \/ \E outcome \in {"ok", "refused", "lost", "half"} :
             Q!Execute(s, outcome) /\ CreatePost(outcome) /\ CostOf(outcome)
       \/ Q!TabCloses(s) /\ Fault /\ UNCHANGED <<posts, hooks>>
    /\ UNCHANGED <<origin, scheduled, exports, erasure>>

(* The dispatch of event e.                                                *)
DispatchEvent(e) ==
    /\ posts > 0
    /\ \/ /\ W!FindTargets(e) \/ W!SaveDelivery(e) \/ W!NoteDelivered(e) \/ W!NoteFailed(e)
          /\ UNCHANGED bounds
       \/ \E outcome \in W!Outcomes : W!Send(e, outcome) /\ CostOf(outcome)
       \/ (W!NoteLost(e) \/ W!AttemptStops(e)) /\ Fault
    /\ UNCHANGED <<origin, posts, scheduled, queued, exports, erasure>>

(* A tick of retryFailedDeliveries on replica r.                           *)
RetryFailed(r) ==
    /\ posts > 0
    /\ \/ W!ListFailed(r) /\ UNCHANGED bounds
       \/ \E e \in Events : W!NoteRetried(r, e) /\ UNCHANGED bounds
       \/ \E e \in Events, outcome \in W!Outcomes : W!Resend(r, e, outcome) /\ CostOf(outcome)
       \/ W!RetryStops(r) /\ Fault
    /\ UNCHANGED <<origin, posts, scheduled, queued, exports, erasure>>

Developer ==
    /\ \/ \E active \in BOOLEAN : W!SetActive(active)
       \/ W!DeleteEndpoint
    /\ Change
    /\ UNCHANGED <<origin, posts, scheduled, queued, exports, erasure>>

---------------------------------------------------------------------------
(* The crons of data-export.service.ts, and who and what sets them off.    *)
RunScheduledExports(w) ==
    /\ origin = "export"
    /\ \/ /\ \/ X!ListDue(w) \/ X!Disable(w) \/ X!SaveSchedule(w)
             \/ X!InsertArchive(w) \/ X!WriteFile(w) \/ X!CompleteArchive(w)
             \/ X!Tidy(w) \/ X!FailArchive(w) \/ X!Unlink(w)
          /\ UNCHANGED bounds
       \/ /\ X!ExportFails(w) \/ X!TickStops(w)
          /\ Fault
    /\ UNCHANGED <<origin, posts, scheduled, queued, hooks, erasure>>

PruneExpiredArchives(w) ==
    /\ origin = "export"
    /\ \/ /\ X!PruneList(w) \/ X!PruneUnlink(w) \/ X!PruneSave(w) \/ X!PruneSweep(w)
          /\ UNCHANGED bounds
       \/ X!PruneStops(w) /\ Fault
    /\ UNCHANGED <<origin, posts, scheduled, queued, hooks, erasure>>

(* The first time the schedule is set is free.                             *)
Exporter ==
    /\ origin = "export"
    /\ \/ \E enabled \in BOOLEAN :
             X!UpdateSchedule(enabled)
             /\ IF schedule = X!NoSchedule THEN UNCHANGED bounds ELSE Change
       \/ X!Ban /\ Change
       \/ (X!ComesDue \/ X!GrowsOld) /\ UNCHANGED bounds
    /\ UNCHANGED <<origin, posts, scheduled, queued, hooks, erasure>>

InitiateDeletion ==
    /\ origin = "deletion"
    /\ \/ (E!Ask \/ E!Lock) /\ UNCHANGED bounds
       \/ E!AskStops /\ Fault
    /\ UNCHANGED <<origin, posts, scheduled, queued, hooks, exports>>

ProcessScheduledDeletions(w) ==
    /\ origin = "deletion"
    /\ \/ /\ \/ E!ListDue(w) \/ E!Strip(w) \/ E!RemovePosts(w)
             \/ E!Rename(w) \/ E!NoteOutcome(w)
          /\ UNCHANGED bounds
       \/ (E!EraseFails(w) \/ E!EraserStops(w)) /\ Fault
    /\ UNCHANGED <<origin, posts, scheduled, queued, hooks, exports>>

Others ==
    /\ origin = "deletion"
    /\ \/ E!ComesDue /\ UNCHANGED bounds
       \/ \E there \in BOOLEAN : E!Comment(there) /\ Change
       \/ E!PublishLate /\ Change
    /\ UNCHANGED <<origin, posts, scheduled, queued, hooks, exports>>

Next ==
    \/ Author \/ TimePasses
    \/ \E w \in Replicas : PublishDue(w) \/ RetryFailed(w)
    \/ WritePost
    \/ \E s \in Syncs : SyncPending(s)
    \/ \E e \in Events : DispatchEvent(e)
    \/ Developer
    \/ \E w \in Replicas : RunScheduledExports(w) \/ PruneExpiredArchives(w)
    \/ Exporter \/ InitiateDeletion \/ Others
    \/ \E w \in Replicas : ProcessScheduledDeletions(w)

Spec == Init /\ [][Next]_vars

(* Each cron is fair: of a Cron and of a Sweep, only one is ever enabled,  *)
(* that of the behaviour's origin.                                         *)
Cron(w) == PublishDue(w) \/ RunScheduledExports(w) \/ ProcessScheduledDeletions(w)
Sweep(w) == RetryFailed(w) \/ PruneExpiredArchives(w)

(* The crons tick, a dispatch under way goes on, and the author comes back *)
(* to the app with a connection.                                           *)
Fairness ==
    /\ \A w \in Replicas : WF_vars(Cron(w)) /\ WF_vars(Sweep(w))
    /\ \A s \in Syncs : WF_vars(SyncPending(s))
    /\ \A e \in Events : WF_vars(DispatchEvent(e))

FairSpec == Spec /\ Fairness
---------------------------------------------------------------------------
TypeOK ==
    /\ origin \in Origins
    /\ posts \in 0..2
    /\ faults \in 0..MaxFaults /\ changes \in 0..MaxChanges
    /\ S!TypeOK /\ Q!TypeOK /\ W!TypeOK /\ X!TypeOK /\ E!TypeOK

(* One row or one queued operation becomes two posts only if a tick or a   *)
(* sync overlapped another, stopped between the post and noting it, an     *)
(* answer was lost, posts.create failed after its save, or an edit wrote a *)
(* row back that the publisher had saved meanwhile.                        *)
OnePostUnlessExcused == posts > 1 => republishable \/ reexecutable

(* What has left the hands of the code is there: a row says published, and *)
(* an operation is cleared from the queue, only once a post exists.        *)
NothingLost == row.status = "published" \/ op = Q!Cleared => posts > 0

(* A post reaches the feed once, not never, and not twice without a reason; *)
(* and a schedule that comes due is exported once, unless two ticks, or    *)
(* one that stopped, had it in hand.                                       *)
DoneOnce == OnePostUnlessExcused /\ NothingLost /\ X!ExportedOnce

(* What a row says is so.  A webhook row says delivered only of an event   *)
(* the receiver processed, stays pending, where no cron looks, only if its *)
(* dispatch stopped, and is sent again, once processed, only for one of    *)
(* the reasons named there.  An archive that is offered is on a disk, and  *)
(* a deletion noted as completed has removed the user.                     *)
NotesAreTrue ==
    /\ W!EventKept /\ W!RepeatedForAReason
    /\ X!OfferedIsThere
    /\ E!CompletedIsErased

Gone == row = S!Cancelled /\ S!Held = {} /\ edit = S!NoRow

(* What is over stays over: a scheduled post that is cancelled, and of     *)
(* which neither the cron nor an edit holds a copy, is never taken up or   *)
(* posted again, a delivery noted as delivered is not taken up as failed,  *)
(* a deletion that has ended is not begun again, and a schedule switched   *)
(* off while no tick holds it stays off.                                   *)
NothingReturns ==
    /\ [][/\ Gone => Gone' /\ posts' = posts
          /\ \A e \in Events : delivery[e].status = "delivered"
               => delivery'[e].status \in {"delivered", "removed"}
          /\ E!EndedStays]_vars
    /\ []X!OffStaysOff

(* What waits for a cron or the author's return; in any behaviour only one *)
(* of these can wait: a post that is due, an operation in the queue (also  *)
(* one marked as failed after the last attempt), an export, a deletion.    *)
Due ==
    \/ row.status = "scheduled" /\ row.due
    \/ op \in Q!Ops
    \/ schedule.due
    \/ E!ErasureIsDue

(* A delivery that failed, to an endpoint that is active.                  *)
Undelivered(e) == delivery[e].status = "failed" /\ endpoint = "active"

(* What waits for a tick does not wait for ever: what is due is taken up,  *)
(* an event reaches a receiver whose endpoint stays active, and an archive *)
(* whose retention is over is removed.                                     *)
WaitingEnds ==
    /\ Due ~> ~Due
    /\ \A e \in Events : Undelivered(e) ~> ~Undelivered(e)
    /\ X!OldIsLeft ~> ~X!OldIsLeft
==============================================================================
