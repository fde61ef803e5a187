--------------------------- MODULE ScheduledPosts ---------------------------
(***************************************************************************)
(* One scheduled post: create, update, cancel and the publishing cron of   *)
(* server/src/scheduled-posts/scheduled-posts.service.ts.  Every replica   *)
(* runs the cron; nothing claims a row.  The author's edit is a load and a *)
(* save of the whole row, as is the publisher's.                           *)
(*                                                                         *)
(* Composed by Background, which gives Publish the post it creates.        *)
(***************************************************************************)
EXTENDS Integers

CONSTANTS Replicas      \* server replicas: each runs the publishing cron

VARIABLES
    row,          \* the row, or NoRow
    publisher,    \* publisher[w]: the tick of the cron on replica w
    edit,         \* the row an edit under way has loaded
    excused       \* history: something happened that can publish the row twice

vars == <<row, publisher, edit, excused>>

NoRow == [status |-> "none", due |-> FALSE]
Cancelled == [status |-> "cancelled", due |-> FALSE]
Rows == [status : {"scheduled", "published", "failed"}, due : BOOLEAN]

Idle == [step |-> "idle"]

(* posts.create: ok; fails before the post is saved; or fails after, in    *)
(* one of the awaits that follow the save.                                 *)
Outcomes == {"ok", "refused", "half"}

Init ==
    /\ row = NoRow
    /\ publisher = [w \in Replicas |-> Idle]
    /\ edit = NoRow
    /\ excused = FALSE

Held == {w \in Replicas : publisher[w] # Idle}

(* repository.save of a whole row: written as it was loaded and changed,   *)
(* and inserted again if it was removed meanwhile.                         *)
SaveRow(copy) == row' = copy

---------------------------------------------------------------------------
Schedule ==
    /\ row = NoRow
    /\ row' = [status |-> "scheduled", due |-> FALSE]
    /\ UNCHANGED <<publisher, edit, excused>>

(* The time scheduledFor passes.                                           *)
ComesDue ==
    /\ row.status = "scheduled" /\ ~row.due
    /\ row' = [row EXCEPT !.due = TRUE]
    /\ UNCHANGED <<publisher, edit, excused>>

(* Variant: nobody asks whether the row is still there.                    *)
EditLoadAny ==
    /\ row # NoRow /\ edit = NoRow
    /\ edit' = row
    /\ UNCHANGED <<row, publisher, excused>>

EditLoad ==
    /\ row \in Rows /\ edit = NoRow
    /\ edit' = row
    /\ UNCHANGED <<row, publisher, excused>>

(* The edit keeps the time or moves it into the future.                    *)
EditSave(later) ==
    /\ edit # NoRow
    /\ SaveRow([edit EXCEPT !.due = @ /\ ~later])
    /\ excused' = (excused \/ edit # row)
    /\ edit' = NoRow
    /\ UNCHANGED publisher

Cancel ==
    /\ row \in Rows
    /\ row' = Cancelled
    /\ UNCHANGED <<publisher, edit, excused>>

---------------------------------------------------------------------------
(* publishDue.                                                             *)

(* Variant: the status is not asked for.                                   *)
ListAnyDue(w) ==
    /\ publisher[w] = Idle
    /\ row.due
    /\ publisher' = [publisher EXCEPT ![w] = [step |-> "create", copy |-> row]]
    /\ excused' = (excused \/ Held # {})
    /\ UNCHANGED <<row, edit>>

ListDue(w) ==
    /\ publisher[w] = Idle
    /\ row.status = "scheduled" /\ row.due
    /\ publisher' = [publisher EXCEPT ![w] = [step |-> "create", copy |-> row]]
    /\ excused' = (excused \/ Held # {})
    /\ UNCHANGED <<row, edit>>

(* posts.create, of the row as it was listed.                              *)
Publish(w, outcome) ==
    /\ publisher[w].step = "create"
    /\ publisher' = [publisher EXCEPT ![w] =
         [step |-> "save",
          copy |-> [@.copy EXCEPT !.status = IF outcome = "ok" THEN "published" ELSE "failed"]]]
    /\ UNCHANGED <<row, edit, excused>>

(* Variant: the outcome is not saved.                                      *)
SaveNothing(w) ==
    /\ publisher[w].step = "save"
    /\ publisher' = [publisher EXCEPT ![w] = Idle]
    /\ UNCHANGED <<row, edit, excused>>

SaveOutcome(w) ==
    /\ publisher[w].step = "save"
    /\ SaveRow(publisher[w].copy)
    /\ publisher' = [publisher EXCEPT ![w] = Idle]
    /\ UNCHANGED <<edit, excused>>

(* The replica stops, or the save fails.                                   *)
PublisherStops(w) ==
    /\ publisher[w] # Idle
    /\ publisher' = [publisher EXCEPT ![w] = Idle]
    /\ excused' = (excused \/ publisher[w].step = "save")
    /\ UNCHANGED <<row, edit>>

---------------------------------------------------------------------------
TypeOK ==
    /\ row \in Rows \cup {NoRow, Cancelled}
    /\ publisher \in [Replicas -> [step : {"create", "save"}, copy : Rows] \cup {Idle}]
    /\ edit \in Rows \cup {NoRow}
    /\ excused \in BOOLEAN
==============================================================================
