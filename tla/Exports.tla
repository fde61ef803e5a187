------------------------------ MODULE Exports -------------------------------
(***************************************************************************)
(* The scheduled data export of one user: create, updateSchedule and the   *)
(* crons runScheduledExports and pruneExpiredArchives of                   *)
(* server/src/data-export/data-export.service.ts, on several replicas that *)
(* share the database and not the disk.  The first archive is followed to  *)
(* the end of its retention; an export by hand makes one the same way.     *)
(*                                                                         *)
(* Composed by Background.                                                 *)
(***************************************************************************)
EXTENDS Integers

CONSTANTS Replicas      \* server replicas: each runs both crons

VARIABLES
    schedule,     \* the row of export_schedule, or NoSchedule
    banned,       \* users.banned
    tick,         \* tick[w]: runScheduledExports on replica w
    archive,      \* the row of the first export
    files,        \* replicas on whose disk the archive is
    prune,        \* prune[w]: pruneExpiredArchives on replica w
    made,         \* history: exports begun since the schedule last came due (2: or more)
    excused,      \* history: two ticks, or a tick that stopped, had the due schedule in hand
    off           \* history: switched off while no tick held the schedule, and not on again

vars == <<schedule, banned, tick, archive, files, prune, made, excused, off>>

NoSchedule == [enabled |-> FALSE, due |-> FALSE, new |-> TRUE]
Schedules == [enabled : BOOLEAN, due : BOOLEAN, new : {FALSE}]
Armed == [enabled |-> TRUE, due |-> FALSE, new |-> FALSE]
Disarmed == [enabled |-> FALSE, due |-> FALSE, new |-> FALSE]

(* The row of an archive: expired is completed without its url.            *)
NoArchive == [status |-> "none", old |-> FALSE]
Archives == [status : {"none", "pending", "completed", "failed", "expired"}, old : BOOLEAN]

(* What a tick does next; the steps of an export are those of the first.   *)
Exporting == {"write", "complete", "tidy", "fail", "unlink"}
Steps == {"idle", "disable", "insert", "later", "save"} \cup Exporting

Init ==
    /\ schedule = NoSchedule /\ banned = FALSE
    /\ tick = [w \in Replicas |-> "idle"]
    /\ archive = NoArchive /\ files = {}
    /\ prune = [w \in Replicas |-> "idle"]
    /\ made = 0 /\ excused = FALSE /\ off = FALSE

At(w, step) == tick[w] = step
Go(w, step) == tick' = [tick EXCEPT ![w] = step]
Holding == {w \in Replicas : tick[w] # "idle"}
schedules == <<schedule, banned, off>>
archives == <<archive, files>>
counted == <<made, excused>>

---------------------------------------------------------------------------
(* updateSchedule: the row is armed for one whole interval from now, or    *)
(* disarmed.  A banned user no longer gets through the guard.              *)
UpdateSchedule(enabled) ==
    /\ ~banned
    /\ schedule' = IF enabled THEN Armed ELSE Disarmed
    /\ off' = (~enabled /\ (off \/ Holding = {}))
    /\ UNCHANGED <<banned, tick, archives, prune, counted>>

(* The time nextExportAt passes, by an interval or, after a failure, an    *)
(* hour.                                                                   *)
ComesDue ==
    /\ schedule = Armed
    /\ schedule' = [Armed EXCEPT !.due = TRUE]
    /\ made' = 0 /\ excused' = (Holding # {})
    /\ UNCHANGED <<banned, off, tick, archives, prune>>

Ban ==
    /\ ~banned /\ banned' = TRUE
    /\ UNCHANGED <<schedule, off, tick, archives, prune, counted>>

---------------------------------------------------------------------------
(* runScheduledExports: not twice at once on one replica.                  *)

(* Variant: every schedule is taken up, also one that is off.              *)
ListAll(w) ==
    /\ tick[w] = "idle" /\ schedule # NoSchedule
    /\ Go(w, IF banned THEN "disable" ELSE "insert")
    /\ excused' = (excused \/ Holding # {})
    /\ UNCHANGED <<schedules, archives, prune, made>>

ListDue(w) ==
    /\ tick[w] = "idle"
    /\ schedule.enabled /\ schedule.due
    /\ Go(w, IF banned THEN "disable" ELSE "insert")
    /\ excused' = (excused \/ Holding # {})
    /\ UNCHANGED <<schedules, archives, prune, made>>

Disable(w) ==
    /\ At(w, "disable")
    /\ schedule' = Disarmed
    /\ Go(w, "idle")
    /\ UNCHANGED <<banned, off, archives, prune, counted>>

(* create: the pending row...                                              *)
InsertArchive(w) ==
    /\ At(w, "insert")
    /\ IF archive = NoArchive
       THEN Go(w, "write") /\ archive' = [archive EXCEPT !.status = "pending"]
       ELSE Go(w, "later") /\ UNCHANGED archive
    /\ made' = IF made < 2 THEN made + 1 ELSE 2
    /\ UNCHANGED <<schedules, files, prune, excused>>

(* ... the file on this replica's disk...                                  *)
WriteFile(w) ==
    /\ At(w, "write")
    /\ files' = files \cup {w}
    /\ Go(w, "complete")
    /\ UNCHANGED <<schedules, archive, prune, counted>>

(* ... the row with the file's url...                                      *)
CompleteArchive(w) ==
    /\ At(w, "complete")
    /\ archive' = [archive EXCEPT !.status = "completed"]
    /\ Go(w, "tidy")
    /\ UNCHANGED <<schedules, files, prune, counted>>

(* ... and the staging file away.  A later export ends, well or not.       *)
Tidy(w) ==
    /\ tick[w] \in {"tidy", "later"}
    /\ Go(w, "save")
    /\ UNCHANGED <<schedules, archives, prune, counted>>

(* One of these fails: the row is saved as failed and the files are        *)
(* removed; if the row cannot be saved they stay.                          *)
ExportFails(w) ==
    /\ tick[w] \in {"insert", "write", "complete", "tidy", "fail"}
    /\ Go(w, IF tick[w] \in {"insert", "fail"} THEN "save" ELSE "fail")
    /\ UNCHANGED <<schedules, archives, prune, counted>>

(* Variant: a failed export removes its file first.                        *)
UnlinkFirst(w) ==
    /\ At(w, "fail")
    /\ files' = files \ {w}
    /\ Go(w, "save")
    /\ UNCHANGED <<schedules, archive, prune, counted>>

FailArchive(w) ==
    /\ At(w, "fail")
    /\ archive' = [archive EXCEPT !.status = "failed"]
    /\ Go(w, "unlink")
    /\ UNCHANGED <<schedules, files, prune, counted>>

Unlink(w) ==
    /\ At(w, "unlink")
    /\ files' = files \ {w}
    /\ Go(w, "save")
    /\ UNCHANGED <<schedules, archive, prune, counted>>

(* Variant: the next time is not set.                                      *)
SaveDue(w) ==
    /\ At(w, "save")
    /\ schedule' = [schedule EXCEPT !.enabled = TRUE]
    /\ Go(w, "idle")
    /\ UNCHANGED <<banned, off, archives, prune, counted>>

(* The schedule as it was listed, that is enabled, with its next time.     *)
SaveSchedule(w) ==
    /\ At(w, "save")
    /\ schedule' = Armed
    /\ Go(w, "idle")
    /\ UNCHANGED <<banned, off, archives, prune, counted>>

(* The replica stops, or the save of the schedule throws.                  *)
TickStops(w) ==
    /\ tick[w] # "idle"
    /\ Go(w, "idle")
    /\ excused' = TRUE
    /\ UNCHANGED <<schedules, archives, prune, made>>

---------------------------------------------------------------------------
(* pruneExpiredArchives, daily on every replica.                           *)

(* Retention passes, long after the export has ended.                      *)
GrowsOld ==
    /\ archive.status # "none" /\ ~archive.old
    /\ \A w \in Replicas : tick[w] \notin Exporting
    /\ archive' = [archive EXCEPT !.old = TRUE]
    /\ UNCHANGED <<schedules, tick, files, prune, counted>>

Expired == archive.status = "completed" /\ archive.old

(* Variant: a file that is pruned, or swept, without a look at its age.    *)
PruneAny(w) ==
    /\ prune[w] = "idle"
    /\ w \in files
    /\ prune' = [prune EXCEPT ![w] = "sweep"]
    /\ UNCHANGED <<schedules, tick, archives, counted>>

PruneList(w) ==
    /\ prune[w] = "idle"
    /\ archive.old /\ (Expired \/ w \in files)
    /\ prune' = [prune EXCEPT ![w] = IF Expired THEN "unlink" ELSE "sweep"]
    /\ UNCHANGED <<schedules, tick, archives, counted>>

PruneUnlink(w) ==
    /\ prune[w] = "unlink"
    /\ files' = files \ {w}
    /\ prune' = [prune EXCEPT ![w] = "save"]
    /\ UNCHANGED <<schedules, tick, archive, counted>>

(* Variant: the row keeps its url.                                         *)
PruneSaveNothing(w) ==
    /\ prune[w] = "save"
    /\ prune' = [prune EXCEPT ![w] = "sweep"]
    /\ UNCHANGED <<schedules, tick, archives, counted>>

PruneSave(w) ==
    /\ prune[w] = "save"
    /\ archive' = [archive EXCEPT !.status = "expired"]
    /\ prune' = [prune EXCEPT ![w] = "sweep"]
    /\ UNCHANGED <<schedules, tick, files, counted>>

(* What is left of old files on this disk, whatever their rows say.        *)
PruneSweep(w) ==
    /\ prune[w] = "sweep"
    /\ files' = files \ {w}
    /\ prune' = [prune EXCEPT ![w] = "idle"]
    /\ UNCHANGED <<schedules, tick, archive, counted>>

PruneStops(w) ==
    /\ prune[w] # "idle"
    /\ prune' = [prune EXCEPT ![w] = "idle"]
    /\ UNCHANGED <<schedules, tick, archives, counted>>

---------------------------------------------------------------------------
TypeOK ==
    /\ schedule \in Schedules \cup {NoSchedule} /\ banned \in BOOLEAN
    /\ tick \in [Replicas -> Steps]
    /\ archive \in Archives /\ files \subseteq Replicas
    /\ prune \in [Replicas -> {"idle", "unlink", "save", "sweep"}]
    /\ made \in 0..2 /\ excused \in BOOLEAN /\ off \in BOOLEAN

(* A schedule that comes due is exported once, unless two ticks had it in  *)
(* hand or one stopped.                                                    *)
ExportedOnce == made > 1 => excused

(* An archive whose row offers it is on a disk until its retention ends.   *)
OfferedIsThere ==
    archive.status = "completed" /\ ~archive.old => files # {}

(* A schedule its user switches off while no tick holds it stays off.      *)
OffStaysOff == off => ~schedule.enabled

(* An archive whose retention is over and that is not yet gone.            *)
OldIsLeft == archive.old /\ (archive.status = "completed" \/ files # {})
==============================================================================
