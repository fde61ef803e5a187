---------------------------- MODULE OfflineQueue ----------------------------
(***************************************************************************)
(* One post written on a client without a connection: the queue of         *)
(* client/src/lib/offlineSync.ts in IndexedDB and createPost of            *)
(* client/src/lib/api.ts, which fills it.  Every open tab syncs on start,  *)
(* on "online" and on becoming visible; nothing keeps two syncs apart.     *)
(*                                                                         *)
(* Composed by Background, which gives Execute the post it creates.        *)
(***************************************************************************)
EXTENDS Integers

CONSTANTS
    Syncs,        \* syncs that may run at once, in one tab or in several
    MaxAttempts,  \* maxAttempts of syncPendingOfflineOperations
    MaxCount      \* bound of the model: attempts that fail

VARIABLES
    op,           \* the queued operation, or NoOp
    sync,         \* sync[s]: how far sync s is
    excused       \* history: something happened that can execute it twice

vars == <<op, sync, excused>>

NoOp == [status |-> "none", attempts |-> 0]
Cleared == [status |-> "cleared", attempts |-> 0]
Ops == [status : {"queued", "failed"}, attempts : 0..MaxCount]

Idle == [step |-> "idle"]

Init ==
    /\ op = NoOp
    /\ sync = [s \in Syncs |-> Idle]
    /\ excused = FALSE

InFlight == {s \in Syncs : sync[s] # Idle}

---------------------------------------------------------------------------
(* createPost without a connection, or after a POST that failed while the  *)
(* connection went: `processed` says the server had created the post.      *)
Enqueue(processed) ==
    /\ op = NoOp
    /\ op' = [status |-> "queued", attempts |-> 0]
    /\ excused' = (excused \/ processed)
    /\ UNCHANGED sync

(* Variant: the attempt is counted when it is listed as well.              *)
ListPendingCounted(s) ==
    /\ sync[s] = Idle
    /\ op \in Ops
    /\ sync' = [sync EXCEPT ![s] = [step |-> "execute", attempts |-> op.attempts + 1]]
    /\ excused' = (excused \/ InFlight # {})
    /\ UNCHANGED op

(* Variant: an operation that failed for good is not listed again.         *)
ListQueued(s) ==
    /\ sync[s] = Idle
    /\ op \in Ops /\ op.status = "queued"
    /\ sync' = [sync EXCEPT ![s] = [step |-> "execute", attempts |-> op.attempts]]
    /\ excused' = (excused \/ InFlight # {})
    /\ UNCHANGED op

(* getPendingOfflineOperations: whatever is not synced, the operations     *)
(* that failed for good included.                                          *)
ListPending(s) ==
    /\ sync[s] = Idle
    /\ op \in Ops
    /\ sync' = [sync EXCEPT ![s] = [step |-> "execute", attempts |-> op.attempts]]
    /\ excused' = (excused \/ InFlight # {})
    /\ UNCHANGED op

(* Variant: the operation is cleared before it is executed.                *)
ExecuteCleared(s, outcome) ==
    /\ sync[s].step = "execute"
    /\ op' = Cleared
    /\ sync' = [sync EXCEPT ![s].step = IF outcome = "ok" THEN "clear" ELSE "count"]
    /\ excused' = (excused \/ outcome \in {"lost", "half"})

(* executeQueuedOperation: ok; refused, by the server or on the way, with  *)
(* nothing created; created with the answer lost; created with a 500.      *)
Execute(s, outcome) ==
    /\ sync[s].step = "execute"
    /\ sync' = [sync EXCEPT ![s].step = IF outcome = "ok" THEN "clear" ELSE "count"]
    /\ excused' = (excused \/ outcome \in {"lost", "half"})
    /\ UNCHANGED op

(* clearOfflineOperation.                                                  *)
Clear(s) ==
    /\ sync[s].step = "clear"
    /\ op' = Cleared
    /\ sync' = [sync EXCEPT ![s] = Idle]
    /\ UNCHANGED excused

(* The attempts of the copy that was listed, plus one; an operation that   *)
(* is gone stays gone.                                                     *)
Count(s) ==
    LET attempts == sync[s].attempts + 1
    IN  /\ sync[s].step = "count"
        /\ op' = IF op \notin Ops THEN op
                 ELSE [status |-> IF attempts >= MaxAttempts THEN "failed" ELSE "queued",
                       attempts |-> attempts]
        /\ sync' = [sync EXCEPT ![s] = Idle]
        /\ UNCHANGED excused

(* The tab is closed.                                                      *)
TabCloses(s) ==
    /\ sync[s] # Idle
    /\ sync' = [sync EXCEPT ![s] = Idle]
    /\ excused' = (excused \/ sync[s].step = "clear")
    /\ UNCHANGED op

---------------------------------------------------------------------------
TypeOK ==
    /\ op \in Ops \cup {NoOp, Cleared}
    /\ sync \in [Syncs -> [step : {"execute", "clear", "count"},
                           attempts : 0..MaxCount] \cup {Idle}]
    /\ excused \in BOOLEAN
==============================================================================
