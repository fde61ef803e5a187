-------------------------- MODULE BackgroundProofs --------------------------
(* Proofs about what is done while nobody waits, for every number of     *)
(* replicas, syncs, events and faults: its types, that it is done once,  *)
(* that what is noted is true, and that what is over stays over.         *)
EXTENDS Background, TLAPS

(***************************************************************************)
(* Scheduled posts.                                                      *)
(***************************************************************************)

(* A row, the copy of an edit and the copy of a publisher say published  *)
(* only of a post that there is.                                         *)
ScheduleKnows ==
    /\ origin # "schedule" => row = S!NoRow /\ S!Held = {} /\ edit = S!NoRow
    /\ row.status = "published" \/ edit.status = "published" => posts > 0
    /\ \A w \in Replicas : publisher[w].step = "save" =>
         /\ publisher[w].copy.status \in {"published", "failed"}
         /\ publisher[w].copy.status = "published" => posts > 0

(* Unless excused, one tick has the row in hand; until it has created the   *)
(* post, and while the row may still be listed, there is none.           *)
PublishedOnce ==
    origin = "schedule" /\ ~republishable =>
        /\ posts <= 1
        /\ \A w, x \in S!Held : w = x
        /\ \A w \in Replicas : publisher[w].step = "create" => posts = 0
        /\ row.status \in {"none", "scheduled"}
           /\ (\A w \in Replicas : publisher[w].step # "save") => posts = 0

ScheduleInv == S!TypeOK /\ posts \in 0..2 /\ ScheduleKnows /\ PublishedOnce

(***************************************************************************)
(* The offline queue.                                                    *)
(***************************************************************************)

(* Every attempt that is counted has failed.                             *)
QueueKnows ==
    /\ origin # "offline" => op = Q!NoOp /\ Q!InFlight = {}
    /\ op = Q!Cleared => posts > 0
    /\ op.attempts <= faults
    /\ \A s \in Syncs : sync[s] # Q!Idle =>
         /\ sync[s].attempts <= faults
         /\ sync[s].step = "count" => sync[s].attempts < faults
         /\ sync[s].step = "clear" => posts > 0

ExecutedOnce ==
    origin = "offline" /\ ~reexecutable =>
        /\ posts <= 1
        /\ \A s, t \in Q!InFlight : s = t
        /\ \A s \in Syncs : sync[s].step \in {"execute", "count"} => posts = 0
        /\ op # Q!Cleared /\ (\A s \in Syncs : sync[s].step # "clear") => posts = 0

QueueInv == Q!TypeOK /\ QueueKnows /\ ExecutedOnce

NoPosts == origin \notin {"schedule", "offline"} => posts = 0

(***************************************************************************)
(* Webhooks.                                                             *)
(***************************************************************************)

(* A dispatch works on a row of its own, a tick on rows that failed.     *)
RowKnown(e) ==
    /\ attempt[e] \in {"finding", "saving"} => delivery[e] = W!NoRow
    /\ attempt[e] \in {"sending", "accepted", "rejected"} =>
         delivery[e].status \in {"pending", "removed"}
    /\ W!InHand(e) => attempt[e] = "idle" /\ delivery[e].status \notin {"none", "pending"}
    /\ delivery[e].status = "none" => delivery[e] = W!NoRow /\ got[e] = 0
    /\ delivery[e].status = "delivered" \/ attempt[e] = "accepted" => got[e] > 0
    /\ delivery[e].status = "pending" /\ attempt[e] = "idle" => e \in orphaned

TicksKnow ==
    \A r \in Replicas :
        /\ \A d, e \in retry[r].noting : d = e
        /\ retry[r].left \cap retry[r].noting = {}
        /\ \A e \in retry[r].noting : got[e] > 0

(* Of an event that has no reason to be repeated one tick knows, and once   *)
(* it is processed nobody is about to send it.                           *)
SentOnce(e) ==
    e \notin repeated =>
        /\ got[e] <= 1
        /\ \A r, t \in Replicas : e \in retry[r].left \cup retry[r].noting
                                  /\ e \in retry[t].left \cup retry[t].noting => r = t
        /\ got[e] = 1 =>
             /\ attempt[e] \in {"accepted", "idle"}
             /\ \A r \in Replicas : e \notin retry[r].left
             /\ delivery[e].status = "failed" => \E r \in Replicas : e \in retry[r].noting

WebhookInv == W!TypeOK /\ TicksKnow /\ \A e \in Events : RowKnown(e) /\ SentOnce(e)

(***************************************************************************)
(* Exports.                                                              *)
(***************************************************************************)
ExportKnows ==
    /\ archive.status = "none" => ~archive.old
    /\ \A w, x \in Replicas : tick[w] \in X!Exporting /\ tick[x] \in X!Exporting => w = x
    /\ \A w \in Replicas :
         /\ tick[w] \in X!Exporting => archive.status # "none" /\ ~archive.old
         /\ tick[w] \in {"complete", "tidy"} => w \in files
         /\ tick[w] = "unlink" => archive.status = "failed"
         /\ prune[w] # "idle" => archive.old

BegunOnce ==
    ~reexportable =>
        /\ made <= 1
        /\ \A w, x \in X!Holding : w = x
        /\ \A w \in Replicas : tick[w] = "insert" => made = 0
        /\ schedule.due /\ X!Holding = {} => made = 0

OffInv == off => X!Holding = {} /\ ~schedule.enabled

ExportInv == X!TypeOK /\ ExportKnows /\ BegunOnce /\ OffInv /\ X!OfferedIsThere

(***************************************************************************)
(* Erasure.                                                              *)
(***************************************************************************)
EraserKnows ==
    /\ \A w \in Replicas :
         /\ eraser[w] # "idle" => request.due
         /\ eraser[w] \in {"posts", "rename", "complete"} => "activity" \notin left
         /\ eraser[w] \in {"rename", "complete"} => "posts" \notin left \/ late
         /\ eraser[w] = "complete" => "profile" \notin left
    /\ request.status \in {"completed", "failed"} => request.due

ErasedAlone ==
    ~twice => /\ \A w, x \in E!Working : w = x
              /\ E!Working # {} => request.status = "pending"

ErasureInv == E!TypeOK /\ EraserKnows /\ ErasedAlone /\ E!CompletedIsErased

BackgroundInv ==
    /\ origin \in Origins /\ faults \in 0..MaxFaults /\ changes \in 0..MaxChanges
    /\ ScheduleInv /\ QueueInv /\ NoPosts /\ WebhookInv /\ ExportInv /\ ErasureInv
---------------------------------------------------------------------------
(* Scheduled posts.                                                      *)
LEMMA AuthorSteps ==
  ASSUME ScheduleInv, Author \/ TimePasses
  PROVE  ScheduleInv'
<1> USE DEF S!NoRow, S!Rows, S!Cancelled, S!Idle, S!Held
<1>t. S!TypeOK /\ ScheduleKnows /\ PublishedOnce /\ posts \in 0..2
  BY DEF ScheduleInv
<1>p. UNCHANGED <<origin, posts, publisher>>
  BY DEF Author, TimePasses, S!Schedule, S!EditLoad, S!EditSave, S!Cancel, S!ComesDue, scheduled
<1>o. origin = "schedule"
  BY <1>t DEF Author, TimePasses, S!ComesDue, ScheduleKnows
<1>1. CASE S!Schedule \/ S!ComesDue \/ S!EditLoad \/ S!Cancel
  <2>1. S!TypeOK'
    <3>1. row' \in S!Rows \cup {S!NoRow, S!Cancelled} /\ edit' \in S!Rows \cup {S!NoRow}
          /\ republishable' = republishable
      <4>1. CASE S!Schedule
        BY <4>1, <1>t DEF S!Schedule, S!TypeOK
      <4>2. CASE S!ComesDue
        <5>1. row \in S!Rows
          BY <4>2, <1>t DEF S!ComesDue, S!TypeOK
        <5> QED BY <4>2, <1>t, <5>1 DEF S!ComesDue, S!TypeOK
      <4>3. CASE S!EditLoad \/ S!Cancel
        BY <4>3, <1>t DEF S!EditLoad, S!Cancel, S!TypeOK
      <4> QED BY <1>1, <4>1, <4>2, <4>3
    <3> QED BY <1>p, <1>t, <3>1 DEF S!TypeOK
  <2>2. ScheduleKnows'
    BY <1>1, <1>p, <1>o, <1>t DEF S!Schedule, S!ComesDue, S!EditLoad, S!Cancel, S!TypeOK, ScheduleKnows
  <2>3. PublishedOnce'
    BY <1>1, <1>p, <1>o, <1>t DEF S!Schedule, S!ComesDue, S!EditLoad, S!Cancel, S!TypeOK, PublishedOnce
  <2> QED BY <1>p, <1>t, <2>1, <2>2, <2>3 DEF ScheduleInv
<1>2. ASSUME NEW later \in BOOLEAN, S!EditSave(later) PROVE ScheduleInv'
  <2>1. edit \in S!Rows /\ row' = [edit EXCEPT !.due = @ /\ ~later] /\ edit' = S!NoRow
    BY <1>2, <1>t DEF S!EditSave, S!SaveRow, S!TypeOK
  <2>2. row' \in S!Rows /\ row'.status = edit.status
    BY <2>1
  <2>3. S!TypeOK'
    BY <1>2, <1>p, <1>t, <2>1, <2>2 DEF S!EditSave, S!TypeOK
  <2>4. ScheduleKnows'
    BY <1>o, <1>p, <1>t, <2>1, <2>2 DEF ScheduleKnows
  <2>5. PublishedOnce'
    BY <1>2, <1>o, <1>p, <1>t, <2>1, <2>2 DEF PublishedOnce, S!EditSave
  <2> QED BY <1>p, <1>t, <2>3, <2>4, <2>5 DEF ScheduleInv
<1> QED BY <1>1, <1>2 DEF Author, TimePasses

LEMMA PublisherSteps ==
  ASSUME ScheduleInv, NEW w \in Replicas, PublishDue(w)
  PROVE  ScheduleInv'
<1> USE DEF S!NoRow, S!Rows, S!Cancelled, S!Idle, S!Held
<1>t. S!TypeOK /\ ScheduleKnows /\ PublishedOnce /\ posts \in 0..2
  BY DEF ScheduleInv
<1>o. origin = "schedule" /\ origin' = origin
  BY DEF PublishDue
<1>c. publisher \in [Replicas -> [step : {"create", "save"}, copy : S!Rows] \cup {S!Idle}]
  BY <1>t DEF S!TypeOK
<1>1. CASE S!ListDue(w)
  <2> DEFINE t == [step |-> "create", copy |-> row]
  <2>1. /\ UNCHANGED <<row, edit, posts>> /\ row \in S!Rows /\ row.status = "scheduled"
        /\ publisher[w] = S!Idle /\ publisher' = [publisher EXCEPT ![w] = t]
    <3>1. UNCHANGED posts
      BY <1>1 DEF PublishDue, S!ListDue, S!Publish, S!PublisherStops
    <3> QED BY <1>1, <1>t, <3>1 DEF S!ListDue, S!TypeOK
  <2>2. publisher'[w] = t /\ \A x \in Replicas \ {w} : publisher'[x] = publisher[x]
    BY <1>c, <2>1
  <2>3. S!TypeOK'
    BY <1>1, <1>t, <1>c, <2>1 DEF S!TypeOK, S!ListDue
  <2>4. ScheduleKnows'
    BY <1>o, <1>t, <2>1, <2>2 DEF ScheduleKnows
  <2>5. PublishedOnce'
    <3>1. CASE S!Held = {}
      <4>1. \A x \in Replicas : publisher[x].step # "save"
        BY <3>1
      <4> QED BY <1>1, <1>o, <1>t, <2>1, <2>2, <3>1, <4>1 DEF PublishedOnce, S!ListDue
    <3>2. CASE S!Held # {}
      BY <1>1, <3>2 DEF PublishedOnce, S!ListDue
    <3> QED BY <3>1, <3>2
  <2> QED BY <1>t, <2>1, <2>3, <2>4, <2>5 DEF ScheduleInv
<1>2. ASSUME NEW outcome \in S!Outcomes, S!Publish(w, outcome), CreatePost(outcome)
      PROVE  ScheduleInv'
  <2> DEFINE t == [step |-> "save", copy |->
                    [publisher[w].copy EXCEPT !.status = IF outcome = "ok" THEN "published" ELSE "failed"]]
  <2>1. publisher[w].step = "create" /\ publisher[w].copy \in S!Rows
    BY <1>2, <1>c DEF S!Publish
  <2>2. UNCHANGED <<row, edit, republishable>> /\ publisher' = [publisher EXCEPT ![w] = t]
    BY <1>2 DEF S!Publish
  <2>3. /\ t \in [step : {"create", "save"}, copy : S!Rows] /\ t.step = "save"
        /\ t.copy.status = IF outcome = "ok" THEN "published" ELSE "failed"
    BY <2>1
  <2>4. /\ posts' \in 0..2 /\ posts' >= posts /\ (posts = 0 => posts' <= 1)
        /\ (outcome = "ok" => posts' > 0)
    BY <1>2, <1>t DEF CreatePost
  <2> HIDE DEF t
  <2>5. publisher'[w] = t /\ \A x \in Replicas \ {w} : publisher'[x] = publisher[x]
    BY <1>c, <2>2
  <2>6. S!TypeOK'
    BY <1>t, <1>c, <2>2, <2>3 DEF S!TypeOK
  <2>7. ScheduleKnows'
    BY <1>o, <1>t, <2>2, <2>3, <2>4, <2>5 DEF ScheduleKnows
  <2>8. PublishedOnce'
    <3>1. w \in S!Held /\ \A x \in S!Held' : x \in S!Held
      BY <2>1, <2>5
    <3> QED BY <1>o, <1>t, <2>1, <2>2, <2>3, <2>4, <2>5, <3>1 DEF PublishedOnce
  <2> QED BY <2>4, <2>6, <2>7, <2>8 DEF ScheduleInv
<1>3. CASE S!SaveOutcome(w)
  <2>1. publisher[w].step = "save" /\ publisher[w].copy \in S!Rows
    BY <1>3, <1>c DEF S!SaveOutcome
  <2>2. /\ row' = publisher[w].copy /\ UNCHANGED <<edit, republishable, posts>>
        /\ publisher' = [publisher EXCEPT ![w] = S!Idle]
    <3>1. UNCHANGED posts
      BY <2>1 DEF PublishDue, S!Publish, S!PublisherStops
    <3> QED BY <1>3, <3>1 DEF S!SaveOutcome, S!SaveRow
  <2>3. publisher'[w] = S!Idle /\ \A x \in Replicas \ {w} : publisher'[x] = publisher[x]
    BY <1>c, <2>2
  <2>4. S!TypeOK'
    BY <1>t, <1>c, <2>1, <2>2 DEF S!TypeOK
  <2>5. ScheduleKnows'
    BY <1>o, <1>t, <2>1, <2>2, <2>3 DEF ScheduleKnows
  <2>6. PublishedOnce'
    BY <1>o, <1>t, <2>1, <2>2, <2>3 DEF PublishedOnce, ScheduleKnows
  <2> QED BY <1>t, <2>2, <2>4, <2>5, <2>6 DEF ScheduleInv
<1>4. CASE S!PublisherStops(w) /\ UNCHANGED posts
  <2>1. /\ UNCHANGED <<row, edit, posts>> /\ publisher[w] # S!Idle
        /\ publisher' = [publisher EXCEPT ![w] = S!Idle]
    BY <1>4 DEF S!PublisherStops
  <2>2. publisher'[w] = S!Idle /\ \A x \in Replicas \ {w} : publisher'[x] = publisher[x]
    BY <1>c, <2>1
  <2>3. S!TypeOK'
    BY <1>4, <1>t, <1>c, <2>1 DEF S!TypeOK, S!PublisherStops
  <2>4. ScheduleKnows'
    BY <1>o, <1>t, <2>1, <2>2 DEF ScheduleKnows
  <2>5. PublishedOnce'
    <3>1. ASSUME ~republishable'
          PROVE  ~republishable /\ publisher[w].step # "save"
      BY <1>4, <3>1 DEF S!PublisherStops
    <3>2. \A x \in S!Held' : x \in S!Held
      BY <2>1, <2>2
    <3>3. ASSUME ~republishable', \A x \in Replicas : publisher'[x].step # "save"
          PROVE  \A x \in Replicas : publisher[x].step # "save"
      BY <2>2, <3>1, <3>3
    <3> QED BY <1>o, <1>t, <2>1, <2>2, <3>1, <3>2, <3>3 DEF PublishedOnce
  <2> QED BY <1>t, <2>1, <2>3, <2>4, <2>5 DEF ScheduleInv
<1> QED BY <1>1, <1>2, <1>3, <1>4 DEF PublishDue
---------------------------------------------------------------------------
(* The offline queue.                                                    *)
LEMMA PostsGrow ==
  ASSUME posts \in 0..2, NEW outcome, CreatePost(outcome)
  PROVE  /\ posts' \in 0..2 /\ posts' >= posts /\ (posts = 0 => posts' <= 1)
         /\ outcome = "ok" => posts' > 0
         /\ outcome = "refused" => posts' = posts
BY DEF CreatePost

LEMMA FaultsGrow ==
  ASSUME MaxFaults \in Nat, faults \in 0..MaxFaults, NEW outcome, CostOf(outcome)
  PROVE  /\ faults' \in 0..MaxFaults /\ faults' >= faults
         /\ outcome # "ok" => faults' = faults + 1
BY DEF CostOf, Fault, bounds

LEMMA WriterSteps ==
  ASSUME MaxFaults \in Nat, faults \in 0..MaxFaults, posts \in 0..2, QueueInv, WritePost
  PROVE  QueueInv'
<1> USE DEF Q!NoOp, Q!Cleared, Q!Ops, Q!Idle, Q!InFlight
<1>t. Q!TypeOK /\ QueueKnows /\ ExecutedOnce
  BY DEF QueueInv
<1>1. /\ op = Q!NoOp /\ op' = [status |-> "queued", attempts |-> 0] /\ UNCHANGED sync
      /\ origin = "offline" /\ origin' = origin
      /\ reexecutable' \in BOOLEAN /\ (reexecutable => reexecutable')
      /\ reexecutable' \/ posts' = posts
  BY <1>t DEF WritePost, Q!Enqueue, Q!TypeOK
<1>2. posts' \in 0..2 /\ posts' >= posts /\ faults' \in 0..MaxFaults /\ faults' >= faults
  <2>1. CASE UNCHANGED <<posts, bounds>>
    BY <2>1 DEF bounds
  <2>2. ASSUME NEW outcome, CreatePost(outcome), Fault
        PROVE  posts' \in 0..2 /\ posts' >= posts /\ faults' \in 0..MaxFaults /\ faults' >= faults
    <3>1. posts' \in 0..2 /\ posts' >= posts
      BY <2>2, PostsGrow
    <3> QED BY <2>2, <3>1 DEF Fault
  <2> QED BY <2>1, <2>2 DEF WritePost
<1>3. Q!TypeOK'
  BY <1>t, <1>1 DEF Q!TypeOK
<1>4. QueueKnows'
  <2>1. \A s \in Syncs : sync[s] # Q!Idle => sync[s].attempts \in 0..MaxFaults
    BY <1>t DEF Q!TypeOK
  <2> QED BY <1>t, <1>1, <1>2, <2>1 DEF QueueKnows
<1>5. ExecutedOnce'
  BY <1>t, <1>1 DEF ExecutedOnce
<1> QED BY <1>3, <1>4, <1>5 DEF QueueInv

LEMMA SyncSteps ==
  ASSUME MaxFaults \in Nat, faults \in 0..MaxFaults, posts \in 0..2, QueueInv,
         NEW s \in Syncs, SyncPending(s)
  PROVE  QueueInv'
<1> USE DEF Q!NoOp, Q!Cleared, Q!Ops, Q!Idle, Q!InFlight
<1>t. Q!TypeOK /\ QueueKnows /\ ExecutedOnce
  BY DEF QueueInv
<1>o. origin = "offline" /\ origin' = origin
  BY DEF SyncPending
<1> DEFINE Copies == [step : {"execute", "clear", "count"}, attempts : 0..MaxFaults]
<1>c. sync \in [Syncs -> Copies \cup {Q!Idle}]
  BY <1>t DEF Q!TypeOK
<1>a. op # Q!NoOp /\ op # Q!Cleared => op \in Q!Ops
  BY <1>t DEF Q!TypeOK
<1>1. CASE Q!ListPending(s) /\ UNCHANGED <<posts, bounds>>
  <2> DEFINE t == [step |-> "execute", attempts |-> op.attempts]
  <2>1. /\ sync[s] = Q!Idle /\ op \in Q!Ops /\ op' = op /\ UNCHANGED <<posts, faults>>
        /\ sync' = [sync EXCEPT ![s] = t] /\ reexecutable' = (reexecutable \/ Q!InFlight # {})
    BY <1>1 DEF Q!ListPending, bounds
  <2>2. t \in Copies /\ t.step = "execute" /\ t.attempts = op.attempts /\ t # Q!Idle
    BY <2>1
  <2> HIDE DEF t
  <2>3. sync'[s] = t /\ \A x \in Syncs \ {s} : sync'[x] = sync[x]
    BY <1>c, <2>1
  <2>4. Q!TypeOK'
    <3>1. sync' \in [Syncs -> Copies \cup {Q!Idle}]
      BY <1>c, <2>1, <2>2
    <3> QED BY <1>t, <2>1, <3>1 DEF Q!TypeOK
  <2>5. QueueKnows'
    BY <1>o, <1>t, <2>1, <2>2, <2>3 DEF QueueKnows
  <2>6. ExecutedOnce'
    <3>1. CASE Q!InFlight = {}
      <4>1. \A x \in Syncs : sync[x].step # "clear"
        BY <3>1
      <4>2. op # Q!Cleared
        BY <2>1
      <4>3. ASSUME ~reexecutable' PROVE posts = 0
        BY <1>o, <1>t, <2>1, <4>1, <4>2, <4>3 DEF ExecutedOnce
      <4>4. \A x \in Syncs \ {s} : sync'[x] = Q!Idle
        BY <2>3, <3>1
      <4> QED BY <2>1, <2>3, <4>3, <4>4 DEF ExecutedOnce
    <3>2. CASE Q!InFlight # {}
      BY <2>1, <3>2 DEF ExecutedOnce
    <3> QED BY <3>1, <3>2
  <2> QED BY <2>4, <2>5, <2>6 DEF QueueInv
<1>2. ASSUME NEW outcome \in {"ok", "refused", "lost", "half"},
             Q!Execute(s, outcome), CreatePost(outcome), CostOf(outcome)
      PROVE  QueueInv'
  <2> DEFINE t == [sync[s] EXCEPT !.step = IF outcome = "ok" THEN "clear" ELSE "count"]
  <2>1. sync[s].step = "execute" /\ sync[s] \in Copies
    BY <1>2, <1>c DEF Q!Execute
  <2>2. /\ sync' = [sync EXCEPT ![s] = t] /\ op' = op
        /\ reexecutable' = (reexecutable \/ outcome \in {"lost", "half"})
    BY <1>2 DEF Q!Execute
  <2>3. /\ t \in Copies /\ t.attempts = sync[s].attempts
        /\ t.step = IF outcome = "ok" THEN "clear" ELSE "count"
    BY <2>1
  <2>4. /\ posts' \in 0..2 /\ posts' >= posts /\ (posts = 0 => posts' <= 1)
        /\ (outcome = "ok" => posts' > 0) /\ (outcome = "refused" => posts' = posts)
        /\ faults' \in 0..MaxFaults /\ faults' >= faults
        /\ (outcome # "ok" => faults' = faults + 1)
    BY <1>2, PostsGrow, FaultsGrow
  <2> HIDE DEF t
  <2>5. sync'[s] = t /\ \A x \in Syncs \ {s} : sync'[x] = sync[x]
    BY <1>c, <2>2
  <2>6. Q!TypeOK'
    <3>1. sync' \in [Syncs -> Copies \cup {Q!Idle}]
      BY <1>c, <2>2, <2>3
    <3> QED BY <1>t, <2>2, <3>1 DEF Q!TypeOK
  <2>7. QueueKnows'
    <3>1. op'.attempts <= faults'
      <4>1. op.attempts \in Int /\ op.attempts <= faults
        BY <1>t DEF Q!TypeOK, QueueKnows
      <4> QED BY <2>2, <2>4, <4>1
    <3>2. \A x \in Syncs : sync[x] # Q!Idle => sync[x].attempts \in 0..MaxFaults
      BY <1>c
    <3>3. sync[s] # Q!Idle
      BY <2>1
    <3> QED BY <1>o, <1>t, <2>1, <2>2, <2>3, <2>4, <2>5, <3>1, <3>2, <3>3 DEF QueueKnows
  <2>8. ExecutedOnce'
    <3>1. s \in Q!InFlight /\ \A x \in Q!InFlight' : x \in Q!InFlight
      BY <2>1, <2>5
    <3>2. ASSUME ~reexecutable'
          PROVE  ~reexecutable /\ outcome \in {"ok", "refused"}
      BY <1>2, <1>t, <2>2, <3>2 DEF Q!TypeOK
    <3>3. ASSUME ~reexecutable'
          PROVE  posts = 0 /\ \A x \in Syncs \ {s} : sync'[x] = Q!Idle
      BY <1>o, <1>t, <2>1, <2>5, <3>1, <3>2, <3>3 DEF ExecutedOnce
    <3> QED BY <2>2, <2>3, <2>4, <2>5, <3>2, <3>3 DEF ExecutedOnce
  <2> QED BY <2>6, <2>7, <2>8 DEF QueueInv
<1>3. ASSUME Q!Clear(s) \/ Q!Count(s) \/ Q!TabCloses(s), UNCHANGED posts,
             faults' \in 0..MaxFaults, faults' >= faults
      PROVE  QueueInv'
  <2>1. sync[s] # Q!Idle /\ sync' = [sync EXCEPT ![s] = Q!Idle]
    BY <1>3 DEF Q!Clear, Q!Count, Q!TabCloses
  <2>2. sync'[s] = Q!Idle /\ \A x \in Syncs \ {s} : sync'[x] = sync[x]
    BY <1>c, <2>1
  <2>3. sync[s] \in Copies
    BY <1>c, <2>1
  <2>4. /\ op' \in Q!Ops \cup {Q!NoOp, Q!Cleared} /\ op'.attempts <= faults'
        /\ (op' = Q!Cleared => posts > 0)
        /\ reexecutable' \in BOOLEAN /\ (reexecutable => reexecutable')
    <3>k. sync[s].attempts \in 0..faults /\ (sync[s].step = "count" => sync[s].attempts < faults)
      BY <1>t, <2>1, <2>3 DEF QueueKnows
    <3>1. CASE Q!Clear(s)
      BY <1>3, <1>t, <2>1, <3>1 DEF Q!Clear, Q!TypeOK, QueueKnows
    <3>2. CASE Q!Count(s)
      BY <1>3, <1>t, <3>2, <3>k DEF Q!Count, Q!TypeOK, QueueKnows
    <3>3. CASE Q!TabCloses(s)
      BY <1>3, <1>t, <3>3 DEF Q!TabCloses, Q!TypeOK, QueueKnows
    <3> QED BY <1>3, <3>1, <3>2, <3>3
  <2>5. Q!TypeOK'
    BY <1>c, <2>1, <2>4 DEF Q!TypeOK
  <2>6. QueueKnows'
    <3>1. \A x \in Syncs : sync[x] # Q!Idle => sync[x].attempts \in 0..MaxFaults
      BY <1>c
    <3> QED BY <1>3, <1>o, <1>t, <2>2, <2>4, <3>1 DEF QueueKnows
  <2>7. ExecutedOnce'
    <3>1. ASSUME ~reexecutable' PROVE ~reexecutable /\ (sync[s].step = "clear" => op' = Q!Cleared)
      BY <1>3, <1>t, <3>1 DEF Q!Clear, Q!Count, Q!TabCloses, Q!TypeOK
    <3>2. \A x \in Q!InFlight' : x \in Q!InFlight
      BY <2>1, <2>2
    <3>3. op' = Q!Cleared => op = Q!Cleared \/ sync[s].step = "clear"
      BY <1>3 DEF Q!Clear, Q!Count, Q!TabCloses
    <3>4. sync[s].step \in {"execute", "count", "clear"} /\ s \in Q!InFlight
      BY <2>1, <2>3
    <3> QED BY <1>3, <1>o, <1>t, <2>2, <3>1, <3>2, <3>3, <3>4 DEF ExecutedOnce
  <2> QED BY <2>5, <2>6, <2>7 DEF QueueInv
<1> QED
  <2>1. SyncPending(s) => \/ Q!ListPending(s) /\ UNCHANGED <<posts, bounds>>
                          \/ (Q!Clear(s) \/ Q!Count(s)) /\ UNCHANGED <<posts, bounds>>
                          \/ \E outcome \in {"ok", "refused", "lost", "half"} :
                               Q!Execute(s, outcome) /\ CreatePost(outcome) /\ CostOf(outcome)
                          \/ Q!TabCloses(s) /\ Fault /\ UNCHANGED posts
    BY DEF SyncPending
  <2>2. UNCHANGED bounds \/ Fault => faults' \in 0..MaxFaults /\ faults' >= faults
    BY DEF Fault, bounds
  <2> QED BY <1>1, <1>2, <1>3, <2>1, <2>2
---------------------------------------------------------------------------
(* Webhooks.                                                             *)

(* What a step that is about one event, and leaves the ticks alone, keeps. *)
LEMMA OneEvent ==
  ASSUME WebhookInv, NEW e \in Events, W!TypeOK', RowKnown(e)', SentOnce(e)',
         UNCHANGED retry, got'[e] >= got[e],
         \A x \in Events \ {e} : /\ delivery'[x] = delivery[x]
                                 /\ attempt'[x] = attempt[x] /\ got'[x] = got[x],
         orphaned \subseteq orphaned', repeated \subseteq repeated'
  PROVE  WebhookInv'
<1>1. TicksKnow'
  <2>1. \A x \in Events : got[x] \in 0..2 /\ got'[x] \in 0..2
    BY DEF WebhookInv, W!TypeOK
  <2>2. \A r \in Replicas : retry[r].noting \subseteq Events
    BY DEF WebhookInv, W!TypeOK, W!Ticks
  <2> QED BY <2>1, <2>2 DEF WebhookInv, TicksKnow
<1>2. ASSUME NEW x \in Events \ {e} PROVE RowKnown(x)'
  <2>1. RowKnown(x)
    BY DEF WebhookInv
  <2> QED BY <2>1 DEF RowKnown, W!InHand
<1>3. ASSUME NEW x \in Events \ {e} PROVE SentOnce(x)'
  <2>1. SentOnce(x)
    BY DEF WebhookInv
  <2> QED BY <2>1 DEF SentOnce
<1> QED BY <1>1, <1>2, <1>3 DEF WebhookInv

LEMMA HooksRest == ASSUME WebhookInv, UNCHANGED hooks PROVE WebhookInv'
BY DEF WebhookInv, hooks, W!TypeOK, TicksKnow, RowKnown, SentOnce, W!InHand

LEMMA PostRaises ==
  ASSUME WebhookInv, NEW outcome, CreatePost(outcome)
  PROVE  WebhookInv'
<1> USE DEF W!NoRow
<1>1. ASSUME NEW e \in Events, W!Dispatch(e) PROVE WebhookInv'
  <2>0. W!TypeOK /\ RowKnown(e) /\ SentOnce(e)
    BY DEF WebhookInv
  <2>1. /\ attempt[e] = "idle" /\ delivery[e] = W!NoRow
        /\ attempt' = [attempt EXCEPT ![e] = "finding"]
        /\ UNCHANGED <<endpoint, delivery, retry, got, orphaned, repeated>>
    BY <1>1 DEF W!Dispatch
  <2>2. attempt'[e] = "finding" /\ \A x \in Events \ {e} : attempt'[x] = attempt[x]
    BY <2>0, <2>1 DEF W!TypeOK
  <2>3. W!TypeOK'
    BY <2>0, <2>1 DEF W!TypeOK
  <2>4. ~W!InHand(e) /\ got[e] = 0
    BY <2>0, <2>1 DEF RowKnown
  <2>5. RowKnown(e)'
    BY <2>0, <2>1, <2>2, <2>4 DEF RowKnown, W!InHand
  <2>6. SentOnce(e)'
    BY <2>0, <2>1, <2>2, <2>4 DEF SentOnce
  <2>7. got'[e] >= got[e]
    BY <2>1, <2>4
  <2> QED BY <2>1, <2>2, <2>3, <2>5, <2>6, <2>7, OneEvent
<1> QED BY <1>1, HooksRest DEF CreatePost

LEMMA DispatchSteps ==
  ASSUME WebhookInv, NEW e \in Events, DispatchEvent(e)
  PROVE  WebhookInv'
<1> USE DEF W!NoRow, W!Row
<1>0. W!TypeOK /\ RowKnown(e) /\ SentOnce(e)
  BY DEF WebhookInv
<1>a. attempt \in [Events -> {"idle", "finding", "saving", "sending", "accepted", "rejected"}]
  BY <1>0 DEF W!TypeOK
<1>d. delivery \in [Events -> W!Row] /\ delivery[e] \in W!Row /\ got \in [Events -> 0..2]
      /\ got[e] \in 0..2
  BY <1>0 DEF W!TypeOK
<1>f. /\ UNCHANGED retry /\ orphaned \subseteq orphaned' /\ repeated \subseteq repeated'
      /\ attempt[e] # "idle"
  BY DEF DispatchEvent, W!FindTargets, W!SaveDelivery, W!NoteDelivered, W!NoteFailed, W!Send,
         W!NoteLost, W!AttemptStops, W!Receive
<1>h. ~W!InHand(e) /\ ~W!InHand(e)'
  BY <1>0, <1>f DEF RowKnown, W!InHand
<1>n. \A r \in Replicas : e \notin retry[r].left /\ e \notin retry[r].noting
  BY <1>h DEF W!InHand
<1>1. CASE W!FindTargets(e) \/ W!SaveDelivery(e)
  <2>1. /\ attempt[e] \in {"finding", "saving"} /\ delivery[e] = W!NoRow /\ got[e] = 0
        /\ UNCHANGED <<endpoint, got, orphaned, repeated>>
    BY <1>0, <1>1 DEF W!FindTargets, W!SaveDelivery, RowKnown
  <2>2. /\ \A x \in Events \ {e} : delivery'[x] = delivery[x] /\ attempt'[x] = attempt[x]
        /\ W!TypeOK'
        /\ \/ delivery'[e] = W!NoRow /\ attempt'[e] \in {"idle", "saving"}
           \/ delivery'[e] = [status |-> "pending", retries |-> 0] /\ attempt'[e] = "sending"
    <3>1. CASE W!FindTargets(e)
      BY <3>1, <2>1, <1>0, <1>a, <1>d, <1>f DEF W!FindTargets, W!TypeOK
    <3>2. CASE W!SaveDelivery(e)
      BY <3>2, <2>1, <1>0, <1>a, <1>d, <1>f DEF W!SaveDelivery, W!TypeOK
    <3> QED BY <1>1, <3>1, <3>2
  <2>3. RowKnown(e)'
    BY <1>h, <2>1, <2>2 DEF RowKnown
  <2>4. SentOnce(e)'
    BY <1>f, <1>n, <2>1, <2>2 DEF SentOnce
  <2> QED BY <1>f, <2>1, <2>2, <2>3, <2>4, OneEvent
<1>2. ASSUME NEW outcome \in W!Outcomes, W!Send(e, outcome) PROVE WebhookInv'
  <2>1. /\ attempt[e] = "sending" /\ UNCHANGED <<endpoint, delivery, orphaned>>
        /\ attempt' = [attempt EXCEPT ![e] = IF outcome = "ok" THEN "accepted" ELSE "rejected"]
        /\ delivery[e].status \in {"pending", "removed"}
    BY <1>0, <1>2 DEF W!Send, RowKnown
  <2>2. /\ got' = IF outcome = "down" THEN got
                  ELSE [got EXCEPT ![e] = IF got[e] < 2 THEN got[e] + 1 ELSE 2]
        /\ repeated' = IF outcome = "lost" THEN repeated \cup {e} ELSE repeated
    BY <1>2, <1>d DEF W!Send, W!Receive
  <2>3. /\ \A x \in Events \ {e} : attempt'[x] = attempt[x] /\ got'[x] = got[x]
        /\ attempt'[e] = IF outcome = "ok" THEN "accepted" ELSE "rejected"
        /\ got'[e] \in got[e]..2 /\ (outcome = "down" => got'[e] = got[e])
        /\ (outcome # "down" => got'[e] > 0) /\ (got[e] = 0 => got'[e] <= 1)
    BY <1>a, <1>d, <2>1, <2>2
  <2>4. W!TypeOK'
    <3>1. got' \in [Events -> 0..2] /\ attempt' \in [Events -> {"idle", "finding", "saving", "sending", "accepted", "rejected"}]
      BY <1>a, <1>d, <2>1, <2>2
    <3>2. repeated' \subseteq Events
      BY <1>0, <2>2 DEF W!TypeOK
    <3> QED BY <1>0, <1>f, <2>1, <3>1, <3>2 DEF W!TypeOK
  <2>5. RowKnown(e)'
    BY <1>h, <1>d, <2>1, <2>3 DEF RowKnown
  <2>6. SentOnce(e)'
    <3>1. e \notin repeated' => got[e] = 0 /\ outcome # "lost"
      BY <1>0, <1>d, <2>1, <2>2 DEF SentOnce
    <3>2. outcome \in {"ok", "lost", "down"}
      BY <1>2 DEF W!Outcomes
    <3> QED BY <1>d, <1>f, <1>n, <2>1, <2>3, <3>1, <3>2 DEF SentOnce
  <2>7. got'[e] >= got[e]
    BY <1>d, <2>3
  <2> QED BY <1>f, <2>1, <2>3, <2>4, <2>5, <2>6, <2>7, OneEvent
<1>3. CASE W!NoteDelivered(e) \/ W!NoteFailed(e)
  <2> DEFINE t == IF W!NoteDelivered(e) THEN [delivery[e] EXCEPT !.status = "delivered"]
                  ELSE [status |-> "failed", retries |-> 1]
  <2>1. /\ attempt' = [attempt EXCEPT ![e] = "idle"]
        /\ UNCHANGED <<endpoint, got, orphaned, repeated>>
        /\ attempt[e] \in {"accepted", "rejected"}
        /\ delivery[e].status \in {"pending", "removed"}
    BY <1>0, <1>3 DEF W!NoteDelivered, W!NoteFailed, RowKnown
  <2>2. delivery' = [delivery EXCEPT ![e] = IF delivery[e].status = "removed" THEN delivery[e] ELSE t]
    BY <1>3, <1>d DEF W!NoteDelivered, W!NoteFailed, W!Updated
  <2>3. /\ t \in W!Row /\ t.status \in {"delivered", "failed"}
        /\ t.status = IF attempt[e] = "accepted" THEN "delivered" ELSE "failed"
    BY <1>3, <1>d DEF W!NoteDelivered, W!NoteFailed
  <2> HIDE DEF t
  <2>4. /\ \A x \in Events \ {e} : delivery'[x] = delivery[x] /\ attempt'[x] = attempt[x]
        /\ attempt'[e] = "idle"
        /\ delivery'[e] = IF delivery[e].status = "removed" THEN delivery[e] ELSE t
    BY <1>a, <1>d, <2>1, <2>2
  <2>5. W!TypeOK'
    <3>1. delivery' \in [Events -> W!Row]
      BY <1>d, <2>2, <2>3
    <3> QED BY <1>0, <1>a, <1>f, <2>1, <3>1 DEF W!TypeOK
  <2>6. RowKnown(e)'
    BY <1>0, <1>h, <1>d, <2>1, <2>3, <2>4 DEF RowKnown
  <2>7. SentOnce(e)'
    BY <1>0, <1>f, <1>n, <2>1, <2>3, <2>4 DEF SentOnce
  <2>8. got'[e] >= got[e]
    BY <1>d, <2>1
  <2> QED BY <1>f, <2>1, <2>4, <2>5, <2>6, <2>7, <2>8, OneEvent
<1>4. CASE W!NoteLost(e) \/ W!AttemptStops(e)
  <2> DEFINE s == IF W!AttemptStops(e) THEN "idle" ELSE "rejected"
  <2>1. /\ UNCHANGED <<endpoint, delivery, got>>
        /\ attempt' = [attempt EXCEPT ![e] = s] /\ s \in {"idle", "rejected"}
        /\ s = "idle" => e \in orphaned' /\ UNCHANGED repeated
        /\ s = "rejected" => e \in repeated' /\ UNCHANGED orphaned /\ attempt[e] = "accepted"
    BY <1>4 DEF W!NoteLost, W!AttemptStops
  <2> HIDE DEF s
  <2>2. attempt'[e] = s /\ \A x \in Events \ {e} : attempt'[x] = attempt[x]
    BY <1>a, <2>1
  <2>3. W!TypeOK'
    <3>1. repeated' \subseteq Events /\ orphaned' \subseteq Events
      BY <1>0, <1>4 DEF W!TypeOK, W!NoteLost, W!AttemptStops
    <3>2. attempt' \in [Events -> {"idle", "finding", "saving", "sending", "accepted", "rejected"}]
      BY <1>a, <2>1
    <3> QED BY <1>0, <1>f, <2>1, <3>1, <3>2 DEF W!TypeOK
  <2>4. RowKnown(e)'
    BY <1>0, <1>h, <1>d, <2>1, <2>2 DEF RowKnown
  <2>5. SentOnce(e)'
    <3>1. delivery[e].status # "failed"
      BY <1>0, <1>a, <1>f DEF RowKnown
    <3> QED BY <1>0, <1>f, <1>n, <2>1, <2>2, <3>1 DEF SentOnce
  <2>6. got'[e] >= got[e]
    BY <1>d, <2>1
  <2> QED BY <1>f, <2>1, <2>2, <2>3, <2>4, <2>5, <2>6, OneEvent
<1> QED BY <1>1, <1>2, <1>3, <1>4 DEF DispatchEvent
LEMMA RetrySteps ==
  ASSUME WebhookInv, NEW r \in Replicas, RetryFailed(r)
  PROVE  WebhookInv'
<1> USE DEF W!NoRow, W!Row, W!Resting
<1>0. W!TypeOK /\ TicksKnow /\ \A e \in Events : RowKnown(e) /\ SentOnce(e)
  BY DEF WebhookInv
<1>a. attempt \in [Events -> {"idle", "finding", "saving", "sending", "accepted", "rejected"}]
  BY <1>0 DEF W!TypeOK
<1>d. delivery \in [Events -> W!Row] /\ got \in [Events -> 0..2]
  BY <1>0 DEF W!TypeOK
<1>r. retry \in [Replicas -> W!Ticks] /\ retry[r].left \subseteq Events /\ retry[r].noting \subseteq Events
  BY <1>0 DEF W!TypeOK, W!Ticks
<1>f. UNCHANGED <<endpoint, attempt, orphaned>>
  BY DEF RetryFailed, W!ListFailed, W!NoteRetried, W!Resend, W!RetryStops
<1>1. CASE W!ListFailed(r)
  <2>1. PICK due \in SUBSET W!Failed :
          /\ retry' = [retry EXCEPT ![r] = [left |-> due, noting |-> {}]]
          /\ repeated' = repeated \cup {e \in due : W!InHand(e)}
    BY <1>1 DEF W!ListFailed
  <2>2. retry[r] = W!Resting /\ UNCHANGED <<delivery, got>>
    BY <1>1 DEF W!ListFailed
  <2>3. /\ retry'[r].left = due /\ retry'[r].noting = {}
        /\ \A t \in Replicas \ {r} : retry'[t] = retry[t]
        /\ due \subseteq Events /\ repeated' \subseteq Events
    BY <1>0, <1>r, <2>1 DEF W!Failed, W!TypeOK
  <2>4. W!TypeOK'
    <3>1. retry' \in [Replicas -> W!Ticks]
      BY <1>r, <2>1, <2>3 DEF W!Ticks
    <3> QED BY <1>0, <1>f, <2>2, <2>3, <3>1 DEF W!TypeOK
  <2>5. TicksKnow'
    BY <1>0, <2>2, <2>3 DEF TicksKnow
  <2>6. ASSUME NEW e \in Events PROVE RowKnown(e)'
    <3>1. W!InHand(e)' => W!InHand(e) \/ e \in due
      BY <2>3 DEF W!InHand
    <3>2. e \in due => attempt[e] = "idle" /\ delivery[e].status = "failed"
      BY <1>0, <1>a DEF W!Failed, RowKnown
    <3> QED BY <1>0, <1>f, <2>2, <3>1, <3>2 DEF RowKnown
  <2>7. ASSUME NEW e \in Events PROVE SentOnce(e)'
    <3>1. SUFFICES ASSUME e \notin repeated'
                   PROVE  SentOnce(e)'
      BY DEF SentOnce
    <3>2. SentOnce(e) /\ e \notin repeated
      BY <1>0, <2>1, <3>1
    <3>3. CASE e \in due
      <4>1. ~W!InHand(e) /\ delivery[e].status = "failed"
        BY <2>1, <3>1, <3>3 DEF W!Failed
      <4>2. got[e] = 0
        BY <1>d, <3>2, <4>1 DEF SentOnce, W!InHand
      <4> QED BY <2>2, <2>3, <4>1, <4>2 DEF SentOnce, W!InHand
    <3>4. CASE e \notin due
      <4>1. \A t \in Replicas : /\ e \in retry'[t].left <=> e \in retry[t].left
                                /\ e \in retry'[t].noting <=> e \in retry[t].noting
        BY <2>2, <2>3, <3>4
      <4> QED BY <1>f, <2>2, <3>2, <4>1 DEF SentOnce
    <3> QED BY <3>3, <3>4
  <2> QED BY <2>4, <2>5, <2>6, <2>7 DEF WebhookInv
<1>2. ASSUME NEW e \in Events, W!NoteRetried(r, e) PROVE WebhookInv'
  <2> DEFINE t == [retry[r] EXCEPT !.noting = {}]
  <2> DEFINE d == [delivery[e] EXCEPT !.status = "delivered"]
  <2>0. retry[r] \in W!Ticks /\ delivery[e] \in W!Row
    BY <1>r, <1>d
  <2>1. /\ e \in retry[r].noting /\ UNCHANGED <<got, repeated>>
        /\ retry' = [retry EXCEPT ![r] = t]
        /\ delivery' = [delivery EXCEPT ![e] = IF delivery[e].status = "removed" THEN delivery[e] ELSE d]
    BY <1>2, <1>d, <1>r DEF W!NoteRetried, W!Updated
  <2>2. t \in W!Ticks /\ t.left = retry[r].left /\ t.noting = {}
        /\ d \in W!Row /\ d.status = "delivered"
    BY <2>0 DEF W!Ticks
  <2> HIDE DEF t, d
  <2>3. /\ retry'[r] = t /\ \A x \in Replicas \ {r} : retry'[x] = retry[x]
        /\ delivery'[e] = IF delivery[e].status = "removed" THEN delivery[e] ELSE d
        /\ \A x \in Events \ {e} : delivery'[x] = delivery[x]
    BY <1>d, <1>r, <2>1
  <2>4. W!TypeOK'
    <3>1. retry' \in [Replicas -> W!Ticks] /\ delivery' \in [Events -> W!Row]
      BY <1>d, <1>r, <2>0, <2>1, <2>2
    <3> QED BY <1>0, <1>f, <2>1, <3>1 DEF W!TypeOK
  <2>5. TicksKnow'
    BY <1>0, <2>1, <2>2, <2>3 DEF TicksKnow
  <2>6. ASSUME NEW x \in Events PROVE RowKnown(x)'
    <3>1. W!InHand(x)' => W!InHand(x)
      BY <2>2, <2>3 DEF W!InHand
    <3>2. CASE x = e
      <4>1. W!InHand(e) /\ got[e] > 0
        BY <1>0, <2>1 DEF W!InHand, TicksKnow
      <4> QED BY <1>0, <1>f, <2>1, <2>2, <2>3, <3>2, <4>1 DEF RowKnown
    <3>3. CASE x # e
      BY <1>0, <1>f, <2>1, <2>3, <3>1, <3>3 DEF RowKnown
    <3> QED BY <3>2, <3>3
  <2>7. ASSUME NEW x \in Events PROVE SentOnce(x)'
    <3>1. CASE x = e
      <4>1. delivery'[e].status # "failed"
        BY <2>2, <2>3
      <4>2. \A y \in Replicas : retry'[y].left = retry[y].left /\ retry'[y].noting \subseteq retry[y].noting
        BY <2>2, <2>3
      <4> QED BY <1>0, <1>f, <2>1, <3>1, <4>1, <4>2 DEF SentOnce
    <3>2. CASE x # e
      <4>1. x \notin retry[r].noting
        BY <1>0, <2>1, <3>2 DEF TicksKnow
      <4>2. \A y \in Replicas : /\ x \in retry'[y].left <=> x \in retry[y].left
                                /\ x \in retry'[y].noting <=> x \in retry[y].noting
        BY <2>2, <2>3, <4>1
      <4> QED BY <1>0, <1>f, <2>1, <2>3, <3>2, <4>2 DEF SentOnce
    <3> QED BY <3>1, <3>2
  <2> QED BY <2>4, <2>5, <2>6, <2>7 DEF WebhookInv
<1>3. ASSUME NEW e \in Events, NEW outcome \in W!Outcomes, W!Resend(r, e, outcome)
      PROVE  WebhookInv'
  <2> DEFINE t == [left |-> retry[r].left \ {e}, noting |-> IF outcome = "ok" THEN {e} ELSE {}]
  <2>1. /\ retry[r].noting = {} /\ e \in retry[r].left /\ UNCHANGED delivery
        /\ retry' = [retry EXCEPT ![r] = t]
        /\ got' = IF outcome = "down" THEN got
                  ELSE [got EXCEPT ![e] = IF got[e] < 2 THEN got[e] + 1 ELSE 2]
        /\ repeated' = IF outcome = "lost" THEN repeated \cup {e} ELSE repeated
    BY <1>3, <1>d, <1>r DEF W!Resend, W!Receive
  <2>2. t \in W!Ticks /\ t.left = retry[r].left \ {e} /\ t.noting = IF outcome = "ok" THEN {e} ELSE {}
    BY <1>r DEF W!Ticks
  <2> HIDE DEF t
  <2>3. /\ retry'[r] = t /\ \A x \in Replicas \ {r} : retry'[x] = retry[x]
        /\ \A x \in Events \ {e} : got'[x] = got[x]
        /\ got'[e] \in got[e]..2 /\ (outcome = "down" => got'[e] = got[e])
        /\ (outcome # "down" => got'[e] > 0) /\ (got[e] = 0 => got'[e] <= 1)
    BY <1>d, <1>r, <2>1
  <2>4. W!TypeOK'
    <3>1. retry' \in [Replicas -> W!Ticks] /\ got' \in [Events -> 0..2]
      BY <1>d, <1>r, <2>1, <2>2
    <3>2. repeated' \subseteq Events
      BY <1>0, <2>1 DEF W!TypeOK
    <3> QED BY <1>0, <1>f, <2>1, <3>1, <3>2 DEF W!TypeOK
  <2>5. W!InHand(e) /\ attempt[e] = "idle" /\ delivery[e].status \notin {"none", "pending"}
    BY <1>0, <2>1 DEF W!InHand, RowKnown
  <2>6. TicksKnow'
    <3>1. \A x \in Events : got[x] > 0 => got'[x] > 0
      BY <1>d, <2>3
    <3>2. \A x \in Replicas : retry[x].noting \subseteq Events
      BY <1>r DEF W!Ticks
    <3>3. outcome = "ok" => got'[e] > 0
      BY <2>3
    <3> QED BY <1>0, <2>2, <2>3, <3>1, <3>2, <3>3 DEF TicksKnow
  <2>7. ASSUME NEW x \in Events PROVE RowKnown(x)'
    <3>1. W!InHand(x)' => W!InHand(x)
      BY <2>1, <2>2, <2>3 DEF W!InHand
    <3>2. CASE x = e
      <4>1. delivery[e].status = "delivered" => got'[e] > 0
        BY <1>0, <1>d, <2>3 DEF RowKnown
      <4> QED BY <1>f, <2>1, <2>5, <3>2, <4>1 DEF RowKnown
    <3>3. CASE x # e
      BY <1>0, <1>f, <2>1, <2>3, <3>1, <3>3 DEF RowKnown
    <3> QED BY <3>2, <3>3
  <2>8. ASSUME NEW x \in Events PROVE SentOnce(x)'
    <3>1. SUFFICES ASSUME x \notin repeated' PROVE SentOnce(x)'
      BY DEF SentOnce
    <3>2. SentOnce(x) /\ x \notin repeated
      BY <1>0, <2>1, <3>1
    <3>3. CASE x = e
      <4>1. got[e] = 0 /\ outcome # "lost"
        BY <1>d, <2>1, <3>1, <3>2, <3>3 DEF SentOnce
      <4>2. \A y \in Replicas \ {r} : e \notin retry[y].left /\ e \notin retry[y].noting
        BY <2>1, <3>2, <3>3 DEF SentOnce
      <4>3. \A y \in Replicas : e \notin retry'[y].left /\ (e \in retry'[y].noting => y = r)
        BY <2>2, <2>3, <4>2
      <4>4. got'[e] <= 1 /\ (got'[e] = 1 => e \in retry'[r].noting)
        <5>1. outcome \in {"ok", "lost", "down"}
          BY DEF W!Outcomes
        <5> QED BY <2>2, <2>3, <4>1, <5>1
      <4> QED BY <1>f, <2>5, <3>3, <4>3, <4>4 DEF SentOnce
    <3>4. CASE x # e
      <4>1. \A y \in Replicas : /\ x \in retry'[y].left <=> x \in retry[y].left
                                /\ x \in retry'[y].noting <=> x \in retry[y].noting
        BY <2>1, <2>2, <2>3, <3>4
      <4> QED BY <1>f, <2>1, <2>3, <3>2, <3>4, <4>1 DEF SentOnce
    <3> QED BY <3>3, <3>4
  <2> QED BY <2>4, <2>6, <2>7, <2>8 DEF WebhookInv
<1>4. CASE W!RetryStops(r)
  <2>1. PICK rest \in SUBSET Events :
          /\ rest \subseteq retry[r].left
          /\ retry' = [retry EXCEPT ![r] = [left |-> rest, noting |-> {}]]
    BY <1>4, <1>r DEF W!RetryStops
  <2>2. UNCHANGED <<delivery, got>> /\ repeated' = repeated \cup retry[r].noting
    BY <1>4 DEF W!RetryStops
  <2>3. /\ retry'[r].left = rest /\ retry'[r].noting = {}
        /\ \A x \in Replicas \ {r} : retry'[x] = retry[x]
    BY <1>r, <2>1
  <2>4. W!TypeOK'
    <3>1. retry' \in [Replicas -> W!Ticks]
      BY <1>r, <2>1 DEF W!Ticks
    <3> QED BY <1>0, <1>f, <1>r, <2>2, <3>1 DEF W!TypeOK
  <2>5. TicksKnow'
    BY <1>0, <2>2, <2>3 DEF TicksKnow
  <2>6. \A y \in Replicas : retry'[y].left \subseteq retry[y].left /\ retry'[y].noting \subseteq retry[y].noting
    BY <2>1, <2>3
  <2>7. ASSUME NEW x \in Events PROVE RowKnown(x)'
    BY <1>0, <1>f, <2>2, <2>6 DEF RowKnown, W!InHand
  <2>8. ASSUME NEW x \in Events PROVE SentOnce(x)'
    <3>1. SUFFICES ASSUME x \notin repeated' PROVE SentOnce(x)'
      BY DEF SentOnce
    <3>2. SentOnce(x) /\ x \notin repeated /\ x \notin retry[r].noting
      BY <1>0, <2>2, <3>1
    <3>3. \A y \in Replicas : x \in retry'[y].noting <=> x \in retry[y].noting
      BY <2>3, <3>2
    <3> QED BY <1>f, <2>2, <2>6, <3>2, <3>3 DEF SentOnce
  <2> QED BY <2>4, <2>5, <2>7, <2>8 DEF WebhookInv
<1> QED BY <1>1, <1>2, <1>3, <1>4 DEF RetryFailed

LEMMA DeveloperSteps == ASSUME WebhookInv, Developer PROVE WebhookInv'
<1> USE DEF W!NoRow, W!Row
<1>0. W!TypeOK /\ TicksKnow /\ \A e \in Events : RowKnown(e) /\ SentOnce(e)
  BY DEF WebhookInv
<1>f. UNCHANGED <<attempt, retry, got, orphaned, repeated>>
  BY DEF Developer, W!SetActive, W!DeleteEndpoint
<1>1. CASE \E active \in BOOLEAN : W!SetActive(active)
  <2>1. endpoint' \in {"active", "inactive", "deleted"} /\ UNCHANGED delivery
    BY <1>1 DEF W!SetActive
  <2> QED BY <1>0, <1>f, <2>1 DEF WebhookInv, W!TypeOK, TicksKnow, RowKnown, SentOnce, W!InHand
<1>2. CASE W!DeleteEndpoint
  <2>1. /\ endpoint' = "deleted"
        /\ \A e \in Events : delivery'[e] =
             IF delivery[e] = W!NoRow THEN W!NoRow ELSE [status |-> "removed", retries |-> 0]
    BY <1>2 DEF W!DeleteEndpoint
  <2>2. W!TypeOK'
    <3>1. delivery' \in [Events -> W!Row]
      BY <1>2 DEF W!DeleteEndpoint
    <3> QED BY <1>0, <1>f, <2>1, <3>1 DEF W!TypeOK
  <2>3. TicksKnow'
    BY <1>0, <1>f DEF TicksKnow
  <2>4. ASSUME NEW e \in Events PROVE RowKnown(e)'
    BY <1>0, <1>f, <2>1 DEF RowKnown, W!InHand
  <2>5. ASSUME NEW e \in Events PROVE SentOnce(e)'
    <3>1. delivery'[e].status # "failed"
      BY <2>1
    <3> QED BY <1>0, <1>f, <3>1 DEF SentOnce
  <2> QED BY <2>2, <2>3, <2>4, <2>5 DEF WebhookInv
<1> QED BY <1>1, <1>2 DEF Developer
---------------------------------------------------------------------------
(* Exports.                                                              *)
LEMMA ExportCronSteps ==
  ASSUME ExportInv, NEW w \in Replicas, RunScheduledExports(w)
  PROVE  ExportInv'
<1> USE DEF X!Holding, X!Exporting, X!At, X!Go
<1>0. X!TypeOK /\ ExportKnows /\ BegunOnce /\ OffInv /\ X!OfferedIsThere
  BY DEF ExportInv
<1>a. tick \in [Replicas -> X!Steps]
  BY <1>0 DEF X!TypeOK
<1>p. UNCHANGED <<prune, banned, off>>
  BY DEF RunScheduledExports, X!ListDue, X!Disable, X!SaveSchedule, X!InsertArchive, X!WriteFile,
         X!CompleteArchive, X!Tidy, X!FailArchive, X!Unlink, X!ExportFails, X!TickStops, X!schedules
<1>1. CASE X!ListDue(w)
  <2>1. PICK s \in {"disable", "insert"} : tick' = [tick EXCEPT ![w] = s]
    BY <1>1 DEF X!ListDue
  <2>2. /\ tick[w] = "idle" /\ schedule.enabled /\ schedule.due
        /\ UNCHANGED <<schedule, archive, files, made>>
        /\ reexportable' = (reexportable \/ X!Holding # {})
    BY <1>1 DEF X!ListDue, X!schedules, X!archives
  <2>3. tick'[w] = s /\ \A x \in Replicas \ {w} : tick'[x] = tick[x]
    BY <1>a, <2>1
  <2>4. X!TypeOK'
    <3>1. s \in X!Steps
      BY DEF X!Steps
    <3> QED BY <1>0, <1>a, <1>p, <2>1, <2>2, <3>1 DEF X!TypeOK
  <2>5. ExportKnows'
    BY <1>0, <1>p, <2>2, <2>3 DEF ExportKnows
  <2>6. BegunOnce'
    <3>1. CASE X!Holding = {}
      BY <1>0, <2>2, <2>3, <3>1 DEF BegunOnce
    <3>2. CASE X!Holding # {}
      BY <2>2, <3>2 DEF BegunOnce
    <3> QED BY <3>1, <3>2
  <2>7. OffInv'
    BY <1>0, <1>p, <2>2 DEF OffInv
  <2>8. X!OfferedIsThere'
    BY <1>0, <2>2 DEF X!OfferedIsThere
  <2> QED BY <2>4, <2>5, <2>6, <2>7, <2>8 DEF ExportInv
<1>2. CASE X!Disable(w) \/ X!SaveSchedule(w) \/ X!TickStops(w)
  <2>1. /\ tick[w] # "idle" /\ tick' = [tick EXCEPT ![w] = "idle"]
        /\ UNCHANGED <<archive, files, made>>
        /\ schedule' \in X!Schedules \cup {X!NoSchedule} /\ reexportable' \in BOOLEAN
        /\ (schedule' = schedule \/ ~schedule'.due)
        /\ reexportable' \/ (reexportable' = reexportable /\ ~schedule'.due)
    <3>1. CASE X!Disable(w)
      BY <1>0, <3>1 DEF X!Disable, X!archives, X!counted, X!TypeOK, X!Schedules, X!Disarmed
    <3>2. CASE X!SaveSchedule(w)
      BY <1>0, <3>2 DEF X!SaveSchedule, X!archives, X!counted, X!TypeOK, X!Schedules, X!Armed
    <3>3. CASE X!TickStops(w)
      <4>1. /\ tick[w] # "idle" /\ tick' = [tick EXCEPT ![w] = "idle"]
            /\ UNCHANGED <<schedule, archive, files, made>> /\ reexportable' = TRUE
        BY <3>3 DEF X!TickStops, X!schedules, X!archives
      <4>2. schedule' \in X!Schedules \cup {X!NoSchedule}
        BY <1>0, <4>1 DEF X!TypeOK
      <4>3. reexportable' /\ reexportable' \in BOOLEAN
        BY <4>1
      <4>4. schedule' = schedule
        BY <4>1
      <4> QED BY <4>1, <4>2, <4>3, <4>4
    <3> QED BY <1>2, <3>1, <3>2, <3>3
  <2>2. tick'[w] = "idle" /\ \A x \in Replicas \ {w} : tick'[x] = tick[x]
    BY <1>a, <2>1
  <2>3. X!TypeOK'
    <3>1. "idle" \in X!Steps
      BY DEF X!Steps
    <3> QED BY <1>0, <1>a, <1>p, <2>1, <3>1 DEF X!TypeOK
  <2>4. ExportKnows'
    BY <1>0, <1>p, <2>1, <2>2 DEF ExportKnows
  <2>5. BegunOnce'
    BY <1>0, <2>1, <2>2 DEF BegunOnce
  <2>6. OffInv'
    BY <1>0, <1>p, <2>1 DEF OffInv
  <2>7. X!OfferedIsThere'
    BY <1>0, <2>1 DEF X!OfferedIsThere
  <2> QED BY <2>3, <2>4, <2>5, <2>6, <2>7 DEF ExportInv
<1>3. CASE \/ X!InsertArchive(w) \/ X!WriteFile(w) \/ X!CompleteArchive(w) \/ X!Tidy(w)
           \/ X!FailArchive(w) \/ X!Unlink(w) \/ X!ExportFails(w)
  <2>0. archive \in X!Archives /\ files \subseteq Replicas /\ made \in 0..2
    BY <1>0 DEF X!TypeOK
  <2> DEFINE s == tick'[w]
  <2> DEFINE Moved ==
        /\ tick' = [tick EXCEPT ![w] = s] /\ tick[w] # "idle"
        /\ s \in {"write", "later", "complete", "tidy", "save", "fail", "unlink"}
        /\ s = "complete" => w \in files'
        /\ s = "tidy" => tick[w] = "complete" /\ files' = files
        /\ s = "unlink" => archive'.status = "failed"
        /\ UNCHANGED <<schedule, reexportable>>
  <2> DEFINE Counted ==
        /\ made' \in 0..2 /\ (made = 0 => made' <= 1)
        /\ made' = made \/ tick[w] = "insert"
  <2> DEFINE Written ==
        /\ archive' \in X!Archives /\ archive'.old = archive.old /\ files' \subseteq Replicas
        /\ archive'.status = "none" => archive' = archive
        /\ \A x \in Replicas \ {w} : x \in files => x \in files'
        /\ \/ archive' = archive
           \/ archive'.status = "pending" /\ archive.status = "none"
           \/ archive'.status = "completed" /\ w \in files /\ files' = files
           \/ archive'.status = "failed"
        /\ files \subseteq files' \/ archive'.status = "failed"
  <2> DEFINE Begun ==
        tick[w] \notin X!Exporting =>
          \/ s \notin X!Exporting /\ UNCHANGED <<files, archive>>
          \/ s = "write" /\ archive = X!NoArchive /\ archive'.status = "pending"
  <2>1. Moved /\ Counted /\ Written /\ Begun
    <3> USE DEF X!archives, X!schedules, X!counted, X!NoArchive, X!Archives
    <3>1. CASE X!InsertArchive(w)
      <4>1. CASE archive = X!NoArchive
        <5>1. /\ tick' = [tick EXCEPT ![w] = "write"] /\ tick[w] = "insert"
              /\ archive' = [status |-> "pending", old |-> FALSE]
              /\ UNCHANGED <<files, schedule, reexportable>>
              /\ made' = IF made < 2 THEN made + 1 ELSE 2
          BY <3>1, <4>1 DEF X!InsertArchive
        <5>2. tick'[w] = "write"
          BY <1>a, <5>1
        <5>3. Moved
          BY <5>1, <5>2
        <5>5. Counted
          BY <2>0, <5>1
        <5>4. Written /\ Begun
          BY <2>0, <4>1, <5>1, <5>2
        <5> QED BY <5>3, <5>4, <5>5
      <4>2. CASE archive # X!NoArchive
        BY <1>a, <2>0, <3>1, <4>2 DEF X!InsertArchive
      <4> QED BY <4>1, <4>2
    <3>2. CASE X!WriteFile(w)
      BY <1>a, <2>0, <3>2 DEF X!WriteFile
    <3>3. CASE X!CompleteArchive(w)
      BY <1>0, <1>a, <2>0, <3>3 DEF X!CompleteArchive, ExportKnows
    <3>4. CASE X!Tidy(w)
      BY <1>a, <2>0, <3>4 DEF X!Tidy
    <3>5. CASE X!FailArchive(w)
      BY <1>a, <2>0, <3>5 DEF X!FailArchive
    <3>6. CASE X!Unlink(w)
      BY <1>0, <1>a, <2>0, <3>6 DEF X!Unlink, ExportKnows
    <3>7. CASE X!ExportFails(w)
      BY <1>a, <2>0, <3>7 DEF X!ExportFails
    <3> QED BY <1>3, <3>1, <3>2, <3>3, <3>4, <3>5, <3>6, <3>7
  <2> HIDE DEF s
  <2>5. tick'[w] = s /\ \A x \in Replicas \ {w} : tick'[x] = tick[x]
    BY <1>a, <2>1 DEF s
  <2>6. X!TypeOK'
    <3>1. s \in X!Steps
      BY <2>1 DEF X!Steps
    <3> QED BY <1>0, <1>a, <1>p, <2>1, <3>1 DEF X!TypeOK
  <2>7. ExportKnows'
    <3>1. CASE tick[w] \in X!Exporting
      <4>1. archive.status # "none" /\ ~archive.old /\ archive'.status # "none" /\ ~archive'.old
        BY <1>0, <2>1, <3>1 DEF ExportKnows
      <4>2. \A x \in Replicas \ {w} : tick'[x] \notin X!Exporting
        BY <1>0, <2>5, <3>1 DEF ExportKnows
      <4>3. s \in {"complete", "tidy"} => w \in files'
        BY <1>0, <2>1, <3>1 DEF ExportKnows
      <4> QED BY <1>0, <1>p, <2>1, <2>5, <4>1, <4>2, <4>3 DEF ExportKnows
    <3>2. CASE tick[w] \notin X!Exporting /\ s \in X!Exporting
      <4>1. archive = X!NoArchive /\ archive'.status = "pending" /\ ~archive'.old
        BY <2>1, <3>2 DEF X!NoArchive
      <4>2. \A x \in Replicas \ {w} : tick'[x] \notin X!Exporting
        BY <1>0, <2>5, <4>1 DEF ExportKnows, X!NoArchive
      <4>3. s = "write"
        BY <2>1, <3>2
      <4> QED BY <1>0, <1>p, <2>1, <2>5, <4>1, <4>2, <4>3 DEF ExportKnows, X!NoArchive
    <3>3. CASE tick[w] \notin X!Exporting /\ s \notin X!Exporting
      <4>1. files' = files /\ archive' = archive
        BY <2>1, <3>3
      <4> QED BY <1>0, <1>p, <2>5, <3>3, <4>1 DEF ExportKnows
    <3> QED BY <3>1, <3>2, <3>3
  <2>8. BegunOnce'
    <3>1. \A x \in Replicas : x \in X!Holding' <=> x \in X!Holding
      BY <2>1, <2>5
    <3>2. w \in X!Holding
      BY <2>1
    <3>3. tick'[w] # "insert"
      BY <2>1, <2>5
    <3> QED BY <1>0, <2>1, <2>5, <3>1, <3>2, <3>3 DEF BegunOnce
  <2>9. OffInv'
    BY <1>0, <1>p, <2>1 DEF OffInv
  <2>10. X!OfferedIsThere'
    BY <1>0, <2>1 DEF X!OfferedIsThere
  <2> QED BY <2>6, <2>7, <2>8, <2>9, <2>10 DEF ExportInv
<1> QED BY <1>1, <1>2, <1>3 DEF RunScheduledExports

LEMMA PrunerSteps ==
  ASSUME ExportInv, NEW w \in Replicas, PruneExpiredArchives(w)
  PROVE  ExportInv'
<1> USE DEF X!Holding, X!Exporting
<1>0. X!TypeOK /\ ExportKnows /\ BegunOnce /\ OffInv /\ X!OfferedIsThere
  BY DEF ExportInv
<1>1. /\ UNCHANGED <<schedule, banned, off, tick, made, reexportable>> /\ archive.old
      /\ archive' \in X!Archives /\ archive'.old /\ files' \subseteq Replicas
      /\ archive'.status = "none" => archive.status = "none"
      /\ \E s \in {"idle", "unlink", "save", "sweep"} : prune' = [prune EXCEPT ![w] = s]
  BY <1>0 DEF PruneExpiredArchives, X!PruneList, X!PruneUnlink, X!PruneSave, X!PruneSweep,
              X!PruneStops, X!schedules, X!archives, X!counted, X!TypeOK, X!Archives, ExportKnows
<1>2. X!TypeOK'
  BY <1>0, <1>1 DEF X!TypeOK
<1>3. ExportKnows'
  BY <1>0, <1>1 DEF ExportKnows
<1>4. BegunOnce' /\ OffInv' /\ X!OfferedIsThere'
  BY <1>0, <1>1 DEF BegunOnce, OffInv, X!OfferedIsThere
<1> QED BY <1>2, <1>3, <1>4 DEF ExportInv

LEMMA ExporterSteps == ASSUME ExportInv, Exporter PROVE ExportInv'
<1> USE DEF X!Holding, X!Exporting
<1>0. X!TypeOK /\ ExportKnows /\ BegunOnce /\ OffInv /\ X!OfferedIsThere
  BY DEF ExportInv
<1>1. ASSUME NEW enabled \in BOOLEAN, X!UpdateSchedule(enabled) PROVE ExportInv'
  <2>1. /\ UNCHANGED <<banned, tick, archive, files, prune, made, reexportable>>
        /\ schedule' \in X!Schedules /\ ~schedule'.due /\ schedule'.enabled = enabled
        /\ off' = (~enabled /\ (off \/ X!Holding = {}))
    BY <1>1 DEF X!UpdateSchedule, X!archives, X!counted, X!Armed, X!Disarmed, X!Schedules
  <2> QED BY <1>0, <2>1 DEF ExportInv, X!TypeOK, ExportKnows, BegunOnce, OffInv, X!OfferedIsThere
<1>2. CASE X!Ban
  BY <1>0, <1>2 DEF X!Ban, X!schedules, X!archives, X!counted, ExportInv, X!TypeOK, ExportKnows,
                    BegunOnce, OffInv, X!OfferedIsThere
<1>3. CASE X!ComesDue
  <2>1. /\ UNCHANGED <<banned, off, tick, archive, files, prune>> /\ schedule.enabled
        /\ schedule' \in X!Schedules /\ made' = 0 /\ reexportable' = (X!Holding # {})
    BY <1>3 DEF X!ComesDue, X!archives, X!Armed, X!Schedules
  <2>2. X!TypeOK' /\ ExportKnows' /\ X!OfferedIsThere' /\ OffInv'
    BY <1>0, <2>1 DEF X!TypeOK, ExportKnows, OffInv, X!OfferedIsThere
  <2>3. BegunOnce'
    <3>1. ASSUME ~reexportable' PROVE X!Holding' = {}
      BY <2>1, <3>1
    <3> QED BY <2>1, <3>1 DEF BegunOnce
  <2> QED BY <2>2, <2>3 DEF ExportInv
<1>4. CASE X!GrowsOld
  <2>1. /\ UNCHANGED <<schedule, banned, off, tick, files, prune, made, reexportable>>
        /\ archive' \in X!Archives /\ archive'.old /\ archive'.status = archive.status
        /\ archive.status # "none" /\ \A x \in Replicas : tick[x] \notin X!Exporting
    BY <1>0, <1>4 DEF X!GrowsOld, X!schedules, X!counted, X!TypeOK, X!Archives
  <2> QED BY <1>0, <2>1 DEF ExportInv, X!TypeOK, ExportKnows, BegunOnce, OffInv, X!OfferedIsThere
<1> QED BY <1>1, <1>2, <1>3, <1>4 DEF Exporter
---------------------------------------------------------------------------
(* Erasure.                                                              *)
LEMMA EraserSteps ==
  ASSUME ErasureInv, NEW w \in Replicas, ProcessScheduledDeletions(w)
  PROVE  ErasureInv'
<1> USE DEF E!Working, E!Everything, E!Requests
<1>0. E!TypeOK /\ EraserKnows /\ ErasedAlone /\ E!CompletedIsErased
  BY DEF ErasureInv
<1> DEFINE Steps == {"idle", "strip", "posts", "rename", "complete", "fail"}
<1>a. eraser \in [Replicas -> Steps]
  BY <1>0 DEF E!TypeOK
<1> DEFINE s == eraser'[w]
<1>1. /\ UNCHANGED <<asking, locked, referenced, late>> /\ s \in Steps
      /\ eraser' = [eraser EXCEPT ![w] = s]
      /\ left' \subseteq left /\ (left' # left => request.due)
      /\ s # "idle" => request.due
      /\ s \in {"posts", "rename", "complete"} => "activity" \notin left'
      /\ s \in {"rename", "complete"} => "posts" \notin left' \/ late
      /\ s = "complete" => "profile" \notin left'
  <2> USE DEF E!Go
  <2>1. CASE E!ListDue(w)
    BY <1>a, <2>1 DEF E!ListDue
  <2>2. CASE E!Strip(w)
    BY <1>0, <1>a, <2>2 DEF E!Strip, EraserKnows
  <2>3. CASE E!RemovePosts(w)
    BY <1>0, <1>a, <2>3 DEF E!RemovePosts, EraserKnows
  <2>4. CASE E!Rename(w)
    BY <1>0, <1>a, <2>4 DEF E!Rename, EraserKnows
  <2>5. CASE E!NoteOutcome(w)
    BY <1>0, <1>a, <2>5 DEF E!NoteOutcome
  <2>6. CASE E!EraseFails(w)
    BY <1>0, <1>a, <2>6 DEF E!EraseFails, EraserKnows
  <2>7. CASE E!EraserStops(w)
    BY <1>0, <1>a, <2>7 DEF E!EraserStops
  <2> QED BY <2>1, <2>2, <2>3, <2>4, <2>5, <2>6, <2>7 DEF ProcessScheduledDeletions
<1>2. \/ /\ eraser[w] = "idle" /\ s # "idle" /\ request' = request /\ request.status = "pending"
         /\ twice' = (twice \/ E!Working # {})
      \/ eraser[w] # "idle" /\ request' = request /\ twice' = twice
      \/ /\ eraser[w] \in {"complete", "fail"} /\ s = "idle" /\ twice' = twice
         /\ request' = [request EXCEPT !.status = IF eraser[w] = "complete" THEN "completed" ELSE "failed"]
  <2>1. CASE E!ListDue(w)
    BY <1>a, <2>1 DEF E!ListDue, E!Go
  <2>2. CASE E!NoteOutcome(w)
    BY <1>a, <2>2 DEF E!NoteOutcome, E!Go
  <2>3. CASE E!Strip(w) \/ E!RemovePosts(w) \/ E!Rename(w) \/ E!EraseFails(w) \/ E!EraserStops(w)
    BY <2>3 DEF E!Strip, E!RemovePosts, E!Rename, E!EraseFails, E!EraserStops
  <2> QED BY <2>1, <2>2, <2>3 DEF ProcessScheduledDeletions
<1> HIDE DEF s
<1>3. eraser'[w] = s /\ \A x \in Replicas \ {w} : eraser'[x] = eraser[x]
  BY <1>a, <1>1 DEF s
<1>4. /\ request' \in E!Requests /\ request'.due = request.due
      /\ request' = request \/ (request'.status \in {"completed", "failed"} /\ request.due)
  <2>1. request \in E!Requests
    BY <1>0 DEF E!TypeOK
  <2>2. eraser[w] # "idle" => request.due
    BY <1>0 DEF EraserKnows
  <2>3. CASE request' = request
    BY <2>1, <2>3
  <2>4. CASE /\ eraser[w] # "idle"
             /\ request' = [request EXCEPT !.status =
                  IF eraser[w] = "complete" THEN "completed" ELSE "failed"]
    BY <2>1, <2>2, <2>4
  <2> QED BY <1>2, <2>3, <2>4
<1>5. E!TypeOK'
  <2>1. twice' \in BOOLEAN
    BY <1>0, <1>2 DEF E!TypeOK
  <2> QED BY <1>0, <1>a, <1>1, <1>4, <2>1 DEF E!TypeOK
<1>6. EraserKnows'
  BY <1>0, <1>1, <1>3, <1>4 DEF EraserKnows
<1>7. ErasedAlone'
  <2>1. CASE eraser[w] = "idle"
    <3>1. ASSUME ~twice' PROVE E!Working = {}
      BY <1>2, <2>1, <3>1
    <3>2. request' = request /\ request.status = "pending"
      BY <1>2, <2>1
    <3> QED BY <1>3, <3>1, <3>2 DEF ErasedAlone
  <2>2. CASE eraser[w] # "idle" /\ request' = request /\ twice' = twice
    BY <1>0, <1>3, <2>2 DEF ErasedAlone
  <2>3. CASE eraser[w] # "idle" /\ s = "idle" /\ twice' = twice
    <3>1. ASSUME ~twice' PROVE E!Working' = {}
      BY <1>0, <1>3, <2>3, <3>1 DEF ErasedAlone
    <3> QED BY <3>1 DEF ErasedAlone
  <2> QED BY <1>2, <2>1, <2>2, <2>3
<1>8. E!CompletedIsErased'
  <2>1. ASSUME request'.status = "completed" PROVE left' \subseteq (IF late' THEN {"posts"} ELSE {})
    <3>1. CASE request' = request
      BY <1>0, <1>1, <2>1, <3>1 DEF E!CompletedIsErased
    <3>2. CASE request' # request
      <4>1. eraser[w] = "complete" /\ request' = [request EXCEPT !.status = IF eraser[w] = "complete" THEN "completed" ELSE "failed"]
        BY <1>0, <1>2, <2>1, <3>2 DEF E!TypeOK
      <4> QED BY <1>0, <1>1, <4>1 DEF EraserKnows, E!TypeOK
    <3> QED BY <3>1, <3>2
  <2>2. ~request'.due => left' = E!Everything
    BY <1>0, <1>1, <1>4 DEF E!CompletedIsErased
  <2> QED BY <2>1, <2>2 DEF E!CompletedIsErased
<1> QED BY <1>5, <1>6, <1>7, <1>8 DEF ErasureInv

LEMMA AskerSteps ==
  ASSUME ErasureInv, InitiateDeletion \/ Others
  PROVE  ErasureInv'
<1> USE DEF E!Working, E!Everything, E!Requests
<1>0. E!TypeOK /\ EraserKnows /\ ErasedAlone /\ E!CompletedIsErased
  BY DEF ErasureInv
<1>1. CASE E!Ask \/ E!ComesDue
  <2>1. /\ UNCHANGED <<locked, left, referenced, eraser, twice, late>> /\ asking' \in BOOLEAN
        /\ request' \in E!Requests /\ request'.status = "pending"
        /\ request.status \in {"none", "pending"} /\ ~request.due
    <3>1. CASE E!Ask
      BY <1>0, <3>1 DEF E!Ask, E!TypeOK, E!NoRequest
    <3>2. CASE E!ComesDue
      BY <1>0, <3>2 DEF E!ComesDue, E!TypeOK
    <3> QED BY <1>1, <3>1, <3>2
  <2>2. E!TypeOK' /\ E!CompletedIsErased'
    BY <1>0, <2>1 DEF E!TypeOK, E!CompletedIsErased
  <2>3. EraserKnows' /\ ErasedAlone'
    BY <1>0, <2>1 DEF EraserKnows, ErasedAlone
  <2> QED BY <2>2, <2>3 DEF ErasureInv
<1>2. CASE E!Lock \/ E!AskStops \/ \E there \in BOOLEAN : E!Comment(there)
  <2>1. /\ UNCHANGED <<request, left, eraser, twice, late>>
        /\ asking' \in BOOLEAN /\ locked' \in BOOLEAN /\ referenced' \in BOOLEAN
    BY <1>0, <1>2 DEF E!Lock, E!AskStops, E!Comment, E!TypeOK
  <2> QED BY <1>0, <2>1 DEF ErasureInv, E!TypeOK, E!CompletedIsErased, EraserKnows, ErasedAlone
<1>3. CASE E!PublishLate
  <2>1. /\ UNCHANGED <<request, asking, locked, referenced, eraser, twice>>
        /\ left' = left \cup {"posts"} /\ late' = TRUE
    BY <1>3 DEF E!PublishLate
  <2>2. request.due
    BY <1>0, <1>3 DEF E!PublishLate, EraserKnows
  <2>3. E!TypeOK' /\ ErasedAlone'
    BY <1>0, <2>1 DEF E!TypeOK, ErasedAlone
  <2>4. EraserKnows'
    BY <1>0, <2>1 DEF EraserKnows
  <2>5. E!CompletedIsErased'
    <3>1. request.status = "completed" => left' \subseteq {"posts"}
      BY <1>0, <2>1 DEF E!CompletedIsErased
    <3> QED BY <2>1, <2>2, <3>1 DEF E!CompletedIsErased
  <2> QED BY <2>3, <2>4, <2>5 DEF ErasureInv
<1> QED BY <1>1, <1>2, <1>3 DEF InitiateDeletion, Others
---------------------------------------------------------------------------
(* The components together.                                              *)
LEMMA ScheduleRests ==
  ASSUME ScheduleInv, UNCHANGED <<origin, scheduled>>, posts' \in 0..2,
         posts' = posts \/ origin # "schedule"
  PROVE  ScheduleInv'
<1> USE DEF S!NoRow, S!Idle, S!Held
<1>1. S!TypeOK'
  BY DEF ScheduleInv, S!TypeOK, scheduled
<1>2. ScheduleKnows' /\ PublishedOnce'
  <2>1. CASE posts' = posts
    BY <2>1 DEF ScheduleInv, ScheduleKnows, PublishedOnce, scheduled
  <2>2. CASE origin # "schedule"
    <3>1. row = S!NoRow /\ edit = S!NoRow /\ \A w \in Replicas : publisher[w] = S!Idle
      BY <2>2 DEF ScheduleInv, ScheduleKnows
    <3> QED BY <2>2, <3>1 DEF ScheduleKnows, PublishedOnce, scheduled
  <2> QED BY <2>1, <2>2
<1> QED BY <1>1, <1>2 DEF ScheduleInv

LEMMA QueueRests ==
  ASSUME MaxFaults \in Nat, faults \in 0..MaxFaults, faults' \in 0..MaxFaults, faults' >= faults,
         QueueInv, UNCHANGED <<origin, queued>>, posts' = posts \/ origin # "offline"
  PROVE  QueueInv'
<1> USE DEF Q!NoOp, Q!Cleared, Q!Idle, Q!InFlight, Q!Ops
<1>0. Q!TypeOK /\ QueueKnows /\ ExecutedOnce
  BY DEF QueueInv
<1>1. Q!TypeOK'
  BY <1>0 DEF Q!TypeOK, queued
<1>2. op.attempts \in 0..MaxFaults
      /\ \A s \in Syncs : sync[s] # Q!Idle => sync[s].attempts \in 0..MaxFaults
  BY <1>0 DEF Q!TypeOK
<1>3. QueueKnows' /\ ExecutedOnce'
  <2>1. CASE posts' = posts
    BY <1>0, <1>2, <2>1 DEF QueueKnows, ExecutedOnce, queued
  <2>2. CASE origin # "offline"
    <3>1. op = Q!NoOp /\ \A s \in Syncs : sync[s] = Q!Idle
      BY <1>0, <2>2 DEF QueueKnows
    <3> QED BY <1>0, <1>2, <2>2, <3>1 DEF QueueKnows, ExecutedOnce, queued
  <2> QED BY <2>1, <2>2
<1> QED BY <1>1, <1>3 DEF QueueInv

LEMMA ExportsRest == ASSUME ExportInv, UNCHANGED exports PROVE ExportInv'
BY DEF ExportInv, exports, X!TypeOK, ExportKnows, BegunOnce, X!Holding, OffInv, X!OfferedIsThere

LEMMA ErasureRests == ASSUME ErasureInv, UNCHANGED erasure PROVE ErasureInv'
BY DEF ErasureInv, erasure, E!TypeOK, EraserKnows, ErasedAlone, E!Working, E!CompletedIsErased

LEMMA BackgroundStart == ASSUME Init PROVE BackgroundInv
<1>1. ScheduleInv
  <2> USE DEF S!NoRow, S!Idle, S!Held
  <2>1. /\ row = S!NoRow /\ edit = S!NoRow /\ posts = 0 /\ republishable = FALSE
        /\ publisher = [w \in Replicas |-> S!Idle]
    BY DEF Init, S!Init
  <2>2. \A w \in Replicas : publisher[w] = S!Idle /\ publisher[w].step = "idle"
    BY <2>1
  <2>3. S!TypeOK
    BY <2>1 DEF S!TypeOK
  <2>4. ScheduleKnows
    BY <2>1, <2>2 DEF ScheduleKnows
  <2>5. PublishedOnce
    BY <2>1, <2>2 DEF PublishedOnce
  <2> QED BY <2>1, <2>3, <2>4, <2>5 DEF ScheduleInv
<1>2. QueueInv
  <2> USE DEF Q!NoOp, Q!Idle, Q!Cleared, Q!InFlight
  <2>1. /\ op = Q!NoOp /\ posts = 0 /\ reexecutable = FALSE /\ faults = 0
        /\ sync = [s \in Syncs |-> Q!Idle]
    BY DEF Init, Q!Init
  <2>2. \A s \in Syncs : sync[s] = Q!Idle /\ sync[s].step = "idle"
    BY <2>1
  <2>3. Q!TypeOK
    BY <2>1 DEF Q!TypeOK
  <2>4. QueueKnows
    BY <2>1, <2>2 DEF QueueKnows
  <2>5. ExecutedOnce
    BY <2>1, <2>2 DEF ExecutedOnce
  <2> QED BY <2>3, <2>4, <2>5 DEF QueueInv
<1>3. WebhookInv
  <2>1. W!TypeOK
    BY DEF Init, W!Init, W!TypeOK, W!NoRow, W!Row, W!Resting, W!Ticks
  <2>2. TicksKnow
    BY DEF Init, W!Init, TicksKnow, W!Resting
  <2>3. \A e \in Events : RowKnown(e) /\ SentOnce(e)
    BY DEF Init, W!Init, RowKnown, SentOnce, W!NoRow, W!Resting, W!InHand
  <2> QED BY <2>1, <2>2, <2>3 DEF WebhookInv
<1>4. ExportInv
  <2> USE DEF X!NoSchedule, X!NoArchive, X!Holding, X!Exporting
  <2>1. /\ schedule = X!NoSchedule /\ banned = FALSE /\ archive = X!NoArchive /\ files = {}
        /\ tick = [w \in Replicas |-> "idle"] /\ prune = [w \in Replicas |-> "idle"]
        /\ made = 0 /\ reexportable = FALSE /\ off = FALSE
    BY DEF Init, X!Init
  <2>2. X!TypeOK
    <3>1. "idle" \in X!Steps /\ X!NoArchive \in X!Archives
      BY DEF X!Steps, X!Archives
    <3>2. /\ schedule \in X!Schedules \cup {X!NoSchedule}
          /\ banned \in BOOLEAN /\ reexportable \in BOOLEAN /\ off \in BOOLEAN
      BY <2>1
    <3>3. made \in 0..2 /\ files \subseteq Replicas /\ archive \in X!Archives
      BY <2>1, <3>1
    <3>4. tick \in [Replicas -> X!Steps] /\ prune \in [Replicas -> {"idle", "unlink", "save", "sweep"}]
      BY <2>1, <3>1
    <3> QED BY <3>2, <3>3, <3>4 DEF X!TypeOK
  <2>3. ExportKnows
    BY <2>1 DEF ExportKnows
  <2>4. BegunOnce /\ OffInv /\ X!OfferedIsThere
    BY <2>1 DEF BegunOnce, OffInv, X!OfferedIsThere
  <2> QED BY <2>2, <2>3, <2>4 DEF ExportInv
<1>5. ErasureInv
  BY DEF Init, ErasureInv, E!Init, E!TypeOK, E!NoRequest, E!Requests, E!Everything, E!Working,
     E!CompletedIsErased, EraserKnows, ErasedAlone
<1> QED BY <1>1, <1>2, <1>3, <1>4, <1>5, BoundsAssumption DEF Init, BackgroundInv, NoPosts

(* What every step does to the bounds of the model.                      *)
LEMMA BoundsKept ==
  ASSUME faults \in 0..MaxFaults, changes \in 0..MaxChanges,
         UNCHANGED bounds \/ Fault \/ Change
  PROVE  faults' \in 0..MaxFaults /\ changes' \in 0..MaxChanges /\ faults' >= faults
BY BoundsAssumption DEF bounds, Fault, Change

LEMMA BoundsMove ==
  ASSUME [Next]_vars
  PROVE  UNCHANGED bounds \/ Fault \/ Change
<1>1. ASSUME NEW outcome, CostOf(outcome) PROVE UNCHANGED bounds \/ Fault
  BY <1>1 DEF CostOf
<1>2. CASE Author \/ TimePasses \/ WritePost \/ Developer \/ Exporter \/ InitiateDeletion \/ Others
  BY <1>2 DEF Author, TimePasses, WritePost, Developer, Exporter, InitiateDeletion, Others
<1>3. ASSUME NEW w \in Replicas, PublishDue(w) PROVE UNCHANGED bounds \/ Fault
  BY <1>1, <1>3 DEF PublishDue
<1>4. ASSUME NEW w \in Replicas, RetryFailed(w) PROVE UNCHANGED bounds \/ Fault
  BY <1>1, <1>4 DEF RetryFailed
<1>5. ASSUME NEW s \in Syncs, SyncPending(s) PROVE UNCHANGED bounds \/ Fault
  BY <1>1, <1>5 DEF SyncPending
<1>6. ASSUME NEW e \in Events, DispatchEvent(e) PROVE UNCHANGED bounds \/ Fault
  BY <1>1, <1>6 DEF DispatchEvent
<1>7. ASSUME NEW w \in Replicas, RunScheduledExports(w) \/ PruneExpiredArchives(w)
                                 \/ ProcessScheduledDeletions(w)
      PROVE  UNCHANGED bounds \/ Fault
  BY <1>7 DEF RunScheduledExports, PruneExpiredArchives, ProcessScheduledDeletions
<1>8. CASE UNCHANGED vars
  BY <1>8 DEF vars
<1> QED BY <1>2, <1>3, <1>4, <1>5, <1>6, <1>7, <1>8 DEF Next

LEMMA BackgroundStep == ASSUME BackgroundInv, [Next]_vars PROVE BackgroundInv'
<1>0. /\ origin \in Origins /\ faults \in 0..MaxFaults /\ changes \in 0..MaxChanges
      /\ ScheduleInv /\ QueueInv /\ NoPosts /\ WebhookInv /\ ExportInv /\ ErasureInv
      /\ posts \in 0..2
  BY DEF BackgroundInv, ScheduleInv
<1>b. faults' \in 0..MaxFaults /\ changes' \in 0..MaxChanges /\ faults' >= faults
  BY <1>0, BoundsMove, BoundsKept
<1>n. MaxFaults \in Nat
  BY BoundsAssumption
<1>1. CASE Author \/ TimePasses
  <2>1. UNCHANGED <<origin, posts, queued, hooks, exports, erasure>>
    BY <1>1 DEF Author, TimePasses
  <2>2. ScheduleInv'
    BY <1>0, <1>1, AuthorSteps
  <2> QED BY <1>0, <1>b, <1>n, <2>1, <2>2, QueueRests, HooksRest, ExportsRest, ErasureRests
          DEF BackgroundInv, NoPosts
<1>2. ASSUME NEW w \in Replicas, PublishDue(w) PROVE BackgroundInv'
  <2>1. UNCHANGED <<origin, queued, exports, erasure>> /\ origin = "schedule"
    BY <1>2 DEF PublishDue
  <2>2. ScheduleInv'
    BY <1>0, <1>2, PublisherSteps
  <2>3. WebhookInv'
    <3>1. UNCHANGED hooks \/ \E outcome \in S!Outcomes : CreatePost(outcome)
      BY <1>2 DEF PublishDue
    <3> QED BY <1>0, <3>1, HooksRest, PostRaises
  <2> QED BY <1>0, <1>b, <1>n, <2>1, <2>2, <2>3, QueueRests, ExportsRest, ErasureRests
          DEF BackgroundInv, NoPosts
<1>3. CASE WritePost \/ \E s \in Syncs : SyncPending(s)
  <2>1. UNCHANGED <<origin, scheduled, exports, erasure>> /\ origin = "offline"
    BY <1>3 DEF WritePost, SyncPending
  <2>2. QueueInv'
    BY <1>0, <1>3, <1>n, WriterSteps, SyncSteps
  <2>3. UNCHANGED <<posts, hooks>> \/ \E outcome \in {"ok", "refused", "lost", "half"} : CreatePost(outcome)
    BY <1>3 DEF WritePost, SyncPending
  <2>4. WebhookInv' /\ posts' \in 0..2
    BY <1>0, <2>3, HooksRest, PostRaises, PostsGrow
  <2> QED BY <1>0, <1>b, <2>1, <2>2, <2>4, ScheduleRests, ExportsRest, ErasureRests
          DEF BackgroundInv, NoPosts
<1>4. CASE \/ \E e \in Events : DispatchEvent(e)
           \/ \E r \in Replicas : RetryFailed(r)
           \/ Developer
  <2>1. UNCHANGED <<origin, posts, scheduled, queued, exports, erasure>>
    BY <1>4 DEF DispatchEvent, RetryFailed, Developer
  <2>2. WebhookInv'
    BY <1>0, <1>4, DispatchSteps, RetrySteps, DeveloperSteps
  <2> QED BY <1>0, <1>b, <1>n, <2>1, <2>2, ScheduleRests, QueueRests, ExportsRest, ErasureRests
          DEF BackgroundInv, NoPosts
<1>5. CASE \/ \E w \in Replicas : RunScheduledExports(w) \/ PruneExpiredArchives(w)
           \/ Exporter
  <2>1. UNCHANGED <<origin, posts, scheduled, queued, hooks, erasure>>
    BY <1>5 DEF RunScheduledExports, PruneExpiredArchives, Exporter
  <2>2. ExportInv'
    BY <1>0, <1>5, ExportCronSteps, PrunerSteps, ExporterSteps
  <2> QED BY <1>0, <1>b, <1>n, <2>1, <2>2, ScheduleRests, QueueRests, HooksRest, ErasureRests
          DEF BackgroundInv, NoPosts
<1>6. CASE \/ \E w \in Replicas : ProcessScheduledDeletions(w)
           \/ InitiateDeletion \/ Others
  <2>1. UNCHANGED <<origin, posts, scheduled, queued, hooks, exports>>
    BY <1>6 DEF ProcessScheduledDeletions, InitiateDeletion, Others
  <2>2. ErasureInv'
    BY <1>0, <1>6, EraserSteps, AskerSteps
  <2> QED BY <1>0, <1>b, <1>n, <2>1, <2>2, ScheduleRests, QueueRests, HooksRest, ExportsRest
          DEF BackgroundInv, NoPosts
<1>7. CASE UNCHANGED vars
  BY <1>0, <1>b, <1>n, <1>7, ScheduleRests, QueueRests, HooksRest, ExportsRest, ErasureRests
     DEF vars, BackgroundInv, NoPosts
<1> QED BY <1>1, <1>2, <1>3, <1>4, <1>5, <1>6, <1>7 DEF Next

LEMMA BackgroundInvariant == Spec => []BackgroundInv
BY BackgroundStart, BackgroundStep, PTL DEF Spec

---------------------------------------------------------------------------
(* Rows, queues, ticks and what is counted keep their types, for every   *)
(* number of replicas, syncs, events, faults and changes.                *)
THEOREM BackgroundTypes == Spec => []TypeOK
<1>1. BackgroundInv => TypeOK
  BY DEF BackgroundInv, ScheduleInv, QueueInv, WebhookInv, ExportInv, ErasureInv, TypeOK
<1> QED BY <1>1, BackgroundInvariant, PTL

(* A scheduled or queued post is created once, never lost, and twice only  *)
(* for a reason; a schedule that comes due is exported once: whatever    *)
(* number of crons, tabs and failures interleave.                        *)
THEOREM DoneOnceAlways == Spec => []DoneOnce
<1>1. BackgroundInv => DoneOnce
  <2> SUFFICES ASSUME BackgroundInv PROVE DoneOnce
    OBVIOUS
  <2>0. ScheduleInv /\ QueueInv /\ NoPosts /\ ExportInv /\ posts \in 0..2
    BY DEF BackgroundInv, ScheduleInv
  <2>1. OnePostUnlessExcused
    BY <2>0 DEF ScheduleInv, PublishedOnce, QueueInv, ExecutedOnce, NoPosts, OnePostUnlessExcused
  <2>2. NothingLost
    BY <2>0 DEF ScheduleInv, ScheduleKnows, QueueInv, QueueKnows, NothingLost
  <2>3. X!ExportedOnce
    BY <2>0 DEF ExportInv, BegunOnce, X!TypeOK, X!ExportedOnce
  <2> QED BY <2>1, <2>2, <2>3 DEF DoneOnce
<1> QED BY <1>1, BackgroundInvariant, PTL

(* A delivery noted as delivered was received and one that waits where no  *)
(* cron looks was orphaned; an event is received twice only for a reason;  *)
(* an archive that is offered is on a disk; and a deletion noted as      *)
(* completed has removed the user.                                       *)
THEOREM NotesAreAlwaysTrue == Spec => []NotesAreTrue
<1>1. BackgroundInv => NotesAreTrue
  <2> SUFFICES ASSUME BackgroundInv PROVE NotesAreTrue
    OBVIOUS
  <2>1. W!EventKept /\ W!RepeatedForAReason
    <3>1. \A e \in Events : RowKnown(e) /\ SentOnce(e) /\ got[e] \in 0..2
      BY DEF BackgroundInv, WebhookInv, W!TypeOK
    <3> QED BY <3>1 DEF RowKnown, SentOnce, W!EventKept, W!RepeatedForAReason
  <2> QED BY <2>1 DEF BackgroundInv, ExportInv, ErasureInv, NotesAreTrue
<1> QED BY <1>1, BackgroundInvariant, PTL

---------------------------------------------------------------------------
(* What is over stays over, step by step.                                *)
LEMMA GoneStays ==
  ASSUME BackgroundInv, [Next]_vars, Gone
  PROVE  Gone' /\ posts' = posts
<1> USE DEF S!NoRow, S!Cancelled, S!Rows, S!Held, S!Idle
<1>1. row.status = "cancelled" /\ row \notin S!Rows /\ row # S!NoRow /\ edit = S!NoRow
      /\ \A w \in Replicas : publisher[w] = S!Idle
  BY DEF Gone
<1>2. origin = "schedule"
  BY <1>1 DEF BackgroundInv, ScheduleInv, ScheduleKnows
<1>3. UNCHANGED <<scheduled, posts>>
  <2>1. ~Author /\ ~TimePasses
    BY <1>1 DEF Author, TimePasses, S!Schedule, S!EditLoad, S!EditSave, S!Cancel, S!ComesDue
  <2>2. ASSUME NEW w \in Replicas PROVE ~PublishDue(w)
    BY <1>1 DEF PublishDue, S!ListDue, S!SaveOutcome, S!Publish, S!PublisherStops
  <2>3. CASE UNCHANGED vars
    BY <2>3 DEF vars
  <2> QED BY <1>2, <2>1, <2>2, <2>3 DEF Next, WritePost, SyncPending, DispatchEvent, RetryFailed,
         Developer, RunScheduledExports, PruneExpiredArchives, Exporter, InitiateDeletion, Others,
         ProcessScheduledDeletions
<1> QED BY <1>3 DEF Gone, scheduled

LEMMA DeliveredStays ==
  ASSUME BackgroundInv, [Next]_vars, NEW e \in Events, delivery[e].status = "delivered"
  PROVE  delivery'[e].status \in {"delivered", "removed"}
<1> USE DEF W!NoRow, W!Row
<1>0. RowKnown(e) /\ delivery \in [Events -> W!Row]
      /\ attempt[e] \in {"idle", "finding", "saving", "sending", "accepted", "rejected"}
  BY DEF BackgroundInv, WebhookInv, W!TypeOK
<1>i. attempt[e] = "idle"
  BY <1>0 DEF RowKnown
<1>1. ASSUME NEW outcome, CreatePost(outcome) PROVE delivery' = delivery
  BY <1>1 DEF CreatePost, W!Dispatch, hooks
<1>2. ASSUME NEW w \in Replicas, PublishDue(w) PROVE delivery' = delivery
  BY <1>1, <1>2 DEF PublishDue, hooks
<1>3. ASSUME WritePost \/ \E s \in Syncs : SyncPending(s) PROVE delivery' = delivery
  BY <1>1, <1>3 DEF WritePost, SyncPending, hooks
<1>4. ASSUME NEW x \in Events, DispatchEvent(x) PROVE delivery'[e] = delivery[e]
  <2>1. x # e
    BY <1>4, <1>i DEF DispatchEvent, W!FindTargets, W!SaveDelivery, W!NoteDelivered, W!NoteFailed,
                      W!Send, W!NoteLost, W!AttemptStops
  <2> QED BY <1>0, <1>4, <2>1 DEF DispatchEvent, W!FindTargets, W!SaveDelivery, W!NoteDelivered,
                      W!NoteFailed, W!Send, W!NoteLost, W!AttemptStops, W!Updated
<1>5. ASSUME NEW r \in Replicas, RetryFailed(r)
      PROVE  delivery'[e].status \in {"delivered", "removed"}
  <2>1. CASE UNCHANGED delivery
    BY <2>1
  <2>2. ASSUME NEW x \in Events, W!NoteRetried(r, x)
        PROVE  delivery'[e].status \in {"delivered", "removed"}
    <3>1. delivery' = [delivery EXCEPT ![x] = IF delivery[x].status = "removed" THEN delivery[x]
                                              ELSE [delivery[x] EXCEPT !.status = "delivered"]]
      BY <1>0, <2>2 DEF W!NoteRetried, W!Updated
    <3> QED BY <1>0, <3>1
  <2> QED BY <1>5, <2>1, <2>2 DEF RetryFailed, W!ListFailed, W!Resend, W!RetryStops
<1>6. CASE Developer
  <2>1. CASE UNCHANGED delivery
    BY <2>1
  <2>2. CASE W!DeleteEndpoint
    BY <2>2 DEF W!DeleteEndpoint
  <2> QED BY <1>6, <2>1, <2>2 DEF Developer, W!SetActive
<1>7. CASE UNCHANGED delivery
  BY <1>7
<1> QED BY <1>2, <1>3, <1>4, <1>5, <1>6, <1>7 DEF Next, Author, TimePasses, RunScheduledExports,
       PruneExpiredArchives, Exporter, InitiateDeletion, Others, ProcessScheduledDeletions, hooks, vars

LEMMA EndedStaysEnded ==
  ASSUME BackgroundInv, [Next]_vars
  PROVE  E!EndedStays
<1> SUFFICES ASSUME request.status \in {"completed", "failed"}, ~twice
             PROVE  request' = request
  BY DEF E!EndedStays
<1>1. \A w \in Replicas : eraser[w] = "idle"
  BY DEF BackgroundInv, ErasureInv, ErasedAlone, E!Working
<1>2. ASSUME NEW w \in Replicas, ProcessScheduledDeletions(w) PROVE request' = request
  BY <1>1, <1>2 DEF ProcessScheduledDeletions, E!ListDue, E!Strip, E!RemovePosts, E!Rename,
                    E!NoteOutcome, E!EraseFails, E!EraserStops
<1>3. CASE InitiateDeletion \/ Others
  BY <1>3 DEF InitiateDeletion, Others, E!Ask, E!Lock, E!AskStops, E!ComesDue, E!Comment,
              E!PublishLate, E!NoRequest
<1>4. CASE UNCHANGED erasure
  BY <1>4 DEF erasure
<1> QED BY <1>2, <1>3, <1>4 DEF Next, Author, TimePasses, PublishDue, WritePost, SyncPending,
       DispatchEvent, RetryFailed, Developer, RunScheduledExports, PruneExpiredArchives, Exporter, vars

(* A cancelled post of which nobody holds a copy is never posted again, a  *)
(* delivery noted as delivered is not taken up as failed, a deletion that  *)
(* has ended is not begun again, and a schedule switched off while no tick *)
(* holds it stays off: in every step of every interleaving.              *)
THEOREM OverStaysOver == Spec => NothingReturns
<1> DEFINE Over == /\ Gone => Gone' /\ posts' = posts
                   /\ \A e \in Events : delivery[e].status = "delivered"
                        => delivery'[e].status \in {"delivered", "removed"}
                   /\ E!EndedStays
<1>1. BackgroundInv /\ [Next]_vars => Over
  BY GoneStays, DeliveredStays, EndedStaysEnded
<1>2. BackgroundInv => X!OffStaysOff
  BY DEF BackgroundInv, ExportInv, OffInv, X!OffStaysOff
<1> HIDE DEF Over
<1>3. Spec => [][Over]_vars /\ []X!OffStaysOff
  BY <1>1, <1>2, BackgroundInvariant, PTL DEF Spec
<1> QED BY <1>3 DEF NothingReturns, Over
=============================================================================
