------------------------------ MODULE Erasure -------------------------------
(***************************************************************************)
(* The deletion of an account: initiateDeletion and the cron               *)
(* processScheduledDeletions of                                            *)
(* server/src/data-export/data-export.service.ts, on several replicas, and *)
(* deleteAllUserData of export.service.ts, which the cron calls without a  *)
(* transaction.  Others may comment on the user's posts: a foreign key then*)
(* refuses their removal.  A post that the user had scheduled is published *)
(* whether its author is banned, or gone, or not.                          *)
(*                                                                         *)
(* Composed by Background.                                                 *)
(***************************************************************************)
EXTENDS Integers

CONSTANTS Replicas      \* server replicas: each runs the cron

VARIABLES
    request,      \* the row of data_export that asks for the deletion
    asking,       \* initiateDeletion has saved the request and not yet banned the user
    locked,       \* users.banned
    left,         \* what is left of the user
    referenced,   \* somebody else's row refers to one of the posts
    eraser,       \* eraser[w]: the tick on replica w
    twice,        \* history: two ticks had the request in hand
    late          \* history: a scheduled post was published after the removal began

vars == <<request, asking, locked, left, referenced, eraser, twice, late>>

Everything == {"activity", "posts", "profile"}

NoRequest == [status |-> "none", due |-> FALSE]
Requests == [status : {"none", "pending", "completed", "failed"}, due : BOOLEAN]

Init ==
    /\ request = NoRequest /\ asking = FALSE /\ locked = FALSE
    /\ left = Everything /\ referenced \in BOOLEAN
    /\ eraser = [w \in Replicas |-> "idle"]
    /\ twice = FALSE /\ late = FALSE

Go(w, step) == eraser' = [eraser EXCEPT ![w] = step]
Working == {w \in Replicas : eraser[w] # "idle"}
---------------------------------------------------------------------------
(* initiateDeletion.                                                       *)
Ask ==
    /\ request = NoRequest
    /\ request' = [status |-> "pending", due |-> FALSE]
    /\ asking' = TRUE
    /\ UNCHANGED <<locked, left, referenced, eraser, twice, late>>

Lock ==
    /\ asking
    /\ asking' = FALSE /\ locked' = TRUE
    /\ UNCHANGED <<request, left, referenced, eraser, twice, late>>

AskStops ==
    /\ asking /\ asking' = FALSE
    /\ UNCHANGED <<request, locked, left, referenced, eraser, twice, late>>

(* Thirty days pass.                                                       *)
ComesDue ==
    /\ request.status = "pending" /\ ~request.due /\ ~asking
    /\ request' = [request EXCEPT !.due = TRUE]
    /\ UNCHANGED <<asking, locked, left, referenced, eraser, twice, late>>

(* Somebody comments on a post of the user, or takes the comment back.     *)
Comment(there) ==
    /\ referenced # there /\ "posts" \in left
    /\ referenced' = there
    /\ UNCHANGED <<request, asking, locked, left, eraser, twice, late>>

---------------------------------------------------------------------------
(* processScheduledDeletions and deleteAllUserData.                        *)

(* Variant: requests that failed are taken up as well.                     *)
ListOpen(w) ==
    /\ eraser[w] = "idle"
    /\ request.status \in {"pending", "failed"} /\ request.due
    /\ Go(w, "strip")
    /\ twice' = (twice \/ Working # {})
    /\ UNCHANGED <<request, asking, locked, left, referenced, late>>

ListDue(w) ==
    /\ eraser[w] = "idle"
    /\ request.status = "pending" /\ request.due
    /\ Go(w, "strip")
    /\ twice' = (twice \/ Working # {})
    /\ UNCHANGED <<request, asking, locked, left, referenced, late>>

(* Comments, reactions, messages, orders, ledger entries and so on.        *)
Strip(w) ==
    /\ eraser[w] = "strip"
    /\ left' = left \ {"activity"}
    /\ Go(w, "posts")
    /\ UNCHANGED <<request, asking, locked, referenced, twice, late>>

(* Variant: the posts' refusal is passed over.                             *)
RemovePostsIfAny(w) ==
    /\ eraser[w] = "posts"
    /\ Go(w, "rename") /\ left' = IF referenced THEN left ELSE left \ {"posts"}
    /\ UNCHANGED <<request, asking, locked, referenced, twice, late>>

(* The posts; the database refuses if one is referred to.                  *)
RemovePosts(w) ==
    /\ eraser[w] = "posts"
    /\ IF referenced
       THEN Go(w, "fail") /\ UNCHANGED left
       ELSE Go(w, "rename") /\ left' = left \ {"posts"}
    /\ UNCHANGED <<request, asking, locked, referenced, twice, late>>

(* The follows, and the name, e-mail, bio and picture of the user.         *)
Rename(w) ==
    /\ eraser[w] = "rename"
    /\ left' = left \ {"profile"}
    /\ Go(w, "complete")
    /\ UNCHANGED <<request, asking, locked, referenced, twice, late>>

(* publishDue creates a post of a user who is being, or has been, erased.  *)
PublishLate ==
    /\ Working # {} \/ request.status \in {"completed", "failed"}
    /\ left' = left \cup {"posts"} /\ late' = TRUE
    /\ UNCHANGED <<request, asking, locked, referenced, eraser, twice>>

(* The status, by id.                                                      *)
NoteOutcome(w) ==
    /\ eraser[w] \in {"complete", "fail"}
    /\ request' = [request EXCEPT !.status =
         IF eraser[w] = "complete" THEN "completed" ELSE "failed"]
    /\ Go(w, "idle")
    /\ UNCHANGED <<asking, locked, left, referenced, twice, late>>

(* A statement fails: the catch notes it; also a note of completion.       *)
EraseFails(w) ==
    /\ eraser[w] \in {"strip", "posts", "rename", "complete"}
    /\ Go(w, "fail")
    /\ UNCHANGED <<request, asking, locked, left, referenced, twice, late>>

(* The replica stops, or the note of a failure fails.                      *)
EraserStops(w) ==
    /\ eraser[w] # "idle"
    /\ Go(w, "idle")
    /\ UNCHANGED <<request, asking, locked, left, referenced, twice, late>>

---------------------------------------------------------------------------
TypeOK ==
    /\ request \in Requests /\ asking \in BOOLEAN /\ locked \in BOOLEAN
    /\ left \subseteq Everything /\ referenced \in BOOLEAN
    /\ eraser \in [Replicas -> {"idle", "strip", "posts", "rename", "complete", "fail"}]
    /\ twice \in BOOLEAN /\ late \in BOOLEAN

(* A deletion noted as completed has removed everything but a post that    *)
(* was published meanwhile, and an account loses nothing before its thirty *)
(* days are over.                                                          *)
CompletedIsErased ==
    /\ request.status = "completed" => left \subseteq (IF late THEN {"posts"} ELSE {})
    /\ ~request.due => left = Everything

(* A deletion that has ended is never begun again or noted otherwise,      *)
(* unless two ticks had it in hand.                                        *)
EndedStays ==
    request.status \in {"completed", "failed"} /\ ~twice => request' = request

(* A deletion that is due and has not ended, well or not.                  *)
ErasureIsDue == request.status = "pending" /\ request.due
==============================================================================
