------------------------------ MODULE Returns -------------------------------
(***************************************************************************)
(* The requests to return, or to exchange, one order: createReturn and     *)
(* updateReturn of server/src/marketplace/shipping-inventory.service.ts.   *)
(* Both read before they write, without a lock, and updateReturn saves the *)
(* row it read.  No money moves with them: "refunded" is the seller's word.*)
(***************************************************************************)
EXTENDS Naturals, Sequences

CONSTANTS
    Workers,        \* requests that may be under way at once
    MaxReturns      \* bound of the model: rows

VARIABLES
    return,         \* the statuses of the order's rows of one type
    asker,          \* asker[w]: how far request w is
    doubled,        \* history: two requests for a return overlapped
    swayed          \* history: rows that two updates had in hand at once

vars == <<return, asker, doubled, swayed>>

(* updateReturn: where a request may go from each status.                  *)
Transitions ==
    [requested |-> {"approved", "rejected"},
     approved  |-> {"received", "rejected"},
     received  |-> {"refunded", "completed"},
     refunded  |-> {"completed"},
     rejected  |-> {},
     completed |-> {}]
Statuses == DOMAIN Transitions

Idle == [step |-> "idle"]
To(w, state) == asker' = [asker EXCEPT ![w] = state]
Open == {n \in DOMAIN return : return[n] = "requested"}
Updating(n) == {w \in Workers : asker[w].step = "update" /\ asker[w].n = n}

Init ==
    /\ return = << >>
    /\ asker = [w \in Workers |-> Idle]
    /\ doubled = FALSE /\ swayed = {}

---------------------------------------------------------------------------
(* Variant: rows that are open are not looked for.                         *)
CreateAny(w) ==
    /\ asker[w] = Idle /\ Len(return) < MaxReturns
    /\ To(w, [step |-> "create"])
    /\ doubled' = (doubled \/ \E v \in Workers : asker[v].step = "create")
    /\ UNCHANGED <<return, swayed>>

(* createReturn looks for a row that is still "requested"...               *)
CreateFind(w) ==
    /\ asker[w] = Idle /\ Len(return) < MaxReturns
    /\ Open = {}
    /\ To(w, [step |-> "create"])
    /\ doubled' = (doubled \/ \E v \in Workers : asker[v].step = "create")
    /\ UNCHANGED <<return, swayed>>

(* ... and inserts one.                                                    *)
CreateSave(w) ==
    /\ asker[w].step = "create" /\ Len(return) < MaxReturns
    /\ return' = Append(return, "requested")
    /\ To(w, Idle)
    /\ UNCHANGED <<doubled, swayed>>

(* Variant: a request that was rejected may still be received.             *)
UpdateRejected(w, n, status) ==
    /\ asker[w] = Idle
    /\ \/ status \in Transitions[return[n]]
       \/ return[n] = "rejected" /\ status = "received"
    /\ To(w, [step |-> "update", n |-> n, status |-> status])
    /\ swayed' = IF Updating(n) # {} THEN swayed \cup {n} ELSE swayed
    /\ UNCHANGED <<return, doubled>>

UpdateLoad(w, n, status) ==
    /\ asker[w] = Idle
    /\ status \in Transitions[return[n]]
    /\ To(w, [step |-> "update", n |-> n, status |-> status])
    /\ swayed' = IF Updating(n) # {} THEN swayed \cup {n} ELSE swayed
    /\ UNCHANGED <<return, doubled>>

UpdateSave(w) ==
    /\ asker[w].step = "update"
    /\ return' = [return EXCEPT ![asker[w].n] = asker[w].status]
    /\ To(w, Idle)
    /\ UNCHANGED <<doubled, swayed>>

(* The process stops, or the save fails: nothing has been written.         *)
Stops(w) ==
    /\ asker[w] # Idle
    /\ To(w, Idle)
    /\ UNCHANGED <<return, doubled, swayed>>

Next ==
    \E w \in Workers :
        \/ CreateFind(w) \/ CreateSave(w)
        \/ \E n \in DOMAIN return, status \in Statuses : UpdateLoad(w, n, status)
        \/ UpdateSave(w) \/ Stops(w)

Spec == Init /\ [][Next]_vars
---------------------------------------------------------------------------
TypeOK ==
    /\ return \in Seq(Statuses) /\ Len(return) <= MaxReturns
    /\ asker \in [Workers -> {Idle, [step |-> "create"]}
                     \cup [step : {"update"}, n : 1..MaxReturns, status : Statuses]]
    /\ doubled \in BOOLEAN /\ swayed \subseteq 1..MaxReturns

(* An order has one open request of a type, unless two were made at once.  *)
OneOpenRequest == doubled \/ \A m, n \in Open : m = n

(* A request keeps to the table, and a rejected or completed one stays as  *)
(* it is, unless two updates had it in hand at once.                       *)
ReturnStep ==
    \A n \in DOMAIN return :
        \/ n \in swayed'
        \/ return'[n] = return[n]
        \/ return'[n] \in Transitions[return[n]]
==============================================================================
