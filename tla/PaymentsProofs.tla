--------------------------- MODULE PaymentsProofs ---------------------------
(* Proofs about Payments, for every number of payments, handlers, portions, *)
(* overlaps and faults.                                                    *)
EXTENDS Payments, TLAPS

Refundeds == {"partially_refunded", "refunded"}
Unpaid == {"open", "failed", "canceled"}

(* A row notes a refunded amount only with the status of a refund.         *)
RowShape(row) == row.refunded > 0 => row.status \in Refundeds

(* What a handler that goes to step s knows of the row it read.            *)
Suits(s, row, amount) ==
    /\ s \in {"debiting", "debitingPlatform", "closing"} => amount > row.refunded
    /\ s \in {"debiting", "debitingPlatform"} => row.credited
    /\ s \in {"marking", "failing", "canceling"} => row.status \in Unpaid
    /\ s \in {"crediting", "creditingPlatform", "noting"} =>
         row.status = "succeeded" /\ ~row.credited
    /\ s \in {"looking", "creating"} => ~row.fulfilled

(* A handler in hand: what it knows at its step; one of a request has not  *)
(* noted the fulfilment yet.                                               *)
TaskShape(w) ==
    /\ RowShape(task[w].copy)
    /\ At(w, "idle") => task[w] = Idle
    /\ ~At(w, "idle") => task[w].payment \in Payments
    /\ At(w, "saving") => /\ task[w].copy.status \in {"open", "succeeded"}
                          /\ ~task[w].copy.credited /\ ~task[w].copy.fulfilled
                          /\ task[w].copy.refunded = 0
    /\ Suits(task[w].step, task[w].copy, task[w].amount)
    /\ task[w].origin = "request" => ~task[w].copy.fulfilled

Shapes == /\ \A p \in Payments : RowShape(rows[p])
          /\ \A w \in Workers : TaskShape(w)

(* The type invariant and the shapes it rests on.                          *)
TypeInv == TypeOK /\ Shapes

---------------------------------------------------------------------------
(* How a step changes the handler that takes it, and the row it saves.     *)

Moves(w, s, copy) ==
    /\ task' \in [Workers -> Tasks]
    /\ \A v \in Workers \ {w} : task'[v] = task[v]
    /\ s = "idle" => task'[w] = Idle
    /\ s # "idle" => /\ task'[w].step = s
                     /\ task'[w].copy = copy
                     /\ task'[w].payment = task[w].payment
                     /\ task'[w].origin = task[w].origin
                     /\ task'[w].amount = task[w].amount

Saves(w, copy) ==
    /\ rows' \in [Payments -> Rows]
    /\ rows'[task[w].payment] = copy
    /\ \A q \in Payments \ {task[w].payment} : rows'[q] = rows[q]

LEMMA IdleTask == Idle \in Tasks /\ NoRow \in Rows /\ RowShape(NoRow)
  BY GrossAssumption DEF Idle, NoRow, Tasks, Rows, Steps, Origins, Statuses, RowShape

(* What is in hand has its type.                                           *)
LEMMA InHand ==
  ASSUME TypeInv, NEW w \in Workers
  PROVE  /\ task[w] \in Tasks /\ task[w].step \in Steps /\ task[w].copy \in Rows
         /\ task[w].amount \in 0..Gross /\ task[w].origin \in Origins
         /\ task[w].copy.refunded \in 0..Gross
         /\ ~At(w, "idle") => task[w].payment \in Payments
  BY DEF TypeInv, TypeOK, Shapes, TaskShape, Tasks, Rows

LEMMA SavesCopy ==
  ASSUME TypeInv, NEW w \in Workers, NEW copy \in Rows, NEW s \in Steps,
         ~At(w, "idle"), SaveCopy(w, copy, s)
  PROVE  Moves(w, s, copy) /\ Saves(w, copy)
<1> task \in [Workers -> Tasks] /\ rows \in [Payments -> Rows] /\ task[w].payment \in Payments
  BY DEF TypeInv, TypeOK, Shapes, TaskShape
<1>1. Saves(w, copy)
  BY DEF SaveCopy, Saves
<1>2. CASE s = "idle"
  <2>1. task' = [task EXCEPT ![w] = Idle]
    BY <1>2 DEF SaveCopy
  <2> QED BY <1>1, <1>2, <2>1, IdleTask DEF Moves
<1>3. CASE s # "idle"
  <2>1. [task[w] EXCEPT !.copy = copy, !.step = s] \in Tasks
    BY DEF Tasks
  <2>2. task' = [task EXCEPT ![w] = [task[w] EXCEPT !.copy = copy, !.step = s]]
    BY <1>3 DEF SaveCopy
  <2> QED BY <1>1, <1>3, <2>1, <2>2 DEF Moves, Tasks
<1> QED BY <1>1, <1>2, <1>3

LEMMA GoesTo ==
  ASSUME TypeInv, NEW w \in Workers, NEW s \in Steps, Goto(w, s)
  PROVE  Moves(w, s, task[w].copy)
<1> task \in [Workers -> Tasks]
  BY DEF TypeInv, TypeOK
<1>1. CASE s = "idle"
  <2>1. task' = [task EXCEPT ![w] = Idle]
    BY <1>1 DEF Goto, Done
  <2> QED BY <1>1, <2>1, IdleTask DEF Moves
<1>2. CASE s # "idle"
  <2>1. [task[w] EXCEPT !.step = s] \in Tasks
    BY DEF Tasks
  <2>2. task' = [task EXCEPT ![w] = [task[w] EXCEPT !.step = s]]
    BY <1>2 DEF Goto
  <2> QED BY <1>2, <2>1, <2>2 DEF Moves, Tasks
<1> QED BY <1>1, <1>2

(* A handler's task after an event is taken up.                            *)
Begins(w, p, s, amount) ==
    /\ task' \in [Workers -> Tasks]
    /\ \A v \in Workers \ {w} : task'[v] = task[v]
    /\ task'[w].step = s /\ task'[w].payment = p /\ task'[w].origin = "event"
    /\ task'[w].copy = rows[p] /\ task'[w].amount = amount

LEMMA StartBegins ==
  ASSUME TypeInv, NEW w \in Workers, NEW p \in Payments, NEW s \in Steps \ {"idle"},
         NEW amount \in 0..Gross, Start(w, p, s, amount)
  PROVE  Begins(w, p, s, amount)
<1>1. task \in [Workers -> Tasks] /\ rows[p] \in Rows
  BY DEF TypeInv, TypeOK
<1> DEFINE t == [Idle EXCEPT !.step = s, !.payment = p, !.copy = rows[p], !.amount = amount]
<1>2. task' = [task EXCEPT ![w] = t]
  BY DEF Start
<1>3. t \in Tasks
  BY <1>1, IdleTask DEF Tasks
<1>4. /\ t.step = s /\ t.payment = p /\ t.copy = rows[p] /\ t.amount = amount
      /\ t.origin = "event"
  BY IdleTask DEF Tasks, Idle
<1> QED BY <1>1, <1>2, <1>3, <1>4 DEF Begins

(* An event that is taken up at all is taken up at a step that suits the   *)
(* row.                                                                    *)
LEMMA EventStarts ==
  ASSUME TypeInv, NEW w \in Workers, NEW p \in Payments,
         SucceededEvent(w, p) \/ FailedEvent(w, p) \/ RefundEvent(w, p)
  PROVE  \/ UNCHANGED vars
         \/ \E s \in Steps \ {"idle", "saving"} : \E amount \in 0..Gross :
              /\ Start(w, p, s, amount)
              /\ Suits(s, rows[p], amount)
              /\ s \notin {"debitingPlatform", "creditingPlatform", "noting", "creating", "completing"}
              /\ s = "closing" => ~rows[p].credited
              /\ rows[p].status # "none"
<1>1. rows[p] \in Rows /\ returned[p] \in 0..Gross
  BY DEF TypeInv, TypeOK
<1>2. ASSUME NEW s, NEW amount, Start(w, p, s, amount), s = "idle" PROVE UNCHANGED vars
  BY <1>2 DEF Start, vars, stripe, wallets, goods
<1>3. CASE SucceededEvent(w, p)
  <2> DEFINE s == ConfirmStep(rows[p])
  <2>1. Start(w, p, s, 0) /\ 0 \in 0..Gross
    BY <1>3, GrossAssumption DEF SucceededEvent
  <2>2. CASE s = "idle"
    BY <2>1, <2>2, <1>2
  <2>3. CASE s # "idle"
    <3>1. s \in {"marking", "crediting", "looking"} /\ Suits(s, rows[p], 0) /\ rows[p].status # "none"
      BY <1>1, <2>3 DEF ConfirmStep, Suits, Unpaid, Rows
    <3>2. s \in Steps \ {"idle", "saving"}
      BY <3>1 DEF Steps
    <3> HIDE DEF s
    <3> QED BY <2>1, <3>1, <3>2
  <2> QED BY <2>2, <2>3
<1>4. CASE FailedEvent(w, p)
  <2>1. PICK s \in {"failing", "canceling"} : Start(w, p, FailStep(rows[p], s), 0)
    BY <1>4 DEF FailedEvent
  <2>2. CASE FailStep(rows[p], s) = "idle"
    BY <2>1, <2>2, <1>2
  <2>3. CASE FailStep(rows[p], s) # "idle"
    <3>1. FailStep(rows[p], s) = s /\ rows[p].status \in Unpaid
      BY <1>1, <2>3 DEF FailStep, Unpaid, Rows, Statuses
    <3>2. Start(w, p, s, 0) /\ 0 \in 0..Gross
      BY <2>1, <3>1, GrossAssumption
    <3> QED BY <3>1, <3>2 DEF Suits, Steps, Unpaid
  <2> QED BY <2>2, <2>3
<1>5. CASE RefundEvent(w, p)
  <2>1. PICK amount \in 1..returned[p] : Start(w, p, RefundStep(rows[p], amount), amount)
    BY <1>5 DEF RefundEvent
  <2> DEFINE s == RefundStep(rows[p], amount)
  <2>2. amount \in 0..Gross
    BY <1>1, <2>1, GrossAssumption
  <2>3. CASE s = "idle"
    BY <2>1, <2>3, <1>2
  <2>4. CASE s # "idle"
    <3>1. /\ s \in {"debiting", "closing"} /\ Suits(s, rows[p], amount)
          /\ rows[p].status # "none" /\ (s = "closing" => ~rows[p].credited)
      BY <1>1, <2>2, <2>4 DEF RefundStep, Suits, Rows
    <3>2. s \in Steps \ {"idle", "saving"} /\ Start(w, p, s, amount)
      BY <2>1, <3>1 DEF Steps
    <3> HIDE DEF s
    <3> QED BY <2>2, <3>1, <3>2
  <2> QED BY <2>3, <2>4
<1> QED BY <1>3, <1>4, <1>5

---------------------------------------------------------------------------
(* Types.                                                                  *)

(* A handler that moves on keeps the shapes if it knows at its new step    *)
(* what it must.                                                           *)
LEMMA MoveShape ==
  ASSUME TypeInv, NEW w \in Workers, NEW s \in Steps \ {"saving"}, NEW copy \in Rows,
         ~At(w, "idle"), Moves(w, s, copy), RowShape(copy),
         s # "idle" => /\ Suits(s, copy, task[w].amount)
                       /\ task[w].origin = "request" => ~copy.fulfilled,
         \A p \in Payments : RowShape(rows'[p])
  PROVE  Shapes'
<1>1. ASSUME NEW v \in Workers \ {w} PROVE TaskShape(v)'
  BY <1>1 DEF TypeInv, Shapes, TaskShape, Moves, At
<1>2. TaskShape(w)'
  <2>1. CASE s = "idle"
    <3>1. /\ Idle.step = "idle" /\ Idle.copy = NoRow /\ Idle.origin = "event"
          /\ ~NoRow.fulfilled
      BY DEF Idle, NoRow
    <3>2. task'[w] = Idle
      BY <2>1 DEF Moves
    <3> QED BY <3>1, <3>2, IdleTask DEF TaskShape, At, Suits
  <2>2. CASE s # "idle"
    <3>1. task[w].payment \in Payments
      BY InHand
    <3> QED BY <2>2, <3>1 DEF Moves, TaskShape, At
  <2> QED BY <2>1, <2>2
<1> QED BY <1>1, <1>2 DEF Shapes

(* The same for a handler that saves its copy ...                          *)
LEMMA SaveShape ==
  ASSUME TypeInv, NEW w \in Workers, NEW s \in Steps \ {"saving"}, NEW copy \in Rows,
         ~At(w, "idle"), SaveCopy(w, copy, s), RowShape(copy),
         s # "idle" => /\ Suits(s, copy, task[w].amount)
                       /\ task[w].origin = "request" => ~copy.fulfilled
  PROVE  TypeInv'
<1>1. Moves(w, s, copy) /\ Saves(w, copy)
  BY SavesCopy
<1>2. \A p \in Payments : RowShape(rows'[p])
  BY <1>1 DEF Saves, TypeInv, Shapes
<1>3. Shapes'
  BY <1>1, <1>2, MoveShape
<1>4. TypeOK'
  BY <1>1 DEF SaveCopy, Saves, Moves, TypeInv, TypeOK, stripe, wallets, goods, history
<1> QED BY <1>3, <1>4 DEF TypeInv

(* ... and for one that goes on with what it has.                          *)
LEMMA GotoShape ==
  ASSUME TypeInv, NEW w \in Workers, NEW s \in Steps \ {"saving"},
         ~At(w, "idle"), Goto(w, s), UNCHANGED rows,
         s # "idle" => Suits(s, task[w].copy, task[w].amount)
  PROVE  Shapes' /\ task' \in [Workers -> Tasks]
<1>1. Moves(w, s, task[w].copy)
  BY GoesTo
<1>2. \A p \in Payments : RowShape(rows'[p])
  BY DEF TypeInv, Shapes
<1>3. RowShape(task[w].copy) /\ (task[w].origin = "request" => ~task[w].copy.fulfilled)
  BY DEF TypeInv, Shapes, TaskShape
<1> QED BY <1>1, <1>2, <1>3, InHand, MoveShape DEF Moves

(* A count of a payment is added to.                                       *)
LEMMA Adds ==
  ASSUME NEW f \in [Payments -> Nat], NEW p \in Payments, NEW n \in Nat
  PROVE  LET g == [f EXCEPT ![p] = @ + n]
         IN  /\ g \in [Payments -> Nat] /\ g[p] = f[p] + n
             /\ \A q \in Payments \ {p} : g[q] = f[q]
<1> DEFINE m == f[p] + n
<1>1. m \in Nat
  OBVIOUS
<1>2. [f EXCEPT ![p] = @ + n] = [f EXCEPT ![p] = m]
  OBVIOUS
<1> HIDE DEF m
<1>3. [f EXCEPT ![p] = m] \in [Payments -> Nat]
  BY <1>1
<1> QED BY <1>2, <1>3 DEF m

LEMMA TypeStep == TypeInv /\ [Next]_vars => TypeInv'
<1> SUFFICES ASSUME TypeInv, [Next]_vars PROVE TypeInv'
  OBVIOUS
<1>1. ASSUME NEW w \in Workers, NEW p \in Payments, CreateIntent(w, p) PROVE TypeInv'
  <2>1. PICK outcome \in {"open", "succeeded"} :
          /\ intent' = [intent EXCEPT ![p] = outcome]
          /\ task' = [task EXCEPT ![w] = [Idle EXCEPT !.step = "saving", !.payment = p,
                        !.origin = "request", !.copy = [NoRow EXCEPT !.status = outcome]]]
    BY <1>1 DEF CreateIntent
  <2> DEFINE copy == [NoRow EXCEPT !.status = outcome]
             t == [Idle EXCEPT !.step = "saving", !.payment = p, !.origin = "request",
                               !.copy = copy]
  <2>2. copy \in Rows /\ copy.status = outcome
        /\ ~copy.credited /\ ~copy.fulfilled /\ copy.refunded = 0
    BY IdleTask DEF Rows, NoRow, Statuses
  <2>3. t \in Tasks
    BY <2>2, IdleTask DEF Tasks, Steps, Origins
  <2>4. t.step = "saving" /\ t.payment = p /\ t.origin = "request" /\ t.copy = copy
    BY IdleTask DEF Tasks
  <2>5. task' = [task EXCEPT ![w] = t] /\ task \in [Workers -> Tasks]
    BY <2>1 DEF TypeInv, TypeOK
  <2> HIDE DEF t, copy
  <2>6. Shapes'
    <3>1. ASSUME NEW v \in Workers \ {w} PROVE TaskShape(v)'
      BY <2>5, <3>1 DEF TypeInv, Shapes, TaskShape, At
    <3>2. TaskShape(w)'
      BY <2>2, <2>3, <2>4, <2>5 DEF TaskShape, At, RowShape, Suits
    <3>3. rows' = rows
      BY <1>1 DEF CreateIntent
    <3> QED BY <3>1, <3>2, <3>3 DEF Shapes, TypeInv
  <2>7. TypeOK'
    BY <1>1, <2>1, <2>3, <2>5 DEF CreateIntent, TypeInv, TypeOK, wallets, history
  <2> QED BY <2>6, <2>7 DEF TypeInv
<1>2. ASSUME NEW w \in Workers, NEW p \in Payments,
             SucceededEvent(w, p) \/ FailedEvent(w, p) \/ RefundEvent(w, p)
      PROVE TypeInv'
  <2>1. CASE UNCHANGED vars
    BY <2>1 DEF vars, TypeInv, TypeOK, Shapes, TaskShape, At
  <2>2. ASSUME NEW s \in Steps \ {"idle", "saving"}, NEW amount \in 0..Gross,
               Start(w, p, s, amount), Suits(s, rows[p], amount)
        PROVE TypeInv'
    <3>1. Begins(w, p, s, amount)
      BY <2>2, StartBegins
    <3>2. rows' = rows /\ RowShape(rows[p])
      BY <2>2 DEF Start, TypeInv, Shapes
    <3>3. Shapes'
      <4>1. ASSUME NEW v \in Workers \ {w} PROVE TaskShape(v)'
        BY <3>1, <4>1 DEF Begins, TypeInv, Shapes, TaskShape, At
      <4>2. TaskShape(w)'
        BY <2>2, <3>1, <3>2 DEF Begins, TaskShape, At
      <4> QED BY <4>1, <4>2, <3>2 DEF Shapes, TypeInv
    <3>4. races' \in [Payments -> 0..MaxRaces]
      BY <2>2, GrossAssumption DEF Start, TypeInv, TypeOK
    <3> QED BY <2>2, <3>1, <3>3, <3>4 DEF Start, Begins, TypeInv, TypeOK, stripe, wallets, goods
  <2> QED BY <1>2, <2>1, <2>2, EventStarts
<1>3. ASSUME NEW w \in Workers, SaveNew(w) PROVE TypeInv'
  <2> DEFINE s == IF task[w].copy.status = "succeeded" THEN "crediting" ELSE "idle"
  <2>1. At(w, "saving") /\ ~At(w, "idle") /\ SaveCopy(w, task[w].copy, s)
    BY <1>3 DEF SaveNew, At
  <2>2. s \in Steps \ {"saving"} /\ RowShape(task[w].copy)
        /\ (s # "idle" => Suits(s, task[w].copy, task[w].amount)
                          /\ (task[w].origin = "request" => ~task[w].copy.fulfilled))
    BY <2>1 DEF TypeInv, Shapes, TaskShape, Suits, Steps, At
  <2> HIDE DEF s
  <2> QED BY <2>1, <2>2, InHand, SaveShape
<1>4. ASSUME NEW w \in Workers, Mark(w) PROVE TypeInv'
  <2> DEFINE copy == [task[w].copy EXCEPT !.status = "succeeded"]
             s == ConfirmStep(copy)
  <2>1. At(w, "marking") /\ ~At(w, "idle") /\ SaveCopy(w, copy, s)
    BY <1>4 DEF Mark, At
  <2>2. copy \in Rows /\ copy.status = "succeeded" /\ copy.refunded = task[w].copy.refunded
        /\ copy.credited = task[w].copy.credited /\ copy.fulfilled = task[w].copy.fulfilled
    BY InHand DEF Rows, Statuses
  <2>3. task[w].copy.refunded = 0
    BY <2>1, InHand, GrossAssumption
       DEF TypeInv, Shapes, TaskShape, RowShape, Suits, At, Unpaid, Refundeds
  <2>4. s \in Steps \ {"saving"} /\ RowShape(copy) /\ Suits(s, copy, task[w].amount)
    BY <2>2, <2>3 DEF ConfirmStep, Suits, RowShape, Steps
  <2>5. task[w].origin = "request" => ~copy.fulfilled
    BY <2>2 DEF TypeInv, Shapes, TaskShape
  <2> HIDE DEF s, copy
  <2> QED BY <2>1, <2>2, <2>4, <2>5, SaveShape
<1>5. ASSUME NEW w \in Workers, CreditRecipient(w) PROVE TypeInv'
  <2>1. Suits("creditingPlatform", task[w].copy, task[w].amount) /\ ~At(w, "idle")
    BY <1>5 DEF CreditRecipient, At, Suits, TypeInv, Shapes, TaskShape
  <2>2. Shapes' /\ task' \in [Workers -> Tasks]
    BY <1>5, <2>1, GotoShape DEF CreditRecipient, Steps
  <2>3. credits' \in [Payments -> Nat]
    BY <1>5, <2>1, InHand, Adds DEF CreditRecipient, TypeInv, TypeOK
  <2> QED BY <1>5, <2>2, <2>3 DEF CreditRecipient, TypeInv, TypeOK, stripe, goods, history
<1>6. ASSUME NEW w \in Workers, CreditPlatform(w) PROVE TypeInv'
  <2>1. Suits("noting", task[w].copy, task[w].amount) /\ ~At(w, "idle")
    BY <1>6 DEF CreditPlatform, At, Suits, TypeInv, Shapes, TaskShape
  <2>2. Shapes' /\ task' \in [Workers -> Tasks]
    BY <1>6, <2>1, GotoShape DEF CreditPlatform, Steps
  <2>3. fees' \in [Payments -> Nat]
    BY <1>6, <2>1, InHand, Adds DEF CreditPlatform, TypeInv, TypeOK
  <2> QED BY <1>6, <2>2, <2>3 DEF CreditPlatform, TypeInv, TypeOK, stripe, goods, history
<1>7. ASSUME NEW w \in Workers, NoteCredit(w) PROVE TypeInv'
  <2> DEFINE copy == [task[w].copy EXCEPT !.credited = TRUE]
             s == IF task[w].copy.fulfilled THEN "idle" ELSE "looking"
  <2>1. At(w, "noting") /\ ~At(w, "idle") /\ SaveCopy(w, copy, s)
    BY <1>7 DEF NoteCredit, At
  <2>2. copy \in Rows /\ copy.status = task[w].copy.status
        /\ copy.refunded = task[w].copy.refunded /\ copy.fulfilled = task[w].copy.fulfilled
    BY InHand DEF Rows
  <2>3. s \in Steps \ {"saving"} /\ RowShape(copy)
        /\ (s # "idle" => Suits(s, copy, task[w].amount)
                          /\ (task[w].origin = "request" => ~copy.fulfilled))
    BY <2>2 DEF TypeInv, Shapes, TaskShape, RowShape, Suits, Steps
  <2> HIDE DEF s, copy
  <2> QED BY <2>1, <2>2, <2>3, SaveShape
<1>8. ASSUME NEW w \in Workers, Look(w) PROVE TypeInv'
  <2>1. PICK s \in {"creating", "idle", "completing"} : Goto(w, s)
    BY <1>8 DEF Look
  <2>2. At(w, "looking") /\ ~At(w, "idle") /\ UNCHANGED rows
    BY <1>8 DEF Look, At
  <2>3. s # "idle" => Suits(s, task[w].copy, task[w].amount)
    BY <2>2 DEF At, Suits, TypeInv, Shapes, TaskShape
  <2>4. Shapes' /\ task' \in [Workers -> Tasks]
    BY <2>1, <2>2, <2>3, GotoShape DEF Steps
  <2> QED BY <1>8, <2>4 DEF Look, TypeInv, TypeOK, stripe, wallets, goods, history
<1>9. ASSUME NEW w \in Workers, Create(w) PROVE TypeInv'
  <2>1. PICK s \in {"idle", "completing"} : Goto(w, s)
    BY <1>9 DEF Create
  <2>2. At(w, "creating") /\ ~At(w, "idle") /\ UNCHANGED rows
    BY <1>9 DEF Create, At
  <2>3. s # "idle" => Suits(s, task[w].copy, task[w].amount)
    BY DEF Suits
  <2>4. Shapes' /\ task' \in [Workers -> Tasks]
    BY <2>1, <2>2, <2>3, GotoShape DEF Steps
  <2>5. granted' \in [Payments -> Nat] /\ active' \in [Payments -> Nat]
    BY <1>9, <2>2, InHand, Adds DEF Create, TypeInv, TypeOK
  <2> QED BY <1>9, <2>4, <2>5 DEF Create, TypeInv, TypeOK, stripe, wallets, history
<1>10. ASSUME NEW w \in Workers, Complete(w) PROVE TypeInv'
  <2> DEFINE copy == [task[w].copy EXCEPT !.fulfilled = TRUE]
  <2>1. ~At(w, "idle") /\ SaveCopy(w, copy, "idle")
    BY <1>10 DEF Complete, At
  <2>2. copy \in Rows /\ RowShape(copy)
    BY InHand DEF Rows, RowShape, TypeInv, Shapes, TaskShape
  <2> HIDE DEF copy
  <2> QED BY <2>1, <2>2, SaveShape DEF Steps
<1>11. ASSUME NEW w \in Workers, Fail(w) PROVE TypeInv'
  <2>1. PICK status \in {"failed", "canceled"} :
          SaveCopy(w, [task[w].copy EXCEPT !.status = status], "idle")
    BY <1>11 DEF Fail
  <2> DEFINE copy == [task[w].copy EXCEPT !.status = status]
  <2>2. ~At(w, "idle") /\ task[w].step \in {"failing", "canceling"}
    BY <1>11 DEF Fail, At
  <2>3. task[w].copy.refunded = 0
    BY <2>2, InHand, GrossAssumption
       DEF TypeInv, Shapes, TaskShape, RowShape, Suits, At, Unpaid, Refundeds
  <2>4. copy \in Rows /\ RowShape(copy)
    BY <2>3, InHand DEF Rows, RowShape, Statuses
  <2> HIDE DEF copy
  <2> QED BY <2>1, <2>2, <2>4, SaveShape DEF Steps, copy
<1>12. ASSUME NEW w \in Workers, DebitRecipient(w) PROVE TypeInv'
  <2>1. Suits("debitingPlatform", task[w].copy, task[w].amount) /\ ~At(w, "idle")
        /\ Delta(w) \in Nat
    BY <1>12, InHand, GrossAssumption
       DEF DebitRecipient, Delta, At, Suits, TypeInv, Shapes, TaskShape
  <2>2. Shapes' /\ task' \in [Workers -> Tasks]
    BY <1>12, <2>1, GotoShape DEF DebitRecipient, Steps
  <2>3. back' \in [Payments -> Nat]
    BY <1>12, <2>1, InHand, Adds DEF DebitRecipient, TypeInv, TypeOK
  <2> QED BY <1>12, <2>2, <2>3 DEF DebitRecipient, TypeInv, TypeOK, stripe, goods, history
<1>13. ASSUME NEW w \in Workers, DebitPlatform(w) PROVE TypeInv'
  <2>1. Suits("closing", task[w].copy, task[w].amount) /\ ~At(w, "idle") /\ Delta(w) \in Nat
    BY <1>13, InHand, GrossAssumption
       DEF DebitPlatform, Delta, At, Suits, TypeInv, Shapes, TaskShape
  <2>2. Shapes' /\ task' \in [Workers -> Tasks]
    BY <1>13, <2>1, GotoShape DEF DebitPlatform, Steps
  <2>3. feeBack' \in [Payments -> Nat]
    BY <1>13, <2>1, InHand, Adds DEF DebitPlatform, TypeInv, TypeOK
  <2> QED BY <1>13, <2>2, <2>3 DEF DebitPlatform, TypeInv, TypeOK, stripe, goods, history
<1>14. ASSUME NEW w \in Workers, Close(w) PROVE TypeInv'
  <2>1. PICK status \in Refundeds :
          SaveCopy(w, [task[w].copy EXCEPT !.status = status, !.refunded = task[w].amount], "idle")
    BY <1>14 DEF Close, Refundeds
  <2> DEFINE copy == [task[w].copy EXCEPT !.status = status, !.refunded = task[w].amount]
  <2>2. ~At(w, "idle")
    BY <1>14 DEF Close, At
  <2>3. copy \in Rows /\ RowShape(copy)
    BY InHand DEF Rows, RowShape, Statuses, Refundeds
  <2> HIDE DEF copy
  <2> QED BY <2>1, <2>2, <2>3, SaveShape DEF Steps, copy
<1>15. ASSUME NEW w \in Workers, DebitRefused(w) PROVE TypeInv'
  <2>1. ~At(w, "idle") /\ Goto(w, "idle") /\ UNCHANGED rows
    BY <1>15 DEF DebitRefused, Goto, At
  <2>2. Shapes' /\ task' \in [Workers -> Tasks]
    BY <2>1, GotoShape DEF Steps
  <2> QED BY <1>15, <2>2 DEF DebitRefused, TypeInv, TypeOK, stripe, wallets, goods, history
<1>16. ASSUME NEW w \in Workers, Fault(w) PROVE TypeInv'
  <2>1. ~At(w, "idle") /\ UNCHANGED rows /\ task[w].payment \in Payments
    BY <1>16, InHand DEF Fault
  <2>2. Shapes' /\ task' \in [Workers -> Tasks]
    <3>1. CASE Done(w)
      BY <3>1, <2>1, GotoShape DEF Goto, Steps
    <3>2. CASE /\ task[w].origin = "request"
               /\ task' = [task EXCEPT ![w].step = "looking", ![w].origin = "fallback"]
      <4> DEFINE t == [task[w] EXCEPT !.step = "looking", !.origin = "fallback"]
      <4>1. t \in Tasks
        BY InHand DEF Tasks, Steps, Origins
      <4>2. t.step = "looking" /\ t.origin = "fallback" /\ t.copy = task[w].copy
            /\ t.payment = task[w].payment
        BY InHand DEF Tasks
      <4>3. task' = [task EXCEPT ![w] = t] /\ task \in [Workers -> Tasks]
        BY <3>2 DEF TypeInv, TypeOK
      <4> HIDE DEF t
      <4>4. ASSUME NEW v \in Workers \ {w} PROVE TaskShape(v)'
        BY <4>3, <4>4 DEF TypeInv, Shapes, TaskShape, At
      <4>5. RowShape(task[w].copy) /\ ~task[w].copy.fulfilled
        BY <3>2 DEF TypeInv, Shapes, TaskShape
      <4>6. TaskShape(w)'
        BY <2>1, <4>2, <4>3, <4>5 DEF TaskShape, At, Suits
      <4> QED BY <2>1, <4>1, <4>3, <4>4, <4>6 DEF Shapes, TypeInv
    <3> QED BY <1>16, <3>1, <3>2 DEF Fault
  <2>3. faults' \in 0..MaxFaults /\ torn' \subseteq Payments
    BY <1>16, <2>1, GrossAssumption DEF Fault, TypeInv, TypeOK
  <2> QED BY <1>16, <2>2, <2>3 DEF Fault, TypeInv, TypeOK, stripe, wallets, goods
<1>17. ASSUME NEW p \in Payments,
              IntentEnds(p) \/ Decline(p) \/ Refund(p) \/ CancelSubscription(p)
       PROVE TypeInv'
  <2>1. Shapes'
    BY <1>17 DEF IntentEnds, Decline, Refund, CancelSubscription, Shapes, TaskShape, TypeInv, At
  <2>2. CASE IntentEnds(p) \/ Decline(p)
    BY <2>1, <2>2 DEF IntentEnds, Decline, TypeInv, TypeOK, wallets, goods, history
  <2>3. CASE Refund(p)
    BY <2>1, <2>3, GrossAssumption DEF Refund, TypeInv, TypeOK, wallets, goods, history
  <2>4. CASE CancelSubscription(p)
    <3>1. active' \in [Payments -> Nat]
      BY <2>4 DEF CancelSubscription, TypeInv, TypeOK
    <3> QED BY <2>1, <2>4, <3>1 DEF CancelSubscription, TypeInv, TypeOK, wallets, stripe
  <2> QED BY <1>17, <2>2, <2>3, <2>4
<1>18. CASE UNCHANGED vars
  BY <1>18 DEF vars, TypeInv, TypeOK, Shapes, TaskShape, At
<1> QED
  BY <1>1, <1>2, <1>3, <1>4, <1>5, <1>6, <1>7, <1>8, <1>9, <1>10, <1>11, <1>12, <1>13,
     <1>14, <1>15, <1>16, <1>17, <1>18 DEF Next, Begin, Continue

LEMMA TypeStart == Init => TypeInv
<1> SUFFICES ASSUME Init PROVE TypeInv
  OBVIOUS
<1>1. TypeOK
  BY IdleTask, GrossAssumption DEF Init, TypeOK
<1>2. Shapes
  <2>1. /\ Idle.step = "idle" /\ Idle.copy = NoRow /\ Idle.origin = "event"
        /\ ~NoRow.fulfilled
    BY DEF Idle, NoRow
  <2> QED BY <2>1, IdleTask DEF Init, Shapes, TaskShape, At, Suits
<1> QED BY <1>1, <1>2 DEF TypeInv

LEMMA TypeAlways == Spec => []TypeInv
  BY TypeStart, TypeStep, PTL DEF Spec

(* The state of rows, wallets, intents and handlers keeps its type.        *)
THEOREM PaymentTypes == Spec => []TypeOK
<1>1. TypeInv => TypeOK
  BY DEF TypeInv
<1> QED BY <1>1, TypeAlways, PTL

---------------------------------------------------------------------------
(* A handler in hand works on its own payment: nothing else changes, and   *)
(* what was paid or granted is never taken out of the books.               *)

Works(w) == Continue(w) \/ DebitRefused(w) \/ Fault(w)

Local(w) ==
    LET p == task[w].payment
    IN  /\ ~At(w, "idle") /\ p \in Payments
        /\ UNCHANGED <<stripe, purpose, races, lapsed>>
        /\ torn \subseteq torn' /\ torn' \subseteq torn \cup {p}
        /\ \A v \in Workers \ {w} : task'[v] = task[v]
        /\ task'[w] = Idle \/ (task'[w].step # "idle" /\ task'[w].payment = p)
        /\ task'[w] # Idle => /\ task'[w].step # "saving"
                              /\ \/ task'[w].copy = rows'[p]
                                 \/ /\ ~At(w, "saving") /\ rows'[p] = rows[p]
                                    /\ task'[w].copy = task[w].copy
        /\ \A q \in Payments \ {p} :
             /\ rows'[q] = rows[q] /\ granted'[q] = granted[q] /\ active'[q] = active[q]
             /\ credits'[q] = credits[q] /\ fees'[q] = fees[q]
             /\ back'[q] = back[q] /\ feeBack'[q] = feeBack[q]
        /\ credits'[p] >= credits[p] /\ fees'[p] >= fees[p] /\ granted'[p] >= granted[p]

LEMMA SaveLocal ==
  ASSUME TypeInv, NEW w \in Workers, NEW s \in Steps \ {"saving"}, NEW copy \in Rows,
         ~At(w, "idle"), SaveCopy(w, copy, s)
  PROVE  Local(w)
<1>1. Moves(w, s, copy) /\ Saves(w, copy) /\ task[w].payment \in Payments
  BY SavesCopy, InHand
<1>2. /\ credits \in [Payments -> Nat] /\ fees \in [Payments -> Nat]
      /\ granted \in [Payments -> Nat]
  BY DEF TypeInv, TypeOK
<1> QED BY <1>1, <1>2 DEF SaveCopy, Moves, Saves, Local, stripe, wallets, goods, history

LEMMA GotoLocal ==
  ASSUME TypeInv, NEW w \in Workers, NEW s \in Steps \ {"saving"},
         ~At(w, "idle"), ~At(w, "saving") \/ s = "idle", Goto(w, s),
         UNCHANGED <<stripe, rows, purpose, history>>,
         \A q \in Payments \ {task[w].payment} :
             /\ granted'[q] = granted[q] /\ active'[q] = active[q]
             /\ credits'[q] = credits[q] /\ fees'[q] = fees[q]
             /\ back'[q] = back[q] /\ feeBack'[q] = feeBack[q],
         /\ credits'[task[w].payment] >= credits[task[w].payment]
         /\ fees'[task[w].payment] >= fees[task[w].payment]
         /\ granted'[task[w].payment] >= granted[task[w].payment]
  PROVE  Local(w)
<1>1. Moves(w, s, task[w].copy) /\ task[w].payment \in Payments
  BY GoesTo, InHand
<1> QED BY <1>1 DEF Moves, Local, history

LEMMA StaysWithin ==
  ASSUME TypeInv, NEW w \in Workers, Works(w)
  PROVE  Local(w)
<1> DEFINE p == task[w].payment
<1>0. /\ credits \in [Payments -> Nat] /\ fees \in [Payments -> Nat]
      /\ granted \in [Payments -> Nat] /\ active \in [Payments -> Nat]
      /\ back \in [Payments -> Nat] /\ feeBack \in [Payments -> Nat]
  BY DEF TypeInv, TypeOK
<1>1. CASE SaveNew(w)
  <2>1. PICK s \in Steps \ {"saving"} : SaveCopy(w, task[w].copy, s)
    BY <1>1 DEF SaveNew, Steps
  <2> QED BY <1>1, <2>1, InHand, SaveLocal DEF SaveNew, At
<1>2. CASE Mark(w)
  <2> DEFINE copy == [task[w].copy EXCEPT !.status = "succeeded"]
  <2>1. ConfirmStep(copy) \in Steps \ {"saving"} /\ copy \in Rows
    BY InHand DEF ConfirmStep, Steps, Rows, Statuses
  <2> HIDE DEF copy
  <2> QED BY <1>2, <2>1, SaveLocal DEF Mark, At, copy
<1>3. CASE CreditRecipient(w)
  <2>1. p \in Payments /\ ~At(w, "idle") /\ ~At(w, "saving")
    BY <1>3, InHand DEF CreditRecipient, At
  <2>2. credits'[p] >= credits[p] /\ \A q \in Payments \ {p} : credits'[q] = credits[q]
    BY <1>0, <1>3, <2>1 DEF CreditRecipient
  <2> QED BY <1>0, <1>3, <2>1, <2>2, GotoLocal DEF CreditRecipient, Steps, goods
<1>4. CASE CreditPlatform(w)
  <2>1. p \in Payments /\ ~At(w, "idle") /\ ~At(w, "saving")
    BY <1>4, InHand DEF CreditPlatform, At
  <2>2. fees'[p] >= fees[p] /\ \A q \in Payments \ {p} : fees'[q] = fees[q]
    BY <1>0, <1>4, <2>1 DEF CreditPlatform
  <2> QED BY <1>0, <1>4, <2>1, <2>2, GotoLocal DEF CreditPlatform, Steps, goods
<1>5. CASE NoteCredit(w)
  <2> DEFINE copy == [task[w].copy EXCEPT !.credited = TRUE]
  <2>1. copy \in Rows
    BY InHand DEF Rows
  <2>2. PICK s \in Steps \ {"saving"} : SaveCopy(w, copy, s)
    BY <1>5 DEF NoteCredit, Steps
  <2> HIDE DEF copy
  <2> QED BY <1>5, <2>1, <2>2, SaveLocal DEF NoteCredit, At
<1>6. CASE Look(w)
  <2>1. PICK s \in {"creating", "idle", "completing"} : Goto(w, s)
    BY <1>6 DEF Look
  <2>2. ~At(w, "idle") /\ ~At(w, "saving") /\ p \in Payments
    BY <1>6, InHand DEF Look, At
  <2> QED BY <1>0, <1>6, <2>1, <2>2, GotoLocal DEF Look, Steps, wallets, goods
<1>7. CASE Create(w)
  <2>1. PICK s \in {"idle", "completing"} : Goto(w, s)
    BY <1>7 DEF Create
  <2>2. ~At(w, "idle") /\ ~At(w, "saving") /\ p \in Payments
    BY <1>7, InHand DEF Create, At
  <2>3. /\ granted'[p] >= granted[p]
        /\ \A q \in Payments \ {p} : granted'[q] = granted[q] /\ active'[q] = active[q]
    BY <1>0, <1>7, <2>2 DEF Create
  <2> QED BY <1>0, <1>7, <2>1, <2>2, <2>3, GotoLocal DEF Create, Steps, wallets
<1>8. CASE Complete(w)
  <2> DEFINE copy == [task[w].copy EXCEPT !.fulfilled = TRUE]
  <2>1. copy \in Rows
    BY InHand DEF Rows
  <2> HIDE DEF copy
  <2> QED BY <1>8, <2>1, SaveLocal DEF Complete, At, Steps, copy
<1>9. CASE Fail(w)
  <2>1. PICK status \in {"failed", "canceled"} :
          SaveCopy(w, [task[w].copy EXCEPT !.status = status], "idle")
    BY <1>9 DEF Fail
  <2> DEFINE copy == [task[w].copy EXCEPT !.status = status]
  <2>2. copy \in Rows /\ ~At(w, "idle")
    BY <1>9, InHand DEF Rows, Statuses, Fail, At
  <2> HIDE DEF copy
  <2> QED BY <2>1, <2>2, SaveLocal DEF Steps, copy
<1>10. CASE DebitRecipient(w)
  <2>1. p \in Payments /\ ~At(w, "idle") /\ ~At(w, "saving")
    BY <1>10, InHand DEF DebitRecipient, At
  <2>2. \A q \in Payments \ {p} : back'[q] = back[q]
    BY <1>0, <1>10, <2>1 DEF DebitRecipient
  <2> QED BY <1>0, <1>10, <2>1, <2>2, GotoLocal DEF DebitRecipient, Steps, goods
<1>11. CASE DebitPlatform(w)
  <2>1. p \in Payments /\ ~At(w, "idle") /\ ~At(w, "saving")
    BY <1>11, InHand DEF DebitPlatform, At
  <2>2. \A q \in Payments \ {p} : feeBack'[q] = feeBack[q]
    BY <1>0, <1>11, <2>1 DEF DebitPlatform
  <2> QED BY <1>0, <1>11, <2>1, <2>2, GotoLocal DEF DebitPlatform, Steps, goods
<1>12. CASE Close(w)
  <2>1. PICK status \in Refundeds :
          SaveCopy(w, [task[w].copy EXCEPT !.status = status, !.refunded = task[w].amount], "idle")
    BY <1>12 DEF Close, Refundeds
  <2> DEFINE copy == [task[w].copy EXCEPT !.status = status, !.refunded = task[w].amount]
  <2>2. copy \in Rows /\ ~At(w, "idle")
    BY <1>12, InHand DEF Rows, Statuses, Refundeds, Close, At
  <2> HIDE DEF copy
  <2> QED BY <2>1, <2>2, SaveLocal DEF Steps, copy
<1>13. CASE DebitRefused(w)
  <2>1. ~At(w, "idle") /\ Goto(w, "idle") /\ p \in Payments
    BY <1>13, InHand DEF DebitRefused, Goto, At
  <2> QED BY <1>0, <1>13, <2>1, GotoLocal DEF DebitRefused, Steps, wallets, goods
<1>14. CASE Fault(w)
  <2>1. ~At(w, "idle") /\ p \in Payments /\ torn \subseteq torn' /\ torn' \subseteq torn \cup {p}
    BY <1>14, InHand DEF Fault
  <2>2. CASE Done(w)
    <3>1. Moves(w, "idle", task[w].copy)
      BY <2>2, GoesTo DEF Goto, Steps
    <3> QED BY <1>0, <1>14, <2>1, <3>1 DEF Fault, Moves, Local, wallets, goods
  <2>3. CASE /\ ~At(w, "saving")
             /\ task' = [task EXCEPT ![w].step = "looking", ![w].origin = "fallback"]
    <3> DEFINE t == [task[w] EXCEPT !.step = "looking", !.origin = "fallback"]
    <3>1. t.step = "looking" /\ t.copy = task[w].copy /\ t.payment = p
      BY InHand DEF Tasks
    <3>2. task' = [task EXCEPT ![w] = t] /\ task \in [Workers -> Tasks]
      BY <2>3 DEF TypeInv, TypeOK
    <3> HIDE DEF t
    <3> QED BY <1>0, <1>14, <2>1, <2>3, <3>1, <3>2 DEF Fault, Local, wallets, goods
  <2> QED BY <1>14, <2>2, <2>3 DEF Fault
<1> QED
  BY <1>1, <1>2, <1>3, <1>4, <1>5, <1>6, <1>7, <1>8, <1>9, <1>10, <1>11, <1>12, <1>13,
     <1>14 DEF Works, Continue

(* Only Create inserts a tip or a subscription.                            *)
LEMMA OnlyCreateGrants ==
  ASSUME NEW w \in Workers, Works(w)
  PROVE  Create(w) \/ UNCHANGED goods
  BY DEF Works, Continue, SaveNew, Mark, CreditRecipient, CreditPlatform, NoteCredit, Look,
         Complete, Fail, DebitRecipient, DebitPlatform, Close, DebitRefused, Fault, SaveCopy,
         goods

---------------------------------------------------------------------------
(* Nothing is known of a payment before its intent, only an intent that    *)
(* succeeded is refunded, and what is active was granted.                  *)

Basis(p) ==
    /\ intent[p] = "none" =>
         /\ rows[p] = NoRow /\ p \notin declined /\ returned[p] = 0
         /\ granted[p] = 0 /\ active[p] = 0
         /\ credits[p] = 0 /\ fees[p] = 0 /\ back[p] = 0 /\ feeBack[p] = 0
         /\ Quiet(p)
    /\ returned[p] > 0 => intent[p] = "succeeded"
    /\ active[p] <= granted[p]
    /\ active[p] > 0 => purpose[p] = "subscription"

BasisInv == \A p \in Payments : Basis(p)

LEMMA EventHasIntent ==
  ASSUME TypeInv, BasisInv, NEW w \in Workers, NEW p \in Payments,
         SucceededEvent(w, p) \/ FailedEvent(w, p) \/ RefundEvent(w, p)
  PROVE  intent[p] # "none"
<1>1. CASE RefundEvent(w, p)
  <2>1. returned[p] \in 0..Gross /\ 1..returned[p] # {}
    BY <1>1 DEF RefundEvent, TypeInv, TypeOK
  <2>2. returned[p] > 0
    BY <2>1, GrossAssumption
  <2> QED BY <2>2 DEF BasisInv, Basis
<1> QED BY <1>1 DEF SucceededEvent, FailedEvent, BasisInv, Basis

LEMMA BasisStart == Init => BasisInv
<1> SUFFICES ASSUME Init, NEW p \in Payments PROVE Basis(p)
  BY DEF BasisInv
<1>1. \A w \in Workers : task[w].payment # p
  BY PaymentsAssumption DEF Init, Idle
<1> QED BY <1>1 DEF Init, Basis, Quiet

LEMMA BasisStep == TypeInv /\ BasisInv /\ [Next]_vars => BasisInv'
<1> SUFFICES ASSUME TypeInv, BasisInv, [Next]_vars, NEW q \in Payments PROVE Basis(q)'
  BY DEF BasisInv
<1>0. Basis(q) /\ active[q] \in Nat /\ granted[q] \in Nat /\ returned[q] \in 0..Gross
      /\ intent \in [Payments -> {"none", "open", "succeeded", "canceled"}]
      /\ purpose \in [Payments -> {"tip", "subscription"}] /\ active \in [Payments -> Nat]
      /\ task \in [Workers -> Tasks]
  BY DEF BasisInv, TypeInv, TypeOK
<1>1. ASSUME NEW w \in Workers, NEW p \in Payments, CreateIntent(w, p) PROVE Basis(q)'
  <2>1. intent'[p] # "none" /\ (q # p => intent'[q] = intent[q] /\ purpose'[q] = purpose[q])
    BY <1>0, <1>1 DEF CreateIntent
  <2>2. \A v \in Workers \ {w} : task'[v] = task[v]
    BY <1>0, <1>1 DEF CreateIntent
  <2>3. task'[w].payment = p
    BY <1>0, <1>1, IdleTask DEF CreateIntent, Tasks
  <2> QED BY <1>0, <1>1, <2>1, <2>2, <2>3 DEF CreateIntent, Basis, Quiet, wallets
<1>2. ASSUME NEW w \in Workers, NEW p \in Payments,
             SucceededEvent(w, p) \/ FailedEvent(w, p) \/ RefundEvent(w, p)
      PROVE Basis(q)'
  <2>1. CASE UNCHANGED vars
    BY <1>0, <2>1 DEF vars, Basis, Quiet
  <2>2. ASSUME NEW s \in Steps \ {"idle", "saving"}, NEW amount \in 0..Gross,
               Start(w, p, s, amount)
        PROVE Basis(q)'
    <3>1. Begins(w, p, s, amount) /\ intent[p] # "none"
      BY <1>2, <2>2, StartBegins, EventHasIntent
    <3> QED BY <1>0, <2>2, <3>1 DEF Start, Begins, Basis, Quiet, stripe, wallets, goods
  <2> QED BY <1>2, <2>1, <2>2, EventStarts
<1>3. ASSUME NEW w \in Workers, Works(w) PROVE Basis(q)'
  <2>1. Local(w)
    BY <1>3, StaysWithin
  <2>2. CASE q # task[w].payment
    <3>1. task'[w].payment # q
      BY <2>1, <2>2, PaymentsAssumption DEF Local, Idle
    <3> QED BY <1>0, <2>1, <2>2, <3>1 DEF Local, Basis, Quiet, stripe
  <2>3. CASE q = task[w].payment
    <3>1. intent'[q] # "none" /\ returned'[q] = returned[q] /\ intent'[q] = intent[q]
          /\ purpose'[q] = purpose[q]
      BY <1>0, <2>1, <2>3 DEF Local, Basis, Quiet, stripe
    <3>2. active'[q] <= granted'[q] /\ (active'[q] > 0 => purpose[q] = "subscription")
      <4>1. CASE UNCHANGED goods
        BY <1>0, <4>1 DEF Basis, goods
      <4>2. CASE Create(w)
        <5>1. granted' = [granted EXCEPT ![q] = @ + 1] /\ granted \in [Payments -> Nat]
          BY <2>3, <4>2 DEF Create, TypeInv, TypeOK
        <5>2. granted'[q] = granted[q] + 1
          BY <5>1, Adds
        <5>3. CASE purpose[q] = "tip"
          BY <1>0, <2>3, <4>2, <5>2, <5>3 DEF Create, Basis
        <5>4. CASE purpose[q] # "tip"
          <6>1. active' = [active EXCEPT ![q] = @ + 1] /\ purpose[q] = "subscription"
            BY <1>0, <2>3, <4>2, <5>4 DEF Create
          <6>2. active'[q] = active[q] + 1
            BY <1>0, <6>1, Adds
          <6> QED BY <1>0, <5>2, <6>1, <6>2 DEF Basis
        <5> QED BY <5>3, <5>4
      <4> QED BY <1>3, <4>1, <4>2, OnlyCreateGrants
    <3> QED BY <1>0, <3>1, <3>2 DEF Basis
  <2> QED BY <2>2, <2>3
<1>4. ASSUME NEW p \in Payments, IntentEnds(p) \/ Decline(p) \/ Refund(p) PROVE Basis(q)'
  <2>1. CASE IntentEnds(p)
    <3>1. intent'[p] # "none" /\ intent[p] = "open" /\ (q # p => intent'[q] = intent[q])
      BY <1>0, <2>1 DEF IntentEnds
    <3>2. q = p => returned[q] = 0
      BY <1>0, <3>1, GrossAssumption DEF Basis
    <3> QED BY <1>0, <2>1, <3>1, <3>2 DEF IntentEnds, Basis, Quiet, wallets, goods
  <2>2. CASE Decline(p)
    BY <1>0, <2>2 DEF Decline, Basis, Quiet, wallets, goods
  <2>3. CASE Refund(p)
    <3>1. intent[p] = "succeeded" /\ (q # p => returned'[q] = returned[q])
      BY <1>0, <2>3 DEF Refund
    <3> QED BY <1>0, <2>3, <3>1 DEF Refund, Basis, Quiet, wallets, goods
  <2> QED BY <1>4, <2>1, <2>2, <2>3
<1>5. ASSUME NEW p \in Payments, CancelSubscription(p) PROVE Basis(q)'
  <2>1. active'[p] = active[p] - 1 /\ active[p] > 0 /\ active[p] \in Nat
        /\ (q # p => active'[q] = active[q])
    BY <1>0, <1>5 DEF CancelSubscription
  <2> QED BY <1>0, <1>5, <2>1 DEF CancelSubscription, Basis, Quiet, stripe, wallets
<1>6. CASE UNCHANGED vars
  BY <1>0, <1>6 DEF vars, Basis, Quiet
<1> QED BY <1>1, <1>2, <1>3, <1>4, <1>5, <1>6 DEF Next, Begin, Works

---------------------------------------------------------------------------
(* A note is never ahead of what it notes: in the table, in the copy of a  *)
(* handler in hand and at the steps that are about to write it.            *)

Bought(p) ==
    \E q \in Payments : /\ granted[q] > 0
                        /\ purpose[q] = purpose[p]
                        /\ purpose[p] = "tip" => p = q

RowNotes(p) ==
    /\ rows[p].credited => credits[p] > 0 /\ fees[p] > 0
    /\ rows[p].fulfilled => Bought(p)

CopyNotes(w) ==
    LET p == task[w].payment
    IN  ~At(w, "idle") =>
          /\ task[w].copy.credited => credits[p] > 0 /\ fees[p] > 0
          /\ At(w, "creditingPlatform") \/ At(w, "noting") => credits[p] > 0
          /\ At(w, "noting") => fees[p] > 0
          /\ task[w].copy.fulfilled \/ At(w, "completing") => Bought(p)

NotesInv == /\ \A p \in Payments : RowNotes(p)
            /\ \A w \in Workers : CopyNotes(w)

LEMMA NotesStart == Init => NotesInv
  BY DEF Init, NotesInv, RowNotes, CopyNotes, At, Idle, NoRow

(* Nothing that is granted is taken back, nor does a payment that was      *)
(* begun change its purpose: what was bought stays bought.                 *)
LEMMA StaysBought ==
  ASSUME TypeInv, TypeInv', BasisInv, NEW p \in Payments, intent[p] # "none", Bought(p),
         \A q \in Payments : intent[q] # "none" =>
             granted'[q] >= granted[q] /\ purpose'[q] = purpose[q]
  PROVE  Bought(p)'
<1>1. PICK q \in Payments : /\ granted[q] > 0
                            /\ purpose[q] = purpose[p]
                            /\ purpose[p] = "tip" => p = q
  BY DEF Bought
<1>2. granted[q] \in Nat /\ granted'[q] \in Nat
  BY DEF TypeInv, TypeOK
<1>3. intent[q] # "none"
  BY <1>1, <1>2 DEF BasisInv, Basis
<1>4. granted'[q] > 0
  BY <1>1, <1>2, <1>3
<1>5. purpose'[q] = purpose'[p] /\ (purpose'[p] = "tip" => p = q)
  BY <1>1, <1>3
<1> QED BY <1>4, <1>5 DEF Bought

(* Notes stay true if nothing is taken out of the books and no row and no  *)
(* copy but the handler's own changes, and those are right.                *)
LEMMA NotesKept ==
  ASSUME TypeInv, TypeInv', BasisInv, NotesInv, NEW w \in Workers, Local(w),
         NEW p \in Payments, p = task[w].payment, RowNotes(p)', task'[w] # Idle => CopyNotes(w)'
  PROVE  NotesInv'
<1>0. /\ credits \in [Payments -> Nat] /\ fees \in [Payments -> Nat]
      /\ granted \in [Payments -> Nat]
      /\ credits' \in [Payments -> Nat] /\ fees' \in [Payments -> Nat]
      /\ granted' \in [Payments -> Nat]
  BY DEF TypeInv, TypeOK
<1>1. ASSUME NEW q \in Payments
      PROVE  /\ credits'[q] >= credits[q] /\ fees'[q] >= fees[q] /\ granted'[q] >= granted[q]
             /\ purpose'[q] = purpose[q]
  BY <1>0, <1>1 DEF Local
<1>2. ASSUME NEW q \in Payments, intent[q] # "none", Bought(q) PROVE Bought(q)'
  BY <1>1, <1>2, StaysBought
<1>3. ASSUME NEW q \in Payments \ {p} PROVE RowNotes(q)'
  <2>1. rows'[q] = rows[q] /\ credits'[q] = credits[q] /\ fees'[q] = fees[q]
    BY DEF Local
  <2>2. rows[q].fulfilled => intent[q] # "none"
    BY DEF BasisInv, Basis, NoRow
  <2> QED BY <1>2, <2>1, <2>2 DEF NotesInv, RowNotes
<1>4. ASSUME NEW v \in Workers \ {w} PROVE CopyNotes(v)'
  <2>1. task'[v] = task[v]
    BY DEF Local
  <2>2. CASE At(v, "idle")
    BY <2>1, <2>2 DEF CopyNotes, At, Bought
  <2>3. CASE ~At(v, "idle")
    <3>1. PICK q \in Payments : q = task[v].payment
      BY <2>3, InHand
    <3>6. CopyNotes(v)
      BY DEF NotesInv
    <3>2. intent[q] # "none"
      BY <3>1 DEF BasisInv, Basis, Quiet
    <3>3. credits[q] > 0 => credits'[q] > 0
      BY <1>0, <1>1, <3>1
    <3>4. fees[q] > 0 => fees'[q] > 0
      BY <1>0, <1>1, <3>1
    <3>5. Bought(q) => Bought(q)'
      BY <1>2, <3>1, <3>2
    <3> QED BY <2>1, <2>3, <3>1, <3>3, <3>4, <3>5, <3>6 DEF CopyNotes, At, Bought
  <2> QED BY <2>2, <2>3
<1>5. CopyNotes(w)'
  BY DEF CopyNotes, At, Idle, Bought
<1> QED BY <1>3, <1>4, <1>5 DEF NotesInv

(* A saved copy whose notes are true keeps them true.                      *)
LEMMA NotesSaved ==
  ASSUME TypeInv, TypeInv', BasisInv, NotesInv, NEW w \in Workers, Works(w),
         NEW copy \in Rows, NEW s \in Steps \ {"saving", "creditingPlatform", "noting", "completing"},
         SaveCopy(w, copy, s),
         NEW p \in Payments, p = task[w].payment,
         copy.credited => credits[p] > 0 /\ fees[p] > 0,
         copy.fulfilled => Bought(p)
  PROVE  NotesInv'
<1>1. Local(w)
  BY StaysWithin
<1>2. ~At(w, "idle")
  BY <1>1 DEF Local
<1>3. Moves(w, s, copy) /\ Saves(w, copy)
  BY <1>2, SavesCopy
<1>4. UNCHANGED <<credits, fees, granted, purpose>>
  BY DEF SaveCopy, wallets, goods
<1>5. rows'[p] = copy
  BY <1>3 DEF Saves
<1>6. RowNotes(p)'
  BY <1>4, <1>5 DEF RowNotes, Bought
<1>7. task'[w] # Idle => CopyNotes(w)'
  <2>1. SUFFICES ASSUME task'[w] # Idle PROVE CopyNotes(w)'
    OBVIOUS
  <2>2. task'[w].step = s /\ task'[w].copy = copy /\ task'[w].payment = p
    BY <1>3, <2>1 DEF Moves
  <2> QED BY <1>4, <2>2 DEF CopyNotes, At, Bought
<1> QED BY <1>1, <1>6, <1>7, NotesKept

(* What is in the books of a payment in hand stays there.                  *)
LEMMA BooksStay ==
  ASSUME TypeInv, TypeInv', BasisInv, NEW w \in Workers, Local(w),
         NEW p \in Payments, p = task[w].payment
  PROVE  /\ credits[p] > 0 => credits'[p] > 0
         /\ fees[p] > 0 => fees'[p] > 0
         /\ Bought(p) => Bought(p)'
<1>0. /\ credits \in [Payments -> Nat] /\ fees \in [Payments -> Nat]
      /\ granted \in [Payments -> Nat]
      /\ credits' \in [Payments -> Nat] /\ fees' \in [Payments -> Nat]
      /\ granted' \in [Payments -> Nat]
  BY DEF TypeInv, TypeOK
<1>1. ASSUME NEW q \in Payments
      PROVE  granted'[q] >= granted[q] /\ purpose'[q] = purpose[q]
  BY <1>0, <1>1 DEF Local
<1>2. intent[p] # "none"
  BY DEF BasisInv, Basis, Quiet
<1>3. Bought(p) => Bought(p)'
  BY <1>1, <1>2, StaysBought
<1>4. credits'[p] >= credits[p] /\ fees'[p] >= fees[p]
  BY DEF Local
<1> QED BY <1>0, <1>3, <1>4

(* A handler that goes on without saving keeps the notes true if its next  *)
(* step does not say too much.                                             *)
LEMMA NotesWent ==
  ASSUME TypeInv, TypeInv', BasisInv, NotesInv, NEW w \in Workers, Works(w),
         NEW p \in Payments, p = task[w].payment,
         NEW s \in Steps \ {"saving"}, Goto(w, s), UNCHANGED rows,
         s \in {"creditingPlatform", "noting"} => credits'[p] > 0,
         s = "noting" => fees'[p] > 0,
         s = "completing" => Bought(p)'
  PROVE  NotesInv'
<1>1. Local(w) /\ Moves(w, s, task[w].copy)
  BY StaysWithin, GoesTo
<1>2. /\ credits[p] > 0 => credits'[p] > 0
      /\ fees[p] > 0 => fees'[p] > 0
      /\ Bought(p) => Bought(p)'
  BY <1>1, BooksStay
<1>3. RowNotes(p)'
  BY <1>2 DEF NotesInv, RowNotes
<1>4. task'[w] # Idle => CopyNotes(w)'
  <2> SUFFICES ASSUME task'[w] # Idle PROVE CopyNotes(w)'
    OBVIOUS
  <2>1. task'[w].step = s /\ task'[w].copy = task[w].copy /\ task'[w].payment = p
    BY <1>1 DEF Moves
  <2>2. /\ task[w].copy.credited => credits[p] > 0 /\ fees[p] > 0
        /\ task[w].copy.fulfilled => Bought(p)
    BY <1>1 DEF NotesInv, CopyNotes, Local
  <2> QED BY <1>2, <2>1, <2>2 DEF CopyNotes, At, Bought
<1> QED BY <1>1, <1>3, <1>4, NotesKept

(* The notes in the copy of a handler in hand.                             *)
LEMMA NotesInHand ==
  ASSUME NotesInv, TypeInv, NEW w \in Workers, ~At(w, "idle")
  PROVE  \E p \in Payments :
           /\ p = task[w].payment
           /\ task[w].copy.credited => credits[p] > 0 /\ fees[p] > 0
           /\ At(w, "creditingPlatform") \/ At(w, "noting") => credits[p] > 0
           /\ At(w, "noting") => fees[p] > 0
           /\ task[w].copy.fulfilled \/ At(w, "completing") => Bought(p)
  BY InHand DEF NotesInv, CopyNotes

LEMMA NotesStep == TypeInv /\ TypeInv' /\ BasisInv /\ NotesInv /\ [Next]_vars => NotesInv'
<1> SUFFICES ASSUME TypeInv, TypeInv', BasisInv, NotesInv, [Next]_vars PROVE NotesInv'
  OBVIOUS
<1>0. /\ task \in [Workers -> Tasks] /\ purpose \in [Payments -> {"tip", "subscription"}]
      /\ credits \in [Payments -> Nat] /\ fees \in [Payments -> Nat]
      /\ granted \in [Payments -> Nat] /\ active \in [Payments -> Nat]
  BY DEF TypeInv, TypeOK
<1>1. ASSUME NEW w \in Workers, NEW p \in Payments, CreateIntent(w, p) PROVE NotesInv'
  <2>1. intent[p] = "none" /\ \A q \in Payments \ {p} : purpose'[q] = purpose[q]
    BY <1>0, <1>1 DEF CreateIntent
  <2>2. UNCHANGED <<rows, credits, fees, granted>>
    BY <1>1 DEF CreateIntent, wallets
  <2>3. ASSUME NEW q \in Payments, intent[q] # "none", Bought(q) PROVE Bought(q)'
    <3>1. \A r \in Payments : intent[r] # "none" =>
             granted'[r] >= granted[r] /\ purpose'[r] = purpose[r]
      BY <1>0, <2>1, <2>2
    <3> QED BY <2>3, <3>1, StaysBought
  <2>4. \A v \in Workers \ {w} : task'[v] = task[v]
    BY <1>0, <1>1 DEF CreateIntent
  <2>5. ~task'[w].copy.credited /\ ~task'[w].copy.fulfilled /\ task'[w].step = "saving"
    <3>1. task'[w].step = "saving"
      BY <1>0, <1>1, IdleTask DEF CreateIntent, Tasks
    <3> QED BY <3>1 DEF TypeInv, Shapes, TaskShape, At
  <2>6. ASSUME NEW q \in Payments PROVE RowNotes(q)'
    <3>1. rows[q].fulfilled => intent[q] # "none"
      BY DEF BasisInv, Basis, NoRow
    <3> QED BY <2>2, <2>3, <3>1 DEF NotesInv, RowNotes
  <2>7. ASSUME NEW v \in Workers \ {w} PROVE CopyNotes(v)'
    <3>1. CASE At(v, "idle")
      BY <2>4, <3>1 DEF CopyNotes, At, Bought
    <3>2. CASE ~At(v, "idle")
      <4>1. PICK q \in Payments :
              /\ q = task[v].payment
              /\ task[v].copy.credited => credits[q] > 0 /\ fees[q] > 0
              /\ At(v, "creditingPlatform") \/ At(v, "noting") => credits[q] > 0
              /\ At(v, "noting") => fees[q] > 0
              /\ task[v].copy.fulfilled \/ At(v, "completing") => Bought(q)
        BY <3>2, NotesInHand
      <4>2. intent[q] # "none"
        BY <4>1 DEF BasisInv, Basis, Quiet
      <4>3. Bought(q) => Bought(q)'
        BY <2>3, <4>2
      <4> QED BY <2>2, <2>4, <4>1, <4>3 DEF CopyNotes, At, Bought
    <3> QED BY <3>1, <3>2
  <2>8. CopyNotes(w)'
    BY <2>5 DEF CopyNotes, At
  <2> QED BY <2>6, <2>7, <2>8 DEF NotesInv
<1>2. ASSUME NEW w \in Workers, NEW p \in Payments,
             SucceededEvent(w, p) \/ FailedEvent(w, p) \/ RefundEvent(w, p)
      PROVE NotesInv'
  <2>1. CASE UNCHANGED vars
    BY <2>1 DEF vars, NotesInv, RowNotes, CopyNotes, At, Bought
  <2>2. ASSUME NEW s \in Steps \ {"idle", "saving"}, NEW amount \in 0..Gross,
               Start(w, p, s, amount),
               s \notin {"debitingPlatform", "creditingPlatform", "noting", "creating",
                         "completing"}
        PROVE NotesInv'
    <3>1. Begins(w, p, s, amount)
      BY <2>2, StartBegins
    <3>2. UNCHANGED <<rows, credits, fees, granted, purpose>>
      BY <2>2 DEF Start, wallets, goods
    <3>3. \A q \in Payments : RowNotes(q)'
      BY <3>2 DEF NotesInv, RowNotes, Bought
    <3>4. ASSUME NEW v \in Workers \ {w} PROVE CopyNotes(v)'
      BY <3>1, <3>2, <3>4 DEF Begins, NotesInv, CopyNotes, At, Bought
    <3>5. CopyNotes(w)'
      BY <2>2, <3>1, <3>2 DEF Begins, NotesInv, RowNotes, CopyNotes, At, Bought
    <3> QED BY <3>3, <3>4, <3>5 DEF NotesInv
  <2> QED BY <1>2, <2>1, <2>2, EventStarts
<1>3. ASSUME NEW w \in Workers, Works(w) PROVE NotesInv'
  <2>1. Local(w) /\ ~At(w, "idle")
    BY <1>3, StaysWithin DEF Local
  <2>2. PICK p \in Payments :
          /\ p = task[w].payment
          /\ task[w].copy.credited => credits[p] > 0 /\ fees[p] > 0
          /\ At(w, "creditingPlatform") \/ At(w, "noting") => credits[p] > 0
          /\ At(w, "noting") => fees[p] > 0
          /\ task[w].copy.fulfilled \/ At(w, "completing") => Bought(p)
    BY <2>1, NotesInHand
  <2>3. CASE SaveNew(w)
    <3>1. PICK s \in {"crediting", "idle"} : SaveCopy(w, task[w].copy, s)
      BY <2>3 DEF SaveNew
    <3> QED BY <1>3, <2>2, <3>1, InHand, NotesSaved DEF Steps
  <2>4. CASE Mark(w)
    <3> DEFINE copy == [task[w].copy EXCEPT !.status = "succeeded"]
    <3>1. /\ copy \in Rows /\ copy.credited = task[w].copy.credited
          /\ copy.fulfilled = task[w].copy.fulfilled
      BY InHand DEF Rows, Statuses
    <3>2. ConfirmStep(copy) \in Steps \ {"saving", "creditingPlatform", "noting", "completing"}
      BY DEF ConfirmStep, Steps
    <3> HIDE DEF copy
    <3> QED BY <1>3, <2>2, <2>4, <3>1, <3>2, NotesSaved DEF Mark, copy
  <2>5. CASE CreditRecipient(w)
    <3>1. credits'[p] > 0
      BY <1>0, <2>2, <2>5 DEF CreditRecipient
    <3> QED BY <1>3, <2>2, <2>5, <3>1, NotesWent DEF CreditRecipient, Steps
  <2>6. CASE CreditPlatform(w)
    <3>1. fees'[p] > 0
      BY <1>0, <2>2, <2>6 DEF CreditPlatform
    <3>2. credits'[p] > 0
      BY <2>2, <2>6 DEF CreditPlatform
    <3> QED BY <1>3, <2>2, <2>6, <3>1, <3>2, NotesWent DEF CreditPlatform, Steps
  <2>7. CASE NoteCredit(w)
    <3> DEFINE copy == [task[w].copy EXCEPT !.credited = TRUE]
    <3>1. copy \in Rows /\ copy.fulfilled = task[w].copy.fulfilled
      BY InHand DEF Rows
    <3>2. PICK s \in {"looking", "idle"} : SaveCopy(w, copy, s)
      BY <2>7 DEF NoteCredit
    <3>3. credits[p] > 0 /\ fees[p] > 0
      BY <2>2, <2>7 DEF NoteCredit
    <3> HIDE DEF copy
    <3> QED BY <1>3, <2>2, <3>1, <3>2, <3>3, NotesSaved DEF Steps
  <2>8. CASE Look(w)
    <3>1. PICK s \in {"creating", "idle", "completing"} : Goto(w, s) /\ (s = "completing" =>
             IF purpose[p] = "tip" THEN granted[p] > 0 ELSE Subscribed)
      BY <2>2, <2>8 DEF Look
    <3>2. s = "completing" => Bought(p)
      <4>1. ASSUME purpose[p] # "tip", Subscribed PROVE Bought(p)
        <5>1. PICK q \in Payments : active[q] > 0
          BY <4>1 DEF Subscribed
        <5>2. active[q] <= granted[q] /\ purpose[q] = "subscription"
          BY <5>1 DEF BasisInv, Basis
        <5>3. granted[q] > 0
          BY <1>0, <5>1, <5>2
        <5> QED BY <1>0, <4>1, <5>2, <5>3 DEF Bought
      <4> QED BY <3>1, <4>1 DEF Bought
    <3>3. UNCHANGED <<rows, granted, purpose>>
      BY <2>8 DEF Look, goods
    <3>4. s = "completing" => Bought(p)'
      BY <3>2, <3>3 DEF Bought
    <3> QED BY <1>3, <2>2, <3>1, <3>3, <3>4, NotesWent DEF Steps
  <2>9. CASE Create(w)
    <3>1. PICK s \in {"idle", "completing"} : Goto(w, s)
      BY <2>9 DEF Create
    <3>2. granted'[p] > 0
      BY <1>0, <2>2, <2>9 DEF Create
    <3>3. Bought(p)'
      BY <3>2 DEF Bought
    <3> QED BY <1>3, <2>2, <2>9, <3>1, <3>3, NotesWent DEF Create, Steps
  <2>10. CASE Complete(w)
    <3> DEFINE copy == [task[w].copy EXCEPT !.fulfilled = TRUE]
    <3>1. copy \in Rows /\ copy.credited = task[w].copy.credited
      BY InHand DEF Rows
    <3>2. Bought(p) /\ SaveCopy(w, copy, "idle")
      BY <2>2, <2>10 DEF Complete
    <3> HIDE DEF copy
    <3> QED BY <1>3, <2>2, <3>1, <3>2, NotesSaved DEF Steps
  <2>11. CASE Fail(w)
    <3>1. PICK status \in {"failed", "canceled"} :
            SaveCopy(w, [task[w].copy EXCEPT !.status = status], "idle")
      BY <2>11 DEF Fail
    <3> DEFINE copy == [task[w].copy EXCEPT !.status = status]
    <3>2. /\ copy \in Rows /\ copy.credited = task[w].copy.credited
          /\ copy.fulfilled = task[w].copy.fulfilled
      BY InHand DEF Rows, Statuses
    <3> HIDE DEF copy
    <3> QED BY <1>3, <2>2, <3>1, <3>2, NotesSaved DEF Steps, copy
  <2>12. CASE DebitRecipient(w)
    BY <1>3, <2>2, <2>12, NotesWent DEF DebitRecipient, Steps
  <2>13. CASE DebitPlatform(w)
    BY <1>3, <2>2, <2>13, NotesWent DEF DebitPlatform, Steps
  <2>14. CASE Close(w)
    <3>1. PICK status \in Refundeds :
            SaveCopy(w, [task[w].copy EXCEPT !.status = status, !.refunded = task[w].amount],
                     "idle")
      BY <2>14 DEF Close, Refundeds
    <3> DEFINE copy == [task[w].copy EXCEPT !.status = status, !.refunded = task[w].amount]
    <3>2. /\ copy \in Rows /\ copy.credited = task[w].copy.credited
          /\ copy.fulfilled = task[w].copy.fulfilled
      BY InHand DEF Rows, Statuses, Refundeds
    <3> HIDE DEF copy
    <3> QED BY <1>3, <2>2, <3>1, <3>2, NotesSaved DEF Steps, copy
  <2>15. CASE DebitRefused(w)
    BY <1>3, <2>2, <2>15, NotesWent DEF DebitRefused, Goto, Steps
  <2>16. CASE Fault(w)
    <3>1. UNCHANGED <<rows, credits, fees, granted, purpose>>
      BY <2>16 DEF Fault, wallets, goods
    <3>2. RowNotes(p)'
      BY <3>1 DEF NotesInv, RowNotes, Bought
    <3>3. task'[w] # Idle => CopyNotes(w)'
      <4> SUFFICES ASSUME task'[w] # Idle PROVE CopyNotes(w)'
        OBVIOUS
      <4>1. task' = [task EXCEPT ![w].step = "looking", ![w].origin = "fallback"]
        <5>1. Done(w) => task'[w] = Idle
          BY <1>0 DEF Done
        <5> QED BY <2>16, <5>1 DEF Fault
      <4>2. task'[w].step = "looking" /\ task'[w].copy = task[w].copy /\ task'[w].payment = p
        BY <1>0, <2>2, <4>1, InHand DEF Tasks
      <4> QED BY <2>2, <3>1, <4>2 DEF CopyNotes, At, Bought
    <3> QED BY <2>1, <2>2, <3>2, <3>3, NotesKept
  <2> QED
    BY <1>3, <2>3, <2>4, <2>5, <2>6, <2>7, <2>8, <2>9, <2>10, <2>11, <2>12, <2>13, <2>14,
       <2>15, <2>16 DEF Works, Continue
<1>4. ASSUME NEW p \in Payments,
             IntentEnds(p) \/ Decline(p) \/ Refund(p) \/ CancelSubscription(p)
      PROVE NotesInv'
  <2>1. UNCHANGED <<rows, credits, fees, granted, purpose, task>>
    BY <1>4 DEF IntentEnds, Decline, Refund, CancelSubscription, wallets, goods
  <2> QED BY <2>1 DEF NotesInv, RowNotes, CopyNotes, At, Bought
<1>5. CASE UNCHANGED vars
  BY <1>5 DEF vars, NotesInv, RowNotes, CopyNotes, At, Bought
<1> QED BY <1>1, <1>2, <1>3, <1>4, <1>5 DEF Next, Begin, Works

(* Types, basis and notes hold of every run, also where handlers race.     *)
LEMMA NotesAlways == Spec => [](TypeInv /\ BasisInv /\ NotesInv)
<1>1. Init => TypeInv /\ BasisInv /\ NotesInv
  BY TypeStart, BasisStart, NotesStart
<1>2. TypeInv /\ BasisInv /\ NotesInv /\ [Next]_vars => (TypeInv /\ BasisInv /\ NotesInv)'
  BY TypeStep, BasisStep, NotesStep
<1> QED BY <1>1, <1>2, PTL DEF Spec

---------------------------------------------------------------------------
(* On a payment that was never raced at most one handler is at work, and   *)
(* its copy is still the row.                                              *)

Alone(p) ==
    p \in Unraced => \A v, w \in Workers :
        task[v].payment = p /\ task[w].payment = p => v = w

Fresh(w) ==
    \A p \in Unraced : p = task[w].payment =>
        IF At(w, "saving") THEN rows[p] = NoRow ELSE task[w].copy = rows[p]

AloneInv == /\ \A p \in Payments : Alone(p)
            /\ \A w \in Workers : Fresh(w)

LEMMA AloneStart == Init => AloneInv
  BY PaymentsAssumption DEF Init, AloneInv, Alone, Fresh, Unraced, Idle

LEMMA AloneStep == TypeInv /\ BasisInv /\ AloneInv /\ [Next]_vars => AloneInv'
<1> SUFFICES ASSUME TypeInv, BasisInv, AloneInv, [Next]_vars PROVE AloneInv'
  OBVIOUS
<1>0. task \in [Workers -> Tasks] /\ races \in [Payments -> 0..MaxRaces]
  BY DEF TypeInv, TypeOK
<1>1. ASSUME NEW w \in Workers, NEW p \in Payments, CreateIntent(w, p) PROVE AloneInv'
  <2>1. Quiet(p) /\ rows[p] = NoRow
    BY <1>1 DEF CreateIntent, BasisInv, Basis
  <2>2. task'[w].payment = p /\ task'[w].step = "saving"
    BY <1>0, <1>1, IdleTask DEF CreateIntent, Tasks
  <2>3. \A v \in Workers \ {w} : task'[v] = task[v]
    BY <1>0, <1>1 DEF CreateIntent
  <2>4. rows' = rows /\ races' = races
    BY <1>1 DEF CreateIntent, history
  <2> QED BY <2>1, <2>2, <2>3, <2>4 DEF AloneInv, Alone, Fresh, Unraced, Quiet, At
<1>2. ASSUME NEW w \in Workers, NEW p \in Payments,
             SucceededEvent(w, p) \/ FailedEvent(w, p) \/ RefundEvent(w, p)
      PROVE AloneInv'
  <2>1. CASE UNCHANGED vars
    BY <2>1 DEF vars, AloneInv, Alone, Fresh, Unraced, At
  <2>2. ASSUME NEW s \in Steps \ {"idle", "saving"}, NEW amount \in 0..Gross,
               Start(w, p, s, amount)
        PROVE AloneInv'
    <3>1. Begins(w, p, s, amount) /\ rows' = rows
      BY <2>2, StartBegins DEF Start
    <3>2. CASE Quiet(p)
      <4>1. races' = races
        BY <2>2, <3>2 DEF Start
      <4> QED BY <2>2, <3>1, <3>2, <4>1 DEF Begins, AloneInv, Alone, Fresh, Unraced, Quiet, At
    <3>3. CASE ~Quiet(p)
      <4>1. races'[p] # 0 /\ \A q \in Payments \ {p} : races'[q] = races[q]
        BY <1>0, <2>2, <3>3, GrossAssumption DEF Start
      <4> QED BY <2>2, <3>1, <4>1 DEF Begins, AloneInv, Alone, Fresh, Unraced, At
    <3> QED BY <3>2, <3>3
  <2> QED BY <1>2, <2>1, <2>2, EventStarts
<1>3. ASSUME NEW w \in Workers, Works(w) PROVE AloneInv'
  <2>1. Local(w)
    BY <1>3, StaysWithin
  <2>2. PICK p \in Payments : p = task[w].payment
    BY <2>1 DEF Local
  <2>3. races' = races /\ task'[w].payment \in {p, NoPayment}
        /\ (task'[w].payment # p => task'[w] = Idle)
    BY <2>1, <2>2 DEF Local, Idle
  <2>4. ASSUME NEW q \in Payments PROVE Alone(q)'
    BY <2>1, <2>2, <2>3, PaymentsAssumption DEF Local, AloneInv, Alone, Unraced
  <2>5. ASSUME NEW v \in Workers \ {w} PROVE Fresh(v)'
    <3>1. ASSUME NEW q \in Unraced', q = task'[v].payment
          PROVE IF At(v, "saving") THEN rows'[q] = NoRow ELSE task[v].copy = rows'[q]
      <4>1. q \in Unraced /\ q = task[v].payment /\ q \in Payments
        BY <2>1, <2>3, <3>1 DEF Local, Unraced
      <4>2. q # p
        BY <2>2, <4>1 DEF AloneInv, Alone
      <4>3. rows'[q] = rows[q]
        BY <2>1, <2>2, <4>1, <4>2 DEF Local
      <4> QED BY <4>1, <4>3 DEF AloneInv, Fresh
    <3> QED BY <2>1, <3>1 DEF Local, Fresh, At, Unraced
  <2>6. Fresh(w)'
    <3>1. CASE task'[w] = Idle
      BY <3>1, PaymentsAssumption DEF Fresh, Unraced, Idle
    <3>2. CASE task'[w] # Idle
      <4>1. task'[w].step # "saving" /\ task'[w].payment = p
        BY <2>1, <2>2, <3>2 DEF Local
      <4>2. p \in Unraced => task'[w].copy = rows'[p]
        BY <2>1, <2>2, <3>2 DEF Local, AloneInv, Fresh
      <4> QED BY <2>3, <4>1, <4>2 DEF Fresh, Unraced, At
    <3> QED BY <3>1, <3>2
  <2> QED BY <2>4, <2>5, <2>6 DEF AloneInv
<1>4. ASSUME NEW p \in Payments,
             IntentEnds(p) \/ Decline(p) \/ Refund(p) \/ CancelSubscription(p)
      PROVE AloneInv'
  <2>1. UNCHANGED <<rows, task, races>>
    BY <1>4 DEF IntentEnds, Decline, Refund, CancelSubscription, history
  <2> QED BY <2>1 DEF AloneInv, Alone, Fresh, Unraced, At
<1>5. CASE UNCHANGED vars
  BY <1>5 DEF vars, AloneInv, Alone, Fresh, Unraced, At
<1> QED BY <1>1, <1>2, <1>3, <1>4, <1>5 DEF Next, Begin, Works

---------------------------------------------------------------------------
(* A row that was never raced is only ever moved forward.                  *)

Paid == {"succeeded", "partially_refunded", "refunded"}

Forward(p) ==
    /\ rows[p].status \in Paid => rows'[p].status \in Paid
    /\ rows'[p].refunded >= rows[p].refunded
    /\ rows[p].credited => rows'[p].credited
    /\ rows[p].fulfilled => rows'[p].fulfilled

LEMMA MovesForward ==
  ASSUME TypeInv, AloneInv, NEW w \in Workers, Works(w),
         NEW p \in Payments, p = task[w].payment, p \in Unraced
  PROVE  Forward(p)
<1>0. rows[p] \in Rows /\ task[w].copy \in Rows /\ task[w].amount \in 0..Gross
      /\ rows[p].refunded \in 0..Gross /\ ~At(w, "idle")
  BY InHand, PaymentsAssumption DEF TypeInv, TypeOK, Rows, Shapes, TaskShape, Idle
<1>1. IF At(w, "saving") THEN rows[p] = NoRow ELSE task[w].copy = rows[p]
  BY DEF AloneInv, Fresh
<1>2. CASE UNCHANGED rows
  BY <1>0, <1>2, GrossAssumption DEF Forward
<1>3. ASSUME NEW copy \in Rows, NEW s \in Steps, SaveCopy(w, copy, s)
      PROVE  rows'[p] = copy
  BY <1>0, <1>3, SavesCopy DEF Saves
<1>4. CASE SaveNew(w)
  <2>1. rows[p] = NoRow
    BY <1>1, <1>4 DEF SaveNew
  <2>2. rows'[p] \in Rows
    BY <1>0, <1>3, <1>4 DEF SaveNew, Steps
  <2> QED BY <2>1, <2>2, GrossAssumption DEF Forward, NoRow, Paid, Rows
<1>5. CASE Mark(w)
  <2> DEFINE copy == [task[w].copy EXCEPT !.status = "succeeded"]
  <2>1. task[w].copy = rows[p]
    BY <1>1, <1>5 DEF Mark, At
  <2>2. /\ copy \in Rows /\ copy.status = "succeeded" /\ copy.refunded = rows[p].refunded
        /\ copy.credited = rows[p].credited /\ copy.fulfilled = rows[p].fulfilled
    BY <1>0, <2>1 DEF Rows, Statuses
  <2>3. ConfirmStep(copy) \in Steps /\ SaveCopy(w, copy, ConfirmStep(copy))
    BY <1>5 DEF Mark, ConfirmStep, Steps
  <2> HIDE DEF copy
  <2>4. rows'[p] = copy
    BY <1>3, <2>2, <2>3
  <2> QED BY <1>0, <2>2, <2>4, GrossAssumption DEF Forward, Paid
<1>6. CASE NoteCredit(w)
  <2> DEFINE copy == [task[w].copy EXCEPT !.credited = TRUE]
  <2>1. task[w].copy = rows[p]
    BY <1>1, <1>6 DEF NoteCredit, At
  <2>2. /\ copy \in Rows /\ copy.status = rows[p].status /\ copy.refunded = rows[p].refunded
        /\ copy.credited /\ copy.fulfilled = rows[p].fulfilled
    BY <1>0, <2>1 DEF Rows
  <2>3. PICK s \in Steps : SaveCopy(w, copy, s)
    BY <1>6 DEF NoteCredit, Steps
  <2> HIDE DEF copy
  <2>4. rows'[p] = copy
    BY <1>3, <2>2, <2>3
  <2> QED BY <1>0, <2>2, <2>4, GrossAssumption DEF Forward, Paid
<1>7. CASE Complete(w)
  <2> DEFINE copy == [task[w].copy EXCEPT !.fulfilled = TRUE]
  <2>1. task[w].copy = rows[p]
    BY <1>1, <1>7 DEF Complete, At
  <2>2. /\ copy \in Rows /\ copy.status = rows[p].status /\ copy.refunded = rows[p].refunded
        /\ copy.credited = rows[p].credited /\ copy.fulfilled
    BY <1>0, <2>1 DEF Rows
  <2>3. SaveCopy(w, copy, "idle") /\ "idle" \in Steps
    BY <1>7 DEF Complete, Steps
  <2> HIDE DEF copy
  <2>4. rows'[p] = copy
    BY <1>3, <2>2, <2>3
  <2> QED BY <1>0, <2>2, <2>4, GrossAssumption DEF Forward, Paid
<1>8. CASE Fail(w)
  <2>1. PICK status \in {"failed", "canceled"} :
          SaveCopy(w, [task[w].copy EXCEPT !.status = status], "idle")
    BY <1>8 DEF Fail
  <2> DEFINE copy == [task[w].copy EXCEPT !.status = status]
  <2>2. task[w].copy = rows[p] /\ task[w].step \in {"failing", "canceling"} /\ "idle" \in Steps
    BY <1>1, <1>8 DEF Fail, At, Steps
  <2>3. /\ copy \in Rows /\ copy.refunded = rows[p].refunded
        /\ copy.credited = rows[p].credited /\ copy.fulfilled = rows[p].fulfilled
    BY <1>0, <2>2 DEF Rows, Statuses
  <2>4. rows[p].status \notin Paid
    BY <2>2 DEF TypeInv, Shapes, TaskShape, Suits, Unpaid, Paid
  <2> HIDE DEF copy
  <2>5. rows'[p] = copy
    BY <1>3, <2>1, <2>2, <2>3 DEF copy
  <2> QED BY <1>0, <2>3, <2>4, <2>5, GrossAssumption DEF Forward
<1>9. CASE Close(w)
  <2>1. PICK status \in Refundeds :
          SaveCopy(w, [task[w].copy EXCEPT !.status = status, !.refunded = task[w].amount], "idle")
    BY <1>9 DEF Close, Refundeds
  <2> DEFINE copy == [task[w].copy EXCEPT !.status = status, !.refunded = task[w].amount]
  <2>2. task[w].copy = rows[p] /\ At(w, "closing") /\ "idle" \in Steps
    BY <1>1, <1>9 DEF Close, At, Steps
  <2>3. /\ copy \in Rows /\ copy.status = status /\ copy.refunded = task[w].amount
        /\ copy.credited = rows[p].credited /\ copy.fulfilled = rows[p].fulfilled
    BY <1>0, <2>2 DEF Rows, Statuses, Refundeds
  <2>4. task[w].amount > rows[p].refunded
    BY <2>2 DEF TypeInv, Shapes, TaskShape, Suits, At
  <2> HIDE DEF copy
  <2>5. rows'[p] = copy
    BY <1>3, <2>1, <2>2, <2>3 DEF copy
  <2> QED BY <1>0, <2>3, <2>4, <2>5, GrossAssumption DEF Forward, Paid, Refundeds
<1>10. SaveNew(w) \/ Mark(w) \/ NoteCredit(w) \/ Complete(w) \/ Fail(w) \/ Close(w)
       \/ UNCHANGED rows
  BY DEF Works, Continue, CreditRecipient, CreditPlatform, Look, Create, DebitRecipient,
         DebitPlatform, DebitRefused, Fault
<1> QED BY <1>2, <1>4, <1>5, <1>6, <1>7, <1>8, <1>9, <1>10

LEMMA Regresses == TypeInv /\ AloneInv /\ [Next]_vars => \A p \in Unraced' : Forward(p)
<1> SUFFICES ASSUME TypeInv, AloneInv, [Next]_vars, NEW p \in Unraced' PROVE Forward(p)
  OBVIOUS
<1>0. p \in Payments /\ rows[p] \in Rows /\ rows[p].refunded \in 0..Gross
  BY DEF Unraced, TypeInv, TypeOK, Rows
<1>1. CASE UNCHANGED rows
  BY <1>0, <1>1, GrossAssumption DEF Forward
<1>2. ASSUME NEW w \in Workers, Works(w) PROVE Forward(p)
  <2>1. Local(w)
    BY <1>2, StaysWithin
  <2>2. p \in Unraced
    BY <2>1 DEF Local, Unraced
  <2>3. CASE p = task[w].payment
    BY <1>0, <1>2, <2>2, <2>3, MovesForward
  <2>4. CASE p # task[w].payment
    <3>1. rows'[p] = rows[p]
      BY <1>0, <2>1, <2>4, SMTT(40) DEF Local
    <3> QED BY <1>0, <3>1, GrossAssumption DEF Forward
  <2> QED BY <2>3, <2>4
<1>3. UNCHANGED rows \/ \E w \in Workers : Works(w)
  BY DEF Next, Begin, Works, CreateIntent, SucceededEvent, FailedEvent, RefundEvent, Start,
         IntentEnds, Decline, Refund, CancelSubscription, vars
<1> QED BY <1>1, <1>2, <1>3

---------------------------------------------------------------------------
(* Money.  Of a payment that was neither raced nor torn the books can be   *)
(* told from its row and from the step of the handler at work on it.       *)

Story(p, step, amount) ==
    /\ credits[p] = IF rows[p].credited \/ step \in {"creditingPlatform", "noting"}
                    THEN 1 ELSE 0
    /\ fees[p] = IF rows[p].credited \/ step = "noting" THEN 1 ELSE 0
    /\ back[p] = IF ~rows[p].credited THEN 0
                 ELSE IF step \in {"debitingPlatform", "closing"} THEN amount
                 ELSE rows[p].refunded
    /\ feeBack[p] = IF ~rows[p].credited THEN 0
                    ELSE IF step = "closing" THEN amount
                    ELSE rows[p].refunded

(* The same with nobody at work on it.                                     *)
Settled(p) == Story(p, "idle", 0)

MoneyInv ==
    /\ \A p \in Undisturbed : Quiet(p) => Settled(p)
    /\ \A p \in Undisturbed : \A w \in Workers :
         p = task[w].payment => Story(p, task[w].step, task[w].amount)

(* Only the story of the payment in hand can change.                       *)
LEMMA MoneyKept ==
  ASSUME TypeInv, AloneInv, MoneyInv, NEW w \in Workers, Local(w),
         NEW p \in Payments, p = task[w].payment,
         p \in Undisturbed' => /\ task'[w] = Idle => Settled(p)'
                               /\ task'[w] # Idle => Story(p, task[w].step, task[w].amount)'
  PROVE  MoneyInv'
<1>1. ASSUME NEW q \in Undisturbed', q # p
      PROVE  /\ q \in Undisturbed
             /\ \A step, amount : Story(q, step, amount) => Story(q, step, amount)'
  <2>1. q \in Payments /\ q \in Undisturbed
    BY DEF Local, Undisturbed, Unraced
  <2> QED BY <1>1, <2>1 DEF Local, Story
<1>2. task'[w].payment \in {p, NoPayment}
  BY DEF Local, Idle
<1>3. ASSUME NEW q \in Undisturbed', Quiet(q)' PROVE Settled(q)'
  <2>1. CASE q = p
    <3>1. task'[w] = Idle
      BY <1>3, <2>1 DEF Local, Quiet
    <3> QED BY <2>1, <3>1
  <2>2. CASE q # p
    <3>1. Quiet(q)
      BY <1>3, <2>2 DEF Local, Quiet
    <3>2. Settled(q)
      BY <1>1, <2>2, <3>1 DEF MoneyInv
    <3> QED BY <1>1, <2>2, <3>2 DEF Settled, Story
  <2> QED BY <2>1, <2>2
<1>4. ASSUME NEW q \in Undisturbed', NEW v \in Workers, q = task'[v].payment
      PROVE  Story(q, task[v].step, task[v].amount)'
  <2>0. q \in Payments
    BY DEF Undisturbed, Unraced
  <2>1. CASE v = w
    <3>1. q = p /\ task'[w] # Idle
      BY <1>2, <1>4, <2>0, <2>1, PaymentsAssumption DEF Idle
    <3> QED BY <2>1, <3>1
  <2>2. CASE v # w
    <3>1. task'[v] = task[v]
      BY <2>2 DEF Local
    <3>2. q # p
      <4>1. q \in Unraced
        BY <2>0 DEF Local, Undisturbed, Unraced
      <4> QED BY <1>4, <2>0, <2>2, <3>1, <4>1 DEF AloneInv, Alone
    <3>3. Story(q, task[v].step, task[v].amount)
      BY <1>1, <1>4, <3>1, <3>2 DEF MoneyInv
    <3> QED BY <1>1, <3>1, <3>2, <3>3 DEF Story
  <2> QED BY <2>1, <2>2
<1> QED BY <1>3, <1>4 DEF MoneyInv

LEMMA MoneyStart == Init => MoneyInv
<1> SUFFICES ASSUME Init PROVE MoneyInv
  OBVIOUS
<1>1. ASSUME NEW p \in Payments PROVE Settled(p) /\ \A w \in Workers : p # task[w].payment
  BY PaymentsAssumption DEF Init, Settled, Story, NoRow, Idle
<1> QED BY <1>1 DEF MoneyInv, Undisturbed, Unraced

(* What a handler of an undisturbed payment has in hand.                   *)
LEMMA MoneyInHand ==
  ASSUME TypeInv, AloneInv, MoneyInv, NEW w \in Workers, NEW p \in Undisturbed,
         p = task[w].payment
  PROVE  /\ Story(p, task[w].step, task[w].amount)
         /\ IF At(w, "saving") THEN rows[p] = NoRow ELSE task[w].copy = rows[p]
         /\ TaskShape(w) /\ RowShape(rows[p]) /\ rows[p] \in Rows
         /\ rows[p].refunded \in 0..Gross /\ task[w].amount \in 0..Gross
  BY InHand DEF MoneyInv, AloneInv, Fresh, Undisturbed, Unraced, TypeInv, TypeOK, Shapes, Rows

(* A save that leaves the notes of the money alone keeps the story, unless *)
(* money is on its way.                                                    *)
LEMMA MoneySaved ==
  ASSUME TypeInv, AloneInv, MoneyInv, NEW w \in Workers, Works(w),
         NEW p \in Payments, p = task[w].payment,
         NEW copy \in Rows, NEW s \in Steps \ {"saving"}, SaveCopy(w, copy, s),
         p \in Undisturbed =>
             /\ copy.credited = rows[p].credited /\ copy.refunded = rows[p].refunded
             /\ task[w].step \notin {"creditingPlatform", "noting", "debitingPlatform", "closing"}
             /\ s \notin {"creditingPlatform", "noting", "debitingPlatform", "closing"}
  PROVE  MoneyInv'
<1>1. Local(w)
  BY StaysWithin
<1>2. Moves(w, s, copy) /\ Saves(w, copy)
  BY <1>1, SavesCopy DEF Local
<1>3. UNCHANGED <<credits, fees, back, feeBack, races, torn>>
  BY DEF SaveCopy, wallets, history
<1>4. ASSUME p \in Undisturbed'
      PROVE  /\ task'[w] = Idle => Settled(p)'
             /\ task'[w] # Idle => Story(p, task[w].step, task[w].amount)'
  <2>1. p \in Undisturbed
    BY <1>3, <1>4 DEF Undisturbed, Unraced
  <2>2. Story(p, task[w].step, task[w].amount)
    BY <2>1, MoneyInHand
  <2>3. rows'[p] = copy /\ (task'[w] # Idle => task'[w].step = s)
    BY <1>2 DEF Saves, Moves
  <2> QED BY <1>3, <2>1, <2>2, <2>3 DEF Settled, Story
<1> QED BY <1>1, <1>4, MoneyKept

(* A handler that goes on tells the story of its new step.                 *)
LEMMA MoneyWent ==
  ASSUME TypeInv, AloneInv, MoneyInv, NEW w \in Workers, Works(w),
         NEW p \in Payments, p = task[w].payment,
         NEW s \in Steps \ {"saving"}, Goto(w, s), UNCHANGED <<rows, races, torn>>,
         NEW amount, amount = task[w].amount,
         p \in Undisturbed => Story(p, s, amount)'
  PROVE  MoneyInv'
<1>1. Local(w) /\ Moves(w, s, task[w].copy)
  BY StaysWithin, GoesTo
<1>2. ASSUME p \in Undisturbed'
      PROVE  /\ task'[w] = Idle => Settled(p)'
             /\ task'[w] # Idle => Story(p, task[w].step, task[w].amount)'
  <2>1. Story(p, s, amount)'
    BY <1>2 DEF Undisturbed, Unraced
  <2>2. CASE s = "idle"
    BY <1>1, <2>1, <2>2 DEF Moves, Settled, Story
  <2>3. CASE s # "idle"
    <3>1. task'[w].step = s /\ task'[w].amount = amount /\ task'[w] # Idle
      BY <1>1, <2>3 DEF Moves, Idle
    <3> QED BY <2>1, <3>1 DEF Story
  <2> QED BY <2>2, <2>3
<1> QED BY <1>1, <1>2, MoneyKept

LEMMA MoneyStep == TypeInv /\ BasisInv /\ AloneInv /\ MoneyInv /\ [Next]_vars => MoneyInv'
<1> SUFFICES ASSUME TypeInv, BasisInv, AloneInv, MoneyInv, [Next]_vars PROVE MoneyInv'
  OBVIOUS
<1>0. /\ task \in [Workers -> Tasks] /\ races \in [Payments -> 0..MaxRaces]
      /\ credits \in [Payments -> Nat] /\ fees \in [Payments -> Nat]
      /\ back \in [Payments -> Nat] /\ feeBack \in [Payments -> Nat]
  BY DEF TypeInv, TypeOK
<1>1. ASSUME NEW w \in Workers, NEW p \in Payments, CreateIntent(w, p) PROVE MoneyInv'
  <2>1. UNCHANGED <<rows, credits, fees, back, feeBack, races, torn>>
    BY <1>1 DEF CreateIntent, wallets, history
  <2>2. task'[w].payment = p /\ task'[w].step = "saving"
        /\ \A v \in Workers \ {w} : task'[v] = task[v]
    BY <1>0, <1>1, IdleTask DEF CreateIntent, Tasks
  <2>3. ASSUME NEW q \in Undisturbed', NEW v \in Workers, q = task'[v].payment
        PROVE  Story(q, task[v].step, task[v].amount)'
    <3>1. CASE v = w
      <4>1. Story(p, "idle", 0)
        BY <1>1, <2>1, <2>2, <2>3, <3>1
           DEF CreateIntent, BasisInv, Basis, MoneyInv, Settled, Undisturbed, Unraced
      <4> QED BY <2>1, <2>2, <2>3, <3>1, <4>1 DEF Story
    <3>2. CASE v # w
      BY <2>1, <2>2, <2>3, <3>2 DEF MoneyInv, Story, Undisturbed, Unraced
    <3> QED BY <3>1, <3>2
  <2>4. ASSUME NEW q \in Undisturbed', Quiet(q)' PROVE Settled(q)'
    <3>1. At(w, "idle") /\ task[w].payment = NoPayment
      BY <1>1 DEF CreateIntent, TypeInv, Shapes, TaskShape, Idle
    <3>2. Quiet(q) /\ q \in Undisturbed
      BY <2>1, <2>2, <2>4, <3>1, PaymentsAssumption DEF Quiet, Undisturbed, Unraced
    <3> QED BY <2>1, <3>2 DEF MoneyInv, Settled, Story
  <2> QED BY <2>3, <2>4 DEF MoneyInv
<1>2. ASSUME NEW w \in Workers, NEW p \in Payments,
             SucceededEvent(w, p) \/ FailedEvent(w, p) \/ RefundEvent(w, p)
      PROVE MoneyInv'
  <2>1. CASE UNCHANGED vars
    BY <2>1 DEF vars, MoneyInv, Settled, Story, Quiet, Undisturbed, Unraced
  <2>2. ASSUME NEW s \in Steps \ {"idle", "saving"}, NEW amount \in 0..Gross,
               Start(w, p, s, amount), Suits(s, rows[p], amount),
               s \notin {"debitingPlatform", "creditingPlatform", "noting", "creating",
                         "completing"},
               s = "closing" => ~rows[p].credited
        PROVE MoneyInv'
    <3>0. At(w, "idle") /\ TaskShape(w)
      BY <2>2 DEF Start, TypeInv, Shapes
    <3>1. Begins(w, p, s, amount) /\ task[w].payment = NoPayment
      BY <2>2, <3>0, StartBegins DEF TaskShape, Idle
    <3>2. UNCHANGED <<rows, credits, fees, back, feeBack, torn>>
      BY <2>2 DEF Start, wallets
    <3>3. Undisturbed' \subseteq Undisturbed /\ (p \in Undisturbed' => Quiet(p))
      <4>1. CASE Quiet(p)
        BY <2>2, <3>2, <4>1 DEF Start, Undisturbed, Unraced
      <4>2. CASE ~Quiet(p)
        <5>1. races'[p] # 0 /\ \A q \in Payments \ {p} : races'[q] = races[q]
          BY <1>0, <2>2, <4>2, GrossAssumption DEF Start
        <5> QED BY <3>2, <5>1 DEF Undisturbed, Unraced
      <4> QED BY <4>1, <4>2
    <3>4. ASSUME NEW q \in Undisturbed', NEW v \in Workers, q = task'[v].payment
          PROVE  Story(q, task[v].step, task[v].amount)'
      <4>1. CASE v = w
        <5>1. q = p /\ Story(p, "idle", 0)
          BY <3>1, <3>3, <3>4, <4>1 DEF Begins, MoneyInv, Settled
        <5> QED BY <2>2, <3>1, <3>2, <4>1, <5>1 DEF Begins, Story
      <4>2. CASE v # w
        BY <3>1, <3>2, <3>3, <3>4, <4>2 DEF Begins, MoneyInv, Story
      <4> QED BY <4>1, <4>2
    <3>5. ASSUME NEW q \in Undisturbed', Quiet(q)' PROVE Settled(q)'
      <4>1. Quiet(q) /\ q \in Undisturbed
        BY <3>1, <3>3, <3>5, PaymentsAssumption DEF Begins, Quiet, Undisturbed, Unraced
      <4> QED BY <3>2, <4>1 DEF MoneyInv, Settled, Story
    <3> QED BY <3>4, <3>5 DEF MoneyInv
  <2> QED BY <1>2, <2>1, <2>2, EventStarts
<1>3. ASSUME NEW w \in Workers, Works(w) PROVE MoneyInv'
  <2>1. Local(w) /\ ~At(w, "idle")
    BY <1>3, StaysWithin DEF Local
  <2>2. PICK p \in Payments : p = task[w].payment
    BY <2>1 DEF Local
  <2>3. CASE SaveNew(w)
    <3>1. PICK s \in {"crediting", "idle"} : SaveCopy(w, task[w].copy, s)
      BY <2>3 DEF SaveNew
    <3>2. p \in Undisturbed =>
             /\ task[w].copy.credited = rows[p].credited
             /\ task[w].copy.refunded = rows[p].refunded
      <4>1. task[w].copy.credited \in BOOLEAN
        BY InHand DEF Rows
      <4>2. ~task[w].copy.credited /\ task[w].copy.refunded = 0
        BY <2>3 DEF SaveNew, TypeInv, Shapes, TaskShape
      <4>3. p \in Undisturbed => rows[p] = NoRow
        BY <2>2, <2>3, MoneyInHand DEF SaveNew
      <4>4. NoRow.credited = FALSE /\ NoRow.refunded = 0
        BY DEF NoRow
      <4> QED BY <4>1, <4>2, <4>3, <4>4
    <3>3. At(w, "saving")
      BY <2>3 DEF SaveNew
    <3> QED BY <1>3, <2>2, <3>1, <3>2, <3>3, InHand, MoneySaved DEF Steps, At
  <2>4. CASE Mark(w)
    <3> DEFINE copy == [task[w].copy EXCEPT !.status = "succeeded"]
    <3>1. /\ copy \in Rows /\ copy.credited = task[w].copy.credited
          /\ copy.refunded = task[w].copy.refunded
      BY InHand DEF Rows, Statuses
    <3>2. ConfirmStep(copy) \in Steps \ {"saving", "creditingPlatform", "noting",
                                         "debitingPlatform", "closing"}
      BY DEF ConfirmStep, Steps
    <3>3. p \in Undisturbed => task[w].copy = rows[p]
      BY <2>2, <2>4, MoneyInHand DEF Mark, At
    <3> HIDE DEF copy
    <3> QED BY <1>3, <2>2, <2>4, <3>1, <3>2, <3>3, MoneySaved DEF Mark, At, copy
  <2>5. CASE CreditRecipient(w)
    <3>1. PICK amount : amount = task[w].amount
      OBVIOUS
    <3>2. credits'[p] = credits[p] + 1
      BY <1>0, <2>2, <2>5 DEF CreditRecipient
    <3>3. UNCHANGED <<rows, fees, back, feeBack, races, torn>>
      BY <2>5 DEF CreditRecipient, history
    <3>4. ASSUME p \in Undisturbed PROVE Story(p, "creditingPlatform", amount)'
      <4>1. ~rows[p].credited /\ At(w, "crediting")
        BY <2>2, <2>5, <3>4, MoneyInHand DEF CreditRecipient, At, TaskShape, Suits
      <4>2. Story(p, "crediting", amount)
        BY <2>2, <3>1, <3>4, <4>1, MoneyInHand DEF At
      <4> QED BY <3>2, <3>3, <4>1, <4>2 DEF Story
    <3> QED BY <1>3, <2>2, <2>5, <3>1, <3>3, <3>4, MoneyWent DEF CreditRecipient, Steps
  <2>6. CASE CreditPlatform(w)
    <3>1. PICK amount : amount = task[w].amount
      OBVIOUS
    <3>2. fees'[p] = fees[p] + 1
      BY <1>0, <2>2, <2>6 DEF CreditPlatform
    <3>3. UNCHANGED <<rows, credits, back, feeBack, races, torn>>
      BY <2>6 DEF CreditPlatform, history
    <3>4. ASSUME p \in Undisturbed PROVE Story(p, "noting", amount)'
      <4>1. ~rows[p].credited /\ At(w, "creditingPlatform")
        BY <2>2, <2>6, <3>4, MoneyInHand DEF CreditPlatform, At, TaskShape, Suits
      <4>2. Story(p, "creditingPlatform", amount)
        BY <2>2, <3>1, <3>4, <4>1, MoneyInHand DEF At
      <4> QED BY <3>2, <3>3, <4>1, <4>2 DEF Story
    <3> QED BY <1>3, <2>2, <2>6, <3>1, <3>3, <3>4, MoneyWent DEF CreditPlatform, Steps
  <2>7. CASE NoteCredit(w)
    <3> DEFINE copy == [task[w].copy EXCEPT !.credited = TRUE]
    <3>1. copy \in Rows /\ copy.credited /\ copy.refunded = task[w].copy.refunded
      BY InHand DEF Rows
    <3>2. PICK s \in {"looking", "idle"} : SaveCopy(w, copy, s)
      BY <2>7 DEF NoteCredit
    <3> HIDE DEF copy
    <3>3. Moves(w, s, copy) /\ Saves(w, copy)
      BY <2>1, <3>1, <3>2, SavesCopy DEF Steps
    <3>4. UNCHANGED <<credits, fees, back, feeBack, races, torn>>
      BY <3>2 DEF SaveCopy, wallets, history
    <3>5. rows'[p] = copy /\ (task'[w] # Idle => task'[w].step = "looking")
      BY <2>2, <3>2, <3>3 DEF Saves, Moves
    <3>6. ASSUME p \in Undisturbed'
          PROVE  /\ task'[w] = Idle => Settled(p)'
                 /\ task'[w] # Idle => Story(p, task[w].step, task[w].amount)'
      <4>1. p \in Undisturbed
        BY <3>4, <3>6 DEF Undisturbed, Unraced
      <4>2. Story(p, "noting", task[w].amount) /\ task[w].copy = rows[p] /\ TaskShape(w)
            /\ rows[p].refunded \in 0..Gross
        BY <2>2, <2>7, <4>1, MoneyInHand DEF NoteCredit, At
      <4>3. ~rows[p].credited /\ rows[p].refunded = 0
        BY <2>7, <4>2, GrossAssumption
           DEF NoteCredit, At, TaskShape, Suits, RowShape, Refundeds
      <4> QED BY <3>1, <3>4, <3>5, <4>2, <4>3 DEF Settled, Story
    <3> QED BY <2>1, <2>2, <3>6, MoneyKept
  <2>8. CASE Look(w)
    <3>1. PICK amount : amount = task[w].amount
      OBVIOUS
    <3>2. PICK s \in {"creating", "idle", "completing"} : Goto(w, s)
      BY <2>8 DEF Look
    <3>3. UNCHANGED <<rows, credits, fees, back, feeBack, races, torn>>
      BY <2>8 DEF Look, wallets, history
    <3>4. ASSUME p \in Undisturbed PROVE Story(p, s, amount)'
      <4>1. Story(p, "looking", amount)
        BY <2>2, <2>8, <3>1, <3>4, MoneyInHand DEF Look, At
      <4> QED BY <3>2, <3>3, <4>1 DEF Story
    <3> QED BY <1>3, <2>2, <3>1, <3>2, <3>3, <3>4, MoneyWent DEF Steps
  <2>9. CASE Create(w)
    <3>1. PICK amount : amount = task[w].amount
      OBVIOUS
    <3>2. PICK s \in {"idle", "completing"} : Goto(w, s)
      BY <2>9 DEF Create
    <3>3. UNCHANGED <<rows, credits, fees, back, feeBack, races, torn>>
      BY <2>9 DEF Create, wallets, history
    <3>4. ASSUME p \in Undisturbed PROVE Story(p, s, amount)'
      <4>1. Story(p, "creating", amount)
        BY <2>2, <2>9, <3>1, <3>4, MoneyInHand DEF Create, At
      <4> QED BY <3>2, <3>3, <4>1 DEF Story
    <3> QED BY <1>3, <2>2, <3>1, <3>2, <3>3, <3>4, MoneyWent DEF Steps
  <2>10. CASE Complete(w)
    <3> DEFINE copy == [task[w].copy EXCEPT !.fulfilled = TRUE]
    <3>1. /\ copy \in Rows /\ copy.credited = task[w].copy.credited
          /\ copy.refunded = task[w].copy.refunded
      BY InHand DEF Rows
    <3>2. SaveCopy(w, copy, "idle") /\ At(w, "completing")
      BY <2>10 DEF Complete
    <3>3. p \in Undisturbed => task[w].copy = rows[p]
      BY <2>2, <3>2, MoneyInHand DEF At
    <3> HIDE DEF copy
    <3> QED BY <1>3, <2>2, <3>1, <3>2, <3>3, MoneySaved DEF Steps, At
  <2>11. CASE Fail(w)
    <3>1. PICK status \in {"failed", "canceled"} :
            SaveCopy(w, [task[w].copy EXCEPT !.status = status], "idle")
      BY <2>11 DEF Fail
    <3> DEFINE copy == [task[w].copy EXCEPT !.status = status]
    <3>2. /\ copy \in Rows /\ copy.credited = task[w].copy.credited
          /\ copy.refunded = task[w].copy.refunded
      BY InHand DEF Rows, Statuses
    <3>3. task[w].step \in {"failing", "canceling"}
      BY <2>11 DEF Fail, At
    <3>4. p \in Undisturbed => task[w].copy = rows[p]
      BY <2>2, <3>3, MoneyInHand DEF At
    <3>5. SaveCopy(w, copy, "idle")
      BY <3>1
    <3> HIDE DEF copy
    <3> QED BY <1>3, <2>2, <3>2, <3>3, <3>4, <3>5, MoneySaved DEF Steps
  <2>12. CASE DebitRecipient(w)
    <3>1. PICK amount : amount = task[w].amount
      OBVIOUS
    <3>2. back'[p] = back[p] + Delta(w)
      BY <1>0, <2>2, <2>12 DEF DebitRecipient
    <3>3. UNCHANGED <<rows, credits, fees, feeBack, races, torn>>
      BY <2>12 DEF DebitRecipient, history
    <3>4. ASSUME p \in Undisturbed PROVE Story(p, "debitingPlatform", amount)'
      <4>1. At(w, "debiting") /\ rows[p].credited /\ task[w].copy = rows[p]
            /\ rows[p].refunded \in 0..Gross /\ amount \in 0..Gross
        BY <2>2, <2>12, <3>1, <3>4, MoneyInHand DEF DebitRecipient, At, TaskShape, Suits
      <4>2. Story(p, "debiting", amount)
        BY <2>2, <3>1, <3>4, <4>1, MoneyInHand DEF At
      <4>3. back'[p] = amount
        BY <3>1, <3>2, <4>1, <4>2, GrossAssumption DEF Story, Delta
      <4> QED BY <3>3, <4>1, <4>2, <4>3 DEF Story
    <3> QED BY <1>3, <2>2, <2>12, <3>1, <3>3, <3>4, MoneyWent DEF DebitRecipient, Steps
  <2>13. CASE DebitPlatform(w)
    <3>1. PICK amount : amount = task[w].amount
      OBVIOUS
    <3>2. feeBack'[p] = feeBack[p] + Delta(w)
      BY <1>0, <2>2, <2>13 DEF DebitPlatform
    <3>3. UNCHANGED <<rows, credits, fees, back, races, torn>>
      BY <2>13 DEF DebitPlatform, history
    <3>4. ASSUME p \in Undisturbed PROVE Story(p, "closing", amount)'
      <4>1. At(w, "debitingPlatform") /\ rows[p].credited /\ task[w].copy = rows[p]
            /\ rows[p].refunded \in 0..Gross /\ amount \in 0..Gross
        BY <2>2, <2>13, <3>1, <3>4, MoneyInHand DEF DebitPlatform, At, TaskShape, Suits
      <4>2. Story(p, "debitingPlatform", amount)
        BY <2>2, <3>1, <3>4, <4>1, MoneyInHand DEF At
      <4>3. feeBack'[p] = amount
        BY <3>1, <3>2, <4>1, <4>2, GrossAssumption DEF Story, Delta
      <4> QED BY <3>3, <4>1, <4>2, <4>3 DEF Story
    <3> QED BY <1>3, <2>2, <2>13, <3>1, <3>3, <3>4, MoneyWent DEF DebitPlatform, Steps
  <2>14. CASE Close(w)
    <3>1. PICK status \in Refundeds :
            SaveCopy(w, [task[w].copy EXCEPT !.status = status, !.refunded = task[w].amount],
                     "idle")
      BY <2>14 DEF Close, Refundeds
    <3> DEFINE copy == [task[w].copy EXCEPT !.status = status, !.refunded = task[w].amount]
    <3>2. /\ copy \in Rows /\ copy.credited = task[w].copy.credited
          /\ copy.refunded = task[w].amount
      BY InHand DEF Rows, Statuses, Refundeds
    <3>3. SaveCopy(w, copy, "idle")
      BY <3>1
    <3> HIDE DEF copy
    <3>4. Moves(w, "idle", copy) /\ Saves(w, copy)
      BY <2>1, <3>2, <3>3, SavesCopy DEF Steps
    <3>5. UNCHANGED <<credits, fees, back, feeBack, races, torn>>
      BY <3>3 DEF SaveCopy, wallets, history
    <3>6. rows'[p] = copy /\ task'[w] = Idle
      BY <2>2, <3>4 DEF Saves, Moves
    <3>7. ASSUME p \in Undisturbed' PROVE Settled(p)'
      <4>1. p \in Undisturbed
        BY <3>5, <3>7 DEF Undisturbed, Unraced
      <4>2. Story(p, "closing", task[w].amount) /\ task[w].copy = rows[p]
        BY <2>2, <2>14, <4>1, MoneyInHand DEF Close, At
      <4> QED BY <3>2, <3>5, <3>6, <4>2 DEF Settled, Story
    <3> QED BY <2>1, <2>2, <3>6, <3>7, MoneyKept
  <2>15. CASE DebitRefused(w)
    <3>1. PICK amount : amount = task[w].amount
      OBVIOUS
    <3>2. Goto(w, "idle") /\ UNCHANGED <<rows, credits, fees, back, feeBack, races, torn>>
      BY <2>15 DEF DebitRefused, Goto, wallets, history
    <3>3. ASSUME p \in Undisturbed PROVE Story(p, "idle", amount)'
      <4>1. Story(p, "debiting", amount)
        BY <2>2, <2>15, <3>1, <3>3, MoneyInHand DEF DebitRefused, At
      <4> QED BY <3>2, <4>1 DEF Story
    <3> QED BY <1>3, <2>2, <3>1, <3>2, <3>3, MoneyWent DEF Steps
  <2>16. CASE Fault(w)
    <3>1. UNCHANGED <<rows, credits, fees, back, feeBack, races>>
      BY <2>16 DEF Fault, wallets
    <3>2. task'[w] # Idle => task'[w].step = "looking"
      <4>1. Done(w) => task'[w] = Idle
        BY <1>0 DEF Done
      <4>2. task' = [task EXCEPT ![w].step = "looking", ![w].origin = "fallback"]
              => task'[w].step = "looking"
        BY <1>0, InHand DEF Tasks
      <4> QED BY <2>16, <4>1, <4>2 DEF Fault
    <3>3. ASSUME p \in Undisturbed'
          PROVE  /\ task'[w] = Idle => Settled(p)'
                 /\ task'[w] # Idle => Story(p, task[w].step, task[w].amount)'
      <4>1. p \in Undisturbed
        BY <2>1, <3>3 DEF Local, Undisturbed, Unraced
      <4>2. /\ task[w].step \notin {"creditingPlatform", "noting", "debitingPlatform"}
            /\ task[w].step = "closing" => ~task[w].copy.credited
        BY <2>2, <2>16, <3>3 DEF Fault, At, Undisturbed
      <4>3. Story(p, task[w].step, task[w].amount)
            /\ IF At(w, "saving") THEN rows[p] = NoRow ELSE task[w].copy = rows[p]
        BY <2>2, <4>1, MoneyInHand
      <4> QED BY <3>1, <3>2, <4>2, <4>3 DEF Settled, Story, At
    <3> QED BY <2>1, <2>2, <3>3, MoneyKept
  <2> QED
    BY <1>3, <2>3, <2>4, <2>5, <2>6, <2>7, <2>8, <2>9, <2>10, <2>11, <2>12, <2>13, <2>14,
       <2>15, <2>16 DEF Works, Continue
<1>4. ASSUME NEW p \in Payments,
             IntentEnds(p) \/ Decline(p) \/ Refund(p) \/ CancelSubscription(p)
      PROVE MoneyInv'
  <2>1. UNCHANGED <<rows, credits, fees, back, feeBack, task, races, torn>>
    BY <1>4 DEF IntentEnds, Decline, Refund, CancelSubscription, wallets, history
  <2> QED BY <2>1 DEF MoneyInv, Settled, Story, Quiet, Undisturbed, Unraced
<1>5. CASE UNCHANGED vars
  BY <1>5 DEF vars, MoneyInv, Settled, Story, Quiet, Undisturbed, Unraced
<1> QED BY <1>1, <1>2, <1>3, <1>4, <1>5 DEF Next, Begin, Works

---------------------------------------------------------------------------
(* Goods.  A subscription that was not canceled too early is still active  *)
(* until its row notes it, so that the next handler finds it; and whoever  *)
(* is about to insert has found nothing.                                   *)

Kept == Unraced \ lapsed

Granted(p) ==
    /\ granted[p] <= 1
    /\ purpose[p] = "subscription" /\ ~rows[p].fulfilled => active[p] = granted[p]

GoodsInv ==
    /\ \A p \in Kept : Granted(p)
    /\ \A p \in Kept : \A w \in Workers :
         p = task[w].payment /\ At(w, "creating") => granted[p] = 0

LEMMA GoodsStart == Init => GoodsInv
<1> SUFFICES ASSUME Init PROVE GoodsInv
  OBVIOUS
<1>1. ASSUME NEW p \in Payments PROVE Granted(p) /\ \A w \in Workers : p # task[w].payment
  BY PaymentsAssumption DEF Init, Granted, Idle
<1> QED BY <1>1 DEF GoodsInv, Kept, Unraced

(* Look goes on to insert only if there is nothing to be found.            *)
LEMMA LookFinds ==
  ASSUME TypeInv, BasisInv, AloneInv, GoodsInv, NEW w \in Workers, Look(w),
         NEW p \in Kept, p = task[w].payment, task'[w].step = "creating"
  PROVE  granted[p] = 0
<1>1. p \in Payments /\ p \in Unraced /\ granted[p] \in Nat /\ active[p] \in Nat
      /\ purpose[p] \in {"tip", "subscription"}
  BY DEF Kept, Unraced, TypeInv, TypeOK
<1>2. At(w, "looking")
  BY DEF Look
<1>3. ~rows[p].fulfilled
  <2>1. task[w].copy = rows[p]
    BY <1>1, <1>2 DEF AloneInv, Fresh, At
  <2> QED BY <1>2, <2>1 DEF TypeInv, Shapes, TaskShape, Suits, At
<1>4. PICK s \in {"creating", "idle", "completing"} : Goto(w, s) /\
        (s = "creating" => IF purpose[p] = "tip" THEN ~(granted[p] > 0) ELSE ~Subscribed)
  BY DEF Look
<1>5. s = "creating"
  BY <1>4, GoesTo DEF Moves, Steps, Idle
<1>6. CASE purpose[p] = "tip"
  BY <1>1, <1>4, <1>5, <1>6
<1>7. CASE purpose[p] = "subscription"
  <2>1. active[p] = 0
    BY <1>1, <1>4, <1>5, <1>7 DEF Subscribed
  <2>2. active[p] = granted[p]
    BY <1>3, <1>7 DEF GoodsInv, Granted
  <2> QED BY <2>1, <2>2
<1> QED BY <1>1, <1>6, <1>7

LEMMA GoodsStep == TypeInv /\ BasisInv /\ AloneInv /\ GoodsInv /\ [Next]_vars => GoodsInv'
<1> SUFFICES ASSUME TypeInv, BasisInv, AloneInv, GoodsInv, [Next]_vars PROVE GoodsInv'
  OBVIOUS
<1>0. /\ task \in [Workers -> Tasks] /\ races \in [Payments -> 0..MaxRaces]
      /\ granted \in [Payments -> Nat] /\ active \in [Payments -> Nat]
      /\ purpose \in [Payments -> {"tip", "subscription"}]
  BY DEF TypeInv, TypeOK
<1>1. ASSUME NEW w \in Workers, NEW p \in Payments, CreateIntent(w, p) PROVE GoodsInv'
  <2>1. UNCHANGED <<rows, granted, active, races, lapsed>>
    BY <1>1 DEF CreateIntent, history
  <2>2. \A q \in Payments \ {p} : purpose'[q] = purpose[q]
    BY <1>0, <1>1 DEF CreateIntent
  <2>3. granted[p] = 0 /\ active[p] = 0
    BY <1>1 DEF CreateIntent, BasisInv, Basis
  <2>4. task'[w].step = "saving" /\ \A v \in Workers \ {w} : task'[v] = task[v]
    BY <1>0, <1>1, IdleTask DEF CreateIntent, Tasks
  <2>5. ASSUME NEW q \in Kept' PROVE Granted(q)'
    BY <2>1, <2>2, <2>3 DEF GoodsInv, Granted, Kept, Unraced
  <2>6. ASSUME NEW q \in Kept', NEW v \in Workers, q = task'[v].payment, task'[v].step = "creating"
        PROVE  granted'[q] = 0
    BY <2>1, <2>4, <2>6 DEF GoodsInv, Kept, Unraced, At
  <2> QED BY <2>5, <2>6 DEF GoodsInv, At
<1>2. ASSUME NEW w \in Workers, NEW p \in Payments,
             SucceededEvent(w, p) \/ FailedEvent(w, p) \/ RefundEvent(w, p)
      PROVE GoodsInv'
  <2>1. CASE UNCHANGED vars
    BY <2>1 DEF vars, GoodsInv, Granted, Kept, Unraced, At
  <2>2. ASSUME NEW s \in Steps \ {"idle", "saving"}, NEW amount \in 0..Gross,
               Start(w, p, s, amount), s # "creating"
        PROVE GoodsInv'
    <3>1. Begins(w, p, s, amount)
      BY <2>2, StartBegins
    <3>2. UNCHANGED <<rows, granted, active, purpose, lapsed>>
      BY <2>2 DEF Start, goods
    <3>3. Kept' \subseteq Kept
      <4>1. \A q \in Payments : races'[q] = 0 => races[q] = 0
        BY <1>0, <2>2, GrossAssumption DEF Start
      <4> QED BY <3>2, <4>1 DEF Kept, Unraced
    <3> QED BY <2>2, <3>1, <3>2, <3>3 DEF Begins, GoodsInv, Granted, At
  <2> QED BY <1>2, <2>1, <2>2, EventStarts
<1>3. ASSUME NEW w \in Workers, Works(w) PROVE GoodsInv'
  <2>1. Local(w) /\ ~At(w, "idle")
    BY <1>3, StaysWithin DEF Local
  <2>2. PICK p \in Payments : p = task[w].payment
    BY <2>1 DEF Local
  <2>3. Kept' = Kept /\ purpose' = purpose
    BY <2>1 DEF Local, Kept, Unraced
  <2>4. ASSUME NEW q \in Kept, q # p PROVE Granted(q)'
    <3>1. q \in Payments
      BY DEF Kept, Unraced
    <3> QED BY <2>1, <2>2, <2>3, <2>4, <3>1 DEF Local, GoodsInv, Granted
  <2>5. ASSUME NEW q \in Kept, NEW v \in Workers \ {w}, q = task'[v].payment,
               task'[v].step = "creating"
        PROVE  granted'[q] = 0
    <3>1. q \in Payments /\ q \in Unraced /\ task'[v] = task[v]
      BY <2>1 DEF Kept, Unraced, Local
    <3>2. q # p
      BY <2>2, <2>5, <3>1 DEF AloneInv, Alone
    <3>3. granted[q] = 0
      BY <2>5, <3>1 DEF GoodsInv, At
    <3> QED BY <2>1, <2>2, <3>1, <3>2, <3>3 DEF Local
  <2>6. ASSUME p \in Kept
        PROVE  Granted(p)' /\ (task'[w].step = "creating" => granted'[p] = 0)
    <3>1. p \in Unraced /\ Forward(p)
      BY <1>3, <2>2, <2>6, MovesForward DEF Kept
    <3>2. CASE UNCHANGED goods
      <4>1. UNCHANGED <<granted, active, purpose>>
        BY <3>2 DEF goods
      <4>2. Granted(p)'
        BY <2>6, <3>1, <4>1 DEF GoodsInv, Granted, Forward
      <4>3. task'[w].step = "creating" => Look(w)
        <5>1. ASSUME NEW s \in Steps \ {"saving", "creating"}, NEW copy \in Rows,
                     Moves(w, s, copy)
              PROVE  task'[w].step # "creating"
          BY <5>1 DEF Moves, Idle
        <5>2. ASSUME NEW s \in Steps \ {"saving", "creating"}, Goto(w, s)
              PROVE  task'[w].step # "creating"
          BY <5>1, <5>2, GoesTo, InHand
        <5>3. ASSUME NEW s \in Steps \ {"saving", "creating"}, NEW copy, SaveCopy(w, copy, s)
              PROVE  task'[w].step # "creating"
          <6>1. CASE s = "idle"
            BY <1>0, <5>3, <6>1 DEF SaveCopy, Idle
          <6>2. CASE s # "idle"
            BY <1>0, <5>3, <6>2, InHand DEF SaveCopy, Tasks
          <6> QED BY <6>1, <6>2
        <5>4. CASE Fault(w)
          <6>1. Done(w) => task'[w].step # "creating"
            BY <1>0 DEF Done, Idle
          <6>2. task' = [task EXCEPT ![w].step = "looking", ![w].origin = "fallback"]
                  => task'[w].step # "creating"
            BY <1>0, InHand DEF Tasks
          <6> QED BY <5>4, <6>1, <6>2 DEF Fault
        <5>5. CASE DebitRefused(w)
          BY <1>0, <5>5 DEF DebitRefused, Done, Idle
        <5>6. CASE SaveNew(w)
          BY <5>3, <5>6 DEF SaveNew, Steps
        <5>7. CASE Mark(w)
          <6>1. \A copy : ConfirmStep(copy) \in Steps \ {"saving", "creating"}
            BY DEF ConfirmStep, Steps
          <6> QED BY <5>3, <5>7, <6>1 DEF Mark
        <5>8. CASE NoteCredit(w) \/ Complete(w) \/ Fail(w) \/ Close(w)
          BY <5>3, <5>8 DEF NoteCredit, Complete, Fail, Close, Steps
        <5>9. CASE CreditRecipient(w) \/ CreditPlatform(w) \/ DebitRecipient(w) \/ DebitPlatform(w)
          BY <5>2, <5>9 DEF CreditRecipient, CreditPlatform, DebitRecipient, DebitPlatform, Steps
        <5>10. CASE Create(w)
          BY <5>2, <5>10 DEF Create, Steps
        <5> QED BY <1>3, <5>4, <5>5, <5>6, <5>7, <5>8, <5>9, <5>10 DEF Works, Continue
      <4>4. task'[w].step = "creating" => granted'[p] = 0
        BY <2>2, <2>6, <4>1, <4>3, LookFinds
      <4> QED BY <4>2, <4>4
    <3>3. CASE Create(w)
      <4>1. At(w, "creating") /\ ~At(w, "saving")
        BY <3>3 DEF Create, At
      <4>2. granted[p] = 0
        BY <2>2, <2>6, <4>1 DEF GoodsInv
      <4>3. ~rows[p].fulfilled
        <5>1. task[w].copy = rows[p]
          BY <2>2, <3>1, <4>1 DEF AloneInv, Fresh
        <5> QED BY <4>1, <5>1 DEF TypeInv, Shapes, TaskShape, Suits, At
      <4>4. granted'[p] = 1
        BY <1>0, <2>2, <3>3, <4>2 DEF Create
      <4>5. purpose[p] = "subscription" => active'[p] = 1
        <5>1. ASSUME purpose[p] = "subscription" PROVE active'[p] = active[p] + 1
          BY <1>0, <2>2, <3>3, <5>1 DEF Create
        <5>2. purpose[p] = "subscription" => active[p] = 0
          BY <2>6, <4>2, <4>3 DEF GoodsInv, Granted
        <5> QED BY <5>1, <5>2
      <4>6. task'[w].step # "creating"
        <5>1. PICK s \in {"idle", "completing"} : Goto(w, s)
          BY <3>3 DEF Create
        <5> QED BY <5>1, GoesTo DEF Moves, Steps, Idle
      <4> QED BY <2>3, <4>4, <4>5, <4>6 DEF Granted
    <3> QED BY <1>3, <3>2, <3>3, OnlyCreateGrants
  <2>7. task'[w].payment \in {p, NoPayment}
    BY <2>1, <2>2 DEF Local, Idle
  <2>8. ASSUME NEW q \in Kept', NEW v \in Workers, q = task'[v].payment,
               task'[v].step = "creating"
        PROVE  granted'[q] = 0
    <3>1. q \in Kept /\ q # NoPayment
      BY <2>3, PaymentsAssumption DEF Kept, Unraced
    <3> QED BY <2>5, <2>6, <2>7, <2>8, <3>1
  <2> QED BY <2>3, <2>4, <2>6, <2>8 DEF GoodsInv, At
<1>4. ASSUME NEW p \in Payments, IntentEnds(p) \/ Decline(p) \/ Refund(p) PROVE GoodsInv'
  <2>1. UNCHANGED <<rows, granted, active, purpose, task, races, lapsed>>
    BY <1>4 DEF IntentEnds, Decline, Refund, goods, history
  <2> QED BY <2>1 DEF GoodsInv, Granted, Kept, Unraced, At
<1>5. ASSUME NEW p \in Payments, CancelSubscription(p) PROVE GoodsInv'
  <2>1. UNCHANGED <<rows, granted, purpose, task, races>> /\ Kept' \subseteq Kept
    BY <1>5 DEF CancelSubscription, Kept, Unraced
  <2>2. \A q \in Payments \ {p} : active'[q] = active[q]
    BY <1>0, <1>5 DEF CancelSubscription
  <2>3. rows[p].fulfilled \/ p \notin Kept'
    BY <1>5 DEF CancelSubscription, Kept
  <2> QED BY <2>1, <2>2, <2>3 DEF GoodsInv, Granted, Kept, Unraced, At
<1>6. CASE UNCHANGED vars
  BY <1>6 DEF vars, GoodsInv, Granted, Kept, Unraced, At
<1> QED BY <1>1, <1>2, <1>3, <1>4, <1>5, <1>6 DEF Next, Begin, Works

---------------------------------------------------------------------------
(* The inductive invariant, and what follows from it.                      *)

PaymentsInv == TypeInv /\ BasisInv /\ NotesInv /\ AloneInv /\ MoneyInv /\ GoodsInv

LEMMA PaymentsAlways == Spec => []PaymentsInv
<1>1. Init => PaymentsInv
  BY TypeStart, BasisStart, NotesStart, AloneStart, MoneyStart, GoodsStart DEF PaymentsInv
<1>2. PaymentsInv /\ [Next]_vars => PaymentsInv'
  BY TypeStep, BasisStep, NotesStep, AloneStep, MoneyStep, GoodsStep DEF PaymentsInv
<1> QED BY <1>1, <1>2, PTL DEF Spec

(* confirmPaymentSucceeded, fulfillFiatTip and fulfillSubscription: a      *)
(* payment on which no handlers overlapped, and none stopped between the   *)
(* money and its note, is credited once and buys one thing, whatever Stripe *)
(* delivers twice, late or out of order.                                   *)
THEOREM PaymentsFulfilledOnce == Spec => []FulfilledOnce
<1>1. PaymentsInv => FulfilledOnce
  <2> SUFFICES ASSUME PaymentsInv PROVE FulfilledOnce
    OBVIOUS
  <2>1. ASSUME NEW p \in Undisturbed PROVE credits[p] <= 1 /\ fees[p] <= credits[p]
    <3>1. CASE Quiet(p)
      <4>1. Settled(p)
        BY <3>1 DEF PaymentsInv, MoneyInv
      <4> QED BY <4>1 DEF Settled, Story
    <3>2. CASE ~Quiet(p)
      <4>1. PICK w \in Workers : p = task[w].payment
        BY <3>2 DEF Quiet
      <4>2. Story(p, task[w].step, task[w].amount)
        BY <4>1 DEF PaymentsInv, MoneyInv
      <4> QED BY <4>2 DEF Story
    <3> QED BY <3>1, <3>2
  <2>2. \A p \in Unraced \ lapsed : granted[p] <= 1
    BY DEF PaymentsInv, GoodsInv, Kept, Granted
  <2> QED BY <2>1, <2>2 DEF FulfilledOnce, CreditedOnce, GrantedOnce
<1> QED BY <1>1, PaymentsAlways, PTL

(* handleChargeRefunded and the notes: between handlers the row and the    *)
(* wallets agree, and no note is ahead of the money or of the goods.       *)
THEOREM PaymentBooksAgree == Spec => []BooksAgree
<1>1. PaymentsInv => BooksAgree
  <2> SUFFICES ASSUME PaymentsInv PROVE BooksAgree
    OBVIOUS
  <2>1. RefundedExactly
    <3> SUFFICES ASSUME NEW p \in Undisturbed, Quiet(p)
                 PROVE  /\ back[p] = IF rows[p].credited THEN rows[p].refunded ELSE 0
                        /\ feeBack[p] = back[p]
      BY DEF RefundedExactly, Undisturbed, Unraced
    <3>1. Settled(p)
      BY DEF PaymentsInv, MoneyInv
    <3> QED BY <3>1 DEF Settled, Story
  <2>2. NotesAreTrue
    BY DEF PaymentsInv, NotesInv, RowNotes, Bought, NotesAreTrue
  <2> QED BY <2>1, <2>2 DEF BooksAgree
<1> QED BY <1>1, PaymentsAlways, PTL

(* markPaymentFailed and handleChargeRefunded: no step takes a row that    *)
(* was never raced back from a success, a refund or a credit.              *)
THEOREM PaymentsNeverRegress == Spec => NeverRegresses
<1> DEFINE Onward == \A p \in Unraced' :
         /\ rows[p].status \in {"succeeded", "partially_refunded", "refunded"} =>
              rows'[p].status \in {"succeeded", "partially_refunded", "refunded"}
         /\ rows'[p].refunded >= rows[p].refunded
         /\ rows[p].credited => rows'[p].credited
<1>1. PaymentsInv /\ [Next]_vars => [Onward]_vars
  BY Regresses DEF PaymentsInv, Forward, Paid
<1>2. Spec => [][Onward]_vars
  BY <1>1, PaymentsAlways, PTL DEF Spec
<1> QED BY <1>2 DEF NeverRegresses
=============================================================================
