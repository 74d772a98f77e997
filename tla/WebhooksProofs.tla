-------------------------- MODULE WebhooksProofs --------------------------
(***************************************************************************)
(* The promises of webhook_deliveries, proved for every set of events,     *)
(* subscriptions and workers and every retry budget: the rows of an event  *)
(* appear together, no two workers hold one row, a receiver is tried no    *)
(* more often than the budget and the ends of the process allow, and the   *)
(* table is a durable queue (Outbox).                                      *)
(***************************************************************************)
EXTENDS Webhooks, TLAPS

LEMMA NoRowFresh == NoRow \notin Rows
  BY DEF NoRow, Rows

-----------------------------------------------------------------------------
(* The inductive invariant. *)

\* The pcs at which a worker holds a row it has not sent since it claimed it.
Unsent == {"get", "lookup", "limiter", "send", "retry"}

\* A worker has a row exactly between its claim and its outcome write, and the row is
\* delivering, unless its subscription was deleted meanwhile.
HeldIsDelivering ==
    \A w \in Workers :
        /\ (job[w] = NoRow) <=> (wpc[w] \in {"off", "idle", "cas"})
        /\ job[w] # NoRow => status[job[w]] \in {"delivering", "gone"}

\* No worker runs outside Run.
WorkersRunInRun == phase \in {"boot", "down"} => \A w \in Workers : wpc[w] = "off"

\* The rows of an event are written by the end of its Emit and never before.
RowsFollowEmit ==
    \A e \in Events :
        /\ emitPc[e] # "done" => \A s \in Subs : status[<<e, s>>] = "none"
        /\ emitPc[e] = "idle" => picked[e] = {}

\* The dispatcher was told to stop.
StopIsCounted == phase = "stopping" => ends > 0

\* What MarkDelivered will record was answered 2xx.
LandedIsAcked ==
    \A w \in Workers : (wpc[w] = "land" /\ out[w] = "2xx") => job[w] \in acked

\* A row is sent at most once per claim, and a worker writes back the attempt it counted.
SendsFollowClaims ==
    /\ \A d \in Rows : sends[d] <= attempts[d]
    /\ \A d \in Rows : status[d] = "none" => sends[d] = 0
    /\ \A w \in Workers :
        /\ wpc[w] \in Unsent => sends[job[w]] < attempts[job[w]]
        /\ wpc[w] \in DeliverPcs => att[w] = attempts[job[w]]

Cap == RetryCount + ends

\* A row that can be sent again has a try to spare, a stop adds one for what it interrupts,
\* and so the sweep of the next start finds one for each row it re-queues.
TryToSpare ==
    /\ phase = "up" =>
        /\ \A d \in Rows : sends[d] <= Cap
        /\ \A d \in Rows : status[d] = "pending" => sends[d] < Cap
        /\ \A w \in Workers : wpc[w] \in Unsent => sends[job[w]] < Cap
    /\ phase # "up" => \A d \in Rows : sends[d] < Cap
    /\ phase = "stopping" =>
        /\ \A w \in Workers : wpc[w] \in Unsent => sends[job[w]] < Cap - 1
        /\ \A w \in Workers : \A d \in dueAt[w] :
            (wpc[w] = "cas" /\ status[d] = "pending") => sends[d] < Cap - 1

HoldInv ==
    /\ TypeOK /\ HeldIsDelivering /\ OneWorkerPerRow /\ WorkersRunInRun /\ RowsFollowEmit
    /\ StopIsCounted /\ LandedIsAcked

BudgetInv == SendsFollowClaims /\ TryToSpare

\* An outcome write settles the worker's row alone, and revives no row.
LEMMA SettlesEffect ==
  ASSUME HoldInv, NEW w \in Workers, job[w] # NoRow, NEW to \in Statuses \ {"none"}, Settles(w, to)
  PROVE  /\ job[w] \in Rows
         /\ status' \in [Rows -> Statuses]
         /\ attempts' \in [Rows -> Nat]
         /\ \A d \in Rows : d # job[w] => status'[d] = status[d] /\ attempts'[d] = attempts[d]
         /\ status[job[w]] = "gone" => status'[job[w]] = "gone"
         /\ status[job[w]] = "delivering" => status'[job[w]] = to
         /\ status[job[w]] \in {"delivering", "gone"}
         /\ status'[job[w]] # "none"
  BY DEF HoldInv, TypeOK, HeldIsDelivering, Settles, Statuses

LEMMA HoldSettles ==
  ASSUME HoldInv, NEW w \in Workers, job[w] # NoRow,
         NEW to \in Statuses \ {"none"}, Settles(w, to),
         Goes(w, "idle"),
         job' = [job EXCEPT ![w] = NoRow],
         att' = [att EXCEPT ![w] = 0],
         out' = [out EXCEPT ![w] = "none"],
         cand' \in [Workers -> SUBSET Rows], dueAt' \in [Workers -> SUBSET Rows], due' \subseteq Rows,
         UNCHANGED <<subVars, emitVars, procVars, asks, faults, histVars>>
  PROVE  HoldInv'
<1>1. /\ job[w] \in Rows
      /\ status' \in [Rows -> Statuses]
      /\ attempts' \in [Rows -> Nat]
      /\ \A d \in Rows : d # job[w] => status'[d] = status[d]
      /\ status[job[w]] # "none" /\ status'[job[w]] # "none"
  BY SettlesEffect
<1> USE DEF subVars, emitVars, procVars, histVars, Goes
<1>2. \A e \in Events, x \in Subs :
        <<e, x>> \in Rows /\ (status'[<<e, x>>] = "none" <=> status[<<e, x>>] = "none")
  BY <1>1 DEF Rows
<1>3. TypeOK'
  <2>1. /\ wpc' \in [Workers -> WorkerPcs] /\ job' \in [Workers -> Rows \cup {NoRow}]
        /\ att' \in [Workers -> Nat] /\ out' \in [Workers -> Outcomes]
    BY DEF HoldInv, TypeOK, WorkerPcs, Outcomes
  <2>2. QED
    BY <1>1, <1>2, <2>1 DEF HoldInv, TypeOK
<1>4. HeldIsDelivering' /\ OneWorkerPerRow'
  BY <1>1 DEF HoldInv, TypeOK, HeldIsDelivering, OneWorkerPerRow, WorkerPcs, DeliverPcs
<1>5. WorkersRunInRun' /\ StopIsCounted' /\ LandedIsAcked'
  BY DEF HoldInv, TypeOK, HeldIsDelivering, WorkersRunInRun, StopIsCounted, LandedIsAcked,
     WorkerPcs
<1>6. RowsFollowEmit'
  BY <1>1, <1>2 DEF HoldInv, TypeOK, RowsFollowEmit
<1>7. QED
  BY <1>3, <1>4, <1>5, <1>6 DEF HoldInv

LEMMA HoldWorker ==
  ASSUME HoldInv, NEW w \in Workers, WorkerStep(w)
  PROVE  HoldInv'
<1> USE WebhookConstants, NoRowFresh DEF HoldInv, TypeOK, HeldIsDelivering, OneWorkerPerRow,
    WorkersRunInRun, RowsFollowEmit, StopIsCounted, LandedIsAcked, WorkerPcs, DeliverPcs,
    Outcomes, Statuses,
    subVars, rowVars, emitVars, procVars, histVars, Goes
<1>1. CASE ClaimScan(w)
  BY <1>1 DEF ClaimScan
<1>2. CASE ClaimTakes(w)
  BY <1>2 DEF ClaimTakes, Takes
<1>3. CASE ClaimLoses(w)
  <2>1. CASE Rests(w)
    BY <1>3, <2>1 DEF ClaimLoses, Rests
  <2>2. CASE UNCHANGED <<wpc, dueAt, job, att, out>>
    <3>1. PICK d \in cand[w] : cand' = [cand EXCEPT ![w] = @ \ {d}]
      BY <1>3, <2>2 DEF ClaimLoses, Rests
    <3>2. cand' \in [Workers -> SUBSET Rows]
      BY <3>1
    <3>3. QED
      BY <1>3, <2>2, <3>2 DEF ClaimLoses
  <2>3. QED
    BY <1>3, <2>1, <2>2 DEF ClaimLoses
<1>4. CASE ClaimFails(w)
  BY <1>4 DEF ClaimFails, Rests, CallFails, Fault
<1>5. CASE ClaimReads(w)
  BY <1>5 DEF ClaimReads
<1>6. CASE ClaimReadFails(w)
  BY <1>6 DEF ClaimReadFails, Rests, CallFails, Fault
<1>7. CASE LookupTarget(w)
  <2>1. CASE Rests(w)
    BY <1>7, <2>1 DEF LookupTarget, Rests
  <2>2. CASE Goes(w, "limiter") /\ UNCHANGED <<cand, dueAt, job, att, out>>
    BY <1>7, <2>2 DEF LookupTarget
  <2>3. QED
    BY <1>7, <2>1, <2>2 DEF LookupTarget
<1>8. CASE LookupFails(w)
  BY <1>8 DEF LookupFails, CallFails, Fault
<1>9. CASE Acquire(w)
  BY <1>9 DEF Acquire
<1>10. CASE SendAttempt(w)
  BY <1>10 DEF SendAttempt
<1>11. CASE MarkDelivered(w)
  BY <1>11, HoldSettles DEF MarkDelivered, Rests
<1>12. CASE MarkDead(w)
  BY <1>12, HoldSettles DEF MarkDead, DeadLetters, Rests
<1>13. CASE ScheduleRetry(w)
  <2>1. dueAt' \in [Workers -> SUBSET Rows]
    BY <1>13 DEF ScheduleRetry
  <2>2. QED
    BY <1>13, <2>1, HoldSettles DEF ScheduleRetry
<1>14. CASE LandFails(w)
  BY <1>14 DEF LandFails, Rests, CallFails, Fault
<1>15. CASE WorkerReturns(w)
  BY <1>15 DEF WorkerReturns
<1>16. QED
  BY <1>1, <1>2, <1>3, <1>4, <1>5, <1>6, <1>7, <1>8, <1>9, <1>10, <1>11, <1>12, <1>13, <1>14,
     <1>15 DEF WorkerStep, ClaimStep, DeliverStep

LEMMA HoldNext ==
  ASSUME HoldInv, Next
  PROVE  HoldInv'
<1> USE WebhookConstants, NoRowFresh DEF HoldInv, TypeOK, HeldIsDelivering, OneWorkerPerRow,
    WorkersRunInRun, RowsFollowEmit, StopIsCounted, LandedIsAcked, WorkerPcs, DeliverPcs,
    Outcomes, Statuses,
    subVars, rowVars, emitVars, workVars, procVars, histVars, TurnLeft
<1>1. ASSUME NEW s \in Subs, UpdateSubscription(s) PROVE HoldInv'
  BY <1>1 DEF UpdateSubscription, Fault
<1>2. ASSUME NEW s \in Subs, DeleteSubscription(s) PROVE HoldInv'
  <2>1. /\ status' \in [Rows -> Statuses]
        /\ \A d \in Rows : status'[d] = "none" <=> status[d] = "none"
        /\ \A d \in Rows : status[d] \in {"delivering", "gone"} => status'[d] \in {"delivering", "gone"}
    BY <1>2 DEF DeleteSubscription
  <2>2. \A e \in Events, x \in Subs : <<e, x>> \in Rows
    BY DEF Rows
  <2>3. QED
    BY <1>2, <2>1, <2>2 DEF DeleteSubscription
<1>3. ASSUME NEW d \in Rows, ReplayDelivery(d) PROVE HoldInv'
  BY <1>3 DEF ReplayDelivery
<1>4. ASSUME NEW d \in Rows, BecomesDue(d) PROVE HoldInv'
  BY <1>4 DEF BecomesDue
<1>5. ASSUME NEW e \in Events, EmitDropped(e) PROVE HoldInv'
  BY <1>5 DEF EmitDropped
<1>6. ASSUME NEW e \in Events, EmitRejected(e) PROVE HoldInv'
  BY <1>6 DEF EmitRejected
<1>7. ASSUME NEW e \in Events, EmitMatch(e) PROVE HoldInv'
  BY <1>7 DEF EmitMatch, Fault
<1>8. ASSUME NEW e \in Events, EnqueueDeliveries(e) PROVE HoldInv'
  <2>1. /\ Fan(e) \subseteq Rows
        /\ \A x \in Events, s \in Subs : <<x, s>> \in Fan(e) <=> x = e /\ s \in picked[e]
        /\ \A d \in Fan(e) : status[d] = "none"
    BY <1>8 DEF Fan, Rows, EnqueueDeliveries
  <2>2. \A w \in Workers : job[w] # NoRow => job[w] \notin Fan(e)
    BY <2>1
  <2>3. /\ \A d \in Fan(e) : status'[d] = "pending"
        /\ \A d \in Rows \ Fan(e) : status'[d] = status[d]
        /\ \A x \in Events, s \in Subs : <<x, s>> \in Rows
    BY <1>8, <2>1 DEF EnqueueDeliveries, Rows
  <2>4. RowsFollowEmit'
    BY <1>8, <2>1, <2>3 DEF EnqueueDeliveries
  <2>5. TypeOK'
    BY <1>8, <2>1, <2>3 DEF EnqueueDeliveries
  <2>6. HeldIsDelivering' /\ OneWorkerPerRow'
    BY <1>8, <2>2 DEF EnqueueDeliveries
  <2>7. QED
    BY <1>8, <2>4, <2>5, <2>6 DEF EnqueueDeliveries
<1>9. ASSUME NEW e \in Events, EnqueueFails(e) PROVE HoldInv'
  BY <1>9 DEF EnqueueFails
<1>10. CASE Boot
  <2>1. /\ status' \in [Rows -> Statuses]
        /\ \A d \in Rows : status'[d] = "none" <=> status[d] = "none"
        /\ faults' \in Nat
    BY <1>10 DEF Boot, SweepDelivering, Fault
  <2>2. \A e \in Events, x \in Subs : <<e, x>> \in Rows
    BY DEF Rows
  <2>3. \A w \in Workers : job[w] = NoRow
    BY <1>10 DEF Boot
  <2>4. QED
    BY <1>10, <2>1, <2>2, <2>3 DEF Boot
<1>11. CASE Stop
  BY <1>11 DEF Stop
<1>12. CASE Exit
  <2>1. /\ wpc' \in [Workers -> WorkerPcs] /\ cand' \in [Workers -> SUBSET Rows]
        /\ dueAt' \in [Workers -> SUBSET Rows] /\ job' \in [Workers -> Rows \cup {NoRow}]
        /\ att' \in [Workers -> Nat] /\ out' \in [Workers -> Outcomes]
    BY <1>12 DEF Exit, AllReturned, MemoryGone
  <2>2. emitPc' \in [Events -> {"idle", "enqueue", "done"}] /\ ends' \in Nat /\ ends' > 0
    BY <1>12 DEF Exit, AllReturned, MemoryGone
  <2>3. TypeOK'
    BY <1>12, <2>1, <2>2 DEF Exit, AllReturned, MemoryGone
  <2>4. HeldIsDelivering' /\ OneWorkerPerRow' /\ WorkersRunInRun' /\ LandedIsAcked'
    BY <1>12 DEF Exit, AllReturned, MemoryGone
  <2>5. RowsFollowEmit' /\ StopIsCounted'
    BY <1>12, <2>2 DEF Exit, AllReturned, MemoryGone
  <2>6. QED
    BY <2>3, <2>4, <2>5
<1>13. CASE Crash
  <2>1. /\ wpc' \in [Workers -> WorkerPcs] /\ cand' \in [Workers -> SUBSET Rows]
        /\ dueAt' \in [Workers -> SUBSET Rows] /\ job' \in [Workers -> Rows \cup {NoRow}]
        /\ att' \in [Workers -> Nat] /\ out' \in [Workers -> Outcomes]
    BY <1>13 DEF Crash, MemoryGone, Open
  <2>2. emitPc' \in [Events -> {"idle", "enqueue", "done"}] /\ ends' \in Nat /\ ends' > 0
    BY <1>13 DEF Crash, MemoryGone, Open
  <2>3. TypeOK'
    BY <1>13, <2>1, <2>2 DEF Crash, MemoryGone, Open
  <2>4. HeldIsDelivering' /\ OneWorkerPerRow' /\ WorkersRunInRun' /\ LandedIsAcked'
    BY <1>13 DEF Crash, MemoryGone, Open
  <2>5. RowsFollowEmit' /\ StopIsCounted'
    BY <1>13, <2>2 DEF Crash, MemoryGone, Open
  <2>6. QED
    BY <2>3, <2>4, <2>5
<1>14. CASE Start
  BY <1>14 DEF Start
<1>15. QED
  BY <1>1, <1>2, <1>3, <1>4, <1>5, <1>6, <1>7, <1>8, <1>9, <1>10, <1>11, <1>12, <1>13, <1>14,
     HoldWorker DEF Next, EmitStep

LEMMA HoldInit == Init => HoldInv
<1> SUFFICES ASSUME Init PROVE HoldInv
  OBVIOUS
<1> USE DEF Init
<1>1. TypeOK
  BY DEF TypeOK, Statuses, WorkerPcs, Outcomes
<1>2. HeldIsDelivering /\ OneWorkerPerRow /\ WorkersRunInRun /\ StopIsCounted /\ LandedIsAcked
  BY DEF HeldIsDelivering, OneWorkerPerRow, WorkersRunInRun, StopIsCounted, LandedIsAcked
<1>3. RowsFollowEmit
  BY DEF RowsFollowEmit, Rows
<1>4. QED
  BY <1>1, <1>2, <1>3 DEF HoldInv

LEMMA HoldStutter == HoldInv /\ UNCHANGED vars => HoldInv'
  BY DEF HoldInv, TypeOK, HeldIsDelivering, OneWorkerPerRow, WorkersRunInRun, RowsFollowEmit,
         StopIsCounted, LandedIsAcked, vars

LEMMA HoldAlways == Spec => []HoldInv
  BY HoldInit, HoldNext, HoldStutter, PTL DEF Spec

\* Every reachable state is well typed, and the rows of an event appear together or not at all
\* (EnqueueDeliveries, one transaction).
THEOREM TypeCorrect == Spec => []TypeOK
<1>1. HoldInv => TypeOK
  BY DEF HoldInv
<1>2. QED
  BY <1>1, HoldAlways, PTL

\* ClaimDueDelivery gives a row to one worker at a time, however many workers race for it.
THEOREM NoTwoWorkersPerRow == Spec => []OneWorkerPerRow
<1>1. HoldInv => OneWorkerPerRow
  BY DEF HoldInv
<1>2. QED
  BY <1>1, HoldAlways, PTL

-----------------------------------------------------------------------------
(* The budget of tries. *)

LEMMA BudgetInit == Init => BudgetInv
<1> SUFFICES ASSUME Init PROVE BudgetInv
  OBVIOUS
<1>1. SendsFollowClaims
  BY DEF Init, SendsFollowClaims, Unsent, DeliverPcs
<1>2. TryToSpare
  BY WebhookConstants DEF Init, TryToSpare, Cap
<1>3. QED
  BY <1>1, <1>2 DEF BudgetInv

LEMMA BudgetStutter == BudgetInv /\ UNCHANGED vars => BudgetInv'
  BY DEF BudgetInv, SendsFollowClaims, TryToSpare, Cap, vars

LEMMA BudgetWorker ==
  ASSUME HoldInv, BudgetInv, NEW w \in Workers, WorkerStep(w)
  PROVE  BudgetInv'
<1> USE WebhookConstants, NoRowFresh DEF HoldInv, TypeOK, HeldIsDelivering, OneWorkerPerRow,
    BudgetInv, SendsFollowClaims, TryToSpare, Cap, Unsent, WorkerPcs, DeliverPcs, Outcomes,
    Statuses, subVars, rowVars, emitVars, procVars, histVars, Goes
<1>1. CASE ClaimScan(w)
  BY <1>1 DEF ClaimScan
<1>2. CASE ClaimTakes(w)
  BY <1>2 DEF ClaimTakes, Takes
<1>3. CASE ClaimLoses(w)
  <2>1. CASE Rests(w)
    BY <1>3, <2>1 DEF ClaimLoses, Rests
  <2>2. CASE UNCHANGED <<wpc, dueAt, job, att, out>>
    BY <1>3, <2>2 DEF ClaimLoses
  <2>3. QED
    BY <1>3, <2>1, <2>2 DEF ClaimLoses
<1>4. CASE ClaimFails(w)
  BY <1>4 DEF ClaimFails, Rests, CallFails, Fault
<1>5. CASE ClaimReads(w)
  BY <1>5 DEF ClaimReads
<1>6. CASE ClaimReadFails(w)
  BY <1>6 DEF ClaimReadFails, Rests, CallFails, Fault
<1>7. CASE LookupTarget(w)
  <2>1. CASE Rests(w)
    BY <1>7, <2>1 DEF LookupTarget, Rests
  <2>2. CASE Goes(w, "limiter") /\ UNCHANGED <<cand, dueAt, job, att, out>>
    BY <1>7, <2>2 DEF LookupTarget
  <2>3. QED
    BY <1>7, <2>1, <2>2 DEF LookupTarget
<1>8. CASE LookupFails(w)
  BY <1>8 DEF LookupFails, CallFails, Fault
<1>9. CASE Acquire(w)
  BY <1>9 DEF Acquire
<1>10. CASE SendAttempt(w)
  <2>1. /\ job[w] \in Rows
        /\ sends'[job[w]] = sends[job[w]] + 1
        /\ \A d \in Rows : d # job[w] => sends'[d] = sends[d]
        /\ \A v \in Workers : v # w => wpc'[v] = wpc[v] /\ (job[v] # NoRow => job[v] # job[w])
        /\ wpc'[w] = "land" /\ wpc[w] = "send"
        /\ status[job[w]] \in {"delivering", "gone"}
    BY <1>10 DEF SendAttempt
  <2>2. SendsFollowClaims'
    BY <1>10, <2>1 DEF SendAttempt
  <2>3. TryToSpare'
    BY <1>10, <2>1 DEF SendAttempt, WorkersRunInRun
  <2>4. QED
    BY <2>2, <2>3
<1>11. CASE MarkDelivered(w)
  BY <1>11 DEF MarkDelivered, Rests, Settles, DeadLetters
<1>12. CASE MarkDead(w)
  BY <1>12 DEF MarkDead, Rests, Settles, DeadLetters
<1>13. CASE ScheduleRetry(w)
  BY <1>13 DEF ScheduleRetry, Settles, DeadLetters
<1>14. CASE LandFails(w)
  BY <1>14 DEF LandFails, Rests, CallFails, Fault
<1>15. CASE WorkerReturns(w)
  BY <1>15 DEF WorkerReturns
<1>16. QED
  BY <1>1, <1>2, <1>3, <1>4, <1>5, <1>6, <1>7, <1>8, <1>9, <1>10, <1>11, <1>12, <1>13, <1>14,
     <1>15 DEF WorkerStep, ClaimStep, DeliverStep

LEMMA BudgetNext ==
  ASSUME HoldInv, BudgetInv, Next
  PROVE  BudgetInv'
<1> USE WebhookConstants, NoRowFresh DEF HoldInv, TypeOK, HeldIsDelivering, OneWorkerPerRow,
    WorkersRunInRun, RowsFollowEmit, StopIsCounted,
    BudgetInv, SendsFollowClaims, TryToSpare, Cap, Unsent, WorkerPcs, DeliverPcs, Outcomes,
    Statuses, subVars, rowVars, emitVars, workVars, procVars, histVars, TurnLeft
<1>1. ASSUME NEW s \in Subs, UpdateSubscription(s) PROVE BudgetInv'
  BY <1>1 DEF UpdateSubscription
<1>2. ASSUME NEW s \in Subs, DeleteSubscription(s) PROVE BudgetInv'
  BY <1>2 DEF DeleteSubscription
<1>3. ASSUME NEW d \in Rows, ReplayDelivery(d) PROVE BudgetInv'
  BY <1>3 DEF ReplayDelivery
<1>4. ASSUME NEW d \in Rows, BecomesDue(d) PROVE BudgetInv'
  BY <1>4 DEF BecomesDue
<1>5. ASSUME NEW e \in Events, EmitDropped(e) PROVE BudgetInv'
  BY <1>5 DEF EmitDropped
<1>6. ASSUME NEW e \in Events, EmitRejected(e) PROVE BudgetInv'
  BY <1>6 DEF EmitRejected
<1>7. ASSUME NEW e \in Events, EmitMatch(e) PROVE BudgetInv'
  BY <1>7 DEF EmitMatch, Fault
<1>8. ASSUME NEW e \in Events, EnqueueDeliveries(e) PROVE BudgetInv'
  <2>1. Fan(e) \subseteq Rows /\ \A d \in Fan(e) : status[d] = "none"
    BY <1>8 DEF EnqueueDeliveries, Fan, Rows
  <2>2. \A d \in Rows : status'[d] \in {"pending", status[d]} /\ (status'[d] # status[d] => sends[d] = 0)
    BY <1>8, <2>1 DEF EnqueueDeliveries
  <2>3. QED
    BY <1>8, <2>2 DEF EnqueueDeliveries
<1>9. ASSUME NEW e \in Events, EnqueueFails(e) PROVE BudgetInv'
  BY <1>9 DEF EnqueueFails
<1>10. CASE Boot
  BY <1>10 DEF Boot, SweepDelivering, Fault
<1>11. CASE Stop
  BY <1>11 DEF Stop
<1>12. CASE Exit
  BY <1>12 DEF Exit, AllReturned, MemoryGone
<1>13. CASE Crash
  BY <1>13 DEF Crash, MemoryGone, Open
<1>14. CASE Start
  BY <1>14 DEF Start
<1>15. QED
  BY <1>1, <1>2, <1>3, <1>4, <1>5, <1>6, <1>7, <1>8, <1>9, <1>10, <1>11, <1>12, <1>13, <1>14,
     BudgetWorker DEF Next, EmitStep

\* dispatcher.go's "five total attempts", plus one for each end of the process: no row is sent
\* more often, whatever retries, sweeps, replays and lost outcome writes it meets.
THEOREM SendsAreBudgeted == Spec => []SendsWithinBudget
<1>1. HoldInv /\ BudgetInv => SendsWithinBudget
  BY WebhookConstants DEF HoldInv, TypeOK, BudgetInv, TryToSpare, Cap, SendsWithinBudget
<1>2. HoldInv /\ BudgetInv /\ [Next]_vars => BudgetInv'
  BY BudgetNext, BudgetStutter
<1>3. QED
  BY <1>1, <1>2, HoldAlways, BudgetInit, PTL DEF Spec

-----------------------------------------------------------------------------
(* The table is a durable queue. *)

\* What a row's status says of its entry.
LEMMA BoxOf ==
  /\ Box = [d \in Rows |-> Box[d]]
  /\ \A d \in Rows :
      /\ status[d] \in {"pending", "delivering"} => Box[d] = "queued"
      /\ status[d] = "delivered" => Box[d] = "done"
      /\ status[d] \in {"none", "dead", "gone"} => Box[d] = status[d]
  BY DEF Box

\* The same in the next state.
LEMMA BoxNext ==
  /\ Box' = [d \in Rows |-> Box'[d]]
  /\ \A d \in Rows :
      /\ status'[d] \in {"pending", "delivering"} => Box'[d] = "queued"
      /\ status'[d] = "delivered" => Box'[d] = "done"
      /\ status'[d] \in {"none", "dead", "gone"} => Box'[d] = status'[d]
  BY DEF Box

LEMMA QueueInit == Init => Queue!Init
  BY DEF Init, Queue!Init, Box

LEMMA QueueWorker ==
  ASSUME HoldInv, NEW w \in Workers, WorkerStep(w)
  PROVE  Queue!Next \/ UNCHANGED Queue!vars
<1> USE DEF Queue!vars
<1>1. CASE UNCHANGED <<status, acked>>
  BY <1>1 DEF Box
<1>2. CASE ClaimTakes(w)
  <2>1. \A d \in Rows : Box'[d] = Box[d]
    BY <1>2, BoxOf, BoxNext DEF ClaimTakes, Takes, HoldInv, TypeOK, Statuses
  <2>2. QED
    BY <1>2, <2>1, BoxOf, BoxNext DEF ClaimTakes, Takes, histVars
<1>3. CASE SendAttempt(w)
  <2>1. job[w] \in Rows /\ Box[job[w]] \in {"queued", "gone"}
    BY <1>3, BoxOf DEF SendAttempt, HoldInv, TypeOK, HeldIsDelivering
  <2>2. UNCHANGED Box
    BY <1>3 DEF SendAttempt, rowVars, Box
  <2>3. CASE acked' = acked
    BY <2>2, <2>3
  <2>4. CASE acked' = acked \cup {job[w]}
    BY <2>1, <2>2, <2>4 DEF Queue!Next, Queue!Reach
  <2>5. QED
    BY <1>3, <2>3, <2>4 DEF SendAttempt
<1>4. CASE MarkDelivered(w)
  <2>1. job[w] # NoRow /\ job[w] \in acked /\ Settles(w, "delivered") /\ UNCHANGED acked
    BY <1>4 DEF MarkDelivered, HoldInv, HeldIsDelivering, LandedIsAcked, histVars
  <2>2. /\ job[w] \in Rows
        /\ \A d \in Rows : d # job[w] => Box'[d] = Box[d]
        /\ \/ Box[job[w]] = "queued" /\ Box'[job[w]] = "done"
           \/ Box'[job[w]] = Box[job[w]]
    BY <2>1, SettlesEffect, BoxOf, BoxNext DEF Statuses, HoldInv, TypeOK
  <2>3. CASE Box'[job[w]] = Box[job[w]]
    BY <2>1, <2>2, <2>3, BoxOf, BoxNext
  <2>4. CASE Box[job[w]] = "queued" /\ Box'[job[w]] = "done"
    BY <2>1, <2>2, <2>4, BoxOf, BoxNext DEF Queue!Next, Queue!Finish, Queue!Moves
  <2>5. QED
    BY <2>2, <2>3, <2>4
<1>5. CASE MarkDead(w)
  <2>1. job[w] # NoRow /\ Settles(w, "dead") /\ UNCHANGED acked
    BY <1>5 DEF MarkDead, DeadLetters, HoldInv, HeldIsDelivering, histVars
  <2>2. /\ job[w] \in Rows
        /\ \A d \in Rows : d # job[w] => Box'[d] = Box[d]
        /\ \/ Box[job[w]] = "queued" /\ Box'[job[w]] = "dead"
           \/ Box'[job[w]] = Box[job[w]]
    BY <2>1, SettlesEffect, BoxOf, BoxNext DEF Statuses, HoldInv, TypeOK
  <2>3. CASE Box'[job[w]] = Box[job[w]]
    BY <2>1, <2>2, <2>3, BoxOf, BoxNext
  <2>4. CASE Box[job[w]] = "queued" /\ Box'[job[w]] = "dead"
    BY <2>1, <2>2, <2>4, BoxOf, BoxNext DEF Queue!Next, Queue!GiveUp, Queue!Moves
  <2>5. QED
    BY <2>2, <2>3, <2>4
<1>6. CASE ScheduleRetry(w)
  <2>1. job[w] # NoRow /\ Settles(w, "pending") /\ UNCHANGED acked
    BY <1>6 DEF ScheduleRetry, HoldInv, HeldIsDelivering, histVars
  <2>2. \A d \in Rows : Box'[d] = Box[d]
    BY <2>1, SettlesEffect, BoxOf, BoxNext DEF Statuses, HoldInv, TypeOK
  <2>3. QED
    BY <2>1, <2>2, BoxOf, BoxNext
<1>7. QED
  BY <1>1, <1>2, <1>3, <1>4, <1>5, <1>6 DEF WorkerStep, ClaimStep, DeliverStep, ClaimScan,
     ClaimLoses, ClaimFails, ClaimReads, ClaimReadFails, LookupTarget, LookupFails, Acquire,
     LandFails, WorkerReturns, rowVars, histVars

LEMMA QueueNext ==
  ASSUME HoldInv, Next
  PROVE  Queue!Next \/ UNCHANGED Queue!vars
<1> USE DEF Queue!vars
<1>1. CASE UNCHANGED <<status, acked>>
  BY <1>1 DEF Box
<1>2. ASSUME NEW s \in Subs, DeleteSubscription(s) PROVE Queue!Next
  <2> DEFINE S == {d \in Rows : d[2] = s /\ status[d] # "none"}
  <2>1. \A d \in S : Box[d] # "none"
    BY BoxOf DEF HoldInv, TypeOK, Statuses
  <2>2. \A d \in Rows : Box'[d] = IF d \in S THEN "gone" ELSE Box[d]
    BY <1>2, BoxOf, BoxNext DEF DeleteSubscription, HoldInv, TypeOK, Statuses
  <2>3. Queue!Forget(S)
    <3> HIDE DEF S
    <3> QED
      BY <1>2, <2>1, <2>2, BoxNext DEF DeleteSubscription, histVars, Queue!Forget, Queue!Moves
  <2>4. S \in SUBSET Rows
    OBVIOUS
  <2>5. QED
    BY <2>3, <2>4 DEF Queue!Next
<1>3. ASSUME NEW d \in Rows, ReplayDelivery(d) PROVE Queue!Next
  <2>1. Box[d] = "dead" /\ Box'[d] = "queued" /\ \A x \in Rows : x # d => Box'[x] = Box[x]
    BY <1>3, BoxOf, BoxNext DEF ReplayDelivery, HoldInv, TypeOK, Statuses
  <2>2. QED
    BY <1>3, <2>1, BoxOf, BoxNext DEF ReplayDelivery, Queue!Next, Queue!Requeue, Queue!Moves
<1>4. ASSUME NEW e \in Events, EnqueueDeliveries(e) PROVE Queue!Next
  <2>1. Fan(e) \subseteq Rows /\ \A d \in Fan(e) : status[d] = "none"
    BY <1>4 DEF EnqueueDeliveries, Fan, Rows, HoldInv, TypeOK, RowsFollowEmit
  <2>2. /\ \A d \in Fan(e) : Box[d] = "none"
        /\ \A d \in Rows : Box'[d] = IF d \in Fan(e) THEN "queued" ELSE Box[d]
    BY <1>4, <2>1, BoxOf, BoxNext DEF EnqueueDeliveries, HoldInv, TypeOK, Statuses
  <2>3. Queue!Put(Fan(e))
    BY <1>4, <2>2, BoxNext DEF EnqueueDeliveries, histVars, Queue!Put, Queue!Moves
  <2>4. QED
    BY <2>1, <2>3 DEF Queue!Next
<1>5. CASE Boot
  <2>1. \A d \in Rows : Box'[d] = Box[d]
    BY <1>5, BoxOf, BoxNext DEF Boot, SweepDelivering, HoldInv, TypeOK, Statuses
  <2>2. QED
    BY <1>5, <2>1, BoxOf, BoxNext DEF Boot, histVars
<1>6. QED
  BY <1>1, <1>2, <1>3, <1>4, <1>5, QueueWorker DEF Next, EmitStep, UpdateSubscription, BecomesDue,
     EmitDropped, EmitRejected, EmitMatch, EnqueueFails, Stop, Exit, Crash, MemoryGone, Start,
     rowVars, histVars

\* Every behaviour of the webhook plane is one of the queue: what is marked delivered was answered
\* 2xx, no settled row is sent, an event's rows are written together, only a dead row comes back.
THEOREM QueueIsImplemented == Spec => ImplementsOutbox
<1>1. HoldInv /\ [Next]_vars => [Queue!Next]_(Queue!vars)
  <2>1. HoldInv /\ UNCHANGED vars => UNCHANGED Queue!vars
    BY DEF vars, Queue!vars, Box
  <2>2. QED
    BY <2>1, QueueNext
<1>2. QED
  BY <1>1, QueueInit, HoldAlways, PTL DEF Spec, ImplementsOutbox, Queue!Spec
=============================================================================
