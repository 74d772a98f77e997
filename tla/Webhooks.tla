------------------------------ MODULE Webhooks ------------------------------
(***************************************************************************)
(* The webhook plane (internal/webhook): Bus.Emit fans an event out into   *)
(* one outbox row per matching subscription, the dispatcher's workers      *)
(* claim, send and settle the rows, a startup sweep recovers what a crash  *)
(* left, and the REST face deletes subscriptions and replays dead rows.    *)
(*                                                                         *)
(* A row is named by its event and its subscription.  A worker that found  *)
(* nothing looks again at any time (the wake signal and the poll timer).   *)
(* Time is one bit per row: its next_attempt_at has passed.                *)
(***************************************************************************)
EXTENDS Integers, FiniteSets

CONSTANTS
    Events,        \* events emitted, each once
    Subs,          \* subscriptions
    Wants,         \* Wants[e]: subscriptions whose type list and criteria admit e
    Workers,       \* the dispatcher's pool
    RetryCount,    \* tries, the first included
    MaxConcurrent, \* cap on deliveries in flight
    MaxTurns       \* bound on edits, replays, stops, crashes and failing store calls together

ASSUME WebhookConstants ==
    /\ Wants \in [Events -> SUBSET Subs]
    /\ IsFiniteSet(Workers)
    /\ RetryCount \in Nat \ {0}
    /\ MaxConcurrent \in Nat \ {0}
    /\ MaxTurns \in Nat

Rows == Events \X Subs
NoRow == <<>>
Statuses == {"none", "pending", "delivering", "delivered", "dead", "gone"}
DeliverPcs == {"lookup", "limiter", "send", "land", "retry"}
WorkerPcs == {"off", "idle", "cas", "get"} \cup DeliverPcs
Outcomes == {"2xx", "4xx", "5xx", "none"}

VARIABLES
    sub,      \* webhook_subscriptions: off, on or gone
    status,   \* webhook_deliveries.status
    attempts, \* webhook_deliveries.attempts
    due,      \* rows whose next_attempt_at has passed
    emitPc,   \* where Emit is with each event
    picked,   \* the subscriptions MatchSubscriptions and the criteria picked
    counted,  \* events whose loss Bus.failures has counted
    wpc,      \* where each worker is
    cand,     \* the ids its claim scan returned
    dueAt,    \* rows due at the instant its claim read the clock
    job,      \* the row it claimed
    att,      \* the attempt it counted for the row
    out,      \* what the receiver answered
    phase,    \* the dispatcher: booting, up, stopping or down
    ends,     \* stops and crashes
    asks,     \* edits of subscriptions and replays
    faults,   \* failing store calls
    acked,    \* history: rows a receiver has answered 2xx
    sends     \* history: sends of a row since it was enqueued or replayed

subVars == <<sub>>
rowVars == <<status, attempts, due>>
emitVars == <<emitPc, picked, counted>>
workVars == <<wpc, cand, dueAt, job, att, out>>
procVars == <<phase, ends>>
histVars == <<acked, sends>>
vars == <<sub, status, attempts, due, emitPc, picked, counted, wpc, cand, dueAt, job, att, out,
          phase, ends, asks, faults, acked, sends>>

Init ==
    /\ sub = [s \in Subs |-> "on"]
    /\ status = [d \in Rows |-> "none"]
    /\ attempts = [d \in Rows |-> 0]
    /\ due = {}
    /\ emitPc = [e \in Events |-> "idle"]
    /\ picked = [e \in Events |-> {}]
    /\ counted = {}
    /\ wpc = [w \in Workers |-> "off"]
    /\ cand = [w \in Workers |-> {}]
    /\ dueAt = [w \in Workers |-> {}]
    /\ job = [w \in Workers |-> NoRow]
    /\ att = [w \in Workers |-> 0]
    /\ out = [w \in Workers |-> "none"]
    /\ phase = "boot"
    /\ ends = 0
    /\ asks = 0
    /\ faults = 0
    /\ acked = {}
    /\ sends = [d \in Rows |-> 0]

-----------------------------------------------------------------------------
TurnLeft == ends + asks + faults < MaxTurns

(* Subscriptions and replay: the REST face. *)

\* Update flips the switch; rows already enqueued keep their snapshot.
UpdateSubscription(s) ==
    /\ sub[s] \in {"off", "on"}
    /\ TurnLeft
    /\ asks' = asks + 1
    /\ sub' = [sub EXCEPT ![s] = IF @ = "on" THEN "off" ELSE "on"]
    /\ UNCHANGED <<rowVars, emitVars, workVars, procVars, faults, histVars>>

\* The foreign key drops the rows in the same statement.
DeleteSubscription(s) ==
    /\ sub[s] \in {"off", "on"}
    /\ TurnLeft
    /\ asks' = asks + 1
    /\ sub' = [sub EXCEPT ![s] = "gone"]
    /\ status' = [d \in Rows |-> IF d[2] = s /\ status[d] # "none" THEN "gone" ELSE status[d]]
    /\ UNCHANGED <<attempts, due, emitVars, workVars, procVars, faults, histVars>>

\* Slip: any settled row can be replayed.
ReplayDeliveryAny(d) ==
    /\ status[d] \in {"dead", "delivered"}
    /\ TurnLeft
    /\ status' = [status EXCEPT ![d] = "pending"]
    /\ attempts' = [attempts EXCEPT ![d] = 0]
    /\ due' = due \cup {d}
    /\ sends' = [sends EXCEPT ![d] = 0]
    /\ asks' = asks + 1
    /\ UNCHANGED <<subVars, emitVars, workVars, procVars, faults, acked>>

\* Replay: only a dead row, due now.  A claim scan that is under way read an earlier clock.
ReplayDelivery(d) ==
    /\ status[d] = "dead"
    /\ TurnLeft
    /\ status' = [status EXCEPT ![d] = "pending"]
    /\ attempts' = [attempts EXCEPT ![d] = 0]
    /\ due' = due \cup {d}
    /\ dueAt' = [w \in Workers |-> dueAt[w] \ {d}]
    /\ sends' = [sends EXCEPT ![d] = 0]
    /\ asks' = asks + 1
    /\ UNCHANGED <<subVars, emitVars, wpc, cand, job, att, out, procVars, faults, acked>>

-----------------------------------------------------------------------------
(* Emit: the tail of a mutation. *)

Open == phase # "down"

Fault ==
    /\ TurnLeft
    /\ faults' = faults + 1

Saturated == Cardinality({w \in Workers : wpc[w] \in DeliverPcs}) >= MaxConcurrent

\* No entitlement, an unregistered or a dormant event type.
EmitDropped(e) ==
    /\ Open
    /\ emitPc[e] = "idle"
    /\ emitPc' = [emitPc EXCEPT ![e] = "done"]
    /\ UNCHANGED <<subVars, rowVars, picked, counted, workVars, procVars, asks, faults, histVars>>

\* rejectEvent at the concurrency cap, or enqueueFailed on the match query.
EmitRejected(e) ==
    /\ Open
    /\ emitPc[e] = "idle"
    /\ Saturated \/ TurnLeft
    /\ faults' = IF Saturated THEN faults ELSE faults + 1
    /\ emitPc' = [emitPc EXCEPT ![e] = "done"]
    /\ counted' = counted \cup {e}
    /\ UNCHANGED <<subVars, rowVars, picked, workVars, procVars, asks, histVars>>

\* MatchSubscriptions, the criteria of each, and its row; a row that cannot be built is lost
\* and counted, the others go on.
EmitMatch(e) ==
    /\ Open
    /\ emitPc[e] = "idle"
    /\ ~Saturated
    /\ \E lost \in SUBSET {s \in Wants[e] : sub[s] = "on"} :
        /\ picked' = [picked EXCEPT ![e] = {s \in Wants[e] \ lost : sub[s] = "on"}]
        /\ IF lost = {}
           THEN UNCHANGED <<counted, faults>>
           ELSE Fault /\ counted' = counted \cup {e}
    /\ emitPc' = [emitPc EXCEPT ![e] = "enqueue"]
    /\ UNCHANGED <<subVars, rowVars, workVars, procVars, asks, histVars>>

Fan(e) == {<<e, s>> : s \in picked[e]}

\* EnqueueDeliveries: one transaction.
EnqueueDeliveries(e) ==
    /\ Open
    /\ emitPc[e] = "enqueue"
    /\ \A s \in picked[e] : sub[s] # "gone"
    /\ emitPc' = [emitPc EXCEPT ![e] = "done"]
    /\ status' = [d \in Rows |-> IF d \in Fan(e) THEN "pending" ELSE status[d]]
    /\ due' = due \cup Fan(e)
    /\ UNCHANGED <<subVars, attempts, picked, counted, workVars, procVars, asks, faults, histVars>>

\* The store fails, or a picked subscription was deleted since: the foreign key rolls the
\* whole batch back, the rows of the other subscriptions with it.
EnqueueFails(e) ==
    /\ Open
    /\ emitPc[e] = "enqueue"
    /\ picked[e] # {}
    /\ (\E s \in picked[e] : sub[s] = "gone") \/ TurnLeft
    /\ faults' = IF \E s \in picked[e] : sub[s] = "gone" THEN faults ELSE faults + 1
    /\ emitPc' = [emitPc EXCEPT ![e] = "done"]
    /\ counted' = counted \cup {e}
    /\ UNCHANGED <<subVars, rowVars, picked, workVars, procVars, asks, histVars>>

-----------------------------------------------------------------------------
(* A worker: ClaimDueDelivery. *)

Goes(w, to) == wpc' = [wpc EXCEPT ![w] = to]

\* Back to the top of the loop, with nothing in hand.
Rests(w) ==
    /\ Goes(w, "idle")
    /\ cand' = [cand EXCEPT ![w] = {}]
    /\ dueAt' = [dueAt EXCEPT ![w] = {}]
    /\ job' = [job EXCEPT ![w] = NoRow]
    /\ att' = [att EXCEPT ![w] = 0]
    /\ out' = [out EXCEPT ![w] = "none"]

\* The context of the dispatcher is cancelled, or the store fails.
CallFails == \/ phase = "stopping" /\ UNCHANGED faults
             \/ Fault

ClaimScan(w) ==
    /\ phase = "up"
    /\ wpc[w] = "idle"
    /\ \E d \in Rows : status[d] = "pending" /\ d \in due
    /\ cand' = [cand EXCEPT ![w] = {d \in Rows : status[d] = "pending" /\ d \in due}]
    /\ dueAt' = [dueAt EXCEPT ![w] = due]
    /\ Goes(w, "cas")
    /\ UNCHANGED <<subVars, rowVars, emitVars, job, att, out, procVars, asks, faults, histVars>>

Takes(w, d) ==
    /\ status' = [status EXCEPT ![d] = "delivering"]
    /\ attempts' = [attempts EXCEPT ![d] = @ + 1]
    /\ job' = [job EXCEPT ![w] = d]
    /\ cand' = [cand EXCEPT ![w] = {}]
    /\ Goes(w, "get")
    /\ UNCHANGED <<subVars, due, emitVars, dueAt, att, out, procVars, asks, faults, histVars>>

\* Slip: the update does not repeat the status predicate.
ClaimTakesScanned(w) ==
    \E d \in cand[w] : wpc[w] = "cas" /\ status[d] \in {"pending", "delivering"} /\ Takes(w, d)

\* The update repeats both predicates, with the clock of the scan.
ClaimTakes(w) ==
    \E d \in cand[w] :
        /\ wpc[w] = "cas"
        /\ status[d] = "pending"
        /\ d \in dueAt[w]
        /\ Takes(w, d)

\* Lost to a peer: the next candidate, or nothing due.
ClaimLoses(w) ==
    /\ wpc[w] = "cas"
    /\ \E d \in cand[w] :
        /\ ~(status[d] = "pending" /\ d \in dueAt[w])
        /\ IF cand[w] = {d}
           THEN Rests(w)
           ELSE /\ cand' = [cand EXCEPT ![w] = @ \ {d}]
                /\ UNCHANGED <<wpc, dueAt, job, att, out>>
    /\ UNCHANGED <<subVars, rowVars, emitVars, procVars, asks, faults, histVars>>

ClaimFails(w) ==
    /\ wpc[w] = "cas"
    /\ CallFails
    /\ Rests(w)
    /\ UNCHANGED <<subVars, rowVars, emitVars, procVars, asks, histVars>>

\* GetDelivery of the claimed row.
ClaimReads(w) ==
    /\ wpc[w] = "get"
    /\ status[job[w]] # "gone"
    /\ att' = [att EXCEPT ![w] = attempts[job[w]]]
    /\ Goes(w, "lookup")
    /\ UNCHANGED <<subVars, rowVars, emitVars, cand, dueAt, job, out, procVars, asks, faults,
                   histVars>>

\* The row is gone, or the read fails after the claim was written: the row stays claimed.
ClaimReadFails(w) ==
    /\ wpc[w] = "get"
    /\ \/ status[job[w]] = "gone" /\ UNCHANGED faults
       \/ CallFails
    /\ Rests(w)
    /\ UNCHANGED <<subVars, rowVars, emitVars, procVars, asks, histVars>>

-----------------------------------------------------------------------------
(* A worker: deliver. *)

LookupTarget(w) ==
    /\ wpc[w] = "lookup"
    /\ IF sub[job[w][2]] = "gone"
       THEN Rests(w)
       ELSE Goes(w, "limiter") /\ UNCHANGED <<cand, dueAt, job, att, out>>
    /\ UNCHANGED <<subVars, rowVars, emitVars, procVars, asks, faults, histVars>>

\* A lookup that fails hands the row back, whatever its attempt.
LookupFails(w) ==
    /\ wpc[w] = "lookup"
    /\ CallFails
    /\ Goes(w, "retry")
    /\ UNCHANGED <<subVars, rowVars, emitVars, cand, dueAt, job, att, out, procVars, asks, histVars>>

\* tokenBucket.acquire, which only a shutdown interrupts.
Acquire(w) ==
    /\ wpc[w] = "limiter"
    /\ Goes(w, "send") \/ (phase = "stopping" /\ Goes(w, "retry"))
    /\ UNCHANGED <<subVars, rowVars, emitVars, cand, dueAt, job, att, out, procVars, asks, faults,
                   histVars>>

\* sendAttempt: an answer, or none (transport, guard, timeout, shutdown).
SendAttempt(w) ==
    /\ wpc[w] = "send"
    /\ \E o \in Outcomes :
        /\ out' = [out EXCEPT ![w] = o]
        /\ acked' = IF o = "2xx" THEN acked \cup {job[w]} ELSE acked
    /\ sends' = [sends EXCEPT ![job[w]] = @ + 1]
    /\ Goes(w, "land")
    /\ UNCHANGED <<subVars, rowVars, emitVars, cand, dueAt, job, att, procVars, asks, faults>>

\* Slip: the tries that are left, which a row past its budget drives below zero.
SettlesCountdown(w, to) ==
    LET d == job[w] IN
    /\ status' = [status EXCEPT ![d] = IF @ = "gone" THEN @ ELSE to]
    /\ attempts' = [attempts EXCEPT ![d] = IF status[d] = "gone" THEN @ ELSE RetryCount - att[w]]

\* UPDATE ... WHERE id: a row that is gone is not brought back.
Settles(w, to) ==
    LET d == job[w] IN
    /\ status' = [status EXCEPT ![d] = IF @ = "gone" THEN @ ELSE to]
    /\ attempts' = [attempts EXCEPT ![d] = IF status[d] = "gone" THEN @ ELSE att[w]]

MarkDelivered(w) ==
    /\ wpc[w] = "land"
    /\ out[w] = "2xx"
    /\ Settles(w, "delivered")
    /\ Rests(w)
    /\ UNCHANGED <<subVars, due, emitVars, procVars, asks, faults, histVars>>

\* Slip: one try too many.
RetriesOver(w) ==
    /\ wpc[w] = "land"
    /\ out[w] \in {"5xx", "none"} => att[w] > RetryCount

\* No answer or a 5xx is final at the end of the budget, a 3xx or a 4xx at once.
DeadLetters(w) ==
    /\ wpc[w] = "land"
    /\ out[w] \in {"5xx", "none"} => att[w] >= RetryCount

MarkDead(w) ==
    /\ DeadLetters(w)
    /\ out[w] # "2xx"
    /\ Settles(w, "dead")
    /\ Rests(w)
    /\ UNCHANGED <<subVars, due, emitVars, procVars, asks, faults, histVars>>

\* writeRetry: due again after the fixed wait, later than any clock a claim has read.
ScheduleRetry(w) ==
    LET d == job[w] IN
    /\ wpc[w] \in {"land", "retry"}
    /\ wpc[w] = "land" => out[w] # "2xx" /\ ~DeadLetters(w)
    /\ Settles(w, "pending")
    /\ due' = due \ {d}
    /\ dueAt' = [x \in Workers |-> IF x = w THEN {} ELSE dueAt[x] \ {d}]
    /\ Goes(w, "idle")
    /\ cand' = [cand EXCEPT ![w] = {}]
    /\ job' = [job EXCEPT ![w] = NoRow]
    /\ att' = [att EXCEPT ![w] = 0]
    /\ out' = [out EXCEPT ![w] = "none"]
    /\ UNCHANGED <<subVars, emitVars, procVars, asks, faults, histVars>>

\* The outcome is not written: the row stays delivering until the next start.
LandFails(w) ==
    /\ wpc[w] \in {"land", "retry"}
    /\ Fault
    /\ Rests(w)
    /\ UNCHANGED <<subVars, rowVars, emitVars, procVars, asks, histVars>>

-----------------------------------------------------------------------------
(* Time and the process. *)

BecomesDue(d) ==
    /\ status[d] = "pending"
    /\ d \notin due
    /\ due' = due \cup {d}
    /\ UNCHANGED <<subVars, status, attempts, emitVars, workVars, procVars, asks, faults, histVars>>

\* Slip: no startup sweep.
NoSweep == UNCHANGED <<status, faults>>

\* SweepDelivering; when it fails the dispatcher starts all the same.
SweepDelivering ==
    \/ /\ status' = [d \in Rows |-> IF status[d] = "delivering" THEN "pending" ELSE status[d]]
       /\ UNCHANGED faults
    \/ /\ Fault
       /\ UNCHANGED status

Boot ==
    /\ phase = "boot"
    /\ phase' = "up"
    /\ SweepDelivering
    /\ wpc' = [w \in Workers |-> "idle"]
    /\ UNCHANGED <<subVars, attempts, due, emitVars, cand, dueAt, job, att, out, ends, asks,
                   histVars>>

\* The context is cancelled; workers return at the top of their loop.
Stop ==
    /\ phase = "up"
    /\ TurnLeft
    /\ ends' = ends + 1
    /\ phase' = "stopping"
    /\ UNCHANGED <<subVars, rowVars, emitVars, workVars, asks, faults, histVars>>

WorkerReturns(w) ==
    /\ phase = "stopping"
    /\ wpc[w] = "idle"
    /\ Goes(w, "off")
    /\ UNCHANGED <<subVars, rowVars, emitVars, cand, dueAt, job, att, out, procVars, asks, faults,
                   histVars>>

AllReturned == phase = "stopping" /\ \A w \in Workers : wpc[w] = "off"

\* What the end of a process cuts off.
MemoryGone ==
    /\ phase' = "down"
    /\ wpc' = [w \in Workers |-> "off"]
    /\ cand' = [w \in Workers |-> {}]
    /\ dueAt' = [w \in Workers |-> {}]
    /\ job' = [w \in Workers |-> NoRow]
    /\ att' = [w \in Workers |-> 0]
    /\ out' = [w \in Workers |-> "none"]
    /\ emitPc' = [e \in Events |-> IF emitPc[e] = "enqueue" THEN "done" ELSE emitPc[e]]
    /\ UNCHANGED <<subVars, rowVars, picked, counted, asks, faults, histVars>>

Exit == AllReturned /\ MemoryGone /\ UNCHANGED ends

Crash ==
    /\ Open
    /\ TurnLeft
    /\ ends' = ends + 1
    /\ MemoryGone

Start ==
    /\ phase = "down"
    /\ phase' = "boot"
    /\ UNCHANGED <<subVars, rowVars, emitVars, workVars, ends, asks, faults, histVars>>

-----------------------------------------------------------------------------
EmitStep(e) ==
    EmitDropped(e) \/ EmitRejected(e) \/ EmitMatch(e) \/ EnqueueDeliveries(e) \/ EnqueueFails(e)

ClaimStep(w) ==
    \/ ClaimScan(w) \/ ClaimTakes(w) \/ ClaimLoses(w) \/ ClaimFails(w)
    \/ ClaimReads(w) \/ ClaimReadFails(w)

DeliverStep(w) ==
    \/ LookupTarget(w) \/ LookupFails(w) \/ Acquire(w) \/ SendAttempt(w)
    \/ MarkDelivered(w) \/ MarkDead(w) \/ ScheduleRetry(w) \/ LandFails(w)

WorkerStep(w) == ClaimStep(w) \/ DeliverStep(w) \/ WorkerReturns(w)

Next ==
    \/ \E s \in Subs : UpdateSubscription(s) \/ DeleteSubscription(s)
    \/ \E d \in Rows : ReplayDelivery(d) \/ BecomesDue(d)
    \/ \E e \in Events : EmitStep(e)
    \/ \E w \in Workers : WorkerStep(w)
    \/ Boot \/ Stop \/ Exit \/ Crash \/ Start

Spec == Init /\ [][Next]_vars

\* Workers run, waits end, and a process that ended is started again.
FairSpec ==
    /\ Spec
    /\ \A w \in Workers : WF_vars(WorkerStep(w))
    /\ \A d \in Rows : WF_vars(BecomesDue(d))
    /\ WF_vars(Boot)
    /\ WF_vars(Exit)
    /\ WF_vars(Start)

-----------------------------------------------------------------------------
(* Properties. *)

\* Every variable has its type (Delivery, Dispatcher), and an event has reached every picked
\* subscription or none, and none only if its loss was counted or the process died
\* (EnqueueDeliveries, "the fan-out's atomic unit").
TypeOK ==
    /\ sub \in [Subs -> {"off", "on", "gone"}]
    /\ status \in [Rows -> Statuses]
    /\ attempts \in [Rows -> Nat]
    /\ due \subseteq Rows
    /\ emitPc \in [Events -> {"idle", "enqueue", "done"}]
    /\ picked \in [Events -> SUBSET Subs]
    /\ counted \subseteq Events
    /\ wpc \in [Workers -> WorkerPcs]
    /\ cand \in [Workers -> SUBSET Rows]
    /\ dueAt \in [Workers -> SUBSET Rows]
    /\ job \in [Workers -> Rows \cup {NoRow}]
    /\ att \in [Workers -> Nat]
    /\ out \in [Workers -> Outcomes]
    /\ phase \in {"boot", "up", "stopping", "down"}
    /\ ends \in Nat
    /\ asks \in Nat
    /\ faults \in Nat
    /\ acked \subseteq Rows
    /\ sends \in [Rows -> Nat]
    /\ \A e \in Events :
        \/ emitPc[e] = "enqueue"
        \/ \A s \in picked[e] : status[<<e, s>>] # "none"
        \/ /\ \A s \in picked[e] : status[<<e, s>>] = "none"
           /\ e \in counted \/ ends > 0

\* store.go on ClaimDueDelivery: "concurrent workers can never share a row".
OneWorkerPerRow ==
    \A v, w \in Workers : (v # w /\ job[v] # NoRow) => job[v] # job[w]

\* dispatcher.go: "five total attempts".  A process that ends between a send and its outcome
\* write costs one try more.
SendsWithinBudget == \A d \in Rows : sends[d] <= RetryCount + ends

\* Every row that waits or is in a worker's hands is delivered, given up or removed with its
\* subscription, whatever stops, crashes and replays come in between; only a failed store call
\* may leave it delivering until a later start (dispatcher.go on deliver).
EveryRowSettles ==
    \A d \in Rows :
        status[d] \in {"pending", "delivering"} ~>
            (status[d] \in {"delivered", "dead", "gone"} \/ faults > 0)

\* A row as an entry of the queue.
Box == [d \in Rows |-> CASE status[d] \in {"pending", "delivering"} -> "queued"
                         [] status[d] = "delivered" -> "done"
                         [] OTHER -> status[d]]

\* The outbox as a durable queue: what is delivered was answered 2xx, nothing is sent for a
\* settled row, and only a dead row comes back.
Queue == INSTANCE Outbox WITH Ids <- Rows, box <- Box, reached <- acked

ImplementsOutbox == Queue!Spec

\* dispatcher.go on Run: "no row is ever left delivering by a clean shutdown", here one in
\* which no store call failed on its own.
CleanStopSettlesRows == (AllReturned /\ faults = 0) => \A d \in Rows : status[d] # "delivering"
=============================================================================
