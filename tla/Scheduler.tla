------------------------------ MODULE Scheduler ------------------------------
(***************************************************************************)
(* The cron scheduler (internal/scheduler), its ledger (the schedules      *)
(* table) and the backup face that configures it (internal/httpapi): one   *)
(* dispatch loop fires the due rows one after the other, re-reads each row  *)
(* after its job and writes the run state back, while requests save and     *)
(* delete the same rows in several statements of their own.                 *)
(*                                                                          *)
(* An expression is the set of instants it triggers at.  Every statement on  *)
(* the store is one step; the loop and the requests interleave between them. *)
(***************************************************************************)
EXTENDS Integers, Sequences, FiniteSets

CONSTANTS
    Keys,           \* schedules of the backup domain
    Registered,     \* those whose domain has a runner
    Writers,        \* requests on the configuration face
    Exprs,          \* cron expressions, each the non-empty set of its triggers
    Explicits,      \* the explicit next runs a request may ask for
    MaxTime,        \* bound of the clock
    MaxRollbacks,   \* bound: how often the clock is set back
    MaxRestarts,    \* bound: how often the process ends
    KickQueue       \* capacity of the kick channel (32 in the code)

Times == 1 .. MaxTime
Unset == 0          \* the empty timestamp
NoKey == "nokey"

ASSUME SchedulerConstants ==
    /\ IsFiniteSet(Keys) /\ NoKey \notin Keys
    /\ Registered \subseteq Keys
    /\ Exprs \subseteq SUBSET Times /\ {} \notin Exprs
    /\ Explicits \subseteq Times
    /\ {MaxTime, MaxRollbacks, MaxRestarts, KickQueue} \subseteq Nat
    /\ MaxTime > 0

VARIABLES
    clock,      \* what time.Now shows
    top,        \* the latest instant it ever showed (history)
    rollbacks,
    payload,    \* the backups table: "none", "on" (enabled) or "off"
    rows,       \* the schedules table, NoRow where a key has none
    loop,       \* where the dispatch goroutine is
    stopping,   \* its context is cancelled
    restarts,
    now,        \* the instant of the sweep or of the kick
    batch,      \* the due rows of the sweep still to dispatch, as listed
    cur,        \* the key in hand
    kicked,     \* a kick fires it, not the sweep
    hand,       \* the row in hand: the listed one, then the one read again
    ran,        \* when the job returned
    fault,      \* history: the last statement of the loop on the ledger failed
    kicks,      \* the kick channel
    wpc, req, wnext, wlast  \* a request: where it is, what it asks, what it computed and read

clockVars == <<clock, top, rollbacks>>
storeVars == <<payload, rows>>
loopVars == <<loop, now, batch, cur, kicked, hand, ran, fault>>
procVars == <<stopping, restarts>>
writerVars == <<wpc, req, wnext, wlast>>
vars == <<clock, top, rollbacks, payload, rows, loop, stopping, restarts, now, batch, cur, kicked,
          hand, ran, fault, kicks, wpc, req, wnext, wlast>>

Rows == [cron : Exprs \cup {{}}, enabled : BOOLEAN, next : Times \cup {Unset},
         last : Times \cup {Unset}, by : {"scheduler", "admin"}]
Reqs == [key : Keys \cup {NoKey}, cron : Exprs \cup {{}}, enabled : BOOLEAN,
         explicit : Times \cup {Unset}]
NoRow == [cron |-> {}, enabled |-> FALSE, next |-> Unset, last |-> Unset, by |-> "admin"]
NoReq == [key |-> NoKey, cron |-> {}, enabled |-> FALSE, explicit |-> Unset]

\* Next of next.go: the first trigger after t, Unset when the expression has none left.
NextRun(cron, t) ==
    LET after == {x \in cron : x > t}
    IN  IF after = {} THEN Unset ELSE CHOOSE x \in after : \A y \in after : x <= y

\* The due predicate of ListDue.
Due(r, t) == r.enabled /\ r.next # Unset /\ r.next <= t

Pending == {k \in Keys : batch[k] # NoRow}

Init ==
    /\ clock = 1 /\ top = 1 /\ rollbacks = 0
    /\ payload = [k \in Keys |-> "none"]
    /\ rows = [k \in Keys |-> NoRow]
    /\ loop = "boot"
    /\ stopping = FALSE /\ restarts = 0
    /\ now = Unset /\ batch = [k \in Keys |-> NoRow]
    /\ cur = NoKey /\ kicked = FALSE /\ hand = NoRow /\ ran = Unset /\ fault = FALSE
    /\ kicks = <<>>
    /\ wpc = [w \in Writers |-> "idle"]
    /\ req = [w \in Writers |-> NoReq]
    /\ wnext = [w \in Writers |-> Unset]
    /\ wlast = [w \in Writers |-> Unset]

-----------------------------------------------------------------------------
(* The dispatch loop. *)

\* The boot pass or a tick: list what is due, then dispatch row by row.
Sweep ==
    /\ loop \in {"boot", "select"}
    /\ ~stopping
    /\ now' = IF \E k \in Keys : Due(rows[k], clock) THEN clock ELSE Unset
    /\ batch' = [k \in Keys |-> IF Due(rows[k], clock) THEN rows[k] ELSE NoRow]
    /\ fault' = FALSE
    /\ loop' = IF \E k \in Keys : Due(rows[k], clock) THEN "due" ELSE "select"
    /\ UNCHANGED <<clockVars, storeVars, procVars, cur, kicked, hand, ran, kicks, writerVars>>

\* The listing fails: the sweep ends and the next tick tries again.
SweepFails ==
    /\ loop = "boot"
    /\ loop' = "select"
    /\ UNCHANGED <<clockVars, storeVars, procVars, fault, now, batch, cur, kicked, hand, ran, kicks,
                   writerVars>>

\* dispatchRow, in the order of next_run: a row last run in the clock's future, or one
\* nobody runs, is re-armed; any other fires.
Dispatch(k) ==
    /\ loop = "due"
    /\ k \in Pending
    /\ \A j \in Pending : batch[k].next <= batch[j].next
    /\ cur' = k
    /\ kicked' = FALSE
    /\ hand' = batch[k]
    /\ batch' = [batch EXCEPT ![k] = NoRow]
    /\ loop' = IF (batch[k].last # Unset /\ now < batch[k].last) \/ k \notin Registered
               THEN "rearm" ELSE "carrier"
    /\ UNCHANGED <<clockVars, storeVars, procVars, fault, now, ran, kicks, writerVars>>

\* A kick from the channel takes the same path without dispatchRow's guards.
TakeKick ==
    /\ loop = "select"
    /\ kicks # <<>>
    /\ kicks' = Tail(kicks)
    /\ cur' = Head(kicks)
    /\ kicked' = TRUE
    /\ loop' = "carrier"
    /\ UNCHANGED <<clockVars, storeVars, procVars, fault, now, batch, hand, ran, writerVars>>

\* Mutant of Proceed: one row per sweep.
ProceedToSelect(f) ==
    /\ loop' = "select"
    /\ cur' = NoKey
    /\ kicked' = FALSE
    /\ hand' = NoRow
    /\ ran' = Unset
    /\ now' = IF Pending = {} THEN Unset ELSE now
    /\ fault' = f

\* The row is done with: back to the sweep's list, or to the select.
Proceed(f) ==
    /\ loop' = IF Pending = {} THEN "select" ELSE "due"
    /\ cur' = NoKey
    /\ kicked' = FALSE
    /\ hand' = NoRow
    /\ ran' = Unset
    /\ now' = IF Pending = {} THEN Unset ELSE now
    /\ fault' = f

\* backupRunner.Run reads the payload: gone, the schedule row is an orphan; disabled, there
\* is nothing to do; otherwise the instance is exported.
CarrierReads ==
    /\ loop = "carrier"
    /\ ~stopping
    /\ loop' = CASE payload[cur] = "none" -> "tombstone"
                 [] payload[cur] = "off" -> "read"
                 [] payload[cur] = "on" -> "export"
    /\ ran' = IF payload[cur] = "off" THEN clock ELSE ran
    /\ UNCHANGED <<clockVars, storeVars, procVars, fault, now, batch, cur, kicked,
                   hand, kicks, writerVars>>

\* The payload cannot be read: a failed run, which lands like any other.
CarrierFails ==
    /\ loop = "carrier"
    /\ ~stopping
    /\ loop' = "read"
    /\ ran' = clock
    /\ UNCHANGED <<clockVars, storeVars, procVars, fault, now, batch, cur, kicked,
                   hand, kicks, writerVars>>

\* The read meets the cancelled context: a shutdown abort leaves the row as it was.
CarrierAborted ==
    /\ loop = "carrier"
    /\ stopping
    /\ Proceed(FALSE)
    /\ UNCHANGED <<clockVars, storeVars, procVars, batch, kicks, writerVars>>

Tombstone ==
    /\ loop = "tombstone"
    /\ ~stopping
    /\ rows' = [rows EXCEPT ![cur] = NoRow]
    /\ loop' = "read"
    /\ ran' = clock
    /\ UNCHANGED <<clockVars, payload, procVars, fault, now, batch, cur, kicked,
                   hand, kicks, writerVars>>

\* The tombstone fails, or meets the cancelled context; the run still counts as ok.
TombstoneFails ==
    /\ loop = "tombstone"
    /\ loop' = "read"
    /\ ran' = clock
    /\ UNCHANGED <<clockVars, storeVars, procVars, fault, now, batch, cur, kicked,
                   hand, kicks, writerVars>>

\* The export ends, well or badly; it does not see the cancellation.
ExportEnds ==
    /\ loop = "export"
    /\ loop' = "read"
    /\ ran' = clock
    /\ UNCHANGED <<clockVars, storeVars, procVars, fault, now, batch, cur, kicked,
                   hand, kicks, writerVars>>

\* runOne reads the row again, on a context of its own; a row that is gone is not written.
ReadBack ==
    /\ loop = "read"
    /\ \/ rows[cur] = NoRow /\ Proceed(FALSE)
       \/ rows[cur] # NoRow /\ hand' = rows[cur] /\ loop' = "write" /\ UNCHANGED <<cur, kicked, ran, now, fault>>
    /\ UNCHANGED <<clockVars, storeVars, procVars, batch, kicks, writerVars>>

\* Mutant of WriteBack: re-arms from the instant of the sweep.
WriteBackFromSweep ==
    /\ loop = "write"
    /\ rows' = [rows EXCEPT ![cur] = [hand EXCEPT
                   !.last = ran, !.by = "scheduler",
                   !.next = IF hand.enabled THEN NextRun(hand.cron, now) ELSE Unset]]
    /\ Proceed(FALSE)
    /\ UNCHANGED <<clockVars, payload, procVars, batch, kicks, writerVars>>

\* The run state lands and the row is re-armed from the end of the run.
WriteBack ==
    /\ loop = "write"
    /\ rows' = [rows EXCEPT ![cur] = [hand EXCEPT
                   !.last = ran, !.by = "scheduler",
                   !.next = IF hand.enabled THEN NextRun(hand.cron, ran) ELSE Unset]]
    /\ Proceed(FALSE)
    /\ UNCHANGED <<clockVars, payload, procVars, batch, kicks, writerVars>>

\* rearm reads the row again; when it is gone the listed row is used.
RearmRead ==
    /\ loop = "rearm"
    /\ ~stopping
    /\ hand' = IF rows[cur] = NoRow THEN hand ELSE rows[cur]
    /\ loop' = "rearmWrite"
    /\ UNCHANGED <<clockVars, storeVars, procVars, fault, now, batch, cur, kicked,
                   ran, kicks, writerVars>>

\* Mutant of RearmWrite: stamps the row and leaves its next run.
RearmWriteStamps ==
    /\ loop = "rearmWrite"
    /\ ~stopping
    /\ rows' = [rows EXCEPT ![cur] = [hand EXCEPT !.by = "scheduler"]]
    /\ Proceed(FALSE)
    /\ UNCHANGED <<clockVars, payload, procVars, batch, kicks, writerVars>>

RearmWrite ==
    /\ loop = "rearmWrite"
    /\ ~stopping
    /\ rows' = [rows EXCEPT ![cur] = [hand EXCEPT
                   !.next = NextRun(hand.cron, now), !.by = "scheduler"]]
    /\ Proceed(FALSE)
    /\ UNCHANGED <<clockVars, payload, procVars, batch, kicks, writerVars>>

\* A read or a write of the ledger fails, or meets the cancelled context: the row stays.
LedgerFails ==
    /\ loop \in {"read", "write", "rearm", "rearmWrite"}
    /\ Proceed(TRUE)
    /\ UNCHANGED <<clockVars, storeVars, procVars, batch, kicks, writerVars>>

\* Run returns at its select, and what is queued is lost with the process.
LoopReturns ==
    /\ loop \in {"boot", "select"}
    /\ stopping
    /\ loop' = "off"
    /\ UNCHANGED <<clockVars, storeVars, procVars, fault, now, batch, cur, kicked, hand, ran, kicks,
                   writerVars>>

-----------------------------------------------------------------------------
(* Requests. *)

\* Kick checks that the domain has a runner and the key a row, then queues or refuses.
Kick(k) ==
    /\ k \in Registered
    /\ rows[k] # NoRow
    /\ Len(kicks) < KickQueue
    /\ kicks' = Append(kicks, k)
    /\ UNCHANGED <<clockVars, storeVars, procVars, loopVars, writerVars>>

\* validateCronArm and writeScheduleCron accept an expression that triggers again and an
\* explicit next run that lies ahead.
Storable(cron, explicit) ==
    IF cron = {} THEN explicit = Unset
    ELSE NextRun(cron, clock) # Unset /\ (explicit = Unset \/ explicit > clock)

\* A PUT of a backup passes its validation ...
Save(w, k, cron, enabled, explicit) ==
    /\ wpc[w] = "idle"
    /\ Storable(cron, explicit)
    /\ req' = [req EXCEPT ![w] = [key |-> k, cron |-> cron, enabled |-> enabled, explicit |-> explicit]]
    /\ wpc' = [wpc EXCEPT ![w] = "payload"]
    /\ UNCHANGED <<clockVars, storeVars, procVars, loopVars, kicks, wnext, wlast>>

\* ... writes the payload row ...
SavePayload(w) ==
    /\ wpc[w] = "payload"
    /\ payload' = [payload EXCEPT ![req[w].key] = IF req[w].enabled THEN "on" ELSE "off"]
    /\ wpc' = [wpc EXCEPT ![w] = "arm"]
    /\ UNCHANGED <<clockVars, rows, procVars, loopVars, kicks, req, wnext, wlast>>

RequestEnds(w) ==
    /\ wpc' = [wpc EXCEPT ![w] = "idle"]
    /\ req' = [req EXCEPT ![w] = NoReq]
    /\ wnext' = [wnext EXCEPT ![w] = Unset]
    /\ wlast' = [wlast EXCEPT ![w] = Unset]

\* ... and lands the schedule: an empty expression deletes the row ...
ArmClears(w) ==
    /\ wpc[w] = "arm"
    /\ req[w].cron = {}
    /\ rows' = [rows EXCEPT ![req[w].key] = NoRow]
    /\ RequestEnds(w)
    /\ UNCHANGED <<clockVars, payload, procVars, loopVars, kicks>>

\* ... any other is validated again, now with the payload written ...
ArmNext(w) ==
    /\ wpc[w] = "arm"
    /\ req[w].cron # {}
    /\ Storable(req[w].cron, req[w].explicit)
    /\ wnext' = [wnext EXCEPT ![w] =
                    IF req[w].explicit # Unset THEN req[w].explicit ELSE NextRun(req[w].cron, clock)]
    /\ wpc' = [wpc EXCEPT ![w] = "armRead"]
    /\ UNCHANGED <<clockVars, storeVars, procVars, loopVars, kicks, req, wlast>>

\* ... keeps the run state it reads ...
ArmRead(w) ==
    /\ wpc[w] = "armRead"
    /\ wlast' = [wlast EXCEPT ![w] = rows[req[w].key].last]
    /\ wpc' = [wpc EXCEPT ![w] = "armPut"]
    /\ UNCHANGED <<clockVars, storeVars, procVars, loopVars, kicks, req, wnext>>

\* Mutant of ArmPut: an edit keeps the next run of the row it replaces.
ArmPutKeepsNext(w) ==
    /\ wpc[w] = "armPut"
    /\ rows' = [rows EXCEPT ![req[w].key] =
                   [cron |-> req[w].cron, enabled |-> req[w].enabled, last |-> wlast[w], by |-> "admin",
                    next |-> IF rows[req[w].key] = NoRow THEN wnext[w] ELSE rows[req[w].key].next]]
    /\ RequestEnds(w)
    /\ UNCHANGED <<clockVars, payload, procVars, loopVars, kicks>>

\* ... and replaces the row, armed if the backup is enabled.
ArmPut(w) ==
    /\ wpc[w] = "armPut"
    /\ rows' = [rows EXCEPT ![req[w].key] =
                   [cron |-> req[w].cron, enabled |-> req[w].enabled, last |-> wlast[w], by |-> "admin",
                    next |-> IF req[w].enabled THEN wnext[w] ELSE Unset]]
    /\ RequestEnds(w)
    /\ UNCHANGED <<clockVars, payload, procVars, loopVars, kicks>>

\* A DELETE removes the payload row, then the schedule row.
DeletePayload(w, k) ==
    /\ wpc[w] = "idle"
    /\ payload[k] # "none"
    /\ payload' = [payload EXCEPT ![k] = "none"]
    /\ req' = [req EXCEPT ![w] = [NoReq EXCEPT !.key = k]]
    /\ wpc' = [wpc EXCEPT ![w] = "deleteRow"]
    /\ UNCHANGED <<clockVars, rows, procVars, loopVars, kicks, wnext, wlast>>

DeleteRow(w) ==
    /\ wpc[w] = "deleteRow"
    /\ rows' = [rows EXCEPT ![req[w].key] = NoRow]
    /\ RequestEnds(w)
    /\ UNCHANGED <<clockVars, payload, procVars, loopVars, kicks>>

\* A statement of a request fails, its client goes away, or the second validation refuses
\* what the first accepted: what it wrote stays.
RequestFails(w) ==
    /\ wpc[w] # "idle"
    /\ RequestEnds(w)
    /\ UNCHANGED <<clockVars, storeVars, procVars, loopVars, kicks>>

-----------------------------------------------------------------------------
(* The clock and the process. *)

Tick ==
    /\ clock < MaxTime
    /\ clock' = clock + 1
    /\ top' = IF clock = top THEN clock + 1 ELSE top
    /\ UNCHANGED <<rollbacks, storeVars, procVars, loopVars, kicks, writerVars>>

\* An operator or NTP sets the clock back.
Rollback ==
    /\ rollbacks < MaxRollbacks
    /\ rollbacks' = rollbacks + 1
    /\ \E t \in Times : t < clock /\ clock' = t
    /\ UNCHANGED <<top, storeVars, procVars, loopVars, kicks, writerVars>>

\* SIGTERM cancels the loop's context.
Stop ==
    /\ ~stopping
    /\ restarts < MaxRestarts
    /\ stopping' = TRUE
    /\ UNCHANGED <<clockVars, storeVars, restarts, loopVars, kicks, writerVars>>

\* The process ends, by a crash or after a stop, and another one boots on the same store.
ProcessEnds ==
    /\ restarts < MaxRestarts
    /\ restarts' = restarts + 1
    /\ stopping' = FALSE
    /\ loop' = "boot"
    /\ batch' = [k \in Keys |-> NoRow]
    /\ cur' = NoKey /\ kicked' = FALSE /\ hand' = NoRow /\ now' = Unset /\ ran' = Unset
    /\ fault' = FALSE /\ kicks' = <<>>
    /\ wpc' = [w \in Writers |-> "idle"]
    /\ req' = [w \in Writers |-> NoReq]
    /\ wnext' = [w \in Writers |-> Unset]
    /\ wlast' = [w \in Writers |-> Unset]
    /\ UNCHANGED <<clockVars, storeVars>>

-----------------------------------------------------------------------------
RunStep == CarrierReads \/ CarrierFails \/ CarrierAborted \/ Tombstone \/ TombstoneFails \/ ExportEnds

LedgerStep == ReadBack \/ WriteBack \/ RearmRead \/ RearmWrite \/ LedgerFails

LoopStep ==
    \/ Sweep \/ SweepFails \/ TakeKick \/ LoopReturns
    \/ \E k \in Keys : Dispatch(k)
    \/ RunStep
    \/ LedgerStep

RequestStep(w) ==
    \/ SavePayload(w) \/ ArmClears(w) \/ ArmNext(w) \/ ArmRead(w) \/ ArmPut(w)
    \/ DeleteRow(w) \/ RequestFails(w)

Request(w, k) ==
    \/ DeletePayload(w, k)
    \/ \E cron \in Exprs \cup {{}}, enabled \in BOOLEAN, explicit \in Explicits \cup {Unset} :
           Save(w, k, cron, enabled, explicit)

Next ==
    \/ LoopStep
    \/ \E w \in Writers : RequestStep(w) \/ \E k \in Keys : Request(w, k)
    \/ \E k \in Keys : Kick(k)
    \/ Tick \/ Rollback \/ Stop \/ ProcessEnds

Spec == Init /\ [][Next]_vars

\* The loop's goroutine runs; its select, which picks any ready case, does not pass over
\* the ticker for ever; statements on the ledger fail only finitely often; a stopped
\* server is started again.
FairSpec ==
    /\ Spec
    /\ WF_vars(LoopStep)
    /\ SF_vars(Sweep)
    /\ <>[]~fault
    /\ WF_vars(stopping /\ ProcessEnds)

-----------------------------------------------------------------------------
(* Properties. *)

\* Every variable has its type: one row per key, the key in hand exactly while a row is
\* dispatched, a batch only inside a sweep.
TypeOK ==
    /\ clock \in Times /\ top \in Times /\ clock <= top
    /\ rollbacks \in 0 .. MaxRollbacks
    /\ payload \in [Keys -> {"none", "on", "off"}]
    /\ rows \in [Keys -> Rows]
    /\ loop \in {"boot", "select", "due", "carrier", "tombstone", "export", "read", "write",
                 "rearm", "rearmWrite", "off"}
    /\ stopping \in BOOLEAN
    /\ restarts \in 0 .. MaxRestarts
    /\ now \in Times \cup {Unset} /\ ran \in Times \cup {Unset}
    /\ batch \in [Keys -> Rows]
    /\ loop \in {"boot", "select", "due", "off"} <=> cur = NoKey
    /\ cur \in Keys \cup {NoKey}
    /\ kicked \in BOOLEAN
    /\ hand \in Rows
    /\ fault \in BOOLEAN
    /\ loop = "due" <=> (Pending # {} /\ cur = NoKey)
    /\ kicks \in Seq(Keys) /\ Len(kicks) <= KickQueue
    /\ wpc \in [Writers -> {"idle", "payload", "arm", "armRead", "armPut", "deleteRow"}]
    /\ req \in [Writers -> Reqs]
    /\ wnext \in [Writers -> Times \cup {Unset}]
    /\ wlast \in [Writers -> Times \cup {Unset}]

\* A schedule that is enabled and still has a trigger to come is armed: no write-back,
\* re-arm or edit, however they interleave with each other, leaves it without a next run
\* (runOne, rearm and writeScheduleCron each recompute next_run on their own copy).
EnabledIsArmed ==
    \A k \in Keys :
        (rows[k].enabled /\ NextRun(rows[k].cron, top) # Unset) => rows[k].next # Unset

\* The missed-window collapse of sweep: as long as the clock only moves forward, a row the
\* scheduler armed fires for a trigger that came after its last run, so an outage of many
\* windows, or a long run, is one fire and never a series.
FireHasItsTrigger ==
    (loop = "carrier" /\ ~kicked /\ rollbacks = 0 /\ hand.by = "scheduler") =>
        \E t \in hand.cron : hand.last < t /\ t <= now

\* A due row does not stay due: it fires or is re-armed, across stops, crashes, a clock set
\* back and a stream of kicks.
DueRowIsServed == \A k \in Keys : Due(rows[k], clock) ~> ~Due(rows[k], clock)

\* scheduler.go on runOne: "a config edit that landed mid-run is never clobbered by a stale
\* snapshot".
WriteBackKeepsEdits ==
    [][WriteBack => /\ rows'[cur].cron = rows[cur].cron
                    /\ rows'[cur].enabled = rows[cur].enabled]_vars
=============================================================================
