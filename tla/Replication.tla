---------------------------- MODULE Replication -----------------------------
(***************************************************************************)
(* Push replication (internal/replication): uploads and full syncs append  *)
(* task rows, one worker drains them to the target instance with retries   *)
(* and revival, and a global brake and the enabled bit of a config stop    *)
(* it.                                                                     *)
(*                                                                         *)
(* Rows are numbered in the order of their creation.  The worker drains at *)
(* any time (the wake signal and the ticker).  Only the worker updates a   *)
(* row, so the values it listed are those of the row until the row is      *)
(* gone.                                                                   *)
(*                                                                         *)
(* Three assumptions on the target, which is another BinFlow instance: it  *)
(* answers HEAD with a digest (without one the code goes on to the PUT,    *)
(* engine.go:975-978, and replaces whatever is there); a PUT the client    *)
(* gave up is stored by then or never; nobody else writes its paths.  The  *)
(* pushes are those of the generic plane.                                  *)
(***************************************************************************)
EXTENDS Integers, FiniteSets

CONSTANTS
    Items,       \* uploads: a path with its content, each once
    Path,        \* Path[i]: the path of an item
    Configs,     \* replication configs of the source repository
    MaxTasks,    \* bound on task rows
    ScanLimit,   \* sweepScanLimit: the newest rows of a config a drain sees
    MaxAttempts, \* tries of one cycle
    ReviveCap,   \* tries of all cycles
    MaxTurns     \* bound on edits, syncs, brakes, stops, crashes and failing calls together

None == "none"

ASSUME ReplicationConstants ==
    /\ DOMAIN Path = Items
    /\ None \notin Items
    /\ MaxTasks \in Nat
    /\ ScanLimit \in Nat \ {0}
    /\ MaxAttempts \in Nat \ {0}
    /\ ReviveCap \in Nat
    /\ ReviveCap >= MaxAttempts
    /\ MaxTurns \in Nat

Ids == 1..MaxTasks
Paths == {Path[i] : i \in Items}
NoTask == 0
Statuses == {"none", "pending", "in_progress", "success", "failed", "gone"}
Pcs == {"off", "idle", "configs", "tasks", "top", "claim", "head", "put", "props",
        "done", "refused", "failed", "cut", "sleep"}

VARIABLES
    cfg,      \* replications: each config on, off or gone
    made,     \* rows created so far
    what,     \* the item and the config of each row
    status,   \* replication_tasks.status
    attempts, \* replication_tasks.attempts
    marked,   \* failed rows whose last_error carries the not-retryable marker
    aged,     \* failed rows whose completed_at is older than the revive delay
    brake,    \* the block gate's snapshot
    brakeRow, \* replication_globals.block_push
    uploaded, \* items in the source repository
    feed,     \* rows that Enqueue and TriggerFullSync are about to create
    pc,       \* the worker
    todo,     \* configs of the drain it has not listed
    list,     \* runnable rows of the config in hand
    cur,      \* the row in hand
    base,     \* its attempts as it was listed
    att,      \* its attempts as last claimed
    phase,    \* the process: up, stopping, down
    turns,    \* bounded events so far
    faults,   \* history: a write of a row failed
    target,   \* the item each target holds at a path
    arrived,  \* history: rows whose push the target confirmed
    late,     \* history: claims since the brake was put on
    mine,     \* history: rows this process claimed
    halted    \* history: the process was ended or the brake put on

rowVars == <<made, what, status, attempts, marked, aged>>
gateVars == <<brake, brakeRow>>
feedVars == <<uploaded, feed>>
loopVars == <<todo, list>>
handVars == <<cur, base, att>>
histVars == <<arrived, late, mine, halted>>
vars == <<cfg, rowVars, gateVars, feedVars, pc, loopVars, handVars, phase, turns, faults, target,
          histVars>>

Init ==
    /\ cfg = [c \in Configs |-> "on"]
    /\ made = 0
    /\ what = [t \in Ids |-> <<>>]
    /\ status = [t \in Ids |-> "none"]
    /\ attempts = [t \in Ids |-> 0]
    /\ marked = {}
    /\ aged = {}
    /\ brake = FALSE
    /\ brakeRow = FALSE
    /\ uploaded = {}
    /\ feed = {}
    /\ pc = "configs"
    /\ todo = Configs
    /\ list = {}
    /\ cur = NoTask
    /\ base = 0
    /\ att = 0
    /\ phase = "up"
    /\ turns = 0
    /\ faults = 0
    /\ target = [c \in Configs |-> [p \in Paths |-> None]]
    /\ arrived = {}
    /\ late = 0
    /\ mine = {}
    /\ halted = FALSE

Turn ==
    /\ turns < MaxTurns
    /\ turns' = turns + 1

CfgOf(t) == what[t][2]
ItemOf(t) == what[t][1]

-----------------------------------------------------------------------------
(* Configs and the brake: the REST face. *)

UpdateConfig(c) ==
    /\ phase # "down"
    /\ cfg[c] \in {"on", "off"}
    /\ Turn
    /\ cfg' = [cfg EXCEPT ![c] = IF @ = "on" THEN "off" ELSE "on"]
    /\ UNCHANGED <<rowVars, gateVars, feedVars, pc, loopVars, handVars, phase, faults, target, histVars>>

\* The rows go with the config.
DeleteConfig(c) ==
    /\ phase # "down"
    /\ cfg[c] \in {"on", "off"}
    /\ Turn
    /\ cfg' = [cfg EXCEPT ![c] = "gone"]
    /\ status' = [t \in Ids |-> IF t <= made /\ CfgOf(t) = c THEN "gone" ELSE status[t]]
    /\ UNCHANGED <<made, what, attempts, marked, aged, gateVars, feedVars, pc, loopVars, handVars,
                   phase, faults, target, histVars>>

\* BlockGate.Update writes the row first,
BlockPersist ==
    /\ phase # "down"
    /\ brake = brakeRow
    /\ Turn
    /\ brakeRow' = ~brakeRow
    /\ UNCHANGED <<cfg, rowVars, brake, feedVars, pc, loopVars, handVars, phase, faults, target,
                   histVars>>

\* then swaps the snapshot and wakes the worker.
BlockSwap ==
    /\ phase # "down"
    /\ brake # brakeRow
    /\ brake' = brakeRow
    /\ late' = 0
    /\ halted' = (halted \/ brakeRow)
    /\ UNCHANGED <<cfg, rowVars, brakeRow, feedVars, pc, loopVars, handVars, phase, turns, faults,
                   target, arrived, mine>>

-----------------------------------------------------------------------------
(* Rows are appended: Enqueue and TriggerFullSync. *)

\* The tail of an upload lists the configs, unless the brake is on.
Enqueue(i) ==
    /\ phase = "up"
    /\ i \notin uploaded
    /\ uploaded' = uploaded \cup {i}
    /\ feed' = IF brake THEN feed ELSE feed \cup {<<i, c, "event">> : c \in {d \in Configs : cfg[d] = "on"}}
    /\ UNCHANGED <<cfg, rowVars, gateVars, pc, loopVars, handVars, phase, turns, faults, target,
                   histVars>>

\* Refused for a disabled config and under the brake.
TriggerFullSync(c) ==
    /\ phase = "up"
    /\ cfg[c] = "on"
    /\ ~brake
    /\ Turn
    /\ feed' = feed \cup {<<i, c, "sync">> : i \in uploaded}
    /\ UNCHANGED <<cfg, rowVars, gateVars, uploaded, pc, loopVars, handVars, phase, faults, target,
                   histVars>>

CreateTask(f) ==
    /\ phase # "down"
    /\ f \in feed
    /\ cfg[f[2]] # "gone"
    /\ made < MaxTasks
    /\ feed' = feed \ {f}
    /\ made' = made + 1
    /\ what' = [what EXCEPT ![made + 1] = <<f[1], f[2]>>]
    /\ status' = [status EXCEPT ![made + 1] = "pending"]
    /\ UNCHANGED <<cfg, attempts, marked, aged, gateVars, uploaded, pc, loopVars, handVars, phase,
                   turns, faults, target, histVars>>

\* The config is gone or the insert fails: Enqueue goes on with the next config, a full sync
\* gives up.
CreateTaskFails(f) ==
    /\ f \in feed
    /\ \/ cfg[f[2]] = "gone" /\ UNCHANGED turns
       \/ cfg[f[2]] # "gone" /\ Turn
    /\ feed' = IF f[3] = "sync" THEN {g \in feed : g[2] # f[2] \/ g[3] # "sync"} ELSE feed \ {f}
    /\ UNCHANGED <<cfg, rowVars, gateVars, uploaded, pc, loopVars, handVars, phase, faults, target,
                   histVars>>

-----------------------------------------------------------------------------
(* The worker: drain. *)

NothingInHand ==
    /\ cur' = NoTask
    /\ base' = 0
    /\ att' = 0

DrainStart ==
    /\ pc = "idle"
    /\ phase = "up"
    /\ pc' = "configs"
    /\ UNCHANGED <<cfg, rowVars, gateVars, feedVars, loopVars, handVars, phase, turns, faults, target,
                   histVars>>

\* The brake is asked once, then ListConfigs; a drain whose listing fails is over.
ListConfigs ==
    /\ pc = "configs"
    /\ \/ /\ ~brake
          /\ pc' = "tasks" /\ todo' = {c \in Configs : cfg[c] = "on"}
          /\ UNCHANGED turns
       \/ /\ IF brake THEN UNCHANGED turns ELSE Turn
          /\ pc' = "idle" /\ todo' = {}
    /\ list' = {}
    /\ UNCHANGED <<cfg, rowVars, gateVars, feedVars, handVars, phase, faults, target, histVars>>

\* The rows of a config that ListTasks returns: the newest ones.
Window(c) ==
    LET rows == {t \in 1..made : CfgOf(t) = c /\ status[t] # "gone"}
    IN  {t \in rows : Cardinality({u \in rows : u > t}) < ScanLimit}

Revivable(t) ==
    /\ attempts[t] < ReviveCap
    /\ t \notin marked
    /\ t \in aged

\* Slip: a row left in_progress is taken for one that is being worked on.
RunnableAtRest(t) ==
    \/ status[t] = "pending"
    \/ status[t] = "failed" /\ (attempts[t] < MaxAttempts \/ Revivable(t))

Runnable(t) ==
    \/ status[t] \in {"pending", "in_progress"}
    \/ status[t] = "failed" /\ (attempts[t] < MaxAttempts \/ Revivable(t))

\* A config whose listing fails is left to the next drain.
ListTasks ==
    /\ pc = "tasks"
    /\ list = {}
    /\ phase = "up"
    /\ \E c \in todo :
        /\ todo' = todo \ {c}
        /\ \/ list' = {t \in Window(c) : Runnable(t)} /\ UNCHANGED turns
           \/ list' = {} /\ Turn
    /\ UNCHANGED <<cfg, rowVars, gateVars, feedVars, pc, handVars, phase, faults, target, histVars>>

DrainEnds ==
    /\ pc = "tasks"
    /\ (list = {} /\ todo = {}) \/ phase = "stopping"
    /\ pc' = "idle"
    /\ todo' = {}
    /\ list' = {}
    /\ UNCHANGED <<cfg, rowVars, gateVars, feedVars, handVars, phase, turns, faults, target, histVars>>

\* Oldest first.
ProcessTask ==
    /\ pc = "tasks"
    /\ phase = "up"
    /\ \E t \in list :
        /\ \A u \in list : t <= u
        /\ cur' = t
        /\ base' = attempts[t]
        /\ att' = attempts[t]
        /\ list' = list \ {t}
    /\ pc' = "top"
    /\ UNCHANGED <<cfg, rowVars, gateVars, feedVars, todo, phase, turns, faults, target, histVars>>

-----------------------------------------------------------------------------
(* The worker: processTask. *)

\* Slip: an upsert, which brings a row back.
WritesUpsert(st, n) ==
    /\ status' = [status EXCEPT ![cur] = st]
    /\ attempts' = [attempts EXCEPT ![cur] = n]
    /\ UNCHANGED <<made, what>>

\* UpdateTask on a detached context; a row that is gone is not found.
Writes(st, n) ==
    /\ status' = [status EXCEPT ![cur] = IF @ = "gone" THEN @ ELSE st]
    /\ attempts' = [attempts EXCEPT ![cur] = IF status[cur] = "gone" THEN @ ELSE n]
    /\ UNCHANGED <<made, what>>

Back == pc' = "tasks" /\ NothingInHand

\* revertTask
Revert(n) ==
    /\ Writes("pending", n)
    /\ marked' = marked \ {cur}
    /\ aged' = aged \ {cur}
    /\ Back

\* A shutdown reverts the row as it was listed, the brake as it was last claimed.
TopReverts ==
    /\ pc = "top"
    /\ phase = "stopping" \/ brake
    /\ Revert(IF phase = "stopping" THEN base ELSE att)
    /\ UNCHANGED <<cfg, gateVars, feedVars, loopVars, phase, turns, faults, target, histVars>>

\* Slip: the brake is asked before the first attempt only.
TopProceedsOnce ==
    /\ pc = "top"
    /\ phase # "stopping"
    /\ brake => att > base
    /\ pc' = "claim"
    /\ UNCHANGED <<cfg, rowVars, gateVars, feedVars, loopVars, handVars, phase, turns, faults, target,
                   histVars>>

TopProceeds ==
    /\ pc = "top"
    /\ phase # "stopping"
    /\ ~brake
    /\ pc' = "claim"
    /\ UNCHANGED <<cfg, rowVars, gateVars, feedVars, loopVars, handVars, phase, turns, faults, target,
                   histVars>>

\* The claim is written; a row that is gone ends the task.
Claim ==
    /\ pc = "claim"
    /\ Writes("in_progress", att + 1)
    /\ marked' = marked \ {cur}
    /\ aged' = aged \ {cur}
    /\ IF status[cur] = "gone"
       THEN Back /\ UNCHANGED <<late, mine>>
       ELSE /\ pc' = "head"
            /\ att' = att + 1
            /\ late' = IF brake THEN late + 1 ELSE late
            /\ mine' = mine \cup {cur}
            /\ UNCHANGED <<cur, base>>
    /\ UNCHANGED <<cfg, gateVars, feedVars, loopVars, phase, turns, faults, target, arrived, halted>>

Goes(to) ==
    /\ pc' = to
    /\ UNCHANGED <<cfg, rowVars, gateVars, feedVars, loopVars, handVars, phase, faults, histVars>>

Held == target[CfgOf(cur)][Path[ItemOf(cur)]]

\* Slip: another content at the path does not stop the transfer.
PushHeadOverwrites ==
    /\ pc = "head"
    /\ Goes(IF Held = ItemOf(cur) THEN "props" ELSE "put")
    /\ UNCHANGED <<turns, target>>

\* HEAD: the same content needs no transfer, another is a conflict.
PushHead ==
    /\ pc = "head"
    /\ CASE Held = ItemOf(cur) -> Goes("props")
         [] Held = None -> Goes("put")
         [] OTHER -> Goes("refused")
    /\ UNCHANGED <<turns, target>>

Stores == target' = [target EXCEPT ![CfgOf(cur)][Path[ItemOf(cur)]] = ItemOf(cur)]

\* PUT, confirmed.
PushPut ==
    /\ pc = "put"
    /\ Stores
    /\ Goes("props")
    /\ UNCHANGED turns

\* A request fails: a deterministic refusal, an answer worth a retry, or no answer (a
\* shutdown, or a timeout, which satisfies errors.Is(err, context.DeadlineExceeded) too).
\* A PUT whose answer is lost may have stored its bytes.
PushFails ==
    /\ pc \in {"head", "put", "props"}
    /\ \E to \in {"refused", "failed", "cut"} :
        /\ IF to = "cut" /\ phase = "stopping" THEN UNCHANGED turns ELSE Turn
        /\ \/ pc = "put" /\ to # "refused" /\ Stores
           \/ UNCHANGED target
        /\ Goes(to)

\* The property carry ends the push.
PushProps ==
    /\ pc = "props"
    /\ pc' = "done"
    /\ arrived' = arrived \cup {cur}
    /\ UNCHANGED <<cfg, rowVars, gateVars, feedVars, loopVars, handVars, phase, turns, faults, target,
                   late, mine, halted>>

Success ==
    /\ pc = "done"
    /\ Writes("success", att)
    /\ Back
    /\ UNCHANGED <<cfg, marked, aged, gateVars, feedVars, loopVars, phase, turns, faults, target,
                   histVars>>

\* Slip: no tries left, spelt as minus one.
RefusedNegative ==
    /\ pc = "refused"
    /\ Writes("failed", -1)
    /\ marked' = marked \cup {cur}
    /\ Back
    /\ UNCHANGED <<cfg, aged, gateVars, feedVars, loopVars, phase, turns, faults, target, histVars>>

\* ErrNotRetryable: recorded as tried to the end.
Refused ==
    /\ pc = "refused"
    /\ Writes("failed", MaxAttempts)
    /\ marked' = marked \cup {cur}
    /\ Back
    /\ UNCHANGED <<cfg, aged, gateVars, feedVars, loopVars, phase, turns, faults, target, histVars>>

\* The cycle is used up.
Exhausted ==
    /\ pc = "failed"
    /\ att >= MaxAttempts
    /\ Writes("failed", att)
    /\ Back
    /\ UNCHANGED <<cfg, marked, aged, gateVars, feedVars, loopVars, phase, turns, faults, target,
                   histVars>>

\* The backoff, which a shutdown interrupts.
Sleep ==
    /\ pc = "failed"
    /\ att < MaxAttempts
    /\ Goes("top") \/ (phase = "stopping" /\ Goes("cut"))
    /\ UNCHANGED <<turns, target>>

\* context.Canceled and context.DeadlineExceeded revert the claim.
Cut ==
    /\ pc = "cut"
    /\ Revert(att)
    /\ UNCHANGED <<cfg, gateVars, feedVars, loopVars, phase, turns, faults, target, histVars>>

\* A write of the row fails: what it held stays until a later drain.
WriteFails ==
    /\ \/ pc \in {"claim", "done", "refused", "cut"}
       \/ pc = "failed" /\ att >= MaxAttempts
       \/ pc = "top" /\ (phase = "stopping" \/ brake)
    /\ Turn
    /\ faults' = faults + 1
    /\ Back
    /\ UNCHANGED <<cfg, rowVars, gateVars, feedVars, loopVars, phase, target, histVars>>

-----------------------------------------------------------------------------
(* Time and the process. *)

\* The revive delay passes.
Ages(t) ==
    /\ status[t] = "failed"
    /\ t \notin aged
    /\ aged' = aged \cup {t}
    /\ UNCHANGED <<cfg, made, what, status, attempts, marked, gateVars, feedVars, pc, loopVars,
                   handVars, phase, turns, faults, target, histVars>>

Stop ==
    /\ phase = "up"
    /\ Turn
    /\ phase' = "stopping"
    /\ halted' = TRUE
    /\ UNCHANGED <<cfg, rowVars, gateVars, feedVars, pc, loopVars, handVars, faults, target, arrived,
                   late, mine>>

RunReturns ==
    /\ phase = "stopping"
    /\ pc = "idle"
    /\ pc' = "off"
    /\ UNCHANGED <<cfg, rowVars, gateVars, feedVars, loopVars, handVars, phase, turns, faults, target,
                   histVars>>

ProcessEnds ==
    /\ \/ phase = "stopping" /\ pc = "off" /\ UNCHANGED turns
       \/ phase # "down" /\ pc # "off" /\ Turn
    /\ phase' = "down"
    /\ pc' = "off"
    /\ todo' = {}
    /\ list' = {}
    /\ NothingInHand
    /\ feed' = {}
    /\ halted' = TRUE
    /\ UNCHANGED <<cfg, rowVars, gateVars, uploaded, faults, target, arrived, late, mine>>

\* The gate loads its row and Run starts with a drain.
Boot ==
    /\ phase = "down"
    /\ phase' = "up"
    /\ pc' = "configs"
    /\ brake' = brakeRow
    /\ late' = 0
    /\ mine' = {}
    /\ UNCHANGED <<cfg, rowVars, brakeRow, feedVars, loopVars, handVars, turns, faults, target,
                   arrived, halted>>

-----------------------------------------------------------------------------
Drain == DrainStart \/ ListConfigs \/ ListTasks \/ DrainEnds \/ ProcessTask

Push ==
    \/ TopReverts \/ TopProceeds \/ Claim
    \/ PushHead \/ PushPut \/ PushFails \/ PushProps
    \/ Success \/ Refused \/ Exhausted \/ Sleep \/ Cut \/ WriteFails

Worker == Drain \/ Push \/ RunReturns

Create == \E f \in feed : CreateTask(f) \/ CreateTaskFails(f)

Next ==
    \/ \E c \in Configs : UpdateConfig(c) \/ DeleteConfig(c) \/ TriggerFullSync(c)
    \/ BlockPersist \/ BlockSwap
    \/ \E i \in Items : Enqueue(i)
    \/ Create
    \/ Worker
    \/ \E t \in Ids : Ages(t)
    \/ Stop \/ ProcessEnds \/ Boot

Spec == Init /\ [][Next]_vars

\* The worker runs, its ticker ticks, time passes, and a process that ended is started again.
FairSpec ==
    /\ Spec
    /\ WF_vars(Worker)
    /\ \A t \in Ids : WF_vars(Ages(t))
    /\ WF_vars(BlockSwap)
    /\ WF_vars(phase = "stopping" /\ ProcessEnds)
    /\ WF_vars(Boot)

-----------------------------------------------------------------------------
(* Properties. *)

\* Every variable has its type (ReplicationTask, ReplicationConfig, GlobalBlock).
TypeOK ==
    /\ cfg \in [Configs -> {"on", "off", "gone"}]
    /\ made \in 0..MaxTasks
    /\ what \in [Ids -> (Items \X Configs) \cup {<<>>}]
    /\ status \in [Ids -> Statuses]
    /\ attempts \in [Ids -> Nat]
    /\ marked \subseteq Ids
    /\ aged \subseteq Ids
    /\ brake \in BOOLEAN
    /\ brakeRow \in BOOLEAN
    /\ uploaded \subseteq Items
    /\ feed \subseteq Items \X Configs \X {"event", "sync"}
    /\ pc \in Pcs
    /\ todo \subseteq Configs
    /\ list \subseteq Ids
    /\ cur \in Ids \cup {NoTask}
    /\ base \in Nat
    /\ att \in Nat
    /\ phase \in {"up", "stopping", "down"}
    /\ turns \in Nat
    /\ faults \in Nat
    /\ target \in [Configs -> [Paths -> Items \cup {None}]]
    /\ arrived \subseteq Ids
    /\ late \in Nat
    /\ mine \subseteq Ids
    /\ halted \in BOOLEAN

\* A row that says success tells the truth for good: the target holds its content at its path,
\* and no later push of another content has replaced it (pushGeneric: "target left untouched").
SuccessIsOnTarget ==
    \A t \in 1..made :
        status[t] = "success" => target[CfgOf(t)][Path[ItemOf(t)]] = ItemOf(t)

\* "a brake that landed while this task was cycling stops the NEXT attempt": after the brake
\* at most the claim whose check had passed is written.  And Run on a cancelled context: "the
\* in-flight attempt ... is reverted to pending (nothing stays in_progress)", for the rows this
\* process claimed, unless a write failed.
HaltIsObeyed ==
    /\ brake => late <= 1
    /\ (phase = "stopping" /\ pc = "off" /\ faults = 0) =>
           \A t \in mine : status[t] # "in_progress"

\* A row whose config stays enabled, with the brake off for good, is delivered, refused for a
\* reason no retry can change, or removed; however many tries, restarts and lost answers it takes.
\* This is for a window that holds every row of the config: with more rows than sweepScanLimit it
\* fails, since settled rows keep their place in the listing (MCReplicationWindow).
EventuallyReplicated ==
    \A t \in Ids :
        (<>[](~brake /\ (t <= made => cfg[CfgOf(t)] # "off"))) =>
            [](t <= made => <>(status[t] \in {"success", "gone"} \/ t \in marked))

\* A row as an entry of the queue.
Box == [t \in Ids |-> CASE status[t] \in {"pending", "in_progress"} -> "queued"
                        [] status[t] = "success" -> "done"
                        [] status[t] = "failed" -> "dead"
                        [] OTHER -> status[t]]

\* The ledger as a durable queue: a row is done only after the target confirmed it, and only a
\* failed row is taken up again.
Queue == INSTANCE Outbox WITH Ids <- Ids, box <- Box, reached <- arrived

ImplementsOutbox == Queue!Spec

\* processTask "drives one task to a terminal state ... backing off between attempts"; only a
\* shutdown or the brake puts a tried row back to pending.
TriedRowsAreCycled ==
    \A t \in 1..made :
        (status[t] = "pending" /\ attempts[t] > 0) => halted
=============================================================================
