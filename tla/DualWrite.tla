------------------------------ MODULE DualWrite -----------------------------
(***************************************************************************)
(* The dual-write migration engine and its fail-open layer                 *)
(* (internal/storage/migration.go and failopen.go): uploads that go to     *)
(* disk and to S3, the failure window, the durable replay queue, the drain *)
(* worker with its reconciliation, the background migration, and GC on     *)
(* both backends.                                                          *)
(*                                                                         *)
(* Every call of S3, every write of the queue directory and every section  *)
(* under a lock is a step of its own.  A pass of GC over one backend is    *)
(* one step (BlobGC models its gates), and so is an Append (TeeAppend      *)
(* models it).  The worker's and the migration's goroutines are as many    *)
(* as there are blobs to copy.  Close waits for nothing that runs here, so *)
(* it is a crash.                                                          *)
(***************************************************************************)
EXTENDS Integers, FiniteSets

CONSTANTS
    Shas,     \* blobs
    Slots,    \* requests at once
    Rounds,   \* replayReconcileMaxRounds
    MaxAsks,  \* bound on uploads and checksum deploys
    MaxTurns  \* bound on failures, crashes, GC passes, deletes, scans and reads that fail, together

ASSUME DualWriteConstants ==
    /\ IsFiniteSet(Shas) /\ Shas # {}
    /\ {Rounds, MaxAsks, MaxTurns} \subseteq Nat

VARIABLES
    disk,    \* blobs on disk
    s3,      \* blobs on S3
    refs,    \* blobs a node row references
    s3Hold,  \* the S3 engine's holds, counted per blob
    window,  \* fo.windowOpen
    index,   \* replayQueue.index
    files,   \* the entries of the queue directory
    req,     \* the requests
    worker,  \* the drain worker; its pc is "off" exactly when fo.workerRun is false
    job,     \* per copier and blob: where its copyBlob is
    scan,    \* the background migration
    gc,      \* GCSweep between its two backends
    asks, turns,
    acked,   \* history: blobs whose upload was acknowledged and not reclaimed since
    excused  \* history: blobs whose debt nobody has to record

storeVars == <<disk, s3, refs, s3Hold>>
queueVars == <<index, files>>
copyVars == <<worker, job, scan>>
restVars == <<gc, asks, turns>>
histVars == <<acked, excused>>
vars == <<storeVars, window, queueVars, req, copyVars, restVars, histVars>>

Copiers == {"drain", "scan"}
ReqPcs == {"idle", "begin", "append", "commit", "arm", "owe", "file", "index", "start", "link",
           "linked", "stat", "deploy"}
Steps == {"none", "head", "disk", "write", "settle", "drop", "gone", "unfile"}

\* A request: its blob, and whether it still has its S3 arm; a resumed session never had one.
NoReq == [pc |-> "idle", sha |-> CHOOSE s \in Shas : TRUE, arm |-> FALSE, resumed |-> FALSE]
\* The worker: what its reconciliation listed or has to queue, the blob it queues, and the rounds.
NoWorker == [pc |-> "off", miss |-> {}, at |-> CHOOSE s \in Shas : TRUE, rounds |-> 0]
NoJobs == [s \in Shas |-> "none"]

Init ==
    /\ disk \in SUBSET Shas
    /\ s3 = {}
    /\ refs = disk
    /\ s3Hold = [s \in Shas |-> 0]
    /\ window = FALSE
    /\ index = {} /\ files = {}
    /\ req = [c \in Slots |-> NoReq]
    /\ worker = NoWorker
    /\ job = [k \in Copiers |-> NoJobs]
    /\ scan = [pc |-> "off", listed |-> {}]
    /\ gc = "off"
    /\ asks = 0 /\ turns = 0
    /\ acked = {} /\ excused = {}

Turn == turns < MaxTurns /\ turns' = turns + 1
Goes(c, pc) == req' = [req EXCEPT ![c].pc = pc]

\* A call of S3 answers, or it fails; a commit that fails may have stored the blob, without a
\* hold.
Answers == UNCHANGED turns
Fails == Turn
MayStore(s) == s3' \in {s3, s3 \cup {s}}

\* ensureReplayWorker
EnsureWorker ==
    worker' = IF worker.pc = "off" THEN [NoWorker EXCEPT !.pc = "top"] ELSE worker

-----------------------------------------------------------------------------
(* Uploads: BeginSession, Append, Commit of migrationSession, and the service's reference. *)

Ask == asks < MaxAsks /\ asks' = asks + 1

\* The disk session begins; ResumeSession gives a session of the disk engine alone.
Begin(c, s) ==
    /\ req[c].pc = "idle"
    /\ Ask
    /\ \E resumed \in BOOLEAN :
        req' = [req EXCEPT ![c] = [pc |-> IF resumed THEN "append" ELSE "begin", sha |-> s,
                                   arm |-> FALSE, resumed |-> resumed]]
    /\ UNCHANGED <<storeVars, window, queueVars, copyVars, gc, turns, histVars>>

\* The fast path of an open window, or the arm begins, or it fails and opens the window.
BeginArm(c) ==
    /\ req[c].pc = "begin"
    /\ \/ /\ window
          /\ Goes(c, "append")
          /\ UNCHANGED <<window, turns>>
       \/ /\ ~window
          /\ Answers
          /\ req' = [req EXCEPT ![c].pc = "append", ![c].arm = TRUE]
          /\ UNCHANGED window
       \/ /\ ~window
          /\ Fails
          /\ window' = TRUE
          /\ Goes(c, "append")
    /\ UNCHANGED <<storeVars, queueVars, copyVars, gc, asks, histVars>>

\* An arm that fails during the append is detached.
AppendBody(c) ==
    /\ req[c].pc = "append"
    /\ \/ Goes(c, "commit") /\ UNCHANGED <<window, turns>>
       \/ /\ req[c].arm
          /\ Fails
          /\ window' = TRUE
          /\ req' = [req EXCEPT ![c].pc = "commit", ![c].arm = FALSE]
    /\ UNCHANGED <<storeVars, queueVars, copyVars, gc, asks, histVars>>

\* The disk arm is the floor: its failure ends the upload.
DiskFails(c) ==
    /\ req[c].pc \in {"append", "commit"}
    /\ Turn
    /\ Goes(c, "idle")
    /\ UNCHANGED <<storeVars, window, queueVars, copyVars, gc, asks, histVars>>

DiskCommit(c) ==
    /\ req[c].pc = "commit"
    /\ disk' = disk \cup {req[c].sha}
    /\ Goes(c, CASE req[c].arm -> "arm" [] req[c].resumed -> "link" [] OTHER -> "owe")
    /\ acked' = IF req[c].resumed THEN acked \cup {req[c].sha} ELSE acked
    /\ excused' = IF req[c].resumed THEN excused \cup {req[c].sha} ELSE excused
    /\ UNCHANGED <<s3, refs, s3Hold, window, queueVars, copyVars, restVars>>

\* Slip: the disk blob is rolled back, as it was before ADR-0040.
ArmCommitRollsBack(c) ==
    /\ req[c].pc = "arm"
    /\ \/ /\ Answers
          /\ s3' = s3 \cup {req[c].sha}
          /\ s3Hold' = [s3Hold EXCEPT ![req[c].sha] = @ + 1]
          /\ acked' = acked \cup {req[c].sha}
          /\ Goes(c, "link")
          /\ UNCHANGED <<window, disk>>
       \/ /\ Fails
          /\ window' = TRUE
          /\ disk' = disk \ {req[c].sha}
          /\ MayStore(req[c].sha)
          /\ Goes(c, "idle")
          /\ UNCHANGED <<s3Hold, acked>>
    /\ UNCHANGED <<refs, queueVars, copyVars, gc, asks, excused>>

\* A failed commit of the arm opens the window and leaves a debt; the disk blob stays.
ArmCommit(c) ==
    /\ req[c].pc = "arm"
    /\ \/ /\ Answers
          /\ s3' = s3 \cup {req[c].sha}
          /\ s3Hold' = [s3Hold EXCEPT ![req[c].sha] = @ + 1]
          /\ acked' = acked \cup {req[c].sha}
          /\ Goes(c, "link")
          /\ UNCHANGED window
       \/ /\ Fails
          /\ window' = TRUE
          /\ MayStore(req[c].sha)
          /\ Goes(c, "owe")
          /\ UNCHANGED <<s3Hold, acked>>
    /\ UNCHANGED <<disk, refs, queueVars, copyVars, gc, asks, excused>>

\* replayQueue.enqueue: a queued blob is left alone.
Owe(c) ==
    /\ req[c].pc = "owe"
    /\ Goes(c, IF req[c].sha \in index THEN "start" ELSE "file")
    /\ UNCHANGED <<storeVars, window, queueVars, copyVars, restVars, histVars>>

\* The entry is published by its rename, or a step of it fails, the last one after the rename,
\* and only the log knows.
OweFile(c) ==
    /\ req[c].pc = "file"
    /\ \/ /\ files' = files \cup {req[c].sha}
          /\ Goes(c, "index")
          /\ UNCHANGED <<turns, histVars>>
       \/ /\ Turn
          /\ files' \in {files, files \cup {req[c].sha}}
          /\ Goes(c, "link")
          /\ acked' = acked \cup {req[c].sha}
          /\ excused' = excused \cup {req[c].sha}
    /\ UNCHANGED <<storeVars, window, index, copyVars, gc, asks>>

OweIndex(c) ==
    /\ req[c].pc = "index"
    /\ index' = index \cup {req[c].sha}
    /\ Goes(c, "start")
    /\ UNCHANGED <<storeVars, window, files, copyVars, restVars, histVars>>

OweStart(c) ==
    /\ req[c].pc = "start"
    /\ EnsureWorker
    /\ acked' = acked \cup {req[c].sha}
    /\ Goes(c, "link")
    /\ UNCHANGED <<storeVars, window, queueVars, job, scan, restVars, excused>>

\* The service writes the node row, or fails to and returns without releasing the hold.
Link(c) ==
    /\ req[c].pc \in {"link", "deploy"}
    /\ \/ /\ refs' = refs \cup {req[c].sha}
          /\ Goes(c, IF req[c].pc = "link" THEN "linked" ELSE "idle")
          /\ UNCHANGED turns
       \/ Turn /\ Goes(c, "idle") /\ UNCHANGED refs
    /\ UNCHANGED <<disk, s3, s3Hold, window, queueVars, copyVars, gc, asks, histVars>>

\* ReleaseGCHold reaches both engines, whether or not the upload had an arm.
ReleaseGCHold(c) ==
    /\ req[c].pc = "linked"
    /\ s3Hold' = [s3Hold EXCEPT ![req[c].sha] = IF @ = 0 THEN 0 ELSE @ - 1]
    /\ Goes(c, "idle")
    /\ UNCHANGED <<disk, s3, refs, window, queueVars, copyVars, restVars, histVars>>

-----------------------------------------------------------------------------
(* Reads. *)

\* A checksum deploy looks the blob up (Stat, Open): S3 first, disk in the window, on a miss and
\* on an error.  What it finds it references later, without a hold.
Deploy(c, s) ==
    /\ req[c].pc = "idle"
    /\ Ask
    /\ req' = [req EXCEPT ![c] = [NoReq EXCEPT !.pc = "stat", !.sha = s]]
    /\ UNCHANGED <<storeVars, window, queueVars, copyVars, gc, turns, histVars>>

DeployStat(c) ==
    /\ req[c].pc = "stat"
    /\ \/ /\ ~window
          /\ Answers
          /\ Goes(c, IF req[c].sha \in s3 \cup disk THEN "deploy" ELSE "idle")
          /\ UNCHANGED window
       \/ /\ IF window THEN UNCHANGED turns ELSE Fails
          /\ window' = TRUE
          /\ Goes(c, IF req[c].sha \in disk THEN "deploy" ELSE "idle")
    /\ UNCHANGED <<storeVars, queueVars, copyVars, gc, asks, histVars>>

\* A read whose S3 call fails opens the window.
OpenFails ==
    /\ ~window
    /\ Fails
    /\ window' = TRUE
    /\ UNCHANGED <<storeVars, queueVars, req, copyVars, gc, asks, histVars>>

-----------------------------------------------------------------------------
(* copyBlob, for the drain and for the background migration. *)

At(k, s, step) == job' = [job EXCEPT ![k][s] = step]

\* A copy that ended: the drain settles its entry, the migration only counts.
Copied(k, s) == At(k, s, IF k = "drain" THEN "settle" ELSE "none")

\* Slip: the entry goes to a dead letter.
CopyFailsEvicts(k, s) ==
    /\ job[k][s] \in {"head", "disk", "write"}
    /\ Fails
    /\ IF job[k][s] = "write" THEN MayStore(s) ELSE UNCHANGED s3
    /\ At(k, s, IF k = "drain" THEN "drop" ELSE "none")
    /\ window' = (window \/ k = "drain")
    /\ UNCHANGED <<disk, refs, s3Hold, queueVars, req, worker, scan, gc, asks, histVars>>

\* A copy that failed: the drain opens the window and keeps the entry.
CopyFails(k, s) ==
    /\ job[k][s] \in {"head", "disk", "write"}
    /\ Fails
    /\ IF job[k][s] = "write" THEN MayStore(s) ELSE UNCHANGED s3
    /\ At(k, s, "none")
    /\ window' = (window \/ k = "drain")
    /\ UNCHANGED <<disk, refs, s3Hold, queueVars, req, worker, scan, gc, asks, histVars>>

\* What S3 has is not copied.
CopyHead(k, s) ==
    /\ job[k][s] = "head"
    /\ IF s \in s3 THEN Copied(k, s) ELSE At(k, s, "disk")
    /\ UNCHANGED <<storeVars, window, queueVars, req, worker, scan, restVars, histVars>>

\* A blob that GC took from the disk is dropped from the queue.
CopyOpen(k, s) ==
    /\ job[k][s] = "disk"
    /\ At(k, s, CASE s \in disk -> "write" [] k = "drain" -> "gone" [] OTHER -> "none")
    /\ UNCHANGED <<storeVars, window, queueVars, req, worker, scan, restVars, histVars>>

\* The session on S3; its hold is nobody's to release.
CopyWrite(k, s) ==
    /\ job[k][s] = "write"
    /\ s3' = s3 \cup {s}
    /\ s3Hold' = [s3Hold EXCEPT ![s] = @ + 1]
    /\ Copied(k, s)
    /\ UNCHANGED <<disk, refs, window, queueVars, req, worker, scan, restVars, histVars>>

\* The first success closes the window; then the entry leaves the index, then the directory.
Settle(s) ==
    /\ job["drain"][s] = "settle"
    /\ window' = FALSE
    /\ At("drain", s, "drop")
    /\ UNCHANGED <<storeVars, queueVars, req, worker, scan, restVars, histVars>>

Drop(s) ==
    /\ job["drain"][s] \in {"drop", "gone"}
    /\ index' = index \ {s}
    /\ At("drain", s, "unfile")
    /\ excused' = IF job["drain"][s] = "gone" THEN excused \cup {s} ELSE excused
    /\ UNCHANGED <<storeVars, window, files, req, worker, scan, restVars, acked>>

\* The entries of s that enqueue has published since Drop.
Republished(s) == s \in index \/ \E c \in Slots : req[c].pc = "index" /\ req[c].sha = s

\* os.Remove takes the file by its name, a republished one too.
Unfile(s) ==
    /\ job["drain"][s] = "unfile"
    /\ files' = files \ {s}
    /\ At("drain", s, "none")
    /\ excused' = IF Republished(s) THEN excused \cup {s} ELSE excused
    /\ UNCHANGED <<storeVars, window, index, req, worker, scan, restVars, acked>>

Copy(k, s) == CopyHead(k, s) \/ CopyOpen(k, s) \/ CopyWrite(k, s) \/ CopyFails(k, s)

-----------------------------------------------------------------------------
(* replayWorker. *)

\* A snapshot of the queue starts a pass; an empty queue is reconciled.
DrainTop ==
    /\ worker.pc = "top"
    /\ IF index = {}
       THEN worker' = [worker EXCEPT !.pc = "list"] /\ UNCHANGED job
       ELSE /\ worker' = [worker EXCEPT !.pc = "pass"]
            /\ job' = [job EXCEPT !["drain"] = [s \in Shas |-> IF s \in index THEN "head" ELSE "none"]]
    /\ UNCHANGED <<storeVars, window, queueVars, req, scan, restVars, histVars>>

\* Slip: the pass does not wait for its goroutines.
DrainPassNoWait ==
    /\ worker.pc = "pass"
    /\ worker' = [worker EXCEPT !.pc = "top"]
    /\ UNCHANGED <<storeVars, window, queueVars, req, job, scan, restVars, histVars>>

\* The pass is over; the backoff after a failure ends at any time.
DrainPass ==
    /\ worker.pc = "pass"
    /\ job["drain"] = NoJobs
    /\ worker' = [worker EXCEPT !.pc = "top"]
    /\ UNCHANGED <<storeVars, window, queueVars, req, job, scan, restVars, histVars>>

ReconcileList ==
    /\ worker.pc = "list"
    /\ worker' = [worker EXCEPT !.pc = "diff", !.miss = disk]
    /\ UNCHANGED <<storeVars, window, queueVars, req, job, scan, restVars, histVars>>

\* reconcileMissing: nothing missing or too many rounds end the episode, and an error is a
\* failed pass.
ReconcileDiff ==
    /\ worker.pc = "diff"
    /\ LET miss == worker.miss \ s3
           more == miss # {} /\ worker.rounds < Rounds
       IN \/ /\ Answers
             /\ worker' = [worker EXCEPT !.pc = IF more THEN "requeue" ELSE "exit",
                                         !.miss = IF more THEN miss ELSE {},
                                         !.rounds = IF more THEN @ + 1 ELSE @]
             /\ UNCHANGED window
          \/ /\ Fails
             /\ window' = TRUE
             /\ worker' = [worker EXCEPT !.pc = "top", !.miss = {}]
    /\ UNCHANGED <<storeVars, queueVars, req, job, scan, gc, asks, histVars>>

\* The missing blobs are queued one by one, each by enqueue; a failing step of it, the last one
\* after the rename, is logged.
Requeue(s) ==
    /\ worker.pc = "requeue"
    /\ s \in worker.miss
    /\ \/ /\ s \in index
          /\ worker' = [worker EXCEPT !.miss = @ \ {s}]
          /\ UNCHANGED <<files, turns>>
       \/ /\ s \notin index
          /\ files' = files \cup {s}
          /\ worker' = [worker EXCEPT !.pc = "index", !.miss = @ \ {s}, !.at = s]
          /\ UNCHANGED turns
       \/ /\ s \notin index
          /\ Turn
          /\ files' \in {files, files \cup {s}}
          /\ worker' = [worker EXCEPT !.miss = @ \ {s}]
    /\ UNCHANGED <<storeVars, window, index, req, job, scan, gc, asks, histVars>>

RequeueIndex ==
    /\ worker.pc = "index"
    /\ index' = index \cup {worker.at}
    /\ worker' = [worker EXCEPT !.pc = "requeue"]
    /\ UNCHANGED <<storeVars, window, files, req, job, scan, restVars, histVars>>

Requeued ==
    /\ worker.pc = "requeue"
    /\ worker.miss = {}
    /\ worker' = [worker EXCEPT !.pc = "top"]
    /\ UNCHANGED <<storeVars, window, queueVars, req, job, scan, restVars, histVars>>

\* The deferred reset of workerRun.
DrainExit ==
    /\ worker.pc = "exit"
    /\ worker' = NoWorker
    /\ UNCHANGED <<storeVars, window, queueVars, req, job, scan, restVars, histVars>>

-----------------------------------------------------------------------------
(* The background migration, GC on both backends, node rows, time and the process. *)

StartMigration ==
    /\ scan.pc = "off"
    /\ Turn
    /\ scan' = [pc |-> "list", listed |-> disk]
    /\ UNCHANGED <<storeVars, window, queueVars, req, worker, job, gc, asks, histVars>>

\* Listing S3 fails, or the missing blobs are copied.
MigrationList ==
    /\ scan.pc = "list"
    /\ \/ /\ Answers
          /\ scan' = [pc |-> "copy", listed |-> {}]
          /\ job' = [job EXCEPT !["scan"] = [s \in Shas |-> IF s \in scan.listed \ s3 THEN "head" ELSE "none"]]
       \/ /\ Fails
          /\ scan' = [pc |-> "off", listed |-> {}]
          /\ UNCHANGED job
    /\ UNCHANGED <<storeVars, window, queueVars, req, worker, gc, asks, histVars>>

MigrationDone ==
    /\ scan.pc = "copy"
    /\ job["scan"] = NoJobs
    /\ scan' = [scan EXCEPT !.pc = "off"]
    /\ UNCHANGED <<storeVars, window, queueVars, req, worker, job, restVars, histVars>>

\* The blobs of uploads between their commit and the release of their holds.
InFlight == {req[c].sha : c \in {c \in Slots :
                req[c].pc \in {"arm", "owe", "file", "index", "start", "link", "linked"}}}

\* Blobs whose copy the drain has not settled.
Unsettled == {s \in Shas : job["drain"][s] # "none"}

\* GCSweep on disk, then on S3, each with a mark of its own; a blob may be too young.
GCDisk ==
    /\ gc = "off"
    /\ Turn
    /\ \E D \in SUBSET (disk \ (refs \cup InFlight)) :
        disk' = disk \ D /\ acked' = acked \ D
    /\ gc' = "s3"
    /\ UNCHANGED <<s3, refs, s3Hold, window, queueVars, req, copyVars, asks, excused>>

GCS3 ==
    /\ gc = "s3"
    /\ \E D \in SUBSET {s \in s3 \ refs : s3Hold[s] = 0} :
        /\ s3' = s3 \ D
        /\ acked' = acked \ (D \ InFlight)
        /\ excused' = excused \cup (D \cap (InFlight \cup Unsettled))
    /\ gc' = "off"
    /\ UNCHANGED <<disk, refs, s3Hold, window, queueVars, req, copyVars, asks, turns>>

GCS3Fails ==
    /\ gc = "s3"
    /\ Fails
    /\ gc' = "off"
    /\ UNCHANGED <<storeVars, window, queueVars, req, copyVars, asks, histVars>>

\* The node row of a blob is deleted.
Unlink(s) ==
    /\ s \in refs
    /\ Turn
    /\ refs' = refs \ {s}
    /\ UNCHANGED <<disk, s3, s3Hold, window, queueVars, req, copyVars, gc, asks, histVars>>

\* A hold nobody relies on reaches its TTL.
HoldExpires(s) ==
    /\ s3Hold[s] > 0
    /\ s \notin InFlight \cup Unsettled
    /\ s3Hold' = [s3Hold EXCEPT ![s] = 0]
    /\ UNCHANGED <<disk, s3, refs, window, queueVars, req, copyVars, restVars, histVars>>

\* Memory is lost; initFailOpen loads the queue and starts the drain when it is not empty.
Crash ==
    /\ Turn
    /\ s3Hold' = [s \in Shas |-> 0]
    /\ window' = FALSE
    /\ index' = files
    /\ req' = [c \in Slots |-> NoReq]
    /\ worker' = IF files = {} THEN NoWorker ELSE [NoWorker EXCEPT !.pc = "top"]
    /\ job' = [k \in Copiers |-> NoJobs]
    /\ scan' = [pc |-> "off", listed |-> {}]
    /\ gc' = "off"
    /\ UNCHANGED <<disk, s3, refs, files, asks, histVars>>

-----------------------------------------------------------------------------
Upload(c) ==
    \/ BeginArm(c) \/ AppendBody(c) \/ DiskFails(c) \/ DiskCommit(c) \/ ArmCommit(c)
    \/ Owe(c) \/ OweFile(c) \/ OweIndex(c) \/ OweStart(c)
    \/ Link(c) \/ ReleaseGCHold(c) \/ DeployStat(c)

Drain ==
    \/ DrainTop \/ DrainPass \/ ReconcileList \/ ReconcileDiff \/ RequeueIndex \/ Requeued \/ DrainExit
    \/ \E s \in Shas : Requeue(s) \/ Copy("drain", s) \/ Settle(s) \/ Drop(s) \/ Unfile(s)

Migration == StartMigration \/ MigrationList \/ MigrationDone \/ \E s \in Shas : Copy("scan", s)

Next ==
    \/ \E c \in Slots : Upload(c) \/ \E s \in Shas : Begin(c, s) \/ Deploy(c, s)
    \/ OpenFails
    \/ Drain
    \/ Migration
    \/ GCDisk \/ GCS3 \/ GCS3Fails
    \/ \E s \in Shas : Unlink(s) \/ HoldExpires(s)
    \/ Crash

Spec == Init /\ [][Next]_vars

\* Requests and the worker keep moving; failures, crashes and passes of GC are finitely many.
FairSpec == Spec /\ WF_vars(Drain) /\ \A c \in Slots : WF_vars(Upload(c))

-----------------------------------------------------------------------------
(* Properties. *)

\* Every variable has its type, and copies run only inside a pass of the drain or of the
\* migration (replayWorker, runMigration).
TypeOK ==
    /\ {disk, s3, refs, index, files, acked, excused} \subseteq SUBSET Shas
    /\ s3Hold \in [Shas -> Nat]
    /\ window \in BOOLEAN
    /\ req \in [Slots -> [pc : ReqPcs, sha : Shas, arm : BOOLEAN, resumed : BOOLEAN]]
    /\ worker \in [pc : {"off", "top", "pass", "list", "diff", "requeue", "index", "exit"},
                   miss : SUBSET Shas, at : Shas, rounds : 0..Rounds]
    /\ job \in [Copiers -> [Shas -> Steps]]
    /\ scan \in [pc : {"off", "list", "copy"}, listed : SUBSET Shas]
    /\ gc \in {"off", "s3"}
    /\ asks \in 0..MaxAsks /\ turns \in 0..MaxTurns
    /\ job["drain"] # NoJobs => worker.pc = "pass"
    /\ job["scan"] # NoJobs => scan.pc = "copy"

\* What Commit reported stored stays on disk until GC reclaims it, whatever S3 does ("a committed
\* disk blob is NEVER rolled back"), and is on S3 or has an entry in the queue directory, so that
\* a crash at any step keeps the debt; unless its session was resumed, its entry could not be
\* written, GC took the S3 copy from under it, the drain found it reclaimed before, or remove
\* deleted the file of an entry that was published again.
AckedIsKept ==
    \A s \in acked : s \in disk /\ (s \in s3 \/ s \in files \/ s \in excused)

\* An entry queued while replayWorker is in its passes reaches S3, or its blob is gone or was
\* excused, however many copies and listings fail and whatever uploads, GC and restarts do.
DrainPays ==
    \A s \in Shas :
        (s \in index /\ worker.pc \in {"top", "pass", "requeue", "index"})
            ~> (s \in s3 \/ s \notin disk \/ s \in excused)

\* DECISIONS.md, ADR-0040: one seam covers all write paths; Commit is "disk commit + enqueue +
\* SUCCESS".
DebtIsRecorded == \A s \in acked : s \in s3 \/ s \in files

\* failopen.go on replayQueue: "The on-disk truth is the <dir>/<sha256>.json files; index is the
\* in-process mirror".
IndexMirrorsFiles == index \subseteq files

\* failopen.go on reads: "disk is the superset", "so the fallback has no holes".
DiskIsSuperset == refs \cap s3 \subseteq disk

\* replayWorker "drains the queue until it converges, then exits (restarted by the next enqueue)".
DebtIsPaid == \A s \in Shas : s \in index ~> s \notin index

\* The breaker: "S3's own responses are the only recovery signal".
WindowCloses == window ~> ~window
=============================================================================
