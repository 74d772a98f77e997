-------------------------- MODULE DualWriteProofs ---------------------------
(***************************************************************************)
(* The promise of the fail-open layer (ADR-0040), proved for every set of  *)
(* blobs and requests and every number of failures and crashes: what       *)
(* Commit acknowledged stays on disk, and is on S3 or has its debt in the  *)
(* queue directory.                                                        *)
(***************************************************************************)
EXTENDS DualWrite, TLAPS

-----------------------------------------------------------------------------
(* The inductive invariant. *)

\* GC on disk spares the blob of an upload from its commit to its release.
InFlightOnDisk ==
    \A c \in Slots :
        req[c].pc \in {"arm", "owe", "file", "index", "start", "link", "linked"} =>
            req[c].sha \in disk

\* The index runs ahead of the directory for excused entries alone.
IndexIsFiled ==
    /\ index \subseteq files \cup excused
    /\ \A c \in Slots : req[c].pc = "index" => req[c].sha \in files \cup excused
    /\ worker.pc = "index" => worker.at \in files \cup excused

\* An upload that is about to return has its blob on S3 or its debt recorded.
DebtBeforeAck ==
    \A c \in Slots : req[c].pc = "start" => req[c].sha \in s3 \cup files \cup excused

\* The drain removes an entry only of a blob that S3 has, or had when GC took it.
SettledIsStored ==
    \A s \in Shas : job["drain"][s] \in {"settle", "drop", "unfile"} => s \in s3 \cup excused

Kept == InFlightOnDisk /\ IndexIsFiled /\ DebtBeforeAck /\ SettledIsStored /\ AckedIsKept

KeepInv == TypeOK /\ Kept

-----------------------------------------------------------------------------
(* Type correctness. *)

LEMMA NoReqType ==
  /\ NoReq \in [pc : ReqPcs, sha : Shas, arm : BOOLEAN, resumed : BOOLEAN]
  /\ NoReq.pc = "idle"
<1>1. (CHOOSE s \in Shas : TRUE) \in Shas
  BY DualWriteConstants
<1>2. QED
  BY <1>1 DEF NoReq, ReqPcs

LEMMA NoWorkerType ==
  /\ NoWorker \in [pc : {"off", "top"}, miss : SUBSET Shas, at : Shas, rounds : 0..Rounds]
  /\ NoWorker.pc = "off"
<1>1. (CHOOSE s \in Shas : TRUE) \in Shas
  BY DualWriteConstants
<1>2. QED
  BY <1>1, DualWriteConstants DEF NoWorker

Requests == [pc : ReqPcs, sha : Shas, arm : BOOLEAN, resumed : BOOLEAN]

\* A request that moves keeps its blob, and the other requests stay where they are.
LEMMA GoesEffect ==
  ASSUME TypeOK, NEW c \in Slots, NEW pc \in ReqPcs, Goes(c, pc)
  PROVE  /\ req' \in [Slots -> Requests]
         /\ req'[c].pc = pc /\ req'[c].sha = req[c].sha
         /\ \A b \in Slots : b # c => req'[b] = req[b]
  BY DEF TypeOK, Goes, Requests

\* The same for a request that gains or loses its S3 arm.
LEMMA ArmEffect ==
  ASSUME TypeOK, NEW c \in Slots, NEW pc \in ReqPcs, NEW b \in BOOLEAN,
         req' = [req EXCEPT ![c].pc = pc, ![c].arm = b]
  PROVE  /\ req' \in [Slots -> Requests]
         /\ req'[c].pc = pc /\ req'[c].sha = req[c].sha
         /\ \A x \in Slots : x # c => req'[x] = req[x]
  BY DEF TypeOK, Requests

LEMMA TypeUpload ==
  ASSUME TypeOK, NEW c \in Slots, Upload(c)
  PROVE  TypeOK'
<1> USE DualWriteConstants, NoReqType DEF TypeOK, ReqPcs, Goes, storeVars, queueVars, copyVars,
    restVars, histVars
<1>1. CASE BeginArm(c)
  <2>1. req' \in [Slots -> Requests]
    <3>1. CASE Goes(c, "append")
      BY <3>1, GoesEffect
    <3>2. CASE req' = [req EXCEPT ![c].pc = "append", ![c].arm = TRUE]
      BY <3>2, ArmEffect
    <3>3. QED
      BY <1>1, <3>1, <3>2 DEF BeginArm
  <2>2. turns' \in 0..MaxTurns
    BY <1>1 DEF BeginArm, Answers, Fails, Turn
  <2>3. window' \in BOOLEAN
    BY <1>1 DEF BeginArm
  <2>4. QED
    BY <1>1, <2>1, <2>2, <2>3 DEF BeginArm, Requests
<1>2. CASE AppendBody(c)
  <2>1. req' \in [Slots -> Requests]
    <3>1. CASE Goes(c, "commit")
      BY <3>1, GoesEffect
    <3>2. CASE req' = [req EXCEPT ![c].pc = "commit", ![c].arm = FALSE]
      BY <3>2, ArmEffect
    <3>3. QED
      BY <1>2, <3>1, <3>2 DEF AppendBody
  <2>2. turns' \in 0..MaxTurns
    BY <1>2 DEF AppendBody, Fails, Turn
  <2>3. window' \in BOOLEAN
    BY <1>2 DEF AppendBody
  <2>4. QED
    BY <1>2, <2>1, <2>2, <2>3 DEF AppendBody, Requests
<1>3. CASE DiskFails(c)
  BY <1>3 DEF DiskFails, Turn
<1>4. CASE DiskCommit(c)
  BY <1>4 DEF DiskCommit
<1>5. CASE ArmCommit(c)
  <2>1. req' \in [Slots -> Requests]
    <3>1. \E pc \in {"link", "owe"} : Goes(c, pc)
      BY <1>5 DEF ArmCommit
    <3>2. QED
      BY <3>1, GoesEffect
  <2>2. turns' \in 0..MaxTurns
    BY <1>5 DEF ArmCommit, Answers, Fails, Turn
  <2>3. window' \in BOOLEAN
    BY <1>5 DEF ArmCommit
  <2>4. {s3', acked'} \subseteq SUBSET Shas
    BY <1>5 DEF ArmCommit, MayStore
  <2>5. s3Hold' \in [Shas -> Nat]
    BY <1>5 DEF ArmCommit
  <2>6. QED
    BY <1>5, <2>1, <2>2, <2>3, <2>4, <2>5 DEF ArmCommit, Requests
<1>6. CASE Owe(c)
  BY <1>6 DEF Owe
<1>7. CASE OweFile(c)
  <2>1. req' \in [Slots -> Requests]
    <3>1. \E pc \in {"index", "link"} : Goes(c, pc)
      BY <1>7 DEF OweFile
    <3>2. QED
      BY <3>1, GoesEffect
  <2>2. turns' \in 0..MaxTurns
    BY <1>7 DEF OweFile, Turn
  <2>3. {files', acked', excused'} \subseteq SUBSET Shas
    BY <1>7 DEF OweFile
  <2>4. QED
    BY <1>7, <2>1, <2>2, <2>3 DEF OweFile, Requests
<1>8. CASE OweIndex(c)
  BY <1>8 DEF OweIndex
<1>9. CASE OweStart(c)
  <2>1. req' \in [Slots -> Requests]
    BY <1>9, GoesEffect DEF OweStart
  <2>2. /\ worker' \in [pc : {"off", "top", "pass", "list", "diff", "requeue", "index", "exit"},
                        miss : SUBSET Shas, at : Shas, rounds : 0..Rounds]
        /\ worker.pc = "pass" => worker'.pc = "pass"
    BY <1>9, NoWorkerType DEF OweStart, EnsureWorker
  <2>3. QED
    BY <1>9, <2>1, <2>2 DEF OweStart, Requests
<1>10. CASE Link(c)
  <2>1. req' \in [Slots -> Requests]
    <3>1. \E pc \in {"linked", "idle"} : Goes(c, pc)
      BY <1>10 DEF Link
    <3>2. QED
      BY <3>1, GoesEffect
  <2>2. turns' \in 0..MaxTurns /\ refs' \in SUBSET Shas
    BY <1>10 DEF Link, Turn
  <2>3. QED
    BY <1>10, <2>1, <2>2 DEF Link, Requests
<1>11. CASE ReleaseGCHold(c)
  <2>1. req' \in [Slots -> Requests]
    BY <1>11, GoesEffect DEF ReleaseGCHold
  <2>2. \A s \in Shas : (IF s3Hold[s] = 0 THEN 0 ELSE s3Hold[s] - 1) \in Nat
    OBVIOUS
  <2>3. s3Hold' \in [Shas -> Nat]
    BY <1>11, <2>2 DEF ReleaseGCHold
  <2>4. QED
    BY <1>11, <2>1, <2>3 DEF ReleaseGCHold, Requests
<1>12. CASE DeployStat(c)
  <2>1. req' \in [Slots -> Requests]
    <3>1. \E pc \in {"deploy", "idle"} : Goes(c, pc)
      BY <1>12 DEF DeployStat
    <3>2. QED
      BY <3>1, GoesEffect
  <2>2. turns' \in 0..MaxTurns
    BY <1>12 DEF DeployStat, Answers, Fails, Turn
  <2>3. window' \in BOOLEAN
    BY <1>12 DEF DeployStat
  <2>4. QED
    BY <1>12, <2>1, <2>2, <2>3 DEF DeployStat, Requests
<1>13. QED
  BY <1>1, <1>2, <1>3, <1>4, <1>5, <1>6, <1>7, <1>8, <1>9, <1>10, <1>11, <1>12 DEF Upload

LEMMA TypeCopy ==
  ASSUME TypeOK, NEW k \in Copiers, NEW s \in Shas, Copy(k, s)
  PROVE  TypeOK'
<1> USE DualWriteConstants DEF TypeOK, Copiers, Steps, NoJobs, At, storeVars, queueVars,
    copyVars, restVars, histVars
<1>1. CASE CopyHead(k, s)
  BY <1>1 DEF CopyHead, Copied
<1>2. CASE CopyOpen(k, s)
  BY <1>2 DEF CopyOpen
<1>3. CASE CopyWrite(k, s)
  BY <1>3 DEF CopyWrite, Copied
<1>4. CASE CopyFails(k, s)
  BY <1>4 DEF CopyFails, Fails, Turn, MayStore
<1>5. QED
  BY <1>1, <1>2, <1>3, <1>4 DEF Copy

LEMMA TypeDrain ==
  ASSUME TypeOK, Drain
  PROVE  TypeOK'
<1> USE DualWriteConstants DEF TypeOK, Copiers, Steps, NoJobs, At, storeVars, queueVars,
    copyVars, restVars, histVars
<1>1. CASE DrainTop
  BY <1>1 DEF DrainTop
<1>2. CASE DrainPass
  BY <1>2 DEF DrainPass
<1>3. CASE ReconcileList
  BY <1>3 DEF ReconcileList
<1>4. CASE ReconcileDiff
  <2>1. /\ UNCHANGED <<disk, s3, refs, s3Hold, index, files, req, job, scan, gc, asks, acked,
                       excused>>
        /\ worker.pc = "diff"
    BY <1>4 DEF ReconcileDiff
  <2> DEFINE more == worker.miss \ s3 # {} /\ worker.rounds < Rounds
  <2>2. CASE /\ turns' = turns /\ window' = window
             /\ worker' = [worker EXCEPT !.pc = IF more THEN "requeue" ELSE "exit",
                                         !.miss = IF more THEN worker.miss \ s3 ELSE {},
                                         !.rounds = IF more THEN worker.rounds + 1 ELSE worker.rounds]
    <3>1. worker' \in [pc : {"off", "top", "pass", "list", "diff", "requeue", "index", "exit"},
                       miss : SUBSET Shas, at : Shas, rounds : 0..Rounds]
      <4>1. CASE more
        <5>1. worker' = [worker EXCEPT !.pc = "requeue", !.miss = worker.miss \ s3,
                                       !.rounds = worker.rounds + 1]
          BY <2>2, <4>1
        <5>2. worker.rounds + 1 \in 0..Rounds
          BY <4>1
        <5>3. QED
          BY <5>1, <5>2
      <4>2. CASE ~more
        <5>1. worker' = [worker EXCEPT !.pc = "exit", !.miss = {}]
          BY <2>2, <4>2
        <5>2. QED
          BY <5>1
      <4>3. QED
        BY <4>1, <4>2
    <3>2. QED
      BY <2>1, <2>2, <3>1
  <2>3. CASE Turn /\ window' = TRUE /\ worker' = [worker EXCEPT !.pc = "top", !.miss = {}]
    <3>1. worker' \in [pc : {"off", "top", "pass", "list", "diff", "requeue", "index", "exit"},
                       miss : SUBSET Shas, at : Shas, rounds : 0..Rounds]
      BY <2>3
    <3>2. QED
      BY <2>1, <2>3, <3>1 DEF Turn
  <2>4. QED
    BY <1>4, <2>2, <2>3 DEF ReconcileDiff, Answers, Fails
<1>5. CASE Requeued
  BY <1>5 DEF Requeued
<1>6. CASE DrainExit
  BY <1>6, NoWorkerType DEF DrainExit
<1>7. ASSUME NEW s \in Shas, Requeue(s) PROVE TypeOK'
  <2>1. worker.pc = "requeue" /\ files' \in SUBSET Shas /\ turns' \in 0..MaxTurns
    BY <1>7 DEF Requeue, Turn
  <2>2. \/ worker' = [worker EXCEPT !.miss = worker.miss \ {s}]
        \/ worker' = [worker EXCEPT !.pc = "index", !.miss = worker.miss \ {s}, !.at = s]
    BY <1>7 DEF Requeue
  <2>3. worker' \in [pc : {"off", "top", "pass", "list", "diff", "requeue", "index", "exit"},
                     miss : SUBSET Shas, at : Shas, rounds : 0..Rounds]
    <3>1. CASE worker' = [worker EXCEPT !.miss = worker.miss \ {s}]
      BY <3>1
    <3>2. CASE worker' = [worker EXCEPT !.pc = "index", !.miss = worker.miss \ {s}, !.at = s]
      BY <1>7, <3>2
    <3>3. QED
      BY <2>2, <3>1, <3>2
  <2>4. UNCHANGED <<disk, s3, refs, s3Hold, window, index, req, job, scan, gc, asks, acked, excused>>
    BY <1>7 DEF Requeue
  <2>5. job["drain"] = NoJobs
    BY <2>1
  <2>6. QED
    BY <2>1, <2>3, <2>4, <2>5
<1>12. CASE RequeueIndex
  BY <1>12 DEF RequeueIndex
<1>8. ASSUME NEW s \in Shas, Settle(s) PROVE TypeOK'
  BY <1>8 DEF Settle
<1>9. ASSUME NEW s \in Shas, Drop(s) PROVE TypeOK'
  BY <1>9 DEF Drop
<1>10. ASSUME NEW s \in Shas, Unfile(s) PROVE TypeOK'
  BY <1>10 DEF Unfile, Republished
<1>11. QED
  BY <1>1, <1>2, <1>3, <1>4, <1>5, <1>6, <1>7, <1>8, <1>9, <1>10, <1>12, TypeCopy DEF Drain

LEMMA TypeNext ==
  ASSUME TypeOK, Next
  PROVE  TypeOK'
<1> USE DualWriteConstants, NoReqType DEF TypeOK, ReqPcs, Copiers, Steps, NoJobs, storeVars,
    queueVars, copyVars, restVars, histVars
<1>1. CASE StartMigration
  BY <1>1 DEF StartMigration, Turn
<1>2. CASE MigrationList
  BY <1>2 DEF MigrationList, Answers, Fails, Turn
<1>3. CASE MigrationDone
  BY <1>3 DEF MigrationDone
<1>4. CASE OpenFails
  BY <1>4 DEF OpenFails, Fails, Turn
<1>5. CASE GCDisk
  BY <1>5 DEF GCDisk, Turn
<1>6. CASE GCS3
  BY <1>6 DEF GCS3, Unsettled
<1>7. CASE GCS3Fails
  BY <1>7 DEF GCS3Fails, Fails, Turn
<1>8. CASE Crash
  <2>1. /\ s3Hold' \in [Shas -> Nat]
        /\ req' \in [Slots -> Requests]
        /\ job' \in [Copiers -> [Shas -> Steps]]
        /\ job'["drain"] = NoJobs /\ job'["scan"] = NoJobs
    BY <1>8 DEF Crash, Requests
  <2>2. worker' \in [pc : {"off", "top", "pass", "list", "diff", "requeue", "index", "exit"},
                     miss : SUBSET Shas, at : Shas, rounds : 0..Rounds]
    BY <1>8, NoWorkerType DEF Crash
  <2>3. QED
    <3>1. /\ {disk', s3', refs', index', files', acked', excused'} \subseteq SUBSET Shas
          /\ gc' \in {"off", "s3"}
          /\ scan' \in [pc : {"off", "list", "copy"}, listed : SUBSET Shas]
      BY <1>8 DEF Crash
    <3>2. window' \in BOOLEAN
      BY <1>8 DEF Crash
    <3>3. asks' \in 0..MaxAsks /\ turns' \in 0..MaxTurns
      BY <1>8 DEF Crash, Turn
    <3>4. QED
      BY <2>1, <2>2, <3>1, <3>2, <3>3 DEF Requests
<1>9. ASSUME NEW c \in Slots, NEW s \in Shas, Begin(c, s) PROVE TypeOK'
  BY <1>9 DEF Begin, Ask
<1>10. ASSUME NEW c \in Slots, NEW s \in Shas, Deploy(c, s) PROVE TypeOK'
  <2>1. [NoReq EXCEPT !.pc = "stat", !.sha = s] \in Requests
    BY DEF Requests
  <2>2. req' \in [Slots -> Requests]
    BY <1>10, <2>1 DEF Deploy, Requests
  <2>3. QED
    BY <1>10, <2>2 DEF Deploy, Ask, Requests
<1>11. ASSUME NEW s \in Shas, Unlink(s) PROVE TypeOK'
  BY <1>11 DEF Unlink, Turn
<1>12. ASSUME NEW s \in Shas, HoldExpires(s) PROVE TypeOK'
  BY <1>12 DEF HoldExpires
<1>13. QED
  BY <1>1, <1>2, <1>3, <1>4, <1>5, <1>6, <1>7, <1>8, <1>9, <1>10, <1>11, <1>12, TypeUpload,
     TypeCopy, TypeDrain DEF Next, Migration

LEMMA TypeInit == Init => TypeOK
<1> SUFFICES ASSUME Init PROVE TypeOK
  OBVIOUS
<1>1. worker \in [pc : {"off", "top", "pass", "list", "diff", "requeue", "index", "exit"},
                  miss : SUBSET Shas, at : Shas, rounds : 0..Rounds]
  BY NoWorkerType DEF Init
<1>2. window \in BOOLEAN
  BY DEF Init
<1>3. job["drain"] = NoJobs /\ job["scan"] = NoJobs /\ job \in [Copiers -> [Shas -> Steps]]
  BY DEF Init, Copiers, NoJobs, Steps
<1>4. QED
  BY <1>1, <1>2, <1>3, NoReqType, DualWriteConstants DEF Init, TypeOK

\* Every reachable state is well typed, and copyBlob runs only inside a pass of replayWorker or
\* of runMigration, which waits for its goroutines.
THEOREM TypeCorrect == Spec => []TypeOK
<1>1. TypeOK /\ UNCHANGED vars => TypeOK'
  BY DEF TypeOK, vars, storeVars, queueVars, copyVars, restVars, histVars
<1>2. QED
  BY <1>1, TypeInit, TypeNext, PTL DEF Spec

-----------------------------------------------------------------------------
(* What was acknowledged is kept. *)

LEMMA KeepInit == Init => Kept
  BY NoReqType, NoWorkerType DEF Init, Kept, InFlightOnDisk, IndexIsFiled, DebtBeforeAck, SettledIsStored,
     AckedIsKept, Copiers, NoJobs

LEMMA KeepUpload ==
  ASSUME KeepInv, NEW c \in Slots, Upload(c)
  PROVE  Kept'
<1> USE DualWriteConstants, NoReqType DEF KeepInv, TypeOK, Kept, InFlightOnDisk, IndexIsFiled,
    DebtBeforeAck,
    SettledIsStored, AckedIsKept, InFlight, ReqPcs, Goes, storeVars, queueVars, copyVars,
    restVars, histVars
<1>1. CASE BeginArm(c)
  <2>1. /\ req'[c].pc = "append" /\ req[c].pc = "begin"
        /\ \A b \in Slots : b # c => req'[b] = req[b]
    BY <1>1, GoesEffect, ArmEffect DEF BeginArm
  <2>2. UNCHANGED <<disk, s3, index, files, worker, job, acked, excused>>
    BY <1>1 DEF BeginArm
  <2>3. QED
    BY <2>1, <2>2
<1>2. CASE AppendBody(c)
  <2>1. /\ req'[c].pc = "commit" /\ req[c].pc = "append"
        /\ \A b \in Slots : b # c => req'[b] = req[b]
    BY <1>2, GoesEffect, ArmEffect DEF AppendBody
  <2>2. UNCHANGED <<disk, s3, index, files, worker, job, acked, excused>>
    BY <1>2 DEF AppendBody
  <2>3. QED
    BY <2>1, <2>2
<1>3. CASE DiskFails(c)
  BY <1>3 DEF DiskFails, Turn
<1>4. CASE DiskCommit(c)
  BY <1>4 DEF DiskCommit
<1>5. CASE ArmCommit(c)
  <2>1. /\ req'[c].pc \in {"link", "owe"} /\ req[c].pc = "arm" /\ req'[c].sha = req[c].sha
        /\ \A b \in Slots : b # c => req'[b] = req[b]
    BY <1>5, GoesEffect DEF ArmCommit
  <2>2. /\ s3 \subseteq s3'
        /\ acked' \in {acked, acked \cup {req[c].sha}}
        /\ acked' # acked => req[c].sha \in s3'
    BY <1>5 DEF ArmCommit, MayStore
  <2>3. QED
    <3>1. UNCHANGED <<disk, index, files, worker, job, excused>>
      BY <1>5 DEF ArmCommit
    <3>2. InFlightOnDisk' /\ SettledIsStored'
      BY <2>1, <2>2, <3>1
    <3>3. IndexIsFiled'
      BY <2>1, <2>2, <3>1
    <3>4. DebtBeforeAck'
      BY <2>1, <2>2, <3>1
    <3>5. AckedIsKept'
      BY <2>1, <2>2, <3>1
    <3>6. QED
      BY <3>2, <3>3, <3>4, <3>5
<1>6. CASE Owe(c)
  BY <1>6 DEF Owe
<1>7. CASE OweFile(c)
  <2>1. /\ req'[c].pc \in {"index", "link"} /\ req[c].pc = "file" /\ req'[c].sha = req[c].sha
        /\ \A b \in Slots : b # c => req'[b] = req[b]
    BY <1>7, GoesEffect DEF OweFile
  <2>2. /\ files \subseteq files' /\ excused \subseteq excused'
        /\ req'[c].pc = "index" => req[c].sha \in files'
        /\ acked' \in {acked, acked \cup {req[c].sha}}
        /\ acked' # acked => req[c].sha \in excused'
    BY <1>7, GoesEffect DEF OweFile
  <2>3. QED
    <3>1. UNCHANGED <<disk, s3, index, worker, job>>
      BY <1>7 DEF OweFile
    <3>2. InFlightOnDisk' /\ SettledIsStored'
      BY <2>1, <2>2, <3>1
    <3>3. IndexIsFiled'
      BY <2>1, <2>2, <3>1
    <3>4. DebtBeforeAck'
      BY <2>1, <2>2, <3>1
    <3>5. AckedIsKept'
      BY <2>1, <2>2, <3>1
    <3>6. QED
      BY <3>2, <3>3, <3>4, <3>5
<1>8. CASE OweIndex(c)
  BY <1>8 DEF OweIndex
<1>9. CASE OweStart(c)
  BY <1>9 DEF OweStart, EnsureWorker, NoWorker
<1>10. CASE Link(c)
  <2>1. /\ req'[c].pc \in {"linked", "idle"} /\ req[c].pc \in {"link", "deploy"}
        /\ req'[c].pc = "linked" => req[c].pc = "link"
        /\ req'[c].sha = req[c].sha
        /\ \A b \in Slots : b # c => req'[b] = req[b]
    BY <1>10, GoesEffect DEF Link
  <2>2. UNCHANGED <<disk, s3, index, files, worker, job, acked, excused>>
    BY <1>10 DEF Link
  <2>3. QED
    BY <2>1, <2>2
<1>11. CASE ReleaseGCHold(c)
  BY <1>11 DEF ReleaseGCHold
<1>12. CASE DeployStat(c)
  <2>1. /\ req'[c].pc \in {"deploy", "idle"} /\ req[c].pc = "stat"
        /\ \A b \in Slots : b # c => req'[b] = req[b]
    BY <1>12, GoesEffect DEF DeployStat
  <2>2. UNCHANGED <<disk, s3, index, files, worker, job, acked, excused>>
    BY <1>12 DEF DeployStat
  <2>3. QED
    BY <2>1, <2>2
<1>13. QED
  BY <1>1, <1>2, <1>3, <1>4, <1>5, <1>6, <1>7, <1>8, <1>9, <1>10, <1>11, <1>12 DEF Upload

LEMMA KeepCopy ==
  ASSUME KeepInv, NEW k \in Copiers, NEW s \in Shas, Copy(k, s)
  PROVE  Kept'
<1> USE DualWriteConstants DEF KeepInv, TypeOK, Kept, InFlightOnDisk, IndexIsFiled, DebtBeforeAck,
    SettledIsStored, AckedIsKept, InFlight, Copiers, Steps, NoJobs, At, storeVars, queueVars,
    copyVars, restVars, histVars
<1>1. CASE CopyHead(k, s)
  BY <1>1 DEF CopyHead, Copied
<1>2. CASE CopyOpen(k, s)
  BY <1>2 DEF CopyOpen
<1>3. CASE CopyWrite(k, s)
  BY <1>3 DEF CopyWrite, Copied
<1>4. CASE CopyFails(k, s)
  BY <1>4 DEF CopyFails, Fails, Turn, MayStore
<1>5. QED
  BY <1>1, <1>2, <1>3, <1>4 DEF Copy

LEMMA KeepDrain ==
  ASSUME KeepInv, Drain
  PROVE  Kept'
<1> USE DualWriteConstants DEF KeepInv, TypeOK, Kept, InFlightOnDisk, IndexIsFiled, DebtBeforeAck,
    SettledIsStored, AckedIsKept, InFlight, Copiers, Steps, NoJobs, At, storeVars, queueVars,
    copyVars, restVars, histVars
<1>1. CASE DrainTop
  BY <1>1 DEF DrainTop
<1>2. CASE DrainPass
  BY <1>2 DEF DrainPass
<1>3. CASE ReconcileList
  BY <1>3 DEF ReconcileList
<1>4. CASE ReconcileDiff
  BY <1>4 DEF ReconcileDiff, Answers, Fails, Turn
<1>5. CASE Requeued
  BY <1>5 DEF Requeued
<1>6. CASE DrainExit
  BY <1>6, NoWorkerType DEF DrainExit
<1>7. ASSUME NEW s \in Shas, Requeue(s) PROVE Kept'
  BY <1>7 DEF Requeue, Turn
<1>12. CASE RequeueIndex
  BY <1>12 DEF RequeueIndex
<1>8. ASSUME NEW s \in Shas, Settle(s) PROVE Kept'
  BY <1>8 DEF Settle
<1>9. ASSUME NEW s \in Shas, Drop(s) PROVE Kept'
  BY <1>9 DEF Drop
<1>10. ASSUME NEW s \in Shas, Unfile(s) PROVE Kept'
  BY <1>10 DEF Unfile, Republished
<1>11. QED
  BY <1>1, <1>2, <1>3, <1>4, <1>5, <1>6, <1>7, <1>8, <1>9, <1>10, <1>12, KeepCopy DEF Drain

LEMMA KeepNext ==
  ASSUME KeepInv, Next
  PROVE  Kept'
<1> USE DualWriteConstants, NoReqType DEF KeepInv, TypeOK, Kept, InFlightOnDisk, IndexIsFiled,
    DebtBeforeAck,
    SettledIsStored, AckedIsKept, InFlight, ReqPcs, Copiers, Steps, NoJobs, storeVars,
    queueVars, copyVars, restVars, histVars
<1>1. CASE StartMigration
  BY <1>1 DEF StartMigration, Turn
<1>2. CASE MigrationList
  BY <1>2 DEF MigrationList, Answers, Fails, Turn
<1>3. CASE MigrationDone
  BY <1>3 DEF MigrationDone
<1>4. CASE OpenFails
  BY <1>4 DEF OpenFails, Fails, Turn
<1>5. CASE GCDisk
  BY <1>5 DEF GCDisk, Turn
<1>6. CASE GCS3
  BY <1>6 DEF GCS3, Unsettled
<1>7. CASE GCS3Fails
  BY <1>7 DEF GCS3Fails, Fails, Turn
<1>8. CASE Crash
  BY <1>8 DEF Crash, Turn, NoWorker
<1>9. ASSUME NEW c \in Slots, NEW s \in Shas, Begin(c, s) PROVE Kept'
  BY <1>9 DEF Begin, Ask
<1>10. ASSUME NEW c \in Slots, NEW s \in Shas, Deploy(c, s) PROVE Kept'
  BY <1>10 DEF Deploy, Ask
<1>11. ASSUME NEW s \in Shas, Unlink(s) PROVE Kept'
  BY <1>11 DEF Unlink, Turn
<1>12. ASSUME NEW s \in Shas, HoldExpires(s) PROVE Kept'
  BY <1>12 DEF HoldExpires
<1>13. QED
  BY <1>1, <1>2, <1>3, <1>4, <1>5, <1>6, <1>7, <1>8, <1>9, <1>10, <1>11, <1>12, KeepUpload,
     KeepCopy, KeepDrain DEF Next, Migration

\* An acknowledged blob stays on disk until GC reclaims it, and is on S3 or has its entry in the
\* queue directory, through every crash and every failure of S3, but for the exceptions that
\* `excused` records.
THEOREM AckedStaysKept == Spec => []AckedIsKept
<1>1. KeepInv /\ UNCHANGED vars => Kept'
  BY DEF KeepInv, Kept, InFlightOnDisk, IndexIsFiled, DebtBeforeAck, SettledIsStored, AckedIsKept,
         vars, storeVars, queueVars, copyVars, restVars, histVars
<1>2. TypeOK /\ Kept /\ [Next]_vars => Kept'
  BY <1>1, KeepNext DEF KeepInv
<1>3. Kept => AckedIsKept
  BY DEF Kept
<1>4. QED
  BY <1>2, <1>3, KeepInit, TypeCorrect, PTL DEF Spec
=============================================================================
