--------------------------- MODULE UploadSessions ---------------------------
(***************************************************************************)
(* The life of one resumable docker upload: the engine's session           *)
(* (internal/storage engine.go and session.go: BeginSession, Append,       *)
(* Commit, Abort, ResumeSession, detach, Close, the expired-session sweep) *)
(* under the docker adapter's registry (internal/adapter/docker/uploads.go:*)
(* the lazy rebuild, the per-upload lock, the idle eviction).              *)
(*                                                                         *)
(* One upload id.  Every BeginSession or ResumeSession of it makes a new   *)
(* handle (an uploadSession with its liveUpload); handles share the row    *)
(* and the directory uploads/<id>, and each has its own descriptor and     *)
(* running digest.  A digest is the byte sequence it was fed.              *)
(***************************************************************************)
EXTENDS Naturals, Sequences, FiniteSets

CONSTANTS
    Reqs,            \* requests in flight on the upload; each slot is reused
    Evictor,         \* the idle-eviction goroutine
    Bytes,           \* what one buffer of the copy loop carries
    MaxLen,          \* bound on the length of an upload
    MaxHandles,      \* bound on Begin + Resume calls
    MaxRestarts,     \* bound on process ends
    RowOutlivesIdle, \* storage.session_ttl_hours exceeds the adapter's fixed 24 h
    OnlineSweep      \* the cleanup driver reruns the session sweep while serving

None == 0

ASSUME SessionConstants ==
    /\ Evictor \notin Reqs
    /\ None \notin Reqs \cup {Evictor}
    /\ MaxLen \in Nat
    /\ MaxHandles \in Nat \ {0}
    /\ MaxRestarts \in Nat
    /\ RowOutlivesIdle \in BOOLEAN
    /\ OnlineSweep \in BOOLEAN

Handles == 1 .. MaxHandles
Actors == Reqs \cup {Evictor}
RebuildPcs == {"get", "open", "hash", "register", "detach", "publish"}
Contents == UNION {[1 .. n -> Bytes] : n \in 0 .. MaxLen}

VARIABLES
    row,       \* the upload_sessions row
    dir,       \* uploads/<id> exists
    path,      \* the file uploads/<id>/data names
    file,      \* the bytes of each file, named after the handle that created it
    blobs,     \* published blobs: the digest in the name and the file under it
    beginPc,   \* where BeginSession is
    used,      \* handles made so far
    st,        \* a handle is unmade, opened, live, or done
    fd,        \* the file a handle's descriptor is open on
    sum,       \* the bytes its digests were fed; its length is the offset
    poisoned,  \* uploadSession.poisoned
    busy,      \* its s.mu is held
    upLock,    \* the holder of its liveUpload.mu
    upDone,    \* liveUpload.done
    upPoisoned,\* liveUpload.poisoned
    reg,       \* engine.sessions[id]
    closed,    \* engine.closed
    closing,   \* the handle Close still has to detach
    byID,      \* sessionRegistry.byID[id]
    flyer,     \* the request running the rebuild, if any
    pc,        \* where each actor is
    verb,      \* what it does
    at,        \* the handle it works on
    prev,      \* the handle its ResumeSession replaced
    sweeper,   \* the idle-eviction loop of this process has been started
    sweep,     \* where the expired-session sweep is
    sweepErr,  \* its last step failed
    serving,   \* the engine is open
    acked,     \* history: the longest content a 202 has confirmed
    ended,     \* history: a Commit, an Abort or a failed Begin has begun to remove the upload
    overtaken, \* history: the files written or published while a rebuild had them open, and
               \* what a handle of such a file publishes
    restarts

diskVars == <<row, dir, path, file, blobs>>
handleVars == <<used, st, fd, sum, poisoned, busy, upLock, upDone, upPoisoned>>
tableVars == <<reg, closed, closing, byID, flyer, sweeper>>
reqVars == <<pc, verb, at, prev>>
procVars == <<serving, sweep, sweepErr, restarts>>
histVars == <<acked, ended, overtaken>>
vars == <<row, dir, path, file, blobs, beginPc, used, st, fd, sum, poisoned, busy, upLock,
          upDone, upPoisoned, reg, closed, closing, byID, flyer, sweeper, pc, verb, at, prev,
          serving, sweep, sweepErr, restarts, acked, ended,
          overtaken>>

Init ==
    /\ row = "none"
    /\ dir = FALSE
    /\ path = None
    /\ file = [h \in Handles |-> <<>>]
    /\ blobs = {}
    /\ beginPc = "off"
    /\ used = 0
    /\ st = [h \in Handles |-> "unmade"]
    /\ fd = [h \in Handles |-> None]
    /\ sum = [h \in Handles |-> <<>>]
    /\ poisoned = [h \in Handles |-> FALSE]
    /\ busy = [h \in Handles |-> FALSE]
    /\ upLock = [h \in Handles |-> None]
    /\ upDone = [h \in Handles |-> FALSE]
    /\ upPoisoned = [h \in Handles |-> FALSE]
    /\ reg = None
    /\ closed = FALSE
    /\ closing = None
    /\ byID = None
    /\ flyer = None
    /\ sweeper = FALSE
    /\ pc = [a \in Actors |-> "idle"]
    /\ verb = [a \in Actors |-> "none"]
    /\ at = [a \in Actors |-> None]
    /\ prev = [a \in Actors |-> None]
    /\ serving = TRUE
    /\ sweep = "off"
    /\ sweepErr = FALSE
    /\ restarts = 0
    /\ acked = <<>>
    /\ ended = FALSE
    /\ overtaken = {}

-----------------------------------------------------------------------------
(* BeginSession, then the POST that grants the upload. *)

BeginDir ==
    /\ serving /\ ~closed
    /\ beginPc = "off"
    /\ beginPc' = "dir"
    /\ dir' = TRUE
    /\ UNCHANGED <<row, path, file, blobs, handleVars, tableVars, reqVars, procVars, histVars>>

BeginRow ==
    /\ beginPc = "dir"
    /\ beginPc' = "row"
    /\ row' = "live"
    /\ UNCHANGED <<dir, path, file, blobs, handleVars, tableVars, reqVars, procVars, histVars>>

BeginFile ==
    /\ beginPc = "row"
    /\ dir
    /\ beginPc' = "file"
    /\ used' = 1
    /\ st' = [st EXCEPT ![1] = "opened"]
    /\ fd' = [fd EXCEPT ![1] = 1]
    /\ path' = 1
    /\ UNCHANGED <<row, dir, file, blobs, sum, poisoned, busy, upLock, upDone, upPoisoned,
                   tableVars, reqVars, procVars, histVars>>

\* The session enters the engine's table and the registry before the 202 tells its id.
BeginRegister ==
    /\ beginPc = "file"
    /\ ~closed
    /\ beginPc' = "granted"
    /\ st' = [st EXCEPT ![1] = "live"]
    /\ reg' = 1
    /\ byID' = 1
    /\ sweeper' = TRUE
    /\ UNCHANGED <<diskVars, used, fd, sum, poisoned, busy, upLock, upDone, upPoisoned,
                   closed, closing, flyer, reqVars, procVars, histVars>>

\* The insert, the open or the closed check fails: whatever was made is taken back.
BeginFails ==
    /\ beginPc \in {"dir", "row", "file"}
    /\ beginPc = "file" => closed
    /\ beginPc' = "failed"
    /\ row' = "none"
    /\ dir' = FALSE
    /\ path' = None
    /\ st' = [st EXCEPT ![1] = "done"]
    /\ ended' = TRUE
    /\ UNCHANGED <<file, blobs, used, fd, sum, poisoned, busy, upLock, upDone, upPoisoned,
                   tableVars, reqVars, procVars, acked, overtaken>>

\* A POST of some other upload: the first one of a process starts the eviction loop.
OtherUploadBegins ==
    /\ serving /\ ~closed
    /\ ~sweeper
    /\ sweeper' = TRUE
    /\ UNCHANGED <<diskVars, beginPc, handleVars, reg, closed, closing, byID, flyer, reqVars,
                   procVars, histVars>>

-----------------------------------------------------------------------------
(* resolve: the registry, or one rebuild that everybody waits for. *)

Goes(a, to) == pc' = [pc EXCEPT ![a] = to]

Arrive(r) ==
    /\ serving
    /\ beginPc = "granted"
    /\ pc[r] = "idle"
    /\ \/ /\ byID # None
          /\ Goes(r, "lock")
          /\ at' = [at EXCEPT ![r] = byID]
          /\ UNCHANGED flyer
       \/ /\ byID = None
          /\ flyer # None
          /\ Goes(r, "join")
          /\ UNCHANGED <<at, flyer>>
       \/ /\ byID = None
          /\ flyer = None
          /\ used < MaxHandles
          /\ Goes(r, "get")
          /\ flyer' = r
          /\ UNCHANGED at
    /\ UNCHANGED <<diskVars, beginPc, handleVars, reg, closed, closing, byID, sweeper, verb,
                   prev, procVars, histVars>>

\* The row must be there and not be expired.
ResumeGet(r) ==
    /\ pc[r] = "get"
    /\ ~closed
    /\ row = "live"
    /\ Goes(r, "open")
    /\ UNCHANGED <<diskVars, beginPc, handleVars, tableVars, verb, at, prev, procVars, histVars>>

\* Slip: O_TRUNC, as for a new session.
ResumeOpenTruncates(r) ==
    LET h == used + 1
        f == IF path = None THEN h ELSE path
    IN /\ pc[r] = "open"
       /\ dir
       /\ used' = h
       /\ path' = f
       /\ file' = [file EXCEPT ![f] = <<>>]
       /\ st' = [st EXCEPT ![h] = "opened"]
       /\ fd' = [fd EXCEPT ![h] = f]
       /\ at' = [at EXCEPT ![r] = h]
       /\ Goes(r, "hash")
       /\ UNCHANGED <<row, dir, blobs, beginPc, sum, poisoned, busy, upLock, upDone,
                      upPoisoned, tableVars, verb, prev, procVars, histVars>>

\* O_CREATE: a vanished data file is made anew, a vanished directory is an error.
ResumeOpen(r) ==
    LET h == used + 1
        f == IF path = None THEN h ELSE path
    IN /\ pc[r] = "open"
       /\ dir
       /\ used' = h
       /\ path' = f
       /\ st' = [st EXCEPT ![h] = "opened"]
       /\ fd' = [fd EXCEPT ![h] = f]
       /\ at' = [at EXCEPT ![r] = h]
       /\ Goes(r, "hash")
       /\ UNCHANGED <<row, dir, file, blobs, beginPc, sum, poisoned, busy, upLock, upDone,
                      upPoisoned, tableVars, verb, prev, procVars, histVars>>

\* Slip: the rebuild trusts what was confirmed instead of re-reading the file.
ResumeHashTrustsRow(r) ==
    /\ pc[r] = "hash"
    /\ sum' = [sum EXCEPT ![at[r]] = acked]
    /\ Goes(r, "register")
    /\ UNCHANGED <<diskVars, beginPc, used, st, fd, poisoned, busy, upLock, upDone, upPoisoned,
                   tableVars, verb, at, prev, procVars, histVars>>

\* The digests are rebuilt from the file, and the descriptor stands at its end.
ResumeHash(r) ==
    LET h == at[r] IN
    /\ pc[r] = "hash"
    /\ sum' = [sum EXCEPT ![h] = file[fd[h]]]
    /\ Goes(r, "register")
    /\ UNCHANGED <<diskVars, beginPc, used, st, fd, poisoned, busy, upLock, upDone, upPoisoned,
                   tableVars, verb, at, prev, procVars, histVars>>

\* The new handle takes the table entry; a registered one is detached afterwards.
ResumeRegister(r) ==
    /\ pc[r] = "register"
    /\ ~closed
    /\ reg' = at[r]
    /\ prev' = [prev EXCEPT ![r] = reg]
    /\ st' = [st EXCEPT ![at[r]] = "live"]
    /\ Goes(r, IF reg = None THEN "publish" ELSE "detach")
    /\ UNCHANGED <<diskVars, beginPc, used, fd, sum, poisoned, busy, upLock, upDone, upPoisoned,
                   closed, closing, byID, flyer, sweeper, verb, at, procVars, histVars>>

\* Slip: the replaced handle is not waited for.
ResumeDetachAtOnce(r) ==
    /\ pc[r] = "detach"
    /\ st' = [st EXCEPT ![prev[r]] = "done"]
    /\ Goes(r, "publish")
    /\ UNCHANGED <<diskVars, beginPc, used, fd, sum, poisoned, busy, upLock, upDone, upPoisoned,
                   tableVars, verb, at, prev, procVars, histVars>>

\* detach: waits for s.mu, closes the descriptor, deletes nothing.
ResumeDetach(r) ==
    /\ pc[r] = "detach"
    /\ ~busy[prev[r]]
    /\ st' = [st EXCEPT ![prev[r]] = "done"]
    /\ Goes(r, "publish")
    /\ UNCHANGED <<diskVars, beginPc, used, fd, sum, poisoned, busy, upLock, upDone, upPoisoned,
                   tableVars, verb, at, prev, procVars, histVars>>

\* The flyer's outcome is everybody's.
Party(r) == {r} \cup {a \in Reqs : pc[a] = "join"}

ResumePublish(r) ==
    /\ pc[r] = "publish"
    /\ byID' = at[r]
    /\ flyer' = None
    /\ pc' = [a \in Actors |-> IF a \in Party(r) THEN "lock" ELSE pc[a]]
    /\ at' = [a \in Actors |-> IF a \in Party(r) THEN at[r] ELSE at[a]]
    /\ prev' = [prev EXCEPT ![r] = None]
    /\ UNCHANGED <<diskVars, beginPc, handleVars, reg, closed, closing, sweeper, verb,
                   procVars, histVars>>

\* Slip: the failed attempt stays in the resuming table.
ResumeFailsSticky(r) ==
    /\ pc[r] \in {"get", "open", "hash", "register"}
    /\ pc' = [a \in Actors |-> IF a \in Party(r) THEN "idle" ELSE pc[a]]
    /\ at' = [at EXCEPT ![r] = None]
    /\ st' = [h \in Handles |-> IF h = at[r] THEN "done" ELSE st[h]]
    /\ UNCHANGED <<diskVars, beginPc, used, fd, sum, poisoned, busy, upLock, upDone, upPoisoned,
                   reg, closed, closing, byID, flyer, sweeper, verb, prev, procVars, histVars>>

\* Slip: the done channel is not closed on an error.
ResumeFailsAlone(r) ==
    /\ pc[r] \in {"get", "open", "hash", "register"}
    /\ flyer' = None
    /\ Goes(r, "idle")
    /\ at' = [at EXCEPT ![r] = None]
    /\ st' = [h \in Handles |-> IF h = at[r] THEN "done" ELSE st[h]]
    /\ UNCHANGED <<diskVars, beginPc, used, fd, sum, poisoned, busy, upLock, upDone, upPoisoned,
                   reg, closed, closing, byID, sweeper, verb, prev, procVars, histVars>>

\* Not found, expired, no directory, closed, or a store fault: nothing is cached.
ResumeFails(r) ==
    /\ pc[r] \in {"get", "open", "hash", "register"}
    /\ flyer' = None
    /\ pc' = [a \in Actors |-> IF a \in Party(r) THEN "idle" ELSE pc[a]]
    /\ at' = [at EXCEPT ![r] = None]
    /\ st' = [h \in Handles |-> IF h = at[r] THEN "done" ELSE st[h]]
    /\ UNCHANGED <<diskVars, beginPc, used, fd, sum, poisoned, busy, upLock, upDone, upPoisoned,
                   reg, closed, closing, byID, sweeper, verb, prev, procVars, histVars>>

-----------------------------------------------------------------------------
(* The per-upload verbs, under liveUpload.mu. *)

Free(h) == upLock[h] = None

\* The request is answered: its locks are released and its slot is free.
Returns(a) ==
    /\ Goes(a, "idle")
    /\ verb' = [verb EXCEPT ![a] = "none"]
    /\ at' = [at EXCEPT ![a] = None]

\* An offset query; a PATCH or PUT that finds the upload done; a PATCH that is refused
\* because the upload is poisoned or its Content-Range does not start at the offset.
Answered(r) ==
    /\ pc[r] = "lock"
    /\ Free(at[r])
    /\ Returns(r)
    /\ UNCHANGED <<diskVars, beginPc, handleVars, tableVars, prev, procVars, histVars>>

\* PATCH: Append starts, or refuses a finalized or poisoned session.
PatchBegin(r) ==
    LET h == at[r] IN
    /\ pc[r] = "lock"
    /\ Free(h) /\ ~upDone[h] /\ ~upPoisoned[h]
    /\ IF st[h] = "live" /\ ~poisoned[h]
       THEN /\ upLock' = [upLock EXCEPT ![h] = r]
            /\ busy' = [busy EXCEPT ![h] = TRUE]
            /\ verb' = [verb EXCEPT ![r] = "patch"]
            /\ Goes(r, "copy")
            /\ UNCHANGED <<at, upPoisoned>>
       ELSE /\ upPoisoned' = [upPoisoned EXCEPT ![h] = TRUE]
            /\ Returns(r)
            /\ UNCHANGED <<upLock, busy>>
    /\ UNCHANGED <<diskVars, beginPc, used, st, fd, sum, poisoned, upDone, tableVars, prev,
                   procVars, histVars>>

\* Abort, or the removal tail of Commit: a finished session is left alone.
AbortPc(h) == IF st[h] = "live" THEN "rmdir" ELSE "ending"

\* PUT: a bad digest or a poisoned upload is aborted; a body is appended first.
PutBegin(r) ==
    LET h == at[r] IN
    /\ pc[r] = "lock"
    /\ Free(h) /\ ~upDone[h]
    /\ upLock' = [upLock EXCEPT ![h] = r]
    /\ busy' = [busy EXCEPT ![h] = st[h] = "live"]
    /\ verb' = [verb EXCEPT ![r] = "put"]
    /\ \/ Goes(r, AbortPc(h))
       \/ /\ ~upPoisoned[h]
          /\ st[h] = "live"
          /\ ~poisoned[h]
          /\ Goes(r, "copy") \/ Goes(r, "commit")
    /\ UNCHANGED <<diskVars, beginPc, used, st, fd, sum, poisoned, upDone, upPoisoned, tableVars,
                   at, prev, procVars, histVars>>

\* DELETE and the eviction both Abort under the lock, whatever liveUpload says.
AbortBegin(a) ==
    LET h == at[a] IN
    /\ pc[a] = "lock"
    /\ Free(h)
    /\ upLock' = [upLock EXCEPT ![h] = a]
    /\ busy' = [busy EXCEPT ![h] = st[h] = "live"]
    /\ verb' = [verb EXCEPT ![a] = IF a = Evictor THEN "evict" ELSE "delete"]
    /\ Goes(a, AbortPc(h))
    /\ UNCHANGED <<diskVars, beginPc, used, st, fd, sum, poisoned, upDone, upPoisoned, tableVars,
                   at, prev, procVars, histVars>>

\* One write at the descriptor's position, which is where the digests stand.
WriteAt(f, n, b) ==
    [i \in 1 .. (IF n < Len(f) THEN Len(f) ELSE n + 1) |-> IF i = n + 1 THEN b ELSE f[i]]

\* ResumeSession reads the file first and detaches the handle it replaces last: a file that
\* handle writes or publishes in between is not the one the rebuild took its digests from.
Watched(f) == \E r \in Reqs : pc[r] \in {"hash", "register", "detach"} /\ fd[at[r]] = f
Overtakes(cond, f) == overtaken' = overtaken \cup (IF cond THEN {f} ELSE {})

\* One turn of copyWithCtx: file first, digests second.
CopyChunk(r, b) ==
    LET h == at[r] IN
    /\ pc[r] = "copy"
    /\ Len(sum[h]) < MaxLen
    /\ file' = [file EXCEPT ![fd[h]] = WriteAt(@, Len(sum[h]), b)]
    /\ sum' = [sum EXCEPT ![h] = Append(@, b)]
    /\ Overtakes(Watched(fd[h]), fd[h])
    /\ UNCHANGED <<row, dir, path, blobs, beginPc, used, st, fd, poisoned, busy, upLock, upDone,
                   upPoisoned, tableVars, reqVars, procVars, acked, ended>>

\* Slip: a failed Append does not poison the session.
AppendReturnsHealthy(r, ok) ==
    LET h == at[r] IN
    /\ busy' = [busy EXCEPT ![h] = FALSE]
    /\ upLock' = [upLock EXCEPT ![h] = None]
    /\ acked' = IF ok THEN sum[h] ELSE acked
    /\ Returns(r)
    /\ UNCHANGED <<poisoned, upPoisoned>>

\* The end of an Append on h by r gives s.mu back: a PATCH answers, a PUT goes on to the Commit
\* or the Abort.
AppendReturns(r, ok) ==
    LET h == at[r] IN
    /\ poisoned' = [poisoned EXCEPT ![h] = ~ok]
    /\ busy' = [busy EXCEPT ![h] = FALSE]
    /\ IF verb[r] = "patch"
       THEN /\ upLock' = [upLock EXCEPT ![h] = None]
            /\ upPoisoned' = [upPoisoned EXCEPT ![h] = ~ok]
            /\ acked' = IF ok THEN sum[h] ELSE acked
            /\ Returns(r)
       ELSE /\ Goes(r, "appended")
            /\ UNCHANGED <<upLock, upPoisoned, acked, verb, at>>

\* End of body: the row's state is written, which a missing row refuses.
CopyEnds(r) ==
    /\ pc[r] = "copy"
    /\ AppendReturns(r, row # "none")
    /\ UNCHANGED <<diskVars, beginPc, used, st, fd, sum, upDone, tableVars, prev, procVars, ended,
                   overtaken>>

\* The read, the write, the context or the row update fails; a partial write can leave
\* the file ahead of the digests.
CopyFails(r) ==
    LET h == at[r] IN
    /\ pc[r] = "copy"
    /\ \/ UNCHANGED <<file, overtaken>>
       \/ /\ Len(sum[h]) < MaxLen
          /\ Overtakes(Watched(fd[h]), fd[h])
          /\ \E b \in Bytes : file' = [file EXCEPT ![fd[h]] = WriteAt(@, Len(sum[h]), b)]
    /\ AppendReturns(r, FALSE)
    /\ UNCHANGED <<row, dir, path, blobs, beginPc, used, st, fd, sum, upDone, tableVars, prev,
                   procVars, ended>>

\* Commit, or Abort after a failed Append, takes s.mu again; a handle that was detached in between
\* is left alone.
PutGoesOn(r) ==
    LET h == at[r] IN
    /\ pc[r] = "appended"
    /\ busy' = [busy EXCEPT ![h] = st[h] = "live"]
    /\ Goes(r, IF st[h] = "live" /\ ~poisoned[h] THEN "commit" ELSE AbortPc(h))
    /\ UNCHANGED <<diskVars, beginPc, used, st, fd, sum, poisoned, upLock, upDone, upPoisoned,
                   tableVars, verb, at, prev, procVars, histVars>>

\* Commit: publish under the digest, by the name of the data file, unless it is there.
\* (When only the directory fsync then fails, the blob stays and the removal is the same.)
CommitPublish(r) ==
    LET h == at[r] IN
    /\ pc[r] = "commit"
    /\ Goes(r, "rmdir")
    /\ ended' = TRUE
    /\ \/ /\ \E x \in blobs : x.digest = sum[h]
          /\ UNCHANGED <<path, blobs, overtaken>>
       \/ /\ \A x \in blobs : x.digest # sum[h]
          /\ path # None
          /\ blobs' = blobs \cup {[digest |-> sum[h], ino |-> path]}
          /\ path' = None
          /\ Overtakes(Watched(path) \/ fd[h] \in overtaken, path)
    /\ UNCHANGED <<row, dir, file, beginPc, handleVars, tableVars, verb, at, prev, procVars, acked>>

\* The digest is not the expected one, or the context, an fsync or the rename fails.
CommitFails(r) ==
    /\ pc[r] = "commit"
    /\ Goes(r, "rmdir")
    /\ poisoned' = [poisoned EXCEPT ![at[r]] = TRUE]
    /\ UNCHANGED <<diskVars, beginPc, used, st, fd, sum, busy, upLock, upDone, upPoisoned,
                   tableVars, verb, at, prev, procVars, histVars>>

\* finishLocked, first half: RemoveAll of the directory, best effort.
FinishDir(a) ==
    /\ pc[a] = "rmdir"
    /\ st' = [st EXCEPT ![at[a]] = "done"]
    /\ ended' = TRUE
    /\ \/ dir' = FALSE /\ path' = None
       \/ UNCHANGED <<dir, path>>
    /\ Goes(a, "delrow")
    /\ UNCHANGED <<row, file, blobs, beginPc, used, fd, sum, poisoned, busy, upLock, upDone,
                   upPoisoned, tableVars, verb, at, prev, procVars, acked, overtaken>>

\* Slip: the finished session is not forgotten.
FinishRowKeeps(a) ==
    /\ pc[a] = "delrow"
    /\ row' \in {"none", row}
    /\ busy' = [busy EXCEPT ![at[a]] = FALSE]
    /\ Goes(a, "ending")
    /\ UNCHANGED <<dir, path, file, blobs, beginPc, used, st, fd, sum, poisoned, upLock, upDone,
                   upPoisoned, tableVars, verb, at, prev, procVars, histVars>>

\* finishLocked, second half: the row, best effort, and the table entry if it is ours.
FinishRow(a) ==
    LET h == at[a] IN
    /\ pc[a] = "delrow"
    /\ row' \in {"none", row}
    /\ reg' = IF reg = h THEN None ELSE reg
    /\ busy' = [busy EXCEPT ![h] = FALSE]
    /\ Goes(a, "ending")
    /\ UNCHANGED <<dir, path, file, blobs, beginPc, used, st, fd, sum, poisoned, upLock, upDone,
                   upPoisoned, closed, closing, byID, flyer, sweeper, verb, at, prev, procVars,
                   histVars>>

\* The verb is over.  A PUT leaves the registry inside the lock, a DELETE after it, and the
\* eviction, which left it first, only poisons the entry.
VerbEnds(a) ==
    LET h == at[a] IN
    /\ pc[a] = "ending"
    /\ upLock' = [upLock EXCEPT ![h] = None]
    /\ upDone' = [upDone EXCEPT ![h] = @ \/ verb[a] # "evict"]
    /\ upPoisoned' = [upPoisoned EXCEPT ![h] = @ \/ verb[a] = "evict"]
    /\ byID' = IF verb[a] = "put" THEN None ELSE byID
    /\ IF verb[a] = "delete" THEN Goes(a, "remove") /\ UNCHANGED <<verb, at>>
                             ELSE Returns(a)
    /\ UNCHANGED <<diskVars, beginPc, used, st, fd, sum, poisoned, busy, reg, closed, closing,
                   flyer, sweeper, prev, procVars, histVars>>

DeleteRemoves(r) ==
    /\ pc[r] = "remove"
    /\ byID' = None
    /\ Returns(r)
    /\ UNCHANGED <<diskVars, beginPc, handleVars, reg, closed, closing, flyer, sweeper, prev,
                   procVars, histVars>>

\* evictIdle, under the registry lock: an entry older than the idle bound is dropped, then
\* aborted.  The entry is never older than its row, so the row has expired too unless its
\* configured lifetime is longer than the bound.
EvictIdle ==
    /\ sweeper
    /\ pc[Evictor] = "idle"
    /\ byID # None
    /\ RowOutlivesIdle \/ row # "live"
    /\ byID' = None
    /\ at' = [at EXCEPT ![Evictor] = byID]
    /\ Goes(Evictor, "lock")
    /\ UNCHANGED <<diskVars, beginPc, handleVars, reg, closed, closing, flyer, sweeper, verb,
                   prev, procVars, histVars>>

-----------------------------------------------------------------------------
(* sweepSessions: the expired rows, then the directories without a row. *)

SweepGoes(to) ==
    /\ sweep' = to
    /\ sweepErr' = FALSE
    /\ UNCHANGED <<serving, restarts>>

\* The pass is over; the one of OpenEngine opens the engine.
SweepEnds ==
    /\ sweep' = "off"
    /\ sweepErr' = FALSE
    /\ serving' = TRUE
    /\ UNCHANGED restarts

RemoveUploadDir ==
    /\ dir' = FALSE
    /\ path' = None
    /\ UNCHANGED <<file, blobs, histVars>>

SweepStart ==
    /\ OnlineSweep
    /\ serving
    /\ sweep = "off"
    /\ SweepGoes("list")
    /\ UNCHANGED <<diskVars, beginPc, handleVars, tableVars, reqVars, histVars>>

\* ListExpired.
SweepList ==
    /\ sweep = "list"
    /\ SweepGoes(IF row = "expired" THEN "live" ELSE "readdir")
    /\ UNCHANGED <<diskVars, beginPc, handleVars, tableVars, reqVars, histVars>>

\* isLiveSession on the listed row.
SweepLive ==
    /\ sweep = "live"
    /\ SweepGoes(IF reg # None THEN "readdir" ELSE "rmdir")
    /\ UNCHANGED <<diskVars, beginPc, handleVars, tableVars, reqVars, histVars>>

SweepDir ==
    /\ sweep = "rmdir"
    /\ RemoveUploadDir
    /\ SweepGoes("delrow")
    /\ UNCHANGED <<row, beginPc, handleVars, tableVars, reqVars>>

SweepRow ==
    /\ sweep = "delrow"
    /\ row' = "none"
    /\ SweepGoes("readdir")
    /\ UNCHANGED <<dir, path, file, blobs, beginPc, handleVars, tableVars, reqVars, histVars>>

\* ReadDir of uploads/.
SweepReadDir ==
    /\ sweep = "readdir"
    /\ IF dir THEN SweepGoes("orphanLive") ELSE SweepEnds
    /\ UNCHANGED <<diskVars, beginPc, handleVars, tableVars, reqVars, histVars>>

SweepOrphanLive ==
    /\ sweep = "orphanLive"
    /\ IF reg # None THEN SweepEnds ELSE SweepGoes("orphanRow")
    /\ UNCHANGED <<diskVars, beginPc, handleVars, tableVars, reqVars, histVars>>

\* Any row protects its directory, an expired one too.
SweepOrphanRow ==
    /\ sweep = "orphanRow"
    /\ IF row # "none" THEN SweepEnds ELSE SweepGoes("orphanRm")
    /\ UNCHANGED <<diskVars, beginPc, handleVars, tableVars, reqVars, histVars>>

SweepOrphanDir ==
    /\ sweep = "orphanRm"
    /\ RemoveUploadDir
    /\ SweepEnds
    /\ UNCHANGED <<row, beginPc, handleVars, tableVars, reqVars>>

\* A query or a removal fails: the row leg goes on with the directories, the directory leg
\* with the next entry.  An OpenEngine whose pass failed is tried again (the row that is
\* still there protects the directory from the rest of that pass).
SweepFails ==
    /\ sweep \in {"list", "rmdir", "delrow", "readdir", "orphanRow", "orphanRm"}
    /\ sweep' = CASE ~serving -> "list"
                  [] serving /\ sweep \in {"rmdir", "delrow"} -> "readdir"
                  [] OTHER -> "off"
    /\ sweepErr' = TRUE
    /\ UNCHANGED <<serving, restarts, diskVars, beginPc, handleVars, tableVars, reqVars, histVars>>

-----------------------------------------------------------------------------
(* Time, Close, and the end of the process. *)

\* A row lives for hours, a BeginSession for much less.
RowExpires ==
    /\ row = "live"
    /\ beginPc \in {"granted", "failed"}
    /\ row' = "expired"
    /\ UNCHANGED <<dir, path, file, blobs, beginPc, handleVars, tableVars, reqVars, procVars,
                   histVars>>

\* Close forgets the table, then detaches what was in it.
Close ==
    /\ serving
    /\ ~closed
    /\ closed' = TRUE
    /\ closing' = reg
    /\ reg' = None
    /\ UNCHANGED <<diskVars, beginPc, handleVars, byID, flyer, sweeper, reqVars, procVars, histVars>>

CloseDetach ==
    /\ closing # None
    /\ ~busy[closing]
    /\ st' = [st EXCEPT ![closing] = "done"]
    /\ closing' = None
    /\ UNCHANGED <<diskVars, beginPc, used, fd, sum, poisoned, busy, upLock, upDone, upPoisoned,
                   reg, closed, byID, flyer, sweeper, reqVars, procVars, histVars>>

\* kill -9, or the exit after Close: memory is gone, files and row stay, and the next
\* process opens the engine with a sweep.
ProcessEnds ==
    /\ restarts < MaxRestarts
    /\ restarts' = restarts + 1
    /\ serving' = FALSE
    /\ sweep' = "list"
    /\ sweepErr' = FALSE
    /\ beginPc' = IF beginPc \in {"dir", "row", "file"} THEN "failed" ELSE beginPc
    /\ st' = [h \in Handles |-> IF st[h] = "unmade" THEN "unmade" ELSE "done"]
    /\ poisoned' = [h \in Handles |-> FALSE]
    /\ busy' = [h \in Handles |-> FALSE]
    /\ upLock' = [h \in Handles |-> None]
    /\ upDone' = [h \in Handles |-> FALSE]
    /\ upPoisoned' = [h \in Handles |-> FALSE]
    /\ reg' = None
    /\ closed' = FALSE
    /\ closing' = None
    /\ byID' = None
    /\ flyer' = None
    /\ sweeper' = FALSE
    /\ pc' = [a \in Actors |-> "idle"]
    /\ verb' = [a \in Actors |-> "none"]
    /\ at' = [a \in Actors |-> None]
    /\ prev' = [a \in Actors |-> None]
    /\ fd' = [h \in Handles |-> None]
    /\ sum' = [h \in Handles |-> <<>>]
    /\ UNCHANGED <<diskVars, used, histVars>>

-----------------------------------------------------------------------------
BeginStep == BeginDir \/ BeginRow \/ BeginFile \/ BeginRegister \/ BeginFails

FinishStep(a) == AbortBegin(a) \/ FinishDir(a) \/ FinishRow(a) \/ VerbEnds(a)

ResumeStep(r) ==
    \/ ResumeGet(r) \/ ResumeOpen(r) \/ ResumeHash(r) \/ ResumeRegister(r)
    \/ ResumeDetach(r) \/ ResumePublish(r) \/ ResumeFails(r)

VerbStep(r) ==
    \/ Answered(r) \/ PatchBegin(r) \/ PutBegin(r)
    \/ CopyEnds(r) \/ CopyFails(r) \/ PutGoesOn(r) \/ CommitPublish(r) \/ CommitFails(r)
    \/ DeleteRemoves(r) \/ FinishStep(r)

SweepStep ==
    \/ SweepList \/ SweepLive \/ SweepDir \/ SweepRow \/ SweepReadDir
    \/ SweepOrphanLive \/ SweepOrphanRow \/ SweepOrphanDir \/ SweepFails

Next ==
    \/ BeginStep
    \/ OtherUploadBegins
    \/ \E r \in Reqs : Arrive(r) \/ ResumeStep(r) \/ VerbStep(r) \/ \E b \in Bytes : CopyChunk(r, b)
    \/ EvictIdle
    \/ FinishStep(Evictor)
    \/ SweepStart
    \/ SweepStep
    \/ RowExpires
    \/ Close
    \/ CloseDetach
    \/ ProcessEnds

Spec == Init /\ [][Next]_vars

\* Requests end: a body is finite or its connection breaks.  The sweep runs again and
\* again, and its queries and removals fail only finitely often.  Rows expire.  In every
\* process somebody starts a new upload, which is what starts the eviction ticker.
FairSpec ==
    /\ Spec
    /\ WF_vars(BeginStep)
    /\ \A r \in Reqs : WF_vars(ResumeStep(r)) /\ WF_vars(VerbStep(r))
    /\ WF_vars(EvictIdle)
    /\ WF_vars(FinishStep(Evictor))
    /\ WF_vars(SweepStart)
    /\ WF_vars(SweepStep)
    /\ <>[]~sweepErr
    /\ WF_vars(RowExpires)
    /\ WF_vars(CloseDetach)
    /\ WF_vars(OtherUploadBegins)

-----------------------------------------------------------------------------
(* Properties. *)

\* Every variable has its type, and a rebuild registered in the docker registry belongs to
\* a request that is still rebuilding (resolve).
TypeOK ==
    /\ row \in {"none", "live", "expired"}
    /\ dir \in BOOLEAN
    /\ path \in Handles \cup {None}
    /\ file \in [Handles -> Contents]
    /\ blobs \subseteq [digest : Contents, ino : Handles]
    /\ beginPc \in {"off", "dir", "row", "file", "granted", "failed"}
    /\ used \in 0 .. MaxHandles
    /\ st \in [Handles -> {"unmade", "opened", "live", "done"}]
    /\ fd \in [Handles -> Handles \cup {None}]
    /\ sum \in [Handles -> Contents]
    /\ poisoned \in [Handles -> BOOLEAN]
    /\ busy \in [Handles -> BOOLEAN]
    /\ upLock \in [Handles -> Actors \cup {None}]
    /\ upDone \in [Handles -> BOOLEAN]
    /\ upPoisoned \in [Handles -> BOOLEAN]
    /\ reg \in Handles \cup {None}
    /\ closed \in BOOLEAN
    /\ closing \in Handles \cup {None}
    /\ byID \in Handles \cup {None}
    /\ flyer \in {None} \cup {r \in Reqs : pc[r] \in RebuildPcs}
    /\ sweeper \in BOOLEAN
    /\ pc \in [Actors -> RebuildPcs \cup {"idle", "join", "lock", "copy", "appended",
                                         "commit", "rmdir", "delrow", "ending", "remove"}]
    /\ verb \in [Actors -> {"none", "patch", "put", "delete", "evict"}]
    /\ at \in [Actors -> Handles \cup {None}]
    /\ prev \in [Actors -> Handles \cup {None}]
    /\ serving \in BOOLEAN
    /\ sweep \in {"off", "list", "live", "rmdir", "delrow", "readdir", "orphanLive", "orphanRow",
                  "orphanRm"}
    /\ sweepErr \in BOOLEAN
    /\ restarts \in 0 .. MaxRestarts
    /\ acked \in Contents
    /\ ended \in BOOLEAN
    /\ overtaken \subseteq Handles

\* What is stored under a digest has that digest (session.go on Append: "a file whose content
\* does not match its computed digest" entering the blob store "must never happen").
BlobIsWhole == \A x \in blobs : file[x.ino] = x.digest

\* That holds of every blob, unless a rebuild had its file open while the handle before it
\* wrote or published it, whatever appends failed, and whatever was aborted, evicted, swept or restarted.
BlobMatchesDigest == \A x \in blobs : x.ino \in overtaken \/ file[x.ino] = x.digest

\* The offset of a healthy session that a client can reach is the length of its data file,
\* and its digests cover exactly those bytes (session.go on Offset), with the same exception.
OffsetIsFileLength ==
    \A h \in Handles :
        (st[h] = "live" /\ byID = h /\ ~poisoned[h] /\ fd[h] \notin overtaken)
            => sum[h] = file[fd[h]]

\* Bytes a 202 confirmed are still in the data file as long as the row is live and nobody
\* finished or removed the upload, across poisoned appends, Close, crashes and rebuilds; only
\* the sweep of a serving process takes the whole file (LiveSessionKeepsItsFile), and only the
\* offset of an overtaken rebuild lies before them.
AckedBytesSurvive ==
    (row = "live" /\ ~ended /\ beginPc = "granted") =>
        \/ path = None /\ OnlineSweep
        \/ path \in overtaken
        \/ /\ path # None
           /\ Len(acked) <= Len(file[path])
           /\ SubSeq(file[path], 1, Len(acked)) = acked

\* api.go on SweepExpiredSessions: "Live sessions of this process are never reclaimed."
LiveSessionKeepsItsFile ==
    \A h \in Handles : (reg = h /\ st[h] = "live" /\ ~ended) => path = fd[h]

\* At most one handle of the upload is inside an operation at a time, even when a rebuild
\* replaces a handle that is in the middle of an append.
OneWriter == Cardinality({h \in Handles : busy[h]}) <= 1

\* Every upload eventually leaves neither a row nor a directory behind.
ResidueIsReclaimed == (row # "none" \/ dir) ~> (row = "none" /\ ~dir)

\* A request that waits for another one's rebuild gets its outcome, also when the rebuild
\* has to wait for the append of the handle it replaces.
JoinedRebuildEnds == \A r \in Reqs : (pc[r] = "join") ~> (pc[r] # "join")
=============================================================================
