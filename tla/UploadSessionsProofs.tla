------------------------ MODULE UploadSessionsProofs ------------------------
(***************************************************************************)
(* Proofs about UploadSessions, for any number of requests, handles and    *)
(* restarts, any upload length, and either order of the two lifetimes.     *)
(*                                                                         *)
(* TableInv says who owns a handle: every live or working one is in the    *)
(* engine's table or is about to be detached, and the handle of a rebuild  *)
(* is private until it is published.  FileInv adds what such a handle's    *)
(* descriptor, digests and file have to do with each other, NothingIsLost  *)
(* what a confirmed content has to do with the file.  A step is first      *)
(* reduced to one of a few kinds (TableStep, FileStep), and each part of   *)
(* the invariant is shown to survive each kind.                            *)
(***************************************************************************)
EXTENDS UploadSessions, FiniteSetTheorems, SequenceTheorems, TLAPS

Working == {"copy", "commit", "rmdir", "delrow"}
Locked == Working \cup {"appended", "ending"}
Reading == {"hash", "register", "detach"}

\* Nothing names a handle that was not made, and one that was not made is blank.
HandlesAreMade ==
    /\ used \in 0 .. MaxHandles
    /\ {reg, closing, byID} \subseteq 0 .. used
    /\ \A a \in Actors : prev[a] \in 0 .. used
    /\ \A a \in Actors : at[a] \in 0 .. used
    /\ \A a \in Actors : at[a] = None <=> pc[a] \in {"idle", "join", "get", "open"}
    /\ \A h \in Handles : fd[h] \in 0 .. used
    /\ \A h \in Handles :
           h > used => st[h] \in {"unmade", "done"} /\ ~busy[h] /\ upLock[h] = None

\* Before the grant there is at most the handle of BeginSession, and nobody uses it.
BeforeGrant ==
    /\ beginPc \in {"off", "dir", "row"} => used = 0
    /\ beginPc = "file" => used = 1 /\ st[1] = "opened" /\ fd[1] = 1
    /\ beginPc # "granted" =>
           /\ byID = None /\ reg = None /\ closing = None
           /\ \A a \in Actors : pc[a] = "idle"
           /\ \A h \in Handles : st[h] # "live" /\ upLock[h] = None

\* One rebuild at a time, and the eviction is none.
OneFlyer ==
    /\ flyer \in Reqs \cup {None}
    /\ \A r \in Reqs : pc[r] \in RebuildPcs <=> flyer = r
    /\ \A r \in Reqs : pc[r] = "join" => flyer # None
    /\ \A r \in Reqs : pc[r] \in {"get", "open"} => used < MaxHandles
    /\ pc[Evictor] \in {"idle", "lock", "rmdir", "delrow", "ending"}
    /\ verb[Evictor] \in {"none", "evict"}

\* Until a rebuild is published its handle is known to it alone.
FlightIsPrivate ==
    \A r \in Reqs : pc[r] \in Reading \cup {"publish"} =>
        /\ \A a \in Actors : a # r => at[a] # at[r]
        /\ byID # at[r]
        /\ upLock[at[r]] = None
        /\ pc[r] \in {"hash", "register"} => st[at[r]] = "opened"
        /\ pc[r] \in {"detach", "publish"} => st[at[r]] \in {"live", "done"}
        /\ pc[r] = "detach" =>
               /\ prev[r] # None /\ prev[r] # at[r]
               /\ reg \in {None, at[r]} /\ closing \in {None, at[r]}

\* The two mutexes: liveUpload.mu is held by the verb it names, s.mu while that verb works.
LocksAreHeld ==
    /\ \A a \in Actors : pc[a] \in Locked => upLock[at[a]] = a
    /\ \A h \in Handles :
           upLock[h] # None =>
               upLock[h] \in Actors /\ at[upLock[h]] = h /\ pc[upLock[h]] \in Locked
    /\ \A h \in Handles : busy[h] <=> (upLock[h] # None /\ pc[upLock[h]] \in Working)

\* A verb works on a live handle, and appends to or commits a healthy one.
WorkersAreLive ==
    \A a \in Actors :
        /\ pc[a] \in {"copy", "commit", "rmdir"} => st[at[a]] = "live"
        /\ pc[a] = "delrow" => st[at[a]] = "done"
        /\ pc[a] \in {"copy", "commit"} => ~poisoned[at[a]]
        /\ pc[a] \in Locked \cup {"lock"} => st[at[a]] \in {"live", "done"}

\* A handle that lives or works is in the engine's table, or somebody is about to detach it.
LiveIsTabled ==
    \A h \in Handles : (st[h] = "live" \/ busy[h]) =>
        reg = h \/ closing = h \/ \E r \in Reqs : pc[r] = "detach" /\ prev[r] = h

\* A handle that is opened and not yet live belongs to BeginSession or to the rebuild.
OpenedIsHeld ==
    \A h \in Handles : st[h] = "opened" =>
        (beginPc = "file" /\ h = 1) \/ \E r \in Reqs : pc[r] \in {"hash", "register"} /\ at[r] = h

\* The tables name handles that were published, and Close empties the engine's.
TablesAreLive ==
    /\ \A h \in Handles : (reg = h \/ closing = h \/ byID = h) => st[h] \in {"live", "done"}
    /\ closing # None => closed
    /\ closed => reg = None

TableInv ==
    /\ HandlesAreMade
    /\ BeforeGrant
    /\ OneFlyer
    /\ FlightIsPrivate
    /\ LocksAreHeld
    /\ WorkersAreLive
    /\ LiveIsTabled
    /\ OpenedIsHeld
    /\ TablesAreLive

\* The files were made by handles, and before the grant nothing is published.
FilesAreMade ==
    /\ path \in 0 .. used
    /\ \A x \in blobs : x.ino \in 1 .. used
    /\ \A h \in Handles : h > used => sum[h] = <<>> /\ file[h] = <<>>
    /\ beginPc # "granted" => blobs = {}

\* An open handle has a file, and no handle is ahead of its file.
HandlesHaveFiles ==
    \A h \in Handles :
        /\ st[h] \in {"opened", "live"} => fd[h] # None
        /\ fd[h] # None => Len(sum[h]) <= Len(file[fd[h]])

\* A handle that may still write its file.
Writes(h) == st[h] \in {"opened", "live"} /\ \A a \in Actors : ~(pc[a] = "rmdir" /\ at[a] = h)

\* Unless it was overtaken, the file of such a handle is the upload's data file, or that is
\* gone with its directory; and it is not a published blob.
FileIsTheUploads ==
    /\ path # None => \A x \in blobs : x.ino # path
    /\ \A h \in Handles : (Writes(h) /\ fd[h] \notin overtaken) =>
           /\ path = fd[h] \/ (path = None /\ ~dir)
           /\ \A x \in blobs : x.ino # fd[h]

\* The digests of a healthy handle were fed exactly the bytes of its file.
DigestsFollowFile ==
    \A h \in Handles :
        (/\ st[h] \in {"opened", "live"}
         /\ ~poisoned[h]
         /\ fd[h] \notin overtaken
         /\ \A r \in Reqs : ~(pc[r] = "hash" /\ at[r] = h)) => sum[h] = file[fd[h]]

\* As long as nothing began to remove the upload it has one file, which a confirmed content
\* is a prefix of, and a sweep that would take it has not seen a live row.
NothingIsLost ==
    /\ ~serving => beginPc \in {"off", "granted", "failed"}
    /\ ~OnlineSweep =>
           /\ sweep # "off" => ~serving
           /\ sweep \in {"live", "rmdir", "delrow"} => row # "live"
           /\ sweep = "orphanRm" => row = "none"
    /\ ~ended =>
           /\ path \in {None, 1}
           /\ \A h \in Handles : fd[h] \in {None, 1}
           /\ (path = None /\ beginPc \in {"file", "granted"}) => ~dir
           /\ (path = None /\ beginPc \in {"file", "granted"} /\ row = "live") => OnlineSweep
           /\ 1 \notin overtaken =>
                  /\ Len(acked) <= Len(file[1])
                  /\ \A i \in 1 .. Len(acked) : acked[i] = file[1][i]

FileInv ==
    /\ TypeOK
    /\ FilesAreMade
    /\ HandlesHaveFiles
    /\ FileIsTheUploads
    /\ DigestsFollowFile
    /\ BlobMatchesDigest
AllInv == TableInv /\ FileInv /\ NothingIsLost
-----------------------------------------------------------------------------
(* The contents of a file. *)

LEMMA ContentsAre ==
  ASSUME NEW s
  PROVE  s \in Contents <=> s \in Seq(Bytes) /\ Len(s) <= MaxLen
<1>1. ASSUME s \in Contents PROVE s \in Seq(Bytes) /\ Len(s) <= MaxLen
  <2>1. PICK n \in 0 .. MaxLen : s \in [1 .. n -> Bytes]
    BY <1>1 DEF Contents
  <2> QED
    BY <2>1, SessionConstants
<1>2. ASSUME s \in Seq(Bytes), Len(s) <= MaxLen PROVE s \in Contents
  <2>1. Len(s) \in 0 .. MaxLen /\ s \in [1 .. Len(s) -> Bytes]
    BY <1>2, SessionConstants
  <2> QED
    BY <2>1 DEF Contents
<1> QED
  BY <1>1, <1>2

\* A write inside or at the end of a file changes one byte, and never shortens the file.
LEMMA WriteAtIs ==
  ASSUME NEW f \in Contents, NEW n \in Nat, n < MaxLen, n <= Len(f), NEW b \in Bytes
  PROVE  /\ WriteAt(f, n, b) \in Contents
         /\ Len(WriteAt(f, n, b)) = IF n < Len(f) THEN Len(f) ELSE n + 1
         /\ \A i \in 1 .. Len(f) : i # n + 1 => WriteAt(f, n, b)[i] = f[i]
         /\ WriteAt(f, n, b)[n + 1] = b
<1> DEFINE w == WriteAt(f, n, b)
           l == IF n < Len(f) THEN Len(f) ELSE n + 1
<1>1. f \in Seq(Bytes) /\ Len(f) \in Nat /\ Len(f) <= MaxLen /\ MaxLen \in Nat
  BY ContentsAre, SessionConstants
<1>2. l \in Nat /\ l <= MaxLen
  BY <1>1
<1>3. w = [i \in 1 .. l |-> IF i = n + 1 THEN b ELSE f[i]]
  BY DEF WriteAt
<1>4. \A i \in 1 .. l : i = n + 1 \/ i \in 1 .. Len(f)
  BY <1>1
<1>5. \A i \in 1 .. l : (IF i = n + 1 THEN b ELSE f[i]) \in Bytes
  BY <1>1, <1>4
<1> HIDE DEF l, w
<1>6. w \in [1 .. l -> Bytes]
  BY <1>3, <1>5
<1>7. w \in Seq(Bytes) /\ Len(w) = l
  BY <1>2, <1>6
<1>8. n + 1 \in 1 .. l /\ \A i \in 1 .. Len(f) : i \in 1 .. l
  BY <1>1 DEF l
<1> QED
  BY <1>2, <1>3, <1>7, <1>8, ContentsAre DEF l, w

LEMMA AppendIs ==
  ASSUME NEW s \in Contents, Len(s) < MaxLen, NEW b \in Bytes
  PROVE  /\ Append(s, b) \in Contents
         /\ Len(Append(s, b)) = Len(s) + 1
         /\ Append(s, b) = WriteAt(s, Len(s), b)
<1>1. s \in Seq(Bytes) /\ Len(s) \in Nat /\ MaxLen \in Nat
  BY ContentsAre, SessionConstants
<1>2. Append(s, b) \in Seq(Bytes) /\ Len(Append(s, b)) = Len(s) + 1
  BY <1>1
<1>3. Append(s, b) = [i \in 1 .. Len(s) + 1 |-> IF i = Len(s) + 1 THEN b ELSE s[i]]
  <2>1. Append(s, b) \in [1 .. Len(s) + 1 -> Bytes]
    BY <1>2, LenProperties
  <2>2. \A i \in 1 .. Len(s) + 1 : Append(s, b)[i] = IF i = Len(s) + 1 THEN b ELSE s[i]
    BY <1>1, AppendProperties
  <2> QED
    BY <2>1, <2>2
<1> QED
  BY <1>1, <1>2, <1>3, ContentsAre DEF WriteAt

LEMMA EmptyIs == <<>> \in Contents /\ Len(<<>>) = 0
<1>1. <<>> \in Seq(Bytes) /\ Len(<<>>) = 0
  OBVIOUS
<1>2. 0 <= MaxLen
  BY SessionConstants
<1> QED
  BY <1>1, <1>2, ContentsAre

-----------------------------------------------------------------------------
(* What a step does to the handles, the locks and the requests. *)

\* Actor a goes to p with handle h in hand; the others stay where they are.
Hop(a, p, h) ==
    /\ pc'[a] = p /\ at'[a] = h
    /\ \A b \in Actors : b # a => pc'[b] = pc[b] /\ at'[b] = at[b]
    /\ verb'[Evictor] \in {verb[Evictor], "none", "evict"}

Rests ==
    UNCHANGED <<beginPc, used, st, fd, busy, upLock, poisoned, reg, closed, closing, byID, flyer,
                pc, at, prev, verb>>

Finds(r) ==
    /\ pc[r] = "idle" /\ beginPc = "granted" /\ byID # None
    /\ Hop(r, "lock", byID)
    /\ UNCHANGED <<beginPc, used, st, fd, busy, upLock, poisoned, reg, closed, closing, byID, flyer, prev>>

Joins(r) ==
    /\ pc[r] = "idle" /\ beginPc = "granted" /\ flyer # None
    /\ Hop(r, "join", None)
    /\ UNCHANGED <<beginPc, used, st, fd, busy, upLock, poisoned, reg, closed, closing, byID, flyer, prev>>

Flies(r) ==
    /\ pc[r] = "idle" /\ beginPc = "granted" /\ flyer = None /\ used < MaxHandles
    /\ Hop(r, "get", None)
    /\ flyer' = r
    /\ UNCHANGED <<beginPc, used, st, fd, busy, upLock, poisoned, reg, closed, closing, byID, prev>>

Reads(r) ==
    /\ \/ pc[r] = "get" /\ Hop(r, "open", None)
       \/ pc[r] = "hash" /\ Hop(r, "register", at[r])
    /\ UNCHANGED <<beginPc, used, st, fd, busy, upLock, poisoned, reg, closed, closing, byID, flyer, prev>>

Opens(r) ==
    /\ pc[r] = "open"
    /\ used' = used + 1 /\ used' \in Handles
    /\ Hop(r, "hash", used')
    /\ st'[used'] = "opened" /\ fd'[used'] \in 1 .. used'
    /\ \A h \in Handles : h # used' => st'[h] = st[h] /\ fd'[h] = fd[h]
    /\ UNCHANGED <<beginPc, busy, upLock, poisoned, reg, closed, closing, byID, flyer, prev>>

Registers(r) ==
    /\ pc[r] = "register" /\ ~closed
    /\ Hop(r, IF reg = None THEN "publish" ELSE "detach", at[r])
    /\ reg' = at[r]
    /\ prev'[r] = reg
    /\ \A a \in Actors : a # r => prev'[a] = prev[a]
    /\ st'[at[r]] = "live"
    /\ \A h \in Handles : h # at[r] => st'[h] = st[h]
    /\ UNCHANGED <<beginPc, used, fd, busy, upLock, poisoned, closed, closing, byID, flyer>>

Detaches(r) ==
    /\ pc[r] = "detach" /\ ~busy[prev[r]]
    /\ Hop(r, "publish", at[r])
    /\ st'[prev[r]] = "done"
    /\ \A h \in Handles : h # prev[r] => st'[h] = st[h]
    /\ UNCHANGED <<beginPc, used, fd, busy, upLock, poisoned, reg, closed, closing, byID, flyer, prev>>

Publishes(r) ==
    /\ pc[r] = "publish"
    /\ byID' = at[r]
    /\ flyer' = None
    /\ \A a \in Actors : a \in Party(r) => pc'[a] = "lock" /\ at'[a] = at[r]
    /\ \A a \in Actors : a \notin Party(r) => pc'[a] = pc[a] /\ at'[a] = at[a]
    /\ \A a \in Actors : prev'[a] \in {None, prev[a]}
    /\ UNCHANGED <<beginPc, used, st, fd, busy, upLock, poisoned, reg, closed, closing, verb>>

Fails(r) ==
    /\ pc[r] \in {"get", "open", "hash", "register"}
    /\ flyer' = None
    /\ \A a \in Actors : a \in Party(r) => pc'[a] = "idle" /\ at'[a] = None
    /\ \A a \in Actors : a \notin Party(r) => pc'[a] = pc[a] /\ at'[a] = at[a]
    /\ \A h \in Handles : st'[h] = IF h = at[r] THEN "done" ELSE st[h]
    /\ UNCHANGED <<beginPc, used, fd, busy, upLock, poisoned, reg, closed, closing, byID, prev, verb>>

\* A verb takes the upload's lock, unless it has it, and the session's if the session lives.
Takes(a, p) ==
    /\ \/ pc[a] = "lock" /\ upLock[at[a]] = None
       \/ pc[a] = "appended" /\ upLock[at[a]] = a
    /\ Hop(a, p, at[a])
    /\ a = Evictor => p \in {"rmdir", "ending"}
    /\ p # "ending" => st[at[a]] = "live"
    /\ p \in {"copy", "commit"} => ~poisoned[at[a]]
    /\ upLock'[at[a]] = a /\ busy'[at[a]] = (p # "ending")
    /\ \A h \in Handles : h # at[a] => upLock'[h] = upLock[h] /\ busy'[h] = busy[h]
    /\ UNCHANGED <<beginPc, used, st, fd, poisoned, reg, closed, closing, byID, flyer, prev>>

\* A request is answered without a lock in hand.
Answers(r) ==
    /\ pc[r] \in {"lock", "remove"}
    /\ Hop(r, "idle", None)
    /\ byID' \in {None, byID}
    /\ UNCHANGED <<beginPc, used, st, fd, busy, upLock, poisoned, reg, closed, closing, flyer, prev>>

\* A verb gives the locks back.
Releases(a) ==
    /\ pc[a] \in {"copy", "ending"}
    /\ Hop(a, "idle", None) \/ (a # Evictor /\ Hop(a, "remove", at[a]))
    /\ upLock'[at[a]] = None /\ busy'[at[a]] = FALSE
    /\ \A h \in Handles : h # at[a] =>
           upLock'[h] = upLock[h] /\ busy'[h] = busy[h] /\ poisoned'[h] = poisoned[h]
    /\ poisoned[at[a]] => poisoned'[at[a]]
    /\ byID' \in {None, byID}
    /\ UNCHANGED <<beginPc, used, st, fd, reg, closed, closing, flyer, prev>>

\* A verb goes on under its locks; between an append and what follows it the session's is free.
GoesOn(r, p) ==
    /\ pc[r] \in {"copy", "commit"}
    /\ Hop(r, p, at[r])
    /\ busy'[at[r]] = (p # "appended")
    /\ poisoned[at[r]] => poisoned'[at[r]]
    /\ \A h \in Handles : h # at[r] => busy'[h] = busy[h] /\ poisoned'[h] = poisoned[h]
    /\ UNCHANGED <<beginPc, used, st, fd, upLock, reg, closed, closing, byID, flyer, prev>>

Finishes(a) ==
    /\ pc[a] = "rmdir"
    /\ Hop(a, "delrow", at[a])
    /\ st'[at[a]] = "done"
    /\ \A h \in Handles : h # at[a] => st'[h] = st[h]
    /\ UNCHANGED <<beginPc, used, fd, busy, upLock, poisoned, reg, closed, closing, byID, flyer, prev>>

Forgets(a) ==
    /\ pc[a] = "delrow"
    /\ Hop(a, "ending", at[a])
    /\ reg' = IF reg = at[a] THEN None ELSE reg
    /\ busy'[at[a]] = FALSE
    /\ \A h \in Handles : h # at[a] => busy'[h] = busy[h]
    /\ UNCHANGED <<beginPc, used, st, fd, upLock, poisoned, closed, closing, byID, flyer, prev>>

Evicts ==
    /\ pc[Evictor] = "idle" /\ byID # None
    /\ Hop(Evictor, "lock", byID)
    /\ byID' = None
    /\ UNCHANGED <<beginPc, used, st, fd, busy, upLock, poisoned, reg, closed, closing, flyer, prev>>

TableStep ==
    \/ Rests \/ BeginDir \/ BeginRow \/ BeginFile \/ BeginRegister \/ BeginFails
    \/ \E r \in Reqs :
           \/ Finds(r) \/ Joins(r) \/ Flies(r) \/ Reads(r) \/ Opens(r) \/ Registers(r)
           \/ Detaches(r) \/ Publishes(r) \/ Fails(r) \/ Answers(r)
           \/ \E p \in {"appended", "rmdir"} : GoesOn(r, p)
    \/ \E a \in Actors :
           \/ \E p \in {"copy", "commit", "rmdir", "ending"} : Takes(a, p)
           \/ Releases(a) \/ Finishes(a) \/ Forgets(a)
    \/ Evicts \/ Close \/ CloseDetach \/ ProcessEnds

\* What a step does to the files besides.
FilesRest == UNCHANGED <<dir, path, file, blobs, sum, overtaken>>

MayRemove ==
    /\ (dir' = dir /\ path' = path) \/ (dir' = FALSE /\ path' = None)
    /\ UNCHANGED <<file, blobs, sum, overtaken>>

Creates(r) ==
    /\ Opens(r)
    /\ dir /\ dir' = dir
    /\ path' = IF path = None THEN used + 1 ELSE path
    /\ fd'[used + 1] = path'
    /\ UNCHANGED <<file, blobs, sum, overtaken>>

Hashes(r) ==
    /\ pc[r] = "hash"
    /\ Reads(r)
    /\ sum'[at[r]] = file[fd[at[r]]]
    /\ \A h \in Handles : h # at[r] => sum'[h] = sum[h]
    /\ UNCHANGED <<dir, path, file, blobs, overtaken>>

\* Writer r puts b behind what its digests cover.
WritesByte(r, b) ==
    /\ pc[r] = "copy"
    /\ Len(sum[at[r]]) < MaxLen
    /\ file'[fd[at[r]]] = WriteAt(file[fd[at[r]]], Len(sum[at[r]]), b)
    /\ \A f \in Handles : f # fd[at[r]] => file'[f] = file[f]
    /\ overtaken \subseteq overtaken'
    /\ Watched(fd[at[r]]) => fd[at[r]] \in overtaken'
    /\ UNCHANGED <<dir, path, blobs>>

Extends(r, b) ==
    /\ WritesByte(r, b)
    /\ Rests
    /\ sum'[at[r]] = Append(sum[at[r]], b)
    /\ \A h \in Handles : h # at[r] => sum'[h] = sum[h]

Tears(r, b) ==
    /\ WritesByte(r, b)
    /\ Releases(r) \/ GoesOn(r, "appended")
    /\ poisoned'[at[r]]
    /\ sum' = sum

Commits(r) ==
    /\ pc[r] = "commit" /\ path # None
    /\ GoesOn(r, "rmdir")
    /\ blobs' = blobs \cup {[digest |-> sum[at[r]], ino |-> path]}
    /\ path' = None
    /\ overtaken \subseteq overtaken'
    /\ (Watched(path) \/ fd[at[r]] \in overtaken) => path \in overtaken'
    /\ UNCHANGED <<dir, file, sum>>

FileStep ==
    \/ BeginDir \/ BeginRow \/ BeginFile \/ BeginFails \/ ProcessEnds
    \/ (Rests \/ \E a \in Actors : Finishes(a)) /\ MayRemove
    \/ \E r \in Reqs : Creates(r) \/ Hashes(r) \/ Commits(r)
    \/ \E r \in Reqs, b \in Bytes : Extends(r, b) \/ Tears(r, b)
    \/ /\ FilesRest
       /\ \/ BeginRegister \/ Evicts \/ Close \/ CloseDetach
          \/ \E r \in Reqs :
                 \/ Finds(r) \/ Joins(r) \/ Flies(r) \/ (pc[r] = "get" /\ Reads(r)) \/ Registers(r)
                 \/ Detaches(r) \/ Publishes(r) \/ Fails(r) \/ Answers(r)
                 \/ \E p \in {"appended", "rmdir"} : GoesOn(r, p)
          \/ \E a \in Actors :
                 \/ \E p \in {"copy", "commit", "rmdir", "ending"} : Takes(a, p)
                 \/ Releases(a) \/ Forgets(a)

\* A sweep removes the directory or the row; it touches no handle and no request.
LEMMA SweepEffect ==
  ASSUME TypeOK, SweepStart \/ SweepStep
  PROVE  /\ UNCHANGED <<file, blobs, beginPc, handleVars, tableVars, reqVars, histVars, restarts>>
         /\ row' \in {"none", row}
         /\ (dir' = dir /\ path' = path) \/ (dir' = FALSE /\ path' = None)
         /\ serving' \in {TRUE, serving}
         /\ sweepErr' \in BOOLEAN
         /\ sweep' \in {"off", "list", "live", "rmdir", "delrow", "readdir", "orphanLive",
                        "orphanRow", "orphanRm"}
  BY DEF TypeOK, SweepStart, SweepStep, SweepList, SweepLive, SweepDir, SweepRow, SweepReadDir,
         SweepOrphanLive, SweepOrphanRow, SweepOrphanDir, SweepFails, SweepGoes, SweepEnds,
         RemoveUploadDir, diskVars, handleVars, tableVars, reqVars, histVars

\* Every step is one of these.
LEMMA Steps ==
  ASSUME TypeOK, TableInv, FilesAreMade, HandlesHaveFiles, [Next]_vars
  PROVE  TableStep /\ FileStep
<1> USE SessionConstants
    DEF None, Handles, Actors, diskVars, handleVars, tableVars, reqVars, procVars, histVars
<1>0. /\ file \in [Handles -> Contents] /\ sum \in [Handles -> Contents]
      /\ pc \in [Actors -> RebuildPcs \cup {"idle", "join", "lock", "copy", "appended",
                                            "commit", "rmdir", "delrow", "ending", "remove"}]
      /\ at \in [Actors -> Handles \cup {None}] /\ prev \in [Actors -> Handles \cup {None}]
      /\ verb \in [Actors -> {"none", "patch", "put", "delete", "evict"}]
      /\ upLock \in [Handles -> Actors \cup {None}]
      /\ busy \in [Handles -> BOOLEAN] /\ poisoned \in [Handles -> BOOLEAN]
      /\ st \in [Handles -> {"unmade", "opened", "live", "done"}]
      /\ fd \in [Handles -> Handles \cup {None}]
      /\ used \in 0 .. MaxHandles
  BY DEF TypeOK
<1>h. \A a \in Actors :
        pc[a] \notin {"idle", "join", "get", "open"} => at[a] \in Handles
  BY <1>0 DEF TableInv, HandlesAreMade
<1>1. CASE UNCHANGED vars
  BY <1>1 DEF vars, TableStep, FileStep, Rests, MayRemove
<1>2. CASE OtherUploadBegins \/ RowExpires
  BY <1>2 DEF OtherUploadBegins, RowExpires, TableStep, FileStep, Rests, MayRemove
<1>3. CASE SweepStart \/ SweepStep
  <2>1. /\ UNCHANGED <<file, blobs, beginPc, handleVars, tableVars, reqVars, histVars>>
        /\ (dir' = dir /\ path' = path) \/ (dir' = FALSE /\ path' = None)
    BY <1>3, SweepEffect
  <2>2. Rests /\ MayRemove
    BY <2>1 DEF Rests, MayRemove
  <2> QED
    BY <2>2 DEF TableStep, FileStep
<1>4. CASE EvictIdle
  <2>1. Evicts /\ FilesRest
    BY <1>0, <1>4 DEF EvictIdle, Evicts, Hop, Goes, FilesRest
  <2> QED
    BY <2>1 DEF TableStep, FileStep
<1>5. ASSUME NEW r \in Reqs, Arrive(r) PROVE TableStep /\ FileStep
  <2>1. CASE byID # None
    <3>1. Finds(r) /\ FilesRest
      BY <1>0, <1>5, <2>1 DEF Arrive, Finds, Hop, Goes, FilesRest
    <3> QED
      BY <3>1 DEF TableStep, FileStep
  <2>2. CASE byID = None /\ flyer # None
    <3>1. Joins(r) /\ FilesRest
      BY <1>0, <1>5, <2>2 DEF Arrive, Joins, Hop, Goes, TableInv, HandlesAreMade, FilesRest
    <3> QED
      BY <3>1 DEF TableStep, FileStep
  <2>3. CASE byID = None /\ flyer = None
    <3>1. Flies(r) /\ FilesRest
      BY <1>0, <1>5, <2>3 DEF Arrive, Flies, Hop, Goes, TableInv, HandlesAreMade, FilesRest
    <3> QED
      BY <3>1 DEF TableStep, FileStep
  <2> QED
    BY <2>1, <2>2, <2>3
<1>6. ASSUME NEW r \in Reqs, ResumeGet(r) \/ ResumeHash(r) PROVE TableStep /\ FileStep
  <2>1. CASE ResumeGet(r)
    <3>1. pc[r] = "get" /\ Reads(r) /\ FilesRest
      BY <1>0, <2>1 DEF ResumeGet, Reads, Hop, Goes, TableInv, HandlesAreMade, FilesRest
    <3> QED
      BY <3>1 DEF TableStep, FileStep
  <2>2. CASE ResumeHash(r)
    <3>1. Reads(r)
      BY <1>0, <2>2 DEF ResumeHash, Reads, Hop, Goes
    <3>2. Hashes(r)
      BY <1>0, <1>h, <2>2, <3>1 DEF ResumeHash, Hashes
    <3> QED
      BY <3>1, <3>2 DEF TableStep, FileStep
  <2> QED
    BY <1>6, <2>1, <2>2
<1>7. ASSUME NEW r \in Reqs, ResumeOpen(r) PROVE TableStep /\ FileStep
  <2>1. used < MaxHandles /\ used + 1 \in Handles
    BY <1>0, <1>7 DEF ResumeOpen, TableInv, OneFlyer
  <2>2. PICK f \in 1 .. used + 1 : fd' = [fd EXCEPT ![used + 1] = f]
    <3>1. (IF path = None THEN used + 1 ELSE path) \in 1 .. used + 1
      BY <1>0 DEF FilesAreMade
    <3> QED
      BY <1>7, <3>1 DEF ResumeOpen
  <2>3. Opens(r)
    BY <1>0, <1>7, <2>1, <2>2 DEF ResumeOpen, Opens, Hop, Goes
  <2>4. Creates(r)
    BY <1>0, <1>7, <2>1, <2>3 DEF ResumeOpen, Creates
  <2> QED
    BY <2>3, <2>4 DEF TableStep, FileStep
<1>8. ASSUME NEW r \in Reqs, ResumeRegister(r) PROVE TableStep /\ FileStep
  <2>1. Registers(r) /\ FilesRest
    BY <1>0, <1>h, <1>8 DEF ResumeRegister, Registers, Hop, Goes, FilesRest
  <2> QED
    BY <2>1 DEF TableStep, FileStep
<1>9. ASSUME NEW r \in Reqs, ResumeDetach(r) PROVE TableStep /\ FileStep
  <2>1. Detaches(r) /\ FilesRest
    BY <1>0, <1>9 DEF ResumeDetach, Detaches, Hop, Goes, TableInv, FlightIsPrivate, Reading,
       FilesRest
  <2> QED
    BY <2>1 DEF TableStep, FileStep
<1>10. ASSUME NEW r \in Reqs, ResumePublish(r) PROVE TableStep /\ FileStep
  <2>1. Publishes(r) /\ FilesRest
    BY <1>0, <1>10 DEF ResumePublish, Publishes, FilesRest
  <2> QED
    BY <2>1 DEF TableStep, FileStep
<1>11. ASSUME NEW r \in Reqs, ResumeFails(r) PROVE TableStep /\ FileStep
  <2>1. \A a \in Actors : a \in Party(r) /\ a # r => at[a] = None
    BY <1>11 DEF ResumeFails, Party, TableInv, HandlesAreMade
  <2>2. Fails(r) /\ FilesRest
    BY <1>0, <1>11, <2>1 DEF ResumeFails, Fails, Party, FilesRest
  <2> QED
    BY <2>2 DEF TableStep, FileStep
<1>12. ASSUME NEW r \in Reqs, Answered(r) \/ DeleteRemoves(r) PROVE TableStep /\ FileStep
  <2>1. Answers(r) /\ FilesRest
    BY <1>0, <1>12 DEF Answered, DeleteRemoves, Answers, Hop, Goes, Returns, FilesRest
  <2> QED
    BY <2>1 DEF TableStep, FileStep
<1>13. ASSUME NEW r \in Reqs, PatchBegin(r) PROVE TableStep /\ FileStep
  <2>1. CASE st[at[r]] = "live" /\ ~poisoned[at[r]]
    <3>1. /\ Hop(r, "copy", at[r])
          /\ upLock' = [upLock EXCEPT ![at[r]] = r] /\ busy' = [busy EXCEPT ![at[r]] = TRUE]
      BY <1>0, <1>h, <1>13, <2>1 DEF PatchBegin, Hop, Goes
    <3>2. Takes(r, "copy") /\ FilesRest
      BY <3>1, <1>0, <1>h, <1>13, <2>1 DEF PatchBegin, Takes, Free, FilesRest
    <3> QED
      BY <3>2 DEF TableStep, FileStep
  <2>2. CASE ~(st[at[r]] = "live" /\ ~poisoned[at[r]])
    <3>1. Answers(r) /\ FilesRest
      BY <1>0, <1>h, <1>13, <2>2 DEF PatchBegin, Answers, Hop, Goes, Returns, FilesRest
    <3> QED
      BY <3>1 DEF TableStep, FileStep
  <2> QED
    BY <2>1, <2>2
<1>14. ASSUME NEW r \in Reqs, PutBegin(r) PROVE TableStep /\ FileStep
  <2>1. PICK p \in {"copy", "commit", "rmdir", "ending"} :
           /\ Goes(r, p)
           /\ (p # "ending") = (st[at[r]] = "live")
           /\ p \in {"copy", "commit"} => ~poisoned[at[r]]
    BY <1>14 DEF PutBegin, AbortPc
  <2>2. Takes(r, p) /\ FilesRest
    BY <1>0, <1>h, <1>14, <2>1 DEF PutBegin, Takes, Hop, Goes, Free, FilesRest
  <2> QED
    BY <2>2 DEF TableStep, FileStep
<1>24. ASSUME NEW r \in Reqs, PutGoesOn(r) PROVE TableStep /\ FileStep
  <2>1. PICK p \in {"commit", "rmdir", "ending"} :
           /\ Goes(r, p)
           /\ (p # "ending") = (st[at[r]] = "live")
           /\ p = "commit" => ~poisoned[at[r]]
    BY <1>24 DEF PutGoesOn, AbortPc
  <2>2. upLock[at[r]] = r
    BY <1>0, <1>24 DEF PutGoesOn, TableInv, LocksAreHeld, Locked
  <2>3. Takes(r, p) /\ FilesRest
    BY <1>0, <1>h, <1>24, <2>1, <2>2 DEF PutGoesOn, Takes, Hop, Goes, FilesRest
  <2> QED
    BY <2>3 DEF TableStep, FileStep
<1>15. ASSUME NEW a \in Actors, AbortBegin(a) PROVE TableStep /\ FileStep
  <2>1. PICK p \in {"rmdir", "ending"} :
           Goes(a, p) /\ (p # "ending") = (st[at[a]] = "live")
    BY <1>15 DEF AbortBegin, AbortPc
  <2>2. Takes(a, p) /\ FilesRest
    BY <1>0, <1>h, <1>15, <2>1 DEF AbortBegin, Takes, Hop, Goes, Free, FilesRest
  <2> QED
    BY <2>2 DEF TableStep, FileStep
<1>16. ASSUME NEW r \in Reqs, NEW b \in Bytes, CopyChunk(r, b) PROVE TableStep /\ FileStep
  <2>1. fd[at[r]] \in Handles /\ at[r] \in Handles
    BY <1>0, <1>h, <1>16 DEF CopyChunk, TableInv, WorkersAreLive, HandlesHaveFiles
  <2>2. WritesByte(r, b)
    BY <1>0, <1>16, <2>1 DEF CopyChunk, WritesByte, Overtakes
  <2>3. Extends(r, b)
    BY <1>0, <1>16, <2>1, <2>2 DEF CopyChunk, Extends, Rests
  <2> QED
    BY <2>3 DEF TableStep, FileStep, Extends
<1>17. ASSUME NEW r \in Reqs, NEW ok \in BOOLEAN, pc[r] = "copy", AppendReturns(r, ok),
              UNCHANGED <<beginPc, used, st, fd, tableVars, prev>>
       PROVE  /\ Releases(r) \/ GoesOn(r, "appended")
              /\ poisoned'[at[r]] = ~ok
  <2>1. ~poisoned[at[r]] /\ at[r] \in Handles
    BY <1>h, <1>17 DEF TableInv, WorkersAreLive
  <2>2. poisoned' = [poisoned EXCEPT ![at[r]] = ~ok]
    BY <1>17 DEF AppendReturns
  <2>3. CASE verb[r] = "patch"
    <3>1. Releases(r)
      BY <1>0, <1>17, <2>1, <2>2, <2>3 DEF AppendReturns, Releases, Hop, Goes, Returns
    <3> QED
      BY <1>0, <2>1, <2>2, <3>1
  <2>4. CASE verb[r] # "patch"
    <3>1. GoesOn(r, "appended")
      BY <1>0, <1>17, <2>1, <2>2, <2>4 DEF AppendReturns, GoesOn, Hop, Goes
    <3> QED
      BY <1>0, <2>1, <2>2, <3>1
  <2> QED
    BY <2>3, <2>4
<1>18. ASSUME NEW r \in Reqs, CopyEnds(r) \/ CopyFails(r) PROVE TableStep /\ FileStep
  <2>1. CASE CopyEnds(r)
    <3>1. PICK ok \in BOOLEAN : Releases(r) \/ GoesOn(r, "appended")
      BY <1>17, <2>1 DEF CopyEnds
    <3>2. FilesRest
      BY <2>1 DEF CopyEnds, FilesRest
    <3> QED
      BY <3>1, <3>2 DEF TableStep, FileStep
  <2>2. CASE CopyFails(r)
    <3>1. (Releases(r) \/ GoesOn(r, "appended")) /\ poisoned'[at[r]]
      BY <1>17, <2>2 DEF CopyFails
    <3>2. CASE UNCHANGED <<file, overtaken>>
      <4>1. FilesRest
        BY <2>2, <3>2 DEF CopyFails, FilesRest
      <4> QED
        BY <3>1, <4>1 DEF TableStep, FileStep
    <3>3. CASE ~ UNCHANGED <<file, overtaken>>
      <4>1. PICK b \in Bytes :
                file' = [file EXCEPT ![fd[at[r]]] = WriteAt(@, Len(sum[at[r]]), b)]
        BY <2>2, <3>3 DEF CopyFails
      <4>2. /\ Len(sum[at[r]]) < MaxLen /\ Overtakes(Watched(fd[at[r]]), fd[at[r]])
            /\ pc[r] = "copy" /\ UNCHANGED <<dir, path, blobs, sum>>
        BY <2>2, <3>3 DEF CopyFails
      <4>3. fd[at[r]] \in Handles /\ file \in [Handles -> Contents]
        BY <1>0, <1>h, <4>2 DEF TypeOK, TableInv, WorkersAreLive, HandlesHaveFiles
      <4>4. WritesByte(r, b)
        BY <4>1, <4>2, <4>3 DEF WritesByte, Overtakes
      <4>5. Tears(r, b)
        BY <3>1, <4>2, <4>4 DEF Tears
      <4> QED
        BY <3>1, <4>5 DEF TableStep, FileStep
    <3> QED
      BY <3>2, <3>3
  <2> QED
    BY <1>18, <2>1, <2>2
<1>19. ASSUME NEW r \in Reqs, CommitPublish(r) \/ CommitFails(r) PROVE TableStep /\ FileStep
  <2>0. at[r] \in Handles /\ busy[at[r]] = TRUE
    <3>1. at[r] \in Handles /\ upLock[at[r]] = r /\ pc[r] \in Working /\ r # None
      BY <1>h, <1>19 DEF CommitPublish, CommitFails, TableInv, LocksAreHeld, Locked, Working
    <3>2. busy[at[r]]
      BY <3>1 DEF TableInv, LocksAreHeld
    <3> QED
      BY <1>0, <3>1, <3>2
  <2>1. GoesOn(r, "rmdir")
    BY <1>0, <1>h, <1>19, <2>0 DEF CommitPublish, CommitFails, GoesOn, Hop, Goes
  <2>2. FilesRest \/ Commits(r)
    <3>1. CASE CommitFails(r)
      BY <3>1 DEF CommitFails, FilesRest
    <3>2. CASE CommitPublish(r)
      BY <2>1, <3>2 DEF CommitPublish, FilesRest, Commits, Overtakes
    <3> QED
      BY <1>19, <3>1, <3>2
  <2> QED
    BY <2>1, <2>2 DEF TableStep, FileStep
<1>20. ASSUME NEW a \in Actors, FinishDir(a) PROVE TableStep /\ FileStep
  <2>1. Finishes(a)
    BY <1>0, <1>h, <1>20 DEF FinishDir, Finishes, Hop, Goes
  <2>2. MayRemove
    BY <1>20 DEF FinishDir, MayRemove
  <2> QED
    BY <2>1, <2>2 DEF TableStep, FileStep
<1>21. ASSUME NEW a \in Actors, FinishRow(a) PROVE TableStep /\ FileStep
  <2>1. Forgets(a) /\ FilesRest
    BY <1>0, <1>h, <1>21 DEF FinishRow, Forgets, Hop, Goes, FilesRest
  <2> QED
    BY <2>1 DEF TableStep, FileStep
<1>22. ASSUME NEW a \in Actors, VerbEnds(a) PROVE TableStep /\ FileStep
  <2>1. at[a] \in Handles /\ busy[at[a]] = FALSE
    <3>1. at[a] \in Handles /\ upLock[at[a]] = a /\ pc[a] = "ending"
      BY <1>h, <1>22 DEF VerbEnds, TableInv, LocksAreHeld, Locked
    <3>2. ~busy[at[a]]
      BY <3>1 DEF TableInv, LocksAreHeld, Working
    <3> QED
      BY <1>0, <3>1, <3>2
  <2>2. verb[a] = "delete" => a # Evictor
    BY DEF TableInv, OneFlyer
  <2>3. CASE verb[a] = "delete"
    <3>1. Releases(a) /\ FilesRest
      BY <1>0, <1>22, <2>1, <2>2, <2>3 DEF VerbEnds, Releases, Hop, Goes, FilesRest
    <3> QED
      BY <3>1 DEF TableStep, FileStep
  <2>4. CASE verb[a] # "delete"
    <3>1. Releases(a) /\ FilesRest
      BY <1>0, <1>22, <2>1, <2>4 DEF VerbEnds, Releases, Hop, Goes, Returns, FilesRest
    <3> QED
      BY <3>1 DEF TableStep, FileStep
  <2> QED
    BY <2>3, <2>4
<1>23. CASE BeginStep \/ Close \/ CloseDetach \/ ProcessEnds
  <2>1. (BeginRegister \/ Close \/ CloseDetach) => FilesRest
    BY DEF BeginRegister, Close, CloseDetach, FilesRest
  <2> QED
    BY <1>23, <2>1 DEF BeginStep, TableStep, FileStep
<1> QED
  BY <1>1, <1>2, <1>3, <1>4, <1>5, <1>6, <1>7, <1>8, <1>9, <1>10, <1>11, <1>12, <1>13, <1>14,
     <1>15, <1>16, <1>18, <1>19, <1>20, <1>21, <1>22, <1>23, <1>24
  DEF Next, ResumeStep, VerbStep, FinishStep


LEMMA MadeNext == ASSUME TypeOK, TableInv, TableStep PROVE HandlesAreMade'
<1> USE SessionConstants DEF None, Handles, Actors
<1>1. CASE Rests
  BY <1>1 DEF Rests, TableInv, HandlesAreMade
<1>2. CASE BeginDir
  BY <1>2 DEF BeginDir, diskVars, handleVars, tableVars, reqVars, procVars, histVars, TableInv,
     HandlesAreMade
<1>3. CASE BeginRow
  BY <1>3 DEF BeginRow, diskVars, handleVars, tableVars, reqVars, procVars, histVars, TableInv,
     HandlesAreMade
<1>4. CASE BeginFile
  BY <1>4 DEF BeginFile, diskVars, handleVars, tableVars, reqVars, procVars, histVars, TableInv,
     HandlesAreMade, BeforeGrant
<1>5. CASE BeginRegister
  BY <1>5 DEF BeginRegister, diskVars, handleVars, tableVars, reqVars, procVars, histVars,
     TableInv, HandlesAreMade, BeforeGrant
<1>6. CASE BeginFails
  BY <1>6 DEF BeginFails, diskVars, handleVars, tableVars, reqVars, procVars, histVars,
     TableInv, HandlesAreMade
<1>7. CASE Close
  BY <1>7 DEF Close, diskVars, handleVars, tableVars, reqVars, procVars, histVars, TableInv,
     HandlesAreMade
<1>8. CASE CloseDetach
  BY <1>8 DEF CloseDetach, diskVars, handleVars, tableVars, reqVars, procVars, histVars,
     TableInv, HandlesAreMade
<1>9. CASE ProcessEnds
  BY <1>9 DEF ProcessEnds, diskVars, handleVars, tableVars, reqVars, procVars, histVars,
     TableInv, HandlesAreMade
<1>10. CASE Evicts
  BY <1>10 DEF Evicts, Hop, TableInv, HandlesAreMade
<1>11. ASSUME NEW r \in Reqs, Finds(r) PROVE HandlesAreMade'
  BY <1>11 DEF Finds, Hop, TableInv, HandlesAreMade
<1>12. ASSUME NEW r \in Reqs, Joins(r) PROVE HandlesAreMade'
  BY <1>12 DEF Joins, Hop, TableInv, HandlesAreMade
<1>13. ASSUME NEW r \in Reqs, Flies(r) PROVE HandlesAreMade'
  BY <1>13 DEF Flies, Hop, TableInv, HandlesAreMade
<1>14. ASSUME NEW r \in Reqs, Reads(r) PROVE HandlesAreMade'
  BY <1>14 DEF Reads, Hop, TableInv, HandlesAreMade
<1>15. ASSUME NEW r \in Reqs, Opens(r) PROVE HandlesAreMade'
  BY <1>15 DEF Opens, Hop, TableInv, HandlesAreMade
<1>16. ASSUME NEW r \in Reqs, Registers(r) PROVE HandlesAreMade'
  BY <1>16 DEF Registers, Hop, TableInv, HandlesAreMade
<1>17. ASSUME NEW r \in Reqs, Detaches(r) PROVE HandlesAreMade'
  BY <1>17 DEF Detaches, Hop, TableInv, HandlesAreMade
<1>18. ASSUME NEW r \in Reqs, Publishes(r) PROVE HandlesAreMade'
  BY <1>18 DEF Publishes, Party, TableInv, HandlesAreMade
<1>19. ASSUME NEW r \in Reqs, Fails(r) PROVE HandlesAreMade'
  BY <1>19 DEF Fails, Party, TableInv, HandlesAreMade
<1>20. ASSUME NEW r \in Reqs, Answers(r) PROVE HandlesAreMade'
  BY <1>20 DEF Answers, Hop, TableInv, HandlesAreMade
<1>21. ASSUME NEW r \in Reqs, NEW p \in {"appended", "rmdir"}, GoesOn(r, p)
      PROVE HandlesAreMade'
  BY <1>21 DEF GoesOn, Hop, TableInv, HandlesAreMade
<1>22. ASSUME NEW a \in Actors, NEW p \in {"copy", "commit", "rmdir", "ending"}, Takes(a, p)
      PROVE HandlesAreMade'
  BY <1>22 DEF Takes, Hop, TableInv, HandlesAreMade
<1>23. ASSUME NEW a \in Actors, Releases(a) PROVE HandlesAreMade'
  BY <1>23 DEF Releases, Hop, TableInv, HandlesAreMade
<1>24. ASSUME NEW a \in Actors, Finishes(a) PROVE HandlesAreMade'
  BY <1>24 DEF Finishes, Hop, TableInv, HandlesAreMade
<1>25. ASSUME NEW a \in Actors, Forgets(a) PROVE HandlesAreMade'
  BY <1>25 DEF Forgets, Hop, TableInv, HandlesAreMade
<1> QED
  BY <1>1, <1>2, <1>3, <1>4, <1>5, <1>6, <1>7, <1>8, <1>9, <1>10, <1>11, <1>12, <1>13, <1>14,
     <1>15, <1>16, <1>17, <1>18, <1>19, <1>20, <1>21, <1>22, <1>23, <1>24, <1>25 DEF TableStep

LEMMA GrantNext == ASSUME TypeOK, TableInv, TableStep PROVE BeforeGrant'
<1> USE SessionConstants DEF None, Handles, Actors
<1>1. CASE Rests
  BY <1>1 DEF Rests, TableInv, BeforeGrant
<1>2. CASE BeginDir
  BY <1>2 DEF BeginDir, diskVars, handleVars, tableVars, reqVars, procVars, histVars, TableInv,
     BeforeGrant
<1>3. CASE BeginRow
  BY <1>3 DEF BeginRow, diskVars, handleVars, tableVars, reqVars, procVars, histVars, TableInv,
     BeforeGrant
<1>4. CASE BeginFile
  BY <1>4 DEF BeginFile, diskVars, handleVars, tableVars, reqVars, procVars, histVars, TableInv,
     BeforeGrant, HandlesAreMade, TypeOK
<1>5. CASE BeginRegister
  BY <1>5 DEF BeginRegister, diskVars, handleVars, tableVars, reqVars, procVars, histVars,
     TableInv, BeforeGrant
<1>6. CASE BeginFails
  BY <1>6 DEF BeginFails, diskVars, handleVars, tableVars, reqVars, procVars, histVars,
     TableInv, BeforeGrant
<1>7. CASE Close
  BY <1>7 DEF Close, diskVars, handleVars, tableVars, reqVars, procVars, histVars, TableInv,
     BeforeGrant
<1>8. CASE CloseDetach
  BY <1>8 DEF CloseDetach, diskVars, handleVars, tableVars, reqVars, procVars, histVars,
     TableInv, BeforeGrant
<1>9. CASE ProcessEnds
  BY <1>9 DEF ProcessEnds, diskVars, handleVars, tableVars, reqVars, procVars, histVars,
     TableInv, BeforeGrant
<1>10. CASE Evicts
  BY <1>10 DEF Evicts, Hop, TableInv, BeforeGrant
<1>11. ASSUME NEW r \in Reqs, Finds(r) PROVE BeforeGrant'
  BY <1>11 DEF Finds, Hop, TableInv, BeforeGrant
<1>12. ASSUME NEW r \in Reqs, Joins(r) PROVE BeforeGrant'
  BY <1>12 DEF Joins, Hop, TableInv, BeforeGrant
<1>13. ASSUME NEW r \in Reqs, Flies(r) PROVE BeforeGrant'
  BY <1>13 DEF Flies, Hop, TableInv, BeforeGrant
<1>14. ASSUME NEW r \in Reqs, Reads(r) PROVE BeforeGrant'
  BY <1>14 DEF Reads, Hop, TableInv, BeforeGrant
<1>15. ASSUME NEW r \in Reqs, Opens(r) PROVE BeforeGrant'
  BY <1>15 DEF Opens, Hop, TableInv, BeforeGrant
<1>16. ASSUME NEW r \in Reqs, Registers(r) PROVE BeforeGrant'
  BY <1>16 DEF Registers, Hop, TableInv, BeforeGrant
<1>17. ASSUME NEW r \in Reqs, Detaches(r) PROVE BeforeGrant'
  BY <1>17 DEF Detaches, Hop, TableInv, BeforeGrant
<1>18. ASSUME NEW r \in Reqs, Publishes(r) PROVE BeforeGrant'
  BY <1>18 DEF Publishes, Party, TableInv, BeforeGrant
<1>19. ASSUME NEW r \in Reqs, Fails(r) PROVE BeforeGrant'
  BY <1>19 DEF Fails, Party, TableInv, BeforeGrant
<1>20. ASSUME NEW r \in Reqs, Answers(r) PROVE BeforeGrant'
  BY <1>20 DEF Answers, Hop, TableInv, BeforeGrant
<1>21. ASSUME NEW r \in Reqs, NEW p \in {"appended", "rmdir"}, GoesOn(r, p) PROVE BeforeGrant'
  BY <1>21 DEF GoesOn, Hop, TableInv, BeforeGrant
<1>22. ASSUME NEW a \in Actors, NEW p \in {"copy", "commit", "rmdir", "ending"}, Takes(a, p)
      PROVE BeforeGrant'
  BY <1>22 DEF Takes, Hop, TableInv, BeforeGrant
<1>23. ASSUME NEW a \in Actors, Releases(a) PROVE BeforeGrant'
  BY <1>23 DEF Releases, Hop, TableInv, BeforeGrant
<1>24. ASSUME NEW a \in Actors, Finishes(a) PROVE BeforeGrant'
  BY <1>24 DEF Finishes, Hop, TableInv, BeforeGrant
<1>25. ASSUME NEW a \in Actors, Forgets(a) PROVE BeforeGrant'
  BY <1>25 DEF Forgets, Hop, TableInv, BeforeGrant
<1> QED
  BY <1>1, <1>2, <1>3, <1>4, <1>5, <1>6, <1>7, <1>8, <1>9, <1>10, <1>11, <1>12, <1>13, <1>14,
     <1>15, <1>16, <1>17, <1>18, <1>19, <1>20, <1>21, <1>22, <1>23, <1>24, <1>25 DEF TableStep

LEMMA FlyerNext == ASSUME TypeOK, TableInv, TableStep PROVE OneFlyer'
<1> USE SessionConstants DEF None, Handles, Actors
<1>1. CASE Rests
  BY <1>1 DEF Rests, TableInv, OneFlyer, RebuildPcs
<1>2. CASE BeginDir
  BY <1>2 DEF BeginDir, diskVars, handleVars, tableVars, reqVars, procVars, histVars, TableInv,
     OneFlyer, RebuildPcs
<1>3. CASE BeginRow
  BY <1>3 DEF BeginRow, diskVars, handleVars, tableVars, reqVars, procVars, histVars, TableInv,
     OneFlyer, RebuildPcs
<1>4. CASE BeginFile
  BY <1>4 DEF BeginFile, diskVars, handleVars, tableVars, reqVars, procVars, histVars, TableInv,
     OneFlyer, RebuildPcs, HandlesAreMade, BeforeGrant
<1>5. CASE BeginRegister
  BY <1>5 DEF BeginRegister, diskVars, handleVars, tableVars, reqVars, procVars, histVars,
     TableInv, OneFlyer, RebuildPcs
<1>6. CASE BeginFails
  BY <1>6 DEF BeginFails, diskVars, handleVars, tableVars, reqVars, procVars, histVars,
     TableInv, OneFlyer, RebuildPcs
<1>7. CASE Close
  BY <1>7 DEF Close, diskVars, handleVars, tableVars, reqVars, procVars, histVars, TableInv,
     OneFlyer, RebuildPcs
<1>8. CASE CloseDetach
  BY <1>8 DEF CloseDetach, diskVars, handleVars, tableVars, reqVars, procVars, histVars,
     TableInv, OneFlyer, RebuildPcs
<1>9. CASE ProcessEnds
  BY <1>9 DEF ProcessEnds, diskVars, handleVars, tableVars, reqVars, procVars, histVars,
     TableInv, OneFlyer, RebuildPcs
<1>10. CASE Evicts
  BY <1>10 DEF Evicts, Hop, TableInv, OneFlyer, RebuildPcs
<1>11. ASSUME NEW r \in Reqs, Finds(r) PROVE OneFlyer'
  BY <1>11 DEF Finds, Hop, TableInv, OneFlyer, RebuildPcs
<1>12. ASSUME NEW r \in Reqs, Joins(r) PROVE OneFlyer'
  BY <1>12 DEF Joins, Hop, TableInv, OneFlyer, RebuildPcs
<1>13. ASSUME NEW r \in Reqs, Flies(r) PROVE OneFlyer'
  BY <1>13 DEF Flies, Hop, TableInv, OneFlyer, RebuildPcs
<1>14. ASSUME NEW r \in Reqs, Reads(r) PROVE OneFlyer'
  BY <1>14 DEF Reads, Hop, TableInv, OneFlyer, RebuildPcs
<1>15. ASSUME NEW r \in Reqs, Opens(r) PROVE OneFlyer'
  BY <1>15 DEF Opens, Hop, TableInv, OneFlyer, RebuildPcs
<1>16. ASSUME NEW r \in Reqs, Registers(r) PROVE OneFlyer'
  BY <1>16 DEF Registers, Hop, TableInv, OneFlyer, RebuildPcs
<1>17. ASSUME NEW r \in Reqs, Detaches(r) PROVE OneFlyer'
  BY <1>17 DEF Detaches, Hop, TableInv, OneFlyer, RebuildPcs
<1>18. ASSUME NEW r \in Reqs, Publishes(r) PROVE OneFlyer'
  BY <1>18 DEF Publishes, Party, TableInv, OneFlyer, RebuildPcs
<1>19. ASSUME NEW r \in Reqs, Fails(r) PROVE OneFlyer'
  BY <1>19 DEF Fails, Party, TableInv, OneFlyer, RebuildPcs
<1>20. ASSUME NEW r \in Reqs, Answers(r) PROVE OneFlyer'
  BY <1>20 DEF Answers, Hop, TableInv, OneFlyer, RebuildPcs
<1>21. ASSUME NEW r \in Reqs, NEW p \in {"appended", "rmdir"}, GoesOn(r, p) PROVE OneFlyer'
  BY <1>21 DEF GoesOn, Hop, TableInv, OneFlyer, RebuildPcs
<1>22. ASSUME NEW a \in Actors, NEW p \in {"copy", "commit", "rmdir", "ending"}, Takes(a, p)
      PROVE OneFlyer'
  BY <1>22 DEF Takes, Hop, TableInv, OneFlyer, RebuildPcs
<1>23. ASSUME NEW a \in Actors, Releases(a) PROVE OneFlyer'
  BY <1>23 DEF Releases, Hop, TableInv, OneFlyer, RebuildPcs
<1>24. ASSUME NEW a \in Actors, Finishes(a) PROVE OneFlyer'
  BY <1>24 DEF Finishes, Hop, TableInv, OneFlyer, RebuildPcs
<1>25. ASSUME NEW a \in Actors, Forgets(a) PROVE OneFlyer'
  BY <1>25 DEF Forgets, Hop, TableInv, OneFlyer, RebuildPcs
<1> QED
  BY <1>1, <1>2, <1>3, <1>4, <1>5, <1>6, <1>7, <1>8, <1>9, <1>10, <1>11, <1>12, <1>13, <1>14,
     <1>15, <1>16, <1>17, <1>18, <1>19, <1>20, <1>21, <1>22, <1>23, <1>24, <1>25 DEF TableStep

LEMMA PrivateNext == ASSUME TypeOK, TableInv, TableStep PROVE FlightIsPrivate'
<1> USE SessionConstants DEF None, Handles, Actors
<1>1. CASE Rests
  BY <1>1 DEF Rests, TableInv, FlightIsPrivate, Reading
<1>2. CASE BeginDir
  BY <1>2 DEF BeginDir, diskVars, handleVars, tableVars, reqVars, procVars, histVars, TableInv,
     FlightIsPrivate, Reading
<1>3. CASE BeginRow
  BY <1>3 DEF BeginRow, diskVars, handleVars, tableVars, reqVars, procVars, histVars, TableInv,
     FlightIsPrivate, Reading
<1>4. CASE BeginFile
  BY <1>4 DEF BeginFile, diskVars, handleVars, tableVars, reqVars, procVars, histVars, TableInv,
     FlightIsPrivate, Reading, HandlesAreMade, BeforeGrant
<1>5. CASE BeginRegister
  BY <1>5 DEF BeginRegister, diskVars, handleVars, tableVars, reqVars, procVars, histVars,
     TableInv, FlightIsPrivate, Reading, HandlesAreMade, BeforeGrant
<1>6. CASE BeginFails
  BY <1>6 DEF BeginFails, diskVars, handleVars, tableVars, reqVars, procVars, histVars,
     TableInv, FlightIsPrivate, Reading, HandlesAreMade, BeforeGrant
<1>7. CASE Close
  BY <1>7 DEF Close, diskVars, handleVars, tableVars, reqVars, procVars, histVars, TableInv,
     FlightIsPrivate, Reading
<1>8. CASE CloseDetach
  BY <1>8 DEF CloseDetach, diskVars, handleVars, tableVars, reqVars, procVars, histVars,
     TableInv, FlightIsPrivate, Reading, HandlesAreMade, TablesAreLive
<1>9. CASE ProcessEnds
  BY <1>9 DEF ProcessEnds, diskVars, handleVars, tableVars, reqVars, procVars, histVars,
     TableInv, FlightIsPrivate, Reading
<1>10. CASE Evicts
  BY <1>10 DEF Evicts, Hop, TableInv, FlightIsPrivate, Reading, HandlesAreMade
<1>11. ASSUME NEW r \in Reqs, Finds(r) PROVE FlightIsPrivate'
  BY <1>11 DEF Finds, Hop, TableInv, FlightIsPrivate, Reading
<1>12. ASSUME NEW r \in Reqs, Joins(r) PROVE FlightIsPrivate'
  BY <1>12 DEF Joins, Hop, TableInv, FlightIsPrivate, Reading, HandlesAreMade
<1>13. ASSUME NEW r \in Reqs, Flies(r) PROVE FlightIsPrivate'
  BY <1>13 DEF Flies, Hop, TableInv, FlightIsPrivate, Reading, HandlesAreMade
<1>14. ASSUME NEW r \in Reqs, Reads(r) PROVE FlightIsPrivate'
  BY <1>14 DEF Reads, Hop, TableInv, FlightIsPrivate, Reading, HandlesAreMade
<1>15. ASSUME NEW r \in Reqs, Opens(r) PROVE FlightIsPrivate'
  BY <1>15 DEF Opens, Hop, TableInv, FlightIsPrivate, Reading, HandlesAreMade
<1>16. ASSUME NEW r \in Reqs, Registers(r) PROVE FlightIsPrivate'
  BY <1>16 DEF Registers, Hop, TableInv, FlightIsPrivate, Reading, HandlesAreMade, OneFlyer,
     RebuildPcs, TablesAreLive
<1>17. ASSUME NEW r \in Reqs, Detaches(r) PROVE FlightIsPrivate'
  BY <1>17 DEF Detaches, Hop, TableInv, FlightIsPrivate, Reading, HandlesAreMade, OneFlyer,
     RebuildPcs
<1>18. ASSUME NEW r \in Reqs, Publishes(r) PROVE FlightIsPrivate'
  BY <1>18 DEF Publishes, Party, TableInv, FlightIsPrivate, Reading, HandlesAreMade, OneFlyer,
     RebuildPcs
<1>19. ASSUME NEW r \in Reqs, Fails(r) PROVE FlightIsPrivate'
  BY <1>19 DEF Fails, Party, TableInv, FlightIsPrivate, Reading, HandlesAreMade
<1>20. ASSUME NEW r \in Reqs, Answers(r) PROVE FlightIsPrivate'
  BY <1>20 DEF Answers, Hop, TableInv, FlightIsPrivate, Reading, HandlesAreMade
<1>21. ASSUME NEW r \in Reqs, NEW p \in {"appended", "rmdir"}, GoesOn(r, p)
      PROVE FlightIsPrivate'
  BY <1>21 DEF GoesOn, Hop, TableInv, FlightIsPrivate, Reading
<1>22. ASSUME NEW a \in Actors, NEW p \in {"copy", "commit", "rmdir", "ending"}, Takes(a, p)
      PROVE FlightIsPrivate'
  BY <1>22 DEF Takes, Hop, TableInv, FlightIsPrivate, Reading, HandlesAreMade
<1>23. ASSUME NEW a \in Actors, Releases(a) PROVE FlightIsPrivate'
  BY <1>23 DEF Releases, Hop, TableInv, FlightIsPrivate, Reading, HandlesAreMade
<1>24. ASSUME NEW a \in Actors, Finishes(a) PROVE FlightIsPrivate'
  BY <1>24 DEF Finishes, Hop, TableInv, FlightIsPrivate, Reading, HandlesAreMade
<1>25. ASSUME NEW a \in Actors, Forgets(a) PROVE FlightIsPrivate'
  BY <1>25 DEF Forgets, Hop, TableInv, FlightIsPrivate, Reading
<1> QED
  BY <1>1, <1>2, <1>3, <1>4, <1>5, <1>6, <1>7, <1>8, <1>9, <1>10, <1>11, <1>12, <1>13, <1>14,
     <1>15, <1>16, <1>17, <1>18, <1>19, <1>20, <1>21, <1>22, <1>23, <1>24, <1>25 DEF TableStep

LEMMA LocksNext == ASSUME TypeOK, TableInv, TableStep PROVE LocksAreHeld'
<1> USE SessionConstants DEF None, Handles, Actors
<1>1. CASE Rests
  BY <1>1 DEF Rests, TableInv, LocksAreHeld, Working, Locked
<1>2. CASE BeginDir
  BY <1>2 DEF BeginDir, diskVars, handleVars, tableVars, reqVars, procVars, histVars, TableInv,
     LocksAreHeld, Working, Locked
<1>3. CASE BeginRow
  BY <1>3 DEF BeginRow, diskVars, handleVars, tableVars, reqVars, procVars, histVars, TableInv,
     LocksAreHeld, Working, Locked
<1>4. CASE BeginFile
  BY <1>4 DEF BeginFile, diskVars, handleVars, tableVars, reqVars, procVars, histVars, TableInv,
     LocksAreHeld, Working, Locked
<1>5. CASE BeginRegister
  BY <1>5 DEF BeginRegister, diskVars, handleVars, tableVars, reqVars, procVars, histVars,
     TableInv, LocksAreHeld, Working, Locked
<1>6. CASE BeginFails
  BY <1>6 DEF BeginFails, diskVars, handleVars, tableVars, reqVars, procVars, histVars,
     TableInv, LocksAreHeld, Working, Locked
<1>7. CASE Close
  BY <1>7 DEF Close, diskVars, handleVars, tableVars, reqVars, procVars, histVars, TableInv,
     LocksAreHeld, Working, Locked
<1>8. CASE CloseDetach
  BY <1>8 DEF CloseDetach, diskVars, handleVars, tableVars, reqVars, procVars, histVars,
     TableInv, LocksAreHeld, Working, Locked
<1>9. CASE ProcessEnds
  BY <1>9 DEF ProcessEnds, diskVars, handleVars, tableVars, reqVars, procVars, histVars,
     TableInv, LocksAreHeld, Working, Locked
<1>10. CASE Evicts
  BY <1>10 DEF Evicts, Hop, TableInv, LocksAreHeld, Working, Locked
<1>11. ASSUME NEW r \in Reqs, Finds(r) PROVE LocksAreHeld'
  BY <1>11 DEF Finds, Hop, TableInv, LocksAreHeld, Working, Locked
<1>12. ASSUME NEW r \in Reqs, Joins(r) PROVE LocksAreHeld'
  BY <1>12 DEF Joins, Hop, TableInv, LocksAreHeld, Working, Locked
<1>13. ASSUME NEW r \in Reqs, Flies(r) PROVE LocksAreHeld'
  BY <1>13 DEF Flies, Hop, TableInv, LocksAreHeld, Working, Locked
<1>14. ASSUME NEW r \in Reqs, Reads(r) PROVE LocksAreHeld'
  BY <1>14 DEF Reads, Hop, TableInv, LocksAreHeld, Working, Locked
<1>15. ASSUME NEW r \in Reqs, Opens(r) PROVE LocksAreHeld'
  BY <1>15 DEF Opens, Hop, TableInv, LocksAreHeld, Working, Locked
<1>16. ASSUME NEW r \in Reqs, Registers(r) PROVE LocksAreHeld'
  BY <1>16 DEF Registers, Hop, TableInv, LocksAreHeld, Working, Locked
<1>17. ASSUME NEW r \in Reqs, Detaches(r) PROVE LocksAreHeld'
  BY <1>17 DEF Detaches, Hop, TableInv, LocksAreHeld, Working, Locked
<1>18. ASSUME NEW r \in Reqs, Publishes(r) PROVE LocksAreHeld'
  BY <1>18 DEF Publishes, Party, TableInv, LocksAreHeld, Working, Locked
<1>19. ASSUME NEW r \in Reqs, Fails(r) PROVE LocksAreHeld'
  BY <1>19 DEF Fails, Party, TableInv, LocksAreHeld, Working, Locked
<1>20. ASSUME NEW r \in Reqs, Answers(r) PROVE LocksAreHeld'
  BY <1>20 DEF Answers, Hop, TableInv, LocksAreHeld, Working, Locked
<1>21. ASSUME NEW r \in Reqs, NEW p \in {"appended", "rmdir"}, GoesOn(r, p)
      PROVE LocksAreHeld'
  <2>1. at[r] \in Handles /\ upLock[at[r]] = r /\ r # None /\ UNCHANGED upLock
    BY <1>21 DEF GoesOn, TableInv, HandlesAreMade, LocksAreHeld, Locked, Working
  <2>2. (\A b \in Actors : pc[b] \in Locked => upLock[at[b]] = b)'
    BY <1>21, <2>1 DEF GoesOn, Hop, TableInv, LocksAreHeld
  <2>3. (\A h \in Handles : upLock[h] # None =>
              upLock[h] \in Actors /\ at[upLock[h]] = h /\ pc[upLock[h]] \in Locked)'
    BY <1>21, <2>1 DEF GoesOn, Hop, TableInv, LocksAreHeld, Locked, Working
  <2>4. \A h \in Handles : h # at[r] => upLock[h] # r
    BY <1>21 DEF GoesOn, TableInv, LocksAreHeld
  <2>5. ASSUME NEW h \in Handles
        PROVE (busy[h] <=> (upLock[h] # None /\ pc[upLock[h]] \in Working))'
    <3>1. CASE h = at[r]
      BY <1>21, <2>1, <3>1 DEF GoesOn, Hop, Working
    <3>2. CASE h # at[r]
      BY <1>21, <2>1, <2>4, <3>2 DEF GoesOn, Hop, TableInv, LocksAreHeld
    <3> QED
      BY <3>1, <3>2
  <2> QED
    BY <2>2, <2>3, <2>5 DEF LocksAreHeld
<1>22. ASSUME NEW a \in Actors, NEW p \in {"copy", "commit", "rmdir", "ending"}, Takes(a, p)
      PROVE LocksAreHeld'
  <2>1. at[a] \in Handles /\ a # None
    BY <1>22 DEF Takes, TableInv, HandlesAreMade
  <2>2. \A b \in Actors : pc[b] \in Locked /\ b # a => at[b] # at[a]
    BY <1>22, <2>1 DEF Takes, TableInv, LocksAreHeld
  <2>3. (\A b \in Actors : pc[b] \in Locked => upLock[at[b]] = b)'
    BY <1>22, <2>1, <2>2 DEF Takes, Hop, TableInv, HandlesAreMade, LocksAreHeld, Locked, Working
  <2>4. \A h \in Handles : h # at[a] => upLock[h] # a
    BY <1>22 DEF Takes, TableInv, LocksAreHeld, Locked, Working
  <2>5. (\A h \in Handles : upLock[h] # None =>
              upLock[h] \in Actors /\ at[upLock[h]] = h /\ pc[upLock[h]] \in Locked)'
    BY <1>22, <2>1, <2>4 DEF Takes, Hop, TableInv, LocksAreHeld, Locked, Working
  <2>6. ASSUME NEW h \in Handles
        PROVE (busy[h] <=> (upLock[h] # None /\ pc[upLock[h]] \in Working))'
    <3>1. CASE h = at[a]
      BY <1>22, <2>1, <3>1 DEF Takes, Hop, Working
    <3>2. CASE h # at[a]
      BY <1>22, <2>4, <3>2 DEF Takes, Hop, TableInv, LocksAreHeld
    <3> QED
      BY <3>1, <3>2
  <2> QED
    BY <2>3, <2>5, <2>6 DEF LocksAreHeld
<1>23. ASSUME NEW a \in Actors, Releases(a) PROVE LocksAreHeld'
  BY <1>23 DEF Releases, Hop, TableInv, LocksAreHeld, Working, Locked, HandlesAreMade
<1>24. ASSUME NEW a \in Actors, Finishes(a) PROVE LocksAreHeld'
  BY <1>24 DEF Finishes, Hop, TableInv, LocksAreHeld, Working, Locked
<1>25. ASSUME NEW a \in Actors, Forgets(a) PROVE LocksAreHeld'
  BY <1>25 DEF Forgets, Hop, TableInv, LocksAreHeld, Working, Locked
<1> QED
  BY <1>1, <1>2, <1>3, <1>4, <1>5, <1>6, <1>7, <1>8, <1>9, <1>10, <1>11, <1>12, <1>13, <1>14,
     <1>15, <1>16, <1>17, <1>18, <1>19, <1>20, <1>21, <1>22, <1>23, <1>24, <1>25 DEF TableStep

LEMMA WorkersNext == ASSUME TypeOK, TableInv, TableStep PROVE WorkersAreLive'
<1> USE SessionConstants DEF None, Handles, Actors
<1>1. CASE Rests
  BY <1>1 DEF Rests, TableInv, WorkersAreLive, Working, Locked
<1>2. CASE BeginDir
  BY <1>2 DEF BeginDir, diskVars, handleVars, tableVars, reqVars, procVars, histVars, TableInv,
     WorkersAreLive, Working, Locked
<1>3. CASE BeginRow
  BY <1>3 DEF BeginRow, diskVars, handleVars, tableVars, reqVars, procVars, histVars, TableInv,
     WorkersAreLive, Working, Locked
<1>4. CASE BeginFile
  BY <1>4 DEF BeginFile, diskVars, handleVars, tableVars, reqVars, procVars, histVars, TableInv,
     WorkersAreLive, Working, Locked, HandlesAreMade, BeforeGrant
<1>5. CASE BeginRegister
  BY <1>5 DEF BeginRegister, diskVars, handleVars, tableVars, reqVars, procVars, histVars,
     TableInv, WorkersAreLive, Working, Locked, HandlesAreMade, BeforeGrant
<1>6. CASE BeginFails
  BY <1>6 DEF BeginFails, diskVars, handleVars, tableVars, reqVars, procVars, histVars,
     TableInv, WorkersAreLive, Working, Locked, HandlesAreMade, BeforeGrant
<1>7. CASE Close
  BY <1>7 DEF Close, diskVars, handleVars, tableVars, reqVars, procVars, histVars, TableInv,
     WorkersAreLive, Working, Locked
<1>8. CASE CloseDetach
  BY <1>8 DEF CloseDetach, diskVars, handleVars, tableVars, reqVars, procVars, histVars,
     TableInv, WorkersAreLive, Working, Locked, HandlesAreMade, LocksAreHeld
<1>9. CASE ProcessEnds
  BY <1>9 DEF ProcessEnds, diskVars, handleVars, tableVars, reqVars, procVars, histVars,
     TableInv, WorkersAreLive, Working, Locked
<1>10. CASE Evicts
  BY <1>10 DEF Evicts, Hop, TableInv, WorkersAreLive, Working, Locked, HandlesAreMade,
     TablesAreLive
<1>11. ASSUME NEW r \in Reqs, Finds(r) PROVE WorkersAreLive'
  BY <1>11 DEF Finds, Hop, TableInv, WorkersAreLive, Working, Locked, HandlesAreMade,
     TablesAreLive
<1>12. ASSUME NEW r \in Reqs, Joins(r) PROVE WorkersAreLive'
  BY <1>12 DEF Joins, Hop, TableInv, WorkersAreLive, Working, Locked
<1>13. ASSUME NEW r \in Reqs, Flies(r) PROVE WorkersAreLive'
  BY <1>13 DEF Flies, Hop, TableInv, WorkersAreLive, Working, Locked
<1>14. ASSUME NEW r \in Reqs, Reads(r) PROVE WorkersAreLive'
  BY <1>14 DEF Reads, Hop, TableInv, WorkersAreLive, Working, Locked
<1>15. ASSUME NEW r \in Reqs, Opens(r) PROVE WorkersAreLive'
  BY <1>15 DEF Opens, Hop, TableInv, WorkersAreLive, Working, Locked, HandlesAreMade
<1>16. ASSUME NEW r \in Reqs, Registers(r) PROVE WorkersAreLive'
  BY <1>16 DEF Registers, Hop, TableInv, WorkersAreLive, Working, Locked, HandlesAreMade,
     FlightIsPrivate, Reading
<1>17. ASSUME NEW r \in Reqs, Detaches(r) PROVE WorkersAreLive'
  BY <1>17 DEF Detaches, Hop, TableInv, WorkersAreLive, Working, Locked, HandlesAreMade,
     LocksAreHeld
<1>18. ASSUME NEW r \in Reqs, Publishes(r) PROVE WorkersAreLive'
  BY <1>18 DEF Publishes, Party, TableInv, WorkersAreLive, Working, Locked, HandlesAreMade,
     FlightIsPrivate, Reading
<1>19. ASSUME NEW r \in Reqs, Fails(r) PROVE WorkersAreLive'
  BY <1>19 DEF Fails, Party, TableInv, WorkersAreLive, Working, Locked, HandlesAreMade,
     FlightIsPrivate, Reading
<1>20. ASSUME NEW r \in Reqs, Answers(r) PROVE WorkersAreLive'
  BY <1>20 DEF Answers, Hop, TableInv, WorkersAreLive, Working, Locked
<1>21. ASSUME NEW r \in Reqs, NEW p \in {"appended", "rmdir"}, GoesOn(r, p)
      PROVE WorkersAreLive'
  BY <1>21 DEF GoesOn, Hop, TableInv, WorkersAreLive, Working, Locked, HandlesAreMade,
     LocksAreHeld
<1>22. ASSUME NEW a \in Actors, NEW p \in {"copy", "commit", "rmdir", "ending"}, Takes(a, p)
      PROVE WorkersAreLive'
  BY <1>22 DEF Takes, Hop, TableInv, WorkersAreLive, Working, Locked
<1>23. ASSUME NEW a \in Actors, Releases(a) PROVE WorkersAreLive'
  BY <1>23 DEF Releases, Hop, TableInv, WorkersAreLive, Working, Locked, HandlesAreMade,
     LocksAreHeld
<1>24. ASSUME NEW a \in Actors, Finishes(a) PROVE WorkersAreLive'
  BY <1>24 DEF Finishes, Hop, TableInv, WorkersAreLive, Working, Locked, HandlesAreMade,
     LocksAreHeld
<1>25. ASSUME NEW a \in Actors, Forgets(a) PROVE WorkersAreLive'
  BY <1>25 DEF Forgets, Hop, TableInv, WorkersAreLive, Working, Locked
<1> QED
  BY <1>1, <1>2, <1>3, <1>4, <1>5, <1>6, <1>7, <1>8, <1>9, <1>10, <1>11, <1>12, <1>13, <1>14,
     <1>15, <1>16, <1>17, <1>18, <1>19, <1>20, <1>21, <1>22, <1>23, <1>24, <1>25 DEF TableStep

LEMMA TabledNext == ASSUME TypeOK, TableInv, TableStep PROVE LiveIsTabled'
<1> USE SessionConstants DEF None, Handles, Actors
<1>1. CASE Rests
  BY <1>1 DEF Rests, TableInv, LiveIsTabled
<1>2. CASE BeginDir
  BY <1>2 DEF BeginDir, diskVars, handleVars, tableVars, reqVars, procVars, histVars, TableInv,
     LiveIsTabled
<1>3. CASE BeginRow
  BY <1>3 DEF BeginRow, diskVars, handleVars, tableVars, reqVars, procVars, histVars, TableInv,
     LiveIsTabled
<1>4. CASE BeginFile
  BY <1>4 DEF BeginFile, diskVars, handleVars, tableVars, reqVars, procVars, histVars, TableInv,
     LiveIsTabled
<1>5. CASE BeginRegister
  BY <1>5 DEF BeginRegister, diskVars, handleVars, tableVars, reqVars, procVars, histVars,
     TableInv, LiveIsTabled, HandlesAreMade, BeforeGrant
<1>6. CASE BeginFails
  BY <1>6 DEF BeginFails, diskVars, handleVars, tableVars, reqVars, procVars, histVars,
     TableInv, LiveIsTabled
<1>7. CASE Close
  BY <1>7 DEF Close, diskVars, handleVars, tableVars, reqVars, procVars, histVars, TableInv,
     LiveIsTabled, HandlesAreMade, TablesAreLive
<1>8. CASE CloseDetach
  BY <1>8 DEF CloseDetach, diskVars, handleVars, tableVars, reqVars, procVars, histVars,
     TableInv, LiveIsTabled, HandlesAreMade, TypeOK
<1>9. CASE ProcessEnds
  BY <1>9 DEF ProcessEnds, diskVars, handleVars, tableVars, reqVars, procVars, histVars,
     TableInv, LiveIsTabled
<1>10. CASE Evicts
  BY <1>10 DEF Evicts, Hop, TableInv, LiveIsTabled
<1>11. ASSUME NEW r \in Reqs, Finds(r) PROVE LiveIsTabled'
  BY <1>11 DEF Finds, Hop, TableInv, LiveIsTabled
<1>12. ASSUME NEW r \in Reqs, Joins(r) PROVE LiveIsTabled'
  BY <1>12 DEF Joins, Hop, TableInv, LiveIsTabled
<1>13. ASSUME NEW r \in Reqs, Flies(r) PROVE LiveIsTabled'
  BY <1>13 DEF Flies, Hop, TableInv, LiveIsTabled
<1>14. ASSUME NEW r \in Reqs, Reads(r) PROVE LiveIsTabled'
  BY <1>14 DEF Reads, Hop, TableInv, LiveIsTabled
<1>15. ASSUME NEW r \in Reqs, Opens(r) PROVE LiveIsTabled'
  BY <1>15 DEF Opens, Hop, TableInv, LiveIsTabled
<1>16. ASSUME NEW r \in Reqs, Registers(r) PROVE LiveIsTabled'
  BY <1>16 DEF Registers, Hop, TableInv, LiveIsTabled
<1>17. ASSUME NEW r \in Reqs, Detaches(r) PROVE LiveIsTabled'
  BY <1>17 DEF Detaches, Hop, TableInv, LiveIsTabled
<1>18. ASSUME NEW r \in Reqs, Publishes(r) PROVE LiveIsTabled'
  BY <1>18 DEF Publishes, Party, TableInv, LiveIsTabled, HandlesAreMade, OneFlyer, RebuildPcs
<1>19. ASSUME NEW r \in Reqs, Fails(r) PROVE LiveIsTabled'
  BY <1>19 DEF Fails, Party, TableInv, LiveIsTabled
<1>20. ASSUME NEW r \in Reqs, Answers(r) PROVE LiveIsTabled'
  BY <1>20 DEF Answers, Hop, TableInv, LiveIsTabled
<1>21. ASSUME NEW r \in Reqs, NEW p \in {"appended", "rmdir"}, GoesOn(r, p)
      PROVE LiveIsTabled'
  <2>1. UNCHANGED <<st, reg, closing, prev>>
    BY <1>21 DEF GoesOn
  <2>2. \A h \in Handles : busy'[h] => st[h] = "live" \/ busy[h]
    BY <1>21 DEF GoesOn, TableInv, WorkersAreLive
  <2>3. \A q \in Reqs : pc[q] = "detach" => pc'[q] = "detach"
    BY <1>21 DEF GoesOn, Hop
  <2> QED
    BY <2>1, <2>2, <2>3 DEF TableInv, LiveIsTabled
<1>22. ASSUME NEW a \in Actors, NEW p \in {"copy", "commit", "rmdir", "ending"}, Takes(a, p)
      PROVE LiveIsTabled'
  <2>1. at[a] \in Handles /\ UNCHANGED <<st, reg, closing, prev>>
    BY <1>22 DEF Takes, TableInv, HandlesAreMade
  <2>2. \A h \in Handles : busy'[h] => st[h] = "live" \/ busy[h]
    <3>1. CASE p = "ending"
      BY <1>22, <3>1 DEF Takes
    <3>2. CASE p # "ending"
      BY <1>22, <3>2 DEF Takes
    <3> QED
      BY <3>1, <3>2
  <2>3. \A r \in Reqs : pc[r] = "detach" => pc'[r] = "detach"
    BY <1>22 DEF Takes, Hop
  <2> QED
    BY <2>1, <2>2, <2>3 DEF TableInv, LiveIsTabled
<1>23. ASSUME NEW a \in Actors, Releases(a) PROVE LiveIsTabled'
  BY <1>23 DEF Releases, Hop, TableInv, LiveIsTabled
<1>24. ASSUME NEW a \in Actors, Finishes(a) PROVE LiveIsTabled'
  BY <1>24 DEF Finishes, Hop, TableInv, LiveIsTabled
<1>25. ASSUME NEW a \in Actors, Forgets(a) PROVE LiveIsTabled'
  BY <1>25 DEF Forgets, Hop, TableInv, LiveIsTabled, HandlesAreMade, WorkersAreLive, Working,
     Locked
<1> QED
  BY <1>1, <1>2, <1>3, <1>4, <1>5, <1>6, <1>7, <1>8, <1>9, <1>10, <1>11, <1>12, <1>13, <1>14,
     <1>15, <1>16, <1>17, <1>18, <1>19, <1>20, <1>21, <1>22, <1>23, <1>24, <1>25 DEF TableStep

LEMMA OpenedNext == ASSUME TypeOK, TableInv, TableStep PROVE OpenedIsHeld'
<1> USE SessionConstants DEF None, Handles, Actors
<1>1. CASE Rests
  BY <1>1 DEF Rests, TableInv, OpenedIsHeld
<1>2. CASE BeginDir
  BY <1>2 DEF BeginDir, diskVars, handleVars, tableVars, reqVars, procVars, histVars, TableInv,
     OpenedIsHeld
<1>3. CASE BeginRow
  BY <1>3 DEF BeginRow, diskVars, handleVars, tableVars, reqVars, procVars, histVars, TableInv,
     OpenedIsHeld
<1>4. CASE BeginFile
  BY <1>4 DEF BeginFile, diskVars, handleVars, tableVars, reqVars, procVars, histVars, TableInv,
     OpenedIsHeld
<1>5. CASE BeginRegister
  BY <1>5 DEF BeginRegister, diskVars, handleVars, tableVars, reqVars, procVars, histVars,
     TableInv, OpenedIsHeld, HandlesAreMade, TypeOK
<1>6. CASE BeginFails
  BY <1>6 DEF BeginFails, diskVars, handleVars, tableVars, reqVars, procVars, histVars,
     TableInv, OpenedIsHeld, HandlesAreMade, TypeOK
<1>7. CASE Close
  BY <1>7 DEF Close, diskVars, handleVars, tableVars, reqVars, procVars, histVars, TableInv,
     OpenedIsHeld
<1>8. CASE CloseDetach
  BY <1>8 DEF CloseDetach, diskVars, handleVars, tableVars, reqVars, procVars, histVars,
     TableInv, OpenedIsHeld
<1>9. CASE ProcessEnds
  BY <1>9 DEF ProcessEnds, diskVars, handleVars, tableVars, reqVars, procVars, histVars,
     TableInv, OpenedIsHeld
<1>10. CASE Evicts
  BY <1>10 DEF Evicts, Hop, TableInv, OpenedIsHeld
<1>11. ASSUME NEW r \in Reqs, Finds(r) PROVE OpenedIsHeld'
  BY <1>11 DEF Finds, Hop, TableInv, OpenedIsHeld
<1>12. ASSUME NEW r \in Reqs, Joins(r) PROVE OpenedIsHeld'
  BY <1>12 DEF Joins, Hop, TableInv, OpenedIsHeld
<1>13. ASSUME NEW r \in Reqs, Flies(r) PROVE OpenedIsHeld'
  BY <1>13 DEF Flies, Hop, TableInv, OpenedIsHeld
<1>14. ASSUME NEW r \in Reqs, Reads(r) PROVE OpenedIsHeld'
  BY <1>14 DEF Reads, Hop, TableInv, OpenedIsHeld
<1>15. ASSUME NEW r \in Reqs, Opens(r) PROVE OpenedIsHeld'
  BY <1>15 DEF Opens, Hop, TableInv, OpenedIsHeld
<1>16. ASSUME NEW r \in Reqs, Registers(r) PROVE OpenedIsHeld'
  BY <1>16 DEF Registers, Hop, TableInv, OpenedIsHeld
<1>17. ASSUME NEW r \in Reqs, Detaches(r) PROVE OpenedIsHeld'
  BY <1>17 DEF Detaches, Hop, TableInv, OpenedIsHeld
<1>18. ASSUME NEW r \in Reqs, Publishes(r) PROVE OpenedIsHeld'
  BY <1>18 DEF Publishes, Party, TableInv, OpenedIsHeld
<1>19. ASSUME NEW r \in Reqs, Fails(r) PROVE OpenedIsHeld'
  BY <1>19 DEF Fails, Party, TableInv, OpenedIsHeld
<1>20. ASSUME NEW r \in Reqs, Answers(r) PROVE OpenedIsHeld'
  BY <1>20 DEF Answers, Hop, TableInv, OpenedIsHeld
<1>21. ASSUME NEW r \in Reqs, NEW p \in {"appended", "rmdir"}, GoesOn(r, p)
      PROVE OpenedIsHeld'
  BY <1>21 DEF GoesOn, Hop, TableInv, OpenedIsHeld
<1>22. ASSUME NEW a \in Actors, NEW p \in {"copy", "commit", "rmdir", "ending"}, Takes(a, p)
      PROVE OpenedIsHeld'
  BY <1>22 DEF Takes, Hop, TableInv, OpenedIsHeld
<1>23. ASSUME NEW a \in Actors, Releases(a) PROVE OpenedIsHeld'
  BY <1>23 DEF Releases, Hop, TableInv, OpenedIsHeld
<1>24. ASSUME NEW a \in Actors, Finishes(a) PROVE OpenedIsHeld'
  BY <1>24 DEF Finishes, Hop, TableInv, OpenedIsHeld
<1>25. ASSUME NEW a \in Actors, Forgets(a) PROVE OpenedIsHeld'
  BY <1>25 DEF Forgets, Hop, TableInv, OpenedIsHeld
<1> QED
  BY <1>1, <1>2, <1>3, <1>4, <1>5, <1>6, <1>7, <1>8, <1>9, <1>10, <1>11, <1>12, <1>13, <1>14,
     <1>15, <1>16, <1>17, <1>18, <1>19, <1>20, <1>21, <1>22, <1>23, <1>24, <1>25 DEF TableStep

LEMMA TablesNext == ASSUME TypeOK, TableInv, TableStep PROVE TablesAreLive'
<1> USE SessionConstants DEF None, Handles, Actors
<1>1. CASE Rests
  BY <1>1 DEF Rests, TableInv, TablesAreLive
<1>2. CASE BeginDir
  BY <1>2 DEF BeginDir, diskVars, handleVars, tableVars, reqVars, procVars, histVars, TableInv,
     TablesAreLive
<1>3. CASE BeginRow
  BY <1>3 DEF BeginRow, diskVars, handleVars, tableVars, reqVars, procVars, histVars, TableInv,
     TablesAreLive
<1>4. CASE BeginFile
  BY <1>4 DEF BeginFile, diskVars, handleVars, tableVars, reqVars, procVars, histVars, TableInv,
     TablesAreLive, HandlesAreMade, BeforeGrant
<1>5. CASE BeginRegister
  BY <1>5 DEF BeginRegister, diskVars, handleVars, tableVars, reqVars, procVars, histVars,
     TableInv, TablesAreLive, HandlesAreMade, TypeOK
<1>6. CASE BeginFails
  BY <1>6 DEF BeginFails, diskVars, handleVars, tableVars, reqVars, procVars, histVars,
     TableInv, TablesAreLive
<1>7. CASE Close
  BY <1>7 DEF Close, diskVars, handleVars, tableVars, reqVars, procVars, histVars, TableInv,
     TablesAreLive
<1>8. CASE CloseDetach
  BY <1>8 DEF CloseDetach, diskVars, handleVars, tableVars, reqVars, procVars, histVars,
     TableInv, TablesAreLive
<1>9. CASE ProcessEnds
  BY <1>9 DEF ProcessEnds, diskVars, handleVars, tableVars, reqVars, procVars, histVars,
     TableInv, TablesAreLive
<1>10. CASE Evicts
  BY <1>10 DEF Evicts, Hop, TableInv, TablesAreLive
<1>11. ASSUME NEW r \in Reqs, Finds(r) PROVE TablesAreLive'
  BY <1>11 DEF Finds, Hop, TableInv, TablesAreLive
<1>12. ASSUME NEW r \in Reqs, Joins(r) PROVE TablesAreLive'
  BY <1>12 DEF Joins, Hop, TableInv, TablesAreLive
<1>13. ASSUME NEW r \in Reqs, Flies(r) PROVE TablesAreLive'
  BY <1>13 DEF Flies, Hop, TableInv, TablesAreLive
<1>14. ASSUME NEW r \in Reqs, Reads(r) PROVE TablesAreLive'
  BY <1>14 DEF Reads, Hop, TableInv, TablesAreLive
<1>15. ASSUME NEW r \in Reqs, Opens(r) PROVE TablesAreLive'
  BY <1>15 DEF Opens, Hop, TableInv, TablesAreLive, HandlesAreMade
<1>16. ASSUME NEW r \in Reqs, Registers(r) PROVE TablesAreLive'
  BY <1>16 DEF Registers, Hop, TableInv, TablesAreLive
<1>17. ASSUME NEW r \in Reqs, Detaches(r) PROVE TablesAreLive'
  BY <1>17 DEF Detaches, Hop, TableInv, TablesAreLive
<1>18. ASSUME NEW r \in Reqs, Publishes(r) PROVE TablesAreLive'
  BY <1>18 DEF Publishes, Party, TableInv, TablesAreLive, HandlesAreMade, FlightIsPrivate, Reading
<1>19. ASSUME NEW r \in Reqs, Fails(r) PROVE TablesAreLive'
  BY <1>19 DEF Fails, Party, TableInv, TablesAreLive
<1>20. ASSUME NEW r \in Reqs, Answers(r) PROVE TablesAreLive'
  BY <1>20 DEF Answers, Hop, TableInv, TablesAreLive
<1>21. ASSUME NEW r \in Reqs, NEW p \in {"appended", "rmdir"}, GoesOn(r, p)
      PROVE TablesAreLive'
  BY <1>21 DEF GoesOn, Hop, TableInv, TablesAreLive
<1>22. ASSUME NEW a \in Actors, NEW p \in {"copy", "commit", "rmdir", "ending"}, Takes(a, p)
      PROVE TablesAreLive'
  BY <1>22 DEF Takes, Hop, TableInv, TablesAreLive
<1>23. ASSUME NEW a \in Actors, Releases(a) PROVE TablesAreLive'
  BY <1>23 DEF Releases, Hop, TableInv, TablesAreLive
<1>24. ASSUME NEW a \in Actors, Finishes(a) PROVE TablesAreLive'
  BY <1>24 DEF Finishes, Hop, TableInv, TablesAreLive
<1>25. ASSUME NEW a \in Actors, Forgets(a) PROVE TablesAreLive'
  BY <1>25 DEF Forgets, Hop, TableInv, TablesAreLive
<1> QED
  BY <1>1, <1>2, <1>3, <1>4, <1>5, <1>6, <1>7, <1>8, <1>9, <1>10, <1>11, <1>12, <1>13, <1>14,
     <1>15, <1>16, <1>17, <1>18, <1>19, <1>20, <1>21, <1>22, <1>23, <1>24, <1>25 DEF TableStep

LEMMA TableNext == ASSUME TypeOK, TableInv, TableStep PROVE TableInv'
  BY MadeNext, GrantNext, FlyerNext, PrivateNext, LocksNext, WorkersNext, TabledNext,
     OpenedNext, TablesNext DEF TableInv

\* Beside a handle that is appended to or committed, only a rebuild's is open.
LEMMA Beside ==
  ASSUME TableInv, NEW r \in Reqs, pc[r] \in {"copy", "commit"},
         NEW g \in Handles, g # at[r], st[g] \in {"opened", "live"}
  PROVE  \E q \in Reqs : pc[q] \in Reading /\ at[q] = g
<1> USE SessionConstants DEF None, Handles, Actors, Reading
<1>1. at[r] \in Handles /\ busy[at[r]] /\ upLock[at[r]] = r /\ beginPc = "granted"
  <2>1. at[r] \in Handles /\ beginPc = "granted"
    BY DEF TableInv, HandlesAreMade, BeforeGrant
  <2>2. upLock[at[r]] = r
    BY DEF TableInv, LocksAreHeld, Locked, Working
  <2> QED
    BY <2>1, <2>2 DEF TableInv, LocksAreHeld, Working
<1>2. CASE st[g] = "opened"
  BY <1>1, <1>2 DEF TableInv, OpenedIsHeld
<1>3. CASE st[g] = "live"
  <2>1. reg = g \/ closing = g \/ \E q \in Reqs : pc[q] = "detach" /\ prev[q] = g
    BY <1>3 DEF TableInv, LiveIsTabled
  <2>2. reg = at[r] \/ closing = at[r] \/ \E q \in Reqs : pc[q] = "detach" /\ prev[q] = at[r]
    BY <1>1 DEF TableInv, LiveIsTabled
  <2>3. ~(closing # None /\ reg # None)
    BY DEF TableInv, TablesAreLive
  <2>4. PICK q \in Reqs : pc[q] = "detach" /\ (prev[q] = g \/ prev[q] = at[r])
    BY <1>1, <2>1, <2>2, <2>3
  <2>5. /\ reg \in {None, at[q]} /\ closing \in {None, at[q]} /\ upLock[at[q]] = None
        /\ \A o \in Reqs : pc[o] = "detach" => o = q
    BY <2>4 DEF TableInv, FlightIsPrivate, OneFlyer, RebuildPcs
  <2>6. at[q] # at[r]
    BY <1>1, <2>5
  <2>7. at[q] = g
    BY <1>1, <2>1, <2>2, <2>5, <2>6
  <2> QED
    BY <2>4, <2>7
<1> QED
  BY <1>2, <1>3

-----------------------------------------------------------------------------
(* The files. *)

LEMMA Lengths ==
  ASSUME TypeOK
  PROVE  \A h \in Handles : Len(sum[h]) \in Nat /\ Len(file[h]) \in Nat
  BY ContentsAre DEF TypeOK

\* What is known of a handle that is appended to or committed.
LEMMA WriterFacts ==
  ASSUME TypeOK, TableInv, HandlesHaveFiles, NEW r \in Reqs, pc[r] \in {"copy", "commit"}
  PROVE  /\ at[r] \in Handles /\ at[r] \in 1 .. used
         /\ fd[at[r]] \in Handles /\ fd[at[r]] \in 1 .. used
         /\ st[at[r]] = "live" /\ ~poisoned[at[r]]
         /\ Writes(at[r])
         /\ \A q \in Reqs : ~(pc[q] = "hash" /\ at[q] = at[r])
         /\ Len(sum[at[r]]) <= Len(file[fd[at[r]]])
<1> USE SessionConstants DEF None, Handles, Actors
<1>1. at[r] \in Handles /\ at[r] \in 1 .. used
  BY DEF TableInv, HandlesAreMade
<1>2. st[at[r]] = "live" /\ ~poisoned[at[r]]
  BY DEF TableInv, WorkersAreLive
<1>3. fd[at[r]] \in Handles /\ fd[at[r]] \in 1 .. used
  BY <1>1, <1>2 DEF TypeOK, TableInv, HandlesAreMade, HandlesHaveFiles
<1>4. upLock[at[r]] = r
  BY DEF TableInv, LocksAreHeld, Locked, Working
<1>5. Writes(at[r])
  BY <1>2, <1>4 DEF Writes, TableInv, LocksAreHeld, Locked, Working
<1>6. \A q \in Reqs : ~(pc[q] = "hash" /\ at[q] = at[r])
  BY <1>4 DEF TableInv, FlightIsPrivate, Reading
<1> QED
  BY <1>1, <1>2, <1>3, <1>5, <1>6 DEF HandlesHaveFiles

LEMMA WriteGrows ==
  ASSUME TypeOK, TableInv, HandlesHaveFiles, NEW r \in Reqs, NEW b \in Bytes, WritesByte(r, b)
  PROVE  /\ \A f \in Handles : file'[f] \in Contents
         /\ \A f \in Handles : Len(file[f]) <= Len(file'[f])
         /\ Len(sum[at[r]]) + 1 <= Len(file'[fd[at[r]]])
<1>1. /\ at[r] \in Handles /\ fd[at[r]] \in Handles /\ Len(sum[at[r]]) < MaxLen
      /\ Len(sum[at[r]]) <= Len(file[fd[at[r]]])
  BY WriterFacts DEF WritesByte
<1>2. \A f \in Handles : Len(sum[f]) \in Nat /\ Len(file[f]) \in Nat /\ file[f] \in Contents
  BY Lengths DEF TypeOK
<1>3. /\ file'[fd[at[r]]] \in Contents
      /\ Len(file'[fd[at[r]]]) = IF Len(sum[at[r]]) < Len(file[fd[at[r]]])
                                  THEN Len(file[fd[at[r]]]) ELSE Len(sum[at[r]]) + 1
  BY <1>1, <1>2, WriteAtIs DEF WritesByte
<1>4. \A f \in Handles : f # fd[at[r]] => file'[f] = file[f]
  BY DEF WritesByte
<1> QED
  BY <1>1, <1>2, <1>3, <1>4

\* An append writes no file that is published as a blob, unless it was overtaken.
LEMMA WriteSparesBlobs ==
  ASSUME TypeOK, TableInv, FilesAreMade, HandlesHaveFiles, FileIsTheUploads, BlobMatchesDigest,
         NEW r \in Reqs, NEW b \in Bytes, WritesByte(r, b)
  PROVE  BlobMatchesDigest'
<1>1. at[r] \in Handles /\ Writes(at[r])
  BY WriterFacts DEF WritesByte
<1>2. \A x \in blobs : x.ino = fd[at[r]] => x.ino \in overtaken
  BY <1>1 DEF FileIsTheUploads
<1>3. \A x \in blobs : x.ino \in Handles
  BY DEF TypeOK
<1> QED
  BY <1>2, <1>3 DEF WritesByte, BlobMatchesDigest

LEMMA FilesMadeNext ==
  ASSUME TypeOK, TableInv, FilesAreMade, HandlesHaveFiles, FileIsTheUploads, DigestsFollowFile,
         BlobMatchesDigest, FileStep
  PROVE  FilesAreMade'
<1> USE SessionConstants DEF None, Handles, Actors
<1>1. CASE BeginDir
  BY <1>1 DEF BeginDir, diskVars, handleVars, tableVars, reqVars, procVars, histVars, TableInv,
     FilesAreMade
<1>2. CASE BeginRow
  BY <1>2 DEF BeginRow, diskVars, handleVars, tableVars, reqVars, procVars, histVars, TableInv,
     FilesAreMade
<1>3. CASE BeginFile
  BY <1>3 DEF BeginFile, diskVars, handleVars, tableVars, reqVars, procVars, histVars, TableInv,
     FilesAreMade, HandlesAreMade, BeforeGrant
<1>4. CASE BeginFails
  BY <1>4 DEF BeginFails, diskVars, handleVars, tableVars, reqVars, procVars, histVars,
     TableInv, FilesAreMade, HandlesAreMade
<1>5. CASE ProcessEnds
  BY <1>5 DEF ProcessEnds, diskVars, handleVars, tableVars, reqVars, procVars, histVars,
     TableInv, FilesAreMade
<1>6. ASSUME Rests, MayRemove PROVE FilesAreMade'
  <2>1. CASE path' = path
    BY <1>6, <2>1 DEF Rests, MayRemove, FilesAreMade
  <2>2. CASE path' = None
    BY <1>6, <2>2 DEF Rests, MayRemove, TableInv, HandlesAreMade, FilesAreMade
  <2> QED
    BY <1>6, <2>1, <2>2 DEF MayRemove
<1>7. ASSUME NEW a \in Actors, Finishes(a), MayRemove PROVE FilesAreMade'
  BY <1>7 DEF Finishes, Hop, MayRemove, TableInv, FilesAreMade, HandlesAreMade, BeforeGrant
<1>8. ASSUME NEW r \in Reqs, Creates(r) PROVE FilesAreMade'
  BY <1>8 DEF Creates, Opens, Hop, TableInv, FilesAreMade, HandlesAreMade
<1>9. ASSUME NEW r \in Reqs, Hashes(r) PROVE FilesAreMade'
  <2>1. at[r] \in 1 .. used
    BY <1>9 DEF Hashes, TableInv, HandlesAreMade
  <2>2. \A h \in Handles : h > used => sum'[h] = sum[h]
    BY <1>9, <2>1 DEF Hashes, TableInv, HandlesAreMade
  <2> QED
    BY <1>9, <2>2 DEF Hashes, Reads, FilesAreMade
<1>10. ASSUME NEW r \in Reqs, Commits(r) PROVE FilesAreMade'
  BY <1>10 DEF Commits, GoesOn, Hop, Watched, TableInv, FilesAreMade, HandlesAreMade, BeforeGrant
<1>11. ASSUME NEW r \in Reqs, NEW b \in Bytes, Extends(r, b) PROVE FilesAreMade'
  <2>1. at[r] \in 1 .. used /\ fd[at[r]] \in 1 .. used
    BY <1>11, WriterFacts DEF Extends, WritesByte
  <2>2. \A h \in Handles : h > used => sum'[h] = sum[h] /\ file'[h] = file[h]
    BY <1>11, <2>1 DEF Extends, WritesByte, TableInv, HandlesAreMade
  <2> QED
    BY <1>11, <2>2 DEF Extends, WritesByte, Rests, FilesAreMade
<1>12. ASSUME NEW r \in Reqs, NEW b \in Bytes, Tears(r, b) PROVE FilesAreMade'
  <2>1. fd[at[r]] \in 1 .. used
    BY <1>12, WriterFacts DEF Tears, WritesByte
  <2>2. \A h \in Handles : h > used => file'[h] = file[h]
    BY <1>12, <2>1 DEF Tears, WritesByte, TableInv, HandlesAreMade
  <2> QED
    BY <1>12, <2>2 DEF Tears, WritesByte, Releases, GoesOn, FilesAreMade
<1>13. ASSUME BeginRegister, FilesRest PROVE FilesAreMade'
  BY <1>13 DEF BeginRegister, FilesRest, diskVars, handleVars, tableVars, reqVars, procVars,
     histVars, TableInv, FilesAreMade
<1>14. ASSUME Close, FilesRest PROVE FilesAreMade'
  BY <1>14 DEF Close, FilesRest, diskVars, handleVars, tableVars, reqVars, procVars, histVars,
     TableInv, FilesAreMade
<1>15. ASSUME CloseDetach, FilesRest PROVE FilesAreMade'
  BY <1>15 DEF CloseDetach, FilesRest, diskVars, handleVars, tableVars, reqVars, procVars,
     histVars, TableInv, FilesAreMade
<1>16. ASSUME Evicts, FilesRest PROVE FilesAreMade'
  BY <1>16 DEF Evicts, Hop, FilesRest, TableInv, FilesAreMade
<1>17. ASSUME NEW r \in Reqs, Finds(r), FilesRest PROVE FilesAreMade'
  BY <1>17 DEF Finds, Hop, FilesRest, TableInv, FilesAreMade
<1>18. ASSUME NEW r \in Reqs, Joins(r), FilesRest PROVE FilesAreMade'
  BY <1>18 DEF Joins, Hop, FilesRest, TableInv, FilesAreMade
<1>19. ASSUME NEW r \in Reqs, Flies(r), FilesRest PROVE FilesAreMade'
  BY <1>19 DEF Flies, Hop, FilesRest, TableInv, FilesAreMade
<1>20. ASSUME NEW r \in Reqs, pc[r] = "get", Reads(r), FilesRest PROVE FilesAreMade'
  BY <1>20 DEF Reads, Hop, FilesRest, TableInv, FilesAreMade
<1>21. ASSUME NEW r \in Reqs, Registers(r), FilesRest PROVE FilesAreMade'
  BY <1>21 DEF Registers, Hop, FilesRest, TableInv, FilesAreMade
<1>22. ASSUME NEW r \in Reqs, Detaches(r), FilesRest PROVE FilesAreMade'
  BY <1>22 DEF Detaches, Hop, FilesRest, TableInv, FilesAreMade
<1>23. ASSUME NEW r \in Reqs, Publishes(r), FilesRest PROVE FilesAreMade'
  BY <1>23 DEF Publishes, Party, FilesRest, TableInv, FilesAreMade
<1>24. ASSUME NEW r \in Reqs, Fails(r), FilesRest PROVE FilesAreMade'
  BY <1>24 DEF Fails, Party, FilesRest, TableInv, FilesAreMade
<1>25. ASSUME NEW r \in Reqs, Answers(r), FilesRest PROVE FilesAreMade'
  BY <1>25 DEF Answers, Hop, FilesRest, TableInv, FilesAreMade
<1>26. ASSUME NEW r \in Reqs, NEW p \in {"appended", "rmdir"}, GoesOn(r, p), FilesRest
      PROVE FilesAreMade'
  BY <1>26 DEF GoesOn, Hop, FilesRest, TableInv, FilesAreMade
<1>27. ASSUME NEW a \in Actors, NEW p \in {"copy", "commit", "rmdir", "ending"}, Takes(a, p), FilesRest
      PROVE FilesAreMade'
  BY <1>27 DEF Takes, Hop, FilesRest, TableInv, FilesAreMade
<1>28. ASSUME NEW a \in Actors, Releases(a), FilesRest PROVE FilesAreMade'
  BY <1>28 DEF Releases, Hop, FilesRest, TableInv, FilesAreMade
<1>29. ASSUME NEW a \in Actors, Forgets(a), FilesRest PROVE FilesAreMade'
  BY <1>29 DEF Forgets, Hop, FilesRest, TableInv, FilesAreMade
<1> QED
  BY <1>1, <1>2, <1>3, <1>4, <1>5, <1>6, <1>7, <1>8, <1>9, <1>10, <1>11, <1>12, <1>13, <1>14,
     <1>15, <1>16, <1>17, <1>18, <1>19, <1>20, <1>21, <1>22, <1>23, <1>24, <1>25, <1>26, <1>27,
     <1>28, <1>29 DEF FileStep

LEMMA HaveFilesNext ==
  ASSUME TypeOK, TableInv, FilesAreMade, HandlesHaveFiles, FileIsTheUploads, DigestsFollowFile,
         BlobMatchesDigest, FileStep
  PROVE  HandlesHaveFiles'
<1> USE SessionConstants DEF None, Handles, Actors
<1>1. CASE BeginDir
  BY <1>1 DEF BeginDir, diskVars, handleVars, tableVars, reqVars, procVars, histVars, TableInv,
     HandlesHaveFiles
<1>2. CASE BeginRow
  BY <1>2 DEF BeginRow, diskVars, handleVars, tableVars, reqVars, procVars, histVars, TableInv,
     HandlesHaveFiles
<1>3. CASE BeginFile
  <2>1. used = 0 /\ 1 \in Handles /\ sum[1] = <<>> /\ file[1] = <<>>
    BY <1>3 DEF BeginFile, TableInv, BeforeGrant, FilesAreMade
  <2> QED
    BY <1>3, <2>1, EmptyIs DEF BeginFile, TypeOK, HandlesHaveFiles
<1>4. CASE BeginFails
  BY <1>4 DEF BeginFails, diskVars, handleVars, tableVars, reqVars, procVars, histVars,
     TableInv, HandlesHaveFiles
<1>5. CASE ProcessEnds
  BY <1>5 DEF ProcessEnds, diskVars, handleVars, tableVars, reqVars, procVars, histVars,
     TableInv, HandlesHaveFiles
<1>6. ASSUME Rests, MayRemove PROVE HandlesHaveFiles'
  BY <1>6 DEF Rests, MayRemove, TableInv, HandlesHaveFiles
<1>7. ASSUME NEW a \in Actors, Finishes(a), MayRemove PROVE HandlesHaveFiles'
  BY <1>7 DEF Finishes, Hop, MayRemove, TableInv, HandlesHaveFiles
<1>8. ASSUME NEW r \in Reqs, Creates(r) PROVE HandlesHaveFiles'
  <2>1. used + 1 \in Handles /\ fd'[used + 1] \in Handles /\ sum[used + 1] = <<>>
    BY <1>8 DEF Creates, Opens, TableInv, HandlesAreMade, FilesAreMade
  <2>2. Len(sum[used + 1]) <= Len(file[fd'[used + 1]])
    <3>1. Len(file[fd'[used + 1]]) \in Nat
      BY <2>1, Lengths
    <3>2. Len(sum[used + 1]) = 0
      BY <2>1, EmptyIs
    <3> QED
      BY <3>1, <3>2
  <2> QED
    BY <1>8, <2>1, <2>2 DEF Creates, Opens, HandlesHaveFiles
<1>9. ASSUME NEW r \in Reqs, Hashes(r) PROVE HandlesHaveFiles'
  BY <1>9 DEF Hashes, Reads, Hop, TableInv, HandlesHaveFiles
<1>10. ASSUME NEW r \in Reqs, Commits(r) PROVE HandlesHaveFiles'
  BY <1>10 DEF Commits, GoesOn, Hop, Watched, TableInv, HandlesHaveFiles
<1>11. ASSUME NEW r \in Reqs, NEW b \in Bytes, Extends(r, b) PROVE HandlesHaveFiles'
  <2>1. at[r] \in Handles /\ pc[r] = "copy" /\ UNCHANGED <<st, fd>>
    BY <1>11, WriterFacts DEF Extends, WritesByte, Rests
  <2>2. /\ \A f \in Handles : Len(file[f]) <= Len(file'[f])
        /\ Len(sum[at[r]]) + 1 <= Len(file'[fd[at[r]]])
    BY <1>11, WriteGrows DEF Extends
  <2>3. Len(sum'[at[r]]) = Len(sum[at[r]]) + 1
    BY <1>11, <2>1, AppendIs DEF Extends, WritesByte, TypeOK
  <2>4. \A h \in Handles : h # at[r] => sum'[h] = sum[h]
    BY <1>11 DEF Extends
  <2>5. ASSUME NEW h \in Handles, fd[h] # None
        PROVE  Len(sum'[h]) <= Len(file'[fd[h]])
    <3>1. fd[h] \in Handles /\ Len(sum[h]) <= Len(file[fd[h]])
      BY <2>5 DEF TypeOK, HandlesHaveFiles
    <3>2. CASE h = at[r]
      BY <2>2, <2>3, <3>2
    <3>3. CASE h # at[r]
      <4>1. Len(file[fd[h]]) <= Len(file'[fd[h]]) /\ Len(sum'[h]) = Len(sum[h])
        BY <2>2, <2>4, <3>1, <3>3
      <4>2. Len(file'[fd[h]]) \in Nat
        BY <1>11, <3>1, WriteGrows, ContentsAre DEF Extends
      <4> QED
        BY <2>5, <3>1, <4>1, <4>2, Lengths
    <3> QED
      BY <3>2, <3>3
  <2> QED
    BY <2>1, <2>5 DEF HandlesHaveFiles
<1>12. ASSUME NEW r \in Reqs, NEW b \in Bytes, Tears(r, b) PROVE HandlesHaveFiles'
  <2>1. \A f \in Handles : Len(file[f]) <= Len(file'[f])
    BY <1>12, WriteGrows DEF Tears
  <2>2. UNCHANGED <<st, fd, sum>>
    BY <1>12 DEF Tears, Releases, GoesOn
  <2> QED
    BY <2>1, <2>2, Lengths DEF TypeOK, HandlesHaveFiles
<1>13. ASSUME BeginRegister, FilesRest PROVE HandlesHaveFiles'
  BY <1>13 DEF BeginRegister, FilesRest, diskVars, handleVars, tableVars, reqVars, procVars,
     histVars, TableInv, HandlesHaveFiles, HandlesAreMade, BeforeGrant
<1>14. ASSUME Close, FilesRest PROVE HandlesHaveFiles'
  BY <1>14 DEF Close, FilesRest, diskVars, handleVars, tableVars, reqVars, procVars, histVars,
     TableInv, HandlesHaveFiles
<1>15. ASSUME CloseDetach, FilesRest PROVE HandlesHaveFiles'
  BY <1>15 DEF CloseDetach, FilesRest, diskVars, handleVars, tableVars, reqVars, procVars,
     histVars, TableInv, HandlesHaveFiles
<1>16. ASSUME Evicts, FilesRest PROVE HandlesHaveFiles'
  BY <1>16 DEF Evicts, Hop, FilesRest, TableInv, HandlesHaveFiles
<1>17. ASSUME NEW r \in Reqs, Finds(r), FilesRest PROVE HandlesHaveFiles'
  BY <1>17 DEF Finds, Hop, FilesRest, TableInv, HandlesHaveFiles
<1>18. ASSUME NEW r \in Reqs, Joins(r), FilesRest PROVE HandlesHaveFiles'
  BY <1>18 DEF Joins, Hop, FilesRest, TableInv, HandlesHaveFiles
<1>19. ASSUME NEW r \in Reqs, Flies(r), FilesRest PROVE HandlesHaveFiles'
  BY <1>19 DEF Flies, Hop, FilesRest, TableInv, HandlesHaveFiles
<1>20. ASSUME NEW r \in Reqs, pc[r] = "get", Reads(r), FilesRest PROVE HandlesHaveFiles'
  BY <1>20 DEF Reads, Hop, FilesRest, TableInv, HandlesHaveFiles
<1>21. ASSUME NEW r \in Reqs, Registers(r), FilesRest PROVE HandlesHaveFiles'
  BY <1>21 DEF Registers, Hop, FilesRest, TableInv, HandlesHaveFiles, HandlesAreMade,
     FlightIsPrivate, Reading
<1>22. ASSUME NEW r \in Reqs, Detaches(r), FilesRest PROVE HandlesHaveFiles'
  BY <1>22 DEF Detaches, Hop, FilesRest, TableInv, HandlesHaveFiles
<1>23. ASSUME NEW r \in Reqs, Publishes(r), FilesRest PROVE HandlesHaveFiles'
  BY <1>23 DEF Publishes, Party, FilesRest, TableInv, HandlesHaveFiles
<1>24. ASSUME NEW r \in Reqs, Fails(r), FilesRest PROVE HandlesHaveFiles'
  BY <1>24 DEF Fails, Party, FilesRest, TableInv, HandlesHaveFiles
<1>25. ASSUME NEW r \in Reqs, Answers(r), FilesRest PROVE HandlesHaveFiles'
  BY <1>25 DEF Answers, Hop, FilesRest, TableInv, HandlesHaveFiles
<1>26. ASSUME NEW r \in Reqs, NEW p \in {"appended", "rmdir"}, GoesOn(r, p), FilesRest
      PROVE HandlesHaveFiles'
  BY <1>26 DEF GoesOn, Hop, FilesRest, TableInv, HandlesHaveFiles
<1>27. ASSUME NEW a \in Actors, NEW p \in {"copy", "commit", "rmdir", "ending"}, Takes(a, p), FilesRest
      PROVE HandlesHaveFiles'
  BY <1>27 DEF Takes, Hop, FilesRest, TableInv, HandlesHaveFiles
<1>28. ASSUME NEW a \in Actors, Releases(a), FilesRest PROVE HandlesHaveFiles'
  BY <1>28 DEF Releases, Hop, FilesRest, TableInv, HandlesHaveFiles
<1>29. ASSUME NEW a \in Actors, Forgets(a), FilesRest PROVE HandlesHaveFiles'
  BY <1>29 DEF Forgets, Hop, FilesRest, TableInv, HandlesHaveFiles
<1> QED
  BY <1>1, <1>2, <1>3, <1>4, <1>5, <1>6, <1>7, <1>8, <1>9, <1>10, <1>11, <1>12, <1>13, <1>14,
     <1>15, <1>16, <1>17, <1>18, <1>19, <1>20, <1>21, <1>22, <1>23, <1>24, <1>25, <1>26, <1>27,
     <1>28, <1>29 DEF FileStep

LEMMA UploadsNext ==
  ASSUME TypeOK, TableInv, FilesAreMade, HandlesHaveFiles, FileIsTheUploads, DigestsFollowFile,
         BlobMatchesDigest, FileStep
  PROVE  FileIsTheUploads'
<1> USE SessionConstants DEF None, Handles, Actors
<1>1. CASE BeginDir
  BY <1>1 DEF BeginDir, diskVars, handleVars, tableVars, reqVars, procVars, histVars, TableInv,
     FileIsTheUploads, Writes, HandlesAreMade, BeforeGrant
<1>2. CASE BeginRow
  BY <1>2 DEF BeginRow, diskVars, handleVars, tableVars, reqVars, procVars, histVars, TableInv,
     FileIsTheUploads, Writes
<1>3. CASE BeginFile
  <2>1. used = 0 /\ blobs = {} /\ \A h \in Handles : st[h] \notin {"opened", "live"}
    BY <1>3 DEF BeginFile, TableInv, HandlesAreMade, BeforeGrant, FilesAreMade
  <2> QED
    BY <1>3, <2>1 DEF BeginFile, TypeOK, FileIsTheUploads, Writes
<1>4. CASE BeginFails
  BY <1>4 DEF BeginFails, diskVars, handleVars, tableVars, reqVars, procVars, histVars,
     TableInv, FileIsTheUploads, Writes
<1>5. CASE ProcessEnds
  BY <1>5 DEF ProcessEnds, diskVars, handleVars, tableVars, reqVars, procVars, histVars,
     TableInv, FileIsTheUploads, Writes
<1>6. ASSUME Rests, MayRemove PROVE FileIsTheUploads'
  BY <1>6 DEF Rests, MayRemove, TableInv, FileIsTheUploads, Writes
<1>7. ASSUME NEW a \in Actors, Finishes(a), MayRemove PROVE FileIsTheUploads'
  BY <1>7 DEF Finishes, Hop, MayRemove, TableInv, FileIsTheUploads, Writes
<1>8. ASSUME NEW r \in Reqs, Creates(r) PROVE FileIsTheUploads'
  <2>1. /\ dir /\ fd'[used + 1] = path' /\ path' # None
        /\ path' = IF path = None THEN used + 1 ELSE path
        /\ UNCHANGED <<blobs, overtaken, dir>>
    BY <1>8 DEF Creates, Opens, TableInv, HandlesAreMade
  <2>2. \A x \in blobs : x.ino # path'
    BY <2>1 DEF FileIsTheUploads, FilesAreMade, TableInv, HandlesAreMade
  <2>3. ASSUME NEW h \in Handles, Writes(h)', fd'[h] \notin overtaken'
        PROVE  path' = fd'[h] /\ \A x \in blobs' : x.ino # fd'[h]
    <3>1. CASE h = used + 1
      BY <2>1, <2>2, <3>1
    <3>2. CASE h # used + 1
      <4>1. fd'[h] = fd[h] /\ st'[h] = st[h]
        BY <1>8, <3>2 DEF Creates, Opens
      <4>2. \A a \in Actors : pc[a] = "rmdir" => pc'[a] = pc[a] /\ at'[a] = at[a]
        BY <1>8 DEF Creates, Opens, Hop
      <4>3. Writes(h)
        BY <2>3, <4>1, <4>2 DEF Writes
      <4> QED
        BY <2>1, <2>3, <4>1, <4>3 DEF FileIsTheUploads, HandlesHaveFiles, Writes
    <3> QED
      BY <3>1, <3>2
  <2> QED
    BY <2>1, <2>2, <2>3 DEF FileIsTheUploads
<1>9. ASSUME NEW r \in Reqs, Hashes(r) PROVE FileIsTheUploads'
  BY <1>9 DEF Hashes, Reads, Hop, TableInv, FileIsTheUploads, Writes
<1>10. ASSUME NEW r \in Reqs, Commits(r) PROVE FileIsTheUploads'
  <2>1. /\ pc[r] = "commit" /\ path # None /\ path' = None /\ pc'[r] = "rmdir"
        /\ UNCHANGED <<st, fd>> /\ at'[r] = at[r] /\ overtaken \subseteq overtaken'
        /\ Watched(path) => path \in overtaken'
        /\ \A a \in Actors : pc[a] = "rmdir" => pc'[a] = pc[a] /\ at'[a] = at[a]
    BY <1>10 DEF Commits, GoesOn, Hop
  <2>2. ASSUME NEW g \in Handles, Writes(g)', fd'[g] \notin overtaken' PROVE FALSE
    <3>1. g # at[r] /\ Writes(g) /\ fd[g] \notin overtaken
      BY <2>1, <2>2 DEF Writes
    <3>2. path = fd[g]
      BY <2>1, <3>1 DEF FileIsTheUploads
    <3>3. Watched(fd[g])
      BY <2>1, <3>1, Beside DEF Watched, Writes, Reading
    <3> QED
      BY <2>1, <2>2, <3>2, <3>3
  <2> QED
    BY <2>1, <2>2 DEF FileIsTheUploads
<1>11. ASSUME NEW r \in Reqs, NEW b \in Bytes, Extends(r, b) PROVE FileIsTheUploads'
  BY <1>11 DEF Extends, WritesByte, Rests, Watched, TableInv, FileIsTheUploads, Writes
<1>12. ASSUME NEW r \in Reqs, NEW b \in Bytes, Tears(r, b) PROVE FileIsTheUploads'
  BY <1>12 DEF Tears, WritesByte, Releases, GoesOn, Hop, Watched, TableInv, FileIsTheUploads,
     Writes
<1>13. ASSUME BeginRegister, FilesRest PROVE FileIsTheUploads'
  BY <1>13 DEF BeginRegister, FilesRest, diskVars, handleVars, tableVars, reqVars, procVars,
     histVars, TableInv, FileIsTheUploads, Writes, HandlesAreMade, BeforeGrant
<1>14. ASSUME Close, FilesRest PROVE FileIsTheUploads'
  BY <1>14 DEF Close, FilesRest, diskVars, handleVars, tableVars, reqVars, procVars, histVars,
     TableInv, FileIsTheUploads, Writes
<1>15. ASSUME CloseDetach, FilesRest PROVE FileIsTheUploads'
  BY <1>15 DEF CloseDetach, FilesRest, diskVars, handleVars, tableVars, reqVars, procVars,
     histVars, TableInv, FileIsTheUploads, Writes
<1>16. ASSUME Evicts, FilesRest PROVE FileIsTheUploads'
  BY <1>16 DEF Evicts, Hop, FilesRest, TableInv, FileIsTheUploads, Writes
<1>17. ASSUME NEW r \in Reqs, Finds(r), FilesRest PROVE FileIsTheUploads'
  BY <1>17 DEF Finds, Hop, FilesRest, TableInv, FileIsTheUploads, Writes
<1>18. ASSUME NEW r \in Reqs, Joins(r), FilesRest PROVE FileIsTheUploads'
  BY <1>18 DEF Joins, Hop, FilesRest, TableInv, FileIsTheUploads, Writes
<1>19. ASSUME NEW r \in Reqs, Flies(r), FilesRest PROVE FileIsTheUploads'
  BY <1>19 DEF Flies, Hop, FilesRest, TableInv, FileIsTheUploads, Writes
<1>20. ASSUME NEW r \in Reqs, pc[r] = "get", Reads(r), FilesRest PROVE FileIsTheUploads'
  BY <1>20 DEF Reads, Hop, FilesRest, TableInv, FileIsTheUploads, Writes
<1>21. ASSUME NEW r \in Reqs, Registers(r), FilesRest PROVE FileIsTheUploads'
  BY <1>21 DEF Registers, Hop, FilesRest, TableInv, FileIsTheUploads, Writes, HandlesAreMade,
     FlightIsPrivate, Reading
<1>22. ASSUME NEW r \in Reqs, Detaches(r), FilesRest PROVE FileIsTheUploads'
  BY <1>22 DEF Detaches, Hop, FilesRest, TableInv, FileIsTheUploads, Writes
<1>23. ASSUME NEW r \in Reqs, Publishes(r), FilesRest PROVE FileIsTheUploads'
  BY <1>23 DEF Publishes, Party, FilesRest, TableInv, FileIsTheUploads, Writes
<1>24. ASSUME NEW r \in Reqs, Fails(r), FilesRest PROVE FileIsTheUploads'
  BY <1>24 DEF Fails, Party, FilesRest, TableInv, FileIsTheUploads, Writes
<1>25. ASSUME NEW r \in Reqs, Answers(r), FilesRest PROVE FileIsTheUploads'
  BY <1>25 DEF Answers, Hop, FilesRest, TableInv, FileIsTheUploads, Writes
<1>26. ASSUME NEW r \in Reqs, NEW p \in {"appended", "rmdir"}, GoesOn(r, p), FilesRest
      PROVE FileIsTheUploads'
  BY <1>26 DEF GoesOn, Hop, FilesRest, TableInv, FileIsTheUploads, Writes
<1>27. ASSUME NEW a \in Actors, NEW p \in {"copy", "commit", "rmdir", "ending"}, Takes(a, p), FilesRest
      PROVE FileIsTheUploads'
  BY <1>27 DEF Takes, Hop, FilesRest, TableInv, FileIsTheUploads, Writes
<1>28. ASSUME NEW a \in Actors, Releases(a), FilesRest PROVE FileIsTheUploads'
  BY <1>28 DEF Releases, Hop, FilesRest, TableInv, FileIsTheUploads, Writes
<1>29. ASSUME NEW a \in Actors, Forgets(a), FilesRest PROVE FileIsTheUploads'
  BY <1>29 DEF Forgets, Hop, FilesRest, TableInv, FileIsTheUploads, Writes
<1> QED
  BY <1>1, <1>2, <1>3, <1>4, <1>5, <1>6, <1>7, <1>8, <1>9, <1>10, <1>11, <1>12, <1>13, <1>14,
     <1>15, <1>16, <1>17, <1>18, <1>19, <1>20, <1>21, <1>22, <1>23, <1>24, <1>25, <1>26, <1>27,
     <1>28, <1>29 DEF FileStep

LEMMA DigestsNext ==
  ASSUME TypeOK, TableInv, FilesAreMade, HandlesHaveFiles, FileIsTheUploads, DigestsFollowFile,
         BlobMatchesDigest, FileStep
  PROVE  DigestsFollowFile'
<1> USE SessionConstants DEF None, Handles, Actors
<1>1. CASE BeginDir
  BY <1>1 DEF BeginDir, diskVars, handleVars, tableVars, reqVars, procVars, histVars, TableInv,
     DigestsFollowFile
<1>2. CASE BeginRow
  BY <1>2 DEF BeginRow, diskVars, handleVars, tableVars, reqVars, procVars, histVars, TableInv,
     DigestsFollowFile
<1>3. CASE BeginFile
  <2>1. used = 0 /\ 1 \in Handles /\ sum[1] = <<>> /\ file[1] = <<>>
    BY <1>3 DEF BeginFile, TableInv, BeforeGrant, FilesAreMade
  <2>2. fd'[1] = 1 /\ UNCHANGED <<sum, file>>
    BY <1>3, <2>1 DEF BeginFile, TypeOK, diskVars
  <2>3. \A h \in Handles : h # 1 => st'[h] \notin {"opened", "live"}
    <3>1. \A h \in Handles : h # 1 => st'[h] = st[h] /\ h > used
      BY <1>3, <2>1 DEF BeginFile, TypeOK
    <3> QED
      BY <3>1 DEF TableInv, HandlesAreMade
  <2> QED
    BY <2>1, <2>2, <2>3 DEF DigestsFollowFile
<1>4. CASE BeginFails
  BY <1>4 DEF BeginFails, diskVars, handleVars, tableVars, reqVars, procVars, histVars,
     TableInv, DigestsFollowFile
<1>5. CASE ProcessEnds
  BY <1>5 DEF ProcessEnds, diskVars, handleVars, tableVars, reqVars, procVars, histVars,
     TableInv, DigestsFollowFile
<1>6. ASSUME Rests, MayRemove PROVE DigestsFollowFile'
  BY <1>6 DEF Rests, MayRemove, TableInv, DigestsFollowFile
<1>7. ASSUME NEW a \in Actors, Finishes(a), MayRemove PROVE DigestsFollowFile'
  BY <1>7 DEF Finishes, Hop, MayRemove, TableInv, DigestsFollowFile
<1>8. ASSUME NEW r \in Reqs, Creates(r) PROVE DigestsFollowFile'
  BY <1>8 DEF Creates, Opens, Hop, TableInv, DigestsFollowFile
<1>9. ASSUME NEW r \in Reqs, Hashes(r) PROVE DigestsFollowFile'
  BY <1>9 DEF Hashes, Reads, Hop, TableInv, DigestsFollowFile
<1>10. ASSUME NEW r \in Reqs, Commits(r) PROVE DigestsFollowFile'
  BY <1>10 DEF Commits, GoesOn, Hop, Watched, TableInv, DigestsFollowFile
<1>11. ASSUME NEW r \in Reqs, NEW b \in Bytes, Extends(r, b) PROVE DigestsFollowFile'
  <2>1. /\ pc[r] = "copy" /\ UNCHANGED <<st, fd, poisoned, pc, at>>
        /\ overtaken \subseteq overtaken' /\ Len(sum[at[r]]) < MaxLen
    BY <1>11 DEF Extends, WritesByte, Rests
  <2>2. at[r] \in Handles /\ fd[at[r]] \in Handles /\ st[at[r]] = "live" /\ ~poisoned[at[r]]
    BY <2>1, WriterFacts
  <2>3. ASSUME fd[at[r]] \notin overtaken' PROVE sum'[at[r]] = file'[fd[at[r]]]
    <3>1. sum[at[r]] = file[fd[at[r]]]
      <4>1. \A q \in Reqs : ~(pc[q] = "hash" /\ at[q] = at[r])
        BY <2>1, WriterFacts
      <4> QED
        BY <2>1, <2>2, <2>3, <4>1 DEF DigestsFollowFile
    <3>2. Append(sum[at[r]], b) = WriteAt(sum[at[r]], Len(sum[at[r]]), b)
      BY <2>1, <2>2, AppendIs DEF TypeOK
    <3> QED
      BY <1>11, <3>1, <3>2 DEF Extends, WritesByte
  <2>4. ASSUME NEW g \in Handles, g # at[r], st[g] \in {"opened", "live"}, fd[g] \notin overtaken'
        PROVE  sum'[g] = sum[g] /\ file'[fd[g]] = file[fd[g]]
    <3>1. Watched(fd[g])
      BY <2>1, <2>4, Beside DEF Watched, Reading
    <3>2. fd[g] # fd[at[r]]
      BY <1>11, <2>4, <3>1 DEF Extends, WritesByte
    <3>3. fd[g] \in Handles
      BY <2>4 DEF TypeOK, HandlesHaveFiles
    <3> QED
      BY <1>11, <2>4, <3>2, <3>3 DEF Extends, WritesByte
  <2> QED
    BY <2>1, <2>3, <2>4 DEF DigestsFollowFile
<1>12. ASSUME NEW r \in Reqs, NEW b \in Bytes, Tears(r, b) PROVE DigestsFollowFile'
  <2>1. /\ pc[r] = "copy" /\ UNCHANGED <<st, fd, sum>> /\ poisoned'[at[r]]
        /\ overtaken \subseteq overtaken'
        /\ \A h \in Handles : h # at[r] => poisoned'[h] = poisoned[h]
        /\ \A q \in Reqs : pc[q] = "hash" => pc'[q] = pc[q] /\ at'[q] = at[q]
    BY <1>12 DEF Tears, WritesByte, Releases, GoesOn, Hop
  <2>2. ASSUME NEW g \in Handles, g # at[r], st[g] \in {"opened", "live"}, fd[g] \notin overtaken'
        PROVE  file'[fd[g]] = file[fd[g]]
    <3>1. Watched(fd[g])
      BY <2>1, <2>2, Beside DEF Watched, Reading
    <3>2. fd[g] # fd[at[r]]
      BY <1>12, <2>2, <3>1 DEF Tears, WritesByte
    <3>3. fd[g] \in Handles
      BY <2>2 DEF TypeOK, HandlesHaveFiles
    <3> QED
      BY <1>12, <2>2, <3>2, <3>3 DEF Tears, WritesByte
  <2> QED
    BY <2>1, <2>2 DEF DigestsFollowFile
<1>13. ASSUME BeginRegister, FilesRest PROVE DigestsFollowFile'
  BY <1>13 DEF BeginRegister, FilesRest, diskVars, handleVars, tableVars, reqVars, procVars,
     histVars, TableInv, DigestsFollowFile, HandlesAreMade, BeforeGrant
<1>14. ASSUME Close, FilesRest PROVE DigestsFollowFile'
  BY <1>14 DEF Close, FilesRest, diskVars, handleVars, tableVars, reqVars, procVars, histVars,
     TableInv, DigestsFollowFile
<1>15. ASSUME CloseDetach, FilesRest PROVE DigestsFollowFile'
  BY <1>15 DEF CloseDetach, FilesRest, diskVars, handleVars, tableVars, reqVars, procVars,
     histVars, TableInv, DigestsFollowFile
<1>16. ASSUME Evicts, FilesRest PROVE DigestsFollowFile'
  BY <1>16 DEF Evicts, Hop, FilesRest, TableInv, DigestsFollowFile
<1>17. ASSUME NEW r \in Reqs, Finds(r), FilesRest PROVE DigestsFollowFile'
  BY <1>17 DEF Finds, Hop, FilesRest, TableInv, DigestsFollowFile
<1>18. ASSUME NEW r \in Reqs, Joins(r), FilesRest PROVE DigestsFollowFile'
  BY <1>18 DEF Joins, Hop, FilesRest, TableInv, DigestsFollowFile
<1>19. ASSUME NEW r \in Reqs, Flies(r), FilesRest PROVE DigestsFollowFile'
  BY <1>19 DEF Flies, Hop, FilesRest, TableInv, DigestsFollowFile
<1>20. ASSUME NEW r \in Reqs, pc[r] = "get", Reads(r), FilesRest PROVE DigestsFollowFile'
  BY <1>20 DEF Reads, Hop, FilesRest, TableInv, DigestsFollowFile
<1>21. ASSUME NEW r \in Reqs, Registers(r), FilesRest PROVE DigestsFollowFile'
  BY <1>21 DEF Registers, Hop, FilesRest, TableInv, DigestsFollowFile, HandlesAreMade,
     FlightIsPrivate, Reading
<1>22. ASSUME NEW r \in Reqs, Detaches(r), FilesRest PROVE DigestsFollowFile'
  BY <1>22 DEF Detaches, Hop, FilesRest, TableInv, DigestsFollowFile
<1>23. ASSUME NEW r \in Reqs, Publishes(r), FilesRest PROVE DigestsFollowFile'
  BY <1>23 DEF Publishes, Party, FilesRest, TableInv, DigestsFollowFile
<1>24. ASSUME NEW r \in Reqs, Fails(r), FilesRest PROVE DigestsFollowFile'
  BY <1>24 DEF Fails, Party, FilesRest, TableInv, DigestsFollowFile
<1>25. ASSUME NEW r \in Reqs, Answers(r), FilesRest PROVE DigestsFollowFile'
  BY <1>25 DEF Answers, Hop, FilesRest, TableInv, DigestsFollowFile
<1>26. ASSUME NEW r \in Reqs, NEW p \in {"appended", "rmdir"}, GoesOn(r, p), FilesRest
      PROVE DigestsFollowFile'
  BY <1>26 DEF GoesOn, Hop, FilesRest, TableInv, DigestsFollowFile
<1>27. ASSUME NEW a \in Actors, NEW p \in {"copy", "commit", "rmdir", "ending"}, Takes(a, p), FilesRest
      PROVE DigestsFollowFile'
  BY <1>27 DEF Takes, Hop, FilesRest, TableInv, DigestsFollowFile
<1>28. ASSUME NEW a \in Actors, Releases(a), FilesRest PROVE DigestsFollowFile'
  BY <1>28 DEF Releases, Hop, FilesRest, TableInv, DigestsFollowFile
<1>29. ASSUME NEW a \in Actors, Forgets(a), FilesRest PROVE DigestsFollowFile'
  BY <1>29 DEF Forgets, Hop, FilesRest, TableInv, DigestsFollowFile
<1> QED
  BY <1>1, <1>2, <1>3, <1>4, <1>5, <1>6, <1>7, <1>8, <1>9, <1>10, <1>11, <1>12, <1>13, <1>14,
     <1>15, <1>16, <1>17, <1>18, <1>19, <1>20, <1>21, <1>22, <1>23, <1>24, <1>25, <1>26, <1>27,
     <1>28, <1>29 DEF FileStep

LEMMA BlobsNext ==
  ASSUME TypeOK, TableInv, FilesAreMade, HandlesHaveFiles, FileIsTheUploads, DigestsFollowFile,
         BlobMatchesDigest, FileStep
  PROVE  BlobMatchesDigest'
<1> USE SessionConstants DEF None, Handles, Actors
<1>1. CASE BeginDir
  BY <1>1 DEF BeginDir, diskVars, handleVars, tableVars, reqVars, procVars, histVars, TableInv,
     BlobMatchesDigest
<1>2. CASE BeginRow
  BY <1>2 DEF BeginRow, diskVars, handleVars, tableVars, reqVars, procVars, histVars, TableInv,
     BlobMatchesDigest
<1>3. CASE BeginFile
  BY <1>3 DEF BeginFile, diskVars, handleVars, tableVars, reqVars, procVars, histVars, TableInv,
     BlobMatchesDigest
<1>4. CASE BeginFails
  BY <1>4 DEF BeginFails, diskVars, handleVars, tableVars, reqVars, procVars, histVars,
     TableInv, BlobMatchesDigest
<1>5. CASE ProcessEnds
  BY <1>5 DEF ProcessEnds, diskVars, handleVars, tableVars, reqVars, procVars, histVars,
     TableInv, BlobMatchesDigest
<1>6. ASSUME Rests, MayRemove PROVE BlobMatchesDigest'
  BY <1>6 DEF Rests, MayRemove, TableInv, BlobMatchesDigest
<1>7. ASSUME NEW a \in Actors, Finishes(a), MayRemove PROVE BlobMatchesDigest'
  BY <1>7 DEF Finishes, Hop, MayRemove, TableInv, BlobMatchesDigest
<1>8. ASSUME NEW r \in Reqs, Creates(r) PROVE BlobMatchesDigest'
  BY <1>8 DEF Creates, Opens, Hop, TableInv, BlobMatchesDigest
<1>9. ASSUME NEW r \in Reqs, Hashes(r) PROVE BlobMatchesDigest'
  BY <1>9 DEF Hashes, Reads, Hop, TableInv, BlobMatchesDigest
<1>10. ASSUME NEW r \in Reqs, Commits(r) PROVE BlobMatchesDigest'
  <2>1. /\ pc[r] = "commit" /\ path # None /\ file' = file /\ overtaken \subseteq overtaken'
        /\ blobs' = blobs \cup {[digest |-> sum[at[r]], ino |-> path]}
        /\ fd[at[r]] \in overtaken => path \in overtaken'
    BY <1>10 DEF Commits
  <2>2. ASSUME fd[at[r]] \notin overtaken PROVE file[path] = sum[at[r]]
    <3>1. /\ at[r] \in Handles /\ Writes(at[r]) /\ st[at[r]] = "live" /\ ~poisoned[at[r]]
          /\ \A q \in Reqs : ~(pc[q] = "hash" /\ at[q] = at[r])
      BY <2>1, WriterFacts
    <3>2. path = fd[at[r]]
      BY <2>1, <2>2, <3>1 DEF FileIsTheUploads
    <3> QED
      BY <2>2, <3>1, <3>2 DEF DigestsFollowFile
  <2> QED
    BY <2>1, <2>2 DEF BlobMatchesDigest
<1>11. ASSUME NEW r \in Reqs, NEW b \in Bytes, Extends(r, b) PROVE BlobMatchesDigest'
  BY <1>11, WriteSparesBlobs DEF Extends
<1>12. ASSUME NEW r \in Reqs, NEW b \in Bytes, Tears(r, b) PROVE BlobMatchesDigest'
  BY <1>12, WriteSparesBlobs DEF Tears
<1>13. ASSUME BeginRegister, FilesRest PROVE BlobMatchesDigest'
  BY <1>13 DEF BeginRegister, FilesRest, diskVars, handleVars, tableVars, reqVars, procVars,
     histVars, TableInv, BlobMatchesDigest
<1>14. ASSUME Close, FilesRest PROVE BlobMatchesDigest'
  BY <1>14 DEF Close, FilesRest, diskVars, handleVars, tableVars, reqVars, procVars, histVars,
     TableInv, BlobMatchesDigest
<1>15. ASSUME CloseDetach, FilesRest PROVE BlobMatchesDigest'
  BY <1>15 DEF CloseDetach, FilesRest, diskVars, handleVars, tableVars, reqVars, procVars,
     histVars, TableInv, BlobMatchesDigest
<1>16. ASSUME Evicts, FilesRest PROVE BlobMatchesDigest'
  BY <1>16 DEF Evicts, Hop, FilesRest, TableInv, BlobMatchesDigest
<1>17. ASSUME NEW r \in Reqs, Finds(r), FilesRest PROVE BlobMatchesDigest'
  BY <1>17 DEF Finds, Hop, FilesRest, TableInv, BlobMatchesDigest
<1>18. ASSUME NEW r \in Reqs, Joins(r), FilesRest PROVE BlobMatchesDigest'
  BY <1>18 DEF Joins, Hop, FilesRest, TableInv, BlobMatchesDigest
<1>19. ASSUME NEW r \in Reqs, Flies(r), FilesRest PROVE BlobMatchesDigest'
  BY <1>19 DEF Flies, Hop, FilesRest, TableInv, BlobMatchesDigest
<1>20. ASSUME NEW r \in Reqs, pc[r] = "get", Reads(r), FilesRest PROVE BlobMatchesDigest'
  BY <1>20 DEF Reads, Hop, FilesRest, TableInv, BlobMatchesDigest
<1>21. ASSUME NEW r \in Reqs, Registers(r), FilesRest PROVE BlobMatchesDigest'
  BY <1>21 DEF Registers, Hop, FilesRest, TableInv, BlobMatchesDigest
<1>22. ASSUME NEW r \in Reqs, Detaches(r), FilesRest PROVE BlobMatchesDigest'
  BY <1>22 DEF Detaches, Hop, FilesRest, TableInv, BlobMatchesDigest
<1>23. ASSUME NEW r \in Reqs, Publishes(r), FilesRest PROVE BlobMatchesDigest'
  BY <1>23 DEF Publishes, Party, FilesRest, TableInv, BlobMatchesDigest
<1>24. ASSUME NEW r \in Reqs, Fails(r), FilesRest PROVE BlobMatchesDigest'
  BY <1>24 DEF Fails, Party, FilesRest, TableInv, BlobMatchesDigest
<1>25. ASSUME NEW r \in Reqs, Answers(r), FilesRest PROVE BlobMatchesDigest'
  BY <1>25 DEF Answers, Hop, FilesRest, TableInv, BlobMatchesDigest
<1>26. ASSUME NEW r \in Reqs, NEW p \in {"appended", "rmdir"}, GoesOn(r, p), FilesRest
      PROVE BlobMatchesDigest'
  BY <1>26 DEF GoesOn, Hop, FilesRest, TableInv, BlobMatchesDigest
<1>27. ASSUME NEW a \in Actors, NEW p \in {"copy", "commit", "rmdir", "ending"}, Takes(a, p), FilesRest
      PROVE BlobMatchesDigest'
  BY <1>27 DEF Takes, Hop, FilesRest, TableInv, BlobMatchesDigest
<1>28. ASSUME NEW a \in Actors, Releases(a), FilesRest PROVE BlobMatchesDigest'
  BY <1>28 DEF Releases, Hop, FilesRest, TableInv, BlobMatchesDigest
<1>29. ASSUME NEW a \in Actors, Forgets(a), FilesRest PROVE BlobMatchesDigest'
  BY <1>29 DEF Forgets, Hop, FilesRest, TableInv, BlobMatchesDigest
<1> QED
  BY <1>1, <1>2, <1>3, <1>4, <1>5, <1>6, <1>7, <1>8, <1>9, <1>10, <1>11, <1>12, <1>13, <1>14,
     <1>15, <1>16, <1>17, <1>18, <1>19, <1>20, <1>21, <1>22, <1>23, <1>24, <1>25, <1>26, <1>27,
     <1>28, <1>29 DEF FileStep

-----------------------------------------------------------------------------
(* Types. *)

FilesTyped ==
    /\ path \in Handles \cup {None}
    /\ file \in [Handles -> Contents]
    /\ sum \in [Handles -> Contents]
    /\ blobs \subseteq [digest : Contents, ino : Handles]
    /\ acked \in Contents
    /\ overtaken \subseteq Handles

HandlesTyped ==
    /\ used \in 0 .. MaxHandles
    /\ st \in [Handles -> {"unmade", "opened", "live", "done"}]
    /\ fd \in [Handles -> Handles \cup {None}]
    /\ poisoned \in [Handles -> BOOLEAN]
    /\ busy \in [Handles -> BOOLEAN]
    /\ upLock \in [Handles -> Actors \cup {None}]
    /\ upDone \in [Handles -> BOOLEAN]
    /\ upPoisoned \in [Handles -> BOOLEAN]

RequestsTyped ==
    /\ pc \in [Actors -> RebuildPcs \cup {"idle", "join", "lock", "copy", "appended",
                                          "commit", "rmdir", "delrow", "ending", "remove"}]
    /\ verb \in [Actors -> {"none", "patch", "put", "delete", "evict"}]
    /\ at \in [Actors -> Handles \cup {None}]
    /\ prev \in [Actors -> Handles \cup {None}]

RestTyped ==
    /\ row \in {"none", "live", "expired"}
    /\ dir \in BOOLEAN
    /\ beginPc \in {"off", "dir", "row", "file", "granted", "failed"}
    /\ reg \in Handles \cup {None}
    /\ closed \in BOOLEAN
    /\ closing \in Handles \cup {None}
    /\ byID \in Handles \cup {None}
    /\ sweeper \in BOOLEAN
    /\ serving \in BOOLEAN
    /\ sweep \in {"off", "list", "live", "rmdir", "delrow", "readdir", "orphanLive", "orphanRow",
                  "orphanRm"}
    /\ sweepErr \in BOOLEAN
    /\ restarts \in 0 .. MaxRestarts
    /\ ended \in BOOLEAN

LEMMA FilesTypedNext == ASSUME TypeOK, TableInv, FileInv, [Next]_vars PROVE FilesTyped'
<1> USE SessionConstants DEF None, Handles, Actors
<1>1. CASE UNCHANGED vars
  BY <1>1 DEF FilesTyped, TypeOK, vars
<1>2. CASE BeginDir
  BY <1>2 DEF FilesTyped, TypeOK, BeginDir, diskVars, handleVars, tableVars, reqVars, procVars,
     histVars
<1>3. CASE BeginRow
  BY <1>3 DEF FilesTyped, TypeOK, BeginRow, diskVars, handleVars, tableVars, reqVars, procVars,
     histVars
<1>4. CASE BeginFile
  BY <1>4 DEF FilesTyped, TypeOK, BeginFile, diskVars, handleVars, tableVars, reqVars, procVars,
     histVars
<1>5. CASE BeginRegister
  BY <1>5 DEF FilesTyped, TypeOK, BeginRegister, diskVars, handleVars, tableVars, reqVars,
     procVars, histVars
<1>6. CASE BeginFails
  BY <1>6 DEF FilesTyped, TypeOK, BeginFails, diskVars, handleVars, tableVars, reqVars,
     procVars, histVars
<1>7. CASE OtherUploadBegins
  BY <1>7 DEF FilesTyped, TypeOK, OtherUploadBegins, diskVars, handleVars, tableVars, reqVars,
     procVars, histVars
<1>8. CASE EvictIdle
  BY <1>8 DEF FilesTyped, TypeOK, EvictIdle, diskVars, handleVars, tableVars, reqVars, procVars,
     histVars, Goes
<1>9. CASE RowExpires
  BY <1>9 DEF FilesTyped, TypeOK, RowExpires, diskVars, handleVars, tableVars, reqVars,
     procVars, histVars
<1>10. CASE Close
  BY <1>10 DEF FilesTyped, TypeOK, Close, diskVars, handleVars, tableVars, reqVars, procVars,
     histVars
<1>11. CASE CloseDetach
  BY <1>11 DEF FilesTyped, TypeOK, CloseDetach, diskVars, handleVars, tableVars, reqVars,
     procVars, histVars
<1>12. CASE ProcessEnds
  BY <1>12, EmptyIs DEF ProcessEnds, FilesTyped, TypeOK, diskVars, histVars
<1>13. CASE SweepStart \/ SweepStep
  BY <1>13, SweepEffect DEF FilesTyped, TypeOK, diskVars, handleVars, tableVars, reqVars,
     procVars, histVars
<1>14. ASSUME NEW r \in Reqs, Arrive(r) PROVE FilesTyped'
  BY <1>14 DEF FilesTyped, TypeOK, Arrive, diskVars, handleVars, tableVars, reqVars, procVars,
     histVars, Goes
<1>15. ASSUME NEW r \in Reqs, ResumeGet(r) PROVE FilesTyped'
  BY <1>15 DEF FilesTyped, TypeOK, ResumeGet, diskVars, handleVars, tableVars, reqVars,
     procVars, histVars, Goes
<1>16. ASSUME NEW r \in Reqs, ResumeOpen(r) PROVE FilesTyped'
  BY <1>16 DEF FilesTyped, TableInv, TypeOK, HandlesAreMade, OneFlyer, RebuildPcs, ResumeOpen,
     diskVars, handleVars, tableVars, reqVars, procVars, histVars, Goes
<1>17. ASSUME NEW r \in Reqs, ResumeHash(r) PROVE FilesTyped'
  <2>1. at[r] \in Handles /\ st[at[r]] = "opened"
    BY <1>17 DEF ResumeHash, TableInv, HandlesAreMade, FlightIsPrivate, Reading
  <2>2. file[fd[at[r]]] \in Contents
    BY <2>1 DEF TypeOK, FileInv, HandlesHaveFiles
  <2> QED
    BY <1>17, <2>1, <2>2 DEF ResumeHash, FilesTyped, TypeOK, diskVars, histVars
<1>18. ASSUME NEW r \in Reqs, ResumeRegister(r) PROVE FilesTyped'
  BY <1>18 DEF FilesTyped, TypeOK, ResumeRegister, diskVars, handleVars, tableVars, reqVars,
     procVars, histVars, Goes
<1>19. ASSUME NEW r \in Reqs, ResumeDetach(r) PROVE FilesTyped'
  BY <1>19 DEF FilesTyped, TypeOK, ResumeDetach, diskVars, handleVars, tableVars, reqVars,
     procVars, histVars, Goes
<1>20. ASSUME NEW r \in Reqs, ResumePublish(r) PROVE FilesTyped'
  BY <1>20 DEF FilesTyped, TypeOK, ResumePublish, Party, diskVars, handleVars, tableVars,
     reqVars, procVars, histVars, Goes
<1>21. ASSUME NEW r \in Reqs, ResumeFails(r) PROVE FilesTyped'
  BY <1>21 DEF FilesTyped, TypeOK, ResumeFails, Party, diskVars, handleVars, tableVars, reqVars,
     procVars, histVars, Goes
<1>22. ASSUME NEW r \in Reqs, Answered(r) PROVE FilesTyped'
  BY <1>22 DEF FilesTyped, TypeOK, Answered, diskVars, handleVars, tableVars, reqVars, procVars,
     histVars, Goes, Returns
<1>23. ASSUME NEW r \in Reqs, PatchBegin(r) PROVE FilesTyped'
  BY <1>23 DEF FilesTyped, TypeOK, PatchBegin, diskVars, handleVars, tableVars, reqVars,
     procVars, histVars, Goes, Returns
<1>24. ASSUME NEW r \in Reqs, PutBegin(r) PROVE FilesTyped'
  BY <1>24 DEF FilesTyped, TypeOK, PutBegin, AbortPc, diskVars, handleVars, tableVars, reqVars,
     procVars, histVars, Goes
<1>35. ASSUME NEW r \in Reqs, PutGoesOn(r) PROVE FilesTyped'
  BY <1>35 DEF FilesTyped, TypeOK, PutGoesOn, AbortPc, diskVars, handleVars, tableVars,
     reqVars, procVars, histVars, Goes
<1>25. ASSUME NEW r \in Reqs, CopyEnds(r) PROVE FilesTyped'
  BY <1>25 DEF FilesTyped, TableInv, TypeOK, HandlesAreMade, CopyEnds, AppendReturns, diskVars,
     handleVars, tableVars, reqVars, procVars, histVars, Goes, Returns
<1>26. ASSUME NEW r \in Reqs, CopyFails(r) PROVE FilesTyped'
  <2>1. UNCHANGED <<path, blobs, sum, acked>>
    BY <1>26 DEF CopyFails, AppendReturns
  <2>2. pc[r] = "copy" /\ fd[at[r]] \in Handles /\ at[r] \in Handles
    BY <1>26, WriterFacts DEF CopyFails, FileInv
  <2>3. CASE UNCHANGED <<file, overtaken>>
    BY <2>1, <2>3 DEF FilesTyped, TypeOK
  <2>4. CASE ~ UNCHANGED <<file, overtaken>>
    <3>1. PICK c \in Bytes :
              file' = [file EXCEPT ![fd[at[r]]] = WriteAt(@, Len(sum[at[r]]), c)]
      BY <1>26, <2>4 DEF CopyFails
    <3>2. Len(sum[at[r]]) < MaxLen /\ overtaken' \subseteq overtaken \cup {fd[at[r]]}
      BY <1>26, <2>4 DEF CopyFails, Overtakes
    <3>3. /\ file[fd[at[r]]] \in Contents /\ Len(sum[at[r]]) \in Nat
          /\ Len(sum[at[r]]) <= Len(file[fd[at[r]]])
      BY <2>2, WriterFacts, Lengths DEF FileInv, TypeOK
    <3>4. WriteAt(file[fd[at[r]]], Len(sum[at[r]]), c) \in Contents
      BY <3>2, <3>3, WriteAtIs
    <3> QED
      BY <2>1, <2>2, <3>1, <3>2, <3>4 DEF FilesTyped, TypeOK
  <2> QED
    BY <2>3, <2>4
<1>27. ASSUME NEW r \in Reqs, CommitPublish(r) PROVE FilesTyped'
  <2>1. at[r] \in Handles /\ sum[at[r]] \in Contents
    BY <1>27 DEF CommitPublish, TypeOK, TableInv, HandlesAreMade
  <2>2. UNCHANGED <<file, sum, acked>>
    BY <1>27 DEF CommitPublish, handleVars
  <2>3. /\ path' \in {None, path}
        /\ blobs' = blobs \/ (path # None /\ blobs' = blobs \cup {[digest |-> sum[at[r]], ino |-> path]})
        /\ overtaken' = overtaken \/ (path # None /\ overtaken' \subseteq overtaken \cup {path})
    BY <1>27 DEF CommitPublish, Overtakes
  <2>4. blobs' \subseteq [digest : Contents, ino : Handles] /\ overtaken' \subseteq Handles
    <3>1. /\ blobs \subseteq [digest : Contents, ino : Handles] /\ overtaken \subseteq Handles
          /\ path # None => path \in Handles
      BY DEF TypeOK
    <3>2. path # None =>
            [digest |-> sum[at[r]], ino |-> path] \in [digest : Contents, ino : Handles]
      BY <2>1, <3>1
    <3> QED
      BY <2>3, <3>1, <3>2
  <2> QED
    BY <2>2, <2>3, <2>4 DEF FilesTyped, TypeOK
<1>28. ASSUME NEW r \in Reqs, CommitFails(r) PROVE FilesTyped'
  BY <1>28 DEF FilesTyped, TypeOK, CommitFails, diskVars, handleVars, tableVars, reqVars,
     procVars, histVars, Goes
<1>29. ASSUME NEW r \in Reqs, DeleteRemoves(r) PROVE FilesTyped'
  BY <1>29 DEF FilesTyped, TypeOK, DeleteRemoves, diskVars, handleVars, tableVars, reqVars,
     procVars, histVars, Goes, Returns
<1>30. ASSUME NEW r \in Reqs, NEW b \in Bytes, CopyChunk(r, b) PROVE FilesTyped'
  <2>1. /\ pc[r] = "copy" /\ Len(sum[at[r]]) < MaxLen /\ UNCHANGED <<path, blobs, acked>>
        /\ overtaken' \subseteq overtaken \cup {fd[at[r]]}
    BY <1>30 DEF CopyChunk, Overtakes
  <2>2. fd[at[r]] \in Handles /\ at[r] \in Handles
    BY <2>1, WriterFacts DEF FileInv
  <2>3. /\ file[fd[at[r]]] \in Contents /\ Len(sum[at[r]]) \in Nat /\ sum[at[r]] \in Contents
        /\ Len(sum[at[r]]) <= Len(file[fd[at[r]]])
    BY <2>1, <2>2, WriterFacts, Lengths DEF FileInv, TypeOK
  <2>4. WriteAt(file[fd[at[r]]], Len(sum[at[r]]), b) \in Contents /\ Append(sum[at[r]], b) \in Contents
    BY <2>1, <2>3, WriteAtIs, AppendIs
  <2> QED
    BY <1>30, <2>1, <2>2, <2>4 DEF CopyChunk, FilesTyped, TypeOK
<1>31. ASSUME NEW a \in Actors, AbortBegin(a) PROVE FilesTyped'
  BY <1>31 DEF FilesTyped, TypeOK, AbortBegin, AbortPc, diskVars, handleVars, tableVars,
     reqVars, procVars, histVars, Goes
<1>32. ASSUME NEW a \in Actors, FinishDir(a) PROVE FilesTyped'
  BY <1>32 DEF FilesTyped, TypeOK, FinishDir, diskVars, handleVars, tableVars, reqVars,
     procVars, histVars, Goes
<1>33. ASSUME NEW a \in Actors, FinishRow(a) PROVE FilesTyped'
  BY <1>33 DEF FilesTyped, TypeOK, FinishRow, diskVars, handleVars, tableVars, reqVars,
     procVars, histVars, Goes
<1>34. ASSUME NEW a \in Actors, VerbEnds(a) PROVE FilesTyped'
  BY <1>34 DEF FilesTyped, TypeOK, VerbEnds, diskVars, handleVars, tableVars, reqVars, procVars,
     histVars, Goes, Returns
<1> QED
  BY <1>1, <1>2, <1>3, <1>4, <1>5, <1>6, <1>7, <1>8, <1>9, <1>10, <1>11, <1>12, <1>13, <1>14,
     <1>15, <1>16, <1>17, <1>18, <1>19, <1>20, <1>21, <1>22, <1>23, <1>24, <1>25, <1>26, <1>27,
     <1>28, <1>29, <1>30, <1>31, <1>32, <1>33, <1>34, <1>35
  DEF Next, BeginStep, ResumeStep, VerbStep, FinishStep, Actors

LEMMA HandlesTypedNext == ASSUME TypeOK, TableInv, FileInv, [Next]_vars PROVE HandlesTyped'
<1> USE SessionConstants DEF None, Handles, Actors
<1>1. CASE UNCHANGED vars
  BY <1>1 DEF HandlesTyped, TypeOK, vars
<1>2. CASE BeginDir
  BY <1>2 DEF HandlesTyped, TypeOK, BeginDir, diskVars, handleVars, tableVars, reqVars,
     procVars, histVars
<1>3. CASE BeginRow
  BY <1>3 DEF HandlesTyped, TypeOK, BeginRow, diskVars, handleVars, tableVars, reqVars,
     procVars, histVars
<1>4. CASE BeginFile
  BY <1>4 DEF HandlesTyped, TypeOK, BeginFile, diskVars, handleVars, tableVars, reqVars,
     procVars, histVars
<1>5. CASE BeginRegister
  BY <1>5 DEF HandlesTyped, TypeOK, BeginRegister, diskVars, handleVars, tableVars, reqVars,
     procVars, histVars
<1>6. CASE BeginFails
  BY <1>6 DEF HandlesTyped, TypeOK, BeginFails, diskVars, handleVars, tableVars, reqVars,
     procVars, histVars
<1>7. CASE OtherUploadBegins
  BY <1>7 DEF HandlesTyped, TypeOK, OtherUploadBegins, diskVars, handleVars, tableVars, reqVars,
     procVars, histVars
<1>8. CASE EvictIdle
  BY <1>8 DEF HandlesTyped, TypeOK, EvictIdle, diskVars, handleVars, tableVars, reqVars,
     procVars, histVars, Goes
<1>9. CASE RowExpires
  BY <1>9 DEF HandlesTyped, TypeOK, RowExpires, diskVars, handleVars, tableVars, reqVars,
     procVars, histVars
<1>10. CASE Close
  BY <1>10 DEF HandlesTyped, TypeOK, Close, diskVars, handleVars, tableVars, reqVars, procVars,
     histVars
<1>11. CASE CloseDetach
  BY <1>11 DEF HandlesTyped, TypeOK, CloseDetach, diskVars, handleVars, tableVars, reqVars,
     procVars, histVars
<1>12. CASE ProcessEnds
  BY <1>12 DEF HandlesTyped, TypeOK, ProcessEnds, diskVars, handleVars, tableVars, reqVars,
     procVars, histVars
<1>13. CASE SweepStart \/ SweepStep
  BY <1>13, SweepEffect DEF HandlesTyped, TypeOK, diskVars, handleVars, tableVars, reqVars,
     procVars, histVars
<1>14. ASSUME NEW r \in Reqs, Arrive(r) PROVE HandlesTyped'
  BY <1>14 DEF HandlesTyped, TypeOK, Arrive, diskVars, handleVars, tableVars, reqVars, procVars,
     histVars, Goes
<1>15. ASSUME NEW r \in Reqs, ResumeGet(r) PROVE HandlesTyped'
  BY <1>15 DEF HandlesTyped, TypeOK, ResumeGet, diskVars, handleVars, tableVars, reqVars,
     procVars, histVars, Goes
<1>16. ASSUME NEW r \in Reqs, ResumeOpen(r) PROVE HandlesTyped'
  BY <1>16 DEF HandlesTyped, TableInv, TypeOK, HandlesAreMade, OneFlyer, RebuildPcs, ResumeOpen,
     diskVars, handleVars, tableVars, reqVars, procVars, histVars, Goes
<1>17. ASSUME NEW r \in Reqs, ResumeHash(r) PROVE HandlesTyped'
  BY <1>17 DEF HandlesTyped, TypeOK, ResumeHash, diskVars, handleVars, tableVars, reqVars,
     procVars, histVars, Goes
<1>18. ASSUME NEW r \in Reqs, ResumeRegister(r) PROVE HandlesTyped'
  BY <1>18 DEF HandlesTyped, TypeOK, ResumeRegister, diskVars, handleVars, tableVars, reqVars,
     procVars, histVars, Goes
<1>19. ASSUME NEW r \in Reqs, ResumeDetach(r) PROVE HandlesTyped'
  BY <1>19 DEF HandlesTyped, TypeOK, ResumeDetach, diskVars, handleVars, tableVars, reqVars,
     procVars, histVars, Goes
<1>20. ASSUME NEW r \in Reqs, ResumePublish(r) PROVE HandlesTyped'
  BY <1>20 DEF HandlesTyped, TypeOK, ResumePublish, Party, diskVars, handleVars, tableVars,
     reqVars, procVars, histVars, Goes
<1>21. ASSUME NEW r \in Reqs, ResumeFails(r) PROVE HandlesTyped'
  BY <1>21 DEF HandlesTyped, TypeOK, ResumeFails, Party, diskVars, handleVars, tableVars,
     reqVars, procVars, histVars, Goes
<1>22. ASSUME NEW r \in Reqs, Answered(r) PROVE HandlesTyped'
  BY <1>22 DEF HandlesTyped, TypeOK, Answered, diskVars, handleVars, tableVars, reqVars,
     procVars, histVars, Goes, Returns
<1>23. ASSUME NEW r \in Reqs, PatchBegin(r) PROVE HandlesTyped'
  <2>1. /\ upLock' \in [Handles -> Actors \cup {None}]
        /\ busy' \in [Handles -> BOOLEAN] /\ upPoisoned' \in [Handles -> BOOLEAN]
    <3>1. CASE st[at[r]] = "live" /\ ~poisoned[at[r]]
      <4>1. /\ upLock' = [upLock EXCEPT ![at[r]] = r] /\ busy' = [busy EXCEPT ![at[r]] = TRUE]
            /\ upPoisoned' = upPoisoned
        BY <1>23, <3>1 DEF PatchBegin
      <4> QED
        BY <4>1 DEF TypeOK
    <3>2. CASE ~(st[at[r]] = "live" /\ ~poisoned[at[r]])
      BY <1>23, <3>2 DEF PatchBegin, TypeOK
    <3> QED
      BY <3>1, <3>2
  <2>2. UNCHANGED <<used, st, fd, poisoned, upDone>>
    BY <1>23 DEF PatchBegin
  <2> QED
    BY <2>1, <2>2 DEF HandlesTyped, TypeOK
<1>24. ASSUME NEW r \in Reqs, PutBegin(r) PROVE HandlesTyped'
  BY <1>24 DEF HandlesTyped, TypeOK, PutBegin, AbortPc, diskVars, handleVars, tableVars,
     reqVars, procVars, histVars, Goes
<1>35. ASSUME NEW r \in Reqs, PutGoesOn(r) PROVE HandlesTyped'
  BY <1>35 DEF HandlesTyped, TypeOK, PutGoesOn, AbortPc, diskVars, handleVars, tableVars,
     reqVars, procVars, histVars, Goes
<1>25. ASSUME NEW r \in Reqs, CopyEnds(r) PROVE HandlesTyped'
  BY <1>25 DEF HandlesTyped, TableInv, TypeOK, HandlesAreMade, CopyEnds, AppendReturns,
     diskVars, handleVars, tableVars, reqVars, procVars, histVars, Goes, Returns
<1>26. ASSUME NEW r \in Reqs, CopyFails(r) PROVE HandlesTyped'
  BY <1>26 DEF HandlesTyped, TypeOK, CopyFails, AppendReturns, Overtakes, diskVars, handleVars,
     tableVars, reqVars, procVars, histVars, Goes, Returns
<1>27. ASSUME NEW r \in Reqs, CommitPublish(r) PROVE HandlesTyped'
  BY <1>27 DEF HandlesTyped, TypeOK, CommitPublish, Overtakes, diskVars, handleVars, tableVars,
     reqVars, procVars, histVars, Goes
<1>28. ASSUME NEW r \in Reqs, CommitFails(r) PROVE HandlesTyped'
  BY <1>28 DEF HandlesTyped, TypeOK, CommitFails, diskVars, handleVars, tableVars, reqVars,
     procVars, histVars, Goes
<1>29. ASSUME NEW r \in Reqs, DeleteRemoves(r) PROVE HandlesTyped'
  BY <1>29 DEF HandlesTyped, TypeOK, DeleteRemoves, diskVars, handleVars, tableVars, reqVars,
     procVars, histVars, Goes, Returns
<1>30. ASSUME NEW r \in Reqs, NEW b \in Bytes, CopyChunk(r, b) PROVE HandlesTyped'
  BY <1>30 DEF HandlesTyped, TypeOK, CopyChunk, Overtakes, diskVars, handleVars, tableVars,
     reqVars, procVars, histVars
<1>31. ASSUME NEW a \in Actors, AbortBegin(a) PROVE HandlesTyped'
  BY <1>31 DEF HandlesTyped, TypeOK, AbortBegin, AbortPc, diskVars, handleVars, tableVars,
     reqVars, procVars, histVars, Goes
<1>32. ASSUME NEW a \in Actors, FinishDir(a) PROVE HandlesTyped'
  BY <1>32 DEF HandlesTyped, TypeOK, FinishDir, diskVars, handleVars, tableVars, reqVars,
     procVars, histVars, Goes
<1>33. ASSUME NEW a \in Actors, FinishRow(a) PROVE HandlesTyped'
  BY <1>33 DEF HandlesTyped, TypeOK, FinishRow, diskVars, handleVars, tableVars, reqVars,
     procVars, histVars, Goes
<1>34. ASSUME NEW a \in Actors, VerbEnds(a) PROVE HandlesTyped'
  BY <1>34 DEF HandlesTyped, TypeOK, VerbEnds, diskVars, handleVars, tableVars, reqVars,
     procVars, histVars, Goes, Returns
<1> QED
  BY <1>1, <1>2, <1>3, <1>4, <1>5, <1>6, <1>7, <1>8, <1>9, <1>10, <1>11, <1>12, <1>13, <1>14,
     <1>15, <1>16, <1>17, <1>18, <1>19, <1>20, <1>21, <1>22, <1>23, <1>24, <1>25, <1>26, <1>27,
     <1>28, <1>29, <1>30, <1>31, <1>32, <1>33, <1>34, <1>35
  DEF Next, BeginStep, ResumeStep, VerbStep, FinishStep, Actors

LEMMA RequestsTypedNext == ASSUME TypeOK, TableInv, FileInv, [Next]_vars PROVE RequestsTyped'
<1> USE SessionConstants DEF None, Handles, Actors
<1>1. CASE UNCHANGED vars
  BY <1>1 DEF RequestsTyped, TypeOK, vars
<1>2. CASE BeginDir
  BY <1>2 DEF RequestsTyped, TypeOK, BeginDir, diskVars, handleVars, tableVars, reqVars,
     procVars, histVars
<1>3. CASE BeginRow
  BY <1>3 DEF RequestsTyped, TypeOK, BeginRow, diskVars, handleVars, tableVars, reqVars,
     procVars, histVars
<1>4. CASE BeginFile
  BY <1>4 DEF RequestsTyped, TypeOK, BeginFile, diskVars, handleVars, tableVars, reqVars,
     procVars, histVars
<1>5. CASE BeginRegister
  BY <1>5 DEF RequestsTyped, TypeOK, BeginRegister, diskVars, handleVars, tableVars, reqVars,
     procVars, histVars
<1>6. CASE BeginFails
  BY <1>6 DEF RequestsTyped, TypeOK, BeginFails, diskVars, handleVars, tableVars, reqVars,
     procVars, histVars
<1>7. CASE OtherUploadBegins
  BY <1>7 DEF RequestsTyped, TypeOK, OtherUploadBegins, diskVars, handleVars, tableVars,
     reqVars, procVars, histVars
<1>8. CASE EvictIdle
  BY <1>8 DEF RequestsTyped, TypeOK, EvictIdle, diskVars, handleVars, tableVars, reqVars,
     procVars, histVars, Goes
<1>9. CASE RowExpires
  BY <1>9 DEF RequestsTyped, TypeOK, RowExpires, diskVars, handleVars, tableVars, reqVars,
     procVars, histVars
<1>10. CASE Close
  BY <1>10 DEF RequestsTyped, TypeOK, Close, diskVars, handleVars, tableVars, reqVars, procVars,
     histVars
<1>11. CASE CloseDetach
  BY <1>11 DEF RequestsTyped, TypeOK, CloseDetach, diskVars, handleVars, tableVars, reqVars,
     procVars, histVars
<1>12. CASE ProcessEnds
  BY <1>12 DEF RequestsTyped, TypeOK, ProcessEnds, diskVars, handleVars, tableVars, reqVars,
     procVars, histVars
<1>13. CASE SweepStart \/ SweepStep
  BY <1>13, SweepEffect DEF RequestsTyped, TypeOK, diskVars, handleVars, tableVars, reqVars,
     procVars, histVars
<1>14. ASSUME NEW r \in Reqs, Arrive(r) PROVE RequestsTyped'
  <2>1. UNCHANGED <<verb, prev>>
    BY <1>14 DEF Arrive
  <2>2. PICK p \in {"lock", "join", "get"} : pc' = [pc EXCEPT ![r] = p]
    BY <1>14 DEF Arrive, Goes
  <2>3. at' \in [Actors -> Handles \cup {None}]
    <3>1. at' = at \/ at' = [at EXCEPT ![r] = byID]
      BY <1>14 DEF Arrive
    <3> QED
      BY <3>1 DEF TypeOK
  <2> QED
    BY <2>1, <2>2, <2>3 DEF RequestsTyped, TypeOK, RebuildPcs
<1>15. ASSUME NEW r \in Reqs, ResumeGet(r) PROVE RequestsTyped'
  BY <1>15 DEF RequestsTyped, RebuildPcs, TypeOK, ResumeGet, diskVars, handleVars, tableVars,
     reqVars, procVars, histVars, Goes
<1>16. ASSUME NEW r \in Reqs, ResumeOpen(r) PROVE RequestsTyped'
  BY <1>16 DEF RequestsTyped, TableInv, RebuildPcs, TypeOK, HandlesAreMade, OneFlyer,
     ResumeOpen, diskVars, handleVars, tableVars, reqVars, procVars, histVars, Goes
<1>17. ASSUME NEW r \in Reqs, ResumeHash(r) PROVE RequestsTyped'
  BY <1>17 DEF RequestsTyped, RebuildPcs, TypeOK, ResumeHash, diskVars, handleVars, tableVars,
     reqVars, procVars, histVars, Goes
<1>18. ASSUME NEW r \in Reqs, ResumeRegister(r) PROVE RequestsTyped'
  BY <1>18 DEF RequestsTyped, RebuildPcs, TypeOK, ResumeRegister, diskVars, handleVars,
     tableVars, reqVars, procVars, histVars, Goes
<1>19. ASSUME NEW r \in Reqs, ResumeDetach(r) PROVE RequestsTyped'
  BY <1>19 DEF RequestsTyped, RebuildPcs, TypeOK, ResumeDetach, diskVars, handleVars, tableVars,
     reqVars, procVars, histVars, Goes
<1>20. ASSUME NEW r \in Reqs, ResumePublish(r) PROVE RequestsTyped'
  BY <1>20 DEF RequestsTyped, TypeOK, ResumePublish, Party, diskVars, handleVars, tableVars,
     reqVars, procVars, histVars, Goes
<1>21. ASSUME NEW r \in Reqs, ResumeFails(r) PROVE RequestsTyped'
  BY <1>21 DEF RequestsTyped, TypeOK, ResumeFails, Party, diskVars, handleVars, tableVars,
     reqVars, procVars, histVars, Goes
<1>22. ASSUME NEW r \in Reqs, Answered(r) PROVE RequestsTyped'
  BY <1>22 DEF RequestsTyped, TypeOK, Answered, diskVars, handleVars, tableVars, reqVars,
     procVars, histVars, Goes, Returns
<1>23. ASSUME NEW r \in Reqs, PatchBegin(r) PROVE RequestsTyped'
  <2>1. CASE st[at[r]] = "live" /\ ~poisoned[at[r]]
    <3>1. /\ UNCHANGED <<at, prev>> /\ verb' = [verb EXCEPT ![r] = "patch"]
          /\ pc' = [pc EXCEPT ![r] = "copy"]
      BY <1>23, <2>1 DEF PatchBegin, Goes
    <3> QED
      BY <3>1 DEF RequestsTyped, TypeOK
  <2>2. CASE ~(st[at[r]] = "live" /\ ~poisoned[at[r]])
    <3>1. Returns(r) /\ prev' = prev
      BY <1>23, <2>2 DEF PatchBegin
    <3> QED
      BY <3>1 DEF RequestsTyped, TypeOK, Returns, Goes
  <2> QED
    BY <2>1, <2>2
<1>24. ASSUME NEW r \in Reqs, PutBegin(r) PROVE RequestsTyped'
  <2>1. UNCHANGED <<at, prev>> /\ verb' = [verb EXCEPT ![r] = "put"]
    BY <1>24 DEF PutBegin
  <2>2. PICK p \in {"copy", "commit", "rmdir", "ending"} : pc' = [pc EXCEPT ![r] = p]
    BY <1>24 DEF PutBegin, AbortPc, Goes
  <2> QED
    BY <2>1, <2>2 DEF RequestsTyped, TypeOK, RebuildPcs
<1>35. ASSUME NEW r \in Reqs, PutGoesOn(r) PROVE RequestsTyped'
  <2>1. PICK p \in {"commit", "rmdir", "ending"} : pc' = [pc EXCEPT ![r] = p]
    BY <1>35 DEF PutGoesOn, AbortPc, Goes
  <2> QED
    BY <1>35, <2>1 DEF PutGoesOn, RequestsTyped, TypeOK, RebuildPcs
<1>25. ASSUME NEW r \in Reqs, CopyEnds(r) PROVE RequestsTyped'
  BY <1>25 DEF RequestsTyped, TypeOK, CopyEnds, AppendReturns, diskVars, handleVars, tableVars,
     reqVars, procVars, histVars, Goes, Returns
<1>26. ASSUME NEW r \in Reqs, CopyFails(r) PROVE RequestsTyped'
  BY <1>26 DEF RequestsTyped, TypeOK, CopyFails, AppendReturns, Overtakes, diskVars, handleVars,
     tableVars, reqVars, procVars, histVars, Goes, Returns
<1>27. ASSUME NEW r \in Reqs, CommitPublish(r) PROVE RequestsTyped'
  BY <1>27 DEF RequestsTyped, TypeOK, CommitPublish, Overtakes, diskVars, handleVars, tableVars,
     reqVars, procVars, histVars, Goes
<1>28. ASSUME NEW r \in Reqs, CommitFails(r) PROVE RequestsTyped'
  BY <1>28 DEF RequestsTyped, TypeOK, CommitFails, diskVars, handleVars, tableVars, reqVars,
     procVars, histVars, Goes
<1>29. ASSUME NEW r \in Reqs, DeleteRemoves(r) PROVE RequestsTyped'
  BY <1>29 DEF RequestsTyped, TypeOK, DeleteRemoves, diskVars, handleVars, tableVars, reqVars,
     procVars, histVars, Goes, Returns
<1>30. ASSUME NEW r \in Reqs, NEW b \in Bytes, CopyChunk(r, b) PROVE RequestsTyped'
  BY <1>30 DEF RequestsTyped, TypeOK, CopyChunk, Overtakes, diskVars, handleVars, tableVars,
     reqVars, procVars, histVars
<1>31. ASSUME NEW a \in Actors, AbortBegin(a) PROVE RequestsTyped'
  BY <1>31 DEF RequestsTyped, TypeOK, AbortBegin, AbortPc, diskVars, handleVars, tableVars,
     reqVars, procVars, histVars, Goes
<1>32. ASSUME NEW a \in Actors, FinishDir(a) PROVE RequestsTyped'
  BY <1>32 DEF RequestsTyped, TypeOK, FinishDir, diskVars, handleVars, tableVars, reqVars,
     procVars, histVars, Goes
<1>33. ASSUME NEW a \in Actors, FinishRow(a) PROVE RequestsTyped'
  BY <1>33 DEF RequestsTyped, TypeOK, FinishRow, diskVars, handleVars, tableVars, reqVars,
     procVars, histVars, Goes
<1>34. ASSUME NEW a \in Actors, VerbEnds(a) PROVE RequestsTyped'
  BY <1>34 DEF RequestsTyped, TypeOK, VerbEnds, diskVars, handleVars, tableVars, reqVars,
     procVars, histVars, Goes, Returns
<1> QED
  BY <1>1, <1>2, <1>3, <1>4, <1>5, <1>6, <1>7, <1>8, <1>9, <1>10, <1>11, <1>12, <1>13, <1>14,
     <1>15, <1>16, <1>17, <1>18, <1>19, <1>20, <1>21, <1>22, <1>23, <1>24, <1>25, <1>26, <1>27,
     <1>28, <1>29, <1>30, <1>31, <1>32, <1>33, <1>34, <1>35
  DEF Next, BeginStep, ResumeStep, VerbStep, FinishStep, Actors

LEMMA RestTypedNext == ASSUME TypeOK, TableInv, FileInv, [Next]_vars PROVE RestTyped'
<1> USE SessionConstants DEF None, Handles, Actors
<1>1. CASE UNCHANGED vars
  BY <1>1 DEF RestTyped, TypeOK, vars
<1>2. CASE BeginDir
  BY <1>2 DEF RestTyped, TypeOK, BeginDir, diskVars, handleVars, tableVars, reqVars, procVars,
     histVars
<1>3. CASE BeginRow
  BY <1>3 DEF RestTyped, TypeOK, BeginRow, diskVars, handleVars, tableVars, reqVars, procVars,
     histVars
<1>4. CASE BeginFile
  BY <1>4 DEF RestTyped, TypeOK, BeginFile, diskVars, handleVars, tableVars, reqVars, procVars,
     histVars
<1>5. CASE BeginRegister
  BY <1>5 DEF RestTyped, TypeOK, BeginRegister, diskVars, handleVars, tableVars, reqVars,
     procVars, histVars
<1>6. CASE BeginFails
  BY <1>6 DEF RestTyped, TypeOK, BeginFails, diskVars, handleVars, tableVars, reqVars, procVars,
     histVars
<1>7. CASE OtherUploadBegins
  BY <1>7 DEF RestTyped, TypeOK, OtherUploadBegins, diskVars, handleVars, tableVars, reqVars,
     procVars, histVars
<1>8. CASE EvictIdle
  BY <1>8 DEF RestTyped, TypeOK, EvictIdle, diskVars, handleVars, tableVars, reqVars, procVars,
     histVars, Goes
<1>9. CASE RowExpires
  BY <1>9 DEF RestTyped, TypeOK, RowExpires, diskVars, handleVars, tableVars, reqVars, procVars,
     histVars
<1>10. CASE Close
  BY <1>10 DEF RestTyped, TypeOK, Close, diskVars, handleVars, tableVars, reqVars, procVars,
     histVars
<1>11. CASE CloseDetach
  BY <1>11 DEF RestTyped, TypeOK, CloseDetach, diskVars, handleVars, tableVars, reqVars,
     procVars, histVars
<1>12. CASE ProcessEnds
  <2>1. restarts' \in 0 .. MaxRestarts
    BY <1>12 DEF ProcessEnds, TypeOK
  <2>2. beginPc' \in {beginPc, "failed"}
    BY <1>12 DEF ProcessEnds
  <2> QED
    BY <1>12, <2>1, <2>2 DEF ProcessEnds, RestTyped, TypeOK, diskVars, histVars
<1>13. CASE SweepStart \/ SweepStep
  <2>1. /\ UNCHANGED <<beginPc, tableVars, histVars, restarts>> /\ row' \in {"none", row}
        /\ dir' \in {FALSE, dir} /\ serving' \in {TRUE, serving} /\ sweepErr' \in BOOLEAN
        /\ sweep' \in {"off", "list", "live", "rmdir", "delrow", "readdir", "orphanLive",
                       "orphanRow", "orphanRm"}
    BY <1>13, SweepEffect
  <2>2. row' \in {"none", "live", "expired"}
    BY <2>1 DEF TypeOK
  <2>3. dir' \in BOOLEAN
    BY <2>1 DEF TypeOK
  <2>4. serving' \in BOOLEAN
    BY <2>1 DEF TypeOK
  <2>5. UNCHANGED <<beginPc, reg, closed, closing, byID, sweeper, restarts, ended>>
    BY <2>1 DEF tableVars, histVars
  <2> QED
    BY <2>1, <2>2, <2>3, <2>4, <2>5 DEF RestTyped, TypeOK
<1>14. ASSUME NEW r \in Reqs, Arrive(r) PROVE RestTyped'
  BY <1>14 DEF RestTyped, TypeOK, Arrive, diskVars, handleVars, tableVars, reqVars, procVars,
     histVars, Goes
<1>15. ASSUME NEW r \in Reqs, ResumeGet(r) PROVE RestTyped'
  BY <1>15 DEF RestTyped, TypeOK, ResumeGet, diskVars, handleVars, tableVars, reqVars, procVars,
     histVars, Goes
<1>16. ASSUME NEW r \in Reqs, ResumeOpen(r) PROVE RestTyped'
  BY <1>16 DEF RestTyped, TypeOK, ResumeOpen, diskVars, handleVars, tableVars, reqVars,
     procVars, histVars, Goes
<1>17. ASSUME NEW r \in Reqs, ResumeHash(r) PROVE RestTyped'
  BY <1>17 DEF RestTyped, TypeOK, ResumeHash, diskVars, handleVars, tableVars, reqVars,
     procVars, histVars, Goes
<1>18. ASSUME NEW r \in Reqs, ResumeRegister(r) PROVE RestTyped'
  BY <1>18 DEF RestTyped, TypeOK, ResumeRegister, diskVars, handleVars, tableVars, reqVars,
     procVars, histVars, Goes
<1>19. ASSUME NEW r \in Reqs, ResumeDetach(r) PROVE RestTyped'
  BY <1>19 DEF RestTyped, TypeOK, ResumeDetach, diskVars, handleVars, tableVars, reqVars,
     procVars, histVars, Goes
<1>20. ASSUME NEW r \in Reqs, ResumePublish(r) PROVE RestTyped'
  BY <1>20 DEF RestTyped, TypeOK, ResumePublish, Party, diskVars, handleVars, tableVars,
     reqVars, procVars, histVars, Goes
<1>21. ASSUME NEW r \in Reqs, ResumeFails(r) PROVE RestTyped'
  BY <1>21 DEF RestTyped, TypeOK, ResumeFails, Party, diskVars, handleVars, tableVars, reqVars,
     procVars, histVars, Goes
<1>22. ASSUME NEW r \in Reqs, Answered(r) PROVE RestTyped'
  BY <1>22 DEF RestTyped, TypeOK, Answered, diskVars, handleVars, tableVars, reqVars, procVars,
     histVars, Goes, Returns
<1>23. ASSUME NEW r \in Reqs, PatchBegin(r) PROVE RestTyped'
  BY <1>23 DEF RestTyped, TypeOK, PatchBegin, diskVars, handleVars, tableVars, reqVars,
     procVars, histVars, Goes, Returns
<1>24. ASSUME NEW r \in Reqs, PutBegin(r) PROVE RestTyped'
  BY <1>24 DEF RestTyped, TypeOK, PutBegin, AbortPc, diskVars, handleVars, tableVars, reqVars,
     procVars, histVars, Goes
<1>35. ASSUME NEW r \in Reqs, PutGoesOn(r) PROVE RestTyped'
  BY <1>35 DEF RestTyped, TypeOK, PutGoesOn, AbortPc, diskVars, handleVars, tableVars,
     reqVars, procVars, histVars, Goes
<1>25. ASSUME NEW r \in Reqs, CopyEnds(r) PROVE RestTyped'
  BY <1>25 DEF RestTyped, TypeOK, CopyEnds, AppendReturns, diskVars, handleVars, tableVars,
     reqVars, procVars, histVars, Goes, Returns
<1>26. ASSUME NEW r \in Reqs, CopyFails(r) PROVE RestTyped'
  BY <1>26 DEF RestTyped, TypeOK, CopyFails, AppendReturns, Overtakes, diskVars, handleVars,
     tableVars, reqVars, procVars, histVars, Goes, Returns
<1>27. ASSUME NEW r \in Reqs, CommitPublish(r) PROVE RestTyped'
  BY <1>27 DEF RestTyped, TypeOK, CommitPublish, Overtakes, diskVars, handleVars, tableVars,
     reqVars, procVars, histVars, Goes
<1>28. ASSUME NEW r \in Reqs, CommitFails(r) PROVE RestTyped'
  BY <1>28 DEF RestTyped, TypeOK, CommitFails, diskVars, handleVars, tableVars, reqVars,
     procVars, histVars, Goes
<1>29. ASSUME NEW r \in Reqs, DeleteRemoves(r) PROVE RestTyped'
  BY <1>29 DEF RestTyped, TypeOK, DeleteRemoves, diskVars, handleVars, tableVars, reqVars,
     procVars, histVars, Goes, Returns
<1>30. ASSUME NEW r \in Reqs, NEW b \in Bytes, CopyChunk(r, b) PROVE RestTyped'
  BY <1>30 DEF RestTyped, TypeOK, CopyChunk, Overtakes, diskVars, handleVars, tableVars,
     reqVars, procVars, histVars
<1>31. ASSUME NEW a \in Actors, AbortBegin(a) PROVE RestTyped'
  BY <1>31 DEF RestTyped, TypeOK, AbortBegin, AbortPc, diskVars, handleVars, tableVars, reqVars,
     procVars, histVars, Goes
<1>32. ASSUME NEW a \in Actors, FinishDir(a) PROVE RestTyped'
  <2>1. dir' \in BOOLEAN
    BY <1>32 DEF FinishDir, TypeOK
  <2>2. UNCHANGED <<row, beginPc, reg, closed, closing, byID, sweeper, procVars>> /\ ended' = TRUE
    BY <1>32 DEF FinishDir, tableVars
  <2> QED
    BY <2>1, <2>2 DEF RestTyped, TypeOK, procVars
<1>33. ASSUME NEW a \in Actors, FinishRow(a) PROVE RestTyped'
  BY <1>33 DEF RestTyped, TypeOK, FinishRow, diskVars, handleVars, tableVars, reqVars, procVars,
     histVars, Goes
<1>34. ASSUME NEW a \in Actors, VerbEnds(a) PROVE RestTyped'
  BY <1>34 DEF RestTyped, TypeOK, VerbEnds, diskVars, handleVars, tableVars, reqVars, procVars,
     histVars, Goes, Returns
<1> QED
  BY <1>1, <1>2, <1>3, <1>4, <1>5, <1>6, <1>7, <1>8, <1>9, <1>10, <1>11, <1>12, <1>13, <1>14,
     <1>15, <1>16, <1>17, <1>18, <1>19, <1>20, <1>21, <1>22, <1>23, <1>24, <1>25, <1>26, <1>27,
     <1>28, <1>29, <1>30, <1>31, <1>32, <1>33, <1>34, <1>35
  DEF Next, BeginStep, ResumeStep, VerbStep, FinishStep, Actors

-----------------------------------------------------------------------------
(* Confirmed bytes. *)

\* A handle that is appended to or committed has the whole file in its digests.
LEMMA WriterIsWhole ==
  ASSUME TypeOK, TableInv, FileInv, NothingIsLost, ~ended, 1 \notin overtaken,
         NEW r \in Reqs, pc[r] \in {"copy", "commit"}
  PROVE  fd[at[r]] = 1 /\ 1 \in Handles /\ sum[at[r]] = file[1]
<1> USE SessionConstants DEF None, Handles
<1>1. /\ at[r] \in Handles /\ fd[at[r]] \in Handles /\ st[at[r]] = "live" /\ ~poisoned[at[r]]
      /\ \A q \in Reqs : ~(pc[q] = "hash" /\ at[q] = at[r])
  BY WriterFacts DEF FileInv
<1>2. fd[at[r]] = 1
  BY <1>1 DEF NothingIsLost
<1> QED
  BY <1>1, <1>2 DEF FileInv, DigestsFollowFile

LEMMA WriteKeepsAcked ==
  ASSUME TypeOK, TableInv, FileInv, NothingIsLost, ~ended, 1 \notin overtaken,
         NEW r \in Reqs, NEW b \in Bytes, pc[r] = "copy", Len(sum[at[r]]) < MaxLen,
         file' = [file EXCEPT ![fd[at[r]]] = WriteAt(@, Len(sum[at[r]]), b)]
  PROVE  Len(acked) <= Len(file'[1]) /\ \A i \in 1 .. Len(acked) : acked[i] = file'[1][i]
<1>1. /\ fd[at[r]] = 1 /\ 1 \in Handles /\ sum[at[r]] = file[1] /\ file[1] \in Contents
      /\ Len(file[1]) \in Nat /\ Len(acked) \in Nat
  BY WriterIsWhole, Lengths, ContentsAre DEF TypeOK
<1>2. file'[1] = WriteAt(file[1], Len(file[1]), b)
  BY <1>1 DEF TypeOK
<1>3. /\ Len(file'[1]) = Len(file[1]) + 1
      /\ \A i \in 1 .. Len(file[1]) : file'[1][i] = file[1][i]
  BY <1>1, <1>2, WriteAtIs
<1>4. Len(acked) <= Len(file[1]) /\ \A i \in 1 .. Len(acked) : acked[i] = file[1][i]
  BY DEF NothingIsLost
<1> QED
  BY <1>1, <1>3, <1>4

LEMMA LostNext == ASSUME TypeOK, TableInv, FileInv, NothingIsLost, [Next]_vars PROVE NothingIsLost'
<1> USE SessionConstants DEF None, Handles, Actors
<1>1. CASE UNCHANGED vars
  BY <1>1 DEF NothingIsLost, vars
<1>2. CASE BeginDir
  BY <1>2 DEF NothingIsLost, BeginDir, diskVars, handleVars, tableVars, reqVars, procVars,
     histVars
<1>3. CASE BeginRow
  BY <1>3 DEF NothingIsLost, BeginRow, diskVars, handleVars, tableVars, reqVars, procVars,
     histVars
<1>4. CASE BeginFile
  BY <1>4 DEF NothingIsLost, BeginFile, diskVars, handleVars, tableVars, reqVars, procVars,
     histVars
<1>5. CASE BeginRegister
  BY <1>5 DEF NothingIsLost, BeginRegister, diskVars, handleVars, tableVars, reqVars, procVars,
     histVars
<1>6. CASE BeginFails
  BY <1>6 DEF NothingIsLost, BeginFails, diskVars, handleVars, tableVars, reqVars, procVars,
     histVars
<1>7. CASE OtherUploadBegins
  BY <1>7 DEF NothingIsLost, OtherUploadBegins, diskVars, handleVars, tableVars, reqVars,
     procVars, histVars
<1>8. CASE EvictIdle
  BY <1>8 DEF NothingIsLost, EvictIdle, diskVars, handleVars, tableVars, reqVars, procVars,
     histVars, Goes
<1>9. CASE RowExpires
  BY <1>9 DEF NothingIsLost, RowExpires, diskVars, handleVars, tableVars, reqVars, procVars,
     histVars
<1>10. CASE Close
  BY <1>10 DEF NothingIsLost, Close, diskVars, handleVars, tableVars, reqVars, procVars, histVars
<1>11. CASE CloseDetach
  BY <1>11 DEF NothingIsLost, CloseDetach, diskVars, handleVars, tableVars, reqVars, procVars,
     histVars
<1>12. CASE ProcessEnds
  BY <1>12 DEF NothingIsLost, TypeOK, ProcessEnds, diskVars, handleVars, tableVars, reqVars,
     procVars, histVars
<1>13. CASE SweepStart \/ SweepStep
  <2>1. /\ UNCHANGED <<file, beginPc, handleVars, histVars>>
        /\ (dir' = dir /\ path' = path) \/ (dir' = FALSE /\ path' = None)
        /\ row' \in {"none", row} /\ serving' \in {TRUE, serving}
    BY <1>13, SweepEffect
  <2>2. ~OnlineSweep => (SweepStep /\ (path' # path => row # "live"))
    BY <1>13 DEF SweepStart, SweepStep, SweepList, SweepLive, SweepDir, SweepRow, SweepReadDir,
       SweepOrphanLive, SweepOrphanRow, SweepOrphanDir, SweepFails, diskVars, NothingIsLost
  <2>3. (/\ ~serving => beginPc \in {"off", "granted", "failed"}
         /\ ~OnlineSweep =>
                /\ sweep # "off" => ~serving
                /\ sweep \in {"live", "rmdir", "delrow"} => row # "live"
                /\ sweep = "orphanRm" => row = "none")'
    <3>0. /\ beginPc' = beginPc
          /\ ~serving => beginPc \in {"off", "granted", "failed"}
          /\ serving' \in {TRUE, serving} /\ serving \in BOOLEAN
          /\ row' \in {"none", row}
      BY <2>1 DEF NothingIsLost, TypeOK
    <3>1. CASE OnlineSweep
      BY <3>0, <3>1
    <3>2. CASE ~OnlineSweep
      <4>0. /\ sweep # "off" => ~serving
            /\ sweep \in {"live", "rmdir", "delrow"} => row # "live"
            /\ sweep = "orphanRm" => row = "none"
        BY <3>2 DEF NothingIsLost
      <4>1. CASE SweepList
        BY <3>0, <3>2, <4>0, <4>1 DEF SweepList, SweepGoes, diskVars
      <4>2. CASE SweepLive
        BY <3>0, <3>2, <4>0, <4>2 DEF SweepLive, SweepGoes, diskVars
      <4>3. CASE SweepDir
        BY <3>0, <3>2, <4>0, <4>3 DEF SweepDir, SweepGoes, diskVars
      <4>4. CASE SweepRow
        BY <3>0, <3>2, <4>0, <4>4 DEF SweepRow, SweepGoes, diskVars
      <4>5. CASE SweepReadDir
        BY <3>0, <3>2, <4>0, <4>5 DEF SweepReadDir, SweepGoes, SweepEnds, diskVars
      <4>6. CASE SweepOrphanLive
        BY <3>0, <3>2, <4>0, <4>6 DEF SweepOrphanLive, SweepGoes, SweepEnds, diskVars
      <4>7. CASE SweepOrphanRow
        BY <3>0, <3>2, <4>0, <4>7 DEF SweepOrphanRow, SweepGoes, SweepEnds, diskVars
      <4>8. CASE SweepOrphanDir
        BY <3>0, <3>2, <4>0, <4>8 DEF SweepOrphanDir, SweepEnds, diskVars
      <4>9. CASE SweepFails
        BY <3>0, <3>2, <4>0, <4>9 DEF SweepFails, diskVars
      <4> QED
        BY <2>2, <3>2, <4>1, <4>2, <4>3, <4>4, <4>5, <4>6, <4>7, <4>8, <4>9 DEF SweepStep
    <3> QED
      BY <3>1, <3>2
  <2>4. (~ended =>
           /\ path \in {None, 1}
           /\ \A h \in Handles : fd[h] \in {None, 1}
           /\ (path = None /\ beginPc \in {"file", "granted"}) => ~dir
           /\ (path = None /\ beginPc \in {"file", "granted"} /\ row = "live") => OnlineSweep
           /\ 1 \notin overtaken =>
                  /\ Len(acked) <= Len(file[1])
                  /\ \A i \in 1 .. Len(acked) : acked[i] = file[1][i])'
    BY <2>1, <2>2 DEF NothingIsLost, handleVars, histVars
  <2> QED
    BY <2>3, <2>4 DEF NothingIsLost
<1>14. ASSUME NEW r \in Reqs, Arrive(r) PROVE NothingIsLost'
  BY <1>14 DEF NothingIsLost, Arrive, diskVars, handleVars, tableVars, reqVars, procVars,
     histVars, Goes
<1>15. ASSUME NEW r \in Reqs, ResumeGet(r) PROVE NothingIsLost'
  BY <1>15 DEF NothingIsLost, ResumeGet, diskVars, handleVars, tableVars, reqVars, procVars,
     histVars, Goes
<1>16. ASSUME NEW r \in Reqs, ResumeOpen(r) PROVE NothingIsLost'
  BY <1>16 DEF NothingIsLost, TableInv, TypeOK, HandlesAreMade, BeforeGrant, ResumeOpen,
     diskVars, handleVars, tableVars, reqVars, procVars, histVars, Goes
<1>17. ASSUME NEW r \in Reqs, ResumeHash(r) PROVE NothingIsLost'
  BY <1>17 DEF NothingIsLost, ResumeHash, diskVars, handleVars, tableVars, reqVars, procVars,
     histVars, Goes
<1>18. ASSUME NEW r \in Reqs, ResumeRegister(r) PROVE NothingIsLost'
  BY <1>18 DEF NothingIsLost, ResumeRegister, diskVars, handleVars, tableVars, reqVars,
     procVars, histVars, Goes
<1>19. ASSUME NEW r \in Reqs, ResumeDetach(r) PROVE NothingIsLost'
  BY <1>19 DEF NothingIsLost, ResumeDetach, diskVars, handleVars, tableVars, reqVars, procVars,
     histVars, Goes
<1>20. ASSUME NEW r \in Reqs, ResumePublish(r) PROVE NothingIsLost'
  BY <1>20 DEF NothingIsLost, ResumePublish, Party, diskVars, handleVars, tableVars, reqVars,
     procVars, histVars, Goes
<1>21. ASSUME NEW r \in Reqs, ResumeFails(r) PROVE NothingIsLost'
  BY <1>21 DEF NothingIsLost, ResumeFails, Party, diskVars, handleVars, tableVars, reqVars,
     procVars, histVars, Goes
<1>22. ASSUME NEW r \in Reqs, Answered(r) PROVE NothingIsLost'
  BY <1>22 DEF NothingIsLost, Answered, diskVars, handleVars, tableVars, reqVars, procVars,
     histVars, Goes, Returns
<1>23. ASSUME NEW r \in Reqs, PatchBegin(r) PROVE NothingIsLost'
  BY <1>23 DEF NothingIsLost, PatchBegin, diskVars, handleVars, tableVars, reqVars, procVars,
     histVars, Goes, Returns
<1>24. ASSUME NEW r \in Reqs, PutBegin(r) PROVE NothingIsLost'
  BY <1>24 DEF NothingIsLost, PutBegin, AbortPc, diskVars, handleVars, tableVars, reqVars,
     procVars, histVars, Goes
<1>35. ASSUME NEW r \in Reqs, PutGoesOn(r) PROVE NothingIsLost'
  BY <1>35 DEF NothingIsLost, PutGoesOn, AbortPc, diskVars, handleVars, tableVars,
     reqVars, procVars, histVars, Goes
<1>25. ASSUME NEW r \in Reqs, CopyEnds(r) PROVE NothingIsLost'
  <2>1. /\ pc[r] = "copy" /\ acked' \in {acked, sum[at[r]]}
        /\ UNCHANGED <<row, dir, path, file, beginPc, fd, serving, sweep, ended, overtaken>>
    BY <1>25 DEF CopyEnds, AppendReturns, diskVars, procVars
  <2>2. CASE acked' = acked
    BY <2>1, <2>2 DEF NothingIsLost
  <2>3. CASE acked' = sum[at[r]]
    <3>1. ASSUME ~ended, 1 \notin overtaken PROVE acked' = file[1]
      BY <2>1, <2>3, <3>1, WriterIsWhole DEF NothingIsLost
    <3>2. Len(file[1]) <= Len(file[1])
      BY Lengths
    <3> QED
      BY <2>1, <3>1, <3>2 DEF NothingIsLost
  <2> QED
    BY <2>1, <2>2, <2>3
<1>26. ASSUME NEW r \in Reqs, CopyFails(r) PROVE NothingIsLost'
  <2>1. UNCHANGED <<row, dir, path, beginPc, fd, serving, sweep, ended, acked>>
    BY <1>26 DEF CopyFails, AppendReturns, procVars
  <2>2. CASE UNCHANGED <<file, overtaken>>
    BY <2>1, <2>2 DEF NothingIsLost
  <2>3. CASE ~ UNCHANGED <<file, overtaken>>
    <3>1. PICK c \in Bytes :
              file' = [file EXCEPT ![fd[at[r]]] = WriteAt(@, Len(sum[at[r]]), c)]
      BY <1>26, <2>3 DEF CopyFails
    <3>2. pc[r] = "copy" /\ Len(sum[at[r]]) < MaxLen /\ overtaken \subseteq overtaken'
      BY <1>26, <2>3 DEF CopyFails, Overtakes
    <3> QED
      BY <2>1, <3>1, <3>2, WriteKeepsAcked DEF NothingIsLost
  <2> QED
    BY <2>2, <2>3
<1>27. ASSUME NEW r \in Reqs, CommitPublish(r) PROVE NothingIsLost'
  BY <1>27 DEF NothingIsLost, CommitPublish, Overtakes, diskVars, handleVars, tableVars,
     reqVars, procVars, histVars, Goes
<1>28. ASSUME NEW r \in Reqs, CommitFails(r) PROVE NothingIsLost'
  BY <1>28 DEF NothingIsLost, CommitFails, diskVars, handleVars, tableVars, reqVars, procVars,
     histVars, Goes
<1>29. ASSUME NEW r \in Reqs, DeleteRemoves(r) PROVE NothingIsLost'
  BY <1>29 DEF NothingIsLost, DeleteRemoves, diskVars, handleVars, tableVars, reqVars, procVars,
     histVars, Goes, Returns
<1>30. ASSUME NEW r \in Reqs, NEW b \in Bytes, CopyChunk(r, b) PROVE NothingIsLost'
  <2>1. UNCHANGED <<row, dir, path, beginPc, fd, serving, sweep, ended, acked>>
    BY <1>30 DEF CopyChunk, procVars
  <2>2. /\ pc[r] = "copy" /\ Len(sum[at[r]]) < MaxLen /\ overtaken \subseteq overtaken'
        /\ file' = [file EXCEPT ![fd[at[r]]] = WriteAt(@, Len(sum[at[r]]), b)]
    BY <1>30 DEF CopyChunk, Overtakes
  <2> QED
    BY <2>1, <2>2, WriteKeepsAcked DEF NothingIsLost
<1>31. ASSUME NEW a \in Actors, AbortBegin(a) PROVE NothingIsLost'
  BY <1>31 DEF NothingIsLost, AbortBegin, AbortPc, diskVars, handleVars, tableVars, reqVars,
     procVars, histVars, Goes
<1>32. ASSUME NEW a \in Actors, FinishDir(a) PROVE NothingIsLost'
  BY <1>32 DEF NothingIsLost, FinishDir, diskVars, handleVars, tableVars, reqVars, procVars,
     histVars, Goes
<1>33. ASSUME NEW a \in Actors, FinishRow(a) PROVE NothingIsLost'
  BY <1>33 DEF NothingIsLost, FinishRow, diskVars, handleVars, tableVars, reqVars, procVars,
     histVars, Goes
<1>34. ASSUME NEW a \in Actors, VerbEnds(a) PROVE NothingIsLost'
  BY <1>34 DEF NothingIsLost, VerbEnds, diskVars, handleVars, tableVars, reqVars, procVars,
     histVars, Goes, Returns
<1> QED
  BY <1>1, <1>2, <1>3, <1>4, <1>5, <1>6, <1>7, <1>8, <1>9, <1>10, <1>11, <1>12, <1>13, <1>14,
     <1>15, <1>16, <1>17, <1>18, <1>19, <1>20, <1>21, <1>22, <1>23, <1>24, <1>25, <1>26, <1>27,
     <1>28, <1>29, <1>30, <1>31, <1>32, <1>33, <1>34, <1>35
  DEF Next, BeginStep, ResumeStep, VerbStep, FinishStep, Actors

-----------------------------------------------------------------------------
(* The whole invariant, and what it gives. *)

LEMMA TypesNext == ASSUME TypeOK, TableInv, FileInv, [Next]_vars PROVE TypeOK'
<1>1. FilesTyped' /\ HandlesTyped' /\ RequestsTyped' /\ RestTyped'
  BY FilesTypedNext, HandlesTypedNext, RequestsTypedNext, RestTypedNext
<1>2. OneFlyer'
  BY Steps, FlyerNext DEF FileInv
<1>3. (flyer \in {None} \cup {r \in Reqs : pc[r] \in RebuildPcs})'
  BY <1>2 DEF OneFlyer
<1> QED
  BY <1>1, <1>3 DEF TypeOK, FilesTyped, HandlesTyped, RequestsTyped, RestTyped

LEMMA AllNext == ASSUME AllInv, [Next]_vars PROVE AllInv'
<1>1. TypeOK /\ TableInv /\ FileInv /\ NothingIsLost
  BY DEF AllInv, FileInv
<1>2. TableStep /\ FileStep
  BY <1>1, Steps DEF FileInv
<1>3. TableInv' /\ TypeOK'
  BY <1>1, <1>2, TableNext, TypesNext
<1>4. /\ FilesAreMade' /\ HandlesHaveFiles' /\ FileIsTheUploads' /\ DigestsFollowFile'
      /\ BlobMatchesDigest'
  BY <1>1, <1>2, FilesMadeNext, HaveFilesNext, UploadsNext, DigestsNext, BlobsNext DEF FileInv
<1>5. NothingIsLost'
  BY <1>1, LostNext
<1> QED
  BY <1>3, <1>4, <1>5 DEF AllInv, FileInv

LEMMA AllInit == Init => AllInv
<1> SUFFICES ASSUME Init PROVE AllInv
  OBVIOUS
<1> USE SessionConstants DEF None, Handles, Actors
<1>1. FilesTyped
  BY EmptyIs DEF Init, FilesTyped
<1>2. HandlesTyped
  BY DEF Init, HandlesTyped
<1>3. RequestsTyped
  BY DEF Init, RequestsTyped
<1>4. RestTyped
  <2>1. restarts \in 0 .. MaxRestarts
    BY DEF Init
  <2> QED
    BY <2>1 DEF Init, RestTyped
<1>5. flyer = None
  BY DEF Init
<1>6. TypeOK
  BY <1>1, <1>2, <1>3, <1>4, <1>5 DEF TypeOK, FilesTyped, HandlesTyped, RequestsTyped, RestTyped
<1>7. TableInv
  <2>1. HandlesAreMade /\ BeforeGrant
    BY DEF Init, HandlesAreMade, BeforeGrant
  <2>2. OneFlyer
    BY DEF Init, OneFlyer, RebuildPcs
  <2>3. FlightIsPrivate
    BY DEF Init, FlightIsPrivate, Reading
  <2>4. LocksAreHeld /\ WorkersAreLive
    BY DEF Init, LocksAreHeld, WorkersAreLive, Locked, Working
  <2>5. LiveIsTabled /\ OpenedIsHeld /\ TablesAreLive
    BY DEF Init, LiveIsTabled, OpenedIsHeld, TablesAreLive
  <2> QED
    BY <2>1, <2>2, <2>3, <2>4, <2>5 DEF TableInv
<1>8. FilesAreMade /\ HandlesHaveFiles /\ BlobMatchesDigest
  BY DEF Init, FilesAreMade, HandlesHaveFiles, BlobMatchesDigest
<1>9. FileIsTheUploads /\ DigestsFollowFile
  BY DEF Init, FileIsTheUploads, DigestsFollowFile, Writes
<1>10. NothingIsLost
  <2>1. Len(acked) = 0 /\ file[1] = <<>>
    BY EmptyIs DEF Init
  <2> QED
    BY <2>1 DEF Init, NothingIsLost
<1> QED
  BY <1>6, <1>7, <1>8, <1>9, <1>10 DEF AllInv, FileInv

LEMMA Always == Spec => []AllInv
  BY AllInit, AllNext, PTL DEF Spec

\* Every variable keeps its type, and the rebuild that the docker registry lists in `resuming`
\* belongs to a request that is inside resolve, whatever fails, is evicted, swept or restarted.
THEOREM TypeCorrect == Spec => []TypeOK
<1>1. AllInv => TypeOK
  BY DEF AllInv, FileInv
<1> QED
  BY <1>1, Always, PTL

\* Two handles that are inside an operation are the same: each is in the engine's table, or is
\* the one that Close or the rebuild is about to detach.
LEMMA OneBusy ==
  ASSUME TableInv, NEW g \in Handles, NEW h \in Handles, busy[g], busy[h]
  PROVE  g = h
<1> USE SessionConstants DEF None, Handles, Actors
<1>1. upLock[g] # None /\ upLock[h] # None
  BY DEF TableInv, LocksAreHeld
<1>2. /\ reg = g \/ closing = g \/ \E q \in Reqs : pc[q] = "detach" /\ prev[q] = g
      /\ reg = h \/ closing = h \/ \E q \in Reqs : pc[q] = "detach" /\ prev[q] = h
  BY DEF TableInv, LiveIsTabled
<1>3. ~(closing # None /\ reg # None)
  BY DEF TableInv, TablesAreLive
<1>4. \A q \in Reqs : pc[q] = "detach" =>
        /\ reg \in {None, at[q]} /\ closing \in {None, at[q]} /\ upLock[at[q]] = None
        /\ \A o \in Reqs : pc[o] = "detach" => o = q
  BY DEF TableInv, FlightIsPrivate, OneFlyer, RebuildPcs, Reading
<1>5. CASE \E q \in Reqs : pc[q] = "detach"
  BY <1>1, <1>2, <1>4, <1>5
<1>6. CASE ~ \E q \in Reqs : pc[q] = "detach"
  BY <1>2, <1>3, <1>6
<1> QED
  BY <1>5, <1>6

\* At most one handle of an upload appends, commits or finishes at a time, also when a rebuild
\* (ResumeSession under resolve) replaces a handle in the middle of an append.
THEOREM OneWriterOnly == Spec => []OneWriter
<1>1. ASSUME TableInv PROVE OneWriter
  <2> DEFINE B == {h \in Handles : busy[h]}
  <2>1. CASE B = {}
    BY <2>1, FS_EmptySet DEF OneWriter
  <2>2. CASE B # {}
    <3>1. PICK g \in B : TRUE
      BY <2>2
    <3>2. B = {g}
      BY <1>1, <3>1, OneBusy
    <3>3. Cardinality(B) = 1
      BY <3>2, FS_Singleton
    <3> QED
      BY <3>3 DEF OneWriter
  <2> QED
    BY <2>1, <2>2
<1>2. AllInv => OneWriter
  BY <1>1 DEF AllInv
<1> QED
  BY <1>2, Always, PTL

\* A blob's content has the digest it is stored under, unless a rebuild had the file open while
\* the handle it replaces wrote or published it (Append, Commit, ResumeSession).
THEOREM BlobsMatch == Spec => []BlobMatchesDigest
<1>1. AllInv => BlobMatchesDigest
  BY DEF AllInv, FileInv
<1> QED
  BY <1>1, Always, PTL

\* The offset a client is told is the length of the data file, and the digests cover exactly its
\* bytes, for every handle the docker registry serves that is live and not poisoned.
THEOREM OffsetsMatch == Spec => []OffsetIsFileLength
<1>1. ASSUME AllInv PROVE OffsetIsFileLength
  <2>1. SUFFICES ASSUME NEW h \in Handles, st[h] = "live", ~poisoned[h], fd[h] \notin overtaken
                 PROVE  sum[h] = file[fd[h]]
    BY DEF OffsetIsFileLength
  <2>2. \A r \in Reqs : ~(pc[r] = "hash" /\ at[r] = h)
    BY <1>1, <2>1 DEF AllInv, TableInv, FlightIsPrivate, Reading
  <2> QED
    BY <1>1, <2>1, <2>2 DEF AllInv, FileInv, DigestsFollowFile
<1> QED
  BY <1>1, Always, PTL

\* Bytes a 202 confirmed stay at the front of the data file while the row is live and nobody
\* finished the upload, across failed appends, Close, crashes and rebuilds.
THEOREM AckedBytesStay == Spec => []AckedBytesSurvive
<1>1. ASSUME AllInv PROVE AckedBytesSurvive
  <2>1. SUFFICES ASSUME row = "live", ~ended, beginPc = "granted",
                        ~(path = None /\ OnlineSweep), path \notin overtaken
                 PROVE  /\ path # None
                        /\ Len(acked) <= Len(file[path])
                        /\ SubSeq(file[path], 1, Len(acked)) = acked
    BY DEF AckedBytesSurvive
  <2>2. path = 1
    BY <1>1, <2>1 DEF AllInv, NothingIsLost
  <2>3. Len(acked) <= Len(file[1]) /\ \A i \in 1 .. Len(acked) : acked[i] = file[1][i]
    BY <1>1, <2>1, <2>2 DEF AllInv, NothingIsLost
  <2>4. acked \in Seq(Bytes) /\ file[1] \in Seq(Bytes)
    <3>1. acked \in Contents /\ file[1] \in Contents
      BY <1>1, SessionConstants DEF AllInv, FileInv, TypeOK, Handles
    <3> QED
      BY <3>1, ContentsAre
  <2>5. SubSeq(file[1], 1, Len(acked)) = acked
    BY <2>3, <2>4
  <2> QED
    BY <2>2, <2>3, <2>5 DEF None
<1> QED
  BY <1>1, Always, PTL
=============================================================================
