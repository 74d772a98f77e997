------------------------------- MODULE BlobGC -------------------------------
(***************************************************************************)
(* Publishing content-addressed blobs while a garbage collector sweeps     *)
(* them: internal/storage (Session.Commit, the singleflight, the in-flight *)
(* hold set, GCSweep), the landing tails of internal/repo/service.go that  *)
(* turn a committed blob into a referenced one, and the two faces that run *)
(* a sweep (httpapi RunGC, repo cleanup RunOnce).                          *)
(*                                                                         *)
(* Time is abstracted to two events.  HoldExpires(s): the TTL of the hold  *)
(* entry of s has run out.  BlobAges(s): the blob file of s has become     *)
(* older than the grace window.  Neither TTL nor grace has a value here,   *)
(* so what is shown holds for every configured pair.                       *)
(***************************************************************************)
EXTENDS Naturals, FiniteSets

CONSTANTS
    Uploads,    \* requests that land content; each one runs at most once
    Sha,        \* blob identities (sha256)
    Paths,      \* node rows
    Shards,     \* two-hex-digit directories under blobs/
    ShardOf,    \* the shard a blob lives in
    Content,    \* what an upload carries
    Target,     \* the node an upload lands on
    NoSha,      \* "no node row at this path" / "no blob under the gates"
    NoUpload,   \* "no flight for this checksum"
    MaxCrashes  \* bound on process crashes

ASSUME UploadsFinite == IsFiniteSet(Uploads)
ASSUME ConstantTypes ==
    /\ ShardOf \in [Sha -> Shards]
    /\ Content \in [Uploads -> Sha]
    /\ Target \in [Uploads -> Paths]
    /\ MaxCrashes \in Nat
ASSUME NoShaFresh == NoSha \notin Sha
ASSUME NoUploadFresh == NoUpload \notin Uploads

VARIABLES
    pc,       \* where each upload is
    via,      \* how its blob came to be present: renamed here, found, or declared
    flight,   \* singleflight.m: the leader publishing a checksum
    count,    \* holdEntry.count; 0 = no entry
    expired,  \* the entry's newest acquire is at least one TTL old
    late,     \* history: the upload was still holding when its entry expired
    lost,     \* history: the upload's count is gone, or may be: see purge and giveBack
    disk,     \* blobs/<shard>/<sha256> files
    old,      \* those older than the grace window
    ledger,   \* rows of the blobs table
    nodes,    \* node row -> its sha256
    fresh,    \* history: the reference was made by an upload whose flight renamed
    sweep,    \* where the sweep is; "off" = the data lock is free
    mode,     \* dry pass, REST/CLI/cron apply, cleanup apply
    refs,     \* the Mark snapshot
    todo,     \* shards still to be listed
    pending,  \* entries of the listed shard still to be examined
    cur,      \* the candidate under the delete gates
    cands,    \* gcResult.Candidates
    deleted,  \* gcResult.Deleted
    failed,   \* firstErr # nil
    torn,     \* ledger rows still to be dropped after the sweep
    crashes

upVars == <<pc, via, flight>>
holdVars == <<count, expired, late, lost>>
blobVars == <<disk, old>>
rowVars == <<ledger, nodes, fresh>>
sweepVars == <<sweep, mode, refs, todo, pending, cur, cands, deleted, failed, torn>>
vars == <<pc, via, flight, count, expired, late, lost, disk, old, ledger, nodes, fresh,
          sweep, mode, refs, todo, pending, cur, cands, deleted, failed, torn, crashes>>

PCs == {"idle", "held", "wait", "stat", "rename", "dirsync", "failing",
        "opened", "committed", "ledgered", "landed", "done"}
Vias == {"none", "fresh", "dedup", "checksum"}
SweepPCs == {"off", "scan", "holdGate", "liveGate", "unlink", "teardown"}
Gates == {"holdGate", "liveGate", "unlink"}
Modes == {"dry", "rest", "cleanup"}

\* The references GC's marker reads: Mark collects them all, Live asks for one.
Referenced == {s \in Sha : \E p \in Paths : nodes[p] = s}

\* Uploads between their acquire and their release.
InCommit == {"held", "wait", "stat", "rename", "dirsync", "failing"}
Holders(s) == {u \in Uploads : /\ Content[u] = s
                               /\ \/ pc[u] \in InCommit
                                  \/ /\ pc[u] \in {"committed", "ledgered", "landed"}
                                     /\ via[u] # "checksum"}

Init ==
    /\ pc = [u \in Uploads |-> "idle"]
    /\ via = [u \in Uploads |-> "none"]
    /\ flight = [s \in Sha |-> NoUpload]
    /\ count = [s \in Sha |-> 0]
    /\ expired = [s \in Sha |-> FALSE]
    /\ late = [u \in Uploads |-> FALSE]
    /\ lost = [u \in Uploads |-> FALSE]
    /\ disk = {}
    /\ old = {}
    /\ ledger = {}
    /\ nodes = [p \in Paths |-> NoSha]
    /\ fresh = [p \in Paths |-> FALSE]
    /\ sweep = "off"
    /\ mode = "dry"
    /\ refs = {}
    /\ todo = {}
    /\ pending = {}
    /\ cur = NoSha
    /\ cands = {}
    /\ deleted = {}
    /\ failed = FALSE
    /\ torn = {}
    /\ crashes = 0

-----------------------------------------------------------------------------
(* The hold set. *)

\* Slip: presence instead of a refcount.
acquirePresence(s) ==
    /\ count' = [count EXCEPT ![s] = 1]
    /\ expired' = [expired EXCEPT ![s] = FALSE]

acquire(s) ==
    /\ count' = [count EXCEPT ![s] = @ + 1]
    /\ expired' = [expired EXCEPT ![s] = FALSE]

\* Not owner-tagged: whoever releases takes one off, and an absent entry is left alone.
release(s) ==
    /\ count' = [count EXCEPT ![s] = IF @ > 0 THEN @ - 1 ELSE 0]
    /\ expired' = [expired EXCEPT ![s] = IF count[s] > 1 THEN @ ELSE FALSE]

\* The release of u's own hold.  When its count went with a purged entry, the one it takes
\* off belongs to another holder, and none of them can be sure of its own any more.
giveBack(u) ==
    LET s == Content[u] IN
    /\ release(s)
    /\ lost' = [w \in Uploads |-> w # u /\ (lost[w] \/ (lost[u] /\ w \in Holders(s)))]

held(s) == count[s] > 0 /\ ~expired[s]

\* What a call of held leaves behind: an expired entry is deleted on sight, with the counts
\* of whoever still relies on it.
purge(s) ==
    /\ count' = [count EXCEPT ![s] = IF expired[s] THEN 0 ELSE @]
    /\ expired' = [expired EXCEPT ![s] = FALSE]
    /\ lost' = [u \in Uploads |-> lost[u] \/ (expired[s] /\ u \in Holders(s))]

\* The TTL of the entry of s runs out.
HoldExpires(s) ==
    /\ count[s] > 0
    /\ ~expired[s]
    /\ expired' = [expired EXCEPT ![s] = TRUE]
    /\ late' = [u \in Uploads |-> late[u] \/ u \in Holders(s)]
    /\ UNCHANGED <<upVars, count, lost, blobVars, rowVars, sweepVars, crashes>>

-----------------------------------------------------------------------------
(* Session.Commit. *)

\* The request of u returns to its client.
Returns(u) ==
    /\ pc' = [pc EXCEPT ![u] = "done"]
    /\ via' = [via EXCEPT ![u] = "none"]
    /\ late' = [late EXCEPT ![u] = FALSE]

\* Digests verified; the hold is registered before anything can be published.
CommitAcquire(u) ==
    /\ pc[u] = "idle"
    /\ acquire(Content[u])
    /\ pc' = [pc EXCEPT ![u] = "held"]
    /\ UNCHANGED <<via, flight, late, lost, blobVars, rowVars, sweepVars, crashes>>

\* fsync of the temp file, or the blob path, fails.
FsyncFails(u) ==
    /\ pc[u] = "held"
    /\ pc' = [pc EXCEPT ![u] = "failing"]
    /\ UNCHANGED <<via, flight, holdVars, blobVars, rowVars, sweepVars, crashes>>

\* Slip: every caller runs the publish itself.
JoinFlightAlone(u) ==
    /\ pc[u] = "held"
    /\ flight' = [flight EXCEPT ![Content[u]] = u]
    /\ pc' = [pc EXCEPT ![u] = "stat"]
    /\ UNCHANGED <<via, holdVars, blobVars, rowVars, sweepVars, crashes>>

\* singleflight.do: the first caller leads, the others wait for its result.
JoinFlight(u) ==
    LET s == Content[u] IN
    /\ pc[u] = "held"
    /\ \/ /\ flight[s] = NoUpload
          /\ flight' = [flight EXCEPT ![s] = u]
          /\ pc' = [pc EXCEPT ![u] = "stat"]
       \/ /\ flight[s] # NoUpload
          /\ pc' = [pc EXCEPT ![u] = "wait"]
          /\ UNCHANGED flight
    /\ UNCHANGED <<via, holdVars, blobVars, rowVars, sweepVars, crashes>>

\* Slip: the teardown forgets wg.Done.
FlightEndsAlone(u, result, how) ==
    /\ flight' = [flight EXCEPT ![Content[u]] = NoUpload]
    /\ pc' = [pc EXCEPT ![u] = result]
    /\ via' = [via EXCEPT ![u] = how]

\* The leader u returns: the flight is torn down and its waiters share the result.
FlightEnds(u, result, how) ==
    LET s == Content[u]
        party == {u} \cup {w \in Uploads : pc[w] = "wait" /\ Content[w] = s}
    IN /\ flight' = [flight EXCEPT ![s] = NoUpload]
       /\ pc' = [w \in Uploads |-> IF w \in party THEN result ELSE pc[w]]
       /\ via' = [w \in Uploads |-> IF w \in party THEN how ELSE via[w]]

\* stat of the target: present is an idempotent hit.
FlightStat(u) ==
    /\ pc[u] = "stat"
    /\ \/ /\ Content[u] \in disk
          /\ FlightEnds(u, "committed", "dedup")
       \/ /\ Content[u] \notin disk
          /\ pc' = [pc EXCEPT ![u] = "rename"]
          /\ UNCHANGED <<via, flight>>
    /\ UNCHANGED <<holdVars, blobVars, rowVars, sweepVars, crashes>>

\* The rename publishes the temp file, mtime of its last append included.
FlightRename(u) ==
    /\ pc[u] = "rename"
    /\ disk' = disk \cup {Content[u]}
    /\ \/ old' = old \cup {Content[u]}
       \/ old' = old \ {Content[u]}
    /\ pc' = [pc EXCEPT ![u] = "dirsync"]
    /\ UNCHANGED <<via, flight, holdVars, rowVars, sweepVars, crashes>>

FlightSyncDir(u) ==
    /\ pc[u] = "dirsync"
    /\ FlightEnds(u, "committed", "fresh")
    /\ UNCHANGED <<holdVars, blobVars, rowVars, sweepVars, crashes>>

\* stat, mkdir, rename or the directory fsync fails; after the rename the blob stays.
FlightFails(u) ==
    /\ pc[u] \in {"stat", "rename", "dirsync"}
    /\ FlightEnds(u, "failing", "none")
    /\ UNCHANGED <<holdVars, blobVars, rowVars, sweepVars, crashes>>

\* The deferred complement of the acquire.
CommitFailed(u) ==
    /\ pc[u] = "failing"
    /\ giveBack(u)
    /\ Returns(u)
    /\ UNCHANGED <<flight, blobVars, rowVars, sweepVars, crashes>>

-----------------------------------------------------------------------------
(* The landing tails of repo.Service. *)

\* PutFromBlob: no session and no hold, only two probes.
ChecksumOpen(u) ==
    /\ pc[u] = "idle"
    /\ Content[u] \in disk
    /\ pc' = [pc EXCEPT ![u] = "opened"]
    /\ via' = [via EXCEPT ![u] = "checksum"]
    /\ UNCHANGED <<flight, holdVars, blobVars, rowVars, sweepVars, crashes>>

ChecksumLedger(u) ==
    /\ pc[u] = "opened"
    /\ IF Content[u] \in ledger
       THEN pc' = [pc EXCEPT ![u] = "committed"] /\ UNCHANGED <<via, late>>
       ELSE Returns(u)
    /\ UNCHANGED <<flight, count, expired, lost, blobVars, rowVars, sweepVars, crashes>>

\* Any failure after the Commit returns without releasing the hold.
LandingFails(u) ==
    /\ pc[u] \in {"committed", "ledgered", "landed"}
    /\ Returns(u)
    /\ lost' = [lost EXCEPT ![u] = FALSE]
    /\ UNCHANGED <<flight, count, expired, blobVars, rowVars, sweepVars, crashes>>

\* Slip: the hold is released before the node row is committed.
LedgerPutReleases(u) ==
    /\ pc[u] = "committed"
    /\ ledger' = ledger \cup {Content[u]}
    /\ IF via[u] = "checksum" THEN UNCHANGED <<count, expired>> ELSE release(Content[u])
    /\ pc' = [pc EXCEPT ![u] = "ledgered"]
    /\ UNCHANGED <<via, flight, late, lost, blobVars, nodes, fresh, sweepVars, crashes>>

\* Blobs().Put, ON CONFLICT DO NOTHING; an idempotent redeploy writes no ledger row.
LedgerPut(u) ==
    /\ pc[u] = "committed"
    /\ ledger' = IF nodes[Target[u]] = Content[u] THEN ledger
                                                  ELSE ledger \cup {Content[u]}
    /\ pc' = [pc EXCEPT ![u] = "ledgered"]
    /\ UNCHANGED <<via, flight, holdVars, blobVars, nodes, fresh, sweepVars, crashes>>

\* PutNodeWithUsage under the nodes.sha256 -> blobs.sha256 foreign key.
NodePut(u) ==
    LET p == Target[u]
        s == Content[u]
    IN /\ pc[u] = "ledgered"
       /\ s \in ledger
       /\ nodes' = [nodes EXCEPT ![p] = s]
       /\ fresh' = [fresh EXCEPT ![p] = via[u] = "fresh" \/ (nodes[p] = s /\ @)]
       /\ IF via[u] = "checksum"
          THEN Returns(u)
          ELSE pc' = [pc EXCEPT ![u] = "landed"] /\ UNCHANGED <<via, late>>
       /\ UNCHANGED <<flight, count, expired, lost, blobVars, ledger, sweepVars, crashes>>

ReleaseGCHold(u) ==
    /\ pc[u] = "landed"
    /\ giveBack(u)
    /\ Returns(u)
    /\ UNCHANGED <<flight, blobVars, rowVars, sweepVars, crashes>>

\* repo Delete: the node row goes, blob and ledger stay for GC.
DeleteNode(p) ==
    /\ nodes[p] # NoSha
    /\ nodes' = [nodes EXCEPT ![p] = NoSha]
    /\ fresh' = [fresh EXCEPT ![p] = FALSE]
    /\ UNCHANGED <<upVars, holdVars, blobVars, ledger, sweepVars, crashes>>

-----------------------------------------------------------------------------
(* The sweep.  One at a time: every face holds the data-directory lock. *)

\* Mark, then `now`, then the shard directories.
StartSweep(m) ==
    /\ sweep = "off"
    /\ sweep' = "scan"
    /\ mode' = m
    /\ refs' = Referenced
    /\ todo' = Shards
    /\ UNCHANGED <<upVars, holdVars, blobVars, rowVars, pending, cur, cands, deleted,
                   failed, torn, crashes>>

\* A file outgrows the grace window.  A sweep compares against the `now` it started
\* with, so ageing during a sweep is the same as ageing right after it.
BlobAges(s) ==
    /\ sweep = "off"
    /\ s \in disk \ old
    /\ old' = old \cup {s}
    /\ UNCHANGED <<upVars, holdVars, disk, rowVars, sweepVars, crashes>>

ListShard(d) ==
    /\ sweep = "scan"
    /\ pending = {}
    /\ d \in todo
    /\ todo' = todo \ {d}
    /\ pending' = {s \in disk : ShardOf[s] = d}
    /\ UNCHANGED <<upVars, holdVars, blobVars, rowVars, sweep, mode, refs, cur,
                   cands, deleted, failed, torn, crashes>>

ListShardFails(d) ==
    /\ sweep = "scan"
    /\ pending = {}
    /\ d \in todo
    /\ todo' = todo \ {d}
    /\ failed' = TRUE
    /\ UNCHANGED <<upVars, holdVars, blobVars, rowVars, sweep, mode, refs, pending, cur,
                   cands, deleted, torn, crashes>>

\* The context ends between two shards: the rest is left, the error is returned.  Cleanup
\* runs detached from its caller, the CLI does not.
SweepCancelled ==
    /\ sweep = "scan"
    /\ mode # "cleanup"
    /\ pending = {}
    /\ todo # {}
    /\ todo' = {}
    /\ failed' = TRUE
    /\ UNCHANGED <<upVars, holdVars, blobVars, rowVars, sweep, mode, refs, pending, cur,
                   cands, deleted, torn, crashes>>

\* Candidacy: unreferenced at Mark, not held, older than grace.
Examine(s) ==
    /\ sweep = "scan"
    /\ s \in pending
    /\ pending' = pending \ {s}
    /\ IF s \in refs THEN UNCHANGED <<count, expired, lost>> ELSE purge(s)
    /\ IF s \notin refs /\ ~held(s) /\ s \in old
       THEN /\ cands' = cands \cup {s}
            /\ IF mode = "dry" THEN UNCHANGED <<sweep, cur>>
                               ELSE sweep' = "holdGate" /\ cur' = s
       ELSE UNCHANGED <<sweep, cur, cands>>
    /\ UNCHANGED <<upVars, late, blobVars, rowVars, mode, refs, todo, deleted, failed,
                   torn, crashes>>

\* The stat of a listed entry that is neither referenced nor held fails.
ExamineFails(s) ==
    /\ sweep = "scan"
    /\ s \in pending
    /\ s \notin refs
    /\ ~held(s)
    /\ purge(s)
    /\ pending' = pending \ {s}
    /\ failed' = TRUE
    /\ UNCHANGED <<upVars, late, blobVars, rowVars, sweep, mode, refs, todo, cur, cands,
                   deleted, torn, crashes>>

\* gcDeleteGate.skip, first half.
GateHold ==
    /\ sweep = "holdGate"
    /\ purge(cur)
    /\ \/ held(cur) /\ sweep' = "scan" /\ cur' = NoSha
       \/ ~held(cur) /\ sweep' = "liveGate" /\ UNCHANGED cur
    /\ UNCHANGED <<upVars, late, blobVars, rowVars, mode, refs, todo, pending, cands,
                   deleted, failed, torn, crashes>>

\* Slip: asks the blobs ledger instead of the nodes.
GateLiveLedger ==
    /\ sweep = "liveGate"
    /\ \/ cur \in ledger /\ sweep' = "scan" /\ cur' = NoSha
       \/ cur \notin ledger /\ sweep' = "unlink" /\ UNCHANGED cur
    /\ UNCHANGED <<upVars, holdVars, blobVars, rowVars, mode, refs, todo, pending, cands,
                   deleted, failed, torn, crashes>>

\* gcDeleteGate.skip, second half: the single-point reference query.
GateLive ==
    /\ sweep = "liveGate"
    /\ \/ cur \in Referenced /\ sweep' = "scan" /\ cur' = NoSha
       \/ cur \notin Referenced /\ sweep' = "unlink" /\ UNCHANGED cur
    /\ UNCHANGED <<upVars, holdVars, blobVars, rowVars, mode, refs, todo, pending, cands,
                   deleted, failed, torn, crashes>>

Unlink ==
    /\ sweep = "unlink"
    /\ disk' = disk \ {cur}
    /\ old' = old \ {cur}
    /\ deleted' = deleted \cup {cur}
    /\ sweep' = "scan"
    /\ cur' = NoSha
    /\ UNCHANGED <<upVars, holdVars, rowVars, mode, refs, todo, pending, cands,
                   failed, torn, crashes>>

\* Slip: the failed candidate is not dropped.
GateFailsStays ==
    /\ sweep \in {"liveGate", "unlink"}
    /\ sweep' = "scan"
    /\ failed' = TRUE
    /\ UNCHANGED <<upVars, holdVars, blobVars, rowVars, mode, refs, todo, pending, cur,
                   cands, deleted, torn, crashes>>

\* The Live query or engine.Delete fails; the first error is kept.  Delete also fails when the
\* file is gone and the fsync of its directory is refused: the blob is not reported then.
GateFails ==
    /\ sweep \in {"liveGate", "unlink"}
    /\ sweep' = "scan"
    /\ cur' = NoSha
    /\ failed' = TRUE
    /\ \/ UNCHANGED blobVars
       \/ /\ sweep = "unlink"
          /\ disk' = disk \ {cur}
          /\ old' = old \ {cur}
    /\ UNCHANGED <<upVars, holdVars, rowVars, mode, refs, todo, pending, cands,
                   deleted, torn, crashes>>

\* gcSweep's return value: with an error it is the candidate list even in apply mode.
Returned == IF mode = "dry" \/ failed THEN cands ELSE deleted

\* The run is over: its locals are gone and the data lock is free.
EndRun ==
    /\ sweep' = "off"
    /\ mode' = "dry"
    /\ refs' = {}
    /\ todo' = {}
    /\ pending' = {}
    /\ cur' = NoSha
    /\ cands' = {}
    /\ deleted' = {}
    /\ failed' = FALSE
    /\ torn' = {}

\* The dry pass ends here.  RunGC returns at once on an error; cleanup logs it and goes on.
SweepReturns ==
    /\ sweep = "scan"
    /\ pending = {}
    /\ todo = {}
    /\ IF mode = "dry" \/ (mode = "rest" /\ failed)
       THEN EndRun
       ELSE /\ sweep' = "teardown"
            /\ torn' = Returned
            /\ UNCHANGED <<mode, refs, todo, pending, cur, cands, deleted, failed>>
    /\ UNCHANGED <<upVars, holdVars, blobVars, rowVars, crashes>>

\* Blobs().Delete; the foreign key refuses it while a node references the row.
DropLedgerRow(s) ==
    /\ sweep = "teardown"
    /\ s \in torn
    /\ torn' = torn \ {s}
    /\ ledger' = IF s \in Referenced THEN ledger ELSE ledger \ {s}
    /\ UNCHANGED <<upVars, holdVars, blobVars, nodes, fresh, sweep, mode, refs, todo,
                   pending, cur, cands, deleted, failed, crashes>>

TeardownDone ==
    /\ sweep = "teardown"
    /\ torn = {}
    /\ EndRun
    /\ UNCHANGED <<upVars, holdVars, blobVars, rowVars, crashes>>

-----------------------------------------------------------------------------
\* The process dies: holds, flights, uploads in progress and the sweep are gone,
\* files and rows stay.
Crash ==
    /\ crashes < MaxCrashes
    /\ crashes' = crashes + 1
    /\ pc' = [u \in Uploads |-> IF pc[u] = "idle" THEN "idle" ELSE "done"]
    /\ via' = [u \in Uploads |-> "none"]
    /\ late' = [u \in Uploads |-> FALSE]
    /\ lost' = [u \in Uploads |-> FALSE]
    /\ flight' = [s \in Sha |-> NoUpload]
    /\ count' = [s \in Sha |-> 0]
    /\ expired' = [s \in Sha |-> FALSE]
    /\ EndRun
    /\ UNCHANGED <<blobVars, rowVars>>

UploadStep(u) ==
    \/ CommitAcquire(u) \/ FsyncFails(u) \/ JoinFlight(u) \/ FlightStat(u)
    \/ FlightRename(u) \/ FlightSyncDir(u) \/ FlightFails(u) \/ CommitFailed(u)
    \/ ChecksumOpen(u) \/ ChecksumLedger(u) \/ LandingFails(u) \/ LedgerPut(u)
    \/ NodePut(u) \/ ReleaseGCHold(u)

SweepStep ==
    \/ \E d \in Shards : ListShard(d) \/ ListShardFails(d)
    \/ \E s \in Sha : Examine(s) \/ ExamineFails(s) \/ DropLedgerRow(s)
    \/ GateHold \/ GateLive \/ Unlink \/ GateFails \/ SweepCancelled
    \/ SweepReturns \/ TeardownDone

\* The sweep's steps that only an error takes.
SweepMishap ==
    \/ \E d \in Shards : ListShardFails(d)
    \/ \E s \in Sha : ExamineFails(s)
    \/ GateFails
    \/ SweepCancelled

System ==
    \/ \E u \in Uploads : UploadStep(u)
    \/ \E p \in Paths : DeleteNode(p)
    \/ \E m \in Modes : StartSweep(m)
    \/ SweepStep
    \/ \E s \in Sha : BlobAges(s)
    \/ Crash

Next == System \/ \E s \in Sha : HoldExpires(s)

\* A hold outlives every upload that still relies on it: gc_hold_ttl_seconds (at least
\* MinGCHoldTTL) dwarfs the way from a Commit to its metadata commit.
TimelyHoldExpires(s) == Holders(s) = {} /\ HoldExpires(s)

TimelyNext == System \/ \E s \in Sha : TimelyHoldExpires(s)

Spec == Init /\ [][Next]_vars

TimelySpec == Init /\ [][TimelyNext]_vars

\* A sweep that applies is started again and again (the cron slot) and keeps moving, its
\* errors are finitely many, and time passes.
FairSpec ==
    /\ Spec
    /\ WF_vars(SweepStep)
    /\ SF_vars(StartSweep("rest"))
    /\ <>[][~SweepMishap]_vars
    /\ \A s \in Sha : SF_vars(BlobAges(s)) /\ WF_vars(HoldExpires(s))
    /\ \A u \in Uploads : WF_vars(UploadStep(u))
-----------------------------------------------------------------------------
(* Properties. *)

\* Every variable has its type, only blobs on disk have an age, and the sweep has a blob in
\* hand exactly while it is between its gates (gcSweep).
TypeOK ==
    /\ pc \in [Uploads -> PCs]
    /\ via \in [Uploads -> Vias]
    /\ flight \in [Sha -> Uploads \cup {NoUpload}]
    /\ count \in [Sha -> Nat]
    /\ expired \in [Sha -> BOOLEAN]
    /\ late \in [Uploads -> BOOLEAN]
    /\ lost \in [Uploads -> BOOLEAN]
    /\ disk \subseteq Sha
    /\ old \subseteq disk
    /\ ledger \subseteq Sha
    /\ nodes \in [Paths -> Sha \cup {NoSha}]
    /\ fresh \in [Paths -> BOOLEAN]
    /\ sweep \in SweepPCs
    /\ mode \in Modes
    /\ refs \subseteq Sha
    /\ todo \subseteq Shards
    /\ pending \subseteq Sha
    /\ cur \in Sha \cup {NoSha}
    /\ cur # NoSha <=> sweep \in Gates
    /\ cands \subseteq Sha
    /\ deleted \subseteq Sha
    /\ failed \in BOOLEAN
    /\ torn \subseteq Sha
    /\ crashes \in Nat

\* A node whose reference came from an upload that published the blob itself has its
\* blob on disk, whatever sweeps, deletes, crashes and other uploads of the same bytes
\* interleave (the H < P < M < R argument of gc.go).
FreshReferenceIsBacked == \A p \in Paths : fresh[p] => nodes[p] \in disk

\* With uploads that outlive the TTL too: a hold disappears under an upload only by its own
\* expiry, or by the release of one whose entry had been purged, directly or through those it
\* took the count of.  Nobody else's acquire, failure, release, leak or expiry strips it
\* (inflightHoldSet counts, and a new acquire prolongs the entry for all).
OnTimeHolderIsHeld ==
    \A s \in Sha : \A u \in Holders(s) : ~late[u] /\ ~lost[u] => held(s)

\* hold.go:120-122 on release: "post-TTL releases are no-ops".  Then no other upload's release
\* could strip one that is inside its TTL.
LateReleaseIsHarmless ==
    \A s \in Sha : \A u \in Holders(s) : ~late[u] => held(s)

\* The rename never replaces a blob that is already there: one publisher per checksum,
\* and its stat is still true when it renames.
RenameNeverOverwrites == \A u \in Uploads : pc[u] = "rename" => Content[u] \notin disk

\* A blob nobody references any more is eventually collected, or referenced again.
OrphanIsReclaimed ==
    \A s \in Sha : (s \in disk /\ s \notin Referenced) ~> (s \notin disk \/ s \in Referenced)

\* Nobody waits for ever on another upload's flight.
WaiterReturns == \A u \in Uploads : (pc[u] = "wait") ~> (pc[u] # "wait")

\* gc.go on GCSweep: the returned list is "the deleted list in apply mode".
TornRowsWereDeleted == sweep = "teardown" => torn \subseteq deleted
=============================================================================
