---------------------------- MODULE BlobGCProofs ----------------------------
(***************************************************************************)
(* The soundness argument of GCSweep's godoc, machine-checked: under any   *)
(* number of uploads, blobs, paths and shards, and any hold TTL no upload  *)
(* outlives, a reference made by an upload that published its blob never   *)
(* loses that blob.  With uploads that do outlive it, a hold still goes    *)
(* only by its own expiry or down a chain of misplaced releases.           *)
(***************************************************************************)
EXTENDS BlobGC, FiniteSetTheorems, TLAPS

-----------------------------------------------------------------------------
(* Type correctness. *)

LEMMA TypeInit == Init => TypeOK
<1> SUFFICES ASSUME Init PROVE TypeOK
  OBVIOUS
<1>1. /\ expired \in [Sha -> BOOLEAN]
      /\ late \in [Uploads -> BOOLEAN] /\ lost \in [Uploads -> BOOLEAN]
      /\ fresh \in [Paths -> BOOLEAN]
  BY DEF Init
<1>2. QED
  BY <1>1 DEF Init, TypeOK, PCs, Vias, SweepPCs, Modes, Gates

LEMMA TypeUploadStep ==
  ASSUME TypeOK, NEW u \in Uploads, UploadStep(u)
  PROVE  TypeOK'
<1> USE DEF TypeOK, PCs, Vias
<1>0. /\ Content[u] \in Sha /\ Target[u] \in Paths
  BY ConstantTypes
<1>1. CASE CommitAcquire(u)
  BY <1>0, <1>1 DEF CommitAcquire, acquire, blobVars, rowVars, sweepVars
<1>2. CASE FsyncFails(u)
  BY <1>2 DEF FsyncFails, holdVars, blobVars, rowVars, sweepVars
<1>3. CASE JoinFlight(u)
  BY <1>0, <1>3 DEF JoinFlight, holdVars, blobVars, rowVars, sweepVars
<1>4. CASE FlightStat(u)
  BY <1>0, <1>4 DEF FlightStat, FlightEnds, holdVars, blobVars, rowVars, sweepVars
<1>5. CASE FlightRename(u)
  BY <1>0, <1>5 DEF FlightRename, holdVars, rowVars, sweepVars
<1>6. CASE FlightSyncDir(u)
  BY <1>0, <1>6 DEF FlightSyncDir, FlightEnds, holdVars, blobVars, rowVars, sweepVars
<1>7. CASE FlightFails(u)
  BY <1>0, <1>7 DEF FlightFails, FlightEnds, holdVars, blobVars, rowVars, sweepVars
<1>8. CASE CommitFailed(u)
  <2>1. expired' \in [Sha -> BOOLEAN]
    BY <1>0, <1>8 DEF CommitFailed, giveBack, release
  <2>2. count' \in [Sha -> Nat]
    BY <1>0, <1>8 DEF CommitFailed, giveBack, release
  <2>3. lost' \in [Uploads -> BOOLEAN]
    BY <1>0, <1>8 DEF CommitFailed, giveBack
  <2>4. QED
    BY <1>8, <2>1, <2>2, <2>3 DEF CommitFailed, Returns, blobVars, rowVars, sweepVars
<1>9. CASE ChecksumOpen(u)
  BY <1>9 DEF ChecksumOpen, holdVars, blobVars, rowVars, sweepVars
<1>10. CASE ChecksumLedger(u)
  BY <1>10 DEF ChecksumLedger, Returns, blobVars, rowVars, sweepVars
<1>11. CASE LandingFails(u)
  BY <1>11 DEF LandingFails, Returns, blobVars, rowVars, sweepVars
<1>12. CASE LedgerPut(u)
  BY <1>0, <1>12 DEF LedgerPut, holdVars, blobVars, sweepVars
<1>13. CASE NodePut(u)
  BY <1>0, <1>13 DEF NodePut, Returns, blobVars, sweepVars
<1>14. CASE ReleaseGCHold(u)
  <2>1. expired' \in [Sha -> BOOLEAN]
    BY <1>0, <1>14 DEF ReleaseGCHold, giveBack, release
  <2>2. count' \in [Sha -> Nat]
    BY <1>0, <1>14 DEF ReleaseGCHold, giveBack, release
  <2>3. lost' \in [Uploads -> BOOLEAN]
    BY <1>0, <1>14 DEF ReleaseGCHold, giveBack
  <2>4. QED
    BY <1>14, <2>1, <2>2, <2>3 DEF ReleaseGCHold, Returns, blobVars, rowVars, sweepVars
<1>15. QED
  BY <1>1, <1>2, <1>3, <1>4, <1>5, <1>6, <1>7, <1>8, <1>9, <1>10, <1>11, <1>12,
     <1>13, <1>14 DEF UploadStep

LEMMA TypeSweepStep ==
  ASSUME TypeOK, SweepStep
  PROVE  TypeOK'
<1> USE DEF TypeOK, SweepPCs, Modes, Gates
<1>1. ASSUME NEW d \in Shards, ListShard(d) PROVE TypeOK'
  BY <1>1 DEF ListShard, upVars, holdVars, blobVars, rowVars
<1>2. ASSUME NEW d \in Shards, ListShardFails(d) PROVE TypeOK'
  BY <1>2 DEF ListShardFails, upVars, holdVars, blobVars, rowVars
<1>3. ASSUME NEW s \in Sha, Examine(s) PROVE TypeOK'
  <2>1. count' \in [Sha -> Nat]
    BY <1>3 DEF Examine, purge
  <2>2. expired' \in [Sha -> BOOLEAN] /\ lost' \in [Uploads -> BOOLEAN]
    BY <1>3 DEF Examine, purge
  <2>3. QED
    BY <1>3, <2>1, <2>2, NoShaFresh DEF Examine, upVars, blobVars, rowVars
<1>4. ASSUME NEW s \in Sha, ExamineFails(s) PROVE TypeOK'
  BY <1>4 DEF ExamineFails, purge, upVars, blobVars, rowVars
<1>5. ASSUME NEW s \in Sha, DropLedgerRow(s) PROVE TypeOK'
  BY <1>5 DEF DropLedgerRow, upVars, holdVars, blobVars
<1>6. CASE GateHold
  BY <1>6 DEF GateHold, purge, upVars, blobVars, rowVars
<1>7. CASE GateLive
  BY <1>7 DEF GateLive, upVars, holdVars, blobVars, rowVars
<1>8. CASE Unlink
  BY <1>8 DEF Unlink, upVars, holdVars, rowVars
<1>9. CASE GateFails
  BY <1>9 DEF GateFails, upVars, holdVars, blobVars, rowVars
<1>10. CASE SweepReturns
  BY <1>10 DEF SweepReturns, EndRun, Returned, upVars, holdVars, blobVars, rowVars
<1>11. CASE TeardownDone
  BY <1>11 DEF TeardownDone, EndRun, upVars, holdVars, blobVars, rowVars
<1>12. CASE SweepCancelled
  BY <1>12 DEF SweepCancelled, upVars, holdVars, blobVars, rowVars
<1>13. QED
  BY <1>1, <1>2, <1>3, <1>4, <1>5, <1>6, <1>7, <1>8, <1>9, <1>10, <1>11, <1>12 DEF SweepStep

LEMMA TypeNext ==
  ASSUME TypeOK, Next
  PROVE  TypeOK'
<1> USE DEF TypeOK
<1>1. ASSUME NEW p \in Paths, DeleteNode(p) PROVE TypeOK'
  BY <1>1 DEF DeleteNode, upVars, holdVars, blobVars, sweepVars
<1>2. ASSUME NEW m \in Modes, StartSweep(m) PROVE TypeOK'
  BY <1>2 DEF StartSweep, Referenced, SweepPCs, Gates, upVars, holdVars, blobVars, rowVars
<1>3. ASSUME NEW s \in Sha, BlobAges(s) PROVE TypeOK'
  BY <1>3 DEF BlobAges, upVars, holdVars, rowVars, sweepVars
<1>4. CASE Crash
  <2>1. /\ expired' \in [Sha -> BOOLEAN]
        /\ late' \in [Uploads -> BOOLEAN] /\ lost' \in [Uploads -> BOOLEAN]
    BY <1>4 DEF Crash
  <2>2. /\ pc' \in [Uploads -> PCs]
        /\ via' \in [Uploads -> Vias]
        /\ flight' \in [Sha -> Uploads \cup {NoUpload}]
        /\ count' \in [Sha -> Nat]
    BY <1>4 DEF Crash, PCs, Vias
  <2>3. QED
    <3>1. /\ disk' \subseteq Sha /\ old' \subseteq disk' /\ ledger' \subseteq Sha
          /\ nodes' \in [Paths -> Sha \cup {NoSha}] /\ fresh' \in [Paths -> BOOLEAN]
          /\ crashes' \in Nat
      BY <1>4 DEF Crash, blobVars, rowVars
    <3>2. QED
      BY <1>4, <2>1, <2>2, <3>1 DEF Crash, EndRun, SweepPCs, Modes, Gates
<1>5. ASSUME NEW s \in Sha, HoldExpires(s) PROVE TypeOK'
  BY <1>5 DEF HoldExpires, upVars, blobVars, rowVars, sweepVars
<1>6. QED
  BY <1>1, <1>2, <1>3, <1>4, <1>5, TypeUploadStep, TypeSweepStep DEF Next, System

\* Every reachable state is well typed, with an untimely hold expiry at any moment too.
THEOREM TypeCorrect == Spec => []TypeOK
<1>1. TypeOK /\ UNCHANGED vars => TypeOK'
  BY DEF TypeOK, vars
<1>2. QED
  BY <1>1, TypeInit, TypeNext, PTL DEF Spec

-----------------------------------------------------------------------------
(* The inductive invariant. *)

\* u's flight has renamed the blob into place, and u's reference has yet to be written.
Published(u) ==
    \/ pc[u] = "dirsync"
    \/ pc[u] = "wait" /\ \E l \in Uploads : Content[l] = Content[u] /\ pc[l] = "dirsync"
    \/ pc[u] \in {"committed", "ledgered"} /\ via[u] = "fresh"

Leading == {"stat", "rename", "dirsync"}

\* One leader per checksum, and nobody waits without one.
FlightInv ==
    /\ \A u \in Uploads : pc[u] \in Leading => flight[Content[u]] = u
    /\ \A s \in Sha : flight[s] # NoUpload => Content[flight[s]] = s /\ pc[flight[s]] \in Leading

\* Who takes the checksum path carries no hold to the end of it.
ViaInv ==
    \A u \in Uploads : /\ pc[u] = "opened" => via[u] = "checksum"
                       /\ pc[u] = "landed" => via[u] # "checksum"

\* Every holder is counted, and its entry is inside the TTL.
CountInv == \A s \in Sha : Cardinality(Holders(s)) <= count[s]
TimelyInv == \A s \in Sha : Holders(s) # {} => ~expired[s]

\* What the sweep has listed is still there, and it looks at nothing twice.
ScanInv ==
    /\ pending \subseteq disk
    /\ sweep \in Gates => cur \in disk \ pending

\* A published blob is on disk until its reference is written, and so is a fresh reference's.
BackedInv ==
    /\ \A u \in Uploads : Published(u) => Content[u] \in disk
    /\ FreshReferenceIsBacked

\* What each gate established stays true until the unlink.
GateInv ==
    /\ sweep \in {"liveGate", "unlink"} => \A u \in Uploads : Published(u) => Content[u] # cur
    /\ sweep = "unlink" => \A p \in Paths : fresh[p] => nodes[p] # cur

IInv ==
    /\ TypeOK
    /\ FlightInv
    /\ ViaInv
    /\ CountInv
    /\ TimelyInv
    /\ RenameNeverOverwrites
    /\ ScanInv
    /\ BackedInv
    /\ GateInv

LEMMA HoldersFinite ==
  ASSUME NEW s \in Sha
  PROVE  /\ IsFiniteSet(Holders(s))
         /\ Cardinality(Holders(s)) \in Nat
<1>1. Holders(s) \subseteq Uploads
  BY DEF Holders
<1>2. QED
  BY <1>1, UploadsFinite, FS_Subset, FS_CardinalityType

\* A holder is seen by the hold set.
LEMMA HolderIsHeld ==
  ASSUME TypeOK, CountInv, TimelyInv, NEW s \in Sha, NEW u \in Holders(s)
  PROVE  held(s)
<1>1. Cardinality(Holders(s)) # 0
  BY HoldersFinite, FS_EmptySet
<1>2. count[s] > 0
  BY <1>1, HoldersFinite DEF CountInv, TypeOK
<1>3. QED
  BY <1>2 DEF held, TimelyInv

\* An upload with a published blob is a holder of it.
LEMMA PublishedHolds ==
  ASSUME NEW u \in Uploads, Published(u)
  PROVE  u \in Holders(Content[u])
  BY DEF Published, Holders, InCommit

(* How the number of holders moves. *)

LEMMA FewerHolders ==
  ASSUME NEW S, IsFiniteSet(S), NEW T \in SUBSET S, NEW c \in Nat, Cardinality(S) <= c
  PROVE  Cardinality(T) <= c
  BY FS_Subset, FS_CardinalityType

LEMMA OneMoreHolder ==
  ASSUME NEW S, IsFiniteSet(S), NEW x, NEW T \in SUBSET (S \cup {x}), NEW c \in Nat,
         Cardinality(S) <= c
  PROVE  Cardinality(T) <= c + 1
<1>1. /\ IsFiniteSet(S \cup {x})
      /\ Cardinality(S \cup {x}) = IF x \in S THEN Cardinality(S) ELSE Cardinality(S) + 1
  BY FS_AddElement, Zenon
<1>2. Cardinality(S) \in Nat
  BY FS_CardinalityType
<1>3. Cardinality(S \cup {x}) <= c + 1 /\ c + 1 \in Nat
  BY <1>1, <1>2
<1>4. QED
  BY <1>1, <1>3, FewerHolders

LEMMA OneHolderLess ==
  ASSUME NEW S, IsFiniteSet(S), NEW x \in S, NEW T \in SUBSET (S \ {x}), NEW c \in Nat,
         Cardinality(S) <= c
  PROVE  c > 0 /\ Cardinality(T) <= c - 1
<1>1. IsFiniteSet(S \ {x}) /\ Cardinality(S \ {x}) = Cardinality(S) - 1
  BY FS_RemoveElement, Zenon
<1>2. Cardinality(S) \in Nat /\ Cardinality(S \ {x}) \in Nat
  BY <1>1, FS_CardinalityType
<1>3. c > 0 /\ c - 1 \in Nat /\ Cardinality(S \ {x}) <= c - 1
  BY <1>1, <1>2
<1>4. QED
  BY <1>1, <1>3, FewerHolders

\* A step that leaves the hold set alone and adds no holder.
LEMMA HoldsKept ==
  ASSUME IInv, UNCHANGED <<count, expired>>, \A s \in Sha : Holders(s)' \subseteq Holders(s)
  PROVE  CountInv' /\ TimelyInv'
<1>1. ASSUME NEW s \in Sha PROVE Cardinality(Holders(s)') <= count'[s]
  BY HoldersFinite, FewerHolders DEF IInv, TypeOK, CountInv
<1>2. ASSUME NEW s \in Sha, Holders(s)' # {} PROVE ~expired'[s]
  BY <1>2 DEF IInv, TimelyInv
<1>3. QED
  BY <1>1, <1>2 DEF CountInv, TimelyInv

\* u takes a hold.
LEMMA HoldTaken ==
  ASSUME IInv, NEW u \in Uploads, acquire(Content[u]),
         \A s \in Sha : Holders(s)' \subseteq IF s = Content[u] THEN Holders(s) \cup {u}
                                                              ELSE Holders(s)
  PROVE  CountInv' /\ TimelyInv'
<1>0. Content[u] \in Sha
  BY ConstantTypes
<1>1. ASSUME NEW s \in Sha PROVE Cardinality(Holders(s)') <= count'[s]
  <2>1. CASE s = Content[u]
    <3>1. count'[s] = count[s] + 1 /\ Holders(s)' \subseteq Holders(s) \cup {u}
      BY <1>0, <2>1 DEF acquire, IInv, TypeOK
    <3>2. IsFiniteSet(Holders(s)) /\ count[s] \in Nat /\ Cardinality(Holders(s)) <= count[s]
      BY HoldersFinite DEF IInv, TypeOK, CountInv
    <3>3. Cardinality(Holders(s)') <= count[s] + 1
      BY <3>1, <3>2, OneMoreHolder
    <3>4. QED
      BY <3>1, <3>3
  <2>2. CASE s # Content[u]
    <3>1. count'[s] = count[s] /\ Holders(s)' \subseteq Holders(s)
      BY <1>0, <2>2 DEF acquire, IInv, TypeOK
    <3>2. QED
      BY <3>1, HoldersFinite, FewerHolders DEF IInv, TypeOK, CountInv
  <2>3. QED
    BY <2>1, <2>2
<1>2. ASSUME NEW s \in Sha, Holders(s)' # {} PROVE ~expired'[s]
  <2>1. CASE s = Content[u]
    BY <1>0, <2>1 DEF acquire, IInv, TypeOK
  <2>2. CASE s # Content[u]
    BY <1>0, <1>2, <2>2 DEF acquire, IInv, TypeOK, TimelyInv
  <2>3. QED
    BY <2>1, <2>2
<1>3. QED
  BY <1>1, <1>2 DEF CountInv, TimelyInv

\* A holder gives its own hold back.
LEMMA HoldReleased ==
  ASSUME IInv, NEW u \in Uploads, u \in Holders(Content[u]), release(Content[u]),
         \A s \in Sha : Holders(s)' \subseteq Holders(s) \ {u}
  PROVE  CountInv' /\ TimelyInv'
<1>0. Content[u] \in Sha
  BY ConstantTypes
<1>1. ASSUME NEW s \in Sha PROVE Cardinality(Holders(s)') <= count'[s]
  <2>1. CASE s = Content[u]
    <3>1. count[s] > 0 /\ Cardinality(Holders(s)') <= count[s] - 1
      BY <2>1, HoldersFinite, OneHolderLess DEF IInv, TypeOK, CountInv
    <3>2. count'[s] = count[s] - 1
      BY <1>0, <2>1, <3>1 DEF release, IInv, TypeOK
    <3>3. QED
      BY <3>1, <3>2
  <2>2. CASE s # Content[u]
    <3>1. count'[s] = count[s]
      BY <1>0, <2>2 DEF release, IInv, TypeOK
    <3>2. QED
      BY <3>1, HoldersFinite, FewerHolders DEF IInv, TypeOK, CountInv
  <2>3. QED
    BY <2>1, <2>2
<1>2. ASSUME NEW s \in Sha, Holders(s)' # {} PROVE ~expired'[s]
  <2>1. ~expired[s]
    BY <1>2 DEF IInv, TimelyInv
  <2>2. CASE s = Content[u]
    BY <1>0, <2>1, <2>2 DEF release, IInv, TypeOK
  <2>3. CASE s # Content[u]
    BY <1>0, <2>1, <2>3 DEF release, IInv, TypeOK
  <2>4. QED
    BY <2>2, <2>3
<1>3. QED
  BY <1>1, <1>2 DEF CountInv, TimelyInv

\* held() deletes only entries without a holder.
LEMMA HoldPurged ==
  ASSUME IInv, NEW x \in Sha, purge(x), UNCHANGED <<pc, via>>
  PROVE  CountInv' /\ TimelyInv'
<1>0. \A s \in Sha : Holders(s)' = Holders(s)
  BY DEF Holders
<1>1. ASSUME NEW s \in Sha PROVE Cardinality(Holders(s)') <= count'[s]
  <2>1. CASE s = x /\ expired[x]
    <3>1. Holders(s)' = {} /\ count'[s] = 0
      BY <1>0, <2>1 DEF purge, IInv, TypeOK, TimelyInv
    <3>2. QED
      BY <3>1, FS_EmptySet
  <2>2. CASE ~(s = x /\ expired[x])
    <3>1. count'[s] = count[s]
      BY <2>2 DEF purge, IInv, TypeOK
    <3>2. QED
      BY <1>0, <3>1 DEF IInv, CountInv
  <2>3. QED
    BY <2>1, <2>2
<1>2. ASSUME NEW s \in Sha, Holders(s)' # {} PROVE ~expired'[s]
  BY <1>0, <1>2 DEF purge, IInv, TypeOK, TimelyInv
<1>3. QED
  BY <1>1, <1>2 DEF CountInv, TimelyInv

-----------------------------------------------------------------------------
(* Every step preserves the invariant. *)

LEMMA InvInit == Init => IInv
<1> SUFFICES ASSUME Init PROVE IInv
  OBVIOUS
<1>1. \A s \in Sha : Holders(s) = {}
  BY DEF Init, Holders, InCommit
<1>2. CountInv
  <2>1. \A s \in Sha : count[s] = 0 /\ Cardinality(Holders(s)) = 0
    BY <1>1, FS_EmptySet DEF Init
  <2>2. QED
    BY <2>1 DEF CountInv
<1>3. TimelyInv
  BY <1>1 DEF TimelyInv
<1>4. FlightInv /\ ViaInv /\ RenameNeverOverwrites /\ ScanInv
  BY ConstantTypes DEF Init, FlightInv, ViaInv, Leading, RenameNeverOverwrites, ScanInv, Gates
<1>5. BackedInv /\ GateInv
  BY DEF Init, BackedInv, GateInv, Published, FreshReferenceIsBacked
<1>6. QED
  BY <1>2, <1>3, <1>4, <1>5, TypeInit DEF IInv

LEMMA InvUploadStep ==
  ASSUME IInv, NEW u \in Uploads, UploadStep(u)
  PROVE  IInv'
<1>0. TypeOK'
  BY TypeUploadStep DEF IInv
<1>c. Content \in [Uploads -> Sha] /\ Target \in [Uploads -> Paths] /\ NoUpload \notin Uploads
  BY ConstantTypes, NoUploadFresh
<1>1. CASE CommitAcquire(u)
  <2>1. FlightInv' /\ ViaInv'
    BY <1>c, <1>1 DEF CommitAcquire, acquire, IInv, TypeOK, FlightInv, ViaInv, Leading
  <2>2. CountInv' /\ TimelyInv'
    <3>1. \A s \in Sha : Holders(s)' \subseteq IF s = Content[u] THEN Holders(s) \cup {u}
                                                                ELSE Holders(s)
      BY <1>c, <1>1 DEF CommitAcquire, IInv, TypeOK, Holders, InCommit
    <3>2. QED
      BY <1>1, <3>1, HoldTaken DEF CommitAcquire
  <2>3. RenameNeverOverwrites'
    BY <1>c, <1>1 DEF CommitAcquire, acquire, IInv, TypeOK, RenameNeverOverwrites, FlightInv, Leading, blobVars
  <2>4. ScanInv'
    BY <1>1 DEF CommitAcquire, IInv, ScanInv, blobVars, sweepVars
  <2>5. BackedInv'
    BY <1>c, <1>1 DEF CommitAcquire, acquire, IInv, TypeOK, BackedInv, FlightInv, Leading, Published,
       FreshReferenceIsBacked, blobVars, rowVars
  <2>6. GateInv'
    BY <1>c, <1>1 DEF CommitAcquire, acquire, IInv, TypeOK, GateInv, BackedInv, FlightInv, ScanInv, 
       RenameNeverOverwrites, Gates, Leading, Published, rowVars, sweepVars
  <2>7. QED
    BY <1>0, <2>1, <2>2, <2>3, <2>4, <2>5, <2>6 DEF IInv
<1>2. CASE FsyncFails(u)
  <2>1. FlightInv' /\ ViaInv'
    BY <1>c, <1>2 DEF FsyncFails, IInv, TypeOK, FlightInv, ViaInv, Leading
  <2>2. CountInv' /\ TimelyInv'
    <3>1. \A s \in Sha : Holders(s)' \subseteq Holders(s)
      BY <1>c, <1>2 DEF FsyncFails, IInv, TypeOK, Holders, InCommit
    <3>2. UNCHANGED <<count, expired>>
      BY <1>2 DEF FsyncFails, holdVars
    <3>3. QED
      BY <3>1, <3>2, HoldsKept
  <2>3. RenameNeverOverwrites'
    BY <1>c, <1>2 DEF FsyncFails, IInv, TypeOK, RenameNeverOverwrites, FlightInv, Leading, blobVars
  <2>4. ScanInv'
    BY <1>2 DEF FsyncFails, IInv, ScanInv, blobVars, sweepVars
  <2>5. BackedInv'
    BY <1>c, <1>2 DEF FsyncFails, IInv, TypeOK, BackedInv, FlightInv, Leading, Published,
       FreshReferenceIsBacked, blobVars, rowVars
  <2>6. GateInv'
    BY <1>c, <1>2 DEF FsyncFails, IInv, TypeOK, GateInv, BackedInv, FlightInv, ScanInv, 
       RenameNeverOverwrites, Gates, Leading, Published, rowVars, sweepVars
  <2>7. QED
    BY <1>0, <2>1, <2>2, <2>3, <2>4, <2>5, <2>6 DEF IInv
<1>3. CASE JoinFlight(u)
  <2>1. FlightInv' /\ ViaInv'
    BY <1>c, <1>3 DEF JoinFlight, IInv, TypeOK, FlightInv, ViaInv, Leading
  <2>2. CountInv' /\ TimelyInv'
    <3>1. \A s \in Sha : Holders(s)' \subseteq Holders(s)
      BY <1>c, <1>3 DEF JoinFlight, IInv, TypeOK, Holders, InCommit
    <3>2. UNCHANGED <<count, expired>>
      BY <1>3 DEF JoinFlight, holdVars
    <3>3. QED
      BY <3>1, <3>2, HoldsKept
  <2>3. RenameNeverOverwrites'
    BY <1>c, <1>3 DEF JoinFlight, IInv, TypeOK, RenameNeverOverwrites, FlightInv, Leading, blobVars
  <2>4. ScanInv'
    BY <1>3 DEF JoinFlight, IInv, ScanInv, blobVars, sweepVars
  <2>5. BackedInv'
    BY <1>c, <1>3 DEF JoinFlight, IInv, TypeOK, BackedInv, FlightInv, Leading, Published,
       FreshReferenceIsBacked, blobVars, rowVars
  <2>6. GateInv'
    BY <1>c, <1>3 DEF JoinFlight, IInv, TypeOK, GateInv, BackedInv, FlightInv, ScanInv, 
       RenameNeverOverwrites, Gates, Leading, Published, rowVars, sweepVars
  <2>7. QED
    BY <1>0, <2>1, <2>2, <2>3, <2>4, <2>5, <2>6 DEF IInv
<1>4. CASE FlightStat(u)
  <2>1. FlightInv' /\ ViaInv'
    BY <1>c, <1>4 DEF FlightStat, FlightEnds, IInv, TypeOK, FlightInv, ViaInv, Leading
  <2>2. CountInv' /\ TimelyInv'
    <3>1. \A s \in Sha : Holders(s)' \subseteq Holders(s)
      BY <1>c, <1>4 DEF FlightStat, FlightEnds, IInv, TypeOK, Holders, InCommit
    <3>2. UNCHANGED <<count, expired>>
      BY <1>4 DEF FlightStat, holdVars
    <3>3. QED
      BY <3>1, <3>2, HoldsKept
  <2>3. RenameNeverOverwrites'
    BY <1>c, <1>4 DEF FlightStat, FlightEnds, IInv, TypeOK, RenameNeverOverwrites, FlightInv, Leading, blobVars
  <2>4. ScanInv'
    BY <1>4 DEF FlightStat, IInv, ScanInv, blobVars, sweepVars
  <2>5. BackedInv'
    BY <1>c, <1>4 DEF FlightStat, FlightEnds, IInv, TypeOK, BackedInv, FlightInv, Leading, Published,
       FreshReferenceIsBacked, blobVars, rowVars
  <2>6. GateInv'
    BY <1>c, <1>4 DEF FlightStat, FlightEnds, IInv, TypeOK, GateInv, BackedInv, FlightInv, ScanInv, 
       RenameNeverOverwrites, Gates, Leading, Published, rowVars, sweepVars
  <2>7. QED
    BY <1>0, <2>1, <2>2, <2>3, <2>4, <2>5, <2>6 DEF IInv
<1>5. CASE FlightRename(u)
  <2>1. FlightInv' /\ ViaInv'
    BY <1>c, <1>5 DEF FlightRename, IInv, TypeOK, FlightInv, ViaInv, Leading
  <2>2. CountInv' /\ TimelyInv'
    <3>1. \A s \in Sha : Holders(s)' \subseteq Holders(s)
      BY <1>c, <1>5 DEF FlightRename, IInv, TypeOK, Holders, InCommit
    <3>2. UNCHANGED <<count, expired>>
      BY <1>5 DEF FlightRename, holdVars
    <3>3. QED
      BY <3>1, <3>2, HoldsKept
  <2>3. RenameNeverOverwrites'
    BY <1>c, <1>5 DEF FlightRename, IInv, TypeOK, RenameNeverOverwrites, FlightInv, Leading, blobVars
  <2>4. ScanInv'
    BY <1>5 DEF FlightRename, IInv, ScanInv, blobVars, sweepVars
  <2>5. BackedInv'
    BY <1>c, <1>5 DEF FlightRename, IInv, TypeOK, BackedInv, FlightInv, Leading, Published,
       FreshReferenceIsBacked, blobVars, rowVars
  <2>6. GateInv'
    BY <1>c, <1>5 DEF FlightRename, IInv, TypeOK, GateInv, BackedInv, FlightInv, ScanInv, 
       RenameNeverOverwrites, Gates, Leading, Published, rowVars, sweepVars
  <2>7. QED
    BY <1>0, <2>1, <2>2, <2>3, <2>4, <2>5, <2>6 DEF IInv
<1>6. CASE FlightSyncDir(u)
  <2>1. FlightInv' /\ ViaInv'
    BY <1>c, <1>6 DEF FlightSyncDir, FlightEnds, IInv, TypeOK, FlightInv, ViaInv, Leading
  <2>2. CountInv' /\ TimelyInv'
    <3>1. \A s \in Sha : Holders(s)' \subseteq Holders(s)
      BY <1>c, <1>6 DEF FlightSyncDir, FlightEnds, IInv, TypeOK, Holders, InCommit
    <3>2. UNCHANGED <<count, expired>>
      BY <1>6 DEF FlightSyncDir, holdVars
    <3>3. QED
      BY <3>1, <3>2, HoldsKept
  <2>3. RenameNeverOverwrites'
    BY <1>c, <1>6 DEF FlightSyncDir, FlightEnds, IInv, TypeOK, RenameNeverOverwrites, FlightInv, Leading, blobVars
  <2>4. ScanInv'
    BY <1>6 DEF FlightSyncDir, IInv, ScanInv, blobVars, sweepVars
  <2>5. BackedInv'
    BY <1>c, <1>6 DEF FlightSyncDir, FlightEnds, IInv, TypeOK, BackedInv, FlightInv, Leading, Published,
       FreshReferenceIsBacked, blobVars, rowVars
  <2>6. GateInv'
    BY <1>c, <1>6 DEF FlightSyncDir, FlightEnds, IInv, TypeOK, GateInv, BackedInv, FlightInv, ScanInv, 
       RenameNeverOverwrites, Gates, Leading, Published, rowVars, sweepVars
  <2>7. QED
    BY <1>0, <2>1, <2>2, <2>3, <2>4, <2>5, <2>6 DEF IInv
<1>7. CASE FlightFails(u)
  <2>1. FlightInv' /\ ViaInv'
    BY <1>c, <1>7 DEF FlightFails, FlightEnds, IInv, TypeOK, FlightInv, ViaInv, Leading
  <2>2. CountInv' /\ TimelyInv'
    <3>1. \A s \in Sha : Holders(s)' \subseteq Holders(s)
      BY <1>c, <1>7 DEF FlightFails, FlightEnds, IInv, TypeOK, Holders, InCommit
    <3>2. UNCHANGED <<count, expired>>
      BY <1>7 DEF FlightFails, holdVars
    <3>3. QED
      BY <3>1, <3>2, HoldsKept
  <2>3. RenameNeverOverwrites'
    BY <1>c, <1>7 DEF FlightFails, FlightEnds, IInv, TypeOK, RenameNeverOverwrites, FlightInv, Leading, blobVars
  <2>4. ScanInv'
    BY <1>7 DEF FlightFails, IInv, ScanInv, blobVars, sweepVars
  <2>5. BackedInv'
    BY <1>c, <1>7 DEF FlightFails, FlightEnds, IInv, TypeOK, BackedInv, FlightInv, Leading, Published,
       FreshReferenceIsBacked, blobVars, rowVars
  <2>6. GateInv'
    BY <1>c, <1>7 DEF FlightFails, FlightEnds, IInv, TypeOK, GateInv, BackedInv, FlightInv, ScanInv, 
       RenameNeverOverwrites, Gates, Leading, Published, rowVars, sweepVars
  <2>7. QED
    BY <1>0, <2>1, <2>2, <2>3, <2>4, <2>5, <2>6 DEF IInv
<1>8. CASE CommitFailed(u)
  <2>1. FlightInv' /\ ViaInv'
    BY <1>c, <1>8 DEF CommitFailed, Returns, IInv, TypeOK, FlightInv, ViaInv, Leading
  <2>2. CountInv' /\ TimelyInv'
    <3>1. \A s \in Sha : Holders(s)' \subseteq Holders(s) \ {u}
      BY <1>c, <1>8 DEF CommitFailed, Returns, IInv, TypeOK, Holders, InCommit
    <3>2. u \in Holders(Content[u])
      BY <1>c, <1>8 DEF CommitFailed, Holders, InCommit
    <3>3. QED
      BY <1>8, <3>1, <3>2, HoldReleased DEF CommitFailed, giveBack
  <2>3. RenameNeverOverwrites'
    BY <1>c, <1>8 DEF CommitFailed, Returns, IInv, TypeOK, RenameNeverOverwrites, FlightInv, Leading, blobVars
  <2>4. ScanInv'
    BY <1>8 DEF CommitFailed, IInv, ScanInv, blobVars, sweepVars
  <2>5. BackedInv'
    BY <1>c, <1>8 DEF CommitFailed, Returns, IInv, TypeOK, BackedInv, FlightInv, Leading, Published,
       FreshReferenceIsBacked, blobVars, rowVars
  <2>6. GateInv'
    BY <1>c, <1>8 DEF CommitFailed, Returns, IInv, TypeOK, GateInv, BackedInv, FlightInv, ScanInv, 
       RenameNeverOverwrites, Gates, Leading, Published, rowVars, sweepVars
  <2>7. QED
    BY <1>0, <2>1, <2>2, <2>3, <2>4, <2>5, <2>6 DEF IInv
<1>9. CASE ChecksumOpen(u)
  <2>1. FlightInv' /\ ViaInv'
    BY <1>c, <1>9 DEF ChecksumOpen, IInv, TypeOK, FlightInv, ViaInv, Leading
  <2>2. CountInv' /\ TimelyInv'
    <3>1. \A s \in Sha : Holders(s)' \subseteq Holders(s)
      BY <1>c, <1>9 DEF ChecksumOpen, IInv, TypeOK, Holders, InCommit
    <3>2. UNCHANGED <<count, expired>>
      BY <1>9 DEF ChecksumOpen, holdVars
    <3>3. QED
      BY <3>1, <3>2, HoldsKept
  <2>3. RenameNeverOverwrites'
    BY <1>c, <1>9 DEF ChecksumOpen, IInv, TypeOK, RenameNeverOverwrites, FlightInv, Leading, blobVars
  <2>4. ScanInv'
    BY <1>9 DEF ChecksumOpen, IInv, ScanInv, blobVars, sweepVars
  <2>5. BackedInv'
    BY <1>c, <1>9 DEF ChecksumOpen, IInv, TypeOK, BackedInv, FlightInv, Leading, Published,
       FreshReferenceIsBacked, blobVars, rowVars
  <2>6. GateInv'
    BY <1>c, <1>9 DEF ChecksumOpen, IInv, TypeOK, GateInv, BackedInv, FlightInv, ScanInv, 
       RenameNeverOverwrites, Gates, Leading, Published, rowVars, sweepVars
  <2>7. QED
    BY <1>0, <2>1, <2>2, <2>3, <2>4, <2>5, <2>6 DEF IInv
<1>10. CASE ChecksumLedger(u)
  <2>1. FlightInv' /\ ViaInv'
    BY <1>c, <1>10 DEF ChecksumLedger, Returns, IInv, TypeOK, FlightInv, ViaInv, Leading
  <2>2. CountInv' /\ TimelyInv'
    <3>1. \A s \in Sha : Holders(s)' \subseteq Holders(s)
      BY <1>c, <1>10 DEF ChecksumLedger, Returns, IInv, TypeOK, ViaInv, Holders, InCommit
    <3>2. UNCHANGED <<count, expired>>
      BY <1>10 DEF ChecksumLedger, holdVars
    <3>3. QED
      BY <3>1, <3>2, HoldsKept
  <2>3. RenameNeverOverwrites'
    BY <1>c, <1>10 DEF ChecksumLedger, Returns, IInv, TypeOK, RenameNeverOverwrites, FlightInv, Leading, blobVars
  <2>4. ScanInv'
    BY <1>10 DEF ChecksumLedger, IInv, ScanInv, blobVars, sweepVars
  <2>5. BackedInv'
    BY <1>c, <1>10 DEF ChecksumLedger, Returns, IInv, TypeOK, ViaInv, BackedInv, FlightInv, Leading, Published,
       FreshReferenceIsBacked, blobVars, rowVars
  <2>6. GateInv'
    BY <1>c, <1>10 DEF ChecksumLedger, Returns, IInv, TypeOK, ViaInv, GateInv, BackedInv, FlightInv, ScanInv, 
       RenameNeverOverwrites, Gates, Leading, Published, rowVars, sweepVars
  <2>7. QED
    BY <1>0, <2>1, <2>2, <2>3, <2>4, <2>5, <2>6 DEF IInv
<1>11. CASE LandingFails(u)
  <2>1. FlightInv' /\ ViaInv'
    BY <1>c, <1>11 DEF LandingFails, Returns, IInv, TypeOK, FlightInv, ViaInv, Leading
  <2>2. CountInv' /\ TimelyInv'
    <3>1. \A s \in Sha : Holders(s)' \subseteq Holders(s)
      BY <1>c, <1>11 DEF LandingFails, Returns, IInv, TypeOK, Holders, InCommit
    <3>2. UNCHANGED <<count, expired>>
      BY <1>11 DEF LandingFails, holdVars
    <3>3. QED
      BY <3>1, <3>2, HoldsKept
  <2>3. RenameNeverOverwrites'
    BY <1>c, <1>11 DEF LandingFails, Returns, IInv, TypeOK, RenameNeverOverwrites, FlightInv, Leading, blobVars
  <2>4. ScanInv'
    BY <1>11 DEF LandingFails, IInv, ScanInv, blobVars, sweepVars
  <2>5. BackedInv'
    BY <1>c, <1>11 DEF LandingFails, Returns, IInv, TypeOK, BackedInv, FlightInv, Leading, Published,
       FreshReferenceIsBacked, blobVars, rowVars
  <2>6. GateInv'
    BY <1>c, <1>11 DEF LandingFails, Returns, IInv, TypeOK, GateInv, BackedInv, FlightInv, ScanInv, 
       RenameNeverOverwrites, Gates, Leading, Published, rowVars, sweepVars
  <2>7. QED
    BY <1>0, <2>1, <2>2, <2>3, <2>4, <2>5, <2>6 DEF IInv
<1>12. CASE LedgerPut(u)
  <2>1. FlightInv' /\ ViaInv'
    BY <1>c, <1>12 DEF LedgerPut, IInv, TypeOK, FlightInv, ViaInv, Leading
  <2>2. CountInv' /\ TimelyInv'
    <3>1. \A s \in Sha : Holders(s)' \subseteq Holders(s)
      BY <1>c, <1>12 DEF LedgerPut, IInv, TypeOK, Holders, InCommit
    <3>2. UNCHANGED <<count, expired>>
      BY <1>12 DEF LedgerPut, holdVars
    <3>3. QED
      BY <3>1, <3>2, HoldsKept
  <2>3. RenameNeverOverwrites'
    BY <1>c, <1>12 DEF LedgerPut, IInv, TypeOK, RenameNeverOverwrites, FlightInv, Leading, blobVars
  <2>4. ScanInv'
    BY <1>12 DEF LedgerPut, IInv, ScanInv, blobVars, sweepVars
  <2>5. BackedInv'
    BY <1>c, <1>12 DEF LedgerPut, IInv, TypeOK, BackedInv, FlightInv, Leading, Published,
       FreshReferenceIsBacked, blobVars, rowVars
  <2>6. GateInv'
    BY <1>c, <1>12 DEF LedgerPut, IInv, TypeOK, GateInv, BackedInv, FlightInv, ScanInv, 
       RenameNeverOverwrites, Gates, Leading, Published, rowVars, sweepVars
  <2>7. QED
    BY <1>0, <2>1, <2>2, <2>3, <2>4, <2>5, <2>6 DEF IInv
<1>13. CASE NodePut(u)
  <2>1. FlightInv' /\ ViaInv'
    BY <1>c, <1>13 DEF NodePut, Returns, IInv, TypeOK, FlightInv, ViaInv, Leading
  <2>2. CountInv' /\ TimelyInv'
    <3>1. \A s \in Sha : Holders(s)' \subseteq Holders(s)
      BY <1>c, <1>13 DEF NodePut, Returns, IInv, TypeOK, Holders, InCommit
    <3>2. UNCHANGED <<count, expired>>
      BY <1>13 DEF NodePut, holdVars
    <3>3. QED
      BY <3>1, <3>2, HoldsKept
  <2>3. RenameNeverOverwrites'
    BY <1>c, <1>13 DEF NodePut, Returns, IInv, TypeOK, RenameNeverOverwrites, FlightInv, Leading, blobVars
  <2>4. ScanInv'
    BY <1>13 DEF NodePut, IInv, ScanInv, blobVars, sweepVars
  <2> DEFINE p == Target[u]
               s == Content[u]
  <2>a. /\ p \in Paths /\ s \in Sha
        /\ nodes' = [nodes EXCEPT ![p] = s]
        /\ \A q \in Paths : q # p => fresh'[q] = fresh[q]
        /\ fresh'[p] => Published(u) \/ (nodes[p] = s /\ fresh[p])
    BY <1>c, <1>13 DEF NodePut, Published, IInv, TypeOK
  <2>b. \A w \in Uploads : Published(w)' => Published(w)
    BY <1>c, <1>13 DEF NodePut, Returns, IInv, TypeOK, Published
  <2>c. UNCHANGED <<disk, sweep, cur>>
    BY <1>13 DEF NodePut, blobVars, sweepVars
  <2>5. BackedInv'
    BY <2>a, <2>b, <2>c DEF IInv, TypeOK, BackedInv, FreshReferenceIsBacked
  <2>6. GateInv'
    BY <2>a, <2>b, <2>c DEF IInv, TypeOK, GateInv
  <2>7. QED
    BY <1>0, <2>1, <2>2, <2>3, <2>4, <2>5, <2>6 DEF IInv
<1>14. CASE ReleaseGCHold(u)
  <2>1. FlightInv' /\ ViaInv'
    BY <1>c, <1>14 DEF ReleaseGCHold, Returns, IInv, TypeOK, FlightInv, ViaInv, Leading
  <2>2. CountInv' /\ TimelyInv'
    <3>1. \A s \in Sha : Holders(s)' \subseteq Holders(s) \ {u}
      BY <1>c, <1>14 DEF ReleaseGCHold, Returns, IInv, TypeOK, Holders, InCommit
    <3>2. u \in Holders(Content[u])
      BY <1>c, <1>14 DEF ReleaseGCHold, IInv, ViaInv, Holders, InCommit
    <3>3. QED
      BY <1>14, <3>1, <3>2, HoldReleased DEF ReleaseGCHold, giveBack
  <2>3. RenameNeverOverwrites'
    BY <1>c, <1>14 DEF ReleaseGCHold, Returns, IInv, TypeOK, RenameNeverOverwrites, FlightInv, Leading, blobVars
  <2>4. ScanInv'
    BY <1>14 DEF ReleaseGCHold, IInv, ScanInv, blobVars, sweepVars
  <2>5. BackedInv'
    BY <1>c, <1>14 DEF ReleaseGCHold, Returns, IInv, TypeOK, BackedInv, FlightInv, Leading, Published,
       FreshReferenceIsBacked, blobVars, rowVars
  <2>6. GateInv'
    BY <1>c, <1>14 DEF ReleaseGCHold, Returns, IInv, TypeOK, GateInv, BackedInv, FlightInv, ScanInv, 
       RenameNeverOverwrites, Gates, Leading, Published, rowVars, sweepVars
  <2>7. QED
    BY <1>0, <2>1, <2>2, <2>3, <2>4, <2>5, <2>6 DEF IInv
<1>15. QED
  BY <1>1, <1>2, <1>3, <1>4, <1>5, <1>6, <1>7, <1>8, <1>9, <1>10, <1>11, <1>12, <1>13, <1>14 DEF UploadStep

\* A step that touches neither uploads nor the disk keeps their part of the invariant.
LEMMA UploadsKept ==
  ASSUME IInv, UNCHANGED upVars
  PROVE  /\ FlightInv' /\ ViaInv'
         /\ \A s \in Sha : Holders(s)' = Holders(s)
         /\ \A u \in Uploads : Published(u)' = Published(u)
  BY DEF IInv, FlightInv, ViaInv, Holders, Published, upVars

LEMMA InvSweepStep ==
  ASSUME IInv, SweepStep
  PROVE  IInv'
<1>0. TypeOK'
  BY TypeSweepStep DEF IInv
<1> USE DEF IInv
<1>1. ASSUME NEW d \in Shards, ListShard(d) PROVE IInv'
  <2>1. UNCHANGED upVars /\ UNCHANGED <<nodes, fresh>>
    BY <1>1 DEF ListShard, rowVars
  <2>2. CountInv' /\ TimelyInv'
    BY <1>1, <2>1, UploadsKept, HoldsKept DEF ListShard, holdVars
  <2>3. RenameNeverOverwrites'
    BY <1>1, <2>1 DEF ListShard, RenameNeverOverwrites, upVars, blobVars
  <2>4. ScanInv'
    BY <1>1 DEF ListShard, ScanInv, TypeOK, Gates, blobVars
  <2>5. BackedInv'
    BY <1>1, <2>1, UploadsKept DEF ListShard, BackedInv, FreshReferenceIsBacked, blobVars
  <2>6. GateInv'
    BY <1>1, <2>1, UploadsKept DEF ListShard, GateInv
  <2>7. QED
    BY <1>0, <2>1, <2>2, <2>3, <2>4, <2>5, <2>6, UploadsKept
<1>2. ASSUME NEW d \in Shards, ListShardFails(d) PROVE IInv'
  <2>1. UNCHANGED upVars /\ UNCHANGED <<nodes, fresh>>
    BY <1>2 DEF ListShardFails, rowVars
  <2>2. CountInv' /\ TimelyInv'
    BY <1>2, <2>1, UploadsKept, HoldsKept DEF ListShardFails, holdVars
  <2>3. RenameNeverOverwrites'
    BY <1>2, <2>1 DEF ListShardFails, RenameNeverOverwrites, upVars, blobVars
  <2>4. ScanInv'
    BY <1>2 DEF ListShardFails, ScanInv, TypeOK, Gates, blobVars
  <2>5. BackedInv'
    BY <1>2, <2>1, UploadsKept DEF ListShardFails, BackedInv, FreshReferenceIsBacked, blobVars
  <2>6. GateInv'
    BY <1>2, <2>1, UploadsKept DEF ListShardFails, GateInv
  <2>7. QED
    BY <1>0, <2>1, <2>2, <2>3, <2>4, <2>5, <2>6, UploadsKept
<1>3. ASSUME NEW s \in Sha, Examine(s) PROVE IInv'
  <2>1. UNCHANGED upVars /\ UNCHANGED <<nodes, fresh>>
    BY <1>3 DEF Examine, rowVars
  <2>2. CountInv' /\ TimelyInv'
    <3>1. CASE s \in refs
      BY <1>3, <2>1, <3>1, UploadsKept, HoldsKept DEF Examine
    <3>2. CASE s \notin refs
      BY <1>3, <2>1, <3>2, HoldPurged DEF Examine, upVars
    <3>3. QED
      BY <3>1, <3>2
  <2>3. RenameNeverOverwrites'
    BY <1>3, <2>1 DEF Examine, RenameNeverOverwrites, upVars, blobVars
  <2>4. ScanInv'
    BY <1>3 DEF Examine, ScanInv, TypeOK, Gates, blobVars
  <2>5. BackedInv'
    BY <1>3, <2>1, UploadsKept DEF Examine, BackedInv, FreshReferenceIsBacked, blobVars
  <2>6. GateInv'
    BY <1>3, <2>1, UploadsKept DEF Examine, GateInv
  <2>7. QED
    BY <1>0, <2>1, <2>2, <2>3, <2>4, <2>5, <2>6, UploadsKept
<1>4. ASSUME NEW s \in Sha, ExamineFails(s) PROVE IInv'
  <2>1. UNCHANGED upVars /\ UNCHANGED <<nodes, fresh>>
    BY <1>4 DEF ExamineFails, rowVars
  <2>2. CountInv' /\ TimelyInv'
    BY <1>4, <2>1, HoldPurged DEF ExamineFails, upVars
  <2>3. RenameNeverOverwrites'
    BY <1>4, <2>1 DEF ExamineFails, RenameNeverOverwrites, upVars, blobVars
  <2>4. ScanInv'
    BY <1>4 DEF ExamineFails, ScanInv, TypeOK, Gates, blobVars
  <2>5. BackedInv'
    BY <1>4, <2>1, UploadsKept DEF ExamineFails, BackedInv, FreshReferenceIsBacked, blobVars
  <2>6. GateInv'
    BY <1>4, <2>1, UploadsKept DEF ExamineFails, GateInv
  <2>7. QED
    BY <1>0, <2>1, <2>2, <2>3, <2>4, <2>5, <2>6, UploadsKept
<1>5. ASSUME NEW s \in Sha, DropLedgerRow(s) PROVE IInv'
  <2>1. UNCHANGED upVars /\ UNCHANGED <<nodes, fresh>>
    BY <1>5 DEF DropLedgerRow, rowVars
  <2>2. CountInv' /\ TimelyInv'
    BY <1>5, <2>1, UploadsKept, HoldsKept DEF DropLedgerRow, holdVars
  <2>3. RenameNeverOverwrites'
    BY <1>5, <2>1 DEF DropLedgerRow, RenameNeverOverwrites, upVars, blobVars
  <2>4. ScanInv'
    BY <1>5 DEF DropLedgerRow, ScanInv, TypeOK, Gates, blobVars
  <2>5. BackedInv'
    BY <1>5, <2>1, UploadsKept DEF DropLedgerRow, BackedInv, FreshReferenceIsBacked, blobVars
  <2>6. GateInv'
    BY <1>5, <2>1, UploadsKept DEF DropLedgerRow, GateInv
  <2>7. QED
    BY <1>0, <2>1, <2>2, <2>3, <2>4, <2>5, <2>6, UploadsKept
<1>6. CASE GateHold
  <2>1. UNCHANGED upVars /\ UNCHANGED <<nodes, fresh>>
    BY <1>6 DEF GateHold, rowVars
  <2>2. CountInv' /\ TimelyInv'
    BY <1>6, <2>1, HoldPurged DEF GateHold, upVars, TypeOK, Gates
  <2>3. RenameNeverOverwrites'
    BY <1>6, <2>1 DEF GateHold, RenameNeverOverwrites, upVars, blobVars
  <2>4. ScanInv'
    BY <1>6 DEF GateHold, ScanInv, TypeOK, Gates, blobVars
  <2>5. BackedInv'
    BY <1>6, <2>1, UploadsKept DEF GateHold, BackedInv, FreshReferenceIsBacked, blobVars
  <2>6. GateInv'
    <3>1. SUFFICES ASSUME sweep' = "liveGate", NEW u \in Uploads, Published(u), Content[u] = cur
                   PROVE  FALSE
      BY <1>6, <2>1, UploadsKept DEF GateHold, GateInv
    <3>2. cur \in Sha /\ ~held(cur)
      BY <1>6, <3>1 DEF GateHold, TypeOK, Gates
    <3>3. QED
      BY <3>1, <3>2, PublishedHolds, HolderIsHeld
  <2>7. QED
    BY <1>0, <2>1, <2>2, <2>3, <2>4, <2>5, <2>6, UploadsKept
<1>7. CASE GateLive
  <2>1. UNCHANGED upVars /\ UNCHANGED <<nodes, fresh>>
    BY <1>7 DEF GateLive, rowVars
  <2>2. CountInv' /\ TimelyInv'
    BY <1>7, <2>1, UploadsKept, HoldsKept DEF GateLive, holdVars
  <2>3. RenameNeverOverwrites'
    BY <1>7, <2>1 DEF GateLive, RenameNeverOverwrites, upVars, blobVars
  <2>4. ScanInv'
    BY <1>7 DEF GateLive, ScanInv, TypeOK, Gates, blobVars
  <2>5. BackedInv'
    BY <1>7, <2>1, UploadsKept DEF GateLive, BackedInv, FreshReferenceIsBacked, blobVars
  <2>6. GateInv'
    BY <1>7, <2>1, UploadsKept DEF GateLive, GateInv, Referenced, TypeOK, Gates
  <2>7. QED
    BY <1>0, <2>1, <2>2, <2>3, <2>4, <2>5, <2>6, UploadsKept
<1>8. CASE Unlink
  <2>1. UNCHANGED upVars /\ UNCHANGED <<nodes, fresh>>
    BY <1>8 DEF Unlink, rowVars
  <2>2. CountInv' /\ TimelyInv'
    BY <1>8, <2>1, UploadsKept, HoldsKept DEF Unlink, holdVars
  <2>3. RenameNeverOverwrites'
    BY <1>8, <2>1 DEF Unlink, RenameNeverOverwrites, upVars, blobVars
  <2>4. ScanInv'
    BY <1>8 DEF Unlink, ScanInv, TypeOK, Gates, blobVars
  <2>5. BackedInv'
    BY <1>8, <2>1, UploadsKept DEF Unlink, BackedInv, GateInv, TypeOK, FreshReferenceIsBacked, blobVars
  <2>6. GateInv'
    BY <1>8, <2>1, UploadsKept DEF Unlink, GateInv
  <2>7. QED
    BY <1>0, <2>1, <2>2, <2>3, <2>4, <2>5, <2>6, UploadsKept
<1>9. CASE GateFails
  <2>1. UNCHANGED upVars /\ UNCHANGED <<nodes, fresh>>
    BY <1>9 DEF GateFails, rowVars
  <2>2. CountInv' /\ TimelyInv'
    BY <1>9, <2>1, UploadsKept, HoldsKept DEF GateFails, holdVars
  <2>3. RenameNeverOverwrites'
    BY <1>9, <2>1 DEF GateFails, RenameNeverOverwrites, upVars, blobVars
  <2>4. ScanInv'
    BY <1>9 DEF GateFails, ScanInv, TypeOK, Gates, blobVars
  <2>5. BackedInv'
    BY <1>9, <2>1, UploadsKept DEF GateFails, BackedInv, GateInv, TypeOK, FreshReferenceIsBacked, blobVars
  <2>6. GateInv'
    BY <1>9, <2>1, UploadsKept DEF GateFails, GateInv
  <2>7. QED
    BY <1>0, <2>1, <2>2, <2>3, <2>4, <2>5, <2>6, UploadsKept
<1>10. CASE SweepReturns
  <2>1. UNCHANGED upVars /\ UNCHANGED <<nodes, fresh>>
    BY <1>10 DEF SweepReturns, rowVars
  <2>2. CountInv' /\ TimelyInv'
    BY <1>10, <2>1, UploadsKept, HoldsKept DEF SweepReturns, holdVars
  <2>3. RenameNeverOverwrites'
    BY <1>10, <2>1 DEF SweepReturns, RenameNeverOverwrites, upVars, blobVars
  <2>4. ScanInv'
    BY <1>10 DEF SweepReturns, EndRun, ScanInv, TypeOK, Gates, blobVars
  <2>5. BackedInv'
    BY <1>10, <2>1, UploadsKept DEF SweepReturns, BackedInv, FreshReferenceIsBacked, blobVars
  <2>6. GateInv'
    BY <1>10, <2>1, UploadsKept DEF SweepReturns, EndRun, GateInv
  <2>7. QED
    BY <1>0, <2>1, <2>2, <2>3, <2>4, <2>5, <2>6, UploadsKept
<1>11. CASE TeardownDone
  <2>1. UNCHANGED upVars /\ UNCHANGED <<nodes, fresh>>
    BY <1>11 DEF TeardownDone, rowVars
  <2>2. CountInv' /\ TimelyInv'
    BY <1>11, <2>1, UploadsKept, HoldsKept DEF TeardownDone, holdVars
  <2>3. RenameNeverOverwrites'
    BY <1>11, <2>1 DEF TeardownDone, RenameNeverOverwrites, upVars, blobVars
  <2>4. ScanInv'
    BY <1>11 DEF TeardownDone, EndRun, ScanInv, TypeOK, Gates, blobVars
  <2>5. BackedInv'
    BY <1>11, <2>1, UploadsKept DEF TeardownDone, BackedInv, FreshReferenceIsBacked, blobVars
  <2>6. GateInv'
    BY <1>11, <2>1, UploadsKept DEF TeardownDone, EndRun, GateInv
  <2>7. QED
    BY <1>0, <2>1, <2>2, <2>3, <2>4, <2>5, <2>6, UploadsKept
<1>12. CASE SweepCancelled
  <2>1. UNCHANGED upVars /\ UNCHANGED <<nodes, fresh>>
    BY <1>12 DEF SweepCancelled, rowVars
  <2>2. CountInv' /\ TimelyInv'
    BY <1>12, <2>1, UploadsKept, HoldsKept DEF SweepCancelled, holdVars
  <2>3. RenameNeverOverwrites'
    BY <1>12, <2>1 DEF SweepCancelled, RenameNeverOverwrites, upVars, blobVars
  <2>4. ScanInv'
    BY <1>12 DEF SweepCancelled, ScanInv, TypeOK, Gates, blobVars
  <2>5. BackedInv'
    BY <1>12, <2>1, UploadsKept DEF SweepCancelled, BackedInv, FreshReferenceIsBacked, blobVars
  <2>6. GateInv'
    BY <1>12, <2>1, UploadsKept DEF SweepCancelled, GateInv
  <2>7. QED
    BY <1>0, <2>1, <2>2, <2>3, <2>4, <2>5, <2>6, UploadsKept
<1>13. QED
  BY <1>1, <1>2, <1>3, <1>4, <1>5, <1>6, <1>7, <1>8, <1>9, <1>10, <1>11, <1>12 DEF SweepStep

LEMMA InvNext ==
  ASSUME IInv, TimelyNext
  PROVE  IInv'
<1>0. TypeOK'
  BY TypeNext DEF IInv, TimelyNext, TimelyHoldExpires, Next
<1> USE DEF IInv
<1>1. ASSUME NEW p \in Paths, DeleteNode(p) PROVE IInv'
  <2>1. UNCHANGED upVars /\ UNCHANGED <<holdVars, blobVars, sweepVars>>
    BY <1>1 DEF DeleteNode
  <2>2. CountInv' /\ TimelyInv'
    BY <2>1, UploadsKept, HoldsKept DEF holdVars
  <2>3. RenameNeverOverwrites' /\ ScanInv'
    BY <2>1 DEF RenameNeverOverwrites, ScanInv, upVars, blobVars, sweepVars
  <2>4. \A q \in Paths : fresh'[q] => fresh[q] /\ nodes'[q] = nodes[q]
    BY <1>1 DEF DeleteNode, TypeOK
  <2>5. BackedInv' /\ GateInv'
    BY <2>1, <2>4, UploadsKept DEF BackedInv, FreshReferenceIsBacked, GateInv, blobVars, sweepVars
  <2>6. QED
    BY <1>0, <2>1, <2>2, <2>3, <2>5, UploadsKept
<1>2. ASSUME NEW m \in Modes, StartSweep(m) PROVE IInv'
  <2>1. UNCHANGED upVars /\ UNCHANGED <<holdVars, blobVars, rowVars, pending>> /\ sweep' = "scan"
    BY <1>2 DEF StartSweep
  <2>2. CountInv' /\ TimelyInv'
    BY <2>1, UploadsKept, HoldsKept DEF holdVars
  <2>3. RenameNeverOverwrites' /\ ScanInv'
    BY <2>1 DEF RenameNeverOverwrites, ScanInv, Gates, upVars, blobVars
  <2>4. BackedInv' /\ GateInv'
    BY <2>1, UploadsKept DEF BackedInv, FreshReferenceIsBacked, GateInv, blobVars, rowVars
  <2>5. QED
    BY <1>0, <2>1, <2>2, <2>3, <2>4, UploadsKept
<1>3. ASSUME NEW s \in Sha, BlobAges(s) PROVE IInv'
  <2>1. UNCHANGED upVars /\ UNCHANGED <<holdVars, disk, rowVars, sweepVars>>
    BY <1>3 DEF BlobAges
  <2>2. CountInv' /\ TimelyInv'
    BY <2>1, UploadsKept, HoldsKept DEF holdVars
  <2>3. RenameNeverOverwrites' /\ ScanInv'
    BY <2>1 DEF RenameNeverOverwrites, ScanInv, upVars, sweepVars
  <2>4. BackedInv' /\ GateInv'
    BY <2>1, UploadsKept DEF BackedInv, FreshReferenceIsBacked, GateInv, rowVars, sweepVars
  <2>5. QED
    BY <1>0, <2>1, <2>2, <2>3, <2>4, UploadsKept
<1>4. CASE Crash
  <2>1. \A u \in Uploads : pc'[u] \in {"idle", "done"} /\ ~Published(u)'
    BY <1>4 DEF Crash, Published
  <2>2. /\ \A s \in Sha : Holders(s)' = {} /\ flight'[s] = NoUpload /\ count'[s] = 0
        /\ sweep' = "off" /\ pending' = {}
        /\ UNCHANGED <<disk, nodes, fresh>>
    BY <1>4, <2>1 DEF Crash, EndRun, Holders, InCommit, blobVars, rowVars
  <2>3. CountInv' /\ TimelyInv'
    <3>1. \A s \in Sha : Cardinality(Holders(s)') = 0
      BY <2>2, FS_EmptySet
    <3>2. QED
      BY <2>2, <3>1 DEF CountInv, TimelyInv
  <2>4. FlightInv' /\ ViaInv' /\ RenameNeverOverwrites' /\ ScanInv'
    BY <2>1, <2>2 DEF FlightInv, ViaInv, Leading, RenameNeverOverwrites, ScanInv, Gates
  <2>5. BackedInv' /\ GateInv'
    BY <2>1, <2>2 DEF BackedInv, FreshReferenceIsBacked, GateInv
  <2>6. QED
    BY <1>0, <2>3, <2>4, <2>5
<1>5. ASSUME NEW s \in Sha, TimelyHoldExpires(s) PROVE IInv'
  <2>1. /\ UNCHANGED upVars /\ UNCHANGED <<count, blobVars, rowVars, sweepVars>>
        /\ Holders(s) = {} /\ expired' = [expired EXCEPT ![s] = TRUE]
    BY <1>5 DEF TimelyHoldExpires, HoldExpires
  <2>2. CountInv'
    BY <2>1, UploadsKept DEF CountInv
  <2>3. TimelyInv'
    BY <2>1, UploadsKept DEF TimelyInv, TypeOK
  <2>4. RenameNeverOverwrites' /\ ScanInv'
    BY <2>1 DEF RenameNeverOverwrites, ScanInv, upVars, blobVars, sweepVars
  <2>5. BackedInv' /\ GateInv'
    BY <2>1, UploadsKept DEF BackedInv, FreshReferenceIsBacked, GateInv, blobVars, rowVars, sweepVars
  <2>6. QED
    BY <1>0, <2>1, <2>2, <2>3, <2>4, <2>5, UploadsKept
<1>6. QED
  BY <1>1, <1>2, <1>3, <1>4, <1>5, InvUploadStep, InvSweepStep DEF TimelyNext, System

\* The invariant holds in every reachable state, provided no upload outlives its hold.
THEOREM GCInvariant == TimelySpec => []IInv
<1>1. IInv /\ UNCHANGED vars => IInv'
  <2> SUFFICES ASSUME IInv, UNCHANGED vars PROVE IInv'
    OBVIOUS
  <2>1. UNCHANGED upVars
    BY DEF vars, upVars
  <2>2. TypeOK' /\ RenameNeverOverwrites' /\ ScanInv'
    BY DEF IInv, TypeOK, RenameNeverOverwrites, ScanInv, vars
  <2>3. CountInv' /\ TimelyInv'
    BY <2>1, UploadsKept, HoldsKept DEF vars
  <2>4. BackedInv' /\ GateInv'
    BY <2>1, UploadsKept DEF IInv, BackedInv, FreshReferenceIsBacked, GateInv, vars
  <2>5. QED
    BY <2>1, <2>2, <2>3, <2>4, UploadsKept DEF IInv
<1>2. QED
  BY <1>1, InvInit, InvNext, PTL DEF TimelySpec

\* A reference made by an upload that published its own blob never loses that blob to a
\* sweep: gcDeleteGate's order, the acquire before the rename and the release after the
\* node row together suffice, for any grace window.
THEOREM FreshReferencesAreSafe == TimelySpec => []FreshReferenceIsBacked
<1>1. IInv => FreshReferenceIsBacked
  BY DEF IInv, BackedInv
<1>2. QED
  BY <1>1, GCInvariant, PTL

\* The singleflight keeps the leader's stat true until its rename: a blob file is written
\* once and never replaced.
THEOREM BlobsAreWrittenOnce == TimelySpec => []RenameNeverOverwrites
<1>1. IInv => RenameNeverOverwrites
  BY DEF IInv
<1>2. QED
  BY <1>1, GCInvariant, PTL

-----------------------------------------------------------------------------
(* Uploads that outlive their hold: what the hold set promises without TimelySpec. *)

\* The holders whose own count is still in the entry.
Kept(s) == {u \in Holders(s) : ~lost[u]}

\* They are counted, and who relies on an expired entry was there when it expired.
KeptInv == \A s \in Sha : Cardinality(Kept(s)) <= count[s]
LateInv == \A s \in Sha : expired[s] => \A u \in Holders(s) : late[u]

HInv == TypeOK /\ ViaInv /\ KeptInv /\ LateInv

LEMMA KeptFinite ==
  ASSUME NEW s \in Sha
  PROVE  /\ IsFiniteSet(Kept(s))
         /\ Cardinality(Kept(s)) \in Nat
<1>1. Kept(s) \subseteq Uploads
  BY DEF Kept, Holders
<1>2. QED
  BY <1>1, UploadsFinite, FS_Subset, FS_CardinalityType

\* A step that leaves the hold set alone, adds no holder and forgets nothing about those left.
LEMMA LateKept ==
  ASSUME HInv, UNCHANGED <<count, expired>>,
         \A s \in Sha : Holders(s)' \subseteq Holders(s),
         \A s \in Sha : \A u \in Uploads : u \in Holders(s)' =>
             (lost[u] => lost'[u]) /\ (late[u] => late'[u])
  PROVE  KeptInv' /\ LateInv'
<1>1. ASSUME NEW s \in Sha PROVE Cardinality(Kept(s)') <= count'[s]
  <2>1. Kept(s)' \subseteq Kept(s)
    BY DEF Kept, Holders
  <2>2. count[s] \in Nat /\ Cardinality(Kept(s)) <= count[s]
    BY DEF HInv, TypeOK, KeptInv
  <2>3. QED
    BY <2>1, <2>2, KeptFinite, FewerHolders
<1>2. LateInv'
  BY DEF HInv, LateInv, Holders
<1>3. QED
  BY <1>1, <1>2 DEF KeptInv

LEMMA LateAcquire ==
  ASSUME HInv, NEW u \in Uploads, CommitAcquire(u)
  PROVE  KeptInv' /\ LateInv'
<1>0. Content[u] \in Sha
  BY ConstantTypes
<1>1. ASSUME NEW s \in Sha PROVE Cardinality(Kept(s)') <= count'[s]
  <2>0. IsFiniteSet(Kept(s)) /\ count[s] \in Nat /\ Cardinality(Kept(s)) <= count[s]
    BY KeptFinite DEF HInv, TypeOK, KeptInv
  <2>1. CASE s = Content[u]
    <3>1. count'[s] = count[s] + 1
      BY <1>0, <2>1 DEF CommitAcquire, acquire, HInv, TypeOK
    <3>2. Kept(s)' \subseteq Kept(s) \cup {u}
      BY <1>0, <2>1 DEF CommitAcquire, HInv, TypeOK, Kept, Holders, InCommit
    <3>3. Cardinality(Kept(s)') <= count[s] + 1
      BY <2>0, <3>2, OneMoreHolder
    <3>4. QED
      BY <3>1, <3>3
  <2>2. CASE s # Content[u]
    <3>1. count'[s] = count[s]
      BY <1>0, <2>2 DEF CommitAcquire, acquire, HInv, TypeOK
    <3>2. Kept(s)' \subseteq Kept(s)
      BY <1>0, <2>2 DEF CommitAcquire, HInv, TypeOK, Kept, Holders, InCommit
    <3>3. QED
      BY <2>0, <3>1, <3>2, FewerHolders
  <2>3. QED
    BY <2>1, <2>2
<1>2. ASSUME NEW s \in Sha, expired'[s], NEW w \in Holders(s)' PROVE late'[w]
  <2>1. s # Content[u] /\ expired[s]
    BY <1>0, <1>2 DEF CommitAcquire, acquire, HInv, TypeOK
  <2>2. w \in Holders(s)
    BY <1>0, <1>2, <2>1 DEF CommitAcquire, HInv, TypeOK, Holders, InCommit
  <2>3. QED
    BY <2>1, <2>2 DEF CommitAcquire, HInv, LateInv
<1>3. QED
  BY <1>1, <1>2 DEF KeptInv, LateInv

\* A release by an upload whose count is still there takes that one; any other takes a count
\* away from holders that are all marked for it.
LEMMA LateGiveBack ==
  ASSUME HInv, NEW u \in Uploads, u \in Holders(Content[u]), giveBack(u),
         pc' = [pc EXCEPT ![u] = "done"],
         via' = [via EXCEPT ![u] = "none"], late' = [late EXCEPT ![u] = FALSE]
  PROVE  KeptInv' /\ LateInv'
<1>0. Content[u] \in Sha
  BY ConstantTypes
<1>h. \A s \in Sha : \A w \in Holders(s)' : w \in Holders(s) /\ w # u
  BY DEF HInv, TypeOK, Holders, InCommit
<1>1. ASSUME NEW s \in Sha PROVE Cardinality(Kept(s)') <= count'[s]
  <2>0. IsFiniteSet(Kept(s)) /\ count[s] \in Nat /\ Cardinality(Kept(s)) <= count[s]
    BY KeptFinite DEF HInv, TypeOK, KeptInv
  <2>1. CASE s = Content[u] /\ ~lost[u]
    <3>1. u \in Kept(s) /\ Kept(s)' \subseteq Kept(s) \ {u}
      BY <1>h, <2>1 DEF Kept, giveBack, Holders
    <3>2. count[s] > 0 /\ Cardinality(Kept(s)') <= count[s] - 1
      BY <2>0, <3>1, OneHolderLess
    <3>3. count'[s] = count[s] - 1
      BY <1>0, <2>1, <3>2 DEF giveBack, release, HInv, TypeOK
    <3>4. QED
      BY <3>2, <3>3
  <2>2. CASE s = Content[u] /\ lost[u]
    <3>1. Kept(s)' = {}
      BY <1>h, <2>2 DEF Kept, giveBack, Holders
    <3>2. count'[s] \in Nat
      BY <1>0, <2>0, <2>2 DEF giveBack, release, HInv, TypeOK
    <3>3. QED
      BY <3>1, <3>2, FS_EmptySet
  <2>3. CASE s # Content[u]
    <3>1. count'[s] = count[s]
      BY <1>0, <2>3 DEF giveBack, release, HInv, TypeOK
    <3>2. Kept(s)' \subseteq Kept(s)
      BY <1>h, <2>3 DEF Kept, giveBack, Holders
    <3>3. QED
      BY <2>0, <3>1, <3>2, FewerHolders
  <2>4. QED
    BY <2>1, <2>2, <2>3
<1>2. ASSUME NEW s \in Sha, expired'[s], NEW w \in Holders(s)' PROVE late'[w]
  <2>1. expired[s]
    BY <1>0, <1>2 DEF giveBack, release, HInv, TypeOK
  <2>2. w \in Holders(s) /\ w # u /\ w \in Uploads
    BY <1>2, <1>h DEF Holders
  <2>3. QED
    BY <2>1, <2>2 DEF HInv, LateInv, TypeOK
<1>3. QED
  BY <1>1, <1>2 DEF KeptInv, LateInv

LEMMA LatePurged ==
  ASSUME HInv, NEW x \in Sha, purge(x), UNCHANGED <<pc, via, late>>
  PROVE  KeptInv' /\ LateInv'
<1>0. \A s \in Sha : Holders(s)' = Holders(s)
  BY DEF Holders
<1>1. ASSUME NEW s \in Sha PROVE Cardinality(Kept(s)') <= count'[s]
  <2>1. CASE s = x /\ expired[x]
    <3>1. Kept(s)' = {} /\ count'[s] = 0
      BY <1>0, <2>1 DEF purge, Kept, Holders, HInv, TypeOK
    <3>2. QED
      BY <3>1, FS_EmptySet
  <2>2. CASE ~(s = x /\ expired[x])
    <3>1. count'[s] = count[s] /\ count[s] \in Nat /\ Cardinality(Kept(s)) <= count[s]
      BY <2>2 DEF purge, HInv, TypeOK, KeptInv
    <3>2. Kept(s)' \subseteq Kept(s)
      BY <1>0 DEF purge, Kept, Holders
    <3>3. QED
      BY <3>1, <3>2, KeptFinite, FewerHolders
  <2>3. QED
    BY <2>1, <2>2
<1>2. LateInv'
  BY <1>0 DEF purge, HInv, TypeOK, LateInv
<1>3. QED
  BY <1>1, <1>2 DEF KeptInv

LEMMA LateUploadStep ==
  ASSUME HInv, NEW u \in Uploads, UploadStep(u)
  PROVE  ViaInv' /\ KeptInv' /\ LateInv'
<1>0. /\ TypeOK /\ ViaInv
      /\ Content \in [Uploads -> Sha]
  BY ConstantTypes DEF HInv
<1>1. CASE CommitAcquire(u)
  BY <1>0, <1>1, LateAcquire DEF CommitAcquire, ViaInv, TypeOK
<1>2. CASE CommitFailed(u)
  <2>1. ViaInv'
    BY <1>0, <1>2 DEF CommitFailed, Returns, ViaInv, TypeOK
  <2>2. u \in Holders(Content[u])
    BY <1>2 DEF CommitFailed, Holders, InCommit
  <2>3. QED
    BY <1>2, <2>1, <2>2, LateGiveBack DEF CommitFailed, Returns
<1>3. CASE ReleaseGCHold(u)
  <2>1. ViaInv'
    BY <1>0, <1>3 DEF ReleaseGCHold, Returns, ViaInv, TypeOK
  <2>2. u \in Holders(Content[u])
    BY <1>0, <1>3 DEF ReleaseGCHold, ViaInv, Holders
  <2>3. QED
    BY <1>3, <2>1, <2>2, LateGiveBack DEF ReleaseGCHold, Returns
<1>4. CASE FsyncFails(u) \/ JoinFlight(u) \/ FlightRename(u) \/ LedgerPut(u)
  <2>1. ViaInv' /\ UNCHANGED <<count, expired, late, lost>>
    BY <1>0, <1>4 DEF FsyncFails, JoinFlight, FlightRename, LedgerPut, holdVars, ViaInv, TypeOK
  <2>2. \A s \in Sha : Holders(s)' \subseteq Holders(s)
    BY <1>0, <1>4 DEF FsyncFails, JoinFlight, FlightRename, LedgerPut, Holders, InCommit, TypeOK
  <2>3. QED
    BY <2>1, <2>2, LateKept
<1>5. CASE FlightStat(u) \/ FlightSyncDir(u) \/ FlightFails(u)
  <2>1. ViaInv' /\ UNCHANGED <<count, expired, late, lost>>
    BY <1>0, <1>5 DEF FlightStat, FlightSyncDir, FlightFails, FlightEnds, holdVars, ViaInv, TypeOK
  <2>2. \A s \in Sha : Holders(s)' \subseteq Holders(s)
    BY <1>0, <1>5 DEF FlightStat, FlightSyncDir, FlightFails, FlightEnds, Holders, InCommit, TypeOK
  <2>3. QED
    BY <2>1, <2>2, LateKept
<1>6. CASE ChecksumOpen(u) \/ ChecksumLedger(u) \/ LandingFails(u) \/ NodePut(u)
  <2>1. ViaInv' /\ UNCHANGED <<count, expired>>
    BY <1>0, <1>6 DEF ChecksumOpen, ChecksumLedger, LandingFails, NodePut, Returns, holdVars, ViaInv, TypeOK
  <2>2. /\ \A s \in Sha : Holders(s)' \subseteq Holders(s)
        /\ \A s \in Sha : \A w \in Uploads : w \in Holders(s)' =>
             (lost[w] => lost'[w]) /\ (late[w] => late'[w])
    <3>1. CASE ChecksumOpen(u)
      BY <1>0, <3>1 DEF ChecksumOpen, Holders, InCommit, TypeOK, ViaInv, holdVars
    <3>2. CASE ChecksumLedger(u)
      BY <1>0, <3>2 DEF ChecksumLedger, Returns, Holders, InCommit, TypeOK, ViaInv
    <3>3. CASE LandingFails(u)
      BY <1>0, <3>3 DEF LandingFails, Returns, Holders, InCommit, TypeOK, ViaInv
    <3>4. CASE NodePut(u)
      BY <1>0, <3>4 DEF NodePut, Returns, Holders, InCommit, TypeOK, ViaInv
    <3>5. QED
      BY <1>6, <3>1, <3>2, <3>3, <3>4
  <2>3. QED
    BY <2>1, <2>2, LateKept
<1>7. QED
  BY <1>1, <1>2, <1>3, <1>4, <1>5, <1>6 DEF UploadStep

LEMMA LateSweepStep ==
  ASSUME HInv, SweepStep
  PROVE  ViaInv' /\ KeptInv' /\ LateInv'
<1>1. UNCHANGED <<pc, via, late>>
  BY DEF SweepStep, ListShard, ListShardFails, Examine, ExamineFails, DropLedgerRow, GateHold, GateLive,
     Unlink, GateFails, SweepCancelled, SweepReturns, TeardownDone, upVars, holdVars
<1>2. ViaInv'
  BY <1>1 DEF HInv, ViaInv
<1>3. CASE UNCHANGED <<count, expired, lost>>
  BY <1>1, <1>2, <1>3, LateKept DEF Holders
<1>4. CASE \E x \in Sha : purge(x)
  BY <1>1, <1>2, <1>4, LatePurged
<1>5. UNCHANGED <<count, expired, lost>> \/ \E x \in Sha : purge(x)
  BY DEF SweepStep, ListShard, ListShardFails, Examine, ExamineFails, DropLedgerRow, GateHold, GateLive,
     Unlink, GateFails, SweepCancelled, SweepReturns, TeardownDone, holdVars, HInv, TypeOK, Gates
<1>6. QED
  BY <1>3, <1>4, <1>5

LEMMA LateNext ==
  ASSUME HInv, Next
  PROVE  HInv'
<1>0. TypeOK'
  BY TypeNext DEF HInv
<1>1. ASSUME NEW u \in Uploads, UploadStep(u) PROVE HInv'
  BY <1>0, <1>1, LateUploadStep DEF HInv
<1>2. CASE SweepStep
  BY <1>0, <1>2, LateSweepStep DEF HInv
<1>3. CASE \/ \E p \in Paths : DeleteNode(p)
           \/ \E m \in Modes : StartSweep(m)
           \/ \E s \in Sha : BlobAges(s)
  <2>1. UNCHANGED <<pc, via, count, expired, late, lost>>
    BY <1>3 DEF DeleteNode, StartSweep, BlobAges, upVars, holdVars
  <2>2. ViaInv' /\ KeptInv' /\ LateInv'
    BY <2>1, LateKept DEF HInv, ViaInv, Holders
  <2>3. QED
    BY <1>0, <2>2 DEF HInv
<1>4. CASE Crash
  <2>1. \A s \in Sha : Holders(s)' = {} /\ count'[s] = 0
    BY <1>4 DEF Crash, Holders, InCommit
  <2>2. \A s \in Sha : Kept(s)' = {}
    BY <2>1 DEF Kept
  <2>3. KeptInv' /\ LateInv'
    BY <2>1, <2>2, FS_EmptySet DEF KeptInv, LateInv
  <2>4. ViaInv'
    BY <1>4 DEF Crash, ViaInv
  <2>5. QED
    BY <1>0, <2>3, <2>4 DEF HInv
<1>5. ASSUME NEW x \in Sha, HoldExpires(x) PROVE HInv'
  <2>1. /\ UNCHANGED <<pc, via, count, lost>>
        /\ \A s \in Sha : Holders(s)' = Holders(s)
    BY <1>5 DEF HoldExpires, upVars, Holders
  <2>2. ViaInv' /\ KeptInv'
    BY <2>1 DEF HInv, ViaInv, KeptInv, Kept
  <2>3. LateInv'
    BY <1>5, <2>1 DEF HoldExpires, HInv, TypeOK, LateInv, Holders
  <2>4. QED
    BY <1>0, <2>2, <2>3 DEF HInv
<1>6. QED
  BY <1>1, <1>2, <1>3, <1>4, <1>5 DEF Next, System

\* Late uploads included: the refcount and the prolonged TTL protect every upload of a sha at
\* once, and a hold goes only with its own expiry or down the chain of releases that began
\* with an upload whose entry had been purged.
THEOREM HoldersAreProtected == Spec => []OnTimeHolderIsHeld
<1>1. Init => HInv
  <2> SUFFICES ASSUME Init PROVE HInv
    OBVIOUS
  <2>1. \A s \in Sha : Kept(s) = {} /\ Holders(s) = {} /\ count[s] = 0
    BY DEF Init, Kept, Holders, InCommit
  <2>2. KeptInv /\ LateInv
    BY <2>1, FS_EmptySet DEF KeptInv, LateInv
  <2>3. QED
    BY <2>2, TypeInit DEF Init, HInv, ViaInv
<1>2. HInv /\ UNCHANGED vars => HInv'
  <2> SUFFICES ASSUME HInv, UNCHANGED vars PROVE HInv'
    OBVIOUS
  <2>1. KeptInv' /\ LateInv'
    BY LateKept DEF vars, Holders
  <2>2. QED
    BY <2>1 DEF HInv, TypeOK, ViaInv, vars
<1>3. HInv => OnTimeHolderIsHeld
  <2> SUFFICES ASSUME HInv, NEW s \in Sha, NEW u \in Holders(s), ~late[u], ~lost[u]
               PROVE  held(s)
    BY DEF OnTimeHolderIsHeld
  <2>1. ~expired[s]
    BY DEF HInv, LateInv
  <2>2. Cardinality(Kept(s)) # 0
    BY KeptFinite, FS_EmptySet DEF Kept
  <2>3. count[s] > 0
    BY <2>2, KeptFinite DEF HInv, KeptInv, TypeOK
  <2>4. QED
    BY <2>1, <2>3 DEF held
<1>4. QED
  BY <1>1, <1>2, <1>3, LateNext, PTL DEF Spec
=============================================================================
