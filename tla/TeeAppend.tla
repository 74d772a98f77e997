------------------------------ MODULE TeeAppend -----------------------------
(***************************************************************************)
(* One Append of a dual-write session (internal/storage/migration.go,      *)
(* migrationSession.Append): the request's goroutine copies the body to    *)
(* the disk session through a tee, the tee feeds a pipe guarded by         *)
(* detachWriter's mutex, and a second goroutine appends the pipe's bytes   *)
(* to the S3 session.                                                      *)
(*                                                                         *)
(* A chunk is what one Read returns.  The pipe has no buffer: a write      *)
(* returns when its bytes were taken or the pipe was closed.  A flush is   *)
(* the upload of a part, which the S3 session does between two reads.      *)
(***************************************************************************)
EXTENDS Integers

CONSTANT Chunks \* chunks of the body

VARIABLES
    dpc,     \* the request's goroutine
    spc,     \* the S3 goroutine
    left,    \* chunks of the body not read yet
    offered, \* a chunk is in the pipe
    closed,  \* the pipe's writing end is closed
    mu,      \* detachWriter.mu is held by a write
    dead,    \* detachWriter.dead
    wrote,   \* chunks the disk session holds
    took,    \* chunks the S3 session holds
    diskErr, \* disk.Append failed
    armErr,  \* s3.Append failed
    kept     \* the session still has its S3 arm

diskVars == <<dpc, left, wrote, diskErr>>
armVars == <<spc, took, armErr>>
vars == <<diskVars, armVars, offered, closed, mu, dead, kept>>

Init ==
    /\ dpc = "read" /\ spc = "top"
    /\ left = Chunks
    /\ wrote = 0 /\ took = 0
    /\ offered = FALSE /\ closed = FALSE /\ mu = FALSE /\ dead = FALSE
    /\ diskErr = FALSE /\ armErr = FALSE
    /\ kept = TRUE

-----------------------------------------------------------------------------
(* The request: disk.Append(ctx, tee). *)

\* The tee reads the body before it writes the chunk on.
ReadBody ==
    /\ dpc = "read"
    /\ left > 0
    /\ left' = left - 1
    /\ dpc' = "feed"
    /\ UNCHANGED <<wrote, diskErr, armVars, offered, closed, mu, dead, kept>>

\* The body ends, or it breaks off, or the disk refuses the chunk.
EndOfBody ==
    /\ \/ dpc = "read" /\ left = 0 /\ UNCHANGED diskErr
       \/ dpc \in {"read", "write"} /\ diskErr' = TRUE
    /\ dpc' = "close"
    /\ UNCHANGED <<left, wrote, armVars, offered, closed, mu, dead, kept>>

\* detachWriter.Write: nothing once the arm is gone, else the pipe, with the mutex held.
Feed ==
    /\ dpc = "feed"
    /\ ~mu
    /\ IF dead
       THEN dpc' = "write" /\ UNCHANGED <<mu, offered>>
       ELSE dpc' = "pipe" /\ mu' = TRUE /\ offered' = TRUE
    /\ UNCHANGED <<left, wrote, diskErr, armVars, closed, dead, kept>>

\* The pipe's write returns: its bytes were taken, or the pipe is closed under it.
Fed ==
    /\ dpc = "pipe"
    /\ ~offered \/ closed
    /\ dead' = (dead \/ offered)
    /\ offered' = FALSE
    /\ mu' = FALSE
    /\ dpc' = "write"
    /\ UNCHANGED <<left, wrote, diskErr, armVars, closed, kept>>

DiskWrite ==
    /\ dpc = "write"
    /\ wrote' = wrote + 1
    /\ dpc' = "read"
    /\ UNCHANGED <<left, diskErr, armVars, offered, closed, mu, dead, kept>>

ClosePipe ==
    /\ dpc = "close"
    /\ closed' = TRUE
    /\ dpc' = "join"
    /\ UNCHANGED <<left, wrote, diskErr, armVars, offered, mu, dead, kept>>

\* The result of the arm: a failed or a shorter arm is detached.
Join ==
    /\ dpc = "join"
    /\ spc = "sent"
    /\ kept' = (~diskErr /\ ~armErr /\ wrote = took)
    /\ dpc' = "done"
    /\ UNCHANGED <<left, wrote, diskErr, armVars, offered, closed, mu, dead>>

-----------------------------------------------------------------------------
(* The S3 goroutine: s3.Append(ctx, pr), then detach and close. *)

\* The context is looked at before each read.
ArmChecks ==
    /\ spc = "top"
    /\ \/ spc' = "read" /\ UNCHANGED armErr
       \/ spc' = "detach" /\ armErr' = TRUE
    /\ UNCHANGED <<diskVars, took, offered, closed, mu, dead, kept>>

ArmReads ==
    /\ spc = "read"
    /\ offered
    /\ offered' = FALSE
    /\ took' = took + 1
    /\ spc' \in {"top", "flush"}
    /\ UNCHANGED <<diskVars, armErr, closed, mu, dead, kept>>

ArmEnds ==
    /\ \/ spc = "read" /\ closed /\ ~offered /\ UNCHANGED armErr
       \/ spc = "flush" /\ armErr' = TRUE
    /\ spc' = "detach"
    /\ UNCHANGED <<diskVars, took, offered, closed, mu, dead, kept>>

ArmFlushes ==
    /\ spc = "flush"
    /\ spc' = "top"
    /\ UNCHANGED <<diskVars, took, armErr, offered, closed, mu, dead, kept>>

\* detachWriter.detach takes the same mutex.
Detach ==
    /\ spc = "detach"
    /\ ~mu
    /\ dead' = TRUE
    /\ spc' = "close"
    /\ UNCHANGED <<diskVars, took, armErr, offered, closed, mu, kept>>

ArmCloses ==
    /\ spc = "close"
    /\ closed' = TRUE
    /\ spc' = "sent"
    /\ UNCHANGED <<diskVars, took, armErr, offered, mu, dead, kept>>

-----------------------------------------------------------------------------
Request == ReadBody \/ EndOfBody \/ Feed \/ Fed \/ DiskWrite \/ ClosePipe \/ Join
Arm == ArmChecks \/ ArmReads \/ ArmEnds \/ ArmFlushes \/ Detach \/ ArmCloses

Next == Request \/ Arm

Spec == Init /\ [][Next]_vars

\* Both goroutines run whenever they can; the body ends and every upload of a part returns.
FairSpec == Spec /\ WF_vars(Request) /\ WF_vars(Arm)

-----------------------------------------------------------------------------
(* Properties. *)

\* Every variable has its type (migrationSession.Append).
TypeOK ==
    /\ dpc \in {"read", "feed", "pipe", "write", "close", "join", "done"}
    /\ spc \in {"top", "read", "flush", "detach", "close", "sent"}
    /\ {left, wrote, took} \subseteq 0..Chunks
    /\ {offered, closed, mu, dead, diskErr, armErr, kept} \subseteq BOOLEAN

\* An arm the session keeps holds what the disk holds, all of the body (the comparison of the
\* two offsets at the end of Append).
KeptArmIsWhole == (dpc = "done" /\ kept) => wrote = Chunks /\ took = Chunks

\* migration.go on the S3 goroutine: "the close releases a write that is already blocked inside
\* the pipe (an abandoned reader would otherwise deadlock it)"; so Append returns.
AppendReturns == <>(dpc = "done")
=============================================================================
