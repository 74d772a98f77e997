-------------------------- MODULE MCUploadSessions --------------------------
(* UploadSessions with two request slots; the slots are interchangeable. *)
EXTENDS UploadSessions, TLC

CONSTANTS r1, r2

SlotSymmetry == Permutations({r1, r2})
=============================================================================
