------------------------------ MODULE MCScheduler ------------------------------
(* Scheduler on small instances. *)
EXTENDS Scheduler, TLC

CONSTANTS k1, k2, w1

\* One expression with one trigger, one with two, or both.
Once == {{2}}
Twice == {{2, 3}}
OnceOrTwice == {{2}, {2, 3}}

KeySymmetry == Permutations({k1, k2})
=============================================================================
