------------------------------ MODULE MCBlobGC ------------------------------
(* BlobGC on small instances: uploads of the same bytes to two paths, and a second blob. *)
EXTENDS BlobGC, TLC

CONSTANTS a, b, u1, u2, u3, p1, p2, d1, d2

\* Three requests carry the bytes of a, two of them to the same path.
SameBytes == [u \in {u1, u2, u3} |-> a]
TwoPaths == u1 :> p1 @@ u2 :> p2 @@ u3 :> p1
OneShard == [s \in {a} |-> d1]

\* Two requests with the bytes of a, to two paths.
PairBytes == [u \in {u1, u2} |-> a]
PairPaths == u1 :> p1 @@ u2 :> p2
PairOnePath == [u \in {u1, u2} |-> p1]

\* One request for a and one for b, in a shard of its own.
OneEach == u1 :> a @@ u3 :> b
OneEachPaths == u1 :> p1 @@ u3 :> p1
TwoShards == a :> d1 @@ b :> d2
=============================================================================
