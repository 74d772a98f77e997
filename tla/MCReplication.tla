--------------------------- MODULE MCReplication ----------------------------
(* Instances of Replication for TLC. *)
EXTENDS Replication

\* Two contents of one path.
SamePath == [i \in Items |-> "p"]
=============================================================================
