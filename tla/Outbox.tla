------------------------------- MODULE Outbox -------------------------------
(***************************************************************************)
(* What a durable delivery queue promises, whatever its workers do: an     *)
(* entry is written once, is delivered at least once before it counts as   *)
(* done, and nothing is sent for an entry that is done or given up.        *)
(* Webhooks (webhook_deliveries) and Replication (replication_tasks) are   *)
(* both shown to implement it.                                             *)
(***************************************************************************)
CONSTANT Ids

VARIABLES
    box,      \* what became of each entry
    reached   \* the entries whose receiver has confirmed them

vars == <<box, reached>>

Boxes == {"none", "queued", "done", "dead", "gone"}

TypeOK ==
    /\ box \in [Ids -> Boxes]
    /\ reached \subseteq Ids

Init ==
    /\ box = [i \in Ids |-> "none"]
    /\ reached = {}

Moves(S, to) == box' = [i \in Ids |-> IF i \in S THEN to ELSE box[i]]

\* One event's entries appear together.
Put(S) ==
    /\ \A i \in S : box[i] = "none"
    /\ Moves(S, "queued")
    /\ UNCHANGED reached

\* A send that is under way when its entry is removed still arrives.
Reach(i) ==
    /\ box[i] \in {"queued", "gone"}
    /\ reached' = reached \cup {i}
    /\ UNCHANGED box

Finish(i) ==
    /\ box[i] = "queued"
    /\ i \in reached
    /\ Moves({i}, "done")
    /\ UNCHANGED reached

GiveUp(i) ==
    /\ box[i] = "queued"
    /\ Moves({i}, "dead")
    /\ UNCHANGED reached

Requeue(i) ==
    /\ box[i] = "dead"
    /\ Moves({i}, "queued")
    /\ UNCHANGED reached

\* The owner of the entries is deleted.
Forget(S) ==
    /\ \A i \in S : box[i] # "none"
    /\ Moves(S, "gone")
    /\ UNCHANGED reached

Next ==
    \/ \E S \in SUBSET Ids : Put(S) \/ Forget(S)
    \/ \E i \in Ids : Reach(i) \/ Finish(i) \/ GiveUp(i) \/ Requeue(i)

Spec == Init /\ [][Next]_vars
=============================================================================
