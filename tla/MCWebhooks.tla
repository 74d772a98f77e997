----------------------------- MODULE MCWebhooks -----------------------------
(* Instances of Webhooks for TLC. *)
EXTENDS Webhooks

\* Every subscription wants every event.
All == [e \in Events |-> Subs]
=============================================================================
