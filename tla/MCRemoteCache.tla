--------------------------- MODULE MCRemoteCache ---------------------------
(* RemoteCache on small instances; the configurations give every constant a value. *)
EXTENDS RemoteCache
=============================================================================
