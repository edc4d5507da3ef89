------------------------------ MODULE MCPubSub ------------------------------
(* Model-checking instance of PubSub: handlers publishing one event each   *)
(* and replicas that PSYNC, may drop their connection, and unsubscribe.    *)
EXTENDS PubSub

CONSTANTS p1, p2, p3, r1, r2

MCPublishers == {p1, p2, p3}
MCReplicas == {r1, r2}

=============================================================================
