----------------------------- MODULE MCEventBus -----------------------------
(* Two connections, queues of two, a log of three and six events.          *)
EXTENDS EventBus, TLC

CONSTANTS c1, c2

MCClients == {c1, c2}

=============================================================================
