----------------------------- MODULE MCEventBus -----------------------------
(* Instances of EventBus for TLC: a valid and a malformed event, each of   *)
(* which may be published more than once.                                  *)
EXTENDS EventBus

CONSTANTS e1, bad, c1, c2

MCEvents    == {e1, bad}
MCMalformed == {bad}
MCConsumers == {c1, c2}
=============================================================================
