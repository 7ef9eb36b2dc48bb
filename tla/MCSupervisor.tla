---------------------------- MODULE MCSupervisor ----------------------------
(* An instance of Supervisor for TLC: one tripping mode, one that is not. *)
EXTENDS Supervisor

CONSTANTS DATABASE_UNAVAILABLE, DATA_STALE

MCModes    == {DATABASE_UNAVAILABLE, DATA_STALE}
MCTripping == {DATABASE_UNAVAILABLE}

Spec == SupervisorSpec
=============================================================================
