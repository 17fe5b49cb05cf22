-------------------------- MODULE MCEventScheduler --------------------------
(* The instance of EventScheduler for TLC: one event, a selection every     *)
(* second minute, a start at least one minute ahead.                        *)
EXTENDS EventScheduler
=============================================================================
