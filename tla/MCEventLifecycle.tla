-------------------------- MODULE MCEventLifecycle --------------------------
(* EventLifecycle with a VFH event type and one that needs no approval.     *)
EXTENDS EventLifecycle

MCEventTypes == {"VFH", "Free Event"}
=============================================================================
