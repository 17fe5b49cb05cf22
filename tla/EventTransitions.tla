-------------------------- MODULE EventTransitions --------------------------
(* The statuses of an event and the changes an administrator may ask for. *)

EventStatus == {"READY", "OPEN", "CLOSED", "SETTLED", "CANCELLED"}

(* Faulty: any event may be cancelled. *)
AnyToCancelled(from) ==
    CASE from = "READY" -> {"OPEN", "CANCELLED"}
      [] from = "OPEN"  -> {"CLOSED", "CANCELLED"}
      [] OTHER          -> {"CANCELLED"}

(* update_event_status, allowed_map *)
AllowedTransition(from) ==
    CASE from = "READY"  -> {"OPEN", "CANCELLED"}
      [] from = "OPEN"   -> {"CLOSED", "CANCELLED"}
      [] from = "CLOSED" -> {"CANCELLED"}
      [] OTHER           -> {}
=============================================================================
