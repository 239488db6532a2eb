------------------------- MODULE OrderStateMachine -------------------------
(* The order life cycle of app/domain: statuses, the transition table and   *)
(* the status sets the services test against (order_state_machine.py).      *)

OrderStatus == {"NEW", "VALIDATED", "ROUTED", "PARTIALLY_FILLED", "FILLED",
                "REJECTED", "CANCEL_PENDING", "CANCELLED"}

ALLOWED_TRANSITIONS ==
    [s \in OrderStatus |->
        CASE s = "NEW"              -> {"VALIDATED", "REJECTED"}
          [] s = "VALIDATED"        -> {"ROUTED", "REJECTED", "CANCEL_PENDING"}
          [] s = "ROUTED"           -> {"PARTIALLY_FILLED", "FILLED", "REJECTED",
                                        "CANCEL_PENDING", "CANCELLED"}
          [] s = "PARTIALLY_FILLED" -> {"FILLED", "CANCEL_PENDING", "CANCELLED"}
          [] s = "CANCEL_PENDING"   -> {"FILLED", "CANCELLED"}
          [] OTHER                  -> {}]

OPEN_ORDER_STATUSES == {"VALIDATED", "ROUTED", "PARTIALLY_FILLED", "CANCEL_PENDING"}

(* Two sets with a status too many: mistakes some property must notice.     *)
CANCELLABLE_MISTAKE == {"VALIDATED", "ROUTED", "PARTIALLY_FILLED", "CANCEL_PENDING"}
EXECUTABLE_MISTAKE == {"ROUTED", "PARTIALLY_FILLED", "CANCEL_PENDING", "REJECTED"}

CANCELLABLE_ORDER_STATUSES == {"VALIDATED", "ROUTED", "PARTIALLY_FILLED"}

TERMINAL_ORDER_STATUSES == {"FILLED", "REJECTED", "CANCELLED"}

(* The statuses from which ExecutionService accepts a fill or a cancel.     *)
EXECUTABLE_STATUSES == {"ROUTED", "PARTIALLY_FILLED", "CANCEL_PENDING"}

TransitionAllowed(current, target) == target \in ALLOWED_TRANSITIONS[current]
=============================================================================
