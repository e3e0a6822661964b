--------------------------- MODULE ActionPolicy ---------------------------
(* Which tools of the operations agent may run with nobody watching         *)
(* (services/agent/action_policy.py), and the one that does.                *)

Policies == {"AUTO_ALLOWED", "APPROVAL_REQUIRED", "NEVER_AUTOMATE"}
Outcomes == {"automatic", "approval_required", "blocked"}

(* What a registration in TOOL_REGISTRY states of a tool.  Whether a policy  *)
(* is among the valid ones is checked again when it is used.                 *)
Tools == [policy : Policies \cup {"invalid"}, classification : {"read", "draft", "execute"},
          risk : {"low", "medium", "high"}, idempotent : BOOLEAN, autoExecute : BOOLEAN,
          selfRevalidating : BOOLEAN, requiresUser : BOOLEAN, internal : BOOLEAN,
          captures : BOOLEAN, revalidates : BOOLEAN]

(* The ladder of evaluate_automated_action, in its order: what needs a user  *)
(* is refused before a read is let through.                                  *)
evaluate_automated_action(t) ==
  IF t.policy \notin Policies THEN "blocked"
  ELSE IF t.policy = "NEVER_AUTOMATE" THEN "blocked"
  ELSE IF t.policy = "APPROVAL_REQUIRED" THEN "approval_required"
  ELSE IF t.requiresUser THEN "blocked"
  ELSE IF t.classification = "read" THEN "automatic"
  ELSE IF ~t.autoExecute \/ t.risk # "low" \/ ~t.idempotent THEN "blocked"
  ELSE IF ~t.selfRevalidating /\ ~(t.captures /\ t.revalidates) THEN "blocked"
  ELSE "automatic"

(* Its __post_init__ refuses a registration that contradicts itself.         *)
Registrable(t) == /\ t.policy \in Policies
                  /\ t.autoExecute => t.policy # "NEVER_AUTOMATE" /\ ~t.requiresUser

(* The registry.  What a registration does not mention has its default; a    *)
(* tool that captures its target's state also revalidates it.                *)
Reads == {"get_alert_summary", "list_pending_alerts", "list_stale_orders",
          "get_expiring_batches", "get_order_details", "get_gift_box_bom",
          "check_production_feasibility", "get_replenishment_signals"}
OnApproval == {"resolve_alert", "dismiss_alert", "set_batch_status", "draft_replenishment_note"}
Unattended == {"generate_alerts", "create_proactive_notification"}

Registered(n) ==
  [policy |-> IF n \in OnApproval THEN "APPROVAL_REQUIRED"
              ELSE IF n = "cancel_order" THEN "NEVER_AUTOMATE" ELSE "AUTO_ALLOWED",
   classification |-> IF n \in Reads THEN "read"
                      ELSE IF n \in {"draft_replenishment_note", "create_proactive_notification"}
                             THEN "draft" ELSE "execute",
   risk |-> IF n = "cancel_order" THEN "high" ELSE IF n = "set_batch_status" THEN "medium" ELSE "low",
   idempotent |-> n \in Reads \cup Unattended,
   autoExecute |-> n \in Unattended,
   selfRevalidating |-> n = "generate_alerts",
   requiresUser |-> n \notin Unattended,
   internal |-> n = "create_proactive_notification",
   captures |-> n \in {"set_batch_status", "cancel_order", "create_proactive_notification"},
   revalidates |-> n \in {"set_batch_status", "cancel_order", "create_proactive_notification"}]

TOOL_REGISTRY == [n \in Reads \cup OnApproval \cup Unattended \cup {"cancel_order"} |-> Registered(n)]
=============================================================================
