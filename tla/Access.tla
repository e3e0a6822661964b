------------------------------- MODULE Access -------------------------------
(***************************************************************************)
(* Who may do what.  The backend owns the matrix of capabilities           *)
(* (core/capabilities.py); its routes ask for one of them or for a role,   *)
(* the services sometimes for more, and the browser is told the            *)
(* capabilities of its account and shows the pages and buttons they stand  *)
(* for.  A table here is a set of pairs: what is asked for, and by whom it  *)
(* is granted.                                                             *)
(***************************************************************************)
EXTENDS FiniteSets

Roles == {"admin", "manager", "staff", "customer"}
BACK_OFFICE_ROLES == {"admin", "manager", "staff"}
MANAGEMENT_ROLES == {"admin", "manager"}
Visitor == "visitor"            \* nobody is signed in, or the account is disabled
Anyone == Roles \cup {Visitor}

For(names, roles) == names \X roles
CAPABILITIES ==
  For({"admin.access", "products.read", "giftbox.read", "orders.read.own_created",
       "orders.pos.create", "payments.read", "payments.manual.create", "inventory.read",
       "batches.write", "alerts.read", "alerts.update", "suppliers.read", "agent.chat",
       "agent.action.draft", "agent.action.approve"}, BACK_OFFICE_ROLES)
  \cup For({"dashboard.read", "products.write", "giftbox.write", "bom.write", "orders.read.all",
            "orders.delete", "payments.verify", "alerts.generate", "alerts.delete",
            "reports.read", "suppliers.write", "vouchers.read", "vouchers.write",
            "agent.action.execute"}, MANAGEMENT_ROLES)
  \cup For({"giftbox.delete", "users.manage"}, {"admin"})
capabilities_for(role) == {c[1] : c \in {d \in CAPABILITIES : d[2] = role}}
require_capability(name) == {c[2] : c \in {d \in CAPABILITIES : d[1] = name}}

Demand(capability, handlers) == For(handlers, require_capability(capability))
-----------------------------------------------------------------------------
(* The routes, by their handlers' names                                    *)

AgentRoutes ==
  Demand("agent.chat", {"get_state", "get_agent_insights", "get_proactive_insights",
                        "get_proactive_insight_summary", "patch_proactive_insight",
                        "get_tools", "post_chat", "get_actions"})
  \cup Demand("agent.action.draft", {"post_propose_action"})
  \cup Demand("agent.action.approve", {"post_approve_action", "post_reject_action"})
  \cup Demand("agent.action.execute", {"post_reset_action"})

AlertRoutes ==
  Demand("alerts.read", {"get_alerts", "get_alerts_summary"})
  \cup Demand("alerts.generate", {"generate_alerts"})
  \cup Demand("alerts.update", {"update_alert"})
  \cup Demand("alerts.delete", {"delete_alert", "clear_resolved_alerts"})

DisposalRoutes == Demand("batches.write", {"dispose_expired_batch"})
LotRoutes ==
  Demand("batches.write", {"suggest_batch_code", "create_product_batch", "update_product_batch",
                           "create_component_batch", "update_component_batch"})
  \cup Demand("inventory.read", {"list_product_batches", "get_product_batch",
                                 "list_component_batches", "get_component_batch"})
\* mutant: an earlier matrix, by which the staff could read of stock and not receive it
StockRoutesNarrowed ==
  Demand("products.write", {"create_gift_box_batch", "update_gift_box_batch"})
  \cup Demand("inventory.read", {"list_gift_box_batches", "get_gift_box_batch",
         "get_expiring_batches", "get_product_inventory", "get_component_inventory",
         "get_gift_box_inventory", "batches_by_variant"})
StockRoutes ==
  Demand("batches.write", {"create_gift_box_batch", "update_gift_box_batch"})
  \cup Demand("inventory.read", {"list_gift_box_batches", "get_gift_box_batch",
         "get_expiring_batches", "get_product_inventory", "get_component_inventory",
         "get_gift_box_inventory", "batches_by_variant"})
ComponentRoutes == For({"list_components", "get_component"}, BACK_OFFICE_ROLES)
TraceRoutes == For({"get_inventory_ledger", "get_batch_trace"}, BACK_OFFICE_ROLES)
ScanRoutes == For({"scan_lookup"}, BACK_OFFICE_ROLES)

GiftBoxRoutes ==
  Demand("giftbox.read", {"list_gift_boxes", "get_gift_box", "get_gift_box_bom"})
  \cup Demand("giftbox.write", {"create_gift_box", "update_gift_box"})
  \cup Demand("giftbox.delete", {"delete_gift_box"})
  \cup Demand("bom.write", {"add_bom_item", "update_bom_item", "delete_bom_item"})
PublicBoxRoutes ==
  For({"list_gift_boxes_public", "get_gift_box_public", "get_gift_box_bom_public"}, Anyone)

CatalogueRoutes ==
  For({"list_products", "list_product_categories"}, Anyone)
  \cup Demand("products.write", {"create_product", "upload_product_image", "recrop_product_image"})
ProductRoutes ==
  Demand("products.read", {"list_admin_variants"})
  \cup For({"get_product_availability", "get_product"}, Anyone)
  \cup Demand("products.write", {"update_product", "delete_product"})
VariantRoutes ==
  Demand("products.write", {"create_variant", "update_variant", "delete_variant"})
  \cup Demand("products.read", {"get_variant"}) \cup For({"get_product_variants"}, Anyone)

VoucherRoutes ==
  Demand("vouchers.read", {"list_vouchers", "get_voucher"}) \cup For({"list_active_vouchers"}, Anyone)
  \cup Demand("vouchers.write", {"create_voucher", "update_voucher", "delete_voucher"})
SupplierRoutes ==
  Demand("suppliers.read", {"list_suppliers", "get_supplier"})
  \cup Demand("suppliers.write", {"create_supplier", "update_supplier", "delete_supplier"})
ReportRoutes ==
  Demand("reports.read", {"get_sales_report", "get_revenue_by_product", "get_revenue_by_category"})
BestSellerRoutes == For({"get_best_sellers"}, Anyone)

\* create_order makes a counter sale, which the service keeps to the back office;
\* a shopper's order comes in through checkout.
OrderRoutes ==
  For({"list_orders", "checkout"}, Roles)
  \cup Demand("orders.pos.create", {"preorder_checkout"})
  \cup For({"create_order"}, BACK_OFFICE_ROLES)
  \cup Demand("orders.delete", {"delete_order"})
PaymentRoutes ==
  Demand("payments.read", {"list_payments"})
  \cup Demand("payments.verify", {"list_reconciliation", "confirm_refund",
                                  "update_payment_status", "verify_payment"})
UserRoutes ==
  For({"list_users", "get_user"}, MANAGEMENT_ROLES) \cup For({"create_user", "delete_user"}, {"admin"})
  \cup For({"update_user", "upload_user_avatar"}, Roles) \cup For({"get_user_avatar"}, Anyone)
SessionRoutes ==
  For({"register", "login", "refresh_token", "establish_cognito_session"}, Anyone)
  \cup For({"change_password", "get_current_user_info"}, Roles)

Routes ==
  UNION {AgentRoutes, AlertRoutes, DisposalRoutes, LotRoutes, StockRoutes, ComponentRoutes,
         TraceRoutes, ScanRoutes, GiftBoxRoutes, PublicBoxRoutes, CatalogueRoutes, ProductRoutes,
         VariantRoutes, VoucherRoutes, SupplierRoutes, ReportRoutes, BestSellerRoutes,
         OrderRoutes, PaymentRoutes, UserRoutes, SessionRoutes}
-----------------------------------------------------------------------------
(* One order, its ties to whoever asks for it, and what is done with it.    *)

Ties == {"created", "placed", "none"}
can_access_order(role, tie) ==
  \/ role \in MANAGEMENT_ROLES
  \/ role \in BACK_OFFICE_ROLES /\ tie \in {"created", "placed"}
  \/ role = "customer" /\ tie = "placed"
\* list_orders and list_payments say it again, as a WHERE clause
Listed(role) == {tie \in Ties :
  \/ role \in MANAGEMENT_ROLES
  \/ role \in BACK_OFFICE_ROLES /\ tie \in {"created", "placed"}
  \/ role \notin BACK_OFFICE_ROLES /\ tie = "placed"}
ServedFor(role, tie) ==
  {h \in {"get_order", "get_payment", "get_order_payments", "create_sepay_payment"} :
     can_access_order(role, tie)}
  \cup {h \in {"create_payment"} :
          role \in require_capability("payments.manual.create") /\ can_access_order(role, tie)}
  \cup {h \in {"update_order_status"} : role \in MANAGEMENT_ROLES}
  \cup {h \in {"cancel_order"} : role \in MANAGEMENT_ROLES \/ (tie = "placed" /\ role # Visitor)}

Served == [role \in Anyone |-> [tie \in Ties |->
             {r[1] : r \in {s \in Routes : s[2] = role}} \cup ServedFor(role, tie)]]
-----------------------------------------------------------------------------
(* What pages offer: the calls they make for an account with the            *)
(* capabilities they ask for, on the way in and for a button.               *)

Offer(needs, handlers) == {[needs |-> needs \cup {"admin.access"}, handlers |-> handlers]}
LayoutPage == Offer({"alerts.read"}, {"get_alerts_summary"})
DashboardPage ==
  Offer({"dashboard.read"}, {"get_alerts_summary", "get_sales_report", "get_revenue_by_product",
                             "get_revenue_by_category", "get_best_sellers", "get_expiring_batches",
                             "list_orders"})
ProductPage ==
  Offer({"products.read"}, {"list_admin_variants", "list_product_categories"})
  \cup Offer({"products.read", "products.write"},
             {"create_product", "update_product", "delete_product", "upload_product_image",
              "recrop_product_image", "get_product", "get_variant", "create_variant",
              "update_variant", "delete_variant"})
GiftBoxPage ==
  Offer({"giftbox.read"}, {"list_gift_boxes"})
  \cup Offer({"giftbox.read", "giftbox.write"}, {"create_gift_box", "update_gift_box"})
  \cup Offer({"giftbox.read", "giftbox.delete"}, {"delete_gift_box"})
GiftBoxBomPage ==
  Offer({"bom.write"}, {"get_gift_box", "get_gift_box_bom", "add_bom_item", "update_bom_item",
                        "delete_bom_item", "list_admin_variants", "get_product_inventory"})
VoucherPage ==
  Offer({"vouchers.read"}, {"list_vouchers", "create_voucher", "update_voucher", "delete_voucher",
                            "list_products", "list_product_categories"})
OrdersPage ==
  Offer({"orders.read.own_created"}, {"list_orders"})
  \cup Offer({"orders.read.own_created", "orders.pos.create"},
             {"list_admin_variants", "list_gift_boxes", "create_order", "preorder_checkout"})
  \cup Offer({"orders.read.own_created", "orders.delete"}, {"delete_order"})
ReconciliationPage == Offer({"payments.verify"}, {"list_reconciliation", "confirm_refund"})
InventoryPage ==
  Offer({"inventory.read"}, {"list_product_batches", "list_component_batches", "list_gift_box_batches"})
  \cup Offer({"inventory.read", "batches.write"},
             {"get_product_batch", "update_product_batch", "update_component_batch",
              "update_gift_box_batch", "dispose_expired_batch"})
TracePages == Offer({"inventory.read"}, {"get_inventory_ledger", "get_batch_trace"})
BatchPage ==
  Offer({"batches.write"}, {"list_admin_variants", "list_gift_boxes", "list_suppliers",
                            "list_components", "suggest_batch_code", "create_product_batch",
                            "create_component_batch", "create_gift_box_batch"})
AlertsPage ==
  Offer({"alerts.read"}, {"get_alerts", "get_alerts_summary"})
  \cup Offer({"alerts.read", "alerts.update"}, {"update_alert"})
  \cup Offer({"alerts.read", "alerts.delete"}, {"clear_resolved_alerts"})
AttentionWidget ==
  Offer({"alerts.read", "agent.chat"}, {"get_agent_insights", "get_proactive_insights",
                                        "get_actions", "patch_proactive_insight"})
  \cup Offer({"alerts.read", "agent.chat", "agent.action.execute"},
             {"post_approve_action", "post_reject_action"})
Pages ==
  UNION {LayoutPage, DashboardPage, ProductPage, GiftBoxPage, GiftBoxBomPage, VoucherPage,
         OrdersPage, ReconciliationPage, InventoryPage, TracePages, BatchPage, AlertsPage,
         AttentionWidget}

\* The page of one order, which is opened from a list.  Its status menu and its cancel
\* button ask for no capability: whoever looks is offered them.
OrderPage == {"get_order", "get_order_payments", "create_payment", "create_sepay_payment",
              "update_order_status", "cancel_order"}

Offered == [role \in Anyone |->
  UNION {p.handlers : p \in {q \in Pages : q.needs \subseteq capabilities_for(role)}}]
OfferedFor == [role \in Anyone |-> [tie \in Ties |->
  IF "orders.read.own_created" \in capabilities_for(role) /\ tie \in Listed(role)
  THEN OrderPage ELSE {}]]

\* What an account of one role is refused, and on which orders, by a browser that goes by
\* another.
Refusals == [viewer \in Anyone |-> [told \in Anyone |->
  UNION {((Offered[told] \cup OfferedFor[told][tie]) \ Served[viewer][tie]) \X {tie} : tie \in Ties}]]
-----------------------------------------------------------------------------
(* The agent's tools that write, the tier that may propose and approve each, *)
(* and the route whose service method it calls.                              *)

APPROVAL_ROLE_TIERS == For({"draft"}, BACK_OFFICE_ROLES) \cup For({"execute"}, MANAGEMENT_ROLES)
Tool(name, classification, route) == [name |-> name, tier |-> classification, route |-> route]
WritingTools ==
  {Tool("resolve_alert", "execute", "update_alert"), Tool("dismiss_alert", "execute", "update_alert"),
   Tool("generate_alerts", "execute", "generate_alerts"),
   Tool("set_batch_status", "execute", "update_product_batch"),
   Tool("cancel_order", "execute", "cancel_order"),
   Tool("draft_replenishment_note", "draft", "update_alert")}
May(role, tool) == <<tool.tier, role>> \in APPROVAL_ROLE_TIERS
=============================================================================
