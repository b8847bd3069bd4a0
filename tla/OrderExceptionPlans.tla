-------------------------- MODULE OrderExceptionPlans -------------------------
(***************************************************************************)
(* What each subagent of apps/agents/src/agents/order_exception plans for  *)
(* a case: subagents.py and tooling.py as operators from the facts of the  *)
(* case to the proposed action.                                            *)
(*                                                                         *)
(* A planned call is its tool, its intent and whether it writes.  Its      *)
(* idempotency key is the hash of case id, intent and payload; within one  *)
(* case and one proposal the facts fix the payload, so the intent stands   *)
(* for the key.  Wording, confidence and rationale are left out.           *)
(***************************************************************************)
EXTENDS Naturals, Sequences, SequencesExt

Lanes ==
  {"address_change_request", "damaged_in_transit", "delivered_not_received", "fraud_triage",
   "inventory_conflict", "item_change_request", "order_cancellation_request",
   "order_not_picked", "stuck_in_transit", "wismo"}

(***************************************************************************)
(* The facts of a case, a record f:                                        *)
(*   lane          the exception type the classification arrives at        *)
(*   shipStatus    shipment.status, or else fulfillment.status             *)
(*   ticket        a support ticket id is known                            *)
(*   provider      3PL: "shipbob", "shipstation" or "none"                 *)
(*   orderRef      the provider's order id is known                        *)
(*   holdDate      fulfillment.hold_until_date is known                    *)
(*   shipmentRef   the provider's shipment id is known                     *)
(*   details       the requested address or item changes are given         *)
(*   paymentDelta  item_change.payment_delta, 0 if absent                  *)
(*   score         risk.score                                              *)
(*   blocklisted   the customer or the risk record says so                 *)
(*   customer      the customer's id or e-mail gives a history query       *)
(*   email         the customer's e-mail is known                          *)
(*   outOfStock    the inventory shows an out-of-stock line                *)
(*   withinSla     younger than the pick SLA, no breach reported           *)
(*   stale         days since the last scan known, or a stalled status     *)
(*   refundAmount  suggested partial refund, 0 if absent                   *)
(*   approvals     the matched FOPs require an approval                    *)
(*   autoRefund    the matched FOPs' auto_actions cancel and refund        *)
(***************************************************************************)

WriteTools ==
  {"shopify_apply_order_edit", "shopify_update_order_note", "shopify_update_shipping_address",
   "shopify_create_refund", "shopify_hold_fulfillment_order", "shopify_cancel_order",
   "stripe_create_refund", "gorgias_draft_reply", "shipbob_hold_order",
   "shipstation_hold_order"}

\* EXECUTION_TOOL_REGISTRY of apps/api/src/api/agents/processor.py.
ExecutionToolRegistry ==
  {"gorgias_draft_reply", "gorgias_search_customer", "shipbob_get_order",
   "shipbob_get_shipment", "shipbob_hold_order", "shipstation_get_order",
   "shipstation_get_shipment", "shipstation_hold_order", "shopify_apply_order_edit",
   "shopify_cancel_order", "shopify_create_refund", "shopify_hold_fulfillment_order",
   "shopify_search_orders", "shopify_update_order_note", "shopify_update_shipping_address"}

\* Mutant: one idempotency key for all calls of a case.
PlannedCallKeyedByCase(tool, intent) ==
  [tool |-> tool, intent |-> "case", write |-> tool \in WriteTools]

PlannedCall(tool, intent) ==
  [tool |-> tool, intent |-> intent, write |-> tool \in WriteTools]

\* A call that is planned only if what it needs is known.
When(known, tool, intent) == IF known THEN <<PlannedCall(tool, intent)>> ELSE <<>>

Hold(intent) == <<PlannedCall("shopify_hold_fulfillment_order", intent)>>

OrderNote(intent) == <<PlannedCall("shopify_update_order_note", intent)>>

DraftReply(f, intent) == When(f.ticket, "gorgias_draft_reply", intent)

CustomerHistory(f, intent) == When(f.customer, "shopify_search_orders", intent)

SupportHistory(f, intent) == When(f.email, "gorgias_search_customer", intent)

ThreePlHold(f, intent) ==
  When(f.provider = "shipbob" /\ f.orderRef, "shipbob_hold_order", intent)
    \o When(f.provider = "shipstation" /\ f.orderRef /\ f.holdDate, "shipstation_hold_order", intent)

ThreePlOrder(f, intent) ==
  When(f.provider = "shipbob" /\ f.orderRef, "shipbob_get_order", intent)
    \o When(f.provider = "shipstation" /\ f.orderRef, "shipstation_get_order", intent)

ThreePlShipment(f, intent) ==
  When(f.provider = "shipbob" /\ f.shipmentRef, "shipbob_get_shipment", intent)
    \o When(f.provider = "shipstation" /\ f.shipmentRef, "shipstation_get_shipment", intent)

\* _is_shipped: the statuses after which the subagents no longer edit.
IsShipped(f) ==
  f.shipStatus \in {"attempted_delivery", "carrier_picked_up", "delayed", "delivered",
                    "in_transit", "label_printed", "label_purchased", "out_for_delivery",
                    "partially_fulfilled", "picked", "packed", "shipped"}

-------------------------------------------------------------------------------
(* The subagents. *)

\* Mutant: the customer is told before the address is changed.
AddressChangeConfirmedFirst(f) ==
  IF IsShipped(f)
  THEN DraftReply(f, "draft_post_ship_address_change_reply")
         \o OrderNote("annotate_post_ship_address_change")
  ELSE Hold("hold_for_address_change")
         \o DraftReply(f, "draft_address_change_confirmation")
         \o <<PlannedCall("shopify_update_shipping_address", "update_shopify_shipping_address")>>

AddressChange(f) ==
  IF IsShipped(f)
  THEN DraftReply(f, "draft_post_ship_address_change_reply")
         \o OrderNote("annotate_post_ship_address_change")
  ELSE IF ~f.details
  THEN Hold("hold_pending_address_change")
         \o DraftReply(f, "draft_address_change_clarification")
         \o OrderNote("annotate_missing_address_change_details")
  ELSE Hold("hold_for_address_change")
         \o ThreePlHold(f, "sync_address_change_to_3pl")
         \o <<PlannedCall("shopify_update_shipping_address", "update_shopify_shipping_address")>>
         \o OrderNote("annotate_address_change_request")
         \o DraftReply(f, "draft_address_change_confirmation")

ItemChange(f) ==
  IF IsShipped(f)
  THEN DraftReply(f, "draft_late_item_change_reply")
         \o OrderNote("annotate_late_item_change_request")
  ELSE IF ~f.details
  THEN Hold("hold_pending_item_change_details")
         \o DraftReply(f, "draft_item_change_clarification")
         \o OrderNote("annotate_missing_item_change_details")
  ELSE IF f.paymentDelta # 0
  THEN Hold("hold_item_change_with_payment_delta")
         \o DraftReply(f, "draft_item_change_payment_delta_reply")
         \o OrderNote("annotate_item_change_payment_delta")
  ELSE Hold("hold_for_item_change")
         \o <<PlannedCall("shopify_apply_order_edit", "apply_requested_item_change")>>
         \o OrderNote("annotate_item_change_request")
         \o DraftReply(f, "draft_item_change_confirmation")

Cancellation(f) ==
  IF IsShipped(f)
  THEN DraftReply(f, "draft_post_ship_cancellation_reply")
         \o OrderNote("annotate_post_ship_cancellation_request")
  ELSE <<PlannedCall("shopify_cancel_order", "cancel_order_per_customer_request")>>
         \o OrderNote("annotate_cancellation_request")

FraudTriage(f) ==
  IF f.score > 80 /\ f.autoRefund
  THEN <<PlannedCall("shopify_cancel_order", "cancel_high_fraud_order"),
         PlannedCall("shopify_create_refund", "refund_high_fraud_order")>>
  ELSE IF f.score >= 50 \/ f.blocklisted
  THEN Hold("hold_medium_fraud_review")
         \o CustomerHistory(f, "fetch_customer_order_history_for_fraud")
         \o SupportHistory(f, "fetch_customer_support_history_for_fraud")
         \o OrderNote("annotate_medium_fraud_review")
  ELSE <<>>

InventoryConflict(f) ==
  IF ~f.outOfStock THEN <<>>
  ELSE Hold("hold_inventory_conflict_order")
         \o ThreePlHold(f, "sync_inventory_hold_to_3pl")
         \o DraftReply(f, "draft_inventory_conflict_message")
         \o OrderNote("annotate_inventory_conflict")

OrderNotPicked(f) ==
  IF f.withinSla THEN <<>>
  ELSE ThreePlOrder(f, "fetch_stuck_pick_details")
         \o DraftReply(f, "draft_stuck_pick_update")
         \o OrderNote("annotate_order_not_picked")

StuckInTransit(f) ==
  IF ~f.stale THEN <<>>
  ELSE ThreePlShipment(f, "fetch_stuck_in_transit_details")
         \o DraftReply(f, "draft_stuck_in_transit_reply")
         \o OrderNote("annotate_stuck_in_transit")

Wismo(f) ==
  ThreePlShipment(f, "fetch_wismo_shipment_status") \o DraftReply(f, "draft_wismo_reply")

DeliveredNotReceived(f) ==
  CustomerHistory(f, "fetch_delivery_claim_history")
    \o SupportHistory(f, "fetch_support_claim_history")
    \o DraftReply(f, "draft_delivered_not_received_reply")
    \o OrderNote("annotate_delivered_not_received_claim")

DamagedInTransit(f) ==
  DraftReply(f, "draft_damaged_in_transit_reply")
    \o OrderNote("annotate_damaged_in_transit_claim")
    \o When(f.refundAmount > 0, "shopify_create_refund", "issue_partial_damage_refund")

Plan(f, route) ==
  CASE route = "address_change_request"     -> AddressChange(f)
    [] route = "item_change_request"        -> ItemChange(f)
    [] route = "order_cancellation_request" -> Cancellation(f)
    [] route = "fraud_triage"               -> FraudTriage(f)
    [] route = "inventory_conflict"         -> InventoryConflict(f)
    [] route = "order_not_picked"           -> OrderNotPicked(f)
    [] route = "stuck_in_transit"           -> StuckInTransit(f)
    [] route = "wismo"                      -> Wismo(f)
    [] route = "delivered_not_received"     -> DeliveredNotReceived(f)
    [] route = "damaged_in_transit"         -> DamagedInTransit(f)

\* tool_plan_requires_human.
Writes(plan) == \E i \in DOMAIN plan : plan[i].write

\* Mutant: only the approvals of the FOPs count.
ProposalOfFops(f, route, approvals) ==
  [plan |-> Plan(f, route), requiresHuman |-> approvals]

\* _with_proposal.  The LLM may rewrite the narrative of the proposal only:
\* LOCKED_PROPOSAL_FIELDS are written back after it.
WithProposal(f, route, approvals) ==
  [plan |-> Plan(f, route), requiresHuman |-> approvals \/ Writes(Plan(f, route))]

\* The idempotency keys of a plan, in its order.
KeysOf(plan) == [i \in DOMAIN plan |-> plan[i].intent]
===============================================================================
