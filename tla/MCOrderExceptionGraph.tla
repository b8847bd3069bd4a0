------------------------- MODULE MCOrderExceptionGraph ------------------------
(* A small instance of OrderExceptionGraph: for every lane, all values of  *)
(* the facts its subagent reads, and the defaults for the others; and the  *)
(* inputs of runs a webhook or a developer starts, with each signal at its *)
(* threshold, in each place it can be, as another kind of value, and two   *)
(* at a time.                                                              *)
EXTENDS OrderExceptionGraph

Plain ==
  [lane |-> "wismo", shipStatus |-> "unfulfilled", ticket |-> TRUE, provider |-> "none",
   orderRef |-> FALSE, holdDate |-> FALSE, shipmentRef |-> FALSE, details |-> FALSE,
   paymentDelta |-> 0, score |-> 0, blocklisted |-> FALSE, customer |-> FALSE,
   email |-> FALSE, outOfStock |-> FALSE, withinSla |-> FALSE, stale |-> TRUE,
   refundAmount |-> 0, approvals |-> FALSE, autoRefund |-> FALSE]

Case(lane, asked, ticket) ==
  [Plain EXCEPT !.lane = lane, !.approvals = asked, !.ticket = ticket]

ShipStatuses == {"unfulfilled", "label_printed", "in_transit", "fulfilled", "stuck_in_transit"}
Providers    == {"none", "shipbob", "shipstation"}

OfLane(asked, ticket) ==
  {[Case("address_change_request", asked, ticket) EXCEPT
      !.shipStatus = s, !.details = d, !.provider = p, !.orderRef = o, !.holdDate = h] :
        s \in ShipStatuses, d, o, h \in BOOLEAN, p \in Providers}
  \cup
  {[Case("item_change_request", asked, ticket) EXCEPT
      !.shipStatus = s, !.details = d, !.paymentDelta = n] :
        s \in ShipStatuses, d \in BOOLEAN, n \in {-5, 0, 5}}
  \cup
  {[Case("order_cancellation_request", asked, ticket) EXCEPT !.shipStatus = s] :
        s \in ShipStatuses}
  \cup
  {[Case("fraud_triage", asked, ticket) EXCEPT
      !.score = n, !.autoRefund = a, !.blocklisted = b, !.customer = c, !.email = e] :
        n \in {0, 49, 50, 80, 81}, a, b, c, e \in BOOLEAN}
  \cup
  {[Case("inventory_conflict", asked, ticket) EXCEPT
      !.outOfStock = x, !.provider = p, !.orderRef = o, !.holdDate = h] :
        x, o, h \in BOOLEAN, p \in Providers}
  \cup
  {[Case("order_not_picked", asked, ticket) EXCEPT
      !.withinSla = w, !.provider = p, !.orderRef = o] :
        w, o \in BOOLEAN, p \in Providers}
  \cup
  {[Case(lane, asked, ticket) EXCEPT !.stale = x, !.provider = p, !.shipmentRef = s] :
        lane \in {"stuck_in_transit", "wismo"}, x, s \in BOOLEAN, p \in Providers}
  \cup
  {[Case("delivered_not_received", asked, ticket) EXCEPT !.customer = c, !.email = e] :
        c, e \in BOOLEAN}
  \cup
  {[Case("damaged_in_transit", asked, ticket) EXCEPT !.refundAmount = n] : n \in {0, 10}}

MCFacts == UNION {OfLane(asked, ticket) : asked \in BOOLEAN, ticket \in BOOLEAN}

MCRunIds == 0 .. 2

Lift(parts) == FoldLeft(LAMBDA a, b : a @@ b, <<>>, parts)

Scores ==
  {<<>>} \cup {[risk_score |-> n] : n \in {0, 49, 50, 80, 81}}
  \cup {[risks |-> <<10, n>>] : n \in {50, 81}}
  \cup {[risk |-> [score |-> n]] : n \in {50, 81}}
  \cup {[risk |-> [blocklisted |-> TRUE]], [risk |-> [blocklisted |-> Word, score |-> Word]]}

OfOrder ==
  {<<>>} \cup {[order |-> o] : o \in {[risk |-> [score |-> 81]], [risk |-> [score |-> 50]],
                 [created_at |-> 76], [created_at |-> 77, displayFulfillmentStatus |-> "packed"],
                 [line_items |-> <<[fulfillable_quantity |-> 0, available_quantity |-> 0]>>]}}

Stock ==
  {<<>>, [line_items |-> <<[fulfillable_quantity |-> 2], [available_quantity |-> 0]>>],
   [line_items |-> <<[fulfillable_quantity |-> 0]>>], [status |-> "backordered"],
   [inventory |-> [out_of_stock_lines |-> <<[status |-> "out_of_stock"]>>]],
   [inventory |-> [out_of_stock_lines |-> <<Word>>]],
   [inventory |-> [has_out_of_stock_line |-> Word, out_of_stock_lines |-> Word]]}

Picking ==
  {<<>>} \cup {[fulfillment |-> f] : f \in {[age_hours |-> 24], [age_hours |-> 23],
                 [age_hours |-> 30, sla_hours |-> 48], [age_hours |-> 5, sla_hours |-> 0],
                 [pick_sla_breached |-> TRUE, status |-> "open"],
                 [queued_at |-> 76, provider |-> "shipbob", order_id |-> 1],
                 [status |-> "open", stalled |-> TRUE], [created_at |-> 70, queued_at |-> 90],
                 [pick_sla_breached |-> Word, age_hours |-> 5],
                 [pick_sla_breached |-> Yes, age_hours |-> 5, order_id |-> Word],
                 [pick_sla_breached |-> One, age_hours |-> Word, queued_at |-> 95],
                 [sla_hours |-> Word, age_hours |-> 5, stalled |-> TRUE, status |-> "open"]}}

Scans ==
  {<<>>, [days_since_last_scan |-> 3], [days_since_last_scan |-> 2], [last_scan_at |-> 28],
   [tracking_status |-> "delayed"], [shipment_status |-> "delivered", reported_missing |-> TRUE],
   [delivery |-> [days_since_last_scan |-> 4]],
   [shipment |-> [status |-> "in_transit", last_scan_at |-> 20], reported_damaged |-> TRUE]}

Asked ==
  {<<>>, [exception_type |-> "wismo"], [exception_type |-> "unheard_of"],
   [request_type |-> "cancel_order"], [ticket |-> [intent |-> "wismo", id |-> 7]],
   [request_type |-> "swap_item", requested_changes |-> <<[action |-> "swap"]>>],
   [request_type |-> "swap_item", requested_changes |-> <<Word>>],
   [request_type |-> "address_change_request", requested_address |-> [city |-> "new"]],
   [context |-> [customer_request |-> [type |-> "damage_claim"]]]}

MCPayloads ==
  {Lift(<<a, b, c>>) : a \in Scores, b \in OfOrder, c \in Stock \cup Picking \cup Scans \cup Asked}
  \cup {Lift(<<a, b, c>>) : a \in Stock, b \in Picking, c \in Scans \cup Asked}
  \cup {Lift(<<a, b>>) : a \in Scans, b \in Asked}

MCSeeds == {BuildWebhookCaseSeed("shipbob", p) : p \in MCPayloads}

\* What dispatcher.py sends, and what a test or a developer does.
MCInputs ==
  {[merchant |-> "an id", order |-> s.order, context |-> s.context, supplied |-> s.exceptionType,
    answer |-> None] : s \in MCSeeds}
  \cup
  {[merchant |-> "demo-merchant", order |-> s.order, context |-> s.context, supplied |-> None,
    answer |-> None] : s \in MCSeeds}
  \cup
  {[merchant |-> "demo-merchant", order |-> s.order, context |-> s.context, supplied |-> None,
    answer |-> a] : s \in {BuildWebhookCaseSeed("shipbob", p) : p \in Scores},
                    a \in Lanes \cup {"unheard_of"}}
===============================================================================
