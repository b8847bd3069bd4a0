-------------------------- MODULE OrderExceptionIntake -------------------------
(***************************************************************************)
(* From a webhook to the facts of a case, as operators:                    *)
(*   classifier.py   a provider's payload becomes an order and a context   *)
(*                   (apps/api/src/api/webhooks),                          *)
(*   order_exception.py   these two become a lane (packages/shared-schemas)*)
(*   llm_layer.py    the lane may be replaced by a model's answer,         *)
(*   fop_evaluator.py, fop_loader.py   the merchant's operating procedures *)
(*                   are matched (apps/agents/src/agents/shared),          *)
(*   subagents.py    the lane's subagent reads the context once more.      *)
(*                                                                         *)
(* A JSON object is a function from the keys it has to their values, and a *)
(* list a sequence.  The sections of a context are objects, and what a     *)
(* reader compares with names is a text.  A flag, number, date, list or    *)
(* object may also be something else, which its readers convert or skip    *)
(* each in its own way: Word, Yes and One stand for that.  A text that     *)
(* spells a number is that number; empty texts and letter case are left    *)
(* out.  Instants are in hours.                                            *)
(***************************************************************************)
EXTENDS OrderExceptionPlans, Integers, TLC

CONSTANTS
  None,   \* Python's None, an absent key
  Word,   \* something that is not what its reader looks for, and true for Python
  Yes,    \* a text that _bool takes for true: "yes", "true" or "1"
  One,    \* the number 1 in the place of a flag
  Now     \* datetime.now of the classifier and the subagent

Field(object, key) == IF key \in DOMAIN object THEN object[key] ELSE None

\* _nested for a path of two keys.
Nested(object, section, key) ==
  IF section \in DOMAIN object THEN Field(object[section], key) ELSE None

\* Python's "or" of strings, lists or booleans, and of numbers.
Or(a, b)       == IF a = None THEN b ELSE a
OrNumber(a, b) == IF a \in {None, 0} THEN b ELSE a

\* Python's bool, and the subagents' _bool: a text or a number is true for the
\* first, and only a text that says so for the second.
Truth(value) == value \notin {None, FALSE}
Bool(value)  == value \in {TRUE, Yes}

\* _number and _datetime, which make None of what they cannot read; and the
\* objects of what may be a list, as in _json_list.
Read(value)    == IF value = Word THEN None ELSE value
Objects(value) ==
  IF value \in {None, Word} THEN <<>> ELSE SelectSeq(value, LAMBDA item : item # Word)

\* The values of a number's place, and what Read makes of them.
Readable(value) == value \in Int \cup {None, Word}
Numeric(value)  == value \in Int \cup {None}

\* An object or a list with something in it.
Given(value) == value \notin {None, Word} /\ DOMAIN value # {}

\* A key that holds a dictionary with something in it.
Filled(object, key) == key \in DOMAIN object /\ DOMAIN object[key] # {}

With(context, key, object) ==
  [k \in DOMAIN context \cup {key} |-> IF k = key THEN object ELSE context[k]]

SetDefault(context, key, object) == IF key \in DOMAIN context THEN context ELSE With(context, key, object)

-------------------------------------------------------------------------------
(* order_exception.py: classify_order_exception. *)

RequestType(context) ==
  Or(Nested(context, "customer_request", "type"),
     Or(Nested(context, "ticket", "intent"),
        Or(Nested(context, "ticket", "type"),
           Or(Nested(context, "ticket", "category"), Nested(context, "support_request", "type")))))

\* What has passed between two instants, as far as they are known.
Elapsed(from, to) == IF from = None THEN None ELSE IF to < from THEN 0 ELSE to - from

\* _age_hours; Order is asked for its creation before the fulfillment is.
AgeHours(order, context) ==
  LET fulfillment(key) == Nested(context, "fulfillment", key)
      createdAt == Or(Field(order, "created_at"),
                      Or(fulfillment("created_at"), fulfillment("queued_at")))
      referenceAt == Or(fulfillment("reference_at"),
                        Or(fulfillment("updated_at"), Field(context, "reference_at")))
  IN Or(Read(fulfillment("age_hours")), Elapsed(Read(createdAt), Or(Read(referenceAt), Now)))

\* _days_since_last_scan.
DaysSinceLastScan(context) ==
  LET shipment(key) == Nested(context, "shipment", key)
      delivery(key) == Nested(context, "delivery", key)
      lastScanAt  == Or(shipment("last_scan_at"), delivery("last_scan_at"))
      referenceAt == Or(shipment("reference_at"),
                        Or(delivery("reference_at"), Field(context, "reference_at")))
      elapsed     == Elapsed(Read(lastScanAt), Or(Read(referenceAt), Now))
  IN Or(Read(Or(shipment("days_since_last_scan"), delivery("days_since_last_scan"))),
        IF elapsed = None THEN None ELSE elapsed \div 24)

IsOrderNotPicked(order, context) ==
  LET status == Or(Nested(context, "fulfillment", "status"), Field(order, "displayFulfillmentStatus"))
      waiting == {"awaiting_pick", "backlog", "not_picked", "open", "pending", "unfulfilled"}
      age == AgeHours(order, context)
      sla == Read(Or(Nested(context, "fulfillment", "sla_hours"), 24))
  IN
  /\ status \notin {"picked", "packed", "fulfilled", "in_transit", "delivered", "shipped"}
  /\ \/ Truth(Nested(context, "fulfillment", "pick_sla_breached"))
     \/ /\ age = None \/ sla = None
        /\ status \in waiting /\ Truth(Nested(context, "fulfillment", "stalled"))
     \/ /\ age # None /\ sla # None /\ age >= sla
        /\ status \in waiting \cup {None}

IsStuckInTransit(context) ==
  LET status == Or(Nested(context, "shipment", "status"), Nested(context, "delivery", "status"))
      days   == DaysSinceLastScan(context)
  IN
  \/ status \in {"stuck_in_transit", "no_movement", "delayed"}
  \/ /\ days # None /\ days >= 3
     /\ status \in {None, "carrier_picked_up", "exception", "in_transit", "label_printed",
                    "label_purchased", "out_for_delivery"}

RiskScore(order, context) ==
  Read(Or(Nested(context, "risk", "score"), Nested(order, "risk", "score")))

OutOfStock(context) ==
  \/ Truth(Nested(context, "inventory", "has_out_of_stock_line"))
  \/ Nested(context, "inventory", "out_of_stock_lines") \notin {None, <<>>}

\* The types of a request that lead to a lane.
RequestsFor(lane) ==
  CASE lane = "order_cancellation_request" ->
         {"cancel_order", "cancel", "order_cancellation_request"}
    [] lane = "item_change_request" ->
         {"item_change_request", "change_item", "swap_item", "remove_item", "add_item",
          "size_change"}
    [] lane = "address_change_request" ->
         {"address_change_request", "change_address", "address_update",
          "shipping_address_change"}
    [] lane = "delivered_not_received" ->
         {"delivered_not_received", "missing_delivery", "porch_piracy"}
    [] lane = "damaged_in_transit" -> {"damaged_in_transit", "damage_claim"}
    [] lane = "wismo" -> {"wismo", "where_is_my_order", "tracking_request"}
    [] OTHER -> {}

\* What stands for nothing or for another kind of value is not a number or one
\* of the flags; nothing absent is the name of a lane or of a request.
ASSUME IntakeAssumption ==
  /\ {None, Word} \cap Int = {}
  /\ {Word, Yes, One} \cap {None, FALSE} = {} /\ {Word, One} \cap {TRUE, Yes} = {}
  /\ None \notin Lanes
  /\ \A lane \in Lanes : None \notin RequestsFor(lane)
  /\ Now \in Nat

\* The tests in the order of the code; the first that holds gives the lane.
Tests(order, context) ==
  LET score == RiskScore(order, context)
      asked(lane) == RequestType(context) \in RequestsFor(lane)
      test(lane, holds) == [lane |-> lane, holds |-> holds]
      onRequest(lane) == test(lane, asked(lane))
  IN
  <<onRequest("order_cancellation_request"),
    onRequest("item_change_request"),
    onRequest("address_change_request"),
    test("delivered_not_received",
         asked("delivered_not_received") \/ Truth(Nested(context, "delivery", "reported_missing"))),
    test("damaged_in_transit",
         asked("damaged_in_transit") \/ Truth(Nested(context, "delivery", "reported_damaged"))),
    test("fraud_triage", score # None /\ score >= 50),
    test("order_not_picked", IsOrderNotPicked(order, context)),
    test("inventory_conflict", OutOfStock(context)),
    test("stuck_in_transit", IsStuckInTransit(context)),
    onRequest("wismo"),
    test("wismo", Filled(context, "shipment") \/ Filled(context, "delivery")),
    test("fraud_triage", TRUE)>>

ClassifyOrderException(order, context) ==
  IF Field(context, "exception_type") \in Lanes THEN context["exception_type"]
  ELSE LET tests == Tests(order, context)
       IN tests[SelectInSeq(tests, LAMBDA t : t.holds)].lane

-------------------------------------------------------------------------------
(* classifier.py: what a webhook's payload says, lifted into a context that *)
(* has the section already only if it is empty.                             *)

LiftRiskContext(context, payload, order) ==
  LET own    == OrNumber(Field(payload, "risk_score"), Nested(order, "risk", "score"))
      scores == ToSet(Objects(Field(payload, "risks"))) \ {None}
      score  == IF own # None \/ scores = {} THEN own
                ELSE CHOOSE s \in scores : \A t \in scores : t <= s
  IN IF Filled(context, "risk") \/ score = None THEN context
     ELSE With(context, "risk", [score |-> score])

\* A line without stock; "or" passes over a fulfillable quantity of 0.
LineOutOfStock(line) ==
  \/ OrNumber(Field(line, "fulfillable_quantity"), Field(line, "available_quantity")) = 0
  \/ Or(Field(line, "status"), Field(line, "inventory_status"))
       \in {"out_of_stock", "backordered", "inventory_conflict"}

LiftInventoryContext(context, payload, order) ==
  LET lines  == Objects(IF Field(payload, "line_items") \notin {None, <<>>}
                        THEN payload["line_items"] ELSE Field(order, "line_items"))
      status == Or(Field(payload, "status"), Field(payload, "fulfillment_status"))
      out    == SelectSeq(lines, LineOutOfStock)
  IN
  IF \/ Filled(context, "inventory")
     \/ out = <<>> /\ status \notin {"out_of_stock", "backordered", "inventory_conflict"}
  THEN context
  ELSE With(context, "inventory",
            [has_out_of_stock_line |-> TRUE,
             out_of_stock_lines |-> IF out # <<>> THEN out ELSE <<[status |-> status]>>])

LiftCustomerRequestContext(context, payload) ==
  LET type == Or(Field(payload, "request_type"), Nested(payload, "ticket", "intent"))
      typed == IF type = None THEN context ELSE With(context, "customer_request", [type |-> type])
      \* what is asked for, under the request and under a section of its own
      asked(ctx, key, section) ==
        IF ~Given(Field(payload, key)) THEN ctx
        ELSE LET request == Or(Field(ctx, "customer_request"), <<>>)
                 value   == key :> payload[key]
             IN SetDefault(With(ctx, "customer_request", request @@ value), section, value)
  IN
  IF Filled(context, "customer_request") THEN context
  ELSE asked(asked(typed, "requested_address", "address_change"), "requested_changes", "item_change")

LiftShipmentContext(provider, context, payload) ==
  LET status == Or(Field(payload, "shipment_status"),
                   Or(Field(payload, "tracking_status"), Field(payload, "carrier_status")))
      known  == \/ status # None
                \/ \E key \in {"tracking_number", "last_scan_at", "days_since_last_scan"} :
                     Field(payload, key) # None
      shipped == IF ~known THEN context
                 ELSE With(context, "shipment",
                        [provider |-> provider, status |-> status,
                         last_scan_at |-> Field(payload, "last_scan_at"),
                         days_since_last_scan |-> Field(payload, "days_since_last_scan"),
                         shipment_id |-> Field(payload, "shipment_id")])
      missing == Truth(Field(payload, "reported_missing"))
      damaged == Truth(Field(payload, "reported_damaged"))
  IN
  IF Filled(context, "shipment") THEN context
  ELSE IF ~missing /\ ~damaged THEN shipped
  ELSE With(shipped, "delivery",
            [reported_missing |-> missing, reported_damaged |-> damaged,
             status |-> Or(Field(payload, "delivery_status"), status)])

OrderFromPayload(payload) ==
  IF "order" \in DOMAIN payload THEN payload["order"]
  ELSE Restrict(payload, {"id", "order_id", "line_items", "email", "customer"} \cap DOMAIN payload)

\* The payload's context, over which its own sections take precedence.
ContextFromPayload(provider, payload, order) ==
  LET sections == {"risk", "payment", "inventory", "fulfillment", "shipment", "delivery",
                   "ticket", "customer_request", "address_change", "item_change"}
      merged   == Restrict(payload, sections \cap DOMAIN payload)
                    @@ Or(Field(payload, "context"), <<>>)
      customer == Or(Field(order, "customer"), Field(payload, "customer"))
      known    == IF customer = None THEN merged ELSE With(merged, "customer", customer)
      judged   == LiftInventoryContext(LiftRiskContext(known, payload, order), payload, order)
  IN LiftShipmentContext(provider, LiftCustomerRequestContext(judged, payload), payload)

BuildWebhookCaseSeed(provider, payload) ==
  LET order    == OrderFromPayload(payload)
      lifted   == ContextFromPayload(provider, payload, order)
      context  == IF Field(payload, "exception_type") = None THEN lifted
                  ELSE With(lifted, "exception_type", payload["exception_type"])
  IN [order |-> order, context |-> context,
      exceptionType |-> ClassifyOrderException(order, context)]

-------------------------------------------------------------------------------
(* llm_layer.py and graph.py: the lane of the run.  What the model answers *)
(* is a lane, something else, or None if it is disabled or fails.          *)

RefineSupervisorRoute(lane, answer) == IF answer \in Lanes THEN answer ELSE lane

ClassifyCase(supplied, order, context, answer) ==
  IF supplied \in Lanes THEN supplied
  ELSE RefineSupervisorRoute(ClassifyOrderException(order, context), answer)

-------------------------------------------------------------------------------
(* fop_loader.py and fop_evaluator.py, for the conditions an FOP on file    *)
(* has: no FOP uses another operator or the root "address".                *)

\* _field_value; every root but these three is a section of the context.
FieldValue(root, key, order, context) ==
  CASE root = "order" -> Field(order, key)
    [] root \in {"customer", "risk"} ->
         IF root \in DOMAIN context THEN Nested(context, root, key) ELSE Nested(order, root, key)
    [] OTHER -> Nested(context, root, key)

\* Mutant: a score at the lower end of a band is outside of it.
MatchesConditionStrictly(condition, order, context) ==
  LET actual == FieldValue(condition.root, condition.key, order, context)
      expected == condition.value
      number == Read(actual)
  IN
  CASE condition.operator = "equals" -> actual = expected \/ (actual = One /\ expected = TRUE)
    [] OTHER -> /\ number # None
                /\ IF condition.operator = "less_than_or_equal" THEN number <= expected
                   ELSE number > expected

MatchesCondition(condition, order, context) ==
  LET actual == FieldValue(condition.root, condition.key, order, context)
      expected == condition.value
      number == Read(actual)
  IN
  CASE condition.operator = "equals" -> actual = expected \/ (actual = One /\ expected = TRUE)
    [] condition.operator = "greater_than" -> number # None /\ number > expected
    [] condition.operator = "greater_than_or_equal" -> number # None /\ number >= expected
    [] condition.operator = "less_than_or_equal" -> number # None /\ number <= expected

MatchesConditions(fop, order, context) ==
  /\ \A c \in fop.all : MatchesCondition(c, order, context)
  /\ fop.any = {} \/ \E c \in fop.any : MatchesCondition(c, order, context)

\* evaluate_fops: approvals and automatic actions of what matches.
EvaluateFops(fops, lane, order, context) ==
  LET matched == {fop \in fops : fop.scope = lane /\ MatchesConditions(fop, order, context)}
  IN [matched |-> {fop.id : fop \in matched},
      requiredApprovals |-> UNION {fop.approvals : fop \in matched},
      autoActions |-> UNION {fop.actions : fop \in matched}]

Condition(root, key, operator, value) ==
  [root |-> root, key |-> key, operator |-> operator, value |-> value]

Fop(id, scope, all, any, approvals, actions) ==
  [id |-> id, scope |-> scope, all |-> all, any |-> any, approvals |-> approvals,
   actions |-> actions]

\* apps/agents/fops/demo-merchant.yaml.
DemoMerchantFops ==
  LET message == {"customer_message"}
      asks(type) == Condition("customer_request", "type", "equals", type) IN
  {Fop("fop_fraud_score_cancel", "fraud_triage", {Condition("risk", "score", "greater_than", 80)}, {},
       {}, {"cancel_order", "refund_payment"}),
   Fop("fop_fraud_gray_zone_hold", "fraud_triage",
       {Condition("risk", "score", "greater_than_or_equal", 50),
        Condition("risk", "score", "less_than_or_equal", 80)}, {}, {"fraud_review"}, {}),
   Fop("fop_inventory_oos_partial_ship", "inventory_conflict",
       {Condition("inventory", "has_out_of_stock_line", "equals", TRUE)}, {}, {"partial_ship"}, {}),
   Fop("fop_address_change_pre_ship", "address_change_request",
       {asks("address_change_request")}, {}, message \cup {"address_edit"}, {}),
   Fop("fop_item_change_zero_delta", "item_change_request",
       {asks("item_change_request"), Condition("item_change", "payment_delta", "equals", 0)}, {},
       message \cup {"order_edit"}, {}),
   Fop("fop_pre_ship_cancellation", "order_cancellation_request", {asks("cancel_order")}, {},
       {"cancel_order", "refund_payment"}, {}),
   Fop("fop_pick_sla_breach_proactive_update", "order_not_picked", {},
       {Condition("fulfillment", "pick_sla_breached", "equals", TRUE),
        Condition("fulfillment", "age_hours", "greater_than_or_equal", 24)}, message, {}),
   Fop("fop_stuck_in_transit_customer_update", "stuck_in_transit",
       {Condition("shipment", "days_since_last_scan", "greater_than_or_equal", 3)}, {}, message, {}),
   Fop("fop_wismo_tracking_reply", "wismo", {},
       {asks("wismo"), Condition("ticket", "intent", "equals", "wismo")}, message, {}),
   Fop("fop_delivered_not_received_review", "delivered_not_received",
       {Condition("delivery", "reported_missing", "equals", TRUE)}, {},
       message \cup {"refund_payment"}, {}),
   Fop("fop_damaged_in_transit_review", "damaged_in_transit",
       {Condition("delivery", "reported_damaged", "equals", TRUE)}, {},
       message \cup {"refund_payment"}, {})}

\* A file per merchant slug; a webhook's run names its merchant by id.
LoadFopsForMerchant(merchant) ==
  IF merchant = "demo-merchant" THEN DemoMerchantFops ELSE {}

-------------------------------------------------------------------------------
(* subagents.py: the facts a subagent reads (OrderExceptionPlans).  Its    *)
(* _age_hours and _days_since_last_scan are not the classifier's.          *)

SubagentAgeHours(order, context) ==
  AgeHours(order, IF "fulfillment" \notin DOMAIN context THEN context
                  ELSE With(context, "fulfillment",
                            Restrict(context["fulfillment"],
                                     DOMAIN context["fulfillment"] \ {"created_at"})))

SubagentDaysSinceLastScan(context) ==
  DaysSinceLastScan(IF "delivery" \notin DOMAIN context THEN context
                    ELSE With(context, "delivery",
                              Restrict(context["delivery"],
                                       DOMAIN context["delivery"] \ {"days_since_last_scan"})))

\* Of the lines only the objects count; a flag is enough as it is.
SubagentOutOfStock(context) ==
  \/ Truth(Nested(context, "inventory", "has_out_of_stock_line"))
  \/ Objects(Nested(context, "inventory", "out_of_stock_lines")) # <<>>

WithinSla(order, context) ==
  LET age == SubagentAgeHours(order, context)
      sla == Read(Nested(context, "fulfillment", "sla_hours"))
  IN
  /\ age # None /\ age < OrNumber(sla, 24)
  /\ ~Bool(Nested(context, "fulfillment", "pick_sla_breached"))

RequestedAddress(context) ==
  \E section \in {"customer_request", "address_change"},
     key \in {"shipping_address", "requested_address"} : Given(Nested(context, section, key))

\* The first of the places that holds a list decides.
RequestedItemChanges(context) ==
  Objects(Or(Read(Nested(context, "customer_request", "requested_changes")),
             Or(Read(Nested(context, "item_change", "requested_changes")),
                Read(Nested(context, "item_change", "changes"))))) # <<>>

FactsOf(lane, order, context, fops) ==
  LET fulfillment(key) == Nested(context, "fulfillment", key)
      shipment == IF "shipment" \in DOMAIN context THEN context["shipment"]
                  ELSE Or(Field(context, "delivery"), <<>>)
      customer == Or(Field(context, "customer"), Or(Field(order, "customer"), <<>>))
      email    == Or(Field(customer, "email"), Field(order, "email"))
      ticket   == Read(Or(Nested(context, "ticket", "id"), Field(context, "ticket_id")))
      reference(a, b) == Read(OrNumber(a, b)) # None
      fop      == EvaluateFops(fops, lane, order, context)
  IN
  [lane |-> lane,
   shipStatus |-> Or(Nested(context, "shipment", "status"), fulfillment("status")),
   ticket |-> ticket # None /\ ticket > 0,
   provider |-> IF lane \in {"stuck_in_transit", "wismo"}
                THEN Or(Field(shipment, "provider"), fulfillment("provider"))
                ELSE fulfillment("provider"),
   orderRef |-> reference(fulfillment("provider_order_id"), fulfillment("order_id")),
   holdDate |-> fulfillment("hold_until_date") # None,
   shipmentRef |-> reference(Field(shipment, "provider_shipment_id"), Field(shipment, "shipment_id")),
   details |-> IF lane = "address_change_request" THEN RequestedAddress(context)
               ELSE RequestedItemChanges(context),
   paymentDelta |-> Or(Read(Nested(context, "item_change", "payment_delta")), 0),
   score |-> Or(RiskScore(order, context), 0),
   blocklisted |-> Bool(Or(Nested(context, "customer", "is_blocklisted"),
                           Nested(context, "risk", "blocklisted"))),
   customer |-> Read(Field(customer, "id")) # None \/ email # None,
   email |-> email # None,
   outOfStock |-> SubagentOutOfStock(context),
   withinSla |-> WithinSla(order, context),
   stale |-> \/ SubagentDaysSinceLastScan(context) # None
             \/ Or(Nested(context, "shipment", "status"), Nested(context, "delivery", "status"))
                  \in {"delayed", "stuck_in_transit", "no_movement"},
   refundAmount |-> Or(Read(Nested(context, "delivery", "suggested_partial_refund_amount")), 0),
   approvals |-> fop.requiredApprovals # {},
   autoRefund |-> {"cancel_order", "refund_payment"} \subseteq fop.autoActions]
===============================================================================
