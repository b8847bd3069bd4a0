----------------------- MODULE OrderExceptionPlansProofs -----------------------
(***************************************************************************)
(* What holds of the plan of every subagent, for all values of the facts   *)
(* it reads: the tools are known to the processor, no two calls have one   *)
(* intent, and an edit comes between a hold and the reply.                 *)
(*                                                                         *)
(* A plan is concatenated from parts.  Each part has at most one call, of  *)
(* an intent no other part has; so the argument is about concatenation,    *)
(* and a subagent is a choice of parts.                                    *)
(***************************************************************************)
EXTENDS OrderExceptionPlans, TLAPS

CallsOf(intents, tools) == [tool : tools, intent : intents, write : BOOLEAN]

PlannedFrom(plan, intents, tools) ==
  /\ plan \in Seq(CallsOf(intents, tools))
  /\ \A i, j \in DOMAIN plan : plan[i].intent = plan[j].intent => i = j

\* A plan of these tools, and one whose only intent is this one.
PlanOf(plan, tools)         == \E intents : PlannedFrom(plan, intents, tools)
Part(plan, intent, tools) == PlannedFrom(plan, {intent}, tools)

Edits    == {"shopify_update_shipping_address", "shopify_apply_order_edit"}
Harmless == ExecutionToolRegistry \ Edits
Silent   == Harmless \ {"gorgias_draft_reply"}

\* An edit has a hold before it, and no reply before it.
HeldThenConfirmed(plan) ==
  \A i \in DOMAIN plan : plan[i].tool \in Edits =>
    /\ \E j \in DOMAIN plan : plan[j].tool = "shopify_hold_fulfillment_order" /\ j < i
    /\ \A j \in DOMAIN plan : plan[j].tool = "gorgias_draft_reply" => i < j

-------------------------------------------------------------------------------
(* Concatenation. *)

(* A plan stays one if more intents or tools are allowed. *)
LEMMA Wider ==
  ASSUME NEW s, NEW I, NEW J, NEW S, NEW T,
         PlannedFrom(s, I, S), I \subseteq J, S \subseteq T
  PROVE  PlannedFrom(s, J, T)
<1>1. CallsOf(I, S) \subseteq CallsOf(J, T)
  BY DEF CallsOf
<1>2. s \in Seq(CallsOf(J, T))
  BY <1>1 DEF PlannedFrom
<1> QED
  BY <1>2 DEF PlannedFrom

(* Where an element of a concatenation comes from. *)
LEMMA Concatenation ==
  ASSUME NEW C, NEW s \in Seq(C), NEW t \in Seq(C)
  PROVE  /\ s \o t \in Seq(C)
         /\ DOMAIN (s \o t) \subseteq Int /\ Len(s) \in Int
         /\ \A i \in DOMAIN s : i \in DOMAIN (s \o t) /\ (s \o t)[i] = s[i] /\ i <= Len(s)
         /\ \A i \in DOMAIN (s \o t) :
              \/ i \in DOMAIN s /\ (s \o t)[i] = s[i]
              \/ /\ i \notin DOMAIN s /\ i > Len(s)
                 /\ i - Len(s) \in DOMAIN t /\ (s \o t)[i] = t[i - Len(s)]
OBVIOUS

(* What a plan is made of. *)
LEMMA Elements ==
  ASSUME NEW s, NEW I, NEW T, PlannedFrom(s, I, T)
  PROVE  \A i \in DOMAIN s : s[i].intent \in I /\ s[i].tool \in T
<1>1. \A i \in DOMAIN s : s[i] \in CallsOf(I, T)
  BY DEF PlannedFrom
<1> QED
  BY <1>1 DEF CallsOf

(* Plans without a common intent can be concatenated. *)
LEMMA Joined ==
  ASSUME NEW s, NEW t, NEW I, NEW J, NEW T,
         PlannedFrom(s, I, T), PlannedFrom(t, J, T), I \cap J = {}
  PROVE  PlannedFrom(s \o t, I \cup J, T)
<1>1. s \in Seq(CallsOf(I \cup J, T)) /\ t \in Seq(CallsOf(I \cup J, T))
  BY Wider DEF PlannedFrom
<1>2. /\ \A i \in DOMAIN s : s[i].intent \in I
      /\ \A i \in DOMAIN t : t[i].intent \in J
  BY Elements
<1>3. ASSUME NEW i \in DOMAIN (s \o t), NEW j \in DOMAIN (s \o t),
             (s \o t)[i].intent = (s \o t)[j].intent
      PROVE  i = j
  <2> DEFINE c == s \o t
             Left(n)  == n \in DOMAIN s /\ c[n] = s[n]
             Right(n) == n - Len(s) \in DOMAIN t /\ c[n] = t[n - Len(s)]
  <2>1. (Left(i) \/ Right(i)) /\ (Left(j) \/ Right(j))
    BY <1>1, Concatenation
  <2>2. i \in Int /\ j \in Int /\ Len(s) \in Int
    BY <1>1, Concatenation
  <2>3. c[i].intent = c[j].intent
    BY <1>3
  <2> HIDE DEF c
  <2>4. CASE Left(i) /\ Left(j)
    BY <2>3, <2>4 DEF PlannedFrom
  <2>5. CASE Right(i) /\ Right(j)
    <3>1. i - Len(s) = j - Len(s)
      BY <2>3, <2>5 DEF PlannedFrom
    <3> QED
      BY <2>2, <3>1
  <2>6. CASE (Left(i) /\ Right(j)) \/ (Right(i) /\ Left(j))
    BY <1>2, <2>3, <2>6
  <2> QED
    BY <2>1, <2>4, <2>5, <2>6
<1> QED
  BY <1>1, <1>3, Concatenation DEF PlannedFrom

(* The same of two, three, four and five parts. *)
LEMMA TwoParts ==
  ASSUME NEW s1, NEW s2, NEW a, NEW b, NEW T,
         Part(s1, a, T), Part(s2, b, T), a # b
  PROVE  PlannedFrom(s1 \o s2, {a} \cup {b}, T)
BY Joined, {a} \cap {b} = {} DEF Part

\* As TwoParts, of three.
LEMMA ThreeParts ==
  ASSUME NEW s1, NEW s2, NEW s3, NEW a, NEW b, NEW c, NEW T,
         Part(s1, a, T), Part(s2, b, T), Part(s3, c, T),
         a # b, a # c, b # c
  PROVE  PlannedFrom(s1 \o s2 \o s3, {a} \cup {b} \cup {c}, T)
<1>1. PlannedFrom(s1 \o s2, {a} \cup {b}, T)
  BY TwoParts
<1> QED
  BY <1>1, Joined, ({a} \cup {b}) \cap {c} = {} DEF Part

\* As TwoParts, of four.
LEMMA FourParts ==
  ASSUME NEW s1, NEW s2, NEW s3, NEW s4, NEW a, NEW b, NEW c, NEW d, NEW T,
         Part(s1, a, T), Part(s2, b, T), Part(s3, c, T), Part(s4, d, T),
         a # b, a # c, a # d, b # c, b # d, c # d
  PROVE  PlannedFrom(s1 \o s2 \o s3 \o s4, {a} \cup {b} \cup {c} \cup {d}, T)
<1>1. PlannedFrom(s1 \o s2 \o s3, {a} \cup {b} \cup {c}, T)
  BY ThreeParts
<1> QED
  BY <1>1, Joined, ({a} \cup {b} \cup {c}) \cap {d} = {} DEF Part

\* As TwoParts, of five.
LEMMA FiveParts ==
  ASSUME NEW s1, NEW s2, NEW s3, NEW s4, NEW s5,
         NEW a, NEW b, NEW c, NEW d, NEW e, NEW T,
         Part(s1, a, T), Part(s2, b, T), Part(s3, c, T), Part(s4, d, T), Part(s5, e, T),
         a # b, a # c, a # d, b # c, b # d, c # d, e # a, e # b, e # c, e # d
  PROVE  PlannedFrom(s1 \o s2 \o s3 \o s4 \o s5, {a} \cup {b} \cup {c} \cup {d} \cup {e}, T)
<1>1. PlannedFrom(s1 \o s2 \o s3 \o s4, {a} \cup {b} \cup {c} \cup {d}, T)
  BY FourParts
<1> QED
  BY <1>1, Joined, ({a} \cup {b} \cup {c} \cup {d}) \cap {e} = {} DEF Part

-------------------------------------------------------------------------------
(* The parts the subagents are made of. *)

(* One call is a part, and so is no call. *)
LEMMA OneCall ==
  ASSUME NEW T, NEW tool \in T, NEW intent
  PROVE  Part(<<PlannedCall(tool, intent)>>, intent, T)
<1>1. PlannedCall(tool, intent) \in CallsOf({intent}, T)
  BY DEF PlannedCall, CallsOf
<1> QED
  BY <1>1 DEF Part, PlannedFrom

\* A part that is left out.
LEMMA NoCall ==
  ASSUME NEW T, NEW intent
  PROVE  Part(<<>>, intent, T)
BY DEF Part, PlannedFrom

(* The tools without edits and replies. *)
LEMMA Tools ==
  /\ Silent \subseteq Harmless /\ Harmless \subseteq ExecutionToolRegistry
  /\ Edits \subseteq ExecutionToolRegistry
  /\ "shopify_hold_fulfillment_order" \in Silent /\ "shopify_update_order_note" \in Silent
  /\ "shopify_search_orders" \in Silent /\ "gorgias_search_customer" \in Silent
  /\ "shipbob_hold_order" \in Silent /\ "shipstation_hold_order" \in Silent
  /\ "shipbob_get_order" \in Silent /\ "shipstation_get_order" \in Silent
  /\ "shipbob_get_shipment" \in Silent /\ "shipstation_get_shipment" \in Silent
  /\ "shopify_cancel_order" \in Silent /\ "shopify_create_refund" \in Silent
  /\ "gorgias_draft_reply" \in Harmless
BY DEF Silent, Harmless, Edits, ExecutionToolRegistry

(* What every subagent may plan, as far as what it needs is known.         *)
LEMMA CommonParts ==
  ASSUME NEW f, NEW intent, NEW T, Harmless \subseteq T
  PROVE  /\ Part(Hold(intent), intent, T)
         /\ Part(OrderNote(intent), intent, T)
         /\ Part(DraftReply(f, intent), intent, T)
         /\ Part(CustomerHistory(f, intent), intent, T)
         /\ Part(SupportHistory(f, intent), intent, T)
BY Tools, OneCall, NoCall
DEF When, Hold, OrderNote, DraftReply, CustomerHistory, SupportHistory

(* A part and nothing are that part. *)
LEMMA PartAndNothing ==
  ASSUME NEW s, NEW intent, NEW T, Part(s, intent, T)
  PROVE  Part(s \o <<>>, intent, T) /\ Part(<<>> \o s, intent, T)
<1>1. PICK C : s \in Seq(C)
  BY DEF Part, PlannedFrom
<1>2. s \o <<>> = s /\ <<>> \o s = s
  BY <1>1
<1> QED
  BY <1>2

(* The provider is one of the two, so one call at most is planned for it.  *)
LEMMA ThreePlParts ==
  ASSUME NEW f, NEW intent, NEW T, Silent \subseteq T
  PROVE  /\ Part(ThreePlHold(f, intent), intent, T)
         /\ Part(ThreePlOrder(f, intent), intent, T)
         /\ Part(ThreePlShipment(f, intent), intent, T)
<1>1. \A tool \in T : /\ Part(<<PlannedCall(tool, intent)>> \o <<>>, intent, T)
                      /\ Part(<<>> \o <<PlannedCall(tool, intent)>>, intent, T)
  BY OneCall, PartAndNothing
<1>2. Part(<<>> \o <<>>, intent, T)
  BY NoCall, PartAndNothing
<1> USE <1>1, <1>2, Tools DEF When
<1>3. Part(ThreePlHold(f, intent), intent, T)
  BY DEF ThreePlHold
<1>4. Part(ThreePlOrder(f, intent), intent, T)
  BY DEF ThreePlOrder
<1>5. Part(ThreePlShipment(f, intent), intent, T)
  BY DEF ThreePlShipment
<1> QED
  BY <1>3, <1>4, <1>5

-------------------------------------------------------------------------------
(* The order of edit, hold and reply. *)

(* A plan without edits has nothing to order.                              *)
LEMMA NoEditNoOrder ==
  ASSUME NEW plan, PlanOf(plan, Harmless)
  PROVE  HeldThenConfirmed(plan)
<1>1. PICK I : PlannedFrom(plan, I, Harmless)
  BY DEF PlanOf
<1> QED
  BY <1>1, Elements DEF HeldThenConfirmed, Harmless

(* An edit after a hold, before anything is replied. *)
LEMMA EditAfterHold ==
  ASSUME NEW s, NEW edit, PlanOf(s, Silent), Len(edit) = 1, PlanOf(edit, ExecutionToolRegistry),
         \E j \in DOMAIN s : s[j].tool = "shopify_hold_fulfillment_order",
         edit[1].tool # "gorgias_draft_reply"
  PROVE  HeldThenConfirmed(s \o edit)
<1>1. PICK I : PlannedFrom(s, I, Silent)
  BY DEF PlanOf
<1>2. PICK J : PlannedFrom(edit, J, ExecutionToolRegistry)
  BY DEF PlanOf
<1>3. \A i \in DOMAIN s : s[i].tool \notin Edits /\ s[i].tool # "gorgias_draft_reply"
  BY <1>1, Elements DEF Silent, Harmless
<1> DEFINE C == CallsOf(I \cup J, ExecutionToolRegistry)
<1>4. s \in Seq(C) /\ edit \in Seq(C)
  BY <1>1, <1>2, Wider, Tools DEF PlannedFrom
<1>5. \A i \in DOMAIN (s \o edit) : i \notin DOMAIN s => (s \o edit)[i] = edit[1] /\ i > Len(s)
  BY <1>4, Concatenation
<1> HIDE DEF C
<1>6. ASSUME NEW i \in DOMAIN (s \o edit), (s \o edit)[i].tool \in Edits
      PROVE  /\ \E j \in DOMAIN (s \o edit) :
                   (s \o edit)[j].tool = "shopify_hold_fulfillment_order" /\ j < i
             /\ \A j \in DOMAIN (s \o edit) : (s \o edit)[j].tool # "gorgias_draft_reply"
  <2>1. i \notin DOMAIN s /\ i > Len(s)
    BY <1>3, <1>4, <1>5, <1>6, Concatenation
  <2>2. PICK j \in DOMAIN s : s[j].tool = "shopify_hold_fulfillment_order"
    OBVIOUS
  <2>3. j \in DOMAIN (s \o edit) /\ (s \o edit)[j] = s[j] /\ j < i
    BY <1>4, <2>1, Concatenation
  <2>4. \A k \in DOMAIN (s \o edit) : (s \o edit)[k].tool # "gorgias_draft_reply"
    BY <1>3, <1>4, <1>5, Concatenation
  <2> QED
    BY <2>2, <2>3, <2>4
<1> QED
  BY <1>6 DEF HeldThenConfirmed

(* What follows the edits, replies included, changes nothing. *)
LEMMA ReplyAfterEdit ==
  ASSUME NEW s, NEW t, PlanOf(s, ExecutionToolRegistry), HeldThenConfirmed(s), PlanOf(t, Harmless)
  PROVE  HeldThenConfirmed(s \o t)
<1>1. PICK I : PlannedFrom(s, I, ExecutionToolRegistry)
  BY DEF PlanOf
<1>2. PICK J : PlannedFrom(t, J, Harmless)
  BY DEF PlanOf
<1> DEFINE C == CallsOf(I \cup J, ExecutionToolRegistry)
<1>3. s \in Seq(C) /\ t \in Seq(C)
  BY <1>1, <1>2, Wider, Tools DEF PlannedFrom
<1>4. \A i \in DOMAIN t : t[i].tool \notin Edits
  BY <1>2, Elements DEF Harmless
<1> HIDE DEF C
<1>5. ASSUME NEW i \in DOMAIN (s \o t), (s \o t)[i].tool \in Edits
      PROVE  i \in DOMAIN s /\ (s \o t)[i] = s[i] /\ i <= Len(s)
  BY <1>3, <1>4, <1>5, Concatenation
<1>6. ASSUME NEW i \in DOMAIN (s \o t), (s \o t)[i].tool \in Edits
      PROVE  \E j \in DOMAIN (s \o t) :
               (s \o t)[j].tool = "shopify_hold_fulfillment_order" /\ j < i
  <2>1. PICK j \in DOMAIN s : s[j].tool = "shopify_hold_fulfillment_order" /\ j < i
    BY <1>5, <1>6 DEF HeldThenConfirmed
  <2> QED
    BY <1>3, <2>1, Concatenation
<1>7. ASSUME NEW i \in DOMAIN (s \o t), (s \o t)[i].tool \in Edits,
             NEW j \in DOMAIN (s \o t), (s \o t)[j].tool = "gorgias_draft_reply"
      PROVE  i < j
  <2>1. i \in DOMAIN s /\ s[i].tool \in Edits /\ i <= Len(s) /\ i \in Int /\ j \in Int /\ Len(s) \in Int
    BY <1>3, <1>5, <1>7, Concatenation
  <2>2. CASE j \in DOMAIN s
    <3>1. s[j].tool = "gorgias_draft_reply"
      BY <1>3, <1>7, <2>2, Concatenation
    <3> QED
      BY <2>1, <2>2, <3>1 DEF HeldThenConfirmed
  <2>3. CASE j \notin DOMAIN s
    <3>1. j > Len(s)
      BY <1>3, <2>3, Concatenation
    <3> QED
      BY <2>1, <3>1
  <2> QED
    BY <2>2, <2>3
<1> QED
  BY <1>6, <1>7 DEF HeldThenConfirmed

-------------------------------------------------------------------------------
(* The subagents. *)

\* What the processor and the FOPs ask of a plan.
GoodPlan(plan) == PlanOf(plan, ExecutionToolRegistry) /\ HeldThenConfirmed(plan)

(* A plan without edits is good. *)
LEMMA HarmlessPlanIsGood ==
  ASSUME NEW plan, PlanOf(plan, Harmless)
  PROVE  GoodPlan(plan)
BY NoEditNoOrder, Wider, Tools DEF GoodPlan, PlanOf

(* So is an empty one. *)
LEMMA NoPlanIsHarmless == PlanOf(<<>>, Harmless)
BY NoCall DEF Part, PlanOf

(* A hold that says nothing to the customer, first in the plan. *)
LEMMA HoldFirst ==
  ASSUME NEW intent, NEW other, NEW s, Part(s, other, Silent)
  PROVE  /\ Part(Hold(intent), intent, Silent)
         /\ \E j \in DOMAIN Hold(intent) :
              Hold(intent)[j].tool = "shopify_hold_fulfillment_order"
         /\ \E j \in DOMAIN (Hold(intent) \o s) :
              (Hold(intent) \o s)[j].tool = "shopify_hold_fulfillment_order"
<1> DEFINE C == CallsOf({intent} \cup {other}, Silent)
<1>1. Part(Hold(intent), intent, Silent)
  BY OneCall, Tools DEF Hold
<1>2. 1 \in DOMAIN Hold(intent) /\ Hold(intent)[1].tool = "shopify_hold_fulfillment_order"
  BY DEF Hold, PlannedCall
<1>3. Hold(intent) \in Seq(C) /\ s \in Seq(C)
  BY <1>1, Wider DEF Part, PlannedFrom
<1> HIDE DEF C
<1>4. 1 \in DOMAIN (Hold(intent) \o s) /\ (Hold(intent) \o s)[1] = Hold(intent)[1]
  BY <1>2, <1>3, Concatenation
<1> QED
  BY <1>1, <1>2, <1>4

(* The address change: held, synchronized, edited, noted and confirmed.    *)
LEMMA AddressChangePlan ==
  ASSUME NEW f
  PROVE  GoodPlan(AddressChange(f))
<1>1. CASE IsShipped(f)
  <2>1. PlanOf(AddressChange(f), Harmless)
    BY <1>1, CommonParts, TwoParts DEF AddressChange, PlanOf
  <2> QED
    BY <2>1, HarmlessPlanIsGood
<1>2. CASE ~IsShipped(f) /\ ~f.details
  <2>1. PlanOf(AddressChange(f), Harmless)
    BY <1>2, CommonParts, ThreeParts DEF AddressChange, PlanOf
  <2> QED
    BY <2>1, HarmlessPlanIsGood
<1>3. CASE ~IsShipped(f) /\ f.details
  <2> DEFINE hold  == Hold("hold_for_address_change")
             sync  == ThreePlHold(f, "sync_address_change_to_3pl")
             edit  == <<PlannedCall("shopify_update_shipping_address",
                                    "update_shopify_shipping_address")>>
             note  == OrderNote("annotate_address_change_request")
             reply == DraftReply(f, "draft_address_change_confirmation")
             All   == ExecutionToolRegistry
  <2>1. /\ Part(hold, "hold_for_address_change", Silent)
        /\ Part(sync, "sync_address_change_to_3pl", Silent)
        /\ \E j \in DOMAIN (hold \o sync) :
             (hold \o sync)[j].tool = "shopify_hold_fulfillment_order"
    BY HoldFirst, ThreePlParts
  <2>2. /\ Part(hold, "hold_for_address_change", All)
        /\ Part(sync, "sync_address_change_to_3pl", All)
    BY CommonParts, ThreePlParts, Tools
  <2>3. Part(edit, "update_shopify_shipping_address", All)
    BY OneCall, Tools DEF Edits
  <2>4. Len(edit) = 1 /\ edit[1].tool # "gorgias_draft_reply"
    BY DEF PlannedCall
  <2>5. /\ Part(note, "annotate_address_change_request", All)
        /\ Part(reply, "draft_address_change_confirmation", All)
        /\ PlanOf(note, Harmless) /\ PlanOf(reply, Harmless)
    BY CommonParts, Tools DEF Part, PlanOf
  <2>6. AddressChange(f) = hold \o sync \o edit \o note \o reply
    BY <1>3 DEF AddressChange
  <2> HIDE DEF hold, sync, edit, note, reply
  <2>7. PlanOf(hold \o sync, Silent) /\ PlanOf(edit, All)
    BY <2>1, <2>3, TwoParts DEF PlanOf, Part
  <2>8. HeldThenConfirmed(hold \o sync \o edit)
    BY <2>1, <2>4, <2>7, EditAfterHold
  <2>9. /\ PlanOf(hold \o sync \o edit, All)
        /\ PlanOf(hold \o sync \o edit \o note, All)
        /\ PlanOf(hold \o sync \o edit \o note \o reply, All)
    BY <2>2, <2>3, <2>5, ThreeParts, FourParts, FiveParts DEF PlanOf
  <2>10. HeldThenConfirmed(hold \o sync \o edit \o note)
    BY <2>5, <2>8, <2>9, ReplyAfterEdit
  <2>11. HeldThenConfirmed(hold \o sync \o edit \o note \o reply)
    BY <2>5, <2>9, <2>10, ReplyAfterEdit
  <2> QED
    BY <2>6, <2>9, <2>11 DEF GoodPlan
<1> QED
  BY <1>1, <1>2, <1>3

(* The item change: held, edited, noted and confirmed.                     *)
LEMMA ItemChangePlan ==
  ASSUME NEW f
  PROVE  GoodPlan(ItemChange(f))
<1>1. CASE IsShipped(f)
  <2>1. PlanOf(ItemChange(f), Harmless)
    BY <1>1, CommonParts, TwoParts DEF ItemChange, PlanOf
  <2> QED
    BY <2>1, HarmlessPlanIsGood
<1>2. CASE ~IsShipped(f) /\ ~f.details
  <2>1. PlanOf(ItemChange(f), Harmless)
    BY <1>2, CommonParts, ThreeParts DEF ItemChange, PlanOf
  <2> QED
    BY <2>1, HarmlessPlanIsGood
<1>3. CASE ~IsShipped(f) /\ f.details /\ f.paymentDelta # 0
  <2>1. PlanOf(ItemChange(f), Harmless)
    BY <1>3, CommonParts, ThreeParts DEF ItemChange, PlanOf
  <2> QED
    BY <2>1, HarmlessPlanIsGood
<1>4. CASE ~IsShipped(f) /\ f.details /\ f.paymentDelta = 0
  <2> DEFINE hold  == Hold("hold_for_item_change")
             edit  == <<PlannedCall("shopify_apply_order_edit", "apply_requested_item_change")>>
             note  == OrderNote("annotate_item_change_request")
             reply == DraftReply(f, "draft_item_change_confirmation")
             All   == ExecutionToolRegistry
  <2>1. /\ Part(hold, "hold_for_item_change", Silent)
        /\ \E j \in DOMAIN hold : hold[j].tool = "shopify_hold_fulfillment_order"
    BY NoCall, HoldFirst
  <2>2. Part(hold, "hold_for_item_change", All)
    BY CommonParts, Tools
  <2>3. Part(edit, "apply_requested_item_change", All)
    BY OneCall, Tools DEF Edits
  <2>4. Len(edit) = 1 /\ edit[1].tool # "gorgias_draft_reply"
    BY DEF PlannedCall
  <2>5. /\ Part(note, "annotate_item_change_request", All)
        /\ Part(reply, "draft_item_change_confirmation", All)
        /\ PlanOf(note, Harmless) /\ PlanOf(reply, Harmless)
    BY CommonParts, Tools DEF Part, PlanOf
  <2>6. ItemChange(f) = hold \o edit \o note \o reply
    BY <1>4 DEF ItemChange
  <2> HIDE DEF hold, edit, note, reply
  <2>7. PlanOf(hold, Silent) /\ PlanOf(edit, All)
    BY <2>1, <2>3 DEF PlanOf, Part
  <2>8. HeldThenConfirmed(hold \o edit)
    BY <2>1, <2>4, <2>7, EditAfterHold
  <2>9. /\ PlanOf(hold \o edit, All)
        /\ PlanOf(hold \o edit \o note, All)
        /\ PlanOf(hold \o edit \o note \o reply, All)
    BY <2>2, <2>3, <2>5, TwoParts, ThreeParts, FourParts DEF PlanOf
  <2>10. HeldThenConfirmed(hold \o edit \o note)
    BY <2>5, <2>8, <2>9, ReplyAfterEdit
  <2>11. HeldThenConfirmed(hold \o edit \o note \o reply)
    BY <2>5, <2>9, <2>10, ReplyAfterEdit
  <2> QED
    BY <2>6, <2>9, <2>11 DEF GoodPlan
<1> QED
  BY <1>1, <1>2, <1>3, <1>4

(* The lanes that plan no edit. *)
LEMMA CancellationPlan ==
  ASSUME NEW f
  PROVE  PlanOf(Cancellation(f), Harmless)
<1>1. Part(<<PlannedCall("shopify_cancel_order", "cancel_order_per_customer_request")>>,
           "cancel_order_per_customer_request", Harmless)
  BY OneCall, Tools
<1> QED
  BY <1>1, CommonParts, TwoParts DEF Cancellation, PlanOf

\* The fraud lane holds, or cancels and refunds; it edits nothing.
LEMMA FraudTriagePlan ==
  ASSUME NEW f
  PROVE  PlanOf(FraudTriage(f), Harmless)
<1>1. CASE f.score > 80 /\ f.autoRefund
  <2> DEFINE cancel == PlannedCall("shopify_cancel_order", "cancel_high_fraud_order")
             refund == PlannedCall("shopify_create_refund", "refund_high_fraud_order")
  <2>1. /\ Part(<<cancel>>, "cancel_high_fraud_order", Harmless)
        /\ Part(<<refund>>, "refund_high_fraud_order", Harmless)
    BY OneCall, Tools
  <2>2. FraudTriage(f) = <<cancel>> \o <<refund>>
    BY <1>1 DEF FraudTriage
  <2> HIDE DEF cancel, refund
  <2> QED
    BY <2>1, <2>2, TwoParts DEF PlanOf
<1>2. CASE ~(f.score > 80 /\ f.autoRefund) /\ (f.score >= 50 \/ f.blocklisted)
  BY <1>2, CommonParts, FourParts DEF FraudTriage, PlanOf
<1>3. CASE ~(f.score > 80 /\ f.autoRefund) /\ ~(f.score >= 50 \/ f.blocklisted)
  BY <1>3, NoPlanIsHarmless DEF FraudTriage
<1> QED
  BY <1>1, <1>2, <1>3

\* The lanes of stock and warehouse edit nothing.
LEMMA WarehousePlans ==
  ASSUME NEW f
  PROVE  /\ PlanOf(InventoryConflict(f), Harmless)
         /\ PlanOf(OrderNotPicked(f), Harmless)
         /\ PlanOf(StuckInTransit(f), Harmless)
         /\ PlanOf(Wismo(f), Harmless)
<1>1. PlanOf(InventoryConflict(f), Harmless)
  BY CommonParts, ThreePlParts, Tools, FourParts, NoPlanIsHarmless DEF InventoryConflict, PlanOf
<1>2. PlanOf(OrderNotPicked(f), Harmless)
  BY CommonParts, ThreePlParts, Tools, ThreeParts, NoPlanIsHarmless DEF OrderNotPicked, PlanOf
<1>3. PlanOf(StuckInTransit(f), Harmless)
  BY CommonParts, ThreePlParts, Tools, ThreeParts, NoPlanIsHarmless DEF StuckInTransit, PlanOf
<1>4. PlanOf(Wismo(f), Harmless)
  BY CommonParts, ThreePlParts, Tools, TwoParts DEF Wismo, PlanOf
<1> QED
  BY <1>1, <1>2, <1>3, <1>4

\* The lanes of carriers and claims edit nothing.
LEMMA ClaimPlans ==
  ASSUME NEW f
  PROVE  /\ PlanOf(DeliveredNotReceived(f), Harmless)
         /\ PlanOf(DamagedInTransit(f), Harmless)
<1>1. PlanOf(DeliveredNotReceived(f), Harmless)
  BY CommonParts, FourParts DEF DeliveredNotReceived, PlanOf
<1>2. Part(When(f.refundAmount > 0, "shopify_create_refund", "issue_partial_damage_refund"),
           "issue_partial_damage_refund", Harmless)
  BY OneCall, NoCall, Tools DEF When
<1>3. PlanOf(DamagedInTransit(f), Harmless)
  BY <1>2, CommonParts, ThreeParts DEF DamagedInTransit, PlanOf
<1> QED
  BY <1>1, <1>3

(* Whatever the facts of the case, the processor knows every tool of its   *)
(* plan, no two calls have one idempotency key, and an edit comes after a  *)
(* hold and before the reply.                                              *)
THEOREM EveryPlanIsGood ==
  ASSUME NEW f, NEW route \in Lanes
  PROVE  GoodPlan(Plan(f, route))
<1>1. CASE route = "address_change_request"
  BY <1>1, AddressChangePlan DEF Plan
<1>2. CASE route = "item_change_request"
  BY <1>2, ItemChangePlan DEF Plan
<1>3. CASE route = "order_cancellation_request"
  BY <1>3, CancellationPlan, HarmlessPlanIsGood DEF Plan
<1>4. CASE route = "fraud_triage"
  BY <1>4, FraudTriagePlan, HarmlessPlanIsGood DEF Plan
<1>5. CASE route = "inventory_conflict"
  BY <1>5, WarehousePlans, HarmlessPlanIsGood DEF Plan
<1>6. CASE route = "order_not_picked"
  BY <1>6, WarehousePlans, HarmlessPlanIsGood DEF Plan
<1>7. CASE route = "stuck_in_transit"
  BY <1>7, WarehousePlans, HarmlessPlanIsGood DEF Plan
<1>8. CASE route = "wismo"
  BY <1>8, WarehousePlans, HarmlessPlanIsGood DEF Plan
<1>9. CASE route = "delivered_not_received"
  BY <1>9, ClaimPlans, HarmlessPlanIsGood DEF Plan
<1>10. CASE route = "damaged_in_transit"
  BY <1>10, ClaimPlans, HarmlessPlanIsGood DEF Plan
<1> QED
  BY <1>1, <1>2, <1>3, <1>4, <1>5, <1>6, <1>7, <1>8, <1>9, <1>10 DEF Lanes

===============================================================================
