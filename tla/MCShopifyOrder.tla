----------------------------- MODULE MCShopifyOrder ----------------------------
(* A small instance of ShopifyOrder: an order of two lines of one variant  *)
(* and one of another, two calls, the first any request, the second one of *)
(* those that touch the same lines.                                        *)
EXTENDS ShopifyOrder, TLC

CONSTANTS c1, c2, k1, k2, l1, l2, l3, o1, v1, v2, v3, t1, t2

MCCallers   == {c1, c2}
MCKeys      == {k1, k2}
Line(id, variant, title, quantity) ==
  [id |-> id, variant |-> variant, title |-> title, quantity |-> quantity]
MCBaseLines == <<Line(l1, v1, t1, 2), Line(l2, v1, t2, 1), Line(l3, v2, NoId, 1)>>

\* o1 is the id the order, not the edit session, knows l1 by.
MCLineIds  == {l1, l2, l3, o1}
MCVariants == {v1, v2, v3}
MCTitles   == {t1, t2}
MCCalculatedIds == {l1, l2, l3}

Change(action, line, variant, quantity, newQuantity, allow) ==
  [action |-> action, line |-> line, variant |-> variant, quantity |-> quantity,
   newQuantity |-> newQuantity, allow |-> allow]

Swap        == Change("swap", l1, v3, 2, NoNumber, FALSE)
TakeOut     == Change("remove", l2, NoId, NoNumber, NoNumber, FALSE)
AddOne      == Change("add", NoId, v3, 2, NoNumber, FALSE)
AddAgain    == Change("add", NoId, v2, 4, NoNumber, TRUE)
AddTwice    == Change("add", NoId, v2, 2, NoNumber, FALSE)
Fewer       == Change("change_quantity", l1, NoId, NoNumber, 2, FALSE)
HalfOfOne   == Change("change_quantity", l1, NoId, NoNumber, 1, FALSE)
Negative    == Change("change_quantity", l3, NoId, NoNumber, -2, FALSE)
OfTheOrder  == Change("remove", o1, NoId, NoNumber, NoNumber, FALSE)
NoVariant   == Change("swap", l3, NoId, 2, NoNumber, FALSE)
Gift        == Change("gift", NoId, v3, 2, NoNumber, FALSE)
KeepsOld    == Change("swap", l3, v3, NoNumber, 2, FALSE)

Planned(changes) ==
  [tool |-> "shopify_apply_order_edit", changes |-> changes,
   quantityChanges |-> <<>>, variantAdditions |-> <<>>]
Direct(sets, additions) ==
  [tool |-> "shopify_apply_order_edit", changes |-> <<>>,
   quantityChanges |-> sets, variantAdditions |-> additions]
Single(tool) ==
  [tool |-> tool, changes |-> <<>>, quantityChanges |-> <<>>, variantAdditions |-> <<>>]
SetOf(calculated, line, variant, title, quantity) ==
  [kind |-> "set", calculated |-> calculated, line |-> line, variant |-> variant,
   title |-> title, quantity |-> quantity]

MCRequests ==
  {Planned(cs) : cs \in {<<Swap>>, <<TakeOut>>, <<AddOne>>, <<AddAgain>>, <<Fewer>>,
     <<Swap, TakeOut>>, <<TakeOut, AddTwice>>, <<Fewer, Negative>>, <<TakeOut, OfTheOrder>>,
     <<NoVariant>>, <<Gift>>, <<KeepsOld>>, <<HalfOfOne>>, <<Fewer, TakeOut, AddOne>>,
     <<TakeOut, AddOne>>}}
  \cup {Direct(w, <<>>) : w \in {<<SetOf(l1, NoId, NoId, NoId, 0)>>,
     <<SetOf(NoId, o1, v1, NoId, 3), SetOf(NoId, NoId, NoId, t2, 0)>>,
     <<SetOf(NoId, NoId, NoId, NoId, 1)>>, <<SetOf(NoId, NoId, v2, NoId, NoNumber)>>,
     <<SetOf(l2, NoId, NoId, NoId, 0), SetOf(NoId, NoId, NoId, t2, 4)>>}}
  \cup {Direct(<<SetOf(NoId, NoId, v3, t2, 0)>>, <<[kind |-> "add", variant |-> v2,
           quantity |-> 1, allow |-> TRUE]>>)}
  \cup {Single(tool) : tool \in {"shopify_update_order_note", "shopify_update_shipping_address",
     "shopify_create_refund", "shopify_cancel_order", "shopify_hold_fulfillment_order"}}

MCSecond == {Planned(<<Swap>>), Planned(<<TakeOut, AddOne>>), Planned(<<Fewer>>),
             Single("shopify_create_refund")}

\* The requests of the two keys of the instance.
MCInit == Init /\ request[k2] \in MCSecond
MCSpec == MCInit /\ [][Next]_orderVars

Symmetry == Permutations(Callers)
===============================================================================
