----------------------------- MODULE ShopifyOrder -----------------------------
(***************************************************************************)
(* The write tools of apps/api/src/api/integrations/shopify.py on one      *)
(* order, each run inside a transaction of the tool ledger (ToolLedger).   *)
(*                                                                         *)
(* Most tools are one GraphQL mutation.  apply_order_edit is a session of  *)
(* several: begin, one request per change, commit.  Shopify keeps what is  *)
(* staged apart from the order until the commit; any error in between      *)
(* leaves the session behind and is recorded as FAILED.  What an edit      *)
(* stages is planned from the customer's request by subagents.py.          *)
(*                                                                         *)
(* Shopify is external: it may refuse any request, its answer may be lost, *)
(* a line it does not know or a variant the order already has (unless      *)
(* allow_duplicates) is a user error, and an answer without errors means   *)
(* that the mutation was made.  Quantities are given in halves, so that a  *)
(* fraction can be asked for.                                              *)
(***************************************************************************)
EXTENDS Integers, Sequences, SequencesExt, FiniteSets

CONSTANTS
  Callers, Keys, NoKey, MaxAborts,  \* as in ToolLedger
  LineIds, Variants, Titles,
  CalculatedIds,\* line ids with the prefix gid://shopify/CalculatedLineItem/
  BaseLines,    \* the order's line items at first
  NoId,         \* an absent or empty string
  NoNumber,     \* an absent value, or one that is not a number
  Requests      \* what the calls of the case may be

\* An added line gets a number as its id.
Lines == [id : LineIds \cup Nat, variant : Variants \cup {NoId}, title : Titles \cup {NoId},
          quantity : Nat]

\* A value of the payload, which may be absent or no number.
Numbers == Int \cup {NoNumber}

\* The customer's changes, and what they become: lines to set, variants to add.
Changes == [action : STRING, line : LineIds \cup {NoId}, variant : Variants \cup {NoId},
            quantity : Numbers, newQuantity : Numbers, allow : BOOLEAN]
Sets == [kind : {"set"}, calculated : LineIds \cup {NoId}, line : LineIds \cup Nat \cup {NoId},
         variant : Variants \cup {NoId}, title : Titles \cup {NoId}, quantity : Numbers]
Additions == [kind : {"add"}, variant : Variants \cup {NoId}, quantity : Numbers, allow : BOOLEAN]

Tools == {"shopify_apply_order_edit", "shopify_update_order_note", "shopify_cancel_order",
          "shopify_update_shipping_address", "shopify_create_refund",
          "shopify_hold_fulfillment_order"}

ASSUME OrderAssumption ==
  /\ NoKey \notin Keys /\ MaxAborts \in Nat
  /\ NoId \notin LineIds \cup Variants \cup Titles \cup Nat /\ NoNumber \notin Int
  /\ CalculatedIds \subseteq LineIds /\ LineIds \cap Nat = {}
  /\ BaseLines \in Seq(Lines)
  /\ \A i, j \in DOMAIN BaseLines : BaseLines[i].id = BaseLines[j].id => i = j
  /\ \A r \in Requests :
       /\ r.tool \in Tools /\ r.changes \in Seq(Changes)
       /\ r.quantityChanges \in Seq(Sets) /\ r.variantAdditions \in Seq(Additions)

VARIABLES
  request,  \* the tool and arguments of each key
  order,    \* the order at Shopify
  edit,     \* the edit session of a caller: open, the lines it began with, the
            \* changes staged so far
  row, audit, txn, txnKey, outcome, reply, effects, lost, aborts  \* ToolLedger

Ledger == INSTANCE ToolLedger

ledgerVars == <<row, audit, txn, txnKey, outcome, reply, effects, lost, aborts>>
orderVars  == <<request, order, edit, ledgerVars>>

NoEdit == [open |-> FALSE, base |-> <<>>, staged |-> <<>>]

-------------------------------------------------------------------------------
(* subagents.py: the payload of a planned edit, from the requested changes. *)

\* int(float(value)) rounds towards zero; the value is in halves.
IntFrom(halves) ==
  IF halves = NoNumber THEN NoNumber
  ELSE IF halves >= 0 THEN halves \div 2 ELSE -((-halves) \div 2)

\* The elements of seq at the indices in S: the changes a loop does not pass over.
Pick(seq, S) ==
  LET picked[n \in 0 .. Len(seq)] ==
        IF n = 0 THEN <<>>
        ELSE IF n \in S THEN Append(picked[n - 1], seq[n]) ELSE picked[n - 1]
  IN picked[Len(seq)]

\* Mutant: a swap needs an explicit new_quantity like any other change.
NewQuantityExplicit(change) == IntFrom(change.newQuantity)

\* A removed or swapped line goes to 0 unless the change says otherwise.
NewQuantity(change) ==
  IF change.newQuantity = NoNumber /\ change.action \in {"remove", "swap"}
  THEN 0 ELSE IntFrom(change.newQuantity)

QuantityChanges(changes) ==
  LET usable(ch) == /\ ch.action \in {"remove", "swap", "change_quantity"}
                    /\ NewQuantity(ch) # NoNumber
                    /\ ch.line # NoId
      payload(ch) == [kind |-> "set", calculated |-> NoId, line |-> ch.line, variant |-> NoId,
                      title |-> NoId, quantity |-> NewQuantity(ch)]
      chosen == Pick(changes, {i \in DOMAIN changes : usable(changes[i])})
  IN [i \in DOMAIN chosen |-> payload(chosen[i])]

\* quantity or new_quantity, where 0 is absent, or else 1.
AddedQuantity(change) ==
  LET value == IF change.quantity \in {0, NoNumber} THEN change.newQuantity ELSE change.quantity
  IN IF IntFrom(value) \in {0, NoNumber} THEN 1 ELSE IntFrom(value)

IsAddition(change) == change.action \in {"add", "swap"} /\ change.variant # NoId

\* Mutant: duplicates are allowed unless the change forbids them.
VariantAdditionsAnew(changes) ==
  LET chosen == Pick(changes, {i \in DOMAIN changes : IsAddition(changes[i])})
  IN [i \in DOMAIN chosen |-> [kind |-> "add", variant |-> chosen[i].variant,
                               quantity |-> AddedQuantity(chosen[i]), allow |-> TRUE]]

VariantAdditions(changes) ==
  LET chosen == Pick(changes, {i \in DOMAIN changes : IsAddition(changes[i])})
  IN [i \in DOMAIN chosen |-> [kind |-> "add", variant |-> chosen[i].variant,
                               quantity |-> AddedQuantity(chosen[i]),
                               allow |-> chosen[i].allow]]

-------------------------------------------------------------------------------
(* shopify.py: the work of an edit. *)

\* The two loops of apply_order_edit, over the planner's payload or one that
\* was given as it is.
Work(r) ==
  IF r.changes = <<>> THEN r.quantityChanges \o r.variantAdditions
  ELSE QuantityChanges(r.changes) \o VariantAdditions(r.changes)

\* _resolve_calculated_line_item_id; NoId if it raises.
Resolve(change, lines) ==
  LET ofVariant == SelectInSeq(lines, LAMBDA l : l.variant = change.variant)
      ofTitle   == SelectInSeq(lines, LAMBDA l : l.title = change.title)
  IN
  IF change.calculated # NoId THEN change.calculated
  ELSE IF change.line \in CalculatedIds THEN change.line
  ELSE IF change.variant # NoId /\ ofVariant # 0 THEN lines[ofVariant].id
  ELSE IF change.title # NoId /\ ofTitle # 0 THEN lines[ofTitle].id
  ELSE NoId

\* _quantity_value.
QuantityOK(quantity) == quantity # NoNumber /\ quantity >= 0

\* What the code or Shopify refuses of a change, whatever else happens.
Possible(change, lines) ==
  /\ QuantityOK(change.quantity)
  /\ CASE change.kind = "set" -> \E i \in DOMAIN lines : lines[i].id = Resolve(change, lines)
       [] change.kind = "add" ->
            /\ change.variant # NoId
            /\ change.allow \/ \A i \in DOMAIN lines : lines[i].variant # change.variant

\* What Shopify makes of one staged change.  A line that is set to 0 stays,
\* an added one gets an id of its own.
Staged(lines, change) ==
  CASE change.kind = "set" ->
         [i \in DOMAIN lines |->
            IF lines[i].id = change.line THEN [lines[i] EXCEPT !.quantity = change.quantity]
            ELSE lines[i]]
    [] change.kind = "add" ->
         Append(lines, [id |-> Len(lines) + 1, variant |-> change.variant, title |-> NoId,
                        quantity |-> change.quantity])

StagedAll(lines, changes) ==
  LET after[n \in 0 .. Len(changes)] ==
        IF n = 0 THEN lines ELSE Staged(after[n - 1], changes[n])
  IN after[Len(changes)]

\* The request of orderEditSetQuantity names the calculated line.
AsSent(change, lines) ==
  IF change.kind = "set" THEN [change EXCEPT !.line = Resolve(change, lines)] ELSE change

-------------------------------------------------------------------------------
(* The mutations of a single request, on behalf of key k. *)

UpdateOrderNote(o, k)       == [o EXCEPT !.note = k]
UpdateShippingAddress(o, k) == [o EXCEPT !.address = k]
CreateRefund(o, k)          == [o EXCEPT !.refunds = @ + 1]
CancelOrder(o, k)           == [o EXCEPT !.cancelledBy = @ \cup {k}]
HoldFulfillmentOrder(o, k)  == [o EXCEPT !.heldBy = @ \cup {k}]

Operation(tool, o, k) ==
  CASE tool = "shopify_update_order_note"       -> UpdateOrderNote(o, k)
    [] tool = "shopify_update_shipping_address" -> UpdateShippingAddress(o, k)
    [] tool = "shopify_create_refund"           -> CreateRefund(o, k)
    [] tool = "shopify_cancel_order"            -> CancelOrder(o, k)
    [] tool = "shopify_hold_fulfillment_order"  -> HoldFulfillmentOrder(o, k)

Init ==
  /\ request \in [Keys -> Requests]
  /\ order = [lines |-> BaseLines, note |-> NoKey, address |-> NoKey, refunds |-> 0,
              cancelledBy |-> {}, heldBy |-> {}]
  /\ edit = [c \in Callers |-> NoEdit]
  /\ Ledger!Init

IsEdit(c)    == request[txnKey[c]].tool = "shopify_apply_order_edit"
Inserted(c)  == txn[c] = "inserted"
WorkOf(c)    == Work(request[txnKey[c]])
NextChange(c) == WorkOf(c)[Len(edit[c].staged) + 1]
Calculated(c) == StagedAll(edit[c].base, edit[c].staged)

-------------------------------------------------------------------------------
(* The ledger's part of a call that is not the provider's. *)
LedgerStep(c) ==
  /\ \/ \E k \in Keys : Ledger!LookUp(c, k)
     \/ Ledger!InsertPending(c)
     \/ Ledger!FinishAndCommit(c)
  /\ UNCHANGED <<request, order, edit>>

(* A tool of one mutation: refused, made, or made with its answer lost. *)
MutateOrder(c) ==
  LET k == txnKey[c] IN
  /\ Inserted(c) /\ ~IsEdit(c)
  /\ Ledger!CallProvider(c)
  /\ order' = IF outcome'[c] = "error" THEN order ELSE Operation(request[k].tool, order, k)
  /\ UNCHANGED <<request, edit>>

(* orderEditBegin, and the calculated lines it returns. *)
BeginEdit(c) ==
  /\ Inserted(c) /\ IsEdit(c) /\ ~edit[c].open
  /\ edit' = [edit EXCEPT ![c] = [open |-> TRUE, base |-> order.lines, staged |-> <<>>]]
  /\ UNCHANGED <<request, order, ledgerVars>>

\* Mutant: the user errors of a change are not looked at.
StageChangeUnchecked(c) ==
  LET next == NextChange(c) IN
  /\ Inserted(c) /\ edit[c].open /\ Len(edit[c].staged) < Len(WorkOf(c))
  /\ edit' = [edit EXCEPT ![c].staged = Append(@,
                IF Possible(next, Calculated(c)) THEN AsSent(next, edit[c].base)
                ELSE [kind |-> "set", calculated |-> NoId, line |-> NoId, variant |-> NoId,
                      title |-> NoId, quantity |-> 0])]
  /\ UNCHANGED <<request, order, ledgerVars>>

(* One request of the loops over quantity_changes and variant_additions. *)
StageChange(c) ==
  LET next == NextChange(c) IN
  /\ Inserted(c) /\ edit[c].open /\ Len(edit[c].staged) < Len(WorkOf(c))
  /\ Possible(next, Calculated(c))
  /\ edit' = [edit EXCEPT ![c].staged = Append(@, AsSent(next, edit[c].base))]
  /\ UNCHANGED <<request, order, ledgerVars>>

(* Any request of the session is refused, gets no answer, or is not even   *)
(* sent: the operation raises and the session is forgotten.                *)
FailEdit(c) ==
  /\ Inserted(c) /\ IsEdit(c)
  /\ Ledger!CallProvider(c) /\ outcome'[c] = "error"
  /\ edit' = [edit EXCEPT ![c] = NoEdit]
  /\ UNCHANGED <<request, order>>

\* Mutant: the session outlives the operation that began it.
CommitEditStaysOpen(c) ==
  /\ Inserted(c) /\ edit[c].open /\ Len(edit[c].staged) = Len(WorkOf(c))
  /\ Ledger!CallProvider(c) /\ outcome'[c] # "error"
  /\ order' = [order EXCEPT !.lines = StagedAll(@, edit[c].staged)]
  /\ UNCHANGED <<request, edit>>

(* orderEditCommit: everything staged becomes part of the order. *)
CommitEdit(c) ==
  /\ Inserted(c) /\ edit[c].open /\ Len(edit[c].staged) = Len(WorkOf(c))
  /\ Ledger!CallProvider(c) /\ outcome'[c] # "error"
  /\ order' = [order EXCEPT !.lines = StagedAll(@, edit[c].staged)]
  /\ edit' = [edit EXCEPT ![c] = NoEdit]
  /\ UNCHANGED request

(* The transaction is rolled back; what Shopify has stays. *)
Abort(c) ==
  /\ Ledger!Abort(c)
  /\ edit' = [edit EXCEPT ![c] = NoEdit]
  /\ UNCHANGED <<request, order>>

ToolStep(c) ==
  \/ MutateOrder(c) \/ BeginEdit(c) \/ StageChange(c) \/ FailEdit(c) \/ CommitEdit(c)

Next == \E c \in Callers : LedgerStep(c) \/ ToolStep(c) \/ Abort(c)

Spec == Init /\ [][Next]_orderVars

-------------------------------------------------------------------------------
(* Types; a session is open only inside the call that began it, and stages *)
(* what is left of its work.                                               *)
TypeOK ==
  /\ request \in [Keys -> Requests]
  /\ order \in [lines : Seq(Lines), note : Keys \cup {NoKey}, address : Keys \cup {NoKey},
                refunds : Nat, cancelledBy : SUBSET Keys, heldBy : SUBSET Keys]
  /\ edit \in [Callers -> [open : BOOLEAN, base : Seq(Lines),
                           staged : Seq({ch \in Sets \cup Additions : QuantityOK(ch.quantity)})]]
  /\ \A c \in Callers :
       IF edit[c].open THEN Inserted(c) /\ IsEdit(c) /\ Len(edit[c].staged) <= Len(WorkOf(c))
       ELSE edit[c] = NoEdit

\* S in ascending order, if n is how many there are.
Listings(S, n) ==
  {f \in [1 .. n -> S] : /\ \A i, j \in 1 .. n : i < j => f[i] < f[j]
                        /\ \A s \in S : \E i \in 1 .. n : f[i] = s}

\* The lines after the whole work of an edit, said of each line at once: the
\* work names lines of base, the session's, and the last change of a line
\* decides.
Edited(work, base, before, after) ==
  LET of(n, i) == work[n].kind = "set" /\ Resolve(work[n], base) = before[i].id
      adds     == {n \in DOMAIN work : work[n].kind = "add"}
  IN
  /\ \A i \in DOMAIN before :
       \/ /\ \A n \in DOMAIN work : ~of(n, i)
          /\ after[i].quantity = before[i].quantity
       \/ \E n \in DOMAIN work :
            /\ of(n, i) /\ \A m \in DOMAIN work : of(m, i) => m <= n
            /\ after[i].quantity = work[n].quantity
  /\ \E f \in Listings(adds, Len(after) - Len(before)) :
       \A n \in DOMAIN f :
         /\ after[Len(before) + n].variant = work[f[n]].variant
         /\ after[Len(before) + n].quantity = work[f[n]].quantity

(* Several requests make one edit, and any of them can fail: the order's   *)
(* lines change by the whole work of one edit, every change of which can   *)
(* be made on the order as it is by then, or not at all, whoever else has  *)
(* edited the order since the session began.                               *)
EditsAreWhole ==
  [][order'.lines # order.lines =>
       \E c \in Callers :
         LET work == Work(request[txnKey[c]])
             base == edit[c].base
         IN
         /\ txnKey[c] \in Keys
         /\ effects'[txnKey[c]] = effects[txnKey[c]] + 1
         /\ \A n \in DOMAIN work :
              /\ QuantityOK(work[n].quantity)
              /\ work[n].kind = "set" =>
                   \E i \in DOMAIN order.lines : order.lines[i].id = Resolve(work[n], base)
         /\ Edited(work, base, order.lines, order'.lines)]_orderVars

\* A request that says what it wants: which line, which variant, how many.
Whole(halves) == halves # NoNumber /\ halves >= 0 /\ halves % 2 = 0
Exact(changes) ==
  /\ changes # <<>>
  /\ \A i, j \in DOMAIN changes :
       changes[i].action # "add" /\ changes[j].action # "add"
         /\ changes[i].line = changes[j].line => i = j
  /\ \A i \in DOMAIN changes :
       LET ch == changes[i] IN
       /\ ch.action \in {"remove", "swap", "add", "change_quantity"}
       /\ ch.action # "add" => ch.line # NoId
       /\ ch.action \in {"swap", "add"} => ch.variant # NoId /\ Whole(ch.quantity) /\ ch.quantity > 0
       /\ IF ch.action = "change_quantity" THEN Whole(ch.newQuantity)
          ELSE ch.newQuantity = NoNumber

\* What the customer meant by it.
Asked(changes, before, after) ==
  LET of(n, i) == changes[n].action # "add" /\ changes[n].line = before[i].id
      added    == {n \in DOMAIN changes : changes[n].action \in {"add", "swap"}}
  IN
  /\ \A i \in DOMAIN before :
       /\ (\A n \in DOMAIN changes : ~of(n, i)) => after[i].quantity = before[i].quantity
       /\ \A n \in DOMAIN changes : of(n, i) =>
            2 * after[i].quantity =
              IF changes[n].action = "change_quantity" THEN changes[n].newQuantity ELSE 0
  /\ \E f \in Listings(added, Len(after) - Len(before)) :
       \A n \in DOMAIN f :
         /\ after[Len(before) + n].variant = changes[f[n]].variant
         /\ 2 * after[Len(before) + n].quantity = changes[f[n]].quantity

(* subagents.py:232: "Editing an order without exact line or variant       *)
(* intent risks shipping the wrong merchandise."  With it, an edit that is *)
(* made is the one the customer asked for: no change of the request is     *)
(* lost between the planner's payload and the commit.                      *)
ExactRequestsAreMet ==
  [][\A k \in Keys :
       /\ request[k].tool = "shopify_apply_order_edit"
       /\ effects'[k] > effects[k]
       /\ Exact(request[k].changes)
       => Asked(request[k].changes, order.lines, order'.lines)]_orderVars

(* allow_duplicates is False unless the request says otherwise, so an edit *)
(* that adds a variant is not made a second time: not even when its first  *)
(* transaction was rolled back after the commit and the call is replayed.  *)
AdditionsAreNotRepeated ==
  \A k \in Keys :
    LET r == request[k] IN
    /\ r.tool = "shopify_apply_order_edit"
    /\ \/ \E n \in DOMAIN r.changes :
            /\ r.changes[n].action \in {"add", "swap"} /\ r.changes[n].variant # NoId
            /\ ~r.changes[n].allow
       \/ r.changes = <<>> /\ \E n \in DOMAIN r.variantAdditions : ~r.variantAdditions[n].allow
    => effects[k] <= 1
===============================================================================
