----------------------------- MODULE SettledOnce ------------------------------
(***************************************************************************)
(* The promise of the tool_calls ledger to the agent, with no callers, no  *)
(* transactions and no waiting: a key is open, then settled, once and for  *)
(* all.  Its effect can only be applied while it is open, and it settles   *)
(* as "succeeded" only when an effect was applied.                         *)
(***************************************************************************)
EXTENDS Naturals

CONSTANT Keys

VARIABLES
  row,      \* "none" while the key is open, then "succeeded" or "failed"
  effects   \* how often the provider applied the effect of the key

Open(k) == row[k] = "none"

Init ==
  /\ row     = [k \in Keys |-> "none"]
  /\ effects = [k \in Keys |-> 0]

Apply(k) ==
  /\ Open(k)
  /\ effects' = [effects EXCEPT ![k] = @ + 1]
  /\ UNCHANGED row

Settle(k) ==
  /\ Open(k)
  /\ \E status \in {"succeeded", "failed"} :
       /\ status = "succeeded" => effects[k] > 0
       /\ row' = [row EXCEPT ![k] = status]
  /\ UNCHANGED effects

Next == \E k \in Keys : Apply(k) \/ Settle(k)

Spec == Init /\ [][Next]_<<row, effects>>
===============================================================================
