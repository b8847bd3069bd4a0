----------------------------- MODULE ApprovedPlan -----------------------------
(***************************************************************************)
(* What the merchant is promised of the plan of one case, with no graph,   *)
(* no runs, no callbacks and nobody who dies: a plan that requires a human *)
(* is answered once; only an approved plan, or one that requires nobody,   *)
(* is executed, call by call in its order, each call settled once and for  *)
(* all (SettledOnce); and the case shows an execution's end only of such a *)
(* plan, "resolved" only when no call of it is left open.                  *)
(***************************************************************************)
EXTENDS Naturals, Sequences

CONSTANTS
  Calls,      \* idempotency keys
  Proposals,  \* possible plans, each with whether it requires a human
  Unfinished  \* what the case shows before, besides and after an execution

VARIABLES
  proposal,      \* the plan
  answer,        \* the reviewer's answer, "none" before it is given
  row, effects,  \* SettledOnce, of the calls
  status         \* what the case shows

Call == INSTANCE SettledOnce WITH Keys <- Calls

Init ==
  /\ proposal \in Proposals
  /\ answer = "none"
  /\ Call!Init
  /\ status \in Unfinished

MayExecute == ~proposal.requiresHuman \/ answer = "approve"

Answer ==
  /\ proposal.requiresHuman /\ answer = "none"
  /\ answer' \in {"approve", "reject", "modify"}
  /\ UNCHANGED <<proposal, row, effects, status>>

\* The i-th call, when every earlier one is settled.
Execute(i) ==
  /\ MayExecute
  /\ \A j \in DOMAIN proposal.plan : j < i => ~Call!Open(proposal.plan[j])
  /\ Call!Apply(proposal.plan[i]) \/ Call!Settle(proposal.plan[i])
  /\ UNCHANGED <<proposal, answer, status>>

Show ==
  /\ \/ status' \in Unfinished
     \/ status' = "failed" /\ MayExecute
     \/ /\ status' = "resolved" /\ MayExecute
        /\ \A i \in DOMAIN proposal.plan : ~Call!Open(proposal.plan[i])
  /\ UNCHANGED <<proposal, answer, row, effects>>

Next == Answer \/ Show \/ \E i \in DOMAIN proposal.plan : Execute(i)

Spec == Init /\ [][Next]_<<proposal, answer, row, effects, status>>
===============================================================================
