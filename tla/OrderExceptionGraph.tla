-------------------------- MODULE OrderExceptionGraph -------------------------
(***************************************************************************)
(* The order-exception graph node by node: graph.py of                     *)
(* apps/agents/src/agents/order_exception, over the plans of its subagents *)
(* (OrderExceptionPlans), for one thread and the runs created on it.       *)
(*                                                                         *)
(* The facts of a case are any, as if the LLM and the FOPs of a merchant   *)
(* nobody has written yet had a say, or those that OrderExceptionIntake    *)
(* gets from the input of the run: the lane classify arrives at, what the  *)
(* FOPs that initialize matches ask for, and what the subagent reads.      *)
(* That a node can raise is left out.                                      *)
(***************************************************************************)
EXTENDS OrderExceptionIntake

CONSTANTS
  CaseFacts,  \* the facts a case may have
  Inputs,     \* inputs of the first run: merchant, order, context, the lane
              \* supplied, and what the LLM would answer
  RunIds      \* bound: runs of the thread, 0 is the webhook's

\* A thread's case has one of the exception types.
ASSUME GraphAssumption ==
  /\ RunIds \subseteq Nat /\ 0 \in RunIds
  /\ \A f \in CaseFacts : f.lane \in Lanes

\* The place of a score, an age or an instant holds a number or something that
\* is none.
ASSUME InputsAssumption ==
  \A in \in Inputs :
    /\ Readable(Nested(in.context, "risk", "score")) /\ Readable(Nested(in.order, "risk", "score"))
    /\ Readable(Field(in.order, "created_at")) /\ Readable(Field(in.context, "reference_at"))
    /\ \A key \in {"age_hours", "sla_hours", "created_at", "queued_at", "updated_at",
                   "reference_at"} :
         Readable(Nested(in.context, "fulfillment", key))

VARIABLES
  input,   \* the input of the first run, None if only the facts are known
  facts,   \* the facts of the case
  node,    \* the next node of the graph, "end" when there is none
  values,  \* the channels of OrderExceptionState that decide anything
  runs     \* state and input of each run, as in OrderExceptionThread

graphVars == <<input, facts, node, values, runs>>

NoProposal == [plan |-> <<>>, requiresHuman |-> FALSE]

Keyed(proposal) == [proposal EXCEPT !.plan = KeysOf(@)]

FactsOfInput(in) ==
  FactsOf(ClassifyCase(in.supplied, in.order, in.context, in.answer), in.order, in.context,
          LoadFopsForMerchant(in.merchant))

AllFacts == CaseFacts \cup {FactsOfInput(in) : in \in Inputs}

PlannedProposals == {Keyed(WithProposal(f, f.lane, f.approvals)) : f \in AllFacts}
PlannedKeys      == UNION {ToSet(p.plan) : p \in PlannedProposals}

(* The thread this graph runs on.  Its proposal is fixed by the facts.     *)
Thread == INSTANCE OrderExceptionThread
  WITH Calls     <- PlannedKeys,
       Proposals <- PlannedProposals,
       proposal  <- Keyed(WithProposal(facts, facts.lane, facts.approvals)),
       thread    <- [interrupted |-> values.interrupted, decision |-> values.decision,
                     resolution |-> values.resolution, calls |-> values.calls]

Init ==
  /\ \/ input = None /\ facts \in CaseFacts
     \/ input \in Inputs /\ facts = FactsOfInput(input)
  /\ node = "classify"
  /\ values = [type |-> "none", approvals |-> FALSE, route |-> "none",
               proposal |-> NoProposal, interrupted |-> FALSE, decision |-> "none",
               resolution |-> "none", calls |-> "none"]
  /\ runs = [r \in RunIds |->
               [state |-> IF r = 0 THEN "active" ELSE "none", input |-> "none"]]

Running(r) == runs[r].state = "active"
Ends(r)    == runs' = [runs EXCEPT ![r].state = "done"]

\* A node of the webhook's run that goes on to the next one.
Passes(from, to) ==
  /\ Running(0) /\ node = from
  /\ node' = to
  /\ UNCHANGED <<input, facts, runs>>

Classify ==
  /\ Passes("classify", "initialize")
  /\ values' = [values EXCEPT !.type = facts.lane]

Initialize ==
  /\ Passes("initialize", "supervisor")
  /\ values' = [values EXCEPT !.approvals = facts.approvals]

Supervisor ==
  /\ Passes("supervisor", "subagent")
  /\ values' = [values EXCEPT !.route = values.type]

\* Mutant: every proposal is finalized at once.
SubagentSkipsGate ==
  /\ Passes("subagent", "finalize")
  /\ values' = [values EXCEPT !.proposal = WithProposal(facts, values.route, values.approvals)]

(* The routed subagent, and next_after_proposal. *)
Subagent ==
  LET proposed == WithProposal(facts, values.route, values.approvals) IN
  /\ Passes("subagent", IF proposed.requiresHuman THEN "approval_gate" ELSE "finalize")
  /\ values' = [values EXCEPT !.proposal = proposed]

(* interrupt() ends the run and leaves the gate to be entered again. *)
ApprovalGate ==
  /\ Running(0) /\ node = "approval_gate"
  /\ values' = [values EXCEPT !.interrupted = TRUE]
  /\ Ends(0)
  /\ UNCHANGED <<input, facts, node>>

(* The gate entered again by a resumed run: interrupt() returns its input. *)
Resume(r) ==
  /\ r # 0 /\ Running(r) /\ node = "approval_gate"
  /\ values' = [values EXCEPT !.interrupted = FALSE, !.decision = runs[r].input]
  /\ node' = "finalize"
  /\ UNCHANGED <<input, facts, runs>>

\* Mutant: only a rejection stops the plan.
FinalizeUnlessRejected(r) ==
  LET human == values.proposal.requiresHuman IN
  /\ Running(r) /\ node = "finalize"
  /\ values' =
       IF values.decision = "reject"
       THEN [values EXCEPT !.resolution = "rejected", !.calls = "rejected"]
       ELSE [values EXCEPT !.resolution = IF human THEN "approved" ELSE "auto_resolved",
                           !.calls = IF human THEN "approved" ELSE "auto_ready"]
  /\ node' = "end"
  /\ Ends(r)
  /\ UNCHANGED <<input, facts>>

Finalize(r) ==
  LET human == values.proposal.requiresHuman IN
  /\ Running(r) /\ node = "finalize"
  /\ values' =
       IF human /\ values.decision = "none"
       THEN [values EXCEPT !.resolution = "awaiting_human"]
       ELSE IF values.decision = "reject"
       THEN [values EXCEPT !.resolution = "rejected", !.calls = "rejected"]
       ELSE IF values.decision = "modify"
       THEN [values EXCEPT !.resolution = "awaiting_modification"]
       ELSE [values EXCEPT !.resolution = IF human THEN "approved" ELSE "auto_resolved",
                           !.calls = IF human THEN "approved" ELSE "auto_ready"]
  /\ node' = "end"
  /\ Ends(r)
  /\ UNCHANGED <<input, facts>>

NothingToResume(r) ==
  /\ r # 0 /\ Running(r) /\ node = "end"
  /\ Ends(r)
  /\ UNCHANGED <<input, facts, node, values>>

(* runs.create of the server, refused while another run is active. *)
CreateRun(r, decision) ==
  /\ runs[r].state = "none"
  /\ \A q \in RunIds : ~Running(q) /\ (q < r => runs[q].state = "done")
  /\ runs' = [runs EXCEPT ![r] = [state |-> "active", input |-> decision]]
  /\ UNCHANGED <<input, facts, node, values>>

Next ==
  \/ Classify \/ Initialize \/ Supervisor \/ Subagent \/ ApprovalGate
  \/ \E r \in RunIds : Resume(r) \/ Finalize(r) \/ NothingToResume(r)
  \/ \E r \in RunIds, d \in Thread!Decisions : CreateRun(r, d)

Spec == Init /\ [][Next]_graphVars

-------------------------------------------------------------------------------
(* Types; a pending interrupt waits at the gate; the branch of finalize    *)
(* for a gated proposal without a decision is never taken.                 *)
TypeOK ==
  /\ facts.lane \in Lanes
  /\ node \in {"classify", "initialize", "supervisor", "subagent", "approval_gate",
               "finalize", "end"}
  /\ values.interrupted => node = "approval_gate"
  /\ values.type \in Lanes \cup {"none"} /\ values.route \in Lanes \cup {"none"}
  /\ values.decision \in Thread!Decisions \cup {"none"}
  /\ values.proposal.plan \in
       Seq([tool : WriteTools \cup ExecutionToolRegistry,
            intent : ToSet(KeysOf(values.proposal.plan)), write : BOOLEAN])
  /\ values.resolution # "awaiting_human"
  /\ \A r \in RunIds : runs[r].state = "none" <=> runs[r].input = "none" /\ r # 0

PlannedTools == {values.proposal.plan[i].tool : i \in DOMAIN values.proposal.plan}

(* Whatever a subagent plans can be executed: the processor knows every    *)
(* tool (one it does not know fails the whole batch), and no two calls of  *)
(* a plan share an idempotency key (the second would be skipped).          *)
PlansAreExecutable ==
  /\ PlannedTools \subseteq ExecutionToolRegistry
  /\ IsInjective(KeysOf(values.proposal.plan))

(* Calls become executable with a write among them only by "approve", even *)
(* if no FOP of the merchant asks for an approval.                         *)
WritesAreApproved ==
  /\ values.calls = "auto_ready" => ~Writes(values.proposal.plan)
  /\ values.calls = "approved" => values.decision = "approve"

(* demo-merchant.yaml:54 and :71: an address or item edit comes after a    *)
(* fulfillment hold and before the reply that confirms it.                 *)
EditsAreHeldThenConfirmed ==
  LET plan    == values.proposal.plan
      edits   == {i \in DOMAIN plan : plan[i].tool \in
                    {"shopify_update_shipping_address", "shopify_apply_order_edit"}}
      holds   == {i \in DOMAIN plan : plan[i].tool = "shopify_hold_fulfillment_order"}
      replies == {i \in DOMAIN plan : plan[i].tool = "gorgias_draft_reply"}
  IN
  \A i \in edits : (\E j \in holds : j < i) /\ (\A j \in replies : i < j)

\* What the input says of the case does not depend on what somebody asked
\* for, and the classifier's answer is taken, here or by who started the run.
JudgedBySignals ==
  /\ input # None /\ node \notin {"classify", "initialize", "supervisor", "subagent"}
  /\ IF input.supplied \in Lanes
     THEN input.supplied = ClassifyOrderException(input.order, input.context)
     ELSE input.answer \notin Lanes
  /\ Field(input.context, "exception_type") = None
  /\ RequestType(input.context) = None
  /\ ~Truth(Nested(input.context, "delivery", "reported_missing"))
  /\ ~Truth(Nested(input.context, "delivery", "reported_damaged"))

\* Signals that the classifier and the subagents read alike: no breach that is
\* true for Python only, no lines that are not objects, no SLA that is no
\* number or 0, and nothing in a place only the classifier looks at.
ReadAlike(context) ==
  /\ Nested(context, "fulfillment", "pick_sla_breached") \in BOOLEAN \cup {None, Yes}
  /\ LET lines == Nested(context, "inventory", "out_of_stock_lines") IN
     \/ lines = None \/ lines = Objects(lines)
     \/ Truth(Nested(context, "inventory", "has_out_of_stock_line"))
  /\ Nested(context, "fulfillment", "sla_hours") \notin {0, Word}
  /\ Nested(context, "fulfillment", "created_at") = None
  /\ Nested(context, "delivery", "days_since_last_scan") = None

(* One signal is read by the webhook's classifier, the FOPs and the        *)
(* subagent, each in a copy of its own, with its own threshold.  A score   *)
(* of 50 or more is a fraud case, whatever else is wrong with the order:   *)
(* held, for a review that the FOP asks for up to 80, and cancelled above, *)
(* if the run names a merchant with FOPs, as no webhook's does, and the    *)
(* risk section has the score.  A lane the classifier finds by any other   *)
(* signal has a plan.                                                      *)
ClassifiedSignalsAreActedOn ==
  LET score == RiskScore(input.order, input.context)
      fops  == /\ LoadFopsForMerchant(input.merchant) # {}
               /\ "risk" \in DOMAIN input.context => Nested(input.context, "risk", "score") # None
  IN
  JudgedBySignals =>
    IF score # None /\ score >= 50
    THEN /\ values.route = "fraud_triage"
         /\ values.approvals <=> fops /\ score <= 80
         /\ IF fops /\ score > 80 THEN PlannedTools = {"shopify_cancel_order", "shopify_create_refund"}
            ELSE "shopify_hold_fulfillment_order" \in PlannedTools
                   /\ "shopify_cancel_order" \notin PlannedTools
    ELSE values.route \in {"order_not_picked", "inventory_conflict", "stuck_in_transit"}
           /\ ReadAlike(input.context)
         => Writes(values.proposal.plan)

(* The graph is what OrderExceptionThread, and with it CaseLifecycle, says *)
(* of it.                                                                  *)
ImplementsThread == Thread!ThreadSpec

(* demo-merchant.yaml:53: "Do not edit the shipping address after the      *)
(* order has shipped."  "fulfilled" and "stuck_in_transit" are statuses by *)
(* which order_exception.py:224 and :258 tell that it has.                 *)
ShippedOrdersAreNotEdited ==
  facts.shipStatus \in {"shipped", "in_transit", "delivered", "fulfilled", "stuck_in_transit"}
    => "shopify_update_shipping_address" \notin PlannedTools
===============================================================================
