------------------------- MODULE OrderExceptionThread -------------------------
(***************************************************************************)
(* One LangGraph thread that runs the graph of                             *)
(* apps/agents/src/agents/order_exception/graph.py.                        *)
(*                                                                         *)
(* The webhook's run goes from START through classify, initialize and a    *)
(* subagent, whose plan is one of Proposals, to the approval gate: a gated *)
(* proposal interrupts the run, any other is finalized at once.  A later   *)
(* run carries a reviewer's decision as Command(resume=...): the first one *)
(* answers the interrupt and finalizes the proposal.  A thread with no     *)
(* pending interrupt has nothing to resume and keeps its state.  The       *)
(* server itself (one active run per thread under                          *)
(* multitask_strategy="reject") is external code, modelled as it is used.  *)
(***************************************************************************)
EXTENDS Naturals, Sequences

CONSTANTS
  Calls,      \* idempotency keys of the tool calls a subagent may plan
  Proposals,  \* possible proposed_action values
  RunIds      \* bound: runs of the thread, 0 is the webhook's

Decisions == {"approve", "reject", "modify"}

ASSUME ThreadAssumption ==
  /\ RunIds \subseteq Nat /\ 0 \in RunIds
  /\ \A p \in Proposals : p.plan \in Seq(Calls) /\ p.requiresHuman \in BOOLEAN

\* No two calls of a plan share a key (PlansAreExecutable of
\* OrderExceptionGraph says so of every plan of the subagents).
ASSUME PlanAssumption ==
  \A p \in Proposals : \A i, j \in DOMAIN p.plan : p.plan[i] = p.plan[j] => i = j

VARIABLES
  proposal,  \* values["proposed_action"]: plan and requires_human
  thread,    \* the checkpoint: interrupts, human_decision, resolution.status,
             \* and the common status of values["tool_calls_so_far"]
  runs       \* state and input of each run of the thread

threadVars == <<proposal, thread, runs>>

FreshThread ==
  [interrupted |-> FALSE, decision |-> "none", resolution |-> "none", calls |-> "none"]

ThreadInit ==
  /\ proposal \in Proposals
  /\ thread = FreshThread
  /\ runs = [r \in RunIds |->
               [state |-> IF r = 0 THEN "active" ELSE "none", input |-> "none"]]

Done(r)      == runs[r].state = "done"
ActiveRuns   == {r \in RunIds : runs[r].state = "active"}

\* finalize: what the graph leaves in the checkpoint for a human decision
\* ("none" when the gate was not passed through).
Finalized(decision) ==
  [interrupted |-> FALSE, decision |-> decision,
   resolution  |-> IF decision = "reject" THEN "rejected"
                   ELSE IF decision = "modify" THEN "awaiting_modification"
                   ELSE IF proposal.requiresHuman THEN "approved" ELSE "auto_resolved",
   calls       |-> IF decision = "reject" THEN "rejected"
                   ELSE IF decision = "modify" THEN "none"
                   ELSE IF proposal.requiresHuman THEN "approved" ELSE "auto_ready"]

(* runs.create: refused while another run of the thread is active. *)
CreateRun(r, decision) ==
  /\ ActiveRuns = {}
  /\ runs[r].state = "none"
  /\ \A q \in RunIds : q < r => runs[q].state # "none"
  /\ runs' = [runs EXCEPT ![r] = [state |-> "active", input |-> decision]]
  /\ UNCHANGED <<proposal, thread>>

(* The webhook's run, up to the interrupt or the end of the graph. *)
FirstRun ==
  /\ runs[0].state = "active"
  /\ thread' = IF proposal.requiresHuman
               THEN [thread EXCEPT !.interrupted = TRUE]
               ELSE Finalized("none")
  /\ runs' = [runs EXCEPT ![0].state = "done"]
  /\ UNCHANGED proposal

(* A resumed run re-enters approval_gate, which returns the decision ...    *)
PassGate(r) ==
  /\ r # 0 /\ runs[r].state = "active"
  /\ thread.interrupted
  /\ thread' = [thread EXCEPT !.interrupted = FALSE, !.decision = runs[r].input]
  /\ UNCHANGED <<proposal, runs>>

(* ... and finalizes the proposal; each node leaves a checkpoint of its own, *)
(* so the state between the two can be read.                               *)
FinalizeRun(r) ==
  /\ r # 0 /\ runs[r].state = "active"
  /\ ~thread.interrupted /\ thread.resolution = "none"
  /\ thread' = Finalized(thread.decision)
  /\ runs' = [runs EXCEPT ![r].state = "done"]
  /\ UNCHANGED proposal

(* Nothing is left to resume. *)
IdleRun(r) ==
  /\ r # 0 /\ runs[r].state = "active"
  /\ thread.resolution # "none"
  /\ runs' = [runs EXCEPT ![r].state = "done"]
  /\ UNCHANGED <<proposal, thread>>

GraphStep == FirstRun \/ \E r \in RunIds : PassGate(r) \/ FinalizeRun(r) \/ IdleRun(r)

ThreadNext == GraphStep \/ \E r \in RunIds, d \in Decisions : CreateRun(r, d)

ThreadSpec == ThreadInit /\ [][ThreadNext]_threadVars

ThreadTypeOK ==
  /\ proposal \in Proposals
  /\ thread \in [interrupted : BOOLEAN, decision : Decisions \cup {"none"},
                 resolution : {"none", "approved", "auto_resolved", "rejected",
                               "awaiting_modification"},
                 calls : {"none", "approved", "auto_ready", "rejected"}]
  /\ runs \in [RunIds -> [state : {"none", "active", "done"},
                          input : Decisions \cup {"none"}]]
===============================================================================
