---------------------------- MODULE CaseLifecycle -----------------------------
(***************************************************************************)
(* One case from its first agent run to its resolution: the graph thread   *)
(* (OrderExceptionThread), the reviewers' decision endpoint                *)
(* (routes/cases.py), the run-completion callback processor                *)
(* (agents/processor.py) and the tool ledger it executes the plan through  *)
(* (ToolLedger), all writing one row of the cases table.                   *)
(*                                                                         *)
(* Each endpoint is a coroutine; a step ends where it gives up control     *)
(* with an effect somebody else can see: an external call, a SELECT whose  *)
(* result is used later, a commit.  Transactions run at READ COMMITTED and *)
(* take no FOR UPDATE lock.  A callback can be delivered late, repeatedly  *)
(* or never.                                                               *)
(***************************************************************************)
EXTENDS OrderExceptionThread, FiniteSets, TLC

CONSTANTS
  Handlers,       \* coroutines that process run-completion callbacks
  Reviewers,      \* coroutines that serve POST /v1/cases/{id}/decision
  Registry,       \* calls whose tool is in EXECUTION_TOOL_REGISTRY
  NoCall,         \* "no idempotency key"
  MaxDeliveries,  \* bound: deliveries of one run's callback
  MaxCrashes,     \* bound: coroutines that die
  MaxAborts,      \* bound: tool transactions rolled back (crashes included)
  PromptCommit    \* timing: a resumed run never ends before the decision
                  \* request that created it has committed

ASSUME LifecycleAssumption ==
  /\ Registry \subseteq Calls /\ NoCall \notin Calls
  /\ Handlers \cap Reviewers = {}
  /\ MaxDeliveries \in Nat /\ MaxCrashes \in Nat /\ MaxAborts \in Nat
  /\ PromptCommit \in BOOLEAN

VARIABLES
  status,      \* cases.status of the one case
  execution,   \* agent_run_executions.status of each run, "none" if no row
  deliveries,  \* callbacks delivered for each run
  handler,     \* local state of process_callback
  reviewer,    \* local state of submit_case_decision
  crashes,     \* history: coroutines that died
  row, audit, txn, txnKey, outcome, reply, effects, lost, aborts  \* ToolLedger

Ledger == INSTANCE ToolLedger WITH Callers <- Handlers, Keys <- Calls, NoKey <- NoCall

dbVars     == <<status, execution>>
ledgerVars == <<row, audit, txn, txnKey, outcome, reply, effects, lost, aborts>>
coroutines == <<handler, reviewer, deliveries, crashes>>
allVars    == <<threadVars, dbVars, ledgerVars, coroutines>>

Settled == {"resolved", "failed", "canceled"}

\* SQLAlchemy's flush: the UPDATE names the columns whose new value differs
\* from the one loaded before, so a writer that sets the status it has read
\* leaves alone what others wrote in between.
Flushed(loaded, new) == IF new = loaded THEN status ELSE new

IdleHandler ==
  [pc |-> "idle", run |-> 0, graph |-> FreshThread, loaded |-> "none",
   next |-> 1, batch |-> "none"]

IdleReviewer == [pc |-> "idle", run |-> 0, decision |-> "none", loaded |-> "none"]

Init ==
  /\ ThreadInit
  /\ Ledger!Init
  /\ status     = "open"
  /\ execution  = [r \in RunIds |-> "none"]
  /\ deliveries = [r \in RunIds |-> 0]
  /\ handler    = [h \in Handlers |-> IdleHandler]
  /\ reviewer   = [v \in Reviewers |-> IdleReviewer]
  /\ crashes    = 0

-------------------------------------------------------------------------------
(* agents/processor.py: what a graph state means for the case. *)

\* Mutant: any planned call is executed, whatever the graph made of it.
ExecutableUnasked(graph) == proposal.plan # <<>>

Executable(graph) == graph.calls \in {"approved", "auto_ready"} /\ proposal.plan # <<>>

GraphStatus(graph) ==
  IF graph.interrupted THEN "awaiting_human"
  ELSE IF graph.resolution = "none" THEN "open" ELSE graph.resolution

\* Mutant: a refusal is taken for an answer like any other.
SyncedStatusOfAnyAnswer(graph) ==
  IF graph.interrupted THEN "pending_approval"
  ELSE IF Executable(graph) THEN "executing" ELSE "resolved"

SyncedStatus(graph) ==
  LET graphStatus == GraphStatus(graph)
      answered    == graphStatus \notin {"awaiting_human", "awaiting_modification", "rejected"}
  IN
  CASE graphStatus \in {"awaiting_human", "awaiting_modification"}    -> "pending_approval"
    [] graphStatus = "rejected"                                       -> "canceled"
    [] answered /\ Executable(graph)                                  -> "executing"
    [] graphStatus \in {"approved", "auto_resolved"} /\ ~Executable(graph) -> "resolved"
    [] OTHER                                                          -> "open"

\* _validate_tool_calls.
Valid(plan) == \A i \in DOMAIN plan : plan[i] \in Registry

\* Where a handler that has claimed its run is; "claimed" itself is inside
\* the first transaction.
Owning == {"executing", "calling", "executed", "reporting"}

At(h, pc) == handler[h].pc = pc

(* _load_completed_run: the run has ended, and the state read is the       *)
(* thread's latest one, not the one this run left.                         *)
LoadCompletedRun(h, r) ==
  /\ At(h, "idle")
  /\ Done(r) /\ deliveries[r] < MaxDeliveries
  /\ deliveries' = [deliveries EXCEPT ![r] = @ + 1]
  /\ handler' = [handler EXCEPT ![h] =
                   [IdleHandler EXCEPT !.pc = "loaded", !.run = r, !.graph = thread]]
  /\ UNCHANGED <<threadVars, dbVars, ledgerVars, reviewer, crashes>>

\* Mutant: the claim only looks, before it waits for nobody.
ClaimRunByLooking(h) ==
  /\ At(h, "loaded")
  /\ handler' = [handler EXCEPT ![h] =
                   IF execution[handler[h].run] \in {"none", "processing"}
                   THEN [@ EXCEPT !.pc = "claimed", !.loaded = status]
                   ELSE IdleHandler]
  /\ UNCHANGED <<threadVars, dbVars, ledgerVars, reviewer, deliveries, crashes>>

(* The claim waits for a concurrent claim of the same run, then inserts    *)
(* the row or finds it ("duplicate"); the case is loaded in the same       *)
(* transaction.                                                            *)
ClaimRun(h) ==
  LET r == handler[h].run IN
  /\ At(h, "loaded")
  /\ \A g \in Handlers : ~(At(g, "claimed") /\ handler[g].run = r)
  /\ handler' = [handler EXCEPT ![h] =
                   IF execution[r] = "none"
                   THEN [@ EXCEPT !.pc = "claimed", !.loaded = status]
                   ELSE IdleHandler]
  /\ UNCHANGED <<threadVars, dbVars, ledgerVars, reviewer, deliveries, crashes>>

(* The first commit (claim, merged case, SYNCED if nothing is to run), the *)
(* agent.execution_started event, and the validation of the plan.          *)
CommitSync(h) ==
  LET me   == handler[h]
      work == Executable(me.graph)
  IN
  /\ At(h, "claimed")
  /\ status' = Flushed(me.loaded, SyncedStatus(me.graph))
  /\ execution' = [execution EXCEPT ![me.run] = IF work THEN "processing" ELSE "synced"]
  /\ handler' = [handler EXCEPT ![h] =
                   IF ~work THEN IdleHandler
                   ELSE IF Valid(proposal.plan) THEN [@ EXCEPT !.pc = "executing"]
                   ELSE [@ EXCEPT !.pc = "executed", !.batch = "failed"]]
  /\ UNCHANGED <<threadVars, ledgerVars, reviewer, deliveries, crashes>>

\* Mutant: one call too many.
AnsweredOneTooMany(me, answer) ==
  IF answer \in {"failed", "raised"}
  THEN [me EXCEPT !.pc = "executed", !.batch = "failed"]
  ELSE IF me.next > Len(proposal.plan)
  THEN [me EXCEPT !.pc = "executed", !.batch = "succeeded"]
  ELSE [me EXCEPT !.pc = "executing", !.next = @ + 1]

\* Mutant: a call that raised is passed over.
AnsweredGoesOn(me, answer) ==
  IF answer = "failed"
  THEN [me EXCEPT !.pc = "executed", !.batch = "failed"]
  ELSE IF me.next = Len(proposal.plan)
  THEN [me EXCEPT !.pc = "executed", !.batch = "succeeded"]
  ELSE [me EXCEPT !.pc = "executing", !.next = @ + 1]

\* Mutant: an exception of a tool leaves process_callback.
AnsweredUncaught(me, answer) ==
  IF answer = "raised" THEN IdleHandler
  ELSE IF answer = "failed"
  THEN [me EXCEPT !.pc = "executed", !.batch = "failed"]
  ELSE IF me.next = Len(proposal.plan)
  THEN [me EXCEPT !.pc = "executed", !.batch = "succeeded"]
  ELSE [me EXCEPT !.pc = "executing", !.next = @ + 1]

\* _execute_tool_plan: FAILED or an exception ends the batch, any other
\* answer, SKIPPED included, goes on to the next call of the plan.
Answered(me, answer) ==
  IF answer \in {"failed", "raised"}
  THEN [me EXCEPT !.pc = "executed", !.batch = "failed"]
  ELSE IF me.next = Len(proposal.plan)
  THEN [me EXCEPT !.pc = "executed", !.batch = "succeeded"]
  ELSE [me EXCEPT !.pc = "executing", !.next = @ + 1]

\* The batch waits while the tool's transaction runs and takes its answer.
AwaitTool(h) ==
  handler' = [handler EXCEPT ![h] =
                IF txn'[h] = "idle" THEN Answered(@, reply'[h])
                ELSE [@ EXCEPT !.pc = "calling"]]

(* _invoke_tool_call: the next call of the plan goes to the ledger. *)
InvokeTool(h) ==
  /\ At(h, "executing")
  /\ Ledger!LookUp(h, proposal.plan[handler[h].next])
  /\ AwaitTool(h)
  /\ UNCHANGED <<threadVars, dbVars, reviewer, deliveries, crashes>>

ToolStep(h) ==
  /\ At(h, "calling")
  /\ Ledger!Progress(h)
  /\ AwaitTool(h)
  /\ UNCHANGED <<threadVars, dbVars, reviewer, deliveries, crashes>>

(* The tool's transaction is rolled back and the call raises. *)
ToolAborts(h) ==
  /\ At(h, "calling")
  /\ Ledger!Abort(h)
  /\ AwaitTool(h)
  /\ UNCHANGED <<threadVars, dbVars, reviewer, deliveries, crashes>>

(* The third transaction: load the case, then merge the batch's result. *)
LoadCaseForResult(h) ==
  /\ At(h, "executed")
  /\ handler' = [handler EXCEPT ![h].pc = "reporting", ![h].loaded = status]
  /\ UNCHANGED <<threadVars, dbVars, ledgerVars, reviewer, deliveries, crashes>>

\* Mutant: only a batch that succeeded moves the case on.
CommitResultOfSuccess(h) ==
  LET me == handler[h] IN
  /\ At(h, "reporting")
  /\ status' = IF me.batch = "succeeded" THEN Flushed(me.loaded, "resolved") ELSE status
  /\ execution' = [execution EXCEPT ![me.run] = me.batch]
  /\ handler' = [handler EXCEPT ![h] = IdleHandler]
  /\ UNCHANGED <<threadVars, ledgerVars, reviewer, deliveries, crashes>>

CommitResult(h) ==
  LET me == handler[h] IN
  /\ At(h, "reporting")
  /\ status' = Flushed(me.loaded, IF me.batch = "succeeded" THEN "resolved" ELSE "failed")
  /\ execution' = [execution EXCEPT ![me.run] = me.batch]
  /\ handler' = [handler EXCEPT ![h] = IdleHandler]
  /\ UNCHANGED <<threadVars, ledgerVars, reviewer, deliveries, crashes>>

(* The coroutine dies, or an exception outside the batch ends it; what is  *)
(* not committed is gone, with it a running tool transaction.              *)
HandlerDies(h) ==
  /\ ~At(h, "idle") /\ crashes < MaxCrashes
  /\ crashes' = crashes + 1
  /\ handler' = [handler EXCEPT ![h] = IdleHandler]
  /\ IF txn[h] = "idle" THEN UNCHANGED ledgerVars ELSE Ledger!Abort(h)
  /\ UNCHANGED <<threadVars, dbVars, reviewer, deliveries>>

-------------------------------------------------------------------------------
(* routes/cases.py: submit_case_decision.  Whatever the status of the case *)
(* is, the run is created first and the case is updated after it.          *)

SubmitDecision(v) ==
  /\ reviewer[v].pc = "idle"
  /\ \E r \in RunIds, d \in Decisions :
       /\ CreateRun(r, d)
       /\ reviewer' = [reviewer EXCEPT ![v] =
                         [IdleReviewer EXCEPT !.pc = "resumed", !.run = r, !.decision = d]]
  /\ UNCHANGED <<dbVars, ledgerVars, handler, deliveries, crashes>>

LoadCaseForDecision(v) ==
  /\ reviewer[v].pc = "resumed"
  /\ reviewer' = [reviewer EXCEPT ![v].pc = "loaded", ![v].loaded = status]
  /\ UNCHANGED <<threadVars, dbVars, ledgerVars, handler, deliveries, crashes>>

CommitDecision(v) ==
  LET me == reviewer[v] IN
  /\ me.pc = "loaded"
  /\ status' = Flushed(me.loaded, CASE me.decision = "modify"  -> "pending_approval"
                                    [] me.decision = "reject"  -> "canceled"
                                    [] me.decision = "approve" -> "executing")
  /\ reviewer' = [reviewer EXCEPT ![v] = IdleReviewer]
  /\ UNCHANGED <<threadVars, execution, ledgerVars, handler, deliveries, crashes>>

ReviewerDies(v) ==
  /\ reviewer[v].pc # "idle" /\ crashes < MaxCrashes
  /\ crashes' = crashes + 1
  /\ reviewer' = [reviewer EXCEPT ![v] = IdleReviewer]
  /\ UNCHANGED <<threadVars, dbVars, ledgerVars, handler, deliveries>>

(* The LangGraph server runs the graph. *)
RunGraph ==
  /\ PromptCommit => \A v \in Reviewers :
       reviewer[v].pc # "idle" => runs[reviewer[v].run].state # "active"
  /\ GraphStep
  /\ UNCHANGED <<dbVars, ledgerVars, coroutines>>

-------------------------------------------------------------------------------
HandlerProgress(h) ==
  \/ ClaimRun(h) \/ CommitSync(h) \/ InvokeTool(h) \/ ToolStep(h)
  \/ LoadCaseForResult(h) \/ CommitResult(h)

ReviewerProgress(v) == LoadCaseForDecision(v) \/ CommitDecision(v)

Next ==
  \/ RunGraph
  \/ \E h \in Handlers :
       \/ \E r \in RunIds : LoadCompletedRun(h, r)
       \/ HandlerProgress(h)
       \/ ToolAborts(h)
       \/ HandlerDies(h)
  \/ \E v \in Reviewers : SubmitDecision(v) \/ ReviewerProgress(v) \/ ReviewerDies(v)

Spec == Init /\ [][Next]_allVars

\* Coroutines that do not die run on, the graph server ends its runs and
\* calls back at least once for each; no reviewer has to decide anything.
Fairness ==
  /\ WF_allVars(RunGraph)
  /\ \A h \in Handlers : WF_allVars(HandlerProgress(h))
  /\ \A v \in Reviewers : WF_allVars(ReviewerProgress(v))
  /\ \A r \in RunIds :
       WF_allVars(deliveries[r] = 0 /\ \E h \in Handlers : LoadCompletedRun(h, r))

FairSpec == Spec /\ Fairness

-------------------------------------------------------------------------------
(* Types of the variables of this module; the ledger's are ToolLedger's. *)
TypeOK ==
  /\ ThreadTypeOK
  /\ status \in {"open", "pending_approval", "executing"} \cup Settled
  /\ execution \in [RunIds -> {"none", "processing", "synced", "succeeded", "failed"}]
  /\ deliveries \in [RunIds -> 0 .. MaxDeliveries]
  /\ \A h \in Handlers :
       /\ handler[h].pc \in {"idle", "loaded", "claimed"} \cup Owning
       /\ handler[h].pc \in {"executing", "calling"} => handler[h].next \in DOMAIN proposal.plan
  /\ \A v \in Reviewers : reviewer[v].pc \in {"idle", "resumed", "loaded"}
  /\ crashes \in 0 .. MaxCrashes

(* A gated plan touches a provider only after the decision that answered   *)
(* the interrupt was "approve": no late, duplicate or foreign callback and *)
(* no later decision can execute a plan that was rejected or sent back.    *)
NoEffectWithoutApproval ==
  (\E k \in Calls : effects[k] > 0) =>
    \/ ~proposal.requiresHuman
    \/ thread.decision = "approve"

(* The claim: a run is executed by one handler at a time, and the row says *)
(* "processing" exactly while somebody owns it or after its owner died.    *)
ProcessingIsOwned ==
  LET owners(r)   == {h \in Handlers : handler[h].pc \in Owning /\ handler[h].run = r}
      orphaned    == {r \in RunIds : execution[r] = "processing" /\ owners(r) = {}}
  IN
  /\ \A r \in RunIds :
       /\ Cardinality(owners(r)) <= 1
       /\ owners(r) # {} => execution[r] = "processing"
  /\ Cardinality(orphaned) <= crashes

(* Calls are settled in plan order: nothing later in the plan has a ledger *)
(* row before everything earlier has one, across runs, races and crashes.  *)
SettledInPlanOrder ==
  \A i, j \in DOMAIN proposal.plan :
    i < j /\ row[proposal.plan[j]] # "none" => row[proposal.plan[i]] # "none"

(* A run recorded as succeeded, and a resolved case, leave no call of the  *)
(* plan without a ledger row.                                              *)
ResolvedMeansSettled ==
  (status = "resolved" \/ \E r \in RunIds : execution[r] = "succeeded") =>
    \A i \in DOMAIN proposal.plan : row[proposal.plan[i]] # "none"

(* A rejected or sent back proposal never ends as resolved or failed, by   *)
(* whatever sequence of further decisions and late callbacks.              *)
RefusedNeverResolves ==
  thread.decision \in {"reject", "modify"} => status \notin {"resolved", "failed"}

\* The thread's decision, once it is there, is the answer.
Promised ==
  INSTANCE ApprovedPlan
    WITH answer     <- thread.decision,
         Unfinished <- {"open", "pending_approval", "executing", "canceled"}

(* Graph, callbacks, decisions and ledger together do what ApprovedPlan    *)
(* says: only the first decision answers, and nothing is applied, settled  *)
(* or shown that the answer and the calls before it do not allow.          *)
PlanIsExecutedAsApproved == Promised!Spec

(* test_agent_runs.py:124 (test_execute_tool_plan_stops_on_first_failed_tool) *)
(* expects that nothing after a failed call of the plan is executed.       *)
StopsOnFirstFailedTool ==
  \A i, j \in DOMAIN proposal.plan :
    i < j /\ row[proposal.plan[j]] # "none" => row[proposal.plan[i]] = "succeeded"

(* A claimed run is settled by the handler that claimed it. *)
ClaimedRunsSettle ==
  \A r \in RunIds : execution[r] = "processing" ~> execution[r] \in {"succeeded", "failed"}

(* processor.py:395: batches are caught to "keep batch orchestration from  *)
(* leaving cases stuck": a case does not stay in "executing".              *)
ExecutingCasesSettle == status = "executing" ~> status # "executing"
===============================================================================
