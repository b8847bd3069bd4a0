-------------------------------- MODULE CaseRow --------------------------------
(***************************************************************************)
(* CaseLifecycle with the rest of the row its endpoints write: the JSON of *)
(* cases.resolution, which each of them reads, merges its part into and    *)
(* writes back whole, and resolved_at.  A flush names the columns whose    *)
(* value is not the one that was loaded.                                   *)
(*                                                                         *)
(* Of the JSON the model keeps the last decision and its run, the status   *)
(* the graph was last synced with, and the status and run of the last      *)
(* execution; of resolved_at, whether it is set.                           *)
(***************************************************************************)
EXTENDS CaseLifecycle

VARIABLES
  resolution,  \* cases.resolution
  resolvedAt,  \* cases.resolved_at is not null
  seen,        \* the two columns as each coroutine has loaded them
  overlapped,  \* history: two transactions on the row have overlapped
  decided      \* history: the decision and run last committed

rowVars == <<resolution, resolvedAt, seen, overlapped, decided>>

Nothing == [what |-> "none", run |-> 0]

\* The row as the webhook's transaction creates it.
NewRow ==
  [resolution |-> [decision |-> Nothing, graph |-> "none", execution |-> Nothing],
   resolvedAt |-> FALSE]

RowInit ==
  /\ Init
  /\ resolution = NewRow.resolution
  /\ resolvedAt = NewRow.resolvedAt
  /\ seen = [c \in Handlers \cup Reviewers |-> NewRow]
  /\ overlapped = FALSE
  /\ decided = Nothing

\* Coroutines between the load of the row and the commit of their change.
Merging ==
  {h \in Handlers : handler[h].pc \in {"claimed", "reporting"}}
    \cup {v \in Reviewers : reviewer[v].pc = "loaded"}

\* session.get(Case, ...) at the begin of the merge.
Load(c) ==
  /\ seen' = [seen EXCEPT ![c] = [resolution |-> resolution, resolvedAt |-> resolvedAt]]
  /\ overlapped' = (overlapped \/ Merging # {})
  /\ UNCHANGED <<resolution, resolvedAt, decided>>

Forget(c) ==
  /\ seen' = [seen EXCEPT ![c] = NewRow]
  /\ UNCHANGED <<resolution, resolvedAt, overlapped, decided>>

\* _merge_case_state and update_case_decision after the load: merged is the
\* JSON after the deep merge, new the status.
Merge(c, new, merged) ==
  /\ resolution' = IF merged = seen[c].resolution THEN resolution ELSE merged
  /\ resolvedAt' = CASE new \in Settled -> TRUE
                     [] new \notin Settled /\ seen[c].resolvedAt -> FALSE
                     [] OTHER -> resolvedAt
  /\ seen' = [seen EXCEPT ![c] = NewRow]
  /\ UNCHANGED overlapped

\* Mutant: what was there of the execution is replaced, not merged.
DecisionPatchShallow(old, decision, run) ==
  [old EXCEPT !.decision = [what |-> decision, run |-> run],
              !.execution = [what |-> "pending", run |-> 0]]

\* The patch of a decision.  Of an earlier execution only the status is
\* replaced; its run and results stay.
DecisionPatch(old, decision, run) ==
  [old EXCEPT !.decision = [what |-> decision, run |-> run],
              !.execution.what = CASE decision = "approve" -> "pending"
                                   [] decision = "reject"  -> "skipped"
                                   [] decision = "modify"  -> "awaiting_modification"]

GraphPatch(old, graph) == [old EXCEPT !.graph = GraphStatus(graph)]

ExecutionPatch(old, batch, run) == [old EXCEPT !.execution = [what |-> batch, run |-> run]]

-------------------------------------------------------------------------------
HandlerRowStep(h) ==
  LET me == handler[h] IN
  \/ /\ ClaimRun(h)
     /\ IF handler'[h].pc = "claimed" THEN Load(h) ELSE UNCHANGED rowVars
  \/ /\ CommitSync(h)
     /\ Merge(h, SyncedStatus(me.graph), GraphPatch(seen[h].resolution, me.graph))
     /\ UNCHANGED decided
  \/ LoadCaseForResult(h) /\ Load(h)
  \/ /\ CommitResult(h)
     /\ Merge(h, IF me.batch = "succeeded" THEN "resolved" ELSE "failed",
              ExecutionPatch(seen[h].resolution, me.batch, me.run))
     /\ UNCHANGED decided
  \/ HandlerDies(h) /\ Forget(h)
  \/ /\ \/ \E r \in RunIds : LoadCompletedRun(h, r)
        \/ InvokeTool(h) \/ ToolStep(h) \/ ToolAborts(h)
     /\ UNCHANGED rowVars

ReviewerRowStep(v) ==
  LET me == reviewer[v] IN
  \/ SubmitDecision(v) /\ UNCHANGED rowVars
  \/ LoadCaseForDecision(v) /\ Load(v)
  \/ /\ CommitDecision(v)
     /\ Merge(v, CASE me.decision = "modify"  -> "pending_approval"
                   [] me.decision = "reject"  -> "canceled"
                   [] me.decision = "approve" -> "executing",
              DecisionPatch(seen[v].resolution, me.decision, me.run))
     /\ decided' = [what |-> me.decision, run |-> me.run]
  \/ ReviewerDies(v) /\ Forget(v)

RowNext ==
  \/ RunGraph /\ UNCHANGED rowVars
  \/ \E h \in Handlers : HandlerRowStep(h)
  \/ \E v \in Reviewers : ReviewerRowStep(v)

RowSpec == RowInit /\ [][RowNext]_<<allVars, rowVars>>

-------------------------------------------------------------------------------
(* The row is written by three transactions, each of which reads it first  *)
(* and holds no lock.  As long as no two of them overlap, whatever else    *)
(* does, nothing is lost: the case shows the last decision that was        *)
(* recorded, an execution ends the case the way the row says it ended, its *)
(* results are kept by a later decision, and resolved_at is set exactly in *)
(* the settled statuses.                                                   *)
RowIsCoherent ==
  ~overlapped =>
    /\ resolution.decision = decided
    /\ resolvedAt <=> status \in Settled
    /\ status = "failed" => resolution.execution.what = "failed"
    /\ status = "resolved" /\ proposal.plan # <<>> => resolution.execution.what = "succeeded"
    /\ \A r \in RunIds : execution[r] \in {"succeeded", "failed"} =>
         \/ resolution.execution.run = r
         \/ \E q \in RunIds \ {r} : execution[q] \in {"succeeded", "failed"}
===============================================================================
