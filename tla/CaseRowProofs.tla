----------------------------- MODULE CaseRowProofs -----------------------------
(***************************************************************************)
(* RowIsCoherent, proved for every set of handlers, reviewers, runs and    *)
(* proposals and every bound.  Every step of CaseRow is one of             *)
(* CaseLifecycle by the way it is written, whose invariant is used here.   *)
(*                                                                         *)
(* As long as no two transactions have overlapped, at most one coroutine   *)
(* is between its load and its commit, and what it has loaded is what the  *)
(* row still says (Fresh): so its whole-column writes lose nothing.        *)
(***************************************************************************)
EXTENDS CaseRow, CaseLifecycleProofs

Marks == [what : Decisions \cup {"none"}, run : RunIds]

Resolutions ==
  [decision : Marks,
   graph : {"none", "awaiting_human", "open", "approved", "auto_resolved", "rejected",
            "awaiting_modification"},
   execution : [what : {"none", "pending", "skipped", "awaiting_modification",
                        "succeeded", "failed"}, run : RunIds]]

Rows == [resolution : Resolutions, resolvedAt : BOOLEAN]

RowTypes ==
  /\ resolution \in Resolutions /\ resolvedAt \in BOOLEAN
  /\ seen \in [Handlers \cup Reviewers -> Rows]
  /\ overlapped \in BOOLEAN
  /\ decided \in Marks

\* cases.status as the coroutine c has loaded it.
LoadedStatus(c) == IF c \in Handlers THEN handler[c].loaded ELSE reviewer[c].loaded

Alone == \A c, d \in Merging : c = d

Fresh ==
  \A c \in Merging :
    /\ seen[c] = [resolution |-> resolution, resolvedAt |-> resolvedAt]
    /\ LoadedStatus(c) = status

RowInv == RowTypes /\ (~overlapped => Alone /\ Fresh) /\ RowIsCoherent

-------------------------------------------------------------------------------
(* Each step of CaseRow is a step of CaseLifecycle. *)
LEMMA RowStepIsStep == [RowNext]_<<allVars, rowVars>> => [Next]_allVars
<1> SUFFICES ASSUME RowNext PROVE Next
  BY DEF allVars
<1>1. ASSUME NEW h \in Handlers, HandlerRowStep(h) PROVE Next
  BY <1>1 DEF HandlerRowStep, Next, HandlerProgress
<1>2. ASSUME NEW v \in Reviewers, ReviewerRowStep(v) PROVE Next
  BY <1>2 DEF ReviewerRowStep, Next, ReviewerProgress
<1>. QED
  BY <1>1, <1>2 DEF RowNext, Next

\* The steps of RowSpec conjoin those of CaseLifecycle, so its invariant holds here.
LEMMA RowRefinesLifecycle == RowSpec => Spec
<1>1. RowInit => Init
  BY DEF RowInit
<1>. QED
  BY <1>1, RowStepIsStep, PTL DEF RowSpec, Spec

-------------------------------------------------------------------------------
\* A new case's row, and a handler that has loaded nothing, have the types of the rest.
LEMMA NewRowState == NewRow \in Rows /\ Nothing \in Marks
BY ThreadAssumption DEF NewRow, Rows, Resolutions, Marks, Nothing

\* The row of a new case.
LEMMA RowInvInit == RowInit => RowInv
<1> SUFFICES ASSUME RowInit PROVE RowInv
  OBVIOUS
<1>1. /\ resolution = NewRow.resolution /\ resolvedAt = NewRow.resolvedAt
      /\ decided = Nothing /\ overlapped = FALSE
      /\ seen = [c \in Handlers \cup Reviewers |-> NewRow]
  BY DEF RowInit
<1>2. RowTypes
  BY <1>1, NewRowState DEF RowTypes, Rows
<1>3. Merging = {}
  BY DEF RowInit, Init, IdleHandler, IdleReviewer, Merging
<1>4. RowIsCoherent
  BY <1>1 DEF RowInit, Init, NewRow, RowIsCoherent, Settled
<1>. QED
  BY <1>2, <1>3, <1>4 DEF RowInv, Alone, Fresh

\* Whether c is between load and commit, and what it has loaded of status.
InMerge(c) ==
  IF c \in Handlers THEN handler[c].pc \in {"claimed", "reporting"} ELSE reviewer[c].pc = "loaded"

\* Who is between load and commit, before and after a step.
LEMMA MergingIs ==
  /\ \A c : c \in Merging <=> c \in Handlers \cup Reviewers /\ InMerge(c)
  /\ \A c : c \in Merging' <=> c \in Handlers \cup Reviewers /\ InMerge(c)'
BY LifecycleAssumption DEF Merging, InMerge

\* The other coroutines are where they were.
OthersStay(c) ==
  /\ \A h \in Handlers \ {c} : handler'[h] = handler[h]
  /\ \A v \in Reviewers \ {c} : reviewer'[v] = reviewer[v]

\* A coroutine that moves leaves the others where they are in their transactions.
LEMMA OthersMerge ==
  ASSUME NEW c, OthersStay(c)
  PROVE  /\ \A d : d # c => (d \in Merging' <=> d \in Merging)
         /\ \A d \in Merging \ {c} : LoadedStatus(d)' = LoadedStatus(d)
BY LifecycleAssumption DEF OthersStay, Merging, LoadedStatus

\* A step that neither begins nor ends a merge.
LEMMA QuietRowStep ==
  ASSUME RowInv, UNCHANGED <<rowVars, proposal, status, execution>>,
         NEW c, OthersStay(c), c \notin Merging'
  PROVE  RowInv'
<1>1. RowTypes'
  BY DEF RowInv, RowTypes, rowVars
<1>2. ~overlapped' => Alone' /\ Fresh'
  BY OthersMerge DEF RowInv, Alone, Fresh, rowVars
<1>3. RowIsCoherent'
  BY DEF RowInv, RowIsCoherent, rowVars
<1>. QED
  BY <1>1, <1>2, <1>3 DEF RowInv

\* A merge begins with what the row says.
LEMMA LoadStep ==
  ASSUME RowInv, NEW c \in Handlers \cup Reviewers, Load(c), OthersStay(c),
         c \notin Merging, LoadedStatus(c)' = status,
         UNCHANGED <<proposal, status, execution>>
  PROVE  RowInv'
<1>0. PICK now : now = [resolution |-> resolution, resolvedAt |-> resolvedAt]
  OBVIOUS
<1>1. /\ seen' = [seen EXCEPT ![c] = now]
      /\ overlapped' = (overlapped \/ Merging # {})
      /\ UNCHANGED <<resolution, resolvedAt, decided>>
  BY <1>0 DEF Load
<1>2. now \in Rows
  BY <1>0 DEF RowInv, RowTypes, Rows
<1>3. RowTypes'
  BY <1>1, <1>2 DEF RowInv, RowTypes
<1>4. ASSUME ~overlapped' PROVE Alone' /\ Fresh'
  <2>1. Merging' \subseteq {c}
    BY <1>1, <1>4, OthersMerge
  <2>2. seen'[c] = now
    BY <1>1 DEF RowInv, RowTypes
  <2>. QED BY <1>0, <1>1, <2>1, <2>2 DEF Alone, Fresh
<1>5. RowIsCoherent'
  BY <1>1 DEF RowInv, RowIsCoherent
<1>. QED
  BY <1>3, <1>4, <1>5 DEF RowInv

\* A coroutine that dies has written nothing.
LEMMA ForgetStep ==
  ASSUME RowInv, NEW c \in Handlers \cup Reviewers, Forget(c), OthersStay(c),
         c \notin Merging', UNCHANGED <<proposal, status, execution>>
  PROVE  RowInv'
<1>1. /\ seen' = [seen EXCEPT ![c] = NewRow]
      /\ UNCHANGED <<resolution, resolvedAt, overlapped, decided>>
  BY DEF Forget
<1>2. RowTypes'
  BY <1>1, NewRowState DEF RowInv, RowTypes
<1>3. \A d \in Merging' : d # c /\ d \in Merging /\ d \in Handlers \cup Reviewers
                          /\ LoadedStatus(d)' = LoadedStatus(d)
  BY OthersMerge, MergingIs
<1>4. \A d \in Merging' : seen'[d] = seen[d]
  BY <1>1, <1>3 DEF RowInv, RowTypes
<1>5. ~overlapped' => Alone' /\ Fresh'
  BY <1>1, <1>3, <1>4 DEF RowInv, Alone, Fresh
<1>6. RowIsCoherent'
  BY <1>1 DEF RowInv, RowIsCoherent
<1>. QED
  BY <1>2, <1>5, <1>6 DEF RowInv

\* A merge ends.  If it was alone, the row is what it makes of it.
LEMMA MergeStep ==
  ASSUME RowInv, NEW c \in Merging, NEW new, NEW merged \in Resolutions, Merge(c, new, merged),
         OthersStay(c), c \notin Merging',
         status' = Flushed(LoadedStatus(c), new), decided' \in Marks
  PROVE  /\ RowTypes'
         /\ ~overlapped' => Alone' /\ Fresh'
         /\ ~overlapped => /\ status' = new /\ resolution' = merged
                           /\ resolvedAt' <=> new \in Settled
                           /\ seen[c] = [resolution |-> resolution, resolvedAt |-> resolvedAt]
         /\ UNCHANGED overlapped
<1>1. c \in Handlers \cup Reviewers
  BY MergingIs
<1>2. /\ resolution' = IF merged = seen[c].resolution THEN resolution ELSE merged
      /\ seen' = [seen EXCEPT ![c] = NewRow]
      /\ UNCHANGED overlapped
  BY DEF Merge
<1>3. /\ new \in Settled => resolvedAt' = TRUE
      /\ new \notin Settled /\ seen[c].resolvedAt => resolvedAt' = FALSE
      /\ new \notin Settled /\ ~seen[c].resolvedAt => resolvedAt' = resolvedAt
  <2>1. CASE new \in Settled
    BY <2>1 DEF Merge
  <2>2. CASE new \notin Settled /\ seen[c].resolvedAt
    BY <2>2 DEF Merge
  <2>3. CASE new \notin Settled /\ ~seen[c].resolvedAt
    BY <2>3 DEF Merge
  <2>. QED BY <2>1, <2>2, <2>3
<1>4. RowTypes'
  <2>1. resolvedAt' \in BOOLEAN
    BY <1>3 DEF RowInv, RowTypes
  <2>. QED BY <1>2, <2>1, NewRowState DEF RowInv, RowTypes
<1>5. ASSUME ~overlapped PROVE Merging' = {}
  <2>1. \A d \in Merging : d = c
    BY <1>5 DEF RowInv, Alone
  <2>. QED BY <2>1, OthersMerge
<1>6. ASSUME ~overlapped
      PROVE  /\ status' = new /\ resolution' = merged
             /\ resolvedAt' <=> new \in Settled
             /\ seen[c] = [resolution |-> resolution, resolvedAt |-> resolvedAt]
  <2>1. /\ seen[c] = [resolution |-> resolution, resolvedAt |-> resolvedAt]
        /\ LoadedStatus(c) = status
    BY <1>6 DEF RowInv, Fresh
  <2>2. seen[c].resolution = resolution /\ seen[c].resolvedAt = resolvedAt
    BY <2>1
  <2>3. status' = new
    BY <2>1 DEF Flushed
  <2>4. resolution' = merged
    BY <1>2, <2>2
  <2>5. resolvedAt' <=> new \in Settled
    BY <1>3, <2>2
  <2>. QED BY <2>1, <2>3, <2>4, <2>5
<1>. QED
  BY <1>2, <1>4, <1>5, <1>6 DEF Alone, Fresh

-------------------------------------------------------------------------------
\* Where a handler goes when a tool has answered, it does not merge.
LEMMA AwaitToolStage ==
  ASSUME IndInv, NEW h \in Handlers, InvokeTool(h) \/ ToolStep(h) \/ ToolAborts(h)
  PROVE  ~InMerge(h) /\ ~InMerge(h)'
<1>0. PICK me : me = handler[h]
  OBVIOUS
<1>1. /\ me \in HandlerStates /\ AwaitTool(h) /\ me.pc \in {"executing", "calling"}
  BY <1>0 DEF InvokeTool, ToolStep, ToolAborts, At, IndInv, Types
<1>2. me.next \in DOMAIN proposal.plan
  BY <1>0, <1>1 DEF IndInv, Sound
<1>3. PICK new :
        /\ handler'[h] = new
        /\ new = IF txn'[h] = "idle" THEN Answered(me, reply'[h]) ELSE [me EXCEPT !.pc = "calling"]
  BY <1>0, <1>1 DEF AwaitTool, IndInv, Types
<1>4. CASE new = [me EXCEPT !.pc = "calling"]
  BY <1>0, <1>1, <1>3, <1>4 DEF HandlerStates, InMerge
<1>5. ASSUME NEW answer, new = Answered(me, answer) PROVE new.pc \in {"executing", "executed"}
  BY <1>1, <1>2, <1>5, AfterAnswer
<1>. QED
  BY <1>0, <1>1, <1>3, <1>4, <1>5 DEF InMerge

\* The step of a handler leaves the other coroutines where they are.
LEMMA HandlerAlone ==
  ASSUME IndInv, NEW h \in Handlers, NEW new, handler' = [handler EXCEPT ![h] = new],
         UNCHANGED reviewer
  PROVE  OthersStay(h) /\ handler'[h] = new
BY DEF IndInv, Types, OthersStay

\* As HandlerAlone, of a reviewer.
LEMMA ReviewerAlone ==
  ASSUME IndInv, NEW v \in Reviewers, NEW new, reviewer' = [reviewer EXCEPT ![v] = new],
         UNCHANGED handler
  PROVE  OthersStay(v) /\ reviewer'[v] = new /\ v \notin Handlers
BY LifecycleAssumption DEF IndInv, Types, OthersStay

\* An idle reviewer is in no transaction.
LEMMA IdleReviewerStage == IdleReviewer.pc = "idle"
BY DEF IdleReviewer

\* The claim, and the load of the case in its transaction.
LEMMA ClaimRunRow ==
  ASSUME IndInv, RowInv, NEW h \in Handlers, ClaimRun(h),
         IF handler'[h].pc = "claimed" THEN Load(h) ELSE UNCHANGED rowVars
  PROVE  RowInv'
<1>0. PICK me : me = handler[h]
  OBVIOUS
<1>1. /\ me \in HandlerStates /\ me.pc = "loaded"
      /\ UNCHANGED <<proposal, status, execution, reviewer>>
  BY <1>0 DEF ClaimRun, At, IndInv, Types, threadVars, dbVars
<1>2. PICK new :
        /\ handler' = [handler EXCEPT ![h] = new]
        /\ new = IF execution[me.run] = "none"
                 THEN [me EXCEPT !.pc = "claimed", !.loaded = status] ELSE IdleHandler
  BY <1>0 DEF ClaimRun, IndInv, Types
<1>3. OthersStay(h) /\ handler'[h] = new
  BY <1>1, <1>2, HandlerAlone
<1>4. h \notin Merging
  BY <1>0, <1>1, MergingIs DEF InMerge
<1>5. CASE new = [me EXCEPT !.pc = "claimed", !.loaded = status]
  <2>1. new.pc = "claimed" /\ new.loaded = status
    BY <1>1, <1>5 DEF HandlerStates
  <2>2. Load(h) /\ LoadedStatus(h)' = status
    BY <1>3, <2>1 DEF LoadedStatus
  <2>. QED BY <1>1, <1>3, <1>4, <2>2, LoadStep
<1>6. CASE new = IdleHandler
  <2>1. handler'[h].pc = "idle"
    BY <1>3, <1>6, IdleHandlerState
  <2>2. UNCHANGED rowVars
    BY <2>1
  <2>3. h \notin Merging'
    BY <2>1, MergingIs DEF InMerge
  <2>. QED BY <1>1, <1>3, <2>2, <2>3, QuietRowStep
<1>. QED
  BY <1>2, <1>5, <1>6

\* The third transaction loads the row: it has it fresh.
LEMMA LoadCaseForResultRow ==
  ASSUME IndInv, RowInv, NEW h \in Handlers, LoadCaseForResult(h), Load(h)
  PROVE  RowInv'
<1>0. PICK me : me = handler[h]
  OBVIOUS
<1>1. /\ me \in HandlerStates /\ me.pc = "executed"
      /\ UNCHANGED <<proposal, status, execution, reviewer>>
  BY <1>0 DEF LoadCaseForResult, At, IndInv, Types, threadVars, dbVars
<1>2. PICK new : new = [me EXCEPT !.pc = "reporting", !.loaded = status]
  OBVIOUS
<1>3. handler' = [handler EXCEPT ![h] = new]
  BY <1>0, <1>2 DEF LoadCaseForResult, IndInv, Types
<1>4. OthersStay(h) /\ handler'[h] = new
  BY <1>1, <1>3, HandlerAlone
<1>5. new.loaded = status
  BY <1>1, <1>2 DEF HandlerStates
<1>6. LoadedStatus(h)' = status
  BY <1>4, <1>5 DEF LoadedStatus
<1>7. h \notin Merging
  BY <1>0, <1>1, MergingIs DEF InMerge
<1>. QED
  BY <1>1, <1>4, <1>6, <1>7, LoadStep

\* A graph that resolves a case has no plan to execute.
LEMMA ResolvedWithoutPlan ==
  ASSUME IndInv, NEW graph, SeenBefore(graph), SyncedStatus(graph) = "resolved"
  PROVE  proposal.plan = <<>>
<1>1. proposal.requiresHuman \in BOOLEAN
  BY ThreadAssumption DEF IndInv, Types, ThreadTypeOK
<1>2. thread.decision \in Decisions \cup {"none"}
  BY DEF IndInv, Types, ThreadTypeOK
<1>3. CASE ~proposal.requiresHuman
  BY <1>1, <1>3 DEF SeenBefore, Finalized, SyncedStatus, GraphStatus, Executable
<1>4. CASE proposal.requiresHuman /\ graph = Interrupted
  BY <1>4 DEF Interrupted, SyncedStatus, GraphStatus
<1>5. CASE proposal.requiresHuman /\ graph = GatePassed(thread.decision)
  BY <1>5 DEF GatePassed, SyncedStatus, GraphStatus, Executable
<1>6. CASE proposal.requiresHuman /\ thread.decision # "none" /\ graph = Finalized(thread.decision)
  <2>1. ~graph.interrupted
    BY <1>6, FinalizedAs
  <2>2. CASE thread.decision = "reject"
    <3>1. graph.resolution = "rejected"
      BY <1>6, <2>2, FinalizedAs
    <3>. QED BY <2>1, <3>1 DEF SyncedStatus, GraphStatus
  <2>3. CASE thread.decision = "modify"
    <3>1. graph.resolution = "awaiting_modification"
      BY <1>6, <2>3, FinalizedAs
    <3>. QED BY <2>1, <3>1 DEF SyncedStatus, GraphStatus
  <2>4. CASE thread.decision = "approve"
    <3>1. graph.resolution = "approved" /\ graph.calls = "approved"
      BY <1>6, <2>4, FinalizedAs
    <3>. QED BY <2>1, <2>4, <3>1 DEF SyncedStatus, GraphStatus, Executable
  <2>. QED BY <1>2, <1>6, <2>2, <2>3, <2>4 DEF Decisions
<1>. QED
  BY <1>1, <1>3, <1>4, <1>5, <1>6 DEF SeenBefore

\* The patch of a sync replaces the graph's status only.
LEMMA GraphPatchIs ==
  ASSUME IndInv, NEW old \in Resolutions, NEW graph \in Checkpoints
  PROVE  /\ GraphPatch(old, graph) \in Resolutions
         /\ GraphPatch(old, graph).decision = old.decision
         /\ GraphPatch(old, graph).execution = old.execution
<1>1. PICK status_ : status_ = GraphStatus(graph)
  OBVIOUS
<1>2. status_ \in {"none", "awaiting_human", "open", "approved", "auto_resolved", "rejected",
                   "awaiting_modification"}
  BY <1>1 DEF GraphStatus, Checkpoints
<1>3. GraphPatch(old, graph) = [old EXCEPT !.graph = status_]
  BY <1>1 DEF GraphPatch
<1>. QED
  BY <1>2, <1>3 DEF Resolutions

\* _merge_case_state of the graph's values, from the row as it was loaded.
LEMMA CommitSyncRow ==
  ASSUME IndInv, RowInv, NEW h \in Handlers, CommitSync(h),
         Merge(h, SyncedStatus(handler[h].graph), GraphPatch(seen[h].resolution, handler[h].graph)),
         UNCHANGED decided
  PROVE  RowInv'
<1>0. PICK me, new, merged :
        /\ me = handler[h] /\ new = SyncedStatus(me.graph)
        /\ merged = GraphPatch(seen[h].resolution, me.graph)
  OBVIOUS
<1>1. /\ me \in HandlerStates /\ me.pc = "claimed" /\ me.graph \in Checkpoints /\ me.run \in RunIds
      /\ SeenBefore(me.graph)
      /\ execution[me.run] = "none"
      /\ UNCHANGED <<proposal, reviewer>>
      /\ status' = Flushed(me.loaded, new)
  BY <1>0 DEF CommitSync, At, IndInv, Types, Sound, ClaimsAreExclusive, HandlerStates, threadVars
<1>2. PICK next :
        /\ handler' = [handler EXCEPT ![h] = next]
        /\ next = IF ~Executable(me.graph) THEN IdleHandler
                  ELSE IF Valid(proposal.plan) THEN [me EXCEPT !.pc = "executing"]
                  ELSE [me EXCEPT !.pc = "executed", !.batch = "failed"]
  BY <1>0 DEF CommitSync, IndInv, Types
<1>3. next.pc \in {"idle", "executing", "executed"}
  BY <1>1, <1>2, IdleHandlerState DEF HandlerStates
<1>4. OthersStay(h) /\ handler'[h] = next
  BY <1>1, <1>2, HandlerAlone
<1>5. h \in Merging /\ h \notin Merging'
  BY <1>0, <1>1, <1>3, <1>4, MergingIs DEF InMerge
<1>6. seen[h] \in Rows /\ seen[h].resolution \in Resolutions
  BY DEF RowInv, RowTypes, Rows
<1>7. /\ merged \in Resolutions
      /\ merged.decision = seen[h].resolution.decision
      /\ merged.execution = seen[h].resolution.execution
  BY <1>0, <1>1, <1>6, GraphPatchIs
<1>8. /\ RowTypes' /\ UNCHANGED overlapped
      /\ ~overlapped' => Alone' /\ Fresh'
      /\ ~overlapped => /\ status' = new /\ resolution' = merged
                        /\ resolvedAt' <=> new \in Settled
                        /\ seen[h] = [resolution |-> resolution, resolvedAt |-> resolvedAt]
  <2>1. status' = Flushed(LoadedStatus(h), new)
    BY <1>0, <1>1 DEF LoadedStatus
  <2>2. Merge(h, new, merged)
    BY <1>0
  <2>3. decided' \in Marks
    BY DEF RowInv, RowTypes
  <2>. QED BY <1>4, <1>5, <1>7, <2>1, <2>2, <2>3, MergeStep
<1>9. /\ new # "failed"
      /\ new = "resolved" => proposal.plan = <<>>
  BY <1>0, <1>1, SyncedStatusOf, ResolvedWithoutPlan
<1>10. \A r \in RunIds :
         execution'[r] \in {"succeeded", "failed"} <=> execution[r] \in {"succeeded", "failed"}
  BY <1>0, <1>1 DEF CommitSync, IndInv, Types
<1>11. RowIsCoherent'
  <2> SUFFICES ASSUME ~overlapped PROVE RowIsCoherent'
    BY <1>8 DEF RowIsCoherent
  <2>1. /\ resolution'.decision = resolution.decision
        /\ resolution'.execution = resolution.execution
    BY <1>7, <1>8
  <2>. QED BY <1>1, <1>8, <1>9, <1>10, <2>1 DEF RowInv, RowIsCoherent
<1>. QED
  BY <1>8, <1>11 DEF RowInv

\* _merge_case_state of the batch's results, from the row as it was loaded.
LEMMA CommitResultRow ==
  ASSUME IndInv, RowInv, NEW h \in Handlers, CommitResult(h),
         Merge(h, IF handler[h].batch = "succeeded" THEN "resolved" ELSE "failed",
               ExecutionPatch(seen[h].resolution, handler[h].batch, handler[h].run)),
         UNCHANGED decided
  PROVE  RowInv'
<1>0. PICK me, new, mark, merged :
        /\ me = handler[h] /\ new = IF me.batch = "succeeded" THEN "resolved" ELSE "failed"
        /\ mark = [what |-> me.batch, run |-> me.run]
        /\ merged = [seen[h].resolution EXCEPT !.execution = mark]
  OBVIOUS
<1>1. /\ me \in HandlerStates /\ me.pc = "reporting" /\ me.run \in RunIds
      /\ me.batch \in {"succeeded", "failed"}
      /\ UNCHANGED <<proposal, reviewer>>
      /\ status' = Flushed(me.loaded, new)
      /\ handler' = [handler EXCEPT ![h] = IdleHandler]
      /\ execution' = [execution EXCEPT ![me.run] = me.batch]
  BY <1>0 DEF CommitResult, At, IndInv, Types, Sound, HandlerStates, threadVars
<1>2. OthersStay(h) /\ handler'[h].pc = "idle"
  BY <1>1, HandlerAlone, IdleHandlerState
<1>3. h \in Merging /\ h \notin Merging'
  BY <1>0, <1>1, <1>2, MergingIs DEF InMerge
<1>4. seen[h] \in Rows /\ seen[h].resolution \in Resolutions
  BY DEF RowInv, RowTypes, Rows
<1>5. /\ merged \in Resolutions
      /\ merged.decision = seen[h].resolution.decision
      /\ merged.execution = mark
  BY <1>0, <1>1, <1>4 DEF Resolutions
<1>6. /\ RowTypes' /\ UNCHANGED overlapped
      /\ ~overlapped' => Alone' /\ Fresh'
      /\ ~overlapped => /\ status' = new /\ resolution' = merged
                        /\ resolvedAt' <=> new \in Settled
                        /\ seen[h] = [resolution |-> resolution, resolvedAt |-> resolvedAt]
  <2>1. status' = Flushed(LoadedStatus(h), new)
    BY <1>0, <1>1 DEF LoadedStatus
  <2>2. Merge(h, new, merged)
    BY <1>0 DEF ExecutionPatch
  <2>3. decided' \in Marks
    BY DEF RowInv, RowTypes
  <2>. QED BY <1>2, <1>3, <1>5, <2>1, <2>2, <2>3, MergeStep
<1>7. RowIsCoherent'
  <2> SUFFICES ASSUME ~overlapped PROVE RowIsCoherent'
    BY <1>6 DEF RowIsCoherent
  <2>1. /\ resolution'.decision = resolution.decision
        /\ resolution'.execution = mark /\ mark.what = me.batch /\ mark.run = me.run
    <3>1. mark.what = me.batch /\ mark.run = me.run
      BY <1>0
    <3>2. seen[h].resolution = resolution
      BY <1>6
    <3>3. resolution' = merged
      BY <1>6
    <3>. QED BY <1>5, <3>1, <3>2, <3>3
  <2>2. resolution'.decision = decided'
    BY <2>1 DEF RowInv, RowIsCoherent
  <2>3. resolvedAt' <=> status' \in Settled
    BY <1>6
  <2>4. /\ status' = "failed" => resolution'.execution.what = "failed"
        /\ status' = "resolved" => resolution'.execution.what = "succeeded"
    BY <1>0, <1>1, <1>6, <2>1
  <2>5. ASSUME NEW r \in RunIds
        PROVE  \/ resolution'.execution.run = r
               \/ \E q \in RunIds \ {r} : execution'[q] \in {"succeeded", "failed"}
    <3>1. execution'[me.run] \in {"succeeded", "failed"}
      BY <1>1 DEF IndInv, Types
    <3>. QED BY <1>1, <2>1, <3>1
  <2>. QED BY <2>2, <2>3, <2>4, <2>5 DEF RowIsCoherent
<1>. QED
  BY <1>6, <1>7 DEF RowInv

\* A handler that dies merges nothing.
LEMMA HandlerDiesRow ==
  ASSUME IndInv, RowInv, NEW h \in Handlers, HandlerDies(h), Forget(h)
  PROVE  RowInv'
<1>1. /\ handler' = [handler EXCEPT ![h] = IdleHandler]
      /\ UNCHANGED <<proposal, status, execution, reviewer>>
  BY DEF HandlerDies, threadVars, dbVars
<1>2. OthersStay(h) /\ handler'[h].pc = "idle"
  BY <1>1, HandlerAlone, IdleHandlerState
<1>3. h \notin Merging'
  BY <1>2, MergingIs DEF InMerge
<1>. QED
  BY <1>1, <1>2, <1>3, ForgetStep

\* Every step of a handler, with what it does to the row.
LEMMA HandlerRow ==
  ASSUME IndInv, RowInv, NEW h \in Handlers, HandlerRowStep(h)
  PROVE  RowInv'
<1>1. ASSUME NEW r \in RunIds, LoadCompletedRun(h, r), UNCHANGED rowVars PROVE RowInv'
  <2>1. PICK new : new = [IdleHandler EXCEPT !.pc = "loaded", !.run = r, !.graph = thread]
    OBVIOUS
  <2>2. /\ handler' = [handler EXCEPT ![h] = new]
        /\ UNCHANGED <<proposal, status, execution, reviewer>>
    BY <1>1, <2>1 DEF LoadCompletedRun, threadVars, dbVars
  <2>3. new.pc = "loaded"
    BY <2>1, IdleHandlerState DEF HandlerStates
  <2>4. OthersStay(h) /\ handler'[h] = new
    BY <2>2, HandlerAlone
  <2>5. h \notin Merging'
    BY <2>3, <2>4, MergingIs DEF InMerge
  <2>. QED BY <1>1, <2>2, <2>4, <2>5, QuietRowStep
<1>2. ASSUME InvokeTool(h) \/ ToolStep(h) \/ ToolAborts(h), UNCHANGED rowVars PROVE RowInv'
  <2>1. AwaitTool(h) /\ UNCHANGED <<proposal, status, execution, reviewer>>
    BY <1>2 DEF InvokeTool, ToolStep, ToolAborts, threadVars, dbVars
  <2>2. OthersStay(h)
    BY <2>1 DEF AwaitTool, IndInv, Types, OthersStay
  <2>3. h \notin Merging'
    BY <1>2, AwaitToolStage, MergingIs
  <2>. QED BY <1>2, <2>1, <2>2, <2>3, QuietRowStep
<1>. QED
  BY <1>1, <1>2, ClaimRunRow, CommitSyncRow, LoadCaseForResultRow, CommitResultRow, HandlerDiesRow
     DEF HandlerRowStep

\* The patch of a decision replaces the decision and the execution's status.
LEMMA DecisionPatchIs ==
  ASSUME NEW old \in Resolutions, NEW decision \in Decisions, NEW run \in RunIds,
         NEW merged, merged = DecisionPatch(old, decision, run)
  PROVE  /\ merged \in Resolutions
         /\ merged.decision = [what |-> decision, run |-> run]
         /\ merged.execution.run = old.execution.run
<1>1. PICK mark : mark = [what |-> decision, run |-> run]
  OBVIOUS
<1>2. PICK what : what = CASE decision = "approve" -> "pending"
                           [] decision = "reject"  -> "skipped"
                           [] decision = "modify"  -> "awaiting_modification"
  OBVIOUS
<1>3. what \in {"pending", "skipped", "awaiting_modification"}
  BY <1>2 DEF Decisions
<1>4. PICK execution_ : execution_ = [old.execution EXCEPT !.what = what]
  OBVIOUS
<1>5. mark \in Marks
  BY <1>1 DEF Marks
<1>6. /\ execution_ \in [what : {"none", "pending", "skipped", "awaiting_modification",
                                 "succeeded", "failed"}, run : RunIds]
      /\ execution_.run = old.execution.run
  BY <1>3, <1>4 DEF Resolutions
<1>7. merged = [old EXCEPT !.decision = mark, !.execution = execution_]
  BY <1>1, <1>2, <1>4 DEF DecisionPatch, Resolutions
<1>8. merged \in Resolutions /\ merged.decision = mark /\ merged.execution = execution_
  BY <1>5, <1>6, <1>7 DEF Resolutions
<1>. QED
  BY <1>1, <1>6, <1>8

\* update_case_decision, from the row as it was loaded.
LEMMA CommitDecisionRow ==
  ASSUME IndInv, RowInv, NEW v \in Reviewers, CommitDecision(v), NEW new,
         new = CASE reviewer[v].decision = "modify"  -> "pending_approval"
                 [] reviewer[v].decision = "reject"  -> "canceled"
                 [] reviewer[v].decision = "approve" -> "executing",
         Merge(v, new, DecisionPatch(seen[v].resolution, reviewer[v].decision, reviewer[v].run)),
         decided' = [what |-> reviewer[v].decision, run |-> reviewer[v].run]
  PROVE  RowInv'
<1>0. PICK me, merged :
        /\ me = reviewer[v]
        /\ merged = DecisionPatch(seen[v].resolution, me.decision, me.run)
  OBVIOUS
<1>1. /\ me \in ReviewerStates /\ me.pc = "loaded"
      /\ UNCHANGED <<proposal, execution, handler>>
      /\ status' = Flushed(me.loaded, new)
      /\ reviewer' = [reviewer EXCEPT ![v] = IdleReviewer]
  BY <1>0 DEF CommitDecision, IndInv, Types, threadVars
<1>2. me.decision \in Decisions /\ me.run \in RunIds
  BY <1>1 DEF ReviewerStates
<1>3. new \in {"pending_approval", "canceled", "executing"}
  BY <1>0, <1>2 DEF Decisions
<1>4. OthersStay(v) /\ reviewer'[v].pc = "idle" /\ v \notin Handlers
  BY <1>1, ReviewerAlone, IdleReviewerStage
<1>5. v \in Merging /\ v \notin Merging'
  BY <1>0, <1>1, <1>4, MergingIs DEF InMerge
<1>6. seen[v] \in Rows /\ seen[v].resolution \in Resolutions
  BY DEF RowInv, RowTypes, Rows
<1>7. /\ merged \in Resolutions
      /\ merged.decision = decided'
      /\ merged.execution.run = seen[v].resolution.execution.run
  BY <1>0, <1>2, <1>6, DecisionPatchIs
<1>8. /\ RowTypes' /\ UNCHANGED overlapped
      /\ ~overlapped' => Alone' /\ Fresh'
      /\ ~overlapped => /\ status' = new /\ resolution' = merged
                        /\ resolvedAt' <=> new \in Settled
                        /\ seen[v] = [resolution |-> resolution, resolvedAt |-> resolvedAt]
  <2>1. status' = Flushed(LoadedStatus(v), new)
    BY <1>0, <1>1, <1>4 DEF LoadedStatus
  <2>2. Merge(v, new, merged)
    BY <1>0
  <2>3. decided' \in Marks
    BY <1>0, <1>2 DEF Marks
  <2>. QED BY <1>4, <1>5, <1>7, <2>1, <2>2, <2>3, MergeStep
<1>9. RowIsCoherent'
  <2> SUFFICES ASSUME ~overlapped PROVE RowIsCoherent'
    BY <1>8 DEF RowIsCoherent
  <2>1. seen[v].resolution = resolution
    BY <1>8
  <2>2. resolution' = merged /\ status' = new
    BY <1>8
  <2>3. resolution'.decision = decided' /\ resolution'.execution.run = resolution.execution.run
    BY <1>7, <2>1, <2>2
  <2>4. resolvedAt' <=> status' \in Settled
    BY <1>8
  <2>. QED BY <1>1, <1>3, <2>2, <2>3, <2>4 DEF RowInv, RowIsCoherent
<1>. QED
  BY <1>8, <1>9 DEF RowInv

\* Every step of a reviewer, with what it does to the row.
LEMMA ReviewerRow ==
  ASSUME IndInv, RowInv, NEW v \in Reviewers, ReviewerRowStep(v)
  PROVE  RowInv'
<1>1. ASSUME SubmitDecision(v), UNCHANGED rowVars PROVE RowInv'
  <2>1. PICK r \in RunIds, d \in Decisions :
          /\ CreateRun(r, d)
          /\ reviewer' = [reviewer EXCEPT ![v] =
                            [IdleReviewer EXCEPT !.pc = "resumed", !.run = r, !.decision = d]]
    BY <1>1 DEF SubmitDecision
  <2>2. PICK new : new = [IdleReviewer EXCEPT !.pc = "resumed", !.run = r, !.decision = d]
    OBVIOUS
  <2>3. UNCHANGED <<proposal, status, execution, handler>>
    BY <1>1, <2>1 DEF SubmitDecision, CreateRun, dbVars
  <2>4. new.pc = "resumed"
    BY <2>2 DEF IdleReviewer
  <2>5. OthersStay(v) /\ reviewer'[v] = new /\ v \notin Handlers
    BY <2>1, <2>2, <2>3, ReviewerAlone
  <2>6. v \notin Merging'
    BY <2>4, <2>5, MergingIs DEF InMerge
  <2>. QED BY <1>1, <2>3, <2>5, <2>6, QuietRowStep
<1>2. ASSUME LoadCaseForDecision(v), Load(v) PROVE RowInv'
  <2>0. PICK me : me = reviewer[v]
    OBVIOUS
  <2>1. /\ me \in ReviewerStates /\ me.pc = "resumed"
        /\ UNCHANGED <<proposal, status, execution, handler>>
    BY <1>2, <2>0 DEF LoadCaseForDecision, IndInv, Types, threadVars, dbVars
  <2>2. PICK new : new = [me EXCEPT !.pc = "loaded", !.loaded = status]
    OBVIOUS
  <2>3. reviewer' = [reviewer EXCEPT ![v] = new]
    BY <1>2, <2>0, <2>2 DEF LoadCaseForDecision, IndInv, Types
  <2>4. new.loaded = status
    BY <2>1, <2>2 DEF ReviewerStates
  <2>5. OthersStay(v) /\ reviewer'[v] = new /\ v \notin Handlers
    BY <2>1, <2>3, ReviewerAlone
  <2>6. LoadedStatus(v)' = status
    BY <2>4, <2>5 DEF LoadedStatus
  <2>7. v \notin Merging
    BY <2>0, <2>1, <2>5, MergingIs DEF InMerge
  <2>. QED BY <1>2, <2>1, <2>5, <2>6, <2>7, LoadStep
<1>3. ASSUME ReviewerDies(v), Forget(v) PROVE RowInv'
  <2>1. /\ reviewer' = [reviewer EXCEPT ![v] = IdleReviewer]
        /\ UNCHANGED <<proposal, status, execution, handler>>
    BY <1>3 DEF ReviewerDies, threadVars, dbVars
  <2>2. OthersStay(v) /\ reviewer'[v].pc = "idle" /\ v \notin Handlers
    BY <2>1, ReviewerAlone, IdleReviewerStage
  <2>3. v \notin Merging'
    BY <2>2, MergingIs DEF InMerge
  <2>. QED BY <1>3, <2>1, <2>2, <2>3, ForgetStep
<1>. QED
  BY <1>1, <1>2, <1>3, CommitDecisionRow DEF ReviewerRowStep

\* The invariant is inductive, given that of the lifecycle.
LEMMA RowInvStep == IndInv /\ RowInv /\ [RowNext]_<<allVars, rowVars>> => RowInv'
<1> SUFFICES ASSUME IndInv, RowInv, [RowNext]_<<allVars, rowVars>> PROVE RowInv'
  OBVIOUS
<1> DEFINE quiet == UNCHANGED <<rowVars, proposal, status, execution, handler, reviewer>>
<1>1. ASSUME quiet PROVE RowInv'
  BY <1>1 DEF RowInv, RowTypes, rowVars, RowIsCoherent, Alone, Fresh, Merging, LoadedStatus
<1>2. ASSUME RunGraph, UNCHANGED rowVars PROVE quiet
  BY <1>2 DEF RunGraph, GraphStep, FirstRun, PassGate, FinalizeRun, IdleRun, dbVars, coroutines
<1>3. ASSUME UNCHANGED <<allVars, rowVars>> PROVE quiet
  BY <1>3 DEF allVars, threadVars, dbVars, coroutines
<1>. QED
  BY <1>1, <1>2, <1>3, HandlerRow, ReviewerRow DEF RowNext

(***************************************************************************)
(* As long as no two of the transactions that read, merge and write back a *)
(* case have overlapped, the row is coherent: it shows the last decision,  *)
(* the execution that ended the case, and resolved_at exactly in a settled *)
(* status; for every number of coroutines, of runs and of deaths.          *)
(***************************************************************************)
THEOREM RowStaysCoherent == RowSpec => []RowIsCoherent
<1>1. RowInit /\ [][RowNext]_<<allVars, rowVars>> /\ []IndInv => []RowInv
  BY RowInvInit, RowInvStep, PTL
<1>2. RowInv => RowIsCoherent
  BY DEF RowInv
<1>. QED
  BY <1>1, <1>2, RowRefinesLifecycle, InductiveInvariant, PTL DEF RowSpec
===============================================================================
