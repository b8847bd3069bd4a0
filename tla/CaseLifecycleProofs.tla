-------------------------- MODULE CaseLifecycleProofs --------------------------
(***************************************************************************)
(* The safety properties of CaseLifecycle, proved for every set of         *)
(* handlers, reviewers, runs and proposals and every bound.                *)
(*                                                                         *)
(* What has to be carried along: a handler works on a snapshot of the      *)
(* checkpoint it read before it waited for its claim, its transactions and *)
(* its tools.  The argument is that the checkpoint only goes forward       *)
(* (ThreadPhase), so that an old snapshot says "approved" only if the      *)
(* checkpoint still does (SeenBefore); that the claim of a run is held by  *)
(* one handler from before its commit to the commit of the result          *)
(* (ClaimsAreExclusive); and that a batch has a ledger row for every call  *)
(* before the one it is at (Sound).  What the ledger does with the calls   *)
(* is ToolLedger's inductive invariant, taken over through a refinement.   *)
(***************************************************************************)
EXTENDS CaseLifecycle, FiniteSetTheorems, TLAPS

-------------------------------------------------------------------------------
\* The inductive invariant, in parts.

Checkpoints ==
  [interrupted : BOOLEAN, decision : Decisions \cup {"none"},
   resolution : {"none", "approved", "auto_resolved", "rejected", "awaiting_modification"},
   calls : {"none", "approved", "auto_ready", "rejected"}]

Statuses == {"open", "pending_approval", "executing"} \cup Settled

HandlerStates ==
  [pc : {"idle", "loaded", "claimed"} \cup Owning, run : RunIds, graph : Checkpoints,
   loaded : Statuses \cup {"none"}, next : Nat, batch : {"none", "succeeded", "failed"}]

ReviewerStates ==
  [pc : {"idle"}, run : RunIds, decision : {"none"}, loaded : {"none"}]
    \cup [pc : {"resumed", "loaded"}, run : RunIds, decision : Decisions,
          loaded : Statuses \cup {"none"}]

\* TypeOK, and the local state of the coroutines in full.
Types ==
  /\ ThreadTypeOK
  /\ status \in Statuses
  /\ execution \in [RunIds -> {"none", "processing", "synced", "succeeded", "failed"}]
  /\ deliveries \in [RunIds -> 0 .. MaxDeliveries]
  /\ handler \in [Handlers -> HandlerStates]
  /\ reviewer \in [Reviewers -> ReviewerStates]
  /\ crashes \in 0 .. MaxCrashes

Interrupted ==
  [interrupted |-> TRUE, decision |-> "none", resolution |-> "none", calls |-> "none"]
GatePassed(d) ==
  [interrupted |-> FALSE, decision |-> d, resolution |-> "none", calls |-> "none"]

\* The checkpoint is one of five, and the decision in it is the first one.
ThreadPhase ==
  \/ thread = FreshThread /\ runs[0].state = "active"
  \/ /\ runs[0].state = "done"
     /\ IF proposal.requiresHuman
        THEN \/ thread = Interrupted
             \/ \E d \in Decisions : thread \in {GatePassed(d), Finalized(d)}
        ELSE thread = Finalized("none")

RunsInOrder ==
  /\ \A r, q \in ActiveRuns : r = q
  /\ \A r \in RunIds \ {0} :
       runs[r].state # "none" => runs[0].state = "done" /\ runs[r].input \in Decisions

\* What a handler has read of the thread is, or was, its checkpoint after
\* the first run; a decision that was seen is still the thread's.
SeenBefore(graph) ==
  IF proposal.requiresHuman
  THEN \/ graph = Interrupted
       \/ thread.decision # "none" /\ graph \in {GatePassed(thread.decision), Finalized(thread.decision)}
  ELSE graph = Finalized("none")

SettledUpTo(n) == \A i \in DOMAIN proposal.plan : i < n => row[proposal.plan[i]] # "none"
AllSettled     == \A i \in DOMAIN proposal.plan : row[proposal.plan[i]] # "none"

\* What a handler's stage says of its snapshot, its batch and its transaction.
Sound(h) ==
  LET me == handler[h] IN
  /\ me.pc # "idle" => SeenBefore(me.graph)
  /\ me.pc \in {"loaded", "claimed"} => me.next = 1
  /\ me.pc \in Owning => Executable(me.graph)
  /\ me.pc \in {"executing", "calling"} =>
       me.next \in DOMAIN proposal.plan /\ SettledUpTo(me.next)
  /\ me.pc \in {"executed", "reporting"} =>
       /\ me.batch \in {"succeeded", "failed"}
       /\ me.batch = "succeeded" => AllSettled
  /\ txn[h] # "idle" <=> me.pc = "calling"
  /\ me.pc = "calling" => txnKey[h] = proposal.plan[me.next]

Claiming(h) == handler[h].pc \in {"claimed"} \cup Owning

Owned(r) == \E h \in Handlers : handler[h].pc \in Owning /\ handler[h].run = r
Orphaned == {r \in RunIds : execution[r] = "processing" /\ ~Owned(r)}

\* One handler at a time has claimed a run, before and after the commit of
\* the claim.
ClaimsAreExclusive ==
  /\ \A g, h \in Handlers :
       Claiming(g) /\ Claiming(h) /\ handler[g].run = handler[h].run => g = h
  /\ \A h \in Handlers :
       /\ handler[h].pc = "claimed" => execution[handler[h].run] = "none"
       /\ handler[h].pc \in Owning => execution[handler[h].run] = "processing"

OrphansAreCounted == IsFiniteSet(Orphaned) /\ Cardinality(Orphaned) <= crashes

Approved == ~proposal.requiresHuman \/ thread.decision = "approve"

\* Whatever only an executed plan or a gate passed can bring about.
OnlyApproved ==
  ~Approved => status \notin {"resolved", "failed"} /\ \A k \in Calls : effects[k] = 0

IndInv ==
  /\ Types
  /\ Ledger!IndInv
  /\ ThreadPhase /\ RunsInOrder
  /\ \A h \in Handlers : Sound(h)
  /\ ClaimsAreExclusive /\ OrphansAreCounted
  /\ OnlyApproved
  /\ SettledInPlanOrder /\ ResolvedMeansSettled

-------------------------------------------------------------------------------
(* The theorems of ToolLedger, of the handlers as callers.                 *)
Proved == INSTANCE ToolLedgerProofs
            WITH Callers <- Handlers, Keys <- Calls, NoKey <- NoCall

\* The two instances of ToolLedger have the same variables.
LEMMA SameVariables == UNCHANGED Ledger!vars <=> UNCHANGED Proved!vars
BY DEF Ledger!vars, Ledger!db, Ledger!session, Ledger!history,
       Proved!vars, Proved!db, Proved!session, Proved!history

\* They start alike.
LEMMA SameInit == Ledger!Init = Proved!Init
BY DEF Ledger!Init, Proved!Init

\* They have the same invariant.
LEMMA SameInvariant == Ledger!IndInv <=> Proved!IndInv
<1>1. Ledger!TypeOK = Proved!TypeOK
  BY DEF Ledger!TypeOK, Proved!TypeOK, Ledger!Outcomes, Proved!Outcomes
<1>2. Ledger!StageShape = Proved!StageShape
  BY DEF Ledger!StageShape, Proved!StageShape
<1>3. Ledger!OneHolderPerKey = Proved!OneHolderPerKey
  BY DEF Ledger!OneHolderPerKey, Proved!OneHolderPerKey, Ledger!Holders, Proved!Holders
<1>4. Ledger!EffectsBalance = Proved!EffectsBalance
  BY DEF Ledger!EffectsBalance, Ledger!Holders, Ledger!Applied,
         Proved!EffectsBalance, Proved!Holders, Proved!Applied
<1>5. Ledger!LedgerTellsTheTruth = Proved!LedgerTellsTheTruth
  BY DEF Ledger!LedgerTellsTheTruth, Proved!LedgerTellsTheTruth
<1>6. Ledger!RepliesAgreeWithLedger = Proved!RepliesAgreeWithLedger
  BY DEF Ledger!RepliesAgreeWithLedger, Proved!RepliesAgreeWithLedger
<1>. QED
  BY <1>1, <1>2, <1>3, <1>4, <1>5, <1>6 DEF Ledger!IndInv, Proved!IndInv

\* They take the same steps.
LEMMA SameNext == Ledger!Next = Proved!Next
<1> USE DEF Ledger!db, Ledger!session, Ledger!history, Proved!db, Proved!session, Proved!history
<1>1. \A c : Ledger!RefuseWithoutKey(c) = Proved!RefuseWithoutKey(c)
  BY DEF Ledger!RefuseWithoutKey, Proved!RefuseWithoutKey
<1>2. \A c, k : Ledger!LookUp(c, k) = Proved!LookUp(c, k)
  BY DEF Ledger!LookUp, Proved!LookUp
<1>3. \A c : Ledger!InsertPending(c) = Proved!InsertPending(c)
  BY DEF Ledger!InsertPending, Proved!InsertPending, Ledger!Holders, Proved!Holders
<1>4. \A c : Ledger!CallProvider(c) = Proved!CallProvider(c)
  BY DEF Ledger!CallProvider, Proved!CallProvider, Ledger!Outcomes, Proved!Outcomes
<1>5. \A c : Ledger!FinishAndCommit(c) = Proved!FinishAndCommit(c)
  BY DEF Ledger!FinishAndCommit, Proved!FinishAndCommit
<1>6. \A c : Ledger!Abort(c) = Proved!Abort(c)
  BY DEF Ledger!Abort, Proved!Abort, Ledger!Applied, Proved!Applied
<1>. QED
  BY <1>1, <1>2, <1>3, <1>4, <1>5, <1>6
     DEF Ledger!Next, Ledger!CallerStep, Ledger!Progress,
         Proved!Next, Proved!CallerStep, Proved!Progress

\* So the invariant of the ledger holds of the handlers' first state.
LEMMA LedgerInit == Ledger!Init => Ledger!IndInv
BY Proved!IndInvInit, LifecycleAssumption, SameInit, SameInvariant

\* And the steps of the ledger keep it.
LEMMA LedgerStep == Ledger!IndInv /\ [Ledger!Next]_(Ledger!vars) => Ledger!IndInv'
<1>1. Ledger!IndInv' <=> Proved!IndInv'
  BY SameInvariant, PTL
<1>. QED
  BY <1>1, Proved!IndInvStep, LifecycleAssumption, SameNext, SameVariables, SameInvariant

-------------------------------------------------------------------------------
\* A new case, before its first run.
LEMMA IndInvInit == Init => IndInv
<1> SUFFICES ASSUME Init PROVE IndInv
  OBVIOUS
<1> USE ThreadAssumption, LifecycleAssumption DEF Init, ThreadInit, FreshThread, IdleHandler, IdleReviewer
<1>1. Types
  BY DEF Types, ThreadTypeOK, HandlerStates, ReviewerStates, Checkpoints, Statuses, Owning, Settled
<1>3. Ledger!IndInv
  BY LedgerInit
<1>4. ThreadPhase /\ RunsInOrder
  BY DEF ThreadPhase, RunsInOrder, ActiveRuns
<1>5. (\A h \in Handlers : Sound(h)) /\ ClaimsAreExclusive
  BY DEF Sound, ClaimsAreExclusive, Claiming, Owning, Ledger!Init
<1>6. OrphansAreCounted
  <2>1. Orphaned = {}
    BY DEF Orphaned
  <2>. QED BY <2>1, FS_EmptySet DEF OrphansAreCounted
<1>7. OnlyApproved
  BY DEF OnlyApproved, Ledger!Init
<1>8. SettledInPlanOrder /\ ResolvedMeansSettled
  BY DEF SettledInPlanOrder, ResolvedMeansSettled, Ledger!Init
<1>. QED
  BY <1>1, <1>3, <1>4, <1>5, <1>6, <1>7, <1>8 DEF IndInv

-------------------------------------------------------------------------------
\* A step of the thread goes on to the next phase; what was seen of it stays
\* an earlier phase, and an approval stays.
LEMMA ThreadStep ==
  ASSUME ThreadTypeOK, ThreadPhase, RunsInOrder, ThreadNext
  PROVE  /\ ThreadTypeOK' /\ ThreadPhase' /\ RunsInOrder'
         /\ proposal' = proposal
         /\ \A graph : SeenBefore(graph) => SeenBefore(graph)'
         /\ Approved => Approved'
<1> USE ThreadAssumption
<1> USE DEF ThreadTypeOK, ActiveRuns, FreshThread
<1>1. CASE FirstRun
  <2> USE <1>1 DEF FirstRun
  <2>1. thread = FreshThread
    BY DEF ThreadPhase
  <2>2. ThreadTypeOK'
    BY <2>1 DEF Finalized, Decisions
  <2>3. ThreadPhase'
    BY <2>1 DEF ThreadPhase, Interrupted, Finalized
  <2>4. RunsInOrder'
    BY DEF RunsInOrder
  <2>5. \A graph : SeenBefore(graph) => SeenBefore(graph)'
    BY <2>1 DEF SeenBefore, Finalized, Interrupted, GatePassed
  <2>. QED BY <2>1, <2>2, <2>3, <2>4, <2>5 DEF Approved
<1>2. ASSUME NEW r \in RunIds, PassGate(r)
      PROVE  /\ ThreadTypeOK' /\ ThreadPhase' /\ RunsInOrder'
             /\ proposal' = proposal
             /\ \A graph : SeenBefore(graph) => SeenBefore(graph)'
             /\ Approved => Approved'
  <2> USE <1>2 DEF PassGate
  <2>1. runs[r].input \in Decisions
    BY DEF RunsInOrder
  <2>2. proposal.requiresHuman /\ thread = Interrupted
    BY DEF ThreadPhase, Interrupted, GatePassed, Finalized
  <2>3. thread' = GatePassed(runs[r].input)
    BY <2>2 DEF Interrupted, GatePassed
  <2>4. ThreadTypeOK'
    BY <2>1, <2>3 DEF GatePassed
  <2>5. ThreadPhase'
    BY <2>1, <2>2, <2>3 DEF ThreadPhase, GatePassed, Interrupted, Finalized
  <2>6. RunsInOrder'
    BY DEF RunsInOrder
  <2>7. \A graph : SeenBefore(graph) => SeenBefore(graph)'
    BY <2>2 DEF SeenBefore, Interrupted
  <2>. QED BY <2>2, <2>4, <2>5, <2>6, <2>7 DEF Approved, Interrupted
<1>3. ASSUME NEW r \in RunIds, FinalizeRun(r)
      PROVE  /\ ThreadTypeOK' /\ ThreadPhase' /\ RunsInOrder'
             /\ proposal' = proposal
             /\ \A graph : SeenBefore(graph) => SeenBefore(graph)'
             /\ Approved => Approved'
  <2> USE <1>3 DEF FinalizeRun
  <2>1. runs[0].state = "done"
    BY DEF RunsInOrder
  <2>2. proposal.requiresHuman /\ thread.decision \in Decisions
    BY <2>1 DEF ThreadPhase, Interrupted, GatePassed, Finalized
  <2>3. thread' = Finalized(thread.decision) /\ thread'.decision = thread.decision
    BY DEF Finalized
  <2>4. ThreadTypeOK'
    BY <2>2 DEF Finalized, Decisions
  <2>5. ThreadPhase'
    BY <2>1, <2>2, <2>3 DEF ThreadPhase, Finalized
  <2>6. RunsInOrder'
    BY DEF RunsInOrder
  <2>7. \A graph : SeenBefore(graph) => SeenBefore(graph)'
    BY <2>2, <2>3 DEF SeenBefore, Interrupted, GatePassed, Finalized
  <2>. QED BY <2>3, <2>4, <2>5, <2>6, <2>7 DEF Approved
<1>4. ASSUME NEW r \in RunIds, IdleRun(r) \/ \E d \in Decisions : CreateRun(r, d)
      PROVE  /\ ThreadTypeOK' /\ ThreadPhase' /\ RunsInOrder'
             /\ proposal' = proposal
             /\ \A graph : SeenBefore(graph) => SeenBefore(graph)'
             /\ Approved => Approved'
  <2>1. r # 0 /\ runs[0].state = "done"
    BY <1>4 DEF IdleRun, CreateRun, ThreadPhase, RunsInOrder
  <2>2. UNCHANGED <<proposal, thread>>
    BY <1>4 DEF IdleRun, CreateRun
  <2>3. PICK state \in {"active", "done"}, input \in Decisions :
          /\ runs' = [runs EXCEPT ![r] = [state |-> state, input |-> input]]
          /\ state = "active" => ActiveRuns = {}
    <3>1. CASE IdleRun(r)
      <4>1. runs[r].input \in Decisions
        BY <3>1, <2>1 DEF IdleRun, RunsInOrder
      <4>2. [runs[r] EXCEPT !.state = "done"] = [state |-> "done", input |-> runs[r].input]
        OBVIOUS
      <4>. QED BY <3>1, <4>1, <4>2 DEF IdleRun
    <3>2. CASE \E d \in Decisions : CreateRun(r, d)
      BY <3>2 DEF CreateRun
    <3>. QED BY <1>4, <3>1, <3>2
  <2>4. runs' \in [RunIds -> [state : {"none", "active", "done"}, input : Decisions \cup {"none"}]]
    BY <2>3
  <2>5. ThreadTypeOK'
    BY <2>2, <2>4
  <2>6. runs'[0] = runs[0]
    BY <2>1, <2>3
  <2>7. ThreadPhase' /\ \A graph : SeenBefore(graph) => SeenBefore(graph)'
    BY <2>2, <2>6 DEF ThreadPhase, SeenBefore, Interrupted, GatePassed, Finalized
  <2>8. RunsInOrder'
    BY <2>1, <2>3, <2>6 DEF RunsInOrder
  <2>. QED BY <2>2, <2>5, <2>7, <2>8 DEF Approved
<1>. QED
  BY <1>1, <1>2, <1>3, <1>4 DEF ThreadNext, GraphStep

-------------------------------------------------------------------------------
\* Every step of the lifecycle is a step of the ledger or leaves it alone.
LEMMA StepUsesLedger == IndInv /\ [Next]_allVars => [Ledger!Next]_(Ledger!vars)
<1> SUFFICES ASSUME IndInv, [Next]_allVars, ~UNCHANGED Ledger!vars
             PROVE  Ledger!Next
  OBVIOUS
<1> USE DEF Ledger!vars, Ledger!db, Ledger!session, Ledger!history, ledgerVars
<1>1. PICK h \in Handlers : InvokeTool(h) \/ ToolStep(h) \/ ToolAborts(h) \/ HandlerDies(h)
  <2>1. Next
    BY DEF allVars
  <2>2. ~RunGraph /\ \A v \in Reviewers : ~SubmitDecision(v) /\ ~ReviewerProgress(v) /\ ~ReviewerDies(v)
    BY DEF RunGraph, SubmitDecision, ReviewerProgress, LoadCaseForDecision, CommitDecision, ReviewerDies
  <2>3. ASSUME NEW h \in Handlers
        PROVE  /\ \A r \in RunIds : ~LoadCompletedRun(h, r)
               /\ ~ClaimRun(h) /\ ~CommitSync(h) /\ ~LoadCaseForResult(h) /\ ~CommitResult(h)
    BY DEF LoadCompletedRun, ClaimRun, CommitSync, LoadCaseForResult, CommitResult
  <2>. QED BY <2>1, <2>2, <2>3 DEF Next, HandlerProgress
<1>2. Ledger!CallerStep(h)
  <2>1. CASE InvokeTool(h)
    <3>1. proposal.plan[handler[h].next] \in Calls
      BY <2>1, ThreadAssumption DEF InvokeTool, At, IndInv, Sound, Types, ThreadTypeOK
    <3>. QED BY <2>1, <3>1 DEF InvokeTool, Ledger!CallerStep
  <2>2. CASE ToolStep(h)
    BY <2>2 DEF ToolStep, Ledger!CallerStep
  <2>3. CASE ToolAborts(h)
    BY <2>3 DEF ToolAborts, Ledger!CallerStep
  <2>4. CASE HandlerDies(h)
    BY <2>4 DEF HandlerDies, Ledger!CallerStep
  <2>. QED BY <1>1, <2>1, <2>2, <2>3, <2>4
<1>. QED
  BY <1>2 DEF Ledger!Next

\* A row of the ledger is never taken back.
LEMMA RowsStay ==
  ASSUME Ledger!IndInv, [Ledger!Next]_(Ledger!vars), NEW k \in Calls, row[k] # "none"
  PROVE  row'[k] # "none"
<1> USE DEF Ledger!vars, Ledger!db, Ledger!session, Ledger!history, Ledger!IndInv, Ledger!TypeOK
<1>1. CASE UNCHANGED row
  BY <1>1
<1>2. ASSUME NEW h \in Handlers, Ledger!FinishAndCommit(h) PROVE row'[k] # "none"
  BY <1>2 DEF Ledger!FinishAndCommit
<1>3. ASSUME NEW h \in Handlers, Ledger!CallerStep(h), ~Ledger!FinishAndCommit(h)
      PROVE  UNCHANGED row
  BY <1>3 DEF Ledger!CallerStep, Ledger!Progress, Ledger!RefuseWithoutKey, Ledger!LookUp,
              Ledger!InsertPending, Ledger!CallProvider, Ledger!Abort
<1>. QED
  BY <1>1, <1>2, <1>3 DEF Ledger!Next

\* What a step keeps of the facts a handler relies on.
LEMMA ReliedOn ==
  ASSUME IndInv, [Ledger!Next]_(Ledger!vars), UNCHANGED proposal
  PROVE  /\ \A n : SettledUpTo(n) => SettledUpTo(n)'
         /\ AllSettled => AllSettled'
         /\ \A graph : Executable(graph)' <=> Executable(graph)
<1>1. \A i \in DOMAIN proposal.plan : row[proposal.plan[i]] # "none" => row'[proposal.plan[i]] # "none"
  BY RowsStay, ThreadAssumption DEF IndInv, Types, ThreadTypeOK
<1>. QED
  BY <1>1 DEF SettledUpTo, AllSettled, Executable

\* A step that leaves the thread alone leaves what is known of it.
LEMMA ThreadKept ==
  ASSUME IndInv, UNCHANGED threadVars
  PROVE  /\ ThreadTypeOK' /\ ThreadPhase' /\ RunsInOrder'
         /\ \A graph : SeenBefore(graph)' <=> SeenBefore(graph)
         /\ Approved' <=> Approved
<1> USE DEF threadVars
<1>1. ThreadTypeOK'
  BY DEF IndInv, Types, ThreadTypeOK
<1>2. ThreadPhase' /\ RunsInOrder'
  BY DEF IndInv, ThreadPhase, RunsInOrder, ActiveRuns, Finalized, GatePassed
<1>3. \A graph : SeenBefore(graph)' <=> SeenBefore(graph)
  BY DEF SeenBefore, Finalized, GatePassed
<1>. QED
  BY <1>1, <1>2, <1>3 DEF Approved

\* What a step of one handler has to show: the rest follows.
LEMMA HandlerStep ==
  ASSUME IndInv, NEW h \in Handlers,
         UNCHANGED <<threadVars, reviewer>>,
         [Ledger!Next]_(Ledger!vars),
         NEW new \in HandlerStates, handler' = [handler EXCEPT ![h] = new],
         Sound(h)',
         \A g \in Handlers \ {h} : txn'[g] = txn[g] /\ txnKey'[g] = txnKey[g],
         \/ UNCHANGED row
         \/ \E n \in DOMAIN proposal.plan :
              SettledUpTo(n) /\ \A k \in Calls \ {proposal.plan[n]} : row'[k] = row[k],
         UNCHANGED effects \/ Approved,
         \/ UNCHANGED status
         \/ /\ status' \in Statuses
            /\ status' \in {"resolved", "failed"} => Approved
            /\ status' = "resolved" => AllSettled',
         execution' \in [RunIds -> {"none", "processing", "synced", "succeeded", "failed"}],
         \A r \in RunIds : execution'[r] = "succeeded" => execution[r] = "succeeded" \/ AllSettled',
         deliveries' \in [RunIds -> 0 .. MaxDeliveries],
         crashes' \in 0 .. MaxCrashes,
         ClaimsAreExclusive', OrphansAreCounted'
  PROVE  IndInv'
<1>1. UNCHANGED threadVars /\ UNCHANGED proposal
  BY DEF threadVars
<1>2. /\ ThreadTypeOK' /\ ThreadPhase' /\ RunsInOrder'
      /\ \A graph : SeenBefore(graph)' <=> SeenBefore(graph)
      /\ Approved' <=> Approved
  BY <1>1, ThreadKept
<1>3. /\ \A n : SettledUpTo(n) => SettledUpTo(n)'
      /\ AllSettled => AllSettled'
      /\ \A graph : Executable(graph)' <=> Executable(graph)
  BY <1>1, ReliedOn
<1>4. Types'
  BY <1>2 DEF Types, IndInv
<1>5. Ledger!IndInv'
  BY LedgerStep DEF IndInv
<1>6. ASSUME NEW g \in Handlers \ {h} PROVE Sound(g)'
  <2>1. handler'[g] = handler[g]
    BY DEF IndInv, Types
  <2>. QED
    BY <1>1, <1>2, <1>3, <2>1 DEF IndInv, Sound
<1>7. OnlyApproved'
  BY <1>2 DEF IndInv, OnlyApproved
<1>8. SettledInPlanOrder'
  <2>1. CASE UNCHANGED row
    BY <1>1, <2>1 DEF IndInv, SettledInPlanOrder
  <2>2. ASSUME NEW n \in DOMAIN proposal.plan, SettledUpTo(n),
               \A k \in Calls \ {proposal.plan[n]} : row'[k] = row[k]
        PROVE  SettledInPlanOrder'
    <3> SUFFICES ASSUME NEW i \in DOMAIN proposal.plan, NEW j \in DOMAIN proposal.plan,
                        i < j, row'[proposal.plan[j]] # "none"
                 PROVE  row'[proposal.plan[i]] # "none"
      BY <1>1 DEF SettledInPlanOrder
    <3>1. proposal.plan[i] \in Calls /\ proposal.plan[j] \in Calls
      BY ThreadAssumption DEF IndInv, Types, ThreadTypeOK
    <3>2. row[proposal.plan[i]] # "none"
      <4>1. CASE j = n
        BY <2>2, <4>1 DEF SettledUpTo
      <4>2. CASE j # n
        BY <2>2, <3>1, <4>2, PlanAssumption DEF IndInv, Types, ThreadTypeOK, SettledInPlanOrder
      <4>. QED BY <4>1, <4>2
    <3>. QED BY <3>1, <3>2, RowsStay DEF IndInv
  <2>. QED BY <2>1, <2>2
<1>9. ResolvedMeansSettled'
  BY <1>1, <1>3 DEF IndInv, ResolvedMeansSettled, AllSettled
<1>. QED
  BY <1>2, <1>4, <1>5, <1>6, <1>7, <1>8, <1>9 DEF IndInv

\* A step between stages that claim nothing, or by which the owner of a run
\* stays its owner, leaves the claims as they are.
LEMMA ClaimsKept ==
  ASSUME IndInv, NEW h \in Handlers, NEW new \in HandlerStates,
         handler' = [handler EXCEPT ![h] = new],
         UNCHANGED <<execution, crashes>>,
         \/ ~Claiming(h) /\ new.pc \in {"idle", "loaded"}
         \/ handler[h].pc \in Owning /\ new.pc \in Owning /\ new.run = handler[h].run
  PROVE  ClaimsAreExclusive' /\ OrphansAreCounted'
<1>1. \A g \in Handlers : handler'[g] = IF g = h THEN new ELSE handler[g]
  BY DEF IndInv, Types
<1>2. ClaimsAreExclusive'
  BY <1>1 DEF IndInv, ClaimsAreExclusive, Claiming, Owning
<1>3. \A r : Owned(r)' <=> Owned(r)
  BY <1>1 DEF Owned, Claiming, Owning
<1>4. Orphaned' = Orphaned
  BY <1>3 DEF Orphaned
<1>. QED
  BY <1>2, <1>4 DEF IndInv, OrphansAreCounted

-------------------------------------------------------------------------------
\* One lemma for each step of a handler.

LEMMA IdleHandlerState ==
  /\ IdleHandler \in HandlerStates
  /\ IdleHandler.pc = "idle" /\ IdleHandler.run = 0 /\ IdleHandler.next = 1
BY ThreadAssumption DEF IdleHandler, HandlerStates, FreshThread, Checkpoints, Owning

\* The state of the thread is read for a callback.
LEMMA LoadCompletedRunInv ==
  ASSUME IndInv, NEW h \in Handlers, NEW r \in RunIds, LoadCompletedRun(h, r)
  PROVE  IndInv'
<1>1. PICK new : new = [IdleHandler EXCEPT !.pc = "loaded", !.run = r, !.graph = thread]
  OBVIOUS
<1>2. /\ At(h, "idle") /\ Done(r) /\ deliveries[r] < MaxDeliveries
      /\ deliveries' = [deliveries EXCEPT ![r] = @ + 1]
      /\ handler' = [handler EXCEPT ![h] = new]
      /\ UNCHANGED <<threadVars, dbVars, ledgerVars, reviewer, crashes>>
  BY <1>1 DEF LoadCompletedRun
<1>3. thread \in Checkpoints
  BY DEF IndInv, Types, ThreadTypeOK, Checkpoints
<1>4. /\ new \in HandlerStates
      /\ new.pc = "loaded" /\ new.graph = thread /\ new.next = 1
  BY <1>1, <1>3, IdleHandlerState DEF HandlerStates
<1>5. SeenBefore(thread)
  <2>1. runs[0].state = "done"
    BY <1>2 DEF Done, IndInv, RunsInOrder
  <2>. QED
    BY <2>1 DEF IndInv, ThreadPhase, SeenBefore, Interrupted, GatePassed, Finalized, Decisions
<1>6. Sound(h)'
  <2>1. handler'[h] = new
    BY <1>2 DEF IndInv, Types
  <2>2. SeenBefore(thread)'
    BY <1>2, <1>5, ThreadKept DEF threadVars
  <2>. QED
    BY <1>2, <1>4, <2>1, <2>2 DEF IndInv, Sound, At, Owning, ledgerVars, threadVars
<1>7. ClaimsAreExclusive' /\ OrphansAreCounted'
  BY <1>2, <1>4, ClaimsKept DEF dbVars, At, Claiming, Owning
<1>8. deliveries' \in [RunIds -> 0 .. MaxDeliveries]
  BY <1>2, LifecycleAssumption DEF IndInv, Types
<1>9. UNCHANGED Ledger!vars
  BY <1>2 DEF ledgerVars, Ledger!vars, Ledger!db, Ledger!session, Ledger!history
<1>. QED
  BY <1>2, <1>4, <1>6, <1>7, <1>8, <1>9, HandlerStep DEF IndInv, Types, dbVars, ledgerVars

\* A step that changes nothing but the handler.
LEMMA QuietStep ==
  ASSUME IndInv, NEW h \in Handlers, NEW new \in HandlerStates,
         handler' = [handler EXCEPT ![h] = new],
         UNCHANGED <<threadVars, dbVars, ledgerVars, reviewer, deliveries, crashes>>,
         Sound(h)', ClaimsAreExclusive', OrphansAreCounted'
  PROVE  IndInv'
<1>1. UNCHANGED Ledger!vars
  BY DEF ledgerVars, Ledger!vars, Ledger!db, Ledger!session, Ledger!history
<1>. QED
  BY <1>1, HandlerStep DEF IndInv, Types, dbVars, ledgerVars

\* The claim is inserted, unless another handler has it or had it.
LEMMA ClaimRunInv ==
  ASSUME IndInv, NEW h \in Handlers, ClaimRun(h)
  PROVE  IndInv'
<1>1. /\ handler[h].pc = "loaded" /\ handler[h] \in HandlerStates
      /\ \A g \in Handlers : handler[g].pc = "claimed" => handler[g].run # handler[h].run
      /\ UNCHANGED <<threadVars, dbVars, ledgerVars, reviewer, deliveries, crashes>>
  BY DEF ClaimRun, At, IndInv, Types
<1>2. /\ txn[h] = "idle" /\ handler[h].next = 1 /\ SeenBefore(handler[h].graph)
      /\ \A graph : SeenBefore(graph)' <=> SeenBefore(graph)
  <2>1. \A graph : SeenBefore(graph)' <=> SeenBefore(graph)
    BY <1>1, ThreadKept DEF threadVars
  <2>. QED
    BY <1>1, <2>1 DEF IndInv, Sound
<1>3. CASE execution[handler[h].run] = "none"
  <2>1. PICK new : new = [handler[h] EXCEPT !.pc = "claimed", !.loaded = status]
    OBVIOUS
  <2>2. handler' = [handler EXCEPT ![h] = new]
    BY <1>3, <2>1 DEF ClaimRun
  <2>3. /\ new \in HandlerStates /\ new.pc = "claimed"
        /\ new.run = handler[h].run /\ new.graph = handler[h].graph /\ new.next = 1
    BY <1>1, <1>2, <2>1 DEF HandlerStates, IndInv, Types
  <2>4. \A g \in Handlers : handler'[g] = IF g = h THEN new ELSE handler[g]
    BY <2>2 DEF IndInv, Types
  <2>5. Sound(h)'
    BY <1>1, <1>2, <2>3, <2>4 DEF Sound, Owning, ledgerVars
  <2>6. ClaimsAreExclusive'
    BY <1>1, <1>3, <2>3, <2>4 DEF IndInv, ClaimsAreExclusive, Claiming, Owning, dbVars
  <2>7. \A r : Owned(r)' <=> Owned(r)
    BY <1>1, <2>3, <2>4 DEF Owned, Owning
  <2>8. OrphansAreCounted'
    BY <1>1, <2>7 DEF IndInv, OrphansAreCounted, Orphaned, dbVars
  <2>. QED BY <1>1, <2>2, <2>3, <2>5, <2>6, <2>8, QuietStep
<1>4. CASE execution[handler[h].run] # "none"
  <2>1. handler' = [handler EXCEPT ![h] = IdleHandler]
    BY <1>4 DEF ClaimRun
  <2>2. Sound(h)'
    BY <1>1, <1>2, <2>1, IdleHandlerState DEF IndInv, Types, Sound, Owning, ledgerVars
  <2>3. ClaimsAreExclusive' /\ OrphansAreCounted'
    BY <1>1, <2>1, IdleHandlerState, ClaimsKept DEF Claiming, Owning, dbVars
  <2>. QED BY <1>1, <2>1, <2>2, <2>3, IdleHandlerState, QuietStep
<1>. QED
  BY <1>3, <1>4

\* The third transaction loads the case.
LEMMA LoadCaseForResultInv ==
  ASSUME IndInv, NEW h \in Handlers, LoadCaseForResult(h)
  PROVE  IndInv'
<1>1. PICK new : new = [handler[h] EXCEPT !.pc = "reporting", !.loaded = status]
  OBVIOUS
<1>2. /\ handler[h].pc = "executed" /\ handler[h] \in HandlerStates
      /\ UNCHANGED <<threadVars, dbVars, ledgerVars, reviewer, deliveries, crashes>>
  BY DEF LoadCaseForResult, At, IndInv, Types
<1>3. handler' = [handler EXCEPT ![h] = new]
  BY <1>1, <1>2 DEF LoadCaseForResult, HandlerStates, IndInv, Types
<1>4. /\ new \in HandlerStates /\ new.pc = "reporting" /\ new.batch = handler[h].batch
      /\ new.run = handler[h].run /\ new.graph = handler[h].graph
  BY <1>1, <1>2 DEF HandlerStates, IndInv, Types, Owning
<1>5. Sound(h)'
  <2>1. handler'[h] = new
    BY <1>3 DEF IndInv, Types
  <2>2. \A graph : SeenBefore(graph)' <=> SeenBefore(graph)
    BY <1>2, ThreadKept DEF threadVars
  <2>3. AllSettled' = AllSettled /\ \A graph : Executable(graph)' = Executable(graph)
    BY <1>2 DEF threadVars, ledgerVars, AllSettled, Executable
  <2>. QED
    BY <1>2, <1>4, <2>1, <2>2, <2>3 DEF IndInv, Sound, Owning, ledgerVars
<1>6. ClaimsAreExclusive' /\ OrphansAreCounted'
  BY <1>2, <1>3, <1>4, ClaimsKept DEF Owning, dbVars
<1>. QED
  BY <1>2, <1>3, <1>4, <1>5, <1>6, QuietStep

\* What the graph leaves of a gated proposal for each decision.
LEMMA FinalizedAs ==
  /\ Finalized("reject").calls = "rejected" /\ Finalized("reject").resolution = "rejected"
  /\ Finalized("modify").calls = "none" /\ Finalized("modify").resolution = "awaiting_modification"
  /\ proposal.requiresHuman =>
       /\ Finalized("approve").calls = "approved"
       /\ Finalized("approve").resolution = "approved"
  /\ \A d : ~Finalized(d).interrupted
BY DEF Finalized

\* What a handler makes of a checkpoint it has seen.
LEMMA SyncedStatusOf ==
  ASSUME IndInv, NEW graph, SeenBefore(graph)
  PROVE  /\ SyncedStatus(graph) \in Statuses
         /\ SyncedStatus(graph) # "failed"
         /\ SyncedStatus(graph) = "resolved" => Approved /\ AllSettled
<1>1. proposal.requiresHuman \in BOOLEAN
  BY ThreadAssumption DEF IndInv, Types, ThreadTypeOK
<1>2. thread.decision \in Decisions \cup {"none"}
  BY DEF IndInv, Types, ThreadTypeOK
<1>3. CASE ~proposal.requiresHuman
  BY <1>1, <1>3 DEF SeenBefore, Finalized, SyncedStatus, GraphStatus, Executable, Statuses, Settled,
                    Approved, AllSettled
<1>4. CASE proposal.requiresHuman /\ graph = Interrupted
  BY <1>4 DEF Interrupted, SyncedStatus, GraphStatus, Statuses, Settled
<1>5. CASE proposal.requiresHuman /\ thread.decision # "none" /\ graph = GatePassed(thread.decision)
  BY <1>5 DEF GatePassed, SyncedStatus, GraphStatus, Executable, Statuses, Settled
<1>6. CASE proposal.requiresHuman /\ thread.decision # "none" /\ graph = Finalized(thread.decision)
  <2>1. ~graph.interrupted
    BY <1>6, FinalizedAs
  <2>2. CASE thread.decision = "reject"
    <3>1. graph.resolution = "rejected"
      BY <1>6, <2>2, FinalizedAs
    <3>. QED BY <2>1, <3>1 DEF SyncedStatus, GraphStatus, Statuses, Settled
  <2>3. CASE thread.decision = "modify"
    <3>1. graph.resolution = "awaiting_modification"
      BY <1>6, <2>3, FinalizedAs
    <3>. QED BY <2>1, <3>1 DEF SyncedStatus, GraphStatus, Statuses, Settled
  <2>4. CASE thread.decision = "approve"
    <3>1. graph.resolution = "approved" /\ graph.calls = "approved"
      BY <1>6, <2>4, FinalizedAs
    <3>. QED BY <2>1, <2>4, <3>1 DEF SyncedStatus, GraphStatus, Executable, Statuses, Settled,
                                     Approved, AllSettled
  <2>. QED BY <1>2, <1>6, <2>2, <2>3, <2>4 DEF Decisions
<1>. QED
  BY <1>1, <1>3, <1>4, <1>5, <1>6 DEF SeenBefore

\* A handler that owns a run works on an approved plan.
LEMMA OwnersAreApproved ==
  ASSUME IndInv, NEW h \in Handlers, handler[h].pc \in Owning
  PROVE  Approved /\ proposal.plan # <<>>
<1>1. PICK graph : graph = handler[h].graph
  OBVIOUS
<1>2. SeenBefore(graph) /\ Executable(graph)
  BY <1>1 DEF IndInv, Sound, Owning
<1>3. proposal.requiresHuman \in BOOLEAN
  BY ThreadAssumption DEF IndInv, Types, ThreadTypeOK
<1>4. thread.decision \in Decisions \cup {"none"}
  BY DEF IndInv, Types, ThreadTypeOK
<1>5. CASE graph = Interrupted
  BY <1>2, <1>5 DEF Executable, Interrupted
<1>6. CASE graph = GatePassed(thread.decision)
  BY <1>2, <1>6 DEF Executable, GatePassed
<1>7. CASE thread.decision # "none" /\ graph = Finalized(thread.decision)
  <2>1. thread.decision \notin {"reject", "modify"}
    BY <1>2, <1>7, FinalizedAs DEF Executable
  <2>. QED BY <1>2, <1>4, <1>7, <2>1 DEF Executable, Approved, Decisions
<1>8. CASE ~proposal.requiresHuman
  BY <1>2, <1>8 DEF Executable, Approved
<1>. QED
  BY <1>2, <1>3, <1>5, <1>6, <1>7, <1>8 DEF SeenBefore

\* The second transaction commits: the case is synced, the claim is kept if there is a plan to execute.
LEMMA CommitSyncInv ==
  ASSUME IndInv, NEW h \in Handlers, CommitSync(h)
  PROVE  IndInv'
<1>0. PICK me : me = handler[h]
  OBVIOUS
<1> DEFINE work == Executable(me.graph)
<1>1. /\ me.pc = "claimed" /\ me \in HandlerStates
      /\ status' = Flushed(me.loaded, SyncedStatus(me.graph))
      /\ execution' = [execution EXCEPT ![me.run] = IF work THEN "processing" ELSE "synced"]
      /\ UNCHANGED <<threadVars, ledgerVars, reviewer, deliveries, crashes>>
  BY <1>0 DEF CommitSync, At, IndInv, Types
<1>2. PICK new :
        /\ handler' = [handler EXCEPT ![h] = new]
        /\ new = IF ~work THEN IdleHandler
                 ELSE IF Valid(proposal.plan) THEN [me EXCEPT !.pc = "executing"]
                 ELSE [me EXCEPT !.pc = "executed", !.batch = "failed"]
  BY <1>0 DEF CommitSync, IndInv, Types
<1>3. /\ new \in HandlerStates
      /\ ~work => new = IdleHandler
      /\ work => /\ new.run = me.run /\ new.graph = me.graph /\ new.next = me.next
                 /\ new.pc = "executing" \/ (new.pc = "executed" /\ new.batch = "failed")
  <2>1. CASE ~work
    BY <1>2, <2>1, IdleHandlerState
  <2>2. CASE work /\ Valid(proposal.plan)
    <3>1. new = [me EXCEPT !.pc = "executing"]
      BY <1>2, <2>2
    <3>2. /\ new \in HandlerStates /\ new.pc = "executing"
          /\ new.run = me.run /\ new.graph = me.graph /\ new.next = me.next
      BY <1>1, <3>1 DEF HandlerStates, Owning
    <3>. QED BY <2>2, <3>2
  <2>3. CASE work /\ ~Valid(proposal.plan)
    <3>1. new = [me EXCEPT !.pc = "executed", !.batch = "failed"]
      BY <1>2, <2>3
    <3>2. /\ new \in HandlerStates /\ new.pc = "executed" /\ new.batch = "failed"
          /\ new.run = me.run /\ new.graph = me.graph /\ new.next = me.next
      BY <1>1, <3>1 DEF HandlerStates, Owning
    <3>. QED BY <2>3, <3>2
  <2>. QED BY <2>1, <2>2, <2>3
<1>4. \A g \in Handlers : handler'[g] = IF g = h THEN new ELSE handler[g]
  BY <1>2 DEF IndInv, Types
<1>5. txn[h] = "idle" /\ me.next = 1 /\ SeenBefore(me.graph)
  BY <1>0, <1>1 DEF IndInv, Sound
<1>6. \A graph : SeenBefore(graph)' <=> SeenBefore(graph)
  BY <1>1, ThreadKept DEF threadVars
<1>7. Sound(h)'
  <2>1. CASE ~work
    BY <1>1, <1>3, <1>4, <1>5, <2>1, IdleHandlerState DEF Sound, Owning, ledgerVars
  <2>2. CASE work
    <3>1. 1 \in DOMAIN proposal.plan /\ SettledUpTo(1)
      <4>1. proposal.plan \in Seq(Calls) /\ proposal.plan # <<>>
        BY <2>2, ThreadAssumption DEF IndInv, Types, ThreadTypeOK, Executable
      <4>. QED BY <4>1 DEF SettledUpTo
    <3>2. UNCHANGED <<proposal, row>> /\ txn'[h] = "idle"
      BY <1>1, <1>5 DEF threadVars, ledgerVars
    <3>3. SettledUpTo(1)' /\ Executable(me.graph)'
      BY <1>0, <2>2, <3>1, <3>2 DEF SettledUpTo, Executable
    <3>. QED
      BY <1>3, <1>4, <1>5, <1>6, <2>2, <3>1, <3>2, <3>3 DEF Sound, Owning
  <2>. QED BY <2>1, <2>2
<1>8. /\ execution' \in [RunIds -> {"none", "processing", "synced", "succeeded", "failed"}]
      /\ \A r \in RunIds : execution'[r] = IF r # me.run THEN execution[r]
                                          ELSE IF work THEN "processing" ELSE "synced"
  BY <1>1 DEF IndInv, Types
<1>9. ClaimsAreExclusive'
  BY <1>0, <1>1, <1>3, <1>4, <1>8, IdleHandlerState DEF IndInv, ClaimsAreExclusive, Claiming, Owning
<1>10. Orphaned' = Orphaned
  <2>1. me.run \in RunIds /\ execution[me.run] = "none"
    BY <1>0, <1>1 DEF IndInv, ClaimsAreExclusive, HandlerStates
  <2>2. \A r \in RunIds \ {me.run} : Owned(r)' <=> Owned(r)
    BY <1>0, <1>1, <1>3, <1>4, IdleHandlerState DEF Owned, Owning
  <2>3. work => Owned(me.run)'
    BY <1>3, <1>4 DEF Owned, Owning
  <2>. QED
    BY <1>8, <2>1, <2>2, <2>3 DEF Orphaned
<1>11. OrphansAreCounted'
  BY <1>1, <1>10 DEF IndInv, OrphansAreCounted
<1>12. /\ SyncedStatus(me.graph) \in Statuses
       /\ SyncedStatus(me.graph) # "failed"
       /\ SyncedStatus(me.graph) = "resolved" => Approved /\ AllSettled
  BY <1>5, SyncedStatusOf
<1>13. AllSettled' = AllSettled
  BY <1>1 DEF AllSettled, threadVars, ledgerVars
<1>14. \/ UNCHANGED status
       \/ /\ status' \in Statuses
          /\ status' \in {"resolved", "failed"} => Approved
          /\ status' = "resolved" => AllSettled'
  BY <1>1, <1>12, <1>13 DEF Flushed
<1>15. UNCHANGED Ledger!vars
  BY <1>1 DEF ledgerVars, Ledger!vars, Ledger!db, Ledger!session, Ledger!history
<1>16. deliveries' \in [RunIds -> 0 .. MaxDeliveries] /\ crashes' \in 0 .. MaxCrashes
  BY <1>1 DEF IndInv, Types
<1>. QED
  BY <1>1, <1>2, <1>3, <1>7, <1>8, <1>9, <1>11, <1>14, <1>15, <1>16, HandlerStep DEF ledgerVars

\* A step of a call: it begins, goes on, or is answered in this step.
LEMMA CallStep ==
  ASSUME IndInv, NEW h \in Handlers, NEW key, key = proposal.plan[handler[h].next],
         InvokeTool(h) \/ ToolStep(h) \/ ToolAborts(h)
  PROVE  /\ handler[h].pc \in {"executing", "calling"} /\ key \in Calls
         /\ [Ledger!Next]_(Ledger!vars)
         /\ \A g \in Handlers \ {h} : txn'[g] = txn[g] /\ txnKey'[g] = txnKey[g]
         /\ txnKey'[h] = key
         /\ \A k \in Calls \ {key} : row'[k] = row[k]
         /\ txn'[h] = "idle" /\ reply'[h] \notin {"failed", "raised"} => row'[key] # "none"
<1> USE DEF Ledger!db, Ledger!session, Ledger!history
<1>1. handler[h].pc \in {"executing", "calling"}
  BY DEF InvokeTool, ToolStep, ToolAborts, At
<1>2. key \in Calls
  BY <1>1, ThreadAssumption DEF IndInv, Sound, Types, ThreadTypeOK
<1>3. Ledger!TypeOK
  BY DEF IndInv, Ledger!IndInv
<1>4. handler[h].pc = "calling" => txnKey[h] = key
  BY DEF IndInv, Sound
<1>5. [Ledger!Next]_(Ledger!vars)
  <2>1. Ledger!CallerStep(h)
    BY <1>2 DEF InvokeTool, ToolStep, ToolAborts, Ledger!CallerStep
  <2>. QED BY <2>1 DEF Ledger!Next
<1>6. CASE InvokeTool(h)
  BY <1>1, <1>2, <1>3, <1>5, <1>6 DEF InvokeTool, Ledger!LookUp, Ledger!TypeOK
<1>7. CASE ToolStep(h)
  <2>1. handler[h].pc = "calling"
    BY <1>7 DEF ToolStep, At
  <2>2. CASE Ledger!InsertPending(h)
    BY <1>1, <1>2, <1>3, <1>4, <1>5, <2>1, <2>2 DEF Ledger!InsertPending, Ledger!TypeOK
  <2>3. CASE Ledger!CallProvider(h)
    BY <1>1, <1>2, <1>3, <1>4, <1>5, <2>1, <2>3 DEF Ledger!CallProvider, Ledger!TypeOK
  <2>4. CASE Ledger!FinishAndCommit(h)
    BY <1>1, <1>2, <1>3, <1>4, <1>5, <2>1, <2>4 DEF Ledger!FinishAndCommit, Ledger!TypeOK
  <2>. QED BY <1>7, <2>2, <2>3, <2>4 DEF ToolStep, Ledger!Progress
<1>8. CASE ToolAborts(h)
  BY <1>1, <1>2, <1>3, <1>4, <1>5, <1>8 DEF ToolAborts, At, Ledger!Abort, Ledger!TypeOK
<1>. QED
  BY <1>6, <1>7, <1>8

\* Where the batch stands after a call: at the next one, or at its end.
LEMMA AfterAnswer ==
  ASSUME IndInv, NEW me \in HandlerStates, me.next \in DOMAIN proposal.plan, NEW answer,
         NEW new, new = Answered(me, answer)
  PROVE  /\ new \in HandlerStates /\ new.run = me.run /\ new.graph = me.graph
         /\ \/ new.pc = "executed" /\ new.batch = "failed"
            \/ /\ answer \notin {"failed", "raised"} /\ me.next = Len(proposal.plan)
               /\ new.pc = "executed" /\ new.batch = "succeeded"
            \/ /\ answer \notin {"failed", "raised"}
               /\ new.pc = "executing" /\ new.next = me.next + 1
               /\ new.next \in DOMAIN proposal.plan
<1>1. proposal.plan \in Seq(Calls)
  BY ThreadAssumption DEF IndInv, Types, ThreadTypeOK
<1>2. me.next \in 1 .. Len(proposal.plan)
  BY <1>1
<1>3. CASE answer \in {"failed", "raised"}
  <2>1. new = [me EXCEPT !.pc = "executed", !.batch = "failed"]
    BY <1>3 DEF Answered
  <2>2. /\ new \in HandlerStates /\ new.run = me.run /\ new.graph = me.graph
        /\ new.pc = "executed" /\ new.batch = "failed"
    BY <2>1 DEF HandlerStates, Owning
  <2>. QED BY <2>2
<1>4. CASE answer \notin {"failed", "raised"} /\ me.next = Len(proposal.plan)
  <2>1. new = [me EXCEPT !.pc = "executed", !.batch = "succeeded"]
    BY <1>4 DEF Answered
  <2>2. /\ new \in HandlerStates /\ new.run = me.run /\ new.graph = me.graph
        /\ new.pc = "executed" /\ new.batch = "succeeded"
    BY <2>1 DEF HandlerStates, Owning
  <2>. QED BY <1>4, <2>2
<1>5. CASE answer \notin {"failed", "raised"} /\ me.next # Len(proposal.plan)
  <2>1. new = [me EXCEPT !.pc = "executing", !.next = me.next + 1]
    BY <1>5 DEF Answered
  <2>2. /\ new \in HandlerStates /\ new.run = me.run /\ new.graph = me.graph
        /\ new.pc = "executing" /\ new.next = me.next + 1
    <3>1. PICK next \in Nat : next = me.next + 1
      BY <1>1, <1>2
    <3>2. new = [me EXCEPT !.pc = "executing", !.next = next]
      BY <2>1, <3>1
    <3>. QED BY <3>1, <3>2 DEF HandlerStates, Owning
  <2>3. new.next \in DOMAIN proposal.plan
    BY <1>1, <1>2, <1>5, <2>2
  <2>. QED BY <1>5, <2>2, <2>3
<1>. QED
  BY <1>3, <1>4, <1>5

\* A tool call and the answer the batch goes on with.
LEMMA CallInv ==
  ASSUME IndInv, NEW h \in Handlers, InvokeTool(h) \/ ToolStep(h) \/ ToolAborts(h)
  PROVE  IndInv'
<1>0. PICK me, key : me = handler[h] /\ key = proposal.plan[me.next]
  OBVIOUS
<1>1. /\ me \in HandlerStates /\ AwaitTool(h)
      /\ UNCHANGED <<threadVars, dbVars, reviewer, deliveries, crashes>>
  BY <1>0 DEF InvokeTool, ToolStep, ToolAborts, IndInv, Types
<1>2. /\ me.pc \in {"executing", "calling"} /\ key \in Calls
      /\ [Ledger!Next]_(Ledger!vars)
      /\ \A g \in Handlers \ {h} : txn'[g] = txn[g] /\ txnKey'[g] = txnKey[g]
      /\ txnKey'[h] = key
      /\ \A k \in Calls \ {key} : row'[k] = row[k]
      /\ txn'[h] = "idle" /\ reply'[h] \notin {"failed", "raised"} => row'[key] # "none"
  BY <1>0, CallStep
<1>3. /\ me.next \in DOMAIN proposal.plan /\ SettledUpTo(me.next)
      /\ SeenBefore(me.graph) /\ Executable(me.graph)
  BY <1>0, <1>2 DEF IndInv, Sound, Owning
<1>4. /\ SettledUpTo(me.next)' /\ Executable(me.graph)'
      /\ \A graph : SeenBefore(graph)' <=> SeenBefore(graph)
      /\ UNCHANGED proposal
  <2>1. UNCHANGED threadVars /\ UNCHANGED proposal
    BY <1>1 DEF threadVars
  <2>2. \A n : SettledUpTo(n) => SettledUpTo(n)'
    BY <1>2, <2>1, ReliedOn
  <2>3. \A graph : Executable(graph)' <=> Executable(graph)
    BY <1>2, <2>1, ReliedOn
  <2>4. \A graph : SeenBefore(graph)' <=> SeenBefore(graph)
    BY <2>1, ThreadKept
  <2>5. PICK n, graph : n = me.next /\ graph = me.graph
    OBVIOUS
  <2>6. SettledUpTo(n)' /\ Executable(graph)'
    BY <1>3, <2>2, <2>3, <2>5
  <2>. QED BY <2>1, <2>4, <2>5, <2>6
<1>5. PICK new :
        /\ handler' = [handler EXCEPT ![h] = new]
        /\ new = IF txn'[h] = "idle" THEN Answered(me, reply'[h]) ELSE [me EXCEPT !.pc = "calling"]
  BY <1>0, <1>1 DEF AwaitTool, IndInv, Types
<1>6. /\ new \in HandlerStates /\ new.pc \in Owning /\ new.run = me.run
      /\ Sound(h)'
  <2>0. handler'[h] = new
    BY <1>5 DEF IndInv, Types
  <2>1. CASE txn'[h] # "idle"
    <3>1. new = [me EXCEPT !.pc = "calling"]
      BY <1>5, <2>1
    <3>2. /\ new \in HandlerStates /\ new.pc = "calling"
          /\ new.run = me.run /\ new.graph = me.graph /\ new.next = me.next
      BY <1>1, <3>1 DEF HandlerStates, Owning
    <3>3. Sound(h)'
      BY <1>0, <1>2, <1>3, <1>4, <2>0, <2>1, <3>2 DEF Sound, Owning
    <3>. QED BY <3>2, <3>3 DEF Owning
  <2>2. CASE txn'[h] = "idle"
    <3>1. PICK answer : answer = reply'[h] /\ new = Answered(me, answer)
      BY <1>5, <2>2
    <3>2. /\ new \in HandlerStates /\ new.run = me.run /\ new.graph = me.graph
          /\ \/ new.pc = "executed" /\ new.batch = "failed"
             \/ /\ answer \notin {"failed", "raised"} /\ me.next = Len(proposal.plan)
                /\ new.pc = "executed" /\ new.batch = "succeeded"
             \/ /\ answer \notin {"failed", "raised"}
                /\ new.pc = "executing" /\ new.next = me.next + 1
                /\ new.next \in DOMAIN proposal.plan
      BY <1>1, <1>3, <3>1, AfterAnswer
    <3>3. CASE new.pc = "executed" /\ new.batch = "failed"
      BY <1>4, <1>3, <2>0, <2>2, <3>2, <3>3 DEF Sound, Owning
    <3>4. ASSUME answer \notin {"failed", "raised"}
          PROVE  \A i \in DOMAIN proposal.plan : i <= me.next => row'[proposal.plan[i]] # "none"
      <4>1. row'[key] # "none"
        BY <1>2, <2>2, <3>1, <3>4
      <4>2. proposal.plan \in Seq(Calls)
        BY ThreadAssumption DEF IndInv, Types, ThreadTypeOK
      <4>. QED BY <1>0, <1>3, <1>4, <4>1, <4>2 DEF SettledUpTo
    <3>5. CASE /\ answer \notin {"failed", "raised"} /\ me.next = Len(proposal.plan)
               /\ new.pc = "executed" /\ new.batch = "succeeded"
      <4>1. AllSettled'
        <5>1. proposal.plan \in Seq(Calls)
          BY ThreadAssumption DEF IndInv, Types, ThreadTypeOK
        <5>. QED BY <1>4, <3>4, <3>5, <5>1 DEF AllSettled
      <4>. QED BY <1>4, <1>3, <2>0, <2>2, <3>2, <3>5, <4>1 DEF Sound, Owning
    <3>6. CASE /\ answer \notin {"failed", "raised"}
               /\ new.pc = "executing" /\ new.next = me.next + 1
               /\ new.next \in DOMAIN proposal.plan
      <4>1. PICK n : n = new.next
        OBVIOUS
      <4>2. SettledUpTo(n)'
        <5>1. proposal.plan \in Seq(Calls)
          BY ThreadAssumption DEF IndInv, Types, ThreadTypeOK
        <5>. QED BY <1>1, <1>3, <1>4, <3>4, <3>6, <4>1, <5>1 DEF SettledUpTo, HandlerStates
      <4>. QED BY <1>3, <1>4, <2>0, <2>2, <3>2, <3>6, <4>1, <4>2 DEF Sound, Owning
    <3>. QED BY <3>2, <3>3, <3>5, <3>6
  <2>. QED BY <2>1, <2>2
<1>7. ClaimsAreExclusive' /\ OrphansAreCounted'
  BY <1>0, <1>1, <1>2, <1>5, <1>6, ClaimsKept DEF Owning, dbVars
<1>8. Approved
  BY <1>0, <1>2, OwnersAreApproved DEF Owning
<1>9. /\ \A k \in Calls \ {proposal.plan[me.next]} : row'[k] = row[k]
      /\ UNCHANGED <<threadVars, reviewer>> /\ UNCHANGED status
  BY <1>0, <1>1, <1>2 DEF dbVars
<1>10. /\ execution' \in [RunIds -> {"none", "processing", "synced", "succeeded", "failed"}]
       /\ \A r \in RunIds : execution'[r] = "succeeded" => execution[r] = "succeeded"
       /\ deliveries' \in [RunIds -> 0 .. MaxDeliveries] /\ crashes' \in 0 .. MaxCrashes
  BY <1>1 DEF IndInv, Types, dbVars
<1>. QED
  BY <1>2, <1>3, <1>5, <1>6, <1>7, <1>8, <1>9, <1>10, HandlerStep

\* The third transaction commits: the case ends as its batch has.
LEMMA CommitResultInv ==
  ASSUME IndInv, NEW h \in Handlers, CommitResult(h)
  PROVE  IndInv'
<1>0. PICK me : me = handler[h]
  OBVIOUS
<1>1. /\ me.pc = "reporting" /\ me \in HandlerStates
      /\ status' = Flushed(me.loaded, IF me.batch = "succeeded" THEN "resolved" ELSE "failed")
      /\ execution' = [execution EXCEPT ![me.run] = me.batch]
      /\ handler' = [handler EXCEPT ![h] = IdleHandler]
      /\ UNCHANGED <<threadVars, ledgerVars, reviewer, deliveries, crashes>>
  BY <1>0 DEF CommitResult, At, IndInv, Types
<1>2. /\ me.batch \in {"succeeded", "failed"} /\ txn[h] = "idle"
      /\ me.batch = "succeeded" => AllSettled
      /\ execution[me.run] = "processing" /\ me.run \in RunIds
  BY <1>0, <1>1 DEF IndInv, Sound, ClaimsAreExclusive, Owning, HandlerStates
<1>3. Approved
  BY <1>0, <1>1, OwnersAreApproved DEF Owning
<1>4. /\ UNCHANGED Ledger!vars
      /\ AllSettled' = AllSettled
  BY <1>1 DEF threadVars, ledgerVars, AllSettled,
              Ledger!vars, Ledger!db, Ledger!session, Ledger!history
<1>5. \A g \in Handlers : handler'[g] = IF g = h THEN IdleHandler ELSE handler[g]
  BY <1>1 DEF IndInv, Types
<1>6. Sound(h)'
  BY <1>1, <1>2, <1>5, IdleHandlerState DEF Sound, Owning, ledgerVars
<1>7. /\ execution' \in [RunIds -> {"none", "processing", "synced", "succeeded", "failed"}]
      /\ \A r \in RunIds : execution'[r] = IF r = me.run THEN me.batch ELSE execution[r]
  BY <1>1, <1>2 DEF IndInv, Types
<1>8. ClaimsAreExclusive'
  BY <1>0, <1>1, <1>2, <1>5, <1>7, IdleHandlerState DEF IndInv, ClaimsAreExclusive, Claiming, Owning
<1>9. OrphansAreCounted'
  <2>1. \A r \in RunIds \ {me.run} : Owned(r)' <=> Owned(r)
    BY <1>0, <1>1, <1>5, IdleHandlerState DEF Owned, Owning
  <2>2. Owned(me.run)
    BY <1>0, <1>1 DEF Owned, Owning
  <2>3. Orphaned' = Orphaned
    BY <1>2, <1>7, <2>1, <2>2 DEF Orphaned
  <2>. QED BY <1>1, <2>3 DEF IndInv, OrphansAreCounted
<1>10. \/ UNCHANGED status
       \/ /\ status' \in Statuses
          /\ status' \in {"resolved", "failed"} => Approved
          /\ status' = "resolved" => AllSettled'
  BY <1>1, <1>2, <1>3, <1>4 DEF Flushed, Statuses, Settled
<1>11. /\ deliveries' \in [RunIds -> 0 .. MaxDeliveries] /\ crashes' \in 0 .. MaxCrashes
       /\ \A r \in RunIds : execution'[r] = "succeeded" => execution[r] = "succeeded" \/ AllSettled'
  BY <1>1, <1>2, <1>4, <1>7 DEF IndInv, Types
<1>. QED
  BY <1>1, <1>4, <1>6, <1>7, <1>8, <1>9, <1>10, <1>11, IdleHandlerState, HandlerStep DEF ledgerVars

\* A handler dies, and its claim is counted.
LEMMA HandlerDiesInv ==
  ASSUME IndInv, NEW h \in Handlers, HandlerDies(h)
  PROVE  IndInv'
<1>0. PICK me : me = handler[h]
  OBVIOUS
<1>1. /\ me.pc # "idle" /\ me \in HandlerStates
      /\ crashes < MaxCrashes /\ crashes' = crashes + 1
      /\ handler' = [handler EXCEPT ![h] = IdleHandler]
      /\ UNCHANGED <<threadVars, dbVars, reviewer, deliveries>>
  BY <1>0 DEF HandlerDies, At, IndInv, Types
<1>2. \A g \in Handlers : handler'[g] = IF g = h THEN IdleHandler ELSE handler[g]
  BY <1>1 DEF IndInv, Types
<1>3. /\ [Ledger!Next]_(Ledger!vars)
      /\ txn'[h] = "idle" /\ UNCHANGED row /\ UNCHANGED effects
      /\ \A g \in Handlers \ {h} : txn'[g] = txn[g] /\ txnKey'[g] = txnKey[g]
  <2>1. CASE txn[h] = "idle"
    <3>1. UNCHANGED ledgerVars
      BY <2>1 DEF HandlerDies
    <3>. QED BY <2>1, <3>1 DEF ledgerVars, Ledger!vars, Ledger!db, Ledger!session, Ledger!history
  <2>2. CASE txn[h] # "idle"
    <3>1. Ledger!Abort(h)
      BY <2>2 DEF HandlerDies
    <3>2. [Ledger!Next]_(Ledger!vars)
      BY <3>1 DEF Ledger!Next, Ledger!CallerStep
    <3>. QED BY <3>1, <3>2 DEF Ledger!Abort, Ledger!db, IndInv, Ledger!IndInv, Ledger!TypeOK
  <2>. QED BY <2>1, <2>2
<1>4. Sound(h)'
  BY <1>2, <1>3, IdleHandlerState DEF Sound, Owning
<1>5. ClaimsAreExclusive'
  BY <1>1, <1>2, IdleHandlerState DEF IndInv, ClaimsAreExclusive, Claiming, Owning, dbVars
<1>6. OrphansAreCounted'
  <2>1. \A r \in RunIds \ {me.run} : Owned(r)' <=> Owned(r)
    BY <1>0, <1>2, IdleHandlerState DEF Owned, Owning
  <2>2. Orphaned' \subseteq Orphaned \cup {me.run}
    BY <1>1, <2>1 DEF Orphaned, dbVars
  <2>3. IsFiniteSet(Orphaned) /\ Cardinality(Orphaned) <= crashes /\ crashes \in Nat
    BY LifecycleAssumption DEF IndInv, OrphansAreCounted, Types
  <2>4. /\ IsFiniteSet(Orphaned \cup {me.run})
        /\ Cardinality(Orphaned \cup {me.run}) <= Cardinality(Orphaned) + 1
        /\ Cardinality(Orphaned) \in Nat
    BY <2>3, FS_AddElement, FS_CardinalityType
  <2>5. /\ IsFiniteSet(Orphaned') /\ Cardinality(Orphaned') \in Nat
        /\ Cardinality(Orphaned') <= Cardinality(Orphaned \cup {me.run})
        /\ Cardinality(Orphaned \cup {me.run}) \in Nat
    BY <2>2, <2>4, FS_Subset, FS_CardinalityType
  <2>. QED BY <1>1, <2>3, <2>4, <2>5 DEF OrphansAreCounted
<1>7. /\ UNCHANGED status /\ deliveries' \in [RunIds -> 0 .. MaxDeliveries]
      /\ crashes' \in 0 .. MaxCrashes
      /\ execution' \in [RunIds -> {"none", "processing", "synced", "succeeded", "failed"}]
      /\ \A r \in RunIds : execution'[r] = "succeeded" => execution[r] = "succeeded"
  BY <1>1, LifecycleAssumption DEF IndInv, Types, dbVars
<1>. QED
  BY <1>1, <1>3, <1>4, <1>5, <1>6, <1>7, IdleHandlerState, HandlerStep

-------------------------------------------------------------------------------
\* What a step of the graph or of a reviewer has to show: no handler and no
\* row of the ledger is touched, and the case is not settled by it.
LEMMA CaseStep ==
  ASSUME IndInv,
         UNCHANGED <<execution, ledgerVars, handler, deliveries>>,
         ThreadNext \/ UNCHANGED threadVars,
         reviewer' \in [Reviewers -> ReviewerStates],
         crashes' \in crashes .. MaxCrashes,
         UNCHANGED status \/ status' \in Statuses \ {"resolved", "failed"}
  PROVE  IndInv'
<1>1. /\ ThreadTypeOK' /\ ThreadPhase' /\ RunsInOrder' /\ proposal' = proposal
      /\ \A graph : SeenBefore(graph) => SeenBefore(graph)'
      /\ Approved => Approved'
  <2>1. CASE ThreadNext
    BY <2>1, ThreadStep DEF IndInv, Types
  <2>2. CASE UNCHANGED threadVars
    BY <2>2, ThreadKept DEF threadVars
  <2>. QED BY <2>1, <2>2
<1>2. UNCHANGED <<execution, handler, deliveries, row, txn, txnKey, effects>>
  BY DEF ledgerVars
<1>3. crashes \in Nat /\ crashes' \in Nat /\ crashes <= crashes' /\ crashes' <= MaxCrashes
  BY LifecycleAssumption DEF IndInv, Types
<1>4. Types'
  BY <1>1, <1>2, <1>3 DEF IndInv, Types
<1>5. Ledger!IndInv'
  <2>1. UNCHANGED Ledger!vars
    BY DEF ledgerVars, Ledger!vars, Ledger!db, Ledger!session, Ledger!history
  <2>. QED BY <2>1, LedgerStep DEF IndInv
<1>6. \A h \in Handlers : Sound(h)'
  <2>1. /\ \A n : SettledUpTo(n)' <=> SettledUpTo(n)
        /\ AllSettled' <=> AllSettled
        /\ \A graph : Executable(graph)' <=> Executable(graph)
    BY <1>1, <1>2 DEF SettledUpTo, AllSettled, Executable
  <2>. QED BY <1>1, <1>2, <2>1 DEF IndInv, Sound
<1>7. ClaimsAreExclusive'
  BY <1>2 DEF IndInv, ClaimsAreExclusive, Claiming
<1>8. OrphansAreCounted'
  <2>1. Orphaned' = Orphaned
    BY <1>2 DEF Orphaned, Owned
  <2>2. IsFiniteSet(Orphaned) /\ Cardinality(Orphaned) \in Nat /\ Cardinality(Orphaned) <= crashes
    BY FS_CardinalityType DEF IndInv, OrphansAreCounted
  <2>. QED BY <1>3, <2>1, <2>2 DEF OrphansAreCounted
<1>9. OnlyApproved'
  BY <1>1, <1>2 DEF IndInv, OnlyApproved
<1>10. SettledInPlanOrder' /\ ResolvedMeansSettled'
  BY <1>1, <1>2 DEF IndInv, SettledInPlanOrder, ResolvedMeansSettled
<1>. QED
  BY <1>1, <1>4, <1>5, <1>6, <1>7, <1>8, <1>9, <1>10 DEF IndInv

\* An idle reviewer is a reviewer's state.
LEMMA IdleReviewerState == IdleReviewer \in ReviewerStates
BY ThreadAssumption DEF IdleReviewer, ReviewerStates

\* A run of the graph reaches its next checkpoint.
LEMMA RunGraphInv ==
  ASSUME IndInv, RunGraph
  PROVE  IndInv'
BY CaseStep, LifecycleAssumption
   DEF RunGraph, ThreadNext, dbVars, coroutines, IndInv, Types

\* A reviewer's request creates a run, loads the case, commits, or dies.
LEMMA ReviewerInv ==
  ASSUME IndInv, NEW v \in Reviewers, SubmitDecision(v) \/ ReviewerProgress(v) \/ ReviewerDies(v)
  PROVE  IndInv'
<1>1. reviewer \in [Reviewers -> ReviewerStates] /\ status \in Statuses
  BY DEF IndInv, Types
<1>2. crashes \in crashes .. MaxCrashes
  BY LifecycleAssumption DEF IndInv, Types
<1>3. CASE SubmitDecision(v)
  <2>1. PICK r \in RunIds, d \in Decisions :
          /\ CreateRun(r, d)
          /\ reviewer' = [reviewer EXCEPT ![v] =
                            [IdleReviewer EXCEPT !.pc = "resumed", !.run = r, !.decision = d]]
    BY <1>3 DEF SubmitDecision
  <2>2. [IdleReviewer EXCEPT !.pc = "resumed", !.run = r, !.decision = d] \in ReviewerStates
    BY DEF IdleReviewer, ReviewerStates
  <2>3. reviewer' \in [Reviewers -> ReviewerStates]
    BY <1>1, <2>1, <2>2
  <2>4. ThreadNext
    BY <2>1 DEF ThreadNext
  <2>. QED BY <1>2, <1>3, <2>3, <2>4, CaseStep DEF SubmitDecision, dbVars
<1>4. CASE LoadCaseForDecision(v)
  <2>1. [reviewer[v] EXCEPT !.pc = "loaded", !.loaded = status] \in ReviewerStates
    BY <1>1, <1>4 DEF LoadCaseForDecision, ReviewerStates
  <2>2. reviewer' \in [Reviewers -> ReviewerStates]
    BY <1>1, <1>4, <2>1 DEF LoadCaseForDecision
  <2>. QED BY <1>2, <1>4, <2>2, CaseStep DEF LoadCaseForDecision, dbVars
<1>5. CASE CommitDecision(v)
  <2>1. reviewer[v].decision \in Decisions
    BY <1>1, <1>5 DEF CommitDecision, ReviewerStates
  <2>2. UNCHANGED status \/ status' \in Statuses \ {"resolved", "failed"}
    BY <1>5, <2>1 DEF CommitDecision, Flushed, Decisions, Statuses, Settled
  <2>3. reviewer' \in [Reviewers -> ReviewerStates]
    BY <1>1, <1>5, IdleReviewerState DEF CommitDecision
  <2>. QED BY <1>2, <1>5, <2>2, <2>3, CaseStep DEF CommitDecision
<1>6. CASE ReviewerDies(v)
  <2>1. reviewer' \in [Reviewers -> ReviewerStates]
    BY <1>1, <1>6, IdleReviewerState DEF ReviewerDies
  <2>2. crashes' \in crashes .. MaxCrashes
    BY <1>6, LifecycleAssumption DEF ReviewerDies, IndInv, Types
  <2>. QED BY <1>6, <2>1, <2>2, CaseStep DEF ReviewerDies, dbVars
<1>. QED
  BY <1>3, <1>4, <1>5, <1>6 DEF ReviewerProgress

-------------------------------------------------------------------------------
\* The invariant is inductive.
LEMMA IndInvStep == IndInv /\ [Next]_allVars => IndInv'
<1> SUFFICES ASSUME IndInv, [Next]_allVars
             PROVE  IndInv'
  OBVIOUS
<1>1. CASE RunGraph
  BY <1>1, RunGraphInv
<1>2. ASSUME NEW h \in Handlers, NEW r \in RunIds, LoadCompletedRun(h, r)
      PROVE  IndInv'
  BY <1>2, LoadCompletedRunInv
<1>3. ASSUME NEW h \in Handlers, HandlerProgress(h) \/ ToolAborts(h)
      PROVE  IndInv'
  BY <1>3, ClaimRunInv, CommitSyncInv, CallInv, LoadCaseForResultInv, CommitResultInv
     DEF HandlerProgress
<1>4. ASSUME NEW h \in Handlers, HandlerDies(h)
      PROVE  IndInv'
  BY <1>4, HandlerDiesInv
<1>5. ASSUME NEW v \in Reviewers, SubmitDecision(v) \/ ReviewerProgress(v) \/ ReviewerDies(v)
      PROVE  IndInv'
  BY <1>5, ReviewerInv
<1>6. CASE UNCHANGED allVars
  BY <1>6, CaseStep, LifecycleAssumption DEF allVars, dbVars, coroutines, IndInv, Types
<1>. QED
  BY <1>1, <1>2, <1>3, <1>4, <1>5, <1>6 DEF Next

(* Whatever handlers, reviewers and runs there are, and whatever dies,     *)
(* every state the callbacks, the decisions and the graph can bring the    *)
(* case into satisfies the inductive invariant.                            *)
THEOREM InductiveInvariant == Spec => []IndInv
BY IndInvInit, IndInvStep, PTL DEF Spec

(* The columns of the case and of its runs hold the values processor.py    *)
(* and routes/cases.py write, and _execute_tool_plan never looks beyond    *)
(* the end of the plan.                                                    *)
THEOREM TypesAreRight == Spec => []TypeOK
<1>1. IndInv => TypeOK
  <2> SUFFICES ASSUME IndInv PROVE TypeOK
    OBVIOUS
  <2>1. ASSUME NEW h \in Handlers
        PROVE  /\ handler[h].pc \in {"idle", "loaded", "claimed"} \cup Owning
               /\ handler[h].pc \in {"executing", "calling"} => handler[h].next \in DOMAIN proposal.plan
    BY DEF IndInv, Types, HandlerStates, Sound
  <2>2. \A v \in Reviewers : reviewer[v].pc \in {"idle", "resumed", "loaded"}
    BY DEF IndInv, Types, ReviewerStates
  <2>. QED BY <2>1, <2>2 DEF IndInv, Types, TypeOK, Statuses
<1>. QED
  BY <1>1, InductiveInvariant, PTL

(* approval_gate and _tool_calls_to_execute: no provider effect of a plan  *)
(* that requires a human before the decision in the checkpoint is          *)
(* "approve", however late, repeated or interleaved the callbacks are.     *)
THEOREM GatedPlansNeedApproval == Spec => []NoEffectWithoutApproval
<1>1. IndInv => NoEffectWithoutApproval
  BY DEF IndInv, OnlyApproved, Approved, NoEffectWithoutApproval
<1>. QED
  BY <1>1, InductiveInvariant, PTL

(* A rejected or sent back proposal is not resolved and has not failed,    *)
(* whatever decisions follow and whichever old snapshot of the thread a    *)
(* callback still writes from.                                             *)
THEOREM RefusalIsFinal == Spec => []RefusedNeverResolves
<1>1. IndInv => RefusedNeverResolves
  <2> SUFFICES ASSUME IndInv, thread.decision \in {"reject", "modify"}
               PROVE  status \notin {"resolved", "failed"}
    BY DEF RefusedNeverResolves
  <2>1. proposal.requiresHuman
    BY FinalizedAs DEF IndInv, ThreadPhase, Finalized, FreshThread
  <2>. QED BY <2>1 DEF IndInv, OnlyApproved, Approved
<1>. QED
  BY <1>1, InductiveInvariant, PTL

(* claim_agent_run_execution: one handler at a time executes a run, the    *)
(* row says "processing" while it does, and every run left "processing"    *)
(* without an owner is accounted for by a coroutine that died.             *)
THEOREM OneOwnerPerRun == Spec => []ProcessingIsOwned
<1> DEFINE owners(r) == {h \in Handlers : handler[h].pc \in Owning /\ handler[h].run = r}
           orphaned  == {r \in RunIds : execution[r] = "processing" /\ owners(r) = {}}
<1>1. ASSUME IndInv PROVE ProcessingIsOwned
  <2>1. ASSUME NEW r \in RunIds
        PROVE  /\ Cardinality(owners(r)) <= 1
               /\ owners(r) # {} => execution[r] = "processing"
    <3>1. CASE owners(r) = {}
      BY <3>1, FS_EmptySet
    <3>2. CASE owners(r) # {}
      <4>1. PICK h \in Handlers : handler[h].pc \in Owning /\ handler[h].run = r
        BY <3>2
      <4>2. owners(r) = {h}
        BY <1>1, <4>1 DEF IndInv, ClaimsAreExclusive, Claiming
      <4>3. Cardinality(owners(r)) = 1
        BY <4>2, FS_Singleton
      <4>. QED BY <1>1, <4>1, <4>3 DEF IndInv, ClaimsAreExclusive
    <3>. QED BY <3>1, <3>2
  <2>2. orphaned = Orphaned
    BY DEF Orphaned, Owned
  <2>3. Cardinality(orphaned) <= crashes
    BY <1>1, <2>2 DEF IndInv, OrphansAreCounted
  <2>. QED BY <2>1, <2>3 DEF ProcessingIsOwned
<1>. QED
  BY <1>1, InductiveInvariant, PTL

(* _execute_tool_plan: no call of the plan has a ledger row before all the *)
(* earlier ones have, with two runs of one thread executing it at a time.  *)
THEOREM CallsAreSettledInOrder == Spec => []SettledInPlanOrder
<1>1. IndInv => SettledInPlanOrder
  BY DEF IndInv
<1>. QED
  BY <1>1, InductiveInvariant, PTL

(* A case is resolved, and a run recorded as succeeded, only when every    *)
(* call of the plan has its row in the ledger.                             *)
THEOREM ResolvedCasesAreSettled == Spec => []ResolvedMeansSettled
<1>1. IndInv => ResolvedMeansSettled
  BY DEF IndInv
<1>. QED
  BY <1>1, InductiveInvariant, PTL

\* The steps of a batch conjoin the ledger's own: they are steps of ToolLedger
\* or leave the ledger alone.
LEMMA LifecycleUsesLedger == Spec => Ledger!Spec
<1>1. Init => Ledger!Init
  BY DEF Init
<1>. QED
  BY <1>1, StepUsesLedger, InductiveInvariant, PTL DEF Spec, Ledger!Spec

(* The plan of a case inherits what is proved of the ledger: without a     *)
(* rollback after a provider call the effect of a call happens at most     *)
(* once over all runs, replays and crashes ...                             *)
THEOREM PlannedCallsHappenOnce == Spec => []Ledger!AtMostOnceUnlessRolledBack
<1>1. Ledger!IndInv => Ledger!EffectsAccounted
  BY DEF Ledger!IndInv, Ledger!EffectsBalance, Ledger!EffectsAccounted,
         Ledger!Holders, Ledger!Applied
<1>2. Ledger!TypeOK /\ Ledger!EffectsAccounted => Ledger!AtMostOnceUnlessRolledBack
  BY DEF Ledger!TypeOK, Ledger!EffectsAccounted, Ledger!AtMostOnceUnlessRolledBack
<1>. QED
  BY <1>1, <1>2, InductiveInvariant, PTL DEF IndInv, Ledger!IndInv

(* ... and the whole lifecycle implements the promise of SettledOnce: a    *)
(* call whose row is committed is never applied again nor its status       *)
(* changed, by a later decision, a later callback or a second run.         *)
THEOREM LifecycleKeepsPromise == Spec => Ledger!ImplementsPromise
<1>1. Ledger!Init => Proved!Init
  BY SameInit
<1>2. [Ledger!Next]_(Ledger!vars) => [Proved!Next]_(Proved!vars)
  BY SameNext, SameVariables
<1>3. Proved!Spec => Proved!ImplementsPromise
  BY Proved!LedgerImplementsPromise, LifecycleAssumption
<1>4. /\ Proved!Promise!Init => Ledger!Promise!Init
      /\ [Proved!Promise!Next]_<<row, effects>> => [Ledger!Promise!Next]_<<row, effects>>
  BY DEF Proved!Promise!Init, Proved!Promise!Next, Proved!Promise!Apply, Proved!Promise!Settle,
         Proved!Promise!Open, Ledger!Promise!Init, Ledger!Promise!Next, Ledger!Promise!Apply,
         Ledger!Promise!Settle, Ledger!Promise!Open
<1>. QED
  BY <1>1, <1>2, <1>3, <1>4, LifecycleUsesLedger, PTL
     DEF Ledger!Spec, Proved!Spec, Ledger!ImplementsPromise, Proved!ImplementsPromise,
         Ledger!Promise!Spec, Proved!Promise!Spec
-------------------------------------------------------------------------------
\* What ApprovedPlan speaks of.
promisedVars == <<proposal, thread.decision, row, effects, status>>

\* A case and a thread begin as ApprovedPlan says.
LEMMA PromisedInit == Init => Promised!Init
BY DEF Init, ThreadInit, FreshThread, Ledger!Init, Promised!Init, Promised!Call!Init

\* The graph answers at its gate, once, and changes nothing else of it.
LEMMA GraphAsPromised ==
  ASSUME IndInv, RunGraph
  PROVE  Promised!Answer \/ UNCHANGED promisedVars
<1>1. /\ GraphStep /\ UNCHANGED <<proposal, row, effects, status>>
      /\ ThreadPhase /\ RunsInOrder
  <2>1. GraphStep /\ UNCHANGED <<row, effects, status>>
    BY DEF RunGraph, dbVars, ledgerVars
  <2>2. ThreadTypeOK /\ ThreadPhase /\ RunsInOrder
    BY DEF IndInv, Types
  <2>. QED BY <2>1, <2>2, ThreadStep DEF ThreadNext
<1>2. CASE FirstRun
  <2>1. thread = FreshThread
    BY <1>1, <1>2 DEF ThreadPhase, FirstRun
  <2>2. thread'.decision = thread.decision
    BY <1>2, <2>1 DEF FirstRun, FreshThread, Finalized
  <2>. QED BY <1>1, <2>2 DEF promisedVars
<1>3. ASSUME NEW r \in RunIds, PassGate(r)
      PROVE  Promised!Answer
  <2>1. runs[r].input \in Decisions /\ thread.interrupted
    BY <1>1, <1>3 DEF RunsInOrder, PassGate
  <2>2. proposal.requiresHuman /\ thread = Interrupted
    BY <1>1, <2>1 DEF ThreadPhase, FreshThread, Interrupted, GatePassed, Finalized
  <2>3. thread'.decision = runs[r].input
    BY <1>3, <2>2 DEF PassGate, Interrupted
  <2>. QED BY <1>1, <2>1, <2>2, <2>3 DEF Promised!Answer, Interrupted, Decisions
<1>4. ASSUME NEW r \in RunIds, FinalizeRun(r) \/ IdleRun(r)
      PROVE  thread'.decision = thread.decision
  BY <1>4 DEF FinalizeRun, IdleRun, Finalized
<1>. QED
  BY <1>1, <1>2, <1>3, <1>4 DEF GraphStep, promisedVars

\* What a transaction commits to cases.status is what may be shown.
LEMMA ShownAsPromised ==
  ASSUME IndInv, UNCHANGED <<threadVars, ledgerVars>>,
         \/ UNCHANGED status
         \/ /\ status' \in Statuses
            /\ status' \in {"resolved", "failed"} => Approved
            /\ status' = "resolved" => AllSettled
  PROVE  Promised!Show \/ UNCHANGED promisedVars
<1>1. UNCHANGED <<proposal, thread.decision, row, effects>>
  BY DEF threadVars, ledgerVars
<1>2. CASE UNCHANGED status
  BY <1>1, <1>2 DEF promisedVars
<1>3. CASE /\ status' \in Statuses
           /\ status' \in {"resolved", "failed"} => Approved
           /\ status' = "resolved" => AllSettled
  BY <1>1, <1>3 DEF Promised!Show, Promised!MayExecute, Promised!Call!Open, Approved, AllSettled,
                    Statuses, Settled
<1>. QED
  BY <1>2, <1>3

\* A tool's transaction makes or settles the call its batch is at, of a plan
\* that is approved, when all calls before it have their row.
LEMMA ToolStepAsPromised ==
  ASSUME IndInv, NEW h \in Handlers, ToolStep(h)
  PROVE  UNCHANGED promisedVars \/ \E i \in DOMAIN proposal.plan : Promised!Execute(i)
<1>1. PICK i, k : i = handler[h].next /\ k = txnKey[h]
  OBVIOUS
<1>2. /\ UNCHANGED <<proposal, thread.decision, status>>
      /\ At(h, "calling") /\ Ledger!Progress(h)
      /\ i \in DOMAIN proposal.plan /\ SettledUpTo(i) /\ k = proposal.plan[i]
  BY <1>1 DEF ToolStep, threadVars, dbVars, IndInv, Sound, At
<1>3. Approved
  BY <1>2, OwnersAreApproved DEF At, Owning
<1>4. /\ Promised!MayExecute
      /\ \A j \in DOMAIN proposal.plan : j < i => ~Promised!Call!Open(proposal.plan[j])
  BY <1>2, <1>3 DEF Promised!MayExecute, Promised!Call!Open, Approved, SettledUpTo
<1>5. Ledger!IndInv /\ k \in Calls
  BY <1>2, ThreadAssumption DEF IndInv, Types, ThreadTypeOK
<1>6. CASE Ledger!InsertPending(h)
  BY <1>2, <1>6 DEF Ledger!InsertPending, Ledger!db, promisedVars
<1>7. CASE ~Ledger!InsertPending(h)
  <2>1. /\ Ledger!CallProvider(h) \/ Ledger!FinishAndCommit(h)
        /\ h \in Ledger!Holders(k)
    BY <1>1, <1>2, <1>7 DEF Ledger!Progress, Ledger!CallProvider, Ledger!FinishAndCommit, Ledger!Holders
  <2>2. row[k] = "none"
    BY <1>5, <2>1 DEF Ledger!IndInv, Ledger!OneHolderPerKey
  <2>3. CASE Ledger!CallProvider(h)
    <3>1. \/ UNCHANGED <<row, effects>>
          \/ effects' = [effects EXCEPT ![k] = @ + 1] /\ UNCHANGED row
      BY <1>1, <2>3 DEF Ledger!CallProvider, Ledger!db
    <3>. QED BY <1>2, <1>4, <2>2, <3>1 DEF Promised!Execute, Promised!Call!Apply, Promised!Call!Open,
                                            promisedVars
  <2>4. CASE Ledger!FinishAndCommit(h)
    <3>1. txn[h] = "operated" /\ effects[k] \in Nat /\ lost[k] \in Nat
      BY <1>5, <2>4 DEF Ledger!FinishAndCommit, Ledger!IndInv, Ledger!TypeOK
    <3>2. outcome[h] = "ok" => effects[k] > 0
      BY <1>5, <2>1, <3>1 DEF Ledger!IndInv, Ledger!EffectsBalance, Ledger!Applied
    <3>3. Promised!Call!Settle(k)
      BY <1>1, <2>2, <2>4, <3>2 DEF Ledger!FinishAndCommit, Promised!Call!Settle, Promised!Call!Open
    <3>. QED BY <1>2, <1>4, <3>3 DEF Promised!Execute
  <2>. QED BY <2>1, <2>3, <2>4
<1>. QED
  BY <1>6, <1>7

\* Every step of the case is one of ApprovedPlan or changes nothing of it.
LEMMA StepAsPromised == IndInv /\ [Next]_allVars => [Promised!Next]_promisedVars
<1> SUFFICES ASSUME IndInv, [Next]_allVars PROVE Promised!Next \/ UNCHANGED promisedVars
  OBVIOUS
<1>1. CASE RunGraph
  BY <1>1, GraphAsPromised DEF Promised!Next
<1>2. ASSUME NEW h \in Handlers, NEW r \in RunIds, LoadCompletedRun(h, r)
      PROVE  UNCHANGED promisedVars
  BY <1>2 DEF LoadCompletedRun, threadVars, dbVars, ledgerVars, promisedVars
<1>3. ASSUME NEW h \in Handlers, HandlerProgress(h) \/ ToolAborts(h) \/ HandlerDies(h)
      PROVE  Promised!Next \/ UNCHANGED promisedVars
  <2>1. CASE ClaimRun(h) \/ LoadCaseForResult(h)
    BY <2>1 DEF ClaimRun, LoadCaseForResult, threadVars, dbVars, ledgerVars, promisedVars
  <2>2. CASE CommitSync(h)
    <3>1. PICK me : me = handler[h]
      OBVIOUS
    <3>2. /\ UNCHANGED <<threadVars, ledgerVars>>
          /\ status' = Flushed(me.loaded, SyncedStatus(me.graph)) /\ SeenBefore(me.graph)
      BY <2>2, <3>1 DEF CommitSync, At, IndInv, Sound
    <3>3. /\ SyncedStatus(me.graph) \in Statuses /\ SyncedStatus(me.graph) # "failed"
          /\ SyncedStatus(me.graph) = "resolved" => Approved /\ AllSettled
      BY <3>2, SyncedStatusOf
    <3>4. Promised!Show \/ UNCHANGED promisedVars
      BY <3>2, <3>3, ShownAsPromised DEF Flushed
    <3>. QED BY <3>4 DEF Promised!Next
  <2>3. CASE CommitResult(h)
    <3>1. PICK me : me = handler[h]
      OBVIOUS
    <3>2. /\ UNCHANGED <<threadVars, ledgerVars>>
          /\ status' = Flushed(me.loaded, IF me.batch = "succeeded" THEN "resolved" ELSE "failed")
          /\ me.batch = "succeeded" => AllSettled
      BY <2>3, <3>1 DEF CommitResult, At, IndInv, Sound
    <3>3. Approved
      BY <2>3, OwnersAreApproved DEF CommitResult, At, Owning
    <3>4. Promised!Show \/ UNCHANGED promisedVars
      BY <3>2, <3>3, ShownAsPromised DEF Flushed, Statuses, Settled
    <3>. QED BY <3>4 DEF Promised!Next
  <2>4. CASE InvokeTool(h)
    BY <2>4 DEF InvokeTool, Ledger!LookUp, Ledger!db, threadVars, dbVars, promisedVars
  <2>5. CASE ToolStep(h)
    BY <2>5, ToolStepAsPromised DEF Promised!Next
  <2>6. CASE ToolAborts(h) \/ HandlerDies(h)
    BY <2>6 DEF ToolAborts, HandlerDies, Ledger!Abort, Ledger!db, threadVars, dbVars, ledgerVars,
                promisedVars
  <2>. QED BY <1>3, <2>1, <2>2, <2>3, <2>4, <2>5, <2>6 DEF HandlerProgress
<1>4. ASSUME NEW v \in Reviewers, SubmitDecision(v) \/ ReviewerProgress(v) \/ ReviewerDies(v)
      PROVE  Promised!Next \/ UNCHANGED promisedVars
  <2>1. CASE CommitDecision(v)
    <3>1. reviewer[v].decision \in Decisions /\ UNCHANGED <<threadVars, ledgerVars>>
      BY <2>1 DEF CommitDecision, ReviewerStates, IndInv, Types
    <3>2. UNCHANGED status \/ status' \in Statuses \ {"resolved", "failed"}
      BY <2>1, <3>1 DEF CommitDecision, Flushed, Decisions, Statuses, Settled
    <3>3. Promised!Show \/ UNCHANGED promisedVars
      BY <3>1, <3>2, ShownAsPromised
    <3>. QED BY <3>3 DEF Promised!Next
  <2>2. CASE SubmitDecision(v)
    <3>1. UNCHANGED <<proposal, thread>>
      BY <2>2 DEF SubmitDecision, CreateRun
    <3>. QED BY <2>2, <3>1 DEF SubmitDecision, dbVars, ledgerVars, promisedVars
  <2>3. CASE LoadCaseForDecision(v) \/ ReviewerDies(v)
    BY <2>3 DEF LoadCaseForDecision, ReviewerDies, threadVars, dbVars, ledgerVars, promisedVars
  <2>. QED BY <1>4, <2>1, <2>2, <2>3 DEF ReviewerProgress
<1>5. CASE UNCHANGED allVars
  BY <1>5 DEF allVars, threadVars, dbVars, ledgerVars, promisedVars
<1>. QED
  BY <1>1, <1>2, <1>3, <1>4, <1>5 DEF Next

(* Graph, callbacks, decision endpoint and ledger together implement       *)
(* ApprovedPlan: the first decision is the only answer, and a provider is  *)
(* touched, a row committed and an end shown only as that answer and the   *)
(* calls before allow, whatever is late, repeated, interleaved or dies.    *)
THEOREM LifecycleImplementsApproval == Spec => PlanIsExecutedAsApproved
<1>1. Init /\ [][Next]_allVars /\ []IndInv => Promised!Spec
  BY PromisedInit, StepAsPromised, PTL DEF Promised!Spec, promisedVars
<1>. QED
  BY <1>1, InductiveInvariant, PTL DEF Spec, PlanIsExecutedAsApproved
=============================================================================
