----------------------- MODULE OrderExceptionGraphProofs -----------------------
(***************************************************************************)
(* Proofs about OrderExceptionGraph, for any facts, inputs and runs.       *)
(*                                                                         *)
(* GraphInv says what the channels hold when the graph stands before each  *)
(* node: the lane has been copied from the classification to the route,    *)
(* the proposal is the one the facts give, an interrupt waits exactly when *)
(* the webhook's run has ended at the gate, and the decision is there      *)
(* exactly when a gated proposal is finalized.                             *)
(*                                                                         *)
(* The last part follows a signal of an input through its readers: the     *)
(* classifier that makes a lane of it, the FOPs, and the subagent.  None   *)
(* of these is a matter of steps, so it is about operators, and GraphInv   *)
(* only says that the nodes pass on what the operators give.               *)
(***************************************************************************)
EXTENDS OrderExceptionGraph, OrderExceptionPlansProofs, WellFoundedInduction

Proposed == WithProposal(facts, facts.lane, facts.approvals)

Early == {"classify", "initialize", "supervisor", "subagent"}

Resolutions == {"none", "approved", "auto_resolved", "rejected", "awaiting_modification"}

FactsAreKnown ==
  /\ facts \in AllFacts
  /\ facts.lane \in Lanes

ChannelsAreTyped ==
  /\ node \in Early \cup {"approval_gate", "finalize", "end"}
  /\ values \in [type : Lanes \cup {"none"}, approvals : {FALSE, facts.approvals},
                 route : Lanes \cup {"none"}, proposal : {NoProposal, Proposed},
                 interrupted : BOOLEAN, decision : Thread!Decisions \cup {"none"},
                 resolution : Resolutions,
                 calls : {"none", "approved", "auto_ready", "rejected"}]

RunsAreTyped ==
  /\ runs \in [RunIds -> [state : {"none", "active", "done"},
                          input : Thread!Decisions \cup {"none"}]]
  /\ \A r \in RunIds : runs[r].state = "none" <=> runs[r].input = "none" /\ r # 0
  /\ \A r \in RunIds : r # 0 /\ Running(r) => runs[r].input \in Thread!Decisions

\* One run of a thread at a time.
OneRuns == \A q, r \in RunIds : Running(q) /\ Running(r) => q = r

\* What each node has left in the channels.
ChannelsFollowNode ==
  /\ node # "classify" => values.type = facts.lane
  /\ node \notin {"classify", "initialize"} => values.approvals = facts.approvals
  /\ node \notin {"classify", "initialize", "supervisor"} => values.route = facts.lane
  /\ values.proposal = IF node \in Early THEN NoProposal ELSE Proposed

\* Where the interrupt and its answer are.
GateIsPassedOnce ==
  /\ node \in Early => Running(0)
  /\ node = "approval_gate" => Proposed.requiresHuman
  /\ values.interrupted <=> node = "approval_gate" /\ ~Running(0)
  /\ node \in Early \cup {"approval_gate"} => values.decision = "none"
  /\ node \in {"finalize", "end"} => (values.decision = "none" <=> ~Proposed.requiresHuman)
  /\ node = "finalize" => (Running(0) <=> ~Proposed.requiresHuman)

\* What finalize has decided.
OutcomeFollowsDecision ==
  /\ node # "end" => values.resolution = "none" /\ values.calls = "none"
  /\ node = "end" => values.resolution # "none" /\ ~Running(0)
  /\ values.calls = "auto_ready" => node = "end" /\ ~Proposed.requiresHuman
  /\ values.calls = "approved" => node = "end" /\ values.decision = "approve"

GraphInv ==
  /\ FactsAreKnown /\ ChannelsAreTyped /\ RunsAreTyped /\ OneRuns
  /\ ChannelsFollowNode /\ GateIsPassedOnce /\ OutcomeFollowsDecision

-------------------------------------------------------------------------------
(* The lane of a case. *)

(* A set of naturals has a least one. *)
LEMMA LeastElement ==
  ASSUME NEW T, T \subseteq Nat, T # {}
  PROVE  \E x \in T : \A y \in T : x <= y
<1> DEFINE R == OpToRel(<, Nat)
<1>1. IsWellFoundedOn(R, Nat)
  BY NatLessThanWellFounded
<1>2. \A x, y \in Nat : x < y => <<x, y>> \in R
  BY DEF OpToRel
<1> HIDE DEF R
<1>3. PICK x \in T : \A y \in T : ~ (<<y, x>> \in R)
  BY <1>1, WFMin
<1>4. ASSUME NEW y \in T PROVE x <= y
  <2>1. ~(y < x)
    BY <1>2, <1>3
  <2>2. x \in Int /\ y \in Int
    OBVIOUS
  <2> QED
    BY <2>1, <2>2
<1> QED
  BY <1>4

(* Without a lane in the context, the first test that holds gives it.      *)
LEMMA FirstTestDecides ==
  ASSUME NEW order, NEW context, Field(context, "exception_type") \notin Lanes,
         NEW tests, tests = Tests(order, context)
  PROVE  \E first \in 1 .. 12 :
           /\ ClassifyOrderException(order, context) = tests[first].lane
           /\ tests[first].holds
           /\ \A j \in 1 .. 12 : tests[j].holds => first <= j
<1> DEFINE Holds == {i \in 1 .. Len(tests) : tests[i].holds}
<1>1. Len(tests) = 12 /\ tests[12].holds
  BY DEF Tests
<1>2. Holds # {} /\ Holds \subseteq 1 .. 12 /\ \A j \in 1 .. 12 : tests[j].holds => j \in Holds
  BY <1>1
<1>3. \A i \in Holds : tests[i].holds
  OBVIOUS
<1> HIDE DEF Holds
<1>4. \E i \in Holds : \A j \in Holds : i <= j
  <2>1. Holds \subseteq Nat /\ Holds # {}
    BY <1>2
  <2> QED
    BY <2>1, LeastElement
<1>5. Min(Holds) \in Holds /\ \A j \in Holds : Min(Holds) <= j
  BY <1>4 DEF Min
<1>6. SelectInSeq(tests, LAMBDA t : t.holds) = Min(Holds)
  BY <1>2 DEF SelectInSeq, Holds
<1>7. ClassifyOrderException(order, context) = tests[Min(Holds)].lane
  BY <1>6 DEF ClassifyOrderException
<1> QED
  BY <1>2, <1>3, <1>5, <1>7

(* classify always arrives at an exception type: the last test holds.      *)
LEMMA ClassifiedInLanes ==
  ASSUME NEW order, NEW context
  PROVE  ClassifyOrderException(order, context) \in Lanes
<1>1. CASE Field(context, "exception_type") \in Lanes
  BY <1>1, IntakeAssumption DEF ClassifyOrderException, Field
<1>2. CASE Field(context, "exception_type") \notin Lanes
  <2>1. PICK tests : tests = Tests(order, context)
    OBVIOUS
  <2>2. \A i \in 1 .. 12 : tests[i].lane \in Lanes
    BY <2>1 DEF Tests, Lanes
  <2> QED
    BY <1>2, <2>1, <2>2, FirstTestDecides
<1> QED
  BY <1>1, <1>2

(* Whether the facts are given or read from an input, their lane is one    *)
(* of the ten.                                                             *)
LEMMA FactsHaveALane ==
  ASSUME NEW f \in AllFacts
  PROVE  f.lane \in Lanes
<1>1. \A supplied, order, context, answer : ClassifyCase(supplied, order, context, answer) \in Lanes
  BY ClassifiedInLanes DEF ClassifyCase, RefineSupervisorRoute
<1>2. \A lane, order, context, fops : FactsOf(lane, order, context, fops).lane = lane
  BY DEF FactsOf
<1>3. \A in \in Inputs : FactsOfInput(in).lane \in Lanes
  BY <1>1, <1>2 DEF FactsOfInput
<1> QED
  BY <1>3, GraphAssumption DEF AllFacts

-------------------------------------------------------------------------------
(* What a plan that is good is for the graph's properties. *)

(* _with_proposal asks for a human whenever the plan writes.               *)
LEMMA ProposedIsGood ==
  ASSUME FactsAreKnown
  PROVE  /\ GoodPlan(Proposed.plan)
         /\ Proposed.requiresHuman \in BOOLEAN
         /\ Writes(Proposed.plan) => Proposed.requiresHuman
<1>1. Proposed.plan = Plan(facts, facts.lane)
  BY DEF Proposed, WithProposal
<1>2. Proposed.requiresHuman <=> (facts.approvals \/ Writes(Plan(facts, facts.lane)))
  BY DEF Proposed, WithProposal
<1>3. Proposed.requiresHuman \in BOOLEAN
  BY DEF Proposed, WithProposal
<1> QED
  BY <1>1, <1>2, <1>3, EveryPlanIsGood DEF FactsAreKnown

-------------------------------------------------------------------------------
(* The invariant. *)

(* Initially. *)
LEMMA InitInv == Init => GraphInv
<1> SUFFICES ASSUME Init PROVE GraphInv
  OBVIOUS
<1>1. FactsAreKnown
  BY FactsHaveALane DEF Init, AllFacts, FactsAreKnown
<1>2. ChannelsAreTyped
  BY DEF Init, ChannelsAreTyped, Early, Resolutions
<1>3. RunsAreTyped /\ OneRuns
  BY GraphAssumption DEF Init, RunsAreTyped, OneRuns, Running
<1>4. ChannelsFollowNode /\ GateIsPassedOnce /\ OutcomeFollowsDecision
  BY GraphAssumption DEF Init, ChannelsFollowNode, GateIsPassedOnce, OutcomeFollowsDecision,
     Early, Running
<1> QED
  BY <1>1, <1>2, <1>3, <1>4 DEF GraphInv

(* The nodes of the webhook's run that only write a channel. *)
LEMMA ClassifyInv ==
  ASSUME GraphInv, Classify
  PROVE  GraphInv'
<1> USE DEF GraphInv
<1>1. FactsAreKnown' /\ RunsAreTyped' /\ OneRuns'
  BY DEF Classify, Passes, FactsAreKnown, RunsAreTyped, OneRuns, Running
<1>2. Proposed' = Proposed
  BY DEF Classify, Passes, Proposed
<1>3. values' = [values EXCEPT !.type = facts.lane] /\ node = "classify" /\ node' = "initialize"
        /\ UNCHANGED <<facts, runs>>
  BY DEF Classify, Passes
<1>4. ChannelsAreTyped'
  BY <1>2, <1>3 DEF ChannelsAreTyped, FactsAreKnown, Early
<1>5. ChannelsFollowNode' /\ GateIsPassedOnce' /\ OutcomeFollowsDecision'
  BY <1>2, <1>3 DEF ChannelsAreTyped, ChannelsFollowNode, GateIsPassedOnce,
     OutcomeFollowsDecision, Early, Running
<1> QED
  BY <1>1, <1>4, <1>5
(* initialize: the approvals the FOPs ask for.                             *)
LEMMA InitializeInv ==
  ASSUME GraphInv, Initialize
  PROVE  GraphInv'
<1> USE DEF GraphInv
<1>1. FactsAreKnown' /\ RunsAreTyped' /\ OneRuns'
  BY DEF Initialize, Passes, FactsAreKnown, RunsAreTyped, OneRuns, Running
<1>2. Proposed' = Proposed
  BY DEF Initialize, Passes, Proposed
<1>3. values' = [values EXCEPT !.approvals = facts.approvals] /\ node = "initialize"
        /\ node' = "supervisor"
        /\ UNCHANGED <<facts, runs>>
  BY DEF Initialize, Passes
<1>4. ChannelsAreTyped'
  BY <1>2, <1>3 DEF ChannelsAreTyped, FactsAreKnown, Early
<1>5. ChannelsFollowNode' /\ GateIsPassedOnce' /\ OutcomeFollowsDecision'
  BY <1>2, <1>3 DEF ChannelsAreTyped, ChannelsFollowNode, GateIsPassedOnce,
     OutcomeFollowsDecision, Early, Running
<1> QED
  BY <1>1, <1>4, <1>5

(* supervisor: the route is the type.                                      *)
LEMMA SupervisorInv ==
  ASSUME GraphInv, Supervisor
  PROVE  GraphInv'
<1> USE DEF GraphInv
<1>1. FactsAreKnown' /\ RunsAreTyped' /\ OneRuns'
  BY DEF Supervisor, Passes, FactsAreKnown, RunsAreTyped, OneRuns, Running
<1>2. Proposed' = Proposed
  BY DEF Supervisor, Passes, Proposed
<1>3. values' = [values EXCEPT !.route = values.type] /\ node = "supervisor"
        /\ node' = "subagent"
        /\ UNCHANGED <<facts, runs>>
  BY DEF Supervisor, Passes
<1>4. ChannelsAreTyped'
  BY <1>2, <1>3 DEF ChannelsAreTyped, FactsAreKnown, Early
<1>5. ChannelsFollowNode' /\ GateIsPassedOnce' /\ OutcomeFollowsDecision'
  BY <1>2, <1>3 DEF ChannelsAreTyped, ChannelsFollowNode, GateIsPassedOnce,
     OutcomeFollowsDecision, Early, Running
<1> QED
  BY <1>1, <1>4, <1>5

(* The proposal is the one of the facts, and the gate is entered with it   *)
(* if somebody must decide.                                                *)
LEMMA SubagentInv ==
  ASSUME GraphInv, Subagent
  PROVE  GraphInv'
<1> USE DEF GraphInv
<1>1. FactsAreKnown' /\ RunsAreTyped' /\ OneRuns'
  BY DEF Subagent, Passes, FactsAreKnown, RunsAreTyped, OneRuns, Running
<1>2. Proposed' = Proposed
  BY DEF Subagent, Passes, Proposed
<1>3. node = "subagent" /\ Running(0) /\ UNCHANGED <<facts, runs>>
  BY DEF Subagent, Passes
<1>4. WithProposal(facts, values.route, values.approvals) = Proposed
  BY <1>3 DEF Proposed, ChannelsFollowNode
<1>5. /\ values' = [values EXCEPT !.proposal = Proposed]
      /\ node' = IF Proposed.requiresHuman THEN "approval_gate" ELSE "finalize"
  BY <1>4 DEF Subagent, Passes
<1>6. ChannelsAreTyped'
  BY <1>2, <1>3, <1>5 DEF ChannelsAreTyped, Early
<1>7. ChannelsFollowNode' /\ GateIsPassedOnce' /\ OutcomeFollowsDecision'
  BY <1>2, <1>3, <1>5 DEF ChannelsAreTyped, ChannelsFollowNode, GateIsPassedOnce,
     OutcomeFollowsDecision, Early, Running
<1> QED
  BY <1>1, <1>6, <1>7

(* The runs after one of them has ended. *)
LEMMA EndedRuns ==
  ASSUME RunsAreTyped, OneRuns, NEW r \in RunIds, Running(r), Ends(r)
  PROVE  /\ RunsAreTyped' /\ OneRuns'
         /\ \A q \in RunIds : ~ (Running(q)')
<1>1. /\ runs' \in [RunIds -> [state : {"none", "active", "done"},
                               input : Thread!Decisions \cup {"none"}]]
      /\ \A q \in RunIds : /\ runs'[q].state = IF q = r THEN "done" ELSE runs[q].state
                           /\ runs'[q].input = runs[q].input
  BY DEF RunsAreTyped, Ends
<1>2. \A q \in RunIds : runs'[q].state # "active"
  BY <1>1 DEF OneRuns, Running
<1> QED
  BY <1>1, <1>2 DEF RunsAreTyped, OneRuns, Running

(* The interrupt: the run ends, the graph stays at the gate.               *)
LEMMA ApprovalGateInv ==
  ASSUME GraphInv, ApprovalGate
  PROVE  GraphInv'
<1> USE DEF GraphInv
<1>1. FactsAreKnown' /\ Proposed' = Proposed
  BY DEF ApprovalGate, FactsAreKnown, Proposed
<1>2. RunsAreTyped' /\ OneRuns' /\ ~ (Running(0)')
  BY EndedRuns, GraphAssumption DEF ApprovalGate
<1>3. values' = [values EXCEPT !.interrupted = TRUE] /\ node = "approval_gate"
        /\ UNCHANGED <<facts, node>>
  BY DEF ApprovalGate
<1>4. ChannelsAreTyped'
  BY <1>1, <1>3 DEF ChannelsAreTyped, Early
<1>5. ChannelsFollowNode' /\ GateIsPassedOnce' /\ OutcomeFollowsDecision'
  BY <1>1, <1>2, <1>3 DEF ChannelsAreTyped, ChannelsFollowNode, GateIsPassedOnce,
     OutcomeFollowsDecision, Early
<1> QED
  BY <1>1, <1>2, <1>4, <1>5

(* Only one run of the thread works, so the webhook's is over. *)
LEMMA OthersAreIdle ==
  ASSUME OneRuns, NEW r \in RunIds, Running(r), r # 0
  PROVE  ~Running(0)
BY GraphAssumption DEF OneRuns

(* The answer: a decision, because a later run has one for its input.      *)
LEMMA ResumeInv ==
  ASSUME GraphInv, NEW r \in RunIds, Resume(r)
  PROVE  GraphInv'
<1> USE DEF GraphInv
<1>1. FactsAreKnown' /\ Proposed' = Proposed /\ RunsAreTyped' /\ OneRuns'
  BY DEF Resume, FactsAreKnown, Proposed, RunsAreTyped, OneRuns, Running
<1>2. r # 0 /\ Running(r) /\ node = "approval_gate" /\ node' = "finalize"
        /\ UNCHANGED <<facts, runs>>
        /\ values' = [values EXCEPT !.interrupted = FALSE, !.decision = runs[r].input]
  BY DEF Resume
<1>3. runs[r].input \in Thread!Decisions /\ runs[r].input # "none" /\ ~Running(0)
  BY <1>2, OthersAreIdle DEF RunsAreTyped, Running
<1>4. PICK d : d = runs[r].input
  OBVIOUS
<1>5. ChannelsAreTyped'
  BY <1>1, <1>2, <1>3, <1>4 DEF ChannelsAreTyped, Early
<1>6. ChannelsFollowNode' /\ GateIsPassedOnce' /\ OutcomeFollowsDecision'
  BY <1>1, <1>2, <1>3, <1>4 DEF ChannelsAreTyped, ChannelsFollowNode, GateIsPassedOnce,
     OutcomeFollowsDecision, Early, Running
<1> QED
  BY <1>1, <1>5, <1>6

\* What finalize writes of a proposal that was decided or needs no decision.
Resolved == IF values.decision = "reject" THEN "rejected"
            ELSE IF values.decision = "modify" THEN "awaiting_modification"
            ELSE IF Proposed.requiresHuman THEN "approved" ELSE "auto_resolved"
Reported == IF values.decision = "reject" THEN "rejected"
            ELSE IF values.decision = "modify" THEN "none"
            ELSE IF Proposed.requiresHuman THEN "approved" ELSE "auto_ready"

(* What finalize does, given that a gated proposal comes with a decision.  *)
LEMMA FinalizeIs ==
  ASSUME GraphInv, NEW r \in RunIds, Finalize(r)
  PROVE  /\ Running(r) /\ node = "finalize" /\ node' = "end" /\ Ends(r)
         /\ UNCHANGED <<input, facts>>
         /\ values.interrupted = FALSE
         /\ values.decision \in Thread!Decisions \cup {"none"}
         /\ values' = [values EXCEPT !.resolution = Resolved, !.calls = Reported]
<1> USE DEF GraphInv
<1>1. Running(r) /\ node = "finalize" /\ node' = "end" /\ Ends(r) /\ UNCHANGED <<input, facts>>
  BY DEF Finalize
<1>2. values.proposal = Proposed
  BY <1>1 DEF ChannelsFollowNode, Early
<1>3. ~(Proposed.requiresHuman /\ values.decision = "none") /\ values.interrupted = FALSE
  BY <1>1 DEF GateIsPassedOnce, ChannelsAreTyped
<1>4. values.calls = "none" /\ values.decision \in Thread!Decisions \cup {"none"}
  BY <1>1 DEF OutcomeFollowsDecision, ChannelsAreTyped
<1>5. CASE values.decision = "reject"
  <2>1. Resolved = "rejected" /\ Reported = "rejected"
    BY <1>5 DEF Resolved, Reported
  <2>2. values' = [values EXCEPT !.resolution = "rejected", !.calls = "rejected"]
    BY <1>5 DEF Finalize
  <2> QED
    BY <1>1, <1>3, <1>4, <2>1, <2>2
<1>6. CASE values.decision = "modify"
  <2>1. Resolved = "awaiting_modification" /\ Reported = "none"
    BY <1>6 DEF Resolved, Reported
  <2>2. values' = [values EXCEPT !.resolution = "awaiting_modification"]
    BY <1>6 DEF Finalize
  <2>3. values' = [values EXCEPT !.resolution = "awaiting_modification", !.calls = "none"]
    BY <1>4, <2>2 DEF ChannelsAreTyped
  <2> QED
    BY <1>1, <1>3, <1>4, <2>1, <2>3
<1>7. CASE values.decision \notin {"reject", "modify"}
  <2>1. /\ Resolved = IF Proposed.requiresHuman THEN "approved" ELSE "auto_resolved"
        /\ Reported = IF Proposed.requiresHuman THEN "approved" ELSE "auto_ready"
    BY <1>7 DEF Resolved, Reported
  <2>2. values' = [values EXCEPT
          !.resolution = IF Proposed.requiresHuman THEN "approved" ELSE "auto_resolved",
          !.calls = IF Proposed.requiresHuman THEN "approved" ELSE "auto_ready"]
    BY <1>2, <1>3, <1>7 DEF Finalize
  <2> QED
    BY <1>1, <1>3, <1>4, <2>1, <2>2
<1> QED
  BY <1>5, <1>6, <1>7

(* What is finalized follows the decision.                                 *)
LEMMA FinalizeInv ==
  ASSUME GraphInv, NEW r \in RunIds, Finalize(r)
  PROVE  GraphInv'
<1>1. /\ Running(r) /\ node = "finalize" /\ node' = "end" /\ Ends(r)
      /\ UNCHANGED <<input, facts>>
      /\ values.interrupted = FALSE
      /\ values.decision \in Thread!Decisions \cup {"none"}
  BY FinalizeIs
<1>2. PICK resolution, calls :
        /\ resolution = Resolved /\ calls = Reported
        /\ values' = [values EXCEPT !.resolution = resolution, !.calls = calls]
  BY FinalizeIs
<1> USE DEF GraphInv
<1>3. FactsAreKnown' /\ Proposed' = Proposed
  BY <1>1 DEF FactsAreKnown, Proposed
<1>4. RunsAreTyped' /\ OneRuns' /\ ~ (Running(0)')
  BY <1>1, EndedRuns, GraphAssumption
<1>5. ChannelsAreTyped'
  <2>1. PICK v, w : v = values /\ w = [v EXCEPT !.resolution = resolution, !.calls = calls]
    OBVIOUS
  <2>2. resolution \in Resolutions /\ calls \in {"none", "approved", "auto_ready", "rejected"}
    BY <1>2 DEF Resolutions, Resolved, Reported
  <2>3. w \in [type : Lanes \cup {"none"}, approvals : {FALSE, facts.approvals},
               route : Lanes \cup {"none"}, proposal : {NoProposal, Proposed},
               interrupted : BOOLEAN, decision : Thread!Decisions \cup {"none"},
               resolution : Resolutions,
               calls : {"none", "approved", "auto_ready", "rejected"}]
    BY <2>1, <2>2 DEF ChannelsAreTyped
  <2>4. values' = w
    BY <1>2, <2>1
  <2> QED
    BY <1>1, <1>3, <2>3, <2>4 DEF ChannelsAreTyped
<1>6. ChannelsFollowNode' /\ GateIsPassedOnce'
  BY <1>1, <1>2, <1>3, <1>4 DEF ChannelsAreTyped, ChannelsFollowNode, GateIsPassedOnce, Early
<1>7. OutcomeFollowsDecision'
  <2>1. /\ values'.resolution = resolution /\ values'.calls = calls
        /\ values'.decision = values.decision
    BY <1>2 DEF ChannelsAreTyped
  <2>2. /\ resolution # "none"
        /\ calls = "auto_ready" => ~Proposed.requiresHuman
        /\ calls = "approved" => Proposed.requiresHuman /\ values.decision \notin {"reject", "modify"}
    BY <1>2 DEF Resolved, Reported
  <2>3. Proposed.requiresHuman => values.decision # "none"
    BY <1>1 DEF GateIsPassedOnce
  <2> QED
    BY <1>1, <1>3, <1>4, <2>1, <2>2, <2>3 DEF OutcomeFollowsDecision, Thread!Decisions
<1> QED
  BY <1>3, <1>4, <1>5, <1>6, <1>7

(* A run after the end changes nothing. *)
LEMMA NothingToResumeInv ==
  ASSUME GraphInv, NEW r \in RunIds, NothingToResume(r)
  PROVE  GraphInv'
<1> USE DEF GraphInv
<1>1. Running(r) /\ node = "end" /\ Ends(r) /\ UNCHANGED <<input, facts, node, values>>
  BY DEF NothingToResume
<1>2. FactsAreKnown' /\ Proposed' = Proposed
  BY <1>1 DEF FactsAreKnown, Proposed
<1>3. RunsAreTyped' /\ OneRuns' /\ ~ (Running(0)')
  BY <1>1, EndedRuns, GraphAssumption
<1>4. ChannelsAreTyped' /\ ChannelsFollowNode' /\ GateIsPassedOnce' /\ OutcomeFollowsDecision'
  BY <1>1, <1>2, <1>3 DEF ChannelsAreTyped, ChannelsFollowNode, GateIsPassedOnce,
     OutcomeFollowsDecision, Early
<1> QED
  BY <1>2, <1>3, <1>4

(* A run is created when no other works; 0, the webhook's, never again.    *)
LEMMA CreateRunInv ==
  ASSUME GraphInv, NEW r \in RunIds, NEW d \in Thread!Decisions, CreateRun(r, d)
  PROVE  GraphInv'
<1> USE DEF GraphInv
<1>1. /\ runs[r].state = "none" /\ \A q \in RunIds : ~Running(q)
      /\ runs' = [runs EXCEPT ![r] = [state |-> "active", input |-> d]]
      /\ UNCHANGED <<input, facts, node, values>>
  BY DEF CreateRun
<1>2. r # 0 /\ d # "none"
  BY <1>1 DEF RunsAreTyped, Thread!Decisions
<1>3. /\ runs' \in [RunIds -> [state : {"none", "active", "done"},
                               input : Thread!Decisions \cup {"none"}]]
      /\ \A q \in RunIds : runs'[q] = IF q = r THEN [state |-> "active", input |-> d] ELSE runs[q]
  BY <1>1 DEF RunsAreTyped
<1>4. RunsAreTyped'
  BY <1>1, <1>2, <1>3 DEF RunsAreTyped, Running
<1>5. OneRuns' /\ ~ (Running(0)')
  BY <1>1, <1>2, <1>3, GraphAssumption DEF OneRuns, Running
<1>6. FactsAreKnown' /\ Proposed' = Proposed
  BY <1>1 DEF FactsAreKnown, Proposed
<1>7. ChannelsAreTyped' /\ ChannelsFollowNode' /\ GateIsPassedOnce' /\ OutcomeFollowsDecision'
  BY <1>1, <1>5, <1>6, GraphAssumption DEF ChannelsAreTyped, ChannelsFollowNode, GateIsPassedOnce,
     OutcomeFollowsDecision, Early
<1> QED
  BY <1>4, <1>5, <1>6, <1>7

(* Every step. *)
LEMMA StepInv == GraphInv /\ [Next]_graphVars => GraphInv'
<1> SUFFICES ASSUME GraphInv, [Next]_graphVars PROVE GraphInv'
  OBVIOUS
<1>1. CASE UNCHANGED graphVars
  <2>1. UNCHANGED <<input, facts, node, values, runs>>
    BY <1>1 DEF graphVars
  <2>2. /\ Proposed' = Proposed /\ \A r \in RunIds : Running(r)' <=> Running(r)
        /\ Running(0)' <=> Running(0)
    BY <2>1 DEF Proposed, Running
  <2>3. FactsAreKnown' /\ ChannelsAreTyped'
    BY <2>1, <2>2 DEF GraphInv, FactsAreKnown, ChannelsAreTyped
  <2>4. RunsAreTyped' /\ OneRuns'
    BY <2>1 DEF GraphInv, RunsAreTyped, OneRuns, Running
  <2>5. ChannelsFollowNode' /\ GateIsPassedOnce' /\ OutcomeFollowsDecision'
    BY <2>1, <2>2 DEF GraphInv, ChannelsFollowNode, GateIsPassedOnce, OutcomeFollowsDecision
  <2> QED
    BY <2>3, <2>4, <2>5 DEF GraphInv
<1>2. CASE Classify \/ Initialize \/ Supervisor \/ Subagent \/ ApprovalGate
  BY <1>2, ClassifyInv, InitializeInv, SupervisorInv, SubagentInv, ApprovalGateInv
<1>3. CASE \E r \in RunIds : Resume(r) \/ Finalize(r) \/ NothingToResume(r)
  BY <1>3, ResumeInv, FinalizeInv, NothingToResumeInv
<1>4. CASE \E r \in RunIds, d \in Thread!Decisions : CreateRun(r, d)
  BY <1>4, CreateRunInv
<1> QED
  BY <1>1, <1>2, <1>3, <1>4 DEF Next

(* The inductive invariant, for any facts, inputs and runs of a thread.    *)
THEOREM GraphInvariant == Spec => []GraphInv
BY InitInv, StepInv, PTL DEF Spec

-------------------------------------------------------------------------------
(* The properties. *)

(* A sequence over a set is one over a larger set.                         *)
LEMMA WiderSeq ==
  ASSUME NEW C, NEW D, NEW s \in Seq(C), C \subseteq D
  PROVE  s \in Seq(D)
OBVIOUS

\* The proposal in the channels is a good plan, or there is none yet.
LEMMA PlanInChannels ==
  ASSUME GraphInv
  PROVE  GoodPlan(values.proposal.plan)
<1>1. CASE values.proposal = NoProposal
  BY <1>1, NoPlanIsHarmless, HarmlessPlanIsGood DEF NoProposal
<1>2. CASE values.proposal = Proposed
  BY <1>2, ProposedIsGood DEF GraphInv
<1> QED
  BY <1>1, <1>2 DEF GraphInv, ChannelsFollowNode

(* A good plan in terms of the properties. *)
LEMMA GoodPlanIs ==
  ASSUME NEW plan, GoodPlan(plan)
  PROVE  /\ plan \in Seq(CallsOf(ToSet(KeysOf(plan)), ExecutionToolRegistry))
         /\ \A i \in DOMAIN plan : plan[i].tool \in ExecutionToolRegistry
         /\ IsInjective(KeysOf(plan))
<1>1. PICK intents : PlannedFrom(plan, intents, ExecutionToolRegistry)
  BY DEF GoodPlan, PlanOf
<1>2. \A i \in DOMAIN plan : /\ plan[i] \in CallsOf(intents, ExecutionToolRegistry)
                             /\ plan[i].tool \in ExecutionToolRegistry
  BY <1>1, Elements DEF PlannedFrom
<1>3. DOMAIN KeysOf(plan) = DOMAIN plan /\ \A i \in DOMAIN plan : KeysOf(plan)[i] = plan[i].intent
  BY DEF KeysOf
<1>4. \A i \in DOMAIN plan : plan[i].intent \in ToSet(KeysOf(plan))
  BY <1>3 DEF ToSet
<1>5. \A i \in DOMAIN plan : plan[i] \in CallsOf(ToSet(KeysOf(plan)), ExecutionToolRegistry)
  BY <1>2, <1>4 DEF CallsOf
<1>6. plan \in Seq(CallsOf(ToSet(KeysOf(plan)), ExecutionToolRegistry))
  <2> HIDE DEF CallsOf
  <2> QED
    BY <1>1, <1>5 DEF PlannedFrom
<1> QED
  BY <1>1, <1>2, <1>3, <1>6 DEF IsInjective, PlannedFrom

(* The channels and runs keep their types, and finalize never meets a      *)
(* gated proposal without a decision (graph.py:173).                       *)
THEOREM GraphTypeCorrect == Spec => []TypeOK
<1>1. ASSUME GraphInv PROVE TypeOK
  <2> DEFINE plan == values.proposal.plan
             keys == ToSet(KeysOf(plan))
             C    == CallsOf(keys, ExecutionToolRegistry)
             D    == CallsOf(keys, WriteTools \cup ExecutionToolRegistry)
  <2>1. plan \in Seq(C)
    BY <1>1, PlanInChannels, GoodPlanIs
  <2>2. C \subseteq D
    BY DEF CallsOf
  <2>3. plan \in Seq(D)
    <3> HIDE DEF C, D, plan
    <3> QED
      BY <2>1, <2>2, WiderSeq
  <2>4. facts.lane \in Lanes
    BY <1>1 DEF GraphInv, FactsAreKnown
  <2>5. /\ node \in {"classify", "initialize", "supervisor", "subagent", "approval_gate",
                     "finalize", "end"}
        /\ values.type \in Lanes \cup {"none"} /\ values.route \in Lanes \cup {"none"}
        /\ values.decision \in Thread!Decisions \cup {"none"}
        /\ values.resolution # "awaiting_human"
    BY <1>1 DEF GraphInv, ChannelsAreTyped, Early, Resolutions
  <2>6. values.interrupted => node = "approval_gate"
    BY <1>1 DEF GraphInv, GateIsPassedOnce
  <2>7. \A r \in RunIds : runs[r].state = "none" <=> runs[r].input = "none" /\ r # 0
    BY <1>1 DEF GraphInv, RunsAreTyped
  <2> QED
    BY <2>3, <2>4, <2>5, <2>6, <2>7 DEF TypeOK, CallsOf
<1> QED
  BY <1>1, GraphInvariant, PTL

(* Whatever the facts, the processor can execute what is planned: it knows *)
(* every tool, and no call is taken for a repetition of another.           *)
THEOREM EveryPlanCanBeExecuted == Spec => []PlansAreExecutable
<1>1. ASSUME GraphInv PROVE PlansAreExecutable
  BY <1>1, PlanInChannels, GoodPlanIs DEF PlansAreExecutable, PlannedTools
<1> QED
  BY <1>1, GraphInvariant, PTL

(* Whatever the FOPs ask for, a plan that writes is executed only after    *)
(* "approve".                                                              *)
THEOREM WritesNeedApproval == Spec => []WritesAreApproved
<1>1. ASSUME GraphInv PROVE WritesAreApproved
  <2>1. values.calls = "auto_ready" => ~Proposed.requiresHuman /\ values.proposal = Proposed
    BY <1>1 DEF GraphInv, OutcomeFollowsDecision, ChannelsFollowNode, Early
  <2>2. Writes(Proposed.plan) => Proposed.requiresHuman
    BY <1>1, ProposedIsGood DEF GraphInv
  <2>3. values.calls = "approved" => values.decision = "approve"
    BY <1>1 DEF GraphInv, OutcomeFollowsDecision
  <2> QED
    BY <2>1, <2>2, <2>3 DEF WritesAreApproved
<1> QED
  BY <1>1, GraphInvariant, PTL

(* Whatever the facts, an edit is held before and confirmed after.         *)
THEOREM EditsAreOrdered == Spec => []EditsAreHeldThenConfirmed
<1>1. ASSUME GraphInv PROVE EditsAreHeldThenConfirmed
  BY <1>1, PlanInChannels DEF GoodPlan, HeldThenConfirmed, Edits, EditsAreHeldThenConfirmed
<1> QED
  BY <1>1, GraphInvariant, PTL

-------------------------------------------------------------------------------
(* The graph implements the thread that CaseLifecycle runs on. *)

Checkpoint == [interrupted |-> values.interrupted, decision |-> values.decision,
               resolution |-> values.resolution, calls |-> values.calls]

(* An interrupt and its answer, as changes of the checkpoint.              *)
LEMMA CheckpointIs ==
  ASSUME GraphInv, NEW i \in BOOLEAN, NEW d \in Thread!Decisions
  PROVE  /\ [Checkpoint EXCEPT !.interrupted = i] =
              [interrupted |-> i, decision |-> values.decision,
               resolution |-> values.resolution, calls |-> values.calls]
         /\ [Checkpoint EXCEPT !.interrupted = i, !.decision = d] =
              [interrupted |-> i, decision |-> d,
               resolution |-> values.resolution, calls |-> values.calls]
<1> DEFINE D == Thread!Decisions \cup {"none"}
           C == {"none", "approved", "auto_ready", "rejected"}
           R == [interrupted : BOOLEAN, decision : D, resolution : Resolutions, calls : C]
<1>1. /\ Checkpoint \in R
      /\ Checkpoint.decision = values.decision /\ Checkpoint.resolution = values.resolution
      /\ Checkpoint.calls = values.calls
  BY DEF Checkpoint, GraphInv, ChannelsAreTyped
<1>2. d \in D
  OBVIOUS
<1> HIDE DEF C, D
<1>3. PICK c : c = Checkpoint
  OBVIOUS
<1>4. c \in R
  BY <1>1, <1>3
<1>5. [c EXCEPT !.interrupted = i] =
        [interrupted |-> i, decision |-> c.decision, resolution |-> c.resolution,
         calls |-> c.calls]
  BY <1>4
<1>6. PICK e : e = [c EXCEPT !.interrupted = i, !.decision = d]
  OBVIOUS
<1>7. /\ e \in R /\ e.interrupted = i /\ e.decision = d
      /\ e.resolution = c.resolution /\ e.calls = c.calls
  BY <1>2, <1>4, <1>6
<1>8. e = [interrupted |-> i, decision |-> d, resolution |-> c.resolution, calls |-> c.calls]
  BY <1>7
<1> QED
  BY <1>1, <1>3, <1>5, <1>6, <1>8

(* The plans of all cases satisfy what OrderExceptionThread, and with it   *)
(* CaseLifecycle, assume of Proposals and of RunIds.                       *)
THEOREM ThreadAssumptionsHold ==
  /\ RunIds \subseteq Nat /\ 0 \in RunIds
  /\ \A p \in PlannedProposals : /\ p.plan \in Seq(PlannedKeys) /\ p.requiresHuman \in BOOLEAN
                                 /\ \A i, j \in DOMAIN p.plan : p.plan[i] = p.plan[j] => i = j
<1>1. ASSUME NEW f \in AllFacts
      PROVE  /\ KeysOf(WithProposal(f, f.lane, f.approvals).plan) \in
                  Seq(ToSet(KeysOf(WithProposal(f, f.lane, f.approvals).plan)))
             /\ WithProposal(f, f.lane, f.approvals).requiresHuman \in BOOLEAN
             /\ IsInjective(KeysOf(WithProposal(f, f.lane, f.approvals).plan))
  <2> DEFINE plan == WithProposal(f, f.lane, f.approvals).plan
  <2>1. GoodPlan(plan)
    BY FactsHaveALane, EveryPlanIsGood DEF WithProposal
  <2>2. WithProposal(f, f.lane, f.approvals).requiresHuman \in BOOLEAN
    BY DEF WithProposal
  <2> HIDE DEF plan
  <2>3. plan \in Seq(CallsOf(ToSet(KeysOf(plan)), ExecutionToolRegistry)) /\ IsInjective(KeysOf(plan))
    BY <2>1, GoodPlanIs
  <2>4. KeysOf(plan) \in Seq(ToSet(KeysOf(plan)))
    <3>1. \A i \in DOMAIN plan : plan[i].intent \in ToSet(KeysOf(plan))
      BY DEF KeysOf, ToSet
    <3> QED
      BY <2>3, <3>1 DEF KeysOf
  <2> QED
    BY <2>2, <2>3, <2>4 DEF plan
<1>2. ASSUME NEW p \in PlannedProposals
      PROVE  /\ p.plan \in Seq(PlannedKeys) /\ p.requiresHuman \in BOOLEAN
             /\ \A i, j \in DOMAIN p.plan : p.plan[i] = p.plan[j] => i = j
  <2>1. PICK f \in AllFacts : p = Keyed(WithProposal(f, f.lane, f.approvals))
    BY DEF PlannedProposals
  <2>2. /\ p.plan = KeysOf(WithProposal(f, f.lane, f.approvals).plan)
        /\ p.requiresHuman = WithProposal(f, f.lane, f.approvals).requiresHuman
    BY <2>1 DEF Keyed, WithProposal
  <2>3. p.plan \in Seq(ToSet(p.plan)) /\ ToSet(p.plan) \subseteq PlannedKeys
    BY <1>1, <2>2 DEF PlannedKeys
  <2>4. p.plan \in Seq(PlannedKeys)
    BY <2>3, WiderSeq
  <2>5. \A i, j \in DOMAIN p.plan : p.plan[i] = p.plan[j] => i = j
    BY <1>1, <2>2 DEF IsInjective
  <2> QED
    BY <1>1, <2>2, <2>4, <2>5
<1> QED
  BY <1>2, GraphAssumption

(* The graph starts as the thread does. *)
LEMMA ThreadInitStep == Init => Thread!ThreadInit
<1> SUFFICES ASSUME Init PROVE Thread!ThreadInit
  OBVIOUS
<1>1. facts \in AllFacts
  BY DEF Init, AllFacts
<1>2. Keyed(WithProposal(facts, facts.lane, facts.approvals)) \in PlannedProposals
  BY <1>1 DEF PlannedProposals
<1>3. Checkpoint = Thread!FreshThread
  BY DEF Init, Checkpoint, Thread!FreshThread
<1> QED
  BY <1>2, <1>3 DEF Init, Thread!ThreadInit, Checkpoint

(* Nothing of the thread's state changes before the gate is reached.       *)
LEMMA EarlyNodesStutter ==
  ASSUME GraphInv, Classify \/ Initialize \/ Supervisor \/ Subagent
  PROVE  UNCHANGED <<Keyed(Proposed), Checkpoint, runs>>
<1>1. UNCHANGED <<facts, runs>>
  BY DEF Classify, Initialize, Supervisor, Subagent, Passes
<1>2. Checkpoint' = Checkpoint
  <2>2. CASE Classify
    BY <2>2 DEF Classify, Checkpoint, GraphInv, ChannelsAreTyped
  <2>3. CASE Initialize
    BY <2>3 DEF Initialize, Checkpoint, GraphInv, ChannelsAreTyped
  <2>4. CASE Supervisor
    BY <2>4 DEF Supervisor, Checkpoint, GraphInv, ChannelsAreTyped
  <2>5. CASE Subagent
    BY <2>5 DEF Subagent, Checkpoint, GraphInv, ChannelsAreTyped
  <2> QED
    BY <2>2, <2>3, <2>4, <2>5
<1>4. Keyed(Proposed)' = Keyed(Proposed)
  BY <1>1 DEF Proposed
<1> QED
  BY <1>1, <1>2, <1>4

(* The interrupt is the end of the first run, for a gated proposal.        *)
LEMMA ApprovalGateStep ==
  ASSUME GraphInv, ApprovalGate
  PROVE  Thread!FirstRun
<1>1. Proposed' = Proposed
  BY DEF ApprovalGate, Proposed
<1>2. Keyed(Proposed).requiresHuman
  BY DEF ApprovalGate, GraphInv, GateIsPassedOnce, Keyed, Proposed, WithProposal
<1>3. Checkpoint' = [Checkpoint EXCEPT !.interrupted = TRUE]
  <2>1. /\ values'.interrupted = TRUE /\ values'.decision = values.decision
        /\ values'.resolution = values.resolution /\ values'.calls = values.calls
    BY DEF ApprovalGate, GraphInv, ChannelsAreTyped
  <2> DEFINE after == [interrupted |-> TRUE, decision |-> values.decision,
                       resolution |-> values.resolution, calls |-> values.calls]
  <2>2. Checkpoint' = after
    BY <2>1 DEF Checkpoint
  <2>3. [Checkpoint EXCEPT !.interrupted = TRUE] = after
    BY CheckpointIs DEF Thread!Decisions
  <2> QED
    BY <2>2, <2>3
<1> QED
  BY <1>1, <1>2, <1>3 DEF ApprovalGate, Running, Ends, Thread!FirstRun, Checkpoint, Proposed

(* The answer passes the gate. *)
LEMMA ResumeStep ==
  ASSUME GraphInv, NEW r \in RunIds, Resume(r)
  PROVE  Thread!PassGate(r)
<1>1. Proposed' = Proposed
  BY DEF Resume, Proposed
<1>2. Checkpoint.interrupted
  BY OthersAreIdle DEF Resume, GraphInv, GateIsPassedOnce, Checkpoint
<1>3. PICK d : d = runs[r].input
  OBVIOUS
<1>4. d \in Thread!Decisions
  BY <1>3 DEF Resume, GraphInv, RunsAreTyped
<1>5. Checkpoint' = [Checkpoint EXCEPT !.interrupted = FALSE, !.decision = d]
  <2>1. /\ values'.interrupted = FALSE /\ values'.decision = d
        /\ values'.resolution = values.resolution /\ values'.calls = values.calls
    BY <1>3 DEF Resume, GraphInv, ChannelsAreTyped
  <2> DEFINE after == [interrupted |-> FALSE, decision |-> d,
                       resolution |-> values.resolution, calls |-> values.calls]
  <2>2. Checkpoint' = after
    BY <2>1 DEF Checkpoint
  <2>3. [Checkpoint EXCEPT !.interrupted = FALSE, !.decision = d] = after
    BY <1>4, CheckpointIs
  <2> QED
    BY <2>2, <2>3
<1> QED
  BY <1>1, <1>2, <1>3, <1>5 DEF Resume, Running, Thread!PassGate, Checkpoint, Proposed

(* finalize ends the first run if nobody was asked, or else a later one.   *)
LEMMA FinalizeStep ==
  ASSUME GraphInv, NEW r \in RunIds, Finalize(r)
  PROVE  Thread!FirstRun \/ Thread!FinalizeRun(r)
<1>1. /\ Running(r) /\ node = "finalize" /\ node' = "end" /\ Ends(r)
      /\ UNCHANGED <<input, facts>>
      /\ values.interrupted = FALSE
  BY FinalizeIs
<1>2. Proposed' = Proposed
  BY <1>1 DEF Proposed
<1>3. Keyed(Proposed).requiresHuman = Proposed.requiresHuman
  BY DEF Keyed, Proposed, WithProposal
<1>4. Checkpoint' = Thread!Finalized(values.decision)
  <2>1. PICK resolution, calls :
          /\ resolution = Resolved /\ calls = Reported
          /\ values' = [values EXCEPT !.resolution = resolution, !.calls = calls]
    BY FinalizeIs
  <2>2. /\ values'.interrupted = FALSE /\ values'.decision = values.decision
        /\ values'.resolution = resolution /\ values'.calls = calls
    BY <1>1, <2>1 DEF GraphInv, ChannelsAreTyped
  <2> QED
    BY <1>3, <2>1, <2>2 DEF Checkpoint, Thread!Finalized, Proposed, Resolved, Reported
<1>5. CASE r = 0
  <2>1. ~Proposed.requiresHuman /\ values.decision = "none"
    BY <1>1, <1>5 DEF GraphInv, GateIsPassedOnce
  <2> QED
    BY <1>1, <1>2, <1>3, <1>4, <1>5, <2>1
    DEF Running, Ends, Thread!FirstRun, Checkpoint, Proposed
<1>6. CASE r # 0
  <2>1. values.resolution = "none"
    BY <1>1 DEF GraphInv, OutcomeFollowsDecision
  <2> QED
    BY <1>1, <1>2, <1>4, <1>6, <2>1 DEF Running, Ends, Thread!FinalizeRun, Checkpoint, Proposed
<1> QED
  BY <1>5, <1>6

(* A run after the end is idle. *)
LEMMA NothingToResumeStep ==
  ASSUME GraphInv, NEW r \in RunIds, NothingToResume(r)
  PROVE  Thread!IdleRun(r)
<1>1. values.resolution # "none"
  BY DEF NothingToResume, GraphInv, OutcomeFollowsDecision
<1> QED
  BY <1>1 DEF NothingToResume, Running, Ends, Thread!IdleRun

(* The server creates the same runs. *)
LEMMA CreateRunStep ==
  ASSUME GraphInv, NEW r \in RunIds, NEW d \in Thread!Decisions, CreateRun(r, d)
  PROVE  Thread!CreateRun(r, d)
<1>1. Thread!ActiveRuns = {}
  BY DEF CreateRun, Running, Thread!ActiveRuns
<1>2. \A q \in RunIds : q < r => runs[q].state # "none"
  BY DEF CreateRun
<1> QED
  BY <1>1, <1>2 DEF CreateRun, Thread!CreateRun

(* Every step of the graph is a step of the thread or leaves it alone.     *)
LEMMA ThreadStep == GraphInv /\ [Next]_graphVars => [Thread!ThreadNext]_(Thread!threadVars)
<1> SUFFICES ASSUME GraphInv, [Next]_graphVars
             PROVE  [Thread!ThreadNext]_(Thread!threadVars)
  OBVIOUS
<1>1. CASE UNCHANGED graphVars
  BY <1>1 DEF graphVars, Thread!threadVars
<1>2. CASE Classify \/ Initialize \/ Supervisor \/ Subagent
  BY <1>2, EarlyNodesStutter DEF Thread!threadVars, Checkpoint, Proposed
<1>3. CASE ApprovalGate
  BY <1>3, ApprovalGateStep DEF Thread!ThreadNext, Thread!GraphStep
<1>4. CASE \E r \in RunIds : Resume(r) \/ Finalize(r) \/ NothingToResume(r)
  BY <1>4, ResumeStep, FinalizeStep, NothingToResumeStep DEF Thread!ThreadNext, Thread!GraphStep
<1>5. CASE \E r \in RunIds, d \in Thread!Decisions : CreateRun(r, d)
  BY <1>5, CreateRunStep DEF Thread!ThreadNext
<1> QED
  BY <1>1, <1>2, <1>3, <1>4, <1>5 DEF Next

(* The graph of graph.py, node by node and for every case, implements the  *)
(* one-step thread that CaseLifecycle is built on.                         *)
THEOREM GraphImplementsThread == Spec => ImplementsThread
<1>1. Init /\ [][Next]_graphVars /\ []GraphInv => Thread!ThreadSpec
  BY ThreadInitStep, ThreadStep, PTL DEF Thread!ThreadSpec
<1> QED
  BY <1>1, GraphInvariant, PTL DEF Spec, ImplementsThread

-------------------------------------------------------------------------------
(* What the classifier finds is acted on: the lane. *)

(* The first six tests, if nobody asked for anything; the other lanes.     *)
LEMMA TestsAre ==
  ASSUME NEW order, NEW context, NEW tests, tests = Tests(order, context),
         RequestType(context) = None,
         ~Truth(Nested(context, "delivery", "reported_missing")),
         ~Truth(Nested(context, "delivery", "reported_damaged"))
  PROVE  /\ \A i \in 1 .. 5 : ~tests[i].holds
         /\ tests[6].holds <=> RiskScore(order, context) # None /\ RiskScore(order, context) >= 50
         /\ tests[6].lane = "fraud_triage"
         /\ tests[7].lane = "order_not_picked" /\ tests[7].holds = IsOrderNotPicked(order, context)
         /\ tests[8].lane = "inventory_conflict" /\ tests[8].holds = OutOfStock(context)
         /\ tests[9].lane = "stuck_in_transit" /\ tests[9].holds = IsStuckInTransit(context)
         /\ \A i \in 10 .. 12 : tests[i].lane \in {"wismo", "fraud_triage"}
<1>1. \A lane \in Lanes : RequestType(context) \notin RequestsFor(lane)
  BY IntakeAssumption
<1>2. ~tests[1].holds /\ ~tests[2].holds /\ ~tests[3].holds
  BY <1>1 DEF Tests, Lanes
<1>3. ~tests[4].holds /\ ~tests[5].holds
  BY <1>1 DEF Tests, Lanes
<1>4. /\ tests[6].holds <=> RiskScore(order, context) # None /\ RiskScore(order, context) >= 50
      /\ tests[6].lane = "fraud_triage"
  BY DEF Tests
<1>5. /\ tests[7].lane = "order_not_picked" /\ tests[7].holds = IsOrderNotPicked(order, context)
      /\ tests[8].lane = "inventory_conflict" /\ tests[8].holds = OutOfStock(context)
      /\ tests[9].lane = "stuck_in_transit" /\ tests[9].holds = IsStuckInTransit(context)
  BY DEF Tests
<1>6. tests[10].lane = "wismo" /\ tests[11].lane = "wismo" /\ tests[12].lane = "fraud_triage"
  BY DEF Tests
<1> QED
  <2>1. \A i \in 1 .. 5 : i \in {1, 2, 3, 4, 5}
    OBVIOUS
  <2>2. \A i \in 10 .. 12 : i \in {10, 11, 12}
    OBVIOUS
  <2> QED
    BY <1>2, <1>3, <1>4, <1>5, <1>6, <2>1, <2>2

(* A score of 50 is a fraud case; the other signals' lanes are theirs.     *)
LEMMA SignalsGiveLane ==
  ASSUME NEW order, NEW context,
         Field(context, "exception_type") = None,
         RequestType(context) = None,
         ~Truth(Nested(context, "delivery", "reported_missing")),
         ~Truth(Nested(context, "delivery", "reported_damaged")),
         NEW lane, lane = ClassifyOrderException(order, context)
  PROVE  /\ RiskScore(order, context) # None /\ RiskScore(order, context) >= 50
              => lane = "fraud_triage"
         /\ lane = "order_not_picked" => IsOrderNotPicked(order, context)
         /\ lane = "inventory_conflict" => OutOfStock(context)
         /\ lane = "stuck_in_transit" => IsStuckInTransit(context)
<1>1. PICK tests : tests = Tests(order, context)
  OBVIOUS
<1>2. PICK first \in 1 .. 12 :
        /\ lane = tests[first].lane /\ tests[first].holds
        /\ \A j \in 1 .. 12 : tests[j].holds => first <= j
  <2>1. Field(context, "exception_type") \notin Lanes
    BY IntakeAssumption
  <2> QED
    BY <1>1, <2>1, FirstTestDecides
<1>3. /\ \A i \in 1 .. 5 : ~tests[i].holds
      /\ tests[6].holds <=> RiskScore(order, context) # None /\ RiskScore(order, context) >= 50
      /\ tests[6].lane = "fraud_triage"
      /\ tests[7].lane = "order_not_picked" /\ tests[7].holds = IsOrderNotPicked(order, context)
      /\ tests[8].lane = "inventory_conflict" /\ tests[8].holds = OutOfStock(context)
      /\ tests[9].lane = "stuck_in_transit" /\ tests[9].holds = IsStuckInTransit(context)
      /\ \A i \in 10 .. 12 : tests[i].lane \in {"wismo", "fraud_triage"}
  BY <1>1, TestsAre
<1>4. first \notin 1 .. 5
  BY <1>2, <1>3
<1>5. first = 6 \/ first = 7 \/ first = 8 \/ first = 9 \/ first \in 10 .. 12
  BY <1>2, <1>4
<1>6. tests[6].holds => first = 6
  BY <1>2, <1>5
<1> QED
  BY <1>2, <1>3, <1>5, <1>6

-------------------------------------------------------------------------------
(* The FOPs of a fraud case. *)

HighScore ==
  Fop("fop_fraud_score_cancel", "fraud_triage", {Condition("risk", "score", "greater_than", 80)},
      {}, {}, {"cancel_order", "refund_payment"})

GrayZone ==
  Fop("fop_fraud_gray_zone_hold", "fraud_triage",
      {Condition("risk", "score", "greater_than_or_equal", 50),
       Condition("risk", "score", "less_than_or_equal", 80)}, {}, {"fraud_review"}, {})

(* What an FOP consists of. *)
LEMMA FopIs ==
  ASSUME NEW id, NEW scope, NEW all, NEW any, NEW approvals, NEW actions, NEW fop,
         fop = Fop(id, scope, all, any, approvals, actions)
  PROVE  /\ fop.id = id /\ fop.scope = scope /\ fop.all = all /\ fop.any = any
         /\ fop.approvals = approvals /\ fop.actions = actions
BY DEF Fop

(* No other FOP on file is about fraud.                                    *)
LEMMA FraudFops ==
  /\ HighScore \in DemoMerchantFops /\ GrayZone \in DemoMerchantFops
  /\ HighScore.scope = "fraud_triage" /\ GrayZone.scope = "fraud_triage"
  /\ \A fop \in DemoMerchantFops : fop.scope = "fraud_triage" => fop \in {HighScore, GrayZone}
<1>1. HighScore \in DemoMerchantFops /\ GrayZone \in DemoMerchantFops
  BY DEF HighScore, GrayZone, DemoMerchantFops
<1>2. HighScore.scope = "fraud_triage" /\ GrayZone.scope = "fraud_triage"
  BY FopIs DEF HighScore, GrayZone
<1>3. \A id, scope, all, any, approvals, actions :
        Fop(id, scope, all, any, approvals, actions).scope = scope
  BY FopIs
<1>4. \A fop \in DemoMerchantFops : fop.scope = "fraud_triage" => fop \in {HighScore, GrayZone}
  BY <1>3 DEF DemoMerchantFops, HighScore, GrayZone
<1> QED
  BY <1>1, <1>2, <1>4

\* The score as the FOPs read it.
FopScore(order, context) == Read(FieldValue("risk", "score", order, context))

(* When they match. *)
LEMMA FraudFopsMatch ==
  ASSUME NEW order, NEW context, Numeric(FopScore(order, context))
  PROVE  /\ MatchesConditions(HighScore, order, context)
              <=> FopScore(order, context) # None /\ FopScore(order, context) > 80
         /\ MatchesConditions(GrayZone, order, context)
              <=> /\ FopScore(order, context) # None
                  /\ FopScore(order, context) >= 50 /\ FopScore(order, context) <= 80
<1>1. \A value : /\ MatchesCondition(Condition("risk", "score", "greater_than", value), order, context)
                      <=> FopScore(order, context) # None /\ FopScore(order, context) > value
                 /\ MatchesCondition(Condition("risk", "score", "greater_than_or_equal", value),
                                     order, context)
                      <=> FopScore(order, context) # None /\ FopScore(order, context) >= value
                 /\ MatchesCondition(Condition("risk", "score", "less_than_or_equal", value),
                                     order, context)
                      <=> FopScore(order, context) # None /\ FopScore(order, context) <= value
  BY DEF MatchesCondition, Condition, FopScore
<1>2. /\ HighScore.all = {Condition("risk", "score", "greater_than", 80)} /\ HighScore.any = {}
      /\ GrayZone.all = {Condition("risk", "score", "greater_than_or_equal", 50),
                         Condition("risk", "score", "less_than_or_equal", 80)}
      /\ GrayZone.any = {}
  BY FopIs DEF HighScore, GrayZone
<1> QED
  BY <1>1, <1>2 DEF MatchesConditions

(* What they ask for and do, for a merchant who has them and for one who   *)
(* has none.                                                               *)
LEMMA FraudIsEvaluated ==
  ASSUME NEW merchant, NEW order, NEW context, Numeric(FopScore(order, context)),
         NEW fop, fop = EvaluateFops(LoadFopsForMerchant(merchant), "fraud_triage", order, context)
  PROVE  LET known == LoadFopsForMerchant(merchant) # {} /\ FopScore(order, context) # None
         IN /\ fop.requiredApprovals # {}
                 <=> known /\ FopScore(order, context) >= 50 /\ FopScore(order, context) <= 80
            /\ {"cancel_order", "refund_payment"} \subseteq fop.autoActions
                 <=> known /\ FopScore(order, context) > 80
<1> DEFINE fops == LoadFopsForMerchant(merchant)
           matched == {p \in fops : p.scope = "fraud_triage" /\ MatchesConditions(p, order, context)}
<1>1. /\ fop.requiredApprovals = UNION {p.approvals : p \in matched}
      /\ fop.autoActions = UNION {p.actions : p \in matched}
  BY DEF EvaluateFops
<1>2. /\ HighScore.approvals = {} /\ HighScore.actions = {"cancel_order", "refund_payment"}
      /\ GrayZone.approvals = {"fraud_review"} /\ GrayZone.actions = {}
  BY FopIs DEF HighScore, GrayZone
<1>3. CASE fops = {}
  <2>1. matched = {}
    BY <1>3
  <2> QED
    BY <1>1, <1>3, <2>1
<1>4. CASE fops # {}
  <2>1. fops = DemoMerchantFops
    BY <1>4 DEF LoadFopsForMerchant
  <2>2. \A p : p \in matched <=> \/ p = HighScore /\ MatchesConditions(HighScore, order, context)
                                 \/ p = GrayZone /\ MatchesConditions(GrayZone, order, context)
    BY <2>1, FraudFops
  <2> HIDE DEF matched
  <2>3. fop.requiredApprovals # {} <=> MatchesConditions(GrayZone, order, context)
    BY <1>1, <1>2, <2>2
  <2>4. {"cancel_order", "refund_payment"} \subseteq fop.autoActions
          <=> MatchesConditions(HighScore, order, context)
    BY <1>1, <1>2, <2>2
  <2> QED
    BY <1>4, <2>3, <2>4, FraudFopsMatch
<1> QED
  BY <1>3, <1>4

(* The FOPs and the classifier read the same score, but for a risk section *)
(* without one.                                                            *)
LEMMA FopScoreIs ==
  ASSUME NEW order, NEW context
  PROVE  /\ Nested(context, "risk", "score") # None \/ "risk" \notin DOMAIN context
              => FopScore(order, context) = RiskScore(order, context)
         /\ "risk" \in DOMAIN context /\ Nested(context, "risk", "score") = None
              => FopScore(order, context) = None
<1>1. FopScore(order, context) = Read(IF "risk" \in DOMAIN context
                                      THEN Nested(context, "risk", "score")
                                      ELSE Nested(order, "risk", "score"))
  BY DEF FopScore, FieldValue
<1>2. "risk" \notin DOMAIN context => Nested(context, "risk", "score") = None
  BY DEF Nested
<1>3. Nested(context, "risk", "score") # None => "risk" \in DOMAIN context
  BY <1>2
<1> QED
  BY <1>1, <1>2, <1>3 DEF RiskScore, Or, Read

-------------------------------------------------------------------------------
(* What the subagents read. *)

(* The facts of the lanes a signal leads to. *)
LEMMA FactsAre ==
  ASSUME NEW lane, NEW order, NEW context, NEW fops,
         NEW f, f = FactsOf(lane, order, context, fops)
  PROVE  /\ f.lane = lane
         /\ f.score = Or(RiskScore(order, context), 0)
         /\ f.outOfStock = SubagentOutOfStock(context)
         /\ f.withinSla = WithinSla(order, context)
         /\ SubagentDaysSinceLastScan(context) # None => f.stale
         /\ Or(Nested(context, "shipment", "status"), Nested(context, "delivery", "status"))
              \in {"delayed", "stuck_in_transit", "no_movement"} => f.stale
         /\ f.approvals <=> EvaluateFops(fops, lane, order, context).requiredApprovals # {}
         /\ f.autoRefund <=> {"cancel_order", "refund_payment"}
                               \subseteq EvaluateFops(fops, lane, order, context).autoActions
BY DEF FactsOf

(* A section without a key that had nothing in it. *)
LEMMA WithoutKey ==
  ASSUME NEW context, NEW section \in DOMAIN context, NEW key,
         Nested(context, section, key) = None,
         NEW other,
         other = With(context, section,
                      Restrict(context[section], DOMAIN context[section] \ {key}))
  PROVE  /\ \A s, k : Nested(other, s, k) = Nested(context, s, k)
         /\ \A k : k # section => Field(other, k) = Field(context, k)
<1> DEFINE rest == Restrict(context[section], DOMAIN context[section] \ {key})
<1>1. /\ DOMAIN other = DOMAIN context
      /\ other[section] = rest
      /\ \A s \in DOMAIN context : s # section => other[s] = context[s]
  BY DEF With
<1>2. \A k : Field(rest, k) = Field(context[section], k)
  <2>1. /\ DOMAIN rest = DOMAIN context[section] \ {key}
        /\ \A k \in DOMAIN rest : rest[k] = context[section][k]
    BY DEF Restrict
  <2>2. Field(context[section], key) = None
    BY DEF Nested
  <2> HIDE DEF rest
  <2> QED
    BY <2>1, <2>2 DEF Field
<1> HIDE DEF rest
<1>3. \A k : k # section => Field(other, k) = Field(context, k)
  BY <1>1 DEF Field
<1>4. ASSUME NEW s, NEW k PROVE Nested(other, s, k) = Nested(context, s, k)
  BY <1>1, <1>2 DEF Nested
<1> QED
  BY <1>3, <1>4

(* The subagent's age of an order is the classifier's, unless the          *)
(* fulfillment says when it was created.                                   *)
LEMMA SameAge ==
  ASSUME NEW order, NEW context, Nested(context, "fulfillment", "created_at") = None
  PROVE  SubagentAgeHours(order, context) = AgeHours(order, context)
<1>1. CASE "fulfillment" \notin DOMAIN context
  BY <1>1 DEF SubagentAgeHours
<1>2. CASE "fulfillment" \in DOMAIN context
  <2>1. PICK other :
          other = With(context, "fulfillment",
                       Restrict(context["fulfillment"],
                                DOMAIN context["fulfillment"] \ {"created_at"}))
    OBVIOUS
  <2>2. /\ \A s, k : Nested(other, s, k) = Nested(context, s, k)
        /\ \A k : k # "fulfillment" => Field(other, k) = Field(context, k)
    BY <1>2, <2>1, WithoutKey
  <2>3. SubagentAgeHours(order, context) = AgeHours(order, other)
    BY <1>2, <2>1 DEF SubagentAgeHours
  <2> QED
    BY <2>2, <2>3 DEF AgeHours
<1> QED
  BY <1>1, <1>2

(* So are the days since the last scan. *)
LEMMA SameDays ==
  ASSUME NEW context, Nested(context, "delivery", "days_since_last_scan") = None
  PROVE  SubagentDaysSinceLastScan(context) = DaysSinceLastScan(context)
<1>1. CASE "delivery" \notin DOMAIN context
  BY <1>1 DEF SubagentDaysSinceLastScan
<1>2. CASE "delivery" \in DOMAIN context
  <2>1. PICK other :
          other = With(context, "delivery",
                       Restrict(context["delivery"],
                                DOMAIN context["delivery"] \ {"days_since_last_scan"}))
    OBVIOUS
  <2>2. /\ \A s, k : Nested(other, s, k) = Nested(context, s, k)
        /\ \A k : k # "delivery" => Field(other, k) = Field(context, k)
    BY <1>2, <2>1, WithoutKey
  <2>3. SubagentDaysSinceLastScan(context) = DaysSinceLastScan(other)
    BY <1>2, <2>1 DEF SubagentDaysSinceLastScan
  <2> QED
    BY <2>2, <2>3 DEF DaysSinceLastScan
<1> QED
  BY <1>1, <1>2

(* An age is a number, if there is one. *)
LEMMA AgeIsNumeric ==
  ASSUME NEW in \in Inputs
  PROVE  Numeric(AgeHours(in.order, in.context))
<1>1. \A a, b : Readable(a) /\ Readable(b) => Readable(Or(a, b))
  BY DEF Readable, Or
<1>2. \A a : Readable(a) => Numeric(Read(a))
  BY DEF Readable, Numeric, Read
<1>3. \A a, b : Numeric(a) /\ b \in Int => Or(a, b) \in Int /\ Numeric(Elapsed(a, b))
  BY DEF Numeric, Or, Elapsed
<1>4. \A a, b : Numeric(a) /\ Numeric(b) => Numeric(Or(a, b))
  BY DEF Numeric, Or
<1> DEFINE fulfillment(key) == Nested(in.context, "fulfillment", key)
           createdAt == Or(Field(in.order, "created_at"),
                           Or(fulfillment("created_at"), fulfillment("queued_at")))
           referenceAt == Or(fulfillment("reference_at"),
                             Or(fulfillment("updated_at"), Field(in.context, "reference_at")))
<1>5. /\ Readable(Field(in.order, "created_at")) /\ Readable(Field(in.context, "reference_at"))
      /\ Readable(fulfillment("age_hours")) /\ Readable(fulfillment("created_at"))
      /\ Readable(fulfillment("queued_at")) /\ Readable(fulfillment("reference_at"))
      /\ Readable(fulfillment("updated_at"))
  BY InputsAssumption
<1> HIDE DEF fulfillment
<1>6. Readable(createdAt) /\ Readable(referenceAt)
  BY <1>1, <1>5
<1>7. AgeHours(in.order, in.context) =
        Or(Read(fulfillment("age_hours")), Elapsed(Read(createdAt), Or(Read(referenceAt), Now)))
  BY DEF AgeHours, fulfillment
<1> HIDE DEF createdAt, referenceAt
<1>8. Now \in Int
  BY IntakeAssumption
<1>9. Numeric(Elapsed(Read(createdAt), Or(Read(referenceAt), Now)))
  BY <1>2, <1>3, <1>6, <1>8
<1> QED
  BY <1>2, <1>4, <1>5, <1>7, <1>9

(* A breach that both take for one, and an SLA that both read alike.       *)
LEMMA AlikeSla ==
  ASSUME NEW context, ReadAlike(context),
         NEW breached, breached = Nested(context, "fulfillment", "pick_sla_breached"),
         NEW sla, sla = Nested(context, "fulfillment", "sla_hours")
  PROVE  /\ Truth(breached) => Bool(breached)
         /\ sla # 0 /\ sla # Word
         /\ OrNumber(Read(sla), 24) = Or(sla, 24)
<1>1. breached \in BOOLEAN \cup {None, Yes} /\ sla \notin {0, Word}
  BY DEF ReadAlike
<1>2. Truth(breached) => Bool(breached)
  BY <1>1 DEF Truth, Bool
<1> QED
  BY <1>1, <1>2 DEF OrNumber, Or, Read

(* An order the classifier finds not picked is not within the SLA for the  *)
(* subagent, if both read the same age, breach and SLA.                    *)
LEMMA NotPickedIsLate ==
  ASSUME NEW in \in Inputs, NEW order, NEW context, order = in.order, context = in.context,
         IsOrderNotPicked(order, context), ReadAlike(context)
  PROVE  ~WithinSla(order, context)
<1>1. PICK age, sla, breached, limit :
        /\ age = AgeHours(order, context) /\ sla = Nested(context, "fulfillment", "sla_hours")
        /\ breached = Nested(context, "fulfillment", "pick_sla_breached")
        /\ limit = Or(sla, 24)
  OBVIOUS
<1>2. Numeric(age) /\ Readable(sla)
  BY <1>1, AgeIsNumeric, InputsAssumption
<1>3. /\ Truth(breached) => Bool(breached)
      /\ sla # 0 /\ sla # Word /\ OrNumber(Read(sla), 24) = limit
  BY <1>1, AlikeSla
<1>4. limit \in Int
  BY <1>1, <1>2, <1>3 DEF Or, Readable
<1>5. WithinSla(order, context) => age # None /\ age < limit /\ ~Bool(breached)
  <2>1. SubagentAgeHours(order, context) = age
    BY <1>1, SameAge DEF ReadAlike
  <2> QED
    BY <1>1, <1>3, <2>1 DEF WithinSla
<1>6. \/ Truth(breached)
      \/ age = None
      \/ Read(limit) = None
      \/ age # None /\ Read(limit) # None /\ age >= Read(limit)
  BY <1>1 DEF IsOrderNotPicked
<1>7. Read(limit) = limit /\ limit # None
  BY <1>1, <1>3, <1>4, IntakeAssumption DEF Read
<1>8. ASSUME age # None, age < limit, age >= limit PROVE FALSE
  <2>1. age \in Int
    BY <1>2, <1>8 DEF Numeric
  <2> QED
    BY <1>4, <1>8, <2>1
<1> QED
  BY <1>3, <1>5, <1>6, <1>7, <1>8

(* Lines the classifier finds out of stock are so for the subagent.        *)
LEMMA ConflictIsFound ==
  ASSUME NEW context, OutOfStock(context), ReadAlike(context)
  PROVE  SubagentOutOfStock(context)
<1>1. PICK lines : lines = Nested(context, "inventory", "out_of_stock_lines")
  OBVIOUS
<1>2. \/ lines = None \/ lines = Objects(lines)
      \/ Truth(Nested(context, "inventory", "has_out_of_stock_line"))
  BY <1>1 DEF ReadAlike
<1>3. \/ Truth(Nested(context, "inventory", "has_out_of_stock_line"))
      \/ lines # None /\ lines # <<>>
  BY <1>1 DEF OutOfStock
<1> QED
  BY <1>1, <1>2, <1>3 DEF SubagentOutOfStock

(* A parcel the classifier finds stuck is stale for the subagent. *)
LEMMA StuckIsStale ==
  ASSUME NEW order, NEW context, IsStuckInTransit(context),
         Nested(context, "delivery", "days_since_last_scan") = None,
         NEW lane, NEW fops, NEW f, f = FactsOf(lane, order, context, fops)
  PROVE  f.stale
<1>1. SubagentDaysSinceLastScan(context) # None
        \/ Or(Nested(context, "shipment", "status"), Nested(context, "delivery", "status"))
             \in {"delayed", "stuck_in_transit", "no_movement"}
  BY SameDays DEF IsStuckInTransit
<1> QED
  BY <1>1, FactsAre

-------------------------------------------------------------------------------
(* What is planned then. *)

(* The note at the end of a plan is a write.                               *)
LEMMA NotedPlansWrite ==
  ASSUME NEW s, NEW I, NEW T, PlannedFrom(s, I, T), NEW intent
  PROVE  Writes(s \o OrderNote(intent))
<1> DEFINE note == PlannedCall("shopify_update_order_note", intent)
<1>1. note.write = TRUE
  BY DEF PlannedCall, WriteTools
<1>2. PICK C : s \in Seq(C)
  BY DEF PlannedFrom
<1> HIDE DEF note
<1>3. /\ Len(s) + 1 \in DOMAIN (s \o <<note>>)
      /\ (s \o <<note>>)[Len(s) + 1] = note
  BY <1>2
<1> QED
  BY <1>1, <1>3 DEF Writes, OrderNote, note

(* The subagents that plan nothing or something that ends with a note. *)
LEMMA SignalPlansWrite ==
  ASSUME NEW f
  PROVE  /\ f.outOfStock => Writes(InventoryConflict(f))
         /\ ~f.withinSla => Writes(OrderNotPicked(f))
         /\ f.stale => Writes(StuckInTransit(f))
<1> USE Tools
<1>1. ASSUME f.outOfStock PROVE Writes(InventoryConflict(f))
  <2>1. PICK s : s = Hold("hold_inventory_conflict_order")
                       \o ThreePlHold(f, "sync_inventory_hold_to_3pl")
                       \o DraftReply(f, "draft_inventory_conflict_message")
    OBVIOUS
  <2>2. \E I : PlannedFrom(s, I, Harmless)
    BY <2>1, CommonParts, ThreePlParts, ThreeParts
  <2>3. InventoryConflict(f) = s \o OrderNote("annotate_inventory_conflict")
    BY <1>1, <2>1 DEF InventoryConflict
  <2> QED
    BY <2>2, <2>3, NotedPlansWrite
<1>2. ASSUME ~f.withinSla PROVE Writes(OrderNotPicked(f))
  <2>1. PICK s : s = ThreePlOrder(f, "fetch_stuck_pick_details")
                       \o DraftReply(f, "draft_stuck_pick_update")
    OBVIOUS
  <2>2. \E I : PlannedFrom(s, I, Harmless)
    BY <2>1, CommonParts, ThreePlParts, TwoParts
  <2>3. OrderNotPicked(f) = s \o OrderNote("annotate_order_not_picked")
    BY <1>2, <2>1 DEF OrderNotPicked
  <2> QED
    BY <2>2, <2>3, NotedPlansWrite
<1>3. ASSUME f.stale PROVE Writes(StuckInTransit(f))
  <2>1. PICK s : s = ThreePlShipment(f, "fetch_stuck_in_transit_details")
                       \o DraftReply(f, "draft_stuck_in_transit_reply")
    OBVIOUS
  <2>2. \E I : PlannedFrom(s, I, Harmless)
    BY <2>1, CommonParts, ThreePlParts, TwoParts
  <2>3. StuckInTransit(f) = s \o OrderNote("annotate_stuck_in_transit")
    BY <1>3, <2>1 DEF StuckInTransit
  <2> QED
    BY <2>2, <2>3, NotedPlansWrite
<1> QED
  BY <1>1, <1>2, <1>3

\* The tools of a plan.
ToolsOf(plan) == {plan[i].tool : i \in DOMAIN plan}

(* Cancelled and refunded, or held and not cancelled.                      *)
LEMMA FraudPlans ==
  ASSUME NEW f
  PROVE  /\ f.score > 80 /\ f.autoRefund
              => ToolsOf(FraudTriage(f)) = {"shopify_cancel_order", "shopify_create_refund"}
         /\ f.score >= 50 /\ ~(f.score > 80 /\ f.autoRefund)
              => /\ "shopify_hold_fulfillment_order" \in ToolsOf(FraudTriage(f))
                 /\ "shopify_cancel_order" \notin ToolsOf(FraudTriage(f))
<1>1. ASSUME f.score > 80 /\ f.autoRefund
      PROVE  ToolsOf(FraudTriage(f)) = {"shopify_cancel_order", "shopify_create_refund"}
  <2>1. PICK cancel, refund :
          /\ cancel = PlannedCall("shopify_cancel_order", "cancel_high_fraud_order")
          /\ refund = PlannedCall("shopify_create_refund", "refund_high_fraud_order")
    OBVIOUS
  <2>2. cancel.tool = "shopify_cancel_order" /\ refund.tool = "shopify_create_refund"
    BY <2>1 DEF PlannedCall
  <2>3. FraudTriage(f) = <<cancel, refund>>
    BY <1>1, <2>1 DEF FraudTriage
  <2>4. ToolsOf(<<cancel, refund>>) = {cancel.tool, refund.tool}
    BY DEF ToolsOf
  <2> QED
    BY <2>2, <2>3, <2>4
<1>2. ASSUME f.score >= 50, ~(f.score > 80 /\ f.autoRefund)
      PROVE  /\ "shopify_hold_fulfillment_order" \in ToolsOf(FraudTriage(f))
             /\ "shopify_cancel_order" \notin ToolsOf(FraudTriage(f))
  <2> DEFINE T == {"shopify_hold_fulfillment_order", "shopify_search_orders",
                   "gorgias_search_customer", "shopify_update_order_note"}
             hold == Hold("hold_medium_fraud_review")
             orders == CustomerHistory(f, "fetch_customer_order_history_for_fraud")
             tickets == SupportHistory(f, "fetch_customer_support_history_for_fraud")
             note == OrderNote("annotate_medium_fraud_review")
  <2>1. /\ Part(hold, "hold_medium_fraud_review", T)
        /\ Part(orders, "fetch_customer_order_history_for_fraud", T)
        /\ Part(tickets, "fetch_customer_support_history_for_fraud", T)
        /\ Part(note, "annotate_medium_fraud_review", T)
    BY OneCall, NoCall DEF Hold, CustomerHistory, SupportHistory, OrderNote, When
  <2>2. FraudTriage(f) = hold \o orders \o tickets \o note
    BY <1>2 DEF FraudTriage
  <2>3. hold = <<PlannedCall("shopify_hold_fulfillment_order", "hold_medium_fraud_review")>>
    BY DEF Hold
  <2> HIDE DEF hold, orders, tickets, note
  <2>4. PICK plan : plan = hold \o orders \o tickets \o note
    OBVIOUS
  <2>5. \E I : PlannedFrom(plan, I, T)
    BY <2>1, <2>4, FourParts
  <2>6. \A i \in DOMAIN plan : plan[i].tool \in T
    BY <2>5, Elements
  <2>7. 1 \in DOMAIN plan /\ plan[1].tool = "shopify_hold_fulfillment_order"
    <3>1. PICK C : hold \in Seq(C) /\ orders \in Seq(C) /\ tickets \in Seq(C) /\ note \in Seq(C)
      <4> DEFINE I == {"hold_medium_fraud_review", "fetch_customer_order_history_for_fraud",
                       "fetch_customer_support_history_for_fraud", "annotate_medium_fraud_review"}
      <4>1. /\ PlannedFrom(hold, I, T) /\ PlannedFrom(orders, I, T)
            /\ PlannedFrom(tickets, I, T) /\ PlannedFrom(note, I, T)
        BY <2>1, Wider DEF Part
      <4> QED
        BY <4>1 DEF PlannedFrom
    <3>2. 1 \in DOMAIN hold /\ hold[1].tool = "shopify_hold_fulfillment_order"
      BY <2>3 DEF PlannedCall
    <3>3. hold \o orders \in Seq(C) /\ hold \o orders \o tickets \in Seq(C)
      BY <3>1
    <3>4. 1 \in DOMAIN (hold \o orders) /\ (hold \o orders)[1] = hold[1]
      BY <3>1, <3>2, Concatenation
    <3>5. 1 \in DOMAIN (hold \o orders \o tickets) /\ (hold \o orders \o tickets)[1] = hold[1]
      BY <3>1, <3>3, <3>4, Concatenation
    <3>6. 1 \in DOMAIN (hold \o orders \o tickets \o note)
            /\ (hold \o orders \o tickets \o note)[1] = hold[1]
      BY <3>1, <3>3, <3>5, Concatenation
    <3> QED
      BY <2>4, <3>2, <3>6
  <2> QED
    BY <2>2, <2>4, <2>6, <2>7 DEF ToolsOf
<1> QED
  BY <1>1, <1>2

-------------------------------------------------------------------------------
(* The whole way of a signal: classified, routed, evaluated, planned. *)

\* A case with an input has the facts the operators of the intake read in it.
InputGivesFacts == input # None => input \in Inputs /\ facts = FactsOfInput(input)

(* No node changes either. *)
LEMMA InputIsKept == Spec => []InputGivesFacts
<1>1. Init => InputGivesFacts
  BY DEF Init, InputGivesFacts
<1>2. InputGivesFacts /\ [Next]_graphVars => InputGivesFacts'
  <2> SUFFICES ASSUME InputGivesFacts, [Next]_graphVars PROVE InputGivesFacts'
    OBVIOUS
  <2>1. UNCHANGED <<input, facts>>
    BY DEF Next, graphVars, Classify, Initialize, Supervisor, Subagent, Passes, ApprovalGate,
       Resume, Finalize, NothingToResume, CreateRun
  <2> QED
    BY <2>1 DEF InputGivesFacts, FactsOfInput
<1> QED
  BY <1>1, <1>2, PTL DEF Spec

(* A score of 50 or more. *)
LEMMA FraudIsActedOn ==
  ASSUME NEW in \in Inputs, NEW order, NEW context, order = in.order, context = in.context,
         RiskScore(order, context) # None, RiskScore(order, context) >= 50,
         NEW f, f = FactsOf("fraud_triage", order, context, LoadFopsForMerchant(in.merchant))
  PROVE  LET fops == /\ LoadFopsForMerchant(in.merchant) # {}
                     /\ "risk" \in DOMAIN context => Nested(context, "risk", "score") # None
             score == RiskScore(order, context)
         IN /\ f.approvals <=> fops /\ score <= 80
            /\ IF fops /\ score > 80
               THEN ToolsOf(FraudTriage(f)) = {"shopify_cancel_order", "shopify_create_refund"}
               ELSE /\ "shopify_hold_fulfillment_order" \in ToolsOf(FraudTriage(f))
                    /\ "shopify_cancel_order" \notin ToolsOf(FraudTriage(f))
<1>1. PICK score, read :
        score = RiskScore(order, context) /\ read = FopScore(order, context)
  OBVIOUS
<1>2. score \in Int
  BY <1>1, InputsAssumption DEF RiskScore, Or, Read, Readable
<1>3. PICK hasFops \in BOOLEAN : hasFops <=> LoadFopsForMerchant(in.merchant) # {}
  OBVIOUS
<1>4. PICK hasScore \in BOOLEAN :
        hasScore <=> ("risk" \in DOMAIN context => Nested(context, "risk", "score") # None)
  OBVIOUS
<1>5. IF hasScore THEN read = score ELSE read = None
  BY <1>1, <1>4, FopScoreIs
<1>6. Numeric(read)
  BY <1>2, <1>5 DEF Numeric
<1>7. /\ f.approvals <=> hasFops /\ read # None /\ read >= 50 /\ read <= 80
      /\ f.autoRefund <=> hasFops /\ read # None /\ read > 80
  <2>1. PICK fop :
          fop = EvaluateFops(LoadFopsForMerchant(in.merchant), "fraud_triage", order, context)
    OBVIOUS
  <2>2. /\ f.approvals <=> fop.requiredApprovals # {}
        /\ f.autoRefund <=> {"cancel_order", "refund_payment"} \subseteq fop.autoActions
    BY <2>1, FactsAre
  <2>3. /\ fop.requiredApprovals # {} <=> hasFops /\ read # None /\ read >= 50 /\ read <= 80
        /\ {"cancel_order", "refund_payment"} \subseteq fop.autoActions
             <=> hasFops /\ read # None /\ read > 80
    BY <1>1, <1>3, <1>6, <2>1, FraudIsEvaluated
  <2> QED
    BY <2>2, <2>3
<1>8. f.score = score
  <2>1. f.score = Or(RiskScore(order, context), 0)
    BY FactsAre
  <2> QED
    BY <1>1, <2>1 DEF Or
<1>9. score >= 50 /\ score # None
  BY <1>1
<1>10. f.approvals <=> hasFops /\ hasScore /\ score <= 80
  BY <1>2, <1>5, <1>7, <1>9
<1>11. f.autoRefund <=> hasFops /\ hasScore /\ score > 80
  BY <1>2, <1>5, <1>7, <1>9
<1>12. IF hasFops /\ hasScore /\ score > 80
       THEN ToolsOf(FraudTriage(f)) = {"shopify_cancel_order", "shopify_create_refund"}
       ELSE /\ "shopify_hold_fulfillment_order" \in ToolsOf(FraudTriage(f))
            /\ "shopify_cancel_order" \notin ToolsOf(FraudTriage(f))
  BY <1>8, <1>9, <1>11, FraudPlans
<1> QED
  BY <1>1, <1>3, <1>4, <1>10, <1>12

(* Any other signal the classifier goes by, if the subagent reads it alike. *)
LEMMA OthersAreActedOn ==
  ASSUME NEW in \in Inputs, NEW order, NEW context, order = in.order, context = in.context,
         NEW lane, lane \in {"order_not_picked", "inventory_conflict", "stuck_in_transit"},
         lane = "order_not_picked" => IsOrderNotPicked(order, context),
         lane = "inventory_conflict" => OutOfStock(context),
         lane = "stuck_in_transit" => IsStuckInTransit(context),
         ReadAlike(context),
         NEW fops, NEW f, f = FactsOf(lane, order, context, fops)
  PROVE  Writes(Plan(f, lane))
<1>1. CASE lane = "order_not_picked"
  <2>1. ~f.withinSla
    BY <1>1, NotPickedIsLate, FactsAre
  <2>2. Plan(f, "order_not_picked") = OrderNotPicked(f)
    BY DEF Plan
  <2> QED
    BY <1>1, <2>1, <2>2, SignalPlansWrite
<1>2. CASE lane = "inventory_conflict"
  <2>1. f.outOfStock
    BY <1>2, ConflictIsFound, FactsAre
  <2>2. Plan(f, "inventory_conflict") = InventoryConflict(f)
    BY DEF Plan
  <2> QED
    BY <1>2, <2>1, <2>2, SignalPlansWrite
<1>3. CASE lane = "stuck_in_transit"
  <2>1. f.stale
    BY <1>3, StuckIsStale DEF ReadAlike
  <2>2. Plan(f, "stuck_in_transit") = StuckInTransit(f)
    BY DEF Plan
  <2> QED
    BY <1>3, <2>1, <2>2, SignalPlansWrite
<1> QED
  BY <1>1, <1>2, <1>3

(* Both, at every node behind the subagent. *)
LEMMA SignalsAreActedOn ==
  ASSUME GraphInv, InputGivesFacts
  PROVE  ClassifiedSignalsAreActedOn
<1> SUFFICES ASSUME JudgedBySignals PROVE ClassifiedSignalsAreActedOn
  BY DEF ClassifiedSignalsAreActedOn
<1>1. /\ input \in Inputs /\ facts = FactsOfInput(input) /\ node \notin Early
      /\ Field(input.context, "exception_type") = None
      /\ RequestType(input.context) = None
      /\ ~Truth(Nested(input.context, "delivery", "reported_missing"))
      /\ ~Truth(Nested(input.context, "delivery", "reported_damaged"))
  BY DEF JudgedBySignals, InputGivesFacts, Early
<1>2. PICK in, order, context, lane, fops :
        /\ in \in Inputs /\ in = input /\ order = in.order /\ context = in.context
        /\ lane = ClassifyOrderException(order, context)
        /\ fops = LoadFopsForMerchant(in.merchant)
  BY <1>1
<1>3. ClassifyCase(in.supplied, order, context, in.answer) = lane
  BY <1>2 DEF JudgedBySignals, ClassifyCase, RefineSupervisorRoute
<1>4. facts = FactsOf(lane, order, context, fops)
  BY <1>1, <1>2, <1>3 DEF FactsOfInput
<1>5. /\ values.route = lane /\ values.approvals = facts.approvals
      /\ values.proposal.plan = Plan(facts, lane)
  <2>1. facts.lane = lane
    BY <1>4, FactsAre
  <2> QED
    BY <1>1, <2>1 DEF GraphInv, ChannelsFollowNode, Proposed, WithProposal, Early
<1>6. PICK f : f = facts
  OBVIOUS
<1>7. PlannedTools = ToolsOf(Plan(f, lane))
  BY <1>5, <1>6 DEF PlannedTools, ToolsOf
<1>8. /\ RiskScore(order, context) # None /\ RiskScore(order, context) >= 50
            => lane = "fraud_triage"
      /\ lane = "order_not_picked" => IsOrderNotPicked(order, context)
      /\ lane = "inventory_conflict" => OutOfStock(context)
      /\ lane = "stuck_in_transit" => IsStuckInTransit(context)
  BY <1>1, <1>2, SignalsGiveLane
<1>9. CASE RiskScore(order, context) # None /\ RiskScore(order, context) >= 50
  <2>1. lane = "fraud_triage" /\ Plan(f, lane) = FraudTriage(f)
    BY <1>8, <1>9 DEF Plan
  <2>2. LET hasFops == /\ fops # {}
                       /\ "risk" \in DOMAIN context => Nested(context, "risk", "score") # None
            score == RiskScore(order, context)
        IN /\ f.approvals <=> hasFops /\ score <= 80
           /\ IF hasFops /\ score > 80
              THEN ToolsOf(FraudTriage(f)) = {"shopify_cancel_order", "shopify_create_refund"}
              ELSE /\ "shopify_hold_fulfillment_order" \in ToolsOf(FraudTriage(f))
                   /\ "shopify_cancel_order" \notin ToolsOf(FraudTriage(f))
    BY <1>2, <1>4, <1>6, <1>9, <2>1, FraudIsActedOn
  <2> QED
    BY <1>2, <1>5, <1>6, <1>7, <1>9, <2>1, <2>2 DEF ClassifiedSignalsAreActedOn
<1>10. CASE ~(RiskScore(order, context) # None /\ RiskScore(order, context) >= 50)
  <2>1. ASSUME lane \in {"order_not_picked", "inventory_conflict", "stuck_in_transit"},
               ReadAlike(context)
        PROVE  Writes(Plan(f, lane))
    BY <1>2, <1>4, <1>6, <1>8, <2>1, OthersAreActedOn
  <2> QED
    BY <1>2, <1>5, <1>6, <1>10, <2>1 DEF ClassifiedSignalsAreActedOn
<1> QED
  BY <1>9, <1>10

(* Whatever provider, merchant or developer started the run: a signal the  *)
(* classifier has found is acted on by the FOPs and the subagent that read *)
(* it again.                                                               *)
THEOREM SignalsAreFollowed == Spec => []ClassifiedSignalsAreActedOn
<1>1. GraphInv /\ InputGivesFacts => ClassifiedSignalsAreActedOn
  BY SignalsAreActedOn
<1> QED
  BY <1>1, GraphInvariant, InputIsKept, PTL
===============================================================================
