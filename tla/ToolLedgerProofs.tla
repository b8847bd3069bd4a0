--------------------------- MODULE ToolLedgerProofs ---------------------------
(***************************************************************************)
(* Theorems about ToolLedger for any set of callers and keys and any       *)
(* number of rollbacks.  Every invariant follows from one inductive        *)
(* invariant, IndInv; the refinement uses it to know that a transaction    *)
(* that reaches the provider or commits still has an unsettled key.        *)
(***************************************************************************)
EXTENDS ToolLedger, TLAPS

\* The inductive invariant holds initially.
LEMMA IndInvInit == Init => IndInv
<1> SUFFICES ASSUME Init PROVE IndInv
  OBVIOUS
<1> USE LedgerAssumption DEF Init
<1>1. TypeOK
  BY DEF TypeOK, Outcomes
<1>2. StageShape /\ RepliesAgreeWithLedger
  BY DEF StageShape, RepliesAgreeWithLedger
<1>3. OneHolderPerKey /\ EffectsBalance /\ LedgerTellsTheTruth
  BY DEF OneHolderPerKey, EffectsBalance, LedgerTellsTheTruth, Holders, Applied
<1>. QED
  BY <1>1, <1>2, <1>3 DEF IndInv

\* A step of one caller preserves the inductive invariant.
LEMMA CallerStepInv ==
  ASSUME IndInv, NEW c \in Callers, CallerStep(c)
  PROVE  IndInv'
<1> USE LedgerAssumption DEF IndInv, db, session, history
<1> DEFINE key == txnKey[c]
<1>1. CASE RefuseWithoutKey(c)
  <2> USE <1>1 DEF RefuseWithoutKey
  <2>1. TypeOK'
    BY DEF TypeOK
  <2>2. StageShape'
    BY DEF TypeOK, StageShape
  <2>3. \A k \in Keys : Holders(k)' = Holders(k)
    BY DEF TypeOK, Holders
  <2>4. OneHolderPerKey' /\ EffectsBalance' /\ LedgerTellsTheTruth'
    BY <2>3 DEF OneHolderPerKey, EffectsBalance, LedgerTellsTheTruth, Applied
  <2>5. RepliesAgreeWithLedger'
    BY DEF TypeOK, RepliesAgreeWithLedger
  <2>. QED BY <2>1, <2>2, <2>4, <2>5
<1>2. ASSUME NEW k \in Keys, LookUp(c, k) PROVE IndInv'
  <2> USE <1>2 DEF LookUp
  <2>1. TypeOK'
    BY DEF TypeOK
  <2>2. StageShape'
    BY DEF TypeOK, StageShape
  <2>3. \A j \in Keys : Holders(j)' = Holders(j)
    BY DEF TypeOK, Holders
  <2>4. OneHolderPerKey' /\ EffectsBalance' /\ LedgerTellsTheTruth'
    BY <2>3 DEF OneHolderPerKey, EffectsBalance, LedgerTellsTheTruth, Applied
  <2>5. RepliesAgreeWithLedger'
    BY DEF TypeOK, RepliesAgreeWithLedger
  <2>. QED BY <2>1, <2>2, <2>4, <2>5
<1>3. CASE InsertPending(c)
  <2> USE <1>3 DEF InsertPending
  <2>0. key \in Keys
    BY DEF StageShape
  <2>1. TypeOK'
    BY DEF TypeOK
  <2>2. StageShape'
    BY DEF TypeOK, StageShape
  <2>3. \A j \in Keys : Holders(j)' = IF j = key /\ row[j] = "none" THEN {c} ELSE Holders(j)
    BY <2>0 DEF TypeOK, Holders
  <2>4. OneHolderPerKey'
    BY <2>0, <2>3 DEF OneHolderPerKey
  <2>5. ~Applied(c)
    BY DEF StageShape, Applied
  <2>6. EffectsBalance'
    BY <2>0, <2>3, <2>5 DEF EffectsBalance, Applied
  <2>7. LedgerTellsTheTruth' /\ RepliesAgreeWithLedger'
    BY <2>0 DEF TypeOK, LedgerTellsTheTruth, RepliesAgreeWithLedger
  <2>. QED BY <2>1, <2>2, <2>4, <2>6, <2>7
<1>4. CASE CallProvider(c)
  <2> USE <1>4 DEF CallProvider
  <2>0. key \in Keys /\ c \in Holders(key)
    BY DEF StageShape, Holders
  <2>1. TypeOK'
    BY <2>0 DEF TypeOK, Outcomes
  <2>2. StageShape'
    BY DEF TypeOK, StageShape, Outcomes
  <2>3. \A j \in Keys : Holders(j)' = Holders(j)
    BY DEF TypeOK, Holders
  <2>4. OneHolderPerKey'
    BY <2>3 DEF OneHolderPerKey
  <2>5. row[key] = "none" /\ Holders(key) = {c} /\ effects[key] = lost[key]
    BY <2>0 DEF OneHolderPerKey, EffectsBalance, StageShape, Applied
  <2>6. EffectsBalance'
    <3> SUFFICES ASSUME NEW j \in Keys
                 PROVE  /\ \A d \in Holders(j) : Applied(d)' => effects'[j] = lost[j] + 1
                        /\ row[j] = "none" /\ (\A d \in Holders(j) : ~Applied(d)')
                             => effects'[j] = lost[j]
                        /\ row[j] # "none" => effects'[j] \in {lost[j], lost[j] + 1}
      BY <2>3 DEF EffectsBalance
    <3>1. CASE j = key
      BY <3>1, <2>0, <2>5 DEF TypeOK, Applied, Outcomes
    <3>2. CASE j # key
      <4>1. c \notin Holders(j) /\ effects'[j] = effects[j]
        BY <3>2, <2>0 DEF Holders, TypeOK
      <4>2. \A d \in Holders(j) : Applied(d)' = Applied(d)
        BY <4>1 DEF Holders, Applied, TypeOK
      <4>. QED BY <4>1, <4>2 DEF EffectsBalance
    <3>. QED BY <3>1, <3>2
  <2>7. LedgerTellsTheTruth'
    BY <2>0, <2>5 DEF TypeOK, LedgerTellsTheTruth
  <2>8. RepliesAgreeWithLedger'
    BY DEF TypeOK, RepliesAgreeWithLedger
  <2>. QED BY <2>1, <2>2, <2>4, <2>6, <2>7, <2>8
<1>5. CASE FinishAndCommit(c)
  <2> USE <1>5 DEF FinishAndCommit
  <2>0. key \in Keys /\ c \in Holders(key)
    BY DEF StageShape, Holders
  <2>1. TypeOK'
    BY <2>0 DEF TypeOK, Outcomes
  <2>2. StageShape'
    BY DEF TypeOK, StageShape
  <2>3. Holders(key) = {c} /\ row[key] = "none"
    BY <2>0 DEF OneHolderPerKey
  <2>4. \A j \in Keys : Holders(j)' = IF j = key THEN {} ELSE Holders(j)
    BY <2>0, <2>3 DEF TypeOK, Holders
  <2>5. OneHolderPerKey'
    BY <2>0, <2>4 DEF TypeOK, OneHolderPerKey
  <2>6. /\ Applied(c) => effects[key] = lost[key] + 1
        /\ ~Applied(c) => effects[key] = lost[key]
    BY <2>0, <2>3 DEF EffectsBalance
  <2>7. \A j \in Keys \ {key} : \A d \in Holders(j) : Applied(d)' = Applied(d)
    BY DEF Holders, Applied, TypeOK
  <2>8. EffectsBalance'
    BY <2>0, <2>4, <2>6, <2>7 DEF TypeOK, EffectsBalance
  <2>9. LedgerTellsTheTruth'
    BY <2>0, <2>3, <2>6 DEF TypeOK, LedgerTellsTheTruth, Applied
  <2>10. RepliesAgreeWithLedger'
    BY <2>0, <2>3 DEF TypeOK, RepliesAgreeWithLedger
  <2>. QED BY <2>1, <2>2, <2>5, <2>8, <2>9, <2>10
<1>6. CASE Abort(c)
  <2> USE <1>6 DEF Abort
  <2>0. key \in Keys
    BY DEF StageShape
  <2>1. TypeOK'
    BY <2>0 DEF TypeOK, Outcomes
  <2>2. StageShape'
    BY DEF TypeOK, StageShape
  <2>3. Applied(c) => c \in Holders(key)
    BY <2>0 DEF StageShape, Applied, Holders
  <2>4. \A j \in Keys : Holders(j)' = Holders(j) \ {c}
    BY DEF TypeOK, Holders
  <2>5. OneHolderPerKey'
    BY <2>4 DEF OneHolderPerKey
  <2>6. \A d \in Callers \ {c} : Applied(d)' = Applied(d)
    BY DEF Applied, TypeOK
  <2>7. CASE Applied(c)
    <3>1. Holders(key) = {c} /\ row[key] = "none" /\ effects[key] = lost[key] + 1
      BY <2>0, <2>3, <2>7 DEF OneHolderPerKey, EffectsBalance
    <3>2. \A j \in Keys : lost'[j] = IF j = key THEN lost[j] + 1 ELSE lost[j]
      BY <2>0, <2>7 DEF TypeOK
    <3>3. \A j \in Keys \ {key} : c \notin Holders(j)
      BY DEF Holders
    <3>4. EffectsBalance'
      BY <2>4, <2>6, <3>1, <3>2, <3>3 DEF TypeOK, EffectsBalance, Holders
    <3>5. LedgerTellsTheTruth'
      BY <3>1, <3>2 DEF LedgerTellsTheTruth
    <3>. QED BY <3>4, <3>5, <2>1, <2>2, <2>5 DEF TypeOK, RepliesAgreeWithLedger
  <2>8. CASE ~Applied(c)
    <3>1. EffectsBalance'
      BY <2>4, <2>6, <2>8 DEF TypeOK, EffectsBalance, Holders
    <3>2. LedgerTellsTheTruth'
      BY <2>8 DEF LedgerTellsTheTruth
    <3>. QED BY <3>1, <3>2, <2>1, <2>2, <2>5 DEF TypeOK, RepliesAgreeWithLedger
  <2>. QED BY <2>7, <2>8
<1>. QED
  BY <1>1, <1>2, <1>3, <1>4, <1>5, <1>6 DEF CallerStep, Progress

\* Every step, stuttering included, preserves the inductive invariant.
LEMMA IndInvStep == IndInv /\ [Next]_vars => IndInv'
<1> SUFFICES ASSUME IndInv, [Next]_vars PROVE IndInv'
  OBVIOUS
<1>1. CASE Next
  BY <1>1, CallerStepInv DEF Next
<1>2. CASE UNCHANGED vars
  BY <1>2 DEF vars, db, session, history, IndInv, TypeOK, StageShape, OneHolderPerKey,
             EffectsBalance, LedgerTellsTheTruth, RepliesAgreeWithLedger, Holders, Applied
<1>. QED
  BY <1>1, <1>2

\* The inductive invariant, from its start and its steps.
LEMMA LedgerInvariant == Spec => []IndInv
BY IndInvInit, IndInvStep, PTL DEF Spec

-------------------------------------------------------------------------------
(* The state of the ledger, of its transactions and of the history is      *)
(* always of the declared type (run_tool_with_session, the ToolCall rows). *)
THEOREM LedgerTypeCorrect == Spec => []TypeOK
<1>1. IndInv => TypeOK
  BY DEF IndInv
<1>. QED
  BY <1>1, LedgerInvariant, PTL

(* Two transactions never work on the same unsettled key at the same time, *)
(* although get_tool_call and create_tool_call are two statements.         *)
THEOREM LedgerMutualExclusion == Spec => []OneHolderPerKey
<1>1. IndInv => OneHolderPerKey
  BY DEF IndInv
<1>. QED
  BY <1>1, LedgerInvariant, PTL

(* Effects of a key are the rolled back ones and at most one more, owned   *)
(* by the committed row or by the transaction that holds the key.          *)
THEOREM LedgerAccountsForEffects == Spec => []EffectsAccounted
<1>1. IndInv => EffectsAccounted
  <2> SUFFICES ASSUME IndInv, NEW k \in Keys
               PROVE  \/ effects[k] = lost[k]
                      \/ /\ effects[k] = lost[k] + 1
                         /\ row[k] # "none" \/ \E c \in Holders(k) : Applied(c)
    BY DEF EffectsAccounted
  <2>1. CASE row[k] # "none"
    BY <2>1 DEF IndInv, EffectsBalance
  <2>2. CASE row[k] = "none" /\ \A c \in Holders(k) : ~Applied(c)
    BY <2>2 DEF IndInv, EffectsBalance
  <2>3. CASE \E c \in Holders(k) : Applied(c)
    BY <2>3 DEF IndInv, EffectsBalance
  <2>. QED
    BY <2>1, <2>2, <2>3
<1>. QED
  BY <1>1, LedgerInvariant, PTL

(* The idempotency claim, as far as it is true of this code: only a        *)
(* rollback after the provider call can make an effect happen twice.       *)
THEOREM LedgerAtMostOnce == Spec => []AtMostOnceUnlessRolledBack
<1>1. IndInv => EffectsAccounted
  BY DEF IndInv, EffectsBalance, EffectsAccounted
<1>2. TypeOK /\ EffectsAccounted => AtMostOnceUnlessRolledBack
  BY DEF TypeOK, EffectsAccounted, AtMostOnceUnlessRolledBack
<1>. QED
  BY <1>1, <1>2, LedgerInvariant, PTL DEF IndInv

(* A committed row reports what its own transaction did at the provider,   *)
(* and the audit trail has one tool_call event for each row.               *)
THEOREM LedgerIsTruthful == Spec => []LedgerTellsTheTruth
<1>1. IndInv => LedgerTellsTheTruth
  BY DEF IndInv
<1>. QED
  BY <1>1, LedgerInvariant, PTL

(* What a caller was told of a key stays true of its row: no later call,   *)
(* replay or rollback of anybody changes a settled row.                    *)
THEOREM LedgerKeepsItsWord == Spec => []RepliesAgreeWithLedger
<1>1. IndInv => RepliesAgreeWithLedger
  BY DEF IndInv
<1>. QED
  BY <1>1, LedgerInvariant, PTL

-------------------------------------------------------------------------------
\* A step of the ledger is an Apply, a Settle or a stutter of the promise.
LEMMA PromiseStep == IndInv /\ [Next]_vars => [Promise!Next]_<<row, effects>>
<1> SUFFICES ASSUME IndInv, [Next]_vars, ~UNCHANGED <<row, effects>>
             PROVE  Promise!Next
  OBVIOUS
<1> USE DEF db, session, history
<1>1. PICK c \in Callers : CallerStep(c)
  BY DEF Next, vars
<1> DEFINE key == txnKey[c]
<1>2. CallProvider(c) \/ FinishAndCommit(c)
  <2>1. ~RefuseWithoutKey(c) /\ ~InsertPending(c) /\ ~Abort(c)
    BY DEF RefuseWithoutKey, InsertPending, Abort
  <2>2. \A k \in Keys : ~LookUp(c, k)
    BY DEF LookUp
  <2>. QED BY <1>1, <2>1, <2>2 DEF CallerStep, Progress
<1>3. key \in Keys /\ c \in Holders(key) /\ row[key] = "none"
  BY <1>2 DEF CallProvider, FinishAndCommit, IndInv, StageShape, Holders, OneHolderPerKey
<1>4. CASE CallProvider(c)
  <2>1. Promise!Apply(key)
    BY <1>3, <1>4 DEF CallProvider, Promise!Apply, Promise!Open
  <2>. QED BY <1>3, <2>1 DEF Promise!Next
<1>5. CASE FinishAndCommit(c)
  <2>1. outcome[c] = "ok" => effects[key] > 0
    BY <1>3 DEF IndInv, EffectsBalance, Applied, TypeOK
  <2>2. Promise!Settle(key)
    BY <1>3, <1>5, <2>1 DEF FinishAndCommit, Promise!Settle, Promise!Open
  <2>. QED BY <1>3, <2>2 DEF Promise!Next
<1>. QED
  BY <1>2, <1>4, <1>5

(* The transactions, the waiting and the rollbacks implement the promise   *)
(* of SettledOnce: after a key has settled its effect never happens again  *)
(* and its status never changes, for any interleaving of replays.          *)
THEOREM LedgerImplementsPromise == Spec => ImplementsPromise
<1>1. Init => Promise!Init
  BY DEF Init, Promise!Init
<1>. QED
  BY <1>1, PromiseStep, LedgerInvariant, PTL DEF Spec, ImplementsPromise, Promise!Spec
===============================================================================
