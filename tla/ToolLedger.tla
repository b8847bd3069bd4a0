------------------------------ MODULE ToolLedger ------------------------------
(***************************************************************************)
(* The idempotency ledger of apps/api/src/api/integrations/base.py.        *)
(*                                                                         *)
(* run_tool_with_session opens ONE database transaction per tool call and  *)
(* execute_integration_tool runs inside it: look the idempotency key up,   *)
(* insert a PENDING row, call the provider, store the outcome and one      *)
(* case event, commit.  The provider's effect is outside the transaction:  *)
(* a rollback takes the row back, never the effect.  A key stands for the  *)
(* pair (merchant_id, idempotency_key) of the unique constraint.           *)
(***************************************************************************)
EXTENDS Naturals

CONSTANTS
  Callers,    \* coroutines that may execute tools at the same time
  Keys,       \* (merchant, idempotency key) pairs
  NoKey,      \* "the request carries no idempotency_key"
  MaxAborts   \* bound: transactions that end without committing

ASSUME LedgerAssumption == NoKey \notin Keys /\ MaxAborts \in Nat

VARIABLES
  row,       \* committed tool_calls row of a key: "none", "succeeded", "failed"
  audit,     \* committed tool_call.* case events of a key
  txn,       \* stage of a caller's transaction
  txnKey,    \* key of the caller's current (or last) call
  outcome,   \* what the provider operation did in this transaction
  reply,     \* the caller's last ToolExecutionResult.status, or "raised"
  effects,   \* provider side: how often the effect of a key was applied
  lost,      \* history: applied effects whose transaction did not commit
  aborts     \* history: transactions that did not commit

db      == <<row, audit>>
session == <<txn, txnKey, outcome, reply>>
history == <<lost, aborts>>
vars    == <<db, session, effects, history>>

Outcomes == {"none", "ok", "error", "lateError"}

\* "lateError": the provider applied the effect and its answer was lost, the
\* case normalize_exception calls RETRYABLE (ReadTimeout, RemoteProtocolError).
Applied(c) == outcome[c] \in {"ok", "lateError"}

\* The callers whose transaction has inserted the PENDING row of k: they own
\* its entry in the unique index until they commit or abort.
Holders(k) == {c \in Callers : txnKey[c] = k /\ txn[c] \in {"inserted", "operated"}}

Init ==
  /\ row     = [k \in Keys |-> "none"]
  /\ audit   = [k \in Keys |-> 0]
  /\ txn     = [c \in Callers |-> "idle"]
  /\ txnKey  = [c \in Callers |-> NoKey]
  /\ outcome = [c \in Callers |-> "none"]
  /\ reply   = [c \in Callers |-> "none"]
  /\ effects = [k \in Keys |-> 0]
  /\ lost    = [k \in Keys |-> 0]
  /\ aborts  = 0

-------------------------------------------------------------------------------
(* A write without an explicit key is refused before the ledger is read. *)
RefuseWithoutKey(c) ==
  /\ txn[c] = "idle"
  /\ txnKey' = [txnKey EXCEPT ![c] = NoKey]
  /\ reply'  = [reply EXCEPT ![c] = "failed"]
  /\ UNCHANGED <<db, txn, outcome, effects, history>>

\* Mutant: a hit is answered "succeeded", whatever the row says.
LookUpReportsSuccess(c, k) ==
  /\ txn[c] = "idle"
  /\ txnKey' = [txnKey EXCEPT ![c] = k]
  /\ IF row[k] = "none"
     THEN txn' = [txn EXCEPT ![c] = "checked"] /\ reply' = [reply EXCEPT ![c] = "none"]
     ELSE reply' = [reply EXCEPT ![c] = "succeeded"] /\ UNCHANGED txn
  /\ UNCHANGED <<db, outcome, effects, history>>

(* get_tool_call: a committed row, whatever its status, answers "skipped". *)
LookUp(c, k) ==
  /\ txn[c] = "idle"
  /\ txnKey' = [txnKey EXCEPT ![c] = k]
  /\ IF row[k] = "none"
     THEN txn' = [txn EXCEPT ![c] = "checked"] /\ reply' = [reply EXCEPT ![c] = "none"]
     ELSE reply' = [reply EXCEPT ![c] = "skipped"] /\ UNCHANGED txn
  /\ UNCHANGED <<db, outcome, effects, history>>

\* Mutant: no unique constraint on (merchant_id, idempotency_key).
InsertPendingUnconstrained(c) ==
  /\ txn[c] = "checked"
  /\ txn' = [txn EXCEPT ![c] = "inserted"]
  /\ UNCHANGED <<db, txnKey, outcome, reply, effects, history>>

\* Mutant: a key that somebody else is inserting counts as done.
InsertPendingSkipsHeld(c) ==
  LET k == txnKey[c] IN
  /\ txn[c] = "checked"
  /\ IF row[k] = "none" /\ Holders(k) = {}
     THEN txn' = [txn EXCEPT ![c] = "inserted"] /\ UNCHANGED reply
     ELSE txn' = [txn EXCEPT ![c] = "idle"] /\ reply' = [reply EXCEPT ![c] = "skipped"]
  /\ UNCHANGED <<db, txnKey, outcome, effects, history>>

\* Mutant: the insert waits for the key to become free and never raises.
InsertPendingWaits(c) ==
  /\ txn[c] = "checked"
  /\ Holders(txnKey[c]) = {} /\ row[txnKey[c]] = "none"
  /\ txn' = [txn EXCEPT ![c] = "inserted"]
  /\ UNCHANGED <<db, txnKey, outcome, reply, effects, history>>

(* create_tool_call: the flush waits while another transaction holds the   *)
(* key.  If that one commits the unique constraint raises IntegrityError,  *)
(* which is outside the try block and leaves execute_integration_tool.     *)
InsertPending(c) ==
  LET k == txnKey[c] IN
  /\ txn[c] = "checked"
  /\ Holders(k) = {}
  /\ IF row[k] = "none"
     THEN txn' = [txn EXCEPT ![c] = "inserted"] /\ UNCHANGED reply
     ELSE txn' = [txn EXCEPT ![c] = "idle"] /\ reply' = [reply EXCEPT ![c] = "raised"]
  /\ UNCHANGED <<db, txnKey, outcome, effects, history>>

\* Mutant: the HTTP client repeats a request whose answer was lost.
CallProviderResending(c) ==
  /\ txn[c] = "inserted"
  /\ \E result \in Outcomes \ {"none"} :
       /\ outcome' = [outcome EXCEPT ![c] = result]
       /\ effects' = [effects EXCEPT ![txnKey[c]] =
                        @ + CASE result = "error" -> 0 [] result = "ok" -> 1 [] OTHER -> 2]
  /\ txn' = [txn EXCEPT ![c] = "operated"]
  /\ UNCHANGED <<db, txnKey, reply, history>>

(* Credential lookup and the provider operation, both inside the try. *)
CallProvider(c) ==
  /\ txn[c] = "inserted"
  /\ \E result \in Outcomes \ {"none"} :
       /\ outcome' = [outcome EXCEPT ![c] = result]
       /\ effects' = IF result = "error" THEN effects
                     ELSE [effects EXCEPT ![txnKey[c]] = @ + 1]
  /\ txn' = [txn EXCEPT ![c] = "operated"]
  /\ UNCHANGED <<db, txnKey, reply, history>>

\* Mutant: the row stores what the operation returned, not a status.
FinishWithOutcome(c) ==
  /\ txn[c] = "operated"
  /\ row'     = [row EXCEPT ![txnKey[c]] = outcome[c]]
  /\ audit'   = [audit EXCEPT ![txnKey[c]] = @ + 1]
  /\ reply'   = [reply EXCEPT ![c] = outcome[c]]
  /\ txn'     = [txn EXCEPT ![c] = "idle"]
  /\ outcome' = [outcome EXCEPT ![c] = "none"]
  /\ UNCHANGED <<txnKey, effects, history>>

\* Mutant: only an error with a lost answer is stored as "failed".
FinishOptimistically(c) ==
  LET status == IF outcome[c] = "lateError" THEN "failed" ELSE "succeeded" IN
  /\ txn[c] = "operated"
  /\ row'     = [row EXCEPT ![txnKey[c]] = status]
  /\ audit'   = [audit EXCEPT ![txnKey[c]] = @ + 1]
  /\ reply'   = [reply EXCEPT ![c] = status]
  /\ txn'     = [txn EXCEPT ![c] = "idle"]
  /\ outcome' = [outcome EXCEPT ![c] = "none"]
  /\ UNCHANGED <<txnKey, effects, history>>

(* finish_tool_call, record_case_event and the commit of the session. *)
FinishAndCommit(c) ==
  LET k      == txnKey[c]
      status == IF outcome[c] = "ok" THEN "succeeded" ELSE "failed"
  IN
  /\ txn[c] = "operated"
  /\ row'     = [row EXCEPT ![k] = status]
  /\ audit'   = [audit EXCEPT ![k] = @ + 1]
  /\ reply'   = [reply EXCEPT ![c] = status]
  /\ txn'     = [txn EXCEPT ![c] = "idle"]
  /\ outcome' = [outcome EXCEPT ![c] = "none"]
  /\ UNCHANGED <<txnKey, effects, history>>

(* The transaction ends without committing (the process dies, the task is  *)
(* cancelled, the database connection breaks): PostgreSQL rolls it back.   *)
Abort(c) ==
  /\ txn[c] # "idle"
  /\ aborts < MaxAborts
  /\ aborts'  = aborts + 1
  /\ lost'    = IF Applied(c) THEN [lost EXCEPT ![txnKey[c]] = @ + 1] ELSE lost
  /\ txn'     = [txn EXCEPT ![c] = "idle"]
  /\ outcome' = [outcome EXCEPT ![c] = "none"]
  /\ reply'   = [reply EXCEPT ![c] = "raised"]
  /\ UNCHANGED <<db, txnKey, effects>>

Progress(c) == InsertPending(c) \/ CallProvider(c) \/ FinishAndCommit(c)

CallerStep(c) ==
  \/ RefuseWithoutKey(c)
  \/ \E k \in Keys : LookUp(c, k)
  \/ Progress(c)
  \/ Abort(c)

Next == \E c \in Callers : CallerStep(c)

\* A coroutine that is not aborted runs on; nobody is obliged to call.
Fairness == \A c \in Callers : WF_vars(Progress(c))

Spec     == Init /\ [][Next]_vars
FairSpec == Spec /\ Fairness

-------------------------------------------------------------------------------
(* Types of the variables. *)
TypeOK ==
  /\ row     \in [Keys -> {"none", "succeeded", "failed"}]
  /\ audit   \in [Keys -> Nat]
  /\ txn     \in [Callers -> {"idle", "checked", "inserted", "operated"}]
  /\ txnKey  \in [Callers -> Keys \cup {NoKey}]
  /\ outcome \in [Callers -> Outcomes]
  /\ reply   \in [Callers -> {"none", "succeeded", "failed", "skipped", "raised"}]
  /\ effects \in [Keys -> Nat]
  /\ lost    \in [Keys -> Nat]
  /\ aborts  \in 0 .. MaxAborts

(* While a transaction holds a key's index entry no other one does, and no *)
(* row of that key is committed: the lookup of base.py:530 may be stale by *)
(* the time of the insert, the unique constraint is what decides.          *)
OneHolderPerKey ==
  \A c \in Callers : \A k \in Keys :
    c \in Holders(k) => Holders(k) = {c} /\ row[k] = "none"

(* The provider effects of a key are the ones lost with a rollback plus at *)
(* most one, and that one belongs to the committed row or to the running   *)
(* transaction that holds the key.                                         *)
EffectsAccounted ==
  \A k \in Keys :
    \/ effects[k] = lost[k]
    \/ /\ effects[k] = lost[k] + 1
       /\ row[k] # "none" \/ \E c \in Holders(k) : Applied(c)

(* Without a rollback of an applied effect a key's effect happens at most  *)
(* once, whatever the interleaving of callers and replays.                 *)
AtMostOnceUnlessRolledBack ==
  \A k \in Keys : lost[k] = 0 => effects[k] <= 1

(* A SUCCEEDED row was committed by the transaction whose own operation    *)
(* was applied, and each key has exactly one tool_call.* event per row.    *)
LedgerTellsTheTruth ==
  \A k \in Keys :
    /\ row[k] = "succeeded" => effects[k] = lost[k] + 1
    /\ audit[k] = (IF row[k] = "none" THEN 0 ELSE 1)

(* A caller that is told "succeeded" or "failed" for a key can rely on the *)
(* row being there with that status, also after later calls of others.     *)
RepliesAgreeWithLedger ==
  \A c \in Callers : txn[c] = "idle" /\ txnKey[c] \in Keys =>
    /\ reply[c] \in {"succeeded", "failed"} => row[txnKey[c]] = reply[c]
    /\ reply[c] = "skipped" => row[txnKey[c]] # "none"

(* phase0and1.md:130: checking tool_calls before re-executing "is what     *)
(* makes replay safe", that is, a key's effect never happens twice.        *)
EffectAtMostOnce == \A k \in Keys : effects[k] <= 1

(* A call whose transaction has begun is answered: waiting for the unique  *)
(* index of another transaction never lasts for ever.                      *)
EveryCallAnswered == \A c \in Callers : txn[c] # "idle" ~> txn[c] = "idle"

-------------------------------------------------------------------------------
\* The strengthening the proofs need: what a transaction's stage says of its
\* key and outcome, and the exact balance of effects of each key.
StageShape ==
  \A c \in Callers :
    /\ txn[c] # "idle" => txnKey[c] \in Keys
    /\ txn[c] = "operated" <=> outcome[c] # "none"

EffectsBalance ==
  \A k \in Keys :
    /\ \A c \in Holders(k) : Applied(c) => effects[k] = lost[k] + 1
    /\ row[k] = "none" /\ (\A c \in Holders(k) : ~Applied(c)) => effects[k] = lost[k]
    /\ row[k] # "none" => effects[k] \in {lost[k], lost[k] + 1}

IndInv ==
  /\ TypeOK
  /\ StageShape
  /\ OneHolderPerKey
  /\ EffectsBalance
  /\ LedgerTellsTheTruth
  /\ RepliesAgreeWithLedger

-------------------------------------------------------------------------------
(* What the ledger promises its callers: see SettledOnce. *)
Promise == INSTANCE SettledOnce

(* Every step of the ledger is a step of the promise or leaves it alone.   *)
ImplementsPromise == Promise!Spec
===============================================================================
