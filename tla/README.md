# Verification of the order-exception agent

TLA+ modules, TLC runs and TLAPS proofs for `ecom-agent`: a service that receives
webhooks of commerce providers, opens a *case* for each order exception, lets a LangGraph
agent propose a plan of tool calls, asks a human where the plan writes, and executes the
plan at the providers.

All paths below are relative to the repository root (`src/` in `PROJECT.json`).
`PROJECT.json` lists components, runs, mutants, the definition-to-source map, findings,
hazards and theorems in machine-readable form.

* [1 The system](#1-the-system) — inventory, interactions, what is hard
* [2 The modules](#2-the-modules) — what models what, and how state and actions correspond
* [3 The runs](#3-the-runs) — questions, bounds, fairness, what they show
* [4 Findings](#4-findings) — where code and documentation disagree
* [5 Proofs](#5-proofs) — what is proved, from what, along which argument
* [6 Not modelled](#6-not-modelled) — and why
* [7 Plan](#7-plan) — order of the work, what is left

## 1 The system

### Components

| component | state it keeps | operations | correct when |
|---|---|---|---|
| **Webhook ingress** `apps/api/src/api/webhooks/routes.py`, `integrations/base.py` (`record_webhook_event`) | `webhook_events` (dedupe row per provider and event id), `cases`, `webhook_sources`; one transaction per request | verify, parse, record the event, create thread and case, trigger the run, mark processed, answer, commit | an event has one live case and run; what was acknowledged is recorded |
| **Webhook case seed** `webhooks/classifier.py` | none (pure) | lift payload fields into the case state | the seed says what the payload says |
| **Classifier** `packages/shared-schemas/.../order_exception.py` | none (pure) | payload to exception type | the first matching rule decides |
| **Order-exception graph** `apps/agents/src/agents/order_exception/graph.py` | the LangGraph checkpoint (`OrderExceptionState`): classification, proposal, interrupts, `human_decision`, `tool_calls_so_far`, `resolution` | nodes classify, initialize, supervisor, ten subagents, approval_gate, finalize | a write never becomes executable without an approval |
| **Subagent planners** `subagents.py`, `tooling.py` | none (pure given the tools) | ten lanes from facts to a plan of tool calls | plans can be executed, in an order that makes sense |
| **FOP evaluator and loader** `shared/fop_evaluator.py`, `shared/fop_loader.py`, `apps/agents/fops/*.yaml` | merchant policy files | match FOPs, merge what they ask for | the strictest matched FOP wins |
| **LLM layer** `llm_layer.py` | none | refine route, draft texts | never changes locked fields |
| **Run-completion processor** `apps/api/src/api/agents/processor.py` | `agent_run_executions`, `cases`, `case_events` | claim a run, sync the case from the thread, execute the plan, report | a run is executed by one handler; the case ends where its plan ended |
| **Dispatcher** `agents/dispatcher.py` | none (LangGraph server's threads and runs) | create thread, trigger run, resume, load state | one active run per thread |
| **Decision endpoint** `routes/cases.py` | `cases`, `case_events` | approve, reject, modify | a refusal is final |
| **Tool ledger** `integrations/base.py` | `tool_calls` (unique by merchant and idempotency key), `case_events` | look up, insert PENDING, call, finish | an effect happens at most once per key, and the row tells the truth |
| **Provider clients** `integrations/{shopify,gorgias,shipbob,shipstation,stripe}.py` | none | HTTP requests | one request per call; multi-step edits are all or nothing |
| **Integration routes and OAuth** `routes/integrations.py` | integration credentials | connect, exchange, upsert | |
| **Evaluation queues and export** `db/repositories.py`, `scripts/` | review queue, corrections | queue a review, record a correction, export | each correction is exported once |
| **Tenancy and authentication** `auth/`, `db/session.py` | the session's `app.merchant_id` | verify tokens, scope the session | no row of another merchant |
| **Credential encryption** `security/` | none | encrypt, decrypt | |
| **Console** `apps/console/` | none | user interface | |
| **Infrastructure** `infra/` | schema | migrations, row-level security | |

### Interactions

```
provider --webhook--> ingress --threads.create, runs.create--> LangGraph server
                         |                                        | runs the graph:
                         | webhook_events, cases                  | classify .. subagent .. gate .. finalize
                         v                                        v
                     PostgreSQL <--claim, sync, report-- processor <--completion callback
                         ^                                   |
   reviewer --POST /decision--> decision endpoint            +--run_tool_with_session--> ledger --> provider
                         |
                         +--runs.create(Command(resume=decision))--> LangGraph server
```

The three writers of a case — ingress, decision endpoint, processor — are coroutines of
one or more API processes. They share PostgreSQL (READ COMMITTED, no `FOR UPDATE`), the
thread's checkpoint on the LangGraph server, and the providers; none of the last two takes
part in a database transaction.

### What is hard

* **External effects inside transactions.** A tool's provider call and the LangGraph run of
  a webhook happen inside a transaction that may still be rolled back.
* **Commits after answers.** `get_async_session` commits in the exit code of a dependency,
  which FastAPI runs after the response is sent.
* **Callbacks that are late, repeated or lost,** and that read the thread's *latest* state,
  not the one their run left.
* **Lost updates.** A case row is read, changed in Python and flushed column by column.
* **Replays.** A ledger hit is answered SKIPPED whatever the row says, and SKIPPED counts as
  success in a batch.
* **Decisions in any status.** Approve after reject, twice, or after modify.

`PROJECT.json` "hazards" lists each at the line where it bites, with the properties that
would catch it, or why none does.

## 2 The modules

```
SettledOnce  <--refined by--  ToolLedger
                                ^      ^ INSTANCE
                                |      +---------------------  ShopifyOrder
                                | INSTANCE (Callers <- Handlers, Keys <- Calls)
OrderExceptionThread  <--EXTENDS--  CaseLifecycle  <--EXTENDS--  CaseRow
        ^                               |
        |         ApprovedPlan  <-------+ refines
        | refined by (INSTANCE WITH refinement mapping)
OrderExceptionGraph  --EXTENDS-->  OrderExceptionIntake  --EXTENDS-->  OrderExceptionPlans
WebhookIngress
EvalQueues
```

Each that is run has an `MC...` module with the values of its constants. `M`'s theorems are in
`MProofs`, for `ToolLedger`, `CaseLifecycle`, `CaseRow`, `WebhookIngress`, `EvalQueues`,
`OrderExceptionPlans`, `OrderExceptionGraph` and `ShopifyOrder`; `CaseLifecycleProofs` and
`ShopifyOrderProofs` use the theorems of `ToolLedgerProofs`, `CaseRowProofs` those of
`CaseLifecycleProofs`, and `OrderExceptionGraphProofs` those of `OrderExceptionPlansProofs`.

### ToolLedger — `integrations/base.py`

`run_tool_with_session` opens one transaction per call; `execute_integration_tool` runs in
it. One action per point at which somebody else can interfere:

| action | code |
|---|---|
| `RefuseWithoutKey` | a write tool without `idempotency_key` is FAILED at once |
| `LookUp` | `get_tool_call`: a committed row answers SKIPPED, whatever its status |
| `InsertPending` | `create_tool_call` and its flush: waits for the unique index, then inserts or raises `IntegrityError` |
| `CallProvider` | credentials and the operation; outcome ok, error, or *error after the effect* (`ReadTimeout`) |
| `FinishAndCommit` | `finish_tool_call`, `record_case_event`, commit |
| `Abort` | process death, cancellation, broken connection: rollback |

`row` is the committed `tool_calls.status`; a PENDING row is visible to its own transaction
only and is therefore `txn[c] = "inserted"` or `"operated"`, not a value of `row`.
`effects` is the provider's side; `lost` counts applied effects whose transaction did not
commit. `SettledOnce` is the promise without callers, transactions or waiting.

### OrderExceptionThread and CaseLifecycle — `graph.py`, `processor.py`, `routes/cases.py`

`OrderExceptionThread` is one LangGraph thread: the webhook's run up to the interrupt or the
end, and runs that resume it with a decision. Each node leaves a checkpoint, so the state
between gate and finalize (`PassGate`, `FinalizeRun`) can be read by a late callback.

`CaseLifecycle` puts the thread, the callback handlers, the reviewers and the ledger around
one case row. A handler goes

`idle` → `LoadCompletedRun` → `loaded` → `ClaimRun` → `claimed` → `CommitSync` →
`executing` ⇄ `calling` (`InvokeTool`, `ToolStep`) → `executed` → `LoadCaseForResult` →
`reporting` → `CommitResult` → `idle`

which are the three transactions of `process_callback` and the batch between the second and
the third. A reviewer goes `SubmitDecision` (the run is created first) →
`LoadCaseForDecision` → `CommitDecision`. `Flushed(loaded, new)` is what a SQLAlchemy flush
does to a column: it is written only if the new value differs from the one *loaded*.
`SyncedStatus` is the mapping from a graph state to a case status. `HandlerDies` and
`ReviewerDies` end a coroutine anywhere; a running tool transaction is rolled back.

`ApprovedPlan` is what all of this is for, with no runs, callbacks, handlers or deaths: a plan
is answered once, an approved or automatic one is executed call by call in its order, each call
settled as `SettledOnce` says, and the case shows an execution's end only of such a plan. Its
answer is the thread's decision (`Promised`); the decisions after the first answer nothing.

### CaseRow — the rest of the case row

`CaseRow` adds to `CaseLifecycle` the two columns its endpoints write beside `status`: the
JSON of `resolution` and `resolved_at`. Each of its actions is one of `CaseLifecycle`'s
together with what the same code does to these columns; none is added and no guard changes.
`Load` is `session.get(Case, ...)`, `Merge` the deep merge and flush of `_merge_case_state`
and `update_case_decision`, and `GraphPatch`, `ExecutionPatch` and `DecisionPatch` are the
patches of the three transactions. Of the JSON the model keeps what the console shows of a
case: the last decision, the graph's status, the last execution's status and run. `overlapped`
remembers that two transactions were between load and commit at one time.

### ShopifyOrder — `integrations/shopify.py`

The write tools of Shopify on one order, each as the provider's part of a `ToolLedger` call.
Tools of one mutation are `MutateOrder`. `shopify_apply_order_edit` is a session: `BeginEdit`
takes the calculated lines, `StageChange` sends one change, `CommitEdit` makes all of them part
of the order, and `FailEdit` is any request of it that is refused, unanswered or never sent.
What Shopify makes of a change (`Staged`, `StagedAll`) is external. The payload of an edit is
computed from the customer's requested changes as `subagents.py` does it (`QuantityChanges`,
`VariantAdditions`), with its truncations, defaults and silently dropped changes (`Pick` is a loop that passes over
some), and the line a change means is resolved as `_resolve_calculated_line_item_id` does it.
`Lines`, `Changes`, `Sets` and `Additions` are the types of lines, of what the customer asked for
and of the two kinds of work. What a whole edit is (`Edited`), and what an exact request asks for
(`Asked`), is said with a numbering of the additions (`Listings`), not with the loops that make them.

### EvalQueues — `routes/cases.py`, `routes/evals.py`, the export script

Corrections and reviews, the two queues of the evaluation. An exporter is a process that runs
the script: `StartExport`, `AskMerchant` per merchant (one transaction, but at READ COMMITTED each
query sees what is committed by then), `ReadExisting`, `CreateExample` per row, `MarkExported`
(one transaction), and `ExporterDies` between or inside any of them. A
review request is `SelectReview`, `InsertReview`, `AnswerPost`, and only then `CommitPost`, the exit of
`get_async_session` after the response; `PostDies` rolls it back at any of these points, after the answer
too. From its insert to the end of its transaction it holds the unique entry of its run
(`Uncommitted`, `HoldsRun`). Whether the
script's database role is subject to row-level security is chosen at the start, as the query
itself does not name the merchant.

### WebhookIngress — `webhooks/routes.py`

`stage[d]` is how far request `d` has come: `Receive`, `RecordWebhookEvent` (`ON CONFLICT DO
NOTHING`, which waits for an uncommitted row), `CreateThread`, `Trigger`, `Answer`, `Commit`,
or `Abort` before and `AbortLate` after the answer. The run exists from `Trigger` on,
whatever the database does; its `Callback` needs the committed case (foreign key) and is dropped
without it. A duplicate is acknowledged.

### OrderExceptionPlans and OrderExceptionGraph — `subagents.py`, `tooling.py`, `graph.py`

`OrderExceptionPlans` is the plan of each of the ten lanes as an operator of the *facts* of a
case (a record whose fields are listed in the module). `OrderExceptionGraph` has one action
per node. Its refinement mapping turns the channels of the graph into the thread of
`OrderExceptionThread`, so what `CaseLifecycle` assumes of a thread is checked of the graph.

### OrderExceptionIntake — from a payload to the facts

Operators only, no state: `BuildWebhookCaseSeed` (`webhooks/classifier.py`) lifts a payload
into an order and a context, `ClassifyOrderException` (`order_exception.py`) finds the lane,
`ClassifyCase` lets a model's answer replace it, `EvaluateFops` and `LoadFopsForMerchant` match
the FOPs of `demo-merchant.yaml`, and `FactsOf` is what the lane's subagent reads of the
context. `RequestsFor` is the table of words by which a context asks for a lane.

The three readers convert what they find, each in its own way, and the conversions are operators:
`Truth` is Python's `bool`, `Bool` the subagents' `_bool`, which knows booleans and the texts that
say yes, `Read` makes `None` of what is no number or date (`_number`, `_datetime`), `Objects` drops
what is no object from a list (`_json_list`). So that they can differ, a place may hold `Word`
(something that is true for Python and nothing its reader looks for), `Yes` (a text that says yes)
or `One` (the number 1 as a flag). `OutOfStock` and `IsOrderNotPicked` are the classifier's
readings, `SubagentOutOfStock` and `WithinSla` the subagents' of the same sections.

`OrderExceptionGraph` starts either from facts of all kinds or from an `input`, whose
facts these operators compute, so the signals of a case are followed through all three readers.

### Abstractions

* A case that starts from **facts** may have any lane: the LLM may replace the classifier's
  answer by any known one. There also what the **matched FOPs** ask for is a fact, as FOPs are
  merchant data. A case that starts from an **input** has both computed.
* JSON objects are functions from keys to values. The sections of a context are objects and what a
  reader compares with names is a text; a flag, number, date, list or nested object may be
  something else. Letter case, empty texts, number spelling and the `camelCase` twins of keys are left
  out; instants are in hours.
* Within a case and a proposal the facts fix each call's payload, so a call's **idempotency
  key** is its intent. In `CaseLifecycle` a call *is* its key.
* The **LangGraph server** is external: one active run per thread (`multitask_strategy
  "reject"`), a resume without a pending interrupt changes nothing, callbacks arrive after
  the run and any number of times. Runs that end in an error are left out.
* Of the **resolution** of a case the texts, tool results and FOP ids are left out; they are
  written with the parts that are kept.
* **Shopify's quantities** are in halves, the least that lets a fraction be asked for. Prices,
  stock and locations are left out: Shopify may refuse any request.
* Texts, confidences, trace notes, credentials and payload contents are left out.

## 3 The runs

Every property of a passing run has a mutant in `PROJECT.json`: an operator beside the
definition it replaces, with the change a plausible bug would make, under which TLC finds
the property violated.

| run | question | instance | size |
|---|---|---|---|
| `ledger` | Do races, lost answers and rollbacks keep the ledger honest? Does it implement `SettledOnce`? Does waiting end? | 3 callers, 2 keys, 2 rollbacks | 153 thousand states |
| `case_races` | Handlers and reviewers race on a gated plan; is a refusal final, is the case row coherent? | 2 handlers, 2 reviewers, runs 0..2, plan of one call; or a death and runs 0..1 | 1.4 million |
| `case_crash` | Duplicate callbacks, a death, a rolled back tool: is the plan still executed as `ApprovedPlan` says? | 2 handlers, 1 reviewer, runs 0..1, 2 deliveries, five plans | 579 thousand |
| `case_live` | Does every claimed run and every executing case settle? | 2 handlers, 1 reviewer, runs 0..2, plan of two calls, no deaths | 254 thousand |
| `webhook` | Redelivery, races and rollbacks; is what was acknowledged recorded, is every request decided? | 3 requests, 2 events, 3 accounts (one unmapped), 2 rollbacks before and 1 after the answer | 136 thousand |
| `graph` | Are plans executable, gated and ordered; is what the classifier found acted on; is the graph a thread? | 1,204 fact records, and payloads and inputs around each threshold, runs 0..2 | 223 thousand |
| `order_edit` | Is an edit whole, exact and not repeated, whatever fails? | 2 callers, 2 keys, 26 requests against 4, 3 lines, 1 rollback | 240 thousand |
| `eval_queues` | Is a correction exported, once, and marked then; does a run get one review? | 2 exporters, 3 corrections of 2 merchants, limit 2; 3 posts, 2 of one run; 1 death | 242 thousand |
| `ledger_replay`, `case_late_decision`, `case_replay`, `graph_shipped` | violated, see [Findings](#4-findings) | | |

### Why the bounds are enough to meet the interesting cases

* *Ledger.* Three callers are one that holds a key, one that waits for it and one that comes
  later; two keys let a caller work on another key meanwhile; two rollbacks let an effect be
  lost twice. The proofs remove these bounds.
* *Case.* Two handlers suffice for a duplicate callback, for a late callback and for two runs
  executing the same plan; runs 0..2 give an interrupt, a decision and a decision after
  it; two reviewers let their commits come in either order. One call is enough to see whether
  a plan is executed at all (`case_races`); the runs about order and completion have plans of
  two calls, an order and a suffix after a failure. There runs 0..1 suffice: the late callback
  of run 0 reads the approved state and executes the plan beside run 1. A third handler would
  only wait at the same claims. The plans of `case_crash` are gated, automatic, empty (both
  kinds) and one with a tool the execution registry does not know.
* *Webhooks.* Three requests over two events are a first delivery, a concurrent redelivery
  and a later one or a bystander; two rollbacks let the second take over and fail too.
* *Graph.* For each lane, all combinations of the facts its subagent reads; scores at and
  around both thresholds (49, 50, 80, 81); an order status of each kind `_is_shipped`
  and `has_label` tell apart, and two they do not know. The inputs have each flag, number, date and list
  that decides something also as `Word`, `Yes` or `One` where its readers tell these apart.
* *Order edits.* Two callers on one order are two edits that interleave, or an edit and any
  other tool; the requests are each kind of change, alone and together, well formed and with
  each defect the payload code knows. One of the two keys ranges over four requests only,
  which conflict with the others; its tools are symmetric to the first's. One rollback is a replay.
* *Evaluation queues.* Two merchants and a limit that the first one's corrections use up; two
  exporters overlap or follow each other; one death leaves any prefix of an export. The two
  queues share no state, so the instance has behaviours of either, not of both, and it records
  the two corrections of one merchant in a fixed order, as nothing else tells them apart.

The view of `case_races` leaves `resolution`, `resolved_at` and what was loaded of them out of
states in which transactions have overlapped: no guard reads them, the property says nothing
of them there, and `overlapped` never becomes false again, so states that agree under the view
have the same futures as far as any of the run's properties can see. A
behaviour of this instance has either a death or overlaps and a third run: deaths among
overlaps are the subject of `case_crash`, which does without the two columns.

`CHECK_DEADLOCK FALSE` stands where the system may stop: all runs of the thread are used up,
nobody has to decide, or no further webhook arrives. The ledger's callers can always call
again; there deadlock is checked.

Symmetry is used in safety runs only, over sets whose members no definition tells apart
(callers, keys, handlers, reviewers); never over the calls of a plan, which are ordered.

### What holds

* A key has one holder at a time (`OneHolderPerKey`): the lookup may be stale when the row is
  inserted, the unique constraint decides. Its effects are those lost with a rollback plus at
  most one (`EffectsAccounted`, `AtMostOnceUnlessRolledBack`). A SUCCEEDED row belongs to an
  applied effect and every row to one audit event (`LedgerTellsTheTruth`); what a caller was
  told stays true (`RepliesAgreeWithLedger`).
* A gated plan has an effect only if the interrupt was answered by "approve"
  (`NoEffectWithoutApproval`), however late a callback comes and whatever is decided
  afterwards; a refused case is never resolved or failed (`RefusedNeverResolves`).
* A run is owned by one handler, and a row that says `processing` without an owner is one
  whose owner died (`ProcessingIsOwned`). Nothing repairs such a row: with a death,
  `ClaimedRunsSettle` does not hold, and `case_live` excludes deaths.
* Calls are settled in plan order and a resolved case leaves none of them open
  (`SettledInPlanOrder`, `ResolvedMeansSettled`). "Settled" is not "succeeded", see below.
* The actions of the processor's batch and of Shopify's tools conjoin the ledger's own, so what is
  proved of the ledger holds of every execution of a plan.
* All of it together does no more than `ApprovedPlan` (`PlanIsExecutedAsApproved`): only the first
  answer to an interrupt counts, no call is applied or settled before the ones that precede it,
  whichever handlers execute the plan, and what the case shows is true of the plan *when* it is shown.
* An event has one run that was not rolled back (`OneRunPerEvent`); it is acknowledged only if
  it is recorded or its commit is still to come, and only a commit that fails after the answer
  loses one (`AcknowledgedIsRecorded`). Every received request is decided (`RequestsEnd`). A run that
  ends before its case is committed is *not* heard: its callback fails and is not repeated.
* As long as no two of the read-merge-write transactions on a case overlap, the row is coherent
  (`RowIsCoherent`): it shows the last decision, a failed or resolved case says so in its
  execution, results survive later decisions, and `resolved_at` is set exactly in the settled
  statuses. With an overlap it does *not* hold: the JSON is written back whole, so a handler
  that loaded before a decision committed removes the decision.
* An order's lines change by one whole edit or not at all (`EditsAreWhole`), although an edit is
  several requests, and another edit may be committed inside of it. A request that names a
  calculated line and a variant with whole quantities is met exactly (`ExactRequestsAreMet`). A
  replay after a rollback does not add a variant again, because Shopify refuses a
  duplicate (`AdditionsAreNotRepeated`), *unless* the request allows duplicates.
* A correction becomes one example across deaths and reruns (`ExportedOnce`), if exports do not
  overlap and row-level security applies to the script; none is marked that LangSmith does not
  have (`MarkedIsExported`); each is exported in the end (`QueuedAreExported`), as there are finitely
  many: that the first merchant's corrections may keep a later one's waiting for ever does not show.
  The posts of a run are answered with one and the same review, which is committed or about to be
  (`AnswersNameOneReview`). The only answer that names no review of the queue is one whose own
  commit failed afterwards (`TookBack`); then another post of the run inserts, and is answered with,
  another review.
* What the classifier finds by a signal is acted on (`ClassifiedSignalsAreActedOn`): a score of
  50 or more is held, or cancelled above 80 where the merchant's FOP says so, and a case that
  is not picked, not in stock or stuck has a plan that writes. This is of cases judged by their
  signals, by the classifier in the run or by the webhook's, whose lane the run is started with. The
  conditions in it (`ReadAlike`) are the places where the readers differ and a case the classifier
  found is auto-resolved without a plan: `pick_sla_breached` as 1 or as a text that does not say yes is
  true for the classifier's `bool` and not for the subagent's `_bool`; `out_of_stock_lines` that are
  not objects count for the classifier and are dropped by `_json_list`, unless the flag
  `has_out_of_stock_line` is set too; `sla_hours` 0, or one that is no number, is 24 for the subagent
  only; `fulfillment.created_at` and `delivery.days_since_last_scan` are read by the classifier
  only. Leaving out any of these conditions gives a violation. And a risk section without a score hides the order's
  score from the FOPs, and FOPs are on file by merchant slug, so a webhook's run, which names the
  merchant by id, has none.
* Plans contain only tools the processor knows and no two calls with the same key
  (`PlansAreExecutable`); writes are executable only by approval, whatever the FOPs say
  (`WritesAreApproved`); edits come after a hold and before the reply that confirms them
  (`EditsAreHeldThenConfirmed`).

### Fairness

* `ToolLedger`: a coroutine in a transaction runs on (`WF` of `Progress`). Nobody has to call.
  A provider call ends because the HTTP clients have timeouts.
* `CaseLifecycle`: coroutines that do not die run on; the LangGraph server ends its runs and
  calls back at least once for each (the weak fairness of the first delivery). No reviewer
  has to decide.
* `WebhookIngress`: a request runs on. That a run ends, or that the provider sends again, is not assumed.
* `EvalQueues`: a scheduler starts the export script again and again, and a script runs on unless
  it dies. Nobody has to record a correction or post a score, and deaths are not forced.

`PromptCommit` (of `CaseLifecycle`) is a *timing assumption*, not fairness: the run created by
a decision makes no step before the request that created it has committed. The code does not
enforce it; usually it holds because a run takes longer than a commit. Only `case_live`
assumes it, and `case_late_decision` shows what happens without it.

## 4 Findings

Each is a run that TLC finds violated, with the statement it contradicts.

1. **`ledger_replay`** — the provider is called inside the transaction that holds the PENDING
   row (`integrations/base.py:544`). A rollback after the call takes the row back and not the
   effect, and a replay applies it again. `phase0and1.md:130` says of checking `tool_calls`
   before re-executing: "This is what makes replay safe." What does hold is
   `AtMostOnceUnlessRolledBack`.
2. **`case_replay`** — a further run of the thread (a second decision) executes the same plan;
   the failed call is answered SKIPPED, which `_execute_tool_plan` takes for success, and the
   calls after it are executed. `tests/test_agent_runs.py:124` expects the plan to stop on the
   first failed tool. The case then ends as resolved with a failed call.
3. **`case_late_decision`** — the decision endpoint creates the run first and commits
   `executing` afterwards without looking at the status it replaces. If the run's callback was
   processed in between, the resolved case is executing again and nothing is left to settle it.
   `processor.py:395` wants to "keep batch orchestration from leaving cases stuck."
4. **`graph_shipped`** — `_is_shipped` (`subagents.py:1293`) does not know `fulfilled` and
   `stuck_in_transit`, by which the classifier tells that an order has left; the address lane
   plans an update for it. `fops/demo-merchant.yaml:53` says "Do not edit the shipping address
   after the order has shipped." The plan is still gated, so a reviewer sees it first.

## 5 Proofs

TLC's bounds are gone here: the theorems hold for every value of the constants that satisfies
the assumptions below. Every invariant, action property and refinement that a passing run checks
is proved; liveness is [only model-checked](#only-model-checked).

### What is proved

| module | theorem | states |
|---|---|---|
| `ToolLedgerProofs` | `LedgerTypeCorrect`, `LedgerMutualExclusion`, `LedgerAccountsForEffects`, `LedgerAtMostOnce`, `LedgerIsTruthful`, `LedgerKeepsItsWord` | `[]TypeOK`, `[]OneHolderPerKey`, `[]EffectsAccounted`, `[]AtMostOnceUnlessRolledBack`, `[]LedgerTellsTheTruth`, `[]RepliesAgreeWithLedger` |
| | `LedgerImplementsPromise` | `ImplementsPromise`: the refinement of `SettledOnce` |
| `CaseLifecycleProofs` | `TypesAreRight`, `GatedPlansNeedApproval`, `RefusalIsFinal`, `OneOwnerPerRun`, `CallsAreSettledInOrder`, `ResolvedCasesAreSettled` | `[]TypeOK`, `[]NoEffectWithoutApproval`, `[]RefusedNeverResolves`, `[]ProcessingIsOwned`, `[]SettledInPlanOrder`, `[]ResolvedMeansSettled` |
| | `PlannedCallsHappenOnce`, `LifecycleKeepsPromise` | `[]Ledger!AtMostOnceUnlessRolledBack` and the promise of `SettledOnce`, of the plan's calls |
| | `LifecycleImplementsApproval` | `PlanIsExecutedAsApproved`: the refinement of `ApprovedPlan` |
| `CaseRowProofs` | `RowStaysCoherent` | `[]RowIsCoherent` |
| `WebhookIngressProofs` | `IngressTypeCorrect`, `RunsAreDeduplicated`, `OnlyLateAbortsLoseEvents` | `[]TypeOK`, `[]OneRunPerEvent`, `[]AcknowledgedIsRecorded` |
| `EvalQueuesProofs` | `QueueTypeCorrect`, `CorrectionsAreExportedOnce`, `ExportedIsInLangSmith`, `RunsHaveOneReview` | `[]TypeOK`, `[]ExportedOnce`, `[]MarkedIsExported`, `[]AnswersNameOneReview` |
| `OrderExceptionPlansProofs` | `EveryPlanIsGood` | of every lane and all facts: known tools, no key twice, an edit between hold and reply |
| `OrderExceptionGraphProofs` | `GraphTypeCorrect`, `EveryPlanCanBeExecuted`, `WritesNeedApproval`, `EditsAreOrdered` | `[]TypeOK`, `[]PlansAreExecutable`, `[]WritesAreApproved`, `[]EditsAreHeldThenConfirmed` |
| | `GraphImplementsThread` | `ImplementsThread`: the refinement of `OrderExceptionThread` |
| | `ThreadAssumptionsHold` | the planners' proposals satisfy what the lifecycle assumes of proposals |
| | `SignalsAreFollowed` | `[]ClassifiedSignalsAreActedOn` |
| `ShopifyOrderProofs` | `OrderTypeCorrect`, `AdditionsHappenOnce` | `[]TypeOK`, `[]AdditionsAreNotRepeated` |
| | `EditsChangeWholly`, `ExactRequestsMet` | `EditsAreWhole`, `ExactRequestsAreMet`: of every step that changes the order |
| | `MutationsHappenOnce` | `[]Ledger!AtMostOnceUnlessRolledBack`, of Shopify's write tools |

Beside these, `InductiveInvariant`, `IngressInvariant`, `QueuesInvariant`, `GraphInvariant` and
`OrderInvariant` state the inductive invariants themselves.

The chain from a webhook's case to an effect at a provider goes link by link: the graph implements
the thread (`GraphImplementsThread`), its proposals are what the lifecycle assumes
(`ThreadAssumptionsHold`), and the ledger keeps the promise of `SettledOnce`
(`LedgerImplementsPromise`). Three links hold by the way the modules are written and show nothing of
their own: the actions of the row conjoin the lifecycle's, and those of the lifecycle's batches and
of Shopify's tools the ledger's. They are lemmas (`RowRefinesLifecycle`, `LifecycleUsesLedger`),
or a step of the invariant's proof. `LifecycleImplementsApproval` is the same chain seen from the
merchant, as one promise about one plan.

### From which assumptions

| assumption | says | in the code |
|---|---|---|
| `LedgerAssumption` | `NoKey` is no key, the bound is a natural number | |
| `ThreadAssumption` | runs are numbered from 0; a proposal has a sequence of calls and a flag | `ThreadAssumptionsHold` proves it of the planners |
| `PlanAssumption` | no call twice in a plan | `ThreadAssumptionsHold` proves it of the planners |
| `LifecycleAssumption` | what the registry knows are calls, handlers are not reviewers, bounds are numbers | |
| `IngressAssumption` | mapped accounts are accounts, bounds are numbers | |
| `QueuesAssumption` | merchants are listed once, a correction has a merchant, the limit is positive | merchant ids are a primary key; with another limit the script exports nothing |
| `IntakeAssumption`, `GraphAssumption` | `None`, `Word`, `Yes` and `One` are no numbers, lanes or flags and not confused with each other where it matters; runs are numbered from 0; facts name one of the ten lanes | the route falls back to a known lane |
| `InputsAssumption` | the place of a score, an age or an instant holds a number, nothing, or `Word` | `Word` stands for whatever `_number` and `_datetime` read as absent |
| `OrderAssumption` | types of requests and lines; line ids are distinct; nothing absent is an id or a number | Shopify's ids; `model_dump` of the tool arguments |

None restricts the number of handlers, reviewers, runs, callers, keys, deliveries, merchants,
rows or facts; deaths and rollbacks are counted, so that the models stay finite, against a
bound of any size. TLC evaluates each assumption in every run of its module.

### Along which argument

Every invariant rests on an inductive one, which TLC checked on the instance of the module's run
before it was proved. Each proof has a lemma per action and, where many conjuncts are disturbed
in one way, a lemma that says what a step has to show.

* **Ledger** (`IndInv`). None of the properties but `OneHolderPerKey` is inductive:
  `EffectsAccounted` allows a state in which a holder has applied the effect *and* the count is
  not raised. `StageShape` adds that a transaction has a key, and an outcome exactly when it is
  `operated`; `EffectsBalance` the exact balance: a holder that applied the effect means one more
  than lost, an open key without one exactly the lost ones, a settled key one of the two.
  `InsertPending` waits for the holders, which is where exclusion comes from.
* **Lifecycle** (`IndInv`). A handler works on a snapshot of the checkpoint that is older than
  its claim, its transactions and its tools. The checkpoint only goes forward and is one of five
  (`ThreadPhase`), so a snapshot is either the interrupt or what the thread's decision makes of it
  (`SeenBefore`). A claim has one holder from before its commit (the unique index) to the commit of
  the result (`ClaimsAreExclusive`), and a `processing` row without one is counted by a death
  (`OrphansAreCounted`). A batch has a row for each call before the one it is at (`Sound`). Without
  an approval no effect and no settled status is there (`OnlyApproved`). The ledger's own
  invariant is a conjunct; that it is kept is the ledger's theorem, by the refinement.
* **Case row** (`RowInv`). While no transactions have overlapped at most one coroutine is between
  load and commit (`Alone`), and what it loaded is what the row says (`Fresh`). Every theorem of
  the lifecycle is used, as `RowSpec` implies `Spec`.
* **Webhooks** (`IndInv`). A delivery whose row is inserted, committed or not, is the only one of
  its event (`OneStandsForEvent`), and events that were acknowledged and are not recorded are
  counted by the commits that failed after the answer (`LossesAreCounted`).
* **Evaluation queues** (`IndInv`). A script that is alone (`OneAtATime`) has every example in its
  listing or has created it (`ListedOrCreated`); its rows are distinct because each merchant is
  asked once and finds its own (`Loaded`), and a correction has one place in the queue
  (`QueueIsRecorded`). A review holds its run from the insert to the commit or the rollback, across
  the answer, and two that hold or have committed one run are the same (`ReviewsAreSound`).
* **Plans.** A plan is a concatenation of parts with one call at most, each of an intent of its own
  and of known tools. The lemmas are about concatenation; a lane is a choice of parts, and in the
  lane that edits the parts come as hold, edit, reply.
* **Graph** (`GraphInv`). What each channel holds before each node (`ChannelsFollowNode`), where the
  interrupt and its answer are (`GateIsPassedOnce`), which decision is behind an outcome
  (`OutcomeFollowsDecision`), one active run (`OneRuns`). The refinement maps `Finalize`, `ApprovalGate`
  and the runs' steps to the thread's and lets the other nodes stutter; that needs the invariant,
  for a thread's gate is passed once.
* **Approval.** The mapping forgets everything but the plan, its answer, the ledger and the
  status. Most steps stutter under it. A settling or applying tool step is of a handler whose snapshot
  allowed the execution and was true of the thread (`SeenBefore`), and has every earlier call of
  the batch settled (`Sound`); a status is shown as the snapshot and the batch allow. A decision is
  never taken back because the gate is passed once.
* **Signals.** No step computes here, so the invariant (`GraphInv`, and that the facts are the
  input's, `InputIsKept`) only carries what the operators give to the proposal. The argument is the
  order of the classifier's tests: one that fires decides the lane if none before it
  does (`FirstTestDecides`, by the least index), so `TestsAre` and `SignalsGiveLane` say what is known of the
  payload in each lane. `SameAge`, `SameDays`, `AlikeSla` and `ConflictIsFound` are where classifier and planner agree on
  what they read, `FraudIsEvaluated` is which FOPs match a score, and
  `SignalPlansWrite` and `FraudPlans` are the plans made of it. Where the readers differ is what
  the property's conditions (`ReadAlike`) leave out.
* **Order edits** (`OrderInv`). A commit makes every addition of an edit a line, and no later edit
  removes a line (`KeyOK`; `StagedAllKeeps`, by the function `StagedAll` is made of). A session of
  an edit that was committed before therefore begins with a line of each variant it adds, and
  Shopify refuses to stage one that must not be there twice (`SoundSession`), while a session that
  lacks a change is not committed. That no other session of the key commits in between is the
  ledger's `OneHolderPerKey`. The ledger alone does not give this: there a replay after a rollback
  repeats the effect (finding 1).
  That an edit is whole needs more of the session: what has been staged is the work's beginning as
  it was resolved on the lines the session began with, and each of it could be made there
  (`SoundSession`). Lines are never removed (`Grows`), so it can be made of today's lines too; the
  sets of a work come before its additions, so no addition is set by its own edit (`Made`). That an
  exact request is met is then about the payload alone: `Pick` passes over none of its changes and
  keeps their order (`Picked`), and whole quantities are truncated to themselves (`ExactIs`).

### Only model-checked

* **Liveness** (`EveryCallAnswered`, `ClaimedRunsSettle`, `ExecutingCasesSettle`, `RequestsEnd`,
  `QueuedAreExported`): liveness under fairness needs `ENABLED`, which is
  beyond the proof system.
The proofs use functions `f[n \in 0 .. N]` for the loops (`Pick`, `StagedAll`), whose existence and
properties are proved in the modules (`Iteration`, `UpTo`) from the well-foundedness of the naturals.

## 6 Not modelled

* **Provider clients other than Shopify's write tools** — single requests, whose outcome is the
  provider result of `ToolLedger`; reads change nothing.
* **FOP operators and roots no FOP on file uses**, the payment section of the webhook seed, which
  nothing reads, and the account id, which the ingress has resolved before.
* **Tenancy** — the code sets the merchant at the begin of each transaction and never resets it
  within one; row-level security itself is the database's.
* **OAuth** — redirects and a token exchange, then one upsert of a row nobody else writes.
* **Token and signature checks, credential encryption, LLM prompts, console, migrations,
  deployment, the evaluation harness** — cryptography, I/O, presentation or configuration
  without a protocol of their own.

## 7 Plan

The order is by what goes wrong most expensively: money and parcels first.

Done:

1. `ToolLedger`, `SettledOnce`, `ToolLedgerProofs` — effects at providers.
2. `OrderExceptionThread`, `CaseLifecycle` — who may execute a plan, and where the case ends.
3. `WebhookIngress` — from the event to the run.
4. `OrderExceptionPlans`, `OrderExceptionGraph` — what is planned, and the approval gate.
5. `CaseRow` — merge of `resolution` and `resolved_at` by processor and decision endpoint.
6. `OrderExceptionIntake` — webhook seed, classifier, FOPs and the subagents' reading of the
   context, used as the facts of `OrderExceptionGraph`.
7. `ShopifyOrder` — begin, staged changes, commit, and a failure in between, as the provider
   operation of a ledger call.
8. `EvalQueues` — queueing a review twice, an exporter that dies between sync and mark.
9. The safety properties of every module, the refinements between them and the ledger's promise
   carried through them (`CaseLifecycleProofs`, `CaseRowProofs`, `WebhookIngressProofs`,
   `EvalQueuesProofs`, `OrderExceptionPlansProofs`, `OrderExceptionGraphProofs`, `ShopifyOrderProofs`).
10. `ApprovedPlan`: the promise about a plan as a whole, refined by `CaseLifecycle`, checked and
    proved.
11. `EditsAreWhole` and `ExactRequestsAreMet` said without the loops that make an edit, and proved.
12. `ClassifiedSignalsAreActedOn` proved for all payloads, not only for those around a threshold.

Left open, in this order: the reads of `integrations/base.py` through the ledger (a second read
under one key is answered from the first), runs of the thread that end in an error, and the
routes that connect an integration.
