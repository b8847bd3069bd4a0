------------------------------ MODULE EvalQueues ------------------------------
(***************************************************************************)
(* The two queues that feed the evaluation of the agent.                   *)
(*                                                                         *)
(* eval_corrections: operators record corrections of a case                *)
(* (routes/cases.py); scripts/export_eval_corrections_to_langsmith.py      *)
(* loads the queued ones, creates a LangSmith example for each and marks   *)
(* them exported, three steps in two transactions, started by a scheduler  *)
(* and perhaps by hand at the same time.                                   *)
(*                                                                         *)
(* eval_review_items: the online evaluator posts low scores                *)
(* (routes/evals.py); one review per case and LangSmith run is queued.     *)
(*                                                                         *)
(* LangSmith is external: an example is created, or not, or created with   *)
(* its answer lost; listing shows every example created before.            *)
(***************************************************************************)
EXTENDS Naturals, Sequences, SequencesExt, FiniteSets

CONSTANTS
  Merchants,    \* a sequence: the order of their creation
  Corrections,  \* corrections operators may record
  MerchantOf,   \* the merchant of each correction
  Limit,        \* EVAL_CORRECTIONS_EXPORT_LIMIT
  Exporters,    \* processes that run the export script
  Posts,        \* requests to POST /v1/evals/online-review for one case
  RunOf,        \* langsmith_run_id of each request
  NoRun,        \* a request without one
  NoPost,       \* "no review"
  MaxCrashes    \* bound: processes and requests that die

ASSUME QueuesAssumption ==
  /\ \A i, j \in DOMAIN Merchants : Merchants[i] = Merchants[j] => i = j
  /\ MerchantOf \in [Corrections -> ToSet(Merchants)]
  /\ Limit \in Nat \ {0} /\ MaxCrashes \in Nat
  /\ NoPost \notin Posts

VARIABLES
  rowSecurity,  \* the script's database role is subject to row-level security
  dryRun,       \* EVAL_CORRECTIONS_DRY_RUN of each exporter
  queue,        \* eval_corrections in the order of created_at
  status,       \* eval_corrections.status, "none" if not recorded
  examples,     \* LangSmith examples that carry each correction's id
  exporter,     \* local state of a run of the script
  overlapped,   \* history: two exports have run at the same time
  reviews,      \* committed eval_review_items, named by the request that
                \* inserted them
  post,         \* local state of a request: where it is, the review it answers
  crashes       \* history: what has died

exportVars == <<rowSecurity, dryRun, queue, status, examples, exporter, overlapped>>
reviewVars == <<reviews, post>>
vars       == <<exportVars, reviewVars, crashes>>

IdleExporter == [pc |-> "idle", asked |-> 0, rows |-> <<>>, existing |-> {}, next |-> 1]

Init ==
  /\ rowSecurity \in BOOLEAN
  /\ dryRun \in [Exporters -> BOOLEAN] /\ \E e \in Exporters : ~dryRun[e]
  /\ queue = <<>>
  /\ status = [c \in Corrections |-> "none"]
  /\ examples = [c \in Corrections |-> 0]
  /\ exporter = [e \in Exporters |-> IdleExporter]
  /\ overlapped = FALSE
  /\ reviews = {}
  /\ post = [p \in Posts |-> [pc |-> "idle", review |-> NoPost]]
  /\ crashes = 0

-------------------------------------------------------------------------------
(* record_eval_correction and its case event, in one transaction. *)
RecordCorrection(c) ==
  /\ status[c] = "none"
  /\ status' = [status EXCEPT ![c] = "queued"]
  /\ queue' = Append(queue, c)
  /\ UNCHANGED <<rowSecurity, dryRun, examples, exporter, overlapped, reviewVars, crashes>>

Before(c, d) == \E i, j \in DOMAIN queue : i < j /\ queue[i] = c /\ queue[j] = d

\* What the query finds in the scope of merchant m.  It does not name the
\* merchant itself: row-level security does.
QueuedFor(m) ==
  {c \in Corrections : status[c] = "queued" /\ (rowSecurity => MerchantOf[c] = m)}

\* batch is the first n of the corrections found, in the order of created_at.
FirstOf(found, n, batch) ==
  /\ \A i, j \in DOMAIN batch : i < j => Before(batch[i], batch[j])
  /\ \A c \in found \ ToSet(batch) :
       Len(batch) = n /\ \A i \in DOMAIN batch : Before(batch[i], c)

Busy(e) == exporter[e].pc # "idle"

\* The loop over the merchants ends with them, or with the limit; with
\* nothing queued the script ends too.
Asked(me) ==
  IF me.asked < Len(Merchants) /\ Len(me.rows) < Limit THEN me
  ELSE IF me.rows = <<>> THEN IdleExporter ELSE [me EXCEPT !.pc = "loaded"]

(* The script starts and lists the merchants. *)
StartExport(e) ==
  /\ ~Busy(e)
  /\ exporter' = [exporter EXCEPT ![e] = Asked([IdleExporter EXCEPT !.pc = "asking"])]
  /\ overlapped' = (overlapped \/ \E f \in Exporters \ {e} : Busy(f))
  /\ UNCHANGED <<rowSecurity, dryRun, queue, status, examples, reviewVars, crashes>>

\* Mutant: the limit is taken anew for each merchant.
AskMerchantForLimit(e) ==
  LET me == exporter[e]
      found == QueuedFor(Merchants[me.asked + 1])
  IN
  /\ me.pc = "asking"
  /\ \E batch \in SeqOf(found, Limit) :
       /\ FirstOf(found, Limit, batch)
       /\ exporter' = [exporter EXCEPT ![e] =
                         Asked([me EXCEPT !.asked = @ + 1, !.rows = @ \o batch])]
  /\ UNCHANGED <<rowSecurity, dryRun, queue, status, examples, overlapped, reviewVars, crashes>>

(* One turn of _load_queued_corrections: the next merchant is asked for    *)
(* what is left of the limit.  Each query sees what is committed by then.  *)
AskMerchant(e) ==
  LET me    == exporter[e]
      left  == Limit - Len(me.rows)
      found == QueuedFor(Merchants[me.asked + 1])
  IN
  /\ me.pc = "asking"
  /\ \E batch \in SeqOf(found, left) :
       /\ FirstOf(found, left, batch)
       /\ exporter' = [exporter EXCEPT ![e] =
                         Asked([me EXCEPT !.asked = @ + 1, !.rows = @ \o batch])]
  /\ UNCHANGED <<rowSecurity, dryRun, queue, status, examples, overlapped, reviewVars, crashes>>

\* Mutant: the examples that are there already are not asked for.
ReadExistingNever(e) ==
  /\ exporter[e].pc = "loaded"
  /\ exporter' = [exporter EXCEPT ![e] =
                    IF dryRun[e] THEN IdleExporter ELSE [@ EXCEPT !.pc = "syncing"]]
  /\ UNCHANGED <<rowSecurity, dryRun, queue, status, examples, overlapped, reviewVars, crashes>>

(* A dry run ends here; else _existing_correction_ids. *)
ReadExisting(e) ==
  /\ exporter[e].pc = "loaded"
  /\ exporter' = [exporter EXCEPT ![e] =
                    IF dryRun[e] THEN IdleExporter
                    ELSE [@ EXCEPT !.pc = "syncing",
                                   !.existing = {c \in Corrections : examples[c] > 0}]]
  /\ UNCHANGED <<rowSecurity, dryRun, queue, status, examples, overlapped, reviewVars, crashes>>

Pending(e) == exporter[e].rows[exporter[e].next]

\* The example of the row at hand is created unless the listing had it.
CreatedBy(e) ==
  IF Pending(e) \in exporter[e].existing THEN examples
  ELSE [examples EXCEPT ![Pending(e)] = @ + 1]

(* One turn of the loop of _sync_langsmith_examples. *)
CreateExample(e) ==
  /\ exporter[e].pc = "syncing" /\ exporter[e].next <= Len(exporter[e].rows)
  /\ examples' = CreatedBy(e)
  /\ exporter' = [exporter EXCEPT ![e].next = @ + 1]
  /\ UNCHANGED <<rowSecurity, dryRun, queue, status, overlapped, reviewVars, crashes>>

\* Mutant: what was loaded is marked, whether or not it was synced.
MarkExportedEarly(e) ==
  /\ exporter[e].pc = "syncing"
  /\ status' = [c \in Corrections |->
                  IF c \in ToSet(exporter[e].rows) THEN "exported" ELSE status[c]]
  /\ exporter' = [exporter EXCEPT ![e] = IdleExporter]
  /\ UNCHANGED <<rowSecurity, dryRun, queue, examples, overlapped, reviewVars, crashes>>

\* Mutant: only the examples created in this run are marked.
MarkExportedNew(e) ==
  /\ exporter[e].pc = "syncing" /\ exporter[e].next > Len(exporter[e].rows)
  /\ status' = [c \in Corrections |->
                  IF c \in ToSet(exporter[e].rows) \ exporter[e].existing
                  THEN "exported" ELSE status[c]]
  /\ exporter' = [exporter EXCEPT ![e] = IdleExporter]
  /\ UNCHANGED <<rowSecurity, dryRun, queue, examples, overlapped, reviewVars, crashes>>

(* _mark_exported: every row of the run, old example or new, in one commit. *)
MarkExported(e) ==
  /\ exporter[e].pc = "syncing" /\ exporter[e].next > Len(exporter[e].rows)
  /\ status' = [c \in Corrections |->
                  IF c \in ToSet(exporter[e].rows) THEN "exported" ELSE status[c]]
  /\ exporter' = [exporter EXCEPT ![e] = IdleExporter]
  /\ UNCHANGED <<rowSecurity, dryRun, queue, examples, overlapped, reviewVars, crashes>>

(* The script dies or an exception of a client ends it; the request it was *)
(* waiting for may have been served.                                       *)
ExporterDies(e) ==
  /\ Busy(e) /\ crashes < MaxCrashes
  /\ crashes' = crashes + 1
  /\ \/ UNCHANGED examples
     \/ /\ exporter[e].pc = "syncing" /\ exporter[e].next <= Len(exporter[e].rows)
        /\ examples' = CreatedBy(e)
  /\ exporter' = [exporter EXCEPT ![e] = IdleExporter]
  /\ UNCHANGED <<rowSecurity, dryRun, queue, status, overlapped, reviewVars>>

-------------------------------------------------------------------------------
(* POST /v1/evals/online-review, one transaction per request. *)

Step(p, from, to, review) ==
  /\ post[p].pc = from
  /\ post' = [post EXCEPT ![p] = [pc |-> to, review |-> review]]
  /\ UNCHANGED exportVars

\* Committed reviews of the run of p, if it names one.
SameRun(p) == IF RunOf[p] = NoRun THEN {} ELSE {q \in reviews : RunOf[q] = RunOf[p]}

\* p has inserted its review and the transaction is open, also after the answer.
Uncommitted(p) ==
  post[p].pc = "inserted" \/ (post[p].pc = "answered" /\ post[p].review = p)

\* Requests that hold the unique entry of p's run.
HoldsRun(p) ==
  IF RunOf[p] = NoRun THEN {}
  ELSE {q \in Posts \ {p} : Uncommitted(q) /\ RunOf[q] = RunOf[p]}

(* The select of queue_eval_review_item. *)
SelectReview(p) ==
  /\ IF SameRun(p) # {} THEN \E q \in SameRun(p) : Step(p, "idle", "found", q)
     ELSE Step(p, "idle", "missing", NoPost)
  /\ UNCHANGED <<reviews, crashes>>

\* Mutant: no unique constraint on the run.
InsertReviewUnconstrained(p) ==
  /\ Step(p, "missing", "inserted", p)
  /\ UNCHANGED <<reviews, crashes>>

(* The flush waits for a concurrent insert of the same run; if that one    *)
(* has committed the constraint raises and the request fails.              *)
InsertReview(p) ==
  /\ HoldsRun(p) = {}
  /\ IF SameRun(p) = {} THEN Step(p, "missing", "inserted", p)
     ELSE Step(p, "missing", "failed", NoPost)
  /\ UNCHANGED <<reviews, crashes>>

(* eval.online_low_confidence is recorded, for a review that was there     *)
(* already too, and the request is answered.                               *)
AnswerPost(p) ==
  /\ \E from \in {"found", "inserted"} : Step(p, from, "answered", post[p].review)
  /\ UNCHANGED <<reviews, crashes>>

(* The commit: the exit of get_async_session runs after the response.      *)
CommitPost(p) ==
  /\ Step(p, "answered", "committed", post[p].review)
  /\ reviews' = reviews \cup {post[p].review}
  /\ UNCHANGED crashes

(* The request or its commit fails: the transaction is rolled back.  After *)
(* the answer nobody learns of it.                                         *)
PostDies(p) ==
  /\ post[p].pc \in {"missing", "found", "inserted", "answered"} /\ crashes < MaxCrashes
  /\ crashes' = crashes + 1
  /\ IF post[p].pc = "answered" THEN Step(p, "answered", "lost", post[p].review)
     ELSE Step(p, post[p].pc, "failed", NoPost)
  /\ UNCHANGED reviews

-------------------------------------------------------------------------------
ExporterStep(e) ==
  \/ StartExport(e) \/ AskMerchant(e)
  \/ ReadExisting(e) \/ CreateExample(e) \/ MarkExported(e)

Next ==
  \/ \E c \in Corrections : RecordCorrection(c)
  \/ \E e \in Exporters : ExporterStep(e) \/ ExporterDies(e)
  \/ \E p \in Posts :
       \/ SelectReview(p) \/ InsertReview(p) \/ AnswerPost(p) \/ CommitPost(p)
       \/ PostDies(p)

\* The scheduler starts the script again while something is queued, and it
\* runs on; nobody has to record a correction or post a score.
QueuedExists == \E c \in Corrections : status[c] = "queued"

Fairness == \A e \in Exporters : WF_vars((Busy(e) \/ QueuedExists) /\ ExporterStep(e))

Spec     == Init /\ [][Next]_vars
FairSpec == Spec /\ Fairness

-------------------------------------------------------------------------------
(* Types; a run of the script never has more rows than its limit. *)
TypeOK ==
  /\ status \in [Corrections -> {"none", "queued", "exported"}]
  /\ ToSet(queue) = {c \in Corrections : status[c] # "none"}
  /\ examples \in [Corrections -> Nat]
  /\ \A e \in Exporters :
       /\ exporter[e].pc \in {"idle", "asking", "loaded", "syncing"}
       /\ exporter[e].pc = "asking" => exporter[e].asked \in 0 .. Len(Merchants) - 1
       /\ Len(exporter[e].rows) <= Limit
       /\ exporter[e].next \in 1 .. Len(exporter[e].rows) + 1
  /\ reviews \subseteq Posts
  /\ \A p \in Posts : post[p].pc \in {"idle", "missing", "found", "inserted", "answered",
                                     "committed", "lost", "failed"}

(* A correction becomes one example, across crashes between the sync and   *)
(* the mark, lost answers and reruns, if exports do not overlap and        *)
(* row-level security keeps the merchants apart.                           *)
ExportedOnce ==
  rowSecurity /\ ~overlapped => \A c \in Corrections : examples[c] <= 1

(* README.md:52: the export puts corrections "into LangSmith and marks     *)
(* them exported": none is marked that LangSmith does not have.            *)
MarkedIsExported ==
  \A c \in Corrections : status[c] = "exported" => examples[c] >= 1

\* p was answered with a review, and it is not one of p's own that a failed
\* commit took back after the answer.
Given(p)    == post[p].pc \in {"answered", "committed", "lost"}
TookBack(p) == post[p].pc = "lost" /\ post[p].review = p

(* Whoever was answered for a run was given one and the same review, and   *)
(* it is in the queue or about to be committed; without a run each request *)
(* has a review of its own.  Only a request whose own review was rolled    *)
(* back after its answer may hold one that is not there, and then another  *)
(* may be given for the run.                                               *)
AnswersNameOneReview ==
  \A p \in Posts : Given(p) /\ ~TookBack(p) =>
    /\ post[p].review \in reviews \/ Uncommitted(p)
    /\ \A q \in Posts : Given(q) /\ ~TookBack(q) =>
         (post[p].review = post[q].review <=> p = q \/ (RunOf[p] = RunOf[q] /\ RunOf[p] # NoRun))

(* A queued correction is exported by some later run of the script. *)
QueuedAreExported ==
  \A c \in Corrections : status[c] = "queued" ~> status[c] = "exported"
===============================================================================
