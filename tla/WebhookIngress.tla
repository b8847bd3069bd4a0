---------------------------- MODULE WebhookIngress ----------------------------
(***************************************************************************)
(* From a provider's webhook to an open case with a running agent:         *)
(* _receive_webhook of apps/api/src/api/webhooks/routes.py, and the first  *)
(* completion callback that finds the case or does not.                    *)
(*                                                                         *)
(* One database transaction spans the whole request and is committed by    *)
(* the exit code of get_async_session, which FastAPI runs AFTER it has     *)
(* sent the response (fastapi 0.136 in uv.lock).  The LangGraph thread and *)
(* run are created inside that transaction, outside of its control: a      *)
(* rollback takes back the event and the case, never the run.              *)
(* Providers deliver at least once: a webhook that was not acknowledged is *)
(* sent again, and one that was may still come twice.                      *)
(***************************************************************************)
EXTENDS Naturals, FiniteSets

CONSTANTS
  Events,         \* values of the dedupe key (provider, event_id)
  Merchants,      \* owners of provider accounts
  Mapped,         \* merchants whose account has a webhook_sources row
  MaxDeliveries,  \* bound: webhook requests
  MaxAborts,      \* bound: requests that fail before the response is sent
  MaxLateAborts   \* bound: commits that fail after the response was sent

ASSUME IngressAssumption ==
  /\ Mapped \subseteq Merchants
  /\ MaxDeliveries \in Nat /\ MaxAborts \in Nat /\ MaxLateAborts \in Nat

Deliveries == 1 .. MaxDeliveries

VARIABLES
  event, source,   \* what each delivery carries
  stage,           \* how far its request has come
  acked,           \* (event, merchant) pairs the provider got a 2xx answer for
  run,             \* the agent run triggered by each delivery
  aborts, lateAborts  \* history

request == <<event, source, stage>>
history == <<aborts, lateAborts>>
vars    == <<request, acked, run, history>>

NoEvent  == "none"

Stages == {"unsent", "refused", "received", "recorded", "threaded", "triggered",
           "answered", "committed", "duplicate", "aborted"}

\* The deliveries whose open transaction has inserted the event's row.
Holders(e) ==
  {d \in Deliveries : event[d] = e /\ stage[d] \in {"recorded", "threaded", "triggered", "answered"}}

\* The deliveries whose event row and case are committed.
Committed(e) == {d \in Deliveries : event[d] = e /\ stage[d] = "committed"}

Init ==
  /\ event  = [d \in Deliveries |-> NoEvent]
  /\ source = [d \in Deliveries |-> NoEvent]
  /\ stage  = [d \in Deliveries |-> "unsent"]
  /\ run    = [d \in Deliveries |-> "none"]
  /\ acked  = {}
  /\ aborts = 0 /\ lateAborts = 0

-------------------------------------------------------------------------------
(* The request passes the signature check and its source is resolved; a    *)
(* source that no merchant has installed is refused.                       *)
Receive(d, e, m) ==
  /\ stage[d] = "unsent"
  /\ \A x \in Deliveries : x < d => stage[x] # "unsent"
  /\ event'  = [event EXCEPT ![d] = e]
  /\ source' = [source EXCEPT ![d] = m]
  /\ stage'  = [stage EXCEPT ![d] = IF m \in Mapped THEN "received" ELSE "refused"]
  /\ UNCHANGED <<acked, run, history>>

\* Mutant: the dedupe row is looked up, not inserted under its constraint.
RecordWebhookEventByLooking(d) ==
  /\ stage[d] = "received"
  /\ IF Committed(event[d]) = {}
     THEN stage' = [stage EXCEPT ![d] = "recorded"] /\ UNCHANGED acked
     ELSE /\ stage' = [stage EXCEPT ![d] = "duplicate"]
          /\ acked' = acked \cup {<<event[d], source[d]>>}
  /\ UNCHANGED <<event, source, run, history>>

\* Mutant: a row that another transaction has not committed counts as seen.
RecordWebhookEventWithoutWait(d) ==
  /\ stage[d] = "received"
  /\ IF Committed(event[d]) \cup Holders(event[d]) = {}
     THEN stage' = [stage EXCEPT ![d] = "recorded"] /\ UNCHANGED acked
     ELSE /\ stage' = [stage EXCEPT ![d] = "duplicate"]
          /\ acked' = acked \cup {<<event[d], source[d]>>}
  /\ UNCHANGED <<event, source, run, history>>

\* Mutant: a delivery that finds the row committed is never answered.
RecordWebhookEventOrHang(d) ==
  /\ stage[d] = "received"
  /\ Holders(event[d]) = {} /\ Committed(event[d]) = {}
  /\ stage' = [stage EXCEPT ![d] = "recorded"]
  /\ UNCHANGED <<event, source, acked, run, history>>

(* record_webhook_event: ON CONFLICT DO NOTHING waits for a transaction    *)
(* that has inserted the key; a committed row makes this one a duplicate,  *)
(* which is acknowledged.                                                  *)
RecordWebhookEvent(d) ==
  /\ stage[d] = "received"
  /\ Holders(event[d]) = {}
  /\ IF Committed(event[d]) = {}
     THEN stage' = [stage EXCEPT ![d] = "recorded"] /\ UNCHANGED acked
     ELSE /\ stage' = [stage EXCEPT ![d] = "duplicate"]
          /\ acked' = acked \cup {<<event[d], source[d]>>}
  /\ UNCHANGED <<event, source, run, history>>

(* dispatcher.create_thread, then the case row and its first event. *)
CreateThread(d) ==
  /\ stage[d] = "recorded"
  /\ stage' = [stage EXCEPT ![d] = "threaded"]
  /\ UNCHANGED <<event, source, acked, run, history>>

(* dispatcher.trigger: the run exists from here on, whatever the database  *)
(* does with the case it is about.                                         *)
Trigger(d) ==
  /\ stage[d] = "threaded"
  /\ run'   = [run EXCEPT ![d] = "running"]
  /\ stage' = [stage EXCEPT ![d] = "triggered"]
  /\ UNCHANGED <<event, source, acked, history>>

\* Mutant: the answer names event and merchant the wrong way round.
AnswerSwapped(d) ==
  /\ stage[d] = "triggered"
  /\ stage' = [stage EXCEPT ![d] = "answered"]
  /\ acked' = acked \cup {<<source[d], event[d]>>}
  /\ UNCHANGED <<event, source, run, history>>

(* agent.run_started, mark_webhook_processed, and the 200 response. *)
Answer(d) ==
  /\ stage[d] = "triggered"
  /\ stage' = [stage EXCEPT ![d] = "answered"]
  /\ acked' = acked \cup {<<event[d], source[d]>>}
  /\ UNCHANGED <<event, source, run, history>>

(* The exit code of get_async_session. *)
Commit(d) ==
  /\ stage[d] = "answered"
  /\ stage' = [stage EXCEPT ![d] = "committed"]
  /\ UNCHANGED <<event, source, acked, run, history>>

(* A LangGraph call raises or the process dies: the transaction is rolled  *)
(* back and the provider sees an error.                                    *)
Abort(d) ==
  /\ stage[d] \in {"received", "recorded", "threaded", "triggered"}
  /\ aborts < MaxAborts
  /\ aborts' = aborts + 1
  /\ stage' = [stage EXCEPT ![d] = "aborted"]
  /\ UNCHANGED <<event, source, acked, run, lateAborts>>

(* The commit is lost after the answer: the provider will not send again.  *)
AbortLate(d) ==
  /\ stage[d] = "answered"
  /\ lateAborts < MaxLateAborts
  /\ lateAborts' = lateAborts + 1
  /\ stage' = [stage EXCEPT ![d] = "aborted"]
  /\ UNCHANGED <<event, source, acked, run, aborts>>

(* The run ends and its callback claims an agent_run_executions row, whose *)
(* foreign key needs the committed case; without it the callback fails and *)
(* is not repeated.                                                        *)
Callback(d) ==
  /\ run[d] = "running"
  /\ run' = [run EXCEPT ![d] = IF stage[d] = "committed" THEN "synced" ELSE "dropped"]
  /\ UNCHANGED <<request, acked, history>>

-------------------------------------------------------------------------------
Progress(d) ==
  RecordWebhookEvent(d) \/ CreateThread(d) \/ Trigger(d) \/ Answer(d) \/ Commit(d)

Next ==
  \E d \in Deliveries :
    \/ \E e \in Events, m \in Merchants : Receive(d, e, m)
    \/ Progress(d)
    \/ Abort(d)
    \/ AbortLate(d)
    \/ Callback(d)

Spec == Init /\ [][Next]_vars

\* A request that is not aborted runs on.  That the provider sends again what
\* was not acknowledged is left open: the bound on deliveries would make it a
\* matter of the bound.
Fairness == \A d \in Deliveries : WF_vars(Progress(d))

FairSpec == Spec /\ Fairness

-------------------------------------------------------------------------------
(* Types of the variables. *)
TypeOK ==
  /\ event  \in [Deliveries -> Events \cup {NoEvent}]
  /\ source \in [Deliveries -> Merchants \cup {NoEvent}]
  /\ stage  \in [Deliveries -> Stages]
  /\ run    \in [Deliveries -> {"none", "running", "synced", "dropped"}]
  /\ acked  \subseteq Events \X Merchants
  /\ aborts \in 0 .. MaxAborts
  /\ lateAborts \in 0 .. MaxLateAborts

(* Among redeliveries and races one transaction at a time stands for an    *)
(* event, and no further run is triggered once it is committed: every run  *)
(* but one belongs to a request that was rolled back.                      *)
OneRunPerEvent ==
  \A e \in Events :
    Cardinality({d \in Deliveries : event[d] = e /\ run[d] # "none" /\ stage[d] # "aborted"}) <= 1

(* "duplicate" is only said of a committed event, and an acknowledged      *)
(* event is committed or about to be: the only ones that are lost are those *)
(* whose commit failed after the answer.                                   *)
AcknowledgedIsRecorded ==
  LET standing == {event[d] : d \in {x \in Deliveries : stage[x] \in {"answered", "committed"}}}
      answered == {p[1] : p \in acked}
  IN
  /\ \A d \in Deliveries : stage[d] = "duplicate" => Committed(event[d]) # {}
  /\ Cardinality(answered \ standing) <= lateAborts

(* A request that was received is decided: waiting for another delivery of *)
(* the same event ends.                                                    *)
RequestsEnd ==
  \A d \in Deliveries :
    stage[d] = "received" ~> stage[d] \in {"committed", "duplicate", "aborted"}
===============================================================================
