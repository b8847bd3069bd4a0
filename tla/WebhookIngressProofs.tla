-------------------------- MODULE WebhookIngressProofs -------------------------
(***************************************************************************)
(* The safety properties of WebhookIngress, proved for every number of     *)
(* deliveries, of failed requests and of failed commits, and every set of  *)
(* events and merchants.                                                   *)
(*                                                                         *)
(* The inductive invariant says what the index on the dedupe key does: a   *)
(* delivery that has inserted the row of its event, committed or not, is   *)
(* the only one (OneStandsForEvent).  What was acknowledged and is not     *)
(* recorded is counted by the commits that failed after the response.      *)
(***************************************************************************)
EXTENDS WebhookIngress, FiniteSetTheorems, TLAPS

Standing == {"recorded", "threaded", "triggered", "answered", "committed"}

\* A delivery carries an event from its reception on.
ReceivedCarriesEvent ==
  \A d \in Deliveries : stage[d] # "unsent" => event[d] \in Events /\ source[d] \in Merchants

\* The unique index: one delivery of an event holds or has committed its row.
OneStandsForEvent ==
  \A c, d \in Deliveries :
    stage[c] \in Standing /\ stage[d] \in Standing /\ event[c] = event[d] => c = d

RunsAreTriggered ==
  \A d \in Deliveries :
    run[d] # "none" => stage[d] \in {"triggered", "answered", "committed", "aborted"}

DuplicatesAreOfCommitted ==
  \A d \in Deliveries : stage[d] = "duplicate" => Committed(event[d]) # {}

\* The events that were acknowledged and are not recorded nor about to be.
Recorded == {event[d] : d \in {x \in Deliveries : stage[x] \in {"answered", "committed"}}}
LostEvents == {p[1] : p \in acked} \ Recorded

LossesAreCounted == IsFiniteSet(LostEvents) /\ Cardinality(LostEvents) <= lateAborts

IndInv ==
  /\ TypeOK
  /\ ReceivedCarriesEvent
  /\ OneStandsForEvent
  /\ RunsAreTriggered
  /\ DuplicatesAreOfCommitted
  /\ LossesAreCounted

-------------------------------------------------------------------------------
\* Nothing is sent, triggered or acknowledged yet.
LEMMA IndInvInit == Init => IndInv
<1> SUFFICES ASSUME Init PROVE IndInv
  OBVIOUS
<1> USE IngressAssumption DEF Init
<1>1. TypeOK
  BY DEF TypeOK, Stages
<1>2. /\ ReceivedCarriesEvent /\ OneStandsForEvent /\ RunsAreTriggered
      /\ DuplicatesAreOfCommitted
  BY DEF ReceivedCarriesEvent, OneStandsForEvent, Standing, RunsAreTriggered,
         DuplicatesAreOfCommitted
<1>3. LossesAreCounted
  <2>1. LostEvents = {}
    BY DEF LostEvents
  <2>. QED BY <2>1, FS_EmptySet DEF LossesAreCounted
<1>. QED
  BY <1>1, <1>2, <1>3 DEF IndInv

\* Acknowledged events stay counted while no recorded one is rolled back and
\* only recorded ones are acknowledged.
LEMMA LossesKept ==
  ASSUME IndInv, Recorded \subseteq Recorded', UNCHANGED lateAborts,
         \A p \in acked' : p \in acked \/ p[1] \in Recorded'
  PROVE  LossesAreCounted'
<1>1. LostEvents' \subseteq LostEvents
  BY DEF LostEvents
<1>2. IsFiniteSet(LostEvents) /\ Cardinality(LostEvents) <= lateAborts /\ lateAborts \in Nat
  BY IngressAssumption DEF IndInv, LossesAreCounted, TypeOK
<1>3. /\ IsFiniteSet(LostEvents') /\ Cardinality(LostEvents') \in Nat
      /\ Cardinality(LostEvents') <= Cardinality(LostEvents) /\ Cardinality(LostEvents) \in Nat
  BY <1>1, <1>2, FS_Subset, FS_CardinalityType
<1>. QED
  BY <1>2, <1>3 DEF LossesAreCounted

\* A step that moves one delivery on, without an insert, an answer or a
\* rollback after it.
LEMMA MoveOn ==
  ASSUME IndInv, NEW d \in Deliveries, NEW next \in Stages,
         stage' = [stage EXCEPT ![d] = next],
         UNCHANGED <<event, source, acked, lateAborts>>,
         aborts' \in 0 .. MaxAborts,
         \/ UNCHANGED run
         \/ next = "triggered" /\ run' = [run EXCEPT ![d] = "running"],
         stage[d] \notin {"unsent", "committed", "duplicate"},
         next \in Standing => stage[d] \in Standing,
         run[d] # "none" => next \in {"triggered", "answered", "committed", "aborted"},
         stage[d] = "answered" => next = "committed",
         next # "duplicate"
  PROVE  IndInv'
<1>1. TypeOK'
  BY DEF IndInv, TypeOK
<1>2. \A x \in Deliveries : stage'[x] = IF x = d THEN next ELSE stage[x]
  BY DEF IndInv, TypeOK
<1>3. ReceivedCarriesEvent' /\ OneStandsForEvent'
  BY <1>2 DEF IndInv, ReceivedCarriesEvent, OneStandsForEvent
<1>4. RunsAreTriggered'
  BY <1>2 DEF IndInv, TypeOK, RunsAreTriggered
<1>5. DuplicatesAreOfCommitted'
  <2>1. \A e : Committed(e) \subseteq Committed(e)'
    BY <1>2 DEF Committed
  <2>. QED BY <1>2, <2>1 DEF IndInv, DuplicatesAreOfCommitted
<1>6. LossesAreCounted'
  <2>1. Recorded \subseteq Recorded'
    BY <1>2 DEF Recorded
  <2>. QED BY <2>1, LossesKept
<1>. QED
  BY <1>1, <1>3, <1>4, <1>5, <1>6 DEF IndInv

\* A delivery arrives, of whatever event and account.
LEMMA ReceiveInv ==
  ASSUME IndInv, NEW d \in Deliveries, NEW e \in Events, NEW m \in Merchants, Receive(d, e, m)
  PROVE  IndInv'
<1> USE DEF Receive
<1>1. TypeOK'
  BY DEF IndInv, TypeOK, Stages, history
<1>2. PICK next \in {"received", "refused"} :
        \A x \in Deliveries : /\ stage'[x] = IF x = d THEN next ELSE stage[x]
                              /\ event'[x] = IF x = d THEN e ELSE event[x]
                              /\ source'[x] = IF x = d THEN m ELSE source[x]
  BY DEF IndInv, TypeOK
<1>3. ReceivedCarriesEvent' /\ OneStandsForEvent'
  BY <1>2 DEF IndInv, ReceivedCarriesEvent, OneStandsForEvent, Standing
<1>4. RunsAreTriggered'
  BY <1>2 DEF IndInv, RunsAreTriggered
<1>5. DuplicatesAreOfCommitted'
  <2>1. \A x : Committed(x) \subseteq Committed(x)'
    BY <1>2 DEF Committed
  <2>. QED BY <1>2, <2>1 DEF IndInv, DuplicatesAreOfCommitted
<1>6. LossesAreCounted'
  <2>1. Recorded \subseteq Recorded'
    BY <1>2 DEF Recorded
  <2>. QED BY <2>1, LossesKept DEF history
<1>. QED
  BY <1>1, <1>3, <1>4, <1>5, <1>6 DEF IndInv

\* The insert under the unique constraint: nobody else holds the event's row
\* and none is committed, or the delivery is a duplicate of a committed one.
LEMMA RecordWebhookEventInv ==
  ASSUME IndInv, NEW d \in Deliveries, RecordWebhookEvent(d)
  PROVE  IndInv'
<1> USE DEF RecordWebhookEvent
<1>1. TypeOK'
  <2>1. stage' \in [Deliveries -> Stages]
    BY DEF IndInv, TypeOK, Stages
  <2>2. acked' \subseteq Events \X Merchants
    BY DEF IndInv, TypeOK, ReceivedCarriesEvent
  <2>. QED BY <2>1, <2>2 DEF IndInv, TypeOK, history
<1>2. CASE Committed(event[d]) = {}
  <2>1. \A x \in Deliveries : stage'[x] = IF x = d THEN "recorded" ELSE stage[x]
    BY <1>2 DEF IndInv, TypeOK
  <2>2. \A x \in Deliveries : event[x] = event[d] => stage[x] \notin Standing
    BY <1>2 DEF Holders, Committed, Standing
  <2>3. ReceivedCarriesEvent' /\ OneStandsForEvent'
    BY <2>1, <2>2 DEF IndInv, ReceivedCarriesEvent, OneStandsForEvent
  <2>4. RunsAreTriggered'
    BY <2>1 DEF IndInv, RunsAreTriggered
  <2>5. DuplicatesAreOfCommitted'
    <3>1. \A e : Committed(e) \subseteq Committed(e)'
      BY <2>1 DEF Committed
    <3>. QED BY <2>1, <3>1 DEF IndInv, DuplicatesAreOfCommitted
  <2>6. LossesAreCounted'
    <3>1. Recorded \subseteq Recorded'
      BY <2>1 DEF Recorded
    <3>. QED BY <1>2, <3>1, LossesKept DEF history
  <2>. QED BY <1>1, <2>3, <2>4, <2>5, <2>6 DEF IndInv
<1>3. CASE Committed(event[d]) # {}
  <2>1. \A x \in Deliveries : stage'[x] = IF x = d THEN "duplicate" ELSE stage[x]
    BY <1>3 DEF IndInv, TypeOK
  <2>2. ReceivedCarriesEvent' /\ OneStandsForEvent'
    BY <2>1 DEF IndInv, ReceivedCarriesEvent, OneStandsForEvent, Standing
  <2>3. RunsAreTriggered'
    BY <2>1 DEF IndInv, RunsAreTriggered
  <2>4. \A e : Committed(e) \subseteq Committed(e)'
    BY <2>1 DEF Committed
  <2>5. DuplicatesAreOfCommitted'
    BY <1>3, <2>1, <2>4 DEF IndInv, DuplicatesAreOfCommitted
  <2>6. LossesAreCounted'
    <3>1. Recorded \subseteq Recorded'
      BY <2>1 DEF Recorded
    <3>2. event[d] \in Recorded
      BY <1>3 DEF Committed, Recorded
    <3>3. \A p \in acked' : p \in acked \/ p[1] \in Recorded'
      BY <1>3, <3>1, <3>2
    <3>. QED BY <3>1, <3>3, LossesKept DEF history
  <2>. QED BY <1>1, <2>2, <2>3, <2>5, <2>6 DEF IndInv
<1>. QED
  BY <1>2, <1>3

\* The response is sent before the commit.
LEMMA AnswerInv ==
  ASSUME IndInv, NEW d \in Deliveries, Answer(d)
  PROVE  IndInv'
<1> USE DEF Answer
<1>1. TypeOK'
  <2>1. stage' \in [Deliveries -> Stages]
    BY DEF IndInv, TypeOK, Stages
  <2>2. acked' \subseteq Events \X Merchants
    BY DEF IndInv, TypeOK, ReceivedCarriesEvent
  <2>. QED BY <2>1, <2>2 DEF IndInv, TypeOK, history
<1>2. \A x \in Deliveries : stage'[x] = IF x = d THEN "answered" ELSE stage[x]
  BY DEF IndInv, TypeOK
<1>3. ReceivedCarriesEvent' /\ OneStandsForEvent'
  BY <1>2 DEF IndInv, ReceivedCarriesEvent, OneStandsForEvent, Standing
<1>4. RunsAreTriggered'
  BY <1>2 DEF IndInv, RunsAreTriggered
<1>5. DuplicatesAreOfCommitted'
  <2>1. \A e : Committed(e) \subseteq Committed(e)'
    BY <1>2 DEF Committed
  <2>. QED BY <1>2, <2>1 DEF IndInv, DuplicatesAreOfCommitted
<1>6. LossesAreCounted'
  <2>1. Recorded \subseteq Recorded' /\ event[d] \in Recorded'
    BY <1>2 DEF Recorded
  <2>2. \A p \in acked' : p \in acked \/ p[1] \in Recorded'
    BY <2>1
  <2>. QED BY <2>1, <2>2, LossesKept DEF history
<1>. QED
  BY <1>1, <1>3, <1>4, <1>5, <1>6 DEF IndInv

\* A commit that fails after the response loses one event at most.
LEMMA AbortLateInv ==
  ASSUME IndInv, NEW d \in Deliveries, AbortLate(d)
  PROVE  IndInv'
<1> USE DEF AbortLate
<1>1. TypeOK'
  BY IngressAssumption DEF IndInv, TypeOK, Stages
<1>2. \A x \in Deliveries : stage'[x] = IF x = d THEN "aborted" ELSE stage[x]
  BY DEF IndInv, TypeOK
<1>3. ReceivedCarriesEvent' /\ OneStandsForEvent'
  BY <1>2 DEF IndInv, ReceivedCarriesEvent, OneStandsForEvent, Standing
<1>4. RunsAreTriggered'
  BY <1>2 DEF IndInv, RunsAreTriggered
<1>5. DuplicatesAreOfCommitted'
  <2>1. \A e : Committed(e) \subseteq Committed(e)'
    BY <1>2 DEF Committed
  <2>. QED BY <1>2, <2>1 DEF IndInv, DuplicatesAreOfCommitted
<1>6. LossesAreCounted'
  <2>0. PICK e : e = event[d]
    OBVIOUS
  <2>1. LostEvents' \subseteq LostEvents \cup {e}
    BY <1>2, <2>0 DEF LostEvents, Recorded
  <2>2. IsFiniteSet(LostEvents) /\ Cardinality(LostEvents) <= lateAborts /\ lateAborts \in Nat
    BY IngressAssumption DEF IndInv, LossesAreCounted, TypeOK
  <2>3. /\ IsFiniteSet(LostEvents \cup {e})
        /\ Cardinality(LostEvents \cup {e}) <= Cardinality(LostEvents) + 1
        /\ Cardinality(LostEvents) \in Nat
    <3>1. Cardinality(LostEvents) \in Nat
      BY <2>2, FS_CardinalityType
    <3>2. /\ IsFiniteSet(LostEvents \cup {e})
          /\ Cardinality(LostEvents \cup {e}) =
               IF e \in LostEvents THEN Cardinality(LostEvents) ELSE Cardinality(LostEvents) + 1
      BY <2>2, FS_AddElement
    <3>. QED BY <3>1, <3>2
  <2>4. /\ IsFiniteSet(LostEvents') /\ Cardinality(LostEvents') \in Nat
        /\ Cardinality(LostEvents') <= Cardinality(LostEvents \cup {e})
        /\ Cardinality(LostEvents \cup {e}) \in Nat
    BY <2>1, <2>3, FS_Subset, FS_CardinalityType
  <2>. QED BY <2>2, <2>3, <2>4 DEF LossesAreCounted
<1>. QED
  BY <1>1, <1>3, <1>4, <1>5, <1>6 DEF IndInv

\* The callback moves no request.
LEMMA CallbackInv ==
  ASSUME IndInv, NEW d \in Deliveries, Callback(d)
  PROVE  IndInv'
<1> USE DEF Callback, request, history
<1>1. TypeOK' /\ RunsAreTriggered'
  BY DEF IndInv, TypeOK, RunsAreTriggered
<1>2. ReceivedCarriesEvent' /\ OneStandsForEvent' /\ DuplicatesAreOfCommitted'
  BY DEF IndInv, ReceivedCarriesEvent, OneStandsForEvent, DuplicatesAreOfCommitted, Committed
<1>3. LossesAreCounted'
  BY LossesKept DEF Recorded
<1>. QED
  BY <1>1, <1>2, <1>3 DEF IndInv

-------------------------------------------------------------------------------
\* No step of a request, of a failure or of a callback leaves the invariant.
LEMMA IndInvStep == IndInv /\ [Next]_vars => IndInv'
<1> SUFFICES ASSUME IndInv, [Next]_vars
             PROVE  IndInv'
  OBVIOUS
<1>0. aborts \in 0 .. MaxAborts
  BY DEF IndInv, TypeOK
<1>1. ASSUME NEW d \in Deliveries, NEW e \in Events, NEW m \in Merchants, Receive(d, e, m)
      PROVE  IndInv'
  BY <1>1, ReceiveInv
<1>2. ASSUME NEW d \in Deliveries, RecordWebhookEvent(d)
      PROVE  IndInv'
  BY <1>2, RecordWebhookEventInv
<1>3. ASSUME NEW d \in Deliveries, CreateThread(d)
      PROVE  IndInv'
  <2>1. run[d] = "none"
    BY <1>3 DEF CreateThread, IndInv, RunsAreTriggered
  <2>. QED BY <1>0, <1>3, <2>1, MoveOn DEF CreateThread, Stages, Standing, history
<1>4. ASSUME NEW d \in Deliveries, Trigger(d)
      PROVE  IndInv'
  BY <1>0, <1>4, MoveOn DEF Trigger, Stages, Standing, history
<1>5. ASSUME NEW d \in Deliveries, Answer(d)
      PROVE  IndInv'
  BY <1>5, AnswerInv
<1>6. ASSUME NEW d \in Deliveries, Commit(d)
      PROVE  IndInv'
  BY <1>0, <1>6, MoveOn DEF Commit, Stages, Standing, history
<1>7. ASSUME NEW d \in Deliveries, Abort(d)
      PROVE  IndInv'
  <2>1. aborts' \in 0 .. MaxAborts
    BY <1>0, <1>7, IngressAssumption DEF Abort
  <2>. QED BY <1>7, <2>1, MoveOn DEF Abort, Stages, Standing
<1>8. ASSUME NEW d \in Deliveries, AbortLate(d)
      PROVE  IndInv'
  BY <1>8, AbortLateInv
<1>9. ASSUME NEW d \in Deliveries, Callback(d)
      PROVE  IndInv'
  BY <1>9, CallbackInv
<1>10. CASE UNCHANGED vars
  <2> USE <1>10 DEF vars, request, history
  <2>1. /\ TypeOK' /\ ReceivedCarriesEvent' /\ OneStandsForEvent' /\ RunsAreTriggered'
        /\ DuplicatesAreOfCommitted'
    BY DEF IndInv, TypeOK, ReceivedCarriesEvent, OneStandsForEvent, RunsAreTriggered,
           DuplicatesAreOfCommitted, Committed
  <2>2. LossesAreCounted'
    BY LossesKept DEF Recorded
  <2>. QED BY <2>1, <2>2 DEF IndInv
<1>. QED
  BY <1>1, <1>2, <1>3, <1>4, <1>5, <1>6, <1>7, <1>8, <1>9, <1>10 DEF Next, Progress

(* Whatever is delivered, redelivered, rolled back or called back, every   *)
(* reachable state of the webhook route satisfies the inductive invariant. *)
THEOREM IngressInvariant == Spec => []IndInv
BY IndInvInit, IndInvStep, PTL DEF Spec

(* The rows and stages of _receive_webhook have the values it writes; only *)
(* events of known accounts are acknowledged.                              *)
THEOREM IngressTypeCorrect == Spec => []TypeOK
<1>1. IndInv => TypeOK
  BY DEF IndInv
<1>. QED
  BY <1>1, IngressInvariant, PTL

(* record_webhook_event: among any number of deliveries of an event at     *)
(* most one agent run belongs to a request that is not rolled back.        *)
THEOREM RunsAreDeduplicated == Spec => []OneRunPerEvent
<1>1. ASSUME IndInv PROVE OneRunPerEvent
  <2> SUFFICES ASSUME NEW e \in Events
               PROVE  Cardinality({d \in Deliveries :
                        event[d] = e /\ run[d] # "none" /\ stage[d] # "aborted"}) <= 1
    BY DEF OneRunPerEvent
  <2> DEFINE triggered == {d \in Deliveries :
                             event[d] = e /\ run[d] # "none" /\ stage[d] # "aborted"}
  <2>1. \A d \in triggered : stage[d] \in Standing
    BY <1>1 DEF IndInv, RunsAreTriggered, Standing
  <2>2. \A c, d \in triggered : c = d
    BY <1>1, <2>1 DEF IndInv, OneStandsForEvent
  <2>3. CASE triggered = {}
    BY <2>3, FS_EmptySet
  <2>4. CASE triggered # {}
    <3>1. PICK d : triggered = {d}
      BY <2>2, <2>4
    <3>2. Cardinality(triggered) = 1
      BY <3>1, FS_Singleton
    <3>. QED BY <3>2
  <2>. QED BY <2>3, <2>4
<1>. QED
  BY <1>1, IngressInvariant, PTL

(* The response before the commit of get_async_session: "duplicate" is     *)
(* said of committed events only, and an acknowledged event is recorded    *)
(* unless its commit failed after the response.                            *)
THEOREM OnlyLateAbortsLoseEvents == Spec => []AcknowledgedIsRecorded
<1>1. IndInv => AcknowledgedIsRecorded
  BY DEF IndInv, DuplicatesAreOfCommitted, LossesAreCounted, LostEvents, Recorded,
         AcknowledgedIsRecorded
<1>. QED
  BY <1>1, IngressInvariant, PTL
===============================================================================
