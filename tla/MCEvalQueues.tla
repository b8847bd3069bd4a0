------------------------------ MODULE MCEvalQueues -----------------------------
(* A small instance of EvalQueues: three corrections of two merchants, a   *)
(* limit of two rows, two exporters, and three reviews of one case.        *)
EXTENDS EvalQueues

CONSTANTS m1, m2, a1, a2, b1, e1, e2, p1, p2, p3, r1

MCMerchants   == <<m1, m2>>
MCCorrections == {a1, a2, b1}
MCMerchantOf  == [c \in MCCorrections |-> IF c = b1 THEN m2 ELSE m1]
MCExporters   == {e1, e2}
MCPosts       == {p1, p2, p3}
MCRunOf       == [p \in MCPosts |-> IF p = p3 THEN NoRun ELSE r1]

\* The two queues share no state, so their interleavings are left out: a
\* behaviour of the instance has exports or reviews, not both; and a1 and
\* a2, which only their names tell apart, are recorded in this order; and a
\* script that starts with nothing queued is left out, as it finds what one
\* that starts at the first correction finds.
MCNext ==
  /\ Next
  /\ queue' = <<>> \/ \A p \in Posts : post'[p].pc = "idle"
  /\ status'[a2] # "none" => status'[a1] # "none"
  /\ QueuedExists \/ \A e \in Exporters : exporter'[e].pc = "idle" \/ Busy(e)
MCSpec == Init /\ [][MCNext]_vars /\ Fairness
===============================================================================
