--------------------------- MODULE MCWebhookIngress ---------------------------
(* Instance of WebhookIngress for TLC: two events, two mapped merchants    *)
(* and m3, whose account has no webhook_sources row.                       *)
EXTENDS WebhookIngress

CONSTANTS e1, e2, m1, m2, m3

MCEvents    == {e1, e2}
MCMerchants == {m1, m2, m3}
MCMapped    == {m1, m2}
===============================================================================
