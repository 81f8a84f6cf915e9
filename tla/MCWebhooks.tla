----------------------------- MODULE MCWebhooks -----------------------------
(* Two deliveries of a webhook, made by one or two emitters.               *)
EXTENDS Webhooks
=============================================================================
