--------------------------- MODULE MCWebhookInbox ---------------------------
(* Instances of WebhookInbox. *)
EXTENDS WebhookInbox
=============================================================================
