--------------------------- MODULE MCWebhookClient ---------------------------
(* Small instances of WebhookClient for TLC. *)
EXTENDS WebhookClient

=============================================================================
