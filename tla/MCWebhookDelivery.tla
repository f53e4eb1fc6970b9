------------------------- MODULE MCWebhookDelivery -------------------------
(* WebhookDelivery for TLC: its constants are all plain values.              *)
EXTENDS WebhookDelivery, TLC

=============================================================================
