----------------------------- MODULE MCWebhook -----------------------------
(* Instances of Webhook for TLC.                                           *)
EXTENDS Webhook

CONSTANTS c1, c2, c3, c4
=============================================================================
