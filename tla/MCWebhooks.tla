----------------------------- MODULE MCWebhooks -----------------------------
(* A small instance of the webhook intake for TLC. *)
EXTENDS Webhooks

\* Job i belongs to run i.
OneEach == [j \in Jobs |-> j]
=============================================================================
