---------------------------- MODULE MCRabbitClient ---------------------------
(***************************************************************************)
(* TLC instance of RabbitClient: the email worker's two subscriptions,     *)
(* connections lost three times, also while they are being restored.       *)
(***************************************************************************)
EXTENDS RabbitClient
=============================================================================
