------------------------------ MODULE MCOutbox -------------------------------
\* Two pods, as deployed, on three requests with batches of two: a batch smaller
\* than the backlog, and a retry budget that one refusal does not exhaust.
EXTENDS Outbox
=============================================================================
