-------------------------- MODULE MCCircuitBreaker ---------------------------
\* The two subscriptions of the email worker pod (email and campaign.email)
\* sharing one breaker that trips after three failures and stays open two ticks.
EXTENDS CircuitBreaker
=============================================================================
