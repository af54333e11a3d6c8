--------------------------- MODULE MCEmailPipeline ---------------------------
\* Small instances of the email pipeline; the bounds are explained in README.md.
EXTENDS EmailPipeline
=============================================================================
