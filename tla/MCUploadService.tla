--------------------------- MODULE MCUploadService ---------------------------
\* Small instances of the upload service; the bounds are explained in README.md.
EXTENDS UploadService, TLC

\* Requests and sessions are interchangeable; used for safety only.
Symmetry == Permutations(Requests) \cup Permutations(Sessions)
=============================================================================
