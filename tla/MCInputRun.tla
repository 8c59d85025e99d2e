----------------------------- MODULE MCInputRun -----------------------------
(* The instances of InputRun that TLC checks.                              *)
EXTENDS InputRun

\* A completion with no update, and one that alone makes the input ready.
MCSnapshotSizes == {0, 1}

\* No usable hint, and one that outlasts the first backoff delays.
MCRetryAfters == {0, 3}
=============================================================================
