--------------------------- MODULE MCTimeoutRetry ---------------------------
(* TimeoutRetry with the retries given in the configurations.              *)
EXTENDS TimeoutRetry
=============================================================================
