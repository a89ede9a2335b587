------------------------------ MODULE MCLifecycle ------------------------------
(* Lifecycle for TLC: three requests that come and go for ever.              *)
EXTENDS Lifecycle
=============================================================================
