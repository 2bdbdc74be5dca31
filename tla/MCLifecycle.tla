---------------------------- MODULE MCLifecycle ----------------------------
(* Two topics, so that a subscription can stop half way. *)
EXTENDS Lifecycle
=============================================================================
