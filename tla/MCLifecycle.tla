----------------------------- MODULE MCLifecycle -----------------------------
(* Small instances of Lifecycle. *)
EXTENDS Lifecycle

\* Two operations in the first boot, then one after a restart.
ThenOne == <<2, 1>>

=============================================================================
