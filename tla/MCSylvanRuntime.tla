-------------------------- MODULE MCSylvanRuntime ---------------------------
(* Three threads with two jobs each: a panic, a waiter that takes over the *)
(* poisoned mutex and one that still drops its fields can coincide.        *)
EXTENDS SylvanRuntime
=============================================================================
