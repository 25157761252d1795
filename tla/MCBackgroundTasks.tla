-------------------------- MODULE MCBackgroundTasks --------------------------
(* Small instances of BackgroundTasks for TLC. *)
EXTENDS BackgroundTasks

CONSTANT n1   \* a name
=============================================================================
