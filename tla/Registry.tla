------------------------------- MODULE Registry -------------------------------
(* What commands share: the runtimes in registry.json and its lock, which is  *)
(* tried once and goes with the process that holds it (registry.rs).          *)

CONSTANT None       \* no process

VARIABLES
    runtimes,       \* the registered runtimes
    registry_lock   \* the process that holds registry.lock
=============================================================================
