----------------------------- MODULE AtomicMove -----------------------------
(***************************************************************************)
(* What relocating a project promises: one decision, taken once.  Either   *)
(* the project moves and the origin then releases it, or it stays.  The    *)
(* promise is that of src/crates/core/src/handoff.rs read for two Homes:   *)
(* a decision never reverses (COMMIT_TERMINAL, ABORT_KEEPS_ORIGIN_HOME)    *)
(* and the origin gives the project up only to a Home that has it          *)
(* (STATE_BEFORE_HOME).                                                    *)
(***************************************************************************)
VARIABLES
  decision,    \* "open", "moved" or "kept"
  released     \* whether the origin has given the project up

vars == <<decision, released>>

Init == decision = "open" /\ released = FALSE

Move == decision = "open" /\ decision' = "moved" /\ UNCHANGED released

Keep == decision = "open" /\ decision' = "kept" /\ UNCHANGED released

Release == decision = "moved" /\ released' = TRUE /\ UNCHANGED decision

Next == Move \/ Keep \/ Release

Spec == Init /\ [][Next]_vars
=============================================================================
