----------------------------- MODULE MCScheduler -----------------------------
(* Instances of Scheduler for TLC. *)
EXTENDS Scheduler, TLC

CONSTANTS r, a, b, e, g

MCTask == {r, a, b}
MCExternal == {e}

\* a and b may wait for each other, r for a task and a composition.
Awaits == {<<r, a>>, <<r, g>>, <<a, b>>, <<b, a>>, <<b, e>>}

\* A composition over a task, which may be cancelled, and an external future.
Members == {<<g, a>>, <<g, e>>}
=============================================================================
