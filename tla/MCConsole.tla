----------------------------- MODULE MCConsole -----------------------------
(* An instance of Console for TLC: an hour has 8 ticks, ticks wraps after 11. *)
EXTENDS Console

Limits ==
    { [ev |-> 4, rx |-> 0, clock |-> FALSE],
      [ev |-> 2, rx |-> 2, clock |-> FALSE],
      [ev |-> 1, rx |-> 1, clock |-> TRUE] }
=============================================================================
