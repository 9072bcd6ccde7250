------------------------------ MODULE MCSoakRun ------------------------------
(* A small instance of SoakRun: up to five loops with a sample in every
   second one, over a path of two days; each resource may
   leak, and the database may also grow without passing its threshold. *)
EXTENDS SoakRun

OneLeak ==
    {[rss |-> 4, fds |-> 1, db |-> 0], [rss |-> 5, fds |-> 1, db |-> 0],
     [rss |-> 4, fds |-> 5, db |-> 0],
     [rss |-> 4, fds |-> 1, db |-> 1], [rss |-> 4, fds |-> 1, db |-> 2]}
=============================================================================
