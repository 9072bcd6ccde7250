--------------------------- MODULE SwitchPromise ---------------------------
(***************************************************************************)
(* What the kill-switch promises an operator, with no files, processes or  *)
(* incidents: a set of restrictions in force.  A command puts one in force *)
(* or lifts one, and touches no other; a family is not released while one  *)
(* of its desks is isolated.                                               *)
(***************************************************************************)
EXTENDS SwitchTargets

VARIABLE active     \* the targets under a restriction

Init == active = {}

Activate(t) == active' = active \cup {t}

Clear(t) ==
    /\ IsFamily(t) => \A u \in active : ~ (IsDesk(u) /\ u.family = t.family)
    /\ active' = active \ {t}

Next == \E t \in Targets : Activate(t) \/ Clear(t)

Spec == Init /\ [][Next]_active
=============================================================================
