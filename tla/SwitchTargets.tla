--------------------------- MODULE SwitchTargets ---------------------------
(***************************************************************************)
(* What a kill-switch command can be aimed at: the whole system, a family  *)
(* or one desk of a family (_parse_target of v2/runtime/killctl.py).       *)
(***************************************************************************)

CONSTANTS
    Families,     \* families the switch can freeze
    Desks,        \* desk names, the same in every family
    NULL          \* Python's None

ASSUME NullAssumption == NULL \notin Families /\ NULL \notin Desks

System == [family |-> NULL, desk |-> NULL]
FamilyTarget(f) == [family |-> f, desk |-> NULL]
DeskTarget(f, d) == [family |-> f, desk |-> d]

Targets == {System} \cup {FamilyTarget(f) : f \in Families}
              \cup {DeskTarget(f, d) : f \in Families, d \in Desks}

IsFamily(t) == t.family # NULL /\ t.desk = NULL
IsDesk(t) == t.family # NULL /\ t.desk # NULL
=============================================================================
