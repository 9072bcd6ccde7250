-------------------------- MODULE KillSwitchProofs --------------------------
(***************************************************************************)
(* Proofs about KillSwitch, for every set of families, desks and operators *)
(* and for every value of the bounds.                                      *)
(***************************************************************************)
EXTENDS KillSwitch, FiniteSetTheorems, TLAPS

-----------------------------------------------------------------------------
(* What the commands make of a switch state. *)

\* A target is the system, a family or a desk of a family.
LEMMA TargetCases ==
    ASSUME NEW t \in Targets
    PROVE  \/ t = System /\ t.family = NULL /\ t.desk = NULL /\ ~ IsFamily(t) /\ ~ IsDesk(t)
           \/ \E f \in Families : t = FamilyTarget(f) /\ t.family = f /\ t.desk = NULL
                                  /\ IsFamily(t) /\ ~ IsDesk(t) /\ t # System
           \/ \E f \in Families, d \in Desks :
                t = DeskTarget(f, d) /\ t.family = f /\ t.desk = d
                /\ IsDesk(t) /\ ~ IsFamily(t) /\ t # System
BY NullAssumption DEF Targets, System, FamilyTarget, DeskTarget, IsFamily, IsDesk

\* The commands of killctl keep the switch state well-formed.
LEMMA CommandTypes ==
    ASSUME NEW s \in KillSwitchState, NEW t \in Targets
    PROVE  Activate(s, t) \in KillSwitchState /\ ClearTarget(s, t) \in KillSwitchState
<1>1. ASSUME NEW f \in Families, NEW v \in FamilyState
      PROVE  [s EXCEPT !.families[f] = v] \in KillSwitchState
  BY <1>1 DEF KillSwitchState
<1>2. ASSUME NEW x \in SwitchState
      PROVE  [s EXCEPT !.system_state = x] \in KillSwitchState
  BY <1>2 DEF KillSwitchState
<1>3. ASSUME NEW f \in Families, NEW x \in SwitchState
      PROVE  [s EXCEPT !.families[f].state = x] \in KillSwitchState
  BY <1>1, [s.families[f] EXCEPT !.state = x] \in FamilyState DEF KillSwitchState, FamilyState
<1>4. ASSUME NEW f \in Families, NEW D \in SUBSET Desks
      PROVE  [s EXCEPT !.families[f].isolated_desks = D] \in KillSwitchState
  BY <1>1, [s.families[f] EXCEPT !.isolated_desks = D] \in FamilyState DEF KillSwitchState, FamilyState
<1>5. ASSUME NEW f \in Families, NEW d \in Desks
      PROVE  /\ s.families[f].isolated_desks \cup {d} \in SUBSET Desks
             /\ s.families[f].isolated_desks \ {d} \in SUBSET Desks
  BY DEF KillSwitchState, FamilyState
<1>6. CASE t = System
  BY <1>6, <1>2, TargetCases DEF Activate, HaltSystem, ClearTarget, SwitchState
<1>7. ASSUME NEW f \in Families, t = FamilyTarget(f)
      PROVE  Activate(s, t) \in KillSwitchState /\ ClearTarget(s, t) \in KillSwitchState
  BY <1>7, <1>3, NullAssumption DEF Activate, FreezeFamily, ClearTarget, SwitchState, FamilyTarget
<1>8. ASSUME NEW f \in Families, NEW d \in Desks, t = DeskTarget(f, d)
      PROVE  Activate(s, t) \in KillSwitchState /\ ClearTarget(s, t) \in KillSwitchState
  <2>1. t.family = f /\ t.desk = d /\ f # NULL /\ d # NULL
    BY <1>8, NullAssumption DEF DeskTarget
  <2>2. Activate(s, t) = [s EXCEPT !.families[f].isolated_desks = s.families[f].isolated_desks \cup {d}]
    BY <2>1 DEF Activate, IsolateDesk
  <2>3. ClearTarget(s, t) = [s EXCEPT !.families[f].isolated_desks = s.families[f].isolated_desks \ {d}]
    BY <2>1 DEF ClearTarget
  <2>4. QED  BY <2>2, <2>3, <1>4, <1>5
<1>9. QED  BY <1>6, <1>7, <1>8, TargetCases

\* An isolate, freeze or halt adds its own target to what is in force, nothing else.
LEMMA ActivateAddsTarget ==
    ASSUME NEW s \in KillSwitchState, NEW t \in Targets
    PROVE  Active(Activate(s, t)) = Active(s) \cup {t}
<1>1. CASE t = System
  BY <1>1, TargetCases, NullAssumption DEF KillSwitchState, FamilyState, Activate, HaltSystem, Active, HALTING_STATES, System
<1>2. ASSUME NEW f \in Families, t = FamilyTarget(f)
      PROVE  Active(Activate(s, t)) = Active(s) \cup {t}
  BY <1>2, TargetCases, NullAssumption DEF KillSwitchState, FamilyState, Activate, FreezeFamily, Active, HALTING_STATES, FamilyTarget, IsFamily, IsDesk, System
<1>3. ASSUME NEW f \in Families, NEW d \in Desks, t = DeskTarget(f, d)
      PROVE  Active(Activate(s, t)) = Active(s) \cup {t}
  BY <1>3, TargetCases, NullAssumption DEF KillSwitchState, FamilyState, Activate, IsolateDesk, Active, HALTING_STATES, DeskTarget, IsFamily, IsDesk, System
<1>4. QED  BY <1>1, <1>2, <1>3, TargetCases

\* A clear lifts the restriction on its own target, nothing else.
LEMMA ClearRemovesTarget ==
    ASSUME NEW s \in KillSwitchState, NEW t \in Targets
    PROVE  Active(ClearTarget(s, t)) = Active(s) \ {t}
<1>1. CASE t = System
  BY <1>1, TargetCases, NullAssumption DEF KillSwitchState, FamilyState, ClearTarget, Active, HALTING_STATES, System
<1>2. ASSUME NEW f \in Families, t = FamilyTarget(f)
      PROVE  Active(ClearTarget(s, t)) = Active(s) \ {t}
  BY <1>2, TargetCases, NullAssumption DEF KillSwitchState, FamilyState, ClearTarget, Active, HALTING_STATES, FamilyTarget, IsFamily, IsDesk, System
<1>3. ASSUME NEW f \in Families, NEW d \in Desks, t = DeskTarget(f, d)
      PROVE  Active(ClearTarget(s, t)) = Active(s) \ {t}
  BY <1>3, TargetCases, NullAssumption DEF KillSwitchState, FamilyState, ClearTarget, Active, HALTING_STATES, DeskTarget, IsFamily, IsDesk, System
<1>4. QED  BY <1>1, <1>2, <1>3, TargetCases

\* A missing, empty or default file restricts nothing.
LEMMA DefaultRestrictsNothing ==
    DefaultState \in KillSwitchState /\ Active(DefaultState) = {}
BY TargetCases, NullAssumption DEF DefaultState, DefaultFamily, KillSwitchState, FamilyState, SwitchState, Active, HALTING_STATES, IsFamily, IsDesk

-----------------------------------------------------------------------------
(* Type correctness. *)

\* The number of lines an incident id counts is a natural number.
LEMMA LinesAtFinite ==
    ASSUME incidents \in Seq(Incident), NEW sec
    PROVE  IsFiniteSet(LinesAt(incidents, sec)) /\ Cardinality(LinesAt(incidents, sec)) \in Nat
<1>1. DOMAIN incidents = 1..Len(incidents) /\ Len(incidents) \in Nat
  OBVIOUS
<1>2. IsFiniteSet(1..Len(incidents))
  BY <1>1, FS_Interval
<1>3. LinesAt(incidents, sec) \subseteq 1..Len(incidents)
  BY <1>1 DEF LinesAt
<1>4. QED  BY <1>2, <1>3, FS_Subset, FS_CardinalityType

\* A step of a command keeps the types.
LEMMA CommandStepType ==
    ASSUME TypeOK, NEW o \in Operators, CommandStep(o)
    PROVE  TypeOK'
<1> USE DEF TypeOK
<1>0. op[o] \in OpState /\ op[o].state \in KillSwitchState /\ op[o].target \in Targets
  BY DEF OpState
<1>1. ASSUME NEW c \in Command, NEW t \in Targets, Load(o, c, t) PROVE TypeOK'
  <2>1. NoIncident \in Incident
    BY BoundAssumption DEF NoIncident, Incident, NoId, IncidentId, Targets
  <2>2. [pc |-> "loaded", command |-> c, target |-> t, state |-> yaml,
         now |-> clock, incident |-> NoIncident] \in OpState
    BY <2>1 DEF OpState
  <2>3. QED  BY <1>1, <2>2 DEF Load
<1>2. CASE NewIncident(o)
  <2> DEFINE id == [sec |-> op[o].now, n |-> Cardinality(LinesAt(incidents, op[o].now)) + 1]
             inc == [id |-> id, target |-> op[o].target, status |-> "open"]
             new == [op[o] EXCEPT !.pc = "ready", !.incident = inc,
                                  !.state = Activate(op[o].state, op[o].target)]
  <2>1. inc \in Incident
    BY <1>0, LinesAtFinite DEF Incident, IncidentId, OpState
  <2>2. Activate(op[o].state, op[o].target) \in KillSwitchState
    BY <1>0, CommandTypes
  <2>3. new \in OpState
    BY <1>0, <2>1, <2>2 DEF OpState
  <2>4. op' = [op EXCEPT ![o] = new]
    BY <1>2 DEF NewIncident
  <2>5. QED  BY <1>2, <2>3, <2>4 DEF NewIncident
<1>3. ASSUME NEW i \in DOMAIN incidents, FindIncident(o, i) PROVE TypeOK'
  <2> DEFINE inc == [incidents[i] EXCEPT !.status = "closed"]
             new == [op[o] EXCEPT !.pc = "ready", !.incident = inc,
                                  !.state = ClearTarget(op[o].state, op[o].target)]
  <2>0. incidents[i] \in Incident
    OBVIOUS
  <2>1. inc \in Incident
    BY <2>0 DEF Incident
  <2>2. ClearTarget(op[o].state, op[o].target) \in KillSwitchState
    BY <1>0, CommandTypes
  <2>3. new \in OpState
    BY <1>0, <2>1, <2>2 DEF OpState
  <2>4. op' = [op EXCEPT ![o] = new]
    BY <1>3 DEF FindIncident
  <2>5. QED  BY <1>3, <2>3, <2>4 DEF FindIncident
<1>4. Idle \in OpState
  BY DefaultRestrictsNothing, BoundAssumption
     DEF Idle, OpState, NoIncident, NoId, Incident, IncidentId, Command, Targets
<1>5. CASE RefuseClear(o)
  BY <1>4, <1>5 DEF RefuseClear
<1>6. CASE AppendIncident(o)
  <2>1. op[o].incident \in Incident /\ [op[o] EXCEPT !.pc = "logged"] \in OpState
    BY <1>0 DEF OpState
  <2>2. QED  BY <1>6, <2>1 DEF AppendIncident
<1>7. CASE TruncateFile(o)
  <2>1. [op[o] EXCEPT !.pc = "torn"] \in OpState
    BY <1>0 DEF OpState
  <2>2. QED  BY <1>7, <2>1, DefaultRestrictsNothing DEF TruncateFile
<1>8. CASE WriteFile(o)
  BY <1>0, <1>4, <1>8 DEF WriteFile
<1>9. CASE Crash(o)
  BY <1>4, <1>9 DEF Crash
<1>10. QED
  BY <1>1, <1>2, <1>3, <1>5, <1>6, <1>7, <1>8, <1>9 DEF CommandStep

\* Every reachable state is well-typed: whatever the commands, their order and
\* the crashes, the file and the incident log stay well-formed.
THEOREM TypeCorrect == Spec => []TypeOK
<1>1. Init => TypeOK
  <2> SUFFICES ASSUME Init PROVE TypeOK
    OBVIOUS
  <2>1. Idle \in OpState
    BY DefaultRestrictsNothing, BoundAssumption
       DEF Idle, OpState, NoIncident, NoId, Incident, IncidentId, Command, Targets
  <2>2. QED  BY <2>1, DefaultRestrictsNothing, BoundAssumption DEF Init, TypeOK, View
<1>2. TypeOK /\ [Next]_vars => TypeOK'
  <2> SUFFICES ASSUME TypeOK, [Next]_vars PROVE TypeOK'
    OBVIOUS
  <2>1. ASSUME NEW o \in Operators, CommandStep(o) PROVE TypeOK'
    BY <2>1, CommandStepType
  <2>2. CASE AdvanceClock
    BY <2>2, BoundAssumption DEF AdvanceClock, TypeOK
  <2>3. ASSUME NEW f \in Families, LoadKillSwitch(f) PROVE TypeOK'
    <3>1. [halting |-> IsHalting(yaml, f), isolated |-> IsolatedDesks(yaml, f),
           due |-> acked] \in View
      BY DEF TypeOK, View, IsHalting, IsolatedDesks, KillSwitchState, FamilyState
    <3>2. QED  BY <2>3, <3>1 DEF LoadKillSwitch, TypeOK
  <2>4. CASE UNCHANGED vars
    BY <2>4 DEF vars, TypeOK
  <2>5. QED  BY <2>1, <2>2, <2>3, <2>4 DEF Next
<1>3. QED  BY <1>1, <1>2, PTL DEF Spec

-----------------------------------------------------------------------------
(* Every restriction in force has an incident behind it. *)

\* Every target of T has an incident line.
Recorded(T) == \A t \in T : \E i \in DOMAIN incidents : incidents[i].target = t

\* What a command has loaded or computed is on record as well; between
\* numbering its incident and appending it, all but that incident's target.
RecordInv ==
    /\ Recorded(Active(yaml))
    /\ \A o \in Operators :
        /\ op[o].pc \in {"loaded", "logged", "torn"} => Recorded(Active(op[o].state))
        /\ op[o].pc = "ready" => Recorded(Active(op[o].state) \ {op[o].incident.target})

\* A step of a command keeps the record complete.
LEMMA CommandStepRecords ==
    ASSUME TypeOK, RecordInv, NEW o \in Operators, CommandStep(o)
    PROVE  RecordInv'
<1>0. op[o] \in OpState /\ op[o].state \in KillSwitchState /\ op[o].target \in Targets
      /\ op \in [Operators -> OpState]
  BY DEF TypeOK, OpState
<1>1. ASSUME NEW c \in Command, NEW t \in Targets, Load(o, c, t) PROVE RecordInv'
  BY <1>1, <1>0 DEF Load, RecordInv, Recorded
<1>2. CASE NewIncident(o)
  <2>1. Active(Activate(op[o].state, op[o].target)) = Active(op[o].state) \cup {op[o].target}
    BY <1>0, ActivateAddsTarget
  <2>2. /\ op'[o].pc = "ready"
        /\ op'[o].incident.target = op[o].target
        /\ op'[o].state = Activate(op[o].state, op[o].target)
        /\ \A p \in Operators \ {o} : op'[p] = op[p]
    BY <1>2, <1>0 DEF NewIncident, OpState
  <2>3. UNCHANGED <<yaml, incidents>> /\ op[o].pc = "loaded"
    BY <1>2 DEF NewIncident
  <2>4. QED  BY <2>1, <2>2, <2>3 DEF RecordInv, Recorded
<1>3. ASSUME NEW i \in DOMAIN incidents, FindIncident(o, i) PROVE RecordInv'
  <2>1. Active(ClearTarget(op[o].state, op[o].target)) = Active(op[o].state) \ {op[o].target}
    BY <1>0, ClearRemovesTarget
  <2>2. /\ op'[o].pc = "ready"
        /\ op'[o].state = ClearTarget(op[o].state, op[o].target)
        /\ \A p \in Operators \ {o} : op'[p] = op[p]
    BY <1>3, <1>0 DEF FindIncident, OpState
  <2>3. UNCHANGED <<yaml, incidents>> /\ op[o].pc = "loaded"
    BY <1>3 DEF FindIncident
  <2>4. QED  BY <2>1, <2>2, <2>3 DEF RecordInv, Recorded
<1>4. CASE RefuseClear(o)
  BY <1>4, <1>0 DEF RefuseClear, RecordInv, Recorded, Idle
<1>5. CASE AppendIncident(o)
  <2>1. /\ DOMAIN incidents \subseteq DOMAIN incidents'
        /\ \A i \in DOMAIN incidents : incidents'[i] = incidents[i]
        /\ \E i \in DOMAIN incidents' : incidents'[i] = op[o].incident
    <3>1. /\ incidents \in Seq(Incident) /\ incidents' = Append(incidents, op[o].incident)
          /\ Len(incidents) + 1 \in DOMAIN incidents'
      BY <1>5 DEF AppendIncident, TypeOK
    <3>2. QED  BY <3>1
  <2>2. /\ op'[o].pc = "logged" /\ op'[o].state = op[o].state /\ op[o].pc = "ready"
        /\ \A p \in Operators \ {o} : op'[p] = op[p]
        /\ yaml' = yaml
    BY <1>5, <1>0 DEF AppendIncident, OpState
  <2>4. Recorded(Active(yaml))'
    BY <2>1, <2>2 DEF RecordInv, Recorded
  <2>5. Recorded(Active(op[o].state))'
    BY <2>1, <2>2 DEF RecordInv, Recorded
  <2>6. ASSUME NEW p \in Operators, p # o
        PROVE  /\ op'[p].pc \in {"loaded", "logged", "torn"} => Recorded(Active(op[p].state))'
               /\ op'[p].pc = "ready" => Recorded(Active(op[p].state) \ {op[p].incident.target})'
    BY <2>1, <2>2, <2>6 DEF RecordInv, Recorded
  <2>7. QED  BY <2>2, <2>4, <2>5, <2>6 DEF RecordInv
<1>6. CASE TruncateFile(o)
  BY <1>6, <1>0, DefaultRestrictsNothing DEF TruncateFile, RecordInv, Recorded, OpState
<1>7. CASE WriteFile(o)
  BY <1>7, <1>0 DEF WriteFile, RecordInv, Recorded, Idle
<1>8. CASE Crash(o)
  BY <1>8, <1>0 DEF Crash, RecordInv, Recorded, Idle
<1>9. QED
  BY <1>1, <1>2, <1>3, <1>4, <1>5, <1>6, <1>7, <1>8 DEF CommandStep

\* Whatever the schedule, the crashes and the lost updates, a restriction that
\* the file puts in force has an incident line opened for its very target:
\* killctl appends the line before it rewrites the file.
THEOREM RestrictionsAreRecorded == Spec => []ActivationHasIncident
<1>1. Init => RecordInv
  BY DefaultRestrictsNothing DEF Init, RecordInv, Recorded, Idle
<1>2. TypeOK /\ RecordInv /\ [Next]_vars => RecordInv'
  <2> SUFFICES ASSUME TypeOK, RecordInv, [Next]_vars PROVE RecordInv'
    OBVIOUS
  <2>1. ASSUME NEW o \in Operators, CommandStep(o) PROVE RecordInv'
    BY <2>1, CommandStepRecords
  <2>2. CASE AdvanceClock
    BY <2>2 DEF AdvanceClock, RecordInv, Recorded
  <2>3. ASSUME NEW f \in Families, LoadKillSwitch(f) PROVE RecordInv'
    BY <2>3 DEF LoadKillSwitch, RecordInv, Recorded
  <2>4. CASE UNCHANGED vars
    BY <2>4 DEF vars, RecordInv, Recorded
  <2>5. QED  BY <2>1, <2>2, <2>3, <2>4 DEF Next
<1>3. RecordInv => ActivationHasIncident
  BY DEF RecordInv, Recorded, ActivationHasIncident
<1>4. QED  BY <1>1, <1>2, <1>3, TypeCorrect, PTL DEF Spec

-----------------------------------------------------------------------------
(* One command at a time, and no crash while the file is being rewritten.  *)

Disciplined == Serial /\ "torn" \notin CrashPoints

\* Only one command runs.  Until it opens the file for writing the file holds
\* every acknowledged restriction; a command that computed its new state holds
\* them too, together with the one it activates, and it did so from what is
\* still in the file.  A running clear has withdrawn the promise it lifts.
SerialInv ==
    /\ \A o, p \in Operators : op[o].pc # "idle" /\ op[p].pc # "idle" => o = p
    /\ (\A o \in Operators : op[o].pc # "torn") => acked \subseteq Active(yaml)
    /\ \A o \in Operators :
        /\ op[o].pc = "loaded" => op[o].state = yaml
        /\ op[o].pc \in {"ready", "logged"} =>
            \/ op[o].command = "activate" /\ op[o].state = Activate(yaml, op[o].target)
            \/ op[o].command = "clear" /\ op[o].state = ClearTarget(yaml, op[o].target)
               /\ ~ ClearRefused(yaml, op[o].target)
        /\ op[o].pc = "torn" => acked \subseteq Active(op[o].state)
        /\ op[o].pc = "torn" /\ op[o].command = "activate" =>
             op[o].target \in Active(op[o].state)
        /\ op[o].pc # "idle" /\ op[o].command = "clear" => op[o].target \notin acked

\* A step of a command preserves it.
LEMMA CommandStepSerial ==
    ASSUME Disciplined, TypeOK, SerialInv, NEW o \in Operators, CommandStep(o)
    PROVE  SerialInv'
<1>0. /\ op[o] \in OpState /\ op[o].state \in KillSwitchState /\ op[o].target \in Targets
      /\ op \in [Operators -> OpState] /\ yaml \in KillSwitchState /\ op[o].command \in Command
  BY DEF TypeOK, OpState
<1>1. ASSUME NEW c \in Command, NEW t \in Targets, Load(o, c, t) PROVE SerialInv'
  <2>1. \A p \in Operators : op[p].pc = "idle"
    BY <1>1 DEF Load, MayRun, Disciplined
  <2>2. op' = [op EXCEPT ![o] = [pc |-> "loaded", command |-> c, target |-> t, state |-> yaml,
                                 now |-> clock, incident |-> NoIncident]]
        /\ yaml' = yaml /\ acked' = IF c = "clear" THEN acked \ {t} ELSE acked
    BY <1>1 DEF Load
  <2>3. QED  BY <1>0, <2>1, <2>2 DEF SerialInv
<1>2. CASE NewIncident(o)
  <2>1. /\ op[o].pc = "loaded" /\ op[o].command = "activate"
        /\ op'[o].pc = "ready" /\ op'[o].command = op[o].command /\ op'[o].target = op[o].target
        /\ op'[o].state = Activate(op[o].state, op[o].target)
        /\ \A p \in Operators \ {o} : op'[p] = op[p]
        /\ UNCHANGED <<yaml, acked>>
    BY <1>2, <1>0 DEF NewIncident, OpState
  <2>2. QED  BY <2>1 DEF SerialInv
<1>3. ASSUME NEW i \in DOMAIN incidents, FindIncident(o, i) PROVE SerialInv'
  <2>1. /\ op[o].pc = "loaded" /\ op[o].command = "clear"
        /\ ~ ClearRefused(op[o].state, op[o].target)
        /\ op'[o].pc = "ready" /\ op'[o].command = op[o].command /\ op'[o].target = op[o].target
        /\ op'[o].state = ClearTarget(op[o].state, op[o].target)
        /\ \A p \in Operators \ {o} : op'[p] = op[p]
        /\ UNCHANGED <<yaml, acked>>
    BY <1>3, <1>0 DEF FindIncident, OpState
  <2>2. QED  BY <2>1 DEF SerialInv
<1>4. CASE RefuseClear(o)
  BY <1>4, <1>0 DEF RefuseClear, SerialInv, Idle
<1>5. CASE AppendIncident(o)
  BY <1>5, <1>0 DEF AppendIncident, SerialInv, OpState
<1>6. CASE TruncateFile(o)
  <2>1. /\ op[o].pc = "logged" /\ op'[o].pc = "torn" /\ op'[o].state = op[o].state
        /\ op'[o].command = op[o].command /\ op'[o].target = op[o].target
        /\ \A p \in Operators \ {o} : op'[p] = op[p] /\ op[p].pc = "idle"
        /\ acked' = acked
    BY <1>6, <1>0 DEF TruncateFile, OpState, SerialInv
  <2>2. acked \subseteq Active(yaml)
    BY <2>1 DEF SerialInv
  <2>3. CASE op[o].command = "activate"
    <3>1. Active(op[o].state) = Active(yaml) \cup {op[o].target}
      BY <2>1, <2>3, <1>0, ActivateAddsTarget DEF SerialInv
    <3>2. QED  BY <2>1, <2>2, <2>3, <3>1 DEF SerialInv
  <2>4. CASE op[o].command = "clear"
    <3>1. Active(op[o].state) = Active(yaml) \ {op[o].target}
      BY <2>1, <2>4, <1>0, ClearRemovesTarget DEF SerialInv
    <3>2. QED  BY <2>1, <2>2, <2>4, <3>1 DEF SerialInv
  <2>5. QED  BY <1>0, <2>3, <2>4 DEF Command
<1>7. CASE WriteFile(o)
  <2>1. /\ op[o].pc = "torn" /\ op'[o] = Idle /\ yaml' = op[o].state
        /\ \A p \in Operators \ {o} : op'[p] = op[p] /\ op[p].pc = "idle"
        /\ acked' \subseteq acked \cup {op[o].target}
        /\ op[o].command # "activate" => acked' = acked
    BY <1>7, <1>0 DEF WriteFile, SerialInv
  <2>2. acked' \subseteq Active(yaml')
    BY <2>1 DEF SerialInv
  <2>3. QED  BY <2>1, <2>2 DEF SerialInv, Idle
<1>8. CASE Crash(o)
  <2>1. op[o].pc # "torn"
    BY <1>8 DEF Crash, Disciplined
  <2>2. QED  BY <1>8, <1>0, <2>1 DEF Crash, SerialInv, Idle
<1>9. QED
  BY <1>1, <1>2, <1>3, <1>4, <1>5, <1>6, <1>7, <1>8 DEF CommandStep

\* The serial invariant holds throughout.
LEMMA SerialInvariant ==
    ASSUME Disciplined
    PROVE  Spec => []SerialInv
<1>1. Init => SerialInv
  BY DEF Init, SerialInv, Idle
<1>2. TypeOK /\ SerialInv /\ [Next]_vars => SerialInv'
  <2> SUFFICES ASSUME TypeOK, SerialInv, [Next]_vars PROVE SerialInv'
    OBVIOUS
  <2>1. ASSUME NEW o \in Operators, CommandStep(o) PROVE SerialInv'
    BY <2>1, CommandStepSerial
  <2>2. CASE AdvanceClock
    BY <2>2 DEF AdvanceClock, SerialInv
  <2>3. ASSUME NEW f \in Families, LoadKillSwitch(f) PROVE SerialInv'
    BY <2>3 DEF LoadKillSwitch, SerialInv
  <2>4. CASE UNCHANGED vars
    BY <2>4 DEF vars, SerialInv
  <2>5. QED  BY <2>1, <2>2, <2>3, <2>4 DEF Next
<1>3. QED  BY <1>1, <1>2, TypeCorrect, PTL DEF Spec

\* Under the serial schedule, with crashes only before the file is rewritten, a
\* tick that starts after an activation returned finds it in force.
THEOREM AcknowledgedIsEnforced ==
    ASSUME Disciplined
    PROVE  Spec => []ReadsEnforceAcked
<1>1. Init => ReadsEnforceAcked
  <2>1. ASSUME Init, NEW f \in Families PROVE view[f].due = {}
    BY <2>1 DEF Init
  <2>2. QED  BY <2>1 DEF ReadsEnforceAcked
<1>2. TypeOK /\ SerialInv /\ ReadsEnforceAcked /\ [Next]_vars => ReadsEnforceAcked'
  <2> SUFFICES ASSUME TypeOK, SerialInv, ReadsEnforceAcked, [Next]_vars
               PROVE  ReadsEnforceAcked'
    OBVIOUS
  <2>1. CASE view' = view
    BY <2>1 DEF ReadsEnforceAcked
  <2>2. ASSUME NEW f \in Families, LoadKillSwitch(f) PROVE ReadsEnforceAcked'
    <3>1. acked \subseteq Active(yaml)
      BY <2>2 DEF LoadKillSwitch, MayRead, Disciplined, SerialInv
    <3>2. /\ System \in acked \/ FamilyTarget(f) \in acked => IsHalting(yaml, f)
          /\ \A d \in Desks : DeskTarget(f, d) \in acked
                => IsHalting(yaml, f) \/ d \in IsolatedDesks(yaml, f)
      BY <3>1, NullAssumption DEF Active, IsHalting, IsolatedDesks, System, FamilyTarget,
         DeskTarget, IsFamily, IsDesk
    <3>3. view' = [view EXCEPT ![f] = [halting |-> IsHalting(yaml, f),
                                       isolated |-> IsolatedDesks(yaml, f), due |-> acked]]
          /\ view \in [Families -> View]
      BY <2>2 DEF LoadKillSwitch, TypeOK
    <3>4. QED  BY <3>2, <3>3 DEF ReadsEnforceAcked
  <2>3. QED
    BY <2>1, <2>2 DEF Next, CommandStep, Load, NewIncident, FindIncident, RefuseClear,
       AppendIncident, TruncateFile, WriteFile, Crash, AdvanceClock, vars
<1>3. QED  BY <1>1, <1>2, TypeCorrect, SerialInvariant, PTL DEF Spec

\* Under the same discipline the commands implement the abstract switch: each
\* changes the restriction it names and no other, and a family is not released
\* over its isolated desks.
THEOREM CommandsKeepPromise ==
    ASSUME Disciplined
    PROVE  Spec => KeepsPromise
<1>1. Init => Promise!Init
  <2> SUFFICES ASSUME Init PROVE VisibleActive = {}
    BY DEF Promise!Init
  <2>1. \A o \in Operators : op[o].pc = "idle"
    BY DEF Init, Idle
  <2>2. QED  BY <2>1, DefaultRestrictsNothing DEF Init, VisibleActive
<1>2. TypeOK /\ SerialInv /\ SerialInv' /\ [Next]_vars => [Promise!Next]_VisibleActive
  <2> SUFFICES ASSUME TypeOK, SerialInv, SerialInv', [Next]_vars
               PROVE  [Promise!Next]_VisibleActive
    OBVIOUS
  <2>0. \A o \in Operators : /\ op[o].state \in KillSwitchState /\ op[o].target \in Targets
                             /\ op[o].command \in Command /\ op[o] \in OpState
    BY DEF TypeOK, OpState
  <2>1. ASSUME NEW o \in Operators, op[o].pc = "torn"
        PROVE  VisibleActive = Active(op[o].state)
    BY <2>1 DEF VisibleActive, SerialInv
  <2>2. ASSUME \A o \in Operators : op[o].pc # "torn"
        PROVE  VisibleActive = Active(yaml)
    BY <2>2 DEF VisibleActive
  <2>3. ASSUME NEW o \in Operators, op'[o].pc = "torn"
        PROVE  VisibleActive' = Active(op'[o].state)
    BY <2>3 DEF VisibleActive, SerialInv
  <2>4. ASSUME \A o \in Operators : op'[o].pc # "torn"
        PROVE  VisibleActive' = Active(yaml')
    BY <2>4 DEF VisibleActive
  <2>5. ASSUME yaml' = yaml,
               \A o \in Operators : op[o].pc # "torn" /\ op'[o].pc # "torn"
        PROVE  VisibleActive' = VisibleActive
    BY <2>5, <2>2, <2>4
  <2>6. ASSUME UNCHANGED <<yaml, op>> PROVE VisibleActive' = VisibleActive
    BY <2>6 DEF VisibleActive
  <2>7. ASSUME NEW o \in Operators, CommandStep(o)
        PROVE  Promise!Next \/ VisibleActive' = VisibleActive
    <3>1. CASE TruncateFile(o)
      <4>1. /\ op[o].pc = "logged" /\ op'[o].pc = "torn" /\ op'[o].state = op[o].state
            /\ \A p \in Operators : op[p].pc # "torn"
        BY <3>1, <2>0 DEF TruncateFile, OpState, SerialInv, TypeOK
      <4>2. VisibleActive = Active(yaml) /\ VisibleActive' = Active(op[o].state)
        BY <4>1, <2>2, <2>3
      <4>3. CASE op[o].command = "activate"
        <5>1. VisibleActive' = VisibleActive \cup {op[o].target}
          BY <4>1, <4>2, <4>3, <2>0, ActivateAddsTarget DEF SerialInv, TypeOK
        <5>2. QED  BY <5>1, <2>0 DEF Promise!Next, Promise!Activate, Promise!Targets, Targets,
                      Promise!System, System, Promise!FamilyTarget, FamilyTarget,
                      Promise!DeskTarget, DeskTarget
      <4>4. CASE op[o].command = "clear"
        <5>1. op[o].state = ClearTarget(yaml, op[o].target) /\ ~ ClearRefused(yaml, op[o].target)
          BY <4>1, <4>4 DEF SerialInv
        <5>2. VisibleActive' = VisibleActive \ {op[o].target}
          BY <5>1, <4>2, <2>0, ClearRemovesTarget DEF TypeOK
        <5>3. IsFamily(op[o].target) =>
                \A u \in VisibleActive : ~ (IsDesk(u) /\ u.family = op[o].target.family)
          BY <5>1, <4>2, TargetCases, NullAssumption
             DEF ClearRefused, Active, IsFamily, IsDesk, System
        <5>4. QED  BY <5>2, <5>3, <2>0 DEF Promise!Next, Promise!Clear, Promise!Targets, Targets,
                      Promise!System, System, Promise!FamilyTarget, FamilyTarget,
                      Promise!DeskTarget, DeskTarget, Promise!IsFamily, Promise!IsDesk,
                      IsFamily, IsDesk
      <4>5. QED  BY <4>3, <4>4, <2>0 DEF Command
    <3>2. CASE WriteFile(o)
      <4>1. /\ op[o].pc = "torn" /\ yaml' = op[o].state
            /\ \A p \in Operators : op'[p].pc # "torn"
        BY <3>2 DEF WriteFile, Idle, SerialInv, TypeOK
      <4>2. QED  BY <4>1, <2>1, <2>4
    <3>3. CASE ~ TruncateFile(o) /\ ~ WriteFile(o)
      <4> DEFINE Aside == /\ yaml' = yaml
                          /\ \A p \in Operators \ {o} : op'[p] = op[p]
                          /\ op[o].pc # "torn" /\ op'[o].pc # "torn"
      <4>0. op \in [Operators -> OpState] /\ op[o] \in OpState
        BY DEF TypeOK
      <4>1. Aside
        <5>1. ASSUME NEW c \in Command, NEW t \in Targets, Load(o, c, t) PROVE Aside
          BY <4>0, <5>1 DEF Load
        <5>2. CASE NewIncident(o)
          BY <4>0, <5>2 DEF NewIncident, OpState
        <5>3. ASSUME NEW i \in DOMAIN incidents, FindIncident(o, i) PROVE Aside
          BY <4>0, <5>3 DEF FindIncident, OpState
        <5>4. CASE RefuseClear(o)
          BY <4>0, <5>4 DEF RefuseClear, Idle
        <5>5. CASE AppendIncident(o)
          BY <4>0, <5>5 DEF AppendIncident, OpState
        <5>6. CASE Crash(o)
          BY <4>0, <5>6 DEF Crash, Idle, Disciplined
        <5>7. QED  BY <2>7, <3>3, <5>1, <5>2, <5>3, <5>4, <5>5, <5>6 DEF CommandStep
      <4>2. CASE \A p \in Operators : op[p].pc # "torn"
        BY <4>1, <4>2, <2>5
      <4>3. ASSUME NEW p \in Operators, op[p].pc = "torn"
            PROVE  VisibleActive' = VisibleActive
        BY <4>1, <4>3, <2>1, <2>3
      <4>4. QED  BY <4>2, <4>3
    <3>4. QED  BY <3>1, <3>2, <3>3
  <2>8. CASE AdvanceClock \/ (\E f \in Families : LoadKillSwitch(f)) \/ UNCHANGED vars
    BY <2>8, <2>6 DEF AdvanceClock, LoadKillSwitch, vars
  <2>9. QED  BY <2>7, <2>8 DEF Next
<1>3. QED
  BY <1>1, <1>2, TypeCorrect, SerialInvariant, PTL DEF Spec, KeepsPromise, Promise!Spec

-----------------------------------------------------------------------------
(* Incident ids. *)

\* The n of a logged id never exceeds the number of lines of its second, and
\* an incident about to be opened is numbered past all of them.
NumberInv ==
    /\ \A i \in DOMAIN incidents :
        incidents[i].id.n <= Cardinality(LinesAt(incidents, incidents[i].id.sec))
    /\ \A o \in Operators : op[o].pc = "ready" =>
        \/ /\ op[o].command = "activate" /\ op[o].incident.status = "open"
           /\ op[o].incident.id.n = Cardinality(LinesAt(incidents, op[o].incident.id.sec)) + 1
        \/ /\ op[o].command = "clear" /\ op[o].incident.status = "closed"
           /\ op[o].incident.id.n <= Cardinality(LinesAt(incidents, op[o].incident.id.sec))

\* Appending a line adds one to the count of its second and to no other.
LEMMA AppendCounts ==
    ASSUME incidents \in Seq(Incident), NEW x \in Incident, incidents' = Append(incidents, x)
    PROVE  /\ Cardinality(LinesAt(incidents', x.id.sec)) = Cardinality(LinesAt(incidents, x.id.sec)) + 1
           /\ \A sec : sec # x.id.sec => LinesAt(incidents', sec) = LinesAt(incidents, sec)
<1>1. /\ DOMAIN incidents = 1..Len(incidents) /\ Len(incidents) \in Nat
      /\ DOMAIN incidents' = 1..(Len(incidents) + 1)
      /\ \A i \in DOMAIN incidents : incidents'[i] = incidents[i]
      /\ incidents'[Len(incidents) + 1] = x
  OBVIOUS
<1>2. \A sec : sec # x.id.sec => LinesAt(incidents', sec) = LinesAt(incidents, sec)
  BY <1>1 DEF LinesAt
<1>3. LinesAt(incidents', x.id.sec) = LinesAt(incidents, x.id.sec) \cup {Len(incidents) + 1}
  BY <1>1 DEF LinesAt
<1>4. Len(incidents) + 1 \notin LinesAt(incidents, x.id.sec)
  BY <1>1 DEF LinesAt
<1>5. IsFiniteSet(LinesAt(incidents, x.id.sec))
  BY LinesAtFinite
<1>6. QED  BY <1>2, <1>3, <1>4, <1>5, FS_AddElement

OneAtATime == \A o, p \in Operators : op[o].pc # "idle" /\ op[p].pc # "idle" => o = p

\* A step of a command keeps the numbering.
LEMMA CommandStepNumbers ==
    ASSUME Serial, TypeOK, OneAtATime, NumberInv, IncidentIdsUnique,
           NEW o \in Operators, CommandStep(o)
    PROVE  OneAtATime' /\ NumberInv' /\ IncidentIdsUnique'
<1>0. /\ op \in [Operators -> OpState] /\ op[o] \in OpState /\ op[o].incident \in Incident
      /\ incidents \in Seq(Incident)
  BY DEF TypeOK, OpState
<1>1. ASSUME NEW c \in Command, NEW t \in Targets, Load(o, c, t)
      PROVE  OneAtATime' /\ NumberInv' /\ IncidentIdsUnique'
  <2>1. \A p \in Operators : op[p].pc = "idle"
    BY <1>1 DEF Load, MayRun
  <2>2. \A p \in Operators \ {o} : op'[p] = op[p]
    BY <1>0, <1>1 DEF Load
  <2>3. op'[o].pc = "loaded" /\ incidents' = incidents
    BY <1>0, <1>1 DEF Load
  <2>4. QED  BY <2>1, <2>2, <2>3 DEF OneAtATime, NumberInv, IncidentIdsUnique
<1>2. CASE NewIncident(o)
  <2>1. /\ op[o].pc = "loaded" /\ op[o].command = "activate"
        /\ op'[o].pc = "ready" /\ op'[o].command = "activate"
        /\ op'[o].incident.status = "open"
        /\ op'[o].incident.id.sec = op[o].now
        /\ op'[o].incident.id.n = Cardinality(LinesAt(incidents, op[o].now)) + 1
        /\ \A p \in Operators \ {o} : op'[p] = op[p]
        /\ incidents' = incidents
    BY <1>2, <1>0 DEF NewIncident, OpState
  <2>2. QED  BY <2>1 DEF OneAtATime, NumberInv, IncidentIdsUnique
<1>3. ASSUME NEW i \in DOMAIN incidents, FindIncident(o, i)
      PROVE  OneAtATime' /\ NumberInv' /\ IncidentIdsUnique'
  <2>0. incidents[i] \in Incident
    BY <1>0
  <2>1. /\ op[o].pc = "loaded" /\ op[o].command = "clear"
        /\ op'[o].pc = "ready" /\ op'[o].command = "clear"
        /\ op'[o].incident = [incidents[i] EXCEPT !.status = "closed"]
        /\ \A p \in Operators \ {o} : op'[p] = op[p]
        /\ incidents' = incidents
    BY <1>3, <1>0 DEF FindIncident, OpState
  <2>2. op'[o].incident.status = "closed" /\ op'[o].incident.id = incidents[i].id
    BY <2>0, <2>1 DEF Incident
  <2>3. op'[o].incident.id.n <= Cardinality(LinesAt(incidents, op'[o].incident.id.sec))
    BY <2>2 DEF NumberInv
  <2>4. NumberInv'
    BY <2>1, <2>2, <2>3 DEF NumberInv
  <2>5. QED  BY <2>1, <2>4 DEF OneAtATime, IncidentIdsUnique
<1>4. ASSUME op' = [op EXCEPT ![o] = Idle] \/ TruncateFile(o), incidents' = incidents
      PROVE  OneAtATime' /\ NumberInv' /\ IncidentIdsUnique'
  <2>1. /\ \A p \in Operators \ {o} : op'[p] = op[p]
        /\ op'[o].pc # "ready"
        /\ op'[o].pc # "idle" => op[o].pc # "idle"
    BY <1>4, <1>0 DEF Idle, TruncateFile, OpState
  <2>2. QED  BY <1>4, <2>1 DEF OneAtATime, NumberInv, IncidentIdsUnique
<1>5. CASE AppendIncident(o)
  <2> DEFINE x == op[o].incident
  <2>1. /\ op[o].pc = "ready" /\ op'[o].pc = "logged"
        /\ \A p \in Operators \ {o} : op'[p] = op[p] /\ op[p].pc = "idle"
        /\ incidents' = Append(incidents, x)
    BY <1>5, <1>0 DEF AppendIncident, OpState, OneAtATime
  <2>2. /\ DOMAIN incidents' = DOMAIN incidents \cup {Len(incidents) + 1}
        /\ \A i \in DOMAIN incidents : incidents'[i] = incidents[i]
        /\ incidents'[Len(incidents) + 1] = x
    BY <1>0, <2>1
  <2>3. /\ Cardinality(LinesAt(incidents', x.id.sec)) = Cardinality(LinesAt(incidents, x.id.sec)) + 1
        /\ \A sec : sec # x.id.sec => LinesAt(incidents', sec) = LinesAt(incidents, sec)
    BY <1>0, <2>1, AppendCounts
  <2>4. /\ Cardinality(LinesAt(incidents, x.id.sec)) \in Nat /\ x.id.n \in Nat
        /\ \A i \in DOMAIN incidents : incidents[i].id.n \in Nat
    <3>1. \A y \in Incident : y.id.n \in Nat
      BY DEF Incident, IncidentId
    <3>2. \A i \in DOMAIN incidents : incidents[i] \in Incident
      BY <1>0
    <3>3. Cardinality(LinesAt(incidents, x.id.sec)) \in Nat
      BY <1>0, LinesAtFinite
    <3>4. QED  BY <1>0, <3>1, <3>2, <3>3
  <2>5. \A i \in DOMAIN incidents :
            incidents[i].id.n <= Cardinality(LinesAt(incidents', incidents[i].id.sec))
    BY <2>3, <2>4 DEF NumberInv
  <2>6. x.id.n <= Cardinality(LinesAt(incidents', x.id.sec))
    BY <2>1, <2>3, <2>4 DEF NumberInv
  <2>7. NumberInv'
    BY <2>1, <2>2, <2>5, <2>6 DEF NumberInv
  <2>8. x.status = "open" => \A i \in DOMAIN incidents : incidents[i].id # x.id
    BY <2>1, <2>4 DEF NumberInv
  <2>9. IncidentIdsUnique'
    BY <2>2, <2>8 DEF IncidentIdsUnique
  <2>10. OneAtATime'
    BY <2>1 DEF OneAtATime
  <2>11. QED  BY <2>7, <2>9, <2>10
<1>6. QED
  BY <1>1, <1>2, <1>3, <1>4, <1>5 DEF CommandStep, RefuseClear, TruncateFile, WriteFile, Crash

\* While commands do not overlap, two activations never share an incident id,
\* however many incidents one second sees and wherever commands crash.
THEOREM IdsAreUnique ==
    ASSUME Serial
    PROVE  Spec => []IncidentIdsUnique
<1> DEFINE Inv == OneAtATime /\ NumberInv /\ IncidentIdsUnique
<1>1. Init => Inv
  BY DEF Init, OneAtATime, NumberInv, IncidentIdsUnique, Idle
<1>2. TypeOK /\ Inv /\ [Next]_vars => Inv'
  <2> SUFFICES ASSUME TypeOK, Inv, [Next]_vars PROVE Inv'
    OBVIOUS
  <2>1. ASSUME NEW o \in Operators, CommandStep(o) PROVE Inv'
    BY <2>1, CommandStepNumbers
  <2>2. CASE UNCHANGED <<op, incidents>>
    BY <2>2 DEF OneAtATime, NumberInv, IncidentIdsUnique
  <2>3. QED  BY <2>1, <2>2 DEF Next, AdvanceClock, LoadKillSwitch, vars
<1>3. QED  BY <1>1, <1>2, TypeCorrect, PTL DEF Spec

=============================================================================
