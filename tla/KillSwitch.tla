----------------------------- MODULE KillSwitch -----------------------------
(***************************************************************************)
(* The operator kill-switch of the paper-live runtime: the commands of     *)
(* v2/runtime/killctl.py (isolate, freeze, halt, clear), the two files     *)
(* they share (kill_switch.yaml and the append-only incidents.jsonl) and   *)
(* the reader load_kill_switch of v2/runtime/kill_switch.py, which the     *)
(* paper-live loop calls at the start of every tick.                       *)
(*                                                                         *)
(* Every command is a separate process that loads the whole YAML file,     *)
(* appends one incident line and then rewrites the file; nothing locks     *)
(* either file.  A command is therefore one action per file access, and    *)
(* Path.write_text is two: opening the file truncates it, then the text    *)
(* arrives.                                                                *)
(***************************************************************************)
EXTENDS SwitchTargets, Naturals, Sequences, FiniteSets

CONSTANTS
    Operators,    \* processes that run killctl commands
    Serial,       \* TRUE: commands and reads never overlap (dry_run.py's schedule)
    CrashPoints,  \* program points at which a command's process may die
    MaxSec,       \* bound: wall-clock seconds 0..MaxSec
    MaxLines      \* bound: a command starts only while the log is shorter

ASSUME BoundAssumption == MaxSec \in Nat /\ MaxLines \in Nat
ASSUME ScheduleAssumption ==
    /\ Serial \in BOOLEAN
    /\ CrashPoints \subseteq {"loaded", "ready", "logged", "torn"}

-----------------------------------------------------------------------------

SwitchState == {"enabled", "desk_isolated", "frozen", "halted"}
HALTING_STATES == {"frozen", "halted"}

\* incident ids are inc_<second>_<count>
IncidentId == [sec : 0..MaxSec, n : Nat]
NoId == [sec |-> 0, n |-> 0]
Incident == [id : IncidentId, target : Targets, status : {"open", "closed"}]

\* What kill_switch.yaml says.  A missing file, an empty file and a file
\* with every default written out are read alike, by both readers.
FamilyState == [state : SwitchState, isolated_desks : SUBSET Desks]
KillSwitchState == [system_state : SwitchState, families : [Families -> FamilyState]]
DefaultFamily == [state |-> "enabled", isolated_desks |-> {}]
DefaultState == [system_state |-> "enabled", families |-> [f \in Families |-> DefaultFamily]]

IsHalting(s, f) == \/ s.system_state \in HALTING_STATES
                   \/ s.families[f].state \in HALTING_STATES
IsolatedDesks(s, f) ==
    IF s.system_state \in HALTING_STATES THEN {} ELSE s.families[f].isolated_desks

\* The restrictions a switch state puts in force.
Active(s) ==
    {t \in Targets :
        \/ t = System /\ s.system_state \in HALTING_STATES
        \/ IsFamily(t) /\ s.families[t.family].state \in HALTING_STATES
        \/ IsDesk(t) /\ t.desk \in s.families[t.family].isolated_desks}

-----------------------------------------------------------------------------

VARIABLES
    yaml,       \* contents of kill_switch.yaml
    incidents,  \* lines of incidents.jsonl
    clock,      \* wall-clock second
    op,         \* operator process -> its local state
    acked,      \* history: restrictions whose command returned, not since cleared
    view        \* family -> what the loop's last read returned

vars == <<yaml, incidents, clock, op, acked, view>>

Command == {"activate", "clear"}
NoIncident == [id |-> NoId, target |-> System, status |-> "closed"]
Idle == [pc |-> "idle", command |-> "clear", target |-> System,
         state |-> DefaultState, now |-> 0, incident |-> NoIncident]
OpState == [pc : {"idle", "loaded", "ready", "logged", "torn"}, command : Command,
            target : Targets, state : KillSwitchState, now : 0..MaxSec, incident : Incident]
View == [halting : BOOLEAN, isolated : SUBSET Desks, due : SUBSET Targets]

\* Both files, every command's state and the loop's reads are well-formed.
TypeOK ==
    /\ yaml \in KillSwitchState
    /\ incidents \in Seq(Incident)
    /\ clock \in 0..MaxSec
    /\ op \in [Operators -> OpState]
    /\ acked \subseteq Targets
    /\ view \in [Families -> View]

Init ==
    /\ yaml = DefaultState
    /\ incidents = <<>>
    /\ clock = 0
    /\ op = [o \in Operators |-> Idle]
    /\ acked = {}
    /\ view = [f \in Families |-> [halting |-> FALSE, isolated |-> {}, due |-> {}]]

\* Under the serial schedule a process acts only while no other is busy.
MayRun(o) == Serial => \A p \in Operators \ {o} : op[p].pc = "idle"
MayRead == Serial => \A p \in Operators : op[p].pc = "idle"

LinesAt(log, sec) == {i \in DOMAIN log : log[i].id.sec = sec}
IsLatest(i) == \A j \in DOMAIN incidents : incidents[j].id = incidents[i].id => j <= i

(***************************************************************************)
(* What a command makes of the state it loaded.                            *)
(***************************************************************************)

\* Mutant: the family's state is reset.
IsolateResetsFamily(s, f, d) ==
    [s EXCEPT !.families[f] = [state |-> "enabled", isolated_desks |-> @.isolated_desks \cup {d}]]
\* isolate_desk: the family's own state survives ("or ENABLED")
IsolateDesk(s, f, d) == [s EXCEPT !.families[f].isolated_desks = @ \cup {d}]
FreezeFamily(s, f) == [s EXCEPT !.families[f].state = "frozen"]
HaltSystem(s) == [s EXCEPT !.system_state = "halted"]

Activate(s, t) ==
    IF t.family = NULL THEN HaltSystem(s)
    ELSE IF t.desk = NULL THEN FreezeFamily(s, t.family)
    ELSE IsolateDesk(s, t.family, t.desk)

\* Mutant: the isolated-desks check is forgotten.
ClearNeverRefused(s, t) == FALSE

\* clear_target refuses a family that still has isolated desks
ClearRefused(s, t) ==
    IsFamily(t) /\ s.families[t.family].isolated_desks # {}

ClearTarget(s, t) ==
    IF t.family = NULL THEN [s EXCEPT !.system_state = "enabled"]
    ELSE IF t.desk = NULL THEN [s EXCEPT !.families[t.family].state = "enabled"]
    ELSE [s EXCEPT !.families[t.family].isolated_desks = @ \ {t.desk}]

(***************************************************************************)
(* The steps of a command.                                                 *)
(***************************************************************************)

\* A process starts, takes `now` and loads kill_switch.yaml.  Starting a
\* clear releases the promise its target was under.
Load(o, c, t) ==
    /\ op[o].pc = "idle"
    /\ MayRun(o)
    /\ Len(incidents) < MaxLines
    /\ op' = [op EXCEPT ![o] = [pc |-> "loaded", command |-> c, target |-> t, state |-> yaml,
                                now |-> clock, incident |-> NoIncident]]
    /\ acked' = IF c = "clear" THEN acked \ {t} ELSE acked
    /\ UNCHANGED <<yaml, incidents, clock, view>>

\* Mutant: every incident of a second gets number 1.
NewIncidentUncounted(o) ==
    /\ op[o].pc = "loaded" /\ op[o].command = "activate"
    /\ op' = [op EXCEPT
                ![o].pc = "ready",
                ![o].incident = [id |-> [sec |-> op[o].now, n |-> 1],
                                 target |-> op[o].target, status |-> "open"],
                ![o].state = Activate(@, op[o].target)]
    /\ UNCHANGED <<yaml, incidents, clock, acked, view>>

\* _open_incident: number the incident by the lines of this second already
\* in the log, and compute the state to write.
NewIncident(o) ==
    /\ op[o].pc = "loaded" /\ op[o].command = "activate"
    /\ LET id == [sec |-> op[o].now, n |-> Cardinality(LinesAt(incidents, op[o].now)) + 1]
       IN  op' = [op EXCEPT
                    ![o].pc = "ready",
                    ![o].incident = [id |-> id, target |-> op[o].target, status |-> "open"],
                    ![o].state = Activate(@, op[o].target)]
    /\ UNCHANGED <<yaml, incidents, clock, acked, view>>

\* clear_target: any incident that exists and is open will do; its scope is
\* not compared with the target.
FindIncident(o, i) ==
    /\ op[o].pc = "loaded" /\ op[o].command = "clear"
    /\ IsLatest(i)
    /\ incidents[i].status = "open"
    /\ ~ ClearRefused(op[o].state, op[o].target)
    /\ op' = [op EXCEPT ![o].pc = "ready",
                        ![o].incident = [incidents[i] EXCEPT !.status = "closed"],
                        ![o].state = ClearTarget(@, op[o].target)]
    /\ UNCHANGED <<yaml, incidents, clock, acked, view>>

\* clear_target raises KillctlError: the incident named is unknown or closed,
\* or the family has isolated desks.  Nothing was written.
RefuseClear(o) ==
    /\ op[o].pc = "loaded" /\ op[o].command = "clear"
    /\ op' = [op EXCEPT ![o] = Idle]
    /\ UNCHANGED <<yaml, incidents, clock, acked, view>>

\* Mutant: the incident line is only written once the file is.
AppendNothing(o) ==
    /\ op[o].pc = "ready"
    /\ op' = [op EXCEPT ![o].pc = "logged"]
    /\ UNCHANGED <<yaml, incidents, clock, acked, view>>

\* _append_incident
AppendIncident(o) ==
    /\ op[o].pc = "ready"
    /\ incidents' = Append(incidents, op[o].incident)
    /\ op' = [op EXCEPT ![o].pc = "logged"]
    /\ UNCHANGED <<yaml, clock, acked, view>>

\* _write_result, Path.write_text opening the file: its contents are gone
\* and both readers take it for the all-enabled default.
TruncateFile(o) ==
    /\ op[o].pc = "logged"
    /\ yaml' = DefaultState
    /\ op' = [op EXCEPT ![o].pc = "torn"]
    /\ UNCHANGED <<incidents, clock, acked, view>>

\* _write_result, the text arriving; the command then returns.  An activation
\* overtaken by a running clear of its target may count as the earlier one.
BeingCleared(t) ==
    \E p \in Operators : op[p].pc # "idle" /\ op[p].command = "clear" /\ op[p].target = t

WriteFile(o) ==
    /\ op[o].pc = "torn"
    /\ yaml' = op[o].state
    /\ op' = [op EXCEPT ![o] = Idle]
    /\ acked' = IF op[o].command = "activate" /\ ~ BeingCleared(op[o].target)
                THEN acked \cup {op[o].target} ELSE acked
    /\ UNCHANGED <<incidents, clock, view>>

\* The command's process dies; its locals are lost, the files stay as they are.
Crash(o) ==
    /\ op[o].pc \in CrashPoints
    /\ op' = [op EXCEPT ![o] = Idle]
    /\ UNCHANGED <<yaml, incidents, clock, acked, view>>

AdvanceClock ==
    /\ clock < MaxSec
    /\ clock' = clock + 1
    /\ UNCHANGED <<yaml, incidents, op, acked, view>>

\* load_kill_switch, called by the loop of family f at the start of a tick;
\* `due` records what the operators had been promised by then.
LoadKillSwitch(f) ==
    /\ MayRead
    /\ view' = [view EXCEPT ![f] = [halting |-> IsHalting(yaml, f),
                                    isolated |-> IsolatedDesks(yaml, f),
                                    due |-> acked]]
    /\ UNCHANGED <<yaml, incidents, clock, op, acked>>

CommandStep(o) ==
    \/ \E c \in Command, t \in Targets : Load(o, c, t)
    \/ NewIncident(o)
    \/ \E i \in DOMAIN incidents : FindIncident(o, i)
    \/ RefuseClear(o)
    \/ AppendIncident(o)
    \/ TruncateFile(o)
    \/ WriteFile(o)
    \/ Crash(o)

Next ==
    \/ \E o \in Operators : CommandStep(o)
    \/ AdvanceClock
    \/ \E f \in Families : LoadKillSwitch(f)

Spec == Init /\ [][Next]_vars

-----------------------------------------------------------------------------
(***************************************************************************)
(* Properties                                                              *)
(***************************************************************************)

\* A tick that starts after an isolate, freeze or halt command returned, and
\* before a clear of that target was started, finds the restriction in force:
\* no later command on another target, refused clear or crashed command lifts it.
ReadsEnforceAcked ==
    \A f \in Families :
        /\ (System \in view[f].due \/ FamilyTarget(f) \in view[f].due) => view[f].halting
        /\ \A d \in Desks : DeskTarget(f, d) \in view[f].due
                              => view[f].halting \/ d \in view[f].isolated

\* Every restriction the file puts in force has an incident on record that was
\* opened for that very target (killctl logs before it writes).
ActivationHasIncident ==
    \A t \in Active(yaml) : \E i \in DOMAIN incidents : incidents[i].target = t

\* Two activations never share an incident id, so closing an incident by id
\* closes one incident only.
IncidentIdsUnique ==
    \A i, j \in DOMAIN incidents :
        /\ incidents[i].status = "open" /\ incidents[j].status = "open"
        /\ incidents[i].id = incidents[j].id
        => i = j

\* The restrictions a command leaves in force, seen from the moment it starts
\* to rewrite the file.
VisibleActive ==
    IF \E o \in Operators : op[o].pc = "torn"
    THEN Active(op[CHOOSE o \in Operators : op[o].pc = "torn"].state)
    ELSE Active(yaml)

Promise == INSTANCE SwitchPromise WITH active <- VisibleActive

\* The commands implement the promise: each changes the restriction it names
\* and no other, and a family is not released over its isolated desks.
KeepsPromise == Promise!Spec

=============================================================================
