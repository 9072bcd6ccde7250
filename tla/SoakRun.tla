------------------------------- MODULE SoakRun -------------------------------
(***************************************************************************)
(* The reliability soak: scripts/run_soak_test.py starts a process that    *)
(* loads or makes a state, ticks one simulated day per loop, samples its   *)
(* resources, checkpoints its state, and stops when its time is up, at an  *)
(* incident, at an interrupt or at an exception.  An operator starts it    *)
(* again on the same database and checkpoint file.                         *)
(*                                                                         *)
(* elapsed is the process's monotonic clock, in units of Cadence or less;  *)
(* a tick may take a unit itself.  KeyboardInterrupt may arrive between    *)
(* any two statements of the loop, a kill or a power cut anywhere.  The    *)
(* cold start each process does first is modelled in Controller.           *)
(***************************************************************************)
EXTENDS Integers

CONSTANTS
    None,
    Duration,               \* duration_seconds
    Cadence,                \* cadence_seconds
    SampleInterval, CheckpointInterval,
    SimDays,                \* n_days of the latent path
    NDesks,                 \* desks of the feed
    Usages,                 \* what the monitor may read: rss, fds and db
    FirstRss, FirstFds,     \* resources of a new process
    RssAbs, DbGrowth,       \* rss_growth_abs_bytes, db_growth_bytes
    MaxStops                \* bound: interrupts, exceptions and kills

\* The days the latent path has, and the decisions emitted so far.
States == [sim_day_index : 0..SimDays, n_decisions_emitted : Nat]
\* A reading of the monitor.
Usage == [rss : Nat, fds : Nat, db : Nat]

ASSUME SoakAssumption ==
    /\ Duration \in Nat /\ Cadence \in Nat \ {0}
    /\ SampleInterval \in Nat /\ CheckpointInterval \in Nat
    /\ SimDays \in Nat \ {0} /\ NDesks \in Nat
    /\ Usages \subseteq Usage /\ FirstRss \in Nat /\ FirstFds \in Nat
    /\ RssAbs \in Nat /\ DbGrowth \in Nat
    /\ MaxStops \in Nat
    /\ None \notin States \cup Nat

VARIABLES
    pc,             \* where the process is, or how it ended
    saving,         \* why CheckpointStore.save was called
    state,          \* SoakState of the process
    tmp, checkpoint,    \* the temporary file and the checkpoint, or None
    elapsed, last_sample, last_checkpoint,
    sent,           \* forecasts of this tick inserted so far
    forecast_rows, decision_rows,   \* rows in the database
    incidents,      \* classes in soak_incidents
    usage,          \* what the monitor would read now
    baseline,       \* the first sample of the process
    leaked_at,      \* history: since when this process is over a threshold, or None
    kills, stops,   \* history: hard stops; all stops
    reset           \* history: a fresh start was asked for on a used database

clocks == <<elapsed, last_sample, last_checkpoint>>
rows == <<forecast_rows, decision_rows, incidents>>
disk == <<tmp, checkpoint>>
resources == <<usage, baseline, leaked_at>>
mishaps == <<kills, stops, reset>>
vars == <<pc, saving, state, disk, clocks, sent, rows, resources, mishaps>>

FreshState == [sim_day_index |-> 0, n_decisions_emitted |-> 0]
Ended == {"stopped", "interrupted", "crashed", "passed", "failed"}
Running == pc \notin Ended
\* The statements inside the try of SoakRunner.run
InTry == Running /\ ~(pc \in {"save", "replace"} /\ saving # "periodic")

\* IncidentDetector.check: the classes a sample is over the threshold of
Incidents(sample, base) ==
    (IF sample.rss * 5 >= base.rss * 6 /\ sample.rss - base.rss >= RssAbs
        THEN {"memory_leak"} ELSE {})
    \cup (IF sample.fds >= base.fds * 5 /\ sample.fds > 0 THEN {"fd_leak"} ELSE {})
    \cup (IF sample.db - base.db >= DbGrowth THEN {"disk_growth"} ELSE {})
\* ... in the order it looks at them
First(classes) ==
    CASE "memory_leak" \in classes -> "memory_leak"
      [] "fd_leak" \in classes -> "fd_leak"
      [] OTHER -> "disk_growth"

Init ==
    /\ pc = "stopped" /\ saving = None /\ state = FreshState
    /\ tmp = None /\ checkpoint = None
    /\ elapsed = 0 /\ last_sample = 0 /\ last_checkpoint = 0
    /\ sent = 0 /\ forecast_rows = 0 /\ decision_rows = 0 /\ incidents = {}
    /\ usage = [rss |-> FirstRss, fds |-> FirstFds, db |-> 0]
    /\ baseline = usage /\ leaked_at = None
    /\ kills = 0 /\ stops = 0 /\ reset = FALSE

\* _init_state, the baseline sample and the clocks of run()
Start(resume) ==
    /\ pc \in {"stopped", "interrupted", "crashed"}
    /\ state' = IF resume /\ checkpoint # None THEN checkpoint ELSE FreshState
    /\ usage' = [usage EXCEPT !.rss = FirstRss, !.fds = FirstFds]
    /\ baseline' = usage' /\ leaked_at' = None
    /\ elapsed' = 0 /\ last_sample' = 0 /\ last_checkpoint' = 0
    /\ pc' = "head" /\ saving' = None /\ sent' = 0
    /\ reset' = (reset \/ (~resume /\ decision_rows > 0))
    /\ UNCHANGED <<disk, rows, kills, stops>>

\* The head of the loop, and the wrap-around of SyntheticDataFeed.tick
LoopHead ==
    /\ pc = "head"
    /\ IF elapsed >= Duration
       THEN pc' = "save" /\ saving' = "final" /\ UNCHANGED <<state, sent>>
       ELSE /\ pc' = "tick" /\ sent' = 0
            /\ state' = [state EXCEPT !.sim_day_index = IF @ >= SimDays THEN 0 ELSE @]
            /\ UNCHANGED saving
    /\ UNCHANGED <<disk, clocks, rows, resources, mishaps>>

\* insert_forecast, per desk
InsertForecast ==
    /\ pc = "tick" /\ sent < NDesks
    /\ sent' = sent + 1 /\ forecast_rows' = forecast_rows + 1
    /\ UNCHANGED <<pc, saving, state, disk, clocks, decision_rows, incidents, resources,
                   mishaps>>

\* Mutant: the row of the decision is not committed before it is counted.
DecisionUncommitted(cost) ==
    /\ pc = "tick" /\ sent = NDesks
    /\ elapsed' = elapsed + cost
    /\ pc' = "advance"
    /\ UNCHANGED <<saving, state, disk, last_sample, last_checkpoint, sent, rows, resources,
                   mishaps>>
\* decide and insert_decision; the tick took `cost`
InsertDecision(cost) ==
    /\ pc = "tick" /\ sent = NDesks
    /\ decision_rows' = decision_rows + 1
    /\ elapsed' = elapsed + cost
    /\ pc' = "advance"
    /\ UNCHANGED <<saving, state, disk, last_sample, last_checkpoint, sent, forecast_rows, incidents,
                   resources, mishaps>>

\* state.sim_day_index = i + 1
AdvanceDay ==
    /\ pc = "advance" /\ pc' = "count"
    /\ state' = [state EXCEPT !.sim_day_index = @ + 1]
    /\ UNCHANGED <<saving, disk, clocks, sent, rows, resources, mishaps>>

\* state.n_decisions_emitted += 1
CountDecision ==
    /\ pc = "count" /\ pc' = "sample"
    /\ state' = [state EXCEPT !.n_decisions_emitted = @ + 1]
    /\ UNCHANGED <<saving, disk, clocks, sent, rows, resources, mishaps>>

\* Mutant: the sample clock is also set when no sample was due.
SampleClockReset ==
    /\ pc = "sample"
    /\ LET due == elapsed - last_sample >= SampleInterval
           found == IF due THEN Incidents(usage, baseline) ELSE {}
       IN  IF found # {}
           THEN /\ incidents' = incidents \cup {First(found)}
                /\ pc' = "save" /\ saving' = "incident" /\ UNCHANGED last_sample
           ELSE /\ last_sample' = elapsed
                /\ pc' = "checkpoint" /\ UNCHANGED <<incidents, saving>>
    /\ UNCHANGED <<state, disk, elapsed, last_checkpoint, sent, forecast_rows, decision_rows, resources,
                   mishaps>>
\* The sample when it is due, IncidentDetector.check, and the break
Sample ==
    /\ pc = "sample"
    /\ LET due == elapsed - last_sample >= SampleInterval
           found == IF due THEN Incidents(usage, baseline) ELSE {}
       IN  IF found # {}
           THEN /\ incidents' = incidents \cup {First(found)}
                /\ pc' = "save" /\ saving' = "incident" /\ UNCHANGED last_sample
           ELSE /\ last_sample' = IF due THEN elapsed ELSE last_sample
                /\ pc' = "checkpoint" /\ UNCHANGED <<incidents, saving>>
    /\ UNCHANGED <<state, disk, elapsed, last_checkpoint, sent, forecast_rows, decision_rows, resources,
                   mishaps>>

\* The checkpoint when it is due
Checkpoint ==
    /\ pc = "checkpoint"
    /\ IF elapsed - last_checkpoint >= CheckpointInterval
       THEN pc' = "save" /\ saving' = "periodic"
       ELSE pc' = "sleep" /\ UNCHANGED saving
    /\ UNCHANGED <<state, disk, clocks, sent, rows, resources, mishaps>>

\* CheckpointStore.save: the temporary file, then the rename
SaveTmp ==
    /\ pc = "save" /\ pc' = "replace"
    /\ tmp' = state
    /\ UNCHANGED <<saving, state, checkpoint, clocks, sent, rows, resources, mishaps>>
\* Where run() goes on after the save
AfterSave ==
    CASE saving = "periodic" -> "sleep"
      [] saving = "incident" -> "failed"
      [] saving = "final" -> "passed"
      [] OTHER -> saving
Replace ==
    /\ pc = "replace"
    /\ checkpoint' = tmp /\ tmp' = None
    /\ pc' = AfterSave /\ saving' = None
    /\ last_checkpoint' = IF saving = "periodic" THEN elapsed ELSE last_checkpoint
    /\ UNCHANGED <<state, elapsed, last_sample, sent, rows, resources, mishaps>>

\* time.sleep(cadence_seconds)
Sleep ==
    /\ pc = "sleep" /\ pc' = "head"
    /\ elapsed' = elapsed + Cadence
    /\ UNCHANGED <<saving, state, disk, last_sample, last_checkpoint, sent, rows, resources,
                   mishaps>>
-----------------------------------------------------------------------------
(* What happens to the process *)

\* A resource grows while the process runs.
Grow(more) ==
    /\ pc \in {"head", "sleep"} /\ more # usage
    /\ more.rss >= usage.rss /\ more.fds >= usage.fds /\ more.db >= usage.db
    /\ usage' = more
    /\ leaked_at' = IF leaked_at = None /\ Incidents(more, baseline) # {} THEN elapsed ELSE leaked_at
    /\ UNCHANGED <<pc, saving, state, disk, clocks, sent, rows, baseline, mishaps>>

\* KeyboardInterrupt: save, then leave
Interrupt ==
    /\ InTry /\ stops < MaxStops
    /\ stops' = stops + 1
    /\ pc' = "save" /\ saving' = "interrupted"
    /\ UNCHANGED <<state, disk, clocks, sent, rows, resources, kills, reset>>

\* Mutant: the exception is recorded and the loop goes on at once.
TickRaisesRetried ==
    /\ pc = "tick"
    /\ incidents' = incidents \cup {"scheduler_crash"}
    /\ pc' = "head"
    /\ UNCHANGED <<saving, state, disk, clocks, sent, forecast_rows, decision_rows, resources, mishaps>>
\* The tick raises: record_exception, save, leave
TickRaises ==
    /\ pc = "tick" /\ stops < MaxStops
    /\ incidents' = incidents \cup {"scheduler_crash"}
    /\ stops' = stops + 1
    /\ pc' = "save" /\ saving' = "crashed"
    /\ UNCHANGED <<state, disk, clocks, sent, forecast_rows, decision_rows, resources, kills, reset>>

\* kill -9, a power cut, an interrupt outside the try: nothing more is saved.
Kill ==
    /\ Running /\ stops < MaxStops
    /\ kills' = kills + 1 /\ stops' = stops + 1
    /\ pc' = "stopped" /\ saving' = None /\ state' = FreshState /\ sent' = 0
    /\ elapsed' = 0 /\ last_sample' = 0 /\ last_checkpoint' = 0
    /\ baseline' = usage /\ leaked_at' = None
    /\ UNCHANGED <<disk, rows, usage, reset>>

Step ==
    \/ LoopHead \/ InsertForecast \/ (\E cost \in 0..1 : InsertDecision(cost)) \/ AdvanceDay
    \/ CountDecision \/ Sample \/ Checkpoint \/ SaveTmp \/ Replace \/ Sleep
Next ==
    \/ Step
    \/ \E resume \in BOOLEAN : Start(resume)
    \/ \E more \in Usages : Grow(more)
    \/ Interrupt \/ TickRaises \/ Kill

\* The loop is one thread that waits for nothing but its own sleep.
Spec == Init /\ [][Next]_vars /\ WF_vars(Step)
-----------------------------------------------------------------------------
\* The process, its files and its rows are well-formed.
TypeOK ==
    /\ pc \in {"head", "tick", "advance", "count", "sample", "checkpoint", "save", "replace",
               "sleep"} \cup Ended
    /\ state \in States /\ tmp \in States \cup {None} /\ checkpoint \in States \cup {None}
    /\ sent \in 0..NDesks
    /\ elapsed \in Nat /\ last_sample \in 0..elapsed /\ last_checkpoint \in 0..elapsed
    /\ usage \in Usage /\ baseline \in Usage /\ leaked_at \in Nat \cup {None}
    /\ forecast_rows \in Nat /\ decision_rows \in Nat
    /\ stops \in 0..MaxStops /\ kills \in 0..stops

\* Whatever stopped a process and wherever, a state that is resumed never counts
\* a decision the database does not have, and no decision lacks a forecast.
NeverAhead ==
    /\ checkpoint # None => checkpoint.n_decisions_emitted <= decision_rows
    /\ state.n_decisions_emitted <= decision_rows
    /\ forecast_rows >= NDesks * decision_rows

\* Ticks that may start between two saves of a process that is then killed: as
\* many as fill the interval, and the one during which the next save falls due
LostTicks == ((CheckpointInterval + Cadence - 1) \div Cadence) + 1
\* A resumed soak forgets at most the days since the last checkpoint for each
\* kill, and at most the one being fed for each interrupt or exception.
LossBounded ==
    (Running /\ ~reset) =>
        decision_rows - state.n_decisions_emitted <= kills * LostTicks + (stops - kills) + 1

\* A process that ended on its own terms left its last state in the checkpoint.
LeftInCheckpoint ==
    pc \in {"passed", "failed", "interrupted", "crashed"} => checkpoint = state

\* The checkpoint, the memory and the database tell of one run, the checkpoint
\* lagging by a bounded number of days.
CheckpointTracksRows == NeverAhead /\ LossBounded /\ LeftInCheckpoint

\* A resource over its threshold ends the run within one sample interval and one
\* loop, and a soak that passes was over it for no longer.
LeakNoticed ==
    (Running \/ pc = "passed") /\ leaked_at # None =>
        elapsed - leaked_at <= SampleInterval + Cadence

\* A running soak ends, whatever leaks, is interrupted or raises.
RunEnds == Running ~> ~Running
=============================================================================
