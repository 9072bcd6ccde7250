---------------------------- MODULE HarnessProofs ----------------------------
(***************************************************************************)
(* The soak, the controller it drives, and the drills of the calculations. *)
(*                                                                         *)
(* What holds of the soak for every duration, cadence, sample and          *)
(* checkpoint interval, path length and number of desks, and however often *)
(* and wherever its processes are interrupted, raise or are killed; of the *)
(* controller and its attribution for every desk, regime, weight and       *)
(* forecast; of the S4 drills for every calendar, book, queue and run of   *)
(* trades; and of the validation's judgements for every grid, series and   *)
(* forecast.  These, but for the roll, share facts about sums and folds.   *)
(***************************************************************************)
EXTENDS SoakRun, Controller, EvalDrills, FiniteSetTheorems, SequenceTheorems,
        FunctionTheorems, WellFoundedInduction, TLAPS

-----------------------------------------------------------------------------
(***************************************************************************)
(* Arithmetic of the checkpoint interval.                                  *)
(***************************************************************************)

\* Loops that fill a checkpoint interval.
FullLoops == (CheckpointInterval + Cadence - 1) \div Cadence

\* They do fill it.
LEMMA LoopsFill ==
    /\ FullLoops \in Nat /\ LostTicks = FullLoops + 1
    /\ FullLoops * Cadence >= CheckpointInterval
  <1> DEFINE a == CheckpointInterval + Cadence - 1
  <1>1. a \in Nat /\ Cadence \in Nat \ {0} /\ CheckpointInterval \in Nat
    BY SoakAssumption
  <1> HIDE DEF a
  <1>2. a \div Cadence \in Nat /\ (a \div Cadence) * Cadence > a - Cadence
    <2>1. a \div Cadence \in Nat /\ a % Cadence \in 0 .. Cadence - 1
      BY <1>1
    <2>2. a = Cadence * (a \div Cadence) + (a % Cadence)
      BY <1>1
    <2> QED
      BY <1>1, <2>1, <2>2
  <1> QED
    BY <1>1, <1>2 DEF FullLoops, LostTicks, a

\* Fewer loops than the interval takes are fewer than fill it.
LEMMA LoopsFit ==
    ASSUME NEW n \in Int, n * Cadence < CheckpointInterval
    PROVE  n < FullLoops
  <1>1. Cadence \in Nat \ {0} /\ FullLoops \in Nat /\ n * Cadence < FullLoops * Cadence
    BY LoopsFill, SoakAssumption
  <1>2. CASE n >= FullLoops
    <2>1. (n - FullLoops) \in Nat /\ (n - FullLoops) * Cadence >= 0
      BY <1>1, <1>2
    <2>2. n * Cadence >= FullLoops * Cadence
      BY <1>1, <2>1
    <2> QED
      BY <1>1, <2>2
  <1> QED
    BY <1>1, <1>2

-----------------------------------------------------------------------------
(***************************************************************************)
(* Type correctness.                                                       *)
(***************************************************************************)
Saving == pc \in {"save", "replace"}

\* The day index is within the path wherever the loop uses it, and a save has
\* its reason and its file.
TypeInv ==
    /\ TypeOK
    /\ pc \in {"tick", "advance"} => state.sim_day_index < SimDays
    /\ Saving => saving \in {"periodic", "incident", "final", "interrupted", "crashed"}
    /\ pc = "replace" => tmp = state

\* A new soak is well-formed.
LEMMA TypeInit == Init => TypeInv
  BY SoakAssumption DEF Init, TypeInv, TypeOK, FreshState, States, Usage, Ended, Saving

\* Every step keeps the process, its files and its rows well-formed.
LEMMA TypeNext == TypeInv /\ [Next]_vars => TypeInv'
  <1> SUFFICES ASSUME TypeInv, [Next]_vars PROVE TypeInv'
    OBVIOUS
  <1> USE SoakAssumption
      DEF TypeInv, TypeOK, Ended, Saving, disk, clocks, rows, resources, mishaps
  <1>0. state \in States /\ FreshState \in States /\ usage \in Usage
    BY DEF FreshState, States
  <1>1. ASSUME NEW resume \in BOOLEAN, Start(resume) PROVE TypeInv'
    <2>1. state' \in States /\ usage' \in Usage
      BY <1>0, <1>1 DEF Start, Usage
    <2> QED
      BY <1>1, <2>1 DEF Start
  <1>2. ASSUME LoopHead PROVE TypeInv'
    <2>1. state' \in States /\ (pc' = "tick" => state'.sim_day_index < SimDays)
      BY <1>0, <1>2 DEF LoopHead, States, TypeInv, TypeOK
    <2> QED
      BY <1>2, <2>1 DEF LoopHead
  <1>3. ASSUME InsertForecast PROVE TypeInv'
    BY <1>3 DEF InsertForecast
  <1>4. ASSUME NEW cost \in 0..1, InsertDecision(cost) PROVE TypeInv'
    BY <1>4 DEF InsertDecision
  <1>5. ASSUME AdvanceDay PROVE TypeInv'
    <2>1. state' \in States
      BY <1>0, <1>5 DEF AdvanceDay, States
    <2> QED
      BY <1>5, <2>1 DEF AdvanceDay
  <1>6. ASSUME CountDecision PROVE TypeInv'
    <2>1. state' \in States
      BY <1>0, <1>6 DEF CountDecision, States
    <2> QED
      BY <1>6, <2>1 DEF CountDecision
  <1>7. ASSUME Sample PROVE TypeInv'
    BY <1>7 DEF Sample
  <1>8. ASSUME Checkpoint PROVE TypeInv'
    BY <1>8 DEF Checkpoint
  <1>9. ASSUME SaveTmp PROVE TypeInv'
    BY <1>9 DEF SaveTmp
  <1>10. ASSUME Replace PROVE TypeInv'
    <2>1. pc' \in {"sleep", "failed", "passed", "interrupted", "crashed"}
      BY <1>10 DEF Replace, AfterSave
    <2> QED
      BY <1>10, <2>1 DEF Replace
  <1>11. ASSUME Sleep PROVE TypeInv'
    BY <1>11 DEF Sleep
  <1>12. ASSUME NEW more \in Usages, Grow(more) PROVE TypeInv'
    BY <1>12 DEF Grow
  <1>13. ASSUME Interrupt \/ TickRaises PROVE TypeInv'
    BY <1>13 DEF Interrupt, TickRaises, InTry, Running
  <1>14. ASSUME Kill PROVE TypeInv'
    BY <1>0, <1>14 DEF Kill, Running
  <1>15. ASSUME UNCHANGED vars PROVE TypeInv'
    BY <1>15 DEF vars
  <1> QED
    BY <1>1, <1>2, <1>3, <1>4, <1>5, <1>6, <1>7, <1>8, <1>9, <1>10, <1>11, <1>12, <1>13,
       <1>14, <1>15 DEF Next, Step

\* A soak's process, checkpoint and rows stay well-formed, the day index
\* within the path, whatever stops and resumes it.
THEOREM TypeCorrect == Spec => []TypeOK
  <1>1. TypeInv => TypeOK
    BY DEF TypeInv
  <1> QED
    BY <1>1, TypeInit, TypeNext, PTL DEF Spec

-----------------------------------------------------------------------------
(***************************************************************************)
(* A leak is noticed.  Between the step that makes a resource leak and the *)
(* sample that is due, the loop's position bounds how much time went by.   *)
(***************************************************************************)
LeakInv ==
    leaked_at # None =>
        /\ leaked_at \in 0 .. elapsed
        /\ Incidents(usage, baseline) # {}
        /\ Running => last_sample <= leaked_at
        /\ elapsed - leaked_at <= SampleInterval + Cadence
        /\ pc \in {"head", "tick"} => elapsed - leaked_at < SampleInterval + Cadence
        /\ pc \in {"checkpoint", "sleep"} \/ (Saving /\ saving = "periodic") =>
              elapsed - leaked_at < SampleInterval

\* What leaks goes on leaking: no resource of a process shrinks.
LEMMA LeaksGrow ==
    ASSUME NEW base \in Usage, NEW s \in Usage, NEW t \in Usage,
           t.rss >= s.rss, t.fds >= s.fds, t.db >= s.db,
           Incidents(s, base) # {}
    PROVE  Incidents(t, base) # {}
  <1>1. /\ base.rss \in Nat /\ base.fds \in Nat /\ base.db \in Nat
        /\ s.rss \in Nat /\ s.fds \in Nat /\ s.db \in Nat
        /\ t.rss \in Nat /\ t.fds \in Nat /\ t.db \in Nat
        /\ RssAbs \in Nat /\ DbGrowth \in Nat
    BY SoakAssumption DEF Usage
  <1>2. \/ s.rss * 5 >= base.rss * 6 /\ s.rss - base.rss >= RssAbs
        \/ s.fds >= base.fds * 5 /\ s.fds > 0
        \/ s.db - base.db >= DbGrowth
    BY DEF Incidents
  <1>3. \/ t.rss * 5 >= base.rss * 6 /\ t.rss - base.rss >= RssAbs
        \/ t.fds >= base.fds * 5 /\ t.fds > 0
        \/ t.db - base.db >= DbGrowth
    BY <1>1, <1>2
  <1> QED
    BY <1>3 DEF Incidents

\* Every step keeps the time since a leak within what its position allows.
LEMMA LeakNext ==
    ASSUME SampleInterval > 0
    PROVE  TypeInv /\ LeakInv /\ [Next]_vars => LeakInv'
  <1> SUFFICES ASSUME TypeInv, LeakInv, [Next]_vars PROVE LeakInv'
    OBVIOUS
  <1> USE SoakAssumption
      DEF LeakInv, Ended, Saving, Running, disk, clocks, rows, resources, mishaps
  <1>0. /\ elapsed \in Nat /\ last_sample \in 0 .. elapsed /\ leaked_at \in Nat \cup {None}
        /\ Cadence \in Nat \ {0} /\ SampleInterval \in Nat \ {0}
        /\ Saving => saving \in {"periodic", "incident", "final", "interrupted", "crashed"}
    BY DEF TypeInv, TypeOK
  <1>1. ASSUME NEW resume \in BOOLEAN, Start(resume) PROVE LeakInv'
    BY <1>1 DEF Start
  <1>2. ASSUME LoopHead PROVE LeakInv'
    BY <1>0, <1>2 DEF LoopHead, Incidents
  <1>3. ASSUME InsertForecast \/ AdvanceDay \/ CountDecision \/ SaveTmp PROVE LeakInv'
    BY <1>0, <1>3 DEF InsertForecast, AdvanceDay, CountDecision, SaveTmp, Incidents
  <1>4. ASSUME NEW cost \in 0..1, InsertDecision(cost) PROVE LeakInv'
    BY <1>0, <1>4 DEF InsertDecision, Incidents
  <1>5. ASSUME Sample PROVE LeakInv'
    BY <1>0, <1>5 DEF Sample, Incidents
  <1>6. ASSUME Checkpoint PROVE LeakInv'
    BY <1>0, <1>6 DEF Checkpoint, Incidents
  <1>7. ASSUME Replace PROVE LeakInv'
    BY <1>0, <1>7 DEF Replace, AfterSave, Incidents
  <1>8. ASSUME Sleep PROVE LeakInv'
    BY <1>0, <1>8 DEF Sleep, Incidents
  <1>9. ASSUME NEW more \in Usages, Grow(more) PROVE LeakInv'
    <2>1. usage \in Usage /\ baseline \in Usage /\ more \in Usage
      BY DEF TypeInv, TypeOK
    <2>2. Incidents(usage, baseline) # {} => Incidents(more, baseline) # {}
      BY <1>9, <2>1, LeaksGrow DEF Grow
    <2>3. usage' = more /\ baseline' = baseline /\ Incidents(usage, baseline)' = Incidents(more, baseline)
      BY <1>9 DEF Grow, Incidents
    <2>4. CASE leaked_at = None /\ leaked_at' # None
      BY <1>0, <1>9, <2>3, <2>4 DEF Grow
    <2>5. CASE leaked_at # None
      BY <1>0, <1>9, <2>2, <2>3, <2>5 DEF Grow
    <2> QED
      BY <2>4, <2>5
  <1>10. ASSUME Interrupt \/ TickRaises PROVE LeakInv'
    BY <1>0, <1>10 DEF Interrupt, TickRaises, InTry, Incidents
  <1>11. ASSUME Kill PROVE LeakInv'
    BY <1>11 DEF Kill
  <1>12. ASSUME UNCHANGED vars PROVE LeakInv'
    BY <1>12 DEF vars, Incidents
  <1> QED
    BY <1>1, <1>2, <1>3, <1>4, <1>5, <1>6, <1>7, <1>8, <1>9, <1>10, <1>11, <1>12 DEF Next, Step

\* A resource over its threshold ends the run within one sample interval and
\* one loop, and a soak that passes was over it for no longer.
THEOREM LeaksAreNoticed == ASSUME SampleInterval > 0 PROVE Spec => []LeakNoticed
  <1>1. Init => LeakInv
    BY DEF Init, LeakInv
  <1>2. LeakInv => LeakNoticed
    BY DEF LeakInv, LeakNoticed
  <1> QED
    BY <1>1, <1>2, TypeInit, TypeNext, LeakNext, PTL DEF Spec

-----------------------------------------------------------------------------
(***************************************************************************)
(* The checkpoint tracks the rows.                                         *)
(***************************************************************************)

\* A decision has its row and is not counted yet.
Uncounted == IF pc \in {"advance", "count"} THEN 1 ELSE 0

\* The database is never behind what the state, or a file, counts.
AheadInv ==
    /\ NeverAhead
    /\ tmp # None => tmp.n_decisions_emitted <= decision_rows
    /\ state.n_decisions_emitted + Uncounted <= decision_rows
    /\ pc = "tick" => forecast_rows >= NDesks * decision_rows + sent

\* Every step keeps it so: a row is written before it is counted.
LEMMA AheadNext == TypeInv /\ AheadInv /\ [Next]_vars => AheadInv'
  <1> SUFFICES ASSUME TypeInv, AheadInv, [Next]_vars PROVE AheadInv'
    OBVIOUS
  <1> USE SoakAssumption
      DEF AheadInv, NeverAhead, Uncounted, disk, clocks, rows, resources, mishaps
  <1>0. /\ state.n_decisions_emitted \in Nat /\ decision_rows \in Nat /\ forecast_rows \in Nat
        /\ sent \in 0 .. NDesks /\ NDesks \in Nat
        /\ NDesks * decision_rows \in Nat /\ NDesks * (decision_rows + 1) = NDesks * decision_rows + NDesks
        /\ checkpoint # None => checkpoint.n_decisions_emitted \in Nat
        /\ state \in States /\ pc = "replace" => tmp = state
    BY DEF TypeInv, TypeOK, States
  <1>1. ASSUME NEW resume \in BOOLEAN, Start(resume) PROVE AheadInv'
    BY <1>0, <1>1 DEF Start, FreshState
  <1>2. ASSUME LoopHead PROVE AheadInv'
    <2>1. state'.n_decisions_emitted = state.n_decisions_emitted
      BY <1>0, <1>2 DEF LoopHead, States, TypeInv, TypeOK
    <2> QED
      BY <1>0, <1>2, <2>1 DEF LoopHead
  <1>3. ASSUME InsertForecast PROVE AheadInv'
    BY <1>0, <1>3 DEF InsertForecast
  <1>4. ASSUME NEW cost \in 0..1, InsertDecision(cost) PROVE AheadInv'
    <2>1. decision_rows' = decision_rows + 1 /\ forecast_rows >= NDesks * decision_rows + NDesks
      BY <1>0, <1>4 DEF InsertDecision
    <2>2. forecast_rows' >= NDesks * decision_rows'
      BY <1>0, <1>4, <2>1 DEF InsertDecision
    <2>3. UNCHANGED <<state, tmp, checkpoint>> /\ pc = "tick" /\ pc' = "advance"
      BY <1>4 DEF InsertDecision
    <2>4. state.n_decisions_emitted <= decision_rows
      BY <2>3
    <2>5. /\ state'.n_decisions_emitted + 1 <= decision_rows'
          /\ tmp' # None => tmp'.n_decisions_emitted <= decision_rows'
          /\ checkpoint' # None => checkpoint'.n_decisions_emitted <= decision_rows'
      <3>1. tmp # None => tmp.n_decisions_emitted \in Nat
        BY DEF TypeInv, TypeOK, States
      <3> QED
        BY <1>0, <2>1, <2>3, <2>4, <3>1
    <2> QED
      BY <1>0, <2>1, <2>2, <2>3, <2>5
  <1>5. ASSUME AdvanceDay PROVE AheadInv'
    <2>1. state'.n_decisions_emitted = state.n_decisions_emitted
      BY <1>0, <1>5 DEF AdvanceDay, States, TypeInv, TypeOK
    <2> QED
      BY <1>0, <1>5, <2>1 DEF AdvanceDay
  <1>6. ASSUME CountDecision PROVE AheadInv'
    <2>1. state'.n_decisions_emitted = state.n_decisions_emitted + 1
      BY <1>0, <1>6 DEF CountDecision, States, TypeInv, TypeOK
    <2> QED
      BY <1>0, <1>6, <2>1 DEF CountDecision
  <1>7. ASSUME Sample \/ Checkpoint \/ SaveTmp \/ Sleep PROVE AheadInv'
    BY <1>0, <1>7 DEF Sample, Checkpoint, SaveTmp, Sleep
  <1>8. ASSUME Replace PROVE AheadInv'
    <2>1. pc' \notin {"advance", "count", "tick"}
      BY <1>8 DEF Replace, AfterSave, TypeInv, Saving
    <2> QED
      BY <1>0, <1>8, <2>1 DEF Replace
  <1>9. ASSUME \E more \in Usages : Grow(more) PROVE AheadInv'
    BY <1>0, <1>9 DEF Grow
  <1>10. ASSUME Interrupt \/ TickRaises PROVE AheadInv'
    BY <1>0, <1>10 DEF Interrupt, TickRaises
  <1>11. ASSUME Kill PROVE AheadInv'
    BY <1>0, <1>11 DEF Kill, FreshState
  <1>12. ASSUME UNCHANGED vars PROVE AheadInv'
    BY <1>12 DEF vars
  <1> QED
    BY <1>1, <1>2, <1>3, <1>4, <1>5, <1>6, <1>7, <1>8, <1>9, <1>10, <1>11, <1>12 DEF Next, Step

\* What the checkpoint counts, what it does not count yet, and the decisions
\* that stops so far may have made the state forget.
Saved == IF checkpoint = None THEN 0 ELSE checkpoint.n_decisions_emitted
Unsaved == state.n_decisions_emitted - Saved
Forgotten == kills * LostTicks + (stops - kills)

\* Every loop that was not saved slept once since the last save, except the
\* one under way; a save falls due before they fill the interval.
LossInv ==
    /\ LeftInCheckpoint
    /\ Running /\ ~ reset => decision_rows - state.n_decisions_emitted <= Forgotten + Uncounted
    /\ pc \in {"stopped", "interrupted", "crashed"} /\ ~ reset => decision_rows - Saved <= Forgotten
    /\ pc \in {"head", "tick", "advance", "count"} =>
          Unsaved * Cadence <= elapsed - last_checkpoint
    /\ pc \in {"sample", "checkpoint", "sleep"} =>
          (Unsaved - 1) * Cadence <= elapsed - last_checkpoint
    /\ pc \in {"sleep", "head", "tick", "advance", "count"} => Unsaved <= FullLoops
    /\ Running => Unsaved <= LostTicks

\* The numbers of the invariant are numbers.
LEMMA LossNumbers ==
    ASSUME TypeInv
    PROVE  /\ Saved \in Nat /\ state.n_decisions_emitted \in Nat /\ Unsaved \in Int
           /\ decision_rows \in Nat /\ Forgotten \in Nat /\ LostTicks \in Nat /\ FullLoops \in Nat
           /\ elapsed \in Nat /\ last_checkpoint \in 0 .. elapsed /\ Cadence \in Nat \ {0}
           /\ Unsaved * Cadence \in Int /\ (Unsaved - 1) * Cadence = Unsaved * Cadence - Cadence
           /\ LostTicks = FullLoops + 1 /\ kills \in Nat /\ stops \in Nat
  <1>1. /\ state.n_decisions_emitted \in Nat
        /\ checkpoint # None => checkpoint.n_decisions_emitted \in Nat
        /\ decision_rows \in Nat /\ elapsed \in Nat /\ last_checkpoint \in 0 .. elapsed
        /\ stops \in Nat /\ kills \in 0 .. stops
    BY SoakAssumption DEF TypeInv, TypeOK, States
  <1>2. Saved \in Nat /\ Unsaved \in Int
    BY <1>1 DEF Saved, Unsaved
  <1>3. /\ LostTicks \in Nat /\ FullLoops \in Nat /\ LostTicks = FullLoops + 1
        /\ Cadence \in Nat \ {0}
    BY LoopsFill, SoakAssumption
  <1>4. kills * LostTicks \in Nat
    BY <1>1, <1>3
  <1>5. Unsaved * Cadence \in Int /\ (Unsaved - 1) * Cadence = Unsaved * Cadence - Cadence
    BY <1>2, <1>3
  <1> QED
    BY <1>1, <1>2, <1>3, <1>4, <1>5 DEF Forgotten

\* Every step keeps what the checkpoint lags behind bounded.
LEMMA LossNext == TypeInv /\ AheadInv /\ LossInv /\ [Next]_vars => LossInv'
  <1> SUFFICES ASSUME TypeInv, AheadInv, LossInv, [Next]_vars PROVE LossInv'
    OBVIOUS
  <1>0. TypeInv'
    BY TypeNext
  <1>n. /\ Saved \in Nat /\ state.n_decisions_emitted \in Nat /\ Unsaved \in Int
        /\ decision_rows \in Nat /\ Forgotten \in Nat /\ LostTicks \in Nat /\ FullLoops \in Nat
        /\ elapsed \in Nat /\ last_checkpoint \in 0 .. elapsed /\ Cadence \in Nat \ {0}
        /\ Unsaved * Cadence \in Int /\ (Unsaved - 1) * Cadence = Unsaved * Cadence - Cadence
        /\ LostTicks = FullLoops + 1 /\ kills \in Nat /\ stops \in Nat
        /\ Unsaved = state.n_decisions_emitted - Saved
    BY LossNumbers DEF Unsaved
  <1> USE DEF Ended, Running, Uncounted, LeftInCheckpoint, disk, clocks, rows, resources, mishaps
  \* no save, no stop and no count
  <1>a. ASSUME UNCHANGED <<state, checkpoint, kills, stops, reset, last_checkpoint>>
        PROVE  UNCHANGED <<Saved, Unsaved, Forgotten>>
    BY <1>a DEF Saved, Unsaved, Forgotten, LostTicks
  <1>1. ASSUME NEW resume \in BOOLEAN, Start(resume) PROVE LossInv'
    <2>1. /\ Saved' = Saved /\ Forgotten' = Forgotten /\ decision_rows' = decision_rows
          /\ elapsed' = 0 /\ last_checkpoint' = 0 /\ pc' = "head"
          /\ reset' = (reset \/ (~resume /\ decision_rows > 0))
          /\ pc \in {"stopped", "interrupted", "crashed"}
      BY <1>1 DEF Start, Saved, Forgotten, LostTicks
    <2>2. /\ resume => state'.n_decisions_emitted = Saved
          /\ ~ resume => state'.n_decisions_emitted = 0
      BY <1>1 DEF Start, Saved, FreshState
    <2>3. Unsaved' \in Int /\ Unsaved' <= 0
      BY <1>n, <2>1, <2>2 DEF Unsaved
    <2>4. Unsaved' * Cadence <= 0
      <3>1. \A n \in Int, c \in Nat : n <= 0 => n * c <= 0
        OBVIOUS
      <3> QED
        BY <1>n, <2>3, <3>1
    <2>5. ~ reset' => decision_rows - state'.n_decisions_emitted <= Forgotten
      <3> SUFFICES ASSUME ~ reset' PROVE decision_rows - state'.n_decisions_emitted <= Forgotten
        OBVIOUS
      <3>0. ~ reset /\ (resume \/ ~ (decision_rows > 0))
        BY <2>1, Zenon
      <3>1. ~ reset /\ (resume \/ decision_rows = 0)
        BY <1>n, <3>0
      <3>2. decision_rows - Saved <= Forgotten
        BY <2>1, <3>1 DEF LossInv
      <3> QED
        BY <1>n, <2>2, <3>1, <3>2
    <2>6. Running' /\ ~ reset' =>
              decision_rows' - state'.n_decisions_emitted <= Forgotten' + Uncounted'
      BY <1>n, <2>1, <2>2, <2>5
    <2>7. Unsaved' <= FullLoops /\ Unsaved' <= LostTicks
      BY <1>n, <2>3
    <2>8. Unsaved' * Cadence <= elapsed' - last_checkpoint'
      BY <2>1, <2>4
    <2> QED
      BY <2>1, <2>6, <2>7, <2>8 DEF LossInv, FullLoops, LostTicks
  <1>2. ASSUME LoopHead PROVE LossInv'
    <2>1. /\ state'.n_decisions_emitted = state.n_decisions_emitted /\ pc = "head"
          /\ pc' \in {"tick", "save"}
          /\ UNCHANGED <<checkpoint, kills, stops, reset, elapsed, last_checkpoint, decision_rows>>
      BY <1>2 DEF LoopHead, TypeInv, TypeOK, States
    <2>2. UNCHANGED <<Saved, Unsaved, Forgotten>>
      BY <2>1 DEF Saved, Unsaved, Forgotten, LostTicks
    <2> QED
      BY <1>n, <2>1, <2>2 DEF LossInv, FullLoops, LostTicks
  <1>3. ASSUME InsertForecast \/ Sample \/ SaveTmp PROVE LossInv'
    <2>1. /\ UNCHANGED <<state, checkpoint, kills, stops, reset, elapsed, last_checkpoint,
                         decision_rows>>
          /\ \/ pc = "tick" /\ pc' = "tick"
             \/ pc = "sample" /\ pc' \in {"save", "checkpoint"}
             \/ pc = "save" /\ pc' = "replace"
      BY <1>3 DEF InsertForecast, Sample, SaveTmp
    <2> QED
      BY <1>n, <1>a, <2>1 DEF LossInv, FullLoops, LostTicks
  <1>4. ASSUME NEW cost \in 0..1, InsertDecision(cost) PROVE LossInv'
    <2>1. /\ UNCHANGED <<state, checkpoint, kills, stops, reset, last_checkpoint>>
          /\ decision_rows' = decision_rows + 1 /\ elapsed' >= elapsed /\ elapsed' \in Nat
          /\ pc = "tick" /\ pc' = "advance"
      BY <1>n, <1>4 DEF InsertDecision
    <2> QED
      BY <1>n, <1>a, <2>1 DEF LossInv, FullLoops, LostTicks
  <1>5. ASSUME AdvanceDay PROVE LossInv'
    <2>1. /\ state'.n_decisions_emitted = state.n_decisions_emitted
          /\ pc = "advance" /\ pc' = "count"
          /\ UNCHANGED <<checkpoint, kills, stops, reset, elapsed, last_checkpoint, decision_rows>>
      BY <1>5 DEF AdvanceDay, TypeInv, TypeOK, States
    <2>2. UNCHANGED <<Saved, Unsaved, Forgotten>>
      BY <2>1 DEF Saved, Unsaved, Forgotten, LostTicks
    <2> QED
      BY <1>n, <2>1, <2>2 DEF LossInv, FullLoops, LostTicks
  <1>6. ASSUME CountDecision PROVE LossInv'
    <2>1. /\ state'.n_decisions_emitted = state.n_decisions_emitted + 1
          /\ pc = "count" /\ pc' = "sample"
          /\ UNCHANGED <<checkpoint, kills, stops, reset, elapsed, last_checkpoint, decision_rows>>
      BY <1>6 DEF CountDecision, TypeInv, TypeOK, States
    <2>2. UNCHANGED <<Saved, Forgotten>> /\ Unsaved' = Unsaved + 1
      <3>1. UNCHANGED <<Saved, Forgotten>>
        BY <2>1 DEF Saved, Forgotten, LostTicks
      <3>2. Unsaved' = state'.n_decisions_emitted - Saved'
        BY DEF Unsaved
      <3> QED
        BY <1>n, <2>1, <3>1, <3>2
    <2>3. (Unsaved' - 1) * Cadence <= elapsed' - last_checkpoint'
      BY <1>n, <2>1, <2>2 DEF LossInv
    <2> QED
      BY <1>n, <2>1, <2>2, <2>3 DEF LossInv, FullLoops, LostTicks
  <1>7. ASSUME Checkpoint PROVE LossInv'
    <2>1. /\ UNCHANGED <<state, checkpoint, kills, stops, reset, elapsed, last_checkpoint,
                         decision_rows>>
          /\ pc = "checkpoint"
          /\ pc' = "save" \/ (pc' = "sleep" /\ elapsed - last_checkpoint < CheckpointInterval)
      BY <1>n, <1>7, SoakAssumption DEF Checkpoint
    <2>2. pc' = "sleep" => Unsaved <= FullLoops
      <3> SUFFICES ASSUME pc' = "sleep" PROVE Unsaved <= FullLoops
        OBVIOUS
      <3>1. (Unsaved - 1) * Cadence < CheckpointInterval
        BY <1>n, <2>1, SoakAssumption DEF LossInv
      <3>2. Unsaved - 1 \in Int
        BY <1>n
      <3>3. Unsaved - 1 < FullLoops
        BY <3>1, <3>2, LoopsFit
      <3> QED
        BY <1>n, <3>3
    <2> QED
      BY <1>n, <1>a, <2>1, <2>2 DEF LossInv, FullLoops, LostTicks
  <1>8. ASSUME Replace PROVE LossInv'
    <2>1. /\ UNCHANGED <<state, kills, stops, reset, elapsed, decision_rows>>
          /\ pc = "replace" /\ checkpoint' = state /\ state # None
          /\ pc' \in {"sleep", "failed", "passed", "interrupted", "crashed"}
          /\ pc' = "sleep" => last_checkpoint' = elapsed
      BY <1>8, SoakAssumption DEF Replace, AfterSave, TypeInv, TypeOK, Saving
    <2>2. Saved' = state.n_decisions_emitted /\ Unsaved' = 0 /\ Forgotten' = Forgotten
      BY <1>n, <2>1 DEF Saved, Unsaved, Forgotten, LostTicks
    <2>3. (Unsaved' - 1) * Cadence <= 0
      BY <1>n, <2>2
    <2> QED
      BY <1>n, <2>1, <2>2, <2>3 DEF LossInv, FullLoops, LostTicks
  <1>9. ASSUME Sleep PROVE LossInv'
    <2>1. /\ UNCHANGED <<state, checkpoint, kills, stops, reset, last_checkpoint, decision_rows>>
          /\ pc = "sleep" /\ pc' = "head" /\ elapsed' = elapsed + Cadence
      BY <1>9 DEF Sleep
    <2> QED
      BY <1>n, <1>a, <2>1 DEF LossInv, FullLoops, LostTicks
  <1>10. ASSUME Interrupt \/ TickRaises PROVE LossInv'
    <2>1. /\ UNCHANGED <<state, checkpoint, kills, reset, decision_rows>>
          /\ Running /\ pc' = "save" /\ stops' = stops + 1
      BY <1>10 DEF Interrupt, TickRaises, InTry
    <2>2. UNCHANGED <<Saved, Unsaved>> /\ Forgotten' = Forgotten + 1
      BY <1>n, <2>1 DEF Saved, Unsaved, Forgotten, LostTicks
    <2> QED
      BY <1>n, <2>1, <2>2 DEF LossInv, FullLoops, LostTicks
  <1>11. ASSUME Kill PROVE LossInv'
    <2>1. /\ UNCHANGED <<checkpoint, reset, decision_rows>> /\ Running
          /\ pc' = "stopped" /\ stops' = stops + 1 /\ kills' = kills + 1
      BY <1>11 DEF Kill
    <2>2. Saved' = Saved
      BY <2>1 DEF Saved
    <2>3. Forgotten' = Forgotten + LostTicks
      <3>1. (kills + 1) * LostTicks = kills * LostTicks + LostTicks
        BY <1>n
      <3> QED
        BY <1>n, <2>1, <3>1 DEF Forgotten, LostTicks
    <2>4. ~ reset => decision_rows - Saved <= Forgotten + LostTicks
      BY <1>n, <2>1 DEF LossInv
    <2> QED
      BY <2>1, <2>2, <2>3, <2>4 DEF LossInv
  <1>12. ASSUME (\E more \in Usages : Grow(more)) \/ UNCHANGED vars PROVE LossInv'
    <2>1. UNCHANGED <<state, checkpoint, kills, stops, reset, elapsed, last_checkpoint,
                      decision_rows, pc>>
      BY <1>12 DEF Grow, vars
    <2> QED
      BY <1>n, <1>a, <2>1 DEF LossInv, FullLoops, LostTicks
  <1> QED
    BY <1>1, <1>2, <1>3, <1>4, <1>5, <1>6, <1>7, <1>8, <1>9, <1>10, <1>11, <1>12 DEF Next, Step

\* Whatever stops a soak, wherever and however often: what it resumes never
\* counts a decision the database lacks, forgets a bounded number of days for
\* each stop, and is what the last process left when it ended by itself.
THEOREM CheckpointKeepsUp == Spec => []CheckpointTracksRows
  <1> DEFINE Inv == TypeInv /\ AheadInv /\ LossInv
  <1>1. Init => Inv
    <2> SUFFICES ASSUME Init PROVE Inv
      OBVIOUS
    <2>1. TypeInv
      BY TypeInit
    <2>2. AheadInv
      BY SoakAssumption DEF Init, AheadInv, NeverAhead, Uncounted, FreshState
    <2>3. LossInv
      BY LossNumbers, <2>1
         DEF Init, LossInv, LeftInCheckpoint, Running, Ended, Saved, Forgotten
    <2> QED
      BY <2>1, <2>2, <2>3
  <1>2. Inv /\ [Next]_vars => Inv'
    BY TypeNext, AheadNext, LossNext
  <1>3. Inv => CheckpointTracksRows
    <2> SUFFICES ASSUME Inv PROVE CheckpointTracksRows
      OBVIOUS
    <2>1. LossBounded
      <3>1. Uncounted \in {0, 1}
        BY DEF Uncounted
      <3> SUFFICES ASSUME Running, ~ reset
                   PROVE  decision_rows - state.n_decisions_emitted <= Forgotten + 1
        BY LossNumbers DEF LossBounded, Forgotten
      <3>2. decision_rows - state.n_decisions_emitted <= Forgotten + Uncounted
        BY DEF LossInv
      <3> QED
        BY <3>1, <3>2, LossNumbers
    <2> QED
      BY <2>1 DEF CheckpointTracksRows, AheadInv, LossInv
  <1> QED
    BY <1>1, <1>2, <1>3, PTL DEF Spec

-----------------------------------------------------------------------------
(***************************************************************************)
(* The controller the soak drives.  What is said of it is said under the   *)
(* premise its module declares, ControllerAssumption.                      *)
(*                                                                         *)
(* Sums first.  The model sums with the community modules' SumFunction: a  *)
(* choice among the functions that obey a recursion over finite sets.      *)
(* Each fact about it is proved from a least set that breaks it.           *)
(***************************************************************************)


\* A set of whole numbers has a first one.
LEMMA FirstExists ==
    ASSUME NEW S \in SUBSET Nat, S # {}
    PROVE  \E d \in S : \A x \in S : d <= x
  <1>1. PICK d \in S : \A x \in S : <<x, d>> \notin OpToRel(<, Nat)
    BY NatLessThanWellFounded, WFMin
  <1>2. \A x \in S : ~(x < d)
    BY <1>1 DEF OpToRel
  <1> QED
    BY <1>2

Pick(s) == CHOOSE x \in s : TRUE

\* g gives each part of S the sum of its terms, an element at a time.
IsSum(g, t, S) ==
    /\ g \in [SUBSET S -> Int]
    /\ \A s \in SUBSET S :
          /\ g[s] \in Int
          /\ g[s] = IF s = {} THEN 0 ELSE t[Pick(s)] + g[s \ {Pick(s)}]

\* Such a function exists whatever the terms.
LEMMA SumExists ==
    ASSUME NEW S, IsFiniteSet(S), NEW t, \A x \in S : t[x] \in Int
    PROVE  \E g : IsSum(g, t, S)
  <1> DEFINE Parts(n) == {s \in SUBSET S : Cardinality(s) <= n}
             Sums(g, n) == \A s \in Parts(n) :
                             /\ g[s] \in Int
                             /\ g[s] = IF s = {} THEN 0 ELSE t[Pick(s)] + g[s \ {Pick(s)}]
             Bad == {n \in Nat : ~ \E g : Sums(g, n)}
  <1>1. \A s \in SUBSET S : IsFiniteSet(s) /\ Cardinality(s) \in Nat
    BY FS_Subset, FS_CardinalityType
  <1>2. Bad = {}
    <2> SUFFICES ASSUME Bad # {} PROVE FALSE
      OBVIOUS
    <2>1. PICK n \in Bad : \A m \in Bad : n <= m
      <3>1. Bad \in SUBSET Nat
        OBVIOUS
      <3> HIDE DEF Bad
      <3> QED
        BY <3>1, FirstExists
    <2>2. n # 0
      <3> SUFFICES ASSUME n = 0 PROVE FALSE
        OBVIOUS
      <3>1. Parts(0) \subseteq {{}}
        BY <1>1, FS_EmptySet
      <3>2. Sums([s \in SUBSET S |-> 0], 0)
        BY <3>1
      <3> QED
        BY <2>1, <3>2
    <2>3. PICK g : Sums(g, n - 1)
      <3>1. n \in Nat /\ n - 1 \in Nat /\ ~(n <= n - 1)
        BY <2>1, <2>2
      <3>2. n - 1 \notin Bad
        <4> HIDE DEF Bad
        <4> QED
          BY <2>1, <3>1
      <3> QED
        BY <3>1, <3>2
    <2> DEFINE h == [s \in SUBSET S |-> IF s = {} THEN 0 ELSE t[Pick(s)] + g[s \ {Pick(s)}]]
    <2>4. \A s \in Parts(n - 1) : h[s] = g[s]
      BY <2>3
    <2>5. Sums(h, n)
      <3> SUFFICES ASSUME NEW s \in Parts(n)
                   PROVE  /\ h[s] \in Int
                          /\ h[s] = IF s = {} THEN 0 ELSE t[Pick(s)] + h[s \ {Pick(s)}]
        OBVIOUS
      <3>1. CASE s = {}
        BY <3>1
      <3>2. CASE s # {}
        <4>1. Pick(s) \in s /\ s \in SUBSET S
          BY <3>2 DEF Pick
        <4>2. s \ {Pick(s)} \in SUBSET S /\ Cardinality(s \ {Pick(s)}) = Cardinality(s) - 1
          BY <1>1, <4>1, FS_RemoveElement
        <4>3. s \ {Pick(s)} \in Parts(n - 1)
          BY <1>1, <2>1, <4>1, <4>2
        <4>4. g[s \ {Pick(s)}] \in Int /\ h[s \ {Pick(s)}] = g[s \ {Pick(s)}]
          BY <2>3, <2>4, <4>3
        <4>5. t[Pick(s)] \in Int
          BY <4>1
        <4> HIDE DEF Parts
        <4> QED
          BY <3>2, <4>1, <4>4, <4>5
      <3> QED
        BY <3>1, <3>2
    <2> QED
      BY <2>1, <2>5
  <1>3. PICK g : Sums(g, Cardinality(S))
    BY <1>1, <1>2
  <1>4. Parts(Cardinality(S)) = SUBSET S
    BY FS_Subset
  <1> DEFINE h == [s \in SUBSET S |-> g[s]]
  <1>5. ASSUME NEW s \in SUBSET S
        PROVE  /\ h[s] \in Int
               /\ h[s] = IF s = {} THEN 0 ELSE t[Pick(s)] + h[s \ {Pick(s)}]
    <2>1. s \in Parts(Cardinality(S)) /\ s \ {Pick(s)} \in SUBSET S
      BY <1>4
    <2> HIDE DEF Parts
    <2> QED
      BY <1>3, <2>1
  <1> HIDE DEF Parts, Sums, Bad
  <1> QED
    BY <1>5 DEF IsSum

\* It depends on the terms alone.
LEMMA SumUnique ==
    ASSUME NEW S, IsFiniteSet(S), NEW t, NEW u, NEW T \in SUBSET S,
           NEW g, NEW h, IsSum(g, t, S), IsSum(h, u, T), \A x \in T : t[x] = u[x]
    PROVE  \A s \in SUBSET T : g[s] = h[s]
  <1> DEFINE Bad == {n \in Nat : \E s \in SUBSET T : Cardinality(s) = n /\ g[s] # h[s]}
  <1>1. \A s \in SUBSET T : IsFiniteSet(s) /\ Cardinality(s) \in Nat
    BY FS_Subset, FS_CardinalityType
  <1>2. Bad = {}
    <2> SUFFICES ASSUME Bad # {} PROVE FALSE
      OBVIOUS
    <2>1. PICK n \in Bad : \A m \in Bad : n <= m
      <3>1. Bad \in SUBSET Nat
        OBVIOUS
      <3> HIDE DEF Bad
      <3> QED
        BY <3>1, FirstExists
    <2>2. PICK s \in SUBSET T : Cardinality(s) = n /\ g[s] # h[s]
      BY <2>1
    <2>3. s # {}
      BY <2>2 DEF IsSum
    <2> DEFINE r == s \ {Pick(s)}
    <2>4. Pick(s) \in s /\ r \in SUBSET T
      BY <2>3 DEF Pick
    <2>5. Cardinality(r) = n - 1 /\ Cardinality(r) \in Nat
      BY <1>1, <2>2, <2>4, FS_RemoveElement
    <2>6. g[r] = h[r]
      BY <2>1, <2>4, <2>5
    <2>7. g[s] = t[Pick(s)] + g[r] /\ h[s] = u[Pick(s)] + h[r]
      BY <2>3 DEF IsSum
    <2> QED
      BY <2>2, <2>4, <2>6, <2>7
  <1> QED
    BY <1>1, <1>2

\* It does not matter which element is taken first.
LEMMA SumAny ==
    ASSUME NEW S, IsFiniteSet(S), NEW t, \A x \in S : t[x] \in Int, NEW g, IsSum(g, t, S),
           NEW z \in S
    PROVE  g[S] = t[z] + g[S \ {z}]
  <1> DEFINE Bad == {n \in Nat : \E s \in SUBSET S :
                                   Cardinality(s) = n /\ \E x \in s : g[s] # t[x] + g[s \ {x}]}
  <1>1. \A s \in SUBSET S : IsFiniteSet(s) /\ Cardinality(s) \in Nat
    BY FS_Subset, FS_CardinalityType
  <1>2. Bad = {}
    <2> SUFFICES ASSUME Bad # {} PROVE FALSE
      OBVIOUS
    <2>1. PICK n \in Bad : \A m \in Bad : n <= m
      <3>1. Bad \in SUBSET Nat
        OBVIOUS
      <3> HIDE DEF Bad
      <3> QED
        BY <3>1, FirstExists
    <2>2. PICK s \in SUBSET S : Cardinality(s) = n /\ \E x \in s : g[s] # t[x] + g[s \ {x}]
      BY <2>1
    <2>3. PICK x \in s : g[s] # t[x] + g[s \ {x}]
      BY <2>2
    <2>4. PICK y : y = Pick(s)
      OBVIOUS
    <2>5. y \in s /\ g[s] = t[y] + g[s \ {y}]
      BY <2>4 DEF IsSum, Pick
    <2>6. x # y
      BY <2>3, <2>5
    <2>7. s \ {y} \in SUBSET S /\ x \in s \ {y} /\ s \ {x} \in SUBSET S /\ y \in s \ {x}
      BY <2>5, <2>6
    <2>8. Cardinality(s \ {y}) = n - 1 /\ Cardinality(s \ {x}) = n - 1 /\ n - 1 \in Nat
      <3>1. IsFiniteSet(s) /\ Cardinality(s) = n
        BY <1>1, <2>2
      <3>2. Cardinality(s \ {y}) = n - 1 /\ Cardinality(s \ {x}) = n - 1
        BY <2>5, <3>1, FS_RemoveElement
      <3>3. Cardinality(s \ {y}) \in Nat
        BY <1>1, <2>7
      <3> QED
        BY <3>2, <3>3
    <2>9. g[s \ {y}] = t[x] + g[(s \ {y}) \ {x}] /\ g[s \ {x}] = t[y] + g[(s \ {x}) \ {y}]
      <3>1. n - 1 \notin Bad
        <4>1. n \in Nat /\ ~(n <= n - 1)
          OBVIOUS
        <4> HIDE DEF Bad
        <4> QED
          BY <2>1, <4>1
      <3>2. ASSUME NEW u \in SUBSET S, Cardinality(u) = n - 1, NEW v \in u
            PROVE  g[u] = t[v] + g[u \ {v}]
        BY <2>8, <3>1, <3>2
      <3> QED
        BY <2>7, <2>8, <3>2
    <2>10. (s \ {y}) \ {x} = (s \ {x}) \ {y} /\ (s \ {y}) \ {x} \in SUBSET S
      OBVIOUS
    <2>11. t[x] \in Int /\ t[y] \in Int /\ g[(s \ {y}) \ {x}] \in Int
      BY <2>5, <2>7, <2>10 DEF IsSum
    <2> HIDE DEF Bad
    <2>12. g[s] = t[y] + (t[x] + g[(s \ {y}) \ {x}])
      BY <2>5, <2>9
    <2>13. g[s \ {x}] = t[y] + g[(s \ {y}) \ {x}]
      BY <2>9, <2>10
    <2> QED
      BY <2>3, <2>11, <2>12, <2>13
  <1> QED
    BY <1>1, <1>2

\* The library's fold is such a sum.
LEMMA SumIs ==
    ASSUME NEW S, IsFiniteSet(S), NEW t, \A x \in S : t[x] \in Int
    PROVE  \E g : IsSum(g, t, S) /\ SumFunctionOnSet(t, S) = g[S]
  <1> DEFINE Body(g) == [s \in SUBSET S |-> IF s = {} THEN 0 ELSE t[Pick(s)] + g[s \ {Pick(s)}]]
             it == CHOOSE g : g = Body(g)
  <1>1. PICK g : IsSum(g, t, S)
    BY SumExists
  <1>2. SumFunctionOnSet(t, S) = it[S]
    BY DEF SumFunctionOnSet, FoldFunctionOnSet, MapThenFoldSet, Pick
  <1>3. g = Body(g)
    <2>1. \A s \in SUBSET S : g[s] = Body(g)[s]
      BY <1>1 DEF IsSum
    <2> QED
      BY <1>1, <2>1 DEF IsSum
  <1>4. it = Body(it)
    BY <1>3
  <1>5. \A s \in SUBSET S : it[s] = g[s]
    <2> HIDE DEF it
    <2> DEFINE Bad == {n \in Nat : \E s \in SUBSET S : Cardinality(s) = n /\ it[s] # g[s]}
    <2>1. \A s \in SUBSET S : IsFiniteSet(s) /\ Cardinality(s) \in Nat
      BY FS_Subset, FS_CardinalityType
    <2>2. Bad = {}
      <3> SUFFICES ASSUME Bad # {} PROVE FALSE
        OBVIOUS
      <3>1. PICK n \in Bad : \A m \in Bad : n <= m
        <4>1. Bad \in SUBSET Nat
          OBVIOUS
        <4> HIDE DEF Bad
        <4> QED
          BY <4>1, FirstExists
      <3>2. PICK s \in SUBSET S : Cardinality(s) = n /\ it[s] # g[s]
        BY <3>1
      <3>3. it[s] = Body(it)[s] /\ g[s] = Body(g)[s]
        BY <1>3, <1>4
      <3>4. s # {}
        BY <3>2, <3>3
      <3> DEFINE v == s \ {Pick(s)}
      <3>5. Pick(s) \in s /\ v \in SUBSET S
        BY <3>4 DEF Pick
      <3>6. Cardinality(v) = n - 1 /\ Cardinality(v) \in Nat
        BY <2>1, <3>2, <3>5, FS_RemoveElement
      <3>7. it[v] = g[v]
        BY <3>1, <3>5, <3>6
      <3> QED
        BY <3>2, <3>3, <3>4, <3>7
    <2> QED
      BY <2>1, <2>2
  <1> QED
    BY <1>1, <1>2, <1>5

\* A sum of whole numbers is one.
LEMMA SumInt ==
    ASSUME NEW S, IsFiniteSet(S), NEW t, \A x \in S : t[x] \in Int
    PROVE  SumFunctionOnSet(t, S) \in Int
  <1>1. PICK g : IsSum(g, t, S) /\ SumFunctionOnSet(t, S) = g[S]
    BY SumIs
  <1> QED
    BY <1>1 DEF IsSum

\* The sum of nothing is nothing.
LEMMA SumEmpty ==
    ASSUME NEW t
    PROVE  SumFunctionOnSet(t, {}) = 0
  <1>1. PICK g : IsSum(g, t, {}) /\ SumFunctionOnSet(t, {}) = g[{}]
    BY SumIs, FS_EmptySet
  <1> QED
    BY <1>1 DEF IsSum

\* The same terms have the same sum.
LEMMA SumSame ==
    ASSUME NEW S, IsFiniteSet(S), NEW t, NEW u, \A x \in S : t[x] \in Int /\ t[x] = u[x]
    PROVE  SumFunctionOnSet(t, S) = SumFunctionOnSet(u, S)
  <1>1. PICK g : IsSum(g, t, S) /\ SumFunctionOnSet(t, S) = g[S]
    BY SumIs
  <1>2. PICK h : IsSum(h, u, S) /\ SumFunctionOnSet(u, S) = h[S]
    BY SumIs
  <1>3. g[S] = h[S]
    BY <1>1, <1>2, SumUnique
  <1> QED
    BY <1>1, <1>2, <1>3

\* Any one term can be taken out.
LEMMA SumAdd ==
    ASSUME NEW S, IsFiniteSet(S), NEW t, \A x \in S : t[x] \in Int, NEW y \in S
    PROVE  SumFunctionOnSet(t, S) = t[y] + SumFunctionOnSet(t, S \ {y})
  <1>1. PICK g : IsSum(g, t, S) /\ SumFunctionOnSet(t, S) = g[S]
    BY SumIs
  <1>2. IsFiniteSet(S \ {y}) /\ S \ {y} \in SUBSET S
    BY FS_Subset
  <1>3. PICK h : IsSum(h, t, S \ {y}) /\ SumFunctionOnSet(t, S \ {y}) = h[S \ {y}]
    BY <1>2, SumIs
  <1>4. g[S \ {y}] = h[S \ {y}]
    <2>1. \A s \in SUBSET (S \ {y}) : g[s] = h[s]
      BY <1>1, <1>2, <1>3, SumUnique
    <2> QED
      BY <2>1
  <1>5. g[S] = t[y] + g[S \ {y}]
    BY <1>1, SumAny
  <1> QED
    BY <1>1, <1>3, <1>4, <1>5

\* Terms that are zero do not matter.
LEMMA SumZeros ==
    ASSUME NEW S, IsFiniteSet(S), NEW t, \A x \in S : t[x] \in Int,
           NEW T \in SUBSET S, \A x \in S \ T : t[x] = 0
    PROVE  SumFunctionOnSet(t, S) = SumFunctionOnSet(t, T)
  <1> DEFINE Sum(s) == SumFunctionOnSet(t, s)
             Bad == {n \in Nat : \E s \in SUBSET S : T \subseteq s /\ Cardinality(s) = n
                                                       /\ Sum(s) # Sum(T)}
  <1>1. \A s \in SUBSET S : IsFiniteSet(s) /\ Cardinality(s) \in Nat
    BY FS_Subset, FS_CardinalityType
  <1>2. Bad = {}
    <2> SUFFICES ASSUME Bad # {} PROVE FALSE
      OBVIOUS
    <2>1. PICK n \in Bad : \A m \in Bad : n <= m
      <3>1. Bad \in SUBSET Nat
        OBVIOUS
      <3> HIDE DEF Bad
      <3> QED
        BY <3>1, FirstExists
    <2>2. PICK s \in SUBSET S : T \subseteq s /\ Cardinality(s) = n /\ Sum(s) # Sum(T)
      BY <2>1
    <2>3. PICK x \in s : x \notin T
      BY <2>2
    <2> DEFINE r == s \ {x}
    <2>4. r \in SUBSET S /\ T \subseteq r /\ Cardinality(r) = n - 1 /\ Cardinality(r) \in Nat
      BY <1>1, <2>2, <2>3, FS_RemoveElement
    <2>5. Sum(r) = Sum(T)
      <3> HIDE DEF Sum
      <3> QED
        BY <2>1, <2>4
    <2>6. Sum(s) = t[x] + Sum(r)
      BY <1>1, <2>3, SumAdd
    <2>7. t[x] = 0 /\ Sum(r) \in Int
      BY <1>1, <2>3, <2>4, SumInt
    <2> HIDE DEF Sum, r
    <2> QED
      BY <2>2, <2>5, <2>6, <2>7
  <1> QED
    BY <1>1, <1>2

-----------------------------------------------------------------------------
(***************************************************************************)
(* Controller.decide, and the signals other modules recompute.             *)
(***************************************************************************)

Signal(w, r, S) == SumFunction([d \in S |-> w[d] * r[d].point_estimate])

SomeWeights(w) == w \in [Desks -> WeightValues \cup {1, NULL}]
SomeRecent(r) == r \in [Desks -> Forecast \cup {NULL}]

WellSetUp == ControllerAssumption

\* The model's own copies of these operators are the library's.
\* What the premise says of each constant.
LEMMA Constants ==
    ASSUME WellSetUp
    PROVE  /\ IsFiniteSet(Desks) /\ IsFiniteSet(Regimes)
           /\ Points \subseteq Int /\ PrintValues \subseteq Int /\ WeightValues \subseteq Int
           /\ K \in Int /\ Limit \in Nat /\ NULL \notin WeightValues /\ NULL # 1
           /\ NULL \notin Desks /\ NULL \notin PrintValues
           /\ NULL \notin Forecast /\ NULL \notin Params
           /\ MaxForecasts \in Nat /\ MaxDecisions \in Nat
           /\ MaxPromotions \in Nat /\ MaxCrashes \in Nat
  <1>1. IsFiniteSet(Desks) /\ IsFiniteSet(Regimes)
    BY DEF WellSetUp, ControllerAssumption
  <1>2. /\ Points \subseteq Int /\ PrintValues \subseteq Int /\ WeightValues \subseteq Int
        /\ K \in Int /\ Limit \in Nat
    BY DEF WellSetUp, ControllerAssumption
  <1>3. NULL \notin Desks \cup WeightValues \cup PrintValues \cup {1}
    BY DEF WellSetUp, ControllerAssumption
  <1>4. NULL \notin Forecast /\ NULL \notin Params
    BY DEF WellSetUp, ControllerAssumption
  <1>5. {MaxForecasts, MaxDecisions, MaxPromotions, MaxCrashes} \subseteq Nat
    BY DEF WellSetUp, ControllerAssumption
  <1> QED
    BY <1>1, <1>2, <1>3, <1>4, <1>5

\* What a decision may multiply is whole numbers.
LEMMA TermsWhole ==
    ASSUME WellSetUp, NEW w, SomeWeights(w), NEW r, SomeRecent(r),
           NEW d \in Weighted(w) \cap Fresh(r)
    PROVE  w[d] \in Int /\ r[d].point_estimate \in Int /\ w[d] * r[d].point_estimate \in Int
  <1>1. d \in Desks /\ w[d] # NULL /\ r[d] # NULL
    BY DEF Weighted, Fresh, Forecasting
  <1>2. w[d] \in WeightValues \cup {1} /\ r[d] \in Forecast
    BY <1>1 DEF SomeWeights, SomeRecent
  <1>0. \A x \in WeightValues \cup Points \cup {0, 1} : x \in Int
    BY Constants
  <1>3. w[d] \in Int
    BY <1>0, <1>2
  <1>4. r[d].point_estimate \in Int
    BY <1>0, <1>2 DEF Forecast
  <1> QED
    BY <1>3, <1>4

\* A signal is a sum of whole numbers, over any wider set of terms too.
LEMMA SignalOn ==
    ASSUME NEW S, IsFiniteSet(S), NEW w, NEW r, \A d \in S : w[d] * r[d].point_estimate \in Int
    PROVE  /\ Signal(w, r, S) \in Int
           /\ \A T : S \subseteq T => Signal(w, r, S) = SumFunctionOnSet(
                                        [d \in T |-> w[d] * r[d].point_estimate], S)
  <1> DEFINE t == [d \in S |-> w[d] * r[d].point_estimate]
  <1>1. Signal(w, r, S) = SumFunctionOnSet(t, S)
    BY DEF Signal, SumFunction
  <1>2. \A d \in S : t[d] \in Int
    OBVIOUS
  <1>3. ASSUME NEW T, S \subseteq T
        PROVE  SumFunctionOnSet(t, S) = SumFunctionOnSet([d \in T |-> w[d] * r[d].point_estimate], S)
    <2> DEFINE u == [d \in T |-> w[d] * r[d].point_estimate]
    <2>1. \A d \in S : t[d] \in Int /\ t[d] = u[d]
      BY <1>2, <1>3
    <2> HIDE DEF t, u
    <2>2. SumFunctionOnSet(t, S) = SumFunctionOnSet(u, S)
      BY <2>1, SumSame
    <2> QED
      BY <2>2 DEF u
  <1>4. SumFunctionOnSet(t, S) \in Int
    BY <1>2, SumInt
  <1> QED
    BY <1>1, <1>3, <1>4

\* Leaving one desk out takes its term away.
LEMMA SignalDrop ==
    ASSUME NEW S, IsFiniteSet(S), NEW w, NEW r, \A d \in S : w[d] * r[d].point_estimate \in Int,
           NEW d \in S
    PROVE  Signal(w, r, S) = w[d] * r[d].point_estimate + Signal(w, r, S \ {d})
  <1> DEFINE t == [x \in S |-> w[x] * r[x].point_estimate]
  <1>1. \A x \in S : t[x] \in Int
    OBVIOUS
  <1>2. IsFiniteSet(S \ {d}) /\ S \ {d} \subseteq S
    BY FS_Subset
  <1>3. Signal(w, r, S) = SumFunctionOnSet(t, S)
    BY SignalOn
  <1>4. Signal(w, r, S \ {d}) = SumFunctionOnSet(t, S \ {d})
    BY <1>2, SignalOn
  <1>5. SumFunctionOnSet(t, S) = t[d] + SumFunctionOnSet(t, S \ {d})
    <2> HIDE DEF t
    <2> QED
      BY <1>1, SumAdd
  <1> QED
    BY <1>3, <1>4, <1>5

\* Desks that give nothing make no difference.
LEMMA SignalZeros ==
    ASSUME NEW S, IsFiniteSet(S), NEW w, NEW r, \A d \in S : w[d] * r[d].point_estimate \in Int,
           NEW T \in SUBSET S, \A d \in S \ T : w[d] * r[d].point_estimate = 0
    PROVE  Signal(w, r, S) = Signal(w, r, T)
  <1> DEFINE t == [x \in S |-> w[x] * r[x].point_estimate]
  <1>1. \A x \in S : t[x] \in Int
    OBVIOUS
  <1>2. IsFiniteSet(T)
    BY FS_Subset
  <1>3. Signal(w, r, S) = SumFunctionOnSet(t, S)
    BY SignalOn
  <1>4. Signal(w, r, T) = SumFunctionOnSet(t, T)
    BY <1>2, SignalOn
  <1>5. SumFunctionOnSet(t, S) = SumFunctionOnSet(t, T)
    <2>1. \A x \in S \ T : t[x] = 0
      OBVIOUS
    <2> HIDE DEF t
    <2> QED
      BY <1>1, <2>1, SumZeros
  <1> QED
    BY <1>3, <1>4, <1>5

\* The same forecasts and weights give the same sum.
LEMMA SignalSame ==
    ASSUME NEW S, NEW w, NEW r, NEW q, \A d \in S : r[d] = q[d]
    PROVE  Signal(w, r, S) = Signal(w, q, S)
  <1>1. [d \in S |-> w[d] * r[d].point_estimate] = [d \in S |-> w[d] * q[d].point_estimate]
    OBVIOUS
  <1> QED
    BY <1>1 DEF Signal

\* The desks are finitely many.
LEMMA DesksFinite ==
    ASSUME WellSetUp, NEW S \in SUBSET Desks
    PROVE  IsFiniteSet(S)
  BY FS_Subset, Constants

\* Controller.decide sums over the desks that enter the decision.
LEMMA CombinedIsSignal ==
    ASSUME NEW w, NEW r
    PROVE  CombinedSignal(w, r) = Signal(w, r, Contributing(w, r))
  BY DEF CombinedSignal, Signal

\* Its signal is whole and its position within the regime's limit.
LEMMA CombinedWhole ==
    ASSUME WellSetUp, NEW w, SomeWeights(w), NEW r, SomeRecent(r)
    PROVE  /\ CombinedSignal(w, r) \in Int
           /\ PositionSize(w, [k_regime |-> K, pos_limit_regime |-> Limit], r) \in -Limit..Limit
  <1>1. Contributing(w, r) \subseteq Weighted(w) \cap Fresh(r) /\ Contributing(w, r) \subseteq Desks
    BY DEF Contributing, Weighted
  <1>2. \A d \in Contributing(w, r) : w[d] * r[d].point_estimate \in Int
    BY <1>1, TermsWhole
  <1>3. IsFiniteSet(Contributing(w, r))
    BY <1>1, DesksFinite
  <1>4. CombinedSignal(w, r) \in Int
    BY <1>2, <1>3, SignalOn, CombinedIsSignal
  <1>5. K * CombinedSignal(w, r) \in Int
    BY <1>4, Constants
  <1> QED
    BY <1>4, <1>5, Constants DEF PositionSize, Clip

\* GateIsSound, for all weights and forecasts.
LEMMA GatePasses ==
    ASSUME WellSetUp, NEW w, SomeWeights(w), NEW r, SomeRecent(r), NEW p,
           NEW d \in Weighted(w), w[d] # 0, r[d] # NULL
    PROVE  HotSwapPasses(w, p, r, d)
  <1> DEFINE swapped == [r EXCEPT ![d] = StubForecast]
             in == Contributing(w, r)
             out == Contributing(w, swapped)
  <1>1. d \in Desks /\ r \in [Desks -> Forecast \cup {NULL}]
    BY DEF Weighted, SomeRecent
  <1>2. swapped \in [Desks -> Forecast \cup {NULL, StubForecast}] /\ swapped[d] = StubForecast
    BY <1>1
  <1>3. \A x \in Desks \ {d} : swapped[x] = r[x]
    BY <1>1
  <1>4. d \notin out
    BY <1>2 DEF Contributing, Fresh, StubForecast
  <1>5. d \in Fresh(r) => d \in in
    BY DEF Contributing
  <1>6. out = in \ {d}
    <2> HIDE DEF swapped
    <2> QED
      BY <1>3, <1>4 DEF Contributing, Fresh, Forecasting, Weighted
  <1>7. in \subseteq Weighted(w) \cap Fresh(r) /\ in \subseteq Desks
    BY DEF Contributing, Weighted
  <1>8. IsFiniteSet(in) /\ \A x \in in : w[x] * r[x].point_estimate \in Int
    BY <1>7, TermsWhole, DesksFinite
  <1>9. Signal(w, swapped, out) = Signal(w, r, in \ {d})
    <2>1. \A x \in out : swapped[x] = r[x]
      BY <1>3, <1>6, <1>7
    <2> HIDE DEF swapped, in, out
    <2> QED
      BY <1>6, <2>1, SignalSame
  <1>10. CombinedSignal(w, swapped) - CombinedSignal(w, r)
            = IF d \in Fresh(r) THEN -(w[d] * r[d].point_estimate) ELSE 0
    <2>1. CombinedSignal(w, swapped) = Signal(w, r, in \ {d}) /\ CombinedSignal(w, r) = Signal(w, r, in)
      BY <1>9, CombinedIsSignal
    <2>2. CASE d \in Fresh(r)
      <3>1. d \in in
        BY <1>5, <2>2
      <3>2. Signal(w, r, in) = w[d] * r[d].point_estimate + Signal(w, r, in \ {d})
        <4> HIDE DEF in
        <4> QED
          BY <1>8, <3>1, SignalDrop
      <3>3. Signal(w, r, in \ {d}) \in Int
        <4>1. IsFiniteSet(in \ {d})
          BY <1>8, FS_Subset
        <4> QED
          BY <1>8, <4>1, SignalOn
      <3>4. w[d] * r[d].point_estimate \in Int
        BY <1>8, <3>1
      <3> HIDE DEF in, out, swapped
      <3> QED
        BY <2>1, <2>2, <3>2, <3>3, <3>4
    <2>3. CASE d \notin Fresh(r)
      <3>1. in \ {d} = in
        BY <1>7, <2>3
      <3>2. Signal(w, r, in) \in Int
        BY <1>8, SignalOn
      <3> HIDE DEF in, out, swapped
      <3>3. CombinedSignal(w, swapped) - CombinedSignal(w, r) = 0
        <4>1. \A x \in Int : x - x = 0
          OBVIOUS
        <4> QED
          BY <2>1, <3>1, <3>2, <4>1
      <3> QED
        BY <2>3, <3>3
    <2> QED
      BY <2>2, <2>3
  <1> QED
    BY <1>4, <1>5, <1>10 DEF HotSwapPasses

-----------------------------------------------------------------------------
(***************************************************************************)
(* The order in which a cold start writes.                                 *)
(***************************************************************************)

WeightRow == [table : {"signal_weights"}, regime : Regimes, desk : Desks,
              weight : WeightValues \cup {1}]
ParamsRow == [table : {"controller_params"}, regime : Regimes]

\* A weight row for the regime and desk comes before position i.
WrittenBefore(seq, i, r, d) ==
    \E j \in 1..(i - 1) :
        seq[j].table = "signal_weights" /\ seq[j].regime = r /\ seq[j].desk = d

\* Rows to write in which no regime gets its params before all its weights.
Seeding(seq) ==
    /\ seq \in Seq(WeightRow \cup ParamsRow)
    /\ \A i \in DOMAIN seq : seq[i].table = "controller_params" =>
          \A d \in Desks : WrittenBefore(seq, i, seq[i].regime, d)

\* The order the cold start takes leaves nobody out.
LEMMA SetToSeqOnto ==
    ASSUME NEW S, IsFiniteSet(S)
    PROVE  /\ SetToSeq(S) \in [1..Cardinality(S) -> S]
           /\ \A x \in S : \E i \in 1..Cardinality(S) : SetToSeq(S)[i] = x
  <1> DEFINE n == Cardinality(S)
  <1>1. n \in Nat /\ ExistsBijection(1..n, S)
    BY FS_CardinalityType
  <1>2. PICK f : f \in [1..n -> S] /\ IsInjective(f)
    <2>1. PICK b : b \in Bijection(1..n, S)
      BY <1>1 DEF ExistsBijection
    <2>2. b \in [1..n -> S] /\ IsInjective(b)
      BY <2>1 DEF Bijection, Injection
    <2>3. IsInjective(b)
      BY <2>2 DEF IsInjective, IsInjective
    <2> QED
      BY <2>2, <2>3
  <1>3. SetToSeq(S) \in [1..n -> S] /\ IsInjective(SetToSeq(S))
    BY <1>2 DEF SetToSeq
  <1> DEFINE s == SetToSeq(S)
  <1>4. s \in Injection(1..n, S)
    BY <1>3 DEF IsInjective, Injection, IsInjective
  <1>5. Cardinality(1..n) = n
    BY <1>1, FS_Interval
  <1>6. s \in Surjection(1..n, S)
    <2> HIDE DEF s
    <2> QED
      BY <1>4, <1>5, FS_Injection
  <1> QED
    BY <1>3, <1>6 DEF Surjection

\* The rows of one regime come in that order ...
LEMMA SeedRegimeSeeds ==
    ASSUME WellSetUp, NEW r \in Regimes
    PROVE  Seeding(SeedRegime(r))
  <1> DEFINE n == Cardinality(Desks)
             s == SetToSeq(Desks)
             weights == [i \in 1..n |-> [table |-> "signal_weights", regime |-> r,
                                         desk |-> s[i], weight |-> 1]]
             last == [table |-> "controller_params", regime |-> r]
             seq == weights \o <<last>>
  <1>1. IsFiniteSet(Desks) /\ n \in Nat
    BY Constants, FS_CardinalityType
  <1>2. /\ s \in [1..n -> Desks]
        /\ \A d \in Desks : \E i \in 1..n : s[i] = d
    BY <1>1, SetToSeqOnto
  <1>3. SeedRegime(r) = seq
    BY DEF SeedRegime
  <1>4. weights \in Seq(WeightRow)
    <2> HIDE DEF s, n
    <2> QED
      BY <1>1, <1>2 DEF WeightRow
  <1>5. last \in ParamsRow
    BY DEF ParamsRow
  <1>6. /\ seq \in Seq(WeightRow \cup ParamsRow) /\ Len(seq) = n + 1
        /\ \A i \in 1..n : seq[i] = weights[i]
        /\ seq[n + 1] = last
    <2>1. Len(weights) = n
      BY <1>1
    <2>2. weights \in Seq(WeightRow \cup ParamsRow) /\ <<last>> \in Seq(WeightRow \cup ParamsRow)
      BY <1>4, <1>5
    <2>3. \A i \in 1..n : seq[i] = weights[i]
      <3> HIDE DEF weights, last, n
      <3> QED
        BY <1>1, <2>1, <2>2
    <2>4. seq[n + 1] = last /\ Len(seq) = n + 1 /\ seq \in Seq(WeightRow \cup ParamsRow)
      <3> HIDE DEF weights, last, n
      <3> QED
        BY <1>1, <2>1, <2>2
    <2> QED
      BY <2>3, <2>4
  <1>8. /\ \A i \in 1..n : /\ weights[i].table = "signal_weights"
                            /\ weights[i].regime = r /\ weights[i].desk = s[i]
        /\ last.table = "controller_params" /\ last.regime = r
    <2> HIDE DEF n, s
    <2> QED
      OBVIOUS
  <1> HIDE DEF weights, last
  <1>7. \A i \in DOMAIN seq : seq[i].table = "controller_params" =>
            \A d \in Desks : WrittenBefore(seq, i, seq[i].regime, d)
    <2> SUFFICES ASSUME NEW i \in DOMAIN seq, seq[i].table = "controller_params", NEW d \in Desks
                 PROVE  WrittenBefore(seq, i, seq[i].regime, d)
      OBVIOUS
    <2>1. i \in 1..(n + 1)
      <3> HIDE DEF seq
      <3> QED
        BY <1>6
    <2>2. i = n + 1
      <3>1. i \in 1..n => seq[i].table = "signal_weights"
        <4> HIDE DEF seq
        <4> QED
          BY <1>6, <1>8
      <3> QED
        BY <1>1, <2>1, <3>1
    <2>3. PICK j \in 1..n : s[j] = d
      BY <1>2
    <2>4. seq[j].table = "signal_weights" /\ seq[j].regime = r /\ seq[j].desk = d
      <3> HIDE DEF seq
      <3> QED
        BY <1>6, <1>8, <2>3
    <2>5. seq[i].regime = r
      BY <1>6, <1>8, <2>2
    <2>6. j \in 1..(i - 1)
      BY <1>1, <2>2
    <2> HIDE DEF seq
    <2> QED
      BY <2>4, <2>5, <2>6 DEF WrittenBefore
  <1> HIDE DEF seq
  <1> QED
    BY <1>3, <1>6, <1>7 DEF Seeding

\* ... as do those of one regime after another ...
LEMMA SeedingCat ==
    ASSUME NEW a, Seeding(a), NEW b, Seeding(b)
    PROVE  Seeding(a \o b)
  <1> DEFINE T == WeightRow \cup ParamsRow
             c == a \o b
  <1>1. a \in Seq(T) /\ b \in Seq(T)
    BY DEF Seeding
  <1> HIDE DEF T
  <1>2. /\ c \in Seq(T) /\ Len(c) = Len(a) + Len(b)
        /\ \A i \in 1..Len(a) : c[i] = a[i]
        /\ \A i \in 1..Len(b) : c[Len(a) + i] = b[i]
    BY <1>1
  <1> HIDE DEF c
  <1>3. ASSUME NEW i \in DOMAIN c, c[i].table = "controller_params", NEW d \in Desks
        PROVE  WrittenBefore(c, i, c[i].regime, d)
    <2>1. CASE i \in 1..Len(a)
      <3>1. WrittenBefore(a, i, a[i].regime, d)
        BY <1>1, <1>2, <1>3, <2>1 DEF Seeding
      <3> QED
        BY <1>1, <1>2, <2>1, <3>1 DEF WrittenBefore
    <2>2. CASE i \notin 1..Len(a)
      <3>1. i - Len(a) \in 1..Len(b) /\ c[i] = b[i - Len(a)]
        BY <1>1, <1>2, <2>2
      <3>2. WrittenBefore(b, i - Len(a), b[i - Len(a)].regime, d)
        BY <1>1, <1>3, <3>1 DEF Seeding
      <3>3. PICK j \in 1..(i - Len(a) - 1) : b[j].table = "signal_weights"
                                               /\ b[j].regime = c[i].regime /\ b[j].desk = d
        BY <3>1, <3>2 DEF WrittenBefore
      <3>4. Len(a) + j \in 1..(i - 1) /\ c[Len(a) + j] = b[j]
        BY <1>1, <1>2, <3>1, <3>3
      <3> QED
        BY <3>3, <3>4 DEF WrittenBefore
    <2> QED
      BY <2>1, <2>2
  <1> QED
    BY <1>2, <1>3 DEF Seeding, c, T

\* ... and so the whole cold start (seed_cold_start).
LEMMA ColdStartSeeds ==
    ASSUME WellSetUp
    PROVE  Seeding(SeedColdStart)
  <1> DEFINE n == Cardinality(Regimes)
             s == SetToSeq(Regimes)
             seqs == [i \in 1..n |-> SeedRegime(s[i])]
  <1>1. IsFiniteSet(Regimes) /\ n \in Nat
    BY Constants, FS_CardinalityType
  <1>2. s \in [1..n -> Regimes]
    BY <1>1, SetToSeqOnto
  <1>3. \A i \in 1..n : Seeding(seqs[i])
    BY <1>2, SeedRegimeSeeds
  <1>4. Len(seqs) = n /\ SeedColdStart = FlattenSeq(seqs)
    BY <1>1 DEF SeedColdStart
  <1> DEFINE Body(f, k) == [i \in 1..k |-> IF i = 1 THEN seqs[i] ELSE f[i - 1] \o seqs[i]]
  <1>5. FlattenSeq(seqs) = IF n = 0 THEN seqs ELSE (CHOOSE f : f = Body(f, n))[n]
    <2> HIDE DEF seqs, n
    <2> QED
      BY <1>4 DEF FlattenSeq
  <1>6. ASSUME n = 0
        PROVE  Seeding(seqs)
    <2>1. seqs = <<>>
      BY <1>6
    <2>2. Seeding(<<>>)
      BY DEF Seeding
    <2> QED
      BY <2>1, <2>2
  <1> HIDE DEF seqs
  <1>7. \A k \in Nat : \E f : f = Body(f, k)
    <2> DEFINE Bad == {k \in Nat : ~ \E f : f = Body(f, k)}
    <2> SUFFICES ASSUME Bad # {} PROVE FALSE
      OBVIOUS
    <2>1. PICK k \in Bad : \A m \in Bad : k <= m
      <3>1. Bad \in SUBSET Nat
        OBVIOUS
      <3> HIDE DEF Bad
      <3> QED
        BY <3>1, FirstExists
    <2>2. k # 0
      <3> DEFINE e == [i \in 1..0 |-> seqs[i]]
      <3>1. e = Body(e, 0)
        OBVIOUS
      <3> QED
        BY <2>1, <3>1
    <2>3. PICK f : f = Body(f, k - 1)
      <3>1. k \in Nat /\ k - 1 \in Nat /\ ~(k <= k - 1)
        BY <2>2
      <3> QED
        BY <2>1, <3>1
    <2> DEFINE g == Body(f, k)
    <2>4. \A i \in 1..(k - 1) : g[i] = f[i]
      <3> TAKE i \in 1..(k - 1)
      <3>1. f[i] = Body(f, k - 1)[i]
        BY <2>3
      <3> QED
        BY <3>1
    <2>5. g = Body(g, k)
      <3>1. \A i \in 1..k : i # 1 => i - 1 \in 1..(k - 1)
        OBVIOUS
      <3>2. \A i \in 1..k : g[i] = Body(g, k)[i]
        BY <2>4, <3>1
      <3> QED
        BY <3>2
    <2> QED
      BY <2>1, <2>5
  <1> DEFINE f == CHOOSE g : g = Body(g, n)
  <1>8. f = Body(f, n)
    BY <1>1, <1>7
  <1> HIDE DEF f
  <1>9. \A i \in 1..n : Seeding(f[i])
    <2> DEFINE Bad == {i \in 1..n : ~Seeding(f[i])}
    <2> SUFFICES ASSUME Bad # {} PROVE FALSE
      OBVIOUS
    <2>1. PICK k \in Bad : \A m \in Bad : k <= m
      <3>1. Bad \in SUBSET Nat
        BY <1>1
      <3> HIDE DEF Bad
      <3> QED
        BY <3>1, FirstExists
    <2>2. f[k] = Body(f, n)[k]
      BY <1>8
    <2>3. CASE k = 1
      BY <1>3, <2>1, <2>2, <2>3
    <2>4. CASE k # 1
      <3>1. k - 1 \in 1..n /\ ~(k <= k - 1)
        BY <1>1, <2>4
      <3>2. Seeding(f[k - 1]) /\ Seeding(seqs[k])
        BY <1>3, <2>1, <3>1
      <3>3. f[k] = f[k - 1] \o seqs[k]
        BY <2>2, <2>4
      <3> QED
        BY <2>1, <3>2, <3>3, SeedingCat
    <2> QED
      BY <2>3, <2>4
  <1> QED
    BY <1>1, <1>4, <1>5, <1>6, <1>9 DEF f

-----------------------------------------------------------------------------
(***************************************************************************)
(* The invariant of the service: what a subscriber holds is saved, params  *)
(* come after a whole set of weights, and every decision says what decide() *)
(* computed from the rows and forecasts it was taken on.                   *)
(***************************************************************************)

Decision == [regime : Regimes, combined_signal : Int, position_size : -Limit..Limit,
             input_forecast_ids : SUBSET (1..MaxForecasts),
             recent : [Desks -> Forecast \cup {NULL}],
             weights : [Desks -> WeightValues \cup {1, NULL}]]

\* The tables, the rows still to write and the decisions are well-formed.
TablesType ==
    /\ signal_weights \in [Regimes -> [Desks -> WeightValues \cup {1, NULL}]]
    /\ controller_params \in [Regimes -> Params \cup {NULL}]
    /\ forecasts \subseteq 1..MaxForecasts /\ published \in 0..MaxForecasts
    /\ recent \in [Desks -> Forecast \cup {NULL}]
    /\ decisions \in Seq(Decision)
    /\ prints \in [1..MaxDecisions -> PrintValues \cup {NULL}]
    /\ writes \in Seq(WeightRow \cup ParamsRow)
    /\ promotions \in 0..MaxPromotions /\ crashes \in 0..MaxCrashes

\* Whatever a subscriber holds is in the forecasts table.
HeldIsSaved == \A d \in Desks : recent[d] # NULL => recent[d].id \in forecasts

\* The params of a regime come after all its weights, in what is still to
\* write and in the tables.
ParamsComeLast ==
    /\ \A i \in DOMAIN writes : writes[i].table = "controller_params" =>
          \A d \in Desks : \/ signal_weights[writes[i].regime][d] # NULL
                           \/ WrittenBefore(writes, i, writes[i].regime, d)
    /\ \A r \in Regimes : controller_params[r] # NULL =>
          \A d \in Desks : signal_weights[r][d] # NULL

\* What a decision says of itself.
IsDecision(d) ==
    /\ d.combined_signal = CombinedSignal(d.weights, d.recent)
    /\ d.position_size = PositionSize(d.weights, [k_regime |-> K, pos_limit_regime |-> Limit], d.recent)
    /\ d.input_forecast_ids \subseteq forecasts
    /\ Weighted(d.weights) = Desks
    /\ controller_params[d.regime] # NULL

ServiceInv == /\ TablesType /\ HeldIsSaved /\ ParamsComeLast
              /\ \A i \in DOMAIN decisions : IsDecision(decisions[i])

\* The invariant holds of a new database.
LEMMA ServiceStarts ==
    ASSUME WellSetUp, ServiceInit
    PROVE  ServiceInv
  <1> USE DEF ServiceInit
  <1>1. Seeding(writes)
    BY ColdStartSeeds
  <1>2. TablesType
    BY <1>1, Constants DEF TablesType, NoForecasts, Seeding
  <1>3. HeldIsSaved
    BY DEF HeldIsSaved, NoForecasts
  <1>4. ParamsComeLast
    BY <1>1 DEF ParamsComeLast, Seeding
  <1> QED
    BY <1>2, <1>3, <1>4 DEF ServiceInv

\* A decision stays what it was as long as rows are only added.
LEMMA DecisionsStay ==
    ASSUME ServiceInv, decisions' = decisions, forecasts \subseteq forecasts',
           \A r \in Regimes : controller_params[r] # NULL => controller_params'[r] # NULL
    PROVE  \A i \in DOMAIN decisions' : IsDecision(decisions[i])'
  <1> SUFFICES ASSUME NEW i \in DOMAIN decisions
               PROVE  IsDecision(decisions[i])'
    OBVIOUS
  <1>1. IsDecision(decisions[i]) /\ decisions[i] \in Decision
    BY DEF ServiceInv, TablesType
  <1>2. decisions[i].regime \in Regimes
    BY <1>1 DEF Decision
  <1> QED
    BY <1>1, <1>2 DEF IsDecision

\* An inserted row keeps it: params are written when their weights are there.
LEMMA InsertKeeps ==
    ASSUME WellSetUp, ServiceInv, Insert
    PROVE  ServiceInv'
  <1> DEFINE T == WeightRow \cup ParamsRow
             row == Head(writes)
  <1>1. writes \in Seq(T) /\ writes # <<>> /\ writes' = Tail(writes) /\ TablesType
    BY DEF ServiceInv, TablesType, Insert
  <1>2. UNCHANGED <<forecasts, published, decisions, prints, recent, promotions, crashes>>
    BY DEF Insert, log
  <1>3. row \in T /\ row = writes[1]
    <2> HIDE DEF T
    <2> QED
      BY <1>1
  <1>4. /\ writes' \in Seq(T) /\ Len(writes') = Len(writes) - 1 /\ Len(writes) \in Nat
        /\ \A i \in 1..Len(writes') : writes'[i] = writes[i + 1]
    <2> HIDE DEF T
    <2> QED
      BY <1>1
  <1>5. CASE row.table = "signal_weights"
    <2>1. /\ signal_weights' = [signal_weights EXCEPT ![row.regime][row.desk] = row.weight]
          /\ controller_params' = controller_params
      BY <1>5 DEF Insert
    <2>2. row \in WeightRow
      BY <1>3, <1>5 DEF WeightRow, ParamsRow
    <2>3. row.regime \in Regimes /\ row.desk \in Desks /\ row.weight \in WeightValues \cup {1}
      BY <2>2 DEF WeightRow
    <2>4. row.weight # NULL
      BY <2>3, Constants
    <2>5. signal_weights' \in [Regimes -> [Desks -> WeightValues \cup {1, NULL}]]
      BY <1>1, <2>1, <2>3 DEF TablesType
    <2>6. \A r \in Regimes, d \in Desks :
              /\ signal_weights[r][d] # NULL => signal_weights'[r][d] # NULL
              /\ r = row.regime /\ d = row.desk => signal_weights'[r][d] # NULL
      BY <1>1, <2>1, <2>3, <2>4 DEF TablesType
    <2>7. TablesType'
      BY <1>1, <1>2, <1>4, <2>1, <2>5 DEF TablesType
    <2>8. HeldIsSaved'
      BY <1>2 DEF ServiceInv, HeldIsSaved
    <2>9. ASSUME NEW i \in DOMAIN writes', writes'[i].table = "controller_params", NEW d \in Desks,
                 ~WrittenBefore(writes', i, writes'[i].regime, d)
          PROVE  signal_weights'[writes'[i].regime][d] # NULL
      <3>1. i + 1 \in DOMAIN writes /\ writes[i + 1] = writes'[i] /\ i \in Nat
        BY <1>1, <1>4, <2>9
      <3>2. writes[i + 1].regime \in Regimes
        BY <1>1, <3>1 DEF WeightRow, ParamsRow
      <3>3. CASE signal_weights[writes[i + 1].regime][d] # NULL
        BY <2>6, <3>1, <3>2, <3>3
      <3>4. CASE WrittenBefore(writes, i + 1, writes[i + 1].regime, d)
        <4>1. PICK j \in 1..i : writes[j].table = "signal_weights"
                                 /\ writes[j].regime = writes[i + 1].regime /\ writes[j].desk = d
          BY <3>1, <3>4 DEF WrittenBefore
        <4>2. j = 1
          <5>1. j # 1 => j - 1 \in 1..(i - 1) /\ writes'[j - 1] = writes[j]
            BY <1>4, <2>9, <3>1, <4>1
          <5> QED
            BY <2>9, <3>1, <4>1, <5>1 DEF WrittenBefore
        <4> QED
          BY <1>3, <2>6, <3>1, <3>2, <4>1, <4>2
      <3> QED
        BY <2>9, <3>1, <3>3, <3>4 DEF ServiceInv, ParamsComeLast
    <2>10. ParamsComeLast'
      BY <2>1, <2>6, <2>9 DEF ServiceInv, ParamsComeLast
    <2>11. \A i \in DOMAIN decisions' : IsDecision(decisions[i])'
      BY <1>2, <2>1, DecisionsStay
    <2> QED
      BY <2>7, <2>8, <2>10, <2>11 DEF ServiceInv
  <1>6. CASE row.table # "signal_weights"
    <2>1. /\ controller_params' = [controller_params EXCEPT ![row.regime] =
                                      [k_regime |-> K, pos_limit_regime |-> Limit]]
          /\ signal_weights' = signal_weights
      BY <1>6 DEF Insert
    <2>2. row \in ParamsRow
      BY <1>3, <1>6 DEF WeightRow
    <2>3. row.regime \in Regimes /\ row.table = "controller_params"
      BY <2>2 DEF ParamsRow
    <2>4. [k_regime |-> K, pos_limit_regime |-> Limit] \in Params
      BY DEF Params
    <2>5. [k_regime |-> K, pos_limit_regime |-> Limit] # NULL
      BY <2>4, Constants
    <2>6. TablesType'
      BY <1>1, <1>2, <1>4, <2>1, <2>3, <2>4 DEF TablesType
    <2>7. HeldIsSaved'
      BY <1>2 DEF ServiceInv, HeldIsSaved
    <2>8. \A d \in Desks : signal_weights[row.regime][d] # NULL
      <3>1. 1 \in DOMAIN writes /\ writes[1] = row
        BY <1>1, <1>3
      <3>2. \A d \in Desks : ~WrittenBefore(writes, 1, row.regime, d)
        BY DEF WrittenBefore
      <3> QED
        BY <2>3, <3>1, <3>2 DEF ServiceInv, ParamsComeLast
    <2>9. ASSUME NEW i \in DOMAIN writes', writes'[i].table = "controller_params", NEW d \in Desks,
                 ~WrittenBefore(writes', i, writes'[i].regime, d)
          PROVE  signal_weights[writes'[i].regime][d] # NULL
      <3>1. i + 1 \in DOMAIN writes /\ writes[i + 1] = writes'[i] /\ i \in Nat
        BY <1>1, <1>4, <2>9
      <3>2. ~WrittenBefore(writes, i + 1, writes[i + 1].regime, d)
        <4> SUFFICES ASSUME WrittenBefore(writes, i + 1, writes[i + 1].regime, d)
                     PROVE  FALSE
          OBVIOUS
        <4>1. PICK j \in 1..i : writes[j].table = "signal_weights"
                                 /\ writes[j].regime = writes[i + 1].regime /\ writes[j].desk = d
          BY <3>1 DEF WrittenBefore
        <4>2. j # 1
          BY <1>3, <2>3, <4>1
        <4>3. j - 1 \in 1..(i - 1) /\ writes'[j - 1] = writes[j]
          BY <1>4, <2>9, <3>1, <4>1, <4>2
        <4> QED
          BY <2>9, <3>1, <4>1, <4>3 DEF WrittenBefore
      <3> QED
        BY <2>9, <3>1, <3>2 DEF ServiceInv, ParamsComeLast
    <2>10. \A r \in Regimes : controller_params'[r] # NULL =>
              r = row.regime \/ controller_params[r] # NULL
      BY <1>1, <2>1 DEF TablesType
    <2>11. ParamsComeLast'
      BY <2>1, <2>8, <2>9, <2>10 DEF ServiceInv, ParamsComeLast
    <2>12. \A r \in Regimes : controller_params[r] # NULL => controller_params'[r] # NULL
      BY <1>1, <2>1, <2>5 DEF TablesType
    <2>13. \A i \in DOMAIN decisions' : IsDecision(decisions[i])'
      BY <1>2, <2>12, DecisionsStay
    <2> QED
      BY <2>6, <2>7, <2>11, <2>13 DEF ServiceInv
  <1> QED
    BY <1>5, <1>6

\* A promotion keeps it: it writes weights only.
LEMMA PromoteKeeps ==
    ASSUME WellSetUp, ServiceInv, NEW r \in Regimes, NEW c \in [Desks -> WeightValues], Promote(r, c)
    PROVE  ServiceInv'
  <1> DEFINE S == Weighted(signal_weights[r])
             desks == SetToSeq(S)
             n == Cardinality(S)
  <1>1. UNCHANGED <<signal_weights, controller_params, forecasts, published, decisions, prints,
                    recent, crashes>>
    BY DEF Promote, tables, log
  <1>2. S \subseteq Desks /\ IsFiniteSet(S)
    BY DesksFinite DEF Weighted
  <1>3. n \in Nat /\ desks \in [1..n -> S]
    BY <1>2, SetToSeqOnto, FS_CardinalityType
  <1>4. writes' = [i \in DOMAIN desks |->
                      [table |-> "signal_weights", regime |-> r, desk |-> desks[i],
                       weight |-> c[desks[i]]]]
    BY DEF Promote
  <1> HIDE DEF desks, n
  <1>5. \A i \in 1..n : desks[i] \in Desks /\ c[desks[i]] \in WeightValues
    BY <1>2, <1>3
  <1>6. writes' \in Seq(WeightRow)
    BY <1>3, <1>4, <1>5 DEF WeightRow
  <1>7. \A i \in DOMAIN writes' : writes'[i].table = "signal_weights"
    BY <1>4
  <1>8. promotions' \in 0..MaxPromotions
    BY Constants DEF Promote, ServiceInv, TablesType
  <1>9. writes' \in Seq(WeightRow \cup ParamsRow)
    BY <1>6
  <1>10. TablesType'
    BY <1>1, <1>8, <1>9 DEF ServiceInv, TablesType
  <1>11. HeldIsSaved'
    BY <1>1 DEF ServiceInv, HeldIsSaved
  <1>12. ParamsComeLast'
    BY <1>1, <1>7 DEF ServiceInv, ParamsComeLast
  <1>13. \A i \in DOMAIN decisions' : IsDecision(decisions[i])'
    BY <1>1, DecisionsStay
  <1> QED
    BY <1>10, <1>11, <1>12, <1>13 DEF ServiceInv

\* Publishing keeps it: the row is inserted before any handler is called.
LEMMA PublishKeeps ==
    ASSUME WellSetUp, ServiceInv, NEW d \in Desks, NEW p \in Points, NEW stale \in BOOLEAN,
           NEW delivered \in BOOLEAN, PublishForecast(d, p, stale, delivered)
    PROVE  ServiceInv'
  <1> DEFINE f == [id |-> published + 1, point_estimate |-> p, staleness |-> stale]
  <1>1. UNCHANGED <<signal_weights, controller_params, decisions, prints, writes, promotions, crashes>>
    BY DEF PublishForecast, tables
  <1>2. /\ published' = published + 1 /\ published < MaxForecasts
        /\ forecasts' = forecasts \cup {published + 1}
        /\ recent' = IF delivered THEN [recent EXCEPT ![d] = f] ELSE recent
    BY DEF PublishForecast
  <1>3. published + 1 \in 1..MaxForecasts /\ TablesType
    BY <1>2, Constants DEF ServiceInv, TablesType
  <1>4. f \in Forecast
    BY <1>3 DEF Forecast
  <1>5. recent' \in [Desks -> Forecast \cup {NULL}]
    BY <1>2, <1>3, <1>4 DEF TablesType
  <1>6. TablesType'
    BY <1>1, <1>2, <1>3, <1>5 DEF TablesType
  <1>7. HeldIsSaved'
    <2> SUFFICES ASSUME NEW x \in Desks, recent'[x] # NULL
                 PROVE  recent'[x].id \in forecasts'
      BY DEF HeldIsSaved
    <2>1. CASE delivered /\ x = d
      BY <1>2, <1>3, <2>1 DEF TablesType
    <2>2. CASE ~(delivered /\ x = d)
      <3>1. recent'[x] = recent[x]
        BY <1>2, <1>3, <2>2 DEF TablesType
      <3> QED
        BY <1>2, <3>1 DEF ServiceInv, HeldIsSaved
    <2> QED
      BY <2>1, <2>2
  <1>8. ParamsComeLast'
    BY <1>1 DEF ServiceInv, ParamsComeLast
  <1>9. \A i \in DOMAIN decisions' : IsDecision(decisions[i])'
    BY <1>1, <1>2, DecisionsStay
  <1> QED
    BY <1>6, <1>7, <1>8, <1>9 DEF ServiceInv

\* A decision keeps it: params imply a whole set of weights.
LEMMA DecideKeeps ==
    ASSUME WellSetUp, ServiceInv, NEW r \in Regimes, Decide(r)
    PROVE  ServiceInv'
  <1> DEFINE w == signal_weights[r]
             limits == [k_regime |-> K, pos_limit_regime |-> Limit]
             new == [regime |-> r,
                     combined_signal |-> CombinedSignal(w, recent),
                     position_size |-> PositionSize(w, controller_params[r], recent),
                     input_forecast_ids |-> {recent[d].id : d \in Contributing(w, recent)},
                     recent |-> recent, weights |-> w]
  <1>1. UNCHANGED <<signal_weights, controller_params, forecasts, published, prints, recent,
                    writes, promotions, crashes>>
    BY DEF Decide, tables
  <1>2. decisions' = Append(decisions, new) /\ controller_params[r] # NULL
    BY DEF Decide, Decidable
  <1>3. TablesType
    BY DEF ServiceInv
  <1>4. SomeWeights(w) /\ SomeRecent(recent)
    BY <1>3 DEF TablesType, SomeWeights, SomeRecent
  <1>5. controller_params[r] = limits
    <2>1. controller_params[r] \in Params
      BY <1>2, <1>3 DEF TablesType
    <2> QED
      BY <2>1 DEF Params
  <1>6. /\ CombinedSignal(w, recent) \in Int
        /\ PositionSize(w, limits, recent) \in -Limit..Limit
    BY <1>4, CombinedWhole
  <1>7. new.input_forecast_ids \subseteq forecasts
    <2>1. \A d \in Contributing(w, recent) : d \in Desks /\ recent[d] # NULL
      BY DEF Contributing, Fresh, Forecasting
    <2> QED
      BY <2>1 DEF ServiceInv, HeldIsSaved
  <1>8. Weighted(w) = Desks
    BY <1>2 DEF ServiceInv, ParamsComeLast, Weighted
  <1>9. new \in Decision
    <2>1. new.input_forecast_ids \in SUBSET (1..MaxForecasts)
      BY <1>3, <1>7 DEF TablesType
    <2> QED
      BY <1>4, <1>5, <1>6, <2>1 DEF Decision, SomeWeights, SomeRecent
  <1>10. /\ decisions' \in Seq(Decision) /\ Len(decisions') = Len(decisions) + 1 /\ decisions \in Seq(Decision)
         /\ decisions'[Len(decisions) + 1] = new
         /\ \A i \in 1..Len(decisions) : decisions'[i] = decisions[i]
    <2> HIDE DEF new
    <2> QED
      BY <1>2, <1>3, <1>9 DEF TablesType
  <1>11. TablesType'
    BY <1>1, <1>3, <1>10 DEF TablesType
  <1>12. HeldIsSaved' /\ ParamsComeLast'
    BY <1>1 DEF ServiceInv, HeldIsSaved, ParamsComeLast
  <1>13. /\ new.combined_signal = CombinedSignal(new.weights, new.recent)
         /\ new.position_size = PositionSize(new.weights, limits, new.recent)
         /\ Weighted(new.weights) = Desks /\ new.regime = r
    BY <1>5, <1>8
  <1> HIDE DEF new
  <1>14. \A i \in DOMAIN decisions' : IsDecision(decisions[i])'
    <2> SUFFICES ASSUME NEW i \in DOMAIN decisions'
                 PROVE  IsDecision(decisions[i])'
      OBVIOUS
    <2>1. CASE i \in 1..Len(decisions)
      BY <1>1, <1>10, <2>1 DEF ServiceInv, IsDecision
    <2>2. CASE i = Len(decisions) + 1
      BY <1>1, <1>2, <1>7, <1>10, <1>13, <2>2 DEF IsDecision
    <2> QED
      BY <1>10, <2>1, <2>2
  <1> QED
    BY <1>11, <1>12, <1>14 DEF ServiceInv

\* Prints, and crashes anywhere in the writes, keep it.
LEMMA RestKeeps ==
    ASSUME WellSetUp, ServiceInv,
           \/ \E i \in DOMAIN decisions, v \in PrintValues : PublishPrint(i, v)
           \/ Crash
           \/ CrashWithoutSeed
           \/ UNCHANGED service_vars
    PROVE  ServiceInv'
  <1>1. ASSUME NEW i \in DOMAIN decisions, NEW v \in PrintValues, PublishPrint(i, v)
        PROVE  ServiceInv'
    <2>1. /\ UNCHANGED <<signal_weights, controller_params, forecasts, published, decisions,
                         recent, writes, promotions, crashes>>
          /\ prints' = [prints EXCEPT ![i] = v]
      BY <1>1 DEF PublishPrint, tables
    <2>2. TablesType'
      BY <2>1 DEF ServiceInv, TablesType
    <2> QED
      BY <2>1, <2>2 DEF ServiceInv, HeldIsSaved, ParamsComeLast, IsDecision
  <1>2. ASSUME Crash \/ CrashWithoutSeed
        PROVE  ServiceInv'
    <2>1. /\ UNCHANGED <<signal_weights, controller_params, forecasts, published, decisions,
                         prints, promotions>>
          /\ recent' = NoForecasts /\ writes' \in {SeedColdStart, <<>>}
          /\ crashes < MaxCrashes /\ crashes' = crashes + 1
      BY <1>2 DEF Crash, CrashWithoutSeed, tables, log
    <2>2. Seeding(writes')
      <3>1. Seeding(<<>>)
        BY DEF Seeding
      <3> QED
        BY <2>1, <3>1, ColdStartSeeds
    <2>3. TablesType'
      BY <2>1, <2>2, Constants DEF ServiceInv, TablesType, NoForecasts, Seeding
    <2>4. HeldIsSaved'
      BY <2>1 DEF HeldIsSaved, NoForecasts
    <2>5. ParamsComeLast'
      BY <2>1, <2>2 DEF ServiceInv, ParamsComeLast, Seeding
    <2> QED
      BY <2>1, <2>3, <2>4, <2>5 DEF ServiceInv, IsDecision
  <1>3. ASSUME UNCHANGED service_vars
        PROVE  ServiceInv'
    BY <1>3 DEF ServiceInv, TablesType, HeldIsSaved, ParamsComeLast, IsDecision, service_vars, tables, log
  <1> QED
    BY <1>1, <1>2, <1>3

\* The invariant holds of the service, for all desks, values and crashes.
LEMMA ServiceInvariant ==
    ASSUME WellSetUp
    PROVE  ServiceSpec => []ServiceInv
  <1>1. ServiceInit => ServiceInv
    BY ServiceStarts
  <1>2. ServiceInv /\ [ServiceNext]_service_vars => ServiceInv'
    BY InsertKeeps, PromoteKeeps, PublishKeeps, DecideKeeps, RestKeeps DEF ServiceNext
  <1> QED
    BY <1>1, <1>2, PTL DEF ServiceSpec

\* The invariant contains the type invariant of the model.
LEMMA InvType ==
    ASSUME ServiceInv
    PROVE  ServiceTypeOK
  <1>1. \A i \in DOMAIN decisions : decisions[i] \in Decision
    BY DEF ServiceInv, TablesType
  <1>2. \A i \in DOMAIN decisions : decisions[i].position_size \in -Limit..Limit
    BY <1>1 DEF Decision
  <1> QED
    BY <1>2 DEF ServiceTypeOK, ServiceInv, TablesType

\* Every decision can be made again from the tables: each forecast that
\* entered it was inserted before a handler saw it (Bus.publish_forecast), and
\* its regime had a row for every desk, however a cold start was cut short.
THEOREM DecisionsCanBeReplayed ==
    ASSUME ControllerAssumption
    PROVE  ServiceSpec => []DecisionsReplay
  <1>1. WellSetUp
    BY DEF WellSetUp
  <1>2. ServiceInv => DecisionsReplay
    BY DEF ServiceInv, IsDecision, DecisionsReplay, InputsPersisted, NoPartialColdStart
  <1> QED
    BY <1>1, <1>2, ServiceInvariant, PTL

\* The hot-swap gate (eval/hot_swap.py) never blames the wrong desk: swapping a
\* desk for its stub moves the signal by that desk's term and nothing else,
\* whatever the weights and the other desks' forecasts.
THEOREM TheGateIsSound ==
    ASSUME ControllerAssumption
    PROVE  ServiceSpec => []GateIsSound
  <1>1. WellSetUp
    BY DEF WellSetUp
  <1>2. ServiceInv => GateIsSound
    <2> SUFFICES ASSUME ServiceInv, NEW r \in Regimes, NEW d \in Desks,
                        d \in Weighted(signal_weights[r]), signal_weights[r][d] # 0, recent[d] # NULL
                 PROVE  HotSwapPasses(signal_weights[r], controller_params[r], recent, d)
      BY DEF GateIsSound
    <2>1. SomeWeights(signal_weights[r]) /\ SomeRecent(recent)
      BY DEF ServiceInv, TablesType, SomeWeights, SomeRecent
    <2> QED
      BY <1>1, <2>1, GatePasses
  <1> QED
    BY <1>1, <1>2, ServiceInvariant, PTL

-----------------------------------------------------------------------------
(***************************************************************************)
(* Factorials, counterfactuals and coalitions.                             *)
(***************************************************************************)

Body(f, k) == [n \in 0..k |-> IF n = 0 THEN 1 ELSE n * f[n - 1]]

\* The factorial obeys its recursion up to the number of desks.
LEMMA FactorialFacts ==
    ASSUME WellSetUp
    PROVE  /\ Cardinality(Desks) \in Nat
           /\ \A n \in 0..Cardinality(Desks) :
                 /\ Factorial[n] \in Nat
                 /\ Factorial[n] = IF n = 0 THEN 1 ELSE n * Factorial[n - 1]
  <1> DEFINE top == Cardinality(Desks)
             F == Factorial
  <1>1. top \in Nat
    BY Constants, FS_CardinalityType
  <1>2. \A k \in Nat : \E f : f = Body(f, k)
    <2> DEFINE Bad == {k \in Nat : ~ \E f : f = Body(f, k)}
    <2> SUFFICES ASSUME Bad # {} PROVE FALSE
      OBVIOUS
    <2>1. PICK k \in Bad : \A m \in Bad : k <= m
      <3>1. Bad \in SUBSET Nat
        OBVIOUS
      <3> HIDE DEF Bad
      <3> QED
        BY <3>1, FirstExists
    <2>2. k # 0
      <3> DEFINE e == [n \in 0..0 |-> 1]
      <3>1. e = Body(e, 0)
        BY DEF Body
      <3> QED
        BY <2>1, <3>1
    <2>3. PICK f : f = Body(f, k - 1)
      <3>1. k \in Nat /\ k - 1 \in Nat /\ ~(k <= k - 1)
        BY <2>2
      <3> QED
        BY <2>1, <3>1
    <2> DEFINE g == Body(f, k)
    <2>4. \A n \in 0..(k - 1) : g[n] = f[n]
      <3> TAKE n \in 0..(k - 1)
      <3>1. f[n] = Body(f, k - 1)[n]
        BY <2>3
      <3> QED
        BY <3>1 DEF Body
    <2>5. g = Body(g, k)
      <3>1. \A n \in 0..k : n # 0 => n - 1 \in 0..(k - 1)
        OBVIOUS
      <3>2. \A n \in 0..k : g[n] = Body(g, k)[n]
        BY <2>4, <3>1 DEF Body
      <3> QED
        BY <3>2 DEF Body
    <2> QED
      BY <2>1, <2>5
  <1>3. F = CHOOSE f : f = Body(f, top)
    BY DEF Factorial, Body
  <1>4. F = Body(F, top)
    BY <1>1, <1>2, <1>3
  <1> HIDE DEF F
  <1>5. \A n \in 0..top : F[n] = IF n = 0 THEN 1 ELSE n * F[n - 1]
    BY <1>4 DEF Body
  <1>6. \A n \in 0..top : F[n] \in Nat
    <2> DEFINE Bad == {n \in 0..top : F[n] \notin Nat}
    <2> SUFFICES ASSUME Bad # {} PROVE FALSE
      OBVIOUS
    <2>1. PICK k \in Bad : \A m \in Bad : k <= m
      <3>1. Bad \in SUBSET Nat
        BY <1>1
      <3> HIDE DEF Bad
      <3> QED
        BY <3>1, FirstExists
    <2>2. k # 0
      BY <1>1, <1>5, <2>1
    <2>3. k - 1 \in 0..top /\ ~(k <= k - 1)
      BY <1>1, <2>2
    <2>4. F[k - 1] \in Nat
      BY <2>1, <2>3
    <2> QED
      BY <1>1, <1>5, <2>2, <2>4
  <1> QED
    BY <1>1, <1>5, <1>6 DEF F

\* Leaving a desk out is the signal without it; weightless desks add nothing.
LEMMA CounterfactualIsSignal ==
    ASSUME WellSetUp, NEW w, SomeWeights(w), NEW r, SomeRecent(r), NEW x
    PROVE  CounterfactualSignal(w, r, x) = Signal(w, r, Contributing(w, r) \ {x})
  <1> DEFINE all == (Weighted(w) \cap Fresh(r)) \ {x}
             in == Contributing(w, r) \ {x}
  <1>1. CounterfactualSignal(w, r, x) = Signal(w, r, all)
    BY DEF CounterfactualSignal, Signal
  <1>2. all \subseteq Desks /\ IsFiniteSet(all)
    BY DesksFinite DEF Weighted
  <1>3. \A d \in all : w[d] * r[d].point_estimate \in Int
    BY TermsWhole
  <1>4. in \subseteq all
    BY DEF Contributing
  <1>5. \A d \in all \ in : w[d] * r[d].point_estimate = 0
    <2> TAKE d \in all \ in
    <2>1. w[d] = 0
      BY DEF Contributing
    <2>2. r[d].point_estimate \in Int
      BY TermsWhole
    <2> QED
      BY <2>1, <2>2
  <1> HIDE DEF all, in
  <1>6. Signal(w, r, all) = Signal(w, r, in)
    BY <1>2, <1>3, <1>4, <1>5, SignalZeros
  <1> QED
    BY <1>1, <1>6 DEF in

\* Had the desk not forecast, decide() would have made the counterfactual.
LEMMA WithoutIsCounterfactual ==
    ASSUME WellSetUp, NEW w, SomeWeights(w), NEW r, SomeRecent(r), NEW x \in Desks
    PROVE  CombinedSignal(w, [r EXCEPT ![x] = NULL]) = CounterfactualSignal(w, r, x)
  <1> DEFINE q == [r EXCEPT ![x] = NULL]
  <1>1. q[x] = NULL /\ \A d \in Desks \ {x} : q[d] = r[d]
    BY DEF SomeRecent
  <1> HIDE DEF q
  <1>2. Contributing(w, q) = Contributing(w, r) \ {x}
    BY <1>1 DEF Contributing, Fresh, Forecasting, Weighted
  <1>3. \A d \in Contributing(w, q) : q[d] = r[d]
    BY <1>1, <1>2 DEF Contributing, Weighted
  <1>4. Signal(w, q, Contributing(w, q)) = Signal(w, r, Contributing(w, q))
    BY <1>3, SignalSame
  <1>5. CombinedSignal(w, q) = Signal(w, q, Contributing(w, q))
    BY CombinedIsSignal
  <1>6. CounterfactualSignal(w, r, x) = Signal(w, r, Contributing(w, r) \ {x})
    BY CounterfactualIsSignal
  <1>7. CombinedSignal(w, q) = CounterfactualSignal(w, r, x)
    BY <1>2, <1>4, <1>5, <1>6
  <1> QED
    BY <1>7 DEF q

\* The value of a coalition is that of its desks that enter the decision.
LEMMA CoalitionIsSignal ==
    ASSUME WellSetUp, NEW w, SomeWeights(w), NEW r, SomeRecent(r), NEW S
    PROVE  /\ CoalitionSignal(w, r, S) = Signal(w, r, S \cap Contributing(w, r))
           /\ CoalitionSignal(w, r, S) \in Int
  <1> DEFINE in == S \cap Contributing(w, r)
  <1>1. {x \in S \cap Weighted(w) \cap Fresh(r) : w[x] # 0} = in
    BY DEF Contributing
  <1>2. CoalitionSignal(w, r, S) = Signal(w, r, in)
    BY <1>1 DEF CoalitionSignal, Signal
  <1>3. in \subseteq Desks /\ IsFiniteSet(in)
    BY DesksFinite DEF Contributing, Weighted
  <1>4. \A d \in in : w[d] * r[d].point_estimate \in Int
    BY TermsWhole DEF Contributing
  <1>5. Signal(w, r, in) \in Int
    BY <1>3, <1>4, SignalOn
  <1> QED
    BY <1>2, <1>5

-----------------------------------------------------------------------------
(***************************************************************************)
(* Leave one desk out, and the desks that did not take part.               *)
(***************************************************************************)

\* Terms of nought sum to nought.
LEMMA SumNothing ==
    ASSUME NEW S, IsFiniteSet(S), NEW t, \A x \in S : t[x] = 0
    PROVE  SumFunctionOnSet(t, S) = 0
  <1>1. SumFunctionOnSet(t, S) = SumFunctionOnSet(t, {})
    BY SumZeros
  <1> QED
    BY <1>1, SumEmpty

Limits == [k_regime |-> K, pos_limit_regime |-> Limit]

\* A coalition's position is a whole number.
LEMMA ValueWhole ==
    ASSUME WellSetUp, NEW w, SomeWeights(w), NEW r, SomeRecent(r), NEW S
    PROVE  CoalitionPosition(w, Limits, r, S) \in Int
  <1>1. CoalitionSignal(w, r, S) \in Int
    BY CoalitionIsSignal
  <1>2. K * CoalitionSignal(w, r, S) \in Int /\ Limit \in Int
    BY <1>1, Constants
  <1> QED
    BY <1>2 DEF CoalitionPosition, Clip, Limits

\* A coalition's weight is a whole number.
LEMMA OrderingsWhole ==
    ASSUME WellSetUp, NEW N \in SUBSET Desks, NEW d \in N, NEW S \in SUBSET (N \ {d})
    PROVE  /\ Cardinality(S) \in 0..(Cardinality(N) - 1)
           /\ Cardinality(N) \in 1..Cardinality(Desks)
           /\ Orderings(Cardinality(S), Cardinality(N)) \in Nat
  <1>1. /\ IsFiniteSet(N) /\ Cardinality(N) \in Nat
        /\ IsFiniteSet(S) /\ Cardinality(S) \in Nat
        /\ Cardinality(Desks) \in Nat /\ Cardinality(N) <= Cardinality(Desks)
    BY DesksFinite, Constants, FS_CardinalityType, FS_Subset
  <1>2. Cardinality(S) <= Cardinality(N) - 1
    <2>1. IsFiniteSet(N \ {d}) /\ Cardinality(N \ {d}) = Cardinality(N) - 1
      BY <1>1, FS_RemoveElement
    <2> QED
      BY <2>1, FS_Subset
  <1> DEFINE s == Cardinality(S)
             n == Cardinality(N)
  <1>3. s \in 0..Cardinality(Desks) /\ n - s - 1 \in 0..Cardinality(Desks)
    BY <1>1, <1>2
  <1>4. Factorial[s] \in Nat /\ Factorial[n - s - 1] \in Nat
    BY <1>3, FactorialFacts
  <1>5. Factorial[s] * Factorial[n - s - 1] \in Nat
    <2> HIDE DEF s, n
    <2> QED
      BY <1>4
  <1>6. Orderings(Cardinality(S), Cardinality(N)) \in Nat
    BY <1>5 DEF Orderings
  <1> QED
    BY <1>1, <1>2, <1>6

\* A desk whose joining changes no coalition's value has no share.
LEMMA NullPlayer ==
    ASSUME WellSetUp, NEW N \in SUBSET Desks, NEW v, NEW d \in N,
           \A S \in SUBSET (N \ {d}) : v[S] \in Int /\ v[S \cup {d}] = v[S]
    PROVE  ShapleyValues(N, v)[d] = 0
  <1> DEFINE t == [S \in SUBSET (N \ {d}) |->
                      Orderings(Cardinality(S), Cardinality(N)) * (v[S \cup {d}] - v[S])]
  <1>1. ShapleyValues(N, v)[d] = SumFunctionOnSet(t, SUBSET (N \ {d}))
    BY DEF ShapleyValues, SumFunction
  <1>2. \A S \in SUBSET (N \ {d}) : t[S] = 0
    <2> TAKE S \in SUBSET (N \ {d})
    <2> DEFINE o == Orderings(Cardinality(S), Cardinality(N))
    <2>1. o \in Nat
      BY OrderingsWhole
    <2>2. v[S \cup {d}] - v[S] = 0
      <3>1. \A x \in Int : x - x = 0
        OBVIOUS
      <3> QED
        BY <3>1
    <2>3. o * (v[S \cup {d}] - v[S]) = 0
      <3> HIDE DEF o
      <3> QED
        BY <2>1, <2>2
    <2> QED
      BY <2>3
  <1>3. IsFiniteSet(SUBSET (N \ {d}))
    <2>1. IsFiniteSet(N \ {d})
      BY DesksFinite
    <2> QED
      BY <2>1, FS_SUBSET
  <1> HIDE DEF t
  <1>4. SumFunctionOnSet(t, SUBSET (N \ {d})) = 0
    BY <1>2, <1>3, SumNothing
  <1> QED
    BY <1>1, <1>4

\* A desk that did not enter the decision gets no credit.
LEMMA NullDesk ==
    ASSUME WellSetUp, NEW w, SomeWeights(w), Weighted(w) = Desks, NEW r, SomeRecent(r),
           NEW desk \in Desks \ Contributing(w, r)
    PROVE  Shapley(w, Limits, r)[desk] = 0
  <1> DEFINE v == SignalValue(w, Limits, r)
             in == Contributing(w, r)
  <1>1. ASSUME NEW S \in SUBSET (Desks \ {desk})
        PROVE  v[S] \in Int /\ v[S \cup {desk}] = v[S]
    <2>1. S \in SUBSET Desks /\ S \cup {desk} \in SUBSET Desks
      OBVIOUS
    <2>2. v[S] = CoalitionPosition(w, Limits, r, S)
          /\ v[S \cup {desk}] = CoalitionPosition(w, Limits, r, S \cup {desk})
      BY <2>1 DEF SignalValue
    <2>3. (S \cup {desk}) \cap in = S \cap in
      OBVIOUS
    <2>4. CoalitionSignal(w, r, S \cup {desk}) = Signal(w, r, (S \cup {desk}) \cap in)
      BY CoalitionIsSignal
    <2>5. CoalitionSignal(w, r, S) = Signal(w, r, S \cap in)
      BY CoalitionIsSignal
    <2>6. CoalitionSignal(w, r, S \cup {desk}) = CoalitionSignal(w, r, S)
      BY <2>3, <2>4, <2>5
    <2> QED
      BY <2>2, <2>6, ValueWhole DEF CoalitionPosition
  <1> HIDE DEF v
  <1>2. ShapleyValues(Desks, v)[desk] = 0
    <2>1. Desks \in SUBSET Desks
      OBVIOUS
    <2> QED
      BY <1>1, <2>1, NullPlayer
  <1> QED
    BY <1>2 DEF Shapley, v

\* What is said of one decision while the weights have not moved.
LEMMA ReproducesOne ==
    ASSUME WellSetUp, ServiceInv, NEW i \in DOMAIN decisions, Unmoved(i)
    PROVE  LET d == decisions[i]
               without(desk) == [d.recent EXCEPT ![desk] = NULL]
           IN  /\ LodoReproduces(WeightsOf(i), ParamsOf(i), d)
               /\ GradingLodoReproduces(WeightsOf(i), d)
               /\ \A desk \in Weighted(d.weights) :
                     /\ Lodo(WeightsOf(i), ParamsOf(i), d)[desk]
                          = d.position_size - PositionSize(d.weights, ParamsOf(i), without(desk))
                     /\ prints[i] # NULL =>
                          GradingLodo(WeightsOf(i), d, prints[i])[desk]
                            = Square(CombinedSignal(d.weights, without(desk)) - prints[i])
                                - Square(d.combined_signal - prints[i])
               /\ \A desk \in Desks \ Contributing(d.weights, d.recent) :
                     Shapley(WeightsOf(i), ParamsOf(i), d.recent)[desk] = 0
  <1> DEFINE d == decisions[i]
             w == d.weights
             r == d.recent
             without(desk) == [r EXCEPT ![desk] = NULL]
  <1>1. d \in Decision /\ IsDecision(d)
    BY DEF ServiceInv, TablesType
  <1>2. SomeWeights(w) /\ SomeRecent(r) /\ d.regime \in Regimes
    BY <1>1 DEF Decision, SomeWeights, SomeRecent
  <1>3. WeightsOf(i) = w
    BY DEF Unmoved, WeightsOf
  <1>4. ParamsOf(i) = Limits
    <2>1. controller_params[d.regime] \in Params
      BY <1>1, <1>2 DEF IsDecision, ServiceInv, TablesType
    <2> QED
      BY <2>1 DEF Params, ParamsOf, Limits
  <1>5. CounterfactualSignal(w, r, NULL) = CombinedSignal(w, r)
    <2>1. Contributing(w, r) \ {NULL} = Contributing(w, r)
      BY Constants DEF Contributing, Weighted
    <2>2. CounterfactualSignal(w, r, NULL) = Signal(w, r, Contributing(w, r) \ {NULL})
      BY <1>2, CounterfactualIsSignal
    <2> QED
      BY <2>1, <2>2, CombinedIsSignal
  <1>6. d.combined_signal = CombinedSignal(w, r) /\ d.position_size = PositionSize(w, Limits, r)
        /\ Weighted(w) = Desks
    BY <1>1 DEF IsDecision, Limits
  <1>7. LodoReproduces(w, Limits, d) /\ GradingLodoReproduces(w, d)
    BY <1>5, <1>6 DEF LodoReproduces, GradingLodoReproduces, CounterfactualPosition, PositionSize
  <1>8. ASSUME NEW desk \in Weighted(w)
        PROVE  /\ Lodo(w, Limits, d)[desk]
                    = d.position_size - PositionSize(w, Limits, without(desk))
               /\ GradingLodo(w, d, prints[i])[desk]
                    = Square(CombinedSignal(w, without(desk)) - prints[i])
                        - Square(d.combined_signal - prints[i])
    <2>1. desk \in Desks
      BY DEF Weighted
    <2>2. CombinedSignal(w, without(desk)) = CounterfactualSignal(w, r, desk)
      BY <1>2, <2>1, WithoutIsCounterfactual
    <2>3. PositionSize(w, Limits, without(desk)) = CounterfactualPosition(w, Limits, r, desk)
      BY <2>2 DEF PositionSize, CounterfactualPosition
    <2> QED
      BY <2>2, <2>3 DEF Lodo, GradingLodo
  <1>9. ASSUME NEW desk \in Desks \ Contributing(w, r)
        PROVE  Shapley(w, Limits, r)[desk] = 0
    BY <1>2, <1>6, NullDesk
  <1> QED
    BY <1>3, <1>4, <1>7, <1>8, <1>9

\* Attribution reproduces every decision whose weights have not moved.
LEMMA Reproduces ==
    ASSUME WellSetUp, ServiceInv
    PROVE  AttributionReproduces
  BY ReproducesOne DEF AttributionReproduces

-----------------------------------------------------------------------------
(***************************************************************************)
(* More about sums.                                                        *)
(***************************************************************************)

\* A collection that holds the empty set, and whatever it holds with one
\* element more, holds every part of a finite set.
LEMMA OneMore ==
    ASSUME NEW S, IsFiniteSet(S), NEW Good, {} \in Good,
           \A T \in SUBSET S : T \in Good => \A x \in S \ T : T \cup {x} \in Good
    PROVE  \A T \in SUBSET S : T \in Good
  <1> DEFINE Bad == {n \in Nat : \E T \in SUBSET S : Cardinality(T) = n /\ T \notin Good}
  <1>1. \A T \in SUBSET S : IsFiniteSet(T) /\ Cardinality(T) \in Nat
    BY FS_Subset, FS_CardinalityType
  <1>2. Bad = {}
    <2> SUFFICES ASSUME Bad # {} PROVE FALSE
      OBVIOUS
    <2>1. PICK n \in Bad : \A m \in Bad : n <= m
      <3>1. Bad \in SUBSET Nat
        OBVIOUS
      <3> HIDE DEF Bad
      <3> QED
        BY <3>1, FirstExists
    <2>2. PICK T \in SUBSET S : Cardinality(T) = n /\ T \notin Good
      BY <2>1
    <2>3. PICK x \in T : TRUE
      BY <2>2
    <2>4. T \ {x} \in SUBSET S /\ Cardinality(T \ {x}) = n - 1 /\ Cardinality(T \ {x}) \in Nat
      BY <1>1, <2>2, <2>3, FS_RemoveElement
    <2>5. T \ {x} \in Good
      BY <2>1, <2>4
    <2>6. (T \ {x}) \cup {x} = T /\ x \in S \ (T \ {x})
      BY <2>3
    <2> QED
      BY <2>2, <2>4, <2>5, <2>6
  <1> QED
    BY <1>1, <1>2

\* One more term.
LEMMA SumGrow ==
    ASSUME NEW S, IsFiniteSet(S), NEW x, x \notin S, NEW t, \A y \in S \cup {x} : t[y] \in Int
    PROVE  SumFunctionOnSet(t, S \cup {x}) = t[x] + SumFunctionOnSet(t, S)
  <1>1. IsFiniteSet(S \cup {x}) /\ (S \cup {x}) \ {x} = S /\ x \in S \cup {x}
    BY FS_AddElement
  <1>2. SumFunctionOnSet(t, S \cup {x}) = t[x] + SumFunctionOnSet(t, (S \cup {x}) \ {x})
    BY <1>1, SumAdd
  <1> QED
    BY <1>1, <1>2

\* The sum of sums.
LEMMA SumPlus ==
    ASSUME NEW S, IsFiniteSet(S), NEW t, NEW u, NEW w,
           \A x \in S : t[x] \in Int /\ u[x] \in Int /\ w[x] = t[x] + u[x]
    PROVE  SumFunctionOnSet(w, S) = SumFunctionOnSet(t, S) + SumFunctionOnSet(u, S)
  <1> DEFINE Sum(f, T) == SumFunctionOnSet(f, T)
             Good == {T \in SUBSET S : Sum(w, T) = Sum(t, T) + Sum(u, T)}
  <1>1. {} \in Good
    BY SumEmpty
  <1>2. ASSUME NEW T \in SUBSET S, T \in Good, NEW x \in S \ T
        PROVE  T \cup {x} \in Good
    <2>1. IsFiniteSet(T) /\ \A y \in T \cup {x} : t[y] \in Int /\ u[y] \in Int /\ w[y] \in Int
      BY FS_Subset
    <2>2. Sum(w, T \cup {x}) = w[x] + Sum(w, T)
      BY <2>1, SumGrow
    <2>3. Sum(t, T \cup {x}) = t[x] + Sum(t, T)
      BY <2>1, SumGrow
    <2>4. Sum(u, T \cup {x}) = u[x] + Sum(u, T)
      BY <2>1, SumGrow
    <2>5. Sum(t, T) \in Int /\ Sum(u, T) \in Int
      BY <2>1, SumInt
    <2>6. w[x] = t[x] + u[x] /\ t[x] \in Int /\ u[x] \in Int /\ Sum(w, T) = Sum(t, T) + Sum(u, T)
      BY <1>2
    <2> HIDE DEF Sum
    <2>7. Sum(w, T \cup {x}) = Sum(t, T \cup {x}) + Sum(u, T \cup {x})
      BY <2>2, <2>3, <2>4, <2>5, <2>6
    <2> QED
      BY <2>7
  <1>3. S \in Good
    <2> HIDE DEF Good
    <2> QED
      BY <1>1, <1>2, OneMore
  <1> QED
    BY <1>3

\* A common factor.
LEMMA SumTimes ==
    ASSUME NEW S, IsFiniteSet(S), NEW c \in Int, NEW t, NEW w,
           \A x \in S : t[x] \in Int /\ w[x] = c * t[x]
    PROVE  SumFunctionOnSet(w, S) = c * SumFunctionOnSet(t, S)
  <1> DEFINE Sum(f, T) == SumFunctionOnSet(f, T)
             Good == {T \in SUBSET S : Sum(w, T) = c * Sum(t, T)}
  <1>1. {} \in Good
    BY SumEmpty
  <1>2. ASSUME NEW T \in SUBSET S, T \in Good, NEW x \in S \ T
        PROVE  T \cup {x} \in Good
    <2>1. IsFiniteSet(T) /\ \A y \in T \cup {x} : t[y] \in Int /\ w[y] \in Int
      BY FS_Subset
    <2>2. Sum(w, T \cup {x}) = w[x] + Sum(w, T)
      BY <2>1, SumGrow
    <2>3. Sum(t, T \cup {x}) = t[x] + Sum(t, T)
      BY <2>1, SumGrow
    <2>5. Sum(t, T) \in Int
      BY <2>1, SumInt
    <2>6. w[x] = c * t[x] /\ t[x] \in Int /\ Sum(w, T) = c * Sum(t, T)
      BY <1>2
    <2> HIDE DEF Sum
    <2>7. Sum(w, T \cup {x}) = c * Sum(t, T \cup {x})
      BY <2>2, <2>3, <2>5, <2>6
    <2> QED
      BY <2>7
  <1>3. S \in Good
    <2> HIDE DEF Good
    <2> QED
      BY <1>1, <1>2, OneMore
  <1> QED
    BY <1>3

\* Equal terms.
LEMMA SumConst ==
    ASSUME NEW S, IsFiniteSet(S), NEW c \in Int, NEW t, \A x \in S : t[x] = c
    PROVE  SumFunctionOnSet(t, S) = Cardinality(S) * c
  <1> DEFINE Sum(T) == SumFunctionOnSet(t, T)
             Good == {T \in SUBSET S : Sum(T) = Cardinality(T) * c}
  <1>1. {} \in Good
    BY SumEmpty, FS_EmptySet
  <1>2. ASSUME NEW T \in SUBSET S, T \in Good, NEW x \in S \ T
        PROVE  T \cup {x} \in Good
    <2>1. IsFiniteSet(T) /\ Cardinality(T) \in Nat /\ \A y \in T \cup {x} : t[y] \in Int
      BY FS_Subset, FS_CardinalityType
    <2>2. Sum(T \cup {x}) = t[x] + Sum(T) /\ t[x] = c /\ Sum(T) = Cardinality(T) * c
      BY <1>2, <2>1, SumGrow
    <2>3. Cardinality(T \cup {x}) = Cardinality(T) + 1
      BY <2>1, FS_AddElement
    <2> HIDE DEF Sum
    <2>4. Sum(T \cup {x}) = Cardinality(T \cup {x}) * c
      BY <2>1, <2>2, <2>3
    <2> QED
      BY <2>4
  <1>3. S \in Good
    <2> HIDE DEF Good
    <2> QED
      BY <1>1, <1>2, OneMore
  <1> QED
    BY <1>3

\* The order of two sums does not matter.
LEMMA SumSwap ==
    ASSUME NEW A, IsFiniteSet(A), NEW B, IsFiniteSet(B), NEW m,
           \A x \in A, y \in B : m[x][y] \in Int
    PROVE  SumFunctionOnSet([x \in A |-> SumFunctionOnSet(m[x], B)], A)
             = SumFunctionOnSet([y \in B |-> SumFunctionOnSet([x \in A |-> m[x][y]], A)], B)
  <1> DEFINE Sum(f, T) == SumFunctionOnSet(f, T)
             row == [x \in A |-> Sum(m[x], B)]
             cell(y) == [x \in A |-> m[x][y]]
             col(T) == [y \in B |-> Sum(cell(y), T)]
             Good == {T \in SUBSET A : Sum(row, T) = Sum(col(T), B)}
  <1>1. \A x \in A : row[x] \in Int /\ row[x] = Sum(m[x], B)
    BY SumInt
  <1>2. \A y \in B, x \in A : cell(y)[x] = m[x][y] /\ cell(y)[x] \in Int
    OBVIOUS
  <1>3. \A T \in SUBSET A, y \in B : col(T)[y] = Sum(cell(y), T) /\ col(T)[y] \in Int
    <2> TAKE T \in SUBSET A, y \in B
    <2>1. IsFiniteSet(T) /\ \A x \in T : cell(y)[x] \in Int
      BY FS_Subset
    <2> HIDE DEF cell
    <2>2. Sum(cell(y), T) \in Int
      BY <2>1, SumInt
    <2> QED
      BY <2>2
  <1>4. {} \in Good
    <2>1. \A y \in B : col({})[y] = 0
      BY SumEmpty
    <2>2. Sum(col({}), B) = 0
      <3> HIDE DEF col
      <3> QED
        BY <2>1, SumNothing
    <2>3. Sum(row, {}) = 0
      BY SumEmpty
    <2> QED
      BY <2>2, <2>3
  <1>5. ASSUME NEW T \in SUBSET A, T \in Good, NEW z \in A \ T
        PROVE  T \cup {z} \in Good
    <2>1. IsFiniteSet(T) /\ T \cup {z} \in SUBSET A
      BY FS_Subset
    <2>2. Sum(row, T \cup {z}) = row[z] + Sum(row, T)
      <3>1. \A x \in T \cup {z} : row[x] \in Int
        BY <1>1
      <3> HIDE DEF row
      <3> QED
        BY <2>1, <3>1, SumGrow
    <2>3. \A y \in B : col(T \cup {z})[y] = m[z][y] + col(T)[y]
      <3> TAKE y \in B
      <3>1. \A x \in T \cup {z} : cell(y)[x] \in Int
        BY <1>2
      <3> HIDE DEF cell
      <3>2. Sum(cell(y), T \cup {z}) = cell(y)[z] + Sum(cell(y), T)
        BY <2>1, <3>1, SumGrow
      <3> QED
        BY <1>2, <2>1, <3>2
    <2>4. Sum(col(T \cup {z}), B) = Sum(m[z], B) + Sum(col(T), B)
      <3>1. \A y \in B : m[z][y] \in Int /\ col(T)[y] \in Int
                            /\ col(T \cup {z})[y] = m[z][y] + col(T)[y]
        BY <1>3, <2>3
      <3> HIDE DEF col
      <3> QED
        BY <3>1, SumPlus
    <2>5. Sum(row, T \cup {z}) = Sum(col(T \cup {z}), B)
      <3>1. Sum(row, T) = Sum(col(T), B)
        BY <1>5
      <3> HIDE DEF Sum, row, col
      <3> QED
        BY <1>1, <2>2, <2>4, <3>1
    <2> HIDE DEF row, col
    <2> QED
      BY <2>1, <2>5
  <1>6. A \in Good
    <2> HIDE DEF Good
    <2> QED
      BY <1>4, <1>5, OneMore
  <1> QED
    BY <1>6

-----------------------------------------------------------------------------
(***************************************************************************)
(* Shapley values.  Each share is taken apart by who comes last, so that   *)
(* it is made of shares among one desk fewer.                              *)
(***************************************************************************)

\* Whole values for every coalition of desks.
Values(v) == \A S \in SUBSET Desks : v[S] \in Int

\* The share of d among the desks of M, one term for each coalition before it.
Term(M, d, v) ==
    [S \in SUBSET (M \ {d}) |->
        Orderings(Cardinality(S), Cardinality(M)) * (v[S \cup {d}] - v[S])]
Share(M, d, v) == SumFunctionOnSet(Term(M, d, v), SUBSET (M \ {d}))

\* _shapley_values_for_decision gives each desk its share.
LEMMA ShareIsShapley ==
    ASSUME NEW M, NEW d \in M, NEW v
    PROVE  ShapleyValues(M, v)[d] = Share(M, d, v)
  BY DEF ShapleyValues, SumFunction, Share, Term

\* Coalitions are finite and no larger than the desks.
LEMMA PartsFinite ==
    ASSUME WellSetUp, NEW M \in SUBSET Desks
    PROVE  /\ IsFiniteSet(M) /\ IsFiniteSet(SUBSET M)
           /\ Cardinality(M) \in 0..Cardinality(Desks)
           /\ \A S \in SUBSET M : IsFiniteSet(S) /\ Cardinality(S) \in 0..Cardinality(M)
  <1>1. /\ IsFiniteSet(M) /\ IsFiniteSet(Desks) /\ Cardinality(M) \in Nat
        /\ Cardinality(M) <= Cardinality(Desks) /\ Cardinality(Desks) \in Nat
    BY DesksFinite, Constants, FS_CardinalityType, FS_Subset
  <1>2. IsFiniteSet(SUBSET M)
    BY <1>1, FS_SUBSET
  <1>3. \A S \in SUBSET M : IsFiniteSet(S) /\ Cardinality(S) \in 0..Cardinality(M)
    BY <1>1, FS_CardinalityType, FS_Subset
  <1> QED
    BY <1>1, <1>2, <1>3

\* Terms and shares are whole numbers.
LEMMA TermWhole ==
    ASSUME WellSetUp, NEW M \in SUBSET Desks, NEW d \in M, NEW v, Values(v)
    PROVE  /\ \A S \in SUBSET (M \ {d}) : Term(M, d, v)[S] \in Int
           /\ Share(M, d, v) \in Int
  <1>1. \A S \in SUBSET (M \ {d}) : Term(M, d, v)[S] \in Int
    <2> TAKE S \in SUBSET (M \ {d})
    <2>1. Orderings(Cardinality(S), Cardinality(M)) \in Nat
      BY OrderingsWhole
    <2>2. v[S \cup {d}] \in Int /\ v[S] \in Int
      BY DEF Values
    <2> QED
      BY <2>1, <2>2 DEF Term
  <1>2. IsFiniteSet(SUBSET (M \ {d}))
    BY PartsFinite
  <1> QED
    BY <1>1, <1>2, SumInt DEF Share

\* A share from those among one desk fewer: either d comes last, or another
\* desk does.
LEMMA ShareRecursion ==
    ASSUME WellSetUp, NEW M \in SUBSET Desks, NEW d \in M, NEW v, Values(v)
    PROVE  Share(M, d, v)
             = Factorial[Cardinality(M) - 1] * (v[M] - v[M \ {d}])
                 + SumFunctionOnSet([x \in M \ {d} |-> Share(M \ {x}, d, v)], M \ {d})
  <1> DEFINE n == Cardinality(M)
             rest == M \ {d}
             F == Factorial
             Sum(f, T) == SumFunctionOnSet(f, T)
             g(S) == v[S \cup {d}] - v[S]
             m == [x \in rest |-> [S \in SUBSET rest |->
                      IF x \in S THEN 0 ELSE F[Cardinality(S)] * F[n - 2 - Cardinality(S)] * g(S)]]
             col == [S \in SUBSET rest |-> Sum([x \in rest |-> m[x][S]], rest)]
             term == Term(M, d, v)
  <1>1. /\ IsFiniteSet(M) /\ IsFiniteSet(rest) /\ IsFiniteSet(SUBSET rest)
        /\ n \in 1..Cardinality(Desks) /\ Cardinality(rest) = n - 1
        /\ Cardinality(Desks) \in Nat
        /\ \A S \in SUBSET rest : IsFiniteSet(S) /\ Cardinality(S) \in 0..(n - 1)
    <2>1. rest \in SUBSET Desks
      OBVIOUS
    <2>2. IsFiniteSet(M) /\ n \in 0..Cardinality(Desks) /\ Cardinality(Desks) \in Nat
      BY PartsFinite, FactorialFacts
    <2>3. Cardinality(rest) = n - 1 /\ n # 0
      BY <2>2, FS_RemoveElement, FS_EmptySet
    <2>4. IsFiniteSet(rest) /\ IsFiniteSet(SUBSET rest)
          /\ \A S \in SUBSET rest : IsFiniteSet(S) /\ Cardinality(S) \in 0..Cardinality(rest)
      <3> HIDE DEF rest
      <3> QED
        BY <2>1, PartsFinite
    <2>5. n \in 1..Cardinality(Desks)
      BY <2>2, <2>3
    <2> HIDE DEF n, rest
    <2> QED
      BY <2>2, <2>3, <2>4, <2>5
  <1>2. \A S \in SUBSET rest : g(S) \in Int
    BY DEF Values
  <1>3. \A k \in 0..Cardinality(Desks) : F[k] \in Nat /\ F[k] = IF k = 0 THEN 1 ELSE k * F[k - 1]
    BY FactorialFacts
  <1> HIDE DEF F
  <1>4. \A S \in SUBSET rest : term[S] = F[Cardinality(S)] * F[n - Cardinality(S) - 1] * g(S)
    BY DEF Term, Orderings, F
  <1>5. \A S \in SUBSET rest : S # rest => Cardinality(S) \in 0..(n - 2)
    BY <1>1, FS_Subset
  <1>6. \A x \in rest, S \in SUBSET rest : m[x][S] \in Int
    <2> TAKE x \in rest, S \in SUBSET rest
    <2>1. CASE x \in S
      BY <2>1
    <2>2. CASE x \notin S
      <3>1. Cardinality(S) \in 0..(n - 2)
        BY <1>5, <2>2
      <3>2. F[Cardinality(S)] \in Nat /\ F[n - 2 - Cardinality(S)] \in Nat
        BY <1>1, <1>3, <3>1
      <3> HIDE DEF n, g
      <3>3. F[Cardinality(S)] * F[n - 2 - Cardinality(S)] * g(S) \in Int
        BY <1>2, <3>2
      <3> QED
        BY <2>2, <3>3
    <2> QED
      BY <2>1, <2>2
  <1>7. \A x \in rest : Share(M \ {x}, d, v) = Sum(m[x], SUBSET rest)
    <2> TAKE x \in rest
    <2> DEFINE few == SUBSET ((M \ {x}) \ {d})
               t == Term(M \ {x}, d, v)
    <2>1. few \subseteq SUBSET rest /\ IsFiniteSet(few)
      BY <1>1, FS_Subset
    <2>2. Cardinality(M \ {x}) = n - 1
      BY <1>1, FS_RemoveElement
    <2>3. \A S \in few : t[S] = m[x][S]
      <3> TAKE S \in few
      <3>1. t[S] = F[Cardinality(S)] * F[n - 1 - Cardinality(S) - 1] * g(S)
        BY <2>2 DEF Term, Orderings, F
      <3>2. n - 1 - Cardinality(S) - 1 = n - 2 - Cardinality(S)
        BY <1>1, <2>1
      <3>3. x \notin S /\ S \in SUBSET rest
        OBVIOUS
      <3> HIDE DEF n, g
      <3> QED
        BY <3>1, <3>2, <3>3
    <2>4. \A S \in (SUBSET rest) \ few : m[x][S] = 0
      <3> TAKE S \in (SUBSET rest) \ few
      <3>1. x \in S
        OBVIOUS
      <3> QED
        BY <3>1
    <2>5. \A S \in SUBSET rest : m[x][S] \in Int
      BY <1>6
    <2> HIDE DEF m, t, few
    <2>6. Sum(m[x], SUBSET rest) = Sum(m[x], few)
      BY <1>1, <2>1, <2>4, <2>5, SumZeros
    <2>7. \A S \in few : t[S] \in Int
      BY <2>1, <2>3, <2>5
    <2>8. Sum(t, few) = Sum(m[x], few)
      BY <2>1, <2>3, <2>7, SumSame
    <2> QED
      BY <2>6, <2>8 DEF Share, t, few
  <1>8. Sum([x \in rest |-> Share(M \ {x}, d, v)], rest) = Sum(col, SUBSET rest)
    <2>1. [x \in rest |-> Share(M \ {x}, d, v)] = [x \in rest |-> Sum(m[x], SUBSET rest)]
      <3> HIDE DEF m
      <3> QED
        BY <1>7
    <2>2. Sum([x \in rest |-> Sum(m[x], SUBSET rest)], rest) = Sum(col, SUBSET rest)
      <3> HIDE DEF m, rest
      <3> QED
        BY <1>1, <1>6, SumSwap
    <2> QED
      BY <2>1, <2>2
  <1>9. \A S \in SUBSET rest : col[S] = IF S = rest THEN 0 ELSE term[S]
    <2> TAKE S \in SUBSET rest
    <2> DEFINE u == [x \in rest |-> m[x][S]]
               c == F[Cardinality(S)] * F[n - 2 - Cardinality(S)] * g(S)
    <2>1. \A x \in S : u[x] = 0
      OBVIOUS
    <2>2. \A x \in rest \ S : u[x] = c
      OBVIOUS
    <2>3. \A x \in rest : u[x] \in Int
      BY <1>6
    <2>4. col[S] = Sum(u, rest)
      OBVIOUS
    <2>5. Sum(u, rest) = Sum(u, rest \ S)
      <3>1. rest \ S \in SUBSET rest /\ \A x \in rest \ (rest \ S) : u[x] = 0
        BY <2>1
      <3> HIDE DEF u
      <3> QED
        BY <1>1, <2>3, <3>1, SumZeros
    <2>6. CASE S = rest
      <3>1. rest \ S = {}
        BY <2>6
      <3> HIDE DEF u, col
      <3> QED
        BY <2>4, <2>5, <2>6, <3>1, SumEmpty
    <2>7. CASE S # rest
      <3>1. /\ Cardinality(S) \in 0..(n - 2) /\ IsFiniteSet(rest \ S)
            /\ Cardinality(rest \ S) = n - 1 - Cardinality(S)
        <4>1. rest \cap S = S
          OBVIOUS
        <4> QED
          BY <1>1, <1>5, <2>7, <4>1, FS_Difference
      <3> DEFINE s == Cardinality(S)
      <3>2. F[s] \in Nat /\ F[n - 2 - s] \in Nat /\ F[n - 1 - s] = (n - 1 - s) * F[n - 2 - s]
        <4>1. s \in 0..Cardinality(Desks) /\ n - 2 - s \in 0..Cardinality(Desks)
              /\ n - 1 - s \in 0..Cardinality(Desks) /\ n - 1 - s # 0 /\ (n - 1 - s) - 1 = n - 2 - s
          BY <1>1, <3>1
        <4> QED
          BY <1>3, <4>1
      <3>3. PICK a \in Nat, b \in Nat, e \in Nat, y \in Int :
               a = F[s] /\ b = F[n - 2 - s] /\ e = F[n - 1 - s] /\ y = g(S)
        <4>1. (n - 1 - s) * F[n - 2 - s] \in Nat
          <5>1. n - 1 - s \in Nat
            BY <1>1, <3>1
          <5> QED
            BY <3>2, <5>1
        <4> HIDE DEF g, s
        <4> QED
          BY <1>2, <3>2, <4>1
      <3>7. c = a * b * y /\ c \in Int
        BY <3>3
      <3>4. Sum(u, rest \ S) = (n - 1 - s) * c
        <4> HIDE DEF u, c
        <4> QED
          BY <2>2, <3>1, <3>7, SumConst
      <3>5. (n - 1 - s) * c = F[s] * F[n - 1 - s] * g(S)
        <4>1. n - 1 - s \in Nat
          BY <1>1, <3>1
        <4> DEFINE k == n - 1 - s
        <4>2. e = k * b /\ k \in Nat
          BY <3>2, <3>3, <4>1
        <4> HIDE DEF k
        <4>3. k * (a * b * y) = a * (k * b) * y
          BY <4>2
        <4>4. k * c = a * e * y
          BY <3>7, <4>2, <4>3
        <4> QED
          BY <3>3, <4>4 DEF k
      <3>6. term[S] = F[s] * F[n - 1 - s] * g(S)
        <4>1. n - s - 1 = n - 1 - s
          BY <1>1, <3>1
        <4> QED
          BY <1>4, <4>1
      <3> HIDE DEF u, c, col, term, g, s, n
      <3> QED
        BY <2>4, <2>5, <2>7, <3>4, <3>5, <3>6
    <2> QED
      BY <2>6, <2>7
  <1>10. \A S \in SUBSET rest : term[S] \in Int
    BY TermWhole
  <1>11. Sum(term, SUBSET rest) = term[rest] + Sum(term, (SUBSET rest) \ {rest})
    <2> HIDE DEF term
    <2> QED
      BY <1>1, <1>10, SumAdd
  <1>12. Sum(col, SUBSET rest) = Sum(term, (SUBSET rest) \ {rest})
    <2> DEFINE most == (SUBSET rest) \ {rest}
    <2>1. most \subseteq SUBSET rest /\ IsFiniteSet(most)
      BY <1>1, FS_Subset
    <2> HIDE DEF col, term
    <2>2. \A S \in SUBSET rest : col[S] \in Int
      BY <1>9, <1>10
    <2>3. \A S \in (SUBSET rest) \ most : col[S] = 0
      BY <1>9
    <2>4. Sum(col, SUBSET rest) = Sum(col, most)
      <3> HIDE DEF most
      <3> QED
        BY <1>1, <2>1, <2>2, <2>3, SumZeros
    <2>5. \A S \in most : col[S] = term[S] /\ col[S] \in Int
      BY <1>9, <2>2
    <2>6. Sum(col, most) = Sum(term, most)
      <3> HIDE DEF most
      <3> QED
        BY <2>1, <2>5, SumSame
    <2> QED
      BY <2>4, <2>6
  <1>13. term[rest] = F[n - 1] * (v[M] - v[rest])
    <2>1. rest \cup {d} = M /\ n - Cardinality(rest) - 1 = 0
      BY <1>1
    <2>2. F[0] = 1 /\ F[n - 1] \in Nat
      BY <1>1, <1>3
    <2>3. g(rest) = v[M] - v[rest] /\ g(rest) \in Int
      BY <1>2, <2>1
    <2>4. term[rest] = F[n - 1] * 1 * g(rest)
      BY <1>1, <1>4, <2>1, <2>2
    <2> HIDE DEF n, term, g
    <2> QED
      BY <2>2, <2>3, <2>4
  <1> HIDE DEF term, col
  <1> QED
    BY <1>8, <1>11, <1>12, <1>13 DEF Share, term, F

Shares(M, v) == SumFunctionOnSet([d \in M |-> Share(M, d, v)], M)

\* The shares hand out all that the desks are worth together, in units of n!.
LEMMA SharesAddUp ==
    ASSUME WellSetUp, NEW v, Values(v)
    PROVE  \A M \in SUBSET Desks :
              Shares(M, v) = Factorial[Cardinality(M)] * (v[M] - v[{}])
  <1> DEFINE F == Factorial
             Sum(f, T) == SumFunctionOnSet(f, T)
             Even(M) == Shares(M, v) = F[Cardinality(M)] * (v[M] - v[{}])
             Bad == {n \in Nat : \E M \in SUBSET Desks : Cardinality(M) = n /\ ~Even(M)}
  <1>1. \A k \in 0..Cardinality(Desks) : F[k] \in Nat /\ F[k] = IF k = 0 THEN 1 ELSE k * F[k - 1]
    BY FactorialFacts
  <1>2. Bad = {}
    <2> SUFFICES ASSUME Bad # {} PROVE FALSE
      OBVIOUS
    <2>1. PICK n \in Bad : \A m \in Bad : n <= m
      <3>1. Bad \in SUBSET Nat
        OBVIOUS
      <3> HIDE DEF Bad
      <3> QED
        BY <3>1, FirstExists
    <2>2. PICK M \in SUBSET Desks : Cardinality(M) = n /\ ~Even(M)
      BY <2>1
    <2>3. IsFiniteSet(M) /\ n \in 0..Cardinality(Desks) /\ Cardinality(Desks) \in Nat
      BY <2>2, PartsFinite, FactorialFacts
    <2>4. v[M] \in Int /\ v[{}] \in Int
      BY DEF Values
    <2>5. CASE n = 0
      <3>1. M = {} /\ F[n] \in Nat
        BY <1>1, <2>2, <2>3, <2>5, FS_EmptySet
      <3>2. Shares(M, v) = 0
        BY <3>1, SumEmpty DEF Shares
      <3>3. F[n] * (v[M] - v[{}]) = 0
        <4>1. v[M] - v[{}] = 0
          BY <2>4, <3>1
        <4> HIDE DEF F
        <4> QED
          BY <3>1, <4>1
      <3> QED
        BY <2>2, <3>2, <3>3
    <2>6. CASE n # 0
      <3>1. n - 1 \in 0..Cardinality(Desks) /\ ~(n <= n - 1)
        BY <2>3, <2>6
      <3> DEFINE a == [d \in M |-> F[n - 1] * (v[M] - v[M \ {d}])]
                 b == [d \in M |-> Sum([x \in M \ {d} |-> Share(M \ {x}, d, v)], M \ {d})]
                 m == [d \in M |-> [x \in M |-> IF x = d THEN 0 ELSE Share(M \ {x}, d, v)]]
                 col == [x \in M |-> Sum([d \in M |-> m[d][x]], M)]
                 all == [d \in M |-> Share(M, d, v)]
                 c == F[n - 1] * (v[M] - v[{}])
      <3>2. \A d \in M, x \in M : x # d => Share(M \ {x}, d, v) \in Int
        <4> TAKE d \in M, x \in M
        <4>1. M \ {x} \in SUBSET Desks /\ (x # d => d \in M \ {x})
          OBVIOUS
        <4> QED
          BY <4>1, TermWhole
      <3>3. \A d \in M : all[d] = a[d] + b[d]
        BY <2>2, ShareRecursion
      <3>4. F[n - 1] \in Nat /\ F[n] = n * F[n - 1]
        BY <1>1, <2>3, <2>6, <3>1
      <3>5. \A d \in M : a[d] \in Int /\ all[d] \in Int
        <4> TAKE d \in M
        <4>1. v[M \ {d}] \in Int
          BY DEF Values
        <4>2. all[d] \in Int
          BY TermWhole
        <4>3. F[n - 1] * (v[M] - v[M \ {d}]) \in Int
          <5> HIDE DEF F
          <5> QED
            BY <2>4, <3>4, <4>1
        <4> QED
          BY <4>2, <4>3
      <3>6. \A d \in M, x \in M : m[d][x] \in Int
        BY <3>2
      <3>7. \A d \in M : b[d] = Sum(m[d], M)
        <4> TAKE d \in M
        <4> DEFINE u == [x \in M \ {d} |-> Share(M \ {x}, d, v)]
                   w == m[d]
        <4>1. \A x \in M \ {d} : u[x] = w[x] /\ u[x] \in Int
          BY <3>2
        <4>2. \A x \in M \ (M \ {d}) : w[x] = 0
          OBVIOUS
        <4>3. \A x \in M : w[x] \in Int
          BY <3>6
        <4>4. IsFiniteSet(M \ {d}) /\ M \ {d} \in SUBSET M
          BY <2>3, FS_Subset
        <4> HIDE DEF u, w
        <4>5. Sum(w, M) = Sum(w, M \ {d})
          BY <2>3, <4>2, <4>3, <4>4, SumZeros
        <4>6. Sum(u, M \ {d}) = Sum(w, M \ {d})
          BY <4>1, <4>4, SumSame
        <4> QED
          BY <4>5, <4>6 DEF u, w
      <3>8. \A d \in M : b[d] \in Int
        <4> TAKE d \in M
        <4>1. \A x \in M : m[d][x] \in Int
          BY <3>6
        <4> HIDE DEF m, b
        <4>2. Sum(m[d], M) \in Int
          BY <2>3, <4>1, SumInt
        <4> QED
          BY <3>7, <4>2
      <3>9. Sum(all, M) = Sum(a, M) + Sum(b, M)
        <4> HIDE DEF all, a, b
        <4> QED
          BY <2>3, <3>3, <3>5, <3>8, SumPlus
      <3>10. Sum(b, M) = Sum(col, M)
        <4>1. b = [d \in M |-> Sum(m[d], M)]
          <5> HIDE DEF m
          <5> QED
            BY <3>7
        <4>2. Sum([d \in M |-> Sum(m[d], M)], M) = Sum(col, M)
          <5> HIDE DEF m
          <5> QED
            BY <2>3, <3>6, SumSwap
        <4> HIDE DEF b, col, m
        <4> QED
          BY <4>1, <4>2
      <3>11. \A x \in M : col[x] = F[n - 1] * (v[M \ {x}] - v[{}])
        <4> TAKE x \in M
        <4> DEFINE u == [d \in M |-> m[d][x]]
                   few == M \ {x}
                   w == [d \in few |-> Share(few, d, v)]
        <4>1. few \in SUBSET M /\ few \in SUBSET Desks /\ IsFiniteSet(few) /\ Cardinality(few) = n - 1
          BY <2>2, <2>3, FS_Subset, FS_RemoveElement
        <4>2. \A d \in few : u[d] = w[d] /\ w[d] \in Int
          BY <3>2
        <4>3. \A d \in M \ few : u[d] = 0
          OBVIOUS
        <4>4. \A d \in M : u[d] \in Int
          BY <3>6
        <4>5. Even(few)
          BY <2>1, <3>1, <4>1
        <4>6. Shares(few, v) = Sum(w, few)
          BY DEF Shares
        <4>7. col[x] = Sum(u, M)
          OBVIOUS
        <4> HIDE DEF u, w, few, col
        <4>8. Sum(u, M) = Sum(u, few)
          BY <2>3, <4>1, <4>3, <4>4, SumZeros
        <4>9. Sum(u, few) = Sum(w, few)
          BY <4>1, <4>2, <4>4, SumSame
        <4> QED
          BY <4>1, <4>5, <4>6, <4>7, <4>8, <4>9 DEF few
      <3> DEFINE tot == [x \in M |-> c]
      <3>12. \A x \in M : tot[x] = a[x] + col[x] /\ tot[x] = c /\ col[x] \in Int
        <4> TAKE x \in M
        <4>1. v[M \ {x}] \in Int
          BY DEF Values
        <4>2. a[x] = F[n - 1] * (v[M] - v[M \ {x}]) /\ tot[x] = F[n - 1] * (v[M] - v[{}])
          OBVIOUS
        <4>3. col[x] = F[n - 1] * (v[M \ {x}] - v[{}])
          BY <3>11
        <4>4. \A f \in Nat, i, j, k \in Int :
                 f * (i - j) = f * (i - k) + f * (k - j) /\ f * (k - j) \in Int
          OBVIOUS
        <4> HIDE DEF a, col, tot, F, c
        <4>5. tot[x] = a[x] + col[x] /\ col[x] \in Int
          BY <2>4, <3>4, <4>1, <4>2, <4>3, <4>4
        <4> QED
          BY <4>5 DEF tot
      <3>13. Sum(tot, M) = Sum(a, M) + Sum(col, M)
        <4> HIDE DEF tot, a, col
        <4> QED
          BY <2>3, <3>5, <3>12, SumPlus
      <3>14. c \in Int
        <4> HIDE DEF F
        <4> QED
          BY <2>4, <3>4
      <3>15. Sum(tot, M) = n * c
        <4>1. \A x \in M : tot[x] = c
          OBVIOUS
        <4> HIDE DEF tot, c
        <4> QED
          BY <2>2, <2>3, <3>14, <4>1, SumConst
      <3>16. n * c = F[n] * (v[M] - v[{}])
        <4>1. \A f \in Nat, i, j \in Int, k \in Nat : k * (f * (i - j)) = (k * f) * (i - j)
          OBVIOUS
        <4> HIDE DEF F
        <4> QED
          BY <2>3, <2>4, <3>4, <4>1
      <3>17. Shares(M, v) = Sum(all, M)
        BY DEF Shares
      <3> HIDE DEF all, a, b, col, tot, c
      <3> QED
        BY <2>2, <3>9, <3>10, <3>13, <3>15, <3>16, <3>17
    <2> QED
      BY <2>5, <2>6
  <1>3. \A M \in SUBSET Desks : Cardinality(M) \in Nat
    BY DesksFinite, FS_CardinalityType
  <1> QED
    BY <1>2, <1>3

-----------------------------------------------------------------------------
(***************************************************************************)
(* Orderings of the desks, and the values sampled along them.              *)
(***************************************************************************)

\* A sum can be taken class by class.
LEMMA SumByClass ==
    ASSUME NEW S, IsFiniteSet(S), NEW I, IsFiniteSet(I), NEW f, \A s \in S : f[s] \in I,
           NEW t, \A s \in S : t[s] \in Int
    PROVE  SumFunctionOnSet(t, S)
             = SumFunctionOnSet([i \in I |-> SumFunctionOnSet(t, {s \in S : f[s] = i})], I)
  <1> DEFINE Sum(g, T) == SumFunctionOnSet(g, T)
             class(i) == {s \in S : f[s] = i}
             m == [s \in S |-> [i \in I |-> IF f[s] = i THEN t[s] ELSE 0]]
             row == [s \in S |-> Sum(m[s], I)]
             col == [i \in I |-> Sum([s \in S |-> m[s][i]], S)]
  <1>1. \A s \in S, i \in I : m[s][i] \in Int
    OBVIOUS
  <1>2. Sum(row, S) = Sum(col, I)
    <2> HIDE DEF m
    <2> QED
      BY <1>1, SumSwap
  <1>3. \A s \in S : row[s] = t[s]
    <2> TAKE s \in S
    <2> DEFINE u == m[s]
    <2>1. f[s] \in I /\ {f[s]} \in SUBSET I /\ IsFiniteSet({f[s]}) /\ IsFiniteSet({})
      BY FS_Singleton, FS_EmptySet
    <2>2. \A i \in I \ {f[s]} : u[i] = 0
      OBVIOUS
    <2>3. u[f[s]] = t[s] /\ \A i \in I : u[i] \in Int
      BY <2>1
    <2>4. row[s] = Sum(u, I)
      OBVIOUS
    <2> HIDE DEF u, row
    <2>5. Sum(u, I) = Sum(u, {f[s]})
      BY <2>1, <2>2, <2>3, SumZeros
    <2>6. Sum(u, {f[s]}) = u[f[s]] + Sum(u, {f[s]} \ {f[s]})
      BY <2>1, <2>3, SumAdd
    <2>7. Sum(u, {f[s]} \ {f[s]}) = 0
      BY SumEmpty
    <2> HIDE DEF Sum
    <2> QED
      BY <2>3, <2>4, <2>5, <2>6, <2>7
  <1>4. \A i \in I : col[i] = Sum(t, class(i))
    <2> TAKE i \in I
    <2> DEFINE u == [s \in S |-> m[s][i]]
               T == class(i)
    <2>1. T \in SUBSET S /\ IsFiniteSet(T)
      BY FS_Subset
    <2>2. \A s \in S \ T : u[s] = 0
      OBVIOUS
    <2>3. \A s \in S : u[s] \in Int
      OBVIOUS
    <2>4. \A s \in T : u[s] = t[s]
      OBVIOUS
    <2>5. col[i] = Sum(u, S)
      OBVIOUS
    <2> HIDE DEF u, T, col
    <2>6. Sum(u, S) = Sum(u, T)
      BY <2>1, <2>2, <2>3, SumZeros
    <2>7. Sum(u, T) = Sum(t, T)
      BY <2>1, <2>3, <2>4, SumSame
    <2> QED
      BY <2>5, <2>6, <2>7 DEF T
  <1>5. Sum(row, S) = Sum(t, S)
    <2> HIDE DEF row
    <2> QED
      BY <1>3, SumSame
  <1>6. col = [i \in I |-> Sum(t, class(i))]
    <2>1. DOMAIN col = I /\ col = [i \in I |-> col[i]]
      OBVIOUS
    <2> HIDE DEF col
    <2> QED
      BY <1>4, <2>1
  <1> HIDE DEF row, col
  <1> QED
    BY <1>2, <1>5, <1>6

\* Renaming what is summed over changes nothing.
LEMMA SumRenamed ==
    ASSUME NEW A, IsFiniteSet(A), NEW B, IsFiniteSet(B), NEW f, \A x \in A : f[x] \in B,
           \A x, y \in A : f[x] = f[y] => x = y, \A y \in B : \E x \in A : f[x] = y,
           NEW t, NEW u, \A x \in A : u[x] \in Int /\ u[x] = t[f[x]]
    PROVE  SumFunctionOnSet(t, B) = SumFunctionOnSet(u, A)
  <1> DEFINE Sum(g, T) == SumFunctionOnSet(g, T)
             col == [y \in B |-> Sum(u, {x \in A : f[x] = y})]
  <1>1. Sum(u, A) = Sum(col, B)
    BY SumByClass
  <1>2. \A y \in B : col[y] = t[y] /\ t[y] \in Int
    <2> TAKE y \in B
    <2>1. PICK x \in A : f[x] = y
      OBVIOUS
    <2>2. {z \in A : f[z] = y} = {x}
      BY <2>1
    <2>3. IsFiniteSet({x}) /\ {x} \ {x} = {} /\ \A z \in {x} : u[z] \in Int
      BY FS_Singleton
    <2>4. Sum(u, {x}) = u[x] + Sum(u, {x} \ {x})
      <3>1. x \in {x}
        OBVIOUS
      <3> QED
        BY <2>3, <3>1, SumAdd
    <2>5. Sum(u, {x} \ {x}) = 0
      BY <2>3, SumEmpty
    <2>6. u[x] = t[y] /\ u[x] \in Int
      BY <2>1
    <2>7. col[y] = Sum(u, {x})
      BY <2>2
    <2> HIDE DEF col, Sum
    <2> QED
      BY <2>4, <2>5, <2>6, <2>7
  <1>3. Sum(col, B) = Sum(t, B)
    <2> HIDE DEF col
    <2> QED
      BY <1>2, SumSame
  <1> QED
    BY <1>1, <1>3

Perms(M) == SetToSeqs(M)

\* They are the injections of the first n numbers.
LEMMA PermsDef ==
    ASSUME NEW M
    PROVE  Perms(M) = {p \in [1..Cardinality(M) -> M] :
                          \A i, j \in 1..Cardinality(M) : i # j => p[i] # p[j]}
  BY DEF Perms, SetToSeqs

\* An ordering meets everyone, and there are finitely many.
LEMMA PermsOnto ==
    ASSUME NEW M, IsFiniteSet(M), NEW p \in Perms(M)
    PROVE  \A x \in M : \E i \in 1..Cardinality(M) : p[i] = x
  <1> DEFINE n == Cardinality(M)
  <1>1. n \in Nat /\ IsFiniteSet(1..n) /\ Cardinality(1..n) = n
    BY FS_CardinalityType, FS_Interval
  <1>2. p \in Injection(1..n, M)
    BY PermsDef DEF Injection, IsInjective
  <1>3. p \in Surjection(1..n, M)
    <2> HIDE DEF n
    <2> QED
      BY <1>1, <1>2, FS_Injection DEF n
  <1> QED
    BY <1>3 DEF Surjection

\* There are finitely many.
LEMMA PermsFinite ==
    ASSUME NEW M, IsFiniteSet(M)
    PROVE  IsFiniteSet(Perms(M))
  <1> DEFINE n == Cardinality(M)
             pairs == (1..n) \X M
             graph == [p \in Perms(M) |-> {<<i, p[i]>> : i \in 1..n}]
  <1>1. n \in Nat /\ IsFiniteSet(1..n)
    BY FS_CardinalityType, FS_Interval
  <1>2. IsFiniteSet(SUBSET pairs)
    BY <1>1, FS_Product, FS_SUBSET
  <1>3. \A p \in Perms(M) : p \in [1..n -> M]
    BY PermsDef
  <1>4. graph \in [Perms(M) -> SUBSET pairs]
    <2> HIDE DEF n
    <2>1. \A p \in Perms(M) : {<<i, p[i]>> : i \in 1..n} \in SUBSET pairs
      <3> TAKE p \in Perms(M)
      <3>1. \A i \in 1..n : p[i] \in M
        BY <1>3
      <3> QED
        BY <3>1
    <2> HIDE DEF pairs
    <2> QED
      BY <2>1
  <1>5. \A p, q \in Perms(M) : graph[p] = graph[q] => p = q
    <2> TAKE p, q \in Perms(M)
    <2> HAVE graph[p] = graph[q]
    <2>1. p \in [1..n -> M] /\ q \in [1..n -> M]
      BY <1>3
    <2>2. \A i \in 1..n : p[i] = q[i]
      <3> TAKE i \in 1..n
      <3>1. <<i, p[i]>> \in graph[q]
        OBVIOUS
      <3> QED
        BY <3>1
    <2>3. p = [i \in 1..n |-> p[i]] /\ q = [i \in 1..n |-> q[i]]
      BY <2>1
    <2> HIDE DEF n
    <2>4. [i \in 1..n |-> p[i]] = [i \in 1..n |-> q[i]]
      BY <2>2, Zenon
    <2> QED
      BY <2>3, <2>4, Zenon
  <1> HIDE DEF graph, pairs
  <1>6. graph \in Injection(Perms(M), SUBSET pairs)
    BY <1>4, <1>5 DEF Injection, IsInjective
  <1> QED
    BY <1>2, <1>6, FS_Injection

\* The ordering with one desk after the others.
Then(q, x, n) == [i \in 1..n |-> IF i = n THEN x ELSE q[i]]

\* Every ordering is one of the desks but its last, followed by that one.
LEMMA PermsThen ==
    ASSUME NEW M, IsFiniteSet(M), NEW x \in M
    PROVE  LET n == Cardinality(M)
               Q == Perms(M \ {x})
           IN  /\ \A q \in Q : Then(q, x, n) \in Perms(M) /\ Then(q, x, n)[n] = x
               /\ \A q \in Q, i \in 1..(n - 1) : Then(q, x, n)[i] = q[i]
               /\ \A q, s \in Q : Then(q, x, n) = Then(s, x, n) => q = s
               /\ \A p \in Perms(M) : p[n] = x => \E q \in Q : Then(q, x, n) = p
  <1> DEFINE n == Cardinality(M)
             Q == Perms(M \ {x})
  <1>1. n \in Nat /\ n # 0 /\ Cardinality(M \ {x}) = n - 1
    BY FS_CardinalityType, FS_EmptySet, FS_RemoveElement
  <1>2. \A q \in Q : /\ q \in [1..(n - 1) -> M \ {x}]
                     /\ \A i, j \in 1..(n - 1) : i # j => q[i] # q[j]
    BY <1>1, PermsDef
  <1>3. \A p \in Perms(M) : p \in [1..n -> M] /\ \A i, j \in 1..n : i # j => p[i] # p[j]
    BY PermsDef
  <1>4. ASSUME NEW q \in Q
        PROVE  Then(q, x, n) \in Perms(M) /\ Then(q, x, n)[n] = x
               /\ \A i \in 1..(n - 1) : Then(q, x, n)[i] = q[i]
    <2> DEFINE p == Then(q, x, n)
    <2>1. p[n] = x /\ \A i \in 1..(n - 1) : p[i] = q[i]
      <3> HIDE DEF n
      <3> QED
        BY <1>1 DEF Then
    <2>2. \A i \in 1..n : p[i] \in M
      <3>1. \A i \in 1..n : i = n \/ i \in 1..(n - 1)
        <4> HIDE DEF n
        <4> QED
          BY <1>1
      <3>2. \A i \in 1..(n - 1) : q[i] \in M
        BY <1>2
      <3> HIDE DEF p, n
      <3> QED
        BY <2>1, <3>1, <3>2
    <2>3. p \in [1..n -> M]
      <3> HIDE DEF n
      <3> QED
        BY <2>2 DEF Then
    <2>4. \A i, j \in 1..n : i # j => p[i] # p[j]
      <3>0. \A i \in 1..n : i = n \/ i \in 1..(n - 1)
        <4> HIDE DEF n
        <4> QED
          BY <1>1
      <3>1. \A i \in 1..(n - 1) : p[i] # x
        BY <1>2, <2>1
      <3> HIDE DEF n, p
      <3> QED
        BY <1>2, <2>1, <3>0, <3>1
    <2> HIDE DEF p
    <2>5. p \in Perms(M)
      BY <2>3, <2>4, PermsDef
    <2> QED
      BY <2>1, <2>5 DEF p
  <1>5. ASSUME NEW q \in Q, NEW s \in Q, Then(q, x, n) = Then(s, x, n)
        PROVE  q = s
    <2>1. \A i \in 1..(n - 1) : q[i] = s[i]
      BY <1>4, <1>5
    <2>2. q \in [1..(n - 1) -> M \ {x}] /\ s \in [1..(n - 1) -> M \ {x}]
      BY <1>2
    <2>3. q = [i \in 1..(n - 1) |-> q[i]] /\ s = [i \in 1..(n - 1) |-> s[i]]
      <3> HIDE DEF n
      <3> QED
        BY <2>2
    <2>4. [i \in 1..(n - 1) |-> q[i]] = [i \in 1..(n - 1) |-> s[i]]
      <3> HIDE DEF n
      <3> QED
        BY <2>1, Zenon
    <2> QED
      BY <2>3, <2>4, Zenon
  <1>6. ASSUME NEW p \in Perms(M), p[n] = x
        PROVE  \E q \in Q : Then(q, x, n) = p
    <2> DEFINE q == [i \in 1..(n - 1) |-> p[i]]
    <2>1. p \in [1..n -> M] /\ \A i, j \in 1..n : i # j => p[i] # p[j]
      BY <1>3
    <2>2. \A i \in 1..(n - 1) : i \in 1..n /\ i # n /\ n \in 1..n
      <3> HIDE DEF n
      <3> QED
        BY <1>1
    <2>3. \A i \in 1..(n - 1) : q[i] = p[i] /\ p[i] \in M \ {x}
      <3> HIDE DEF n
      <3> QED
        BY <1>6, <2>1, <2>2
    <2>4. q \in [1..(n - 1) -> M \ {x}]
      BY <2>3
    <2>5. \A i, j \in 1..(n - 1) : i # j => q[i] # q[j]
      BY <2>1, <2>2, <2>3
    <2>6. q \in Q
      <3> HIDE DEF q
      <3> QED
        BY <1>1, <2>4, <2>5, PermsDef
    <2>7. \A i \in 1..n : Then(q, x, n)[i] = p[i]
      <3>1. \A i \in 1..n : i = n \/ i \in 1..(n - 1)
        <4> HIDE DEF n
        <4> QED
          BY <1>1
      <3> HIDE DEF n, q
      <3> QED
        BY <1>6, <2>3, <3>1 DEF Then
    <2>8. Then(q, x, n) = p
      <3>1. Then(q, x, n) = [i \in 1..n |-> Then(q, x, n)[i]]
        BY DEF Then
      <3> HIDE DEF q, n
      <3> QED
        BY <2>1, <2>7, <3>1
    <2> QED
      BY <2>6, <2>8
  <1> QED
    BY <1>4, <1>5, <1>6

\* Sums over orderings: who comes last, and the orderings of the others.
LEMMA SumByLast ==
    ASSUME NEW M, IsFiniteSet(M), M # {}, NEW t, \A p \in Perms(M) : t[p] \in Int
    PROVE  SumFunctionOnSet(t, Perms(M))
             = SumFunctionOnSet([x \in M |->
                   SumFunctionOnSet([q \in Perms(M \ {x}) |-> t[Then(q, x, Cardinality(M))]],
                                      Perms(M \ {x}))], M)
  <1> DEFINE n == Cardinality(M)
             Sum(g, T) == SumFunctionOnSet(g, T)
             f == [p \in Perms(M) |-> p[n]]
             u(x) == [q \in Perms(M \ {x}) |-> t[Then(q, x, n)]]
             left == [x \in M |-> Sum(t, {p \in Perms(M) : f[p] = x})]
             right == [x \in M |-> Sum(u(x), Perms(M \ {x}))]
  <1>1. n \in Nat /\ n # 0 /\ n \in 1..n
    <2>1. n \in Nat /\ n # 0
      BY FS_CardinalityType, FS_EmptySet
    <2> HIDE DEF n
    <2> QED
      BY <2>1
  <1>2. IsFiniteSet(Perms(M)) /\ \A p \in Perms(M) : f[p] \in M
    BY <1>1, PermsFinite, PermsDef
  <1>3. Sum(t, Perms(M)) = Sum(left, M)
    <2> HIDE DEF f
    <2> QED
      BY <1>2, SumByClass
  <1>4. \A x \in M : left[x] = right[x]
    <2> TAKE x \in M
    <2> DEFINE A == Perms(M \ {x})
               B == {p \in Perms(M) : f[p] = x}
               h == [q \in A |-> Then(q, x, n)]
    <2>1. IsFiniteSet(A) /\ IsFiniteSet(B)
      BY <1>2, PermsFinite, FS_Subset
    <2>2. /\ \A q \in A : Then(q, x, n) \in Perms(M) /\ Then(q, x, n)[n] = x
          /\ \A q, s \in A : Then(q, x, n) = Then(s, x, n) => q = s
          /\ \A p \in Perms(M) : p[n] = x => \E q \in A : Then(q, x, n) = p
      BY PermsThen
    <2> HIDE DEF n
    <2>3. \A q \in A : h[q] \in B
      BY <2>2
    <2>4. \A q, s \in A : h[q] = h[s] => q = s
      BY <2>2
    <2>5. \A p \in B : \E q \in A : h[q] = p
      BY <2>2
    <2>6. \A q \in A : u(x)[q] \in Int /\ u(x)[q] = t[h[q]]
      BY <2>2
    <2>7. Sum(t, B) = Sum(u(x), A)
      <3> DEFINE w == u(x)
      <3> HIDE DEF A, B, h, w
      <3>1. \A q \in A : w[q] \in Int /\ w[q] = t[h[q]]
        BY <2>6 DEF w
      <3>2. Sum(t, B) = Sum(w, A)
        BY <2>1, <2>3, <2>4, <2>5, <3>1, SumRenamed
      <3> QED
        BY <3>2 DEF w
    <2> QED
      BY <2>7
  <1>5. left = right
    <2>1. left = [x \in M |-> left[x]] /\ right = [x \in M |-> right[x]]
      OBVIOUS
    <2> HIDE DEF left, right
    <2> QED
      BY <1>4, <2>1
  <1> HIDE DEF left
  <1> QED
    BY <1>3, <1>5

\* n desks have n! orderings.
LEMMA PermsCount ==
    ASSUME WellSetUp
    PROVE  \A M \in SUBSET Desks : Cardinality(Perms(M)) = Factorial[Cardinality(M)]
  <1> DEFINE F == Factorial
             Even(M) == Cardinality(Perms(M)) = F[Cardinality(M)]
             Sum(g, T) == SumFunctionOnSet(g, T)
             Bad == {n \in Nat : \E M \in SUBSET Desks : Cardinality(M) = n /\ ~Even(M)}
  <1>1. \A k \in 0..Cardinality(Desks) : F[k] \in Nat /\ F[k] = IF k = 0 THEN 1 ELSE k * F[k - 1]
    BY FactorialFacts
  <1>2. Bad = {}
    <2> SUFFICES ASSUME Bad # {} PROVE FALSE
      OBVIOUS
    <2>1. PICK n \in Bad : \A m \in Bad : n <= m
      <3>1. Bad \in SUBSET Nat
        OBVIOUS
      <3> HIDE DEF Bad
      <3> QED
        BY <3>1, FirstExists
    <2>2. PICK M \in SUBSET Desks : Cardinality(M) = n /\ ~Even(M)
      BY <2>1
    <2>3. IsFiniteSet(M) /\ n \in 0..Cardinality(Desks) /\ Cardinality(Desks) \in Nat
      BY <2>2, PartsFinite, FactorialFacts
    <2>4. IsFiniteSet(Perms(M)) /\ Cardinality(Perms(M)) \in Nat
      BY <2>3, PermsFinite, FS_CardinalityType
    <2>5. CASE n = 0
      <3>1. M = {}
        BY <2>2, <2>3, <2>5, FS_EmptySet
      <3>2. Perms(M) = {<<>>}
        <4>1. Perms(M) = {p \in [1..0 -> M] : \A i, j \in 1..0 : i # j => p[i] # p[j]}
          BY <2>2, <2>5, PermsDef
        <4>2. 1..0 = {}
          OBVIOUS
        <4>3. \A p \in [1..0 -> M] : p = <<>>
          BY <4>2
        <4>4. <<>> \in [1..0 -> M]
          BY <4>2
        <4> QED
          BY <4>1, <4>2, <4>3, <4>4
      <3>3. Cardinality(Perms(M)) = 1
        BY <3>2, FS_Singleton
      <3> QED
        BY <1>1, <2>2, <2>3, <2>5, <3>3
    <2>6. CASE n # 0
      <3>1. n - 1 \in 0..Cardinality(Desks) /\ ~(n <= n - 1) /\ F[n - 1] \in Nat /\ F[n] = n * F[n - 1]
        BY <1>1, <2>3, <2>6
      <3> DEFINE t == [p \in Perms(M) |-> 1]
                 u(x) == [q \in Perms(M \ {x}) |-> t[Then(q, x, Cardinality(M))]]
                 right == [x \in M |-> Sum(u(x), Perms(M \ {x}))]
      <3>2. Sum(t, Perms(M)) = Cardinality(Perms(M)) * 1
        <4>1. \A p \in Perms(M) : t[p] = 1
          OBVIOUS
        <4> HIDE DEF t
        <4> QED
          BY <2>4, <4>1, SumConst
      <3>3. Sum(t, Perms(M)) = Sum(right, M)
        <4>1. \A p \in Perms(M) : t[p] \in Int
          OBVIOUS
        <4>2. M # {}
          BY <2>2, <2>6, FS_EmptySet
        <4> HIDE DEF t
        <4> QED
          BY <2>3, <4>1, <4>2, SumByLast
      <3>4. \A x \in M : right[x] = F[n - 1]
        <4> TAKE x \in M
        <4>1. M \ {x} \in SUBSET Desks /\ Cardinality(M \ {x}) = n - 1 /\ IsFiniteSet(M \ {x})
          BY <2>2, <2>3, FS_RemoveElement
        <4>2. IsFiniteSet(Perms(M \ {x})) /\ Cardinality(Perms(M \ {x})) = F[n - 1]
          BY <2>1, <3>1, <4>1, PermsFinite
        <4>3. \A q \in Perms(M \ {x}) : u(x)[q] = 1
          BY <2>3, PermsThen
        <4> DEFINE w == u(x)
        <4>4. right[x] = Sum(w, Perms(M \ {x}))
          OBVIOUS
        <4> HIDE DEF w, right, F
        <4>5. Sum(w, Perms(M \ {x})) = Cardinality(Perms(M \ {x})) * 1
          <5>1. \A q \in Perms(M \ {x}) : w[q] = 1
            BY <4>3 DEF w
          <5> DEFINE Q == Perms(M \ {x})
          <5>2. IsFiniteSet(Q) /\ \A q \in Q : w[q] = 1
            BY <4>2, <5>1
          <5> HIDE DEF Q
          <5>3. Sum(w, Q) = Cardinality(Q) * 1
            BY <5>2, SumConst
          <5> QED
            BY <5>3 DEF Q
        <4> QED
          BY <3>1, <4>2, <4>4, <4>5
      <3>5. Sum(right, M) = n * F[n - 1]
        <4> HIDE DEF right, F
        <4> QED
          BY <2>2, <2>3, <3>1, <3>4, SumConst
      <3> HIDE DEF t, right, F
      <3> QED
        BY <2>2, <2>4, <3>1, <3>2, <3>3, <3>5
    <2> QED
      BY <2>5, <2>6
  <1>3. \A M \in SUBSET Desks : Cardinality(M) \in Nat
    BY DesksFinite, FS_CardinalityType
  <1> QED
    BY <1>2, <1>3

\* The desks before the i-th in an ordering.
Before(p, i) == {p[j] : j \in 1..(i - 1)}

\* A desk's marginal along an ordering is what it adds to those before it.
LEMMA Marginal ==
    ASSUME NEW M, IsFiniteSet(M), NEW p \in Perms(M), NEW i \in 1..Cardinality(M), NEW v
    PROVE  SampleValues(p, v)[p[i]] = v[Before(p, i) \cup {p[i]}] - v[Before(p, i)]
  <1> DEFINE n == Cardinality(M)
             at(d) == CHOOSE j \in DOMAIN p : p[j] = d
  <1>1. p \in [1..n -> M] /\ \A k, j \in 1..n : k # j => p[k] # p[j]
    BY PermsDef
  <1>2. DOMAIN p = 1..n
    BY <1>1
  <1>3. p[i] \in ToSet(p)
    <2> HIDE DEF n
    <2> QED
      BY <1>2 DEF ToSet, n
  <1>4. at(p[i]) = i
    <2>1. \E j \in DOMAIN p : p[j] = p[i]
      BY <1>2
    <2>2. at(p[i]) \in DOMAIN p /\ p[at(p[i])] = p[i]
      BY <2>1
    <2> HIDE DEF n, at
    <2> QED
      BY <1>1, <1>2, <2>2 DEF n
  <1>5. SampleValues(p, v)[p[i]]
          = v[{p[j] : j \in 1..(at(p[i]) - 1)} \cup {p[i]}] - v[{p[j] : j \in 1..(at(p[i]) - 1)}]
    BY <1>3 DEF SampleValues
  <1> HIDE DEF at
  <1> QED
    BY <1>4, <1>5 DEF Before

\* What d adds along each ordering of M, over all of them.
Marginals(M, d, v) == [p \in Perms(M) |-> SampleValues(p, v)[d]]
OrderSum(M, d, v) == SumFunctionOnSet(Marginals(M, d, v), Perms(M))

\* Marginals are whole numbers.
LEMMA MarginalsWhole ==
    ASSUME WellSetUp, NEW M \in SUBSET Desks, NEW d \in M, NEW v, Values(v)
    PROVE  \A p \in Perms(M) : Marginals(M, d, v)[p] \in Int
  <1> TAKE p \in Perms(M)
  <1>1. IsFiniteSet(M)
    BY PartsFinite
  <1>2. PICK i \in 1..Cardinality(M) : p[i] = d
    BY <1>1, PermsOnto
  <1>3. SampleValues(p, v)[d] = v[Before(p, i) \cup {d}] - v[Before(p, i)]
    BY <1>1, <1>2, Marginal
  <1>4. Before(p, i) \in SUBSET Desks
    <2>1. p \in [1..Cardinality(M) -> M] /\ Cardinality(M) \in Nat
      BY <1>1, PermsDef, FS_CardinalityType
    <2>2. \A j \in 1..(i - 1) : j \in 1..Cardinality(M)
      BY <2>1
    <2> QED
      BY <2>1, <2>2 DEF Before
  <1>5. v[Before(p, i)] \in Int /\ v[Before(p, i) \cup {d}] \in Int
    BY <1>4 DEF Values
  <1> QED
    BY <1>3, <1>5 DEF Marginals

\* The marginals over all orderings from those over the orderings of one desk
\* fewer: the recursion the shares obey.
LEMMA OrderRecursion ==
    ASSUME WellSetUp, NEW M \in SUBSET Desks, NEW d \in M, NEW v, Values(v)
    PROVE  OrderSum(M, d, v)
             = Factorial[Cardinality(M) - 1] * (v[M] - v[M \ {d}])
                 + SumFunctionOnSet([x \in M \ {d} |-> OrderSum(M \ {x}, d, v)], M \ {d})
  <1> DEFINE n == Cardinality(M)
             t == Marginals(M, d, v)
             Sum(g, T) == SumFunctionOnSet(g, T)
             u(x) == [q \in Perms(M \ {x}) |-> t[Then(q, x, n)]]
             right == [x \in M |-> Sum(u(x), Perms(M \ {x}))]
             less == [x \in M \ {d} |-> OrderSum(M \ {x}, d, v)]
             c == v[M] - v[M \ {d}]
  <1>1. IsFiniteSet(M) /\ n \in Nat /\ n # 0 /\ n \in 0..Cardinality(Desks) /\ n \in 1..n
    <2>1. IsFiniteSet(M) /\ n \in 0..Cardinality(Desks) /\ Cardinality(Desks) \in Nat /\ n # 0
      BY PartsFinite, FactorialFacts, FS_EmptySet
    <2> HIDE DEF n
    <2> QED
      BY <2>1
  <1>2. \A p \in Perms(M) : t[p] \in Int
    BY MarginalsWhole
  <1>3. \A x \in M : /\ IsFiniteSet(M \ {x}) /\ Cardinality(M \ {x}) = n - 1
                     /\ IsFiniteSet(Perms(M \ {x}))
    BY <1>1, FS_RemoveElement, PermsFinite
  <1>4. \A x \in M : /\ \A q \in Perms(M \ {x}) : Then(q, x, n) \in Perms(M) /\ Then(q, x, n)[n] = x
                     /\ \A q \in Perms(M \ {x}), i \in 1..(n - 1) : Then(q, x, n)[i] = q[i]
    BY <1>1, PermsThen
  <1>5. Sum(t, Perms(M)) = Sum(right, M)
    <2> HIDE DEF t
    <2> QED
      BY <1>1, <1>2, SumByLast
  <1>6. c \in Int
    BY DEF Values
  <1>7. right[d] = Factorial[n - 1] * c
    <2> DEFINE Q == Perms(M \ {d})
               w == u(d)
    <2>1. \A q \in Q : w[q] = c
      <3> TAKE q \in Q
      <3> DEFINE p == Then(q, d, n)
      <3>1. p \in Perms(M) /\ p[n] = d /\ \A i \in 1..(n - 1) : p[i] = q[i]
        BY <1>4
      <3>2. w[q] = SampleValues(p, v)[d]
        BY <3>1 DEF Marginals
      <3>3. Before(p, n) = M \ {d}
        <4>1. q \in [1..(n - 1) -> M \ {d}] /\ \A x \in M \ {d} : \E i \in 1..(n - 1) : q[i] = x
          <5> DEFINE A == M \ {d}
          <5>1. IsFiniteSet(A) /\ Cardinality(A) = n - 1 /\ q \in Perms(A)
            BY <1>3
          <5> HIDE DEF A, n
          <5>2. q \in [1..(n - 1) -> A]
            BY <5>1, PermsDef
          <5>3. \A x \in A : \E i \in 1..(n - 1) : q[i] = x
            BY <5>1, PermsOnto
          <5> QED
            BY <5>2, <5>3 DEF A
        <4>2. \A i \in 1..(n - 1) : p[i] \in M \ {d}
          BY <3>1, <4>1
        <4>3. \A x \in M \ {d} : \E i \in 1..(n - 1) : p[i] = x
          BY <3>1, <4>1
        <4> HIDE DEF p, n
        <4> QED
          BY <4>2, <4>3 DEF Before
      <3>4. (M \ {d}) \cup {d} = M
        OBVIOUS
      <3>5. SampleValues(p, v)[p[n]] = v[Before(p, n) \cup {p[n]}] - v[Before(p, n)]
        <4> HIDE DEF p
        <4> QED
          BY <1>1, <3>1, Marginal
      <3> HIDE DEF p, w, n
      <3> QED
        BY <3>1, <3>2, <3>3, <3>4, <3>5
    <2>2. right[d] = Sum(w, Q)
      OBVIOUS
    <2>3. IsFiniteSet(Q)
      BY <1>3
    <2>4. Cardinality(Q) = Factorial[n - 1]
      <3>1. M \ {d} \in SUBSET Desks
        OBVIOUS
      <3> QED
        BY <1>3, <3>1, PermsCount
    <2> HIDE DEF Q, w, c, right
    <2>5. Sum(w, Q) = Cardinality(Q) * c
      BY <1>6, <2>1, <2>3, SumConst
    <2> QED
      BY <2>2, <2>4, <2>5
  <1>8. \A x \in M \ {d} : right[x] = less[x]
    <2> TAKE x \in M \ {d}
    <2> DEFINE Q == Perms(M \ {x})
               w == u(x)
               m == Marginals(M \ {x}, d, v)
    <2>1. \A q \in Q : w[q] = m[q]
      <3> TAKE q \in Q
      <3> DEFINE p == Then(q, x, n)
      <3>1. p \in Perms(M) /\ \A i \in 1..(n - 1) : p[i] = q[i]
        BY <1>4
      <3>2. w[q] = SampleValues(p, v)[d] /\ m[q] = SampleValues(q, v)[d]
        BY <3>1 DEF Marginals
      <3>3. PICK i \in 1..(n - 1) : q[i] = d
        <4> DEFINE A == M \ {x}
        <4>1. IsFiniteSet(A) /\ Cardinality(A) = n - 1 /\ d \in A /\ q \in Perms(A)
          BY <1>3
        <4> HIDE DEF A, n
        <4> QED
          BY <4>1, PermsOnto
      <3>4. i \in 1..n /\ \A j \in 1..(i - 1) : j \in 1..(n - 1)
        <4> HIDE DEF n
        <4> QED
          BY <1>1, <3>3
      <3>5. p[i] = d /\ Before(p, i) = Before(q, i)
        BY <3>1, <3>3, <3>4 DEF Before
      <3>6. SampleValues(p, v)[d] = v[Before(p, i) \cup {d}] - v[Before(p, i)]
        <4> HIDE DEF p
        <4> QED
          BY <1>1, <3>1, <3>4, <3>5, Marginal
      <3>7. SampleValues(q, v)[d] = v[Before(q, i) \cup {d}] - v[Before(q, i)]
        BY <1>3, <3>3, Marginal
      <3> HIDE DEF p, w, m
      <3> QED
        BY <3>2, <3>5, <3>6, <3>7
    <2>2. right[x] = Sum(w, Q) /\ less[x] = Sum(m, Q)
      BY DEF OrderSum
    <2>3. \A q \in Q : m[q] \in Int
      <3>1. M \ {x} \in SUBSET Desks /\ d \in M \ {x}
        OBVIOUS
      <3> QED
        BY <3>1, MarginalsWhole
    <2>4. IsFiniteSet(Q)
      BY <1>3
    <2> HIDE DEF Q, w, m, right, less
    <2>5. \A q \in Q : w[q] = m[q] /\ w[q] \in Int
      BY <2>1, <2>3
    <2>6. Sum(w, Q) = Sum(m, Q)
      BY <2>4, <2>5, SumSame
    <2> QED
      BY <2>2, <2>6
  <1>9. \A x \in M : right[x] \in Int
    <2> TAKE x \in M
    <2> DEFINE Q == Perms(M \ {x})
               w == u(x)
    <2>1. \A q \in Q : w[q] \in Int
      BY <1>2, <1>4
    <2>2. IsFiniteSet(Q) /\ right[x] = Sum(w, Q)
      BY <1>3
    <2> HIDE DEF Q, w, right
    <2> QED
      BY <2>1, <2>2, SumInt
  <1>10. Sum(right, M) = right[d] + Sum(right, M \ {d})
    <2> HIDE DEF right
    <2> QED
      BY <1>1, <1>9, SumAdd
  <1>11. Sum(right, M \ {d}) = Sum(less, M \ {d})
    <2>1. \A x \in M \ {d} : right[x] = less[x] /\ right[x] \in Int
      BY <1>8, <1>9
    <2> HIDE DEF right, less
    <2> QED
      BY <1>3, <2>1, SumSame
  <1> HIDE DEF right, less, t, c
  <1> QED
    BY <1>5, <1>7, <1>10, <1>11 DEF OrderSum, less, c, t

\* The exact share is the sum of the sampled marginals over all orderings.
LEMMA SharesAreSampled ==
    ASSUME WellSetUp, NEW v, Values(v)
    PROVE  \A M \in SUBSET Desks : \A d \in M : Share(M, d, v) = OrderSum(M, d, v)
  <1> DEFINE Same(M) == \A d \in M : Share(M, d, v) = OrderSum(M, d, v)
             Bad == {n \in Nat : \E M \in SUBSET Desks : Cardinality(M) = n /\ ~Same(M)}
  <1>1. Bad = {}
    <2> SUFFICES ASSUME Bad # {} PROVE FALSE
      OBVIOUS
    <2>1. PICK n \in Bad : \A m \in Bad : n <= m
      <3>1. Bad \in SUBSET Nat
        OBVIOUS
      <3> HIDE DEF Bad
      <3> QED
        BY <3>1, FirstExists
    <2>2. PICK M \in SUBSET Desks : Cardinality(M) = n /\ ~Same(M)
      BY <2>1
    <2>3. PICK d \in M : Share(M, d, v) # OrderSum(M, d, v)
      BY <2>2
    <2>4. IsFiniteSet(M) /\ n \in Nat /\ n # 0
      <3>1. IsFiniteSet(M)
        BY PartsFinite
      <3> QED
        BY <2>1, <2>2, <2>3, <3>1, FS_EmptySet
    <2>5. \A x \in M \ {d} : Share(M \ {x}, d, v) = OrderSum(M \ {x}, d, v)
      <3> TAKE x \in M \ {d}
      <3>1. M \ {x} \in SUBSET Desks /\ d \in M \ {x} /\ Cardinality(M \ {x}) = n - 1
        BY <2>2, <2>4, FS_RemoveElement
      <3>2. n - 1 \in Nat /\ ~(n <= n - 1)
        BY <2>4
      <3>3. n - 1 \notin Bad
        <4> HIDE DEF Bad
        <4> QED
          BY <2>1, <3>2
      <3> QED
        BY <3>1, <3>2, <3>3
    <2> DEFINE shares == [x \in M \ {d} |-> Share(M \ {x}, d, v)]
               orders == [x \in M \ {d} |-> OrderSum(M \ {x}, d, v)]
               c == Factorial[Cardinality(M) - 1] * (v[M] - v[M \ {d}])
    <2>6. shares = orders
      BY <2>5
    <2>7. Share(M, d, v) = c + SumFunctionOnSet(shares, M \ {d})
      BY ShareRecursion
    <2>8. OrderSum(M, d, v) = c + SumFunctionOnSet(orders, M \ {d})
      BY OrderRecursion
    <2> HIDE DEF shares, orders, c
    <2> QED
      BY <2>3, <2>6, <2>7, <2>8
  <1>2. \A M \in SUBSET Desks : Cardinality(M) \in Nat
    BY DesksFinite, FS_CardinalityType
  <1> QED
    BY <1>1, <1>2

-----------------------------------------------------------------------------
(***************************************************************************)
(* What AttributionAddsUp says, of one decision and then of all.           *)
(***************************************************************************)

\* The signal-space game: whole values, nothing for nobody, the position for all.
LEMMA SignalGame ==
    ASSUME WellSetUp, NEW w, SomeWeights(w), Weighted(w) = Desks, NEW r, SomeRecent(r)
    PROVE  LET v == SignalValue(w, Limits, r)
           IN  Values(v) /\ v[{}] = 0 /\ v[Desks] = PositionSize(w, Limits, r)
  <1> DEFINE v == SignalValue(w, Limits, r)
  <1>1. \A S \in SUBSET Desks : v[S] = CoalitionPosition(w, Limits, r, S)
    BY DEF SignalValue
  <1>2. Values(v)
    <2> HIDE DEF v
    <2> QED
      BY <1>1, ValueWhole DEF Values
  <1>3. v[{}] = 0
    <2>1. CoalitionSignal(w, r, {}) = Signal(w, r, {} \cap Contributing(w, r))
      BY CoalitionIsSignal
    <2>2. {} \cap Contributing(w, r) = {}
      OBVIOUS
    <2>3. Signal(w, r, {}) = 0
      BY SumEmpty DEF Signal, SumFunction
    <2>4. CoalitionPosition(w, Limits, r, {}) = Clip(K * 0, Limit)
      BY <2>1, <2>2, <2>3 DEF CoalitionPosition, Limits
    <2>5. Clip(K * 0, Limit) = 0
      <3>1. K * 0 = 0
        BY Constants
      <3> QED
        BY <3>1, Constants DEF Clip
    <2> QED
      BY <1>1, <2>4, <2>5
  <1>4. v[Desks] = PositionSize(w, Limits, r)
    <2>1. Desks \cap Contributing(w, r) = Contributing(w, r)
      BY DEF Contributing, Weighted
    <2>2. CoalitionSignal(w, r, Desks) = CombinedSignal(w, r)
      BY <2>1, CoalitionIsSignal, CombinedIsSignal
    <2> QED
      BY <1>1, <2>2 DEF CoalitionPosition, PositionSize
  <1> QED
    BY <1>2, <1>3, <1>4

\* A score is a whole number.
LEMMA ZScoreWhole ==
    ASSUME NEW x, NEW series
    PROVE  ZScore(x, series) \in Int
  <1> DEFINE mean2 == FoldSeq(+, 0, series)
             few == Len(series) < 2
             above == 2 * x > mean2
             below == 2 * x < mean2
  <1>1. ZScore(x, series)
          = CASE few -> 0 [] above -> 1 [] below -> -1 [] OTHER -> 0
    BY DEF ZScore
  <1> HIDE DEF few, above, below
  <1>2. (CASE few -> 0 [] above -> 1 [] below -> -1 [] OTHER -> 0) \in Int
    OBVIOUS
  <1> QED
    BY <1>1, <1>2

\* The grading-space game: whole values, and a desk without a score changes none.
LEMMA GradingGame ==
    ASSUME WellSetUp, NEW scores, \A d \in DOMAIN scores : scores[d] \in Int, NEW print \in Int
    PROVE  LET v == GradingValue(Desks, scores, print)
           IN  /\ Values(v)
               /\ \A d \in Desks \ DOMAIN scores : \A S \in SUBSET (Desks \ {d}) :
                     v[S \cup {d}] = v[S]
  <1> DEFINE v == GradingValue(Desks, scores, print)
             unit == Factorial[Cardinality(Desks)]
             mean(A) == IF A = {} THEN 0
                        ELSE SumFunction([d \in A |-> scores[d]]) * (unit \div Cardinality(A))
             loss(A) == -Square(mean(A) - unit * print)
  <1>1. \A S \in SUBSET Desks : v[S] = loss(S \cap DOMAIN scores)
    BY DEF GradingValue
  <1>2. unit \in Nat
    <2>1. Cardinality(Desks) \in 0..Cardinality(Desks)
      BY FactorialFacts
    <2> QED
      BY <2>1, FactorialFacts
  <1>3. \A A \in SUBSET (Desks \cap DOMAIN scores) : mean(A) \in Int
    <2> TAKE A \in SUBSET (Desks \cap DOMAIN scores)
    <2>1. CASE A = {}
      BY <2>1
    <2>2. CASE A # {}
      <3> DEFINE t == [d \in A |-> scores[d]]
      <3>1. IsFiniteSet(A)
        BY DesksFinite
      <3>2. SumFunction(t) \in Int
        <4>1. SumFunction(t) = SumFunctionOnSet(t, A) /\ \A d \in A : t[d] \in Int
          BY DEF SumFunction
        <4> HIDE DEF t
        <4> QED
          BY <3>1, <4>1, SumInt
      <3>3. Cardinality(A) \in Nat /\ Cardinality(A) > 0
        BY <2>2, <3>1, FS_CardinalityType, FS_EmptySet
      <3>4. unit \div Cardinality(A) \in Int
        <4> HIDE DEF unit
        <4> QED
          BY <1>2, <3>3
      <3>5. SumFunction(t) * (unit \div Cardinality(A)) \in Int
        <4> HIDE DEF t, unit
        <4> QED
          BY <3>2, <3>4
      <3> QED
        BY <2>2, <3>5
    <2> QED
      BY <2>1, <2>2
  <1>4. \A A \in SUBSET (Desks \cap DOMAIN scores) : loss(A) \in Int
    <2> TAKE A \in SUBSET (Desks \cap DOMAIN scores)
    <2>1. mean(A) \in Int
      BY <1>3
    <2> HIDE DEF unit, mean
    <2>2. mean(A) - unit * print \in Int
      BY <1>2, <2>1
    <2> QED
      BY <2>2 DEF Square
  <1>5. Values(v)
    <2> HIDE DEF v, loss
    <2> QED
      BY <1>1, <1>4 DEF Values
  <1>6. ASSUME NEW d \in Desks \ DOMAIN scores, NEW S \in SUBSET (Desks \ {d})
        PROVE  v[S \cup {d}] = v[S]
    <2>1. (S \cup {d}) \cap DOMAIN scores = S \cap DOMAIN scores
      OBVIOUS
    <2>2. S \in SUBSET Desks /\ S \cup {d} \in SUBSET Desks
      OBVIOUS
    <2> HIDE DEF v, loss
    <2>3. v[S \cup {d}] = loss((S \cup {d}) \cap DOMAIN scores)
      BY <1>1, <2>2
    <2>4. v[S] = loss(S \cap DOMAIN scores)
      BY <1>1, <2>2
    <2> QED
      BY <2>1, <2>3, <2>4
  <1> QED
    BY <1>5, <1>6

\* Efficiency, as the code states it.
LEMMA ValuesAddUp ==
    ASSUME WellSetUp, NEW v, Values(v)
    PROVE  SumFunction(ShapleyValues(Desks, v))
             = Factorial[Cardinality(Desks)] * (v[Desks] - v[{}])
  <1> DEFINE s == ShapleyValues(Desks, v)
             t == [d \in Desks |-> Share(Desks, d, v)]
  <1>1. s = t
    BY DEF ShapleyValues, SumFunction, Share, Term
  <1>2. SumFunction(t) = Shares(Desks, v)
    BY DEF SumFunction, Shares
  <1>3. Desks \in SUBSET Desks /\ Cardinality(Desks) = Cardinality(Desks)
    OBVIOUS
  <1> HIDE DEF s, t
  <1> QED
    BY <1>1, <1>2, <1>3, SharesAddUp DEF s

\* Both accounts of one decision whose weights have not moved.
LEMMA FairOne ==
    ASSUME WellSetUp, ServiceInv, NEW i \in DOMAIN decisions, Unmoved(i)
    PROVE  LET v == SignalValue(WeightsOf(i), ParamsOf(i), decisions[i].recent)
               exact == ShapleyValues(Desks, v)
               scores == Normalised(decisions, i, prints)
               graded == GradingValue(Desks, scores, NormalisedPrint(decisions, i, prints))
               credit == GradingShapley(WeightsOf(i), decisions, i, prints)
           IN  /\ SumFunction(exact)
                    = Factorial[Cardinality(Desks)] * decisions[i].position_size
               /\ \A d \in Desks :
                    exact[d] = SumFunction([p \in SetToSeqs(Desks) |-> SampleValues(p, v)[d]])
               /\ SumFunction(credit)
                    = Factorial[Cardinality(Desks)] * (graded[Desks] - graded[{}])
               /\ \A d \in Desks : d \notin Fresh(decisions[i].recent) => credit[d] = 0
  <1> DEFINE w == decisions[i].weights
             r == decisions[i].recent
             v == SignalValue(w, Limits, r)
             exact == ShapleyValues(Desks, v)
             scores == Normalised(decisions, i, prints)
             print == NormalisedPrint(decisions, i, prints)
             graded == GradingValue(Desks, scores, print)
             credit == ShapleyValues(Desks, graded)
  <1>1. decisions[i] \in Decision /\ IsDecision(decisions[i])
    BY DEF ServiceInv, TablesType
  <1>2. SomeWeights(w) /\ SomeRecent(r) /\ decisions[i].regime \in Regimes
    BY <1>1 DEF Decision, SomeWeights, SomeRecent
  <1>3. WeightsOf(i) = w
    BY DEF Unmoved, WeightsOf
  <1>4. ParamsOf(i) = Limits
    <2>1. controller_params[decisions[i].regime] \in Params
      BY <1>1, <1>2 DEF IsDecision, ServiceInv, TablesType
    <2> QED
      BY <2>1 DEF Params, ParamsOf, Limits
  <1>5. Weighted(w) = Desks /\ decisions[i].position_size = PositionSize(w, Limits, r)
    BY <1>1 DEF IsDecision, Limits
  <1>6. Values(v) /\ v[{}] = 0 /\ v[Desks] = decisions[i].position_size
    BY <1>2, <1>5, SignalGame
  <1>7. SumFunction(exact) = Factorial[Cardinality(Desks)] * decisions[i].position_size
    <2>1. decisions[i].position_size - 0 = decisions[i].position_size
      <3>1. decisions[i].position_size \in Int
        BY <1>6 DEF Values
      <3> QED
        BY <3>1
    <2> HIDE DEF v
    <2> QED
      BY <1>6, <2>1, ValuesAddUp
  <1>8. ASSUME NEW d \in Desks
        PROVE  exact[d] = SumFunction([p \in SetToSeqs(Desks) |-> SampleValues(p, v)[d]])
    <2> HIDE DEF v
    <2>1. exact[d] = Share(Desks, d, v)
      BY ShareIsShapley
    <2>2. Share(Desks, d, v) = OrderSum(Desks, d, v)
      BY <1>6, SharesAreSampled
    <2>3. OrderSum(Desks, d, v)
            = SumFunction([p \in SetToSeqs(Desks) |-> SampleValues(p, v)[d]])
      BY DEF OrderSum, Marginals, Perms, SumFunction
    <2> QED
      BY <2>1, <2>2, <2>3
  <1>9. DOMAIN scores = Fresh(r) /\ \A d \in DOMAIN scores : scores[d] \in Int
    BY ZScoreWhole DEF Normalised
  <1>10. print \in Int
    BY ZScoreWhole DEF NormalisedPrint
  <1>11. /\ Values(graded)
         /\ \A d \in Desks \ DOMAIN scores : \A S \in SUBSET (Desks \ {d}) :
               graded[S \cup {d}] = graded[S]
    <2> HIDE DEF scores, print
    <2> QED
      BY <1>9, <1>10, GradingGame
  <1>12. GradingShapley(w, decisions, i, prints) = credit
    BY <1>5 DEF GradingShapley
  <1> HIDE DEF graded
  <1>13. SumFunction(credit) = Factorial[Cardinality(Desks)] * (graded[Desks] - graded[{}])
    BY <1>11, ValuesAddUp
  <1>14. ASSUME NEW d \in Desks, d \notin Fresh(r)
         PROVE  credit[d] = 0
    <2>1. \A S \in SUBSET (Desks \ {d}) : graded[S] \in Int /\ graded[S \cup {d}] = graded[S]
      BY <1>9, <1>11, <1>14 DEF Values
    <2>2. Desks \in SUBSET Desks
      OBVIOUS
    <2> QED
      BY <2>1, <2>2, NullPlayer
  <1> HIDE DEF v, exact, scores, print, credit
  <1> QED
    BY <1>3, <1>4, <1>7, <1>8, <1>12, <1>13, <1>14 DEF v, exact, scores, print, graded

\* The credit handed out adds up to what was decided (attribution/lodo.py,
\* shapley.py): leaving a desk out is what decide() itself would have done
\* without its forecast, the exact Shapley values share out the whole position,
\* clipping included, and are what sampling every ordering would give, the
\* graded ones share out the loss, and a desk that did not take part has no
\* share; for every number of desks, weight and estimate.
THEOREM AttributionHandsOutTheDecision ==
    ASSUME ControllerAssumption
    PROVE  ServiceSpec => []AttributionAddsUp
  <1>1. WellSetUp
    BY DEF WellSetUp
  <1>2. ServiceInv => ShapleyIsFair
    BY <1>1, FairOne DEF ShapleyIsFair
  <1>3. ServiceInv => AttributionAddsUp
    BY <1>1, <1>2, Reproduces DEF AttributionAddsUp
  <1> QED
    BY <1>1, <1>3, ServiceInvariant, PTL

-----------------------------------------------------------------------------
(***************************************************************************)
(* The roll calendar of the S4 drills.                                     *)
(***************************************************************************)

\* What the calendar must be like: the exchange is never closed for more than
\* two weeks.
NeverClosedLong == \A d \in Int : \E p \in (d - 14)..(d - 1) : IsBusinessDay(p)
RollPremise == RollAssumption /\ NeverClosedLong

\* A set of days that has a bound has a first one, or a last one.
LEMMA FirstOfDays ==
    ASSUME NEW S \in SUBSET Int, S # {}, NEW b \in Int, \A x \in S : b <= x
    PROVE  \E d \in S : \A x \in S : d <= x
  <1> DEFINE N == {x - b : x \in S}
  <1>1. N \in SUBSET Nat /\ N # {}
    <2>1. \A x \in S : x - b \in Nat /\ x - b \in N
      OBVIOUS
    <2> QED
      BY <2>1
  <1>2. PICK n \in N : \A m \in N : n <= m
    BY <1>1, FirstExists
  <1>3. PICK d \in S : n = d - b
    BY <1>2
  <1>4. \A x \in S : d <= x
    <2> TAKE x \in S
    <2>1. x - b \in N
      OBVIOUS
    <2>2. n <= x - b /\ x \in Int /\ d \in Int
      BY <1>2, <2>1
    <2> QED
      BY <1>3, <2>2
  <1> QED
    BY <1>4

LEMMA LastOfDays ==
    ASSUME NEW S \in SUBSET Int, S # {}, NEW b \in Int, \A x \in S : x <= b
    PROVE  \E d \in S : \A x \in S : x <= d
  <1> DEFINE N == {-x : x \in S}
  <1>1. N \in SUBSET Int /\ N # {} /\ \A x \in N : -b <= x
    <2>1. \A x \in S : -x \in Int /\ -b <= -x /\ -x \in N
      OBVIOUS
    <2> QED
      BY <2>1
  <1>2. PICK n \in N : \A m \in N : n <= m
    BY <1>1, FirstOfDays, -b \in Int
  <1>3. PICK d \in S : n = -d
    BY <1>2
  <1>4. \A x \in S : x <= d
    <2> TAKE x \in S
    <2>1. -x \in N
      OBVIOUS
    <2>2. n <= -x /\ x \in Int /\ d \in Int
      BY <1>2, <2>1
    <2> QED
      BY <1>3, <2>2
  <1> QED
    BY <1>4

LEMMA MinIs ==
    ASSUME NEW S \in SUBSET Int, S # {}, NEW b \in Int, \A x \in S : b <= x
    PROVE  Min(S) \in S /\ \A x \in S : Min(S) <= x
  <1>1. \E d \in S : \A x \in S : d <= x
    BY FirstOfDays
  <1> QED
    BY <1>1 DEF Min

\* The business day before a day is the last one before it.
LEMMA PriorIs ==
    ASSUME NeverClosedLong, NEW d \in Int
    PROVE  LET p == PriorBusinessDay(d)
           IN  /\ p \in Int /\ p < d /\ IsBusinessDay(p)
               /\ \A q \in (p + 1)..(d - 1) : ~IsBusinessDay(q)
  <1> DEFINE Open == {p \in (d - 14)..(d - 1) : IsBusinessDay(p)}
  <1>1. Open \in SUBSET Int /\ Open # {} /\ d - 1 \in Int /\ \A p \in Open : p <= d - 1
    <2>1. \A p \in (d - 14)..(d - 1) : p \in Int /\ p <= d - 1
      OBVIOUS
    <2>2. \E p \in (d - 14)..(d - 1) : IsBusinessDay(p)
      BY DEF NeverClosedLong
    <2> QED
      BY <2>1, <2>2
  <1>2. PICK l \in Open : \A p \in Open : p <= l
    <2> HIDE DEF Open
    <2> QED
      BY <1>1, LastOfDays
  <1>3. \A q \in (l + 1)..(d - 1) : ~IsBusinessDay(q)
    <2> SUFFICES ASSUME NEW q \in (l + 1)..(d - 1), IsBusinessDay(q)
                 PROVE  FALSE
      OBVIOUS
    <2>1. q \in Open /\ ~(q <= l)
      OBVIOUS
    <2> QED
      BY <1>2, <2>1
  <1>4. \E p \in (d - 14)..(d - 1) :
           IsBusinessDay(p) /\ \A q \in (p + 1)..(d - 1) : ~IsBusinessDay(q)
    BY <1>3
  <1>5. /\ PriorBusinessDay(d) \in (d - 14)..(d - 1)
        /\ IsBusinessDay(PriorBusinessDay(d))
        /\ \A q \in (PriorBusinessDay(d) + 1)..(d - 1) : ~IsBusinessDay(q)
    BY <1>4 DEF PriorBusinessDay
  <1> QED
    BY <1>5

\* One step back after another.
GoBack(d, f, n) == [k \in 0..n |-> IF k = 0 THEN d ELSE PriorBusinessDay(f[k - 1])]
Back(d, n) == CHOOSE f : f = GoBack(d, f, n)

LEMMA BackExists ==
    ASSUME NEW d
    PROVE  \A n \in Nat : \E f : f = GoBack(d, f, n)
  <1> DEFINE Bad == {n \in Nat : ~ \E f : f = GoBack(d, f, n)}
  <1>1. Bad = {}
    <2> SUFFICES ASSUME Bad # {} PROVE FALSE
      OBVIOUS
    <2>1. PICK n \in Bad : \A m \in Bad : n <= m
      <3>1. Bad \in SUBSET Nat
        OBVIOUS
      <3> HIDE DEF Bad
      <3> QED
        BY <3>1, FirstExists
    <2>2. n # 0
      <3> DEFINE e == [k \in 0..0 |-> d]
      <3>1. e = GoBack(d, e, 0)
        <4>1. \A k \in 0..0 : k = 0
          OBVIOUS
        <4> QED
          BY <4>1 DEF GoBack
      <3> QED
        BY <2>1, <3>1
    <2>3. PICK f : f = GoBack(d, f, n - 1)
      <3>1. n \in Nat /\ n - 1 \in Nat /\ ~(n <= n - 1)
        BY <2>2
      <3> QED
        BY <2>1, <3>1
    <2> DEFINE g == GoBack(d, f, n)
    <2>4. \A k \in 0..(n - 1) : g[k] = f[k]
      <3> TAKE k \in 0..(n - 1)
      <3>1. f[k] = GoBack(d, f, n - 1)[k]
        BY <2>3
      <3>2. k \in 0..n
        BY <2>2
      <3> QED
        BY <3>1, <3>2 DEF GoBack
    <2>5. g = GoBack(d, g, n)
      <3>1. \A k \in 0..n : k # 0 => k - 1 \in 0..(n - 1)
        OBVIOUS
      <3>2. \A k \in 0..n : k # 0 => g[k - 1] = f[k - 1]
        BY <2>4, <3>1
      <3> QED
        BY <3>2 DEF GoBack
    <2> QED
      BY <2>1, <2>5
  <1> QED
    BY <1>1

\* The business days after a and up to b.
Open(a, b) == {x \in (a + 1)..b : IsBusinessDay(x)}

LEMMA OpenIsFinite ==
    ASSUME NEW a \in Int, NEW b \in Int
    PROVE  IsFiniteSet(Open(a, b)) /\ Cardinality(Open(a, b)) \in Nat
  <1>1. IsFiniteSet((a + 1)..b)
    BY FS_Interval
  <1>2. Open(a, b) \in SUBSET ((a + 1)..b)
    BY DEF Open
  <1> QED
    BY <1>1, <1>2, FS_Subset, FS_CardinalityType

LEMMA BackIs ==
    ASSUME NeverClosedLong, NEW d \in Int, NEW n \in Nat
    PROVE  LET g == Back(d, n)
           IN  /\ BusinessDaysBefore(d, n) = g[n]
               /\ g[0] = d
               /\ \A k \in 1..n : g[k] = PriorBusinessDay(g[k - 1])
               /\ \A k \in 0..n : g[k] \in Int /\ g[k] <= d
  <1> DEFINE g == Back(d, n)
             Bad == {k \in 0..n : ~(g[k] \in Int /\ g[k] <= d)}
  <1>1. BusinessDaysBefore(d, n) = g[n]
    BY DEF BusinessDaysBefore, Back, GoBack
  <1>2. g = GoBack(d, g, n)
    BY BackExists DEF Back
  <1> HIDE DEF g
  <1>3. g[0] = d /\ \A k \in 1..n : g[k] = PriorBusinessDay(g[k - 1])
    <2>1. 0 \in 0..n /\ \A k \in 1..n : k \in 0..n /\ k # 0
      OBVIOUS
    <2>2. g[0] = GoBack(d, g, n)[0] /\ \A k \in 1..n : g[k] = GoBack(d, g, n)[k]
      BY <1>2
    <2> QED
      BY <2>1, <2>2 DEF GoBack
  <1>4. Bad = {}
    <2> SUFFICES ASSUME Bad # {} PROVE FALSE
      OBVIOUS
    <2>1. PICK k \in Bad : \A m \in Bad : k <= m
      <3>1. Bad \in SUBSET Nat
        OBVIOUS
      <3> HIDE DEF Bad
      <3> QED
        BY <3>1, FirstExists
    <2>2. k # 0
      BY <1>3, <2>1
    <2>3. k \in 1..n /\ k - 1 \in 0..n /\ ~(k <= k - 1)
      BY <2>2
    <2>4. g[k - 1] \in Int /\ g[k - 1] <= d
      BY <2>1, <2>3
    <2>5. g[k] \in Int /\ g[k] < g[k - 1]
      BY <1>3, <2>3, <2>4, PriorIs
    <2>6. g[k] <= d
      BY <2>4, <2>5
    <2> QED
      BY <2>1, <2>5, <2>6
  <1> QED
    BY <1>1, <1>3, <1>4 DEF g

\* Each step back passes one business day.
LEMMA BackCounts ==
    ASSUME NeverClosedLong, NEW d \in Int, IsBusinessDay(d), NEW n \in Nat
    PROVE  LET e == BusinessDaysBefore(d, n)
           IN  e \in Int /\ e <= d /\ IsBusinessDay(e) /\ Cardinality(Open(e, d)) = n
  <1> DEFINE g == Back(d, n)
             Good(k) == IsBusinessDay(g[k]) /\ Cardinality(Open(g[k], d)) = k
             Bad == {k \in 0..n : ~Good(k)}
  <1>1. /\ BusinessDaysBefore(d, n) = g[n]
        /\ g[0] = d
        /\ \A k \in 1..n : g[k] = PriorBusinessDay(g[k - 1])
        /\ \A k \in 0..n : g[k] \in Int /\ g[k] <= d
    BY BackIs
  <1> HIDE DEF g
  <1>2. Bad = {}
    <2> SUFFICES ASSUME Bad # {} PROVE FALSE
      OBVIOUS
    <2>1. PICK k \in Bad : \A m \in Bad : k <= m
      <3>1. Bad \in SUBSET Nat
        OBVIOUS
      <3> HIDE DEF Bad
      <3> QED
        BY <3>1, FirstExists
    <2>2. k # 0
      <3>1. Open(d, d) = {}
        BY DEF Open
      <3>2. Good(0)
        BY <1>1, <3>1, FS_EmptySet
      <3> QED
        BY <2>1, <3>2
    <2>3. k \in 1..n /\ k - 1 \in 0..n /\ ~(k <= k - 1)
      BY <2>2
    <2>4. Good(k - 1)
      BY <2>1, <2>3
    <2> DEFINE x == g[k - 1]
    <2>5. x \in Int /\ x <= d /\ IsBusinessDay(x) /\ Cardinality(Open(x, d)) = k - 1
      BY <1>1, <2>3, <2>4
    <2>6. /\ g[k] \in Int /\ g[k] < x /\ IsBusinessDay(g[k])
          /\ \A q \in (g[k] + 1)..(x - 1) : ~IsBusinessDay(q)
      BY <1>1, <2>3, <2>5, PriorIs
    <2> HIDE DEF x
    <2>7. Open(g[k], d) = Open(x, d) \cup {x} /\ x \notin Open(x, d)
      <3>1. ASSUME NEW y \in Open(g[k], d) PROVE y \in Open(x, d) \cup {x}
        <4>1. y \in Int /\ g[k] < y /\ y <= d /\ IsBusinessDay(y)
          BY <2>5, <2>6 DEF Open
        <4>2. ~(y < x)
          BY <2>5, <2>6, <4>1
        <4> QED
          BY <2>5, <4>1, <4>2 DEF Open
      <3>2. \A y \in Open(x, d) \cup {x} : y \in Open(g[k], d)
        BY <2>5, <2>6 DEF Open
      <3>3. x \notin Open(x, d)
        BY <2>5 DEF Open
      <3> QED
        BY <3>1, <3>2, <3>3
    <2>8. Cardinality(Open(g[k], d)) = k
      <3>1. IsFiniteSet(Open(x, d))
        BY <2>5, OpenIsFinite
      <3>2. Cardinality(Open(x, d) \cup {x}) = Cardinality(Open(x, d)) + 1
        BY <2>7, <3>1, FS_AddElement
      <3> QED
        BY <2>3, <2>5, <2>7, <3>2
    <2> QED
      BY <2>1, <2>6, <2>8
  <1> QED
    BY <1>1, <1>2

\* Going back from a later day never ends earlier.
LEMMA PriorGrows ==
    ASSUME NeverClosedLong, NEW a \in Int, NEW b \in Int, a <= b
    PROVE  PriorBusinessDay(a) <= PriorBusinessDay(b)
  <1>1. /\ PriorBusinessDay(a) \in Int /\ PriorBusinessDay(a) < a
        /\ IsBusinessDay(PriorBusinessDay(a))
    BY PriorIs
  <1>2. /\ PriorBusinessDay(b) \in Int /\ PriorBusinessDay(b) < b
        /\ \A q \in (PriorBusinessDay(b) + 1)..(b - 1) : ~IsBusinessDay(q)
    BY PriorIs
  <1> QED
    BY <1>1, <1>2

LEMMA BackGrows ==
    ASSUME NeverClosedLong, NEW a \in Int, NEW b \in Int, a <= b, NEW n \in Nat
    PROVE  BusinessDaysBefore(a, n) <= BusinessDaysBefore(b, n)
  <1> DEFINE f == Back(a, n)
             g == Back(b, n)
             Bad == {k \in 0..n : ~(f[k] <= g[k])}
  <1>1. /\ BusinessDaysBefore(a, n) = f[n] /\ f[0] = a
        /\ \A k \in 1..n : f[k] = PriorBusinessDay(f[k - 1])
        /\ \A k \in 0..n : f[k] \in Int
    BY BackIs
  <1>2. /\ BusinessDaysBefore(b, n) = g[n] /\ g[0] = b
        /\ \A k \in 1..n : g[k] = PriorBusinessDay(g[k - 1])
        /\ \A k \in 0..n : g[k] \in Int
    BY BackIs
  <1> HIDE DEF f, g
  <1>3. Bad = {}
    <2> SUFFICES ASSUME Bad # {} PROVE FALSE
      OBVIOUS
    <2>1. PICK k \in Bad : \A m \in Bad : k <= m
      <3>1. Bad \in SUBSET Nat
        OBVIOUS
      <3> HIDE DEF Bad
      <3> QED
        BY <3>1, FirstExists
    <2>2. k # 0
      BY <1>1, <1>2, <2>1
    <2>3. k \in 1..n /\ k - 1 \in 0..n /\ ~(k <= k - 1)
      BY <2>2
    <2>4. f[k - 1] <= g[k - 1]
      BY <2>1, <2>3
    <2>5. f[k] <= g[k]
      BY <1>1, <1>2, <2>3, <2>4, PriorGrows
    <2> QED
      BY <2>1, <2>5
  <1> QED
    BY <1>1, <1>2, <1>3

\* The last trade date is a business day before its anchor, and of a later
\* contract no earlier.
Anchored(c) == IF IsBusinessDay(c) THEN c ELSE PriorBusinessDay(c)

LEMMA LastTradeDateIs ==
    ASSUME NeverClosedLong, NEW c \in Int
    PROVE  LET l == LastTradeDate(c)
           IN  l \in Int /\ l <= c /\ IsBusinessDay(l)
  <1>1. Anchored(c) \in Int /\ Anchored(c) <= c /\ IsBusinessDay(Anchored(c))
    BY PriorIs DEF Anchored
  <1>2. LastTradeDate(c) = BusinessDaysBefore(Anchored(c), 3)
    BY DEF LastTradeDate, Anchored
  <1>3. /\ LastTradeDate(c) \in Int /\ LastTradeDate(c) <= Anchored(c)
        /\ IsBusinessDay(LastTradeDate(c))
    BY <1>1, <1>2, BackCounts
  <1> QED
    BY <1>1, <1>3

LEMMA LastTradeDateGrows ==
    ASSUME NeverClosedLong, NEW b \in Int, NEW c \in Int, b < c
    PROVE  LastTradeDate(b) <= LastTradeDate(c)
  <1>1. Anchored(b) \in Int /\ Anchored(c) \in Int /\ Anchored(b) <= Anchored(c)
    <2>1. CASE IsBusinessDay(c)
      <3>1. Anchored(c) = c /\ Anchored(b) \in Int /\ Anchored(b) <= b
        BY <2>1, PriorIs DEF Anchored
      <3> QED
        BY <3>1
    <2>2. CASE ~IsBusinessDay(c) /\ IsBusinessDay(b)
      <3>1. /\ Anchored(b) = b /\ Anchored(c) = PriorBusinessDay(c)
            /\ PriorBusinessDay(c) \in Int
            /\ \A q \in (PriorBusinessDay(c) + 1)..(c - 1) : ~IsBusinessDay(q)
        BY <2>2, PriorIs DEF Anchored
      <3> QED
        BY <2>2, <3>1
    <2>3. CASE ~IsBusinessDay(c) /\ ~IsBusinessDay(b)
      BY <2>3, PriorIs, PriorGrows DEF Anchored
    <2> QED
      BY <2>1, <2>2, <2>3
  <1> QED
    BY <1>1, BackGrows DEF LastTradeDate, Anchored

\* A window of n business days before a business day l, and the business days
\* that are left until l.
LEMMA WindowIsCount ==
    ASSUME NeverClosedLong, NEW l \in Int, IsBusinessDay(l), NEW n \in Nat, NEW t \in Int
    PROVE  t >= BusinessDaysBefore(l, n) <=> BusinessDaysUntil(t, l) <= n
  <1> DEFINE e == BusinessDaysBefore(l, n)
  <1>1. e \in Int /\ e <= l /\ IsBusinessDay(e) /\ Cardinality(Open(e, l)) = n
    BY BackCounts
  <1> HIDE DEF e
  <1>2. CASE l < t
    <2>1. BusinessDaysUntil(t, l) = -Cardinality(Open(l, t))
      BY <1>2 DEF BusinessDaysUntil, Open
    <2>2. Cardinality(Open(l, t)) \in Nat
      BY OpenIsFinite
    <2> QED
      BY <1>1, <1>2, <2>1, <2>2 DEF e
  <1>3. CASE ~(l < t)
    <2>1. BusinessDaysUntil(t, l) = Cardinality(Open(t, l))
      BY <1>3 DEF BusinessDaysUntil, Open
    <2>2. CASE t >= e
      <3>1. Open(t, l) \in SUBSET Open(e, l)
        BY <1>1, <2>2 DEF Open
      <3>2. Cardinality(Open(t, l)) <= Cardinality(Open(e, l))
        BY <1>1, <3>1, OpenIsFinite, FS_Subset
      <3> QED
        BY <1>1, <2>1, <2>2, <3>2 DEF e
    <2>3. CASE ~(t >= e)
      <3>1. e \notin Open(e, l) /\ Open(e, l) \cup {e} \in SUBSET Open(t, l)
        BY <1>1, <2>3 DEF Open
      <3>2. IsFiniteSet(Open(e, l)) /\ Cardinality(Open(e, l) \cup {e}) = n + 1
        BY <1>1, <3>1, OpenIsFinite, FS_AddElement
      <3>3. Cardinality(Open(e, l) \cup {e}) <= Cardinality(Open(t, l))
        BY <3>1, OpenIsFinite, FS_Subset
      <3>4. Cardinality(Open(t, l)) \in Nat
        BY OpenIsFinite
      <3> QED
        BY <2>1, <2>3, <3>2, <3>3, <3>4 DEF e
    <2> QED
      BY <2>2, <2>3
  <1> QED
    BY <1>2, <1>3

\* On every day, of every calendar, whatever is listed.
LEMMA RollOnDay ==
    ASSUME RollPremise, day \in Int
    PROVE  RollLeavesTime
  <1>1. Contracts \subseteq Int /\ NoNew \in Nat /\ MustFlat \in Nat /\ MustFlat <= NoNew
    BY DEF RollPremise, RollAssumption
  <1>2. \A c \in Contracts : /\ LastTradeDate(c) \in Int /\ LastTradeDate(c) <= c
                             /\ IsBusinessDay(LastTradeDate(c))
    BY <1>1, LastTradeDateIs DEF RollPremise
  <1>3. \A c \in Contracts, n \in {NoNew, MustFlat} :
            InWindow(c, n, day) <=> BusinessDaysUntil(day, LastTradeDate(c)) <= n
    BY <1>1, <1>2, WindowIsCount DEF InWindow, RollPremise
  <1>4. ASSUME HasSelection(day)
        PROVE  /\ BusinessDaysUntil(day, LastTradeDate(FrontContract(day))) > MustFlat
               /\ ~Expired(NextContract(day), LastTradeDate(FrontContract(day)))
    <2> DEFINE front == Min(Tradeable(day))
               later == {c \in Contracts : c > front}
    <2>1. /\ Tradeable(day) # {} /\ Tradeable(day) \in SUBSET Int
          /\ \A c \in Tradeable(day) : day <= c
      <3>1. \A c \in Tradeable(day) : c \in Contracts /\ ~(day > LastTradeDate(c))
        BY DEF Tradeable, CanOpenNewTrade, Expired
      <3>2. ASSUME NEW c \in Tradeable(day) PROVE c \in Int /\ day <= c
        <4>1. c \in Int /\ LastTradeDate(c) \in Int /\ LastTradeDate(c) <= c
          BY <1>1, <1>2, <3>1
        <4> QED
          BY <3>1, <4>1
      <3> QED
        BY <1>4, <3>2 DEF HasSelection
    <2>2. front \in Tradeable(day)
      BY <2>1, MinIs
    <2>3. later # {}
      BY <1>4 DEF HasSelection
    <2>4. FrontContract(day) = front /\ NextContract(day) = Min(later)
      BY DEF FrontContract, NextContract
    <2> HIDE DEF front
    <2>5. front \in Contracts /\ front \in Int /\ ~InWindow(front, NoNew, day)
      BY <1>1, <2>2 DEF Tradeable, CanOpenNewTrade
    <2>6. later \in SUBSET Int /\ \A c \in later : front <= c
      <3>1. \A c \in Contracts : c \in Int /\ (c > front => front <= c)
        BY <1>1, <2>5
      <3> QED
        BY <3>1
    <2>7. Min(later) \in later
      BY <2>3, <2>5, <2>6, MinIs
    <2> HIDE DEF later
    <2>8. Min(later) \in Int /\ front < Min(later)
      BY <2>5, <2>6, <2>7 DEF later
    <2>9. BusinessDaysUntil(day, LastTradeDate(front)) > MustFlat
      <3>1. ~(BusinessDaysUntil(day, LastTradeDate(front)) <= NoNew)
        BY <1>3, <2>5
      <3>2. BusinessDaysUntil(day, LastTradeDate(front)) \in Int
        <4>1. LastTradeDate(front) \in Int
          BY <1>2, <2>5
        <4>2. /\ Cardinality(Open(LastTradeDate(front), day)) \in Nat
              /\ Cardinality(Open(day, LastTradeDate(front))) \in Nat
          BY <4>1, OpenIsFinite
        <4>3. \/ BusinessDaysUntil(day, LastTradeDate(front))
                    = -Cardinality(Open(LastTradeDate(front), day))
              \/ BusinessDaysUntil(day, LastTradeDate(front))
                    = Cardinality(Open(day, LastTradeDate(front)))
          BY DEF BusinessDaysUntil, Open
        <4> QED
          BY <4>2, <4>3
      <3> QED
        BY <1>1, <3>1, <3>2
    <2>10. ~Expired(Min(later), LastTradeDate(front))
      <3>1. /\ LastTradeDate(front) \in Int
            /\ LastTradeDate(Min(later)) \in Int
            /\ LastTradeDate(front) <= LastTradeDate(Min(later))
        BY <2>5, <2>8, LastTradeDateIs, LastTradeDateGrows DEF RollPremise
      <3> QED
        BY <3>1 DEF Expired
    <2> QED
      BY <2>4, <2>9, <2>10
  <1> QED
    BY <1>3, <1>4 DEF RollLeavesTime, WindowsCountBusinessDays, FrontLeavesTime

DayInv == day \in Int

\* The validation functions run after the S4 drills and leave their state alone.
Validating == SplitDrill \/ StartWalk \/ NextRow \/ ScoreDrill \/ GateDrill \/ SignDrill
                \/ HotSwapDrill \/ GradeDrill \/ AuditDrill

LEMMA ValidationComesAfter ==
    ASSUME Validating
    PROVE  UNCHANGED <<day, history>> /\ drill' \notin {"roll", "fill", "queue", "hidden", "pnl"}
  <1>1. UNCHANGED <<day, history>>
    BY DEF Validating, SplitDrill, StartWalk, NextRow, ScoreDrill, GateDrill, SignDrill,
           HotSwapDrill, GradeDrill, AuditDrill, Keep
  <1>2. drill' \in {"split", "walk", "walked", "score", "skill", "sign", "report", "grade", "audit"}
    BY DEF Validating, SplitDrill, StartWalk, NextRow, ScoreDrill, GateDrill, SignDrill,
           HotSwapDrill, GradeDrill, AuditDrill, Move
  <1> QED
    BY <1>1, <1>2

\* The contract that is traded is far enough from its end, by either count: on
\* any calendar on which the exchange is never closed for more than two weeks,
\* for any listed contracts and buffers (contract_roll's windows and selection).
THEOREM TheRollLeavesTime ==
    ASSUME RollPremise
    PROVE  EvalSpec => []RollLeavesTime
  <1>1. DrillInit => DayInv
    BY DEF DayInv, DrillInit, RollPremise, RollAssumption
  <1>2. DayInv /\ [EvalNext]_(drill_vars) => DayInv'
    <2>1. DayInv /\ [DrillNext]_(drill_vars) => DayInv'
      BY DEF DayInv, DrillNext, drill_vars, NextDay, FillDrill, StartQueue, QueueEvent,
             HiddenDrill, StartPnl, NextTrade, Finish
    <2>2. DayInv /\ Validating => DayInv'
      BY ValidationComesAfter DEF DayInv
    <2> QED
      BY <2>1, <2>2 DEF EvalNext, Validating
  <1>3. DayInv => RollLeavesTime
    BY RollOnDay DEF DayInv
  <1> QED
    BY <1>1, <1>2, <1>3, PTL DEF EvalSpec

-----------------------------------------------------------------------------
(***************************************************************************)
(* Folds over a sequence.  The community modules fold by removing the last *)
(* index of a set of indices, so a fold is a choice among the functions on *)
(* sets of indices that obey that recursion.  One exists, and along the    *)
(* first k indices it is the running value after k elements.               *)
(***************************************************************************)

LEMMA MaxIs ==
    ASSUME NEW n \in Nat, NEW s \in SUBSET (1..n), s # {}
    PROVE  Max(s) \in s /\ \A x \in s : x <= Max(s)
  <1>1. s \in SUBSET Int /\ \A x \in s : x <= n
    BY \A x \in 1..n : x \in Int /\ x <= n
  <1>2. \E d \in s : \A x \in s : x <= d
    BY <1>1, LastOfDays, n \in Int
  <1>3. \E d \in s : \A x \in s : d >= x
    BY <1>1, <1>2
  <1> QED
    BY <1>1, <1>3 DEF Max

LEMMA MaxOfFirst ==
    ASSUME NEW k \in Nat, k # 0
    PROVE  Max(1..k) = k /\ (1..k) \ {k} = 1..(k - 1) /\ 1..k # {}
  <1>1. k \in 1..k
    OBVIOUS
  <1>2. Max(1..k) \in 1..k /\ k <= Max(1..k)
    BY <1>1, MaxIs
  <1> QED
    BY <1>1, <1>2

Folds(g, F, b, V, n) ==
    /\ g \in [SUBSET (1..n) -> V]
    /\ \A s \in SUBSET (1..n) :
          g[s] = IF s = {} THEN b ELSE F[<<Max(s), g[s \ {Max(s)}]>>]

LEMMA FoldExists ==
    ASSUME NEW n \in Nat, NEW V, NEW b \in V, NEW F \in [(1..n) \X V -> V]
    PROVE  \E g : Folds(g, F, b, V, n)
  <1> DEFINE Bad == {m \in 0..n : ~ \E g : Folds(g, F, b, V, m)}
  <1>1. Bad = {}
    <2> SUFFICES ASSUME Bad # {} PROVE FALSE
      OBVIOUS
    <2>1. PICK m \in Bad : \A l \in Bad : m <= l
      <3>1. Bad \in SUBSET Nat
        OBVIOUS
      <3> HIDE DEF Bad
      <3> QED
        BY <3>1, FirstExists
    <2>2. m # 0
      <3> DEFINE e == [s \in SUBSET (1..0) |-> b]
      <3>1. e \in [SUBSET (1..0) -> V]
        OBVIOUS
      <3>2. \A s \in SUBSET (1..0) : s = {}
        OBVIOUS
      <3>3. Folds(e, F, b, V, 0)
        BY <3>1, <3>2 DEF Folds
      <3> HIDE DEF e
      <3> QED
        BY <2>1, <3>1, <3>3
    <2>3. m \in 1..n /\ m - 1 \in 0..n /\ ~(m <= m - 1)
      BY <2>2
    <2>4. PICK g : Folds(g, F, b, V, m - 1)
      BY <2>1, <2>3
    <2> DEFINE less(s) == s \ {Max(s)}
               h == [s \in SUBSET (1..m) |-> IF s = {} THEN b ELSE F[<<Max(s), g[less(s)]>>]]
    <2>5. ASSUME NEW s \in SUBSET (1..m), s # {}
          PROVE  Max(s) \in 1..n /\ less(s) \in SUBSET (1..(m - 1))
      <3>1. Max(s) \in s /\ \A x \in s : x <= Max(s)
        BY <2>3, <2>5, MaxIs, m \in Nat
      <3>2. Max(s) \in 1..n
        <4>1. Max(s) \in 1..m
          BY <3>1
        <4> QED
          BY <2>3, <4>1
      <3>3. ASSUME NEW x \in less(s) PROVE x \in 1..(m - 1)
        <4>1. x \in 1..m /\ x <= Max(s) /\ x # Max(s) /\ Max(s) \in 1..m
          BY <3>1
        <4> QED
          BY <2>3, <4>1
      <3> QED
        BY <3>2, <3>3
    <2>6. h \in [SUBSET (1..m) -> V]
      <3> SUFFICES ASSUME NEW s \in SUBSET (1..m)
                   PROVE  (IF s = {} THEN b ELSE F[<<Max(s), g[less(s)]>>]) \in V
        OBVIOUS
      <3>1. CASE s # {}
        <4>1. g[less(s)] \in V /\ Max(s) \in 1..n
          BY <2>4, <2>5, <3>1 DEF Folds
        <4> HIDE DEF less
        <4> QED
          BY <3>1, <4>1
      <3> QED
        BY <3>1
    <2>7. \A s \in SUBSET (1..(m - 1)) : h[s] = g[s]
      <3> TAKE s \in SUBSET (1..(m - 1))
      <3>1. s \in SUBSET (1..m)
        BY <2>3
      <3> QED
        BY <2>4, <3>1 DEF Folds
    <2>8. Folds(h, F, b, V, m)
      <3> SUFFICES ASSUME NEW s \in SUBSET (1..m)
                   PROVE  h[s] = IF s = {} THEN b ELSE F[<<Max(s), h[less(s)]>>]
        BY <2>6 DEF Folds
      <3>1. s # {} => h[less(s)] = g[less(s)]
        BY <2>5, <2>7
      <3> QED
        BY <3>1
    <2> HIDE DEF h
    <2> QED
      BY <2>1, <2>8
  <1>2. n \in 0..n
    OBVIOUS
  <1> QED
    BY <1>1, <1>2

\* The running sums p of the terms t.
RunsTo(p, t, n) ==
    /\ p \in [0..n -> Int] /\ p[0] = 0
    /\ \A k \in 1..n : p[k] = p[k - 1] + t[k]

AddsTerms(g, t, n) ==
    \A s \in SUBSET (1..n) :
        /\ s # {} => Max(s) \in 1..n
        /\ g[s] \in Int
        /\ g[s] = IF s = {} THEN 0 ELSE g[s \ {Max(s)}] + t[Max(s)]

LEMMA SumFoldExists ==
    ASSUME NEW n \in Nat, NEW t, \A x \in 1..n : t[x] \in Int
    PROVE  \E g : g \in [SUBSET (1..n) -> Int] /\ AddsTerms(g, t, n)
  <1> DEFINE F == [p \in (1..n) \X Int |-> p[2] + t[p[1]]]
  <1>1. F \in [(1..n) \X Int -> Int]
    OBVIOUS
  <1>2. \A x \in 1..n, v \in Int : F[<<x, v>>] = v + t[x]
    OBVIOUS
  <1> HIDE DEF F
  <1>3. PICK g : Folds(g, F, 0, Int, n)
    BY <1>1, FoldExists, 0 \in Int
  <1>4. ASSUME NEW s \in SUBSET (1..n)
        PROVE  /\ s # {} => Max(s) \in 1..n
               /\ g[s] = IF s = {} THEN 0 ELSE g[s \ {Max(s)}] + t[Max(s)]
    <2>1. CASE s # {}
      <3>1. Max(s) \in 1..n /\ s \ {Max(s)} \in SUBSET (1..n)
        BY <2>1, MaxIs
      <3>2. g[s \ {Max(s)}] \in Int
        BY <1>3, <3>1 DEF Folds
      <3>3. g[s] = F[<<Max(s), g[s \ {Max(s)}]>>]
        BY <1>3, <2>1 DEF Folds
      <3> QED
        BY <1>2, <2>1, <3>1, <3>2, <3>3
    <2>2. CASE s = {}
      BY <1>3, <2>2 DEF Folds
    <2> QED
      BY <2>1, <2>2
  <1>5. g \in [SUBSET (1..n) -> Int]
    BY <1>3 DEF Folds
  <1> QED
    BY <1>4, <1>5 DEF AddsTerms

\* A fold that adds terms gives the running sum after the last of them.
AddsUp(h, t, n) ==
    /\ h[{}] = 0
    /\ \A s \in SUBSET (1..n) : s # {} /\ h[s \ {Max(s)}] \in Int
          => h[s] = h[s \ {Max(s)}] + t[Max(s)]

LEMMA SumFoldRuns ==
    ASSUME NEW n \in Nat, NEW t, \A x \in 1..n : t[x] \in Int, NEW h, AddsUp(h, t, n)
    PROVE  \E p : RunsTo(p, t, n) /\ h[1..n] = p[n]
  <1> DEFINE p == [k \in 0..n |-> h[1..k]]
             Bad == {k \in 0..n : ~(p[k] \in Int)}
  <1>1. p[0] = 0
    <2>1. 1..0 = {}
      OBVIOUS
    <2> QED
      BY <2>1 DEF AddsUp
  <1>2. ASSUME NEW k \in 1..n, p[k - 1] \in Int PROVE p[k] = p[k - 1] + t[k]
    <2>1. /\ k \in 0..n /\ k - 1 \in 0..n /\ 1..k \in SUBSET (1..n)
          /\ k \in Nat /\ k # 0
      OBVIOUS
    <2>2. Max(1..k) = k /\ (1..k) \ {k} = 1..(k - 1) /\ 1..k # {}
      BY <2>1, MaxOfFirst
    <2>3. p[k] = h[1..k] /\ p[k - 1] = h[1..(k - 1)]
      BY <2>1
    <2>4. h[1..(k - 1)] \in Int
      BY <1>2, <2>3
    <2> HIDE DEF p
    <2>5. h[1..k] = h[1..(k - 1)] + t[k]
      BY <2>1, <2>2, <2>4 DEF AddsUp
    <2> QED
      BY <2>3, <2>5
  <1> HIDE DEF p
  <1>3. Bad = {}
    <2> SUFFICES ASSUME Bad # {} PROVE FALSE
      OBVIOUS
    <2>1. PICK k \in Bad : \A m \in Bad : k <= m
      <3>1. Bad \in SUBSET Nat
        OBVIOUS
      <3> HIDE DEF Bad
      <3> QED
        BY <3>1, FirstExists
    <2>2. k # 0
      BY <1>1, <2>1
    <2>3. k \in 1..n /\ k - 1 \in 0..n /\ ~(k <= k - 1)
      BY <2>2
    <2>4. p[k - 1] \in Int
      BY <2>1, <2>3
    <2>5. p[k] = p[k - 1] + t[k] /\ t[k] \in Int
      BY <1>2, <2>3, <2>4
    <2> QED
      BY <2>1, <2>4, <2>5
  <1>4. \A k \in 1..n : k - 1 \in 0..n
    OBVIOUS
  <1>5. RunsTo(p, t, n)
    <2>1. p \in [0..n -> Int]
      BY <1>3 DEF p
    <2> QED
      BY <1>1, <1>2, <1>4, <2>1 DEF RunsTo
  <1>6. h[1..n] = p[n]
    BY n \in 0..n DEF p
  <1> QED
    BY <1>5, <1>6

\* Running sums depend on the terms so far alone.
LEMMA RunsAgree ==
    ASSUME NEW n \in Nat, NEW m \in Nat, NEW p, NEW q, NEW t, NEW u,
           RunsTo(p, t, n), RunsTo(q, u, m),
           NEW l \in Nat, l <= n, l <= m, \A x \in 1..l : t[x] = u[x]
    PROVE  p[l] = q[l]
  <1> DEFINE Bad == {k \in 0..l : p[k] # q[k]}
  <1>1. Bad = {}
    <2> SUFFICES ASSUME Bad # {} PROVE FALSE
      OBVIOUS
    <2>1. PICK k \in Bad : \A i \in Bad : k <= i
      <3>1. Bad \in SUBSET Nat
        OBVIOUS
      <3> HIDE DEF Bad
      <3> QED
        BY <3>1, FirstExists
    <2>2. k # 0
      BY <2>1 DEF RunsTo
    <2>3. k \in 1..l /\ k - 1 \in 0..l /\ ~(k <= k - 1) /\ k \in 1..n /\ k \in 1..m
      BY <2>2
    <2>4. p[k - 1] = q[k - 1]
      BY <2>1, <2>3
    <2>5. p[k] = p[k - 1] + t[k] /\ q[k] = q[k - 1] + u[k] /\ t[k] = u[k]
      BY <2>3 DEF RunsTo
    <2> QED
      BY <2>1, <2>4, <2>5
  <1> QED
    BY <1>1

\* The sum of the first n terms.
Total(t, n) == (CHOOSE p : RunsTo(p, t, n))[n]

LEMMA TotalIs ==
    ASSUME NEW n \in Nat, NEW t, NEW p, RunsTo(p, t, n)
    PROVE  Total(t, n) = p[n] /\ Total(t, n) \in Int
  <1> DEFINE q == CHOOSE x : RunsTo(x, t, n)
  <1>1. RunsTo(q, t, n)
    OBVIOUS
  <1> HIDE DEF q
  <1>2. q[n] = p[n]
    BY <1>1, RunsAgree
  <1>3. p[n] \in Int
    BY n \in 0..n DEF RunsTo
  <1> QED
    BY <1>2, <1>3 DEF Total, q

\* It grows by the next term.
LEMMA TotalGrows ==
    ASSUME NEW n \in Nat, NEW t, \A x \in 1..n : t[x] \in Int
    PROVE  /\ Total(t, n) \in Int
           /\ n = 0 => Total(t, n) = 0
           /\ \A m \in 0..n : \A u : (\A x \in 1..m : u[x] = t[x]) =>
                 /\ Total(u, m) \in Int
                 /\ m < n => Total(t, m + 1) = Total(u, m) + t[m + 1]
  <1>1. ASSUME NEW m \in 0..n, NEW u, \A x \in 1..m : u[x] = t[x]
        PROVE  \E p : RunsTo(p, u, m)
    <2>1. \A x \in 1..m : u[x] \in Int
      BY <1>1
    <2>2. PICK g : g \in [SUBSET (1..m) -> Int] /\ AddsTerms(g, u, m)
      BY <2>1, SumFoldExists, m \in Nat
    <2>3. AddsUp(g, u, m)
      BY <2>2 DEF AddsUp, AddsTerms
    <2> QED
      BY <2>1, <2>3, SumFoldRuns, m \in Nat
  <1>2. PICK p : RunsTo(p, t, n)
    BY <1>1, n \in 0..n
  <1>3. Total(t, n) \in Int /\ (n = 0 => Total(t, n) = 0)
    <2>1. Total(t, n) = p[n] /\ Total(t, n) \in Int
      BY <1>2, TotalIs
    <2> QED
      BY <1>2, <2>1 DEF RunsTo
  <1>4. ASSUME NEW m \in 0..n, NEW u, \A x \in 1..m : u[x] = t[x]
        PROVE  /\ Total(u, m) \in Int
               /\ m < n => Total(t, m + 1) = Total(u, m) + t[m + 1]
    <2>1. PICK q : RunsTo(q, u, m)
      BY <1>1, <1>4
    <2>2. m \in Nat
      OBVIOUS
    <2>3. Total(u, m) = q[m] /\ Total(u, m) \in Int
      BY <2>1, <2>2, TotalIs
    <2>4. CASE m < n
      <3>1. m + 1 \in 0..n /\ m + 1 \in Nat /\ m <= m + 1 /\ m <= m /\ m + 1 \in 1..(m + 1)
            /\ (m + 1) - 1 = m
        BY <2>4
      <3>2. PICK r : RunsTo(r, t, m + 1)
        BY <1>1, <3>1
      <3>3. Total(t, m + 1) = r[m + 1]
        BY <3>1, <3>2, TotalIs
      <3>4. r[m] = q[m]
        BY <1>4, <2>1, <2>2, <3>1, <3>2, RunsAgree
      <3>5. r[m + 1] = r[m] + t[m + 1]
        BY <3>1, <3>2 DEF RunsTo
      <3> QED
        BY <2>3, <3>3, <3>4, <3>5
    <2> QED
      BY <2>3, <2>4
  <1> QED
    BY <1>3, <1>4

-----------------------------------------------------------------------------
(***************************************************************************)
(* The sums of the drills are such totals.                                 *)
(***************************************************************************)

LEMMA AddsUpToTotal ==
    ASSUME NEW n \in Nat, NEW t, \A x \in 1..n : t[x] \in Int, NEW h, AddsUp(h, t, n)
    PROVE  h[1..n] = Total(t, n)
  <1>1. PICK p : RunsTo(p, t, n) /\ h[1..n] = p[n]
    BY SumFoldRuns
  <1> QED
    BY <1>1, TotalIs

\* Sequences of these are what the drills sum over.
SliceRow == [level : Nat, price : Int, quantity : Int]
InQueueRow == [kind : {"trade", "cancel", "add"}, quantity : Int]
TradeRow == [side : {"buy", "sell"}, quantity : Int, entry : Int, exit : Int, fees : Int]

QuantityTerms(l) == [x \in 1..Len(l) |-> l[x].quantity]
TakenTerms(l, i) == [x \in 1..Len(l) |-> IF l[x].level = i THEN l[x].quantity ELSE 0]
TradedTerms(l) == [x \in 1..Len(l) |->
                     IF l[x].kind = "trade" /\ l[x].quantity > 0 THEN l[x].quantity ELSE 0]
PnlTerms(l) == [x \in 1..Len(l) |-> NetPnl(l[x])]

\* The folds of FillIsExhaustive, QueueIsRespected and DrawdownIsLargestFall.
FilledIn(l) == FoldLeft(LAMBDA q, s : q + s.quantity, 0, l)
TakenIn(l, i) == FoldLeft(LAMBDA q, s : IF s.level = i THEN q + s.quantity ELSE q, 0, l)
TradedIn(l) == FoldLeft(LAMBDA q, e : IF e.kind = "trade" /\ e.quantity > 0
                                         THEN q + e.quantity ELSE q, 0, l)
EquityIn(l) == FoldLeft(LAMBDA q, t : q + NetPnl(t), 0, l)

LEMMA FilledIsTotal ==
    ASSUME NEW u \in Seq(SliceRow)
    PROVE  FilledIn(u) = Total(QuantityTerms(u), Len(u))
  <1> DEFINE l == u
             n == Len(u)
             t == QuantityTerms(u)
             Rec(h) == h = [s \in SUBSET DOMAIN l |->
                              IF s = {} THEN 0 ELSE h[s \ {Max(s)}] + l[Max(s)].quantity]
             fold == CHOOSE h : Rec(h)
  <1>1. FilledIn(u) = fold[DOMAIN l]
    BY DEF FilledIn, FoldLeft, MapThenFoldSet
  <1>2. \A x \in 1..n : t[x] = l[x].quantity /\ t[x] \in Int
    <2>1. \A x \in 1..n : l[x] \in SliceRow
      BY ElementOfSeq
    <2>2. \A e \in SliceRow : e.quantity \in Int
      BY DEF SliceRow
    <2> HIDE DEF l
    <2> QED
      BY <2>1, <2>2 DEF QuantityTerms, l
  <1>3. n \in Nat /\ DOMAIN l = 1..n
    OBVIOUS
  <1> HIDE DEF l, n, t
  <1>4. PICK g : g \in [SUBSET (1..n) -> Int] /\ AddsTerms(g, t, n)
    BY <1>2, <1>3, SumFoldExists
  <1>5. Rec(g)
    <2>1. ASSUME NEW s \in SUBSET (1..n)
          PROVE  g[s] = IF s = {} THEN 0 ELSE g[s \ {Max(s)}] + l[Max(s)].quantity
      <3>1. s \ {Max(s)} \in SUBSET (1..n)
        OBVIOUS
      <3>2. g[s \ {Max(s)}] \in Int
        BY <1>4, <3>1
      <3>3. /\ s # {} => Max(s) \in 1..n
            /\ g[s] = IF s = {} THEN 0 ELSE g[s \ {Max(s)}] + t[Max(s)]
        BY <1>4 DEF AddsTerms
      <3> QED
        BY <1>2, <3>2, <3>3
    <2>2. DOMAIN g = SUBSET (1..n) /\ g = [s \in SUBSET (1..n) |-> g[s]]
      BY <1>4
    <2> QED
      BY <1>3, <2>1, <2>2
  <1>6. Rec(fold)
    BY <1>5
  <1> HIDE DEF fold
  <1>7. AddsUp(fold, t, n)
    <2>1. \A s \in SUBSET (1..n) :
             fold[s] = IF s = {} THEN 0 ELSE fold[s \ {Max(s)}] + l[Max(s)].quantity
      BY <1>3, <1>6
    <2>2. \A s \in SUBSET (1..n) : s # {} => Max(s) \in 1..n
      BY <1>4 DEF AddsTerms
    <2>3. fold[{}] = 0
      BY <2>1
    <2> HIDE DEF Rec
    <2>4. ASSUME NEW s \in SUBSET (1..n), s # {}, fold[s \ {Max(s)}] \in Int
          PROVE  fold[s] = fold[s \ {Max(s)}] + t[Max(s)]
      <3>1. t[Max(s)] = l[Max(s)].quantity
        BY <1>2, <2>2, <2>4
      <3>2. fold[s] = fold[s \ {Max(s)}] + l[Max(s)].quantity
        BY <2>1, <2>4
      <3> QED
        BY <2>4, <3>1, <3>2
    <2> QED
      BY <2>3, <2>4 DEF AddsUp
  <1>8. fold[1..n] = Total(t, n)
    BY <1>2, <1>3, <1>7, AddsUpToTotal
  <1> QED
    BY <1>1, <1>3, <1>8 DEF l, n, t

LEMMA TakenIsTotal ==
    ASSUME NEW u \in Seq(SliceRow), NEW i
    PROVE  TakenIn(u, i) = Total(TakenTerms(u, i), Len(u))
  <1> DEFINE l == u
             n == Len(u)
             t == TakenTerms(u, i)
             Rec(h) == h = [s \in SUBSET DOMAIN l |->
                              IF s = {} THEN 0 ELSE IF l[Max(s)].level = i THEN h[s \ {Max(s)}] + l[Max(s)].quantity ELSE h[s \ {Max(s)}]]
             fold == CHOOSE h : Rec(h)
  <1>1. TakenIn(u, i) = fold[DOMAIN l]
    BY DEF TakenIn, FoldLeft, MapThenFoldSet
  <1>2. \A x \in 1..n : t[x] = (IF l[x].level = i THEN l[x].quantity ELSE 0) /\ t[x] \in Int
    <2>1. \A x \in 1..n : l[x] \in SliceRow
      BY ElementOfSeq
    <2>2. \A e \in SliceRow : e.quantity \in Int
      BY DEF SliceRow
    <2> HIDE DEF l
    <2> QED
      BY <2>1, <2>2 DEF TakenTerms, l
  <1>3. n \in Nat /\ DOMAIN l = 1..n
    OBVIOUS
  <1> HIDE DEF l, n, t
  <1>4. PICK g : g \in [SUBSET (1..n) -> Int] /\ AddsTerms(g, t, n)
    BY <1>2, <1>3, SumFoldExists
  <1>5. Rec(g)
    <2>1. ASSUME NEW s \in SUBSET (1..n)
          PROVE  g[s] = IF s = {} THEN 0 ELSE IF l[Max(s)].level = i THEN g[s \ {Max(s)}] + l[Max(s)].quantity ELSE g[s \ {Max(s)}]
      <3>1. s \ {Max(s)} \in SUBSET (1..n)
        OBVIOUS
      <3>2. g[s \ {Max(s)}] \in Int
        BY <1>4, <3>1
      <3>3. /\ s # {} => Max(s) \in 1..n
            /\ g[s] = IF s = {} THEN 0 ELSE g[s \ {Max(s)}] + t[Max(s)]
        BY <1>4 DEF AddsTerms
      <3> QED
        BY <1>2, <3>2, <3>3
    <2>2. DOMAIN g = SUBSET (1..n) /\ g = [s \in SUBSET (1..n) |-> g[s]]
      BY <1>4
    <2> QED
      BY <1>3, <2>1, <2>2
  <1>6. Rec(fold)
    BY <1>5
  <1> HIDE DEF fold
  <1>7. AddsUp(fold, t, n)
    <2>1. \A s \in SUBSET (1..n) :
             fold[s] = IF s = {} THEN 0 ELSE IF l[Max(s)].level = i THEN fold[s \ {Max(s)}] + l[Max(s)].quantity ELSE fold[s \ {Max(s)}]
      BY <1>3, <1>6
    <2>2. \A s \in SUBSET (1..n) : s # {} => Max(s) \in 1..n
      BY <1>4 DEF AddsTerms
    <2>3. fold[{}] = 0
      BY <2>1
    <2> HIDE DEF Rec
    <2>4. ASSUME NEW s \in SUBSET (1..n), s # {}, fold[s \ {Max(s)}] \in Int
          PROVE  fold[s] = fold[s \ {Max(s)}] + t[Max(s)]
      <3>1. t[Max(s)] = (IF l[Max(s)].level = i THEN l[Max(s)].quantity ELSE 0)
        BY <1>2, <2>2, <2>4
      <3>2. fold[s] = IF l[Max(s)].level = i THEN fold[s \ {Max(s)}] + l[Max(s)].quantity ELSE fold[s \ {Max(s)}]
        BY <2>1, <2>4
      <3> QED
        BY <2>4, <3>1, <3>2
    <2> QED
      BY <2>3, <2>4 DEF AddsUp
  <1>8. fold[1..n] = Total(t, n)
    BY <1>2, <1>3, <1>7, AddsUpToTotal
  <1> QED
    BY <1>1, <1>3, <1>8 DEF l, n, t

LEMMA TradedIsTotal ==
    ASSUME NEW u \in Seq(InQueueRow)
    PROVE  TradedIn(u) = Total(TradedTerms(u), Len(u))
  <1> DEFINE l == u
             n == Len(u)
             t == TradedTerms(u)
             Rec(h) == h = [s \in SUBSET DOMAIN l |->
                              IF s = {} THEN 0 ELSE IF l[Max(s)].kind = "trade" /\ l[Max(s)].quantity > 0
                              THEN h[s \ {Max(s)}] + l[Max(s)].quantity ELSE h[s \ {Max(s)}]]
             fold == CHOOSE h : Rec(h)
  <1>1. TradedIn(u) = fold[DOMAIN l]
    BY DEF TradedIn, FoldLeft, MapThenFoldSet
  <1>2. \A x \in 1..n : t[x] = (IF l[x].kind = "trade" /\ l[x].quantity > 0
                              THEN l[x].quantity ELSE 0) /\ t[x] \in Int
    <2>1. \A x \in 1..n : l[x] \in InQueueRow
      BY ElementOfSeq
    <2>2. \A e \in InQueueRow : e.quantity \in Int
      BY DEF InQueueRow
    <2> HIDE DEF l
    <2> QED
      BY <2>1, <2>2 DEF TradedTerms, l
  <1>3. n \in Nat /\ DOMAIN l = 1..n
    OBVIOUS
  <1> HIDE DEF l, n, t
  <1>4. PICK g : g \in [SUBSET (1..n) -> Int] /\ AddsTerms(g, t, n)
    BY <1>2, <1>3, SumFoldExists
  <1>5. Rec(g)
    <2>1. ASSUME NEW s \in SUBSET (1..n)
          PROVE  g[s] = IF s = {} THEN 0 ELSE IF l[Max(s)].kind = "trade" /\ l[Max(s)].quantity > 0
                              THEN g[s \ {Max(s)}] + l[Max(s)].quantity ELSE g[s \ {Max(s)}]
      <3>1. s \ {Max(s)} \in SUBSET (1..n)
        OBVIOUS
      <3>2. g[s \ {Max(s)}] \in Int
        BY <1>4, <3>1
      <3>3. /\ s # {} => Max(s) \in 1..n
            /\ g[s] = IF s = {} THEN 0 ELSE g[s \ {Max(s)}] + t[Max(s)]
        BY <1>4 DEF AddsTerms
      <3> QED
        BY <1>2, <3>2, <3>3
    <2>2. DOMAIN g = SUBSET (1..n) /\ g = [s \in SUBSET (1..n) |-> g[s]]
      BY <1>4
    <2> QED
      BY <1>3, <2>1, <2>2
  <1>6. Rec(fold)
    BY <1>5
  <1> HIDE DEF fold
  <1>7. AddsUp(fold, t, n)
    <2>1. \A s \in SUBSET (1..n) :
             fold[s] = IF s = {} THEN 0 ELSE IF l[Max(s)].kind = "trade" /\ l[Max(s)].quantity > 0
                              THEN fold[s \ {Max(s)}] + l[Max(s)].quantity ELSE fold[s \ {Max(s)}]
      BY <1>3, <1>6
    <2>2. \A s \in SUBSET (1..n) : s # {} => Max(s) \in 1..n
      BY <1>4 DEF AddsTerms
    <2>3. fold[{}] = 0
      BY <2>1
    <2> HIDE DEF Rec
    <2>4. ASSUME NEW s \in SUBSET (1..n), s # {}, fold[s \ {Max(s)}] \in Int
          PROVE  fold[s] = fold[s \ {Max(s)}] + t[Max(s)]
      <3>1. t[Max(s)] = (IF l[Max(s)].kind = "trade" /\ l[Max(s)].quantity > 0
                              THEN l[Max(s)].quantity ELSE 0)
        BY <1>2, <2>2, <2>4
      <3>2. fold[s] = IF l[Max(s)].kind = "trade" /\ l[Max(s)].quantity > 0
                              THEN fold[s \ {Max(s)}] + l[Max(s)].quantity ELSE fold[s \ {Max(s)}]
        BY <2>1, <2>4
      <3> QED
        BY <2>4, <3>1, <3>2
    <2> QED
      BY <2>3, <2>4 DEF AddsUp
  <1>8. fold[1..n] = Total(t, n)
    BY <1>2, <1>3, <1>7, AddsUpToTotal
  <1> QED
    BY <1>1, <1>3, <1>8 DEF l, n, t

\* What a trade earns is a whole number.
LEMMA PnlWhole ==
    ASSUME NEW t \in TradeRow
    PROVE  NetPnl(t) \in Int
  <1>1. t.quantity \in Int /\ t.entry \in Int /\ t.exit \in Int /\ t.fees \in Int
    BY DEF TradeRow
  <1>2. \A a, b \in Int : a * b \in Int
    OBVIOUS
  <1>3. (IF t.side = "buy" THEN t.exit - t.entry ELSE t.entry - t.exit) \in Int
    BY <1>1
  <1>4. (IF t.side = "buy" THEN t.exit - t.entry ELSE t.entry - t.exit) * t.quantity \in Int
    BY <1>1, <1>2, <1>3
  <1> QED
    BY <1>1, <1>4 DEF NetPnl

LEMMA EquityIsTotal ==
    ASSUME NEW u \in Seq(TradeRow)
    PROVE  EquityIn(u) = Total(PnlTerms(u), Len(u))
  <1> DEFINE l == u
             n == Len(u)
             t == PnlTerms(u)
             Rec(h) == h = [s \in SUBSET DOMAIN l |->
                              IF s = {} THEN 0 ELSE h[s \ {Max(s)}] + NetPnl(l[Max(s)])]
             fold == CHOOSE h : Rec(h)
  <1>1. EquityIn(u) = fold[DOMAIN l]
    BY DEF EquityIn, FoldLeft, MapThenFoldSet
  <1>2. \A x \in 1..n : t[x] = NetPnl(l[x]) /\ t[x] \in Int
    <2>1. \A x \in 1..n : l[x] \in TradeRow
      BY ElementOfSeq
    <2>2. \A e \in TradeRow : NetPnl(e) \in Int
      BY PnlWhole DEF TradeRow
    <2> HIDE DEF l
    <2> QED
      BY <2>1, <2>2 DEF PnlTerms, l
  <1>3. n \in Nat /\ DOMAIN l = 1..n
    OBVIOUS
  <1> HIDE DEF l, n, t
  <1>4. PICK g : g \in [SUBSET (1..n) -> Int] /\ AddsTerms(g, t, n)
    BY <1>2, <1>3, SumFoldExists
  <1>5. Rec(g)
    <2>1. ASSUME NEW s \in SUBSET (1..n)
          PROVE  g[s] = IF s = {} THEN 0 ELSE g[s \ {Max(s)}] + NetPnl(l[Max(s)])
      <3>1. s \ {Max(s)} \in SUBSET (1..n)
        OBVIOUS
      <3>2. g[s \ {Max(s)}] \in Int
        BY <1>4, <3>1
      <3>3. /\ s # {} => Max(s) \in 1..n
            /\ g[s] = IF s = {} THEN 0 ELSE g[s \ {Max(s)}] + t[Max(s)]
        BY <1>4 DEF AddsTerms
      <3> QED
        BY <1>2, <3>2, <3>3
    <2>2. DOMAIN g = SUBSET (1..n) /\ g = [s \in SUBSET (1..n) |-> g[s]]
      BY <1>4
    <2> QED
      BY <1>3, <2>1, <2>2
  <1>6. Rec(fold)
    BY <1>5
  <1> HIDE DEF fold
  <1>7. AddsUp(fold, t, n)
    <2>1. \A s \in SUBSET (1..n) :
             fold[s] = IF s = {} THEN 0 ELSE fold[s \ {Max(s)}] + NetPnl(l[Max(s)])
      BY <1>3, <1>6
    <2>2. \A s \in SUBSET (1..n) : s # {} => Max(s) \in 1..n
      BY <1>4 DEF AddsTerms
    <2>3. fold[{}] = 0
      BY <2>1
    <2> HIDE DEF Rec
    <2>4. ASSUME NEW s \in SUBSET (1..n), s # {}, fold[s \ {Max(s)}] \in Int
          PROVE  fold[s] = fold[s \ {Max(s)}] + t[Max(s)]
      <3>1. t[Max(s)] = NetPnl(l[Max(s)])
        BY <1>2, <2>2, <2>4
      <3>2. fold[s] = fold[s \ {Max(s)}] + NetPnl(l[Max(s)])
        BY <2>1, <2>4
      <3> QED
        BY <2>4, <3>1, <3>2
    <2> QED
      BY <2>3, <2>4 DEF AddsUp
  <1>8. fold[1..n] = Total(t, n)
    BY <1>2, <1>3, <1>7, AddsUpToTotal
  <1> QED
    BY <1>1, <1>3, <1>8 DEF l, n, t

\* Each grows by the term of the element that is appended.
LEMMA FilledGrows ==
    ASSUME NEW u \in Seq(SliceRow), NEW e \in SliceRow
    PROVE  /\ FilledIn(u) \in Int /\ FilledIn(<<>>) = 0
           /\ FilledIn(Append(u, e)) = FilledIn(u) + e.quantity
  <1> DEFINE v == Append(u, e)
             n == Len(u)
  <1>1. /\ n \in Nat /\ v \in Seq(SliceRow) /\ Len(v) = n + 1 /\ v[n + 1] = e
        /\ \A x \in 1..n : v[x] = u[x] /\ x \in 1..(n + 1)
    OBVIOUS
  <1> HIDE DEF v
  <1>2. \A w \in Seq(SliceRow) : \A x : x \in 1..Len(w) => QuantityTerms(w)[x] \in Int
    <2> TAKE w \in Seq(SliceRow)
    <2> TAKE x
    <2>1. x \in 1..Len(w) => w[x] \in SliceRow
      BY ElementOfSeq
    <2> QED
      BY <2>1 DEF QuantityTerms, SliceRow
  <1>3. QuantityTerms(v)[n + 1] = e.quantity
    BY <1>1, n + 1 \in 1..(n + 1) DEF QuantityTerms
  <1>4. \A x \in 1..n : QuantityTerms(u)[x] = QuantityTerms(v)[x]
    BY <1>1 DEF QuantityTerms
  <1>5. FilledIn(u) = Total(QuantityTerms(u), n) /\ FilledIn(v) = Total(QuantityTerms(v), n + 1)
    BY <1>1, FilledIsTotal
  <1>6. FilledIn(<<>>) = Total(QuantityTerms(<<>>), 0)
    BY FilledIsTotal, <<>> \in Seq(SliceRow), Len(<<>>) = 0
  <1>7. Total(QuantityTerms(<<>>), 0) = 0
    BY TotalGrows, \A x \in 1..0 : QuantityTerms(<<>>)[x] \in Int
  <1>8. /\ Total(QuantityTerms(u), n) \in Int
        /\ Total(QuantityTerms(v), n + 1) = Total(QuantityTerms(u), n) + QuantityTerms(v)[n + 1]
    <2>1. \A x \in 1..(n + 1) : QuantityTerms(v)[x] \in Int
      BY <1>1, <1>2
    <2>2. n + 1 \in Nat /\ n \in 0..(n + 1) /\ n < n + 1
      BY <1>1
    <2> HIDE DEF n
    <2> QED
      BY <1>4, <2>1, <2>2, TotalGrows
  <1> QED
    BY <1>3, <1>5, <1>6, <1>7, <1>8 DEF v

LEMMA TakenGrows ==
    ASSUME NEW u \in Seq(SliceRow), NEW e \in SliceRow, NEW i
    PROVE  /\ TakenIn(u, i) \in Int /\ TakenIn(<<>>, i) = 0
           /\ TakenIn(Append(u, e), i) = TakenIn(u, i) + (IF e.level = i THEN e.quantity ELSE 0)
  <1> DEFINE v == Append(u, e)
             n == Len(u)
  <1>1. /\ n \in Nat /\ v \in Seq(SliceRow) /\ Len(v) = n + 1 /\ v[n + 1] = e
        /\ \A x \in 1..n : v[x] = u[x] /\ x \in 1..(n + 1)
    OBVIOUS
  <1> HIDE DEF v
  <1>2. \A w \in Seq(SliceRow) : \A x : x \in 1..Len(w) => TakenTerms(w, i)[x] \in Int
    <2> TAKE w \in Seq(SliceRow)
    <2> TAKE x
    <2>1. x \in 1..Len(w) => w[x] \in SliceRow
      BY ElementOfSeq
    <2> QED
      BY <2>1 DEF TakenTerms, SliceRow
  <1>3. TakenTerms(v, i)[n + 1] = (IF e.level = i THEN e.quantity ELSE 0)
    BY <1>1, n + 1 \in 1..(n + 1) DEF TakenTerms
  <1>4. \A x \in 1..n : TakenTerms(u, i)[x] = TakenTerms(v, i)[x]
    BY <1>1 DEF TakenTerms
  <1>5. TakenIn(u, i) = Total(TakenTerms(u, i), n) /\ TakenIn(v, i) = Total(TakenTerms(v, i), n + 1)
    BY <1>1, TakenIsTotal
  <1>6. TakenIn(<<>>, i) = Total(TakenTerms(<<>>, i), 0)
    BY TakenIsTotal, <<>> \in Seq(SliceRow), Len(<<>>) = 0
  <1>7. Total(TakenTerms(<<>>, i), 0) = 0
    BY TotalGrows, \A x \in 1..0 : TakenTerms(<<>>, i)[x] \in Int
  <1>8. /\ Total(TakenTerms(u, i), n) \in Int
        /\ Total(TakenTerms(v, i), n + 1) = Total(TakenTerms(u, i), n) + TakenTerms(v, i)[n + 1]
    <2>1. \A x \in 1..(n + 1) : TakenTerms(v, i)[x] \in Int
      BY <1>1, <1>2
    <2>2. n + 1 \in Nat /\ n \in 0..(n + 1) /\ n < n + 1
      BY <1>1
    <2> HIDE DEF n
    <2> QED
      BY <1>4, <2>1, <2>2, TotalGrows
  <1> QED
    BY <1>3, <1>5, <1>6, <1>7, <1>8 DEF v

LEMMA TradedGrows ==
    ASSUME NEW u \in Seq(InQueueRow), NEW e \in InQueueRow
    PROVE  /\ TradedIn(u) \in Int /\ TradedIn(<<>>) = 0
           /\ TradedIn(Append(u, e)) = TradedIn(u) + (IF e.kind = "trade" /\ e.quantity > 0 THEN e.quantity ELSE 0)
  <1> DEFINE v == Append(u, e)
             n == Len(u)
  <1>1. /\ n \in Nat /\ v \in Seq(InQueueRow) /\ Len(v) = n + 1 /\ v[n + 1] = e
        /\ \A x \in 1..n : v[x] = u[x] /\ x \in 1..(n + 1)
    OBVIOUS
  <1> HIDE DEF v
  <1>2. \A w \in Seq(InQueueRow) : \A x : x \in 1..Len(w) => TradedTerms(w)[x] \in Int
    <2> TAKE w \in Seq(InQueueRow)
    <2> TAKE x
    <2>1. x \in 1..Len(w) => w[x] \in InQueueRow
      BY ElementOfSeq
    <2> QED
      BY <2>1 DEF TradedTerms, InQueueRow
  <1>3. TradedTerms(v)[n + 1] = (IF e.kind = "trade" /\ e.quantity > 0 THEN e.quantity ELSE 0)
    BY <1>1, n + 1 \in 1..(n + 1) DEF TradedTerms
  <1>4. \A x \in 1..n : TradedTerms(u)[x] = TradedTerms(v)[x]
    BY <1>1 DEF TradedTerms
  <1>5. TradedIn(u) = Total(TradedTerms(u), n) /\ TradedIn(v) = Total(TradedTerms(v), n + 1)
    BY <1>1, TradedIsTotal
  <1>6. TradedIn(<<>>) = Total(TradedTerms(<<>>), 0)
    BY TradedIsTotal, <<>> \in Seq(InQueueRow), Len(<<>>) = 0
  <1>7. Total(TradedTerms(<<>>), 0) = 0
    BY TotalGrows, \A x \in 1..0 : TradedTerms(<<>>)[x] \in Int
  <1>8. /\ Total(TradedTerms(u), n) \in Int
        /\ Total(TradedTerms(v), n + 1) = Total(TradedTerms(u), n) + TradedTerms(v)[n + 1]
    <2>1. \A x \in 1..(n + 1) : TradedTerms(v)[x] \in Int
      BY <1>1, <1>2
    <2>2. n + 1 \in Nat /\ n \in 0..(n + 1) /\ n < n + 1
      BY <1>1
    <2> HIDE DEF n
    <2> QED
      BY <1>4, <2>1, <2>2, TotalGrows
  <1> QED
    BY <1>3, <1>5, <1>6, <1>7, <1>8 DEF v

LEMMA EquityGrows ==
    ASSUME NEW u \in Seq(TradeRow), NEW e \in TradeRow
    PROVE  /\ EquityIn(u) \in Int /\ EquityIn(<<>>) = 0
           /\ EquityIn(Append(u, e)) = EquityIn(u) + NetPnl(e)
  <1> DEFINE v == Append(u, e)
             n == Len(u)
  <1>1. /\ n \in Nat /\ v \in Seq(TradeRow) /\ Len(v) = n + 1 /\ v[n + 1] = e
        /\ \A x \in 1..n : v[x] = u[x] /\ x \in 1..(n + 1)
    OBVIOUS
  <1> HIDE DEF v
  <1>2. \A w \in Seq(TradeRow) : \A x : x \in 1..Len(w) => PnlTerms(w)[x] \in Int
    <2> TAKE w \in Seq(TradeRow)
    <2> TAKE x
    <2>1. x \in 1..Len(w) => w[x] \in TradeRow
      BY ElementOfSeq
    <2> QED
      BY <2>1, PnlWhole DEF PnlTerms, TradeRow
  <1>3. PnlTerms(v)[n + 1] = NetPnl(e)
    BY <1>1, n + 1 \in 1..(n + 1) DEF PnlTerms
  <1>4. \A x \in 1..n : PnlTerms(u)[x] = PnlTerms(v)[x]
    BY <1>1 DEF PnlTerms
  <1>5. EquityIn(u) = Total(PnlTerms(u), n) /\ EquityIn(v) = Total(PnlTerms(v), n + 1)
    BY <1>1, EquityIsTotal
  <1>6. EquityIn(<<>>) = Total(PnlTerms(<<>>), 0)
    BY EquityIsTotal, <<>> \in Seq(TradeRow), Len(<<>>) = 0
  <1>7. Total(PnlTerms(<<>>), 0) = 0
    BY TotalGrows, \A x \in 1..0 : PnlTerms(<<>>)[x] \in Int
  <1>8. /\ Total(PnlTerms(u), n) \in Int
        /\ Total(PnlTerms(v), n + 1) = Total(PnlTerms(u), n) + PnlTerms(v)[n + 1]
    <2>1. \A x \in 1..(n + 1) : PnlTerms(v)[x] \in Int
      BY <1>1, <1>2
    <2>2. n + 1 \in Nat /\ n \in 0..(n + 1) /\ n < n + 1
      BY <1>1
    <2> HIDE DEF n
    <2> QED
      BY <1>4, <2>1, <2>2, TotalGrows
  <1> QED
    BY <1>3, <1>5, <1>6, <1>7, <1>8 DEF v

-----------------------------------------------------------------------------
(***************************************************************************)
(* A resting order, hidden size, and a run of trades.                      *)
(***************************************************************************)

\* What the queue drill has computed of an order <<quantity, ahead>> and the
\* events of h.
QueueOK(q, o, h) ==
    /\ q \in [ahead : Nat, remaining : Nat, byTrades : Nat, byCancels : Nat, filled : Nat,
              errors : BOOLEAN]
    /\ q.byTrades + q.byCancels + q.ahead = Max0(o[2])
    /\ q.filled + q.remaining = Max0(o[1])
    /\ q.filled > 0 => q.ahead = 0
    /\ q.filled + q.byTrades <= TradedIn(h)
    /\ q.remaining > 0 => q.filled + q.byTrades = TradedIn(h)

LEMMA QueueStarted ==
    ASSUME NEW o \in Int \X Int
    PROVE  QueueOK(NewQueue(o[1], o[2]), o, <<>>)
  <1>1. o[1] \in Int /\ o[2] \in Int
    OBVIOUS
  <1>2. Max0(o[1]) \in Nat /\ Max0(o[2]) \in Nat
    BY <1>1 DEF Max0
  <1>3. TradedIn(<<>>) = 0
    <2>1. <<>> \in Seq(InQueueRow) /\ [kind |-> "trade", quantity |-> 0] \in InQueueRow
      BY DEF InQueueRow
    <2> QED
      BY <2>1, TradedGrows
  <1> HIDE DEF TradedIn
  <1> QED
    BY <1>1, <1>2, <1>3 DEF QueueOK, NewQueue

LEMMA QueueMoves ==
    ASSUME NEW h \in Seq(InQueueRow), NEW e \in InQueueRow, NEW o, NEW q, QueueOK(q, o, h)
    PROVE  QueueOK(QueueStep(q, e), o, Append(h, e))
  <1> DEFINE x == e.quantity
             d == Least(q.ahead, x)
             f == FillAfterQueue(q, x)
             w == TradedIn(h)
             v == TradedIn(Append(h, e))
             a == Max0(o[2])
             z == Max0(o[1])
  <1>1. x \in Int /\ e.kind \in {"trade", "cancel", "add"}
    BY DEF InQueueRow
  <1>2. /\ q.ahead \in Nat /\ q.remaining \in Nat /\ q.byTrades \in Nat /\ q.byCancels \in Nat
        /\ q.filled \in Nat /\ q.errors \in BOOLEAN
        /\ q = [ahead |-> q.ahead, remaining |-> q.remaining, byTrades |-> q.byTrades,
                byCancels |-> q.byCancels, filled |-> q.filled, errors |-> q.errors]
    BY DEF QueueOK
  <1>3. w \in Int /\ v = w + (IF e.kind = "trade" /\ x > 0 THEN x ELSE 0)
    BY TradedGrows
  <1>4. /\ q.byTrades + q.byCancels + q.ahead = a
        /\ q.filled + q.remaining = z
        /\ q.filled > 0 => q.ahead = 0
        /\ q.filled + q.byTrades <= w
        /\ q.remaining > 0 => q.filled + q.byTrades = w
    BY DEF QueueOK
  <1>5. CASE x < 0
    <2>1. QueueStep(q, e) = [q EXCEPT !.errors = TRUE]
      BY <1>5 DEF QueueStep
    <2>2. v = w
      BY <1>1, <1>3, <1>5
    <2> QED
      BY <1>2, <1>4, <2>1, <2>2 DEF QueueOK
  <1>6. CASE ~(x < 0) /\ (q.remaining = 0 \/ e.kind = "add")
    <2>1. QueueStep(q, e) = q
      BY <1>6 DEF QueueStep
    <2>2. v >= w /\ (q.remaining > 0 => v = w)
      BY <1>1, <1>2, <1>3, <1>6
    <2>3. v \in Int
      BY <1>1, <1>3
    <2> HIDE DEF v, w, a, z
    <2>4. q.filled + q.byTrades <= v /\ (q.remaining > 0 => q.filled + q.byTrades = v)
      BY <1>2, <1>3, <1>4, <2>2, <2>3
    <2> QED
      BY <2>1, <2>4 DEF QueueOK, v
  <1>7. CASE ~(x < 0) /\ q.remaining # 0 /\ e.kind = "cancel"
    <2>1. QueueStep(q, e) = [q EXCEPT !.ahead = @ - d, !.byCancels = @ + d]
      BY <1>7 DEF QueueStep
    <2>2. d \in Nat /\ d <= q.ahead
      BY <1>1, <1>2, <1>7 DEF Least
    <2>3. v = w
      BY <1>3, <1>7
    <2> DEFINE r == QueueStep(q, e)
    <2> HIDE DEF d, v, w, a, z
    <2>4. r = [ahead |-> q.ahead - d, remaining |-> q.remaining, byTrades |-> q.byTrades,
               byCancels |-> q.byCancels + d, filled |-> q.filled, errors |-> q.errors]
      BY <1>2, <2>1
    <2>5. /\ r.byTrades + r.byCancels + r.ahead = a
          /\ r.filled > 0 => r.ahead = 0
          /\ r.ahead \in Nat /\ r.byCancels \in Nat
      BY <1>2, <1>4, <2>2, <2>4
    <2> QED
      BY <1>2, <1>4, <2>3, <2>4, <2>5 DEF QueueOK, v, w, a, z
  <1>8. CASE ~(x < 0) /\ q.remaining # 0 /\ e.kind = "trade"
    <2>1. QueueStep(q, e) = [q EXCEPT !.ahead = @ - d, !.byTrades = @ + d,
                                         !.filled = @ + f, !.remaining = @ - f]
      BY <1>8 DEF QueueStep
    <2>2. /\ d \in Nat /\ d <= q.ahead /\ d <= x /\ (d < q.ahead => d = x)
          /\ f \in Nat /\ f <= q.remaining /\ f <= x - d /\ (f < q.remaining => f = x - d)
      BY <1>1, <1>2, <1>8 DEF Least, FillAfterQueue
    <2>3. v = w + x
      BY <1>1, <1>3, <1>8
    <2> DEFINE r == QueueStep(q, e)
    <2> HIDE DEF d, f, v, w, a, z, x
    <2>4. r = [ahead |-> q.ahead - d, remaining |-> q.remaining - f, byTrades |-> q.byTrades + d,
               byCancels |-> q.byCancels, filled |-> q.filled + f, errors |-> q.errors]
      BY <1>2, <2>1
    <2>5. /\ r.ahead = q.ahead - d /\ r.remaining = q.remaining - f /\ r.byTrades = q.byTrades + d
          /\ r.byCancels = q.byCancels /\ r.filled = q.filled + f
      BY <2>4
    <2> HIDE DEF r
    <2>6. /\ r.ahead \in Nat /\ r.remaining \in Nat /\ r.byTrades \in Nat /\ r.filled \in Nat
          /\ r.byTrades + r.byCancels + r.ahead = a
          /\ r.filled + r.remaining = z
      <3>1. /\ q.ahead - d \in Nat /\ q.remaining - f \in Nat
            /\ q.byTrades + d \in Nat /\ q.filled + f \in Nat
        BY <1>2, <2>2
      <3>2. (q.byTrades + d) + q.byCancels + (q.ahead - d) = q.byTrades + q.byCancels + q.ahead
        BY <1>2, <2>2
      <3>3. (q.filled + f) + (q.remaining - f) = q.filled + q.remaining
        BY <1>2, <2>2
      <3> QED
        BY <1>4, <2>5, <3>1, <3>2, <3>3
    <2>7. /\ r.filled > 0 => r.ahead = 0
          /\ r.filled + r.byTrades <= v /\ (r.remaining > 0 => r.filled + r.byTrades = v)
      <3>1. x \in Int /\ w = q.filled + q.byTrades
        BY <1>1, <1>2, <1>4, <1>8 DEF x
      <3>2. (q.filled + f) + (q.byTrades + d) <= w + x
        BY <1>2, <2>2, <3>1
      <3>3. q.remaining - f > 0 => (q.filled + f) + (q.byTrades + d) = w + x
        BY <1>2, <2>2, <3>1
      <3>4. q.filled + f > 0 => q.ahead - d = 0
        <4>1. CASE q.filled > 0
          BY <1>2, <1>4, <2>2, <4>1
        <4>2. CASE q.filled = 0 /\ f > 0
          <5>1. x - d > 0
            BY <2>2, <3>1, <4>2
          <5>2. ~(d < q.ahead)
            BY <1>2, <2>2, <3>1, <5>1
          <5> QED
            BY <1>2, <2>2, <5>2
        <4> QED
          BY <1>2, <2>2, <4>1, <4>2
      <3> QED
        BY <2>3, <2>5, <3>2, <3>3, <3>4
    <2>8. r.byCancels \in Nat /\ r.errors \in BOOLEAN
      BY <1>2, <2>4 DEF r
    <2> QED
      BY <2>4, <2>6, <2>7, <2>8 DEF QueueOK, r, v, a, z
  <1> QED
    BY <1>1, <1>5, <1>6, <1>7, <1>8

\* Hidden size, whatever the case.
HiddenOK(r, c) ==
    /\ r.visible + r.hidden + r.residual = Max0(c[1])
    /\ r.hidden > 0 => r.visible = Max0(c[2])
    /\ r.residual > 0 => r.hidden = Max0(c[3])
    /\ c[4] # NoLimit /\ c[4] > 0 =>
          /\ r.replenishments * c[4] >= r.hidden
          /\ (r.replenishments - 1) * c[4] < r.hidden \/ r.hidden = 0

\* The clips shown cover what was taken with less than one to spare.
LEMMA ClipsCover ==
    ASSUME NEW hidden \in Nat, NEW clip \in Nat, clip > 0, NoLimit \notin Int
    PROVE  LET r == ReplenishmentCount(hidden, clip)
           IN  r * clip >= hidden /\ ((r - 1) * clip < hidden \/ hidden = 0)
  <1> DEFINE d == hidden \div clip
             m == hidden % clip
             r == ReplenishmentCount(hidden, clip)
  <1>1. d \in Nat /\ m \in 0..(clip - 1) /\ hidden = clip * d + m
    BY Z3
  <1>2. clip # NoLimit
    OBVIOUS
  <1>3. CASE hidden = 0
    <2>1. r = 0
      BY <1>3 DEF ReplenishmentCount
    <2> QED
      BY <1>3, <2>1
  <1>4. CASE hidden # 0
    <2>1. r = d + (IF m = 0 THEN 0 ELSE 1)
      BY <1>2, <1>4 DEF ReplenishmentCount
    <2> HIDE DEF d, m, r
    <2>2. d * clip = clip * d /\ (d + 1) * clip = clip * d + clip /\ (d - 1) * clip = clip * d - clip
          /\ clip * d \in Nat
      BY <1>1
    <2>3. CASE m = 0
      <3>1. r = d /\ r * clip = hidden /\ (r - 1) * clip = hidden - clip
        BY <1>1, <2>1, <2>2, <2>3
      <3> QED
        BY <3>1 DEF r
    <2>4. CASE m # 0
      <3>1. r = d + 1 /\ r * clip = clip * d + clip /\ (r - 1) * clip = clip * d
        BY <1>1, <2>1, <2>2, <2>4
      <3> QED
        BY <1>1, <2>2, <2>4, <3>1 DEF r
    <2> QED
      BY <2>3, <2>4
  <1> QED
    BY <1>3, <1>4

LEMMA HiddenAccounts ==
    ASSUME NoLimit \notin Int, NEW c \in Int \X Int \X Int \X (Int \cup {NoLimit})
    PROVE  HiddenOK(SimulateHidden(c[1], c[2], c[3], c[4]), c)
  <1> DEFINE z == Max0(c[1])
             y == Max0(c[2])
             x == Max0(c[3])
             visible == Least(z, y)
             fill == Least(z - visible, x)
             r == SimulateHidden(c[1], c[2], c[3], c[4])
  <1>1. c[1] \in Int /\ c[2] \in Int /\ c[3] \in Int /\ c[4] \in Int \cup {NoLimit}
    OBVIOUS
  <1>2. z \in Nat /\ y \in Nat /\ x \in Nat
    BY <1>1 DEF Max0
  <1>3. /\ r.visible = visible /\ r.hidden = fill /\ r.residual = z - visible - fill
        /\ r.replenishments = ReplenishmentCount(fill, c[4])
    BY DEF SimulateHidden
  <1> HIDE DEF x, y, z
  <1>4. visible \in Nat /\ visible <= z /\ visible <= y /\ (visible < z => visible = y)
    BY <1>2 DEF Least
  <1> HIDE DEF visible
  <1>5. fill \in Nat /\ fill <= z - visible /\ (fill < z - visible => fill = x)
    BY <1>2, <1>4 DEF Least
  <1> HIDE DEF fill, r
  <1>6. /\ r.visible + r.hidden + r.residual = z
        /\ r.hidden > 0 => r.visible = y
        /\ r.residual > 0 => r.hidden = x
    BY <1>2, <1>3, <1>4, <1>5
  <1>7. ASSUME c[4] # NoLimit /\ c[4] > 0
        PROVE  /\ r.replenishments * c[4] >= r.hidden
               /\ (r.replenishments - 1) * c[4] < r.hidden \/ r.hidden = 0
    <2>1. c[4] \in Nat
      BY <1>1, <1>7
    <2> QED
      BY <1>3, <1>5, <1>7, <2>1, ClipsCover
  <1> QED
    BY <1>6, <1>7 DEF HiddenOK, r, x, y, z

\* The equity after the first i trades, and what the drill has computed of the
\* trades of h: the highest equity, and the largest fall from an earlier one.
After(h, i) == EquityIn(SubSeq(h, 1, i))

PnlOK(a, h) ==
    /\ a \in [equity : Int, peak : Int, drawdown : Int]
    /\ \A i \in 0..Len(h) : After(h, i) \in Int
    /\ a.equity = After(h, Len(h))
    /\ \A i \in 0..Len(h) : After(h, i) <= a.peak
    /\ \E i \in 0..Len(h) : After(h, i) = a.peak
    /\ \A i, j \in 0..Len(h) : i <= j => After(h, i) - After(h, j) <= a.drawdown
    /\ \E i, j \in 0..Len(h) : i <= j /\ After(h, i) - After(h, j) = a.drawdown

LEMMA MaxOfTwo ==
    ASSUME NEW a \in Int, NEW b \in Int
    PROVE  /\ Max({a, b}) \in Int /\ a <= Max({a, b}) /\ b <= Max({a, b})
           /\ Max({a, b}) = a \/ Max({a, b}) = b
  <1>1. \E x \in {a, b} : \A y \in {a, b} : x >= y
    OBVIOUS
  <1>2. Max({a, b}) \in {a, b} /\ \A y \in {a, b} : Max({a, b}) >= y
    BY <1>1 DEF Max
  <1> QED
    BY <1>2

\* An equity does not change when a trade is appended.
LEMMA AfterGrows ==
    ASSUME NEW h \in Seq(TradeRow), NEW t \in TradeRow
    PROVE  /\ After(<<>>, 0) = 0
           /\ After(h, Len(h)) \in Int
           /\ \A i \in 0..Len(h) : After(Append(h, t), i) = After(h, i)
           /\ After(Append(h, t), Len(h) + 1) = After(h, Len(h)) + NetPnl(t)
  <1>1. SubSeq(<<>>, 1, 0) = <<>> /\ SubSeq(h, 1, Len(h)) = h /\ Len(h) \in Nat
    OBVIOUS
  <1>2. ASSUME NEW i \in 0..Len(h) PROVE SubSeq(Append(h, t), 1, i) = SubSeq(h, 1, i)
    OBVIOUS
  <1>3. SubSeq(Append(h, t), 1, Len(h) + 1) = Append(h, t)
    <2>1. Append(h, t) \in Seq(TradeRow) /\ Len(Append(h, t)) = Len(h) + 1
      OBVIOUS
    <2>2. \A s \in Seq(TradeRow) : SubSeq(s, 1, Len(s)) = s
      OBVIOUS
    <2> QED
      BY <2>1, <2>2
  <1>4. /\ EquityIn(h) \in Int /\ EquityIn(<<>>) = 0
        /\ EquityIn(Append(h, t)) = EquityIn(h) + NetPnl(t)
    BY EquityGrows
  <1> QED
    BY <1>1, <1>2, <1>3, <1>4 DEF After

LEMMA PnlStarted == PnlOK(FlatEquity, <<>>)
  <1>1. After(<<>>, 0) = 0
    <2>1. <<>> \in Seq(TradeRow)
          /\ [side |-> "buy", quantity |-> 0, entry |-> 0, exit |-> 0, fees |-> 0] \in TradeRow
      BY DEF TradeRow
    <2> QED
      BY <2>1, AfterGrows
  <1>2. Len(<<>>) = 0 /\ 0..0 = {0}
    OBVIOUS
  <1> QED
    BY <1>1, <1>2 DEF PnlOK, FlatEquity

LEMMA PnlMoves ==
    ASSUME NEW h \in Seq(TradeRow), NEW t \in TradeRow, NEW a, PnlOK(a, h)
    PROVE  PnlOK(BookTrade(a, NetPnl(t)), Append(h, t))
  <1> DEFINE n == Len(h)
             g == Append(h, t)
             E(i) == After(g, i)
             equity == a.equity + NetPnl(t)
             peak == Max({a.peak, equity})
             drawdown == Max({a.drawdown, peak - equity})
  <1>1. a.equity \in Int /\ a.peak \in Int /\ a.drawdown \in Int
    BY DEF PnlOK
  <1>2. n \in Nat /\ Len(g) = n + 1
    OBVIOUS
  <1>3. NetPnl(t) \in Int /\ equity \in Int
    BY <1>1, PnlWhole
  <1>4. (\A i \in 0..n : E(i) = After(h, i)) /\ E(n + 1) = equity
    BY AfterGrows DEF PnlOK
  <1>5. BookTrade(a, NetPnl(t)) = [equity |-> equity, peak |-> peak, drawdown |-> drawdown]
    BY DEF BookTrade
  <1> HIDE DEF g, n, equity
  <1>6. /\ peak \in Int /\ a.peak <= peak /\ equity <= peak /\ (peak = a.peak \/ peak = equity)
    BY <1>1, <1>3, MaxOfTwo
  <1> HIDE DEF peak
  <1>7. /\ drawdown \in Int /\ a.drawdown <= drawdown /\ peak - equity <= drawdown
        /\ (drawdown = a.drawdown \/ drawdown = peak - equity)
    <2>1. peak - equity \in Int
      BY <1>3, <1>6
    <2> QED
      BY <1>1, <2>1, MaxOfTwo
  <1> HIDE DEF drawdown
  <1>8. /\ \A i \in 0..n : After(h, i) \in Int
        /\ \A i \in 0..n : After(h, i) <= a.peak
        /\ \E i \in 0..n : After(h, i) = a.peak
        /\ \A i, j \in 0..n : i <= j => After(h, i) - After(h, j) <= a.drawdown
        /\ \E i, j \in 0..n : i <= j /\ After(h, i) - After(h, j) = a.drawdown
    BY DEF PnlOK, n
  <1> HIDE DEF E
  <1>9. /\ \A i \in 0..n : E(i) \in Int
        /\ \A i \in 0..n : E(i) <= a.peak
        /\ \E i \in 0..n : E(i) = a.peak
        /\ \A i, j \in 0..n : i <= j => E(i) - E(j) <= a.drawdown
        /\ \E i, j \in 0..n : i <= j /\ E(i) - E(j) = a.drawdown
    BY <1>4, <1>8
  <1>10. \A i \in 0..(n + 1) : i \in 0..n \/ i = n + 1
    BY <1>2
  <1>11. \A i \in 0..n : i \in 0..(n + 1) /\ i <= n + 1 /\ ~(n + 1 <= i)
    BY <1>2
  <1>12. n + 1 \in 0..(n + 1) /\ n + 1 <= n + 1
    BY <1>2
  <1>13. \A i \in 0..(n + 1) : E(i) \in Int
    BY <1>3, <1>4, <1>9, <1>10
  <1>14. \A i \in 0..(n + 1) : E(i) <= peak
    BY <1>1, <1>3, <1>4, <1>6, <1>9, <1>10
  <1>15. \E i \in 0..(n + 1) : E(i) = peak
    BY <1>4, <1>6, <1>9, <1>11, <1>12
  <1>16. ASSUME NEW i \in 0..(n + 1), NEW j \in 0..(n + 1), i <= j PROVE E(i) - E(j) <= drawdown
    <2>1. CASE j \in 0..n
      <3>1. i \in 0..n
        BY <1>10, <1>11, <1>16, <2>1
      <3>2. E(i) - E(j) <= a.drawdown /\ E(i) \in Int /\ E(j) \in Int
        BY <1>9, <1>16, <2>1, <3>1
      <3> QED
        BY <1>1, <1>7, <3>2
    <2>2. CASE j = n + 1
      <3>1. E(j) = equity /\ E(i) <= peak /\ E(i) \in Int
        BY <1>4, <1>13, <1>14, <2>2
      <3> QED
        BY <1>3, <1>6, <1>7, <3>1
    <2> QED
      BY <1>10, <2>1, <2>2
  <1>17. \E i, j \in 0..(n + 1) : i <= j /\ E(i) - E(j) = drawdown
    <2>1. CASE drawdown = a.drawdown
      BY <1>9, <1>11, <2>1
    <2>2. CASE drawdown = peak - equity
      <3>1. PICK i \in 0..(n + 1) : E(i) = peak
        BY <1>15
      <3>2. i <= n + 1
        BY <1>2
      <3> QED
        BY <1>4, <1>12, <2>2, <3>1, <3>2
    <2> QED
      BY <1>7, <2>1, <2>2
  <1>18. \A i \in 0..(n + 1) : After(g, i) = E(i)
    BY DEF E
  <1> DEFINE b == [equity |-> equity, peak |-> peak, drawdown |-> drawdown]
  <1>19. b \in [equity : Int, peak : Int, drawdown : Int]
         /\ b.equity = equity /\ b.peak = peak /\ b.drawdown = drawdown
    BY <1>3, <1>6, <1>7
  <1> HIDE DEF b
  <1>20. PnlOK(b, g)
    <2>1. /\ \A i \in 0..Len(g) : After(g, i) \in Int
          /\ b.equity = After(g, Len(g))
      BY <1>2, <1>4, <1>12, <1>13, <1>18, <1>19
    <2>2. /\ \A i \in 0..Len(g) : After(g, i) <= b.peak
          /\ \E i \in 0..Len(g) : After(g, i) = b.peak
      BY <1>2, <1>14, <1>15, <1>18, <1>19
    <2>3. \A i, j \in 0..Len(g) : i <= j => After(g, i) - After(g, j) <= b.drawdown
      BY <1>2, <1>16, <1>18, <1>19
    <2>4. \E i, j \in 0..Len(g) : i <= j /\ After(g, i) - After(g, j) = b.drawdown
      BY <1>2, <1>17, <1>18, <1>19
    <2> QED
      BY <1>19, <2>1, <2>2, <2>3, <2>4 DEF PnlOK
  <1> QED
    BY <1>5, <1>20 DEF b, g

\* The largest of the falls is then the largest of the set of them.
LEMMA LargestFall ==
    ASSUME NEW h, Len(h) \in Nat, NEW a, PnlOK(a, h)
    PROVE  LET falls == {After(h, x[1]) - After(h, x[2]) :
                           x \in {y \in (0..Len(h)) \X (0..Len(h)) : y[1] <= y[2]}}
           IN  a.drawdown = Max(falls)
  <1> DEFINE falls == {After(h, x[1]) - After(h, x[2]) :
                         x \in {y \in (0..Len(h)) \X (0..Len(h)) : y[1] <= y[2]}}
  <1>1. a.drawdown \in falls
    <2>1. PICK i \in 0..Len(h), j \in 0..Len(h) : i <= j /\ After(h, i) - After(h, j) = a.drawdown
      BY DEF PnlOK
    <2>2. <<i, j>> \in {y \in (0..Len(h)) \X (0..Len(h)) : y[1] <= y[2]}
      BY <2>1
    <2> QED
      BY <2>1, <2>2
  <1>2. \A f \in falls : f \in Int /\ f <= a.drawdown
    <2> TAKE f \in falls
    <2>1. PICK x \in {y \in (0..Len(h)) \X (0..Len(h)) : y[1] <= y[2]} :
                f = After(h, x[1]) - After(h, x[2])
      OBVIOUS
    <2>2. x[1] \in 0..Len(h) /\ x[2] \in 0..Len(h) /\ x[1] <= x[2]
      BY <2>1
    <2>3. /\ After(h, x[1]) \in Int /\ After(h, x[2]) \in Int
          /\ After(h, x[1]) - After(h, x[2]) <= a.drawdown
      BY <2>2 DEF PnlOK
    <2> QED
      BY <2>1, <2>3
  <1> HIDE DEF falls
  <1>3. \E m \in falls : \A f \in falls : m >= f
    BY <1>1, <1>2
  <1>4. Max(falls) \in falls /\ \A f \in falls : Max(falls) >= f
    BY <1>3 DEF Max
  <1>5. a.drawdown = Max(falls)
    BY <1>1, <1>2, <1>4
  <1> QED
    BY <1>5 DEF falls

-----------------------------------------------------------------------------
(***************************************************************************)
(* The walk through a book.                                                *)
(***************************************************************************)

BookRow == [bid : Int, bid_size : Int, ask : Int, ask_size : Int]
OrderRow == [side : {"buy", "sell"}, quantity : Int, limit : Int \cup {NoLimit}]
FillState == [remaining : Nat, slices : Seq(SliceRow), open : BOOLEAN]

Size(o, book, i) == SizeOf(o, book[i])
Price(o, book, i) == PriceOf(o, book[i])
Passes(o, book, i) == PassesLimit(o, Price(o, book, i))

\* A valid order and a valid book.
Valid(o, book) == /\ o \in OrderRow /\ book \in Seq(BookRow) /\ NoLimit \notin Int
                  /\ ValidOrder(o) /\ ValidBook(book)

LEMMA BookLevels ==
    ASSUME NEW o, NEW book, Valid(o, book)
    PROVE  /\ Len(book) \in Nat /\ DOMAIN book = 1..Len(book)
           /\ \A i \in 1..Len(book) : /\ Size(o, book, i) \in Nat /\ Price(o, book, i) \in Int
                                      /\ book[i].ask \in Int /\ book[i].bid \in Int
           /\ \A i \in 1..(Len(book) - 1) :
                 book[i + 1].bid <= book[i].bid /\ book[i + 1].ask >= book[i].ask
  <1>1. Len(book) \in Nat /\ DOMAIN book = 1..Len(book)
    BY DEF Valid
  <1>2. ASSUME NEW i \in 1..Len(book)
        PROVE  /\ Size(o, book, i) \in Nat /\ Price(o, book, i) \in Int
               /\ book[i].ask \in Int /\ book[i].bid \in Int
    <2>1. book[i] \in BookRow
      BY ElementOfSeq DEF Valid
    <2>2. book[i].ask_size >= 0 /\ book[i].bid_size >= 0
      BY <1>1 DEF Valid, ValidBook
    <2> QED
      BY <2>1, <2>2 DEF BookRow, Size, Price, SizeOf, PriceOf
  <1>3. \A i \in 1..(Len(book) - 1) :
           book[i + 1].bid <= book[i].bid /\ book[i + 1].ask >= book[i].ask
    BY DEF Valid, ValidBook
  <1> QED
    BY <1>1, <1>2, <1>3

\* Beyond a level that is outside the limit every level is.
LEMMA LimitHolds ==
    ASSUME NEW o, NEW book, Valid(o, book),
           NEW j \in 1..Len(book), ~Passes(o, book, j), NEW k \in j..Len(book)
    PROVE  ~Passes(o, book, k)
  <1> DEFINE n == Len(book)
             Bad == {m \in Nat : m \in j..n /\ Passes(o, book, m)}
  <1>1. /\ n \in Nat
        /\ \A i \in 1..n : book[i].ask \in Int /\ book[i].bid \in Int
        /\ \A i \in 1..(n - 1) : book[i + 1].bid <= book[i].bid /\ book[i + 1].ask >= book[i].ask
    BY BookLevels
  <1> HIDE DEF n
  <1>2. Bad = {}
    <2> SUFFICES ASSUME Bad # {} PROVE FALSE
      OBVIOUS
    <2>1. PICK m \in Bad : \A l \in Bad : m <= l
      <3>1. Bad \in SUBSET Nat
        OBVIOUS
      <3> HIDE DEF Bad
      <3> QED
        BY <3>1, FirstExists
    <2>2. m # j /\ m \in j..n
      BY <2>1
    <2>3. m - 1 \in Nat /\ m - 1 \in j..n /\ ~(m <= m - 1) /\ m - 1 \in 1..(n - 1) /\ m \in 1..n
          /\ m - 1 \in 1..n
      BY <1>1, <2>2 DEF n
    <2>4. ~Passes(o, book, m - 1) /\ Passes(o, book, m)
      BY <2>1, <2>3
    <2>5. book[m].bid <= book[m - 1].bid /\ book[m].ask >= book[m - 1].ask
      <3>1. (m - 1) + 1 = m
        BY <2>3
      <3> QED
        BY <1>1, <2>3, <3>1
    <2>6. /\ book[m].ask \in Int /\ book[m].bid \in Int
          /\ book[m - 1].ask \in Int /\ book[m - 1].bid \in Int
      BY <1>1, <2>3
    <2>7. o.limit # NoLimit /\ o.limit \in Int
      BY <2>4 DEF Passes, PassesLimit, Valid, OrderRow
    <2> QED
      BY <2>4, <2>5, <2>6, <2>7 DEF Passes, Price, PriceOf, PassesLimit
  <1>3. k \in Nat /\ k \in j..n
    BY <1>1 DEF n
  <1> QED
    BY <1>2, <1>3

\* What the walk has computed after the first k levels.
BookOK(o, book, f, k) ==
    /\ f \in FillState
    /\ FilledIn(f.slices) + f.remaining = o.quantity
    /\ \A s \in ToSet(f.slices) : PassesLimit(o, s.price) /\ s.quantity > 0
    /\ \A i \in 1..Len(book) : /\ TakenIn(f.slices, i) \in Int
                               /\ TakenIn(f.slices, i) <= Size(o, book, i)
                               /\ i > k => TakenIn(f.slices, i) = 0
    /\ f.open => f.remaining > 0
    /\ ~f.open => f.remaining = 0 \/ \E j \in 1..k : ~Passes(o, book, j)
    /\ \A i \in 1..k : TakenIn(f.slices, i) < Size(o, book, i) =>
          \/ f.remaining = 0 /\ \A j \in (i + 1)..Len(book) : TakenIn(f.slices, j) = 0
          \/ ~Passes(o, book, i)

NoFill(o) == [remaining |-> o.quantity, slices |-> <<>>, open |-> TRUE]

LEMMA BookStarts ==
    ASSUME NEW o, NEW book, Valid(o, book)
    PROVE  BookOK(o, book, NoFill(o), 0)
  <1>1. o.quantity \in Nat /\ o.quantity > 0
    BY DEF Valid, OrderRow, ValidOrder
  <1>2. <<>> \in Seq(SliceRow) /\ [level |-> 0, price |-> 0, quantity |-> 0] \in SliceRow
    BY DEF SliceRow
  <1>3. FilledIn(<<>>) = 0
    BY <1>2, FilledGrows
  <1>4. \A i : TakenIn(<<>>, i) = 0
    BY <1>2, TakenGrows
  <1>5. \A i \in 1..Len(book) : Size(o, book, i) \in Nat
    BY BookLevels
  <1>6. ToSet(<<>>) = {}
    BY DEF ToSet
  <1>7. 1..0 = {}
    OBVIOUS
  <1> DEFINE f == NoFill(o)
  <1>8. f \in FillState /\ f.slices = <<>> /\ f.remaining = o.quantity /\ f.open = TRUE
    BY <1>1, <1>2 DEF NoFill, FillState
  <1> HIDE DEF f
  <1> QED
    BY <1>1, <1>3, <1>4, <1>5, <1>6, <1>7, <1>8 DEF BookOK, f

LEMMA BookMoves ==
    ASSUME NEW o, NEW book, Valid(o, book), NEW k \in 1..Len(book), NEW f,
           BookOK(o, book, f, k - 1)
    PROVE  BookOK(o, book, FillLevel(o, book, f, k), k)
  <1> DEFINE n == Len(book)
             r == f.remaining
             z == Size(o, book, k)
             q == Least(r, z)
             T(i) == TakenIn(f.slices, i)
  <1>1. n \in Nat /\ \A i \in 1..n : Size(o, book, i) \in Nat /\ Price(o, book, i) \in Int
    BY BookLevels
  <1>2. /\ f \in FillState /\ r \in Nat /\ f.slices \in Seq(SliceRow) /\ f.open \in BOOLEAN
        /\ FilledIn(f.slices) + r = o.quantity
        /\ \A s \in ToSet(f.slices) : PassesLimit(o, s.price) /\ s.quantity > 0
        /\ \A i \in 1..n : /\ T(i) \in Int /\ T(i) <= Size(o, book, i)
                           /\ i > k - 1 => T(i) = 0
        /\ f.open => r > 0
        /\ ~f.open => r = 0 \/ \E j \in 1..(k - 1) : ~Passes(o, book, j)
        /\ \A i \in 1..(k - 1) : T(i) < Size(o, book, i) =>
              (r = 0 /\ \A j \in (i + 1)..n : T(j) = 0) \/ ~Passes(o, book, i)
    BY DEF BookOK, FillState
  <1>3. /\ \A i \in 1..n : i > k => i > k - 1
        /\ \A j \in 1..(k - 1) : j \in 1..k /\ k \in j..n
        /\ \A i \in 1..k : i \in 1..(k - 1) \/ i = k
        /\ k \in 1..k /\ k > k - 1 /\ z \in Nat
        /\ \A j \in (k + 1)..n : j > k - 1 /\ j \in 1..n /\ j # k
    BY <1>1
  <1> HIDE DEF n, r, z, T
  <1>4. T(k) = 0
    BY <1>2, <1>3 DEF n
  <1>5. CASE ~f.open \/ z = 0
    <2>1. FillLevel(o, book, f, k) = f
      BY <1>5 DEF FillLevel, Size, z
    <2>2. \A i \in 1..n : i > k => T(i) = 0
      BY <1>2, <1>3
    <2>3. ~f.open => r = 0 \/ \E j \in 1..k : ~Passes(o, book, j)
      BY <1>2, <1>3
    <2>4. ASSUME NEW i \in 1..k, T(i) < Size(o, book, i)
          PROVE  (r = 0 /\ \A j \in (i + 1)..n : T(j) = 0) \/ ~Passes(o, book, i)
      <3>1. CASE i \in 1..(k - 1)
        BY <1>2, <2>4, <3>1
      <3>2. CASE i = k
        <4>1. ~f.open
          BY <1>3, <1>4, <1>5, <2>4, <3>2 DEF z
        <4>2. CASE r = 0
          BY <1>2, <1>3, <3>2, <4>2
        <4>3. CASE r # 0
          <5>1. PICK j \in 1..(k - 1) : ~Passes(o, book, j)
            BY <1>2, <4>1, <4>3
          <5>2. j \in 1..Len(book) /\ k \in j..Len(book)
            BY <1>1, <1>3 DEF n
          <5> QED
            BY <3>2, <5>1, <5>2, LimitHolds
        <4> QED
          BY <4>2, <4>3
      <3> QED
        BY <1>3, <3>1, <3>2
    <2> QED
      BY <1>2, <2>1, <2>2, <2>3, <2>4 DEF BookOK, n, r, T
  <1>6. CASE f.open /\ z # 0 /\ ~Passes(o, book, k)
    <2> DEFINE g == FillLevel(o, book, f, k)
    <2>1. g = [f EXCEPT !.open = FALSE]
      BY <1>6 DEF FillLevel, Size, z, Passes, Price
    <2>2. g.remaining = r /\ g.slices = f.slices /\ g.open = FALSE /\ g \in FillState
      BY <1>2, <2>1 DEF FillState, r
    <2> HIDE DEF g
    <2>3. \A i \in 1..n : i > k => T(i) = 0
      BY <1>2, <1>3
    <2>4. ASSUME NEW i \in 1..k, T(i) < Size(o, book, i)
          PROVE  (r = 0 /\ \A j \in (i + 1)..n : T(j) = 0) \/ ~Passes(o, book, i)
      BY <1>2, <1>3, <1>6, <2>4
    <2>5. \E j \in 1..k : ~Passes(o, book, j)
      BY <1>3, <1>6
    <2>6. BookOK(o, book, g, k)
      BY <1>2, <2>2, <2>3, <2>4, <2>5 DEF BookOK, n, r, T
    <2> QED
      BY <2>6 DEF g
  <1>7. CASE f.open /\ z # 0 /\ Passes(o, book, k)
    <2> DEFINE e == [level |-> k, price |-> Price(o, book, k), quantity |-> q]
               u == Append(f.slices, e)
               g == FillLevel(o, book, f, k)
    <2>1. g = [remaining |-> r - q, open |-> r > q, slices |-> u]
      BY <1>7 DEF FillLevel, Size, z, Passes, Price, r
    <2>2. q \in Nat /\ q > 0 /\ q <= r /\ q <= z /\ (q < z => q = r) /\ r > 0
      BY <1>2, <1>3, <1>7 DEF Least
    <2> HIDE DEF q
    <2>3. e \in SliceRow /\ e.level = k /\ e.price = Price(o, book, k) /\ e.quantity = q
      <3>1. k \in Nat /\ k \in 1..n
        BY DEF n
      <3> QED
        BY <1>1, <2>2, <3>1 DEF SliceRow
    <2> HIDE DEF e
    <2>4. u \in Seq(SliceRow)
      BY <1>2, <2>3
    <2>5. /\ g.remaining = r - q /\ g.open = (r > q) /\ g.slices = u
          /\ g \in FillState
      <3>1. r - q \in Nat /\ (r > q) \in BOOLEAN
        BY <1>2, <2>2
      <3> HIDE DEF u
      <3> QED
        BY <2>1, <2>4, <3>1 DEF FillState
    <2>6. FilledIn(u) + (r - q) = o.quantity
      <3>1. FilledIn(u) = FilledIn(f.slices) + q /\ FilledIn(f.slices) \in Int
        BY <1>2, <2>3, FilledGrows
      <3> HIDE DEF u
      <3> QED
        BY <1>2, <2>2, <3>1
    <2>7. ASSUME NEW s \in ToSet(u) PROVE PassesLimit(o, s.price) /\ s.quantity > 0
      <3>1. s \in ToSet(f.slices) \/ s = e
        <4>1. PICK x \in DOMAIN u : s = u[x]
          BY DEF ToSet
        <4>2. x \in 1..(Len(f.slices) + 1)
          BY <1>2, <4>1
        <4>3. CASE x = Len(f.slices) + 1
          BY <1>2, <4>1, <4>3
        <4>4. CASE x # Len(f.slices) + 1
          <5>1. x \in DOMAIN f.slices /\ u[x] = f.slices[x]
            BY <1>2, <4>2, <4>4
          <5> QED
            BY <4>1, <5>1 DEF ToSet
        <4> QED
          BY <4>3, <4>4
      <3>2. PassesLimit(o, e.price) /\ e.quantity > 0
        BY <1>7, <2>2, <2>3 DEF Passes
      <3> QED
        BY <1>2, <3>1, <3>2
    <2>8. \A i \in 1..n : TakenIn(u, i) = T(i) + (IF i = k THEN q ELSE 0)
      <3> TAKE i \in 1..n
      <3>1. TakenIn(u, i) = TakenIn(f.slices, i) + (IF e.level = i THEN e.quantity ELSE 0)
        BY <1>2, <2>3, TakenGrows
      <3> QED
        BY <2>3, <3>1 DEF T
    <2> HIDE DEF u, g
    <2>9. ASSUME NEW i \in 1..n
          PROVE  /\ TakenIn(u, i) \in Int /\ TakenIn(u, i) <= Size(o, book, i)
                 /\ i > k => TakenIn(u, i) = 0
      <3>1. CASE i = k
        <4>1. TakenIn(u, i) = q
          BY <1>4, <2>2, <2>8, <3>1
        <4> QED
          BY <2>2, <3>1, <4>1 DEF z
      <3>2. CASE i # k
        <4>1. TakenIn(u, i) = T(i)
          BY <1>2, <2>8, <3>2
        <4> QED
          BY <1>2, <1>3, <4>1
      <3> QED
        BY <3>1, <3>2
    <2>10. (r > q => r - q > 0) /\ (~(r > q) => r - q = 0)
      BY <1>2, <2>2
    <2>11. ASSUME NEW i \in 1..k, TakenIn(u, i) < Size(o, book, i)
           PROVE  \/ r - q = 0 /\ \A j \in (i + 1)..n : TakenIn(u, j) = 0
                  \/ ~Passes(o, book, i)
      <3>0. i \in 1..n /\ k \in 1..n
        BY <1>1 DEF n
      <3>1. CASE i = k
        <4>1. TakenIn(u, i) = q
          BY <1>4, <2>2, <2>8, <3>0, <3>1
        <4>2. q = r
          BY <2>2, <2>11, <3>1, <4>1 DEF z
        <4>3. \A j \in (i + 1)..n : TakenIn(u, j) = 0
          BY <1>2, <1>3, <2>8, <3>1
        <4> QED
          BY <1>2, <4>2, <4>3
      <3>2. CASE i # k
        <4>1. i \in 1..(k - 1) /\ TakenIn(u, i) = T(i)
          BY <1>2, <1>3, <2>8, <3>0, <3>2
        <4> QED
          BY <1>2, <2>2, <2>11, <4>1
      <3> QED
        BY <3>1, <3>2
    <2>12. BookOK(o, book, g, k)
      BY <2>5, <2>6, <2>7, <2>9, <2>10, <2>11 DEF BookOK, n
    <2> QED
      BY <2>12 DEF g
  <1> QED
    BY <1>2, <1>5, <1>6, <1>7

\* The fold of simulate_mbp10_fill takes the levels in order.
LEMMA LevelKeepsShape ==
    ASSUME NEW o, NEW book, Valid(o, book), NEW k \in 1..Len(book), NEW f \in FillState
    PROVE  FillLevel(o, book, f, k) \in FillState
  <1> DEFINE q == Least(f.remaining, Size(o, book, k))
             e == [level |-> k, price |-> Price(o, book, k), quantity |-> q]
  <1>1. f.remaining \in Nat /\ f.slices \in Seq(SliceRow) /\ f.open \in BOOLEAN
    BY DEF FillState
  <1>2. Size(o, book, k) \in Nat /\ Price(o, book, k) \in Int
    BY BookLevels
  <1>3. q \in Nat /\ q <= f.remaining
    BY <1>1, <1>2 DEF Least
  <1>4. \/ FillLevel(o, book, f, k) = f
        \/ FillLevel(o, book, f, k) = [f EXCEPT !.open = FALSE]
        \/ FillLevel(o, book, f, k) = [remaining |-> f.remaining - q, open |-> f.remaining > q,
                                          slices |-> Append(f.slices, e)]
    BY DEF FillLevel, Size, Price
  <1> HIDE DEF q
  <1>5. e \in SliceRow
    BY <1>2, <1>3, k \in Nat DEF SliceRow
  <1> HIDE DEF e
  <1>6. Append(f.slices, e) \in Seq(SliceRow) /\ f.remaining - q \in Nat
    BY <1>1, <1>3, <1>5
  <1>7. [f EXCEPT !.open = FALSE] \in FillState
    BY <1>1 DEF FillState
  <1>8. [remaining |-> f.remaining - q, open |-> f.remaining > q,
         slices |-> Append(f.slices, e)] \in FillState
    BY <1>6 DEF FillState
  <1> QED
    BY <1>4, <1>7, <1>8

LEMMA FillIsWalk ==
    ASSUME NEW o, NEW book, Valid(o, book)
    PROVE  BookOK(o, book, SimulateFill(o, book), Len(book))
  <1> DEFINE n == Len(book)
             l == [i \in DOMAIN book |-> i]
             b == NoFill(o)
             Rec(h) == h = [s \in SUBSET DOMAIN l |->
                              IF s = {} THEN b
                              ELSE FillLevel(o, book, h[s \ {Max(s)}], l[Max(s)])]
             fold == CHOOSE h : Rec(h)
             F == [p \in (1..n) \X FillState |-> FillLevel(o, book, p[2], p[1])]
  <1>1. SimulateFill(o, book) = fold[DOMAIN l]
    BY DEF SimulateFill, FoldLeft, MapThenFoldSet, NoFill, Valid
  <1>2. n \in Nat /\ DOMAIN l = 1..n /\ \A x \in 1..n : l[x] = x
    BY BookLevels
  <1>3. b \in FillState
    BY BookStarts DEF BookOK
  <1>4. F \in [(1..n) \X FillState -> FillState]
    BY LevelKeepsShape
  <1>5. \A x \in 1..n, v \in FillState : F[<<x, v>>] = FillLevel(o, book, v, x)
    OBVIOUS
  <1> HIDE DEF F, b, l, n
  <1>6. PICK g : Folds(g, F, b, FillState, n)
    BY <1>2, <1>3, <1>4, FoldExists
  <1>7. Rec(g)
    <2>1. ASSUME NEW s \in SUBSET (1..n)
          PROVE  g[s] = IF s = {} THEN b
                        ELSE FillLevel(o, book, g[s \ {Max(s)}], l[Max(s)])
      <3>1. CASE s = {}
        BY <1>6, <3>1 DEF Folds
      <3>2. CASE s # {}
        <4>1. Max(s) \in 1..n /\ s \ {Max(s)} \in SUBSET (1..n)
          BY <1>2, <3>2, MaxIs
        <4>2. g[s \ {Max(s)}] \in FillState
          BY <1>6, <4>1 DEF Folds
        <4>3. g[s] = F[<<Max(s), g[s \ {Max(s)}]>>]
          BY <1>6, <3>2 DEF Folds
        <4> QED
          BY <1>2, <1>5, <3>2, <4>1, <4>2, <4>3
      <3> QED
        BY <3>1, <3>2
    <2>2. DOMAIN g = SUBSET (1..n) /\ g = [s \in SUBSET (1..n) |-> g[s]]
      BY <1>6 DEF Folds
    <2> QED
      BY <1>2, <2>1, <2>2
  <1>8. Rec(fold)
    BY <1>7
  <1> HIDE DEF fold
  <1>9. \A s \in SUBSET (1..n) :
           fold[s] = IF s = {} THEN b
                     ELSE FillLevel(o, book, fold[s \ {Max(s)}], l[Max(s)])
    BY <1>2, <1>8
  <1> HIDE DEF Rec
  <1> DEFINE Bad == {k \in 0..n : ~BookOK(o, book, fold[1..k], k)}
  <1>10. Bad = {}
    <2> SUFFICES ASSUME Bad # {} PROVE FALSE
      OBVIOUS
    <2>1. PICK k \in Bad : \A m \in Bad : k <= m
      <3>1. Bad \in SUBSET Nat
        OBVIOUS
      <3> HIDE DEF Bad
      <3> QED
        BY <3>1, FirstExists
    <2>2. k # 0
      <3>1. 1..0 = {} /\ {} \in SUBSET (1..n)
        OBVIOUS
      <3>2. fold[1..0] = b
        BY <1>9, <3>1
      <3>3. BookOK(o, book, fold[1..0], 0)
        BY <3>2, BookStarts DEF b
      <3> QED
        BY <2>1, <3>3
    <2>3. k \in 1..n /\ k - 1 \in 0..n /\ ~(k <= k - 1) /\ k \in Nat
      BY <1>2, <2>2
    <2>4. BookOK(o, book, fold[1..(k - 1)], k - 1)
      BY <2>1, <2>3
    <2>5. fold[1..k] = FillLevel(o, book, fold[1..(k - 1)], k)
      <3>1. Max(1..k) = k /\ (1..k) \ {k} = 1..(k - 1) /\ 1..k # {}
        BY <2>2, <2>3, MaxOfFirst
      <3>2. 1..k \in SUBSET (1..n)
        BY <1>2, <2>3
      <3> QED
        BY <1>2, <1>9, <2>3, <3>1, <3>2
    <2>6. BookOK(o, book, fold[1..k], k)
      BY <2>3, <2>4, <2>5, BookMoves DEF n
    <2> QED
      BY <2>1, <2>6
  <1>11. BookOK(o, book, fold[1..n], n)
    BY <1>2, <1>10, n \in 0..n
  <1> QED
    BY <1>1, <1>2, <1>11 DEF n

-----------------------------------------------------------------------------
(***************************************************************************)
(* The drills one after another.                                           *)
(***************************************************************************)

\* What a drill may be started with and given.
DrillPremise ==
    /\ NoLimitAssumption
    /\ Books \subseteq Seq(BookRow) /\ Orders \subseteq OrderRow
    /\ QueueStarts \subseteq Int \X Int /\ QueueEvents \subseteq InQueueRow
    /\ HiddenCases \subseteq Int \X Int \X Int \X (Int \cup {NoLimit})
    /\ Trades \subseteq TradeRow

\* Each drill keeps what it was started with, and its result is what its
\* inputs so far make of it.
DrillInv ==
    /\ drill \in {"roll", "fill", "hidden"} => history = <<>>
    /\ drill = "fill" => /\ input = [order |-> input.order, book |-> input.book]
                         /\ input.order \in Orders /\ input.book \in Books
                         /\ result = SimulateFill(input.order, input.book)
    /\ drill = "queue" => /\ history \in Seq(InQueueRow) /\ input \in QueueStarts
                          /\ QueueOK(result, input, history)
    /\ drill = "hidden" => /\ input \in HiddenCases
                           /\ result = SimulateHidden(input[1], input[2], input[3], input[4])
    /\ drill = "pnl" => history \in Seq(TradeRow) /\ PnlOK(result, history)

LEMMA DrillsStep ==
    ASSUME DrillPremise, DrillInv, [DrillNext]_(drill_vars)
    PROVE  DrillInv'
  <1>1. CASE NextDay
    BY <1>1 DEF NextDay, DrillInv
  <1>2. CASE FillDrill
    <2>1. PICK o \in Orders, book \in Books :
             /\ input' = [order |-> o, book |-> book]
             /\ result' = SimulateFill(o, book)
      BY <1>2 DEF FillDrill
    <2>2. input'.order = o /\ input'.book = book
      BY <2>1
    <2>3. drill' = "fill" /\ history' = <<>>
      BY <1>2 DEF FillDrill, DrillInv
    <2> QED
      BY <2>1, <2>2, <2>3 DEF DrillInv
  <1>3. CASE StartQueue
    <2>1. PICK q \in QueueStarts : input' = q /\ result' = NewQueue(q[1], q[2])
      BY <1>3 DEF StartQueue
    <2>2. drill' = "queue" /\ history' = <<>>
      BY <1>3 DEF StartQueue, DrillInv
    <2>3. QueueOK(result', input', history')
      BY <2>1, <2>2, QueueStarted DEF DrillPremise
    <2> QED
      BY <2>1, <2>2, <2>3 DEF DrillInv
  <1>4. CASE QueueEvent
    <2>1. PICK e \in QueueEvents : /\ result' = QueueStep(result, e)
                                   /\ history' = Append(history, e)
      BY <1>4 DEF QueueEvent
    <2>2. drill = "queue" /\ drill' = "queue" /\ input' = input
      BY <1>4 DEF QueueEvent
    <2>3. history \in Seq(InQueueRow) /\ input \in QueueStarts /\ QueueOK(result, input, history)
      BY <2>2 DEF DrillInv
    <2>4. e \in InQueueRow
      BY DEF DrillPremise
    <2>5. QueueOK(result', input', history')
      BY <2>1, <2>2, <2>3, <2>4, QueueMoves
    <2>6. history' \in Seq(InQueueRow)
      BY <2>1, <2>3, <2>4
    <2> QED
      BY <2>2, <2>3, <2>5, <2>6 DEF DrillInv
  <1>5. CASE HiddenDrill
    <2>1. PICK h \in HiddenCases : /\ input' = h
                                   /\ result' = SimulateHidden(h[1], h[2], h[3], h[4])
      BY <1>5 DEF HiddenDrill
    <2>2. drill' = "hidden" /\ history' = <<>>
      BY <1>5 DEF HiddenDrill
    <2> QED
      BY <2>1, <2>2 DEF DrillInv
  <1>6. CASE StartPnl
    <2>1. drill' = "pnl" /\ history' = <<>> /\ result' = FlatEquity
      BY <1>6 DEF StartPnl, DrillInv
    <2>2. <<>> \in Seq(TradeRow)
      OBVIOUS
    <2> QED
      BY <2>1, <2>2, PnlStarted DEF DrillInv
  <1>7. CASE NextTrade
    <2>1. PICK t \in Trades : /\ result' = BookTrade(result, NetPnl(t))
                              /\ history' = Append(history, t)
      BY <1>7 DEF NextTrade
    <2>2. drill = "pnl" /\ drill' = "pnl"
      BY <1>7 DEF NextTrade
    <2>3. history \in Seq(TradeRow) /\ PnlOK(result, history) /\ t \in TradeRow
      BY <2>2 DEF DrillInv, DrillPremise
    <2>4. PnlOK(result', history') /\ history' \in Seq(TradeRow)
      BY <2>1, <2>3, PnlMoves
    <2> QED
      BY <2>2, <2>4 DEF DrillInv
  <1>8. CASE Finish
    BY <1>8 DEF Finish, DrillInv
  <1>9. CASE UNCHANGED drill_vars
    BY <1>9 DEF drill_vars, DrillInv
  <1> QED
    BY <1>1, <1>2, <1>3, <1>4, <1>5, <1>6, <1>7, <1>8, <1>9 DEF DrillNext

\* What the invariant says of each drill is what the property asks of it.
LEMMA FillAccounts ==
    ASSUME DrillPremise, DrillInv
    PROVE  FillIsExhaustive
  <1> SUFFICES ASSUME drill = "fill", ValidOrder(input.order), ValidBook(input.book)
               PROVE  LET o == input.order
                      IN  /\ FilledQuantity(result) + result.remaining = o.quantity
                          /\ \A s \in ToSet(result.slices) : PassesLimit(o, s.price) /\ s.quantity > 0
                          /\ \A i \in DOMAIN input.book :
                                LET l == input.book[i] IN
                                /\ TakenIn(result.slices, i) <= SizeOf(o, l)
                                /\ TakenIn(result.slices, i) < SizeOf(o, l) =>
                                      \/ /\ result.remaining = 0
                                         /\ \A j \in (i + 1)..Len(input.book) : TakenIn(result.slices, j) = 0
                                      \/ o.limit # NoLimit /\ (IF o.side = "buy" THEN l.ask > o.limit
                                                                                 ELSE l.bid < o.limit)
    BY DEF FillIsExhaustive, TakenIn
  <1> DEFINE o == input.order
             book == input.book
             n == Len(book)
  <1>1. /\ o \in OrderRow /\ book \in Seq(BookRow)
        /\ result = SimulateFill(o, book)
    BY DEF DrillInv, DrillPremise
  <1>2. Valid(o, book)
    BY <1>1 DEF Valid, DrillPremise, NoLimitAssumption
  <1> HIDE DEF o, book
  <1>3. BookOK(o, book, result, n)
    BY <1>1, <1>2, FillIsWalk
  <1>4. n \in Nat /\ DOMAIN book = 1..n
    BY <1>2, BookLevels
  <1>5. FilledQuantity(result) = FilledIn(result.slices)
    BY DEF FilledQuantity, FilledIn
  <1>6. \A i \in 1..n : ~Passes(o, book, i) =>
            o.limit # NoLimit /\ (IF o.side = "buy" THEN book[i].ask > o.limit
                                                    ELSE book[i].bid < o.limit)
    <2> SUFFICES ASSUME NEW i \in 1..n, ~Passes(o, book, i)
                 PROVE  o.limit # NoLimit /\ (IF o.side = "buy" THEN book[i].ask > o.limit
                                                                ELSE book[i].bid < o.limit)
      OBVIOUS
    <2>1. o.limit # NoLimit /\ o.limit \in Int
      BY <1>1 DEF Passes, PassesLimit, OrderRow
    <2>2. book[i].ask \in Int /\ book[i].bid \in Int
      BY <1>2, BookLevels
    <2> QED
      BY <2>1, <2>2 DEF Passes, Price, PriceOf, PassesLimit
  <1>7. FilledIn(result.slices) + result.remaining = o.quantity
    BY <1>3 DEF BookOK
  <1>8. \A s \in ToSet(result.slices) : PassesLimit(o, s.price) /\ s.quantity > 0
    BY <1>3 DEF BookOK
  <1>9. \A i \in 1..n :
           /\ TakenIn(result.slices, i) <= SizeOf(o, book[i])
           /\ TakenIn(result.slices, i) < SizeOf(o, book[i]) =>
                 \/ result.remaining = 0 /\ \A j \in (i + 1)..n : TakenIn(result.slices, j) = 0
                 \/ ~Passes(o, book, i)
    BY <1>3 DEF BookOK, Size
  <1> QED
    BY <1>4, <1>5, <1>6, <1>7, <1>8, <1>9 DEF o, book

\* The drills account for every lot, in the order of the book, of the queue and
\* of the clips, and for every fall of the equity, whatever they are started
\* with (simulate_mbp10_fill, simulate_queue_position, simulate_hidden_liquidity
\* and evaluate_profitability).
THEOREM TheDrillsAccountForAll ==
    ASSUME DrillPremise
    PROVE  EvalSpec => []DrillsAccountForAll
  <1>1. DrillInit => DrillInv
    BY DEF DrillInit, DrillInv
  <1>2. DrillInv /\ [EvalNext]_(drill_vars) => DrillInv'
    <2>1. DrillInv /\ [DrillNext]_(drill_vars) => DrillInv'
      BY DrillsStep
    <2>2. DrillInv /\ Validating => DrillInv'
      BY ValidationComesAfter DEF DrillInv
    <2> QED
      BY <2>1, <2>2 DEF EvalNext, Validating
  <1>3. DrillInv => DrillsAccountForAll
    <2> SUFFICES ASSUME DrillInv PROVE DrillsAccountForAll
      OBVIOUS
    <2>1. FillIsExhaustive
      BY FillAccounts
    <2>2. QueueIsRespected
      <3>1. Traded = TradedIn(history)
        BY DEF Traded, TradedIn
      <3> QED
        BY <3>1 DEF DrillInv, QueueOK, QueueIsRespected
    <2>3. HiddenComesLast
      <3> SUFFICES ASSUME drill = "hidden" PROVE HiddenOK(result, input)
        BY DEF HiddenComesLast, HiddenOK
      <3>1. /\ input \in Int \X Int \X Int \X (Int \cup {NoLimit}) /\ NoLimit \notin Int
            /\ result = SimulateHidden(input[1], input[2], input[3], input[4])
        BY DEF DrillInv, DrillPremise, NoLimitAssumption
      <3> QED
        BY <3>1, HiddenAccounts
    <2>4. DrawdownIsLargestFall
      <3> SUFFICES ASSUME drill = "pnl"
                   PROVE  LET falls == {After(history, x[1]) - After(history, x[2]) :
                                 x \in {y \in (0..Len(history)) \X (0..Len(history)) : y[1] <= y[2]}}
                          IN  result.drawdown = Max(falls)
        BY DEF DrawdownIsLargestFall, Equity, After, EquityIn
      <3>1. Len(history) \in Nat /\ PnlOK(result, history)
        BY DEF DrillInv
      <3> QED
        BY <3>1, LargestFall
    <2> QED
      BY <2>1, <2>2, <2>3, <2>4 DEF DrillsAccountForAll
  <1> QED
    BY <1>1, <1>2, <1>3, PTL DEF EvalSpec

-----------------------------------------------------------------------------
(***************************************************************************)
(* The scores, gates and grades of the validation drills.  What is said    *)
(* of them is said under the premises of their modules: GridAssumption,    *)
(* NothingAssumption and JudgementAssumption.                              *)
(***************************************************************************)

Levels == Len(QLevels)

LEMMA GridIs ==
    /\ LevelUnits \in Nat /\ Levels \in Nat /\ Levels > 0 /\ DOMAIN QLevels = 1..Levels
    /\ \A i \in 1..Levels : QLevels[i] \in Int
    /\ \A i, j \in 1..Levels : i < j => QLevels[i] < QLevels[j]
    /\ \E m \in 1..Levels : 2 * QLevels[m] = LevelUnits
  <1>1. LevelUnits \in Nat /\ Levels \in Nat /\ DOMAIN QLevels = 1..Levels
    BY GridAssumption DEF Levels
  <1>2. \A i \in 1..Levels : QLevels[i] \in Int
    <2>1. \A i \in 1..Levels : QLevels[i] \in 0..LevelUnits
      BY <1>1, GridAssumption DEF Levels
    <2> QED
      BY <1>1, <2>1
  <1>3. \E m \in 1..Levels : 2 * QLevels[m] = LevelUnits
    BY <1>1, GridAssumption
  <1>4. \A i \in 1..(Levels - 1) : QLevels[i] < QLevels[i + 1]
    BY GridAssumption DEF Levels
  <1>5. \A i, j \in 1..Levels : i < j => QLevels[i] < QLevels[j]
    <2> SUFFICES ASSUME NEW i \in 1..Levels
                 PROVE  \A j \in 1..Levels : i < j => QLevels[i] < QLevels[j]
      OBVIOUS
    <2> DEFINE Bad == {j \in 1..Levels : i < j /\ ~(QLevels[i] < QLevels[j])}
    <2>1. SUFFICES ASSUME Bad # {} PROVE FALSE
      OBVIOUS
    <2>2. Bad \in SUBSET Nat
      BY <1>1
    <2>3. PICK j \in Bad : \A k \in Bad : j <= k
      <3> HIDE DEF Bad
      <3> QED
        BY <2>1, <2>2, FirstExists
    <2>4. j \in 1..Levels /\ i < j /\ j - 1 \in 1..(Levels - 1) /\ (j - 1) + 1 = j /\ j - 1 \notin Bad
      BY <1>1, <2>3
    <2>5. QLevels[j - 1] < QLevels[j]
      BY <1>4, <2>4
    <2>6. i = j - 1 \/ (i < j - 1 /\ j - 1 \in 1..Levels)
      BY <1>1, <2>4
    <2>7. i = j - 1 \/ QLevels[i] < QLevels[j - 1]
      BY <2>4, <2>6
    <2>8. QLevels[i] < QLevels[j]
      BY <1>1, <1>2, <2>4, <2>5, <2>6, <2>7
    <2> QED
      BY <2>3, <2>8
  <1> QED
    BY <1>1, <1>2, <1>3, <1>5

\* Where a level falls between two of the grid.
Between(tau) == Max({k \in DOMAIN QLevels : QLevels[k] <= tau})

LEMMA BetweenIs ==
    ASSUME NEW tau \in Int, QLevels[1] <= tau, tau < QLevels[Levels]
    PROVE  LET j == Between(tau)
           IN  /\ j \in 1..Levels /\ j + 1 \in 1..Levels
               /\ QLevels[j] <= tau /\ tau < QLevels[j + 1]
  <1> DEFINE S == {k \in 1..Levels : QLevels[k] <= tau}
             j == Max(S)
  <1>1. Levels \in Nat /\ 1 \in S /\ S \in SUBSET (1..Levels)
    BY GridIs
  <1>2. j \in S /\ \A k \in S : k <= j
    <2> HIDE DEF S
    <2> QED
      BY <1>1, MaxIs
  <1>3. j # Levels
    BY <1>2, GridIs
  <1>4. j + 1 \in 1..Levels /\ ~(j + 1 <= j)
    BY <1>1, <1>2, <1>3
  <1>5. ~(QLevels[j + 1] <= tau)
    BY <1>2, <1>4
  <1>6. tau < QLevels[j + 1]
    BY <1>4, <1>5, GridIs
  <1>7. Between(tau) = j
    BY GridIs DEF Between
  <1> QED
    BY <1>2, <1>4, <1>6, <1>7

\* y less the interpolated quantile, times the width of the grid's interval.
Gap(y, qv, tau) ==
    LET j == Between(tau)
    IN  (y - qv[j]) * (QLevels[j + 1] - QLevels[j]) - (qv[j + 1] - qv[j]) * (tau - QLevels[j])

Vector(v) ==
    /\ v \in Seq(Int) /\ Len(v) = Levels
    /\ \A i, j \in 1..Levels : i <= j => v[i] <= v[j]
    /\ \A i \in 1..Levels : v[i] \in Int

LEMMA VectorsAre == \A v \in Vectors : Vector(v)
  <1> SUFFICES ASSUME NEW v \in Vectors PROVE Vector(v)
    OBVIOUS
  <1>1. /\ v \in Seq(Int) /\ Len(v) = Len(QLevels)
        /\ \A i, j \in DOMAIN v : i <= j => v[i] <= v[j]
    BY JudgementAssumption
  <1>2. DOMAIN v = 1..Levels
    BY <1>1 DEF Levels
  <1> QED
    BY <1>1, <1>2 DEF Vector, Levels

LEMMA AgainstIs ==
    ASSUME NEW y \in Int, NEW v, Vector(v), NEW tau \in Int,
           QLevels[1] <= tau, tau <= QLevels[Levels]
    PROVE  /\ tau = QLevels[Levels] =>
                 /\ Against(y, v, tau) >= 0 <=> y >= v[Levels]
                 /\ Against(y, v, tau) <= 0 <=> y <= v[Levels]
           /\ tau # QLevels[Levels] =>
                 /\ Against(y, v, tau) >= 0 <=> Gap(y, v, tau) >= 0
                 /\ Against(y, v, tau) <= 0 <=> Gap(y, v, tau) <= 0
                 /\ Gap(y, v, tau) \in Int
  <1>1. /\ Levels \in Nat /\ Levels \in 1..Levels /\ \A i \in 1..Levels : QLevels[i] \in Int
        /\ Len(v) = Levels /\ \A i \in 1..Levels : v[i] \in Int
    BY GridIs DEF Vector
  <1>2. \A x \in Int : (SignOf(x) >= 0 <=> x >= 0) /\ (SignOf(x) <= 0 <=> x <= 0)
    BY DEF SignOf
  <1>3. CASE tau = QLevels[Levels]
    <2>1. Against(y, v, tau) = SignOf(y - v[Levels])
      BY <1>1, <1>3 DEF Against, Levels
    <2>2. y - v[Levels] \in Int /\ v[Levels] \in Int
      BY <1>1
    <2> QED
      BY <1>2, <1>3, <2>1, <2>2
  <1>4. CASE tau # QLevels[Levels]
    <2> DEFINE j == Between(tau)
    <2>1. Against(y, v, tau) = SignOf(Gap(y, v, tau))
      BY <1>1, <1>4 DEF Against, Gap, Between, Levels
    <2>2. j \in 1..Levels /\ j + 1 \in 1..Levels
      BY <1>1, <1>4, BetweenIs
    <2>3. Gap(y, v, tau) \in Int
      <3> HIDE DEF j
      <3>1. v[j] \in Int /\ v[j + 1] \in Int /\ QLevels[j] \in Int /\ QLevels[j + 1] \in Int
        BY <1>1, <2>2
      <3>2. \A a, b \in Int : a * b \in Int
        OBVIOUS
      <3>3. /\ (y - v[j]) * (QLevels[j + 1] - QLevels[j]) \in Int
            /\ (v[j + 1] - v[j]) * (tau - QLevels[j]) \in Int
        BY <3>1, <3>2
      <3> QED
        BY <3>3 DEF Gap, j
    <2> QED
      BY <1>2, <1>4, <2>1, <2>3
  <1> QED
    BY <1>3, <1>4

\* Products of numbers of known sign.
LEMMA Products ==
    /\ \A a, b \in Int : a * b \in Int
    /\ \A a, b \in Int : a >= 0 /\ b >= 0 => a * b >= 0
    /\ \A a, b, c \in Int : a <= b /\ c >= 0 => a * c <= b * c
    /\ \A a, b, c \in Int : a <= b /\ c >= 0 => c * a <= c * b
    /\ \A a, b \in Int : a * b >= 0 /\ b > 0 => a >= 0
    /\ \A a, b, c \in Int : (a - b) * c = a * c - b * c
    /\ \A a, b, c \in Int : c * (a - b) = c * a - c * b
  OBVIOUS

\* A gap in full: it falls with either quantile.
LEMMA GapIs ==
    ASSUME NEW y \in Int, NEW p \in Int, NEW q \in Int, NEW w \in Int, NEW a \in Int
    PROVE  (y - p) * w - (q - p) * a = y * w - p * (w - a) - q * a
  OBVIOUS

\* What an outcome is above at one level it is above at every lower one, and
\* what it is below at one level it is below at every higher one.
LEMMA QuantilesGrow ==
    ASSUME NEW y \in Int, NEW v, Vector(v), NEW t1 \in Int, NEW t2 \in Int,
           QLevels[1] <= t1, t1 <= t2, t2 <= QLevels[Levels]
    PROVE  /\ Against(y, v, t2) >= 0 => Against(y, v, t1) >= 0
           /\ Against(y, v, t1) <= 0 => Against(y, v, t2) <= 0
  <1>1. /\ Levels \in Nat /\ Levels \in 1..Levels /\ \A i \in 1..Levels : QLevels[i] \in Int
        /\ \A i \in 1..Levels : v[i] \in Int
        /\ \A i, j \in 1..Levels : i <= j => v[i] <= v[j]
        /\ \A i, j \in 1..Levels : i < j => QLevels[i] < QLevels[j]
    BY GridIs DEF Vector
  <1>2. CASE t1 = t2
    BY <1>2
  <1>3. CASE t1 # t2
    <2> DEFINE i == Between(t1)
               w == QLevels[i + 1] - QLevels[i]
               a == t1 - QLevels[i]
    <2>1. /\ i \in 1..Levels /\ i + 1 \in 1..Levels /\ i < i + 1 /\ i <= i + 1
          /\ QLevels[i] <= t1 /\ t1 < QLevels[i + 1]
      BY <1>1, <1>3, BetweenIs
    <2>2. /\ v[i] \in Int /\ v[i + 1] \in Int /\ v[i] <= v[i + 1]
          /\ w \in Int /\ a \in Int /\ 0 <= a /\ a < w
      BY <1>1, <2>1
    <2>3. /\ Against(y, v, t1) >= 0 <=> (y - v[i]) * w - (v[i + 1] - v[i]) * a >= 0
          /\ Against(y, v, t1) <= 0 <=> (y - v[i]) * w - (v[i + 1] - v[i]) * a <= 0
      BY <1>1, <1>3, AgainstIs DEF Gap
    <2> HIDE DEF i, w, a
    \* Above the interval's end, or below its start
    <2>4. y >= v[i + 1] => Against(y, v, t1) >= 0
      <3> SUFFICES ASSUME y >= v[i + 1] PROVE (y - v[i]) * w - (v[i + 1] - v[i]) * a >= 0
        BY <2>3
      <3>1. (v[i + 1] - v[i]) * a <= (v[i + 1] - v[i]) * w
        BY <2>2, Products
      <3>2. (v[i + 1] - v[i]) * w <= (y - v[i]) * w
        BY <2>2, Products
      <3>3. (v[i + 1] - v[i]) * a \in Int /\ (v[i + 1] - v[i]) * w \in Int /\ (y - v[i]) * w \in Int
        BY <2>2, Products
      <3> QED
        BY <3>1, <3>2, <3>3
    <2>5. Against(y, v, t1) <= 0 => y <= v[i + 1]
      <3> SUFFICES ASSUME (y - v[i]) * w - (v[i + 1] - v[i]) * a <= 0, ~(y <= v[i + 1])
                   PROVE  FALSE
        BY <2>3
      <3>1. (v[i + 1] - v[i]) * a <= (v[i + 1] - v[i]) * w
        BY <2>2, Products
      <3>2. (y - v[i]) * w = (y - v[i + 1]) * w + (v[i + 1] - v[i]) * w
        BY <2>2
      <3>3. (y - v[i + 1]) * w > 0
        BY <2>2
      <3>4. (v[i + 1] - v[i]) * a \in Int /\ (v[i + 1] - v[i]) * w \in Int /\ (y - v[i + 1]) * w \in Int
        BY <2>2, Products
      <3> QED
        BY <3>1, <3>2, <3>3, <3>4
    <2>6. CASE t2 = QLevels[Levels]
      <3>1. v[i + 1] <= v[Levels]
        BY <1>1, <2>1
      <3>2. /\ Against(y, v, t2) >= 0 <=> y >= v[Levels]
            /\ Against(y, v, t2) <= 0 <=> y <= v[Levels]
        <4>1. QLevels[1] \in Int /\ QLevels[1] <= t2
          BY <1>1
        <4> QED
          BY <2>6, <4>1, AgainstIs
      <3> QED
        BY <1>1, <2>2, <2>4, <2>5, <3>1, <3>2
    <2>7. CASE t2 # QLevels[Levels]
      <3> DEFINE j == Between(t2)
                 x == QLevels[j + 1] - QLevels[j]
                 b == t2 - QLevels[j]
      <3>1. /\ j \in 1..Levels /\ j + 1 \in 1..Levels /\ j < j + 1 /\ j <= j + 1
            /\ QLevels[j] <= t2 /\ t2 < QLevels[j + 1]
        BY <1>1, <2>7, BetweenIs
      <3>2. /\ v[j] \in Int /\ v[j + 1] \in Int /\ v[j] <= v[j + 1]
            /\ x \in Int /\ b \in Int /\ 0 <= b /\ b < x
        BY <1>1, <3>1
      <3>3. /\ Against(y, v, t2) >= 0 <=> (y - v[j]) * x - (v[j + 1] - v[j]) * b >= 0
            /\ Against(y, v, t2) <= 0 <=> (y - v[j]) * x - (v[j + 1] - v[j]) * b <= 0
        BY <1>1, <2>7, AgainstIs DEF Gap
      <3>4. i <= j
        <4> SUFFICES ASSUME j < i PROVE FALSE
          BY <2>1, <3>1
        <4>1. j + 1 <= i /\ QLevels[j + 1] <= QLevels[i]
          BY <1>1, <2>1, <3>1
        <4> QED
          BY <1>1, <2>1, <3>1, <4>1
      <3>5. CASE i = j
        <4>1. w = x /\ a <= b
          BY <1>1, <2>1, <3>5 DEF w, a, i
        <4> HIDE DEF j, x, b
        <4>2. (v[i + 1] - v[i]) * a <= (v[i + 1] - v[i]) * b
          BY <2>2, <3>2, <4>1, Products
        <4>3. (v[i + 1] - v[i]) * a \in Int /\ (v[i + 1] - v[i]) * b \in Int /\ (y - v[i]) * w \in Int
          BY <2>2, <3>2, Products
        <4> QED
          BY <2>3, <3>3, <3>5, <4>1, <4>2, <4>3
      <3>6. CASE i < j
        <4>1. v[i + 1] <= v[j]
          BY <1>1, <2>1, <3>1, <3>6
        <4> HIDE DEF j, x, b
        <4>2. (v[j + 1] - v[j]) * b >= 0 /\ (v[j + 1] - v[j]) * b \in Int /\ (y - v[j]) * x \in Int
          BY <3>2, Products
        <4>3. ASSUME Against(y, v, t2) >= 0 PROVE y >= v[j]
          <5>1. (y - v[j]) * x >= 0
            BY <3>3, <4>2, <4>3
          <5> QED
            BY <3>2, <5>1, Products
        <4>4. ASSUME y <= v[j] PROVE Against(y, v, t2) <= 0
          <5>1. (v[j] - y) * x >= 0
            BY <3>2, <4>4, Products
          <5>2. (y - v[j]) * x = -((v[j] - y) * x) /\ (v[j] - y) * x \in Int
            BY <3>2
          <5> QED
            BY <3>3, <4>2, <5>1, <5>2
        <4> QED
          BY <2>2, <2>4, <2>5, <3>2, <4>1, <4>3, <4>4
      <3> QED
        BY <2>1, <3>1, <3>4, <3>5, <3>6
    <2> QED
      BY <2>6, <2>7
  <1> QED
    BY <1>2, <1>3

\* One vector has both halves further out than another.
Wider(u, v) ==
    /\ \A k \in 1..Levels : 2 * QLevels[k] < LevelUnits => u[k] <= v[k]
    /\ \A k \in 1..Levels : 2 * QLevels[k] > LevelUnits => u[k] >= v[k]
    /\ \A k \in 1..Levels : 2 * QLevels[k] = LevelUnits => u[k] = v[k]

\* A lower tail that is further out is passed by no fewer outcomes.  The median
\* is on the grid, so an interval of the grid is on one side of it.
LEMMA LowerTail ==
    ASSUME NEW y \in Int, NEW u, NEW v, Vector(u), Vector(v), Wider(u, v),
           NEW tau \in Int, QLevels[1] <= tau, tau <= QLevels[Levels], 2 * tau <= LevelUnits,
           Against(y, v, tau) >= 0
    PROVE  Against(y, u, tau) >= 0
  <1>1. /\ Levels \in Nat /\ Levels \in 1..Levels /\ \A i \in 1..Levels : QLevels[i] \in Int
        /\ \A i \in 1..Levels : v[i] \in Int /\ u[i] \in Int
        /\ \A i, j \in 1..Levels : i < j => QLevels[i] < QLevels[j]
        /\ LevelUnits \in Nat
    BY GridIs DEF Vector
  <1>2. ASSUME NEW k \in 1..Levels, 2 * QLevels[k] <= LevelUnits PROVE u[k] <= v[k]
    <2>1. 2 * QLevels[k] < LevelUnits \/ 2 * QLevels[k] = LevelUnits
      BY <1>1, <1>2
    <2> QED
      BY <1>1, <2>1 DEF Wider
  <1>3. CASE tau = QLevels[Levels]
    <2>1. u[Levels] <= v[Levels]
      BY <1>1, <1>2, <1>3
    <2>2. y >= v[Levels]
      BY <1>3, AgainstIs
    <2>3. y >= u[Levels]
      BY <1>1, <2>1, <2>2
    <2> QED
      BY <1>3, <2>3, AgainstIs
  <1>4. CASE tau # QLevels[Levels]
    <2> DEFINE i == Between(tau)
               w == QLevels[i + 1] - QLevels[i]
               a == tau - QLevels[i]
    <2>1. /\ i \in 1..Levels /\ i + 1 \in 1..Levels
          /\ QLevels[i] <= tau /\ tau < QLevels[i + 1]
      BY <1>1, <1>4, BetweenIs
    <2>2. w \in Int /\ a \in Int /\ 0 <= a /\ a < w
      BY <1>1, <2>1
    <2>3. Against(y, v, tau) >= 0 <=> (y - v[i]) * w - (v[i + 1] - v[i]) * a >= 0
      BY <1>4, AgainstIs DEF Gap
    <2>4. Against(y, u, tau) >= 0 <=> (y - u[i]) * w - (u[i + 1] - u[i]) * a >= 0
      BY <1>4, AgainstIs DEF Gap
    <2>5. 2 * QLevels[i] <= LevelUnits /\ u[i] <= v[i]
      <3>1. 2 * QLevels[i] <= LevelUnits
        BY <1>1, <2>1
      <3> QED
        BY <1>2, <2>1, <3>1
    <2>6. a = 0 \/ u[i + 1] <= v[i + 1]
      <3>1. CASE 2 * QLevels[i + 1] <= LevelUnits
        BY <1>2, <2>1, <3>1
      <3>2. CASE ~(2 * QLevels[i + 1] <= LevelUnits)
        <4>1. PICK m \in 1..Levels : 2 * QLevels[m] = LevelUnits
          BY GridIs
        <4>2. QLevels[i] <= QLevels[m] /\ QLevels[m] < QLevels[i + 1] /\ tau <= QLevels[m]
          BY <1>1, <2>1, <2>5, <3>2, <4>1
        <4>3. ~(i + 1 <= m)
          <5> SUFFICES ASSUME i + 1 <= m PROVE FALSE
            OBVIOUS
          <5>1. QLevels[i + 1] <= QLevels[m]
            BY <1>1, <2>1
          <5> QED
            BY <1>1, <2>1, <4>2, <5>1
        <4>4. ~(m < i)
          BY <1>1, <2>1, <4>2
        <4>5. m = i
          BY <2>1, <4>3, <4>4
        <4> QED
          BY <1>1, <2>1, <4>2, <4>5
      <3> QED
        BY <3>1, <3>2
    <2>7. v[i] \in Int /\ v[i + 1] \in Int /\ u[i] \in Int /\ u[i + 1] \in Int
      BY <1>1, <2>1
    <2> HIDE DEF i, w, a
    <2>8. /\ (y - v[i]) * w - (v[i + 1] - v[i]) * a = y * w - v[i] * (w - a) - v[i + 1] * a
          /\ (y - u[i]) * w - (u[i + 1] - u[i]) * a = y * w - u[i] * (w - a) - u[i + 1] * a
      BY <2>2, <2>7, GapIs
    <2>9. u[i] * (w - a) <= v[i] * (w - a)
      BY <2>2, <2>5, <2>7, Products
    <2>10. u[i + 1] * a <= v[i + 1] * a
      <3>1. CASE a = 0
        BY <2>7, <3>1
      <3>2. CASE u[i + 1] <= v[i + 1]
        BY <2>2, <2>7, <3>2, Products
      <3> QED
        BY <2>6, <3>1, <3>2
    <2>11. /\ y * w \in Int /\ u[i] * (w - a) \in Int /\ v[i] * (w - a) \in Int
           /\ u[i + 1] * a \in Int /\ v[i + 1] * a \in Int
      BY <2>2, <2>7, Products
    <2> QED
      BY <2>3, <2>4, <2>8, <2>9, <2>10, <2>11
  <1> QED
    BY <1>3, <1>4

LEMMA UpperTail ==
    ASSUME NEW y \in Int, NEW u, NEW v, Vector(u), Vector(v), Wider(u, v),
           NEW tau \in Int, QLevels[1] <= tau, tau <= QLevels[Levels], 2 * tau >= LevelUnits,
           Against(y, v, tau) <= 0
    PROVE  Against(y, u, tau) <= 0
  <1>1. /\ Levels \in Nat /\ Levels \in 1..Levels /\ \A i \in 1..Levels : QLevels[i] \in Int
        /\ \A i \in 1..Levels : v[i] \in Int /\ u[i] \in Int
        /\ \A i, j \in 1..Levels : i < j => QLevels[i] < QLevels[j]
        /\ LevelUnits \in Nat
    BY GridIs DEF Vector
  <1>2. ASSUME NEW k \in 1..Levels, 2 * QLevels[k] >= LevelUnits PROVE u[k] >= v[k]
    <2>1. 2 * QLevels[k] > LevelUnits \/ 2 * QLevels[k] = LevelUnits
      BY <1>1, <1>2
    <2> QED
      BY <1>1, <2>1 DEF Wider
  <1>3. CASE tau = QLevels[Levels]
    <2>1. u[Levels] >= v[Levels]
      BY <1>1, <1>2, <1>3
    <2>2. y <= v[Levels]
      BY <1>3, AgainstIs
    <2>3. y <= u[Levels]
      BY <1>1, <2>1, <2>2
    <2> QED
      BY <1>3, <2>3, AgainstIs
  <1>4. CASE tau # QLevels[Levels]
    <2> DEFINE i == Between(tau)
               w == QLevels[i + 1] - QLevels[i]
               a == tau - QLevels[i]
    <2>1. /\ i \in 1..Levels /\ i + 1 \in 1..Levels
          /\ QLevels[i] <= tau /\ tau < QLevels[i + 1]
      BY <1>1, <1>4, BetweenIs
    <2>2. w \in Int /\ a \in Int /\ 0 <= a /\ a < w
      BY <1>1, <2>1
    <2>3. Against(y, v, tau) <= 0 <=> (y - v[i]) * w - (v[i + 1] - v[i]) * a <= 0
      BY <1>4, AgainstIs DEF Gap
    <2>4. Against(y, u, tau) <= 0 <=> (y - u[i]) * w - (u[i + 1] - u[i]) * a <= 0
      BY <1>4, AgainstIs DEF Gap
    <2>5. u[i + 1] >= v[i + 1]
      <3>1. 2 * QLevels[i + 1] >= LevelUnits
        BY <1>1, <2>1
      <3> QED
        BY <1>2, <2>1, <3>1
    <2>6. u[i] >= v[i]
      <3>1. 2 * QLevels[i] >= LevelUnits
        <4> SUFFICES ASSUME 2 * QLevels[i] < LevelUnits PROVE FALSE
          BY <1>1, <2>1
        <4>1. PICK m \in 1..Levels : 2 * QLevels[m] = LevelUnits
          BY GridIs
        <4>2. QLevels[i] < QLevels[m] /\ QLevels[m] < QLevels[i + 1]
          BY <1>1, <2>1, <4>1
        <4>3. ~(i + 1 <= m)
          <5> SUFFICES ASSUME i + 1 <= m PROVE FALSE
            OBVIOUS
          <5>1. QLevels[i + 1] <= QLevels[m]
            BY <1>1, <2>1
          <5> QED
            BY <1>1, <2>1, <4>2, <5>1
        <4>4. ~(m <= i)
          <5> SUFFICES ASSUME m <= i PROVE FALSE
            OBVIOUS
          <5>1. QLevels[m] <= QLevels[i]
            BY <1>1, <2>1
          <5> QED
            BY <1>1, <2>1, <4>2, <5>1
        <4> QED
          BY <2>1, <4>3, <4>4
      <3> QED
        BY <1>2, <2>1, <3>1
    <2>7. v[i] \in Int /\ v[i + 1] \in Int /\ u[i] \in Int /\ u[i + 1] \in Int
      BY <1>1, <2>1
    <2> HIDE DEF i, w, a
    <2>8. /\ (y - v[i]) * w - (v[i + 1] - v[i]) * a = y * w - v[i] * (w - a) - v[i + 1] * a
          /\ (y - u[i]) * w - (u[i + 1] - u[i]) * a = y * w - u[i] * (w - a) - u[i + 1] * a
      BY <2>2, <2>7, GapIs
    <2>9. v[i] * (w - a) <= u[i] * (w - a)
      BY <2>2, <2>6, <2>7, Products
    <2>10. v[i + 1] * a <= u[i + 1] * a
      BY <2>2, <2>5, <2>7, Products
    <2>11. /\ y * w \in Int /\ u[i] * (w - a) \in Int /\ v[i] * (w - a) \in Int
           /\ u[i + 1] * a \in Int /\ v[i + 1] * a \in Int
      BY <2>2, <2>7, Products
    <2> QED
      BY <2>3, <2>4, <2>8, <2>9, <2>10, <2>11
  <1> QED
    BY <1>3, <1>4

TailOf(nominal) == (LevelUnits - nominal) \div 2

LEMMA TailIs ==
    ASSUME NEW nominal \in Nominals, HasInterval(nominal)
    PROVE  LET low == TailOf(nominal)
               high == LevelUnits - TailOf(nominal)
           IN  /\ low \in Int /\ high \in Int
               /\ QLevels[1] <= low /\ low <= QLevels[Levels] /\ 2 * low <= LevelUnits
               /\ QLevels[1] <= high /\ high <= QLevels[Levels] /\ 2 * high >= LevelUnits
  <1>1. /\ LevelUnits \in Nat /\ nominal \in 0..LevelUnits
        /\ QLevels[1] \in Int /\ QLevels[Levels] \in Int
    BY GridIs, JudgementAssumption
  <1>2. TailOf(nominal) \in Int /\ 2 * TailOf(nominal) <= LevelUnits
    BY <1>1 DEF TailOf
  <1>3. TailOf(nominal) >= QLevels[1] /\ LevelUnits - TailOf(nominal) <= QLevels[Levels]
    BY DEF HasInterval, TailOf, Levels
  <1> HIDE DEF TailOf
  <1> QED
    BY <1>1, <1>2, <1>3

\* More outcomes inside.
LEMMA CoveredMore ==
    ASSUME NEW ys \in Seq(Int), NEW u, NEW v, NEW m, NEW n,
           \A t \in DOMAIN ys :
              Against(ys[t], v, TailOf(n)) >= 0 /\ Against(ys[t], v, LevelUnits - TailOf(n)) <= 0
                => Against(ys[t], u, TailOf(m)) >= 0 /\ Against(ys[t], u, LevelUnits - TailOf(m)) <= 0
    PROVE  Covered(ys, u, m) >= Covered(ys, v, n)
  <1> DEFINE Inside(w, k) == {t \in DOMAIN ys : /\ Against(ys[t], w, TailOf(k)) >= 0
                                                /\ Against(ys[t], w, LevelUnits - TailOf(k)) <= 0}
  <1>1. Covered(ys, u, m) = Cardinality(Inside(u, m)) /\ Covered(ys, v, n) = Cardinality(Inside(v, n))
    BY DEF Covered, TailOf
  <1>2. Inside(v, n) \subseteq Inside(u, m)
    OBVIOUS
  <1>3. IsFiniteSet(Inside(u, m))
    <2>1. IsFiniteSet(DOMAIN ys)
      BY FS_Interval, DOMAIN ys = 1..Len(ys), Len(ys) \in Nat, 1 \in Int
    <2> QED
      BY <2>1, FS_Subset
  <1> HIDE DEF Inside
  <1>4. /\ Cardinality(Inside(v, n)) <= Cardinality(Inside(u, m))
    BY <1>2, <1>3, FS_Subset
  <1>5. Cardinality(Inside(v, n)) \in Nat /\ Cardinality(Inside(u, m)) \in Nat
    BY <1>2, <1>3, FS_Subset, FS_CardinalityType
  <1> QED
    BY <1>1, <1>4, <1>5

\* The scores of a vector.
ScoreOK ==
    drill = "score" => \E ys \in Outcomes, qv \in Vectors, nominal \in Nominals :
        /\ input = [ys |-> ys, qv |-> qv, nominal |-> nominal]
        /\ result = [pinball |-> PinballSum(ys, qv), crps |-> Crps(ys, qv),
                     inside |-> IF HasInterval(nominal) THEN Covered(ys, qv, nominal) ELSE Nothing]

LEMMA CoverageGrowing ==
    ASSUME ScoreOK
    PROVE  CoverageGrows
  <1> SUFFICES ASSUME drill = "score", HasInterval(input.nominal)
               PROVE  CoverageGrows
    BY DEF CoverageGrows
  <1>1. PICK ys \in Outcomes, v \in Vectors, n \in Nominals :
            /\ input.ys = ys /\ input.qv = v /\ input.nominal = n
            /\ result.inside = IF HasInterval(n) THEN Covered(ys, v, n) ELSE Nothing
    BY DEF ScoreOK
  <1>2. result.inside = Covered(ys, v, n) /\ HasInterval(n)
    BY <1>1
  <1>3. /\ ys \in Seq(Int) /\ Vector(v) /\ DOMAIN QLevels = 1..Levels
        /\ \A t \in DOMAIN ys : ys[t] \in Int
    BY JudgementAssumption, VectorsAre, GridIs
  <1>4. ASSUME NEW u \in Vectors, Wider(u, v) PROVE Covered(ys, u, n) >= Covered(ys, v, n)
    <2>1. Vector(u)
      BY VectorsAre
    <2>2. ASSUME NEW t \in DOMAIN ys, Against(ys[t], v, TailOf(n)) >= 0,
                 Against(ys[t], v, LevelUnits - TailOf(n)) <= 0
          PROVE  Against(ys[t], u, TailOf(n)) >= 0 /\ Against(ys[t], u, LevelUnits - TailOf(n)) <= 0
      <3>1. Against(ys[t], u, TailOf(n)) >= 0
        BY <1>2, <1>3, <1>4, <2>1, <2>2, LowerTail, TailIs
      <3>2. Against(ys[t], u, LevelUnits - TailOf(n)) <= 0
        BY <1>2, <1>3, <1>4, <2>1, <2>2, UpperTail, TailIs
      <3> QED
        BY <3>1, <3>2
    <2> QED
      BY <1>3, <2>2, CoveredMore
  <1>5. ASSUME NEW m \in Nominals, HasInterval(m), m >= n
        PROVE  Covered(ys, v, m) >= Covered(ys, v, n)
    <2>1. LevelUnits \in Nat /\ m \in Int /\ n \in Int
      BY GridIs, JudgementAssumption
    <2>2. TailOf(m) <= TailOf(n) /\ LevelUnits - TailOf(n) <= LevelUnits - TailOf(m)
      BY <1>5, <2>1 DEF TailOf
    <2>3. ASSUME NEW t \in DOMAIN ys, Against(ys[t], v, TailOf(n)) >= 0,
                 Against(ys[t], v, LevelUnits - TailOf(n)) <= 0
          PROVE  Against(ys[t], v, TailOf(m)) >= 0 /\ Against(ys[t], v, LevelUnits - TailOf(m)) <= 0
      <3>1. /\ TailOf(m) \in Int /\ TailOf(n) \in Int
            /\ LevelUnits - TailOf(m) \in Int /\ LevelUnits - TailOf(n) \in Int
            /\ QLevels[1] <= TailOf(m) /\ TailOf(n) <= QLevels[Levels]
            /\ QLevels[1] <= LevelUnits - TailOf(n) /\ LevelUnits - TailOf(m) <= QLevels[Levels]
        BY <1>2, <1>5, TailIs
      <3>2. Against(ys[t], v, TailOf(m)) >= 0
        BY <1>3, <2>2, <2>3, <3>1, QuantilesGrow
      <3>3. Against(ys[t], v, LevelUnits - TailOf(m)) <= 0
        BY <1>3, <2>2, <2>3, <3>1, QuantilesGrow
      <3> QED
        BY <3>2, <3>3
    <2> QED
      BY <1>3, <2>3, CoveredMore
  <1> QED
    BY <1>1, <1>2, <1>3, <1>4, <1>5 DEF CoverageGrows, Wider

-----------------------------------------------------------------------------
(***************************************************************************)
(* The least scores.  A step away from an empirical quantile costs at least *)
(* its length times the slope there, and the slopes add up to the counts   *)
(* that make it one.                                                       *)
(***************************************************************************)

LEMMA SumMonotone ==
    ASSUME NEW S, IsFiniteSet(S), NEW t, NEW u,
           \A x \in S : t[x] \in Int /\ u[x] \in Int /\ t[x] <= u[x]
    PROVE  SumFunctionOnSet(t, S) <= SumFunctionOnSet(u, S)
  <1> DEFINE Sum(f, T) == SumFunctionOnSet(f, T)
             Good == {T \in SUBSET S : Sum(t, T) <= Sum(u, T)}
  <1>1. {} \in Good
    <2>1. Sum(t, {}) = 0 /\ Sum(u, {}) = 0
      BY SumEmpty
    <2> QED
      BY <2>1
  <1>2. ASSUME NEW T \in SUBSET S, T \in Good, NEW x \in S \ T
        PROVE  T \cup {x} \in Good
    <2>1. IsFiniteSet(T)
      BY FS_Subset
    <2>2. \A y \in T : t[y] \in Int /\ u[y] \in Int
      OBVIOUS
    <2>3. Sum(t, T) \in Int /\ Sum(u, T) \in Int
      BY <2>1, <2>2, SumInt
    <2>4. Sum(t, T \cup {x}) = t[x] + Sum(t, T)
      BY <2>1, SumGrow
    <2>5. Sum(u, T \cup {x}) = u[x] + Sum(u, T)
      BY <2>1, SumGrow
    <2>6. t[x] \in Int /\ u[x] \in Int /\ t[x] <= u[x] /\ Sum(t, T) <= Sum(u, T)
      BY <1>2
    <2>7. Sum(t, T \cup {x}) <= Sum(u, T \cup {x})
      BY <2>3, <2>4, <2>5, <2>6
    <2> QED
      BY <2>7
  <1>3. S \in Good
    <2> HIDE DEF Good
    <2> QED
      BY <1>1, <1>2, OneMore
  <1> QED
    BY <1>3

\* The same term for the members of a part, nothing for the rest.
LEMMA SumOfPart ==
    ASSUME NEW S, IsFiniteSet(S), NEW T \in SUBSET S, NEW e \in Int,
           NEW f, \A x \in T : f[x] = e, \A x \in S \ T : f[x] = 0
    PROVE  SumFunctionOnSet(f, S) = Cardinality(T) * e
  <1>1. \A x \in S : f[x] \in Int
    OBVIOUS
  <1>2. SumFunctionOnSet(f, S) = SumFunctionOnSet(f, T)
    BY <1>1, SumZeros
  <1>3. IsFiniteSet(T) /\ \A x \in T : f[x] = e
    BY FS_Subset
  <1>4. SumFunctionOnSet(f, T) = Cardinality(T) * e
    BY <1>3, SumConst
  <1> QED
    BY <1>2, <1>4

LEMMA SumOfTwo ==
    ASSUME NEW S, IsFiniteSet(S), NEW T \in SUBSET S, NEW e \in Int, NEW d \in Int
    PROVE  SumFunctionOnSet([s \in S |-> (IF s \in T THEN e ELSE 0) + d], S)
             = Cardinality(T) * e + Cardinality(S) * d
  <1> DEFINE part == [s \in S |-> IF s \in T THEN e ELSE 0]
             const == [s \in S |-> d]
             both == [s \in S |-> (IF s \in T THEN e ELSE 0) + d]
  <1>1. (\A x \in T : part[x] = e) /\ (\A x \in S \ T : part[x] = 0)
    OBVIOUS
  <1>2. \A x \in S : const[x] = d
    OBVIOUS
  <1>3. \A x \in S : part[x] \in Int /\ const[x] \in Int /\ both[x] = part[x] + const[x]
    OBVIOUS
  <1> HIDE DEF part, const, both
  <1>4. SumFunctionOnSet(part, S) = Cardinality(T) * e
    BY <1>1, SumOfPart
  <1>5. SumFunctionOnSet(const, S) = Cardinality(S) * d
    BY <1>2, SumConst
  <1>6. SumFunctionOnSet(both, S) = SumFunctionOnSet(part, S) + SumFunctionOnSet(const, S)
    BY <1>3, SumPlus
  <1> QED
    BY <1>4, <1>5, <1>6 DEF both

\* What all outcomes cost at one level.
Losses(ys, q, level) == [t \in 1..Len(ys) |-> Pinball(ys[t], q, level)]
Column(ys, q, level) == SumFunctionOnSet(Losses(ys, q, level), 1..Len(ys))

LEMMA PinballWhole ==
    ASSUME NEW y \in Int, NEW q \in Int, NEW level \in Int
    PROVE  Pinball(y, q, level) \in Int
  BY GridAssumption DEF Pinball

LEMMA ColumnWhole ==
    ASSUME NEW ys \in Seq(Int), NEW q \in Int, NEW level \in Int
    PROVE  /\ \A t \in 1..Len(ys) : Losses(ys, q, level)[t] \in Int
           /\ Column(ys, q, level) \in Int
           /\ Len(ys) \in Nat /\ IsFiniteSet(1..Len(ys)) /\ Cardinality(1..Len(ys)) = Len(ys)
  <1>1. Len(ys) \in Nat /\ \A t \in 1..Len(ys) : ys[t] \in Int
    OBVIOUS
  <1>2. IsFiniteSet(1..Len(ys)) /\ Cardinality(1..Len(ys)) = Len(ys)
    BY <1>1, FS_Interval
  <1>3. \A y \in Int : Pinball(y, q, level) \in Int
    BY PinballWhole
  <1>4. \A t \in 1..Len(ys) : Losses(ys, q, level)[t] \in Int
    BY <1>1, <1>3 DEF Losses
  <1>5. Column(ys, q, level) \in Int
    BY <1>2, <1>4, SumInt DEF Column
  <1> QED
    BY <1>1, <1>2, <1>4, <1>5

\* A step away from q costs at least its length times the slope there, up or down.
LEMMA SlopeUp ==
    ASSUME NEW y \in Int, NEW q \in Int, NEW x \in Int, NEW level \in Int, q <= x
    PROVE  (IF y <= q THEN (x - q) * LevelUnits ELSE 0) + (-((x - q) * level))
             <= Pinball(y, x, level) - Pinball(y, q, level)
  <1>1. LevelUnits \in Nat
    BY GridAssumption
  <1>2. CASE y < q
    <2>1. /\ Pinball(y, x, level) = (LevelUnits - level) * (x - y)
          /\ Pinball(y, q, level) = (LevelUnits - level) * (q - y)
      BY <1>2 DEF Pinball
    <2>2. (LevelUnits - level) * (x - y) - (LevelUnits - level) * (q - y)
            = (x - q) * LevelUnits + (-((x - q) * level))
      BY <1>1
    <2>3. /\ (LevelUnits - level) * (x - y) \in Int /\ (LevelUnits - level) * (q - y) \in Int
          /\ (x - q) * LevelUnits \in Int /\ (x - q) * level \in Int
      BY <1>1
    <2>4. y <= q
      BY <1>2
    <2> QED
      BY <2>1, <2>2, <2>3, <2>4
  <1>3. CASE y = q
    <2>1. Pinball(y, q, level) = 0
      BY <1>3 DEF Pinball
    <2>2. Pinball(y, x, level) = (LevelUnits - level) * (x - q)
      <3>1. CASE x = q
        BY <1>1, <1>3, <3>1 DEF Pinball
      <3>2. CASE x # q
        BY <1>3, <3>2 DEF Pinball
      <3> QED
        BY <3>1, <3>2
    <2>3. (LevelUnits - level) * (x - q) = (x - q) * LevelUnits + (-((x - q) * level))
      BY <1>1
    <2>4. (LevelUnits - level) * (x - q) \in Int
      BY <1>1
    <2> QED
      BY <1>3, <2>1, <2>2, <2>3, <2>4
  <1>4. CASE q < y /\ x <= y
    <2>1. Pinball(y, x, level) = level * (y - x) /\ Pinball(y, q, level) = level * (y - q)
      BY <1>4 DEF Pinball
    <2>2. level * (y - x) - level * (y - q) = -((x - q) * level)
      OBVIOUS
    <2>3. (x - q) * level \in Int
      OBVIOUS
    <2> QED
      BY <1>4, <2>1, <2>2, <2>3
  <1>5. CASE q < y /\ y < x
    <2>1. Pinball(y, x, level) = (LevelUnits - level) * (x - y) /\ Pinball(y, q, level) = level * (y - q)
      BY <1>5 DEF Pinball
    <2>2. (LevelUnits - level) * (x - y) - level * (y - q) = LevelUnits * (x - y) + (-((x - q) * level))
      BY <1>1
    <2>3. LevelUnits * (x - y) >= 0 /\ LevelUnits * (x - y) \in Int /\ (x - q) * level \in Int
      BY <1>1, <1>5, Products
    <2> QED
      BY <1>5, <2>1, <2>2, <2>3
  <1> QED
    BY <1>2, <1>3, <1>4, <1>5

LEMMA SlopeDown ==
    ASSUME NEW y \in Int, NEW q \in Int, NEW x \in Int, NEW level \in Int, x <= q
    PROVE  (IF y < q THEN (x - q) * LevelUnits ELSE 0) + (-((x - q) * level))
             <= Pinball(y, x, level) - Pinball(y, q, level)
  <1>1. LevelUnits \in Nat
    BY GridAssumption
  <1>2. CASE y < x
    <2>1. /\ Pinball(y, x, level) = (LevelUnits - level) * (x - y)
          /\ Pinball(y, q, level) = (LevelUnits - level) * (q - y)
      BY <1>2 DEF Pinball
    <2>2. (LevelUnits - level) * (x - y) - (LevelUnits - level) * (q - y)
            = (x - q) * LevelUnits + (-((x - q) * level))
      BY <1>1
    <2>3. /\ (LevelUnits - level) * (x - y) \in Int /\ (LevelUnits - level) * (q - y) \in Int
          /\ (x - q) * LevelUnits \in Int /\ (x - q) * level \in Int
      BY <1>1
    <2>4. y < q
      BY <1>2
    <2> QED
      BY <2>1, <2>2, <2>3, <2>4
  <1>3. CASE x <= y /\ y < q
    <2>1. Pinball(y, x, level) = level * (y - x) /\ Pinball(y, q, level) = (LevelUnits - level) * (q - y)
      BY <1>3 DEF Pinball
    <2>2. level * (y - x) - (LevelUnits - level) * (q - y)
            = (y - x) * LevelUnits + (x - q) * LevelUnits + (-((x - q) * level))
      BY <1>1
    <2>3. /\ (y - x) * LevelUnits >= 0 /\ (y - x) * LevelUnits \in Int
          /\ (x - q) * LevelUnits \in Int /\ (x - q) * level \in Int
      BY <1>1, <1>3, Products
    <2> QED
      BY <1>3, <2>1, <2>2, <2>3
  <1>4. CASE q <= y
    <2>1. Pinball(y, x, level) = level * (y - x) /\ Pinball(y, q, level) = level * (y - q)
      BY <1>4 DEF Pinball
    <2>2. level * (y - x) - level * (y - q) = -((x - q) * level)
      OBVIOUS
    <2>3. (x - q) * level \in Int
      OBVIOUS
    <2> QED
      BY <1>4, <2>1, <2>2, <2>3
  <1> QED
    BY <1>2, <1>3, <1>4

\* Each outcome costs more by at least a slope, and those in B by LevelUnits more.
Sloped(ys, q, x, level, B) ==
    \A t \in 1..Len(ys) :
        (IF t \in B THEN (x - q) * LevelUnits ELSE 0) + (-((x - q) * level))
          <= Pinball(ys[t], x, level) - Pinball(ys[t], q, level)

\* Where each outcome of a part adds to the slope, the whole does as often.
LEMMA ColumnRises ==
    ASSUME NEW ys \in Seq(Int), NEW q \in Int, NEW x \in Int, NEW level \in Int,
           NEW B \in SUBSET (1..Len(ys)), Sloped(ys, q, x, level, B)
    PROVE  Column(ys, q, level) + (x - q) * (LevelUnits * Cardinality(B) - level * Len(ys))
             <= Column(ys, x, level)
  <1> DEFINE n == Len(ys)
             N == 1..Len(ys)
             c == (x - q) * LevelUnits
             d == -((x - q) * level)
             slope == [t \in N |-> (IF t \in B THEN c ELSE 0) + d]
             old == Losses(ys, q, level)
             new == Losses(ys, x, level)
             least == [t \in N |-> slope[t] + old[t]]
             Sum(f) == SumFunctionOnSet(f, N)
  <1>1. LevelUnits \in Nat /\ n \in Nat /\ IsFiniteSet(N) /\ Cardinality(N) = n
    BY GridAssumption, ColumnWhole
  <1>2. c \in Int /\ d \in Int
    BY <1>1
  <1>3. \A t \in N : old[t] \in Int /\ new[t] \in Int
    BY ColumnWhole
  <1>4. \A t \in N : old[t] = Pinball(ys[t], q, level) /\ new[t] = Pinball(ys[t], x, level)
    BY DEF Losses
  <1>5. \A t \in N : (IF t \in B THEN c ELSE 0) + d <= new[t] - old[t]
    BY <1>4 DEF Sloped
  <1>6. Column(ys, q, level) = Sum(old) /\ Column(ys, x, level) = Sum(new)
    BY DEF Column
  <1>7. IsFiniteSet(B) /\ Cardinality(B) \in Nat /\ B \in SUBSET N
    BY <1>1, FS_Subset, FS_CardinalityType
  <1>8. Cardinality(B) * c + n * d = (x - q) * (LevelUnits * Cardinality(B) - level * n)
    <2>1. \A b, m, e, l \in Int : b * (e * LevelUnits) + m * (-(e * l)) = e * (LevelUnits * b - l * m)
      BY <1>1
    <2> QED
      BY <1>1, <1>7, <2>1
  <1> HIDE DEF c, d, old, new, N
  <1>9. Sum(slope) = Cardinality(B) * c + n * d
    <2>1. IsFiniteSet(N) /\ Cardinality(N) = n
      BY <1>1
    <2>2. B \in SUBSET N
      BY <1>7
    <2>3. SumFunctionOnSet(slope, N) = Cardinality(B) * c + Cardinality(N) * d
      BY <1>2, <2>1, <2>2, SumOfTwo
    <2> QED
      BY <2>1, <2>3
  <1>10. \A t \in N : /\ slope[t] \in Int /\ least[t] = slope[t] + old[t] /\ least[t] \in Int
                      /\ least[t] <= new[t]
    <2> TAKE t \in N
    <2>1. slope[t] = (IF t \in B THEN c ELSE 0) + d /\ least[t] = slope[t] + old[t]
      OBVIOUS
    <2>2. old[t] \in Int /\ new[t] \in Int /\ (IF t \in B THEN c ELSE 0) + d <= new[t] - old[t]
      BY <1>3, <1>5
    <2> HIDE DEF slope, least
    <2> QED
      BY <1>2, <2>1, <2>2
  <1> HIDE DEF slope, least
  <1>11. Sum(least) = Sum(slope) + Sum(old)
    BY <1>1, <1>3, <1>10, SumPlus
  <1>12. Sum(least) <= Sum(new)
    BY <1>1, <1>3, <1>10, SumMonotone
  <1>13. Sum(slope) \in Int /\ Sum(old) \in Int /\ Sum(new) \in Int
    BY <1>1, <1>3, <1>10, SumInt
  <1> QED
    BY <1>6, <1>8, <1>9, <1>11, <1>12, <1>13

\* An empirical quantile is the cheapest at its level.
LEMMA ColumnLeast ==
    ASSUME NEW ys \in Seq(Int), NEW q \in Int, NEW x \in Int, NEW level \in Int,
           IsEmpiricalQuantile(q, level, ys)
    PROVE  Column(ys, q, level) <= Column(ys, x, level)
  <1> DEFINE n == Len(ys)
             Below == {t \in DOMAIN ys : ys[t] < q}
             Upto == {t \in DOMAIN ys : ys[t] <= q}
  <1>1. LevelUnits \in Nat /\ n \in Nat /\ DOMAIN ys = 1..n /\ \A t \in 1..n : ys[t] \in Int
    BY GridAssumption
  <1>2. IsFiniteSet(1..n) /\ Column(ys, q, level) \in Int /\ Column(ys, x, level) \in Int
    BY ColumnWhole
  <1>3. /\ Below \in SUBSET (1..n) /\ Upto \in SUBSET (1..n)
        /\ Cardinality(Below) \in Nat /\ Cardinality(Upto) \in Nat
    <2>1. Below \in SUBSET (1..n) /\ Upto \in SUBSET (1..n)
      BY <1>1
    <2> QED
      BY <1>2, <2>1, FS_Subset, FS_CardinalityType
  <1>4. /\ LevelUnits * Cardinality(Below) <= level * n
        /\ level * n <= LevelUnits * Cardinality(Upto)
    BY DEF IsEmpiricalQuantile
  <1>5. CASE q <= x
    <2>1. Sloped(ys, q, x, level, Upto)
      <3> SUFFICES ASSUME NEW t \in 1..n
                   PROVE  (IF t \in Upto THEN (x - q) * LevelUnits ELSE 0) + (-((x - q) * level))
                            <= Pinball(ys[t], x, level) - Pinball(ys[t], q, level)
        BY DEF Sloped
      <3>1. ys[t] \in Int /\ (t \in Upto <=> ys[t] <= q)
        BY <1>1
      <3> HIDE DEF Upto
      <3> QED
        BY <1>5, <3>1, SlopeUp
    <2> HIDE DEF Upto
    <2>2. Column(ys, q, level) + (x - q) * (LevelUnits * Cardinality(Upto) - level * n)
             <= Column(ys, x, level)
      BY <1>3, <2>1, ColumnRises
    <2>3. /\ LevelUnits * Cardinality(Upto) - level * n >= 0
          /\ LevelUnits * Cardinality(Upto) - level * n \in Int
      BY <1>1, <1>3, <1>4
    <2>4. /\ (x - q) * (LevelUnits * Cardinality(Upto) - level * n) >= 0
          /\ (x - q) * (LevelUnits * Cardinality(Upto) - level * n) \in Int
      BY <1>5, <2>3, Products, x - q \in Int, x - q >= 0
    <2> QED
      BY <1>2, <2>2, <2>4
  <1>6. CASE x <= q
    <2>1. Sloped(ys, q, x, level, Below)
      <3> SUFFICES ASSUME NEW t \in 1..n
                   PROVE  (IF t \in Below THEN (x - q) * LevelUnits ELSE 0) + (-((x - q) * level))
                            <= Pinball(ys[t], x, level) - Pinball(ys[t], q, level)
        BY DEF Sloped
      <3>1. ys[t] \in Int /\ (t \in Below <=> ys[t] < q)
        BY <1>1
      <3> HIDE DEF Below
      <3> QED
        BY <1>6, <3>1, SlopeDown
    <2> HIDE DEF Below
    <2>2. Column(ys, q, level) + (x - q) * (LevelUnits * Cardinality(Below) - level * n)
             <= Column(ys, x, level)
      BY <1>3, <2>1, ColumnRises
    <2>3. /\ level * n - LevelUnits * Cardinality(Below) >= 0
          /\ level * n - LevelUnits * Cardinality(Below) \in Int
          /\ level * n \in Int /\ LevelUnits * Cardinality(Below) \in Int
      BY <1>1, <1>3, <1>4
    <2>4. (q - x) * (level * n - LevelUnits * Cardinality(Below)) >= 0
      BY <1>6, <2>3, Products, q - x \in Int, q - x >= 0
    <2>5. \A a, b \in Int : (x - q) * (a - b) = (q - x) * (b - a) /\ (x - q) * (a - b) \in Int
      OBVIOUS
    <2>6. /\ (x - q) * (LevelUnits * Cardinality(Below) - level * n) >= 0
          /\ (x - q) * (LevelUnits * Cardinality(Below) - level * n) \in Int
      BY <2>3, <2>4, <2>5
    <2> QED
      BY <1>2, <2>2, <2>6
  <1> QED
    BY <1>5, <1>6

\* Sums of sums are ordered when they are column by column.
LEMMA SwapMonotone ==
    ASSUME NEW A, IsFiniteSet(A), NEW B, IsFiniteSet(B), NEW m, NEW w,
           \A x \in A, y \in B : m[x][y] \in Int /\ w[x][y] \in Int,
           \A y \in B : SumFunctionOnSet([x \in A |-> m[x][y]], A)
                          <= SumFunctionOnSet([x \in A |-> w[x][y]], A)
    PROVE  SumFunctionOnSet([x \in A |-> SumFunctionOnSet(m[x], B)], A)
             <= SumFunctionOnSet([x \in A |-> SumFunctionOnSet(w[x], B)], A)
  <1> DEFINE mcol == [y \in B |-> SumFunctionOnSet([x \in A |-> m[x][y]], A)]
             wcol == [y \in B |-> SumFunctionOnSet([x \in A |-> w[x][y]], A)]
  <1>1. SumFunctionOnSet([x \in A |-> SumFunctionOnSet(m[x], B)], A) = SumFunctionOnSet(mcol, B)
    BY SumSwap
  <1>2. SumFunctionOnSet([x \in A |-> SumFunctionOnSet(w[x], B)], A) = SumFunctionOnSet(wcol, B)
    BY SumSwap
  <1>3. \A y \in B : mcol[y] \in Int /\ wcol[y] \in Int /\ mcol[y] <= wcol[y]
    <2> TAKE y \in B
    <2> DEFINE f == [x \in A |-> m[x][y]]
               g == [x \in A |-> w[x][y]]
    <2>1. \A x \in A : f[x] \in Int /\ g[x] \in Int
      OBVIOUS
    <2>2. mcol[y] = SumFunctionOnSet(f, A) /\ wcol[y] = SumFunctionOnSet(g, A)
      OBVIOUS
    <2>3. SumFunctionOnSet(f, A) <= SumFunctionOnSet(g, A)
      OBVIOUS
    <2> HIDE DEF f, g, mcol, wcol
    <2> QED
      BY <2>1, <2>2, <2>3, SumInt
  <1> HIDE DEF mcol, wcol
  <1>4. SumFunctionOnSet(mcol, B) <= SumFunctionOnSet(wcol, B)
    BY <1>3, SumMonotone
  <1> QED
    BY <1>1, <1>2, <1>4

\* Both scores are sums over a table of outcomes and levels.
LossTable(ys, v) == [t \in 1..Len(ys) |-> [k \in 1..Levels |-> Pinball(ys[t], v[k], QLevels[k])]]
CrpsTable(ys, v) ==
    [t \in 1..Len(ys) |-> [k \in 1..(Levels - 1) |->
        (QLevels[k + 1] - QLevels[k])
           * (Pinball(ys[t], v[k], QLevels[k]) + Pinball(ys[t], v[k + 1], QLevels[k + 1]))]]
Total2(table, n, k) == SumFunctionOnSet([t \in 1..n |-> SumFunctionOnSet(table[t], 1..k)], 1..n)

LEMMA ScoresAreTables ==
    ASSUME NEW ys \in Seq(Int), NEW v, Vector(v)
    PROVE  /\ PinballSum(ys, v) = Total2(LossTable(ys, v), Len(ys), Levels)
           /\ Crps(ys, v) = Total2(CrpsTable(ys, v), Len(ys), Levels - 1)
           /\ \A t \in 1..Len(ys) : \A k \in 1..Levels : LossTable(ys, v)[t][k] \in Int
           /\ \A t \in 1..Len(ys) : \A k \in 1..(Levels - 1) : CrpsTable(ys, v)[t][k] \in Int
  <1> DEFINE N == 1..Len(ys)
             loss == LossTable(ys, v)
             crps == CrpsTable(ys, v)
  <1>1. /\ DOMAIN ys = N /\ DOMAIN v = 1..Levels /\ Len(v) = Levels /\ Levels \in Nat
        /\ \A t \in N : ys[t] \in Int
        /\ \A k \in 1..Levels : v[k] \in Int /\ QLevels[k] \in Int
    BY GridIs DEF Vector
  <1>2. \A t \in N : \A k \in 1..Levels : Pinball(ys[t], v[k], QLevels[k]) \in Int
    BY <1>1, PinballWhole
  <1>3. PinballSum(ys, v) = Total2(loss, Len(ys), Levels)
    <2>1. \A t \in N : SumFunction([k \in DOMAIN v |-> Pinball(ys[t], v[k], QLevels[k])])
                          = SumFunctionOnSet(loss[t], 1..Levels)
      <3> TAKE t \in N
      <3> DEFINE f == [k \in DOMAIN v |-> Pinball(ys[t], v[k], QLevels[k])]
      <3>1. loss[t] = f /\ DOMAIN f = 1..Levels
        BY <1>1 DEF LossTable
      <3>2. SumFunction(f) = SumFunctionOnSet(loss[t], 1..Levels)
        <4> HIDE DEF f, loss
        <4> QED
          BY <3>1 DEF SumFunction
      <3> QED
        BY <3>2
    <2> DEFINE g == [t \in DOMAIN ys |-> SumFunction([k \in DOMAIN v |-> Pinball(ys[t], v[k], QLevels[k])])]
               h == [t \in N |-> SumFunctionOnSet(loss[t], 1..Levels)]
    <2>2. g = h /\ DOMAIN g = N
      BY <1>1, <2>1
    <2>3. PinballSum(ys, v) = SumFunction(g)
      BY DEF PinballSum
    <2>4. Total2(loss, Len(ys), Levels) = SumFunctionOnSet(h, N)
      BY DEF Total2
    <2> HIDE DEF g, h
    <2> QED
      BY <2>2, <2>3, <2>4 DEF SumFunction
  <1>4. Crps(ys, v) = Total2(crps, Len(ys), Levels - 1)
    <2> DEFINE row(t) == [k \in 1..(Len(v) - 1) |->
            (QLevels[k + 1] - QLevels[k])
                * (Pinball(ys[t], v[k], QLevels[k]) + Pinball(ys[t], v[k + 1], QLevels[k + 1]))]
    <2>1. \A t \in N : SumFunction(row(t)) = SumFunctionOnSet(crps[t], 1..(Levels - 1))
      <3> TAKE t \in N
      <3>1. crps[t] = row(t) /\ DOMAIN row(t) = 1..(Levels - 1)
        BY <1>1 DEF CrpsTable
      <3>2. SumFunction(row(t)) = SumFunctionOnSet(crps[t], 1..(Levels - 1))
        <4> HIDE DEF row, crps
        <4> QED
          BY <3>1 DEF SumFunction
      <3> QED
        BY <3>2
    <2> DEFINE g == [t \in DOMAIN ys |-> SumFunction(row(t))]
               h == [t \in N |-> SumFunctionOnSet(crps[t], 1..(Levels - 1))]
    <2>2. Crps(ys, v) = SumFunction(g)
      BY DEF Crps
    <2> HIDE DEF row
    <2>3. g = h /\ DOMAIN g = N
      BY <1>1, <2>1
    <2>4. Total2(crps, Len(ys), Levels - 1) = SumFunctionOnSet(h, N)
      BY DEF Total2
    <2> HIDE DEF g, h
    <2> QED
      BY <2>2, <2>3, <2>4 DEF SumFunction
  <1>5. \A t \in N : \A k \in 1..Levels : loss[t][k] \in Int
    BY <1>2 DEF LossTable
  <1>6. \A t \in N : \A k \in 1..(Levels - 1) : crps[t][k] \in Int
    <2> TAKE t \in N
    <2> TAKE k \in 1..(Levels - 1)
    <2>1. k \in 1..Levels /\ k + 1 \in 1..Levels
      BY <1>1
    <2>2. /\ Pinball(ys[t], v[k], QLevels[k]) \in Int
          /\ Pinball(ys[t], v[k + 1], QLevels[k + 1]) \in Int
          /\ QLevels[k] \in Int /\ QLevels[k + 1] \in Int
      BY <1>1, <1>2, <2>1
    <2>3. (QLevels[k + 1] - QLevels[k])
             * (Pinball(ys[t], v[k], QLevels[k]) + Pinball(ys[t], v[k + 1], QLevels[k + 1])) \in Int
      BY <2>2, Products
    <2> QED
      BY <2>3 DEF CrpsTable
  <1> QED
    BY <1>3, <1>4, <1>5, <1>6

\* A level's column of either table.
LEMMA TableColumns ==
    ASSUME NEW ys \in Seq(Int), NEW v, Vector(v)
    PROVE  /\ \A k \in 1..Levels :
                 SumFunctionOnSet([t \in 1..Len(ys) |-> LossTable(ys, v)[t][k]], 1..Len(ys))
                   = Column(ys, v[k], QLevels[k])
           /\ \A k \in 1..(Levels - 1) :
                 SumFunctionOnSet([t \in 1..Len(ys) |-> CrpsTable(ys, v)[t][k]], 1..Len(ys))
                   = (QLevels[k + 1] - QLevels[k])
                       * (Column(ys, v[k], QLevels[k]) + Column(ys, v[k + 1], QLevels[k + 1]))
  <1> DEFINE N == 1..Len(ys)
  <1>1. /\ Levels \in Nat /\ \A k \in 1..Levels : v[k] \in Int /\ QLevels[k] \in Int
        /\ IsFiniteSet(N)
    <2>1. IsFiniteSet(N)
      BY FS_Interval, Len(ys) \in Nat, 1 \in Int
    <2> HIDE DEF N
    <2> QED
      BY <2>1, GridIs DEF Vector
  <1>2. ASSUME NEW k \in 1..Levels
        PROVE  SumFunctionOnSet([t \in N |-> LossTable(ys, v)[t][k]], N) = Column(ys, v[k], QLevels[k])
    <2>1. [t \in N |-> LossTable(ys, v)[t][k]] = Losses(ys, v[k], QLevels[k])
      BY DEF LossTable, Losses
    <2> QED
      BY <2>1 DEF Column
  <1>3. ASSUME NEW k \in 1..(Levels - 1)
        PROVE  SumFunctionOnSet([t \in N |-> CrpsTable(ys, v)[t][k]], N)
                 = (QLevels[k + 1] - QLevels[k])
                     * (Column(ys, v[k], QLevels[k]) + Column(ys, v[k + 1], QLevels[k + 1]))
    <2> DEFINE c == QLevels[k + 1] - QLevels[k]
               f == Losses(ys, v[k], QLevels[k])
               g == Losses(ys, v[k + 1], QLevels[k + 1])
               h == [t \in N |-> f[t] + g[t]]
               all == [t \in N |-> CrpsTable(ys, v)[t][k]]
    <2>1. k \in 1..Levels /\ k + 1 \in 1..Levels
      BY <1>1
    <2>2. v[k] \in Int /\ v[k + 1] \in Int /\ QLevels[k] \in Int /\ QLevels[k + 1] \in Int
      BY <1>1, <2>1
    <2>3. \A t \in N : f[t] \in Int /\ g[t] \in Int
      BY <2>2, ColumnWhole
    <2>4. \A t \in N : all[t] = c * h[t]
      BY DEF CrpsTable, Losses
    <2>5. \A t \in N : h[t] = f[t] + g[t] /\ h[t] \in Int
      <3> HIDE DEF f, g
      <3> QED
        BY <2>3
    <2>6. SumFunctionOnSet(f, N) = Column(ys, v[k], QLevels[k])
           /\ SumFunctionOnSet(g, N) = Column(ys, v[k + 1], QLevels[k + 1])
      BY DEF Column
    <2>7. c \in Int
      BY <2>2
    <2> HIDE DEF f, g, h, all, c, N
    <2>8. SumFunctionOnSet(h, N) = SumFunctionOnSet(f, N) + SumFunctionOnSet(g, N)
      BY <1>1, <2>3, <2>5, SumPlus
    <2>9. SumFunctionOnSet(all, N) = c * SumFunctionOnSet(h, N)
      BY <1>1, <2>4, <2>5, <2>7, SumTimes
    <2> QED
      BY <2>6, <2>8, <2>9 DEF all, c, N
  <1> QED
    BY <1>2, <1>3

\* A vector that is cheapest at every level has the least scores.
LEMMA LeastByLevel ==
    ASSUME NEW ys \in Seq(Int), NEW v, Vector(v), NEW u, Vector(u),
           \A k \in 1..Levels : Column(ys, v[k], QLevels[k]) <= Column(ys, u[k], QLevels[k])
    PROVE  PinballSum(ys, v) <= PinballSum(ys, u) /\ Crps(ys, v) <= Crps(ys, u)
  <1> DEFINE n == Len(ys)
             A == LossTable(ys, v)
             B == LossTable(ys, u)
             C == CrpsTable(ys, v)
             D == CrpsTable(ys, u)
  <1>1. /\ Levels \in Nat /\ n \in Nat
        /\ IsFiniteSet(1..n) /\ IsFiniteSet(1..Levels) /\ IsFiniteSet(1..(Levels - 1))
    BY GridIs, FS_Interval, Len(ys) \in Nat, Levels - 1 \in Int, 1 \in Int
  <1>2. /\ \A k \in 1..Levels : v[k] \in Int /\ u[k] \in Int /\ QLevels[k] \in Int
        /\ \A i, j \in 1..Levels : i < j => QLevels[i] < QLevels[j]
    BY GridIs DEF Vector
  <1>3. /\ PinballSum(ys, v) = Total2(A, n, Levels) /\ PinballSum(ys, u) = Total2(B, n, Levels)
        /\ Crps(ys, v) = Total2(C, n, Levels - 1) /\ Crps(ys, u) = Total2(D, n, Levels - 1)
    BY ScoresAreTables
  <1>4. \A t \in 1..n, k \in 1..Levels : A[t][k] \in Int /\ B[t][k] \in Int
    BY ScoresAreTables
  <1>5. \A t \in 1..n, k \in 1..(Levels - 1) : C[t][k] \in Int /\ D[t][k] \in Int
    BY ScoresAreTables
  <1>6. \A k \in 1..Levels : SumFunctionOnSet([t \in 1..n |-> A[t][k]], 1..n)
                               <= SumFunctionOnSet([t \in 1..n |-> B[t][k]], 1..n)
    <2> TAKE k \in 1..Levels
    <2>1. SumFunctionOnSet([t \in 1..n |-> A[t][k]], 1..n) = Column(ys, v[k], QLevels[k])
      BY TableColumns
    <2>2. SumFunctionOnSet([t \in 1..n |-> B[t][k]], 1..n) = Column(ys, u[k], QLevels[k])
      BY TableColumns
    <2> QED
      BY <2>1, <2>2
  <1>7. \A k \in 1..(Levels - 1) : SumFunctionOnSet([t \in 1..n |-> C[t][k]], 1..n)
                                     <= SumFunctionOnSet([t \in 1..n |-> D[t][k]], 1..n)
    <2> TAKE k \in 1..(Levels - 1)
    <2> DEFINE c == QLevels[k + 1] - QLevels[k]
               p == Column(ys, v[k], QLevels[k]) + Column(ys, v[k + 1], QLevels[k + 1])
               q == Column(ys, u[k], QLevels[k]) + Column(ys, u[k + 1], QLevels[k + 1])
    <2>1. SumFunctionOnSet([t \in 1..n |-> C[t][k]], 1..n) = c * p
      BY TableColumns
    <2>2. SumFunctionOnSet([t \in 1..n |-> D[t][k]], 1..n) = c * q
      BY TableColumns
    <2>3. k \in 1..Levels /\ k + 1 \in 1..Levels /\ k < k + 1
      BY <1>1
    <2>4. c \in Int /\ c >= 0
      BY <1>2, <2>3
    <2>5. /\ Column(ys, v[k], QLevels[k]) \in Int /\ Column(ys, v[k + 1], QLevels[k + 1]) \in Int
          /\ Column(ys, u[k], QLevels[k]) \in Int /\ Column(ys, u[k + 1], QLevels[k + 1]) \in Int
      BY <1>2, <2>3, ColumnWhole
    <2>6. /\ Column(ys, v[k], QLevels[k]) <= Column(ys, u[k], QLevels[k])
          /\ Column(ys, v[k + 1], QLevels[k + 1]) <= Column(ys, u[k + 1], QLevels[k + 1])
      BY <2>3
    <2>7. p \in Int /\ q \in Int /\ p <= q
      BY <2>5, <2>6
    <2> HIDE DEF c, p, q
    <2>8. c * p <= c * q
      BY <2>4, <2>7, Products
    <2> QED
      BY <2>1, <2>2, <2>8
  <1> HIDE DEF A, B, C, D, n
  <1>8. Total2(A, n, Levels) <= Total2(B, n, Levels)
    BY <1>1, <1>4, <1>6, SwapMonotone DEF Total2
  <1>9. Total2(C, n, Levels - 1) <= Total2(D, n, Levels - 1)
    BY <1>1, <1>5, <1>7, SwapMonotone DEF Total2
  <1> QED
    BY <1>3, <1>8, <1>9

LEMMA ScoresProper ==
    ASSUME ScoreOK
    PROVE  ScoresAreProper
  <1> SUFFICES ASSUME drill = "score",
                      \A k \in DOMAIN QLevels : IsEmpiricalQuantile(input.qv[k], QLevels[k], input.ys)
               PROVE  \A other \in Vectors :
                         result.pinball <= PinballSum(input.ys, other) /\ result.crps <= Crps(input.ys, other)
    BY DEF ScoresAreProper
  <1>1. PICK ys \in Outcomes, v \in Vectors :
            /\ input.ys = ys /\ input.qv = v
            /\ result.pinball = PinballSum(ys, v) /\ result.crps = Crps(ys, v)
    BY DEF ScoreOK
  <1>2. ys \in Seq(Int) /\ Vector(v) /\ DOMAIN QLevels = 1..Levels
    BY JudgementAssumption, VectorsAre, GridIs
  <1> TAKE u \in Vectors
  <1>3. Vector(u)
    BY VectorsAre
  <1>4. \A k \in 1..Levels : Column(ys, v[k], QLevels[k]) <= Column(ys, u[k], QLevels[k])
    <2> TAKE k \in 1..Levels
    <2>1. v[k] \in Int /\ u[k] \in Int /\ QLevels[k] \in Int
      BY <1>2, <1>3, GridIs DEF Vector
    <2>2. IsEmpiricalQuantile(v[k], QLevels[k], ys)
      BY <1>1, <1>2
    <2> QED
      BY <1>2, <2>1, <2>2, ColumnLeast
  <1>5. PinballSum(ys, v) <= PinballSum(ys, u) /\ Crps(ys, v) <= Crps(ys, u)
    BY <1>2, <1>3, <1>4, LeastByLevel
  <1> QED
    BY <1>1, <1>5

-----------------------------------------------------------------------------
(***************************************************************************)
(* Gate 1, gate 2 and the grade.                                           *)
(***************************************************************************)

\* Gate 1.
SkillOK ==
    drill = "skill" => \E c \in SkillCases, kind \in {"persistence", "zero"}, metric \in {"rmse", "mae"} :
        /\ input = [forecasts |-> c[1], prints |-> c[2], kind |-> kind, metric |-> metric]
        /\ result = [passed |-> GateSkill(c[1], c[2], kind, metric)]

\* What one error costs.
Cost(e, metric) == IF metric = "rmse" THEN e * e ELSE Magnitude(e)

LEMMA CostIs ==
    ASSUME NEW e \in Int, NEW metric
    PROVE  Cost(e, metric) \in Int /\ Cost(e, metric) >= 0 /\ Cost(0, metric) = 0
  <1>1. e * e \in Int /\ e * e >= 0
    OBVIOUS
  <1> QED
    BY <1>1 DEF Cost, Magnitude

LEMMA LossIsSum ==
    ASSUME NEW errors, NEW n \in Nat, DOMAIN errors = 1..n, \A i \in 1..n : errors[i] \in Int,
           NEW metric
    PROVE  LET t == [i \in 1..n |-> Cost(errors[i], metric)]
           IN  Loss(errors, metric) = SumFunctionOnSet(t, 1..n) /\ Loss(errors, metric) \in Int
  <1> DEFINE t == [i \in 1..n |-> Cost(errors[i], metric)]
  <1>1. Loss(errors, metric) = SumFunctionOnSet(t, 1..n)
    <2>1. DOMAIN t = 1..n
      OBVIOUS
    <2>2. Loss(errors, metric) = SumFunction(t)
      BY DEF Loss, Cost
    <2> QED
      BY <2>1, <2>2 DEF SumFunction
  <1>2. \A i \in 1..n : t[i] \in Int
    BY CostIs
  <1>3. SumFunctionOnSet(t, 1..n) \in Int
    <2> HIDE DEF t
    <2> QED
      BY <1>2, SumInt, FS_Interval, n \in Int, 1 \in Int
  <1> QED
    BY <1>1, <1>3

\* Putting an error right costs no more.
LEMMA LossFalls ==
    ASSUME NEW n \in Nat, NEW d, NEW e, DOMAIN d = 1..n, DOMAIN e = 1..n,
           \A i \in 1..n : d[i] \in Int /\ e[i] \in Int, NEW k \in 1..n, NEW metric,
           e[k] = 0, \A i \in (1..n) \ {k} : e[i] = d[i]
    PROVE  Loss(e, metric) <= Loss(d, metric)
  <1> DEFINE t == [i \in 1..n |-> Cost(d[i], metric)]
             u == [i \in 1..n |-> Cost(e[i], metric)]
             Rest == (1..n) \ {k}
  <1>1. Loss(d, metric) = SumFunctionOnSet(t, 1..n)
    BY LossIsSum
  <1>2. Loss(e, metric) = SumFunctionOnSet(u, 1..n)
    BY LossIsSum
  <1>3. /\ Loss(d, metric) = SumFunctionOnSet(t, 1..n)
        /\ Loss(e, metric) = SumFunctionOnSet(u, 1..n)
    BY <1>1, <1>2
  <1>4. /\ \A i \in 1..n : t[i] \in Int /\ u[i] \in Int
        /\ \A i \in Rest : t[i] = u[i]
        /\ u[k] <= t[k]
    BY CostIs
  <1>5. \A i \in 1..n : t[i] \in Int
    BY <1>4
  <1>6. \A i \in 1..n : u[i] \in Int
    BY <1>4
  <1>7. IsFiniteSet(1..n) /\ IsFiniteSet(Rest)
    BY FS_Interval, FS_Subset, n \in Int, 1 \in Int
  <1> HIDE DEF t, u
  <1>8. SumFunctionOnSet(t, 1..n) = t[k] + SumFunctionOnSet(t, Rest)
    <2> DEFINE N == 1..n
    <2>1. IsFiniteSet(N) /\ k \in N /\ \A i \in N : t[i] \in Int
      BY <1>5, <1>7
    <2> HIDE DEF N
    <2>2. SumFunctionOnSet(t, N) = t[k] + SumFunctionOnSet(t, N \ {k})
      BY <2>1, SumAdd
    <2> QED
      BY <2>2 DEF N
  <1>9. SumFunctionOnSet(u, 1..n) = u[k] + SumFunctionOnSet(u, Rest)
    <2> DEFINE N == 1..n
    <2>1. IsFiniteSet(N) /\ k \in N /\ \A i \in N : u[i] \in Int
      BY <1>6, <1>7
    <2> HIDE DEF N
    <2>2. SumFunctionOnSet(u, N) = u[k] + SumFunctionOnSet(u, N \ {k})
      BY <2>1, SumAdd
    <2> QED
      BY <2>2 DEF N
  <1>10. SumFunctionOnSet(t, Rest) = SumFunctionOnSet(u, Rest)
    BY <1>4, <1>7, SumSame
  <1>11. SumFunctionOnSet(t, Rest) \in Int
    BY <1>4, <1>7, SumInt
  <1> QED
    BY <1>3, <1>4, <1>8, <1>9, <1>10, <1>11

LEMMA BaselineWhole ==
    ASSUME NEW kind, NEW printed \in Seq(Int), NEW i \in DOMAIN printed
    PROVE  BaselineValue(kind, SubSeq(printed, 1, i - 1)) \in Int
  <1> DEFINE prior == SubSeq(printed, 1, i - 1)
  <1>1. Len(printed) \in Nat /\ i \in 1..Len(printed)
    OBVIOUS
  <1>2. prior \in Seq(Int) /\ Len(prior) = i - 1
    BY <1>1, SubSeqProperties
  <1> HIDE DEF prior
  <1>3. prior # <<>> => prior[Len(prior)] \in Int
    BY <1>2
  <1> QED
    BY <1>3 DEF BaselineValue, PersistenceBaseline, ZeroReturnBaseline, prior

LEMMA SkillsAreEarned ==
    ASSUME SkillOK
    PROVE  SkillIsEarned
  <1> SUFFICES ASSUME drill = "skill"
               PROVE  SkillIsEarned
    BY DEF SkillIsEarned
  <1>1. PICK c \in SkillCases, kind \in {"persistence", "zero"}, metric \in {"rmse", "mae"} :
            /\ input = [forecasts |-> c[1], prints |-> c[2], kind |-> kind, metric |-> metric]
            /\ result = [passed |-> GateSkill(c[1], c[2], kind, metric)]
    BY DEF SkillOK
  <1> DEFINE given == c[1]
             printed == c[2]
             n == Len(printed)
             base == [i \in DOMAIN printed |-> BaselineValue(kind, SubSeq(printed, 1, i - 1))]
             errors(g) == [i \in DOMAIN printed |-> printed[i] - g[i]]
  <1>2. given \in Seq(Int) /\ printed \in Seq(Int)
    BY JudgementAssumption
  <1>3. /\ input.forecasts = given /\ input.prints = printed /\ input.kind = kind
        /\ input.metric = metric /\ result.passed = GateSkill(given, printed, kind, metric)
    BY <1>1
  <1> HIDE DEF given, printed
  <1>4. n \in Nat /\ DOMAIN printed = 1..n /\ \A i \in 1..n : printed[i] \in Int
    BY <1>2
  <1>5. \A i \in 1..n : base[i] \in Int
    BY <1>2, <1>4, BaselineWhole
  <1>6. ~GateSkill(base, printed, kind, metric)
    <2>1. errors(base) = BaselineErrors(kind, printed)
      BY DEF BaselineErrors
    <2>2. DOMAIN errors(base) = 1..n /\ \A i \in 1..n : errors(base)[i] \in Int
      BY <1>4, <1>5
    <2>3. Loss(errors(base), metric) \in Int
      <3> DEFINE e == errors(base)
      <3> HIDE DEF e
      <3>1. DOMAIN e = 1..n /\ \A i \in 1..n : e[i] \in Int
        BY <2>2 DEF e
      <3>2. Loss(e, metric) \in Int
        BY <1>4, <3>1, LossIsSum
      <3> QED
        BY <3>2 DEF e
    <2>4. ~(Loss(errors(base), metric) < Loss(errors(base), metric))
      BY <2>3
    <2> QED
      BY <2>1, <2>4 DEF GateSkill
  <1>7. ASSUME GateSkill(given, printed, kind, metric), NEW k \in 1..n
        PROVE  GateSkill([given EXCEPT ![k] = printed[k]], printed, kind, metric)
    <2> DEFINE righted == [given EXCEPT ![k] = printed[k]]
               d == errors(given)
               e == errors(righted)
               b == BaselineErrors(kind, printed)
    <2>1. Len(given) = n /\ n >= 2
      BY <1>7 DEF GateSkill
    <2>2. \A i \in 1..n : /\ given[i] \in Int
                          /\ righted[i] = IF i = k THEN printed[k] ELSE given[i]
      BY <1>2, <2>1
    <2>3. Len(righted) = n
      BY <1>2, <2>1
    <2>4. /\ DOMAIN d = 1..n /\ DOMAIN e = 1..n /\ \A i \in 1..n : d[i] \in Int /\ e[i] \in Int
          /\ e[k] = 0 /\ \A i \in (1..n) \ {k} : e[i] = d[i]
      BY <1>4, <2>2
    <2>5. DOMAIN b = 1..n /\ \A i \in 1..n : b[i] \in Int
      BY <1>4, <1>5 DEF BaselineErrors
    <2>6. Loss(d, metric) < Loss(b, metric)
      BY <1>7 DEF GateSkill
    <2> HIDE DEF d, e, b
    <2>7. Loss(e, metric) <= Loss(d, metric)
      BY <1>4, <2>4, LossFalls
    <2>8. Loss(e, metric) \in Int /\ Loss(d, metric) \in Int /\ Loss(b, metric) \in Int
      BY <1>4, <2>4, <2>5, LossIsSum
    <2>9. Loss(e, metric) < Loss(b, metric)
      BY <2>6, <2>7, <2>8
    <2>10. GateSkill(righted, printed, kind, metric)
      <3> HIDE DEF righted, n
      <3> QED
        BY <1>7, <2>1, <2>3, <2>9 DEF GateSkill, e, b, n
    <2> QED
      BY <2>10
  <1> QED
    BY <1>3, <1>4, <1>6, <1>7 DEF SkillIsEarned

\* Gate 2.
SignOK ==
    drill = "sign" => \E c \in SignCases :
        /\ input.dev = c[1] /\ input.test = c[2] /\ input.expected = c[3]
        /\ result = [passed |-> GateSign(c[1], c[2], c[3], RhoFloor)]

LEMMA RanksWhole ==
    ASSUME NEW s \in Seq(Int)
    PROVE  /\ DOMAIN Ranks(s) = 1..Len(s) /\ Len(s) \in Nat
           /\ \A i \in 1..Len(s) : Ranks(s)[i] \in Int
           /\ Ranks(s) = [i \in 1..Len(s) |-> Ranks(s)[i]]
           /\ Len(Ranks(s)) = Len(s)
  <1> DEFINE n == Len(s)
  <1>1. n \in Nat /\ DOMAIN s = 1..n /\ IsFiniteSet(1..n)
    BY FS_Interval, 1 \in Int, Len(s) \in Nat
  <1>2. ASSUME NEW i \in 1..n PROVE Ranks(s)[i] \in Int
    <2>1. {j \in DOMAIN s : s[j] < s[i]} \in SUBSET (1..n) /\ {j \in DOMAIN s : s[j] = s[i]} \in SUBSET (1..n)
      BY <1>1
    <2>2. /\ Cardinality({j \in DOMAIN s : s[j] < s[i]}) \in Nat
          /\ Cardinality({j \in DOMAIN s : s[j] = s[i]}) \in Nat
      BY <1>1, <2>1, FS_Subset, FS_CardinalityType
    <2> QED
      BY <1>1, <2>2 DEF Ranks
  <1>3. Ranks(s) = [i \in 1..n |-> Ranks(s)[i]] /\ DOMAIN Ranks(s) = 1..n
    BY <1>1 DEF Ranks
  <1>4. Len(Ranks(s)) = n
    BY <1>1, <1>2, <1>3
  <1> QED
    BY <1>1, <1>2, <1>3, <1>4

\* The covariance looks at nothing but ranks.
LEMMA CovarianceOfRanks ==
    ASSUME NEW a, NEW b, NEW x, NEW y, Ranks(x) = Ranks(a), Ranks(y) = Ranks(b)
    PROVE  Covariance(x, y) = Covariance(a, b)
  BY DEF Covariance

\* Ranks stay when values are rescaled, and are mirrored when they are negated.
LEMMA RanksKept ==
    ASSUME NEW s \in Seq(Int)
    PROVE  Rescaled(s) \in Seq(Int) /\ Len(Rescaled(s)) = Len(s) /\ Ranks(Rescaled(s)) = Ranks(s)
  <1> DEFINE r == Rescaled(s)
             n == Len(s)
  <1>1. n \in Nat /\ DOMAIN s = 1..n /\ \A i \in 1..n : s[i] \in Int
    OBVIOUS
  <1>2. /\ DOMAIN r = 1..n
        /\ \A i \in 1..n : r[i] = s[i] * s[i] * s[i] + s[i] - 1 /\ r[i] \in Int
    BY <1>1 DEF Rescaled
  <1>3. r \in Seq(Int) /\ Len(r) = n
    <2>1. r = [i \in 1..n |-> r[i]]
      BY <1>1 DEF Rescaled
    <2> HIDE DEF r
    <2>2. r \in [1..n -> Int]
      BY <1>2, <2>1
    <2> QED
      BY <1>1, <2>2
  <1>4. ASSUME NEW p \in Int, NEW q \in Int, p < q
        PROVE  p * p * p + p - 1 < q * q * q + q - 1
    <2>1. (q - p) * (p * p + p * q + q * q) = q * q * q - p * p * p
      OBVIOUS
    <2>2. 2 * (p * p + p * q + q * q) = p * p + q * q + (p + q) * (p + q)
      OBVIOUS
    <2>3. p * p >= 0 /\ q * q >= 0 /\ (p + q) * (p + q) >= 0
      OBVIOUS
    <2>4. p * p + p * q + q * q >= 0 /\ p * p + p * q + q * q \in Int
      BY <2>2, <2>3
    <2>5. \A u, v \in Int : u > 0 /\ v >= 0 => u * v >= 0
      OBVIOUS
    <2>6. (q - p) * (p * p + p * q + q * q) >= 0
      BY <1>4, <2>4, <2>5
    <2> QED
      BY <1>4, <2>1, <2>6
  <1> HIDE DEF r
  <1>5. \A i, j \in 1..n : (r[j] < r[i] <=> s[j] < s[i]) /\ (r[j] = r[i] <=> s[j] = s[i])
    <2> SUFFICES ASSUME NEW i \in 1..n, NEW j \in 1..n
                 PROVE  (r[j] < r[i] <=> s[j] < s[i]) /\ (r[j] = r[i] <=> s[j] = s[i])
      OBVIOUS
    <2>1. /\ s[i] \in Int /\ s[j] \in Int /\ r[i] \in Int /\ r[j] \in Int
          /\ r[i] = s[i] * s[i] * s[i] + s[i] - 1 /\ r[j] = s[j] * s[j] * s[j] + s[j] - 1
      BY <1>1, <1>2
    <2>2. CASE s[j] < s[i]
      <3>1. r[j] < r[i]
        BY <1>4, <2>1, <2>2
      <3> QED
        BY <2>1, <2>2, <3>1
    <2>3. CASE s[i] < s[j]
      <3>1. r[i] < r[j]
        BY <1>4, <2>1, <2>3
      <3> QED
        BY <2>1, <2>3, <3>1
    <2>4. CASE s[i] = s[j]
      BY <1>1, <1>2, <2>4
    <2> QED
      BY <1>1, <2>2, <2>3, <2>4
  <1>6. Ranks(r) = Ranks(s)
    <2>1. \A i \in 1..n : /\ {j \in DOMAIN r : r[j] < r[i]} = {j \in DOMAIN s : s[j] < s[i]}
                          /\ {j \in DOMAIN r : r[j] = r[i]} = {j \in DOMAIN s : s[j] = s[i]}
      BY <1>1, <1>2, <1>5
    <2> QED
      BY <1>1, <1>2, <2>1 DEF Ranks
  <1> QED
    BY <1>3, <1>6 DEF r

\* The size of two sets apart.
LEMMA ApartAdd ==
    ASSUME NEW A, IsFiniteSet(A), NEW B, IsFiniteSet(B), A \cap B = {}
    PROVE  /\ IsFiniteSet(A \cup B) /\ Cardinality(A) \in Nat /\ Cardinality(B) \in Nat
           /\ Cardinality(A \cup B) = Cardinality(A) + Cardinality(B)
  <1>1. Cardinality(A \cap B) = 0
    BY FS_EmptySet
  <1>2. Cardinality(A) \in Nat /\ Cardinality(B) \in Nat
    BY FS_CardinalityType
  <1>3. IsFiniteSet(A \cup B) /\ Cardinality(A \cup B) = Cardinality(A) + Cardinality(B) - Cardinality(A \cap B)
    BY FS_Union
  <1> QED
    BY <1>1, <1>2, <1>3

LEMMA RanksMirrored ==
    ASSUME NEW s \in Seq(Int)
    PROVE  /\ Negated(s) \in Seq(Int) /\ Len(Negated(s)) = Len(s)
           /\ \A i \in 1..Len(s) : Ranks(Negated(s))[i] = 2 * Len(s) + 2 - Ranks(s)[i]
  <1> DEFINE r == Negated(s)
             n == Len(s)
  <1>1. IsFiniteSet(1..n) /\ Cardinality(1..n) = n
    BY FS_Interval, Len(s) \in Nat
  <1>2. n \in Nat /\ DOMAIN s = 1..n /\ \A i \in 1..n : s[i] \in Int
    OBVIOUS
  <1>3. DOMAIN r = 1..n /\ \A i \in 1..n : r[i] = -s[i] /\ r[i] \in Int
    BY <1>2 DEF Negated
  <1>4. r \in Seq(Int) /\ Len(r) = n
    <2>1. r = [i \in 1..n |-> r[i]]
      BY <1>2 DEF Negated
    <2> HIDE DEF r
    <2>2. r \in [1..n -> Int]
      BY <1>3, <2>1
    <2> QED
      BY <1>2, <2>2
  <1> HIDE DEF r
  <1>5. ASSUME NEW i \in 1..n PROVE Ranks(r)[i] = 2 * n + 2 - Ranks(s)[i]
    <2> DEFINE L == {j \in 1..n : s[j] < s[i]}
               E == {j \in 1..n : s[j] = s[i]}
               G == {j \in 1..n : s[j] > s[i]}
    <2>1. IsFiniteSet(1..n) /\ Cardinality(1..n) = n
      BY <1>1
    <2>2. /\ IsFiniteSet(L) /\ IsFiniteSet(E) /\ IsFiniteSet(G) /\ IsFiniteSet(L \cup E)
          /\ Cardinality(L) \in Nat /\ Cardinality(E) \in Nat /\ Cardinality(G) \in Nat
      BY <2>1, FS_Subset, FS_CardinalityType
    <2>3. L \cap E = {} /\ (L \cup E) \cap G = {} /\ L \cup E \cup G = 1..n
      BY <1>2
    <2> HIDE DEF L, E, G
    <2>4. Cardinality(L \cup E) = Cardinality(L) + Cardinality(E)
      BY <2>2, <2>3, ApartAdd
    <2>5. Cardinality((L \cup E) \cup G) = Cardinality(L \cup E) + Cardinality(G)
      BY <2>2, <2>3, ApartAdd
    <2>6. Cardinality(L) + Cardinality(E) + Cardinality(G) = n
      BY <2>1, <2>3, <2>4, <2>5
    <2>7. Ranks(s)[i] = 2 * Cardinality(L) + Cardinality(E) + 1
      BY <1>2 DEF Ranks, L, E
    <2>8. {j \in DOMAIN r : r[j] < r[i]} = G /\ {j \in DOMAIN r : r[j] = r[i]} = E
      BY <1>2, <1>3 DEF E, G
    <2>9. Ranks(r)[i] = 2 * Cardinality(G) + Cardinality(E) + 1
      BY <1>3, <2>8 DEF Ranks
    <2>10. \A l, e, g \in Nat : l + e + g = n => 2 * g + e + 1 = 2 * n + 2 - (2 * l + e + 1)
      BY <1>2
    <2> QED
      BY <2>2, <2>6, <2>7, <2>9, <2>10
  <1> QED
    BY <1>4, <1>5 DEF r

LEMMA CentredWhole ==
    ASSUME NEW n \in Nat, NEW r, DOMAIN r = 1..n, \A i \in 1..n : r[i] \in Int, Len(r) = n
    PROVE  /\ SumFunctionOnSet(r, 1..n) \in Int
           /\ Centred(r) = [i \in 1..n |-> n * r[i] - SumFunctionOnSet(r, 1..n)]
           /\ \A i \in 1..n : Centred(r)[i] \in Int
  <1>1. IsFiniteSet(1..n)
    BY FS_Interval
  <1>2. SumFunctionOnSet(r, 1..n) \in Int
    BY <1>1, SumInt
  <1>3. Centred(r) = [i \in 1..n |-> n * r[i] - SumFunctionOnSet(r, 1..n)]
    BY DEF Centred, SumFunction
  <1>4. \A i \in 1..n : Centred(r)[i] = n * r[i] - SumFunctionOnSet(r, 1..n) /\ Centred(r)[i] \in Int
    BY <1>2, <1>3
  <1> QED
    BY <1>2, <1>3, <1>4

\* Mirrored ranks are as far from their mean on the other side.
LEMMA CentredMirrored ==
    ASSUME NEW s \in Seq(Int), NEW i \in 1..Len(s)
    PROVE  Centred(Ranks(Negated(s)))[i] = -Centred(Ranks(s))[i]
  <1> DEFINE n == Len(s)
             a == Ranks(s)
             b == Ranks(Negated(s))
             c == 2 * n + 2
  <1>1. n \in Nat /\ IsFiniteSet(1..n) /\ Cardinality(1..n) = n /\ c \in Int
    BY FS_Interval, Len(s) \in Nat
  <1>2. DOMAIN a = 1..n /\ \A j \in 1..n : a[j] \in Int
    BY RanksWhole
  <1>3. Len(a) = n
    BY RanksWhole
  <1>4. Negated(s) \in Seq(Int) /\ Len(Negated(s)) = n /\ \A j \in 1..n : b[j] = c - a[j]
    <2>1. \A j \in 1..n : b[j] = c - a[j]
      <3>1. \A j \in 1..Len(s) : Ranks(Negated(s))[j] = 2 * Len(s) + 2 - Ranks(s)[j]
        BY RanksMirrored
      <3> TAKE j \in 1..n
      <3>2. b[j] = 2 * n + 2 - a[j]
        BY <3>1
      <3>3. a[j] \in Int /\ n \in Nat
        BY <1>1, <1>2
      <3> HIDE DEF a, b, n
      <3> QED
        BY <3>2, <3>3
    <2>2. Negated(s) \in Seq(Int) /\ Len(Negated(s)) = n
      BY RanksMirrored
    <2> QED
      BY <2>1, <2>2
  <1>5. DOMAIN b = 1..n /\ \A j \in 1..n : b[j] \in Int
    BY <1>4, RanksWhole
  <1>6. Len(b) = n
    BY <1>4, RanksWhole
  <1> HIDE DEF a, b
  <1> DEFINE k == [j \in 1..n |-> c]
             A == SumFunctionOnSet(a, 1..n)
             B == SumFunctionOnSet(b, 1..n)
             W == SumFunctionOnSet(k, 1..n)
  <1>7. W = n * c
    <2>1. \A j \in 1..n : k[j] = c
      OBVIOUS
    <2> HIDE DEF k, c
    <2> QED
      BY <1>1, <2>1, SumConst
  <1>8. W = A + B
    <2>1. \A j \in 1..n : a[j] \in Int /\ b[j] \in Int /\ k[j] = a[j] + b[j]
      BY <1>1, <1>2, <1>4, <1>5
    <2> HIDE DEF k
    <2> QED
      BY <1>1, <2>1, SumPlus
  <1>9. A \in Int /\ Centred(a)[i] = n * a[i] - A
    <2>1. A \in Int /\ Centred(a) = [j \in 1..n |-> n * a[j] - A]
      BY <1>1, <1>2, <1>3, CentredWhole
    <2> QED
      BY <2>1
  <1>10. B \in Int /\ Centred(b)[i] = n * b[i] - B
    <2>1. B \in Int /\ Centred(b) = [j \in 1..n |-> n * b[j] - B]
      BY <1>1, <1>5, <1>6, CentredWhole
    <2> QED
      BY <2>1
  <1>11. n * b[i] = n * c - n * a[i] /\ n * c \in Int /\ n * a[i] \in Int
    <2>1. a[i] \in Int /\ b[i] = c - a[i]
      BY <1>2, <1>4
    <2> HIDE DEF c
    <2> QED
      BY <1>1, <2>1
  <1> DEFINE p == n * a[i]
             q == n * b[i]
             u == n * c
  <1> HIDE DEF A, B, W, c
  <1>12. /\ A \in Int /\ B \in Int /\ p \in Int /\ u \in Int /\ q = u - p /\ u = A + B
         /\ Centred(a)[i] = p - A /\ Centred(b)[i] = q - B
    BY <1>7, <1>8, <1>9, <1>10, <1>11
  <1> HIDE DEF p, q, u
  <1>13. Centred(b)[i] = -Centred(a)[i]
    BY <1>12
  <1> QED
    BY <1>13 DEF a, b

LEMMA CovarianceIs ==
    ASSUME NEW a \in Seq(Int), NEW b \in Seq(Int), Len(a) = Len(b)
    PROVE  LET n == Len(a)
               x == Centred(Ranks(a))
               y == Centred(Ranks(b))
           IN  /\ n \in Nat /\ IsFiniteSet(1..n)
               /\ \A i \in 1..n : x[i] \in Int /\ y[i] \in Int
               /\ Covariance(a, b) = SumFunctionOnSet([i \in 1..n |-> x[i] * y[i]], 1..n)
               /\ Covariance(a, b) \in Int
  <1> DEFINE n == Len(a)
             x == Centred(Ranks(a))
             y == Centred(Ranks(b))
             t == [i \in 1..n |-> x[i] * y[i]]
  <1>1. n \in Nat /\ IsFiniteSet(1..n)
    BY FS_Interval, Len(a) \in Nat
  <1>2. DOMAIN x = 1..n /\ \A i \in 1..n : x[i] \in Int
    <2> DEFINE r == Ranks(a)
    <2>1. DOMAIN r = 1..n /\ Len(r) = n /\ \A i \in 1..n : r[i] \in Int
      BY RanksWhole
    <2> HIDE DEF r
    <2>2. /\ \A i \in 1..n : Centred(r)[i] \in Int
          /\ Centred(r) = [i \in 1..n |-> n * r[i] - SumFunctionOnSet(r, 1..n)]
      BY <1>1, <2>1, CentredWhole
    <2> QED
      BY <2>2 DEF r
  <1>3. DOMAIN y = 1..n /\ \A i \in 1..n : y[i] \in Int
    <2> DEFINE r == Ranks(b)
    <2>1. DOMAIN r = 1..n /\ Len(r) = n /\ \A i \in 1..n : r[i] \in Int
      BY RanksWhole
    <2> HIDE DEF r
    <2>2. /\ \A i \in 1..n : Centred(r)[i] \in Int
          /\ Centred(r) = [i \in 1..n |-> n * r[i] - SumFunctionOnSet(r, 1..n)]
      BY <1>1, <2>1, CentredWhole
    <2> QED
      BY <2>2 DEF r
  <1>4. Covariance(a, b) = SumFunctionOnSet(t, 1..n)
    <2>1. Covariance(a, b) = SumFunction(t)
      BY <1>2 DEF Covariance
    <2>2. DOMAIN t = 1..n
      OBVIOUS
    <2> QED
      BY <2>1, <2>2 DEF SumFunction
  <1> HIDE DEF x, y
  <1>5. \A i \in 1..n : t[i] \in Int
    BY <1>2, <1>3
  <1>6. SumFunctionOnSet(t, 1..n) \in Int
    <2> HIDE DEF t
    <2> QED
      BY <1>1, <1>5, SumInt
  <1> QED
    BY <1>1, <1>2, <1>3, <1>4, <1>6 DEF x, y

\* Negating one side turns the covariance round, negating both leaves it.
LEMMA CovarianceFlips ==
    ASSUME NEW a \in Seq(Int), NEW b \in Seq(Int), Len(a) = Len(b)
    PROVE  Covariance(Negated(a), b) = -Covariance(a, b)
  <1> DEFINE n == Len(a)
             neg == Negated(a)
             x == Centred(Ranks(a))
             z == Centred(Ranks(neg))
             y == Centred(Ranks(b))
             t == [i \in 1..n |-> x[i] * y[i]]
             u == [i \in 1..n |-> z[i] * y[i]]
  <1>1. neg \in Seq(Int) /\ Len(neg) = n
    BY RanksMirrored
  <1>2. \A i \in 1..n : z[i] = -x[i]
    BY CentredMirrored
  <1>3. /\ n \in Nat /\ IsFiniteSet(1..n) /\ \A i \in 1..n : x[i] \in Int /\ y[i] \in Int
        /\ Covariance(a, b) = SumFunctionOnSet(t, 1..n)
    BY CovarianceIs
  <1> HIDE DEF neg
  <1>4. Covariance(neg, b) = SumFunctionOnSet(u, 1..n)
    BY <1>1, CovarianceIs
  <1> HIDE DEF x, y, z
  <1>5. \A i \in 1..n : t[i] \in Int /\ u[i] = (-1) * t[i]
    <2> TAKE i \in 1..n
    <2>1. z[i] = -x[i] /\ x[i] \in Int /\ y[i] \in Int
      BY <1>2, <1>3
    <2>2. \A p, q \in Int : p * q \in Int /\ (-p) * q = (-1) * (p * q)
      OBVIOUS
    <2> QED
      BY <2>1, <2>2
  <1> HIDE DEF t, u
  <1>6. SumFunctionOnSet(u, 1..n) = (-1) * SumFunctionOnSet(t, 1..n)
    <2> DEFINE N == 1..n
               c == -1
    <2>1. IsFiniteSet(N) /\ c \in Int /\ \A i \in N : t[i] \in Int /\ u[i] = c * t[i]
      BY <1>3, <1>5
    <2> HIDE DEF N, c
    <2>2. SumFunctionOnSet(u, N) = c * SumFunctionOnSet(t, N)
      BY <2>1, SumTimes
    <2> QED
      BY <2>2 DEF N, c
  <1>7. SumFunctionOnSet(t, 1..n) \in Int
    BY <1>3, <1>5, SumInt
  <1> QED
    BY <1>3, <1>4, <1>6, <1>7 DEF neg

LEMMA CovarianceTurns ==
    ASSUME NEW a \in Seq(Int)
    PROVE  Covariance(Negated(a), Negated(a)) = Covariance(a, a)
  <1> DEFINE n == Len(a)
             neg == Negated(a)
             x == Centred(Ranks(a))
             z == Centred(Ranks(neg))
             t == [i \in 1..n |-> x[i] * x[i]]
             u == [i \in 1..n |-> z[i] * z[i]]
  <1>1. neg \in Seq(Int) /\ Len(neg) = n
    BY RanksMirrored
  <1>2. \A i \in 1..n : z[i] = -x[i]
    BY CentredMirrored
  <1>3. /\ n \in Nat /\ \A i \in 1..n : x[i] \in Int
        /\ Covariance(a, a) = SumFunctionOnSet(t, 1..n)
    BY CovarianceIs
  <1> HIDE DEF neg
  <1>4. Covariance(neg, neg) = SumFunctionOnSet(u, 1..n)
    BY <1>1, CovarianceIs
  <1> HIDE DEF x, z
  <1>5. t = u
    <2>1. \A i \in 1..n : z[i] * z[i] = x[i] * x[i]
      <3> TAKE i \in 1..n
      <3>1. z[i] = -x[i] /\ x[i] \in Int
        BY <1>2, <1>3
      <3>2. \A p \in Int : (-p) * (-p) = p * p
        OBVIOUS
      <3> QED
        BY <3>1, <3>2
    <2> QED
      BY <2>1
  <1> QED
    BY <1>3, <1>4, <1>5 DEF neg

\* What the gate makes of one split.
Claim(sign) == IF sign = "positive" THEN 1 ELSE -1
Passed(dev, test, sign) ==
    /\ sign \in {"positive", "negative"}
    /\ Len(dev[1]) >= MinSamples /\ Len(test[1]) >= MinSamples
    /\ Defined(dev[1], dev[2]) /\ Defined(test[1], test[2])
    /\ SignOf(Covariance(dev[1], dev[2])) = Claim(sign) /\ ReachesFloor(dev[1], dev[2], RhoFloor)
    /\ SignOf(Covariance(test[1], test[2])) = SignOf(Covariance(dev[1], dev[2]))

LEMMA PassedIs ==
    ASSUME NEW dev, NEW test, NEW sign
    PROVE  GateSign(dev, test, sign, RhoFloor) <=> Passed(dev, test, sign)
  BY DEF GateSign, Passed, Claim

SplitRow(s) == s \in Seq(Int) \X Seq(Int) /\ Len(s[1]) = Len(s[2])

\* One split against another with the same numbers.
LEMMA RescaledAlike ==
    ASSUME NEW s, SplitRow(s)
    PROVE  LET r == <<Rescaled(s[1]), s[2]>>
           IN  /\ Len(r[1]) = Len(s[1]) /\ (Defined(r[1], r[2]) <=> Defined(s[1], s[2]))
               /\ Covariance(r[1], r[2]) = Covariance(s[1], s[2])
               /\ Covariance(r[1], r[1]) = Covariance(s[1], s[1])
  <1>1. s[1] \in Seq(Int) /\ s[2] \in Seq(Int)
    BY DEF SplitRow
  <1>2. Len(Rescaled(s[1])) = Len(s[1]) /\ Ranks(Rescaled(s[1])) = Ranks(s[1])
    BY <1>1, RanksKept
  <1>3. /\ Covariance(Rescaled(s[1]), s[2]) = Covariance(s[1], s[2])
        /\ Covariance(Rescaled(s[1]), Rescaled(s[1])) = Covariance(s[1], s[1])
    BY <1>2, CovarianceOfRanks
  <1> QED
    BY <1>2, <1>3 DEF Defined

LEMMA NegatedTurns ==
    ASSUME NEW s, SplitRow(s)
    PROVE  LET r == <<Negated(s[1]), s[2]>>
           IN  /\ Len(r[1]) = Len(s[1]) /\ (Defined(r[1], r[2]) <=> Defined(s[1], s[2]))
               /\ Covariance(s[1], s[2]) \in Int
               /\ Covariance(r[1], r[2]) = -Covariance(s[1], s[2])
               /\ Covariance(r[1], r[1]) = Covariance(s[1], s[1])
  <1>1. s[1] \in Seq(Int) /\ s[2] \in Seq(Int) /\ Len(s[1]) = Len(s[2])
    BY DEF SplitRow
  <1>2. Len(Negated(s[1])) = Len(s[1])
    BY <1>1, RanksMirrored
  <1>3. /\ Covariance(Negated(s[1]), s[2]) = -Covariance(s[1], s[2])
        /\ Covariance(Negated(s[1]), Negated(s[1])) = Covariance(s[1], s[1])
    BY <1>1, CovarianceFlips, CovarianceTurns
  <1>4. Covariance(s[1], s[2]) \in Int
    BY <1>1, CovarianceIs
  <1> QED
    BY <1>2, <1>3, <1>4 DEF Defined

LEMMA SignsAreOrdinal ==
    ASSUME SignOK
    PROVE  SignIsOrdinal
  <1> SUFFICES ASSUME drill = "sign"
               PROVE  SignIsOrdinal
    BY DEF SignIsOrdinal
  <1>1. PICK c \in SignCases :
        /\ input.dev = c[1] /\ input.test = c[2] /\ input.expected = c[3]
        /\ result = [passed |-> GateSign(c[1], c[2], c[3], RhoFloor)]
    BY DEF SignOK
  <1> DEFINE dev == c[1]
             test == c[2]
             sign == c[3]
  <1>2. SplitRow(dev) /\ SplitRow(test)
    BY JudgementAssumption DEF SplitRow
  <1>3. result.passed = GateSign(dev, test, sign, RhoFloor)
    BY <1>1
  <1> HIDE DEF dev, test, sign
  <1>4. GateSign(<<Rescaled(dev[1]), dev[2]>>, <<Rescaled(test[1]), test[2]>>, sign, RhoFloor)
          = GateSign(dev, test, sign, RhoFloor)
    <2> DEFINE d == <<Rescaled(dev[1]), dev[2]>>
               t == <<Rescaled(test[1]), test[2]>>
    <2>1. /\ Len(d[1]) = Len(dev[1]) /\ (Defined(d[1], d[2]) <=> Defined(dev[1], dev[2]))
          /\ Covariance(d[1], d[2]) = Covariance(dev[1], dev[2])
          /\ Covariance(d[1], d[1]) = Covariance(dev[1], dev[1])
          /\ d[2] = dev[2]
      BY <1>2, RescaledAlike
    <2>2. /\ Len(t[1]) = Len(test[1]) /\ (Defined(t[1], t[2]) <=> Defined(test[1], test[2]))
          /\ Covariance(t[1], t[2]) = Covariance(test[1], test[2])
      BY <1>2, RescaledAlike
    <2> HIDE DEF d, t
    <2>3. ReachesFloor(d[1], d[2], RhoFloor) <=> ReachesFloor(dev[1], dev[2], RhoFloor)
      BY <2>1 DEF ReachesFloor
    <2>4. Passed(d, t, sign) <=> Passed(dev, test, sign)
      BY <2>1, <2>2, <2>3 DEF Passed
    <2>5. GateSign(d, t, sign, RhoFloor) <=> GateSign(dev, test, sign, RhoFloor)
      BY <2>4, PassedIs
    <2> QED
      BY <2>5 DEF GateSign, d, t
  <1>5. GateSign(<<Negated(dev[1]), dev[2]>>, <<Negated(test[1]), test[2]>>, Opposite(sign), RhoFloor)
          = GateSign(dev, test, sign, RhoFloor)
    <2> DEFINE d == <<Negated(dev[1]), dev[2]>>
               t == <<Negated(test[1]), test[2]>>
    <2>1. /\ Len(d[1]) = Len(dev[1]) /\ (Defined(d[1], d[2]) <=> Defined(dev[1], dev[2]))
          /\ Covariance(dev[1], dev[2]) \in Int
          /\ Covariance(d[1], d[2]) = -Covariance(dev[1], dev[2])
          /\ Covariance(d[1], d[1]) = Covariance(dev[1], dev[1])
          /\ d[2] = dev[2]
      BY <1>2, NegatedTurns
    <2>2. /\ Len(t[1]) = Len(test[1]) /\ (Defined(t[1], t[2]) <=> Defined(test[1], test[2]))
          /\ Covariance(test[1], test[2]) \in Int
          /\ Covariance(t[1], t[2]) = -Covariance(test[1], test[2])
      BY <1>2, NegatedTurns
    <2> HIDE DEF d, t
    <2>3. Covariance(d[1], d[2]) * Covariance(d[1], d[2])
            = Covariance(dev[1], dev[2]) * Covariance(dev[1], dev[2])
      <3>1. \A p \in Int : (-p) * (-p) = p * p
        OBVIOUS
      <3> QED
        BY <2>1, <3>1
    <2>4. ReachesFloor(d[1], d[2], RhoFloor) <=> ReachesFloor(dev[1], dev[2], RhoFloor)
      BY <2>1, <2>3 DEF ReachesFloor
    <2>5. \A p \in Int : SignOf(-p) = -SignOf(p) /\ SignOf(p) \in Int
      BY DEF SignOf
    <2>6. /\ SignOf(Covariance(d[1], d[2])) = -SignOf(Covariance(dev[1], dev[2]))
          /\ SignOf(Covariance(t[1], t[2])) = -SignOf(Covariance(test[1], test[2]))
          /\ SignOf(Covariance(dev[1], dev[2])) \in Int
          /\ SignOf(Covariance(test[1], test[2])) \in Int
      BY <2>1, <2>2, <2>5
    <2>7. /\ Opposite(sign) \in {"positive", "negative"} <=> sign \in {"positive", "negative"}
          /\ sign \in {"positive", "negative"} => Claim(Opposite(sign)) = -Claim(sign)
          /\ Claim(sign) \in Int
      BY DEF Opposite, Claim
    <2>8. Passed(d, t, Opposite(sign)) <=> Passed(dev, test, sign)
      <3>1. CASE sign \notin {"positive", "negative"}
        BY <2>7, <3>1 DEF Passed
      <3>2. CASE sign \in {"positive", "negative"}
        <4>1. /\ SignOf(Covariance(d[1], d[2])) = Claim(Opposite(sign))
                   <=> SignOf(Covariance(dev[1], dev[2])) = Claim(sign)
              /\ SignOf(Covariance(t[1], t[2])) = SignOf(Covariance(d[1], d[2]))
                   <=> SignOf(Covariance(test[1], test[2])) = SignOf(Covariance(dev[1], dev[2]))
          BY <2>6, <2>7, <3>2
        <4> QED
          BY <2>1, <2>2, <2>4, <2>7, <3>2, <4>1 DEF Passed
      <3> QED
        BY <3>1, <3>2
    <2>9. GateSign(d, t, Opposite(sign), RhoFloor) <=> GateSign(dev, test, sign, RhoFloor)
      BY <2>8, PassedIs
    <2> QED
      BY <2>9 DEF GateSign, d, t
  <1>6. GateSign(dev, test, sign, RhoFloor) => ~GateSign(dev, test, Opposite(sign), RhoFloor)
    <2>1. Passed(dev, test, sign) => ~Passed(dev, test, Opposite(sign))
      BY DEF Passed, Claim, Opposite
    <2> QED
      BY <2>1, PassedIs
  <1>7. input.dev = dev /\ input.test = test /\ input.expected = sign
    BY <1>1 DEF dev, test, sign
  <1> QED
    BY <1>3, <1>4, <1>5, <1>6, <1>7 DEF SignIsOrdinal

\* Grading.
GradeOK ==
    drill = "grade" => \E c \in GradeCases : input = [f |-> c[1], p |-> c[2]] /\ result = GradePairs(<<c>>)

LEMMA GradesAreEven ==
    ASSUME GradeOK
    PROVE  GradeIsEven
  <1> SUFFICES ASSUME drill = "grade", result # Nothing
               PROVE  GradeIsEven
    BY DEF GradeIsEven
  <1>1. PICK c \in GradeCases : input = [f |-> c[1], p |-> c[2]] /\ result = GradePairs(<<c>>)
    BY DEF GradeOK
  <1> DEFINE f == c[1]
             p == c[2]
             mirrored == [f EXCEPT !.point = -f.point, !.sign = Opposite(f.sign),
                                  !.lower = IF f.upper = Nothing THEN Nothing ELSE -f.upper,
                                  !.upper = IF f.lower = Nothing THEN Nothing ELSE -f.lower]
             turned == [p EXCEPT !.value = -p.value]
             claimed == [f EXCEPT !.sign = Opposite(f.sign)]
             late == [p EXCEPT !.realised = 2 * Expected(f) - p.realised]
  <1>2. f \in ForecastRow /\ p \in PrintRow /\ Nothing \notin Int
    BY JudgementAssumption, NothingAssumption
  <1>3. Matches(f, p) /\ result[1] = Grade(f, p)
    <2>1. <<c>>[1] = c /\ DOMAIN <<c>> = {1}
      OBVIOUS
    <2> QED
      BY <1>1, <2>1 DEF GradePairs
  <1>4. input.f = f /\ input.p = p
    BY <1>1
  <1> HIDE DEF f, p
  <1>5. /\ mirrored.point = -f.point /\ mirrored.sign = Opposite(f.sign)
        /\ mirrored.lower = IF f.upper = Nothing THEN Nothing ELSE -f.upper
        /\ mirrored.upper = IF f.lower = Nothing THEN Nothing ELSE -f.lower
        /\ mirrored.kind = f.kind /\ Expected(mirrored) = Expected(f)
        /\ turned.value = -p.value /\ turned.realised = p.realised
        /\ claimed.sign = Opposite(f.sign) /\ claimed.point = f.point
        /\ late.realised = 2 * Expected(f) - p.realised /\ late.target = p.target
        /\ late.event_id = p.event_id
    BY <1>2 DEF ForecastRow, PrintRow, Expected
  <1>6. /\ f.point \in Int /\ p.value \in Int /\ p.realised \in Int
        /\ f.sign \in {"positive", "negative", "none"} /\ Expected(f) \in Int
        /\ f.lower \in Int \cup {Nothing} /\ f.upper \in Int \cup {Nothing}
    BY <1>2 DEF ForecastRow, PrintRow, Expected
  <1> HIDE DEF mirrored, turned, claimed, late
  <1>7. Grade(mirrored, turned) = Grade(f, p)
    <2> DEFINE e == p.value - f.point
               d == turned.value - mirrored.point
    <2>1. d = -e /\ e \in Int /\ d \in Int
      BY <1>5, <1>6
    <2>2. d * d = e * e /\ Magnitude(d) = Magnitude(e)
      BY <2>1 DEF Magnitude
    <2>3. SignAgreement(mirrored, d) = SignAgreement(f, e)
      BY <1>5, <1>6, <2>1 DEF SignAgreement, Opposite
    <2>4. (Nothing \in {mirrored.lower, mirrored.upper}) <=> Nothing \in {f.lower, f.upper}
      BY <1>2, <1>5, <1>6
    <2>5. Nothing \notin {f.lower, f.upper} =>
             (mirrored.lower <= turned.value /\ turned.value <= mirrored.upper
                <=> f.lower <= p.value /\ p.value <= f.upper)
      BY <1>2, <1>5, <1>6
    <2>6. (IF mirrored.kind = "event" THEN turned.realised - Expected(mirrored) ELSE Nothing)
             = (IF f.kind = "event" THEN p.realised - Expected(f) ELSE Nothing)
      BY <1>5
    <2> QED
      BY <2>2, <2>3, <2>4, <2>5, <2>6 DEF Grade
  <1>8. Grade(f, p).sign_agreement # Nothing =>
           Grade(claimed, p).sign_agreement # Grade(f, p).sign_agreement
    BY <1>5, <1>6 DEF Grade, SignAgreement, Opposite
  <1>9. Matches(f, late)
    BY <1>3, <1>5, <1>6 DEF Matches, Magnitude
  <1> QED
    BY <1>3, <1>4, <1>7, <1>8, <1>9 DEF GradeIsEven, mirrored, turned, claimed, late

-----------------------------------------------------------------------------

\* Each of these drills leaves what its function makes of one of its inputs.
JudgeInv == ScoreOK /\ SkillOK /\ SignOK /\ GradeOK

LEMMA JudgesStep ==
    ASSUME JudgeInv, [EvalNext]_(drill_vars)
    PROVE  JudgeInv'
  <1>1. CASE ScoreDrill
    <2>1. PICK ys \in Outcomes, qv \in Vectors, nominal \in Nominals :
              Move("score", [ys |-> ys, qv |-> qv, nominal |-> nominal],
                  [pinball |-> PinballSum(ys, qv), crps |-> Crps(ys, qv),
                   inside |-> IF HasInterval(nominal) THEN Covered(ys, qv, nominal) ELSE Nothing])
      BY <1>1 DEF ScoreDrill
    <2> QED
      BY <2>1 DEF Move, JudgeInv, ScoreOK, SkillOK, SignOK, GradeOK
  <1>2. CASE GateDrill
    <2>1. PICK c \in SkillCases, kind \in {"persistence", "zero"}, metric \in {"rmse", "mae"} :
              Move("skill", [forecasts |-> c[1], prints |-> c[2], kind |-> kind, metric |-> metric],
                   [passed |-> GateSkill(c[1], c[2], kind, metric)])
      BY <1>2 DEF GateDrill
    <2> QED
      BY <2>1 DEF Move, JudgeInv, ScoreOK, SkillOK, SignOK, GradeOK
  <1>3. CASE SignDrill
    <2>1. PICK c \in SignCases :
              Move("sign", [skill |-> result.passed, dev |-> c[1], test |-> c[2], expected |-> c[3]],
                   [passed |-> GateSign(c[1], c[2], c[3], RhoFloor)])
      BY <1>3 DEF SignDrill
    <2>2. input'.dev = c[1] /\ input'.test = c[2] /\ input'.expected = c[3]
      BY <2>1 DEF Move
    <2> QED
      BY <2>1, <2>2 DEF Move, JudgeInv, ScoreOK, SkillOK, SignOK, GradeOK
  <1>4. CASE GradeDrill
    <2>1. PICK c \in GradeCases : Move("grade", [f |-> c[1], p |-> c[2]], GradePairs(<<c>>))
      BY <1>4 DEF GradeDrill
    <2> QED
      BY <2>1 DEF Move, JudgeInv, ScoreOK, SkillOK, SignOK, GradeOK
  <1>5. CASE SplitDrill \/ StartWalk \/ NextRow \/ HotSwapDrill \/ AuditDrill
    <2>1. drill' \in {"split", "walk", "walked", "report", "audit"}
      BY <1>5 DEF SplitDrill, StartWalk, NextRow, HotSwapDrill, AuditDrill, Move
    <2> QED
      BY <2>1 DEF JudgeInv, ScoreOK, SkillOK, SignOK, GradeOK
  <1>6. CASE [DrillNext]_(drill_vars)
    <2>1. drill' \in {"roll", "fill", "queue", "hidden", "pnl", "done"} \/ UNCHANGED <<drill, input, result>>
      BY <1>6 DEF DrillNext, NextDay, FillDrill, StartQueue, QueueEvent, HiddenDrill, StartPnl,
             NextTrade, Finish, drill_vars
    <2> QED
      BY <2>1 DEF JudgeInv, ScoreOK, SkillOK, SignOK, GradeOK
  <1> QED
    BY <1>1, <1>2, <1>3, <1>4, <1>5, <1>6 DEF EvalNext

\* A desk is judged by how good it was and by nothing else: no misreport scores
\* better, a wider interval covers no less, the baseline is not beaten by itself,
\* only the order of the scores counts, and neither side is favoured (scoring.py,
\* gates.py, match.py), for any grid with a median and any series.
THEOREM TheJudgesAreFair == EvalSpec => []JudgementsAreFair
  <1>1. DrillInit => JudgeInv
    BY DEF DrillInit, JudgeInv, ScoreOK, SkillOK, SignOK, GradeOK
  <1>2. JudgeInv /\ [EvalNext]_(drill_vars) => JudgeInv'
    BY JudgesStep
  <1>3. JudgeInv => JudgementsAreFair
    BY ScoresProper, CoverageGrowing, SkillsAreEarned, SignsAreOrdinal, GradesAreEven
       DEF JudgeInv, JudgementsAreFair
  <1> QED
    BY <1>1, <1>2, <1>3, PTL DEF EvalSpec

=============================================================================
