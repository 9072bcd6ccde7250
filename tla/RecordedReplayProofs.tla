------------------------ MODULE RecordedReplayProofs ------------------------
(***************************************************************************)
(* What holds of a recorded replay for every feed, session, interval and   *)
(* budget, and however often the runner is started, dies, is refused or    *)
(* removes an earlier root, while operators use killctl on it.             *)
(*                                                                         *)
(* What a run does to its root depends on nothing that Normalise and       *)
(* DecisionSamples compute, only on their being applied to a feed that     *)
(* stays; the order of the samples and a clean feed are what they are for. *)
(***************************************************************************)
EXTENDS RecordedReplay, SequenceTheorems, FiniteSetTheorems, FunctionTheorems,
        WellFoundedInduction, TLAPS

-----------------------------------------------------------------------------
(***************************************************************************)
(* Where the runner may stand, and what it has written by then.            *)
(***************************************************************************)

\* Between the removal of the old root and the end of the run.
Early == {<<"normalise">>} \cup {"intake"} \X (1..6)
Ticking == {"tick"} \X (Nat \ {0})
Late == ({"records"} \X (1..4)) \cup {<<"verify">>, <<"restore">>}
Last2 == ({"reports"} \X (1..2)) \cup {<<"manifest">>}
Filling == Early \cup Ticking \cup Late \cup Last2
Owning == Filling \cup {<<"seal">>}
Away == {<<"down">>, <<"preflight">>, <<"root">>}

\* The program counter and the files are well-formed.
RootOK ==
    /\ pc \in Away \cup Owning
    /\ attempt \in 0..MaxAttempts
    /\ pc # <<"down">> => attempt >= 1
    /\ files \in [Dirs -> 0..MaxAttempts]

\* While a run owns the root, what is in it is of that run, and there is no
\* manifest before all of it is written.
OneWriter ==
    /\ \A c, d \in Dirs : files[c] # 0 /\ files[d] # 0 => files[c] = files[d]
    /\ pc \in Owning => /\ \A d \in Dirs : files[d] \in {0, attempt}
                        /\ ~torn
                        /\ sealed = NULL
    /\ pc \in Filling => manifest = NULL
    /\ manifest # NULL /\ ~torn => manifest.files = files

RootInv == RootOK /\ OneWriter

LEMMA RootInit == Init => RootInv
  <1> SUFFICES ASSUME Init PROVE RootInv
    OBVIOUS
  <1>1. RootOK
    BY ReplayAssumption DEF Init, RootOK, Away, Unwritten
  <1>2. pc \notin Owning /\ pc \notin Filling
    BY DEF Init, Owning, Filling, Early, Ticking, Late, Last2
  <1>3. OneWriter
    BY <1>2 DEF Init, OneWriter, Unwritten
  <1> QED
    BY <1>1, <1>3 DEF RootInv

\* The stages of a run, each with the step that leaves it.
LEMMA StagesApart ==
    /\ Away \cap Owning = {}
    /\ <<"seal">> \notin Filling
    /\ \A p \in Owning : p[1] \in {"intake", "records", "reports"}
         => p \in ({"intake"} \X (1..6)) \cup ({"records"} \X (1..4)) \cup ({"reports"} \X (1..2))
    /\ \A p \in Owning : p[1] = "tick" => p \in Ticking
  BY DEF Away, Owning, Filling, Early, Ticking, Late, Last2

\* Where an evidence writer takes the runner.
LEMMA WriterMoves ==
    ASSUME pc \in Owning, WriteEvidence
    PROVE  /\ pc \in Filling /\ pc' \in Filling
           /\ \E d \in Dirs : Wrote(d)
           /\ \/ /\ pc \in {"intake"} \X (1..6)
                 /\ pc' \in ({"intake"} \X (1..6)) \cup {<<"tick", 1>>}
              \/ /\ pc \in {"records"} \X (1..4)
                 /\ pc' \in ({"records"} \X (1..4)) \cup {<<"verify">>}
              \/ /\ pc \in {"reports"} \X (1..2)
                 /\ pc' \in ({"reports"} \X (1..2)) \cup {<<"manifest">>}
  <1> DEFINE dirs == [intake |-> Intake, records |-> Records, reports |-> Reports][pc[1]]
             next == [intake |-> <<"tick", 1>>, records |-> <<"verify">>,
                      reports |-> <<"manifest">>][pc[1]]
  <1>1. /\ Wrote(dirs[pc[2]])
        /\ pc' = IF pc[2] = Len(dirs) THEN next ELSE <<pc[1], pc[2] + 1>>
    BY DEF WriteEvidence
  <1>2. pc \in ({"intake"} \X (1..6)) \cup ({"records"} \X (1..4)) \cup ({"reports"} \X (1..2))
    BY StagesApart DEF WriteEvidence
  <1>3. CASE pc \in {"intake"} \X (1..6)
    <2>1. pc[1] = "intake" /\ pc[2] \in 1..6 /\ dirs = Intake /\ next = <<"tick", 1>>
      BY <1>3
    <2>2. dirs[pc[2]] \in Dirs /\ Len(dirs) = 6
      BY <2>1 DEF Intake, Dirs
    <2>3. pc' \in ({"intake"} \X (1..6)) \cup {<<"tick", 1>>}
      BY <1>1, <2>1, <2>2
    <2>4. pc \in Filling /\ pc' \in Filling
      BY <1>3, <2>3 DEF Filling, Early, Ticking
    <2> QED
      BY <1>1, <1>3, <2>2, <2>3, <2>4
  <1>4. CASE pc \in {"records"} \X (1..4)
    <2>1. pc[1] = "records" /\ pc[2] \in 1..4 /\ dirs = Records /\ next = <<"verify">>
      BY <1>4
    <2>2. dirs[pc[2]] \in Dirs /\ Len(dirs) = 4
      BY <2>1 DEF Records, Dirs
    <2>3. pc' \in ({"records"} \X (1..4)) \cup {<<"verify">>}
      BY <1>1, <2>1, <2>2
    <2>4. pc \in Filling /\ pc' \in Filling
      BY <1>4, <2>3 DEF Filling, Late
    <2> QED
      BY <1>1, <1>4, <2>2, <2>3, <2>4
  <1>5. CASE pc \in {"reports"} \X (1..2)
    <2>1. pc[1] = "reports" /\ pc[2] \in 1..2 /\ dirs = Reports /\ next = <<"manifest">>
      BY <1>5
    <2>2. dirs[pc[2]] \in Dirs /\ Len(dirs) = 2
      BY <2>1 DEF Reports, Dirs
    <2>3. pc' \in ({"reports"} \X (1..2)) \cup {<<"manifest">>}
      BY <1>1, <2>1, <2>2
    <2>4. pc \in Filling /\ pc' \in Filling
      BY <1>5, <2>3 DEF Filling, Last2
    <2> QED
      BY <1>1, <1>5, <2>2, <2>3, <2>4
  <1> QED
    BY <1>2, <1>3, <1>4, <1>5

\* A write of the running attempt keeps one writer.
LEMMA WriteKeepsOneWriter ==
    ASSUME RootInv, pc \in Filling, pc' \in Owning,
           UNCHANGED <<attempt, torn, sealed, manifest>>,
           files' \in [Dirs -> {0, attempt}]
    PROVE  RootInv'
  <1>1. pc \in Owning /\ pc' # <<"down">> /\ pc # <<"down">> /\ manifest = NULL
    BY StagesApart DEF Owning, RootInv, OneWriter, Away
  <1>2. attempt \in 1..MaxAttempts
    BY <1>1, ReplayAssumption DEF RootInv, RootOK
  <1>3. RootOK'
    BY <1>1, <1>2, ReplayAssumption DEF RootInv, RootOK
  <1>4. OneWriter'
    BY <1>1 DEF RootInv, OneWriter
  <1> QED
    BY <1>3, <1>4 DEF RootInv

\* A step that leaves the root alone.
LEMMA RootAlone ==
    ASSUME RootInv, pc' \in Away, UNCHANGED <<files, manifest, sealed, torn>>,
           attempt' \in 0..MaxAttempts, pc' # <<"down">> => attempt' >= 1
    PROVE  RootInv'
  <1>1. pc' \notin Owning /\ pc' \notin Filling
    BY StagesApart DEF Owning
  <1>2. RootOK'
    BY DEF RootInv, RootOK
  <1>3. OneWriter'
    BY <1>1 DEF RootInv, OneWriter
  <1> QED
    BY <1>2, <1>3 DEF RootInv

LEMMA RootNext == RootInv /\ [Next]_vars => RootInv'
  <1> SUFFICES ASSUME RootInv, [Next]_vars PROVE RootInv'
    OBVIOUS
  <1> USE StagesApart
  <1>1. CASE UNCHANGED vars
    BY <1>1 DEF vars, root, RootInv, RootOK, OneWriter
  <1>2. CASE Begin
    BY <1>2, RootAlone, ReplayAssumption DEF Begin, root, Away, RootInv, RootOK
  <1>3. CASE Preflight \/ RefuseRoot \/ Crash
    <2>1. pc # <<"down">> /\ pc' \in Away /\ UNCHANGED <<attempt, root, torn>>
      BY <1>3 DEF Preflight, RefuseRoot, Crash, Away
    <2> QED
      BY <2>1, RootAlone DEF root, RootInv, RootOK
  <1>4. CASE PrepareRunRoot
    <2>1. pc' \in Filling /\ pc' \in Owning /\ attempt >= 1
      BY <1>4 DEF PrepareRunRoot, Filling, Owning, Early, RootInv, RootOK
    <2>2. files' = Unwritten /\ manifest' = NULL /\ sealed' = NULL /\ ~torn' /\ attempt' = attempt
      BY <1>4 DEF PrepareRunRoot
    <2>3. RootOK'
      BY <2>1, <2>2, ReplayAssumption DEF RootInv, RootOK, Unwritten
    <2>4. OneWriter'
      BY <2>2 DEF OneWriter, Unwritten
    <2> QED
      BY <2>3, <2>4 DEF RootInv
  <1>5. CASE DieInRemoval
    <2>1. PICK k \in Dirs : files' = [d \in Dirs |-> IF d < k THEN files[d] ELSE 0]
      BY <1>5 DEF DieInRemoval
    <2>2. pc' = <<"down">> /\ torn' /\ attempt' = attempt
      BY <1>5 DEF DieInRemoval
    <2>3. pc' \notin Owning /\ pc' \notin Filling /\ pc' \in Away
      BY <2>2 DEF Away, Owning
    <2>4. RootOK'
      BY <2>1, <2>2, <2>3, ReplayAssumption DEF RootInv, RootOK
    <2>5. OneWriter'
      BY <2>1, <2>2, <2>3 DEF RootInv, OneWriter
    <2> QED
      BY <2>4, <2>5 DEF RootInv
  <1>6. CASE NormaliseEvents
    <2>1. pc \in Filling /\ pc' \in {<<"down">>, <<"intake", 1>>}
      BY <1>6, Zenon DEF NormaliseEvents, Filling, Early
    <2>2. CASE pc' = <<"down">>
      BY <1>6, <2>2, RootAlone DEF NormaliseEvents, root, Away, RootInv, RootOK
    <2>3. CASE pc' = <<"intake", 1>>
      <3>1. pc' \in Owning /\ pc \in Owning
        BY <2>1, <2>3 DEF Owning, Filling, Early
      <3>2. files' = files /\ files \in [Dirs -> {0, attempt}]
        BY <1>6, <3>1 DEF NormaliseEvents, root, RootInv, RootOK, OneWriter
      <3> QED
        BY <1>6, <2>1, <3>1, <3>2, WriteKeepsOneWriter DEF NormaliseEvents, root
    <2> QED
      BY <2>1, <2>2, <2>3
  <1>7. CASE WriteEvidence
    <2>1. pc \in Owning
      BY <1>7 DEF WriteEvidence, RootInv, RootOK, Away
    <2>2. pc \in Filling /\ pc' \in Filling
      BY <1>7, <2>1, WriterMoves
    <2>3. PICK d \in Dirs : Wrote(d)
      BY <1>7, <2>1, WriterMoves
    <2>4. files' \in [Dirs -> {0, attempt}]
      BY <2>1, <2>3 DEF Wrote, RootInv, RootOK, OneWriter
    <2>5. UNCHANGED <<attempt, torn, sealed, manifest>>
      BY <1>7 DEF WriteEvidence
    <2> QED
      BY <2>2, <2>4, <2>5, WriteKeepsOneWriter DEF Owning
  <1>8. CASE DecisionTick
    <2>1. pc \in Ticking
      BY <1>8 DEF DecisionTick, RootInv, RootOK, Away
    <2>2. pc' \in {<<"records", 1>>, <<"tick", pc[2] + 1>>}
      BY <1>8, Zenon DEF DecisionTick
    <2>3. pc \in Filling /\ pc' \in Filling
      BY <2>1, <2>2 DEF Filling, Ticking, Late
    <2>4. files' \in [Dirs -> {0, attempt}]
      <3>1. \A d \in Dirs : files[d] \in {0, attempt}
        BY <2>3 DEF RootInv, OneWriter, Owning
      <3>2. PICK x \in {attempt, files[6]} :
               files' = [files EXCEPT ![7] = attempt, ![8] = attempt, ![6] = x]
        BY <1>8, Zenon DEF DecisionTick
      <3>3. x \in {0, attempt} /\ files \in [Dirs -> {0, attempt}]
        BY <3>1 DEF Dirs, RootInv, RootOK
      <3> QED
        BY <3>2, <3>3
    <2>5. UNCHANGED <<attempt, torn, sealed, manifest>>
      BY <1>8 DEF DecisionTick
    <2> QED
      BY <2>3, <2>4, <2>5, WriteKeepsOneWriter DEF Owning
  <1>9. CASE VerifyReplay
    <2>1. pc \in Filling /\ pc' \in Owning /\ Wrote(14) /\ UNCHANGED <<attempt, torn, sealed, manifest>>
      BY <1>9 DEF VerifyReplay, Filling, Owning, Late
    <2>2. files' \in [Dirs -> {0, attempt}]
      BY <2>1 DEF Wrote, Dirs, Owning, RootInv, RootOK, OneWriter
    <2> QED
      BY <2>1, <2>2, WriteKeepsOneWriter
  <1>10. CASE RestoreLast
    <2>1. CASE pc' = <<"reports", 1>>
      <3>1. pc \in Filling /\ pc' \in Owning /\ Wrote(15) /\ UNCHANGED <<attempt, torn, sealed, manifest>>
        BY <1>10, <2>1 DEF RestoreLast, Filling, Owning, Late, Last2
      <3>2. files' \in [Dirs -> {0, attempt}]
        BY <3>1 DEF Wrote, Dirs, Owning, RootInv, RootOK, OneWriter
      <3> QED
        BY <3>1, <3>2, WriteKeepsOneWriter
    <2>2. CASE pc' = <<"down">>
      <3>1. UNCHANGED <<attempt, torn, sealed, manifest, files>>
        BY <1>10, <2>2 DEF RestoreLast
      <3> QED
        BY <2>2, <3>1, RootAlone DEF Away, RootInv, RootOK
    <2> QED
      BY <1>10, <2>1, <2>2 DEF RestoreLast
  <1>11. CASE WriteManifest
    <2>1. /\ pc \in Owning /\ pc' = <<"seal">> /\ pc' \in Owning /\ pc' \notin Filling
          /\ UNCHANGED <<attempt, torn, sealed, files>> /\ manifest'.files = files
      BY <1>11 DEF WriteManifest, Filling, Owning, Last2
    <2>2. RootOK'
      BY <2>1 DEF RootInv, RootOK, Away
    <2>3. OneWriter'
      BY <2>1 DEF RootInv, OneWriter
    <2> QED
      BY <2>2, <2>3 DEF RootInv
  <1>12. CASE SealManifest
    <2>1. /\ pc' = <<"down">> /\ pc' \in Away /\ pc' \notin Filling /\ pc' \notin Owning
          /\ UNCHANGED <<attempt, torn, manifest, files>>
      BY <1>12 DEF SealManifest, Away, Owning
    <2> QED
      BY <2>1 DEF RootInv, RootOK, OneWriter
  <1>13. CASE Operate \/ Withdraw
    <2>1. UNCHANGED <<pc, attempt, files, manifest, sealed, torn>>
      BY <1>13 DEF Operate, Withdraw, root
    <2> QED
      BY <2>1 DEF RootInv, RootOK, OneWriter
  <1> QED
    BY <1>1, <1>2, <1>3, <1>4, <1>5, <1>6, <1>7, <1>8, <1>9, <1>10, <1>11, <1>12, <1>13 DEF Next

LEMMA RootKept == Spec => []RootInv
  BY RootInit, RootNext, PTL DEF Spec

\* However often the runner is started on what an earlier start left, an
\* evidence root never holds files of two attempts, and a manifest in it lists
\* exactly the files that are there (_prepare_run_root, _write_manifest).
THEOREM OneRunPerRoot == Spec => []OneAttemptPerRoot
  <1>1. RootInv => OneAttemptPerRoot
    BY DEF RootInv, OneWriter, OneAttemptPerRoot
  <1> QED
    BY <1>1, RootKept, PTL

-----------------------------------------------------------------------------
(***************************************************************************)
(* What a run that ends green has done.                                    *)
(***************************************************************************)

\* What the session's rows are is settled by the feed.
LEMMA SessionRowsStay == feed' = feed => SessionRows' = SessionRows
  BY DEF SessionRows, Indexed

LEMMA FeedStays == [Next]_vars => feed' = feed
  BY DEF Next, vars, Begin, Preflight, PrepareRunRoot, RefuseRoot, DieInRemoval,
         NormaliseEvents, WriteEvidence, DecisionTick, VerifyReplay, RestoreLast,
         WriteManifest, SealManifest, Crash, Operate, Withdraw

\* Directories the running attempt has written.
Done(S) == \A d \in S : files[d] = attempt

\* What is written by the time the runner stands where it does.
Progress ==
    /\ pc \in {"intake"} \X (1..6) => Done(0..(pc[2] - 2))
    /\ pc \in Ticking => Done(0..5)
    /\ pc \in {"records"} \X (1..4) => Done(0..(pc[2] + 7))
    /\ pc = <<"verify">> => Done(0..12)
    /\ pc = <<"restore">> => Done((0..12) \cup {14})
    /\ pc = <<"reports", 1>> => Done((0..12) \cup {14, 15})
    /\ pc = <<"reports", 2>> => Done((0..12) \cup {13, 14, 15})
    /\ pc \in {<<"manifest">>, <<"seal">>} => Done(Dirs)

LEMMA Positions ==
    /\ Away \cap (({"intake"} \X (1..6)) \cup Ticking \cup ({"records"} \X (1..4))) = {}
    /\ Ticking \cap (({"intake"} \X (1..6)) \cup ({"records"} \X (1..4))) = {}
    /\ ({"intake"} \X (1..6)) \cap ({"records"} \X (1..4)) = {}
    /\ \A s \in {"normalise", "verify", "restore", "manifest", "seal"} :
         <<s>> \notin Away \cup ({"intake"} \X (1..6)) \cup Ticking
                  \cup ({"records"} \X (1..4)) \cup ({"reports"} \X (1..2))
    /\ \A n \in 1..2 : <<"reports", n>> \notin
         Away \cup ({"intake"} \X (1..6)) \cup Ticking \cup ({"records"} \X (1..4))
  BY DEF Away, Ticking

LEMMA Reporting ==
    \A p \in {<<"reports", 1>>, <<"reports", 2>>, <<"manifest">>, <<"seal">>} :
        /\ p \notin {"intake"} \X (1..6) /\ p \notin Ticking /\ p \notin {"records"} \X (1..4)
        /\ p # <<"verify">> /\ p # <<"restore">>
  BY DEF Ticking

LEMMA ProgressNext == RootInv /\ Progress /\ [Next]_vars => Progress'
  <1> SUFFICES ASSUME RootInv, Progress, [Next]_vars PROVE Progress'
    OBVIOUS
  <1> USE Positions
  <1>0. files \in [Dirs -> 0..MaxAttempts]
    BY DEF RootInv, RootOK
  <1>1. CASE pc' = pc /\ files' = files /\ attempt' = attempt
    BY <1>1, Zenon DEF Progress, Done
  <1>2. CASE pc' \in Away
    <2>1. /\ pc' \notin {"intake"} \X (1..6) /\ pc' \notin Ticking /\ pc' \notin {"records"} \X (1..4)
          /\ pc' \notin {<<"verify">>, <<"restore">>, <<"reports", 1>>, <<"reports", 2>>,
                         <<"manifest">>, <<"seal">>}
      BY <1>2 DEF Away
    <2> QED
      BY <2>1 DEF Progress
  <1>3. CASE PrepareRunRoot
    <2>1. pc' = <<"normalise">>
      BY <1>3 DEF PrepareRunRoot
    <2> QED
      BY <2>1 DEF Progress
  <1>4. CASE NormaliseEvents
    <2>1. pc' \in {<<"down">>, <<"intake", 1>>}
      BY <1>4, Zenon DEF NormaliseEvents
    <2>2. CASE pc' = <<"intake", 1>>
      <3>1. pc' \in {"intake"} \X (1..6) /\ 0..(pc'[2] - 2) = {}
        BY <2>2
      <3> QED
        BY <2>2, <3>1 DEF Progress, Done
    <2> QED
      BY <1>2, <2>1, <2>2 DEF Away
  <1>5. CASE WriteEvidence
    <2> DEFINE dirs == [intake |-> Intake, records |-> Records, reports |-> Reports][pc[1]]
               next == [intake |-> <<"tick", 1>>, records |-> <<"verify">>,
                        reports |-> <<"manifest">>][pc[1]]
    <2>1. /\ files' = [files EXCEPT ![dirs[pc[2]]] = attempt]
          /\ pc' = IF pc[2] = Len(dirs) THEN next ELSE <<pc[1], pc[2] + 1>>
          /\ attempt' = attempt
      BY <1>5 DEF WriteEvidence, Wrote
    <2>2. pc \in ({"intake"} \X (1..6)) \cup ({"records"} \X (1..4)) \cup ({"reports"} \X (1..2))
      BY <1>5, StagesApart DEF WriteEvidence, RootInv, RootOK, Away
    <2>3. CASE pc \in {"intake"} \X (1..6)
      <3>0. PICK n \in 1..6 : pc = <<"intake", n>>
        BY <2>3
      <3>1. pc[1] = "intake" /\ pc[2] = n /\ dirs = Intake /\ next = <<"tick", 1>>
        BY <3>0
      <3>2. dirs[n] = n - 1 /\ Len(dirs) = 6 /\ n - 1 \in Dirs
        BY <3>0, <3>1 DEF Intake, Dirs
      <3>3. Done(0..(n - 2))
        BY <2>3, <3>0, <3>1 DEF Progress
      <3>4. Done(0..(n - 1))'
        BY <1>0, <2>1, <3>1, <3>2, <3>3 DEF Done, Dirs
      <3>5. CASE n = 6
        <4>1. pc' = <<"tick", 1>> /\ Done(0..5)'
          BY <2>1, <3>1, <3>2, <3>4, <3>5
        <4>2. pc' \in Ticking
          BY <4>1 DEF Ticking
        <4> QED
          BY <4>1, <4>2 DEF Progress
      <3>6. CASE n # 6
        <4>1. pc' = <<"intake", n + 1>> /\ pc'[2] - 2 = n - 1 /\ pc' \in {"intake"} \X (1..6)
          BY <2>1, <3>1, <3>2, <3>6
        <4> QED
          BY <3>4, <4>1 DEF Progress
      <3> QED
        BY <3>5, <3>6
    <2>4. CASE pc \in {"records"} \X (1..4)
      <3>0. PICK n \in 1..4 : pc = <<"records", n>>
        BY <2>4
      <3>1. pc[1] = "records" /\ pc[2] = n /\ dirs = Records /\ next = <<"verify">>
        BY <3>0
      <3>2. dirs[n] = n + 8 /\ Len(dirs) = 4 /\ n + 8 \in Dirs
        BY <3>0, <3>1 DEF Records, Dirs
      <3>3. Done(0..(n + 7))
        BY <2>4, <3>0, <3>1 DEF Progress
      <3>4. Done(0..(n + 8))'
        BY <1>0, <2>1, <3>1, <3>2, <3>3 DEF Done, Dirs
      <3>5. CASE n = 4
        <4>1. pc' = <<"verify">> /\ Done(0..12)'
          BY <2>1, <3>1, <3>2, <3>4, <3>5
        <4> QED
          BY <4>1 DEF Progress
      <3>6. CASE n # 4
        <4>1. pc' = <<"records", n + 1>> /\ pc'[2] + 7 = n + 8 /\ pc' \in {"records"} \X (1..4)
          BY <2>1, <3>1, <3>2, <3>6
        <4> QED
          BY <3>4, <4>1 DEF Progress
      <3> QED
        BY <3>5, <3>6
    <2>5. CASE pc \in {"reports"} \X (1..2)
      <3>1. pc[1] = "reports" /\ pc[2] \in 1..2 /\ dirs = Reports /\ next = <<"manifest">>
        BY <2>5
      <3>2. CASE pc = <<"reports", 1>>
        <4>1. dirs[pc[2]] = 13 /\ Len(dirs) = 2
          BY <3>1, <3>2 DEF Reports
        <4>2. pc' = <<"reports", 2>> /\ Done((0..12) \cup {13, 14, 15})'
          BY <1>0, <2>1, <3>2, <4>1 DEF Done, Dirs, Progress
        <4> QED
          BY <4>2, Reporting DEF Progress
      <3>3. CASE pc = <<"reports", 2>>
        <4>1. dirs[pc[2]] = 16 /\ Len(dirs) = 2
          BY <3>1, <3>3 DEF Reports
        <4>2. pc' = <<"manifest">> /\ Done(Dirs)'
          BY <1>0, <2>1, <3>1, <3>3, <4>1 DEF Done, Dirs, Progress
        <4> QED
          BY <4>2, Reporting DEF Progress
      <3> QED
        BY <2>5, <3>2, <3>3
    <2> QED
      BY <2>2, <2>3, <2>4, <2>5
  <1>6. CASE DecisionTick
    <2>1. pc \in Ticking /\ pc[2] \in Nat \ {0}
      BY <1>6 DEF DecisionTick, RootInv, RootOK, Away, Owning, Filling, Early, Ticking, Late, Last2
    <2>2. Done(0..5)
      BY <2>1 DEF Progress
    <2>3. attempt' = attempt
      BY <1>6 DEF DecisionTick
    <2>4. CASE pc[2] = Len(samples)
      <3>1. pc' = <<"records", 1>>
            /\ files' = [files EXCEPT ![7] = attempt, ![8] = attempt, ![6] = attempt]
        BY <1>6, <2>4, Zenon DEF DecisionTick
      <3>2. pc' \in {"records"} \X (1..4) /\ pc'[2] + 7 = 8 /\ Done(0..8)'
        BY <1>0, <2>2, <2>3, <3>1 DEF Done, Dirs
      <3> QED
        BY <3>1, <3>2 DEF Progress
    <2>5. CASE pc[2] # Len(samples)
      <3>1. pc' = <<"tick", pc[2] + 1>>
            /\ files' = [files EXCEPT ![7] = attempt, ![8] = attempt, ![6] = @]
        BY <1>6, <2>5, Zenon DEF DecisionTick
      <3>2. pc' \in Ticking /\ Done(0..5)'
        BY <1>0, <2>1, <2>2, <2>3, <3>1 DEF Done, Dirs, Ticking
      <3> QED
        BY <3>1, <3>2 DEF Progress
    <2> QED
      BY <2>4, <2>5
  <1>7. CASE VerifyReplay
    <2>1. pc = <<"verify">> /\ pc' = <<"restore">> /\ Wrote(14) /\ attempt' = attempt
      BY <1>7 DEF VerifyReplay
    <2>2. Done((0..12) \cup {14})'
      BY <1>0, <2>1 DEF Progress, Done, Wrote, Dirs
    <2> QED
      BY <2>1, <2>2 DEF Progress
  <1>8. CASE RestoreLast
    <2>1. CASE pc' = <<"reports", 1>>
      <3>1. pc = <<"restore">> /\ Wrote(15) /\ attempt' = attempt
        BY <1>8, <2>1 DEF RestoreLast
      <3>2. Done((0..12) \cup {14, 15})'
        BY <1>0, <3>1 DEF Progress, Done, Wrote, Dirs
      <3> QED
        BY <2>1, <3>2, Reporting DEF Progress
    <2> QED
      BY <1>2, <1>8, <2>1 DEF RestoreLast, Away
  <1>9. CASE WriteManifest
    <2>1. pc = <<"manifest">> /\ pc' = <<"seal">> /\ UNCHANGED <<files, attempt>>
      BY <1>9 DEF WriteManifest
    <2> QED
      BY <2>1 DEF Progress, Done
  <1>10. CASE Begin \/ Preflight \/ RefuseRoot \/ DieInRemoval \/ SealManifest \/ Crash
    <2>1. pc' \in {<<"down">>, <<"preflight">>, <<"root">>}
      BY <1>10 DEF Begin, Preflight, RefuseRoot, DieInRemoval, SealManifest, Crash
    <2> QED
      BY <1>2, <2>1 DEF Away
  <1>11. CASE Operate \/ Withdraw \/ UNCHANGED vars
    BY <1>1, <1>11 DEF Operate, Withdraw, vars, root
  <1> QED
    BY <1>3, <1>4, <1>5, <1>6, <1>7, <1>8, <1>9, <1>10, <1>11 DEF Next

-----------------------------------------------------------------------------
(***************************************************************************)
(* The rows of the ledger.                                                 *)
(***************************************************************************)

Replaying == Owning \ {<<"normalise">>}
Through == Late \cup Last2 \cup {<<"seal">>}

\* The ledger of a run holds a row for each tick behind the runner, at the time
\* of its sample and with the count its receipt was written with.
Rows ==
    /\ \E T : ledger \in Seq(T)
    /\ \A i \in 1..Len(ledger) : ledger[i].counts = i
    /\ pc \in Early => ledger = <<>>
    /\ pc \in Replaying => accepted \in Normalise(SessionRows) /\ samples \in DecisionSamples(accepted)
    /\ pc \in Ticking => Len(ledger) = pc[2] - 1
    /\ pc \in Through => Len(ledger) = Len(samples) /\ Len(ledger) >= 1
    /\ pc \in Owning => \A i \in 1..Len(ledger) : ledger[i].ts = samples[i].row.ts

LEMMA GrownSeq ==
    ASSUME NEW T, NEW s \in Seq(T), NEW e
    PROVE  /\ \E U : Append(s, e) \in Seq(U)
           /\ Len(Append(s, e)) = Len(s) + 1
           /\ \A i \in 1..Len(s) : Append(s, e)[i] = s[i]
           /\ Append(s, e)[Len(s) + 1] = e
  <1> DEFINE U == T \cup {e}
  <1>1. s \in Seq(U) /\ e \in U
    BY SeqMonotonic
  <1> HIDE DEF U
  <1>2. Append(s, e) \in Seq(U)
    BY <1>1
  <1>3. /\ Len(Append(s, e)) = Len(s) + 1
        /\ \A i \in 1..Len(s) : Append(s, e)[i] = s[i]
        /\ Append(s, e)[Len(s) + 1] = e
    BY <1>1, AppendProperties
  <1> QED
    BY <1>2, <1>3

LEMMA RowsNext == RootInv /\ Rows /\ [Next]_vars => Rows'
  <1> SUFFICES ASSUME RootInv, Rows, [Next]_vars PROVE Rows'
    OBVIOUS
  <1>0. SessionRows' = SessionRows
    BY FeedStays, SessionRowsStay
  <1>1. PICK T : ledger \in Seq(T)
    BY DEF Rows
  <1>2. CASE ledger' = ledger /\ pc' \in Away
    <2>1. pc' \notin Owning
      BY <1>2, StagesApart
    <2>2. pc' \notin Early /\ pc' \notin Replaying /\ pc' \notin Ticking /\ pc' \notin Through
      BY <2>1 DEF Owning, Filling, Replaying, Through
    <2> QED
      BY <1>2, <2>1, <2>2 DEF Rows
  <1>3. CASE UNCHANGED <<pc, ledger, accepted, samples>>
    BY <1>0, <1>3 DEF Rows
  <1>4. CASE Begin \/ Preflight \/ RefuseRoot \/ DieInRemoval \/ SealManifest \/ Crash
    <2>1. pc' \in {<<"down">>, <<"preflight">>, <<"root">>} /\ ledger' = ledger
      BY <1>4 DEF Begin, Preflight, RefuseRoot, DieInRemoval, SealManifest, Crash, root
    <2> QED
      BY <1>2, <2>1 DEF Away
  <1>5. CASE PrepareRunRoot
    <2>1. pc' = <<"normalise">> /\ ledger' = <<>>
      BY <1>5 DEF PrepareRunRoot
    <2>2. <<>> \in Seq({}) /\ Len(<<>>) = 0
      OBVIOUS
    <2>3. pc' \notin Replaying /\ pc' \notin Ticking /\ pc' \notin Through
      BY <2>1 DEF Replaying, Ticking, Through, Late, Last2
    <2> QED
      BY <2>1, <2>2, <2>3 DEF Rows
  <1>6. CASE NormaliseEvents
    <2>1. /\ pc = <<"normalise">> /\ ledger' = ledger
          /\ accepted' \in Normalise(SessionRows) /\ samples' \in DecisionSamples(accepted')
          /\ pc' \in {<<"down">>, <<"intake", 1>>}
      BY <1>6, Zenon DEF NormaliseEvents, root
    <2>2. CASE pc' = <<"intake", 1>>
      <3>1. ledger = <<>> /\ Len(ledger) = 0
        BY <2>1 DEF Rows, Early
      <3>2. pc' \notin Ticking /\ pc' \notin Through
        BY <2>2 DEF Ticking, Through, Late, Last2
      <3> QED
        BY <1>0, <2>1, <3>1, <3>2 DEF Rows
    <2> QED
      BY <1>2, <2>1, <2>2 DEF Away
  <1>7. CASE WriteEvidence
    <2>1. /\ pc[1] \in {"intake", "records", "reports"}
          /\ pc' = IF pc[2] = Len([intake |-> Intake, records |-> Records, reports |-> Reports][pc[1]])
                   THEN [intake |-> <<"tick", 1>>, records |-> <<"verify">>,
                         reports |-> <<"manifest">>][pc[1]]
                   ELSE <<pc[1], pc[2] + 1>>
          /\ UNCHANGED <<ledger, accepted, samples>>
      BY <1>7 DEF WriteEvidence, run
    <2>2. pc \in Owning
      BY <2>1 DEF RootInv, RootOK, Away
    <2>3. CASE pc \in {"intake"} \X (1..6) /\ pc' \in ({"intake"} \X (1..6)) \cup {<<"tick", 1>>}
      <3>1. pc \in Early /\ pc \in Replaying /\ pc' \notin Through
        BY <2>2, <2>3 DEF Early, Replaying, Through, Late, Last2
      <3>2. /\ ledger = <<>> /\ Len(ledger) = 0
            /\ accepted \in Normalise(SessionRows) /\ samples \in DecisionSamples(accepted)
        BY <3>1 DEF Rows
      <3>3. pc' \in Ticking => pc'[2] = 1
        BY <2>3 DEF Ticking
      <3> QED
        BY <1>0, <2>1, <3>1, <3>2, <3>3 DEF Rows
    <2>4. CASE pc \in {"records"} \X (1..4) /\ pc' \in ({"records"} \X (1..4)) \cup {<<"verify">>}
      <3>1. pc \in Through /\ pc \in Replaying /\ pc' \notin Early /\ pc' \notin Ticking
        BY <2>2, <2>4 DEF Early, Replaying, Through, Late, Ticking
      <3> QED
        BY <1>0, <2>1, <2>2, <3>1 DEF Rows
    <2>5. CASE pc \in {"reports"} \X (1..2) /\ pc' \in ({"reports"} \X (1..2)) \cup {<<"manifest">>}
      <3>1. pc \in Through /\ pc \in Replaying /\ pc' \notin Early /\ pc' \notin Ticking
        BY <2>2, <2>5 DEF Early, Replaying, Through, Last2, Ticking
      <3> QED
        BY <1>0, <2>1, <2>2, <3>1 DEF Rows
    <2> QED
      BY <1>7, <2>2, <2>3, <2>4, <2>5, WriterMoves
  <1>8. CASE DecisionTick
    <2>1. pc \in Ticking /\ pc[2] \in Nat \ {0}
      BY <1>8 DEF DecisionTick, RootInv, RootOK, Away, Owning, Filling, Early, Ticking, Late, Last2
    <2>2. pc \in Owning /\ pc \in Replaying
      BY <2>1 DEF Owning, Filling, Replaying, Ticking
    <2>3. /\ accepted \in Normalise(SessionRows) /\ samples \in DecisionSamples(accepted)
          /\ Len(ledger) = pc[2] - 1
      BY <2>1, <2>2 DEF Rows
    <2>4. PICK e : /\ ledger' = Append(ledger, e)
                   /\ e.counts = Len(ledger) + 1
                   /\ e.ts = samples[pc[2]].row.ts
      <3> DEFINE e == [ts |-> samples[pc[2]].row.ts, prior_target |-> PriorTarget,
                       new_target |-> Step(exposure, TickEventOf(pc[2])).current_target,
                       level |-> level, counts |-> Len(ledger) + 1]
      <3>1. ledger' = Append(ledger, e)
        BY <1>8, Zenon DEF DecisionTick
      <3>2. e.counts = Len(ledger) + 1 /\ e.ts = samples[pc[2]].row.ts
        OBVIOUS
      <3> HIDE DEF e
      <3> QED
        BY <2>3, <3>1, <3>2
    <2>5. /\ \E U : ledger' \in Seq(U)
          /\ Len(ledger') = pc[2]
          /\ \A i \in 1..Len(ledger) : ledger'[i] = ledger[i]
          /\ ledger'[pc[2]] = e
      <3>1. /\ \E U : Append(ledger, e) \in Seq(U)
            /\ Len(Append(ledger, e)) = Len(ledger) + 1
            /\ \A i \in 1..Len(ledger) : Append(ledger, e)[i] = ledger[i]
            /\ Append(ledger, e)[Len(ledger) + 1] = e
        BY ONLY <1>1, GrownSeq
      <3>2. Len(ledger) + 1 = pc[2]
        BY <2>1, <2>3
      <3> QED
        BY ONLY <2>4, <3>1, <3>2
    <2>6. \A i \in 1..Len(ledger') : ledger'[i].counts = i /\ ledger'[i].ts = samples[i].row.ts
      <3>1. \A i \in 1..Len(ledger) : ledger[i].counts = i /\ ledger[i].ts = samples[i].row.ts
        BY <2>2 DEF Rows
      <3> SUFFICES ASSUME NEW i \in 1..Len(ledger')
                   PROVE  ledger'[i].counts = i /\ ledger'[i].ts = samples[i].row.ts
        OBVIOUS
      <3>2. CASE i = pc[2]
        BY <2>1, <2>3, <2>4, <2>5, <3>2
      <3>3. CASE i # pc[2]
        <4>1. i \in 1..Len(ledger)
          BY <2>1, <2>3, <2>5, <3>3
        <4> QED
          BY <2>5, <3>1, <4>1
      <3> QED
        BY <3>2, <3>3
    <2>7. UNCHANGED <<accepted, samples>>
      BY <1>8 DEF DecisionTick
    <2>8. CASE pc[2] = Len(samples)
      <3>1. pc' = <<"records", 1>>
        BY <1>8, <2>8, Zenon DEF DecisionTick
      <3>2. pc' \notin Early /\ pc' \notin Ticking
        BY <3>1 DEF Early, Ticking
      <3>3. Len(ledger') = Len(samples) /\ Len(ledger') >= 1
        BY <2>1, <2>3, <2>5, <2>8
      <3> QED
        BY <1>0, <2>3, <2>5, <2>6, <2>7, <3>2, <3>3 DEF Rows
    <2>9. CASE pc[2] # Len(samples)
      <3>1. pc' = <<"tick", pc[2] + 1>>
        BY <1>8, <2>9, Zenon DEF DecisionTick
      <3>2. pc' \notin Early /\ pc' \notin Through /\ pc'[2] - 1 = pc[2]
        BY <2>1, <3>1 DEF Early, Through, Late, Last2
      <3> QED
        BY <1>0, <2>3, <2>5, <2>6, <2>7, <3>2 DEF Rows
    <2> QED
      BY <2>8, <2>9
  <1>9. CASE VerifyReplay \/ RestoreLast \/ WriteManifest
    <2>1. CASE pc' = <<"down">>
      BY <1>2, <1>9, <2>1 DEF VerifyReplay, RestoreLast, WriteManifest, Away
    <2>2. CASE pc' # <<"down">>
      <3>1. /\ pc \in {<<"verify">>, <<"restore">>, <<"manifest">>}
            /\ pc' \in {<<"restore">>, <<"reports", 1>>, <<"seal">>}
            /\ UNCHANGED <<ledger, accepted, samples>>
        BY <1>9, <2>2 DEF VerifyReplay, RestoreLast, WriteManifest, run
      <3>2. /\ pc \in Through /\ pc \in Owning /\ pc \in Replaying
            /\ pc' \notin Early /\ pc' \notin Ticking
        BY <3>1 DEF Through, Owning, Filling, Late, Last2, Replaying, Early, Ticking
      <3> QED
        BY <1>0, <3>1, <3>2 DEF Rows
    <2> QED
      BY <2>1, <2>2
  <1>10. CASE Operate \/ Withdraw \/ UNCHANGED vars
    BY <1>3, <1>10 DEF Operate, Withdraw, vars, run, root
  <1> QED
    BY <1>4, <1>5, <1>6, <1>7, <1>8, <1>9, <1>10 DEF Next

-----------------------------------------------------------------------------
(***************************************************************************)
(* The verdict, from the receipts to the sealed manifest.                  *)
(***************************************************************************)
AllVerify == \A i \in 1..Len(ledger) : Verifies(i)

Verdict ==
    /\ pc \in {<<"restore">>} \cup Last2 /\ ~failures => AllVerify
    /\ pc \in Last2 => restored \in {NULL, Len(ledger)}
    /\ pc = <<"seal">> /\ manifest.stop_go = "green" => AllVerify /\ restored = Len(ledger)

Whole ==
    /\ \E a \in 1..MaxAttempts : \A d \in Dirs : files[d] = a /\ sealed.files[d] = a
    /\ \E rows \in Normalise(SessionRows) : \E due \in DecisionSamples(rows) :
         /\ Len(ledger) = Len(due) /\ restored = Len(due)
         /\ \A i \in 1..Len(ledger) : ledger[i].ts = due[i].row.ts
    /\ AllVerify
Sealed == sealed # NULL /\ ~torn /\ sealed.stop_go = "green" => Whole

ReplayInv == RootInv /\ Progress /\ Rows /\ Verdict /\ Sealed

LEMMA VerifyStays == ledger' = ledger => AllVerify' = AllVerify
  <1> SUFFICES ASSUME ledger' = ledger PROVE AllVerify' = AllVerify
    OBVIOUS
  <1>1. \A t : RowsThrough(t)' = RowsThrough(t)
    BY DEF RowsThrough
  <1> QED
    BY <1>1, Zenon DEF AllVerify, Verifies, RowsThrough

LEMMA VerdictNext == RootInv /\ Rows /\ Verdict /\ [Next]_vars => Verdict'
  <1> SUFFICES ASSUME RootInv, Rows, Verdict, [Next]_vars PROVE Verdict'
    OBVIOUS
  <1>1. CASE pc' \in Away \cup Early \cup Ticking \cup ({"records"} \X (1..4)) \cup {<<"verify">>}
    <2>1. pc' # <<"restore">> /\ pc' # <<"seal">> /\ pc' \notin Last2
      BY <1>1 DEF Away, Early, Ticking, Last2
    <2> QED
      BY <2>1, Zenon DEF Verdict
  <1>2. CASE UNCHANGED <<pc, ledger, failures, restored, manifest>>
    BY <1>2, VerifyStays DEF Verdict
  <1>3. CASE Begin \/ Preflight \/ PrepareRunRoot \/ RefuseRoot \/ DieInRemoval \/ NormaliseEvents
             \/ SealManifest \/ Crash
    <2>1. pc' \in {<<"down">>, <<"preflight">>, <<"root">>, <<"normalise">>, <<"intake", 1>>}
      BY <1>3, Zenon DEF Begin, Preflight, PrepareRunRoot, RefuseRoot, DieInRemoval,
                         NormaliseEvents, SealManifest, Crash
    <2> QED
      BY <1>1, <2>1 DEF Away, Early
  <1>4. CASE WriteEvidence
    <2>1. UNCHANGED <<ledger, failures, restored, manifest>> /\ pc \in Owning
      BY <1>4 DEF WriteEvidence, run, RootInv, RootOK, Away
    <2>2. \/ pc' \in (({"intake"} \X (1..6)) \cup {<<"tick", 1>>})
                     \cup (({"records"} \X (1..4)) \cup {<<"verify">>})
          \/ /\ pc \in {"reports"} \X (1..2)
             /\ pc' \in ({"reports"} \X (1..2)) \cup {<<"manifest">>}
      BY <1>4, <2>1, WriterMoves
    <2>3. CASE pc' \in (({"intake"} \X (1..6)) \cup {<<"tick", 1>>})
                     \cup (({"records"} \X (1..4)) \cup {<<"verify">>})
      BY <1>1, <2>3 DEF Early, Ticking
    <2>4. CASE pc \in {"reports"} \X (1..2) /\ pc' \in ({"reports"} \X (1..2)) \cup {<<"manifest">>}
      <3>1. pc \in Last2 /\ pc' # <<"seal">>
        BY <2>4 DEF Last2
      <3> QED
        BY <2>1, <3>1, VerifyStays DEF Verdict
    <2> QED
      BY <2>2, <2>3, <2>4
  <1>5. CASE DecisionTick
    <2>1. pc \in Ticking /\ pc' \in {<<"records", 1>>, <<"tick", pc[2] + 1>>}
      <3>1. pc \in Ticking
        BY <1>5 DEF DecisionTick, RootInv, RootOK, Away, Owning, Filling, Early, Ticking, Late, Last2
      <3>2. pc' \in {<<"records", 1>>, <<"tick", pc[2] + 1>>}
        BY <1>5, Zenon DEF DecisionTick
      <3> QED
        BY <3>1, <3>2
    <2> QED
      BY <1>1, <2>1 DEF Ticking
  <1>6. CASE VerifyReplay
    <2>1. pc' = <<"restore">> /\ ledger' = ledger /\ failures' = (\E i \in DOMAIN ledger : ~Verifies(i))
      BY <1>6 DEF VerifyReplay
    <2>2. DOMAIN ledger = 1..Len(ledger)
      BY DEF Rows
    <2>3. ~failures' => AllVerify
      BY <2>1, <2>2, Zenon DEF AllVerify
    <2>4. pc' \notin Last2 /\ pc' # <<"seal">>
      BY <2>1 DEF Last2
    <2> QED
      BY <2>1, <2>3, <2>4, VerifyStays, Zenon DEF Verdict
  <1>7. CASE RestoreLast
    <2>1. CASE pc' = <<"down">>
      BY <1>1, <2>1 DEF Away
    <2>2. CASE pc' = <<"reports", 1>>
      <3>1. /\ pc = <<"restore">> /\ UNCHANGED <<ledger, failures>>
            /\ ledger[Len(ledger)].counts = Cardinality(RowsThrough(ledger[Len(ledger)].ts))
            /\ restored' \in {NULL, Cardinality(RowsThrough(ledger[Len(ledger)].ts))}
        BY <1>7, <2>2 DEF RestoreLast, run, Verifies, Last
      <3>2. Len(ledger) \in 1..Len(ledger)
        <4>1. pc \in Through /\ Len(ledger) \in Nat
          BY <3>1 DEF Through, Late, Rows
        <4> QED
          BY <4>1 DEF Rows
      <3>3. ledger[Len(ledger)].counts = Len(ledger)
        BY <3>2 DEF Rows
      <3>4. restored' \in {NULL, Len(ledger)'}
        BY <3>1, <3>3
      <3>5. pc' # <<"seal">>
        BY <2>2
      <3>6. ~failures' => AllVerify'
        BY <3>1, VerifyStays, Zenon DEF Verdict
      <3> QED
        BY <3>4, <3>5, <3>6, Zenon DEF Verdict
    <2> QED
      BY <1>7, <2>1, <2>2 DEF RestoreLast
  <1>8. CASE WriteManifest
    <2>1. /\ pc = <<"manifest">> /\ pc' = <<"seal">> /\ manifest'.stop_go = StopGo
          /\ UNCHANGED <<ledger, failures, restored>>
      BY <1>8 DEF WriteManifest, run
    <2>2. pc \in Last2 /\ pc' \notin Last2 /\ pc' # <<"restore">>
      BY <2>1 DEF Last2
    <2>3. StopGo = "green" => ~failures /\ restored # NULL
      BY Zenon DEF StopGo
    <2>4. StopGo = "green" => AllVerify /\ restored = Len(ledger)
      BY <2>2, <2>3, Zenon DEF Verdict
    <2> QED
      BY <2>1, <2>2, <2>4, VerifyStays, Zenon DEF Verdict
  <1>9. CASE Operate \/ Withdraw \/ UNCHANGED vars
    BY <1>2, <1>9 DEF Operate, Withdraw, vars, run, root
  <1> QED
    BY <1>3, <1>4, <1>5, <1>6, <1>7, <1>8, <1>9 DEF Next

LEMMA SealedNext == ReplayInv /\ [Next]_vars => Sealed'
  <1> SUFFICES ASSUME ReplayInv, [Next]_vars PROVE Sealed'
    OBVIOUS
  <1> USE DEF ReplayInv
  <1>0. SessionRows' = SessionRows
    BY FeedStays, SessionRowsStay
  <1>1. CASE UNCHANGED <<sealed, torn, files, ledger, restored>>
    BY <1>0, <1>1, VerifyStays DEF Sealed, Whole
  <1>2. CASE pc \in Owning /\ sealed' = sealed
    <2>1. sealed = NULL
      BY <1>2 DEF RootInv, OneWriter
    <2> QED
      BY <1>2, <2>1 DEF Sealed
  <1>3. CASE Begin \/ Preflight \/ RefuseRoot \/ Crash \/ Operate \/ Withdraw \/ UNCHANGED vars
    BY <1>1, <1>3 DEF Begin, Preflight, RefuseRoot, Crash, Operate, Withdraw, vars, root
  <1>4. CASE PrepareRunRoot
    BY <1>4 DEF PrepareRunRoot, Sealed
  <1>5. CASE DieInRemoval
    BY <1>5 DEF DieInRemoval, Sealed
  <1>6. CASE \/ NormaliseEvents \/ WriteEvidence \/ DecisionTick \/ VerifyReplay \/ RestoreLast
             \/ WriteManifest
    <2>1. /\ pc[1] \in {"normalise", "intake", "records", "reports", "tick", "verify", "restore",
                         "manifest"}
          /\ sealed' = sealed
      <3>1. CASE NormaliseEvents \/ WriteEvidence \/ DecisionTick
        BY <3>1 DEF NormaliseEvents, WriteEvidence, DecisionTick, root
      <3>2. CASE VerifyReplay \/ RestoreLast \/ WriteManifest
        <4>1. sealed' = sealed
          BY <3>2 DEF VerifyReplay, RestoreLast, WriteManifest
        <4>2. pc \in {<<"verify">>, <<"restore">>, <<"manifest">>}
          BY <3>2, Zenon DEF VerifyReplay, RestoreLast, WriteManifest
        <4> QED
          BY <4>1, <4>2
      <3> QED
        BY <1>6, <3>1, <3>2
    <2>2. pc \notin Away
      BY <2>1 DEF Away
    <2> QED
      BY <1>2, <2>1, <2>2 DEF RootInv, RootOK
  <1>7. CASE SealManifest
    <2>1. /\ pc = <<"seal">> /\ sealed' = manifest
          /\ UNCHANGED <<files, ledger, restored, torn, manifest>>
      BY <1>7 DEF SealManifest
    <2>2. pc \in Owning /\ pc \in Through /\ pc # <<"down">>
      BY <2>1 DEF Owning, Through
    <2> SUFFICES ASSUME manifest # NULL, manifest.stop_go = "green" PROVE Whole'
      BY <2>1 DEF Sealed
    <2>3. attempt \in 1..MaxAttempts /\ manifest.files = files
      BY <2>2, ReplayAssumption DEF RootInv, RootOK, OneWriter
    <2>4. \A d \in Dirs : files'[d] = attempt /\ sealed'.files[d] = attempt
      BY <2>1, <2>3 DEF Progress, Done
    <2>5. AllVerify' /\ restored' = Len(ledger)
      BY <2>1, VerifyStays, Zenon DEF Verdict
    <2>6. /\ accepted \in Normalise(SessionRows) /\ samples \in DecisionSamples(accepted)
          /\ Len(ledger) = Len(samples)
          /\ \A i \in 1..Len(ledger) : ledger[i].ts = samples[i].row.ts
      BY <2>1, <2>2 DEF Rows, Replaying
    <2> QED
      BY <1>0, <2>1, <2>3, <2>4, <2>5, <2>6 DEF Whole
  <1> QED
    BY <1>3, <1>4, <1>5, <1>6, <1>7 DEF Next

LEMMA ReplayInit == Init => ReplayInv
  <1> SUFFICES ASSUME Init PROVE ReplayInv
    OBVIOUS
  <1>1. pc = <<"down">> /\ ledger = <<>> /\ sealed = NULL
    BY DEF Init
  <1>2. /\ pc \notin Owning /\ pc \notin Early /\ pc \notin Ticking /\ pc \notin Replaying
        /\ pc \notin Through /\ pc \notin Last2 /\ pc # <<"restore">> /\ pc # <<"seal">>
        /\ pc \notin {"intake"} \X (1..6) /\ pc \notin {"records"} \X (1..4)
        /\ pc # <<"verify">> /\ pc # <<"manifest">>
        /\ pc # <<"reports", 1>> /\ pc # <<"reports", 2>>
    BY <1>1 DEF Owning, Filling, Early, Ticking, Late, Last2, Replaying, Through
  <1>3. <<>> \in Seq({}) /\ Len(<<>>) = 0
    OBVIOUS
  <1>4. Rows
    BY <1>1, <1>2, <1>3 DEF Rows
  <1>5. Progress
    BY <1>2, Zenon DEF Progress
  <1>6. Verdict /\ Sealed
    BY <1>1, <1>2, Zenon DEF Verdict, Sealed
  <1> QED
    BY <1>4, <1>5, <1>6, RootInit DEF ReplayInv

LEMMA ReplayKept == Spec => []ReplayInv
  <1>1. ReplayInv /\ [Next]_vars => ReplayInv'
    BY RootNext, ProgressNext, RowsNext, VerdictNext, SealedNext DEF ReplayInv
  <1> QED
    BY <1>1, ReplayInit, PTL DEF Spec

\* A root sealed green is a whole run: every directory of it written by the
\* one attempt that sealed it, a row and a verified receipt for every sample of
\* the feed, and all of them restored, however many earlier starts died in the
\* same root and whatever the operators did meanwhile (_verify_replay,
\* _restore_last, _stop_go and _write_manifest).
THEOREM GreenMeansWhole == Spec => []GreenIsWhole
  <1>1. ReplayInv => GreenIsWhole
    <2> SUFFICES ASSUME ReplayInv, GreenSealed
                 PROVE  /\ \E a \in 1..MaxAttempts : \A d \in Dirs : files[d] = a /\ sealed.files[d] = a
                        /\ \E rows \in Normalise(SessionRows) : \E due \in DecisionSamples(rows) :
                             /\ Len(ledger) = Len(due) /\ restored = Len(due)
                             /\ \A i \in DOMAIN ledger : ledger[i].ts = due[i].row.ts /\ Verifies(i)
      BY DEF GreenIsWhole
    <2>1. Whole
      BY DEF GreenSealed, ReplayInv, Sealed
    <2>2. DOMAIN ledger = 1..Len(ledger)
      BY DEF ReplayInv, Rows
    <2> QED
      BY <2>1, <2>2, Zenon DEF Whole, AllVerify
  <1> QED
    BY <1>1, ReplayKept, PTL

-----------------------------------------------------------------------------
(***************************************************************************)
(* The rows of a session.                                                  *)
(***************************************************************************)
IndexedRow == [row : Row, index : Nat]

LEMMA SessionIsFinite ==
    ASSUME feed \in Seq(Row)
    PROVE  IsFiniteSet(SessionRows) /\ SessionRows \subseteq IndexedRow
  <1> DEFINE g == [i \in 1..Len(feed) |-> [row |-> feed[i], index |-> i]]
  <1>1. Len(feed) \in Nat /\ DOMAIN feed = 1..Len(feed) /\ \A i \in 1..Len(feed) : feed[i] \in Row
    OBVIOUS
  <1>2. g \in Surjection(1..Len(feed), Indexed(feed))
    BY <1>1, Fun_IsSurj DEF Indexed
  <1>3. IsFiniteSet(1..Len(feed))
    BY <1>1, FS_Interval
  <1>4. IsFiniteSet(Indexed(feed))
    BY <1>2, <1>3, FS_Surjection
  <1>5. Indexed(feed) \subseteq IndexedRow
    BY <1>1 DEF Indexed, IndexedRow
  <1>6. SessionRows \subseteq Indexed(feed)
    BY DEF SessionRows
  <1> QED
    BY <1>4, <1>5, <1>6, FS_Subset

\* An enumeration of a finite set is a sequence of its elements.
LEMMA EnumerationType ==
    ASSUME NEW S, IsFiniteSet(S), NEW s \in SetToSeqs(S)
    PROVE  s \in Seq(S) /\ Len(s) = Cardinality(S)
  <1>1. Cardinality(S) \in Nat /\ s \in [1..Cardinality(S) -> S]
    BY FS_CardinalityType DEF SetToSeqs
  <1> HIDE DEF SetToSeqs
  <1> QED
    BY <1>1

LEMMA AcceptedType ==
    ASSUME feed \in Seq(Row), NEW rows \in Normalise(SessionRows)
    PROVE  rows \in Seq(SessionRows) /\ rows \in Seq(IndexedRow)
  <1>1. rows \in SetToSeqs(SessionRows)
    BY Zenon DEF Normalise
  <1>2. rows \in Seq(SessionRows)
    BY <1>1, SessionIsFinite, EnumerationType
  <1> QED
    BY <1>2, SessionIsFinite, SeqMonotonic

LEMMA SamplesType ==
    ASSUME feed \in Seq(Row), NEW rows \in Normalise(SessionRows), NEW due \in DecisionSamples(rows)
    PROVE  due \in Seq(LastOfBuckets(rows)) /\ due \in Seq(IndexedRow)
  <1>1. DOMAIN rows = 1..Len(rows) /\ \A i \in 1..Len(rows) : rows[i] \in SessionRows
    BY AcceptedType
  <1>2. LastOfBuckets(rows) \subseteq SessionRows
    BY <1>1 DEF LastOfBuckets, FrontRows
  <1>3. IsFiniteSet(LastOfBuckets(rows)) /\ LastOfBuckets(rows) \subseteq IndexedRow
    BY <1>2, SessionIsFinite, FS_Subset
  <1>4. due \in SetToSeqs(LastOfBuckets(rows))
    BY Zenon DEF DecisionSamples
  <1>5. due \in Seq(LastOfBuckets(rows))
    BY <1>3, <1>4, EnumerationType
  <1> QED
    BY <1>3, <1>5, SeqMonotonic

LEMMA DivisionFloors ==
    ASSUME NEW p \in Int, NEW d \in Nat \ {0}
    PROVE  /\ p \div d \in Int
           /\ d * (p \div d) <= p /\ p < d * (p \div d) + d
  <1>1. p = d * (p \div d) + (p % d) /\ p % d \in 0..(d - 1) /\ p \div d \in Int
    OBVIOUS
  <1> DEFINE m == p \div d
             r == p % d
             x == d * m
  <1>2. p = x + r /\ r \in 0..(d - 1) /\ m \in Int /\ x \in Int
    BY <1>1
  <1> HIDE DEF m, r, x
  <1>3. x <= p /\ p < x + d
    BY <1>2
  <1> QED
    BY <1>2, <1>3 DEF m, r, x

\* A later bucket holds later events.
LEMMA BucketsInOrder ==
    ASSUME NEW a \in IndexedRow, NEW b \in IndexedRow, Bucket(a) < Bucket(b)
    PROVE  a.row.ts < b.row.ts
  <1> DEFINE p == a.row.ts - Start
             q == b.row.ts - Start
  <1>1. p \in Int /\ q \in Int /\ Interval \in Nat \ {0}
    BY ReplayAssumption DEF IndexedRow, Row
  <1>2. (p \div Interval) < (q \div Interval)
    BY DEF Bucket
  <1> HIDE DEF p, q
  <1> DEFINE m == p \div Interval
             n == q \div Interval
  <1>3. m \in Int /\ n \in Int /\ p < Interval * m + Interval /\ Interval * n <= q
    BY <1>1, DivisionFloors
  <1> HIDE DEF m, n
  <1>4. (n - m - 1) \in Nat
    BY <1>2, <1>3 DEF m, n
  <1>5. Interval * (n - m - 1) >= 0
    BY <1>1, <1>4
  <1>6. p < q
    BY <1>1, <1>3, <1>4, <1>5
  <1> QED
    BY <1>6, ReplayAssumption DEF p, q, IndexedRow, Row

\* The events and the samples of the run are those of its feed.
OfTheFeed ==
    /\ feed \in Seq(Row)
    /\ \/ accepted = <<>> /\ samples = <<>>
       \/ accepted \in Normalise(SessionRows) /\ samples \in DecisionSamples(accepted)

LEMMA OfTheFeedKept == Spec => []OfTheFeed
  <1>1. Init => OfTheFeed
    BY ReplayAssumption DEF Init, OfTheFeed
  <1>2. OfTheFeed /\ [Next]_vars => OfTheFeed'
    <2> SUFFICES ASSUME OfTheFeed, [Next]_vars PROVE OfTheFeed'
      OBVIOUS
    <2>1. feed' = feed /\ SessionRows' = SessionRows
      BY FeedStays, SessionRowsStay
    <2>2. CASE Begin
      BY <2>1, <2>2 DEF Begin, OfTheFeed
    <2>3. CASE NormaliseEvents
      BY <2>1, <2>3 DEF NormaliseEvents, OfTheFeed
    <2>4. CASE ~Begin /\ ~NormaliseEvents
      <3>1. UNCHANGED <<accepted, samples>>
        BY <2>4 DEF Next, vars, run, Preflight, PrepareRunRoot, RefuseRoot, DieInRemoval,
                    WriteEvidence, DecisionTick, VerifyReplay, RestoreLast,
                    WriteManifest, SealManifest, Crash, Operate, Withdraw
      <3> QED
        BY <2>1, <3>1 DEF OfTheFeed
    <2> QED
      BY <2>2, <2>3, <2>4
  <1> QED
    BY <1>1, <1>2, PTL DEF Spec

\* Whatever order the rows of the file are in, the samples of a run move
\* forward in time, and no event of a sample's interval comes after the sample
\* (the sort of _normalise_events and the buckets of _decision_samples).
THEOREM SamplesMoveForward == Spec => []SamplesInOrder
  <1>1. OfTheFeed => SamplesInOrder
    <2> SUFFICES ASSUME feed \in Seq(Row), accepted \in Normalise(SessionRows),
                        samples \in DecisionSamples(accepted)
                 PROVE  SamplesInOrder
      BY DEF OfTheFeed, SamplesInOrder
    <2>1. /\ DOMAIN accepted = 1..Len(accepted) /\ Len(accepted) \in Nat
          /\ \A i \in DOMAIN accepted : accepted[i] \in IndexedRow
          /\ \A i, j \in DOMAIN accepted : i < j => Before(accepted[i], accepted[j])
      <3>1. accepted \in Seq(IndexedRow)
        BY AcceptedType
      <3>2. \A i, j \in DOMAIN accepted : i < j => Before(accepted[i], accepted[j])
        BY Zenon DEF Normalise
      <3> QED
        BY <3>1, <3>2
    <2>2. /\ \A i \in DOMAIN samples : samples[i] \in IndexedRow /\ samples[i] \in LastOfBuckets(accepted)
          /\ \A i, j \in DOMAIN samples : i < j => Bucket(samples[i]) < Bucket(samples[j])
      <3>1. samples \in Seq(IndexedRow) /\ samples \in Seq(LastOfBuckets(accepted))
        BY SamplesType
      <3>2. \A i, j \in DOMAIN samples : i < j => Bucket(samples[i]) < Bucket(samples[j])
        BY Zenon DEF DecisionSamples
      <3>3. \A i \in DOMAIN samples : samples[i] \in IndexedRow /\ samples[i] \in LastOfBuckets(accepted)
        BY <3>1
      <3> QED
        BY <3>2, <3>3
    <2>3. ASSUME NEW i \in DOMAIN samples, NEW j \in DOMAIN samples, i < j
          PROVE  samples[i].row.ts < samples[j].row.ts
      BY <2>2, <2>3, BucketsInOrder
    <2>4. ASSUME NEW i \in DOMAIN samples, NEW k \in FrontRows(accepted),
                 Bucket(accepted[k]) = Bucket(samples[i])
          PROVE  accepted[k].row.ts <= samples[i].row.ts
      <3>1. PICK l \in FrontRows(accepted) :
               /\ samples[i] = accepted[l]
               /\ \A m \in FrontRows(accepted) : l < m => Bucket(accepted[m]) # Bucket(accepted[l])
        BY <2>2 DEF LastOfBuckets
      <3>2. k \in DOMAIN accepted /\ l \in DOMAIN accepted /\ k \in Nat /\ l \in Nat
        BY <2>1 DEF FrontRows
      <3>3. ~(l < k)
        BY <2>4, <3>1
      <3>4. accepted[k].row.ts \in Nat /\ accepted[l].row.ts \in Nat
        BY <2>1, <3>2 DEF IndexedRow, Row
      <3>5. CASE k = l
        BY <3>1, <3>4, <3>5
      <3>6. CASE k < l
        <4>1. Before(accepted[k], accepted[l])
          BY <2>1, <3>2, <3>6
        <4> QED
          BY <3>1, <3>4, <4>1 DEF Before
      <3> QED
        BY <3>2, <3>3, <3>5, <3>6
    <2> QED
      BY <2>3, <2>4 DEF SamplesInOrder
  <1> QED
    BY <1>1, OfTheFeedKept, PTL

-----------------------------------------------------------------------------
(***************************************************************************)
(* A clean feed.                                                           *)
(***************************************************************************)
LEMMA FirstExists ==
    ASSUME NEW S \in SUBSET Nat, S # {}
    PROVE  \E d \in S : \A x \in S : d <= x
  <1>1. PICK d \in S : \A x \in S : <<x, d>> \notin OpToRel(<, Nat)
    BY NatLessThanWellFounded, WFMin
  <1>2. \A x \in S : ~(x < d)
    BY <1>1 DEF OpToRel
  <1> QED
    BY <1>2

LEMMA LastExists ==
    ASSUME NEW S \in SUBSET Nat, S # {}, NEW n \in Nat, \A x \in S : x <= n
    PROVE  \E d \in S : \A x \in S : x <= d
  <1> DEFINE Bounds == {m \in Nat : \A x \in S : x <= m}
  <1>1. PICK m \in Bounds : \A b \in Bounds : m <= b
    BY FirstExists, n \in Bounds
  <1>2. CASE m \in S
    BY <1>2
  <1>3. CASE m \notin S
    <2>1. PICK x \in S : TRUE
      OBVIOUS
    <2>2. \A y \in S : y <= m - 1
      BY <1>3
    <2>3. m - 1 \in Nat
      BY <2>1, <2>2
    <2> QED
      BY <1>1, <2>2, <2>3
  <1> QED
    BY <1>2, <1>3

\* With no row behind the one before it, no row is behind any earlier one.
LEMMA InOrderThroughout ==
    ASSUME NEW rows \in SUBSET IndexedRow, IsFiniteSet(rows), OutOfOrder(rows) = 0,
           \A x, y \in rows : x.index = y.index => x = y,
           NEW a \in rows, NEW b \in rows, a.index < b.index
    PROVE  a.row.ts <= b.row.ts
  <1>1. \A x, y \in rows : Follows(rows, x, y) => y.row.ts <= x.row.ts
    <2> DEFINE Behind == {x \in rows : \E y \in rows : Follows(rows, x, y) /\ x.row.ts < y.row.ts}
    <2>1. Behind = {}
      <3>1. IsFiniteSet(Behind)
        BY FS_Subset
      <3>2. Cardinality(Behind) = 0
        BY DEF OutOfOrder
      <3> HIDE DEF Behind
      <3> QED
        BY <3>1, <3>2, FS_EmptySet
    <2>2. \A x, y \in rows : Follows(rows, x, y) => ~(x.row.ts < y.row.ts)
      BY <2>1
    <2>3. \A x \in rows : x.row.ts \in Nat
      BY DEF IndexedRow, Row
    <2> QED
      BY <2>2, <2>3
  <1>2. \A x \in rows : x.index \in Nat /\ x.row.ts \in Nat
    BY DEF IndexedRow, Row
  <1>3. SUFFICES ASSUME ~(a.row.ts <= b.row.ts) PROVE FALSE
    OBVIOUS
  <1> DEFINE late == {x.index : x \in {y \in rows : a.index < y.index /\ y.row.ts < a.row.ts}}
  <1>4. late \in SUBSET Nat /\ b.index \in late
    BY <1>2, <1>3
  <1>5. PICK n \in late : \A m \in late : n <= m
    BY <1>4, FirstExists
  <1>6. PICK c \in rows : /\ c.index = n /\ a.index < c.index /\ c.row.ts < a.row.ts
    BY <1>5
  <1> DEFINE ahead == {x.index : x \in {y \in rows : y.index < c.index}}
  <1>7. /\ ahead \in SUBSET Nat /\ a.index \in ahead /\ \A m \in ahead : m <= c.index
        /\ c.index \in Nat
    BY <1>2, <1>6
  <1>8. PICK k \in ahead : \A m \in ahead : m <= k
    BY <1>7, LastExists
  <1>9. PICK d \in rows : d.index = k /\ d.index < c.index
    BY <1>8
  <1>10. Follows(rows, c, d)
    BY <1>2, <1>8, <1>9 DEF Follows
  <1>11. d.row.ts <= c.row.ts
    BY <1>1, <1>10
  <1>12. a.index <= d.index
    BY <1>7, <1>8, <1>9
  <1>13. CASE d = a
    BY <1>2, <1>6, <1>11, <1>13
  <1>14. CASE d # a
    <2>1. a.index < d.index
      BY <1>2, <1>12, <1>14
    <2>2. d.row.ts < a.row.ts
      BY <1>2, <1>6, <1>11
    <2>3. d.index \in late
      BY <2>1, <2>2
    <2>4. n <= d.index
      BY <1>5, <2>3, Zenon
    <2> QED
      BY ONLY <1>2, <1>6, <1>9, <2>4
  <1> QED
    BY <1>13, <1>14

\* As many different rows as rows: no row repeats another.
LEMMA NoneRepeated ==
    ASSUME NEW rows, IsFiniteSet(rows), Duplicates(rows) = 0
    PROVE  \A x, y \in rows : x.row = y.row => x = y
  <1> DEFINE contents == {x.row : x \in rows}
             f == [x \in rows |-> x.row]
  <1>1. f \in Surjection(rows, contents)
    BY Fun_IsSurj
  <1>2. Cardinality(rows) \in Nat /\ Cardinality(contents) \in Nat
    BY <1>1, FS_Surjection, FS_CardinalityType
  <1>3. Cardinality(contents) = Cardinality(rows)
    BY <1>2 DEF Duplicates
  <1>4. f \in Injection(rows, contents)
    BY <1>1, <1>3, FS_Surjection
  <1> HIDE DEF contents
  <1>5. \A x, y \in rows : f[x] = f[y] => x = y
    BY <1>4, Fun_InjectionProperties
  <1> QED
    BY <1>5

\* Green is given to a feed no row of which is repeated or late.
CleanFeed ==
    /\ pc = <<"seal">> /\ manifest.stop_go = "green" => Duplicates(SessionRows) = 0 /\ OutOfOrder(SessionRows) = 0
    /\ sealed # NULL /\ ~torn /\ sealed.stop_go = "green"
         => Duplicates(SessionRows) = 0 /\ OutOfOrder(SessionRows) = 0

LEMMA MeasuresType ==
    ASSUME feed \in Seq(Row)
    PROVE  Duplicates(SessionRows) \in Nat /\ OutOfOrder(SessionRows) \in Nat
  <1>0. IsFiniteSet(SessionRows)
    BY SessionIsFinite
  <1> DEFINE contents == {x.row : x \in SessionRows}
             f == [x \in SessionRows |-> x.row]
             Behind == {x \in SessionRows : \E y \in SessionRows :
                           Follows(SessionRows, x, y) /\ x.row.ts < y.row.ts}
  <1>1. f \in Surjection(SessionRows, contents)
    BY Fun_IsSurj
  <1>2. /\ Cardinality(SessionRows) \in Nat /\ Cardinality(contents) \in Nat
        /\ Cardinality(contents) <= Cardinality(SessionRows)
    BY <1>0, <1>1, FS_Surjection, FS_CardinalityType
  <1>3. Duplicates(SessionRows) \in Nat
    BY <1>2 DEF Duplicates
  <1>4. IsFiniteSet(Behind)
    BY <1>0, FS_Subset
  <1>5. Cardinality(Behind) \in Nat
    BY <1>4, FS_CardinalityType
  <1> QED
    BY <1>3, <1>5 DEF OutOfOrder

LEMMA CleanFeedNext == OfTheFeed /\ RootInv /\ CleanFeed /\ [Next]_vars => CleanFeed'
  <1> SUFFICES ASSUME OfTheFeed, RootInv, CleanFeed, [Next]_vars PROVE CleanFeed'
    OBVIOUS
  <1> DEFINE dup == Duplicates(SessionRows)
             late == OutOfOrder(SessionRows)
  <1>0. SessionRows' = SessionRows
    BY FeedStays, SessionRowsStay
  <1>1. CASE WriteManifest
    <2>1. /\ pc = <<"manifest">> /\ manifest'.stop_go = StopGo /\ UNCHANGED <<sealed, torn>>
      BY <1>1 DEF WriteManifest
    <2>2. sealed = NULL
      BY <2>1 DEF RootInv, OneWriter, Owning, Filling, Last2
    <2>3. dup \in Nat /\ late \in Nat
      BY MeasuresType DEF OfTheFeed
    <2>4. StopGo = "green" => ~(dup > 0 \/ late > 0)
      BY Zenon DEF StopGo
    <2>5. StopGo = "green" => dup = 0 /\ late = 0
      BY <2>3, <2>4
    <2> QED
      BY <1>0, <2>1, <2>2, <2>5 DEF CleanFeed
  <1>2. CASE SealManifest
    <2>1. pc = <<"seal">> /\ pc' = <<"down">> /\ sealed' = manifest
      BY <1>2 DEF SealManifest
    <2> QED
      BY <1>0, <2>1 DEF CleanFeed
  <1>3. CASE PrepareRunRoot
    BY <1>3 DEF PrepareRunRoot, CleanFeed
  <1>4. CASE DieInRemoval
    BY <1>4 DEF DieInRemoval, CleanFeed
  <1>5. CASE ~(WriteManifest \/ SealManifest \/ PrepareRunRoot \/ DieInRemoval)
    <2>1. UNCHANGED <<manifest, sealed, torn>>
      BY <1>5 DEF Next, vars, root, Begin, Preflight, RefuseRoot, NormaliseEvents,
                  WriteEvidence, DecisionTick, VerifyReplay, RestoreLast, Crash, Operate, Withdraw
    <2>2. pc' = <<"seal">> => pc = <<"seal">>
      <3>1. CASE WriteEvidence
        <4>1. pc \in Owning
          BY <3>1 DEF WriteEvidence, RootInv, RootOK, Away
        <4> QED
          BY <3>1, <4>1, WriterMoves, StagesApart
      <3>2. CASE Begin \/ Preflight \/ RefuseRoot \/ Crash \/ NormaliseEvents
        <4>1. pc' \in {<<"preflight">>, <<"root">>, <<"down">>, <<"intake", 1>>}
          BY <3>2, Zenon DEF Begin, Preflight, RefuseRoot, Crash, NormaliseEvents
        <4> QED
          BY <4>1
      <3>3. CASE DecisionTick \/ VerifyReplay \/ RestoreLast
        <4>1. pc' \in {<<"records", 1>>, <<"tick", pc[2] + 1>>, <<"restore">>, <<"reports", 1>>, <<"down">>}
          BY <3>3, Zenon DEF DecisionTick, VerifyReplay, RestoreLast
        <4> QED
          BY <4>1
      <3>4. CASE Operate \/ Withdraw \/ UNCHANGED vars
        BY <3>4 DEF Operate, Withdraw, vars
      <3> QED
        BY <1>5, <3>1, <3>2, <3>3, <3>4 DEF Next
    <2> QED
      BY <1>0, <2>1, <2>2 DEF CleanFeed
  <1> QED
    BY <1>1, <1>2, <1>3, <1>4, <1>5

\* A root sealed green stands for a whole run of a clean feed: no row of the
\* session repeats another or is behind an earlier one (_normalise_events,
\* _stop_go), and the run behind it left nothing out.
THEOREM GreenIsDeserved == Spec => []GreenIsEarned
  <1>1. OfTheFeed /\ CleanFeed => GreenIsClean
    <2> SUFFICES ASSUME OfTheFeed, CleanFeed, GreenSealed,
                        NEW x \in SessionRows, NEW y \in SessionRows, x.index < y.index
                 PROVE  x.row # y.row /\ x.row.ts <= y.row.ts
      BY DEF GreenIsClean
    <2>1. IsFiniteSet(SessionRows) /\ SessionRows \in SUBSET IndexedRow
      BY SessionIsFinite DEF OfTheFeed
    <2>2. Duplicates(SessionRows) = 0 /\ OutOfOrder(SessionRows) = 0
      BY DEF CleanFeed, GreenSealed
    <2>3. \A a, b \in SessionRows : a.index = b.index => a = b
      BY DEF SessionRows, Indexed
    <2>4. x.row.ts <= y.row.ts
      BY <2>1, <2>2, <2>3, InOrderThroughout
    <2>5. x.row = y.row => x = y
      BY <2>1, <2>2, NoneRepeated
    <2>6. x # y
      BY <2>1 DEF IndexedRow
    <2> QED
      BY <2>4, <2>5, <2>6
  <1>2. Init => CleanFeed
    BY DEF Init, CleanFeed
  <1>3. Spec => []CleanFeed
    BY <1>2, CleanFeedNext, OfTheFeedKept, RootKept, PTL DEF Spec
  <1> QED
    BY <1>1, <1>3, OfTheFeedKept, GreenMeansWhole, PTL DEF GreenIsEarned

-----------------------------------------------------------------------------
(***************************************************************************)
(* Type correctness.                                                       *)
(***************************************************************************)

\* The parts of the state that the arguments above do not look at.
Plain ==
    /\ cleared \in BOOLEAN /\ overwrite \in BOOLEAN /\ occupied \in BOOLEAN
    /\ exposure \in ExposureState /\ level \in Level
    /\ restored \in Nat \cup {NULL} /\ ops \in 0..MaxOps

\* Without a time to live and with a budget at every tick that is not halted,
\* the ladder only flattens or rebalances.
LEMMA LadderOfReplay ==
    ASSUME exposure \in ExposureState, NEW k
    PROVE  Step(exposure, TickEventOf(k)) \in ExposureState
  <1> DEFINE e == TickEventOf(k)
  <1>1. Budget(k) \in Exposure
    <2>1. Realised(k) \in {-1, 0, 1}
      BY Zenon DEF Realised, Sign
    <2> QED
      BY <2>1, ReplayAssumption DEF Budget
  <1>2. Budget(k) # NULL
    BY <1>1, LadderAssumption DEF Exposure
  <1>3. CASE level = "halting"
    <2>1. e.kill_switch_halting = TRUE
      BY <1>3 DEF TickEventOf
    <2>2. Step(exposure, e) = ForceFlat(exposure)
      BY <2>1 DEF Step
    <2>3. exposure.ticks_since_valid + 1 \in Nat /\ 0 \in Exposure
      BY LadderAssumption DEF ExposureState, Exposure
    <2> QED
      BY <2>2, <2>3 DEF ForceFlat, ExposureState, DegradationState, HARD_FAIL
  <1>4. CASE level # "halting"
    <2>1. e.kill_switch_halting = FALSE /\ e.b_t = Budget(k)
      BY <1>4 DEF TickEventOf
    <2>2. Step(exposure, e) = Rebalance(Budget(k))
      BY <1>2, <2>1 DEF Step
    <2> QED
      BY <1>1, <2>2 DEF Rebalance, ExposureState, DegradationState, HEALTHY
  <1> QED
    BY <1>3, <1>4

LEMMA PlainNext == Rows /\ Plain /\ RootInv /\ [Next]_vars => Plain'
  <1> SUFFICES ASSUME Rows, Plain, RootInv, [Next]_vars PROVE Plain'
    OBVIOUS
  <1>0. /\ FlatExposure \in ExposureState /\ "enabled" \in Level
        /\ Len(ledger) \in Nat
    BY LadderAssumption DEF FlatExposure, ExposureState, DegradationState, HEALTHY, Exposure, Level, Rows
  <1>1. CASE Begin
    BY <1>0, <1>1 DEF Begin, Plain, root
  <1>2. CASE PrepareRunRoot
    BY <1>0, <1>2 DEF PrepareRunRoot, Plain, run
  <1>3. CASE DecisionTick
    <2>1. exposure' = Step(exposure, TickEventOf(pc[2]))
      BY <1>3, Zenon DEF DecisionTick
    <2>2. UNCHANGED <<cleared, overwrite, occupied, level, restored, ops>>
      BY <1>3 DEF DecisionTick
    <2> QED
      BY <2>1, <2>2, LadderOfReplay DEF Plain
  <1>4. CASE RestoreLast
    <2>1. /\ pc = <<"restore">> /\ UNCHANGED <<cleared, overwrite, occupied, exposure, level, ops>>
      BY <1>4 DEF RestoreLast, run
    <2>2. restored' \in {restored, NULL, ledger[Len(ledger)].counts}
      BY <1>4 DEF RestoreLast, Verifies, Last
    <2>3. ledger[Len(ledger)].counts = Len(ledger)
      <3>1. pc \in Through
        BY <2>1 DEF Through, Late
      <3> QED
        BY <1>0, <3>1 DEF Rows
    <2> QED
      BY <1>0, <2>1, <2>2, <2>3 DEF Plain
  <1>5. CASE Operate \/ Withdraw
    <2>1. UNCHANGED <<overwrite, occupied, exposure, restored>>
      BY <1>5 DEF Operate, Withdraw, run, root
    <2>2. level' \in Level /\ cleared' \in BOOLEAN
      BY <1>5 DEF Operate, Withdraw, root, Plain
    <2>3. ops' \in 0..MaxOps
      BY <1>5, ReplayAssumption DEF Operate, Withdraw, Plain
    <2> QED
      BY <2>1, <2>2, <2>3 DEF Plain
  <1>6. CASE ~(Begin \/ PrepareRunRoot \/ DecisionTick \/ RestoreLast \/ Operate \/ Withdraw)
    <2>1. UNCHANGED <<cleared, overwrite, occupied, exposure, level, restored, ops>>
      BY <1>6 DEF Next, vars, run, root, Preflight, RefuseRoot, DieInRemoval, NormaliseEvents,
                  WriteEvidence, VerifyReplay, WriteManifest, SealManifest, Crash
    <2> QED
      BY <2>1 DEF Plain
  <1> QED
    BY <1>1, <1>2, <1>3, <1>4, <1>5, <1>6

\* The run's state is well-formed at every step, and the rows of the root are
\* as many as the ticks behind the runner.
THEOREM TypeCorrect == Spec => []TypeOK
  <1>1. ReplayInv /\ OfTheFeed /\ Plain => TypeOK
    <2> SUFFICES ASSUME ReplayInv, OfTheFeed, Plain PROVE TypeOK
      OBVIOUS
    <2>1. accepted \in Seq(IndexedRow) /\ samples \in Seq(IndexedRow)
      <3>1. CASE accepted = <<>> /\ samples = <<>>
        BY <3>1
      <3>2. CASE accepted \in Normalise(SessionRows) /\ samples \in DecisionSamples(accepted)
        BY <3>2, AcceptedType, SamplesType DEF OfTheFeed
      <3> QED
        BY <3>1, <3>2 DEF OfTheFeed
    <2>2. pc[1] = "tick" => Len(ledger) = pc[2] - 1
      <3>1. pc[1] = "tick" => pc \in Ticking
        BY StagesApart DEF ReplayInv, RootInv, RootOK, Away
      <3> QED
        BY <3>1 DEF ReplayInv, Rows
    <2>3. pc[1] \in {"records", "verify", "restore", "reports", "manifest"} => Len(ledger) = Len(samples)
      <3>1. pc[1] \in {"records", "verify", "restore", "reports", "manifest"} => pc \in Through
        BY DEF ReplayInv, RootInv, RootOK, Away, Owning, Filling, Early, Ticking, Through
      <3> QED
        BY <3>1 DEF ReplayInv, Rows
    <2>4. attempt \in 0..MaxAttempts /\ files \in [Dirs -> 0..MaxAttempts]
      BY DEF ReplayInv, RootInv, RootOK
    <2> QED
      BY <2>1, <2>2, <2>3, <2>4 DEF TypeOK, OfTheFeed, Plain, IndexedRow
  <1>2. Init => Plain
    <2>1. FlatExposure \in ExposureState
      BY LadderAssumption DEF FlatExposure, ExposureState, DegradationState, HEALTHY, Exposure
    <2>2. 0 \in 0..MaxOps
      BY ReplayAssumption
    <2> QED
      BY <2>1, <2>2, Zenon DEF Init, Plain, Level
  <1>3. ReplayInv => Rows /\ RootInv
    BY DEF ReplayInv
  <1>4. Spec => []Plain
    BY <1>2, <1>3, PlainNext, ReplayKept, PTL DEF Spec
  <1> QED
    BY <1>1, <1>4, OfTheFeedKept, ReplayKept, PTL

=============================================================================
