-------------------------- MODULE HindsightProofs --------------------------
(***************************************************************************)
(* Nothing is known before its time.                                       *)
(*                                                                         *)
(* What holds of the point-in-time store for every set of releases,        *)
(* periods, payloads and revision stamps, and wherever calls die; and of   *)
(* the evaluation for every number of rows and blocks, every series and    *)
(* every set of releases, prices and vintages: the purged splits, the      *)
(* walk-forward and the event audits.                                      *)
(***************************************************************************)
EXTENDS PitStore, EvalDrills, FiniteSetTheorems, SequenceTheorems, FunctionTheorems,
        WellFoundedInduction, TLAPS

\* The call under way has a row it has not inserted yet.
Pending == writer.stage \in {"staged", "promoted"}

\* No row of the manifest has the slot of this one.
Fresh(row) ==
    \A i \in Rows :
        ~ /\ manifest[i].release_ts = row.release_ts
          /\ manifest[i].observation = row.observation
          /\ manifest[i].revision_ts = row.revision_ts

-----------------------------------------------------------------------------
(***************************************************************************)
(* The two ways the manifest changes.                                      *)
(***************************************************************************)

\* Insert appends: the rows there keep their ids, the new one gets the next.
LEMMA AppendKeepsRows ==
    ASSUME NEW m \in Seq(Row), NEW row \in Row
    PROVE  /\ Append(m, row) \in Seq(Row)
           /\ Len(Append(m, row)) = Len(m) + 1
           /\ \A i \in 1 .. Len(m) : Append(m, row)[i] = m[i]
           /\ Append(m, row)[Len(m) + 1] = row
  OBVIOUS

\* supersede() changes superseded_by and nothing else.
LEMMA SupersedeKeepsSlots ==
    ASSUME NEW m \in Seq(Row), NEW f \in 1 .. Len(m), NEW n \in Nat,
           NEW m2, m2 = [m EXCEPT ![f].superseded_by = n]
    PROVE  /\ m2 \in Seq(Row)
           /\ Len(m2) = Len(m)
           /\ \A i \in 1 .. Len(m) :
                 /\ m2[i].release_ts = m[i].release_ts
                 /\ m2[i].observation = m[i].observation
                 /\ m2[i].revision_ts = m[i].revision_ts
                 /\ m2[i].usable_after_ts = m[i].usable_after_ts
                 /\ m2[i].checksum = m[i].checksum
  <1>1. \A i \in 1 .. Len(m) : m[i] \in Row
    OBVIOUS
  <1>2. Len(m2) = Len(m) /\ DOMAIN m2 = 1 .. Len(m)
    OBVIOUS
  <1>3. \A i \in 1 .. Len(m) : m2[i] = IF i = f THEN [m[f] EXCEPT !.superseded_by = n] ELSE m[i]
    OBVIOUS
  <1>4. [m[f] EXCEPT !.superseded_by = n] \in Row
    BY <1>1 DEF Row
  <1>5. m2 \in Seq(Row)
    BY <1>1, <1>2, <1>3, <1>4
  <1> QED
    BY <1>1, <1>2, <1>3, <1>5 DEF Row

\* A row that write_vintage builds is a manifest row.
LEMMA NewRowType ==
    ASSUME NEW rel \in Releases, NEW obs \in Observations, NEW data \in Payloads,
           NEW rev \in Nat \cup {NULL}, now \in Nat
    PROVE  NewRow(rel, obs, data, rev) \in Row
  BY StoreAssumption DEF NewRow, Row, NULL

\* fetchone() answers with a row of the manifest or with None.
LEMMA FetchOneType ==
    ASSUME NEW S \in SUBSET Rows
    PROVE  FetchOne(S) \subseteq Rows \cup {NULL}
  BY DEF FetchOne

\* The path of a row is a path.
LEMMA PathType ==
    ASSUME NEW row \in Row
    PROVE  CanonicalPath(row) \in Path
  <1>1. \A t \in Nat \cup {NULL} : Second(t) \in Nat \cup {NULL}
    BY StoreAssumption DEF Second, NULL
  <1>2. \A t \in Nat : Second(t) \in Nat
    BY StoreAssumption DEF Second, NULL
  <1> QED
    BY <1>1, <1>2 DEF CanonicalPath, Path, Row

-----------------------------------------------------------------------------
(***************************************************************************)
(* Type correctness.                                                       *)
(***************************************************************************)
\* An empty store is well-formed.
LEMMA TypeInit == Init => TypeOK
  BY StoreAssumption DEF Init, TypeOK, Idle, Rows

\* Classification leaves a well-formed call behind.
LEMMA ProceedType ==
    ASSUME TypeOK, NEW row \in Row, NEW first \in Rows \cup {NULL}, Proceed(row, first)
    PROVE  writer' \in Call /\ writer'.first = first /\ writer'.row = row
                            /\ writer'.stage = "staged" /\ writer'.id = Len(manifest) + 1
  <1>1. Len(manifest) \in Nat
    BY DEF TypeOK
  <1> QED
    BY <1>1 DEF Proceed, Call, Stages, Rows, NULL

\* Every step of a call, and a crash, keeps the store well-formed.
LEMMA TypeNext == TypeOK /\ [Next]_vars => TypeOK'
  <1> SUFFICES ASSUME TypeOK, [Next]_vars PROVE TypeOK'
    OBVIOUS
  <1> USE DEF TypeOK
  <1>0. /\ Len(manifest) \in Nat
        /\ now \in Nat
        /\ MaxTime \in Nat
        /\ \A i \in Rows : manifest[i] \in Row
    BY StoreAssumption DEF Rows
  <1>1. ASSUME NEW rel \in Releases, NEW obs \in Observations, NEW data \in Payloads,
               WriteVintage(rel, obs, data)
        PROVE  TypeOK'
    <2> DEFINE row == NewRow(rel, obs, data, NULL)
    <2>1. row \in Row /\ row.ingest_ts \in Nat
      BY <1>0, NewRowType DEF Row, NewRow
    <2>2. PICK first \in FetchOne(FirstReleases(row)) : ClassifyByPayload(row, first)
      BY <1>1 DEF WriteVintage
    <2>3. first \in Rows \cup {NULL}
      BY FetchOneType DEF FirstReleases
    <2>4. [row EXCEPT !.revision_ts = row.ingest_ts] \in Row
      BY <2>1 DEF Row
    <2> HIDE DEF row
    <2>5. writer' = Idle \/ (writer' \in Call /\ writer'.first = first)
      BY <2>1, <2>2, <2>3, <2>4, ProceedType DEF ClassifyByPayload
    <2>6. now' = now + 1 /\ now < MaxTime /\ UNCHANGED <<files, manifest>>
      BY <1>1 DEF WriteVintage, CanBegin
    <2> QED
      BY <1>0, <2>3, <2>5, <2>6 DEF Rows, Idle
  <1>2. ASSUME NEW rel \in Releases, NEW obs \in Observations, NEW data \in Payloads,
               NEW rev \in Stamps, WriteRevision(rel, obs, data, rev)
        PROVE  TypeOK'
    <2> DEFINE row == NewRow(rel, obs, data, rev)
    <2>0. rev \in Nat \cup {NULL}
      BY StoreAssumption
    <2>1. row \in Row
      BY <1>0, <2>0, NewRowType
    <2>2. PICK first \in FetchOne(FirstReleases(row)), slot \in FetchOne(ExactSlots(row)) :
              ClassifyBySlot(row, first, slot)
      BY <1>2 DEF WriteRevision
    <2>3. first \in Rows \cup {NULL}
      BY FetchOneType DEF FirstReleases
    <2> HIDE DEF row
    <2>4. CASE Proceed(row, first)
      <3>1. writer' \in Call /\ writer'.first = first
        BY <2>1, <2>3, <2>4, ProceedType
      <3> QED
        BY <1>0, <1>2, <2>3, <3>1 DEF WriteRevision, CanBegin, Rows
    <2>5. CASE writer' = Idle
      BY <1>0, <1>2, <2>5 DEF WriteRevision, CanBegin, Rows, Idle
    <2>6. CASE writer' = [stage |-> "raised", row |-> row, id |-> Len(manifest) + 1,
                          first |-> first]
      <3>1. writer' \in Call /\ writer'.first = first
        BY <1>0, <2>1, <2>3, <2>6 DEF Call, Stages, Rows, NULL
      <3> QED
        BY <1>0, <1>2, <2>3, <3>1 DEF WriteRevision, CanBegin, Rows
    <2> QED
      BY <2>2, <2>4, <2>5, <2>6 DEF ClassifyBySlot, NewSlot
  <1>3. ASSUME Promote PROVE TypeOK'
    <2>1. writer \in Call /\ writer.row \in Row
      BY <1>3 DEF Promote, Idle, Call
    <2>2. writer' \in Call /\ writer'.first = writer.first
      BY <1>3, <2>1 DEF Promote, Call, Stages
    <2> DEFINE path == CanonicalPath(writer.row)
    <2>3. path \in Path /\ writer.row.checksum \in Payloads
      BY <2>1, PathType DEF Row
    <2>4. files' = [p \in DOMAIN files \cup {path} |->
                       IF p = path THEN writer.row.checksum ELSE files[p]]
      BY <1>3 DEF Promote
    <2> HIDE DEF path
    <2>5. DOMAIN files' \subseteq Path /\ \A p \in DOMAIN files' : files'[p] \in Payloads
      BY <2>3, <2>4
    <2>6. writer.first \in Rows \cup {NULL} /\ UNCHANGED <<now, manifest>>
      BY <1>3 DEF Promote
    <2> QED
      BY <2>2, <2>5, <2>6 DEF Rows
  <1>4. ASSUME Insert PROVE TypeOK'
    <2>1. writer \in Call /\ writer.row \in Row
      BY <1>4 DEF Insert, Idle, Call
    <2>2. manifest' \in Seq(Row) /\ Len(manifest') = Len(manifest) + 1
      BY <1>4, <2>1, AppendKeepsRows DEF Insert
    <2>3. writer' = Idle \/ (writer' \in Call /\ writer'.first = writer.first)
      BY <1>4, <2>1 DEF Insert, Call, Stages
    <2>4. writer.first \in Rows' \cup {NULL}
      BY <1>0, <1>4, <2>1, <2>2 DEF Rows, Insert
    <2> QED
      BY <1>4, <2>2, <2>3, <2>4 DEF Insert, Idle
  <1>5. ASSUME Supersede PROVE TypeOK'
    <2>1. writer \in Call /\ writer.id \in Nat /\ writer.first \in 1 .. Len(manifest)
      BY <1>5 DEF Supersede, Idle, Call, Rows
    <2>2. manifest' \in Seq(Row)
      BY <1>5, <2>1, SupersedeKeepsSlots DEF Supersede
    <2> QED
      BY <1>5, <2>2 DEF Supersede, Idle
  <1>6. ASSUME AssertFails PROVE TypeOK'
    <2>1. writer' \in Call /\ writer'.first = writer.first
      BY <1>6 DEF AssertFails, Idle, Call, Stages
    <2> QED
      BY <1>6, <2>1 DEF AssertFails, Rows
  <1>7. ASSUME Crash PROVE TypeOK'
    BY <1>7 DEF Crash, Rows, Idle
  <1>8. ASSUME Advance PROVE TypeOK'
    BY <1>0, <1>8 DEF Advance, Rows
  <1>9. ASSUME UNCHANGED vars PROVE TypeOK'
    BY <1>9 DEF vars, Rows
  <1> QED
    BY <1>1, <1>2, <1>3, <1>4, <1>5, <1>6, <1>7, <1>8, <1>9 DEF Next

\* write_vintage keeps the manifest, the files and its own state well-formed,
\* for every input and every crash.
THEOREM TypeCorrect == Spec => []TypeOK
  BY TypeInit, TypeNext, PTL DEF Spec

-----------------------------------------------------------------------------
(***************************************************************************)
(* One row per vintage slot.  Not inductive alone: the row of the call     *)
(* under way must be fresh, and a revision known from now on is fresh only *)
(* because every stored revision_ts lies behind the clock.                 *)
(***************************************************************************)
SlotInv ==
    /\ TypeOK
    /\ SlotsUnique
    /\ \A i \in Rows : manifest[i].revision_ts < now
    /\ Pending => writer.row.revision_ts < now /\ Fresh(writer.row)

\* An empty store has no slot twice.
LEMMA SlotInit == Init => SlotInv
  BY TypeInit DEF Init, SlotInv, SlotsUnique, Rows, Pending, Idle

\* Every step keeps the slots apart: only a fresh row is inserted.
LEMMA SlotNext == SlotInv /\ [Next]_vars => SlotInv'
  <1> SUFFICES ASSUME SlotInv, [Next]_vars PROVE SlotInv'
    OBVIOUS
  <1>0. /\ TypeOK /\ TypeOK'
        /\ Len(manifest) \in Nat
        /\ now \in Nat
        /\ manifest \in Seq(Row)
        /\ \A i \in Rows : manifest[i] \in Row
    BY TypeNext DEF SlotInv, TypeOK, Rows
  <1>a. ASSUME UNCHANGED manifest, now' = now + 1 \/ now' = now
        PROVE  SlotsUnique' /\ \A i \in Rows' : manifest'[i].revision_ts < now'
    <2>1. \A i \in Rows : manifest[i].revision_ts \in Int
      BY <1>0 DEF Row, NULL
    <2>2. \A i \in Rows : manifest[i].revision_ts < now
      BY DEF SlotInv
    <2>3. \A i \in Rows : manifest[i].revision_ts < now'
      <3>1. \A t \in Int : t < now => t < now + 1
        BY <1>0
      <3> QED
        BY <1>a, <2>1, <2>2, <3>1
    <2>4. Rows' = Rows
      BY <1>a DEF Rows
    <2>5. SlotsUnique'
      BY <1>a, <2>4 DEF SlotInv, SlotsUnique
    <2> QED
      BY <1>a, <2>3, <2>4, <2>5
  <1>b. ASSUME NEW row \in Row, NEW first \in Rows \cup {NULL}, Proceed(row, first),
               UNCHANGED manifest, now' = now + 1, row.revision_ts <= now, Fresh(row)
        PROVE  SlotInv'
    <2>1. writer'.row = row
      BY <1>0, <1>b, ProceedType
    <2>2. row.revision_ts < now'
      BY <1>0, <1>b DEF Row, NULL
    <2>3. Fresh(row)'
      BY <1>b DEF Fresh, Rows
    <2> QED
      BY <1>0, <1>a, <1>b, <2>1, <2>2, <2>3 DEF SlotInv, Pending, Fresh
  <1>c. ASSUME writer'.stage \in {"idle", "raised", "inserted"}, UNCHANGED manifest,
               now' = now + 1 \/ now' = now
        PROVE  SlotInv'
    BY <1>0, <1>a, <1>c DEF SlotInv, Pending
  <1>1. ASSUME NEW rel \in Releases, NEW obs \in Observations, NEW data \in Payloads,
               WriteVintage(rel, obs, data)
        PROVE  SlotInv'
    <2> DEFINE row == NewRow(rel, obs, data, NULL)
    <2>1. /\ row \in Row /\ row.ingest_ts = now /\ row.revision_ts = NULL
      BY <1>0, NewRowType DEF NewRow
    <2>2. PICK first \in FetchOne(FirstReleases(row)) : ClassifyByPayload(row, first)
      BY <1>1 DEF WriteVintage
    <2>3. first \in Rows \cup {NULL} /\ (first = NULL => FirstReleases(row) = {})
      BY <1>0 DEF FetchOne, FirstReleases, Rows, NULL
    <2>4. UNCHANGED manifest /\ now' = now + 1
      BY <1>1 DEF WriteVintage
    <2> HIDE DEF row
    <2>5. CASE first = NULL /\ Proceed(row, first)
      <3>1. Fresh(row)
        BY <2>1, <2>3, <2>5 DEF Fresh, FirstReleases, SameRelease, SamePeriod
      <3>2. row.revision_ts <= now
        BY <1>0, <2>1 DEF NULL
      <3> QED
        BY <1>b, <2>1, <2>3, <2>4, <2>5, <3>1, <3>2
    <2>6. CASE writer' = Idle
      BY <1>c, <2>4, <2>6 DEF Idle
    <2>7. CASE Proceed([row EXCEPT !.revision_ts = row.ingest_ts], first)
      <3> DEFINE rev == [row EXCEPT !.revision_ts = row.ingest_ts]
      <3>1. rev \in Row /\ rev.revision_ts = now
        BY <1>0, <2>1 DEF Row
      <3> HIDE DEF rev
      <3>2. Fresh(rev)
        BY <1>0, <3>1 DEF Fresh, SlotInv, Row, NULL
      <3>3. Proceed(rev, first)
        BY <2>7 DEF rev
      <3> QED
        BY <1>0, <1>b, <2>3, <2>4, <3>1, <3>2, <3>3
    <2> QED
      BY <2>2, <2>5, <2>6, <2>7 DEF ClassifyByPayload
  <1>2. ASSUME NEW rel \in Releases, NEW obs \in Observations, NEW data \in Payloads,
               NEW rev \in Stamps, WriteRevision(rel, obs, data, rev)
        PROVE  SlotInv'
    <2> DEFINE row == NewRow(rel, obs, data, rev)
    <2>0. rev \in Nat
      BY StoreAssumption
    <2>1. row \in Row /\ row.revision_ts = rev
      BY <1>0, <2>0, NewRowType DEF NewRow
    <2>2. PICK first \in FetchOne(FirstReleases(row)), slot \in FetchOne(ExactSlots(row)) :
              ClassifyBySlot(row, first, slot)
      BY <1>2 DEF WriteRevision
    <2>3. first \in Rows \cup {NULL} /\ (slot = NULL => ExactSlots(row) = {})
      BY <1>0 DEF FetchOne, FirstReleases, ExactSlots, Rows, NULL
    <2>4. UNCHANGED manifest /\ now' = now + 1 /\ rev < now
      BY <1>2 DEF WriteRevision
    <2> HIDE DEF row
    <2>5. CASE slot = NULL /\ Proceed(row, first)
      <3>1. Fresh(row)
        BY <2>3, <2>5 DEF Fresh, ExactSlots, SameRelease, SamePeriod
      <3>2. row.revision_ts <= now
        BY <1>0, <2>0, <2>1, <2>4
      <3> QED
        BY <1>b, <2>1, <2>3, <2>4, <2>5, <3>1, <3>2
    <2>6. CASE writer' = Idle
      BY <1>c, <2>4, <2>6 DEF Idle
    <2>7. CASE writer' = [stage |-> "raised", row |-> row, id |-> Len(manifest) + 1,
                          first |-> first]
      BY <1>c, <2>4, <2>7
    <2> QED
      BY <2>2, <2>5, <2>6, <2>7 DEF ClassifyBySlot, NewSlot
  <1>3. ASSUME Promote PROVE SlotInv'
    <2>1. writer'.row = writer.row /\ Pending /\ UNCHANGED <<now, manifest>>
      BY <1>0, <1>3 DEF Promote, Pending, TypeOK, Call, Idle
    <2>2. Fresh(writer.row)' /\ writer'.row.revision_ts < now'
      BY <2>1 DEF SlotInv, Fresh, Rows
    <2> QED
      BY <1>0, <1>a, <2>1, <2>2 DEF SlotInv, Fresh
  <1>4. ASSUME Insert PROVE SlotInv'
    <2>1. writer.row \in Row /\ Pending
      BY <1>0, <1>4 DEF Insert, Pending, TypeOK, Call, Idle
    <2>2. /\ Len(manifest') = Len(manifest) + 1
          /\ \A i \in Rows : manifest'[i] = manifest[i]
          /\ manifest'[Len(manifest) + 1] = writer.row
      BY <1>0, <1>4, <2>1, AppendKeepsRows DEF Insert, Rows
    <2>3. \A i \in Rows' : i \in Rows \/ i = Len(manifest) + 1
      BY <1>0, <2>2 DEF Rows
    <2>4. SlotsUnique'
      BY <2>1, <2>2, <2>3 DEF SlotInv, SlotsUnique, Fresh
    <2>5. \A i \in Rows' : manifest'[i].revision_ts < now'
      BY <1>4, <2>1, <2>2, <2>3 DEF SlotInv, Insert
    <2>6. ~Pending'
      BY <1>0, <1>4 DEF Insert, Pending, Idle, TypeOK, Call
    <2> QED
      BY <1>0, <2>4, <2>5, <2>6 DEF SlotInv
  <1>5. ASSUME Supersede PROVE SlotInv'
    <2>1. writer.id \in Nat /\ writer.first \in 1 .. Len(manifest)
      BY <1>0, <1>5 DEF Supersede, Idle, Call, Rows, TypeOK
    <2>2. /\ Len(manifest') = Len(manifest)
          /\ \A i \in Rows : /\ manifest'[i].release_ts = manifest[i].release_ts
                             /\ manifest'[i].observation = manifest[i].observation
                             /\ manifest'[i].revision_ts = manifest[i].revision_ts
      BY <1>0, <1>5, <2>1, SupersedeKeepsSlots DEF Supersede, Rows
    <2>3. Rows' = Rows
      BY <2>2 DEF Rows
    <2>4. SlotsUnique'
      BY <2>2, <2>3 DEF SlotInv, SlotsUnique
    <2>5. \A i \in Rows' : manifest'[i].revision_ts < now'
      BY <1>5, <2>2, <2>3 DEF SlotInv, Supersede
    <2> QED
      BY <1>0, <1>5, <2>4, <2>5 DEF SlotInv, Supersede, Pending, Idle
  <1>6. ASSUME AssertFails PROVE SlotInv'
    <2>1. writer'.stage = "raised"
      BY <1>0, <1>6 DEF AssertFails, TypeOK, Call, Idle
    <2> QED
      BY <1>c, <1>6, <2>1 DEF AssertFails
  <1>7. ASSUME Crash PROVE SlotInv'
    BY <1>c, <1>7 DEF Crash, Idle
  <1>8. ASSUME Advance PROVE SlotInv'
    BY <1>c, <1>8 DEF Advance
  <1>9. ASSUME UNCHANGED vars PROVE SlotInv'
    BY <1>0, <1>9 DEF vars, SlotInv, SlotsUnique, Rows, Pending, Fresh
  <1> QED
    BY <1>1, <1>2, <1>3, <1>4, <1>5, <1>6, <1>7, <1>8, <1>9 DEF Next

\* The writer stores one row per (release_ts, observation, revision_ts), with
\* or without revision stamps and wherever a call dies.
THEOREM OneRowPerSlot == Spec => []SlotsUnique
  <1>1. SlotInv => SlotsUnique
    BY DEF SlotInv
  <1> QED
    BY SlotInit, SlotNext, <1>1, PTL DEF Spec

-----------------------------------------------------------------------------
(***************************************************************************)
(* Every row can be read back, when distinct timestamps name distinct      *)
(* directories (a tick of the clock is at least a second).                 *)
(***************************************************************************)
SecondClock == TicksPerSecond = 1

\* The file of the call under way is in place once it is promoted.
ReadInv ==
    /\ SlotInv
    /\ \A i \in Rows : Verified(i)
    /\ writer.stage = "promoted" =>
          /\ CanonicalPath(writer.row) \in DOMAIN files
          /\ files[CanonicalPath(writer.row)] = writer.row.checksum

\* Then a path names one slot.
LEMMA PathNamesSlot ==
    ASSUME SecondClock, NEW r \in Row, NEW s \in Row, CanonicalPath(r) = CanonicalPath(s)
    PROVE  /\ r.release_ts = s.release_ts
           /\ r.observation = s.observation
           /\ r.revision_ts = s.revision_ts
  <1>1. \A t \in Nat \cup {NULL} : Second(t) = t
    BY SecondClock DEF SecondClock, Second, NULL
  <1>2. /\ r.release_ts \in Nat /\ r.revision_ts \in Nat \cup {NULL}
        /\ s.release_ts \in Nat /\ s.revision_ts \in Nat \cup {NULL}
    BY DEF Row
  <1> QED
    BY <1>1, <1>2 DEF CanonicalPath

\* An empty store reads back.
LEMMA ReadInit == Init => ReadInv
  BY SlotInit DEF Init, ReadInv, Rows, Idle

\* Every step keeps every row readable: a promotion writes a path of its own.
LEMMA ReadNext ==
    ASSUME SecondClock, ReadInv, [Next]_vars
    PROVE  ReadInv'
  <1>0. /\ TypeOK /\ SlotInv /\ SlotInv' /\ TypeOK'
        /\ Len(manifest) \in Nat
        /\ manifest \in Seq(Row)
        /\ \A i \in Rows : manifest[i] \in Row
    BY SlotNext DEF ReadInv, SlotInv, TypeOK, Rows
  <1>a. ASSUME writer'.stage # "promoted", UNCHANGED <<files, manifest>>
        PROVE  ReadInv'
    BY <1>0, <1>a DEF ReadInv, Verified, Rows
  <1>1. ASSUME NEW rel \in Releases, NEW obs \in Observations, NEW data \in Payloads,
               WriteVintage(rel, obs, data)
        PROVE  ReadInv'
    <2>1. writer'.stage \in {"idle", "staged"}
      BY <1>1 DEF WriteVintage, ClassifyByPayload, Proceed, Idle
    <2> QED
      BY <1>a, <1>1, <2>1 DEF WriteVintage
  <1>2. ASSUME NEW rel \in Releases, NEW obs \in Observations, NEW data \in Payloads,
               NEW rev \in Stamps, WriteRevision(rel, obs, data, rev)
        PROVE  ReadInv'
    <2>1. writer'.stage \in {"idle", "staged", "raised"}
      BY <1>2 DEF WriteRevision, ClassifyBySlot, NewSlot, Proceed, Idle
    <2> QED
      BY <1>a, <1>2, <2>1 DEF WriteRevision
  <1>3. ASSUME Promote PROVE ReadInv'
    <2>1. writer.row \in Row /\ Fresh(writer.row) /\ writer'.row = writer.row
      BY <1>0, <1>3 DEF Promote, SlotInv, Pending, TypeOK, Call, Idle
    <2> DEFINE path == CanonicalPath(writer.row)
    <2>2. /\ DOMAIN files' = DOMAIN files \cup {path}
          /\ files'[path] = writer.row.checksum
          /\ \A p \in DOMAIN files : p # path => files'[p] = files[p]
          /\ UNCHANGED manifest
      BY <1>3 DEF Promote
    <2>3. \A i \in Rows : CanonicalPath(manifest[i]) # path
      BY <1>0, <2>1, PathNamesSlot DEF Fresh
    <2>4. \A i \in Rows : Verified(i)'
      BY <2>2, <2>3 DEF ReadInv, Verified
    <2>5. CanonicalPath(writer.row)' = path
      BY <2>1 DEF CanonicalPath, Second
    <2> QED
      BY <1>0, <2>1, <2>2, <2>4, <2>5 DEF ReadInv, Rows
  <1>4. ASSUME Insert PROVE ReadInv'
    <2>1. writer.row \in Row /\ writer'.stage # "promoted" /\ UNCHANGED files
      BY <1>0, <1>4 DEF Insert, TypeOK, Call, Idle
    <2>2. /\ Len(manifest') = Len(manifest) + 1
          /\ \A i \in Rows : manifest'[i] = manifest[i]
          /\ manifest'[Len(manifest) + 1] = writer.row
      BY <1>0, <1>4, <2>1, AppendKeepsRows DEF Insert, Rows
    <2>3. \A i \in Rows' : i \in Rows \/ i = Len(manifest) + 1
      BY <1>0, <2>2 DEF Rows
    <2>4. \A i \in Rows : Verified(i)'
      BY <2>1, <2>2 DEF ReadInv, Verified
    <2>5. \A i \in Rows' : i = Len(manifest) + 1 => Verified(i)'
      <3>1. /\ CanonicalPath(writer.row) \in DOMAIN files'
            /\ files'[CanonicalPath(writer.row)] = writer.row.checksum
        BY <1>4, <2>1 DEF ReadInv, Insert
      <3> QED
        BY <2>2, <3>1 DEF Verified, CanonicalPath, Second
    <2> QED
      BY <1>0, <2>1, <2>3, <2>4, <2>5 DEF ReadInv
  <1>5. ASSUME Supersede PROVE ReadInv'
    <2>1. writer.id \in Nat /\ writer.first \in 1 .. Len(manifest) /\ UNCHANGED files
      BY <1>0, <1>5 DEF Supersede, Idle, Call, Rows, TypeOK
    <2>2. /\ Len(manifest') = Len(manifest)
          /\ \A i \in Rows : /\ manifest'[i].release_ts = manifest[i].release_ts
                             /\ manifest'[i].observation = manifest[i].observation
                             /\ manifest'[i].revision_ts = manifest[i].revision_ts
                             /\ manifest'[i].checksum = manifest[i].checksum
      BY <1>0, <1>5, <2>1, SupersedeKeepsSlots DEF Supersede, Rows
    <2>3. \A i \in Rows : Verified(i)'
      BY <2>1, <2>2 DEF ReadInv, Verified, CanonicalPath, Second
    <2> QED
      BY <1>0, <1>5, <2>2, <2>3 DEF ReadInv, Supersede, Idle, Rows
  <1>6. ASSUME AssertFails PROVE ReadInv'
    <2>1. writer'.stage = "raised"
      BY <1>0, <1>6 DEF AssertFails, TypeOK, Call, Idle
    <2> QED
      BY <1>a, <1>6, <2>1 DEF AssertFails
  <1>7. ASSUME Crash PROVE ReadInv'
    BY <1>a, <1>7 DEF Crash, Idle
  <1>8. ASSUME Advance PROVE ReadInv'
    BY <1>a, <1>8 DEF Advance
  <1>9. ASSUME UNCHANGED vars PROVE ReadInv'
    BY <1>0, <1>9 DEF vars, ReadInv, Verified, Rows
  <1> QED
    BY <1>1, <1>2, <1>3, <1>4, <1>5, <1>6, <1>7, <1>8, <1>9 DEF Next

\* When no two timestamps share a second, no read of the store ever fails its
\* checksum: crashes leave orphan files, never a row whose file is another's.
THEOREM StoreIsReadable ==
    ASSUME SecondClock
    PROVE  Spec => []RowsReadable
  <1>1. ReadInv /\ [Next]_vars => ReadInv'
    BY ReadNext, SecondClock
  <1>2. ReadInv => RowsReadable
    BY DEF ReadInv, RowsReadable, ChecksumFailures
  <1> QED
    BY ReadInit, <1>1, <1>2, PTL DEF Spec

-----------------------------------------------------------------------------
(***************************************************************************)
(* Revisions do not rewrite the past.                                      *)
(***************************************************************************)

\* The revision of the call under way is known from its ingestion on, or from
\* the moment its caller said.
StampInv ==
    /\ TypeOK
    /\ Pending => writer.row.revision_ts \in {NULL, writer.row.ingest_ts} \cup Stamps

\* Every step keeps the stamp of the pending revision.
LEMMA StampNext ==
    ASSUME StampInv, [Next]_vars
    PROVE  StampInv'
  <1>0. TypeOK /\ TypeOK' /\ now \in Nat
    BY TypeNext, StoreAssumption DEF StampInv, TypeOK
  <1>1. ASSUME NEW rel \in Releases, NEW obs \in Observations, NEW data \in Payloads,
               WriteVintage(rel, obs, data)
        PROVE  StampInv'
    <2> DEFINE row == NewRow(rel, obs, data, NULL)
    <2>1. row \in Row /\ row.revision_ts = NULL
      BY <1>0, NewRowType DEF NewRow
    <2>2. PICK first \in FetchOne(FirstReleases(row)) : ClassifyByPayload(row, first)
      BY <1>1 DEF WriteVintage
    <2> HIDE DEF row
    <2>3. writer' = Idle \/ writer'.row = row
                         \/ writer'.row = [row EXCEPT !.revision_ts = row.ingest_ts]
      BY <2>2 DEF ClassifyByPayload, Proceed
    <2> QED
      BY <1>0, <2>1, <2>3 DEF StampInv, Pending, Idle, Row
  <1>2. ASSUME NEW rel \in Releases, NEW obs \in Observations, NEW data \in Payloads,
               NEW rev \in Stamps, WriteRevision(rel, obs, data, rev)
        PROVE  StampInv'
    <2> DEFINE row == NewRow(rel, obs, data, rev)
    <2>1. row.revision_ts = rev
      BY DEF NewRow
    <2>2. PICK first \in FetchOne(FirstReleases(row)), slot \in FetchOne(ExactSlots(row)) :
              ClassifyBySlot(row, first, slot)
      BY <1>2 DEF WriteRevision
    <2> HIDE DEF row
    <2>3. writer' = Idle \/ writer'.row = row
      BY <2>2 DEF ClassifyBySlot, NewSlot, Proceed
    <2> QED
      BY <1>0, <2>1, <2>3 DEF StampInv, Pending, Idle
  <1>3. ASSUME Promote PROVE StampInv'
    <2>1. writer'.row = writer.row /\ Pending
      BY <1>0, <1>3 DEF Promote, TypeOK, Call, Idle, Pending
    <2> QED
      BY <1>0, <2>1 DEF StampInv
  <1>4. ASSUME Insert \/ Supersede \/ AssertFails \/ Crash \/ Advance PROVE StampInv'
    <2>1. ~Pending'
      BY <1>0, <1>4 DEF Insert, Supersede, AssertFails, Crash, Advance,
                        TypeOK, Call, Idle, Pending
    <2> QED
      BY <1>0, <2>1 DEF StampInv
  <1>5. ASSUME UNCHANGED vars PROVE StampInv'
    BY <1>0, <1>5 DEF vars, StampInv, Pending
  <1> QED
    BY <1>1, <1>2, <1>3, <1>4, <1>5 DEF Next

\* The eligible rows keep their ids and what as_of compares of them.
KeepsEligible(ts) ==
    /\ Eligible(ts)' = Eligible(ts)
    /\ \A i \in Eligible(ts) :
          /\ manifest'[i].release_ts = manifest[i].release_ts
          /\ manifest'[i].observation = manifest[i].observation
          /\ manifest'[i].revision_ts = manifest[i].revision_ts
          /\ manifest'[i].usable_after_ts = manifest[i].usable_after_ts

\* as_of then gives the same answer.
LEMMA SameAnswer ==
    ASSUME NEW ts \in Nat, KeepsEligible(ts)
    PROVE  AsOf(ts)' = AsOf(ts)
  <1>1. \A i, j \in Eligible(ts) : Before(j, i)' <=> Before(j, i)
    BY DEF KeepsEligible, Before, KnownBy
  <1> QED
    BY <1>1 DEF KeepsEligible, AsOf

\* An action that leaves the manifest alone keeps every answer.
LEMMA SameManifest ==
    ASSUME UNCHANGED manifest, NEW ts \in Nat
    PROVE  AsOf(ts)' = AsOf(ts)
  BY DEF AsOf, Eligible, Before, KnownBy, Rows

\* A step that changes a past answer inserts a first release or a stamped revision.
LEMMA PastNext ==
    ASSUME StampInv, [Next]_vars, NEW ts \in 0 .. MaxTime,
           Past(ts), AsOf(ts) # AsOf(ts)'
    PROVE  /\ Len(manifest') > Len(manifest)
           /\ manifest'[Len(manifest')].revision_ts \in Stamps \cup {NULL}
  <1>0. /\ ts \in Nat
        /\ Len(manifest) \in Nat
        /\ manifest \in Seq(Row)
        /\ \A i \in Rows : manifest[i] \in Row
    BY StoreAssumption DEF StampInv, TypeOK, Rows
  <1>1. CASE UNCHANGED manifest
    BY <1>0, <1>1, SameManifest
  <1>2. CASE Insert
    <2>1. writer.row \in Row /\ Pending
      BY <1>2 DEF Insert, StampInv, TypeOK, Call, Idle, Pending
    <2>2. /\ Len(manifest') = Len(manifest) + 1
          /\ \A i \in Rows : manifest'[i] = manifest[i]
          /\ manifest'[Len(manifest) + 1] = writer.row
      BY <1>0, <1>2, <2>1, AppendKeepsRows DEF Insert, Rows
    <2>3. \A i \in Rows' : i \in Rows \/ i = Len(manifest) + 1
      BY <1>0, <2>2 DEF Rows
    <2>4. CASE writer.row.revision_ts \notin Stamps \cup {NULL}
      <3>1. writer.row.revision_ts = writer.row.ingest_ts /\ ts < writer.row.ingest_ts
        BY <1>2, <2>1, <2>4 DEF StampInv, Past, Insert
      <3>2. ~(writer.row.revision_ts <= ts)
        BY <1>0, <2>1, <3>1 DEF Row
      <3>3. \A i \in Rows' : i = Len(manifest) + 1 => i \notin Eligible(ts)'
        BY <2>2, <2>4, <3>2 DEF Eligible, KnownBy
      <3>4. \A i \in Rows : i \in Eligible(ts)' <=> i \in Eligible(ts)
        BY <1>0, <2>2 DEF Eligible, KnownBy, Rows
      <3>5. Eligible(ts)' = Eligible(ts)
        BY <2>3, <3>3, <3>4 DEF Eligible
      <3>6. KeepsEligible(ts)
        BY <2>2, <3>5 DEF KeepsEligible, Eligible
      <3> QED
        BY <1>0, <3>6, SameAnswer
    <2> QED
      BY <1>0, <2>2, <2>4
  <1>3. CASE Supersede
    <2>1. writer.id \in Nat /\ writer.first \in 1 .. Len(manifest)
      BY <1>3 DEF Supersede, Idle, Call, Rows, StampInv, TypeOK
    <2>2. /\ Len(manifest') = Len(manifest)
          /\ \A i \in Rows : /\ manifest'[i].release_ts = manifest[i].release_ts
                             /\ manifest'[i].observation = manifest[i].observation
                             /\ manifest'[i].revision_ts = manifest[i].revision_ts
                             /\ manifest'[i].usable_after_ts = manifest[i].usable_after_ts
      BY <1>0, <1>3, <2>1, SupersedeKeepsSlots DEF Supersede, Rows
    <2>3. Rows' = Rows
      BY <2>2 DEF Rows
    <2>4. Eligible(ts)' = Eligible(ts)
      BY <2>2, <2>3 DEF Eligible, KnownBy
    <2>5. KeepsEligible(ts)
      BY <2>2, <2>4 DEF KeepsEligible, Eligible
    <2> QED
      BY <1>0, <2>5, SameAnswer
  <1> QED
    BY <1>1, <1>2, <1>3 DEF Next, vars, WriteVintage, WriteRevision, Promote,
                            AssertFails, Crash, Advance

\* What as_of answers for a moment before a call can change only because a
\* first release arrived late or a caller stamped a revision; no revision that
\* write_vintage stamps, no crash and no repeated call rewrites it.
THEOREM RevisionsLeavePast == Spec => RevisionsKeepPast
  <1>1. Init => StampInv
    BY TypeInit DEF Init, StampInv, Pending, Idle
  <1>2. StampInv /\ [Next]_vars => StampInv'
    BY StampNext
  <1>3. StampInv /\ [Next]_vars =>
          [\A ts \in 0 .. MaxTime :
              (Past(ts) /\ AsOf(ts) # AsOf(ts)') =>
                  /\ Len(manifest') > Len(manifest)
                  /\ manifest'[Len(manifest')].revision_ts \in Stamps \cup {NULL}]_vars
    BY PastNext
  <1> QED
    BY <1>1, <1>2, <1>3, PTL DEF Spec, RevisionsKeepPast
-----------------------------------------------------------------------------
(***************************************************************************)
(* What supersede() marks is outranked.  The mark is set by the writer and *)
(* the order is computed by the reader from other columns, so they agree   *)
(* only under what the callers see to: vintages name their period, a fetch *)
(* runs when its release is usable, a stamp lies after that moment.        *)
(***************************************************************************)
Orderly ==
    /\ NULL \notin Observations
    /\ LatencyGuard <= FetchDelay
    /\ \A rev \in Stamps, rel \in Releases : rel + LatencyGuard < rev

\* A vintage that was usable before the clock's present tick.
Arrived(row) ==
    /\ row.usable_after_ts = row.release_ts + LatencyGuard
    /\ row.usable_after_ts < now /\ row.revision_ts < now

\* A revision that as_of prefers to the first release it is a revision of.
Revises(row, first) ==
    /\ row.revision_ts # NULL
    /\ first.release_ts = row.release_ts /\ first.observation = row.observation
    /\ first.revision_ts = NULL /\ first.usable_after_ts < row.revision_ts

\* Every marked row has a revision in the manifest; the one the call under way
\* brings will be the next row, or is its row already.
SupersededInv ==
    /\ SlotInv
    /\ \A i \in Rows :
          /\ Arrived(manifest[i])
          /\ manifest[i].superseded_by # NULL => \E j \in Rows : Revises(manifest[j], manifest[i])
    /\ Pending =>
          /\ writer.id = Len(manifest) + 1 /\ writer.row.superseded_by = NULL
          /\ Arrived(writer.row)
          /\ writer.row.revision_ts # NULL /\ writer.first # NULL =>
                Revises(writer.row, manifest[writer.first])
    /\ writer.stage = "inserted" =>
          /\ writer.id \in Rows
          /\ writer.first # NULL => Revises(manifest[writer.id], manifest[writer.first])

\* A call proceeds with a vintage that has arrived and that revises the first
\* release it found, if it found one.
LEMMA ProceedRevises ==
    ASSUME SupersededInv, NEW row \in Row, NEW first \in Rows \cup {NULL}, Proceed(row, first),
           UNCHANGED manifest, now' = now + 1, SlotInv',
           row.superseded_by = NULL, row.usable_after_ts = row.release_ts + LatencyGuard,
           row.usable_after_ts <= now, row.revision_ts <= now,
           row.revision_ts # NULL /\ first # NULL => Revises(row, manifest[first])
    PROVE  SupersededInv'
  <1>0. /\ TypeOK /\ now \in Nat /\ \A i \in Rows : manifest[i] \in Row
        /\ Rows' = Rows
    BY DEF SupersededInv, SlotInv, TypeOK, Rows
  <1>1. /\ writer'.first = first /\ writer'.row = row
        /\ writer'.stage = "staged" /\ writer'.id = Len(manifest) + 1
    BY <1>0, ProceedType
  <1>2. \A r \in Row : Arrived(r) => Arrived(r)'
    BY <1>0 DEF Arrived, Row, NULL
  <1>3. Arrived(row)'
    BY <1>0 DEF Arrived, Row, NULL
  <1>4. \A i \in Rows : Arrived(manifest[i])'
    BY <1>0, <1>2 DEF SupersededInv, Arrived
  <1> QED
    BY <1>0, <1>1, <1>3, <1>4 DEF SupersededInv, Pending, Arrived, Revises

\* Every step keeps the marks on rows that are outranked.
LEMMA SupersededNext ==
    ASSUME Orderly
    PROVE  SupersededInv /\ [Next]_vars => SupersededInv'
  <1> SUFFICES ASSUME SupersededInv, [Next]_vars PROVE SupersededInv'
    OBVIOUS
  <1>0. /\ TypeOK /\ TypeOK' /\ SlotInv'
        /\ Len(manifest) \in Nat /\ now \in Nat /\ LatencyGuard \in Nat /\ FetchDelay \in Nat
        /\ manifest \in Seq(Row)
        /\ \A i \in Rows : manifest[i] \in Row
    BY SlotNext, StoreAssumption DEF SupersededInv, SlotInv, TypeOK, Rows
  <1>a. ASSUME UNCHANGED manifest, now' = now + 1 \/ now' = now,
               writer'.stage \in {"idle", "raised"}
        PROVE  SupersededInv'
    <2>0. \A i \in Rows : manifest[i].usable_after_ts \in Int /\ manifest[i].revision_ts \in Int
      BY <1>0 DEF Row, NULL
    <2>1. \A i \in Rows : Arrived(manifest[i])'
      BY <1>0, <1>a, <2>0 DEF SupersededInv, Arrived
    <2> QED
      BY <1>0, <1>a, <2>1 DEF SupersededInv, Pending, Rows, Revises, Arrived
  <1>1. ASSUME NEW rel \in Releases, NEW obs \in Observations, NEW data \in Payloads,
               WriteVintage(rel, obs, data)
        PROVE  SupersededInv'
    <2> DEFINE row == NewRow(rel, obs, data, NULL)
    <2>1. /\ row \in Row /\ row.ingest_ts = now /\ row.revision_ts = NULL
          /\ row.superseded_by = NULL /\ row.release_ts = rel /\ row.observation = obs
          /\ row.usable_after_ts = rel + LatencyGuard
      BY <1>0, NewRowType DEF NewRow
    <2>2. PICK first \in FetchOne(FirstReleases(row)) : ClassifyByPayload(row, first)
      BY <1>1 DEF WriteVintage
    <2>3. first \in Rows \cup {NULL} /\ (first # NULL => first \in FirstReleases(row))
      BY <1>0 DEF FetchOne, FirstReleases, Rows, NULL
    <2>4. UNCHANGED manifest /\ now' = now + 1 /\ rel + FetchDelay <= now /\ rel \in Nat
      BY <1>1, StoreAssumption DEF WriteVintage
    <2>5. row.usable_after_ts <= now
      BY <1>0, <2>1, <2>4 DEF Orderly
    <2> HIDE DEF row
    <2>6. CASE first = NULL /\ Proceed(row, first)
      <3>1. row.revision_ts <= now
        BY <1>0, <2>1 DEF NULL
      <3> QED
        BY <1>0, <2>1, <2>3, <2>4, <2>5, <2>6, <3>1, ProceedRevises
    <2>7. CASE writer' = Idle
      BY <1>a, <2>4, <2>7 DEF Idle
    <2>8. CASE first # NULL /\ Proceed([row EXCEPT !.revision_ts = row.ingest_ts], first)
      <3> DEFINE rev == [row EXCEPT !.revision_ts = row.ingest_ts]
      <3>1. /\ rev \in Row /\ rev.revision_ts = now /\ rev.superseded_by = NULL
            /\ rev.release_ts = rel /\ rev.observation = obs
            /\ rev.usable_after_ts = rel + LatencyGuard
        BY <1>0, <2>1 DEF Row
      <3>2. Proceed(rev, first)
        BY <2>8
      <3> HIDE DEF rev
      <3>3. Revises(rev, manifest[first])
        <4>1. /\ first \in Rows /\ manifest[first].release_ts = rel
              /\ manifest[first].observation = obs /\ manifest[first].revision_ts = NULL
          BY <2>1, <2>3, <2>8 DEF FirstReleases, SameRelease, SamePeriod, Orderly
        <4>2. manifest[first].usable_after_ts < now
          BY <4>1 DEF SupersededInv, Arrived
        <4>3. now # NULL
          BY <1>0 DEF NULL
        <4> QED
          BY <3>1, <4>1, <4>2, <4>3 DEF Revises
      <3> QED
        BY <1>0, <2>3, <2>4, <2>5, <2>1, <3>1, <3>2, <3>3, ProceedRevises
    <2> QED
      BY <2>2, <2>6, <2>7, <2>8 DEF ClassifyByPayload
  <1>2. ASSUME NEW rel \in Releases, NEW obs \in Observations, NEW data \in Payloads,
               NEW rev \in Stamps, WriteRevision(rel, obs, data, rev)
        PROVE  SupersededInv'
    <2> DEFINE row == NewRow(rel, obs, data, rev)
    <2>0. rev \in Nat /\ rel \in Nat /\ rel + LatencyGuard < rev
      BY StoreAssumption DEF Orderly
    <2>1. /\ row \in Row /\ row.revision_ts = rev
          /\ row.superseded_by = NULL /\ row.release_ts = rel /\ row.observation = obs
          /\ row.usable_after_ts = rel + LatencyGuard
      BY <1>0, <2>0, NewRowType DEF NewRow
    <2>2. PICK first \in FetchOne(FirstReleases(row)), slot \in FetchOne(ExactSlots(row)) :
              ClassifyBySlot(row, first, slot)
      BY <1>2 DEF WriteRevision
    <2>3. first \in Rows \cup {NULL} /\ (first # NULL => first \in FirstReleases(row))
      BY <1>0 DEF FetchOne, FirstReleases, Rows, NULL
    <2>4. UNCHANGED manifest /\ now' = now + 1 /\ rel + FetchDelay <= now /\ rev < now
      BY <1>2 DEF WriteRevision
    <2>5. row.usable_after_ts <= now /\ row.revision_ts <= now
      BY <1>0, <2>0, <2>1, <2>4 DEF Orderly
    <2> HIDE DEF row
    <2>6. CASE Proceed(row, first)
      <3>1. ASSUME first # NULL PROVE Revises(row, manifest[first])
        <4>1. /\ first \in Rows /\ manifest[first].release_ts = rel
              /\ manifest[first].observation = obs /\ manifest[first].revision_ts = NULL
          BY <2>1, <2>3, <3>1 DEF FirstReleases, SameRelease, SamePeriod, Orderly
        <4>2. manifest[first].usable_after_ts = rel + LatencyGuard
          BY <4>1 DEF SupersededInv, Arrived
        <4>3. rev # NULL
          BY <2>0 DEF NULL
        <4> QED
          BY <2>0, <2>1, <4>1, <4>2, <4>3 DEF Revises
      <3> QED
        BY <1>0, <2>1, <2>3, <2>4, <2>5, <2>6, <3>1, ProceedRevises
    <2>7. CASE writer'.stage \in {"idle", "raised"}
      BY <1>a, <2>4, <2>7
    <2> QED
      BY <2>2, <2>6, <2>7 DEF ClassifyBySlot, NewSlot, Idle
  <1>3. ASSUME Promote PROVE SupersededInv'
    <2>1. /\ writer'.row = writer.row /\ writer'.id = writer.id /\ writer'.first = writer.first
          /\ writer'.stage = "promoted" /\ Pending /\ UNCHANGED <<now, manifest>>
      BY <1>0, <1>3 DEF Promote, Pending, TypeOK, Call, Idle
    <2> QED
      BY <1>0, <2>1 DEF SupersededInv, Rows, Arrived, Revises, Pending
  <1>4. ASSUME Insert PROVE SupersededInv'
    <2>1. writer.row \in Row /\ Pending /\ writer.first \in Rows \cup {NULL}
      BY <1>0, <1>4 DEF Insert, Pending, TypeOK, Call, Idle
    <2>2. /\ Len(manifest') = Len(manifest) + 1
          /\ \A i \in Rows : manifest'[i] = manifest[i]
          /\ manifest'[Len(manifest) + 1] = writer.row /\ UNCHANGED now
      BY <1>0, <1>4, <2>1, AppendKeepsRows DEF Insert, Rows
    <2>3. Rows' = Rows \cup {Len(manifest) + 1}
      BY <1>0, <2>2 DEF Rows
    <2>4. \A i \in Rows' :
             /\ Arrived(manifest[i])'
             /\ manifest'[i].superseded_by # NULL =>
                   \E j \in Rows' : Revises(manifest'[j], manifest'[i])
      BY <2>1, <2>2, <2>3 DEF SupersededInv, Arrived
    <2>5. \/ writer'.stage = "idle"
          \/ /\ writer'.stage = "inserted" /\ writer.row.revision_ts # NULL
             /\ writer'.id = writer.id /\ writer'.first = writer.first
      BY <1>0, <1>4 DEF Insert, Idle, TypeOK, Call
    <2>6. writer'.stage = "inserted" =>
             /\ writer'.id \in Rows'
             /\ writer'.first # NULL => Revises(manifest'[writer'.id], manifest'[writer'.first])
      BY <2>1, <2>2, <2>3, <2>5 DEF SupersededInv
    <2> QED
      BY <1>0, <2>4, <2>5, <2>6 DEF SupersededInv, Pending, Revises
  <1>5. ASSUME Supersede PROVE SupersededInv'
    <2>1. /\ writer.id \in Nat /\ writer.first \in 1 .. Len(manifest)
          /\ writer'.stage = "idle" /\ UNCHANGED now /\ writer.id \in Rows
          /\ Revises(manifest[writer.id], manifest[writer.first])
      BY <1>0, <1>5 DEF Supersede, Idle, Call, Rows, TypeOK, SupersededInv
    <2>2. /\ Len(manifest') = Len(manifest)
          /\ \A i \in Rows : /\ manifest'[i].release_ts = manifest[i].release_ts
                             /\ manifest'[i].observation = manifest[i].observation
                             /\ manifest'[i].revision_ts = manifest[i].revision_ts
                             /\ manifest'[i].usable_after_ts = manifest[i].usable_after_ts
      BY <1>0, <1>5, <2>1, SupersedeKeepsSlots DEF Supersede, Rows
    <2>3. \A i \in Rows : i # writer.first => manifest'[i] = manifest[i]
      BY <1>0, <1>5 DEF Supersede
    <2>4. Rows' = Rows
      BY <2>2 DEF Rows
    <2>5. \A i, j \in Rows : Revises(manifest[j], manifest[i]) => Revises(manifest'[j], manifest'[i])
      BY <2>2 DEF Revises
    <2>6. \A i \in Rows : Arrived(manifest[i])'
      BY <2>1, <2>2 DEF SupersededInv, Arrived
    <2>7. \A i \in Rows : manifest'[i].superseded_by # NULL =>
                             \E j \in Rows : Revises(manifest'[j], manifest'[i])
      BY <2>1, <2>3, <2>5 DEF SupersededInv, Rows
    <2> QED
      BY <1>0, <2>1, <2>4, <2>6, <2>7 DEF SupersededInv, Pending, Revises
  <1>6. ASSUME AssertFails \/ Crash \/ Advance PROVE SupersededInv'
    <2>1. writer'.stage \in {"idle", "raised"} /\ UNCHANGED manifest
          /\ (now' = now + 1 \/ now' = now)
      BY <1>0, <1>6 DEF AssertFails, Crash, Advance, TypeOK, Call, Idle
    <2> QED
      BY <1>a, <2>1
  <1>7. ASSUME UNCHANGED vars PROVE SupersededInv'
    BY <1>0, <1>7 DEF vars, SupersededInv, Rows, Pending, Arrived, Revises
  <1> QED
    BY <1>1, <1>2, <1>3, <1>4, <1>5, <1>6, <1>7 DEF Next

\* When vintages name their period, a fetch runs once its release is usable
\* and stamps lie after that, what the writer marks superseded is never what
\* as_of serves at the current time, wherever calls die.
THEOREM MarkedIsNotServed == ASSUME Orderly PROVE Spec => []SupersededNotServed
  <1>1. Init => SupersededInv
    BY SlotInit DEF Init, SupersededInv, Rows, Pending, Idle
  <1>2. SupersededInv => SupersededNotServed
    <2> SUFFICES ASSUME SupersededInv, NEW i \in AsOf(now), manifest[i].superseded_by # NULL
                 PROVE  FALSE
      BY DEF SupersededNotServed
    <2>1. i \in Rows /\ \A k \in Eligible(now) : ~ Before(k, i)
      BY DEF AsOf, Eligible
    <2>2. PICK j \in Rows : Revises(manifest[j], manifest[i])
      BY <2>1 DEF SupersededInv
    <2>3. Arrived(manifest[j]) /\ manifest[j] \in Row /\ now \in Nat
      BY DEF SupersededInv, SlotInv, TypeOK, Rows
    <2>4. j \in Eligible(now)
      BY <2>2, <2>3 DEF Eligible, KnownBy, Arrived, Revises, Row, NULL
    <2>5. Before(j, i)
      BY <2>2 DEF Before, KnownBy, Revises
    <2> QED
      BY <2>1, <2>4, <2>5
  <1> QED
    BY <1>1, <1>2, SupersededNext, PTL DEF Spec


-----------------------------------------------------------------------------
(***************************************************************************)
(* First and last days, shared by what follows on the evaluation.          *)
(***************************************************************************)

LEMMA FirstExists ==
    ASSUME NEW S \in SUBSET Nat, S # {}
    PROVE  \E d \in S : \A x \in S : d <= x
  <1>1. PICK d \in S : \A x \in S : <<x, d>> \notin OpToRel(<, Nat)
    BY NatLessThanWellFounded, WFMin
  <1>2. \A x \in S : ~(x < d)
    BY <1>1 DEF OpToRel
  <1> QED
    BY <1>2

LEMMA FirstOfDays ==
    ASSUME NEW S \in SUBSET Int, S # {}, NEW b \in Int, \A x \in S : b <= x
    PROVE  \E d \in S : \A x \in S : d <= x
  <1> DEFINE N == {x - b : x \in S}
  <1>1. N \in SUBSET Nat /\ N # {}
    <2>1. \A x \in S : x - b \in Nat /\ x - b \in N
      OBVIOUS
    <2> QED
      BY <2>1
  <1>2. PICK n \in N : \A m \in N : n <= m
    BY <1>1, FirstExists
  <1>3. PICK d \in S : n = d - b
    BY <1>2
  <1>4. \A x \in S : d <= x
    <2> TAKE x \in S
    <2>1. x - b \in N
      OBVIOUS
    <2>2. n <= x - b /\ x \in Int /\ d \in Int
      BY <1>2, <2>1
    <2> QED
      BY <1>3, <2>2
  <1> QED
    BY <1>4

LEMMA LastOfDays ==
    ASSUME NEW S \in SUBSET Int, S # {}, NEW b \in Int, \A x \in S : x <= b
    PROVE  \E d \in S : \A x \in S : x <= d
  <1> DEFINE N == {-x : x \in S}
  <1>1. N \in SUBSET Int /\ N # {} /\ \A x \in N : -b <= x
    <2>1. \A x \in S : x \in Int /\ x <= b
      OBVIOUS
    <2>2. \A i, j \in Int : -i \in Int /\ (i <= j => -j <= -i)
      OBVIOUS
    <2>3. \A n \in N : \E x \in S : n = -x
      OBVIOUS
    <2>4. N # {}
      OBVIOUS
    <2> HIDE DEF N
    <2> QED
      BY <2>1, <2>2, <2>3, <2>4
  <1>2. PICK n \in N : \A m \in N : n <= m
    BY <1>1, FirstOfDays, -b \in Int
  <1>3. PICK d \in S : n = -d
    BY <1>2
  <1>4. \A x \in S : x <= d
    <2> TAKE x \in S
    <2>1. -x \in N
      OBVIOUS
    <2>2. n <= -x /\ x \in Int /\ d \in Int
      BY <1>2, <2>1
    <2> QED
      BY <1>3, <2>2
  <1> QED
    BY <1>4

LEMMA MinIs ==
    ASSUME NEW S \in SUBSET Int, S # {}, NEW b \in Int, \A x \in S : b <= x
    PROVE  Min(S) \in S /\ \A x \in S : Min(S) <= x
  <1>1. \E d \in S : \A x \in S : d <= x
    BY FirstOfDays
  <1> QED
    BY <1>1 DEF Min

-----------------------------------------------------------------------------
(***************************************************************************)
(* Cross-validation.  The blocks follow each other and cover the rows, so  *)
(* a row is tested when its block is, and exchanging two blocks turns the  *)
(* choices that test one row into those that test another.                 *)
(***************************************************************************)

\* The first and the last row of an interval.
LEMMA EndsOf ==
    ASSUME NEW a \in Int, NEW b \in Int, a <= b
    PROVE  Min(a..b) = a /\ Max(a..b) = b
  <1>1. a \in a..b /\ b \in a..b
    OBVIOUS
  <1>2. Min(a..b) \in a..b /\ \A x \in a..b : Min(a..b) <= x
    BY <1>1 DEF Min
  <1>3. Max(a..b) \in a..b /\ \A x \in a..b : Max(a..b) >= x
    BY <1>1 DEF Max
  <1> QED
    BY <1>1, <1>2, <1>3

\* Where the blocks begin.
Edge(n, k, i) == (i * n) \div k

LEMMA EdgesGrow ==
    ASSUME NEW n \in Nat, NEW k \in 1..n
    PROVE  /\ \A i \in Nat : Edge(n, k, i) \in Nat /\ Edge(n, k, i) < Edge(n, k, i + 1)
           /\ Edge(n, k, 0) = 0 /\ Edge(n, k, k) = n
  <1>1. k \in Nat \ {0} /\ k <= n
    OBVIOUS
  <1>2. \A a \in Nat : a \div k \in Nat /\ k * (a \div k) <= a /\ a < k * (a \div k) + k
    BY <1>1
  <1>3. \A a, b \in Nat : a + k <= b => a \div k < b \div k
    <2> SUFFICES ASSUME NEW a \in Nat, NEW b \in Nat, a + k <= b
                 PROVE  a \div k < b \div k
      OBVIOUS
    <2> DEFINE p == a \div k
               q == b \div k
    <2>1. p \in Nat /\ q \in Nat /\ k * p <= a /\ b < k * q + k
      BY <1>2
    <2> HIDE DEF p, q
    <2>2. k * p \in Nat /\ k * q \in Nat /\ k * p < k * q
      BY <1>1, <2>1
    <2>3. ~(q <= p)
      <3>1. q <= p => k * q <= k * p
        BY <1>1, <2>1
      <3> QED
        BY <2>2, <3>1
    <2>4. p < q
      BY <2>1, <2>3
    <2> QED
      BY <2>4 DEF p, q
  <1>4. \A i \in Nat : i * n \in Nat /\ i * n + k <= (i + 1) * n
    <2> TAKE i \in Nat
    <2>1. i * n \in Nat /\ (i + 1) * n = i * n + n
      OBVIOUS
    <2> QED
      BY <1>1, <2>1
  <1>5. (0 * n) \div k = 0
    <2>1. 0 * n = 0
      OBVIOUS
    <2> QED
      BY <1>1, <2>1
  <1>6. (k * n) \div k = n
    <2> DEFINE q == (k * n) \div k
    <2>1. k * n \in Nat
      BY <1>1
    <2>2. q \in Nat /\ k * q <= k * n /\ k * n < k * q + k
      BY <1>2, <2>1
    <2> HIDE DEF q
    <2>3. k * q + k = k * (q + 1)
      BY <1>1, <2>2
    <2>4. q <= n
      <3>1. q >= n + 1 => k * q >= k * (n + 1)
        BY <1>1, <2>2
      <3>2. k * (n + 1) = k * n + k
        BY <1>1
      <3> QED
        BY <1>1, <2>1, <2>2, <3>1, <3>2
    <2>5. n <= q
      <3>1. n >= q + 1 => k * n >= k * (q + 1)
        BY <1>1, <2>2
      <3> QED
        BY <1>1, <2>1, <2>2, <2>3, <3>1
    <2> QED
      BY <2>2, <2>4, <2>5 DEF q
  <1>7. \A i \in Nat : Edge(n, k, i) \in Nat /\ Edge(n, k, i) < Edge(n, k, i + 1)
    <2> TAKE i \in Nat
    <2>1. i * n \in Nat /\ (i + 1) * n \in Nat
      OBVIOUS
    <2> QED
      BY <1>2, <1>3, <1>4, <2>1 DEF Edge
  <1> QED
    BY <1>5, <1>6, <1>7 DEF Edge

\* Each row is in exactly one block.
LEMMA BlockOfRow ==
    ASSUME NEW n \in Nat, NEW k \in 1..n, NEW r \in 0..(n - 1)
    PROVE  \E i \in 0..(k - 1) : \A j \in 0..(k - 1) : r \in Block(n, k, j) <=> j = i
  <1> DEFINE e(i) == Edge(n, k, i)
             Ended == {i \in Nat : r < e(i)}
  <1>1. /\ \A i \in Nat : e(i) \in Nat /\ e(i) < e(i + 1)
        /\ e(0) = 0 /\ e(k) = n
    BY EdgesGrow
  <1>2. \A j \in 0..(k - 1) : Block(n, k, j) = e(j)..(e(j + 1) - 1)
    BY DEF Block, Edge
  <1> HIDE DEF e
  <1>3. PICK m \in Ended : \A x \in Ended : m <= x
    <2>1. k \in Ended /\ Ended \in SUBSET Nat
      BY <1>1
    <2> HIDE DEF Ended
    <2> QED
      BY <2>1, FirstExists
  <1>4. m # 0 /\ m <= k
    <2>1. k \in Ended
      BY <1>1
    <2> QED
      BY <1>1, <1>3, <2>1
  <1>5. m - 1 \in 0..(k - 1) /\ (m - 1) + 1 = m
    BY <1>3, <1>4
  <1>6. e(m - 1) <= r /\ r < e(m)
    <2>1. m - 1 \in Nat /\ ~(m <= m - 1)
      BY <1>3, <1>4
    <2>2. m - 1 \notin Ended
      BY <1>3, <2>1
    <2> QED
      BY <1>1, <2>1, <2>2
  <1>7. \A a, b \in Nat : a <= b => e(a) <= e(b)
    <2> SUFFICES ASSUME NEW a \in Nat, NEW b \in Nat, a <= b
                 PROVE  e(a) <= e(b)
      OBVIOUS
    <2> DEFINE Bad == {x \in Nat : ~(e(a) <= e(a + x))}
    <2>1. Bad = {}
      <3> SUFFICES ASSUME Bad # {} PROVE FALSE
        OBVIOUS
      <3>1. PICK x \in Bad : \A y \in Bad : x <= y
        <4>1. Bad \in SUBSET Nat
          OBVIOUS
        <4> HIDE DEF Bad
        <4> QED
          BY <4>1, FirstExists
      <3>2. x # 0
        BY <1>1, <3>1
      <3>3. x - 1 \in Nat /\ ~(x <= x - 1) /\ (a + (x - 1)) + 1 = a + x /\ a + (x - 1) \in Nat
        BY <3>1, <3>2
      <3>4. e(a) <= e(a + (x - 1))
        BY <3>1, <3>3
      <3>5. e(a + (x - 1)) < e(a + x) /\ e(a) \in Nat /\ e(a + (x - 1)) \in Nat /\ e(a + x) \in Nat
        BY <1>1, <3>3
      <3> QED
        BY <3>1, <3>4, <3>5
    <2>2. b - a \in Nat /\ a + (b - a) = b
      OBVIOUS
    <2> QED
      BY <2>1, <2>2
  <1>8. ASSUME NEW j \in 0..(k - 1)
        PROVE  r \in Block(n, k, j) <=> j = m - 1
    <2>1. j \in Nat /\ j + 1 \in Nat /\ e(j) \in Nat /\ e(j + 1) \in Nat
      BY <1>1
    <2>2. r \in Block(n, k, j) <=> e(j) <= r /\ r < e(j + 1)
      BY <1>2, <2>1
    <2>3. CASE j < m - 1
      <3>1. m - 1 \in Nat /\ j + 1 <= m - 1
        BY <1>5, <2>1, <2>3
      <3>2. e(j + 1) <= e(m - 1) /\ e(m - 1) \in Nat
        BY <1>1, <1>7, <2>1, <3>1
      <3> QED
        BY <1>6, <2>1, <2>2, <2>3, <3>2
    <2>4. CASE j > m - 1
      <3>1. e(m) <= e(j) /\ e(m) \in Nat
        BY <1>1, <1>3, <1>7, <2>1, <2>4
      <3> QED
        BY <1>6, <2>1, <2>2, <2>4, <3>1
    <2>5. CASE j = m - 1
      BY <1>5, <1>6, <2>2, <2>5
    <2> QED
      BY <1>3, <2>1, <2>3, <2>4, <2>5
  <1> QED
    BY <1>5, <1>8

\* Rows that follow each other.
Stretch(S, n) == \E a, b \in 0..(n - 1) : a <= b /\ S = a..b /\ Min(S) = a /\ Max(S) = b

\* A block is a stretch of the rows.
LEMMA BlockIs ==
    ASSUME NEW n \in Nat, NEW k \in 1..n
    PROVE  \A j \in 0..(k - 1) : Stretch(Block(n, k, j), n)
  <1> TAKE j \in 0..(k - 1)
  <1> DEFINE e(i) == Edge(n, k, i)
  <1>1. /\ \A i \in Nat : e(i) \in Nat /\ e(i) < e(i + 1)
        /\ e(k) = n
    BY EdgesGrow
  <1>2. Block(n, k, j) = e(j)..(e(j + 1) - 1)
    BY DEF Block, Edge
  <1> HIDE DEF e
  <1>3. \A i \in Nat : i < k => e(i + 1) <= n
    <2> DEFINE Bad == {x \in Nat : x < k /\ ~(e(k - x) <= n)}
    <2>1. Bad = {}
      <3> SUFFICES ASSUME Bad # {} PROVE FALSE
        OBVIOUS
      <3>1. PICK x \in Bad : \A y \in Bad : x <= y
        <4>1. Bad \in SUBSET Nat
          OBVIOUS
        <4> HIDE DEF Bad
        <4> QED
          BY <4>1, FirstExists
      <3>2. x # 0
        BY <1>1, <3>1
      <3>3. x - 1 \in Nat /\ ~(x <= x - 1) /\ x - 1 < k /\ k - x \in Nat
            /\ (k - x) + 1 = k - (x - 1) /\ k - (x - 1) \in Nat
        BY <3>1, <3>2
      <3>4. e(k - (x - 1)) <= n
        BY <3>1, <3>3
      <3>5. e(k - x) < e(k - (x - 1)) /\ e(k - x) \in Nat /\ e(k - (x - 1)) \in Nat
        BY <1>1, <3>3
      <3> QED
        BY <3>1, <3>4, <3>5
    <2> TAKE i \in Nat
    <2> HAVE i < k
    <2>2. k - (i + 1) \in Nat /\ k - (k - (i + 1)) = i + 1 /\ k - (i + 1) < k
      OBVIOUS
    <2> QED
      BY <2>1, <2>2
  <1>4. j \in Nat /\ j < k /\ e(j) \in Nat /\ e(j + 1) \in Nat /\ e(j) < e(j + 1)
    BY <1>1
  <1>5. e(j + 1) <= n
    BY <1>3, <1>4
  <1>6. e(j) \in 0..(n - 1) /\ e(j + 1) - 1 \in 0..(n - 1) /\ e(j) <= e(j + 1) - 1
    BY <1>4, <1>5
  <1>7. Min(e(j)..(e(j + 1) - 1)) = e(j) /\ Max(e(j)..(e(j + 1) - 1)) = e(j + 1) - 1
    BY <1>6, EndsOf
  <1> QED
    BY <1>2, <1>6, <1>7 DEF Stretch

SplitParam == [n_blocks : Nat, test_blocks : Nat, horizon : Nat, embargo : Nat]

LEMMA PurgeCovers ==
    ASSUME NEW n \in Nat, NEW p \in SplitParam, ValidSplit(n, p), NEW s \in Splits(n, p)
    PROVE  /\ NoLabelLeakage(s, p.horizon)
           /\ p.embargo >= p.horizon =>
                 \A i \in s.test : (i..(i + p.horizon)) \cap s.train = {}
           /\ \A i \in (0..(n - 1)) \ (s.test \cup s.train) :
                 \E t \in s.test : t - p.horizon <= i /\ i <= t + p.embargo
  <1> DEFINE k == p.n_blocks
             h == p.horizon
             e == p.embargo
             B(i) == Block(n, k, i)
             P(i) == Purge(B(i), n, p)
  <1>1. k \in 1..n /\ h \in Nat /\ e \in Nat
    BY DEF ValidSplit, SplitParam
  <1>2. PICK ids \in SUBSET (0..(k - 1)) :
            /\ s.test = UNION {B(i) : i \in ids}
            /\ s.train = (0..(n - 1)) \ (s.test \cup UNION {P(i) : i \in ids})
    BY DEF Splits, kSubset
  <1> HIDE DEF k
  <1>3. \A i \in 0..(k - 1) : Stretch(B(i), n)
    BY <1>1, BlockIs
  <1>4. \A i \in ids : \E a, b \in 0..(n - 1) :
            /\ a <= b /\ B(i) = a..b
            /\ P(i) = ((a - h)..(b + e)) \cap (0..(n - 1))
    <2> TAKE i \in ids
    <2>1. i \in 0..(k - 1)
      BY <1>2, Zenon
    <2>2. PICK a, b \in 0..(n - 1) : a <= b /\ B(i) = a..b /\ Min(B(i)) = a /\ Max(B(i)) = b
      BY <1>3, <2>1, Zenon DEF Stretch
    <2>3. P(i) = ((a - h)..(b + e)) \cap (0..(n - 1))
      BY <2>2 DEF Purge
    <2> QED
      BY <2>2, <2>3
  <1> HIDE DEF B, P, h, e
  <1>5. \A t \in s.test : t \in 0..(n - 1) /\ \A r \in s.train :
            ~(t - h <= r /\ r <= t + e)
    <2> TAKE t \in s.test
    <2>1. PICK i \in ids : t \in B(i)
      BY <1>2
    <2>2. PICK a, b \in 0..(n - 1) : /\ a <= b /\ B(i) = a..b
                                     /\ P(i) = ((a - h)..(b + e)) \cap (0..(n - 1))
      BY <1>4
    <2>3. t \in Int /\ a <= t /\ t <= b /\ t \in 0..(n - 1)
      BY <2>1, <2>2
    <2>4. ASSUME NEW r \in s.train, t - h <= r, r <= t + e
          PROVE  FALSE
      <3>1. r \in 0..(n - 1) /\ r \notin P(i)
        BY <1>2, Zenon
      <3>2. a - h <= r /\ r <= b + e
        BY <1>1, <2>3, <2>4, <3>1
      <3> QED
        BY <1>1, <2>2, <3>1, <3>2
    <2> QED
      BY <2>3, <2>4
  <1>6. s.train \subseteq 0..(n - 1)
    BY <1>2, Zenon
  <1>7. NoLabelLeakage(s, h)
    <2> SUFFICES ASSUME NEW r \in s.train, NEW t \in s.test, t \in r..(r + h)
                 PROVE  FALSE
      BY Zenon DEF NoLabelLeakage
    <2>1. r \in Int /\ t \in Int /\ r <= t /\ t <= r + h
      BY <1>5, <1>6
    <2>2. t - h <= r /\ r <= t + e
      BY <1>1, <2>1
    <2> QED
      BY <1>5, <2>2
  <1>8. ASSUME e >= h, NEW t \in s.test
        PROVE  (t..(t + h)) \cap s.train = {}
    <2> SUFFICES ASSUME NEW r \in s.train, r \in t..(t + h)
                 PROVE  FALSE
      BY Zenon
    <2>1. r \in Int /\ t \in Int /\ t <= r /\ r <= t + h
      BY <1>5, <1>6
    <2>2. t - h <= r /\ r <= t + e
      BY <1>1, <1>8, <2>1
    <2> QED
      BY <1>5, <2>2
  <1>9. ASSUME NEW r \in (0..(n - 1)) \ (s.test \cup s.train)
        PROVE  \E t \in s.test : t - h <= r /\ r <= t + e
    <2>1. r \in UNION {P(i) : i \in ids}
      BY <1>2
    <2>2. PICK i \in ids : r \in P(i)
      BY <2>1, Zenon
    <2>3. PICK a, b \in 0..(n - 1) : /\ a <= b /\ B(i) = a..b
                                     /\ P(i) = ((a - h)..(b + e)) \cap (0..(n - 1))
      BY <1>4
    <2>4. a \in B(i) /\ b \in B(i) /\ r \in Int /\ a - h <= r /\ r <= b + e
      BY <2>2, <2>3
    <2>5. a \in s.test /\ b \in s.test /\ r \notin B(i)
      BY <1>2, <2>4, Zenon
    <2>6. r < a \/ b < r
      BY <2>3, <2>4, <2>5
    <2>7. CASE r < a
      <3>1. a - h <= r /\ r <= a + e
        BY <1>1, <2>3, <2>4, <2>7
      <3> QED
        BY <2>5, <3>1
    <2>8. CASE b < r
      <3>1. b - h <= r /\ r <= b + e
        BY <1>1, <2>3, <2>4, <2>8
      <3> QED
        BY <2>5, <3>1
    <2> QED
      BY <2>6, <2>7, <2>8
  <1> QED
    BY <1>7, <1>8, <1>9 DEF h, e

\* Which choice of blocks a split is.
LEMMA SplitsAre ==
    ASSUME NEW n \in Nat, NEW p \in SplitParam
    PROVE  LET k == p.n_blocks
           IN  /\ \A s \in Splits(n, p) :
                     /\ s.ids \in kSubset(p.test_blocks, 0..(k - 1))
                     /\ s.test = UNION {Block(n, k, i) : i \in s.ids}
               /\ \A s, t \in Splits(n, p) : s.ids = t.ids => s = t
               /\ \A ids \in kSubset(p.test_blocks, 0..(k - 1)) :
                     \E s \in Splits(n, p) : s.ids = ids
  <1> DEFINE k == p.n_blocks
             K == kSubset(p.test_blocks, 0..(k - 1))
             T(ids) == UNION {Block(n, k, i) : i \in ids}
             P(ids) == UNION {Purge(Block(n, k, i), n, p) : i \in ids}
             S(ids) == [ids |-> ids, test |-> T(ids), train |-> (0..(n - 1)) \ (T(ids) \cup P(ids))]
  <1>1. Splits(n, p) = {S(ids) : ids \in K}
    BY DEF Splits
  <1>2. \A ids : S(ids).ids = ids /\ S(ids).test = T(ids)
    OBVIOUS
  <1> HIDE DEF S, K, T, P
  <1>3. \A s \in Splits(n, p) : s.ids \in K /\ s = S(s.ids)
    BY <1>1, <1>2
  <1>4. \A ids \in K : S(ids) \in Splits(n, p)
    BY <1>1
  <1> QED
    BY <1>2, <1>3, <1>4 DEF K, T

\* Exchanging two blocks in a choice of them.
Exchange(ids, a, b) == {IF i = a THEN b ELSE IF i = b THEN a ELSE i : i \in ids}

LEMMA ExchangeKeepsSize ==
    ASSUME NEW c \in Nat, NEW S, IsFiniteSet(S), NEW a \in S, NEW b \in S,
           NEW ids \in kSubset(c, S)
    PROVE  /\ Exchange(ids, a, b) \in kSubset(c, S)
           /\ Exchange(Exchange(ids, a, b), a, b) = ids
           /\ a \in ids <=> b \in Exchange(ids, a, b)
  <1> DEFINE x(i) == IF i = a THEN b ELSE IF i = b THEN a ELSE i
             swapped == Exchange(ids, a, b)
             f == [i \in ids |-> x(i)]
  <1>1. ids \in SUBSET S /\ Cardinality(ids) = c
    BY DEF kSubset
  <1>2. swapped = {x(i) : i \in ids} /\ swapped \in SUBSET S
    BY <1>1 DEF Exchange
  <1>3. \A i, j : x(x(i)) = i /\ (x(i) = x(j) => i = j)
    OBVIOUS
  <1>4. f \in Bijection(ids, swapped)
    <2>1. f \in [ids -> swapped]
      BY <1>2
    <2>2. \A i, j \in ids : f[i] = f[j] => i = j
      BY <1>3
    <2>3. \A y \in swapped : \E i \in ids : f[i] = y
      BY <1>2
    <2> HIDE DEF f, swapped
    <2> QED
      BY <2>1, <2>2, <2>3, Fun_IsBij
  <1>5. IsFiniteSet(ids)
    BY <1>1, FS_Subset
  <1>6. Cardinality(swapped) = c
    <2> HIDE DEF f, swapped
    <2> QED
      BY <1>1, <1>4, <1>5, FS_Bijection DEF ExistsBijection
  <1>7. Exchange(swapped, a, b) = ids
    <2>1. Exchange(swapped, a, b) = {x(i) : i \in swapped}
      BY DEF Exchange
    <2> HIDE DEF x
    <2> QED
      BY <1>2, <1>3, <2>1
  <1>8. a \in ids <=> b \in swapped
    <2>1. x(a) = b
      OBVIOUS
    <2> HIDE DEF x
    <2> QED
      BY <1>2, <1>3, <2>1
  <1> QED
    BY <1>2, <1>6, <1>7, <1>8 DEF kSubset

LEMMA TestedAlike ==
    ASSUME NEW n \in Nat, NEW p \in SplitParam, ValidSplit(n, p),
           NEW r \in 0..(n - 1), NEW q \in 0..(n - 1)
    PROVE  Cardinality({s \in Splits(n, p) : r \in s.test})
             = Cardinality({s \in Splits(n, p) : q \in s.test})
  <1> DEFINE k == p.n_blocks
             c == p.test_blocks
             N == 0..(k - 1)
             K == kSubset(c, N)
             B(i) == Block(n, k, i)
             Z == Splits(n, p)
             R == {s \in Z : r \in s.test}
             Q == {s \in Z : q \in s.test}
             at(ids) == CHOOSE s \in Z : s.ids = ids
  <1>1. k \in 1..n /\ c \in Nat /\ IsFiniteSet(N)
    BY FS_Interval DEF ValidSplit, SplitParam
  <1>2. PICK a \in N : \A j \in N : r \in B(j) <=> j = a
    BY <1>1, BlockOfRow
  <1>3. PICK b \in N : \A j \in N : q \in B(j) <=> j = b
    BY <1>1, BlockOfRow
  <1>4. /\ \A s \in Z : s.ids \in K /\ s.test = UNION {B(i) : i \in s.ids}
        /\ \A s, t \in Z : s.ids = t.ids => s = t
        /\ \A ids \in K : \E s \in Z : s.ids = ids
    BY SplitsAre
  <1>5. K \subseteq SUBSET N
    BY DEF kSubset
  <1> HIDE DEF B, Z, K, N, k, c
  <1>6. \A s \in Z : (r \in s.test <=> a \in s.ids) /\ (q \in s.test <=> b \in s.ids)
    <2> TAKE s \in Z
    <2>1. s.ids \in SUBSET N /\ s.test = UNION {B(i) : i \in s.ids}
      BY <1>4, <1>5
    <2> QED
      BY <1>2, <1>3, <2>1
  <1>7. \A ids \in K : at(ids) \in Z /\ at(ids).ids = ids
    BY <1>4
  <1> HIDE DEF at
  <1>8. \A ids \in K : /\ Exchange(ids, a, b) \in K
                       /\ Exchange(Exchange(ids, a, b), a, b) = ids
                       /\ a \in ids <=> b \in Exchange(ids, a, b)
    BY <1>1, ExchangeKeepsSize DEF K
  <1>9. \A ids \in K : /\ Exchange(ids, b, a) = Exchange(ids, a, b)
    BY DEF Exchange
  <1> DEFINE f == [s \in R |-> at(Exchange(s.ids, a, b))]
  <1>10. \A s \in R : f[s] \in Q /\ f[s].ids = Exchange(s.ids, a, b)
    BY <1>4, <1>6, <1>7, <1>8
  <1>11. f \in Bijection(R, Q)
    <2>1. f \in [R -> Q]
      BY <1>10
    <2>2. \A s, t \in R : f[s] = f[t] => s = t
      <3> TAKE s, t \in R
      <3> HAVE f[s] = f[t]
      <3>1. Exchange(s.ids, a, b) = Exchange(t.ids, a, b)
        BY <1>10
      <3>2. s.ids \in K /\ t.ids \in K
        BY <1>4
      <3>3. s.ids = t.ids
        BY <1>8, <3>1, <3>2
      <3> QED
        BY <1>4, <3>3
    <2>3. \A t \in Q : \E s \in R : f[s] = t
      <3> TAKE t \in Q
      <3> DEFINE s == at(Exchange(t.ids, a, b))
      <3>1. t.ids \in K /\ t \in Z /\ b \in t.ids
        BY <1>4, <1>6
      <3>2. /\ Exchange(t.ids, a, b) \in K
            /\ Exchange(Exchange(t.ids, a, b), a, b) = t.ids
        BY <1>8, <3>1
      <3>3. a \in Exchange(t.ids, a, b) <=> b \in Exchange(Exchange(t.ids, a, b), a, b)
        BY <1>8, <3>2
      <3>4. s \in Z /\ s.ids = Exchange(t.ids, a, b)
        BY <1>7, <3>2
      <3> HIDE DEF s
      <3>5. s \in R
        BY <1>6, <3>1, <3>2, <3>3, <3>4
      <3>6. f[s].ids = t.ids /\ f[s] \in Z
        BY <1>10, <3>2, <3>4, <3>5
      <3>7. f[s] = t
        BY <1>4, <3>1, <3>6
      <3> QED
        BY <3>5, <3>7
    <2> HIDE DEF f, R, Q
    <2> QED
      BY <2>1, <2>2, <2>3, Fun_IsBij
  <1>12. IsFiniteSet(R)
    <2>1. IsFiniteSet(K)
      <3>1. IsFiniteSet(SUBSET N)
        BY <1>1, FS_SUBSET
      <3> QED
        BY <1>5, <3>1, FS_Subset
    <2> DEFINE g == [ids \in K |-> at(ids)]
    <2>2. \A s \in Z : s = at(s.ids) /\ s.ids \in K
      BY <1>4, <1>7
    <2>3. g \in Surjection(K, Z)
      <3>1. g \in [K -> Z]
        BY <1>7
      <3>2. \A s \in Z : \E ids \in K : g[ids] = s
        BY <2>2
      <3> HIDE DEF g
      <3> QED
        BY <3>1, <3>2, Fun_IsSurj
    <2> HIDE DEF g
    <2>4. IsFiniteSet(Z)
      BY <2>1, <2>3, FS_Surjection
    <2> QED
      BY <2>4, FS_Subset
  <1>13. Cardinality(R) = Cardinality(Q)
    <2> HIDE DEF f, R, Q
    <2> QED
      BY <1>11, <1>12, FS_Bijection DEF ExistsBijection
  <1> QED
    BY <1>13 DEF Z

-----------------------------------------------------------------------------
(***************************************************************************)
(* The walk-forward.  A block never comes back, so a new forecaster, of a  *)
(* higher number, is made when the block is later than all before.         *)
(***************************************************************************)

Bar == [ts : Int, block : Int, realised : BOOLEAN]
Scored == [row : Int, instance : Int, history : SUBSET Int]

\* What a walk has done when it has come to row n.
WalkTo(w, rows, n) ==
    LET S == ToSet(w.scored)
        block(x) == rows[x.row + 1].block
    IN  /\ w.scored \in Seq(Scored) /\ w.instance \in Nat /\ w.block \in {Nothing} \cup Int
        /\ {x.row : x \in S} = {i \in Warmup..(n - 1) : rows[i + 1].realised}
        /\ \A x \in S : /\ x.history = 0..(x.row - 1)
                        /\ w.block \in Int /\ block(x) <= w.block /\ x.instance <= w.instance
                        /\ block(x) = w.block <=> x.instance = w.instance
        /\ \A x, y \in S : block(x) = block(y) <=> x.instance = y.instance
        /\ w.block \in Int => \E x \in S : block(x) = w.block

\* A sequence with one more.
LEMMA OneMoreScored ==
    ASSUME NEW T, NEW s \in Seq(T), NEW e \in T
    PROVE  Append(s, e) \in Seq(T) /\ ToSet(Append(s, e)) = ToSet(s) \cup {e}
  <1>1. Append(s, e) \in Seq(T) /\ Len(Append(s, e)) = Len(s) + 1 /\ Len(s) \in Nat
    OBVIOUS
  <1>2. DOMAIN s = 1..Len(s) /\ DOMAIN Append(s, e) = 1..(Len(s) + 1)
    OBVIOUS
  <1>3. \A i \in 1..Len(s) : Append(s, e)[i] = s[i] /\ i \in 1..(Len(s) + 1)
    OBVIOUS
  <1>4. Append(s, e)[Len(s) + 1] = e /\ Len(s) + 1 \in 1..(Len(s) + 1)
    OBVIOUS
  <1>5. \A i \in 1..(Len(s) + 1) : i \in 1..Len(s) \/ i = Len(s) + 1
    OBVIOUS
  <1> DEFINE a == Append(s, e)
  <1> HIDE DEF a
  <1>6. ToSet(a) = ToSet(s) \cup {e}
    <2>1. DOMAIN a = 1..(Len(s) + 1) /\ a[Len(s) + 1] = e /\ \A i \in 1..Len(s) : a[i] = s[i]
      BY <1>2, <1>3, <1>4 DEF a
    <2> QED
      BY <1>2, <1>3, <1>4, <1>5, <2>1 DEF ToSet
  <1> QED
    BY <1>1, <1>6 DEF a

LEMMA WalkStarts ==
    ASSUME NEW rows
    PROVE  WalkTo(BeforeWalk, rows, Warmup)
  <1>1. ToSet(<<>>) = {} /\ <<>> \in Seq(Scored)
    BY DEF ToSet
  <1>2. Warmup..(Warmup - 1) = {}
    BY EvaluationAssumption
  <1> QED
    BY <1>1, <1>2, NothingAssumption DEF WalkTo, BeforeWalk

LEMMA WalkGoesOn ==
    ASSUME NEW rows \in Series, ValidRows(rows, Warmup, WalkHorizon), NEW i \in Nat,
           Warmup <= i, i < Len(rows), NEW w, WalkTo(w, rows, i)
    PROVE  WalkTo(WalkRow(w, rows, i), rows, i + 1)
  <1> DEFINE S == ToSet(w.scored)
             block(x) == rows[x.row + 1].block
             bar == rows[i + 1]
  <1>1. /\ rows \in Seq(Bar) /\ Len(rows) \in Nat /\ i + 1 \in 1..Len(rows) /\ Warmup \in Nat
        /\ \A j \in 1..Len(rows) : rows[j] \in Bar
        /\ \A k, l \in 1..Len(rows) : rows[k].ts <= rows[l].ts => rows[k].block <= rows[l].block
    <2>1. rows \in Seq(Bar) /\ Warmup \in Nat
      BY EvaluationAssumption DEF Bar
    <2>2. DOMAIN rows = 1..Len(rows) /\ Len(rows) \in Nat
      BY <2>1
    <2>3. \A k, l \in 1..Len(rows) : rows[k].ts <= rows[l].ts => rows[k].block <= rows[l].block
      BY <2>2, EvaluationAssumption
    <2> QED
      BY <2>1, <2>2, <2>3
  <1>2. \A k \in 1..(i + 1) : rows[k].block <= bar.block
    <2> DEFINE Bad == {m \in Nat : m <= i /\ ~(rows[i + 1 - m].ts <= bar.ts)}
    <2>1. Bad = {}
      <3> SUFFICES ASSUME Bad # {} PROVE FALSE
        OBVIOUS
      <3>1. PICK m \in Bad : \A x \in Bad : m <= x
        <4>1. Bad \in SUBSET Nat
          OBVIOUS
        <4> HIDE DEF Bad
        <4> QED
          BY <4>1, FirstExists
      <3>2. bar.ts \in Int
        BY <1>1 DEF Bar
      <3>3. m # 0
        BY <3>1, <3>2
      <3>4. m - 1 \in Nat /\ m - 1 <= i /\ ~(m <= m - 1) /\ i + 1 - m \in 1..(Len(rows) - 1)
            /\ (i + 1 - m) + 1 = i + 1 - (m - 1) /\ i + 1 - (m - 1) \in 1..Len(rows)
            /\ i + 1 - m \in 1..Len(rows)
        BY <1>1, <3>1, <3>3
      <3>5. rows[i + 1 - (m - 1)].ts <= bar.ts
        BY <3>1, <3>4
      <3>6. rows[i + 1 - m].ts <= rows[i + 1 - (m - 1)].ts
        BY <3>4 DEF ValidRows
      <3>7. rows[i + 1 - m].ts \in Int /\ rows[i + 1 - (m - 1)].ts \in Int
        BY <1>1, <3>4 DEF Bar
      <3>8. ~(rows[i + 1 - m].ts <= bar.ts)
        BY <3>1
      <3> DEFINE a == rows[i + 1 - m].ts
                 b == rows[i + 1 - (m - 1)].ts
                 c == bar.ts
      <3>9. a \in Int /\ b \in Int /\ c \in Int /\ a <= b /\ b <= c /\ ~(a <= c)
        BY <3>2, <3>5, <3>6, <3>7, <3>8
      <3> HIDE DEF a, b, c
      <3> QED
        BY <3>9
    <2> TAKE k \in 1..(i + 1)
    <2>2. i + 1 - k \in Nat /\ i + 1 - k <= i /\ i + 1 - (i + 1 - k) = k /\ k \in 1..Len(rows)
      BY <1>1
    <2>3. rows[k].ts <= bar.ts
      BY <2>1, <2>2
    <2> QED
      BY <1>1, <2>2, <2>3
  <1>3. /\ w.scored \in Seq(Scored) /\ w.instance \in Nat /\ w.block \in {Nothing} \cup Int
        /\ {x.row : x \in S} = {j \in Warmup..(i - 1) : rows[j + 1].realised}
        /\ \A x \in S : /\ x.history = 0..(x.row - 1)
                        /\ w.block \in Int /\ block(x) <= w.block /\ x.instance <= w.instance
                        /\ block(x) = w.block <=> x.instance = w.instance
        /\ \A x, y \in S : block(x) = block(y) <=> x.instance = y.instance
        /\ w.block \in Int => \E x \in S : block(x) = w.block
    BY DEF WalkTo
  <1>4. \A j : j \in Warmup..((i + 1) - 1) <=> j \in Warmup..(i - 1) \/ j = i
    BY <1>1
  <1>5. \A x \in S : x \in Scored /\ x.row \in Warmup..(i - 1) /\ x.row + 1 \in 1..(i + 1)
    <2>1. \A x \in S : x \in Scored
      BY <1>3 DEF ToSet
    <2>2. \A x \in S : x.row \in Warmup..(i - 1)
      BY <1>3
    <2> QED
      BY <1>1, <2>1, <2>2
  <1>6. CASE ~bar.realised
    <2>1. WalkRow(w, rows, i) = w
      BY <1>6 DEF WalkRow
    <2>2. {j \in Warmup..((i + 1) - 1) : rows[j + 1].realised}
            = {j \in Warmup..(i - 1) : rows[j + 1].realised}
      BY <1>4, <1>6
    <2> QED
      BY <1>3, <2>1, <2>2 DEF WalkTo
  <1>7. CASE bar.realised
    <2> DEFINE v == WalkRow(w, rows, i)
               refit == bar.block # w.block
               instance == IF refit THEN w.instance + 1 ELSE w.instance
               e == [row |-> i, instance |-> instance, history |-> 0..(i - 1)]
               U == ToSet(v.scored)
    <2>1. /\ v.block = bar.block /\ v.instance = instance /\ v.scored = Append(w.scored, e)
      BY <1>7 DEF WalkRow
    <2>2. bar.block \in Int /\ instance \in Nat /\ e \in Scored /\ w.instance \in Nat
      BY <1>1, <1>3 DEF Bar, Scored
    <2>3. /\ v.scored \in Seq(Scored) /\ U = S \cup {e}
      BY <1>3, <2>1, <2>2, OneMoreScored
    <2>4. e.row = i /\ e.instance = instance /\ e.history = 0..(i - 1) /\ block(e) = bar.block
      OBVIOUS
    <2> HIDE DEF v, e, S, U
    <2>5. {x.row : x \in U} = {j \in Warmup..((i + 1) - 1) : rows[j + 1].realised}
      <3>1. {x.row : x \in U} = {x.row : x \in S} \cup {i}
        BY <2>3, <2>4
      <3> QED
        BY <1>3, <1>4, <1>7, <3>1
    <2>6. \A x \in S : /\ block(x) \in Int /\ x.instance \in Int /\ block(x) <= bar.block
      <3> TAKE x \in S
      <3>1. x \in Scored /\ x.row + 1 \in 1..(i + 1)
        BY <1>5 DEF S
      <3>2. x.row + 1 \in 1..Len(rows)
        BY <1>1, <3>1
      <3>3. rows[x.row + 1] \in Bar /\ rows[x.row + 1].block <= bar.block
        BY <1>1, <1>2, <3>1, <3>2
      <3> QED
        BY <3>1, <3>3 DEF Bar, Scored
    <2>7. \A x \in S : /\ x.instance <= instance
                       /\ block(x) = bar.block <=> x.instance = instance
      <3> TAKE x \in S
      <3>1. /\ w.block \in Int /\ block(x) <= w.block /\ x.instance <= w.instance
            /\ block(x) = w.block <=> x.instance = w.instance
        BY <1>3
      <3>2. CASE ~refit
        BY <3>1, <3>2
      <3>3. CASE refit
        <4>1. w.block <= bar.block
          <5>1. PICK y \in S : block(y) = w.block
            BY <1>3, <3>1
          <5> QED
            BY <2>6, <5>1
        <4>2. block(x) < bar.block
          BY <2>2, <2>6, <3>1, <3>3, <4>1
        <4>3. x.instance < instance
          BY <2>2, <2>6, <3>1, <3>3
        <4> QED
          BY <2>2, <2>6, <4>2, <4>3
      <3> QED
        BY <3>2, <3>3
    <2> HIDE DEF refit, instance, bar
    <2>8. \A x \in U : /\ x.history = 0..(x.row - 1)
                       /\ block(x) <= bar.block /\ x.instance <= instance
                       /\ block(x) = bar.block <=> x.instance = instance
      <3>1. block(e) <= bar.block /\ e.instance <= instance
        BY <2>2, <2>4
      <3> QED
        BY <1>3, <2>3, <2>4, <2>6, <2>7, <3>1
    <2>9. \A x, y \in U : block(x) = block(y) <=> x.instance = y.instance
      <3> HIDE DEF block
      <3> QED
        BY <1>3, <2>3, <2>4, <2>7
    <2>10. \E x \in U : block(x) = bar.block
      <3>1. e \in U
        BY <2>3
      <3> QED
        BY <2>4, <3>1
    <2> QED
      BY <2>1, <2>2, <2>3, <2>5, <2>8, <2>9, <2>10 DEF WalkTo, v, U
  <1> QED
    BY <1>6, <1>7

\* The walk that is done looks back.
LEMMA WalkEnds ==
    ASSUME NEW rows \in Series, ValidRows(rows, Warmup, WalkHorizon),
           NEW w, WalkTo(w, rows, Len(rows))
    PROVE  LET row(x) == rows[x.row + 1]
               distinct == \A i, j \in DOMAIN rows : i < j => rows[i].ts < rows[j].ts
           IN  /\ {x.row : x \in ToSet(w.scored)}
                    = {i \in Warmup..(Len(rows) - 1) : rows[i + 1].realised}
               /\ \A x, y \in ToSet(w.scored) :
                     row(x).block = row(y).block <=> x.instance = y.instance
               /\ distinct => \A x \in ToSet(w.scored) : \A h \in x.history :
                     rows[h + 1].ts < row(x).ts
  <1> DEFINE S == ToSet(w.scored)
  <1>1. /\ {x.row : x \in S} = {i \in Warmup..(Len(rows) - 1) : rows[i + 1].realised}
        /\ \A x \in S : x.history = 0..(x.row - 1)
        /\ \A x, y \in S : rows[x.row + 1].block = rows[y.row + 1].block
                              <=> x.instance = y.instance
    BY DEF WalkTo
  <1>2. Len(rows) \in Nat /\ Warmup \in Nat /\ DOMAIN rows = 1..Len(rows)
    BY EvaluationAssumption
  <1>3. ASSUME \A i, j \in DOMAIN rows : i < j => rows[i].ts < rows[j].ts,
               NEW x \in S, NEW h \in x.history
        PROVE  rows[h + 1].ts < rows[x.row + 1].ts
    <2>1. x.row \in Warmup..(Len(rows) - 1) /\ h \in 0..(x.row - 1)
      BY <1>1
    <2>2. h + 1 \in 1..Len(rows) /\ x.row + 1 \in 1..Len(rows) /\ h + 1 < x.row + 1
      BY <1>2, <2>1
    <2> QED
      BY <1>2, <1>3, <2>2
  <1> QED
    BY <1>1, <1>3

-----------------------------------------------------------------------------
(***************************************************************************)
(* Thinning the anchors.  The days kept are apart, and whether a day is    *)
(* kept depends on no later one.                                           *)
(***************************************************************************)

\* One pass over the days up to n, each looking at the last day kept before it.
GapPass(days, gap, f, n) ==
    [d \in -1..n |->
        IF d < 0 THEN -gap - 1
        ELSE LET before == f[d - 1]
             IN  IF d \in days /\ d > before + gap THEN d ELSE before]
LatestOf(days) == IF days = {} THEN 0 ELSE CHOOSE d \in days : \A x \in days : x <= d
LastKeptOf(days, gap) == CHOOSE f : f = GapPass(days, gap, f, LatestOf(days))
Thinned(days, gap) == {d \in days : LastKeptOf(days, gap)[d] = d}

LEMMA ThinnedIs ==
    ASSUME NEW days
    PROVE  One!Kept(days) = Thinned(days, 2) /\ Far!Kept(days) = Thinned(days, 2 * LongHorizon)
  <1>1. One!Kept(days) = Thinned(days, 2)
    BY DEF One!Kept, One!Newest, Thinned, LastKeptOf, GapPass, LatestOf
  <1>2. Far!Kept(days) = Thinned(days, 2 * LongHorizon)
    BY DEF Far!Kept, Far!Newest, Thinned, LastKeptOf, GapPass, LatestOf
  <1> QED
    BY <1>1, <1>2

\* Such a pass exists however far it goes.
LEMMA GapPassExists ==
    ASSUME NEW days, NEW gap
    PROVE  \A n \in Nat : \E f : f = GapPass(days, gap, f, n)
  <1> DEFINE Bad == {k \in Nat : ~ \E f : f = GapPass(days, gap, f, k - 1)}
  <1>1. Bad = {}
    <2> SUFFICES ASSUME Bad # {} PROVE FALSE
      OBVIOUS
    <2>1. PICK k \in Bad : \A m \in Bad : k <= m
      <3>1. Bad \in SUBSET Nat
        OBVIOUS
      <3> HIDE DEF Bad
      <3> QED
        BY <3>1, FirstExists
    <2>2. k # 0
      <3> DEFINE e == [d \in -1..-1 |-> -gap - 1]
      <3>1. \A d \in -1..-1 : d < 0
        OBVIOUS
      <3>2. 0 - 1 = -1
        OBVIOUS
      <3>3. e = GapPass(days, gap, e, 0 - 1)
        BY <3>1, <3>2 DEF GapPass
      <3> QED
        BY <2>1, <3>3
    <2>3. PICK f : f = GapPass(days, gap, f, (k - 1) - 1)
      <3>1. k \in Nat /\ k - 1 \in Nat /\ ~(k <= k - 1)
        BY <2>2
      <3> QED
        BY <2>1, <3>1
    <2> DEFINE g == GapPass(days, gap, f, k - 1)
    <2>4. \A d \in -1..((k - 1) - 1) : g[d] = f[d]
      <3> TAKE d \in -1..((k - 1) - 1)
      <3>1. f[d] = GapPass(days, gap, f, (k - 1) - 1)[d]
        BY <2>3
      <3>2. d \in -1..(k - 1)
        BY <2>2
      <3> QED
        BY <3>1, <3>2 DEF GapPass
    <2>5. g = GapPass(days, gap, g, k - 1)
      <3>1. \A d \in -1..(k - 1) : ~(d < 0) => d - 1 \in -1..((k - 1) - 1)
        OBVIOUS
      <3>2. \A d \in -1..(k - 1) : ~(d < 0) => g[d - 1] = f[d - 1]
        BY <2>4, <3>1
      <3> QED
        BY <3>2 DEF GapPass
    <2> QED
      BY <2>1, <2>5
  <1>2. \A k \in Nat : k + 1 \in Nat /\ (k + 1) - 1 = k
    OBVIOUS
  <1> QED
    BY <1>1, <1>2

Ending(days) == days \in SUBSET Nat /\ \E n \in Nat : \A x \in days : x <= n

LEMMA LatestIs ==
    ASSUME NEW days, Ending(days)
    PROVE  LatestOf(days) \in Nat /\ \A x \in days : x \in 0..LatestOf(days)
  <1>1. CASE days = {}
    BY <1>1 DEF LatestOf
  <1>2. CASE days # {}
    <2>1. PICK n \in Nat : \A x \in days : x <= n
      BY DEF Ending
    <2>2. days \in SUBSET Nat /\ days \in SUBSET Int
      BY DEF Ending
    <2>3. \E d \in days : \A x \in days : x <= d
      BY <1>2, <2>1, <2>2, LastOfDays, n \in Int
    <2>4. LatestOf(days) \in days /\ \A x \in days : x <= LatestOf(days)
      BY <1>2, <2>3 DEF LatestOf
    <2>5. \A x \in days : x \in Nat /\ x <= LatestOf(days)
      BY <2>4, <2>2
    <2>6. LatestOf(days) \in Nat
      BY <2>4, <2>5
    <2> QED
      BY <2>5, <2>6
  <1> QED
    BY <1>1, <1>2

\* The last kept day, day by day.
LEMMA LastKeptRuns ==
    ASSUME NEW days, Ending(days), NEW gap \in Nat
    PROVE  LET n == LatestOf(days)
               L == LastKeptOf(days, gap)
           IN  /\ L[-1] = -gap - 1
               /\ \A d \in 0..n : L[d] = IF d \in days /\ d > L[d - 1] + gap THEN d ELSE L[d - 1]
  <1> DEFINE n == LatestOf(days)
             L == LastKeptOf(days, gap)
  <1>1. n \in Nat
    BY LatestIs
  <1>2. L = GapPass(days, gap, L, n)
    BY <1>1, GapPassExists DEF LastKeptOf
  <1> HIDE DEF L, n
  <1>3. -1 \in -1..n /\ \A d \in 0..n : d \in -1..n /\ ~(d < 0)
    BY <1>1
  <1>4. L[-1] = GapPass(days, gap, L, n)[-1]
        /\ \A d \in 0..n : L[d] = GapPass(days, gap, L, n)[d]
    BY <1>2
  <1>5. GapPass(days, gap, L, n)[-1] = -gap - 1
    BY <1>3 DEF GapPass
  <1>6. \A d \in 0..n : GapPass(days, gap, L, n)[d]
                            = IF d \in days /\ d > L[d - 1] + gap THEN d ELSE L[d - 1]
    BY <1>3 DEF GapPass
  <1> QED
    BY <1>4, <1>5, <1>6 DEF L, n

\* The last kept day lies behind and moves forward.
LEMMA LastKeptFollows ==
    ASSUME NEW days, Ending(days), NEW gap \in Nat
    PROVE  \A d \in -1..LatestOf(days) :
              /\ LastKeptOf(days, gap)[d] \in Int /\ LastKeptOf(days, gap)[d] <= d
              /\ \A a \in -1..d : LastKeptOf(days, gap)[a] <= LastKeptOf(days, gap)[d]
  <1> DEFINE n == LatestOf(days)
             L == LastKeptOf(days, gap)
             Good(d) == L[d] \in Int /\ L[d] <= d /\ \A a \in -1..d : L[a] <= L[d]
             Bad == {k \in 0..(n + 1) : ~Good(k - 1)}
  <1>1. /\ n \in Nat /\ L[-1] = -gap - 1
        /\ \A d \in 0..n : L[d] = IF d \in days /\ d > L[d - 1] + gap THEN d ELSE L[d - 1]
    BY LatestIs, LastKeptRuns
  <1> HIDE DEF n, L
  <1>2. Bad = {}
    <2> SUFFICES ASSUME Bad # {} PROVE FALSE
      OBVIOUS
    <2>1. PICK k \in Bad : \A m \in Bad : k <= m
      <3>1. Bad \in SUBSET Nat
        BY <1>1
      <3> HIDE DEF Bad
      <3> QED
        BY <3>1, FirstExists
    <2>2. k # 0
      <3>1. L[-1] \in Int /\ L[-1] <= -1 /\ \A a \in -1..-1 : a = -1
        BY <1>1
      <3>2. \A a \in -1..-1 : L[a] <= L[-1]
        BY <3>1
      <3>3. Good(-1) /\ 0 - 1 = -1
        BY <3>1, <3>2
      <3> QED
        BY <2>1, <3>3
    <2> DEFINE d == k - 1
    <2>3. d \in 0..n /\ d \in 0..(n + 1) /\ ~(k <= d)
      BY <1>1, <2>2
    <2>4. Good(d - 1)
      BY <2>1, <2>3
    <2>5. ~Good(d)
      BY <2>1
    <2> HIDE DEF d
    <2>6. (L[d] = d /\ d > L[d - 1] + gap) \/ L[d] = L[d - 1]
      BY <1>1, <2>3
    <2>7. L[d] \in Int /\ L[d] <= d /\ L[d - 1] <= L[d] /\ L[d - 1] \in Int
      BY <2>3, <2>4, <2>6
    <2>8. \A a \in -1..d : a \in -1..(d - 1) \/ a = d
      BY <2>3
    <2>9. ASSUME NEW a \in -1..d PROVE L[a] <= L[d]
      <3>1. CASE a = d
        BY <2>7, <3>1
      <3>2. CASE a \in -1..(d - 1)
        <4>1. L[a] <= L[d - 1]
          BY <2>4, <3>2
        <4>2. L[a] \in Int
          <5>1. a + 1 \in 0..(n + 1) /\ (a + 1) - 1 = a /\ a + 1 < k
            BY <1>1, <2>3, <3>2 DEF d
          <5>2. a + 1 \notin Bad
            BY <2>1, <5>1
          <5> QED
            BY <5>1, <5>2
        <4> QED
          BY <2>7, <4>1, <4>2
      <3> QED
        BY <2>8, <3>1, <3>2
    <2> QED
      BY <2>5, <2>7, <2>9
  <1>3. \A d \in -1..n : Good(d)
    <2> TAKE d \in -1..n
    <2>1. d + 1 \in 0..(n + 1) /\ (d + 1) - 1 = d
      BY <1>1
    <2> QED
      BY <1>2, <2>1
  <1> QED
    BY <1>3 DEF n, L

\* What is kept is apart.
LEMMA ThinnedApart ==
    ASSUME NEW days, Ending(days), NEW gap \in Nat,
           NEW a \in Thinned(days, gap), NEW b \in Thinned(days, gap), a < b
    PROVE  b - a > gap
  <1> DEFINE n == LatestOf(days)
             L == LastKeptOf(days, gap)
  <1>1. n \in Nat /\ a \in 0..n /\ b \in 0..n /\ L[a] = a /\ L[b] = b
    BY LatestIs DEF Thinned
  <1>2. L[b] = IF b \in days /\ b > L[b - 1] + gap THEN b ELSE L[b - 1]
    BY <1>1, LastKeptRuns
  <1>3. b - 1 \in -1..n /\ a \in -1..(b - 1)
    BY <1>1
  <1>4. L[b - 1] \in Int /\ L[b - 1] <= b - 1 /\ L[a] <= L[b - 1]
    BY <1>3, LastKeptFollows
  <1> HIDE DEF L, n
  <1>5. b > L[b - 1] + gap
    BY <1>1, <1>2, <1>4
  <1> QED
    BY <1>1, <1>4, <1>5

\* Later days do not matter to what was kept before.
LEMMA ThinnedPrefix ==
    ASSUME NEW days, Ending(days), NEW gap \in Nat, NEW a \in Nat
    PROVE  Thinned({d \in days : d <= a}, gap) = {d \in Thinned(days, gap) : d <= a}
  <1> DEFINE few == {d \in days : d <= a}
             n == LatestOf(days)
             m == LatestOf(few)
             L == LastKeptOf(days, gap)
             M == LastKeptOf(few, gap)
             Bad == {k \in 0..(m + 1) : k - 1 <= n /\ k - 1 <= a /\ ~(M[k - 1] = L[k - 1])}
  <1>1. Ending(few)
    BY DEF Ending
  <1>2. /\ n \in Nat /\ L[-1] = -gap - 1 /\ \A x \in days : x \in 0..n
        /\ \A d \in 0..n : L[d] = IF d \in days /\ d > L[d - 1] + gap THEN d ELSE L[d - 1]
    BY LatestIs, LastKeptRuns
  <1>3. /\ m \in Nat /\ M[-1] = -gap - 1 /\ \A x \in few : x \in 0..m
        /\ \A d \in 0..m : M[d] = IF d \in few /\ d > M[d - 1] + gap THEN d ELSE M[d - 1]
    BY <1>1, LatestIs, LastKeptRuns
  <1>4. \A d \in 0..a : d \in few <=> d \in days
    OBVIOUS
  <1> HIDE DEF n, m, L, M
  <1>5. Bad = {}
    <2> SUFFICES ASSUME Bad # {} PROVE FALSE
      OBVIOUS
    <2>1. PICK k \in Bad : \A x \in Bad : k <= x
      <3>1. Bad \in SUBSET Nat
        BY <1>3
      <3> HIDE DEF Bad
      <3> QED
        BY <3>1, FirstExists
    <2>2. k # 0
      BY <1>2, <1>3, <2>1
    <2> DEFINE d == k - 1
    <2>3. d \in 0..m /\ d \in 0..n /\ d \in 0..a /\ d \in 0..(m + 1) /\ ~(k <= d)
          /\ d - 1 <= n /\ d - 1 <= a /\ M[d] # L[d]
      BY <1>2, <1>3, <2>1, <2>2
    <2>4. M[d - 1] = L[d - 1]
      BY <2>1, <2>3
    <2> HIDE DEF d, few
    <2> QED
      BY <1>2, <1>3, <1>4, <2>3, <2>4
  <1>6. \A d \in few : M[d] = L[d]
    <2> TAKE d \in few
    <2>1. d \in 0..m /\ d \in 0..n /\ d <= a
      BY <1>2, <1>3
    <2>2. d + 1 \in 0..(m + 1) /\ (d + 1) - 1 = d /\ d <= n
      BY <1>2, <1>3, <2>1
    <2> QED
      BY <1>5, <2>1, <2>2
  <1>7. Thinned(few, gap) = {d \in few : M[d] = d} /\ Thinned(days, gap) = {d \in days : L[d] = d}
    BY DEF Thinned, L, M
  <1> QED
    BY <1>6, <1>7

-----------------------------------------------------------------------------
(***************************************************************************)
(* The rows around a day.  An anchor is the first row from an event on, a  *)
(* label ends h rows later; both are the same in a series that stops where *)
(* the label ends.                                                         *)
(***************************************************************************)

From(P, d) == {x \in P : d <= x}
Between(P, d, e) == {x \in P : d <= x /\ x < e}
Upto(P, e) == {x \in P : x <= e}
IsAnchor(P, t, d) == d \in P /\ t <= RowStamp(d) /\ \A x \in P : t <= RowStamp(x) => d <= x
IsEnd(P, d, e, h) == e \in P /\ d <= e /\ Cardinality(Between(P, d, e)) = h
Observed(times, P, h) ==
    {d \in P : \E t \in times : IsAnchor(P, t, d) /\ \E e \in P : IsEnd(P, d, e, h)}

\* The day that has exactly h others before it.
LEMMA NthDay ==
    ASSUME NEW S \in SUBSET Nat, NEW n \in Nat, \A x \in S : x <= n,
           NEW h \in Nat, Cardinality(S) > h
    PROVE  \E d \in S : Cardinality({x \in S : x < d}) = h
  <1> DEFINE Below(d) == {x \in S : x < d}
             Reached == {d \in Nat : Cardinality(Below(d)) > h}
  <1>1. \A x \in S : x \in Nat /\ x < n + 1 /\ ~(x < 0)
    OBVIOUS
  <1>2. IsFiniteSet(S)
    BY FS_BoundedSetOfNaturals
  <1>3. \A d \in Nat : IsFiniteSet(Below(d)) /\ Cardinality(Below(d)) \in Nat
    BY <1>2, FS_Subset, FS_CardinalityType
  <1>4. n + 1 \in Reached
    <2>1. Below(n + 1) = S
      BY <1>1, Zenon
    <2>2. n + 1 \in Nat
      OBVIOUS
    <2> QED
      BY <2>1, <2>2, Zenon
  <1>5. PICK d \in Reached : \A x \in Reached : d <= x
    <2>1. Reached \in SUBSET Nat /\ Reached # {}
      BY <1>4
    <2> HIDE DEF Reached
    <2> QED
      BY <2>1, FirstExists
  <1>6. d # 0
    <2>1. Below(0) = {}
      BY <1>1, Zenon
    <2>2. Cardinality(Below(d)) > h
      OBVIOUS
    <2> QED
      BY <2>1, <2>2, FS_EmptySet
  <1>7. d - 1 \in Nat /\ Cardinality(Below(d - 1)) <= h
    <2>1. d - 1 \in Nat /\ d - 1 \notin Reached
      BY <1>5, <1>6
    <2> QED
      BY <2>1, <1>3
  <1>8. Below(d) = IF d - 1 \in S THEN Below(d - 1) \cup {d - 1} ELSE Below(d - 1)
    <2>1. \A x \in S : x < d <=> x < d - 1 \/ x = d - 1
      BY <1>1
    <2>2. d - 1 < d
      OBVIOUS
    <2> QED
      BY <2>1, <2>2, Zenon
  <1>9. Cardinality(Below(d)) > h
    OBVIOUS
  <1>10. d - 1 \in S
    BY <1>7, <1>8, <1>9, <1>3
  <1>11. Cardinality(Below(d)) = Cardinality(Below(d - 1)) + 1
    <2>1. d - 1 \notin Below(d - 1)
      BY <1>7
    <2> QED
      BY <1>3, <1>7, <1>8, <1>10, <2>1, FS_AddElement
  <1>12. Cardinality(Below(d - 1)) = h
    BY <1>3, <1>7, <1>9, <1>11
  <1> QED
    BY <1>10, <1>12, Zenon

\* The constants of the audits.
LEMMA AuditNumbers ==
    /\ PerDay \in Nat /\ PerDay # 0 /\ MonthDays \in Nat /\ MonthDays # 0
    /\ LagRows \in Nat /\ LagRows # 0 /\ LongHorizon \in Nat /\ LongHorizon # 0
    /\ WarmupDays \in Nat /\ MinPeriods \in Nat /\ MinTrainEvents \in Nat
  BY EvaluationAssumption

\* Stamps are in the order of their days.
LEMMA StampsOrdered ==
    /\ \A d \in Nat : RowStamp(d) \in Nat
    /\ \A a, b \in Nat : RowStamp(a) <= RowStamp(b) <=> a <= b
    /\ \A t \in Nat : t \div PerDay \in Nat /\ RowStamp(t \div PerDay) <= t
    /\ \A t, d \in Nat : t <= RowStamp(d) => t \div PerDay <= d
    /\ \A d \in Nat : RowStamp(d) \div PerDay = d
  <1>1. PerDay \in Nat \ {0}
    BY AuditNumbers
  <1>2. \A p \in Nat \ {0}, a, b \in Nat : p * a \in Nat /\ (p * a <= p * b <=> a <= b)
    <2> TAKE p \in Nat \ {0}, a, b \in Nat
    <2>1. a <= b => p * a <= p * b
      OBVIOUS
    <2>2. b < a => p * b < p * a
      <3> HAVE b < a
      <3>1. p * (b + 1) = p * b + p /\ b + 1 <= a
        OBVIOUS
      <3>2. p * (b + 1) <= p * a
        OBVIOUS
      <3> QED
        BY <3>1, <3>2
    <2>3. p * a \in Nat /\ p * b \in Nat /\ (a <= b \/ b < a)
      OBVIOUS
    <2> QED
      BY <2>1, <2>2, <2>3
  <1>3. \A p \in Nat \ {0}, t \in Nat : t \div p \in Nat /\ p * (t \div p) <= t /\ t < p * (t \div p) + p
    OBVIOUS
  <1>4. ASSUME NEW t \in Nat, NEW d \in Nat, t <= RowStamp(d)
        PROVE  t \div PerDay <= d
    <2> DEFINE q == t \div PerDay
    <2>1. q \in Nat /\ PerDay * q <= t
      BY <1>1, <1>3
    <2> HIDE DEF q
    <2>2. PerDay * q <= PerDay * d
      BY <1>1, <1>2, <1>4, <2>1 DEF RowStamp
    <2>3. q <= d
      BY <1>1, <1>2, <2>1, <2>2
    <2> QED
      BY <2>3 DEF q
  <1>5. ASSUME NEW d \in Nat
        PROVE  RowStamp(d) \div PerDay = d
    <2> DEFINE q == RowStamp(d) \div PerDay
    <2>1. RowStamp(d) \in Nat /\ RowStamp(d) = PerDay * d
      BY <1>1, <1>2 DEF RowStamp
    <2>2. q \in Nat /\ PerDay * d < PerDay * q + PerDay
      BY <1>1, <1>3, <2>1
    <2>3. q <= d
      BY <1>4, <2>1
    <2> HIDE DEF q
    <2>4. PerDay * q + PerDay = PerDay * (q + 1) /\ PerDay * (q + 1) \in Nat /\ PerDay * d \in Nat
      BY <1>1, <2>2
    <2>5. ~(q + 1 <= d)
      BY <1>1, <1>2, <2>2, <2>4
    <2>6. q = d
      BY <2>2, <2>3, <2>5
    <2> QED
      BY <2>6 DEF q
  <1> QED
    BY <1>1, <1>2, <1>3, <1>4, <1>5 DEF RowStamp

\* The instances count as this module does.
LEMMA CountsAgree ==
    \A S : One!Cardinality(S) = Cardinality(S) /\ Far!Cardinality(S) = Cardinality(S)
  BY DEF One!Cardinality, Far!Cardinality, Cardinality

\* Counting rows between two days.
LEMMA BetweenFinite ==
    ASSUME NEW P, Ending(P), NEW d \in Nat, NEW e \in Nat
    PROVE  /\ IsFiniteSet(P)
           /\ IsFiniteSet(Between(P, d, e)) /\ Cardinality(Between(P, d, e)) \in Nat
           /\ IsFiniteSet(From(P, d)) /\ Cardinality(From(P, d)) \in Nat
  <1>1. IsFiniteSet(P)
    BY FS_BoundedSetOfNaturals DEF Ending
  <1>2. Between(P, d, e) \subseteq P /\ From(P, d) \subseteq P
    BY DEF Between, From
  <1> QED
    BY <1>1, <1>2, FS_Subset, FS_CardinalityType

\* A label has an end when enough rows follow.
LEMMA EndExists ==
    ASSUME NEW P, Ending(P), NEW d \in Nat, NEW h \in Nat
    PROVE  Cardinality(From(P, d)) > h <=> \E e \in P : IsEnd(P, d, e, h)
  <1>1. ASSUME Cardinality(From(P, d)) > h
        PROVE  \E e \in P : IsEnd(P, d, e, h)
    <2>1. From(P, d) \in SUBSET Nat /\ \E n \in Nat : \A x \in From(P, d) : x <= n
      BY DEF Ending, From
    <2>2. PICK n \in Nat : \A x \in From(P, d) : x <= n
      BY <2>1
    <2>3. PICK e \in From(P, d) : Cardinality({x \in From(P, d) : x < e}) = h
      BY <1>1, <2>1, <2>2, NthDay
    <2>4. {x \in From(P, d) : x < e} = Between(P, d, e)
      BY DEF From, Between
    <2> QED
      BY <2>3, <2>4 DEF From, IsEnd
  <1>2. ASSUME NEW e \in P, IsEnd(P, d, e, h)
        PROVE  Cardinality(From(P, d)) > h
    <2> DEFINE B == Between(P, d, e)
    <2>1. e \in Nat /\ Cardinality(B) = h
      BY <1>2 DEF IsEnd, Ending
    <2>2. IsFiniteSet(B) /\ IsFiniteSet(From(P, d)) /\ Cardinality(From(P, d)) \in Nat
      BY <2>1, BetweenFinite
    <2>3. e \notin B /\ B \cup {e} \subseteq From(P, d)
      BY <1>2, <2>1 DEF Between, From, IsEnd
    <2> HIDE DEF B
    <2>4. Cardinality(B \cup {e}) = h + 1 /\ IsFiniteSet(B \cup {e})
      BY <2>1, <2>2, <2>3, FS_AddElement
    <2>5. Cardinality(B \cup {e}) <= Cardinality(From(P, d))
      BY <2>2, <2>3, FS_Subset
    <2> QED
      BY <2>2, <2>4, <2>5
  <1> QED
    BY <1>1, <1>2

\* Later labels do not end earlier.
LEMMA EndsOrdered ==
    ASSUME NEW P, Ending(P), NEW h \in Nat, NEW a \in Nat, NEW b \in Nat, a <= b,
           NEW d, IsEnd(P, a, d, h), NEW e, IsEnd(P, b, e, h)
    PROVE  /\ d \in Nat /\ e \in Nat /\ d <= e
           /\ a \in P /\ a < b /\ h # 0 => d < e
  <1>1. d \in Nat /\ e \in Nat /\ d \in P /\ e \in P /\ a <= d /\ b <= e
        /\ Cardinality(Between(P, a, d)) = h /\ Cardinality(Between(P, b, e)) = h
    BY DEF IsEnd, Ending
  <1>2. \A x \in P : x \in Nat
    BY DEF Ending
  <1>3. IsFiniteSet(Between(P, a, d)) /\ IsFiniteSet(Between(P, b, e))
    BY <1>1, BetweenFinite
  <1>4. ASSUME e < d PROVE FALSE
    <2> DEFINE B == Between(P, b, e)
    <2>1. e \notin B /\ B \cup {e} \subseteq Between(P, a, d)
      <3>1. \A x \in P : b <= x /\ x < e => a <= x /\ x < d
        BY <1>2, <1>1, <1>4
      <3>2. a <= e /\ ~(e < e)
        BY <1>1
      <3> QED
        BY <1>1, <1>4, <3>1, <3>2 DEF Between
    <2> HIDE DEF B
    <2>2. Cardinality(B \cup {e}) = h + 1
      BY <1>1, <1>3, <2>1, FS_AddElement DEF B
    <2>3. Cardinality(B \cup {e}) <= Cardinality(Between(P, a, d))
      BY <1>3, <2>1, FS_Subset
    <2> QED
      BY <1>1, <2>2, <2>3
  <1>5. ASSUME a \in P, a < b, h # 0
        PROVE  d < e
    <2> SUFFICES ASSUME e <= d PROVE FALSE
      BY <1>1
    <2> DEFINE B == Between(P, b, e)
    <2>1. a # d
      <3> SUFFICES ASSUME a = d PROVE FALSE
        OBVIOUS
      <3>1. Between(P, a, d) = {}
        <4>1. \A x \in P : ~(a <= x /\ x < a)
          BY <1>2
        <4> QED
          BY <4>1 DEF Between
      <3> QED
        BY <1>1, <1>5, <3>1, FS_EmptySet
    <2>2. a \notin B /\ B \cup {a} \subseteq Between(P, a, d)
      <3>1. \A x \in P : b <= x /\ x < e => a <= x /\ x < d
        BY <1>2, <1>1
      <3>2. ~(b <= a) /\ a <= a /\ a < d
        BY <1>1, <1>5, <2>1
      <3> QED
        BY <1>1, <1>5, <3>1, <3>2 DEF Between
    <2> HIDE DEF B
    <2>3. Cardinality(B \cup {a}) = h + 1
      BY <1>1, <1>3, <2>2, FS_AddElement DEF B
    <2>4. Cardinality(B \cup {a}) <= Cardinality(Between(P, a, d))
      BY <1>3, <2>2, FS_Subset
    <2> QED
      BY <1>1, <2>3, <2>4
  <1> QED
    BY <1>1, <1>4, <1>5

\* Up to a label's end the series that stops there is the same.
LEMMA EndOfCut ==
    ASSUME NEW P, NEW D \in Nat, P \in SUBSET Nat, NEW d, NEW e, NEW h
    PROVE  IsEnd(Upto(P, D), d, e, h) <=> IsEnd(P, d, e, h) /\ e <= D
  <1>1. ASSUME e \in P, e <= D
        PROVE  Between(Upto(P, D), d, e) = Between(P, d, e)
    <2>1. \A x \in P : x < e => x <= D
      <3> TAKE x \in P
      <3>1. x \in Nat /\ e \in Nat
        BY <1>1
      <3> QED
        BY <1>1, <3>1
    <2> QED
      BY <2>1 DEF Between, Upto
  <1>2. e \in Upto(P, D) <=> e \in P /\ e <= D
    BY DEF Upto
  <1> QED
    BY <1>1, <1>2 DEF IsEnd

LEMMA AnchorOfCut ==
    ASSUME NEW P, NEW D \in Nat, P \in SUBSET Nat, NEW d, d <= D, NEW t
    PROVE  IsAnchor(Upto(P, D), t, d) <=> IsAnchor(P, t, d)
  <1>1. d \in P => d \in Nat
    OBVIOUS
  <1>2. \A x \in P : x \in Upto(P, D) \/ (x > D /\ x \in Nat)
    BY DEF Upto
  <1>3. Upto(P, D) \subseteq P /\ (d \in P => d \in Upto(P, D))
    BY DEF Upto
  <1>4. \A x \in P : d \in P /\ x > D => d <= x
    BY <1>1
  <1> QED
    BY <1>2, <1>3, <1>4 DEF IsAnchor

\* The anchors that are observed, of the instances of Tractability.
LEMMA RowsAre ==
    ASSUME NEW P, P \in SUBSET Nat, NEW d \in Nat
    PROVE  /\ One!RowsFrom(P, RowStamp(d)) = From(P, d)
           /\ Far!RowsFrom(P, RowStamp(d)) = From(P, d)
  <1>1. \A x \in P : RowStamp(x) >= RowStamp(d) <=> d <= x
    BY StampsOrdered
  <1>2. \A x \in P : PerDay * x = RowStamp(x)
    BY DEF RowStamp
  <1> QED
    BY <1>1, <1>2 DEF One!RowsFrom, Far!RowsFrom, From

LEMMA AnchorIs ==
    ASSUME NEW P, Ending(P), NEW t \in Nat
    PROVE  /\ \A d : One!HasAnchor(P, t) /\ One!Anchor(P, t) = d <=> IsAnchor(P, t, d)
           /\ Far!Anchor(P, t) = One!Anchor(P, t)
           /\ \A d : IsAnchor(P, t, d) =>
                 One!RowsFrom(P, t) = From(P, d) /\ Far!RowsFrom(P, t) = From(P, d)
           /\ ~One!HasAnchor(P, t) => One!RowsFrom(P, t) = {} /\ Far!RowsFrom(P, t) = {}
  <1> DEFINE R == {x \in P : t <= RowStamp(x)}
  <1>1. One!RowsFrom(P, t) = R /\ Far!RowsFrom(P, t) = R
    <2>1. \A x \in P : PerDay * x >= t <=> t <= RowStamp(x)
      BY StampsOrdered DEF RowStamp, Ending
    <2> QED
      BY <2>1 DEF One!RowsFrom, Far!RowsFrom
  <1>2. P \in SUBSET Nat
    BY DEF Ending
  <1>3. R # {} => \E d \in R : \A x \in R : d <= x
    <2>1. R \in SUBSET Nat
      BY <1>2
    <2> HIDE DEF R
    <2> QED
      BY <2>1, FirstExists
  <1>4. One!HasAnchor(P, t) <=> R # {}
    BY <1>1 DEF One!HasAnchor
  <1>5. /\ One!Anchor(P, t) = CHOOSE d \in R : \A x \in R : d <= x
        /\ Far!Anchor(P, t) = CHOOSE d \in R : \A x \in R : d <= x
    BY <1>1 DEF One!Anchor, Far!Anchor
  <1>6. \A d : IsAnchor(P, t, d) <=> d \in R /\ \A x \in R : d <= x
    BY DEF IsAnchor
  <1>7. \A d, e \in R : (\A x \in R : d <= x) /\ (\A x \in R : e <= x) => d = e
    BY <1>2
  <1>8. \A d : One!HasAnchor(P, t) /\ One!Anchor(P, t) = d <=> IsAnchor(P, t, d)
    <2> DEFINE c == CHOOSE d \in R : \A x \in R : d <= x
    <2>1. R # {} => c \in R /\ \A x \in R : c <= x
      BY <1>3
    <2> HIDE DEF R, c
    <2>2. One!Anchor(P, t) = c
      BY <1>5 DEF c
    <2>3. \A d : IsAnchor(P, t, d) => R # {} /\ d = c
      BY <1>6, <1>7, <2>1
    <2> QED
      BY <1>4, <1>6, <2>1, <2>2, <2>3
  <1>9. ASSUME NEW d, IsAnchor(P, t, d)
        PROVE  R = From(P, d)
    <2>1. d \in P /\ t <= RowStamp(d) /\ d \in Nat
      BY <1>2, <1>9 DEF IsAnchor
    <2>2. ASSUME NEW x \in P, d <= x
          PROVE  t <= RowStamp(x)
      <3>1. RowStamp(d) <= RowStamp(x) /\ RowStamp(d) \in Nat /\ RowStamp(x) \in Nat
        BY <1>2, <2>1, <2>2, StampsOrdered
      <3> QED
        BY <2>1, <3>1
    <2>3. \A x \in P : t <= RowStamp(x) => d <= x
      BY <1>9 DEF IsAnchor
    <2> QED
      BY <2>2, <2>3 DEF From
  <1> HIDE DEF R
  <1> QED
    BY <1>1, <1>4, <1>5, <1>8, <1>9

LEMMA ObservationsAre ==
    ASSUME NEW P, Ending(P), NEW times \in SUBSET Nat
    PROVE  /\ One!Observations(times, P) = Observed(times, P, 1)
           /\ Far!Observations(times, P) = Observed(times, P, LongHorizon)
  <1>1. 1 \in Nat /\ LongHorizon \in Nat /\ P \in SUBSET Nat
    BY AuditNumbers DEF Ending
  <1>2. Cardinality({}) = 0
    BY FS_EmptySet
  <1>3. ASSUME NEW t \in times
        PROVE  /\ One!HasWindow(P, t) => One!HasAnchor(P, t)
               /\ Far!HasWindow(P, t) => One!HasAnchor(P, t)
    <2>1. t \in Nat /\ ~(0 > 1) /\ ~(0 > LongHorizon)
      BY <1>1
    <2>2. ~One!HasAnchor(P, t) => One!RowsFrom(P, t) = {} /\ Far!RowsFrom(P, t) = {}
      BY <2>1, AnchorIs
    <2>3. /\ One!HasWindow(P, t) <=> Cardinality(One!RowsFrom(P, t)) > 1
          /\ Far!HasWindow(P, t) <=> Cardinality(Far!RowsFrom(P, t)) > LongHorizon
      BY CountsAgree DEF One!HasWindow, Far!HasWindow
    <2> QED
      BY <1>2, <2>1, <2>2, <2>3
  <1>4. ASSUME NEW t \in times, NEW d, IsAnchor(P, t, d)
        PROVE  /\ One!HasWindow(P, t) <=> \E e \in P : IsEnd(P, d, e, 1)
               /\ Far!HasWindow(P, t) <=> \E e \in P : IsEnd(P, d, e, LongHorizon)
    <2>1. t \in Nat /\ d \in Nat
      BY <1>1, <1>4 DEF IsAnchor
    <2>2. One!RowsFrom(P, t) = From(P, d) /\ Far!RowsFrom(P, t) = From(P, d)
      BY <1>4, <2>1, AnchorIs
    <2>3. /\ One!HasWindow(P, t) <=> Cardinality(One!RowsFrom(P, t)) > 1
          /\ Far!HasWindow(P, t) <=> Cardinality(Far!RowsFrom(P, t)) > LongHorizon
      BY CountsAgree DEF One!HasWindow, Far!HasWindow
    <2> QED
      BY <1>1, <2>1, <2>2, <2>3, EndExists
  <1>5. \A t \in times : \A d : One!HasAnchor(P, t) /\ One!Anchor(P, t) = d <=> IsAnchor(P, t, d)
    BY AnchorIs
  <1>6. \A t \in times : Far!Anchor(P, t) = One!Anchor(P, t)
    BY AnchorIs
  <1>7. \A t, d : IsAnchor(P, t, d) => d \in P
    BY DEF IsAnchor
  <1>8. One!Observations(times, P) = Observed(times, P, 1)
    <2>1. One!Observations(times, P) = {One!Anchor(P, t) : t \in {u \in times : One!HasWindow(P, u)}}
      BY DEF One!Observations
    <2>2. \A t \in times : One!HasWindow(P, t) =>
              IsAnchor(P, t, One!Anchor(P, t)) /\ \E e \in P : IsEnd(P, One!Anchor(P, t), e, 1)
      BY <1>3, <1>4, <1>5
    <2>3. \A t \in times : \A d : IsAnchor(P, t, d) /\ (\E e \in P : IsEnd(P, d, e, 1)) =>
              One!HasWindow(P, t) /\ d = One!Anchor(P, t)
      BY <1>4, <1>5
    <2> QED
      BY <1>7, <2>1, <2>2, <2>3 DEF Observed
  <1>9. Far!Observations(times, P) = Observed(times, P, LongHorizon)
    <2>1. Far!Observations(times, P) = {Far!Anchor(P, t) : t \in {u \in times : Far!HasWindow(P, u)}}
      BY DEF Far!Observations
    <2>2. \A t \in times : Far!HasWindow(P, t) =>
              IsAnchor(P, t, Far!Anchor(P, t)) /\ \E e \in P : IsEnd(P, Far!Anchor(P, t), e, LongHorizon)
      BY <1>3, <1>4, <1>5, <1>6
    <2>3. \A t \in times : \A d : IsAnchor(P, t, d) /\ (\E e \in P : IsEnd(P, d, e, LongHorizon)) =>
              Far!HasWindow(P, t) /\ d = Far!Anchor(P, t)
      BY <1>4, <1>5, <1>6
    <2> QED
      BY <1>7, <2>1, <2>2, <2>3 DEF Observed
  <1> QED
    BY <1>8, <1>9

\* The end of a label.
LEMMA LabelEndIs ==
    ASSUME NEW data, Ending(Prices(data)), NEW h \in {1, LongHorizon}, NEW d \in Nat,
           NEW e, IsEnd(Prices(data), d, e, h)
    PROVE  LabelEnd(h, d, data) = e /\ e \in Nat
  <1> DEFINE P == Prices(data)
  <1>1. h \in Nat /\ P \in SUBSET Nat
    BY AuditNumbers DEF Ending
  <1>2. \A x \in From(P, d) : {y \in From(P, d) : y < x} = Between(P, d, x)
    BY DEF From, Between
  <1>3. LabelEnd(h, d, data) = CHOOSE x \in From(P, d) : Cardinality({y \in From(P, d) : y < x}) = h
    <2>1. CASE h = 1
      <3>1. LabelEnd(h, d, data) =
              CHOOSE x \in One!RowsFrom(P, RowStamp(d)) :
                  Cardinality({y \in One!RowsFrom(P, RowStamp(d)) : y < x}) = 1
        BY <2>1, CountsAgree DEF LabelEnd, One!WindowEnd
      <3>2. One!RowsFrom(P, RowStamp(d)) = From(P, d)
        BY <1>1, RowsAre
      <3> QED
        BY <2>1, <3>1, <3>2
    <2>2. CASE h # 1
      <3>1. LabelEnd(h, d, data) =
              CHOOSE x \in Far!RowsFrom(P, RowStamp(d)) :
                  Cardinality({y \in Far!RowsFrom(P, RowStamp(d)) : y < x}) = LongHorizon
        BY <2>2, CountsAgree DEF LabelEnd, Far!WindowEnd
      <3>2. Far!RowsFrom(P, RowStamp(d)) = From(P, d)
        BY <1>1, RowsAre
      <3>3. h = LongHorizon
        BY <2>2
      <3> QED
        BY <3>1, <3>2, <3>3
    <2> QED
      BY <2>1, <2>2
  <1>4. \A x \in From(P, d) : Cardinality(Between(P, d, x)) = h => IsEnd(P, d, x, h)
    BY DEF From, IsEnd
  <1>5. e \in From(P, d) /\ Cardinality({y \in From(P, d) : y < e}) = h
    <2>1. e \in From(P, d) /\ Cardinality(Between(P, d, e)) = h
      BY DEF IsEnd, From
    <2> QED
      BY <1>2, <2>1
  <1> HIDE DEF P
  <1>6. LabelEnd(h, d, data) \in From(P, d)
        /\ Cardinality({y \in From(P, d) : y < LabelEnd(h, d, data)}) = h
    BY <1>3, <1>5
  <1>7. IsEnd(P, d, LabelEnd(h, d, data), h)
    BY <1>2, <1>4, <1>6
  <1>8. LabelEnd(h, d, data) <= e /\ e <= LabelEnd(h, d, data) /\ e \in Nat
        /\ LabelEnd(h, d, data) \in Nat
    BY <1>1, <1>7, EndsOrdered DEF P
  <1> QED
    BY <1>8

-----------------------------------------------------------------------------
(***************************************************************************)
(* What an audit finds, and what an audit found on an earlier day.         *)
(***************************************************************************)

Families == FamiliesOf("wti_lag")
Findings(data) ==
    /\ Ending(Prices(data)) /\ data.price \in [Prices(data) -> Int]
    /\ data.releases \in [Families -> SUBSET Nat]
    /\ data.daily \in SUBSET Nat /\ data.since \in Nat

LEMMA CasesAreFindings ==
    ASSUME NEW data \in AuditCases
    PROVE  Findings(data)
  <1>1. /\ DOMAIN data.price \in SUBSET Nat
        /\ DOMAIN data.price # {} => \E last \in DOMAIN data.price : \A d \in DOMAIN data.price : d <= last
        /\ data.price \in [DOMAIN data.price -> Int]
        /\ data.releases \in [Families -> SUBSET Nat]
        /\ data.daily \in SUBSET Nat /\ data.since \in Nat
    BY EvaluationAssumption DEF Families
  <1>2. \E n \in Nat : \A x \in DOMAIN data.price : x <= n
    <2>1. CASE DOMAIN data.price = {}
      BY <2>1, 0 \in Nat
    <2>2. CASE DOMAIN data.price # {}
      BY <1>1, <2>2
    <2> QED
      BY <2>1, <2>2
  <1> QED
    BY <1>1, <1>2 DEF Findings, Ending, Prices

LEMMA CutIs ==
    ASSUME NEW data, Findings(data), NEW D \in Nat
    PROVE  LET c == Cut(data, D)
           IN  /\ Findings(c) /\ Prices(c) = Upto(Prices(data), D)
               /\ \A x \in Prices(c) : c.price[x] = data.price[x]
               /\ \A f \in Families : c.releases[f] = {t \in data.releases[f] : t <= RowStamp(D)}
               /\ c.content = data.content /\ c.daily = {x \in data.daily : x <= D}
               /\ c.since = data.since /\ c.admissible = data.admissible
  <1> DEFINE c == Cut(data, D)
             price == [x \in {y \in DOMAIN data.price : y <= D} |-> data.price[x]]
             releases == [f \in DOMAIN data.releases |-> {t \in data.releases[f] : t <= RowStamp(D)}]
             daily == {x \in data.daily : x <= D}
  <1>1. /\ c.price = price /\ c.releases = releases /\ c.content = data.content
        /\ c.daily = daily /\ c.admissible = data.admissible /\ c.since = data.since
    BY DEF Cut, Prices
  <1>2. /\ DOMAIN data.price \in SUBSET Nat /\ data.price \in [DOMAIN data.price -> Int]
        /\ data.releases \in [Families -> SUBSET Nat] /\ DOMAIN data.releases = Families
        /\ data.daily \in SUBSET Nat /\ data.since \in Nat
    BY DEF Findings, Ending, Prices
  <1>3. price \in [DOMAIN price -> Int] /\ DOMAIN price = {y \in DOMAIN data.price : y <= D}
    BY <1>2
  <1>4. releases \in [Families -> SUBSET Nat] /\ daily \in SUBSET Nat
    BY <1>2
  <1>5. Prices(c) = Upto(Prices(data), D) /\ Prices(c) = DOMAIN price
    BY <1>1, <1>3 DEF Prices, Upto
  <1>6. Ending(Prices(c))
    <2>1. DOMAIN price \in SUBSET Nat
      BY <1>2, <1>3
    <2>2. \A x \in DOMAIN price : x <= D
      BY <1>3
    <2> QED
      BY <1>5, <2>1, <2>2 DEF Ending
  <1>7. Findings(c)
    <2> HIDE DEF price, releases, daily, c
    <2> QED
      BY <1>1, <1>2, <1>3, <1>4, <1>5, <1>6 DEF Findings
  <1>8. \A x \in Prices(c) : c.price[x] = data.price[x]
    BY <1>1, <1>3, <1>5
  <1>9. \A f \in Families : c.releases[f] = {t \in data.releases[f] : t <= RowStamp(D)}
    BY <1>1, <1>2
  <1> QED
    BY <1>1, <1>5, <1>7, <1>8, <1>9

-----------------------------------------------------------------------------
(***************************************************************************)
(* Anchors.                                                                *)
(***************************************************************************)

Times(families, data) == UNION {data.releases[f] : f \in families}

LEMMA KeptAnchorsAre ==
    ASSUME NEW data, Findings(data), NEW h \in {1, LongHorizon}, NEW families \in SUBSET Families
    PROVE  LET days == {d \in Observed(Times(families, data), Prices(data), h) : d >= data.since}
           IN  /\ KeptAnchors(h, families, data) = Thinned(days, 2 * h)
               /\ Ending(days) /\ 2 * h \in Nat /\ h \in Nat /\ h # 0
               /\ Times(families, data) \in SUBSET Nat
               /\ Thinned(days, 2 * h) \subseteq days
  <1> DEFINE P == Prices(data)
             times == Times(families, data)
             O(k) == Observed(times, P, k)
             days == {d \in O(h) : d >= data.since}
  <1>1. times \in SUBSET Nat /\ Ending(P)
    BY DEF Findings, Times
  <1>2. One!Observations(times, P) = O(1) /\ Far!Observations(times, P) = O(LongHorizon)
    BY <1>1, ObservationsAre
  <1>3. h \in Nat /\ 2 * h \in Nat /\ h # 0
    BY AuditNumbers
  <1>4. KeptAnchors(h, families, data) = Thinned(days, 2 * h)
    <2>1. CASE h = 1
      <3>1. KeptAnchors(h, families, data) = One!Kept({d \in One!Observations(times, P) : d >= data.since})
        BY <2>1 DEF KeptAnchors, Times
      <3>2. KeptAnchors(h, families, data) = Thinned({d \in O(1) : d >= data.since}, 2)
        BY <1>2, <3>1, ThinnedIs
      <3> QED
        BY <2>1, <3>2, 2 * 1 = 2
    <2>2. CASE h # 1
      <3>1. KeptAnchors(h, families, data) = Far!Kept({d \in Far!Observations(times, P) : d >= data.since})
        BY <2>2 DEF KeptAnchors, Times
      <3>2. KeptAnchors(h, families, data)
              = Thinned({d \in O(LongHorizon) : d >= data.since}, 2 * LongHorizon)
        BY <1>2, <3>1, ThinnedIs
      <3> QED
        BY <2>2, <3>2
    <2> QED
      BY <2>1, <2>2
  <1>5. Ending(days)
    <2>1. days \subseteq P
      BY DEF Observed
    <2> QED
      BY <1>1, <2>1 DEF Ending
  <1>6. Thinned(days, 2 * h) \subseteq days
    BY DEF Thinned
  <1> QED
    BY <1>1, <1>3, <1>4, <1>5, <1>6

\* The day that an earlier audit is made on: the end of the label of an anchor.
SeenFrom(data, h, a, D) ==
    a \in Prices(data) /\ IsEnd(Prices(data), a, D, h) /\ h \in {1, LongHorizon}

LEMMA KeptOfCut ==
    ASSUME NEW data, Findings(data), NEW h, NEW a, NEW D, SeenFrom(data, h, a, D),
           NEW families \in SUBSET Families
    PROVE  KeptAnchors(h, families, Cut(data, D)) = {d \in KeptAnchors(h, families, data) : d <= a}
  <1> DEFINE P == Prices(data)
             c == Cut(data, D)
             Q == Prices(c)
             T == Times(families, data)
             U == Times(families, c)
             days == {d \in Observed(T, P, h) : d >= data.since}
             few == {d \in Observed(U, Q, h) : d >= c.since}
  <1>1. P \in SUBSET Nat /\ Ending(P) /\ a \in Nat /\ D \in Nat /\ a <= D /\ IsEnd(P, a, D, h)
        /\ h \in {1, LongHorizon} /\ a \in P
    BY DEF Findings, Ending, SeenFrom, IsEnd
  <1>2. Findings(c) /\ Q = Upto(P, D) /\ c.since = data.since
        /\ \A f \in Families : c.releases[f] = {t \in data.releases[f] : t <= RowStamp(D)}
    <2> HIDE DEF P
    <2>1. D \in Nat
      BY <1>1
    <2> QED
      BY <2>1, CutIs DEF P
  <1>3. U = {t \in T : t <= RowStamp(D)}
    BY <1>2 DEF Times
  <1>4. h \in Nat /\ h # 0 /\ T \in SUBSET Nat /\ Ending(days) /\ 2 * h \in Nat
    BY <1>1, KeptAnchorsAre
  <1>5. KeptAnchors(h, families, data) = Thinned(days, 2 * h)
        /\ KeptAnchors(h, families, c) = Thinned(few, 2 * h)
    BY <1>1, <1>2, KeptAnchorsAre
  <1> HIDE DEF P, c, Q, T, U
  <1>6. ASSUME NEW d \in Observed(U, Q, h)
        PROVE  d \in Observed(T, P, h) /\ d <= a
    <2>1. d \in Q /\ d \in P /\ d <= D /\ d \in Nat
      BY <1>1, <1>2 DEF Observed, Upto
    <2>2. PICK t \in U : IsAnchor(Q, t, d) /\ \E e \in Q : IsEnd(Q, d, e, h)
      BY DEF Observed
    <2>3. PICK e \in Q : IsEnd(Q, d, e, h)
      BY <2>2
    <2>4. IsEnd(P, d, e, h) /\ e <= D /\ e \in P /\ e \in Nat
      <3>1. IsEnd(P, d, e, h) /\ e <= D
        BY <1>1, <1>2, <2>3, EndOfCut
      <3> QED
        BY <1>1, <3>1 DEF IsEnd
    <2>5. IsAnchor(P, t, d) /\ t \in T
      BY <1>1, <1>2, <1>3, <2>1, <2>2, AnchorOfCut
    <2>6. ~(a < d)
      <3> SUFFICES ASSUME a < d PROVE FALSE
        OBVIOUS
      <3>1. D < e
        BY <1>1, <1>4, <2>1, <2>4, EndsOrdered
      <3> QED
        BY <1>1, <2>4, <3>1
    <2> QED
      BY <1>1, <2>1, <2>4, <2>5, <2>6 DEF Observed
  <1>7. ASSUME NEW d \in Observed(T, P, h), d <= a
        PROVE  d \in Observed(U, Q, h)
    <2>1. d \in P /\ d \in Nat /\ d <= D /\ d \in Q
      BY <1>1, <1>2, <1>7 DEF Observed, Upto
    <2>2. PICK t \in T : IsAnchor(P, t, d) /\ \E e \in P : IsEnd(P, d, e, h)
      BY DEF Observed
    <2>3. PICK e \in P : IsEnd(P, d, e, h)
      BY <2>2
    <2>4. e <= D
      BY <1>1, <1>4, <1>7, <2>1, <2>3, EndsOrdered
    <2>5. IsEnd(Q, d, e, h) /\ e \in Q
      BY <1>1, <1>2, <2>3, <2>4, EndOfCut DEF Upto
    <2>6. IsAnchor(Q, t, d)
      BY <1>1, <1>2, <2>1, <2>2, AnchorOfCut
    <2>7. t \in U
      <3>1. t <= RowStamp(d) /\ RowStamp(d) <= RowStamp(D) /\ RowStamp(d) \in Nat /\ RowStamp(D) \in Nat
        BY <1>1, <2>1, <2>2, StampsOrdered DEF IsAnchor
      <3> QED
        BY <1>3, <1>4, <3>1
    <2> QED
      BY <2>1, <2>5, <2>6, <2>7 DEF Observed
  <1>8. few = {d \in days : d <= a}
    BY <1>2, <1>6, <1>7
  <1> HIDE DEF few, days
  <1>9. Thinned(few, 2 * h) = {d \in Thinned(days, 2 * h) : d <= a}
    BY <1>1, <1>4, <1>8, ThinnedPrefix
  <1> QED
    BY <1>5, <1>9 DEF c

-----------------------------------------------------------------------------
(***************************************************************************)
(* Features.  A release's features rest on nothing stamped after it, and   *)
(* an earlier audit computes the same for the releases it sees.            *)
(***************************************************************************)

\* The greatest of a set of days.
LEMMA MaxIs ==
    ASSUME NEW S \in SUBSET Nat, S # {}, NEW b \in Nat, \A x \in S : x <= b
    PROVE  Max(S) \in S /\ Max(S) <= b /\ \A x \in S : x <= Max(S)
  <1>1. \E d \in S : \A x \in S : x <= d
    <2>1. S \in SUBSET Int /\ b \in Int
      OBVIOUS
    <2> QED
      BY <2>1, LastOfDays
  <1>2. \E d \in S : \A x \in S : d >= x
    BY <1>1
  <1>3. Max(S) \in S /\ \A x \in S : Max(S) >= x
    BY <1>2 DEF Max
  <1> QED
    BY <1>3

\* The releases by a given time.
By(S, m) == {t \in S : t <= m}

LEMMA EarlierOfCut ==
    ASSUME NEW S \in SUBSET Nat, NEW m \in Nat
    PROVE  /\ \A t \in Nat : t <= m => Earlier(By(S, m), t) = Earlier(S, t)
           /\ Trailing(By(S, m)) = By(Trailing(S), m)
  <1>1. ASSUME NEW t \in Nat, t <= m
        PROVE  Earlier(By(S, m), t) = Earlier(S, t)
    <2>1. \A x \in S : x < t => x <= m
      BY <1>1
    <2> QED
      BY <2>1 DEF Earlier, By
  <1>2. \A t \in By(S, m) : t \in Nat /\ t <= m /\ t \in S
    BY DEF By
  <1>3. \A t \in By(S, m) : Earlier(By(S, m), t) = Earlier(S, t)
    BY <1>1, <1>2
  <1> QED
    BY <1>1, <1>3 DEF Trailing, By

\* Features that rest on the past, and the features of an earlier audit.
Sound(F) == DOMAIN F \in SUBSET Nat /\ \A t \in DOMAIN F : F[t] \in SUBSET Nat /\ \A x \in F[t] : x <= t
Agrees(G, F, m) == DOMAIN G = By(DOMAIN F, m) /\ \A t \in DOMAIN G : G[t] = F[t]

LEMMA ReleasesAre ==
    ASSUME NEW data, Findings(data), NEW family \in Families, NEW D \in Nat
    PROVE  /\ data.releases[family] \in SUBSET Nat
           /\ Cut(data, D).releases[family] = By(data.releases[family], RowStamp(D))
           /\ RowStamp(D) \in Nat
  <1>1. RowStamp(D) \in Nat
    BY StampsOrdered
  <1>2. data.releases[family] \in SUBSET Nat
    BY DEF Findings
  <1>3. Cut(data, D).releases[family] = By(data.releases[family], RowStamp(D))
    BY CutIs DEF By
  <1> QED
    BY <1>1, <1>2, <1>3

LEMMA GprValueIs ==
    ASSUME NEW data, Findings(data), NEW x \in GprValued(data)
    PROVE  RowStamp(GprValue(x, data)) \in Nat /\ RowStamp(GprValue(x, data)) <= x
  <1> DEFINE q == x \div PerDay
             S == {d \in data.daily : d <= q}
  <1>1. x \in Nat /\ data.daily \in SUBSET Nat /\ S # {}
    <2>1. "gpr" \in Families
      BY DEF Families, FamiliesOf
    <2> QED
      BY <2>1 DEF Findings, GprValued
  <1>2. q \in Nat /\ RowStamp(q) <= x
    BY <1>1, StampsOrdered
  <1> HIDE DEF q
  <1>3. Max(S) \in S /\ Max(S) \in Nat /\ Max(S) <= q
    <2>1. S \in SUBSET Nat /\ \A d \in S : d <= q
      BY <1>1
    <2> HIDE DEF S
    <2> QED
      BY <1>1, <1>2, <2>1, MaxIs
  <1>4. RowStamp(Max(S)) <= RowStamp(q) /\ RowStamp(Max(S)) \in Nat /\ RowStamp(q) \in Nat
    BY <1>2, <1>3, StampsOrdered
  <1>5. GprValue(x, data) = Max(S)
    BY DEF GprValue, q
  <1> HIDE DEF S
  <1> QED
    BY <1>1, <1>2, <1>4, <1>5

LEMMA GprAgrees ==
    ASSUME NEW data, Findings(data), NEW D \in Nat
    PROVE  Sound(GprFeatures(data)) /\ Agrees(GprFeatures(Cut(data, D)), GprFeatures(data), RowStamp(D))
  <1> DEFINE c == Cut(data, D)
             m == RowStamp(D)
             V == GprValued(data)
             W == GprValued(c)
  <1>1. "gpr" \in Families
    BY DEF Families, FamiliesOf
  <1>2. /\ data.releases["gpr"] \in SUBSET Nat /\ c.releases["gpr"] = By(data.releases["gpr"], m)
        /\ m \in Nat /\ c.daily = {d \in data.daily : d <= D} /\ data.daily \in SUBSET Nat
    BY <1>1, ReleasesAre, CutIs DEF Findings
  <1>3. \A t \in Nat : t <= m => t \div PerDay \in Nat /\ t \div PerDay <= D
    BY StampsOrdered
  <1> HIDE DEF c, m
  <1>4. ASSUME NEW t \in Nat, t <= m
        PROVE  {d \in c.daily : d <= t \div PerDay} = {d \in data.daily : d <= t \div PerDay}
    <2>1. t \div PerDay \in Nat /\ t \div PerDay <= D
      BY <1>3, <1>4
    <2>2. \A d \in data.daily : d <= t \div PerDay => d <= D
      BY <1>2, <2>1
    <2> QED
      BY <1>2, <2>2
  <1>5. W = By(V, m) /\ V \in SUBSET Nat
    <2>1. \A t \in By(data.releases["gpr"], m) : t \in Nat /\ t <= m
      BY <1>2 DEF By
    <2>2. \A t \in By(data.releases["gpr"], m) :
             (\E d \in c.daily : d <= t \div PerDay) <=> (\E d \in data.daily : d <= t \div PerDay)
      BY <1>4, <2>1
    <2> QED
      BY <1>2, <2>2 DEF GprValued, By
  <1>6. \A t \in Nat : t <= m => GprValue(t, c) = GprValue(t, data)
    BY <1>4 DEF GprValue
  <1>7. \A t \in V : RowStamp(GprValue(t, data)) \in Nat /\ RowStamp(GprValue(t, data)) <= t
    BY GprValueIs
  <1> HIDE DEF V, W
  <1>8. Trailing(W) = By(Trailing(V), m) /\ \A t \in Nat : t <= m => Earlier(W, t) = Earlier(V, t)
    BY <1>2, <1>5, EarlierOfCut
  <1>9. Trailing(V) \subseteq V /\ \A t : Earlier(V, t) \subseteq V /\ \A x \in Earlier(V, t) : x < t
    BY DEF Trailing, Earlier
  <1>10. GprFeatures(data) = [t \in Trailing(V) |-> {RowStamp(GprValue(x, data)) : x \in Earlier(V, t) \cup {t}}]
         /\ GprFeatures(c) = [t \in Trailing(W) |-> {RowStamp(GprValue(x, c)) : x \in Earlier(W, t) \cup {t}}]
    BY DEF GprFeatures, V, W
  <1>11. Sound(GprFeatures(data))
    <2>1. ASSUME NEW t \in Trailing(V), NEW x \in Earlier(V, t) \cup {t}
          PROVE  RowStamp(GprValue(x, data)) \in Nat /\ RowStamp(GprValue(x, data)) <= t
      <3>1. x \in V /\ t \in V /\ x \in Nat /\ t \in Nat /\ x <= t
        <4>1. t \in V /\ t \in Nat
          BY <1>5, <1>9
        <4>2. x = t \/ (x \in V /\ x < t)
          BY <1>9
        <4>3. x \in V /\ x \in Nat
          BY <1>5, <4>1, <4>2
        <4> QED
          BY <4>1, <4>2, <4>3
      <3>2. RowStamp(GprValue(x, data)) \in Nat /\ RowStamp(GprValue(x, data)) <= x
        BY <1>7, <3>1
      <3> QED
        BY <3>1, <3>2
    <2>2. DOMAIN GprFeatures(data) \in SUBSET Nat
      BY <1>5, <1>9, <1>10
    <2> QED
      BY <1>10, <2>1, <2>2 DEF Sound
  <1>12. Agrees(GprFeatures(c), GprFeatures(data), m)
    <2>1. ASSUME NEW t \in Trailing(W)
          PROVE  t \in Trailing(V) /\ GprFeatures(c)[t] = GprFeatures(data)[t]
      <3>1. t \in Trailing(V) /\ t <= m /\ t \in Nat
        BY <1>5, <1>8, <1>9 DEF By
      <3>2. Earlier(W, t) = Earlier(V, t)
        BY <1>8, <3>1
      <3>3. \A x \in Earlier(V, t) \cup {t} : GprValue(x, c) = GprValue(x, data)
        <4>1. \A x \in Earlier(V, t) \cup {t} : x \in Nat /\ x <= m
          <5> TAKE x \in Earlier(V, t) \cup {t}
          <5>1. x = t \/ (x \in V /\ x < t)
            BY <1>9
          <5>2. x \in Nat
            BY <1>5, <3>1, <5>1
          <5> QED
            BY <1>2, <3>1, <5>1, <5>2
        <4> QED
          BY <1>6, <4>1
      <3> QED
        BY <1>10, <3>1, <3>2, <3>3
    <2> QED
      BY <1>8, <1>10, <2>1 DEF Agrees
  <1> QED
    BY <1>11, <1>12 DEF c, m

\* The releases whose vintages can be read.
LEMMA PanelOfCut ==
    ASSUME NEW data, Findings(data), NEW D \in Nat, NEW family \in Families
    PROVE  LET V == data.releases[family] \cap data.content
               W == Cut(data, D).releases[family] \cap Cut(data, D).content
           IN  /\ V \in SUBSET Nat /\ W = By(V, RowStamp(D)) /\ RowStamp(D) \in Nat
               /\ \A t \in Nat : t <= RowStamp(D) => Earlier(W, t) = Earlier(V, t)
               /\ Trailing(W) = By(Trailing(V), RowStamp(D))
  <1> DEFINE V == data.releases[family] \cap data.content
             W == Cut(data, D).releases[family] \cap Cut(data, D).content
             m == RowStamp(D)
  <1>1. V \in SUBSET Nat /\ W = By(V, m) /\ m \in Nat
    <2>1. /\ data.releases[family] \in SUBSET Nat /\ m \in Nat
          /\ Cut(data, D).releases[family] = By(data.releases[family], m)
      BY ReleasesAre
    <2>2. Cut(data, D).content = data.content
      BY CutIs
    <2> QED
      BY <2>1, <2>2 DEF By
  <1> HIDE DEF V, W, m
  <1>2. /\ \A t \in Nat : t <= m => Earlier(W, t) = Earlier(V, t)
        /\ Trailing(W) = By(Trailing(V), m)
    BY <1>1, EarlierOfCut
  <1> QED
    BY <1>1, <1>2 DEF V, W, m

LEMMA WpsrAgrees ==
    ASSUME NEW data, Findings(data), NEW D \in Nat
    PROVE  Sound(WpsrFeatures(data)) /\ Agrees(WpsrFeatures(Cut(data, D)), WpsrFeatures(data), RowStamp(D))
  <1> DEFINE c == Cut(data, D)
             m == RowStamp(D)
             V == data.releases["wpsr"] \cap data.content
             W == c.releases["wpsr"] \cap c.content
  <1>1. "wpsr" \in Families
    BY DEF Families, FamiliesOf
  <1>2. /\ V \in SUBSET Nat /\ W = By(V, m) /\ m \in Nat
        /\ \A t \in Nat : t <= m => Earlier(W, t) = Earlier(V, t)
        /\ Trailing(W) = By(Trailing(V), m)
    BY <1>1, PanelOfCut
  <1>3. /\ WpsrFeatures(data) = [t \in Trailing(V) |-> Earlier(V, t) \cup {t}]
        /\ WpsrFeatures(c) = [t \in Trailing(W) |-> Earlier(W, t) \cup {t}]
    BY DEF WpsrFeatures
  <1> HIDE DEF c, m, V, W
  <1>4. Trailing(V) \subseteq V /\ \A t : Earlier(V, t) \subseteq V /\ \A x \in Earlier(V, t) : x < t
    BY DEF Trailing, Earlier
  <1>5. Sound(WpsrFeatures(data))
    <2>1. ASSUME NEW t \in Trailing(V), NEW x \in Earlier(V, t) \cup {t}
          PROVE  x \in Nat /\ x <= t
      <3>1. t \in V /\ t \in Nat
        BY <1>2, <1>4
      <3>2. x = t \/ (x \in V /\ x < t)
        BY <1>4
      <3>3. x \in Nat
        BY <1>2, <3>1, <3>2
      <3> QED
        BY <3>1, <3>2, <3>3
    <2>2. Trailing(V) \in SUBSET Nat
      BY <1>2, <1>4
    <2> QED
      BY <1>3, <2>1, <2>2 DEF Sound
  <1>6. \A t \in Trailing(W) : t \in Trailing(V) /\ t <= m /\ t \in Nat
    BY <1>2, <1>4 DEF By
  <1>7. Agrees(WpsrFeatures(c), WpsrFeatures(data), m)
    BY <1>2, <1>3, <1>6 DEF Agrees
  <1> QED
    BY <1>5, <1>7 DEF c, m

LEMMA CalendarAgrees ==
    ASSUME NEW data, Findings(data), NEW D \in Nat, NEW family \in Families
    PROVE  /\ Sound(CalendarFeatures(family, data))
           /\ Agrees(CalendarFeatures(family, Cut(data, D)), CalendarFeatures(family, data), RowStamp(D))
  <1> DEFINE c == Cut(data, D)
             m == RowStamp(D)
             V == data.releases[family] \cap data.content
             W == c.releases[family] \cap c.content
             Seen(S, t) == IF Earlier(S, t) = {} THEN {t} ELSE {t, Max(Earlier(S, t))}
  <1>1. /\ V \in SUBSET Nat /\ W = By(V, m) /\ m \in Nat
        /\ \A t \in Nat : t <= m => Earlier(W, t) = Earlier(V, t)
    BY PanelOfCut
  <1>2. /\ CalendarFeatures(family, data) = [t \in V |-> Seen(V, t)]
        /\ CalendarFeatures(family, c) = [t \in W |-> Seen(W, t)]
    BY DEF CalendarFeatures
  <1> HIDE DEF c, m, V, W
  <1>3. ASSUME NEW t \in V
        PROVE  Seen(V, t) \in SUBSET Nat /\ \A x \in Seen(V, t) : x <= t
    <2>1. t \in Nat /\ Earlier(V, t) \in SUBSET Nat /\ \A x \in Earlier(V, t) : x <= t
      <3>1. t \in Nat
        BY <1>1
      <3>2. \A x \in Earlier(V, t) : x \in V /\ x < t
        BY DEF Earlier
      <3>3. \A x \in Earlier(V, t) : x \in Nat
        BY <1>1, <3>2
      <3> QED
        BY <3>1, <3>2, <3>3
    <2>2. Earlier(V, t) # {} => Max(Earlier(V, t)) \in Earlier(V, t)
      BY <2>1, MaxIs
    <2> QED
      BY <2>1, <2>2
  <1>4. Sound(CalendarFeatures(family, data))
    <2> HIDE DEF Seen
    <2> QED
      BY <1>1, <1>2, <1>3 DEF Sound
  <1>5. \A t \in W : t \in V /\ t <= m /\ t \in Nat
    BY <1>1 DEF By
  <1>6. \A t \in W : Seen(W, t) = Seen(V, t)
    BY <1>1, <1>5
  <1>7. Agrees(CalendarFeatures(family, c), CalendarFeatures(family, data), m)
    <2> HIDE DEF Seen
    <2> QED
      BY <1>1, <1>2, <1>5, <1>6 DEF Agrees
  <1> QED
    BY <1>4, <1>7 DEF c, m

LEMMA OpecAgrees ==
    ASSUME NEW data, Findings(data), NEW D \in Nat
    PROVE  Sound(OpecFeatures(data)) /\ Agrees(OpecFeatures(Cut(data, D)), OpecFeatures(data), RowStamp(D))
  <1> DEFINE c == Cut(data, D)
             m == RowStamp(D)
             V == data.releases["opec_ministerial"] \cap data.content
             W == c.releases["opec_ministerial"] \cap c.content
  <1>1. "opec_ministerial" \in Families
    BY DEF Families, FamiliesOf
  <1>2. V \in SUBSET Nat /\ W = By(V, m) /\ m \in Nat
    BY <1>1, PanelOfCut
  <1>3. OpecFeatures(data) = [t \in V |-> {t}] /\ OpecFeatures(c) = [t \in W |-> {t}]
    BY DEF OpecFeatures
  <1> HIDE DEF c, m, V, W
  <1>4. Sound(OpecFeatures(data))
    <2> DEFINE F == OpecFeatures(data)
    <2>1. DOMAIN F \in SUBSET Nat /\ \A t \in DOMAIN F : F[t] = {t} /\ t \in Nat
      BY <1>2, <1>3
    <2> HIDE DEF F
    <2>2. \A t \in DOMAIN F : F[t] \in SUBSET Nat /\ \A x \in F[t] : x <= t
      BY <2>1
    <2>3. Sound(F)
      BY <2>1, <2>2 DEF Sound
    <2> QED
      BY <2>3 DEF F
  <1>5. Agrees(OpecFeatures(c), OpecFeatures(data), m)
    BY <1>2, <1>3 DEF Agrees, By
  <1> QED
    BY <1>4, <1>5 DEF c, m

-----------------------------------------------------------------------------
(***************************************************************************)
(* The rows an audit is made of: each is at an anchor that was kept, rests *)
(* on nothing stamped later, and is the same row in an earlier audit.      *)
(***************************************************************************)

LEMMA ReleasesOnAre ==
    ASSUME NEW data, Findings(data), NEW d, NEW F, Sound(F)
    PROVE  /\ ReleasesOn(F, d, data) = {t \in DOMAIN F : IsAnchor(Prices(data), t, d)}
           /\ \A t \in ReleasesOn(F, d, data) : t \in DOMAIN F /\ t \in Nat /\ t <= RowStamp(d)
  <1>1. DOMAIN F \in SUBSET Nat /\ Ending(Prices(data))
    BY DEF Sound, Findings
  <1>2. \A t \in DOMAIN F : (One!HasAnchor(Prices(data), t) /\ One!Anchor(Prices(data), t) = d)
                                <=> IsAnchor(Prices(data), t, d)
    <2> TAKE t \in DOMAIN F
    <2>1. t \in Nat
      BY <1>1
    <2> QED
      BY <1>1, <2>1, AnchorIs
  <1>3. ReleasesOn(F, d, data) = {t \in DOMAIN F : IsAnchor(Prices(data), t, d)}
    BY <1>2 DEF ReleasesOn
  <1> QED
    BY <1>1, <1>3 DEF IsAnchor

LEMMA ReleasesOnOfCut ==
    ASSUME NEW data, Findings(data), NEW D \in Nat, NEW d \in Nat, d <= D,
           NEW F, NEW G, Sound(F), Agrees(G, F, RowStamp(D))
    PROVE  ReleasesOn(G, d, Cut(data, D)) = ReleasesOn(F, d, data)
  <1> DEFINE c == Cut(data, D)
  <1>1. Sound(G)
    BY DEF Sound, Agrees, By
  <1>2. Findings(c) /\ Prices(c) = Upto(Prices(data), D)
    BY CutIs
  <1> HIDE DEF c
  <1>3. \A t : IsAnchor(Prices(c), t, d) <=> IsAnchor(Prices(data), t, d)
    BY <1>2, AnchorOfCut DEF Findings, Ending
  <1>4. ReleasesOn(G, d, c) = {t \in DOMAIN G : IsAnchor(Prices(c), t, d)}
        /\ ReleasesOn(F, d, data) = {t \in DOMAIN F : IsAnchor(Prices(data), t, d)}
    BY <1>1, <1>2, ReleasesOnAre
  <1>5. \A t \in DOMAIN F : IsAnchor(Prices(data), t, d) => t \in DOMAIN G
    <2> TAKE t \in DOMAIN F
    <2> HAVE IsAnchor(Prices(data), t, d)
    <2>1. t <= RowStamp(d) /\ t \in Nat
      BY DEF IsAnchor, Sound
    <2>2. RowStamp(d) \in Nat /\ RowStamp(D) \in Nat /\ RowStamp(d) <= RowStamp(D)
      BY StampsOrdered
    <2> QED
      BY <2>1, <2>2 DEF Agrees, By
  <1>6. DOMAIN G \subseteq DOMAIN F
    BY DEF Agrees, By
  <1>7. ReleasesOn(G, d, c) = ReleasesOn(F, d, data)
    BY <1>3, <1>4, <1>5, <1>6
  <1> QED
    BY <1>7 DEF c

\* The release that counts on an anchor.
Counting(on, keepLast) == IF keepLast THEN Max(on) ELSE Min(on)

LEMMA CountingIs ==
    ASSUME NEW on \in SUBSET Nat, on # {}, NEW b \in Nat, \A t \in on : t <= b, NEW keepLast
    PROVE  Counting(on, keepLast) \in on
  <1>1. Max(on) \in on
    BY MaxIs
  <1>2. Min(on) \in on
    <2>1. on \in SUBSET Int /\ 0 \in Int /\ \A t \in on : 0 <= t
      OBVIOUS
    <2> QED
      BY <2>1, MinIs
  <1> QED
    BY <1>1, <1>2 DEF Counting

\* The row that the lagged return starts from.
LEMMA LagDayExists ==
    ASSUME NEW P, Ending(P), NEW d \in Nat, NEW n \in Nat, n # 0, Cardinality(Earlier(P, d)) >= n
    PROVE  \E x \in Earlier(P, d) : Cardinality(Between(P, x, d)) = n
  <1> DEFINE S == Earlier(P, d)
  <1>1. S \in SUBSET Nat /\ S \subseteq P /\ \A x \in S : x <= d
    <2>1. \A x \in S : x \in P /\ x < d
      BY DEF Earlier
    <2>2. \A x \in P : x \in Nat
      BY DEF Ending
    <2> QED
      BY <2>1, <2>2
  <1>2. IsFiniteSet(S) /\ Cardinality(S) \in Nat
    BY <1>1, BetweenFinite, FS_Subset, FS_CardinalityType
  <1> DEFINE k == Cardinality(S) - n
  <1>3. k \in Nat /\ Cardinality(S) > k
    BY <1>2
  <1>4. S = {y \in P : y < d}
    BY DEF Earlier
  <1> HIDE DEF S
  <1>5. PICK x \in S : Cardinality({y \in S : y < x}) = k
    <2> HIDE DEF k
    <2> QED
      BY <1>1, <1>3, NthDay
  <1> DEFINE Low == {y \in S : y < x}
             High == Between(P, x, d)
  <1>6. x \in Nat /\ Low \cap High = {} /\ Low \cup High = S
    <2>1. x \in Nat /\ \A y \in P : y \in Nat /\ (y < x \/ x <= y)
      BY <1>1 DEF Ending
    <2>2. \A y \in P : y < x => y < d
      BY <1>1, <1>4, <1>5, <2>1
    <2>3. \A y \in P : ~(y < x /\ x <= y)
      BY <2>1
    <2> QED
      BY <1>4, <2>1, <2>2, <2>3 DEF Between
  <1>7. IsFiniteSet(Low) /\ IsFiniteSet(High) /\ Cardinality(High) \in Nat
    <2>1. Low \subseteq S /\ High \subseteq S
      BY <1>6
    <2> HIDE DEF Low, High
    <2> QED
      BY <1>2, <2>1, FS_Subset, FS_CardinalityType
  <1>8. Cardinality(S) = Cardinality(Low) + Cardinality(High)
    <2> HIDE DEF Low, High
    <2>1. Cardinality(Low \cup High) = Cardinality(Low) + Cardinality(High) - Cardinality(Low \cap High)
      BY <1>7, FS_Union
    <2>2. Cardinality(Low) \in Nat
      BY <1>7, FS_CardinalityType
    <2>3. Cardinality(Low \cap High) = 0
      BY <1>6, FS_EmptySet
    <2>4. Cardinality(S) = Cardinality(Low \cup High)
      BY <1>6
    <2>5. Cardinality(High) \in Nat
      BY <1>7
    <2> QED
      BY <2>1, <2>2, <2>3, <2>4, <2>5
  <1>9. Cardinality(High) = n
    BY <1>2, <1>5, <1>7, <1>8
  <1> QED
    BY <1>5, <1>9 DEF S

LagDay(P, d) == CHOOSE x \in Earlier(P, d) : Cardinality(Between(P, x, d)) = LagRows

LEMMA LaggedReturnIs ==
    ASSUME NEW data, Findings(data), NEW d \in Nat
    PROVE  /\ LaggedReturnRows(d, data) = {RowStamp(d), RowStamp(LagDay(Prices(data), d))}
           /\ HasLaggedReturn(d, data) =>
                 \A t \in LaggedReturnRows(d, data) : t \in Nat /\ t <= RowStamp(d)
  <1> DEFINE P == Prices(data)
  <1>1. Ending(P) /\ LagRows \in Nat /\ LagRows # 0
    BY AuditNumbers DEF Findings
  <1>2. LaggedReturnRows(d, data) = {RowStamp(d), RowStamp(LagDay(P, d))}
    BY DEF LaggedReturnRows, LagDay, Between
  <1> HIDE DEF P
  <1>3. ASSUME HasLaggedReturn(d, data)
        PROVE  RowStamp(LagDay(P, d)) \in Nat /\ RowStamp(LagDay(P, d)) <= RowStamp(d)
    <2>1. Cardinality(Earlier(P, d)) >= LagRows
      BY <1>3 DEF HasLaggedReturn, P
    <2>2. LagDay(P, d) \in Earlier(P, d)
      BY <1>1, <2>1, LagDayExists DEF LagDay
    <2>3. LagDay(P, d) \in Nat /\ LagDay(P, d) <= d
      <3>1. LagDay(P, d) \in P /\ LagDay(P, d) < d
        BY <2>2 DEF Earlier
      <3>2. \A x \in P : x \in Nat
        BY <1>1 DEF Ending
      <3> QED
        BY <3>1, <3>2
    <2> QED
      BY <2>3, StampsOrdered
  <1>4. RowStamp(d) \in Nat /\ RowStamp(d) <= RowStamp(d)
    BY StampsOrdered
  <1> QED
    BY <1>2, <1>3, <1>4 DEF P

LEMMA LaggedReturnOfCut ==
    ASSUME NEW data, Findings(data), NEW D \in Nat, NEW d \in Nat, d <= D
    PROVE  /\ HasLaggedReturn(d, Cut(data, D)) <=> HasLaggedReturn(d, data)
           /\ LaggedReturnRows(d, Cut(data, D)) = LaggedReturnRows(d, data)
           /\ Earlier(Prices(Cut(data, D)), d) = Earlier(Prices(data), d)
  <1> DEFINE c == Cut(data, D)
             P == Prices(data)
             Q == Prices(c)
  <1>1. Findings(c) /\ Q = Upto(P, D) /\ P \in SUBSET Nat
    BY CutIs DEF Findings, Ending
  <1> HIDE DEF c
  <1>2. \A y \in P : y < d => y <= D
    BY <1>1
  <1>3. Earlier(Q, d) = Earlier(P, d)
    BY <1>1, <1>2 DEF Earlier, Upto
  <1>4. \A x : Between(Q, x, d) = Between(P, x, d)
    BY <1>1, <1>2 DEF Between, Upto
  <1>5. LagDay(Q, d) = LagDay(P, d)
    <2> HIDE DEF P, Q
    <2> QED
      BY <1>3, <1>4, SMT DEF LagDay
  <1>6. /\ LaggedReturnRows(d, data) = {RowStamp(d), RowStamp(LagDay(P, d))}
        /\ LaggedReturnRows(d, c) = {RowStamp(d), RowStamp(LagDay(Q, d))}
    BY <1>1, LaggedReturnIs
  <1> QED
    BY <1>3, <1>5, <1>6 DEF HasLaggedReturn, c

\* The anchors an audit keeps.
LEMMA NamesAre ==
    ASSUME NEW name \in AuditNames
    PROVE  FamiliesOf(name) \in SUBSET Families /\ HorizonOf(name) \in {1, LongHorizon}
           /\ (name # "wti_lag" => HorizonOf(name) = LongHorizon)
  BY DEF AuditNames, FamiliesOf, Families, HorizonOf

LEMMA KeptIs ==
    ASSUME NEW data, Findings(data), NEW name \in AuditNames
    PROVE  LET kept == Kept(name, data)
               h == HorizonOf(name)
           IN  /\ kept \in SUBSET Nat /\ kept \subseteq Prices(data) /\ Ending(kept)
               /\ \A d \in kept : \E e \in Prices(data) : IsEnd(Prices(data), d, e, h)
               /\ \A x, y \in kept : x < y => y - x > 2 * h
               /\ h \in {1, LongHorizon} /\ h \in Nat
               /\ \A a, D : SeenFrom(data, h, a, D) =>
                     Kept(name, Cut(data, D)) = {d \in kept : d <= a}
  <1> DEFINE P == Prices(data)
             h == HorizonOf(name)
             families == FamiliesOf(name)
             days == {d \in Observed(Times(families, data), P, h) : d >= data.since}
             kept == Kept(name, data)
  <1>1. families \in SUBSET Families /\ h \in {1, LongHorizon} /\ Ending(P)
    BY NamesAre DEF Findings
  <1> HIDE DEF h, families, P
  <1>2. /\ KeptAnchors(h, families, data) = Thinned(days, 2 * h)
        /\ Ending(days) /\ 2 * h \in Nat /\ h \in Nat /\ Thinned(days, 2 * h) \subseteq days
    BY <1>1, KeptAnchorsAre DEF P
  <1>3. kept = KeptAnchors(h, families, data)
    BY DEF Kept, h, families
  <1>4. days \subseteq Observed(Times(families, data), P, h)
    OBVIOUS
  <1>5. \A x, y \in Thinned(days, 2 * h) : x < y => y - x > 2 * h
    <2> HIDE DEF days
    <2> QED
      BY <1>2, ThinnedApart
  <1> HIDE DEF days, kept
  <1>6. \A d \in kept : d \in P /\ \E e \in P : IsEnd(P, d, e, h)
    BY <1>2, <1>3, <1>4 DEF Observed
  <1>7. kept \in SUBSET Nat /\ kept \subseteq P /\ Ending(kept)
    <2>1. P \in SUBSET Nat /\ \E n \in Nat : \A x \in P : x <= n
      BY <1>1 DEF Ending
    <2>2. kept \subseteq P
      BY <1>6
    <2>3. kept \in SUBSET Nat /\ \E n \in Nat : \A x \in kept : x <= n
      BY <2>1, <2>2
    <2> QED
      BY <2>2, <2>3 DEF Ending
  <1>8. ASSUME NEW a, NEW D, SeenFrom(data, h, a, D)
        PROVE  Kept(name, Cut(data, D)) = {d \in kept : d <= a}
    <2>1. KeptAnchors(h, families, Cut(data, D)) = {d \in KeptAnchors(h, families, data) : d <= a}
      BY <1>1, <1>8, KeptOfCut
    <2> QED
      BY <1>3, <2>1 DEF Kept, h, families
  <1> QED
    BY <1>1, <1>2, <1>3, <1>5, <1>6, <1>7, <1>8 DEF h, P, kept

\* An earlier audit sees the same outcome if the label had ended.
LEMMA SeenIs ==
    ASSUME NEW data, Findings(data), NEW h, NEW a, NEW D, SeenFrom(data, h, a, D)
    PROVE  a \in Nat /\ D \in Nat /\ a <= D /\ D \in Prices(data) /\ h \in Nat
  BY AuditNumbers DEF SeenFrom, IsEnd, Findings, Ending

LEMMA PositiveOfCut ==
    ASSUME NEW data, Findings(data), NEW h, NEW a, NEW D, SeenFrom(data, h, a, D),
           NEW d \in Prices(data), d <= a, NEW e \in Prices(data), IsEnd(Prices(data), d, e, h)
    PROVE  Positive(h, d, Cut(data, D)) = Positive(h, d, data)
  <1> DEFINE c == Cut(data, D)
             P == Prices(data)
             Q == Prices(c)
  <1>1. /\ P \in SUBSET Nat /\ Ending(P) /\ a \in Nat /\ D \in Nat /\ a <= D /\ d \in Nat /\ e \in Nat
        /\ h \in {1, LongHorizon} /\ h \in Nat /\ IsEnd(P, a, D, h)
    BY SeenIs DEF SeenFrom, Findings, Ending
  <1>2. e <= D
    BY <1>1, EndsOrdered
  <1>3. Findings(c) /\ Q = Upto(P, D) /\ \A x \in Q : c.price[x] = data.price[x]
    BY <1>1, CutIs
  <1>4. Ending(Q)
    BY <1>3 DEF Findings
  <1>5. IsEnd(Q, d, e, h)
    BY <1>1, <1>2, <1>3, EndOfCut
  <1>6. LabelEnd(h, d, data) = e /\ LabelEnd(h, d, c) = e
    <2> HIDE DEF c
    <2> QED
      BY <1>1, <1>4, <1>5, LabelEndIs
  <1>7. c.price[e] = data.price[e] /\ c.price[d] = data.price[d]
    <2>1. e \in Q /\ d \in Q
      BY <1>1, <1>2, <1>3 DEF Upto
    <2> QED
      BY <1>3, <2>1
  <1> QED
    BY <1>6, <1>7 DEF Positive

\* A row for an anchor.
RowAt(d, F, keepLast, data) ==
    EventRow(d, F[Counting(ReleasesOn(F, d, data), keepLast)] \cup LaggedReturnRows(d, data),
             LongHorizon, data)
RowDays(kept, F, data) == {x \in kept : ReleasesOn(F, x, data) # {} /\ HasLaggedReturn(x, data)}

LEMMA ReleaseRowsAre ==
    ASSUME NEW data, NEW kept, NEW F, NEW keepLast
    PROVE  ReleaseRows(kept, F, keepLast, data) =
              {RowAt(d, F, keepLast, data) : d \in RowDays(kept, F, data)}
  BY DEF ReleaseRows, RowAt, RowDays, Counting

LEMMA EventRowIs ==
    ASSUME NEW d, NEW reads, NEW h, NEW data
    PROVE  LET r == EventRow(d, reads, h, data)
           IN  r.day = d /\ r.reads = reads /\ r.positive = Positive(h, d, data) /\ r.copy = 1
  BY DEF EventRow

\* Rows at kept anchors that rest on nothing stamped later.
Placed(rows, kept) ==
    \A r \in rows : r.day \in kept /\ \A t \in r.reads : t <= RowStamp(r.day)
Narrowed(rows, a) == {r \in rows : r.day <= a}

\* A row of day d rests on what was stamped by then.
Rests(r, d) == r.day = d /\ \A t \in r.reads : t <= RowStamp(d)

LEMMA RowAtIs ==
    ASSUME NEW data, Findings(data), NEW kept \in SUBSET Nat, NEW F, Sound(F), NEW keepLast,
           NEW d \in RowDays(kept, F, data)
    PROVE  /\ Rests(RowAt(d, F, keepLast, data), d)
           /\ Counting(ReleasesOn(F, d, data), keepLast) \in ReleasesOn(F, d, data)
  <1> DEFINE on == ReleasesOn(F, d, data)
             t0 == Counting(on, keepLast)
  <1>1. d \in Nat /\ on # {} /\ HasLaggedReturn(d, data) /\ RowStamp(d) \in Nat
    <2>1. d \in Nat /\ on # {} /\ HasLaggedReturn(d, data)
      BY DEF RowDays
    <2> QED
      BY <2>1, StampsOrdered
  <1>2. \A t \in on : t \in DOMAIN F /\ t \in Nat /\ t <= RowStamp(d)
    BY ReleasesOnAre
  <1> HIDE DEF on
  <1>3. t0 \in on
    <2>1. on \in SUBSET Nat
      BY <1>2
    <2> QED
      BY <1>1, <1>2, <2>1, CountingIs
  <1>4. t0 \in DOMAIN F /\ t0 \in Nat /\ t0 <= RowStamp(d)
    BY <1>2, <1>3
  <1> HIDE DEF t0
  <1>5. F[t0] \in SUBSET Nat /\ \A t \in F[t0] : t <= t0
    BY <1>4 DEF Sound
  <1>6. \A t \in F[t0] : t <= RowStamp(d)
    <2> TAKE t \in F[t0]
    <2>1. t \in Nat /\ t <= t0
      BY <1>5
    <2> QED
      BY <1>1, <1>4, <2>1
  <1>7. \A t \in LaggedReturnRows(d, data) : t <= RowStamp(d)
    BY <1>1, LaggedReturnIs
  <1>8. RowAt(d, F, keepLast, data) = EventRow(d, F[t0] \cup LaggedReturnRows(d, data), LongHorizon, data)
    BY DEF RowAt, t0, on
  <1>9. RowAt(d, F, keepLast, data).day = d
        /\ RowAt(d, F, keepLast, data).reads = F[t0] \cup LaggedReturnRows(d, data)
    BY <1>8, EventRowIs
  <1> QED
    BY <1>3, <1>6, <1>7, <1>9 DEF Rests, t0, on

LEMMA ReleaseRowsPlaced ==
    ASSUME NEW data, Findings(data), NEW kept \in SUBSET Nat, NEW F, Sound(F), NEW keepLast
    PROVE  Placed(ReleaseRows(kept, F, keepLast, data), kept)
  <1>1. ASSUME NEW r \in ReleaseRows(kept, F, keepLast, data)
        PROVE  r.day \in kept /\ \A t \in r.reads : t <= RowStamp(r.day)
    <2>1. PICK d \in RowDays(kept, F, data) : r = RowAt(d, F, keepLast, data)
      BY ReleaseRowsAre
    <2>2. d \in kept
      BY DEF RowDays
    <2>3. Rests(RowAt(d, F, keepLast, data), d)
      BY RowAtIs
    <2> QED
      BY <2>1, <2>2, <2>3 DEF Rests
  <1> QED
    BY <1>1 DEF Placed

\* The anchors whose labels had ended.
Labelled(data, h, kept) ==
    kept \in SUBSET Nat /\ \A d \in kept : d \in Prices(data) /\ \E e \in Prices(data) : IsEnd(Prices(data), d, e, h)

LEMMA ReleaseRowsOfCut ==
    ASSUME NEW data, Findings(data), NEW a, NEW D, SeenFrom(data, LongHorizon, a, D),
           NEW kept, Labelled(data, LongHorizon, kept), NEW F, NEW G, Sound(F), Agrees(G, F, RowStamp(D)),
           NEW keepLast
    PROVE  ReleaseRows({d \in kept : d <= a}, G, keepLast, Cut(data, D))
             = Narrowed(ReleaseRows(kept, F, keepLast, data), a)
  <1> DEFINE c == Cut(data, D)
             few == {d \in kept : d <= a}
             Few == RowDays(few, G, c)
             All == RowDays(kept, F, data)
  <1>1. a \in Nat /\ D \in Nat /\ a <= D /\ kept \in SUBSET Nat
    BY SeenIs DEF Labelled
  <1>2. ASSUME NEW d \in few
        PROVE  /\ ReleasesOn(G, d, c) = ReleasesOn(F, d, data)
               /\ HasLaggedReturn(d, c) <=> HasLaggedReturn(d, data)
               /\ LaggedReturnRows(d, c) = LaggedReturnRows(d, data)
               /\ Positive(LongHorizon, d, c) = Positive(LongHorizon, d, data)
    <2>1. d \in Nat /\ d <= D /\ d <= a /\ d \in Prices(data)
          /\ \E e \in Prices(data) : IsEnd(Prices(data), d, e, LongHorizon)
      BY <1>1 DEF Labelled
    <2>2. PICK e \in Prices(data) : IsEnd(Prices(data), d, e, LongHorizon)
      BY <2>1
    <2>3. ReleasesOn(G, d, c) = ReleasesOn(F, d, data)
      BY <1>1, <2>1, ReleasesOnOfCut
    <2>4. /\ HasLaggedReturn(d, c) <=> HasLaggedReturn(d, data)
          /\ LaggedReturnRows(d, c) = LaggedReturnRows(d, data)
      BY <1>1, <2>1, LaggedReturnOfCut
    <2>5. Positive(LongHorizon, d, c) = Positive(LongHorizon, d, data)
      BY <2>1, <2>2, PositiveOfCut
    <2> QED
      BY <2>3, <2>4, <2>5
  <1> HIDE DEF c
  <1>3. Few = {d \in All : d <= a}
    BY <1>2 DEF RowDays
  <1>4. ASSUME NEW d \in Few
        PROVE  RowAt(d, G, keepLast, c) = RowAt(d, F, keepLast, data)
    <2> DEFINE t0 == Counting(ReleasesOn(F, d, data), keepLast)
    <2>1. d \in few /\ d \in All
      BY <1>3 DEF RowDays
    <2>2. t0 \in ReleasesOn(F, d, data)
      BY <1>1, <2>1, RowAtIs
    <2>3. t0 \in DOMAIN G
      BY <1>2, <2>1, <2>2 DEF ReleasesOn
    <2> HIDE DEF t0
    <2>4. G[t0] = F[t0]
      BY <2>3 DEF Agrees
    <2>5. RowAt(d, G, keepLast, c) = EventRow(d, G[t0] \cup LaggedReturnRows(d, data), LongHorizon, c)
      BY <1>2, <2>1 DEF RowAt, t0
    <2>6. RowAt(d, F, keepLast, data) = EventRow(d, F[t0] \cup LaggedReturnRows(d, data), LongHorizon, data)
      BY DEF RowAt, t0
    <2> QED
      BY <1>2, <2>1, <2>4, <2>5, <2>6 DEF EventRow
  <1>5. ASSUME NEW d \in All
        PROVE  RowAt(d, F, keepLast, data).day = d
    <2>1. d \in RowDays(kept, F, data)
      OBVIOUS
    <2>2. Rests(RowAt(d, F, keepLast, data), d)
      BY <1>1, <2>1, RowAtIs
    <2> QED
      BY <2>2 DEF Rests
  <1>6. ReleaseRows(few, G, keepLast, c) = {RowAt(d, G, keepLast, c) : d \in Few}
        /\ ReleaseRows(kept, F, keepLast, data) = {RowAt(d, F, keepLast, data) : d \in All}
    BY ReleaseRowsAre
  <1> HIDE DEF few, Few, All
  <1>7. ReleaseRows(few, G, keepLast, c) = Narrowed(ReleaseRows(kept, F, keepLast, data), a)
    BY <1>3, <1>4, <1>5, <1>6 DEF Narrowed
  <1> QED
    BY <1>7 DEF few, c

\* What holds of the rows of every audit.
RowsAgree(name, rows, few, data, D) ==
    /\ Placed(rows, Kept(name, data))
    /\ \A a : SeenFrom(data, HorizonOf(name), a, D) => few = Narrowed(rows, a)

LEMMA ReleaseAuditAgrees ==
    ASSUME NEW data, Findings(data), NEW D \in Nat, NEW name \in AuditNames, name # "wti_lag",
           NEW F, NEW G, Sound(F), Agrees(G, F, RowStamp(D)), NEW keepLast
    PROVE  RowsAgree(name, ReleaseRows(Kept(name, data), F, keepLast, data),
                     ReleaseRows(Kept(name, Cut(data, D)), G, keepLast, Cut(data, D)), data, D)
  <1> DEFINE kept == Kept(name, data)
             rows == ReleaseRows(kept, F, keepLast, data)
             few == ReleaseRows(Kept(name, Cut(data, D)), G, keepLast, Cut(data, D))
  <1>1. /\ kept \in SUBSET Nat /\ kept \subseteq Prices(data) /\ HorizonOf(name) = LongHorizon
        /\ \A d \in kept : \E e \in Prices(data) : IsEnd(Prices(data), d, e, LongHorizon)
        /\ \A a : SeenFrom(data, LongHorizon, a, D) => Kept(name, Cut(data, D)) = {d \in kept : d <= a}
    BY KeptIs, NamesAre
  <1> HIDE DEF kept
  <1>2. Placed(rows, kept)
    BY <1>1, ReleaseRowsPlaced
  <1>3. Labelled(data, LongHorizon, kept)
    BY <1>1 DEF Labelled
  <1>4. ASSUME NEW a, SeenFrom(data, LongHorizon, a, D)
        PROVE  few = Narrowed(rows, a)
    BY <1>1, <1>3, <1>4, ReleaseRowsOfCut
  <1> HIDE DEF rows, few
  <1>5. RowsAgree(name, rows, few, data, D)
    BY <1>1, <1>2, <1>4 DEF RowsAgree, kept
  <1> QED
    BY <1>5 DEF rows, few, kept

\* The WPSR audit's copies.
LEMMA CopiesAre ==
    ASSUME NEW data, NEW d, NEW reads, NEW n
    PROVE  LET r == [EventRow(d, reads, LongHorizon, data) EXCEPT !.copy = n]
           IN  r = [day |-> d, reads |-> reads, positive |-> Positive(LongHorizon, d, data), copy |-> n]
  BY DEF EventRow

LEMMA WpsrRowsAgree ==
    ASSUME NEW data, Findings(data), NEW D \in Nat
    PROVE  RowsAgree("wpsr", WpsrRows(data), WpsrRows(Cut(data, D)), data, D)
  <1> DEFINE c == Cut(data, D)
             kept == Kept("wpsr", data)
             single == ReleaseRows(Kept("wpsr", data), WpsrFeatures(data), TRUE, data)
             singleOfCut == ReleaseRows(Kept("wpsr", c), WpsrFeatures(c), TRUE, c)
             h == HorizonOf("wpsr")
             Copy(r, n) == [r EXCEPT !.copy = n]
  <1>1. "wpsr" \in AuditNames /\ "wpsr" \in Families /\ "wpsr" # "wti_lag"
    BY DEF AuditNames, Families, FamiliesOf
  <1>2. Sound(WpsrFeatures(data)) /\ Agrees(WpsrFeatures(c), WpsrFeatures(data), RowStamp(D))
    BY WpsrAgrees
  <1>3. RowsAgree("wpsr", single, singleOfCut, data, D)
    BY <1>1, <1>2, ReleaseAuditAgrees
  <1>4. \A r \in single : \A n : /\ Copy(r, n).day = r.day /\ Copy(r, n).reads = r.reads
    <2> TAKE r \in single
    <2>1. PICK d \in RowDays(kept, WpsrFeatures(data), data) : r = RowAt(d, WpsrFeatures(data), TRUE, data)
      BY ReleaseRowsAre
    <2> DEFINE reads == WpsrFeatures(data)[Counting(ReleasesOn(WpsrFeatures(data), d, data), TRUE)]
                           \cup LaggedReturnRows(d, data)
    <2>2. r = EventRow(d, reads, LongHorizon, data)
      BY <2>1 DEF RowAt
    <2> HIDE DEF reads
    <2>3. r.day = d /\ r.reads = reads
      BY <2>2, EventRowIs
    <2>4. \A n : Copy(r, n).day = d /\ Copy(r, n).reads = reads
      <3> TAKE n
      <3> DEFINE e == EventRow(d, reads, LongHorizon, data)
      <3>1. [e EXCEPT !.copy = n] = [day |-> d, reads |-> reads,
                                     positive |-> Positive(LongHorizon, d, data), copy |-> n]
        BY CopiesAre
      <3>2. Copy(r, n) = [e EXCEPT !.copy = n]
        BY <2>2
      <3> HIDE DEF e, Copy
      <3> QED
        BY <3>1, <3>2
    <2> QED
      BY <2>3, <2>4
  <1>5. ASSUME NEW a, SeenFrom(data, h, a, D), NEW d \in Nat, d <= a
        PROVE  ObservedOn(d, c) = ObservedOn(d, data)
    <2>1. a \in Nat /\ a <= D /\ d <= D
      BY <1>5, SeenIs
    <2>2. /\ Findings(c) /\ Prices(c) = Upto(Prices(data), D) /\ Ending(Prices(data)) /\ Ending(Prices(c))
          /\ data.releases["wpsr"] \in SUBSET Nat
          /\ c.releases["wpsr"] = By(data.releases["wpsr"], RowStamp(D))
      <3>1. Findings(c) /\ Prices(c) = Upto(Prices(data), D)
        BY CutIs
      <3>2. /\ data.releases["wpsr"] \in SUBSET Nat
            /\ c.releases["wpsr"] = By(data.releases["wpsr"], RowStamp(D))
        BY <1>1, ReleasesAre
      <3> QED
        BY <3>1, <3>2 DEF Findings
    <2> HIDE DEF c
    <2>3. \A t \in data.releases["wpsr"] :
             (One!HasAnchor(Prices(data), t) /\ One!Anchor(Prices(data), t) = d) <=> IsAnchor(Prices(data), t, d)
      BY <2>2, AnchorIs
    <2>4. \A t \in c.releases["wpsr"] :
             (One!HasAnchor(Prices(c), t) /\ One!Anchor(Prices(c), t) = d) <=> IsAnchor(Prices(c), t, d)
      BY <2>2, AnchorIs DEF By
    <2>5. \A t : IsAnchor(Prices(c), t, d) <=> IsAnchor(Prices(data), t, d)
      BY <2>1, <2>2, AnchorOfCut DEF Ending
    <2>6. \A t \in data.releases["wpsr"] : IsAnchor(Prices(data), t, d) => t \in c.releases["wpsr"]
      <3> TAKE t \in data.releases["wpsr"]
      <3> HAVE IsAnchor(Prices(data), t, d)
      <3>1. t <= RowStamp(d) /\ t \in Nat
        BY <2>2 DEF IsAnchor
      <3>2. RowStamp(d) \in Nat /\ RowStamp(D) \in Nat /\ RowStamp(d) <= RowStamp(D)
        BY <2>1, StampsOrdered
      <3> QED
        BY <2>2, <3>1, <3>2 DEF By
    <2>7. c.releases["wpsr"] \subseteq data.releases["wpsr"]
      BY <2>2 DEF By
    <2>8. {t \in c.releases["wpsr"] : One!HasAnchor(Prices(c), t) /\ One!Anchor(Prices(c), t) = d}
            = {t \in data.releases["wpsr"] : One!HasAnchor(Prices(data), t) /\ One!Anchor(Prices(data), t) = d}
      BY <2>3, <2>4, <2>5, <2>6, <2>7
    <2> QED
      BY <2>8 DEF ObservedOn
  <1>6. /\ WpsrRows(data) = UNION {{Copy(r, n) : n \in 1..ObservedOn(r.day, data)} : r \in single}
        /\ WpsrRows(c) = UNION {{Copy(r, n) : n \in 1..ObservedOn(r.day, c)} : r \in singleOfCut}
    BY DEF WpsrRows
  <1>7. kept \in SUBSET Nat
    BY <1>1, KeptIs
  <1> HIDE DEF c, single, singleOfCut, h, kept, Copy
  <1>8. Placed(single, kept) /\ \A a : SeenFrom(data, h, a, D) => singleOfCut = Narrowed(single, a)
    BY <1>3 DEF RowsAgree, kept, h
  <1>9. \A r \in WpsrRows(data) : \E x \in single : \E n \in 1..ObservedOn(x.day, data) : r = Copy(x, n)
    BY <1>6
  <1>10. Placed(WpsrRows(data), kept)
    <2>1. ASSUME NEW r \in WpsrRows(data)
          PROVE  r.day \in kept /\ \A t \in r.reads : t <= RowStamp(r.day)
      <3>1. PICK x \in single : \E n \in 1..ObservedOn(x.day, data) : r = Copy(x, n)
        BY <1>9
      <3>2. r.day = x.day /\ r.reads = x.reads
        BY <1>4, <3>1
      <3> QED
        BY <1>8, <3>1, <3>2 DEF Placed
    <2> QED
      BY <2>1 DEF Placed
  <1>11. ASSUME NEW a, SeenFrom(data, h, a, D)
         PROVE  WpsrRows(c) = Narrowed(WpsrRows(data), a)
    <2>1. singleOfCut = Narrowed(single, a)
      BY <1>8, <1>11
    <2>2. \A r \in singleOfCut : r \in single /\ r.day <= a /\ ObservedOn(r.day, c) = ObservedOn(r.day, data)
      <3> TAKE r \in singleOfCut
      <3>1. r \in single /\ r.day <= a
        BY <2>1 DEF Narrowed
      <3>2. r.day \in Nat
        BY <1>7, <1>8, <3>1 DEF Placed
      <3> QED
        BY <1>5, <1>11, <3>1, <3>2
    <2>3. ASSUME NEW r \in WpsrRows(c)
          PROVE  r \in WpsrRows(data) /\ r.day <= a
      <3>1. PICK x \in singleOfCut : \E n \in 1..ObservedOn(x.day, c) : r = Copy(x, n)
        BY <1>6
      <3>2. x \in single /\ x.day <= a /\ \E n \in 1..ObservedOn(x.day, data) : r = Copy(x, n)
        BY <2>2, <3>1
      <3>3. r.day = x.day
        BY <1>4, <3>2
      <3> QED
        BY <1>6, <3>2, <3>3
    <2>4. ASSUME NEW r \in WpsrRows(data), r.day <= a
          PROVE  r \in WpsrRows(c)
      <3>1. PICK x \in single : \E n \in 1..ObservedOn(x.day, data) : r = Copy(x, n)
        BY <1>9
      <3>2. r.day = x.day
        BY <1>4, <3>1
      <3>3. x \in singleOfCut
        BY <2>1, <2>4, <3>1, <3>2 DEF Narrowed
      <3>4. \E n \in 1..ObservedOn(x.day, c) : r = Copy(x, n)
        BY <2>2, <3>1, <3>3
      <3> QED
        BY <1>6, <3>3, <3>4
    <2> QED
      BY <2>3, <2>4 DEF Narrowed
  <1> QED
    BY <1>10, <1>11 DEF RowsAgree, c, kept, h

LEMMA FomcRowsAgree ==
    ASSUME NEW data, Findings(data), NEW D \in Nat
    PROVE  RowsAgree("fomc", FomcRows(data), FomcRows(Cut(data, D)), data, D)
  <1> DEFINE c == Cut(data, D)
             kept == Kept("fomc", data)
             h == HorizonOf("fomc")
             All == {x \in kept : HasLaggedReturn(x, data)}
             FomcRow(d) == EventRow(d, LaggedReturnRows(d, data), LongHorizon, data)
  <1>1. /\ kept \in SUBSET Nat /\ kept \subseteq Prices(data) /\ h = LongHorizon
        /\ \A d \in kept : \E e \in Prices(data) : IsEnd(Prices(data), d, e, h)
        /\ \A a : SeenFrom(data, h, a, D) => Kept("fomc", c) = {d \in kept : d <= a}
    <2>1. "fomc" \in AuditNames /\ "fomc" # "wti_lag"
      BY DEF AuditNames
    <2> QED
      BY <2>1, KeptIs, NamesAre
  <1>2. FomcRows(data) = {FomcRow(d) : d \in All}
    BY DEF FomcRows
  <1>3. \A d \in All : d \in kept /\ d \in Nat /\ HasLaggedReturn(d, data)
    BY <1>1
  <1>4. \A d : FomcRow(d).day = d /\ FomcRow(d).reads = LaggedReturnRows(d, data)
    BY EventRowIs
  <1>5. Placed(FomcRows(data), kept)
    <2>1. \A d \in All : \A t \in LaggedReturnRows(d, data) : t <= RowStamp(d)
      BY <1>3, LaggedReturnIs
    <2> HIDE DEF FomcRow, All
    <2>2. ASSUME NEW r \in FomcRows(data)
          PROVE  r.day \in kept /\ \A t \in r.reads : t <= RowStamp(r.day)
      <3>1. PICK d \in All : r = FomcRow(d)
        BY <1>2
      <3> QED
        BY <1>3, <1>4, <2>1, <3>1
    <2> QED
      BY <2>2 DEF Placed
  <1>6. ASSUME NEW a, SeenFrom(data, h, a, D)
        PROVE  FomcRows(c) = Narrowed(FomcRows(data), a)
    <2> DEFINE few == {d \in kept : d <= a}
               Few == {x \in few : HasLaggedReturn(x, c)}
               RowOfCut(d) == EventRow(d, LaggedReturnRows(d, c), LongHorizon, c)
    <2>1. FomcRows(c) = {RowOfCut(d) : d \in Few}
      BY <1>1, <1>6 DEF FomcRows
    <2>2. a \in Nat /\ a <= D
      BY <1>6, SeenIs
    <2>3. ASSUME NEW d \in few
          PROVE  /\ HasLaggedReturn(d, c) <=> HasLaggedReturn(d, data)
                 /\ RowOfCut(d) = FomcRow(d)
      <3>1. d \in Nat /\ d <= a /\ d <= D /\ d \in Prices(data)
            /\ \E e \in Prices(data) : IsEnd(Prices(data), d, e, h)
        BY <1>1, <2>2
      <3>2. PICK e \in Prices(data) : IsEnd(Prices(data), d, e, h)
        BY <3>1
      <3>3. /\ HasLaggedReturn(d, c) <=> HasLaggedReturn(d, data)
            /\ LaggedReturnRows(d, c) = LaggedReturnRows(d, data)
        BY <3>1, LaggedReturnOfCut
      <3>4. Positive(h, d, c) = Positive(h, d, data)
        BY <1>6, <3>1, <3>2, PositiveOfCut
      <3> QED
        BY <1>1, <3>3, <3>4 DEF EventRow
    <2>4. Few = {d \in All : d <= a}
      BY <2>3
    <2>5. \A d \in Few : RowOfCut(d) = FomcRow(d)
      BY <2>3
    <2> HIDE DEF Few, All, FomcRow, RowOfCut, c
    <2> QED
      BY <1>2, <1>4, <2>1, <2>4, <2>5 DEF Narrowed
  <1> QED
    BY <1>5, <1>6 DEF RowsAgree

\* The last row before a day, and the one before that.
LEMMA LastRowsAre ==
    ASSUME NEW data, Findings(data), NEW d \in Nat
    PROVE  LET P == Prices(data)
               last == One!FeatureRow(P, RowStamp(d))
           IN  /\ One!HasFeature(P, RowStamp(d)) <=> Cardinality(Earlier(P, d)) >= 2
               /\ last = CHOOSE x \in Earlier(P, d) : \A y \in Earlier(P, d) : y <= x
               /\ One!HasFeature(P, RowStamp(d)) =>
                     /\ last \in Nat /\ last < d
                     /\ Max(Earlier(P, last)) \in Nat /\ Max(Earlier(P, last)) <= last
  <1> DEFINE P == Prices(data)
             S == Earlier(P, d)
             last == One!FeatureRow(P, RowStamp(d))
  <1>1. One!RowsBefore(P, RowStamp(d)) = S
    BY StampsOrdered DEF One!RowsBefore, Earlier
  <1>2. One!HasFeature(P, RowStamp(d)) <=> Cardinality(S) >= 2
    BY <1>1, CountsAgree DEF One!HasFeature
  <1>3. last = CHOOSE x \in S : \A y \in S : y <= x
    BY <1>1 DEF One!FeatureRow
  <1>4. \A x \in P : x \in Nat
    BY DEF Findings, Ending
  <1>5. \A x \in S : x \in P /\ x < d /\ x \in Nat
    BY <1>4 DEF Earlier
  <1>6. ASSUME Cardinality(S) >= 2
        PROVE  /\ last \in Nat /\ last < d
               /\ Max(Earlier(P, last)) \in Nat /\ Max(Earlier(P, last)) <= last
    <2>1. S # {}
      BY <1>6, FS_EmptySet
    <2>2. \E x \in S : \A y \in S : y <= x
      <3> HIDE DEF S
      <3>1. S \in SUBSET Int /\ d \in Int /\ \A x \in S : x <= d
        BY <1>5
      <3> QED
        BY <2>1, <3>1, LastOfDays
    <2>3. last \in S /\ \A y \in S : y <= last
      BY <1>3, <2>2
    <2>4. last \in Nat /\ last < d
      BY <1>5, <2>3
    <2>5. S # {last}
      <3>1. Cardinality({last}) = 1
        BY FS_Singleton
      <3> QED
        BY <1>6, <3>1
    <2>6. PICK x \in S : x # last
      BY <2>3, <2>5
    <2>7. x \in Nat /\ x < last /\ x \in P
      BY <1>5, <2>3, <2>4, <2>6
    <2> DEFINE E == Earlier(P, last)
    <2>8. E # {} /\ \A y \in E : y \in P /\ y < last
      BY <2>7 DEF Earlier
    <2>9. E \in SUBSET Nat /\ \A y \in E : y <= last
      BY <1>4, <2>4, <2>8
    <2> HIDE DEF E
    <2>10. Max(E) \in E /\ Max(E) <= last
      BY <2>4, <2>8, <2>9, MaxIs
    <2> QED
      BY <2>4, <2>9, <2>10 DEF E
  <1> QED
    BY <1>2, <1>3, <1>6

LagRow(d, data) ==
    LET last == One!FeatureRow(Prices(data), RowStamp(d))
    IN  EventRow(d, {RowStamp(last), RowStamp(Max(Earlier(Prices(data), last)))}, 1, data)
LagDays(kept, data) == {x \in kept : One!HasFeature(Prices(data), RowStamp(x))}

LEMMA LagRowIs ==
    ASSUME NEW data, Findings(data), NEW d \in Nat, One!HasFeature(Prices(data), RowStamp(d))
    PROVE  LagRow(d, data).day = d /\ \A t \in LagRow(d, data).reads : t <= RowStamp(d)
  <1> DEFINE P == Prices(data)
             last == One!FeatureRow(P, RowStamp(d))
             first == Max(Earlier(P, last))
  <1>1. last \in Nat /\ last < d /\ first \in Nat /\ first <= last
    BY LastRowsAre
  <1>2. LagRow(d, data) = EventRow(d, {RowStamp(last), RowStamp(first)}, 1, data)
    BY DEF LagRow
  <1> HIDE DEF last, first
  <1>3. first <= d /\ last <= d
    BY <1>1
  <1>4. RowStamp(last) <= RowStamp(d) /\ RowStamp(first) <= RowStamp(d)
    BY <1>1, <1>3, StampsOrdered
  <1> QED
    BY <1>2, <1>4, EventRowIs

LEMMA LagRowOfCut ==
    ASSUME NEW data, Findings(data), NEW a, NEW D, SeenFrom(data, 1, a, D),
           NEW d \in Prices(data), d <= a, NEW e \in Prices(data), IsEnd(Prices(data), d, e, 1)
    PROVE  /\ One!HasFeature(Prices(Cut(data, D)), RowStamp(d)) <=> One!HasFeature(Prices(data), RowStamp(d))
           /\ One!HasFeature(Prices(data), RowStamp(d)) => LagRow(d, Cut(data, D)) = LagRow(d, data)
  <1> DEFINE c == Cut(data, D)
             P == Prices(data)
             Q == Prices(c)
             last == One!FeatureRow(P, RowStamp(d))
  <1>1. a \in Nat /\ D \in Nat /\ a <= D /\ d \in Nat /\ d <= D
    <2>1. a \in Nat /\ D \in Nat /\ a <= D
      BY SeenIs
    <2>2. d \in Nat
      BY DEF Findings, Ending
    <2> QED
      BY <2>1, <2>2
  <1>2. Findings(c) /\ Positive(1, d, c) = Positive(1, d, data)
    <2>1. Findings(c)
      BY <1>1, CutIs
    <2>2. Positive(1, d, c) = Positive(1, d, data)
      BY PositiveOfCut
    <2> QED
      BY <2>1, <2>2
  <1>3. \A x \in Nat : x <= D => Earlier(Q, x) = Earlier(P, x)
    BY <1>1, LaggedReturnOfCut
  <1>4. Earlier(Q, d) = Earlier(P, d)
    BY <1>1, <1>3
  <1> HIDE DEF c
  <1>5. One!HasFeature(Q, RowStamp(d)) <=> One!HasFeature(P, RowStamp(d))
    <2>1. /\ One!HasFeature(P, RowStamp(d)) <=> Cardinality(Earlier(P, d)) >= 2
          /\ One!HasFeature(Q, RowStamp(d)) <=> Cardinality(Earlier(Q, d)) >= 2
      BY <1>1, <1>2, LastRowsAre
    <2> QED
      BY <1>4, <2>1
  <1>6. One!FeatureRow(Q, RowStamp(d)) = last
    <2>1. /\ last = CHOOSE x \in Earlier(P, d) : \A y \in Earlier(P, d) : y <= x
          /\ One!FeatureRow(Q, RowStamp(d)) = CHOOSE x \in Earlier(Q, d) : \A y \in Earlier(Q, d) : y <= x
      BY <1>1, <1>2, LastRowsAre
    <2> QED
      BY <1>4, <2>1
  <1>7. ASSUME One!HasFeature(P, RowStamp(d))
        PROVE  LagRow(d, c) = LagRow(d, data)
    <2>1. last \in Nat /\ last < d
      BY <1>1, <1>7, LastRowsAre
    <2>2. Earlier(Q, last) = Earlier(P, last)
      BY <1>1, <1>3, <2>1
    <2>3. LagRow(d, data) = EventRow(d, {RowStamp(last), RowStamp(Max(Earlier(P, last)))}, 1, data)
      BY DEF LagRow
    <2>4. LagRow(d, c) = EventRow(d, {RowStamp(last), RowStamp(Max(Earlier(Q, last)))}, 1, c)
      BY <1>6 DEF LagRow
    <2> QED
      BY <1>2, <2>2, <2>3, <2>4 DEF EventRow
  <1> QED
    BY <1>5, <1>7 DEF c

LEMMA LagRowsAgree ==
    ASSUME NEW data, Findings(data), NEW D \in Nat
    PROVE  RowsAgree("wti_lag", LagRowsOf(data), LagRowsOf(Cut(data, D)), data, D)
  <1> DEFINE c == Cut(data, D)
             kept == Kept("wti_lag", data)
             All == LagDays(kept, data)
  <1>1. /\ kept \in SUBSET Nat /\ kept \subseteq Prices(data) /\ HorizonOf("wti_lag") = 1
        /\ \A d \in kept : \E e \in Prices(data) : IsEnd(Prices(data), d, e, 1)
        /\ \A a : SeenFrom(data, 1, a, D) => Kept("wti_lag", c) = {d \in kept : d <= a}
    <2>1. "wti_lag" \in AuditNames
      BY DEF AuditNames
    <2>2. HorizonOf("wti_lag") = 1
      BY DEF HorizonOf
    <2> QED
      BY <2>1, <2>2, KeptIs
  <1>2. /\ LagRowsOf(data) = {LagRow(d, data) : d \in All}
        /\ LagRowsOf(c) = {LagRow(d, c) : d \in LagDays(Kept("wti_lag", c), c)}
    BY DEF LagRowsOf, LagRow, LagDays
  <1>3. \A d \in All : d \in kept /\ d \in Nat /\ One!HasFeature(Prices(data), RowStamp(d))
    BY <1>1 DEF LagDays
  <1>4. \A d \in All : LagRow(d, data).day = d /\ \A t \in LagRow(d, data).reads : t <= RowStamp(d)
    BY <1>3, LagRowIs
  <1> HIDE DEF kept, c, All
  <1>5. Placed(LagRowsOf(data), kept)
    <2>1. ASSUME NEW r \in LagRowsOf(data)
          PROVE  r.day \in kept /\ \A t \in r.reads : t <= RowStamp(r.day)
      <3>1. PICK d \in All : r = LagRow(d, data)
        BY <1>2
      <3> QED
        BY <1>3, <1>4, <3>1
    <2> QED
      BY <2>1 DEF Placed
  <1>6. ASSUME NEW a, SeenFrom(data, 1, a, D)
        PROVE  LagRowsOf(c) = Narrowed(LagRowsOf(data), a)
    <2> DEFINE few == {d \in kept : d <= a}
               Few == LagDays(few, c)
    <2>1. LagRowsOf(c) = {LagRow(d, c) : d \in Few}
      BY <1>1, <1>2, <1>6
    <2>2. ASSUME NEW d \in few
          PROVE  /\ One!HasFeature(Prices(c), RowStamp(d)) <=> One!HasFeature(Prices(data), RowStamp(d))
                 /\ One!HasFeature(Prices(data), RowStamp(d)) => LagRow(d, c) = LagRow(d, data)
      <3>1. d <= a /\ d \in Prices(data) /\ \E e \in Prices(data) : IsEnd(Prices(data), d, e, 1)
        BY <1>1
      <3>2. PICK e \in Prices(data) : IsEnd(Prices(data), d, e, 1)
        BY <3>1
      <3> QED
        BY <1>6, <3>1, <3>2, LagRowOfCut DEF c
    <2>3. Few = {d \in All : d <= a}
      BY <2>2 DEF LagDays, All
    <2>4. \A d \in Few : LagRow(d, c) = LagRow(d, data)
      BY <2>2, <2>3 DEF LagDays, All
    <2> HIDE DEF Few
    <2> QED
      BY <1>2, <1>4, <2>1, <2>3, <2>4 DEF Narrowed
  <1> QED
    BY <1>1, <1>5, <1>6 DEF RowsAgree, kept, c

\* The rows of an audit, and its walk over them.
RowsOf(name, data) ==
    CASE name = "gpr" -> GprRows(data)
      [] name = "steo" -> SteoRows(data)
      [] name = "psm" -> PsmRows(data)
      [] name = "opec_ministerial" -> OpecRows(data)
      [] name = "wpsr" -> WpsrRows(data)
      [] name = "fomc" -> FomcRows(data)
      [] name = "wti_lag" -> LagRowsOf(data)
WalkOf(name, rows) == IF name = "wti_lag" THEN EventsWalk(rows) ELSE WeeksWalk(rows)

LEMMA AuditIs ==
    ASSUME NEW name \in AuditNames, NEW data
    PROVE  Audit(name, data) = WalkOf(name, RowsOf(name, data))
  BY DEF AuditNames, Audit, WalkOf, RowsOf, GprAudit, SteoAudit, PsmAudit, OpecAudit, WpsrAudit,
         FomcAudit, LagAudit

LEMMA RowsOfAgree ==
    ASSUME NEW data, Findings(data), NEW D \in Nat, NEW name \in AuditNames
    PROVE  RowsAgree(name, RowsOf(name, data), RowsOf(name, Cut(data, D)), data, D)
  <1> DEFINE c == Cut(data, D)
             m == RowStamp(D)
  <1>1. {"steo", "psm"} \subseteq Families
    BY DEF Families, FamiliesOf
  <1>2. CASE name = "gpr"
    <2>1. RowsOf(name, data) = ReleaseRows(Kept(name, data), GprFeatures(data), FALSE, data)
          /\ RowsOf(name, c) = ReleaseRows(Kept(name, c), GprFeatures(c), FALSE, c)
      BY <1>2 DEF RowsOf, GprRows
    <2>2. Sound(GprFeatures(data)) /\ Agrees(GprFeatures(c), GprFeatures(data), m)
      BY GprAgrees
    <2> QED
      BY <1>1, <1>2, <2>1, <2>2, ReleaseAuditAgrees
  <1>3. CASE name = "steo"
    <2>1. RowsOf(name, data) = ReleaseRows(Kept(name, data), CalendarFeatures("steo", data), FALSE, data)
          /\ RowsOf(name, c) = ReleaseRows(Kept(name, c), CalendarFeatures("steo", c), FALSE, c)
      BY <1>3 DEF RowsOf, SteoRows
    <2>2. /\ Sound(CalendarFeatures("steo", data))
          /\ Agrees(CalendarFeatures("steo", c), CalendarFeatures("steo", data), m)
      BY <1>1, CalendarAgrees
    <2> QED
      BY <1>1, <1>3, <2>1, <2>2, ReleaseAuditAgrees
  <1>4. CASE name = "psm"
    <2>1. RowsOf(name, data) = ReleaseRows(Kept(name, data), CalendarFeatures("psm", data), FALSE, data)
          /\ RowsOf(name, c) = ReleaseRows(Kept(name, c), CalendarFeatures("psm", c), FALSE, c)
      BY <1>4 DEF RowsOf, PsmRows, PsmFeatures
    <2>2. /\ Sound(CalendarFeatures("psm", data))
          /\ Agrees(CalendarFeatures("psm", c), CalendarFeatures("psm", data), m)
      BY <1>1, CalendarAgrees
    <2> QED
      BY <1>1, <1>4, <2>1, <2>2, ReleaseAuditAgrees
  <1>5. CASE name = "opec_ministerial"
    <2>1. RowsOf(name, data) = ReleaseRows(Kept(name, data), OpecFeatures(data), FALSE, data)
          /\ RowsOf(name, c) = ReleaseRows(Kept(name, c), OpecFeatures(c), FALSE, c)
      BY <1>5 DEF RowsOf, OpecRows
    <2>2. Sound(OpecFeatures(data)) /\ Agrees(OpecFeatures(c), OpecFeatures(data), m)
      BY OpecAgrees
    <2> QED
      BY <1>1, <1>5, <2>1, <2>2, ReleaseAuditAgrees
  <1>6. CASE name = "wpsr"
    BY <1>6, WpsrRowsAgree DEF RowsOf
  <1>7. CASE name = "fomc"
    BY <1>7, FomcRowsAgree DEF RowsOf
  <1>8. CASE name = "wti_lag"
    BY <1>8, LagRowsAgree DEF RowsOf
  <1> QED
    BY <1>2, <1>3, <1>4, <1>5, <1>6, <1>7, <1>8 DEF AuditNames

-----------------------------------------------------------------------------
(***************************************************************************)
(* The walk of an audit, on the rows and on those that an earlier audit    *)
(* had.                                                                    *)
(***************************************************************************)

LEMMA MonthsOrdered ==
    ASSUME NEW a \in Nat, NEW b \in Nat, Month(a) < Month(b)
    PROVE  a < b
  <1> DEFINE q == b \div MonthDays
             p == a \div MonthDays
  <1>1. \A n \in Nat \ {0}, t \in Nat : t \div n \in Nat /\ n * (t \div n) <= t /\ t < n * (t \div n) + n
    OBVIOUS
  <1>2. MonthDays \in Nat \ {0}
    BY AuditNumbers
  <1>3. /\ q \in Nat /\ p \in Nat /\ MonthDays * q <= b /\ a < MonthDays * p + MonthDays /\ p < q
    BY <1>1, <1>2 DEF Month
  <1> HIDE DEF p, q
  <1>4. \A n \in Nat \ {0} : \A i, j \in Nat : i < j => n * i + n <= n * j
    <2> TAKE n \in Nat \ {0}
    <2> TAKE i, j \in Nat
    <2> HAVE i < j
    <2> DEFINE k == j - (i + 1)
    <2>1. k \in Nat /\ j = i + 1 + k
      OBVIOUS
    <2> HIDE DEF k
    <2>2. n * (i + 1 + k) = n * i + n + n * k /\ n * k \in Nat /\ n * i \in Nat
      BY <2>1
    <2> QED
      BY <2>1, <2>2
  <1>5. MonthDays * p + MonthDays <= MonthDays * q
    BY <1>2, <1>3, <1>4
  <1>6. MonthDays * p \in Nat /\ MonthDays * q \in Nat
    BY <1>2, <1>3
  <1> QED
    BY <1>2, <1>3, <1>5, <1>6

LEMMA RefitIs ==
    ASSUME NEW rows, \A r \in rows : r.day \in Nat, NEW warm, NEW minimum,
           NEW s \in MonthlyRefit(rows, warm, minimum)
    PROVE  /\ s.row \in rows /\ s.train = TrainedOn(rows, Month(s.row.day))
           /\ s = [row |-> s.row, train |-> s.train] /\ Fittable(s.train, minimum)
           /\ \A r \in s.train : r \in rows /\ r.day < s.row.day
           /\ s.train # {}
  <1>1. PICK r \in rows : /\ s = [row |-> r, train |-> TrainedOn(rows, Month(r.day))]
                          /\ Fittable(TrainedOn(rows, Month(r.day)), minimum)
    BY DEF MonthlyRefit
  <1>2. s.row = r /\ s.train = TrainedOn(rows, Month(r.day))
    BY <1>1
  <1>3. \A x \in s.train : x \in rows /\ x.day < r.day
    <2> TAKE x \in s.train
    <2>1. x \in rows /\ Month(x.day) < Month(r.day)
      BY <1>2 DEF TrainedOn
    <2> QED
      BY <2>1, MonthsOrdered
  <1>4. s.train # {}
    <2>1. {x.positive : x \in s.train} = BOOLEAN
      BY <1>1, <1>2 DEF Fittable
    <2> QED
      BY <2>1
  <1> QED
    BY <1>1, <1>2, <1>3, <1>4

LEMMA RefitOfCut ==
    ASSUME NEW rows, \A r \in rows : r.day \in Nat, NEW warm, NEW minimum,
           NEW s \in MonthlyRefit(rows, warm, minimum), NEW early, early <= s.row.day
    PROVE  s \in MonthlyRefit(Narrowed(rows, s.row.day), early, minimum)
  <1> DEFINE a == s.row.day
             few == Narrowed(rows, a)
             months == {Month(r.day) : r \in {x \in few : x.day >= early}}
  <1>1. /\ s.row \in rows /\ s.train = TrainedOn(rows, Month(a))
        /\ s = [row |-> s.row, train |-> s.train] /\ Fittable(s.train, minimum)
        /\ \A r \in s.train : r \in rows /\ r.day < a
    BY RefitIs
  <1>2. a \in Nat /\ s.row \in few
    BY <1>1 DEF Narrowed
  <1>3. TrainedOn(few, Month(a)) = TrainedOn(rows, Month(a))
    <2>1. \A r \in s.train : r \in rows /\ r.day <= a
      BY <1>1, <1>2
    <2> QED
      BY <1>1, <2>1 DEF TrainedOn, Narrowed
  <1>4. Month(a) \in months
    <2>1. a >= early
      OBVIOUS
    <2> QED
      BY <1>2, <2>1
  <1>5. s \in {[row |-> r, train |-> TrainedOn(few, Month(r.day))]
                 : r \in {x \in few : /\ Month(x.day) \in months
                                      /\ Fittable(TrainedOn(few, Month(x.day)), minimum)}}
    <2> HIDE DEF few, months
    <2> QED
      BY <1>1, <1>2, <1>3, <1>4
  <1> QED
    BY <1>5 DEF MonthlyRefit

\* The warm-up of an events' walk ends on one of its days.
LEMMA WarmIsADay ==
    ASSUME NEW rows, rows # {}, NEW n \in Nat, \A r \in rows : r.day \in Nat /\ r.day <= n
    PROVE  WarmAfterEvents(rows) \in {r.day : r \in rows}
  <1> DEFINE days == {r.day : r \in rows}
             card == Cardinality(days)
             k == Min({MinTrainEvents, card - 1})
  <1>1. days \in SUBSET Nat /\ days # {} /\ \A x \in days : x <= n
    OBVIOUS
  <1>2. WarmAfterEvents(rows) = CHOOSE d \in days : Cardinality(Earlier(days, d)) = k
    BY DEF WarmAfterEvents
  <1> HIDE DEF days
  <1>3. card \in Nat /\ card # 0
    <2>1. IsFiniteSet(days)
      BY <1>1, FS_BoundedSetOfNaturals
    <2> QED
      BY <1>1, <2>1, FS_CardinalityType, FS_EmptySet
  <1>4. k \in Nat /\ card > k
    <2>1. MinTrainEvents \in Nat /\ card - 1 \in Nat
      BY <1>3, AuditNumbers
    <2> DEFINE T == {MinTrainEvents, card - 1}
    <2>2. T \in SUBSET Int /\ T # {} /\ 0 \in Int /\ \A x \in T : 0 <= x
      BY <2>1
    <2>3. card - 1 \in T /\ T \in SUBSET Nat
      BY <2>1
    <2> HIDE DEF T
    <2>4. Min(T) \in T /\ \A x \in T : Min(T) <= x
      BY <2>2, MinIs
    <2>5. k = Min(T)
      BY DEF T
    <2> HIDE DEF k
    <2>6. k \in Nat /\ k <= card - 1
      BY <2>3, <2>4, <2>5
    <2> HIDE DEF card
    <2> QED
      BY <1>3, <2>6
  <1> HIDE DEF k, card
  <1>5. \E d \in days : Cardinality({x \in days : x < d}) = k
    BY <1>1, <1>4, NthDay DEF card
  <1>6. \E d \in days : Cardinality(Earlier(days, d)) = k
    BY <1>5 DEF Earlier
  <1> QED
    BY <1>2, <1>6 DEF days

LEMMA WalkOnThePast ==
    ASSUME NEW name \in AuditNames, NEW rows, NEW n \in Nat, \A r \in rows : r.day \in Nat /\ r.day <= n,
           NEW s \in WalkOf(name, rows)
    PROVE  /\ s.row \in rows /\ \A r \in s.train : r \in rows /\ r.day < s.row.day
           /\ (name = "wti_lag" \/ s.row.day >= WarmupDays + Min({r.day : r \in s.train})) =>
                 s \in WalkOf(name, Narrowed(rows, s.row.day))
  <1> DEFINE a == s.row.day
             few == Narrowed(rows, a)
  <1>1. rows # {} /\ \A r \in rows : r.day \in Nat
    BY DEF WalkOf, EventsWalk, WeeksWalk
  <1>2. CASE name = "wti_lag"
    <2>1. s \in MonthlyRefit(rows, WarmAfterEvents(rows), MinTrainEvents)
      BY <1>1, <1>2 DEF WalkOf, EventsWalk
    <2>2. s.row \in rows /\ \A r \in s.train : r \in rows /\ r.day < a
      BY <1>1, <2>1, RefitIs
    <2>3. s.row \in few /\ a \in Nat
      BY <1>1, <2>2 DEF Narrowed
    <2>4. WarmAfterEvents(few) <= a
      <3>1. WarmAfterEvents(few) \in {r.day : r \in few}
        <4>1. few # {} /\ \A r \in few : r.day \in Nat /\ r.day <= n
          BY <1>1, <2>3 DEF Narrowed
        <4> HIDE DEF few
        <4> QED
          BY <4>1, WarmIsADay
      <3> QED
        BY <3>1 DEF Narrowed
    <2>5. s \in MonthlyRefit(few, WarmAfterEvents(few), MinTrainEvents)
      BY <1>1, <2>1, <2>4, RefitOfCut
    <2> QED
      BY <1>2, <2>2, <2>3, <2>5 DEF WalkOf, EventsWalk
  <1>3. CASE name # "wti_lag"
    <2>1. s \in MonthlyRefit(rows, WarmAfterWeeks(rows), 2)
      BY <1>1, <1>3 DEF WalkOf, WeeksWalk
    <2>2. s.row \in rows /\ s.train # {} /\ \A r \in s.train : r \in rows /\ r.day < a
      BY <1>1, <2>1, RefitIs
    <2>3. s.row \in few /\ a \in Nat
      BY <1>1, <2>2 DEF Narrowed
    <2>4. ASSUME a >= WarmupDays + Min({r.day : r \in s.train})
          PROVE  s \in WalkOf(name, few)
      <3> DEFINE T == {r.day : r \in s.train}
                 S == {r.day : r \in few}
      <3>1. T \in SUBSET Int /\ T # {} /\ 0 \in Int /\ \A x \in T : 0 <= x
        BY <1>1, <2>2
      <3>2. S \in SUBSET Int /\ S # {} /\ \A x \in S : 0 <= x
        BY <1>1, <2>3 DEF Narrowed
      <3>3. T \subseteq S
        <4>1. \A r \in s.train : r \in few
          BY <1>1, <2>2, <2>3 DEF Narrowed
        <4> QED
          BY <4>1
      <3> HIDE DEF T, S
      <3>4. Min(T) \in T /\ Min(S) \in S /\ \A x \in S : Min(S) <= x
        BY <3>1, <3>2, MinIs
      <3>5. Min(S) \in Int /\ Min(T) \in Int /\ Min(S) <= Min(T) /\ WarmupDays \in Nat
        BY <3>1, <3>2, <3>3, <3>4, AuditNumbers
      <3>6. a >= WarmupDays + Min(T)
        BY <2>4 DEF T
      <3>7. WarmAfterWeeks(few) = Min(S) + WarmupDays
        BY DEF WarmAfterWeeks, S
      <3>8. WarmAfterWeeks(few) <= a
        BY <2>3, <3>5, <3>6, <3>7
      <3>9. s \in MonthlyRefit(few, WarmAfterWeeks(few), 2)
        BY <1>1, <2>1, <3>8, RefitOfCut
      <3> QED
        BY <1>3, <2>3, <3>9 DEF WalkOf, WeeksWalk
    <2> QED
      BY <1>3, <2>2, <2>4
  <1> QED
    BY <1>2, <1>3

\* What an audit scored.
LEMMA AuditLooksBack ==
    ASSUME NEW data \in AuditCases, NEW name \in AuditNames, NEW s \in Audit(name, data)
    PROVE  LET h == HorizonOf(name)
               ended(d) == LabelEnd(h, d, data)
           IN  /\ s.row.day \in Kept(name, data)
               /\ \A t \in s.row.reads : t <= RowStamp(s.row.day)
               /\ (\A r \in s.train : ended(r.day) - r.day <= 2 * h) =>
                     \A r \in s.train : ended(r.day) < s.row.day
               /\ (name = "wti_lag" \/ s.row.day >= WarmupDays + Min({r.day : r \in s.train})) =>
                     s \in Audit(name, Cut(data, ended(s.row.day)))
  <1> DEFINE h == HorizonOf(name)
             P == Prices(data)
             kept == Kept(name, data)
             rows == RowsOf(name, data)
             a == s.row.day
             D == LabelEnd(h, a, data)
  <1>1. Findings(data) /\ Ending(P)
    BY CasesAreFindings DEF Findings
  <1>2. /\ kept \in SUBSET Nat /\ kept \subseteq P /\ Ending(kept)
        /\ \A d \in kept : \E e \in P : IsEnd(P, d, e, h)
        /\ \A x, y \in kept : x < y => y - x > 2 * h
        /\ h \in {1, LongHorizon} /\ h \in Nat
    BY <1>1, KeptIs
  <1>3. PICK n \in Nat : \A x \in kept : x <= n
    BY <1>2 DEF Ending
  <1>4. Placed(rows, kept)
    BY <1>1, RowsOfAgree, 0 \in Nat DEF RowsAgree
  <1>5. s \in WalkOf(name, rows)
    BY AuditIs
  <1> HIDE DEF rows, kept, h, P
  <1>6. \A r \in rows : r.day \in kept /\ r.day \in Nat /\ r.day <= n
    BY <1>2, <1>3, <1>4 DEF Placed
  <1>7. /\ s.row \in rows /\ \A r \in s.train : r \in rows /\ r.day < a
        /\ (name = "wti_lag" \/ a >= WarmupDays + Min({r.day : r \in s.train})) =>
              s \in WalkOf(name, Narrowed(rows, a))
    BY <1>5, <1>6, WalkOnThePast
  <1>8. a \in kept /\ a \in P /\ a \in Nat /\ \A t \in s.row.reads : t <= RowStamp(a)
    BY <1>2, <1>4, <1>7 DEF Placed
  <1>9. \A d \in kept : LabelEnd(h, d, data) \in Nat /\ IsEnd(P, d, LabelEnd(h, d, data), h)
    <2> TAKE d \in kept
    <2>1. PICK e \in P : IsEnd(P, d, e, h)
      BY <1>2
    <2>2. d \in Nat
      BY <1>2
    <2>3. LabelEnd(h, d, data) = e /\ e \in Nat
      BY <1>1, <1>2, <2>1, <2>2, LabelEndIs DEF P
    <2> QED
      BY <2>1, <2>3
  <1>10. ASSUME \A r \in s.train : LabelEnd(h, r.day, data) - r.day <= 2 * h
         PROVE  \A r \in s.train : LabelEnd(h, r.day, data) < a
    <2> TAKE r \in s.train
    <2>1. r.day \in kept /\ r.day < a /\ r.day \in Nat
      BY <1>6, <1>7
    <2>2. a - r.day > 2 * h /\ LabelEnd(h, r.day, data) - r.day <= 2 * h
          /\ LabelEnd(h, r.day, data) \in Nat
      BY <1>2, <1>8, <1>9, <1>10, <2>1
    <2> QED
      BY <1>2, <1>8, <2>1, <2>2
  <1>11. D \in Nat /\ SeenFrom(data, h, a, D)
    BY <1>2, <1>8, <1>9 DEF SeenFrom, P
  <1>12. RowsOf(name, Cut(data, D)) = Narrowed(rows, a)
    <2> HIDE DEF D
    <2>1. RowsAgree(name, RowsOf(name, data), RowsOf(name, Cut(data, D)), data, D)
      BY <1>1, <1>11, RowsOfAgree
    <2> QED
      BY <1>11, <2>1 DEF RowsAgree, rows, h
  <1>13. Audit(name, Cut(data, D)) = WalkOf(name, Narrowed(rows, a))
    BY <1>12, AuditIs
  <1> QED
    BY <1>7, <1>8, <1>10, <1>13 DEF h, kept, D

-----------------------------------------------------------------------------

\* Each of these drills leaves what its function makes of one of its inputs.
SplitOK ==
    drill = "split" => \E n \in Sizes, p \in SplitParams :
        /\ input = [n |-> n, p |-> p]
        /\ result = IF ValidSplit(n, p) THEN Splits(n, p) ELSE {}
WalkOK ==
    drill \in {"walk", "walked"} => \E rows \in Series, next \in Nat :
        /\ input = [rows |-> rows, next |-> next]
        /\ ValidRows(rows, Warmup, WalkHorizon) =>
              /\ Warmup <= next /\ WalkTo(result, rows, next)
              /\ drill = "walk" => next < Len(rows)
              /\ drill = "walked" => next = Len(rows)
        /\ drill = "walk" => ValidRows(rows, Warmup, WalkHorizon)
AuditOK ==
    drill = "audit" => \E name \in AuditNames, data \in AuditCases :
        input = [name |-> name, data |-> data] /\ result = Audit(name, data)
EvalInv == SplitOK /\ WalkOK /\ AuditOK

LEMMA EvaluationsStep ==
    ASSUME EvalInv, [EvalNext]_(drill_vars)
    PROVE  EvalInv'
  <1>1. CASE SplitDrill
    <2>1. drill' = "split" /\ SplitOK'
      BY <1>1 DEF SplitDrill, Move, SplitOK
    <2> QED
      BY <2>1 DEF EvalInv, WalkOK, AuditOK
  <1>2. CASE StartWalk
    <2>1. PICK rows \in Series :
              Move(IF ValidRows(rows, Warmup, WalkHorizon) THEN "walk" ELSE "walked",
                   [rows |-> rows, next |-> Warmup], BeforeWalk)
      BY <1>2 DEF StartWalk
    <2>2. Warmup \in Nat /\ Len(rows) \in Nat /\ WalkHorizon \in Nat \ {0}
      <3>1. rows \in Seq([ts : Int, block : Int, realised : BOOLEAN])
        BY EvaluationAssumption
      <3> QED
        BY <3>1, EvaluationAssumption
    <2>3. ValidRows(rows, Warmup, WalkHorizon) => Warmup <= Warmup /\ Warmup < Len(rows)
      BY <2>2 DEF ValidRows
    <2>4. WalkTo(BeforeWalk, rows, Warmup)
      BY WalkStarts
    <2>5. input' = [rows |-> rows, next |-> Warmup] /\ result' = BeforeWalk
          /\ drill' = IF ValidRows(rows, Warmup, WalkHorizon) THEN "walk" ELSE "walked"
      BY <2>1 DEF Move
    <2>6. WalkOK'
      BY <2>2, <2>3, <2>4, <2>5 DEF WalkOK
    <2> QED
      BY <2>5, <2>6 DEF EvalInv, SplitOK, AuditOK
  <1>3. CASE NextRow
    <2>1. PICK rows \in Series, next \in Nat :
              /\ input = [rows |-> rows, next |-> next]
              /\ Warmup <= next /\ WalkTo(result, rows, next) /\ next < Len(rows)
              /\ ValidRows(rows, Warmup, WalkHorizon)
      BY <1>3 DEF NextRow, EvalInv, WalkOK
    <2>2. input' = [rows |-> rows, next |-> next + 1] /\ result' = WalkRow(result, rows, next)
          /\ drill' = IF next + 1 = Len(rows) THEN "walked" ELSE "walk"
      BY <1>3, <2>1 DEF NextRow
    <2>3. WalkTo(result', rows, next + 1)
      BY <2>1, <2>2, WalkGoesOn
    <2>4. Warmup \in Nat /\ Len(rows) \in Nat
      <3>1. rows \in Seq([ts : Int, block : Int, realised : BOOLEAN])
        BY EvaluationAssumption
      <3> QED
        BY <3>1, EvaluationAssumption
    <2>5. next + 1 \in Nat /\ Warmup <= next + 1 /\ (next + 1 # Len(rows) => next + 1 < Len(rows))
      BY <2>1, <2>4
    <2>6. WalkOK'
      BY <2>1, <2>2, <2>3, <2>5 DEF WalkOK
    <2> QED
      BY <2>2, <2>6 DEF EvalInv, SplitOK, AuditOK
  <1>4. CASE AuditDrill
    <2>1. drill' = "audit" /\ AuditOK'
      BY <1>4 DEF AuditDrill, Move, AuditOK
    <2> QED
      BY <2>1 DEF EvalInv, SplitOK, WalkOK
  <1>5. CASE ScoreDrill \/ GateDrill \/ SignDrill \/ HotSwapDrill \/ GradeDrill
    <2>1. drill' \in {"score", "skill", "sign", "report", "grade"}
      BY <1>5 DEF ScoreDrill, GateDrill, SignDrill, HotSwapDrill, GradeDrill, Move
    <2> QED
      BY <2>1 DEF EvalInv, SplitOK, WalkOK, AuditOK
  <1>6. CASE [DrillNext]_(drill_vars)
    <2>1. drill' \in {"roll", "fill", "queue", "hidden", "pnl", "done"} \/ UNCHANGED <<drill, input, result>>
      BY <1>6 DEF DrillNext, NextDay, FillDrill, StartQueue, QueueEvent, HiddenDrill, StartPnl,
             NextTrade, Finish, drill_vars
    <2> QED
      BY <2>1 DEF EvalInv, SplitOK, WalkOK, AuditOK
  <1> QED
    BY <1>1, <1>2, <1>3, <1>4, <1>5, <1>6 DEF EvalNext

LEMMA SplitsLookBack ==
    ASSUME SplitOK
    PROVE  PurgeIsEnough /\ PurgeIsNotMore
  <1> SUFFICES ASSUME drill = "split" PROVE PurgeIsEnough /\ PurgeIsNotMore
    BY DEF PurgeIsEnough, PurgeIsNotMore
  <1>1. PICK n \in Sizes, p \in SplitParams :
            /\ input = [n |-> n, p |-> p]
            /\ result = IF ValidSplit(n, p) THEN Splits(n, p) ELSE {}
    BY DEF SplitOK
  <1>2. input.n = n /\ input.p = p /\ n \in Nat /\ p \in SplitParam
    BY <1>1, EvaluationAssumption DEF SplitParam
  <1>3. CASE ~ValidSplit(n, p)
    <2>1. result = {}
      BY <1>1, <1>3
    <2> QED
      BY <1>2, <1>3, <2>1 DEF PurgeIsEnough, PurgeIsNotMore
  <1>4. CASE ValidSplit(n, p)
    <2>1. result = Splits(n, p)
      BY <1>1, <1>4
    <2>2. \A s \in result :
              /\ NoLabelLeakage(s, p.horizon)
              /\ p.embargo >= p.horizon =>
                    \A i \in s.test : (i..(i + p.horizon)) \cap s.train = {}
              /\ \A i \in (0..(n - 1)) \ (s.test \cup s.train) :
                    \E t \in s.test : t - p.horizon <= i /\ i <= t + p.embargo
      BY <1>2, <1>4, <2>1, PurgeCovers
    <2>3. \A i \in 0..(n - 1) : \A j \in 0..(n - 1) :
              Cardinality({s \in result : i \in s.test}) = Cardinality({s \in result : j \in s.test})
      BY <1>2, <1>4, <2>1, TestedAlike
    <2> QED
      BY <1>2, <2>2, <2>3 DEF PurgeIsEnough, PurgeIsNotMore
  <1> QED
    BY <1>3, <1>4

LEMMA WalksLookBack ==
    ASSUME WalkOK
    PROVE  WalkLooksBack
  <1> SUFFICES ASSUME drill = "walked", ValidRows(input.rows, Warmup, WalkHorizon) PROVE WalkLooksBack
    BY DEF WalkLooksBack
  <1>1. PICK rows \in Series : input.rows = rows /\ WalkTo(result, rows, Len(rows))
    BY DEF WalkOK
  <1>2. /\ {x.row : x \in ToSet(result.scored)}
             = {i \in Warmup..(Len(rows) - 1) : rows[i + 1].realised}
        /\ \A x, y \in ToSet(result.scored) :
              rows[x.row + 1].block = rows[y.row + 1].block <=> x.instance = y.instance
        /\ (\A i, j \in DOMAIN rows : i < j => rows[i].ts < rows[j].ts) =>
              \A x \in ToSet(result.scored) : \A h \in x.history :
                  rows[h + 1].ts < rows[x.row + 1].ts
    BY <1>1, WalkEnds
  <1> QED
    BY <1>1, <1>2 DEF WalkLooksBack

LEMMA AuditsLookBack ==
    ASSUME AuditOK
    PROVE  ScoredOnTheKnown /\ LaterDataChangesNothing /\ ResidualsCount
  <1> SUFFICES ASSUME drill = "audit" PROVE ScoredOnTheKnown /\ LaterDataChangesNothing /\ ResidualsCount
    BY DEF ScoredOnTheKnown, LaterDataChangesNothing, ResidualsCount
  <1>1. PICK name \in AuditNames, data \in AuditCases :
            input = [name |-> name, data |-> data] /\ result = Audit(name, data)
    BY DEF AuditOK
  <1>2. input.name = name /\ input.data = data
    BY <1>1
  <1> DEFINE h == HorizonOf(name)
             ended(d) == LabelEnd(h, d, data)
  <1>3. \A s \in result :
           /\ s.row.day \in Kept(name, data)
           /\ \A t \in s.row.reads : t <= RowStamp(s.row.day)
           /\ (\A r \in s.train : ended(r.day) - r.day <= 2 * h) =>
                 \A r \in s.train : ended(r.day) < s.row.day
           /\ (name = "wti_lag" \/ s.row.day >= WarmupDays + Min({r.day : r \in s.train})) =>
                 s \in Audit(name, Cut(data, ended(s.row.day)))
    BY <1>1, AuditLooksBack
  <1>4. Horizon = h /\ \A d : LabelEnded(d) = ended(d)
    BY <1>2 DEF Horizon, LabelEnded
  <1>5. \A s : AfterWarmup(s) <=> name = "wti_lag" \/ s.row.day >= WarmupDays + Min({r.day : r \in s.train})
    BY <1>2 DEF AfterWarmup
  <1> HIDE DEF h, ended
  <1>6. ScoredOnTheKnown
    BY <1>3, <1>4 DEF ScoredOnTheKnown
  <1>7. LaterDataChangesNothing
    BY <1>2, <1>3, <1>4, <1>5 DEF LaterDataChangesNothing
  <1>8. ResidualsCount
    <2> SUFFICES ASSUME FamiliesOf(name) \subseteq data.admissible
                 PROVE  ResidualN(name, result, data) = Cardinality({s.row.day : s \in result})
      BY <1>2 DEF ResidualsCount
    <2>1. FamiliesOf(name) \cap data.admissible = FamiliesOf(name)
      OBVIOUS
    <2>2. KeptAnchors(HorizonOf(name), FamiliesOf(name) \cap data.admissible, data) = Kept(name, data)
      BY <2>1 DEF Kept
    <2>3. {s.row.day : s \in result} \cap Kept(name, data) = {s.row.day : s \in result}
      BY <1>3
    <2> QED
      BY <2>2, <2>3 DEF ResidualN
  <1> QED
    BY <1>6, <1>7, <1>8

\* No row that is evaluated on helped to make the forecast it is compared with:
\* in the purged cross-validation, in the walk-forward and in the seven event
\* audits (cpcv.py, walk_forward.py, audit_*_phase3.py), for any series, any
\* number of rows and blocks, and whatever was released later.
THEOREM TheEvaluationLooksBack == EvalSpec => []EvaluationLooksBack
  <1>1. DrillInit => EvalInv
    BY DEF DrillInit, EvalInv, SplitOK, WalkOK, AuditOK
  <1>2. EvalInv /\ [EvalNext]_(drill_vars) => EvalInv'
    BY EvaluationsStep
  <1>3. EvalInv => EvaluationLooksBack
    BY SplitsLookBack, WalksLookBack, AuditsLookBack DEF EvalInv, EvaluationLooksBack
  <1> QED
    BY <1>1, <1>2, <1>3, PTL DEF EvalSpec

=============================================================================
