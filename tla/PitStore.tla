------------------------------ MODULE PitStore ------------------------------
(***************************************************************************)
(* The point-in-time store: the vintages of one (source, dataset, series), *)
(* as PITWriter.write_vintage stores them (v2/pit_store/writer.py), the    *)
(* manifest table that indexes them (manifest.py), and the queries of      *)
(* PITReader over both (reader.py).                                        *)
(*                                                                         *)
(* DuckDB gives the database file to one process at a time, so there is    *)
(* one writer; what interleaves with it is the clock and the death of the  *)
(* process between two of its writes.  SQL's NULL is -1, which makes       *)
(* DESC NULLS LAST the order of the integers.                              *)
(***************************************************************************)
EXTENDS Integers, Sequences

CONSTANTS
    Payloads,        \* the data frames; equal payloads have equal checksums
    Observations,    \* observation periods, ordered by their end; may hold NULL
    Releases,        \* release_ts of the vintages a fetch may return
    Stamps,          \* revision_ts a caller may pass; {} when none does
    LatencyGuard,    \* usable_after_ts - release_ts
    FetchDelay,      \* how long after release_ts a fetch runs, at least
    TicksPerSecond,  \* clock ticks to the second, the resolution of a path
    MayCrash,        \* whether the process may die in the middle of a call
    MaxTime          \* bound: the last tick of the clock

NULL == -1

ASSUME StoreAssumption ==
    /\ Observations \subseteq Nat \cup {NULL}
    /\ Releases \subseteq Nat
    /\ Stamps \subseteq Nat
    /\ LatencyGuard \in Nat
    /\ FetchDelay \in Nat
    /\ TicksPerSecond \in Nat \ {0}
    /\ MayCrash \in BOOLEAN
    /\ MaxTime \in Nat

VARIABLES
    now,       \* the clock
    files,     \* the parquet files: path |-> payload
    manifest,  \* pit_manifest; a row's manifest_id is its index
    writer     \* the write_vintage call under way, or how the last one ended

vars == <<now, files, manifest, writer>>

Second(t) == IF t = NULL THEN NULL ELSE t \div TicksPerSecond

\* Directories name release and revision to the second.
CanonicalPath(row) ==
    [release |-> Second(row.release_ts), period |-> row.observation,
     revision |-> Second(row.revision_ts)]

Row == [release_ts: Nat, usable_after_ts: Nat, revision_ts: Nat \cup {NULL},
        observation: Nat \cup {NULL}, checksum: Payloads, ingest_ts: Nat,
        superseded_by: Nat \cup {NULL}]

Path == [release: Nat, period: Nat \cup {NULL}, revision: Nat \cup {NULL}]

Stages == {"idle", "staged", "promoted", "inserted", "raised"}

\* row: the ManifestRow the call builds; first: existing_first, or NULL.
Idle == [stage |-> "idle"]
Call == [stage: Stages \ {"idle"}, row: Row, id: Nat, first: Nat \cup {NULL}]

Rows == 1 .. Len(manifest)

-----------------------------------------------------------------------------
(***************************************************************************)
(* Queries.                                                                *)
(***************************************************************************)

\* WHERE (? IS NULL OR observation_end = ?): no period given matches any.
SamePeriod(row, i) == row.observation \in {NULL, manifest[i].observation}

SameRelease(row, i) ==
    manifest[i].release_ts = row.release_ts /\ SamePeriod(row, i)

\* The candidates of find_first_release, which takes whichever comes first.
FirstReleases(row) ==
    {i \in Rows : SameRelease(row, i) /\ manifest[i].revision_ts = NULL}

\* The candidates of _find_exact_slot for a given revision_ts.
ExactSlots(row) ==
    {i \in Rows : SameRelease(row, i) /\ manifest[i].revision_ts = row.revision_ts}

\* fetchone(): any of the matching rows, or None.
FetchOne(candidates) == IF candidates = {} THEN {NULL} ELSE candidates

KnownBy(i) ==
    IF manifest[i].revision_ts = NULL THEN manifest[i].usable_after_ts
                                      ELSE manifest[i].revision_ts

Eligible(ts) ==
    {i \in Rows : manifest[i].usable_after_ts <= ts /\ KnownBy(i) <= ts}

\* ORDER BY release_ts DESC, observation_end DESC NULLS LAST, known_by_ts DESC.
Before(i, j) ==
    \/ manifest[i].release_ts > manifest[j].release_ts
    \/ /\ manifest[i].release_ts = manifest[j].release_ts
       /\ \/ manifest[i].observation > manifest[j].observation
          \/ /\ manifest[i].observation = manifest[j].observation
             /\ KnownBy(i) > KnownBy(j)

\* The rows as_of(ts) may return: the newest known row of the latest period
\* of the latest release; more than one only when they tie.
AsOf(ts) ==
    {i \in Eligible(ts) : \A j \in Eligible(ts) : ~Before(j, i)}

\* _verified_parquet: the file is there and has the manifest's checksum.
Verified(i) ==
    /\ CanonicalPath(manifest[i]) \in DOMAIN files
    /\ files[CanonicalPath(manifest[i])] = manifest[i].checksum

\* What the Layer-1 audit reports as checksum or file errors.
ChecksumFailures == {i \in Rows : ~Verified(i)}

-----------------------------------------------------------------------------
(***************************************************************************)
(* write_vintage: stage the file and classify, promote, insert, supersede. *)
(***************************************************************************)
Init ==
    /\ now = 0
    /\ files = [p \in {} |-> NULL]
    /\ manifest = <<>>
    /\ writer = Idle

NewRow(rel, obs, data, rev) ==
    [release_ts |-> rel, usable_after_ts |-> rel + LatencyGuard, revision_ts |-> rev,
     observation |-> obs, checksum |-> data, ingest_ts |-> now, superseded_by |-> NULL]

Proceed(row, first) ==
    writer' = [stage |-> "staged", row |-> row, id |-> Len(manifest) + 1, first |-> first]

\* Mutant: a revision stamped with its release instead of its arrival.
ClassifyBackdated(row, first) ==
    \/ first = NULL /\ Proceed(row, first)
    \/ /\ first # NULL
       /\ manifest[first].checksum = row.checksum
       /\ writer' = Idle
    \/ /\ first # NULL
       /\ manifest[first].checksum # row.checksum
       /\ Proceed([row EXCEPT !.revision_ts = row.usable_after_ts], first)

\* Stage 2 without a revision_ts: nothing when the first release has this
\* payload, else a first release or a revision known from now on.
ClassifyByPayload(row, first) ==
    \/ first = NULL /\ Proceed(row, first)
    \/ /\ first # NULL
       /\ manifest[first].checksum = row.checksum
       /\ writer' = Idle
    \/ /\ first # NULL
       /\ manifest[first].checksum # row.checksum
       /\ Proceed([row EXCEPT !.revision_ts = row.ingest_ts], first)

\* Mutant: the lookup of the slot is left out.
NewSlotUnchecked(row, first, slot) == Proceed(row, first)

\* Stage 2 with a revision_ts that is not taken.
NewSlot(row, first, slot) == slot = NULL /\ Proceed(row, first)

\* Stage 2 with a revision_ts: the slot is new, holds this payload, or is taken.
ClassifyBySlot(row, first, slot) ==
    \/ NewSlot(row, first, slot)
    \/ /\ slot # NULL
       /\ manifest[slot].checksum = row.checksum
       /\ writer' = Idle
    \/ /\ slot # NULL
       /\ manifest[slot].checksum # row.checksum
       /\ writer' = [stage |-> "raised", row |-> row, id |-> Len(manifest) + 1,
                     first |-> first]

CanBegin == writer.stage \in {"idle", "raised"} /\ now < MaxTime

\* A fetched vintage reaches the writer; the call takes time.
WriteVintage(rel, obs, data) ==
    /\ CanBegin
    /\ rel + FetchDelay <= now
    /\ LET row == NewRow(rel, obs, data, NULL)
       IN  \E first \in FetchOne(FirstReleases(row)) : ClassifyByPayload(row, first)
    /\ now' = now + 1
    /\ UNCHANGED <<files, manifest>>

\* The same with a revision_ts, the publisher's, which lies in the past.
WriteRevision(rel, obs, data, rev) ==
    /\ CanBegin
    /\ rel + FetchDelay <= now
    /\ rev < now
    /\ LET row == NewRow(rel, obs, data, rev)
       IN  \E first \in FetchOne(FirstReleases(row)), slot \in FetchOne(ExactSlots(row)) :
              ClassifyBySlot(row, first, slot)
    /\ now' = now + 1
    /\ UNCHANGED <<files, manifest>>

\* Mutant: a promotion that leaves out the revision's own directory.
PromoteOverFirst ==
    /\ writer.stage = "staged"
    /\ LET path == CanonicalPath([writer.row EXCEPT !.revision_ts = NULL])
       IN  files' = [p \in DOMAIN files \cup {path} |->
                        IF p = path THEN writer.row.checksum ELSE files[p]]
    /\ writer' = [writer EXCEPT !.stage = "promoted"]
    /\ UNCHANGED <<now, manifest>>

\* Stage 3: the staged file replaces whatever is at the canonical path.
Promote ==
    /\ writer.stage = "staged"
    /\ LET path == CanonicalPath(writer.row)
       IN  files' = [p \in DOMAIN files \cup {path} |->
                        IF p = path THEN writer.row.checksum ELSE files[p]]
    /\ writer' = [writer EXCEPT !.stage = "promoted"]
    /\ UNCHANGED <<now, manifest>>

Insert ==
    /\ writer.stage = "promoted"
    /\ manifest' = Append(manifest, writer.row)
    /\ writer' = IF writer.row.revision_ts = NULL
                 THEN Idle ELSE [writer EXCEPT !.stage = "inserted"]
    /\ UNCHANGED <<now, files>>

\* Mutant: the two arguments of supersede() exchanged.
SupersedeSwapped ==
    /\ writer.stage = "inserted"
    /\ writer.first # NULL
    /\ manifest' = [manifest EXCEPT ![writer.id].superseded_by = writer.first]
    /\ writer' = Idle
    /\ UNCHANGED <<now, files>>

\* supersede() marks the first release, whatever has superseded it before.
Supersede ==
    /\ writer.stage = "inserted"
    /\ writer.first # NULL
    /\ manifest' = [manifest EXCEPT ![writer.first].superseded_by = writer.id]
    /\ writer' = Idle
    /\ UNCHANGED <<now, files>>

\* assert existing_first is not None, after the row has been inserted.
AssertFails ==
    /\ writer.stage = "inserted"
    /\ writer.first = NULL
    /\ writer' = [writer EXCEPT !.stage = "raised"]
    /\ UNCHANGED <<now, files, manifest>>

\* The process dies in the middle of a call and a new one opens the store.
Crash ==
    /\ MayCrash
    /\ writer.stage \in {"staged", "promoted", "inserted"}
    /\ writer' = Idle
    /\ UNCHANGED <<now, files, manifest>>

Advance ==
    /\ writer.stage \in {"idle", "raised"}
    /\ now < MaxTime
    /\ now' = now + 1
    /\ UNCHANGED <<files, manifest, writer>>

Next ==
    \/ \E rel \in Releases, obs \in Observations, data \in Payloads :
          \/ WriteVintage(rel, obs, data)
          \/ \E rev \in Stamps : WriteRevision(rel, obs, data, rev)
    \/ Promote
    \/ Insert
    \/ Supersede
    \/ AssertFails
    \/ Crash
    \/ Advance

Spec == Init /\ [][Next]_vars

-----------------------------------------------------------------------------
(***************************************************************************)
(* Properties.                                                             *)
(***************************************************************************)

\* The manifest, the files and the call under way are well-formed.
TypeOK ==
    /\ now \in 0 .. MaxTime
    /\ DOMAIN files \subseteq Path
    /\ \A p \in DOMAIN files : files[p] \in Payloads
    /\ manifest \in Seq(Row)
    /\ writer \in {Idle} \cup Call
    /\ writer.stage # "idle" => writer.first \in Rows \cup {NULL}

\* Uniqueness of (release_ts, observation, revision_ts) is the writer's doing,
\* not an index's: no crash and no retry stores one vintage slot twice.
SlotsUnique ==
    \A i, j \in Rows :
        /\ manifest[i].release_ts = manifest[j].release_ts
        /\ manifest[i].observation = manifest[j].observation
        /\ manifest[i].revision_ts = manifest[j].revision_ts
        => i = j

\* Every row of the manifest can be read back: its file is there with the
\* checksum of the row, so the audit finds no failure and no read raises
\* PITChecksumError, wherever earlier calls died.
RowsReadable == ChecksumFailures = {}

\* A moment no call under way can have observed.
Past(ts) ==
    ts < now /\ (writer.stage \in {"staged", "promoted", "inserted"} => ts < writer.row.ingest_ts)

\* What as_of answers for a moment before the call began changes only by the
\* late arrival of a first release or by a revision its caller stamped, never
\* by a revision that write_vintage stamps itself: it is known from its
\* ingest_ts on, and as_of leaves it out until then.
RevisionsKeepPast ==
    [][\A ts \in 0 .. MaxTime :
          (Past(ts) /\ AsOf(ts) # AsOf(ts)') =>
              /\ Len(manifest') > Len(manifest)
              /\ manifest'[Len(manifest')].revision_ts \in Stamps \cup {NULL}]_vars

\* A row marked superseded is not what as_of serves at the current time.
SupersededNotServed ==
    \A i \in AsOf(now) : manifest[i].superseded_by = NULL

=============================================================================
