--------------------------- MODULE RuntimeRestore ---------------------------
(***************************************************************************)
(* restore_runtime_snapshot of v2/runtime/restore.py: the ledger of a      *)
(* paper-live loop is copied, up to a verified receipt, into another       *)
(* runtime root, and a loop can then be opened on that root.               *)
(*                                                                         *)
(* The restore runs between ticks of the loop whose simulator it was given. *)
(* Every insert and every file copy takes effect at once, so a failure     *)
(* (a full disk, a killed process) leaves the target with a part of the    *)
(* rows; the next restore refuses that target unless told to overwrite it. *)
(***************************************************************************)
EXTENDS PaperLive

CONSTANT MaxRestores    \* bound: restores started

ASSUME RestoreAssumption == MaxRestores \in Nat

VARIABLES
    root,      \* what the target runtime root holds
    copying,   \* the restore under way: its snapshot and what is left to copy, or NULL
    restores,  \* restores started
    restored   \* the decision_ts of the restore that returned last, or NULL

restoring == <<root, copying, restores, restored>>
restoreVars == <<vars, restoring>>

NoRows == [ts \in Ts |-> NULL]
EmptyRoot == [decisions |-> NoRows, executions |-> [sc \in Scenario |-> NoRows],
              receipts |-> NoRows, hashes |-> NoRows]

\* The part of rows that a restore through ts copies.
Through(rows, ts) == [u \in Ts |-> IF u <= ts THEN rows[u] ELSE NULL]

RestoreInit == Init /\ root = EmptyRoot /\ copying = NULL /\ restores = 0 /\ restored = NULL

\* InternalSimulator.latest on the restored root, as SeedLots is on the source.
SeedLotsOf(r) ==
    LET rows == r.executions["optimistic"]
    IN  IF Recorded(rows) = {} THEN 0
        ELSE rows[CHOOSE ts \in Recorded(rows) : \A u \in Recorded(rows) : u <= ts].new_lots

\* _runtime_counts on a root, for rows up to ts
CountsIn(r, ts) ==
    [family_decisions |-> Cardinality(Recorded(r.decisions) \cap 1..ts),
     execution_ledger |-> Cardinality({x \in Scenario \X (1..ts) :
                                         r.executions[x[1]][x[2]] # NULL})]
\* verify_snapshot_receipt on a root
VerifiesIn(r, ts) ==
    LET receipt == r.receipts[ts]
    IN  /\ receipt # NULL
        /\ r.hashes[ts] = receipt
        /\ r.decisions[ts] = [id |-> receipt.decision, kill_switch |-> receipt.kill_switch]
        /\ \A sc \in Scenario : r.executions[sc][ts] = receipt.execution
        /\ receipt.runtime_counts = CountsIn(r, ts)

Source == [decisions |-> decisions, executions |-> executions,
           receipts |-> receipts, hashes |-> hashes]

(***************************************************************************)
(* What is copied: rows <<table, decision_ts>> of the two tables and files *)
(* <<file, decision_ts>> of each snapshot directory that has a receipt.    *)
(***************************************************************************)
Tables == {"decisions", "receipts", "hashes"} \cup Scenario
Cell(r, x) == IF x[1] \in Scenario THEN r.executions[x[1]][x[2]] ELSE r[x[1]][x[2]]
Copyable == {x \in Tables \X Ts :
               Cell(Source, x) # NULL /\ (x[1] = "hashes" => receipts[x[2]] # NULL)}

\* Mutant: the ledger is copied without its upper bound.
WholeLedger(ts) == {x \in Copyable : x[1] \in {"receipts", "hashes"} => x[2] <= ts}
Items(ts) == {x \in Copyable : x[2] <= ts}

\* ORDER BY decision_ts, scenario; directories by name, which is the time;
\* copytree takes the two files of a directory in any order.
Stage == [decisions |-> 1, optimistic |-> 2, pessimistic |-> 2, receipts |-> 3, hashes |-> 3]
CopiedBefore(x, y) ==
    \/ Stage[x[1]] < Stage[y[1]]
    \/ Stage[x[1]] = Stage[y[1]] /\ x[2] < y[2]
    \/ x[1] = "optimistic" /\ y[1] = "pessimistic" /\ x[2] = y[2]

\* restore_runtime_snapshot up to _prepare_target: an unverified source or a
\* target that is not empty is refused and nothing changes.
StartRestore(ts, overwrite) ==
    /\ pc = "idle" /\ copying = NULL /\ restores < MaxRestores
    /\ VerifiesIn(Source, ts)
    /\ root = EmptyRoot \/ overwrite
    /\ root' = EmptyRoot
    /\ restored' = NULL
    /\ copying' = [ts |-> ts, items |-> Items(ts)]
    /\ restores' = restores + 1
    /\ UNCHANGED vars

\* One row inserted or one file copied into r.
Filled(r, x) ==
    IF x[1] \in Scenario THEN [r EXCEPT !.executions[x[1]][x[2]] = Cell(Source, x)]
                         ELSE [r EXCEPT ![x[1]][x[2]] = Cell(Source, x)]
CopyItem ==
    /\ copying # NULL
    /\ \E x \in copying.items :
          /\ \A y \in copying.items : ~ CopiedBefore(y, x)
          /\ root' = Filled(root, x)
          /\ copying' = [copying EXCEPT !.items = @ \ {x}]
    /\ UNCHANGED <<vars, restores, restored>>

\* The restored root must verify in its turn; RestoreNeverRefused says that the
\* error branch for a root that does not is never taken.
FinishRestore ==
    /\ copying # NULL /\ copying.items = {}
    /\ VerifiesIn(root, copying.ts)
    /\ restored' = copying.ts
    /\ copying' = NULL
    /\ UNCHANGED <<vars, root, restores>>

\* An insert or a copy fails and the exception ends the restore.
RestoreFails ==
    /\ copying # NULL
    /\ copying' = NULL
    /\ UNCHANGED <<vars, root, restores, restored>>

RestoreNext ==
    \/ copying = NULL /\ Next /\ UNCHANGED restoring
    \/ \E ts \in Ts, overwrite \in BOOLEAN : StartRestore(ts, overwrite)
    \/ CopyItem
    \/ FinishRestore
    \/ RestoreFails

RestoreSpec == RestoreInit /\ [][RestoreNext]_restoreVars
-----------------------------------------------------------------------------
\* The target root is well-formed, and a restore knows the snapshot it restores.
RestoreTypeOK ==
    /\ root \in [decisions : [Ts -> DecisionRowType \cup {NULL}],
                 executions : [Scenario -> [Ts -> ExecutionType \cup {NULL}]],
                 receipts : [Ts -> ReceiptType \cup {NULL}],
                 hashes : [Ts -> ReceiptType \cup {NULL}]]
    /\ copying # NULL => copying \in [ts : Ts, items : SUBSET (Tables \X Ts)]
    /\ restores \in 0..MaxRestores /\ restored \in Ts \cup {NULL}

\* Whoever checks the target's receipt before using it is never misled by a
\* restore that failed half-way: a receipt verifies there only when every row
\* up to it is there, and then so do the receipts of all earlier ticks.
VerifiedIsWhole ==
    \A ts \in Ts : VerifiesIn(root, ts) =>
        /\ Through(root.decisions, ts) = Through(decisions, ts)
        /\ \A sc \in Scenario : Through(root.executions[sc], ts) = Through(executions[sc], ts)
        /\ \A u \in done : u <= ts => VerifiesIn(root, u)

\* A loop opened on the restored root starts from the position the family
\* held when the snapshot was taken, whatever was traded afterwards.
RestoredPosition == restored # NULL => SeedLotsOf(root) = Row(restored).new_lots

\* A restore through a receipt that verifies succeeds unless a write fails.
RestoreNeverRefused ==
    copying # NULL /\ copying.items = {} => VerifiesIn(root, copying.ts)

\* A restore gives back the book of its snapshot, and one that a failed write
\* cut short cannot be taken for it.
RestoreReproduces == VerifiedIsWhole /\ RestoredPosition /\ RestoreNeverRefused
=============================================================================
