---------------------------- MODULE Snapshotter ----------------------------
(***************************************************************************)
(* Snapshots and retention of one deck's op log: snapshot.go, and pruneOnce *)
(* of the sync worker's main.go (prune.go holds the same DELETE), over the *)
(* table of OpTable.  Nothing here reads branch_heads.                     *)
(*                                                                         *)
(* CreateSnapshot runs in goroutines of its own and issues one statement   *)
(* after another without a transaction: each statement is a step, and the  *)
(* flushes, the gateway's inserts, the pruner and other runs of            *)
(* CreateSnapshot go on in between.                                        *)
(***************************************************************************)
EXTENDS OpTable, FiniteSets

CONSTANTS Runs,           \* bound: concurrent runs of CreateSnapshot
          Main,           \* the branch "main"
          SnapshotEvery,  \* snapshotEvery
          QueryErrors,    \* whether the queries of a run may fail
          MaxBatch,       \* bound: records in a flushed batch
          MaxSnaps        \* bound: snapshot rows written

ASSUME SnapshotterAssumption ==
  /\ Main \in Branches
  /\ SnapshotEvery \in Nat \ {0}
  /\ QueryErrors \in BOOLEAN
  /\ MaxBatch \in Nat
  /\ MaxSnaps \in Nat

VARIABLES
  snaps,      \* the snapshot rows of crdt_logs: an HLC and the ops of the payload
  aged,       \* op rows older than the retention period
  unreported, \* records of a committed batch the flush callback has still to see
  count,      \* m.counts[deck]
  pc,         \* where each run of CreateSnapshot is
  last,       \* per run: lastPhys, lastLogi
  branches,   \* per run: the listed branches
  todo,       \* per run: branches the loop of this phase has still to query
  top,        \* per run: maxPhys, maxLogi
  payload,    \* per run: the ops in allPayloads
  logged,     \* history: every op that was ever a row of crdt_logs
  excused     \* history: ops that a step may have given up (see each use)

runVars == <<pc, last, branches, todo, top, payload>>
history == <<logged, excused>>
snapVars == <<log, snaps, aged, unreported, count, runVars, history>>

SnapInit ==
  /\ log = {}
  /\ snaps = {}
  /\ aged = {}
  /\ unreported = 0
  /\ count = 0
  /\ pc = [r \in Runs |-> "idle"]
  /\ last = [r \in Runs |-> Zero]
  /\ branches = [r \in Runs |-> {}]
  /\ todo = [r \in Runs |-> {}]
  /\ top = [r \in Runs |-> Zero]
  /\ payload = [r \in Runs |-> {}]
  /\ logged = {}
  /\ excused = {}

-----------------------------------------------------------------------------
(* Queries *)

(* ORDER BY hlc_physical DESC, hlc_logical DESC LIMIT 1 over the rows.     *)
SnapshotHLCs == {s.hlc : s \in snaps}

BehindSnapshot(o) == \E s \in snaps : AtOrBefore(HlcOf[o], s.hlc)

(* Strictly after the HLC, the condition of BranchMaxHLC and PayloadsSince. *)
OpsSince(b, h) == {o \in OnBranch(log, b) : Before(h, HlcOf[o])}

ListBranches == IF log = {} THEN {Main} ELSE Touched(log)

(* A column's MAX, COALESCEd to 0. *)
ColumnMax(m, S) == IF S = {} THEN m = 0 ELSE m \in S /\ \A x \in S : x <= m

(* BranchMaxHLC takes the maximum of each column by itself. *)
BranchMaxHLC(m, S) ==
  /\ ColumnMax(m.physical, {h.physical : h \in S})
  /\ ColumnMax(m.logical, {h.logical : h \in S})

-----------------------------------------------------------------------------
(* Arrival of ops *)

(* A run that will not read o any more and whose row may still cover it.   *)
PassedBy(r, o) ==
  \/ pc[r] = "max" /\ BranchOf[o] \notin branches[r]
  \/ /\ pc[r] = "payloads" /\ BranchOf[o] \notin todo[r]
     /\ AtOrBefore(HlcOf[o], top[r])
  \/ pc[r] = "insert" /\ AtOrBefore(HlcOf[o], top[r])

IsLate(o) ==
  \/ AtOrBefore(HlcOf[o], Zero)
  \/ BehindSnapshot(o)
  \/ \E r \in Runs : PassedBy(r, o)

Arrive(S) ==
  /\ logged' = logged \cup S
  /\ excused' = excused \cup {o \in S \ log : IsLate(o)}

(* How many records a batch of these ops may hold: some may be repeated. *)
BatchSizes(batch) == {n \in 1..MaxBatch : n >= Cardinality(batch)}

(* A flush commits.  The callback follows, unless the commit's answer was  *)
(* lost: then InsertOps returned an error and flush has no more to do.     *)
Flush(batch, n) ==
  /\ unreported = 0
  /\ InsertRows(batch)
  /\ Arrive(batch)
  /\ unreported' \in {0, n}
  /\ UNCHANGED <<snaps, aged, count, runVars>>

Receive(o) ==
  /\ InsertReceived(o)
  /\ Arrive({o})
  /\ UNCHANGED <<snaps, aged, unreported, count, runVars>>

-----------------------------------------------------------------------------
(* The snapshot manager *)

NoReset(c) == c  \* mutant: a run starts and the count goes on

(* The count after a callback that brings it to c. *)
Counted(c) == IF c >= SnapshotEvery THEN 0 ELSE c

(* The flush callback: it counts records, duplicates included, and starts  *)
(* a run when the count reaches the threshold.                             *)
OnOpsFlushed ==
  /\ unreported > 0
  /\ unreported' = 0
  /\ count' = Counted(count + unreported)
  /\ \/ count + unreported < SnapshotEvery /\ UNCHANGED pc
     \/ /\ count + unreported >= SnapshotEvery
        /\ \E r \in Runs :
             /\ pc[r] = "idle"
             /\ pc' = [pc EXCEPT ![r] = "last"]
  /\ UNCHANGED <<log, snaps, aged, last, branches, todo, top, payload,
                 history>>

(* Where a run goes, and what its locals are reset to.                     *)
Return(r) ==
  /\ pc' = [pc EXCEPT ![r] = "idle"]
  /\ last' = [last EXCEPT ![r] = Zero]
  /\ branches' = [branches EXCEPT ![r] = {}]
  /\ todo' = [todo EXCEPT ![r] = {}]
  /\ top' = [top EXCEPT ![r] = Zero]
  /\ payload' = [payload EXCEPT ![r] = {}]

(* LastSnapshotHLC answers (0, 0) when there is no row, and for a failed    *)
(* query too.                                                              *)
ReadLast(r) ==
  /\ pc[r] = "last"
  /\ pc' = [pc EXCEPT ![r] = "list"]
  /\ \/ /\ QueryErrors \/ snaps = {}
        /\ last' = [last EXCEPT ![r] = Zero]
     \/ \E h \in SnapshotHLCs :
          IsLatest(h, SnapshotHLCs) /\ last' = [last EXCEPT ![r] = h]
  /\ UNCHANGED <<log, snaps, aged, unreported, count, branches, todo, top,
                 payload, history>>

List(r) ==
  /\ pc[r] = "list"
  /\ \/ /\ branches' = [branches EXCEPT ![r] = ListBranches]
        /\ todo' = [todo EXCEPT ![r] = ListBranches]
        /\ pc' = [pc EXCEPT ![r] = "max"]
        /\ UNCHANGED <<last, top, payload>>
     \/ QueryErrors /\ Return(r)
  /\ UNCHANGED <<log, snaps, aged, unreported, count, history>>

(* One turn of the first loop; a branch whose query fails is left out. *)
ReadMax(r, b) ==
  /\ pc[r] = "max"
  /\ b \in todo[r]
  /\ \/ QueryErrors /\ UNCHANGED top
     \/ \E m \in [physical : {0} \cup {h.physical : h \in HlcsOf(log)},
                  logical  : {0} \cup {h.logical : h \in HlcsOf(log)}] :
          /\ BranchMaxHLC(m, HlcsOf(OpsSince(b, last[r])))
          /\ top' = [top EXCEPT ![r] = IF Before(@, m) THEN m ELSE @]
  /\ todo' = [todo EXCEPT ![r] = IF @ = {b} THEN branches[r] ELSE @ \ {b}]
  /\ pc' = [pc EXCEPT ![r] = IF todo[r] = {b} THEN "payloads" ELSE "max"]
  /\ UNCHANGED <<log, snaps, aged, unreported, count, last, branches,
                 payload, history>>

(* One turn of the second loop; a branch whose query fails is left out,    *)
(* although the maximum may include it.                                    *)
ReadPayloads(r, b) ==
  /\ pc[r] = "payloads"
  /\ b \in todo[r]
  /\ \/ /\ payload' = [payload EXCEPT ![r] = @ \cup OpsSince(b, last[r])]
        /\ UNCHANGED excused
     \/ /\ QueryErrors
        /\ excused' = excused \cup OpsSince(b, last[r])
        /\ UNCHANGED payload
  /\ todo' = [todo EXCEPT ![r] = @ \ {b}]
  /\ pc' = [pc EXCEPT ![r] = IF todo[r] = {b} THEN "insert" ELSE "payloads"]
  /\ UNCHANGED <<log, snaps, aged, unreported, count, last, branches, top,
                 logged>>

RowOf(r) == [hlc |-> top[r], ops |-> payload[r]]

(* The row is written, unless nothing was read or the INSERT fails. *)
InsertRow(r) ==
  /\ pc[r] = "insert"
  /\ \/ /\ payload[r] # {}
        /\ Cardinality(snaps) < MaxSnaps
        /\ snaps' = snaps \cup {RowOf(r)}
     \/ /\ payload[r] = {} \/ QueryErrors
        /\ UNCHANGED snaps
  /\ Return(r)
  /\ UNCHANGED <<log, aged, unreported, count, history>>

-----------------------------------------------------------------------------
(* The pruner, and time *)

(* mutant: keeps what the latest snapshot covers, deletes the tail *)
PrunesTail(o) == snaps = {} \/ ~ BehindSnapshot(o)

(* Old enough, and either the deck has no snapshot or the op is at or      *)
(* before the latest one.                                                  *)
Prunable(o) == snaps = {} \/ BehindSnapshot(o)

(* The DELETE of pruneOnce is one statement. *)
Prune ==
  LET gone == {o \in aged : Prunable(o)}
  IN  /\ log' = log \ gone
      /\ aged' = aged \ gone
      /\ excused' = IF snaps = {} THEN excused \cup gone ELSE excused
      /\ UNCHANGED <<snaps, unreported, count, runVars, logged>>

(* The retention period passes: PRUNE_AFTER_DAYS, against the 30 seconds   *)
(* after which a run of CreateSnapshot is cancelled.                       *)
RetentionElapses ==
  /\ \A r \in Runs : pc[r] = "idle"
  /\ aged' = log
  /\ UNCHANGED <<log, snaps, unreported, count, runVars, history>>

(* The process dies and starts again: counts and goroutines are gone. *)
Restart ==
  /\ unreported' = 0
  /\ count' = 0
  /\ pc' = [r \in Runs |-> "idle"]
  /\ last' = [r \in Runs |-> Zero]
  /\ branches' = [r \in Runs |-> {}]
  /\ todo' = [r \in Runs |-> {}]
  /\ top' = [r \in Runs |-> Zero]
  /\ payload' = [r \in Runs |-> {}]
  /\ UNCHANGED <<log, snaps, aged, history>>

CreateSnapshot(r) ==
  \/ ReadLast(r) \/ List(r) \/ InsertRow(r)
  \/ \E b \in Branches : ReadMax(r, b) \/ ReadPayloads(r, b)

SnapNext ==
  \/ \E batch \in SUBSET Ops \ {{}} :
       \E n \in BatchSizes(batch) : Flush(batch, n)
  \/ \E o \in Ops : Receive(o)
  \/ OnOpsFlushed
  \/ \E r \in Runs : CreateSnapshot(r)
  \/ Prune
  \/ RetentionElapses
  \/ Restart

SnapSpec == SnapInit /\ [][SnapNext]_snapVars

-----------------------------------------------------------------------------
(* Properties *)

Rows == [hlc : HLC, ops : SUBSET Ops]

(* Types; the counter stays below the threshold, and a loop never holds a  *)
(* branch it has not listed.                                               *)
SnapTypeOK ==
  /\ snaps \subseteq Rows
  /\ aged \subseteq log
  /\ unreported \in Nat
  /\ count \in 0..(SnapshotEvery - 1)
  /\ pc \in [Runs -> {"idle", "last", "list", "max", "payloads", "insert"}]
  /\ last \in [Runs -> HLC]
  /\ branches \in [Runs -> SUBSET Branches]
  /\ todo \in [Runs -> SUBSET Branches]
  /\ \A r \in Runs : todo[r] \subseteq branches[r]
  /\ top \in [Runs -> HLC]
  /\ payload \in [Runs -> SUBSET Ops]
  /\ log \subseteq logged /\ logged \subseteq Ops
  /\ excused \subseteq logged

Snapshotted == UNION {s.ops : s \in snaps}

(* Ops that neither the log nor any snapshot holds. *)
Lost == logged \ (log \cup Snapshotted)

(* The only ways to lose an op for good: it was pruned from a deck without *)
(* snapshots, a run failed to read its branch, or it arrived late, with an *)
(* HLC that a snapshot row, or a run past reading its branch, covers.      *)
(* Crashes, failed inserts, overlapping runs, lost counts and the          *)
(* overshooting maximum of BranchMaxHLC lose none.                         *)
LossIsExplained == Lost \subseteq excused

-----------------------------------------------------------------------------
(* What comments of the code say, and the code does not do *)

(* prune.go: "ensuring that snapshot + tail replay always reconstructs     *)
(* state".  No op is in neither the log nor a snapshot.                    *)
ReplayReconstructs == Lost = {}

(* snapshot.go: "The actual DB writes happen synchronously inside the      *)
(* callback so snapshot rows are always consistent with the op log".  When *)
(* a row is written, snapshots hold every op of the log up to its HLC.     *)
RowsConsistent ==
  [][\A s \in snaps' \ snaps : \A o \in log :
       AtOrBefore(HlcOf[o], s.hlc) => o \in Snapshotted']_snapVars

(* snapshot.go: "New subscribers can load the latest snapshot and only     *)
(* replay the (smaller) tail of operations after it".  What an earlier     *)
(* snapshot holds is in the latest one, or in the tail after it.           *)
LatestSnapshotSuffices ==
  \A s \in snaps :
    IsLatest(s.hlc, SnapshotHLCs)
      => Snapshotted \subseteq s.ops \cup {o \in log : Before(s.hlc, HlcOf[o])}

(* snapshot.go: "BranchMaxHLC returns the max HLC among non-snapshot ops   *)
(* on the branch".  The HLC a run computes is that of an op.               *)
MaxIsOfAnOp == \A r \in Runs : top[r] \in {Zero} \cup HlcsOf(logged)
=============================================================================
