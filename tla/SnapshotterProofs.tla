------------------------- MODULE SnapshotterProofs -------------------------
(***************************************************************************)
(* Proofs about snapshots and retention, for every set of ops, branches    *)
(* and HLCs, any number of concurrent runs and every threshold.            *)
(***************************************************************************)
EXTENDS Snapshotter, TLAPS

USE OpTableAssumption

(* A query for payloads returns ops of the log.                            *)
LEMMA OpsSinceAreOps ==
  ASSUME log \subseteq Ops, NEW b, NEW h
  PROVE  OpsSince(b, h) \subseteq log
BY DEF OpsSince, OnBranch

(* Types hold in every reachable state, the counter among them: no flush   *)
(* leaves it at or above the threshold.                                    *)
THEOREM SnapTypeCorrect == SnapSpec => []SnapTypeOK
<1>1. SnapInit => SnapTypeOK
  BY SnapshotterAssumption DEF SnapInit, SnapTypeOK, HLC, Zero, Rows
<1>2. SnapTypeOK /\ [SnapNext]_snapVars => SnapTypeOK'
  <2> SUFFICES ASSUME SnapTypeOK, [SnapNext]_snapVars
               PROVE  SnapTypeOK'
    OBVIOUS
  <2> USE DEF SnapTypeOK
  <2>z. Zero \in HLC
    BY DEF Zero, HLC
  <2>h. ASSUME NEW S \in SUBSET Ops PROVE HlcsOf(S) \subseteq HLC
    BY DEF HlcsOf
  <2>1. ASSUME NEW batch \in SUBSET Ops,
               NEW n \in BatchSizes(batch), Flush(batch, n)
        PROVE  SnapTypeOK'
    <3>1. n \in Nat
      BY DEF BatchSizes
    <3> QED
      BY <2>1, <3>1 DEF Flush, Arrive, InsertRows, runVars
  <2>2. ASSUME NEW o \in Ops, Receive(o)
        PROVE  SnapTypeOK'
    BY <2>2 DEF Receive, Arrive, InsertReceived, runVars
  <2>3. CASE OnOpsFlushed
    <3>1. count' \in 0..(SnapshotEvery - 1)
      BY <2>3, SnapshotterAssumption DEF OnOpsFlushed, Counted
    <3>2. pc' \in [Runs -> {"idle", "last", "list", "max", "payloads", "insert"}]
      BY <2>3 DEF OnOpsFlushed
    <3> QED
      BY <2>3, <3>1, <3>2 DEF OnOpsFlushed, history
  <2>4. ASSUME NEW r \in Runs, ReadLast(r)
        PROVE  SnapTypeOK'
    <3>1. \A s \in snaps : s.hlc \in HLC
      BY DEF Rows
    <3>2. PICK h \in {Zero} \cup SnapshotHLCs : last' = [last EXCEPT ![r] = h]
      BY <2>4 DEF ReadLast
    <3>3. last' \in [Runs -> HLC]
      BY <2>z, <3>1, <3>2 DEF SnapshotHLCs
    <3> QED
      BY <2>4, <3>3 DEF ReadLast, history
  <2>5. ASSUME NEW r \in Runs, List(r)
        PROVE  SnapTypeOK'
    <3>1. ListBranches \subseteq Branches
      BY SnapshotterAssumption DEF ListBranches, Touched
    <3> QED
      BY <2>5, <2>z, <3>1 DEF List, Return, history
  <2>6. ASSUME NEW r \in Runs, NEW b \in Branches, ReadMax(r, b)
        PROVE  SnapTypeOK'
    <3>1. /\ {0} \cup {h.physical : h \in HlcsOf(log)} \subseteq Nat
          /\ {0} \cup {h.logical : h \in HlcsOf(log)} \subseteq Nat
      BY <2>h DEF HLC
    <3>2. top' \in [Runs -> HLC]
      <4>1. CASE UNCHANGED top
        BY <4>1
      <4>2. ASSUME NEW m \in HLC,
                   top' = [top EXCEPT ![r] = IF Before(@, m) THEN m ELSE @]
            PROVE  top' \in [Runs -> HLC]
        BY <4>2
      <4>3. ASSUME NEW m \in [physical : {0} \cup {h.physical : h \in HlcsOf(log)},
                               logical  : {0} \cup {h.logical : h \in HlcsOf(log)}]
            PROVE  m \in HLC
        BY <3>1 DEF HLC
      <4> QED
        BY <2>6, <4>1, <4>2, <4>3 DEF ReadMax
    <3>3. /\ todo' \in [Runs -> SUBSET Branches]
          /\ \A q \in Runs : todo'[q] \subseteq branches'[q]
      BY <2>6 DEF ReadMax
    <3>4. pc' \in [Runs -> {"idle", "last", "list", "max", "payloads", "insert"}]
      BY <2>6 DEF ReadMax
    <3> QED
      BY <2>6, <3>2, <3>3, <3>4 DEF ReadMax, history
  <2>7. ASSUME NEW r \in Runs, NEW b \in Branches, ReadPayloads(r, b)
        PROVE  SnapTypeOK'
    <3>1. OpsSince(b, last[r]) \subseteq log
      BY OpsSinceAreOps
    <3>2. payload' \in [Runs -> SUBSET Ops] /\ excused' \subseteq logged
      BY <2>7, <3>1 DEF ReadPayloads
    <3>3. /\ todo' \in [Runs -> SUBSET Branches]
          /\ \A q \in Runs : todo'[q] \subseteq branches'[q]
      BY <2>7 DEF ReadPayloads
    <3>4. pc' \in [Runs -> {"idle", "last", "list", "max", "payloads", "insert"}]
      BY <2>7 DEF ReadPayloads
    <3> QED
      BY <2>7, <3>2, <3>3, <3>4 DEF ReadPayloads
  <2>8. ASSUME NEW r \in Runs, InsertRow(r)
        PROVE  SnapTypeOK'
    <3>1. RowOf(r) \in Rows
      BY DEF RowOf, Rows
    <3> QED
      BY <2>8, <2>z, <3>1 DEF InsertRow, Return, history
  <2>9. CASE Prune
    BY <2>9 DEF Prune, runVars
  <2>10. CASE RetentionElapses
    BY <2>10 DEF RetentionElapses, runVars, history
  <2>11. CASE Restart
    BY <2>11, <2>z, SnapshotterAssumption DEF Restart, history
  <2>12. CASE UNCHANGED snapVars
    BY <2>12 DEF snapVars, runVars, history
  <2> QED
    BY <2>1, <2>2, <2>3, <2>4, <2>5, <2>6, <2>7, <2>8, <2>9, <2>10, <2>11, <2>12
    DEF SnapNext, CreateSnapshot
<1> QED
  BY <1>1, <1>2, PTL DEF SnapSpec

-----------------------------------------------------------------------------
(* An HLC that is not at or before another is after it.                    *)
LEMMA NotBehind ==
  ASSUME NEW a \in HLC, NEW b \in HLC, ~ AtOrBefore(a, b)
  PROVE  Before(b, a)
<1>1. /\ a.physical \in Nat /\ a.logical \in Nat
      /\ b.physical \in Nat /\ b.logical \in Nat
  BY DEF HLC
<1>2. a.physical = b.physical /\ a.logical = b.logical => a = b
  BY DEF HLC
<1> QED
  BY <1>1, <1>2 DEF AtOrBefore, Before

(* An HLC after another is not at or before it.                            *)
LEMMA BehindIsNotBefore ==
  ASSUME NEW a \in HLC, NEW b \in HLC, Before(b, a)
  PROVE  ~ AtOrBefore(a, b)
BY DEF AtOrBefore, Before, HLC

(* A row of the log that no snapshot row covers and no run has passed by:  *)
(* whatever the runs in progress write, o is in their payload or stays     *)
(* after their HLC.                                                        *)
Pending(o) ==
  /\ o \in log
  /\ Before(Zero, HlcOf[o])
  /\ \A s \in snaps : Before(s.hlc, HlcOf[o])
  /\ \A r \in Runs :
       /\ pc[r] \in {"list", "max", "payloads", "insert"}
            => Before(last[r], HlcOf[o])
       /\ pc[r] = "max" => BranchOf[o] \in branches[r]
       /\ pc[r] = "payloads" => \/ BranchOf[o] \in todo[r]
                                \/ o \in payload[r]
                                \/ Before(top[r], HlcOf[o])
       /\ pc[r] = "insert" => o \in payload[r] \/ Before(top[r], HlcOf[o])

(* The HLC a run starts from is Zero or that of a snapshot row. *)
LastInv == \A r \in Runs : last[r] = Zero \/ \E s \in snaps : last[r] = s.hlc

KeptInv == \A o \in logged \ excused : Pending(o) \/ o \in Snapshotted

(* Every step keeps LastInv.                                               *)
LEMMA LastStep ==
  ASSUME SnapTypeOK, LastInv, [SnapNext]_snapVars
  PROVE  LastInv'
<1> USE DEF LastInv
<1>1. ASSUME NEW batch, NEW n, Flush(batch, n)
      PROVE  LastInv'
  BY <1>1 DEF Flush, runVars
<1>2. ASSUME NEW o, Receive(o)
      PROVE  LastInv'
  BY <1>2 DEF Receive, runVars
<1>3. ASSUME NEW r \in Runs, ReadLast(r)
      PROVE  LastInv'
  <2>1. \A q \in Runs : \/ last'[q] = last[q] \/ last'[q] = Zero
                       \/ \E s \in snaps : last'[q] = s.hlc
    <3>1. PICK h \in {Zero} \cup SnapshotHLCs : last' = [last EXCEPT ![r] = h]
      BY <1>3 DEF ReadLast
    <3> QED
      BY <3>1 DEF SnapTypeOK, SnapshotHLCs
  <2>2. snaps' = snaps
    BY <1>3 DEF ReadLast
  <2> QED
    BY <2>1, <2>2
<1>4. ASSUME NEW r \in Runs, List(r)
      PROVE  LastInv'
  <2>1. \A q \in Runs : last'[q] = last[q] \/ last'[q] = Zero
    BY <1>4 DEF List, Return, SnapTypeOK
  <2>2. snaps' = snaps
    BY <1>4 DEF List
  <2> QED
    BY <2>1, <2>2
<1>5. ASSUME NEW r \in Runs, NEW b, ReadMax(r, b) \/ ReadPayloads(r, b)
      PROVE  LastInv'
  BY <1>5 DEF ReadMax, ReadPayloads
<1>6. ASSUME NEW r \in Runs, InsertRow(r)
      PROVE  LastInv'
  <2>1. snaps \subseteq snaps'
    BY <1>6 DEF InsertRow
  <2>2. \A q \in Runs : last'[q] = Zero \/ last'[q] = last[q]
    BY <1>6 DEF InsertRow, Return, SnapTypeOK
  <2> QED
    BY <2>1, <2>2
<1>7. CASE OnOpsFlushed \/ Prune \/ RetentionElapses \/ Restart
  BY <1>7 DEF OnOpsFlushed, Prune, RetentionElapses, Restart, runVars
<1>8. CASE UNCHANGED snapVars
  BY <1>8 DEF snapVars, runVars
<1> QED
  BY <1>1, <1>2, <1>3, <1>4, <1>5, <1>6, <1>7, <1>8
  DEF SnapNext, CreateSnapshot

(* An op that arrives and is not late is pending. *)
LEMMA ArrivesPending ==
  ASSUME SnapTypeOK, LastInv, NEW o \in Ops, ~ IsLate(o),
         o \in log', UNCHANGED <<snaps, runVars>>
  PROVE  Pending(o)'
<1> USE DEF SnapTypeOK
<1>1. HlcOf[o] \in HLC /\ Zero \in HLC
  BY DEF Zero, HLC
<1>2. Before(Zero, HlcOf[o])
  BY <1>1, NotBehind DEF IsLate
<1>3. \A s \in snaps : Before(s.hlc, HlcOf[o])
  <2>1. \A s \in snaps : s.hlc \in HLC
    BY DEF Rows
  <2> QED
    BY <1>1, <2>1, NotBehind DEF IsLate, BehindSnapshot
<1>4. \A r \in Runs : Before(last[r], HlcOf[o])
  BY <1>2, <1>3 DEF LastInv
<1>5. \A r \in Runs : ~ PassedBy(r, o)
  BY DEF IsLate
<1>6. ASSUME NEW r \in Runs
      PROVE  /\ pc[r] = "max" => BranchOf[o] \in branches[r]
             /\ pc[r] = "payloads" => \/ BranchOf[o] \in todo[r]
                                      \/ Before(top[r], HlcOf[o])
             /\ pc[r] = "insert" => Before(top[r], HlcOf[o])
  <2>1. top[r] \in HLC
    OBVIOUS
  <2> QED
    BY <1>1, <1>5, <2>1, NotBehind DEF PassedBy
<1> QED
  BY <1>2, <1>3, <1>4, <1>6 DEF Pending, runVars

(* Every step keeps KeptInv.                                               *)
LEMMA KeptStep ==
  ASSUME SnapTypeOK, LastInv, KeptInv, [SnapNext]_snapVars
  PROVE  KeptInv'
<1> USE DEF SnapTypeOK
<1>a. ASSUME NEW S \in SUBSET Ops, Arrive(S), InsertRows(S),
             UNCHANGED <<snaps, runVars>>
      PROVE  KeptInv'
  <2> SUFFICES ASSUME NEW o \in logged' \ excused',
                      ~ (o \in Snapshotted)'
               PROVE  Pending(o)'
    BY DEF KeptInv
  <2>1. o \notin Snapshotted /\ o \notin excused
    BY <1>a DEF Snapshotted, Arrive
  <2>2. CASE o \in log
    <3>1. Pending(o)
      BY <2>1, <2>2 DEF KeptInv
    <3> QED
      BY <1>a, <3>1 DEF Pending, InsertRows, runVars
  <2>3. CASE o \notin log
    <3>1. o \in S /\ ~ IsLate(o)
      <4>1. o \in S
        BY <1>a, <2>1, <2>3 DEF Arrive, KeptInv, Pending
      <4> QED
        BY <1>a, <2>3, <4>1 DEF Arrive
    <3>2. o \in Ops /\ o \in log'
      BY <1>a, <3>1 DEF InsertRows
    <3> QED
      BY <1>a, <3>1, <3>2, ArrivesPending
  <2> QED
    BY <2>2, <2>3
<1>1. ASSUME NEW batch \in SUBSET Ops, NEW n, Flush(batch, n)
      PROVE  KeptInv'
  BY <1>1, <1>a DEF Flush
<1>2. ASSUME NEW o \in Ops, Receive(o)
      PROVE  KeptInv'
  BY <1>2, <1>a DEF Receive, InsertReceived, InsertRows
<1>b. ASSUME logged' = logged, excused \subseteq excused', snaps \subseteq snaps',
             \A o \in logged \ excused' :
               o \notin Snapshotted' /\ Pending(o) => Pending(o)'
      PROVE  KeptInv'
  <2>1. Snapshotted \subseteq Snapshotted'
    BY <1>b DEF Snapshotted
  <2> QED
    BY <1>b, <2>1 DEF KeptInv
<1>3. CASE OnOpsFlushed
  <2>1. \A r \in Runs : pc'[r] = pc[r] \/ pc'[r] = "last"
    BY <1>3 DEF OnOpsFlushed
  <2>2. ASSUME NEW o, Pending(o) PROVE Pending(o)'
    BY <1>3, <2>1, <2>2 DEF OnOpsFlushed, Pending
  <2> QED
    BY <1>3, <1>b, <2>2 DEF OnOpsFlushed, history
<1>4. ASSUME NEW r \in Runs, ReadLast(r)
      PROVE  KeptInv'
  <2>1. ASSUME NEW o, Pending(o) PROVE Pending(o)'
    <3>1. /\ \A q \in Runs \ {r} : pc'[q] = pc[q] /\ last'[q] = last[q]
          /\ pc'[r] = "list"
          /\ last'[r] = Zero \/ \E s \in snaps : last'[r] = s.hlc
      BY <1>4 DEF ReadLast, SnapshotHLCs
    <3>2. UNCHANGED <<log, snaps, branches, todo, top, payload>>
      BY <1>4 DEF ReadLast
    <3>3. Before(last'[r], HlcOf[o])
      BY <2>1, <3>1 DEF Pending
    <3> QED
      BY <2>1, <3>1, <3>2, <3>3 DEF Pending
  <2> QED
    BY <1>4, <1>b, <2>1 DEF ReadLast, history
<1>5. ASSUME NEW r \in Runs, List(r)
      PROVE  KeptInv'
  <2>1. ASSUME NEW o, Pending(o) PROVE Pending(o)'
    <3>1. CASE Return(r)
      <4>1. /\ \A q \in Runs \ {r} : /\ pc'[q] = pc[q] /\ last'[q] = last[q]
                                     /\ branches'[q] = branches[q]
                                     /\ todo'[q] = todo[q] /\ top'[q] = top[q]
                                     /\ payload'[q] = payload[q]
            /\ pc'[r] = "idle"
        BY <3>1 DEF Return
      <4> QED
        BY <1>5, <2>1, <4>1 DEF List, Pending
    <3>2. CASE ~ Return(r)
      <4>1. /\ \A q \in Runs \ {r} : /\ pc'[q] = pc[q]
                                     /\ branches'[q] = branches[q]
                                     /\ todo'[q] = todo[q]
            /\ pc[r] = "list" /\ pc'[r] = "max"
            /\ branches'[r] = ListBranches
            /\ UNCHANGED <<log, snaps, last, top, payload>>
        BY <1>5, <3>2 DEF List
      <4>2. BranchOf[o] \in ListBranches
        BY <2>1 DEF ListBranches, Touched, Pending
      <4> QED
        BY <2>1, <4>1, <4>2 DEF Pending
    <3> QED
      BY <3>1, <3>2
  <2> QED
    BY <1>5, <1>b, <2>1 DEF List, history
<1>6. ASSUME NEW r \in Runs, NEW b \in Branches, ReadMax(r, b)
      PROVE  KeptInv'
  <2>1. ASSUME NEW o, Pending(o) PROVE Pending(o)'
    <3>1. /\ \A q \in Runs \ {r} : /\ pc'[q] = pc[q] /\ todo'[q] = todo[q]
                                   /\ top'[q] = top[q]
          /\ UNCHANGED <<log, snaps, last, branches, payload>>
          /\ pc[r] = "max"
      BY <1>6 DEF ReadMax
    <3>2. \/ pc'[r] = "max"
          \/ pc'[r] = "payloads" /\ todo'[r] = branches[r]
      BY <1>6 DEF ReadMax
    <3> QED
      BY <2>1, <3>1, <3>2 DEF Pending
  <2> QED
    BY <1>6, <1>b, <2>1 DEF ReadMax, history
<1>7. ASSUME NEW r \in Runs, NEW b \in Branches, ReadPayloads(r, b)
      PROVE  KeptInv'
  <2>1. ASSUME NEW o \in logged \ excused', Pending(o) PROVE Pending(o)'
    <3>1. /\ \A q \in Runs \ {r} : /\ pc'[q] = pc[q] /\ todo'[q] = todo[q]
                                   /\ payload'[q] = payload[q]
          /\ UNCHANGED <<log, snaps, last, branches, top>>
          /\ pc[r] = "payloads" /\ payload[r] \subseteq payload'[r]
      BY <1>7 DEF ReadPayloads
    <3>2. \/ pc'[r] = "payloads" /\ todo'[r] = todo[r] \ {b}
          \/ pc'[r] = "insert" /\ todo[r] = {b}
      BY <1>7 DEF ReadPayloads
    <3>3. ASSUME BranchOf[o] = b PROVE o \in payload'[r]
      <4>1. o \in OpsSince(b, last[r])
        BY <2>1, <3>1, <3>3 DEF OpsSince, OnBranch, Pending
      <4> QED
        BY <1>7, <2>1, <4>1 DEF ReadPayloads
    <3> QED
      BY <2>1, <3>1, <3>2, <3>3 DEF Pending
  <2> QED
    BY <1>7, <1>b, <2>1 DEF ReadPayloads
<1>8. ASSUME NEW r \in Runs, InsertRow(r)
      PROVE  KeptInv'
  <2>1. ASSUME NEW o, Pending(o), o \notin Snapshotted' PROVE Pending(o)'
    <3>1. /\ \A q \in Runs \ {r} : /\ pc'[q] = pc[q] /\ last'[q] = last[q]
                                   /\ branches'[q] = branches[q]
                                   /\ todo'[q] = todo[q] /\ top'[q] = top[q]
                                   /\ payload'[q] = payload[q]
          /\ pc[r] = "insert" /\ pc'[r] = "idle" /\ log' = log
          /\ snaps' = snaps \/ snaps' = snaps \cup {RowOf(r)}
      BY <1>8 DEF InsertRow, Return
    <3>2. \A s \in snaps' : Before(s.hlc, HlcOf[o])
      <4>1. CASE snaps' = snaps
        BY <2>1, <4>1 DEF Pending
      <4>2. CASE snaps' = snaps \cup {RowOf(r)}
        <5>1. o \notin payload[r]
          <6>1. RowOf(r) \in snaps' /\ RowOf(r).ops = payload[r]
            BY <4>2 DEF RowOf
          <6>2. payload[r] \subseteq Snapshotted'
            BY <6>1 DEF Snapshotted
          <6> QED
            BY <2>1, <6>2
        <5>2. Before(top[r], HlcOf[o])
          BY <2>1, <3>1, <5>1 DEF Pending
        <5> QED
          BY <2>1, <4>2, <5>2 DEF Pending, RowOf
      <4> QED
        BY <3>1, <4>1, <4>2
    <3> QED
      BY <2>1, <3>1, <3>2 DEF Pending
  <2>2. snaps \subseteq snaps'
    BY <1>8 DEF InsertRow
  <2> QED
    BY <1>8, <1>b, <2>1, <2>2 DEF InsertRow, history
<1>9. CASE Prune
  <2>1. ASSUME NEW o \in logged \ excused', Pending(o) PROVE Pending(o)'
    <3>1. o \in log'
      <4> SUFFICES ASSUME o \in aged, Prunable(o) PROVE FALSE
        BY <1>9, <2>1 DEF Prune, Pending
      <4>1. CASE snaps = {}
        BY <1>9, <2>1, <4>1 DEF Prune
      <4>2. CASE BehindSnapshot(o)
        <5>1. PICK s \in snaps : AtOrBefore(HlcOf[o], s.hlc)
          BY <4>2 DEF BehindSnapshot
        <5>2. s.hlc \in HLC /\ HlcOf[o] \in HLC
          BY DEF Rows
        <5> QED
          BY <2>1, <5>1, <5>2, BehindIsNotBefore DEF Pending
      <4> QED
        BY <4>1, <4>2 DEF Prunable
    <3> QED
      BY <1>9, <2>1, <3>1 DEF Prune, Pending, runVars
  <2>2. excused \subseteq excused' /\ logged' = logged /\ snaps' = snaps
    BY <1>9 DEF Prune
  <2> QED
    BY <1>b, <2>1, <2>2
<1>10. CASE RetentionElapses \/ UNCHANGED snapVars
  <2>1. UNCHANGED <<log, snaps, runVars, history>>
    BY <1>10 DEF RetentionElapses, snapVars
  <2> QED
    BY <2>1 DEF KeptInv, Pending, Snapshotted, runVars, history
<1>11. CASE Restart
  <2>1. ASSUME NEW o, Pending(o) PROVE Pending(o)'
    BY <1>11, <2>1 DEF Restart, Pending
  <2> QED
    BY <1>11, <1>b, <2>1 DEF Restart, history
<1> QED
  BY <1>1, <1>2, <1>3, <1>4, <1>5, <1>6, <1>7, <1>8, <1>9, <1>10, <1>11
  DEF SnapNext, CreateSnapshot

(* An op vanishes from log and snapshots only in one of the excused ways:  *)
(* crashes, failed queries other than the payload read, overlapping runs   *)
(* and overshooting maxima lose nothing by themselves.                     *)
THEOREM LossExplained == SnapSpec => []LossIsExplained
<1>1. SnapInit => LastInv /\ KeptInv
  BY DEF SnapInit, LastInv, KeptInv
<1>2. SnapTypeOK /\ LastInv /\ KeptInv /\ [SnapNext]_snapVars
        => (LastInv /\ KeptInv)'
  BY LastStep, KeptStep
<1>3. KeptInv => LossIsExplained
  BY DEF KeptInv, LossIsExplained, Lost, Pending
<1> QED
  BY <1>1, <1>2, <1>3, SnapTypeCorrect, PTL DEF SnapSpec
=============================================================================
