---------------------------- MODULE StreamsProofs ----------------------------
(***************************************************************************)
(* The components that move ops and events from hand to hand: what the     *)
(* editor's queue, the ingest's spool and the loader's offset never lose,  *)
(* for any number of tabs, batches, keys, passes, messages and faults.     *)
(***************************************************************************)
EXTENDS MCStreams, DataLemmas

-----------------------------------------------------------------------------
(* The editor's queue *)

QueueTypes ==
  /\ page \in [Tabs -> {"closed", "loading", "open"}]
  /\ queue \in [Tabs -> Seq(OpIds)]
  /\ unsaved \in [Tabs -> Nat] /\ strays \in [Tabs -> Nat]
  /\ former \in [Tabs -> SUBSET OpIds] /\ seen \in [Tabs -> SUBSET OpIds]
  /\ edits \subseteq OpIds /\ idb \cup acked \cup cut \cup dropped \cup erased \subseteq edits
  /\ IsFiniteSet(idb)

(* What an array has held is there or was acknowledged; a closed tab has   *)
(* nothing.                                                                *)
TabHolds(t) ==
  /\ IsInjective(queue[t]) /\ ToSet(queue[t]) \subseteq seen[t]
  /\ seen[t] \subseteq edits /\ seen[t] \subseteq ToSet(queue[t]) \cup acked
  /\ former[t] \subseteq edits /\ IsFiniteSet(former[t])
  /\ page[t] = "closed" => queue[t] = <<>> /\ ~ Dirty(t)
  /\ page[t] # "open" => strays[t] = 0

(* A queue keeps an edit for good only if its tab still writes or knows    *)
(* that it has to: all others are in the store or lost to a named cause.   *)
Kept(o) == \/ o \in acked \cup idb \cup cut \cup dropped \cup erased
           \/ \E t \in Tabs : Dirty(t) /\ o \in ToSet(queue[t])

QueueInv ==
  /\ QueueTypes
  /\ \A t \in Tabs : TabHolds(t)
  /\ \A o \in edits : Kept(o)

(* The ops of the store, loaded by a new page.                             *)
LEMMA StoredProperties ==
  ASSUME NEW S \in SUBSET OpIds, IsFiniteSet(S)
  PROVE  Stored(S) \in Seq(OpIds) /\ ToSet(Stored(S)) = S /\ IsInjective(Stored(S))
<1>1. S \in SUBSET Nat  BY QueueAssumption
<1>2. /\ Stored(S) \in [1..Cardinality(S) -> S]
      /\ \A i, j \in DOMAIN Stored(S) : i < j => Stored(S)[i] < Stored(S)[j]
  BY <1>1, AscendingExists DEF Stored
<1>3. /\ Stored(S) \in Seq(S) /\ ToSet(Stored(S)) = S
      /\ \A i, j \in 1..Len(Stored(S)) : Stored(S)[i] = Stored(S)[j] => i = j
  BY <1>1, <1>2, AscendingOnto
<1>4. DOMAIN Stored(S) = 1..Len(Stored(S))  BY <1>3, LenProperties
<1> QED  BY <1>3, <1>4, SeqMonotonic DEF IsInjective

LEMMA NothingQueued ==
  <<>> \in Seq(OpIds) /\ ToSet(<<>>) = {} /\ IsInjective(<<>>)
BY DEF ToSet, IsInjective

LEMMA QueueIsFinite == ASSUME NEW s \in Seq(OpIds) PROVE IsFiniteSet(ToSet(s))
<1>1. Len(s) \in Nat /\ DOMAIN s = 1..Len(s)  BY LenProperties
<1>2. IsFiniteSet(1..Len(s))  BY <1>1, FS_Interval
<1>3. s \in Surjection(1..Len(s), ToSet(s))  BY <1>1 DEF ToSet, Surjection
<1> QED  BY <1>2, <1>3, FS_Surjection

(* A step of one tab leaves the others their queues, seen and written.     *)
OthersAsBefore(t) ==
  \A u \in Tabs \ {t} :
    /\ page'[u] = page[u] /\ queue'[u] = queue[u] /\ seen'[u] = seen[u]
    /\ former'[u] = former[u] /\ unsaved'[u] = unsaved[u] /\ strays'[u] = strays[u]
    /\ u \in behind' <=> u \in behind

LEMMA OthersHold ==
  ASSUME NEW t \in Tabs, \A u \in Tabs : TabHolds(u), OthersAsBefore(t),
         edits \subseteq edits', acked \subseteq acked'
  PROVE  /\ \A u \in Tabs \ {t} : TabHolds(u)'
         /\ \A u \in Tabs \ {t} : Dirty(u) => Dirty(u)'
<1> SUFFICES ASSUME NEW u \in Tabs \ {t} PROVE TabHolds(u)' /\ (Dirty(u) => Dirty(u)')
  OBVIOUS
<1>1. /\ page'[u] = page[u] /\ queue'[u] = queue[u] /\ seen'[u] = seen[u]
      /\ former'[u] = former[u] /\ unsaved'[u] = unsaved[u] /\ strays'[u] = strays[u]
      /\ u \in behind' <=> u \in behind
  BY DEF OthersAsBefore
<1>2. Dirty(u)' <=> Dirty(u)  BY <1>1 DEF Dirty
<1>3. TabHolds(u)  OBVIOUS
<1> QED  BY <1>1, <1>2, <1>3 DEF TabHolds

(* An edit stays kept if the step keeps it itself, and, if it is in the    *)
(* queue of the tab that moves, keeps it there or elsewhere.               *)
LEMMA KeptStays ==
  ASSUME QueueInv, NEW t \in Tabs, OthersAsBefore(t), acked \subseteq acked',
         NEW o \in edits,
         o \in idb \cup cut \cup dropped \cup erased => Kept(o)',
         Dirty(t) /\ o \in ToSet(queue[t]) => Kept(o)'
  PROVE  Kept(o)'
<1>1. CASE o \in acked  BY <1>1 DEF Kept
<1>2. CASE \E u \in Tabs \ {t} : Dirty(u) /\ o \in ToSet(queue[u])
  <2>1. PICK u \in Tabs \ {t} : Dirty(u) /\ o \in ToSet(queue[u])  BY <1>2
  <2>2. queue'[u] = queue[u] /\ Dirty(u)'  BY <2>1 DEF OthersAsBefore, Dirty
  <2> QED  BY <2>1, <2>2 DEF Kept
<1> QED  BY <1>1, <1>2 DEF QueueInv, Kept

LEMMA QueueInitInv == QueueInit => QueueInv
<1> SUFFICES ASSUME QueueInit PROVE QueueInv
  OBVIOUS
<1>1. IsFiniteSet({})  BY FS_EmptySet
<1>2. QueueTypes  BY <1>1, NothingQueued DEF QueueInit, QueueTypes
<1>3. ASSUME NEW t \in Tabs PROVE TabHolds(t)
  BY <1>1, NothingQueued DEF QueueInit, TabHolds, Dirty
<1> QED  BY <1>2, <1>3 DEF QueueInit, QueueInv

LEMMA OpenTabInv == ASSUME QueueInv, NEW t \in Tabs, OpenTab(t) PROVE QueueInv'
<1>1. /\ page' = [page EXCEPT ![t] = "loading"] /\ page[t] = "closed"
      /\ UNCHANGED <<queue, unsaved, former, strays, idb, edits, acked, seen, behind, cut, dropped, erased>>
  BY DEF OpenTab, losses
<1>2. QueueTypes /\ \A u \in Tabs : TabHolds(u)  BY DEF QueueInv
<1>3. QueueTypes'  BY <1>1, <1>2 DEF QueueTypes
<1>4. \A u \in Tabs : page'[u] = "closed" => page[u] = "closed"  BY <1>1, <1>2 DEF QueueTypes
<1>5. \A u \in Tabs : page'[u] # "open" => page[u] # "open"  BY <1>1, <1>2 DEF QueueTypes
<1>6. ASSUME NEW u \in Tabs PROVE TabHolds(u)'
  <2>1. TabHolds(u)  BY <1>2
  <2> QED  BY <1>1, <1>4, <1>5, <2>1 DEF TabHolds, Dirty
<1>7. \A o \in edits' : Kept(o)'  BY <1>1 DEF QueueInv, Kept, Dirty
<1> QED  BY <1>3, <1>6, <1>7 DEF QueueInv

(* init gives the writes under way to the former array; what the new one   *)
(* lacks is dropped.                                                       *)
LEMMA LoadedInv == ASSUME QueueInv, NEW t \in Tabs, Loaded(t) PROVE QueueInv'
<1>1. QueueTypes /\ \A u \in Tabs : TabHolds(u)  BY DEF QueueInv
<1>2. /\ Stored(idb) \in Seq(OpIds) /\ ToSet(Stored(idb)) = idb /\ IsInjective(Stored(idb))
  BY <1>1, StoredProperties DEF QueueTypes
<1>3. PICK ops \in {Stored(idb), <<>>} :
        /\ queue' = [queue EXCEPT ![t] = ops] /\ seen' = [seen EXCEPT ![t] = ToSet(ops)]
        /\ dropped' = dropped \cup (ToSet(queue[t]) \ ToSet(ops))
  BY DEF Loaded
<1>4. ops \in Seq(OpIds) /\ IsInjective(ops) /\ ToSet(ops) \subseteq idb
  BY <1>2, <1>3, NothingQueued
<1>5. /\ page' = [page EXCEPT ![t] = "open"] /\ former' = [former EXCEPT ![t] = ToSet(queue[t])]
      /\ strays' = [strays EXCEPT ![t] = unsaved[t]] /\ unsaved' = [unsaved EXCEPT ![t] = 0]
      /\ UNCHANGED <<idb, edits, acked, behind, cut, erased>>
  BY DEF Loaded
<1>6. queue[t] \in Seq(OpIds) /\ ToSet(queue[t]) \subseteq edits /\ IsFiniteSet(ToSet(queue[t]))
      /\ idb \subseteq edits /\ edits \subseteq OpIds
  BY <1>1, QueueIsFinite DEF QueueTypes, TabHolds
<1>7. OthersAsBefore(t)  BY <1>1, <1>3, <1>5 DEF OthersAsBefore, QueueTypes
<1>8. /\ queue'[t] = ops /\ seen'[t] = ToSet(ops) /\ former'[t] = ToSet(queue[t])
      /\ page'[t] = "open"
  BY <1>1, <1>3, <1>5 DEF QueueTypes
<1>9. QueueTypes'
  <2>1. queue' \in [Tabs -> Seq(OpIds)] /\ seen' \in [Tabs -> SUBSET OpIds]
    BY <1>1, <1>3, <1>4, <1>6 DEF QueueTypes
  <2>2. former' \in [Tabs -> SUBSET OpIds]  BY <1>1, <1>5, <1>6 DEF QueueTypes
  <2>3. unsaved' \in [Tabs -> Nat] /\ strays' \in [Tabs -> Nat]
        /\ page' \in [Tabs -> {"closed", "loading", "open"}]
    BY <1>1, <1>5 DEF QueueTypes
  <2> QED  BY <1>1, <1>3, <1>5, <1>6, <2>1, <2>2, <2>3 DEF QueueTypes
<1>10. TabHolds(t)'  BY <1>4, <1>5, <1>6, <1>8 DEF TabHolds
<1>11. \A u \in Tabs : TabHolds(u)'  BY <1>1, <1>5, <1>7, <1>10, OthersHold
<1>12. ASSUME NEW o \in edits PROVE Kept(o)'
  <2>1. o \in idb \cup cut \cup dropped \cup erased => Kept(o)'  BY <1>3, <1>5 DEF Kept
  <2>2. o \in ToSet(queue[t]) => Kept(o)'  BY <1>3, <1>4, <1>5 DEF Kept
  <2> QED  BY <1>5, <1>7, <2>1, <2>2, KeptStays
<1> QED  BY <1>5, <1>9, <1>11, <1>12 DEF QueueInv

LEMMA EditInv == ASSUME QueueInv, NEW t \in Tabs, NEW o \in OpIds, Edit(t, o) PROVE QueueInv'
<1>1. QueueTypes /\ \A u \in Tabs : TabHolds(u)  BY DEF QueueInv
<1>2. /\ page[t] # "closed" /\ o \notin edits /\ o \notin ToSet(queue[t])
      /\ queue[t] \in Seq(OpIds) /\ unsaved[t] \in Nat
  BY <1>1 DEF Edit, TabHolds, QueueTypes
<1>3. /\ Append(queue[t], o) \in Seq(OpIds) /\ ToSet(Append(queue[t], o)) = ToSet(queue[t]) \cup {o}
      /\ IsInjective(queue[t]) => IsInjective(Append(queue[t], o))
  BY <1>2, ToSetAppend
<1>4. /\ queue' = [queue EXCEPT ![t] = Append(queue[t], o)]
      /\ unsaved' = [unsaved EXCEPT ![t] = unsaved[t] + 1]
      /\ edits' = edits \cup {o} /\ seen' = [seen EXCEPT ![t] = seen[t] \cup {o}]
      /\ UNCHANGED <<page, former, strays, idb, acked, behind, cut, dropped, erased>>
  BY DEF Edit, losses
<1>5. OthersAsBefore(t)  BY <1>1, <1>4 DEF OthersAsBefore, QueueTypes
<1>6. /\ queue'[t] = Append(queue[t], o) /\ unsaved'[t] > 0 /\ seen'[t] = seen[t] \cup {o}
  BY <1>1, <1>2, <1>4 DEF QueueTypes
<1>7. QueueTypes'
  <2>1. queue' \in [Tabs -> Seq(OpIds)]  BY <1>1, <1>3, <1>4 DEF QueueTypes
  <2>2. unsaved' \in [Tabs -> Nat] /\ seen' \in [Tabs -> SUBSET OpIds]
    BY <1>1, <1>2, <1>4 DEF QueueTypes
  <2> QED  BY <1>1, <1>4, <2>1, <2>2 DEF QueueTypes
<1>8. TabHolds(t)'
  <2>1. TabHolds(t)  BY <1>1
  <2> QED  BY <1>2, <1>3, <1>4, <1>6, <2>1 DEF TabHolds
<1>9. \A u \in Tabs : TabHolds(u)'  BY <1>1, <1>4, <1>5, <1>8, OthersHold
<1>10. Dirty(t)'  BY <1>6 DEF Dirty
<1>11. ASSUME NEW p \in edits PROVE Kept(p)'
  <2>1. p \in idb \cup cut \cup dropped \cup erased => Kept(p)'  BY <1>4 DEF Kept
  <2>2. p \in ToSet(queue[t]) => Kept(p)'  BY <1>3, <1>6, <1>10 DEF Kept
  <2> QED  BY <1>4, <1>5, <2>1, <2>2, KeptStays
<1>12. Kept(o)'  BY <1>3, <1>6, <1>10 DEF Kept
<1> QED  BY <1>4, <1>7, <1>9, <1>11, <1>12 DEF QueueInv

(* Only an op that is acknowledged leaves the queue.                       *)
LEMMA AcknowledgeInv ==
  ASSUME QueueInv, NEW t \in Tabs, NEW o \in OpIds, Acknowledge(t, o) PROVE QueueInv'
<1> DEFINE rest == RemoveFirst(queue[t], o)
<1>1. QueueTypes /\ \A u \in Tabs : TabHolds(u)  BY DEF QueueInv
<1>2. /\ page[t] # "closed" /\ o \in edits /\ queue[t] \in Seq(OpIds) /\ unsaved[t] \in Nat
      /\ TabHolds(t)
  BY <1>1 DEF Acknowledge, QueueTypes
<1>3. rest \in Seq(OpIds) /\ IsInjective(rest) /\ ToSet(rest) = ToSet(queue[t]) \ {o}
  BY <1>2, RemoveFirstProperties DEF TabHolds
<1>4. /\ queue' = [queue EXCEPT ![t] = rest]
      /\ unsaved' = IF o \in ToSet(queue[t]) THEN [unsaved EXCEPT ![t] = unsaved[t] + 1] ELSE unsaved
      /\ acked' = acked \cup {o}
      /\ UNCHANGED <<page, former, strays, idb, edits, seen, behind, cut, dropped, erased>>
  BY DEF Acknowledge, Without, losses
<1> HIDE DEF rest
<1>5. OthersAsBefore(t)  BY <1>1, <1>4 DEF OthersAsBefore, QueueTypes
<1>6. queue'[t] = rest  BY <1>1, <1>4 DEF QueueTypes
<1>7. unsaved'[t] \in {unsaved[t], unsaved[t] + 1}  BY <1>1, <1>4 DEF QueueTypes
<1>8. Dirty(t) => Dirty(t)'  BY <1>2, <1>4, <1>7 DEF Dirty
<1>9. QueueTypes'
  <2>1. queue' \in [Tabs -> Seq(OpIds)]  BY <1>1, <1>3, <1>4 DEF QueueTypes
  <2>2. unsaved' \in [Tabs -> Nat]  BY <1>1, <1>2, <1>4 DEF QueueTypes
  <2> QED  BY <1>1, <1>2, <1>4, <2>1, <2>2 DEF QueueTypes
<1>10. TabHolds(t)'
  BY <1>2, <1>3, <1>4, <1>6 DEF TabHolds
<1>11. \A u \in Tabs : TabHolds(u)'  BY <1>1, <1>4, <1>5, <1>10, OthersHold
<1>12. ASSUME NEW p \in edits PROVE Kept(p)'
  <2>1. p \in idb \cup cut \cup dropped \cup erased => Kept(p)'  BY <1>4 DEF Kept
  <2>2. Dirty(t) /\ p \in ToSet(queue[t]) => Kept(p)'  BY <1>3, <1>4, <1>6, <1>8 DEF Kept
  <2> QED  BY <1>4, <1>5, <2>1, <2>2, KeptStays
<1> QED  BY <1>4, <1>9, <1>11, <1>12 DEF QueueInv

(* A write clears what its page never saw, and otherwise only what is      *)
(* acknowledged: the rest is in the queue it writes.                       *)
LEMMA PersistInv == ASSUME QueueInv, NEW t \in Tabs, Persist(t) PROVE QueueInv'
<1>1. QueueTypes /\ \A u \in Tabs : TabHolds(u)  BY DEF QueueInv
<1>2. /\ unsaved[t] > 0 /\ unsaved[t] \in Nat /\ strays[t] = 0 /\ queue[t] \in Seq(OpIds)
      /\ TabHolds(t)
  BY <1>1 DEF Persist, QueueTypes
<1>3. /\ unsaved' = [unsaved EXCEPT ![t] = unsaved[t] - 1]
      /\ idb' = ToSet(queue[t]) /\ behind' = behind \ {t}
      /\ erased' = erased \cup (idb \ seen[t])
      /\ UNCHANGED <<page, queue, former, strays, edits, acked, seen, cut, dropped>>
  BY DEF Persist
<1>4. OthersAsBefore(t)  BY <1>1, <1>3 DEF OthersAsBefore, QueueTypes
<1>5. QueueTypes'
  <2>1. unsaved' \in [Tabs -> Nat]  BY <1>1, <1>2, <1>3 DEF QueueTypes
  <2>2. IsFiniteSet(idb') /\ idb' \subseteq edits  BY <1>2, <1>3, QueueIsFinite DEF TabHolds
  <2> QED  BY <1>1, <1>3, <2>1, <2>2 DEF QueueTypes
<1>6. TabHolds(t)'
  <2>1. page[t] # "closed"  BY <1>2 DEF TabHolds, Dirty
  <2> QED  BY <1>2, <1>3, <2>1 DEF TabHolds
<1>7. \A u \in Tabs : TabHolds(u)'  BY <1>1, <1>3, <1>4, <1>6, OthersHold
<1>8. ASSUME NEW o \in edits PROVE Kept(o)'
  <2>1. o \in idb => Kept(o)'  BY <1>2, <1>3 DEF Kept, TabHolds
  <2>2. o \in cut \cup dropped \cup erased => Kept(o)'  BY <1>3 DEF Kept
  <2>3. o \in ToSet(queue[t]) => Kept(o)'  BY <1>3 DEF Kept
  <2> QED  BY <1>3, <1>4, <2>1, <2>2, <2>3, KeptStays
<1> QED  BY <1>3, <1>5, <1>7, <1>8 DEF QueueInv

(* A write of the array that init replaced leaves the queue to be written. *)
LEMMA PersistFormerInv == ASSUME QueueInv, NEW t \in Tabs, PersistFormer(t) PROVE QueueInv'
<1>1. QueueTypes /\ \A u \in Tabs : TabHolds(u)  BY DEF QueueInv
<1>2. strays[t] > 0 /\ strays[t] \in Nat /\ TabHolds(t)
  BY <1>1 DEF PersistFormer, QueueTypes
<1>3. /\ strays' = [strays EXCEPT ![t] = strays[t] - 1]
      /\ idb' = former[t] /\ behind' = behind \cup {t}
      /\ erased' = erased \cup (idb \ (former[t] \cup seen[t]))
      /\ UNCHANGED <<page, queue, unsaved, former, edits, acked, seen, cut, dropped>>
  BY DEF PersistFormer
<1>4. OthersAsBefore(t)  BY <1>1, <1>3 DEF OthersAsBefore, QueueTypes
<1>5. QueueTypes'
  <2>1. strays' \in [Tabs -> Nat]  BY <1>1, <1>2, <1>3 DEF QueueTypes
  <2>2. IsFiniteSet(idb') /\ idb' \subseteq edits  BY <1>2, <1>3 DEF TabHolds
  <2> QED  BY <1>1, <1>3, <2>1, <2>2 DEF QueueTypes
<1>6. page[t] = "open"  BY <1>2 DEF TabHolds
<1>7. TabHolds(t)'  BY <1>2, <1>3, <1>6 DEF TabHolds
<1>8. \A u \in Tabs : TabHolds(u)'  BY <1>1, <1>3, <1>4, <1>7, OthersHold
<1>9. Dirty(t)'  BY <1>3 DEF Dirty
<1>10. ASSUME NEW o \in edits PROVE Kept(o)'
  <2>1. o \in ToSet(queue[t]) => Kept(o)'  BY <1>3, <1>9 DEF Kept
  <2>2. o \in idb => Kept(o)'
    <3>1. o \in idb => o \in former[t] \cup seen[t] \cup erased'  BY <1>3
    <3>2. o \in former[t] \cup acked \cup erased' => Kept(o)'  BY <1>3 DEF Kept
    <3> QED  BY <1>2, <2>1, <3>1, <3>2 DEF TabHolds
  <2>3. o \in cut \cup dropped \cup erased => Kept(o)'  BY <1>3 DEF Kept
  <2> QED  BY <1>3, <1>4, <2>1, <2>2, <2>3, KeptStays
<1> QED  BY <1>3, <1>5, <1>8, <1>10 DEF QueueInv

LEMMA PersistFailsInv == ASSUME QueueInv, NEW t \in Tabs, PersistFails(t) PROVE QueueInv'
<1>1. QueueTypes /\ \A u \in Tabs : TabHolds(u)  BY DEF QueueInv
<1>2. /\ TabHolds(t) /\ strays[t] \in Nat /\ unsaved[t] \in Nat
      /\ behind' = behind \cup {t}
      /\ UNCHANGED <<page, queue, former, idb, edits, acked, seen, cut, dropped, erased>>
      /\ \/ strays[t] > 0 /\ strays' = [strays EXCEPT ![t] = strays[t] - 1] /\ unsaved' = unsaved
         \/ /\ strays[t] = 0 /\ unsaved[t] > 0 /\ strays' = strays
            /\ unsaved' = [unsaved EXCEPT ![t] = unsaved[t] - 1]
  BY <1>1 DEF PersistFails, QueueTypes, losses
<1>3. OthersAsBefore(t)  BY <1>1, <1>2 DEF OthersAsBefore, QueueTypes
<1>4. strays' \in [Tabs -> Nat] /\ unsaved' \in [Tabs -> Nat]
  <2>1. strays \in [Tabs -> Nat] /\ unsaved \in [Tabs -> Nat]  BY <1>1 DEF QueueTypes
  <2>2. CASE strays[t] > 0 /\ strays' = [strays EXCEPT ![t] = strays[t] - 1] /\ unsaved' = unsaved
    <3>1. strays[t] - 1 \in Nat  BY <1>2, <2>2
    <3> QED  BY <2>1, <2>2, <3>1
  <2>3. CASE unsaved[t] > 0 /\ strays' = strays /\ unsaved' = [unsaved EXCEPT ![t] = unsaved[t] - 1]
    <3>1. unsaved[t] - 1 \in Nat  BY <1>2, <2>3
    <3> QED  BY <2>1, <2>3, <3>1
  <2> QED  BY <1>2, <2>2, <2>3
<1>5. QueueTypes'  BY <1>1, <1>2, <1>4 DEF QueueTypes
<1>6. page[t] # "closed" /\ (page[t] # "open" => strays'[t] = 0)
  BY <1>2 DEF TabHolds, Dirty
<1>7. TabHolds(t)'  BY <1>2, <1>6 DEF TabHolds
<1>8. \A u \in Tabs : TabHolds(u)'  BY <1>1, <1>2, <1>3, <1>7, OthersHold
<1>9. Dirty(t)'  BY <1>2 DEF Dirty
<1>10. ASSUME NEW o \in edits PROVE Kept(o)'
  <2>1. o \in idb \cup cut \cup dropped \cup erased => Kept(o)'  BY <1>2 DEF Kept
  <2>2. o \in ToSet(queue[t]) => Kept(o)'  BY <1>2, <1>9 DEF Kept
  <2> QED  BY <1>2, <1>3, <2>1, <2>2, KeptStays
<1> QED  BY <1>2, <1>5, <1>8, <1>10 DEF QueueInv

(* A tab that has nothing to write is not what keeps its edits.            *)
LEMMA CloseTabInv == ASSUME QueueInv, NEW t \in Tabs, CloseTab(t) PROVE QueueInv'
<1>1. QueueTypes /\ \A u \in Tabs : TabHolds(u)  BY DEF QueueInv
<1>2. /\ page' = [page EXCEPT ![t] = "closed"]
      /\ queue' = [queue EXCEPT ![t] = <<>>] /\ unsaved' = [unsaved EXCEPT ![t] = 0]
      /\ former' = [former EXCEPT ![t] = {}] /\ strays' = [strays EXCEPT ![t] = 0]
      /\ seen' = [seen EXCEPT ![t] = {}] /\ behind' = behind \ {t}
      /\ cut' = IF Dirty(t) THEN cut \cup ToSet(queue[t]) ELSE cut
      /\ UNCHANGED <<idb, edits, acked, dropped, erased>>
  BY DEF CloseTab
<1>3. OthersAsBefore(t)  BY <1>1, <1>2 DEF OthersAsBefore, QueueTypes
<1>4. /\ page'[t] = "closed" /\ queue'[t] = <<>> /\ unsaved'[t] = 0 /\ former'[t] = {}
      /\ strays'[t] = 0 /\ seen'[t] = {} /\ t \notin behind'
  BY <1>1, <1>2 DEF QueueTypes
<1>5. QueueTypes'
  <2>1. queue' \in [Tabs -> Seq(OpIds)]  BY <1>1, <1>2, NothingQueued DEF QueueTypes
  <2>2. /\ page' \in [Tabs -> {"closed", "loading", "open"}]
        /\ unsaved' \in [Tabs -> Nat] /\ strays' \in [Tabs -> Nat]
        /\ former' \in [Tabs -> SUBSET OpIds] /\ seen' \in [Tabs -> SUBSET OpIds]
    BY <1>1, <1>2 DEF QueueTypes
  <2>3. cut' \subseteq edits
    <3>1. ToSet(queue[t]) \subseteq edits /\ cut \subseteq edits  BY <1>1 DEF TabHolds, QueueTypes
    <3> QED  BY <1>2, <3>1
  <2> QED  BY <1>1, <1>2, <2>1, <2>2, <2>3 DEF QueueTypes
<1>6. TabHolds(t)'  BY <1>4, NothingQueued, FS_EmptySet DEF TabHolds, Dirty
<1>7. \A u \in Tabs : TabHolds(u)'  BY <1>1, <1>2, <1>3, <1>6, OthersHold
<1>8. ASSUME NEW o \in edits PROVE Kept(o)'
  <2>1. o \in idb \cup cut \cup dropped \cup erased => Kept(o)'  BY <1>2 DEF Kept
  <2>2. Dirty(t) /\ o \in ToSet(queue[t]) => Kept(o)'  BY <1>2 DEF Kept
  <2> QED  BY <1>2, <1>3, <2>1, <2>2, KeptStays
<1> QED  BY <1>2, <1>5, <1>7, <1>8 DEF QueueInv

LEMMA QueueStepInv == QueueInv /\ [QueueNext]_queueVars => QueueInv'
<1> SUFFICES ASSUME QueueInv, [QueueNext]_queueVars PROVE QueueInv'
  OBVIOUS
<1>1. CASE UNCHANGED queueVars
  BY <1>1 DEF queueVars, QueueInv, QueueTypes, TabHolds, Kept, Dirty
<1>2. CASE QueueNext
  BY <1>2, OpenTabInv, LoadedInv, EditInv, AcknowledgeInv, PersistInv, PersistFormerInv,
     PersistFailsInv, CloseTabInv DEF QueueNext
<1> QED  BY <1>1, <1>2

LEMMA QueueInvariant == QueueSpec => []QueueInv
BY QueueInitInv, QueueStepInv, PTL DEF QueueSpec

LEMMA QueueInvTypes == QueueInv => QueueTypeOK
<1> SUFFICES ASSUME QueueInv, NEW t \in Tabs
             PROVE  /\ IsInjective(queue[t]) /\ ToSet(queue[t]) \subseteq OpIds
                    /\ page[t] = "closed" => queue[t] = <<>> /\ ~ Dirty(t)
                    /\ page[t] # "open" => strays[t] = 0
                    /\ ToSet(queue[t]) \subseteq seen[t]
  BY DEF QueueInv, QueueTypes, QueueTypeOK
<1> QED  BY DEF QueueInv, QueueTypes, TabHolds

(* An edit is acknowledged, in the queue of a page or in the store         *)
(* (enqueue, persistPendingOps, acknowledge), or lost to one of three      *)
(* causes: a tab closed before a write stored its queue, init replaced the *)
(* array it was in, a page cleared a record it never saw.  Whatever writes *)
(* and loads fail; for any number of tabs, ops and repeated OpAcks.        *)
THEOREM EditsSurvive == QueueSpec => []EditSurvives
<1>1. QueueInv => EditSurvives  BY DEF QueueInv, Kept, EditSurvives
<1> QED  BY QueueInvariant, <1>1, PTL

-----------------------------------------------------------------------------
(* The ingest and its spool *)

IngestTypes ==
  /\ batch \in [Batches -> {"idle", "publishing", "spooling", "accepted", "refused"}]
  /\ done \in [Batches -> Nat]
  /\ file \in [PartitionKeys -> Seq(Events \cup {Torn})] /\ mtime \in Seq(PartitionKeys)
  /\ partition \in [PartitionKeys -> Seq(Events)]
  /\ running \in BOOLEAN /\ pass \in [Ticks -> {"off", "drain", "publish", "remove"}]
  /\ work \in [Ticks -> Seq(PartitionKeys)] /\ held \in [Ticks -> Seq(Events)]
  /\ spooled \in [PartitionKeys -> Seq(Events)]
  /\ \A k \in PartitionKeys : /\ \A e \in ToSet(partition[k]) : KeyOf[e] = k
                              /\ file[k] # <<>> => Exists(k)

Begins(s, lines) == Len(s) <= Len(lines) /\ \A i \in 1..Len(s) : lines[i] = s[i]

(* One pass at a time, with a file in hand; what it holds is how the file  *)
(* begins, and is in Kafka before the file is removed.                     *)
PassInv ==
  /\ \A t \in Ticks : /\ pass[t] # "off" <=> work[t] # <<>>
                      /\ pass[t] # "off" => running
                      /\ pass[t] \in {"off", "drain"} => held[t] = <<>>
                      /\ pass[t] # "off" => Begins(held[t], file[Head(work[t])])
                      /\ pass[t] = "remove" => \A e \in ToSet(held[t]) : InKafka(e)
  /\ running => \E t \in Ticks : pass[t] # "off"
  /\ \A t, u \in Ticks : pass[t] # "off" /\ pass[u] # "off" => t = u

Safe(e) == InKafka(e) \/ InFile(e) \/ e \in raced

(* A handler counts the events of its batch that it has spooled.           *)
HandlerInv ==
  \A b \in Batches : /\ done[b] <= Len(Payload[b])
                     /\ batch[b] \in {"idle", "publishing"} => done[b] = 0
                     /\ batch[b] = "spooling" => done[b] < Len(Payload[b])
                     /\ \A n \in 1..Len(Payload[b]) :
                          n <= done[b] \/ batch[b] = "accepted" =>
                            Safe(Payload[b][n])

(* The files hold spooled events of their key, each spooled once.          *)
SpoolInv ==
  \A k \in PartitionKeys :
    /\ IsInjective(spooled[k])
    /\ \A e \in ToSet(spooled[k]) :
         KeyOf[e] = k /\ \E b \in Batches : \E n \in 1..done[b] : Payload[b][n] = e
    /\ \A e \in ToSet(file[k]) : e # Torn => e \in ToSet(spooled[k])
    /\ \A e \in ToSet(partition[k]) : e \in live \/ e \in ToSet(spooled[k])

Before(s, d, e) == \E i, j \in DOMAIN s : i < j /\ s[i] = d /\ s[j] = e

(* The lines of a file are in spool order, and an event that only the      *)
(* spool brought to Kafka got there behind those spooled before it, as far *)
(* as they got there or still can.                                         *)
OrderInv ==
  \A k \in PartitionKeys :
    /\ \A p, q \in DOMAIN file[k] :
         p < q /\ file[k][p] # Torn /\ file[k][q] # Torn => Before(spooled[k], file[k][p], file[k][q])
    /\ \A d, e \in Events \ live : Before(spooled[k], d, e) /\ InKafka(e) =>
         IF InKafka(d)
         THEN \A m \in DOMAIN partition[k] : partition[k][m] = e =>
                \E l \in 1..(m - 1) : partition[k][l] = d
         ELSE ~ InFile(d)

IngestInv == IngestTypes /\ PassInv /\ HandlerInv /\ SpoolInv /\ OrderInv

LEMMA PayloadFacts ==
  ASSUME NEW b \in Batches
  PROVE  /\ Payload[b] \in Seq(Events) /\ Len(Payload[b]) \in Nat /\ Len(Payload[b]) > 0
         /\ DOMAIN Payload[b] = 1..Len(Payload[b])
         /\ \A n \in 1..Len(Payload[b]) : /\ Payload[b][n] \in Events
                                          /\ KeyOf[Payload[b][n]] \in PartitionKeys
<1>1. Payload[b] \in Seq(Events) /\ Payload[b] # <<>>  BY IngestAssumption
<1>2. Len(Payload[b]) \in Nat /\ DOMAIN Payload[b] = 1..Len(Payload[b])  BY <1>1, LenProperties
<1>3. Len(Payload[b]) # 0  BY <1>1, EmptySeq
<1>4. \A n \in 1..Len(Payload[b]) : Payload[b][n] \in Events  BY <1>1, ElementOfSeq
<1> QED  BY <1>1, <1>2, <1>3, <1>4, IngestAssumption

(* Splitting a batch by key keeps every event of the key, in its order.    *)
LEMMA OfKeyProperties ==
  ASSUME NEW events \in Seq(Events), NEW k
  PROVE  /\ OfKey(events, k) \in Seq(Events)
         /\ ToSet(OfKey(events, k)) = {e \in ToSet(events) : KeyOf[e] = k}
         /\ \A x \in 1..Len(OfKey(events, k)), p \in 1..Len(events) :
              KeyOf[events[p]] = k =>
                \E q \in 1..Len(events) :
                  /\ events[q] = OfKey(events, k)[x]
                  /\ p < q => \E y \in 1..(x - 1) : OfKey(events, k)[y] = events[p]
<1> DEFINE places == {i \in DOMAIN events : KeyOf[events[i]] = k}
           at == CHOOSE s \in [1..Cardinality(places) -> places] :
                   \A i, j \in DOMAIN s : i < j => s[i] < s[j]
           r == OfKey(events, k)
<1>1. Len(events) \in Nat /\ DOMAIN events = 1..Len(events)
      /\ \A i \in 1..Len(events) : events[i] \in Events
  BY LenProperties, ElementOfSeq
<1>2. places \in SUBSET Nat /\ IsFiniteSet(places)
  <2>1. places \subseteq 1..Len(events)  BY <1>1
  <2>2. IsFiniteSet(1..Len(events))  BY <1>1, FS_Interval
  <2> QED  BY <2>1, <2>2, FS_Subset
<1>3. r = [i \in 1..Cardinality(places) |-> events[at[i]]]  BY DEF OfKey
<1>4. \A i \in places : i \in 1..Len(events) /\ KeyOf[events[i]] = k  BY <1>1
<1>5. \A i \in 1..Len(events) : KeyOf[events[i]] = k => i \in places  BY <1>1
<1> HIDE DEF places, r
<1>6. /\ at \in [1..Cardinality(places) -> places]
      /\ \A i, j \in DOMAIN at : i < j => at[i] < at[j]
  BY <1>2, AscendingExists
<1> HIDE DEF at
<1>7. /\ at \in Seq(places) /\ Len(at) = Cardinality(places) /\ ToSet(at) = places
      /\ \A i, j \in 1..Len(at) : at[i] < at[j] => i < j
  BY <1>2, <1>6, AscendingOnto
<1>8. Cardinality(places) \in Nat  BY <1>2, FS_CardinalityType
<1>9. /\ r \in Seq(Events) /\ Len(r) = Cardinality(places) /\ DOMAIN r = 1..Len(r)
      /\ DOMAIN at = 1..Len(r)
  <2>1. \A i \in 1..Cardinality(places) : events[at[i]] \in Events  BY <1>1, <1>4, <1>6
  <2> QED  BY <1>3, <1>6, <1>8, <2>1, IsASeq
<1>10. \A i \in 1..Len(r) : at[i] \in places /\ r[i] = events[at[i]]  BY <1>3, <1>6, <1>9
<1>11. \A p \in places : \E y \in 1..Len(r) : at[y] = p  BY <1>7, <1>9 DEF ToSet
<1>12. ToSet(r) = {e \in ToSet(events) : KeyOf[e] = k}
  <2>1. ASSUME NEW e \in ToSet(r) PROVE e \in ToSet(events) /\ KeyOf[e] = k
    <3>1. PICK i \in 1..Len(r) : r[i] = e  BY <1>9 DEF ToSet
    <3> QED  BY <1>1, <1>4, <1>10, <3>1 DEF ToSet
  <2>2. ASSUME NEW e \in ToSet(events), KeyOf[e] = k PROVE e \in ToSet(r)
    <3>1. PICK p \in 1..Len(events) : events[p] = e  BY <1>1 DEF ToSet
    <3>2. PICK y \in 1..Len(r) : at[y] = p  BY <1>5, <1>11, <2>2, <3>1
    <3> QED  BY <1>9, <1>10, <3>1, <3>2 DEF ToSet
  <2> QED  BY <2>1, <2>2
<1>13. ASSUME NEW x \in 1..Len(r), NEW p \in 1..Len(events), KeyOf[events[p]] = k
       PROVE  \E q \in 1..Len(events) :
                /\ events[q] = r[x]
                /\ p < q => \E y \in 1..(x - 1) : r[y] = events[p]
  <2>1. at[x] \in 1..Len(events) /\ events[at[x]] = r[x]  BY <1>4, <1>10
  <2>2. ASSUME p < at[x] PROVE \E y \in 1..(x - 1) : r[y] = events[p]
    <3>1. PICK y \in 1..Len(r) : at[y] = p  BY <1>5, <1>11, <1>13
    <3>2. y < x  BY <1>7, <1>9, <2>2, <3>1
    <3>3. y \in 1..(x - 1)  BY <1>8, <1>9, <3>2
    <3> QED  BY <1>10, <3>1, <3>3
  <2> QED  BY <2>1, <2>2
<1> QED  BY <1>9, <1>12, <1>13 DEF r

(* What Kafka holds after a publish, of the keys that it reached.          *)
LEMMA LandedProperties ==
  ASSUME partition \in [PartitionKeys -> Seq(Events)],
         NEW events \in Seq(Events), NEW reached
  PROVE  /\ LandedAt(events, reached) \in [PartitionKeys -> Seq(Events)]
         /\ \A k \in PartitionKeys :
              /\ ToSet(LandedAt(events, reached)[k]) = ToSet(partition[k]) \cup
                   {e \in ToSet(events) : KeyOf[e] = k /\ k \in reached}
              /\ \A m \in 1..Len(partition[k]) :
                   /\ m \in 1..Len(LandedAt(events, reached)[k])
                   /\ LandedAt(events, reached)[k][m] = partition[k][m]
              /\ \A m \in 1..Len(LandedAt(events, reached)[k]) :
                   \/ m \in 1..Len(partition[k])
                   \/ /\ k \in reached /\ m - Len(partition[k]) \in 1..Len(OfKey(events, k))
                      /\ LandedAt(events, reached)[k][m] = OfKey(events, k)[m - Len(partition[k])]
<1> DEFINE L == LandedAt(events, reached)
<1>1. ASSUME NEW k \in PartitionKeys
      PROVE  L[k] = IF k \in reached THEN partition[k] \o OfKey(events, k) ELSE partition[k]
  BY DEF LandedAt
<1>2. ASSUME NEW k \in PartitionKeys
      PROVE  /\ L[k] \in Seq(Events)
             /\ ToSet(L[k]) = ToSet(partition[k]) \cup
                  {e \in ToSet(events) : KeyOf[e] = k /\ k \in reached}
             /\ \A m \in 1..Len(partition[k]) : m \in 1..Len(L[k]) /\ L[k][m] = partition[k][m]
             /\ \A m \in 1..Len(L[k]) :
                  \/ m \in 1..Len(partition[k])
                  \/ /\ k \in reached /\ m - Len(partition[k]) \in 1..Len(OfKey(events, k))
                     /\ L[k][m] = OfKey(events, k)[m - Len(partition[k])]
  <2>1. CASE k \notin reached  BY <1>1, <2>1
  <2>2. CASE k \in reached
    <3> DEFINE a == partition[k]
               c == OfKey(events, k)
    <3>1. a \in Seq(Events) /\ c \in Seq(Events) /\ ToSet(c) = {e \in ToSet(events) : KeyOf[e] = k}
      BY OfKeyProperties
    <3>2. L[k] = a \o c  BY <1>1, <2>2
    <3> HIDE DEF L, c
    <3>3. a \o c \in Seq(Events) /\ ToSet(a \o c) = ToSet(a) \cup ToSet(c)
      BY <3>1, ToSetConcat
    <3>4. /\ Len(a) \in Nat /\ Len(c) \in Nat /\ Len(a \o c) = Len(a) + Len(c)
          /\ \A i \in 1..(Len(a) + Len(c)) :
               (a \o c)[i] = IF i <= Len(a) THEN a[i] ELSE c[i - Len(a)]
      BY <3>1, ConcatProperties, LenProperties
    <3>5. \A m \in 1..Len(a) : m \in 1..Len(a \o c) /\ (a \o c)[m] = a[m]
      BY <3>4
    <3>6. \A m \in 1..Len(a \o c) :
            \/ m \in 1..Len(a)
            \/ m - Len(a) \in 1..Len(c) /\ (a \o c)[m] = c[m - Len(a)]
      BY <3>4
    <3> QED  BY <2>2, <3>1, <3>2, <3>3, <3>5, <3>6 DEF c
  <2> QED  BY <2>1, <2>2
<1>3. L \in [PartitionKeys -> Seq(Events)]
  <2>1. L = [k \in PartitionKeys |-> L[k]]  BY DEF LandedAt
  <2> HIDE DEF L
  <2> QED  BY <1>2, <2>1
<1> QED  BY <1>2, <1>3

LEMMA IngestInitInv == IngestInit => IngestInv
<1> SUFFICES ASSUME IngestInit PROVE IngestInv
  OBVIOUS
<1>1. ToSet(<<>>) = {} /\ IsInjective(<<>>) /\ Len(<<>>) = 0  BY DEF ToSet, IsInjective
<1>2. \A b \in Batches : Len(Payload[b]) \in Nat /\ Len(Payload[b]) > 0  BY PayloadFacts
<1>3. IngestTypes
  <2>1. <<>> \in Seq(Events) /\ <<>> \in Seq(PartitionKeys) /\ <<>> \in Seq(Events \cup {Torn})
    OBVIOUS
  <2>2. /\ file \in [PartitionKeys -> Seq(Events \cup {Torn})] /\ mtime \in Seq(PartitionKeys)
        /\ partition \in [PartitionKeys -> Seq(Events)] /\ spooled \in [PartitionKeys -> Seq(Events)]
        /\ work \in [Ticks -> Seq(PartitionKeys)] /\ held \in [Ticks -> Seq(Events)]
    BY <2>1 DEF IngestInit
  <2>3. /\ batch \in [Batches -> {"idle", "publishing", "spooling", "accepted", "refused"}]
        /\ done \in [Batches -> Nat] /\ running \in BOOLEAN
        /\ pass \in [Ticks -> {"off", "drain", "publish", "remove"}]
    BY DEF IngestInit
  <2>4. \A k \in PartitionKeys : partition[k] = <<>> /\ file[k] = <<>>  BY DEF IngestInit
  <2> QED  BY <1>1, <2>2, <2>3, <2>4 DEF IngestTypes
<1>4. PassInv  BY <1>1 DEF IngestInit, PassInv, Begins
<1>5. HandlerInv  BY <1>2 DEF IngestInit, HandlerInv
<1>6. SpoolInv  BY <1>1 DEF IngestInit, SpoolInv
<1>7. OrderInv  BY <1>1 DEF IngestInit, OrderInv, Before, InKafka
<1> QED  BY <1>3, <1>4, <1>5, <1>6, <1>7 DEF IngestInv


(* Actions that change no line and nothing in Kafka.                       *)
LEMMA LogsSame ==
  ASSUME SpoolInv, OrderInv, UNCHANGED <<file, partition, spooled, live, done>>
  PROVE  SpoolInv' /\ OrderInv'
BY DEF SpoolInv, OrderInv, Before, InKafka, InFile

LEMMA HandlerSteps ==
  ASSUME IngestInv, NEW b \in Batches, Accept(b) \/ PublishFails(b)
  PROVE  IngestInv'
<1> USE DEF IngestInv
<1>1. /\ \/ batch[b] = "idle" /\ batch' = [batch EXCEPT ![b] = "publishing"]
         \/ batch[b] = "publishing" /\ batch' = [batch EXCEPT ![b] = "spooling"]
      /\ UNCHANGED <<done, file, mtime, partition, running, pass, work, held, raced, spooled, live>>
  BY DEF Accept, PublishFails, disk, flusher, ingestHistory
<1>2. IngestTypes'  BY <1>1 DEF IngestTypes, Exists
<1>3. PassInv'  BY <1>1 DEF PassInv, InKafka, Begins
<1>4. HandlerInv'
  <2> SUFFICES ASSUME NEW c \in Batches
               PROVE  /\ done[c] <= Len(Payload[c])
                      /\ batch'[c] \in {"idle", "publishing"} => done[c] = 0
                      /\ batch'[c] = "spooling" => done[c] < Len(Payload[c])
                      /\ \A n \in 1..Len(Payload[c]) :
                           n <= done[c] \/ batch'[c] = "accepted" => Safe(Payload[c][n])
    BY <1>1 DEF HandlerInv, Safe, InKafka, InFile
  <2>1. Len(Payload[c]) > 0  BY PayloadFacts
  <2>2. batch'[c] = batch[c] \/ (batch[c] \in {"idle", "publishing"} /\ batch'[c] \in {"publishing", "spooling"})
    BY <1>1 DEF IngestTypes
  <2> QED  BY <2>1, <2>2 DEF HandlerInv
<1>5. SpoolInv' /\ OrderInv'  BY <1>1, LogsSame
<1> QED  BY <1>2, <1>3, <1>4, <1>5

(* The end of the process and its boot.                                    *)
LEMMA ProcessSteps == ASSUME IngestInv, Dies \/ IngestBoot PROVE IngestInv'
<1> USE DEF IngestInv
<1>1. CASE IngestBoot
  <2>1. UNCHANGED <<batch, done, file, mtime, partition, running, pass, work, held, raced, spooled, live>>
    BY <1>1 DEF IngestBoot, handler, disk, flusher, ingestHistory
  <2>2. SpoolInv' /\ OrderInv'  BY <2>1, LogsSame
  <2>3. IngestTypes'  BY <2>1 DEF IngestTypes, Exists
  <2>4. PassInv'  BY <2>1 DEF PassInv, InKafka, Begins
  <2>5. HandlerInv'  BY <2>1 DEF HandlerInv, Safe, InKafka, InFile
  <2> QED  BY <2>2, <2>3, <2>4, <2>5
<1>2. CASE Dies
  <2>1. /\ batch' = [b \in Batches |-> IF batch[b] \in Busy THEN "refused" ELSE batch[b]]
        /\ running' = FALSE /\ pass' = [t \in Ticks |-> "off"]
        /\ work' = [t \in Ticks |-> <<>>] /\ held' = [t \in Ticks |-> <<>>]
        /\ UNCHANGED <<done, file, mtime, partition, raced, spooled, live>>
    BY <1>2 DEF Dies, disk, ingestHistory
  <2>2. SpoolInv' /\ OrderInv'  BY <2>1, LogsSame
  <2>3. <<>> \in Seq(Events) /\ <<>> \in Seq(PartitionKeys)  OBVIOUS
  <2>4. \A b \in Batches : batch'[b] = batch[b] \/ batch'[b] = "refused"  BY <2>1
  <2>5. IngestTypes'
    <3>1. batch' \in [Batches -> {"idle", "publishing", "spooling", "accepted", "refused"}]
      BY <2>1 DEF IngestTypes
    <3>2. /\ running' \in BOOLEAN /\ pass' \in [Ticks -> {"off", "drain", "publish", "remove"}]
          /\ work' \in [Ticks -> Seq(PartitionKeys)] /\ held' \in [Ticks -> Seq(Events)]
      BY <2>1, <2>3
    <3> QED  BY <2>1, <3>1, <3>2 DEF IngestTypes, Exists
  <2>6. PassInv'
    <3>1. \A t \in Ticks : pass'[t] = "off" /\ work'[t] = <<>> /\ held'[t] = <<>>  BY <2>1
    <3> QED  BY <2>1, <3>1 DEF PassInv
  <2>7. HandlerInv'  BY <2>1, <2>4 DEF HandlerInv, Safe, InKafka, InFile
  <2> QED  BY <2>2, <2>5, <2>6, <2>7
<1> QED  BY <1>1, <1>2

LEMMA StartPassInv == ASSUME IngestInv, NEW t \in Ticks, StartPass(t) PROVE IngestInv'
<1> USE DEF IngestInv
<1>1. /\ pass[t] = "off" /\ ~ running /\ mtime # <<>> /\ running' = TRUE
      /\ pass' = [pass EXCEPT ![t] = "drain"] /\ work' = [work EXCEPT ![t] = mtime]
      /\ UNCHANGED <<batch, done, file, mtime, partition, held, raced, spooled, live>>
  BY DEF StartPass, MayTick, handler, disk, ingestHistory
<1>2. IngestTypes'  BY <1>1 DEF IngestTypes, Exists
<1>3. PassInv'
  <2>1. \A u \in Ticks : pass[u] = "off" /\ held[u] = <<>> /\ work[u] = <<>>
    BY <1>1 DEF PassInv, IngestTypes
  <2>2. /\ pass'[t] = "drain" /\ work'[t] = mtime
        /\ \A u \in Ticks \ {t} : pass'[u] = "off" /\ work'[u] = <<>>
    BY <1>1, <2>1 DEF IngestTypes
  <2>3. Head(mtime) \in PartitionKeys /\ \A k \in PartitionKeys : Len(file[k]) \in Nat
    <3>1. Head(mtime) \in PartitionKeys  BY <1>1, HeadTailProperties DEF IngestTypes
    <3> QED  BY <3>1, LenProperties DEF IngestTypes
  <2>4. Begins(<<>>, file[Head(mtime)])  BY <2>3 DEF Begins
  <2>5. \A u \in Ticks : held'[u] = <<>>  BY <1>1, <2>1
  <2>6. (\A u \in Ticks : pass'[u] # "off" => u = t) /\ pass'[t] # "off" /\ running'
    BY <1>1, <2>2
  <2>7. file' = file  BY <1>1
  <2> QED  BY <1>1, <2>2, <2>4, <2>5, <2>6, <2>7 DEF PassInv, Begins
<1>4. HandlerInv'  BY <1>1 DEF HandlerInv, Safe, InKafka, InFile
<1>5. SpoolInv' /\ OrderInv'  BY <1>1, LogsSame
<1> QED  BY <1>2, <1>3, <1>4, <1>5

LEMMA DrainFileInv == ASSUME IngestInv, NEW t \in Ticks, DrainFile(t) PROVE IngestInv'
<1> USE DEF IngestInv
<1> DEFINE k == Head(work[t])
<1>1. /\ pass[t] = "drain" /\ Torn \notin ToSet(file[k]) /\ held' = [held EXCEPT ![t] = file[k]]
      /\ pass' = [pass EXCEPT ![t] = IF file[k] = <<>> THEN "remove" ELSE "publish"]
      /\ UNCHANGED <<batch, done, file, mtime, partition, running, work, raced, spooled, live>>
  BY DEF DrainFile, handler, disk, ingestHistory
<1>2. k \in PartitionKeys
  <2>1. work[t] \in Seq(PartitionKeys) /\ work[t] # <<>>  BY <1>1 DEF PassInv, IngestTypes
  <2> QED  BY <2>1, HeadTailProperties
<1> HIDE DEF k
<1>3. file[k] \in Seq(Events)
  <2>1. file[k] \in Seq(Events \cup {Torn})  BY <1>2 DEF IngestTypes
  <2>2. \A i \in 1..Len(file[k]) : file[k][i] \in Events \cup {Torn} /\ file[k][i] # Torn
    BY <1>1, <2>1, ToSetMembers
  <2>3. Len(file[k]) \in Nat /\ file[k] = [i \in 1..Len(file[k]) |-> file[k][i]]
    BY <2>1, LenProperties
  <2> QED  BY <2>2, <2>3, IsASeq
<1>4. IngestTypes'
  <2>1. held' \in [Ticks -> Seq(Events)]  BY <1>1, <1>3 DEF IngestTypes
  <2>2. pass' \in [Ticks -> {"off", "drain", "publish", "remove"}]  BY <1>1 DEF IngestTypes
  <2> QED  BY <1>1, <2>1, <2>2 DEF IngestTypes, Exists
<1>5. PassInv'
  <2>1. Begins(file[k], file[k])
    BY <1>3, LenProperties DEF Begins
  <2>2. /\ pass'[t] \in {"remove", "publish"} /\ held'[t] = file[k] /\ work'[t] = work[t]
        /\ pass'[t] = "remove" => held'[t] = <<>>
        /\ \A u \in Ticks \ {t} : pass'[u] = pass[u] /\ held'[u] = held[u]
        /\ UNCHANGED <<work, file, partition, running>>
    BY <1>1 DEF IngestTypes
  <2>3. ToSet(<<>>) = {}  BY DEF ToSet
  <2>4. ASSUME NEW u \in Ticks
        PROVE  /\ pass'[u] # "off" <=> work[u] # <<>>
               /\ pass'[u] # "off" => running
               /\ pass'[u] \in {"off", "drain"} => held'[u] = <<>>
               /\ pass'[u] # "off" => Begins(held'[u], file[Head(work[u])])
               /\ pass'[u] = "remove" => \A e \in ToSet(held'[u]) : InKafka(e)
    <3>1. CASE u = t
      BY <1>1, <2>1, <2>2, <2>3, <3>1 DEF PassInv, k
    <3>2. CASE u # t  BY <2>2, <3>2 DEF PassInv
    <3> QED  BY <3>1, <3>2
  <2>5. \A u \in Ticks : pass'[u] # "off" <=> pass[u] # "off"  BY <1>1, <2>2
  <2> QED  BY <2>2, <2>4, <2>5 DEF PassInv, Begins, InKafka
<1>6. HandlerInv'  BY <1>1 DEF HandlerInv, Safe, InKafka, InFile
<1>7. SpoolInv' /\ OrderInv'  BY <1>1, LogsSame
<1> QED  BY <1>4, <1>5, <1>6, <1>7


(* A publish of a batch, whole or in part: what it brings to Kafka is live.*)
LEMMA PublishLandsInv == ASSUME IngestInv, NEW b \in Batches, PublishLands(b) PROVE IngestInv'
<1> USE DEF IngestInv
<1> DEFINE P == Payload[b]
<1>0. /\ P \in Seq(Events) /\ Len(P) \in Nat /\ Len(P) > 0 /\ DOMAIN P = 1..Len(P)
      /\ ToSet(P) \subseteq Events /\ \A e \in ToSet(P) : KeyOf[e] \in PartitionKeys
      /\ \A n \in 1..Len(P) : P[n] \in ToSet(P)
  BY PayloadFacts, ToSetMembers
<1> HIDE DEF P
<1>1. PICK reached \in SUBSET PartitionKeys :
        /\ batch[b] = "publishing" /\ partition' = LandedAt(P, reached)
        /\ live' = live \cup {e \in ToSet(P) : KeyOf[e] \in reached}
        /\ \/ batch' = [batch EXCEPT ![b] = "accepted"] /\ reached = PartitionKeys
           \/ batch' = [batch EXCEPT ![b] = "spooling"]
        /\ UNCHANGED <<done, file, mtime, running, pass, work, held, raced, spooled>>
  <2>1. CASE /\ batch' = [batch EXCEPT ![b] = "accepted"] /\ partition' = Landed(P)
             /\ live' = live \cup ToSet(P)
    <3>1. {e \in ToSet(P) : KeyOf[e] \in PartitionKeys} = ToSet(P)  BY <1>0
    <3>2. PartitionKeys \in SUBSET PartitionKeys  OBVIOUS
    <3> QED  BY <2>1, <3>1, <3>2 DEF PublishLands, Landed, disk, flusher
  <2>2. CASE \E reached \in SUBSET PartitionKeys :
               /\ batch' = [batch EXCEPT ![b] = "spooling"]
               /\ partition' = LandedAt(P, reached)
               /\ live' = live \cup {e \in ToSet(P) : KeyOf[e] \in reached}
    BY <2>2 DEF PublishLands, disk, flusher
  <2> QED  BY <2>1, <2>2 DEF PublishLands, P
<1>2. /\ partition' \in [PartitionKeys -> Seq(Events)]
      /\ \A k \in PartitionKeys :
           /\ ToSet(partition'[k]) = ToSet(partition[k]) \cup
                {e \in ToSet(P) : KeyOf[e] = k /\ k \in reached}
           /\ \A m \in 1..Len(partition[k]) :
                m \in 1..Len(partition'[k]) /\ partition'[k][m] = partition[k][m]
  BY <1>0, <1>1, LandedProperties DEF IngestTypes
<1>3. IngestTypes'
  <2>1. batch' \in [Batches -> {"idle", "publishing", "spooling", "accepted", "refused"}]
    BY <1>1 DEF IngestTypes
  <2>2. \A k \in PartitionKeys : \A e \in ToSet(partition'[k]) : KeyOf[e] = k
    BY <1>2 DEF IngestTypes
  <2> QED  BY <1>1, <1>2, <2>1, <2>2 DEF IngestTypes, Exists
<1>4. \A e : InKafka(e) /\ KeyOf[e] \in PartitionKeys => InKafka(e)'
  BY <1>2 DEF InKafka
<1>5. PassInv'
  <2>1. ASSUME NEW u \in Ticks, pass[u] = "remove", NEW e \in ToSet(held[u])
        PROVE  InKafka(e)'
    <3>1. e \in Events  BY <2>1, ToSetMembers DEF IngestTypes
    <3> QED  BY <1>4, <2>1, <3>1, IngestAssumption DEF PassInv
  <2> QED  BY <1>1, <2>1 DEF PassInv, Begins
<1>6. HandlerInv'
  <2> SUFFICES ASSUME NEW c \in Batches
               PROVE  /\ done[c] <= Len(Payload[c])
                      /\ batch'[c] \in {"idle", "publishing"} => done[c] = 0
                      /\ batch'[c] = "spooling" => done[c] < Len(Payload[c])
                      /\ \A n \in 1..Len(Payload[c]) :
                           n <= done[c] \/ batch'[c] = "accepted" => Safe(Payload[c][n])'
    BY <1>1 DEF HandlerInv
  <2>1. \A n \in 1..Len(Payload[c]) : Safe(Payload[c][n]) => Safe(Payload[c][n])'
    <3>1. \A n \in 1..Len(Payload[c]) : KeyOf[Payload[c][n]] \in PartitionKeys  BY PayloadFacts
    <3> QED  BY <1>1, <1>4, <3>1 DEF Safe, InFile
  <2>2. CASE c # b
    <3>1. batch'[c] = batch[c]  BY <1>1, <2>2 DEF IngestTypes
    <3> QED  BY <2>1, <3>1 DEF HandlerInv
  <2>3. CASE c = b
    <3>1. done[c] = 0 /\ Len(Payload[c]) > 0  BY <1>0, <1>1, <2>3 DEF HandlerInv, P
    <3>2. \/ batch'[c] = "spooling"
          \/ batch'[c] = "accepted" /\ reached = PartitionKeys
      <4>1. \A s : batch' = [batch EXCEPT ![b] = s] => batch'[c] = s  BY <2>3 DEF IngestTypes
      <4> QED  BY <1>1, <4>1
    <3>3. reached = PartitionKeys => \A n \in 1..Len(P) : InKafka(P[n])'
      BY <1>0, <1>2 DEF InKafka
    <3>4. \A n \in 1..Len(Payload[c]) : ~ (n <= done[c])  BY <1>0, <2>3, <3>1 DEF P
    <3> QED  BY <2>3, <3>1, <3>2, <3>3, <3>4 DEF Safe, P
  <2> QED  BY <2>2, <2>3
<1>7. SpoolInv'
  <2>1. \A k \in PartitionKeys : \A e \in ToSet(partition'[k]) :
           e \in live' \/ e \in ToSet(spooled[k])
    BY <1>1, <1>2 DEF SpoolInv
  <2> QED  BY <1>1, <2>1 DEF SpoolInv
<1>8. OrderInv'
  <2>1. ASSUME NEW k \in PartitionKeys, NEW d \in Events \ live', NEW e \in Events \ live',
               Before(spooled[k], d, e), InKafka(e)'
        PROVE  IF InKafka(d)'
               THEN \A m \in DOMAIN partition'[k] : partition'[k][m] = e =>
                      \E l \in 1..(m - 1) : partition'[k][l] = d
               ELSE ~ InFile(d)
    <3>1. KeyOf[e] = k /\ KeyOf[d] = k
      <4>1. spooled[k] \in Seq(Events)  BY DEF IngestTypes
      <4>2. d \in ToSet(spooled[k]) /\ e \in ToSet(spooled[k])  BY <2>1 DEF Before, ToSet
      <4> QED  BY <4>2 DEF SpoolInv
    <3>2. /\ d \notin live /\ e \notin live
          /\ \A x \in ToSet(partition'[k]) : x \in {d, e} => x \in ToSet(partition[k])
      BY <1>1, <1>2
    <3>3. InKafka(e) /\ (InKafka(d)' => InKafka(d)) /\ (~ InKafka(d)' => ~ InKafka(d))
      BY <1>4, <2>1, <3>1, <3>2 DEF InKafka
    <3>4. CASE ~ InKafka(d)'
      BY <2>1, <3>2, <3>3, <3>4 DEF OrderInv
    <3>5. CASE InKafka(d)'
      <4> SUFFICES ASSUME NEW m \in DOMAIN partition'[k], partition'[k][m] = e
                   PROVE  \E l \in 1..(m - 1) : partition'[k][l] = d
        BY <3>5
      <4>1. m \in 1..Len(partition'[k]) /\ Len(partition[k]) \in Nat
        BY <1>2, LenProperties DEF IngestTypes
      <4>2. m \in 1..Len(partition[k])
        <5>1. \/ m \in 1..Len(partition[k])
              \/ /\ k \in reached /\ m - Len(partition[k]) \in 1..Len(OfKey(P, k))
                 /\ partition'[k][m] = OfKey(P, k)[m - Len(partition[k])]
          <6>1. partition \in [PartitionKeys -> Seq(Events)] /\ P \in Seq(Events)
            BY <1>0 DEF IngestTypes
          <6>2. m \in 1..Len(LandedAt(P, reached)[k])  BY <1>1, <4>1
          <6>3. \/ m \in 1..Len(partition[k])
                \/ /\ k \in reached /\ m - Len(partition[k]) \in 1..Len(OfKey(P, k))
                   /\ LandedAt(P, reached)[k][m] = OfKey(P, k)[m - Len(partition[k])]
            BY ONLY <6>1, <6>2, k \in PartitionKeys, LandedProperties
          <6> QED  BY ONLY <1>1, <6>3
        <5>2. ASSUME k \in reached, e \in ToSet(OfKey(P, k)) PROVE FALSE
          BY <1>0, <1>1, <3>1, <5>2, OfKeyProperties
        <5>3. \A i \in 1..Len(OfKey(P, k)) : OfKey(P, k)[i] \in ToSet(OfKey(P, k))
          BY <1>0, OfKeyProperties, ToSetMembers
        <5> QED  BY <5>1, <5>2, <5>3
      <4>3. partition[k][m] = e /\ m \in DOMAIN partition[k]
        BY <1>2, <4>2, LenProperties DEF IngestTypes
      <4>4. PICK l \in 1..(m - 1) : partition[k][l] = d
        BY <2>1, <3>2, <3>3, <3>5, <4>3 DEF OrderInv
      <4>5. l \in 1..Len(partition[k])  BY <4>1, <4>2
      <4> QED  BY <1>2, <4>4, <4>5
    <3> QED  BY <3>4, <3>5
  <2>2. UNCHANGED <<file, spooled>>  BY <1>1
  <2> QED  BY <2>1, <2>2 DEF OrderInv, Before, InFile
<1> QED  BY <1>3, <1>5, <1>6, <1>7, <1>8

(* Of two events spooled in that order, no file and no pass has them the   *)
(* other way round.                                                        *)
LEMMA BeforeOrders ==
  ASSUME IngestInv, NEW k \in PartitionKeys, NEW d, NEW e, Before(spooled[k], d, e)
  PROVE  /\ d # e /\ ~ Before(spooled[k], e, d) /\ KeyOf[d] = k /\ KeyOf[e] = k
         /\ d \in ToSet(spooled[k]) /\ e \in ToSet(spooled[k]) /\ d # Torn /\ e # Torn
<1> USE DEF IngestInv
<1>1. Len(spooled[k]) \in Nat /\ DOMAIN spooled[k] = 1..Len(spooled[k])
      /\ ToSet(spooled[k]) \subseteq Events
  BY LenProperties, ToSetMembers DEF IngestTypes
<1>2. PICK i \in 1..Len(spooled[k]), j \in 1..Len(spooled[k]) :
        i < j /\ spooled[k][i] = d /\ spooled[k][j] = e
  BY <1>1 DEF Before
<1>3. \A x, y \in 1..Len(spooled[k]) : spooled[k][x] = spooled[k][y] => x = y
  BY <1>1 DEF SpoolInv, IsInjective
<1>4. d # e /\ ~ Before(spooled[k], e, d)
  <2>1. d # e  BY <1>1, <1>2, <1>3
  <2>2. ASSUME Before(spooled[k], e, d) PROVE FALSE
    <3>1. PICK x \in 1..Len(spooled[k]), y \in 1..Len(spooled[k]) :
            x < y /\ spooled[k][x] = e /\ spooled[k][y] = d
      BY <1>1, <2>2 DEF Before
    <3>2. x = j /\ y = i  BY <1>2, <1>3, <3>1
    <3> QED  BY <1>1, <1>2, <3>1, <3>2
  <2> QED  BY <2>1, <2>2
<1>5. d \in ToSet(spooled[k]) /\ e \in ToSet(spooled[k])  BY <1>1, <1>2 DEF ToSet
<1> QED  BY <1>1, <1>4, <1>5, IngestAssumption DEF SpoolInv


(* What a pass holds was spooled under the key of its file, and is how the *)
(* file begins.                                                            *)
LEMMA HeldFacts ==
  ASSUME IngestInv, NEW t \in Ticks, pass[t] # "off"
  PROVE  LET k == Head(work[t]) IN
         /\ k \in PartitionKeys /\ work[t] # <<>>
         /\ Len(held[t]) \in Nat /\ Len(file[k]) \in Nat /\ Len(held[t]) <= Len(file[k])
         /\ DOMAIN file[k] = 1..Len(file[k])
         /\ \A i \in 1..Len(held[t]) :
              /\ i \in 1..Len(file[k]) /\ held[t][i] = file[k][i] /\ held[t][i] \in Events
         /\ \A e \in ToSet(held[t]) : e \in Events /\ KeyOf[e] = k /\ e \in ToSet(file[k])
         /\ \A e \in ToSet(file[k]) : e # Torn => KeyOf[e] = k
<1> USE DEF IngestInv
<1> DEFINE k == Head(work[t])
<1>1. work[t] \in Seq(PartitionKeys) /\ work[t] # <<>>  BY DEF PassInv, IngestTypes
<1>2. k \in PartitionKeys  BY <1>1, HeadTailProperties
<1> HIDE DEF k
<1>3. /\ held[t] \in Seq(Events) /\ file[k] \in Seq(Events \cup {Torn})  BY <1>2 DEF IngestTypes
<1>4. /\ Len(held[t]) \in Nat /\ Len(file[k]) \in Nat /\ DOMAIN file[k] = 1..Len(file[k])
      /\ \A i \in 1..Len(held[t]) : held[t][i] \in Events
  BY <1>3, LenProperties, ElementOfSeq
<1>5. Len(held[t]) <= Len(file[k]) /\ \A i \in 1..Len(held[t]) : file[k][i] = held[t][i]
  BY DEF PassInv, Begins, k
<1>6. \A i \in 1..Len(held[t]) : i \in 1..Len(file[k])  BY <1>4, <1>5
<1>7. \A e \in ToSet(file[k]) : e # Torn => KeyOf[e] = k  BY <1>2 DEF SpoolInv
<1>8. \A e \in ToSet(held[t]) : e \in Events /\ e \in ToSet(file[k])
  BY <1>3, <1>4, <1>5, <1>6, ToSetMembers
<1> QED  BY <1>1, <1>2, <1>4, <1>5, <1>6, <1>7, <1>8, IngestAssumption DEF k

(* A replay that lands brings what it holds to Kafka, in spool order       *)
(* behind all that was spooled before and is not gone.                     *)
LEMMA ReplayLands ==
  ASSUME IngestInv, NEW t \in Ticks, pass[t] = "publish", partition' = Landed(held[t]),
         UNCHANGED <<file, spooled, live, done>>
  PROVE  /\ partition' \in [PartitionKeys -> Seq(Events)]
         /\ \A k \in PartitionKeys : \A e \in ToSet(partition'[k]) : KeyOf[e] = k
         /\ \A e : InKafka(e) /\ KeyOf[e] \in PartitionKeys => InKafka(e)'
         /\ \A e \in ToSet(held[t]) : InKafka(e)'
         /\ SpoolInv' /\ OrderInv'
<1> USE DEF IngestInv
<1> DEFINE H == held[t]
           k == Head(work[t])
<1>0. /\ k \in PartitionKeys /\ H \in Seq(Events) /\ ToSet(H) \subseteq Events
      /\ Len(H) \in Nat /\ Len(file[k]) \in Nat /\ Len(H) <= Len(file[k])
      /\ DOMAIN file[k] = 1..Len(file[k])
      /\ \A i \in 1..Len(H) : i \in 1..Len(file[k]) /\ H[i] = file[k][i]
      /\ \A e \in ToSet(H) : KeyOf[e] = k /\ e \in ToSet(file[k])
      /\ \A e : e \in ToSet(H) <=> \E i \in 1..Len(H) : H[i] = e
      /\ \A e \in ToSet(file[k]) : e # Torn => KeyOf[e] = k
  <2>1. H \in Seq(Events)  BY DEF IngestTypes
  <2> QED  BY <2>1, HeldFacts, ToSetMembers
<1> HIDE DEF H, k
<1>1. /\ partition' \in [PartitionKeys -> Seq(Events)]
      /\ \A c \in PartitionKeys :
           /\ ToSet(partition'[c]) = ToSet(partition[c]) \cup {e \in ToSet(H) : KeyOf[e] = c}
           /\ \A m \in 1..Len(partition[c]) :
                m \in 1..Len(partition'[c]) /\ partition'[c][m] = partition[c][m]
           /\ \A m \in 1..Len(partition'[c]) :
                \/ m \in 1..Len(partition[c])
                \/ /\ m - Len(partition[c]) \in 1..Len(OfKey(H, c))
                   /\ partition'[c][m] = OfKey(H, c)[m - Len(partition[c])]
  <2>1. partition' = LandedAt(H, PartitionKeys)  BY DEF Landed, H
  <2>2. partition \in [PartitionKeys -> Seq(Events)]  BY DEF IngestTypes
  <2> QED  BY <1>0, <2>1, <2>2, LandedProperties
<1>2. \A c \in PartitionKeys : \A e \in ToSet(partition'[c]) : KeyOf[e] = c
  BY <1>1 DEF IngestTypes
<1>3. \A e : InKafka(e) /\ KeyOf[e] \in PartitionKeys => InKafka(e)'  BY <1>1 DEF InKafka
<1>4. \A e \in ToSet(H) : InKafka(e)'
  BY <1>0, <1>1 DEF InKafka
<1>5. \A e : InKafka(e)' /\ KeyOf[e] \in PartitionKeys => InKafka(e) \/ e \in ToSet(H)
  BY <1>1 DEF InKafka
<1>6. SpoolInv'
  <2>1. \A c \in PartitionKeys : \A e \in ToSet(partition'[c]) :
           e \in live \/ e \in ToSet(spooled[c])
    <3>1. \A e \in ToSet(H) : e \in ToSet(spooled[k])
      <4>1. \A e \in ToSet(file[k]) : e # Torn => e \in ToSet(spooled[k])
        BY <1>0 DEF SpoolInv
      <4>2. \A e \in ToSet(H) : e \in ToSet(file[k]) /\ e # Torn
        BY <1>0, IngestAssumption
      <4> QED  BY <4>1, <4>2
    <3>2. \A c \in PartitionKeys : \A e \in ToSet(H) : KeyOf[e] = c => e \in ToSet(spooled[c])
      BY <1>0, <3>1
    <3>3. \A c \in PartitionKeys : \A e \in ToSet(partition[c]) :
             e \in live \/ e \in ToSet(spooled[c])
      BY DEF SpoolInv
    <3>4. \A c \in PartitionKeys : \A e \in ToSet(partition'[c]) :
             e \in ToSet(partition[c]) \/ (e \in ToSet(H) /\ KeyOf[e] = c)
      BY <1>1
    <3> QED  BY <3>2, <3>3, <3>4
  <2> QED  BY <2>1 DEF SpoolInv
<1>7. OrderInv'
  <2>1. ASSUME NEW c \in PartitionKeys, NEW d \in Events \ live, NEW e \in Events \ live,
               Before(spooled[c], d, e), InKafka(e)'
        PROVE  IF InKafka(d)'
               THEN \A m \in DOMAIN partition'[c] : partition'[c][m] = e =>
                      \E l \in 1..(m - 1) : partition'[c][l] = d
               ELSE ~ InFile(d)
    <3>1. /\ KeyOf[e] = c /\ KeyOf[d] = c /\ d # e /\ ~ Before(spooled[c], e, d) /\ d # Torn /\ e # Torn
      BY <2>1, BeforeOrders
    <3>2. InKafka(e) => IF InKafka(d) THEN TRUE ELSE ~ InFile(d)  BY <2>1 DEF OrderInv
    <3>3. ASSUME NEW p \in 1..Len(file[k]), NEW q \in 1..Len(file[k]),
                 file[k][p] = d, file[k][q] = e
          PROVE  p < q /\ k = c
      <4>1. k = c
        <5>1. d \in ToSet(file[k])  BY <1>0, <3>3 DEF ToSet
        <5> QED  BY <1>0, <3>1, <5>1
      <4>2. p # q  BY <3>1, <3>3
      <4>3. ~ (q < p)
        <5>1. q < p => Before(spooled[k], file[k][q], file[k][p])
          BY <1>0, <3>1, <3>3 DEF OrderInv
        <5> QED  BY <3>1, <3>3, <4>1, <5>1
      <4>4. p \in Nat /\ q \in Nat  BY <1>0
      <4> QED  BY <4>1, <4>2, <4>3, <4>4
    <3>4. CASE ~ InKafka(d)'
      <4>1. ~ InKafka(d) /\ d \notin ToSet(H)  BY <1>3, <1>4, <3>1, <3>4
      <4>2. CASE InKafka(e)  BY <3>2, <3>4, <4>1, <4>2
      <4>3. CASE e \in ToSet(H)
        <5> SUFFICES ASSUME InFile(d) PROVE FALSE
          BY <3>4
        <5>1. k = c  BY <1>0, <3>1, <4>3
        <5>2. PICK q \in 1..Len(H) : H[q] = e  BY <1>0, <4>3
        <5>3. PICK p \in 1..Len(file[k]) : file[k][p] = d
          BY <1>0, <3>1, <5>1 DEF InFile, ToSet
        <5>4. p < q  BY <1>0, <3>3, <5>2, <5>3
        <5>5. p \in 1..Len(H)  BY <1>0, <5>4
        <5> QED  BY <1>0, <4>1, <5>3, <5>5
      <4> QED  BY <1>5, <2>1, <3>1, <4>2, <4>3
    <3>5. CASE InKafka(d)'
      <4> SUFFICES ASSUME NEW m \in DOMAIN partition'[c], partition'[c][m] = e
                   PROVE  \E l \in 1..(m - 1) : partition'[c][l] = d
        BY <3>5
      <4> DEFINE n == Len(partition[c])
      <4>1. n \in Nat /\ Len(partition'[c]) \in Nat /\ m \in 1..Len(partition'[c])
            /\ DOMAIN partition[c] = 1..n
        BY <1>1, LenProperties DEF IngestTypes
      <4>2. CASE m \in 1..n
        <5>1. partition[c][m] = e  BY <1>1, <4>2
        <5>2. InKafka(e)  BY <3>1, <4>1, <4>2, <5>1 DEF InKafka, ToSet
        <5>3. InKafka(d)
          <6>1. d \in ToSet(H) => InFile(d)  BY <1>0, <3>1 DEF InFile
          <6> QED  BY <1>5, <3>1, <3>2, <3>5, <5>2, <6>1
        <5>4. PICK l \in 1..(m - 1) : partition[c][l] = d
          BY <2>1, <4>1, <4>2, <5>1, <5>2, <5>3 DEF OrderInv
        <5>5. l \in 1..n  BY <4>1, <4>2
        <5> QED  BY <1>1, <5>4, <5>5
      <4>3. CASE m \notin 1..n
        <5> DEFINE x == m - n
        <5>1. x \in 1..Len(OfKey(H, c)) /\ OfKey(H, c)[x] = e  BY <1>1, <4>1, <4>3
        <5>2. n < m /\ m <= Len(partition'[c])  BY <4>1, <4>3
        <5>3. CASE InKafka(d)
          <6>1. PICK l \in 1..n : partition[c][l] = d
            BY <3>1, <4>1, <5>3 DEF InKafka, ToSet
          <6>2. l \in 1..(m - 1)  BY <4>1, <5>2
          <6> QED  BY <1>1, <6>1, <6>2
        <5>4. CASE d \in ToSet(H)
          <6>1. PICK p \in 1..Len(H) : H[p] = d  BY <1>0, <5>4
          <6>2. PICK q \in 1..Len(H) :
                  /\ H[q] = e
                  /\ p < q => \E y \in 1..(x - 1) : OfKey(H, c)[y] = d
            <7>1. \A z \in 1..Len(OfKey(H, c)), o \in 1..Len(H) :
                    KeyOf[H[o]] = c =>
                      \E q \in 1..Len(H) :
                        /\ H[q] = OfKey(H, c)[z]
                        /\ o < q => \E y \in 1..(z - 1) : OfKey(H, c)[y] = H[o]
              <8>1. H \in Seq(Events)  BY <1>0
              <8> HIDE DEF H, n, x
              <8> QED  BY ONLY <8>1, OfKeyProperties, SMTT(40)
            <7>2. KeyOf[H[p]] = c  BY <3>1, <6>1
            <7>3. x \in 1..Len(OfKey(H, c))  BY <5>1
            <7> HIDE DEF x
            <7>4. \E q \in 1..Len(H) :
                    /\ H[q] = OfKey(H, c)[x]
                    /\ p < q => \E y \in 1..(x - 1) : OfKey(H, c)[y] = H[p]
              BY <7>1, <7>2, <7>3
            <7> QED  BY <5>1, <6>1, <7>4
          <6>3. p < q  BY <1>0, <3>3, <6>1, <6>2
          <6>4. PICK y \in 1..(x - 1) : OfKey(H, c)[y] = d  BY <6>2, <6>3
          <6>5. /\ n + y \in 1..(m - 1) /\ n + y \in 1..Len(partition'[c])
                /\ n + y \notin 1..n /\ (n + y) - n = y
            <7>1. /\ n \in Nat /\ m \in Nat /\ Len(partition'[c]) \in Nat
                  /\ n < m /\ m <= Len(partition'[c]) /\ y \in 1..((m - n) - 1)
              BY <4>1, <5>2, <6>4
            <7>2. y \in Nat /\ 1 <= y /\ n + y <= m - 1  BY ONLY <7>1
            <7>3. n + y \in Nat /\ n + y <= m - 1 /\ n < n + y /\ (n + y) - n = y
              BY ONLY <7>1, <7>2
            <7>4. n + y <= Len(partition'[c]) /\ 1 <= n + y /\ m - 1 \in Nat
              BY ONLY <7>1, <7>3
            <7> HIDE DEF n
            <7> QED  BY ONLY <7>1, <7>3, <7>4
          <6>6. partition'[c][n + y] = d
            <7>1. partition'[c][n + y] = OfKey(H, c)[(n + y) - n]  BY <1>1, <6>5
            <7> QED  BY ONLY <6>4, <6>5, <7>1
          <6> QED  BY <6>5, <6>6
        <5> QED  BY <1>5, <3>1, <3>5, <5>3, <5>4
      <4> QED  BY <4>2, <4>3
    <3> QED  BY <3>4, <3>5
  <2> QED  BY <2>1 DEF OrderInv, Before, InFile
<1> QED  BY <1>1, <1>2, <1>3, <1>4, <1>6, <1>7 DEF H


(* With a pass over, none is left.                                         *)
LEMMA OverInv ==
  ASSUME IngestTypes, PassInv, NEW t \in Ticks, pass[t] # "off", Over(t)
  PROVE  /\ PassInv' /\ running' \in BOOLEAN /\ pass' \in [Ticks -> {"off", "drain", "publish", "remove"}]
         /\ work' \in [Ticks -> Seq(PartitionKeys)] /\ held' \in [Ticks -> Seq(Events)]
<1>1. <<>> \in Seq(PartitionKeys) /\ <<>> \in Seq(Events)  OBVIOUS
<1>2. /\ running' = FALSE /\ pass' = [pass EXCEPT ![t] = "off"]
      /\ work' = [work EXCEPT ![t] = <<>>] /\ held' = [held EXCEPT ![t] = <<>>]
  BY DEF Over
<1>3. \A u \in Ticks : u # t => pass[u] = "off" /\ work[u] = <<>> /\ held[u] = <<>>
  BY DEF PassInv, IngestTypes
<1>4. \A u \in Ticks : pass'[u] = "off" /\ work'[u] = <<>> /\ held'[u] = <<>>
  BY <1>2, <1>3 DEF IngestTypes
<1>5. PassInv'  BY <1>2, <1>4 DEF PassInv
<1> QED  BY <1>1, <1>2, <1>5 DEF IngestTypes

LEMMA FlushInv ==
  ASSUME IngestInv, NEW t \in Ticks, FlushLands(t) \/ FlushFails(t) PROVE IngestInv'
<1> USE DEF IngestInv
<1>1. /\ pass[t] = "publish" /\ (partition' = partition \/ partition' = Landed(held[t]))
      /\ \/ /\ pass' = [pass EXCEPT ![t] = "remove"] /\ UNCHANGED <<running, work, held>>
            /\ partition' = Landed(held[t])
         \/ Over(t)
      /\ UNCHANGED <<batch, done, file, mtime, raced, spooled, live>>
  BY DEF FlushLands, FlushFails, handler, disk, ingestHistory
<1>2. /\ partition' \in [PartitionKeys -> Seq(Events)]
      /\ \A k \in PartitionKeys : \A e \in ToSet(partition'[k]) : KeyOf[e] = k
      /\ \A e : InKafka(e) /\ KeyOf[e] \in PartitionKeys => InKafka(e)'
      /\ partition' = Landed(held[t]) => \A e \in ToSet(held[t]) : InKafka(e)'
      /\ SpoolInv' /\ OrderInv'
  <2>1. CASE partition' = Landed(held[t])
    BY <1>1, <2>1, ReplayLands
  <2>2. CASE partition' = partition /\ partition' # Landed(held[t])
    <3>1. SpoolInv' /\ OrderInv'  BY <1>1, <2>2, LogsSame
    <3> QED  BY <2>2, <3>1 DEF IngestTypes, InKafka
  <2> QED  BY <1>1, <2>1, <2>2
<1>3. HandlerInv'
  <2>1. \A b \in Batches : \A n \in 1..Len(Payload[b]) :
           Safe(Payload[b][n]) => Safe(Payload[b][n])'
    <3>1. \A b \in Batches : \A n \in 1..Len(Payload[b]) : KeyOf[Payload[b][n]] \in PartitionKeys
      BY PayloadFacts
    <3> QED  BY <1>1, <1>2, <3>1 DEF Safe, InFile
  <2>2. UNCHANGED <<batch, done>>  BY <1>1
  <2> QED  BY <2>1, <2>2 DEF HandlerInv
<1>4. CASE Over(t)
  <2>1. /\ PassInv' /\ running' \in BOOLEAN /\ pass' \in [Ticks -> {"off", "drain", "publish", "remove"}]
        /\ work' \in [Ticks -> Seq(PartitionKeys)] /\ held' \in [Ticks -> Seq(Events)]
    BY <1>1, <1>4, OverInv
  <2>2. IngestTypes'  BY <1>1, <1>2, <2>1 DEF IngestTypes, Exists
  <2> QED  BY <1>2, <1>3, <2>1, <2>2
<1>5. CASE /\ pass' = [pass EXCEPT ![t] = "remove"] /\ UNCHANGED <<running, work, held>>
           /\ partition' = Landed(held[t])
  <2>1. IngestTypes'
    <3>1. pass' \in [Ticks -> {"off", "drain", "publish", "remove"}]  BY <1>5 DEF IngestTypes
    <3> QED  BY <1>1, <1>2, <1>5, <3>1 DEF IngestTypes, Exists
  <2>2. PassInv'
    <3>1. \A u \in Ticks : pass'[u] = IF u = t THEN "remove" ELSE pass[u]
      BY <1>5 DEF IngestTypes
    <3>2. \A u \in Ticks \ {t} : pass[u] = "off"  BY <1>1 DEF PassInv
    <3>3. \A u \in Ticks : pass'[u] = "remove" => u = t  BY <3>1, <3>2
    <3>4. \A e \in ToSet(held[t]) : InKafka(e)'  BY <1>2, <1>5
    <3>5. UNCHANGED <<running, work, held, file>>  BY <1>1, <1>5
    <3> QED  BY <1>1, <3>1, <3>2, <3>3, <3>4, <3>5 DEF PassInv, Begins
  <2> QED  BY <1>2, <1>3, <2>1, <2>2
<1> QED  BY <1>1, <1>4, <1>5

(* unlink: the events of the file are in Kafka, or came after the drain.   *)
LEMMA RemoveFileInv == ASSUME IngestInv, NEW t \in Ticks, RemoveFile(t) PROVE IngestInv'
<1> USE DEF IngestInv
<1> DEFINE k == Head(work[t])
<1>1. /\ pass[t] = "remove" /\ file' = [file EXCEPT ![k] = <<>>] /\ mtime' = RemoveFirst(mtime, k)
      /\ raced' = raced \cup (ToSet(file[k]) \ (ToSet(held[t]) \cup {Torn}))
      /\ \/ Over(t)
         \/ /\ Len(work[t]) # 1 /\ pass' = [pass EXCEPT ![t] = "drain"]
            /\ work' = [work EXCEPT ![t] = Tail(work[t])] /\ held' = [held EXCEPT ![t] = <<>>]
            /\ running' = running
      /\ UNCHANGED <<batch, done, partition, spooled, live>>
  BY DEF RemoveFile, Removed, handler
<1>2. k \in PartitionKeys /\ work[t] # <<>>  BY <1>1, HeldFacts
<1>3. work[t] \in Seq(PartitionKeys)  BY DEF IngestTypes
<1> HIDE DEF k
<1>4. /\ \A c \in PartitionKeys : file'[c] = IF c = k THEN <<>> ELSE file[c]
      /\ file' \in [PartitionKeys -> Seq(Events \cup {Torn})]
      /\ ToSet(<<>>) = {}
  <2>1. <<>> \in Seq(Events \cup {Torn})  OBVIOUS
  <2> QED  BY <1>1, <1>2, <2>1 DEF IngestTypes, ToSet
<1>5. mtime' \in Seq(PartitionKeys) /\ ToSet(mtime) \ {k} \subseteq ToSet(mtime')
  BY <1>1, RemoveFirstProperties DEF IngestTypes
<1>6. \A c \in PartitionKeys : file'[c] # <<>> => Exists(c)'
  BY <1>4, <1>5 DEF IngestTypes, Exists
<1>7. HandlerInv'
  <2>1. ASSUME NEW b \in Batches, NEW n \in 1..Len(Payload[b]), Safe(Payload[b][n])
        PROVE  Safe(Payload[b][n])'
    <3> DEFINE e == Payload[b][n]
    <3>1. e \in Events /\ KeyOf[e] \in PartitionKeys  BY PayloadFacts
    <3> HIDE DEF e
    <3>2. e # Torn  BY <3>1, IngestAssumption
    <3>3. CASE InKafka(e) \/ e \in raced  BY <1>1, <3>3 DEF Safe, InKafka, e
    <3>4. CASE InFile(e) /\ KeyOf[e] # k
      <4>1. InFile(e)'  BY <1>4, <3>1, <3>4 DEF InFile
      <4> QED  BY <4>1 DEF Safe, e
    <3>5. CASE InFile(e) /\ KeyOf[e] = k
      <4>1. e \in ToSet(held[t]) => InKafka(e)  BY <1>1 DEF PassInv
      <4>2. e \notin ToSet(held[t]) => e \in raced'  BY <1>1, <3>2, <3>5 DEF InFile
      <4> QED  BY <1>1, <4>1, <4>2 DEF Safe, InKafka, e
    <3> QED  BY <2>1, <3>3, <3>4, <3>5 DEF Safe, e
  <2>2. UNCHANGED <<batch, done>>  BY <1>1
  <2> QED  BY <2>1, <2>2 DEF HandlerInv
<1>8. SpoolInv'
  <2>1. \A c \in PartitionKeys : \A e \in ToSet(file'[c]) : e # Torn => e \in ToSet(spooled[c])
    BY <1>4 DEF SpoolInv
  <2> QED  BY <1>1, <2>1 DEF SpoolInv
<1>9. OrderInv'
  <2>1. \A c \in PartitionKeys : \A p, q \in DOMAIN file'[c] :
          p < q /\ file'[c][p] # Torn /\ file'[c][q] # Torn => Before(spooled[c], file'[c][p], file'[c][q])
    <3>1. DOMAIN <<>> = {}  OBVIOUS
    <3> QED  BY <1>4, <3>1 DEF OrderInv
  <2>2. \A c \in PartitionKeys : \A d : KeyOf[d] = c /\ ~ InFile(d) => ~ InFile(d)'
    BY <1>4 DEF InFile
  <2>3. \A c \in PartitionKeys : \A d, e : Before(spooled[c], d, e) => KeyOf[d] = c
    BY BeforeOrders
  <2>4. ASSUME NEW c \in PartitionKeys, NEW d \in Events \ live, NEW e \in Events \ live,
               Before(spooled[c], d, e), InKafka(e)
        PROVE  IF InKafka(d)
               THEN \A m \in DOMAIN partition[c] : partition[c][m] = e =>
                      \E l \in 1..(m - 1) : partition[c][l] = d
               ELSE ~ InFile(d)'
    <3>1. IF InKafka(d)
          THEN \A m \in DOMAIN partition[c] : partition[c][m] = e =>
                 \E l \in 1..(m - 1) : partition[c][l] = d
          ELSE ~ InFile(d)
      BY <2>4 DEF OrderInv
    <3>2. ~ InFile(d) => ~ InFile(d)'  BY <2>2, <2>3, <2>4
    <3> QED  BY <3>1, <3>2
  <2>5. UNCHANGED <<partition, spooled, live>>  BY <1>1
  <2> QED  BY <2>1, <2>4, <2>5 DEF OrderInv, Before, InKafka
<1>10. CASE Over(t)
  <2>1. /\ PassInv' /\ running' \in BOOLEAN /\ pass' \in [Ticks -> {"off", "drain", "publish", "remove"}]
        /\ work' \in [Ticks -> Seq(PartitionKeys)] /\ held' \in [Ticks -> Seq(Events)]
    BY <1>1, <1>10, OverInv
  <2>2. IngestTypes'  BY <1>1, <1>4, <1>5, <1>6, <2>1 DEF IngestTypes
  <2> QED  BY <1>7, <1>8, <1>9, <2>1, <2>2
<1>11. CASE /\ Len(work[t]) # 1 /\ pass' = [pass EXCEPT ![t] = "drain"]
            /\ work' = [work EXCEPT ![t] = Tail(work[t])] /\ held' = [held EXCEPT ![t] = <<>>]
            /\ running' = running
  <2>1. Tail(work[t]) \in Seq(PartitionKeys) /\ Tail(work[t]) # <<>> /\ <<>> \in Seq(Events)
    <3>1. Tail(work[t]) \in Seq(PartitionKeys) /\ Len(Tail(work[t])) = Len(work[t]) - 1
      BY <1>2, <1>3, ToSetHeadTail
    <3>2. Len(work[t]) \in Nat  BY <1>3, LenProperties
    <3>3. Len(Tail(work[t])) # 0  BY <1>11, <3>1, <3>2
    <3> QED  BY <3>1, <3>3, EmptySeq
  <2>2. IngestTypes'
    <3>1. /\ pass' \in [Ticks -> {"off", "drain", "publish", "remove"}]
          /\ work' \in [Ticks -> Seq(PartitionKeys)] /\ held' \in [Ticks -> Seq(Events)]
          /\ running' \in BOOLEAN
      BY <1>11, <2>1 DEF IngestTypes
    <3> QED  BY <1>1, <1>4, <1>5, <1>6, <3>1 DEF IngestTypes
  <2>3. PassInv'
    <3>1. /\ \A u \in Ticks \ {t} : pass[u] = "off" /\ work[u] = <<>> /\ held[u] = <<>>
          /\ running
      BY <1>1 DEF PassInv, IngestTypes
    <3>2. /\ \A u \in Ticks \ {t} : pass'[u] = "off" /\ work'[u] = <<>> /\ held'[u] = <<>>
          /\ pass'[t] = "drain" /\ work'[t] # <<>> /\ held'[t] = <<>> /\ running'
      BY <1>11, <2>1, <3>1 DEF IngestTypes
    <3>3. Begins(<<>>, file'[Head(work'[t])])
      <4>1. Head(work'[t]) \in PartitionKeys
        BY <1>11, <2>1, HeadTailProperties DEF IngestTypes
      <4>2. Len(file'[Head(work'[t])]) \in Nat  BY <1>4, <4>1, LenProperties
      <4> QED  BY <4>2 DEF Begins
    <3> QED  BY <3>2, <3>3 DEF PassInv
  <2> QED  BY <1>7, <1>8, <1>9, <2>2, <2>3
<1> QED  BY <1>1, <1>10, <1>11


(* What an append of a line to the file of a key does.                     *)
LEMMA AppendFacts ==
  ASSUME IngestTypes, NEW k \in PartitionKeys, NEW line \in Events \cup {Torn},
         \/ file' = file
         \/ file' = [file EXCEPT ![k] = Append(file[k], line)],
         mtime' = Rewritten(k)
  PROVE  /\ file' \in [PartitionKeys -> Seq(Events \cup {Torn})] /\ mtime' \in Seq(PartitionKeys)
         /\ \A c \in PartitionKeys :
              /\ Len(file[c]) \in Nat /\ Len(file'[c]) \in Nat /\ Len(file[c]) <= Len(file'[c])
              /\ DOMAIN file[c] = 1..Len(file[c]) /\ DOMAIN file'[c] = 1..Len(file'[c])
              /\ \A i \in 1..Len(file[c]) : file'[c][i] = file[c][i]
              /\ \A i \in 1..Len(file'[c]) :
                   i \in 1..Len(file[c]) \/ (c = k /\ file'[c][i] = line /\ i = Len(file[c]) + 1)
              /\ ToSet(file[c]) \subseteq ToSet(file'[c])
              /\ \A e \in ToSet(file'[c]) : e \in ToSet(file[c]) \/ (c = k /\ e = line)
              /\ file'[c] # <<>> => Exists(c)'
<1>1. mtime' \in Seq(PartitionKeys) /\ k \in ToSet(mtime')
      /\ \A c \in PartitionKeys : c \in ToSet(mtime) => c \in ToSet(mtime')
  <2> DEFINE r == RemoveFirst(mtime, k)
  <2>1. r \in Seq(PartitionKeys) /\ ToSet(mtime) \ {k} \subseteq ToSet(r)
    BY RemoveFirstProperties DEF IngestTypes
  <2>2. mtime' = Append(r, k)  BY DEF Rewritten
  <2> HIDE DEF r
  <2>3. Append(r, k) \in Seq(PartitionKeys) /\ ToSet(Append(r, k)) = ToSet(r) \cup {k}
    BY <2>1, ToSetAppend
  <2> QED  BY <2>1, <2>2, <2>3
<1>2. \A c \in PartitionKeys : file[c] \in Seq(Events \cup {Torn})  BY DEF IngestTypes
<1>3. CASE file' = file
  <2>1. \A c \in PartitionKeys : Len(file[c]) \in Nat /\ DOMAIN file[c] = 1..Len(file[c])
    BY <1>2, LenProperties
  <2> QED  BY <1>1, <1>3, <2>1 DEF IngestTypes, Exists
<1>4. CASE file' = [file EXCEPT ![k] = Append(file[k], line)]
  <2> DEFINE a == Append(file[k], line)
  <2>1. /\ a \in Seq(Events \cup {Torn}) /\ Len(a) = Len(file[k]) + 1 /\ Len(file[k]) \in Nat
        /\ \A i \in 1..Len(file[k]) : a[i] = file[k][i]
        /\ a[Len(file[k]) + 1] = line
        /\ ToSet(a) = ToSet(file[k]) \cup {line}
    BY <1>2, AppendProperties, ToSetAppend, LenProperties
  <2> HIDE DEF a
  <2>2. /\ file'[k] = a /\ \A c \in PartitionKeys \ {k} : file'[c] = file[c]
        /\ file' \in [PartitionKeys -> Seq(Events \cup {Torn})]
    BY <1>4, <2>1 DEF IngestTypes, a
  <2>3. \A c \in PartitionKeys : Len(file[c]) \in Nat /\ DOMAIN file[c] = 1..Len(file[c])
                                 /\ Len(file'[c]) \in Nat /\ DOMAIN file'[c] = 1..Len(file'[c])
    BY <1>2, <2>2, LenProperties
  <2>4. \A c \in PartitionKeys : file'[c] # <<>> => Exists(c)'
    BY <1>1, <2>2 DEF IngestTypes, Exists
  <2>5. ASSUME NEW c \in PartitionKeys
        PROVE  /\ Len(file[c]) <= Len(file'[c])
               /\ \A i \in 1..Len(file[c]) : file'[c][i] = file[c][i]
               /\ \A i \in 1..Len(file'[c]) :
                    i \in 1..Len(file[c]) \/ (c = k /\ file'[c][i] = line /\ i = Len(file[c]) + 1)
               /\ ToSet(file[c]) \subseteq ToSet(file'[c])
               /\ \A e \in ToSet(file'[c]) : e \in ToSet(file[c]) \/ (c = k /\ e = line)
    <3>1. CASE c = k
      <4>1. file'[c] = a /\ 1..(Len(file[c]) + 1) = 1..Len(file[c]) \cup {Len(file[c]) + 1}
        BY <2>1, <2>2, <3>1
      <4> QED  BY <2>1, <2>3, <3>1, <4>1
    <3>2. CASE c # k  BY <2>2, <2>3, <3>2
    <3> QED  BY <3>1, <3>2
  <2> QED  BY <1>1, <2>2, <2>3, <2>4, <2>5
<1> QED  BY <1>3, <1>4

(* An append takes no line from under a pass and loses nothing.            *)
LEMMA AppendKeeps ==
  ASSUME IngestInv, UNCHANGED <<partition, running, pass, work, held>>, raced \subseteq raced',
         \A c \in PartitionKeys :
           /\ Len(file[c]) \in Nat /\ Len(file'[c]) \in Nat /\ Len(file[c]) <= Len(file'[c])
           /\ \A i \in 1..Len(file[c]) : file'[c][i] = file[c][i]
           /\ ToSet(file[c]) \subseteq ToSet(file'[c])
  PROVE  /\ PassInv'
         /\ \A b \in Batches : \A n \in 1..Len(Payload[b]) :
              Safe(Payload[b][n]) => Safe(Payload[b][n])'
<1> USE DEF IngestInv
<1>1. ASSUME NEW t \in Ticks, pass[t] # "off"
      PROVE  Begins(held[t], file'[Head(work[t])])
  <2> DEFINE k == Head(work[t])
             H == held[t]
  <2>1. k \in PartitionKeys /\ Len(H) \in Nat  BY <1>1, HeldFacts
  <2>2. Begins(H, file[k])  BY <1>1 DEF PassInv
  <2> HIDE DEF IngestInv, k, H
  <2>3. /\ Len(file[k]) \in Nat /\ Len(file'[k]) \in Nat /\ Len(file[k]) <= Len(file'[k])
        /\ \A i \in 1..Len(file[k]) : file'[k][i] = file[k][i]
    BY <2>1
  <2>4. \A i \in 1..Len(H) : i \in 1..Len(file[k])  BY <2>1, <2>2, <2>3 DEF Begins
  <2>5. Begins(H, file'[k])  BY <2>1, <2>2, <2>3, <2>4 DEF Begins
  <2> QED  BY <2>5 DEF k, H
<1>2. PassInv'  BY <1>1 DEF PassInv, InKafka
<1>3. \A b \in Batches : \A n \in 1..Len(Payload[b]) : KeyOf[Payload[b][n]] \in PartitionKeys
  BY PayloadFacts
<1> QED  BY <1>2, <1>3 DEF Safe, InKafka, InFile

LEMMA SpoolCutShortInv == ASSUME IngestInv, NEW b \in Batches, SpoolCutShort(b) PROVE IngestInv'
<1> USE DEF IngestInv
<1> DEFINE k == KeyOf[Payload[b][done[b] + 1]]
<1>1. /\ batch[b] = "spooling" /\ batch' = [batch EXCEPT ![b] = "refused"]
      /\ file' = file \/ (~ EndsTorn(k) /\ file' = [file EXCEPT ![k] = Append(file[k], Torn)])
      /\ mtime' = Rewritten(k)
      /\ UNCHANGED <<done, partition, running, pass, work, held, raced, spooled, live>>
  BY DEF SpoolCutShort, flusher, ingestHistory
<1>2. done[b] + 1 \in 1..Len(Payload[b])
  <2>1. done[b] \in Nat /\ done[b] < Len(Payload[b])  BY <1>1 DEF HandlerInv, IngestTypes
  <2>2. Len(Payload[b]) \in Nat  BY PayloadFacts
  <2> QED  BY ONLY <2>1, <2>2
<1>3. k \in PartitionKeys  BY <1>2, PayloadFacts
<1> HIDE DEF k
<1>4. /\ file' \in [PartitionKeys -> Seq(Events \cup {Torn})] /\ mtime' \in Seq(PartitionKeys)
      /\ \A c \in PartitionKeys :
           /\ Len(file[c]) \in Nat /\ Len(file'[c]) \in Nat /\ Len(file[c]) <= Len(file'[c])
           /\ DOMAIN file[c] = 1..Len(file[c]) /\ DOMAIN file'[c] = 1..Len(file'[c])
           /\ \A i \in 1..Len(file[c]) : file'[c][i] = file[c][i]
           /\ \A i \in 1..Len(file'[c]) :
                i \in 1..Len(file[c]) \/ (c = k /\ file'[c][i] = Torn /\ i = Len(file[c]) + 1)
           /\ ToSet(file[c]) \subseteq ToSet(file'[c])
           /\ \A e \in ToSet(file'[c]) : e \in ToSet(file[c]) \/ (c = k /\ e = Torn)
           /\ file'[c] # <<>> => Exists(c)'
  <2>1. Torn \in Events \cup {Torn}  OBVIOUS
  <2>2. file' = file \/ file' = [file EXCEPT ![k] = Append(file[k], Torn)]  BY <1>1
  <2> QED  BY <1>1, <1>3, <2>1, <2>2, AppendFacts
<1>5. IngestTypes'
  <2>1. batch' \in [Batches -> {"idle", "publishing", "spooling", "accepted", "refused"}]
    BY <1>1 DEF IngestTypes
  <2> QED  BY <1>1, <1>4, <2>1 DEF IngestTypes
<1>6. /\ PassInv'
      /\ \A c \in Batches : \A n \in 1..Len(Payload[c]) :
           Safe(Payload[c][n]) => Safe(Payload[c][n])'
  BY <1>1, <1>4, AppendKeeps
<1>7. HandlerInv'
  <2>1. \A c \in Batches : batch'[c] = batch[c] \/ batch'[c] = "refused"  BY <1>1 DEF IngestTypes
  <2>2. done' = done  BY <1>1
  <2> QED  BY <1>6, <2>1, <2>2 DEF HandlerInv
<1>8. SpoolInv'
  <2>1. \A c \in PartitionKeys : \A e \in ToSet(file'[c]) : e # Torn => e \in ToSet(spooled[c])
    BY <1>4 DEF SpoolInv
  <2>2. UNCHANGED <<done, partition, spooled, live>>  BY <1>1
  <2> QED  BY <2>1, <2>2 DEF SpoolInv
<1>9. OrderInv'
  <2>1. \A c \in PartitionKeys : \A p, q \in DOMAIN file'[c] :
          p < q /\ file'[c][p] # Torn /\ file'[c][q] # Torn => Before(spooled[c], file'[c][p], file'[c][q])
    <3> SUFFICES ASSUME NEW c \in PartitionKeys, NEW p \in DOMAIN file'[c], NEW q \in DOMAIN file'[c],
                        p < q, file'[c][p] # Torn, file'[c][q] # Torn
                 PROVE  Before(spooled[c], file'[c][p], file'[c][q])
      OBVIOUS
    <3>1. /\ p \in DOMAIN file[c] /\ file'[c][p] = file[c][p]
          /\ q \in DOMAIN file[c] /\ file'[c][q] = file[c][q]
      BY <1>4
    <3> QED  BY <3>1 DEF OrderInv
  <2>2. \A d \in Events : KeyOf[d] \in PartitionKeys /\ ~ InFile(d) => ~ InFile(d)'
    BY <1>4, IngestAssumption DEF InFile
  <2>3. \A d \in Events : ~ InFile(d) => ~ InFile(d)'  BY <2>2, IngestAssumption
  <2>4. UNCHANGED <<partition, spooled, live>>  BY <1>1
  <2> QED  BY <2>1, <2>3, <2>4 DEF OrderInv, Before, InKafka
<1> QED  BY <1>5, <1>6, <1>7, <1>8, <1>9


(* An event spooled anew comes behind all that was spooled before it.      *)
LEMMA BeforeAppend ==
  ASSUME NEW S, NEW s \in Seq(S), NEW e \in S
  PROVE  /\ \A d, x : Before(s, d, x) => Before(Append(s, e), d, x)
         /\ \A d, x : Before(Append(s, e), d, x) => Before(s, d, x) \/ (x = e /\ d \in ToSet(s))
         /\ \A d \in ToSet(s) : Before(Append(s, e), d, e)
<1> DEFINE u == Append(s, e)
<1>1. /\ Len(s) \in Nat /\ DOMAIN s = 1..Len(s) /\ DOMAIN u = 1..(Len(s) + 1)
      /\ \A i \in 1..Len(s) : u[i] = s[i]
      /\ u[Len(s) + 1] = e
  BY AppendProperties, LenProperties
<1>2. \A i : i \in 1..(Len(s) + 1) <=> i \in 1..Len(s) \/ i = Len(s) + 1
  BY <1>1
<1> HIDE DEF u
<1>3. ASSUME NEW d, NEW x, Before(s, d, x) PROVE Before(u, d, x)
  <2>1. PICK i \in 1..Len(s), j \in 1..Len(s) : i < j /\ s[i] = d /\ s[j] = x
    BY <1>1, <1>3 DEF Before
  <2> QED  BY <1>1, <1>2, <2>1 DEF Before
<1>4. ASSUME NEW d, NEW x, Before(u, d, x)
      PROVE  Before(s, d, x) \/ (x = e /\ d \in ToSet(s))
  <2>1. PICK i \in 1..(Len(s) + 1), j \in 1..(Len(s) + 1) : i < j /\ u[i] = d /\ u[j] = x
    BY <1>1, <1>4 DEF Before
  <2>2. i \in 1..Len(s)  BY <1>1, <2>1
  <2>3. CASE j \in 1..Len(s)  BY <1>1, <2>1, <2>2, <2>3 DEF Before
  <2>4. CASE j = Len(s) + 1  BY <1>1, <2>1, <2>2, <2>4 DEF ToSet
  <2> QED  BY <1>2, <2>3, <2>4
<1>5. ASSUME NEW d \in ToSet(s) PROVE Before(u, d, e)
  <2>1. PICK i \in 1..Len(s) : s[i] = d  BY <1>1, <1>5 DEF ToSet
  <2>2. i < Len(s) + 1 /\ Len(s) + 1 \in 1..(Len(s) + 1)  BY <1>1
  <2> QED  BY <1>1, <1>2, <2>1, <2>2 DEF Before
<1> QED  BY <1>3, <1>4, <1>5 DEF u

LEMMA SpoolKeepsInv == ASSUME IngestInv, NEW b \in Batches, Spool(b) PROVE IngestInv'
<1> USE DEF IngestInv
<1>0. PICK e, k : e = Payload[b][done[b] + 1] /\ k = KeyOf[e]
  OBVIOUS
<1>1. /\ batch[b] = "spooling" /\ mtime' = Rewritten(k)
      /\ file' = [file EXCEPT ![k] = AppendLine(k, e)]
      /\ raced' = IF EndsTorn(k) THEN raced \cup {e} ELSE raced
      /\ spooled' = [spooled EXCEPT ![k] = Append(spooled[k], e)]
      /\ done' = [done EXCEPT ![b] = done[b] + 1]
      /\ UNCHANGED <<partition, running, pass, work, held, live>>
  BY <1>0 DEF Spool, flusher
<1>2. /\ batch' = IF done'[b] < Len(Payload[b]) THEN batch
                  ELSE [batch EXCEPT ![b] = IF b \in Nats THEN "accepted" ELSE SpoolReply]
      /\ (IF b \in Nats THEN "accepted" ELSE SpoolReply) \in {"accepted", "refused"}
  BY DEF Spool, SpoolReply
<1>3. done[b] \in Nat /\ done[b] + 1 \in 1..Len(Payload[b]) /\ Len(Payload[b]) \in Nat
  BY <1>1, PayloadFacts DEF HandlerInv, IngestTypes
<1>4. e \in Events /\ k \in PartitionKeys /\ e # Torn
  BY <1>0, <1>3, PayloadFacts, IngestAssumption
<1>5. \A n \in 1..Len(Payload[b]) : Payload[b][n] = e => n = done[b] + 1
  BY <1>0, <1>3, PayloadFacts, IngestAssumption
<1>6. e \notin ToSet(spooled[k])
  <2> SUFFICES ASSUME e \in ToSet(spooled[k]) PROVE FALSE
    OBVIOUS
  <2>0. PICK c \in Batches : \E n \in 1..done[c] : Payload[c][n] = e  BY <1>4 DEF SpoolInv
  <2>1. PICK n \in 1..done[c] : Payload[c][n] = e  BY <2>0
  <2>2. n \in 1..Len(Payload[c]) /\ DOMAIN Payload[c] = 1..Len(Payload[c])
        /\ DOMAIN Payload[b] = 1..Len(Payload[b])
    BY PayloadFacts DEF HandlerInv, IngestTypes
  <2>3. c = b /\ n = done[b] + 1  BY <1>0, <1>3, <2>1, <2>2, IngestAssumption
  <2> QED  BY <1>3, <2>1, <2>3
<1>7. (IF EndsTorn(k) THEN file[k] ELSE Append(file[k], e)) = AppendLine(k, e)
  BY DEF AppendLine
<1>8. /\ file' = file \/ file' = [file EXCEPT ![k] = Append(file[k], e)]
      /\ ~ EndsTorn(k) => file' = [file EXCEPT ![k] = Append(file[k], e)]
  <2>1. file \in [PartitionKeys -> Seq(Events \cup {Torn})]  BY DEF IngestTypes
  <2> QED  BY <1>1, <1>4, <1>7, <2>1
<1>9. /\ file' \in [PartitionKeys -> Seq(Events \cup {Torn})] /\ mtime' \in Seq(PartitionKeys)
      /\ \A c \in PartitionKeys :
           /\ Len(file[c]) \in Nat /\ Len(file'[c]) \in Nat /\ Len(file[c]) <= Len(file'[c])
           /\ DOMAIN file[c] = 1..Len(file[c]) /\ DOMAIN file'[c] = 1..Len(file'[c])
           /\ \A i \in 1..Len(file[c]) : file'[c][i] = file[c][i]
           /\ \A i \in 1..Len(file'[c]) :
                i \in 1..Len(file[c]) \/ (c = k /\ file'[c][i] = e /\ i = Len(file[c]) + 1)
           /\ ToSet(file[c]) \subseteq ToSet(file'[c])
           /\ \A x \in ToSet(file'[c]) : x \in ToSet(file[c]) \/ (c = k /\ x = e)
           /\ file'[c] # <<>> => Exists(c)'
  <2>1. e \in Events \cup {Torn}  BY <1>4
  <2> QED  BY <1>1, <1>4, <1>8, <2>1, AppendFacts
<1>10. /\ spooled' \in [PartitionKeys -> Seq(Events)] /\ spooled[k] \in Seq(Events)
       /\ spooled'[k] = Append(spooled[k], e)
       /\ ToSet(spooled'[k]) = ToSet(spooled[k]) \cup {e} /\ IsInjective(spooled'[k])
       /\ \A c \in PartitionKeys \ {k} : spooled'[c] = spooled[c]
  <2>1. spooled[k] \in Seq(Events) /\ IsInjective(spooled[k])
    BY <1>4 DEF IngestTypes, SpoolInv
  <2>2. /\ Append(spooled[k], e) \in Seq(Events)
        /\ ToSet(Append(spooled[k], e)) = ToSet(spooled[k]) \cup {e}
        /\ IsInjective(Append(spooled[k], e))
    BY <1>4, <1>6, <2>1, ToSetAppend
  <2>3. spooled'[k] = Append(spooled[k], e)
        /\ \A c \in PartitionKeys \ {k} : spooled'[c] = spooled[c]
    BY <1>1, <1>4 DEF IngestTypes
  <2>4. spooled' \in [PartitionKeys -> Seq(Events)]  BY <1>1, <2>2 DEF IngestTypes
  <2> QED  BY <2>1, <2>2, <2>3, <2>4
<1>11. IngestTypes'
  <2>1. batch' \in [Batches -> {"idle", "publishing", "spooling", "accepted", "refused"}]
    BY <1>2 DEF IngestTypes
  <2>2. done' \in [Batches -> Nat]  BY <1>1, <1>3 DEF IngestTypes
  <2> QED  BY <1>1, <1>9, <1>10, <2>1, <2>2 DEF IngestTypes
<1>12. /\ PassInv'
       /\ \A c \in Batches : \A n \in 1..Len(Payload[c]) :
            Safe(Payload[c][n]) => Safe(Payload[c][n])'
  <2>1. raced \subseteq raced'  BY <1>1
  <2> QED  BY <1>1, <1>9, <2>1, AppendKeeps
<1>13. Safe(e)'
  <2>1. CASE EndsTorn(k)  BY <1>1, <2>1 DEF Safe
  <2>2. CASE ~ EndsTorn(k)
    <3>1. file'[k] = Append(file[k], e) /\ file[k] \in Seq(Events \cup {Torn})
      BY <1>4, <1>8, <2>2 DEF IngestTypes
    <3>2. e \in ToSet(file'[k])  BY <1>4, <3>1, ToSetAppend
    <3> QED  BY <1>0, <3>2 DEF Safe, InFile
  <2> QED  BY <2>1, <2>2
<1>14. HandlerInv'
  <2> SUFFICES ASSUME NEW c \in Batches
               PROVE  /\ done'[c] <= Len(Payload[c])
                      /\ batch'[c] \in {"idle", "publishing"} => done'[c] = 0
                      /\ batch'[c] = "spooling" => done'[c] < Len(Payload[c])
                      /\ \A n \in 1..Len(Payload[c]) :
                           n <= done'[c] \/ batch'[c] = "accepted" => Safe(Payload[c][n])'
    BY DEF HandlerInv
  <2>1. CASE c # b
    <3>1. done'[c] = done[c] /\ batch'[c] = batch[c]  BY <1>1, <1>2, <2>1 DEF IngestTypes
    <3> QED  BY <1>12, <3>1 DEF HandlerInv
  <2>2. CASE c = b
    <3>1. done'[b] = done[b] + 1  BY <1>1 DEF IngestTypes
    <3>2. IF done[b] + 1 < Len(Payload[b]) THEN batch'[b] = "spooling"
          ELSE batch'[b] \in {"accepted", "refused"} /\ done[b] + 1 = Len(Payload[b])
      BY <1>1, <1>2, <1>3, <3>1 DEF IngestTypes
    <3>3. \A n \in 1..Len(Payload[b]) : n <= done[b] + 1 => Safe(Payload[b][n])'
      <4>1. \A n \in 1..Len(Payload[b]) : n <= done[b] => Safe(Payload[b][n])'
        BY <1>12 DEF HandlerInv
      <4>2. \A n \in 1..Len(Payload[b]) : n <= done[b] + 1 => n <= done[b] \/ n = done[b] + 1
        BY <1>3
      <4> QED  BY <1>0, <1>13, <4>1, <4>2
    <3>4. \A n \in 1..Len(Payload[b]) : n <= Len(Payload[b])  BY <1>3
    <3> QED  BY <1>3, <2>2, <3>1, <3>2, <3>3, <3>4
  <2> QED  BY <2>1, <2>2
<1>15. SpoolInv'
  <2>1. \A c \in PartitionKeys : IsInjective(spooled'[c])  BY <1>10 DEF SpoolInv
  <2>2. ASSUME NEW c \in PartitionKeys, NEW x \in ToSet(spooled'[c])
        PROVE  KeyOf[x] = c /\ \E a \in Batches : \E n \in 1..done'[a] : Payload[a][n] = x
    <3>1. CASE x \in ToSet(spooled[c])
      <4>1. PICK a \in Batches : \E n \in 1..done[a] : Payload[a][n] = x
        BY <3>1 DEF SpoolInv
      <4>2. PICK n \in 1..done[a] : Payload[a][n] = x  BY <4>1
      <4>3. n \in 1..done'[a]
        <5>1. done[a] \in Nat /\ (done'[a] = done[a] \/ done'[a] = done[a] + 1)
          BY <1>1 DEF IngestTypes
        <5> QED  BY <5>1
      <4> QED  BY <3>1, <4>2, <4>3 DEF SpoolInv
    <3>2. CASE x \notin ToSet(spooled[c])
      <4>1. c = k /\ x = e  BY <1>10, <2>2, <3>2
      <4>2. done[b] + 1 \in 1..done'[b]  BY <1>1, <1>3 DEF IngestTypes
      <4> QED  BY <1>0, <4>1, <4>2
    <3> QED  BY <3>1, <3>2
  <2>3. \A c \in PartitionKeys : ToSet(spooled[c]) \subseteq ToSet(spooled'[c])  BY <1>10
  <2>4. \A c \in PartitionKeys : \A x \in ToSet(file'[c]) : x # Torn => x \in ToSet(spooled'[c])
    <3>1. \A c \in PartitionKeys : \A x \in ToSet(file[c]) : x # Torn => x \in ToSet(spooled[c])
      BY DEF SpoolInv
    <3> QED  BY <1>9, <1>10, <2>3, <3>1
  <2>5. \A c \in PartitionKeys : \A x \in ToSet(partition[c]) : x \in live \/ x \in ToSet(spooled'[c])
    <3>1. \A c \in PartitionKeys : \A x \in ToSet(partition[c]) : x \in live \/ x \in ToSet(spooled[c])
      BY DEF SpoolInv
    <3> QED  BY <2>3, <3>1
  <2>6. UNCHANGED <<partition, live>>  BY <1>1
  <2> QED  BY <2>1, <2>2, <2>4, <2>5, <2>6 DEF SpoolInv
<1>16. OrderInv'
  <2>1. /\ \A d, x : Before(spooled[k], d, x) => Before(spooled'[k], d, x)
        /\ \A d, x : Before(spooled'[k], d, x) =>
                       Before(spooled[k], d, x) \/ (x = e /\ d \in ToSet(spooled[k]))
        /\ \A d \in ToSet(spooled[k]) : Before(spooled'[k], d, e)
    BY <1>4, <1>10, BeforeAppend
  <2>2. \A c \in PartitionKeys \ {k} : \A d, x : Before(spooled'[c], d, x) <=> Before(spooled[c], d, x)
    BY <1>10 DEF Before
  <2>3. ASSUME NEW c \in PartitionKeys, NEW p \in DOMAIN file'[c], NEW q \in DOMAIN file'[c],
               p < q, file'[c][p] # Torn, file'[c][q] # Torn
        PROVE  Before(spooled'[c], file'[c][p], file'[c][q])
    <3>0. /\ p \in 1..Len(file'[c]) /\ q \in 1..Len(file'[c]) /\ Len(file[c]) \in Nat
          /\ Len(file'[c]) \in Nat /\ DOMAIN file[c] = 1..Len(file[c])
      BY <1>9
    <3>1. p \in 1..Len(file[c]) /\ file'[c][p] = file[c][p]
      <4>1. p \in 1..Len(file[c]) \/ p = Len(file[c]) + 1  BY <1>9, <3>0
      <4>2. q \in 1..Len(file[c]) \/ q = Len(file[c]) + 1  BY <1>9, <3>0
      <4>3. p \in 1..Len(file[c])  BY <2>3, <3>0, <4>1, <4>2
      <4> QED  BY <1>9, <4>3
    <3>2. CASE q \in 1..Len(file[c])
      <4>1. file'[c][q] = file[c][q]  BY <1>9, <3>2
      <4>2. Before(spooled[c], file[c][p], file[c][q])
        BY <2>3, <3>0, <3>1, <3>2, <4>1 DEF OrderInv
      <4> QED  BY <2>1, <2>2, <3>1, <4>1, <4>2
    <3>3. CASE q \notin 1..Len(file[c])
      <4>1. c = k /\ file'[c][q] = e  BY <1>9, <3>0, <3>3
      <4>2. file[c][p] \in ToSet(file[c])  BY <3>0, <3>1 DEF ToSet
      <4>3. file[c][p] \in ToSet(spooled[c])  BY <2>3, <3>1, <4>2 DEF SpoolInv
      <4> QED  BY <2>1, <3>1, <4>1, <4>3
    <3> QED  BY <3>2, <3>3
  <2>4. ASSUME NEW c \in PartitionKeys, NEW d \in Events \ live, NEW x \in Events \ live,
               Before(spooled'[c], d, x), InKafka(x)
        PROVE  IF InKafka(d)
               THEN \A m \in DOMAIN partition[c] : partition[c][m] = x =>
                      \E l \in 1..(m - 1) : partition[c][l] = d
               ELSE ~ InFile(d)'
    <3>1. Before(spooled[c], d, x)
      <4>1. ~ InKafka(e) \/ e \in live
        <5>1. InKafka(e) => e \in ToSet(partition[k])  BY <1>0 DEF InKafka
        <5> QED  BY <1>4, <1>6, <5>1 DEF SpoolInv
      <4>2. x # e  BY <2>4, <4>1
      <4> QED  BY <2>1, <2>2, <2>4, <4>2
    <3>2. d # e /\ KeyOf[d] = c
      <4>1. d \in ToSet(spooled[c]) /\ KeyOf[d] = c  BY <3>1, BeforeOrders
      <4> QED  BY <1>0, <1>6, <4>1
    <3>3. ~ InFile(d) => ~ InFile(d)'  BY <1>9, <3>2 DEF InFile
    <3>4. IF InKafka(d)
          THEN \A m \in DOMAIN partition[c] : partition[c][m] = x =>
                 \E l \in 1..(m - 1) : partition[c][l] = d
          ELSE ~ InFile(d)
      BY <2>4, <3>1 DEF OrderInv
    <3> QED  BY <3>3, <3>4
  <2>5. UNCHANGED <<partition, live>>  BY <1>1
  <2> QED  BY <2>3, <2>4, <2>5 DEF OrderInv, InKafka
<1> QED  BY <1>11, <1>12, <1>14, <1>15, <1>16

LEMMA IngestStepInv == IngestInv /\ [IngestNext]_ingestVars => IngestInv'
<1> SUFFICES ASSUME IngestInv, [IngestNext]_ingestVars PROVE IngestInv'
  OBVIOUS
<1>1. CASE UNCHANGED ingestVars
  <2>1. UNCHANGED <<batch, done, file, mtime, partition, running, pass, work, held, raced, spooled, live>>
    BY <1>1 DEF ingestVars
  <2>2. SpoolInv' /\ OrderInv'  BY <2>1, LogsSame DEF IngestInv
  <2>3. IngestTypes'  BY <2>1 DEF IngestInv, IngestTypes, Exists
  <2>4. PassInv'  BY <2>1 DEF IngestInv, PassInv, InKafka, Begins
  <2>5. HandlerInv'  BY <2>1 DEF IngestInv, HandlerInv, Safe, InKafka, InFile
  <2> QED  BY <2>2, <2>3, <2>4, <2>5 DEF IngestInv
<1>2. CASE \E b \in Batches :
             Accept(b) \/ PublishLands(b) \/ PublishFails(b) \/ Spool(b) \/ SpoolCutShort(b)
  BY <1>2, HandlerSteps, PublishLandsInv, SpoolKeepsInv, SpoolCutShortInv
<1>3. CASE \E t \in Ticks :
             StartPass(t) \/ DrainFile(t) \/ FlushLands(t) \/ FlushFails(t) \/ RemoveFile(t)
             \/ DrainThrows(t)
  <2>1. \A t \in Ticks : DrainThrows(t) => Dies  BY DEF DrainThrows
  <2> QED  BY <1>3, <2>1, StartPassInv, DrainFileInv, FlushInv, RemoveFileInv, ProcessSteps
<1>4. CASE Stopped \/ IngestBoot  BY <1>4, ProcessSteps DEF Stopped
<1> QED  BY <1>1, <1>2, <1>3, <1>4 DEF IngestNext

LEMMA IngestInvariant == IngestSpec => []IngestInv
BY IngestInitInv, IngestStepInv, PTL DEF IngestSpec

UnendedFiles == unended \subseteq PartitionKeys

LEMMA UnendedStep == IngestInv /\ UnendedFiles /\ [IngestNext]_ingestVars => UnendedFiles'
<1> SUFFICES ASSUME IngestInv, unended \subseteq PartitionKeys, [IngestNext]_ingestVars
             PROVE  unended' \subseteq PartitionKeys
  BY DEF UnendedFiles
<1>1. ASSUME NEW b \in Batches, SpoolCutShort(b) PROVE unended' \subseteq PartitionKeys
  <2>1. KeyOf[Payload[b][done[b] + 1]] \in PartitionKeys
    <3>1. done[b] \in Nat /\ done[b] < Len(Payload[b])
      BY <1>1 DEF SpoolCutShort, IngestInv, HandlerInv, IngestTypes
    <3>2. Len(Payload[b]) \in Nat  BY PayloadFacts
    <3>3. done[b] + 1 \in 1..Len(Payload[b])  BY ONLY <3>1, <3>2
    <3> QED  BY <3>3, PayloadFacts
  <2> QED  BY <1>1, <2>1 DEF SpoolCutShort
<1>2. CASE UNCHANGED ingestVars  BY <1>2 DEF ingestVars
<1>3. CASE IngestNext
  <2>1. unended' = unended \/ unended' \subseteq unended \/ \E b \in Batches : SpoolCutShort(b)
    BY <1>3 DEF IngestNext, Accept, PublishLands, PublishFails, Spool, StartPass, DrainFile,
                FlushLands, FlushFails, RemoveFile, DrainThrows, Stopped, Dies, IngestBoot, disk
  <2> QED  BY <1>1, <2>1
<1> QED  BY <1>2, <1>3

LEMMA IngestInvTypes == IngestInv /\ UnendedFiles => IngestTypeOK
<1> SUFFICES ASSUME IngestInv, unended \subseteq PartitionKeys PROVE IngestTypeOK
  BY DEF UnendedFiles
<1> USE DEF IngestInv
<1>1. \A k \in PartitionKeys : file[k] \in Seq(Events \cup {Torn}) /\ partition[k] \in Seq(Events)
  BY DEF IngestTypes
<1>2. \A k \in PartitionKeys : ToSet(file[k]) \subseteq Events \cup {Torn}
                               /\ ToSet(partition[k]) \subseteq Events
  BY <1>1, ToSetMembers
<1>3. Cardinality({t \in Ticks : pass[t] # "off"}) = (IF running THEN 1 ELSE 0)
  <2>1. CASE running
    <3>1. PICK t \in Ticks : pass[t] # "off"  BY <2>1 DEF PassInv
    <3>2. {u \in Ticks : pass[u] # "off"} = {t}  BY <3>1 DEF PassInv
    <3> QED  BY <2>1, <3>2, FS_Singleton
  <2>2. CASE ~ running
    <3>1. {u \in Ticks : pass[u] # "off"} = {}  BY <2>2 DEF PassInv
    <3> QED  BY <2>2, <3>1, FS_EmptySet
  <2> QED  BY <2>1, <2>2
<1>4. /\ \A b \in Batches : batch[b] \in {"idle", "publishing", "spooling", "accepted", "refused"}
      /\ \A k \in PartitionKeys : /\ file[k] # <<>> => Exists(k)
                                  /\ \A e \in ToSet(partition[k]) : KeyOf[e] = k
      /\ \A t \in Ticks : pass[t] = "off" <=> work[t] = <<>>
  BY DEF IngestTypes, PassInv
<1> QED  BY <1>2, <1>3, <1>4 DEF IngestTypeOK

(* What an accepted batch carried is in Kafka or in the spool, or its loss *)
(* has one of the two causes named (append of the spool, drain and unlink  *)
(* of the flusher): for any number of batches, keys, passes, crashes and   *)
(* short writes.                                                           *)
THEOREM IngestLossExplained == IngestSpec => []LossExplained
<1>1. IngestInv => LossExplained
  <2> SUFFICES ASSUME IngestInv, NEW b \in Batches, batch[b] = "accepted", NEW e \in ToSet(Payload[b])
               PROVE  InKafka(e) \/ InFile(e) \/ e \in raced
    BY DEF LossExplained
  <2>1. PICK n \in 1..Len(Payload[b]) : Payload[b][n] = e  BY PayloadFacts, ToSetMembers
  <2>2. Safe(Payload[b][n])  BY DEF IngestInv, HandlerInv
  <2> QED  BY <2>1, <2>2 DEF Safe
<1> QED  BY IngestInvariant, <1>1, PTL

(* Events that only the spool brought to Kafka land in the order in which  *)
(* they were spooled (FileSpool.append, drain, the flusher's publishMany), *)
(* through failed flushes, crashes, torn lines and repeats, for any number *)
(* of them.                                                                *)
THEOREM ReplaysInOrder == IngestSpec => []ReplayInSpoolOrder
<1>1. IngestInv => ReplayInSpoolOrder
  <2> SUFFICES ASSUME IngestInv, NEW k \in PartitionKeys,
                      NEW i \in DOMAIN spooled[k], NEW j \in DOMAIN spooled[k], i < j,
                      {spooled[k][i], spooled[k][j]} \cap live = {},
                      InKafka(spooled[k][i]), InKafka(spooled[k][j])
               PROVE  First(spooled[k][i]) < First(spooled[k][j])
    BY DEF ReplayInSpoolOrder
  <2> DEFINE d == spooled[k][i]
             e == spooled[k][j]
             s == partition[k]
  <2>1. Before(spooled[k], d, e)  BY DEF Before
  <2>2. KeyOf[d] = k /\ KeyOf[e] = k  BY <2>1, BeforeOrders
  <2>3. d \in Events \ live /\ e \in Events \ live
    <3>1. spooled[k] \in Seq(Events)  BY DEF IngestInv, IngestTypes
    <3> QED  BY <3>1
  <2>4. InKafka(d) /\ InKafka(e)  OBVIOUS
  <2> HIDE DEF d, e, s
  <2>5. \A m \in DOMAIN s : s[m] = e => \E l \in 1..(m - 1) : s[l] = d
    BY <2>1, <2>3, <2>4 DEF IngestInv, OrderInv, s
  <2>6. DOMAIN s = 1..Len(s) /\ Len(s) \in Nat
    BY LenProperties DEF IngestInv, IngestTypes, s
  <2>7. ASSUME NEW x, KeyOf[x] = k, InKafka(x)
        PROVE  /\ First(x) \in 1..Len(s) /\ s[First(x)] = x
               /\ \A l \in 1..(First(x) - 1) : s[l] # x
    <3> DEFINE I == {m \in 1..Len(s) : s[m] = x}
    <3>1. I # {} /\ I \in SUBSET Nat  BY <2>6, <2>7 DEF InKafka, ToSet, s
    <3>2. PICK m \in I : \A n \in I : m <= n  BY <3>1, LeastElement
    <3>3. m \in 1..Len(s) /\ s[m] = x /\ \A l \in 1..(m - 1) : s[l] # x
      BY <2>6, <3>2
    <3>4. First(x) = CHOOSE n \in DOMAIN s : s[n] = x /\ \A l \in 1..(n - 1) : s[l] # x
      BY <2>7 DEF First, s
    <3> HIDE DEF I
    <3> QED  BY <2>6, <3>3, <3>4
  <2>8. /\ First(e) \in 1..Len(s) /\ s[First(e)] = e /\ First(d) \in 1..Len(s)
        /\ \A l \in 1..(First(d) - 1) : s[l] # d
    BY <2>2, <2>4, <2>7
  <2>9. PICK l \in 1..(First(e) - 1) : s[l] = d  BY <2>5, <2>6, <2>8
  <2>10. First(d) <= l
    <3>1. l \notin 1..(First(d) - 1)  BY <2>8, <2>9
    <3> QED  BY <2>6, <2>8, <2>9, <3>1
  <2>11. First(d) < First(e)  BY <2>6, <2>8, <2>9, <2>10
  <2> QED  BY <2>11 DEF d, e
<1> QED  BY IngestInvariant, <1>1, PTL

-----------------------------------------------------------------------------
(* The loader *)

Handled(m) == rows[m] > 0 \/ m \in dead \cup undead \/ m \in overtaken

LoaderTypes ==
  /\ produced \in Nat /\ position \in 0..produced /\ groupOffset \in 0..produced
  /\ 1..produced \subseteq Messages
  /\ pending \in Seq(1..position) /\ rows \in [Messages -> 0..2]

(* A message that was fetched and is not handled yet is pending, or the    *)
(* bad one in hand; what is about to be committed was inserted.            *)
FetchedInv ==
  /\ loader # "down" =>
       /\ groupOffset <= position
       /\ \A m \in 1..position :
            Handled(m) \/ m \in ToSet(pending) \/ (loader = "dlq" /\ m = position)
  /\ loader = "commit" => /\ pending # <<>>
                          /\ \A m \in ToSet(pending) : rows[m] > 0
  /\ loader = "insert" => pending # <<>>
  /\ loader = "down" => pending = <<>>

LoaderInv == LoaderTypes /\ FetchedInv /\ SkippedIsHandled

LEMMA PendingFacts ==
  ASSUME NEW n \in Nat, NEW s \in Seq(1..n)
  PROVE  /\ s \in Seq(1..(n + 1)) /\ ToSet(s) \subseteq 1..n
         /\ s # <<>> => Last(s) \in ToSet(s)
         /\ Append(s, n + 1) \in Seq(1..(n + 1)) /\ Append(s, n + 1) # <<>>
         /\ \A m : m \in ToSet(Append(s, n + 1)) <=> m \in ToSet(s) \/ m = n + 1
<1>1. s \in Seq(1..(n + 1))  OBVIOUS
<1>2. DOMAIN s = 1..Len(s) /\ Len(s) \in Nat /\ \A i \in 1..Len(s) : s[i] \in 1..n
  BY LenProperties, ElementOfSeq
<1>3. s # <<>> => Last(s) \in ToSet(s)
  <2> SUFFICES ASSUME s # <<>> PROVE Len(s) \in DOMAIN s
    BY DEF Last, ToSet
  <2> QED  BY <1>2, EmptySeq
<1>4. /\ Append(s, n + 1) \in Seq(1..(n + 1)) /\ Append(s, n + 1) # <<>>
      /\ Len(Append(s, n + 1)) = Len(s) + 1
      /\ \A i \in 1..Len(s) : Append(s, n + 1)[i] = s[i]
      /\ Append(s, n + 1)[Len(s) + 1] = n + 1
  BY <1>1, AppendProperties
<1>5. DOMAIN Append(s, n + 1) = 1..(Len(s) + 1)  BY <1>2, <1>4, LenProperties
<1>6. \A m : m \in ToSet(Append(s, n + 1)) <=> m \in ToSet(s) \/ m = n + 1
  BY <1>2, <1>4, <1>5 DEF ToSet
<1> QED  BY <1>1, <1>2, <1>3, <1>4, <1>6 DEF ToSet

LEMMA LoaderInitInv == LoaderInit => LoaderInv
<1> SUFFICES ASSUME LoaderInit PROVE LoaderInv
  OBVIOUS
<1> QED  BY DEF LoaderInit, LoaderInv, LoaderTypes, FetchedInv, SkippedIsHandled

(* What is handled stays so, and an insert handles all that is pending.    *)
LEMMA InsertFacts ==
  ASSUME LoaderInv
  PROVE  /\ Inserted \in [Messages -> 0..2]
         /\ \A m \in Messages : rows[m] > 0 => Inserted[m] > 0
         /\ \A m \in ToSet(pending) : Inserted[m] > 0
         /\ ToSet(pending) \subseteq 1..position /\ 1..position \subseteq Messages
<1>1. ToSet(pending) \subseteq 1..position  BY PendingFacts DEF LoaderInv, LoaderTypes
<1>2. 1..position \subseteq Messages  BY DEF LoaderInv, LoaderTypes
<1> QED  BY <1>1, <1>2 DEF LoaderInv, LoaderTypes, Inserted

LEMMA FetchInv == LoaderInv /\ FetchMessage => LoaderInv'
<1> SUFFICES ASSUME LoaderInv, FetchMessage PROVE LoaderInv'
  OBVIOUS
<1> USE DEF LoaderInv
<1>1. /\ loader = "select" /\ position < produced /\ position' = position + 1
      /\ UNCHANGED <<produced, groupOffset, rows, dead, undead, overtaken>>
      /\ position \in Nat /\ produced \in Nat /\ pending \in Seq(1..position)
      /\ groupOffset \in Nat
  BY DEF FetchMessage, LoaderTypes
<1>2. position' \in 0..produced' /\ 1..position' = (1..position) \cup {position'}
  BY <1>1
<1>3. \A m : Handled(m)' <=> Handled(m)  BY <1>1 DEF Handled
<1>4. SkippedIsHandled'  BY <1>1 DEF SkippedIsHandled
<1>5. CASE loader' = "dlq" /\ pending' = pending
  <2>1. LoaderTypes'  BY <1>1, <1>2, <1>5, PendingFacts DEF LoaderTypes
  <2>2. FetchedInv'  BY <1>1, <1>2, <1>3, <1>5 DEF FetchedInv
  <2> QED  BY <1>4, <2>1, <2>2
<1>6. CASE loader' \in {"insert", "select"} /\ pending' = Append(pending, position + 1)
  <2>1. /\ pending' \in Seq(1..position') /\ pending' # <<>>
        /\ \A m : m \in ToSet(pending') <=> m \in ToSet(pending) \/ m = position'
    BY <1>1, <1>6, PendingFacts
  <2>2. LoaderTypes'  BY <1>1, <1>2, <2>1 DEF LoaderTypes
  <2>3. FetchedInv'  BY <1>1, <1>2, <1>3, <1>6, <2>1 DEF FetchedInv
  <2> QED  BY <1>4, <2>2, <2>3
<1> QED  BY <1>1, <1>5, <1>6 DEF FetchMessage

LEMMA BatchInv == LoaderInv /\ (FlushBatch \/ Insert \/ InsertFails) => LoaderInv'
<1> SUFFICES ASSUME LoaderInv, FlushBatch \/ Insert \/ InsertFails PROVE LoaderInv'
  OBVIOUS
<1> USE DEF LoaderInv
<1>1. /\ UNCHANGED <<produced, groupOffset, position, pending, dead, undead, overtaken>>
      /\ rows' = rows \/ rows' = Inserted
      /\ loader' \in {"insert", "select", "commit"} /\ loader \in {"insert", "select"}
      /\ loader' = "commit" => rows' = Inserted /\ loader = "insert"
      /\ loader' = "insert" => pending # <<>>
  BY DEF FlushBatch, Insert, InsertFails, Retained
<1>2. LoaderTypes'  BY <1>1, InsertFacts DEF LoaderTypes
<1>3. \A m \in 1..position : Handled(m) => Handled(m)'
  BY <1>1, InsertFacts DEF Handled
<1>4. FetchedInv'  BY <1>1, <1>3, InsertFacts DEF FetchedInv
<1>5. SkippedIsHandled'
  <2>1. groupOffset <= position  BY <1>1 DEF FetchedInv
  <2>2. \A m \in 1..groupOffset : m \in 1..position  BY <2>1 DEF LoaderTypes
  <2> QED  BY <1>1, <1>3, <2>2 DEF SkippedIsHandled, Handled
<1> QED  BY <1>2, <1>4, <1>5

(* The batch was inserted, so what its commit skips is handled: rows by    *)
(* the insert, the others before it.                                       *)
LEMMA CommitInv == LoaderInv /\ Commit => LoaderInv'
<1> SUFFICES ASSUME LoaderInv, Commit PROVE LoaderInv'
  OBVIOUS
<1> USE DEF LoaderInv
<1>1. /\ loader = "commit" /\ loader' = "select" /\ pending # <<>>
      /\ UNCHANGED <<produced, position, rows, dead, undead, overtaken>>
      /\ pending \in Seq(1..position) /\ position \in Nat
      /\ \A m \in 1..position : Handled(m)
  <2>1. pending # <<>> /\ \A m \in ToSet(pending) : rows[m] > 0
    BY DEF Commit, FetchedInv
  <2>2. \A m \in 1..position : Handled(m) \/ m \in ToSet(pending)
    BY DEF Commit, FetchedInv
  <2> QED  BY <2>1, <2>2 DEF Commit, LoaderTypes, Handled
<1>2. Last(pending) \in 1..position  BY <1>1, PendingFacts
<1>3. groupOffset' \in 0..position
  BY <1>1, <1>2 DEF Commit, FetchedInv, LoaderTypes
<1>4. \A m : Handled(m)' <=> Handled(m)  BY <1>1 DEF Handled
<1>5. LoaderTypes'
  <2>1. pending' \in Seq(1..position)
    <3>1. <<>> \in Seq(1..position)  OBVIOUS
    <3>2. pending' = pending \/ pending' = <<>>  BY DEF Commit
    <3> QED  BY <1>1, <3>1, <3>2
  <2>2. groupOffset' \in 0..produced  BY <1>3 DEF LoaderTypes
  <2> QED  BY <1>1, <2>1, <2>2 DEF LoaderTypes
<1>6. FetchedInv'  BY <1>1, <1>3, <1>4 DEF FetchedInv
<1>7. SkippedIsHandled'
  <2>1. \A m \in 1..groupOffset' : m \in 1..position  BY <1>1, <1>3
  <2> QED  BY <1>1, <2>1 DEF SkippedIsHandled, Handled
<1> QED  BY <1>5, <1>6, <1>7

LEMMA BadMessageInv == LoaderInv /\ (SendToDLQ \/ CommitSkipped) => LoaderInv'
<1> USE DEF LoaderInv
<1>1. ASSUME LoaderInv, SendToDLQ PROVE LoaderInv'
  <2>1. /\ loader = "dlq" /\ loader' = "skip" /\ position \in dead' \cup undead'
        /\ dead \subseteq dead' /\ undead \subseteq undead'
        /\ UNCHANGED <<produced, groupOffset, position, pending, rows, overtaken>>
    BY <1>1 DEF SendToDLQ
  <2>2. \A m : Handled(m) => Handled(m)'  BY <2>1 DEF Handled
  <2>3. Handled(position)'  BY <2>1 DEF Handled
  <2>4. LoaderTypes'  BY <1>1, <2>1 DEF LoaderTypes
  <2>5. FetchedInv'  BY <1>1, <2>1, <2>2, <2>3 DEF FetchedInv
  <2>6. SkippedIsHandled'  BY <1>1, <2>1 DEF SkippedIsHandled
  <2> QED  BY <2>4, <2>5, <2>6
<1>2. ASSUME LoaderInv, CommitSkipped PROVE LoaderInv'
  <2>1. /\ loader = "skip" /\ loader' = "select"
        /\ UNCHANGED <<produced, position, pending, rows, dead, undead>>
        /\ \/ groupOffset' = position /\ overtaken' = overtaken \cup ToSet(pending)
           \/ UNCHANGED <<groupOffset, overtaken>>
    BY <1>2 DEF CommitSkipped
  <2>2. \A m : Handled(m) => Handled(m)'  BY <2>1 DEF Handled
  <2>3. groupOffset <= position
        /\ \A m \in 1..position : Handled(m) \/ m \in ToSet(pending)
    BY <1>2, <2>1 DEF FetchedInv
  <2>4. LoaderTypes' /\ groupOffset' <= position'
    BY <1>2, <2>1, <2>3 DEF LoaderTypes
  <2>5. FetchedInv'  BY <2>1, <2>2, <2>3, <2>4 DEF FetchedInv
  <2>6. SkippedIsHandled'
    <3>1. CASE groupOffset' = position /\ overtaken' = overtaken \cup ToSet(pending)
      BY <3>1, <2>1, <2>3 DEF SkippedIsHandled, Handled
    <3>2. CASE UNCHANGED <<groupOffset, overtaken>>
      BY <1>2, <3>2, <2>1 DEF SkippedIsHandled
    <3> QED  BY <2>1, <3>1, <3>2
  <2> QED  BY <2>4, <2>5, <2>6
<1> QED  BY <1>1, <1>2

(* A restart begins at the offset of the group: all before it is handled.  *)
LEMMA RestartInv == LoaderInv /\ (Produce \/ LoaderDown \/ LoaderUp) => LoaderInv'
<1> USE DEF LoaderInv
<1>1. ASSUME LoaderInv, Produce PROVE LoaderInv'
  <2>1. LoaderTypes'
    <3>1. 1..(produced + 1) = (1..produced) \cup {produced + 1}  BY <1>1 DEF LoaderTypes
    <3> QED  BY <1>1, <3>1 DEF LoaderTypes, Produce
  <2> QED  BY <1>1, <2>1 DEF Produce, FetchedInv, Handled, SkippedIsHandled
<1>2. ASSUME LoaderInv, LoaderDown PROVE LoaderInv'
  BY <1>2 DEF LoaderDown, LoaderTypes, FetchedInv, SkippedIsHandled
<1>3. ASSUME LoaderInv, LoaderUp PROVE LoaderInv'
  <2>1. /\ loader' = "select" /\ position' = groupOffset /\ pending = <<>>
        /\ UNCHANGED <<produced, groupOffset, pending, rows, dead, undead, overtaken>>
    BY <1>3 DEF LoaderUp, StartOffset, FetchedInv
  <2>2. LoaderTypes'  BY <1>3, <2>1 DEF LoaderTypes
  <2>3. FetchedInv'
    BY <1>3, <2>1 DEF FetchedInv, SkippedIsHandled, Handled, LoaderTypes
  <2>4. SkippedIsHandled'  BY <1>3, <2>1 DEF SkippedIsHandled
  <2> QED  BY <2>2, <2>3, <2>4
<1> QED  BY <1>1, <1>2, <1>3

LEMMA LoaderStepInv == LoaderInv /\ [LoaderNext]_loaderVars => LoaderInv'
<1>1. CASE UNCHANGED loaderVars
  BY <1>1 DEF loaderVars, LoaderInv, LoaderTypes, FetchedInv, SkippedIsHandled, Handled
<1> QED  BY <1>1, FetchInv, BatchInv, CommitInv, BadMessageInv, RestartInv DEF LoaderNext

(* What the offset of the group has passed (CommitMessages, the skip of    *)
(* bad JSON, any restart) is a row, a dead letter or its failed publish,   *)
(* or was pending when a bad message was committed.                        *)
THEOREM SkippedHandled == LoaderSpec => []SkippedIsHandled
<1>1. LoaderInv => SkippedIsHandled  BY DEF LoaderInv
<1> QED  BY LoaderInitInv, LoaderStepInv, <1>1, PTL DEF LoaderSpec

(* The batch is in the order of the partition and holds no bad message.    *)
LoaderShape ==
  /\ loader \in {"select", "insert", "commit", "dlq", "skip", "down"}
  /\ \A i, j \in DOMAIN pending : i < j => pending[i] < pending[j]
  /\ ToSet(pending) \cap BadJson = {}
  /\ refused \subseteq Messages \ BadJson

LEMMA LoaderShapeStep == LoaderInv /\ LoaderShape /\ [LoaderNext]_loaderVars => LoaderShape'
<1> SUFFICES ASSUME LoaderInv, LoaderShape, [LoaderNext]_loaderVars PROVE LoaderShape'
  OBVIOUS
<1>1. ToSet(<<>>) = {} /\ \A i, j \in DOMAIN <<>> : FALSE  BY DEF ToSet
<1>0. refused' = refused
  BY DEF LoaderNext, loaderVars, Produce, FetchMessage, FlushBatch, Insert, InsertFails, Commit,
         SendToDLQ, CommitSkipped, LoaderDown, LoaderUp
<1>2. CASE FetchMessage /\ pending' = Append(pending, position + 1)
  <2>1. pending \in Seq(1..position) /\ position \in Nat  BY DEF LoaderInv, LoaderTypes
  <2>2. position + 1 \notin BadJson /\ loader' \in {"insert", "select"}
    <3>1. pending # Append(pending, position + 1)
      <4>1. Len(Append(pending, position + 1)) = Len(pending) + 1 /\ Len(pending) \in Nat
        BY <2>1, PendingFacts, AppendProperties, LenProperties
      <4> QED  BY <4>1
    <3> QED  BY <1>2, <3>1 DEF FetchMessage
  <2>3. \A m : m \in ToSet(pending') <=> m \in ToSet(pending) \/ m = position + 1
    BY <1>2, <2>1, PendingFacts
  <2>4. ASSUME NEW i \in DOMAIN pending', NEW j \in DOMAIN pending', i < j
        PROVE  pending'[i] < pending'[j]
    <3>1. /\ Len(pending) \in Nat /\ DOMAIN pending = 1..Len(pending)
          /\ \A n \in 1..Len(pending) : pending[n] \in 1..position
      BY <2>1, LenProperties, ElementOfSeq
    <3>2. /\ DOMAIN pending' = 1..(Len(pending) + 1)
          /\ \A n \in 1..Len(pending) : pending'[n] = pending[n]
          /\ pending'[Len(pending) + 1] = position + 1
      <4>1. pending \in Seq(1..(position + 1)) /\ position + 1 \in 1..(position + 1)
        BY <2>1, PendingFacts
      <4> QED  BY <1>2, <4>1, AppendProperties, LenProperties
    <3>3. i \in 1..Len(pending)  BY <2>4, <3>1, <3>2
    <3>4. CASE j \in 1..Len(pending)
      BY <2>4, <3>1, <3>2, <3>3, <3>4 DEF LoaderShape
    <3>5. CASE j = Len(pending) + 1
      <4>1. pending[i] \in 1..position /\ pending'[i] = pending[i] /\ pending'[j] = position + 1
        BY <3>1, <3>2, <3>3, <3>5
      <4> QED  BY <2>1, <4>1
    <3> QED  BY <3>1, <3>2, <3>4, <3>5
  <2> QED  BY <1>0, <2>2, <2>3, <2>4 DEF LoaderShape
<1>3. CASE /\ pending' = pending \/ pending' = <<>>
           /\ loader' \in {"select", "insert", "commit", "dlq", "skip", "down"}
  <2>1. CASE pending' = pending  BY <1>0, <1>3, <2>1 DEF LoaderShape
  <2>2. CASE pending' = <<>>  BY <1>0, <1>1, <1>3, <2>2 DEF LoaderShape
  <2> QED  BY <1>3, <2>1, <2>2
<1>4. \/ FetchMessage /\ pending' = Append(pending, position + 1)
      \/ /\ pending' = pending \/ pending' = <<>>
         /\ loader' \in {"select", "insert", "commit", "dlq", "skip", "down"}
  <2>1. loader \in {"select", "insert", "commit", "dlq", "skip", "down"}  BY DEF LoaderShape
  <2>2. CASE FetchMessage
    <3>1. \/ pending' = pending /\ loader' = "dlq"
          \/ pending' = Append(pending, position + 1)
      BY <2>2 DEF FetchMessage
    <3> QED  BY <2>2, <3>1
  <2>3. CASE ~ FetchMessage
    BY <2>1, <2>3 DEF LoaderNext, loaderVars, Produce, FlushBatch, Insert, InsertFails, Retained,
                      Commit, SendToDLQ, CommitSkipped, LoaderDown, LoaderUp
  <2> QED  BY <2>2, <2>3
<1> QED  BY <1>2, <1>3, <1>4

LEMMA LoaderInvTypes == LoaderInv /\ LoaderShape => LoaderTypeOK
<1> SUFFICES ASSUME LoaderInv, LoaderShape PROVE LoaderTypeOK
  OBVIOUS
<1>1. ToSet(pending) \subseteq 1..position
  BY PendingFacts DEF LoaderInv, LoaderTypes
<1>2. position <= produced /\ rows \in [Messages -> 0..2]  BY DEF LoaderInv, LoaderTypes
<1>3. groupOffset <= position \/ loader = "down"  BY DEF LoaderInv, FetchedInv
<1> QED  BY <1>1, <1>2, <1>3 DEF LoaderShape, LoaderTypeOK

LEMMA LoaderInvariant == LoaderInit /\ [][LoaderNext]_loaderVars => [](LoaderInv /\ LoaderShape)
<1>1. LoaderInit => LoaderShape  BY DEF LoaderInit, LoaderShape, ToSet
<1> QED  BY LoaderInitInv, LoaderStepInv, <1>1, LoaderShapeStep, PTL

-----------------------------------------------------------------------------
(* The three together *)

(* A behaviour of the instance that TLC checks is a behaviour of each of   *)
(* the three, fairness included.                                           *)
THEOREM StreamsAreTheirParts == StreamsSpec => FairIngestSpec /\ LoaderSpec /\ QueueSpec
<1> DEFINE vars == <<stream, ingestVars, loaderVars, queueVars>>
<1>1. StreamsInit => IngestInit /\ LoaderInit /\ QueueInit  BY DEF StreamsInit
<1>2. [StreamsNext]_vars =>
        [IngestNext]_ingestVars /\ [LoaderNext]_loaderVars /\ [QueueNext]_queueVars
  BY DEF StreamsNext
<1> QED
  BY <1>1, <1>2, PTL DEF StreamsSpec, FairIngestSpec, IngestSpec, LoaderSpec, QueueSpec

(* The types and shapes of the queue, the spool and the loader, in every   *)
(* instance of the three side by side.                                     *)
THEOREM StreamsTypeCorrect == StreamsSpec => []StreamsTypeOK
<1>1. IngestInv /\ UnendedFiles /\ LoaderInv /\ LoaderShape /\ QueueInv => StreamsTypeOK
  BY IngestInvTypes, LoaderInvTypes, QueueInvTypes DEF StreamsTypeOK
<1>2. IngestInit => UnendedFiles  BY DEF IngestInit, UnendedFiles
<1> QED
  BY <1>1, <1>2, UnendedStep, StreamsAreTheirParts, IngestInitInv, IngestStepInv, LoaderInvariant,
     QueueInvariant, PTL DEF FairIngestSpec, IngestSpec, LoaderSpec, QueueSpec
=============================================================================
