----------------------------- MODULE LocalQueue -----------------------------
(***************************************************************************)
(* apps/editor/src/sync/local-queue.ts: the editor's outbound ops.  An op  *)
(* is pushed to an array and waits there for its OpAck.  After a change    *)
(* the array is written to IndexedDB, as a whole and with nobody waiting   *)
(* for it; a write that fails says nothing.  All tabs share the store; a   *)
(* new page starts with an empty array, which init replaces by what it     *)
(* loads.  The embedding app is external: it may enqueue before init is    *)
(* done, and hands over the OpAcks, one that it has handed over before     *)
(* included.  An op is named by its op id, a random one; getAll returns    *)
(* records by id.  clear(), which nothing calls, is left out.              *)
(***************************************************************************)
EXTENDS Integers, Sequences, FiniteSets, SequencesExt

CONSTANTS Tabs,
          OpIds,            \* numbers, in the order of the ids
          MaxCloses         \* bound on closed tabs

ASSUME QueueAssumption == OpIds \subseteq Nat /\ MaxCloses \in Nat

VARIABLES
  page,      \* [Tabs -> "closed", "loading" or "open"]
  queue,     \* [Tabs -> this.pending, oldest first]
  unsaved,   \* [Tabs -> calls of persistPendingOps under way with this array]
  former,    \* [Tabs -> ops of the array that init replaced]
  strays,    \* [Tabs -> calls of persistPendingOps under way with that array]
  idb,       \* the records of the store
  closes,
  edits,     \* history: all ops enqueued
  acked,     \* history: all ops acknowledged
  seen,      \* history: [Tabs -> ops that have been in this.pending]
  behind,    \* history: the tabs whose last write did not store this.pending
  cut,       \* history: ops queued in a tab that closed before it stored them
  dropped,   \* history: ops of an array that init replaced by one without them
  erased     \* history: records cleared by a write of a page that never saw them

queueVars == <<page, queue, unsaved, former, strays, idb, closes, edits, acked, seen,
               behind, cut, dropped, erased>>
losses == <<cut, dropped, erased>>

QueueInit ==
  /\ page = [t \in Tabs |-> "closed"] /\ queue = [t \in Tabs |-> <<>>]
  /\ unsaved = [t \in Tabs |-> 0] /\ former = [t \in Tabs |-> {}]
  /\ strays = [t \in Tabs |-> 0] /\ idb = {} /\ closes = 0
  /\ edits = {} /\ acked = {} /\ seen = [t \in Tabs |-> {}] /\ behind = {}
  /\ cut = {} /\ dropped = {} /\ erased = {}

(* new LocalQueue, and init up to its await.                               *)
OpenTab(t) ==
  /\ page[t] = "closed"
  /\ page' = [page EXCEPT ![t] = "loading"]
  /\ UNCHANGED <<queue, unsaved, former, strays, idb, closes, edits, acked, seen, behind, losses>>

(* loadPendingOps: the records in id order.                                *)
Stored(S) ==
  CHOOSE s \in [1..Cardinality(S) -> S] : \A i, j \in DOMAIN s : i < j => s[i] < s[j]

(* this.pending = await loadPendingOps(), which is [] when the load fails. *)
Loaded(t) ==
  /\ page[t] = "loading"
  /\ page' = [page EXCEPT ![t] = "open"]
  /\ \E ops \in {Stored(idb), <<>>} :
       /\ queue' = [queue EXCEPT ![t] = ops]
       /\ seen' = [seen EXCEPT ![t] = ToSet(ops)]
       /\ dropped' = dropped \cup (ToSet(queue[t]) \ ToSet(ops))
  /\ former' = [former EXCEPT ![t] = ToSet(queue[t])]
  /\ strays' = [strays EXCEPT ![t] = unsaved[t]] /\ unsaved' = [unsaved EXCEPT ![t] = 0]
  /\ UNCHANGED <<idb, closes, edits, acked, behind, cut, erased>>

(* enqueue.                                                                *)
Edit(t, o) ==
  /\ page[t] # "closed" /\ o \notin edits
  /\ queue' = [queue EXCEPT ![t] = Append(@, o)]
  /\ unsaved' = [unsaved EXCEPT ![t] = @ + 1]
  /\ edits' = edits \cup {o} /\ seen' = [seen EXCEPT ![t] = @ \cup {o}]
  /\ UNCHANGED <<page, former, strays, idb, closes, acked, behind, losses>>

(* acknowledge, of an op of the array or of one that is not there.         *)
SplicesAnyway(t, o) ==         \* mutant: splice(-1, 1) when the op is not found
  IF o \in ToSet(queue[t]) THEN RemoveFirst(queue[t], o)
  ELSE IF queue[t] = <<>> THEN <<>> ELSE Front(queue[t])
Without(t, o) == RemoveFirst(queue[t], o)

Acknowledge(t, o) ==
  /\ page[t] # "closed" /\ o \in edits
  /\ queue' = [queue EXCEPT ![t] = Without(t, o)]
  /\ unsaved' = IF o \in ToSet(queue[t]) THEN [unsaved EXCEPT ![t] = @ + 1] ELSE unsaved
  /\ acked' = acked \cup {o}
  /\ UNCHANGED <<page, former, strays, idb, closes, edits, seen, behind, losses>>

(* A transaction of persistPendingOps: clear, and put what the array holds *)
(* by then.  The database is opened in the order of the calls, so writes   *)
(* of the former array come first.                                         *)
Persist(t) ==
  /\ unsaved[t] > 0 /\ strays[t] = 0
  /\ unsaved' = [unsaved EXCEPT ![t] = @ - 1]
  /\ idb' = ToSet(queue[t]) /\ behind' = behind \ {t}
  /\ erased' = erased \cup (idb \ seen[t])
  /\ UNCHANGED <<page, queue, former, strays, closes, edits, acked, seen, cut, dropped>>

PersistFormer(t) ==
  /\ strays[t] > 0
  /\ strays' = [strays EXCEPT ![t] = @ - 1]
  /\ idb' = former[t] /\ behind' = behind \cup {t}
  /\ erased' = erased \cup (idb \ (former[t] \cup seen[t]))
  /\ UNCHANGED <<page, queue, unsaved, former, closes, edits, acked, seen, cut, dropped>>

(* No IndexedDB, an open that fails, a quota: the catch skips the write.   *)
PersistFails(t) ==
  /\ \/ strays[t] > 0 /\ strays' = [strays EXCEPT ![t] = @ - 1] /\ UNCHANGED unsaved
     \/ strays[t] = 0 /\ unsaved[t] > 0 /\ unsaved' = [unsaved EXCEPT ![t] = @ - 1]
        /\ UNCHANGED strays
  /\ behind' = behind \cup {t}
  /\ UNCHANGED <<page, queue, former, idb, closes, edits, acked, seen, losses>>

(* The tab has writes under way, or the last one left the store behind.    *)
Dirty(t) == unsaved[t] > 0 \/ strays[t] > 0 \/ t \in behind

(* The tab is closed or reloaded, with the writes under way.               *)
CloseTab(t) ==
  /\ page[t] # "closed" /\ closes < MaxCloses
  /\ closes' = closes + 1
  /\ page' = [page EXCEPT ![t] = "closed"]
  /\ queue' = [queue EXCEPT ![t] = <<>>] /\ unsaved' = [unsaved EXCEPT ![t] = 0]
  /\ former' = [former EXCEPT ![t] = {}] /\ strays' = [strays EXCEPT ![t] = 0]
  /\ seen' = [seen EXCEPT ![t] = {}] /\ behind' = behind \ {t}
  /\ cut' = IF Dirty(t) THEN cut \cup ToSet(queue[t]) ELSE cut
  /\ UNCHANGED <<idb, edits, acked, dropped, erased>>

QueueNext ==
  \E t \in Tabs :
    \/ OpenTab(t) \/ Loaded(t) \/ Persist(t) \/ PersistFormer(t) \/ PersistFails(t)
    \/ CloseTab(t) \/ \E o \in OpIds : Edit(t, o) \/ Acknowledge(t, o)

QueueSpec == QueueInit /\ [][QueueNext]_queueVars

-----------------------------------------------------------------------------
QueueTypeOK ==
  /\ page \in [Tabs -> {"closed", "loading", "open"}]
  /\ \A t \in Tabs :
       /\ IsInjective(queue[t]) /\ ToSet(queue[t]) \subseteq OpIds
       /\ page[t] = "closed" => queue[t] = <<>> /\ ~ Dirty(t)
       /\ page[t] # "open" => strays[t] = 0
       /\ ToSet(queue[t]) \subseteq seen[t]
  /\ idb \cup acked \cup cut \cup dropped \cup erased \subseteq edits

(* "they survive page refreshes" (local-queue.ts): an edit is acknowledged,*)
(* in the queue of a page or in the store, unless its tab closed before a  *)
(* write stored the queue, init replaced the array it was pushed to, or a  *)
(* page that never saw it cleared the record.  Pages that come and go with *)
(* all writes done, failed writes made good and repeated OpAcks lose none. *)
EditSurvives ==
  \A o \in edits : \/ o \in acked \cup idb \cup cut \cup dropped \cup erased
                   \/ \E t \in Tabs : o \in ToSet(queue[t])
=============================================================================
