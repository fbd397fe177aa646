----------------------------- MODULE EventIngest -----------------------------
(***************************************************************************)
(* services/event-ingest: batches of analytics events are published to     *)
(* Kafka, or spooled to one file per partition key when Kafka fails; a     *)
(* periodic flusher replays the files.  Validation and PII stripping       *)
(* happen before and leave out whole events: an event here is one that     *)
(* passed them.  Kafka is external: a publish lands or not, and its        *)
(* answer may be an error although it landed.                              *)
(***************************************************************************)
EXTENDS Integers, Sequences, FiniteSets, SequencesExt

CONSTANTS PartitionKeys, Batches, Events,   \* Batches is 1..n, Events is 1..m
          KeyOf,                   \* [Events -> PartitionKeys]
          Payload,                 \* [Batches -> non-empty Seq(Events)]
          Nats,                    \* the batches that arrive over NATS, one by one
          Ticks,                   \* passes of the flusher that can overlap
          MaxFaults,               \* bound on crashes, short writes and lost answers
          Torn                     \* a line cut off in the middle

(* An event is the occurrence of it in a batch: no other has its name.     *)
ASSUME IngestAssumption ==
  /\ KeyOf \in [Events -> PartitionKeys] /\ Torn \notin Events
  /\ Payload \in [Batches -> Seq(Events) \ {<<>>}] /\ Nats \subseteq Batches
  /\ Batches \subseteq Nat /\ MaxFaults \in Nat
  /\ \A b, c \in Batches : \A m \in DOMAIN Payload[b], n \in DOMAIN Payload[c] :
       Payload[b][m] = Payload[c][n] => b = c /\ m = n

VARIABLES
  alive, connected,  \* the process; whether Kafka was there when it booted
  batch,             \* [Batches -> state of the handler]
  done,              \* [Batches -> how many events the handler has spooled]
  file,              \* [PartitionKeys -> lines of the spool file]
  unended,           \* keys whose file ends in a torn line, without a newline
  mtime,             \* keys whose file exists, least recently written first
  partition,         \* [PartitionKeys -> what Kafka holds, in offset order]
  running,           \* the flag of buildFlusher
  pass,              \* [Ticks -> state of the pass]
  work, held,        \* [Ticks -> files left to do, the first being worked on;
                     \*           lines read from it]
  faults,
  raced,             \* history: events lost to an unlink or to a torn line
  spooled, live      \* history: [PartitionKeys -> lines appended]; events landed live

ingestVars == <<alive, connected, batch, done, file, unended, mtime, partition, running, pass,
          work, held, faults, raced, spooled, live>>
handler == <<batch, done>>
disk    == <<file, unended, mtime>>
flusher == <<running, pass, work, held>>
ingestHistory == <<raced, spooled, live>>

IngestInit ==
  /\ alive = TRUE /\ connected \in BOOLEAN
  /\ batch = [b \in Batches |-> "idle"] /\ done = [b \in Batches |-> 0]
  /\ file = [k \in PartitionKeys |-> <<>>] /\ unended = {} /\ mtime = <<>>
  /\ partition = [k \in PartitionKeys |-> <<>>]
  /\ running = FALSE /\ pass = [t \in Ticks |-> "off"]
  /\ work = [t \in Ticks |-> <<>>] /\ held = [t \in Ticks |-> <<>>]
  /\ faults = 0 /\ raced = {}
  /\ spooled = [k \in PartitionKeys |-> <<>>] /\ live = {}

(* The events of a key, at their places in ascending order.                *)
OfKey(events, k) ==
  LET places == {i \in DOMAIN events : KeyOf[events[i]] = k}
      at == CHOOSE s \in [1..Cardinality(places) -> places] :
              \A i, j \in DOMAIN s : i < j => s[i] < s[j]
  IN [i \in 1..Cardinality(places) |-> events[at[i]]]
LandedAt(events, reached) ==
  [k \in PartitionKeys |-> IF k \in reached THEN partition[k] \o OfKey(events, k) ELSE partition[k]]
Landed(events) == LandedAt(events, PartitionKeys)

Busy == {"publishing", "spooling"}

(* The NATS iterator awaits its handler, HTTP requests overlap.            *)
Accept(b) ==
  /\ alive /\ batch[b] = "idle"
  /\ b \in Nats => \A c \in Nats : c < b => batch[c] \notin Busy \cup {"idle"}
  /\ batch' = [batch EXCEPT ![b] = "publishing"]
  /\ UNCHANGED <<alive, connected, done, disk, partition, flusher, faults, ingestHistory>>

(* publishMany of the route, publish of handleNatsEvent.  When it fails    *)
(* some partitions may have got their part of the batch.                   *)
PublishLands(b) ==
  /\ batch[b] = "publishing" /\ connected
  /\ \/ /\ batch' = [batch EXCEPT ![b] = "accepted"] /\ faults' = faults
        /\ partition' = Landed(Payload[b])
        /\ live' = live \cup ToSet(Payload[b])
     \/ \E reached \in SUBSET PartitionKeys :
        /\ faults < MaxFaults /\ faults' = faults + 1
        /\ batch' = [batch EXCEPT ![b] = "spooling"]
        /\ partition' = LandedAt(Payload[b], reached)
        /\ live' = live \cup {e \in ToSet(Payload[b]) : KeyOf[e] \in reached}
  /\ UNCHANGED <<alive, connected, done, disk, flusher, raced, spooled>>

PublishFails(b) ==
  /\ batch[b] = "publishing"
  /\ batch' = [batch EXCEPT ![b] = "spooling"]
  /\ UNCHANGED <<alive, connected, done, disk, partition, flusher, faults, ingestHistory>>

Rewritten(k) == Append(RemoveFirst(mtime, k), k)
EndsTorn(k) == k \in unended

(* After the last event: 202, but 500 when the publisher is the stand-in   *)
(* of a boot without Kafka, whose error is no IngestUnavailableError.      *)
SpoolReply == IF connected THEN "accepted" ELSE "refused"

(* appendFile: a line written behind a torn one becomes part of it and     *)
(* ends it.                                                                *)
Prepends(k, e) == <<e>> \o file[k]  \* mutant: newest line first
Overwrites(k, e) == <<e>>  \* mutant: writeFile instead of appendFile
AppendLine(k, e) == IF EndsTorn(k) THEN file[k] ELSE Append(file[k], e)

Spool(b) ==
  /\ batch[b] = "spooling"
  /\ LET e == Payload[b][done[b] + 1]
         k == KeyOf[e]
     IN /\ file' = [file EXCEPT ![k] = AppendLine(k, e)]
        /\ unended' = unended \ {k} /\ mtime' = Rewritten(k)
        /\ raced' = IF EndsTorn(k) THEN raced \cup {e} ELSE raced
        /\ spooled' = [spooled EXCEPT ![k] = Append(@, e)]
  /\ done' = [done EXCEPT ![b] = @ + 1]
  /\ batch' = IF done'[b] < Len(Payload[b]) THEN batch
              ELSE [batch EXCEPT ![b] = IF b \in Nats THEN "accepted" ELSE SpoolReply]
  /\ UNCHANGED <<alive, connected, partition, flusher, faults, live>>

(* The append fails half-way, on a full disk say: nothing, or a part of    *)
(* the line, is in the file.  The route answers 500; NATS drops the event. *)
SpoolCutShort(b) ==
  /\ batch[b] = "spooling" /\ faults < MaxFaults
  /\ LET k == KeyOf[Payload[b][done[b] + 1]]
     IN /\ \/ UNCHANGED <<file, unended>>
           \/ /\ ~EndsTorn(k) /\ unended' = unended \cup {k}
              /\ file' = [file EXCEPT ![k] = Append(@, Torn)]
        /\ mtime' = Rewritten(k)
  /\ batch' = [batch EXCEPT ![b] = "refused"]
  /\ faults' = faults + 1
  /\ UNCHANGED <<alive, connected, done, partition, flusher, ingestHistory>>

-----------------------------------------------------------------------------
(* tick: nothing while another pass runs or the publisher is not ready;    *)
(* then the files are listed, oldest mtime first.                          *)
Unguarded == alive /\ connected  \* mutant: overlapping passes
MayTick == alive /\ connected /\ ~running

StartPass(t) ==
  /\ pass[t] = "off" /\ MayTick /\ mtime # <<>>
  /\ running' = TRUE
  /\ pass' = [pass EXCEPT ![t] = "drain"]
  /\ work' = [work EXCEPT ![t] = mtime]
  /\ UNCHANGED <<alive, connected, handler, disk, partition, held, faults, ingestHistory>>

(* drain reads, it does not consume.                                       *)
DrainFile(t) ==
  LET lines == file[Head(work[t])] IN
  /\ pass[t] = "drain" /\ Torn \notin ToSet(lines)
  /\ held' = [held EXCEPT ![t] = lines]
  /\ pass' = [pass EXCEPT ![t] = IF lines = <<>> THEN "remove" ELSE "publish"]
  /\ UNCHANGED <<alive, connected, handler, disk, partition, running, work, faults, ingestHistory>>

FlushLands(t) ==
  /\ pass[t] = "publish"
  /\ partition' = Landed(held[t])
  /\ pass' = [pass EXCEPT ![t] = "remove"]
  /\ UNCHANGED <<alive, connected, handler, disk, running, work, held, faults, ingestHistory>>

Over(t) ==
  /\ running' = FALSE
  /\ pass' = [pass EXCEPT ![t] = "off"]
  /\ work' = [work EXCEPT ![t] = <<>>] /\ held' = [held EXCEPT ![t] = <<>>]

(* publishMany throws, perhaps after it landed, or unlink throws: the file *)
(* stays and the pass is over.                                             *)
FlushFails(t) ==
  /\ pass[t] = "publish"
  /\ \/ partition' = partition /\ faults' = faults
     \/ faults < MaxFaults /\ faults' = faults + 1 /\ partition' = Landed(held[t])
  /\ Over(t)
  /\ UNCHANGED <<alive, connected, handler, disk, ingestHistory>>

(* unlink, whatever the file holds by now; then the next file.             *)
Keeps(k) == file  \* mutant: the file is not removed
Removed(k) == [file EXCEPT ![k] = <<>>]

RemoveFile(t) ==
  LET k == Head(work[t]) IN
  /\ pass[t] = "remove"
  /\ file' = Removed(k) /\ unended' = unended \ {k}
  /\ mtime' = RemoveFirst(mtime, k)
  /\ raced' = raced \cup (ToSet(file[k]) \ (ToSet(held[t]) \cup {Torn}))
  /\ IF Len(work[t]) = 1 THEN Over(t)
     ELSE /\ pass' = [pass EXCEPT ![t] = "drain"]
          /\ work' = [work EXCEPT ![t] = Tail(@)] /\ held' = [held EXCEPT ![t] = <<>>]
          /\ running' = running
  /\ UNCHANGED <<alive, connected, handler, partition, faults, spooled, live>>

-----------------------------------------------------------------------------
(* The end of the process: requests and passes are cut off.                *)
Dies ==
  /\ alive' = FALSE
  /\ batch' = [b \in Batches |-> IF batch[b] \in Busy THEN "refused" ELSE batch[b]]
  /\ running' = FALSE
  /\ pass' = [t \in Ticks |-> "off"]
  /\ work' = [t \in Ticks |-> <<>>] /\ held' = [t \in Ticks |-> <<>>]
  /\ UNCHANGED <<connected, done, disk, partition, ingestHistory>>

(* JSON.parse of a torn line throws outside the inner try: the pass        *)
(* rejects, nobody handles the rejection and Node ends the process.        *)
DrainThrows(t) ==
  /\ pass[t] = "drain" /\ Torn \in ToSet(file[Head(work[t])])
  /\ Dies /\ faults' = faults

(* A signal (the shutdown waits for no request and no pass), or a crash.   *)
Stopped ==
  /\ alive /\ faults < MaxFaults
  /\ Dies /\ faults' = faults + 1

IngestBoot ==
  /\ ~alive
  /\ alive' = TRUE /\ connected' \in BOOLEAN
  /\ UNCHANGED <<handler, disk, partition, flusher, faults, ingestHistory>>

IngestNext ==
  \/ \E b \in Batches :
       Accept(b) \/ PublishLands(b) \/ PublishFails(b) \/ Spool(b) \/ SpoolCutShort(b)
  \/ \E t \in Ticks :
       StartPass(t) \/ DrainFile(t) \/ FlushLands(t) \/ FlushFails(t) \/ RemoveFile(t) \/ DrainThrows(t)
  \/ Stopped \/ IngestBoot

(* The interval fires again and again, handlers and passes go on, and a    *)
(* broker that is tried again and again answers.                           *)
IngestFairness ==
  /\ WF_ingestVars(IngestBoot)
  /\ \A b \in Batches : WF_ingestVars(PublishFails(b) \/ PublishLands(b)) /\ WF_ingestVars(Spool(b))
  /\ WF_ingestVars(\E t \in Ticks : StartPass(t))
  /\ WF_ingestVars(\E t \in Ticks : DrainFile(t) \/ RemoveFile(t) \/ DrainThrows(t))
  /\ SF_ingestVars(\E t \in Ticks : FlushLands(t))

IngestSpec == IngestInit /\ [][IngestNext]_ingestVars
FairIngestSpec == IngestSpec /\ IngestFairness

-----------------------------------------------------------------------------
Exists(k) == k \in ToSet(mtime)

(* Types; at most one pass runs, and a file is listed iff it may have      *)
(* lines.                                                                  *)
IngestTypeOK ==
  /\ \A b \in Batches : batch[b] \in {"idle", "publishing", "spooling", "accepted", "refused"}
  /\ \A k \in PartitionKeys : ToSet(file[k]) \subseteq Events \cup {Torn} /\ (file[k] # <<>> => Exists(k))
  /\ unended \subseteq PartitionKeys
  /\ \A k \in PartitionKeys : \A e \in ToSet(partition[k]) : e \in Events /\ KeyOf[e] = k
  /\ Cardinality({t \in Ticks : pass[t] # "off"}) = (IF running THEN 1 ELSE 0)
  /\ \A t \in Ticks : pass[t] = "off" <=> work[t] = <<>>

InFile(e) == e \in ToSet(file[KeyOf[e]])
InKafka(e) == e \in ToSet(partition[KeyOf[e]])

(* What an accepted batch carried is in Kafka or in the spool, unless it   *)
(* was appended to a file between drain and unlink, or to a torn line.     *)
(* Failed flushes and crashes lose nothing else.                           *)
LossExplained ==
  \A b \in Batches : batch[b] = "accepted" =>
    \A e \in ToSet(Payload[b]) : InKafka(e) \/ InFile(e) \/ e \in raced

First(e) == CHOOSE i \in DOMAIN partition[KeyOf[e]] :
              /\ partition[KeyOf[e]][i] = e
              /\ \A j \in 1..(i - 1) : partition[KeyOf[e]][j] # e

(* "a single FIFO per (workspace, viewer) pair" (spool.ts): of two events  *)
(* of a key that only the spool brought to Kafka, the one spooled first    *)
(* lands first, through failed flushes, crashes and repeats.               *)
ReplayInSpoolOrder ==
  \A k \in PartitionKeys : \A i, j \in DOMAIN spooled[k] :
    LET d == spooled[k][i]
        e == spooled[k][j]
    IN i < j /\ {d, e} \cap live = {} /\ InKafka(d) /\ InKafka(e) => First(d) < First(e)

Poisoned == \E k \in PartitionKeys : Torn \in ToSet(file[k])

(* The spool empties, unless a torn line stops every pass or the process   *)
(* keeps the publisher of a boot without Kafka.                            *)
SpoolEmpties == <>[](\A k \in PartitionKeys : file[k] = <<>>) \/ []<>(Poisoned \/ ~connected)

-----------------------------------------------------------------------------
(* "we want 202 (Accepted) when spooled so the client knows we held the    *)
(* data" (events.ts): a batch that was spooled to the last event is not    *)
(* refused.                                                                *)
HeldIsAccepted ==
  \A b \in Batches : batch[b] = "refused" => done[b] < Len(Payload[b])

(* "Delete a spool file after successful replay" (spool.ts): no event is   *)
(* removed from the spool before it is in Kafka.                           *)
RemovedAfterReplay ==
  [][\A e \in Events : InFile(e) /\ ~InFile(e)' => InKafka(e)']_ingestVars

(* "One file per partition key ... preserves the ordering invariant for    *)
(* replay" (spool.ts): events that NATS delivers one after the other are   *)
(* in the partition in that order.                                         *)
PartitionInOrder ==
  \A b, c \in Nats :
    LET d == Payload[b][1]
        e == Payload[c][1]
    IN b < c /\ KeyOf[d] = KeyOf[e] /\ InKafka(d) /\ InKafka(e) => First(d) < First(e)

(* "fall back to a publisher that always fails so the spool takes over.    *)
(* This is the same behavior the runtime path uses when Kafka drops        *)
(* mid-flight" (default_deps.ts): the spool empties once Kafka answers.    *)
SpoolDrains == <>[](\A k \in PartitionKeys : file[k] = <<>>) \/ []<>Poisoned
=============================================================================
