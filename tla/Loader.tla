------------------------------- MODULE Loader -------------------------------
(***************************************************************************)
(* services/clickhouse-loader: one goroutine fetches messages of a Kafka   *)
(* partition, batches them, inserts a batch into ClickHouse and commits    *)
(* its offsets.  A message that is no JSON goes to the dead-letter topic   *)
(* and is committed on its own, at once.  Kafka and ClickHouse are         *)
(* external: their calls fail, an insert possibly after it landed.  Some   *)
(* messages are JSON and no row of the table: the INSERT names columns     *)
(* that the schema of infrastructure/clickhouse does not have, and an id   *)
(* that is no UUID or an unknown enum does not fit its column.  An insert  *)
(* with one of them fails every time.  Offset n is that of the n-th        *)
(* message; the group's offset is the number of messages that a restart    *)
(* skips.                                                                  *)
(***************************************************************************)
EXTENDS Integers, Sequences, SequencesExt

CONSTANTS Messages,      \* 1..n, the offsets of the partition
          BadJson,       \* those that json.Unmarshal refuses
          BatchMaxRows,
          MaxLoaderFaults  \* bound on failed commits, lost answers and crashes

ASSUME LoaderAssumption == BadJson \subseteq Messages /\ BatchMaxRows \in Nat \ {0}

VARIABLES
  refused,    \* the messages that ClickHouse never takes, all of them if the
              \* table lacks a column; nothing changes it
  loader,     \* "select", "insert", "commit", "dlq", "skip", "down"
  produced,   \* messages in the partition
  groupOffset,
  position,   \* messages fetched
  pending,    \* pendingMeta: offsets of the batch
  rows,       \* ClickHouse: [Messages -> rows of the message, two for more]
  dead,       \* the dead-letter topic
  loaderFaults,
  overtaken,  \* history: pending when a later bad message was committed
  undead      \* history: bad messages whose dead-letter publish failed

loaderVars == <<refused, loader, produced, groupOffset, position, pending, rows, dead,
                loaderFaults, overtaken, undead>>

LoaderInit ==
  /\ refused \in SUBSET (Messages \ BadJson)
  /\ loader = "select" /\ produced = 0 /\ groupOffset = 0 /\ position = 0
  /\ pending = <<>> /\ rows = [m \in Messages |-> 0] /\ dead = {}
  /\ loaderFaults = 0 /\ overtaken = {} /\ undead = {}

Produce ==
  /\ produced + 1 \in Messages
  /\ produced' = produced + 1
  /\ UNCHANGED <<refused, loader, groupOffset, position, pending, rows, dead, loaderFaults,
                 overtaken, undead>>

(* Next fetches a message: a row of the batch, which is flushed by size,   *)
(* or bad JSON.                                                            *)
FetchMessage ==
  /\ loader = "select" /\ position < produced
  /\ position' = position + 1
  /\ IF position' \in BadJson
       THEN loader' = "dlq" /\ UNCHANGED pending
       ELSE /\ pending' = Append(pending, position')
            /\ loader' = IF Len(pending') >= BatchMaxRows THEN "insert" ELSE "select"
  /\ UNCHANGED <<refused, produced, groupOffset, rows, dead, loaderFaults, overtaken, undead>>

(* The ticker, or the flush at shutdown.                                   *)
FlushBatch ==
  /\ loader = "select" /\ pending # <<>>
  /\ loader' = "insert"
  /\ UNCHANGED <<refused, produced, groupOffset, position, pending, rows, dead, loaderFaults,
                 overtaken, undead>>

Blocked == ToSet(pending) \cap refused # {}
Inserted == [m \in Messages |-> IF m \in ToSet(pending) THEN IF rows[m] = 0 THEN 1 ELSE 2
                                ELSE rows[m]]

Insert ==
  /\ loader = "insert" /\ ~ Blocked
  /\ rows' = Inserted /\ loader' = "commit"
  /\ UNCHANGED <<refused, produced, groupOffset, position, pending, dead, loaderFaults, overtaken, undead>>

(* The batch stays pending; the next message or tick tries again.          *)
Empties == <<>>      \* mutant: a failed batch is dropped
Retained == pending
InsertFails ==
  /\ loader = "insert" /\ loader' = "select"
  /\ pending' = Retained
  /\ \/ UNCHANGED <<rows, loaderFaults>>
     \/ /\ ~ Blocked /\ loaderFaults < MaxLoaderFaults /\ loaderFaults' = loaderFaults + 1
        /\ rows' = Inserted
  /\ UNCHANGED <<refused, produced, groupOffset, position, dead, overtaken, undead>>

(* CommitMessages sets the offset behind the last message of the batch.    *)
Commit ==
  /\ loader = "commit" /\ loader' = "select"
  /\ \/ groupOffset' = Last(pending) /\ pending' = <<>> /\ UNCHANGED loaderFaults
     \/ /\ loaderFaults < MaxLoaderFaults /\ loaderFaults' = loaderFaults + 1
        /\ UNCHANGED <<groupOffset, pending>>
  /\ UNCHANGED <<refused, produced, position, rows, dead, overtaken, undead>>

SendToDLQ ==
  /\ loader = "dlq" /\ loader' = "skip"
  /\ \/ dead' = dead \cup {position} /\ UNCHANGED undead
     \/ undead' = undead \cup {position} /\ UNCHANGED dead
  /\ UNCHANGED <<refused, produced, groupOffset, position, pending, rows, loaderFaults, overtaken>>

(* "Still commit": the offset passes the rows that are pending.            *)
CommitSkipped ==
  /\ loader = "skip" /\ loader' = "select"
  /\ \/ groupOffset' = position /\ overtaken' = overtaken \cup ToSet(pending)
     \/ UNCHANGED <<groupOffset, overtaken>>
  /\ UNCHANGED <<refused, produced, position, pending, rows, dead, loaderFaults, undead>>

(* A crash, or a shutdown: its last flush inserts with a context that is   *)
(* cancelled already, so it fails.                                         *)
LoaderDown ==
  /\ loader # "down" /\ loaderFaults < MaxLoaderFaults
  /\ loader' = "down" /\ loaderFaults' = loaderFaults + 1
  /\ pending' = <<>>
  /\ UNCHANGED <<refused, produced, groupOffset, position, rows, dead, overtaken, undead>>

FromTheEnd == produced  \* mutant: the reader starts at the end of the partition
StartOffset == groupOffset
LoaderUp ==
  /\ loader = "down" /\ loader' = "select"
  /\ position' = StartOffset
  /\ UNCHANGED <<refused, produced, groupOffset, pending, rows, dead, loaderFaults, overtaken, undead>>

LoaderNext ==
  \/ Produce \/ FetchMessage \/ FlushBatch \/ Insert \/ InsertFails \/ Commit
  \/ SendToDLQ \/ CommitSkipped \/ LoaderDown \/ LoaderUp

(* The loop goes on, the ticker fires, and an insert that ClickHouse can   *)
(* take and that is tried again and again succeeds.                        *)
LoaderFairness ==
  /\ WF_loaderVars(FetchMessage) /\ WF_loaderVars(FlushBatch)
  /\ WF_loaderVars(Insert \/ InsertFails) /\ SF_loaderVars(Insert)
  /\ WF_loaderVars(Commit) /\ WF_loaderVars(SendToDLQ) /\ WF_loaderVars(CommitSkipped)
  /\ WF_loaderVars(LoaderUp)

LoaderSpec == LoaderInit /\ [][LoaderNext]_loaderVars /\ LoaderFairness

-----------------------------------------------------------------------------
LoaderTypeOK ==
  /\ loader \in {"select", "insert", "commit", "dlq", "skip", "down"}
  /\ groupOffset <= position \/ loader = "down"
  /\ position <= produced /\ refused \subseteq Messages \ BadJson
  /\ rows \in [Messages -> 0..2]
  /\ \A i, j \in DOMAIN pending : i < j => pending[i] < pending[j]
  /\ ToSet(pending) \subseteq (1..position) \ BadJson

(* What the group's offset has passed is a row, a dead letter or one whose *)
(* publish failed, unless it was pending when a bad message was committed. *)
SkippedIsHandled ==
  \A m \in 1..groupOffset :
    rows[m] > 0 \/ m \in dead \cup undead \/ m \in overtaken

(* Every message that is JSON becomes a row in the end, over failed        *)
(* inserts and commits and restarts, or was overtaken by the commit of a   *)
(* bad one, unless a message that ClickHouse never takes is in the batch   *)
(* for good: flush has no way past it.                                     *)
MessagesAreStored ==
  \A m \in Messages \ BadJson :
    \/ m <= produced ~> rows[m] > 0 \/ m \in overtaken
    \/ []<>Blocked

-----------------------------------------------------------------------------
(* "It commits offsets to Kafka only after a successful ClickHouse INSERT" *)
(* (main.go).                                                              *)
CommittedIsInserted == \A m \in (1..groupOffset) \ BadJson : rows[m] > 0
=============================================================================
