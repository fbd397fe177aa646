----------------------------- MODULE SyncWorker -----------------------------
(***************************************************************************)
(* workers/sync/cmd/sync-worker/main.go: the process that moves ops from   *)
(* the JetStream consumer to the Materializer and acknowledges them, with  *)
(* its shutdown sequence, hard kills and restarts.                         *)
(*                                                                         *)
(* The consume callback handles one message at a time in a goroutine of    *)
(* its own; main waits for a signal and then stops the consumer and the    *)
(* materializer.  An op is the message that carries it.                    *)
(*                                                                         *)
(* JetStream and its client library are external: a message is delivered   *)
(* at most MaxDeliver times, again after a Nak or when AckWait passes; the *)
(* client buffers deliveries until the callback is free, and Stop of the   *)
(* consume context drops that buffer without waiting for the callback.     *)
(***************************************************************************)
EXTENDS Naturals, Sequences, Functions, FiniteSets

CONSTANTS Good,       \* messages that carry a valid op
          Bad,        \* messages that do not unmarshal or miss a field
          MaxDeliver, \* of the consumer
          BatchSize   \* of the materializer

Msgs == Good \cup Bad

ASSUME SyncWorkerAssumption ==
  /\ Good \cap Bad = {}
  /\ MaxDeliver \in Nat \ {0}
  /\ BatchSize \in Nat \ {0}

VARIABLES
  status,      \* in the stream: "ready", "pending" (delivered) or "acked"
  deliveries,  \* times delivered
  inbox,       \* deliveries buffered by the client, oldest first
  handler,     \* the callback: "idle", "got" a message, or "pushed" its op
  cur,         \* the message of the callback: a sequence of at most one
  main,        \* "running", "consumerStopped", "draining" or "down"
  buffer, timer, flushCh, stopCh, loop, batch, pusher, stored,  \* Materializer
  accepted, handled, stopMark,  \* its histories, since the process started
  refused,     \* history: ops of batches whose InsertOps returned an error
  killed,      \* history: acked ops in memory at a hard kill
  leftBehind   \* history: acked ops in memory at a graceful exit

matVars == <<buffer, timer, flushCh, stopCh, loop, batch, pusher, stored,
             accepted, handled, stopMark>>
queueVars == <<status, deliveries, inbox, handler, cur>>
history == <<refused, killed, leftBehind>>
workerVars == <<queueVars, main, matVars, history>>

(* MaxPushes never binds: there are not as many deliveries. *)
Mat == INSTANCE Materializer
         WITH Ops <- Good, Pushers <- {"callback"},
              MaxPushes <- MaxDeliver * Cardinality(Msgs)

WorkerInit ==
  /\ status = [m \in Msgs |-> "ready"]
  /\ deliveries = [m \in Msgs |-> 0]
  /\ inbox = <<>> /\ handler = "idle" /\ cur = <<>>
  /\ main = "running"
  /\ Mat!Init
  /\ refused = {} /\ killed = {} /\ leftBehind = {}

-----------------------------------------------------------------------------
(* JetStream *)

NoLimit(m) == TRUE  \* mutant: MaxDeliver is not set
Deliverable(m) == deliveries[m] < MaxDeliver

Deliver(m) ==
  /\ main = "running"
  /\ status[m] = "ready"
  /\ Deliverable(m)
  /\ status' = [status EXCEPT ![m] = "pending"]
  /\ deliveries' = [deliveries EXCEPT ![m] = @ + 1]
  /\ inbox' = Append(inbox, m)
  /\ UNCHANGED <<handler, cur, main, matVars, history>>

(* AckWait passes, wherever the delivery is. *)
AckWaitPasses(m) ==
  /\ status[m] = "pending"
  /\ status' = [status EXCEPT ![m] = "ready"]
  /\ UNCHANGED <<deliveries, inbox, handler, cur, main, matVars, history>>

-----------------------------------------------------------------------------
(* processMsg *)

Take ==
  /\ handler = "idle"
  /\ inbox # <<>>
  /\ handler' = "got"
  /\ cur' = <<Head(inbox)>>
  /\ inbox' = Tail(inbox)
  /\ UNCHANGED <<status, deliveries, main, matVars, history>>

(* Nak and Ack are sent and not awaited: they may not arrive.              *)
Settle(m, to) ==
  \/ UNCHANGED status
  \/ status' = [status EXCEPT ![m] = to]

Stuck == UNCHANGED <<handler, cur>>  \* mutant: retries the message in place
Done == handler' = "idle" /\ cur' = <<>>

Reject ==
  /\ handler = "got"
  /\ cur[1] \in Bad
  /\ IF status[cur[1]] = "pending" THEN Settle(cur[1], "ready")
                                   ELSE UNCHANGED status
  /\ Done
  /\ UNCHANGED <<deliveries, inbox, main, matVars, history>>

Push ==
  /\ handler = "got"
  /\ \E op \in Good : cur = <<op>> /\ Mat!Push("callback", op)
  /\ handler' = "pushed"
  /\ UNCHANGED <<status, deliveries, inbox, cur, main, history>>

Signal ==
  /\ Mat!Signal("callback")
  /\ UNCHANGED <<queueVars, main, history>>

AckFirst == handler = "got" /\ cur[1] \in Good  \* mutant: acks, does not push

(* Push has returned. *)
MayAck == handler = "pushed" /\ pusher["callback"] = "idle"

Ack ==
  /\ MayAck
  /\ Settle(cur[1], "acked")
  /\ Done
  /\ UNCHANGED <<deliveries, inbox, main, matVars, history>>

-----------------------------------------------------------------------------
(* The materializer's goroutine *)

Materialize ==
  /\ Mat!Run
  /\ \/ /\ loop \in {"insert", "drainInsert"} /\ batch' = <<>>  \* an error
        /\ refused' = refused \cup Range(batch)
     \/ /\ loop \notin {"insert", "drainInsert"} \/ batch' # <<>>
        /\ UNCHANGED refused
  /\ UNCHANGED <<queueVars, main, killed, leftBehind>>

-----------------------------------------------------------------------------
(* main *)

(* cc.Stop drops what the callback has not been given; a callback in       *)
(* progress goes on.                                                       *)
StopConsumer ==
  /\ main = "running"
  /\ main' = "consumerStopped"
  /\ inbox' = <<>>
  /\ UNCHANGED <<status, deliveries, handler, cur, matVars, history>>

StopMaterializer ==
  /\ main = "consumerStopped"
  /\ main' = "draining"
  /\ Mat!Stop
  /\ UNCHANGED <<queueVars, history>>

(* Ops that only the memory of the process holds. *)
InMemory == Range(Mat!InFlight) \cup Range(buffer)
Acked == {m \in Good : status[m] = "acked"}
Dying == (Acked \cap InMemory) \ stored

(* The process is gone, and with it everything but stream and database.    *)
Die ==
  /\ main' = "down"
  /\ inbox' = <<>> /\ handler' = "idle" /\ cur' = <<>>
  /\ buffer' = <<>> /\ timer' = "stopped" /\ flushCh' = 0
  /\ stopCh' = "open" /\ loop' = "select" /\ batch' = <<>>
  /\ pusher' = [p \in {"callback"} |-> "idle"]
  /\ accepted' = <<>> /\ handled' = <<>> /\ stopMark' = 0
  /\ UNCHANGED <<status, deliveries, stored, refused>>

(* Stop has returned; nothing waits for the callback. *)
Exit ==
  /\ main = "draining"
  /\ loop = "done"
  /\ Die
  /\ leftBehind' = leftBehind \cup Dying
  /\ UNCHANGED killed

Kill ==
  /\ main # "down"
  /\ Die
  /\ killed' = killed \cup Dying
  /\ UNCHANGED leftBehind

Start ==
  /\ main = "down"
  /\ main' = "running"
  /\ UNCHANGED <<queueVars, matVars, history>>

Callback == Take \/ Reject \/ Push \/ Signal \/ Ack

WorkerNext ==
  \/ \E m \in Msgs : Deliver(m) \/ AckWaitPasses(m)
  \/ Callback
  \/ Materialize
  \/ StopConsumer \/ StopMaterializer \/ Exit \/ Kill \/ Start

WorkerSpec == WorkerInit /\ [][WorkerNext]_workerVars

(* JetStream delivers and times out, goroutines are scheduled, InsertOps   *)
(* returns, a shutdown that has begun goes on.  Nobody has to stop, kill   *)
(* or start the worker.                                                    *)
WorkerFairness ==
  /\ \A m \in Msgs : WF_workerVars(Deliver(m)) /\ WF_workerVars(AckWaitPasses(m))
  /\ WF_workerVars(Callback)
  /\ WF_workerVars(Materialize)
  /\ SF_workerVars(Mat!SelectStop /\ Materialize)
  /\ WF_workerVars(StopMaterializer)
  /\ WF_workerVars(Exit)

FairWorkerSpec == WorkerSpec /\ WorkerFairness

-----------------------------------------------------------------------------
(* Properties *)

(* Types; no message is delivered more than MaxDeliver times, and the      *)
(* callback holds a message exactly while it is not idle.                  *)
WorkerTypeOK ==
  /\ status \in [Msgs -> {"ready", "pending", "acked"}]
  /\ deliveries \in [Msgs -> 0..MaxDeliver]
  /\ inbox \in Seq(Msgs)
  /\ handler \in {"idle", "got", "pushed"}
  /\ cur \in Seq(Msgs) /\ Len(cur) = (IF handler = "idle" THEN 0 ELSE 1)
  /\ main \in {"running", "consumerStopped", "draining", "down"}
  /\ Mat!TypeOK
  /\ refused \subseteq Good
  /\ killed \subseteq Good
  /\ leftBehind \subseteq Good

(* At-least-once, as far as the code goes: the op of an acknowledged       *)
(* message is stored or in memory, or it was in a refused batch, in memory *)
(* at a hard kill, or pushed behind the drain of a graceful exit.          *)
AckedAccountedFor ==
  Acked \subseteq stored \cup InMemory \cup refused \cup killed \cup leftBehind

(* No acknowledged op stays in memory for ever, through shutdowns, kills   *)
(* and restarts.                                                           *)
AckedLeavesMemory ==
  \A m \in Good :
    (m \in Acked) ~> (m \in stored \cup refused \cup killed \cup leftBehind)

(* A delivered op is handed to the store while the worker stays up: no bad  *)
(* message ahead of it, lost Ack or exhausted delivery blocks the callback. *)
DeliveredIsHandled ==
  \A m \in Good :
    (main = "running" /\ m \in Range(inbox))
      ~> (m \in Range(handled) \/ main # "running")

(* The shutdown sequence ends. *)
ShutdownCompletes == (main \in {"consumerStopped", "draining"}) ~> (main = "down")

-----------------------------------------------------------------------------
(* What documents say, and the code does not do *)

(* main.go: "Drain the materializer (flush remaining ops)", and the phase  *)
(* plan: "flush on graceful shutdown".  A graceful exit leaves no          *)
(* acknowledged op behind.                                                 *)
GracefulExitFlushes == leftBehind = {}

(* The phase plan: "a hard kill of the worker followed by a restart loses  *)
(* zero ops".                                                              *)
HardKillLosesNothing == killed \subseteq stored
=============================================================================
