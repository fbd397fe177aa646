---------------------------- MODULE Materializer ----------------------------
(***************************************************************************)
(* workers/sync/internal/materialize/materialize.go: the batched writer of *)
(* the CRDT sync worker.                                                   *)
(*                                                                         *)
(* Callers Push ops into a mutex-guarded buffer; one goroutine (run)       *)
(* selects over the flush signal, the flush timer and the stop channel and *)
(* writes the buffer to the Store.  Nothing blocks a caller, so the buffer *)
(* has no capacity; the risk is a buffer that no wake-up is pending for.   *)
(*                                                                         *)
(* Steps are the critical sections and channel operations of the code:     *)
(*   Push      the locked part of Push, then Signal outside the lock;      *)
(*   run       one select case, then flush or drain cut at InsertOps.      *)
(* A timer is armed or not: since Go 1.23 Stop and Reset discard a value   *)
(* that has not been received, so "expired but unread" is an armed timer   *)
(* whose receive has not happened yet.  The three counters the struct      *)
(* exposes for observability are left out.                                 *)
(***************************************************************************)
EXTENDS Naturals, Sequences, Functions

CONSTANTS Ops,        \* op records
          Pushers,    \* goroutines that call Push
          BatchSize,  \* WithBatchSize
          MaxPushes   \* bound on the number of Push calls of a behaviour

ASSUME MaterializerAssumption == BatchSize \in Nat \ {0}

VARIABLES
  buffer,    \* m.buffer
  timer,     \* m.timer: "stopped" or "armed"
  flushCh,   \* signals in the flush channel, whose capacity is one
  stopCh,    \* m.stopCh: "open" or "closed"
  loop,      \* where the run goroutine is
  batch,     \* the local batch of flush and drain
  pusher,    \* "signal": past the lock, before the send on flushCh
  stored,    \* op ids the Store holds (op_id is its primary key)
  accepted,  \* history: every Push, in the order of the lock
  handled,   \* history: every op handed to InsertOps, stored or not
  stopMark   \* history: how many ops Stop found accepted

vars == <<buffer, timer, flushCh, stopCh, loop, batch, pusher, stored,
          accepted, handled, stopMark>>

LoopStates == {"select", "take", "insert", "report", "drain", "drainInsert",
               "drainReport", "exit", "done"}

(* New: the timer is created and stopped, the goroutine starts. *)
Init ==
  /\ buffer = <<>>
  /\ timer = "stopped"
  /\ flushCh = 0
  /\ stopCh = "open"
  /\ loop = "select"
  /\ batch = <<>>
  /\ pusher = [p \in Pushers |-> "idle"]
  /\ stored = {}
  /\ accepted = <<>>
  /\ handled = <<>>
  /\ stopMark = 0

-----------------------------------------------------------------------------
(* Callers *)

NeverArms(buf) == FALSE  \* mutant: the first buffered op starts no timer

(* Only the first op of a buffer (re)starts the flush timer. *)
ArmsTimer(buf) == buf = <<>>

(* Push up to m.mu.Unlock: a full buffer stops the timer and will signal. *)
Push(p, op) ==
  /\ pusher[p] = "idle"
  /\ Len(accepted) < MaxPushes
  /\ buffer' = Append(buffer, op)
  /\ accepted' = Append(accepted, op)
  /\ \/ /\ Len(buffer) + 1 >= BatchSize
        /\ timer' = "stopped"
        /\ pusher' = [pusher EXCEPT ![p] = "signal"]
     \/ /\ Len(buffer) + 1 < BatchSize
        /\ timer' = IF ArmsTimer(buffer) THEN "armed" ELSE timer
        /\ UNCHANGED pusher
  /\ UNCHANGED <<flushCh, stopCh, loop, batch, stored, handled, stopMark>>

BlindSend(ch) == ch + 1  \* mutant: a send that does not respect the capacity

(* select { case m.flushCh <- struct{}{}: default: } *)
TrySend(ch) == IF ch = 0 THEN 1 ELSE ch

Signal(p) ==
  /\ pusher[p] = "signal"
  /\ pusher' = [pusher EXCEPT ![p] = "idle"]
  /\ flushCh' = TrySend(flushCh)
  /\ UNCHANGED <<buffer, timer, stopCh, loop, batch, stored, accepted,
                 handled, stopMark>>

(* Stop closes stopCh (a second close would panic: main calls it once). *)
Stop ==
  /\ stopCh = "open"
  /\ stopCh' = "closed"
  /\ stopMark' = Len(accepted)
  /\ UNCHANGED <<buffer, timer, flushCh, loop, batch, pusher, stored,
                 accepted, handled>>

-----------------------------------------------------------------------------
(* The run goroutine *)

SelectFlushCh ==
  /\ loop = "select"
  /\ flushCh > 0
  /\ flushCh' = flushCh - 1
  /\ loop' = "take"
  /\ UNCHANGED <<buffer, timer, stopCh, batch, pusher, stored, accepted,
                 handled, stopMark>>

SelectTimer ==
  /\ loop = "select"
  /\ timer = "armed"
  /\ timer' = "stopped"
  /\ loop' = "take"
  /\ UNCHANGED <<buffer, flushCh, stopCh, batch, pusher, stored, accepted,
                 handled, stopMark>>

SelectStop ==
  /\ loop = "select"
  /\ stopCh = "closed"
  /\ loop' = "drain"
  /\ UNCHANGED <<buffer, timer, flushCh, stopCh, batch, pusher, stored,
                 accepted, handled, stopMark>>

(* mutant: takes BatchSize ops only *)
OneBatch(buf) == IF Len(buf) > BatchSize THEN SubSeq(buf, 1, BatchSize) ELSE buf

(* The batch is the whole buffer, however far past BatchSize it has grown. *)
Taken(buf) == buf

(* The locked head of flush and of drain. *)
TakeBuffer(from, ifEmpty, ifTaken) ==
  /\ loop = from
  /\ batch' = Taken(buffer)
  /\ buffer' = <<>>
  /\ loop' = IF buffer = <<>> THEN ifEmpty ELSE ifTaken
  /\ UNCHANGED <<timer, flushCh, stopCh, pusher, stored, accepted, handled,
                 stopMark>>

Take == TakeBuffer("take", "select", "insert")

DrainForgets == TakeBuffer("drain", "exit", "exit")    \* mutant: no InsertOps
DrainReturns == TakeBuffer("drain", "select", "drainInsert")  \* mutant: back to select

DrainTake == TakeBuffer("drain", "exit", "drainInsert")

FirstRow(b) == {b[1]}  \* mutant: the rows of a batch are not one transaction

(* What a committed InsertOps adds to the store. *)
Rows(b) == Range(b)

(* InsertOps is one transaction.  It commits, or it returns an error; the  *)
(* error of a commit whose answer was lost leaves the rows in place.  An   *)
(* errored batch is neither kept nor put back.                             *)
InsertOps(from, ifOk, ifError) ==
  /\ loop = from
  /\ handled' = handled \o batch
  /\ \/ /\ stored' = stored \cup Rows(batch)
        /\ loop' = ifOk
        /\ UNCHANGED batch
     \/ /\ stored' \in {stored, stored \cup Rows(batch)}
        /\ loop' = ifError
        /\ batch' = <<>>
  /\ UNCHANGED <<buffer, timer, flushCh, stopCh, pusher, accepted, stopMark>>

(* flush returns on an error without re-arming the timer. *)
Insert == InsertOps("insert", "report", "select")
DrainInsert == InsertOps("drainInsert", "drainReport", "exit")

(* The end of a successful flush: the onFlush callback gets the batch, and *)
(* the timer is armed again, without the lock and whatever the buffer      *)
(* holds by now.  drain only calls back.                                   *)
Report ==
  /\ \/ /\ loop = "report"
        /\ loop' = "select"
        /\ timer' = "armed"
     \/ /\ loop = "drainReport"
        /\ loop' = "exit"
        /\ UNCHANGED timer
  /\ batch' = <<>>
  /\ UNCHANGED <<buffer, flushCh, stopCh, pusher, stored, accepted, handled,
                 stopMark>>

(* The deferred close(doneCh) that Stop waits for. *)
Exit ==
  /\ loop = "exit"
  /\ loop' = "done"
  /\ UNCHANGED <<buffer, timer, flushCh, stopCh, batch, pusher, stored,
                 accepted, handled, stopMark>>

Run ==
  \/ SelectFlushCh \/ SelectTimer \/ SelectStop
  \/ Take \/ Insert \/ Report
  \/ DrainTake \/ DrainInsert \/ Exit

Next ==
  \/ \E p \in Pushers, op \in Ops : Push(p, op)
  \/ \E p \in Pushers : Signal(p)
  \/ Stop
  \/ Run

Spec == Init /\ [][Next]_vars

(* The goroutines are scheduled and InsertOps returns.  Callers may stop   *)
(* pushing and Stop may never be called.  A select with several ready      *)
(* cases chooses at random, so a stop that stays ready is chosen at last.  *)
Fairness ==
  /\ WF_vars(Run)
  /\ \A p \in Pushers : WF_vars(Signal(p))
  /\ SF_vars(SelectStop)

FairSpec == Spec /\ Fairness

-----------------------------------------------------------------------------
(* Properties *)

(* Every variable stays within its type; the flush channel never holds     *)
(* more than the one signal it was made for.                               *)
TypeOK ==
  /\ buffer \in Seq(Ops)
  /\ timer \in {"stopped", "armed"}
  /\ flushCh \in {0, 1}
  /\ stopCh \in {"open", "closed"}
  /\ loop \in LoopStates
  /\ batch \in Seq(Ops)
  /\ pusher \in [Pushers -> {"idle", "signal"}]
  /\ stored \in SUBSET Ops
  /\ accepted \in Seq(Ops)
  /\ handled \in Seq(Ops)
  /\ stopMark \in Nat

(* Something will make the run goroutine look at the buffer. *)
WakeupPending ==
  \/ timer = "armed"
  \/ flushCh = 1
  \/ \E p \in Pushers : pusher[p] = "signal"
  \/ loop \in {"take", "drain"}
  \/ stopCh = "closed"

(* No lost wake-up: ops in the buffer of a live materializer always have a *)
(* timer, a signal, a pusher about to signal or a flush on its way, in     *)
(* whatever order Push stops the timer and flush re-arms it.               *)
NoLostWakeup == buffer # <<>> /\ loop # "done" => WakeupPending

(* The ops between the buffer and the return of InsertOps. *)
InFlight == IF loop \in {"insert", "drainInsert"} THEN batch ELSE <<>>

(* The hand-over is exact: what callers pushed is, in order and without a  *)
(* gap or a repetition, what InsertOps was given, then the batch it is     *)
(* being given, then the buffer.                                           *)
FifoHandover == accepted = handled \o (InFlight \o buffer)

(* Stop drains: when doneCh closes, every op accepted before Stop was      *)
(* called has been handed to the store.                                    *)
DrainedByStop == loop = "done" => Len(handled) >= stopMark

(* An accepted op is handed to the store, by size, by timer or by drain,   *)
(* unless it was pushed behind the drain.                                  *)
EveryOpHandled ==
  \A k \in 1..MaxPushes :
    (Len(accepted) >= k) ~> (Len(handled) >= k \/ loop = "done")

(* Stop returns. *)
StopCompletes == (stopCh = "closed") ~> (loop = "done")

(* The buffer, the signals and the goroutine implement an ordered writer   *)
(* of whole batches.                                                       *)
Writer == INSTANCE OrderedWriter
            WITH queue <- InFlight \o buffer, closed <- (loop = "done")

ImplementsWriter == Writer!WriterSpec
=============================================================================
