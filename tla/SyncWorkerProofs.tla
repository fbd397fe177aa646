-------------------------- MODULE SyncWorkerProofs --------------------------
(***************************************************************************)
(* Proofs about the sync worker's process, for every set of messages,      *)
(* every MaxDeliver and every batch size: what is proved of the            *)
(* materializer alone also holds of the one in the process, through its    *)
(* shutdowns, kills and restarts, and no acknowledged op is lost in a way  *)
(* the specification does not name.                                        *)
(***************************************************************************)
EXTENDS SyncWorker, SequenceTheorems, TLAPS

(* The lemmas of MaterializerProofs about the materializer of the process. *)
P == INSTANCE MaterializerProofs
       WITH Ops <- Good, Pushers <- {"callback"},
            MaxPushes <- MaxDeliver * Cardinality(Msgs)

(* Both instances of Materializer are the same specification.              *)
LEMMA SameMaterializer ==
  /\ \A op \in Good : Mat!Push("callback", op) <=> P!Push("callback", op)
  /\ Mat!Signal("callback") <=> P!Signal("callback")
  /\ Mat!Stop <=> P!Stop
  /\ Mat!Run <=> P!Run
  /\ Mat!Init <=> P!Init
  /\ Mat!vars = P!vars
  /\ Mat!TypeOK <=> P!TypeOK
  /\ Mat!NoLostWakeup <=> P!NoLostWakeup
  /\ Mat!FifoHandover <=> P!FifoHandover
  /\ Mat!DrainedByStop <=> P!DrainedByStop
  /\ Mat!InFlight = P!InFlight
<1>1. \A op \in Good : Mat!Push("callback", op) <=> P!Push("callback", op)
  BY DEF Mat!Push, P!Push, Mat!ArmsTimer, P!ArmsTimer
<1>2. Mat!Signal("callback") <=> P!Signal("callback")
  BY DEF Mat!Signal, P!Signal, Mat!TrySend, P!TrySend
<1>3. Mat!Stop <=> P!Stop
  BY DEF Mat!Stop, P!Stop
<1>4. Mat!Run <=> P!Run
  <2>1. /\ Mat!SelectFlushCh <=> P!SelectFlushCh
        /\ Mat!SelectTimer <=> P!SelectTimer
        /\ Mat!SelectStop <=> P!SelectStop
    BY DEF Mat!SelectFlushCh, P!SelectFlushCh, Mat!SelectTimer, P!SelectTimer,
           Mat!SelectStop, P!SelectStop
  <2>2. /\ Mat!Take <=> P!Take
        /\ Mat!DrainTake <=> P!DrainTake
    BY DEF Mat!Take, P!Take, Mat!DrainTake, P!DrainTake, Mat!TakeBuffer,
           P!TakeBuffer, Mat!Taken, P!Taken
  <2>3. /\ Mat!Insert <=> P!Insert
        /\ Mat!DrainInsert <=> P!DrainInsert
    BY DEF Mat!Insert, P!Insert, Mat!DrainInsert, P!DrainInsert,
           Mat!InsertOps, P!InsertOps, Mat!Rows, P!Rows, Mat!Range, P!Range
  <2>4. /\ Mat!Report <=> P!Report
        /\ Mat!Exit <=> P!Exit
    BY DEF Mat!Report, P!Report, Mat!Exit, P!Exit
  <2> QED
    BY <2>1, <2>2, <2>3, <2>4, Zenon DEF Mat!Run, P!Run
<1>5. /\ Mat!Init <=> P!Init
      /\ Mat!vars = P!vars
  BY DEF Mat!Init, P!Init, Mat!vars, P!vars
<1>6. Mat!TypeOK <=> P!TypeOK
  BY DEF Mat!TypeOK, P!TypeOK, Mat!LoopStates, P!LoopStates
<1>7. Mat!NoLostWakeup <=> P!NoLostWakeup
  BY DEF Mat!NoLostWakeup, P!NoLostWakeup, Mat!WakeupPending, P!WakeupPending
<1>8. Mat!InFlight = P!InFlight
  BY DEF Mat!InFlight, P!InFlight
<1>9. Mat!FifoHandover <=> P!FifoHandover
  BY <1>8 DEF Mat!FifoHandover, P!FifoHandover
<1>10. Mat!DrainedByStop <=> P!DrainedByStop
  BY DEF Mat!DrainedByStop, P!DrainedByStop
<1> QED
  BY <1>1, <1>2, <1>3, <1>4, <1>5, <1>6, <1>7, <1>8, <1>9, <1>10, Zenon

(* What Die does to the materializer: New, but for the rows stored.        *)
Renewed ==
  /\ buffer' = <<>> /\ timer' = "stopped" /\ flushCh' = 0
  /\ stopCh' = "open" /\ loop' = "select" /\ batch' = <<>>
  /\ pusher' = [p \in {"callback"} |-> "idle"]
  /\ accepted' = <<>> /\ handled' = <<>> /\ stopMark' = 0
  /\ UNCHANGED stored

(* A step of the process is a step of its materializer, or none, or the    *)
(* end of it.                                                              *)
LEMMA WorkerStepsMaterializer ==
  [WorkerNext]_workerVars => [P!Next]_(P!vars) \/ Renewed
<1> SUFFICES ASSUME [WorkerNext]_workerVars
             PROVE  P!Next \/ UNCHANGED P!vars \/ Renewed
  OBVIOUS
<1>m. UNCHANGED matVars => UNCHANGED P!vars
  BY DEF matVars, P!vars
<1>1. ASSUME NEW m \in Msgs, Deliver(m) \/ AckWaitPasses(m)
      PROVE  UNCHANGED P!vars
  BY <1>1, <1>m DEF Deliver, AckWaitPasses
<1>2. CASE Take \/ Reject \/ Ack
  BY <1>2, <1>m DEF Take, Reject, Ack
<1>3. CASE Push
  BY <1>3, SameMaterializer DEF Push, P!Next
<1>4. CASE Signal
  BY <1>4, SameMaterializer DEF Signal, P!Next
<1>5. CASE Materialize
  BY <1>5, SameMaterializer DEF Materialize, P!Next
<1>6. CASE StopConsumer \/ Start
  BY <1>6, <1>m DEF StopConsumer, Start
<1>7. CASE StopMaterializer
  BY <1>7, SameMaterializer DEF StopMaterializer, P!Next
<1>8. CASE Exit \/ Kill
  BY <1>8 DEF Exit, Kill, Die, Renewed
<1>9. CASE UNCHANGED workerVars
  BY <1>9, <1>m DEF workerVars
<1> QED
  BY <1>1, <1>2, <1>3, <1>4, <1>5, <1>6, <1>7, <1>8, <1>9
  DEF WorkerNext, Callback

(* The assumption the lemmas rest on.                                      *)
LEMMA BatchSizeIsPositive == BatchSize \in Nat \ {0}
BY SyncWorkerAssumption

(* The materializer of a process that starts.                              *)
LEMMA MatInit == P!Init => P!TypeOK /\ P!NoLostWakeup /\ P!FifoHandover /\ P!StopInv
<1> SUFFICES ASSUME P!Init
             PROVE  P!TypeOK /\ P!NoLostWakeup /\ P!FifoHandover /\ P!StopInv
  OBVIOUS
<1> USE DEF P!Init
<1>1. P!TypeOK
  BY EmptySeq DEF P!TypeOK, P!LoopStates
<1>2. <<>> \o (<<>> \o <<>>) = <<>> /\ P!InFlight = <<>>
  BY EmptySeq, ConcatEmptySeq DEF P!InFlight
<1> QED
  BY <1>1, <1>2, EmptySeq DEF P!NoLostWakeup, P!FifoHandover, P!StopInv

(* The same after Die.                                                     *)
LEMMA MatRenewed ==
  ASSUME P!TypeOK, Renewed
  PROVE  P!TypeOK' /\ P!NoLostWakeup' /\ P!FifoHandover' /\ P!StopInv'
<1> USE DEF Renewed
<1>1. P!TypeOK'
  BY EmptySeq DEF P!TypeOK, P!LoopStates
<1>2. <<>> \o (<<>> \o <<>>) = <<>> /\ P!InFlight' = <<>>
  BY EmptySeq, ConcatEmptySeq DEF P!InFlight
<1> QED
  BY <1>1, <1>2, EmptySeq DEF P!NoLostWakeup, P!FifoHandover, P!StopInv

(* What MaterializerProofs shows of the materializer, of the process.      *)
LEMMA MaterializerInv ==
  WorkerSpec => [](P!TypeOK /\ P!NoLostWakeup /\ P!FifoHandover /\ P!StopInv)
<1> DEFINE Inv == P!TypeOK /\ P!NoLostWakeup /\ P!FifoHandover /\ P!StopInv
<1>1. WorkerInit => Inv
  BY MatInit, SameMaterializer DEF WorkerInit
<1>2. Inv /\ [WorkerNext]_workerVars => Inv'
  <2>1. Inv /\ [P!Next]_(P!vars) => Inv'
    BY P!TypeStep, P!WakeupStep, P!HandoverStep, P!StopStep,
       BatchSizeIsPositive
  <2> QED
    BY <2>1, WorkerStepsMaterializer, MatRenewed
<1> QED
  BY <1>1, <1>2, PTL DEF WorkerSpec

(* No lost wake-up, exact hand-over in the order of the lock and a Stop    *)
(* that drains, in the process with its kills and restarts: the callback   *)
(* is the one pusher, and what a process took over is counted from its     *)
(* start.                                                                  *)
THEOREM WorkerMaterializes ==
  WorkerSpec => [](Mat!NoLostWakeup /\ Mat!FifoHandover /\ Mat!DrainedByStop)
<1>1. P!TypeOK /\ P!NoLostWakeup /\ P!FifoHandover /\ P!StopInv
        => Mat!NoLostWakeup /\ Mat!FifoHandover /\ Mat!DrainedByStop
  BY SameMaterializer DEF P!StopInv, P!DrainedByStop
<1> QED
  BY <1>1, MaterializerInv, PTL

-----------------------------------------------------------------------------
(* Types of the process itself.                                            *)
ProcessTypeOK ==
  /\ status \in [Msgs -> {"ready", "pending", "acked"}]
  /\ deliveries \in [Msgs -> 0..MaxDeliver]
  /\ inbox \in Seq(Msgs)
  /\ handler \in {"idle", "got", "pushed"}
  /\ cur \in Seq(Msgs) /\ Len(cur) = (IF handler = "idle" THEN 0 ELSE 1)
  /\ main \in {"running", "consumerStopped", "draining", "down"}
  /\ refused \subseteq Good
  /\ killed \subseteq Good
  /\ leftBehind \subseteq Good

(* A callback at work holds one message.                                   *)
LEMMA HeldMessage ==
  ASSUME ProcessTypeOK, handler # "idle"
  PROVE  cur[1] \in Msgs
<1>1. cur \in Seq(Msgs) /\ Len(cur) = 1
  BY DEF ProcessTypeOK
<1> QED
  BY <1>1, ElementOfSeq

(* An acknowledgement that arrives or not keeps the type of status.        *)
LEMMA SettleType ==
  ASSUME ProcessTypeOK, NEW m \in Msgs, NEW to \in {"ready", "acked"},
         Settle(m, to)
  PROVE  status' \in [Msgs -> {"ready", "pending", "acked"}]
BY DEF Settle, ProcessTypeOK

(* Every step keeps the types.                                             *)
LEMMA ProcessTypeStep ==
  ProcessTypeOK /\ P!TypeOK /\ [WorkerNext]_workerVars => ProcessTypeOK'
<1> SUFFICES ASSUME ProcessTypeOK, P!TypeOK, [WorkerNext]_workerVars
             PROVE  ProcessTypeOK'
  OBVIOUS
<1>e. <<>> \in Seq(Msgs) /\ Len(<<>>) = 0
  BY EmptySeq
<1>g. /\ Range(batch) \subseteq Good
      /\ stored \subseteq Good
      /\ Acked \subseteq Good
  <2>1. batch \in Seq(Good)
    BY DEF P!TypeOK
  <2> QED
    BY <2>1, RangeOfSeq DEF Acked, P!TypeOK
<1> USE DEF ProcessTypeOK
<1>1. ASSUME NEW m \in Msgs, Deliver(m)
      PROVE  ProcessTypeOK'
  <2>1. deliveries' \in [Msgs -> 0..MaxDeliver]
    <3>1. deliveries[m] + 1 \in 0..MaxDeliver
      BY <1>1, SyncWorkerAssumption DEF Deliver, Deliverable
    <3> QED
      BY <1>1, <3>1 DEF Deliver
  <2>2. inbox' \in Seq(Msgs)
    BY <1>1, AppendProperties DEF Deliver
  <2> QED
    BY <1>1, <2>1, <2>2 DEF Deliver, matVars, history
<1>2. ASSUME NEW m \in Msgs, AckWaitPasses(m)
      PROVE  ProcessTypeOK'
  BY <1>2 DEF AckWaitPasses, matVars, history
<1>3. CASE Take
  <2>1. Head(inbox) \in Msgs /\ Tail(inbox) \in Seq(Msgs)
    BY <1>3, HeadTailProperties DEF Take
  <2>2. cur' \in Seq(Msgs) /\ Len(cur') = 1
    BY <1>3, <2>1 DEF Take
  <2> QED
    BY <1>3, <2>1, <2>2 DEF Take, matVars, history
<1>4. CASE Reject \/ Ack
  <2>1. cur[1] \in Msgs
    BY <1>4, HeldMessage DEF Reject, Ack, MayAck
  <2>2. status' \in [Msgs -> {"ready", "pending", "acked"}]
    BY <1>4, <2>1, SettleType DEF Reject, Ack
  <2>3. /\ handler' = "idle" /\ cur' = <<>>
        /\ UNCHANGED <<deliveries, inbox, main, refused, killed, leftBehind>>
    BY <1>4 DEF Reject, Ack, Done, history
  <2> QED
    BY <1>e, <2>2, <2>3
<1>5. CASE Push \/ Signal
  BY <1>5 DEF Push, Signal, queueVars, history
<1>6. CASE Materialize
  <2>1. refused' \subseteq Good
    BY <1>6, <1>g DEF Materialize
  <2> QED
    BY <1>6, <2>1 DEF Materialize, queueVars
<1>7. CASE StopConsumer \/ StopMaterializer \/ Start
  BY <1>7, <1>e DEF StopConsumer, StopMaterializer, Start, queueVars, history
<1>8. CASE Exit \/ Kill
  <2>1. killed' \subseteq Good /\ leftBehind' \subseteq Good
    BY <1>8, <1>g DEF Exit, Kill, Dying
  <2> QED
    BY <1>8, <1>e, <2>1 DEF Exit, Kill, Die
<1>9. CASE UNCHANGED workerVars
  BY <1>9 DEF workerVars, queueVars, history
<1> QED
  BY <1>1, <1>2, <1>3, <1>4, <1>5, <1>6, <1>7, <1>8, <1>9
  DEF WorkerNext, Callback

(* The types of the process in every reachable state.                      *)
LEMMA ProcessTypeCorrect == WorkerSpec => []ProcessTypeOK
<1>1. WorkerInit => ProcessTypeOK
  BY EmptySeq, SyncWorkerAssumption DEF WorkerInit, ProcessTypeOK
<1> QED
  BY <1>1, ProcessTypeStep, MaterializerInv, PTL DEF WorkerSpec

(* The type invariant of the process: no message is delivered more than    *)
(* MaxDeliver times and the callback holds a message exactly while it is   *)
(* not idle, whatever is killed and started again.                         *)
THEOREM WorkerTypeCorrect == WorkerSpec => []WorkerTypeOK
<1>1. ProcessTypeOK /\ P!TypeOK => WorkerTypeOK
  BY SameMaterializer DEF ProcessTypeOK, WorkerTypeOK
<1> QED
  BY <1>1, ProcessTypeCorrect, MaterializerInv, PTL

-----------------------------------------------------------------------------
(* Where an op of the running process may be, or where it was lost.        *)
Kept == stored \cup InMemory \cup refused

(* AckedAccountedFor is not inductive: an acknowledgement is sent after    *)
(* Push has returned, so the op the callback has pushed must be known to   *)
(* be kept before it becomes an acknowledged one.                          *)
AckInv ==
  /\ AckedAccountedFor
  /\ handler = "pushed" => cur[1] \in Good /\ cur[1] \in Kept

(* Appending to a sequence of messages adds to its range.                  *)
LEMMA RangeAppend ==
  ASSUME NEW s \in Seq(Good), NEW op \in Good
  PROVE  Range(Append(s, op)) = Range(s) \cup {op}
<1>1. /\ Append(s, op) \in Seq(Good)
      /\ Len(Append(s, op)) = Len(s) + 1 /\ Len(s) \in Nat
      /\ \A i \in 1..Len(s) : Append(s, op)[i] = s[i]
      /\ Append(s, op)[Len(s) + 1] = op
  BY AppendProperties, LenProperties
<1>2. /\ DOMAIN s = 1..Len(s)
      /\ DOMAIN Append(s, op) = 1..(Len(s) + 1)
  BY <1>1, LenProperties
<1>3. 1..(Len(s) + 1) = (1..Len(s)) \cup {Len(s) + 1}
  BY <1>1
<1> QED
  BY <1>1, <1>2, <1>3 DEF Range

(* The goroutine loses no op of the process but to a refused batch.        *)
LEMMA MaterializeKeeps ==
  ASSUME Materialize
  PROVE  Kept \subseteq Kept'
<1> USE DEF InMemory, Mat!InFlight
<1>0. Range(<<>>) = {}
  BY DEF Range
<1>1. CASE Mat!SelectFlushCh \/ Mat!SelectTimer \/ Mat!SelectStop \/ Mat!Exit
  BY <1>1 DEF Mat!SelectFlushCh, Mat!SelectTimer, Mat!SelectStop, Mat!Exit,
              Materialize, Kept
<1>2. CASE Mat!Take \/ Mat!DrainTake
  <2>1. /\ Mat!InFlight = <<>> /\ Mat!InFlight' = buffer
        /\ UNCHANGED stored
    BY <1>2 DEF Mat!Take, Mat!DrainTake, Mat!TakeBuffer, Mat!Taken
  <2>2. refused \subseteq refused'
    BY DEF Materialize
  <2> QED
    BY <1>0, <2>1, <2>2 DEF Kept
<1>3. CASE Mat!Insert \/ Mat!DrainInsert
  <2>1. /\ Mat!InFlight = batch /\ UNCHANGED buffer
        /\ stored \subseteq stored'
        /\ batch' = <<>> \/ stored' = stored \cup Range(batch)
        /\ loop \in {"insert", "drainInsert"}
    BY <1>3 DEF Mat!Insert, Mat!DrainInsert, Mat!InsertOps, Mat!Rows,
                Mat!Range, Range
  <2>2. \/ refused' = refused \cup Range(batch)
        \/ batch' # <<>> /\ refused' = refused
    BY <2>1 DEF Materialize
  <2>3. Range(batch) \subseteq stored' \cup refused' /\ refused \subseteq refused'
    BY <2>1, <2>2
  <2> QED
    BY <2>1, <2>3 DEF Kept
<1>4. CASE Mat!Report
  BY <1>4 DEF Mat!Report, Materialize, Kept
<1> QED
  BY <1>1, <1>2, <1>3, <1>4 DEF Materialize, Mat!Run

(* Every step keeps the strengthening.                                     *)
LEMMA AckStep ==
  ProcessTypeOK /\ P!TypeOK /\ AckInv /\ [WorkerNext]_workerVars => AckInv'
<1> SUFFICES ASSUME ProcessTypeOK, P!TypeOK, AckInv, [WorkerNext]_workerVars
             PROVE  AckInv'
  OBVIOUS
<1>t. /\ status \in [Msgs -> {"ready", "pending", "acked"}]
      /\ Good \subseteq Msgs
  BY DEF ProcessTypeOK, Msgs
<1>k. ASSUME UNCHANGED matVars, UNCHANGED refused
      PROVE  Kept' = Kept
  BY <1>k DEF matVars, Kept, InMemory, Mat!InFlight
<1>s. ASSUME NEW m, NEW to, to # "acked", status' = [status EXCEPT ![m] = to]
      PROVE  Acked' \subseteq Acked
  BY <1>s, <1>t DEF Acked
<1> USE DEF AckInv, AckedAccountedFor
<1>i. AckInv <=> /\ Acked \subseteq Kept \cup killed \cup leftBehind
                 /\ handler = "pushed" => cur[1] \in Good /\ cur[1] \in Kept
  BY DEF Kept
<1>j. AckInv' <=> /\ Acked' \subseteq Kept' \cup killed' \cup leftBehind'
                  /\ handler' = "pushed" => cur'[1] \in Good /\ cur'[1] \in Kept'
  BY DEF Kept
<1>1. ASSUME NEW m \in Msgs, Deliver(m) \/ AckWaitPasses(m)
      PROVE  AckInv'
  <2>1. Acked' \subseteq Acked
    BY <1>1, <1>s DEF Deliver, AckWaitPasses
  <2>2. /\ Kept' = Kept
        /\ UNCHANGED <<handler, cur, killed, leftBehind>>
    BY <1>1, <1>k DEF Deliver, AckWaitPasses, history
  <2> QED
    BY <2>1, <2>2, <1>i, <1>j
<1>2. CASE Take
  BY <1>2, <1>k, <1>i, <1>j DEF Take, Acked, history
<1>3. CASE Reject
  <2>1. Acked' \subseteq Acked
    BY <1>3, <1>s DEF Reject, Settle, Acked
  <2>2. /\ Kept' = Kept
        /\ UNCHANGED <<killed, leftBehind>> /\ handler' = "idle"
    BY <1>3, <1>k DEF Reject, Done, history
  <2> QED
    BY <2>1, <2>2, <1>i, <1>j
<1>4. CASE Push
  <2>1. PICK op \in Good : cur = <<op>> /\ Mat!Push("callback", op)
    BY <1>4 DEF Push
  <2>2. InMemory' = InMemory \cup {op}
    <3>1. Range(buffer') = Range(buffer) \cup {op}
      BY <2>1, RangeAppend DEF Mat!Push, P!TypeOK
    <3>2. Mat!InFlight' = Mat!InFlight
      BY <2>1 DEF Mat!Push, Mat!InFlight
    <3> QED
      BY <3>1, <3>2 DEF InMemory
  <2>3. Kept' = Kept \cup {op}
    BY <1>4, <2>1, <2>2 DEF Push, Mat!Push, history, Kept
  <2>4. cur'[1] = op /\ Acked' = Acked /\ UNCHANGED <<killed, leftBehind>>
    BY <1>4, <2>1 DEF Push, Acked, history
  <2> QED
    BY <2>3, <2>4, <1>i, <1>j
<1>5. CASE Signal
  <2>1. /\ Kept' = Kept /\ Acked' = Acked
        /\ UNCHANGED <<handler, cur, killed, leftBehind>>
    BY <1>5 DEF Signal, Mat!Signal, Kept, InMemory, Mat!InFlight, Acked,
                queueVars, history
  <2> QED
    BY <2>1, <1>i, <1>j
<1>6. CASE Ack
  <2>1. Acked' \subseteq Acked \cup {cur[1]}
    BY <1>6, <1>t DEF Ack, Settle, Acked
  <2>2. cur[1] \in Kept
    BY <1>6 DEF Ack, MayAck
  <2>3. /\ Kept' = Kept
        /\ UNCHANGED <<killed, leftBehind>> /\ handler' = "idle"
    BY <1>6, <1>k DEF Ack, Done, history
  <2> QED
    BY <2>1, <2>2, <2>3, <1>i, <1>j
<1>7. CASE Materialize
  <2>1. Kept \subseteq Kept'
    BY <1>7, MaterializeKeeps
  <2>2. Acked' = Acked /\ UNCHANGED <<handler, cur, killed, leftBehind>>
    BY <1>7 DEF Materialize, Acked, queueVars
  <2> QED
    BY <2>1, <2>2, <1>i, <1>j
<1>8. CASE StopConsumer \/ Start
  <2>1. /\ Kept' = Kept /\ Acked' = Acked
        /\ UNCHANGED <<handler, cur, killed, leftBehind>>
    BY <1>8, <1>k DEF StopConsumer, Start, Acked, queueVars, history
  <2> QED
    BY <2>1, <1>i, <1>j
<1>9. CASE StopMaterializer
  <2>1. /\ Kept' = Kept /\ Acked' = Acked
        /\ UNCHANGED <<handler, cur, killed, leftBehind>>
    BY <1>9 DEF StopMaterializer, Mat!Stop, Kept, InMemory, Mat!InFlight,
                Acked, queueVars, history
  <2> QED
    BY <2>1, <1>i, <1>j
<1>10. CASE Exit \/ Kill
  <2>1. /\ Acked' = Acked /\ UNCHANGED <<stored, refused>>
        /\ handler' = "idle"
        /\ killed' \cup leftBehind' = killed \cup leftBehind \cup Dying
    BY <1>10 DEF Exit, Kill, Die, Acked
  <2> QED
    BY <2>1, <1>i, <1>j DEF Kept, Dying
<1>11. CASE UNCHANGED workerVars
  <2>1. /\ Kept' = Kept /\ Acked' = Acked
        /\ UNCHANGED <<handler, cur, killed, leftBehind>>
    BY <1>11, <1>k DEF workerVars, Acked, queueVars, history
  <2> QED
    BY <2>1, <1>i, <1>j
<1> QED
  BY <1>1, <1>2, <1>3, <1>4, <1>5, <1>6, <1>7, <1>8, <1>9, <1>10, <1>11
  DEF WorkerNext, Callback

(* At-least-once, as far as the code goes: through every interleaving of   *)
(* the callback, the goroutine, redeliveries, shutdowns, kills and         *)
(* restarts, an acknowledged op is stored, in memory, or lost in one of    *)
(* the three ways the specification names.                                 *)
THEOREM AckedNeverVanishes == WorkerSpec => []AckedAccountedFor
<1>1. WorkerInit => AckInv
  BY DEF WorkerInit, AckInv, AckedAccountedFor, Acked, Msgs
<1>2. AckInv => AckedAccountedFor
  BY DEF AckInv
<1> QED
  BY <1>1, <1>2, AckStep, ProcessTypeCorrect, MaterializerInv, PTL DEF WorkerSpec
=============================================================================
