------------------------- MODULE MaterializerProofs -------------------------
(***************************************************************************)
(* Proofs about the batched writer, for every set of ops, every set of     *)
(* pushers, every batch size and every bound on the number of pushes.      *)
(***************************************************************************)
EXTENDS Materializer, SequenceTheorems, TLAPS

(* Every step of the buffer, the channels and the goroutine keeps the      *)
(* types.  The invariants below have such a lemma each, for the process    *)
(* the materializer runs in to cite.                                       *)
LEMMA TypeStep == TypeOK /\ [Next]_vars => TypeOK'
<1> SUFFICES ASSUME TypeOK, [Next]_vars
             PROVE  TypeOK'
  OBVIOUS
<1> USE DEF TypeOK, LoopStates
<1>1. ASSUME NEW p \in Pushers, NEW op \in Ops, Push(p, op)
      PROVE  TypeOK'
  <2>1. buffer' \in Seq(Ops) /\ accepted' \in Seq(Ops)
    BY <1>1, AppendProperties DEF Push
  <2>2. timer' \in {"stopped", "armed"}
    BY <1>1 DEF Push
  <2>3. pusher' \in [Pushers -> {"idle", "signal"}]
    BY <1>1 DEF Push
  <2> QED
    BY <1>1, <2>1, <2>2, <2>3 DEF Push
<1>2. ASSUME NEW p \in Pushers, Signal(p)
      PROVE  TypeOK'
  BY <1>2 DEF Signal, TrySend
<1>3. CASE Stop
  <2>1. stopMark' \in Nat
    BY <1>3, LenProperties DEF Stop
  <2> QED
    BY <1>3, <2>1 DEF Stop
<1>4. CASE SelectFlushCh
  BY <1>4 DEF SelectFlushCh
<1>5. CASE SelectTimer \/ SelectStop \/ Exit
  BY <1>5 DEF SelectTimer, SelectStop, Exit
<1>6. CASE Report
  BY <1>6, EmptySeq DEF Report
<1>7. CASE Take
  BY <1>7, EmptySeq DEF Take, TakeBuffer, Taken
<1>8. CASE DrainTake
  BY <1>8, EmptySeq DEF DrainTake, TakeBuffer, Taken
<1>9. CASE Insert \/ DrainInsert
  <2>1. stored' \in SUBSET Ops
    BY <1>9, RangeOfSeq DEF Insert, DrainInsert, InsertOps, Rows
  <2>2. handled' \in Seq(Ops)
    <3>1. handled \o batch \in Seq(Ops)
      BY ConcatProperties
    <3> QED
      BY <1>9, <3>1 DEF Insert, DrainInsert, InsertOps
  <2>3. batch' \in Seq(Ops)
    BY <1>9, EmptySeq DEF Insert, DrainInsert, InsertOps
  <2>4. loop' \in LoopStates
    BY <1>9 DEF Insert, DrainInsert, InsertOps
  <2> QED
    BY <1>9, <2>1, <2>2, <2>3, <2>4 DEF Insert, DrainInsert, InsertOps
<1>10. CASE UNCHANGED vars
  BY <1>10 DEF vars
<1> QED
  BY <1>1, <1>2, <1>3, <1>4, <1>5, <1>6, <1>7, <1>8, <1>9, <1>10 DEF Next, Run

(* The type invariant of the materializer holds in every reachable state.  *)
THEOREM TypeCorrect == Spec => []TypeOK
<1>1. Init => TypeOK
  BY DEF Init, TypeOK, LoopStates
<1> QED
  BY <1>1, TypeStep, PTL DEF Spec

(* No step leaves ops in the buffer of a live materializer without a       *)
(* wake-up on its way.                                                     *)
LEMMA WakeupStep == TypeOK /\ NoLostWakeup /\ [Next]_vars => NoLostWakeup'
<1> USE DEF NoLostWakeup, WakeupPending
<1> SUFFICES ASSUME TypeOK, NoLostWakeup, [Next]_vars
             PROVE  NoLostWakeup'
  OBVIOUS
<1> USE DEF TypeOK
<1>1. ASSUME NEW p \in Pushers, NEW op \in Ops, Push(p, op)
      PROVE  NoLostWakeup'
  <2>1. CASE Len(buffer) + 1 >= BatchSize
    <3>1. pusher'[p] = "signal"
      BY <1>1, <2>1, MaterializerAssumption, LenProperties DEF Push
    <3> QED
      BY <3>1
  <2>2. CASE Len(buffer) + 1 < BatchSize /\ buffer = <<>>
    <3>1. timer' = "armed"
      BY <1>1, <2>2, MaterializerAssumption, EmptySeq DEF Push, ArmsTimer
    <3> QED
      BY <3>1
  <2>3. CASE Len(buffer) + 1 < BatchSize /\ buffer # <<>>
    <3>1. UNCHANGED <<timer, flushCh, pusher, loop, stopCh>>
      BY <1>1, <2>3, MaterializerAssumption, LenProperties
      DEF Push, ArmsTimer
    <3> QED
      BY <2>3, <3>1
  <2>4. Len(buffer) + 1 >= BatchSize \/ Len(buffer) + 1 < BatchSize
    BY <1>1 DEF Push
  <2> QED
    BY <2>1, <2>2, <2>3, <2>4
<1>2. ASSUME NEW p \in Pushers, Signal(p)
      PROVE  NoLostWakeup'
  BY <1>2 DEF Signal, TrySend
<1>3. CASE Stop
  BY <1>3 DEF Stop
<1>4. CASE SelectFlushCh \/ SelectTimer \/ SelectStop
  BY <1>4 DEF SelectFlushCh, SelectTimer, SelectStop
<1>5. CASE Take \/ DrainTake
  BY <1>5 DEF Take, DrainTake, TakeBuffer
<1>6. CASE Insert \/ DrainInsert \/ Report \/ Exit
  BY <1>6 DEF Insert, DrainInsert, InsertOps, Report, Exit
<1>7. CASE UNCHANGED vars
  BY <1>7 DEF vars
<1> QED
  BY <1>1, <1>2, <1>3, <1>4, <1>5, <1>6, <1>7 DEF Next, Run

(* No lost wake-up: whatever the interleaving of Push, Signal and the run  *)
(* goroutine, ops in the buffer always have a flush coming.                *)
THEOREM WakeupNeverLost == Spec => []NoLostWakeup
<1>1. Init => NoLostWakeup
  BY DEF Init, NoLostWakeup
<1> QED
  BY <1>1, WakeupStep, TypeCorrect, PTL DEF Spec

(* Moving the buffer into an empty batch, or the batch behind what was     *)
(* handled, leaves the concatenation of the three as it was.               *)
LEMMA HandoverMoves ==
  ASSUME NEW h \in Seq(Ops), NEW f \in Seq(Ops), NEW b \in Seq(Ops)
  PROVE  /\ h \o (<<>> \o b) = h \o (b \o <<>>)
         /\ h \o (f \o b) = (h \o f) \o (<<>> \o b)
<1>1. <<>> \o b = b /\ b \o <<>> = b
  BY ConcatEmptySeq
<1>2. h \o (f \o b) = (h \o f) \o b
  BY ConcatAssociative, SMTT(30)
<1> QED
  BY <1>1, <1>2

(* An op appended to the buffer is appended to the concatenation.          *)
PushMoved(h, f, b) ==
  \A op \in Ops : Append(h \o (f \o b), op) = h \o (f \o Append(b, op))

(* That holds of all sequences of ops.                                     *)
LEMMA PushMoves == \A h, f, b \in Seq(Ops) : PushMoved(h, f, b)
<1> USE DEF PushMoved
<1> TAKE h, f, b \in Seq(Ops)
<1> TAKE op \in Ops
<1>1. <<op>> \in Seq(Ops) /\ f \o b \in Seq(Ops) /\ h \o (f \o b) \in Seq(Ops)
  BY ConcatProperties
<1>2. Append(h \o (f \o b), op) = (h \o (f \o b)) \o <<op>>
  BY <1>1, AppendIsConcat
<1>3. (h \o (f \o b)) \o <<op>> = h \o ((f \o b) \o <<op>>)
  BY <1>1, ConcatAssociative
<1>4. (f \o b) \o <<op>> = f \o (b \o <<op>>)
  BY <1>1, ConcatAssociative
<1>5. b \o <<op>> = Append(b, op)
  BY AppendIsConcat
<1> QED
  BY <1>2, <1>3, <1>4, <1>5

(* What is in flight is a sequence of ops.                                 *)
LEMMA InFlightType == TypeOK => InFlight \in Seq(Ops)
BY EmptySeq DEF TypeOK, InFlight

(* Every step moves ops along the buffer, the batch and InsertOps without  *)
(* skipping, repeating or reordering any.                                  *)
LEMMA HandoverStep == TypeOK /\ FifoHandover /\ [Next]_vars => FifoHandover'
<1> SUFFICES ASSUME TypeOK, FifoHandover, [Next]_vars
             PROVE  FifoHandover'
  OBVIOUS
<1>t. /\ buffer \in Seq(Ops) /\ batch \in Seq(Ops) /\ handled \in Seq(Ops)
      /\ InFlight \in Seq(Ops)
  BY InFlightType DEF TypeOK
<1>u. PushMoved(handled, InFlight, buffer)
  BY <1>t, PushMoves
<1> USE DEF FifoHandover
<1>1. ASSUME NEW p \in Pushers, NEW op \in Ops, Push(p, op)
      PROVE  FifoHandover'
  <2>1. InFlight' = InFlight /\ handled' = handled
    BY <1>1 DEF Push, InFlight
  <2>2. accepted' = Append(accepted, op) /\ buffer' = Append(buffer, op)
    BY <1>1 DEF Push
  <2> QED
    BY <2>1, <2>2, <1>u DEF PushMoved
<1>2. ASSUME NEW p \in Pushers, Signal(p)
      PROVE  FifoHandover'
  BY <1>2 DEF Signal, InFlight
<1>3. CASE Stop
  BY <1>3 DEF Stop, InFlight
<1>4. CASE SelectFlushCh \/ SelectTimer \/ SelectStop \/ Report \/ Exit
  <2>1. InFlight' = InFlight
    BY <1>4 DEF SelectFlushCh, SelectTimer, SelectStop, Report, Exit, InFlight
  <2>2. UNCHANGED <<accepted, handled, buffer>>
    BY <1>4 DEF SelectFlushCh, SelectTimer, SelectStop, Report, Exit
  <2> QED
    BY <2>1, <2>2
<1>5. CASE Take \/ DrainTake
  <2>1. InFlight = <<>> /\ InFlight' = buffer /\ buffer' = <<>>
    BY <1>5 DEF Take, DrainTake, TakeBuffer, Taken, InFlight
  <2>2. UNCHANGED <<accepted, handled>>
    BY <1>5 DEF Take, DrainTake, TakeBuffer
  <2>3. handled \o (<<>> \o buffer) = handled \o (buffer \o <<>>)
    BY <1>t, HandoverMoves, Zenon
  <2> QED
    BY <2>1, <2>2, <2>3
<1>6. CASE Insert \/ DrainInsert
  <2>1. InFlight = batch /\ InFlight' = <<>> /\ handled' = handled \o batch
    BY <1>6 DEF Insert, DrainInsert, InsertOps, InFlight
  <2>2. UNCHANGED <<accepted, buffer>>
    BY <1>6 DEF Insert, DrainInsert, InsertOps
  <2>3. handled \o (batch \o buffer) = (handled \o batch) \o (<<>> \o buffer)
    BY <1>t, HandoverMoves, Zenon
  <2> QED
    BY <2>1, <2>2, <2>3
<1>7. CASE UNCHANGED vars
  BY <1>7 DEF vars, InFlight
<1> QED
  BY <1>1, <1>2, <1>3, <1>4, <1>5, <1>6, <1>7 DEF Next, Run

(* Every op pushed is handed to the store exactly once and in the order of *)
(* the lock: nothing is skipped, repeated or overtaken between Push, the   *)
(* buffer, the batch and InsertOps.                                        *)
THEOREM HandoverExact == Spec => []FifoHandover
<1>1. Init => FifoHandover
  <2> SUFFICES ASSUME Init PROVE FifoHandover
    OBVIOUS
  <2>1. <<>> \o (<<>> \o <<>>) = <<>>
    BY EmptySeq, ConcatEmptySeq
  <2>2. InFlight = <<>>
    BY DEF Init, InFlight
  <2> QED
    BY <2>1, <2>2 DEF Init, FifoHandover
<1> QED
  BY <1>1, HandoverStep, TypeCorrect, PTL DEF Spec

-----------------------------------------------------------------------------
(* The inductive strengthening of DrainedByStop: the mark is taken from    *)
(* the accepted ops, only a closed stopCh leads to the drain, and from the *)
(* drain on the ops up to the mark are in the drained batch or handled.    *)
StopInv ==
  /\ stopMark <= Len(accepted)
  /\ loop \in {"drain", "drainInsert", "drainReport", "exit", "done"}
       => stopCh = "closed"
  /\ loop = "drainInsert" => Len(handled) + Len(batch) >= stopMark
  /\ loop \in {"drainReport", "exit", "done"} => Len(handled) >= stopMark

(* With nothing in flight, handled and buffer together are all that was    *)
(* accepted.                                                               *)
LEMMA AllAccountedFor ==
  ASSUME TypeOK, FifoHandover, InFlight = <<>>
  PROVE  Len(accepted) = Len(handled) + Len(buffer)
<1>1. /\ buffer \in Seq(Ops) /\ handled \in Seq(Ops)
  BY DEF TypeOK
<1>2. <<>> \o buffer = buffer
  BY <1>1, ConcatEmptySeq
<1>3. accepted = handled \o buffer
  BY <1>2 DEF FifoHandover
<1> QED
  BY <1>1, <1>3, ConcatProperties

(* Every step keeps the strengthening.                                     *)
LEMMA StopStep ==
  TypeOK /\ FifoHandover /\ StopInv /\ [Next]_vars => StopInv'
<1> SUFFICES ASSUME TypeOK, FifoHandover, StopInv, [Next]_vars
             PROVE  StopInv'
  OBVIOUS
<1> USE DEF StopInv
<1>t. /\ buffer \in Seq(Ops) /\ batch \in Seq(Ops) /\ handled \in Seq(Ops)
      /\ accepted \in Seq(Ops) /\ stopMark \in Nat
      /\ Len(handled) \in Nat /\ Len(batch) \in Nat /\ Len(buffer) \in Nat
      /\ Len(accepted) \in Nat
  BY LenProperties DEF TypeOK
<1>1. ASSUME NEW p \in Pushers, NEW op \in Ops, Push(p, op)
      PROVE  StopInv'
  <2>1. Len(accepted') = Len(accepted) + 1
    BY <1>1, <1>t, AppendProperties DEF Push
  <2>2. UNCHANGED <<stopMark, loop, stopCh, handled, batch>>
    BY <1>1 DEF Push
  <2> QED
    BY <2>1, <2>2, <1>t
<1>2. ASSUME NEW p \in Pushers, Signal(p)
      PROVE  StopInv'
  BY <1>2 DEF Signal
<1>3. CASE Stop
  BY <1>3, <1>t DEF Stop
<1>4. CASE SelectFlushCh \/ SelectTimer \/ SelectStop
  BY <1>4, <1>t DEF SelectFlushCh, SelectTimer, SelectStop
<1>5. CASE Report \/ Exit
  BY <1>5, <1>t DEF Report, Exit
<1>6. CASE Take
  BY <1>6, <1>t DEF Take, TakeBuffer
<1>7. CASE DrainTake
  <2>1. Len(handled) + Len(buffer) >= stopMark
    BY <1>7, <1>t, AllAccountedFor DEF DrainTake, TakeBuffer, InFlight
  <2>2. buffer = <<>> => Len(handled) >= stopMark
    BY <2>1, <1>t, EmptySeq
  <2> QED
    BY <1>7, <2>1, <2>2 DEF DrainTake, TakeBuffer, Taken
<1>8. CASE Insert \/ DrainInsert
  <2>1. Len(handled') = Len(handled) + Len(batch)
    BY <1>8, <1>t, ConcatProperties DEF Insert, DrainInsert, InsertOps
  <2>2. UNCHANGED <<stopMark, stopCh, accepted>>
    BY <1>8 DEF Insert, DrainInsert, InsertOps
  <2>3. \/ loop = "insert" /\ loop' \in {"report", "select"}
        \/ loop = "drainInsert" /\ loop' \in {"drainReport", "exit"}
    BY <1>8 DEF Insert, DrainInsert, InsertOps
  <2> QED
    BY <2>1, <2>2, <2>3, <1>t
<1>9. CASE UNCHANGED vars
  BY <1>9 DEF vars
<1> QED
  BY <1>1, <1>2, <1>3, <1>4, <1>5, <1>6, <1>7, <1>8, <1>9 DEF Next, Run

(* Stop drains: when it returns, every op accepted before the call has     *)
(* been handed to the store.                                               *)
THEOREM StopDrains == Spec => []DrainedByStop
<1>1. Init => StopInv
  BY EmptySeq DEF Init, StopInv
<1>2. StopInv => DrainedByStop
  BY DEF StopInv, DrainedByStop
<1> QED
  BY <1>1, <1>2, StopStep, TypeCorrect, HandoverExact, PTL DEF Spec

-----------------------------------------------------------------------------
(* flush and drain never call InsertOps with an empty batch. *)
BatchNotEmpty == loop \in {"insert", "drainInsert"} => batch # <<>>

(* InsertOps is never called with an empty batch.                          *)
LEMMA BatchesNotEmpty == Spec => []BatchNotEmpty
<1> USE DEF BatchNotEmpty
<1>1. Init => BatchNotEmpty
  BY DEF Init
<1>2. BatchNotEmpty /\ [Next]_vars => BatchNotEmpty'
  <2> SUFFICES ASSUME BatchNotEmpty, [Next]_vars
               PROVE  BatchNotEmpty'
    OBVIOUS
  <2>1. ASSUME NEW p \in Pushers, NEW op \in Ops, Push(p, op)
        PROVE  BatchNotEmpty'
    BY <2>1 DEF Push
  <2>2. CASE Stop \/ \E p \in Pushers : Signal(p)
    BY <2>2 DEF Stop, Signal
  <2>3. CASE SelectFlushCh \/ SelectTimer \/ SelectStop \/ Report \/ Exit
    BY <2>3 DEF SelectFlushCh, SelectTimer, SelectStop, Report, Exit
  <2>4. CASE Take \/ DrainTake
    BY <2>4 DEF Take, DrainTake, TakeBuffer, Taken
  <2>5. CASE Insert \/ DrainInsert
    BY <2>5 DEF Insert, DrainInsert, InsertOps
  <2>6. CASE UNCHANGED vars
    BY <2>6 DEF vars
  <2> QED
    BY <2>1, <2>2, <2>3, <2>4, <2>5, <2>6 DEF Next, Run
<1> QED
  BY <1>1, <1>2, PTL DEF Spec

(* Cutting a concatenation behind its first part gives the two parts back. *)
LEMMA CutConcat ==
  ASSUME NEW s \in Seq(Ops), NEW t \in Seq(Ops), s # <<>>
  PROVE  /\ Len(s) \in 1..Len(s \o t)
         /\ SubSeq(s \o t, 1, Len(s)) = s
         /\ SubSeq(s \o t, Len(s) + 1, Len(s \o t)) = t
<1>1. /\ Len(s) \in Nat \ {0} /\ Len(t) \in Nat
      /\ s \o t \in Seq(Ops)
      /\ Len(s \o t) = Len(s) + Len(t)
  BY EmptySeq, LenProperties, ConcatProperties
<1>2. Len(s) \in 1..Len(s \o t)
  BY <1>1
<1>3. SubSeq(s \o t, 1, Len(s)) = s
  <2>1. SubSeq(s \o t, 1, Len(s)) = SubSeq(s, 1, Len(s))
    BY <1>1, SubSeqOfConcat1
  <2> QED
    BY <2>1, SubSeqFull
<1>4. SubSeq(s \o t, Len(s) + 1, Len(s \o t)) = t
  <2>1. CASE t = <<>>
    <3>1. Len(s \o t) < Len(s) + 1
      BY <1>1, <2>1, EmptySeq
    <3>2. Len(s) + 1 \in Int /\ Len(s \o t) \in Int
      BY <1>1
    <3> QED
      BY <2>1, <3>1, <3>2, SubSeqEmpty
  <2>2. CASE t # <<>>
    <3>1. Len(t) >= 1
      BY <1>1, <2>2, EmptySeq
    <3>2. /\ Len(s) + 1 \in Len(s) + 1 .. Len(s) + Len(t)
          /\ Len(s) + Len(t) \in Len(s) + 1 .. Len(s) + Len(t)
      BY <1>1, <3>1
    <3>3. SubSeq(s \o t, Len(s) + 1, Len(s) + Len(t))
            = SubSeq(t, Len(s) + 1 - Len(s), Len(s) + Len(t) - Len(s))
      BY <3>2, SubSeqOfConcat2
    <3>4. Len(s) + 1 - Len(s) = 1 /\ Len(s) + Len(t) - Len(s) = Len(t)
      BY <1>1
    <3> QED
      BY <1>1, <3>3, <3>4, SubSeqFull
  <2> QED
    BY <2>1, <2>2
<1> QED
  BY <1>2, <1>3, <1>4

(* The materializer implements the ordered writer of whole batches: every  *)
(* step of its buffer, channels and goroutine accepts one op, writes one   *)
(* batch from the front of the queue, closes the writer, or is invisible.  *)
THEOREM WriterImplemented == Spec => ImplementsWriter
<1>1. Init => Writer!WriterInit
  <2> SUFFICES ASSUME Init PROVE Writer!WriterInit
    OBVIOUS
  <2>1. InFlight \o buffer = <<>>
    BY EmptySeq, ConcatEmptySeq DEF Init, InFlight
  <2> QED
    BY <2>1 DEF Init, Writer!WriterInit
<1>2. TypeOK /\ BatchNotEmpty /\ [Next]_vars
        => [Writer!WriterNext]_(Writer!writerVars)
  <2> SUFFICES ASSUME TypeOK, BatchNotEmpty, [Next]_vars
               PROVE  Writer!WriterNext \/ UNCHANGED Writer!writerVars
    OBVIOUS
  <2> DEFINE Queue == InFlight \o buffer
  <2>t. /\ buffer \in Seq(Ops) /\ batch \in Seq(Ops)
        /\ InFlight \in Seq(Ops)
    BY InFlightType DEF TypeOK
  <2>s. ASSUME Queue' = Queue, stored' = stored, (loop' = "done") <=> (loop = "done")
        PROVE  UNCHANGED Writer!writerVars
    BY <2>s DEF Writer!writerVars
  <2>1. ASSUME NEW p \in Pushers, NEW op \in Ops, Push(p, op)
        PROVE  Writer!Accept(op)
    <3>1. InFlight' = InFlight /\ buffer' = Append(buffer, op)
      BY <2>1 DEF Push, InFlight
    <3>2. Queue' = Append(Queue, op)
      <4>1. <<op>> \in Seq(Ops)
        BY SeqDef
      <4>2. Append(Queue, op) = Queue \o <<op>>
        BY <2>t, ConcatProperties, AppendIsConcat
      <4>3. Queue \o <<op>> = InFlight \o (buffer \o <<op>>)
        BY <2>t, <4>1, ConcatAssociative
      <4>4. buffer \o <<op>> = Append(buffer, op)
        BY <2>t, AppendIsConcat
      <4> QED
        BY <3>1, <4>2, <4>3, <4>4
    <3>3. UNCHANGED <<stored, loop>>
      BY <2>1 DEF Push
    <3> QED
      BY <3>2, <3>3 DEF Writer!Accept
  <2>2. CASE Stop \/ \E p \in Pushers : Signal(p)
    <3>1. UNCHANGED <<loop, batch, buffer, stored>>
      BY <2>2 DEF Stop, Signal
    <3> QED
      BY <3>1, <2>s DEF InFlight
  <2>3. CASE SelectFlushCh \/ SelectTimer \/ SelectStop \/ Report
    <3>1. UNCHANGED <<buffer, stored>> /\ InFlight' = <<>> /\ InFlight = <<>>
      BY <2>3 DEF SelectFlushCh, SelectTimer, SelectStop, Report, InFlight
    <3>2. loop # "done" /\ loop' # "done"
      BY <2>3 DEF SelectFlushCh, SelectTimer, SelectStop, Report
    <3> QED
      BY <3>1, <3>2, <2>s
  <2>4. CASE Take \/ DrainTake
    <3>1. InFlight = <<>> /\ InFlight' = buffer /\ buffer' = <<>>
      BY <2>4 DEF Take, DrainTake, TakeBuffer, Taken, InFlight
    <3>2. Queue' = Queue
      BY <3>1, <2>t, ConcatEmptySeq
    <3>3. stored' = stored /\ loop # "done" /\ loop' # "done"
      BY <2>4 DEF Take, DrainTake, TakeBuffer
    <3> QED
      BY <3>2, <3>3, <2>s
  <2>5. CASE Insert \/ DrainInsert
    <3>1. /\ InFlight = batch /\ InFlight' = <<>> /\ UNCHANGED buffer
          /\ batch # <<>>
          /\ loop # "done" /\ loop' # "done"
          /\ stored' = stored \/ stored' = stored \cup Range(batch)
      BY <2>5 DEF Insert, DrainInsert, InsertOps, Rows, InFlight, BatchNotEmpty
    <3>2. Queue' = buffer
      BY <3>1, <2>t, ConcatEmptySeq
    <3>3. /\ Len(batch) \in 1..Len(Queue)
          /\ SubSeq(Queue, 1, Len(batch)) = batch
          /\ SubSeq(Queue, Len(batch) + 1, Len(Queue)) = buffer
      BY <3>1, <2>t, CutConcat
    <3>4. Queue' = SubSeq(Queue, Len(batch) + 1, Len(Queue))
      BY <3>2, <3>3
    <3>5. \/ stored' = stored \cup Writer!Range(SubSeq(Queue, 1, Len(batch)))
          \/ stored' = stored
      BY <3>1, <3>3 DEF Range, Writer!Range
    <3>6. ~ (loop = "done") /\ (loop' = "done") = (loop = "done")
      BY <3>1
    <3>7. Writer!WriteBatch(Len(batch))
      BY <3>4, <3>5, <3>6 DEF Writer!WriteBatch
    <3> QED
      BY <3>3, <3>7 DEF Writer!WriterNext
  <2>6. CASE Exit
    <3>1. /\ UNCHANGED <<buffer, stored>> /\ InFlight' = <<>> /\ InFlight = <<>>
          /\ loop # "done" /\ loop' = "done"
      BY <2>6 DEF Exit, InFlight
    <3> QED
      BY <3>1 DEF Writer!WriterNext, Writer!Close
  <2>7. CASE UNCHANGED vars
    BY <2>7, <2>s DEF vars, InFlight
  <2> QED
    BY <2>1, <2>2, <2>3, <2>4, <2>5, <2>6, <2>7
    DEF Next, Run, Writer!WriterNext
<1> QED
  BY <1>1, <1>2, TypeCorrect, BatchesNotEmpty, PTL
  DEF Spec, ImplementsWriter, Writer!WriterSpec
=============================================================================
