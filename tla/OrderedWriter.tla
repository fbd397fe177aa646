--------------------------- MODULE OrderedWriter ---------------------------
(***************************************************************************)
(* What package materialize promises to its callers: an unbounded FIFO of  *)
(* accepted ops that one writer takes from the front, in whole batches.    *)
(* A batch reaches the store completely or not at all; a batch that the    *)
(* store refuses is gone.  Once the writer is closed nothing leaves the    *)
(* queue any more.                                                         *)
(***************************************************************************)
EXTENDS Sequences, Naturals, Functions

CONSTANT Ops

VARIABLES queue,    \* accepted and not yet written, oldest first
          stored,   \* ops the store holds
          closed    \* the writer has exited

writerVars == <<queue, stored, closed>>

WriterInit ==
  /\ queue = <<>>
  /\ stored = {}
  /\ closed = FALSE

Accept(op) ==
  /\ queue' = Append(queue, op)
  /\ UNCHANGED <<stored, closed>>

WriteBatch(n) ==
  /\ ~closed
  /\ queue' = SubSeq(queue, n + 1, Len(queue))
  /\ \/ stored' = stored \cup Range(SubSeq(queue, 1, n))
     \/ stored' = stored
  /\ UNCHANGED closed

Close ==
  /\ ~closed
  /\ closed' = TRUE
  /\ UNCHANGED <<queue, stored>>

WriterNext ==
  \/ \E op \in Ops : Accept(op)
  \/ \E n \in 1..Len(queue) : WriteBatch(n)
  \/ Close

WriterSpec == WriterInit /\ [][WriterNext]_writerVars
============================================================================
