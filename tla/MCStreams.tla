------------------------------ MODULE MCStreams ------------------------------
(***************************************************************************)
(* The components that move ops and events from hand to hand and have to   *)
(* finish, in one instance for TLC: the editor's queue, the ingest and its *)
(* spool, the loader.  They share no state, so one of them moves in each   *)
(* behaviour (stream names it); the fairness of the others holds, since    *)
(* nothing of theirs is enabled in their initial states.                   *)
(***************************************************************************)
EXTENDS EventIngest, Loader, LocalQueue

VARIABLE stream

StreamsInit ==
  /\ IngestInit /\ LoaderInit /\ QueueInit
  /\ stream \in {"ingest", "loader", "queue"}
  /\ stream # "ingest" => connected
  /\ stream # "loader" => refused = {}

StreamsNext ==
  /\ UNCHANGED stream
  /\ \/ stream = "ingest" /\ IngestNext /\ UNCHANGED <<loaderVars, queueVars>>
     \/ stream = "loader" /\ LoaderNext /\ UNCHANGED <<ingestVars, queueVars>>
     \/ stream = "queue" /\ QueueNext /\ UNCHANGED <<ingestVars, loaderVars>>

StreamsSpec ==
  /\ StreamsInit /\ [][StreamsNext]_<<stream, ingestVars, loaderVars, queueVars>>
  /\ IngestFairness /\ LoaderFairness

(* The type invariants of the components.                                  *)
StreamsTypeOK == IngestTypeOK /\ LoaderTypeOK /\ QueueTypeOK

-----------------------------------------------------------------------------
(* Two keys, and batches of one key and of both.                           *)
TwoKeys == [e \in Events |-> IF e = 2 THEN "k2" ELSE "k1"]
TwoBatches == <<<<1, 2>>, <<3>>>>
=============================================================================
