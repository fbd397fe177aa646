------------------------------ MODULE OpTable ------------------------------
(***************************************************************************)
(* Table crdt_logs for one deck, as far as ops go, and its two writers.    *)
(*                                                                         *)
(* An op stands for its row; op_id is the primary key, so a record that is *)
(* delivered twice is the same op.  Every statement filters by deck_id, so *)
(* one deck is enough.  BranchOf is the branch_id of the row.              *)
(***************************************************************************)
EXTENDS HLC

CONSTANTS Ops,       \* op rows other than snapshots
          Branches,  \* branch_id values
          BranchOf,  \* [Ops -> Branches]
          HlcOf      \* [Ops -> HLC]

ASSUME OpTableAssumption ==
  /\ BranchOf \in [Ops -> Branches]
  /\ HlcOf \in [Ops -> HLC]

VARIABLE log  \* the op rows present

OnBranch(S, b) == {o \in S : BranchOf[o] = b}
HlcsOf(S) == {HlcOf[o] : o \in S}
Touched(S) == {BranchOf[o] : o \in S}

(* The INSERTs of pgxStore.InsertOps, ON CONFLICT (op_id) DO NOTHING. *)
InsertRows(batch) == log' = log \cup batch

(* The realtime gateway's own insert on receipt of an op, likewise. *)
InsertReceived(o) == o \notin log /\ log' = log \cup {o}
=============================================================================
