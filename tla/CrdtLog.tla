------------------------------ MODULE CrdtLog ------------------------------
(***************************************************************************)
(* The op log of one deck: tables crdt_logs and branch_heads, and the      *)
(* transaction of pgxStore.InsertOps that writes both (materialize.go).    *)
(* The realtime gateway's own insert (validate.go) writes crdt_logs alone. *)
(***************************************************************************)
EXTENDS OpTable

VARIABLES heads,  \* branch_heads: a function on the branches that have a row
          merged  \* history: every op a committed InsertOps was given

logVars == <<log, heads, merged>>

LogInit ==
  /\ log = {}
  /\ heads = <<>>
  /\ merged = {}

(* mutant: GREATEST on each column *)
UpsertMixes(cur, new) ==
  [physical |-> IF new.physical > cur.physical
                  THEN new.physical ELSE cur.physical,
   logical  |-> IF new.logical > cur.logical
                  THEN new.logical ELSE cur.logical]

UpsertReplaces(cur, new) == new  \* mutant: the last batch wins

(* ON CONFLICT (deck_id, branch_id) DO UPDATE: GREATEST and CASE. *)
Upsert(cur, new) ==
  [physical |-> IF new.physical > cur.physical
                  THEN new.physical ELSE cur.physical,
   logical  |-> IF \/ new.physical > cur.physical
                   \/ /\ new.physical = cur.physical
                      /\ new.logical > cur.logical
                  THEN new.logical ELSE cur.logical]

(* The upserts of a batch whose per-branch maxima are top (maxHLC). *)
UpsertHeads(top) ==
  [b \in DOMAIN heads \cup DOMAIN top |->
     IF b \notin DOMAIN top THEN heads[b]
     ELSE IF b \notin DOMAIN heads THEN top[b]
     ELSE Upsert(heads[b], top[b])]

(* A committed transaction.  Ops already present are skipped by ON         *)
(* CONFLICT (op_id) DO NOTHING, but still count for the branch maxima.     *)
InsertOps(batch) ==
  \E top \in [Touched(batch) -> HlcsOf(batch)] :
    /\ \A b \in Touched(batch) : IsLatest(top[b], HlcsOf(OnBranch(batch, b)))
    /\ InsertRows(batch)
    /\ heads' = UpsertHeads(top)
    /\ merged' = merged \cup batch

GatewayInsert(o) == InsertReceived(o) /\ UNCHANGED <<heads, merged>>

LogNext ==
  \/ \E batch \in SUBSET Ops \ {{}} : InsertOps(batch)
  \/ \E o \in Ops : GatewayInsert(o)

LogSpec == LogInit /\ [][LogNext]_logVars

-----------------------------------------------------------------------------
(* Properties *)

(* The rows are ops, and there is a head row for each branch written to.   *)
LogTypeOK ==
  /\ log \subseteq Ops
  /\ merged \subseteq Ops
  /\ heads \in [Touched(merged) -> HLC]

(* branch_heads holds the "latest HLC per branch per deck": the greatest   *)
(* HLC of all ops the worker ever wrote to the branch, in whatever order   *)
(* batches arrive, and not a mix of the parts of two of them.              *)
HeadIsLatest ==
  \A b \in DOMAIN heads : IsLatest(heads[b], HlcsOf(OnBranch(merged, b)))

(* "the stored head is always advanced forward": a batch that comes late   *)
(* never moves a head back, and no head row disappears.                    *)
HeadsAdvance ==
  [][\A b \in DOMAIN heads :
       b \in DOMAIN heads' /\ AtOrBefore(heads[b], heads'[b])]_logVars
=============================================================================
