--------------------------- MODULE ServicesProofs ---------------------------
(***************************************************************************)
(* Proofs about the components that MCServices puts side by side: the op   *)
(* log and its branch heads (for any ops, branches and HLCs), the payout   *)
(* executor (any creators, sales, amounts and passes) and the gateway (any *)
(* frames, connections and channel capacity); those about the presenter    *)
(* are in PresenterProofs.  Last, the types of all of them together.       *)
(***************************************************************************)
EXTENDS MCServices, PresenterProofs

-----------------------------------------------------------------------------
(* The op log *)

(* The order of HLCs is transitive.                                        *)
LEMMA OrderTransitive ==
  ASSUME NEW a \in HLC, NEW b \in HLC, NEW c \in HLC,
         AtOrBefore(a, b), AtOrBefore(b, c)
  PROVE  AtOrBefore(a, c)
BY DEF HLC, AtOrBefore, Before

(* Two clock values are equal or one is before the other.                  *)
LEMMA OrderTotal ==
  ASSUME NEW a \in HLC, NEW b \in HLC
  PROVE  AtOrBefore(a, b) \/ AtOrBefore(b, a)
BY DEF HLC, AtOrBefore, Before

(* The GREATEST / CASE expressions of the upsert compute the later of two  *)
(* HLCs: the result is one of them, and neither is after it.               *)
LEMMA UpsertIsLater ==
  ASSUME NEW cur \in HLC, NEW new \in HLC
  PROVE  /\ Upsert(cur, new) \in {cur, new}
         /\ AtOrBefore(cur, Upsert(cur, new))
         /\ AtOrBefore(new, Upsert(cur, new))
<1> DEFINE r == Upsert(cur, new)
<1>1. CASE Before(cur, new)
  <2>1. r.physical = new.physical /\ r.logical = new.logical
    BY <1>1 DEF Upsert, Before, HLC
  <2>2. r = new
    BY <2>1 DEF Upsert, HLC
  <2> QED
    BY <1>1, <2>2 DEF AtOrBefore
<1>2. CASE ~ Before(cur, new)
  <2>1. r.physical = cur.physical /\ r.logical = cur.logical
    BY <1>2 DEF Upsert, Before, HLC
  <2>2. r = cur
    BY <2>1 DEF Upsert, HLC
  <2>3. AtOrBefore(new, cur)
    BY <1>2, OrderTotal DEF AtOrBefore
  <2> QED
    BY <2>2, <2>3 DEF AtOrBefore
<1> QED
  BY <1>1, <1>2

-----------------------------------------------------------------------------
(* What one committed transaction does to one head. *)
LEMMA HeadAfterInsert ==
  ASSUME OpTableAssumption, LogTypeOK, HeadIsLatest,
         NEW batch \in SUBSET Ops, InsertOps(batch)
  PROVE  /\ DOMAIN heads' = Touched(merged')
         /\ \A b \in Touched(merged') :
              /\ heads'[b] \in HLC
              /\ IsLatest(heads'[b], HlcsOf(OnBranch(merged', b)))
              /\ b \in DOMAIN heads => AtOrBefore(heads[b], heads'[b])
<1>1. PICK top \in [Touched(batch) -> HlcsOf(batch)] :
        /\ \A b \in Touched(batch) :
             IsLatest(top[b], HlcsOf(OnBranch(batch, b)))
        /\ heads' = UpsertHeads(top)
        /\ merged' = merged \cup batch
  BY DEF InsertOps
<1>2. /\ DOMAIN heads = Touched(merged) /\ DOMAIN top = Touched(batch)
      /\ Touched(merged') = Touched(merged) \cup Touched(batch)
  BY <1>1 DEF LogTypeOK, Touched
<1>3. \A b : HlcsOf(OnBranch(merged', b))
               = HlcsOf(OnBranch(merged, b)) \cup HlcsOf(OnBranch(batch, b))
  BY <1>1 DEF HlcsOf, OnBranch
<1>4. DOMAIN heads' = Touched(merged')
  BY <1>1, <1>2 DEF UpsertHeads
<1>5. HlcsOf(batch) \subseteq HLC /\ HlcsOf(merged) \subseteq HLC
  BY DEF HlcsOf, OpTableAssumption, LogTypeOK
<1>6. ASSUME NEW b \in Touched(merged')
      PROVE  /\ heads'[b] \in HLC
             /\ IsLatest(heads'[b], HlcsOf(OnBranch(merged', b)))
             /\ b \in DOMAIN heads => AtOrBefore(heads[b], heads'[b])
  <2> DEFINE Old == HlcsOf(OnBranch(merged, b))
             New == HlcsOf(OnBranch(batch, b))
  <2>1. Old \subseteq HLC /\ New \subseteq HLC
    BY DEF HlcsOf, OnBranch, OpTableAssumption, LogTypeOK
  <2>2. CASE b \notin DOMAIN top
    <3>1. New = {}
      BY <1>2, <2>2 DEF HlcsOf, OnBranch, Touched
    <3>2. heads'[b] = heads[b] /\ b \in DOMAIN heads
      BY <1>1, <1>2, <2>2 DEF UpsertHeads
    <3>3. IsLatest(heads[b], Old)
      BY <3>2 DEF HeadIsLatest
    <3> QED
      BY <1>3, <2>1, <3>1, <3>2, <3>3 DEF IsLatest, AtOrBefore
  <2>3. CASE b \in DOMAIN top /\ b \notin DOMAIN heads
    <3>1. Old = {}
      BY <1>2, <2>3 DEF HlcsOf, OnBranch, Touched
    <3>2. heads'[b] = top[b]
      BY <1>1, <1>2, <2>3 DEF UpsertHeads
    <3>3. IsLatest(top[b], New)
      BY <1>1, <1>2, <2>3
    <3> QED
      BY <1>3, <2>1, <2>3, <3>1, <3>2, <3>3 DEF IsLatest
  <2>4. CASE b \in DOMAIN top /\ b \in DOMAIN heads
    <3>1. heads'[b] = Upsert(heads[b], top[b])
      BY <1>1, <1>2, <2>4 DEF UpsertHeads
    <3>2. IsLatest(top[b], New) /\ IsLatest(heads[b], Old)
      BY <1>1, <1>2, <2>4 DEF HeadIsLatest
    <3>3. top[b] \in HLC /\ heads[b] \in HLC
      BY <2>1, <3>2 DEF IsLatest
    <3>4. /\ heads'[b] \in {heads[b], top[b]}
          /\ AtOrBefore(heads[b], heads'[b])
          /\ AtOrBefore(top[b], heads'[b])
      BY <3>1, <3>3, UpsertIsLater
    <3>5. heads'[b] \in Old \cup New /\ heads'[b] \in HLC
      BY <3>2, <3>3, <3>4 DEF IsLatest
    <3>6. \A g \in Old \cup New : AtOrBefore(g, heads'[b])
      <4>1. ASSUME NEW g \in Old PROVE AtOrBefore(g, heads'[b])
        BY <2>1, <3>2, <3>3, <3>4, <3>5, OrderTransitive DEF IsLatest
      <4>2. ASSUME NEW g \in New PROVE AtOrBefore(g, heads'[b])
        BY <2>1, <3>2, <3>3, <3>4, <3>5, OrderTransitive DEF IsLatest
      <4> QED
        BY <4>1, <4>2
    <3> QED
      BY <1>3, <3>4, <3>5, <3>6 DEF IsLatest
  <2> QED
    BY <2>2, <2>3, <2>4
<1> QED
  BY <1>4, <1>6

LogInv == LogTypeOK /\ HeadIsLatest

(* Types and latest heads hold together in every reachable state.          *)
LEMMA LogInvInductive ==
  ASSUME OpTableAssumption
  PROVE  /\ LogInit => LogInv
         /\ LogInv /\ [LogNext]_logVars => LogInv'
<1>1. LogInit => LogInv
  BY DEF LogInit, LogInv, LogTypeOK, HeadIsLatest, Touched
<1>2. ASSUME LogInv, NEW batch \in SUBSET Ops, InsertOps(batch)
      PROVE  LogInv'
  <2>1. /\ DOMAIN heads' = Touched(merged')
        /\ \A b \in Touched(merged') :
             /\ heads'[b] \in HLC
             /\ IsLatest(heads'[b], HlcsOf(OnBranch(merged', b)))
    BY <1>2, HeadAfterInsert DEF LogInv
  <2>2. heads' \in [Touched(merged') -> HLC]
    <3>1. PICK f : heads' = [b \in DOMAIN f |-> f[b]]
      BY <1>2 DEF InsertOps, UpsertHeads
    <3> QED
      BY <2>1, <3>1
  <2>3. log' \subseteq Ops /\ merged' \subseteq Ops
    BY <1>2 DEF InsertOps, InsertRows, LogInv, LogTypeOK
  <2>4. LogTypeOK'
    BY <2>2, <2>3 DEF LogTypeOK, Touched
  <2>5. HeadIsLatest'
    BY <2>1 DEF HeadIsLatest, HlcsOf, OnBranch
  <2> QED
    BY <2>4, <2>5 DEF LogInv
<1>3. ASSUME LogInv, NEW o \in Ops, GatewayInsert(o)
      PROVE  LogInv'
  BY <1>3 DEF LogInv, LogTypeOK, HeadIsLatest, GatewayInsert, InsertReceived
<1>4. ASSUME LogInv, UNCHANGED logVars
      PROVE  LogInv'
  BY <1>4 DEF LogInv, LogTypeOK, HeadIsLatest, logVars
<1> QED
  BY <1>1, <1>2, <1>3, <1>4 DEF LogNext

(* Every head is the latest HLC of its branch in every reachable state.    *)
THEOREM HeadsLatest == LogSpec => [](LogTypeOK /\ HeadIsLatest)
<1>1. LogInit => LogInv
  BY LogInvInductive, OpTableAssumption
<1>2. LogInv /\ [LogNext]_logVars => LogInv'
  BY LogInvInductive, OpTableAssumption
<1> QED
  BY <1>1, <1>2, PTL DEF LogSpec, LogInv

(* No transaction moves a head back or removes it.                         *)
THEOREM HeadsOnlyAdvance == LogSpec => HeadsAdvance
<1> DEFINE Forward == \A b \in DOMAIN heads :
                        b \in DOMAIN heads' /\ AtOrBefore(heads[b], heads'[b])
<1>1. LogTypeOK /\ HeadIsLatest /\ [LogNext]_logVars => [Forward]_logVars
  <2> SUFFICES ASSUME LogTypeOK, HeadIsLatest, LogNext
               PROVE  Forward
    OBVIOUS
  <2>1. ASSUME NEW batch \in SUBSET Ops, InsertOps(batch)
        PROVE  Forward
    <3>1. DOMAIN heads' = Touched(merged')
      BY <2>1, HeadAfterInsert, OpTableAssumption
    <3>2. DOMAIN heads = Touched(merged) /\ merged \subseteq merged'
      BY <2>1 DEF InsertOps, LogTypeOK
    <3>3. DOMAIN heads \subseteq DOMAIN heads'
      BY <3>1, <3>2 DEF Touched
    <3> QED
      BY <2>1, <3>1, <3>3, HeadAfterInsert, OpTableAssumption
  <2>2. ASSUME NEW o \in Ops, GatewayInsert(o)
        PROVE  Forward
    BY <2>2 DEF GatewayInsert, AtOrBefore
  <2> QED
    BY <2>1, <2>2 DEF LogNext
<1> QED
  BY <1>1, HeadsLatest, PTL DEF LogSpec, HeadsAdvance

-----------------------------------------------------------------------------
(* The payout executor: every ledger entry is backed by a transfer of its  *)
(* run, and the counts of a run tell of each creator once.                 *)

PassInv ==
  /\ at \in [Passes -> {"idle", "create", "next", "ledger", "over"}]
  /\ listed \in [Passes -> SUBSET Sales] /\ unwritten \in [Passes -> SUBSET Sales]
  /\ todo \in [Passes -> SUBSET Creators]
  /\ eligible \subseteq Sales
  /\ requests \in [Passes -> [Creators -> Nat]]
  /\ \A t \in answered : t.run \in Passes

Backs(t, r) ==
  /\ t \in answered /\ t.run = r /\ t.cents = Total(SalesOf(r, t.creator))
  /\ t.creator \in Payable /\ t.cents >= MinPayout

(* A creator who is still to be paid has not been asked for in the run,    *)
(* except the one whose entries are being written.                         *)
TransferInv ==
  /\ \A t \in answered : t.cents = Total(SalesOf(t.run, t.creator))
  /\ \A r \in Passes : at[r] \in {"idle", "create"} =>
       /\ \A c \in Creators : requests[r][c] = 0
       /\ \A t \in answered : t.run # r
  /\ \A r \in Passes : at[r] = "next" => \A c \in todo[r] : requests[r][c] = 0
  /\ \A r \in Passes : at[r] = "ledger" =>
       \E t \in answered :
         /\ Backs(t, r)
         /\ unwritten[r] \subseteq SalesOf(r, t.creator)
         /\ \A c \in todo[r] : c # t.creator => requests[r][c] = 0

PayoutInv == PassInv /\ TransferInv /\ LedgerIsBacked

LEMMA PayoutInitInv == PayoutInit => PayoutInv
BY DEF PayoutInit, PayoutInv, PassInv, TransferInv, LedgerIsBacked

(* Steps that leave the transfers, the ledger and the list of what is left *)
(* alone, and start no payment.                                            *)
LEMMA LookStep ==
  ASSUME PayoutInv, PassInv', UNCHANGED <<unwritten, requests, answered, ledger>>,
         \A r \in Passes :
           \/ at'[r] = at[r] /\ todo'[r] \subseteq todo[r] /\ listed'[r] = listed[r]
           \/ at[r] = "idle" /\ at'[r] = "create"
           \/ at[r] = "create" /\ at'[r] = "next" /\ listed'[r] = listed[r]
           \/ at[r] # "idle" /\ at'[r] = "over" /\ listed'[r] = listed[r]
  PROVE  PayoutInv'
<1> USE DEF PayoutInv
<1>1. \A r \in Passes : at[r] # "idle" => \A c : SalesOf(r, c)' = SalesOf(r, c)
  BY DEF SalesOf
<1>2. \A t \in answered : t.run \in Passes /\ at[t.run] # "idle"
  BY DEF PassInv, TransferInv
<1>3. \A r \in Passes : at'[r] \in {"idle", "create"} => at[r] \in {"idle", "create"}
  OBVIOUS
<1>4. ASSUME NEW r \in Passes, at'[r] = "next" PROVE \A c \in todo'[r] : requests'[r][c] = 0
  <2>1. CASE at[r] = "next"  BY <1>4, <2>1 DEF TransferInv
  <2>2. CASE at[r] = "create"
    <3>1. todo'[r] \subseteq Creators  BY DEF PassInv
    <3> QED  BY <2>2, <3>1 DEF TransferInv
  <2> QED  BY <1>4, <2>1, <2>2
<1>5. ASSUME NEW r \in Passes, at'[r] = "ledger"
      PROVE  \E t \in answered' : /\ Backs(t, r)'
                                 /\ unwritten'[r] \subseteq SalesOf(r, t.creator)'
                                 /\ \A c \in todo'[r] : c # t.creator => requests'[r][c] = 0
  <2>1. at[r] = "ledger" /\ todo'[r] \subseteq todo[r]  BY <1>5
  <2>2. PICK t \in answered : /\ Backs(t, r)
                             /\ unwritten[r] \subseteq SalesOf(r, t.creator)
                             /\ \A c \in todo[r] : c # t.creator => requests[r][c] = 0
    BY <2>1 DEF TransferInv
  <2>3. SalesOf(r, t.creator)' = SalesOf(r, t.creator)  BY <1>1, <2>1
  <2>4. Backs(t, r)'  BY <2>2, <2>3 DEF Backs
  <2> QED  BY <2>1, <2>2, <2>3, <2>4
<1>6. TransferInv'
  <2>1. ASSUME NEW t \in answered PROVE t.cents = Total(SalesOf(t.run, t.creator)')
    <3>1. SalesOf(t.run, t.creator)' = SalesOf(t.run, t.creator)  BY <1>1, <1>2
    <3> QED  BY <3>1 DEF TransferInv
  <2>2. ASSUME NEW r \in Passes, at'[r] \in {"idle", "create"}
        PROVE  /\ \A c \in Creators : requests'[r][c] = 0
               /\ \A t \in answered' : t.run # r
    BY <2>2, <1>3 DEF TransferInv
  <2>3. \A t \in answered' : t.cents = Total(SalesOf(t.run, t.creator))'
    BY <2>1 DEF Total
  <2> QED  BY ONLY <2>2, <2>3, <1>4, <1>5 DEF TransferInv
<1>7. LedgerIsBacked'
  <2>1. ASSUME NEW x \in ledger
        PROVE  /\ x[2] \in listed'[x[1]]
               /\ \E t \in answered : /\ t.run = x[1] /\ t.creator = CreatorOf[x[2]]
                                     /\ t.cents = Total(SalesOf(t.run, t.creator)')
                                     /\ t.creator \in Payable /\ t.cents >= MinPayout
    <3>1. PICK t \in answered : /\ t.run = x[1] /\ t.creator = CreatorOf[x[2]]
                               /\ t.cents = Total(SalesOf(t.run, t.creator))
                               /\ t.creator \in Payable /\ t.cents >= MinPayout
      BY DEF LedgerIsBacked
    <3>2. t.run \in Passes /\ at[t.run] # "idle" /\ listed'[t.run] = listed[t.run]
      BY <1>2, <3>1
    <3>3. SalesOf(t.run, t.creator)' = SalesOf(t.run, t.creator)  BY <1>1, <3>2
    <3> QED  BY <3>1, <3>2, <3>3 DEF LedgerIsBacked
  <2> QED  BY <2>1 DEF LedgerIsBacked
<1> QED  BY <1>6, <1>7

LEMMA LookActions ==
  ASSUME PayoutInv,
         \/ Sell \/ StartStop \/ RestartWorker
         \/ \E r \in Passes : \/ Fetch(r) \/ CreatePayoutRun(r) \/ Skip(r)
                              \/ LookupFails(r) \/ Complete(r)
  PROVE  PayoutInv'
<1> USE PayoutAssumption DEF PayoutInv, PassInv
<1>1. CASE Sell \/ StartStop
  BY <1>1, LookStep DEF Sell, StartStop
<1>2. CASE RestartWorker
  BY <1>2, LookStep DEF RestartWorker
<1>3. ASSUME NEW r \in Passes, Fetch(r) PROVE PayoutInv'
  BY <1>3, LookStep DEF Fetch
<1>4. ASSUME NEW r \in Passes, CreatePayoutRun(r) PROVE PayoutInv'
  <2>1. PassInv' /\ UNCHANGED <<unwritten, requests, answered, ledger>>
    <3>1. UNCHANGED <<listed, unwritten, eligible, requests, answered, ledger>>
      BY <1>4 DEF CreatePayoutRun
    <3>2. at' \in [Passes -> {"idle", "create", "next", "ledger", "over"}]
      BY <1>4 DEF CreatePayoutRun
    <3>3. todo' \in [Passes -> SUBSET Creators]
      <4>1. {CreatorOf[e] : e \in listed[r]} \in SUBSET Creators  OBVIOUS
      <4>2. todo' = todo \/ todo' = [todo EXCEPT ![r] = {CreatorOf[e] : e \in listed[r]}]
        BY <1>4 DEF CreatePayoutRun
      <4>3. todo \in [Passes -> SUBSET Creators]  OBVIOUS
      <4> QED  BY ONLY <4>1, <4>2, <4>3
    <3> QED  BY <3>1, <3>2, <3>3
  <2>2. ASSUME NEW q \in Passes
        PROVE  \/ at'[q] = at[q] /\ todo'[q] \subseteq todo[q] /\ listed'[q] = listed[q]
               \/ at[q] = "create" /\ at'[q] = "next" /\ listed'[q] = listed[q]
               \/ at[q] # "idle" /\ at'[q] = "over" /\ listed'[q] = listed[q]
    <3>1. CASE q = r  BY <3>1, <1>4 DEF CreatePayoutRun
    <3>2. CASE q # r
      <4>1. at'[q] = at[q] /\ todo'[q] = todo[q] /\ listed'[q] = listed[q]
        BY <3>2, <1>4 DEF CreatePayoutRun
      <4> QED  BY <4>1
    <3> QED  BY <3>1, <3>2
  <2> QED  BY <2>1, <2>2, LookStep
<1>5. ASSUME NEW r \in Passes, Skip(r) PROVE PayoutInv'
  BY <1>5, LookStep DEF Skip
<1>6. ASSUME NEW r \in Passes, LookupFails(r) \/ Complete(r) PROVE PayoutInv'
  BY <1>6, LookStep DEF LookupFails, Complete
<1> QED  BY <1>1, <1>2, <1>3, <1>4, <1>5, <1>6

(* What a call for the transfer x changes.                                 *)
Asks(r, x) ==
  /\ requests' = [requests EXCEPT ![r][x.creator] = @ + 1]
  /\ UNCHANGED <<listed, eligible, ledger>>
  /\ \/ /\ answered' = answered \cup {x} /\ at' = [at EXCEPT ![r] = "ledger"]
        /\ unwritten' = [unwritten EXCEPT ![r] = SalesOf(r, x.creator)] /\ UNCHANGED todo
     \/ /\ UNCHANGED <<answered, at, unwritten>>
        /\ todo' = [todo EXCEPT ![r] = @ \ {x.creator}]

(* A transfer is asked for once per creator: in state "next" the creators  *)
(* left have none, and a failed one leaves with its creator.               *)
LEMMA TransferStep ==
  ASSUME PayoutInv, NEW r \in Passes, Transfer(r) PROVE PayoutInv'
<1> USE PayoutAssumption DEF PayoutInv, PassInv
<1>0. PICK c \in todo[r] :
        /\ at[r] = "next" /\ Pays(r, c)
        /\ Asks(r, [run |-> r, creator |-> c, cents |-> Total(SalesOf(r, c))])
  BY DEF Transfer, Asks, Others
<1>1. PICK x : /\ x.run = r /\ x.creator = c /\ x.cents = Total(SalesOf(r, c)) /\ Asks(r, x)
  <2> WITNESS [run |-> r, creator |-> c, cents |-> Total(SalesOf(r, c))]
  <2> QED  BY <1>0
<1>2. c \in Payable /\ x.cents >= MinPayout /\ c \in Creators
  BY <1>0, <1>1 DEF Asks, Pays
<1>3. SalesOf(r, c) \subseteq Sales /\ \A q, d : SalesOf(q, d)' = SalesOf(q, d)
  BY <1>1 DEF SalesOf, Asks
<1>4. requests[r][c] = 0  BY <1>0 DEF TransferInv
<1>5. /\ requests' \in [Passes -> [Creators -> Nat]] /\ requests'[r][c] = 1
      /\ \A q \in Passes, d \in Creators : q # r \/ d # c => requests'[q][d] = requests[q][d]
  <2>1. requests' = [requests EXCEPT ![r] = [requests[r] EXCEPT ![c] = requests[r][c] + 1]]
    BY <1>1 DEF Asks
  <2>2. requests \in [Passes -> [Creators -> Nat]] /\ requests[r] \in [Creators -> Nat]
    OBVIOUS
  <2> QED  BY ONLY <2>1, <2>2, <1>2, <1>4
<1>6. /\ answered \subseteq answered' /\ \A t \in answered' : t \in answered \/ t = x
      /\ \A q \in Passes \ {r} : at'[q] = at[q] /\ todo'[q] = todo[q] /\ unwritten'[q] = unwritten[q]
      /\ \/ at'[r] = "next" /\ todo'[r] = todo[r] \ {c}
         \/ at'[r] = "ledger" /\ todo'[r] = todo[r] /\ x \in answered' /\ unwritten'[r] = SalesOf(r, c)
  BY <1>0, <1>1 DEF Asks
<1>7. PassInv'
  <2>1. \A t \in answered' : t.run \in Passes  BY <1>1, <1>6
  <2>2. /\ at' \in [Passes -> {"idle", "create", "next", "ledger", "over"}]
        /\ listed' = listed /\ eligible' = eligible
    BY <1>1 DEF Asks
  <2>3. unwritten' \in [Passes -> SUBSET Sales]  BY <1>1, <1>3 DEF Asks
  <2>4. todo' \in [Passes -> SUBSET Creators]  BY <1>1 DEF Asks
  <2> QED  BY <1>5, <2>1, <2>2, <2>3, <2>4
<1>8. LedgerIsBacked'
  <2>1. listed' = listed /\ ledger' = ledger  BY <1>1 DEF Asks
  <2>2. \A e \in ledger : \E t \in answered :
          /\ t.run = e[1] /\ t.creator = CreatorOf[e[2]]
          /\ t.cents = Total(SalesOf(t.run, t.creator))
          /\ t.creator \in Payable /\ t.cents >= MinPayout
    BY DEF LedgerIsBacked
  <2>3. ASSUME NEW q \in Passes, NEW d \in Creators PROVE requests'[q][d] <= 1
    <3>1. CASE q = r /\ d = c  BY <3>1, <1>5
    <3>2. CASE ~(q = r /\ d = c)
      <4>1. requests'[q][d] = requests[q][d]  BY <3>2, <1>5
      <4> QED  BY <4>1 DEF LedgerIsBacked
    <3> QED  BY <3>1, <3>2
  <2>4. \A e \in ledger : \E t \in answered' :
          /\ t.run = e[1] /\ t.creator = CreatorOf[e[2]]
          /\ t.cents = Total(SalesOf(t.run, t.creator)')
          /\ t.creator \in Payable /\ t.cents >= MinPayout
    BY ONLY <2>2, <1>3, <1>6
  <2> QED  BY <2>1, <2>3, <2>4 DEF LedgerIsBacked
<1>9. TransferInv'
  <2>1. ASSUME NEW q \in Passes, at'[q] \in {"idle", "create"}
        PROVE  /\ \A d \in Creators : requests'[q][d] = 0
               /\ \A t \in answered' : t.run # q
    <3>1. q # r /\ at[q] \in {"idle", "create"}  BY <2>1, <1>6
    <3> QED  BY <3>1, <1>1, <1>5, <1>6 DEF TransferInv
  <2>0. \A t \in answered' : t.cents = Total(SalesOf(t.run, t.creator))'
    <3>1. \A t \in answered : t.cents = Total(SalesOf(t.run, t.creator)')
      BY <1>3 DEF TransferInv
    <3>2. x.cents = Total(SalesOf(x.run, x.creator)')  BY <1>1, <1>3
    <3> QED  BY <3>1, <3>2, <1>6 DEF Total
  <2>2. ASSUME NEW q \in Passes, at'[q] = "next", NEW d \in todo'[q]
        PROVE  requests'[q][d] = 0
    <3>1. todo \in [Passes -> SUBSET Creators]  OBVIOUS
    <3>2. CASE q = r
      <4>1. d \in todo[r] /\ d # c /\ d \in Creators  BY <2>2, <3>1, <3>2, <1>6
      <4> QED  BY <3>2, <4>1, <1>0, <1>5 DEF TransferInv
    <3>3. CASE q # r
      <4>1. at[q] = "next" /\ d \in todo[q] /\ d \in Creators  BY <2>2, <3>1, <3>3, <1>6
      <4> QED  BY <3>3, <4>1, <1>5 DEF TransferInv
    <3> QED  BY <3>2, <3>3
  <2>3. ASSUME NEW q \in Passes, at'[q] = "ledger"
        PROVE  \E t \in answered' :
                 /\ Backs(t, q)'
                 /\ unwritten'[q] \subseteq SalesOf(q, t.creator)'
                 /\ \A d \in todo'[q] : d # t.creator => requests'[q][d] = 0
    <3>1. todo \in [Passes -> SUBSET Creators]  OBVIOUS
    <3>2. CASE q = r
      <4>1. x \in answered' /\ unwritten'[r] = SalesOf(r, c) /\ todo'[r] = todo[r]
        BY <2>3, <3>2, <1>6
      <4>2. Backs(x, r)'  BY <4>1, <1>1, <1>2, <1>3 DEF Backs
      <4>3. \A d \in todo[r] : d # c => requests'[r][d] = 0
        BY <3>1, <1>0, <1>5 DEF TransferInv
      <4>4. unwritten'[r] \subseteq SalesOf(r, x.creator)'  BY <4>1, <1>1, <1>3
      <4>5. \A d \in todo'[r] : d # x.creator => requests'[r][d] = 0  BY <4>1, <4>3, <1>1
      <4> QED  BY ONLY <3>2, <4>1, <4>2, <4>4, <4>5
    <3>3. CASE q # r
      <4>1. at[q] = "ledger" /\ unwritten'[q] = unwritten[q] /\ todo'[q] = todo[q]
        BY <2>3, <3>3, <1>6
      <4>2. PICK t \in answered : /\ Backs(t, q)
                                 /\ unwritten[q] \subseteq SalesOf(q, t.creator)
                                 /\ \A d \in todo[q] : d # t.creator => requests[q][d] = 0
        BY <4>1 DEF TransferInv
      <4>3. Backs(t, q)'  BY <4>2, <1>3, <1>6 DEF Backs
      <4>4. \A d \in todo[q] : requests'[q][d] = requests[q][d]  BY <3>1, <3>3, <1>5
      <4>5. t \in answered' /\ unwritten'[q] \subseteq SalesOf(q, t.creator)'
        BY <4>1, <4>2, <1>3, <1>6
      <4>6. \A d \in todo'[q] : d # t.creator => requests'[q][d] = 0  BY <4>1, <4>2, <4>4
      <4> QED  BY ONLY <4>3, <4>5, <4>6
    <3> QED  BY <3>2, <3>3
  <2> QED  BY <2>0, <2>1, <2>2, <2>3 DEF TransferInv
<1> QED  BY <1>7, <1>8, <1>9

(* An entry is written for an event of the creator whose transfer was      *)
(* answered last in the pass.                                              *)
LEMMA WriteStep ==
  ASSUME PayoutInv, NEW r \in Passes, WriteEntry(r) PROVE PayoutInv'
<1> USE PayoutAssumption DEF PayoutInv, PassInv
<1>1. PICK e \in unwritten[r] :
        /\ at[r] = "ledger" /\ UNCHANGED <<listed, eligible, requests, answered>>
        /\ ledger' \in {ledger, ledger \cup {<<r, e>>}}
        /\ \/ unwritten' = [unwritten EXCEPT ![r] = @ \ {e}] /\ UNCHANGED <<at, todo>>
           \/ /\ \/ unwritten' = [unwritten EXCEPT ![r] = @ \ {e}]
                 \/ unwritten' = [unwritten EXCEPT ![r] = {}]
              /\ at' = [at EXCEPT ![r] = "next"] /\ todo' = [todo EXCEPT ![r] = @ \ {CreatorOf[e]}]
  BY DEF WriteEntry, Others
<1>2. PICK t \in answered :
        /\ Backs(t, r) /\ unwritten[r] \subseteq SalesOf(r, t.creator)
        /\ \A c \in todo[r] : c # t.creator => requests[r][c] = 0
  BY <1>1 DEF TransferInv
<1>3. PassInv'
  <2>1. at' \in [Passes -> {"idle", "create", "next", "ledger", "over"}]  BY <1>1
  <2>2. unwritten' \in [Passes -> SUBSET Sales]
    <3>1. \E ws \in SUBSET Sales : unwritten' = [unwritten EXCEPT ![r] = ws]
      <4>1. unwritten[r] \ {e} \in SUBSET Sales /\ {} \in SUBSET Sales  OBVIOUS
      <4> QED  BY <4>1, <1>1
    <3> QED  BY <3>1
  <2>3. todo' \in [Passes -> SUBSET Creators]
    <3>1. todo' = todo \/ todo' = [todo EXCEPT ![r] = todo[r] \ {CreatorOf[e]}]  BY <1>1
    <3> QED  BY <3>1
  <2> QED  BY <1>1, <2>1, <2>2, <2>3
<1>4. CreatorOf[e] = t.creator /\ e \in listed[r] /\ \A q, d : SalesOf(q, d)' = SalesOf(q, d)
  BY <1>1, <1>2 DEF SalesOf
<1>5. LedgerIsBacked'
  <2>1. \A x \in ledger' : x \in ledger \/ x = <<r, e>>  BY <1>1
  <2>2. ASSUME NEW x \in ledger'
        PROVE  /\ x[2] \in listed[x[1]]
               /\ \E u \in answered : /\ u.run = x[1] /\ u.creator = CreatorOf[x[2]]
                                     /\ u.cents = Total(SalesOf(u.run, u.creator))
                                     /\ u.creator \in Payable /\ u.cents >= MinPayout
    <3>1. CASE x \in ledger  BY <3>1 DEF LedgerIsBacked
    <3>2. CASE x = <<r, e>>
      <4>1. x[1] = r /\ x[2] = e  BY <3>2
      <4> QED  BY <4>1, <1>2, <1>4 DEF Backs
    <3> QED  BY <2>1, <3>1, <3>2
  <2>3. \A q \in Passes, c \in Creators : requests'[q][c] <= 1  BY <1>1 DEF LedgerIsBacked
  <2> QED  BY <2>2, <2>3, <1>1, <1>4 DEF LedgerIsBacked
<1>6. TransferInv'
  <2>1. \A q \in Passes : at'[q] \in {"idle", "create"} => at[q] = at'[q]
    BY <1>1
  <2>2. ASSUME NEW q \in Passes, at'[q] = "next", NEW c \in todo'[q]
        PROVE  requests'[q][c] = 0
    <3>1. CASE q = r /\ at'[r] # at[r]
      <4>1. c \in todo[r] /\ c # t.creator  BY <2>2, <3>1, <1>1, <1>4
      <4> QED  BY <3>1, <4>1, <1>1, <1>2
    <3>2. CASE q # r \/ at'[r] = at[r]
      <4>1. at[q] = "next" /\ c \in todo[q]  BY <2>2, <3>2, <1>1
      <4> QED  BY <4>1, <1>1 DEF TransferInv
    <3> QED  BY <3>1, <3>2
  <2>3. ASSUME NEW q \in Passes, at'[q] = "ledger"
        PROVE  \E u \in answered' :
                 /\ Backs(u, q)'
                 /\ unwritten'[q] \subseteq SalesOf(q, u.creator)'
                 /\ \A c \in todo'[q] : c # u.creator => requests'[q][c] = 0
    <3>1. at[q] = "ledger" /\ unwritten'[q] \subseteq unwritten[q] /\ todo'[q] = todo[q]
      BY <2>3, <1>1
    <3>2. PICK u \in answered :
            /\ Backs(u, q) /\ unwritten[q] \subseteq SalesOf(q, u.creator)
            /\ \A c \in todo[q] : c # u.creator => requests[q][c] = 0
      BY <3>1 DEF TransferInv
    <3>3. Backs(u, q)'  BY <3>2, <1>1, <1>4 DEF Backs
    <3> QED  BY <3>1, <3>2, <3>3, <1>1, <1>4
  <2>4. \A u \in answered' : u.cents = Total(SalesOf(u.run, u.creator))'
    BY <1>1, <1>4 DEF TransferInv, Total
  <2>5. ASSUME NEW q \in Passes, at'[q] \in {"idle", "create"}
        PROVE  /\ \A c \in Creators : requests'[q][c] = 0
               /\ \A u \in answered' : u.run # q
    <3>1. at[q] \in {"idle", "create"}  BY <2>1, <2>5
    <3> QED  BY <3>1, <1>1 DEF TransferInv
  <2> QED  BY ONLY <2>2, <2>3, <2>4, <2>5 DEF TransferInv
<1> QED  BY <1>3, <1>5, <1>6

LEMMA PayoutStep == PayoutInv /\ [PayoutNext]_payoutVars => PayoutInv'
<1> SUFFICES ASSUME PayoutInv, [PayoutNext]_payoutVars PROVE PayoutInv'
  OBVIOUS
<1>1. CASE UNCHANGED payoutVars
  <2>1. PassInv'  BY <1>1 DEF payoutVars, PayoutInv, PassInv
  <2> QED  BY <1>1, <2>1, LookStep DEF payoutVars
<1>2. ASSUME NEW r \in Passes, Transfer(r) PROVE PayoutInv'  BY <1>2, TransferStep
<1>3. ASSUME NEW r \in Passes, WriteEntry(r) PROVE PayoutInv'  BY <1>3, WriteStep
<1> QED  BY <1>1, <1>2, <1>3, LookActions DEF PayoutNext

(* No interleaving of passes, failure or restart makes runOnce write an    *)
(* entry without an answered transfer of that run to that creator, for all *)
(* of the creator's events, or ask twice for one creator in one run.       *)
THEOREM LedgerBacked == PayoutSpec => []LedgerIsBacked
<1>1. PayoutInv => LedgerIsBacked  BY DEF PayoutInv
<1> QED  BY PayoutInitInv, PayoutStep, <1>1, PTL DEF PayoutSpec

-----------------------------------------------------------------------------
(* The counts of a run *)

(* The transfers behind the creators that r has counted as paid.           *)
Mine(r) == {t \in answered : t.run = r /\ t.creator \in counts[r].paid}
Cents(ts) == SumFunction([t \in ts |-> t.cents])
Told(r) == counts[r].paid \cup counts[r].skipped \cup counts[r].failed

CountTypes ==
  /\ timer \in BOOLEAN /\ counts \in [Passes -> Result]
  /\ ledger \subseteq Passes \X Sales
  /\ answered \subseteq [run : Passes, creator : Creators, cents : Nat]
  /\ IsFiniteSet(answered)

(* Every creator of the list is told or left, not both; while entries are  *)
(* written, those missing are the ones still to be written.                *)
ListTold(r) ==
  /\ at[r] \in {"idle", "create"} => Told(r) = {}
  /\ at[r] \in {"next", "ledger"} =>
       /\ todo[r] \cap Told(r) = {}
       /\ {CreatorOf[e] : e \in listed[r]} = Told(r) \cup todo[r]

PaidTold(r) ==
  /\ counts[r].paid \cap counts[r].failed = {}
  /\ counts[r].skipped \cap (counts[r].paid \cup counts[r].failed) = {}
  /\ counts[r].cents = Cents(Mine(r))
  /\ \A c \in counts[r].paid : /\ \E t \in Mine(r) : t.creator = c
                               /\ \A e \in SalesOf(r, c) : <<r, e>> \in ledger

Writing(r, t) ==
  /\ t \in answered /\ t.run = r /\ t.creator \in todo[r]
  /\ t.cents = Total(SalesOf(r, t.creator))
  /\ unwritten[r] \subseteq SalesOf(r, t.creator)
  /\ \A e \in SalesOf(r, t.creator) : e \in unwritten[r] \/ <<r, e>> \in ledger

RunInv(r) ==
  ListTold(r) /\ PaidTold(r) /\ (at[r] = "ledger" => \E t \in answered : Writing(r, t))

CountInv == CountTypes /\ \A r \in Passes : RunInv(r)

LEMMA CentsInsert ==
  ASSUME NEW ts, IsFiniteSet(ts), \A u \in ts : u.cents \in Nat,
         NEW t, t \notin ts, t.cents \in Nat
  PROVE  Cents({}) = 0 /\ Cents(ts \cup {t}) = Cents(ts) + t.cents /\ Cents(ts) \in Nat
<1> DEFINE f == [u \in ts \cup {t} |-> u.cents]
           g == [u \in ts |-> u.cents]
<1>1. /\ Cents(ts \cup {t}) = SumFunctionOnSet(f, ts \cup {t})
      /\ Cents(ts) = SumFunctionOnSet(g, ts)
  BY DEF Cents, SumFunction
<1>2. \A u \in ts : f[u] = u.cents /\ g[u] = u.cents /\ f[u] \in Nat
  OBVIOUS
<1>3. f[t] = t.cents /\ f[t] \in Nat
  OBVIOUS
<1>4. Cents({}) = 0
  BY FS_EmptySet, SumUnfolds DEF Cents, SumFunction
<1> HIDE DEF f, g
<1>5. SumFunctionOnSet(f, ts) = SumFunctionOnSet(g, ts)
  BY <1>2, SumAgrees
<1>6. SumFunctionOnSet(f, ts) \in Nat
  BY <1>2, SumNatural
<1>7. SumFunctionOnSet(f, ts \cup {t}) = f[t] + SumFunctionOnSet(f, ts)
  BY <1>2, <1>3, SumInsert
<1> QED  BY <1>1, <1>3, <1>4, <1>5, <1>6, <1>7

LEMMA TotalOfSales == \A events \in SUBSET Sales : Total(events) \in Nat
BY PayoutAssumption, FS_Subset, SumNatural DEF Total

(* A creator is added to one of the counts.                                *)
LEMMA CountedIs ==
  ASSUME counts \in [Passes -> Result], NEW r \in Passes, NEW c \in Creators
  PROVE  /\ \A kind \in {"paid", "skipped", "failed"} : Counted(r, kind, c) \in [Passes -> Result]
         /\ \A kind \in {"paid", "skipped", "failed"} : \A q \in Passes \ {r} :
              Counted(r, kind, c)[q] = counts[q]
         /\ \A kind \in {"paid", "skipped", "failed"} :
              LET k == Counted(r, kind, c)[r] IN
              /\ k.paid = counts[r].paid \cup (IF kind = "paid" THEN {c} ELSE {})
              /\ k.skipped = counts[r].skipped \cup (IF kind = "skipped" THEN {c} ELSE {})
              /\ k.failed = counts[r].failed \cup (IF kind = "failed" THEN {c} ELSE {})
              /\ k.cents = counts[r].cents
BY DEF Counted, Result

LEMMA CountInitInv == PayoutInit => CountInv
<1> SUFFICES ASSUME PayoutInit PROVE CountInv
  OBVIOUS
<1>1. CountTypes
  BY FS_EmptySet DEF PayoutInit, CountTypes, Result
<1>2. ASSUME NEW r \in Passes PROVE RunInv(r)
  <2>1. Cents(Mine(r)) = 0
    <3>1. Mine(r) = {}  BY DEF PayoutInit, Mine
    <3> QED  BY <3>1, FS_EmptySet, SumUnfolds DEF Cents, SumFunction
  <2> QED  BY <2>1 DEF PayoutInit, RunInv, ListTold, PaidTold, Told
<1> QED  BY <1>1, <1>2 DEF CountInv

(* A pass that counts no one: it stays where it is, fetches its list, or   *)
(* is over.  Others may add answered transfers and entries of their own.   *)
LEMMA RunFrame ==
  ASSUME NEW r \in Passes, RunInv(r), counts'[r] = counts[r],
         ledger \subseteq ledger', answered \subseteq answered',
         \A t \in answered' \ answered : t.run # r \/ t.creator \notin counts[r].paid,
         \/ UNCHANGED <<at[r], listed[r], todo[r], unwritten[r]>>
         \/ at[r] = "idle" /\ at'[r] = "create"
         \/ at'[r] = "over" /\ listed'[r] = listed[r]
         \/ /\ at[r] = "create" /\ at'[r] = "next" /\ listed'[r] = listed[r]
            /\ todo'[r] = {CreatorOf[e] : e \in listed[r]}
  PROVE  RunInv(r)'
<1>1. Mine(r)' = Mine(r) /\ Told(r)' = Told(r)
  BY DEF Mine, Told, RunInv
<1>2. ListTold(r)'
  BY <1>1 DEF ListTold, RunInv
<1>3. PaidTold(r)'
  <2>1. CASE listed'[r] = listed[r]
    <3>1. \A c : SalesOf(r, c)' = SalesOf(r, c)
      BY <2>1 DEF SalesOf
    <3> QED  BY <1>1, <3>1 DEF PaidTold, RunInv, Cents
  <2>2. CASE at[r] = "idle"
    <3>1. counts[r].paid = {}
      BY <2>2 DEF RunInv, ListTold, Told
    <3> QED  BY <1>1, <3>1 DEF PaidTold, RunInv, Cents
  <2> QED  BY <2>1, <2>2
<1>4. ASSUME at'[r] = "ledger" PROVE \E t \in answered' : Writing(r, t)'
  <2>1. UNCHANGED <<at[r], listed[r], todo[r], unwritten[r]>>
    BY <1>4
  <2>2. PICK t \in answered : Writing(r, t)
    BY <1>4, <2>1 DEF RunInv
  <2>3. \A c : SalesOf(r, c)' = SalesOf(r, c)
    BY <2>1 DEF SalesOf
  <2> QED  BY <2>1, <2>2, <2>3 DEF Writing
<1> QED  BY <1>2, <1>3, <1>4 DEF RunInv

(* The steps that neither ask for money nor count anyone.                  *)
LEMMA CountLook ==
  ASSUME PayoutInv, PayoutInv', CountInv,
         \/ Sell \/ StartStop \/ RestartWorker
         \/ \E r \in Passes : Fetch(r) \/ CreatePayoutRun(r) \/ LookupFails(r) \/ Complete(r)
  PROVE  CountInv'
<1>1. UNCHANGED <<counts, requests, answered, ledger>>
  BY DEF Sell, StartStop, RestartWorker, Fetch, CreatePayoutRun, LookupFails, Complete
<1>2. CountTypes'
  <2>1. timer' \in BOOLEAN
    BY DEF CountInv, CountTypes, Sell, StartStop, RestartWorker, Fetch, CreatePayoutRun,
           LookupFails, Complete
  <2> QED  BY <1>1, <2>1 DEF CountInv, CountTypes
<1>3. ASSUME NEW q \in Passes
      PROVE  \/ UNCHANGED <<at[q], listed[q], todo[q], unwritten[q]>>
             \/ at[q] = "idle" /\ at'[q] = "create"
             \/ at'[q] = "over" /\ listed'[q] = listed[q]
             \/ /\ at[q] = "create" /\ at'[q] = "next" /\ listed'[q] = listed[q]
                /\ todo'[q] = {CreatorOf[e] : e \in listed[q]}
  <2> USE DEF PayoutInv, PassInv
  <2>1. CASE Sell \/ StartStop  BY <2>1 DEF Sell, StartStop
  <2>2. CASE RestartWorker  BY <2>2 DEF RestartWorker
  <2>3. ASSUME NEW r \in Passes, Fetch(r)
        PROVE  \/ UNCHANGED <<at[q], listed[q], todo[q], unwritten[q]>>
               \/ at[q] = "idle" /\ at'[q] = "create"
    BY <2>3 DEF Fetch
  <2>4. ASSUME NEW r \in Passes, CreatePayoutRun(r)
        PROVE  \/ UNCHANGED <<at[q], listed[q], todo[q], unwritten[q]>>
               \/ at'[q] = "over" /\ listed'[q] = listed[q]
               \/ /\ at[q] = "create" /\ at'[q] = "next" /\ listed'[q] = listed[q]
                  /\ todo'[q] = {CreatorOf[e] : e \in listed[q]}
    BY <2>4 DEF CreatePayoutRun
  <2>5. ASSUME NEW r \in Passes, LookupFails(r) \/ Complete(r)
        PROVE  \/ UNCHANGED <<at[q], listed[q], todo[q], unwritten[q]>>
               \/ at'[q] = "over" /\ listed'[q] = listed[q]
    BY <2>5 DEF LookupFails, Complete
  <2> QED  BY <2>1, <2>2, <2>3, <2>4, <2>5
<1>4. ASSUME NEW q \in Passes PROVE RunInv(q)'
  BY <1>1, <1>3, RunFrame DEF CountInv
<1> QED  BY <1>2, <1>4 DEF CountInv

(* A creator leaves the pass as skipped or failed.                         *)
LEMMA RunCounts ==
  ASSUME CountTypes, NEW r \in Passes, RunInv(r), at[r] \in {"next", "ledger"},
         NEW c \in todo[r], c \in Creators, NEW kind \in {"skipped", "failed"},
         counts' = Counted(r, kind, c),
         at'[r] = "next", todo'[r] = todo[r] \ {c}, listed' = listed,
         answered' = answered, ledger \subseteq ledger'
  PROVE  RunInv(r)'
<1>1. /\ counts'[r].paid = counts[r].paid /\ counts'[r].cents = counts[r].cents
      /\ counts'[r].skipped = counts[r].skipped \cup (IF kind = "skipped" THEN {c} ELSE {})
      /\ counts'[r].failed = counts[r].failed \cup (IF kind = "failed" THEN {c} ELSE {})
  BY CountedIs DEF CountTypes
<1>2. Told(r)' = Told(r) \cup {c} /\ Mine(r)' = Mine(r) /\ \A d : SalesOf(r, d)' = SalesOf(r, d)
  BY <1>1 DEF Told, Mine, SalesOf
<1>3. c \notin Told(r) /\ {CreatorOf[e] : e \in listed[r]} = Told(r) \cup todo[r]
  BY DEF RunInv, ListTold
<1>4. ListTold(r)'
  BY <1>2, <1>3 DEF RunInv, ListTold
<1>5. PaidTold(r)'
  BY <1>1, <1>2, <1>3 DEF RunInv, PaidTold, Told, Cents
<1> QED  BY <1>4, <1>5 DEF RunInv

LEMMA CountSkip ==
  ASSUME PayoutInv, CountInv, NEW r \in Passes, Skip(r) PROVE CountInv'
<1>1. PICK c \in todo[r] : /\ at[r] = "next" /\ counts' = Counted(r, "skipped", c)
                           /\ todo' = [todo EXCEPT ![r] = @ \ {c}]
                           /\ UNCHANGED <<timer, at, listed, unwritten, requests, answered, ledger>>
  BY DEF Skip
<1>2. c \in Creators /\ counts \in [Passes -> Result]
  BY DEF PayoutInv, PassInv, CountInv, CountTypes
<1>3. counts' \in [Passes -> Result] /\ \A q \in Passes \ {r} : counts'[q] = counts[q]
  BY <1>1, <1>2, CountedIs
<1>4. CountTypes'
  BY <1>1, <1>3 DEF CountInv, CountTypes
<1>5. ASSUME NEW q \in Passes PROVE RunInv(q)'
  <2>1. CASE q = r
    <3>1. at'[r] = "next" /\ todo'[r] = todo[r] \ {c}
      BY <1>1 DEF PayoutInv, PassInv
    <3> QED  BY <2>1, <3>1, <1>1, <1>2, RunCounts DEF CountInv
  <2>2. CASE q # r
    <3>1. todo'[q] = todo[q]
      BY <2>2, <1>1 DEF PayoutInv, PassInv
    <3> QED  BY <2>2, <3>1, <1>1, <1>3, RunFrame DEF CountInv
  <2> QED  BY <2>1, <2>2
<1> QED  BY <1>4, <1>5 DEF CountInv

(* The answered transfer of c starts the writing of its entries; a failed  *)
(* one counts c as failed.                                                 *)
LEMMA CountTransfer ==
  ASSUME PayoutInv, CountInv, NEW r \in Passes, Transfer(r) PROVE CountInv'
<1>1. PICK c \in todo[r] : \E x :
        /\ x = [run |-> r, creator |-> c, cents |-> Total(SalesOf(r, c))]
        /\ at[r] = "next" /\ UNCHANGED <<timer, listed, ledger>>
        /\ \/ /\ answered' = answered \cup {x} /\ at' = [at EXCEPT ![r] = "ledger"]
              /\ unwritten' = [unwritten EXCEPT ![r] = SalesOf(r, c)]
              /\ UNCHANGED <<todo, counts>>
           \/ /\ counts' = Counted(r, "failed", c) /\ todo' = [todo EXCEPT ![r] = @ \ {c}]
              /\ UNCHANGED <<answered, at, unwritten>>
  BY DEF Transfer, Others
<1>2. PICK x :
        /\ x = [run |-> r, creator |-> c, cents |-> Total(SalesOf(r, c))]
        /\ at[r] = "next" /\ UNCHANGED <<timer, listed, ledger>>
        /\ \/ /\ answered' = answered \cup {x} /\ at' = [at EXCEPT ![r] = "ledger"]
              /\ unwritten' = [unwritten EXCEPT ![r] = SalesOf(r, c)]
              /\ UNCHANGED <<todo, counts>>
           \/ /\ counts' = Counted(r, "failed", c) /\ todo' = [todo EXCEPT ![r] = @ \ {c}]
              /\ UNCHANGED <<answered, at, unwritten>>
  BY <1>1
<1>3. c \in Creators /\ counts \in [Passes -> Result]
  BY DEF PayoutInv, PassInv, CountInv, CountTypes
<1>4. x \in [run : Passes, creator : Creators, cents : Nat]
  <2>1. SalesOf(r, c) \in SUBSET Sales
    BY DEF SalesOf, PayoutInv, PassInv
  <2> QED  BY <1>2, <1>3, <2>1, TotalOfSales
<1>5. x.run = r /\ x.creator = c /\ x.cents = Total(SalesOf(r, c))
  BY <1>2
<1>6. counts' \in [Passes -> Result] /\ \A q \in Passes \ {r} : counts'[q] = counts[q]
  BY <1>2, <1>3, CountedIs
<1>7. CountTypes'
  <2>1. answered' = answered \/ answered' = answered \cup {x}  BY <1>2
  <2>2. /\ answered \subseteq [run : Passes, creator : Creators, cents : Nat]
        /\ IsFiniteSet(answered)
    BY DEF CountInv, CountTypes
  <2>3. /\ answered' \subseteq [run : Passes, creator : Creators, cents : Nat]
        /\ IsFiniteSet(answered')
    BY <2>1, <2>2, <1>4, FS_AddElement
  <2> QED  BY <2>3, <1>2, <1>6 DEF CountInv, CountTypes
<1>8. RunInv(r)'
  <2>1. CASE at'[r] # "ledger"
    <3>1. /\ at'[r] = "next" /\ todo'[r] = todo[r] \ {c} /\ counts' = Counted(r, "failed", c)
          /\ answered' = answered
      BY <2>1, <1>2 DEF PayoutInv, PassInv
    <3> QED  BY <2>1, <3>1, <1>2, <1>3, RunCounts DEF CountInv
  <2>2. CASE at'[r] = "ledger"
    <3>1. /\ answered' = answered \cup {x} /\ at'[r] = "ledger" /\ todo'[r] = todo[r]
          /\ unwritten'[r] = SalesOf(r, c) /\ counts' = counts
      BY <2>2, <1>2 DEF PayoutInv, PassInv
    <3>2. c \notin Told(r)
      BY <1>2 DEF CountInv, RunInv, ListTold
    <3>3. Mine(r)' = Mine(r) /\ Told(r)' = Told(r) /\ \A d : SalesOf(r, d)' = SalesOf(r, d)
      BY <3>1, <3>2, <1>2, <1>5 DEF Mine, Told, SalesOf
    <3>4. ListTold(r)'
      BY <3>1, <3>3, <1>2 DEF CountInv, RunInv, ListTold
    <3>5. PaidTold(r)'
      BY <3>1, <3>3, <1>2 DEF CountInv, RunInv, PaidTold, Cents
    <3>6. Writing(r, x)'
      BY <3>1, <3>3, <1>5 DEF Writing, Total
    <3> QED  BY <3>1, <3>4, <3>5, <3>6 DEF RunInv
  <2> QED  BY <2>1, <2>2
<1>9. ASSUME NEW q \in Passes, q # r PROVE RunInv(q)'
  <2>1. UNCHANGED <<at[q], listed[q], todo[q], unwritten[q]>> /\ counts'[q] = counts[q]
    BY <1>2, <1>6, <1>9 DEF PayoutInv, PassInv
  <2>2. /\ answered \subseteq answered' /\ ledger \subseteq ledger'
        /\ \A t \in answered' \ answered : t.run # q
    BY <1>2, <1>5, <1>9
  <2> QED  BY <2>1, <2>2, RunFrame DEF CountInv
<1> QED  BY <1>7, <1>8, <1>9 DEF CountInv

(* What WriteEntry does to its pass: one entry more, the last entry of the *)
(* creator, or an error.                                                   *)
WritesOne(r, e) ==
  /\ ledger' = ledger \cup {<<r, e>>} /\ unwritten' = [unwritten EXCEPT ![r] = @ \ {e}]
  /\ UNCHANGED <<at, todo, counts>>
WritesLast(r, e) ==
  LET c == CreatorOf[e] IN
  /\ ledger' = ledger \cup {<<r, e>>} /\ unwritten[r] = {e}
  /\ unwritten' = [unwritten EXCEPT ![r] = @ \ {e}]
  /\ at' = [at EXCEPT ![r] = "next"] /\ todo' = [todo EXCEPT ![r] = @ \ {c}]
  /\ counts' = [Counted(r, "paid", c) EXCEPT ![r].cents = @ + Total(SalesOf(r, c))]
WriteFails(r, e) ==
  LET c == CreatorOf[e] IN
  /\ ledger' \in {ledger, ledger \cup {<<r, e>>}}
  /\ unwritten' = [unwritten EXCEPT ![r] = {}]
  /\ at' = [at EXCEPT ![r] = "next"] /\ todo' = [todo EXCEPT ![r] = @ \ {c}]
  /\ counts' = Counted(r, "failed", c)

LEMMA CountWrite ==
  ASSUME PayoutInv, CountInv, NEW r \in Passes, WriteEntry(r) PROVE CountInv'
<1>1. PICK e \in unwritten[r] :
        /\ at[r] = "ledger" /\ UNCHANGED <<timer, listed, requests, answered>>
        /\ WritesOne(r, e) \/ WritesLast(r, e) \/ WriteFails(r, e)
  BY DEF WriteEntry, Others, WritesOne, WritesLast, WriteFails
<1>2. PICK t \in answered : Writing(r, t)
  BY <1>1 DEF CountInv, RunInv
<1> DEFINE c == CreatorOf[e]
<1>3. c = t.creator /\ c \in todo[r] /\ e \in SalesOf(r, c)
  BY <1>2 DEF Writing, SalesOf
<1>4. c \in Creators /\ counts \in [Passes -> Result] /\ e \in Sales
  BY <1>3 DEF PayoutInv, PassInv, CountInv, CountTypes
<1>5. Total(SalesOf(r, c)) \in Nat
  <2>1. SalesOf(r, c) \in SUBSET Sales
    BY DEF SalesOf, PayoutInv, PassInv
  <2> QED  BY <2>1, TotalOfSales
<1> HIDE DEF c
<1>6. /\ counts' \in [Passes -> Result]
      /\ \A q \in Passes \ {r} : counts'[q] = counts[q]
  <2>1. CASE WritesOne(r, e)  BY <2>1, <1>4 DEF WritesOne
  <2>2. CASE WriteFails(r, e)  BY <2>2, <1>4, CountedIs DEF WriteFails, c
  <2>3. CASE WritesLast(r, e)
    <3>1. PICK k : /\ k \in [Passes -> Result] /\ \A q \in Passes \ {r} : k[q] = counts[q]
                   /\ counts' = [k EXCEPT ![r].cents = @ + Total(SalesOf(r, c))]
      BY <2>3, <1>4, CountedIs DEF WritesLast, c
    <3>2. k[r] \in Result
      BY <3>1
    <3>3. [k[r] EXCEPT !.cents = @ + Total(SalesOf(r, c))] \in Result
      BY <3>2, <1>5 DEF Result
    <3> QED  BY <3>1, <3>3
  <2> QED  BY <1>1, <2>1, <2>2, <2>3
<1>7. ledger \subseteq ledger' /\ ledger' \subseteq ledger \cup {<<r, e>>}
  BY <1>1 DEF WritesOne, WritesLast, WriteFails
<1>8. CountTypes'
  BY <1>1, <1>4, <1>6, <1>7 DEF CountInv, CountTypes
<1>9. ASSUME NEW q \in Passes, q # r PROVE RunInv(q)'
  <2>1. UNCHANGED <<at[q], listed[q], todo[q], unwritten[q]>> /\ counts'[q] = counts[q]
    BY <1>1, <1>6, <1>9 DEF WritesOne, WritesLast, WriteFails, PayoutInv, PassInv
  <2> QED  BY <2>1, <1>1, <1>7, RunFrame DEF CountInv
<1>10. \A d : SalesOf(r, d)' = SalesOf(r, d)
  BY <1>1 DEF SalesOf
<1>11. CASE WritesOne(r, e)
  <2>1. /\ Mine(r)' = Mine(r) /\ Told(r)' = Told(r)
        /\ at'[r] = at[r] /\ todo'[r] = todo[r] /\ unwritten'[r] = unwritten[r] \ {e}
    BY <1>1, <1>11 DEF WritesOne, Mine, Told, PayoutInv, PassInv
  <2>2. ListTold(r)' /\ PaidTold(r)'
    BY <2>1, <1>1, <1>7, <1>10, <1>11 DEF CountInv, RunInv, ListTold, PaidTold, WritesOne, Cents
  <2>3. Writing(r, t)'
    BY <2>1, <1>1, <1>2, <1>10, <1>11 DEF Writing, WritesOne, Total
  <2>4. RunInv(r)'
    BY <2>2, <2>3, <1>1 DEF RunInv
  <2> QED  BY <2>4, <1>8, <1>9 DEF CountInv
<1>12. CASE WriteFails(r, e)
  <2>1. /\ at'[r] = "next" /\ todo'[r] = todo[r] \ {c}
        /\ counts' = Counted(r, "failed", c)
    BY <1>12 DEF WriteFails, PayoutInv, PassInv, c
  <2>2. RunInv(r)'
    BY <2>1, <1>1, <1>3, <1>4, <1>7, RunCounts DEF CountInv
  <2> QED  BY <2>2, <1>8, <1>9 DEF CountInv
<1>13. CASE WritesLast(r, e)
  <2>1. /\ at'[r] = "next" /\ todo'[r] = todo[r] \ {c}
        /\ counts'[r].paid = counts[r].paid \cup {c} /\ counts'[r].failed = counts[r].failed
        /\ counts'[r].skipped = counts[r].skipped
        /\ counts'[r].cents = counts[r].cents + Total(SalesOf(r, c))
    <3> DEFINE k == Counted(r, "paid", c)
    <3>1. /\ k \in [Passes -> Result]
          /\ k[r].paid = counts[r].paid \cup {c} /\ k[r].failed = counts[r].failed
          /\ k[r].skipped = counts[r].skipped /\ k[r].cents = counts[r].cents
          /\ counts' = [k EXCEPT ![r].cents = @ + Total(SalesOf(r, c))]
      <4>1. counts' = [k EXCEPT ![r].cents = @ + Total(SalesOf(r, c))]
        BY <1>13 DEF WritesLast, c
      <4> HIDE DEF k
      <4>2. k[r].paid = counts[r].paid \cup {c} /\ k[r].failed = counts[r].failed \cup {}
            /\ k[r].skipped = counts[r].skipped \cup {} /\ k[r].cents = counts[r].cents
        BY <1>4, CountedIs DEF k
      <4>3. k \in [Passes -> Result]
        BY <1>4, CountedIs DEF k
      <4> QED  BY <4>1, <4>2, <4>3
    <3> HIDE DEF k
    <3>2. k[r] \in Result
      BY <3>1
    <3>3. counts'[r] = [k[r] EXCEPT !.cents = @ + Total(SalesOf(r, c))]
      BY <3>1
    <3>4. at'[r] = "next" /\ todo'[r] = todo[r] \ {c}
      BY <1>13 DEF WritesLast, PayoutInv, PassInv, c
    <3> QED  BY <3>1, <3>2, <3>3, <3>4 DEF Result
  <2>2. c \notin Told(r) /\ {CreatorOf[f] : f \in listed[r]} = Told(r) \cup todo[r]
    BY <1>1, <1>3 DEF CountInv, RunInv, ListTold
  <2>3. Told(r)' = Told(r) \cup {c}
    BY <2>1 DEF Told
  <2>4. \A u \in answered : u.run = r /\ u.creator = c => u = t
    <3>1. \A u \in answered : u.cents = Total(SalesOf(u.run, u.creator))
      BY DEF PayoutInv, TransferInv
    <3>2. answered \subseteq [run : Passes, creator : Creators, cents : Nat]
      BY DEF CountInv, CountTypes
    <3>3. t \in answered /\ t.run = r /\ t.creator = c  BY <1>2, <1>3 DEF Writing
    <3> QED  BY <3>1, <3>2, <3>3
  <2>5. t \notin Mine(r) /\ Mine(r)' = Mine(r) \cup {t}
    BY <2>1, <2>2, <2>4, <1>1, <1>2, <1>3 DEF Mine, Told, Writing
  <2>6. Cents(Mine(r) \cup {t}) = Cents(Mine(r)) + t.cents
    <3>1. IsFiniteSet(Mine(r)) /\ t.cents \in Nat /\ \A u \in Mine(r) : u.cents \in Nat
      BY FS_Subset DEF Mine, CountInv, CountTypes, PayoutInv, PassInv
    <3> QED  BY <2>5, <3>1, CentsInsert
  <2>7. ListTold(r)'
    <3>1. todo'[r] \cap Told(r)' = {}
      BY <2>1, <2>3, <1>1 DEF CountInv, RunInv, ListTold
    <3>2. Told(r)' \cup todo'[r] = Told(r) \cup todo[r]
      BY <2>1, <2>3, <1>3
    <3>3. {CreatorOf[f] : f \in listed'[r]} = Told(r)' \cup todo'[r]
      BY <2>2, <3>2, <1>1
    <3> QED  BY <2>1, <3>1, <3>3 DEF ListTold
  <2>8. \A f \in SalesOf(r, c) : <<r, f>> \in ledger'
    BY <1>2, <1>3, <1>13 DEF Writing, WritesLast
  <2>9. PaidTold(r)'
    <3>1. counts'[r].cents = Cents(Mine(r)')
      BY <2>1, <2>5, <2>6, <1>2, <1>3 DEF CountInv, RunInv, PaidTold, Writing
    <3>2. Cents(Mine(r))' = Cents(Mine(r)')
      BY DEF Cents
    <3>3. \A d \in counts'[r].paid : /\ \E u \in Mine(r)' : u.creator = d
                                     /\ \A f \in SalesOf(r, d)' : <<r, f>> \in ledger'
      BY <2>1, <2>5, <2>8, <1>3, <1>7, <1>10 DEF CountInv, RunInv, PaidTold
    <3>4. /\ counts'[r].paid \cap counts'[r].failed = {}
          /\ counts'[r].skipped \cap (counts'[r].paid \cup counts'[r].failed) = {}
      BY <2>1, <2>2 DEF CountInv, RunInv, PaidTold, Told
    <3> QED  BY <3>1, <3>2, <3>3, <3>4 DEF PaidTold
  <2>10. RunInv(r)'
    BY <2>1, <2>7, <2>9 DEF RunInv
  <2> QED  BY <2>10, <1>8, <1>9 DEF CountInv
<1> QED  BY <1>1, <1>11, <1>12, <1>13

PayoutAll == PayoutInv /\ CountInv

LEMMA PayoutAllStep == PayoutAll /\ [PayoutNext]_payoutVars => PayoutAll'
<1> SUFFICES ASSUME PayoutAll, [PayoutNext]_payoutVars PROVE PayoutAll'
  OBVIOUS
<1>1. PayoutInv /\ CountInv /\ PayoutInv'
  BY PayoutStep DEF PayoutAll
<1>2. CASE UNCHANGED payoutVars
  <2>1. CountTypes'
    BY <1>1, <1>2 DEF payoutVars, CountInv, CountTypes
  <2>2. ASSUME NEW r \in Passes PROVE RunInv(r)'
    BY <1>1, <1>2, RunFrame DEF payoutVars, CountInv
  <2> QED  BY <1>1, <2>1, <2>2 DEF PayoutAll, CountInv
<1>3. ASSUME NEW r \in Passes, Skip(r) PROVE CountInv'  BY <1>1, <1>3, CountSkip
<1>4. ASSUME NEW r \in Passes, Transfer(r) PROVE CountInv'  BY <1>1, <1>4, CountTransfer
<1>5. ASSUME NEW r \in Passes, WriteEntry(r) PROVE CountInv'  BY <1>1, <1>5, CountWrite
<1> QED  BY <1>1, <1>2, <1>3, <1>4, <1>5, CountLook DEF PayoutNext, PayoutAll

(* The counts of a run (PayoutResult of runOnce) tell each creator of the  *)
(* list once, and total_payout_cents is the sum of the transfers answered  *)
(* for those counted as paid.                                              *)
THEOREM RunIsTold == PayoutSpec => []CountsTellTheRun
<1>1. PayoutInit => PayoutAll
  BY PayoutInitInv, CountInitInv DEF PayoutAll
<1>2. PayoutAll => CountsTellTheRun
  BY DEF PayoutAll, CountInv, RunInv, ListTold, PaidTold, Told, Mine, Cents, CountsTellTheRun
<1> QED  BY PayoutAllStep, <1>1, <1>2, PTL DEF PayoutSpec

(* The types of the executor's state, timer and results included.          *)
THEOREM PayoutTypeCorrect == PayoutSpec => []PayoutTypeOK
<1>1. PayoutInit => PayoutAll
  BY PayoutInitInv, CountInitInv DEF PayoutAll
<1>2. PayoutAll => PayoutTypeOK
  BY DEF PayoutAll, PayoutInv, PassInv, CountInv, CountTypes, PayoutTypeOK
<1> QED  BY PayoutAllStep, <1>1, <1>2, PTL DEF PayoutSpec

-----------------------------------------------------------------------------
(* The gateway: what it answers is durable, and what it stores is          *)
(* published or accounted for.                                             *)

Handling(c) == serving[c] \in {"publish", "ack"}

(* One handler over all connections has inserted an op and not answered    *)
(* yet: then no answer tells of it, and until it publishes the stream has  *)
(* not got it.                                                             *)
HandlerInv ==
  \A c \in Conns : Handling(c) =>
    /\ Current(c) \in opRows
    /\ \A a \in answers : a[3] = "applied" => a[2] # Current(c)
    /\ \A d \in Conns : Handling(d) /\ Current(d) = Current(c) => c = d
    /\ serving[c] = "publish" => \A i \in DOMAIN bus : bus[i] # Current(c)

GatewayInv ==
  /\ GatewayTypeOK
  /\ HandlerInv /\ AnswerIsDurable /\ StoredReachesTheBus

LEMMA AppendFacts ==
  ASSUME NEW S, NEW s \in Seq(S), NEW x \in S
  PROVE  /\ Append(s, x) \in Seq(S) /\ Append(s, x) # <<>> /\ Last(Append(s, x)) = x
         /\ \A y : y \in ToSet(Append(s, x)) <=> y \in ToSet(s) \/ y = x
         /\ \A i \in DOMAIN Append(s, x) : \/ i \in DOMAIN s /\ Append(s, x)[i] = s[i]
                                           \/ i = Len(s) + 1 /\ Append(s, x)[i] = x
<1>1. /\ Append(s, x) \in Seq(S) /\ Append(s, x) # <<>> /\ Len(Append(s, x)) = Len(s) + 1
      /\ \A i \in 1..Len(s) : Append(s, x)[i] = s[i]
      /\ Append(s, x)[Len(s) + 1] = x
  BY AppendProperties
<1>2. DOMAIN s = 1..Len(s) /\ DOMAIN Append(s, x) = 1..(Len(s) + 1) /\ Len(s) \in Nat
  BY <1>1, LenProperties
<1>3. \A i \in DOMAIN Append(s, x) : \/ i \in DOMAIN s /\ Append(s, x)[i] = s[i]
                                     \/ i = Len(s) + 1 /\ Append(s, x)[i] = x
  BY <1>1, <1>2
<1>4. \A y : y \in ToSet(Append(s, x)) <=> y \in ToSet(s) \/ y = x
  BY <1>1, <1>2, <1>3 DEF ToSet
<1> QED  BY <1>1, <1>3, <1>4 DEF Last

(* The channel of a session never grows past its capacity.                 *)
LEMMA AnswerFacts ==
  ASSUME GatewayTypeOK, NEW c \in Conns, NEW o \in Frames, NEW kind \in Kinds, Answer(c, o, kind)
  PROVE  /\ answers' = answers \cup {<<c, o, kind>>} /\ answers' \subseteq Conns \X Frames \X Kinds
         /\ outCh' \in [Conns -> Seq([op : Frames, kind : Kinds])]
         /\ \A d \in Conns : Len(outCh'[d]) <= OutCap
<1>1. PICK sent \in [op : Frames, kind : Kinds] : sent = [op |-> o, kind |-> kind]
  OBVIOUS
<1>2. /\ outCh \in [Conns -> Seq([op : Frames, kind : Kinds])]
      /\ outCh[c] \in Seq([op : Frames, kind : Kinds])
      /\ \A d \in Conns : Len(outCh[d]) <= OutCap
  BY DEF GatewayTypeOK
<1>3. Append(outCh[c], sent) \in Seq([op : Frames, kind : Kinds])
      /\ Len(Append(outCh[c], sent)) = Len(outCh[c]) + 1
  BY <1>2, AppendProperties
<1>4. Len(outCh[c]) \in Nat  BY <1>2, LenProperties
<1>5. \/ outCh' = outCh
      \/ outCh' = [outCh EXCEPT ![c] = Append(outCh[c], sent)] /\ Len(outCh[c]) < OutCap
  BY <1>1 DEF Answer
<1>6. outCh' \in [Conns -> Seq([op : Frames, kind : Kinds])]
  BY <1>2, <1>3, <1>5
<1>7. ASSUME NEW d \in Conns PROVE Len(outCh'[d]) <= OutCap
  <2>1. CASE outCh' = outCh  BY <2>1, <1>2
  <2>2. CASE outCh' = [outCh EXCEPT ![c] = Append(outCh[c], sent)] /\ Len(outCh[c]) < OutCap
    <3>1. Len(outCh[c]) + 1 <= OutCap  BY <2>2, <1>4, GatewayAssumption
    <3>2. outCh'[d] = IF d = c THEN Append(outCh[c], sent) ELSE outCh[d]  BY <2>2, <1>2
    <3> QED  BY <3>1, <3>2, <1>2, <1>3
  <2> QED  BY <2>1, <2>2, <1>5
<1>8. answers' = answers \cup {<<c, o, kind>>} /\ answers' \subseteq Conns \X Frames \X Kinds
  BY DEF Answer, GatewayTypeOK
<1> QED  BY <1>6, <1>7, <1>8

LEMMA GatewayInitInv == GatewayInit => GatewayInv
<1> SUFFICES ASSUME GatewayInit PROVE GatewayInv
  OBVIOUS
<1> USE GatewayAssumption DEF GatewayInit
<1>1. GatewayTypeOK  BY DEF GatewayTypeOK
<1>2. HandlerInv /\ AnswerIsDurable  BY DEF HandlerInv, Handling, AnswerIsDurable
<1>3. StoredReachesTheBus
  BY DEF StoredReachesTheBus, IsInjective
<1> QED  BY <1>1, <1>2, <1>3 DEF GatewayInv

(* The steps that touch neither rows, stream nor answers: a handler may    *)
(* end (HandleOp with an error aside), but none appears.                   *)
LEMMA QuietStep ==
  ASSUME GatewayInv, GatewayTypeOK',
         UNCHANGED <<serving, carried, opRows, bus, answers, unpublished>>
  PROVE  GatewayInv'
<1>1. \A c \in Conns : Current(c)' = Current(c)  BY DEF Current
<1> QED  BY <1>1 DEF GatewayInv, HandlerInv, Handling, AnswerIsDurable, StoredReachesTheBus

LEMMA QuietActions ==
  ASSUME GatewayInv, NEW c \in Conns, Connect(c) \/ WriteFrame(c) \/ Disconnect(c)
  PROVE  GatewayInv'
<1>1. UNCHANGED <<serving, carried, opRows, bus, answers, unpublished>>
  BY DEF Connect, WriteFrame, Disconnect
<1>2. GatewayTypeOK'
  <2>1. conn' \in [Conns -> {"new", "open", "closed"}]
    BY DEF GatewayInv, GatewayTypeOK, Connect, WriteFrame, Disconnect
  <2>2. CASE outCh' = outCh  BY <1>1, <2>1, <2>2 DEF GatewayInv, GatewayTypeOK
  <2>3. CASE outCh' # outCh
    <3>1. outCh[c] # <<>> /\ outCh' = [outCh EXCEPT ![c] = Tail(outCh[c])]
      BY <2>3 DEF Connect, WriteFrame, Disconnect
    <3>2. outCh[c] \in Seq([op : Frames, kind : Kinds])  BY DEF GatewayInv, GatewayTypeOK
    <3>3. /\ Tail(outCh[c]) \in Seq([op : Frames, kind : Kinds])
          /\ Len(Tail(outCh[c])) = Len(outCh[c]) - 1
          /\ Len(outCh[c]) \in Nat /\ Len(outCh[c]) <= OutCap
      BY <3>1, <3>2, HeadTailProperties, LenProperties DEF GatewayInv, GatewayTypeOK
    <3>4. outCh' \in [Conns -> Seq([op : Frames, kind : Kinds])]
      BY <3>1, <3>3 DEF GatewayInv, GatewayTypeOK
    <3>5. ASSUME NEW d \in Conns PROVE Len(outCh'[d]) <= OutCap
      <4>1. outCh'[d] = IF d = c THEN Tail(outCh[c]) ELSE outCh[d]
        BY <3>1 DEF GatewayInv, GatewayTypeOK
      <4> QED  BY <4>1, <3>3, GatewayAssumption DEF GatewayInv, GatewayTypeOK
    <3> QED  BY <1>1, <2>1, <3>4, <3>5 DEF GatewayInv, GatewayTypeOK
  <2> QED  BY <2>2, <2>3
<1> QED  BY <1>1, <1>2, QuietStep

(* The carried frames after c has read one more.                           *)
LEMMA CarriedFacts ==
  ASSUME GatewayTypeOK, NEW c \in Conns, NEW o \in Frames,
         carried' = [carried EXCEPT ![c] = Append(carried[c], o)]
  PROVE  /\ carried' \in [Conns -> Seq(Frames)] /\ carried'[c] # <<>>
         /\ Current(c)' = o
         /\ \A d \in Conns : d # c => carried'[d] = carried[d] /\ Current(d)' = Current(d)
<1>1. carried[c] \in Seq(Frames)  BY DEF GatewayTypeOK
<1>2. /\ Append(carried[c], o) \in Seq(Frames) /\ Append(carried[c], o) # <<>>
      /\ Last(Append(carried[c], o)) = o
  BY <1>1, AppendFacts
<1>3. carried'[c] = Append(carried[c], o) /\ \A d \in Conns : d # c => carried'[d] = carried[d]
  BY DEF GatewayTypeOK
<1>4. carried' \in [Conns -> Seq(Frames)]  BY <1>2 DEF GatewayTypeOK
<1> QED  BY <1>2, <1>3, <1>4 DEF Current

LEMMA HandleOpInv ==
  ASSUME GatewayInv, NEW c \in Conns, NEW o \in Frames, HandleOp(c, o)
  PROVE  GatewayInv'
<1> USE DEF GatewayInv
<1>1. /\ serving[c] = "read" /\ conn' = conn /\ bus' = bus /\ ~Handling(c)
      /\ carried' = [carried EXCEPT ![c] = Append(carried[c], o)]
      /\ opRows \subseteq opRows' /\ opRows' \subseteq Frames \ Invalid
      /\ unpublished \subseteq unpublished' /\ unpublished' \subseteq opRows'
      /\ \A p \in opRows' \ opRows : p = o
  BY DEF HandleOp, Handling, GatewayTypeOK
<1>2. CASE /\ o \notin opRows /\ opRows' = opRows \cup {o} /\ Goes(c, "publish")
           /\ UNCHANGED <<answers, outCh, unpublished>>
  <2>1. GatewayTypeOK'
    BY <1>1, <1>2, CarriedFacts DEF GatewayTypeOK, Goes
  <2>2. HandlerInv'
    <3> SUFFICES ASSUME NEW d \in Conns, Handling(d)'
                 PROVE  /\ Current(d)' \in opRows'
                        /\ \A a \in answers' : a[3] = "applied" => a[2] # Current(d)'
                        /\ \A e \in Conns : Handling(e)' /\ Current(e)' = Current(d)' => d = e
                        /\ serving'[d] = "publish" => \A i \in DOMAIN bus' : bus'[i] # Current(d)'
      BY DEF HandlerInv
    <3>0. Current(c)' = o /\ \A e \in Conns : e # c => Current(e)' = Current(e)
                                            /\ serving'[e] = serving[e]
      BY <1>1, <1>2, CarriedFacts DEF Goes, GatewayTypeOK
    <3>1. CASE d = c
      <4>1. \A a \in answers : a[3] = "applied" => a[2] # o
        BY <1>2 DEF AnswerIsDurable
      <4>2. \A e \in Conns : Handling(e) => Current(e) # o  BY <1>2 DEF HandlerInv
      <4>3. \A i \in DOMAIN bus : bus[i] # o  BY <1>2 DEF StoredReachesTheBus
      <4> QED  BY <3>0, <3>1, <4>1, <4>2, <4>3, <1>1, <1>2 DEF Handling
    <3>2. CASE d # c
      <4>1. Handling(d) /\ Current(d)' = Current(d) /\ Current(d) # o
        BY <3>0, <3>2, <1>2 DEF Handling, HandlerInv
      <4> QED  BY <4>1, <3>0, <3>2, <1>1, <1>2 DEF HandlerInv, Handling
    <3> QED  BY <3>1, <3>2
  <2>3. AnswerIsDurable'  BY <1>2 DEF AnswerIsDurable
  <2>4. StoredReachesTheBus'
    <3>1. Current(c)' = o /\ serving'[c] = "publish"
          /\ \A e \in Conns : e # c => Current(e)' = Current(e) /\ serving'[e] = serving[e]
      BY <1>1, <1>2, CarriedFacts DEF Goes, GatewayTypeOK
    <3> QED  BY <3>1, <1>1, <1>2 DEF StoredReachesTheBus, Handling
  <2> QED  BY <2>1, <2>2, <2>3, <2>4
<1>3. CASE /\ serving' = serving
           /\ \/ Answer(c, o, "error")
              \/ o \in opRows /\ Answer(c, o, "duplicate")
           /\ opRows' \ opRows \subseteq unpublished'
  <2>1. /\ GatewayTypeOK' /\ \A d \in Conns : Handling(d) => d # c
        /\ \A d \in Conns : d # c => Current(d)' = Current(d)
        /\ \E kind \in Kinds : kind # "applied" /\ answers' = answers \cup {<<c, o, kind>>}
                             /\ (kind # "error" => o \in opRows)
    <3>1. PICK kind \in Kinds : /\ kind # "applied" /\ Answer(c, o, kind)
                                /\ kind # "error" => o \in opRows
      BY <1>3 DEF Kinds
    <3>2. GatewayTypeOK'
      BY <1>1, <1>3, <3>1, CarriedFacts, AnswerFacts DEF GatewayTypeOK
    <3> QED  BY <3>1, <3>2, <1>1, AnswerFacts, CarriedFacts DEF Handling
  <2>2. HandlerInv'  BY <2>1, <1>1, <1>3 DEF HandlerInv, Handling
  <2>3. AnswerIsDurable'  BY <2>1, <1>1 DEF AnswerIsDurable
  <2>4. StoredReachesTheBus'
    BY <2>1, <1>1, <1>3 DEF StoredReachesTheBus, Handling
  <2> QED  BY <2>1, <2>2, <2>3, <2>4
<1> QED
  <2>1. \/ o \in Invalid /\ Answer(c, o, "error") /\ UNCHANGED <<serving, opRows, unpublished>>
        \/ /\ opRows' = opRows \cup {o} /\ UNCHANGED unpublished
           /\ \/ o \notin opRows /\ Goes(c, "publish") /\ UNCHANGED <<answers, outCh>>
              \/ o \in opRows /\ Answer(c, o, "duplicate") /\ UNCHANGED serving
        \/ /\ Answer(c, o, "error") /\ UNCHANGED serving
           /\ unpublished' = unpublished \cup (opRows' \ opRows)
    BY DEF HandleOp, RowAffected
  <2> QED  BY <2>1, <1>2, <1>3

LEMMA PublishOpInv ==
  ASSUME GatewayInv, NEW c \in Conns, PublishOp(c) PROVE GatewayInv'
<1> USE DEF GatewayInv
<1>1. /\ serving[c] = "publish" /\ serving' = [serving EXCEPT ![c] = "ack"]
      /\ UNCHANGED <<conn, carried, outCh, opRows, answers>>
      /\ unpublished \subseteq unpublished'
      /\ unpublished' \subseteq unpublished \cup {Current(c)}
      /\ bus' = bus \/ bus' = Append(bus, Current(c))
      /\ bus' = bus => Current(c) \in unpublished'
  <2>1. bus' # bus \/ Current(c) \in unpublished'
    <3>1. bus \in Seq(Frames) /\ Current(c) \in Frames
      BY DEF PublishOp, HandlerInv, Handling, GatewayTypeOK
    <3>2. Append(bus, Current(c)) # bus  BY <3>1, AppendProperties, LenProperties
    <3> QED  BY <3>2 DEF PublishOp
  <2> QED  BY <2>1 DEF PublishOp, Goes
<1>2. /\ Handling(c) /\ Current(c) \in opRows /\ Current(c) \in Frames
      /\ \A i \in DOMAIN bus : bus[i] # Current(c)
      /\ \A d \in Conns : Handling(d) /\ d # c => Current(d) # Current(c)
  BY <1>1 DEF HandlerInv, Handling, GatewayTypeOK
<1>3. \A d \in Conns : Current(d)' = Current(d)  BY <1>1 DEF Current
<1>4. /\ bus' \in Seq(Frames)
      /\ \A i \in DOMAIN bus' : (i \in DOMAIN bus /\ bus'[i] = bus[i])
                              \/ (i = Len(bus) + 1 /\ bus'[i] = Current(c))
      /\ \A o : o \in ToSet(bus) => o \in ToSet(bus')
      /\ Current(c) \in ToSet(bus') \cup unpublished'
  <2>1. CASE bus' = bus  BY <2>1, <1>1 DEF GatewayTypeOK
  <2>2. CASE bus' = Append(bus, Current(c))  BY <2>2, <1>2, AppendFacts DEF GatewayTypeOK
  <2> QED  BY <2>1, <2>2, <1>1
<1>5. \A d \in Conns : serving'[d] = (IF d = c THEN "ack" ELSE serving[d])
  BY <1>1 DEF GatewayTypeOK
<1>6. GatewayTypeOK'  BY <1>1, <1>2, <1>4, <1>5 DEF GatewayTypeOK
<1>7. HandlerInv'
  <2> SUFFICES ASSUME NEW d \in Conns, Handling(d)'
               PROVE  /\ Current(d)' \in opRows'
                      /\ \A a \in answers' : a[3] = "applied" => a[2] # Current(d)'
                      /\ \A e \in Conns : Handling(e)' /\ Current(e)' = Current(d)' => d = e
                      /\ serving'[d] = "publish" => \A i \in DOMAIN bus' : bus'[i] # Current(d)'
    BY DEF HandlerInv
  <2>1. Handling(d) /\ \A e \in Conns : Handling(e)' => Handling(e)
    BY <1>2, <1>5 DEF Handling
  <2>2. serving'[d] = "publish" => \A i \in DOMAIN bus' : bus'[i] # Current(d)
    BY <2>1, <1>2, <1>4, <1>5 DEF HandlerInv
  <2> QED  BY <2>1, <2>2, <1>1, <1>3 DEF HandlerInv
<1>8. AnswerIsDurable'  BY <1>1 DEF AnswerIsDurable
<1>9. StoredReachesTheBus'
  <2>1. IsInjective(bus')
    BY <1>2, <1>4 DEF StoredReachesTheBus, IsInjective
  <2>2. \A i \in DOMAIN bus' : bus'[i] \in opRows'
    BY <1>1, <1>2, <1>4 DEF StoredReachesTheBus
  <2>3. ASSUME NEW o \in opRows'
        PROVE  \/ o \in ToSet(bus') \cup unpublished'
               \/ \E d \in Conns : serving'[d] = "publish" /\ Current(d)' = o
    BY <1>1, <1>3, <1>4, <1>5 DEF StoredReachesTheBus
  <2> QED  BY <2>1, <2>2, <2>3 DEF StoredReachesTheBus
<1> QED  BY <1>6, <1>7, <1>8, <1>9

LEMMA SendAckInv ==
  ASSUME GatewayInv, NEW c \in Conns, SendAck(c) PROVE GatewayInv'
<1> USE DEF GatewayInv
<1>1. /\ serving[c] = "ack" /\ serving' = [serving EXCEPT ![c] = "read"]
      /\ Answer(c, Current(c), "applied")
      /\ UNCHANGED <<conn, carried, opRows, bus, unpublished>>
  BY DEF SendAck, Goes
<1>2. /\ Handling(c) /\ Current(c) \in opRows /\ Current(c) \in Frames
      /\ \A a \in answers : a[3] = "applied" => a[2] # Current(c)
      /\ \A d \in Conns : Handling(d) /\ d # c => Current(d) # Current(c)
  BY <1>1 DEF HandlerInv, Handling, GatewayTypeOK
<1>3. /\ answers' = answers \cup {<<c, Current(c), "applied">>}
      /\ answers' \subseteq Conns \X Frames \X Kinds
      /\ outCh' \in [Conns -> Seq([op : Frames, kind : Kinds])]
      /\ \A d \in Conns : Len(outCh'[d]) <= OutCap
  BY <1>1, <1>2, AnswerFacts DEF Kinds
<1>4. \A d \in Conns : Current(d)' = Current(d)  BY <1>1 DEF Current
<1>5. \A d \in Conns : serving'[d] = (IF d = c THEN "read" ELSE serving[d])
  BY <1>1 DEF GatewayTypeOK
<1>6. GatewayTypeOK'  BY <1>1, <1>3, <1>5 DEF GatewayTypeOK
<1>7. HandlerInv'
  BY <1>1, <1>2, <1>3, <1>4, <1>5 DEF HandlerInv, Handling
<1>8. AnswerIsDurable'
  <2> DEFINE new == <<c, Current(c), "applied">>
  <2>1. \A a \in answers' : a \in answers \/ a = new  BY <1>3
  <2>2. \A a \in answers' : a[3] # "error" => a[2] \in opRows'
    BY <1>1, <1>2, <2>1 DEF AnswerIsDurable
  <2>3. ASSUME NEW a \in answers', NEW b \in answers', a[3] = "applied", b[3] = "applied",
               a[2] = b[2]
        PROVE  a = b
    <3>1. CASE a \in answers /\ b \in answers  BY <3>1, <2>3 DEF AnswerIsDurable
    <3>2. CASE a = new /\ b = new  BY <3>2
    <3>3. CASE a \in answers /\ b = new
      <4>1. a[2] # Current(c)  BY <3>3, <2>3, <1>2
      <4> QED  BY <3>3, <4>1, <2>3
    <3>4. CASE a = new /\ b \in answers
      <4>1. b[2] # Current(c)  BY <3>4, <2>3, <1>2
      <4> QED  BY <3>4, <4>1, <2>3
    <3> QED  BY <2>1, <3>1, <3>2, <3>3, <3>4
  <2> QED  BY <2>2, <2>3 DEF AnswerIsDurable
<1>9. StoredReachesTheBus'
  BY <1>1, <1>4, <1>5 DEF StoredReachesTheBus
<1> QED  BY <1>6, <1>7, <1>8, <1>9

LEMMA GatewayDiesInv == GatewayInv /\ GatewayDies => GatewayInv'
<1> SUFFICES ASSUME GatewayInv, GatewayDies PROVE GatewayInv'
  OBVIOUS
<1> USE DEF GatewayInv
<1>1. \A c \in Conns : Current(c)' = Current(c)  BY DEF GatewayDies, Current
<1>2. \A c \in Conns : ~Handling(c)' /\ outCh'[c] = <<>>  BY DEF GatewayDies, Handling
<1>3. /\ UNCHANGED <<carried, opRows, bus, answers>>
      /\ unpublished' = unpublished \cup {Current(c) : c \in {d \in Conns : serving[d] = "publish"}}
  BY DEF GatewayDies
<1>4. unpublished' \subseteq opRows'  BY <1>3 DEF HandlerInv, Handling, GatewayTypeOK
<1>5. GatewayTypeOK'
  <2>1. /\ conn' \in [Conns -> {"new", "open", "closed"}]
        /\ serving' \in [Conns -> {"read", "publish", "ack", "gone"}]
        /\ outCh' \in [Conns -> Seq([op : Frames, kind : Kinds])]
    BY DEF GatewayDies, GatewayTypeOK
  <2>2. \A c \in Conns : Len(outCh'[c]) <= OutCap
    BY <1>2, GatewayAssumption
  <2>3. \A c \in Conns : serving'[c] \notin {"publish", "ack"}  BY <1>2 DEF Handling
  <2> QED  BY <1>3, <1>4, <2>1, <2>2, <2>3 DEF GatewayTypeOK
<1>6. HandlerInv'  BY <1>2 DEF HandlerInv
<1>7. AnswerIsDurable'  BY <1>3 DEF AnswerIsDurable
<1>8. StoredReachesTheBus'  BY <1>3 DEF StoredReachesTheBus
<1> QED  BY <1>5, <1>6, <1>7, <1>8

LEMMA GatewayStep == GatewayInv /\ [GatewayNext]_gatewayVars => GatewayInv'
<1> SUFFICES ASSUME GatewayInv, [GatewayNext]_gatewayVars PROVE GatewayInv'
  OBVIOUS
<1>1. ASSUME NEW c \in Conns, Connect(c) \/ WriteFrame(c) \/ Disconnect(c) PROVE GatewayInv'
  BY <1>1, QuietActions
<1>2. ASSUME NEW c \in Conns, NEW o \in Frames, HandleOp(c, o) PROVE GatewayInv'
  BY <1>2, HandleOpInv
<1>3. ASSUME NEW c \in Conns, PublishOp(c) PROVE GatewayInv'  BY <1>3, PublishOpInv
<1>4. ASSUME NEW c \in Conns, SendAck(c) PROVE GatewayInv'  BY <1>4, SendAckInv
<1>5. CASE GatewayDies  BY <1>5, GatewayDiesInv
<1>6. CASE UNCHANGED gatewayVars
  <2>1. UNCHANGED <<serving, carried, opRows, bus, answers, unpublished>> /\ GatewayTypeOK'
    BY <1>6 DEF gatewayVars, GatewayInv, GatewayTypeOK
  <2> QED  BY <2>1, QuietStep
<1> QED  BY <1>1, <1>2, <1>3, <1>4, <1>5, <1>6 DEF GatewayNext

(* The types of the gateway: no channel of a session (SendProto) is ever   *)
(* longer than its capacity.                                               *)
THEOREM GatewayTypeCorrect == GatewaySpec => []GatewayTypeOK
<1>1. GatewayInv => GatewayTypeOK  BY DEF GatewayInv
<1> QED  BY GatewayInitInv, GatewayStep, <1>1, PTL DEF GatewaySpec

(* Whatever is answered by syncOpHandler as applied or as a duplicate has  *)
(* a row, and one answer at most says applied, over any connections.       *)
THEOREM AnswersAreDurable == GatewaySpec => []AnswerIsDurable
<1>1. GatewayInv => AnswerIsDurable  BY DEF GatewayInv
<1> QED  BY GatewayInitInv, GatewayStep, <1>1, PTL DEF GatewaySpec

(* The stream repeats no op, has ops with a row only, and lacks a row only *)
(* for the listed reasons.                                                 *)
THEOREM RowsReachTheBus == GatewaySpec => []StoredReachesTheBus
<1>1. GatewayInv => StoredReachesTheBus  BY DEF GatewayInv
<1> QED  BY GatewayInitInv, GatewayStep, <1>1, PTL DEF GatewaySpec

-----------------------------------------------------------------------------
(* All of them together *)

(* A behaviour of the instance that TLC checks is a behaviour of each of   *)
(* its components: the theorems above and those of PresenterProofs hold    *)
(* of it as they stand.                                                    *)
THEOREM ServicesAreTheirParts ==
  ServicesSpec => /\ LogSpec /\ StartSpec /\ ElectionSpec
                  /\ BufferSpec /\ PayoutSpec /\ GatewaySpec
<1> DEFINE vars == <<service, presenterVars, otherVars>>
<1>1. ServicesInit =>
        /\ LogInit /\ StartInit /\ ElectionInit
        /\ BufferInit /\ PayoutInit /\ GatewayInit
  BY DEF ServicesInit
<1>2. [ServicesNext]_vars =>
        /\ [LogNext]_logVars /\ [StartNext]_startVars /\ [ElectionNext]_electionVars
        /\ [BufferNext]_bufferVars /\ [PayoutNext]_payoutVars /\ [GatewayNext]_gatewayVars
  BY DEF ServicesNext, presenterVars, otherVars
<1> QED
  BY <1>1, <1>2, PTL
     DEF ServicesSpec, LogSpec, StartSpec, ElectionSpec, BufferSpec, PayoutSpec, GatewaySpec

(* The types and shapes of the log, the start of a session, the election,  *)
(* the replay buffer, the executor and the gateway, in every instance of   *)
(* them side by side.                                                      *)
THEOREM ServicesTypeCorrect == ServicesSpec => []ServicesTypeOK
<1>1. LogTypeOK /\ StartTypeOK /\ ElectionTypeOK /\ BufferTypeOK /\ PayoutTypeOK /\ GatewayTypeOK
        => ServicesTypeOK
  BY DEF ServicesTypeOK
<1> QED
  BY <1>1, ServicesAreTheirParts, HeadsLatest, StartTypeCorrect, ElectionTypeCorrect,
     BufferTypeCorrect, PayoutTypeCorrect, GatewayTypeCorrect, PTL
=============================================================================
