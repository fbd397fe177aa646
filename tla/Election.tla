------------------------------ MODULE Election ------------------------------
(***************************************************************************)
(* services/presenter-session/src/failover/election.ts: candidates that    *)
(* elect a primary through a shared store.  Every call loads the state,    *)
(* awaits, and then reads its own clock, computes the next state and saves *)
(* it: InMemoryElectionStore, the only store there is, takes the state as  *)
(* soon as save is called.  Nothing keeps other calls out in between, of   *)
(* another candidate or of the same one.                                   *)
(*                                                                         *)
(* role and became_primary_at_ms are left out: no call reads them.  Which  *)
(* call it is shows only after the await, since all begin with load.       *)
(***************************************************************************)
EXTENDS Integers, FiniteSets

CONSTANTS Candidates, Nobody, Ttl,
          Callers, CallerOf, \* calls that may overlap, and the candidate of each
          Skew,              \* how far the clock of a candidate is ahead
          MaxNow, MaxEpoch   \* bounds on the clock and on promotions

ASSUME ElectionAssumption ==
  /\ Nobody \notin Candidates
  /\ Ttl \in Nat /\ MaxEpoch \in Nat
  /\ CallerOf \in [Callers -> Candidates] /\ Skew \in [Candidates -> Nat]

VARIABLES
  stored,  \* what the store holds
  now,
  loaded,  \* the callers whose call has loaded and not yet gone on
  draft,   \* per caller: the state it has loaded, else Fresh
  claims,  \* history: <<epoch, candidate>> of every successful claim
  late,    \* history: the epochs that saves over a newer state put in the store
  heard,   \* history: when the store last got a heartbeat of its primary
  upset    \* history: whether a newer state was overwritten since then

electionVars == <<stored, now, loaded, draft, claims, late, heard, upset>>

Fresh == [primary |-> Nobody, epoch |-> 0, beat |-> 0]

ElectionInit ==
  /\ stored = Fresh
  /\ now = 1
  /\ loaded = {} /\ draft = [k \in Callers |-> Fresh]
  /\ claims = {} /\ late = {}
  /\ heard = 0 /\ upset = FALSE

ElectionTick ==
  /\ now < MaxNow
  /\ now' = now + 1
  /\ UNCHANGED <<stored, loaded, draft, claims, late, heard, upset>>

Load(k) ==
  /\ k \notin loaded
  /\ loaded' = loaded \cup {k} /\ draft' = [draft EXCEPT ![k] = stored]
  /\ UNCHANGED <<stored, now, claims, late, heard, upset>>

-----------------------------------------------------------------------------
Self(k) == CallerOf[k]
Clock(k) == now + Skew[Self(k)]

(* The state has changed since the caller loaded it.                       *)
Overtaken(k) == draft[k] # stored

Return(k) ==
  /\ k \in loaded
  /\ loaded' = loaded \ {k} /\ draft' = [draft EXCEPT ![k] = Fresh]
  /\ UNCHANGED now

SaveOf(k, s) ==
  /\ stored' = s
  /\ late' = IF Overtaken(k) THEN late \cup {s.epoch} ELSE late
  /\ IF s.primary = Self(k)
       THEN heard' = now /\ upset' = FALSE
       ELSE upset' = (upset \/ Overtaken(k)) /\ UNCHANGED heard

NoSave == UNCHANGED <<stored, late, heard, upset>>

Renewed(k) == [draft[k] EXCEPT !.beat = Clock(k)]

Heartbeat(k) ==
  /\ Return(k)
  /\ IF draft[k].primary = Self(k) THEN SaveOf(k, Renewed(k)) ELSE NoSave
  /\ UNCHANGED claims

NeverAlive(k) == FALSE  \* mutant: the heartbeat of the primary is not looked at
Alive(k) ==
  draft[k].primary # Nobody /\ draft[k].beat > 0 /\ Clock(k) - draft[k].beat <= Ttl

KeepsEpoch(k) ==        \* mutant: a promotion does not bump the epoch
  [primary |-> Self(k), epoch |-> draft[k].epoch, beat |-> Clock(k)]
Promoted(k) ==
  [primary |-> Self(k), epoch |-> draft[k].epoch + 1, beat |-> Clock(k)]

Claimed(k) == claims' = claims \cup {<<stored'.epoch, Self(k)>>}

(* A standby saves what it has loaded.                                     *)
TryClaim(k) ==
  /\ Return(k)
  /\ \/ /\ draft[k].primary = Self(k)
        /\ SaveOf(k, Renewed(k)) /\ Claimed(k)
     \/ /\ draft[k].primary # Self(k) /\ Alive(k)
        /\ SaveOf(k, draft[k]) /\ UNCHANGED claims
     \/ /\ draft[k].primary # Self(k) /\ ~Alive(k) /\ draft[k].epoch < MaxEpoch
        /\ SaveOf(k, Promoted(k)) /\ Claimed(k)

StepDown(k) ==
  /\ Return(k)
  /\ IF draft[k].primary = Self(k)
       THEN SaveOf(k, [draft[k] EXCEPT !.primary = Nobody]) ELSE NoSave
  /\ UNCHANGED claims

ElectionNext ==
  \/ ElectionTick
  \/ \E k \in Callers : Load(k) \/ Heartbeat(k) \/ TryClaim(k) \/ StepDown(k)

ElectionSpec == ElectionInit /\ [][ElectionNext]_electionVars

-----------------------------------------------------------------------------
States == [primary : Candidates \cup {Nobody}, epoch : Nat, beat : Nat]

(* The types; a state that names a primary has an epoch and a heartbeat.   *)
ElectionTypeOK ==
  /\ stored \in States
  /\ now \in Nat \ {0}
  /\ loaded \subseteq Callers /\ draft \in [Callers -> States]
  /\ claims \subseteq (Nat \X Candidates) /\ late \subseteq Nat
  /\ heard \in Nat /\ upset \in BOOLEAN
  /\ stored.primary # Nobody => stored.epoch > 0 /\ stored.beat > 0

(* What the epoch is worth over a store without compare-and-set: the       *)
(* primary of the store has claimed the store's epoch, whatever overtook   *)
(* it; and two candidates claim the same epoch only after a late save      *)
(* (tryClaim or heartbeat of election.ts, computed from a state that was   *)
(* no longer stored) has put that epoch or a lower one in the store.       *)
EpochNamesOnePrimary ==
  /\ stored.primary # Nobody => <<stored.epoch, stored.primary>> \in claims
  /\ \A p, q \in claims :
       p[1] = q[1] /\ p[2] # q[2] => \E e \in late : e <= p[1]

(* A primary that beats in time stays: unless a newer state is overwritten *)
(* now or was since its last heartbeat, whoever takes its place found it   *)
(* silent for longer than the TTL by the two clocks, and nobody leaves the *)
(* place empty but the primary itself (heartbeat, tryClaim, stepDown).     *)
SilentFor(k) == Clock(k) - (heard + Skew[stored.primary]) > Ttl

HeardPrimaryKept ==
  [][\A k \in loaded \ loaded' :
       (/\ stored.primary \notin {Nobody, stored'.primary}
        /\ ~upset /\ ~Overtaken(k))
         => IF stored'.primary = Nobody THEN stored.primary = Self(k) ELSE SilentFor(k)
    ]_electionVars

-----------------------------------------------------------------------------
(* What the header of election.ts says, and calls that overlap do not keep *)

(* "preventing split-brain": one candidate claims an epoch.                *)
OneClaimPerEpoch == \A p, q \in claims : p[1] = q[1] => p[2] = q[2]

(* "monotonic epoch counter": a late save takes the epoch back.            *)
EpochIsMonotonic == [][stored'.epoch >= stored.epoch]_electionVars
=============================================================================
