---------------------------- MODULE ReplayBuffer ----------------------------
(***************************************************************************)
(* services/presenter-session/src/failover/election.ts, class              *)
(* ReplayBuffer: the bounded buffer in which a standby keeps ops until it  *)
(* is promoted.  An op carries the time at which it was captured, which    *)
(* need not be the time at which it is pushed.  Ops are numbered in the    *)
(* order of push.                                                          *)
(***************************************************************************)
EXTENDS Integers, Sequences, SequencesExt

CONSTANTS Capacity, TtlMs,
          MaxBufferTime, MaxPushes,  \* bounds on clock and pushes
          MaxSkew              \* how old, or ahead of the clock, an op may be

ASSUME BufferAssumption ==
  Capacity \in Nat \ {0} /\ TtlMs \in Nat \ {0} /\ MaxSkew \in Nat

VARIABLES
  buffered,      \* the buffer, oldest push first
  bufferClock,
  pushed,   \* history: capture times of all pushes
  drained,  \* history: pushes that a drain returned, in order
  crowded   \* history: pushes shifted out at capacity

bufferVars == <<buffered, bufferClock, pushed, drained, crowded>>

BufferInit ==
  /\ buffered = <<>>
  /\ bufferClock = MaxSkew
  /\ pushed = <<>> /\ drained = <<>> /\ crowded = {}

Expired(n) == bufferClock - pushed[n] >= TtlMs

(* gc looks at the head only and stops at the first op that is fresh.      *)
FreshFrom == {i \in 1..Len(buffered) : ~Expired(buffered[i])}
DropsOne == IF buffered = <<>> THEN <<>> ELSE Tail(buffered)  \* mutant: shifts before it looks
Collected ==
  IF FreshFrom = {} THEN <<>>
  ELSE SubSeq(buffered, CHOOSE i \in FreshFrom : \A j \in FreshFrom : i <= j, Len(buffered))

Room(q) == IF Len(q) >= Capacity THEN Tail(q) ELSE q

BufferPush ==
  /\ Len(pushed) < MaxPushes
  /\ \E at \in (bufferClock - MaxSkew)..(bufferClock + MaxSkew) : pushed' = Append(pushed, at)
  /\ buffered' = Append(Room(Collected), Len(pushed) + 1)
  /\ crowded' = crowded \cup (ToSet(Collected) \ ToSet(Room(Collected)))
  /\ UNCHANGED <<bufferClock, drained>>

Kept == <<>>

BufferDrain ==
  /\ Collected # <<>>
  /\ drained' = drained \o Collected
  /\ buffered' = Kept
  /\ UNCHANGED <<bufferClock, pushed, crowded>>

(* peek and size: only the gc changes the buffer.                          *)
BufferPeek ==
  /\ buffered' = Collected
  /\ UNCHANGED <<bufferClock, pushed, drained, crowded>>

BufferTick ==
  /\ bufferClock < MaxBufferTime
  /\ bufferClock' = bufferClock + 1
  /\ UNCHANGED <<buffered, pushed, drained, crowded>>

BufferNext == BufferPush \/ BufferDrain \/ BufferPeek \/ BufferTick

BufferSpec == BufferInit /\ [][BufferNext]_bufferVars

-----------------------------------------------------------------------------
(* The buffer never exceeds its capacity.                                  *)
BufferTypeOK ==
  /\ Len(buffered) <= Capacity
  /\ ToSet(buffered) \cup ToSet(drained) \cup crowded \subseteq 1..Len(pushed)

InOrder == LET all == drained \o buffered IN
  \A i, j \in DOMAIN all : i < j => all[i] < all[j]

(* Promotion replays in order and leaves nothing out: what was drained and *)
(* what is buffered is in the order of push, without repetition; an op     *)
(* that is neither had expired, or a later push needed its room, which     *)
(* takes Capacity later ones.                                              *)
ReplayIsComplete ==
  /\ InOrder
  /\ \A n \in 1..Len(pushed) :
       n \in ToSet(buffered) \cup ToSet(drained) \cup crowded \/ Expired(n)
  /\ \A n \in crowded : Len(pushed) >= n + Capacity

-----------------------------------------------------------------------------
(* "older ops are evicted when ... the wall clock advances past their      *)
(* capturedAtMs + ttlMs" (election.ts): a drain returns no expired op.  An *)
(* op captured earlier and pushed behind a fresh one is kept.              *)
DrainIsFresh ==
  [][\A i \in DOMAIN drained' : i > Len(drained) => ~Expired(drained'[i])]_bufferVars
=============================================================================
