-------------------------- MODULE PresenterProofs --------------------------
(***************************************************************************)
(* Proofs about the parts of the presenter session that stand alone: the   *)
(* election (for any candidates, overlapping calls, TTL and clocks), start *)
(* with an idempotency key (any requests and keys) and the replay buffer   *)
(* of a standby (any capacity, TTL and skew).                              *)
(***************************************************************************)
EXTENDS Election, PresenterStart, ReplayBuffer, DataLemmas

-----------------------------------------------------------------------------
(* The election *)

(* What a state that has been stored keeps, whichever save put it there: a *)
(* primary in it has an epoch, a heartbeat, and a claim to that epoch.     *)
Backed(s, cs) ==
  s.primary # Nobody => s.epoch > 0 /\ s.beat > 0 /\ <<s.epoch, s.primary>> \in cs

(* A claim above the stored epoch has been taken back by a late save.      *)
ClaimsCovered ==
  \A p \in claims : p[1] > stored.epoch => \E e \in late : e < p[1]

(* As long as nothing newer was overwritten, the stored heartbeat is the   *)
(* last one of the primary, by its clock.                                  *)
BeatIsHeard ==
  ~upset /\ stored.primary # Nobody => stored.beat = heard + Skew[stored.primary]

ElectionInv ==
  /\ ElectionTypeOK /\ EpochNamesOnePrimary
  /\ Backed(stored, claims) /\ \A k \in Callers : Backed(draft[k], claims)
  /\ ClaimsCovered /\ BeatIsHeard

LEMMA ElectionInitInv == ElectionInit => ElectionInv
<1> SUFFICES ASSUME ElectionInit PROVE ElectionInv
  OBVIOUS
<1>1. Fresh \in States /\ Fresh.primary = Nobody  BY DEF Fresh, States
<1>2. ElectionTypeOK
  <2>1. stored = Fresh /\ now = 1 /\ draft = [k \in Callers |-> Fresh]
    BY DEF ElectionInit
  <2>2. /\ loaded \subseteq Callers /\ claims \subseteq (Nat \X Candidates)
        /\ late \subseteq Nat /\ heard \in Nat /\ upset \in BOOLEAN
    BY DEF ElectionInit
  <2>3. stored \in States /\ draft \in [Callers -> States] /\ stored.primary = Nobody
    BY <1>1, <2>1
  <2>4. now \in Nat \ {0}  BY <2>1
  <2> QED  BY ONLY <2>2, <2>3, <2>4 DEF ElectionTypeOK
<1>3. Backed(stored, claims) /\ \A k \in Callers : Backed(draft[k], claims)
  BY <1>1 DEF ElectionInit, Backed
<1>4. EpochNamesOnePrimary /\ ClaimsCovered /\ BeatIsHeard
  BY <1>1 DEF ElectionInit, EpochNamesOnePrimary, ClaimsCovered, BeatIsHeard
<1> QED  BY <1>2, <1>3, <1>4 DEF ElectionInv

(* What is known of a caller that goes on: the types, and its own state.   *)
LEMMA CallerFacts ==
  ASSUME ElectionInv, NEW k \in Callers, Return(k)
  PROVE  /\ Self(k) \in Candidates /\ Self(k) # Nobody
         /\ draft[k] \in States /\ stored \in States /\ Fresh \in States
         /\ now \in Nat /\ now > 0 /\ Clock(k) \in Nat /\ Clock(k) > 0
         /\ Clock(k) = now + Skew[Self(k)] /\ Skew[Self(k)] \in Nat
         /\ loaded' \subseteq Callers /\ draft' \in [Callers -> States]
         /\ now' = now
<1>1. Self(k) \in Candidates /\ Self(k) # Nobody /\ Skew[Self(k)] \in Nat
  BY ElectionAssumption DEF Self
<1>2. Fresh \in States
  BY DEF Fresh, States
<1> QED  BY <1>1, <1>2 DEF ElectionInv, ElectionTypeOK, Return, Clock

(* A save keeps the invariant when the state saved is backed, its epoch is *)
(* the loaded one, or the next one under a claim, and its heartbeat is the *)
(* loaded one or, with the primary, the caller's.                          *)
LEMMA SaveKeeps ==
  ASSUME ElectionInv, NEW k \in Callers, Return(k), NEW s \in States, SaveOf(k, s),
         \/ claims' = claims
         \/ claims' = claims \cup {<<s.epoch, Self(k)>>} /\ s.primary = Self(k),
         Backed(s, claims'), s.epoch >= draft[k].epoch,
         s.primary = Self(k) => s.beat = Clock(k),
         s.primary \notin {Nobody, Self(k)} =>
            s.primary = draft[k].primary /\ s.beat = draft[k].beat,
         s.primary = Self(k) /\ claims' # claims =>
            s.epoch > draft[k].epoch \/ <<s.epoch, Self(k)>> \in claims
  PROVE  ElectionInv'
<1>0. stored' = s /\ now' = now
  BY CallerFacts DEF SaveOf
<1>1. ElectionTypeOK'
  <2>1. claims' \subseteq (Nat \X Candidates)
    BY CallerFacts DEF ElectionInv, ElectionTypeOK, States
  <2>2. late' \subseteq Nat /\ heard' \in Nat /\ upset' \in BOOLEAN
    <3>1. late' \subseteq Nat  BY DEF ElectionInv, ElectionTypeOK, States, SaveOf
    <3>2. heard' \in Nat  BY CallerFacts DEF ElectionInv, ElectionTypeOK, SaveOf
    <3>3. upset' \in BOOLEAN  BY DEF ElectionInv, ElectionTypeOK, SaveOf
    <3> QED  BY <3>1, <3>2, <3>3
  <2>3. stored'.primary # Nobody => stored'.epoch > 0 /\ stored'.beat > 0
    BY <1>0 DEF Backed
  <2> QED  BY <1>0, <2>1, <2>2, <2>3, CallerFacts DEF ElectionTypeOK
<1>2. Backed(stored', claims') /\ \A j \in Callers : Backed(draft'[j], claims')
  <2>1. Backed(stored', claims')  BY <1>0 DEF Backed
  <2>2. ASSUME NEW j \in Callers PROVE Backed(draft'[j], claims')
    <3>1. draft'[j] = draft[j] \/ draft'[j] = Fresh
      BY DEF ElectionInv, ElectionTypeOK, Return
    <3>2. Backed(draft[j], claims) /\ claims \subseteq claims'
      BY DEF ElectionInv
    <3>3. Fresh.primary = Nobody  BY DEF Fresh
    <3> QED  BY <3>1, <3>2, <3>3 DEF Backed
  <2> QED  BY <2>1, <2>2
<1>3. late \subseteq late' /\ (Overtaken(k) => s.epoch \in late')
  BY DEF SaveOf
<1>4. ~Overtaken(k) => draft[k] = stored /\ s.epoch >= stored.epoch
  BY DEF Overtaken
<1>t. /\ \A p \in claims' : p[1] \in Nat
      /\ late' \subseteq Nat /\ stored.epoch \in Nat /\ s.epoch \in Nat /\ draft[k].epoch \in Nat
  BY <1>1, CallerFacts DEF ElectionTypeOK, States
<1>5. ClaimsCovered'
  <2> SUFFICES ASSUME NEW p \in claims', p[1] > s.epoch
               PROVE  \E e \in late' : e < p[1]
    BY <1>0 DEF ClaimsCovered
  <2>1. CASE Overtaken(k)  BY <2>1, <1>3, <1>t
  <2>2. CASE ~Overtaken(k)
    <3>1. p \in claims  BY <1>t
    <3>2. p[1] > stored.epoch  BY <2>2, <1>4, <1>t
    <3> QED  BY <3>1, <3>2, <1>3 DEF ElectionInv, ClaimsCovered
  <2> QED  BY <2>1, <2>2
<1>6. EpochNamesOnePrimary'
  <2>1. stored'.primary # Nobody => <<stored'.epoch, stored'.primary>> \in claims'
    BY <1>2 DEF Backed
  <2>2. \A p, q \in claims : p[1] = q[1] /\ p[2] # q[2] => \E e \in late : e <= p[1]
    BY DEF ElectionInv, EpochNamesOnePrimary
  <2>n. ASSUME NEW q \in claims, q[1] = s.epoch, <<s.epoch, Self(k)>> \notin claims,
               claims' # claims
        PROVE  \E e \in late' : e <= s.epoch
    <3>1. CASE Overtaken(k)  BY <3>1, <1>3, <1>t
    <3>2. CASE ~Overtaken(k)
      <4>1. q[1] > stored.epoch  BY <3>2, <2>n, <1>4, <1>t
      <4>2. PICK e \in late : e < q[1]  BY <4>1 DEF ElectionInv, ClaimsCovered
      <4> QED  BY <4>2, <2>n, <1>3, <1>t
    <3> QED  BY <3>1, <3>2
  <2>3. ASSUME NEW p \in claims', NEW q \in claims', p[1] = q[1], p[2] # q[2]
        PROVE  \E e \in late' : e <= p[1]
    <3>1. CASE p \in claims /\ q \in claims  BY <3>1, <2>2, <2>3, <1>3
    <3>2. CASE p \notin claims /\ q \notin claims  BY <3>2, <2>3
    <3>3. CASE p \in claims /\ q \notin claims
      <4>1. q = <<s.epoch, Self(k)>> /\ claims' # claims  BY <3>3
      <4>2. q[1] = s.epoch  BY <4>1
      <4> QED  BY <3>3, <4>1, <4>2, <2>n, <2>3
    <3>4. CASE p \notin claims /\ q \in claims
      <4>1. p = <<s.epoch, Self(k)>> /\ claims' # claims  BY <3>4
      <4>2. p[1] = s.epoch  BY <4>1
      <4> QED  BY <3>4, <4>1, <4>2, <2>n, <2>3
    <3> QED  BY <3>1, <3>2, <3>3, <3>4
  <2> QED  BY <2>1, <2>3 DEF EpochNamesOnePrimary
<1>7. BeatIsHeard'
  <2> SUFFICES ASSUME ~upset', s.primary # Nobody
               PROVE  s.beat = heard' + Skew[s.primary]
    BY <1>0 DEF BeatIsHeard
  <2>1. CASE s.primary = Self(k)  BY <2>1, CallerFacts DEF SaveOf
  <2>2. CASE s.primary # Self(k)
    <3>1. heard' = heard /\ ~upset /\ ~Overtaken(k)  BY <2>2 DEF SaveOf
    <3>2. s.primary = stored.primary /\ s.beat = stored.beat  BY <2>2, <3>1, <1>4
    <3> QED  BY <3>1, <3>2 DEF ElectionInv, BeatIsHeard
  <2> QED  BY <2>1, <2>2
<1> QED  BY <1>1, <1>2, <1>5, <1>6, <1>7 DEF ElectionInv

(* A call that saves nothing keeps the invariant.                          *)
LEMMA NoSaveKeeps ==
  ASSUME ElectionInv, NEW k \in Callers, Return(k), NoSave, claims' = claims
  PROVE  ElectionInv'
<1>1. ElectionTypeOK'
  BY CallerFacts DEF ElectionInv, ElectionTypeOK, NoSave
<1>2. \A j \in Callers : draft'[j] = draft[j] \/ draft'[j] = Fresh
  BY DEF ElectionInv, ElectionTypeOK, Return
<1>3. \A j \in Callers : Backed(draft'[j], claims')
  BY <1>2 DEF ElectionInv, Backed, Fresh
<1>4. Backed(stored', claims') /\ EpochNamesOnePrimary' /\ ClaimsCovered' /\ BeatIsHeard'
  BY DEF ElectionInv, Backed, EpochNamesOnePrimary, ClaimsCovered, BeatIsHeard, NoSave
<1> QED  BY <1>1, <1>3, <1>4 DEF ElectionInv

(* The states that the calls save.                                         *)
LEMMA SavedStates ==
  ASSUME ElectionInv, NEW k \in Callers, Return(k)
  PROVE  /\ Renewed(k) \in States /\ Renewed(k).epoch = draft[k].epoch
         /\ Renewed(k).primary = draft[k].primary /\ Renewed(k).beat = Clock(k)
         /\ Promoted(k) \in States /\ Promoted(k).epoch = draft[k].epoch + 1
         /\ Promoted(k).primary = Self(k) /\ Promoted(k).beat = Clock(k)
         /\ [draft[k] EXCEPT !.primary = Nobody] \in States
         /\ [draft[k] EXCEPT !.primary = Nobody].primary = Nobody
         /\ [draft[k] EXCEPT !.primary = Nobody].epoch = draft[k].epoch
  BY CallerFacts DEF Renewed, Promoted, States

LEMMA HeartbeatInv ==
  ASSUME ElectionInv, NEW k \in Callers, Heartbeat(k) PROVE ElectionInv'
<1>0. Return(k) /\ claims' = claims  BY DEF Heartbeat
<1>1. CASE draft[k].primary = Self(k)
  <2>1. SaveOf(k, Renewed(k))  BY <1>1 DEF Heartbeat
  <2>2. /\ Renewed(k) \in States /\ Renewed(k).beat = Clock(k)
        /\ Renewed(k).epoch = draft[k].epoch /\ Renewed(k).primary = Self(k)
        /\ draft[k].epoch \in Nat /\ Clock(k) > 0
    BY <1>0, <1>1, SavedStates, CallerFacts DEF States
  <2>3. Backed(Renewed(k), claims')
    <3>1. Backed(draft[k], claims)  BY DEF ElectionInv
    <3> QED  BY <3>1, <1>0, <1>1, <2>2 DEF Backed
  <2>4. Renewed(k).epoch >= draft[k].epoch  BY <2>2
  <2> QED  BY ONLY ElectionInv, k \in Callers, <1>0, <2>1, <2>2, <2>3, <2>4, SaveKeeps
<1>2. CASE draft[k].primary # Self(k)
  <2>1. NoSave  BY <1>2 DEF Heartbeat
  <2> QED  BY <1>0, <2>1, NoSaveKeeps
<1> QED  BY <1>1, <1>2

LEMMA StepDownInv ==
  ASSUME ElectionInv, NEW k \in Callers, StepDown(k) PROVE ElectionInv'
<1>0. Return(k) /\ claims' = claims  BY DEF StepDown
<1>1. CASE draft[k].primary = Self(k)
  <2> DEFINE s == [draft[k] EXCEPT !.primary = Nobody]
  <2>1. SaveOf(k, s)  BY <1>1 DEF StepDown
  <2>2. /\ s \in States /\ s.primary = Nobody /\ s.epoch = draft[k].epoch
        /\ draft[k].epoch \in Nat /\ Self(k) # Nobody
    BY <1>0, SavedStates, CallerFacts DEF States
  <2> HIDE DEF s
  <2>3. Backed(s, claims') /\ s.epoch >= draft[k].epoch  BY <2>2 DEF Backed
  <2> QED  BY ONLY ElectionInv, k \in Callers, <1>0, <2>1, <2>2, <2>3, SaveKeeps
<1>2. CASE draft[k].primary # Self(k)
  <2>1. NoSave  BY <1>2 DEF StepDown
  <2> QED  BY <1>0, <2>1, NoSaveKeeps
<1> QED  BY <1>1, <1>2

LEMMA TryClaimInv ==
  ASSUME ElectionInv, NEW k \in Callers, TryClaim(k) PROVE ElectionInv'
<1>0. Return(k)  BY DEF TryClaim
<1>b. Backed(draft[k], claims)  BY DEF ElectionInv
<1>1. CASE draft[k].primary = Self(k) /\ SaveOf(k, Renewed(k)) /\ Claimed(k)
  <2>1. claims' = claims \cup {<<Renewed(k).epoch, Self(k)>>}
    BY <1>1 DEF Claimed, SaveOf
  <2>2. /\ Renewed(k) \in States /\ Renewed(k).beat = Clock(k)
        /\ Renewed(k).epoch = draft[k].epoch /\ Renewed(k).primary = Self(k)
        /\ draft[k].epoch \in Nat /\ Clock(k) > 0 /\ Self(k) # Nobody
    BY <1>0, <1>1, SavedStates, CallerFacts DEF States
  <2>3. Backed(Renewed(k), claims') /\ <<Renewed(k).epoch, Self(k)>> \in claims
    BY <1>1, <1>b, <2>1, <2>2 DEF Backed
  <2>4. Renewed(k).epoch >= draft[k].epoch  BY <2>2
  <2>5. SaveOf(k, Renewed(k))  BY <1>1
  <2> QED  BY ONLY ElectionInv, k \in Callers, <1>0, <2>1, <2>2, <2>3, <2>4, <2>5, SaveKeeps
<1>2. CASE draft[k].primary # Self(k) /\ SaveOf(k, draft[k]) /\ claims' = claims
  <2>1. draft[k] \in States /\ draft[k].epoch \in Nat  BY <1>0, CallerFacts DEF States
  <2>2. Backed(draft[k], claims') /\ draft[k].epoch >= draft[k].epoch
    BY <1>2, <1>b, <2>1
  <2> QED  BY ONLY ElectionInv, k \in Callers, <1>0, <1>2, <2>1, <2>2, SaveKeeps
<1>3. CASE draft[k].primary # Self(k) /\ SaveOf(k, Promoted(k)) /\ Claimed(k)
  <2>1. claims' = claims \cup {<<Promoted(k).epoch, Self(k)>>}
    BY <1>3 DEF Claimed, SaveOf
  <2>2. /\ Promoted(k) \in States /\ Promoted(k).primary = Self(k)
        /\ Promoted(k).beat = Clock(k) /\ Promoted(k).epoch = draft[k].epoch + 1
        /\ draft[k].epoch \in Nat /\ Clock(k) > 0
    BY <1>0, SavedStates, CallerFacts DEF States
  <2>3. Promoted(k).epoch > draft[k].epoch /\ Promoted(k).epoch >= draft[k].epoch
    BY <2>2
  <2>4. Backed(Promoted(k), claims')
    <3>1. Promoted(k).epoch > 0 /\ Promoted(k).beat > 0  BY <2>2
    <3> QED  BY <3>1, <2>1, <2>2 DEF Backed
  <2>5. SaveOf(k, Promoted(k))  BY <1>3
  <2> QED  BY ONLY ElectionInv, k \in Callers, <1>0, <2>1, <2>2, <2>3, <2>4, <2>5, SaveKeeps
<1> QED  BY <1>1, <1>2, <1>3 DEF TryClaim

LEMMA ElectionStepInv ==
  ElectionInv /\ [ElectionNext]_electionVars => ElectionInv'
<1> SUFFICES ASSUME ElectionInv, [ElectionNext]_electionVars PROVE ElectionInv'
  OBVIOUS
<1>1. CASE ElectionTick
  BY <1>1 DEF ElectionTick, ElectionInv, ElectionTypeOK, EpochNamesOnePrimary, Backed,
              ClaimsCovered, BeatIsHeard
<1>2. ASSUME NEW k \in Callers, Load(k) PROVE ElectionInv'
  <2>1. ElectionTypeOK'  BY <1>2 DEF Load, ElectionInv, ElectionTypeOK
  <2>2. \A j \in Callers : draft'[j] = draft[j] \/ draft'[j] = stored
    BY <1>2 DEF Load, ElectionInv, ElectionTypeOK
  <2>3. \A j \in Callers : Backed(draft'[j], claims')
    BY <1>2, <2>2 DEF Load, ElectionInv, Backed
  <2>4. Backed(stored', claims') /\ EpochNamesOnePrimary' /\ ClaimsCovered' /\ BeatIsHeard'
    BY <1>2 DEF Load, ElectionInv, Backed, EpochNamesOnePrimary, ClaimsCovered, BeatIsHeard
  <2> QED  BY <2>1, <2>3, <2>4 DEF ElectionInv
<1>3. ASSUME NEW k \in Callers, Heartbeat(k) PROVE ElectionInv'  BY <1>3, HeartbeatInv
<1>4. ASSUME NEW k \in Callers, TryClaim(k) PROVE ElectionInv'  BY <1>4, TryClaimInv
<1>5. ASSUME NEW k \in Callers, StepDown(k) PROVE ElectionInv'  BY <1>5, StepDownInv
<1>6. CASE UNCHANGED electionVars
  BY <1>6 DEF electionVars, ElectionInv, ElectionTypeOK, EpochNamesOnePrimary, Backed,
              ClaimsCovered, BeatIsHeard
<1> QED  BY <1>1, <1>2, <1>3, <1>4, <1>5, <1>6 DEF ElectionNext

(* The types of the election, for any overlapping calls and any clocks: no *)
(* late save names a primary without an epoch and a heartbeat.             *)
THEOREM ElectionTypeCorrect == ElectionSpec => []ElectionTypeOK
<1>1. ElectionInv => ElectionTypeOK  BY DEF ElectionInv
<1> QED  BY ElectionInitInv, ElectionStepInv, <1>1, PTL DEF ElectionSpec

(* Two candidates claim one epoch only behind a late save (tryClaim,       *)
(* heartbeat), for any candidates, overlapping calls and clocks.           *)
THEOREM EpochFences == ElectionSpec => []EpochNamesOnePrimary
<1>1. ElectionInv => EpochNamesOnePrimary  BY DEF ElectionInv
<1> QED  BY ElectionInitInv, ElectionStepInv, <1>1, PTL DEF ElectionSpec

(* A primary heard of within the TTL, as far as the two clocks agree,      *)
(* loses its place only to a save that overwrites a newer state, then or   *)
(* since its heartbeat, or by its own stepDown.                            *)
THEOREM PrimaryKeptWhileHeard == ElectionSpec => HeardPrimaryKept
<1> DEFINE Displaced ==
      \A k \in loaded \ loaded' :
        (/\ stored.primary \notin {Nobody, stored'.primary}
         /\ ~upset /\ ~Overtaken(k))
          => IF stored'.primary = Nobody THEN stored.primary = Self(k) ELSE SilentFor(k)
<1>1. ElectionInv /\ [ElectionNext]_electionVars => [Displaced]_electionVars
  <2> SUFFICES ASSUME ElectionInv, [ElectionNext]_electionVars,
                      NEW k \in loaded \ loaded', k \in Callers,
                      stored.primary # Nobody, stored.primary # stored'.primary,
                      ~upset, ~Overtaken(k)
               PROVE  IF stored'.primary = Nobody THEN stored.primary = Self(k)
                                                  ELSE SilentFor(k)
    BY DEF ElectionInv, ElectionTypeOK
  <2>1. PICK j \in Callers : Heartbeat(j) \/ TryClaim(j) \/ StepDown(j)
    BY DEF ElectionNext, electionVars, ElectionTick, Load
  <2>2. j = k /\ Return(k)
    BY <2>1 DEF Heartbeat, TryClaim, StepDown, Return
  <2>3. draft[k] = stored  BY DEF Overtaken
  <2>4. CASE Heartbeat(k)
    BY <2>2, <2>3, <2>4, SavedStates DEF Heartbeat, SaveOf, NoSave
  <2>5. CASE StepDown(k)
    BY <2>2, <2>3, <2>5, SavedStates DEF StepDown, SaveOf, NoSave
  <2>6. CASE TryClaim(k)
    <3>1. stored.primary # Self(k) /\ ~Alive(k) /\ stored' = Promoted(k)
      BY <2>2, <2>3, <2>6, SavedStates DEF TryClaim, SaveOf
    <3>2. stored.beat = heard + Skew[stored.primary] /\ stored.beat > 0
      BY DEF ElectionInv, BeatIsHeard, Backed
    <3>3. Clock(k) - stored.beat > Ttl
      <4>1. ~(Clock(k) - stored.beat <= Ttl)  BY <3>1, <3>2, <2>3 DEF Alive
      <4> QED  BY <4>1, <2>2, CallerFacts, ElectionAssumption DEF States
    <3>4. SilentFor(k)  BY <3>2, <3>3 DEF SilentFor
    <3> QED  BY <3>1, <3>4, <2>2, SavedStates, CallerFacts
  <2> QED  BY <2>1, <2>2, <2>4, <2>5, <2>6
<1> QED  BY ElectionInitInv, ElectionStepInv, <1>1, PTL DEF ElectionSpec, HeardPrimaryKept

-----------------------------------------------------------------------------
(* Start with an idempotency key *)

StartPhases ==
  {"idle", "lookup", "reserve", "create", "audit", "commit", "done", "dead"}

StartTypes ==
  /\ phase \in [Starts -> StartPhases]
  /\ keyOf \in [Starts -> StartKeys]
  /\ records \in [StartKeys -> SUBSET Starts]
  /\ before \in [Starts -> SUBSET Starts]
  /\ answer \in [Starts -> SUBSET Starts]
  /\ sessions \subseteq Starts /\ committed \subseteq Starts /\ replayed \subseteq Starts

(* A record is of one request that finished by committing, with its key;   *)
(* and what has committed since the restart has a record under its key.    *)
RecordInv ==
  /\ \A k \in StartKeys :
       records[k] = {} \/ \E q \in sessions \ replayed :
                            records[k] = {q} /\ keyOf[q] = k /\ phase[q] = "done"
  /\ \A r \in committed : records[keyOf[r]] # {}

(* A session's request is past its creation, what a request found          *)
(* committed is finished, and until its reserve all of that is recorded;   *)
(* so past its reserve none of that has its key.                           *)
RequestInv ==
  /\ \A r \in Starts : phase[r] \in {"audit", "commit"} => r \in sessions
  /\ \A r \in sessions : phase[r] \in {"audit", "commit", "done", "dead"}
  /\ \A r \in committed \cup replayed : phase[r] = "done"
  /\ \A q \in Starts : \A r \in before[q] : phase[r] = "done"
  /\ \A q \in Starts : phase[q] \in {"lookup", "reserve"} => before[q] \subseteq committed
  /\ \A q \in Starts : phase[q] \in {"create", "audit", "commit"} =>
       \A r \in before[q] : keyOf[r] # keyOf[q]

StartInv == StartTypes /\ RecordInv /\ RequestInv /\ LateRepeatCreatesNothing

LEMMA StartInitInv == StartInit => StartInv
BY DEF StartInit, StartInv, StartTypes, StartPhases, RecordInv, RequestInv,
       LateRepeatCreatesNothing

(* The steps that only move a request on: it is sent, finds its key free,  *)
(* or emits its audit record.                                              *)
LEMMA SendStartInv ==
  ASSUME StartInv, NEW r \in Starts, SendStart(r) PROVE StartInv'
<1> USE DEF StartInv
<1>1. /\ phase' = [phase EXCEPT ![r] = "lookup"] /\ phase[r] = "idle"
      /\ before' = [before EXCEPT ![r] = committed]
      /\ UNCHANGED <<records, sessions, keyOf, answer, replayed, committed>>
  BY DEF SendStart, StartStep
<1>2. StartTypes'  BY <1>1 DEF StartTypes, StartPhases
<1>3. RecordInv'  BY <1>1 DEF RecordInv, StartTypes
<1>4. RequestInv'  BY <1>1 DEF RequestInv, StartTypes
<1>5. LateRepeatCreatesNothing'
  <2>1. r \notin sessions  BY <1>1 DEF RequestInv
  <2> QED  BY <1>1, <2>1 DEF LateRepeatCreatesNothing, StartTypes
<1> QED  BY <1>2, <1>3, <1>4, <1>5

LEMMA LookupInv ==
  ASSUME StartInv, NEW r \in Starts, LookupKey(r) \/ ReserveKey(r) PROVE StartInv'
<1> USE DEF StartInv
<1>0. /\ phase[r] \in {"lookup", "reserve"}
      /\ UNCHANGED <<records, sessions, keyOf, committed, before>>
      /\ keyOf[r] \in StartKeys
  BY DEF LookupKey, ReserveKey, LookupOrReserve, StartTypes
<1>1. CASE HasResponse(r)
  <2>1. /\ phase' = [phase EXCEPT ![r] = "done"]
        /\ answer' = [answer EXCEPT ![r] = records[keyOf[r]]]
        /\ replayed' = replayed \cup {r}
    BY <1>1 DEF LookupKey, ReserveKey, LookupOrReserve, ReplayResponse, StartStep
  <2>2. PICK q \in sessions \ replayed :
           records[keyOf[r]] = {q} /\ keyOf[q] = keyOf[r] /\ phase[q] = "done"
    BY <1>0, <1>1 DEF HasResponse, RecordInv
  <2>3. q # r  BY <2>2, <1>0
  <2>4. StartTypes'
    <3>1. records[keyOf[r]] \in SUBSET Starts  BY <1>0 DEF StartTypes
    <3> QED  BY <1>0, <2>1, <3>1 DEF StartTypes, StartPhases
  <2>5. RecordInv'
    <3>1. \A k \in StartKeys : \A p \in sessions \ replayed :
            phase[p] = "done" => p \notin replayed' /\ phase'[p] = "done"
      BY <1>0, <2>1 DEF StartTypes
    <3> QED  BY <1>0, <3>1 DEF RecordInv
  <2>6. RequestInv'
    BY <1>0, <2>1 DEF RequestInv, StartTypes
  <2>7. LateRepeatCreatesNothing'
    <3>1. \A p \in replayed : answer'[p] = answer[p]
      BY <1>0, <2>1 DEF RequestInv, StartTypes
    <3>2. answer'[r] = {q}  BY <2>1, <2>2 DEF StartTypes
    <3> QED  BY <1>0, <2>1, <2>2, <2>3, <3>1, <3>2 DEF LateRepeatCreatesNothing
  <2> QED  BY <2>4, <2>5, <2>6, <2>7
<1>2. CASE ~HasResponse(r)
  <2>1. PICK to \in {"reserve", "create"} :
           /\ phase' = [phase EXCEPT ![r] = to] /\ UNCHANGED <<answer, replayed>>
           /\ to = "reserve" => phase[r] = "lookup"
    BY <1>2 DEF LookupKey, ReserveKey, LookupOrReserve, StartStep
  <2>2. StartTypes'  BY <1>0, <2>1 DEF StartTypes, StartPhases
  <2>3. RecordInv'  BY <1>0, <2>1 DEF RecordInv, StartTypes
  <2>4. \A q \in before[r] : keyOf[q] # keyOf[r]
    <3>1. before[r] \subseteq committed  BY <1>0 DEF RequestInv
    <3> QED  BY <3>1, <1>2 DEF RecordInv, HasResponse
  <2>5. RequestInv'  BY <1>0, <2>1, <2>4 DEF RequestInv, StartTypes
  <2>6. LateRepeatCreatesNothing'  BY <1>0, <2>1 DEF LateRepeatCreatesNothing
  <2> QED  BY <2>2, <2>3, <2>5, <2>6
<1> QED  BY <1>1, <1>2

(* A session is created past its request's reserve, when nothing that its  *)
(* request found committed has its key.                                    *)
LEMMA CreateInv ==
  ASSUME StartInv, NEW r \in Starts, Create(r) PROVE StartInv'
<1> USE DEF StartInv
<1>1. /\ phase' = [phase EXCEPT ![r] = "audit"] /\ phase[r] = "create"
      /\ sessions' = sessions \cup {r}
      /\ UNCHANGED <<records, keyOf, answer, replayed, committed, before>>
  BY DEF Create, StartStep
<1>2. StartTypes'  BY <1>1 DEF StartTypes, StartPhases
<1>3. RecordInv'  BY <1>1 DEF RecordInv, StartTypes
<1>4. RequestInv'  BY <1>1 DEF RequestInv, StartTypes
<1>5. LateRepeatCreatesNothing'
  <2>1. \A q \in Starts : r \notin before[q]  BY <1>1 DEF RequestInv
  <2>2. \A q \in before[r] : keyOf[q] # keyOf[r]  BY <1>1 DEF RequestInv
  <2>3. \A p, q \in sessions' : keyOf[p] = keyOf[q] => p \notin before[q]
    BY <1>1, <2>1, <2>2 DEF LateRepeatCreatesNothing, StartTypes
  <2> QED  BY <1>1, <2>3 DEF LateRepeatCreatesNothing
<1> QED  BY <1>2, <1>3, <1>4, <1>5

LEMMA EmitAuditInv ==
  ASSUME StartInv, NEW r \in Starts, EmitAudit(r) PROVE StartInv'
<1> USE DEF StartInv
<1>1. /\ phase' = [phase EXCEPT ![r] = "commit"] /\ phase[r] = "audit"
      /\ UNCHANGED <<records, sessions, keyOf, answer, replayed, committed, before>>
  BY DEF EmitAudit, StartStep
<1>2. StartTypes'  BY <1>1 DEF StartTypes, StartPhases
<1>3. RecordInv'  BY <1>1 DEF RecordInv, StartTypes
<1>4. RequestInv'  BY <1>1 DEF RequestInv, StartTypes
<1>5. LateRepeatCreatesNothing'  BY <1>1 DEF LateRepeatCreatesNothing
<1> QED  BY <1>2, <1>3, <1>4, <1>5

(* A commit overwrites the record of a request that overlapped it; the key *)
(* stays recorded.                                                         *)
LEMMA CommitStartInv ==
  ASSUME StartInv, NEW r \in Starts, CommitStart(r) PROVE StartInv'
<1> USE DEF StartInv
<1>1. /\ phase' = [phase EXCEPT ![r] = "done"] /\ phase[r] = "commit"
      /\ records' = [records EXCEPT ![keyOf[r]] = {r}]
      /\ answer' = [answer EXCEPT ![r] = {r}]
      /\ committed' = committed \cup {r}
      /\ UNCHANGED <<sessions, keyOf, replayed, before>>
  BY DEF CommitStart, StartStep, Recorded
<1>0. r \in sessions /\ r \notin replayed /\ keyOf[r] \in StartKeys
  BY <1>1 DEF RequestInv, StartTypes
<1>2. StartTypes'  BY <1>0, <1>1 DEF StartTypes, StartPhases
<1>3. RecordInv'
  <2>1. \A q \in Starts : phase[q] = "done" => phase'[q] = "done"
    BY <1>1 DEF StartTypes
  <2>2. records'[keyOf[r]] = {r} /\ phase'[r] = "done"
    BY <1>0, <1>1 DEF StartTypes
  <2>3. \A k \in StartKeys : k # keyOf[r] => records'[k] = records[k]
    BY <1>1 DEF StartTypes
  <2>4. ASSUME NEW k \in StartKeys
        PROVE  records'[k] = {} \/ \E q \in sessions' \ replayed' :
                 records'[k] = {q} /\ keyOf'[q] = k /\ phase'[q] = "done"
    <3>1. CASE k = keyOf[r]  BY <3>1, <1>0, <1>1, <2>2
    <3>2. CASE k # keyOf[r]  BY <3>2, <1>1, <2>1, <2>3 DEF RecordInv, StartTypes
    <3> QED  BY <3>1, <3>2
  <2>5. \A q \in committed' : records'[keyOf'[q]] # {}
    BY <1>1, <2>2, <2>3 DEF RecordInv, StartTypes
  <2> QED  BY <2>4, <2>5 DEF RecordInv
<1>4. RequestInv'  BY <1>0, <1>1 DEF RequestInv, StartTypes
<1>5. LateRepeatCreatesNothing'
  <2>1. \A p \in replayed : answer'[p] = answer[p]
    BY <1>0, <1>1 DEF StartTypes
  <2> QED  BY <1>1, <2>1 DEF LateRepeatCreatesNothing
<1> QED  BY <1>2, <1>3, <1>4, <1>5

(* A failed request may leave a session, of a key that nothing it found    *)
(* committed has, and no record.                                           *)
LEMMA StartFailsInv ==
  ASSUME StartInv, NEW r \in Starts, StartFails(r) PROVE StartInv'
<1> USE DEF StartInv
<1>1. /\ phase' = [phase EXCEPT ![r] = "done"] /\ phase[r] \in {"create", "audit"}
      /\ sessions' = sessions \/ (sessions' = sessions \cup {r} /\ phase[r] = "create")
      /\ UNCHANGED <<records, keyOf, answer, replayed, committed, before>>
  BY DEF StartFails, StartStep
<1>2. StartTypes'  BY <1>1 DEF StartTypes, StartPhases
<1>3. RecordInv'  BY <1>1 DEF RecordInv, StartTypes
<1>4. RequestInv'  BY <1>1 DEF RequestInv, StartTypes
<1>5. LateRepeatCreatesNothing'
  <2>1. \A q \in Starts : r \notin before[q]  BY <1>1 DEF RequestInv
  <2>2. \A q \in before[r] : keyOf[q] # keyOf[r]  BY <1>1 DEF RequestInv
  <2>3. \A p, q \in sessions' : keyOf[p] = keyOf[q] => p \notin before[q]
    BY <1>1, <2>1, <2>2 DEF LateRepeatCreatesNothing, StartTypes
  <2> QED  BY <1>1, <2>3 DEF LateRepeatCreatesNothing
<1> QED  BY <1>2, <1>3, <1>4, <1>5

(* A restart forgets the records together with what had committed.         *)
LEMMA StartCrashInv == StartInv /\ StartCrash => StartInv'
<1> SUFFICES ASSUME StartInv, StartCrash PROVE StartInv'
  OBVIOUS
<1> USE DEF StartInv, StartCrash
<1>0. phase' = [r \in Starts |-> IF InProgress(r) THEN "dead" ELSE phase[r]]
  OBVIOUS
<1>1. \A r \in Starts :
        IF InProgress(r) THEN phase'[r] = "dead" ELSE phase'[r] = phase[r]
  BY <1>0
<1>2. \A r \in Starts : phase'[r] \in {"idle", "done", "dead"}
  BY <1>1 DEF InProgress
<1>3. phase' \in [Starts -> StartPhases]
  BY <1>0, <1>2 DEF StartPhases
<1>4. StartTypes'  BY <1>3 DEF StartTypes
<1>5. RecordInv'  BY DEF RecordInv
<1>6. RequestInv'  BY <1>1, <1>2 DEF RequestInv, StartTypes, InProgress
<1>7. LateRepeatCreatesNothing'  BY DEF LateRepeatCreatesNothing
<1> QED  BY <1>4, <1>5, <1>6, <1>7

LEMMA StartStepInv == StartInv /\ [StartNext]_startVars => StartInv'
<1> SUFFICES ASSUME StartInv, [StartNext]_startVars PROVE StartInv'
  OBVIOUS
<1>1. ASSUME NEW r \in Starts, SendStart(r) PROVE StartInv'  BY <1>1, SendStartInv
<1>2. ASSUME NEW r \in Starts, LookupKey(r) \/ ReserveKey(r) PROVE StartInv'
  BY <1>2, LookupInv
<1>3. ASSUME NEW r \in Starts, Create(r) PROVE StartInv'  BY <1>3, CreateInv
<1>4. ASSUME NEW r \in Starts, EmitAudit(r) PROVE StartInv'  BY <1>4, EmitAuditInv
<1>5. ASSUME NEW r \in Starts, CommitStart(r) PROVE StartInv'  BY <1>5, CommitStartInv
<1>6. CASE StartCrash  BY <1>6, StartCrashInv
<1>8. ASSUME NEW r \in Starts, StartFails(r) PROVE StartInv'  BY <1>8, StartFailsInv
<1>7. CASE UNCHANGED startVars
  BY <1>7 DEF startVars, StartInv, StartTypes, RecordInv, RequestInv,
              LateRepeatCreatesNothing
<1> QED
  BY <1>1, <1>2, <1>3, <1>4, <1>5, <1>6, <1>7, <1>8 DEF StartNext, StartFinished

LEMMA StartInvariant == StartSpec => []StartInv
BY StartInitInv, StartStepInv, PTL DEF StartSpec

(* A repeat sent after the response was recorded creates no session, and   *)
(* what is replayed is a stored session of another request with the key,   *)
(* for any number of requests, keys and restarts (service.start over       *)
(* InMemoryIdempotencyStore).                                              *)
THEOREM RepeatsCreateNothing == StartSpec => []LateRepeatCreatesNothing
<1>1. StartInv => LateRepeatCreatesNothing  BY DEF StartInv
<1> QED  BY StartInvariant, <1>1, PTL

(* A key is bound to one creator at a time, and only to a stored session.  *)
THEOREM StartTypeCorrect == StartSpec => []StartTypeOK
<1>1. StartInv => StartTypeOK
  <2> SUFFICES ASSUME StartInv PROVE StartTypeOK
    OBVIOUS
  <2>1. ASSUME NEW k \in StartKeys
        PROVE  records[k] \subseteq sessions /\ Cardinality(records[k]) <= 1
    <3>1. CASE records[k] = {}  BY <3>1, FS_EmptySet
    <3>2. CASE records[k] # {}
      <4>1. PICK q \in sessions : records[k] = {q}
        BY <3>2 DEF StartInv, RecordInv
      <4> QED  BY <4>1, FS_Singleton
    <3> QED  BY <3>1, <3>2
  <2> QED  BY <2>1 DEF StartInv, StartTypes, StartPhases, StartTypeOK
<1> QED  BY StartInvariant, <1>1, PTL

-----------------------------------------------------------------------------
(* The replay buffer *)

BufferTypes ==
  /\ buffered \in Seq(Nat) /\ drained \in Seq(Nat)
  /\ bufferClock \in Int
  /\ pushed \in Seq(Int)
  /\ crowded \subseteq Nat

(* Everything is a push; buffered and drained are in order, what was       *)
(* drained before what is buffered; and the two clauses on what is gone.   *)
BufferInv ==
  /\ BufferTypes
  /\ Len(buffered) <= Capacity
  /\ \A i \in 1..Len(buffered) : buffered[i] \in 1..Len(pushed)
  /\ \A i \in 1..Len(drained) : drained[i] \in 1..Len(pushed)
  /\ crowded \subseteq 1..Len(pushed)
  /\ Increasing(buffered) /\ Increasing(drained)
  /\ \A i \in 1..Len(drained), j \in 1..Len(buffered) : drained[i] < buffered[j]
  /\ \A n \in 1..Len(pushed) :
       n \in ToSet(buffered) \cup ToSet(drained) \cup crowded \/ Expired(n)
  /\ \A n \in crowded : Len(pushed) >= n + Capacity

(* gc drops a prefix of expired ops.                                       *)
LEMMA CollectedIsSuffix ==
  ASSUME BufferTypes
  PROVE  \E k \in 0..Len(buffered) :
           /\ Collected = Suffix(buffered, k)
           /\ \A i \in 1..k : Expired(buffered[i])
<1>0. Len(buffered) \in Nat  BY LenProperties DEF BufferTypes
<1>1. CASE FreshFrom = {}
  <2>1. Collected = <<>>  BY <1>1 DEF Collected
  <2>2. Suffix(buffered, Len(buffered)) = <<>>
    BY <1>0, SubSeqEmpty DEF Suffix
  <2>3. \A i \in 1..Len(buffered) : Expired(buffered[i])
    BY <1>1 DEF FreshFrom
  <2> QED  BY <1>0, <2>1, <2>2, <2>3
<1>2. CASE FreshFrom # {}
  <2> DEFINE f == CHOOSE i \in FreshFrom : \A j \in FreshFrom : i <= j
  <2>1. FreshFrom \in SUBSET Nat  BY <1>0 DEF FreshFrom
  <2>2. f \in FreshFrom /\ \A j \in FreshFrom : f <= j
    BY <1>2, <2>1, LeastElement
  <2>3. f \in 1..Len(buffered)  BY <2>2 DEF FreshFrom
  <2>4. Collected = SubSeq(buffered, f, Len(buffered))
    BY <1>2 DEF Collected
  <2> HIDE DEF f
  <2>5. f - 1 \in 0..Len(buffered) /\ (f - 1) + 1 = f  BY <1>0, <2>3
  <2>6. Collected = Suffix(buffered, f - 1)  BY <2>4, <2>5 DEF Suffix
  <2>7. ASSUME NEW i \in 1..(f - 1) PROVE Expired(buffered[i])
    <3>1. i \in 1..Len(buffered) /\ ~ (f <= i)  BY <1>0, <2>3
    <3>2. i \notin FreshFrom  BY <2>2, <3>1
    <3> QED  BY <3>1, <3>2 DEF FreshFrom
  <2> QED  BY <2>5, <2>6, <2>7
<1> QED  BY <1>1, <1>2

(* push makes room for one op at most, and only in a full buffer of fresh  *)
(* ones.                                                                   *)
LEMMA RoomIsSuffix ==
  ASSUME BufferInv, NEW k \in 0..Len(buffered), Collected = Suffix(buffered, k)
  PROVE  \/ /\ Room(Collected) = Suffix(buffered, k)
            /\ Len(buffered) - k < Capacity
         \/ /\ k = 0 /\ Len(buffered) = Capacity
            /\ Room(Collected) = Suffix(buffered, 1)
<1>0. /\ buffered \in Seq(Nat) /\ Len(buffered) \in Nat /\ Len(buffered) <= Capacity
      /\ Capacity \in Nat \ {0}
  BY LenProperties, BufferAssumption DEF BufferInv, BufferTypes
<1>1. Len(Collected) = Len(buffered) - k
  BY <1>0, SuffixProperties
<1>2. CASE Len(Collected) < Capacity
  BY <1>0, <1>1, <1>2 DEF Room
<1>3. CASE Len(Collected) >= Capacity
  <2>1. k = 0 /\ Len(buffered) = Capacity  BY <1>0, <1>1, <1>3
  <2>2. Collected = buffered  BY <1>0, <2>1, SubSeqFull DEF Suffix
  <2>3. Room(Collected) = Tail(buffered)  BY <1>3, <2>2 DEF Room
  <2>4. Tail(buffered) = Suffix(buffered, 1)
    <3>1. buffered # <<>>  BY <1>0, <2>1, EmptySeq
    <3> QED  BY <1>0, <3>1, HeadTailProperties, TailIsSubSeq, SMTT(20) DEF Suffix
  <2> QED  BY <2>1, <2>3, <2>4
<1> QED  BY <1>0, <1>1, <1>2, <1>3

(* An op that has expired stays so.                                        *)
LEMMA ExpiredStays ==
  ASSUME BufferTypes, NEW n \in 1..Len(pushed), Expired(n),
         pushed'[n] = pushed[n], bufferClock' \in Int, bufferClock' >= bufferClock
  PROVE  Expired(n)'
<1>1. pushed[n] \in Int  BY ElementOfSeq DEF BufferTypes
<1> QED  BY <1>1, BufferAssumption DEF Expired, BufferTypes

LEMMA BufferInitInv == BufferInit => BufferInv
BY EmptySeq, BufferAssumption
DEF BufferInit, BufferInv, BufferTypes, Increasing, ToSet

(* A suffix of the buffer, with nothing pushed, drained or crowded out.    *)
LEMMA BufferPeekInv == BufferInv /\ BufferPeek => BufferInv'
<1> SUFFICES ASSUME BufferInv, BufferPeek PROVE BufferInv'
  OBVIOUS
<1>t. BufferTypes /\ Len(buffered) \in Nat
  BY LenProperties DEF BufferInv, BufferTypes
<1>1. PICK k \in 0..Len(buffered) :
        Collected = Suffix(buffered, k) /\ \A i \in 1..k : Expired(buffered[i])
  BY <1>t, CollectedIsSuffix
<1>2. /\ buffered' = Suffix(buffered, k)
      /\ UNCHANGED <<bufferClock, pushed, drained, crowded>>
  BY <1>1 DEF BufferPeek
<1>3. /\ buffered' \in Seq(Nat) /\ Len(buffered') = Len(buffered) - k
      /\ \A i \in 1..(Len(buffered) - k) : buffered'[i] = buffered[i + k]
  BY <1>2, <1>t, SuffixProperties DEF BufferTypes
<1>4. \A i \in 1..Len(buffered') : i + k \in 1..Len(buffered) /\ buffered'[i] = buffered[i + k]
  BY <1>3, <1>t
<1>5. BufferTypes'  BY <1>2, <1>3, <1>t DEF BufferTypes
<1>6. Len(buffered') <= Capacity
  BY <1>3, <1>t, BufferAssumption DEF BufferInv
<1>7. Increasing(buffered)'
  <2> SUFFICES ASSUME NEW i \in 1..Len(buffered'), NEW j \in 1..Len(buffered'), i < j
               PROVE  buffered'[i] < buffered'[j]
    BY DEF Increasing
  <2> QED  BY <1>4 DEF BufferInv, Increasing
<1>8. \A i \in 1..Len(drained'), j \in 1..Len(buffered') : drained'[i] < buffered'[j]
  BY <1>2, <1>4 DEF BufferInv
<1>9. ASSUME NEW n \in 1..Len(pushed')
      PROVE  n \in (ToSet(buffered) \cup ToSet(drained) \cup crowded)' \/ Expired(n)'
  <2>1. Expired(n)' <=> Expired(n)  BY <1>2 DEF Expired
  <2>2. CASE n \in ToSet(buffered)
    <3>1. PICK i \in 1..Len(buffered) : n = buffered[i]
      BY <2>2, <1>t DEF ToSet, BufferTypes
    <3>2. CASE i \in 1..k  BY <3>1, <3>2, <1>1, <2>1
    <3>3. CASE i \notin 1..k
      <4>1. i - k \in 1..Len(buffered') /\ (i - k) + k = i
        BY <3>1, <3>3, <1>3, <1>t
      <4>2. n = buffered'[i - k]  BY <4>1, <3>1, <1>4
      <4> QED  BY <4>1, <4>2, <1>3 DEF ToSet
    <3> QED  BY <3>2, <3>3
  <2>3. CASE n \notin ToSet(buffered)
    BY <2>1, <2>3, <1>2 DEF BufferInv, ToSet
  <2> QED  BY <2>2, <2>3
<1> QED
  BY <1>2, <1>4, <1>5, <1>6, <1>7, <1>8, <1>9 DEF BufferInv

(* A push is the last in order, behind a suffix of the buffer; what the    *)
(* suffix lacks has expired, or is the head of a full buffer, which is     *)
(* Capacity pushes old.                                                    *)
LEMMA BufferPushInv == BufferInv /\ BufferPush => BufferInv'
<1> SUFFICES ASSUME BufferInv, BufferPush PROVE BufferInv'
  OBVIOUS
<1>t. BufferTypes /\ Len(buffered) \in Nat /\ Len(pushed) \in Nat /\ Len(drained) \in Nat
  BY LenProperties DEF BufferInv, BufferTypes
<1> DEFINE top == Len(pushed) + 1
<1>1. PICK k \in 0..Len(buffered) :
        Collected = Suffix(buffered, k) /\ \A i \in 1..k : Expired(buffered[i])
  BY <1>t, CollectedIsSuffix
<1>2. PICK m \in 0..Len(buffered) :
        /\ Room(Collected) = Suffix(buffered, m)
        /\ Len(buffered) - m < Capacity
        /\ m = k \/ (k = 0 /\ m = 1 /\ Len(buffered) = Capacity)
  <2>1. CASE Room(Collected) = Suffix(buffered, k) /\ Len(buffered) - k < Capacity
    BY <2>1
  <2>2. CASE /\ k = 0 /\ Len(buffered) = Capacity
             /\ Room(Collected) = Suffix(buffered, 1)
    <3>1. 1 \in 0..Len(buffered) /\ Len(buffered) - 1 < Capacity
      BY <2>2, <1>t, BufferAssumption
    <3> QED  BY <2>2, <3>1
  <2> QED  BY <1>1, <2>1, <2>2, RoomIsSuffix
<1> DEFINE q == Suffix(buffered, m)
<1>3. /\ q \in Seq(Nat) /\ Len(q) = Len(buffered) - m /\ Len(q) \in Nat
      /\ \A i \in 1..Len(q) : i + m \in 1..Len(buffered) /\ q[i] = buffered[i + m]
  <2>1. /\ q \in Seq(Nat) /\ Len(q) = Len(buffered) - m
        /\ \A i \in 1..(Len(buffered) - m) : q[i] = buffered[i + m]
    BY <1>t, SuffixProperties DEF BufferTypes
  <2> QED  BY <2>1, <1>t
<1> HIDE DEF q
<1>4. /\ buffered' = Append(q, top)
      /\ UNCHANGED <<bufferClock, drained>>
      /\ crowded' = crowded \cup (ToSet(Collected) \ ToSet(q))
  BY <1>2 DEF BufferPush, q
<1>5. /\ buffered' \in Seq(Nat) /\ Len(buffered') = Len(q) + 1
      /\ \A i \in 1..Len(q) : buffered'[i] = q[i]
      /\ buffered'[Len(q) + 1] = top
  <2>1. top \in Nat  BY <1>t
  <2> QED  BY <1>3, <1>4, <2>1, AppendProperties
<1>l. Len(q) \in Nat /\ Len(buffered') = Len(q) + 1 /\ DOMAIN buffered' = 1..(Len(q) + 1)
  BY <1>3, <1>5, LenProperties
<1>6. /\ pushed' \in Seq(Int) /\ Len(pushed') = top
      /\ \A n \in 1..Len(pushed) : pushed'[n] = pushed[n]
  <2>1. PICK at \in (bufferClock - MaxSkew)..(bufferClock + MaxSkew) : pushed' = Append(pushed, at)
    BY DEF BufferPush
  <2>2. at \in Int  BY <1>t, BufferAssumption DEF BufferTypes
  <2> QED  BY <1>t, <2>1, <2>2, AppendProperties DEF BufferTypes
<1>7. \A i \in 1..Len(buffered) : buffered[i] \in 1..Len(pushed) /\ buffered[i] \in 1..top
  BY <1>t DEF BufferInv
<1>8. ASSUME NEW n \in ToSet(Collected) \ ToSet(q)
      PROVE  n \in 1..Len(pushed) /\ Len(pushed') >= n + Capacity
  <2>1. m # k
    BY <1>1, <1>8 DEF q
  <2>2. k = 0 /\ m = 1 /\ Len(buffered) = Capacity
    BY <1>2, <2>1
  <2>3. PICK i \in 1..Len(buffered) : n = buffered[i]
    BY <1>1, <1>8, <2>2, <1>t, SubSeqFull DEF Suffix, ToSet, BufferTypes
  <2>4. i = 1
    <3>1. CASE i # 1
      <4>1. i - 1 \in 1..Len(q) /\ (i - 1) + m = i
        BY <3>1, <2>2, <2>3, <1>3, <1>t
      <4>2. q[i - 1] = n  BY <4>1, <1>3, <2>3
      <4> QED  BY <4>1, <4>2, <1>3, <1>8 DEF ToSet
    <3> QED  BY <3>1
  <2>5. buffered[Len(buffered)] >= buffered[1] + Len(buffered) - 1
    <3>1. buffered \in Seq(Nat) /\ Increasing(buffered) /\ Len(buffered) > 0
      BY <1>t, <2>2, BufferAssumption DEF BufferInv, BufferTypes
    <3> QED  BY <3>1, IncreasingSpan
  <2>6. Len(buffered) \in 1..Len(buffered)  BY <1>t, <2>2, BufferAssumption
  <2>7. buffered[Len(buffered)] \in 1..Len(pushed) /\ buffered[1] \in 1..Len(pushed)
    BY <2>3, <2>4, <2>6, <1>7
  <2> QED
    BY <2>2, <2>3, <2>4, <2>5, <2>7, <1>6, <1>t, BufferAssumption
<1>9. BufferTypes'
  <2>1. crowded' \subseteq Nat
    <3>1. crowded \subseteq Nat  BY <1>t DEF BufferTypes
    <3>2. ToSet(Collected) \ ToSet(q) \subseteq Nat  BY <1>8, <1>t
    <3> QED  BY <1>4, <3>1, <3>2
  <2> QED  BY <1>4, <1>5, <1>6, <1>t, <2>1 DEF BufferTypes
<1>10. Len(buffered') <= Capacity
  BY <1>2, <1>3, <1>5, <1>t, BufferAssumption
<1>11. \A i \in 1..Len(buffered') : buffered'[i] \in 1..Len(pushed')
  <2> SUFFICES ASSUME NEW i \in 1..Len(buffered') PROVE buffered'[i] \in 1..top
    BY <1>6
  <2>1. CASE i \in 1..Len(q)  BY <2>1, <1>3, <1>5, <1>7
  <2>2. CASE i \notin 1..Len(q)
    <3>1. i = Len(q) + 1  BY ONLY <2>2, <1>l, i \in 1..Len(buffered')
    <3> QED  BY <3>1, <1>5, <1>t
  <2> QED  BY <2>1, <2>2
<1>12. \A i \in 1..Len(drained') : drained'[i] \in 1..Len(pushed')
  BY <1>4, <1>6, <1>t DEF BufferInv
<1>13. crowded' \subseteq 1..Len(pushed')
  <2>1. 1..Len(pushed) \subseteq 1..Len(pushed')  BY <1>6, <1>t
  <2>2. crowded \subseteq 1..Len(pushed)  BY DEF BufferInv
  <2>3. ToSet(Collected) \ ToSet(q) \subseteq 1..Len(pushed)  BY <1>8
  <2> QED  BY <1>4, <2>1, <2>2, <2>3
<1>14. Increasing(buffered)'
  <2> SUFFICES ASSUME NEW i \in 1..Len(buffered'), NEW j \in 1..Len(buffered'), i < j
               PROVE  buffered'[i] < buffered'[j]
    BY DEF Increasing
  <2>1. i \in 1..Len(q)  BY <1>l
  <2>2. CASE j \in 1..Len(q)
    <3>1. /\ i + m \in 1..Len(buffered) /\ j + m \in 1..Len(buffered)
          /\ buffered'[i] = buffered[i + m] /\ buffered'[j] = buffered[j + m]
      BY <2>1, <2>2, <1>3, <1>5
    <3>2. i + m < j + m  BY <1>t
    <3> QED  BY <3>1, <3>2 DEF BufferInv, Increasing
  <2>3. CASE j \notin 1..Len(q)
    <3>1. j = Len(q) + 1  BY <2>3, <1>l
    <3>2. buffered'[i] \in 1..Len(pushed)  BY <2>1, <1>3, <1>5, <1>7
    <3> QED  BY <3>1, <3>2, <1>5, <1>t
  <2> QED  BY <2>2, <2>3
<1>15. \A i \in 1..Len(drained'), j \in 1..Len(buffered') : drained'[i] < buffered'[j]
  <2> SUFFICES ASSUME NEW i \in 1..Len(drained), NEW j \in 1..Len(buffered')
               PROVE  drained[i] < buffered'[j]
    BY <1>4
  <2>1. CASE j \in 1..Len(q)  BY <2>1, <1>3, <1>5 DEF BufferInv
  <2>2. CASE j \notin 1..Len(q)
    <3>1. j = Len(q) + 1  BY <2>2, <1>l
    <3>2. drained[i] \in 1..Len(pushed)  BY DEF BufferInv
    <3> QED  BY <3>1, <3>2, <1>5, <1>t
  <2> QED  BY <2>1, <2>2
<1>16. ASSUME NEW n \in 1..Len(pushed')
       PROVE  n \in (ToSet(buffered) \cup ToSet(drained) \cup crowded)' \/ Expired(n)'
  <2>1. CASE n = top
    <3>1. Len(q) + 1 \in DOMAIN buffered'  BY ONLY <1>l
    <3> QED  BY <2>1, <3>1, <1>5 DEF ToSet
  <2>2. CASE n # top
    <3>1. n \in 1..Len(pushed)  BY <2>2, <1>6, <1>t
    <3>2. Expired(n) => Expired(n)'
      <4>1. /\ pushed'[n] = pushed[n] /\ bufferClock' \in Int /\ bufferClock' >= bufferClock
            /\ BufferTypes
        <5>1. bufferClock \in Int  BY <1>t DEF BufferTypes
        <5>2. bufferClock' = bufferClock  BY <1>4
        <5>3. pushed'[n] = pushed[n]  BY ONLY <3>1, <1>6
        <5> QED  BY ONLY <5>1, <5>2, <5>3, <1>t
      <4> QED  BY ONLY <3>1, <4>1, ExpiredStays
    <3>3. CASE n \in ToSet(buffered)
      <4>1. PICK i \in 1..Len(buffered) : n = buffered[i]
        BY <3>3, <1>t DEF ToSet, BufferTypes
      <4>2. CASE i \in 1..k  BY <4>1, <4>2, <1>1, <3>2
      <4>3. CASE i \notin 1..k
        <5>1. i - k \in 1..(Len(buffered) - k) /\ (i - k) + k = i
          BY ONLY <4>3, <1>t, i \in 1..Len(buffered), k \in 0..Len(buffered)
        <5>2. n \in ToSet(Collected)
          <6>1. /\ Len(Collected) = Len(buffered) - k /\ Collected \in Seq(Nat)
                /\ Collected[i - k] = buffered[i]
            <7>1. buffered \in Seq(Nat)  BY <1>t DEF BufferTypes
            <7>2. /\ Suffix(buffered, k) \in Seq(Nat)
                  /\ Len(Suffix(buffered, k)) = Len(buffered) - k
                  /\ Suffix(buffered, k)[i - k] = buffered[(i - k) + k]
              BY ONLY <5>1, <7>1, k \in 0..Len(buffered), SuffixProperties
            <7> QED  BY ONLY <5>1, <7>2, <1>1
          <6> QED  BY <6>1, <5>1, <4>1 DEF ToSet
        <5>3. CASE n \in ToSet(q)
          <6>1. PICK j \in 1..Len(q) : n = q[j]  BY <5>3, <1>3 DEF ToSet
          <6>2. j \in DOMAIN buffered' /\ n = buffered'[j]  BY <6>1, <1>5, <1>l
          <6> QED  BY <6>2 DEF ToSet
        <5>4. CASE n \notin ToSet(q)  BY <5>2, <5>4, <1>4
        <5> QED  BY <5>3, <5>4
      <4> QED  BY <4>2, <4>3
    <3>4. CASE n \notin ToSet(buffered)
      <4>1. n \in ToSet(drained) \cup crowded \/ Expired(n)
        BY <3>1, <3>4 DEF BufferInv
      <4>2. ToSet(drained)' = ToSet(drained) /\ crowded \subseteq crowded'
        BY <1>4 DEF ToSet
      <4> QED  BY <4>1, <4>2, <3>2
    <3> QED  BY <3>3, <3>4
  <2> QED  BY <2>1, <2>2
<1>17. \A n \in crowded' : Len(pushed') >= n + Capacity
  <2> SUFFICES ASSUME NEW n \in crowded' PROVE Len(pushed') >= n + Capacity
    OBVIOUS
  <2>1. CASE n \in crowded
    <3>1. Len(pushed) >= n + Capacity /\ n \in 1..Len(pushed)  BY <2>1 DEF BufferInv
    <3> QED  BY <3>1, <1>6, <1>t, BufferAssumption
  <2>2. CASE n \notin crowded  BY <2>2, <1>4, <1>8
  <2> QED  BY <2>1, <2>2
<1>18. Increasing(drained)'
  BY <1>4 DEF BufferInv, Increasing
<1> QED
  BY <1>9, <1>10, <1>11, <1>12, <1>13, <1>14, <1>15, <1>16, <1>17, <1>18 DEF BufferInv

(* A drain moves a suffix of the buffer behind what was drained before.    *)
LEMMA BufferDrainInv == BufferInv /\ BufferDrain => BufferInv'
<1> SUFFICES ASSUME BufferInv, BufferDrain PROVE BufferInv'
  OBVIOUS
<1>t. BufferTypes /\ Len(buffered) \in Nat /\ Len(pushed) \in Nat /\ Len(drained) \in Nat
  BY LenProperties DEF BufferInv, BufferTypes
<1>1. PICK k \in 0..Len(buffered) :
        Collected = Suffix(buffered, k) /\ \A i \in 1..k : Expired(buffered[i])
  BY <1>t, CollectedIsSuffix
<1> DEFINE q == Suffix(buffered, k)
<1>2. /\ drained' = drained \o q /\ buffered' = <<>>
      /\ UNCHANGED <<bufferClock, pushed, crowded>>
  BY <1>1 DEF BufferDrain, Kept
<1>3. /\ q \in Seq(Nat) /\ Len(q) = Len(buffered) - k /\ Len(q) \in Nat
      /\ \A i \in 1..Len(q) : i + k \in 1..Len(buffered) /\ q[i] = buffered[i + k]
  <2>1. /\ q \in Seq(Nat) /\ Len(q) = Len(buffered) - k
        /\ \A i \in 1..(Len(buffered) - k) : q[i] = buffered[i + k]
    BY <1>t, SuffixProperties DEF BufferTypes
  <2> QED  BY <2>1, <1>t
<1> HIDE DEF q
<1>4. /\ drained' \in Seq(Nat) /\ Len(drained') = Len(drained) + Len(q)
      /\ \A i \in 1..Len(drained) : i \in 1..Len(drained') /\ drained'[i] = drained[i]
      /\ \A i \in 1..Len(drained') :
           \/ i \in 1..Len(drained)
           \/ /\ i > Len(drained) /\ i - Len(drained) \in 1..Len(q)
              /\ drained'[i] = q[i - Len(drained)]
  <2>1. drained \in Seq(Nat) /\ q \in Seq(Nat) /\ drained' = drained \o q
    BY <1>2, <1>3, <1>t DEF BufferTypes
  <2> QED  BY ONLY <2>1, ConcatPlaces
<1>l. DOMAIN drained' = 1..(Len(drained) + Len(q)) /\ Len(drained) + Len(q) \in Nat
  BY <1>3, <1>4, <1>t, LenProperties
<1>5. \A i \in 1..Len(drained') :
        \/ i \in 1..Len(drained) /\ drained'[i] = drained[i]
        \/ /\ i > Len(drained) /\ (i - Len(drained)) + k \in 1..Len(buffered)
           /\ drained'[i] = buffered[(i - Len(drained)) + k]
  BY ONLY <1>3, <1>4
<1>6. BufferTypes' /\ Len(buffered') = 0
  BY <1>2, <1>4, <1>t, EmptySeq DEF BufferTypes
<1>7. \A i \in 1..Len(drained') : drained'[i] \in 1..Len(pushed')
  BY <1>2, <1>5 DEF BufferInv
<1>8. Increasing(drained)'
  <2> SUFFICES ASSUME NEW i \in 1..Len(drained'), NEW j \in 1..Len(drained'), i < j
               PROVE  drained'[i] < drained'[j]
    BY DEF Increasing
  <2>1. CASE j \in 1..Len(drained)
    <3>1. i \in 1..Len(drained)  BY <2>1, <1>t
    <3>2. drained'[i] = drained[i] /\ drained'[j] = drained[j]
      BY ONLY <2>1, <3>1, <1>4
    <3> QED  BY <2>1, <3>1, <3>2 DEF BufferInv, Increasing
  <2>2. CASE i \in 1..Len(drained) /\ j \notin 1..Len(drained)
    <3>1. drained'[i] = drained[i]  BY ONLY <2>2, <1>4
    <3> QED  BY <2>2, <3>1, <1>5 DEF BufferInv
  <2>3. CASE i \notin 1..Len(drained) /\ j \notin 1..Len(drained)
    <3> DEFINE a == (i - Len(drained)) + k
               b == (j - Len(drained)) + k
    <3>1. /\ a \in 1..Len(buffered) /\ b \in 1..Len(buffered)
          /\ drained'[i] = buffered[a] /\ drained'[j] = buffered[b]
      BY <2>3, <1>5
    <3>2. a < b  BY <1>t, <1>4
    <3> QED  BY <3>1, <3>2 DEF BufferInv, Increasing
  <2> QED  BY <2>1, <2>2, <2>3
<1>9. ASSUME NEW n \in 1..Len(pushed')
      PROVE  n \in (ToSet(buffered) \cup ToSet(drained) \cup crowded)' \/ Expired(n)'
  <2>1. Expired(n)' <=> Expired(n)  BY <1>2 DEF Expired
  <2>2. CASE n \in ToSet(buffered)
    <3>1. PICK i \in 1..Len(buffered) : n = buffered[i]
      BY <2>2, <1>t DEF ToSet, BufferTypes
    <3>2. CASE i \in 1..k  BY <3>1, <3>2, <1>1, <2>1
    <3>3. CASE i \notin 1..k
      <4> DEFINE j == (i - k) + Len(drained)
      <4>1. /\ j \in 1..(Len(drained) + Len(q)) /\ ~ (j <= Len(drained))
            /\ j - Len(drained) \in 1..Len(q) /\ (j - Len(drained)) + k = i
        BY <3>1, <3>3, <1>3, <1>t
      <4>2. drained'[j] = n
        <5>1. j \in 1..Len(drained') /\ ~ (j \in 1..Len(drained))  BY <4>1, <1>4, <1>t
        <5>2. drained'[j] = q[j - Len(drained)]  BY ONLY <5>1, <1>4
        <5> QED  BY ONLY <5>2, <4>1, <1>3, <3>1
      <4>3. j \in DOMAIN drained'  BY <4>1, <1>4
      <4> QED  BY <4>2, <4>3 DEF ToSet
    <3> QED  BY <3>2, <3>3
  <2>3. CASE n \in ToSet(drained)
    <3>1. PICK i \in 1..Len(drained) : n = drained[i]
      BY <2>3, <1>t DEF ToSet, BufferTypes
    <3>2. i \in 1..(Len(drained) + Len(q)) /\ i <= Len(drained)
      BY <3>1, <1>l, <1>3, <1>t
    <3>3. i \in DOMAIN drained' /\ drained'[i] = n
      BY <3>1, <3>2, <1>l, <1>4
    <3> QED  BY <3>3 DEF ToSet
  <2>4. CASE n \notin ToSet(buffered) \cup ToSet(drained)
    BY <2>1, <2>4, <1>2 DEF BufferInv
  <2> QED  BY <2>2, <2>3, <2>4
<1>10. Len(buffered') <= Capacity  BY <1>6, BufferAssumption
<1>11. /\ crowded' \subseteq 1..Len(pushed')
       /\ \A n \in crowded' : Len(pushed') >= n + Capacity
  BY <1>2 DEF BufferInv
<1>12. Increasing(buffered)'
  BY <1>6 DEF Increasing
<1> QED
  BY <1>6, <1>7, <1>8, <1>9, <1>10, <1>11, <1>12 DEF BufferInv

LEMMA BufferTickInv == BufferInv /\ BufferTick => BufferInv'
<1> SUFFICES ASSUME BufferInv, BufferTick PROVE BufferInv'
  OBVIOUS
<1>1. /\ bufferClock' = bufferClock + 1
      /\ UNCHANGED <<buffered, pushed, drained, crowded>>
  BY DEF BufferTick
<1>2. BufferTypes /\ BufferTypes' /\ bufferClock' >= bufferClock
  BY <1>1 DEF BufferInv, BufferTypes
<1>3. \A n \in 1..Len(pushed) : Expired(n) => Expired(n)'
  <2> SUFFICES ASSUME NEW n \in 1..Len(pushed), Expired(n) PROVE Expired(n)'
    OBVIOUS
  <2>1. bufferClock' \in Int  BY <1>2 DEF BufferTypes
  <2> QED  BY <1>1, <1>2, <2>1, ExpiredStays
<1>4. \A n \in 1..Len(pushed') :
        n \in (ToSet(buffered) \cup ToSet(drained) \cup crowded)' \/ Expired(n)'
  BY <1>1, <1>3 DEF BufferInv, ToSet
<1>5. Increasing(buffered)' /\ Increasing(drained)'
  BY <1>1 DEF BufferInv, Increasing
<1> QED
  BY <1>1, <1>2, <1>4, <1>5 DEF BufferInv

LEMMA BufferInvariant == BufferSpec => []BufferInv
<1>1. BufferInv /\ UNCHANGED bufferVars => BufferInv'
  BY DEF bufferVars, BufferInv, BufferTypes, Increasing, Expired, ToSet
<1>2. BufferInv /\ [BufferNext]_bufferVars => BufferInv'
  BY <1>1, BufferPushInv, BufferDrainInv, BufferPeekInv, BufferTickInv DEF BufferNext
<1> QED
  BY BufferInitInv, <1>2, PTL DEF BufferSpec

(* Promotion replays in order and leaves nothing out but what expired and  *)
(* what a full buffer crowded out, for any capacity, TTL and skew of the   *)
(* capture times (class ReplayBuffer).                                     *)
THEOREM ReplayComplete == BufferSpec => []ReplayIsComplete
<1>1. BufferInv => ReplayIsComplete
  <2> SUFFICES ASSUME BufferInv PROVE ReplayIsComplete
    OBVIOUS
  <2>t. /\ buffered \in Seq(Nat) /\ drained \in Seq(Nat)
        /\ Len(buffered) \in Nat /\ Len(drained) \in Nat
    BY LenProperties DEF BufferInv, BufferTypes
  <2>1. InOrder
    <3> DEFINE all == drained \o buffered
    <3>1. /\ Len(all) = Len(drained) + Len(buffered) /\ all \in Seq(Nat)
          /\ \A i \in 1..Len(drained) : i \in 1..Len(all) /\ all[i] = drained[i]
          /\ \A i \in 1..Len(all) :
               \/ i \in 1..Len(drained)
               \/ /\ i > Len(drained) /\ i - Len(drained) \in 1..Len(buffered)
                  /\ all[i] = buffered[i - Len(drained)]
      BY <2>t, ConcatPlaces
    <3> HIDE DEF all
    <3> SUFFICES ASSUME NEW i \in 1..Len(all), NEW j \in 1..Len(all), i < j
                 PROVE  all[i] < all[j]
      BY <3>1 DEF InOrder, all
    <3>t. i \in Nat /\ j \in Nat /\ i \in 1..Len(all) /\ j \in 1..Len(all) /\ i < j
      BY ONLY <2>t, <3>1, i < j, i \in 1..Len(all), j \in 1..Len(all)
    <3>2. CASE j \in 1..Len(drained)
      <4>1. i \in 1..Len(drained)  BY ONLY <3>2, <3>t, <2>t
      <4>2. all[i] = drained[i] /\ all[j] = drained[j]  BY ONLY <4>1, <3>1, <3>2
      <4> QED  BY <4>1, <4>2, <3>2 DEF BufferInv, Increasing
    <3>3. CASE i \in 1..Len(drained) /\ j \notin 1..Len(drained)
      <4>1. all[i] = drained[i]  BY ONLY <3>3, <3>1
      <4>2. /\ j - Len(drained) \in 1..Len(buffered)
            /\ all[j] = buffered[j - Len(drained)]
        BY ONLY <3>3, <3>t, <3>1
      <4> QED  BY <3>3, <4>1, <4>2 DEF BufferInv
    <3>4. CASE i \notin 1..Len(drained) /\ j \notin 1..Len(drained)
      <4>1. /\ i - Len(drained) \in 1..Len(buffered) /\ j - Len(drained) \in 1..Len(buffered)
            /\ all[i] = buffered[i - Len(drained)] /\ all[j] = buffered[j - Len(drained)]
        BY ONLY <3>4, <3>t, <3>1
      <4>2. i - Len(drained) < j - Len(drained)  BY ONLY <3>t, <2>t
      <4> QED  BY <4>1, <4>2 DEF BufferInv, Increasing
    <3>5. j \in 1..Len(drained) => i \in 1..Len(drained)  BY ONLY <3>t, <2>t
    <3> QED  BY <3>2, <3>3, <3>4, <3>5
  <2> QED  BY <2>1 DEF BufferInv, ReplayIsComplete
<1> QED  BY BufferInvariant, <1>1, PTL

(* The buffer never exceeds its capacity, and everything it ever held was  *)
(* pushed.                                                                 *)
THEOREM BufferTypeCorrect == BufferSpec => []BufferTypeOK
<1>1. BufferInv => BufferTypeOK
  <2> SUFFICES ASSUME BufferInv PROVE BufferTypeOK
    OBVIOUS
  <2>1. DOMAIN buffered = 1..Len(buffered) /\ DOMAIN drained = 1..Len(drained)
    BY LenProperties DEF BufferInv, BufferTypes
  <2> QED  BY <2>1 DEF BufferInv, BufferTypeOK, ToSet
<1> QED  BY BufferInvariant, <1>1, PTL
=============================================================================
