--------------------------- MODULE PresenterStart ---------------------------
(***************************************************************************)
(* services/presenter-session: start with an idempotency key, over         *)
(* InMemoryIdempotencyStore.  Every await of the service is a point where  *)
(* other requests run: get, reserve, store.create, the audit emission, and *)
(* commit.  A session is named by the request that created it.             *)
(***************************************************************************)
EXTENDS Naturals, FiniteSets

CONSTANTS Starts, StartKeys

VARIABLES
  records,   \* per key: the response, as a set of at most one session
  sessions,  \* rows of presenter_session
  phase, keyOf,
  answer,    \* the session in the answer, as a set; empty before
  replayed,  \* requests answered with a prior response
  committed, \* history: requests that committed since the last restart
  before     \* history: what had committed when the request was sent

startVars == <<records, sessions, phase, keyOf, answer, replayed, committed, before>>

StartInit ==
  /\ records = [k \in StartKeys |-> {}]
  /\ sessions = {}
  /\ phase = [r \in Starts |-> "idle"]
  /\ keyOf \in [Starts -> StartKeys]
  /\ answer = [r \in Starts |-> {}]
  /\ replayed = {}
  /\ committed = {}
  /\ before = [r \in Starts |-> {}]

StartStep(r, label) == phase' = [phase EXCEPT ![r] = label]

SendStart(r) ==
  /\ phase[r] = "idle"
  /\ StartStep(r, "lookup")
  /\ before' = [before EXCEPT ![r] = committed]
  /\ UNCHANGED <<records, sessions, keyOf, answer, replayed, committed>>

(* A placeholder has no response; get and reserve both answer only for one *)
(* that has.                                                               *)
HasResponse(r) == records[keyOf[r]] # {}

ReplayResponse(r) ==
  /\ StartStep(r, "done")
  /\ answer' = [answer EXCEPT ![r] = records[keyOf[r]]]
  /\ replayed' = replayed \cup {r}

LookupOrReserve(r, from, to) ==
  /\ phase[r] = from
  /\ IF HasResponse(r) THEN ReplayResponse(r)
                       ELSE StartStep(r, to) /\ UNCHANGED <<answer, replayed>>
  /\ UNCHANGED <<records, sessions, keyOf, committed, before>>

LookupKey(r) == LookupOrReserve(r, "lookup", "reserve")
ReserveKey(r) == LookupOrReserve(r, "reserve", "create")

Create(r) ==
  /\ phase[r] = "create"
  /\ sessions' = sessions \cup {r}
  /\ StartStep(r, "audit")
  /\ UNCHANGED <<records, keyOf, answer, replayed, committed, before>>

EmitAudit(r) ==
  /\ phase[r] = "audit"
  /\ StartStep(r, "commit")
  /\ UNCHANGED <<records, sessions, keyOf, answer, replayed, committed, before>>

NotKept(r) == records                     \* mutant: the response is not kept
Recorded(r) == [records EXCEPT ![keyOf[r]] = {r}]

CommitStart(r) ==
  /\ phase[r] = "commit"
  /\ records' = Recorded(r)
  /\ answer' = [answer EXCEPT ![r] = {r}]
  /\ committed' = committed \cup {r}
  /\ StartStep(r, "done")
  /\ UNCHANGED <<sessions, keyOf, replayed, before>>

(* store.create or the audit emission rejects: the client gets an error,   *)
(* the row may be stored, and the key keeps its placeholder.               *)
StartFails(r) ==
  /\ phase[r] \in {"create", "audit"}
  /\ sessions' \in IF phase[r] = "create" THEN {sessions, sessions \cup {r}} ELSE {sessions}
  /\ StartStep(r, "done")
  /\ UNCHANGED <<records, keyOf, answer, replayed, committed, before>>

(* The process restarts without requests and without records.              *)
InProgress(r) == phase[r] \notin {"idle", "done", "dead"}
StartCrash ==
  /\ \E r \in Starts : InProgress(r) \/ r \in committed
  /\ phase' = [r \in Starts |-> IF InProgress(r) THEN "dead" ELSE phase[r]]
  /\ records' = [k \in StartKeys |-> {}]
  /\ committed' = {}
  /\ UNCHANGED <<sessions, keyOf, answer, replayed, before>>

StartFinished ==
  /\ \A r \in Starts : phase[r] \in {"done", "dead"}
  /\ UNCHANGED startVars

StartNext ==
  \/ \E r \in Starts : \/ SendStart(r) \/ LookupKey(r) \/ ReserveKey(r)
                         \/ Create(r) \/ EmitAudit(r) \/ CommitStart(r) \/ StartFails(r)
  \/ StartCrash
  \/ StartFinished

StartSpec == StartInit /\ [][StartNext]_startVars

-----------------------------------------------------------------------------
(* A key is bound to one creator at a time, and only to a stored session.  *)
StartTypeOK ==
  /\ phase \in [Starts -> {"idle", "lookup", "reserve", "create", "audit",
                          "commit", "done", "dead"}]
  /\ \A k \in StartKeys : records[k] \subseteq sessions /\ Cardinality(records[k]) <= 1
  /\ sessions \subseteq Starts

(* Duplicates need an overlap, a failure or a restart: a repeat sent after *)
(* the response was recorded creates no session, however the requests in   *)
(* progress overwrite each other's record; and what is replayed is a       *)
(* stored session of another request with the same key.                    *)
LateRepeatCreatesNothing ==
  /\ \A r, q \in sessions : keyOf[r] = keyOf[q] => r \notin before[q]
  /\ \A r \in replayed :
       \E q \in sessions : answer[r] = {q} /\ keyOf[q] = keyOf[r] /\ q # r

-----------------------------------------------------------------------------
(* "Repeating the same request with the same key is a no-op"               *)
(* (idempotency/index.ts): a key creates one session.  Two that overlap    *)
(* both see the key as free, since reserve reports a placeholder so.       *)
OneSessionPerKey ==
  \A r, q \in sessions : keyOf[r] = keyOf[q] => r = q
=============================================================================
