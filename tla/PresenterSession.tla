-------------------------- MODULE PresenterSession --------------------------
(***************************************************************************)
(* services/presenter-session: the life of one session row under           *)
(* concurrent requests.  Every request of service.ts reads the row, builds *)
(* the next row from what it read and writes it with a compare-and-set on  *)
(* the version (store/pg_store.ts); then it emits an audit event and, for  *)
(* an advance with an idempotency key, records its response.               *)
(*                                                                         *)
(* annotate and plan leave nothing in the row but the new version: both    *)
(* are the operation "touch".  A client sends an If-Match version that it  *)
(* has seen, so at most the current one.  A key says nothing about body    *)
(* and version: the presenter app keeps one key per session and operation  *)
(* and sends it with every slide and every new etag.                       *)
(***************************************************************************)
EXTENDS Naturals, FiniteSets

CONSTANTS Requests, Slides, Presenters, Keys,
          StartModes,         \* the modes a session starts in: a bound
          NoKey,              \* the request has no idempotency key
          NoRecord, InFlight, \* no record, a placeholder
          NoRow               \* the request holds no row

ASSUME PresenterAssumption ==
  /\ NoKey \notin Keys
  /\ NoRecord \notin Nat /\ InFlight \notin Nat

Modes == {"live", "rehearsal", "offline", "multi_presenter", "failover"}

ASSUME StartModesAssumption == StartModes \subseteq Modes

AllowedModeTransitions ==
  [live            |-> {"rehearsal", "multi_presenter", "offline", "failover"},
   rehearsal       |-> {"live", "offline"},
   offline         |-> {"live", "failover"},
   multi_presenter |-> {"live", "failover"},
   failover        |-> {"live", "multi_presenter", "offline"}]

InGraph(from, to) == from = to \/ to \in AllowedModeTransitions[from]

MayMove(from, to) == InGraph(from, to)

Bodies ==
  [op : {"advance"}, slide : Slides, key : Keys \cup {NoKey}]
    \cup [op : {"touch", "timer", "heartbeat", "recap", "end"}]
    \cup [op : {"handover"}, to : Presenters, slide : Slides]
    \cup [op : {"failover"}, slide : Slides, success : BOOLEAN]

Rows == [version : Nat \ {0}, mode : Modes, presenter : Presenters, slide : Slides,
         timers : SUBSET Requests, ended : BOOLEAN]

VARIABLES
  row,      \* the row of table presenter_session
  records,  \* idempotency records: NoRecord, InFlight or the response's version
  pc,       \* where each request is
  body,     \* what it asks for
  expected, \* its If-Match version, until it is answered
  read,     \* the row it has read and will write back
  answer,   \* what the client got
  wrote,    \* history: the version it wrote, 0 if none
  audited,  \* history: requests whose audit event was emitted
  beside,   \* history: requests with its key in progress when it was sent
  forgotten \* history: accepted requests that a restart forgot

histories == <<audited, beside, forgotten>>
vars == <<row, records, pc, body, expected, read, answer, wrote, histories>>

Says(k) == [kind |-> k, version |-> 0]
Row(k, v) == [kind |-> k, version |-> v]

Init ==
  /\ \E m \in StartModes, p \in Presenters, s \in Slides :
       row = [version |-> 1, mode |-> m, presenter |-> p, slide |-> s,
              timers |-> {}, ended |-> FALSE]
  /\ records = [k \in Keys |-> NoRecord]
  /\ pc = [r \in Requests |-> "idle"]
  /\ body = [r \in Requests |-> [op |-> "touch"]]
  /\ expected = [r \in Requests |-> 0]
  /\ read = [r \in Requests |-> NoRow]
  /\ answer = [r \in Requests |-> Says("none")]
  /\ wrote = [r \in Requests |-> 0]
  /\ audited = {} /\ forgotten = {}
  /\ beside = [r \in Requests |-> {}]

HasKey(r) == body[r].op = "advance" /\ body[r].key # NoKey
Committed(k) == records[k] \notin {NoRecord, InFlight}
InProgress(r) == pc[r] \notin {"idle", "done", "dead"}
Accepted == {r \in Requests : wrote[r] > 0}

Goes(r, label) == pc' = [pc EXCEPT ![r] = label] /\ UNCHANGED <<answer, expected>>

Reply(r, a) ==
  /\ pc' = [pc EXCEPT ![r] = "done"]
  /\ answer' = [answer EXCEPT ![r] = a]
  /\ expected' = [expected EXCEPT ![r] = 0]

-----------------------------------------------------------------------------
Versions(b) ==
  IF b.op \in {"heartbeat", "recap"} THEN {0} ELSE 1..row.version

(* A client sends a request, with a key that is new or was used before.    *)
Send(r) ==
  /\ pc[r] = "idle"
  /\ \E b \in Bodies : \E v \in Versions(b) :
       LET keyed == b.op = "advance" /\ b.key # NoKey IN
       /\ body' = [body EXCEPT ![r] = b]
       /\ expected' = [expected EXCEPT ![r] = v]
       /\ pc' = [pc EXCEPT ![r] = IF keyed THEN "lookup" ELSE "read"]
       /\ beside' = [beside EXCEPT ![r] =
            {q \in Requests : keyed /\ InProgress(q) /\ HasKey(q) /\ body[q].key = b.key}]
  /\ UNCHANGED <<row, records, read, answer, wrote, audited, forgotten>>

(* idempotency.get: a committed response is replayed.                      *)
Lookup(r) ==
  /\ pc[r] = "lookup"
  /\ IF Committed(body[r].key)
       THEN Reply(r, Row("replay", records[body[r].key]))
       ELSE Goes(r, "reserve")
  /\ UNCHANGED <<row, records, body, read, wrote, histories>>

(* idempotency.reserve; advance does not look at what it returns.          *)
Reserve(r) ==
  /\ pc[r] = "reserve"
  /\ records' = [records EXCEPT ![body[r].key] =
                   IF Committed(body[r].key) THEN @ ELSE InFlight]
  /\ Goes(r, "read")
  /\ UNCHANGED <<row, body, read, wrote, histories>>

(* failover and writeRecap do not look at ended_at.                        *)
Refusal(r) ==
  IF row.ended /\ body[r].op \notin {"failover", "recap"} THEN "ended"
  ELSE IF \/ body[r].op = "end" /\ row.version # expected[r]
          \/ body[r].op = "handover" /\ body[r].slide # row.slide THEN "conflict"
  ELSE IF body[r].op = "handover" /\ ~MayMove(row.mode, "multi_presenter") THEN "illegal"
  ELSE "no"

(* getById and the checks on the row.  A recap of an ended session goes on *)
(* without a write.                                                        *)
Read(r) ==
  /\ pc[r] = "read"
  /\ IF Refusal(r) # "no"
       THEN Reply(r, Says(Refusal(r))) /\ UNCHANGED read
       ELSE /\ read' = IF body[r].op = "recap" /\ row.ended
                         THEN read ELSE [read EXCEPT ![r] = row]
            /\ expected' = [expected EXCEPT ![r] =
                 IF body[r].op \in {"heartbeat", "recap"} THEN row.version ELSE @]
            /\ pc' = [pc EXCEPT ![r] =
                 IF body[r].op = "recap" /\ row.ended THEN "audit" ELSE "write"]
            /\ UNCHANGED answer
  /\ UNCHANGED <<row, records, body, wrote, histories>>

(* The next row of each operation, built from the row that was read.        *)
Unversioned(r) == read[r]  \* mutant: the version is not bumped
Bumped(r) == [read[r] EXCEPT !.version = @ + 1]
touch(r) == Bumped(r)
heartbeat(r) == Bumped(r)
writeRecap(r) == Bumped(r)
applyAdvance(r) == [Bumped(r) EXCEPT !.slide = body[r].slide]
addAgendaTimer(r) == [Bumped(r) EXCEPT !.timers = @ \cup {r}]
handover(r) == [Bumped(r) EXCEPT !.presenter = body[r].to, !.mode = "multi_presenter"]
RecoversAs(r) ==  \* mutant: stores the recovery result as the mode
  [Bumped(r) EXCEPT !.slide = body[r].slide, !.mode = "success"]
failover(r) == [Bumped(r) EXCEPT !.slide = body[r].slide,
                                 !.mode = IF body[r].success THEN "live" ELSE "failover"]
end(r) == [row EXCEPT !.ended = TRUE, !.version = @ + 1]

NextRow(r) ==
  CASE body[r].op = "advance" -> applyAdvance(r)
    [] body[r].op = "timer" -> addAgendaTimer(r)
    [] body[r].op = "handover" -> handover(r)
    [] body[r].op = "failover" -> failover(r)
    [] body[r].op = "end" -> end(r)
    [] body[r].op = "heartbeat" -> heartbeat(r)
    [] body[r].op = "recap" -> writeRecap(r)
    [] OTHER -> touch(r)

(* The WHERE clause of both statements.                                    *)
BlindUpdate(r) == ~row.ended                   \* mutant: no version check
UpdateOfEnded(r) == row.version = expected[r]  \* mutant: ended_at not checked
Matches(r) == row.version = expected[r] /\ ~row.ended

(* The UPDATE does not set presenter_id; only end sets ended_at.           *)
Updated(r) ==
  [NextRow(r) EXCEPT !.presenter = row.presenter,
                     !.ended = IF body[r].op = "end" THEN @ ELSE row.ended]

(* The answer of a statement that was executed may be lost.  One that      *)
(* fails and changes nothing ends the request as a conflict does.          *)
Write(r) ==
  /\ pc[r] = "write"
  /\ IF Matches(r)
       THEN /\ row' = Updated(r)
            /\ wrote' = [wrote EXCEPT ![r] = row'.version]
            /\ Goes(r, "audit") \/ Reply(r, Says("error"))
       ELSE /\ Reply(r, Says(IF row.ended THEN "ended" ELSE "conflict"))
            /\ UNCHANGED <<row, wrote>>
  /\ read' = [read EXCEPT ![r] = NoRow]
  /\ UNCHANGED <<records, body, histories>>

Written(r) == Row("ok", wrote[r])
SkipsAudit(r) == HasKey(r)    \* mutant: keyed requests emit no event
Unaudited(r) == FALSE

(* The row is written when the emission is awaited: if it rejects, whether *)
(* the event was kept or not, the client gets an error, and a key keeps    *)
(* its placeholder.                                                        *)
EmitAudit(r) ==
  /\ pc[r] = "audit"
  /\ \/ /\ audited' = IF Unaudited(r) THEN audited ELSE audited \cup {r}
        /\ IF HasKey(r) THEN Goes(r, "commit") ELSE Reply(r, Written(r))
     \/ /\ audited' \in {audited, audited \cup {r}}
        /\ Reply(r, Says("error"))
  /\ UNCHANGED <<row, records, body, read, wrote, beside, forgotten>>

NotKept(r) == InFlight         \* mutant: the placeholder stays
Response(r) == wrote[r]

Commit(r) ==
  /\ pc[r] = "commit"
  /\ records' = [records EXCEPT ![body[r].key] = Response(r)]
  /\ Reply(r, Written(r))
  /\ UNCHANGED <<row, body, read, wrote, histories>>

(* The process restarts: requests in progress die, and with them the       *)
(* records of InMemoryIdempotencyStore.                                    *)
Crash ==
  /\ \E r \in Requests : InProgress(r) \/ (HasKey(r) /\ r \in Accepted \ forgotten)
  /\ pc' = [r \in Requests |-> IF InProgress(r) THEN "dead" ELSE pc[r]]
  /\ records' = [k \in Keys |-> NoRecord]
  /\ read' = [r \in Requests |-> NoRow]
  /\ forgotten' = forgotten \cup {r \in Accepted : HasKey(r)}
  /\ expected' = [r \in Requests |-> 0]
  /\ UNCHANGED <<row, body, answer, wrote, audited, beside>>

Finished ==
  /\ \A r \in Requests : pc[r] \in {"done", "dead"}
  /\ UNCHANGED vars

Next ==
  \/ \E r \in Requests :
       \/ Send(r) \/ Lookup(r) \/ Reserve(r) \/ Read(r)
       \/ Write(r) \/ EmitAudit(r) \/ Commit(r)
  \/ Crash
  \/ Finished

Spec == Init /\ [][Next]_vars

-----------------------------------------------------------------------------
(* The types of the row, of the requests and of the histories.             *)
TypeOK ==
  /\ row \in Rows
  /\ records \in [Keys -> {NoRecord, InFlight} \cup Nat]
  /\ pc \in [Requests -> {"idle", "lookup", "reserve", "read", "write",
                          "audit", "commit", "done", "dead"}]
  /\ body \in [Requests -> Bodies]
  /\ expected \in [Requests -> Nat]
  /\ read \in [Requests -> Rows \cup {NoRow}]
  /\ answer \in [Requests ->
       [kind : {"none", "ok", "replay", "conflict", "ended", "illegal", "error"},
        version : Nat]]
  /\ wrote \in [Requests -> Nat]
  /\ beside \in [Requests -> SUBSET Requests]
  /\ audited \subseteq Requests /\ forgotten \subseteq Requests

(* The version is the etag of one state: the accepted writes own the       *)
(* versions from 2 on, one each, without gaps (pg_store.update, end).      *)
VersionsAreWrites ==
  /\ \A v \in 2..row.version : \E r \in Accepted : wrote[r] = v
  /\ \A r, q \in Accepted : wrote[r] = wrote[q] => r = q
  /\ \A r \in Accepted : wrote[r] \in 2..row.version

(* Nothing is overwritten: the row shows every accepted timer, and the     *)
(* slide and mode of the accepted write that set them last, although each  *)
(* request writes back the whole row it had read before its await.         *)
LastOf(ops) ==
  {r \in Accepted : /\ body[r].op \in ops
                    /\ \A q \in Accepted : body[q].op \in ops => wrote[q] <= wrote[r]}

NothingOverwritten ==
  /\ row.timers = {r \in Accepted : body[r].op = "timer"}
  /\ \A r \in LastOf({"advance", "failover"}) : row.slide = body[r].slide
  /\ \A r \in LastOf({"handover", "failover"}) :
       row.mode = IF body[r].op = "handover" THEN "multi_presenter"
                  ELSE IF body[r].success THEN "live" ELSE "failover"

(* A session that has ended is never changed again, by failover or recap   *)
(* neither, although these do not check ended_at themselves; and its mode  *)
(* changes along the graph of state_machine.ts, but for a failed failover  *)
(* of a rehearsal, which service.failover does not check.                  *)
LifecycleKept ==
  [][/\ row.ended => row' = row
     /\ \/ InGraph(row.mode, row'.mode)
        \/ row.mode = "rehearsal" /\ row'.mode = "failover"]_vars

(* A key changes the session once, as long as requests with it do not      *)
(* overlap, nothing fails behind the write and nothing restarts: of two    *)
(* accepted advances with one key, one was sent while the other was in     *)
(* progress, or was answered with an error, or forgotten in a restart      *)
(* (service.advance over InMemoryIdempotencyStore).  A replayed response   *)
(* is that of an accepted request with the key.                            *)
Unrecorded(r) == r \in forgotten \/ answer[r].kind = "error"

KeyAppliedOnce ==
  /\ \A r, q \in Accepted :
       (r # q /\ HasKey(r) /\ HasKey(q) /\ body[r].key = body[q].key)
         => r \in beside[q] \/ q \in beside[r] \/ Unrecorded(r) \/ Unrecorded(q)
  /\ \A r \in Requests :
       answer[r].kind = "replay" =>
         \E q \in Accepted : /\ HasKey(q) /\ body[q].key = body[r].key
                             /\ wrote[q] = answer[r].version

(* A version that any client was told of, in the response to its write or  *)
(* in a replayed one, is that of a write with an audit event; an accepted  *)
(* write without one is in progress, was answered with an error, or died   *)
(* in a restart; and every event is of an accepted write, or of a recap,   *)
(* which is audited without one when the session has ended.                *)
AuditAccounted ==
  /\ \A r \in Requests :
       answer[r].version > 0 => \E q \in audited : wrote[q] = answer[r].version
  /\ \A r \in Accepted \ audited :
       pc[r] \in {"audit", "dead"} \/ answer[r].kind = "error"
  /\ \A r \in audited : r \in Accepted \/ body[r].op = "recap"

-----------------------------------------------------------------------------
(* What comments and documents say, and the code does not do *)

(* "Mode transitions follow a strict graph" (state_machine.ts): failover   *)
(* sets the mode without applyModeTransition.                              *)
StrictModeGraph == [][InGraph(row.mode, row'.mode)]_vars

(* A handover makes its recipient the presenter of the row; the UPDATE of  *)
(* PgPresenterSessionStore has no presenter_id column.                     *)
HandoverTakesOver ==
  \A r \in LastOf({"handover"}) : row.presenter = body[r].to

(* "Repeating the same request with the same key is a no-op (the previous  *)
(* response is replayed)" (idempotency/index.ts): a repeat that overlaps   *)
(* the first is answered with a conflict.  And the next advance of the     *)
(* presenter app, with the key of its last one, is answered with a replay. *)
RepeatIsReplayed ==
  \A r \in Requests, q \in Accepted :
    (HasKey(r) /\ HasKey(q) /\ body[r].key = body[q].key)
       => answer[r].kind # "conflict"
=============================================================================
