--------------------------- MODULE SessionProofs ---------------------------
(***************************************************************************)
(* The row of a presenter session under any requests, presenters, slides   *)
(* and idempotency keys.                                                   *)
(***************************************************************************)
EXTENDS PresenterSession, TLAPS

(* A request that is about to write has read the current row, or one whose *)
(* version is behind: then its compare-and-set fails.                      *)
ReadInv ==
  \A r \in Requests :
    /\ expected[r] <= row.version
    /\ pc[r] = "write" =>
         /\ read[r] \in Rows
         /\ expected[r] <= read[r].version /\ read[r].version <= row.version
         /\ read[r].version = row.version => read[r] = row
         /\ body[r].op = "handover" => InGraph(read[r].mode, "multi_presenter")

ProgressInv ==
  \A r \in Requests :
    /\ pc[r] \in {"idle", "lookup", "reserve", "read", "write"} => wrote[r] = 0
    /\ pc[r] = "idle" => body[r].op = "touch"
    /\ pc[r] \in {"lookup", "reserve", "commit"} => HasKey(r)
    /\ pc[r] = "audit" => wrote[r] > 0 \/ body[r].op = "recap"
    /\ pc[r] = "commit" => wrote[r] > 0 /\ r \in audited
    /\ pc[r] # "done" => answer[r] = Says("none")

(* Requests with a key.  Of two in progress, one was sent beside the       *)
(* other; an accepted one is still on its way to its record, or is         *)
(* recorded, or never will be; and one that found no record has an excuse  *)
(* with every accepted one.                                                *)
SameKey(r, q) == HasKey(r) /\ HasKey(q) /\ body[r].key = body[q].key
Excused(r, q) == r \in beside[q] \/ q \in beside[r] \/ Unrecorded(r) \/ Unrecorded(q)
Unrecordeds == {r \in Requests : Unrecorded(r)}

KeyInv ==
  /\ \A r, q \in Requests : r # q /\ SameKey(r, q) /\ InProgress(r) /\ InProgress(q)
                            => r \in beside[q] \/ q \in beside[r]
  /\ \A r \in Accepted : HasKey(r) => \/ pc[r] \in {"audit", "commit"}
                                      \/ r \in Unrecordeds \/ Committed(body[r].key)
  /\ \A r \in Accepted, q \in Requests :
       r # q /\ SameKey(r, q) /\ pc[q] \in {"reserve", "read", "write"} => Excused(r, q)

(* A record is of an accepted and audited request with its key.            *)
RecordInv ==
  \A k \in Keys : Committed(k) =>
     \E q \in Accepted \cap audited : HasKey(q) /\ body[q].key = k /\ wrote[q] = records[k]

SessionInv ==
  TypeOK /\ ReadInv /\ ProgressInv /\ KeyInv /\ RecordInv /\ VersionsAreWrites
    /\ NothingOverwritten /\ KeyAppliedOnce /\ AuditAccounted

Points == {"idle", "lookup", "reserve", "read", "write", "audit", "commit", "done", "dead"}
Answers == [kind : {"none", "ok", "replay", "conflict", "ended", "illegal", "error"},
            version : Nat]

LEMMA BodyFacts ==
  ASSUME NEW b \in Bodies
  PROVE  /\ b.op \in {"advance", "touch", "timer", "heartbeat", "recap", "end",
                      "handover", "failover"}
         /\ b.op \in {"advance", "handover", "failover"} => b.slide \in Slides
         /\ b.op = "advance" => b.key \in Keys \cup {NoKey}
         /\ b.op = "handover" => b.to \in Presenters
         /\ b.op = "failover" => b.success \in BOOLEAN
BY DEF Bodies

LEMMA SessionInitInv == Init => SessionInv
<1> SUFFICES ASSUME Init PROVE SessionInv
  OBVIOUS
<1> USE DEF Init
<1>1. TypeOK
  <2>1. row \in Rows  BY StartModesAssumption DEF Rows
  <2>2. body \in [Requests -> Bodies]
    <3>1. [op |-> "touch"] \in Bodies  BY DEF Bodies
    <3> QED  BY <3>1
  <2>3. answer \in [Requests -> Answers]  BY DEF Says, Answers
  <2>4. read \in [Requests -> Rows \cup {NoRow}] /\ expected \in [Requests -> Nat]
    OBVIOUS
  <2>5. wrote \in [Requests -> Nat] /\ beside \in [Requests -> SUBSET Requests]
    OBVIOUS
  <2>6. records \in [Keys -> {NoRecord, InFlight} \cup Nat] /\ pc \in [Requests -> Points]
    BY DEF Points
  <2> QED  BY <2>1, <2>2, <2>3, <2>4, <2>5, <2>6 DEF TypeOK, Answers, Points
<1>2. Accepted = {}  BY DEF Accepted
<1>3. \A r \in Requests : ~HasKey(r) /\ ~InProgress(r)  BY DEF HasKey, InProgress
<1>4. ReadInv  BY <1>1 DEF ReadInv, TypeOK, Rows
<1>5. ProgressInv  BY DEF ProgressInv, Says
<1>6. KeyInv /\ KeyAppliedOnce /\ RecordInv
  <2>1. \A k \in Keys : ~Committed(k)  BY DEF Committed
  <2>2. \A r \in Requests : answer[r].kind = "none"  BY DEF Says
  <2> QED  BY <1>2, <1>3, <2>1, <2>2 DEF KeyInv, KeyAppliedOnce, RecordInv
<1>7. VersionsAreWrites
  <2>1. row.version = 1  OBVIOUS
  <2> QED  BY <1>2, <2>1 DEF VersionsAreWrites
<1>8. AuditAccounted
  <2>1. \A r \in Requests : answer[r].version = 0  BY DEF Says
  <2> QED  BY <1>2, <2>1 DEF AuditAccounted
<1>9. NothingOverwritten  BY <1>2 DEF NothingOverwritten, LastOf
<1> QED  BY <1>1, <1>4, <1>5, <1>6, <1>7, <1>8, <1>9 DEF SessionInv

(* The row that a request writes when its compare-and-set succeeds.        *)
LEMMA WrittenRow ==
  ASSUME SessionInv, NEW r \in Requests, pc[r] = "write", Matches(r)
  PROVE  /\ read[r] = row /\ row.version = expected[r] /\ ~row.ended
         /\ Updated(r) \in Rows /\ Updated(r).version = row.version + 1
         /\ Updated(r).timers =
              IF body[r].op = "timer" THEN row.timers \cup {r} ELSE row.timers
         /\ Updated(r).slide =
              IF body[r].op \in {"advance", "failover"} THEN body[r].slide ELSE row.slide
         /\ Updated(r).mode =
              CASE body[r].op = "handover" -> "multi_presenter"
                [] body[r].op = "failover" -> IF body[r].success THEN "live" ELSE "failover"
                [] OTHER -> row.mode
<1>1. read[r] = row /\ row.version = expected[r] /\ ~row.ended /\ row \in Rows
  <2>1. row \in Rows /\ row.version = expected[r] /\ ~row.ended
    BY DEF SessionInv, TypeOK, Matches
  <2>2. /\ read[r] \in Rows
        /\ expected[r] <= read[r].version /\ read[r].version <= row.version
        /\ read[r].version = row.version => read[r] = row
    BY DEF SessionInv, ReadInv
  <2>3. row.version \in Nat /\ read[r].version \in Nat  BY <2>1, <2>2 DEF Rows
  <2> QED  BY <2>1, <2>2, <2>3
<1>2. body[r] \in Bodies /\ row.version + 1 \in Nat \ {0}  BY <1>1 DEF SessionInv, TypeOK, Rows
<1>3. PICK n \in Rows :
        /\ n = NextRow(r) /\ n.version = row.version + 1
        /\ n.timers = IF body[r].op = "timer" THEN row.timers \cup {r} ELSE row.timers
        /\ n.slide = IF body[r].op \in {"advance", "failover"} THEN body[r].slide ELSE row.slide
        /\ n.mode = CASE body[r].op = "handover" -> "multi_presenter"
                      [] body[r].op = "failover" -> IF body[r].success THEN "live" ELSE "failover"
                      [] OTHER -> row.mode
        /\ body[r].op # "end" => n.ended = row.ended
  <2>1. Bumped(r) = [row EXCEPT !.version = row.version + 1]  BY <1>1 DEF Bumped
  <2>2. /\ Bumped(r) \in Rows /\ Bumped(r).version = row.version + 1
        /\ Bumped(r).timers = row.timers /\ Bumped(r).slide = row.slide
        /\ Bumped(r).mode = row.mode /\ Bumped(r).ended = row.ended
    BY <1>1, <1>2, <2>1 DEF Rows
  <2> HIDE DEF Bumped
  <2>3. CASE body[r].op = "advance"
    <3>1. NextRow(r) = [Bumped(r) EXCEPT !.slide = body[r].slide]
      BY <2>3 DEF NextRow, applyAdvance
    <3>2. NextRow(r) \in Rows  BY <1>2, <2>2, <2>3, <3>1, BodyFacts DEF Rows
    <3> WITNESS NextRow(r) \in Rows
    <3> QED  BY <2>2, <2>3, <3>1 DEF Rows
  <2>4. CASE body[r].op = "timer"
    <3>1. NextRow(r) = [Bumped(r) EXCEPT !.timers = row.timers \cup {r}]
      BY <2>2, <2>4 DEF NextRow, addAgendaTimer
    <3>2. NextRow(r) \in Rows  BY <1>1, <2>2, <3>1 DEF Rows
    <3> WITNESS NextRow(r) \in Rows
    <3> QED  BY <2>2, <2>4, <3>1 DEF Rows
  <2>5. CASE body[r].op = "handover"
    <3>1. NextRow(r) = [Bumped(r) EXCEPT !.presenter = body[r].to, !.mode = "multi_presenter"]
      BY <2>5 DEF NextRow, handover
    <3>2. NextRow(r) \in Rows  BY <1>2, <2>2, <2>5, <3>1, BodyFacts DEF Rows, Modes
    <3> WITNESS NextRow(r) \in Rows
    <3> QED  BY <2>2, <2>5, <3>1 DEF Rows
  <2>6. CASE body[r].op = "failover"
    <3>1. NextRow(r) = [Bumped(r) EXCEPT !.slide = body[r].slide,
                          !.mode = IF body[r].success THEN "live" ELSE "failover"]
      BY <2>6 DEF NextRow, failover
    <3>2. NextRow(r) \in Rows  BY <1>2, <2>2, <2>6, <3>1, BodyFacts DEF Rows, Modes
    <3> WITNESS NextRow(r) \in Rows
    <3> QED  BY <2>2, <2>6, <3>1 DEF Rows
  <2>7. CASE body[r].op = "end"
    <3>1. NextRow(r) = [row EXCEPT !.ended = TRUE, !.version = row.version + 1]
      BY <2>7 DEF NextRow, end
    <3>2. NextRow(r) \in Rows  BY <1>1, <1>2, <3>1 DEF Rows
    <3> WITNESS NextRow(r) \in Rows
    <3> QED  BY <1>1, <2>7, <3>1 DEF Rows
  <2>8. CASE body[r].op \in {"heartbeat", "recap", "touch"}
    <3>1. NextRow(r) = Bumped(r)  BY <2>8 DEF NextRow, heartbeat, writeRecap, touch
    <3>2. NextRow(r) \in Rows  BY <2>2, <3>1
    <3> WITNESS NextRow(r) \in Rows
    <3> QED  BY <2>2, <2>8, <3>1
  <2> QED  BY <1>2, <2>3, <2>4, <2>5, <2>6, <2>7, <2>8, BodyFacts
<1>4. PICK e \in BOOLEAN : Updated(r) = [n EXCEPT !.presenter = row.presenter, !.ended = e]
  <2>1. row.ended \in BOOLEAN /\ n.ended \in BOOLEAN  BY <1>1 DEF Rows
  <2>2. Updated(r) = [n EXCEPT !.presenter = row.presenter,
                               !.ended = IF body[r].op = "end" THEN n.ended ELSE row.ended]
    BY <1>3 DEF Updated, Rows
  <2>3. (IF body[r].op = "end" THEN n.ended ELSE row.ended) \in BOOLEAN  BY <2>1
  <2> QED  BY <2>2, <2>3
<1>5. /\ Updated(r) \in Rows /\ Updated(r).version = n.version
      /\ Updated(r).timers = n.timers /\ Updated(r).slide = n.slide /\ Updated(r).mode = n.mode
  BY <1>1, <1>4 DEF Rows
<1> QED  BY <1>1, <1>3, <1>5

(* Steps that write no row keep what is said of the written ones.          *)
LEMMA UnwrittenStep ==
  ASSUME SessionInv, UNCHANGED <<row, wrote>>, \A r \in Accepted : body'[r] = body[r]
  PROVE  /\ Accepted' = Accepted
         /\ VersionsAreWrites' /\ NothingOverwritten'
<1>1. Accepted' = Accepted  BY DEF Accepted
<1>2. VersionsAreWrites'  BY <1>1 DEF SessionInv, VersionsAreWrites
<1>3. \A ops : LastOf(ops)' = LastOf(ops)  BY <1>1 DEF LastOf
<1>4. \A ops : LastOf(ops) \subseteq Accepted  BY DEF LastOf
<1>5. NothingOverwritten'
  <2>1. row.timers = {r \in Accepted : body'[r].op = "timer"}
    BY DEF SessionInv, NothingOverwritten
  <2>2. \A r \in LastOf({"advance", "failover"}) : row.slide = body'[r].slide
    BY <1>4 DEF SessionInv, NothingOverwritten
  <2>3. \A r \in LastOf({"handover", "failover"}) :
          row.mode = IF body'[r].op = "handover" THEN "multi_presenter"
                       ELSE IF body'[r].success THEN "live" ELSE "failover"
    BY <1>4 DEF SessionInv, NothingOverwritten
  <2> QED  BY <1>1, <1>3, <2>1, <2>2, <2>3 DEF NothingOverwritten
<1> QED  BY <1>1, <1>2, <1>5

(* Steps that keep bodies, written versions and companions, and make no    *)
(* request find its key free.                                              *)
LEMMA KeyKept ==
  ASSUME SessionInv, UNCHANGED <<body, wrote, beside>>,
         Unrecordeds \subseteq Unrecordeds',
         \A q \in Requests : InProgress(q)' => InProgress(q),
         \A q \in Requests : pc'[q] \in {"reserve", "read", "write"}
                               => pc[q] \in {"reserve", "read", "write"},
         \A q \in Accepted : HasKey(q) /\ pc[q] \in {"audit", "commit"}
                               => \/ pc'[q] \in {"audit", "commit"}
                                  \/ q \in Unrecordeds' \/ Committed(body[q].key)',
         \A q \in Accepted : HasKey(q) /\ Committed(body[q].key)
                               => q \in Unrecordeds' \/ Committed(body[q].key)'
  PROVE  KeyInv'
<1> USE DEF SessionInv
<1>1. Accepted' = Accepted /\ Accepted \subseteq Requests  BY DEF Accepted
<1>2. \A q \in Requests : HasKey(q)' = HasKey(q)  BY DEF HasKey
<1>3. \A r, q \in Requests : SameKey(r, q)' <=> SameKey(r, q)  BY <1>2 DEF SameKey
<1>4. \A r, q \in Requests : Excused(r, q) => Excused(r, q)'
  BY DEF Excused, Unrecordeds
<1>5. \A r, q \in Requests : r # q /\ SameKey(r, q)' /\ InProgress(r)' /\ InProgress(q)'
                            => r \in beside'[q] \/ q \in beside'[r]
  BY <1>3 DEF KeyInv
<1>6. ASSUME NEW r \in Accepted', HasKey(r)'
      PROVE  pc'[r] \in {"audit", "commit"} \/ r \in Unrecordeds' \/ Committed(body[r].key)'
  BY <1>1, <1>2, <1>6 DEF KeyInv
<1>7. ASSUME NEW r \in Accepted', NEW q \in Requests, r # q, SameKey(r, q)',
             pc'[q] \in {"reserve", "read", "write"}
      PROVE  Excused(r, q)'
  <2>1. r \in Accepted /\ r \in Requests /\ SameKey(r, q)  BY <1>1, <1>3, <1>7
  <2>2. pc[q] \in {"reserve", "read", "write"}  BY <1>7
  <2>3. Excused(r, q)  BY <1>7, <2>1, <2>2 DEF KeyInv
  <2> QED  BY <1>4, <2>1, <2>3
<1>8. \A r \in Accepted' : HasKey(r)' =>
         pc'[r] \in {"audit", "commit"} \/ r \in Unrecordeds' \/ Committed(body[r].key)'
  BY <1>6
<1> QED  BY ONLY <1>5, <1>7, <1>8 DEF KeyInv

LEMMA RecordKept ==
  ASSUME SessionInv, UNCHANGED <<body, wrote>>, audited \subseteq audited',
         \A k \in Keys : Committed(k)' => Committed(k) /\ records'[k] = records[k]
  PROVE  RecordInv'
<1> USE DEF SessionInv
<1>1. Accepted' = Accepted /\ Accepted \subseteq Requests  BY DEF Accepted
<1>2. \A q \in Requests : HasKey(q)' = HasKey(q)  BY DEF HasKey
<1>3. ASSUME NEW k \in Keys, Committed(k)'
      PROVE  \E q \in Accepted' \cap audited' :
                HasKey(q)' /\ body'[q].key = k /\ wrote'[q] = records'[k]
  <2>1. Committed(k) /\ records'[k] = records[k]  BY <1>3
  <2>2. PICK q \in Accepted \cap audited :
           HasKey(q) /\ body[q].key = k /\ wrote[q] = records[k]
    BY <2>1 DEF RecordInv
  <2> QED  BY <1>1, <1>2, <2>1, <2>2
<1> QED  BY <1>3 DEF RecordInv

(* A step that gives no new answer with a version keeps what is said of    *)
(* the answers.                                                            *)
LEMMA AppliedKept ==
  ASSUME SessionInv, UNCHANGED <<body, wrote, beside>>, Unrecordeds \subseteq Unrecordeds',
         \A p \in Requests : answer'[p].kind = "replay" => answer'[p] = answer[p]
  PROVE  KeyAppliedOnce'
<1> USE DEF SessionInv
<1>1. Accepted' = Accepted /\ Accepted \subseteq Requests  BY DEF Accepted
<1>2. \A q \in Requests : HasKey(q)' = HasKey(q)  BY DEF HasKey
<1>3. ASSUME NEW r \in Accepted', NEW q \in Accepted', r # q, HasKey(r)', HasKey(q)',
             body'[r].key = body'[q].key
      PROVE  r \in beside'[q] \/ q \in beside'[r] \/ Unrecorded(r)' \/ Unrecorded(q)'
  <2>1. r \in beside[q] \/ q \in beside[r] \/ Unrecorded(r) \/ Unrecorded(q)
    BY <1>1, <1>2, <1>3 DEF KeyAppliedOnce
  <2>2. \A x \in Requests : Unrecorded(x) => Unrecorded(x)'  BY DEF Unrecordeds
  <2> QED  BY <1>1, <2>1, <2>2
<1>4. ASSUME NEW p \in Requests, answer'[p].kind = "replay"
      PROVE  \E q \in Accepted' : HasKey(q)' /\ body'[q].key = body'[p].key
                                 /\ wrote'[q] = answer'[p].version
  <2>1. answer'[p] = answer[p]  BY <1>4
  <2>2. PICK q \in Accepted : HasKey(q) /\ body[q].key = body[p].key
                            /\ wrote[q] = answer[p].version
    BY <2>1, <1>4 DEF KeyAppliedOnce
  <2> QED  BY <1>1, <1>2, <2>1, <2>2
<1> QED  BY <1>3, <1>4 DEF KeyAppliedOnce

LEMMA AuditKept ==
  ASSUME SessionInv, UNCHANGED <<body, wrote>>, audited \subseteq audited',
         \A p \in Requests : answer'[p].version > 0 => answer'[p] = answer[p],
         \A q \in Accepted \ audited' :
            pc'[q] \in {"audit", "dead"} \/ answer'[q].kind = "error",
         \A q \in audited' : q \in audited \/ q \in Accepted \/ body[q].op = "recap"
  PROVE  AuditAccounted'
<1> USE DEF SessionInv
<1>1. Accepted' = Accepted  BY DEF Accepted
<1>2. ASSUME NEW p \in Requests, answer'[p].version > 0
      PROVE  \E q \in audited' : wrote'[q] = answer'[p].version
  <2>1. answer'[p] = answer[p]  BY <1>2
  <2>2. PICK q \in audited : wrote[q] = answer[p].version
    BY <1>2, <2>1 DEF AuditAccounted
  <2> QED  BY <2>1, <2>2
<1>3. \A q \in audited' : q \in Accepted' \/ body'[q].op = "recap"
  BY <1>1 DEF AuditAccounted
<1> QED  BY <1>1, <1>2, <1>3 DEF AuditAccounted

LEMMA SendInv == ASSUME SessionInv, NEW r \in Requests, Send(r) PROVE SessionInv'
<1> USE DEF SessionInv
<1>1. PICK b \in Bodies, v \in Nat :
        /\ pc[r] = "idle" /\ v <= row.version
        /\ body' = [body EXCEPT ![r] = b] /\ expected' = [expected EXCEPT ![r] = v]
        /\ pc' = [pc EXCEPT ![r] = IF b.op = "advance" /\ b.key # NoKey THEN "lookup" ELSE "read"]
        /\ beside' = [beside EXCEPT ![r] =
              {q \in Requests : /\ b.op = "advance" /\ b.key # NoKey
                                /\ InProgress(q) /\ HasKey(q) /\ body[q].key = b.key}]
        /\ UNCHANGED <<row, records, read, answer, wrote, audited, forgotten>>
  <2>1. row.version \in Nat  BY DEF TypeOK, Rows
  <2>2. PICK b \in Bodies : \E v \in Versions(b) :
          /\ pc[r] = "idle"
          /\ body' = [body EXCEPT ![r] = b] /\ expected' = [expected EXCEPT ![r] = v]
          /\ pc' = [pc EXCEPT ![r] = IF b.op = "advance" /\ b.key # NoKey THEN "lookup" ELSE "read"]
          /\ beside' = [beside EXCEPT ![r] =
                {q \in Requests : /\ b.op = "advance" /\ b.key # NoKey
                                  /\ InProgress(q) /\ HasKey(q) /\ body[q].key = b.key}]
          /\ UNCHANGED <<row, records, read, answer, wrote, audited, forgotten>>
    BY DEF Send
  <2>3. \A v \in Versions(b) : v \in Nat /\ v <= row.version  BY <2>1 DEF Versions
  <2> QED  BY <2>2, <2>3
<1> DEFINE s == {q \in Requests : /\ b.op = "advance" /\ b.key # NoKey
                                  /\ InProgress(q) /\ HasKey(q) /\ body[q].key = b.key}
<1>2. wrote[r] = 0 /\ body[r].op = "touch" /\ ~HasKey(r) /\ r \notin Accepted
      /\ answer[r] = Says("none") /\ ~InProgress(r)
  BY <1>1 DEF ProgressInv, Accepted, HasKey, InProgress
<1>3. /\ body'[r] = b /\ expected'[r] = v /\ pc'[r] \in {"lookup", "read"}
      /\ HasKey(r)' => pc'[r] = "lookup" /\ b.op = "advance" /\ b.key # NoKey
      /\ pc'[r] = "lookup" => HasKey(r)'
      /\ \A q \in Requests : q # r =>
           /\ body'[q] = body[q] /\ expected'[q] = expected[q] /\ pc'[q] = pc[q]
           /\ HasKey(q)' = HasKey(q) /\ beside'[q] = beside[q]
           /\ InProgress(q)' = InProgress(q)
      /\ beside'[r] = s /\ \A q \in Requests : Unrecorded(q)' = Unrecorded(q)
  BY <1>1 DEF TypeOK, HasKey, InProgress, Unrecorded
<1>4. TypeOK'
  <2>1. body' \in [Requests -> Bodies] /\ expected' \in [Requests -> Nat]
    BY <1>1 DEF TypeOK
  <2>2. pc' \in [Requests -> Points] /\ beside' \in [Requests -> SUBSET Requests]
    BY <1>1 DEF TypeOK, Points
  <2> QED  BY <1>1, <2>1, <2>2 DEF TypeOK, Points
<1>5. ReadInv'  BY <1>1, <1>3 DEF ReadInv
<1>6. ProgressInv'  BY <1>1, <1>2, <1>3 DEF ProgressInv
<1>7. Accepted' = Accepted /\ VersionsAreWrites' /\ NothingOverwritten'
  <2>1. \A q \in Accepted : body'[q] = body[q]  BY <1>2, <1>3 DEF Accepted
  <2> QED  BY <1>1, <2>1, UnwrittenStep
<1>8. \A q \in Accepted : q # r /\ q \in Requests  BY <1>2 DEF Accepted
<1>9. KeyInv'
  <2>1. ASSUME NEW p \in Requests, NEW q \in Requests, p # q, SameKey(p, q)',
               InProgress(p)', InProgress(q)'
        PROVE  p \in beside'[q] \/ q \in beside'[p]
    <3>1. CASE p # r /\ q # r
      <4>1. SameKey(p, q)  BY <2>1, <3>1, <1>3 DEF SameKey
      <4> QED  BY <2>1, <3>1, <4>1, <1>3 DEF KeyInv
    <3>2. CASE p = r /\ q # r
      <4>1. q \in s  BY <2>1, <3>2, <1>1, <1>3 DEF SameKey
      <4> QED  BY <4>1, <3>2, <1>3
    <3>3. CASE p # r /\ q = r
      <4>1. p \in s  BY <2>1, <3>3, <1>1, <1>3 DEF SameKey
      <4> QED  BY <4>1, <3>3, <1>3
    <3> QED  BY <2>1, <3>1, <3>2, <3>3
  <2>2. ASSUME NEW q \in Accepted', HasKey(q)'
        PROVE  pc'[q] \in {"audit", "commit"} \/ q \in Unrecordeds' \/ Committed(body[q].key)'
    <3>1. q \in Accepted /\ q # r /\ q \in Requests  BY <1>7, <1>8
    <3>2. HasKey(q) /\ pc'[q] = pc[q] /\ body'[q] = body[q]  BY <2>2, <3>1, <1>3
    <3>3. \/ pc[q] \in {"audit", "commit"} \/ q \in Unrecordeds
          \/ Committed(body[q].key)
      BY <3>1, <3>2 DEF KeyInv
    <3> QED  BY <3>1, <3>2, <3>3, <1>1, <1>3 DEF Unrecordeds, Committed
  <2>3. ASSUME NEW p \in Accepted', NEW q \in Requests, p # q, SameKey(p, q)',
               pc'[q] \in {"reserve", "read", "write"}
        PROVE  Excused(p, q)'
    <3>1. p \in Accepted /\ p # r /\ p \in Requests  BY <1>7, <1>8
    <3>2. q # r  BY <2>3, <1>3 DEF SameKey
    <3>3. SameKey(p, q) /\ pc[q] \in {"reserve", "read", "write"}
      BY <2>3, <3>1, <3>2, <1>3 DEF SameKey
    <3>4. Excused(p, q)  BY <2>3, <3>1, <3>3 DEF KeyInv
    <3> QED  BY <3>1, <3>2, <3>4, <1>3 DEF Excused
  <2> QED  BY <2>1, <2>2, <2>3 DEF KeyInv
<1>10. RecordInv'
  BY <1>1, <1>3, <1>7, <1>8 DEF RecordInv, Committed
<1>11. KeyAppliedOnce'
  <2>1. ASSUME NEW p \in Accepted', NEW q \in Accepted', p # q, HasKey(p)', HasKey(q)',
               body'[p].key = body'[q].key
        PROVE  p \in beside'[q] \/ q \in beside'[p] \/ Unrecorded(p)' \/ Unrecorded(q)'
    BY <2>1, <1>3, <1>7, <1>8 DEF KeyAppliedOnce
  <2>2. ASSUME NEW p \in Requests, answer'[p].kind = "replay"
        PROVE  \E q \in Accepted' : HasKey(q)' /\ body'[q].key = body'[p].key
                                   /\ wrote'[q] = answer'[p].version
    <3>1. p # r  BY <2>2, <1>1, <1>2 DEF Says
    <3> QED  BY <2>2, <3>1, <1>1, <1>3, <1>7, <1>8 DEF KeyAppliedOnce
  <2> QED  BY <2>1, <2>2 DEF KeyAppliedOnce
<1>12. AuditAccounted'
  <2>1. r \notin audited  BY <1>2 DEF AuditAccounted
  <2>2. \A p \in Requests : answer'[p].version > 0 =>
           \E q \in audited' : wrote'[q] = answer'[p].version
    BY <1>1 DEF AuditAccounted
  <2>3. \A q \in Accepted' \ audited' : pc'[q] \in {"audit", "dead"} \/ answer'[q].kind = "error"
    BY <1>1, <1>3, <1>7, <1>8 DEF AuditAccounted
  <2>4. \A q \in audited' : q \in Accepted' \/ body'[q].op = "recap"
    BY <2>1, <1>1, <1>3, <1>7 DEF AuditAccounted, TypeOK
  <2> QED  BY <2>2, <2>3, <2>4 DEF AuditAccounted
<1> QED  BY <1>4, <1>5, <1>6, <1>7, <1>9, <1>10, <1>11, <1>12

(* A step of one request, before its write or behind it, that changes      *)
(* neither the row nor a record.                                           *)
LEMMA OnlyItsOwn ==
  ASSUME SessionInv, NEW r \in Requests, InProgress(r),
         UNCHANGED <<row, body, wrote, beside, forgotten>>,
         \A q \in Requests \ {r} : pc'[q] = pc[q] /\ answer'[q] = answer[q]
  PROVE  /\ Accepted' = Accepted /\ Accepted \subseteq Requests
         /\ VersionsAreWrites' /\ NothingOverwritten'
         /\ answer[r] = Says("none") /\ Unrecordeds \subseteq Unrecordeds'
         /\ \A q \in Requests : HasKey(q)' = HasKey(q)
         /\ \A q \in Requests : InProgress(q)' => InProgress(q)
<1> USE DEF SessionInv
<1>1. answer[r] = Says("none")  BY DEF ProgressInv, InProgress
<1>2. Accepted' = Accepted /\ Accepted \subseteq Requests  BY DEF Accepted
<1>3. VersionsAreWrites' /\ NothingOverwritten'  BY UnwrittenStep
<1>4. \A q \in Requests : Unrecorded(q) => Unrecorded(q)'
  BY <1>1 DEF Unrecorded, Says
<1>5. Unrecordeds \subseteq Unrecordeds'  BY <1>4 DEF Unrecordeds
<1>6. \A q \in Requests : HasKey(q)' = HasKey(q)  BY DEF HasKey
<1>7. \A q \in Requests : InProgress(q)' => InProgress(q)  BY DEF InProgress
<1> QED  BY <1>1, <1>2, <1>3, <1>5, <1>6, <1>7

(* A replayed response is that of an accepted request of the key, with an  *)
(* audit event; who finds none has an excuse with every accepted request.  *)
LEMMA LookupInv == ASSUME SessionInv, NEW r \in Requests, Lookup(r) PROVE SessionInv'
<1> USE DEF SessionInv
<1>1. /\ pc[r] = "lookup" /\ HasKey(r) /\ InProgress(r) /\ wrote[r] = 0
      /\ UNCHANGED <<row, records, body, read, wrote, audited, beside, forgotten>>
      /\ \/ /\ Committed(body[r].key) /\ pc' = [pc EXCEPT ![r] = "done"]
            /\ answer' = [answer EXCEPT ![r] = Row("replay", records[body[r].key])]
            /\ expected' = [expected EXCEPT ![r] = 0]
         \/ /\ ~Committed(body[r].key) /\ pc' = [pc EXCEPT ![r] = "reserve"]
            /\ UNCHANGED <<answer, expected>>
  BY DEF Lookup, Reply, Goes, histories, ProgressInv, InProgress
<1>2. body[r].key \in Keys  BY <1>1, BodyFacts DEF HasKey, TypeOK
<1>3. /\ \A q \in Requests \ {r} : pc'[q] = pc[q] /\ answer'[q] = answer[q]
      /\ pc'[r] \in {"done", "reserve"} /\ pc' \in [Requests -> Points]
      /\ answer'[r] = Row("replay", records[body[r].key]) \/ answer' = answer
  BY <1>1 DEF TypeOK, Points
<1>4. /\ Accepted' = Accepted /\ Accepted \subseteq Requests
      /\ VersionsAreWrites' /\ NothingOverwritten' /\ Unrecordeds \subseteq Unrecordeds'
      /\ \A q \in Requests : HasKey(q)' = HasKey(q)
      /\ \A q \in Requests : InProgress(q)' => InProgress(q)
  BY <1>1, <1>3, OnlyItsOwn
<1>5. answer' = answer \/ \E q \in Accepted \cap audited :
         /\ HasKey(q) /\ body[q].key = body[r].key
         /\ answer' = [answer EXCEPT ![r] = Row("replay", wrote[q])]
  BY <1>1, <1>2 DEF RecordInv
<1>6. TypeOK'
  <2>1. answer' \in [Requests -> Answers]
    <3>1. \A q \in Accepted : Row("replay", wrote[q]) \in Answers
      BY <1>4 DEF TypeOK, Row, Answers
    <3> QED  BY <1>5, <3>1 DEF TypeOK, Answers
  <2>2. expected' \in [Requests -> Nat]  BY <1>1 DEF TypeOK
  <2> QED  BY <1>1, <1>3, <2>1, <2>2 DEF TypeOK, Answers, Points
<1>7. ReadInv'
  <2>1. /\ expected'[r] = expected[r] \/ expected'[r] = 0
        /\ \A q \in Requests \ {r} : expected'[q] = expected[q]
    BY <1>1 DEF TypeOK
  <2>2. row.version \in Nat /\ pc'[r] # "write"  BY <1>3 DEF TypeOK, Rows
  <2> QED  BY <1>1, <1>3, <2>1, <2>2 DEF ReadInv
<1>8. ProgressInv'  BY <1>1, <1>3, <1>4 DEF ProgressInv, TypeOK
<1>9. KeyInv'
  <2>1. CASE Committed(body[r].key)
    <3>1. pc'[r] = "done"  BY <2>1, <1>1 DEF TypeOK
    <3> QED  BY <3>1, <1>1, <1>3, <1>4, KeyKept DEF Committed
  <2>2. CASE ~Committed(body[r].key)
    <3>1. answer' = answer /\ pc'[r] = "reserve"  BY <2>2, <1>1 DEF TypeOK
    <3>2. \A p, q \in Requests : /\ SameKey(p, q)' <=> SameKey(p, q)
                                 /\ Excused(p, q)' <=> Excused(p, q)
      BY <3>1, <1>1, <1>4 DEF SameKey, Excused, Unrecorded
    <3>3. \A p, q \in Requests : p # q /\ SameKey(p, q)' /\ InProgress(p)' /\ InProgress(q)'
                                => p \in beside'[q] \/ q \in beside'[p]
      BY <3>2, <1>1, <1>4 DEF KeyInv
    <3>4. \A p \in Accepted' : HasKey(p)' => \/ pc'[p] \in {"audit", "commit"}
                                             \/ p \in Unrecordeds' \/ Committed(body[p].key)'
      BY <1>1, <1>3, <1>4 DEF KeyInv, Committed
    <3>5. ASSUME NEW p \in Accepted', NEW q \in Requests, p # q, SameKey(p, q)',
                 pc'[q] \in {"reserve", "read", "write"}
          PROVE  Excused(p, q)'
      <4>1. p \in Accepted /\ p \in Requests /\ SameKey(p, q)  BY <3>2, <3>5, <1>4
      <4>2. CASE q # r
        <5>1. pc[q] \in {"reserve", "read", "write"}  BY <3>5, <4>2, <1>3
        <5>2. Excused(p, q)  BY <3>5, <4>1, <5>1 DEF KeyInv
        <5> QED  BY <3>2, <4>1, <5>2
      <4>3. CASE q = r
        <5>1. HasKey(p) /\ body[p].key = body[r].key  BY <4>1, <4>3 DEF SameKey
        <5>2. pc[p] \in {"audit", "commit"} \/ p \in Unrecordeds
          BY <4>1, <5>1, <2>2 DEF KeyInv
        <5>3. CASE p \in Unrecordeds  BY <3>2, <4>1, <5>3 DEF Unrecordeds, Excused
        <5>4. CASE pc[p] \in {"audit", "commit"}
          <6>1. InProgress(p)  BY <5>4 DEF InProgress
          <6>2. Excused(p, q)  BY <6>1, <3>5, <4>1, <4>3, <1>1 DEF KeyInv, Excused
          <6> QED  BY <3>2, <4>1, <6>2
        <5> QED  BY <5>2, <5>3, <5>4
      <4> QED  BY <4>2, <4>3
    <3> QED  BY ONLY <3>3, <3>4, <3>5 DEF KeyInv
  <2> QED  BY <2>1, <2>2
<1>10. RecordInv'  BY <1>1, RecordKept DEF Committed
<1>11. KeyAppliedOnce'
  <2>1. ASSUME NEW p \in Accepted', NEW q \in Accepted', p # q, HasKey(p)', HasKey(q)',
               body'[p].key = body'[q].key
        PROVE  p \in beside'[q] \/ q \in beside'[p] \/ Unrecorded(p)' \/ Unrecorded(q)'
    <3>1. p \in beside[q] \/ q \in beside[p] \/ Unrecorded(p) \/ Unrecorded(q)
      BY <2>1, <1>1, <1>4 DEF KeyAppliedOnce
    <3> QED  BY <2>1, <3>1, <1>1, <1>4 DEF Unrecordeds
  <2>2. ASSUME NEW p \in Requests, answer'[p].kind = "replay"
        PROVE  \E q \in Accepted' : HasKey(q)' /\ body'[q].key = body'[p].key
                                   /\ wrote'[q] = answer'[p].version
    <3>1. CASE answer'[p] = answer[p]
      <4>1. PICK q \in Accepted : HasKey(q) /\ body[q].key = body[p].key
                                /\ wrote[q] = answer[p].version
        BY <2>2, <3>1 DEF KeyAppliedOnce
      <4> QED  BY <3>1, <4>1, <1>1, <1>4
    <3>2. CASE answer'[p] # answer[p]
      <4>1. p = r /\ answer' # answer  BY <3>2, <1>3
      <4>2. PICK q \in Accepted : /\ HasKey(q) /\ body[q].key = body[r].key
                                  /\ answer'[r] = Row("replay", wrote[q])
        BY <4>1, <1>5 DEF TypeOK
      <4> QED  BY <4>1, <4>2, <1>1, <1>4 DEF Row
    <3> QED  BY <3>1, <3>2
  <2> QED  BY <2>1, <2>2 DEF KeyAppliedOnce
<1>12. AuditAccounted'
  <2>1. ASSUME NEW p \in Requests, answer'[p].version > 0
        PROVE  \E q \in audited' : wrote'[q] = answer'[p].version
    <3>1. CASE answer'[p] = answer[p]  BY <2>1, <3>1, <1>1 DEF AuditAccounted
    <3>2. CASE answer'[p] # answer[p]
      <4>1. p = r /\ answer' # answer  BY <3>2, <1>3
      <4>2. PICK q \in Accepted \cap audited : answer'[r] = Row("replay", wrote[q])
        BY <4>1, <1>5 DEF TypeOK
      <4> QED  BY <4>1, <4>2, <1>1 DEF Row
    <3> QED  BY <3>1, <3>2
  <2>2. \A q \in Accepted' \ audited' :
           pc'[q] \in {"audit", "dead"} \/ answer'[q].kind = "error"
    <3>1. r \notin Accepted  BY <1>1 DEF Accepted
    <3> QED  BY <3>1, <1>1, <1>3, <1>4 DEF AuditAccounted
  <2>3. \A q \in audited' : q \in Accepted' \/ body'[q].op = "recap"
    BY <1>1, <1>4 DEF AuditAccounted
  <2> QED  BY <2>1, <2>2, <2>3 DEF AuditAccounted
<1> QED  BY <1>4, <1>6, <1>7, <1>8, <1>9, <1>10, <1>11, <1>12

LEMMA ReserveInv == ASSUME SessionInv, NEW r \in Requests, Reserve(r) PROVE SessionInv'
<1> USE DEF SessionInv
<1>1. /\ pc[r] = "reserve" /\ HasKey(r) /\ InProgress(r) /\ wrote[r] = 0
      /\ pc' = [pc EXCEPT ![r] = "read"]
      /\ UNCHANGED <<row, body, expected, read, answer, wrote, audited, beside, forgotten>>
      /\ \/ records' = records
         \/ /\ ~Committed(body[r].key)
            /\ records' = [records EXCEPT ![body[r].key] = InFlight]
  BY DEF Reserve, Goes, histories, ProgressInv, TypeOK, InProgress
<1>2. /\ \A q \in Requests \ {r} : pc'[q] = pc[q]
      /\ pc'[r] = "read" /\ pc' \in [Requests -> Points]
  BY <1>1 DEF TypeOK, Points
<1>3. /\ Accepted' = Accepted /\ VersionsAreWrites' /\ NothingOverwritten'
      /\ Unrecordeds \subseteq Unrecordeds'
      /\ \A q \in Requests : HasKey(q)' = HasKey(q)
      /\ \A q \in Requests : InProgress(q)' => InProgress(q)
  BY <1>1, <1>2, OnlyItsOwn
<1>4. TypeOK'
  <2>1. records' \in [Keys -> {NoRecord, InFlight} \cup Nat]  BY <1>1 DEF TypeOK
  <2> QED  BY <2>1, <1>1, <1>2 DEF TypeOK, Points
<1>5. ReadInv'  BY <1>1, <1>2 DEF ReadInv
<1>6. ProgressInv'  BY <1>1, <1>2, <1>3 DEF ProgressInv
<1>7. \A k \in Keys : /\ Committed(k)' => Committed(k) /\ records'[k] = records[k]
                      /\ Committed(k) => Committed(k)'
  BY <1>1 DEF Committed, TypeOK
<1>8. KeyInv'
  <2>1. \A q \in Requests : HasKey(q) => body[q].key \in Keys
    BY BodyFacts DEF HasKey, TypeOK
  <2>2. r \notin Accepted /\ Accepted \subseteq Requests  BY <1>1 DEF Accepted
  <2> QED  BY <1>1, <1>2, <1>3, <1>7, <2>1, <2>2, KeyKept
<1>9. RecordInv'  BY <1>1, <1>7, RecordKept
<1>10. KeyAppliedOnce'  BY <1>1, <1>3, AppliedKept
<1>11. AuditAccounted'
  <2>1. \A q \in Accepted \ audited' : pc'[q] \in {"audit", "dead"} \/ answer'[q].kind = "error"
    BY <1>1, <1>2 DEF AuditAccounted, Accepted
  <2> QED  BY <2>1, <1>1, AuditKept
<1> QED  BY <1>3, <1>4, <1>5, <1>6, <1>8, <1>9, <1>10, <1>11

(* What is read is the current row, and a handover looks at its mode.      *)
LEMMA ReadStepInv == ASSUME SessionInv, NEW r \in Requests, Read(r) PROVE SessionInv'
<1> USE DEF SessionInv
<1>1. /\ pc[r] = "read" /\ wrote[r] = 0 /\ InProgress(r) /\ r \notin Accepted
      /\ UNCHANGED <<row, records, body, wrote, audited, beside, forgotten>>
      /\ \/ /\ pc' = [pc EXCEPT ![r] = "done"] /\ answer' = [answer EXCEPT ![r] = Says(Refusal(r))]
            /\ expected' = [expected EXCEPT ![r] = 0] /\ Refusal(r) # "no" /\ UNCHANGED read
         \/ /\ pc' = [pc EXCEPT ![r] = "audit"] /\ body[r].op = "recap"
            /\ expected' = [expected EXCEPT ![r] = row.version] /\ UNCHANGED <<read, answer>>
         \/ /\ pc' = [pc EXCEPT ![r] = "write"] /\ read' = [read EXCEPT ![r] = row]
            /\ \/ expected' = expected
               \/ expected' = [expected EXCEPT ![r] = row.version]
            /\ Refusal(r) = "no" /\ UNCHANGED answer
  BY DEF Read, Reply, TypeOK, histories, InProgress, ProgressInv, Accepted
<1>2. row \in Rows /\ row.version \in Nat  BY DEF TypeOK, Rows
<1>3. Refusal(r) # "no" => Says(Refusal(r)) \in
        [kind : {"conflict", "ended", "illegal"}, version : {0}]
  BY DEF Refusal, Says
<1>4. /\ \A q \in Requests \ {r} : pc'[q] = pc[q] /\ answer'[q] = answer[q]
      /\ pc'[r] \in {"done", "audit", "write"} /\ pc' \in [Requests -> Points]
      /\ pc'[r] # "done" => answer' = answer
      /\ answer' = answer \/ answer'[r] \in [kind : {"conflict", "ended", "illegal"}, version : {0}]
      /\ pc'[r] = "audit" => body[r].op = "recap"
  BY <1>1, <1>3 DEF TypeOK, Points
<1>5. /\ Accepted' = Accepted /\ Accepted \subseteq Requests
      /\ VersionsAreWrites' /\ NothingOverwritten' /\ Unrecordeds \subseteq Unrecordeds'
      /\ \A q \in Requests : HasKey(q)' = HasKey(q)
      /\ \A q \in Requests : InProgress(q)' => InProgress(q)
  BY <1>1, <1>4, OnlyItsOwn
<1>6. TypeOK'
  <2>1. answer' \in [Requests -> Answers]
    <3>1. answer \in [Requests -> Answers]  BY DEF TypeOK, Answers
    <3>2. Refusal(r) # "no" => Says(Refusal(r)) \in Answers  BY <1>3 DEF Answers
    <3>3. answer' = answer \/ (Refusal(r) # "no" /\ answer' = [answer EXCEPT ![r] = Says(Refusal(r))])
      BY <1>1
    <3> QED  BY ONLY <3>1, <3>2, <3>3
  <2>2. expected' \in [Requests -> Nat]  BY <1>1, <1>2 DEF TypeOK
  <2>3. read' \in [Requests -> Rows \cup {NoRow}]  BY <1>1, <1>2 DEF TypeOK
  <2> QED  BY <1>1, <1>4, <2>1, <2>2, <2>3 DEF TypeOK, Answers, Points
<1>7. ReadInv'
  <2> SUFFICES ASSUME NEW q \in Requests
               PROVE  /\ expected'[q] <= row'.version
                      /\ pc'[q] = "write" =>
                           /\ read'[q] \in Rows
                           /\ expected'[q] <= read'[q].version
                           /\ read'[q].version <= row'.version
                           /\ read'[q].version = row'.version => read'[q] = row'
                           /\ body'[q].op = "handover" => InGraph(read'[q].mode, "multi_presenter")
    BY DEF ReadInv
  <2>1. expected'[q] <= row'.version
    <3>1. \/ expected' = expected \/ expected' = [expected EXCEPT ![r] = 0]
          \/ expected' = [expected EXCEPT ![r] = row.version]
      BY <1>1
    <3>2. expected'[q] \in {expected[q], 0, row.version}  BY <3>1 DEF TypeOK
    <3> QED  BY <3>2, <1>1, <1>2 DEF ReadInv
  <2>2. CASE q # r
    <3>1. pc'[q] = pc[q] /\ read'[q] = read[q] /\ expected'[q] = expected[q]
      BY <2>2, <1>1 DEF TypeOK
    <3> QED  BY <3>1, <1>1, <2>1 DEF ReadInv
  <2>3. CASE q = r
    <3> SUFFICES ASSUME pc'[r] = "write"
                 PROVE  /\ read'[r] = row /\ expected'[r] <= row.version
                        /\ body[r].op = "handover" => InGraph(row.mode, "multi_presenter")
      BY <2>1, <2>3, <1>1, <1>2
    <3>1. read'[r] = row /\ Refusal(r) = "no"  BY <1>1 DEF TypeOK
    <3>2. body[r].op = "handover" => InGraph(row.mode, "multi_presenter")
      BY <3>1 DEF Refusal, MayMove
    <3> QED  BY <2>1, <2>3, <3>1, <3>2, <1>1
  <2> QED  BY <2>2, <2>3
<1>8. ProgressInv'  BY <1>1, <1>4, <1>5 DEF ProgressInv
<1>9. KeyInv'  BY <1>1, <1>4, <1>5, KeyKept DEF Committed
<1>10. RecordInv'  BY <1>1, RecordKept DEF Committed
<1>11. KeyAppliedOnce'
  <2>1. \A p \in Requests : answer'[p].kind = "replay" => answer'[p] = answer[p]
    BY <1>4
  <2> QED  BY <2>1, <1>1, <1>5, AppliedKept
<1>12. AuditAccounted'
  <2>1. \A p \in Requests : answer'[p].version > 0 => answer'[p] = answer[p]
    BY <1>4
  <2>2. \A q \in Accepted \ audited' : pc'[q] \in {"audit", "dead"} \/ answer'[q].kind = "error"
    BY <1>1, <1>4, <1>5 DEF AuditAccounted
  <2> QED  BY <2>1, <2>2, <1>1, AuditKept
<1> QED  BY <1>5, <1>6, <1>7, <1>8, <1>9, <1>10, <1>11, <1>12

(* The emission lands, and a keyed request goes on to its record; or it    *)
(* rejects, and the client gets an error.                                  *)
LEMMA EmitAuditInv == ASSUME SessionInv, NEW r \in Requests, EmitAudit(r) PROVE SessionInv'
<1> USE DEF SessionInv
<1>1. /\ pc[r] = "audit" /\ InProgress(r)
      /\ UNCHANGED <<row, records, body, read, wrote, beside, forgotten>>
      /\ audited' = audited \/ audited' = audited \cup {r}
      /\ \/ /\ HasKey(r) /\ pc' = [pc EXCEPT ![r] = "commit"] /\ UNCHANGED <<answer, expected>>
            /\ r \in audited'
         \/ /\ ~HasKey(r) /\ pc' = [pc EXCEPT ![r] = "done"] /\ r \in audited'
            /\ answer' = [answer EXCEPT ![r] = Row("ok", wrote[r])]
            /\ expected' = [expected EXCEPT ![r] = 0]
         \/ /\ pc' = [pc EXCEPT ![r] = "done"]
            /\ answer' = [answer EXCEPT ![r] = Says("error")]
            /\ expected' = [expected EXCEPT ![r] = 0]
  BY DEF EmitAudit, Unaudited, Reply, Goes, Written, InProgress
<1>2. /\ wrote[r] > 0 \/ (body[r].op = "recap" /\ ~HasKey(r))
      /\ wrote[r] \in Nat
  BY <1>1 DEF ProgressInv, HasKey, TypeOK
<1>3. /\ \A q \in Requests \ {r} : pc'[q] = pc[q] /\ answer'[q] = answer[q]
      /\ pc' \in [Requests -> Points]
      /\ \/ HasKey(r) /\ pc'[r] = "commit" /\ answer' = answer /\ r \in audited'
         \/ /\ ~HasKey(r) /\ pc'[r] = "done" /\ r \in audited'
            /\ answer'[r] = Row("ok", wrote[r])
         \/ pc'[r] = "done" /\ answer'[r] = Says("error")
  <2>1. pc' \in [Requests -> Points] /\ \A q \in Requests \ {r} : pc'[q] = pc[q]
    <3>1. PICK p \in {"commit", "done"} : pc' = [pc EXCEPT ![r] = p]  BY <1>1
    <3>2. pc \in [Requests -> Points]  BY DEF TypeOK, Points
    <3>3. p \in Points  BY DEF Points
    <3> QED  BY <3>1, <3>2, <3>3
  <2>2. \A q \in Requests \ {r} : answer'[q] = answer[q]  BY <1>1 DEF TypeOK
  <2>3. \/ HasKey(r) /\ pc'[r] = "commit" /\ answer' = answer /\ r \in audited'
        \/ /\ ~HasKey(r) /\ pc'[r] = "done" /\ r \in audited'
           /\ answer'[r] = Row("ok", wrote[r])
        \/ pc'[r] = "done" /\ answer'[r] = Says("error")
    BY <1>1 DEF TypeOK
  <2> QED  BY <2>1, <2>2, <2>3
<1>4. /\ Accepted' = Accepted /\ Accepted \subseteq Requests
      /\ VersionsAreWrites' /\ NothingOverwritten' /\ Unrecordeds \subseteq Unrecordeds'
      /\ \A q \in Requests : HasKey(q)' = HasKey(q)
      /\ \A q \in Requests : InProgress(q)' => InProgress(q)
  BY <1>1, <1>3, OnlyItsOwn
<1>5. r \in Unrecordeds' <=> (r \in forgotten \/ answer'[r].kind = "error")
  BY <1>1 DEF Unrecordeds, Unrecorded
<1>6. TypeOK'
  <2>1. answer' \in [Requests -> Answers]
    <3>1. Row("ok", wrote[r]) \in Answers /\ Says("error") \in Answers
      BY <1>2 DEF Row, Says, Answers
    <3>2. answer \in [Requests -> Answers]  BY DEF TypeOK, Answers
    <3>3. answer' = answer \/ \E a \in Answers : answer' = [answer EXCEPT ![r] = a]
      BY <1>1, <3>1
    <3> QED  BY ONLY <3>2, <3>3
  <2>2. expected' \in [Requests -> Nat]  BY <1>1 DEF TypeOK
  <2>3. audited' \subseteq Requests  BY <1>1 DEF TypeOK
  <2> QED  BY <1>1, <1>3, <2>1, <2>2, <2>3 DEF TypeOK, Answers, Points
<1>7. ReadInv'
  <2>1. /\ expected'[r] = expected[r] \/ expected'[r] = 0
        /\ \A q \in Requests \ {r} : expected'[q] = expected[q]
    BY <1>1 DEF TypeOK
  <2>2. row.version \in Nat /\ pc'[r] # "write"  BY <1>3 DEF TypeOK, Rows
  <2> QED  BY <1>1, <1>3, <2>1, <2>2 DEF ReadInv
<1>8. ProgressInv'
  <2>1. \A q \in Requests \ {r} : pc'[q] = "commit" => q \in audited'
    BY <1>1, <1>3 DEF ProgressInv
  <2> QED  BY <2>1, <1>1, <1>2, <1>3, <1>4 DEF ProgressInv
<1>9. KeyInv'
  <2>1. HasKey(r) => \/ pc'[r] \in {"audit", "commit"}
                     \/ r \in Unrecordeds'
    BY <1>3, <1>5 DEF Says
  <2> QED  BY <1>1, <1>3, <1>4, <2>1, KeyKept DEF Committed
<1>10. RecordInv'  BY <1>1, RecordKept DEF Committed
<1>11. KeyAppliedOnce'
  <2>1. \A p \in Requests : answer'[p].kind = "replay" => answer'[p] = answer[p]
    BY <1>3 DEF Row, Says
  <2> QED  BY <2>1, <1>1, <1>4, AppliedKept
<1>12. AuditAccounted'
  <2>1. ASSUME NEW p \in Requests, answer'[p].version > 0
        PROVE  \E q \in audited' : wrote'[q] = answer'[p].version
    <3>1. CASE answer'[p] = answer[p]
      <4>1. PICK q \in audited : wrote[q] = answer[p].version
        BY <2>1, <3>1 DEF AuditAccounted
      <4> QED  BY <3>1, <4>1, <1>1
    <3>2. CASE answer'[p] # answer[p]
      <4>1. p = r /\ r \in audited' /\ answer'[r] = Row("ok", wrote[r])
        BY <2>1, <3>2, <1>3 DEF Says
      <4> QED  BY <4>1, <1>1 DEF Row
    <3> QED  BY <3>1, <3>2
  <2>2. \A q \in Accepted' \ audited' :
           pc'[q] \in {"audit", "dead"} \/ answer'[q].kind = "error"
    <3>1. r \in audited' \/ answer'[r].kind = "error"  BY <1>3 DEF Says
    <3> QED  BY <3>1, <1>1, <1>3, <1>4 DEF AuditAccounted
  <2>3. \A q \in audited' : q \in Accepted' \/ body'[q].op = "recap"
    <3>1. r \in Accepted' \/ body'[r].op = "recap"  BY <1>1, <1>2, <1>4 DEF Accepted
    <3> QED  BY <3>1, <1>1, <1>4 DEF AuditAccounted
  <2> QED  BY <2>1, <2>2, <2>3 DEF AuditAccounted
<1> QED  BY <1>4, <1>6, <1>7, <1>8, <1>9, <1>10, <1>11, <1>12

(* The record of a key is the version its request has written.             *)
LEMMA CommitStepInv == ASSUME SessionInv, NEW r \in Requests, Commit(r) PROVE SessionInv'
<1> USE DEF SessionInv
<1>1. /\ pc[r] = "commit" /\ InProgress(r)
      /\ UNCHANGED <<row, body, read, wrote, audited, beside, forgotten>>
      /\ records' = [records EXCEPT ![body[r].key] = wrote[r]]
      /\ pc' = [pc EXCEPT ![r] = "done"]
      /\ answer' = [answer EXCEPT ![r] = Row("ok", wrote[r])]
      /\ expected' = [expected EXCEPT ![r] = 0]
      /\ HasKey(r) /\ wrote[r] > 0 /\ wrote[r] \in Nat /\ r \in audited
  BY DEF Commit, Response, Reply, Written, histories, ProgressInv, TypeOK, InProgress
<1>2. body[r].key \in Keys /\ r \in Accepted
  BY <1>1, BodyFacts DEF HasKey, TypeOK, Accepted
<1>3. /\ \A q \in Requests \ {r} : pc'[q] = pc[q] /\ answer'[q] = answer[q]
      /\ pc'[r] = "done" /\ answer'[r] = Row("ok", wrote[r])
      /\ pc' \in [Requests -> Points]
  BY <1>1 DEF TypeOK, Points
<1>4. /\ Accepted' = Accepted /\ Accepted \subseteq Requests
      /\ VersionsAreWrites' /\ NothingOverwritten' /\ Unrecordeds \subseteq Unrecordeds'
      /\ \A q \in Requests : HasKey(q)' = HasKey(q)
      /\ \A q \in Requests : InProgress(q)' => InProgress(q)
  BY <1>1, <1>3, OnlyItsOwn
<1>5. /\ records'[body[r].key] = wrote[r] /\ Committed(body[r].key)'
      /\ \A k \in Keys \ {body[r].key} : records'[k] = records[k]
      /\ \A k \in Keys : Committed(k) => Committed(k)'
  BY <1>1, <1>2, PresenterAssumption DEF TypeOK, Committed
<1>6. TypeOK'
  <2>1. answer' \in [Requests -> Answers]  BY <1>1 DEF TypeOK, Row, Answers
  <2>2. expected' \in [Requests -> Nat]  BY <1>1 DEF TypeOK
  <2>3. records' \in [Keys -> {NoRecord, InFlight} \cup Nat]  BY <1>1 DEF TypeOK
  <2> QED  BY <1>1, <1>3, <2>1, <2>2, <2>3 DEF TypeOK, Answers, Points
<1>7. ReadInv'
  <2>1. /\ expected'[r] = expected[r] \/ expected'[r] = 0
        /\ \A q \in Requests \ {r} : expected'[q] = expected[q]
    BY <1>1 DEF TypeOK
  <2>2. row.version \in Nat /\ pc'[r] # "write"  BY <1>3 DEF TypeOK, Rows
  <2> QED  BY <1>1, <1>3, <2>1, <2>2 DEF ReadInv
<1>8. ProgressInv'  BY <1>1, <1>3, <1>4 DEF ProgressInv
<1>9. KeyInv'
  <2>1. \A q \in Requests : HasKey(q) => body[q].key \in Keys
    BY BodyFacts DEF HasKey, TypeOK
  <2> QED  BY <1>1, <1>3, <1>4, <1>5, <2>1, KeyKept
<1>10. RecordInv'
  <2>1. ASSUME NEW k \in Keys, Committed(k)'
        PROVE  \E q \in Accepted' \cap audited' :
                  HasKey(q)' /\ body'[q].key = k /\ wrote'[q] = records'[k]
    <3>1. CASE k = body[r].key  BY <3>1, <1>1, <1>2, <1>4, <1>5
    <3>2. CASE k # body[r].key
      <4>1. Committed(k) /\ records'[k] = records[k]  BY <2>1, <3>2, <1>5 DEF Committed
      <4>2. PICK q \in Accepted \cap audited :
               HasKey(q) /\ body[q].key = k /\ wrote[q] = records[k]
        BY <4>1 DEF RecordInv
      <4> QED  BY <4>1, <4>2, <1>1, <1>4
    <3> QED  BY <3>1, <3>2
  <2> QED  BY <2>1 DEF RecordInv
<1>11. KeyAppliedOnce'
  <2>1. \A p \in Requests : answer'[p].kind = "replay" => answer'[p] = answer[p]
    BY <1>3 DEF Row
  <2> QED  BY <2>1, <1>1, <1>4, AppliedKept
<1>12. AuditAccounted'
  <2>1. ASSUME NEW p \in Requests, answer'[p].version > 0
        PROVE  \E q \in audited' : wrote'[q] = answer'[p].version
    <3>1. CASE p = r  BY <3>1, <1>1, <1>3 DEF Row
    <3>2. CASE p # r  BY <2>1, <3>2, <1>1, <1>3 DEF AuditAccounted
    <3> QED  BY <3>1, <3>2
  <2>2. \A q \in Accepted' \ audited' :
           pc'[q] \in {"audit", "dead"} \/ answer'[q].kind = "error"
    BY <1>1, <1>3, <1>4 DEF AuditAccounted
  <2>3. \A q \in audited' : q \in Accepted' \/ body'[q].op = "recap"
    BY <1>1, <1>4 DEF AuditAccounted
  <2> QED  BY <2>1, <2>2, <2>3 DEF AuditAccounted
<1> QED  BY <1>4, <1>6, <1>7, <1>8, <1>9, <1>10, <1>11, <1>12

(* All records are gone, and so is every excuse-free request's progress.   *)
LEMMA CrashInv == ASSUME SessionInv, Crash PROVE SessionInv'
<1> USE DEF SessionInv
<1>1. /\ UNCHANGED <<row, body, answer, wrote, audited, beside>>
      /\ pc' = [r \in Requests |-> IF InProgress(r) THEN "dead" ELSE pc[r]]
      /\ records' = [k \in Keys |-> NoRecord] /\ read' = [r \in Requests |-> NoRow]
      /\ forgotten' = forgotten \cup {r \in Accepted : HasKey(r)}
      /\ expected' = [r \in Requests |-> 0]
  BY DEF Crash
<1>2. \A r \in Requests : pc'[r] = "dead" \/ (pc'[r] = pc[r] /\ pc[r] \in {"idle", "done", "dead"})
  BY <1>1 DEF InProgress
<1>3. /\ Accepted' = Accepted /\ Accepted \subseteq Requests
      /\ VersionsAreWrites' /\ NothingOverwritten'
  BY <1>1, UnwrittenStep DEF Accepted
<1>4. TypeOK'
  <2>1. pc' \in [Requests -> Points]  BY <1>1 DEF TypeOK, Points
  <2>2. records' \in [Keys -> {NoRecord, InFlight} \cup Nat]  BY <1>1
  <2>3. read' \in [Requests -> Rows \cup {NoRow}]  BY <1>1
  <2>4. expected' \in [Requests -> Nat]  BY <1>1
  <2>5. forgotten' \subseteq Requests  BY <1>1, <1>3 DEF TypeOK
  <2> QED  BY <1>1, <2>1, <2>2, <2>3, <2>4, <2>5 DEF TypeOK, Points
<1>5. ReadInv'
  <2>1. row.version \in Nat  BY DEF TypeOK, Rows
  <2>2. \A r \in Requests : expected'[r] = 0 /\ pc'[r] # "write"  BY <1>1, <1>2
  <2> QED  BY <1>1, <2>1, <2>2 DEF ReadInv
<1>6. ProgressInv'
  <2>1. \A r \in Requests : pc'[r] # "done" => answer'[r] = Says("none")
    BY <1>1, <1>2 DEF ProgressInv, InProgress
  <2>2. \A r \in Requests : pc'[r] = "idle" => wrote'[r] = 0 /\ body'[r].op = "touch"
    BY <1>1, <1>2 DEF ProgressInv
  <2> QED  BY <1>2, <2>1, <2>2 DEF ProgressInv
<1>7. /\ \A r \in Requests : Unrecorded(r) => Unrecorded(r)'
      /\ \A r \in Accepted : HasKey(r) => Unrecorded(r)'
  BY <1>1 DEF Unrecorded
<1>8. Unrecordeds \subseteq Unrecordeds' /\ \A r \in Accepted : HasKey(r) => r \in Unrecordeds'
  BY <1>3, <1>7 DEF Unrecordeds
<1>9. \A k \in Keys : ~Committed(k)'  BY <1>1 DEF Committed
<1>10. KeyInv'
  <2>1. \A q \in Requests : ~InProgress(q)' /\ pc'[q] \notin {"reserve", "read", "write"}
    BY <1>2 DEF InProgress
  <2> QED  BY <1>1, <1>8, <2>1, KeyKept
<1>11. RecordInv'  BY <1>9 DEF RecordInv
<1>12. KeyAppliedOnce'  BY <1>1, <1>8, AppliedKept
<1>13. AuditAccounted'
  <2>1. \A q \in Accepted \ audited' : pc'[q] \in {"audit", "dead"} \/ answer'[q].kind = "error"
    BY <1>1, <1>3 DEF AuditAccounted, InProgress
  <2> QED  BY <2>1, <1>1, AuditKept
<1> QED  BY <1>3, <1>4, <1>5, <1>6, <1>10, <1>11, <1>12, <1>13

(* The compare-and-set fails: the row stays.                               *)
LEMMA WriteFailsInv ==
  ASSUME SessionInv, NEW r \in Requests, Write(r), ~Matches(r) PROVE SessionInv'
<1> USE DEF SessionInv
<1>1. /\ pc[r] = "write" /\ wrote[r] = 0 /\ InProgress(r) /\ r \notin Accepted
      /\ UNCHANGED <<row, records, body, wrote, audited, beside, forgotten>>
      /\ pc' = [pc EXCEPT ![r] = "done"] /\ read' = [read EXCEPT ![r] = NoRow]
      /\ expected' = [expected EXCEPT ![r] = 0]
      /\ \E k \in {"ended", "conflict"} : answer' = [answer EXCEPT ![r] = Says(k)]
  BY DEF Write, Reply, histories, ProgressInv, InProgress, Accepted
<1>2. /\ \A q \in Requests \ {r} : pc'[q] = pc[q] /\ answer'[q] = answer[q]
      /\ pc'[r] = "done" /\ pc' \in [Requests -> Points]
      /\ answer'[r] \in [kind : {"ended", "conflict"}, version : {0}]
  BY <1>1 DEF TypeOK, Points, Says
<1>3. /\ Accepted' = Accepted /\ Accepted \subseteq Requests
      /\ VersionsAreWrites' /\ NothingOverwritten' /\ Unrecordeds \subseteq Unrecordeds'
      /\ \A q \in Requests : HasKey(q)' = HasKey(q)
      /\ \A q \in Requests : InProgress(q)' => InProgress(q)
  BY <1>1, <1>2, OnlyItsOwn
<1>4. TypeOK'
  <2>1. answer' \in [Requests -> Answers]  BY <1>1 DEF TypeOK, Says, Answers
  <2>2. expected' \in [Requests -> Nat]  BY <1>1 DEF TypeOK
  <2>3. read' \in [Requests -> Rows \cup {NoRow}]  BY <1>1 DEF TypeOK
  <2> QED  BY <1>1, <1>2, <2>1, <2>2, <2>3 DEF TypeOK, Answers, Points
<1>5. ReadInv'
  <2>1. \A q \in Requests : expected'[q] = expected[q] \/ expected'[q] = 0
    BY <1>1 DEF TypeOK
  <2>2. row.version \in Nat  BY DEF TypeOK, Rows
  <2>3. \A q \in Requests \ {r} : read'[q] = read[q]  BY <1>1 DEF TypeOK
  <2>4. \A q \in Requests \ {r} : expected'[q] = expected[q]  BY <1>1 DEF TypeOK
  <2> QED  BY <1>1, <1>2, <2>1, <2>2, <2>3, <2>4 DEF ReadInv
<1>6. ProgressInv'  BY <1>1, <1>2, <1>3 DEF ProgressInv
<1>7. KeyInv'  BY <1>1, <1>2, <1>3, KeyKept DEF Committed
<1>8. RecordInv'  BY <1>1, RecordKept DEF Committed
<1>9. KeyAppliedOnce'
  <2>1. \A p \in Requests : answer'[p].kind = "replay" => answer'[p] = answer[p]
    BY <1>2
  <2> QED  BY <2>1, <1>1, <1>3, AppliedKept
<1>10. AuditAccounted'
  <2>1. \A p \in Requests : answer'[p].version > 0 => answer'[p] = answer[p]
    BY <1>2
  <2>2. \A q \in Accepted \ audited' : pc'[q] \in {"audit", "dead"} \/ answer'[q].kind = "error"
    BY <1>1, <1>2 DEF AuditAccounted, Accepted
  <2> QED  BY <2>1, <2>2, <1>1, AuditKept
<1> QED  BY <1>3, <1>4, <1>5, <1>6, <1>7, <1>8, <1>9, <1>10

(* It succeeds: the row read is the current one, so nothing is lost, and   *)
(* the version written is new.                                             *)
LEMMA WriteInv ==
  ASSUME SessionInv, NEW r \in Requests, Write(r), Matches(r) PROVE SessionInv'
<1> USE DEF SessionInv
<1>1. /\ pc[r] = "write" /\ UNCHANGED <<records, body, audited, beside, forgotten>>
      /\ read' = [read EXCEPT ![r] = NoRow]
      /\ row' = Updated(r) /\ wrote' = [wrote EXCEPT ![r] = row'.version]
      /\ \/ pc' = [pc EXCEPT ![r] = "audit"] /\ UNCHANGED <<answer, expected>>
         \/ /\ pc' = [pc EXCEPT ![r] = "done"]
            /\ answer' = [answer EXCEPT ![r] = Says("error")]
            /\ expected' = [expected EXCEPT ![r] = 0]
  BY DEF Write, Goes, Reply, histories
<1>2. /\ read[r] = row /\ row.version = expected[r] /\ row' \in Rows
      /\ row'.version = row.version + 1 /\ row.version \in Nat \ {0}
      /\ wrote[r] = 0 /\ r \notin Accepted /\ Accepted \subseteq Requests
  <2>1. /\ read[r] = row /\ row.version = expected[r] /\ Updated(r) \in Rows
        /\ Updated(r).version = row.version + 1
    BY <1>1, WrittenRow
  <2>2. row.version \in Nat \ {0}  BY DEF TypeOK, Rows
  <2>3. wrote[r] = 0 /\ r \notin Accepted /\ Accepted \subseteq Requests
    BY <1>1 DEF ProgressInv, Accepted
  <2> QED  BY <1>1, <2>1, <2>2, <2>3
<1>3. /\ Accepted' = Accepted \cup {r} /\ wrote'[r] = row.version + 1
      /\ \A q \in Requests : q # r => wrote'[q] = wrote[q] /\ pc'[q] = pc[q]
                                        /\ answer'[q] = answer[q]
      /\ \/ pc'[r] = "audit" /\ answer'[r] = Says("none")
         \/ pc'[r] = "done" /\ answer'[r] = Says("error")
      /\ answer[r] = Says("none")
      /\ \A q \in Accepted : wrote'[q] = wrote[q] /\ q # r
      /\ \A q \in Accepted : wrote[q] \in 2..row.version
      /\ \A q \in Requests : HasKey(q)' = HasKey(q)
  <2>1. \A q \in Requests : q # r => wrote'[q] = wrote[q] /\ pc'[q] = pc[q]
                                    /\ answer'[q] = answer[q]
    BY <1>1 DEF TypeOK
  <2>2. wrote'[r] = row.version + 1 /\ wrote'[r] > 0  BY <1>1, <1>2 DEF TypeOK
  <2>3. Accepted' = Accepted \cup {r}  BY <2>1, <2>2 DEF Accepted
  <2>4. \A q \in Accepted : wrote[q] \in 2..row.version  BY DEF VersionsAreWrites
  <2>5. \A q \in Requests : HasKey(q)' = HasKey(q)  BY <1>1 DEF HasKey
  <2>6. answer[r] = Says("none")  BY <1>1 DEF ProgressInv
  <2>7. \/ pc'[r] = "audit" /\ answer'[r] = Says("none")
        \/ pc'[r] = "done" /\ answer'[r] = Says("error")
    BY <1>1, <2>6 DEF TypeOK
  <2> QED  BY <1>2, <2>1, <2>2, <2>3, <2>4, <2>5, <2>6, <2>7
<1>4. TypeOK'
  <2>1. pc' \in [Requests -> Points] /\ expected' \in [Requests -> Nat]
    BY <1>1 DEF TypeOK, Points
  <2>3. answer' \in [Requests -> Answers]  BY <1>1 DEF TypeOK, Says, Answers
  <2>2. read' \in [Requests -> Rows \cup {NoRow}] /\ wrote' \in [Requests -> Nat]
    BY <1>1, <1>2 DEF TypeOK
  <2> QED  BY <1>1, <1>2, <2>1, <2>2, <2>3 DEF TypeOK, Points, Answers
<1>5. ReadInv'
  <2> SUFFICES ASSUME NEW q \in Requests
               PROVE  /\ expected'[q] <= row'.version
                      /\ pc'[q] = "write" =>
                           /\ read'[q] \in Rows
                           /\ expected'[q] <= read'[q].version
                           /\ read'[q].version <= row'.version
                           /\ read'[q].version = row'.version => read'[q] = row'
                           /\ body'[q].op = "handover" => InGraph(read'[q].mode, "multi_presenter")
    BY DEF ReadInv
  <2>1. /\ expected'[q] \in Nat /\ expected'[q] <= row.version
        /\ q # r => expected'[q] = expected[q]
    BY <1>1, <1>2 DEF ReadInv, TypeOK
  <2>2. CASE pc'[q] = "write"
    <3>1. q # r /\ pc[q] = "write" /\ read'[q] = read[q]  BY <1>1, <2>2 DEF TypeOK
    <3>2. /\ read[q] \in Rows /\ read[q].version <= row.version /\ expected[q] <= read[q].version
          /\ body[q].op = "handover" => InGraph(read[q].mode, "multi_presenter")
      BY <3>1 DEF ReadInv
    <3>3. read[q].version \in Nat  BY <3>2 DEF Rows
    <3>4. read[q].version <= row'.version /\ read[q].version # row'.version
      BY <3>2, <3>3, <1>2
    <3> QED  BY <3>1, <3>2, <3>4, <2>1, <1>1, <1>2
  <2>3. CASE pc'[q] # "write"  BY <2>1, <2>3, <1>1, <1>2
  <2> QED  BY <2>2, <2>3
<1>6. ProgressInv'
  BY <1>1, <1>2, <1>3 DEF ProgressInv, TypeOK, HasKey
<1>7. KeyInv'
  <2>1. /\ \A p, q \in Requests : SameKey(p, q)' <=> SameKey(p, q)
        /\ \A p, q \in Requests : Excused(p, q) => Excused(p, q)'
        /\ \A q \in Requests : InProgress(q)' => InProgress(q)
        /\ Unrecordeds \subseteq Unrecordeds'
    <3>1. \A q \in Requests : Unrecorded(q) => Unrecorded(q)'
      BY <1>1, <1>3 DEF Unrecorded, Says
    <3>2. \A q \in Requests : InProgress(q)' => InProgress(q)
      BY <1>1, <1>3 DEF InProgress
    <3> QED  BY <3>1, <3>2, <1>1, <1>3 DEF SameKey, Excused, Unrecordeds
  <2>2. \A p, q \in Requests : p # q /\ SameKey(p, q)' /\ InProgress(p)' /\ InProgress(q)'
                              => p \in beside'[q] \/ q \in beside'[p]
    BY <2>1, <1>1 DEF KeyInv
  <2>3. ASSUME NEW p \in Accepted', HasKey(p)'
        PROVE  pc'[p] \in {"audit", "commit"} \/ p \in Unrecordeds' \/ Committed(body[p].key)'
    <3>1. CASE p = r
      <4>1. answer'[r].kind = "error" => r \in Unrecordeds'  BY DEF Unrecordeds, Unrecorded
      <4> QED  BY <3>1, <4>1, <1>3 DEF Says
    <3>2. CASE p # r
      <4>1. p \in Accepted /\ p \in Requests /\ HasKey(p)  BY <2>3, <3>2, <1>2, <1>3
      <4>2. pc[p] \in {"audit", "commit"} \/ p \in Unrecordeds \/ Committed(body[p].key)
        BY <4>1 DEF KeyInv
      <4>3. body'[p] = body[p] /\ pc'[p] = pc[p] /\ records' = records
        BY <3>2, <4>1, <1>1, <1>3
      <4> QED  BY <2>1, <4>2, <4>3 DEF Committed
    <3> QED  BY <3>1, <3>2
  <2>4. ASSUME NEW p \in Accepted', NEW q \in Requests, p # q, SameKey(p, q)',
               pc'[q] \in {"reserve", "read", "write"}
        PROVE  Excused(p, q)'
    <3>1. q # r /\ pc[q] \in {"reserve", "read", "write"} /\ p \in Requests /\ SameKey(p, q)
      BY <2>1, <2>4, <1>2, <1>3
    <3>2. CASE p \in Accepted
      <4>1. Excused(p, q)  BY <2>4, <3>1, <3>2 DEF KeyInv
      <4> QED  BY <2>1, <3>1, <4>1
    <3>3. CASE p = r
      <4>1. InProgress(p) /\ InProgress(q)  BY <3>1, <3>3, <1>1 DEF InProgress
      <4>2. Excused(p, q)  BY <2>4, <3>1, <4>1 DEF KeyInv, Excused
      <4> QED  BY <2>1, <3>1, <4>2
    <3> QED  BY <2>4, <3>2, <3>3, <1>3
  <2> QED  BY ONLY <2>2, <2>3, <2>4 DEF KeyInv
<1>12. RecordInv'
  <2>1. ASSUME NEW k \in Keys, Committed(k)'
        PROVE  \E q \in Accepted' \cap audited' :
                  HasKey(q)' /\ body'[q].key = k /\ wrote'[q] = records'[k]
    <3>1. Committed(k)  BY <2>1, <1>1 DEF Committed
    <3>2. PICK q \in Accepted \cap audited :
             HasKey(q) /\ body[q].key = k /\ wrote[q] = records[k]
      BY <3>1 DEF RecordInv
    <3> QED  BY <3>2, <1>1, <1>2, <1>3
  <2> QED  BY <2>1 DEF RecordInv
<1>8. VersionsAreWrites'
  <2>1. ASSUME NEW v \in 2..row'.version PROVE \E q \in Accepted' : wrote'[q] = v
    <3>1. CASE v = row.version + 1  BY <3>1, <1>3
    <3>2. CASE v # row.version + 1
      <4>1. v \in 2..row.version  BY <3>2, <1>2
      <4>2. PICK q \in Accepted : wrote[q] = v  BY <4>1 DEF VersionsAreWrites
      <4> QED  BY <4>2, <1>3
    <3> QED  BY <3>1, <3>2
  <2>2. ASSUME NEW p \in Accepted', NEW q \in Accepted', wrote'[p] = wrote'[q] PROVE p = q
    BY <2>2, <1>2, <1>3 DEF VersionsAreWrites
  <2>3. \A q \in Accepted' : wrote'[q] \in 2..row'.version  BY <1>2, <1>3
  <2> QED  BY <2>1, <2>2, <2>3 DEF VersionsAreWrites
<1>9. NothingOverwritten'
  <2>0. /\ row'.timers = IF body[r].op = "timer" THEN row.timers \cup {r} ELSE row.timers
        /\ row'.slide = IF body[r].op \in {"advance", "failover"} THEN body[r].slide ELSE row.slide
        /\ row'.mode = CASE body[r].op = "handover" -> "multi_presenter"
                          [] body[r].op = "failover" -> IF body[r].success THEN "live" ELSE "failover"
                          [] OTHER -> row.mode
    BY <1>1, WrittenRow
  <2>1. row'.timers = {q \in Accepted' : body'[q].op = "timer"}
    <3>1. row.timers = {q \in Accepted : body[q].op = "timer"}  BY DEF NothingOverwritten
    <3> QED  BY <2>0, <3>1, <1>1, <1>3
  <2>2. ASSUME NEW ops, NEW q \in LastOf(ops)'
        PROVE  \/ q = r /\ body[r].op \in ops
               \/ q \in LastOf(ops) /\ body[r].op \notin ops /\ q \in Requests
    <3>1. /\ q \in Accepted' /\ body[q].op \in ops
          /\ \A p \in Accepted' : body[p].op \in ops => wrote'[p] <= wrote'[q]
      BY <2>2, <1>1 DEF LastOf
    <3>2. CASE q = r  BY <3>1, <3>2
    <3>3. CASE q # r
      <4>1. q \in Accepted /\ wrote[q] \in 2..row.version /\ wrote'[q] = wrote[q]
        BY <3>1, <3>3, <1>3
      <4>2. body[r].op \notin ops
        <5> SUFFICES ASSUME body[r].op \in ops PROVE FALSE
          OBVIOUS
        <5>1. row.version + 1 <= wrote[q]  BY <3>1, <4>1, <1>3
        <5> QED  BY <5>1, <4>1, <1>2
      <4>3. \A p \in Accepted : body[p].op \in ops => wrote[p] <= wrote[q]
        BY <3>1, <4>1, <1>3
      <4> QED  BY <3>1, <4>1, <4>2, <4>3, <1>2 DEF LastOf
    <3> QED  BY <3>2, <3>3
  <2>3. \A q \in LastOf({"advance", "failover"})' : row'.slide = body'[q].slide
    BY <2>0, <2>2, <1>1 DEF NothingOverwritten
  <2>4. ASSUME NEW q \in LastOf({"handover", "failover"})'
        PROVE  row'.mode = IF body'[q].op = "handover" THEN "multi_presenter"
                             ELSE IF body'[q].success THEN "live" ELSE "failover"
    <3>1. CASE q = r /\ body[r].op = "handover"
      <4>1. row'.mode = "multi_presenter" /\ body'[q].op = "handover"
        BY <3>1, <2>0, <1>1
      <4> QED  BY <4>1
    <3>2. CASE q = r /\ body[r].op = "failover"
      <4>1. body[r].success \in BOOLEAN  BY <3>2, BodyFacts DEF TypeOK
      <4> QED  BY <3>2, <4>1, <2>0, <1>1
    <3>3. CASE q \in LastOf({"handover", "failover"}) /\ body[r].op \notin {"handover", "failover"}
      <4>1. row'.mode = row.mode  BY <3>3, <2>0
      <4> QED  BY <3>3, <4>1, <1>1 DEF NothingOverwritten
    <3> QED  BY <2>2, <2>4, <3>1, <3>2, <3>3
  <2> QED  BY <2>1, <2>3, <2>4 DEF NothingOverwritten
<1>10. KeyAppliedOnce'
  <2>1. ASSUME NEW q \in Accepted, HasKey(q), HasKey(r), body[q].key = body[r].key
        PROVE  q \in beside[r] \/ r \in beside[q] \/ Unrecorded(q) \/ Unrecorded(r)
    BY <2>1, <1>1, <1>2 DEF KeyInv, SameKey, Excused
  <2>2. \A q \in Requests : Unrecorded(q) => Unrecorded(q)'
    BY <1>1, <1>3 DEF Unrecorded, Says
  <2>3. ASSUME NEW p \in Accepted', NEW q \in Accepted', p # q, HasKey(p)', HasKey(q)',
               body'[p].key = body'[q].key
        PROVE  p \in beside'[q] \/ q \in beside'[p] \/ Unrecorded(p)' \/ Unrecorded(q)'
    <3>1. p \in Requests /\ q \in Requests /\ HasKey(p) /\ HasKey(q) /\ body[p].key = body[q].key
      BY <2>3, <1>1, <1>2, <1>3
    <3>2. CASE p = r  BY <2>1, <2>2, <2>3, <3>1, <3>2, <1>1, <1>3
    <3>3. CASE q = r  BY <2>1, <2>2, <2>3, <3>1, <3>3, <1>1, <1>3
    <3>4. CASE p # r /\ q # r
      <4>1. p \in beside[q] \/ q \in beside[p] \/ Unrecorded(p) \/ Unrecorded(q)
        BY <2>3, <3>1, <3>4, <1>3 DEF KeyAppliedOnce
      <4> QED  BY <4>1, <2>2, <3>1, <1>1
    <3> QED  BY <3>2, <3>3, <3>4
  <2>4. ASSUME NEW p \in Requests, answer'[p].kind = "replay"
        PROVE  \E q \in Accepted' : HasKey(q)' /\ body'[q].key = body'[p].key
                                   /\ wrote'[q] = answer'[p].version
    <3>1. answer'[p] = answer[p]  BY <2>4, <1>3 DEF Says
    <3>2. PICK q \in Accepted : HasKey(q) /\ body[q].key = body[p].key
                              /\ wrote[q] = answer[p].version
      BY <2>4, <3>1 DEF KeyAppliedOnce
    <3> QED  BY <3>1, <3>2, <1>1, <1>2, <1>3
  <2> QED  BY <2>3, <2>4 DEF KeyAppliedOnce
<1>11. AuditAccounted'
  <2>1. ASSUME NEW p \in Requests, answer'[p].version > 0
        PROVE  \E q \in audited' : wrote'[q] = answer'[p].version
    <3>1. answer'[p] = answer[p]  BY <2>1, <1>3 DEF Says
    <3>2. PICK q \in audited : wrote[q] = answer[p].version
      BY <2>1, <3>1 DEF AuditAccounted
    <3>3. q # r
      <4>1. wrote[q] > 0  BY <2>1, <3>1, <3>2
      <4> QED  BY <4>1, <1>2
    <3> QED  BY <3>1, <3>2, <3>3, <1>1, <1>3 DEF TypeOK
  <2>2. \A q \in Accepted' \ audited' :
           pc'[q] \in {"audit", "dead"} \/ answer'[q].kind = "error"
    BY <1>1, <1>2, <1>3 DEF AuditAccounted, Says
  <2>3. \A q \in audited' : q \in Accepted' \/ body'[q].op = "recap"
    BY <1>1, <1>3 DEF AuditAccounted
  <2> QED  BY <2>1, <2>2, <2>3 DEF AuditAccounted
<1> QED  BY <1>4, <1>5, <1>6, <1>7, <1>8, <1>9, <1>10, <1>11, <1>12

LEMMA SessionStep == SessionInv /\ [Next]_vars => SessionInv'
<1> SUFFICES ASSUME SessionInv, [Next]_vars PROVE SessionInv'
  OBVIOUS
<1>1. ASSUME NEW r \in Requests, Send(r) PROVE SessionInv'  BY <1>1, SendInv
<1>2. ASSUME NEW r \in Requests, Lookup(r) PROVE SessionInv'  BY <1>2, LookupInv
<1>3. ASSUME NEW r \in Requests, Reserve(r) PROVE SessionInv'  BY <1>3, ReserveInv
<1>4. ASSUME NEW r \in Requests, Read(r) PROVE SessionInv'  BY <1>4, ReadStepInv
<1>5. ASSUME NEW r \in Requests, Write(r) PROVE SessionInv'
  BY <1>5, WriteInv, WriteFailsInv
<1>6. ASSUME NEW r \in Requests, EmitAudit(r) PROVE SessionInv'  BY <1>6, EmitAuditInv
<1>7. ASSUME NEW r \in Requests, Commit(r) PROVE SessionInv'  BY <1>7, CommitStepInv
<1>8. CASE Crash  BY <1>8, CrashInv
<1>9. CASE UNCHANGED vars
  <2> USE <1>9 DEF vars, histories, SessionInv
  <2>1. TypeOK' /\ ReadInv'  BY DEF TypeOK, ReadInv
  <2>2. ProgressInv'  BY DEF ProgressInv, HasKey
  <2>3. Accepted' = Accepted /\ VersionsAreWrites' /\ NothingOverwritten'
    BY UnwrittenStep
  <2>4. Unrecordeds' = Unrecordeds  BY DEF Unrecordeds, Unrecorded
  <2>5. KeyInv'  BY <2>4, KeyKept DEF Committed, InProgress
  <2>6. RecordInv'  BY RecordKept DEF Committed
  <2>7. KeyAppliedOnce'  BY <2>4, AppliedKept
  <2>8. AuditAccounted'  BY AuditKept DEF AuditAccounted
  <2> QED  BY <2>1, <2>2, <2>3, <2>5, <2>6, <2>7, <2>8
<1> QED  BY <1>1, <1>2, <1>3, <1>4, <1>5, <1>6, <1>7, <1>8, <1>9 DEF Next, Finished

(* The types of the service's row and requests; the version is positive.   *)
THEOREM SessionTypeCorrect == Spec => []TypeOK
<1>1. SessionInv => TypeOK  BY DEF SessionInv
<1> QED  BY SessionInitInv, SessionStep, <1>1, PTL DEF Spec

(* The compare-and-set of pg_store.update and end gives every accepted     *)
(* write a version of its own, without gaps.                               *)
THEOREM VersionsOwned == Spec => []VersionsAreWrites
<1>1. SessionInv => VersionsAreWrites  BY DEF SessionInv
<1> QED  BY SessionInitInv, SessionStep, <1>1, PTL DEF Spec

(* No request's write back of the whole row undoes another's.              *)
THEOREM WritesKept == Spec => []NothingOverwritten
<1>1. SessionInv => NothingOverwritten  BY DEF SessionInv
<1> QED  BY SessionInitInv, SessionStep, <1>1, PTL DEF Spec

(* A key changes the session once, whatever slides and versions it is sent *)
(* with, unless two requests with it overlap, the one fails behind its     *)
(* write, or a restart forgets it.                                         *)
THEOREM KeysApplyOnce == Spec => []KeyAppliedOnce
<1>1. SessionInv => KeyAppliedOnce  BY DEF SessionInv
<1> QED  BY SessionInitInv, SessionStep, <1>1, PTL DEF Spec

(* A version told to any client has an audit event; an accepted write      *)
(* without one is in progress, failed behind its write, or died.           *)
THEOREM WritesAudited == Spec => []AuditAccounted
<1>1. SessionInv => AuditAccounted  BY DEF SessionInv
<1> QED  BY SessionInitInv, SessionStep, <1>1, PTL DEF Spec

LEMMA ModeGraph ==
  ASSUME NEW m \in Modes
  PROVE  InGraph(m, m) /\ InGraph(m, "live") /\ (m # "rehearsal" => InGraph(m, "failover"))
BY DEF Modes, InGraph, AllowedModeTransitions

(* Only Write changes the row: it finds a session that has not ended, and  *)
(* a handover has looked at the mode that it replaces.                     *)
THEOREM LifecycleHolds == Spec => LifecycleKept
<1>1. SessionInv /\ [Next]_vars =>
        [/\ row.ended => row' = row
         /\ \/ InGraph(row.mode, row'.mode)
            \/ row.mode = "rehearsal" /\ row'.mode = "failover"]_vars
  <2> SUFFICES ASSUME SessionInv, [Next]_vars
               PROVE  /\ row.ended => row' = row
                      /\ \/ InGraph(row.mode, row'.mode)
                         \/ row.mode = "rehearsal" /\ row'.mode = "failover"
    OBVIOUS
  <2>1. row.mode \in Modes  BY DEF SessionInv, TypeOK, Rows
  <2>2. CASE row' = row  BY <2>1, <2>2, ModeGraph
  <2>3. CASE row' # row
    <3>1. PICK r \in Requests : pc[r] = "write" /\ Matches(r) /\ row' = Updated(r)
      BY <2>3 DEF Next, vars, Send, Lookup, Reserve, Read, Write, EmitAudit, Commit, Crash,
                  Finished
    <3>2. /\ read[r] = row /\ ~row.ended
          /\ row'.mode = CASE body[r].op = "handover" -> "multi_presenter"
                           [] body[r].op = "failover" -> IF body[r].success THEN "live" ELSE "failover"
                           [] OTHER -> row.mode
      BY <3>1, WrittenRow
    <3>3. body[r].op = "handover" => InGraph(row.mode, "multi_presenter")
      BY <3>1, <3>2 DEF SessionInv, ReadInv
    <3> QED  BY <2>1, <3>2, <3>3, ModeGraph
  <2> QED  BY <2>2, <2>3
<1> QED  BY SessionInitInv, SessionStep, <1>1, PTL DEF Spec, LifecycleKept
=============================================================================
