------------------------------ MODULE Gateway ------------------------------
(***************************************************************************)
(* services/realtime-gateway: the path of an op through syncOpHandler.     *)
(* Each connection has a read pump that handles one frame at a time and a  *)
(* write pump that empties a bounded channel.  The handler inserts the op, *)
(* publishes it on the bus and acknowledges it.  Clients, Postgres and the *)
(* bus are external: a client sends an op as often as it likes, on any     *)
(* connection, and an insert or a publish may land although it failed.     *)
(***************************************************************************)
EXTENDS Integers, Sequences, SequencesExt

CONSTANTS Frames,         \* op frames, by op_id
          Invalid,        \* those that Validate refuses
          Conns,          \* connections, each of them opened once at most
          OutCap,         \* capacity of OutCh (SendChannelBuffer)
          MaxFrames       \* bound on the frames a connection carries

ASSUME GatewayAssumption ==
  /\ Invalid \subseteq Frames /\ OutCap \in Nat \ {0} /\ MaxFrames \in Nat

VARIABLES
  conn,        \* "new", "open" or "closed"
  serving,     \* the handler: "read", "publish", "ack", or "gone" with its process
  carried,     \* frames read on the connection, the last being handled
  outCh,       \* the frames to write: [op, kind]
  opRows,      \* ops that have a row in crdt_logs
  bus,         \* the ops of the stream, in order
  answers,     \* history: <<connection, op, kind>> of all frames sent or dropped
  unpublished  \* history: ops whose insert or publish failed, or whose handler died

gatewayVars == <<conn, serving, carried, outCh, opRows, bus, answers, unpublished>>

GatewayInit ==
  /\ conn = [c \in Conns |-> "new"] /\ serving = [c \in Conns |-> "read"]
  /\ carried = [c \in Conns |-> <<>>] /\ outCh = [c \in Conns |-> <<>>]
  /\ opRows = {} /\ bus = <<>> /\ answers = {} /\ unpublished = {}

(* handleSyncWS, up to the pumps.                                          *)
Connect(c) ==
  /\ conn[c] = "new"
  /\ conn' = [conn EXCEPT ![c] = "open"]
  /\ UNCHANGED <<serving, carried, outCh, opRows, bus, answers, unpublished>>

(* SendProto: dropped when the channel is full.                            *)
Answer(c, o, kind) ==
  /\ answers' = answers \cup {<<c, o, kind>>}
  /\ outCh' = IF Len(outCh[c]) < OutCap THEN [outCh EXCEPT ![c] = Append(@, [op |-> o, kind |-> kind])]
              ELSE outCh

Goes(c, to) == serving' = [serving EXCEPT ![c] = to]
Current(c) == Last(carried[c])

(* The read pump and ValidateAndCheckDuplicate: a frame that is refused is *)
(* answered with an error.  One that is valid is inserted, and it is a     *)
(* duplicate exactly if no row was affected; an insert that fails, landed  *)
(* or not, is answered like an invalid frame.                              *)
UpsertsRow(o) == TRUE             \* mutant: ON CONFLICT DO UPDATE
RowAffected(o) == o \notin opRows

HandleOp(c, o) ==
  /\ conn[c] = "open" /\ serving[c] = "read" /\ Len(carried[c]) < MaxFrames
  /\ carried' = [carried EXCEPT ![c] = Append(@, o)]
  /\ \/ /\ o \in Invalid
        /\ Answer(c, o, "error")
        /\ UNCHANGED <<serving, opRows, unpublished>>
     \/ /\ o \notin Invalid
        /\ opRows' = opRows \cup {o}
        /\ IF RowAffected(o) THEN Goes(c, "publish") /\ UNCHANGED <<answers, outCh>>
                             ELSE Answer(c, o, "duplicate") /\ UNCHANGED serving
        /\ UNCHANGED unpublished
     \/ /\ o \notin Invalid
        /\ Answer(c, o, "error")
        /\ opRows' \in {opRows, opRows \cup {o}}
        /\ unpublished' = unpublished \cup (opRows' \ opRows)
        /\ UNCHANGED serving
  /\ UNCHANGED <<conn, bus>>

(* PublishCRDT, best effort.                                               *)
PublishOp(c) ==
  /\ serving[c] = "publish"
  /\ \/ bus' = Append(bus, Current(c)) /\ UNCHANGED unpublished
     \/ bus' \in {bus, Append(bus, Current(c))} /\ unpublished' = unpublished \cup {Current(c)}
  /\ Goes(c, "ack")
  /\ UNCHANGED <<conn, carried, outCh, opRows, answers>>

SendAck(c) ==
  /\ serving[c] = "ack"
  /\ Answer(c, Current(c), "applied")
  /\ Goes(c, "read")
  /\ UNCHANGED <<conn, carried, opRows, bus, unpublished>>

WriteFrame(c) ==
  /\ conn[c] = "open" /\ outCh[c] # <<>>
  /\ outCh' = [outCh EXCEPT ![c] = Tail(@)]
  /\ UNCHANGED <<conn, serving, carried, opRows, bus, answers, unpublished>>

(* The connection is lost; a handler in progress runs to its end.          *)
Disconnect(c) ==
  /\ conn[c] = "open"
  /\ conn' = [conn EXCEPT ![c] = "closed"]
  /\ UNCHANGED <<serving, carried, outCh, opRows, bus, answers, unpublished>>

(* The process is gone with all connections; new ones reach another.       *)
GatewayDies ==
  /\ \E c \in Conns : conn[c] = "open"
  /\ conn' = [c \in Conns |-> IF conn[c] = "open" THEN "closed" ELSE conn[c]]
  /\ serving' = [c \in Conns |-> IF conn[c] = "new" THEN "read" ELSE "gone"]
  /\ unpublished' = unpublished \cup {Current(c) : c \in {d \in Conns : serving[d] = "publish"}}
  /\ outCh' = [c \in Conns |-> <<>>]
  /\ UNCHANGED <<carried, opRows, bus, answers>>

GatewayNext ==
  \/ \E c \in Conns : \/ Connect(c) \/ \E o \in Frames : HandleOp(c, o)
                      \/ PublishOp(c) \/ SendAck(c) \/ WriteFrame(c) \/ Disconnect(c)
  \/ GatewayDies

GatewaySpec == GatewayInit /\ [][GatewayNext]_gatewayVars

-----------------------------------------------------------------------------
Kinds == {"applied", "duplicate", "error"}

GatewayTypeOK ==
  /\ conn \in [Conns -> {"new", "open", "closed"}]
  /\ serving \in [Conns -> {"read", "publish", "ack", "gone"}]
  /\ carried \in [Conns -> Seq(Frames)] /\ bus \in Seq(Frames)
  /\ outCh \in [Conns -> Seq([op : Frames, kind : Kinds])]
  /\ \A c \in Conns : Len(outCh[c]) <= OutCap
  /\ \A c \in Conns : serving[c] \in {"publish", "ack"} => carried[c] # <<>>
  /\ opRows \subseteq Frames \ Invalid /\ unpublished \subseteq opRows
  /\ answers \subseteq Conns \X Frames \X Kinds

(* What a client is told is durable: an op answered as applied or as a     *)
(* duplicate has a row, though frames are dropped, repeated on other       *)
(* connections, or cut off by a crash; and one handler at most, over all   *)
(* connections and repeats, answers that it applied the op.                *)
AnswerIsDurable ==
  \A a \in answers : a[3] # "error" =>
    /\ a[2] \in opRows
    /\ a[3] = "applied" => \A b \in answers : b[2] = a[2] /\ b[3] = "applied" => a = b

(* The stream has an op once at most, and only with its row; a row that    *)
(* is missing from the stream is that of a handler on its way to publish,  *)
(* or one whose publish or insert failed, or whose handler died.           *)
StoredReachesTheBus ==
  /\ IsInjective(bus)
  /\ \A i \in DOMAIN bus : bus[i] \in opRows
  /\ \A o \in opRows : \/ o \in ToSet(bus) \cup unpublished
                       \/ \E c \in Conns : serving[c] = "publish" /\ Current(c) = o

=============================================================================
