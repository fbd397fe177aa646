----------------------------- MODULE MCServices -----------------------------
(***************************************************************************)
(* Components that share no state with each other, in one instance for     *)
(* TLC.  Since none of them can observe another, it is enough that one     *)
(* moves in each behaviour: service names it, the others keep their        *)
(* initial states, and an initial choice is left open only in its turn.    *)
(***************************************************************************)
EXTENDS CrdtLog, PresenterStart, Election, ReplayBuffer, PayoutExecutor, Gateway

VARIABLE service

ServicesInit ==
  /\ LogInit /\ StartInit /\ ElectionInit /\ BufferInit /\ PayoutInit /\ GatewayInit
  /\ service \in {"log", "start", "election", "buffer", "payout", "gateway"}
  /\ service # "start" => \A r, q \in Starts : keyOf[r] = keyOf[q]

presenterVars == <<startVars, electionVars, bufferVars>>
otherVars == <<payoutVars, gatewayVars, logVars>>

ServicesNext ==
  /\ UNCHANGED service
  /\ \/ /\ service = "start" /\ StartNext
        /\ UNCHANGED <<electionVars, bufferVars, otherVars>>
     \/ /\ service = "election" /\ ElectionNext
        /\ UNCHANGED <<startVars, bufferVars, otherVars>>
     \/ /\ service = "buffer" /\ BufferNext
        /\ UNCHANGED <<startVars, electionVars, otherVars>>
     \/ /\ service = "payout" /\ PayoutNext
        /\ UNCHANGED <<presenterVars, gatewayVars, logVars>>
     \/ /\ service = "gateway" /\ GatewayNext
        /\ UNCHANGED <<presenterVars, payoutVars, logVars>>
     \/ /\ service = "log" /\ LogNext
        /\ UNCHANGED <<presenterVars, payoutVars, gatewayVars>>

ServicesSpec ==
  ServicesInit /\ [][ServicesNext]_<<service, presenterVars, otherVars>>

(* The type invariants of the components.                                  *)
ServicesTypeOK ==
  LogTypeOK /\ StartTypeOK /\ ElectionTypeOK /\ BufferTypeOK /\ PayoutTypeOK /\ GatewayTypeOK

-----------------------------------------------------------------------------
(* Two calls of one candidate may overlap with each other and with one of  *)
(* another candidate, whose clock is ahead.                                *)
ElectionCaller == [k \in Callers |-> IF k = 3 THEN "c2" ELSE "c1"]
ClockSkew == [c \in Candidates |-> IF c = "c2" THEN 1 ELSE 0]

(* Six ops on two branches: HLCs that tie in either part, and an op whose  *)
(* logical part is greatest on a smaller physical part.                    *)
At(p, l) == [physical |-> p, logical |-> l]
MCBranchOf == <<"main", "main", "main", "main", "draft", "draft">>
MCHlcOf == <<At(1, 2), At(2, 0), At(2, 1), At(2, 0), At(1, 1), At(3, 0)>>

(* Payout: ann reaches the minimum with both of her sales only.            *)
SaleCreator == [e \in Sales |-> IF e = 3 THEN "bob" ELSE "ann"]
SaleNet == [e \in Sales |-> IF e = 3 THEN 4 ELSE 2]
=============================================================================
