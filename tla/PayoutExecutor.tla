--------------------------- MODULE PayoutExecutor ---------------------------
(***************************************************************************)
(* workers/payout-executor/src/payout.ts: a timer fires passes over the    *)
(* eligible revenue share events; a pass pays each creator once and writes *)
(* a ledger entry per event.  Nothing keeps a pass from starting while the *)
(* one before it still runs.  The provider (store and payment rails) is    *)
(* external: its calls may fail, an entry may be stored all the same, and  *)
(* money moves out of sight.  Like the provider of the repository it       *)
(* leaves paid events eligible.  The status of an answered transfer is not *)
(* looked at.  A pass takes creators and events in any order.              *)
(***************************************************************************)
EXTENDS Integers, FiniteSets, FiniteSetsExt

CONSTANTS Creators, Sales,  \* the revenue share events
          CreatorOf, Net,   \* [Sales -> Creators], [Sales -> cents]
          MinPayout,        \* min_payout_cents
          Payable,          \* creators past the hold period, with a verified method
          Passes            \* the passes the timer fires, by run id: a bound

ASSUME PayoutAssumption ==
  /\ CreatorOf \in [Sales -> Creators] /\ Net \in [Sales -> Nat]
  /\ MinPayout \in Nat /\ Payable \subseteq Creators
  /\ IsFiniteSet(Sales) /\ IsFiniteSet(Creators)

VARIABLES
  timer,      \* whether the interval is set
  at,         \* [Passes -> "idle", "create", "next", "ledger" or "over"]
  listed,     \* [Passes -> the events it fetched]
  todo,       \* [Passes -> creators left, the one being paid included]
  unwritten,  \* [Passes -> events of the paid creator without a ledger entry]
  counts,     \* [Passes -> creators_paid, skipped and failed, as sets, and total_payout_cents]
  eligible,   \* provider: events with payout_status = 'eligible'
  requests,   \* provider: how often a run asked for the transfer to a creator
  answered,   \* the transfers [run, creator, cents] it answered, whatever their status
  ledger      \* provider: <<run, event>> of the entries

payoutVars == <<timer, at, listed, todo, unwritten, counts, eligible, requests, answered, ledger>>

PayoutInit ==
  /\ timer = TRUE
  /\ at = [r \in Passes |-> "idle"] /\ listed = [r \in Passes |-> {}]
  /\ todo = [r \in Passes |-> {}] /\ unwritten = [r \in Passes |-> {}]
  /\ counts = [r \in Passes |-> [paid |-> {}, skipped |-> {}, failed |-> {}, cents |-> 0]]
  /\ eligible = {} /\ answered = {} /\ ledger = {}
  /\ requests = [r \in Passes |-> [c \in Creators |-> 0]]

SalesOf(r, c) == {e \in listed[r] : CreatorOf[e] = c}
Total(events) == SumFunctionOnSet(Net, events)
Counted(r, kind, c) == [counts EXCEPT ![r][kind] = @ \cup {c}]

(* A purchase makes an event eligible (the marketplace service).           *)
Sell ==
  /\ \E e \in Sales \ eligible : eligible' = eligible \cup {e}
  /\ UNCHANGED <<timer, at, listed, todo, unwritten, counts, requests, answered, ledger>>

Fetch(r) ==
  /\ timer /\ at[r] = "idle"
  /\ listed' = [listed EXCEPT ![r] = eligible]
  /\ at' = [at EXCEPT ![r] = "create"]
  /\ UNCHANGED <<timer, todo, unwritten, counts, eligible, requests, answered, ledger>>

(* createPayoutRun answers, or throws and the pass is over.                *)
CreatePayoutRun(r) ==
  /\ at[r] = "create"
  /\ \/ /\ at' = [at EXCEPT ![r] = "next"]
        /\ todo' = [todo EXCEPT ![r] = {CreatorOf[e] : e \in listed[r]}]
     \/ at' = [at EXCEPT ![r] = "over"] /\ UNCHANGED todo
  /\ UNCHANGED <<timer, listed, unwritten, counts, eligible, requests, answered, ledger>>

AlwaysPays(r, c) == c \in Payable  \* mutant: the minimum is not looked at
Pays(r, c) == Total(SalesOf(r, c)) >= MinPayout /\ c \in Payable

Skip(r) ==
  /\ at[r] = "next"
  /\ \E c \in todo[r] :
       /\ ~Pays(r, c)
       /\ counts' = Counted(r, "skipped", c)
       /\ todo' = [todo EXCEPT ![r] = @ \ {c}]
  /\ UNCHANGED <<timer, at, listed, unwritten, eligible, requests, answered, ledger>>

(* creatorEligibleForPayout or getCreatorPayoutMethod throws: both are     *)
(* outside the inner try, so the pass ends.                                *)
LookupFails(r) ==
  /\ at[r] = "next"
  /\ \E c \in todo[r] : Total(SalesOf(r, c)) >= MinPayout
  /\ at' = [at EXCEPT ![r] = "over"]
  /\ UNCHANGED <<timer, listed, todo, unwritten, counts, eligible, requests, answered, ledger>>

(* One creator's failed payment does not end the pass.                     *)
GivesUp(r, c) == [todo EXCEPT ![r] = {}]  \* mutant: the first failure ends the loop
PaidAgain(r, c) == todo                   \* mutant: a creator is not left behind
Others(r, c) == [todo EXCEPT ![r] = @ \ {c}]

Transfer(r) ==
  /\ at[r] = "next"
  /\ \E c \in todo[r] :
       LET transfer == [run |-> r, creator |-> c, cents |-> Total(SalesOf(r, c))] IN
       /\ Pays(r, c)
       /\ requests' = [requests EXCEPT ![r][c] = @ + 1]
       /\ \/ /\ answered' = answered \cup {transfer}
             /\ at' = [at EXCEPT ![r] = "ledger"]
             /\ unwritten' = [unwritten EXCEPT ![r] = SalesOf(r, c)]
             /\ UNCHANGED <<todo, counts>>
          \/ /\ UNCHANGED answered
             /\ counts' = Counted(r, "failed", c) /\ todo' = Others(r, c)
             /\ UNCHANGED <<at, unwritten>>
  /\ UNCHANGED <<timer, listed, eligible, ledger>>

(* The entry of one event; an error counts the creator as failed, with the *)
(* transfer made and the entries so far in place.                          *)
WriteEntry(r) ==
  /\ at[r] = "ledger"
  /\ \E e \in unwritten[r] :
       LET c == CreatorOf[e] IN
       \/ /\ ledger' = ledger \cup {<<r, e>>}
          /\ unwritten' = [unwritten EXCEPT ![r] = @ \ {e}]
          /\ IF unwritten[r] = {e}
               THEN /\ at' = [at EXCEPT ![r] = "next"] /\ todo' = Others(r, c)
                    /\ counts' = [Counted(r, "paid", c) EXCEPT ![r].cents =
                                    @ + Total(SalesOf(r, c))]
               ELSE UNCHANGED <<at, todo, counts>>
       \/ /\ at' = [at EXCEPT ![r] = "next"] /\ todo' = Others(r, c)
          /\ counts' = Counted(r, "failed", c)
          /\ unwritten' = [unwritten EXCEPT ![r] = {}]
          /\ ledger' \in {ledger, ledger \cup {<<r, e>>}}
  /\ UNCHANGED <<timer, listed, eligible, requests, answered>>

Complete(r) ==
  /\ at[r] = "next" /\ todo[r] = {}
  /\ at' = [at EXCEPT ![r] = "over"]
  /\ UNCHANGED <<timer, listed, todo, unwritten, counts, eligible, requests, answered, ledger>>

(* stop clears the interval; a pass in progress goes on.  start sets it.   *)
StartStop ==
  /\ timer' = ~timer
  /\ UNCHANGED <<at, listed, todo, unwritten, counts, eligible, requests, answered, ledger>>

(* A restart: the passes in progress are gone, the timer is set again.     *)
RestartWorker ==
  /\ timer' = TRUE
  /\ at' = [r \in Passes |-> IF at[r] = "idle" THEN "idle" ELSE "over"]
  /\ UNCHANGED <<listed, todo, unwritten, counts, eligible, requests, answered, ledger>>

PayoutNext ==
  \/ Sell \/ StartStop \/ RestartWorker
  \/ \E r \in Passes : \/ Fetch(r) \/ CreatePayoutRun(r) \/ Skip(r) \/ LookupFails(r)
                       \/ Transfer(r) \/ WriteEntry(r) \/ Complete(r)

PayoutSpec == PayoutInit /\ [][PayoutNext]_payoutVars

-----------------------------------------------------------------------------
Result == [paid : SUBSET Creators, skipped : SUBSET Creators, failed : SUBSET Creators,
           cents : Nat]

PayoutTypeOK ==
  /\ timer \in BOOLEAN
  /\ at \in [Passes -> {"idle", "create", "next", "ledger", "over"}]
  /\ listed \in [Passes -> SUBSET Sales] /\ unwritten \in [Passes -> SUBSET Sales]
  /\ todo \in [Passes -> SUBSET Creators]
  /\ counts \in [Passes -> Result]
  /\ eligible \subseteq Sales /\ ledger \subseteq Passes \X Sales
  /\ requests \in [Passes -> [Creators -> Nat]]
  /\ answered \subseteq [run : Passes, creator : Creators, cents : Nat]

(* Every ledger entry is of an event that its run had listed, and backed   *)
(* by a transfer answered in that run: to the event's creator, and for all *)
(* of the creator's listed events, which reach the minimum.  A run asks    *)
(* for the transfer to a creator once, whatever fails, overlaps or         *)
(* restarts.                                                               *)
LedgerIsBacked ==
  /\ \A x \in ledger :
       /\ x[2] \in listed[x[1]]
       /\ \E t \in answered : /\ t.run = x[1] /\ t.creator = CreatorOf[x[2]]
                             /\ t.cents = Total(SalesOf(t.run, t.creator))
                             /\ t.creator \in Payable /\ t.cents >= MinPayout
  /\ \A r \in Passes, c \in Creators : requests[r][c] <= 1

(* The counts of a run that reached its end tell each creator of its list  *)
(* once: a creator counted as paid has an answered transfer, and entries   *)
(* for all its events; the cents are the sum of those transfers.           *)
CountsTellTheRun ==
  \A r \in Passes :
    LET k == counts[r]
        mine == {t \in answered : t.run = r /\ t.creator \in k.paid}
    IN /\ k.paid \cap k.failed = {} /\ k.skipped \cap (k.paid \cup k.failed) = {}
       /\ k.cents = SumFunction([t \in mine |-> t.cents])
       /\ \A c \in k.paid : (\E t \in mine : t.creator = c)
                            /\ \A e \in SalesOf(r, c) : <<r, e>> \in ledger
       /\ at[r] = "next" =>
            {CreatorOf[e] : e \in listed[r]} = k.paid \cup k.skipped \cup k.failed \cup todo[r]

-----------------------------------------------------------------------------
(* "bKash disburse ... idempotent on re-run" (phase-19-marketplace.md): no *)
(* event's money moves in two runs.                                        *)
PaidOnce ==
  \A x, y \in ledger : x[2] = y[2] => x[1] = y[1]
=============================================================================
