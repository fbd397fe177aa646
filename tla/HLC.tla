-------------------------------- MODULE HLC --------------------------------
(***************************************************************************)
(* Hybrid logical clock values as the database and the Go code compare     *)
(* them: lexicographically, the physical part first.                       *)
(***************************************************************************)
EXTENDS Naturals

HLC == [physical : Nat, logical : Nat]

(* The value that stands for "no op yet" in snapshot.go. *)
Zero == [physical |-> 0, logical |-> 0]

Before(a, b) ==
  \/ a.physical < b.physical
  \/ a.physical = b.physical /\ a.logical < b.logical

AtOrBefore(a, b) == a = b \/ Before(a, b)

(* h is the greatest member of S. *)
IsLatest(h, S) == h \in S /\ \A g \in S : AtOrBefore(g, h)
=============================================================================
