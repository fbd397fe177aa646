------------------------- MODULE MCPresenterSession -------------------------
(* Requests are interchangeable, and so are slides. *)
EXTENDS PresenterSession, TLC

Symmetry == Permutations(Requests) \cup Permutations(Slides)
=============================================================================
