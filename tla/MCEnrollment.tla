---------------------------- MODULE MCEnrollment ----------------------------
(***************************************************************************)
(* Enrollment on small instances.  The requests of one kind are            *)
(* interchangeable, and so are the tokens.                                 *)
(***************************************************************************)
EXTENDS Enrollment, TLC

\* Finishes and Tokens; Begins is left alone, for Init chooses one of them.
Symmetry == Permutations(Finishes) \cup Permutations(Tokens)
=============================================================================
