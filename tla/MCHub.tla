------------------------------- MODULE MCHub -------------------------------
(***************************************************************************)
(* Hub on small instances.                                                 *)
(***************************************************************************)
EXTENDS Hub

\* Every connection belongs to the same user.
OneUser == [c \in Clients |-> CHOOSE u \in Users : TRUE]

=============================================================================
