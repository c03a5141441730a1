----------------------------- MODULE MCLRUCache -----------------------------
(***************************************************************************)
(* LRUCache on a small instance: values of 0 to 5 bytes, a cap of 4: one   *)
(* insertion may evict several entries, and one value does not fit.        *)
(***************************************************************************)
EXTENDS LRUCache

MCVals == 0..5
MCSize == [v \in MCVals |-> v]
=============================================================================
