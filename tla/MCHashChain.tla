---------------------------- MODULE MCHashChain -----------------------------
(***************************************************************************)
(* Instances of HashChain for TLC: two snapshot values, a window of three  *)
(* blocks in place of 1000, and enough blocks to fill and overflow it.     *)
(***************************************************************************)
EXTENDS HashChain
=============================================================================
