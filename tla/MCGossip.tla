------------------------------ MODULE MCGossip ------------------------------
(***************************************************************************)
(* Instances of Gossip for TLC.  The limits keep their order in the code,  *)
(* TTL < replay window, and are a tick or two each.  Handlers of different *)
(* peers share only the consensus round, which Consensus models, so one    *)
(* peer is enough.                                                         *)
(***************************************************************************)
EXTENDS Gossip
=============================================================================
