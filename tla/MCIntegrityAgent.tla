-------------------------- MODULE MCIntegrityAgent --------------------------
(***************************************************************************)
(* Instances of IntegrityAgent for TLC: limits of none or one in place of  *)
(* 500 packets and 50 flow rules a second, a snapshot every second packet  *)
(* in place of every tenth, a window of three blocks in place of 1000.  In *)
(* MCAgent.cfg one thread beside the event loop makes the calls of the     *)
(* heartbeat and of the gossip threads.                                    *)
(***************************************************************************)
EXTENDS IntegrityAgent
=============================================================================
