---------------------------- MODULE MCStateFile -----------------------------
(***************************************************************************)
(* Instances of StateFile for TLC: two controllers, the first with a       *)
(* second thread that flushes, each with a few flushes that can be told    *)
(* apart, the last standing for all later ones.                            *)
(***************************************************************************)
EXTENDS StateFile

CONSTANTS c1, c2, t1, t2, t3

MCWriters == {c1, c2}
MCThreads == {t1, t2, t3}
MCOwner   == [t \in MCThreads |-> IF t = t3 THEN c2 ELSE c1]
MCTogether == {{t} : t \in MCThreads} \cup {{t1, t2}, {t1, t3}}
=============================================================================
