-------------------------- MODULE MCLearningSwitch --------------------------
(***************************************************************************)
(* An instance of LearningSwitch for TLC: two switches in a line with a    *)
(* host each, one controller that serves both and one that shares the      *)
(* second switch with it, as every switch of multi_controller.py is shared *)
(* by two controllers and every controller has two switches.               *)
(***************************************************************************)
EXTENDS LearningSwitch, TLC

CONSTANTS h1, h2, c1, c2, f1, f2

MCHosts == {h1, h2}
MCAt == [h \in MCHosts |-> IF h = h1 THEN 1 ELSE 2]
MCControllers == {c1, c2}
MCServes == [c \in MCControllers |-> IF c = c1 THEN {1, 2} ELSE {2}]
MCFrames == {f1, f2}
\* Frames differ in nothing before they are sent.
Symmetry == Permutations(MCFrames)
=============================================================================
