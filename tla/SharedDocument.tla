--------------------------- MODULE SharedDocument ----------------------------
(***************************************************************************)
(* What STATE_FILE promises: one document in which every controller has an *)
(* entry, each update of which takes effect at once and touches nothing    *)
(* else (integrity/agent.py:253-258, "atomic write-then-rename", and the   *)
(* merge at 259-264).  The dashboard's reset and the attack simulator      *)
(* change it at once, too.  StateFile shows when the files keep the        *)
(* promise: until two sections or flushes of a controller meet, or a       *)
(* rewrite is cut short.                                                   *)
(***************************************************************************)
EXTENDS Integers

CONSTANTS Writers,            \* the controllers
          Targets,            \* those that are accused and attacked
          MaxSeq              \* bound of the model: flushes told apart

VARIABLES
  entries,                    \* the document
  made, alarmed,              \* the newest entry of each controller, who is accused
  intact                      \* the promise holds so far

docVars == <<entries, made, alarmed, intact>>

Forged == -1
Blank  == [w \in Writers |-> [block |-> 0, ok |-> TRUE]]

Init ==
  /\ entries = Blank
  /\ made = Blank /\ alarmed = {}
  /\ intact = TRUE

\* A controller makes its next entry, with its verdict of that moment, of which it
\* takes nothing back; it does not have to publish it.
Made(w) ==
  /\ alarmed' \in {alarmed, alarmed \cup ({w} \cap Targets)}
  /\ made' = [made EXCEPT ![w] =
       [block |-> IF @.block < MaxSeq THEN @.block + 1 ELSE @.block, ok |-> w \notin alarmed']]
Make(w) == Made(w) /\ UNCHANGED <<entries, intact>>

\* It is killed and forgets.
Forget(w) ==
  /\ alarmed' = alarmed \ {w}
  /\ UNCHANGED <<entries, made, intact>>

\* Its newest entry takes the place of its old one.
Publish(w) ==
  /\ intact
  /\ entries' = [entries EXCEPT ![w] = made[w]]
  /\ UNCHANGED <<made, alarmed, intact>>

\* api_reset, and the simulator's.
Clear ==
  /\ intact
  /\ entries' = [w \in Writers |-> [block |-> entries[w].block, ok |-> TRUE]]
  /\ UNCHANGED <<made, alarmed, intact>>

\* The attack, and its end: v gets some hash back that stood there earlier.
Attack(v) ==
  /\ intact
  /\ entries' = [entries EXCEPT ![v] = [block |-> Forged, ok |-> FALSE]]
  /\ UNCHANGED <<made, alarmed, intact>>

Restore(v) ==
  /\ intact
  /\ \E b \in Forged .. made[v].block : entries' = [entries EXCEPT ![v] = [block |-> b, ok |-> TRUE]]
  /\ UNCHANGED <<made, alarmed, intact>>

\* From here on nothing is promised.
Spoil ==
  /\ intact /\ intact' = FALSE
  /\ entries' = Blank
  /\ UNCHANGED <<made, alarmed>> \/ \E w \in Writers : Made(w)

Next ==
  \/ Clear \/ Spoil
  \/ \E w \in Writers : Make(w) \/ Forget(w) \/ Publish(w)
  \/ \E v \in Targets : Attack(v) \/ Restore(v)

Spec == Init /\ [][Next]_docVars
=============================================================================
