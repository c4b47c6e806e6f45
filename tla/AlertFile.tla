----------------------------- MODULE AlertFile ------------------------------
(***************************************************************************)
(* ALERT_FILE and its reader: every _alert of every controller, and of the *)
(* attack simulator, loads the list, appends and writes it back in place,  *)
(* with no lock; the dashboard's poller shows what it finds new; api_reset *)
(* clears the file and the poller's bookkeeping from a request thread.     *)
(*                                                                         *)
(* Alerts are numbered in the order in which they are raised, which stands *)
(* for the poller's key, type and time.  A file of many alerts is longer   *)
(* than a write buffer, so a writer may write it in two pieces.            *)
(***************************************************************************)
EXTENDS Integers, Sequences, FiniteSets, Functions

CONSTANTS Writers,            \* the threads of all controllers that raise alerts ...
          Simulators,         \* ... and runs of the attack simulator among them
          Cap,                \* 500 in the code
          MaxAlerts,          \* bound of the model: alerts raised
          MaxResets           \* bound of the model: POST /api/reset

ASSUME AlertAssumption ==
  {Cap, MaxAlerts, MaxResets} \subseteq Nat /\ Cap > 0 /\ Simulators \subseteq Writers

VARIABLES
  file,                       \* the content of ALERT_FILE
  raised,                     \* the number of alerts raised so far
  pc, doc,                    \* of a writer: where it stands, what it will write
  poll, read, new,            \* of the poller: where it stands, alerts, new
  prev, seen,                 \* _prev_alert_n, _seen_alert_keys
  shown,                      \* how often an alert was sent to the page
  dropped,                    \* alerts left over from rounds that broke off
  reset, resets,              \* where api_reset stands, how many have ended
  base,                       \* alerts raised before the last reset
  calm                        \* so far every section below ran undisturbed

writerVars == <<raised, pc, doc>>
pollVars   == <<poll, read, new, shown, dropped>>
resetVars  == <<reset, resets, base>>
vars == <<file, writerVars, pollVars, prev, seen, resetVars, calm>>

Alerts == 1 .. MaxAlerts

\* The content: a JSON list, nothing, the first piece of a writer's list, or
\* bytes of several.  json.load raises on all but the first.
Json(list) == [kind |-> "json", list |-> list, by |-> {}]
Empty      == [kind |-> "empty", list |-> <<>>, by |-> {}]
Piece(w)   == [kind |-> "piece", list |-> <<>>, by |-> {w}]
Torn       == [kind |-> "torn", list |-> <<>>, by |-> {}]

Init ==
  /\ file = Json(<<>>)        \* a file that does not exist counts as []
  /\ raised = 0
  /\ pc = [w \in Writers |-> "idle"] /\ doc = [w \in Writers |-> <<>>]
  /\ poll = "sleep" /\ read = <<>> /\ new = <<>>
  /\ prev = 0 /\ seen = {}
  /\ shown = [a \in Alerts |-> 0] /\ dropped = {}
  /\ reset = "idle" /\ resets = 0
  /\ base = 0
  /\ calm = TRUE

Writing == \E w \in Writers : pc[w] # "idle"

-----------------------------------------------------------------------------
(* _alert.                                                                 *)

\* Mutated forms of Kept: no cap, and the oldest alerts kept for the newest.
KeptAll(list)    == list
KeptOldest(list) == SubSeq(list, 1, IF Len(list) > Cap THEN Cap ELSE Len(list))

\* alerts[-500:]
Kept(list) == SubSeq(list, IF Len(list) > Cap THEN Len(list) - Cap + 1 ELSE 1, Len(list))

Raise(w) ==
  /\ pc[w] = "idle"
  /\ raised < MaxAlerts
  /\ raised' = raised + 1
  /\ calm' = (calm /\ ~ Writing /\ reset = "idle")
  /\ UNCHANGED <<file, pollVars, prev, seen, resetVars>>

\* What w will write, the list it has loaded being given: a controller keeps the
\* newest, the simulator all.
Longer(w, list) ==
  IF w \in Simulators THEN Append(list, raised + 1) ELSE Kept(Append(list, raised + 1))

\* An alert is raised, and the list loaded.  When that fails the simulator begins
\* a new list; a controller swallows the exception and does not record the alert.
Load(w) ==
  /\ Raise(w)
  /\ IF file.kind = "json" \/ w \in Simulators
     THEN /\ pc' = [pc EXCEPT ![w] = "loaded"]
          /\ doc' = [doc EXCEPT ![w] =
                       Longer(w, IF file.kind = "json" THEN file.list ELSE <<>>)]
     ELSE UNCHANGED <<pc, doc>>

\* open(ALERT_FILE, "w") truncates what everybody else reads and writes.
Open(w) ==
  /\ pc[w] = "loaded"
  /\ pc' = [pc EXCEPT ![w] = "opened"]
  /\ file' = Empty
  /\ UNCHANGED <<raised, doc, pollVars, prev, seen, resetVars, calm>>

\* The first piece, when the list is longer than the buffer.
WritePiece(w) ==
  /\ pc[w] = "opened"
  /\ pc' = [pc EXCEPT ![w] = "begun"]
  /\ file' = IF file = Empty THEN Piece(w) ELSE Torn
  /\ UNCHANGED <<raised, doc, pollVars, prev, seen, resetVars, calm>>

\* What may be in the file after the last write: at the start of the file it
\* replaces a shorter content and mixes with a longer one; after a first piece
\* that somebody truncated since, it leaves a hole.
Outcomes(w) ==
  IF pc[w] = "opened"
  THEN {Json(doc[w])} \cup (IF file \in {Empty, Json(<<>>)} THEN {} ELSE {Torn})
  ELSE IF file = Piece(w) THEN {Json(doc[w])}
  ELSE IF file \in {Empty, Json(<<>>)} THEN {Torn} ELSE {Json(doc[w]), Torn}

Finish(w) ==
  /\ pc[w] \in {"opened", "begun"}
  /\ file' \in Outcomes(w)
  /\ pc' = [pc EXCEPT ![w] = "idle"]
  /\ doc' = [doc EXCEPT ![w] = <<>>]
  /\ UNCHANGED <<raised, pollVars, prev, seen, resetVars, calm>>

\* The controller is killed, or the disk is full: what is written stays.
Fail(w) ==
  /\ pc[w] # "idle"
  /\ pc' = [pc EXCEPT ![w] = "idle"]
  /\ doc' = [doc EXCEPT ![w] = <<>>]
  /\ calm' = FALSE
  /\ UNCHANGED <<file, raised, pollVars, prev, seen, resetVars>>

-----------------------------------------------------------------------------
(* _poller, one round; a round that fails is repeated a second later.      *)

\* json.load raises, of this file or of the state file read before it: nothing
\* is noted, and the round is over.
PollFail == poll = "sleep" /\ UNCHANGED vars

PollLoad ==
  /\ poll = "sleep"
  /\ file.kind = "json"
  /\ poll' = "loaded"
  /\ read' = file.list
  /\ calm' = (calm /\ reset = "idle")
  /\ UNCHANGED <<file, writerVars, new, shown, dropped, prev, seen, resetVars>>

\* len(alerts) != _prev_alert_n
PollCompare ==
  /\ poll = "loaded"
  /\ IF Len(read) # prev
     THEN poll' = "changed" /\ UNCHANGED read
     ELSE poll' = "sleep" /\ read' = <<>>
  /\ UNCHANGED <<file, writerVars, new, shown, dropped, prev, seen, resetVars, calm>>

\* new = alerts[_prev_alert_n:]
PollSlice ==
  /\ poll = "changed"
  /\ poll' = "sliced"
  /\ new' = SubSeq(read, prev + 1, Len(read))
  /\ UNCHANGED <<file, writerVars, read, shown, dropped, prev, seen, resetVars, calm>>

\* _prev_alert_n = len(alerts)
PollMark ==
  /\ poll = "sliced"
  /\ poll' = "showing"
  /\ prev' = Len(read)
  /\ read' = <<>>
  /\ UNCHANGED <<file, writerVars, new, shown, dropped, seen, resetVars, calm>>

\* A mutated form of PollShow: everything in new is shown.
PollShowAgain ==
  /\ poll = "showing" /\ new # <<>>
  /\ new' = Tail(new)
  /\ seen' = seen \cup {Head(new)}
  /\ shown' = [shown EXCEPT ![Head(new)] = @ + 1]
  /\ UNCHANGED <<file, writerVars, poll, read, dropped, prev, resetVars, calm>>

\* One alert of new: shown and noted, unless its key is known.
PollShow ==
  /\ poll = "showing" /\ new # <<>>
  /\ new' = Tail(new)
  /\ seen' = seen \cup {Head(new)}
  /\ shown' = [shown EXCEPT ![Head(new)] = IF Head(new) \in seen THEN @ ELSE @ + 1]
  /\ UNCHANGED <<file, writerVars, poll, read, dropped, prev, resetVars, calm>>

\* Sending an alert raises, before or after the page has it: its key is known by
\* then, and what is left of new is not looked at again, the count having moved on.
PollBreak ==
  /\ poll = "showing" /\ new # <<>> /\ Head(new) \notin seen
  /\ poll' = "sleep"
  /\ new' = <<>>
  /\ seen' = seen \cup {Head(new)}
  /\ \/ dropped' = dropped \cup Range(new) /\ UNCHANGED shown
     \/ /\ dropped' = dropped \cup Range(Tail(new))
        /\ shown' = [shown EXCEPT ![Head(new)] = @ + 1]
  /\ UNCHANGED <<file, writerVars, read, prev, resetVars, calm>>

PollEnd ==
  /\ poll = "showing" /\ new = <<>>
  /\ poll' = "sleep"
  /\ UNCHANGED <<file, writerVars, read, new, shown, dropped, prev, seen, resetVars, calm>>

-----------------------------------------------------------------------------
(* api_reset.  Its part about STATE_FILE is in StateFile.                  *)

ResetOpen ==
  /\ reset = "idle"
  /\ resets < MaxResets
  /\ reset' = "opened"
  /\ file' = Empty
  /\ base' = raised
  /\ calm' = (calm /\ ~ Writing /\ poll = "sleep")
  /\ UNCHANGED <<writerVars, pollVars, prev, seen, resets>>

\* "[]" is shorter than any content it may meet.
ResetWrite ==
  /\ reset = "opened"
  /\ reset' = "cleared"
  /\ file' = IF file = Empty THEN Json(<<>>) ELSE Torn
  /\ UNCHANGED <<writerVars, pollVars, prev, seen, resets, base, calm>>

\* A mutated form of ResetPrev: the number of alerts seen is kept.
ResetPrevNot ==
  /\ reset = "cleared"
  /\ reset' = "forgetting"
  /\ UNCHANGED <<file, writerVars, pollVars, prev, seen, resets, base, calm>>

\* _prev_alert_n = 0
ResetPrev ==
  /\ reset = "cleared"
  /\ reset' = "forgetting"
  /\ prev' = 0
  /\ UNCHANGED <<file, writerVars, pollVars, seen, resets, base, calm>>

\* _seen_alert_keys = set()
ResetSeen ==
  /\ reset = "forgetting"
  /\ reset' = "idle"
  /\ resets' = resets + 1
  /\ seen' = {}
  /\ UNCHANGED <<file, writerVars, pollVars, prev, base, calm>>

-----------------------------------------------------------------------------
Section(w) == Open(w) \/ WritePiece(w) \/ Finish(w)

Poller == PollLoad \/ PollCompare \/ PollSlice \/ PollMark \/ PollShow \/ PollEnd

Reset == ResetWrite \/ ResetPrev \/ ResetSeen

Next ==
  \/ \E w \in Writers : Load(w) \/ Section(w) \/ Fail(w)
  \/ Poller \/ PollFail \/ PollBreak
  \/ ResetOpen \/ Reset

Spec == Init /\ [][Next]_vars

\* The poller's rounds go on and do not all fail on the state file; a section
\* or a reset that began ends.
Runs(w)    == WF_vars(Section(w))
PollerRuns == WF_vars(Poller)
ResetRuns  == WF_vars(Reset)
FairSpec   == Spec /\ PollerRuns /\ ResetRuns /\ \A w \in Writers : Runs(w)

-----------------------------------------------------------------------------
TypeOK ==
  /\ file \in [kind : {"json", "empty", "piece", "torn"}, list : Seq(Alerts), by : SUBSET Writers]
  /\ raised \in 0 .. MaxAlerts
  /\ pc \in [Writers -> {"idle", "loaded", "opened", "begun"}]
  /\ doc \in [Writers -> Seq(Alerts)]
  /\ \A w \in Writers \ Simulators : Len(doc[w]) <= Cap
  /\ poll \in {"sleep", "loaded", "changed", "sliced", "showing"}
  /\ read \in Seq(Alerts) /\ new \in Seq(Alerts)
  /\ prev \in Nat
  /\ seen \subseteq Alerts
  /\ shown \in [Alerts -> Nat] /\ dropped \subseteq Alerts
  /\ reset \in {"idle", "opened", "cleared", "forgetting"}
  /\ resets \in 0 .. (IF reset = "idle" THEN MaxResets ELSE MaxResets - 1)
  /\ base \in 0 .. raised
  /\ calm \in BOOLEAN

\* However the list shrinks and grows again under overlapping writers, the
\* page is sent an alert at most once between two resets (app.py:91-94, 158).
ShownOnce == \A a \in Alerts : shown[a] <= 1 + resets

\* The last n of r alerts, and how many of the r there were after the first b the
\* file has to keep at least.
Newest(n, r) == [i \in 1 .. n |-> r - n + i]
Enough(b, r) == {n \in 0 .. r - b : n >= Cap \/ n = r - b}

\* While no section met another, a kill or a reset, the file holds the newest
\* alerts since the last reset, whole and in order: all of them, or at least as
\* many as a controller keeps (integrity/agent.py:288-297, attacks/simulator.py:58-81).
CalmFileIsComplete ==
  calm /\ ~ Writing /\ reset = "idle" =>
    \E n \in Enough(base, raised) : file = Json(Newest(n, raised))

\* Nobody waits for another: a section or a reset that began can go on, and so can
\* the poller, unless it is about to read a file that is being written.
CanGoOn(w) == pc[w] # "idle" => ENABLED <<Section(w)>>_vars
NeverWaits ==
  /\ poll # "sleep" \/ file.kind = "json" => ENABLED <<Poller>>_vars
  /\ reset # "idle" => ENABLED <<Reset>>_vars
  /\ \A w \in Writers : CanGoOn(w)

\* What the poller needs as long as sections do not meet: moments between them,
\* and rounds that do not fail on the state file.
RoundsGoOn == <>[](~ calm) \/ ([]<>(~ Writing) /\ []<><<PollLoad>>_vars)

\* The poller showed the alert or broke off a round that had it, or a reset dropped
\* it, or the list has reached the cap, where its length stops changing, or a step
\* of another disturbed a writer.
ShownOrLost(a) ==
  shown[a] > 0 \/ a \in dropped \/ a <= base \/ raised - base > Cap \/ ~ calm

\* The rounds go on, and an alert that was recorded undisturbed is shown, also when
\* a round of the poller fell into its writing, and also after resets; only a round
\* that breaks off in its loop and the cap end that (app.py:88-101, 157).
RecordedIsShown ==
  /\ RoundsGoOn
  /\ \A a \in Alerts : a <= raised ~> ShownOrLost(a)
=============================================================================
