----------------------------- MODULE Monitoring -----------------------------
(***************************************************************************)
(* src/monitoring as the agents use it: on_packet_in hands the packet rate *)
(* to the anomaly detector (integrity/agent.py:109-112), an anomaly        *)
(* becomes an alert, and every alert and event an entry of the audit log   *)
(* (integrity/agent.py:300, 89, 130).  The controllers share the log, each *)
(* has its own detector, and both start anew with the process.             *)
(***************************************************************************)
EXTENDS AuditLog, Anomaly

CONSTANTS Watched,            \* the processes whose traffic is looked at
          Rates, MaxSamples   \* bounds of the model: packets per second

ASSUME MonitoringAssumption ==
  Watched \subseteq Procs /\ Rates \subseteq Nat /\ MaxSamples \in Nat

VARIABLES
  up,                         \* the processes that run
  det,                        \* per process: its detector
  lo, hi, last,               \* least, greatest and latest sample of the run
  raised                      \* the alarms: process, run and number of entry

vars == <<auditVars, up, det, lo, hi, last, raised>>

NoSample == [rate |-> 0, alarm |-> FALSE]

Init ==
  /\ AuditInit
  /\ up = {}
  /\ det = [c \in Procs |-> NewDetector]
  /\ lo = [c \in Procs |-> 0] /\ hi = [c \in Procs |-> 0]
  /\ last = [c \in Procs |-> NoSample]
  /\ raised = {}

\* IntegrityAgent.__init__, with a new Audit and a new AnomalyEngine.
Start(c) ==
  /\ c \notin up
  /\ Open(c)
  /\ up' = up \cup {c}
  /\ UNCHANGED <<det, lo, hi, last, raised>>

\* The process dies, and with it the detector; the file is as it is.
Kill(c) ==
  /\ c \in up
  /\ up' = up \ {c}
  /\ det' = [det EXCEPT ![c] = NewDetector]
  /\ lo' = [lo EXCEPT ![c] = 0] /\ hi' = [hi EXCEPT ![c] = 0]
  /\ last' = [last EXCEPT ![c] = NoSample]
  /\ UNCHANGED <<auditVars, raised>>

\* Any other alert or event with an entry in the log.
Event(c) ==
  /\ c \in up
  /\ Write(c, FALSE)
  /\ UNCHANGED <<up, det, lo, hi, last, raised>>

\* A packet more than 30 s after the start, at rate x; when that is an anomaly
\* _alert writes its entry.
Packet(c, x) ==
  /\ c \in up /\ det[c].count < MaxSamples
  /\ det' = [det EXCEPT ![c] = Feed(det[c], x)]
  /\ lo' = [lo EXCEPT ![c] = IF det[c].count = 0 \/ x < @ THEN x ELSE @]
  /\ hi' = [hi EXCEPT ![c] = IF det[c].count = 0 \/ x > @ THEN x ELSE @]
  /\ last' = [last EXCEPT ![c] = [rate |-> x, alarm |-> Anomalous(det[c], x)]]
  /\ IF Anomalous(det[c], x)
     THEN Write(c, TRUE) /\ raised' = raised \cup {<<c, run[c], made[c] + 1>>}
     ELSE UNCHANGED <<auditVars, raised>>
  /\ UNCHANGED up

Next ==
  \/ \E c \in Procs : Start(c) \/ Kill(c) \/ Event(c)
  \/ \E c \in Watched : \E x \in Rates : Packet(c, x)

Spec == Init /\ [][Next]_vars

-----------------------------------------------------------------------------
TypeOK ==
  /\ AuditTypeOK
  /\ up \subseteq Procs
  /\ det \in [Procs -> Detectors]
  /\ lo \in [Procs -> Nat] /\ hi \in [Procs -> Nat]
  /\ last \in [Procs -> [rate : Nat, alarm : BOOLEAN]]
  /\ raised \subseteq Procs \X Nat \X Nat

\* An entry lost to a failed, torn or merged write leaves a gap an auditor sees as
\* soon as a later entry of its run is on file: a run whose entries on file follow
\* one another has all entries up to the last of these on file, alarms as alarms.
\* Entries lost at the end of a run leave no gap (monitoring/audit.py:28-33).
LinkedRunIsComplete ==
  \A l \in file : Linked(l.by, l.run) =>
    \A k \in 1 .. l.n :
      \E m \in file : /\ m.by = l.by /\ m.run = l.run /\ m.n = k
                      /\ <<l.by, l.run, k>> \in raised => m.alarm

\* Traffic within a band of three packets per second never raises an alarm, in
\* no phase and whatever deviation was learnt (monitoring/anomaly.py:64-72).
SteadyTrafficIsQuiet == \A c \in Procs : hi[c] - lo[c] <= 3 => ~ last[c].alarm

\* After the warm-up a sample is an anomaly that lies further from the band of
\* all samples so far than three times that band's width and three times 1% of
\* its top plus one (monitoring/anomaly.py:47-72).
SpikeIsFlagged ==
  \A c \in Procs, x \in Rates :
    LET margin(out) == /\ out > 3 * (hi[c] - lo[c])
                       /\ 100 * out > 3 * (hi[c] + 100)
    IN  det[c].count > 0 /\ det[c].count + 1 >= Warmup
        /\ (margin(x - hi[c]) \/ margin(lo[c] - x))
        => Anomalous(det[c], x)

\* A flood is one alarm: the same rate again right after an anomaly is none,
\* since the deviation has learnt the jump (monitoring/anomaly.py:56-58).
RepeatIsQuiet ==
  \A c \in Procs : last[c].alarm => ~ Anomalous(det[c], last[c].rate)
=============================================================================
