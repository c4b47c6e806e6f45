------------------------------ MODULE AuditLog ------------------------------
(***************************************************************************)
(* AUDIT_FILE (monitoring/audit.py): every process appends its entries to  *)
(* one file, each entry with the hash of the entry the process made before *)
(* it.  _prev is memory: a process that starts again starts from zeros.    *)
(* It moves on before the line is written, whether or not the write then   *)
(* succeeds.                                                               *)
(*                                                                         *)
(* The hash of an entry is known by the run that made it and its number    *)
(* there.  The file is the set of its readable lines; a write that meets a *)
(* full disk may leave part of a line, with which the next line is then    *)
(* read as one that is no JSON.                                            *)
(***************************************************************************)
EXTENDS Integers, FiniteSets

CONSTANTS Procs,
          MaxEntries, MaxLost    \* bounds of the model

ASSUME AuditAssumption == MaxEntries \in Nat /\ MaxLost \in Nat

VARIABLES
  file, torn,                 \* the readable lines; whether it ends in a part
  run, made, prev,            \* per process: run, entries made in it, _prev
  lost                        \* how many entries are not on file

auditVars == <<file, torn, run, made, prev, lost>>

Zeros == 0
Lines == [by : Procs, run : Nat, n : Nat, prev : Nat, alarm : BOOLEAN]

AuditInit ==
  /\ file = {} /\ torn = FALSE /\ lost = 0
  /\ run = [c \in Procs |-> 0]
  /\ made = [c \in Procs |-> 0]
  /\ prev = [c \in Procs |-> Zeros]

Room == Cardinality(file) + lost < MaxEntries

\* open(AUDIT_FILE, "a") and one write: done, refused, or cut short.
AppendLine(l) ==
  \/ ~ torn /\ file' = file \cup {l} /\ UNCHANGED <<torn, lost>>
  \/ torn /\ torn' = FALSE /\ lost' = lost + 1 /\ UNCHANGED file
  \/ lost < MaxLost /\ torn' \in {torn, TRUE} /\ lost' = lost + 1 /\ UNCHANGED file

Entry(c, r, k, p, alarm) == [by |-> c, run |-> r, n |-> k, prev |-> p, alarm |-> alarm]

\* A mutated form of Write: _prev moves when the line is on file.
WriteLate(c, alarm) ==
  /\ Room
  /\ AppendLine(Entry(c, run[c], made[c] + 1, prev[c], alarm))
  /\ made' = [made EXCEPT ![c] = @ + 1]
  /\ prev' = [prev EXCEPT ![c] = IF file' = file THEN @ ELSE made[c] + 1]
  /\ UNCHANGED run

\* write, under the process's lock
Write(c, alarm) ==
  /\ Room
  /\ made' = [made EXCEPT ![c] = @ + 1]
  /\ prev' = [prev EXCEPT ![c] = made[c] + 1]
  /\ UNCHANGED run
  /\ AppendLine(Entry(c, run[c], made[c] + 1, prev[c], alarm))

\* __init__: _prev is zeros, and AUDIT_START is written.
Open(c) ==
  /\ Room
  /\ run' = [run EXCEPT ![c] = @ + 1]
  /\ made' = [made EXCEPT ![c] = 1]
  /\ prev' = [prev EXCEPT ![c] = 1]
  /\ AppendLine(Entry(c, run[c] + 1, 1, Zeros, FALSE))

AuditTypeOK ==
  /\ file \subseteq Lines /\ torn \in BOOLEAN /\ lost \in Nat
  /\ run \in [Procs -> Nat] /\ made \in [Procs -> Nat] /\ prev \in [Procs -> Nat]

\* Every entry of run r of process c on file follows zeros or an entry on file.
Linked(c, r) ==
  \A l \in file : l.by = c /\ l.run = r =>
    \/ l.prev = Zeros
    \/ \E m \in file : m.by = c /\ m.run = r /\ m.n = l.prev
=============================================================================
