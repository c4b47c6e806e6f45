-------------------------- MODULE MonitoringProofs --------------------------
(***************************************************************************)
(* Theorems about Monitoring for every set of processes and of rates,      *)
(* every precision and every warm-up.                                      *)
(***************************************************************************)
EXTENDS Monitoring, TLAPS

-----------------------------------------------------------------------------
(* The detector's arithmetic.                                              *)

LEMMA Tenth ==
  ASSUME NEW n \in Nat
  PROVE  n \div 10 \in Nat /\ 10 * (n \div 10) <= n /\ n <= 10 * (n \div 10) + 9
BY SMT

\* What is smoothed stays between what it is made of.
LEMMA SmoothBetween ==
  ASSUME NEW a \in Nat, NEW b \in Nat, NEW p \in Nat, NEW q \in Nat,
         p <= a, p <= b, a <= q, b <= q
  PROVE  Smooth(a, b) \in Nat /\ p <= Smooth(a, b) /\ Smooth(a, b) <= q
<1> DEFINE s == (a + 9 * b) \div 10
<1>1. s \in Nat /\ 10 * s <= a + 9 * b /\ a + 9 * b <= 10 * s + 9
  BY Tenth
<1>2. 10 * p <= a + 9 * b /\ a + 9 * b <= 10 * q
  OBVIOUS
<1>3. Smooth(a, b) = s
  BY DEF Smooth
<1> HIDE DEF s
<1> QED  BY <1>1, <1>2, <1>3

LEMMA Square == ASSUME NEW e \in Int PROVE e * e \in Nat
<1>1. e >= 0 => e * e >= 0
  BY SMT
<1>2. e <= 0 => e * e >= 0
  BY SMT
<1> QED  BY <1>1, <1>2

\* Squares keep the order of distances.
LEMMA SquareBelow ==
  ASSUME NEW e \in Int, NEW w \in Nat, e <= w, -e <= w
  PROVE  e * e <= w * w
<1>1. CASE e >= 0
  <2>1. e * e <= e * w /\ e * w <= w * w
    BY <1>1, SMT
  <2>2. e * e \in Int /\ e * w \in Int /\ w * w \in Int
    OBVIOUS
  <2> HIDE <1>1
  <2> QED  BY <2>1, <2>2
<1>2. CASE e < 0
  <2> DEFINE d == -e
  <2>1. d \in Nat /\ d <= w
    BY <1>2
  <2>2. d * d <= d * w /\ d * w <= w * w
    BY <2>1, SMT
  <2>3. e * e = d * d
    BY SMT
  <2>4. d * d \in Int /\ d * w \in Int /\ w * w \in Int
    BY <2>1
  <2> QED  BY <2>2, <2>3, <2>4
<1> QED  BY <1>1, <1>2

LEMMA FeedType ==
  ASSUME NEW d \in Detectors, NEW x \in Nat
  PROVE  Feed(d, x) \in Detectors
<1> USE AnomalyAssumption
<1>1. d.count \in Nat /\ d.mean \in Nat /\ d.var \in Nat
  BY DEF Detectors
<1>2. x * Scale \in Nat /\ Dev(d, x) \in Int
  BY <1>1, SMT DEF Dev
<1>3. Dev(d, x) * Dev(d, x) \in Nat
  BY <1>2, Square
<1>4. Smooth(x * Scale, d.mean) \in Nat
  BY <1>1, <1>2, Tenth DEF Smooth
<1> DEFINE v == Dev(d, x) * Dev(d, x)
<1> HIDE DEF v
<1>5. Smooth(v, d.var) \in Nat
  <2>1. v \in Nat
    BY <1>3 DEF v
  <2> QED  BY <1>1, <2>1, Tenth DEF Smooth
<1>6. Smooth(Dev(d, x) * Dev(d, x), d.var) \in Nat
  BY <1>5 DEF v
<1> QED  BY <1>1, <1>2, <1>4, <1>6 DEF Feed, Detectors

-----------------------------------------------------------------------------
(* Type correctness.                                                       *)

LEMMA AppendType ==
  ASSUME AuditTypeOK, NEW l \in Lines, AppendLine(l)
  PROVE  file' \subseteq Lines /\ torn' \in BOOLEAN /\ lost' \in Nat
<1>1. file' \subseteq file \cup {l}
  BY DEF AppendLine
<1>2. lost' \in Nat
  <2>1. lost' = lost \/ lost' = lost + 1
    BY Zenon DEF AppendLine
  <2> QED  BY <2>1 DEF AuditTypeOK
<1>3. torn' = torn \/ torn' = TRUE \/ torn' = FALSE
  <2>1. CASE file' = file \cup {l} /\ UNCHANGED <<torn, lost>>
    BY <2>1, Zenon
  <2>2. CASE torn' = FALSE
    BY <2>2, Zenon
  <2>3. CASE torn' \in {torn, TRUE}
    BY <2>3, Zenon
  <2> QED  BY <2>1, <2>2, <2>3, Zenon DEF AppendLine
<1>4. torn' \in BOOLEAN
  BY <1>3, Zenon DEF AuditTypeOK
<1> QED  BY <1>1, <1>2, <1>4 DEF AuditTypeOK

LEMMA EntryType ==
  ASSUME NEW c \in Procs, NEW r \in Nat, NEW k \in Nat, NEW p \in Nat, NEW a \in BOOLEAN
  PROVE  Entry(c, r, k, p, a) \in Lines
BY DEF Entry, Lines

LEMMA WriteType ==
  ASSUME AuditTypeOK, NEW c \in Procs, NEW a \in BOOLEAN, Write(c, a)
  PROVE  AuditTypeOK'
<1>1. run[c] \in Nat /\ made[c] + 1 \in Nat /\ prev[c] \in Nat
  BY DEF AuditTypeOK
<1>2. file' \subseteq Lines /\ torn' \in BOOLEAN /\ lost' \in Nat
  BY <1>1, EntryType, AppendType DEF Write
<1> QED  BY <1>1, <1>2 DEF Write, AuditTypeOK

LEMMA OpenType ==
  ASSUME AuditTypeOK, NEW c \in Procs, Open(c)
  PROVE  AuditTypeOK'
<1>1. run[c] + 1 \in Nat /\ 1 \in Nat /\ Zeros \in Nat
  BY DEF AuditTypeOK, Zeros
<1>2. file' \subseteq Lines /\ torn' \in BOOLEAN /\ lost' \in Nat
  BY <1>1, EntryType, AppendType DEF Open
<1> QED  BY <1>1, <1>2 DEF Open, AuditTypeOK

LEMMA AnomalousType == ASSUME NEW d, NEW x PROVE Anomalous(d, x) \in BOOLEAN
BY DEF Anomalous

LEMMA TypeStep == TypeOK /\ [Next]_vars => TypeOK'
<1> SUFFICES ASSUME TypeOK, [Next]_vars PROVE TypeOK'
  OBVIOUS
<1>1. ASSUME NEW c \in Procs, Start(c) PROVE TypeOK'
  <2>1. AuditTypeOK'
    BY <1>1, OpenType DEF Start, TypeOK
  <2> QED  BY <1>1, <2>1 DEF Start, TypeOK
<1>2. ASSUME NEW c \in Procs, Kill(c) PROVE TypeOK'
  <2>1. AuditTypeOK'
    BY <1>2 DEF Kill, TypeOK, AuditTypeOK, auditVars
  <2>2. NewDetector \in Detectors /\ NoSample \in [rate : Nat, alarm : BOOLEAN]
    BY DEF NewDetector, Detectors, NoSample
  <2> QED  BY <1>2, <2>1, <2>2 DEF Kill, TypeOK
<1>3. ASSUME NEW c \in Procs, Event(c) PROVE TypeOK'
  <2>1. AuditTypeOK'
    BY <1>3, WriteType DEF Event, TypeOK
  <2> QED  BY <1>3, <2>1 DEF Event, TypeOK
<1>4. ASSUME NEW c \in Watched, NEW x \in Rates, Packet(c, x) PROVE TypeOK'
  <2>1. c \in Procs /\ x \in Nat
    BY MonitoringAssumption
  <2>2. det[c] \in Detectors
    BY <2>1 DEF TypeOK
  <2>3. Feed(det[c], x) \in Detectors
    BY <2>1, <2>2, FeedType
  <2>4. AuditTypeOK' /\ raised' \subseteq Procs \X Nat \X Nat
    <3>1. CASE Anomalous(det[c], x)
      <4>1. AuditTypeOK'
        BY <1>4, <2>1, <3>1, WriteType DEF Packet, TypeOK
      <4>2. run[c] \in Nat /\ made[c] + 1 \in Nat
        BY <2>1 DEF TypeOK, AuditTypeOK
      <4> QED  BY <1>4, <2>1, <3>1, <4>1, <4>2 DEF Packet, TypeOK
    <3>2. CASE ~ Anomalous(det[c], x)
      BY <1>4, <3>2 DEF Packet, TypeOK, AuditTypeOK, auditVars
    <3> QED  BY <3>1, <3>2
  <2>5. lo' \in [Procs -> Nat] /\ hi' \in [Procs -> Nat]
    BY <1>4, <2>1 DEF Packet, TypeOK
  <2>6. last' \in [Procs -> [rate : Nat, alarm : BOOLEAN]]
    BY <1>4, <2>1, AnomalousType DEF Packet, TypeOK
  <2>7. det' \in [Procs -> Detectors] /\ up' \subseteq Procs
    BY <1>4, <2>1, <2>3 DEF Packet, TypeOK
  <2> QED  BY <2>4, <2>5, <2>6, <2>7 DEF TypeOK
<1>5. ASSUME UNCHANGED vars PROVE TypeOK'
  BY <1>5 DEF vars, auditVars, TypeOK, AuditTypeOK
<1> QED  BY <1>1, <1>2, <1>3, <1>4, <1>5 DEF Next

LEMMA TypeInit == Init => TypeOK
<1>1. NewDetector \in Detectors /\ NoSample \in [rate : Nat, alarm : BOOLEAN]
  BY DEF NewDetector, Detectors, NoSample
<1>2. Init => AuditTypeOK
  <2>1. Init => file \subseteq Lines /\ lost \in Nat
    BY DEF Init, AuditInit
  <2>2. Init => torn \in BOOLEAN
    BY Zenon DEF Init, AuditInit
  <2>3. Init => run \in [Procs -> Nat] /\ made \in [Procs -> Nat] /\ prev \in [Procs -> Nat]
    BY DEF Init, AuditInit, Zeros
  <2> QED  BY <2>1, <2>2, <2>3 DEF AuditTypeOK
<1> QED  BY <1>1, <1>2 DEF Init, TypeOK

\* The variables keep their types.
THEOREM MonitoringTypeCorrect == Spec => []TypeOK
<1>1. Init => TypeOK  BY TypeInit
<1>2. TypeOK /\ [Next]_vars => TypeOK'  BY TypeStep
<1> QED  BY <1>1, <1>2, PTL DEF Spec

-----------------------------------------------------------------------------
(* The audit log: numbers of a run grow by one, also those of lost lines.  *)

\* Lines and alarms have been made, and a line follows the one made before it.
Numbered ==
  /\ \A c \in Procs : prev[c] = made[c]
  /\ \A l \in file : /\ l.prev + 1 = l.n /\ l.run <= run[l.by]
                     /\ l.run = run[l.by] => l.n <= made[l.by]
  /\ \A r \in raised : r[2] <= run[r[1]] /\ (r[2] = run[r[1]] => r[3] <= made[r[1]])

Marked == \A m \in file : <<m.by, m.run, m.n>> \in raised => m.alarm

Contiguous ==
  \A l \in file : Linked(l.by, l.run) =>
    \A k \in 1 .. l.n : \E m \in file : m.by = l.by /\ m.run = l.run /\ m.n = k

LogInv == TypeOK /\ Numbered /\ Marked /\ Contiguous

\* A line later than all others of its run keeps linked runs contiguous.
LEMMA AppendContiguous ==
  ASSUME AuditTypeOK, Contiguous, NEW e \in Lines, e.prev + 1 = e.n,
         \A l \in file : l.prev + 1 = l.n,
         \A l \in file : l.by = e.by /\ l.run = e.run => l.n < e.n,
         file' = file \cup {e}
  PROVE  Contiguous'
<1> SUFFICES ASSUME NEW l \in file', Linked(l.by, l.run)', NEW k \in 1 .. l.n
             PROVE  \E m \in file' : m.by = l.by /\ m.run = l.run /\ m.n = k
  BY DEF Contiguous
<1>1. \A m \in file \cup {e} : m.n \in Nat /\ m.prev \in Nat
  BY DEF AuditTypeOK, Lines
<1>2. Linked(l.by, l.run)
  <2> SUFFICES ASSUME NEW i \in file, i.by = l.by, i.run = l.run
               PROVE  i.prev = Zeros \/ \E m \in file : m.by = l.by /\ m.run = l.run /\ m.n = i.prev
    BY DEF Linked
  <2>1. i.prev = Zeros \/ \E m \in file \cup {e} : m.by = l.by /\ m.run = l.run /\ m.n = i.prev
    BY DEF Linked
  <2>2. CASE i.prev = Zeros
    BY <2>2
  <2>3. ASSUME NEW m \in file \cup {e}, m.by = l.by, m.run = l.run, m.n = i.prev
        PROVE  m \in file
    <3>1. CASE m = e
      <4>1. i.n < e.n /\ e.n = i.prev
        BY <2>3, <3>1
      <4> QED  BY <1>1, <4>1
    <3> QED  BY <2>3, <3>1
  <2> QED  BY <2>1, <2>2, <2>3
<1>3. CASE l \in file
  BY <1>2, <1>3 DEF Contiguous
<1>4. CASE l = e
  <2>1. CASE k = e.n
    BY <1>4, <2>1
  <2>2. CASE k # e.n
    <3>1. k \in 1 .. e.prev /\ e.prev # Zeros
      BY <1>1, <1>4, <2>2 DEF Zeros
    <3>2. PICK m \in file \cup {e} : m.by = e.by /\ m.run = e.run /\ m.n = e.prev
      BY <1>4, <3>1 DEF Linked
    <3>3. m # e
      BY <1>1, <3>2
    <3>4. m \in file /\ Linked(m.by, m.run)
      BY <1>2, <1>4, <3>2, <3>3
    <3>5. k \in 1 .. m.n
      BY <3>1, <3>2
    <3>6. \E o \in file : o.by = m.by /\ o.run = m.run /\ o.n = k
      BY <3>4, <3>5 DEF Contiguous
    <3> QED  BY <1>4, <3>2, <3>6
  <2> QED  BY <2>1, <2>2
<1> QED  BY <1>3, <1>4

LEMMA ContiguousSame == Contiguous /\ file' = file => Contiguous'
BY DEF Contiguous, Linked

LEMMA AppendEffect ==
  ASSUME NEW l, AppendLine(l)
  PROVE  file' = file \cup {l} \/ file' = file
BY Zenon DEF AppendLine

\* A process adds its next entry, in the run it is in or in a new one.
LEMMA EntryStep ==
  ASSUME LogInv, NEW e \in Lines, NEW c \in Procs,
         e.by = c, e.n = e.prev + 1,
         file' = file \cup {e} \/ file' = file,
         (e.run = run[c] /\ e.prev = made[c]) \/ (e.run = run[c] + 1 /\ e.prev = 0),
         run' = [run EXCEPT ![c] = e.run],
         made' = [made EXCEPT ![c] = e.n], prev' = [prev EXCEPT ![c] = e.n],
         \/ raised' = raised
         \/ e.alarm /\ raised' = raised \cup {<<c, e.run, e.n>>}
  PROVE  Numbered' /\ Marked' /\ Contiguous'
<1> DEFINE r == e.run
           k == e.prev
           a == e.alarm
<1>1. /\ e \in Lines /\ e.by = c /\ e.run = r /\ e.n = k + 1 /\ e.prev = k /\ e.alarm = a
      /\ r \in Nat /\ k \in Nat /\ a \in BOOLEAN
  BY DEF Lines
<1>2. file' = file \cup {e} \/ file' = file
  OBVIOUS
<1>a. (r = run[c] /\ k = made[c]) \/ (r = run[c] + 1 /\ k = 0)
  OBVIOUS
<1>b. /\ run' = [run EXCEPT ![c] = r] /\ made' = [made EXCEPT ![c] = k + 1]
      /\ prev' = [prev EXCEPT ![c] = k + 1]
  BY <1>1
<1>c. \/ raised' = raised
      \/ a /\ raised' = raised \cup {<<c, r, k + 1>>}
  BY <1>1
<1> HIDE DEF r, k, a
<1>3. /\ \A l \in file : l.by \in Procs /\ l.run \in Nat /\ l.n \in Nat /\ l.prev \in Nat
      /\ \A s \in raised : s[1] \in Procs /\ s[2] \in Nat /\ s[3] \in Nat /\ s = <<s[1], s[2], s[3]>>
  BY DEF LogInv, TypeOK, AuditTypeOK, Lines
<1>4. /\ run \in [Procs -> Nat] /\ made \in [Procs -> Nat] /\ prev \in [Procs -> Nat]
  BY DEF LogInv, TypeOK, AuditTypeOK
<1>5. \A l \in file : l.by = c /\ l.run = r => l.n < k + 1
  BY <1>1, <1>3, <1>4, <1>a DEF LogInv, Numbered
<1>6. \A s \in raised : s[1] = c /\ s[2] = r => s[3] < k + 1
  BY <1>1, <1>3, <1>4, <1>a DEF LogInv, Numbered
<1>7. /\ \A p \in Procs : /\ run[p] <= run'[p]
                          /\ run'[p] = run[p] => made[p] <= made'[p]
      /\ run'[c] = r /\ made'[c] = k + 1
  BY <1>1, <1>4, <1>a, <1>b
<1>8. run' \in [Procs -> Nat] /\ made' \in [Procs -> Nat]
  BY <1>1, <1>4, <1>b
<1>9. Numbered'
  <2>1. \A p \in Procs : prev'[p] = made'[p]
    BY <1>4, <1>b DEF LogInv, Numbered
  <2>2. ASSUME NEW l \in file'
        PROVE  l.prev + 1 = l.n /\ l.run <= run'[l.by] /\ (l.run = run'[l.by] => l.n <= made'[l.by])
    <3>1. CASE l = e
      BY <1>1, <1>7, <3>1
    <3>2. CASE l \in file
      <4>1. /\ l.prev + 1 = l.n /\ l.run <= run[l.by]
            /\ l.run = run[l.by] => l.n <= made[l.by]
        BY <3>2 DEF LogInv, Numbered
      <4>2. l.by \in Procs /\ l.run \in Nat /\ l.n \in Nat
        BY <1>3, <3>2
      <4>3. /\ run[l.by] \in Nat /\ run'[l.by] \in Nat /\ made[l.by] \in Nat /\ made'[l.by] \in Nat
            /\ run[l.by] <= run'[l.by] /\ (run'[l.by] = run[l.by] => made[l.by] <= made'[l.by])
        BY <1>4, <1>7, <1>8, <4>2
      <4> QED  BY <4>1, <4>2, <4>3
    <3> QED  BY <1>2, <3>1, <3>2
  <2>3. ASSUME NEW s \in raised'
        PROVE  s[2] <= run'[s[1]] /\ (s[2] = run'[s[1]] => s[3] <= made'[s[1]])
    <3>1. CASE s = <<c, r, k + 1>>
      BY <1>1, <1>7, <3>1
    <3>2. CASE s \in raised
      <4>1. s[2] <= run[s[1]] /\ (s[2] = run[s[1]] => s[3] <= made[s[1]])
        BY <3>2 DEF LogInv, Numbered
      <4>2. s[1] \in Procs /\ s[2] \in Nat /\ s[3] \in Nat
        BY <1>3, <3>2
      <4>3. /\ run[s[1]] \in Nat /\ run'[s[1]] \in Nat /\ made[s[1]] \in Nat /\ made'[s[1]] \in Nat
            /\ run[s[1]] <= run'[s[1]] /\ (run'[s[1]] = run[s[1]] => made[s[1]] <= made'[s[1]])
        BY <1>4, <1>7, <1>8, <4>2
      <4> QED  BY <4>1, <4>2, <4>3
    <3> QED  BY <1>c, <3>1, <3>2
  <2> QED  BY <2>1, <2>2, <2>3 DEF Numbered
<1>10. Marked'
  <2> SUFFICES ASSUME NEW m \in file', <<m.by, m.run, m.n>> \in raised'
               PROVE  m.alarm
    BY DEF Marked
  <2>1. CASE m = e
    <3>1. <<m.by, m.run, m.n>> = <<c, r, k + 1>>
      BY <1>1, <2>1
    <3>2. <<c, r, k + 1>> \notin raised
      BY <1>1, <1>6
    <3>3. <<c, r, k + 1>> \in raised'
      BY <3>1, Zenon
    <3>4. raised' # raised
      BY <3>2, <3>3, Zenon
    <3>5. a
      BY <1>c, <3>4, Zenon
    <3> QED  BY <1>1, <2>1, <3>5
  <2>2. CASE m \in file
    <3>1. <<m.by, m.run, m.n>> # <<c, r, k + 1>>
      BY <1>3, <1>5, <2>2
    <3>2. <<m.by, m.run, m.n>> \in raised
      BY <1>c, <3>1
    <3> QED  BY <2>2, <3>2 DEF LogInv, Marked
  <2> QED  BY <1>2, <2>1, <2>2
<1>11. Contiguous'
  <2>1. CASE file' = file
    BY <2>1, ContiguousSame DEF LogInv
  <2>2. CASE file' = file \cup {e}
    <3>1. \A l \in file : l.by = e.by /\ l.run = e.run => l.n < e.n
      BY <1>1, <1>5
    <3>2. \A l \in file : l.prev + 1 = l.n
      BY DEF LogInv, Numbered
    <3>3. e.prev + 1 = e.n
      BY <1>1
    <3> QED  BY <1>1, <2>2, <3>1, <3>2, <3>3, AppendContiguous DEF LogInv, TypeOK
  <2> QED  BY <1>2, <2>1, <2>2
<1> QED  BY <1>9, <1>10, <1>11

LEMMA LogSame ==
  ASSUME LogInv, UNCHANGED <<auditVars, raised>>
  PROVE  Numbered' /\ Marked' /\ Contiguous'
BY ContiguousSame DEF LogInv, Numbered, Marked, auditVars

LEMMA WriteLog ==
  ASSUME LogInv, NEW c \in Procs, NEW a \in BOOLEAN, Write(c, a),
         raised' = raised \/ (a /\ raised' = raised \cup {<<c, run[c], made[c] + 1>>})
  PROVE  Numbered' /\ Marked' /\ Contiguous'
<1>1. /\ run[c] \in Nat /\ made[c] \in Nat /\ prev[c] = made[c]
      /\ run \in [Procs -> Nat]
  BY DEF LogInv, TypeOK, AuditTypeOK, Numbered
<1> DEFINE e == Entry(c, run[c], made[c] + 1, prev[c], a)
<1>2. AppendLine(e)
  BY Zenon DEF Write
<1>3. /\ e \in Lines
      /\ e.by = c /\ e.run = run[c] /\ e.n = made[c] + 1 /\ e.prev = made[c] /\ e.alarm = a
  BY <1>1, EntryType DEF Entry
<1> HIDE DEF e
<1>4. file' = file \cup {e} \/ file' = file
  BY <1>2, AppendEffect
<1>5. run' = [run EXCEPT ![c] = e.run]
  BY <1>1, <1>3 DEF Write
<1>6. made' = [made EXCEPT ![c] = e.n] /\ prev' = [prev EXCEPT ![c] = e.n]
  BY <1>3 DEF Write
<1>7. raised' = raised \/ (e.alarm /\ raised' = raised \cup {<<c, e.run, e.n>>})
  BY <1>3
<1>8. e.n = e.prev + 1 /\ e.run = run[c] /\ e.prev = made[c] /\ e.by = c /\ e \in Lines
  BY <1>3
<1>9. (e.run = run[c] /\ e.prev = made[c]) \/ (e.run = run[c] + 1 /\ e.prev = 0)
  BY <1>8
<1> QED  BY <1>4, <1>5, <1>6, <1>7, <1>8, <1>9, EntryStep, Zenon

LEMMA LogStep == LogInv /\ [Next]_vars => LogInv'
<1> SUFFICES ASSUME LogInv, [Next]_vars PROVE Numbered' /\ Marked' /\ Contiguous'
  BY TypeStep DEF LogInv
<1>1. ASSUME NEW c \in Procs, Start(c) PROVE Numbered' /\ Marked' /\ Contiguous'
  <2> DEFINE e == Entry(c, run[c] + 1, 1, Zeros, FALSE)
  <2>1. AppendLine(e)
    BY <1>1, Zenon DEF Start, Open
  <2>2. run[c] + 1 \in Nat /\ 0 \in Nat /\ FALSE \in BOOLEAN
    BY DEF LogInv, TypeOK, AuditTypeOK
  <2>3. e \in Lines
    BY <2>2, EntryType, 1 \in Nat DEF Zeros
  <2>4. e.by = c /\ e.run = run[c] + 1 /\ e.n = 1 /\ e.prev = 0
    BY DEF Entry, Zeros
  <2> HIDE DEF e
  <2>5. file' = file \cup {e} \/ file' = file
    BY <2>1, AppendEffect
  <2>6. /\ run' = [run EXCEPT ![c] = e.run] /\ raised' = raised
        /\ made' = [made EXCEPT ![c] = e.n] /\ prev' = [prev EXCEPT ![c] = e.n]
    BY <1>1, <2>4 DEF Start, Open
  <2>7. e.n = e.prev + 1
    BY <2>4
  <2> QED  BY <2>3, <2>4, <2>5, <2>6, <2>7, EntryStep
<1>2. ASSUME NEW c \in Procs, Kill(c) PROVE Numbered' /\ Marked' /\ Contiguous'
  BY <1>2, LogSame DEF Kill
<1>3. ASSUME NEW c \in Procs, Event(c) PROVE Numbered' /\ Marked' /\ Contiguous'
  <2>1. Write(c, FALSE)
    BY <1>3, Zenon DEF Event
  <2>2. raised' = raised /\ FALSE \in BOOLEAN
    BY <1>3 DEF Event
  <2> QED  BY <2>1, <2>2, WriteLog
<1>4. ASSUME NEW c \in Watched, NEW x \in Rates, Packet(c, x)
      PROVE  Numbered' /\ Marked' /\ Contiguous'
  <2>1. c \in Procs
    BY MonitoringAssumption
  <2>2. CASE Anomalous(det[c], x)
    BY <1>4, <2>1, <2>2, WriteLog DEF Packet
  <2>3. CASE ~ Anomalous(det[c], x)
    BY <1>4, <2>3, LogSame DEF Packet
  <2> QED  BY <2>2, <2>3
<1>5. CASE UNCHANGED vars
  BY <1>5, LogSame DEF vars
<1> QED  BY <1>1, <1>2, <1>3, <1>4, <1>5 DEF Next

LEMMA LogInit == Init => LogInv
BY TypeInit DEF Init, AuditInit, LogInv, Numbered, Marked, Contiguous, Zeros

\* A run whose entries on file follow one another has every entry up to the last of
\* these on file, its alarms as alarms.  What was lost after that one is not seen.
THEOREM GapsShow == Spec => []LinkedRunIsComplete
<1>1. Init => LogInv  BY LogInit
<1>2. LogInv /\ [Next]_vars => LogInv'  BY LogStep
<1>3. LogInv => LinkedRunIsComplete
  <2> SUFFICES ASSUME LogInv, NEW l \in file, Linked(l.by, l.run), NEW k \in 1 .. l.n
               PROVE  \E m \in file : /\ m.by = l.by /\ m.run = l.run /\ m.n = k
                                      /\ <<l.by, l.run, k>> \in raised => m.alarm
    BY DEF LinkedRunIsComplete
  <2>1. PICK m \in file : m.by = l.by /\ m.run = l.run /\ m.n = k
    BY DEF LogInv, Contiguous
  <2>2. <<m.by, m.run, m.n>> \in raised => m.alarm
    BY DEF LogInv, Marked
  <2> QED  BY <2>1, <2>2
<1> QED  BY <1>1, <1>2, <1>3, PTL DEF Spec

-----------------------------------------------------------------------------
(* The detector: what it has learnt lies within the samples it was fed.    *)

Width(l, h) == h * Scale - l * Scale

\* Detector d has only seen samples between l and h.
Within(d, l, h) ==
  d.count > 0 => /\ l <= h
                 /\ l * Scale <= d.mean /\ d.mean <= h * Scale
                 /\ d.var <= Width(l, h) * Width(l, h)

Hull == \A c \in Procs : Within(det[c], lo[c], hi[c])

DetInv == TypeOK /\ Hull /\ SteadyTrafficIsQuiet

LEMMA ScaledOrder ==
  ASSUME NEW a \in Nat, NEW b \in Nat
  PROVE  /\ a * Scale \in Nat /\ b * Scale \in Nat
         /\ a <= b => a * Scale <= b * Scale
<1>1. a * Scale \in Nat /\ b * Scale \in Nat
  BY AnomalyAssumption, SMT
<1>2. ASSUME a <= b PROVE a * Scale <= b * Scale
  <2>1. (b - a) * Scale >= 0
    BY AnomalyAssumption, <1>2, SMT
  <2>2. (b - a) * Scale = b * Scale - a * Scale
    BY AnomalyAssumption, SMT
  <2> QED  BY <1>1, <2>1, <2>2
<1> QED  BY <1>1, <1>2

\* A sample is no further from the mean than the samples are from each other.
LEMMA DevWithin ==
  ASSUME NEW d \in Detectors, NEW x \in Nat, NEW l \in Nat, NEW h \in Nat,
         l <= x, x <= h, l * Scale <= d.mean, d.mean <= h * Scale
  PROVE  /\ Dev(d, x) \in Int /\ Width(l, h) \in Nat
         /\ Dev(d, x) <= Width(l, h) /\ -Dev(d, x) <= Width(l, h)
<1>1. l * Scale \in Nat /\ x * Scale \in Nat /\ h * Scale \in Nat
  BY ScaledOrder
<1>2. l * Scale <= x * Scale /\ x * Scale <= h * Scale
  BY ScaledOrder
<1>3. d.mean \in Nat
  BY DEF Detectors
<1> DEFINE ls == l * Scale
           xs == x * Scale
           hs == h * Scale
<1>4. ls \in Nat /\ xs \in Nat /\ hs \in Nat /\ ls <= xs /\ xs <= hs
      /\ ls <= d.mean /\ d.mean <= hs
  BY <1>1, <1>2
<1>5. Dev(d, x) = xs - d.mean /\ Width(l, h) = hs - ls
  BY DEF Dev, Width
<1> HIDE DEF ls, xs, hs
<1> QED  BY <1>3, <1>4, <1>5

LEMMA FeedWithin ==
  ASSUME NEW d \in Detectors, NEW x \in Nat, NEW l \in Nat, NEW h \in Nat,
         NEW m \in Nat, NEW n \in Nat, Within(d, l, h),
         d.count = 0 => m = x /\ n = x,
         d.count > 0 => m <= l /\ m <= x /\ h <= n /\ x <= n
  PROVE  Within(Feed(d, x), m, n)
<1>1. d.count \in Nat /\ d.mean \in Nat /\ d.var \in Nat
  BY DEF Detectors
<1>2. x * Scale \in Nat /\ m * Scale \in Nat /\ n * Scale \in Nat /\ l * Scale \in Nat /\ h * Scale \in Nat
  BY ScaledOrder
<1>3. CASE d.count = 0
  <2>1. Feed(d, x).mean = x * Scale /\ Feed(d, x).var = 0
    BY <1>3 DEF Feed
  <2>2. Width(x, x) = 0
    BY <1>2 DEF Width
  <2> QED  BY <1>2, <1>3, <2>1, <2>2 DEF Within
<1>4. CASE d.count > 0
  <2>1. /\ l <= h /\ l * Scale <= d.mean /\ d.mean <= h * Scale
        /\ d.var <= Width(l, h) * Width(l, h)
        /\ m <= l /\ m <= x /\ h <= n /\ x <= n
    BY <1>4 DEF Within
  <2>2. m * Scale <= l * Scale /\ h * Scale <= n * Scale
        /\ m * Scale <= x * Scale /\ x * Scale <= n * Scale /\ l * Scale <= h * Scale
    BY <2>1, ScaledOrder
  <2>3. m * Scale <= d.mean /\ d.mean <= n * Scale
    <3> DEFINE ms == m * Scale
               ls == l * Scale
               hs == h * Scale
               ns == n * Scale
    <3>1. ms \in Nat /\ ls \in Nat /\ hs \in Nat /\ ns \in Nat
          /\ ms <= ls /\ ls <= d.mean /\ d.mean <= hs /\ hs <= ns
      BY <1>2, <2>1, <2>2
    <3> HIDE DEF ms, ls, hs, ns
    <3>2. ms <= d.mean /\ d.mean <= ns
      BY <1>1, <3>1
    <3> QED  BY <3>2 DEF ms, ns
  <2> DEFINE e == Dev(d, x)
             w == Width(l, h)
             v == Width(m, n)
  <2>4. e \in Int /\ v \in Nat /\ e <= v /\ -e <= v
    BY <2>1, <2>3, DevWithin
  <2>5. w \in Nat /\ w <= v
    <3> DEFINE ms == m * Scale
               ls == l * Scale
               hs == h * Scale
               ns == n * Scale
    <3>1. ms \in Nat /\ ls \in Nat /\ hs \in Nat /\ ns \in Nat /\ ms <= ls /\ ls <= hs /\ hs <= ns
      BY <1>2, <2>2
    <3>2. w = hs - ls /\ v = ns - ms
      BY DEF Width
    <3> HIDE DEF ms, ls, hs, ns, w, v
    <3> QED  BY <3>1, <3>2
  <2>6. d.var <= w * w
    BY <2>1
  <2>7. /\ Feed(d, x).mean = Smooth(x * Scale, d.mean)
        /\ Feed(d, x).var = Smooth(e * e, d.var)
    BY <1>1, <1>4 DEF Feed
  <2> HIDE DEF e, w, v
  <2>8. e * e \in Nat /\ e * e <= v * v /\ v * v \in Nat
    BY <2>4, Square, SquareBelow
  <2>9. w * w <= v * v /\ w * w \in Nat
    BY <2>4, <2>5, Square, SquareBelow, -w <= v
  <2> DEFINE ee == e * e
             ww == w * w
             vv == v * v
  <2>10. Smooth(ee, d.var) <= vv
    <3>1. ee \in Nat /\ ww \in Nat /\ vv \in Nat /\ ee <= vv /\ ww <= vv /\ d.var <= ww
      BY <2>6, <2>8, <2>9
    <3> HIDE DEF ee, ww, vv
    <3>2. d.var <= vv /\ 0 <= ee /\ 0 <= d.var /\ 0 \in Nat
      BY <1>1, <3>1
    <3> QED  BY <1>1, <3>1, <3>2, SmoothBetween
  <2>11. m * Scale <= Smooth(x * Scale, d.mean) /\ Smooth(x * Scale, d.mean) <= n * Scale
    BY <1>1, <1>2, <2>2, <2>3, SmoothBetween
  <2>12. m <= n
    BY <2>1
  <2> QED  BY <2>7, <2>10, <2>11, <2>12 DEF Within, v
<1> QED  BY <1>1, <1>3, <1>4

\* Within a band of three packets no sample is an anomaly.
LEMMA BandQuiet ==
  ASSUME NEW d \in Detectors, NEW x \in Nat, NEW l \in Nat, NEW h \in Nat,
         l <= x, x <= h, l * Scale <= d.mean, d.mean <= h * Scale, h - l <= 3
  PROVE  ~ Exceeds(d, x)
<1>1. /\ Dev(d, x) \in Int /\ Width(l, h) \in Nat
      /\ Dev(d, x) <= Width(l, h) /\ -Dev(d, x) <= Width(l, h)
  BY DevWithin
<1>2. h <= l + 3 /\ l + 3 \in Nat
  OBVIOUS
<1>3. h * Scale <= (l + 3) * Scale
  BY <1>2, ScaledOrder
<1>4. (l + 3) * Scale = l * Scale + 3 * Scale
  BY AnomalyAssumption, SMT
<1>5. l * Scale \in Nat /\ h * Scale \in Nat
  BY ScaledOrder
<1>6. Width(l, h) <= 3 * Scale
  <2> DEFINE ls == l * Scale
             hs == h * Scale
  <2>1. ls \in Nat /\ hs \in Nat /\ hs <= ls + 3 * Scale
    BY <1>3, <1>4, <1>5
  <2>2. Width(l, h) = hs - ls
    BY DEF Width
  <2> HIDE DEF ls, hs
  <2> QED  BY <2>1, <2>2, AnomalyAssumption
<1>7. d.mean \in Nat
  BY DEF Detectors
<1> DEFINE e == Dev(d, x)
<1>8. e \in Int /\ e <= 3 * Scale /\ -e <= 3 * Scale
  BY <1>1, <1>6, AnomalyAssumption
<1> HIDE DEF e
<1>9. ~ (100 * e > 3 * (d.mean + 100 * Scale)) /\ ~ (-100 * e > 3 * (d.mean + 100 * Scale))
  BY <1>7, <1>8, AnomalyAssumption
<1> QED  BY <1>9 DEF Exceeds, e

LEMMA DetStep == DetInv /\ [Next]_vars => DetInv'
<1> SUFFICES ASSUME DetInv, [Next]_vars PROVE Hull' /\ SteadyTrafficIsQuiet'
  BY TypeStep DEF DetInv
<1>1. ASSUME UNCHANGED <<det, lo, hi, last>> PROVE Hull' /\ SteadyTrafficIsQuiet'
  BY <1>1 DEF DetInv, Hull, SteadyTrafficIsQuiet
<1>2. ASSUME NEW c \in Procs, Kill(c) PROVE Hull' /\ SteadyTrafficIsQuiet'
  <2>1. \A p \in Procs : p # c => det'[p] = det[p] /\ lo'[p] = lo[p] /\ hi'[p] = hi[p] /\ last'[p] = last[p]
    BY <1>2 DEF Kill, DetInv, TypeOK
  <2>2. det'[c].count = 0 /\ ~ last'[c].alarm
    BY <1>2 DEF Kill, DetInv, TypeOK, NewDetector, NoSample
  <2>3. Hull'
    BY <2>1, <2>2 DEF Hull, Within, DetInv
  <2> QED  BY <2>1, <2>2, <2>3 DEF SteadyTrafficIsQuiet, DetInv
<1>3. ASSUME NEW c \in Watched, NEW x \in Rates, Packet(c, x) PROVE Hull' /\ SteadyTrafficIsQuiet'
  <2>1. c \in Procs /\ x \in Nat
    BY MonitoringAssumption
  <2>2. det[c] \in Detectors /\ det[c].count \in Nat /\ lo[c] \in Nat /\ hi[c] \in Nat
    BY <2>1 DEF DetInv, TypeOK, Detectors
  <2>3. \A p \in Procs : p # c => det'[p] = det[p] /\ lo'[p] = lo[p] /\ hi'[p] = hi[p] /\ last'[p] = last[p]
    BY <1>3 DEF Packet, DetInv, TypeOK
  <2>4. /\ det'[c] = Feed(det[c], x)
        /\ lo'[c] = IF det[c].count = 0 \/ x < lo[c] THEN x ELSE lo[c]
        /\ hi'[c] = IF det[c].count = 0 \/ x > hi[c] THEN x ELSE hi[c]
    BY <1>3, <2>1 DEF Packet, DetInv, TypeOK
  <2>5. last'[c].alarm = Anomalous(det[c], x)
    BY <1>3, <2>1 DEF Packet, DetInv, TypeOK
  <2>6. Within(det[c], lo[c], hi[c])
    BY <2>1 DEF DetInv, Hull
  <2>7. /\ lo'[c] \in Nat /\ hi'[c] \in Nat /\ lo'[c] <= x /\ x <= hi'[c]
        /\ det[c].count = 0 => lo'[c] = x /\ hi'[c] = x
        /\ det[c].count > 0 => lo'[c] <= lo[c] /\ hi[c] <= hi'[c]
    BY <2>1, <2>2, <2>4
  <2>8. Within(det'[c], lo'[c], hi'[c])
    BY <2>1, <2>2, <2>4, <2>6, <2>7, FeedWithin
  <2>9. hi'[c] - lo'[c] <= 3 => ~ last'[c].alarm
    <3> SUFFICES ASSUME hi'[c] - lo'[c] <= 3, det[c].count > 0 PROVE ~ Exceeds(det[c], x)
      BY <2>5 DEF Anomalous
    <3>1. /\ lo[c] * Scale <= det[c].mean /\ det[c].mean <= hi[c] * Scale
          /\ lo'[c] <= lo[c] /\ hi[c] <= hi'[c]
      BY <2>6, <2>7 DEF Within
    <3>2. lo'[c] * Scale <= lo[c] * Scale /\ hi[c] * Scale <= hi'[c] * Scale
          /\ lo'[c] * Scale \in Nat /\ lo[c] * Scale \in Nat /\ hi[c] * Scale \in Nat /\ hi'[c] * Scale \in Nat
      BY <2>2, <2>7, <3>1, ScaledOrder
    <3>3. lo'[c] * Scale <= det[c].mean /\ det[c].mean <= hi'[c] * Scale
      <4>1. det[c].mean \in Nat
        BY <2>2 DEF Detectors
      <4> QED  BY <3>1, <3>2, <4>1
    <3> QED  BY <2>1, <2>2, <2>7, <3>3, BandQuiet
  <2>10. Hull'
    BY <2>3, <2>8 DEF Hull, DetInv
  <2> QED  BY <2>3, <2>9, <2>10 DEF SteadyTrafficIsQuiet, DetInv
<1>4. CASE UNCHANGED vars
  BY <1>1, <1>4 DEF vars
<1> QED  BY <1>1, <1>2, <1>3, <1>4 DEF Next, Start, Event

LEMMA DetInit == Init => DetInv
BY TypeInit DEF Init, DetInv, Hull, Within, SteadyTrafficIsQuiet, NewDetector, NoSample

LEMMA DetAlways == Spec => []DetInv
BY DetInit, DetStep, PTL DEF Spec

\* Traffic within a band of three packets per second never raises an alarm.
THEOREM SteadyTrafficRaisesNone == Spec => []SteadyTrafficIsQuiet
<1>1. DetInv => SteadyTrafficIsQuiet  BY DEF DetInv
<1> QED  BY <1>1, DetAlways, PTL

\* A distance of o packets beyond three widths and three times the least
\* deviation is an anomaly.
LEMMA FarIsFlagged ==
  ASSUME NEW d \in Detectors, NEW x \in Nat, NEW l \in Nat, NEW h \in Nat, NEW o \in Nat,
         d.count > 0, Within(d, l, h), o > 3 * (h - l), 100 * o > 3 * (h + 100),
         x = h + o \/ l = x + o
  PROVE  Exceeds(d, x)
<1>1. /\ l <= h /\ l * Scale <= d.mean /\ d.mean <= h * Scale
      /\ d.var <= Width(l, h) * Width(l, h) /\ d.mean \in Nat /\ d.var \in Nat
  BY DEF Within, Detectors
<1>2. /\ l * Scale \in Nat /\ h * Scale \in Nat /\ x * Scale \in Nat /\ o * Scale \in Nat
  BY ScaledOrder
<1> DEFINE ls == l * Scale
           hs == h * Scale
           os == o * Scale
           w == Width(l, h)
           e == Dev(d, x)
           a == IF x = h + o THEN e ELSE -e
<1>3. w = hs - ls /\ w \in Nat
  <2>1. hs \in Nat /\ ls \in Nat /\ ls <= hs
    BY <1>1, <1>2, ScaledOrder
  <2> QED  BY <2>1 DEF Width
<1>4. e \in Int /\ e = x * Scale - d.mean
  BY <1>1, <1>2 DEF Dev
<1>5. x = h + o => x * Scale = hs + os
  BY AnomalyAssumption, SMT
<1>6. l = x + o => ls = x * Scale + os
  BY AnomalyAssumption, SMT
<1>7. a \in Int /\ a >= os
  <2> DEFINE xs == x * Scale
  <2>1. /\ xs \in Nat /\ hs \in Nat /\ ls \in Nat /\ os \in Nat /\ e = xs - d.mean
        /\ (x = h + o => xs = hs + os) /\ (l = x + o => ls = xs + os)
        /\ ls <= d.mean /\ d.mean <= hs
    BY <1>1, <1>2, <1>4, <1>5, <1>6
  <2> HIDE DEF xs, hs, ls, os, e
  <2> QED  BY <1>1, <2>1
<1>8. os >= 3 * w + Scale
  <2>1. 3 * (h - l) + 1 \in Nat /\ 3 * (h - l) + 1 <= o
    BY <1>1
  <2>2. (3 * (h - l) + 1) * Scale <= os
    BY <2>1, ScaledOrder
  <2>3. (3 * (h - l) + 1) * Scale = 3 * w + Scale
    BY <1>3, AnomalyAssumption, SMT
  <2> HIDE DEF w, os
  <2> QED  BY <1>2, <1>3, <2>2, <2>3
<1>9. 100 * os >= 3 * hs + 300 * Scale + Scale
  <2>1. 3 * (h + 100) + 1 \in Nat /\ 3 * (h + 100) + 1 <= 100 * o /\ 100 * o \in Nat
    OBVIOUS
  <2>2. (3 * (h + 100) + 1) * Scale <= (100 * o) * Scale
    BY <2>1, ScaledOrder
  <2>3. (3 * (h + 100) + 1) * Scale = 3 * hs + 300 * Scale + Scale /\ (100 * o) * Scale = 100 * os
    BY AnomalyAssumption, SMT
  <2> HIDE DEF hs, os
  <2> QED  BY <2>2, <2>3
<1>10. hs \in Nat /\ os \in Nat /\ d.mean <= hs
  BY <1>1, <1>2
<1> HIDE DEF ls, hs, os, w
<1>11. 100 * a > 3 * (d.mean + 100 * Scale)
  <2> HIDE DEF a
  <2> QED  BY <1>1, <1>7, <1>9, <1>10, AnomalyAssumption
<1>12. a * a > 9 * d.var
  <2> DEFINE t == 3 * w + 1
  <2> HIDE DEF a
  <2>1. t \in Nat /\ t <= a /\ a \in Nat
    BY <1>3, <1>7, <1>8, <1>10, AnomalyAssumption
  <2>2. t * t <= a * a
    <3>1. t * t <= a * t /\ a * t <= a * a /\ t * t \in Int /\ a * t \in Int /\ a * a \in Int
      <4> HIDE DEF t
      <4> QED  BY <2>1, SMT
    <3> HIDE DEF t
    <3> QED  BY <3>1
  <2>3. t * t = 9 * (w * w) + 6 * w + 1
    BY <1>3, SMT
  <2>4. w * w \in Nat /\ d.var <= w * w
    BY <1>1, <1>3, Square DEF w
  <2>5. a * a \in Int /\ t * t \in Int
    BY <2>1, SMT
  <2> DEFINE ww == w * w
             aa == a * a
             tt == t * t
  <2>6. /\ ww \in Nat /\ d.var <= ww /\ tt = 9 * ww + 6 * w + 1 /\ tt <= aa
        /\ aa \in Int /\ tt \in Int
    BY <2>2, <2>3, <2>4, <2>5
  <2> HIDE DEF ww, aa, tt
  <2>7. aa > 9 * d.var
    BY <1>1, <1>3, <2>6
  <2> QED  BY <2>7 DEF aa
<1>13. a * a = e * e
  BY <1>4, SMT
<1>14. 100 * e > 3 * (d.mean + 100 * Scale) \/ -100 * e > 3 * (d.mean + 100 * Scale)
  <2>1. a = e \/ a = -e
    OBVIOUS
  <2> HIDE DEF a, e
  <2>2. 100 * (-e) = -100 * e
    BY <1>4
  <2> QED  BY <1>11, <2>1, <2>2
<1> QED  BY <1>12, <1>13, <1>14 DEF Exceeds, e

\* After the warm-up every sample that lies far enough from all samples before
\* it raises an alarm.
THEOREM SpikesAreFlagged == Spec => []SpikeIsFlagged
<1>1. DetInv => SpikeIsFlagged
  <2> SUFFICES ASSUME DetInv, NEW c \in Procs, NEW x \in Rates,
                      det[c].count > 0, det[c].count + 1 >= Warmup,
                      \/ x - hi[c] > 3 * (hi[c] - lo[c]) /\ 100 * (x - hi[c]) > 3 * (hi[c] + 100)
                      \/ lo[c] - x > 3 * (hi[c] - lo[c]) /\ 100 * (lo[c] - x) > 3 * (hi[c] + 100)
               PROVE  Exceeds(det[c], x)
    BY DEF SpikeIsFlagged, Anomalous
  <2>1. /\ det[c] \in Detectors /\ lo[c] \in Nat /\ hi[c] \in Nat /\ x \in Nat
        /\ Within(det[c], lo[c], hi[c])
    BY MonitoringAssumption DEF DetInv, TypeOK, Hull
  <2>2. CASE x - hi[c] > 3 * (hi[c] - lo[c]) /\ 100 * (x - hi[c]) > 3 * (hi[c] + 100)
    <3>1. x - hi[c] \in Nat /\ x = hi[c] + (x - hi[c])
      BY <2>1, <2>2
    <3> QED  BY <2>1, <2>2, <3>1, FarIsFlagged
  <2>3. CASE lo[c] - x > 3 * (hi[c] - lo[c]) /\ 100 * (lo[c] - x) > 3 * (hi[c] + 100)
    <3>1. lo[c] - x \in Nat /\ lo[c] = x + (lo[c] - x)
      BY <2>1, <2>3
    <3> QED  BY <2>1, <2>3, <3>1, FarIsFlagged
  <2> QED  BY <2>2, <2>3
<1> QED  BY <1>1, DetAlways, PTL

-----------------------------------------------------------------------------
(* A jump is learnt at once.                                               *)

LEMMA JumpIsLearnt ==
  ASSUME NEW d \in Detectors, NEW x \in Nat, d.count > 0, Exceeds(d, x)
  PROVE  ~ Exceeds(Feed(d, x), x)
<1> DEFINE e == Dev(d, x)
           m == Smooth(x * Scale, d.mean)
           v == Smooth(e * e, d.var)
           f == x * Scale - m
           a == IF e >= 0 THEN e ELSE -e
<1>1. d.count \in Nat /\ d.mean \in Nat /\ d.var \in Nat /\ x * Scale \in Nat
  BY ScaledOrder DEF Detectors
<1>2. e \in Int /\ e = x * Scale - d.mean /\ e * e \in Nat
  BY <1>1, Square DEF Dev
<1>3. Dev(Feed(d, x), x) = f /\ Feed(d, x).var = v
  BY <1>1 DEF Feed, Dev
<1>4. a \in Nat /\ a >= 31
  <2>1. 100 * e > 3 * (d.mean + 100 * Scale) \/ -100 * e > 3 * (d.mean + 100 * Scale)
    BY DEF Exceeds
  <2>2. e \in Int
    BY <1>2
  <2> HIDE DEF e
  <2> QED  BY <1>1, <2>1, <2>2, AnomalyAssumption
<1>5. m \in Nat /\ 10 * m <= x * Scale + 9 * d.mean /\ x * Scale + 9 * d.mean <= 10 * m + 9
  <2> DEFINE n == x * Scale + 9 * d.mean
  <2>1. n \in Nat
    BY <1>1
  <2>2. m = n \div 10
    BY DEF Smooth
  <2> HIDE DEF n, m
  <2>3. m \in Nat /\ 10 * m <= n /\ n <= 10 * m + 9
    BY <2>1, <2>2, Tenth
  <2> QED  BY <2>3 DEF n
<1>6. f \in Int /\ 9 * e <= 10 * f /\ 10 * f <= 9 * e + 9
  <2> DEFINE xs == x * Scale
  <2>1. /\ xs \in Nat /\ m \in Nat /\ e = xs - d.mean /\ f = xs - m
        /\ 10 * m <= xs + 9 * d.mean /\ xs + 9 * d.mean <= 10 * m + 9
    BY <1>1, <1>2, <1>5
  <2> HIDE DEF xs, m, e, f
  <2> QED  BY <1>1, <2>1
<1>7. v \in Nat /\ e * e <= 10 * v + 9
  <2> DEFINE ee == e * e
  <2>1. ee \in Nat /\ ee + 9 * d.var \in Nat
    BY <1>1, <1>2
  <2>2. v = (ee + 9 * d.var) \div 10
    BY DEF Smooth
  <2> HIDE DEF ee, v
  <2>3. v \in Nat /\ ee + 9 * d.var <= 10 * v + 9
    BY <2>1, <2>2, Tenth
  <2>4. ee <= 10 * v + 9
    BY <1>1, <2>1, <2>3
  <2> QED  BY <2>3, <2>4 DEF ee
<1>8. a * a = e * e
  BY <1>2, SMT
<1> HIDE DEF m, v, f
<1>9. 10 * f <= 9 * a + 9 /\ -(10 * f) <= 9 * a + 9
  <2>1. e \in Int
    BY <1>2
  <2> HIDE DEF e
  <2> QED  BY <1>4, <1>6, <2>1
<1> HIDE DEF e, a
<1>10. (10 * f) * (10 * f) <= (9 * a + 9) * (9 * a + 9)
  <2>1. 10 * f \in Int /\ 9 * a + 9 \in Nat
    BY <1>4, <1>6
  <2> QED  BY <1>9, <2>1, SquareBelow
<1>11. (10 * f) * (10 * f) = 100 * (f * f) /\ (9 * a + 9) * (9 * a + 9) = 81 * (a * a) + 162 * a + 81
  BY <1>4, <1>6, SMT
<1>12. a * a >= 31 * a /\ a * a \in Nat /\ f * f \in Nat
  BY <1>4, <1>6, Square, SMT
<1>13. f * f <= 9 * v
  <2> DEFINE aa == a * a
             ff == f * f
  <2>1. /\ aa \in Nat /\ ff \in Nat /\ aa >= 31 * a /\ 100 * ff <= 81 * aa + 162 * a + 81
        /\ aa <= 10 * v + 9
    BY <1>7, <1>8, <1>10, <1>11, <1>12
  <2> HIDE DEF aa, ff
  <2>2. ff <= 9 * v
    BY <1>4, <1>7, <2>1
  <2> QED  BY <2>2 DEF ff
<1>14. ~ (f * f > 9 * v)
  <2>1. f * f \in Nat /\ v \in Nat
    BY <1>7, <1>12
  <2> DEFINE ff == f * f
  <2>2. ff \in Nat /\ ff <= 9 * v
    BY <1>13, <2>1
  <2> HIDE DEF ff
  <2>3. ~ (ff > 9 * v)
    BY <2>1, <2>2
  <2> QED  BY <2>3 DEF ff
<1> QED  BY <1>3, <1>14 DEF Exceeds

\* The rate that raised an alarm raises none when it comes again at once.
THEOREM RepeatRaisesNone == Spec => []RepeatIsQuiet
<1>1. Init => RepeatIsQuiet
  BY DEF Init, RepeatIsQuiet, NoSample
<1>2. TypeOK /\ RepeatIsQuiet /\ [Next]_vars => RepeatIsQuiet'
  <2> SUFFICES ASSUME TypeOK, RepeatIsQuiet, [Next]_vars PROVE RepeatIsQuiet'
    OBVIOUS
  <2>1. ASSUME UNCHANGED <<det, last>> PROVE RepeatIsQuiet'
    BY <2>1 DEF RepeatIsQuiet
  <2>2. ASSUME NEW c \in Procs, Kill(c) PROVE RepeatIsQuiet'
    <3>1. \A p \in Procs : p # c => det'[p] = det[p] /\ last'[p] = last[p]
      BY <2>2 DEF Kill, TypeOK
    <3>2. ~ last'[c].alarm
      BY <2>2 DEF Kill, TypeOK, NoSample
    <3> QED  BY <3>1, <3>2 DEF RepeatIsQuiet
  <2>3. ASSUME NEW c \in Watched, NEW x \in Rates, Packet(c, x) PROVE RepeatIsQuiet'
    <3>1. c \in Procs /\ x \in Nat
      BY MonitoringAssumption
    <3>2. \A p \in Procs : p # c => det'[p] = det[p] /\ last'[p] = last[p]
      BY <2>3 DEF Packet, TypeOK
    <3>3. /\ det'[c] = Feed(det[c], x) /\ last'[c].rate = x
          /\ last'[c].alarm = Anomalous(det[c], x)
      BY <2>3, <3>1 DEF Packet, TypeOK
    <3>4. last'[c].alarm => ~ Exceeds(det'[c], last'[c].rate)
      <4> SUFFICES ASSUME Anomalous(det[c], x) PROVE ~ Exceeds(Feed(det[c], x), x)
        BY <3>3
      <4>1. det[c] \in Detectors
        BY <3>1 DEF TypeOK
      <4> QED  BY <3>1, <4>1, JumpIsLearnt DEF Anomalous
    <3> QED  BY <3>2, <3>4 DEF RepeatIsQuiet, Anomalous
  <2>4. CASE UNCHANGED vars
    BY <2>1, <2>4 DEF vars
  <2> QED  BY <2>1, <2>2, <2>3, <2>4 DEF Next, Start, Event
<1> QED  BY <1>1, <1>2, MonitoringTypeCorrect, PTL DEF Spec

=============================================================================
